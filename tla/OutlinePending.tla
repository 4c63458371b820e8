--------------------------- MODULE OutlinePending ---------------------------
(***************************************************************************)
(* An outline that shows a structural edit before the graph has made it:   *)
(* Enter opens a row under a temporary id, Backspace joins two rows, and   *)
(* both are typed into, split again and moved while the commands wait in   *)
(* the graph session's lane (Outliner.tsx, draft-state.ts).  The text of a *)
(* row is a set of tokens, each typed once; a buffer has the text it was   *)
(* opened on and the text the user sees (content-buffer.ts).               *)
(***************************************************************************)
EXTENDS OutlineTree, FiniteSetsExt

CONSTANTS
    Blocks,        \* the outline when the page opens, each block with one token
    MaxTyped,      \* bound: tokens typed
    MaxOps,        \* bound: rows created and rows joined, beside an event
    MaxBurst,      \* bound: the same, where nothing but typing happens beside them
    MaxKeys,       \* bound: structural keys
    MaxChoices,    \* bound: choices from a completion menu
    MaxEvents,     \* bound: changes by other replicas, and faults
    MaxRaces,      \* bound: tokens, keys, choices and events together
    MaxLane        \* bound: jobs in the lane

VARIABLES
    core,          \* the Worker's outline: rows, and the text of each block
    seen,          \* the same, as the session published it
    stale,         \* needsReconcile
    collapsed,     \* the collapsed blocks
    ui,            \* the surface: see Surface
    spent          \* what the bounds have used

vars == <<core, seen, stale, collapsed, ui, spent>>

Real == 1..20
Temp == 101..120
isPendingId(id) == id \in Temp
Creation == {"insert", "split"}
Buffer(source, visible) == [source |-> source, visible |-> visible]
bufferIsClean(b) == b.source = b.visible
Typed(b) == b.visible \ b.source
rebaseOnto(b, text) == Buffer(text, (text \ (b.source \ b.visible)) \cup Typed(b))

\* The surface's own state.
\*   lane      jobs of the graph session this outline waits for, the running one first
\*   ops       pendingOperations: for a creation its anchor, placement and what the row
\*             and the anchor show; for a join its source (anchor), target and merged text
\*   busy      pendingDispatching, and whether the head waits for its command, for a
\*             publication, or for the keys pressed on its row
\*   made      the block the applied command created
\*   keys      deferred keys still to replay on that block
\*   buf       open buffers
\*   choice    pendingProperty and pendingTag: the row and the token chosen on it
\*   preparing preparingMerge: the row whose join waits for the endpoints' submissions
\*   diverged  history: operations wait that were made on text a refused command should
\*             have established
\*   dropped   history: tokens typed on a row not yet acknowledged into which another
\*             such row was joined: the join's text replaces the input as established
\*   gone      history: tokens the user deleted, or whose loss was reported
NoChoice == [id |-> Root, token |-> Root]
Surface == [lane |-> <<>>, ops |-> <<>>, busy |-> "no", made |-> Root, keys |-> <<>>,
            buf |-> <<>>, focus |-> Root, choice |-> NoChoice, preparing |-> Root, gone |-> {},
            dropped |-> {}, diverged |-> FALSE]

Init ==
    /\ core = [rows |-> Blocks, text |-> [id \in Ids(Blocks) |-> {id}]]
    /\ seen = core /\ stale = FALSE
    /\ collapsed = {}
    /\ \E id \in Ids(Blocks) : ui = [Surface EXCEPT !.focus = id]
    /\ spent = [typed |-> 0, ops |-> 0, keys |-> 0, choices |-> 0, events |-> 0]

Operations == IF spent.keys + spent.choices + spent.events = 0 THEN MaxBurst ELSE MaxOps
Spend(what, max) ==
    /\ spent[what] < max
    /\ what # "ops" => spent.typed + spent.keys + spent.choices + spent.events < MaxRaces
    /\ what \notin {"ops", "typed"} => spent.ops <= MaxOps
    /\ spent' = [spent EXCEPT ![what] = @ + 1]
-----------------------------------------------------------------------------
(* What is shown: the published outline with every pending operation on it. *)

projectedCollapsed(ops, folded) ==
    folded \ {ops[i].anchor : i \in {j \in DOMAIN ops : ops[j].kind = "merge" /\ ops[j].target \notin folded}}
\* Mutant: a row that follows a parent goes in above its children.
projectAboveChildren(rows, op) ==
    LET i == rowIndexOf(rows, op.anchor)
        t == rowIndexOf(rows, op.target)
    IN IF i = 0 \/ (op.kind = "merge" /\ t = 0) THEN rows
       ELSE IF op.kind = "merge" THEN Without(rows, {i})
       ELSE Insert(rows, IF op.mode = "before" THEN i ELSE i + 1,
                   <<Row(op.temp, rows[i].depth + IF op.mode = "child" THEN 1 ELSE 0)>>)
project(rows, op) ==
    LET i == rowIndexOf(rows, op.anchor)
        t == rowIndexOf(rows, op.target)
    IN IF i = 0 \/ (op.kind = "merge" /\ t = 0) THEN rows
       ELSE IF op.kind = "merge"
            THEN Without(rows, IF op.target \in collapsed THEN Subtree(rows, i) ELSE {i})
       ELSE Place(rows, op.anchor, op.mode, op.temp)
projectPendingOperations(rows, ops) == FoldLeft(project, rows, ops)
Shown(s, outline) ==
    projectPendingOperations(flattenOutline(outline.rows, projectedCollapsed(s.ops, collapsed)), s.ops)

BufferOf(s, id, text) == IF id \in DOMAIN s.buf THEN s.buf[id].visible ELSE text
\* What operation op says row id shows, by its index in ops.
Says(op, id) ==
    IF op.kind = "merge" THEN id = op.target
    ELSE id = op.temp \/ (op.kind = "split" /\ id = op.anchor)
\* Mutant: a split's anchor shows its own buffer.
draftOfLive(s, outline, id) ==
    LET said == {i \in DOMAIN s.ops : Says(s.ops[i], id)}
        op == s.ops[Max(said)]
    IN IF said = {} THEN BufferOf(s, id, outline.text[id])
       ELSE BufferOf(s, id, IF id = op.anchor THEN op.source ELSE op.created)
draftOf(s, outline, id) ==
    LET said == {i \in DOMAIN s.ops : Says(s.ops[i], id)}
        op == s.ops[Max(said)]
    IN IF said = {} THEN BufferOf(s, id, outline.text[id])
       ELSE IF id = op.anchor
            THEN IF op.mode = "before" THEN BufferOf(s, id, op.source) ELSE op.source
       ELSE BufferOf(s, id, op.created)

\* Rows that are not the first among their siblings.
Preceded(s) ==
    FoldLeft(LAMBDA above, op :
                 IF op.kind \in Creation /\ (op.mode = "sibling" \/ (op.mode = "before" /\ op.anchor \in above))
                 THEN above \cup {op.temp} ELSE above,
             {id \in Ids(seen.rows) : IndexAmong(seen.rows, rowIndexOf(seen.rows, id)) > 0}, s.ops)
hasOpenChildren(id) ==
    id \in Ids(seen.rows) \ collapsed /\ hasChildren(seen.rows, rowIndexOf(seen.rows, id))
-----------------------------------------------------------------------------
(* The surface's transitions, on its state as a record.                    *)

Enqueue(s, job) == [s EXCEPT !.lane = Append(@, job)]
Job(kind, id) == [kind |-> kind, id |-> id]
Open(s, id, b) == [s EXCEPT !.buf = (id :> b) @@ @]
\* The textarea with the caret observes its block's buffer.
Observed(s, id) ==
    IF id \in DOMAIN s.buf THEN s ELSE Open(s, id, Buffer(seen.text[id], seen.text[id]))
\* reset: what was typed goes; an observed block's buffer starts over from its text.
Reset(s, ids, outline) ==
    LET again == ids \cap {s.focus} \cap Ids(outline.rows) IN
    [s EXCEPT !.buf = [id \in again |-> Buffer(outline.text[id], outline.text[id])]
                          @@ [id \in DOMAIN @ \ ids |-> @[id]],
              !.gone = @ \cup UNION {Typed(s.buf[id]) : id \in ids \cap DOMAIN s.buf}]
Subject(op) == IF op.kind = "merge" THEN op.target ELSE op.temp

flush(s, id) ==
    IF isPendingId(id) \/ (\E i \in DOMAIN s.ops : s.ops[i].kind = "merge" /\ s.ops[i].target = id)
       \/ id \notin DOMAIN s.buf THEN s
    ELSE IF bufferIsClean(s.buf[id]) THEN s ELSE Enqueue(s, Job("submit", id))

\* The rows no command will claim are dropped with what was typed in them, with a notice.
abandonPending(s, outline) ==
    LET created == {i \in DOMAIN s.ops : s.ops[i].kind \in Creation}
        settled == {i \in created : ~isPendingId(s.ops[i].anchor)}
        fallback == IF settled = {} THEN Root ELSE s.ops[Max(settled)].anchor
        chosen == \E i \in created : s.ops[i].temp = s.choice.id
    IN [Reset(s, {Subject(s.ops[i]) : i \in DOMAIN s.ops}, outline) EXCEPT
          !.ops = <<>>, !.busy = "no", !.diverged = FALSE,
          !.focus = IF isPendingId(@) THEN fallback ELSE @,
          !.choice = IF chosen THEN NoChoice ELSE @,
          !.gone = @ \cup (IF chosen THEN {s.choice.token} ELSE {})]

\* commandFor: the anchor must be in the visible outline.
commandFor(op, outline) == op.anchor \in Ids(flattenOutline(outline.rows, collapsed))

dispatchPending(s, outline) ==
    IF s.busy # "no" \/ s.ops = <<>> THEN s
    ELSE LET op == Head(s.ops) IN
         IF isPendingId(op.anchor) \/ (op.kind = "merge" /\ isPendingId(op.target)) THEN s
         ELSE IF op.kind \in Creation /\ ~commandFor(op, outline) THEN abandonPending(s, outline)
         ELSE [Enqueue(s, Job(op.kind, op.anchor)) EXCEPT !.busy = "sent"]

enqueue(s, op) ==
    [Open(s, Subject(op), Buffer(op.created, op.created)) EXCEPT !.ops = Append(@, op)]
Create(kind, temp, anchor, mode, source, created) ==
    [kind |-> kind, temp |-> temp, anchor |-> anchor, target |-> Root, mode |-> mode,
     source |-> source, created |-> created, deferred |-> <<>>]
Join(source, target, merged) ==
    [kind |-> "merge", temp |-> Root, anchor |-> source, target |-> target, mode |-> "merge",
     source |-> {}, created |-> merged, deferred |-> <<>>]

activateBlock(s, id) == [s EXCEPT !.focus = id]
Command(op, id, parent, after) ==
    [op |-> op, ids |-> {id}, parent |-> parent, after |-> after, focus |-> Root]
Perform(rows, c) ==
    CASE c.op = "indent" -> indent_blocks(rows, c.ids)
      [] c.op = "outdent" -> outdent_blocks(rows, c.ids)
      [] c.op = "move" -> move_blocks(rows, c.ids, c.parent, c.after)
      [] c.op = "delete" -> delete_blocks(rows, c.ids)
\* siblingMove, as the command it produces: none past either end.
moveCommand(rows, id, delta) ==
    LET i == rowIndexOf(rows, id)
        others == Sorted(rows, Siblings(rows, i) \ {i})
        target == IndexAmong(rows, i) + delta
    IN IF i = 0 THEN {} ELSE IF target < 0 \/ target > Len(others) THEN {}
       ELSE {Command("move", id, ParentId(rows, i), IF target = 0 THEN Root ELSE rows[others[target]].id)}
keyCommand(outline, id, key) ==
    LET rows == flattenOutline(outline.rows, collapsed) IN
    IF key \in {"indent", "outdent"} THEN {Command(key, id, Root, Root)}
    ELSE moveCommand(rows, id, IF key = "up" THEN -1 ELSE 1)

\* The deferred keys one by one, each computed on what the one before it published;
\* then the next operation.
replay(s, outline) ==
    LET able == {i \in DOMAIN s.keys : keyCommand(outline, s.made, s.keys[i]) # {}} IN
    IF able = {} THEN dispatchPending([s EXCEPT !.busy = "no", !.keys = <<>>, !.made = Root], outline)
    ELSE LET i == Min(able)
             command == CHOOSE c \in keyCommand(outline, s.made, s.keys[i]) : TRUE
         IN [Enqueue(s, [kind |-> "key", id |-> s.made, command |-> command])
               EXCEPT !.busy = "replay", !.keys = SubSeq(@, i + 1, Len(@))]

Renamed(op, temp, id) ==
    [op EXCEPT !.anchor = IF @ = temp THEN id ELSE @, !.target = IF @ = temp THEN id ELSE @]
\* Mutant: the buffer stays with the temporary id.
adoptForgets(s, id) ==
    LET temp == Head(s.ops).temp IN
    [s EXCEPT !.ops = [i \in 1..(Len(@) - 1) |-> Renamed(@[i + 1], temp, id)],
              !.buf = [b \in DOMAIN @ \ {temp} |-> @[b]],
              !.focus = IF @ = temp THEN id ELSE @]
\* adopt: a dirty buffer, the caret and the later operations follow the row to its block.
adopt(s, id) ==
    LET temp == Head(s.ops).temp
        kept == [b \in DOMAIN s.buf \ {temp} |-> s.buf[b]]
        moves == IF temp \in DOMAIN s.buf THEN ~bufferIsClean(s.buf[temp]) ELSE FALSE
    IN [s EXCEPT !.ops = [i \in 1..(Len(@) - 1) |-> Renamed(@[i + 1], temp, id)],
                 !.buf = IF moves THEN (id :> s.buf[temp]) @@ kept ELSE kept,
                 !.focus = IF @ = temp THEN id ELSE @]

\* The block exists: its row is adopted, a choice made on it is submitted with the text,
\* and the keys pressed on it are replayed.
acknowledge(s, id, outline) ==
    LET op == Head(s.ops)
        moved == adopt([s EXCEPT !.made = id, !.keys = op.deferred], id)
        chosen == s.choice.id = op.temp
        with == IF chosen
                THEN [Open(moved, id, LET b == IF id \in DOMAIN moved.buf THEN moved.buf[id]
                                               ELSE Buffer(op.created, op.created)
                                      IN [b EXCEPT !.visible = @ \cup {s.choice.token}])
                        EXCEPT !.choice = NoChoice]
                ELSE moved
    IN replay(IF chosen THEN Enqueue(with, Job("submit", id)) ELSE flush(with, id), outline)

\* Mutant: the next operation is not dispatched.
completeMergeAlone(s, outline) ==
    LET target == Head(s.ops).target
        clean == target \notin DOMAIN s.buf \/ bufferIsClean(s.buf[target])
        done == [(IF clean THEN Reset(s, {target}, outline) ELSE s) EXCEPT !.ops = Tail(@), !.busy = "no"]
    IN flush(done, target)
completeMerge(s, outline) ==
    LET target == Head(s.ops).target
        clean == target \notin DOMAIN s.buf \/ bufferIsClean(s.buf[target])
        done == [(IF clean THEN Reset(s, {target}, outline) ELSE s) EXCEPT !.ops = Tail(@), !.busy = "no"]
    IN dispatchPending(flush(done, target), outline)
failMerge(s, outline) ==
    LET op == Head(s.ops) IN
    dispatchPending([Reset(s, {op.target}, outline) EXCEPT !.ops = Tail(@), !.busy = "no", !.focus = op.anchor,
                                             !.diverged = Len(s.ops) > 1], outline)
-----------------------------------------------------------------------------
(* What the user does.  The focused row is one the outline shows.          *)

Room(n) == Len(ui.lane) + n <= MaxLane
Focused == ui.focus \in Ids(Shown(ui, seen))
Keeps == UNCHANGED <<core, seen, stale>>
NextTemp == 101 + spent.ops
FrozenAnchor(id) ==
    \E i \in DOMAIN ui.ops : ui.ops[i].kind = "split" /\ ui.ops[i].anchor = id /\ ui.ops[i].mode # "before"

Made(temp) == ui.ops[CHOOSE i \in DOMAIN ui.ops : ui.ops[i].temp = temp].created
\* onInput: the row's text, as the textarea shows it, with the new token.
onInput ==
    /\ Focused /\ ~FrozenAnchor(ui.focus)
    /\ Spend("typed", MaxTyped)
    /\ LET id == ui.focus
           visible == draftOf(ui, seen, id) \cup {51 + spent.typed}
           source == IF id \in DOMAIN ui.buf THEN ui.buf[id].source
                     ELSE IF isPendingId(id) THEN Made(id) ELSE seen.text[id]
       IN ui' = Open(ui, id, Buffer(source, visible))
    /\ Keeps /\ UNCHANGED collapsed

\* The debounce, the caret leaving the row, or the route being left.
flushNow ==
    \E id \in DOMAIN ui.buf :
        /\ \A i \in DOMAIN ui.lane : ui.lane[i] # Job("submit", id)
        /\ Room(1)
        /\ ui' = flush(ui, id)
        /\ ui' # ui
        /\ Keeps /\ UNCHANGED <<collapsed, spent>>

\* The new row is shown with the caret in it before its command is sent; content that
\* moves into it is typed there.
enqueuePendingInsert(s, id, mode, content) ==
    LET made == enqueue(s, Create("insert", NextTemp, id, mode, {}, {}))
        typed == IF content = {} THEN made ELSE Open(made, NextTemp, Buffer({}, content))
    IN dispatchPending(activateBlock(typed, NextTemp), seen)
\* A split with nothing before the caret puts an empty row above the block.
enqueuePendingSplit(s, id, head, tail, below) ==
    LET split == IF head = {} THEN Create("split", NextTemp, id, "before", tail, {})
                 ELSE Create("split", NextTemp, id, below, head, tail)
    IN dispatchPending(activateBlock(enqueue(s, split), NextTemp), seen)

\* handleEnter, with the caret after head.
handleEnter ==
    /\ Focused /\ Room(2) /\ Spend("ops", Operations)
    /\ LET id == ui.focus
           draft == draftOf(ui, seen, id)
           below == IF hasOpenChildren(id) THEN "child" ELSE "sibling"
           b == IF id \in DOMAIN ui.buf THEN ui.buf[id] ELSE Buffer(Made(id), draft)
       IN \E head \in SUBSET draft :
            LET tail == draft \ head IN
            /\ head # {} \/ ~FrozenAnchor(id)
            /\ ui' = IF draft = {} THEN enqueuePendingInsert(ui, id, below, {})
                     ELSE IF isPendingId(id)
                     THEN IF head = {} THEN activateBlock(enqueuePendingInsert(ui, id, "before", {}), id)
                          ELSE enqueuePendingInsert(Open(ui, id, [b EXCEPT !.visible = head]), id, below, tail)
                     ELSE LET split == enqueuePendingSplit(flush(ui, id), id, head, tail, below)
                          IN IF head = {} THEN activateBlock(Observed(split, id), id) ELSE split
    /\ Keeps /\ UNCHANGED collapsed

\* mergeBackward, once both endpoints' authored text is established.
Above(id) == LET rows == Shown(ui, seen) IN rows[rowIndexOf(rows, id) - 1].id
Mergeable(id) ==
    /\ id \in Preceded(ui) /\ id \in Ids(Shown(ui, seen))
    /\ ui.ops # <<>> => isPendingId(id)
    /\ isPendingId(Above(id)) => isPendingId(id)
Dirty(id) == id \in DOMAIN ui.buf /\ ~isPendingId(id) /\ ~bufferIsClean(ui.buf[id])

\* The target's buffer starts over from the joined text; input of a target that is not
\* acknowledged yet was never submitted, and no command carries it any more.
EnqueueMerge(s, id) ==
    LET target == Above(id)
        merged == draftOf(s, seen, target) \cup draftOf(s, seen, id)
        input == IF isPendingId(target) /\ target \in DOMAIN s.buf THEN Typed(s.buf[target]) ELSE {}
    IN dispatchPending(activateBlock([enqueue(s, Join(id, target, merged)) EXCEPT !.dropped = @ \cup input],
                                     target), seen)

Endpoints(id) == {e \in {id, Above(id)} : Dirty(e)}
Merge(s, id) ==
    IF Endpoints(id) = {} THEN EnqueueMerge(s, id)
    ELSE [FoldSet(LAMBDA e, t : Enqueue(t, Job("endpoint", e)), s, Endpoints(id)) EXCEPT !.preparing = id]

mergeBackward ==
    /\ Focused /\ ui.preparing = Root /\ Mergeable(ui.focus)
    /\ Room(2) /\ Spend("ops", Operations)
    /\ ui' = Merge(ui, ui.focus)
    /\ Keeps /\ UNCHANGED collapsed

\* The endpoints' submissions have succeeded: the join is tried again.
mergePrepared ==
    /\ ui.preparing # Root /\ \A i \in DOMAIN ui.lane : ui.lane[i].kind # "endpoint"
    /\ Room(2)
    /\ LET s == [ui EXCEPT !.preparing = Root]
       IN ui' = IF Mergeable(ui.preparing) THEN Merge(s, ui.preparing) ELSE s
    /\ Keeps /\ UNCHANGED <<collapsed, spent>>

\* A structural key: deferred on a pending row, a command on a block.
structuralKey ==
    /\ Focused /\ Room(2) /\ Spend("keys", MaxKeys)
    /\ \E key \in {"indent", "outdent", "up", "down"} :
          LET id == ui.focus
              above == {j \in Siblings(seen.rows, rowIndexOf(seen.rows, id)) : j < rowIndexOf(seen.rows, id)}
              opened == IF key = "indent" /\ ~isPendingId(id) /\ above # {}
                        THEN {seen.rows[Max(above)].id} ELSE {}
              commands == IF key \in {"indent", "outdent"} THEN {Command(key, id, Root, Root)}
                          ELSE moveCommand(Shown(ui, seen), id, IF key = "up" THEN -1 ELSE 1)
          IN IF isPendingId(id)
             THEN /\ ui' = [ui EXCEPT !.ops = [i \in DOMAIN @ |->
                                IF @[i].temp = id THEN [@[i] EXCEPT !.deferred = Append(@, key)] ELSE @[i]]]
                  /\ UNCHANGED collapsed
             ELSE /\ ui' = FoldSet(LAMBDA c, s : Enqueue(s, [kind |-> "command", id |-> id, command |-> c]),
                                   flush(ui, id), commands)
                  /\ collapsed' = collapsed \ opened
    /\ Keeps

\* menu.remove and the Vim deletion of a block.
remove ==
    /\ Focused /\ ~isPendingId(ui.focus) /\ Room(1) /\ Spend("keys", MaxKeys)
    /\ LET rows == Shown(ui, seen)
           i == rowIndexOf(rows, ui.focus)
           above == IF i = 1 THEN Root ELSE rows[i - 1].id
           below == Fallback(rows, coveredMask(rows, {ui.focus}))
       IN \E fallback \in {above, below} :
            ui' = Enqueue(ui, [kind |-> "command", id |-> ui.focus,
                               command |-> [Command("delete", ui.focus, Root, Root) EXCEPT !.focus = fallback]])
    /\ Keeps /\ UNCHANGED collapsed

\* A slash command, a tag or a task step chosen on a row: a pending row keeps it for later.
accept ==
    /\ Focused /\ ~FrozenAnchor(ui.focus)
    /\ Room(1) /\ Spend("choices", MaxChoices)
    /\ LET id == ui.focus
           token == 81 + spent.choices
           b == IF id \in DOMAIN ui.buf THEN ui.buf[id] ELSE Buffer(seen.text[id], seen.text[id])
       IN IF isPendingId(id)
          THEN /\ ui.choice = NoChoice
               /\ ui' = dispatchPending([ui EXCEPT !.choice = [id |-> id, token |-> token]], seen)
          ELSE ui' = Enqueue(Open(ui, id, [b EXCEPT !.visible = @ \cup {token}]), Job("submit", id))
    /\ Keeps /\ UNCHANGED collapsed

\* The caret goes to another row.
focusRow ==
    /\ Room(1) /\ Spend("keys", MaxKeys)
    /\ \E id \in Ids(Shown(ui, seen)) : id # ui.focus /\ ui' = flush(activateBlock(ui, id), ui.focus)
    /\ Keeps /\ UNCHANGED collapsed

toggleCollapse ==
    /\ Spend("keys", MaxKeys)
    /\ \E id \in Ids(Shown(ui, seen)) :
          /\ id \in Ids(seen.rows) /\ hasChildren(seen.rows, rowIndexOf(seen.rows, id))
          /\ id \in collapsed \/ ui.ops = <<>>
          /\ collapsed' = (collapsed \ {id}) \cup ({id} \ collapsed)
          /\ LET hidden == ui.focus \notin Ids(flattenOutline(seen.rows, collapsed'))
             IN ui' = IF hidden /\ ~isPendingId(ui.focus) THEN activateBlock(ui, id) ELSE ui
    /\ Keeps
-----------------------------------------------------------------------------
(* The graph session's lane.                                               *)

\* A publication: buffers move onto the new text, except the one a running join has
\* projected; the caret leaves a row that is gone for the nearest one above it.
Published(s, outline, projected) ==
    LET Kept(id) == id \in Ids(outline.rows) \/ ~bufferIsClean(s.buf[id])
        buffers == [id \in {b \in DOMAIN s.buf : Kept(b)} |->
                       IF id \in Ids(outline.rows) /\ id # projected
                       THEN rebaseOnto(s.buf[id], outline.text[id]) ELSE s.buf[id]]
        before == Shown(s, seen)
        after == Shown(s, outline)
        above == {i \in 1..(rowIndexOf(before, s.focus) - 1) : before[i].id \in Ids(after)}
        lost == s.focus # Root /\ ~isPendingId(s.focus) /\ s.focus \notin Ids(after)
                    /\ s.focus \in Ids(before)
    IN [s EXCEPT !.buf = buffers,
                 !.focus = IF ~lost THEN @ ELSE IF above # {} THEN before[Max(above)].id
                           ELSE IF after = <<>> THEN Root ELSE after[1].id,
                 !.lane = IF s.busy = "read" /\ \A i \in DOMAIN s.lane : s.lane[i].kind # "refresh"
                          THEN Append(@, Job("refresh", Root)) ELSE @]

Running(kinds) == ui.lane # <<>> /\ Head(ui.lane).kind \in kinds
Popped == [ui EXCEPT !.lane = Tail(@)]
Fault == Spend("events", MaxEvents)

\* The Worker applied a change; publishing it may fail, which leaves the session stale.
Applied(outline, s, projected, Then(_), Unread(_)) ==
    /\ core' = outline
    /\ \/ seen' = outline /\ stale' = FALSE /\ UNCHANGED spent
          /\ ui' = Then(Published(s, outline, projected))
       \/ stale' = TRUE /\ Fault /\ UNCHANGED seen
          /\ ui' = Unread(s)
    /\ UNCHANGED collapsed
Refuses(s) == ui' = s /\ Keeps /\ UNCHANGED collapsed
Outline(rows, text) == [rows |-> rows, text |-> text]
Same(s) == s

\* ensureCurrent: a stale session reads before the next job; a failed read fails the job.
ensureCurrent ==
    /\ ui.lane # <<>> /\ stale /\ ~Running({"refresh"})
    /\ seen' = core /\ stale' = FALSE
    /\ ui' = Published(ui, core, Root)
    /\ UNCHANGED <<core, collapsed, spent>>

\* retainAppliedResult: the head's result stands and waits for a publication.
Retained(s) == Enqueue([s EXCEPT !.busy = "read"], Job("refresh", Root))

\* The block a row becomes, and a block another replica adds.
BlockOf(temp) == temp - 90
Foreign == 31 + spent.events
create ==
    /\ Running(Creation) /\ ~stale
    /\ LET op == Head(ui.ops)
           id == BlockOf(op.temp)
           text == core.text[op.anchor]
           Moves == IF op.kind = "insert" \/ op.mode = "before" THEN {{}}
                    ELSE IF text = op.source \cup op.created THEN {op.created} ELSE SUBSET text
       IN IF ~commandFor(op, seen) THEN Refuses(abandonPending(Popped, seen)) /\ UNCHANGED spent
          ELSE \E moves \in Moves :
                 LET outline == Outline(Place(core.rows, op.anchor, op.mode, id),
                                        [core.text EXCEPT ![op.anchor] = @ \ moves] @@ (id :> moves))
                 IN Applied(outline, Popped, Root,
                            LAMBDA s : acknowledge(s, id, outline),
                            LAMBDA s : [Retained(s) EXCEPT !.made = id])

merge ==
    /\ Running({"merge"}) /\ ~stale
    /\ LET op == Head(ui.ops)
           rows == MergeInto(core.rows, op.anchor, op.target)
           outline == Outline(rows, [id \in DOMAIN core.text \ {op.anchor} |->
                                        core.text[id] \cup IF id = op.target THEN core.text[op.anchor] ELSE {}])
       IN IF rows = Refused THEN Refuses(failMerge(Popped, seen)) /\ UNCHANGED spent
          ELSE Applied(outline, Popped, op.target, LAMBDA s : completeMerge(s, outline), Retained)

\* The read after an unpublished result: the head goes on with its created block.
Proceed(s) == IF Head(s.ops).kind = "merge" THEN completeMerge(s, core) ELSE acknowledge(s, s.made, core)
refresh ==
    /\ Running({"refresh"})
    /\ \/ /\ seen' = core /\ stale' = FALSE
          /\ ui' = Proceed(Published([Popped EXCEPT !.busy = "sent"], core, Root))
          /\ UNCHANGED spent
       \/ stale /\ Fault /\ ui' = Popped /\ UNCHANGED <<seen, stale>>
    /\ UNCHANGED <<core, collapsed>>

\* A submission takes the buffer at its turn.
submit ==
    /\ Running({"submit", "endpoint"}) /\ ~stale
    /\ LET id == Head(ui.lane).id IN
       IF id \notin DOMAIN ui.buf \/ id \notin Ids(core.rows)
       THEN Refuses(Popped) /\ UNCHANGED spent
       ELSE LET saved == rebaseOnto(ui.buf[id], core.text[id]).visible
                done == Open(Popped, id, Buffer(saved, saved))
            IN Applied(Outline(core.rows, [core.text EXCEPT ![id] = saved]), done, Root, Same, Same)

\* A structural command, or a deferred key, whose surface goes on when it answers.
command ==
    /\ Running({"command", "key"}) /\ ~stale
    /\ LET job == Head(ui.lane)
           rows == Perform(core.rows, job.command)
           kept == IF rows = Refused THEN {} ELSE Ids(rows)
           lost == DOMAIN core.text \ kept
           deletes == job.command.op = "delete"
           text == [id \in kept |-> core.text[id]]
           After(s, outline) == IF job.kind = "key" THEN replay(s, outline)
                                ELSE IF deletes THEN activateBlock(s, job.command.focus) ELSE s
           dropped == [Reset(Popped, lost, Outline(rows, text)) EXCEPT !.gone = @ \cup UNION {core.text[id] : id \in lost}]
       IN IF rows = Refused THEN Refuses(After(Popped, seen)) /\ UNCHANGED spent
          ELSE Applied(Outline(rows, text), dropped, Root,
                       LAMBDA s : After(s, Outline(rows, text)), LAMBDA s : After(s, seen))

\* The Worker refuses a job, or a stale session cannot read before it.
refuse ==
    /\ Running({"insert", "split", "merge", "submit", "endpoint", "command", "key"})
    /\ Fault
    /\ Refuses(CASE Running(Creation) -> abandonPending(Popped, seen)
                 [] Running({"merge"}) -> failMerge(Popped, seen)
                 [] Running({"endpoint"}) -> [Popped EXCEPT !.preparing = Root]
                 [] Running({"key"}) -> replay(Popped, seen)
                 [] Running({"submit"}) ->
                        [Popped EXCEPT !.diverged = \E i \in DOMAIN ui.ops : ui.ops[i].anchor = Head(ui.lane).id]
                 [] OTHER -> Popped)

\* Another replica's change: a block added, moved or removed, published at once.  The
\* draft of a removed block is the matter of BlockContent.
applyRemote ==
    /\ Fault
    /\ \E id \in Ids(core.rows), how \in {"add", "indent", "remove"} :
          LET new == Foreign
              inside == coveredIds(core.rows, {id})
              rows == CASE how = "add" -> Place(core.rows, id, "sibling", new)
                        [] how = "indent" -> indent_blocks(core.rows, {id})
                        [] how = "remove" -> delete_blocks(core.rows, {id})
              outline == Outline(rows, [b \in Ids(rows) |-> IF b \in DOMAIN core.text THEN core.text[b] ELSE {}])
          IN /\ rows # Refused
             /\ how = "remove" => \A b \in inside : ~Dirty(b)
             /\ core' = outline /\ seen' = outline /\ stale' = FALSE
             /\ ui' = [Published(ui, outline, Root) EXCEPT !.gone = @ \cup
                          IF how = "remove" THEN UNION {core.text[b] : b \in inside} ELSE {}]
    /\ UNCHANGED collapsed
-----------------------------------------------------------------------------
User == \/ onInput \/ flushNow \/ handleEnter \/ mergeBackward \/ structuralKey \/ remove
        \/ accept \/ focusRow \/ toggleCollapse
Lane == ensureCurrent \/ create \/ merge \/ refresh \/ submit \/ command \/ refuse
Next == User \/ mergePrepared \/ Lane \/ applyRemote

Spec == Init /\ [][Next]_vars
-----------------------------------------------------------------------------
(* Properties.                                                             *)

(* Text and choices raced by an acknowledgement are kept: every token is in *)
(* a block, a buffer or a choice that waits, unless its user deleted it or  *)
(* a notice reported it (adopt, abandonPending, complete-merge,             *)
(* fail-merge).  One input is excepted, and is lost without a notice: what  *)
(* was typed on a row before it was acknowledged, if a second row was       *)
(* joined into it before that (enqueue of a join, draft-state.ts).          *)
RacedInputIsKept ==
    \A t \in UNION {Ids(Blocks), 51..(50 + spent.typed), 81..(80 + spent.choices)} :
        \/ t \in ui.gone \cup ui.dropped \/ t = ui.choice.token
        \/ \E id \in DOMAIN core.text : t \in core.text[id]
        \/ \E id \in DOMAIN ui.buf : t \in ui.buf[id].visible
        \/ \E i \in DOMAIN ui.ops : t \in ui.ops[i].created

(* No render shows the same content in two rows while a command is in       *)
(* flight (projectPendingOperations), unless a refused command left         *)
(* operations on text that never came to be, or a created block is          *)
(* published before its row is adopted.                                     *)
ShownOnce ==
    ui.diverged \/ ui.busy = "read" \/ LET rows == Shown(ui, seen) IN
        \A i, j \in DOMAIN rows :
            i # j => draftOf(ui, seen, rows[i].id) \cap draftOf(ui, seen, rows[j].id) = {}

(* The block lands where its row stood: an acknowledgement renames a row    *)
(* and moves none (commandFor against projectPendingOperations).            *)
IdsOf(rows) == [i \in DOMAIN rows |-> rows[i].id]
RenamesOneRow ==
    Running(Creation) /\ core' # core /\ seen' = core' /\ Len(ui'.ops) = Len(ui.ops) - 1 =>
        LET temp == Head(ui.ops).temp
            before == IdsOf(Shown(ui, seen))
        IN IdsOf(Shown(ui', seen')) =
               [i \in DOMAIN before |-> IF before[i] = temp THEN BlockOf(temp) ELSE before[i]]
LandsInPlace == [][RenamesOneRow]_vars

(* Every pending operation is driven by the job, the key or the read it     *)
(* waits for; only a result the session cannot read back waits for a later  *)
(* publication (dispatchPending, retainAppliedResult).                      *)
PendingIsDriven ==
    ui.ops # <<>> =>
        \/ \E i \in DOMAIN ui.lane : ui.lane[i].kind \in
              CASE ui.busy = "sent" -> {Head(ui.ops).kind} [] ui.busy = "read" -> {"refresh"}
                [] ui.busy = "replay" -> {"key"} [] OTHER -> {}
        \/ ui.busy = "read" /\ stale
=============================================================================
