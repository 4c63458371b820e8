---------------------------- MODULE BlockContent ----------------------------
(***************************************************************************)
(* The text of one block between the keyboard and the graph: the draft     *)
(* buffer (content-buffer.ts), the content session that submits it and     *)
(* rebases it onto what others write (content-session.ts), the serial lane *)
(* of the graph session (session.ts), the debounce, composition and        *)
(* completion rules of the outline (Outliner.tsx), a property picker that  *)
(* holds a staged edit (PropertyPicker.tsx), and the record a page that    *)
(* hides leaves behind (unsaved.ts).                                       *)
(*                                                                         *)
(* Text is a sequence of atoms, each typed once, so an atom is its own     *)
(* identity: a source piece of a buffer is an atom that is in its source,  *)
(* and a diff keeps exactly the atoms both sides have.                     *)
(***************************************************************************)
EXTENDS Naturals, Sequences, SequencesExt, FiniteSets

CONSTANTS
    Size,        \* the length of the block's text when the page opens
    MaxTyped,    \* bound: atoms the user types
    MaxForeign,  \* bound: atoms other replicas insert
    MaxDeletes,  \* bound: deletions by the user, and changes by structural commands
    MaxCloses,   \* bound: pages closed while hidden
    MaxFaults,   \* bound: refused commands, failed reads and failed saves
    MaxEvents,   \* bound: foreign atoms, deletions, closed pages and faults together
    MaxLane,     \* bound: jobs in the lane
    Absent,      \* no block, no buffer, no record
    Races        \* whether to allow what the code does not guard against: a change or a
                 \* fault that hits an edit lowered early, a fault of the user's own removal
                 \* of the block, a completion that ends during a composition, a composition
                 \* over another one or behind a submission that waits, and a page that
                 \* hides while a restore waits

Original == [i \in 1..Size |-> i]
Typed == (Size + 1)..(Size + MaxTyped)
Foreign == (Size + MaxTyped + 1)..(Size + MaxTyped + MaxForeign)

ASSUME BoundAssumption ==
    /\ {Size, MaxTyped, MaxForeign, MaxDeletes, MaxCloses, MaxFaults, MaxEvents, MaxLane} \subseteq Nat
    /\ Races \in BOOLEAN

\* No text, no buffer and no record of a page is Absent.
Texts == Seq(Nat)
Buffers == [source : Texts, visible : Texts]
Records == [bases : SUBSET Texts, content : Texts]
ASSUME AbsentAssumption == Absent \notin Texts \cup Buffers \cup Records

VARIABLES
    core,        \* the Worker's document: the block's text, its heir's, the text undo
                 \* brings back, and how often the action was applied
    disk,        \* the same, in storage
    seen,        \* the block as GraphSession last published it
    stale,       \* needsReconcile
    lane,        \* GraphSession's graph lane, the running job first
    buf,         \* the ContentSessions buffer, or Absent
    inflight,    \* the submitted buffer, or Absent
    action,      \* the semantic action submitted with the text
    unavailable, \* the block is gone and its draft retained
    orphan,      \* the block was removed elsewhere while a submission was pending
    compose,     \* an input method's composition, whether its textarea is still
                 \* there to end it, and what it holds back
    staged,      \* the buffer whose splices an open property picker holds
    view,        \* the editor surface: observed, flush timer, completion menu
    page,        \* whether it is shown, the record it leaves, and (history) atoms of a
                 \* record that was not restored
    told,        \* the last submission was reported as failed
    gone,        \* history: atoms somebody deleted, or whose loss was reported
    landed,      \* history: atoms the document has held
    budget       \* what the bounds have left

vars == <<core, disk, seen, stale, lane, buf, inflight, action, unavailable, orphan, compose,
          staged, view, page, told, gone, landed, budget>>
graphVars == <<core, disk, seen, stale>>
draftVars == <<inflight, action, unavailable, orphan>>
-----------------------------------------------------------------------------
(* Buffers.                                                                *)

Buffer(source, visible) == [source |-> source, visible |-> visible]
createContentBuffer(content) == Buffer(content, content)
settleBuffer(b) == createContentBuffer(b.visible)
bufferIsClean(b) == b.source = b.visible

\* A text with some of its atoms kept and others put in before the i-th.
Weave(s, kept, before) ==
    FlattenSeq([i \in 1..(Len(s) + 1) |-> before[i] \o IF i \in kept THEN <<s[i]>> ELSE <<>>])

\* The source atom an inserted atom follows, as an index; 0 before all of them.
Gap(b, a) ==
    LET at == Max({j \in DOMAIN b.visible : b.visible[j] = a}) IN
    Max({0} \cup {i \in DOMAIN b.source : \E j \in 1..at : b.visible[j] = b.source[i]})
Inserted(b, g) ==
    Weave(b.visible,
          {j \in DOMAIN b.visible : b.visible[j] \notin Range(b.source) /\ Gap(b, b.visible[j]) = g},
          [j \in 1..(Len(b.visible) + 1) |-> <<>>])
Deleted(b) == {i \in DOMAIN b.source : b.source[i] \notin Range(b.visible)}

\* The buffer's splices, applied by index to a text that may not be its source.
bufferChanges(b) == {g \in 0..Len(b.source) : Inserted(b, g) # <<>>} \cup Deleted(b)
Fits(b, s) == \A i \in bufferChanges(b) : i <= Len(s)
bufferSplices(b, s) ==
    Weave(s, DOMAIN s \ Deleted(b),
          [i \in 1..(Len(s) + 1) |-> IF i - 1 <= Len(b.source) THEN Inserted(b, i - 1) ELSE <<>>])

\* Mutant: the refused text is dropped.
restoreBufferForgets(original, newer) == newer

\* Input typed after a submission, put back on the buffer that was refused.
restoreBuffer(original, newer) ==
    IF Fits(newer, original.visible)
    THEN Buffer(original.source, bufferSplices(newer, original.visible))
    ELSE newer

\* Where an insertion after source atom g goes: before the next one that is left.
mapContentPosition(b, g, s) ==
    LET left == {i \in DOMAIN s : \E j \in DOMAIN b.source : j > g /\ b.source[j] = s[i]}
    IN IF left = {} THEN Len(s) + 1 ELSE Min(left)
\* Mutant: the draft's changes are put back at their old indexes.
rebaseBufferByIndex(b, s) ==
    Buffer(s, IF Fits(b, s) THEN bufferSplices(b, s) ELSE b.visible)
rebaseBuffer(b, s) ==
    Buffer(s, Weave(s,
        {i \in DOMAIN s : s[i] \notin {b.source[j] : j \in Deleted(b)}},
        [i \in 1..(Len(s) + 1) |-> FlattenSeq([g \in 1..(Len(b.source) + 1) |->
            IF mapContentPosition(b, g - 1, s) = i THEN Inserted(b, g - 1) ELSE <<>>])]))
-----------------------------------------------------------------------------
(* The state at the start, and shorthands.                                 *)

NotComposing == [on |-> FALSE, live |-> FALSE, content |-> Absent]
NoView == [observed |-> FALSE, timer |-> FALSE, menu |-> FALSE]
NoPage == [shown |-> TRUE, kept |-> Absent, unsavedKept |-> FALSE, dropped |-> {}]
Doc(text) == [block |-> text, heir |-> Absent, removed |-> Absent, acted |-> 0]

Init ==
    /\ core = Doc(Original) /\ disk = Doc(Original) /\ seen = Original /\ stale = FALSE
    /\ lane = <<>>
    /\ buf = Absent /\ inflight = Absent /\ action = "idle"
    /\ unavailable = FALSE /\ orphan = FALSE /\ compose = NotComposing
    /\ staged = Absent /\ view = NoView /\ page = NoPage
    /\ told = FALSE /\ gone = {} /\ landed = Range(Original)
    /\ budget = [typed |-> 0, foreign |-> 0, deletes |-> 0, closes |-> 0, faults |-> 0]

Job(kind, payload) == [kind |-> kind, payload |-> payload]
Waiting(kinds) == \E i \in DOMAIN lane : lane[i].kind \in kinds
Enqueue(job) == Len(lane) < MaxLane /\ lane' = Append(lane, job)
Spend(what, max) ==
    /\ budget[what] < max
    /\ what # "typed" => budget.foreign + budget.deletes + budget.closes + budget.faults < MaxEvents
    /\ budget' = [budget EXCEPT ![what] = @ + 1]
Text(s) == IF s = Absent THEN {} ELSE Range(s)
Visible(b) == IF b = Absent THEN {} ELSE Range(b.visible)

target == IF buf # Absent THEN buf ELSE createContentBuffer(seen)

\* What release leaves of a buffer: nothing if no surface, save or action needs it.
release(b, observed, composing, act) ==
    IF observed \/ composing \/ act = "retry" \/ b = Absent THEN b
    ELSE IF bufferIsClean(b) THEN Absent ELSE b

\* An edit whose splices were computed before its turn in the lane.
Settled == lane = <<>> /\ ~stale
EarlyKind == {"picked", "prefix", "word"}
LoweredEarly == staged # Absent \/ Waiting(EarlyKind)
-----------------------------------------------------------------------------
(* The editor surface.                                                     *)

\* The textarea mounts and observes the block.
observe ==
    /\ page.shown /\ ~view.observed /\ seen # Absent
    /\ buf' = target
    /\ view' = [view EXCEPT !.observed = TRUE]
    /\ UNCHANGED <<graphVars, lane, draftVars, compose, staged, page, told, gone, landed, budget>>

Editing == page.shown /\ view.observed /\ seen # Absent /\ buf # Absent /\ staged = Absent

\* onInput: the debounce starts over unless a composition or a completion menu holds it.
onInput(visible, menu) ==
    /\ buf' = [buf EXCEPT !.visible = visible]
    /\ view' = IF compose.on THEN view ELSE [view EXCEPT !.timer = ~menu, !.menu = menu]
    /\ told' = FALSE
    /\ UNCHANGED <<graphVars, lane, draftVars, compose, staged, page, landed>>

Type ==
    Editing /\ \E at \in 1..(Len(buf.visible) + 1), menu \in BOOLEAN :
        /\ Spend("typed", MaxTyped)
        /\ onInput(InsertAt(buf.visible, at, Size + budget.typed + 1), menu)
        /\ UNCHANGED gone

Erase ==
    Editing /\ \E at \in DOMAIN buf.visible :
        /\ Spend("deletes", MaxDeletes)
        /\ onInput(RemoveAt(buf.visible, at), FALSE)
        /\ gone' = gone \cup {buf.visible[at]}

\* Mutant: nothing is scheduled.
closeMenuSilently ==
    /\ page.shown /\ view.menu /\ (Races \/ ~compose.on)
    /\ view' = [view EXCEPT !.menu = FALSE]
    /\ UNCHANGED <<graphVars, lane, buf, draftVars, compose, staged, page, told, gone, landed, budget>>

\* A completion menu that closes without a choice releases its input to the debounce.
closeMenu ==
    /\ page.shown /\ view.menu /\ (Races \/ ~compose.on)
    /\ view' = [view EXCEPT !.menu = FALSE, !.timer = TRUE]
    /\ UNCHANGED <<graphVars, lane, buf, draftVars, compose, staged, page, told, gone, landed, budget>>

Unsent == buf # Absent /\ (~bufferIsClean(buf) \/ action = "retry")

\* flush: a dirty buffer, or one whose action is to be retried, is submitted.
flush == IF Unsent THEN Enqueue(Job("submit", FALSE)) ELSE UNCHANGED lane

flushTimer ==
    /\ view.timer
    /\ view' = [view EXCEPT !.timer = FALSE]
    /\ flush
    /\ UNCHANGED <<graphVars, buf, draftVars, compose, staged, page, told, gone, landed, budget>>

\* commitDraftWith: a completion's choice is submitted together with the text.
commitDraftWith ==
    /\ Editing /\ view.menu /\ action = "idle" /\ (Races \/ ~compose.on)
    /\ Enqueue(Job("submit", TRUE))
    /\ action' = "queued"
    /\ view' = [view EXCEPT !.menu = FALSE, !.timer = TRUE]
    /\ UNCHANGED <<graphVars, buf, inflight, unavailable, orphan, compose, staged, page, told, gone, landed, budget>>

\* Blur, or leaving the route: the text is submitted and the surface lets go.
leave ==
    /\ view.observed /\ ~compose.on
    /\ Races \/ staged = Absent
    /\ flush
    /\ view' = NoView
    /\ staged' = Absent
    /\ buf' = release(buf, FALSE, inflight # Absent, action)
    /\ UNCHANGED <<graphVars, draftVars, compose, page, told, gone, landed, budget>>

compositionStart ==
    /\ Editing /\ ~compose.live
    /\ Races \/ (~compose.on /\ ~Waiting({"submit"}))
    /\ compose' = [on |-> TRUE, live |-> TRUE, content |-> Absent]
    /\ view' = [view EXCEPT !.timer = FALSE]
    /\ UNCHANGED <<graphVars, lane, buf, draftVars, staged, page, told, gone, landed, budget>>

\* Mutant: what arrived meanwhile is dropped.
compositionEndForgets ==
    /\ compose.live
    /\ compose' = NotComposing
    /\ \E menu \in BOOLEAN : view' = [view EXCEPT !.timer = ~menu, !.menu = menu]
    /\ UNCHANGED <<graphVars, lane, buf, draftVars, staged, page, told, gone, landed, budget>>

\* setComposing(false): what arrived meanwhile is rebased onto now.
compositionEnd ==
    /\ compose.live
    /\ compose' = NotComposing
    /\ \E menu \in BOOLEAN : view' = [view EXCEPT !.timer = ~menu, !.menu = menu]
    /\ buf' = IF compose.content = Absent \/ (buf = Absent /\ seen = Absent) THEN buf
              ELSE rebaseBuffer(target, compose.content)
    /\ UNCHANGED <<graphVars, lane, draftVars, staged, page, told, gone, landed, budget>>
-----------------------------------------------------------------------------
(* Edits lowered before their turn in the lane.                            *)

\* stageDraftSplice: the picker keeps the splices, the buffer counts as saved.
stageDraftSplice ==
    /\ Editing /\ view.menu /\ ~compose.on /\ ~bufferIsClean(buf)
    /\ Races \/ (Settled /\ action # "retry")
    /\ staged' = buf
    /\ buf' = settleBuffer(buf)
    /\ view' = [view EXCEPT !.menu = FALSE, !.timer = TRUE]
    /\ UNCHANGED <<graphVars, lane, draftVars, compose, page, told, gone, landed, budget>>

\* The picker runs its choice as one batch with the splices.
pickerRun ==
    /\ staged # Absent /\ ~Waiting({"picked"})
    /\ Enqueue(Job("picked", staged))
    /\ UNCHANGED <<graphVars, buf, draftVars, compose, staged, view, page, told, gone, landed, budget>>

\* A picker that closes without a choice executes the splices alone.
pickerClose ==
    /\ staged # Absent /\ ~Waiting({"picked"})
    /\ Enqueue(Job("prefix", staged))
    /\ staged' = Absent
    /\ UNCHANGED <<graphVars, buf, draftVars, compose, view, page, told, gone, landed, budget>>

\* A Vim operator over words: flushes, then executes the draft with its deletion as it stands.
\* In an idle lane the flush is prepared before any further input and finds the buffer settled.
runVimWordMotion ==
    /\ Editing /\ ~compose.on /\ ~view.menu
    /\ Len(lane) < MaxLane
    /\ Races \/ (Settled /\ action # "retry")
    /\ \E at \in DOMAIN buf.visible :
          LET edited == [buf EXCEPT !.visible = RemoveAt(@, at)] IN
          /\ Spend("deletes", MaxDeletes)
          /\ gone' = gone \cup {buf.visible[at]}
          /\ lane' = lane \o (IF Unsent /\ (lane # <<>> \/ action = "retry")
                           THEN <<Job("submit", FALSE)>> ELSE <<>>)
                          \o <<Job("word", edited)>>
          /\ buf' = settleBuffer(edited)
    /\ view' = [view EXCEPT !.timer = FALSE]
    /\ UNCHANGED <<graphVars, draftVars, compose, staged, page, told, landed>>
-----------------------------------------------------------------------------
(* Publications.  The listener moves the draft onto what was published; a  *)
(* block removed by another replica leaves its draft an orphan.            *)

Draft(b, unav, orph, comp, heir) ==
    [buf |-> b, unavailable |-> unav, orphan |-> orph, compose |-> comp, recover |-> heir]
Unchanged(b) == Draft(b, unavailable, orphan, compose, FALSE)

Observed(text, own, b, inf) ==
    IF b = Absent THEN Unchanged(b)
    ELSE IF text = Absent THEN
        IF bufferIsClean(b) /\ inf = Absent THEN Unchanged(Absent)
        ELSE IF own \/ seen = Absent THEN Draft(b, TRUE, orphan, compose, FALSE)
        ELSE Draft(b, unavailable, inf # Absent, compose, inf = Absent)
    ELSE IF compose.on THEN Draft(b, unavailable, orphan, [compose EXCEPT !.content = text], FALSE)
    ELSE IF b.source = text THEN Draft(b, FALSE, orphan, compose, FALSE)
    ELSE IF inf # Absent THEN Unchanged(b)
    ELSE Draft(rebaseBuffer(b, text), FALSE, orphan, compose, FALSE)

Recovery(d) == IF d.recover THEN <<Job("recover", Absent)>> ELSE <<>>
Row(text) == IF text = Absent THEN [view EXCEPT !.observed = FALSE, !.menu = FALSE] ELSE view

\* publishChanges and reconcile: the snapshot, and the draft the listeners leave.
publish(text, d) ==
    /\ seen' = text /\ stale' = FALSE
    /\ orphan' = d.orphan
    /\ compose' = [d.compose EXCEPT !.live = @ /\ text # Absent]
    /\ view' = Row(text)

\* A document the Worker reached: saved, or kept in memory when storage refuses it.
Reached(document, saved) ==
    /\ core' = document
    /\ disk' = IF saved THEN document ELSE disk
    /\ landed' = landed \cup Text(document.block)
Fault(happens) == IF happens THEN Spend("faults", MaxFaults) ELSE UNCHANGED budget

Head1 == Head(lane)
RemoteKind == {"insert", "delete", "remove"}
Running(kind) == lane # <<>> /\ Head1.kind = kind /\ inflight = Absent
-----------------------------------------------------------------------------
(* The lane.                                                               *)

\* A job that failed before it applied; what was lowered early is only reported.
JobFails ==
    /\ lane' = Tail(lane)
    /\ told' = (told \/ Head1.kind # "local")
    /\ action' = IF Head1.kind = "submit" /\ Head1.payload THEN "dropped" ELSE action
    /\ unavailable' = IF Head1.kind \in {"recover", "fill"} THEN TRUE
                      ELSE IF Head1.kind = "word" THEN FALSE ELSE unavailable
    /\ buf' = IF Head1.kind # "word" THEN buf
              ELSE IF view.observed /\ seen # Absent THEN createContentBuffer(seen) ELSE Absent
    /\ gone' = CASE Head1.kind = "word" -> gone \cup ((Visible(Head1.payload) \cup Visible(buf)) \ landed)
                 [] Head1.kind = "prefix" -> gone \cup (Visible(Head1.payload) \ landed)
                 [] OTHER -> gone
    /\ UNCHANGED <<core, disk, seen, inflight, orphan, compose, staged, view, page, landed>>

\* ensureCurrent: a publication that failed is repeated before the next command.
ensureCurrent ==
    /\ stale /\ lane # <<>> /\ inflight = Absent /\ Head1.kind \notin RemoteKind \cup {"save"}
    /\ \/ LET d == Observed(core.block, FALSE, buf, inflight) IN
          /\ publish(core.block, d)
          /\ buf' = d.buf /\ unavailable' = d.unavailable
          /\ staged' = IF core.block = Absent THEN Absent ELSE staged
          /\ lane' = lane \o Recovery(d)
          /\ UNCHANGED <<core, disk, inflight, action, page, told, gone, landed, budget>>
       \/ /\ Races \/ Head1.kind \notin EarlyKind
          /\ Fault(TRUE) /\ JobFails /\ UNCHANGED stale

\* submit, when its turn comes: the buffer as it is now is lowered and settled.
submitPrepare ==
    /\ Running("submit") /\ ~stale
    /\ IF unavailable \/ (buf = Absent /\ seen = Absent) THEN JobFails
       ELSE IF bufferIsClean(target) /\ ~Head1.payload /\ action # "retry"
       THEN lane' = Tail(lane) /\ UNCHANGED <<buf, inflight, action, unavailable, told, gone>>
       ELSE /\ inflight' = target
            /\ buf' = settleBuffer(target)
            /\ action' = IF Head1.payload \/ action = "retry" THEN "sent" ELSE action
            /\ UNCHANGED <<lane, unavailable, told, gone>>
    /\ UNCHANGED <<graphVars, orphan, compose, staged, view, page, landed, budget>>

Submitted ==
    [core EXCEPT !.block = bufferSplices(inflight, core.block),
                 !.acted = IF action = "sent" THEN @ + 1 ELSE @]
Accepted == core.block # Absent /\ Fits(inflight, core.block)

\* The draft once its submission is published: canonical, or newer input moved onto it.
Continued(b, text) ==
    IF b.visible = inflight.visible THEN createContentBuffer(text)
    ELSE IF b.source # text THEN rebaseBuffer(b, text) ELSE b

submitSaved ==
    /\ inflight # Absent /\ Accepted
    /\ \E saved \in BOOLEAN :
          LET d == Observed(Submitted.block, TRUE, buf, inflight)
              b == Continued(IF d.buf = Absent THEN createContentBuffer(Submitted.block) ELSE d.buf,
                             Submitted.block)
          IN /\ Fault(~saved)
             /\ Reached(Submitted, saved)
             /\ publish(Submitted.block, d) /\ unavailable' = d.unavailable
             /\ action' = IF action = "sent" THEN "applied" ELSE action
             /\ buf' = release(b, view.observed, compose.on, action')
    /\ inflight' = Absent
    /\ lane' = Tail(lane)
    /\ UNCHANGED <<staged, page, told, gone>>

\* Mutant: the action is kept for a retry although it was applied.
submitUnpublishedRetries ==
    /\ inflight # Absent /\ Accepted
    /\ Fault(TRUE)
    /\ Reached(Submitted, TRUE)
    /\ stale' = TRUE
    /\ action' = IF action = "sent" THEN "retry" ELSE action
    /\ buf' = release(buf, view.observed, compose.on, action')
    /\ inflight' = Absent
    /\ lane' = Tail(lane)
    /\ told' = TRUE
    /\ UNCHANGED <<seen, unavailable, orphan, compose, staged, view, page, gone>>

\* Applied, but its publication failed: nothing is put back.
submitUnpublished ==
    /\ inflight # Absent /\ Accepted
    /\ Fault(TRUE)
    /\ Reached(Submitted, TRUE)
    /\ stale' = TRUE
    /\ action' = IF action = "sent" THEN "applied" ELSE action
    /\ buf' = release(buf, view.observed, compose.on, action')
    /\ inflight' = Absent
    /\ lane' = Tail(lane)
    /\ told' = TRUE
    /\ UNCHANGED <<seen, unavailable, orphan, compose, staged, view, page, gone>>

\* Refused: the draft goes back onto the source it was written against.
submitRefused ==
    /\ inflight # Absent
    /\ IF Accepted THEN Fault(TRUE) ELSE UNCHANGED budget
    /\ action' = IF action = "sent" THEN "retry" ELSE action
    /\ buf' = release(restoreBuffer(inflight, target), view.observed, compose.on, action')
    /\ inflight' = Absent
    /\ lane' = Tail(lane) \o IF orphan THEN <<Job("recover", Absent)>> ELSE <<>>
    /\ orphan' = FALSE
    /\ told' = (told \/ ~orphan)
    /\ UNCHANGED <<graphVars, unavailable, compose, staged, view, page, gone, landed>>

\* An edit lowered early, and this user's removal of the block, which an undo may follow.
Delicate == Head1.kind \in EarlyKind \/ (Head1.kind = "local" /\ Head1.payload = "remove")

\* Any other command: the document it reaches, and a publication that may fail.
\* ok says whether its promise resolved, to the continuation the caller gives.
Execute(document, own, jobs(_), After(_, _)) ==
    \E saved, ok \in BOOLEAN :
        LET d == Observed(document.block, own, buf, inflight) IN
        /\ saved \/ ok
        /\ ok \/ Races \/ ~Delicate
        /\ Fault(~saved \/ ~ok)
        /\ Reached(document, saved)
        /\ lane' = Tail(lane) \o jobs(ok) \o (IF ok THEN Recovery(d) ELSE <<>>)
        /\ IF ok THEN publish(document.block, d) /\ After(ok, d)
           ELSE /\ stale' = TRUE
                /\ After(ok, Unchanged(buf))
                /\ UNCHANGED <<seen, orphan, compose, view>>
        /\ UNCHANGED <<inflight, action>>
NoJobs(ok) == <<>>
Plain(ok, d) == buf' = d.buf /\ unavailable' = d.unavailable

\* Another replica's change, as importing it leaves this block.
Imported(job) ==
    CASE job.kind = "remove" -> {[core EXCEPT !.block = Absent]}
      [] job.kind = "delete" -> {[core EXCEPT !.block = RemoveAt(@, i)] : i \in DOMAIN core.block}
      [] job.kind = "insert" -> {[core EXCEPT !.block = InsertAt(@, i, job.payload)] :
                                     i \in 1..(Len(core.block) + 1)}

applyRemote ==
    /\ lane # <<>> /\ Head1.kind \in RemoteKind
    /\ IF core.block = Absent \/ (Head1.kind = "delete" /\ core.block = <<>>)
       THEN /\ lane' = Tail(lane)
            /\ UNCHANGED <<graphVars, buf, draftVars, compose, view, staged, gone, landed, budget>>
       ELSE \E document \in Imported(Head1) :
               /\ Execute(document, FALSE, NoJobs, Plain)
               /\ staged' = IF document.block = Absent THEN Absent ELSE staged
               /\ gone' = gone \cup (Text(core.block) \ Text(document.block))
    /\ UNCHANGED <<page, told>>

\* A structural command of this user: the block removed, or its removal undone.
executeLocal ==
    /\ Running("local") /\ ~stale
    /\ LET document == IF Head1.payload = "remove"
                       THEN [core EXCEPT !.block = Absent, !.removed = core.block]
                       ELSE [core EXCEPT !.block = core.removed, !.removed = Absent]
       IN IF (Head1.payload = "remove") = (core.block = Absent) \/ (Head1.payload = "undo" /\ core.removed = Absent)
          THEN JobFails /\ UNCHANGED <<stale, budget>>
          ELSE /\ Execute(document, TRUE, NoJobs, Plain)
               /\ gone' = gone \cup (Text(core.block) \ Text(document.block))
               /\ UNCHANGED <<staged, page, told>>

\* Splices lowered early land by index on whatever text is there.
executeSplices ==
    /\ lane # <<>> /\ inflight = Absent /\ ~stale /\ Head1.kind \in EarlyKind
    /\ IF core.block = Absent \/ ~Fits(Head1.payload, core.block)
       THEN JobFails /\ UNCHANGED <<stale, budget>>
       ELSE LET Word(ok, d) ==
                    IF ok THEN Plain(ok, d) /\ UNCHANGED <<gone, staged>>
                    ELSE /\ buf' = IF view.observed THEN createContentBuffer(seen) ELSE Absent
                         /\ unavailable' = FALSE
                         /\ gone' = gone \cup (Visible(buf) \ landed)
                         /\ UNCHANGED staged
                Picked(ok, d) ==
                    /\ Plain(ok, d)
                    /\ staged' = IF ok THEN Absent ELSE staged
                    /\ UNCHANGED gone
                Prefix(ok, d) == Plain(ok, d) /\ UNCHANGED <<gone, staged>>
                document == [core EXCEPT !.block = bufferSplices(Head1.payload, @)]
            IN /\ CASE Head1.kind = "word" -> Execute(document, TRUE, NoJobs, Word)
                    [] Head1.kind = "picked" -> Execute(document, TRUE, NoJobs, Picked)
                    [] OTHER -> Execute(document, TRUE, NoJobs, Prefix)
               /\ UNCHANGED <<page, told>>

\* recover: a new block where the removed one stood, then its text.
recover ==
    /\ Running("recover") /\ ~stale
    /\ IF buf = Absent
       THEN /\ lane' = Tail(lane)
            /\ UNCHANGED <<graphVars, buf, draftVars, compose, view, budget, landed>>
       ELSE LET Fill(ok) == IF ok /\ buf.visible # <<>> THEN <<Job("fill", buf.visible)>> ELSE <<>>
                Created(ok, d) ==
                    /\ buf' = IF ok /\ buf.visible = <<>> THEN Absent ELSE d.buf
                    /\ unavailable' = ~ok
            IN Execute([core EXCEPT !.heir = <<>>], TRUE, Fill, Created)
    /\ UNCHANGED <<staged, page, told, gone>>

fillRecovered ==
    /\ Running("fill") /\ ~stale
    /\ LET Filled(ok, d) == /\ buf' = IF ok THEN Absent ELSE d.buf
                            /\ unavailable' = ~ok
       IN Execute([core EXCEPT !.heir = Head1.payload], TRUE, NoJobs, Filled)
    /\ UNCHANGED <<staged, page, told, gone>>

\* Fault: a command the Worker refuses for a reason of its own.
refuseJob ==
    /\ lane # <<>> /\ inflight = Absent /\ ~stale
    /\ Head1.kind \in {"local", "word", "prefix", "picked", "recover", "fill"}
    /\ Races \/ Head1.kind \notin EarlyKind
    /\ Fault(TRUE)
    /\ JobFails
    /\ UNCHANGED stale

\* retryNow: the bytes storage refused are written again.
retryNow ==
    /\ Running("save")
    /\ lane' = Tail(lane)
    /\ disk' = core
    /\ UNCHANGED <<core, seen, stale, buf, draftVars, compose, staged, view, page, told, gone, landed, budget>>

\* restoreUnsaved: input a closed page kept, if the block is as its editor knew it.  If
\* it is not, the record is forgotten all the same and the user is told nothing.
restoreUnsaved ==
    /\ Running("resume")
    /\ IF core.block # Absent /\ core.block \in Head1.payload.bases
       THEN /\ Execute([core EXCEPT !.block = Head1.payload.content], TRUE, NoJobs, Plain)
            /\ page' = [page EXCEPT !.kept = Absent]
       ELSE /\ lane' = Tail(lane)
            /\ page' = [page EXCEPT !.kept = Absent,
                                   !.dropped = @ \cup Range(Head1.payload.content)]
            /\ UNCHANGED <<graphVars, buf, draftVars, compose, view, landed, budget>>
    /\ UNCHANGED <<staged, told, gone>>
-----------------------------------------------------------------------------
(* Work that arrives, and the page.                                        *)

remoteArrives ==
    /\ page.shown \/ lane = <<>>
    /\ Races \/ staged = Absent
    /\ \/ /\ Spend("foreign", MaxForeign)
          /\ Enqueue(Job("insert", Size + MaxTyped + budget.foreign + 1))
       \/ /\ Spend("deletes", MaxDeletes)
          /\ \E kind \in {"delete", "remove"} : Enqueue(Job(kind, Absent))
    /\ UNCHANGED <<graphVars, buf, draftVars, compose, staged, view, page, told, gone, landed>>

localArrives ==
    /\ page.shown /\ staged = Absent /\ ~compose.on
    /\ \E change \in {"remove", "undo"} :
          /\ Spend("deletes", MaxDeletes)
          /\ Enqueue(Job("local", change))
    /\ UNCHANGED <<graphVars, buf, draftVars, compose, staged, view, page, told, gone, landed>>

retry ==
    /\ page.shown /\ core # disk /\ ~Waiting({"save"})
    /\ Enqueue(Job("save", Absent))
    /\ UNCHANGED <<graphVars, buf, draftVars, compose, staged, view, page, told, gone, landed, budget>>

\* unsaved: the draft, from every text the graph may hold when the page is gone.
unsaved ==
    IF buf = Absent \/ (inflight = Absent /\ bufferIsClean(buf)) THEN Absent
    ELSE [bases |-> {buf.source} \cup (IF inflight = Absent THEN {} ELSE {inflight.source}),
          content |-> buf.visible]

\* The page hides: its input is recorded, and what waited for the debounce is submitted.
hide ==
    /\ page.shown
    /\ Races \/ ~Waiting({"resume"})
    /\ page' = [page EXCEPT !.shown = FALSE, !.kept = unsaved, !.unsavedKept = unsaved # Absent]
    /\ IF compose.on THEN UNCHANGED <<lane, view>>
       ELSE flush /\ view' = [view EXCEPT !.timer = FALSE]
    /\ UNCHANGED <<graphVars, buf, draftVars, compose, staged, told, gone, landed, budget>>

show ==
    /\ ~page.shown
    /\ page' = [page EXCEPT !.shown = TRUE, !.unsavedKept = FALSE,
                           !.kept = IF page.unsavedKept THEN Absent ELSE @]
    /\ UNCHANGED <<graphVars, lane, buf, draftVars, compose, staged, view, told, gone, landed, budget>>

\* A hidden page is discarded; a submission at the Worker may have reached storage.
discard ==
    /\ ~page.shown
    /\ Races \/ ~LoweredEarly
    /\ Spend("closes", MaxCloses)
    /\ disk' \in {disk} \cup IF inflight # Absent /\ Accepted THEN {Submitted} ELSE {}
    /\ core' = disk' /\ seen' = disk'.block /\ stale' = FALSE
    /\ lane' = IF page.kept = Absent THEN <<>> ELSE <<Job("resume", page.kept)>>
    /\ buf' = Absent /\ inflight' = Absent /\ unavailable' = FALSE /\ orphan' = FALSE
    /\ action' = IF action \in {"queued", "sent", "retry"} THEN "dropped" ELSE action
    /\ compose' = NotComposing /\ staged' = Absent /\ view' = NoView /\ told' = FALSE
    /\ page' = [page EXCEPT !.shown = TRUE, !.unsavedKept = FALSE]
    /\ gone' = gone \cup ((Text(core.block) \cup Text(core.heir))
                            \ (Text(disk'.block) \cup Text(disk'.heir)))
    /\ landed' = landed \cup Text(disk'.block)
-----------------------------------------------------------------------------
Surface == \/ observe \/ Type \/ Erase \/ closeMenu \/ commitDraftWith \/ leave
           \/ compositionStart \/ compositionEnd
           \/ stageDraftSplice \/ pickerRun \/ pickerClose \/ runVimWordMotion
Lane == \/ ensureCurrent \/ submitPrepare \/ submitSaved \/ submitUnpublished \/ submitRefused
        \/ applyRemote \/ executeLocal \/ executeSplices \/ recover \/ fillRecovered
        \/ refuseJob \/ retryNow \/ restoreUnsaved
World == remoteArrives \/ localArrives \/ retry \/ hide \/ show \/ discard

Next == Surface \/ flushTimer \/ Lane \/ World

\* The debounce timer fires and the Worker answers: weak fairness of Lane, which is
\* enabled exactly while a job is in the lane.
LaneRuns == []<>(lane = <<>>) \/ []<><<Lane>>_vars
Spec == Init /\ [][Next]_vars /\ WF_vars(flushTimer) /\ LaneRuns
-----------------------------------------------------------------------------
(* Properties.                                                             *)

\* The text a job of the lane has with it.
Carried(j) ==
    CASE j.kind \in EarlyKind -> Visible(j.payload)
      [] j.kind = "fill" -> Text(j.payload)
      [] j.kind = "resume" -> Text(j.payload.content)
      [] OTHER -> {}

Everywhere ==
    Visible(buf) \cup Visible(inflight) \cup Visible(staged) \cup Text(core.block) \cup Text(core.heir)
    \cup (UNION {Carried(j) : j \in Range(lane)})
    \cup (IF page.kept = Absent THEN {} ELSE Range(page.kept.content))

(* What was typed and neither deleted nor reported as lost is in a draft, a *)
(* submission, the document or the record of a hidden page (submit,         *)
(* restoreBuffer, recover, unsaved).  One text is excepted: a record that   *)
(* no longer applies when the next session reads it is forgotten, and the   *)
(* user is not told (resumeContent).                                        *)
InputSurvives ==
    \A a \in (Size + 1)..(Size + budget.typed) : a \in gone \cup page.dropped \cup Everywhere

(* A save takes from the document only what its author deleted: a           *)
(* concurrent edit never redirects a deletion (rebaseBuffer,                *)
(* executePrepared).                                                        *)
OnlyDeletedIsGone == core.block # Absent => landed \subseteq gone \cup Text(core.block)

(* A retried or restored submission is not applied again: no atom is twice  *)
(* in the text and the action is applied once (CorePortFailure.applied).    *)
NothingTwice == core.acted <= 1 /\ (core.block # Absent => IsInjective(core.block))

(* With no work in the lane the draft is based on the published text, so    *)
(* the next edit is lowered against what the user sees.                     *)
QuietIsCurrent ==
    lane = <<>> /\ ~stale /\ ~compose.on /\ ~unavailable /\ staged = Absent
        /\ buf # Absent /\ seen # Absent =>
        buf.source = seen /\ seen = core.block

(* Input is saved, reported as failed or held by a composition, a menu or a *)
(* hidden page: no draft waits for nobody (scheduleFlush).  The exception   *)
(* is a draft whose block its own user removed and then undid: it waits for *)
(* the next key or for the route to be left.                                *)
Undone == Text(core.block) \cap gone # {}
InputSettles ==
    (buf # Absent /\ ~bufferIsClean(buf)) ~>
        \/ buf = Absent \/ bufferIsClean(buf) \/ told \/ unavailable \/ Undone
        \/ view.menu \/ compose.on \/ ~page.shown
=============================================================================
