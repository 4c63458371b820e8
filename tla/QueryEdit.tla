------------------------------ MODULE QueryEdit ------------------------------
(***************************************************************************)
(* Editing the cells of a query result (edit.tsx).  One coordinator owns   *)
(* the open cell: a Markdown cell shares the block's content session, a    *)
(* property or tag cell opens a picker, a cell of a page that is not       *)
(* resident hydrates first.  Saves, hydrations and the gestures waiting    *)
(* for them finish in any order with further typing, closing and opening.  *)
(***************************************************************************)
EXTENDS Naturals, Sequences, FiniteSets, SequencesExt

CONSTANTS
    Block,         \* the blocks of the result's rows
    Away,          \* those on a page that is not resident
    MaxActs,       \* bound: gestures of the reader
    MaxFails       \* bound: writes and hydrations that fail

VARIABLES
    ed,            \* the coordinator: see Coordinator
    text,          \* the input in each block's content session, by version
    saved,         \* the version the graph has
    retained,      \* blocks with actions a rejected write left to retry
    resident,      \* blocks of hydrated pages
    write,         \* the write in flight: see NoWrite
    released,      \* blocks whose input the reader or a reported failure gave up
    acts, fails

vars == <<ed, text, saved, retained, resident, write, released, acts, fails>>

Kinds == {"markdown", "property", "task", "tags"}
NoCell == [block |-> 0, kind |-> "none"]

\*   phase      none, loading, error, markdown or picker     origin   the begin it came from
\*   closing    close once saved                             prefix   text a picker still writes
\*   request    the latest begin or cancel                   hydrating  begins waiting for a page
Closed == [phase |-> "none", cell |-> NoCell, origin |-> 0, composing |-> FALSE, completing |-> FALSE,
           saving |-> FALSE, closing |-> FALSE, failed |-> FALSE, prefix |-> FALSE]
Coordinator == [active |-> Closed, request |-> 0, hydrating |-> {}, mounted |-> TRUE, enabled |-> TRUE]

\* Who asked for a commit, and what happens once it has succeeded.
Commit(cell, origin, close, then, seq) ==
    [cell |-> cell, origin |-> origin, close |-> close, then |-> then, target |-> NoCell, seq |-> seq]
NoWrite == [commit |-> Commit(NoCell, 0, FALSE, "none", 0), waiters |-> <<>>, version |-> 0, owed |-> FALSE]

TypeOK ==
    /\ ed.active.cell.kind \in Kinds \cup {"none"} /\ (ed.active.saving => write # NoWrite)
    /\ text \in [Block -> Nat] /\ saved \in [Block -> Nat] /\ released \subseteq Block
    /\ retained \subseteq Block /\ resident \subseteq Block

Markdown(x) == x.ed.active.phase = "markdown"

\* A step is a function of the whole: the coordinator, the writes and what was released.
State == [ed |-> ed, write |-> write, released |-> released, resident |-> resident,
          saved |-> saved, retained |-> retained]
Becomes(x) ==
    /\ ed' = x.ed /\ write' = x.write /\ released' = x.released /\ resident' = x.resident
    /\ saved' = x.saved /\ retained' = x.retained

Clean(x, b) == text[b] = x.saved[b]

bindingKey(cell) == cell
open(x, cell, seq) ==
    [x EXCEPT !.ed.active = [Closed EXCEPT !.phase = IF cell.kind = "markdown" THEN "markdown" ELSE "picker",
                                           !.cell = cell, !.origin = seq]]
\* A resident block opens in the focus event; another waits for its page.
activate(x, cell, seq) ==
    IF cell.block \in x.resident THEN open(x, cell, seq)
    ELSE [x EXCEPT !.ed.active = [Closed EXCEPT !.phase = "loading", !.cell = cell, !.origin = seq],
                   !.ed.hydrating = @ \cup {[cell |-> cell, seq |-> seq]}]

cancel(x) ==
    [x EXCEPT !.ed.request = @ + 1, !.ed.active = Closed,
              !.released = IF (Markdown(x) \/ x.ed.active.prefix) /\ ~Clean(x, x.ed.active.cell.block)
                           THEN @ \cup {x.ed.active.cell.block} ELSE @]
-----------------------------------------------------------------------------
(* Saving.                                                                 *)

\* What follows a commit that succeeded.
Then(x, c) ==
    IF c.then = "open" /\ x.ed.mounted /\ c.seq = x.ed.request THEN activate(x, c.target, c.seq) ELSE x

\* The cell is dirty, or an action must be written with it.
save(x, c, action) ==
    [x EXCEPT !.write = [NoWrite EXCEPT !.commit = c, !.owed = action],
              !.ed.active = [@ EXCEPT !.saving = TRUE, !.closing = @ \/ c.close, !.failed = FALSE]]

\* commit: joins the write in flight, closes a clean cell, or writes.
commit(x, c, action) ==
    LET a == x.ed.active IN
    IF ~Markdown(x) \/ a.composing THEN x
    ELSE IF a.saving THEN [x EXCEPT !.write.waiters = Append(@, c)]
    ELSE IF Clean(x, a.cell.block) /\ ~action /\ a.cell.block \notin x.retained
    THEN Then(IF c.close THEN [x EXCEPT !.ed.active = Closed] ELSE x, c)
    ELSE save(x, c, action)

Own(close) == Commit(ed.active.cell, ed.active.origin, close, "none", 0)

\* The session prepares the buffer as it is when the write's turn comes.
submit ==
    /\ write # NoWrite /\ write.version = 0
    /\ write' = [write EXCEPT !.version = text[write.commit.cell.block]]
    /\ UNCHANGED <<ed, text, saved, retained, resident, released, acts, fails>>

\* A commit resumes after the write it waited for: newer input goes with it.
\* Mutant: it takes the write it waited for as its own.
resumeAsSaved(x, c) == Then(x, c)
resume(x, c) ==
    LET a == x.ed.active IN
    IF a = Closed THEN Then(x, c)
    ELSE IF ~Markdown(x) \/ a.origin # c.origin \/ bindingKey(a.cell) # bindingKey(c.cell) THEN x
    ELSE commit(x, c, FALSE)

\* The write succeeded: the cell closes unless it has newer input or another is open.
settled(x, w, newer) ==
    LET a == x.ed.active
        same == Markdown(x) /\ a.origin = w.commit.origin /\ bindingKey(a.cell) = bindingKey(w.commit.cell)
    IN IF ~same THEN x
       ELSE IF a.closing /\ ~newer THEN [x EXCEPT !.ed.active = Closed]
       ELSE [x EXCEPT !.ed.active.saving = FALSE]

\* The waiting commits are resumed after the version is known to be saved.
wrote ==
    /\ write # NoWrite /\ write.version > 0
    /\ LET b == write.commit.cell.block
           newer == text[b] # write.version
           first == settled([State EXCEPT !.write = NoWrite, !.saved[b] = write.version,
                                          !.retained = @ \ {b}], write, newer)
           again == newer /\ write.commit.then # "alone" /\ Markdown(first) /\ first.ed.active.origin = write.commit.origin
           drained == IF again THEN save(first, write.commit, FALSE) ELSE Then(first, write.commit)
           after == FoldLeft(resume, drained, write.waiters)
       IN Becomes([after EXCEPT !.released = IF newer THEN @ ELSE @ \ {b}])
    /\ UNCHANGED <<text, acts, fails>>

\* The write was refused: the cell keeps its input and offers Retry.
rejected ==
    /\ write # NoWrite /\ write.version > 0 /\ fails > 0 /\ fails' = fails - 1
    /\ LET a == ed.active
           b == write.commit.cell.block
           same == Markdown(State) /\ a.origin = write.commit.origin
                   /\ bindingKey(a.cell) = bindingKey(write.commit.cell)
       IN /\ ed' = IF same THEN [ed EXCEPT !.active = [a EXCEPT !.saving = FALSE, !.closing = FALSE,
                                                                !.failed = TRUE]] ELSE ed
          /\ retained' = IF write.owed THEN retained \cup {b} ELSE retained
          /\ released' = IF same /\ ed.mounted THEN released ELSE released \cup {b}
    /\ write' = NoWrite
    /\ UNCHANGED <<text, saved, resident, acts>>
-----------------------------------------------------------------------------
(* Opening and closing cells.                                              *)

Act == acts > 0 /\ acts' = acts - 1 /\ ed.mounted
\* A press elsewhere first dismisses a picker.
Elsewhere == Act /\ ~ed.active.prefix
Keeps == UNCHANGED <<text, fails>>

beginWaits(cell) ==
    LET seq == ed.request + 1
        x == [State EXCEPT !.ed.request = seq]
        a == ed.active
        next == [Commit(a.cell, a.origin, FALSE, "open", seq) EXCEPT !.target = cell]
    IN IF a.phase # "markdown" /\ write # NoWrite
       THEN [x EXCEPT !.write.waiters = Append(@, [next EXCEPT !.origin = 0])]
       ELSE IF a.phase = "markdown" /\ (a.failed \/ a.composing) THEN x
       ELSE IF a.phase = "markdown" /\ (a.saving \/ ~Clean(x, a.cell.block)) THEN commit(x, next, FALSE)
       ELSE activate(x, cell, seq)

\* What a row offers.  A table cell shows a text, a property's or the tags' button or a
\* menu of the status or priority; a list of blocks shows the text and the two menus as
\* marks.  A graph that is read-only offers nothing.
QueryMarkdownField == [block : Block, kind : {"markdown"}]
TaskChoiceCell == [block : Block, kind : {"task"}]
EditableCellValue == QueryMarkdownField \cup TaskChoiceCell \cup [block : Block, kind : {"property", "tags"}]
EditableBlockContent == QueryMarkdownField
EditableBlockTaskMark == TaskChoiceCell
begin ==
    /\ Elsewhere /\ ed.enabled
    /\ \E cell \in (EditableCellValue \cup EditableBlockContent \cup EditableBlockTaskMark) \ {ed.active.cell} :
          Becomes(beginWaits(cell))
    /\ Keeps

\* A hydration that a later begin or cancel overtook changes nothing.
hydrated ==
    \E h \in ed.hydrating :
        LET x == [State EXCEPT !.ed.hydrating = @ \ {h}]
            lost == [Closed EXCEPT !.phase = "error", !.cell = h.cell, !.origin = h.seq]
        IN /\ \/ /\ Becomes(LET r == [x EXCEPT !.resident = @ \cup {h.cell.block}]
                            IN IF h.seq = ed.request THEN open(r, h.cell, h.seq) ELSE r)
                 /\ UNCHANGED fails
              \/ /\ fails > 0 /\ fails' = fails - 1
                 /\ Becomes(IF h.seq = ed.request THEN [x EXCEPT !.ed.active = lost] ELSE x)
           /\ UNCHANGED <<text, acts>>

\* Leaving the field, Enter, folding the answer or hiding its column.
blur ==
    /\ Elsewhere /\ ed.active.phase # "none"
    /\ Becomes(IF Markdown(State) THEN commit(State, Own(TRUE), FALSE) ELSE cancel(State))
    /\ Keeps
escape == Elsewhere /\ ed.active.phase # "none" /\ Becomes(cancel(State)) /\ Keeps

retry ==
    /\ Act
    /\ \/ ed.active.phase = "error" /\ Becomes(activate([State EXCEPT !.ed.request = @ + 1],
                                                        ed.active.cell, ed.request + 1))
       \/ ed.active.failed /\ Becomes(commit(State, Own(FALSE), FALSE))
    /\ Keeps

\* The undo keys drain the cell first, then run the graph's history.
runHistory == Act /\ Markdown(State) /\ Becomes(commit(State, Own(FALSE), FALSE)) /\ Keeps

\* The command palette opens the properties of the block being edited.
registerBlockProperties ==
    /\ Elsewhere /\ ed.enabled /\ ed.active.phase \in {"markdown", "picker"}
    /\ Becomes(beginWaits([block |-> ed.active.cell.block, kind |-> "property"]))
    /\ Keeps

\* The surface unmounts: what is typed is written; a rejected draft, a composition
\* and the text a picker was to write are not.
\* Mutant: removing the field is taken for a blur, which the browser never sends.
unmountSilently(x) == [x EXCEPT !.ed.mounted = FALSE, !.ed.request = @ + 1]
unmounted(x) ==
    LET y == [x EXCEPT !.ed.mounted = FALSE, !.ed.request = @ + 1]
        a == x.ed.active
        gone == a # Closed /\ ~Clean(x, a.cell.block) /\ ((Markdown(x) /\ (a.failed \/ a.composing)) \/ a.prefix)
    IN IF gone THEN [y EXCEPT !.released = @ \cup {a.cell.block}]
       ELSE IF Markdown(x) THEN commit(y, Own(FALSE), FALSE) ELSE y
unmount == Act /\ Becomes(unmounted(State)) /\ Keeps

\* The graph becomes read-only.
disable ==
    /\ Act /\ ed.enabled
    /\ Becomes([(IF ed.active.phase # "none" THEN cancel(State) ELSE State) EXCEPT !.ed.enabled = FALSE])
    /\ Keeps
-----------------------------------------------------------------------------
(* The Markdown field.                                                     *)

Types(b) == text' = [text EXCEPT ![b] = @ + 1] /\ UNCHANGED fails
InField == Act /\ Markdown(State)

\* A page, command or tag before the caret that some choice matches opens its menu;
\* anything else closes it.  A composition postpones both.
updateCompletions == IF ed.active.composing THEN {ed.active.completing} ELSE BOOLEAN

\* Typing.
setDraft ==
    /\ InField
    /\ \E completing \in updateCompletions :
          /\ Becomes([State EXCEPT !.ed.active.completing = completing, !.ed.active.failed = FALSE])
    /\ Types(ed.active.cell.block)
composition ==
    /\ InField /\ Becomes([State EXCEPT !.ed.active.composing = ~@]) /\ Keeps

canAcceptCompletion == Markdown(State) /\ ed.active.completing /\ ~ed.active.saving /\ ~ed.active.failed

\* A row of the open menu is chosen; a save under way or an error refuses it.
onChoose == InField /\ canAcceptCompletion

\* A chosen command, tag or page is written with the text it leaves, and a command
\* that makes a code block closes the cell; closing the menu writes nothing.
Accept(close, action) ==
    LET x == [State EXCEPT !.ed.active.completing = FALSE]
    IN IF ed.active.composing THEN x ELSE save(x, Own(close), action)
acceptSlash ==
    /\ onChoose
    /\ \E code \in BOOLEAN : Becomes(Accept(code, ~code))
    /\ Types(ed.active.cell.block)
acceptTag == onChoose /\ Becomes(Accept(FALSE, TRUE)) /\ Types(ed.active.cell.block)
acceptPage ==
    /\ onChoose
    /\ Becomes(save([State EXCEPT !.ed.active.completing = FALSE],
                    [Own(FALSE) EXCEPT !.then = "alone"], TRUE))
    /\ Types(ed.active.cell.block)
closeCompletion ==
    /\ InField /\ ed.active.completing
    /\ Becomes([State EXCEPT !.ed.active.completing = FALSE]) /\ Keeps

\* A property command hands the text to the picker, which writes it first.
acceptProperty ==
    /\ onChoose
    /\ Becomes([State EXCEPT !.ed.active = [Closed EXCEPT !.phase = "picker", !.prefix = TRUE,
                    !.cell = [block |-> ed.active.cell.block, kind |-> "property"],
                    !.origin = ed.active.origin]])
    /\ Types(ed.active.cell.block)
\* The picker writes its text alone when it is dismissed, or with the value.
pickerCloses ==
    /\ Act /\ ed.active.prefix
    /\ LET b == ed.active.cell.block
       IN \/ /\ UNCHANGED fails
             /\ Becomes([cancel(State) EXCEPT !.released = released, !.saved[b] = text[b]])
          \/ /\ fails > 0 /\ fails' = fails - 1
             /\ Becomes([cancel(State) EXCEPT !.released = @ \cup {b}])
    /\ UNCHANGED text

\* A task key writes the next state with the text.
cycleTask == InField /\ ~ed.active.saving /\ Becomes(commit(State, Own(FALSE), TRUE)) /\ Keeps

\* The debounce elapses; an open completion is left to its menu.
debounce ==
    /\ Markdown(State) /\ ~ed.active.composing /\ ~ed.active.completing /\ ~ed.active.saving
    /\ ~ed.active.failed /\ ~Clean(State, ed.active.cell.block) /\ ed.mounted
    /\ Becomes(commit(State, Own(FALSE), FALSE))
    /\ Keeps /\ UNCHANGED acts
-----------------------------------------------------------------------------
Init ==
    /\ ed = Coordinator /\ write = NoWrite
    /\ text = [b \in Block |-> 1] /\ saved = [b \in Block |-> 1]
    /\ retained = {} /\ resident = Block \ Away /\ released = {}
    /\ acts = MaxActs /\ fails = MaxFails

Next ==
    \/ submit \/ wrote \/ rejected \/ hydrated \/ debounce
    \/ begin \/ blur \/ escape \/ retry \/ runHistory \/ registerBlockProperties \/ unmount \/ disable
    \/ setDraft \/ composition \/ acceptSlash \/ acceptTag \/ acceptPage \/ closeCompletion \/ acceptProperty
    \/ pickerCloses \/ cycleTask

Spec == Init /\ [][Next]_vars
-----------------------------------------------------------------------------
\* Input typed into a cell is never orphaned: while the graph does not have it, the
\* cell is open on it, a write that includes it or a commit behind that write is
\* under way, or the reader let go of it or was told.  Switching cells, closing
\* during a save, folding the answer and leaving the page all drain it.
InputIsDrained ==
    \A b \in Block \ released : ~Clean(State, b) =>
        \/ ed.active.cell.block = b /\ (Markdown(State) \/ ed.active.prefix) /\ ed.mounted
        \/ write # NoWrite /\ write.commit.cell.block = b
=============================================================================
