----------------------------- MODULE MCEditing ------------------------------
(* Where a reader writes, one component at a time: rows not yet acknowledged, *)
(* the pickers of a block's properties, the cells of a query's result, the    *)
(* text area of a block.                                                      *)
EXTENDS Naturals, Sequences

VARIABLES component, core, seen, stale, collapsed, ui, spent,
    block, view, lane, faults, remotes,
    text, saved, retained, resident, write, released, fails,
    units, ed, acts

Row(id, depth) == [id |-> id, depth |-> depth]
Outline == INSTANCE OutlinePending WITH
    Blocks <- <<Row(1, 0), Row(2, 1), Row(3, 0)>>, MaxTyped <- 1, MaxOps <- 2, MaxBurst <- 3, MaxKeys <- 2, MaxChoices <- 1,
    MaxEvents <- 2, MaxRaces <- 2, MaxLane <- 3
Pickers == INSTANCE PropertyEditors WITH MaxPickers <- 2, MaxActs <- 4, MaxFaults <- 1, MaxRemote <- 2
Cells == INSTANCE QueryEdit WITH Block <- {1, 2}, Away <- {2}, MaxActs <- 5, MaxFails <- 1

\* A pair to type in; words, brackets and spaces under Vim in an outline and in a cell.
Opened ==
    {[units |-> <<<<"(", ")">>>>, keymap |-> "standard", host |-> "outline", acts |-> 5],
     [units |-> <<<<"x", "/", "_", "x">>, <<"x", ")", "x">>>>, keymap |-> "vim", host |-> "outline", acts |-> 4],
     [units |-> <<<<"x", "_", "(", "x">>>>, keymap |-> "vim", host |-> "cell", acts |-> 4]}
Area == INSTANCE BlockInput WITH MaxText <- 6

(* The variables of one component alone, and those of several.              *)
outlineOnly == <<core, seen, stale, collapsed, ui, spent>>
pickersOnly == <<block, view, lane, faults, remotes>>
cellsOnly == <<text, saved, retained, resident, write, released, fails>>
vars == <<component, outlineOnly, pickersOnly, cellsOnly, units, ed, acts>>
noOutline == core = 0 /\ seen = 0 /\ stale = 0 /\ collapsed = 0 /\ ui = 0 /\ spent = 0
noPickers == block = 0 /\ view = 0 /\ lane = 0 /\ faults = 0 /\ remotes = 0
noCells == text = 0 /\ saved = 0 /\ retained = 0 /\ resident = 0 /\ write = 0 /\ released = 0 /\ fails = 0

Init ==
    \/ component = "outline" /\ Outline!Init /\ noPickers /\ noCells /\ units = 0 /\ ed = 0 /\ acts = 0
    \/ component = "pickers" /\ Pickers!Init /\ noOutline /\ noCells /\ units = 0 /\ ed = 0
    \/ component = "cells" /\ Cells!Init /\ noOutline /\ noPickers /\ units = 0
    \/ component = "area" /\ Area!Init /\ noOutline /\ noPickers /\ noCells

Next ==
    /\ UNCHANGED component
    /\ \/ component = "outline" /\ Outline!Next /\ UNCHANGED <<pickersOnly, cellsOnly, units, ed, acts>>
       \/ component = "pickers" /\ Pickers!Next /\ UNCHANGED <<outlineOnly, cellsOnly, units, ed>>
       \/ component = "cells" /\ Cells!Next /\ UNCHANGED <<outlineOnly, pickersOnly, units>>
       \/ component = "area" /\ Area!Next /\ UNCHANGED <<outlineOnly, pickersOnly, cellsOnly>>

Spec == Init /\ [][Next]_vars
-----------------------------------------------------------------------------
\* Text and choices raced by the acknowledgement of a new row are kept, but for the input
\* of a row into which another was joined before it was acknowledged; the outline on
\* screen shows every token once, and every pending row is driven by a job, a key or a
\* read it waits for (draft-state.ts projectPendingOperations, Outliner.tsx adopt,
\* dispatchPending, abandonPending).
RowsKeepInput ==
    component = "outline" => Outline!RacedInputIsKept /\ Outline!ShownOnce /\ Outline!PendingIsDriven

\* A created block lands where its row stood (draft-state.ts commandFor against the
\* session's publication).
LandsInPlace == [][component = "outline" => Outline!RenamesOneRow]_vars

\* A completion's token leaves the text exactly once when its picker is gone, or its
\* failure is shown, but for a row that goes away under the picker and for the request
\* of the page field; editing a task's date leaves a repeat rule nobody touched as it is
\* (PropertyPicker.tsx, TaskMomentPicker.tsx).
ChoicesAreWritten == component = "pickers" => Pickers!TokenIsWritten /\ Pickers!UntouchedRepeatKept

\* What was typed in a cell is saved, still shown for a retry, or given up by the
\* reader, whichever cells, pages and panels were left meanwhile (edit.tsx).
InputIsDrained == component = "cells" => Cells!InputIsDrained

\* Pairs, compositions and their repairs leave the text before the caret as it was
\* typed, and Normal mode types nothing (BlockTextArea.tsx, auto-pair.ts).
TypedStays == component = "area" => Area!TypedStays /\ Area!NormalModeTypesNothing

\* Vim's word motions land where their definition over the whole text says
\* (vim/engine.ts).
WordMotionsLand == component = "area" => Area!WordMotionsLand
=============================================================================
