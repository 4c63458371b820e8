------------------------------ MODULE MCViews -------------------------------
(* What a reader sees and arranges, one component at a time: the selection of *)
(* an outline, the panel of a query and the order of its rows, the directory  *)
(* of tags, the remote account and its members dialog.                        *)
EXTENDS ClientAuth, Integers, TLC

VARIABLES component, rows, collapsed, readonly, ui, lane, budget,
    role, doc, q, running, typed, raced,
    tags, landed, remotes

\* Two rows for long sequences of gestures; larger outlines for a drag.
Row(id, depth) == [id |-> id, depth |-> depth]
Two == <<Row(1, 0), Row(2, 1)>>
Three == <<Row(1, 0), Row(2, 1), Row(3, 0)>>
Deep == <<Row(1, 0), Row(2, 1), Row(3, 2), Row(4, 0)>>
Wide == <<Row(1, 0), Row(2, 1), Row(3, 1), Row(4, 0), Row(5, 1)>>
Bound(gestures, events) == [acts |-> gestures, events |-> events]
OutlinesOpened == (Two :> Bound(3, 1)) @@ (Three :> Bound(2, 1)) @@ (Deep :> Bound(2, 0)) @@ (Wide :> Bound(2, 0))

\* Every gesture once; sequences of the ones that write and shape plans.
Open(managed, reads, seed, kinds, gestures, events) ==
    [role |-> [managed |-> managed, readonly |-> reads], seed |-> seed,
     kinds |-> kinds, acts |-> gestures, events |-> events]
All == {"conditions", "fold", "plan", "layout", "select", "add", "duplicate", "move", "remove", "cells"}
PanelsOpened ==
    {Open(TRUE, FALSE, FALSE, {"plan", "select"}, 3, 0),
     Open(TRUE, FALSE, FALSE, {"plan", "cells", "layout"}, 3, 0),
     Open(TRUE, FALSE, FALSE, {"plan", "cells"}, 2, 1),
     Open(TRUE, FALSE, FALSE, All, 1, 1), Open(TRUE, FALSE, TRUE, All, 2, 0),
     Open(TRUE, FALSE, TRUE, {"plan", "add"}, 2, 1),
     Open(FALSE, FALSE, FALSE, All, 1, 1), Open(FALSE, TRUE, FALSE, All, 2, 1)}

Selection == INSTANCE OutlineSelection WITH Opened <- OutlinesOpened, MaxLane <- 1
Panel == INSTANCE QueryPanel WITH Opened <- PanelsOpened, MaxLane <- 2

\* Neighbours without a gap between them, tags without a place, favourites, and a
\* library with room for one tag whose page is open.
Order == INSTANCE Ordering
Tag(group, order, star, fav) ==
    [is |-> "live", group |-> group, order |-> order, mark |-> 0, star |-> star, fav |-> fav]
Plain(group, order) == Tag(group, order, FALSE, Order!Unplaced)
Tight == <<Plain(1, 0), Plain(1, 1), Plain(2, 2)>>
Unordered == <<Plain(1, Order!Unplaced), Plain(1, Order!Unplaced), Plain(2, 4)>>
Starred == <<Tag(0, 0, TRUE, 0), Tag(0, 4, TRUE, 1), Tag(1, 8, TRUE, Order!Unplaced)>>
Room == <<Plain(0, 0), Plain(1, 4), [Plain(0, 0) EXCEPT !.is = "absent"]>>
TagsOpened ==
    {[tags |-> l, title |-> FALSE, acts |-> 2, faults |-> 0, remotes |-> IF l = Unordered THEN 0 ELSE 1] : l \in {Tight, Unordered, Starred}}
    \cup {[tags |-> Room, title |-> TRUE, acts |-> 3, faults |-> 1, remotes |-> 1]}
Directory == INSTANCE TagDirectory WITH Opened <- TagsOpened, MaxTitle <- 2

\* A list by priority and text, another by a ranked field and a checkbox, a table of tasks
\* with their times and of numbers; every row has a value to change to.
Fields(a, b) == "one" :> a @@ "two" :> b
Value(terms, time) == [terms |-> terms, time |-> time]
Term(rank, text) == [rank |-> rank, text |-> text]
NoTime == Term(-2, 0)
Single(r) == Value(<<Term(r, r)>>, NoTime)
Twice(r, s) == Value(<<Term(r, r), Term(s, s)>>, NoTime)
At(r, time) == Value(<<Term(r, r)>>, Term(time, time))
Foreign(text) == Value(<<Term(-1, text)>>, NoTime)
Nothing == Value(<<>>, NoTime)
Ordered(list, one, two, values) ==
    [list |-> list, semantics |-> Fields(one, two), values |-> [k \in 1..3 |-> {values[k][1], values[k][2]}],
     rows |-> [k \in 1..3 |-> [key |-> k, values |-> values[k][1]]]]
OrdersOpened ==
    {Ordered(TRUE, "below", "text", <<<<Fields(Single(1), Single(2)), Fields(Nothing, Single(2))>>,
         <<Fields(Single(2), Single(1)), Fields(Foreign(3), Nothing)>>,
         <<Fields(Foreign(2), Single(2)), Fields(Single(2), Single(2))>>>>),
     Ordered(TRUE, "last", "boolean", <<<<Fields(Single(1), Single(0)), Fields(Nothing, Single(1))>>,
         <<Fields(Single(1), Single(1)), Fields(Foreign(3), Single(0))>>,
         <<Fields(Foreign(2), Nothing), Fields(Twice(2, 1), Single(1))>>>>),
     Ordered(FALSE, "text", "number", <<<<Fields(At(1, 1), Single(0)), Fields(At(1, -1), Single(1))>>,
         <<Fields(Twice(1, 2), Single(1)), Fields(Twice(2, 1), Single(2))>>,
         <<Fields(Nothing, Single(3)), Fields(At(1, 2), Nothing)>>>>)}
Answer == INSTANCE QueryOrdering WITH Opened <- OrdersOpened, MaxActs <- 3

(* The variables of one component alone, and those of several.              *)
selectionOnly == <<rows, collapsed, readonly>>
panelOnly == <<role, running, typed, raced>>
tagsOnly == <<tags, landed, remotes>>
accountOnly == <<held, due, asked, retry, validating, dialog, server, expired, signedOut, overwritten, elsewhere>>
others == <<doc, q, ui, lane, budget>>
viewsVars == <<component, vars, selectionOnly, panelOnly, tagsOnly, others>>
noSelection == rows = 0 /\ collapsed = 0 /\ readonly = 0
noPanel == role = 0 /\ running = 0 /\ typed = 0 /\ raced = 0
noTags == tags = 0 /\ landed = 0 /\ remotes = 0
noAccount ==
    /\ held = 0 /\ due = 0 /\ asked = {} /\ retry = 0 /\ validating = 0 /\ dialog = [t \in Tab |-> Dialog] /\ expired = {}
    /\ server = [accepts |-> {}] /\ signedOut = {} /\ overwritten = {} /\ elsewhere = {}

ViewsInit ==
    \/ component = "selection" /\ Selection!Init /\ noAccount /\ noPanel /\ noTags /\ doc = 0 /\ q = 0 /\ acts = 0 /\ faults = 0
    \/ component = "panel" /\ Panel!Init /\ noAccount /\ noSelection /\ noTags /\ ui = 0 /\ lane = 0 /\ acts = 0 /\ faults = 0
    \/ component = "order" /\ Answer!Init /\ noAccount /\ noSelection /\ noPanel /\ noTags /\ ui = 0 /\ lane = 0 /\ budget = 0 /\ faults = 0
    \/ component = "tags" /\ Directory!Init /\ noAccount /\ noSelection /\ noPanel /\ doc = 0 /\ q = 0 /\ budget = 0
    \/ component = "account" /\ Init /\ noSelection /\ noPanel /\ noTags /\ doc = 0 /\ q = 0 /\ ui = 0 /\ lane = 0 /\ budget = 0

ViewsNext ==
    /\ UNCHANGED component
    /\ \/ component = "selection" /\ Selection!Next /\ UNCHANGED <<accountOnly, panelOnly, tagsOnly, doc, q, acts, faults>>
       \/ component = "panel" /\ Panel!Next /\ UNCHANGED <<accountOnly, selectionOnly, tagsOnly, ui, lane, acts, faults>>
       \/ component = "order" /\ Answer!Next /\ UNCHANGED <<accountOnly, selectionOnly, panelOnly, tagsOnly, ui, lane, budget, faults>>
       \/ component = "tags" /\ Directory!Next /\ UNCHANGED <<accountOnly, selectionOnly, panelOnly, doc, q, budget>>
       \/ component = "account" /\ Next /\ UNCHANGED <<selectionOnly, panelOnly, tagsOnly, others>>

ViewsSpec == ViewsInit /\ [][ViewsNext]_viewsVars
-----------------------------------------------------------------------------
\* The next command never has two targets: a caret and a block selection exist at once
\* only under a range drag that a finished command's caret interrupted; and a drop puts
\* the dragged rows where its indicator was (Outliner.tsx, graph-core's move_blocks).
SelectionLands == component = "selection" => Selection!OneTarget /\ Selection!DropLands

\* The plan a reader typed last is the one its view is saved with, and no plan is shown
\* or saved in another view (QueryPanel.tsx, deferred-command.ts).
TypedPlanLands == component = "panel" => Panel!TypedPlanLands /\ Panel!PlanStaysInItsView

\* A panel at rest shows the answer to the plan and the document it stands for, a result
\* never loses a column under the cell being edited, and its rows stand in one order, the
\* one being edited where it was (execution.ts, ordering.ts, QueryPanel.tsx).
SettledAnswerIsCurrent ==
    /\ component = "panel" => Panel!SettledAnswerIsCurrent /\ Panel!EditorKeepsItsColumns
    /\ component = "order" => Answer!OrderIsLawful /\ Answer!ValuesStandFirst /\ Answer!EditedRowStays

\* A moved tag, group or favourite stands in the gap that was shown, and a typed title
\* is stored or reported (ordering.ts, TagsView.tsx, EditableTitle.tsx).
TagsLand == component = "tags" => Directory!MoveLands /\ Directory!TypedTitleLands
=============================================================================
