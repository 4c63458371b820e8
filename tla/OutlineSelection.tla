-------------------------- MODULE OutlineSelection --------------------------
(***************************************************************************)
(* What the next key acts on.  An outline has a caret or a block           *)
(* selection; range drags, bullet drags, Vim's Visual Line, the row menu   *)
(* and the keys of the tree move between the two while structural commands *)
(* wait in the session and other replicas change the rows (Outliner.tsx,   *)
(* interaction-state.ts).  A row index is 1-based, gap g is above row g.   *)
(***************************************************************************)
EXTENDS OutlineTree, FiniteSetsExt

CONSTANTS
    Opened,        \* the outlines a page may open on; bounds: on each, the gestures and
                   \* keys (acts) and the changes by other replicas (events)
    MaxLane        \* bound: commands waiting in the session

VARIABLES
    rows,          \* the published outline
    collapsed,
    readonly,      \* state.mode = "readonly"
    ui,            \* the surface: see Surface
    lane,          \* commands the session still has to execute
    budget         \* what the bounds have left

vars == <<rows, collapsed, readonly, ui, lane, budget>>

NoThen == -1                 \* nothing follows the command
NoVisual == [anchor |-> Root, head |-> Root]
NoPress == [kind |-> "none", start |-> 0, anchor |-> 0, active |-> FALSE, shift |-> FALSE,
            cross |-> FALSE, row |-> Root, moving |-> {}, target |-> NoDrop, at |-> <<>>]

\*   focus     the row that has the caret         selected  the selected blocks
\*   anchor    where a range starts, by id        visual    Visual Line's range
\*   gesture   idle, selecting or dragging        press     the listeners of a live press
\*   menu      the row menu: its row, and whether it is open or closing
\*   picker    the block a property or tag picker is about
Surface == [focus |-> Root, selected |-> {}, anchor |-> Root, visual |-> NoVisual,
            gesture |-> "idle", press |-> NoPress, menu |-> Root, closing |-> Root,
            picker |-> Root]

Shown == flattenOutline(rows, collapsed)

Init ==
    /\ rows \in DOMAIN Opened
    /\ collapsed \in {{}} \cup {{rows[i].id} : i \in {j \in DOMAIN rows : hasChildren(rows, j)}}
    /\ readonly \in BOOLEAN
    /\ \E id \in {Root} \cup Ids(Shown) : ui = [Surface EXCEPT !.focus = id]
    /\ lane = <<>> /\ budget = Opened[rows]

Index(id) == rowIndexOf(Shown, id)
selectionCount == Cardinality(ui.selected \cap Ids(Shown))

Spend(what) == budget[what] > 0 /\ budget' = [budget EXCEPT ![what] = @ - 1]
-----------------------------------------------------------------------------
(* The caret and the selection.                                            *)

leaveVisualLine(u) == [u EXCEPT !.visual = NoVisual]
clearSelection(u) == [u EXCEPT !.anchor = Root, !.selected = {}, !.visual = NoVisual]
takeTreeFocus(u) == [u EXCEPT !.focus = Root]

\* Mutant: the caret arrives and the selection stays.
activateBeside(u, id) == [u EXCEPT !.focus = id]
activateBlock(u, id) ==
    IF id = Root THEN [u EXCEPT !.focus = Root]
    ELSE [u EXCEPT !.focus = id, !.selected = {}, !.visual = NoVisual]

\* Removed blocks leave the selection; a lost end ends Visual Line.
repairSelection(u, new) ==
    IF u.visual # NoVisual /\ ~({u.visual.anchor, u.visual.head} \subseteq Ids(new))
    THEN clearSelection(u)
    ELSE [u EXCEPT !.selected = @ \cap Ids(new)]

\* A caret whose row is no longer shown goes to the nearest row above it.
repairFocus(u, before, after) ==
    LET at == rowIndexOf(before, u.focus)
        above == {i \in 1..(at - 1) : before[i].id \in Ids(after)}
    IN IF u.focus = Root \/ u.focus \in Ids(after) \/ at = 0 THEN u
       ELSE activateBlock(u, IF above # {} THEN before[Max(above)].id
                             ELSE IF after # <<>> THEN after[1].id ELSE Root)

\* The surface u over new rows and a new collapsed set.
Render(u, new, hidden) ==
    /\ rows' = new /\ collapsed' = hidden
    /\ ui' = repairFocus(IF new = rows THEN u ELSE repairSelection(u, new), Shown,
                         flattenOutline(new, hidden))

\* The surface alone changes, without or with a command.
Surfaces(u) == Spend("acts") /\ ui' = u /\ UNCHANGED <<rows, collapsed, readonly, lane>>
Runs(u, commands) ==
    /\ Spend("acts") /\ Len(lane) + Len(commands) <= MaxLane
    /\ ui' = u /\ lane' = lane \o commands /\ UNCHANGED <<rows, collapsed, readonly>>
-----------------------------------------------------------------------------
(* Structural commands.                                                    *)

Cmd(op, ids, parent, after, then) ==
    [op |-> op, ids |-> ids, parent |-> parent, after |-> after, then |-> then]
Plain(op, ids) == Cmd(op, ids, Root, Root, NoThen)

\* The fresh block of a paste or of the append region, at a place among its siblings.
Fresh == Max(Ids(rows) \cup {20}) + 1
insertAt(r, c) ==
    LET p == rowIndexOf(r, c.parent)
        kids == Sorted(r, ChildIndexes(r, c.parent))
        at == IF c.after < Len(kids) THEN kids[c.after + 1]
              ELSE IF p = 0 THEN Len(r) + 1 ELSE End(r, p)
    IN IF c.parent # Root /\ p = 0 THEN Refused
       ELSE Insert(r, at, <<Row(Fresh, IF p = 0 THEN 0 ELSE r[p].depth + 1)>>)

Perform(r, c) ==
    CASE c.op = "delete" -> delete_blocks(r, c.ids)
      [] c.op = "indent" -> indent_blocks(r, c.ids)
      [] c.op = "outdent" -> outdent_blocks(r, c.ids)
      [] c.op = "move" -> move_blocks(r, c.ids, c.parent, c.after)
      [] c.op = "insert" -> insertAt(r, c)

\* The session executes a command; the outline follows, then the caret.
run ==
    /\ lane # <<>>
    /\ LET c == Head(lane)
           new == Perform(rows, c)
           after == IF new = Refused THEN rows ELSE new
           then == IF c.op # "insert" THEN c.then ELSE IF new = Refused THEN NoThen ELSE Fresh
           landed == repairFocus(repairSelection(ui, after), Shown, flattenOutline(after, collapsed))
       IN /\ rows' = after
          /\ ui' = IF then = NoThen THEN landed ELSE activateBlock(landed, then)
    /\ lane' = Tail(lane)
    /\ UNCHANGED <<collapsed, readonly, budget>>

\* Another replica, or undo, changes the outline.
remote ==
    /\ Spend("events")
    /\ \E id \in Ids(rows), op \in {"delete", "indent", "outdent"} :
          /\ Perform(rows, Plain(op, {id})) # Refused
          /\ Render(ui, Perform(rows, Plain(op, {id})), collapsed)
    /\ UNCHANGED <<readonly, lane>>
-----------------------------------------------------------------------------
(* Pointer gestures.  A new press retires the listeners of a live one that *)
(* has not become a drag.                                                  *)

pointerGestureReducer(state, action) ==
    CASE action = "select" -> "selecting" [] action = "drag" -> "dragging" [] action = "end" -> "idle"

startSelecting(u, p) ==
    [takeTreeFocus(leaveVisualLine(u)) EXCEPT
        !.gesture = pointerGestureReducer(@, "select"),
        !.selected = selectableIds(Shown, p.anchor, p.start), !.press = [p EXCEPT !.active = TRUE]]

beginRangeSelection(start, shift, immediate, cross) ==
    LET extend == IF shift THEN Index(ui.anchor) ELSE 0
        anchor == IF extend > 0 THEN extend ELSE start
        p == [NoPress EXCEPT !.kind = "range", !.start = start, !.anchor = anchor,
                             !.shift = shift, !.cross = cross]
        u == [ui EXCEPT !.anchor = Shown[anchor].id, !.press = p]
    IN Surfaces(IF immediate THEN startSelecting(u, p) ELSE u)

\* The grip selects at once; the text of the row being written, only across rows.
onGripPointerDown(i) == \E shift \in BOOLEAN : beginRangeSelection(i, shift, TRUE, FALSE)
onSurfacePointerDown(i) ==
    \E shift \in BOOLEAN, text \in BOOLEAN :
        beginRangeSelection(i, shift, FALSE, text /\ ui.focus = Shown[i].id)

rangeMove(i) ==
    LET p == ui.press IN
    /\ p.kind = "range"
    /\ p.active \/ ~p.cross \/ i # p.start
    /\ LET u == IF p.active THEN ui ELSE startSelecting(ui, p)
       IN Surfaces([u EXCEPT !.selected = selectableIds(Shown, p.anchor, i)])
rangeEnd ==
    LET p == ui.press
        u == [ui EXCEPT !.press = NoPress]
    IN /\ p.kind = "range"
       /\ Surfaces(IF p.active
                   THEN takeTreeFocus([u EXCEPT !.gesture = pointerGestureReducer(@, "end")])
                   ELSE IF ~p.shift /\ u.selected # {} THEN clearSelection(u) ELSE u)

\* The bullet: shift extends, a modifier toggles, a plain press may become a drag.
onBulletPointerDown(i, modifier) ==
    LET id == Shown[i].id
        tree == takeTreeFocus(leaveVisualLine(ui))
        anchor == Index(ui.anchor)
    IN Surfaces(
         IF modifier = "shift" /\ anchor > 0
         THEN [tree EXCEPT !.selected = selectableIds(Shown, anchor, i)]
         ELSE IF modifier = "toggle"
         THEN [tree EXCEPT !.anchor = id,
                           !.selected = IF id \in @ THEN @ \ {id} ELSE @ \cup {id}]
         ELSE [ui EXCEPT !.anchor = id,
                         !.press = [NoPress EXCEPT !.kind = "bullet", !.row = id,
                                    !.moving = IF id \in ui.selected THEN ui.selected
                                               ELSE selectableIds(Shown, i, i)]])

resolveDrop(p, gap, depth) ==
    [p EXCEPT !.active = TRUE, !.at = Shown,
              !.target = dropTarget(Shown, collapsed, p.moving, gap, depth)]
bulletMove(gap, depth) ==
    LET p == ui.press
        u == IF p.active THEN ui
             ELSE [takeTreeFocus(leaveVisualLine(ui)) EXCEPT
                      !.selected = p.moving, !.gesture = pointerGestureReducer(@, "drag")]
    IN /\ p.kind = "bullet" /\ (p.active \/ ~readonly)
       /\ Surfaces([u EXCEPT !.press = resolveDrop(p, gap, depth)])

applyMove(target, moving) ==
    LET roots == {Shown[i].id : i \in selectionRoots(Shown, moving)}
    IN IF roots = {} THEN <<>> ELSE <<Cmd("move", roots, target.parent, target.after, NoThen)>>
bulletEnd(cancelled) ==
    LET p == ui.press
        u == [ui EXCEPT !.press = NoPress, !.gesture = pointerGestureReducer(@, "end")]
    IN /\ p.kind = "bullet"
       /\ IF cancelled THEN Surfaces(u)
          ELSE IF ~p.active THEN Surfaces(activateBlock(u, p.row))
          ELSE Runs(u, IF p.target = NoDrop THEN <<>> ELSE applyMove(p.target, p.moving))

pointer ==
    \/ /\ ~ui.press.active
       /\ \E i \in DOMAIN Shown :
             \/ onGripPointerDown(i) \/ onSurfacePointerDown(i)
             \/ \E m \in {"none", "shift", "toggle"} : onBulletPointerDown(i, m)
    \/ \E i \in DOMAIN Shown : rangeMove(i)
    \/ rangeEnd
    \/ \E gap \in 1..(Len(Shown) + 1), depth \in 0..2 : bulletMove(gap, depth)
    \/ \E cancelled \in BOOLEAN : bulletEnd(cancelled)
-----------------------------------------------------------------------------
(* Keys and menus.                                                         *)

Roots == Sorted(Shown, selectionRoots(Shown, ui.selected))
RootIds == {Shown[i].id : i \in selectionRoots(Shown, ui.selected)}
Above(i) == IF i > 1 THEN Shown[i - 1].id ELSE Root

removeSelection ==
    /\ RootIds # {} /\ ~readonly
    /\ Runs(clearSelection(ui), <<Cmd("delete", RootIds, Root, Root, Above(Roots[1]))>>)
shiftSelection(op) == RootIds # {} /\ ~readonly /\ Runs(ui, <<Plain(op, RootIds)>>)

\* Only an unbroken run of siblings moves as one.
moveSelection(delta) ==
    LET parents == {ParentId(rows, rowIndexOf(rows, id)) : id \in RootIds}
        parent == CHOOSE p \in parents : TRUE
        kids == Sorted(rows, ChildIndexes(rows, parent))
        at == {k \in DOMAIN kids : rows[kids[k]].id \in RootIds}
        after == IF delta = 1 THEN rows[kids[Max(at) + 1]].id
                 ELSE IF Min(at) > 2 THEN rows[kids[Min(at) - 2]].id ELSE Root
    IN /\ ~readonly /\ Cardinality(parents) = 1
       /\ Max(at) - Min(at) + 1 = Cardinality(RootIds)
       /\ IF delta = -1 THEN Min(at) > 1 ELSE Max(at) < Len(kids)
       /\ Runs(ui, <<Cmd("move", RootIds, parent, after, NoThen)>>)

escapeSelection ==
    Surfaces(IF Roots = <<>> THEN clearSelection(ui)
             ELSE activateBlock(clearSelection(ui), Shown[Roots[1]].id))
stepOut(k) == Roots # <<>> /\ Surfaces(activateBlock(ui, Shown[Roots[k]].id))

\* The tree holds the keyboard.
onSelectionKeyDown ==
    /\ ui.selected # {} /\ ui.focus = Root
    /\ \/ removeSelection
       \/ \E op \in {"indent", "outdent"} : shiftSelection(op)
       \/ \E delta \in {-1, 1} : moveSelection(delta)
       \/ escapeSelection
       \/ \E k \in {1, Len(Roots)} : stepOut(k)

\* Vim's Visual Line.
Lines(u, anchor, head) ==
    [u EXCEPT !.visual = [anchor |-> Shown[anchor].id, head |-> Shown[head].id],
              !.selected = selectableIds(Shown, anchor, head)]
beginVisualLine(i) ==
    /\ ~readonly /\ ui.focus = Shown[i].id
    /\ Surfaces(takeTreeFocus([Lines(ui, i, i) EXCEPT !.anchor = Shown[i].id]))
visualMove(anchor, head) ==
    \E target \in {nextVisualLineIndex(Shown, anchor, head, d) : d \in {-1, 1}}
                  \cup {edgeVisualLineIndex(Shown, anchor, e) : e \in {"first", "last"}} :
        Surfaces(Lines(ui, anchor, target))
restoreVisualCaret == activateBlock([ui EXCEPT !.anchor = Root], ui.visual.head)
visualCommand ==
    LET mask == coveredMask(Shown, ui.selected)
    IN \/ Surfaces(restoreVisualCaret)
       \/ /\ RootIds # {}
          /\ \/ Runs(clearSelection(ui),
                     <<Cmd("delete", RootIds, Root, Root, Fallback(Shown, mask))>>)
             \/ \E op \in {"indent", "outdent"} : Runs(restoreVisualCaret, <<Plain(op, RootIds)>>)
runVimVisualLine ==
    LET anchor == Index(ui.visual.anchor)
        head == Index(ui.visual.head)
    IN /\ ui.visual # NoVisual /\ ui.selected # {} /\ ui.focus = Root
       /\ IF anchor = 0 \/ head = 0 THEN Surfaces(clearSelection(ui))
          ELSE visualMove(anchor, head) \/ visualCommand

\* Normal mode's dd, >> and << on the caret's row and the rows below it.
runVimStructure(op, count) ==
    LET i == Index(ui.focus)
        taken == {Shown[j].id : j \in {k \in DOMAIN Shown : k \in i..(i + count - 1)}}
        ids == {Shown[j].id : j \in selectionRoots(Shown, taken)}
    IN /\ i > 0 /\ ~readonly
       /\ Runs(ui, <<IF op = "delete"
                     THEN Cmd(op, ids, Root, Root, Fallback(Shown, coveredMask(Shown, ids)))
                     ELSE Plain(op, ids)>>)

selectOnly ==
    LET i == Index(ui.focus) IN
    /\ i > 0
    /\ Surfaces([takeTreeFocus(ui) EXCEPT !.anchor = ui.focus,
                                          !.selected = selectableIds(Shown, i, i)])

\* A hidden row leaves the selection; a revealed passenger joins it.
toggleCollapse(i) ==
    LET id == Shown[i].id
        u == IF ui.visual # NoVisual THEN clearSelection(ui) ELSE ui
        hidden == IF id \in collapsed THEN collapsed \ {id} ELSE collapsed \cup {id}
        after == flattenOutline(rows, hidden)
    IN /\ hasChildren(rows, rowIndexOf(rows, id)) \/ id \in collapsed
       /\ Spend("acts")
       /\ Render([u EXCEPT !.selected = IF id \in collapsed THEN coveredIds(after, @)
                                        ELSE @ \cap Ids(after)], rows, hidden)
       /\ UNCHANGED <<readonly, lane>>

\* Undo reveals the block it touched; a link to a block does the same.
revealHistoryTarget(id) ==
    /\ Spend("acts") /\ id \in Ids(rows)
    /\ LET above == {rows[j].id : j \in Ancestors(rows, rowIndexOf(rows, id))}
       IN \E focus \in BOOLEAN :
             Render(IF focus THEN activateBlock(ui, id) ELSE ui, rows, collapsed \ above)
    /\ UNCHANGED <<readonly, lane>>

onRowContextMenu(i) ==
    LET id == Shown[i].id
        u == IF id \in ui.selected THEN ui ELSE [ui EXCEPT !.anchor = id, !.selected = {}]
    IN Surfaces([u EXCEPT !.menu = id, !.closing = Root, !.picker = Root])

\* The commands of the menu on one row.  Indenting opens a collapsed sibling above.
closeMenu(u) == IF u.menu = Root THEN u ELSE [u EXCEPT !.menu = Root, !.closing = u.menu]
menuIndent(i) ==
    LET at == rowIndexOf(rows, Shown[i].id)
        above == {j \in Siblings(rows, at) : j < at}
    IN /\ above # {} /\ ~readonly /\ Len(lane) < MaxLane
       /\ Spend("acts")
       /\ Render(closeMenu(ui), rows, collapsed \ {rows[Max(above)].id})
       /\ lane' = Append(lane, Plain("indent", {Shown[i].id}))
       /\ UNCHANGED readonly
menuRow(i) ==
    LET id == Shown[i].id
        u == closeMenu(ui)
        at == rowIndexOf(rows, id)
        kids == Sorted(rows, Siblings(rows, at) \ {at})
        place == IndexAmong(rows, at)
    IN /\ ~readonly
       /\ \/ Shown[i].depth > 0 /\ Runs(u, <<Plain("outdent", {id})>>)
          \/ Runs(u, <<Cmd("delete", {id}, Root, Root, Above(i))>>)
          \/ \E to \in {place - 1, place + 1} \cap 0..Len(kids) :
                Runs(u, <<Cmd("move", {id}, ParentId(rows, at),
                              IF to = 0 THEN Root ELSE rows[kids[to]].id, NoThen)>>)
menuSelection ==
    LET u == closeMenu(ui) IN
    /\ ~readonly /\ RootIds # {}
    /\ \/ \E op \in {"indent", "outdent"} : Runs(u, <<Plain(op, RootIds)>>)
       \/ Runs(clearSelection(u), <<Cmd("delete", RootIds, Root, Root, Above(Roots[1]))>>)
openPicker == Surfaces([closeMenu(ui) EXCEPT !.picker = ui.menu])
BlockMenu ==
    LET i == Index(ui.menu) IN
    /\ ui.menu # Root /\ i > 0
    /\ \/ Surfaces(closeMenu(ui))
       \/ IF ui.menu \in ui.selected /\ selectionCount > 1 THEN menuSelection
          ELSE menuIndent(i) \/ menuRow(i) \/ openPicker

\* The closed menu gives the keyboard back: to the tree, or to its row.
onClosed ==
    LET id == ui.closing
        u == [ui EXCEPT !.closing = Root]
    IN /\ id # Root
       /\ ui' = IF id \in ui.selected /\ selectionCount > 1 THEN takeTreeFocus(u)
                ELSE IF ui.focus \notin {Root, id} \/ id \notin Ids(Shown) THEN u
                ELSE activateBlock(u, id)
       /\ UNCHANGED <<rows, collapsed, readonly, lane, budget>>
closePicker ==
    /\ ui.picker # Root
    /\ Surfaces(IF ui.picker \in Ids(Shown)
                THEN activateBlock([ui EXCEPT !.picker = Root], ui.picker)
                ELSE [ui EXCEPT !.picker = Root])

\* The region below the rows: the way out of a menu or a selection first.
append ==
    IF ui.menu # Root \/ ui.picker # Root \/ selectionCount > 0
    THEN Surfaces(LET u == [closeMenu(ui) EXCEPT !.picker = Root]
                  IN IF u.selected # {} THEN clearSelection(u) ELSE u)
    ELSE /\ ~readonly
         /\ Runs(ui, <<Cmd("insert", {}, Root, Cardinality(ChildIndexes(rows, Root)), NoThen)>>)

\* A paste goes below its row; cutting a selection copies it and removes it.
paste ==
    LET at == rowIndexOf(rows, ui.focus) IN
    /\ ~readonly /\ at > 0
    /\ Runs(ui, <<Cmd("insert", {}, ParentId(rows, at), IndexAmong(rows, at) + 1, NoThen)>>)
cut == ui.selected # {} /\ ui.focus = Root /\ removeSelection

\* A click on a row's text; focus leaving for quiet space; the toolbar's Done.
click(i) == Surfaces(activateBlock(ui, Shown[i].id))
releaseFocus == ui.focus # Root /\ Surfaces(activateBlock(ui, Root))

keyboard ==
    \/ onSelectionKeyDown \/ runVimVisualLine \/ selectOnly \/ cut \/ paste
    \/ \E op \in {"delete", "indent", "outdent"}, count \in {1, 2} : runVimStructure(op, count)
    \/ \E i \in DOMAIN Shown : beginVisualLine(i)
    \/ \E id \in Ids(rows) : revealHistoryTarget(id)
controls ==
    /\ ui.press.kind = "none"
    /\ \/ BlockMenu \/ closePicker \/ append \/ releaseFocus
       \/ \E i \in DOMAIN Shown : toggleCollapse(i) \/ onRowContextMenu(i) \/ click(i)

Next == (budget.acts > 0 /\ (pointer \/ keyboard \/ controls)) \/ onClosed \/ run \/ remote
Spec == Init /\ [][Next]_vars
-----------------------------------------------------------------------------
(* Properties.                                                             *)

\* The caret and the block selection are two answers to what the next command acts
\* on: both exist only while a pointer is down on a range drag that a caret,
\* sent by a finished command, interrupted.
OneTarget == ui.focus # Root /\ ui.selected # {} => ui.press.kind = "range"

\* A drop does what its indicator shows: the moved rows leave the places they had
\* and stand, in their order, in the gap of the indicator and at its depth, and
\* nothing else moves.
DropLands ==
    LET p == ui.press
        mask == coveredMask(p.at, p.moving)
        kept(from, to) == Rows(p.at, (from..to) \ mask)
        roots == {p.at[i].id : i \in selectionRoots(p.at, p.moving)}
        result == move_blocks(rows, roots, p.target.parent, p.target.after)
        shown == flattenOutline(result, collapsed)
        front == kept(1, p.target.gap - 1)
        run_ == SubSeq(shown, Len(front) + 1, Len(front) + Cardinality(mask))
    IN p.kind = "bullet" /\ p.target # NoDrop /\ p.at = Shown /\ roots # {} =>
          /\ result # Refused /\ IsOutline(result)
          /\ shown = front \o run_ \o kept(p.target.gap, Len(p.at))
          /\ [k \in DOMAIN run_ |-> run_[k].id] =
                LET order == Sorted(p.at, mask) IN [k \in DOMAIN order |-> p.at[order[k]].id]
          /\ \A k \in DOMAIN run_ : run_[k].id \in roots => run_[k].depth = p.target.depth
=============================================================================
