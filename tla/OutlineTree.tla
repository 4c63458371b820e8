----------------------------- MODULE OutlineTree -----------------------------
(***************************************************************************)
(* An outline as the client flattens it: a sequence of rows in document    *)
(* order, each with its depth.  The operators are the outline's own        *)
(* arithmetic (selection.ts, Outliner.tsx) and the structural commands of  *)
(* the graph core (outline.rs) on the same rows.                           *)
(***************************************************************************)
EXTENDS Integers, Sequences, SequencesExt, FiniteSets

Root == 0                    \* the parent of a top-level row, and "no anchor"
Row(id, depth) == [id |-> id, depth |-> depth]
Ids(rows) == {rows[i].id : i \in DOMAIN rows}
rowIndexOf(rows, id) ==
    IF id \in Ids(rows) THEN CHOOSE i \in DOMAIN rows : rows[i].id = id ELSE 0

\* The first row past the subtree of row i.
End(rows, i) ==
    Min({j \in (i + 1)..Len(rows) : rows[j].depth <= rows[i].depth} \cup {Len(rows) + 1})
Subtree(rows, i) == i..(End(rows, i) - 1)
Ancestors(rows, i) == {j \in 1..(i - 1) : \A k \in (j + 1)..i : rows[k].depth > rows[j].depth}
ParentIndex(rows, i) == IF Ancestors(rows, i) = {} THEN 0 ELSE Max(Ancestors(rows, i))
ParentId(rows, i) == IF ParentIndex(rows, i) = 0 THEN Root ELSE rows[ParentIndex(rows, i)].id
hasChildren(rows, i) == Subtree(rows, i) # {i}

\* The siblings of row i, and the children of a parent, as indexes.
ChildIndexes(rows, parent) == {i \in DOMAIN rows : ParentId(rows, i) = parent}
Siblings(rows, i) == ChildIndexes(rows, ParentId(rows, i))
IndexAmong(rows, i) == Cardinality({j \in Siblings(rows, i) : j < i})

Sorted(rows, at) == SelectSeq([i \in DOMAIN rows |-> i], LAMBDA i : i \in at)
Rows(rows, at) == LET order == Sorted(rows, at) IN [k \in DOMAIN order |-> rows[order[k]]]
Without(rows, at) == Rows(rows, DOMAIN rows \ at)
Shift(rows, by) == [k \in DOMAIN rows |-> Row(rows[k].id, rows[k].depth + by)]
Insert(rows, at, new) == SubSeq(rows, 1, at - 1) \o new \o SubSeq(rows, at, Len(rows))

\* A preorder listing of a forest.
IsOutline(rows) ==
    /\ IsInjective([i \in DOMAIN rows |-> rows[i].id])
    /\ \A i \in DOMAIN rows : rows[i].depth \in 0..(IF i = 1 THEN 0 ELSE rows[i - 1].depth + 1)
-----------------------------------------------------------------------------
(* What the outline shows and selects.                                     *)

flattenOutline(rows, collapsed) ==
    Without(rows, UNION {Subtree(rows, j) \ {j} : j \in {i \in DOMAIN rows : rows[i].id \in collapsed}})

coveredMask(rows, ids) ==
    {i \in DOMAIN rows : \E j \in Ancestors(rows, i) \cup {i} : rows[j].id \in ids}
coveredIds(rows, ids) == {rows[i].id : i \in coveredMask(rows, ids)}
selectionRoots(rows, ids) ==
    {i \in DOMAIN rows : rows[i].id \in ids /\ \A j \in Ancestors(rows, i) : rows[j].id \notin ids}
idsInRange(rows, from, to) ==
    {rows[i].id : i \in (from..to \cup to..from) \cap DOMAIN rows}
selectableIds(rows, from, to) == coveredIds(rows, idsInRange(rows, from, to))

\* A visual line selection steps over the rows it already covers.
nextVisualLineIndex(rows, anchor, from, direction) ==
    LET taken == selectableIds(rows, anchor, from)
        toward == IF direction = 1 THEN from < anchor ELSE from > anchor
        ahead == {i \in DOMAIN rows : i > from /\ i \notin coveredMask(rows, taken)}
        back == {i \in selectionRoots(rows, taken) : i < from}
        step == from + direction
    IN CASE direction = 1 /\ ~toward -> IF ahead = {} THEN from ELSE Min(ahead)
         [] direction = -1 /\ toward -> IF back = {} THEN from ELSE Max(back)
         [] OTHER -> IF step \in DOMAIN rows THEN step ELSE from
edgeVisualLineIndex(rows, anchor, edge) ==
    LET boundary == IF edge = "first" THEN 1 ELSE Len(rows)
        roots == selectionRoots(rows, selectableIds(rows, anchor, boundary))
    IN IF roots = {} THEN anchor ELSE IF edge = "first" THEN Min(roots) ELSE Max(roots)

\* The row that takes the caret when the covered rows go: below them, else above.
Fallback(rows, mask) ==
    LET below == {i \in DOMAIN rows \ mask : i > Min(mask)}
        above == {i \in DOMAIN rows \ mask : i < Min(mask)}
    IN IF below # {} THEN rows[Min(below)].id
       ELSE IF above # {} THEN rows[Max(above)].id ELSE Root

\* The row above a gap that does not travel with the drag.
\* Mutant: the row above the gap.
rowAbove(gap, mask) == gap - 1
rowBefore(gap, mask) == Max({i \in 1..(gap - 1) : i \notin mask} \cup {0})
lastSibling(rows, mask, depth, from, to) ==
    LET at == {i \in from..to : rows[i].depth = depth /\ i \notin mask}
    IN IF at = {} THEN Root ELSE rows[Max(at)].id

NoDrop == [parent |-> Root, after |-> Root, depth |-> -1, gap |-> 0]

\* Where a drop in a gap lands: gap g is above row g.
dropTarget(rows, collapsed, moving, gap, desired) ==
    LET mask == coveredMask(rows, moving)
        before == rowBefore(gap, mask)
        after == Min({i \in gap..Len(rows) : i \notin mask} \cup {Len(rows) + 1})
        maxDepth == IF before = 0 THEN 0
                    ELSE IF rows[before].id \in collapsed THEN rows[before].depth
                    ELSE rows[before].depth + 1
        minDepth == IF after > Len(rows) THEN 0 ELSE rows[after].depth
        depth == Max({minDepth, Min({maxDepth, desired})})
        parents == {i \in 1..before : rows[i].depth = depth - 1}
        Target(parent, from) ==
            [parent |-> parent, after |-> lastSibling(rows, mask, depth, from, before),
             depth |-> depth, gap |-> gap]
    IN IF minDepth > maxDepth THEN NoDrop
       ELSE IF depth = 0 THEN Target(Root, 1)
       ELSE IF parents = {} THEN NoDrop
       ELSE Target(rows[Max(parents)].id, Max(parents) + 1)
-----------------------------------------------------------------------------
(* The graph core's structural commands; Refused leaves the rows alone.    *)

Refused == <<Row(Root, 0)>>

\* A row placed relative to an anchor row.
Place(rows, anchor, mode, id) ==
    LET i == rowIndexOf(rows, anchor) IN
    CASE mode = "before" -> Insert(rows, i, <<Row(id, rows[i].depth)>>)
      [] mode = "child" -> Insert(rows, i + 1, <<Row(id, rows[i].depth + 1)>>)
      [] mode = "sibling" -> Insert(rows, End(rows, i), <<Row(id, rows[i].depth)>>)

\* The source's children become the target's last; the source goes.
MergeInto(rows, source, target) ==
    LET s == rowIndexOf(rows, source)
        t == rowIndexOf(rows, target)
        children == Rows(rows, Subtree(rows, s) \ {s})
    IN IF s = 0 \/ t = 0 \/ ~(t < s /\ End(rows, t) >= s /\ rows[t].depth >= rows[s].depth)
       THEN Refused
       ELSE SubSeq(rows, 1, s - 1) \o Shift(children, rows[t].depth - rows[s].depth)
                \o SubSeq(rows, End(rows, s), Len(rows))

delete_blocks(rows, ids) ==
    IF ids \subseteq Ids(rows) THEN Without(rows, coveredMask(rows, ids)) ELSE Refused

\* move_group: every root leaves, then their run goes in behind the anchor.
move_blocks(rows, ids, parent, after) ==
    LET at == coveredMask(rows, ids)
        rest == Without(rows, at)
        p == rowIndexOf(rest, parent)
        a == rowIndexOf(rest, after)
        depth == IF p = 0 THEN 0 ELSE rest[p].depth + 1
        roots == Sorted(rows, selectionRoots(rows, ids))
        run == FlattenSeq([k \in DOMAIN roots |->
                   Shift(Rows(rows, Subtree(rows, roots[k])), depth - rows[roots[k]].depth)])
    IN IF ~(ids \subseteq Ids(rows)) \/ (parent # Root /\ p = 0)
          \/ (after # Root /\ (a = 0 \/ ParentId(rest, a) # parent))
       THEN Refused
       ELSE Insert(rest, IF after = Root THEN p + 1 ELSE End(rest, a), run)

\* indent: the last child of the sibling above it.
indentOne(rows, id) ==
    LET i == rowIndexOf(rows, id)
        above == {j \in Siblings(rows, i) : j < i}
        parent == rows[Max(above)].id
        last == ChildIndexes(rows, parent)
    IN IF rows = Refused \/ i = 0 \/ above = {} THEN Refused
       ELSE move_blocks(rows, {id}, parent, IF last = {} THEN Root ELSE rows[Max(last)].id)

\* outdent: behind its parent, taking along the siblings that followed it.
outdentOne(rows, id) ==
    LET i == rowIndexOf(rows, id)
        p == ParentIndex(rows, i)
    IN IF rows = Refused \/ i = 0 \/ p = 0 THEN Refused
       ELSE LET followers == {j \in Siblings(rows, i) : j > i}
                inner == ChildIndexes(rows, id)
                kept == IF followers = {} THEN rows
                        ELSE move_blocks(rows, {rows[j].id : j \in followers}, id,
                                         IF inner = {} THEN Root ELSE rows[Max(inner)].id)
            IN move_blocks(kept, {id}, ParentId(rows, p), rows[p].id)

\* A group is indented root by root in document order, outdented in reverse.
Each(rows, ids, op(_, _), order(_)) ==
    IF ids = {} \/ ~(ids \subseteq Ids(rows)) THEN Refused
    ELSE FoldLeft(LAMBDA acc, i : op(acc, rows[i].id), rows,
                  order(Sorted(rows, selectionRoots(rows, ids))))
indent_blocks(rows, ids) == Each(rows, ids, indentOne, LAMBDA roots : roots)
outdent_blocks(rows, ids) == Each(rows, ids, outdentOne, Reverse)

\* siblingMove: one place among its siblings, or Root when there is none.
siblingMove(rows, id, delta) ==
    LET i == rowIndexOf(rows, id)
        others == Sorted(rows, Siblings(rows, i) \ {i})
        target == IndexAmong(rows, i) + delta
    IN IF i = 0 \/ target < 0 \/ target > Len(others) THEN Refused
       ELSE move_blocks(rows, {id}, ParentId(rows, i),
                        IF target = 0 THEN Root ELSE rows[others[target]].id)
=============================================================================
