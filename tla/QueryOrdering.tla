--------------------------- MODULE QueryOrdering ----------------------------
(***************************************************************************)
(* The order in which a query's rows are shown: terms compare by what they *)
(* mean, rows by the reader's sorts, and a row that an edit takes out of   *)
(* the answer stays where the reader is writing in it (ordering.ts,        *)
(* QuerySortControl.tsx, QueryPanel.tsx).  A term has a rank, its place in *)
(* a declared progression or its number, and a text, its place under the   *)
(* collator.                                                               *)
(***************************************************************************)
EXTENDS Integers, Sequences, SequencesExt, FiniteSetsExt

CONSTANTS
    Opened,        \* panels: [list, semantics, values, rows], see Init
    MaxActs        \* bound: answers and gestures

VARIABLES
    doc,           \* the answer: the rows in the query's order
    q,             \* the panel: see Init
    acts           \* what the bound has used

vars == <<doc, q, acts>>

Outside == -1                            \* the rank of a value outside the progression
Term(rank, text) == [rank |-> rank, text |-> text]
Absent == Term(-2, 0)
Value(terms, time) == [terms |-> terms, time |-> time]
Row(key, values) == [key |-> key, values |-> values]
SORT_LIMIT == 8
-----------------------------------------------------------------------------
(* Comparators: negative, zero or positive, ascending; a row comparator     *)
(* reverses them for a descending sort.                                    *)

fixedBucket(comparison, descending) == IF descending THEN -comparison ELSE comparison

compareResultTerms(l, r, semantics, descending) ==
    LET ahead(left) == fixedBucket(IF left THEN -1 ELSE 1, descending)
        fallback(t) == t # Absent /\ t.rank = Outside
        ranked == semantics \in {"below", "last"}
    IN IF l = Absent /\ r = Absent THEN 0
       ELSE IF semantics # "below" /\ (l = Absent \/ r = Absent) THEN ahead(l # Absent)
       ELSE IF ranked /\ fallback(l) # fallback(r) THEN ahead(fallback(r))
       ELSE IF \/ ranked /\ l.rank # r.rank
               \/ semantics = "boolean"
               \/ semantics = "number" /\ ~fallback(l) /\ ~fallback(r)
            THEN l.rank - r.rank
       ELSE l.text - r.text

\* A clock that is not a time of day counts as missing.
validTime(term) == IF term.rank = Outside THEN Absent ELSE term

compareSortValues(l, r, semantics, descending) ==
    LET first(v) == IF v.terms = <<>> THEN Absent ELSE v.terms[1]
        sorted(v) == SortSeq(v.terms, LAMBDA a, b : compareResultTerms(a, b, semantics, FALSE) < 0)
        L == sorted(l)
        R == sorted(r)
        at(i) == compareResultTerms(L[i], R[i], semantics, descending)
        differ == {i \in DOMAIN L \cap DOMAIN R : at(i) # 0}
    IN IF l.terms = <<>> \/ r.terms = <<>>
       THEN compareResultTerms(first(l), first(r), semantics, descending)
       ELSE IF differ # {} THEN at(Min(differ))
       ELSE IF Len(L) # Len(R) THEN Len(L) - Len(R)
       ELSE compareResultTerms(validTime(l.time), validTime(r.time), "text", descending)

\* The rows under the reader's sorts; ties keep the query's order in a table and go by
\* the row's key in a list.
compareRows(l, r, panel) ==
    LET on(sort) == compareSortValues(l.values[sort.key], r.values[sort.key], panel.semantics[sort.key], sort.descending)
        differ == {i \in DOMAIN panel.sorts : on(panel.sorts[i]) # 0}
        first == panel.sorts[Min(differ)]
    IN IF differ # {} THEN fixedBucket(on(first), first.descending)
       ELSE IF panel.list THEN l.key - r.key ELSE 0

orderRows(rows, panel) ==
    LET before(i, j) == LET c == compareRows(rows[i], rows[j], panel) IN c < 0 \/ (c = 0 /\ i < j)
    IN IF panel.sorts = <<>> THEN rows
       ELSE [n \in DOMAIN rows |-> rows[SortSeq([i \in DOMAIN rows |-> i], before)[n]]]
-----------------------------------------------------------------------------
(* The rows on screen.                                                     *)

Keys(rows) == {rows[i].key : i \in DOMAIN rows}
IndexOf(rows, key) == CHOOSE i \in DOMAIN rows : rows[i].key = key
Preceding(rows, key) == {rows[i].key : i \in {n \in DOMAIN rows : \E j \in DOMAIN rows : n < j /\ rows[j].key = key}}

\* The row being edited, when the answer no longer has it.
pinned(panel, rows) == panel.editing # 0 /\ panel.editing \notin Keys(rows)

keepInPlace(rows, panel) ==
    LET at == Max({0} \cup {i \in DOMAIN rows : rows[i].key \in Preceding(panel.shown, panel.editing)})
    IN IF ~pinned(panel, rows) THEN rows
       ELSE InsertAt(rows, at + 1, panel.shown[IndexOf(panel.shown, panel.editing)])

\* Every change is followed by a render.
Render(rows, panel) ==
    /\ doc' = rows
    /\ \E ordered \in {orderRows(rows, panel)} :
         q' = [panel EXCEPT !.was = q.shown, !.shown = keepInPlace(ordered, panel)]
    /\ acts' = acts + 1
-----------------------------------------------------------------------------
(* What changes.                                                           *)

\* A row leaves the answer, another or the same with other values enters it, two change
\* their places in it.
answers ==
    UNION {{RemoveAt(doc, i) : i \in DOMAIN doc},
           UNION {{Append(doc, Row(key, v)) : v \in q.values[key]} : key \in DOMAIN q.values \ Keys(doc)},
           UNION {{[doc EXCEPT ![i].values = v] : v \in q.values[doc[i].key]} : i \in DOMAIN doc},
           {[doc EXCEPT ![i] = doc[i + 1], ![i + 1] = doc[i]] : i \in 1..(Len(doc) - 1)}}

Sort(key, descending) == [key |-> key, descending |-> descending]
SortOn(key) == {i \in DOMAIN q.sorts : q.sorts[i].key = key}
added ==
    IF Len(q.sorts) >= SORT_LIMIT THEN {}
    ELSE {Append(q.sorts, Sort(key, FALSE)) : key \in {k \in DOMAIN q.semantics : SortOn(k) = {}}}

\* A press on a table's header: ascending, descending, gone.
cycleSort ==
    IF q.list THEN {}
    ELSE added \cup {IF q.sorts[i].descending THEN RemoveAt(q.sorts, i) ELSE [q.sorts EXCEPT ![i].descending = TRUE]
                     : i \in DOMAIN q.sorts}

\* The panel of sorts: a direction, a move up, removal, another term, none.
QuerySortControl ==
    UNION {{[q.sorts EXCEPT ![i].descending = ~@] : i \in DOMAIN q.sorts},
           {[q.sorts EXCEPT ![i] = q.sorts[i - 1], ![i - 1] = q.sorts[i]] : i \in 2..Len(q.sorts)},
           {RemoveAt(q.sorts, i) : i \in DOMAIN q.sorts}, added, {<<>>} \ {q.sorts}}

\* A cell's editor opens on a shown row, or closes (0).
edited == (Keys(q.shown) \cup {0}) \ {q.editing}

\*   list       canonical rows, not a table
\*   semantics  what each sortable field means
\*   values     what each row may hold
\*   sorts, editing (0 for none), shown, and shown as it was before the last render
Init ==
    \E o \in Opened :
        /\ doc = o.rows
        /\ q = [list |-> o.list, semantics |-> o.semantics, values |-> o.values, sorts |-> <<>>, editing |-> 0,
                shown |-> o.rows, was |-> o.rows]
        /\ acts = 0

Next ==
    /\ acts < MaxActs
    /\ \/ \E rows \in answers : Render(rows, q)
       \/ \E sorts \in cycleSort \cup QuerySortControl : Render(doc, [q EXCEPT !.sorts = sorts])
       \/ \E key \in edited : Render(doc, [q EXCEPT !.editing = key])
Spec == Init /\ [][Next]_vars
-----------------------------------------------------------------------------
TypeOK ==
    /\ acts \in 0..MaxActs
    /\ \A i \in DOMAIN doc : doc[i].values \in q.values[doc[i].key]
    /\ Keys(doc) \subseteq Keys(q.shown) /\ Len(q.sorts) <= SORT_LIMIT

\* Any two rows compare one way and any three in a line, under every choice of sorts over
\* the terms a run opens: the engine's sort is given an order, and one row cannot stand in
\* two places (ordering.ts).  Terms whose comparison is not transitive are not opened.
OrderIsLawful ==
    LET before(i, j) == compareRows(doc[i], doc[j], q)
    IN \A i, j \in DOMAIN doc :
         /\ before(i, j) < 0 <=> before(j, i) > 0
         /\ \A k \in DOMAIN doc : before(i, j) <= 0 /\ before(j, k) <= 0 => before(i, k) <= 0

\* In either direction rows with a value stand before rows outside the progression, and
\* those before rows without one, except that no priority is the weakest priority; and
\* the least values of the first stand in the direction's order (ordering.ts).
ValuesStandFirst ==
    LET sort == q.sorts[1]
        semantics == q.semantics[sort.key]
        terms(row) == LET ts == row.values[sort.key].terms IN {ts[i] : i \in DOMAIN ts}
        within(row) == {t \in terms(row) : semantics \notin {"below", "last"} \/ t.rank # Outside}
        bucket(row) == IF within(row) # {} THEN 0 ELSE IF terms(row) # {} THEN 1 ELSE IF semantics = "below" THEN 0 ELSE 2
        least(row) == IF within(row) = {} THEN Absent.rank
                      ELSE Min({IF semantics = "text" THEN t.text ELSE t.rank : t \in within(row)})
        inAnswer == {i \in DOMAIN q.shown : q.shown[i].key \in Keys(doc)}
    IN q.sorts # <<>> =>
       \A i, j \in inAnswer : i < j =>
         LET a == q.shown[i] b == q.shown[j]
         IN \/ bucket(a) < bucket(b)
            \/ /\ bucket(a) = bucket(b)
               /\ bucket(a) = 0 => IF sort.descending THEN least(a) >= least(b) ELSE least(a) <= least(b)

\* A row edited out of the answer stays after the rows that preceded it; and where those
\* that remain keep their order, it keeps its place among them (QueryPanel.tsx).
EditedRowStays ==
    LET kept == Keys(q.was) \cap Keys(q.shown)
        precedes(a, b, rows) == IndexOf(rows, a) < IndexOf(rows, b)
        same(keys) == \A a, b \in keys : precedes(a, b, q.was) <=> precedes(a, b, q.shown)
    IN pinned(q, doc) =>
       /\ \A key \in kept : precedes(key, q.editing, q.was) => precedes(key, q.editing, q.shown)
       /\ same(kept \ {q.editing}) => same(kept)
=============================================================================
