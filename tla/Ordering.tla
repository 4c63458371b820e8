------------------------------- MODULE Ordering -------------------------------
(***************************************************************************)
(* A reader's own order as one number per item (entities/ordering.ts):     *)
(* where a moved item, or a moved run of items, goes between its new       *)
(* neighbours, and when a whole run is given fresh numbers.  The code's    *)
(* doubles are integers here, with a coarse step so that gaps run out      *)
(* after two halvings.                                                     *)
(***************************************************************************)
EXTENDS Integers, Sequences, FiniteSets, FiniteSetsExt, SequencesExt

ORDER_STEP == 4
MIN_GAP == 1

\* An item that was never arranged: it sorts after every item that was.
Unplaced == 999

\* The items of S, by their place and then by name.
byOrder(S, order) ==
    LET before(x, y) == order[x] < order[y] \/ (order[x] = order[y] /\ x < y)
    IN [i \in 1..Cardinality(S) |-> CHOOSE x \in S : Cardinality({y \in S : before(y, x)}) = i - 1]

nextOrder(S, order) == Max({0} \cup {order[x] : x \in {y \in S : order[y] # Unplaced}}) + ORDER_STEP

\* Writes are a function from the items written to their new numbers.
NoWrites == [x \in {} |-> 0]
respace(items) == [x \in Range(items) |-> (CHOOSE i \in DOMAIN items : items[i] = x) * ORDER_STEP - ORDER_STEP]

\* A gap that can still be halved.  Mutant: an exhausted gap too.
halvable(low, high) == high >= low
wideEnough(low, high) == high - low > MIN_GAP

\* The moved item takes the middle of its neighbours' gap while there is one.
moveWrites(ordered, order, moved) ==
    LET i == CHOOSE k \in DOMAIN ordered : ordered[k] = moved
        first == i = 1
        last == i = Len(ordered)
        previous == IF first THEN Unplaced ELSE order[ordered[i - 1]]
        next == IF last THEN Unplaced ELSE order[ordered[i + 1]]
        known == (first \/ previous # Unplaced) /\ (last \/ next # Unplaced)
        low == IF first THEN (IF last THEN ORDER_STEP ELSE next) - 2 * ORDER_STEP ELSE previous
        high == IF last THEN (IF first THEN 0 ELSE previous) + 2 * ORDER_STEP ELSE next
    IN IF known /\ wideEnough(low, high) THEN [x \in {moved} |-> (low + high) \div 2] ELSE respace(ordered)

\* A moved run is spread between the highest of the run before and the lowest of
\* the run after.
bound(run, order, pick(_)) ==
    IF \E i \in DOMAIN run : order[run[i]] = Unplaced THEN Unplaced ELSE pick({order[run[i]] : i \in DOMAIN run})
highest(run, order) == bound(run, order, Max)
runWrites(runs, order, at) ==
    LET moved == runs[at]
        n == Len(moved) + 1
        first == at = 1
        last == at = Len(runs)
        previous == IF first THEN Unplaced ELSE highest(runs[at - 1], order)
        next == IF last THEN Unplaced ELSE bound(runs[at + 1], order, Min)
        known == (first \/ previous # Unplaced) /\ (last \/ next # Unplaced)
        low == IF first THEN (IF last THEN ORDER_STEP ELSE next) - n * ORDER_STEP ELSE previous
        high == IF last THEN (IF first THEN 0 ELSE previous) + n * ORDER_STEP ELSE next
        stride == (high - low) \div n
    IN IF known /\ stride > MIN_GAP
       THEN [x \in Range(moved) |-> low + stride * (CHOOSE i \in DOMAIN moved : moved[i] = x)]
       ELSE respace(FlattenSeq(runs))
=============================================================================
