----------------------------- MODULE LeaseElection -----------------------------
(***************************************************************************)
(* Who may write a graph (core-port/lease.ts).  The sessions and directory *)
(* operations of one tab share a lease and take turns with it; the tabs    *)
(* get it from the browser's locks, or elect a holder over a broadcast     *)
(* channel where there are none: a claimant waits one window for a holder  *)
(* or a smaller claim to object.                                           *)
(***************************************************************************)
EXTENDS Integers, Sequences, FiniteSets, FiniteSetsExt

CONSTANTS
    Tab,           \* the tabs of one browser
    Asks,          \* bound: acquisitions, with the browser's locks and without
    Claims,        \* bound: claims; a claim's number stands for its random id
    Locks          \* the browsers considered: a set of BOOLEANs, TRUE where locks are offered

\* Claims are ordered as the random ids are; 0 is no claim.
ASSUME ClaimsAreNumbers == Claims \subseteq Nat \ {0} /\ Locks \subseteq BOOLEAN

VARIABLES
    locks,         \* the browser offers its locks
    tabLeases,     \* the shared lease of each tab, or 0
    lease,         \* every lease made: see Lease
    ask,           \* every acquisition made: see Ask
    messages,      \* posted and not delivered: [to, from, type, claim]
    queue          \* leases that wait for the browser's lock, asked for as they are numbered

vars == <<locks, tabLeases, lease, ask, messages, queue>>

\* A lease: its tab, whether its first consumer waits, its mode ("asking", "lost",
\* "exclusive", "readonly", "failed"), its claim, its consumers, its open channel,
\* and how many have joined its line.
Lease(t, wait) ==
    [tab |-> t, wait |-> wait, mode |-> "asking", claim |-> 0, consumers |-> 1, channel |-> FALSE, joined |-> 1]

\* An acquisition: its lease, its place in the line, whether it waits, and where it is.
Ask(l, place, wait) == [lease |-> l, place |-> place, wait |-> wait, at |-> "asked"]

TypeOK ==
    /\ tabLeases \in [Tab -> 0..Len(lease)]
    /\ \A a \in DOMAIN ask : ask[a].lease \in DOMAIN lease /\ ask[a].at \in {"asked", "writes", "reads", "gone", "failed"}
    /\ queue \subseteq DOMAIN lease

Holds(l) == lease[l].mode = "exclusive" /\ lease[l].consumers > 0
Lock == {l \in DOMAIN lease : Holds(l)}
usedClaims == {lease[l].claim : l \in DOMAIN lease} \cup {m.claim : m \in messages}
-----------------------------------------------------------------------------
(* Asking.                                                                 *)

\* A claim is announced to every open channel.
Listeners(ls, l) == {k \in DOMAIN ls : k # l /\ ls[k].channel}
Posts(ls, l, type, claim) == {[to |-> k, from |-> l, type |-> type, claim |-> claim] : k \in Listeners(ls, l)}

\* A lease that starts asking: for the lock, or with a claim of its own.
webLockMode(ls, l) ==
    /\ messages' = messages
    /\ IF Lock = {} /\ queue = {} THEN lease' = [ls EXCEPT ![l].mode = "exclusive"] /\ queue' = queue
       ELSE IF ls[l].wait THEN lease' = ls /\ queue' = queue \cup {l}
       ELSE lease' = [ls EXCEPT ![l].mode = "readonly"] /\ queue' = queue
electionAttempt(ls, l) ==
    \E c \in Claims \ usedClaims :
        /\ lease' = [ls EXCEPT ![l].mode = "asking", ![l].claim = c, ![l].channel = TRUE]
        /\ messages' = messages \cup Posts(ls, l, "claim", c) /\ queue' = queue
createTabLease(t, wait) ==
    /\ tabLeases' = [tabLeases EXCEPT ![t] = Len(lease) + 1]
    /\ IF locks THEN webLockMode(Append(lease, Lease(t, wait)), Len(lease) + 1)
       ELSE electionAttempt(Append(lease, Lease(t, wait)), Len(lease) + 1)

\* The acquisition joins its tab's lease or makes it.
Joins(t, wait) ==
    IF tabLeases[t] = 0 THEN createTabLease(t, wait)
    ELSE lease' = [lease EXCEPT ![tabLeases[t]].consumers = @ + 1, ![tabLeases[t]].joined = @ + 1] /\ UNCHANGED <<tabLeases, messages, queue>>
acquireLease(t, wait) ==
    /\ Len(ask) < Asks[locks] /\ Joins(t, wait)
    /\ ask' = Append(ask, IF tabLeases[t] = 0 THEN Ask(Len(lease) + 1, 1, wait)
                          ELSE Ask(tabLeases[t], lease[tabLeases[t]].joined + 1, wait))

\* A timer runs out once its claim has been heard and answered: the window covers a
\* tab that is briefly busy.  Mutant: the window is shorter than a round trip.
answeredLater(l) == TRUE
answered(l) == ~\E m \in messages : (m.from = l /\ m.type = "claim") \/ (m.to = l /\ m.type = "held")
claimWindow(l) ==
    /\ ~locks /\ lease[l].mode = "asking" /\ lease[l].channel /\ answered(l)
    /\ lease' = [lease EXCEPT ![l].mode = "exclusive"] /\ UNCHANGED <<tabLeases, ask, messages, queue>>

\* A holder answers every claim; a claimant answers the larger ones and stands down
\* for a smaller one or an answer.  Mutant: it stands down only for a holder.
yieldsToHolder(l, m) == m.type = "held" /\ m.claim = lease[l].claim
yields(l, m) == (m.type = "held" /\ m.claim = lease[l].claim) \/ m.type = "claim"
onmessage(m) ==
    LET l == m.to
        answers == m.type = "claim" /\ (Holds(l) \/ m.claim > lease[l].claim)
        held == [to |-> m.from, from |-> l, type |-> "held", claim |-> m.claim]
    IN /\ m \in messages /\ UNCHANGED <<tabLeases, ask, queue>>
       /\ messages' = (messages \ {m}) \cup (IF lease[l].channel /\ answers THEN {held} ELSE {})
       /\ lease' = IF lease[l].channel /\ lease[l].mode = "asking" /\ ~answers /\ yields(l, m)
                   THEN [lease EXCEPT ![l].mode = IF lease[l].wait THEN "lost" ELSE "readonly", ![l].channel = FALSE]
                   ELSE lease

\* A lease that waits tries again, or its first consumer's patience ends.
electedMode(l) ==
    /\ lease[l].mode = "lost" /\ UNCHANGED <<tabLeases, ask>>
    /\ \/ electionAttempt(lease, l)
       \/ lease' = [lease EXCEPT ![l].mode = "failed"] /\ UNCHANGED <<messages, queue>>
lockGranted ==
    \E l \in queue :
        /\ \A k \in queue : l <= k
        /\ Lock = {} /\ queue' = queue \ {l}
        /\ lease' = [lease EXCEPT ![l].mode = "exclusive"] /\ UNCHANGED <<tabLeases, ask, messages>>
aborted ==
    \E l \in queue :
        /\ lease' = [lease EXCEPT ![l].mode = "failed"]
        /\ queue' = queue \ {l} /\ UNCHANGED <<tabLeases, ask, messages>>
-----------------------------------------------------------------------------
(* Using and giving back.                                                  *)

\* The last consumer closes the channel and frees the lock.
releaseConsumer(l) ==
    LET last == lease[l].consumers = 1
    IN /\ lease' = [lease EXCEPT ![l].consumers = @ - 1, ![l].channel = @ /\ ~last]
       /\ tabLeases' = IF last /\ tabLeases[lease[l].tab] = l THEN [tabLeases EXCEPT ![lease[l].tab] = 0] ELSE tabLeases

\* A consumer's turn comes when those before it have ended theirs.
\* Mutant: when the lease is there.
predecessorsIgnored(a) == TRUE
predecessors(a) == \A b \in DOMAIN ask : (ask[b].lease = ask[a].lease /\ ask[b].place < ask[a].place) => ask[b].at \notin {"asked", "writes"}
turn(a) ==
    LET l == ask[a].lease
    IN /\ ask[a].at = "asked" /\ UNCHANGED <<messages, queue>>
       /\ \/ /\ lease[l].mode = "exclusive" /\ predecessors(a)
             /\ ask' = [ask EXCEPT ![a].at = "writes"] /\ UNCHANGED <<lease, tabLeases>>
          \/ /\ lease[l].mode = "readonly" /\ ~ask[a].wait
             /\ ask' = [ask EXCEPT ![a].at = "reads"] /\ UNCHANGED <<lease, tabLeases>>
          \/ /\ lease[l].mode = "failed" /\ ask' = [ask EXCEPT ![a].at = "failed"] /\ releaseConsumer(l)

\* A reader's lease has no lock to lend: a consumer that waits asks anew.
reacquire(a) ==
    LET l == ask[a].lease
        t == lease[l].tab
        left == [lease EXCEPT ![l].consumers = @ - 1]
        n == Len(lease) + 1
    IN /\ ask[a].at = "asked" /\ ask[a].wait /\ lease[l].mode = "readonly"
       /\ IF tabLeases[t] \in {0, l}
          THEN /\ tabLeases' = [tabLeases EXCEPT ![t] = n] /\ ask' = [ask EXCEPT ![a].lease = n, ![a].place = 1]
               /\ IF locks THEN webLockMode(Append(left, Lease(t, TRUE)), n) ELSE electionAttempt(Append(left, Lease(t, TRUE)), n)
          ELSE /\ ask' = [ask EXCEPT ![a].lease = tabLeases[t], ![a].place = lease[tabLeases[t]].joined + 1]
               /\ lease' = [left EXCEPT ![tabLeases[t]].consumers = @ + 1, ![tabLeases[t]].joined = @ + 1] /\ UNCHANGED <<tabLeases, messages, queue>>
release(a) ==
    /\ ask[a].at \in {"writes", "reads"} /\ ask' = [ask EXCEPT ![a].at = "gone"]
    /\ releaseConsumer(ask[a].lease) /\ UNCHANGED <<messages, queue>>

\* A tab that is closed takes its leases with it.
closeTab(t) ==
    LET mine == {l \in DOMAIN lease : lease[l].tab = t}
    IN /\ tabLeases[t] # 0 /\ tabLeases' = [tabLeases EXCEPT ![t] = 0]
       /\ lease' = [l \in DOMAIN lease |-> IF l \in mine THEN [lease[l] EXCEPT !.consumers = 0, !.channel = FALSE, !.mode = "failed"]
                                           ELSE lease[l]]
       /\ ask' = [a \in DOMAIN ask |-> IF ask[a].lease \in mine THEN [ask[a] EXCEPT !.at = "gone"] ELSE ask[a]]
       /\ queue' = queue \ mine /\ messages' = {m \in messages : m.to \notin mine}

Init == locks \in Locks /\ tabLeases = [t \in Tab |-> 0] /\ lease = <<>> /\ ask = <<>> /\ messages = {} /\ queue = {}

Next ==
    /\ UNCHANGED locks
    /\ \/ \E t \in Tab : closeTab(t) \/ \E wait \in BOOLEAN : acquireLease(t, wait)
       \/ \E l \in DOMAIN lease : claimWindow(l) \/ electedMode(l)
       \/ \E m \in messages : onmessage(m)
       \/ \E a \in DOMAIN ask : turn(a) \/ reacquire(a) \/ release(a)
       \/ lockGranted \/ aborted

Spec == Init /\ [][Next]_vars
-----------------------------------------------------------------------------
\* At most one consumer of all tabs writes the graph: the sessions of a tab take
\* turns with its lease, and no two tabs hold one, by the browser's locks or by the
\* election.
OneWriter == Cardinality({a \in DOMAIN ask : ask[a].at = "writes"}) <= 1 /\ Cardinality(Lock) <= 1
=============================================================================
