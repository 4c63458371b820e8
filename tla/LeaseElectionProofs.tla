------------------------ MODULE LeaseElectionProofs -------------------------
(***************************************************************************)
(* One writer at a time, for any number of tabs, acquisitions and claims,  *)
(* with the browser's locks and by election.                               *)
(***************************************************************************)
EXTENDS LeaseElection, FiniteSetTheorems, TLAPS

LeaseRecord ==
    [tab : Tab, wait : BOOLEAN, mode : {"asking", "lost", "exclusive", "readonly", "failed"},
     claim : Nat, consumers : Int, channel : BOOLEAN, joined : Nat]
AskRecord ==
    [lease : Nat, place : Nat, wait : BOOLEAN, at : {"asked", "writes", "reads", "gone", "failed"}]
Message == [to : Nat, from : Nat, type : {"claim", "held"}, claim : Nat]

Typed ==
    /\ locks \in BOOLEAN
    /\ lease \in Seq(LeaseRecord)
    /\ ask \in Seq(AskRecord)
    /\ messages \subseteq Message
    /\ queue \subseteq DOMAIN lease
    /\ tabLeases \in [Tab -> 0..Len(lease)]
    /\ \A a \in DOMAIN ask : ask[a].lease \in DOMAIN lease
    /\ \A m \in messages : m.to \in DOMAIN lease /\ m.from \in DOMAIN lease

\* The acquisitions that count on a lease.
Users(l) == {a \in DOMAIN ask : ask[a].lease = l /\ ask[a].at \in {"asked", "writes", "reads"}}
Counted == \A l \in DOMAIN lease : lease[l].consumers = Cardinality(Users(l))

\* The lease a tab lends is its own and in use.
Lent ==
    \A t \in Tab : tabLeases[t] # 0 =>
        lease[tabLeases[t]].tab = t /\ lease[tabLeases[t]].consumers > 0

\* The line of a lease: everyone has a place of their own, and a writer has nobody
\* before it who still wants to write.
InLine ==
    \A a \in DOMAIN ask :
        /\ ask[a].place <= lease[ask[a].lease].joined
        /\ \A b \in DOMAIN ask : a # b /\ ask[a].lease = ask[b].lease => ask[a].place # ask[b].place
WritersTurn ==
    \A a \in DOMAIN ask : ask[a].at = "writes" =>
        lease[ask[a].lease].mode = "exclusive" /\ predecessors(a)

\* The browser's locks and the election do not mix.
OneMechanism ==
    /\ \A l \in queue : lease[l].mode = "asking"
    /\ locks => messages = {} /\ \A l \in DOMAIN lease : lease[l].mode # "lost"
    /\ ~locks => queue = {}

\* A claimant that a holder, or a smaller claim, has not stopped yet will be: its own
\* claim, the objection to it or the smaller claim is on its way.
Claiming(l) == lease[l].mode = "asking" /\ lease[l].channel
Post(to, from, type, claim) == [to |-> to, from |-> from, type |-> type, claim |-> claim]
Objection(l, k) ==
    \/ Post(l, k, "claim", lease[k].claim) \in messages
    \/ Post(k, l, "held", lease[k].claim) \in messages
    \/ Claiming(l) /\ Post(k, l, "claim", lease[l].claim) \in messages
Objects(l, k) == Holds(l) \/ (Claiming(l) /\ lease[l].claim < lease[k].claim)
Election ==
    ~locks =>
       /\ \A l \in DOMAIN lease : Holds(l) => lease[l].channel
       /\ \A l, k \in DOMAIN lease : l # k => lease[l].claim # lease[k].claim
       /\ \A l, k \in DOMAIN lease : l # k /\ Claiming(k) /\ Objects(l, k) => Objection(l, k)

OneHolder == \A l, k \in DOMAIN lease : Holds(l) /\ Holds(k) => l = k

-----------------------------------------------------------------------------
(* Sequences and counting.                                                 *)

LEMMA Changed ==
    ASSUME NEW S, NEW s \in Seq(S), NEW i \in DOMAIN s, NEW v \in S
    PROVE  /\ [s EXCEPT ![i] = v] \in Seq(S)
           /\ Len([s EXCEPT ![i] = v]) = Len(s)
           /\ DOMAIN [s EXCEPT ![i] = v] = DOMAIN s
  OBVIOUS
LEMMA Added ==
    ASSUME NEW S, NEW s \in Seq(S), NEW v \in S
    PROVE  /\ Append(s, v) \in Seq(S)
           /\ Len(Append(s, v)) = Len(s) + 1
           /\ DOMAIN Append(s, v) = DOMAIN s \cup {Len(s) + 1}
           /\ Len(s) + 1 \notin DOMAIN s
           /\ Append(s, v)[Len(s) + 1] = v
           /\ \A i \in DOMAIN s : Append(s, v)[i] = s[i]
  OBVIOUS
LEMMA Mapped ==
    ASSUME NEW S, NEW T, NEW s \in Seq(T), NEW f \in [DOMAIN s -> S]
    PROVE  f \in Seq(S) /\ Len(f) = Len(s) /\ DOMAIN f = DOMAIN s
  <1>1. Len(s) \in Nat /\ DOMAIN s = 1..Len(s)
    OBVIOUS
  <1>2. f \in [1..Len(s) -> S]
    BY <1>1
  <1>3. \A n \in Nat : \A g \in [1..n -> S] : g \in Seq(S) /\ Len(g) = n /\ DOMAIN g = 1..n
    OBVIOUS
  <1>4. f \in Seq(S) /\ Len(f) = Len(s) /\ DOMAIN f = 1..Len(s)
    BY <1>1, <1>2, <1>3, Zenon
  <1> QED
    BY <1>1, <1>4
LEMMA Fields ==
    ASSUME NEW r \in LeaseRecord, NEW mode \in {"asking", "lost", "exclusive", "readonly", "failed"}
    PROVE  /\ [r EXCEPT !.mode = mode] \in LeaseRecord
           /\ [r EXCEPT !.mode = mode, !.channel = FALSE] \in LeaseRecord
           /\ [r EXCEPT !.consumers = 0, !.channel = FALSE, !.mode = mode] \in LeaseRecord
  <1>1. [r EXCEPT !.mode = mode] \in LeaseRecord
    BY DEF LeaseRecord
  <1>2. [r EXCEPT !.mode = mode, !.channel = FALSE] \in LeaseRecord
    BY DEF LeaseRecord
  <1>3. [r EXCEPT !.consumers = 0, !.channel = FALSE, !.mode = mode] \in LeaseRecord
    <2> DEFINE q == [r EXCEPT !.consumers = 0]
    <2>1. q \in LeaseRecord
      BY DEF LeaseRecord
    <2> HIDE DEF q
    <2>2. [q EXCEPT !.channel = FALSE, !.mode = mode] \in LeaseRecord
      BY <2>1 DEF LeaseRecord
    <2> QED
      BY <2>2 DEF q
  <1> QED
    BY <1>1, <1>2, <1>3
-----------------------------------------------------------------------------
(* Typing.                                                                 *)

\* What starting to ask does to the lease that asks: only its mode, its claim and
\* its channel change.
StartsAs(ls, n) ==
    /\ lease' \in Seq(LeaseRecord) /\ Len(lease') = Len(ls) /\ DOMAIN lease' = DOMAIN ls
    /\ \A l \in DOMAIN ls : l # n => lease'[l] = ls[l]
    /\ lease'[n].tab = ls[n].tab /\ lease'[n].consumers = ls[n].consumers /\ lease'[n].joined = ls[n].joined
    /\ lease'[n].mode \in {"asking", "exclusive", "readonly"}
    /\ messages \subseteq messages'
    /\ \A m \in messages' \ messages : m \in Message /\ m.to \in DOMAIN ls /\ m.from = n
    /\ queue \subseteq queue' /\ queue' \subseteq queue \cup {n}

LEMMA StartsToAsk ==
    ASSUME NEW ls \in Seq(LeaseRecord), NEW n \in DOMAIN ls, ls[n].mode = "asking" \/ ls[n].mode = "lost",
           \/ webLockMode(ls, n) /\ ls[n].mode = "asking"
           \/ electionAttempt(ls, n)
    PROVE  StartsAs(ls, n)
  <1>1. ls[n] \in LeaseRecord
    OBVIOUS
  <1>2. CASE webLockMode(ls, n) /\ ls[n].mode = "asking"
    <2>1. messages' = messages /\ queue \subseteq queue' /\ queue' \subseteq queue \cup {n}
      BY <1>2 DEF webLockMode
    <2>2. \/ lease' = ls
          \/ \E mode \in {"exclusive", "readonly"} : lease' = [ls EXCEPT ![n] = [ls[n] EXCEPT !.mode = mode]]
      BY <1>2 DEF webLockMode
    <2>3. CASE lease' = ls
      BY <1>1, <1>2, <2>1, <2>3 DEF StartsAs
    <2>4. CASE \E mode \in {"exclusive", "readonly"} : lease' = [ls EXCEPT ![n] = [ls[n] EXCEPT !.mode = mode]]
      <3>1. PICK mode \in {"exclusive", "readonly"} : lease' = [ls EXCEPT ![n] = [ls[n] EXCEPT !.mode = mode]]
        BY <2>4
      <3>2. [ls[n] EXCEPT !.mode = mode] \in LeaseRecord
        BY <1>1 DEF LeaseRecord
      <3>3. /\ lease' \in Seq(LeaseRecord) /\ Len(lease') = Len(ls) /\ DOMAIN lease' = DOMAIN ls
        BY <3>1, <3>2, Changed
      <3> QED
        BY <1>1, <2>1, <3>1, <3>3 DEF StartsAs, LeaseRecord
    <2> QED
      BY <2>2, <2>3, <2>4
  <1>3. CASE electionAttempt(ls, n)
    <2>1. PICK c \in Claims \ usedClaims :
            /\ lease' = [ls EXCEPT ![n].mode = "asking", ![n].claim = c, ![n].channel = TRUE]
            /\ messages' = messages \cup Posts(ls, n, "claim", c) /\ queue' = queue
      BY <1>3 DEF electionAttempt
    <2> DEFINE r == [ls[n] EXCEPT !.mode = "asking", !.claim = c, !.channel = TRUE]
    <2>2. c \in Nat
      BY ClaimsAreNumbers
    <2>3. r \in LeaseRecord /\ lease' = [ls EXCEPT ![n] = r]
      BY <1>1, <2>1, <2>2 DEF LeaseRecord
    <2>4. lease' \in Seq(LeaseRecord) /\ Len(lease') = Len(ls) /\ DOMAIN lease' = DOMAIN ls
      BY <2>3, Changed
    <2>5. \A m \in messages' \ messages : m \in Message /\ m.to \in DOMAIN ls /\ m.from = n
      BY <2>1, <2>2 DEF Posts, Listeners, Message
    <2> QED
      BY <1>1, <2>1, <2>3, <2>4, <2>5 DEF StartsAs, LeaseRecord
  <1> QED
    BY <1>2, <1>3

LEMMA LeaseTyped ==
    ASSUME NEW t \in Tab, NEW wait \in BOOLEAN
    PROVE  Lease(t, wait) \in LeaseRecord
  BY DEF Lease, LeaseRecord

\* A lease whose fields change within their types stays well typed.
LEMMA LeaseChanged ==
    ASSUME Typed, NEW l \in DOMAIN lease, NEW r \in LeaseRecord, lease' = [lease EXCEPT ![l] = r]
    PROVE  lease' \in Seq(LeaseRecord) /\ Len(lease') = Len(lease) /\ DOMAIN lease' = DOMAIN lease
  BY Changed DEF Typed

\* Giving a consumer back, and what it does to the lease.
Releases(l) ==
    /\ lease' \in Seq(LeaseRecord) /\ Len(lease') = Len(lease) /\ DOMAIN lease' = DOMAIN lease
    /\ \A k \in DOMAIN lease : k # l => lease'[k] = lease[k]
    /\ lease'[l] = [lease[l] EXCEPT !.consumers = @ - 1, !.channel = @ /\ lease[l].consumers # 1]
    /\ tabLeases' \in [Tab -> 0..Len(lease)]
    /\ \A t \in Tab : tabLeases'[t] = tabLeases[t] \/ (tabLeases'[t] = 0)
    /\ \A t \in Tab : tabLeases[t] = l /\ lease[l].tab = t /\ lease[l].consumers = 1 => tabLeases'[t] = 0
LEMMA ReleaseEffect ==
    ASSUME Typed, NEW l \in DOMAIN lease, releaseConsumer(l)
    PROVE  Releases(l)
  <1> DEFINE r == [lease[l] EXCEPT !.consumers = @ - 1, !.channel = @ /\ lease[l].consumers # 1]
  <1>1. lease[l] \in LeaseRecord
    BY DEF Typed
  <1>2. r \in LeaseRecord
    <2>1. (lease[l].channel /\ lease[l].consumers # 1) \in BOOLEAN /\ lease[l].consumers - 1 \in Int
      BY <1>1 DEF LeaseRecord
    <2> QED
      BY <1>1, <2>1, Zenon DEF LeaseRecord
  <1>3. lease' = [lease EXCEPT ![l] = r]
    BY <1>1 DEF releaseConsumer, LeaseRecord
  <1>4. lease' \in Seq(LeaseRecord) /\ Len(lease') = Len(lease) /\ DOMAIN lease' = DOMAIN lease
    BY <1>2, <1>3, LeaseChanged
  <1>5. tabLeases' = IF lease[l].consumers = 1 /\ tabLeases[lease[l].tab] = l THEN [tabLeases EXCEPT ![lease[l].tab] = 0] ELSE tabLeases
    BY DEF releaseConsumer
  <1>6. lease[l].tab \in Tab /\ tabLeases \in [Tab -> 0..Len(lease)] /\ Len(lease) \in Nat
    BY <1>1 DEF Typed, LeaseRecord
  <1>7. tabLeases' \in [Tab -> 0..Len(lease)]
    BY <1>5, <1>6
  <1>8. \A k \in DOMAIN lease : k # l => lease'[k] = lease[k]
    BY <1>3
  <1>9. lease'[l] = r
    BY <1>3 DEF Typed
  <1>10. \A t \in Tab : tabLeases'[t] = tabLeases[t] \/ (tabLeases'[t] = 0)
    BY <1>5, <1>6
  <1>11. \A t \in Tab : tabLeases[t] = l /\ lease[l].tab = t /\ lease[l].consumers = 1 => tabLeases'[t] = 0
    BY <1>5, <1>6
  <1> QED
    BY <1>4, <1>7, <1>8, <1>9, <1>10, <1>11 DEF Releases

\* An acquisition makes a lease: appended, asking, lent by its tab.
Makes(ls, t, wait) ==
    LET n == Len(lease) + 1
    IN /\ lease' \in Seq(LeaseRecord) /\ Len(lease') = n /\ DOMAIN lease' = DOMAIN lease \cup {n} /\ n \notin DOMAIN lease
       /\ \A l \in DOMAIN lease : lease'[l] = ls[l]
       /\ lease'[n].tab = t /\ lease'[n].consumers = 1 /\ lease'[n].joined = 1
       /\ lease'[n].mode \in {"asking", "exclusive", "readonly"}
       /\ tabLeases' = [tabLeases EXCEPT ![t] = n] /\ tabLeases' \in [Tab -> 0..n]
       /\ messages \subseteq messages'
       /\ \A m \in messages' \ messages : m \in Message /\ m.to \in DOMAIN lease' /\ m.from = n
       /\ queue \subseteq queue' /\ queue' \subseteq queue \cup {n}
LEMMA MakesALease ==
    ASSUME Typed, NEW t \in Tab, NEW wait \in BOOLEAN,
           NEW ls \in Seq(LeaseRecord), Len(ls) = Len(lease),
           tabLeases' = [tabLeases EXCEPT ![t] = Len(lease) + 1],
           IF locks THEN webLockMode(Append(ls, Lease(t, wait)), Len(lease) + 1)
                    ELSE electionAttempt(Append(ls, Lease(t, wait)), Len(lease) + 1)
    PROVE  Makes(ls, t, wait)
  <1> DEFINE n == Len(lease) + 1
             longer == Append(ls, Lease(t, wait))
  <1>1. DOMAIN ls = DOMAIN lease
    BY DEF Typed
  <1>2. Lease(t, wait) \in LeaseRecord
    BY LeaseTyped
  <1>3. /\ longer \in Seq(LeaseRecord) /\ Len(longer) = n /\ DOMAIN longer = DOMAIN lease \cup {n}
        /\ n \notin DOMAIN lease /\ longer[n] = Lease(t, wait) /\ \A l \in DOMAIN lease : longer[l] = ls[l]
    BY <1>1, <1>2, Added
  <1> HIDE DEF longer
  <1>4. longer[n].mode = "asking" /\ longer[n].tab = t /\ longer[n].consumers = 1 /\ longer[n].joined = 1
    BY <1>3 DEF Lease
  <1>5. StartsAs(longer, n)
    <2>1. webLockMode(longer, n) \/ electionAttempt(longer, n)
      BY DEF longer
    <2> QED
      BY <1>3, <1>4, <2>1, StartsToAsk
  <1>6. tabLeases' \in [Tab -> 0..n]
    BY DEF Typed
  <1> QED
    BY <1>3, <1>4, <1>5, <1>6 DEF StartsAs, Makes

\* An acquisition that joins the lease its tab lends.
Joined(l, ls) ==
    /\ lease' \in Seq(LeaseRecord) /\ Len(lease') = Len(lease) /\ DOMAIN lease' = DOMAIN lease
    /\ \A k \in DOMAIN lease : k # l => lease'[k] = ls[k]
    /\ lease'[l] = [ls[l] EXCEPT !.consumers = @ + 1, !.joined = @ + 1]
LEMMA JoinsALease ==
    ASSUME Typed, NEW ls \in Seq(LeaseRecord), Len(ls) = Len(lease), NEW l \in DOMAIN lease,
           lease' = [ls EXCEPT ![l].consumers = @ + 1, ![l].joined = @ + 1]
    PROVE  Joined(l, ls)
  <1> DEFINE r == [ls[l] EXCEPT !.consumers = @ + 1, !.joined = @ + 1]
  <1>1. DOMAIN ls = DOMAIN lease /\ ls[l] \in LeaseRecord
    BY DEF Typed
  <1>2. r \in LeaseRecord
    BY <1>1 DEF LeaseRecord
  <1>3. lease' = [ls EXCEPT ![l] = r]
    BY Zenon
  <1>4. lease' \in Seq(LeaseRecord) /\ Len(lease') = Len(ls) /\ DOMAIN lease' = DOMAIN ls
    <2> HIDE DEF r
    <2>1. l \in DOMAIN ls
      BY <1>1
    <2> DEFINE changed == [ls EXCEPT ![l] = r]
    <2>2. changed \in Seq(LeaseRecord) /\ Len(changed) = Len(ls) /\ DOMAIN changed = DOMAIN ls
      BY <1>2, <2>1, Changed
    <2> HIDE DEF changed
    <2>3. lease' = changed
      BY <1>3, Zenon DEF changed
    <2> QED
      BY <2>2, <2>3, Zenon
  <1> QED
    BY <1>1, <1>3, <1>4 DEF Joined

\* A consumer that leaves a reader's lease to ask anew.
Without(l) == [lease EXCEPT ![l].consumers = @ - 1]
LEMMA WithoutOne ==
    ASSUME Typed, NEW l \in DOMAIN lease
    PROVE  /\ Without(l) \in Seq(LeaseRecord) /\ Len(Without(l)) = Len(lease) /\ DOMAIN Without(l) = DOMAIN lease
           /\ \A k \in DOMAIN lease : k # l => Without(l)[k] = lease[k]
           /\ Without(l)[l] = [lease[l] EXCEPT !.consumers = @ - 1]
  <1> DEFINE r == [lease[l] EXCEPT !.consumers = @ - 1]
  <1>1. lease[l] \in LeaseRecord
    BY DEF Typed
  <1>2. r \in LeaseRecord
    BY <1>1 DEF LeaseRecord
  <1>3. Without(l) = [lease EXCEPT ![l] = r]
    BY <1>1 DEF LeaseRecord, Without
  <1> QED
    BY <1>2, <1>3, Changed DEF Typed

\* An acquisition whose place in the world changes.
LEMMA AskChanged ==
    ASSUME Typed, NEW a \in DOMAIN ask, NEW r \in AskRecord, ask' = [ask EXCEPT ![a] = r], r.lease \in DOMAIN lease',
           DOMAIN lease \subseteq DOMAIN lease'
    PROVE  /\ ask' \in Seq(AskRecord) /\ DOMAIN ask' = DOMAIN ask
           /\ \A b \in DOMAIN ask' : ask'[b].lease \in DOMAIN lease'
  <1>1. ask' \in Seq(AskRecord) /\ DOMAIN ask' = DOMAIN ask
    BY Changed DEF Typed
  <1> QED
    BY <1>1 DEF Typed

LEMMA AskTyped ==
    ASSUME NEW l \in Nat, NEW place \in Nat, NEW wait \in BOOLEAN
    PROVE  Ask(l, place, wait) \in AskRecord
  BY DEF Ask, AskRecord

LEMMA AskMoved ==
    ASSUME Typed, NEW a \in DOMAIN ask, NEW at \in {"asked", "writes", "reads", "gone", "failed"}, ask' = [ask EXCEPT ![a].at = at],
           DOMAIN lease \subseteq DOMAIN lease'
    PROVE  /\ ask' \in Seq(AskRecord) /\ DOMAIN ask' = DOMAIN ask
           /\ \A b \in DOMAIN ask' : ask'[b].lease \in DOMAIN lease'
           /\ \A b \in DOMAIN ask : b # a => ask'[b] = ask[b]
           /\ ask'[a] = [ask[a] EXCEPT !.at = at]
  <1> DEFINE r == [ask[a] EXCEPT !.at = at]
  <1>1. ask[a] \in AskRecord /\ ask[a].lease \in DOMAIN lease
    BY DEF Typed
  <1>2. r \in AskRecord /\ r.lease = ask[a].lease
    BY <1>1 DEF AskRecord
  <1>3. ask' = [ask EXCEPT ![a] = r]
    BY <1>1 DEF AskRecord
  <1>4. ask' \in Seq(AskRecord) /\ DOMAIN ask' = DOMAIN ask /\ \A b \in DOMAIN ask' : ask'[b].lease \in DOMAIN lease'
    BY <1>1, <1>2, <1>3, AskChanged
  <1> QED
    BY <1>3, <1>4

\* The elements of a well-typed state.
LEMMA Members ==
    ASSUME Typed
    PROVE  /\ \A l \in DOMAIN lease : lease[l] \in LeaseRecord /\ l \in Nat
           /\ \A a \in DOMAIN ask : ask[a] \in AskRecord /\ ask[a].lease \in DOMAIN lease
           /\ DOMAIN lease = 1..Len(lease) /\ Len(lease) \in Nat
           /\ DOMAIN ask = 1..Len(ask) /\ Len(ask) \in Nat
           /\ tabLeases \in [Tab -> 0..Len(lease)]
           /\ \A m \in messages : m \in Message /\ m.to \in DOMAIN lease /\ m.from \in DOMAIN lease
  BY DEF Typed

\* Each step keeps the state well typed.
LEMMA TypedStep ==
    ASSUME Typed, [Next]_vars
    PROVE  Typed'
  <1>0. CASE UNCHANGED vars
    BY <1>0 DEF vars, Typed
  <1>m. /\ \A l \in DOMAIN lease : lease[l] \in LeaseRecord /\ l \in Nat
        /\ \A a \in DOMAIN ask : ask[a] \in AskRecord /\ ask[a].lease \in DOMAIN lease
        /\ DOMAIN lease = 1..Len(lease) /\ Len(lease) \in Nat
        /\ tabLeases \in [Tab -> 0..Len(lease)]
        /\ \A m \in messages : m \in Message /\ m.to \in DOMAIN lease /\ m.from \in DOMAIN lease
    BY Members
  <1>1. ASSUME NEW t \in Tab, closeTab(t), locks' = locks PROVE Typed'
    <2> DEFINE mine == {l \in DOMAIN lease : lease[l].tab = t}
    <2>1. /\ lease' = [l \in DOMAIN lease |-> IF l \in mine THEN [lease[l] EXCEPT !.consumers = 0, !.channel = FALSE, !.mode = "failed"]
                                              ELSE lease[l]]
          /\ ask' = [a \in DOMAIN ask |-> IF ask[a].lease \in mine THEN [ask[a] EXCEPT !.at = "gone"] ELSE ask[a]]
          /\ tabLeases' = [tabLeases EXCEPT ![t] = 0]
          /\ queue' = queue \ mine /\ messages' = {m \in messages : m.to \notin mine}
      BY <1>1 DEF closeTab
    <2> HIDE DEF mine
    <2>2. \A l \in DOMAIN lease : lease'[l] \in LeaseRecord
      BY <1>m, <2>1, Fields
    <2>3. lease' \in Seq(LeaseRecord) /\ Len(lease') = Len(lease) /\ DOMAIN lease' = DOMAIN lease
      <3>1. lease' \in [DOMAIN lease -> LeaseRecord] /\ lease \in Seq(LeaseRecord)
        BY <2>1, <2>2 DEF Typed
      <3> QED
        BY <3>1, Mapped
    <2>4. \A a \in DOMAIN ask : ask'[a] \in AskRecord /\ ask'[a].lease = ask[a].lease
      BY <1>m, <2>1 DEF AskRecord
    <2>5. ask' \in Seq(AskRecord) /\ DOMAIN ask' = DOMAIN ask
      <3>1. ask' \in [DOMAIN ask -> AskRecord] /\ ask \in Seq(AskRecord)
        BY <2>1, <2>4 DEF Typed
      <3> QED
        BY <3>1, Mapped
    <2>6. tabLeases' \in [Tab -> 0..Len(lease)]
      <3>1. 0 \in 0..Len(lease)
        BY <1>m
      <3> QED
        BY <1>m, <2>1, <3>1, Zenon
    <2> QED
      BY <1>1, <2>1, <2>3, <2>4, <2>5, <2>6 DEF Typed
  <1>2. ASSUME NEW t \in Tab, NEW wait \in BOOLEAN, acquireLease(t, wait), locks' = locks PROVE Typed'
    <2>1. CASE tabLeases[t] = 0
      <3>1. Makes(lease, t, wait)
        <4>1. /\ tabLeases' = [tabLeases EXCEPT ![t] = Len(lease) + 1]
              /\ IF locks THEN webLockMode(Append(lease, Lease(t, wait)), Len(lease) + 1)
                          ELSE electionAttempt(Append(lease, Lease(t, wait)), Len(lease) + 1)
          BY <1>2, <2>1 DEF acquireLease, Joins, createTabLease
        <4>2. lease \in Seq(LeaseRecord)
          BY DEF Typed
        <4> QED
          BY <4>1, <4>2, MakesALease
      <3>2. ask' = Append(ask, Ask(Len(lease) + 1, 1, wait))
        BY <1>2, <2>1 DEF acquireLease
      <3>3. Ask(Len(lease) + 1, 1, wait) \in AskRecord /\ Ask(Len(lease) + 1, 1, wait).lease = Len(lease) + 1
        BY AskTyped DEF Ask
      <3>4. ask' \in Seq(AskRecord) /\ \A a \in DOMAIN ask' : ask'[a].lease \in DOMAIN lease'
        BY <3>1, <3>2, <3>3, Added DEF Makes, Typed
      <3> QED
        BY <1>2, <3>1, <3>4 DEF Makes, Typed
    <2>2. CASE tabLeases[t] # 0
      <3> DEFINE l == tabLeases[t]
                 r == Ask(l, lease[l].joined + 1, wait)
      <3>1. l \in DOMAIN lease
        BY <1>m, <2>2
      <3>2. /\ lease' = [lease EXCEPT ![l].consumers = @ + 1, ![l].joined = @ + 1] /\ ask' = Append(ask, r)
            /\ UNCHANGED <<tabLeases, messages, queue>>
        BY <1>2, <2>2 DEF acquireLease, Joins
      <3>3. Joined(l, lease)
        BY <1>m, <3>1, <3>2, JoinsALease DEF Typed
      <3>4. r \in AskRecord /\ r.lease = l
        BY <1>m, <3>1, AskTyped DEF Ask, LeaseRecord
      <3> HIDE DEF r, l
      <3>5. ask' \in Seq(AskRecord) /\ \A a \in DOMAIN ask' : ask'[a].lease \in DOMAIN lease
        BY <3>1, <3>2, <3>4, Added DEF Typed
      <3> QED
        BY <1>2, <3>2, <3>3, <3>5 DEF Joined, Typed
    <2> QED
      BY <2>1, <2>2
  <1>3. ASSUME NEW l \in DOMAIN lease, claimWindow(l), locks' = locks PROVE Typed'
    <2> DEFINE r == [lease[l] EXCEPT !.mode = "exclusive"]
    <2>1. r \in LeaseRecord /\ lease' = [lease EXCEPT ![l] = r] /\ UNCHANGED <<tabLeases, ask, messages, queue>>
      BY <1>m, <1>3 DEF claimWindow, LeaseRecord
    <2>2. lease' \in Seq(LeaseRecord) /\ Len(lease') = Len(lease) /\ DOMAIN lease' = DOMAIN lease
      BY <2>1, LeaseChanged
    <2> QED
      BY <1>3, <2>1, <2>2 DEF Typed
  <1>4. ASSUME NEW l \in DOMAIN lease, electedMode(l), locks' = locks PROVE Typed'
    <2>0. lease[l].mode = "lost" /\ UNCHANGED <<tabLeases, ask>>
      BY <1>4 DEF electedMode
    <2>1. CASE electionAttempt(lease, l)
      <3>1. StartsAs(lease, l)
        BY <2>0, <2>1, StartsToAsk DEF Typed
      <3> QED
        BY <1>4, <2>0, <3>1 DEF StartsAs, Typed
    <2>2. CASE lease' = [lease EXCEPT ![l].mode = "failed"] /\ UNCHANGED <<messages, queue>>
      <3> DEFINE r == [lease[l] EXCEPT !.mode = "failed"]
      <3>1. r \in LeaseRecord /\ lease' = [lease EXCEPT ![l] = r]
        BY <1>m, <2>2 DEF LeaseRecord
      <3>2. lease' \in Seq(LeaseRecord) /\ Len(lease') = Len(lease) /\ DOMAIN lease' = DOMAIN lease
        BY <3>1, LeaseChanged
      <3> QED
        BY <1>4, <2>0, <2>2, <3>2 DEF Typed
    <2> QED
      BY <1>4, <2>1, <2>2 DEF electedMode
  <1>5. ASSUME NEW m \in messages, onmessage(m), locks' = locks PROVE Typed'
    <2> DEFINE l == m.to
               held == [to |-> m.from, from |-> l, type |-> "held", claim |-> m.claim]
    <2>1. m \in Message /\ l \in DOMAIN lease /\ m.from \in DOMAIN lease /\ held \in Message
      BY <1>m DEF Message
    <2>2. messages' \subseteq messages \cup {held} /\ UNCHANGED <<tabLeases, ask, queue>>
      BY <1>5 DEF onmessage
    <2>3. \/ lease' = lease
          \/ \E mode \in {"lost", "readonly"} : lease' = [lease EXCEPT ![l] = [lease[l] EXCEPT !.mode = mode, !.channel = FALSE]]
      BY <1>5 DEF onmessage
    <2>4. \A mode \in {"lost", "readonly"} : [lease[l] EXCEPT !.mode = mode, !.channel = FALSE] \in LeaseRecord
      BY <1>m, <2>1, Fields
    <2>5. lease' \in Seq(LeaseRecord) /\ Len(lease') = Len(lease) /\ DOMAIN lease' = DOMAIN lease
      <3>1. CASE lease' = lease
        BY <3>1 DEF Typed
      <3>2. CASE \E mode \in {"lost", "readonly"} : lease' = [lease EXCEPT ![l] = [lease[l] EXCEPT !.mode = mode, !.channel = FALSE]]
        BY <2>1, <2>4, <3>2, LeaseChanged
      <3> QED
        BY <2>3, <3>1, <3>2
    <2>6. \A k \in messages' : k \in Message /\ k.to \in DOMAIN lease /\ k.from \in DOMAIN lease
      BY <1>m, <2>1, <2>2
    <2> QED
      BY <1>5, <2>2, <2>5, <2>6 DEF Typed
  <1>6. ASSUME NEW a \in DOMAIN ask, turn(a), locks' = locks PROVE Typed'
    <2> DEFINE l == ask[a].lease
    <2>1. UNCHANGED <<messages, queue>> /\ l \in DOMAIN lease
      BY <1>m, <1>6 DEF turn
    <2>2. CASE \E at \in {"writes", "reads"} : ask' = [ask EXCEPT ![a].at = at] /\ UNCHANGED <<lease, tabLeases>>
      <3>1. ask' \in Seq(AskRecord) /\ \A b \in DOMAIN ask' : ask'[b].lease \in DOMAIN lease'
        BY <2>2, AskMoved
      <3> QED
        BY <1>6, <2>1, <2>2, <3>1 DEF Typed
    <2>3. CASE ask' = [ask EXCEPT ![a].at = "failed"] /\ releaseConsumer(l)
      <3>1. Releases(l)
        BY <2>1, <2>3, ReleaseEffect
      <3>2. ask' \in Seq(AskRecord) /\ \A b \in DOMAIN ask' : ask'[b].lease \in DOMAIN lease'
        BY <2>3, <3>1, AskMoved DEF Releases
      <3> QED
        BY <1>6, <2>1, <3>1, <3>2 DEF Releases, Typed
    <2> QED
      BY <1>6, <2>2, <2>3 DEF turn
  <1>7. ASSUME NEW a \in DOMAIN ask, reacquire(a), locks' = locks PROVE Typed'
    <2> DEFINE l == ask[a].lease
               t == lease[l].tab
               n == Len(lease) + 1
    <2>1. l \in DOMAIN lease /\ t \in Tab /\ n \in Nat /\ ask[a] \in AskRecord
      BY <1>m DEF LeaseRecord
    <2>2. /\ Without(l) \in Seq(LeaseRecord) /\ Len(Without(l)) = Len(lease) /\ DOMAIN Without(l) = DOMAIN lease
          /\ \A k \in DOMAIN lease : k # l => Without(l)[k] = lease[k]
      BY <2>1, WithoutOne
    <2>3. CASE tabLeases[t] \in {0, l}
      <3>1. /\ tabLeases' = [tabLeases EXCEPT ![t] = n] /\ ask' = [ask EXCEPT ![a].lease = n, ![a].place = 1]
            /\ IF locks THEN webLockMode(Append(Without(l), Lease(t, TRUE)), n) ELSE electionAttempt(Append(Without(l), Lease(t, TRUE)), n)
        BY <1>7, <2>3 DEF reacquire, Without
      <3>2. Makes(Without(l), t, TRUE)
        BY <2>1, <2>2, <3>1, MakesALease
      <3> DEFINE r == [ask[a] EXCEPT !.lease = n, !.place = 1]
      <3>3. r \in AskRecord /\ r.lease = n /\ ask' = [ask EXCEPT ![a] = r]
        BY <2>1, <3>1 DEF AskRecord
      <3>4. n \in DOMAIN lease' /\ DOMAIN lease \subseteq DOMAIN lease'
        BY <3>2 DEF Makes
      <3> HIDE DEF r
      <3>5. ask' \in Seq(AskRecord) /\ \A b \in DOMAIN ask' : ask'[b].lease \in DOMAIN lease'
        BY <3>3, <3>4, AskChanged
      <3> QED
        BY <1>7, <3>2, <3>5 DEF Makes, Typed
    <2>4. CASE tabLeases[t] \notin {0, l}
      <3> DEFINE k == tabLeases[t]
      <3>1. k \in DOMAIN lease /\ k # l
        BY <1>m, <2>1, <2>4
      <3>2. /\ ask' = [ask EXCEPT ![a].lease = k, ![a].place = lease[k].joined + 1]
            /\ lease' = [Without(l) EXCEPT ![k].consumers = @ + 1, ![k].joined = @ + 1] /\ UNCHANGED <<tabLeases, messages, queue>>
        BY <1>7, <2>4 DEF reacquire, Without
      <3>3. Joined(k, Without(l))
        BY <2>2, <3>1, <3>2, JoinsALease
      <3> DEFINE r == [ask[a] EXCEPT !.lease = k, !.place = lease[k].joined + 1]
      <3>4. r \in AskRecord /\ r.lease = k /\ ask' = [ask EXCEPT ![a] = r]
        <4>1. lease[k].joined \in Nat /\ k \in Nat
          BY <1>m, <3>1 DEF LeaseRecord
        <4>2. ask[a] \in AskRecord /\ ask' = [ask EXCEPT ![a].lease = k, ![a].place = lease[k].joined + 1]
          BY <2>1, <3>2
        <4> HIDE DEF k, l
        <4>3. r \in AskRecord /\ r.lease = k
          BY <4>1, <4>2 DEF AskRecord
        <4> QED
          BY <4>2, <4>3, Zenon
      <3>5. DOMAIN lease' = DOMAIN lease
        BY <3>3 DEF Joined
      <3> HIDE DEF r
      <3>6. ask' \in Seq(AskRecord) /\ \A b \in DOMAIN ask' : ask'[b].lease \in DOMAIN lease'
        BY <3>1, <3>4, <3>5, AskChanged
      <3> QED
        BY <1>7, <3>2, <3>3, <3>6 DEF Joined, Typed
    <2> QED
      BY <2>3, <2>4
  <1>8. ASSUME NEW a \in DOMAIN ask, release(a), locks' = locks PROVE Typed'
    <2>1. ask' = [ask EXCEPT ![a].at = "gone"] /\ releaseConsumer(ask[a].lease) /\ UNCHANGED <<messages, queue>>
      BY <1>8 DEF release
    <2>2. Releases(ask[a].lease)
      BY <1>m, <2>1, ReleaseEffect
    <2>3. ask' \in Seq(AskRecord) /\ \A b \in DOMAIN ask' : ask'[b].lease \in DOMAIN lease'
      BY <2>1, <2>2, AskMoved DEF Releases
    <2> QED
      BY <1>8, <2>1, <2>2, <2>3 DEF Releases, Typed
  <1>9. ASSUME lockGranted \/ aborted, locks' = locks PROVE Typed'
    <2>1. PICK l \in queue : \E mode \in {"exclusive", "failed"} :
            lease' = [lease EXCEPT ![l].mode = mode] /\ queue' = queue \ {l} /\ UNCHANGED <<tabLeases, ask, messages>>
      BY <1>9 DEF lockGranted, aborted
    <2>2. PICK mode \in {"exclusive", "failed"} : lease' = [lease EXCEPT ![l].mode = mode]
      BY <2>1
    <2> DEFINE r == [lease[l] EXCEPT !.mode = mode]
    <2>3. l \in DOMAIN lease /\ r \in LeaseRecord /\ lease' = [lease EXCEPT ![l] = r]
      BY <1>m, <2>2, Fields, Zenon DEF Typed
    <2> HIDE DEF r
    <2>4. lease' \in Seq(LeaseRecord) /\ Len(lease') = Len(lease) /\ DOMAIN lease' = DOMAIN lease
      BY <2>3, LeaseChanged
    <2> QED
      BY <1>9, <2>1, <2>4 DEF Typed
  <1> QED
    BY <1>0, <1>1, <1>2, <1>3, <1>4, <1>5, <1>6, <1>7, <1>8, <1>9 DEF Next
-----------------------------------------------------------------------------
(* The line of a lease.                                                    *)

LineInv == Counted /\ Lent /\ InLine /\ WritersTurn

LEMMA UsersFinite ==
    ASSUME Typed, NEW l
    PROVE  IsFiniteSet(Users(l))
  <1>1. IsFiniteSet(1..Len(ask)) /\ DOMAIN ask = 1..Len(ask)
    BY FS_Interval, Members
  <1>2. Users(l) \in SUBSET (1..Len(ask))
    BY <1>1 DEF Users
  <1> QED
    BY <1>1, <1>2, FS_Subset

\* What leaves the acquisitions, the tabs' leases and what counts of a lease alone.
KeepsLine ==
    /\ UNCHANGED <<ask, tabLeases>> /\ DOMAIN lease' = DOMAIN lease
    /\ \A l \in DOMAIN lease :
          /\ lease'[l].tab = lease[l].tab /\ lease'[l].consumers = lease[l].consumers /\ lease'[l].joined = lease[l].joined
          /\ lease[l].mode = "exclusive" => lease'[l].mode = "exclusive"
LEMMA LineKept ==
    ASSUME Typed, LineInv, KeepsLine
    PROVE  LineInv'
  <1>1. \A a \in DOMAIN ask : ask[a].lease \in DOMAIN lease
    BY Members
  <1>2. Counted'
    BY DEF LineInv, KeepsLine, Counted, Users
  <1>3. Lent'
    <2>1. \A t \in Tab : tabLeases[t] # 0 => tabLeases[t] \in DOMAIN lease
      BY Members
    <2> QED
      BY <2>1 DEF LineInv, KeepsLine, Lent
  <1>4. InLine'
    BY <1>1 DEF LineInv, KeepsLine, InLine
  <1>5. WritersTurn'
    BY <1>1 DEF LineInv, KeepsLine, WritersTurn, predecessors
  <1> QED
    BY <1>2, <1>3, <1>4, <1>5 DEF LineInv

\* Tab t lends lease k to one more: it joins the end of its line, or is the first.
Gains(ls, t, k) ==
    /\ DOMAIN lease' = DOMAIN lease \cup {k} /\ \A l \in DOMAIN lease : l # k => lease'[l] = ls[l]
    /\ lease'[k].tab = t
    /\ \/ /\ k \in DOMAIN lease /\ ls[k].tab = t /\ lease'[k].mode = ls[k].mode
          /\ lease'[k].consumers = ls[k].consumers + 1 /\ lease'[k].joined = ls[k].joined + 1
       \/ k \notin DOMAIN lease /\ lease'[k].consumers = 1 /\ lease'[k].joined = 1
    /\ tabLeases' = [tabLeases EXCEPT ![t] = k]

\* An acquisition enters the line of lease k.
LEMMA LineEntered ==
    ASSUME Typed, LineInv, NEW t \in Tab, NEW k \in Nat, Gains(lease, t, k), NEW wait \in BOOLEAN,
           ask' = Append(ask, Ask(k, lease'[k].joined, wait))
    PROVE  LineInv'
  <1> DEFINE N == Len(ask) + 1
             r == Ask(k, lease'[k].joined, wait)
  <1>1. /\ \A l \in DOMAIN lease : lease[l] \in LeaseRecord /\ l \in Nat
        /\ \A a \in DOMAIN ask : ask[a] \in AskRecord /\ ask[a].lease \in DOMAIN lease
        /\ tabLeases \in [Tab -> 0..Len(lease)] /\ DOMAIN lease = 1..Len(lease) /\ Len(lease) \in Nat
    BY Members
  <1>2. k \in DOMAIN lease => lease[k].consumers \in Int /\ lease[k].joined \in Nat
    <2>1. \A l \in DOMAIN lease : lease[l].consumers \in Int /\ lease[l].joined \in Nat
      BY <1>1 DEF LeaseRecord
    <2> QED
      BY <2>1
  <1>3. lease'[k].joined \in Nat
    BY <1>1, <1>2 DEF Gains
  <1>4. r \in AskRecord /\ r.lease = k /\ r.at = "asked" /\ r.place = lease'[k].joined
    BY <1>3, AskTyped DEF Ask
  <1> HIDE DEF r
  <1>5. DOMAIN ask' = DOMAIN ask \cup {N} /\ N \notin DOMAIN ask /\ ask'[N] = r /\ \A a \in DOMAIN ask : ask'[a] = ask[a]
    <2>1. ask \in Seq(AskRecord) /\ ask' = Append(ask, r)
      BY DEF Typed, r
    <2> QED
      BY <1>4, <2>1, Added
  <1> HIDE DEF N
  <1>6. Counted'
    <2> SUFFICES ASSUME NEW l \in DOMAIN lease' PROVE lease'[l].consumers = Cardinality(Users(l)')
      BY DEF Counted
    <2>1. CASE l # k
      <3>1. Users(l)' = Users(l)
        BY <1>4, <1>5, <2>1 DEF Users
      <3> QED
        BY <2>1, <3>1 DEF Gains, LineInv, Counted
    <2>2. CASE l = k /\ k \in DOMAIN lease
      <3>1. Users(l)' = Users(l) \cup {N} /\ N \notin Users(l)
        BY <1>4, <1>5, <2>2 DEF Users
      <3>2. Cardinality(Users(l)') = Cardinality(Users(l)) + 1
        BY <3>1, UsersFinite, FS_AddElement
      <3> QED
        BY <1>2, <2>2, <3>2 DEF Gains, LineInv, Counted
    <2>3. CASE l = k /\ k \notin DOMAIN lease
      <3>1. Users(l)' = {N}
        BY <1>1, <1>4, <1>5, <2>3 DEF Users
      <3> QED
        BY <2>3, <3>1, FS_Singleton DEF Gains
    <2> QED
      BY <2>1, <2>2, <2>3 DEF Gains
  <1>7. Lent'
    <2>1. \A l \in DOMAIN lease : l # k => lease'[l] = lease[l]
      BY DEF Gains
    <2>2. \A q \in Tab : tabLeases'[q] = IF q = t THEN k ELSE tabLeases[q]
      BY <1>1 DEF Gains
    <2>3. \A q \in Tab : tabLeases[q] # 0 => tabLeases[q] \in DOMAIN lease /\ lease[tabLeases[q]].tab = q /\ lease[tabLeases[q]].consumers > 0
      BY <1>1 DEF LineInv, Lent
    <2>4. lease'[k].tab = t
      BY DEF Gains
    <2>5. lease'[k].consumers > 0
      <3>1. CASE k \notin DOMAIN lease
        BY <3>1 DEF Gains
      <3>2. CASE k \in DOMAIN lease
        <4>1. lease[k].consumers = Cardinality(Users(k)) /\ Cardinality(Users(k)) \in Nat
          BY <3>2, UsersFinite, FS_CardinalityType DEF LineInv, Counted
        <4>2. lease'[k].consumers = lease[k].consumers + 1
          BY <1>1, <3>2 DEF Gains
        <4> QED
          BY <4>1, <4>2
      <3> QED
        BY <3>1, <3>2
    <2>6. ASSUME NEW q \in Tab, q # t, tabLeases[q] = k, k # 0 PROVE FALSE
      <3>1. k \in DOMAIN lease /\ lease[k].tab = q
        BY <2>3, <2>6
      <3>2. lease'[k].tab = lease[k].tab
        BY <3>1 DEF Gains
      <3> QED
        BY <2>4, <2>6, <3>1, <3>2
    <2> QED
      BY <2>1, <2>2, <2>3, <2>4, <2>5, <2>6 DEF Lent
  <1>8. ASSUME NEW a \in DOMAIN ask
        PROVE  ask[a].place <= lease'[ask[a].lease].joined /\ (ask[a].lease = k => ask[a].place < lease'[k].joined)
    <2>1. ask[a].place <= lease[ask[a].lease].joined /\ ask[a].place \in Nat /\ ask[a].lease \in DOMAIN lease
      BY <1>1 DEF LineInv, InLine, AskRecord
    <2> QED
      BY <1>2, <2>1 DEF Gains
  <1>9. InLine'
    <2>1. ASSUME NEW a \in DOMAIN ask' PROVE ask'[a].place <= lease'[ask'[a].lease].joined
      BY <1>3, <1>4, <1>5, <1>8
    <2>2. ASSUME NEW a \in DOMAIN ask', NEW b \in DOMAIN ask', a # b, ask'[a].lease = ask'[b].lease PROVE ask'[a].place # ask'[b].place
      <3>1. \A c \in DOMAIN ask : ask[c].lease = k => ask[c].place # r.place
        BY <1>1, <1>3, <1>4, <1>8 DEF AskRecord
      <3>2. \A c, d \in DOMAIN ask : c # d /\ ask[c].lease = ask[d].lease => ask[c].place # ask[d].place
        BY DEF LineInv, InLine
      <3> QED
        BY <1>4, <1>5, <2>2, <3>1, <3>2
    <2> QED
      BY <2>1, <2>2 DEF InLine
  <1>10. WritersTurn'
    <2> SUFFICES ASSUME NEW a \in DOMAIN ask', ask'[a].at = "writes"
                 PROVE  lease'[ask'[a].lease].mode = "exclusive" /\ predecessors(a)'
      BY DEF WritersTurn
    <2>1. a \in DOMAIN ask /\ ask'[a] = ask[a]
      BY <1>4, <1>5
    <2>2. lease[ask[a].lease].mode = "exclusive" /\ predecessors(a) /\ ask[a].lease \in DOMAIN lease
      BY <1>1, <2>1 DEF LineInv, WritersTurn
    <2>3. lease'[ask[a].lease].mode = "exclusive"
      BY <2>2 DEF Gains
    <2>4. ask[a].lease = k => ~(ask'[N].place < ask[a].place)
      BY <1>1, <1>3, <1>4, <1>5, <1>8, <2>1 DEF AskRecord
    <2> QED
      BY <1>4, <1>5, <2>1, <2>2, <2>3, <2>4 DEF predecessors
  <1> QED
    BY <1>6, <1>7, <1>9, <1>10 DEF LineInv

\* An acquisition that waits leaves a reader's lease for the end of the line of lease k.
LEMMA LineMoved ==
    ASSUME Typed, LineInv, NEW t \in Tab, NEW k \in Nat, NEW x \in DOMAIN ask, ask[x].at = "asked",
           k # ask[x].lease, Gains(Without(ask[x].lease), t, k), lease[ask[x].lease].tab = t,
           ask' = [ask EXCEPT ![x].lease = k, ![x].place = lease'[k].joined]
    PROVE  LineInv'
  <1> DEFINE o == ask[x].lease
             r == [ask[x] EXCEPT !.lease = k, !.place = lease'[k].joined]
  <1>1. /\ \A l \in DOMAIN lease : lease[l] \in LeaseRecord /\ l \in Nat
        /\ \A a \in DOMAIN ask : ask[a] \in AskRecord /\ ask[a].lease \in DOMAIN lease
        /\ tabLeases \in [Tab -> 0..Len(lease)] /\ DOMAIN lease = 1..Len(lease) /\ Len(lease) \in Nat
    BY Members
  <1>2. \A l \in DOMAIN lease : lease[l].consumers \in Int /\ lease[l].joined \in Nat
    BY <1>1 DEF LeaseRecord
  <1>3. /\ \A l \in DOMAIN lease : l # o => Without(o)[l] = lease[l]
        /\ Without(o)[o].consumers = lease[o].consumers - 1 /\ Without(o)[o].joined = lease[o].joined
        /\ Without(o)[o].tab = lease[o].tab /\ Without(o)[o].mode = lease[o].mode
    <2>1. o \in DOMAIN lease /\ lease[o] \in LeaseRecord
      BY <1>1
    <2>2. \A l \in DOMAIN lease : l # o => Without(o)[l] = lease[l]
      BY <2>1, WithoutOne
    <2>3. Without(o)[o] = [lease[o] EXCEPT !.consumers = @ - 1]
      BY <2>1, WithoutOne
    <2> QED
      BY <2>1, <2>2, <2>3 DEF LeaseRecord
  <1>4. lease'[k].joined \in Nat
    BY <1>2, <1>3 DEF Gains
  <1>5. r \in AskRecord /\ r.lease = k /\ r.at = "asked" /\ r.place = lease'[k].joined
    BY <1>1, <1>4 DEF AskRecord
  <1>6. DOMAIN ask' = DOMAIN ask /\ ask'[x] = r /\ \A a \in DOMAIN ask : a # x => ask'[a] = ask[a]
    <2>1. ask' = [ask EXCEPT ![x] = r]
      BY Zenon
    <2> QED
      BY <2>1
  <1> HIDE DEF r
  <1>7. /\ DOMAIN lease' = DOMAIN lease \cup {k} /\ o \in DOMAIN lease
        /\ \A l \in DOMAIN lease : l \notin {k, o} => lease'[l] = lease[l]
        /\ lease'[o].consumers = lease[o].consumers - 1 /\ lease'[o].joined = lease[o].joined
        /\ lease'[o].tab = lease[o].tab /\ lease'[o].mode = lease[o].mode
        /\ lease'[k].tab = t /\ tabLeases' = [tabLeases EXCEPT ![t] = k]
        /\ \/ k \in DOMAIN lease /\ lease[k].tab = t /\ lease'[k].mode = lease[k].mode
              /\ lease'[k].consumers = lease[k].consumers + 1 /\ lease'[k].joined = lease[k].joined + 1
           \/ k \notin DOMAIN lease /\ lease'[k].consumers = 1 /\ lease'[k].joined = 1
    BY <1>1, <1>3 DEF Gains
  <1> HIDE DEF o
  <1>8. Counted'
    <2> SUFFICES ASSUME NEW l \in DOMAIN lease' PROVE lease'[l].consumers = Cardinality(Users(l)')
      BY DEF Counted
    <2>0. \A q \in DOMAIN lease : lease[q].consumers = Cardinality(Users(q)) /\ Cardinality(Users(q)) \in Nat
      BY UsersFinite, FS_CardinalityType DEF LineInv, Counted
    <2>1. CASE l \notin {k, o}
      <3>1. Users(l)' = Users(l)
        BY <1>5, <1>6, <2>1 DEF Users, o
      <3> QED
        BY <1>7, <2>0, <2>1, <3>1
    <2>2. CASE l = k /\ k \in DOMAIN lease
      <3>1. Users(l)' = Users(l) \cup {x} /\ x \notin Users(l)
        BY <1>5, <1>6, <2>2 DEF Users
      <3>2. Cardinality(Users(l)') = Cardinality(Users(l)) + 1
        BY <3>1, UsersFinite, FS_AddElement
      <3> QED
        BY <1>7, <2>0, <2>2, <3>2
    <2>3. CASE l = k /\ k \notin DOMAIN lease
      <3>1. Users(l)' = {x}
        BY <1>1, <1>5, <1>6, <2>3 DEF Users
      <3> QED
        <4>1. Cardinality({x}) = 1
          BY FS_Singleton
        <4>2. lease'[k].consumers = 1
          BY <1>7, <2>3
        <4> QED
          BY <2>3, <3>1, <4>1, <4>2
    <2>4. CASE l = o
      <3>1. Users(l)' = Users(l) \ {x} /\ x \in Users(l) /\ k # o
        BY <1>5, <1>6, <2>4 DEF Users, o
      <3>2. Cardinality(Users(l)') = Cardinality(Users(l)) - 1
        BY <3>1, UsersFinite, FS_RemoveElement
      <3>3. l \in DOMAIN lease /\ lease'[l].consumers = lease[l].consumers - 1
        BY <1>7, <2>4
      <3> QED
        BY <2>0, <3>2, <3>3
    <2> QED
      BY <1>7, <2>1, <2>2, <2>3, <2>4
  <1>9. Lent'
    <2>1. \A q \in Tab : tabLeases'[q] = IF q = t THEN k ELSE tabLeases[q]
      BY <1>1, <1>7
    <2>2. \A q \in Tab : tabLeases[q] # 0 => tabLeases[q] \in DOMAIN lease /\ lease[tabLeases[q]].tab = q /\ lease[tabLeases[q]].consumers > 0
      BY <1>1 DEF LineInv, Lent
    <2>3. lease'[k].consumers > 0
      <3>1. CASE k \notin DOMAIN lease
        BY <1>7, <3>1
      <3>2. CASE k \in DOMAIN lease
        <4>1. lease[k].consumers = Cardinality(Users(k)) /\ Cardinality(Users(k)) \in Nat
          BY <3>2, UsersFinite, FS_CardinalityType DEF LineInv, Counted
        <4> QED
          BY <1>7, <3>2, <4>1
      <3> QED
        BY <3>1, <3>2
    <2>4. \A q \in Tab : q # t /\ tabLeases[q] # 0 => tabLeases[q] # k /\ tabLeases[q] # o
      BY <1>7, <2>2 DEF o
    <2> QED
      BY <1>7, <2>1, <2>2, <2>3, <2>4 DEF Lent
  <1>10. ASSUME NEW a \in DOMAIN ask
         PROVE  ask[a].place <= lease'[ask[a].lease].joined /\ (ask[a].lease = k => ask[a].place < lease'[k].joined)
    <2>1. ask[a].place <= lease[ask[a].lease].joined /\ ask[a].place \in Nat /\ ask[a].lease \in DOMAIN lease
      BY <1>1 DEF LineInv, InLine, AskRecord
    <2> QED
      BY <1>2, <1>7, <2>1
  <1>11. InLine'
    <2>1. ASSUME NEW a \in DOMAIN ask' PROVE ask'[a].place <= lease'[ask'[a].lease].joined
      BY <1>4, <1>5, <1>6, <1>10
    <2>2. ASSUME NEW a \in DOMAIN ask', NEW b \in DOMAIN ask', a # b, ask'[a].lease = ask'[b].lease PROVE ask'[a].place # ask'[b].place
      <3>1. \A c \in DOMAIN ask : ask[c].lease = k => ask[c].place # r.place
        BY <1>1, <1>4, <1>5, <1>10 DEF AskRecord
      <3>2. \A c, d \in DOMAIN ask : c # d /\ ask[c].lease = ask[d].lease => ask[c].place # ask[d].place
        BY DEF LineInv, InLine
      <3> QED
        BY <1>5, <1>6, <2>2, <3>1, <3>2
    <2> QED
      BY <2>1, <2>2 DEF InLine
  <1>12. WritersTurn'
    <2> SUFFICES ASSUME NEW a \in DOMAIN ask', ask'[a].at = "writes"
                 PROVE  lease'[ask'[a].lease].mode = "exclusive" /\ predecessors(a)'
      BY DEF WritersTurn
    <2>1. a \in DOMAIN ask /\ a # x /\ ask'[a] = ask[a]
      BY <1>5, <1>6
    <2>2. lease[ask[a].lease].mode = "exclusive" /\ predecessors(a) /\ ask[a].lease \in DOMAIN lease
      BY <1>1, <2>1 DEF LineInv, WritersTurn
    <2>3. lease'[ask[a].lease].mode = "exclusive"
      BY <1>7, <2>2
    <2>4. ask[a].lease = k => ~(r.place < ask[a].place)
      BY <1>1, <1>4, <1>5, <1>10, <2>1 DEF AskRecord
    <2> QED
      BY <1>5, <1>6, <2>1, <2>2, <2>3, <2>4 DEF predecessors
  <1> QED
    BY <1>8, <1>9, <1>11, <1>12 DEF LineInv

\* A consumer gives its lease back, or is told that it failed.
LEMMA LineLeft ==
    ASSUME Typed, LineInv, NEW x \in DOMAIN ask, ask[x].at \in {"asked", "writes", "reads"}, NEW at \in {"gone", "failed"},
           ask' = [ask EXCEPT ![x].at = at], Releases(ask[x].lease)
    PROVE  LineInv'
  <1> DEFINE o == ask[x].lease
  <1>1. /\ \A l \in DOMAIN lease : lease[l] \in LeaseRecord
        /\ \A a \in DOMAIN ask : ask[a] \in AskRecord /\ ask[a].lease \in DOMAIN lease
        /\ tabLeases \in [Tab -> 0..Len(lease)] /\ DOMAIN lease = 1..Len(lease) /\ Len(lease) \in Nat
    BY Members
  <1>2. /\ DOMAIN ask' = DOMAIN ask /\ \A a \in DOMAIN ask : a # x => ask'[a] = ask[a]
        /\ \A a \in DOMAIN ask : ask'[a].lease = ask[a].lease /\ ask'[a].place = ask[a].place
        /\ ask'[x].at = at
    BY <1>1 DEF AskRecord
  <1>3. /\ DOMAIN lease' = DOMAIN lease /\ \A l \in DOMAIN lease : l # o => lease'[l] = lease[l]
        /\ lease'[o].consumers = lease[o].consumers - 1 /\ lease'[o].joined = lease[o].joined
        /\ lease'[o].tab = lease[o].tab /\ lease'[o].mode = lease[o].mode /\ o \in DOMAIN lease
    BY <1>1 DEF Releases, LeaseRecord
  <1>4. \A q \in DOMAIN lease : lease[q].consumers = Cardinality(Users(q)) /\ Cardinality(Users(q)) \in Nat
    BY UsersFinite, FS_CardinalityType DEF LineInv, Counted
  <1>5. Counted'
    <2> SUFFICES ASSUME NEW l \in DOMAIN lease' PROVE lease'[l].consumers = Cardinality(Users(l)')
      BY DEF Counted
    <2>1. CASE l # o
      <3>1. Users(l)' = Users(l)
        BY <1>2, <2>1 DEF Users
      <3> QED
        BY <1>3, <1>4, <2>1, <3>1
    <2>2. CASE l = o
      <3>1. Users(l)' = Users(l) \ {x} /\ x \in Users(l)
        BY <1>2, <2>2 DEF Users
      <3>2. Cardinality(Users(l)') = Cardinality(Users(l)) - 1
        BY <3>1, UsersFinite, FS_RemoveElement
      <3> QED
        BY <1>3, <1>4, <2>2, <3>2
    <2> QED
      BY <2>1, <2>2
  <1>6. Lent'
    <2> SUFFICES ASSUME NEW t \in Tab, tabLeases'[t] # 0
                 PROVE  lease'[tabLeases'[t]].tab = t /\ lease'[tabLeases'[t]].consumers > 0
      BY DEF Lent
    <2>1. tabLeases'[t] = tabLeases[t] /\ tabLeases[t] \in DOMAIN lease
      BY <1>1 DEF Releases
    <2>2. lease[tabLeases[t]].tab = t /\ lease[tabLeases[t]].consumers > 0
      BY <2>1 DEF LineInv, Lent
    <2>3. CASE tabLeases[t] = o
      <3>1. lease[o].consumers # 1
        BY <2>1, <2>2, <2>3 DEF Releases
      <3> QED
        BY <1>3, <1>4, <2>1, <2>2, <2>3, <3>1
    <2> QED
      BY <1>3, <2>1, <2>2, <2>3
  <1>7. InLine'
    BY <1>1, <1>2, <1>3 DEF LineInv, InLine
  <1>8. WritersTurn'
    BY <1>1, <1>2, <1>3 DEF LineInv, WritersTurn, predecessors
  <1> QED
    BY <1>5, <1>6, <1>7, <1>8 DEF LineInv

\* A consumer's turn comes: to write if nobody before it wants to, or to read.
LEMMA LineTurn ==
    ASSUME Typed, LineInv, NEW x \in DOMAIN ask, ask[x].at = "asked", NEW at \in {"writes", "reads"},
           at = "writes" => lease[ask[x].lease].mode = "exclusive" /\ predecessors(x),
           ask' = [ask EXCEPT ![x].at = at], UNCHANGED <<lease, tabLeases>>
    PROVE  LineInv'
  <1>1. /\ \A a \in DOMAIN ask : ask[a] \in AskRecord /\ ask[a].lease \in DOMAIN lease
    BY Members
  <1>2. /\ DOMAIN ask' = DOMAIN ask /\ \A a \in DOMAIN ask : a # x => ask'[a] = ask[a]
        /\ \A a \in DOMAIN ask : ask'[a].lease = ask[a].lease /\ ask'[a].place = ask[a].place
        /\ ask'[x].at = at
    BY <1>1 DEF AskRecord
  <1>3. Counted'
    <2>1. \A l \in DOMAIN lease : Users(l)' = Users(l)
      BY <1>2 DEF Users
    <2> QED
      BY <2>1 DEF LineInv, Counted
  <1>4. Lent' /\ InLine'
    BY <1>2 DEF LineInv, Lent, InLine
  <1>5. WritersTurn'
    <2> SUFFICES ASSUME NEW a \in DOMAIN ask', ask'[a].at = "writes"
                 PROVE  lease'[ask'[a].lease].mode = "exclusive" /\ predecessors(a)'
      BY DEF WritersTurn
    <2>1. lease[ask[a].lease].mode = "exclusive" /\ predecessors(a) /\ a \in DOMAIN ask
      BY <1>2 DEF LineInv, WritersTurn
    <2>2. \A b \in DOMAIN ask : ask'[b].at \in {"asked", "writes"} => ask[b].at \in {"asked", "writes"}
      BY <1>2
    <2> QED
      BY <1>2, <2>1, <2>2 DEF predecessors
  <1> QED
    BY <1>3, <1>4, <1>5 DEF LineInv

\* A closed tab's leases have no consumers and no turns.
Closed(t) ==
    /\ \A l \in DOMAIN lease : lease[l].tab = t => lease'[l].consumers = 0 /\ ~lease'[l].channel /\ lease'[l].mode = "failed"
    /\ \A l \in DOMAIN lease : lease[l].tab # t => lease'[l] = lease[l]
    /\ \A l \in DOMAIN lease : lease'[l].tab = lease[l].tab /\ lease'[l].joined = lease[l].joined /\ lease'[l].claim = lease[l].claim
    /\ DOMAIN lease' = DOMAIN lease /\ DOMAIN ask' = DOMAIN ask
    /\ \A a \in DOMAIN ask : /\ ask'[a].lease = ask[a].lease /\ ask'[a].place = ask[a].place
                             /\ ask'[a].at = IF lease[ask[a].lease].tab = t THEN "gone" ELSE ask[a].at
    /\ tabLeases' = [tabLeases EXCEPT ![t] = 0]
    /\ queue' = {l \in queue : lease[l].tab # t}
    /\ messages' = {m \in messages : lease[m.to].tab # t}
LEMMA ClosesATab ==
    ASSUME Typed, NEW t \in Tab, closeTab(t)
    PROVE  Closed(t)
  <1> DEFINE mine == {l \in DOMAIN lease : lease[l].tab = t}
  <1>1. /\ \A l \in DOMAIN lease : lease[l] \in LeaseRecord
        /\ \A a \in DOMAIN ask : ask[a] \in AskRecord /\ ask[a].lease \in DOMAIN lease
        /\ \A m \in messages : m.to \in DOMAIN lease
        /\ queue \subseteq DOMAIN lease
    BY Members DEF Typed
  <1>2. /\ lease' = [l \in DOMAIN lease |-> IF l \in mine THEN [lease[l] EXCEPT !.consumers = 0, !.channel = FALSE, !.mode = "failed"]
                                            ELSE lease[l]]
        /\ ask' = [a \in DOMAIN ask |-> IF ask[a].lease \in mine THEN [ask[a] EXCEPT !.at = "gone"] ELSE ask[a]]
        /\ tabLeases' = [tabLeases EXCEPT ![t] = 0]
        /\ queue' = queue \ mine /\ messages' = {m \in messages : m.to \notin mine}
    BY DEF closeTab
  <1>3. \A l \in DOMAIN lease : l \in mine <=> lease[l].tab = t
    OBVIOUS
  <1> HIDE DEF mine
  <1>4. DOMAIN lease' = DOMAIN lease /\ DOMAIN ask' = DOMAIN ask
    BY <1>2
  <1>5. ASSUME NEW l \in DOMAIN lease
        PROVE  /\ lease[l].tab = t => lease'[l].consumers = 0 /\ ~lease'[l].channel /\ lease'[l].mode = "failed"
               /\ lease[l].tab # t => lease'[l] = lease[l]
               /\ lease'[l].tab = lease[l].tab /\ lease'[l].joined = lease[l].joined /\ lease'[l].claim = lease[l].claim
    <2>1. lease'[l] = IF lease[l].tab = t THEN [lease[l] EXCEPT !.consumers = 0, !.channel = FALSE, !.mode = "failed"] ELSE lease[l]
      BY <1>2, <1>3
    <2>2. lease[l] \in LeaseRecord
      BY <1>1
    <2> QED
      BY <2>1, <2>2 DEF LeaseRecord
  <1>6. ASSUME NEW a \in DOMAIN ask
        PROVE  /\ ask'[a].lease = ask[a].lease /\ ask'[a].place = ask[a].place
               /\ ask'[a].at = IF lease[ask[a].lease].tab = t THEN "gone" ELSE ask[a].at
    <2>1. ask'[a] = IF lease[ask[a].lease].tab = t THEN [ask[a] EXCEPT !.at = "gone"] ELSE ask[a]
      BY <1>1, <1>2, <1>3
    <2>2. ask[a] \in AskRecord
      BY <1>1
    <2> QED
      BY <2>1, <2>2 DEF AskRecord
  <1>7. queue' = {l \in queue : lease[l].tab # t} /\ messages' = {m \in messages : lease[m.to].tab # t}
    BY <1>1, <1>2, <1>3
  <1> QED
    BY <1>2, <1>4, <1>5, <1>6, <1>7 DEF Closed

LEMMA LineClosed ==
    ASSUME Typed, LineInv, NEW t \in Tab, Closed(t)
    PROVE  LineInv'
  <1>1. /\ \A a \in DOMAIN ask : ask[a].lease \in DOMAIN lease
        /\ \A q \in Tab : tabLeases[q] # 0 => tabLeases[q] \in DOMAIN lease
        /\ \A q \in Tab : tabLeases'[q] = IF q = t THEN 0 ELSE tabLeases[q]
    BY Members DEF Closed
  <1>2. Counted'
    <2> SUFFICES ASSUME NEW l \in DOMAIN lease' PROVE lease'[l].consumers = Cardinality(Users(l)')
      BY DEF Counted
    <2>1. CASE lease[l].tab = t
      <3>1. Users(l)' = {}
        BY <2>1 DEF Users, Closed
      <3> QED
        BY <2>1, <3>1, FS_EmptySet DEF Closed
    <2>2. CASE lease[l].tab # t
      <3>1. Users(l)' = Users(l)
        BY <2>2 DEF Users, Closed
      <3> QED
        BY <2>2, <3>1 DEF Closed, LineInv, Counted
    <2> QED
      BY <2>1, <2>2
  <1>3. Lent'
    BY <1>1 DEF LineInv, Lent, Closed
  <1>4. InLine'
    BY <1>1 DEF LineInv, InLine, Closed
  <1>5. WritersTurn'
    BY <1>1 DEF LineInv, WritersTurn, predecessors, Closed
  <1> QED
    BY <1>2, <1>3, <1>4, <1>5 DEF LineInv

\* Joining, as it gains the lease a consumer.
LEMMA JoinGains ==
    ASSUME Typed, NEW t \in Tab, NEW ls \in Seq(LeaseRecord), DOMAIN ls = DOMAIN lease, NEW k \in DOMAIN lease,
           ls[k].tab = t, tabLeases[t] = k, tabLeases' = tabLeases, Joined(k, ls)
    PROVE  Gains(ls, t, k)
  <1>1. ls[k] \in LeaseRecord
    OBVIOUS
  <1>2. tabLeases' = [tabLeases EXCEPT ![t] = k]
    BY Members
  <1>3. lease'[k] = [ls[k] EXCEPT !.consumers = @ + 1, !.joined = @ + 1]
    BY DEF Joined
  <1>4. /\ lease'[k].tab = ls[k].tab /\ lease'[k].mode = ls[k].mode
        /\ lease'[k].consumers = ls[k].consumers + 1 /\ lease'[k].joined = ls[k].joined + 1
    BY <1>1, <1>3 DEF LeaseRecord
  <1>5. DOMAIN lease' = DOMAIN lease \cup {k} /\ \A l \in DOMAIN lease : l # k => lease'[l] = ls[l]
    BY DEF Joined
  <1> QED
    BY <1>2, <1>4, <1>5 DEF Gains
LEMMA MakeGains ==
    ASSUME Typed, NEW t \in Tab, NEW wait, NEW ls, Makes(ls, t, wait)
    PROVE  Gains(ls, t, Len(lease) + 1)
  BY DEF Makes, Gains

\* What an acquisition, and one that moves, do.
LEMMA Acquires ==
    ASSUME Typed, LineInv, NEW t \in Tab, NEW wait \in BOOLEAN, acquireLease(t, wait)
    PROVE  \E k \in Nat : /\ Gains(lease, t, k) /\ ask' = Append(ask, Ask(k, lease'[k].joined, wait))
                          /\ \/ k = Len(lease) + 1 /\ tabLeases[t] = 0 /\ Makes(lease, t, wait)
                             \/ /\ k \in DOMAIN lease /\ k = tabLeases[t] /\ Joined(k, lease)
                                /\ UNCHANGED <<tabLeases, messages, queue>>
  <1>1. CASE tabLeases[t] = 0
    <2> DEFINE n == Len(lease) + 1
    <2>1. /\ tabLeases' = [tabLeases EXCEPT ![t] = n]
          /\ IF locks THEN webLockMode(Append(lease, Lease(t, wait)), n) ELSE electionAttempt(Append(lease, Lease(t, wait)), n)
          /\ ask' = Append(ask, Ask(n, 1, wait))
      BY <1>1 DEF acquireLease, Joins, createTabLease
    <2>2. lease \in Seq(LeaseRecord) /\ n \in Nat
      BY Members DEF Typed
    <2>3. Makes(lease, t, wait)
      BY <2>1, <2>2, MakesALease
    <2>4. Gains(lease, t, n)
      BY <2>3, MakeGains
    <2>5. lease'[n].joined = 1
      BY <2>3 DEF Makes
    <2> QED
      BY <1>1, <2>1, <2>2, <2>3, <2>4, <2>5
  <1>2. CASE tabLeases[t] # 0
    <2> DEFINE k == tabLeases[t]
    <2>1. k \in DOMAIN lease /\ k \in Nat /\ lease[k].tab = t /\ lease \in Seq(LeaseRecord) /\ lease[k] \in LeaseRecord
      BY <1>2, Members DEF LineInv, Lent, Typed
    <2>2. /\ lease' = [lease EXCEPT ![k].consumers = @ + 1, ![k].joined = @ + 1]
          /\ ask' = Append(ask, Ask(k, lease[k].joined + 1, wait))
          /\ UNCHANGED <<tabLeases, messages, queue>>
      BY <1>2 DEF acquireLease, Joins
    <2> HIDE DEF k
    <2>3. Joined(k, lease)
      BY <2>1, <2>2, JoinsALease
    <2>4. Gains(lease, t, k)
      BY <2>1, <2>2, <2>3, JoinGains DEF k
    <2>5. lease'[k].joined = lease[k].joined + 1
      BY <2>1, <2>4 DEF Gains
    <2> QED
      BY <2>1, <2>2, <2>3, <2>4, <2>5 DEF k
  <1> QED
    BY <1>1, <1>2
LEMMA Reacquires ==
    ASSUME Typed, LineInv, NEW a \in DOMAIN ask, reacquire(a)
    PROVE  LET l == ask[a].lease
               t == lease[l].tab
           IN /\ ask[a].at = "asked" /\ lease[l].mode = "readonly" /\ l \in DOMAIN lease /\ t \in Tab
              /\ \E k \in Nat : /\ k # l /\ Gains(Without(l), t, k) /\ ask' = [ask EXCEPT ![a].lease = k, ![a].place = lease'[k].joined]
                                /\ \/ k = Len(lease) + 1 /\ Makes(Without(l), t, TRUE)
                                   \/ /\ k \in DOMAIN lease /\ k = tabLeases[t] /\ Joined(k, Without(l))
                                      /\ UNCHANGED <<tabLeases, messages, queue>>
  <1> DEFINE l == ask[a].lease
             t == lease[l].tab
             n == Len(lease) + 1
  <1>1. ask[a].at = "asked" /\ lease[l].mode = "readonly"
    BY DEF reacquire
  <1>2. l \in DOMAIN lease /\ n \in Nat /\ n \notin DOMAIN lease /\ t \in Tab
    BY Members DEF LeaseRecord
  <1>3. Without(l) \in Seq(LeaseRecord) /\ Len(Without(l)) = Len(lease) /\ DOMAIN Without(l) = DOMAIN lease
        /\ \A k \in DOMAIN lease : k # l => Without(l)[k] = lease[k]
    BY <1>2, WithoutOne
  <1>4. CASE tabLeases[t] \in {0, l}
    <2>1. /\ tabLeases' = [tabLeases EXCEPT ![t] = n] /\ ask' = [ask EXCEPT ![a].lease = n, ![a].place = 1]
          /\ IF locks THEN webLockMode(Append(Without(l), Lease(t, TRUE)), n) ELSE electionAttempt(Append(Without(l), Lease(t, TRUE)), n)
      BY <1>4 DEF reacquire, Without
    <2>2. Makes(Without(l), t, TRUE)
      BY <1>2, <1>3, <2>1, MakesALease
    <2>3. Gains(Without(l), t, n)
      BY <1>2, <2>2, MakeGains
    <2>4. lease'[n].joined = 1
      BY <2>2 DEF Makes
    <2> QED
      BY <1>1, <1>2, <2>1, <2>2, <2>3, <2>4
  <1>5. CASE tabLeases[t] \notin {0, l}
    <2> DEFINE k == tabLeases[t]
    <2>1. k \in DOMAIN lease /\ k \in Nat /\ k # l /\ lease[k].tab = t
      BY <1>2, <1>5, Members DEF LineInv, Lent
    <2>2. /\ ask' = [ask EXCEPT ![a].lease = k, ![a].place = lease[k].joined + 1]
          /\ lease' = [Without(l) EXCEPT ![k].consumers = @ + 1, ![k].joined = @ + 1] /\ UNCHANGED <<tabLeases, messages, queue>>
      BY <1>5 DEF reacquire, Without
    <2> HIDE DEF k
    <2>3. Joined(k, Without(l))
      BY <1>3, <2>1, <2>2, JoinsALease
    <2>4. Gains(Without(l), t, k)
      BY <1>2, <1>3, <2>1, <2>2, <2>3, JoinGains DEF k
    <2>5. lease'[k].joined = lease[k].joined + 1
      BY <1>3, <2>1, <2>4 DEF Gains
    <2> QED
      BY <1>1, <1>2, <2>1, <2>2, <2>3, <2>4, <2>5 DEF k
  <1> QED
    BY <1>4, <1>5

\* A lease whose mode, claim and channel alone change keeps its line.
LEMMA ModeKeepsLine ==
    ASSUME Typed, NEW l \in DOMAIN lease, UNCHANGED <<ask, tabLeases>>, DOMAIN lease' = DOMAIN lease,
           \A k \in DOMAIN lease : k # l => lease'[k] = lease[k],
           lease'[l].tab = lease[l].tab, lease'[l].consumers = lease[l].consumers, lease'[l].joined = lease[l].joined,
           lease[l].mode = "exclusive" => lease'[l].mode = "exclusive"
    PROVE  KeepsLine
  BY DEF KeepsLine

LEMMA LineStep ==
    ASSUME Typed, LineInv, OneMechanism, [Next]_vars
    PROVE  LineInv'
  <1>0. CASE UNCHANGED vars
    <2>1. KeepsLine
      BY <1>0 DEF vars, KeepsLine
    <2> QED
      BY <2>1, LineKept
  <1>1. ASSUME NEW t \in Tab, closeTab(t) PROVE LineInv'
    BY <1>1, ClosesATab, LineClosed
  <1>2. ASSUME NEW t \in Tab, NEW wait \in BOOLEAN, acquireLease(t, wait) PROVE LineInv'
    <2>1. PICK k \in Nat : Gains(lease, t, k) /\ ask' = Append(ask, Ask(k, lease'[k].joined, wait))
      BY <1>2, Acquires
    <2> QED
      BY <2>1, LineEntered
  <1>3. ASSUME NEW l \in DOMAIN lease, claimWindow(l) PROVE LineInv'
    <2>1. lease' = [lease EXCEPT ![l].mode = "exclusive"] /\ UNCHANGED <<ask, tabLeases>> /\ lease[l] \in LeaseRecord
      BY <1>3, Members DEF claimWindow
    <2>2. KeepsLine
      BY <2>1, ModeKeepsLine DEF LeaseRecord
    <2> QED
      BY <2>2, LineKept
  <1>4. ASSUME NEW l \in DOMAIN lease, electedMode(l) PROVE LineInv'
    <2>0. lease[l].mode = "lost" /\ UNCHANGED <<tabLeases, ask>> /\ lease[l] \in LeaseRecord /\ lease \in Seq(LeaseRecord)
      BY <1>4, Members DEF electedMode, Typed
    <2>1. CASE electionAttempt(lease, l)
      <3>1. StartsAs(lease, l)
        BY <2>0, <2>1, StartsToAsk
      <3>2. KeepsLine
        BY <2>0, <3>1, ModeKeepsLine DEF StartsAs
      <3> QED
        BY <3>2, LineKept
    <2>2. CASE lease' = [lease EXCEPT ![l].mode = "failed"]
      <3>1. KeepsLine
        BY <2>0, <2>2, ModeKeepsLine DEF LeaseRecord
      <3> QED
        BY <3>1, LineKept
    <2> QED
      BY <1>4, <2>1, <2>2 DEF electedMode
  <1>5. ASSUME NEW m \in messages, onmessage(m) PROVE LineInv'
    <2>1. m.to \in DOMAIN lease /\ lease[m.to] \in LeaseRecord
      BY Members
    <2>2. UNCHANGED <<tabLeases, ask>>
      BY <1>5 DEF onmessage
    <2>3. \/ lease' = lease
          \/ lease[m.to].mode = "asking" /\ \E mode \in {"lost", "readonly"} : lease' = [lease EXCEPT ![m.to].mode = mode, ![m.to].channel = FALSE]
      BY <1>5 DEF onmessage
    <2>4. CASE lease' = lease
      <3>1. KeepsLine
        BY <2>2, <2>4 DEF KeepsLine
      <3> QED
        BY <3>1, LineKept
    <2>5. CASE lease[m.to].mode = "asking" /\ \E mode \in {"lost", "readonly"} : lease' = [lease EXCEPT ![m.to].mode = mode, ![m.to].channel = FALSE]
      <3>1. PICK mode \in {"lost", "readonly"} : lease' = [lease EXCEPT ![m.to].mode = mode, ![m.to].channel = FALSE]
        BY <2>5
      <3> DEFINE l == m.to
      <3>2. lease'[l].tab = lease[l].tab /\ lease'[l].consumers = lease[l].consumers /\ lease'[l].joined = lease[l].joined
        BY <2>1, <3>1 DEF LeaseRecord
      <3>3. DOMAIN lease' = DOMAIN lease /\ \A k \in DOMAIN lease : k # l => lease'[k] = lease[k]
        BY <3>1
      <3>4. KeepsLine
        BY <2>1, <2>2, <2>5, <3>2, <3>3, ModeKeepsLine
      <3> QED
        BY <3>4, LineKept
    <2> QED
      BY <2>3, <2>4, <2>5
  <1>6. ASSUME NEW a \in DOMAIN ask, turn(a) PROVE LineInv'
    <2>0. ask[a].at = "asked" /\ ask[a].lease \in DOMAIN lease
      BY <1>6, Members DEF turn
    <2>1. CASE /\ lease[ask[a].lease].mode = "exclusive" /\ predecessors(a)
               /\ ask' = [ask EXCEPT ![a].at = "writes"] /\ UNCHANGED <<lease, tabLeases>>
      BY <2>0, <2>1, LineTurn
    <2>2. CASE ask' = [ask EXCEPT ![a].at = "reads"] /\ UNCHANGED <<lease, tabLeases>>
      BY <2>0, <2>2, LineTurn
    <2>3. CASE ask' = [ask EXCEPT ![a].at = "failed"] /\ releaseConsumer(ask[a].lease)
      <3>1. Releases(ask[a].lease)
        BY <2>0, <2>3, ReleaseEffect
      <3> QED
        BY <2>0, <2>3, <3>1, LineLeft
    <2> QED
      BY <1>6, <2>1, <2>2, <2>3 DEF turn
  <1>7. ASSUME NEW a \in DOMAIN ask, reacquire(a) PROVE LineInv'
    <2> DEFINE l == ask[a].lease
               t == lease[l].tab
    <2>1. /\ ask[a].at = "asked" /\ t \in Tab
          /\ \E k \in Nat : k # l /\ Gains(Without(l), t, k) /\ ask' = [ask EXCEPT ![a].lease = k, ![a].place = lease'[k].joined]
      BY <1>7, Reacquires
    <2>2. PICK k \in Nat : k # l /\ Gains(Without(l), t, k) /\ ask' = [ask EXCEPT ![a].lease = k, ![a].place = lease'[k].joined]
      BY <2>1
    <2> QED
      BY <2>1, <2>2, LineMoved
  <1>8. ASSUME NEW a \in DOMAIN ask, release(a) PROVE LineInv'
    <2>1. ask' = [ask EXCEPT ![a].at = "gone"] /\ releaseConsumer(ask[a].lease) /\ ask[a].at \in {"writes", "reads"}
          /\ ask[a].lease \in DOMAIN lease
      BY <1>8, Members DEF release
    <2>2. Releases(ask[a].lease)
      BY <2>1, ReleaseEffect
    <2> QED
      BY <2>1, <2>2, LineLeft
  <1>9. ASSUME lockGranted \/ aborted PROVE LineInv'
    <2>1. PICK l \in queue : \E mode \in {"exclusive", "failed"} : lease' = [lease EXCEPT ![l].mode = mode] /\ UNCHANGED <<tabLeases, ask>>
      BY <1>9 DEF lockGranted, aborted
    <2>2. PICK mode \in {"exclusive", "failed"} : lease' = [lease EXCEPT ![l].mode = mode]
      BY <2>1
    <2>3. l \in DOMAIN lease /\ lease[l].mode = "asking" /\ lease[l] \in LeaseRecord
      BY Members DEF Typed, OneMechanism
    <2>4. KeepsLine
      BY <2>1, <2>2, <2>3, ModeKeepsLine DEF LeaseRecord
    <2> QED
      BY <2>4, LineKept
  <1> QED
    BY <1>0, <1>1, <1>2, <1>3, <1>4, <1>5, <1>6, <1>7, <1>8, <1>9 DEF Next
-----------------------------------------------------------------------------
(* Who holds the graph.                                                    *)

LockInv == OneMechanism /\ Election /\ OneHolder

\* A step in which nobody gains a claim or the graph, and only messages to leases
\* that gave up are dropped.
NobodyGains ==
    /\ DOMAIN lease' = DOMAIN lease
    /\ \A l \in DOMAIN lease :
          /\ lease'[l].claim = lease[l].claim
          /\ Holds(l)' => Holds(l) /\ lease'[l].channel = lease[l].channel
          /\ Claiming(l)' => Claiming(l)
          /\ lease'[l].mode = "lost" => lease[l].mode = "lost"
    /\ messages' \subseteq messages /\ \A m \in messages \ messages' : ~Holds(m.to)' /\ ~Claiming(m.to)' /\ m.to \in DOMAIN lease
    /\ queue' \subseteq queue /\ \A l \in queue' : lease'[l].mode = lease[l].mode
LEMMA LockKept ==
    ASSUME Typed, Typed', LockInv, NobodyGains, locks' = locks
    PROVE  LockInv'
  <1>1. OneMechanism'
    BY DEF LockInv, OneMechanism, NobodyGains
  <1>2. OneHolder'
    BY DEF LockInv, OneHolder, NobodyGains
  <1>3. ASSUME ~locks, NEW l \in DOMAIN lease, NEW k \in DOMAIN lease, l # k, Claiming(k)', Objects(l, k)'
        PROVE  Objection(l, k)'
    <2>1. Claiming(k) /\ Objects(l, k)
      BY <1>3 DEF NobodyGains, Objects
    <2>2. Objection(l, k)
      BY <1>3, <2>1 DEF LockInv, Election
    <2>3. Holds(l)' \/ Claiming(l)'
      BY <1>3 DEF Objects
    <2>4. Holds(l)' => ~Claiming(l)
      BY DEF NobodyGains, Holds, Claiming
    <2>5. \A type, c : Post(l, k, type, c) \in messages => Post(l, k, type, c) \in messages'
      BY <2>3 DEF NobodyGains, Post
    <2>6. \A type, c : Post(k, l, type, c) \in messages => Post(k, l, type, c) \in messages'
      BY <1>3 DEF NobodyGains, Post
    <2>7. lease'[l].claim = lease[l].claim /\ lease'[k].claim = lease[k].claim
      BY DEF NobodyGains
    <2> QED
      BY <2>2, <2>3, <2>4, <2>5, <2>6, <2>7 DEF Objection
  <1>4. Election'
    BY <1>3 DEF LockInv, Election, NobodyGains
  <1> QED
    BY <1>1, <1>2, <1>4 DEF LockInv

\* With the browser's locks: somebody gets the graph only when nobody has it.
LEMMA LockGained ==
    ASSUME LockInv, locks, locks' = locks, NEW n,
           messages' = messages, DOMAIN lease \subseteq DOMAIN lease', DOMAIN lease' \subseteq DOMAIN lease \cup {n},
           \A l \in DOMAIN lease : l # n => lease'[l].mode = lease[l].mode /\ (Holds(l)' => Holds(l)),
           lease'[n].mode # "lost",
           n \in DOMAIN lease' /\ Holds(n)' => Lock = {},
           queue' \subseteq queue \cup {n}, queue \subseteq DOMAIN lease, n \in queue' => lease'[n].mode = "asking"
    PROVE  LockInv'
  <1>1. OneMechanism'
    BY DEF LockInv, OneMechanism
  <1>2. OneHolder'
    <2>1. \A l \in DOMAIN lease : Holds(l) => l \in Lock
      BY DEF Lock
    <2> QED
      BY <2>1 DEF LockInv, OneHolder
  <1>3. Election'
    BY DEF Election
  <1> QED
    BY <1>1, <1>2, <1>3 DEF LockInv

\* Without them: a claim is announced to everyone who would object to it, and to
\* everyone it is an objection to.
LEMMA ClaimAnnounced ==
    ASSUME Typed, LockInv, ~locks, locks' = locks,
           NEW n, NEW ls, NEW c \in Claims \ usedClaims,
           DOMAIN lease \subseteq DOMAIN ls, DOMAIN ls \subseteq DOMAIN lease \cup {n}, n \in DOMAIN ls,
           \A l \in DOMAIN lease : l # n =>
               /\ ls[l].mode = lease[l].mode /\ ls[l].claim = lease[l].claim /\ ls[l].channel = lease[l].channel
               /\ ls[l].consumers > 0 => lease[l].consumers > 0 \/ ls[l].mode # "exclusive",
           DOMAIN lease' = DOMAIN ls, \A l \in DOMAIN ls : l # n => lease'[l] = ls[l],
           lease'[n].mode = "asking", lease'[n].claim = c, lease'[n].channel,
           messages' = messages \cup Posts(ls, n, "claim", c), queue' = queue
    PROVE  LockInv'
  <1>1. \A l \in DOMAIN lease : l # n => /\ Holds(l)' => Holds(l)
                                         /\ Claiming(l)' <=> Claiming(l)
                                         /\ lease'[l].claim = lease[l].claim /\ lease'[l].channel = lease[l].channel
    BY DEF Holds, Claiming
  <1>2. ~Holds(n)' /\ Claiming(n)'
    BY DEF Holds, Claiming
  <1>3. \A l \in DOMAIN lease' : l = n \/ l \in DOMAIN lease
    OBVIOUS
  <1>4. OneMechanism'
    BY DEF LockInv, OneMechanism
  <1>5. OneHolder'
    BY <1>1, <1>2, <1>3 DEF LockInv, OneHolder
  <1>6. \A l \in DOMAIN lease : lease[l].claim # c
    BY DEF usedClaims
  <1>7. \A l \in DOMAIN lease' : l # n /\ lease'[l].channel => Post(l, n, "claim", c) \in messages'
    BY DEF Posts, Listeners, Post
  <1>8. ASSUME NEW l \in DOMAIN lease', NEW k \in DOMAIN lease', l # k, Claiming(k)', Objects(l, k)'
        PROVE  Objection(l, k)'
    <2>1. CASE k = n
      <3>1. l \in DOMAIN lease /\ lease'[l].channel
        BY <1>1, <1>3, <1>8, <2>1 DEF Objects, Claiming, LockInv, Election
      <3> QED
        BY <1>7, <1>8, <2>1, <3>1 DEF Objection
    <2>2. CASE l = n
      <3>1. Post(k, l, "claim", lease'[l].claim) \in messages'
        BY <1>7, <1>8, <2>2 DEF Claiming
      <3> QED
        BY <1>2, <2>2, <3>1 DEF Objection
    <2>3. CASE l # n /\ k # n
      <3>1. l \in DOMAIN lease /\ k \in DOMAIN lease /\ Claiming(k) /\ Objects(l, k)
        BY <1>1, <1>3, <1>8, <2>3 DEF Objects
      <3>2. Objection(l, k)
        BY <1>8, <3>1 DEF LockInv, Election
      <3> QED
        BY <1>1, <2>3, <3>1, <3>2 DEF Objection
    <2> QED
      BY <2>1, <2>2, <2>3
  <1>9. Election'
    <2>1. \A l \in DOMAIN lease' : Holds(l)' => lease'[l].channel
      BY <1>1, <1>2, <1>3 DEF LockInv, Election
    <2>2. \A l, k \in DOMAIN lease' : l # k => lease'[l].claim # lease'[k].claim
      BY <1>1, <1>3, <1>6 DEF LockInv, Election
    <2> QED
      BY <1>8, <2>1, <2>2 DEF Election
  <1> QED
    BY <1>4, <1>5, <1>9 DEF LockInv

\* A claim whose window ends unanswered has no holder and no smaller claim beside it.
LEMMA WindowEnds ==
    ASSUME Typed, LockInv, NEW x \in DOMAIN lease, claimWindow(x), locks' = locks
    PROVE  LockInv'
  <1>1. /\ ~locks /\ Claiming(x) /\ answered(x) /\ lease' = [lease EXCEPT ![x].mode = "exclusive"]
        /\ messages' = messages /\ queue' = queue /\ lease[x] \in LeaseRecord
    BY Members DEF claimWindow, Claiming
  <1>2. /\ DOMAIN lease' = DOMAIN lease /\ \A l \in DOMAIN lease : l # x => lease'[l] = lease[l]
        /\ lease'[x].claim = lease[x].claim /\ lease'[x].channel /\ lease'[x].mode = "exclusive"
    BY <1>1 DEF LeaseRecord, Claiming
  <1>3. \A l \in DOMAIN lease : l # x => (Holds(l)' <=> Holds(l)) /\ (Claiming(l)' <=> Claiming(l))
    BY <1>2 DEF Holds, Claiming
  <1>4. ~Claiming(x)' /\ ~Holds(x)
    BY <1>1, <1>2 DEF Claiming, Holds
  <1>5. \A k, c : Post(k, x, "claim", c) \notin messages /\ Post(x, k, "held", c) \notin messages
    BY <1>1 DEF answered, Post
  <1>6. ASSUME NEW h \in DOMAIN lease, h # x PROVE ~Holds(h)
    <2> SUFFICES ASSUME Holds(h) PROVE FALSE
      OBVIOUS
    <2>1. Objection(h, x) /\ ~Claiming(h)
      BY <1>1, <1>6 DEF LockInv, Election, Objects, Holds, Claiming
    <2> QED
      BY <1>5, <2>1 DEF Objection
  <1>7. OneMechanism'
    BY <1>1, <1>2 DEF LockInv, OneMechanism
  <1>8. OneHolder'
    BY <1>2, <1>3, <1>6 DEF OneHolder
  <1>9. ASSUME NEW l \in DOMAIN lease, NEW k \in DOMAIN lease, l # k, Claiming(k)', Objects(l, k)'
        PROVE  Objection(l, k)'
    <2>1. k # x /\ Claiming(k)
      BY <1>3, <1>4, <1>9
    <2>2. CASE l # x
      <3>1. Objects(l, k)
        BY <1>2, <1>3, <1>9, <2>1, <2>2 DEF Objects
      <3>2. Objection(l, k)
        BY <1>1, <1>9, <2>1, <3>1 DEF LockInv, Election
      <3> QED
        BY <1>1, <1>2, <1>3, <2>1, <2>2, <3>2 DEF Objection
    <2>3. CASE l = x /\ lease[x].claim < lease[k].claim
      <3>1. Objection(x, k)
        BY <1>1, <1>9, <2>1, <2>3 DEF LockInv, Election, Objects
      <3> QED
        BY <1>1, <1>2, <1>5, <2>1, <2>3, <3>1 DEF Objection
    <2>4. CASE l = x /\ ~(lease[x].claim < lease[k].claim)
      <3>1. lease[k].claim < lease[x].claim
        <4>1. lease[k].claim # lease[x].claim
          BY <1>1, <2>1 DEF LockInv, Election
        <4>2. lease[k].claim \in Nat /\ lease[x].claim \in Nat
          BY Members DEF LeaseRecord
        <4> QED
          BY <2>4, <4>1, <4>2
      <3>2. Objection(k, x)
        BY <1>1, <2>1, <3>1 DEF LockInv, Election, Objects
      <3>3. Post(x, k, "claim", lease[k].claim) \in messages
        BY <1>5, <3>2 DEF Objection
      <3> QED
        BY <1>1, <1>2, <2>1, <2>4, <3>3 DEF Objection
    <2> QED
      BY <2>2, <2>3, <2>4
  <1>10. Election'
    <2>1. \A l \in DOMAIN lease' : Holds(l)' => lease'[l].channel
      BY <1>1, <1>2, <1>3 DEF LockInv, Election
    <2>2. \A l, k \in DOMAIN lease' : l # k => lease'[l].claim # lease'[k].claim
      BY <1>1, <1>2 DEF LockInv, Election
    <2> QED
      BY <1>2, <1>9, <2>1, <2>2 DEF Election
  <1> QED
    BY <1>7, <1>8, <1>10 DEF LockInv

\* A message is answered, or obeyed, or neither its sender nor its receiver objects.
LEMMA MessageTaken ==
    ASSUME Typed, LockInv, NEW m \in messages, onmessage(m), locks' = locks
    PROVE  LockInv'
  <1> DEFINE x == m.to
             answers == m.type = "claim" /\ (Holds(x) \/ m.claim > lease[x].claim)
  <1>1. x \in DOMAIN lease /\ lease[x] \in LeaseRecord /\ m \in Message /\ ~locks
    BY Members DEF LockInv, OneMechanism
  <1>2. m = Post(x, m.from, m.type, m.claim)
    BY <1>1 DEF Message, Post
  <1>3. /\ messages' = (messages \ {m}) \cup (IF lease[x].channel /\ answers THEN {Post(m.from, x, "held", m.claim)} ELSE {})
        /\ queue' = queue
        /\ lease' = IF Claiming(x) /\ ~answers /\ yields(x, m)
                    THEN [lease EXCEPT ![x].mode = IF lease[x].wait THEN "lost" ELSE "readonly", ![x].channel = FALSE]
                    ELSE lease
    BY DEF onmessage, Claiming, Post
  <1>4. /\ DOMAIN lease' = DOMAIN lease /\ \A l \in DOMAIN lease : l # x => lease'[l] = lease[l]
        /\ lease'[x].claim = lease[x].claim
        /\ lease' = lease \/ (Claiming(x) /\ lease'[x].mode \in {"lost", "readonly"})
    BY <1>1, <1>3 DEF LeaseRecord
  <1>5. Claiming(x) /\ ~answers /\ yields(x, m) => ~Claiming(x)'
    <2> SUFFICES ASSUME Claiming(x), ~answers, yields(x, m) PROVE ~Claiming(x)'
      OBVIOUS
    <2>1. lease' = [lease EXCEPT ![x].mode = IF lease[x].wait THEN "lost" ELSE "readonly", ![x].channel = FALSE]
      BY <1>3
    <2>2. lease'[x].mode # "asking"
      BY <1>1, <2>1 DEF LeaseRecord
    <2> QED
      BY <2>2 DEF Claiming
  <1>6. \A l \in DOMAIN lease : (Holds(l)' => Holds(l) /\ lease'[l] = lease[l]) /\ (Claiming(l)' => Claiming(l))
    BY <1>4 DEF Holds, Claiming
  <1>7. OneMechanism'
    <2>1. ~locks' /\ queue' = {}
      BY <1>1, <1>3 DEF LockInv, OneMechanism
    <2> QED
      BY <2>1 DEF OneMechanism
  <1>8. OneHolder'
    BY <1>4, <1>6 DEF LockInv, OneHolder
  <1>9. ASSUME NEW l \in DOMAIN lease, NEW k \in DOMAIN lease, l # k, Claiming(k)', Objects(l, k)'
        PROVE  Objection(l, k)'
    <2>0. Claiming(k) /\ Objects(l, k) /\ (Holds(l) => Holds(l)') /\ (Claiming(l)' \/ Holds(l)')
      BY <1>4, <1>6, <1>9 DEF Objects, Holds, Claiming
    <2>1. Objection(l, k)
      BY <1>1, <1>9, <2>0 DEF LockInv, Election
    <2>2. lease'[l].claim = lease[l].claim /\ lease'[k].claim = lease[k].claim
      BY <1>4
    <2>3. lease[l].claim \in Nat /\ lease[k].claim \in Nat
      BY Members DEF LeaseRecord
    <2>4. Holds(l) => ~Claiming(l)
      BY DEF Holds, Claiming
    <2>5. CASE m = Post(l, k, "claim", lease[k].claim)
      <3>1. x = l /\ m.from = k /\ m.type = "claim" /\ m.claim = lease[k].claim
        BY <2>5 DEF Post
      <3>2. lease[l].channel
        BY <1>1, <2>0 DEF Objects, Claiming, LockInv, Election
      <3>3. answers
        BY <2>0, <2>3, <3>1 DEF Objects
      <3>4. Post(k, l, "held", lease[k].claim) \in messages'
        BY <1>3, <3>1, <3>2, <3>3
      <3> QED
        BY <2>2, <3>4 DEF Objection
    <2>6. CASE m = Post(k, l, "held", lease[k].claim)
      <3>1. x = k /\ m.type = "held" /\ m.claim = lease[k].claim
        BY <2>6 DEF Post
      <3>2. ~answers /\ yields(k, m)
        BY <3>1 DEF yields
      <3> QED
        BY <1>5, <1>9, <2>0, <3>1, <3>2
    <2>7. CASE Claiming(l) /\ m = Post(k, l, "claim", lease[l].claim)
      <3>1. x = k /\ m.type = "claim" /\ m.claim = lease[l].claim
        BY <2>7 DEF Post
      <3>2. lease[l].claim < lease[k].claim /\ ~Holds(k)
        BY <2>0, <2>4, <2>7 DEF Objects, Holds, Claiming
      <3>3. ~answers /\ yields(k, m)
        BY <2>3, <3>1, <3>2 DEF yields
      <3> QED
        BY <1>5, <1>9, <2>0, <3>1, <3>3
    <2>8. CASE /\ m # Post(l, k, "claim", lease[k].claim) /\ m # Post(k, l, "held", lease[k].claim)
               /\ ~(Claiming(l) /\ m = Post(k, l, "claim", lease[l].claim))
      <3>1. \A p \in messages : p # m => p \in messages'
        BY <1>3
      <3>2. Claiming(l) => Claiming(l)'
        BY <2>0, <2>4, <1>6
      <3> QED
        BY <2>1, <2>2, <2>8, <3>1, <3>2 DEF Objection
    <2> QED
      BY <2>5, <2>6, <2>7, <2>8
  <1>10. Election'
    <2>1. \A l \in DOMAIN lease' : Holds(l)' => lease'[l].channel
      BY <1>1, <1>4, <1>6 DEF LockInv, Election
    <2>2. \A l, k \in DOMAIN lease' : l # k => lease'[l].claim # lease'[k].claim
      BY <1>1, <1>4 DEF LockInv, Election
    <2> QED
      BY <1>4, <1>9, <2>1, <2>2 DEF Election
  <1> QED
    BY <1>7, <1>8, <1>10 DEF LockInv

\* A lease that starts to ask: for the browser's lock, or with a claim.
LEMMA AskingStarts ==
    ASSUME Typed, LockInv, locks' = locks, NEW ls \in Seq(LeaseRecord), NEW n \in DOMAIN ls,
           DOMAIN lease \subseteq DOMAIN ls, DOMAIN ls \subseteq DOMAIN lease \cup {n},
           \A l \in DOMAIN lease : l # n =>
               /\ ls[l].mode = lease[l].mode /\ ls[l].claim = lease[l].claim /\ ls[l].channel = lease[l].channel
               /\ ls[l].consumers > 0 => lease[l].consumers > 0 \/ ls[l].mode # "exclusive",
           locks => n \notin DOMAIN lease /\ ls[n].mode = "asking",
           IF locks THEN webLockMode(ls, n) ELSE electionAttempt(ls, n)
    PROVE  LockInv'
  <1>0. ls[n] \in LeaseRecord
    OBVIOUS
  <1>1. CASE locks
    <2>1. /\ messages' = messages /\ DOMAIN lease' = DOMAIN ls /\ \A l \in DOMAIN ls : l # n => lease'[l] = ls[l]
          /\ queue' \subseteq queue \cup {n}
          /\ \/ lease'[n].mode = "exclusive" /\ Lock = {} /\ queue = {} /\ queue' = queue
             \/ lease'[n].mode = "asking"
             \/ lease'[n].mode = "readonly" /\ queue' = queue /\ Lock # {}
             \/ lease'[n].mode = "readonly" /\ queue' = queue
      BY <1>0, <1>1 DEF webLockMode, LeaseRecord
    <2>2. \A l \in DOMAIN lease : l # n => lease'[l].mode = lease[l].mode /\ (Holds(l)' => Holds(l))
      BY <2>1 DEF Holds
    <2>3. lease'[n].mode # "lost" /\ (Holds(n)' => Lock = {})
      BY <2>1 DEF Holds
    <2>4. n \in queue' => lease'[n].mode = "asking"
      <3>1. n \notin queue
        BY <1>1 DEF Typed
      <3> QED
        BY <2>1, <3>1
    <2> QED
      BY <1>1, <2>1, <2>2, <2>3, <2>4, LockGained DEF Typed
  <1>2. CASE ~locks
    <2>1. PICK c \in Claims \ usedClaims :
            /\ lease' = [ls EXCEPT ![n].mode = "asking", ![n].claim = c, ![n].channel = TRUE]
            /\ messages' = messages \cup Posts(ls, n, "claim", c) /\ queue' = queue
      BY <1>2 DEF electionAttempt
    <2>2. DOMAIN lease' = DOMAIN ls /\ \A l \in DOMAIN ls : l # n => lease'[l] = ls[l]
      BY <2>1
    <2>3. lease'[n].mode = "asking" /\ lease'[n].claim = c /\ lease'[n].channel
      BY <1>0, <2>1 DEF LeaseRecord
    <2> QED
      BY <1>2, <2>1, <2>2, <2>3, ClaimAnnounced
  <1> QED
    BY <1>1, <1>2

\* An acquisition that finds no lease makes one and starts it.
LEMMA MakesAsks ==
    ASSUME Typed, LockInv, locks' = locks, NEW t \in Tab, NEW wait \in BOOLEAN, NEW ls \in Seq(LeaseRecord),
           DOMAIN ls = DOMAIN lease, Len(ls) = Len(lease),
           \A l \in DOMAIN lease :
               /\ ls[l].mode = lease[l].mode /\ ls[l].claim = lease[l].claim /\ ls[l].channel = lease[l].channel
               /\ ls[l].consumers > 0 => lease[l].consumers > 0 \/ ls[l].mode # "exclusive",
           IF locks THEN webLockMode(Append(ls, Lease(t, wait)), Len(lease) + 1)
                    ELSE electionAttempt(Append(ls, Lease(t, wait)), Len(lease) + 1)
    PROVE  LockInv'
  <1> DEFINE longer == Append(ls, Lease(t, wait))
             n == Len(lease) + 1
  <1>1. Lease(t, wait) \in LeaseRecord
    BY DEF Lease, LeaseRecord
  <1>2. /\ longer \in Seq(LeaseRecord) /\ DOMAIN longer = DOMAIN lease \cup {n} /\ n \notin DOMAIN lease
        /\ longer[n] = Lease(t, wait) /\ \A l \in DOMAIN lease : longer[l] = ls[l]
    BY <1>1, Added
  <1>3. longer[n].mode = "asking"
    BY <1>2 DEF Lease
  <1>4. IF locks THEN webLockMode(longer, n) ELSE electionAttempt(longer, n)
    OBVIOUS
  <1> HIDE DEF longer, n
  <1>5. n \in DOMAIN longer /\ DOMAIN lease \subseteq DOMAIN longer /\ DOMAIN longer \subseteq DOMAIN lease \cup {n}
    BY <1>2
  <1>6. \A l \in DOMAIN lease : l # n =>
           /\ longer[l].mode = lease[l].mode /\ longer[l].claim = lease[l].claim /\ longer[l].channel = lease[l].channel
           /\ longer[l].consumers > 0 => lease[l].consumers > 0 \/ longer[l].mode # "exclusive"
    BY <1>2
  <1> QED
    BY <1>2, <1>3, <1>4, <1>5, <1>6, AskingStarts

\* Joining a lease that is in use gives nobody the graph.
LEMMA JoinGainsNothing ==
    ASSUME Typed, LockInv, NEW k \in DOMAIN lease, NEW ls \in Seq(LeaseRecord), DOMAIN ls = DOMAIN lease,
           lease[k].consumers > 0, ls[k] = lease[k],
           \A l \in DOMAIN lease : /\ ls[l].mode = lease[l].mode /\ ls[l].claim = lease[l].claim /\ ls[l].channel = lease[l].channel
                                   /\ ls[l].consumers > 0 => lease[l].consumers > 0 \/ ls[l].mode # "exclusive",
           Joined(k, ls), UNCHANGED <<messages, queue>>
    PROVE  NobodyGains
  <1>1. ls[k] \in LeaseRecord
    OBVIOUS
  <1>2. lease'[k].mode = lease[k].mode /\ lease'[k].claim = lease[k].claim /\ lease'[k].channel = lease[k].channel
    BY <1>1 DEF Joined, LeaseRecord
  <1>3. \A l \in DOMAIN lease : lease'[l].mode = lease[l].mode /\ lease'[l].claim = lease[l].claim /\ lease'[l].channel = lease[l].channel
    BY <1>2 DEF Joined
  <1>4. \A l \in DOMAIN lease : Holds(l)' => Holds(l)
    BY <1>3 DEF Joined, Holds
  <1>5. \A l \in DOMAIN lease : Claiming(l)' => Claiming(l)
    BY <1>3 DEF Claiming
  <1> QED
    BY <1>3, <1>4, <1>5 DEF NobodyGains, Joined, Typed

\* So does a consumer that leaves.
LEMMA ReleaseGainsNothing ==
    ASSUME Typed, LockInv, NEW l \in DOMAIN lease, Releases(l), UNCHANGED <<messages, queue>>,
           lease[l].consumers = Cardinality(Users(l)), Users(l) # {}
    PROVE  NobodyGains
  <1>1. lease[l] \in LeaseRecord
    BY Members
  <1>2. /\ lease'[l].mode = lease[l].mode /\ lease'[l].claim = lease[l].claim /\ lease'[l].consumers = lease[l].consumers - 1
        /\ lease'[l].channel = (lease[l].channel /\ lease[l].consumers # 1)
    BY <1>1 DEF Releases, LeaseRecord
  <1>3. lease[l].consumers \in Nat /\ lease[l].consumers > 0 /\ lease[l].channel \in BOOLEAN
    <2>1. Cardinality(Users(l)) \in Nat /\ Cardinality(Users(l)) # 0
      BY UsersFinite, FS_CardinalityType, FS_EmptySet
    <2> QED
      BY <1>1, <2>1 DEF LeaseRecord
  <1>4. Holds(l)' => Holds(l) /\ lease'[l].channel = lease[l].channel
    BY <1>2, <1>3 DEF Holds
  <1>5. Claiming(l)' => Claiming(l)
    BY <1>2 DEF Claiming
  <1>6. \A k \in DOMAIN lease : k # l => lease'[k] = lease[k]
    BY DEF Releases
  <1> QED
    BY <1>2, <1>4, <1>5, <1>6 DEF NobodyGains, Releases, Holds, Claiming, Typed

\* Each step keeps at most one holder.
LEMMA LockStep ==
    ASSUME Typed, Typed', LineInv, LockInv, [Next]_vars
    PROVE  LockInv'
  <1>m. /\ \A l \in DOMAIN lease : lease[l] \in LeaseRecord
        /\ \A a \in DOMAIN ask : ask[a].lease \in DOMAIN lease
        /\ \A m \in messages : m.to \in DOMAIN lease
        /\ \A t \in Tab : tabLeases[t] # 0 => tabLeases[t] \in DOMAIN lease
        /\ lease \in Seq(LeaseRecord) /\ queue \subseteq DOMAIN lease
    BY Members DEF Typed
  <1>0. CASE UNCHANGED vars
    <2>1. NobodyGains /\ locks' = locks
      BY <1>0 DEF vars, NobodyGains, Holds, Claiming
    <2> QED
      BY <2>1, LockKept
  <1>1. ASSUME NEW t \in Tab, closeTab(t), locks' = locks PROVE LockInv'
    <2>1. Closed(t)
      BY <1>1, ClosesATab
    <2>2. NobodyGains
      BY <1>m, <2>1 DEF Closed, NobodyGains, Holds, Claiming
    <2> QED
      BY <1>1, <2>2, LockKept
  <1>2. ASSUME NEW t \in Tab, NEW wait \in BOOLEAN, acquireLease(t, wait), locks' = locks PROVE LockInv'
    <2>1. CASE tabLeases[t] = 0
      <3>1. IF locks THEN webLockMode(Append(lease, Lease(t, wait)), Len(lease) + 1)
                     ELSE electionAttempt(Append(lease, Lease(t, wait)), Len(lease) + 1)
        BY <1>2, <2>1 DEF acquireLease, Joins, createTabLease
      <3> QED
        BY <1>m, <1>2, <3>1, MakesAsks
    <2>2. CASE tabLeases[t] # 0
      <3> DEFINE k == tabLeases[t]
      <3>1. k \in DOMAIN lease /\ lease[k].consumers > 0
        BY <1>m, <2>2 DEF LineInv, Lent
      <3>2. lease' = [lease EXCEPT ![k].consumers = @ + 1, ![k].joined = @ + 1] /\ UNCHANGED <<tabLeases, messages, queue>>
        BY <1>2, <2>2 DEF acquireLease, Joins
      <3> HIDE DEF k
      <3>3. Joined(k, lease)
        BY <1>m, <3>1, <3>2, JoinsALease
      <3>4. NobodyGains
        BY <1>m, <3>1, <3>2, <3>3, JoinGainsNothing
      <3> QED
        BY <1>2, <3>4, LockKept
    <2> QED
      BY <2>1, <2>2
  <1>3. ASSUME NEW l \in DOMAIN lease, claimWindow(l), locks' = locks PROVE LockInv'
    BY <1>3, WindowEnds
  <1>4. ASSUME NEW l \in DOMAIN lease, electedMode(l), locks' = locks PROVE LockInv'
    <2>1. lease[l].mode = "lost" /\ ~locks
      BY <1>4 DEF electedMode, LockInv, OneMechanism
    <2>2. CASE electionAttempt(lease, l)
      BY <1>m, <1>4, <2>1, <2>2, AskingStarts
    <2>3. CASE lease' = [lease EXCEPT ![l].mode = "failed"] /\ UNCHANGED <<messages, queue>>
      <3>1. /\ lease'[l].mode = "failed" /\ lease'[l].claim = lease[l].claim
            /\ DOMAIN lease' = DOMAIN lease /\ \A k \in DOMAIN lease : k # l => lease'[k] = lease[k]
        BY <1>m, <2>3 DEF LeaseRecord
      <3>2. queue = {}
        BY <2>1 DEF LockInv, OneMechanism
      <3>3. NobodyGains
        BY <2>3, <3>1, <3>2 DEF NobodyGains, Holds, Claiming
      <3> QED
        BY <1>4, <3>3, LockKept
    <2> QED
      BY <1>4, <2>2, <2>3 DEF electedMode
  <1>5. ASSUME NEW m \in messages, onmessage(m), locks' = locks PROVE LockInv'
    BY <1>5, MessageTaken
  <1>6. ASSUME NEW a \in DOMAIN ask, ask[a].at \in {"asked", "writes", "reads"}, releaseConsumer(ask[a].lease),
               UNCHANGED <<messages, queue>>, locks' = locks
        PROVE LockInv'
    <2>1. ask[a].lease \in DOMAIN lease /\ a \in Users(ask[a].lease)
      BY <1>m, <1>6 DEF Users
    <2>2. Releases(ask[a].lease)
      BY <1>6, <2>1, ReleaseEffect
    <2>3. lease[ask[a].lease].consumers = Cardinality(Users(ask[a].lease))
      BY <2>1 DEF LineInv, Counted
    <2>4. NobodyGains
      BY <1>6, <2>1, <2>2, <2>3, ReleaseGainsNothing
    <2> QED
      BY <1>6, <2>4, LockKept
  <1>7. ASSUME NEW a \in DOMAIN ask, turn(a), locks' = locks PROVE LockInv'
    <2>1. CASE UNCHANGED <<lease, tabLeases>>
      <3>1. NobodyGains
        BY <1>7, <2>1 DEF turn, NobodyGains, Holds, Claiming
      <3> QED
        BY <1>7, <3>1, LockKept
    <2>2. CASE releaseConsumer(ask[a].lease)
      BY <1>6, <1>7, <2>2 DEF turn
    <2> QED
      BY <1>7, <2>1, <2>2 DEF turn
  <1>8. ASSUME NEW a \in DOMAIN ask, reacquire(a), locks' = locks PROVE LockInv'
    <2> DEFINE l == ask[a].lease
               t == lease[l].tab
    <2>1. l \in DOMAIN lease /\ lease[l].mode = "readonly" /\ t \in Tab
      BY <1>m, <1>8 DEF reacquire, LeaseRecord
    <2>2. /\ Without(l) \in Seq(LeaseRecord) /\ Len(Without(l)) = Len(lease) /\ DOMAIN Without(l) = DOMAIN lease
          /\ \A k \in DOMAIN lease : k # l => Without(l)[k] = lease[k]
          /\ Without(l)[l] = [lease[l] EXCEPT !.consumers = @ - 1]
      BY <2>1, WithoutOne
    <2>3. Without(l)[l].mode = lease[l].mode /\ Without(l)[l].claim = lease[l].claim /\ Without(l)[l].channel = lease[l].channel
      BY <1>m, <2>1, <2>2 DEF LeaseRecord
    <2>4. \A k \in DOMAIN lease :
             /\ Without(l)[k].mode = lease[k].mode /\ Without(l)[k].claim = lease[k].claim /\ Without(l)[k].channel = lease[k].channel
             /\ Without(l)[k].consumers > 0 => lease[k].consumers > 0 \/ Without(l)[k].mode # "exclusive"
      BY <2>1, <2>2, <2>3
    <2>5. CASE tabLeases[t] \in {0, l}
      <3>1. IF locks THEN webLockMode(Append(Without(l), Lease(t, TRUE)), Len(lease) + 1)
                     ELSE electionAttempt(Append(Without(l), Lease(t, TRUE)), Len(lease) + 1)
        BY <1>8, <2>5 DEF reacquire, Without
      <3> HIDE DEF l, t
      <3> QED
        BY <1>8, <2>1, <2>2, <2>4, <3>1, MakesAsks
    <2>6. CASE tabLeases[t] \notin {0, l}
      <3> DEFINE k == tabLeases[t]
      <3>1. k \in DOMAIN lease /\ lease[k].consumers > 0 /\ k # l
        BY <1>m, <2>1, <2>6 DEF LineInv, Lent
      <3>2. lease' = [Without(l) EXCEPT ![k].consumers = @ + 1, ![k].joined = @ + 1] /\ UNCHANGED <<tabLeases, messages, queue>>
        BY <1>8, <2>6 DEF reacquire, Without
      <3> HIDE DEF k, l
      <3>3. Joined(k, Without(l))
        BY <2>2, <3>1, <3>2, JoinsALease
      <3>4. NobodyGains
        BY <2>2, <2>4, <3>1, <3>2, <3>3, JoinGainsNothing
      <3> QED
        BY <1>8, <3>4, LockKept
    <2> QED
      BY <2>5, <2>6
  <1>9. ASSUME NEW a \in DOMAIN ask, release(a), locks' = locks PROVE LockInv'
    BY <1>6, <1>9 DEF release
  <1>10. ASSUME lockGranted, locks' = locks PROVE LockInv'
    <2>1. PICK l \in queue : /\ Lock = {} /\ queue' = queue \ {l}
                             /\ lease' = [lease EXCEPT ![l].mode = "exclusive"] /\ messages' = messages
      BY <1>10 DEF lockGranted
    <2>2. locks /\ l \in DOMAIN lease
      BY <1>m DEF LockInv, OneMechanism
    <2>3. /\ DOMAIN lease' = DOMAIN lease /\ \A k \in DOMAIN lease : k # l => lease'[k] = lease[k]
          /\ lease'[l].mode = "exclusive"
      BY <1>m, <2>1, <2>2 DEF LeaseRecord
    <2>4. \A k \in DOMAIN lease : k # l => lease'[k].mode = lease[k].mode /\ (Holds(k)' => Holds(k))
      BY <2>3 DEF Holds
    <2> QED
      BY <1>m, <1>10, <2>1, <2>2, <2>3, <2>4, LockGained
  <1>11. ASSUME aborted, locks' = locks PROVE LockInv'
    <2>1. PICK l \in queue : /\ lease' = [lease EXCEPT ![l].mode = "failed"]
                             /\ queue' = queue \ {l} /\ messages' = messages
      BY <1>11 DEF aborted
    <2>2. /\ DOMAIN lease' = DOMAIN lease /\ \A k \in DOMAIN lease : k # l => lease'[k] = lease[k]
          /\ lease'[l].mode = "failed" /\ lease'[l].claim = lease[l].claim
      BY <1>m, <2>1 DEF LeaseRecord
    <2>3. NobodyGains
      BY <1>m, <2>1, <2>2 DEF NobodyGains, Holds, Claiming
    <2> QED
      BY <1>11, <2>3, LockKept
  <1> QED
    BY <1>0, <1>1, <1>2, <1>3, <1>4, <1>5, <1>7, <1>8, <1>9, <1>10, <1>11 DEF Next
-----------------------------------------------------------------------------
(* The theorems.                                                           *)

\* The inductive invariant of the lease: typed, every consumer counted and in line,
\* and every claim that a holder or a smaller claim must stop about to be stopped.
LeaseInv == Typed /\ LineInv /\ LockInv

\* The invariant holds of every lease, whatever the tabs do and in whatever order the
\* browser grants locks and closes tabs.
THEOREM LeaseInvariant == Spec => []LeaseInv
  <1>1. Init => LeaseInv
    <2> SUFFICES ASSUME Init PROVE LeaseInv
      OBVIOUS
    <2>1. locks \in BOOLEAN /\ tabLeases = [t \in Tab |-> 0] /\ lease = <<>> /\ ask = <<>> /\ messages = {} /\ queue = {}
      BY ClaimsAreNumbers DEF Init
    <2>2. DOMAIN lease = {} /\ DOMAIN ask = {} /\ Len(lease) = 0 /\ lease \in Seq(LeaseRecord) /\ ask \in Seq(AskRecord)
      BY <2>1
    <2>3. Typed
      BY <2>1, <2>2 DEF Typed
    <2>4. LineInv
      BY <2>1, <2>2 DEF LineInv, Counted, Lent, InLine, WritersTurn
    <2>5. LockInv
      BY <2>1, <2>2 DEF LockInv, OneMechanism, Election, OneHolder
    <2> QED
      BY <2>3, <2>4, <2>5 DEF LeaseInv
  <1>2. LeaseInv /\ [Next]_vars => LeaseInv'
    <2> SUFFICES ASSUME LeaseInv, [Next]_vars PROVE LeaseInv'
      OBVIOUS
    <2>1. Typed'
      BY TypedStep DEF LeaseInv
    <2>2. LineInv'
      BY LineStep DEF LeaseInv, LockInv
    <2>3. LockInv'
      BY <2>1, LockStep DEF LeaseInv
    <2> QED
      BY <2>1, <2>2, <2>3 DEF LeaseInv
  <1> QED
    BY <1>1, <1>2, PTL DEF Spec

\* A set with no two elements has at most one.
LEMMA AtMostOne ==
    ASSUME NEW S, IsFiniteSet(S), \A x, y \in S : x = y
    PROVE  Cardinality(S) <= 1
  <1>1. CASE S = {}
    BY <1>1, FS_EmptySet
  <1>2. CASE S # {}
    <2>1. PICK x : S = {x}
      BY <1>2
    <2>2. Cardinality({x}) = 1
      BY FS_Singleton
    <2> QED
      BY <2>1, <2>2
  <1> QED
    BY <1>1, <1>2

\* At most one consumer of all tabs writes the graph, and at most one lease is held,
\* for any number of tabs, acquisitions and claims: sessions take turns in the line
\* of their tab's lease, and the browser's locks or the election give the graph to
\* one lease at a time.
THEOREM OneWriterCorrect == Spec => []OneWriter
  <1>1. LeaseInv => OneWriter
    <2> SUFFICES ASSUME LeaseInv PROVE OneWriter
      OBVIOUS
    <2> DEFINE writers == {a \in DOMAIN ask : ask[a].at = "writes"}
    <2>1. /\ \A a \in DOMAIN ask : ask[a].lease \in DOMAIN lease /\ ask[a].place \in Nat
          /\ IsFiniteSet(DOMAIN ask) /\ IsFiniteSet(DOMAIN lease)
      <3>1. /\ DOMAIN ask = 1..Len(ask) /\ Len(ask) \in Nat /\ DOMAIN lease = 1..Len(lease) /\ Len(lease) \in Nat
            /\ \A a \in DOMAIN ask : ask[a].lease \in DOMAIN lease /\ ask[a] \in AskRecord
        BY Members DEF LeaseInv
      <3>2. IsFiniteSet(1..Len(ask)) /\ IsFiniteSet(1..Len(lease))
        BY <3>1, FS_Interval
      <3> QED
        BY <3>1, <3>2 DEF AskRecord
    <2>2. ASSUME NEW a \in writers PROVE Holds(ask[a].lease)
      <3>1. a \in Users(ask[a].lease) /\ ask[a].lease \in DOMAIN lease
        BY <2>1 DEF Users
      <3>2. Cardinality(Users(ask[a].lease)) \in Nat /\ Cardinality(Users(ask[a].lease)) # 0
        BY <3>1, UsersFinite, FS_CardinalityType, FS_EmptySet DEF LeaseInv
      <3> QED
        BY <3>1, <3>2 DEF LeaseInv, LineInv, Counted, WritersTurn, Holds
    <2>3. ASSUME NEW a \in writers, NEW b \in writers PROVE a = b
      <3>1. ask[a].lease = ask[b].lease
        BY <2>1, <2>2 DEF LeaseInv, LockInv, OneHolder
      <3>2. predecessors(a) /\ predecessors(b)
        BY DEF LeaseInv, LineInv, WritersTurn
      <3>3. ~(ask[a].place < ask[b].place) /\ ~(ask[b].place < ask[a].place)
        BY <3>1, <3>2 DEF predecessors
      <3>4. ask[a].place = ask[b].place
        BY <2>1, <3>3
      <3> QED
        BY <3>1, <3>4 DEF LeaseInv, LineInv, InLine
    <2>4. IsFiniteSet(writers) /\ IsFiniteSet(Lock)
      <3>1. writers \in SUBSET DOMAIN ask /\ Lock \in SUBSET DOMAIN lease
        BY DEF Lock
      <3> QED
        BY <2>1, <3>1, FS_Subset
    <2>5. \A l, k \in Lock : l = k
      BY DEF LeaseInv, LockInv, OneHolder, Lock
    <2>6. Cardinality(writers) <= 1
      BY <2>3, <2>4, AtMostOne
    <2>7. Cardinality(Lock) <= 1
      BY <2>4, <2>5, AtMostOne
    <2> QED
      BY <2>6, <2>7 DEF OneWriter
  <1> QED
    BY <1>1, LeaseInvariant, PTL
=============================================================================
