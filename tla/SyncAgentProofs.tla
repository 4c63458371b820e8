--------------------------- MODULE SyncAgentProofs --------------------------
(***************************************************************************)
(* Proofs about SyncAgent, for any number of sockets, updates and failures: *)
(* what each of its methods leaves of the agent and the sockets, the        *)
(* declared types, that "synced" is never shown over a waiting update, that *)
(* the replica's updates are delivered as UpdateDelivery asks, and that a   *)
(* live transport leaves no gap in what it receives, whatever connections,  *)
(* retries and stale answers do.                                            *)
(***************************************************************************)
EXTENDS SyncAgent, SequenceTheorems, WellFoundedInduction, TLAPS
-----------------------------------------------------------------------------
(* Sequences as the wires and the two chains use them.                     *)

\* What a queue holds after one more entry.
LEMMA AppendRange ==
    ASSUME NEW S, NEW q \in Seq(S), NEW e \in S
    PROVE  /\ Append(q, e) \in Seq(S)
           /\ Append(q, e) # <<>>
           /\ Range(Append(q, e)) = Range(q) \cup {e}
  <1>1. /\ Append(q, e) \in Seq(S) /\ Append(q, e) # <<>>
        /\ Len(Append(q, e)) = Len(q) + 1
        /\ \A i \in 1..Len(q) : Append(q, e)[i] = q[i]
        /\ Append(q, e)[Len(q) + 1] = e
    BY AppendProperties
  <1>2. Len(q) \in Nat
    BY LenProperties
  <1>3. /\ Range(q) = {q[i] : i \in 1..Len(q)}
        /\ Range(Append(q, e)) = {Append(q, e)[i] : i \in 1..Len(q) + 1}
    BY <1>1, RangeEquality
  <1> QED
    BY <1>1, <1>2, <1>3

\* What a queue holds is its first entry and what the others are.
LEMMA HeadTailRange ==
    ASSUME NEW S, NEW q \in Seq(S), q # <<>>
    PROVE  /\ Head(q) \in S /\ Head(q) \in Range(q)
           /\ Tail(q) \in Seq(S)
           /\ Len(Tail(q)) = Len(q) - 1
           /\ Range(q) = {Head(q)} \cup Range(Tail(q))
  <1>1. /\ Head(q) \in S /\ Tail(q) \in Seq(S) /\ Len(Tail(q)) = Len(q) - 1
        /\ \A i \in 1..Len(Tail(q)) : Tail(q)[i] = q[i + 1]
    BY HeadTailProperties
  <1>2. Len(q) \in Nat /\ Len(q) # 0 /\ Head(q) = q[1]
    BY EmptySeq, LenProperties
  <1>3. /\ Range(q) = {q[i] : i \in 1..Len(q)}
        /\ Range(Tail(q)) = {Tail(q)[i] : i \in 1..Len(Tail(q))}
    BY <1>1, RangeEquality
  <1>4. Head(q) \in Range(q)
    BY <1>2, <1>3
  <1>5. Range(Tail(q)) \subseteq Range(q)
    BY <1>1, <1>2, <1>3
  <1>6. ASSUME NEW x \in Range(q), x # Head(q)
        PROVE  x \in Range(Tail(q))
    <2>1. PICK i \in 1..Len(q) : x = q[i]
      BY <1>3
    <2>2. i # 1 /\ i - 1 \in 1..Len(Tail(q)) /\ (i - 1) + 1 = i
      BY <2>1, <1>1, <1>2, <1>6
    <2>3. Tail(q)[i - 1] = q[i]
      BY <2>2, <1>1
    <2> QED
      BY <2>1, <2>2, <2>3, <1>3
  <1> QED
    BY <1>1, <1>4, <1>5, <1>6

\* What is left of a queue whose later entries are lost.
LEMMA PrefixRange ==
    ASSUME NEW S, NEW q \in Seq(S), NEW n \in 0..Len(q)
    PROVE  /\ SubSeq(q, 1, n) \in Seq(S)
           /\ Len(SubSeq(q, 1, n)) = n
           /\ \A i \in 1..n : SubSeq(q, 1, n)[i] = q[i]
           /\ Range(SubSeq(q, 1, n)) \subseteq Range(q)
  <1>1. Len(q) \in Nat /\ Range(q) = {q[i] : i \in 1..Len(q)}
        /\ \A i \in 1..Len(q) : q[i] \in S
    BY LenProperties, RangeEquality, ElementOfSeq
  <1>2. n \in Int /\ 1 \in Int /\ n \in Nat
    BY <1>1
  <1>3. /\ SubSeq(q, 1, n) \in Seq(S)
        /\ Len(SubSeq(q, 1, n)) = IF 1 <= n THEN n - 1 + 1 ELSE 0
        /\ \A i \in 1..n - 1 + 1 : SubSeq(q, 1, n)[i] = q[1 + i - 1]
    BY <1>1, <1>2, SubSeqProperties
  <1>4. Range(SubSeq(q, 1, n)) = {SubSeq(q, 1, n)[i] : i \in 1..Len(SubSeq(q, 1, n))}
    BY <1>3, RangeEquality
  <1>5. Len(SubSeq(q, 1, n)) = n
    BY <1>2, <1>3
  <1>6. \A i \in 1..n : SubSeq(q, 1, n)[i] = q[i]
    BY <1>2, <1>3
  <1> QED
    BY <1>1, <1>3, <1>4, <1>5, <1>6

\* An empty queue holds nothing; one entry on its own.
LEMMA ShortRange ==
    /\ Range(<<>>) = {}
    /\ \A S : <<>> \in Seq(S)
    /\ \A S : \A e \in S : <<e>> \in Seq(S) /\ Range(<<e>>) = {e}
  <1>1. Range(<<>>) = {}
    BY DEF Range
  <1>2. \A S : <<>> \in Seq(S)
    BY EmptySeq
  <1>3. ASSUME NEW S, NEW e \in S
        PROVE  <<e>> \in Seq(S) /\ Range(<<e>>) = {e}
    <2>1. <<e>> \in Seq(S) /\ Len(<<e>>) = 1 /\ <<e>>[1] = e
      OBVIOUS
    <2>2. Range(<<e>>) = {<<e>>[i] : i \in 1..1}
      BY <2>1, RangeEquality
    <2> QED
      BY <2>1, <2>2
  <1> QED
    BY <1>1, <1>2, <1>3
-----------------------------------------------------------------------------
(* Types.  The agent's methods return agents, and what they leave of a      *)
(* socket is a socket.                                                      *)

LEMMA AgentMethods ==
    ASSUME NEW a \in Agent
    PROVE  /\ Abandoned(a) \in Agent /\ Resumed(a) \in Agent
           /\ ScheduleReconnect(a) \in Agent /\ FailToStart(a) \in Agent
           /\ \A why \in Paused : Pause(a, why) \in Agent
           /\ \A why : TransportFailed(a, why) \in Agent
           /\ \A pending \in BOOLEAN : Counted(a, pending) \in Agent
  <1> USE DEF Agent, Paused
  <1>1. Abandoned(a) \in Agent /\ Resumed(a) \in Agent
    BY DEF Abandoned, Resumed
  <1>2. ASSUME NEW b \in Agent
        PROVE  ScheduleReconnect(b) \in Agent
    <2>1. [b EXCEPT !.live = "offline", !.timer = TRUE] \in Agent
      OBVIOUS
    <2> HIDE DEF Agent
    <2> QED
      BY <2>1 DEF ScheduleReconnect
  <1>3. \A b \in Agent : \A why \in Paused : Pause(b, why) \in Agent
    BY DEF Pause
  <1>4. FailToStart(a) \in Agent
    <2>1. [a EXCEPT !.sync = "error", !.live = "offline"] \in Agent
      OBVIOUS
    <2> QED
      BY <1>2, <2>1 DEF FailToStart
  <1>5. ASSUME NEW why
        PROVE  TransportFailed(a, why) \in Agent
    <2>1. [Abandoned(a) EXCEPT !.sync = "error"] \in Agent
      BY <1>1
    <2>2. "history" \in Paused
      OBVIOUS
    <2> HIDE DEF Agent, Paused
    <2> QED
      BY <1>1, <1>2, <1>3, <2>1, <2>2 DEF TransportFailed
  <1>6. \A pending \in BOOLEAN : Counted(a, pending) \in Agent
    BY DEF Counted
  <1> HIDE DEF Agent, Paused
  <1> QED
    BY <1>1, <1>2, <1>3, <1>4, <1>5, <1>6

Sockets == [Socket -> SocketState]
Unlost == {"import", "replace", "ack"}

LEMMA IdleType == Idle \in Receiving /\ Fresh \in SocketState
  <1>1. Idle \in Receiving
    BY DEF Idle, Receiving
  <1>2. <<>> \in Seq(Message)
    BY EmptySeq
  <1> QED
    BY <1>1, <1>2 DEF Fresh, SocketState

\* Detached, field by field.
LEMMA DetachedFields ==
    ASSUME NEW k \in SocketState
    PROVE  /\ Detached(k) \in SocketState
           /\ Detached(k).ready = "closed"
           /\ Detached(k).up = k.up
           /\ Detached(k).down = <<>>
           /\ Detached(k).session = k.session
           /\ Detached(k).rx = IF k.rx.step \in Unlost THEN k.rx ELSE Idle
  <1>1. /\ k = [ready |-> k.ready, up |-> k.up, down |-> k.down, session |-> k.session,
                rx |-> k.rx]
        /\ k.up \in Seq(Message) /\ k.rx \in Receiving
        /\ k.session \in {"none", "joined", "ended"}
    BY DEF SocketState
  <1> PICK r : r = IF k.rx.step \in Unlost THEN k.rx ELSE Idle
    OBVIOUS
  <1>5. Detached(k) = [k EXCEPT !.ready = "closed", !.down = <<>>, !.rx = r]
    BY DEF Detached, Unlost
  <1>2. Detached(k) = [ready |-> "closed", up |-> k.up, down |-> <<>>,
                       session |-> k.session, rx |-> r]
    BY <1>1, <1>5
  <1>3. <<>> \in Seq(Message)
    BY EmptySeq
  <1>4. Detached(k).rx \in Receiving
    BY <1>1, <1>2, IdleType
  <1> QED
    BY <1>1, <1>2, <1>3, <1>4 DEF SocketState

\* A socket after a step changed some of its fields.
LEMMA SocketFields ==
    ASSUME NEW k \in SocketState
    PROVE  /\ k.ready \in {"connecting", "open", "greeted", "closing", "closed"}
           /\ k.up \in Seq(Message) /\ k.down \in Seq(Message)
           /\ k.session \in {"none", "joined", "ended"}
           /\ k.rx \in Receiving
           /\ \A m \in Range(k.up) : m \in Message
           /\ \A m \in Range(k.down) : m \in Message
  <1>1. k.up \in Seq(Message) /\ k.down \in Seq(Message)
    BY DEF SocketState
  <1>2. Range(k.up) \subseteq Message /\ Range(k.down) \subseteq Message
    BY <1>1, RangeOfSeq
  <1> QED
    BY <1>1, <1>2 DEF SocketState

LEMMA WithoutSockets ==
    ASSUME NEW w \in Sockets, NEW c \in Socket \cup {None}
    PROVE  /\ Without(w, c) \in Sockets
           /\ c = None => Without(w, c) = w
           /\ \A d \in Socket : Without(w, c)[d] = IF d = c THEN Detached(w[d]) ELSE w[d]
  <1>1. CASE c = None
    BY <1>1, SocketAssumption DEF Without
  <1>2. CASE c # None
    <2>1. c \in Socket /\ w[c] \in SocketState
      BY <1>2 DEF Sockets
    <2>2. Without(w, c) = [w EXCEPT ![c] = Detached(w[c])]
      BY <1>2 DEF Without
    <2>3. Detached(w[c]) \in SocketState
      BY <2>1, DetachedFields
    <2> QED
      BY <1>2, <2>1, <2>2, <2>3 DEF Sockets
  <1> QED
    BY <1>1, <1>2

LEMMA RunEndedSockets ==
    ASSUME NEW w \in Sockets, NEW c \in Socket \cup {None}
    PROVE  /\ RunEndedFor(w, c) \in Sockets
           /\ \A d \in Socket : RunEndedFor(w, c)[d] =
                  IF d = c /\ w[d].rx.step = "outbox" THEN [w[d] EXCEPT !.rx = Idle]
                  ELSE w[d]
  <1>1. CASE c = None \/ w[c].rx.step # "outbox"
    BY <1>1, SocketAssumption DEF RunEndedFor
  <1>2. CASE c # None /\ w[c].rx.step = "outbox"
    <2>1. c \in Socket /\ w[c] \in SocketState
      BY <1>2 DEF Sockets
    <2>2. RunEndedFor(w, c) = [w EXCEPT ![c].rx = Idle]
      BY <1>2 DEF RunEndedFor
    <2>3. [w[c] EXCEPT !.rx = Idle] \in SocketState
      BY <2>1, IdleType DEF SocketState
    <2> QED
      BY <1>2, <2>1, <2>2, <2>3 DEF Sockets
  <1> QED
    BY <1>1, <1>2

\* A close event leaves a prefix of the frames already received.
LEMMA ClosingFields ==
    ASSUME NEW k \in SocketState, NEW l \in Closing(k)
    PROVE  /\ l \in SocketState
           /\ l.ready = "closing" /\ l.up = k.up /\ l.session = k.session /\ l.rx = k.rx
           /\ \E n \in 0..Len(k.down) : l.down = SubSeq(k.down, 1, n)
  <1>1. PICK n \in 0..Len(k.down) :
           l = [k EXCEPT !.ready = "closing", !.down = SubSeq(@, 1, n)]
    BY DEF Closing
  <1>2. k.down \in Seq(Message)
    BY SocketFields
  <1>3. SubSeq(k.down, 1, n) \in Seq(Message)
    BY <1>2, PrefixRange
  <1> QED
    BY <1>1, <1>3 DEF SocketState

\* connect leaves the agent and the sockets as they were, or takes a fresh one.
Takes(a, w) ==
    \E c \in Socket :
        /\ Free(c)
        /\ agent' = [a EXCEPT !.socket = c, !.live = "connecting"]
        /\ conn' = [w EXCEPT ![c] = [Fresh EXCEPT !.ready = "connecting"]]
Waits(a, w) == (agent' = ScheduleReconnect(a) \/ agent' = Pause(a, "auth")) /\ conn' = w
Keeps(a, w) == agent' = a /\ conn' = w

LEMMA ConnectCases ==
    ASSUME NEW up, NEW a, NEW w, Connect(up, a, w)
    PROVE  \/ (a.stopped \/ a.socket # None) /\ Keeps(a, w)
           \/ ~a.stopped /\ a.socket = None /\ Waits(a, w)
           \/ ~a.stopped /\ a.socket = None /\ Takes(a, w)
  <1>1. CASE a.stopped \/ a.socket # None
    BY <1>1 DEF Connect, Keeps, Waits
  <1>2. CASE ~(a.stopped \/ a.socket # None) /\ ~up
    BY <1>2 DEF Connect, Keeps, Waits
  <1>3. CASE ~(a.stopped \/ a.socket # None) /\ up /\ credential = "none"
    BY <1>3 DEF Connect, Keeps, Waits
  <1>4. CASE ~(a.stopped \/ a.socket # None) /\ up /\ credential # "none"
    <2>1. PICK c : c = CHOOSE d \in Socket : Free(d)
      OBVIOUS
    <2>2. /\ \E d \in Socket : Free(d)
          /\ agent' = [a EXCEPT !.socket = c, !.live = "connecting"]
          /\ conn' = [w EXCEPT ![c] = [Fresh EXCEPT !.ready = "connecting"]]
      BY <1>4, <2>1 DEF Connect, Keeps, Waits
    <2>3. c \in Socket /\ Free(c)
      BY <2>1, <2>2
    <2> QED
      BY <1>4, <2>2, <2>3 DEF Takes
  <1> QED
    BY <1>1, <1>2, <1>3, <1>4
-----------------------------------------------------------------------------
(* Type correctness.  A run is under way only while its request is queued,  *)
(* which says who is told when it ends.                                     *)

Typed == TypeOK /\ (run.step # "idle" => outgoing # <<>>)

LEMMA TypesInitially == Init => Typed
  <1> SUFFICES ASSUME Init PROVE Typed
    OBVIOUS
  <1>1. conn \in [Socket -> SocketState]
    BY IdleType DEF Init
  <1>2. outgoing \in Seq(Socket \cup {None}) /\ history \in Seq(Local)
    BY EmptySeq DEF Init
  <1>3. agent \in Agent
    BY DEF Init, Agent
  <1>4. faults \in 0..MaxFaults
    BY FaultAssumption DEF Init
  <1> QED
    BY <1>1, <1>2, <1>3, <1>4 DEF Init, Typed, TypeOK, NoRun, Call

\* What every step starts from.
LEMMA TypedState ==
    ASSUME Typed
    PROVE  /\ agent \in Agent /\ agent.socket \in Socket \cup {None} /\ agent.stopped \in BOOLEAN
           /\ agent.inFlight \subseteq Local
           /\ calls \in SUBSET Call
           /\ outgoing \in Seq(Socket \cup {None})
           /\ run \in [step : {"idle", "counted", "peeking", "peeked"}, pending : BOOLEAN,
                       socket : Socket \cup {None}, frame : SUBSET Local]
           /\ conn \in Sockets /\ \A c \in Socket : conn[c] \in SocketState
           /\ replica \in [doc : SUBSET Update, base : BOOLEAN, outbox : SUBSET Local,
                           frame : SUBSET Local]
           /\ history \in Seq(Local)
           /\ server \subseteq Update
           /\ online \in BOOLEAN
           /\ credential \in {"none", "good", "rejected"}
  BY DEF Typed, TypeOK, Agent, Sockets

\* What a message is made of.
LEMMA MessageTypes ==
    ASSUME NEW m \in Message
    PROVE  /\ m.ops \in SUBSET Update
           /\ m.code \in {"", "base"} \cup ErrorCode
           /\ m.type = "error" => m.code \in ErrorCode /\ m.ops = {}
  <1>1. CASE m \in [type : {"error"}, ops : {{}}, code : ErrorCode]
    BY <1>1
  <1>2. CASE m \in [type : {"hello", "update", "welcome", "replace", "merge_download",
                           "replace_download", "ack", "resync"}, ops : SUBSET Update,
                   code : {"", "base"}]
    BY <1>2
  <1> QED
    BY <1>1, <1>2 DEF Message

\* A run that ends takes its request off the chain.
LEMMA RunEndsTypes ==
    ASSUME Typed, NEW w \in Sockets, outgoing # <<>>, RunEnds(w)
    PROVE  /\ outgoing' \in Seq(Socket \cup {None})
           /\ run' = NoRun
           /\ Head(outgoing) \in Socket \cup {None}
           /\ conn' = RunEndedFor(w, Head(outgoing)) /\ conn' \in Sockets
  <1>1. outgoing \in Seq(Socket \cup {None})
    BY TypedState
  <1>2. Head(outgoing) \in Socket \cup {None} /\ Tail(outgoing) \in Seq(Socket \cup {None})
    BY <1>1, HeadTailRange
  <1> QED
    BY <1>2, RunEndedSockets DEF RunEnds

\* The frame a handler takes, and the sockets without it.
LEMMA HandledFields ==
    ASSUME Typed, NEW c \in Socket, conn[c].down # <<>>
    PROVE  /\ Received(c) \in Message /\ Received(c) \in Range(conn[c].down)
           /\ Tail(conn[c].down) \in Seq(Message)
           /\ Handled(c) \in Sockets
           /\ Handled(c)[c] = [conn[c] EXCEPT !.down = Tail(conn[c].down)]
           /\ \A d \in Socket : d # c => Handled(c)[d] = conn[d]
  <1>1. conn \in Sockets /\ conn[c] \in SocketState
    BY TypedState
  <1>2. conn[c].down \in Seq(Message)
    BY <1>1, SocketFields
  <1>3. /\ Received(c) \in Message /\ Received(c) \in Range(conn[c].down)
        /\ Tail(conn[c].down) \in Seq(Message)
    BY <1>2, HeadTailRange DEF Received
  <1>4. [conn[c] EXCEPT !.down = Tail(conn[c].down)] \in SocketState
    BY <1>1, <1>3 DEF SocketState
  <1> QED
    BY <1>1, <1>3, <1>4 DEF Handled, Sockets

\* A handler that starts.
LEMMA BeginFields ==
    ASSUME Typed, NEW c \in Socket, conn[c].down # <<>>,
           NEW step \in {"merge_download", "replace_download", "import", "replace", "ack"},
           NEW welcome \in BOOLEAN, Begin(c, step, welcome)
    PROVE  /\ conn' \in Sockets
           /\ conn'[c].ready = conn[c].ready /\ conn'[c].session = conn[c].session
           /\ conn'[c].up = conn[c].up /\ conn'[c].down = Tail(conn[c].down)
           /\ conn'[c].rx.step = step /\ conn'[c].rx.ops = Received(c).ops
           /\ conn'[c].rx.welcome = welcome
           /\ \A d \in Socket : d # c => conn'[d] = conn[d]
           /\ Typed'
  <1>1. /\ Received(c) \in Message /\ Tail(conn[c].down) \in Seq(Message)
        /\ Handled(c) \in Sockets
        /\ Handled(c)[c] = [conn[c] EXCEPT !.down = Tail(conn[c].down)]
        /\ \A d \in Socket : d # c => Handled(c)[d] = conn[d]
    BY HandledFields
  <1>2. PICK rx : rx = [step |-> step, ops |-> Received(c).ops, welcome |-> welcome]
    OBVIOUS
  <1>3. rx \in Receiving
    BY <1>1, <1>2, MessageTypes DEF Receiving
  <1>4. conn[c] \in SocketState
    BY TypedState
  <1>5. /\ conn' = [Handled(c) EXCEPT ![c].rx = rx]
        /\ UNCHANGED <<agent, calls, outgoing, run, replica, history, worldVars, faults>>
    BY <1>2 DEF Begin
  <1>6. conn'[c] = [Handled(c)[c] EXCEPT !.rx = rx]
        /\ \A d \in Socket : d # c => conn'[d] = Handled(c)[d]
    BY <1>1, <1>5 DEF Sockets
  <1>7. conn'[c] = [conn[c] EXCEPT !.down = Tail(conn[c].down), !.rx = rx]
    BY <1>1, <1>4, <1>6 DEF SocketState
  <1>8. conn'[c] \in SocketState
    BY <1>1, <1>3, <1>4, <1>7 DEF SocketState
  <1>9. conn' \in Sockets
    BY <1>1, <1>5, <1>6, <1>8 DEF Sockets
  <1>10. Typed'
    BY <1>5, <1>9 DEF Typed, TypeOK, Sockets, worldVars
  <1>11. /\ conn'[c].ready = conn[c].ready /\ conn'[c].session = conn[c].session
         /\ conn'[c].up = conn[c].up /\ conn'[c].down = Tail(conn[c].down)
         /\ conn'[c].rx = rx
    BY <1>4, <1>7 DEF SocketState
  <1> QED
    BY <1>1, <1>2, <1>6, <1>9, <1>10, <1>11

\* A Welcome that has been applied, over the sockets its handler left.
LEMMA WelcomedFields ==
    ASSUME Typed, NEW c \in Socket, NEW w \in Sockets, NEW a \in Agent,
           WelcomedBy(c, w, a)
    PROVE  /\ agent' \in Agent /\ agent' = [a EXCEPT !.welcomed = TRUE, !.live = "live"]
           /\ outgoing' = Append(outgoing, c) /\ outgoing' \in Seq(Socket \cup {None})
           /\ outgoing' # <<>>
           /\ conn' \in Sockets
           /\ conn'[c] = [w[c] EXCEPT !.rx = [Idle EXCEPT !.step = "outbox"]]
           /\ \A d \in Socket : d # c => conn'[d] = w[d]
  <1>1. outgoing \in Seq(Socket \cup {None})
    BY TypedState
  <1>2. Append(outgoing, c) \in Seq(Socket \cup {None}) /\ Append(outgoing, c) # <<>>
    BY <1>1, AppendRange
  <1>3. [Idle EXCEPT !.step = "outbox"] \in Receiving
    BY DEF Idle, Receiving
  <1>4. [w[c] EXCEPT !.rx = [Idle EXCEPT !.step = "outbox"]] \in SocketState
    BY <1>3 DEF Sockets, SocketState
  <1>5. agent' \in Agent
    BY DEF WelcomedBy, Agent
  <1> QED
    BY <1>2, <1>4, <1>5 DEF WelcomedBy, Sockets

\* The server's answer to the frame at the head of a socket's wire.
LEMMA ReplyFields ==
    ASSUME Typed, NEW c \in Socket, conn[c].up # <<>>,
           NEW msgs \in Seq(Message), NEW session \in {"none", "joined", "ended"},
           Reply(c, msgs, session)
    PROVE  /\ conn' \in Sockets
           /\ conn'[c].ready = conn[c].ready /\ conn'[c].rx = conn[c].rx
           /\ conn'[c].up = Tail(conn[c].up) /\ conn'[c].session = session
           /\ conn'[c].down = IF conn[c].ready = "greeted" THEN conn[c].down \o msgs
                              ELSE conn[c].down
           /\ \A d \in Socket : d # c => conn'[d] = conn[d]
  <1>1. conn \in Sockets /\ conn[c] \in SocketState
    BY TypedState
  <1>2. conn[c].up \in Seq(Message) /\ conn[c].down \in Seq(Message)
    BY <1>1, SocketFields
  <1>3. Tail(conn[c].up) \in Seq(Message)
    BY <1>2, HeadTailRange
  <1>4. PICK down : down = IF conn[c].ready = "greeted" THEN conn[c].down \o msgs
                           ELSE conn[c].down
    OBVIOUS
  <1>5. down \in Seq(Message)
    BY <1>2, <1>4, ConcatProperties
  <1>6. conn' = [conn EXCEPT ![c].up = Tail(@), ![c].session = session, ![c].down = down]
    BY <1>1, <1>4 DEF Reply, Sockets
  <1>7. conn'[c] = [conn[c] EXCEPT !.up = Tail(@), !.session = session, !.down = down]
        /\ \A d \in Socket : d # c => conn'[d] = conn[d]
    BY <1>1, <1>6 DEF Sockets
  <1>8. conn'[c] \in SocketState
    BY <1>1, <1>3, <1>5, <1>7 DEF SocketState
  <1>9. conn' \in Sockets
    BY <1>1, <1>6, <1>7, <1>8 DEF Sockets
  <1> QED
    BY <1>1, <1>4, <1>7, <1>9 DEF SocketState

\* connect, over an agent and sockets of the right types.
LEMMA ConnectTypes ==
    ASSUME NEW up \in BOOLEAN, NEW a \in Agent, NEW w \in Sockets, Connect(up, a, w)
    PROVE  agent' \in Agent /\ conn' \in Sockets
  <1>1. CASE agent' = a /\ conn' = w
    BY <1>1
  <1>2. CASE agent' \in {ScheduleReconnect(a), Pause(a, "auth")} /\ conn' = w
    BY <1>2, AgentMethods DEF Paused
  <1>3. ASSUME NEW c \in Socket,
               agent' = [a EXCEPT !.socket = c, !.live = "connecting"],
               conn' = [w EXCEPT ![c] = [Fresh EXCEPT !.ready = "connecting"]]
        PROVE  agent' \in Agent /\ conn' \in Sockets
    <2>1. agent' \in Agent
      BY <1>3 DEF Agent
    <2>2. [Fresh EXCEPT !.ready = "connecting"] \in SocketState
      BY IdleType DEF SocketState, Fresh
    <2> QED
      BY <1>3, <2>1, <2>2 DEF Sockets
  <1> QED
    <2>1. Keeps(a, w) \/ Waits(a, w) \/ Takes(a, w)
      BY ConnectCases
    <2>2. CASE Keeps(a, w)
      BY <1>1, <2>2 DEF Keeps
    <2>3. CASE Waits(a, w)
      BY <1>2, <2>3 DEF Waits
    <2>4. CASE Takes(a, w)
      BY <1>3, <2>4 DEF Takes
    <2> QED
      BY <2>1, <2>2, <2>3, <2>4

\* A run that ends, with what it left of the agent.
LEMMA RunEndsTyped ==
    ASSUME Typed, NEW w \in Sockets, outgoing # <<>>, RunEnds(w), agent' \in Agent,
           faults' \in 0..MaxFaults,
           UNCHANGED <<calls, replica, history, worldVars>>
    PROVE  Typed'
  <1>1. /\ outgoing' \in Seq(Socket \cup {None})
        /\ run' = NoRun
        /\ conn' \in Sockets
    BY RunEndsTypes
  <1>2. /\ run'.step = "idle"
        /\ run' \in [step : {"idle", "counted", "peeking", "peeked"}, pending : BOOLEAN,
                     socket : Socket \cup {None}, frame : SUBSET Local]
    BY <1>1 DEF NoRun
  <1> QED
    BY <1>1, <1>2 DEF Typed, TypeOK, worldVars, Sockets

LEMMA AgentStepTypes == Typed /\ AgentStep => Typed'
  <1> SUFFICES ASSUME Typed, AgentStep PROVE Typed'
    OBVIOUS
  <1>0. /\ agent \in Agent /\ agent.socket \in Socket \cup {None}
        /\ calls \in SUBSET Call /\ conn \in Sockets
        /\ online \in BOOLEAN /\ (replica.outbox # {}) \in BOOLEAN
    BY TypedState
  <1>c. "resume" \in Call /\ "validate" \in Call /\ "validate stale" \in Call
        /\ "recheck" \in Call /\ {"auth"} \subseteq Paused
    BY DEF Call, Paused
  <1>w. Without(conn, agent.socket) \in Sockets
    BY <1>0, WithoutSockets
  <1>1. CASE StartCounted
    <2>1. Counted(agent, replica.outbox # {}) \in Agent
      BY <1>0, AgentMethods
    <2>2. \A a \in Agent : Pause(a, "auth") \in Agent
      BY <1>c, AgentMethods
    <2>3. PICK a \in Agent : a = Counted(agent, replica.outbox # {})
      BY <2>1
    <2>4. agent' \in Agent /\ calls' \in SUBSET Call
      <3>1. credential \in {"none", "good", "rejected"}
        BY TypedState
      <3>2. CASE credential = "none"
        BY <1>1, <2>2, <2>3, <3>2, <1>0 DEF StartCounted
      <3>3. CASE credential = "good"
        BY <1>1, <2>2, <2>3, <3>3, <1>0, <1>c DEF StartCounted
      <3>4. CASE credential = "rejected"
        BY <1>1, <2>2, <2>3, <3>4, <1>0, <1>c DEF StartCounted
      <3> QED
        BY <3>1, <3>2, <3>3, <3>4
    <2> QED
      BY <1>1, <2>4 DEF StartCounted, Typed, TypeOK, worldVars
  <1>2. ASSUME NEW call \in {"validate", "validate stale"}, StartValidated(call)
        PROVE  Typed'
    <2>1. agent' \in Agent /\ conn' \in Sockets
      BY <1>2, <1>0, ConnectTypes DEF StartValidated
    <2> QED
      BY <1>2, <2>1 DEF StartValidated, Typed, TypeOK, worldVars, Sockets
  <1>3. CASE StartRejected
    <2>1. Pause(Resumed(agent), "auth") \in Agent
      BY <1>0, <1>c, AgentMethods
    <2> QED
      BY <1>3, <1>0, <1>c, <1>w, <2>1 DEF StartRejected, Typed, TypeOK, Sockets
  <1>4. CASE ResumeCounted
    <2>1. Counted(agent, replica.outbox # {}) \in Agent
      BY <1>0, AgentMethods
    <2>2. agent' \in Agent /\ conn' \in Sockets
      BY <1>4, <1>0, <2>1, ConnectTypes DEF ResumeCounted
    <2> QED
      BY <1>4, <2>2 DEF ResumeCounted, Typed, TypeOK, worldVars, Sockets
  <1>5. CASE RunStarts
    <2>1. CASE RunEnds(conn)
      <3>1. /\ outgoing # <<>> /\ faults' \in 0..MaxFaults /\ agent' \in Agent
            /\ UNCHANGED <<calls, replica, history, worldVars>>
        BY <1>5, <1>0 DEF RunStarts, Typed, TypeOK
      <3> QED
        BY <2>1, <3>1, <1>0, RunEndsTyped
    <2>2. CASE /\ run' = [NoRun EXCEPT !.step = "counted", !.pending = replica.outbox # {}]
               /\ UNCHANGED <<outgoing, conn>>
      BY <1>5, <2>2 DEF RunStarts, Typed, TypeOK, worldVars, NoRun
    <2> QED
      BY <1>5, <2>1, <2>2 DEF RunStarts
  <1>6. CASE RunCounts
    <2>1. Counted(agent, run.pending) \in Agent
      BY <1>0, TypedState, AgentMethods
    <2>2. agent' \in Agent /\ outgoing # <<>>
      BY <1>6, <2>1 DEF RunCounts, Typed
    <2>3. PICK a \in Agent : a = Counted(agent, run.pending)
      BY <2>1
    <2>4. CASE RunEnds(conn)
      <3>1. /\ faults' \in 0..MaxFaults
            /\ UNCHANGED <<calls, replica, history, worldVars>>
        BY <1>6 DEF RunCounts, Typed, TypeOK
      <3> QED
        BY <2>2, <2>4, <3>1, <1>0, RunEndsTyped
    <2>5. CASE /\ run' = [NoRun EXCEPT !.step = "peeking", !.socket = a.socket]
               /\ UNCHANGED <<outgoing, conn>>
      <3>1. a.socket \in Socket \cup {None}
        BY DEF Agent
      <3> QED
        BY <1>6, <2>2, <2>5, <3>1 DEF RunCounts, Typed, TypeOK, worldVars, NoRun
    <2> QED
      BY <1>6, <2>3, <2>4, <2>5 DEF RunCounts
  <1>7. CASE RunPeeks
    <2>1. PICK n \in 0..Len(history) :
             /\ run' = [run EXCEPT !.step = "peeked", !.frame = replica.outbox \cap Oldest(n)]
             /\ replica' = IF replica.outbox \cap Oldest(n) = {} THEN replica
                           ELSE [replica EXCEPT !.frame = replica.outbox \cap Oldest(n)]
      BY <1>7 DEF RunPeeks
    <2>2. PICK f : f = replica.outbox \cap Oldest(n)
      OBVIOUS
    <2>3. f \in SUBSET Local
      BY <2>2 DEF Typed, TypeOK
    <2>4. replica' = replica \/ replica' = [replica EXCEPT !.frame = f]
      BY <2>1, <2>2
    <2>5. run' = [run EXCEPT !.step = "peeked", !.frame = f]
      BY <2>1, <2>2
    <2>6. run.step # "idle"
      BY <1>7 DEF RunPeeks
    <2>7. replica' \in [doc : SUBSET Update, base : BOOLEAN, outbox : SUBSET Local,
                        frame : SUBSET Local]
      BY <2>3, <2>4 DEF Typed, TypeOK
    <2> QED
      BY <1>7, <2>3, <2>5, <2>6, <2>7 DEF RunPeeks, Typed, TypeOK, worldVars
  <1>8. CASE RunSends
    <2> PICK c : c = run.socket
      OBVIOUS
    <2>1. outgoing # <<>>
      BY <1>8 DEF RunSends, Typed
    <2>5. faults' \in 0..MaxFaults /\ UNCHANGED <<calls, replica, history, worldVars>>
      BY <1>8 DEF RunSends, Typed, TypeOK
    <2>2. CASE agent' = agent /\ RunEnds(conn)
      BY <2>1, <2>2, <2>5, <1>0, RunEndsTyped
    <2>3. CASE agent' = [agent EXCEPT !.sync = "synced"] /\ RunEnds(conn)
      <3>1. agent' \in Agent
        BY <2>3, <1>0 DEF Agent
      <3> QED
        BY <2>1, <2>3, <2>5, <3>1, <1>0, RunEndsTyped
    <2>4. CASE /\ MayFlush(agent, c) /\ agent' = [agent EXCEPT !.inFlight = run.frame]
               /\ RunEnds([conn EXCEPT ![c].up = Append(@, Msg("update", run.frame, ""))])
      <3>1. run.frame \in SUBSET Local /\ run.frame \in SUBSET Update
        BY TypedState DEF Update
      <3>2. agent' \in Agent
        BY <2>4, <3>1, <1>0 DEF Agent
      <3>3. PICK m \in Message : m = Msg("update", run.frame, "")
        BY <3>1 DEF Msg, Message
      <3>4. c \in Socket /\ conn[c] \in SocketState
        BY <2>4, <1>0, TypedState DEF MayFlush
      <3>5. conn[c].up \in Seq(Message)
        BY <3>4, SocketFields
      <3>6. Append(conn[c].up, m) \in Seq(Message)
        BY <3>5, AppendRange
      <3>7. [conn[c] EXCEPT !.up = Append(conn[c].up, m)] \in SocketState
        BY <3>4, <3>6 DEF SocketState
      <3>8. PICK w : w = [conn EXCEPT ![c].up = Append(@, m)]
        OBVIOUS
      <3>9. w \in Sockets
        BY <3>4, <3>7, <3>8, <1>0 DEF Sockets
      <3>10. RunEnds(w)
        BY <2>4, <3>3, <3>8
      <3> QED
        BY <2>1, <2>5, <3>2, <3>9, <3>10, RunEndsTyped
    <2> QED
      BY <1>8, <2>2, <2>3, <2>4 DEF RunSends
  <1>9. CASE RetryFires
    <2>1. [agent EXCEPT !.timer = FALSE] \in Agent
      BY <1>0 DEF Agent
    <2>2. agent' \in Agent /\ conn' \in Sockets
      BY <1>9, <1>0, <2>1, ConnectTypes DEF RetryFires
    <2> QED
      BY <1>9, <2>2 DEF RetryFires, Typed, TypeOK, worldVars, Sockets
  <1>10. CASE CatalogAnswers
    <2>1. agent' \in Agent /\ conn' \in Sockets /\ calls' \in SUBSET Call
      BY <1>10, <1>0, <1>c, <1>w, AgentMethods DEF CatalogAnswers
    <2> QED
      BY <1>10, <2>1 DEF CatalogAnswers, Typed, TypeOK, worldVars, Sockets
  <1>11. CASE AnswerTimeout
    BY <1>11, <1>0, <1>w, AgentMethods DEF AnswerTimeout, TimedOut, Typed, TypeOK, worldVars, Sockets
  <1>12. CASE TickOffline
    <2>1. ScheduleReconnect(Abandoned(agent)) \in Agent
      BY <1>0, AgentMethods
    <2> QED
      BY <1>12, <2>1, <1>w DEF TickOffline, Typed, TypeOK, worldVars, Sockets
  <1>13. CASE RecheckAccess
    BY <1>13, <1>0, <1>c DEF RecheckAccess, Typed, TypeOK, worldVars
  <1> QED
    BY <1>1, <1>2, <1>3, <1>4, <1>5, <1>6, <1>7, <1>8, <1>9, <1>10, <1>11, <1>12, <1>13
    DEF AgentStep

\* A step of one socket that leaves the rest of the world alone.
LEMMA OneSocketTyped ==
    ASSUME Typed, NEW c \in Socket, NEW k \in SocketState, conn' = [conn EXCEPT ![c] = k]
    PROVE  conn' \in Sockets /\ conn'[c] = k /\ \A d \in Socket : d # c => conn'[d] = conn[d]
  BY TypedState DEF Sockets

\* An abandoned transport.
LEMMA AbandonTyped ==
    ASSUME Typed, NEW c \in Socket \cup {None}, NEW a \in Agent, agent' = a,
           conn' = Without(conn, c), faults' \in 0..MaxFaults,
           UNCHANGED <<calls, outgoing, run, replica, history, worldVars>>
    PROVE  Typed'
  <1>1. conn' \in Sockets
    BY TypedState, WithoutSockets
  <1> QED
    BY <1>1 DEF Typed, TypeOK, worldVars, Sockets

LEMMA SocketStepTypes == Typed /\ (\E c \in Socket : SocketStep(c)) => Typed'
  <1> SUFFICES ASSUME Typed, NEW c \in Socket, SocketStep(c) PROVE Typed'
    OBVIOUS
  <1>0. /\ agent \in Agent /\ agent.socket \in Socket \cup {None}
        /\ conn \in Sockets /\ conn[c] \in SocketState
        /\ conn[c].up \in Seq(Message) /\ conn[c].down \in Seq(Message)
        /\ conn[c].rx \in Receiving /\ faults \in 0..MaxFaults
        /\ history \in Seq(Local) /\ server \subseteq Update
    BY TypedState, SocketFields DEF Typed, TypeOK
  <1>r. /\ ScheduleReconnect(Abandoned(agent)) \in Agent
        /\ \A why : TransportFailed(agent, why) \in Agent
    BY <1>0, AgentMethods
  <1>i. Idle \in Receiving /\ [Idle EXCEPT !.step = "outbox"] \in Receiving
    BY DEF Idle, Receiving
  <1>1. CASE SocketOpens(c)
    <2>1. [conn[c] EXCEPT !.ready = "open"] \in SocketState
      BY <1>0 DEF SocketState
    <2> QED
      BY <1>1, <1>0, <2>1 DEF SocketOpens, Typed, TypeOK, worldVars, Sockets
  <1>2. CASE SocketRefused(c)
    <2>1. [conn[c] EXCEPT !.ready = "closing"] \in SocketState
      BY <1>0 DEF SocketState
    <2> QED
      BY <1>2, <1>0, <2>1 DEF SocketRefused, Typed, TypeOK, worldVars, Sockets
  <1>3. CASE HelloSent(c)
    <2>1. PICK m \in Message : m = Msg("hello", replica.doc, IF replica.base THEN "base" ELSE "")
      BY TypedState DEF Msg, Message
    <2>2. Append(conn[c].up, m) \in Seq(Message)
      BY <1>0, AppendRange
    <2>3. [conn[c] EXCEPT !.ready = "greeted", !.up = Append(conn[c].up, m)] \in SocketState
      BY <1>0, <2>2 DEF SocketState
    <2>4. conn' = [conn EXCEPT ![c].ready = "greeted", ![c].up = Append(@, m)]
      BY <1>3, <2>1 DEF HelloSent
    <2>5. conn' \in Sockets
      BY <1>0, <2>3, <2>4 DEF Sockets
    <2> QED
      BY <1>3, <2>5 DEF HelloSent, Typed, TypeOK, worldVars, Sockets
  <1>4. CASE CloseDrained(c)
    BY <1>4, <1>0, <1>r, AbandonTyped DEF CloseDrained
  <1>5. CASE DownloadAborted(c)
    BY <1>5, <1>0, <1>r, AbandonTyped DEF DownloadAborted
  <1>6. CASE ReceiveWelcome(c)
    BY <1>6, BeginFields DEF ReceiveWelcome, Receive
  <1>7. CASE ReceiveEmptyWelcome(c)
    <2>1. Handled(c) \in Sockets
      BY <1>7, HandledFields DEF ReceiveEmptyWelcome, Receive
    <2>2. /\ agent' \in Agent /\ outgoing' \in Seq(Socket \cup {None}) /\ outgoing' # <<>>
          /\ conn' \in Sockets
      BY <1>7, <1>0, <2>1, WelcomedFields DEF ReceiveEmptyWelcome
    <2> QED
      BY <1>7, <2>2 DEF ReceiveEmptyWelcome, Typed, TypeOK, worldVars, Sockets
  <1>8. CASE ReceiveReplace(c)
    BY <1>8, BeginFields DEF ReceiveReplace, Receive
  <1>9. CASE ReceiveDownload(c)
    BY <1>9, BeginFields DEF ReceiveDownload, Receive, Downloading
  <1>10. CASE Downloaded(c)
    <2>1. PICK step \in {"replace", "import"} :
             step = IF conn[c].rx.step = "replace_download" THEN "replace" ELSE "import"
      OBVIOUS
    <2>2. [conn[c].rx EXCEPT !.ops = server, !.step = step] \in Receiving
      BY <1>0, <2>1 DEF Receiving
    <2>3. [conn[c] EXCEPT !.rx.ops = server, !.rx.step = step] \in SocketState
      BY <1>0, <2>2 DEF SocketState
    <2>4. conn' = [conn EXCEPT ![c].rx.ops = server, ![c].rx.step = step]
      BY <1>10, <1>0, <2>1 DEF Downloaded, Sockets, SocketState, Receiving
    <2>5. conn' \in Sockets
      BY <1>0, <2>3, <2>4 DEF Sockets
    <2> QED
      BY <1>10, <2>5 DEF Downloaded, Typed, TypeOK, worldVars, Sockets
  <1>11. CASE DownloadRefused(c)
    BY <1>11, <1>0, <1>r, AbandonTyped DEF DownloadRefused
  <1>12. CASE ReceiveUpdate(c)
    BY <1>12, BeginFields DEF ReceiveUpdate, Receive
  <1>13. ASSUME conn' = [conn EXCEPT ![c].rx = Idle]
         PROVE  conn' \in Sockets
    <2>1. [conn[c] EXCEPT !.rx = Idle] \in SocketState
      BY <1>0, <1>i DEF SocketState
    <2> QED
      BY <1>13, <1>0, <2>1 DEF Sockets
  <1>14. CASE ImportLands(c)
    <2>1. conn[c].rx.ops \in SUBSET Update
      BY <1>0 DEF Receiving
    <2>2. replica' \in [doc : SUBSET Update, base : BOOLEAN, outbox : SUBSET Local,
                        frame : SUBSET Local]
      BY <1>14, <2>1, TypedState DEF ImportLands
    <2>3. CASE WelcomedBy(c, conn, agent)
      <3>1. /\ agent' \in Agent /\ outgoing' \in Seq(Socket \cup {None}) /\ outgoing' # <<>>
            /\ conn' \in Sockets
        BY <2>3, <1>0, WelcomedFields
      <3> QED
        BY <1>14, <2>2, <3>1 DEF ImportLands, Typed, TypeOK, worldVars, Sockets
    <2>4. CASE conn' = [conn EXCEPT ![c].rx = Idle] /\ UNCHANGED <<agent, outgoing>>
      BY <1>14, <2>2, <2>4, <1>13 DEF ImportLands, Typed, TypeOK, worldVars, Sockets
    <2> QED
      BY <1>14, <2>3, <2>4 DEF ImportLands
  <1>15. CASE ReplaceLands(c)
    <2>1. conn[c].rx.ops \in SUBSET Update
      BY <1>0 DEF Receiving
    <2>2. CASE ~replica.base /\ replica.outbox = {}
      <3>1. replica' \in [doc : SUBSET Update, base : BOOLEAN, outbox : SUBSET Local,
                          frame : SUBSET Local]
        BY <1>15, <2>1, <2>2, TypedState DEF ReplaceLands
      <3>2. CASE WelcomedBy(c, conn, agent)
        <4>1. /\ agent' \in Agent /\ outgoing' \in Seq(Socket \cup {None}) /\ outgoing' # <<>>
              /\ conn' \in Sockets
          BY <3>2, <1>0, WelcomedFields
        <4> QED
          BY <1>15, <3>1, <4>1 DEF ReplaceLands, Typed, TypeOK, worldVars, Sockets
      <3>3. CASE conn' = [conn EXCEPT ![c].rx = Idle] /\ UNCHANGED <<agent, outgoing>>
        BY <1>15, <3>1, <3>3, <1>13 DEF ReplaceLands, Typed, TypeOK, worldVars, Sockets
      <3> QED
        BY <1>15, <2>2, <3>2, <3>3 DEF ReplaceLands
    <2>3. CASE ~(~replica.base /\ replica.outbox = {})
      <3>1. PICK w : w = IF IsCurrent(c) THEN Without(conn, c) ELSE conn
        OBVIOUS
      <3>2. w \in Sockets
        BY <1>0, <3>1, WithoutSockets
      <3>3. /\ agent' = IF IsCurrent(c) THEN TransportFailed(agent, "resync_required") ELSE agent
            /\ conn' = [w EXCEPT ![c].rx = Idle]
            /\ UNCHANGED <<replica, outgoing, calls, run, history, worldVars, faults>>
        BY <1>15, <2>3, <3>1 DEF ReplaceLands
      <3>4. agent' \in Agent
        BY <1>0, <1>r, <3>3
      <3>5. [w[c] EXCEPT !.rx = Idle] \in SocketState
        BY <3>2, <1>i DEF Sockets, SocketState
      <3>6. conn' \in Sockets
        BY <3>2, <3>3, <3>5 DEF Sockets
      <3> QED
        BY <3>3, <3>4, <3>6 DEF Typed, TypeOK, worldVars, Sockets
    <2> QED
      BY <2>2, <2>3
  <1>16. ASSUME conn' = Handled(c), conn[c].down # <<>>,
                UNCHANGED <<calls, outgoing, run, replica, history, worldVars, faults>>,
                agent' \in Agent
         PROVE  Typed'
    BY <1>16, HandledFields DEF Typed, TypeOK, worldVars, Sockets
  <1>17. CASE ReceiveAck(c)
    <2>1. CASE Begin(c, "ack", FALSE)
      BY <1>17, <2>1, BeginFields DEF ReceiveAck, Receive
    <2>2. CASE /\ conn' = Handled(c)
               /\ UNCHANGED <<agent, calls, outgoing, run, replica, history, worldVars, faults>>
      BY <1>17, <2>2, <1>0, <1>16 DEF ReceiveAck, Receive
    <2> QED
      BY <1>17, <2>1, <2>2 DEF ReceiveAck
  <1>18. CASE AckLands(c)
    <2> PICK m, covered : m = conn[c].rx.ops /\ covered = Covered(m)
      OBVIOUS
    <2>1. replica' = [replica EXCEPT !.outbox = @ \ covered,
                                     !.frame = IF @ = m THEN {} ELSE @]
      BY <1>18 DEF AckLands
    <2>2. PICK f \in SUBSET Local : f = IF replica.frame = m THEN {} ELSE replica.frame
      BY TypedState
    <2>3. replica' = [replica EXCEPT !.outbox = @ \ covered, !.frame = f]
      BY <2>1, <2>2, TypedState
    <2>4. replica' \in [doc : SUBSET Update, base : BOOLEAN, outbox : SUBSET Local,
                        frame : SUBSET Local]
      BY <2>2, <2>3, TypedState
    <2>5. CASE IsCurrent(c)
      <3>1. /\ agent' = [agent EXCEPT !.inFlight = IF @ = m THEN {} ELSE @]
            /\ outgoing' = Append(outgoing, c)
            /\ conn' = [conn EXCEPT ![c].rx = [Idle EXCEPT !.step = "outbox"]]
        BY <1>18, <2>5 DEF AckLands
      <3>2. PICK g \in SUBSET Local : g = IF agent.inFlight = m THEN {} ELSE agent.inFlight
        BY <1>0 DEF Agent
      <3>3. agent' = [agent EXCEPT !.inFlight = g]
        BY <3>1, <3>2, <1>0 DEF Agent
      <3>4. agent' \in Agent
        BY <3>2, <3>3, <1>0 DEF Agent
      <3>5. outgoing' \in Seq(Socket \cup {None}) /\ outgoing' # <<>>
        BY <3>1, AppendRange, TypedState
      <3>6. [conn[c] EXCEPT !.rx = [Idle EXCEPT !.step = "outbox"]] \in SocketState
        BY <1>0, <1>i DEF SocketState
      <3>7. conn' \in Sockets
        BY <3>1, <3>6, <1>0 DEF Sockets
      <3> QED
        BY <1>18, <2>4, <3>4, <3>5, <3>7 DEF AckLands, Typed, TypeOK, worldVars, Sockets
    <2>6. CASE ~IsCurrent(c)
      <3>1. conn' = [conn EXCEPT ![c].rx = Idle] /\ UNCHANGED <<agent, outgoing>>
        BY <1>18, <2>6 DEF AckLands
      <3> QED
        BY <1>18, <2>4, <3>1, <1>13 DEF AckLands, Typed, TypeOK, worldVars, Sockets
    <2> QED
      BY <2>5, <2>6
  <1>19. CASE ReceiveResync(c)
    BY <1>19, <1>0, <1>r, AbandonTyped DEF ReceiveResync
  <1>20. CASE ReceiveError(c)
    <2> PICK code : code = Received(c).code
      OBVIOUS
    <2>0. /\ conn[c].down # <<>>
          /\ UNCHANGED <<calls, outgoing, run, replica, history, worldVars, faults>>
      BY <1>20 DEF ReceiveError, Receive
    <2>1. CASE code = "recoverable"
      <3>1. /\ agent' = ScheduleReconnect(Abandoned(agent))
            /\ conn' = Without(conn, c)
        BY <1>20, <2>1 DEF ReceiveError
      <3> QED
        BY <2>0, <3>1, <1>0, <1>r, AbandonTyped
    <2>2. CASE code = "fatal"
      <3>1. agent' = [agent EXCEPT !.sync = "error"] /\ conn' = Handled(c)
        BY <1>20, <2>2 DEF ReceiveError
      <3>2. agent' \in Agent
        BY <3>1, <1>0 DEF Agent
      <3> QED
        BY <2>0, <3>1, <3>2, <1>16
    <2>3. CASE code # "recoverable" /\ code # "fatal"
      <3>1. /\ agent' = Pause(agent, PauseReason(code))
            /\ \E k \in Closing(Handled(c)[c]) : conn' = [conn EXCEPT ![c] = k]
        BY <1>20, <2>3 DEF ReceiveError
      <3>2. PICK k \in Closing(Handled(c)[c]) : conn' = [conn EXCEPT ![c] = k]
        BY <3>1
      <3>3. Handled(c)[c] \in SocketState
        BY <2>0, HandledFields DEF Sockets
      <3>4. k \in SocketState
        BY <3>2, <3>3, ClosingFields
      <3>5. conn' \in Sockets
        BY <3>2, <3>4, OneSocketTyped
      <3>6. code \in {"access_denied", "membership_revoked", "unsupported"}
        <4>1. Received(c) \in Message /\ Received(c).type = "error"
          BY <1>20, <2>0, HandledFields DEF ReceiveError, Receive, Received
        <4>2. code \in ErrorCode
          BY <4>1, MessageTypes
        <4> QED
          BY <2>3, <4>2 DEF ErrorCode
      <3>7. PauseReason(code) \in Paused
        BY <3>6 DEF PauseReason, Paused
      <3>8. agent' \in Agent
        BY <3>1, <3>7, <1>0, AgentMethods
      <3> QED
        BY <2>0, <3>5, <3>8 DEF Typed, TypeOK, worldVars, Sockets
    <2> QED
      BY <2>1, <2>2, <2>3
  <1> QED
    BY <1>1, <1>2, <1>3, <1>4, <1>5, <1>6, <1>7, <1>8, <1>9, <1>10, <1>11, <1>12,
       <1>14, <1>15, <1>17, <1>18, <1>19, <1>20 DEF SocketStep

\* What the server and a socket's handlers put on a wire.
LEMMA Errors ==
    /\ \A code \in ErrorCode :
          /\ Msg("error", {}, code) \in Message /\ Msg("error", {}, code).type = "error"
          /\ Msg("error", {}, code).code = code
    /\ {"access_denied", "membership_revoked", "unsupported", "recoverable", "fatal"}
          \subseteq ErrorCode
  BY DEF Msg, Message, ErrorCode

LEMMA Replies ==
    /\ Msg("resync", {}, "") \in Message
    /\ \A ops \in SUBSET Update :
          /\ Msg("welcome", ops, "") \in Message /\ Msg("merge_download", {}, "") \in Message
          /\ Msg("replace", ops, "") \in Message /\ Msg("replace_download", {}, "") \in Message
          /\ Msg("ack", ops, "") \in Message /\ Msg("update", ops, "") \in Message
          /\ Msg("hello", ops, "") \in Message /\ Msg("hello", ops, "base") \in Message
  BY DEF Msg, Message

LEMMA ServerStepTypes == Typed /\ (\E c \in Socket : ServerStep(c) \/ ServerRefuses(c)) => Typed'
  <1> SUFFICES ASSUME Typed, NEW c \in Socket, ServerStep(c) \/ ServerRefuses(c) PROVE Typed'
    OBVIOUS
  <1>0. /\ agent \in Agent /\ conn \in Sockets /\ conn[c] \in SocketState
        /\ conn[c].up \in Seq(Message) /\ conn[c].down \in Seq(Message)
        /\ conn[c].session \in {"none", "joined", "ended"}
        /\ conn[c].rx \in Receiving /\ faults \in 0..MaxFaults /\ server \subseteq Update
    BY TypedState, SocketFields DEF Typed, TypeOK
  <1>s. \A m \in Message : <<m>> \in Seq(Message)
    BY ShortRange
  <1>u. ASSUME conn' \in Sockets, server' \subseteq Update, faults' \in 0..MaxFaults,
               UNCHANGED <<agent, calls, outgoing, run, replica, history, access, credential,
                           online>>
        PROVE  Typed'
    BY <1>u DEF Typed, TypeOK, Sockets
  <1>f. \A type : Serves(c, type) => conn[c].up # <<>> /\ Head(conn[c].up) \in Message
    BY <1>0, HeadTailRange DEF Serves
  <1>r. ASSUME NEW m \in Message, NEW session \in {"none", "joined", "ended"},
               Reply(c, <<m>>, session), conn[c].up # <<>>
        PROVE  conn' \in Sockets
    BY <1>r, <1>s, ReplyFields
  <1>1. CASE ServerHello(c)
    <2>1. PICK m \in Message, session \in {"joined", "ended"} : Reply(c, <<m>>, session)
      <3>1. CASE access # "member"
        <4>1. Reply(c, <<Msg("error", {}, "access_denied")>>, "ended")
          BY <1>1, <3>1 DEF ServerHello
        <4> QED
          BY <4>1, Errors
      <3>2. CASE access = "member"
        <4> PICK hello, gap : hello = Head(conn[c].up) /\ gap = server \ hello.ops
          OBVIOUS
        <4>1. PICK m \in IF hello.code = "base"
                         THEN {Msg("welcome", gap, ""), Msg("merge_download", {}, "")}
                         ELSE {Msg("replace", server, ""), Msg("replace_download", {}, "")} :
                   Reply(c, <<m>>, "joined")
          BY <1>1, <3>2 DEF ServerHello
        <4>2. m \in Message
          BY <4>1, <1>0, Replies
        <4> QED
          BY <4>1, <4>2
      <3> QED
        BY <3>1, <3>2
    <2>2. conn[c].up # <<>>
      BY <1>1, <1>f DEF ServerHello
    <2>3. conn' \in Sockets
      BY <2>1, <2>2, <1>r
    <2> QED
      BY <1>1, <2>3, <1>0, <1>u DEF ServerHello, worldVars
  <1>2. CASE ServerDiscards(c)
    <2>1. conn' \in Sockets
      BY <1>2, <1>0, <1>f, ShortRange, ReplyFields DEF ServerDiscards
    <2> QED
      BY <1>2, <2>1, <1>0, <1>u DEF ServerDiscards, worldVars
  <1>3. CASE ServerUpdate(c)
    <2> PICK f : f = Head(conn[c].up).ops
      OBVIOUS
    <2>1. conn[c].up # <<>> /\ f \in SUBSET Update
      BY <1>3, <1>f, MessageTypes DEF ServerUpdate
    <2>2. CASE access = "member"
      <3>1. server' = server \cup f /\ Reply(c, <<Msg("ack", f, "")>>, "joined")
        BY <1>3, <2>2 DEF ServerUpdate
      <3>2. conn' \in Sockets
        BY <2>1, <3>1, <1>r, Replies
      <3> QED
        BY <1>3, <2>1, <3>1, <3>2, <1>0, <1>u DEF ServerUpdate
    <2>3. CASE access # "member"
      <3>1. Reply(c, <<Msg("error", {}, "access_denied")>>, "ended") /\ UNCHANGED server
        BY <1>3, <2>3 DEF ServerUpdate
      <3>2. conn' \in Sockets
        BY <2>1, <3>1, <1>r, Errors
      <3> QED
        BY <1>3, <3>1, <3>2, <1>0, <1>u DEF ServerUpdate
    <2> QED
      BY <2>2, <2>3
  <1>4. CASE ServerEnds(c)
    <2>1. [conn[c] EXCEPT !.session = "none", !.up = <<>>] \in SocketState
      BY <1>0, ShortRange DEF SocketState
    <2>2. conn' \in Sockets
      BY <1>4, <2>1, <1>0 DEF ServerEnds, Sockets
    <2> QED
      BY <1>4, <2>2, <1>0, <1>u DEF ServerEnds, worldVars
  <1>5. CASE MembershipTick(c)
    <2>1. PICK m \in Message : m = Msg("error", {}, "access_denied")
      BY Errors
    <2>2. PICK down : down = IF conn[c].ready = "greeted" /\ credential = "good"
                             THEN Append(conn[c].down, m) ELSE conn[c].down
      OBVIOUS
    <2>3. down \in Seq(Message)
      BY <2>2, <1>0, AppendRange
    <2>4. [conn[c] EXCEPT !.session = "ended", !.down = down] \in SocketState
      BY <2>3, <1>0 DEF SocketState
    <2>5. conn' = [conn EXCEPT ![c].session = "ended", ![c].down = down]
      BY <1>5, <1>0, <2>1, <2>2 DEF MembershipTick, Sockets
    <2>6. conn' \in Sockets
      BY <2>4, <2>5, <1>0 DEF Sockets
    <2> QED
      BY <1>5, <2>6, <1>0, <1>u DEF MembershipTick, worldVars
  <1>6. CASE ServerCloses(c)
    <2>1. [conn[c] EXCEPT !.ready = "closing"] \in SocketState
      BY <1>0 DEF SocketState
    <2>2. conn' \in Sockets
      BY <1>6, <2>1, <1>0 DEF ServerCloses, Sockets
    <2> QED
      BY <1>6, <2>2, <1>0, <1>u DEF ServerCloses, worldVars
  <1>7. CASE ServerRefuses(c)
    <2>1. faults' \in 0..MaxFaults
      <3>1. Fault
        BY <1>7 DEF ServerRefuses
      <3> QED
        BY <3>1, <1>0, FaultAssumption DEF Fault
    <2>2. \E m \in Message, session \in {"joined", "ended"} : Reply(c, <<m>>, session)
      <3>1. CASE Reply(c, <<Msg("error", {}, "unsupported")>>, "ended")
        BY <3>1, Errors
      <3>2. CASE Reply(c, <<Msg("error", {}, "fatal")>>, "joined")
        BY <3>2, Errors
      <3>3. CASE Reply(c, <<Msg("error", {}, "recoverable")>>, "joined")
        BY <3>3, Errors
      <3>4. CASE Reply(c, <<Msg("resync", {}, "")>>, "ended")
        BY <3>4, Replies
      <3> QED
        BY <1>7, <3>1, <3>2, <3>3, <3>4 DEF ServerRefuses
    <2>3. conn[c].up # <<>>
      BY <1>7, <1>f DEF ServerRefuses
    <2>4. conn' \in Sockets
      BY <2>2, <2>3, <1>r
    <2> QED
      BY <1>7, <2>1, <2>4, <1>0, <1>u DEF ServerRefuses, worldVars
  <1> QED
    BY <1>1, <1>2, <1>3, <1>4, <1>5, <1>6, <1>7 DEF ServerStep

LEMMA DisturbanceTypes ==
    ASSUME Typed, Disturbance
    PROVE  Typed'
  <1>0. /\ agent \in Agent /\ agent.socket \in Socket \cup {None} /\ agent.stopped \in BOOLEAN
        /\ conn \in Sockets /\ calls \in SUBSET Call
    BY TypedState
  <1>f. Fault => faults' \in 0..MaxFaults
    BY FaultAssumption DEF Fault, Typed, TypeOK
  <1>w. Without(conn, agent.socket) \in Sockets
    BY <1>0, WithoutSockets
  <1>r. /\ ScheduleReconnect(Abandoned(agent)) \in Agent
        /\ \A why : TransportFailed(agent, why) \in Agent
        /\ FailToStart(agent) \in Agent /\ Resumed(agent) \in Agent
        /\ [Abandoned(agent) EXCEPT !.stopped = TRUE, !.timer = FALSE] \in Agent
        /\ [Abandoned(agent) EXCEPT !.timer = FALSE] \in Agent
    <2>1. \A a \in Agent : /\ [a EXCEPT !.stopped = TRUE, !.timer = FALSE] \in Agent
                           /\ [a EXCEPT !.timer = FALSE] \in Agent
      BY DEF Agent
    <2> QED
      BY <1>0, <2>1, AgentMethods
  <1>1. CASE StartFails
    BY <1>1, <1>f, <1>r, <1>0 DEF StartFails, Typed, TypeOK, worldVars
  <1>2. CASE Stop
    BY <1>2, <1>f, <1>r, <1>0, AbandonTyped DEF Stop
  <1>3. CASE RunFails
    <2> PICK c : c = Head(outgoing)
      OBVIOUS
    <2>1. /\ outgoing # <<>> /\ faults' \in 0..MaxFaults
          /\ UNCHANGED <<calls, replica, history, worldVars>>
      BY <1>3, <1>f DEF RunFails
    <2>2. CASE agent' = agent /\ RunEnds(conn)
      BY <2>1, <2>2, <1>0, RunEndsTyped
    <2>3. CASE /\ agent' = TransportFailed(agent, "outbox unavailable")
               /\ RunEnds(Without(conn, agent.socket))
      BY <2>1, <2>3, <1>w, <1>r, RunEndsTyped
    <2> QED
      BY <1>3, <2>2, <2>3 DEF RunFails
  <1>4. CASE GoOffline
    <2>1. agent' \in Agent /\ conn' \in Sockets
      BY <1>4, <1>0, <1>w, <1>r DEF GoOffline
    <2> QED
      BY <1>4, <1>f, <2>1 DEF GoOffline, Typed, TypeOK, Sockets
  <1>5. CASE GoOnline
    <2>1. agent' \in Agent /\ conn' \in Sockets
      <3>1. CASE agent.stopped \/ agent.live = "paused"
        BY <1>5, <3>1, <1>0 DEF GoOnline
      <3>2. CASE ~(agent.stopped \/ agent.live = "paused")
        <4>1. Connect(TRUE, [Abandoned(agent) EXCEPT !.timer = FALSE],
                      Without(conn, agent.socket))
          BY <1>5, <3>2 DEF GoOnline
        <4> QED
          BY <4>1, <1>w, <1>r, ConnectTypes
      <3> QED
        BY <3>1, <3>2
    <2> QED
      BY <1>5, <2>1 DEF GoOnline, Typed, TypeOK, Sockets
  <1>6. CASE CredentialChanges
    <2>1. agent' \in Agent /\ conn' \in Sockets /\ calls' \in SUBSET Call
      BY <1>6, <1>0, <1>w, <1>r DEF CredentialChanges, Call
    <2> QED
      BY <1>6, <1>f, <2>1 DEF CredentialChanges, Typed, TypeOK, Sockets
  <1>7. CASE RemoveMember \/ InviteBack
    BY <1>7, <1>f DEF RemoveMember, InviteBack, Typed, TypeOK
  <1>8. CASE DeleteGraph
    <2>1. PICK m \in Message : m = Msg("error", {}, "membership_revoked")
      BY Errors
    <2>2. ASSUME NEW d \in Socket
          PROVE  (IF conn[d].session # "joined" THEN conn[d]
                  ELSE [conn[d] EXCEPT !.session = "ended",
                          !.down = IF conn[d].ready = "greeted" THEN Append(@, m) ELSE @])
                 \in SocketState
      <3>1. conn[d] \in SocketState /\ conn[d].down \in Seq(Message)
        BY TypedState, SocketFields
      <3>2. PICK down \in Seq(Message) :
               down = IF conn[d].ready = "greeted" THEN Append(conn[d].down, m) ELSE conn[d].down
        BY <3>1, AppendRange
      <3>3. [conn[d] EXCEPT !.session = "ended", !.down = down] \in SocketState
        BY <3>1, <3>2 DEF SocketState
      <3> QED
        BY <3>1, <3>2, <3>3
    <2>3. conn' \in Sockets
      BY <1>8, <2>1, <2>2 DEF DeleteGraph, Sockets
    <2> QED
      BY <1>8, <1>f, <2>3 DEF DeleteGraph, Typed, TypeOK, Sockets
  <1>9. CASE SilenceTimeout
    BY <1>9, <1>f, <1>r, <1>0, AbandonTyped DEF SilenceTimeout, TimedOut
  <1>10. ASSUME NEW c \in Socket, LinkLost(c)
         PROVE  Typed'
    <2>1. PICK k \in Closing(conn[c]) : conn' = [conn EXCEPT ![c] = k]
      BY <1>10 DEF LinkLost
    <2>2. k \in SocketState
      BY <2>1, ClosingFields, TypedState
    <2>3. conn' \in Sockets
      BY <2>1, <2>2, OneSocketTyped
    <2> QED
      BY <1>10, <1>f, <2>3 DEF LinkLost, Typed, TypeOK, worldVars, Sockets
  <1>11. ASSUME NEW c \in Socket, SocketCallFails(c)
         PROVE  Typed'
    <2>1. Without(conn, c) \in Sockets
      BY <1>0, WithoutSockets
    <2>2. [Without(conn, c)[c] EXCEPT !.rx = Idle] \in SocketState
      BY <2>1, IdleType DEF Sockets, SocketState
    <2>3. conn' \in Sockets
      BY <1>11, <2>1, <2>2 DEF SocketCallFails, Sockets
    <2> QED
      BY <1>11, <1>f, <1>r, <2>3 DEF SocketCallFails, Typed, TypeOK, worldVars, Sockets
  <1>12. ASSUME NEW c \in Socket, ImportDropped(c)
         PROVE  Typed'
    <2>1. [conn[c] EXCEPT !.rx = Idle] \in SocketState
      BY <1>0, IdleType DEF Sockets, SocketState
    <2>2. conn' \in Sockets
      BY <1>12, <1>0, <2>1 DEF ImportDropped, Sockets
    <2> QED
      BY <1>12, <2>2 DEF ImportDropped, Typed, TypeOK, worldVars, Sockets
  <1>13. ASSUME NEW c \in Socket, ServerRefuses(c)
         PROVE  Typed'
    BY <1>13, ServerStepTypes
  <1> QED
    BY <1>1, <1>2, <1>3, <1>4, <1>5, <1>6, <1>7, <1>8, <1>9, <1>10, <1>11, <1>12, <1>13
    DEF Disturbance

LEMMA SaveTypes ==
    ASSUME Typed, NEW u \in Local, Save(u)
    PROVE  Typed' /\ outgoing' = Append(outgoing, None) /\ outgoing' # <<>>
           /\ Range(history') = Range(history) \cup {u}
  <1>1. /\ outgoing \in Seq(Socket \cup {None}) /\ history \in Seq(Local)
        /\ replica \in [doc : SUBSET Update, base : BOOLEAN, outbox : SUBSET Local,
                        frame : SUBSET Local]
    BY TypedState
  <1>2. /\ Append(history, u) \in Seq(Local)
        /\ Range(Append(history, u)) = Range(history) \cup {u}
        /\ Append(outgoing, None) \in Seq(Socket \cup {None}) /\ Append(outgoing, None) # <<>>
    BY <1>1, AppendRange
  <1>3. replica' \in [doc : SUBSET Update, base : BOOLEAN, outbox : SUBSET Local,
                      frame : SUBSET Local]
    BY <1>1 DEF Save, Update
  <1> QED
    BY <1>2, <1>3 DEF Save, Typed, TypeOK, worldVars

LEMMA ForeignTypes ==
    ASSUME Typed, NEW u \in Foreign, ForeignUpdate(u)
    PROVE  Typed'
  <1>1. PICK m \in Message : m = Msg("update", {u}, "")
    BY Replies DEF Update
  <1>2. ASSUME NEW d \in Socket
        PROVE  [conn[d] EXCEPT !.down = Append(@, m)] \in SocketState
    BY TypedState, SocketFields, AppendRange DEF SocketState
  <1>3. conn' \in Sockets
    BY <1>1, <1>2, TypedState DEF ForeignUpdate, Sockets
  <1>4. server' \subseteq Update
    BY TypedState DEF ForeignUpdate, Update
  <1> QED
    BY <1>3, <1>4 DEF ForeignUpdate, Typed, TypeOK, Sockets

LEMMA TypesPreserved == Typed /\ [Next]_vars => Typed'
  <1> SUFFICES ASSUME Typed, [Next]_vars PROVE Typed'
    OBVIOUS
  <1>1. CASE UNCHANGED vars
    BY <1>1 DEF vars, worldVars, Typed, TypeOK
  <1> QED
    BY <1>1, AgentStepTypes, SocketStepTypes, ServerStepTypes, DisturbanceTypes, SaveTypes,
       ForeignTypes DEF Next

\* The agent's fields keep their types, and a run of the outgoing chain that is under
\* way still has its request queued (SyncAgent.ts wake): no interrupted connection,
\* late Worker answer or pause leaves the chain running with nothing left to do.
THEOREM TypesCorrect == Spec => []Typed
  <1> QED
    BY TypesInitially, TypesPreserved, PTL DEF Spec
-----------------------------------------------------------------------------
(* "Synced" is true.  What the agent shows changes only to the last count,  *)
(* so it is wrong only between a save and the run that save asked for.      *)

\* What each method leaves in the fields the invariants read.
LEMMA RetryFields ==
    ASSUME NEW a \in Agent
    PROVE  /\ ScheduleReconnect(a).socket = a.socket
           /\ ScheduleReconnect(a).welcomed = a.welcomed
           /\ ScheduleReconnect(a).stopped = a.stopped /\ ScheduleReconnect(a).sync = a.sync
  BY DEF ScheduleReconnect, Agent

LEMMA AbandonFields ==
    ASSUME NEW a \in Agent
    PROVE  /\ Abandoned(a).socket = None /\ Abandoned(a).welcomed = FALSE
           /\ Abandoned(a).stopped = a.stopped /\ Abandoned(a).sync = a.sync
           /\ Abandoned(a) \in Agent
  BY DEF Abandoned, Agent

LEMMA ResumeFields ==
    ASSUME NEW a \in Agent
    PROVE  /\ Resumed(a).socket = None /\ Resumed(a).welcomed = FALSE
           /\ Resumed(a).stopped = a.stopped /\ Resumed(a).sync = "pending"
           /\ Resumed(a) \in Agent
  <1>1. PICK b \in Agent : b = Abandoned(a)
    BY AbandonFields
  <1>2. b.socket = None /\ b.welcomed = FALSE /\ b.stopped = a.stopped
    BY <1>1, AbandonFields
  <1>3. Resumed(a) = [b EXCEPT !.live = "connecting", !.sync = "pending"]
    BY <1>1 DEF Resumed
  <1> QED
    BY <1>2, <1>3 DEF Agent

LEMMA PauseFields ==
    ASSUME NEW a \in Agent, NEW why
    PROVE  /\ Pause(a, why).socket = a.socket /\ Pause(a, why).welcomed = a.welcomed
           /\ Pause(a, why).stopped = a.stopped /\ Pause(a, why).sync = why
  BY DEF Pause, Agent

LEMMA FailedFields ==
    ASSUME NEW a \in Agent, NEW why
    PROVE  /\ TransportFailed(a, why).socket = None
           /\ TransportFailed(a, why).welcomed = FALSE
           /\ TransportFailed(a, why).stopped = a.stopped
           /\ TransportFailed(a, why).sync \in {"error", "history"}
  <1>1. PICK b : b = [Abandoned(a) EXCEPT !.sync = "error"]
    OBVIOUS
  <1>2. /\ b \in Agent /\ b.socket = None /\ b.welcomed = FALSE /\ b.stopped = a.stopped
        /\ b.sync = "error"
    BY <1>1, AbandonFields DEF Agent
  <1>3. CASE why = "resync_required"
    <2>1. TransportFailed(a, why) = Pause(Abandoned(a), "history")
      BY <1>3 DEF TransportFailed
    <2>2. PICK g \in Agent : /\ g = Abandoned(a)
                             /\ g.socket = None /\ g.welcomed = FALSE /\ g.stopped = a.stopped
      BY AbandonFields
    <2>3. /\ Pause(g, "history").socket = None /\ Pause(g, "history").welcomed = FALSE
          /\ Pause(g, "history").stopped = a.stopped /\ Pause(g, "history").sync = "history"
      BY <2>2, PauseFields
    <2> QED
      BY <2>1, <2>2, <2>3
  <1>4. CASE why # "resync_required"
    <2>1. TransportFailed(a, why) = ScheduleReconnect(b)
      BY <1>1, <1>4 DEF TransportFailed
    <2> QED
      BY <1>2, <2>1, RetryFields
  <1> QED
    BY <1>3, <1>4

LEMMA FailToStartFields ==
    ASSUME NEW a \in Agent
    PROVE  /\ FailToStart(a).socket = a.socket /\ FailToStart(a).welcomed = a.welcomed
           /\ FailToStart(a).stopped = a.stopped
           /\ a.stopped \/ FailToStart(a).sync = "error"
  <1>1. PICK b : b = [a EXCEPT !.sync = "error", !.live = "offline"]
    OBVIOUS
  <1>2. /\ b \in Agent /\ b.socket = a.socket /\ b.welcomed = a.welcomed
        /\ b.stopped = a.stopped /\ b.sync = "error"
    BY <1>1 DEF Agent
  <1>3. FailToStart(a) = IF a.stopped THEN a ELSE ScheduleReconnect(b)
    BY <1>1 DEF FailToStart
  <1> QED
    BY <1>2, <1>3, RetryFields

LEMMA CountedFields ==
    ASSUME NEW a \in Agent, NEW pending \in BOOLEAN
    PROVE  /\ Counted(a, pending).socket = a.socket
           /\ Counted(a, pending).welcomed = a.welcomed
           /\ Counted(a, pending).stopped = a.stopped
           /\ \/ Counted(a, pending).sync = a.sync /\ (a.stopped \/ a.sync # "synced")
              \/ pending /\ Counted(a, pending).sync = "pending"
              \/ ~pending /\ Counted(a, pending).sync = "synced"
  BY DEF Counted, Agent, IsPaused, Paused

\* connect never shows "synced" by itself and keeps what the method left.
LEMMA ConnectFields ==
    ASSUME NEW up \in BOOLEAN, NEW a \in Agent, NEW w \in Sockets, Connect(up, a, w)
    PROVE  /\ agent'.stopped = a.stopped /\ agent'.welcomed = a.welcomed
           /\ agent'.sync = a.sync \/ agent'.sync = "auth"
  <1>1. CASE Keeps(a, w)
    BY <1>1 DEF Keeps
  <1>2. CASE Waits(a, w)
    <2>1. /\ ScheduleReconnect(a).welcomed = a.welcomed
          /\ ScheduleReconnect(a).stopped = a.stopped /\ ScheduleReconnect(a).sync = a.sync
      BY RetryFields
    <2>2. /\ Pause(a, "auth").welcomed = a.welcomed
          /\ Pause(a, "auth").stopped = a.stopped /\ Pause(a, "auth").sync = "auth"
      BY PauseFields
    <2> QED
      BY <1>2, <2>1, <2>2 DEF Waits
  <1>3. CASE Takes(a, w)
    BY <1>3 DEF Takes, Agent
  <1>4. Keeps(a, w) \/ Waits(a, w) \/ Takes(a, w)
    BY ConnectCases
  <1> QED
    BY <1>1, <1>2, <1>3, <1>4

\* A queue holds a request of a save behind the one that is served.
Later(q) == \E i \in DOMAIN q : i >= 2 /\ q[i] = None

LEMMA LaterAppend ==
    ASSUME NEW q \in Seq(Socket \cup {None}), NEW e \in Socket \cup {None}
    PROVE  /\ Later(q) => Later(Append(q, e))
           /\ q # <<>> /\ e = None => Later(Append(q, e))
           /\ Head(Append(q, e)) = IF q = <<>> THEN e ELSE Head(q)
  <1>1. /\ Append(q, e) \in Seq(Socket \cup {None})
        /\ Len(Append(q, e)) = Len(q) + 1
        /\ \A i \in 1..Len(q) : Append(q, e)[i] = q[i]
        /\ Append(q, e)[Len(q) + 1] = e
    BY AppendProperties
  <1>2. /\ Len(q) \in Nat /\ DOMAIN q = 1..Len(q)
        /\ DOMAIN Append(q, e) = 1..Len(q) + 1
        /\ q # <<>> => Len(q) # 0
    BY <1>1, LenProperties, EmptySeq
  <1>3. Head(Append(q, e)) = IF q = <<>> THEN e ELSE Head(q)
    BY HeadTailAppend
  <1>4. Later(q) => Later(Append(q, e))
    BY <1>1, <1>2 DEF Later
  <1>5. q # <<>> /\ e = None => Later(Append(q, e))
    <2> SUFFICES ASSUME q # <<>>, e = None PROVE Later(Append(q, e))
      OBVIOUS
    <2>1. Len(q) + 1 \in DOMAIN Append(q, e) /\ Len(q) + 1 >= 2
      BY <1>2
    <2> QED
      BY <1>1, <2>1 DEF Later
  <1> QED
    BY <1>3, <1>4, <1>5

LEMMA LaterTail ==
    ASSUME NEW q \in Seq(Socket \cup {None}), q # <<>>, Later(q)
    PROVE  Tail(q) # <<>> /\ (Later(Tail(q)) \/ Head(Tail(q)) = None)
  <1>1. /\ Tail(q) \in Seq(Socket \cup {None}) /\ Len(Tail(q)) = Len(q) - 1
        /\ \A i \in 1..Len(Tail(q)) : Tail(q)[i] = q[i + 1]
    BY HeadTailProperties
  <1>2. /\ Len(q) \in Nat /\ DOMAIN q = 1..Len(q)
        /\ DOMAIN Tail(q) = 1..Len(Tail(q))
    BY <1>1, LenProperties
  <1>3. PICK i \in 1..Len(q) : i >= 2 /\ q[i] = None
    BY <1>2 DEF Later
  <1>4. i - 1 \in 1..Len(Tail(q)) /\ Tail(q)[i - 1] = None
    <2>1. i - 1 \in 1..Len(Tail(q)) /\ (i - 1) + 1 = i
      BY <1>1, <1>2, <1>3
    <2> QED
      BY <1>1, <1>3, <2>1
  <1>5. Tail(q) # <<>>
    <2>1. Tail(q) = <<>> => Len(Tail(q)) = 0
      BY EmptySeq
    <2> QED
      BY <1>1, <1>2, <1>4, <2>1
  <1>6. CASE i - 1 >= 2
    BY <1>2, <1>4, <1>5, <1>6 DEF Later
  <1>7. CASE i - 1 = 1
    BY <1>4, <1>5, <1>7
  <1> QED
    BY <1>2, <1>3, <1>6, <1>7

\* A count or a read that found nothing, and "synced", are followed by the run of
\* whatever was saved since.
SyncedInv ==
    /\ run.step = "counted" /\ ~run.pending /\ replica.outbox # {} => Later(outgoing)
    /\ run.step = "peeked" /\ run.frame = {} /\ replica.outbox # {} => Later(outgoing)
    /\ agent.sync = "synced" /\ ~agent.stopped /\ replica.outbox # {} =>
          \/ Later(outgoing)
          \/ /\ outgoing # <<>> /\ Head(outgoing) = None
             /\ run.step = "idle" \/ (run.step = "counted" /\ run.pending)

\* A step that does not newly show "synced" over a waiting update.
NotNewlySynced ==
    \/ agent'.stopped
    \/ agent'.sync # "synced"
    \/ replica.outbox = {}
    \/ agent'.sync = agent.sync /\ agent'.stopped = agent.stopped

LEMMA SyncedQuiet ==
    ASSUME SyncedInv, NotNewlySynced, UNCHANGED <<outgoing, run>>,
           replica'.outbox = replica.outbox
    PROVE  SyncedInv'
  BY DEF SyncedInv, NotNewlySynced

LEMMA SyncedRunEnds ==
    ASSUME Typed, outgoing # <<>>, outgoing' = Tail(outgoing), run' = NoRun,
           replica'.outbox = replica.outbox,
           agent'.sync = "synced" /\ ~agent'.stopped /\ replica.outbox # {} => Later(outgoing)
    PROVE  SyncedInv'
  <1>1. Later(outgoing) =>
           Tail(outgoing) # <<>> /\ (Later(Tail(outgoing)) \/ Head(Tail(outgoing)) = None)
    BY LaterTail, TypedState
  <1>2. run'.step = "idle"
    BY DEF NoRun
  <1> QED
    BY <1>1, <1>2 DEF SyncedInv

LEMMA SyncedAppend ==
    ASSUME Typed, SyncedInv, NEW c \in Socket \cup {None}, outgoing' = Append(outgoing, c),
           run' = run, NotNewlySynced,
           c = None \/ replica'.outbox \subseteq replica.outbox
    PROVE  SyncedInv'
  <1>1. outgoing \in Seq(Socket \cup {None}) /\ (run.step # "idle" => outgoing # <<>>)
    BY TypedState DEF Typed
  <1>2. /\ Later(outgoing) => Later(outgoing')
        /\ outgoing # <<>> /\ c = None => Later(outgoing')
        /\ Head(outgoing') = IF outgoing = <<>> THEN c ELSE Head(outgoing)
        /\ outgoing' # <<>>
    BY <1>1, LaterAppend, AppendRange
  <1>3. CASE c = None
    BY <1>1, <1>2, <1>3 DEF SyncedInv
  <1>4. CASE replica'.outbox \subseteq replica.outbox
    BY <1>1, <1>2, <1>4 DEF SyncedInv, NotNewlySynced
  <1> QED
    BY <1>3, <1>4

LEMMA AgentStepSynced == Typed /\ SyncedInv /\ AgentStep => SyncedInv'
  <1> SUFFICES ASSUME Typed, SyncedInv, AgentStep PROVE SyncedInv'
    OBVIOUS
  <1>0. /\ agent \in Agent /\ conn \in Sockets /\ online \in BOOLEAN
        /\ (replica.outbox # {}) \in BOOLEAN
        /\ Without(conn, agent.socket) \in Sockets
    BY TypedState, WithoutSockets
  <1>1. CASE StartCounted
    <2>1. PICK a \in Agent : a = Counted(agent, replica.outbox # {})
      BY <1>0, AgentMethods
    <2>2. /\ a.stopped = agent.stopped
          /\ \/ a.sync = agent.sync
             \/ replica.outbox # {} /\ a.sync = "pending"
             \/ replica.outbox = {} /\ a.sync = "synced"
      BY <2>1, <1>0, CountedFields
    <2>3. agent' = a \/ agent' = Pause(a, "auth")
      <3>1. credential \in {"none", "good", "rejected"}
        BY TypedState
      <3>2. CASE credential = "none"
        BY <1>1, <2>1, <3>2 DEF StartCounted
      <3>3. CASE credential = "good"
        BY <1>1, <2>1, <3>3 DEF StartCounted
      <3>4. CASE credential = "rejected"
        BY <1>1, <2>1, <3>4 DEF StartCounted
      <3> QED
        BY <3>1, <3>2, <3>3, <3>4
    <2>4. Pause(a, "auth").sync = "auth"
      BY PauseFields
    <2>5. NotNewlySynced
      BY <2>2, <2>3, <2>4 DEF NotNewlySynced
    <2> QED
      BY <1>1, <2>5, SyncedQuiet DEF StartCounted
  <1>2. ASSUME NEW call \in {"validate", "validate stale"}, StartValidated(call)
        PROVE  SyncedInv'
    <2>1. agent'.stopped = agent.stopped /\ (agent'.sync = agent.sync \/ agent'.sync = "auth")
      BY <1>2, <1>0, ConnectFields DEF StartValidated
    <2> QED
      BY <1>2, <2>1, SyncedQuiet DEF StartValidated, NotNewlySynced
  <1>3. CASE StartRejected
    <2>1. Resumed(agent) \in Agent
      BY <1>0, AgentMethods
    <2>2. Pause(Resumed(agent), "auth").sync = "auth"
      BY <2>1, PauseFields
    <2>3. NotNewlySynced
      BY <1>3, <2>2 DEF StartRejected, NotNewlySynced
    <2> QED
      BY <1>3, <2>3, SyncedQuiet DEF StartRejected
  <1>4. CASE ResumeCounted
    <2>1. PICK a \in Agent : a = Counted(agent, replica.outbox # {})
      BY <1>0, AgentMethods
    <2>2. /\ a.stopped = agent.stopped
          /\ \/ a.sync = agent.sync
             \/ replica.outbox # {} /\ a.sync = "pending"
             \/ replica.outbox = {} /\ a.sync = "synced"
      BY <2>1, <1>0, CountedFields
    <2>5. Connect(online, a, conn)
      BY <1>4, <2>1 DEF ResumeCounted
    <2>3. agent'.stopped = a.stopped /\ (agent'.sync = a.sync \/ agent'.sync = "auth")
      BY <1>0, <2>5, ConnectFields
    <2>4. NotNewlySynced
      BY <2>2, <2>3 DEF NotNewlySynced
    <2> QED
      BY <1>4, <2>4, SyncedQuiet DEF ResumeCounted
  <1>5. CASE RunStarts
    <2>0. outgoing # <<>> /\ run.step = "idle" /\ agent' = agent /\ replica' = replica
      BY <1>5 DEF RunStarts
    <2>1. CASE agent.stopped /\ RunEnds(conn)
      BY <2>0, <2>1, SyncedRunEnds DEF RunEnds
    <2>2. CASE /\ run' = [NoRun EXCEPT !.step = "counted", !.pending = replica.outbox # {}]
               /\ UNCHANGED <<outgoing, conn>>
      <3>1. run'.step = "counted" /\ run'.pending = (replica.outbox # {})
        BY <2>2 DEF NoRun
      <3> QED
        BY <2>0, <2>2, <3>1 DEF SyncedInv
    <2> QED
      BY <1>5, <2>1, <2>2 DEF RunStarts
  <1>6. CASE RunCounts
    <2>1. run.pending \in BOOLEAN /\ outgoing # <<>> /\ run.step = "counted"
      BY <1>6, TypedState DEF RunCounts, Typed
    <2>2. PICK a \in Agent : a = Counted(agent, run.pending)
      BY <2>1, <1>0, AgentMethods
    <2>3. /\ a.stopped = agent.stopped
          /\ \/ a.sync = agent.sync /\ (agent.stopped \/ agent.sync # "synced")
             \/ run.pending /\ a.sync = "pending"
             \/ ~run.pending /\ a.sync = "synced"
      BY <2>1, <2>2, <1>0, CountedFields
    <2>4. agent' = a /\ replica' = replica
      BY <1>6, <2>2 DEF RunCounts
    <2>5. agent'.sync = "synced" /\ ~agent'.stopped /\ replica.outbox # {} => Later(outgoing)
      BY <2>1, <2>3, <2>4 DEF SyncedInv
    <2>6. CASE RunEnds(conn)
      BY <2>1, <2>4, <2>5, <2>6, SyncedRunEnds DEF RunEnds
    <2>7. CASE run'.step = "peeking" /\ outgoing' = outgoing
      BY <2>4, <2>5, <2>7 DEF SyncedInv
    <2> QED
      <3>1. \/ RunEnds(conn)
            \/ /\ run' = [NoRun EXCEPT !.step = "peeking", !.socket = a.socket]
               /\ outgoing' = outgoing
        BY <1>6, <2>2 DEF RunCounts
      <3>2. [NoRun EXCEPT !.step = "peeking", !.socket = a.socket].step = "peeking"
        BY DEF NoRun
      <3> QED
        BY <2>6, <2>7, <3>1, <3>2
  <1>7. CASE RunPeeks
    <2>0. PICK n \in 0..Len(history) :
             /\ (replica.outbox \cap Oldest(n) = {}) <=> (replica.outbox = {})
             /\ run' = [run EXCEPT !.step = "peeked", !.frame = replica.outbox \cap Oldest(n)]
             /\ replica' = IF replica.outbox \cap Oldest(n) = {} THEN replica
                           ELSE [replica EXCEPT !.frame = replica.outbox \cap Oldest(n)]
      BY <1>7 DEF RunPeeks
    <2> PICK f : f = replica.outbox \cap Oldest(n)
      OBVIOUS
    <2>1. /\ (f = {}) <=> (replica.outbox = {})
          /\ run' = [run EXCEPT !.step = "peeked", !.frame = f]
          /\ replica' = IF f = {} THEN replica ELSE [replica EXCEPT !.frame = f]
      BY <2>0
    <2>2. /\ run'.step = "peeked" /\ run'.frame = f /\ replica'.outbox = replica.outbox
      BY <2>1, TypedState
    <2>3. run.step = "peeking" /\ agent' = agent /\ outgoing' = outgoing
      BY <1>7 DEF RunPeeks
    <2> QED
      BY <2>1, <2>2, <2>3 DEF SyncedInv
  <1>8. CASE RunSends
    <2>1. outgoing # <<>> /\ run.step = "peeked" /\ replica' = replica
      BY <1>8 DEF RunSends, Typed
    <2>2. \E w : RunEnds(w)
      BY <1>8 DEF RunSends
    <2>3. outgoing' = Tail(outgoing) /\ run' = NoRun
      BY <2>2 DEF RunEnds
    <2>4. /\ agent'.stopped = agent.stopped
          /\ agent'.sync = agent.sync \/ run.frame = {}
      BY <1>8, <1>0 DEF RunSends, Agent
    <2>5. agent'.sync = "synced" /\ ~agent'.stopped /\ replica.outbox # {} => Later(outgoing)
      BY <2>1, <2>4 DEF SyncedInv
    <2> QED
      BY <2>1, <2>3, <2>5, SyncedRunEnds
  <1>9. CASE RetryFires
    <2>0. PICK a : a = [agent EXCEPT !.timer = FALSE]
      OBVIOUS
    <2>1. /\ a = [agent EXCEPT !.timer = FALSE] /\ a \in Agent
          /\ a.sync = agent.sync /\ a.stopped = agent.stopped
      BY <1>0, <2>0 DEF Agent
    <2>2. Connect(online, a, conn)
      BY <1>9, <2>1 DEF RetryFires
    <2>3. agent'.stopped = a.stopped /\ (agent'.sync = a.sync \/ agent'.sync = "auth")
      BY <1>0, <2>1, <2>2, ConnectFields
    <2> QED
      BY <1>9, <2>1, <2>3, SyncedQuiet DEF RetryFires, NotNewlySynced
  <1>10. CASE CatalogAnswers
    <2>1. Resumed(agent).sync = "pending"
      BY <1>0, ResumeFields
    <2>2. NotNewlySynced
      BY <1>10, <2>1 DEF CatalogAnswers, NotNewlySynced
    <2> QED
      BY <1>10, <2>2, SyncedQuiet DEF CatalogAnswers
  <1>11. CASE AnswerTimeout
    <2>1. TransportFailed(agent, "sync response timeout").sync \in {"error", "history"}
      BY <1>0, FailedFields
    <2> QED
      BY <1>11, <2>1, SyncedQuiet DEF AnswerTimeout, TimedOut, NotNewlySynced
  <1>12. CASE TickOffline
    <2>1. /\ ScheduleReconnect(Abandoned(agent)).sync = agent.sync
          /\ ScheduleReconnect(Abandoned(agent)).stopped = agent.stopped
      BY <1>0, AbandonFields, RetryFields
    <2> QED
      BY <1>12, <2>1, SyncedQuiet DEF TickOffline, NotNewlySynced
  <1>13. CASE RecheckAccess
    BY <1>13, SyncedQuiet DEF RecheckAccess, NotNewlySynced
  <1> QED
    BY <1>1, <1>2, <1>3, <1>4, <1>5, <1>6, <1>7, <1>8, <1>9, <1>10, <1>11, <1>12, <1>13
    DEF AgentStep

LEMMA SocketStepSynced ==
    Typed /\ SyncedInv /\ (\E c \in Socket : SocketStep(c)) => SyncedInv'
  <1> SUFFICES ASSUME Typed, SyncedInv, NEW c \in Socket, SocketStep(c) PROVE SyncedInv'
    OBVIOUS
  <1>0. agent \in Agent
    BY TypedState
  <1>f. \A why : /\ TransportFailed(agent, why).sync # "synced"
    BY <1>0, FailedFields
  <1>r. /\ ScheduleReconnect(Abandoned(agent)).sync = agent.sync
        /\ ScheduleReconnect(Abandoned(agent)).stopped = agent.stopped
    BY <1>0, AbandonFields, RetryFields
  <1>w. ASSUME NEW w, WelcomedBy(c, w, agent)
        PROVE  /\ NotNewlySynced /\ outgoing' = Append(outgoing, c)
    BY <1>w, <1>0 DEF WelcomedBy, NotNewlySynced, Agent
  <1>b. \A step, welcome : Begin(c, step, welcome) => SyncedInv'
    BY SyncedQuiet DEF Begin, NotNewlySynced
  <1>1. CASE SocketOpens(c) \/ SocketRefused(c) \/ HelloSent(c) \/ Downloaded(c)
    BY <1>1, SyncedQuiet DEF SocketOpens, SocketRefused, HelloSent, Downloaded, NotNewlySynced
  <1>2. CASE CloseDrained(c) \/ ReceiveResync(c)
    BY <1>2, <1>r, SyncedQuiet DEF CloseDrained, ReceiveResync, NotNewlySynced
  <1>3. CASE DownloadAborted(c) \/ DownloadRefused(c)
    BY <1>3, <1>f, SyncedQuiet DEF DownloadAborted, DownloadRefused, NotNewlySynced
  <1>4. CASE ReceiveWelcome(c) \/ ReceiveReplace(c) \/ ReceiveDownload(c) \/ ReceiveUpdate(c)
    BY <1>4, <1>b DEF ReceiveWelcome, ReceiveReplace, ReceiveDownload, ReceiveUpdate
  <1>5. CASE ReceiveEmptyWelcome(c)
    <2>1. WelcomedBy(c, Handled(c), agent) /\ run' = run /\ replica' = replica
      BY <1>5 DEF ReceiveEmptyWelcome
    <2> QED
      BY <2>1, <1>w, SyncedAppend
  <1>6. CASE ImportLands(c)
    <2>1. run' = run /\ replica'.outbox = replica.outbox
      BY <1>6, TypedState DEF ImportLands
    <2>2. CASE WelcomedBy(c, conn, agent)
      BY <2>1, <2>2, <1>w, SyncedAppend
    <2>3. CASE UNCHANGED <<agent, outgoing>>
      BY <2>1, <2>3, SyncedQuiet DEF NotNewlySynced
    <2> QED
      BY <1>6, <2>2, <2>3 DEF ImportLands
  <1>7. CASE ReplaceLands(c)
    <2>1. run' = run /\ replica'.outbox = replica.outbox
      BY <1>7, TypedState DEF ReplaceLands
    <2>2. CASE WelcomedBy(c, conn, agent)
      BY <2>1, <2>2, <1>w, SyncedAppend
    <2>3. CASE UNCHANGED <<agent, outgoing>>
      BY <2>1, <2>3, SyncedQuiet DEF NotNewlySynced
    <2>4. CASE agent' = TransportFailed(agent, "resync_required") /\ UNCHANGED outgoing
      BY <2>1, <2>4, <1>f, SyncedQuiet DEF NotNewlySynced
    <2> QED
      BY <1>7, <2>2, <2>3, <2>4 DEF ReplaceLands
  <1>8. CASE ReceiveAck(c)
    BY <1>8, <1>b, SyncedQuiet DEF ReceiveAck, NotNewlySynced
  <1>9. CASE AckLands(c)
    <2>1. run' = run /\ replica'.outbox \subseteq replica.outbox
      BY <1>9, TypedState DEF AckLands
    <2>2. CASE outgoing' = Append(outgoing, c)
      <3>1. agent'.sync = agent.sync /\ agent'.stopped = agent.stopped
        BY <1>9, <1>0 DEF AckLands, Agent
      <3> QED
        BY <2>1, <2>2, <3>1, SyncedAppend DEF NotNewlySynced
    <2>3. CASE UNCHANGED <<agent, outgoing>>
      BY <2>1, <2>3 DEF SyncedInv
    <2> QED
      BY <1>9, <2>2, <2>3 DEF AckLands
  <1>10. CASE ReceiveError(c)
    <2> PICK code : code = Received(c).code
      OBVIOUS
    <2>0. UNCHANGED <<outgoing, run, replica>> /\ conn[c].down # <<>>
          /\ Received(c).type = "error"
      BY <1>10 DEF ReceiveError, Receive, Received
    <2>1. CASE code = "recoverable"
      BY <1>10, <2>0, <2>1, <1>r, SyncedQuiet DEF ReceiveError, NotNewlySynced
    <2>2. CASE code = "fatal"
      <3>1. agent'.sync = "error"
        BY <1>10, <2>2, <1>0 DEF ReceiveError, Agent
      <3> QED
        BY <2>0, <3>1, SyncedQuiet DEF NotNewlySynced
    <2>3. CASE code # "recoverable" /\ code # "fatal"
      <3>1. agent' = Pause(agent, PauseReason(code))
        BY <1>10, <2>3 DEF ReceiveError
      <3>2. code \in ErrorCode
        BY <2>0, HandledFields, MessageTypes
      <3>3. PauseReason(code) # "synced"
        BY <2>3, <3>2 DEF PauseReason, ErrorCode
      <3>4. agent'.sync # "synced"
        BY <3>1, <3>3, <1>0, PauseFields
      <3> QED
        BY <2>0, <3>4, SyncedQuiet DEF NotNewlySynced
    <2> QED
      BY <2>1, <2>2, <2>3
  <1> QED
    BY <1>1, <1>2, <1>3, <1>4, <1>5, <1>6, <1>7, <1>8, <1>9, <1>10 DEF SocketStep

LEMMA ServerStepSynced ==
    Typed /\ SyncedInv /\ (\E c \in Socket : ServerStep(c) \/ ServerRefuses(c)) => SyncedInv'
  <1> SUFFICES ASSUME Typed, SyncedInv, NEW c \in Socket, ServerStep(c) \/ ServerRefuses(c)
               PROVE  SyncedInv'
    OBVIOUS
  <1>1. UNCHANGED <<agent, outgoing, run, replica>>
    BY DEF ServerStep, ServerHello, ServerDiscards, ServerUpdate, ServerEnds, MembershipTick,
           ServerCloses, ServerRefuses
  <1> QED
    BY <1>1, SyncedQuiet DEF NotNewlySynced

LEMMA DisturbanceSynced == Typed /\ SyncedInv /\ Disturbance => SyncedInv'
  <1> SUFFICES ASSUME Typed, SyncedInv, Disturbance PROVE SyncedInv'
    OBVIOUS
  <1>0. agent \in Agent /\ conn \in Sockets /\ Without(conn, agent.socket) \in Sockets
    BY TypedState, WithoutSockets
  <1>f. \A why : TransportFailed(agent, why).sync # "synced"
    BY <1>0, FailedFields
  <1>1. CASE StartFails
    BY <1>1, <1>0, FailToStartFields, SyncedQuiet DEF StartFails, NotNewlySynced
  <1>2. CASE Stop
    <2>1. PICK a \in Agent : a = Abandoned(agent)
      BY <1>0, AbandonFields
    <2>2. agent'.stopped
      BY <1>2, <2>1 DEF Stop, Agent
    <2> QED
      BY <1>2, <2>2, SyncedQuiet DEF Stop, NotNewlySynced
  <1>3. CASE RunFails
    <2> PICK c : c = Head(outgoing)
      OBVIOUS
    <2>1. outgoing # <<>> /\ run.step \in {"idle", "peeking"} /\ replica' = replica
      BY <1>3 DEF RunFails
    <2>2. \E w : RunEnds(w)
      BY <1>3 DEF RunFails
    <2>3. outgoing' = Tail(outgoing) /\ run' = NoRun
      BY <2>2 DEF RunEnds
    <2>4. CASE agent' = agent /\ (agent.stopped \/ (c = None /\ IsPaused(agent)) \/ c # None)
      <3>1. agent'.sync = "synced" /\ ~agent'.stopped /\ replica.outbox # {} => Later(outgoing)
        BY <2>1, <2>4 DEF SyncedInv, IsPaused, Paused
      <3> QED
        BY <2>1, <2>3, <3>1, SyncedRunEnds
    <2>5. CASE agent' = TransportFailed(agent, "outbox unavailable")
      BY <2>1, <2>3, <2>5, <1>f, SyncedRunEnds
    <2> QED
      BY <1>3, <2>4, <2>5 DEF RunFails
  <1>4. CASE GoOffline
    <2>1. /\ ScheduleReconnect(Abandoned(agent)).sync = agent.sync
          /\ ScheduleReconnect(Abandoned(agent)).stopped = agent.stopped
      BY <1>0, AbandonFields, RetryFields
    <2> QED
      BY <1>4, <2>1, SyncedQuiet DEF GoOffline, NotNewlySynced
  <1>5. CASE GoOnline
    <2>1. agent'.stopped = agent.stopped /\ (agent'.sync = agent.sync \/ agent'.sync = "auth")
      <3>1. CASE agent.stopped \/ agent.live = "paused"
        BY <1>5, <3>1 DEF GoOnline
      <3>2. CASE ~(agent.stopped \/ agent.live = "paused")
        <4>1. PICK a : a = [Abandoned(agent) EXCEPT !.timer = FALSE]
          OBVIOUS
        <4>2. /\ a \in Agent /\ a.stopped = agent.stopped /\ a.sync = agent.sync
          BY <1>0, <4>1, AbandonFields DEF Agent
        <4>3. Connect(TRUE, a, Without(conn, agent.socket))
          BY <1>5, <3>2, <4>1 DEF GoOnline
        <4> QED
          BY <1>0, <4>2, <4>3, ConnectFields
      <3> QED
        BY <3>1, <3>2
    <2> QED
      BY <1>5, <2>1, SyncedQuiet DEF GoOnline, NotNewlySynced
  <1>6. CASE CredentialChanges
    <2>1. Resumed(agent).sync = "pending"
      BY <1>0, ResumeFields
    <2>2. NotNewlySynced
      BY <1>6, <2>1 DEF CredentialChanges, NotNewlySynced
    <2> QED
      BY <1>6, <2>2, SyncedQuiet DEF CredentialChanges
  <1>7. CASE RemoveMember \/ InviteBack \/ DeleteGraph
    BY <1>7, SyncedQuiet DEF RemoveMember, InviteBack, DeleteGraph, NotNewlySynced
  <1>8. CASE SilenceTimeout
    BY <1>8, <1>f, SyncedQuiet DEF SilenceTimeout, TimedOut, NotNewlySynced
  <1>9. ASSUME NEW c \in Socket, LinkLost(c) \/ ImportDropped(c)
        PROVE  SyncedInv'
    BY <1>9, SyncedQuiet DEF LinkLost, ImportDropped, NotNewlySynced
  <1>10. ASSUME NEW c \in Socket, SocketCallFails(c)
         PROVE  SyncedInv'
    BY <1>10, <1>f, SyncedQuiet DEF SocketCallFails, NotNewlySynced
  <1>11. ASSUME NEW c \in Socket, ServerRefuses(c)
         PROVE  SyncedInv'
    BY <1>11, ServerStepSynced
  <1> QED
    BY <1>1, <1>2, <1>3, <1>4, <1>5, <1>6, <1>7, <1>8, <1>9, <1>10, <1>11 DEF Disturbance

LEMMA SyncedPreserved == Typed /\ SyncedInv /\ [Next]_vars => SyncedInv'
  <1> SUFFICES ASSUME Typed, SyncedInv, [Next]_vars PROVE SyncedInv'
    OBVIOUS
  <1>1. CASE UNCHANGED vars
    BY <1>1 DEF vars, SyncedInv
  <1>2. ASSUME NEW u \in Local, Save(u)
        PROVE  SyncedInv'
    BY <1>2, SyncedAppend DEF Save, NotNewlySynced
  <1>3. ASSUME NEW u \in Foreign, ForeignUpdate(u)
        PROVE  SyncedInv'
    BY <1>3, SyncedQuiet DEF ForeignUpdate, NotNewlySynced
  <1> QED
    BY <1>1, <1>2, <1>3, AgentStepSynced, SocketStepSynced, ServerStepSynced, DisturbanceSynced
    DEF Next

\* "Synced" is never shown over an update the outbox still holds, once the runs that
\* were asked for are over (SyncAgent.ts:842-891, wake and the outgoing chain).
THEOREM SyncedCorrect == Spec => []SyncedIsTrue
  <1>1. Init => SyncedInv
    BY DEF Init, SyncedInv, NoRun
  <1>2. SyncedInv => SyncedIsTrue
    <2>1. ASSUME SyncedInv, outgoing = <<>> PROVE ~Later(outgoing)
      BY <2>1 DEF Later
    <2> QED
      BY <2>1 DEF SyncedInv, SyncedIsTrue
  <1> QED
    BY <1>1, <1>2, TypesInitially, TypesPreserved, SyncedPreserved, PTL DEF Spec
-----------------------------------------------------------------------------
(* Delivery.  A set of the replica's updates is closed when it holds every  *)
(* update saved before one of its own; what the server has, what the outbox *)
(* let go, and what either would be after any frame still under way, are    *)
(* closed.                                                                  *)

LEMMA Largest ==
    ASSUME NEW N \in Nat, NEW T \in SUBSET (0..N), T # {}
    PROVE  \E m \in T : \A k \in T : k <= m
  <1>1. PICK U : U = {N - k : k \in T}
    OBVIOUS
  <1>2. U \in SUBSET Nat
    <2>1. \A k \in T : N - k \in Nat
      OBVIOUS
    <2> QED
      BY <1>1, <2>1
  <1>3. U # {}
    <2>1. PICK k \in T : TRUE
      OBVIOUS
    <2>2. N - k \in U
      BY <1>1
    <2> QED
      BY <2>2
  <1>4. PICK R : R = {ss \in Nat \X Nat : ss[1] < ss[2]}
    OBVIOUS
  <1>5. IsWellFoundedOn(R, Nat)
    BY <1>4, NatLessThanWellFounded DEF OpToRel
  <1>6. PICK u \in U : \A v \in U : ~ (<<v, u>> \in R)
    BY <1>2, <1>3, <1>5, WFMin
  <1>7. PICK m \in T : u = N - m
    BY <1>1, <1>6
  <1>8. \A k \in T : ~ (N - k < N - m)
    BY <1>1, <1>2, <1>4, <1>6, <1>7
  <1> QED
    BY <1>8

Closed(S) ==
    /\ S \subseteq Range(history)
    /\ \A i, j \in DOMAIN history : i < j /\ history[j] \in S => history[i] \in S
Retired == Range(history) \ replica.outbox
Sendable(f) == f \in SUBSET Local /\ Closed(f \cup Retired)

LEMMA ClosedUnion ==
    ASSUME NEW S, NEW T, Closed(S), Closed(T)
    PROVE  Closed(S \cup T)
  BY DEF Closed

\* A closed set is a prefix of the history.
LEMMA ClosedIsPrefix ==
    ASSUME history \in Seq(Local), NEW S, Closed(S), S # {}
    PROVE  \E n \in DOMAIN history : S = Oldest(n)
  <1>1. /\ Len(history) \in Nat /\ DOMAIN history = 1..Len(history)
        /\ Range(history) = {history[i] : i \in 1..Len(history)}
    BY LenProperties, RangeEquality
  <1>2. PICK T : T = {i \in 1..Len(history) : history[i] \in S}
    OBVIOUS
  <1>3. T \in SUBSET (0..Len(history)) /\ T # {}
    <2>1. PICK x \in S : x \in Range(history)
      BY DEF Closed
    <2>2. PICK i \in 1..Len(history) : x = history[i]
      BY <1>1, <2>1
    <2> QED
      BY <1>1, <1>2, <2>2
  <1>4. PICK n \in T : \A k \in T : k <= n
    BY <1>1, <1>3, Largest
  <1>5. n \in DOMAIN history /\ n \in 1..Len(history) /\ history[n] \in S
    BY <1>1, <1>2
  <1>6. ASSUME NEW x \in S
        PROVE  x \in Oldest(n)
    <2>1. PICK i \in 1..Len(history) : x = history[i]
      BY <1>1 DEF Closed
    <2>2. i <= n
      BY <1>2, <1>4, <2>1
    <2> QED
      BY <1>1, <1>5, <2>1, <2>2 DEF Oldest
  <1>7. ASSUME NEW x \in Oldest(n)
        PROVE  x \in S
    <2>1. PICK i \in 1..n : x = history[i]
      BY DEF Oldest
    <2>2. i = n \/ (i < n /\ i \in DOMAIN history)
      BY <1>1, <1>5
    <2> QED
      BY <1>5, <2>1, <2>2 DEF Closed
  <1> QED
    BY <1>5, <1>6, <1>7

\* The history only grows at its end, so a set stays closed.
LEMMA ClosedAppend ==
    ASSUME Typed, NEW u \in Local, u \notin Range(history), history' = Append(history, u)
    PROVE  /\ \A S : Closed(S) => Closed(S)'
           /\ IsInjective(history) => IsInjective(history)'
           /\ Range(history') = Range(history) \cup {u}
  <1>0. history \in Seq(Local)
    BY TypedState
  <1>1. /\ history' \in Seq(Local)
        /\ Len(history') = Len(history) + 1
        /\ \A i \in 1..Len(history) : history'[i] = history[i]
        /\ history'[Len(history) + 1] = u
        /\ Range(history') = Range(history) \cup {u}
    BY <1>0, AppendProperties, AppendRange
  <1>2. /\ Len(history) \in Nat /\ DOMAIN history = 1..Len(history)
        /\ DOMAIN history' = 1..Len(history) + 1
        /\ \A i \in 1..Len(history) : history[i] \in Range(history)
    BY <1>0, <1>1, LenProperties DEF Range
  <1>3. ASSUME NEW S, Closed(S)
        PROVE  Closed(S)'
    <2>1. u \notin S
      BY <1>3 DEF Closed
    <2>2. ASSUME NEW i \in DOMAIN history', NEW j \in DOMAIN history', i < j, history'[j] \in S
          PROVE  history'[i] \in S
      <3>1. j # Len(history) + 1
        BY <1>1, <2>1, <2>2
      <3>2. i \in 1..Len(history) /\ j \in 1..Len(history)
        BY <1>2, <2>2, <3>1
      <3> QED
        BY <1>1, <1>2, <1>3, <2>2, <3>2 DEF Closed
    <2> QED
      BY <1>1, <1>3, <2>2 DEF Closed
  <1>4. ASSUME IsInjective(history)
        PROVE  IsInjective(history)'
    <2>1. ASSUME NEW i \in DOMAIN history', NEW j \in DOMAIN history', history'[i] = history'[j]
          PROVE  i = j
      <3>1. CASE i = Len(history) + 1 \/ j = Len(history) + 1
        BY <1>1, <1>2, <2>1, <3>1
      <3>2. CASE i # Len(history) + 1 /\ j # Len(history) + 1
        <4>1. i \in 1..Len(history) /\ j \in 1..Len(history)
          BY <1>2, <3>2
        <4> QED
          BY <1>1, <1>2, <1>4, <2>1, <4>1 DEF IsInjective
      <3> QED
        BY <3>1, <3>2
    <2> QED
      BY <2>1 DEF IsInjective
  <1> QED
    BY <1>1, <1>3, <1>4

\* The oldest waiting updates complete what was let go.
LEMMA OldestSendable ==
    ASSUME Typed, IsInjective(history), Closed(Retired), NEW n \in 0..Len(history)
    PROVE  Sendable(replica.outbox \cap Oldest(n) \cap Range(history))
  <1>1. history \in Seq(Local) /\ replica.outbox \subseteq Local
    BY TypedState
  <1>2. /\ Len(history) \in Nat /\ DOMAIN history = 1..Len(history)
        /\ \A i \in DOMAIN history : history[i] \in Range(history)
    BY <1>1, LenProperties DEF Range
  <1>3. PICK f : f = replica.outbox \cap Oldest(n) \cap Range(history)
    OBVIOUS
  <1>4. ASSUME NEW i \in DOMAIN history, NEW j \in DOMAIN history, i < j,
               history[j] \in f \cup Retired
        PROVE  history[i] \in f \cup Retired
    <2>1. CASE history[j] \in Retired
      BY <1>4, <2>1 DEF Closed
    <2>2. CASE history[j] \in f
      <3>1. PICK k \in 1..n : history[j] = history[k]
        BY <1>3, <2>2 DEF Oldest
      <3>2. k \in DOMAIN history
        BY <1>2, <3>1
      <3>3. j = k
        BY <3>1, <3>2 DEF IsInjective
      <3>4. i \in 1..n
        BY <1>2, <1>4, <3>1, <3>3
      <3>5. history[i] \in Oldest(n)
        BY <3>4 DEF Oldest
      <3> QED
        BY <1>2, <1>3, <3>5 DEF Retired
    <2> QED
      BY <1>4, <2>1, <2>2
  <1>5. f \cup Retired \subseteq Range(history) /\ f \subseteq Local
    BY <1>1, <1>3 DEF Retired
  <1> QED
    BY <1>3, <1>4, <1>5 DEF Sendable, Closed
-----------------------------------------------------------------------------
(* Traffic: what a step may put on a socket's wire or hand to its handler.  *)
(* A new frame is the one the run read; an acknowledgement is of a frame     *)
(* the server has just read, or the handler's is one that had arrived.       *)

Follows(l, k) ==
    /\ \A m \in Range(l.up) : m \in Range(k.up) \/ m.type # "update" \/ m.ops = run.frame
    /\ \A m \in Range(l.down) :
          \/ m \in Range(k.down) \/ m.type # "ack"
          \/ /\ m.ops \subseteq server'
             /\ \E n \in Range(k.up) : n.type = "update" /\ n.ops = m.ops
    /\ l.rx.step = "ack" =>
          l.rx = k.rx \/ \E m \in Range(k.down) : m.type = "ack" /\ m.ops = l.rx.ops

\* Nothing new: fewer frames, or a handler that stops or waits for something else.
LEMMA FollowsLess ==
    ASSUME NEW k, NEW l,
           Range(l.up) \subseteq Range(k.up), Range(l.down) \subseteq Range(k.down),
           l.rx = k.rx \/ l.rx.step # "ack"
    PROVE  Follows(l, k)
  BY DEF Follows

LEMMA IdleRx == Idle.step = "idle" /\ [Idle EXCEPT !.step = "outbox"].step = "outbox"
  BY DEF Idle

LEMMA FollowsDetached ==
    ASSUME NEW k \in SocketState
    PROVE  Follows(Detached(k), k) /\ Follows([Detached(k) EXCEPT !.rx = Idle], k)
  <1>1. PICK l \in SocketState : l = Detached(k)
    BY DetachedFields
  <1>2. /\ l.up = k.up /\ l.down = <<>> /\ (l.rx = k.rx \/ l.rx = Idle)
    BY <1>1, DetachedFields
  <1>3. PICK g : g = [l EXCEPT !.rx = Idle]
    OBVIOUS
  <1>4. g.up = l.up /\ g.down = l.down /\ g.rx = Idle
    BY <1>3 DEF SocketState
  <1>5. Range(<<>>) = {}
    BY ShortRange
  <1>6. Follows(l, k)
    BY <1>2, <1>5, IdleRx, FollowsLess
  <1>7. Follows(g, k)
    BY <1>2, <1>4, <1>5, IdleRx, FollowsLess
  <1> QED
    BY <1>1, <1>3, <1>6, <1>7

LEMMA FollowsWithout ==
    ASSUME Typed, NEW c \in Socket \cup {None}, NEW d \in Socket
    PROVE  Follows(Without(conn, c)[d], conn[d])
  <1>1. conn \in Sockets /\ conn[d] \in SocketState
    BY TypedState
  <1>2. Without(conn, c)[d] = IF d = c THEN Detached(conn[d]) ELSE conn[d]
    BY <1>1, WithoutSockets
  <1>3. Follows(conn[d], conn[d])
    BY FollowsLess
  <1> QED
    BY <1>1, <1>2, <1>3, FollowsDetached

\* A run that ends, over sockets that followed the old ones.
LEMMA FollowsRunEnds ==
    ASSUME Typed, NEW w \in Sockets, outgoing # <<>>, RunEnds(w),
           NEW d \in Socket, Follows(w[d], conn[d])
    PROVE  Follows(conn'[d], conn[d])
  <1>1. Head(outgoing) \in Socket \cup {None} /\ conn' = RunEndedFor(w, Head(outgoing))
    BY RunEndsTypes
  <1>2. PICK l : l = [w[d] EXCEPT !.rx = Idle]
    OBVIOUS
  <1>3. conn'[d] = w[d] \/ conn'[d] = l
    BY <1>1, <1>2, RunEndedSockets
  <1>4. w[d] \in SocketState
    BY DEF Sockets
  <1>5. l.up = w[d].up /\ l.down = w[d].down /\ l.rx.step # "ack"
    BY <1>2, <1>4, IdleRx DEF SocketState
  <1>6. Follows(l, conn[d])
    BY <1>5 DEF Follows
  <1> QED
    BY <1>3, <1>6

LEMMA FollowsConnect ==
    ASSUME Typed, NEW up \in BOOLEAN, NEW a \in Agent, NEW w \in Sockets, Connect(up, a, w),
           \A d \in Socket : Follows(w[d], conn[d])
    PROVE  \A d \in Socket : Follows(conn'[d], conn[d])
  <1>1. CASE Keeps(a, w) \/ Waits(a, w)
    BY <1>1 DEF Keeps, Waits
  <1>2. CASE Takes(a, w)
    <2>1. PICK c \in Socket : conn' = [w EXCEPT ![c] = [Fresh EXCEPT !.ready = "connecting"]]
      BY <1>2 DEF Takes
    <2>2. PICK k : k = [Fresh EXCEPT !.ready = "connecting"]
      OBVIOUS
    <2>3. k.up = <<>> /\ k.down = <<>> /\ k.rx = Idle
      BY <2>2 DEF Fresh
    <2>4. Range(<<>>) = {}
      BY ShortRange
    <2>5. Follows(k, conn[c])
      BY <2>3, <2>4, IdleRx, FollowsLess
    <2>6. \A d \in Socket : conn'[d] = IF d = c THEN k ELSE w[d]
      BY <2>1, <2>2 DEF Sockets
    <2> QED
      BY <2>5, <2>6
  <1>3. Keeps(a, w) \/ Waits(a, w) \/ Takes(a, w)
    BY ConnectCases
  <1> QED
    BY <1>1, <1>2, <1>3

AllFollow == \A d \in Socket : Follows(conn'[d], conn[d])

LEMMA SameFollows == conn' = conn => AllFollow
  BY FollowsLess DEF AllFollow

LEMMA AgentStepTraffic == Typed /\ AgentStep => AllFollow
  <1> SUFFICES ASSUME Typed, AgentStep PROVE AllFollow
    OBVIOUS
  <1>0. /\ agent \in Agent /\ conn \in Sockets /\ online \in BOOLEAN
        /\ agent.socket \in Socket \cup {None}
        /\ (replica.outbox # {}) \in BOOLEAN
        /\ Without(conn, agent.socket) \in Sockets
    BY TypedState, WithoutSockets
  <1>s. \A d \in Socket : Follows(conn[d], conn[d])
    BY FollowsLess
  <1>w. \A d \in Socket : Follows(Without(conn, agent.socket)[d], conn[d])
    BY <1>0, FollowsWithout
  <1>e. ASSUME RunEnds(conn), outgoing # <<>>
        PROVE  AllFollow
    BY <1>e, <1>0, <1>s, FollowsRunEnds DEF AllFollow
  <1>c. ASSUME NEW a \in Agent, Connect(online, a, conn)
        PROVE  AllFollow
    BY <1>c, <1>0, <1>s, FollowsConnect DEF AllFollow
  <1>1. CASE StartCounted \/ RunPeeks \/ RecheckAccess
    BY <1>1, SameFollows DEF StartCounted, RunPeeks, RecheckAccess
  <1>2. ASSUME NEW call \in {"validate", "validate stale"}, StartValidated(call)
        PROVE  AllFollow
    BY <1>2, <1>0, <1>c DEF StartValidated
  <1>3. CASE StartRejected
    BY <1>3, <1>w DEF StartRejected, AllFollow
  <1>4. CASE ResumeCounted
    <2>1. PICK a \in Agent : a = Counted(agent, replica.outbox # {})
      BY <1>0, AgentMethods
    <2>2. Connect(online, a, conn)
      BY <1>4, <2>1 DEF ResumeCounted
    <2> QED
      BY <2>2, <1>c
  <1>5. CASE RunStarts
    <2>1. outgoing # <<>> /\ (RunEnds(conn) \/ conn' = conn)
      BY <1>5 DEF RunStarts
    <2> QED
      BY <2>1, <1>e, SameFollows
  <1>6. CASE RunCounts
    <2>1. outgoing # <<>> /\ (RunEnds(conn) \/ conn' = conn)
      BY <1>6 DEF RunCounts, Typed
    <2> QED
      BY <2>1, <1>e, SameFollows
  <1>8. CASE RunSends
    <2> PICK c : c = run.socket
      OBVIOUS
    <2>1. outgoing # <<>>
      BY <1>8 DEF RunSends, Typed
    <2>2. CASE RunEnds(conn)
      BY <2>1, <2>2, <1>e
    <2>3. CASE /\ MayFlush(agent, c)
               /\ RunEnds([conn EXCEPT ![c].up = Append(@, Msg("update", run.frame, ""))])
      <3>1. run.frame \in SUBSET Update
        BY TypedState DEF Update
      <3>2. PICK m \in Message : m = Msg("update", run.frame, "")
        BY <3>1, Replies
      <3>3. m.ops = run.frame
        BY <3>2 DEF Msg
      <3>4. c \in Socket /\ conn[c] \in SocketState /\ conn[c].up \in Seq(Message)
        BY <2>3, <1>0, TypedState, SocketFields DEF MayFlush
      <3>5. PICK w : w = [conn EXCEPT ![c].up = Append(@, m)]
        OBVIOUS
      <3>6. PICK k : k = [conn[c] EXCEPT !.up = Append(conn[c].up, m)]
        OBVIOUS
      <3>7. /\ Append(conn[c].up, m) \in Seq(Message)
            /\ Range(Append(conn[c].up, m)) = Range(conn[c].up) \cup {m}
        BY <3>4, AppendRange
      <3>8. /\ k \in SocketState /\ k.up = Append(conn[c].up, m) /\ k.down = conn[c].down
            /\ k.rx = conn[c].rx
        BY <3>4, <3>6, <3>7 DEF SocketState
      <3>9. w \in Sockets /\ w[c] = k /\ \A d \in Socket : d # c => w[d] = conn[d]
        BY <3>4, <3>5, <3>6, <3>8, <1>0 DEF Sockets
      <3>10. Follows(k, conn[c])
        BY <3>3, <3>7, <3>8 DEF Follows
      <3>11. \A d \in Socket : Follows(w[d], conn[d])
        BY <3>9, <3>10, <1>s
      <3>12. RunEnds(w)
        BY <2>3, <3>2, <3>5
      <3> QED
        BY <2>1, <3>9, <3>11, <3>12, FollowsRunEnds DEF AllFollow
    <2> QED
      BY <1>8, <2>2, <2>3 DEF RunSends
  <1>9. CASE RetryFires
    <2>1. PICK a : a = [agent EXCEPT !.timer = FALSE]
      OBVIOUS
    <2>2. a \in Agent
      BY <1>0, <2>1 DEF Agent
    <2>3. Connect(online, a, conn)
      BY <1>9, <2>1 DEF RetryFires
    <2> QED
      BY <2>2, <2>3, <1>c
  <1>10. CASE CatalogAnswers
    BY <1>10, <1>w, <1>s DEF CatalogAnswers, AllFollow
  <1>11. CASE AnswerTimeout
    BY <1>11, <1>w DEF AnswerTimeout, TimedOut, AllFollow
  <1>12. CASE TickOffline
    BY <1>12, <1>w DEF TickOffline, AllFollow
  <1> QED
    BY <1>1, <1>2, <1>3, <1>4, <1>5, <1>6, <1>8, <1>9, <1>10, <1>11, <1>12 DEF AgentStep

\* A handled frame is gone; the frame a handler begins with had arrived.
LEMMA FollowsHandled ==
    ASSUME Typed, NEW c \in Socket, conn[c].down # <<>>
    PROVE  \A d \in Socket : Follows(Handled(c)[d], conn[d])
  <1>1. /\ Handled(c)[c] = [conn[c] EXCEPT !.down = Tail(conn[c].down)]
        /\ \A d \in Socket : d # c => Handled(c)[d] = conn[d]
    BY HandledFields
  <1>2. conn[c] \in SocketState /\ conn[c].down \in Seq(Message)
    BY TypedState, SocketFields
  <1>3. Range(Tail(conn[c].down)) \subseteq Range(conn[c].down)
    BY <1>2, HeadTailRange
  <1>4. /\ Handled(c)[c].up = conn[c].up /\ Handled(c)[c].rx = conn[c].rx
        /\ Handled(c)[c].down = Tail(conn[c].down)
    BY <1>1, <1>2 DEF SocketState
  <1>5. Follows(Handled(c)[c], conn[c])
    BY <1>3, <1>4, FollowsLess
  <1> QED
    BY <1>1, <1>5, FollowsLess

LEMMA FollowsBegin ==
    ASSUME Typed, NEW c \in Socket, conn[c].down # <<>>,
           NEW step \in {"merge_download", "replace_download", "import", "replace", "ack"},
           NEW welcome \in BOOLEAN, Begin(c, step, welcome),
           step = "ack" => Received(c).type = "ack"
    PROVE  AllFollow
  <1>1. /\ conn'[c].up = conn[c].up /\ conn'[c].down = Tail(conn[c].down)
        /\ conn'[c].rx.step = step /\ conn'[c].rx.ops = Received(c).ops
        /\ \A d \in Socket : d # c => conn'[d] = conn[d]
    BY BeginFields
  <1>2. conn[c].down \in Seq(Message)
    BY TypedState, SocketFields
  <1>3. /\ Range(Tail(conn[c].down)) \subseteq Range(conn[c].down)
        /\ Received(c) \in Range(conn[c].down)
    BY <1>2, HeadTailRange DEF Received
  <1>4. Follows(conn'[c], conn[c])
    BY <1>1, <1>3 DEF Follows
  <1> QED
    BY <1>1, <1>4, FollowsLess DEF AllFollow

\* A handler that goes on to the outbox, or is over.
LEMMA FollowsOver ==
    ASSUME Typed, NEW c \in Socket, NEW w \in Sockets, NEW rx, rx.step # "ack",
           conn' = [w EXCEPT ![c].rx = rx], \A d \in Socket : Follows(w[d], conn[d])
    PROVE  AllFollow
  <1>1. PICK l : l = [w[c] EXCEPT !.rx = rx]
    OBVIOUS
  <1>2. l.up = w[c].up /\ l.down = w[c].down /\ l.rx = rx
    BY <1>1 DEF Sockets, SocketState
  <1>3. Follows(l, conn[c])
    BY <1>2 DEF Follows
  <1>4. conn'[c] = l /\ \A d \in Socket : d # c => conn'[d] = w[d]
    BY <1>1 DEF Sockets
  <1> QED
    BY <1>3, <1>4 DEF AllFollow

\* A close event keeps some of the frames already received.
LEMMA FollowsClosing ==
    ASSUME NEW k, NEW l \in SocketState, Follows(l, k), NEW g \in Closing(l)
    PROVE  Follows(g, k)
  <1>1. PICK n \in 0..Len(l.down) : g.down = SubSeq(l.down, 1, n)
    BY ClosingFields
  <1>2. g.up = l.up /\ g.rx = l.rx /\ l.down \in Seq(Message)
    BY ClosingFields, SocketFields
  <1>3. Range(g.down) \subseteq Range(l.down)
    BY <1>1, <1>2, PrefixRange
  <1> QED
    BY <1>2, <1>3 DEF Follows

LEMMA SocketStepTraffic == Typed /\ (\E c \in Socket : SocketStep(c)) => AllFollow
  <1> SUFFICES ASSUME Typed, NEW c \in Socket, SocketStep(c) PROVE AllFollow
    OBVIOUS
  <1>0. /\ agent \in Agent /\ conn \in Sockets /\ conn[c] \in SocketState
        /\ conn[c].up \in Seq(Message) /\ conn[c].down \in Seq(Message)
        /\ conn[c].rx \in Receiving
    BY TypedState, SocketFields
  <1>s. \A d \in Socket : Follows(conn[d], conn[d])
    BY FollowsLess
  <1>w. \A d \in Socket : Follows(Without(conn, c)[d], conn[d])
    BY FollowsWithout
  <1>k. ASSUME NEW k, conn' = [conn EXCEPT ![c] = k], Follows(k, conn[c])
        PROVE  AllFollow
    BY <1>k, <1>0, <1>s DEF AllFollow, Sockets
  <1>o. ASSUME NEW rx, conn' = [conn EXCEPT ![c].rx = rx], rx.step # "ack"
        PROVE  AllFollow
    BY <1>o, <1>0, <1>s, FollowsOver
  <1>1. CASE SocketOpens(c) \/ SocketRefused(c)
    <2>1. PICK ready : conn' = [conn EXCEPT ![c].ready = ready]
      BY <1>1 DEF SocketOpens, SocketRefused
    <2>2. PICK k : k = [conn[c] EXCEPT !.ready = ready]
      OBVIOUS
    <2>3. k.up = conn[c].up /\ k.down = conn[c].down /\ k.rx = conn[c].rx
      BY <2>2, <1>0 DEF SocketState
    <2>4. Follows(k, conn[c])
      BY <2>3, FollowsLess
    <2>5. conn' = [conn EXCEPT ![c] = k]
      BY <2>1, <2>2, <1>0 DEF Sockets
    <2> QED
      BY <2>4, <2>5, <1>k
  <1>2. CASE HelloSent(c)
    <2>1. PICK m \in Message : /\ m = Msg("hello", replica.doc, IF replica.base THEN "base" ELSE "")
                               /\ m.type = "hello"
      <3>1. replica.doc \in SUBSET Update
        BY TypedState
      <3> QED
        BY <3>1, Replies DEF Msg
    <2>2. PICK k : k = [conn[c] EXCEPT !.ready = "greeted", !.up = Append(conn[c].up, m)]
      OBVIOUS
    <2>3. Range(Append(conn[c].up, m)) = Range(conn[c].up) \cup {m}
      BY <1>0, AppendRange
    <2>4. /\ k.up = Append(conn[c].up, m) /\ k.down = conn[c].down /\ k.rx = conn[c].rx
      BY <2>2, <1>0 DEF SocketState
    <2>5. Follows(k, conn[c])
      BY <2>1, <2>3, <2>4 DEF Follows
    <2>6. conn' = [conn EXCEPT ![c] = k]
      <3>1. conn' = [conn EXCEPT ![c].ready = "greeted", ![c].up = Append(@, m)]
        BY <1>2, <2>1 DEF HelloSent
      <3> QED
        BY <3>1, <2>2, <1>0 DEF Sockets, SocketState
    <2> QED
      BY <2>5, <2>6, <1>k
  <1>3. CASE CloseDrained(c) \/ DownloadAborted(c) \/ DownloadRefused(c) \/ ReceiveResync(c)
    BY <1>3, <1>w DEF CloseDrained, DownloadAborted, DownloadRefused, ReceiveResync, AllFollow
  <1>4. CASE ReceiveWelcome(c)
    BY <1>4, FollowsBegin DEF ReceiveWelcome, Receive
  <1>5. CASE ReceiveReplace(c)
    BY <1>5, FollowsBegin DEF ReceiveReplace, Receive
  <1>6. CASE ReceiveUpdate(c)
    BY <1>6, FollowsBegin DEF ReceiveUpdate, Receive
  <1>7. CASE ReceiveDownload(c)
    BY <1>7, FollowsBegin DEF ReceiveDownload, Receive, Downloading
  <1>8. CASE ReceiveEmptyWelcome(c)
    <2>1. conn[c].down # <<>> /\ conn' = [Handled(c) EXCEPT ![c].rx = [Idle EXCEPT !.step = "outbox"]]
      BY <1>8 DEF ReceiveEmptyWelcome, Receive, WelcomedBy
    <2>2. Handled(c) \in Sockets /\ \A d \in Socket : Follows(Handled(c)[d], conn[d])
      BY <2>1, HandledFields, FollowsHandled
    <2> QED
      BY <2>1, <2>2, IdleRx, FollowsOver
  <1>9. CASE Downloaded(c)
    <2>1. PICK step \in {"replace", "import"} :
             step = IF conn[c].rx.step = "replace_download" THEN "replace" ELSE "import"
      OBVIOUS
    <2>2. PICK rx : rx = [conn[c].rx EXCEPT !.ops = server, !.step = step]
      OBVIOUS
    <2>3. rx.step = step
      BY <2>2, <1>0 DEF Receiving
    <2>4. conn' = [conn EXCEPT ![c].rx = rx]
      BY <1>9, <1>0, <2>1, <2>2 DEF Downloaded, Sockets, SocketState, Receiving
    <2> QED
      BY <2>1, <2>3, <2>4, <1>o
  <1>10. CASE ImportLands(c)
    <2>1. \/ conn' = [conn EXCEPT ![c].rx = [Idle EXCEPT !.step = "outbox"]]
          \/ conn' = [conn EXCEPT ![c].rx = Idle]
      BY <1>10 DEF ImportLands, WelcomedBy
    <2> QED
      BY <2>1, <1>o, IdleRx
  <1>11. CASE ReplaceLands(c)
    <2>1. \/ conn' = [conn EXCEPT ![c].rx = [Idle EXCEPT !.step = "outbox"]]
          \/ conn' = [conn EXCEPT ![c].rx = Idle]
          \/ conn' = [Without(conn, c) EXCEPT ![c].rx = Idle]
      BY <1>11 DEF ReplaceLands, WelcomedBy
    <2>2. Without(conn, c) \in Sockets
      BY <1>0, WithoutSockets
    <2> QED
      BY <2>1, <2>2, <1>o, <1>w, IdleRx, FollowsOver
  <1>12. CASE ReceiveAck(c)
    <2>1. conn[c].down # <<>> /\ Received(c).type = "ack"
      BY <1>12 DEF ReceiveAck, Receive, Received
    <2>2. CASE Begin(c, "ack", FALSE)
      BY <2>1, <2>2, FollowsBegin
    <2>3. CASE conn' = Handled(c)
      BY <2>1, <2>3, FollowsHandled DEF AllFollow
    <2> QED
      BY <1>12, <2>2, <2>3 DEF ReceiveAck
  <1>13. CASE AckLands(c)
    <2>1. \/ conn' = [conn EXCEPT ![c].rx = [Idle EXCEPT !.step = "outbox"]]
          \/ conn' = [conn EXCEPT ![c].rx = Idle]
      BY <1>13 DEF AckLands
    <2> QED
      BY <2>1, <1>o, IdleRx
  <1>14. CASE ReceiveError(c)
    <2>0. conn[c].down # <<>>
      BY <1>14 DEF ReceiveError, Receive
    <2>1. Handled(c) \in Sockets /\ \A d \in Socket : Follows(Handled(c)[d], conn[d])
      BY <2>0, HandledFields, FollowsHandled
    <2>2. CASE conn' = Without(conn, c) \/ conn' = Handled(c)
      BY <2>1, <2>2, <1>w DEF AllFollow
    <2>3. ASSUME NEW k \in Closing(Handled(c)[c]), conn' = [conn EXCEPT ![c] = k]
          PROVE  AllFollow
      <3>1. Handled(c)[c] \in SocketState /\ Follows(Handled(c)[c], conn[c])
        BY <2>1 DEF Sockets
      <3>5. Follows(k, conn[c])
        BY <2>3, <3>1, FollowsClosing
      <3> QED
        BY <2>3, <3>5, <1>k
    <2> QED
      BY <1>14, <2>2, <2>3 DEF ReceiveError
  <1> QED
    BY <1>1, <1>2, <1>3, <1>4, <1>5, <1>6, <1>7, <1>8, <1>9, <1>10, <1>11, <1>12, <1>13,
       <1>14 DEF SocketStep

LEMMA ServerStepTraffic ==
    Typed /\ (\E c \in Socket : ServerStep(c) \/ ServerRefuses(c)) => AllFollow
  <1> SUFFICES ASSUME Typed, NEW c \in Socket, ServerStep(c) \/ ServerRefuses(c) PROVE AllFollow
    OBVIOUS
  <1>0. /\ conn \in Sockets /\ conn[c] \in SocketState
        /\ conn[c].up \in Seq(Message) /\ conn[c].down \in Seq(Message)
        /\ conn[c].session \in {"none", "joined", "ended"}
    BY TypedState, SocketFields
  <1>s. \A d \in Socket : Follows(conn[d], conn[d])
    BY FollowsLess
  <1>k. ASSUME NEW k, conn' = [conn EXCEPT ![c] = k], Follows(k, conn[c])
        PROVE  AllFollow
    BY <1>k, <1>0, <1>s DEF AllFollow, Sockets
  <1>r. ASSUME NEW m \in Message, NEW session \in {"none", "joined", "ended"},
               Reply(c, <<m>>, session), conn[c].up # <<>>,
               \/ m.type # "ack"
               \/ /\ m.ops \subseteq server'
                  /\ \E n \in Range(conn[c].up) : n.type = "update" /\ n.ops = m.ops
        PROVE  AllFollow
    <2>0. PICK q : q = <<m>>
      OBVIOUS
    <2>1. q \in Seq(Message) /\ Range(q) = {m}
      BY <2>0, ShortRange
    <2>2. /\ conn'[c].up = Tail(conn[c].up) /\ conn'[c].rx = conn[c].rx
          /\ conn'[c].down = IF conn[c].ready = "greeted" THEN conn[c].down \o q
                             ELSE conn[c].down
          /\ \A d \in Socket : d # c => conn'[d] = conn[d]
      BY <1>r, <2>0, <2>1, ReplyFields
    <2>3. Range(conn[c].down \o q) = Range(conn[c].down) \cup {m}
      BY <1>0, <2>1, RangeConcatenation
    <2>4. Range(Tail(conn[c].up)) \subseteq Range(conn[c].up)
      BY <1>r, <1>0, HeadTailRange
    <2>5. Follows(conn'[c], conn[c])
      BY <1>r, <2>2, <2>3, <2>4 DEF Follows
    <2> QED
      BY <2>2, <2>5, <1>s DEF AllFollow
  <1>f. \A type : Serves(c, type) =>
           /\ conn[c].up # <<>> /\ Head(conn[c].up) \in Message
           /\ Head(conn[c].up) \in Range(conn[c].up) /\ Head(conn[c].up).type = type
    BY <1>0, HeadTailRange DEF Serves
  <1>e. \A code \in ErrorCode : Msg("error", {}, code) \in Message
                                /\ Msg("error", {}, code).type # "ack"
    BY Errors
  <1>1. CASE ServerHello(c)
    <2>1. conn[c].up # <<>>
      BY <1>1, <1>f DEF ServerHello
    <2>2. CASE access # "member"
      <3>1. Reply(c, <<Msg("error", {}, "access_denied")>>, "ended")
        BY <1>1, <2>2 DEF ServerHello
      <3> QED
        BY <2>1, <3>1, <1>e, <1>r, Errors
    <2>3. CASE access = "member"
      <3> PICK hello, gap : hello = Head(conn[c].up) /\ gap = server \ hello.ops
        OBVIOUS
      <3>1. PICK m \in IF hello.code = "base"
                       THEN {Msg("welcome", gap, ""), Msg("merge_download", {}, "")}
                       ELSE {Msg("replace", server, ""), Msg("replace_download", {}, "")} :
                 Reply(c, <<m>>, "joined")
        BY <1>1, <2>3 DEF ServerHello
      <3>2. gap \in SUBSET Update /\ server \in SUBSET Update
        BY TypedState
      <3>3. m \in Message
        BY <3>1, <3>2, Replies
      <3>4. m.type # "ack"
        <4>1. \/ m = Msg("welcome", gap, "") \/ m = Msg("merge_download", {}, "")
              \/ m = Msg("replace", server, "") \/ m = Msg("replace_download", {}, "")
          BY <3>1
        <4>2. \A ops : /\ Msg("welcome", ops, "").type # "ack"
                       /\ Msg("merge_download", ops, "").type # "ack"
                       /\ Msg("replace", ops, "").type # "ack"
                       /\ Msg("replace_download", ops, "").type # "ack"
          BY DEF Msg
        <4> QED
          BY <4>1, <4>2
      <3> QED
        BY <2>1, <3>1, <3>3, <3>4, <1>r
    <2> QED
      BY <2>2, <2>3
  <1>2. CASE ServerDiscards(c)
    <2>1. Reply(c, <<>>, conn[c].session) /\ conn[c].up # <<>>
      BY <1>2, <1>f DEF ServerDiscards
    <2>2. <<>> \in Seq(Message) /\ conn[c].down \o <<>> = conn[c].down
      BY <1>0, ShortRange, ConcatEmptySeq
    <2>3. /\ conn'[c].up = Tail(conn[c].up) /\ conn'[c].rx = conn[c].rx
          /\ conn'[c].down = conn[c].down
          /\ \A d \in Socket : d # c => conn'[d] = conn[d]
      BY <1>0, <2>1, <2>2, ReplyFields
    <2>4. Range(Tail(conn[c].up)) \subseteq Range(conn[c].up)
      BY <2>1, <1>0, HeadTailRange
    <2>5. Follows(conn'[c], conn[c])
      BY <2>3, <2>4, FollowsLess
    <2> QED
      BY <2>3, <2>5, <1>s DEF AllFollow
  <1>3. CASE ServerUpdate(c)
    <2> PICK f : f = Head(conn[c].up).ops
      OBVIOUS
    <2>1. /\ conn[c].up # <<>> /\ f \in SUBSET Update
          /\ \E n \in Range(conn[c].up) : n.type = "update" /\ n.ops = f
      BY <1>3, <1>f, MessageTypes DEF ServerUpdate
    <2>2. CASE access = "member"
      <3>1. server' = server \cup f /\ Reply(c, <<Msg("ack", f, "")>>, "joined")
        BY <1>3, <2>2 DEF ServerUpdate
      <3>2. PICK m \in Message : m = Msg("ack", f, "")
        BY <2>1, Replies
      <3>3. m.ops = f
        BY <3>2 DEF Msg
      <3> QED
        BY <2>1, <3>1, <3>2, <3>3, <1>r
    <2>3. CASE access # "member"
      <3>1. Reply(c, <<Msg("error", {}, "access_denied")>>, "ended")
        BY <1>3, <2>3 DEF ServerUpdate
      <3> QED
        BY <2>1, <3>1, <1>e, <1>r, Errors
    <2> QED
      BY <2>2, <2>3
  <1>4. CASE ServerEnds(c)
    <2>1. PICK k : k = [conn[c] EXCEPT !.session = "none", !.up = <<>>]
      OBVIOUS
    <2>2. k.up = <<>> /\ k.down = conn[c].down /\ k.rx = conn[c].rx
      BY <2>1, <1>0 DEF SocketState
    <2>3. Follows(k, conn[c])
      BY <2>2, ShortRange, FollowsLess
    <2>4. conn' = [conn EXCEPT ![c] = k]
      BY <1>4, <2>1, <1>0 DEF ServerEnds, Sockets, SocketState
    <2> QED
      BY <2>3, <2>4, <1>k
  <1>5. CASE MembershipTick(c)
    <2>1. PICK m \in Message : m = Msg("error", {}, "access_denied") /\ m.type = "error"
      BY Errors
    <2>2. PICK down : down = IF conn[c].ready = "greeted" /\ credential = "good"
                             THEN Append(conn[c].down, m) ELSE conn[c].down
      OBVIOUS
    <2>3. PICK k : k = [conn[c] EXCEPT !.session = "ended", !.down = down]
      OBVIOUS
    <2>4. k.up = conn[c].up /\ k.down = down /\ k.rx = conn[c].rx
      BY <2>3, <1>0 DEF SocketState
    <2>5. Range(Append(conn[c].down, m)) = Range(conn[c].down) \cup {m}
      BY <1>0, AppendRange
    <2>6. Follows(k, conn[c])
      BY <2>1, <2>2, <2>4, <2>5 DEF Follows
    <2>7. conn' = [conn EXCEPT ![c] = k]
      BY <1>5, <2>1, <2>2, <2>3, <1>0 DEF MembershipTick, Sockets, SocketState
    <2> QED
      BY <2>6, <2>7, <1>k
  <1>6. CASE ServerCloses(c)
    <2>1. PICK k : k = [conn[c] EXCEPT !.ready = "closing"]
      OBVIOUS
    <2>2. k.up = conn[c].up /\ k.down = conn[c].down /\ k.rx = conn[c].rx
      BY <2>1, <1>0 DEF SocketState
    <2>3. Follows(k, conn[c])
      BY <2>2, FollowsLess
    <2>4. conn' = [conn EXCEPT ![c] = k]
      BY <1>6, <2>1, <1>0 DEF ServerCloses, Sockets
    <2> QED
      BY <2>3, <2>4, <1>k
  <1>7. CASE ServerRefuses(c)
    <2>1. conn[c].up # <<>>
      BY <1>7, <1>f DEF ServerRefuses
    <2>2. \E m \in Message, session \in {"joined", "ended"} :
             Reply(c, <<m>>, session) /\ m.type # "ack"
      <3>0. Msg("resync", {}, "").type # "ack"
        BY DEF Msg
      <3>1. CASE Reply(c, <<Msg("error", {}, "unsupported")>>, "ended")
        BY <3>1, <1>e, Errors
      <3>2. CASE Reply(c, <<Msg("error", {}, "fatal")>>, "joined")
        BY <3>2, <1>e, Errors
      <3>3. CASE Reply(c, <<Msg("error", {}, "recoverable")>>, "joined")
        BY <3>3, <1>e, Errors
      <3>4. CASE Reply(c, <<Msg("resync", {}, "")>>, "ended")
        BY <3>0, <3>4, Replies
      <3> QED
        BY <1>7, <3>1, <3>2, <3>3, <3>4 DEF ServerRefuses
    <2> QED
      BY <2>1, <2>2, <1>r
  <1> QED
    BY <1>1, <1>2, <1>3, <1>4, <1>5, <1>6, <1>7 DEF ServerStep

\* A message for every joined session.
LEMMA FollowsBroadcast ==
    ASSUME Typed, NEW k \in SocketState, NEW m \in Message, m.type # "ack"
    PROVE  /\ Follows([k EXCEPT !.down = Append(@, m)], k)
           /\ \A session : Follows([k EXCEPT !.session = session,
                                      !.down = IF k.ready = "greeted" THEN Append(@, m) ELSE @], k)
  <1>1. k.down \in Seq(Message)
    BY SocketFields
  <1>2. Range(Append(k.down, m)) = Range(k.down) \cup {m}
    BY <1>1, AppendRange
  <1>3. ASSUME NEW l, l.up = k.up, l.rx = k.rx, l.down = Append(k.down, m) \/ l.down = k.down
        PROVE  Follows(l, k)
    <2>1. Range(l.up) = Range(k.up) /\ \A n \in Range(l.down) : n \in Range(k.down) \/ n = m
      BY <1>2, <1>3
    <2> QED
      BY <1>3, <2>1 DEF Follows
  <1>4. PICK l : l = [k EXCEPT !.down = Append(@, m)]
    OBVIOUS
  <1>5. l.up = k.up /\ l.rx = k.rx /\ l.down = Append(k.down, m)
    BY <1>4 DEF SocketState
  <1>6. ASSUME NEW session
        PROVE  Follows([k EXCEPT !.session = session,
                          !.down = IF k.ready = "greeted" THEN Append(@, m) ELSE @], k)
    <2>1. PICK g : g = [k EXCEPT !.session = session,
                          !.down = IF k.ready = "greeted" THEN Append(@, m) ELSE @]
      OBVIOUS
    <2>2. g.up = k.up /\ g.rx = k.rx /\ (g.down = Append(k.down, m) \/ g.down = k.down)
      BY <2>1 DEF SocketState
    <2> QED
      BY <1>3, <2>1, <2>2
  <1> QED
    BY <1>3, <1>4, <1>5, <1>6

LEMMA DisturbanceTraffic == Typed /\ Disturbance => AllFollow
  <1> SUFFICES ASSUME Typed, Disturbance PROVE AllFollow
    OBVIOUS
  <1>0. /\ agent \in Agent /\ conn \in Sockets /\ agent.socket \in Socket \cup {None}
        /\ Without(conn, agent.socket) \in Sockets
    BY TypedState, WithoutSockets
  <1>s. \A d \in Socket : Follows(conn[d], conn[d])
    BY FollowsLess
  <1>w. \A c \in Socket \cup {None} : \A d \in Socket : Follows(Without(conn, c)[d], conn[d])
    BY FollowsWithout
  <1>1. CASE StartFails \/ RemoveMember \/ InviteBack
    BY <1>1, SameFollows DEF StartFails, RemoveMember, InviteBack
  <1>2. CASE Stop \/ SilenceTimeout
    BY <1>2, <1>0, <1>w DEF Stop, SilenceTimeout, TimedOut, AllFollow
  <1>3. CASE RunFails
    <2>1. outgoing # <<>> /\ (RunEnds(conn) \/ RunEnds(Without(conn, agent.socket)))
      BY <1>3 DEF RunFails
    <2> QED
      BY <2>1, <1>0, <1>s, <1>w, FollowsRunEnds DEF AllFollow
  <1>4. CASE GoOffline
    BY <1>4, <1>0, <1>s, <1>w DEF GoOffline, AllFollow
  <1>5. CASE GoOnline
    <2>1. CASE agent.stopped \/ agent.live = "paused"
      BY <1>5, <2>1, SameFollows DEF GoOnline
    <2>2. CASE ~(agent.stopped \/ agent.live = "paused")
      <3>1. PICK a : a = [Abandoned(agent) EXCEPT !.timer = FALSE]
        OBVIOUS
      <3>2. a \in Agent
        BY <1>0, <3>1, AbandonFields DEF Agent
      <3>3. Connect(TRUE, a, Without(conn, agent.socket))
        BY <1>5, <2>2, <3>1 DEF GoOnline
      <3> QED
        BY <1>0, <1>w, <3>2, <3>3, FollowsConnect DEF AllFollow
    <2> QED
      BY <2>1, <2>2
  <1>6. CASE CredentialChanges
    BY <1>6, <1>0, <1>s, <1>w DEF CredentialChanges, AllFollow
  <1>7. CASE DeleteGraph
    <2>1. PICK m \in Message : m = Msg("error", {}, "membership_revoked") /\ m.type = "error"
      BY Errors
    <2>2. ASSUME NEW d \in Socket
          PROVE  Follows(conn'[d], conn[d])
      <3>1. conn[d] \in SocketState
        BY TypedState
      <3>2. PICK l : l = [conn[d] EXCEPT !.session = "ended",
                            !.down = IF conn[d].ready = "greeted" THEN Append(@, m) ELSE @]
        OBVIOUS
      <3>3. Follows(l, conn[d])
        BY <2>1, <3>1, <3>2, FollowsBroadcast
      <3>4. conn'[d] = IF conn[d].session # "joined" THEN conn[d] ELSE l
        BY <1>7, <2>1, <3>2 DEF DeleteGraph
      <3> QED
        BY <3>3, <3>4, <1>s
    <2> QED
      BY <2>2 DEF AllFollow
  <1>8. ASSUME NEW c \in Socket, LinkLost(c)
        PROVE  AllFollow
    <2>1. PICK k \in Closing(conn[c]) : conn' = [conn EXCEPT ![c] = k]
      BY <1>8 DEF LinkLost
    <2>2. Follows(k, conn[c])
      BY <2>1, <1>s, TypedState, FollowsClosing
    <2> QED
      BY <2>1, <2>2, <1>0, <1>s DEF AllFollow, Sockets
  <1>9. ASSUME NEW c \in Socket, SocketCallFails(c)
        PROVE  AllFollow
    <2>1. conn' = [Without(conn, c) EXCEPT ![c].rx = Idle] /\ Without(conn, c) \in Sockets
      BY <1>9, <1>0, WithoutSockets DEF SocketCallFails
    <2> QED
      BY <2>1, <1>w, IdleRx, FollowsOver
  <1>10. ASSUME NEW c \in Socket, ImportDropped(c)
         PROVE  AllFollow
    BY <1>10, <1>0, <1>s, IdleRx, FollowsOver DEF ImportDropped
  <1>11. ASSUME NEW c \in Socket, ServerRefuses(c)
         PROVE  AllFollow
    BY <1>11, ServerStepTraffic
  <1> QED
    BY <1>1, <1>2, <1>3, <1>4, <1>5, <1>6, <1>7, <1>8, <1>9, <1>10, <1>11 DEF Disturbance

LEMMA Traffic == Typed /\ [Next]_vars => AllFollow
  <1> SUFFICES ASSUME Typed, [Next]_vars PROVE AllFollow
    OBVIOUS
  <1>1. CASE UNCHANGED vars
    BY <1>1, SameFollows DEF vars
  <1>2. ASSUME NEW u \in Local, Save(u)
        PROVE  AllFollow
    BY <1>2, SameFollows DEF Save
  <1>3. ASSUME NEW u \in Foreign, ForeignUpdate(u)
        PROVE  AllFollow
    <2>0. {u} \in SUBSET Update
      BY DEF Update
    <2>3. Msg("update", {u}, "").type = "update"
      BY DEF Msg
    <2>1. PICK m \in Message : m = Msg("update", {u}, "") /\ m.type = "update"
      BY <2>0, <2>3, Replies
    <2>2. ASSUME NEW d \in Socket
          PROVE  Follows(conn'[d], conn[d])
      <3>1. conn[d] \in SocketState
        BY TypedState
      <3>2. PICK l : l = [conn[d] EXCEPT !.down = Append(@, m)]
        OBVIOUS
      <3>3. Follows(l, conn[d]) /\ Follows(conn[d], conn[d])
        BY <2>1, <3>1, <3>2, FollowsBroadcast, FollowsLess
      <3>4. conn'[d] = conn[d] \/ conn'[d] = l
        BY <1>3, <2>1, <3>2 DEF ForeignUpdate
      <3> QED
        BY <3>3, <3>4
    <2> QED
      BY <2>2 DEF AllFollow
  <1> QED
    BY <1>1, <1>2, <1>3, AgentStepTraffic, SocketStepTraffic, ServerStepTraffic,
       DisturbanceTraffic DEF Next
-----------------------------------------------------------------------------
(* The delivery invariant, and the refinement.                              *)

Acked(f) == Sendable(f) /\ f \subseteq server
Wire(k) ==
    /\ \A m \in Range(k.up) : m.type = "update" => Sendable(m.ops)
    /\ \A m \in Range(k.down) : m.type = "ack" => Acked(m.ops)
    /\ k.rx.step = "ack" => Acked(k.rx.ops)
DeliveryInv ==
    /\ replica.outbox \subseteq Range(history)
    /\ IsInjective(history)
    /\ Closed(server \cap Local)
    /\ Closed(Retired) /\ Retired \subseteq server
    /\ Sendable(run.frame)
    /\ \A c \in Socket : Wire(conn[c])

\* One step of the abstract specification: an update recorded, delivered or retired,
\* or nothing of the three.
Delivers ==
    \/ \E u \in Local :
          /\ u \notin Range(history) /\ history' = Append(history, u)
          /\ server' \cap Local = server \cap Local /\ Retired' = Retired
    \/ history' = history /\ Retired' = Retired /\ server \subseteq server'
    \/ /\ history' = history /\ Retired \subseteq Retired'
       /\ server' \cap Local = server \cap Local

\* Every frame and acknowledgement under way stays one that can be sent or counted.
LEMMA WiresStand ==
    ASSUME Typed, DeliveryInv, AllFollow, server \subseteq server',
           \A f : Sendable(f) => Sendable(f)'
    PROVE  \A d \in Socket : Wire(conn[d])'
  <1>3. \A f : f \subseteq server' /\ Sendable(f) => Acked(f)'
    BY DEF Acked
  <1> SUFFICES ASSUME NEW d \in Socket PROVE Wire(conn[d])'
    OBVIOUS
  <1>1. Wire(conn[d]) /\ Follows(conn'[d], conn[d])
    BY DEF DeliveryInv, AllFollow
  <1>2. ASSUME NEW m \in Range(conn'[d].up), m.type = "update"
        PROVE  Sendable(m.ops)'
    <2>1. m \in Range(conn[d].up) \/ m.ops = run.frame
      BY <1>1, <1>2 DEF Follows
    <2> QED
      BY <2>1, <1>1, <1>2 DEF Wire, DeliveryInv
  <1>4. ASSUME NEW m \in Range(conn'[d].down), m.type = "ack"
        PROVE  Acked(m.ops)'
    <2>1. CASE m \in Range(conn[d].down)
      BY <2>1, <1>1, <1>4, <1>3 DEF Wire, Acked
    <2>2. CASE /\ m.ops \subseteq server'
               /\ \E n \in Range(conn[d].up) : n.type = "update" /\ n.ops = m.ops
      BY <2>2, <1>1, <1>3 DEF Wire
    <2> QED
      BY <2>1, <2>2, <1>1, <1>4 DEF Follows
  <1>5. ASSUME conn'[d].rx.step = "ack"
        PROVE  Acked(conn[d].rx.ops)'
    <2>1. PICK f : f = conn'[d].rx.ops
      OBVIOUS
    <2>2. Acked(f)
      BY <1>1, <1>5, <2>1 DEF Follows, Wire
    <2>3. Acked(f)'
      BY <2>2, <1>3 DEF Acked
    <2> QED
      BY <2>1, <2>3
  <1> QED
    BY <1>2, <1>4, <1>5 DEF Wire

\* A step that leaves the history and the outbox alone and brings the server at most
\* a closed set of the replica's updates.
LEMMA DeliveryStands ==
    ASSUME Typed, DeliveryInv, AllFollow, history' = history,
           replica'.outbox = replica.outbox, server \subseteq server',
           Closed(server' \cap Local),
           run'.frame = run.frame \/ run'.frame = {} \/ Sendable(run'.frame)
    PROVE  DeliveryInv' /\ Delivers
  <1>1. Retired' = Retired /\ \A S : Closed(S)' <=> Closed(S)
    BY DEF Retired, Closed
  <1>2. \A f : Sendable(f)' <=> Sendable(f)
    BY <1>1 DEF Sendable
  <1>3. Sendable({})
    <2>1. {} \cup Retired = Retired
      OBVIOUS
    <2> QED
      BY <2>1 DEF DeliveryInv, Sendable
  <1>4. \A d \in Socket : Wire(conn[d])'
    BY <1>2, WiresStand
  <1>5. Closed(server \cap Local)'
    BY <1>1
  <1>6. Sendable(run.frame)'
    <2>1. PICK f : f = run'.frame
      OBVIOUS
    <2>2. Sendable(f)
      BY <1>3, <2>1 DEF DeliveryInv
    <2>3. Sendable(f)'
      BY <1>2, <2>2
    <2> QED
      BY <2>1, <2>3
  <1>7. Closed(Retired)' /\ (Retired \subseteq server)'
    BY <1>1 DEF DeliveryInv
  <1> QED
    BY <1>1, <1>4, <1>5, <1>6, <1>7 DEF DeliveryInv, Delivers

LEMMA DeliveryInitially == Init => DeliveryInv
  <1> SUFFICES ASSUME Init PROVE DeliveryInv
    OBVIOUS
  <1>1. Range(history) = {} /\ Retired = {} /\ replica.outbox = {} /\ server \cap Local = {}
    BY ShortRange DEF Init, Retired
  <1>2. Closed({}) /\ IsInjective(history)
    <2>1. DOMAIN history = {}
      BY DEF Init
    <2> QED
      BY <2>1 DEF Closed, IsInjective
  <1>3. Sendable({})
    <2>1. {} \cup Retired = {}
      BY <1>1
    <2> QED
      BY <1>2, <2>1 DEF Sendable
  <1>4. run.frame = {}
    BY DEF Init, NoRun
  <1>5. ASSUME NEW c \in Socket
        PROVE  Wire(conn[c])
    <2>1. conn[c].up = <<>> /\ conn[c].down = <<>> /\ conn[c].rx.step # "ack"
      BY DEF Init, Fresh, Idle
    <2> QED
      BY <2>1, ShortRange DEF Wire
  <1> QED
    BY <1>1, <1>2, <1>3, <1>4, <1>5 DEF DeliveryInv

LEMMA SaveDelivers ==
    ASSUME Typed, DeliveryInv, NEW u \in Local, Save(u)
    PROVE  DeliveryInv' /\ Delivers
  <1>1. /\ u \notin Range(history) /\ history' = Append(history, u)
        /\ conn' = conn /\ run' = run /\ server' = server
        /\ replica'.outbox = replica.outbox \cup {u}
    BY TypedState DEF Save, worldVars
  <1>2. /\ \A S : Closed(S) => Closed(S)'
        /\ IsInjective(history)'
        /\ Range(history') = Range(history) \cup {u}
    BY <1>1, ClosedAppend DEF DeliveryInv
  <1>3. Retired' = Retired
    BY <1>1, <1>2 DEF Retired
  <1>4. \A f : Sendable(f) => Sendable(f)'
    BY <1>2, <1>3 DEF Sendable
  <1>5. AllFollow
    BY <1>1, SameFollows
  <1>6. \A d \in Socket : Wire(conn[d])'
    BY <1>1, <1>4, <1>5, WiresStand
  <1>7. Sendable(run.frame)'
    <2>1. PICK f : f = run.frame
      OBVIOUS
    <2>2. Sendable(f)'
      BY <1>4, <2>1 DEF DeliveryInv
    <2> QED
      BY <1>1, <2>1, <2>2
  <1>8. Closed(server \cap Local)' /\ Closed(Retired)' /\ (Retired \subseteq server)'
    <2>1. PICK S, T : S = server \cap Local /\ T = Retired
      OBVIOUS
    <2>2. Closed(S)' /\ Closed(T)'
      BY <1>2, <2>1 DEF DeliveryInv
    <2>3. S = (server \cap Local)' /\ T = Retired'
      BY <1>1, <1>3, <2>1
    <2> QED
      BY <1>1, <1>3, <2>2, <2>3 DEF DeliveryInv
  <1> QED
    BY <1>1, <1>2, <1>3, <1>6, <1>7, <1>8 DEF DeliveryInv, Delivers

LEMMA AckDelivers ==
    ASSUME Typed, DeliveryInv, AllFollow, NEW c \in Socket, AckLands(c)
    PROVE  DeliveryInv' /\ Delivers
  <1>1. PICK m, covered :
           /\ m = conn[c].rx.ops /\ covered = Covered(m) /\ conn[c].rx.step = "ack"
           /\ replica' = [replica EXCEPT !.outbox = @ \ covered,
                                         !.frame = IF @ = m THEN {} ELSE @]
           /\ UNCHANGED <<run, history, server>>
    BY DEF AckLands, worldVars
  <1>2. covered = m \/ covered = {}
    BY <1>1 DEF Covered
  <1>3. Sendable(m) /\ m \subseteq server
    BY <1>1 DEF DeliveryInv, Wire, Acked
  <1>4. replica'.outbox = replica.outbox \ covered
    BY <1>1, TypedState
  <1>5. Retired' = Retired \cup covered
    BY <1>1, <1>2, <1>3, <1>4 DEF Retired, Sendable, Closed
  <1>6. \A S : Closed(S)' <=> Closed(S)
    BY <1>1 DEF Closed
  <1>7. Closed(covered \cup Retired)
    BY <1>2, <1>3 DEF Sendable, DeliveryInv
  <1>8. ASSUME NEW f, Sendable(f)
        PROVE  Sendable(f)'
    <2>1. Closed((f \cup Retired) \cup (covered \cup Retired))
      BY <1>7, <1>8, ClosedUnion DEF Sendable
    <2>2. (f \cup Retired) \cup (covered \cup Retired) = f \cup (Retired \cup covered)
      OBVIOUS
    <2>3. PICK S : S = f \cup (Retired \cup covered)
      OBVIOUS
    <2>4. Closed(S)'
      BY <2>1, <2>2, <2>3, <1>6
    <2>5. S = (f \cup Retired)'
      BY <2>3, <1>5
    <2> QED
      BY <2>4, <2>5, <1>8 DEF Sendable
  <1>9. \A d \in Socket : Wire(conn[d])'
    BY <1>1, <1>8, WiresStand
  <1>10. Sendable(run.frame)'
    <2>1. PICK f : f = run.frame
      OBVIOUS
    <2>2. Sendable(f)'
      BY <1>8, <2>1 DEF DeliveryInv
    <2> QED
      BY <1>1, <2>1, <2>2
  <1>11. Closed(server \cap Local)' /\ Closed(Retired)' /\ (Retired \subseteq server)'
    <2>1. PICK S, T : S = server \cap Local /\ T = covered \cup Retired
      OBVIOUS
    <2>2. Closed(S)' /\ Closed(T)'
      BY <1>6, <1>7, <2>1 DEF DeliveryInv
    <2>3. S = (server \cap Local)' /\ T = Retired'
      BY <1>1, <1>5, <2>1
    <2> QED
      BY <1>1, <1>2, <1>3, <1>5, <2>2, <2>3 DEF DeliveryInv
  <1> QED
    BY <1>1, <1>4, <1>5, <1>9, <1>10, <1>11 DEF DeliveryInv, Delivers

LEMMA ServerStepDelivers ==
    ASSUME Typed, DeliveryInv, AllFollow, NEW c \in Socket, ServerStep(c) \/ ServerRefuses(c)
    PROVE  DeliveryInv' /\ Delivers
  <1>1. history' = history /\ run' = run /\ replica' = replica
    BY DEF ServerStep, ServerHello, ServerDiscards, ServerUpdate, ServerEnds, MembershipTick,
           ServerCloses, ServerRefuses
  <1>2. CASE server' = server
    BY <1>1, <1>2, DeliveryStands DEF DeliveryInv
  <1>3. CASE server' # server
    <2>1. Serves(c, "update") /\ server' = server \cup Head(conn[c].up).ops
      BY <1>3 DEF ServerStep, ServerHello, ServerDiscards, ServerUpdate, ServerEnds,
                  MembershipTick, ServerCloses, ServerRefuses, worldVars
    <2>2. PICK m : m = Head(conn[c].up)
      OBVIOUS
    <2>3. conn[c].up # <<>> /\ m.type = "update" /\ conn[c].up \in Seq(Message)
      BY <2>1, <2>2, TypedState, SocketFields DEF Serves
    <2>4. m \in Range(conn[c].up)
      BY <2>2, <2>3, HeadTailRange
    <2>5. Sendable(m.ops)
      BY <2>3, <2>4 DEF DeliveryInv, Wire
    <2>6. Closed((server \cap Local) \cup (m.ops \cup Retired))
      BY <2>5, ClosedUnion DEF DeliveryInv, Sendable
    <2>7. Retired \subseteq Local
      <3>1. Range(history) \subseteq Local
        BY TypedState, RangeOfSeq
      <3> QED
        BY <3>1 DEF Retired
    <2>8. server' \cap Local = (server \cap Local) \cup (m.ops \cup Retired)
      BY <2>1, <2>2, <2>5, <2>7 DEF Sendable, DeliveryInv
    <2> QED
      BY <1>1, <2>1, <2>6, <2>8, DeliveryStands
  <1> QED
    BY <1>2, <1>3

\* Every other step leaves the history, the outbox and the server alone; the frame of
\* the run is none, the one it had, or the oldest waiting updates.
LEMMA DeliveryPreserved == Typed /\ DeliveryInv /\ [Next]_vars => DeliveryInv' /\ Delivers
  <1> SUFFICES ASSUME Typed, DeliveryInv, [Next]_vars PROVE DeliveryInv' /\ Delivers
    OBVIOUS
  <1>t. AllFollow
    BY Traffic
  <1>s. ASSUME UNCHANGED <<history, server>>, replica'.outbox = replica.outbox,
               run'.frame = run.frame \/ run'.frame = {} \/ Sendable(run'.frame)
        PROVE  DeliveryInv' /\ Delivers
    BY <1>s, <1>t, DeliveryStands DEF DeliveryInv
  <1>n. NoRun.frame = {} /\ \A step, pending, c :
           /\ [NoRun EXCEPT !.step = step, !.pending = pending].frame = {}
           /\ [NoRun EXCEPT !.step = step, !.socket = c].frame = {}
    BY DEF NoRun
  <1>e. \A w : RunEnds(w) => run'.frame = {}
    BY <1>n DEF RunEnds
  <1>1. CASE UNCHANGED vars
    BY <1>1, <1>s DEF vars, worldVars
  <1>2. CASE AgentStep
    <2>1. CASE RunPeeks
      <3>0. PICK n \in 0..Len(history) :
               /\ run' = [run EXCEPT !.step = "peeked", !.frame = replica.outbox \cap Oldest(n)]
               /\ replica' = IF replica.outbox \cap Oldest(n) = {} THEN replica
                             ELSE [replica EXCEPT !.frame = replica.outbox \cap Oldest(n)]
               /\ UNCHANGED <<history, server>>
        BY <2>1 DEF RunPeeks, worldVars
      <3> PICK f : f = replica.outbox \cap Oldest(n)
        OBVIOUS
      <3>1. /\ run' = [run EXCEPT !.step = "peeked", !.frame = f]
            /\ replica' = IF f = {} THEN replica ELSE [replica EXCEPT !.frame = f]
            /\ f = replica.outbox \cap Oldest(n) /\ UNCHANGED <<history, server>>
        BY <3>0
      <3>2. run'.frame = f /\ replica'.outbox = replica.outbox
        BY <3>1, TypedState
      <3>3. f = replica.outbox \cap Oldest(n) \cap Range(history)
        BY <3>1 DEF DeliveryInv
      <3>4. Sendable(f)
        BY <3>1, <3>3, OldestSendable DEF DeliveryInv
      <3> QED
        BY <3>1, <3>2, <3>4, <1>s
    <2>2. CASE RunStarts
      <3>1. run'.frame = {}
        BY <2>2, <1>n, <1>e DEF RunStarts
      <3> QED
        BY <2>2, <3>1, <1>s DEF RunStarts, worldVars
    <2>3. CASE RunCounts
      <3>1. run'.frame = {}
        BY <2>3, <1>n, <1>e DEF RunCounts
      <3> QED
        BY <2>3, <3>1, <1>s DEF RunCounts, worldVars
    <2>4. CASE RunSends
      <3>1. run'.frame = {}
        BY <2>4, <1>e DEF RunSends
      <3> QED
        BY <2>4, <3>1, <1>s DEF RunSends, worldVars
    <2>5. CASE ~(RunPeeks \/ RunStarts \/ RunCounts \/ RunSends)
      <3>1. UNCHANGED <<history, server, replica, run>>
        BY <1>2, <2>5 DEF AgentStep, StartCounted, StartValidated, StartRejected, ResumeCounted,
           RetryFires, CatalogAnswers, AnswerTimeout, TimedOut, TickOffline, RecheckAccess,
           worldVars
      <3> QED
        BY <3>1, <1>s
    <2> QED
      BY <2>1, <2>2, <2>3, <2>4, <2>5
  <1>3. ASSUME NEW c \in Socket, SocketStep(c)
        PROVE  DeliveryInv' /\ Delivers
    <2>1. CASE AckLands(c)
      BY <2>1, <1>t, AckDelivers
    <2>2. CASE ~AckLands(c)
      <3>1. UNCHANGED <<history, server, run>>
        BY <1>3, <2>2 DEF SocketStep, SocketOpens, SocketRefused, HelloSent, CloseDrained,
           DownloadAborted, ReceiveWelcome, ReceiveEmptyWelcome, ReceiveReplace,
           ReceiveDownload, Downloaded, DownloadRefused, ReceiveUpdate, ImportLands,
           ReplaceLands, ReceiveAck, ReceiveResync, ReceiveError, Begin, worldVars
      <3>2. replica'.outbox = replica.outbox
        BY <1>3, <2>2, TypedState DEF SocketStep, SocketOpens, SocketRefused, HelloSent,
           CloseDrained, DownloadAborted, ReceiveWelcome, ReceiveEmptyWelcome, ReceiveReplace,
           ReceiveDownload, Downloaded, DownloadRefused, ReceiveUpdate, ImportLands,
           ReplaceLands, ReceiveAck, ReceiveResync, ReceiveError, Begin, worldVars
      <3> QED
        BY <3>1, <3>2, <1>s
    <2> QED
      BY <2>1, <2>2
  <1>4. ASSUME NEW c \in Socket, ServerStep(c) \/ ServerRefuses(c)
        PROVE  DeliveryInv' /\ Delivers
    BY <1>4, <1>t, ServerStepDelivers
  <1>5. ASSUME Disturbance, ~(\E c \in Socket : ServerRefuses(c))
        PROVE  DeliveryInv' /\ Delivers
    <2>1. CASE RunFails
      <3>1. run'.frame = {}
        BY <2>1, <1>e DEF RunFails
      <3> QED
        BY <2>1, <3>1, <1>s DEF RunFails, worldVars
    <2>2. CASE ~RunFails
      <3>1. UNCHANGED <<history, server, replica, run>>
        BY <1>5, <2>2 DEF Disturbance, StartFails, Stop, GoOffline, GoOnline, CredentialChanges,
           RemoveMember, InviteBack, DeleteGraph, SilenceTimeout, TimedOut, LinkLost,
           SocketCallFails, ImportDropped, worldVars
      <3> QED
        BY <3>1, <1>s
    <2> QED
      BY <2>1, <2>2
  <1>6. ASSUME NEW u \in Local, Save(u)
        PROVE  DeliveryInv' /\ Delivers
    BY <1>6, SaveDelivers
  <1>7. ASSUME NEW u \in Foreign, ForeignUpdate(u)
        PROVE  DeliveryInv' /\ Delivers
    <2>1. UNCHANGED <<history, replica, run>> /\ server' = server \cup {u}
      BY <1>7 DEF ForeignUpdate
    <2>2. server' \cap Local = server \cap Local
      BY <2>1, UpdateAssumption
    <2> QED
      BY <2>1, <2>2, <1>t, DeliveryStands DEF DeliveryInv
  <1> QED
    BY <1>1, <1>2, <1>3, <1>4, <1>5, <1>6, <1>7 DEF Next

\* A set that nothing was skipped in is what the abstract specification calls the
\* oldest n updates.
LEMMA Abstracted ==
    ASSUME NEW S, Closed(S), S # {}, S \subseteq Range(history), IsInjective(history),
           history \in Seq(Local)
    PROVE  \E n \in DOMAIN history : S = DeliveryRefined!Oldest(n)
  <1>1. PICK n \in DOMAIN history : S = {history[i] : i \in 1..n}
    BY ClosedIsPrefix DEF Oldest
  <1> QED
    BY <1>1 DEF DeliveryRefined!Oldest

\* A step of the agent, of a socket, of the server or of the world records, delivers or
\* retires updates as the abstract specification does, or none.
LEMMA DeliverySteps ==
    ASSUME Typed, DeliveryInv, DeliveryInv', Typed', Delivers
    PROVE  [DeliveryRefined!DeliveryNext]_(DeliveryRefined!deliveryVars)
  <1>1. history \in Seq(Local) /\ Range(history) \subseteq Local
    BY TypedState, RangeOfSeq
  <1>2. CASE \E u \in Local :
                /\ u \notin Range(history) /\ history' = Append(history, u)
                /\ server' \cap Local = server \cap Local /\ Retired' = Retired
    <2>1. PICK u \in Local :
             /\ u \notin Range(history) /\ history' = Append(history, u)
             /\ server' \cap Local = server \cap Local /\ Retired' = Retired
      BY <1>2
    <2>2. DeliveryRefined!Record(u)
      BY <2>1 DEF DeliveryRefined!Record, DeliveryRefined!Range, Range, Retired
    <2> QED
      BY <2>2 DEF DeliveryRefined!DeliveryNext
  <1>3. CASE history' = history /\ Retired' = Retired /\ server \subseteq server'
    <2>1. CASE server' \cap Local = server \cap Local
      BY <1>3, <2>1 DEF DeliveryRefined!deliveryVars, Retired
    <2>2. CASE server' \cap Local # server \cap Local
      <3>1. PICK S : S = server' \cap Local
        OBVIOUS
      <3>2. Closed(S)
        <4>1. Closed(S)'
          BY <3>1 DEF DeliveryInv
        <4> QED
          BY <4>1, <1>3 DEF Closed
      <3>3. S # {} /\ S \subseteq Range(history) /\ server \cap Local \subseteq S
        BY <3>1, <3>2, <2>2, <1>3 DEF Closed
      <3>4. \E n \in DOMAIN history : S = DeliveryRefined!Oldest(n)
        BY <3>2, <3>3, <1>1, Abstracted DEF DeliveryInv
      <3>5. DeliveryRefined!Deliver
        BY <3>1, <3>3, <3>4, <1>3 DEF DeliveryRefined!Deliver, Retired
      <3> QED
        BY <3>5 DEF DeliveryRefined!DeliveryNext
    <2> QED
      BY <2>1, <2>2
  <1>4. CASE /\ history' = history /\ Retired \subseteq Retired'
             /\ server' \cap Local = server \cap Local
    <2>1. CASE Retired' = Retired
      BY <1>4, <2>1 DEF DeliveryRefined!deliveryVars, Retired
    <2>2. CASE Retired' # Retired
      <3>1. PICK S : S = Retired'
        OBVIOUS
      <3>2. Closed(S)
        <4>1. Closed(S)'
          BY <3>1 DEF DeliveryInv
        <4> QED
          BY <4>1, <1>4 DEF Closed
      <3>3. S # {} /\ S \subseteq Range(history) /\ Retired \subseteq S
        BY <3>1, <3>2, <2>2, <1>4 DEF Closed
      <3>4. \E n \in DOMAIN history : S = DeliveryRefined!Oldest(n)
        BY <3>2, <3>3, <1>1, Abstracted DEF DeliveryInv
      <3>5. S \subseteq server \cap Local
        BY <3>1, <3>3, <1>1, <1>4 DEF DeliveryInv
      <3>6. DeliveryRefined!Retire
        BY <3>1, <3>3, <3>4, <3>5, <1>4 DEF DeliveryRefined!Retire, Retired
      <3> QED
        BY <3>6 DEF DeliveryRefined!DeliveryNext
    <2> QED
      BY <2>1, <2>2
  <1> QED
    BY <1>2, <1>3, <1>4 DEF Delivers

\* The replica's updates reach the server in the order they were saved, and none leaves
\* the outbox before the server has it, across every loss of a socket and every failure
\* (SyncAgent.ts:842-891, persistence syncAck).
THEOREM DeliveryCorrect == Spec => DeliversInOrder
  <1>1. Init => Typed /\ DeliveryInv
    BY TypesInitially, DeliveryInitially
  <1>2. Init => DeliveryRefined!DeliveryInit
    <2> SUFFICES ASSUME Init PROVE DeliveryRefined!DeliveryInit
      OBVIOUS
    <2>1. history = <<>> /\ server = {}
      BY DEF Init
    <2>2. Range(history) = {}
      BY <2>1, ShortRange
    <2> QED
      BY <2>1, <2>2 DEF DeliveryRefined!DeliveryInit
  <1>3. Typed /\ DeliveryInv /\ [Next]_vars => Typed' /\ DeliveryInv'
    BY TypesPreserved, DeliveryPreserved
  <1>4. Typed /\ DeliveryInv /\ Typed' /\ DeliveryInv' /\ [Next]_vars
           => [DeliveryRefined!DeliveryNext]_(DeliveryRefined!deliveryVars)
    BY DeliveryPreserved, DeliverySteps
  <1> QED
    BY <1>1, <1>2, <1>3, <1>4, PTL DEF Spec, DeliversInOrder, DeliveryRefined!Delivery
-----------------------------------------------------------------------------
(* No gap.  Whatever the server has and the replica lacks is on the wire of *)
(* the current socket, or will be once its Welcome, or its checkpoint, is   *)
(* there; and a socket brings one Welcome, before anything else.            *)

Greeting == {"welcome", "replace"} \cup Downloading
NoGreeting(msgs) == \A m \in Range(msgs) : m.type \notin Greeting

\* What the frames under way to the replica, and the import that runs, will add.
Bringing == {"update", "welcome", "replace"}
Coming(k) ==
    {x \in Update :
        \/ \E m \in Range(k.down) : m.type \in Bringing /\ x \in m.ops
        \/ k.rx.step \in {"import", "replace"} /\ x \in k.rx.ops}
\* A checkpoint is still to be downloaded: it will be the server's document of then.
Awaits(k) ==
    k.rx.step \in Downloading \/ \E m \in Range(k.down) : m.type \in Downloading

\* Of every socket, current or abandoned: the hello comes first, says no more than the
\* replica has, and only what a base allows is answered.
Orderly(k) ==
    /\ k.ready \in {"connecting", "open"} => k.up = <<>> /\ k.session = "none"
    /\ k.session = "none" => Len(k.up) <= 1
    /\ \A m \in Range(k.up) :
          /\ m.type = "hello" => k.session = "none" /\ m.ops \subseteq replica.doc
          /\ m.code = "base" => replica.base
    /\ \A m \in Range(k.down) : m.type \in {"welcome", "merge_download"} => replica.base
    /\ k.rx.step \in {"import", "merge_download"} => replica.base
    /\ k.rx.welcome => k.rx.step \in Downloading \cup {"import", "replace"}

\* Of the current socket: before the Welcome is applied it is the first frame, or the one
\* being handled; after it there is none.
Unwelcomed(k) ==
    /\ k.rx.welcome => NoGreeting(k.down)
    /\ ~k.rx.welcome =>
          /\ k.rx = Idle
          /\ k.down # <<>> =>
                /\ Head(k.down).type \in Greeting \cup {"error"}
                /\ NoGreeting(Tail(k.down))
                /\ Head(k.down).type = "error" => Tail(k.down) = <<>>
          /\ k.session = "joined" /\ k.ready = "greeted" =>
                k.down # <<>> /\ Head(k.down).type \in Greeting
Welcomed(k) ==
    /\ replica.base
    /\ ~k.rx.welcome
    /\ k.rx.step \notin Downloading \cup {"replace"}
    /\ NoGreeting(k.down)
Shaped(k) ==
    /\ k.ready # "closed"
    /\ k.session = "none" => k.down = <<>> /\ k.rx = Idle /\ ~agent.welcomed
    /\ k.rx.step \in Downloading \cup {"replace"} => k.rx.welcome
    /\ agent.welcomed => Welcomed(k)
    /\ ~agent.welcomed => Unwelcomed(k)
Gapless(k) ==
    k.session = "joined" /\ k.ready = "greeted" =>
        Awaits(k) \/ server \subseteq replica.doc \cup Coming(k)

Settled ==
    /\ agent.socket = None => ~agent.welcomed
    /\ ~replica.base => replica.doc = {} /\ history = <<>>
    /\ Range(history) \subseteq replica.doc
GapInv ==
    /\ Settled
    /\ \A c \in Socket : Orderly(conn[c])
    /\ \A c \in Socket : IsCurrent(c) => Shaped(conn[c]) /\ Gapless(conn[c])
-----------------------------------------------------------------------------
(* What changes of the replica and the server leave of one socket.          *)

Grows == replica.doc \subseteq replica'.doc /\ (replica.base => replica'.base)

LEMMA OrderlyStands ==
    ASSUME NEW k, Orderly(k), Grows
    PROVE  Orderly(k)'
  BY DEF Orderly, Grows

LEMMA ShapedStands ==
    ASSUME NEW k, Shaped(k), Grows, agent'.welcomed = agent.welcomed
    PROVE  Shaped(k)'
  BY DEF Shaped, Grows, Welcomed, Unwelcomed

LEMMA GaplessStands ==
    ASSUME NEW k, Gapless(k), Grows, server' \subseteq server \cup replica'.doc
    PROVE  Gapless(k)'
  BY DEF Gapless, Grows, Coming, Awaits

\* A step that leaves the others as they are.
Others(c) ==
    \A d \in Socket : d # c =>
        /\ conn'[d] = conn[d]
        /\ IsCurrent(d)' => IsCurrent(d) /\ agent'.welcomed = agent.welcomed

LEMMA OneSocketGap ==
    ASSUME GapInv, NEW c, Others(c), Grows, server' \subseteq server \cup replica'.doc,
           Settled',
           c \in Socket => /\ Orderly(conn[c])'
                           /\ IsCurrent(c)' => Shaped(conn[c])' /\ Gapless(conn[c])'
    PROVE  GapInv'
  <1>1. ASSUME NEW d \in Socket, d # c
        PROVE  /\ Orderly(conn[d])'
               /\ IsCurrent(d)' => Shaped(conn[d])' /\ Gapless(conn[d])'
    <2>1. PICK k : k = conn[d]
      OBVIOUS
    <2>2. conn'[d] = k
      BY <1>1, <2>1 DEF Others
    <2>3. Orderly(k)'
      BY <2>1, OrderlyStands DEF GapInv
    <2>4. ASSUME IsCurrent(d)'
          PROVE  Shaped(k)' /\ Gapless(k)'
      <3>1. IsCurrent(d) /\ agent'.welcomed = agent.welcomed
        BY <1>1, <2>4 DEF Others
      <3>2. Shaped(k) /\ Gapless(k)
        BY <2>1, <3>1 DEF GapInv
      <3> QED
        BY <3>1, <3>2, ShapedStands, GaplessStands
    <2> QED
      BY <2>2, <2>3, <2>4
  <1> QED
    BY <1>1 DEF GapInv

\* The same for a step that does not touch the transport either.
LEMMA SameTransportGap ==
    ASSUME GapInv, NEW c \in Socket, NEW l, conn'[c] = l,
           \A d \in Socket : d # c => conn'[d] = conn[d],
           agent'.socket = agent.socket, agent'.stopped = agent.stopped,
           agent'.welcomed = agent.welcomed, Grows, Settled',
           server' \subseteq server \cup replica'.doc,
           Orderly(l), IsCurrent(c) => Shaped(l) /\ Gapless(l)
    PROVE  GapInv'
  <1>1. \A d \in Socket : IsCurrent(d)' <=> IsCurrent(d)
    BY DEF IsCurrent
  <1>2. Others(c)
    BY <1>1 DEF Others
  <1>3. Orderly(l)'
    BY OrderlyStands
  <1>4. IsCurrent(c)' => Shaped(l)' /\ Gapless(l)'
    BY <1>1, ShapedStands, GaplessStands
  <1> QED
    BY <1>2, <1>3, <1>4, OneSocketGap

\* Nothing a socket's order depends on changes.
LEMMA QuietGap ==
    ASSUME GapInv, conn' = conn, server' = server, history' = history,
           replica'.doc = replica.doc, replica'.base = replica.base,
           agent'.socket = agent.socket, agent'.stopped = agent.stopped,
           agent'.welcomed = agent.welcomed
    PROVE  GapInv'
  <1>1. Grows /\ Settled'
    BY DEF Grows, GapInv, Settled
  <1>2. PICK c : c \notin Socket
    <2>1. None \notin Socket
      BY SocketAssumption
    <2> QED
      BY <2>1
  <1>3. Others(c)
    BY DEF Others, IsCurrent
  <1> QED
    BY <1>1, <1>2, <1>3, OneSocketGap
-----------------------------------------------------------------------------
(* What is left of a socket.                                                *)

\* A socket that lost frames, or whose handler is over, stays orderly.
LEMMA OrderlyLess ==
    ASSUME NEW k, NEW l, Orderly(k), l.up = k.up, l.session = k.session,
           Range(l.down) \subseteq Range(k.down),
           l.ready \in {"connecting", "open"} => k.ready \in {"connecting", "open"},
           l.rx = k.rx \/ (~l.rx.welcome /\ l.rx.step \in {"idle", "ack", "outbox"})
    PROVE  Orderly(l)
  BY DEF Orderly, Downloading

LEMMA OrderlyDetached ==
    ASSUME NEW k \in SocketState, Orderly(k)
    PROVE  Orderly(Detached(k))
  <1>1. PICK l : l = Detached(k)
    OBVIOUS
  <1>2. /\ l.up = k.up /\ l.session = k.session /\ l.ready = "closed" /\ l.down = <<>>
        /\ l.rx = k.rx \/ l.rx = Idle
    BY <1>1, DetachedFields
  <1>3. Range(l.down) = {}
    BY <1>2, ShortRange
  <1> QED
    BY <1>1, <1>2, <1>3, OrderlyLess DEF Idle

\* The socket the agent leaves, and its handler with it.
LEMMA OrderlyOver ==
    ASSUME NEW k \in SocketState, Orderly(k),
           NEW rx \in {Idle, [Idle EXCEPT !.step = "outbox"]}
    PROVE  Orderly([k EXCEPT !.rx = rx])
  <1>1. PICK l : l = [k EXCEPT !.rx = rx]
    OBVIOUS
  <1>2. /\ l.up = k.up /\ l.session = k.session /\ l.ready = k.ready /\ l.down = k.down
        /\ l.rx = rx
    BY <1>1 DEF SocketState
  <1>3. ~rx.welcome /\ rx.step \in {"idle", "outbox"}
    BY DEF Idle
  <1> QED
    BY <1>1, <1>2, <1>3, OrderlyLess

\* No socket is current.
LEMMA AbandonedGap ==
    ASSUME GapInv, Settled', agent'.stopped \/ agent'.socket = None, Grows,
           \A d \in Socket : Orderly(conn'[d])
    PROVE  GapInv'
  <1>1. \A d \in Socket : ~IsCurrent(d)'
    BY SocketAssumption DEF IsCurrent
  <1>2. ASSUME NEW d \in Socket
        PROVE  Orderly(conn[d])'
    <2>1. PICK k : k = conn'[d]
      OBVIOUS
    <2>2. Orderly(k)'
      BY <2>1, OrderlyStands
    <2> QED
      BY <2>1, <2>2
  <1> QED
    BY <1>1, <1>2 DEF GapInv
-----------------------------------------------------------------------------
(* The agent's steps.                                                       *)

LEMMA AbandonsGap ==
    ASSUME Typed, GapInv, conn' = Without(conn, agent.socket),
           agent'.stopped \/ agent'.socket = None, agent'.socket = None => ~agent'.welcomed,
           replica' = replica, history' = history
    PROVE  GapInv'
  <1>1. conn \in Sockets /\ agent.socket \in Socket \cup {None}
    BY TypedState
  <1>2. ASSUME NEW d \in Socket
        PROVE  Orderly(conn'[d])
    <2>1. conn'[d] = conn[d] \/ conn'[d] = Detached(conn[d])
      BY <1>1, WithoutSockets
    <2>2. conn[d] \in SocketState
      BY TypedState
    <2> QED
      BY <2>1, <2>2, OrderlyDetached DEF GapInv
  <1>3. Grows /\ Settled'
    BY DEF Grows, GapInv, Settled
  <1> QED
    BY <1>2, <1>3, AbandonedGap

\* The handler that waited for an outbox run goes on.
LEMMA ShapedOver ==
    ASSUME NEW k \in SocketState, NEW rx \in {Idle, [Idle EXCEPT !.step = "outbox"]},
           Orderly(k), Shaped(k), k.rx.step \in {"ack", "outbox"}
    PROVE  /\ Shaped([k EXCEPT !.rx = rx])
           /\ Gapless(k) => Gapless([k EXCEPT !.rx = rx])
  <1>1. PICK l : l = [k EXCEPT !.rx = rx]
    OBVIOUS
  <1>2. /\ l.session = k.session /\ l.ready = k.ready /\ l.down = k.down /\ l.rx = rx
    BY <1>1 DEF SocketState
  <1>3. ~rx.welcome /\ rx.step \in {"idle", "outbox"}
    BY DEF Idle
  <1>4. ~k.rx.welcome /\ k.rx # Idle
    BY DEF Orderly, Downloading, Idle
  <1>5. agent.welcomed /\ k.session # "none"
    BY <1>4 DEF Shaped, Unwelcomed
  <1>6. Welcomed(l)
    BY <1>2, <1>3, <1>5 DEF Shaped, Welcomed, Downloading
  <1>7. Shaped(l)
    BY <1>2, <1>3, <1>5, <1>6 DEF Shaped, Downloading
  <1>8. ASSUME Gapless(k)
        PROVE  Gapless(l)
    <2>1. Coming(l) = Coming(k) /\ (Awaits(l) <=> Awaits(k))
      BY <1>2, <1>3 DEF Coming, Awaits, Downloading
    <2> QED
      BY <1>2, <1>8, <2>1 DEF Gapless
  <1> QED
    BY <1>1, <1>7, <1>8

\* A run that ends, over sockets that are in order.
LEMMA RunEndsGap ==
    ASSUME Typed, GapInv, outgoing # <<>>, NEW w \in Sockets, RunEnds(w),
           agent'.socket = agent.socket, agent'.stopped = agent.stopped,
           agent'.welcomed = agent.welcomed,
           replica' = replica, server' = server, history' = history,
           \A d \in Socket : /\ Orderly(w[d])
                             /\ IsCurrent(d) => Shaped(w[d]) /\ Gapless(w[d])
    PROVE  GapInv'
  <1>1. Head(outgoing) \in Socket \cup {None} /\ conn' = RunEndedFor(w, Head(outgoing))
    BY RunEndsTypes
  <1>2. Settled' /\ Grows
    BY DEF GapInv, Settled, Grows
  <1>3. ASSUME NEW d \in Socket
        PROVE  /\ Orderly(conn[d])'
               /\ IsCurrent(d)' => Shaped(conn[d])' /\ Gapless(conn[d])'
    <2>1. PICK k \in SocketState : k = w[d]
      BY DEF Sockets
    <2>2. PICK l : l = conn'[d]
      OBVIOUS
    <2>3. l = k \/ (k.rx.step = "outbox" /\ l = [k EXCEPT !.rx = Idle])
      BY <1>1, <2>1, <2>2, RunEndedSockets
    <2>4. Orderly(l)
      BY <2>1, <2>3, OrderlyOver
    <2>5. IsCurrent(d)' => Shaped(l) /\ Gapless(l)
      BY <2>1, <2>3, ShapedOver DEF IsCurrent
    <2>6. Orderly(l)' /\ (IsCurrent(d)' => Shaped(l)' /\ Gapless(l)')
      BY <1>2, <2>4, <2>5, OrderlyStands, ShapedStands, GaplessStands
    <2> QED
      BY <2>2, <2>6
  <1> QED
    BY <1>2, <1>3 DEF GapInv

LEMMA ConnectGap ==
    ASSUME Typed, GapInv, NEW up \in BOOLEAN, NEW a \in Agent, NEW w \in Sockets,
           Connect(up, a, w),
           replica' = replica, server' = server, history' = history,
           a.socket # None =>
              /\ a.socket = agent.socket /\ a.stopped = agent.stopped
              /\ a.welcomed = agent.welcomed /\ w = conn,
           a.socket = None => ~a.welcomed,
           \A d \in Socket : Orderly(w[d])
    PROVE  GapInv'
  <1>0. agent'.stopped = a.stopped /\ agent'.welcomed = a.welcomed
    BY ConnectFields
  <1>1. Grows
    BY DEF Grows
  <1>n. CASE a.socket = None /\ agent'.socket = None /\ conn' = w
    <2>1. Settled'
      BY <1>0, <1>n DEF GapInv, Settled
    <2> QED
      BY <1>1, <1>n, <2>1, AbandonedGap
  <1>2. CASE Keeps(a, w)
    BY <1>n, <1>2, QuietGap DEF Keeps
  <1>3. CASE a.socket = None /\ Waits(a, w)
    <2>1. agent'.socket = None
      BY <1>3, RetryFields, PauseFields DEF Waits
    <2> QED
      BY <1>n, <1>3, <2>1 DEF Waits
  <1>4. CASE a.socket = None /\ Takes(a, w)
    <2>1. PICK c \in Socket :
             /\ agent' = [a EXCEPT !.socket = c, !.live = "connecting"]
             /\ conn' = [w EXCEPT ![c] = [Fresh EXCEPT !.ready = "connecting"]]
      BY <1>4 DEF Takes
    <2>2. agent'.socket = c /\ c # None
      BY <2>1, SocketAssumption DEF Agent
    <2>3. PICK l : l = [Fresh EXCEPT !.ready = "connecting"]
      OBVIOUS
    <2>4. /\ l.ready = "connecting" /\ l.up = <<>> /\ l.down = <<>> /\ l.session = "none"
          /\ l.rx = Idle
      BY <2>3 DEF Fresh
    <2>5. conn'[c] = l /\ \A d \in Socket : d # c => conn'[d] = w[d]
      BY <2>1, <2>3 DEF Sockets
    <2>6. Orderly(l)'
      BY <2>4, ShortRange DEF Orderly, Idle
    <2>7. Shaped(l)' /\ Gapless(l)'
      BY <2>4, <1>0, <1>4, ShortRange DEF Shaped, Gapless, Unwelcomed, Idle, Downloading
    <2>8. ASSUME NEW d \in Socket, d # c
          PROVE  Orderly(conn[d])' /\ ~IsCurrent(d)'
      <3>1. PICK k : k = w[d]
        OBVIOUS
      <3>2. Orderly(k)'
        BY <3>1, <1>1, OrderlyStands
      <3> QED
        BY <3>1, <3>2, <2>2, <2>5, <2>8 DEF IsCurrent
    <2>9. Settled'
      BY <2>2 DEF GapInv, Settled
    <2> QED
      BY <2>5, <2>6, <2>7, <2>8, <2>9 DEF GapInv
  <1> QED
    BY <1>2, <1>3, <1>4, ConnectCases

LEMMA AgentStepGap == Typed /\ GapInv /\ AgentStep => GapInv'
  <1> SUFFICES ASSUME Typed, GapInv, AgentStep PROVE GapInv'
    OBVIOUS
  <1>0. /\ agent \in Agent /\ conn \in Sockets /\ online \in BOOLEAN
        /\ (replica.outbox # {}) \in BOOLEAN /\ run.pending \in BOOLEAN
        /\ \A c \in Socket : conn[c] \in SocketState
        /\ Without(conn, agent.socket) \in Sockets
    BY TypedState, WithoutSockets
  <1>o. /\ \A d \in Socket : Orderly(conn[d])
        /\ \A d \in Socket : IsCurrent(d) => Shaped(conn[d]) /\ Gapless(conn[d])
        /\ agent.socket = None => ~agent.welcomed
    BY DEF GapInv, Settled
  <1>1. CASE StartCounted
    <2>1. PICK a \in Agent : a = Counted(agent, replica.outbox # {})
      BY <1>0, AgentMethods
    <2>2. a.socket = agent.socket /\ a.stopped = agent.stopped /\ a.welcomed = agent.welcomed
      BY <2>1, <1>0, CountedFields
    <2>3. agent' = a \/ agent' = Pause(a, "auth")
      <3>1. credential \in {"none", "good", "rejected"}
        BY TypedState
      <3> QED
        BY <1>1, <2>1, <3>1 DEF StartCounted
    <2>4. /\ agent'.socket = agent.socket /\ agent'.stopped = agent.stopped
          /\ agent'.welcomed = agent.welcomed
      BY <2>2, <2>3, PauseFields
    <2> QED
      BY <1>1, <2>4, QuietGap DEF StartCounted, worldVars
  <1>2. ASSUME NEW call \in {"validate", "validate stale"}, StartValidated(call)
        PROVE  GapInv'
    BY <1>2, <1>0, <1>o, ConnectGap DEF StartValidated, worldVars
  <1>3. CASE StartRejected
    <2>1. PICK a \in Agent : a = Resumed(agent) /\ a.socket = None /\ ~a.welcomed
      BY <1>0, ResumeFields
    <2>2. Pause(a, "auth").socket = None /\ ~Pause(a, "auth").welcomed
      BY <2>1, PauseFields
    <2>3. (agent.stopped /\ agent' = agent) \/ agent' = Pause(a, "auth")
      BY <1>3, <2>1 DEF StartRejected
    <2> QED
      BY <1>3, <1>o, <2>2, <2>3, AbandonsGap DEF StartRejected
  <1>4. CASE ResumeCounted
    <2>1. PICK a \in Agent : a = Counted(agent, replica.outbox # {})
      BY <1>0, AgentMethods
    <2>2. a.socket = agent.socket /\ a.stopped = agent.stopped /\ a.welcomed = agent.welcomed
      BY <2>1, <1>0, CountedFields
    <2> QED
      BY <1>4, <1>0, <1>o, <2>1, <2>2, ConnectGap DEF ResumeCounted, worldVars
  <1>5. CASE RunStarts
    <2>1. CASE RunEnds(conn)
      BY <1>5, <2>1, <1>0, <1>o, RunEndsGap DEF RunStarts, worldVars
    <2>2. CASE conn' = conn
      BY <1>5, <2>2, QuietGap DEF RunStarts, worldVars
    <2> QED
      BY <1>5, <2>1, <2>2 DEF RunStarts
  <1>6. CASE RunCounts
    <2>1. PICK a \in Agent : a = Counted(agent, run.pending)
      BY <1>0, AgentMethods
    <2>2. a.socket = agent.socket /\ a.stopped = agent.stopped /\ a.welcomed = agent.welcomed
      BY <2>1, <1>0, CountedFields
    <2>3. /\ agent' = a /\ outgoing # <<>>
          /\ replica' = replica /\ server' = server /\ history' = history
      BY <1>6, <2>1 DEF RunCounts, worldVars, Typed
    <2>4. CASE RunEnds(conn)
      BY <2>2, <2>3, <2>4, <1>0, <1>o, RunEndsGap
    <2>5. CASE conn' = conn
      BY <2>2, <2>3, <2>5, QuietGap
    <2> QED
      BY <1>6, <2>4, <2>5 DEF RunCounts
  <1>7. CASE RunPeeks
    <2>1. PICK f : replica' = replica \/ replica' = [replica EXCEPT !.frame = f]
      BY <1>7 DEF RunPeeks
    <2>2. replica'.doc = replica.doc /\ replica'.base = replica.base
      BY <2>1, TypedState
    <2> QED
      BY <1>7, <2>2, QuietGap DEF RunPeeks, worldVars
  <1>8. CASE RunSends
    <2> PICK c : c = run.socket
      OBVIOUS
    <2>1. outgoing # <<>> /\ replica' = replica /\ server' = server /\ history' = history
      BY <1>8 DEF RunSends, Typed, worldVars
    <2>2. CASE agent' = agent /\ RunEnds(conn)
      BY <2>1, <2>2, <1>0, <1>o, RunEndsGap
    <2>3. CASE agent' = [agent EXCEPT !.sync = "synced"] /\ RunEnds(conn)
      <3>1. /\ agent'.socket = agent.socket /\ agent'.stopped = agent.stopped
            /\ agent'.welcomed = agent.welcomed
        BY <2>3, <1>0 DEF Agent
      <3> QED
        BY <2>1, <2>3, <3>1, <1>0, <1>o, RunEndsGap
    <2>4. CASE /\ ~agent.stopped /\ MayFlush(agent, c)
               /\ agent' = [agent EXCEPT !.inFlight = run.frame]
               /\ RunEnds([conn EXCEPT ![c].up = Append(@, Msg("update", run.frame, ""))])
      <3>1. /\ agent'.socket = agent.socket /\ agent'.stopped = agent.stopped
            /\ agent'.welcomed = agent.welcomed
        BY <2>4, <1>0 DEF Agent
      <3>2. c \in Socket /\ IsCurrent(c) /\ agent.welcomed /\ conn[c].ready = "greeted"
        BY <2>4, TypedState DEF MayFlush, IsCurrent
      <3>3. run.frame \in SUBSET Update
        BY TypedState DEF Update
      <3>4. PICK m \in Message : m = Msg("update", run.frame, "")
        BY <3>3 DEF Msg, Message
      <3>5. m.type = "update" /\ m.code = ""
        BY <3>4 DEF Msg
      <3>6. PICK k \in SocketState : k = conn[c]
        BY <3>2, <1>0
      <3>7. /\ k.up \in Seq(Message) /\ Append(k.up, m) \in Seq(Message)
            /\ Range(Append(k.up, m)) = Range(k.up) \cup {m}
        BY <3>6, SocketFields, AppendRange
      <3>8. PICK l : l = [k EXCEPT !.up = Append(k.up, m)]
        OBVIOUS
      <3>9. /\ l \in SocketState
            /\ l.up = Append(k.up, m) /\ l.down = k.down /\ l.ready = k.ready
            /\ l.session = k.session /\ l.rx = k.rx
        BY <3>7, <3>8 DEF SocketState
      <3>10. PICK w : w = [conn EXCEPT ![c].up = Append(@, m)]
        OBVIOUS
      <3>11. /\ w \in Sockets /\ w[c] = l
             /\ \A d \in Socket : d # c => w[d] = conn[d]
        BY <3>2, <3>6, <3>8, <3>9, <3>10, <1>0 DEF Sockets
      <3>12. Shaped(k) /\ Gapless(k) /\ Orderly(k)
        BY <3>2, <3>6, <1>o
      <3>13. k.session # "none"
        BY <3>2, <3>12 DEF Shaped
      <3>14. Orderly(l)
        BY <3>2, <3>5, <3>6, <3>7, <3>9, <3>12, <3>13 DEF Orderly
      <3>15. Shaped(l) /\ Gapless(l)
        BY <3>9, <3>12 DEF Shaped, Welcomed, Unwelcomed, Gapless, Awaits, Coming
      <3>16. RunEnds(w)
        BY <2>4, <3>4, <3>10
      <3> QED
        BY <2>1, <3>1, <3>11, <3>14, <3>15, <3>16, <1>o, RunEndsGap
    <2> QED
      BY <1>8, <2>2, <2>3, <2>4 DEF RunSends
  <1>9. CASE RetryFires
    <2>1. PICK a : a = [agent EXCEPT !.timer = FALSE]
      OBVIOUS
    <2>2. /\ a \in Agent /\ a.socket = agent.socket /\ a.stopped = agent.stopped
          /\ a.welcomed = agent.welcomed
      BY <2>1, <1>0 DEF Agent
    <2> QED
      BY <1>9, <1>0, <1>o, <2>1, <2>2, ConnectGap DEF RetryFires, worldVars
  <1>10. CASE CatalogAnswers
    <2>1. CASE agent' = agent /\ conn' = conn
      BY <1>10, <2>1, QuietGap DEF CatalogAnswers, worldVars
    <2>2. CASE agent' = Resumed(agent) /\ conn' = Without(conn, agent.socket)
      BY <1>10, <2>2, <1>0, ResumeFields, AbandonsGap DEF CatalogAnswers
    <2> QED
      BY <1>10, <2>1, <2>2 DEF CatalogAnswers
  <1>11. CASE AnswerTimeout
    BY <1>11, <1>0, FailedFields, AbandonsGap DEF AnswerTimeout, TimedOut
  <1>12. CASE TickOffline
    <2>1. PICK a \in Agent : a = Abandoned(agent) /\ a.socket = None /\ ~a.welcomed
      BY <1>0, AbandonFields
    <2>2. agent'.socket = None /\ ~agent'.welcomed
      BY <1>12, <2>1, RetryFields DEF TickOffline
    <2> QED
      BY <1>12, <2>2, AbandonsGap DEF TickOffline
  <1>13. CASE RecheckAccess
    BY <1>13, QuietGap DEF RecheckAccess, worldVars
  <1> QED
    BY <1>1, <1>2, <1>3, <1>4, <1>5, <1>6, <1>7, <1>8, <1>9, <1>10, <1>11, <1>12, <1>13
    DEF AgentStep
-----------------------------------------------------------------------------
(* The steps of one socket.                                                 *)

LEMMA HandledGapless ==
    ASSUME NEW k \in SocketState, NEW l, k.down # <<>>,
           l.down = Tail(k.down),
           l.ready = k.ready, l.session = k.session, k.rx = Idle,
           Head(k.down).type \in Bringing =>
              l.rx.step \in {"import", "replace"} /\ l.rx.ops = Head(k.down).ops,
           Head(k.down).type \in Downloading => l.rx.step \in Downloading,
           Gapless(k)
    PROVE  Gapless(l)
  <1>1. k.down \in Seq(Message)
    BY SocketFields
  <1>2. Range(k.down) = {Head(k.down)} \cup Range(l.down)
    BY <1>1, HeadTailRange
  <1>3. k.rx.step = "idle"
    BY DEF Idle
  <1>4. Coming(k) \subseteq Coming(l)
    BY <1>2, <1>3 DEF Coming
  <1>5. Awaits(k) => Awaits(l)
    BY <1>2, <1>3 DEF Awaits, Downloading
  <1> QED
    BY <1>4, <1>5 DEF Gapless

\* A frame that arrives on a socket whose Welcome is there is none of the greeting.
LEMMA ReceivedKinds ==
    ASSUME Typed, GapInv, NEW c \in Socket, IsCurrent(c), conn[c].rx = Idle,
           conn[c].down # <<>>
    PROVE  /\ Shaped(conn[c]) /\ Gapless(conn[c]) /\ Orderly(conn[c])
           /\ Received(c) \in Range(conn[c].down)
           /\ Range(Tail(conn[c].down)) \subseteq Range(conn[c].down)
           /\ NoGreeting(Tail(conn[c].down))
           /\ conn[c].session # "none"
           /\ agent.welcomed => Welcomed(conn[c]) /\ Received(c).type \notin Greeting
           /\ ~agent.welcomed =>
                 /\ Received(c).type \in Greeting \cup {"error"}
                 /\ Received(c).type = "error" =>
                       /\ Tail(conn[c].down) = <<>>
                       /\ ~(conn[c].session = "joined" /\ conn[c].ready = "greeted")
  <1>1. PICK k \in SocketState : k = conn[c]
    BY TypedState
  <1>2. Shaped(k) /\ Gapless(k) /\ Orderly(k)
    BY <1>1 DEF GapInv
  <1>3. k.down \in Seq(Message) /\ k.down # <<>>
    BY <1>1, SocketFields
  <1>4. Head(k.down) \in Range(k.down) /\ Range(Tail(k.down)) \subseteq Range(k.down)
    BY <1>3, HeadTailRange
  <1>5. k.session # "none" /\ ~k.rx.welcome
    BY <1>1, <1>2, <1>3 DEF Shaped, Idle
  <1>6. CASE agent.welcomed
    <2>1. Welcomed(k)
      BY <1>2, <1>6 DEF Shaped
    <2>2. NoGreeting(Tail(k.down)) /\ Head(k.down).type \notin Greeting
      BY <1>4, <2>1 DEF Welcomed, NoGreeting
    <2> QED
      BY <1>1, <1>2, <1>4, <1>5, <1>6, <2>1, <2>2 DEF Received
  <1>7. CASE ~agent.welcomed
    <2>1. Unwelcomed(k)
      BY <1>2, <1>7 DEF Shaped
    <2>2. "error" \notin Greeting
      BY DEF Greeting, Downloading
    <2> QED
      BY <1>1, <1>2, <1>3, <1>4, <1>5, <1>7, <2>1, <2>2 DEF Received, Unwelcomed
  <1> QED
    BY <1>6, <1>7

\* A handler that starts.
LEMMA BeginGap ==
    ASSUME Typed, GapInv, NEW c \in Socket, IsCurrent(c), conn[c].rx = Idle,
           conn[c].down # <<>>,
           NEW step \in {"merge_download", "replace_download", "import", "replace", "ack"},
           NEW welcome \in BOOLEAN, Begin(c, step, welcome),
           welcome <=> Received(c).type \in Greeting,
           step \in Downloading \cup {"replace"} => welcome,
           step = "merge_download" => Received(c).type = "merge_download",
           step = "import" => Received(c).type \in {"update", "welcome"},
           welcome => step # "ack",
           Received(c).type # "error",
           Received(c).type \in Bringing => step \in {"import", "replace"},
           Received(c).type \in Downloading => step \in Downloading
    PROVE  GapInv'
  <1>1. PICK k \in SocketState : k = conn[c]
    BY TypedState
  <1>2. PICK l : l = conn'[c]
    OBVIOUS
  <1>3. /\ l.ready = k.ready /\ l.session = k.session /\ l.up = k.up
        /\ l.down = Tail(k.down) /\ l.rx.step = step /\ l.rx.ops = Received(c).ops
        /\ l.rx.welcome = welcome
        /\ \A d \in Socket : d # c => conn'[d] = conn[d]
    BY <1>1, <1>2, BeginFields
  <1>4. /\ agent' = agent /\ replica' = replica /\ server' = server /\ history' = history
    BY DEF Begin, worldVars
  <1>5. /\ Shaped(k) /\ Gapless(k) /\ Orderly(k)
        /\ Received(c) \in Range(k.down) /\ Range(Tail(k.down)) \subseteq Range(k.down)
        /\ NoGreeting(Tail(k.down)) /\ k.session # "none"
        /\ agent.welcomed => Welcomed(k) /\ Received(c).type \notin Greeting
        /\ ~agent.welcomed => Received(c).type \in Greeting \cup {"error"}
    BY <1>1, ReceivedKinds
  <1>6. replica.base \/ step \notin {"import", "merge_download"}
    <2>1. CASE agent.welcomed
      BY <1>5, <2>1 DEF Welcomed
    <2>2. CASE ~agent.welcomed
      BY <1>5, <2>2 DEF Orderly, Greeting, Downloading
    <2> QED
      BY <2>1, <2>2
  <1>7. Orderly(l)
    BY <1>3, <1>5, <1>6 DEF Orderly, Downloading
  <1>8. Shaped(l)
    <2>1. agent.welcomed => ~welcome
      BY <1>5
    <2>2. ~agent.welcomed => welcome
      BY <1>5
    <2>3. l.ready # "closed" /\ l.session # "none"
      BY <1>3, <1>5 DEF Shaped
    <2>4. l.rx.step \in Downloading \cup {"replace"} => l.rx.welcome
      BY <1>3
    <2>5. agent.welcomed => Welcomed(l)
      BY <1>3, <1>5, <2>1 DEF Welcomed
    <2>6. ~agent.welcomed => Unwelcomed(l)
      BY <1>3, <1>5, <2>2 DEF Unwelcomed
    <2> QED
      BY <2>3, <2>4, <2>5, <2>6 DEF Shaped
  <1>9. Gapless(l)
    BY <1>1, <1>3, <1>5, HandledGapless DEF Received
  <1>10. Grows /\ Settled'
    BY <1>4 DEF Grows, GapInv, Settled
  <1> QED
    BY <1>2, <1>3, <1>4, <1>7, <1>8, <1>9, <1>10, SameTransportGap

\* A frame that is taken and changes nothing.
LEMMA HandledShape ==
    ASSUME Typed, GapInv, NEW c \in Socket, IsCurrent(c), conn[c].rx = Idle,
           conn[c].down # <<>>, Received(c).type \in {"ack", "error"}
    PROVE  /\ Handled(c)[c] \in SocketState
           /\ \A d \in Socket : d # c => Handled(c)[d] = conn[d]
           /\ Orderly(Handled(c)[c]) /\ Shaped(Handled(c)[c]) /\ Gapless(Handled(c)[c])
  <1>1. PICK k \in SocketState : k = conn[c]
    BY TypedState
  <1>2. PICK l : l = Handled(c)[c]
    OBVIOUS
  <1>3. /\ l.ready = k.ready /\ l.session = k.session /\ l.up = k.up
        /\ l.down = Tail(k.down) /\ l.rx = k.rx
        /\ \A d \in Socket : d # c => Handled(c)[d] = conn[d]
        /\ l \in SocketState
    BY <1>1, <1>2, HandledFields DEF SocketState, Sockets
  <1>5. /\ Shaped(k) /\ Gapless(k) /\ Orderly(k)
        /\ Range(Tail(k.down)) \subseteq Range(k.down)
        /\ NoGreeting(Tail(k.down)) /\ k.session # "none"
        /\ ~agent.welcomed => /\ Received(c).type \in Greeting \cup {"error"}
                              /\ Received(c).type = "error" =>
                                    /\ Tail(k.down) = <<>>
                                    /\ ~(k.session = "joined" /\ k.ready = "greeted")
    BY <1>1, ReceivedKinds
  <1>6. Received(c).type \notin Greeting
    BY DEF Greeting, Downloading
  <1>7. Orderly(l)
    BY <1>3, <1>5, OrderlyLess
  <1>8. Shaped(l)
    <2>1. agent.welcomed => Welcomed(l)
      BY <1>3, <1>5 DEF Welcomed, Shaped
    <2>2. ~agent.welcomed => Unwelcomed(l)
      BY <1>3, <1>5, <1>6, <1>1 DEF Unwelcomed, Shaped
    <2> QED
      BY <1>3, <1>5, <2>1, <2>2 DEF Shaped
  <1>9. Gapless(l)
    BY <1>1, <1>3, <1>5, HandledGapless DEF Received, Bringing, Downloading
  <1> QED
    BY <1>2, <1>3, <1>7, <1>8, <1>9

LEMMA HandledGap ==
    ASSUME Typed, GapInv, NEW c \in Socket, IsCurrent(c), conn[c].rx = Idle,
           conn[c].down # <<>>, conn' = Handled(c),
           Received(c).type \in {"ack", "error"},
           replica' = replica, server' = server, history' = history,
           agent'.socket = agent.socket, agent'.stopped = agent.stopped,
           agent'.welcomed = agent.welcomed
    PROVE  GapInv'
  <1>1. Grows /\ Settled'
    BY DEF Grows, GapInv, Settled
  <1>2. PICK l : l = Handled(c)[c]
    OBVIOUS
  <1>3. Orderly(l) /\ Shaped(l) /\ Gapless(l) /\ conn'[c] = l
        /\ \A d \in Socket : d # c => conn'[d] = conn[d]
    BY <1>2, HandledShape
  <1> QED
    BY <1>1, <1>3, SameTransportGap

\* A Welcome, once its payload is applied.
LEMMA WelcomedGap ==
    ASSUME Typed, GapInv, NEW c \in Socket, IsCurrent(c),
           NEW w \in Sockets, WelcomedBy(c, w, agent), \A d \in Socket : d # c => w[d] = conn[d],
           NEW k \in SocketState, w[c] = k, Orderly(k),
           k.ready # "closed", k.session # "none", NoGreeting(k.down),
           Grows, replica'.base, server' = server, history' = history,
           k.session = "joined" /\ k.ready = "greeted" =>
              server \subseteq replica'.doc
                 \cup {x \in Update : \E m \in Range(k.down) : m.type \in Bringing /\ x \in m.ops}
    PROVE  GapInv'
  <1>1. PICK rx : rx = [Idle EXCEPT !.step = "outbox"]
    OBVIOUS
  <1>2. rx.step = "outbox" /\ ~rx.welcome
    BY <1>1 DEF Idle
  <1>3. PICK l : l = [k EXCEPT !.rx = rx]
    OBVIOUS
  <1>4. /\ l.up = k.up /\ l.session = k.session /\ l.ready = k.ready /\ l.down = k.down
        /\ l.rx = rx
    BY <1>3 DEF SocketState
  <1>5. /\ agent' = [agent EXCEPT !.welcomed = TRUE, !.live = "live"]
        /\ conn'[c] = l /\ \A d \in Socket : d # c => conn'[d] = conn[d]
    <2>1. agent \in Agent
      BY TypedState
    <2>2. /\ agent' = [agent EXCEPT !.welcomed = TRUE, !.live = "live"]
          /\ conn'[c] = [w[c] EXCEPT !.rx = [Idle EXCEPT !.step = "outbox"]]
          /\ \A d \in Socket : d # c => conn'[d] = w[d]
      BY <2>1, WelcomedFields
    <2>3. conn'[c] = l
      BY <2>2, <1>1, <1>3
    <2> QED
      BY <2>2, <2>3
  <1>6. agent'.socket = c /\ agent'.welcomed = TRUE /\ agent'.stopped = agent.stopped
    BY <1>5, TypedState DEF IsCurrent, Agent
  <1>7. Orderly(l)
    BY <1>1, <1>3, OrderlyOver
  <1>8. Orderly(l)'
    BY <1>7, OrderlyStands
  <1>9. Welcomed(l)'
    BY <1>2, <1>4 DEF Welcomed, Downloading
  <1>10. Shaped(l)'
    BY <1>2, <1>4, <1>6, <1>9 DEF Shaped, Downloading
  <1>11. Gapless(l)'
    BY <1>4 DEF Gapless, Coming
  <1>12. c # None
    BY SocketAssumption
  <1>13. Settled'
    BY <1>6, <1>12 DEF GapInv, Settled, Grows
  <1>14. Others(c)
    BY <1>5, <1>6 DEF Others, IsCurrent
  <1> QED
    BY <1>5, <1>8, <1>10, <1>11, <1>13, <1>14, OneSocketGap

LEMMA ReceiveEmptyWelcomeGap ==
    ASSUME Typed, GapInv, NEW c \in Socket, ReceiveEmptyWelcome(c)
    PROVE  GapInv'
  <1>1. /\ IsCurrent(c) /\ conn[c].rx = Idle /\ conn[c].down # <<>>
        /\ Received(c).type = "welcome" /\ Received(c).ops = {}
        /\ WelcomedBy(c, Handled(c), agent)
        /\ replica' = replica /\ server' = server /\ history' = history
    BY DEF ReceiveEmptyWelcome, Receive, Received, worldVars
  <1>2. PICK k \in SocketState : k = conn[c]
    BY TypedState
  <1>3. /\ Handled(c) \in Sockets /\ \A d \in Socket : d # c => Handled(c)[d] = conn[d]
        /\ Handled(c)[c] = [k EXCEPT !.down = Tail(k.down)]
    BY <1>1, <1>2, HandledFields
  <1>4. PICK l \in SocketState : l = Handled(c)[c]
    BY <1>3 DEF Sockets
  <1>5. /\ l.up = k.up /\ l.session = k.session /\ l.ready = k.ready /\ l.rx = k.rx
        /\ l.down = Tail(k.down)
    BY <1>3, <1>4 DEF SocketState
  <1>6. /\ Shaped(k) /\ Gapless(k) /\ Orderly(k)
        /\ Received(c) \in Range(k.down) /\ Range(Tail(k.down)) \subseteq Range(k.down)
        /\ NoGreeting(Tail(k.down)) /\ k.session # "none"
    BY <1>1, <1>2, ReceivedKinds
  <1>7. replica.base
    BY <1>1, <1>6 DEF Orderly
  <1>8. Orderly(l)
    BY <1>5, <1>6, OrderlyLess
  <1>9. ASSUME k.session = "joined", k.ready = "greeted"
        PROVE  server \subseteq replica.doc
                 \cup {x \in Update : \E m \in Range(l.down) : m.type \in Bringing /\ x \in m.ops}
    <2>1. Range(k.down) = {Received(c)} \cup Range(l.down)
      BY <1>1, <1>2, <1>5, SocketFields, HeadTailRange DEF Received
    <2>2. k.rx.step = "idle"
      BY <1>1, <1>2 DEF Idle
    <2>3. ~Awaits(k)
      BY <1>1, <1>5, <1>6, <2>1, <2>2 DEF Awaits, NoGreeting, Greeting, Downloading
    <2>4. server \subseteq replica.doc \cup Coming(k)
      BY <1>6, <1>9, <2>3 DEF Gapless
    <2> QED
      BY <1>1, <2>1, <2>2, <2>4 DEF Coming
  <1>10. Grows
    BY <1>1 DEF Grows
  <1> QED
    BY <1>1, <1>3, <1>4, <1>5, <1>6, <1>7, <1>8, <1>9, <1>10, WelcomedGap DEF Shaped

\* The handler is over and its socket waits for the next frame; the replica may have more.
LEMMA OverGap ==
    ASSUME Typed, GapInv, NEW c \in Socket, NEW rx \in {Idle, [Idle EXCEPT !.step = "outbox"]},
           conn' = [conn EXCEPT ![c].rx = rx],
           agent'.socket = agent.socket, agent'.stopped = agent.stopped,
           agent'.welcomed = agent.welcomed,
           Grows, Settled', server' = server,
           IsCurrent(c) => /\ agent.welcomed
                           /\ conn[c].rx.step \in {"import", "ack"}
                           /\ conn[c].rx.step = "import" =>
                                 replica'.doc = replica.doc \cup conn[c].rx.ops
    PROVE  GapInv'
  <1>1. PICK k \in SocketState : k = conn[c]
    BY TypedState
  <1>2. PICK l : l = [k EXCEPT !.rx = rx]
    OBVIOUS
  <1>3. /\ l.up = k.up /\ l.session = k.session /\ l.ready = k.ready /\ l.down = k.down
        /\ l.rx = rx /\ ~rx.welcome /\ rx.step \in {"idle", "outbox"}
    BY <1>2 DEF SocketState, Idle
  <1>4. conn'[c] = l /\ \A d \in Socket : d # c => conn'[d] = conn[d]
    BY <1>1, <1>2, TypedState DEF Sockets
  <1>5. Orderly(l)'
    BY <1>1, <1>2, OrderlyOver, OrderlyStands DEF GapInv
  <1>6. ASSUME IsCurrent(c)'
        PROVE  Shaped(l)' /\ Gapless(l)'
    <2>1. IsCurrent(c) /\ agent.welcomed
      BY <1>6 DEF IsCurrent
    <2>2. Shaped(k) /\ Gapless(k) /\ Welcomed(k) /\ k.rx # Idle
      BY <1>1, <2>1 DEF GapInv, Shaped, Idle
    <2>3. Welcomed(l)'
      BY <1>3, <2>2 DEF Welcomed, Grows, Downloading
    <2>4. Shaped(l)'
      BY <1>3, <2>1, <2>2, <2>3 DEF Shaped, Downloading
    <2>5. ~Awaits(k)
      BY <2>2 DEF Welcomed, Awaits, NoGreeting, Greeting
    <2>6. Gapless(l)'
      BY <1>1, <1>3, <2>1, <2>2, <2>5 DEF Gapless, Coming, Grows
    <2> QED
      BY <2>4, <2>6
  <1>7. Others(c)
    BY <1>4 DEF Others, IsCurrent
  <1> QED
    BY <1>4, <1>5, <1>6, <1>7, OneSocketGap

LEMMA ImportLandsGap ==
    ASSUME Typed, GapInv, NEW c \in Socket, ImportLands(c)
    PROVE  GapInv'
  <1>1. PICK k \in SocketState : k = conn[c]
    BY TypedState
  <1>2. /\ k.rx.step = "import"
        /\ replica' = [replica EXCEPT !.doc = replica.doc \cup k.rx.ops]
        /\ server' = server /\ history' = history
    BY <1>1 DEF ImportLands, worldVars
  <1>3. replica'.doc = replica.doc \cup k.rx.ops /\ replica'.base = replica.base
    BY <1>2, TypedState
  <1>4. Orderly(k) /\ replica.base
    BY <1>1, <1>2 DEF GapInv, Orderly
  <1>5. Grows
    BY <1>3 DEF Grows
  <1>6. CASE IsCurrent(c) /\ k.rx.welcome
    <2>1. WelcomedBy(c, conn, agent)
      BY <1>1, <1>6 DEF ImportLands
    <2>2. Shaped(k) /\ Gapless(k)
      BY <1>1, <1>6 DEF GapInv
    <2>3. Unwelcomed(k) /\ NoGreeting(k.down) /\ k.ready # "closed" /\ k.session # "none"
      BY <1>6, <2>2 DEF Shaped, Welcomed, Unwelcomed, Idle
    <2>4. ~Awaits(k)
      BY <1>2, <2>3 DEF Awaits, NoGreeting, Greeting, Downloading
    <2>5. k.session = "joined" /\ k.ready = "greeted" =>
             server \subseteq replica'.doc
               \cup {x \in Update : \E m \in Range(k.down) : m.type \in Bringing /\ x \in m.ops}
      BY <1>3, <2>2, <2>4 DEF Gapless, Coming
    <2>6. conn \in Sockets
      BY TypedState
    <2> QED
      BY <1>1, <1>2, <1>3, <1>4, <1>5, <1>6, <2>1, <2>3, <2>5, <2>6, WelcomedGap
  <1>7. CASE ~(IsCurrent(c) /\ k.rx.welcome)
    <2>1. conn' = [conn EXCEPT ![c].rx = Idle] /\ agent' = agent
      BY <1>1, <1>7 DEF ImportLands
    <2>2. Settled'
      BY <1>2, <1>3, <1>4, <2>1 DEF GapInv, Settled
    <2>3. IsCurrent(c) => agent.welcomed
      <3> SUFFICES ASSUME IsCurrent(c), ~agent.welcomed PROVE FALSE
        OBVIOUS
      <3>1. Shaped(k)
        BY <1>1 DEF GapInv
      <3> QED
        BY <1>2, <1>7, <3>1 DEF Shaped, Unwelcomed, Idle
    <2> QED
      BY <1>1, <1>2, <1>3, <1>5, <2>1, <2>2, <2>3, OverGap
  <1> QED
    BY <1>6, <1>7

LEMMA ReplaceLandsGap ==
    ASSUME Typed, GapInv, NEW c \in Socket, ReplaceLands(c)
    PROVE  GapInv'
  <1>1. PICK k \in SocketState : k = conn[c]
    BY TypedState
  <1>2. k.rx.step = "replace" /\ server' = server /\ history' = history
    BY <1>1 DEF ReplaceLands, worldVars
  <1>3. Orderly(k)
    BY <1>1 DEF GapInv
  <1>4. CASE ~replica.base /\ replica.outbox = {}
    <2>1. /\ replica' = [replica EXCEPT !.doc = k.rx.ops, !.base = TRUE]
          /\ IF IsCurrent(c) THEN WelcomedBy(c, conn, agent)
             ELSE conn' = [conn EXCEPT ![c].rx = Idle] /\ agent' = agent
      BY <1>1, <1>4 DEF ReplaceLands
    <2>2. replica'.doc = k.rx.ops /\ replica'.base = TRUE
      BY <2>1, TypedState
    <2>3. replica.doc = {} /\ history = <<>> /\ Range(history) = {}
      BY <1>4, ShortRange DEF GapInv, Settled
    <2>4. Grows
      BY <2>2, <2>3 DEF Grows
    <2>5. CASE IsCurrent(c)
      <3>1. Shaped(k) /\ Gapless(k)
        BY <1>1, <2>5 DEF GapInv
      <3>2. k.rx.welcome
        BY <1>2, <3>1 DEF Shaped
      <3>3. NoGreeting(k.down) /\ k.ready # "closed" /\ k.session # "none"
        BY <3>1, <3>2 DEF Shaped, Welcomed, Unwelcomed, Idle
      <3>4. ~Awaits(k)
        BY <1>2, <3>3 DEF Awaits, NoGreeting, Greeting, Downloading
      <3>5. k.session = "joined" /\ k.ready = "greeted" =>
               server \subseteq replica'.doc
                 \cup {x \in Update : \E m \in Range(k.down) : m.type \in Bringing /\ x \in m.ops}
        BY <2>2, <2>3, <3>1, <3>4 DEF Gapless, Coming
      <3>6. conn \in Sockets
        BY TypedState
      <3> QED
        BY <1>1, <1>2, <1>3, <2>1, <2>2, <2>4, <2>5, <3>3, <3>5, <3>6, WelcomedGap
    <2>6. CASE ~IsCurrent(c)
      <3>1. Settled'
        BY <1>2, <2>1, <2>2, <2>3, <2>6 DEF GapInv, Settled
      <3> QED
        BY <1>2, <2>1, <2>4, <2>6, <3>1, OverGap
    <2> QED
      BY <2>5, <2>6
  <1>5. CASE ~(~replica.base /\ replica.outbox = {})
    <2>1. /\ agent' = IF IsCurrent(c) THEN TransportFailed(agent, "resync_required") ELSE agent
          /\ conn' = [(IF IsCurrent(c) THEN Without(conn, c) ELSE conn) EXCEPT ![c].rx = Idle]
          /\ replica' = replica
      BY <1>5 DEF ReplaceLands
    <2>2. Grows
      BY <2>1 DEF Grows
    <2>3. CASE IsCurrent(c)
      <3>1. agent'.socket = None /\ ~agent'.welcomed
        BY <2>1, <2>3, TypedState, FailedFields
      <3>2. Settled'
        BY <1>2, <2>1, <3>1 DEF GapInv, Settled
      <3>3. /\ Without(conn, c) \in Sockets
            /\ \A d \in Socket : Without(conn, c)[d] = IF d = c THEN Detached(conn[d]) ELSE conn[d]
        BY TypedState, WithoutSockets
      <3>4. conn' = [Without(conn, c) EXCEPT ![c].rx = Idle]
        BY <2>1, <2>3
      <3>5. ASSUME NEW d \in Socket
            PROVE  Orderly(conn'[d])
        <4>1. PICK l \in SocketState : l = Without(conn, c)[d]
          BY <3>3 DEF Sockets
        <4>2. Orderly(l)
          BY <3>3, <4>1, TypedState, OrderlyDetached DEF GapInv
        <4>3. conn'[d] = l \/ conn'[d] = [l EXCEPT !.rx = Idle]
          BY <3>3, <3>4, <4>1 DEF Sockets
        <4> QED
          BY <4>2, <4>3, OrderlyOver
      <3> QED
        BY <2>2, <3>1, <3>2, <3>5, AbandonedGap
    <2>4. CASE ~IsCurrent(c)
      <3>1. Settled'
        BY <1>2, <2>1, <2>4 DEF GapInv, Settled
      <3> QED
        BY <1>2, <2>1, <2>2, <2>4, <3>1, OverGap
    <2> QED
      BY <2>3, <2>4
  <1> QED
    BY <1>4, <1>5

LEMMA AckLandsGap ==
    ASSUME Typed, GapInv, NEW c \in Socket, AckLands(c)
    PROVE  GapInv'
  <1>1. PICK m, covered :
           replica' = [replica EXCEPT !.outbox = @ \ covered,
                                      !.frame = IF @ = m THEN {} ELSE @]
    BY DEF AckLands
  <1>2. replica'.doc = replica.doc /\ replica'.base = replica.base
    BY <1>1, TypedState
  <1>3. /\ conn[c].rx.step = "ack" /\ server' = server /\ history' = history
    BY DEF AckLands, worldVars
  <1>4. PICK rx \in {Idle, [Idle EXCEPT !.step = "outbox"]} : conn' = [conn EXCEPT ![c].rx = rx]
    BY DEF AckLands
  <1>5. \E f : agent' = agent \/ agent' = [agent EXCEPT !.inFlight = f]
    BY DEF AckLands
  <1>6. /\ agent'.socket = agent.socket /\ agent'.stopped = agent.stopped
        /\ agent'.welcomed = agent.welcomed
    BY <1>5, TypedState DEF Agent
  <1>7. Grows /\ Settled'
    BY <1>2, <1>3, <1>6 DEF Grows, GapInv, Settled
  <1>8. IsCurrent(c) => agent.welcomed
    <2> SUFFICES ASSUME IsCurrent(c), ~agent.welcomed PROVE FALSE
      OBVIOUS
    <2>1. PICK k : k = conn[c]
      OBVIOUS
    <2>2. Shaped(k) /\ Orderly(k)
      BY <2>1 DEF GapInv
    <2> QED
      BY <1>3, <2>1, <2>2 DEF Shaped, Unwelcomed, Orderly, Idle, Downloading
  <1> QED
    BY <1>3, <1>4, <1>6, <1>7, <1>8, OverGap

\* A close event leaves what was received so far.
LEMMA ClosingShape ==
    ASSUME NEW k \in SocketState, Orderly(k), Shaped(k), NEW l \in Closing(k)
    PROVE  Orderly(l) /\ Shaped(l) /\ Gapless(l)
  <1>1. /\ l \in SocketState
        /\ l.ready = "closing" /\ l.up = k.up /\ l.session = k.session /\ l.rx = k.rx
    BY ClosingFields
  <1>2. PICK n \in 0..Len(k.down) : l.down = SubSeq(k.down, 1, n)
    BY ClosingFields
  <1>3. k.down \in Seq(Message) /\ l.down \in Seq(Message)
    BY <1>1, SocketFields
  <1>4. /\ Len(k.down) \in Nat /\ Len(l.down) = n
        /\ \A i \in 1..n : l.down[i] = k.down[i]
        /\ Range(l.down) \subseteq Range(k.down)
    BY <1>2, <1>3, PrefixRange, LenProperties
  <1>5. ASSUME l.down # <<>>
        PROVE  /\ k.down # <<>> /\ Head(l.down) = Head(k.down)
               /\ Range(Tail(l.down)) \subseteq Range(Tail(k.down))
               /\ Tail(k.down) = <<>> => Tail(l.down) = <<>>
    <2>1. n # 0 /\ n \in 1..Len(k.down) /\ 1 \in 1..n
      BY <1>3, <1>4, <1>5, EmptySeq
    <2>2. k.down # <<>>
      BY <1>3, <2>1, EmptySeq
    <2>3. Head(l.down) = Head(k.down)
      BY <1>3, <1>4, <1>5, <2>1, <2>2
    <2>4. /\ Tail(l.down) \in Seq(Message) /\ Len(Tail(l.down)) = n - 1
          /\ \A i \in 1..Len(Tail(l.down)) : Tail(l.down)[i] = l.down[i + 1]
          /\ Tail(k.down) \in Seq(Message) /\ Len(Tail(k.down)) = Len(k.down) - 1
          /\ \A i \in 1..Len(Tail(k.down)) : Tail(k.down)[i] = k.down[i + 1]
      BY <1>3, <1>4, <1>5, <2>2, HeadTailProperties
    <2>5. /\ Range(Tail(l.down)) = {Tail(l.down)[i] : i \in 1..Len(Tail(l.down))}
          /\ Range(Tail(k.down)) = {Tail(k.down)[i] : i \in 1..Len(Tail(k.down))}
      BY <2>4, RangeEquality
    <2>6. ASSUME NEW i \in 1..Len(Tail(l.down))
          PROVE  i \in 1..Len(Tail(k.down)) /\ Tail(l.down)[i] = Tail(k.down)[i]
      <3>1. i \in 1..Len(Tail(k.down)) /\ i + 1 \in 1..n
        BY <1>4, <2>1, <2>4, <2>6
      <3>2. Tail(l.down)[i] = l.down[i + 1] /\ Tail(k.down)[i] = k.down[i + 1]
        BY <2>4, <3>1
      <3> QED
        BY <1>4, <3>1, <3>2
    <2>7. Range(Tail(l.down)) \subseteq Range(Tail(k.down))
      BY <2>5, <2>6
    <2>8. Tail(k.down) = <<>> => Tail(l.down) = <<>>
      <3> SUFFICES ASSUME Tail(k.down) = <<>> PROVE Tail(l.down) = <<>>
        OBVIOUS
      <3>1. Len(Tail(k.down)) = 0
        BY EmptySeq
      <3>2. Len(Tail(l.down)) = 0
        BY <1>4, <2>1, <2>4, <3>1
      <3> QED
        BY <2>4, <3>2, EmptySeq
    <2> QED
      BY <2>2, <2>3, <2>7, <2>8
  <1>6. Orderly(l)
    BY <1>1, <1>4, OrderlyLess
  <1>7. k.down = <<>> => l.down = <<>>
    BY <1>5
  <1>8. agent.welcomed => Welcomed(l)
    BY <1>1, <1>4 DEF Shaped, Welcomed, NoGreeting
  <1>9. ~agent.welcomed => Unwelcomed(l)
    BY <1>1, <1>4, <1>5 DEF Shaped, Unwelcomed, NoGreeting
  <1>10. Shaped(l)
    BY <1>1, <1>7, <1>8, <1>9 DEF Shaped
  <1>11. Gapless(l)
    BY <1>1 DEF Gapless
  <1> QED
    BY <1>6, <1>10, <1>11

\* The sockets the agent leaves when it abandons its own.
LEMMA LeavesGap ==
    ASSUME Typed, GapInv, NEW c \in Socket, IsCurrent(c), conn' = Without(conn, c),
           agent'.socket = None, ~agent'.welcomed, replica' = replica, history' = history
    PROVE  GapInv'
  <1>1. agent.socket = c
    BY DEF IsCurrent
  <1> QED
    BY <1>1, AbandonsGap

LEMMA ReceiveErrorGap ==
    ASSUME Typed, GapInv, NEW c \in Socket, ReceiveError(c)
    PROVE  GapInv'
  <1>1. /\ IsCurrent(c) /\ conn[c].rx = Idle /\ conn[c].down # <<>>
        /\ Received(c).type = "error"
        /\ replica' = replica /\ server' = server /\ history' = history
    BY DEF ReceiveError, Receive, Received, worldVars
  <1>2. PICK code : code = Received(c).code
    OBVIOUS
  <1>3. agent \in Agent
    BY TypedState
  <1>4. CASE code = "recoverable"
    <2>1. agent' = ScheduleReconnect(Abandoned(agent)) /\ conn' = Without(conn, c)
      BY <1>2, <1>4 DEF ReceiveError
    <2>2. PICK a \in Agent : a = Abandoned(agent) /\ a.socket = None /\ ~a.welcomed
      BY <1>3, AbandonFields
    <2>3. agent'.socket = None /\ ~agent'.welcomed
      BY <2>1, <2>2, RetryFields
    <2> QED
      BY <1>1, <2>1, <2>3, LeavesGap
  <1>5. CASE code = "fatal"
    <2>1. agent' = [agent EXCEPT !.sync = "error"] /\ conn' = Handled(c)
      BY <1>2, <1>5 DEF ReceiveError
    <2>2. /\ agent'.socket = agent.socket /\ agent'.stopped = agent.stopped
          /\ agent'.welcomed = agent.welcomed
      BY <1>3, <2>1 DEF Agent
    <2> QED
      BY <1>1, <2>1, <2>2, HandledGap
  <1>6. CASE code \notin {"recoverable", "fatal"}
    <2>1. /\ agent' = Pause(agent, PauseReason(code))
          /\ \E k \in Closing(Handled(c)[c]) : conn' = [conn EXCEPT ![c] = k]
      BY <1>2, <1>6 DEF ReceiveError
    <2>2. PICK l \in Closing(Handled(c)[c]) : conn' = [conn EXCEPT ![c] = l]
      BY <2>1
    <2>3. Orderly(l) /\ Shaped(l) /\ Gapless(l)
      BY <1>1, HandledShape, ClosingShape
    <2>4. conn'[c] = l /\ \A d \in Socket : d # c => conn'[d] = conn[d]
      BY <2>2, TypedState DEF Sockets
    <2>5. /\ agent'.socket = agent.socket /\ agent'.stopped = agent.stopped
          /\ agent'.welcomed = agent.welcomed
      BY <1>3, <2>1, PauseFields
    <2>6. Grows /\ Settled'
      BY <1>1, <2>5 DEF Grows, GapInv, Settled
    <2> QED
      BY <1>1, <2>3, <2>4, <2>5, <2>6, SameTransportGap
  <1> QED
    BY <1>4, <1>5, <1>6

LEMMA HelloSentGap ==
    ASSUME Typed, GapInv, NEW c \in Socket, HelloSent(c)
    PROVE  GapInv'
  <1>1. PICK k \in SocketState : k = conn[c]
    BY TypedState
  <1>2. IsCurrent(c) /\ k.ready = "open"
    BY <1>1 DEF HelloSent
  <1>3. Shaped(k) /\ Orderly(k)
    BY <1>1, <1>2 DEF GapInv
  <1>4. k.up = <<>> /\ k.session = "none"
    BY <1>2, <1>3 DEF Orderly
  <1>5. PICK m : m = Msg("hello", replica.doc, IF replica.base THEN "base" ELSE "")
    OBVIOUS
  <1>6. /\ m \in Message /\ m.type = "hello" /\ m.ops = replica.doc
        /\ m.code = "base" => replica.base
    BY <1>5, TypedState DEF Message, Msg
  <1>7. PICK l : l = [k EXCEPT !.ready = "greeted", !.up = Append(@, m)]
    OBVIOUS
  <1>8. Append(k.up, m) = <<m>>
    BY <1>4
  <1>9. /\ l.up = <<m>> /\ l.session = k.session /\ l.ready = "greeted" /\ l.down = k.down
        /\ l.rx = k.rx
    BY <1>7, <1>8 DEF SocketState
  <1>10. conn'[c] = l /\ \A d \in Socket : d # c => conn'[d] = conn[d]
    BY <1>1, <1>5, <1>7, TypedState DEF HelloSent, Sockets
  <1>11. Range(<<m>>) = {m} /\ Len(<<m>>) = 1
    BY <1>6, ShortRange
  <1>12. Orderly(l)
    BY <1>3, <1>4, <1>6, <1>9, <1>11 DEF Orderly
  <1>13. Shaped(l) /\ Gapless(l)
    BY <1>3, <1>4, <1>9 DEF Shaped, Unwelcomed, Welcomed, Gapless
  <1>14. /\ agent' = agent /\ replica' = replica /\ server' = server /\ history' = history
    BY DEF HelloSent, worldVars
  <1>15. Grows /\ Settled'
    BY <1>14 DEF Grows, GapInv, Settled
  <1> QED
    BY <1>10, <1>12, <1>13, <1>14, <1>15, SameTransportGap

\* The link opens, is refused or is closed by the server.
LEMMA ReadyGap ==
    ASSUME Typed, GapInv, NEW c \in Socket, NEW ready \in {"open", "closing"},
           conn' = [conn EXCEPT ![c].ready = ready],
           ready = "open" => conn[c].ready = "connecting",
           agent' = agent, replica' = replica, server' = server, history' = history
    PROVE  GapInv'
  <1>1. PICK k \in SocketState : k = conn[c]
    BY TypedState
  <1>2. PICK l : l = [k EXCEPT !.ready = ready]
    OBVIOUS
  <1>3. /\ l.up = k.up /\ l.session = k.session /\ l.ready = ready /\ l.down = k.down
        /\ l.rx = k.rx
    BY <1>2 DEF SocketState
  <1>4. conn'[c] = l /\ \A d \in Socket : d # c => conn'[d] = conn[d]
    BY <1>1, <1>2, TypedState DEF Sockets
  <1>5. Orderly(l)
    BY <1>1, <1>3, OrderlyLess DEF GapInv
  <1>6. IsCurrent(c) => Shaped(l) /\ Gapless(l)
    <2>1. IsCurrent(c) => Shaped(k)
      BY <1>1 DEF GapInv
    <2> QED
      BY <1>3, <2>1 DEF Shaped, Unwelcomed, Welcomed, Gapless
  <1>7. Grows /\ Settled'
    BY DEF Grows, GapInv, Settled
  <1> QED
    BY <1>4, <1>5, <1>6, <1>7, SameTransportGap

LEMMA DownloadedGap ==
    ASSUME Typed, GapInv, NEW c \in Socket, Downloaded(c)
    PROVE  GapInv'
  <1>1. PICK k \in SocketState : k = conn[c]
    BY TypedState
  <1>2. /\ IsCurrent(c) /\ k.rx.step \in Downloading
        /\ agent' = agent /\ replica' = replica /\ server' = server /\ history' = history
    BY <1>1 DEF Downloaded, worldVars
  <1>3. Shaped(k) /\ Orderly(k)
    BY <1>1, <1>2 DEF GapInv
  <1>4. PICK step : step = IF k.rx.step = "replace_download" THEN "replace" ELSE "import"
    OBVIOUS
  <1>5. PICK rx : rx = [k.rx EXCEPT !.ops = server, !.step = step]
    OBVIOUS
  <1>6. rx.ops = server /\ rx.step = step /\ rx.welcome = k.rx.welcome
    BY <1>1, <1>5, SocketFields DEF Receiving
  <1>7. PICK l : l = [k EXCEPT !.rx = rx]
    OBVIOUS
  <1>8. /\ l.up = k.up /\ l.session = k.session /\ l.ready = k.ready /\ l.down = k.down
        /\ l.rx = rx
    BY <1>7 DEF SocketState
  <1>9. conn' = [conn EXCEPT ![c] = l]
    BY <1>1, <1>4, <1>5, <1>7, TypedState DEF Downloaded, Sockets, SocketState
  <1>10. conn'[c] = l /\ \A d \in Socket : d # c => conn'[d] = conn[d]
    BY <1>9, TypedState DEF Sockets
  <1>11. Orderly(l)
    BY <1>2, <1>3, <1>4, <1>6, <1>8 DEF Orderly, Downloading
  <1>12. ~agent.welcomed /\ k.rx.welcome
    BY <1>2, <1>3 DEF Shaped, Welcomed
  <1>13. k.rx # Idle
    BY <1>2 DEF Idle, Downloading
  <1>14. Shaped(l)
    BY <1>3, <1>6, <1>8, <1>12, <1>13 DEF Shaped, Unwelcomed
  <1>15. server \subseteq Update
    BY TypedState
  <1>16. Gapless(l)
    BY <1>4, <1>6, <1>8, <1>15 DEF Gapless, Coming
  <1>17. Grows /\ Settled'
    BY <1>2 DEF Grows, GapInv, Settled
  <1> QED
    BY <1>2, <1>10, <1>11, <1>14, <1>16, <1>17, SameTransportGap

LEMMA SocketStepGap == Typed /\ GapInv /\ (\E c \in Socket : SocketStep(c)) => GapInv'
  <1> SUFFICES ASSUME Typed, GapInv, NEW c \in Socket, SocketStep(c) PROVE GapInv'
    OBVIOUS
  <1>0. agent \in Agent
    BY TypedState
  <1>g. /\ "welcome" \in Greeting /\ "replace" \in Greeting /\ Downloading \subseteq Greeting
        /\ "update" \notin Greeting /\ "ack" \notin Greeting
        /\ Downloading = {"merge_download", "replace_download"}
        /\ Bringing = {"update", "welcome", "replace"}
    BY DEF Greeting, Downloading, Bringing
  <1>k. ASSUME NEW type, Receive(c, type)
        PROVE  /\ IsCurrent(c) /\ conn[c].rx = Idle /\ conn[c].down # <<>>
               /\ Received(c).type = type
    BY <1>k DEF Receive, Received
  <1>a. PICK a \in Agent : a = Abandoned(agent) /\ a.socket = None /\ ~a.welcomed
    BY <1>0, AbandonFields
  <1>b. ScheduleReconnect(a).socket = None /\ ~ScheduleReconnect(a).welcomed
    BY <1>a, RetryFields
  <1>1. CASE SocketOpens(c)
    BY <1>1, ReadyGap DEF SocketOpens, worldVars
  <1>2. CASE SocketRefused(c)
    BY <1>2, ReadyGap DEF SocketRefused, worldVars
  <1>3. CASE HelloSent(c)
    BY <1>3, HelloSentGap
  <1>4. CASE CloseDrained(c)
    BY <1>4, <1>a, <1>b, LeavesGap DEF CloseDrained
  <1>5. CASE DownloadAborted(c)
    BY <1>5, <1>0, FailedFields, LeavesGap DEF DownloadAborted
  <1>6. CASE ReceiveWelcome(c)
    <2>1. Receive(c, "welcome") /\ Begin(c, "import", TRUE)
      BY <1>6 DEF ReceiveWelcome
    <2>2. /\ IsCurrent(c) /\ conn[c].rx = Idle /\ conn[c].down # <<>>
          /\ Received(c).type = "welcome"
      BY <2>1, <1>k
    <2>3. /\ "import" \notin Downloading \cup {"ack", "merge_download"} /\ "welcome" \notin Downloading
          /\ "import" = "import" => "welcome" \in {"update", "welcome"}
          /\ "welcome" \in Greeting /\ "welcome" # "error"
          /\ "import" \in {"merge_download", "replace_download", "import", "replace", "ack"}
      BY <1>g
    <2> QED
      BY <2>1, <2>2, <2>3, BeginGap
  <1>7. CASE ReceiveEmptyWelcome(c)
    BY <1>7, ReceiveEmptyWelcomeGap
  <1>8. CASE ReceiveReplace(c)
    <2>1. Receive(c, "replace") /\ Begin(c, "replace", TRUE)
      BY <1>8 DEF ReceiveReplace
    <2>2. /\ IsCurrent(c) /\ conn[c].rx = Idle /\ conn[c].down # <<>>
          /\ Received(c).type = "replace"
      BY <2>1, <1>k
    <2>3. /\ "replace" \notin Downloading \cup {"ack", "merge_download"} /\ "replace" \notin Downloading
          /\ "replace" = "import" => "replace" \in {"update", "welcome"}
          /\ "replace" \in Greeting /\ "replace" # "error"
          /\ "replace" \in {"merge_download", "replace_download", "import", "replace", "ack"}
      BY <1>g
    <2> QED
      BY <2>1, <2>2, <2>3, BeginGap
  <1>9. CASE ReceiveDownload(c)
    <2>1. PICK d \in Downloading : Receive(c, d) /\ Begin(c, d, TRUE)
      BY <1>9 DEF ReceiveDownload
    <2> QED
      BY <2>1, <1>g, <1>k, BeginGap
  <1>10. CASE Downloaded(c)
    BY <1>10, DownloadedGap
  <1>11. CASE DownloadRefused(c)
    BY <1>11, <1>0, FailedFields, LeavesGap DEF DownloadRefused
  <1>12. CASE ReceiveUpdate(c)
    <2>1. Receive(c, "update") /\ Begin(c, "import", FALSE)
      BY <1>12 DEF ReceiveUpdate
    <2>2. /\ IsCurrent(c) /\ conn[c].rx = Idle /\ conn[c].down # <<>>
          /\ Received(c).type = "update"
      BY <2>1, <1>k
    <2>3. /\ "import" \notin Downloading \cup {"ack", "merge_download"} /\ "update" \notin Downloading
          /\ "import" = "import" => "update" \in {"update", "welcome"}
          /\ "update" \notin Greeting /\ "update" # "error"
          /\ "import" \in {"merge_download", "replace_download", "import", "replace", "ack"}
      BY <1>g
    <2> QED
      BY <2>1, <2>2, <2>3, BeginGap
  <1>13. CASE ImportLands(c)
    BY <1>13, ImportLandsGap
  <1>14. CASE ReplaceLands(c)
    BY <1>14, ReplaceLandsGap
  <1>15. CASE ReceiveAck(c)
    <2>1. Receive(c, "ack")
      BY <1>15 DEF ReceiveAck
    <2>2. CASE Begin(c, "ack", FALSE)
      <3>1. /\ IsCurrent(c) /\ conn[c].rx = Idle /\ conn[c].down # <<>>
            /\ Received(c).type = "ack"
        BY <2>1, <1>k
      <3>2. /\ "ack" \notin Downloading \cup {"replace", "merge_download", "import"}
            /\ "ack" \notin Greeting /\ "ack" # "error" /\ "ack" \notin Bringing
            /\ "ack" \in {"merge_download", "replace_download", "import", "replace", "ack"}
        BY <1>g
      <3> QED
        BY <2>2, <3>1, <3>2, BeginGap
    <2>3. CASE conn' = Handled(c) /\ UNCHANGED <<agent, replica, history, server>>
      BY <2>1, <2>3, <1>k, HandledGap
    <2> QED
      BY <1>15, <2>2, <2>3 DEF ReceiveAck, worldVars
  <1>16. CASE AckLands(c)
    BY <1>16, AckLandsGap
  <1>17. CASE ReceiveResync(c)
    <2>1. Receive(c, "resync")
      BY <1>17 DEF ReceiveResync
    <2> QED
      BY <1>17, <2>1, <1>a, <1>b, <1>k, LeavesGap DEF ReceiveResync
  <1>18. CASE ReceiveError(c)
    BY <1>18, ReceiveErrorGap
  <1> QED
    BY <1>1, <1>2, <1>3, <1>4, <1>5, <1>6, <1>7, <1>8, <1>9, <1>10, <1>11, <1>12, <1>13,
       <1>14, <1>15, <1>16, <1>17, <1>18 DEF SocketStep
-----------------------------------------------------------------------------
(* The server's steps.                                                      *)

\* What the server says to a session after its Welcome keeps the order.
LEMMA ToldShape ==
    ASSUME NEW k \in SocketState, NEW m \in Message, m.type \notin Greeting,
           k.session = "joined", Shaped(k), NEW l,
           l.down = k.down \/ (k.ready = "greeted" /\ l.down = Append(k.down, m)),
           l.rx = k.rx, l.ready = k.ready, l.session \in {"joined", "ended"}
    PROVE  /\ Shaped(l)
           /\ Range(l.down) \subseteq Range(k.down) \cup {m}
           /\ Gapless(k) => Gapless(l)
           /\ l.down = Append(k.down, m) /\ m.type = "update" => m.ops \subseteq Coming(l)
  <1>1. /\ k.down \in Seq(Message) /\ Append(k.down, m) \in Seq(Message)
        /\ Append(k.down, m) # <<>>
        /\ Range(Append(k.down, m)) = Range(k.down) \cup {m}
    BY SocketFields, AppendRange
  <1>2. /\ Head(Append(k.down, m)) = IF k.down = <<>> THEN m ELSE Head(k.down)
        /\ Tail(Append(k.down, m)) = IF k.down = <<>> THEN <<>> ELSE Append(Tail(k.down), m)
    BY <1>1, HeadTailAppend
  <1>3. k.down # <<>> => Range(Append(Tail(k.down), m)) = Range(Tail(k.down)) \cup {m}
    <2> SUFFICES ASSUME k.down # <<>>
                 PROVE  Range(Append(Tail(k.down), m)) = Range(Tail(k.down)) \cup {m}
      OBVIOUS
    <2>1. PICK q \in Seq(Message) : q = Tail(k.down)
      BY <1>1, HeadTailRange
    <2>2. Range(Append(q, m)) = Range(q) \cup {m}
      BY AppendRange
    <2> QED
      BY <2>1, <2>2
  <1>4. Range(k.down) \subseteq Range(l.down) /\ Range(l.down) \subseteq Range(k.down) \cup {m}
    BY <1>1
  <1>5. agent.welcomed => Welcomed(l)
    BY <1>4 DEF Shaped, Welcomed, NoGreeting
  <1>6. ~agent.welcomed => Unwelcomed(l)
    <2> SUFFICES ASSUME ~agent.welcomed PROVE Unwelcomed(l)
      OBVIOUS
    <2>1. Unwelcomed(k)
      BY DEF Shaped
    <2>2. CASE l.down = k.down
      BY <2>1, <2>2 DEF Unwelcomed
    <2>3. CASE k.ready = "greeted" /\ l.down = Append(k.down, m)
      <3>1. CASE k.rx.welcome
        BY <1>4, <2>1, <3>1 DEF Unwelcomed, NoGreeting
      <3>2. CASE ~k.rx.welcome
        <4>1. k.rx = Idle /\ k.down # <<>> /\ Head(k.down).type \in Greeting
              /\ NoGreeting(Tail(k.down))
          BY <2>1, <2>3, <3>2 DEF Unwelcomed
        <4>2. Head(l.down) = Head(k.down) /\ Tail(l.down) = Append(Tail(k.down), m)
          BY <1>2, <2>3, <4>1
        <4>3. NoGreeting(Tail(l.down))
          BY <1>3, <4>1, <4>2 DEF NoGreeting
        <4>4. "error" \notin Greeting
          BY DEF Greeting, Downloading
        <4> QED
          BY <1>1, <2>3, <3>2, <4>1, <4>2, <4>3, <4>4 DEF Unwelcomed
      <3> QED
        BY <3>1, <3>2
    <2> QED
      BY <2>2, <2>3
  <1>7. Shaped(l)
    BY <1>5, <1>6 DEF Shaped
  <1>8. Gapless(k) => Gapless(l)
    BY <1>4 DEF Gapless, Coming, Awaits
  <1>9. l.down = Append(k.down, m) /\ m.type = "update" => m.ops \subseteq Coming(l)
    <2>1. m.ops \in SUBSET Update
      BY MessageTypes
    <2> QED
      BY <1>1, <2>1 DEF Coming, Bringing
  <1> QED
    BY <1>4, <1>7, <1>8, <1>9

\* The answer to a frame, field by field.
LEMMA ReplyShape ==
    ASSUME Typed, NEW c \in Socket, conn[c].up # <<>>, NEW m \in Message,
           NEW session \in {"none", "joined", "ended"}, Reply(c, <<m>>, session)
    PROVE  /\ conn'[c].ready = conn[c].ready /\ conn'[c].rx = conn[c].rx
           /\ conn'[c].up = Tail(conn[c].up) /\ conn'[c].session = session
           /\ conn'[c].down = IF conn[c].ready = "greeted" THEN Append(conn[c].down, m)
                              ELSE conn[c].down
           /\ \A d \in Socket : d # c => conn'[d] = conn[d]
           /\ Range(Tail(conn[c].up)) \subseteq Range(conn[c].up)
           /\ Len(Tail(conn[c].up)) = Len(conn[c].up) - 1 /\ Len(conn[c].up) \in Nat
  <1>1. conn[c].up \in Seq(Message) /\ conn[c].down \in Seq(Message)
    BY TypedState, SocketFields
  <1>2. Append(conn[c].down, m) = conn[c].down \o <<m>>
    BY <1>1, AppendIsConcat
  <1>3. PICK msgs \in Seq(Message) : msgs = <<m>>
    BY ShortRange
  <1>4. Reply(c, msgs, session)
    BY <1>3
  <1>5. /\ Range(Tail(conn[c].up)) \subseteq Range(conn[c].up)
        /\ Len(Tail(conn[c].up)) = Len(conn[c].up) - 1
    BY <1>1, HeadTailRange
  <1>6. Len(conn[c].up) \in Nat
    BY <1>1, LenProperties
  <1> QED
    BY <1>2, <1>3, <1>4, <1>5, <1>6, ReplyFields

\* A joined session is answered.
LEMMA AnsweredGap ==
    ASSUME Typed, GapInv, NEW c \in Socket, conn[c].up # <<>>, conn[c].session = "joined",
           NEW m \in Message, m.type \in {"ack", "error", "resync"},
           NEW session \in {"joined", "ended"}, Reply(c, <<m>>, session),
           agent' = agent, replica' = replica, history' = history,
           server' \subseteq server \cup replica.doc
    PROVE  GapInv'
  <1>1. PICK k \in SocketState : k = conn[c]
    BY TypedState
  <1>2. PICK l : l = conn'[c]
    OBVIOUS
  <1>3. /\ l.ready = k.ready /\ l.rx = k.rx /\ l.up = Tail(k.up) /\ l.session = session
        /\ l.down = IF k.ready = "greeted" THEN Append(k.down, m) ELSE k.down
        /\ \A d \in Socket : d # c => conn'[d] = conn[d]
        /\ Range(l.up) \subseteq Range(k.up)
    BY <1>1, <1>2, ReplyShape
  <1>4. m.type \notin Greeting
    BY DEF Greeting, Downloading
  <1>5. Orderly(k)
    BY <1>1 DEF GapInv
  <1>6. Range(l.down) \subseteq Range(k.down) \cup {m}
    BY <1>3, SocketFields, AppendRange
  <1>7. Orderly(l)
    <2>1. k.ready \notin {"connecting", "open"}
      BY <1>1, <1>5 DEF Orderly
    <2>2. \A n \in Range(l.up) : n.type # "hello"
      BY <1>1, <1>3, <1>5 DEF Orderly
    <2>3. \A n \in Range(l.up) : n.code = "base" => replica.base
      BY <1>3, <1>5 DEF Orderly
    <2>4. \A n \in Range(l.down) : n.type \in {"welcome", "merge_download"} => replica.base
      BY <1>5, <1>6 DEF Orderly
    <2> QED
      BY <1>3, <1>5, <2>1, <2>2, <2>3, <2>4 DEF Orderly
  <1>8. IsCurrent(c) => Shaped(l) /\ Gapless(l)
    <2> SUFFICES ASSUME IsCurrent(c) PROVE Shaped(l) /\ Gapless(l)
      OBVIOUS
    <2>1. Shaped(k) /\ Gapless(k)
      BY <1>1 DEF GapInv
    <2> QED
      BY <1>1, <1>3, <1>4, <2>1, ToldShape
  <1>9. Grows /\ Settled' /\ server' \subseteq server \cup replica'.doc
    BY DEF Grows, GapInv, Settled
  <1> QED
    BY <1>2, <1>3, <1>7, <1>8, <1>9, SameTransportGap

\* A Hello is answered: with the Welcome, which brings what the replica lacks, or not at
\* all.
LEMMA HelloGap ==
    ASSUME Typed, GapInv, NEW c \in Socket, Serves(c, "hello"),
           NEW m \in Message, NEW session \in {"joined", "ended"}, Reply(c, <<m>>, session),
           agent' = agent, replica' = replica, history' = history, server' = server,
           \/ m.type = "error" /\ session = "ended"
           \/ /\ m.type \in Greeting
              /\ m.type \in {"welcome", "merge_download"} => replica.base
              /\ m.type \notin Downloading =>
                    server \subseteq replica.doc \cup m.ops
    PROVE  GapInv'
  <1>1. PICK k \in SocketState : k = conn[c]
    BY TypedState
  <1>2. PICK l : l = conn'[c]
    OBVIOUS
  <1>3. k.up # <<>> /\ Head(k.up).type = "hello" /\ k.up \in Seq(Message)
    BY <1>1, SocketFields DEF Serves
  <1>4. /\ l.ready = k.ready /\ l.rx = k.rx /\ l.up = Tail(k.up) /\ l.session = session
        /\ l.down = IF k.ready = "greeted" THEN Append(k.down, m) ELSE k.down
        /\ \A d \in Socket : d # c => conn'[d] = conn[d]
        /\ Len(l.up) = Len(k.up) - 1 /\ Len(k.up) \in Nat
    BY <1>1, <1>2, <1>3, ReplyShape
  <1>5. Orderly(k) /\ (IsCurrent(c) => Shaped(k))
    BY <1>1 DEF GapInv
  <1>6. Head(k.up) \in Range(k.up) /\ Tail(k.up) \in Seq(Message)
    BY <1>3, HeadTailRange
  <1>7. k.session = "none" /\ Len(k.up) <= 1 /\ k.ready \notin {"connecting", "open"}
    BY <1>3, <1>5, <1>6 DEF Orderly
  <1>8. l.up = <<>> /\ Range(l.up) = {}
    <2>1. Len(k.up) # 0
      BY <1>3, EmptySeq
    <2>2. Len(l.up) = 0
      <3>1. PICK n \in Nat : n = Len(k.up)
        BY <1>4
      <3>2. n <= 1 /\ n # 0
        BY <1>7, <2>1, <3>1
      <3>4. n = 1
        BY <3>2
      <3> QED
        BY <1>4, <3>1, <3>4
    <2>3. l.up = <<>>
      BY <1>4, <1>6, <2>2, EmptySeq
    <2> QED
      BY <2>3, ShortRange
  <1>9. Range(l.down) \subseteq Range(k.down) \cup {m}
    BY <1>4, SocketFields, AppendRange
  <1>10. \A n \in Range(l.down) : n.type \in {"welcome", "merge_download"} => replica.base
    BY <1>5, <1>9 DEF Orderly, Greeting, Downloading
  <1>11. Orderly(l)
    BY <1>4, <1>5, <1>7, <1>8, <1>10 DEF Orderly
  <1>12. ASSUME IsCurrent(c)
         PROVE  Shaped(l) /\ Gapless(l)
    <2>1. k.down = <<>> /\ k.rx = Idle /\ ~agent.welcomed /\ k.ready # "closed"
      BY <1>5, <1>7, <1>12 DEF Shaped
    <2>2. ~Idle.welcome /\ Idle.step = "idle"
      BY DEF Idle
    <2>3. CASE k.ready # "greeted"
      <3>1. l.down = <<>>
        BY <1>4, <2>1, <2>3
      <3> QED
        BY <1>4, <2>1, <2>2, <2>3, <3>1 DEF Shaped, Unwelcomed, Gapless, Downloading
    <2>4. CASE k.ready = "greeted"
      <3>1. Append(k.down, m) = <<m>>
        BY <2>1
      <3>2. l.down = <<m>> /\ l.down # <<>> /\ Head(l.down) = m /\ Tail(l.down) = <<>>
        BY <1>4, <2>4, <3>1
      <3>3. Range(l.down) = {m} /\ Range(<<>>) = {}
        BY <3>2, ShortRange
      <3>4. Unwelcomed(l)
        BY <1>4, <2>1, <2>2, <3>2, <3>3 DEF Unwelcomed, NoGreeting
      <3>5. Shaped(l)
        BY <1>4, <2>1, <2>2, <3>4 DEF Shaped, Downloading
      <3>6. CASE m.type \in Downloading
        BY <3>3, <3>5, <3>6 DEF Gapless, Awaits
      <3>7. CASE m.type = "error" /\ session = "ended"
        BY <1>4, <3>5, <3>7 DEF Gapless
      <3>8. CASE /\ m.type \in Greeting \ Downloading /\ server \subseteq replica.doc \cup m.ops
        <4>1. m.type \in Bringing /\ server \subseteq Update
          BY <3>8, TypedState DEF Greeting, Bringing
        <4>2. server \subseteq replica.doc \cup Coming(l)
          BY <3>3, <3>8, <4>1 DEF Coming
        <4> QED
          BY <3>5, <4>2 DEF Gapless
      <3> QED
        BY <3>5, <3>6, <3>7, <3>8
    <2> QED
      BY <2>3, <2>4
  <1>13. Grows /\ Settled'
    BY DEF Grows, GapInv, Settled
  <1> QED
    BY <1>2, <1>4, <1>11, <1>12, <1>13, SameTransportGap

LEMMA ServerHelloGap ==
    ASSUME Typed, GapInv, NEW c \in Socket, ServerHello(c)
    PROVE  GapInv'
  <1>1. /\ Serves(c, "hello")
        /\ agent' = agent /\ replica' = replica /\ history' = history /\ server' = server
    BY DEF ServerHello, worldVars
  <1>2. CASE access # "member"
    <2>1. PICK m \in Message : m = Msg("error", {}, "access_denied") /\ m.type = "error"
      BY Errors
    <2>2. Reply(c, <<m>>, "ended")
      BY <1>2, <2>1 DEF ServerHello
    <2> QED
      BY <1>1, <2>1, <2>2, HelloGap
  <1>3. CASE access = "member"
    <2>1. PICK hello : hello = Head(conn[c].up)
      OBVIOUS
    <2>2. PICK gap : gap = server \ hello.ops
      OBVIOUS
    <2>3. PICK m \in IF hello.code = "base"
                     THEN {Msg("welcome", gap, ""), Msg("merge_download", {}, "")}
                     ELSE {Msg("replace", server, ""), Msg("replace_download", {}, "")} :
               Reply(c, <<m>>, "joined")
      BY <1>3, <2>1, <2>2 DEF ServerHello
    <2>4. hello \in Range(conn[c].up) /\ hello.type = "hello"
      BY <1>1, <2>1, TypedState, SocketFields, HeadTailRange DEF Serves
    <2>5. hello.ops \subseteq replica.doc /\ (hello.code = "base" => replica.base)
      BY <2>4 DEF GapInv, Orderly
    <2>6. server \in SUBSET Update /\ gap \in SUBSET Update
      BY <2>2, TypedState
    <2>7. m \in Message
      BY <2>3, <2>6, Replies
    <2>8. \/ m.type = "welcome" /\ m.ops = gap /\ hello.code = "base"
          \/ m.type = "merge_download" /\ hello.code = "base"
          \/ m.type = "replace" /\ m.ops = server
          \/ m.type = "replace_download"
      <3>2. CASE hello.code = "base"
        <4>1. m = Msg("welcome", gap, "") \/ m = Msg("merge_download", {}, "")
          BY <2>3, <3>2
        <4>2. Msg("welcome", gap, "").type = "welcome" /\ Msg("welcome", gap, "").ops = gap
          BY DEF Msg
        <4>3. Msg("merge_download", {}, "").type = "merge_download"
          BY DEF Msg
        <4> QED
          BY <3>2, <4>1, <4>2, <4>3
      <3>3. CASE hello.code # "base"
        <4>1. m = Msg("replace", server, "") \/ m = Msg("replace_download", {}, "")
          BY <2>3, <3>3
        <4>2. Msg("replace", server, "").type = "replace" /\ Msg("replace", server, "").ops = server
          BY DEF Msg
        <4>3. Msg("replace_download", {}, "").type = "replace_download"
          BY DEF Msg
        <4> QED
          BY <4>1, <4>2, <4>3
      <3> QED
        BY <3>2, <3>3
    <2>9. /\ m.type \in Greeting
          /\ m.type \in {"welcome", "merge_download"} => replica.base
          /\ m.type \notin Downloading => server \subseteq replica.doc \cup m.ops
      BY <2>2, <2>5, <2>8 DEF Greeting, Downloading
    <2> QED
      BY <1>1, <2>3, <2>7, <2>9, HelloGap
  <1> QED
    BY <1>2, <1>3

LEMMA ServerStepGap ==
    ASSUME Typed, DeliveryInv, GapInv, NEW c \in Socket, ServerStep(c) \/ ServerRefuses(c)
    PROVE  GapInv'
  <1>0. conn[c] \in SocketState /\ conn[c].up \in Seq(Message)
    BY TypedState, SocketFields
  <1>s. (Grows /\ Settled') \/ replica' # replica \/ history' # history \/ agent' # agent
    BY DEF Grows, GapInv, Settled
  <1>1. CASE ServerHello(c)
    BY <1>1, ServerHelloGap
  <1>2. CASE ServerDiscards(c)
    <2>1. PICK k \in SocketState : k = conn[c]
      BY <1>0
    <2>2. PICK l : l = conn'[c]
      OBVIOUS
    <2>3. /\ k.up # <<>> /\ k.up \in Seq(Message) /\ k.down \in Seq(Message)
          /\ k.session \in {"none", "joined", "ended"}
          /\ Reply(c, <<>>, k.session)
          /\ agent' = agent /\ replica' = replica /\ history' = history /\ server' = server
      BY <1>2, <2>1, SocketFields DEF ServerDiscards, Serves, worldVars
    <2>4. k.down \o <<>> = k.down
      BY <2>3, ConcatEmptySeq
    <2>5. <<>> \in Seq(Message)
      BY ShortRange
    <2>6. /\ l.ready = k.ready /\ l.rx = k.rx /\ l.up = Tail(k.up) /\ l.session = k.session
          /\ l.down = k.down
          /\ \A d \in Socket : d # c => conn'[d] = conn[d]
      BY <2>1, <2>2, <2>3, <2>4, <2>5, ReplyFields
    <2>7. Range(l.up) \subseteq Range(k.up) /\ Len(l.up) = Len(k.up) - 1 /\ Len(k.up) \in Nat
      BY <2>3, <2>6, HeadTailRange, LenProperties
    <2>8. Orderly(l)
      <3>1. Orderly(k)
        BY <2>1 DEF GapInv
      <3>2. k.ready \notin {"connecting", "open"} /\ (l.session = "none" => Len(l.up) <= 1)
        BY <2>3, <2>6, <2>7, <3>1 DEF Orderly
      <3> QED
        BY <2>6, <2>7, <3>1, <3>2 DEF Orderly
    <2>9. IsCurrent(c) => Shaped(l) /\ Gapless(l)
      <3>1. IsCurrent(c) => Shaped(k) /\ Gapless(k)
        BY <2>1 DEF GapInv
      <3> QED
        BY <2>6, <3>1 DEF Shaped, Welcomed, Unwelcomed, Gapless, Awaits, Coming
    <2> QED
      BY <1>s, <2>2, <2>3, <2>6, <2>8, <2>9, SameTransportGap
  <1>3. CASE ServerUpdate(c)
    <2>1. PICK f : f = Head(conn[c].up).ops
      OBVIOUS
    <2>2. /\ conn[c].up # <<>> /\ Head(conn[c].up).type = "update"
          /\ conn[c].session = "joined"
          /\ agent' = agent /\ replica' = replica /\ history' = history
      BY <1>3 DEF ServerUpdate, Serves
    <2>3. Head(conn[c].up) \in Range(conn[c].up) /\ Head(conn[c].up) \in Message
      BY <1>0, <2>2, HeadTailRange
    <2>4. f \subseteq replica.doc /\ f \in SUBSET Update
      <3>1. Sendable(f)
        BY <2>1, <2>2, <2>3 DEF DeliveryInv, Wire
      <3>2. f \subseteq Range(history)
        BY <3>1 DEF Sendable, Closed
      <3>3. f \in SUBSET Update
        BY <2>1, <2>3, MessageTypes
      <3> QED
        BY <3>2, <3>3 DEF GapInv, Settled
    <2>5. CASE access = "member"
      <3>1. PICK m \in Message : m = Msg("ack", f, "") /\ m.type = "ack"
        BY <2>4, Replies DEF Msg
      <3>2. Reply(c, <<m>>, "joined") /\ server' = server \cup f
        BY <1>3, <2>1, <2>5, <3>1 DEF ServerUpdate
      <3> QED
        BY <2>2, <2>4, <3>1, <3>2, AnsweredGap
    <2>6. CASE access # "member"
      <3>1. PICK m \in Message : m = Msg("error", {}, "access_denied") /\ m.type = "error"
        BY Errors
      <3>2. Reply(c, <<m>>, "ended") /\ server' = server
        BY <1>3, <2>6, <3>1 DEF ServerUpdate
      <3> QED
        BY <2>2, <3>1, <3>2, AnsweredGap
    <2> QED
      BY <2>5, <2>6
  <1>4. CASE ServerEnds(c)
    <2>1. PICK k \in SocketState : k = conn[c]
      BY <1>0
    <2>2. PICK l : l = [k EXCEPT !.session = "none", !.up = <<>>]
      OBVIOUS
    <2>3. /\ l.up = <<>> /\ l.session = "none" /\ l.ready = k.ready /\ l.down = k.down
          /\ l.rx = k.rx
      BY <2>2 DEF SocketState
    <2>4. /\ k.ready = "closed"
          /\ agent' = agent /\ replica' = replica /\ history' = history /\ server' = server
      BY <1>4, <2>1 DEF ServerEnds, worldVars
    <2>5. conn'[c] = l /\ \A d \in Socket : d # c => conn'[d] = conn[d]
      BY <1>4, <2>1, <2>2, TypedState DEF ServerEnds, Sockets
    <2>6. ~IsCurrent(c)
      BY <2>1, <2>4 DEF GapInv, Shaped
    <2>7. Orderly(l)
      <3>1. Orderly(k)
        BY <2>1 DEF GapInv
      <3>2. Range(<<>>) = {} /\ Len(<<>>) <= 1
        BY ShortRange
      <3> QED
        BY <2>3, <2>4, <3>1, <3>2 DEF Orderly
    <2> QED
      BY <1>s, <2>4, <2>5, <2>6, <2>7, SameTransportGap
  <1>5. CASE MembershipTick(c)
    <2>1. PICK k \in SocketState : k = conn[c]
      BY <1>0
    <2>2. PICK m \in Message : m = Msg("error", {}, "access_denied") /\ m.type = "error"
      BY Errors
    <2>3. PICK l : l = conn'[c]
      OBVIOUS
    <2>4. /\ k.session = "joined"
          /\ agent' = agent /\ replica' = replica /\ history' = history /\ server' = server
      BY <1>5, <2>1 DEF MembershipTick, worldVars
    <2>5. /\ l.up = k.up /\ l.session = "ended" /\ l.ready = k.ready /\ l.rx = k.rx
          /\ l.down = k.down \/ (k.ready = "greeted" /\ l.down = Append(k.down, m))
          /\ \A d \in Socket : d # c => conn'[d] = conn[d]
      <3>1. PICK down : down = IF k.ready = "greeted" /\ credential = "good"
                               THEN Append(k.down, m) ELSE k.down
        OBVIOUS
      <3>2. conn' = [conn EXCEPT ![c].session = "ended", ![c].down = down]
        BY <1>5, <2>1, <2>2, <3>1, TypedState DEF MembershipTick, Sockets
      <3>3. l = [k EXCEPT !.session = "ended", !.down = down]
        BY <2>1, <2>3, <3>2, TypedState DEF Sockets
      <3> QED
        BY <2>1, <3>1, <3>2, <3>3, TypedState DEF SocketState, Sockets
    <2>6. m.type \notin Greeting
      BY <2>2 DEF Greeting, Downloading
    <2>7. Range(l.down) \subseteq Range(k.down) \cup {m}
      <3>1. k.down \in Seq(Message)
        BY SocketFields
      <3>2. Range(Append(k.down, m)) = Range(k.down) \cup {m}
        BY <3>1, AppendRange
      <3> QED
        BY <2>5, <3>2
    <2>8. Orderly(l)
      BY <2>1, <2>2, <2>4, <2>5, <2>7 DEF GapInv, Orderly
    <2>9. IsCurrent(c) => Shaped(l) /\ Gapless(l)
      <3>1. IsCurrent(c) => Shaped(k) /\ Gapless(k)
        BY <2>1 DEF GapInv
      <3> QED
        BY <2>4, <2>5, <2>6, <3>1, ToldShape
    <2> QED
      BY <1>s, <2>3, <2>4, <2>5, <2>8, <2>9, SameTransportGap
  <1>6. CASE ServerCloses(c)
    BY <1>6, ReadyGap DEF ServerCloses, worldVars
  <1>7. CASE ServerRefuses(c)
    <2>1. agent' = agent /\ replica' = replica /\ history' = history /\ server' = server
      BY <1>7 DEF ServerRefuses, worldVars
    <2>2. CASE Serves(c, "hello") /\ Reply(c, <<Msg("error", {}, "unsupported")>>, "ended")
      <3>1. PICK m \in Message : m = Msg("error", {}, "unsupported") /\ m.type = "error"
        BY Errors
      <3> QED
        BY <2>1, <2>2, <3>1, HelloGap
    <2>3. CASE /\ Serves(c, "update") /\ conn[c].session = "joined"
               /\ \/ Reply(c, <<Msg("error", {}, "fatal")>>, "joined")
                  \/ Reply(c, <<Msg("error", {}, "recoverable")>>, "joined")
                  \/ Reply(c, <<Msg("resync", {}, "")>>, "ended")
      <3>1. PICK m \in Message, session \in {"joined", "ended"} :
               m.type \in {"error", "resync"} /\ Reply(c, <<m>>, session)
        <4>1. CASE Reply(c, <<Msg("error", {}, "fatal")>>, "joined")
          BY <4>1, Errors
        <4>2. CASE Reply(c, <<Msg("error", {}, "recoverable")>>, "joined")
          BY <4>2, Errors
        <4>3. CASE Reply(c, <<Msg("resync", {}, "")>>, "ended")
          <5>1. Msg("resync", {}, "").type = "resync"
            BY DEF Msg
          <5> QED
            BY <4>3, <5>1, Replies
        <4> QED
          BY <2>3, <4>1, <4>2, <4>3
      <3>2. conn[c].up # <<>>
        BY <2>3 DEF Serves
      <3> QED
        BY <2>1, <2>3, <3>1, <3>2, AnsweredGap
    <2> QED
      BY <1>7, <2>2, <2>3 DEF ServerRefuses
  <1> QED
    BY <1>1, <1>2, <1>3, <1>4, <1>5, <1>6, <1>7 DEF ServerStep
-----------------------------------------------------------------------------
(* Disturbances, saves and the updates of others.                           *)

LEMMA DisturbanceGap ==
    ASSUME Typed, GapInv, Disturbance, ~(\E c \in Socket : ServerRefuses(c))
    PROVE  GapInv'
  <1>0. /\ agent \in Agent /\ agent.socket \in Socket \cup {None} /\ conn \in Sockets
        /\ \A c \in Socket : conn[c] \in SocketState
        /\ Without(conn, agent.socket) \in Sockets
        /\ \A d \in Socket : Without(conn, agent.socket)[d] =
                                IF d = agent.socket THEN Detached(conn[d]) ELSE conn[d]
    BY TypedState, WithoutSockets
  <1>o. \A d \in Socket : Orderly(conn[d])
    BY DEF GapInv
  <1>w. \A d \in Socket : Orderly(Without(conn, agent.socket)[d])
    <2> SUFFICES ASSUME NEW d \in Socket
                 PROVE  Orderly(Without(conn, agent.socket)[d])
      OBVIOUS
    <2>1. Orderly(conn[d]) /\ Orderly(Detached(conn[d]))
      BY <1>0, <1>o, OrderlyDetached
    <2> QED
      BY <1>0, <2>1
  <1>a. PICK a \in Agent : a = Abandoned(agent) /\ a.socket = None /\ ~a.welcomed
    BY <1>0, AbandonFields
  <1>s. (Grows /\ Settled') \/ replica' # replica \/ history' # history \/ agent' # agent
    BY DEF Grows, GapInv, Settled
  <1>1. CASE StartFails
    <2>1. /\ agent'.socket = agent.socket /\ agent'.stopped = agent.stopped
          /\ agent'.welcomed = agent.welcomed
      BY <1>1, <1>0, FailToStartFields DEF StartFails
    <2> QED
      BY <1>1, <2>1, QuietGap DEF StartFails, worldVars
  <1>2. CASE Stop
    <2>1. agent' = [a EXCEPT !.stopped = TRUE, !.timer = FALSE]
      BY <1>2, <1>a DEF Stop
    <2>2. agent'.stopped /\ ~agent'.welcomed
      BY <2>1, <1>a DEF Agent
    <2> QED
      BY <1>2, <2>2, AbandonsGap DEF Stop
  <1>3. CASE RunFails
    <2>1. /\ outgoing # <<>>
          /\ replica' = replica /\ server' = server /\ history' = history
      BY <1>3 DEF RunFails, worldVars
    <2>2. CASE agent' = agent /\ RunEnds(conn)
      BY <2>1, <2>2, <1>0, RunEndsGap DEF GapInv
    <2>3. CASE /\ agent' = TransportFailed(agent, "outbox unavailable")
               /\ RunEnds(Without(conn, agent.socket))
      <3>1. agent'.socket = None /\ ~agent'.welcomed
        BY <2>3, <1>0, FailedFields
      <3>2. Grows /\ Settled'
        BY <2>1, <3>1 DEF Grows, GapInv, Settled
      <3>3. PICK w \in Sockets : w = Without(conn, agent.socket)
        BY <1>0
      <3>4. Head(outgoing) \in Socket \cup {None} /\ conn' = RunEndedFor(w, Head(outgoing))
        BY <2>1, <2>3, <3>3, RunEndsTypes
      <3>5. ASSUME NEW d \in Socket
            PROVE  Orderly(conn'[d])
        <4>1. PICK k \in SocketState : k = w[d]
          BY DEF Sockets
        <4>2. Orderly(k)
          BY <3>3, <4>1, <1>w
        <4>3. conn'[d] = k \/ conn'[d] = [k EXCEPT !.rx = Idle]
          BY <3>4, <4>1, RunEndedSockets
        <4> QED
          BY <4>2, <4>3, OrderlyOver
      <3> QED
        BY <3>1, <3>2, <3>5, AbandonedGap
    <2> QED
      BY <1>3, <2>2, <2>3 DEF RunFails
  <1>4. CASE GoOffline
    <2>1. CASE agent' = agent /\ conn' = conn
      BY <1>4, <2>1, QuietGap DEF GoOffline
    <2>2. CASE agent' = ScheduleReconnect(Abandoned(agent)) /\ conn' = Without(conn, agent.socket)
      BY <1>4, <2>2, <1>a, RetryFields, AbandonsGap DEF GoOffline
    <2> QED
      BY <1>4, <2>1, <2>2 DEF GoOffline
  <1>5. CASE GoOnline
    <2>1. CASE agent' = agent /\ conn' = conn
      BY <1>5, <2>1, QuietGap DEF GoOnline
    <2>2. CASE Connect(TRUE, [Abandoned(agent) EXCEPT !.timer = FALSE],
                       Without(conn, agent.socket))
      <3>1. PICK b : b = [a EXCEPT !.timer = FALSE]
        OBVIOUS
      <3>2. b \in Agent /\ b.socket = None /\ ~b.welcomed
        BY <3>1, <1>a DEF Agent
      <3>3. replica' = replica /\ server' = server /\ history' = history
        BY <1>5 DEF GoOnline
      <3>4. PICK w \in Sockets : w = Without(conn, agent.socket) /\ \A d \in Socket : Orderly(w[d])
        BY <1>0, <1>w
      <3>5. Connect(TRUE, b, w)
        BY <2>2, <3>1, <3>4, <1>a
      <3> QED
        BY <3>2, <3>3, <3>4, <3>5, ConnectGap
    <2> QED
      BY <1>5, <2>1, <2>2 DEF GoOnline
  <1>6. CASE CredentialChanges
    <2>1. CASE agent' = agent /\ conn' = conn
      BY <1>6, <2>1, QuietGap DEF CredentialChanges
    <2>2. CASE agent' = Resumed(agent) /\ conn' = Without(conn, agent.socket)
      BY <1>6, <2>2, <1>0, ResumeFields, AbandonsGap DEF CredentialChanges
    <2> QED
      BY <1>6, <2>1, <2>2 DEF CredentialChanges
  <1>7. CASE RemoveMember \/ InviteBack
    BY <1>7, QuietGap DEF RemoveMember, InviteBack
  <1>8. CASE DeleteGraph
    <2>1. PICK m \in Message : m = Msg("error", {}, "membership_revoked") /\ m.type = "error"
      BY Errors
    <2>2. m.type \notin Greeting
      BY <2>1 DEF Greeting, Downloading
    <2>3. agent' = agent /\ replica' = replica /\ history' = history /\ server' = server
      BY <1>8 DEF DeleteGraph
    <2>4. ASSUME NEW d \in Socket
          PROVE  Orderly(conn[d])' /\ (IsCurrent(d)' => Shaped(conn[d])' /\ Gapless(conn[d])')
      <3>1. PICK k \in SocketState : k = conn[d]
        BY <1>0
      <3>2. PICK l : l = conn'[d]
        OBVIOUS
      <3>3. Orderly(k) /\ (IsCurrent(d) => Shaped(k) /\ Gapless(k))
        BY <3>1 DEF GapInv
      <3>4. Orderly(l) /\ (IsCurrent(d) => Shaped(l) /\ Gapless(l))
        <4>1. CASE k.session # "joined"
          <5>1. l = k
            BY <1>8, <3>1, <3>2, <4>1 DEF DeleteGraph
          <5> QED
            BY <3>3, <5>1
        <4>2. CASE k.session = "joined"
          <5>1. PICK down : down = IF k.ready = "greeted" THEN Append(k.down, m) ELSE k.down
            OBVIOUS
          <5>2. l = [k EXCEPT !.session = "ended", !.down = down]
            BY <1>8, <2>1, <3>1, <3>2, <4>2, <5>1 DEF DeleteGraph
          <5>3. /\ l.up = k.up /\ l.session = "ended" /\ l.ready = k.ready /\ l.rx = k.rx
                /\ l.down = down
            BY <5>2 DEF SocketState
          <5>4. Range(l.down) \subseteq Range(k.down) \cup {m}
            <6>1. k.down \in Seq(Message)
              BY SocketFields
            <6>2. Range(Append(k.down, m)) = Range(k.down) \cup {m}
              BY <6>1, AppendRange
            <6> QED
              BY <5>1, <5>3, <6>2
          <5>5. Orderly(l)
            BY <2>1, <3>3, <4>2, <5>3, <5>4 DEF Orderly
          <5>6. Shaped(k) /\ Gapless(k) => Shaped(l) /\ Gapless(l)
            BY <2>2, <4>2, <5>1, <5>3, ToldShape
          <5> QED
            BY <3>3, <5>5, <5>6
        <4> QED
          BY <4>1, <4>2
      <3>5. Orderly(l)' /\ (IsCurrent(d)' => Shaped(l)' /\ Gapless(l)')
        BY <1>s, <2>3, <3>4, OrderlyStands, ShapedStands, GaplessStands DEF IsCurrent
      <3> QED
        BY <3>2, <3>5
    <2> QED
      BY <1>s, <2>3, <2>4 DEF GapInv
  <1>9. CASE SilenceTimeout
    BY <1>9, <1>0, FailedFields, AbandonsGap DEF SilenceTimeout, TimedOut
  <1>10. ASSUME NEW c \in Socket, LinkLost(c)
         PROVE  GapInv'
    <2>1. PICK k \in SocketState : k = conn[c]
      BY <1>0
    <2>2. PICK l \in Closing(k) : conn' = [conn EXCEPT ![c] = l]
      BY <1>10, <2>1 DEF LinkLost
    <2>3. conn'[c] = l /\ \A d \in Socket : d # c => conn'[d] = conn[d]
      BY <2>2, <1>0 DEF Sockets
    <2>4. /\ agent' = agent /\ replica' = replica /\ history' = history /\ server' = server
      BY <1>10 DEF LinkLost, worldVars
    <2>5. Orderly(l)
      <3>1. /\ l.ready = "closing" /\ l.up = k.up /\ l.session = k.session /\ l.rx = k.rx
            /\ \E n \in 0..Len(k.down) : l.down = SubSeq(k.down, 1, n)
        BY ClosingFields
      <3>2. Range(l.down) \subseteq Range(k.down)
        <4>1. k.down \in Seq(Message)
          BY SocketFields
        <4> QED
          BY <3>1, <4>1, PrefixRange
      <3>3. Orderly(k)
        BY <2>1, <1>o
      <3> QED
        BY <3>1, <3>2, <3>3, OrderlyLess
    <2>6. IsCurrent(c) => Shaped(l) /\ Gapless(l)
      BY <2>1, ClosingShape DEF GapInv
    <2> QED
      BY <1>s, <2>3, <2>4, <2>5, <2>6, SameTransportGap
  <1>11. ASSUME NEW c \in Socket, SocketCallFails(c)
         PROVE  GapInv'
    <2>1. /\ c = agent.socket
          /\ agent' = TransportFailed(agent, "sync failed")
          /\ conn' = [Without(conn, c) EXCEPT ![c].rx = Idle]
          /\ replica' = replica /\ history' = history /\ server' = server
      BY <1>11 DEF SocketCallFails, IsCurrent, worldVars
    <2>2. agent'.socket = None /\ ~agent'.welcomed
      BY <2>1, <1>0, FailedFields
    <2>3. Grows /\ Settled'
      BY <2>1, <2>2 DEF Grows, GapInv, Settled
    <2>4. PICK w \in Sockets : w = Without(conn, c) /\ \A d \in Socket : Orderly(w[d])
      BY <2>1, <1>0, <1>w
    <2>5. ASSUME NEW d \in Socket
          PROVE  Orderly(conn'[d])
      <3>1. PICK k \in SocketState : k = w[d]
        BY DEF Sockets
      <3>2. conn'[d] = k \/ conn'[d] = [k EXCEPT !.rx = Idle]
        BY <2>1, <2>4, <3>1 DEF Sockets
      <3> QED
        BY <2>4, <3>1, <3>2, OrderlyOver
    <2> QED
      BY <2>2, <2>3, <2>5, AbandonedGap
  <1>12. ASSUME NEW c \in Socket, ImportDropped(c)
         PROVE  GapInv'
    BY <1>12, <1>s, OverGap DEF ImportDropped, worldVars
  <1> QED
    BY <1>1, <1>2, <1>3, <1>4, <1>5, <1>6, <1>7, <1>8, <1>9, <1>10, <1>11, <1>12
    DEF Disturbance

LEMMA SaveGap ==
    ASSUME Typed, GapInv, NEW u \in Local, Save(u)
    PROVE  GapInv'
  <1>1. /\ replica.base /\ history' = Append(history, u)
        /\ conn' = conn /\ agent' = agent /\ server' = server
        /\ replica'.doc = replica.doc \cup {u} /\ replica'.base = replica.base
    BY TypedState DEF Save, worldVars
  <1>2. Range(history') = Range(history) \cup {u}
    BY <1>1, TypedState, AppendRange
  <1>3. Grows /\ Settled'
    BY <1>1, <1>2 DEF Grows, GapInv, Settled
  <1>4. PICK c : c \notin Socket
    BY SocketAssumption
  <1>5. Others(c)
    BY <1>1 DEF Others, IsCurrent
  <1> QED
    BY <1>1, <1>3, <1>4, <1>5, OneSocketGap

LEMMA ForeignGap ==
    ASSUME Typed, GapInv, NEW u \in Foreign, ForeignUpdate(u)
    PROVE  GapInv'
  <1>1. /\ agent' = agent /\ replica' = replica /\ history' = history
        /\ server' = server \cup {u}
    BY DEF ForeignUpdate
  <1>2. PICK m \in Message : /\ m = Msg("update", {u}, "") /\ m.type = "update" /\ m.ops = {u}
    <2>1. {u} \in SUBSET Update
      BY DEF Update
    <2> QED
      BY <2>1, Replies DEF Msg
  <1>3. m.type \notin Greeting
    BY <1>2 DEF Greeting, Downloading
  <1>4. Grows /\ Settled'
    BY <1>1 DEF Grows, GapInv, Settled
  <1>5. ASSUME NEW d \in Socket
        PROVE  Orderly(conn[d])' /\ (IsCurrent(d)' => Shaped(conn[d])' /\ Gapless(conn[d])')
    <2>1. PICK k \in SocketState : k = conn[d]
      BY TypedState
    <2>2. PICK l : l = conn'[d]
      OBVIOUS
    <2>3. Orderly(k) /\ (IsCurrent(d) => Shaped(k) /\ Gapless(k))
      BY <2>1 DEF GapInv
    <2>4. CASE k.session = "joined" /\ k.ready = "greeted"
      <3>1. l = [k EXCEPT !.down = Append(k.down, m)]
        BY <1>2, <2>1, <2>2, <2>4 DEF ForeignUpdate
      <3>2. /\ l.up = k.up /\ l.session = k.session /\ l.ready = k.ready /\ l.rx = k.rx
            /\ l.down = Append(k.down, m)
        BY <3>1 DEF SocketState
      <3>3. Range(l.down) = Range(k.down) \cup {m}
        <4>1. k.down \in Seq(Message)
          BY SocketFields
        <4> QED
          BY <3>2, <4>1, AppendRange
      <3>4. Orderly(l)
        BY <1>2, <2>3, <3>2, <3>3 DEF Orderly
      <3>5. ASSUME IsCurrent(d)
            PROVE  Shaped(l)' /\ Gapless(l)'
        <4>1. Shaped(l) /\ Gapless(l) /\ m.ops \subseteq Coming(l)
          BY <1>2, <1>3, <2>3, <2>4, <3>2, <3>5, ToldShape
        <4>2. Shaped(l)'
          BY <1>1, <1>4, <4>1, ShapedStands
        <4>3. Gapless(l)'
          BY <1>1, <1>2, <4>1 DEF Gapless, Coming, Awaits
        <4> QED
          BY <4>2, <4>3
      <3>6. Orderly(l)'
        BY <1>4, <3>4, OrderlyStands
      <3> QED
        BY <1>1, <2>2, <3>5, <3>6 DEF IsCurrent
    <2>5. CASE ~(k.session = "joined" /\ k.ready = "greeted")
      <3>1. l = k
        BY <2>1, <2>2, <2>5 DEF ForeignUpdate
      <3>2. Orderly(k)'
        BY <1>4, <2>3, OrderlyStands
      <3>3. IsCurrent(d) => Shaped(k)'
        BY <1>1, <1>4, <2>3, ShapedStands
      <3>4. Gapless(k)'
        BY <2>5 DEF Gapless
      <3> QED
        BY <1>1, <2>2, <3>1, <3>2, <3>3, <3>4 DEF IsCurrent
    <2> QED
      BY <2>4, <2>5
  <1> QED
    BY <1>4, <1>5 DEF GapInv

LEMMA GapInitially == Init => GapInv
  <1> SUFFICES ASSUME Init PROVE GapInv
    OBVIOUS
  <1>1. Settled
    BY ShortRange DEF Init, Settled
  <1>2. Orderly(Fresh)
    <2>1. Range(<<>>) = {} /\ Len(<<>>) <= 1
      BY ShortRange
    <2> QED
      BY <2>1 DEF Orderly, Fresh, Idle
  <1>3. \A c \in Socket : conn[c] = Fresh /\ ~IsCurrent(c)
    BY SocketAssumption DEF Init, IsCurrent
  <1> QED
    BY <1>1, <1>2, <1>3 DEF GapInv

LEMMA GapPreserved == Typed /\ DeliveryInv /\ GapInv /\ [Next]_vars => GapInv'
  <1> SUFFICES ASSUME Typed, DeliveryInv, GapInv, [Next]_vars PROVE GapInv'
    OBVIOUS
  <1>1. CASE UNCHANGED vars
    BY <1>1, QuietGap DEF vars, worldVars
  <1>2. CASE AgentStep
    BY <1>2, AgentStepGap
  <1>3. ASSUME NEW c \in Socket, SocketStep(c) \/ ServerStep(c) \/ ServerRefuses(c)
        PROVE  GapInv'
    BY <1>3, SocketStepGap, ServerStepGap
  <1>4. CASE Disturbance /\ ~(\E c \in Socket : ServerRefuses(c))
    BY <1>4, DisturbanceGap
  <1>5. ASSUME NEW u \in Local, Save(u)
        PROVE  GapInv'
    BY <1>5, SaveGap
  <1>6. ASSUME NEW u \in Foreign, ForeignUpdate(u)
        PROVE  GapInv'
    BY <1>6, ForeignGap
  <1> QED
    BY <1>1, <1>2, <1>3, <1>4, <1>5, <1>6 DEF Next

\* A live transport leaves no gap: a frame of an abandoned socket, a Worker call that
\* lands late, a checkpoint downloaded while others write and a refused or repeated
\* Welcome all leave the replica with everything the server has, once what is on the wire
\* of the current socket is applied (SyncAgent.ts:419-535).
THEOREM GapCorrect == Spec => []NoGap
  <1>1. Init => Typed /\ DeliveryInv /\ GapInv
    BY TypesInitially, DeliveryInitially, GapInitially
  <1>2. Typed /\ DeliveryInv /\ GapInv /\ [Next]_vars => Typed' /\ DeliveryInv' /\ GapInv'
    BY TypesPreserved, DeliveryPreserved, GapPreserved
  <1>3. Typed /\ GapInv => NoGap
    <2> SUFFICES ASSUME Typed, GapInv, NEW c \in Socket,
                        IsCurrent(c), agent.welcomed, conn[c].ready = "greeted",
                        conn[c].session = "joined", conn[c].down = <<>>,
                        conn[c].rx.step \in {"idle", "outbox"}
                 PROVE  server \subseteq replica.doc
      BY DEF NoGap
    <2>1. Gapless(conn[c])
      BY DEF GapInv
    <2>2. ~Awaits(conn[c]) /\ Coming(conn[c]) = {}
      BY ShortRange DEF Awaits, Coming, Downloading
    <2> QED
      BY <2>1, <2>2 DEF Gapless
  <1> QED
    BY <1>1, <1>2, <1>3, PTL DEF Spec
=============================================================================
