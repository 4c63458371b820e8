------------------------------ MODULE SyncAgent -----------------------------
(***************************************************************************)
(* The reconnecting transport of one server graph (SyncAgent.ts) between   *)
(* the replica's Worker and the server.  The agent keeps one current       *)
(* socket; sockets it has abandoned may still have frames on the wire and  *)
(* Worker calls under way.  Incoming frames of a socket are handled one at *)
(* a time (the incoming promise chain), and so are the outbox runs that    *)
(* wakes and acknowledgements ask for (the outgoing chain); the two chains *)
(* run beside each other.                                                  *)
(*                                                                         *)
(* A document is a set of updates and a frame's message id is the set of   *)
(* updates it carries.  The server is as much of ServerRoom as a client    *)
(* can tell: what it has accepted, who is a member, which sessions joined. *)
(***************************************************************************)
EXTENDS Naturals, Sequences, SequencesExt, FiniteSets

CONSTANTS
    Local,       \* updates this replica's commands produce
    Foreign,     \* updates other replicas produce
    Socket,      \* sockets that can exist at once
    None,
    MaxFaults    \* bound, at least 1: failures, interruptions and changes of access

Update == Local \cup Foreign

ASSUME SocketAssumption == None \notin Socket
ASSUME UpdateAssumption == Local \cap Foreign = {}
ASSUME FaultAssumption == MaxFaults \in Nat \ {0}

VARIABLES
    agent,       \* the SyncAgent's own fields
    calls,       \* its pending start, resume and recheck calls
    outgoing,    \* the outgoing chain: who asked for each run, the first is running
    run,         \* how far the running one got
    conn,        \* each socket, with what is on its wire and its server session
    replica,     \* the Worker: document, server base, outbox, frame in flight
    history,     \* updates in the order they were saved
    server,      \* updates the server has accepted
    access,      \* this account's access to the graph
    credential,  \* the stored session token
    online,      \* navigator.onLine
    faults

vars == <<agent, calls, outgoing, run, conn, replica, history, server, access, credential,
          online, faults>>
worldVars == <<server, access, credential, online>>
-----------------------------------------------------------------------------
(* Types.                                                                  *)

Paused == {"auth", "revoked", "incompatible", "history"}
Agent == [stopped : BOOLEAN, socket : Socket \cup {None}, welcomed : BOOLEAN,
          inFlight : SUBSET Local, sync : {"pending", "synced", "error"} \cup Paused,
          live : {"connecting", "live", "offline", "paused"}, timer : BOOLEAN]
Call == {"start", "validate", "validate stale", "resume", "recheck"}

Idle == [step |-> "idle", ops |-> {}, welcome |-> FALSE]
Downloading == {"merge_download", "replace_download"}
Receiving == [step : {"idle", "merge_download", "replace_download", "import", "replace",
                      "ack", "outbox"},
              ops : SUBSET Update, welcome : BOOLEAN]
ErrorCode == {"access_denied", "membership_revoked", "unsupported", "recoverable", "fatal"}
Message ==
    [type : {"hello", "update", "welcome", "replace", "merge_download", "replace_download",
             "ack", "resync"}, ops : SUBSET Update, code : {"", "base"}]
    \cup [type : {"error"}, ops : {{}}, code : ErrorCode]
Msg(type, ops, code) == [type |-> type, ops |-> ops, code |-> code]
SocketState == [ready : {"connecting", "open", "greeted", "closing", "closed"},
                up : Seq(Message), down : Seq(Message),
                session : {"none", "joined", "ended"}, rx : Receiving]
Fresh == [ready |-> "closed", up |-> <<>>, down |-> <<>>, session |-> "none", rx |-> Idle]
NoRun == [step |-> "idle", pending |-> FALSE, socket |-> None, frame |-> {}]

TypeOK ==
    /\ agent \in Agent
    /\ calls \in SUBSET Call
    /\ outgoing \in Seq(Socket \cup {None})
    /\ run \in [step : {"idle", "counted", "peeking", "peeked"}, pending : BOOLEAN,
                socket : Socket \cup {None}, frame : SUBSET Local]
    /\ conn \in [Socket -> SocketState]
    /\ replica \in [doc : SUBSET Update, base : BOOLEAN, outbox : SUBSET Local,
                    frame : SUBSET Local]
    /\ history \in Seq(Local)
    /\ server \subseteq Update
    /\ access \in {"member", "removed", "deleted"}
    /\ credential \in {"none", "good", "rejected"}
    /\ online \in BOOLEAN
    /\ faults \in 0..MaxFaults
-----------------------------------------------------------------------------
(* The agent's own transitions: each takes the agent's fields and returns  *)
(* what the method leaves in them.                                         *)

IsPaused(a) == a.sync \in Paused
IsCurrent(c) == ~agent.stopped /\ agent.socket = c

Pause(a, why) == [a EXCEPT !.sync = why, !.live = "paused"]

\* abandonSocket.
AbandonedInFlight(a) == [a EXCEPT !.socket = None, !.welcomed = FALSE]
Abandoned(a) == [a EXCEPT !.socket = None, !.welcomed = FALSE, !.inFlight = {}]

ScheduleReconnect(a) ==
    IF a.stopped \/ a.live = "paused" THEN a
    ELSE [a EXCEPT !.live = "offline", !.timer = TRUE]

\* transportFailed, once the socket is known to be current.
TransportFailed(a, why) ==
    IF why = "resync_required" THEN Pause(Abandoned(a), "history")
    ELSE ScheduleReconnect([Abandoned(a) EXCEPT !.sync = "error"])

\* refreshPending's patch, from a count the Worker reported.
Counted(a, pending) ==
    IF a.stopped \/ IsPaused(a) THEN a
    ELSE [a EXCEPT !.sync = IF pending THEN "pending" ELSE "synced"]

\* failToStart.
FailToStart(a) ==
    IF a.stopped THEN a
    ELSE ScheduleReconnect([a EXCEPT !.sync = "error", !.live = "offline"])

\* resume, up to its first await.
Resumed(a) == [Abandoned(a) EXCEPT !.live = "connecting", !.sync = "pending"]
-----------------------------------------------------------------------------
(* Sockets.                                                                *)

\* What is left of a socket nobody listens to: a Worker call already made.
Detached(k) ==
    [k EXCEPT !.ready = "closed", !.down = <<>>,
              !.rx = IF @.step \in {"import", "replace", "ack"} THEN @ ELSE Idle]
Without(w, c) == IF c = None THEN w ELSE [w EXCEPT ![c] = Detached(@)]

\* A close event: frames already dispatched stay, the others are lost.
Closing(k) == {[k EXCEPT !.ready = "closing", !.down = SubSeq(@, 1, n)] : n \in 0..Len(k.down)}

Free(c) ==
    /\ c # agent.socket
    /\ conn[c] = Fresh
    /\ c \notin Range(outgoing) \cup {run.socket}

\* connect, for an agent a and sockets w that the calling method left and a
\* navigator.onLine of up.
Connect(up, a, w) ==
    IF a.stopped \/ a.socket # None THEN agent' = a /\ conn' = w
    ELSE IF ~up THEN agent' = ScheduleReconnect(a) /\ conn' = w
    ELSE IF credential = "none" THEN agent' = Pause(a, "auth") /\ conn' = w
    ELSE LET c == CHOOSE c \in Socket : Free(c) IN
            /\ \E d \in Socket : Free(d)
            /\ agent' = [a EXCEPT !.socket = c, !.live = "connecting"]
            /\ conn' = [w EXCEPT ![c] = [Fresh EXCEPT !.ready = "connecting"]]

Fault == faults < MaxFaults /\ faults' = faults + 1

Init ==
    /\ agent = [stopped |-> FALSE, socket |-> None, welcomed |-> FALSE, inFlight |-> {},
                sync |-> "pending", live |-> "connecting", timer |-> FALSE]
    /\ calls = {"start"}
    /\ outgoing = <<>>
    /\ run = NoRun
    /\ conn = [c \in Socket |-> Fresh]
    /\ replica = [doc |-> {}, base |-> FALSE, outbox |-> {}, frame |-> {}]
    /\ history = <<>>
    /\ server = {}
    /\ access = "member"
    /\ credential \in {"none", "good", "rejected"}
    /\ online \in BOOLEAN
    /\ faults = IF online THEN 0 ELSE 1
-----------------------------------------------------------------------------
(* start, resume and stop.                                                 *)

\* start: count, then confirm the credential; without one there is nothing to ask.
StartCounted ==
    /\ "start" \in calls
    /\ LET a == Counted(agent, replica.outbox # {}) IN
       CASE credential = "none" ->
              /\ agent' = IF a.stopped THEN a ELSE Pause(a, "auth")
              /\ calls' = calls \ {"start"}
         [] credential = "good" ->
              agent' = a /\ calls' = (calls \ {"start"}) \cup {"validate"}
         [] credential = "rejected" ->
              agent' = a /\ calls' = (calls \ {"start"}) \cup {"validate stale"}
    /\ UNCHANGED <<outgoing, run, conn, replica, history, worldVars, faults>>

\* validateAuthSession confirmed the credential, or could not ask.
StartValidated(call) ==
    /\ call \in calls
    /\ calls' = calls \ {call}
    /\ Connect(online, agent, conn)
    /\ UNCHANGED <<outgoing, run, replica, history, worldVars, faults>>

\* validateAuthSession: the token it read was rejected.  It clears the stored
\* session, whichever that is by now, and every listener resumes.
StartRejected ==
    /\ "validate stale" \in calls
    /\ calls' = (calls \ {"validate stale"}) \cup (IF agent.stopped THEN {} ELSE {"resume"})
    /\ credential' = "none"
    /\ agent' = IF agent.stopped THEN agent ELSE Pause(Resumed(agent), "auth")
    /\ conn' = Without(conn, agent.socket)
    /\ UNCHANGED <<outgoing, run, replica, history, server, access, online, faults>>

\* resume: refreshPending, then connect.
ResumeCounted ==
    /\ "resume" \in calls
    /\ calls' = calls \ {"resume"}
    /\ Connect(online, Counted(agent, replica.outbox # {}), conn)
    /\ UNCHANGED <<outgoing, run, replica, history, worldVars, faults>>

\* The Worker or its storage fails during either.
StartFails ==
    /\ Fault
    /\ \E call \in calls \cap {"start", "resume"} : calls' = calls \ {call}
    /\ agent' = FailToStart(agent)
    /\ UNCHANGED <<outgoing, run, conn, replica, history, worldVars>>

\* stop.
Stop ==
    /\ Fault
    /\ ~agent.stopped
    /\ agent' = [Abandoned(agent) EXCEPT !.stopped = TRUE, !.timer = FALSE]
    /\ conn' = Without(conn, agent.socket)
    /\ UNCHANGED <<calls, outgoing, run, replica, history, worldVars>>
-----------------------------------------------------------------------------
(* The outgoing chain.                                                     *)

\* A save: the Worker records the update and the session wakes the agent.
SaveCoalesced(u) ==
    /\ ~agent.stopped
    /\ replica.base
    /\ u \notin Range(history)
    /\ history' = Append(history, u)
    /\ replica' = [replica EXCEPT !.doc = @ \cup {u}, !.outbox = @ \cup {u}]
    /\ outgoing' = IF outgoing = <<>> THEN <<None>> ELSE outgoing
    /\ UNCHANGED <<agent, calls, run, conn, worldVars, faults>>
Save(u) ==
    /\ ~agent.stopped
    /\ replica.base
    /\ u \notin Range(history)
    /\ history' = Append(history, u)
    /\ replica' = [replica EXCEPT !.doc = @ \cup {u}, !.outbox = @ \cup {u}]
    /\ outgoing' = Append(outgoing, None)
    /\ UNCHANGED <<agent, calls, run, conn, worldVars, faults>>

\* The receive handler that asked for a run goes on once it is over.
RunEndedFor(w, c) ==
    IF c = None \/ w[c].rx.step # "outbox" THEN w ELSE [w EXCEPT ![c].rx = Idle]
RunEnds(w) ==
    /\ outgoing' = Tail(outgoing)
    /\ run' = NoRun
    /\ conn' = RunEndedFor(w, Head(outgoing))

\* updateOutbox: stopped, or the Worker counts what is pending.
RunStarts ==
    /\ outgoing # <<>>
    /\ run.step = "idle"
    /\ IF agent.stopped THEN RunEnds(conn)
       ELSE /\ run' = [NoRun EXCEPT !.step = "counted", !.pending = replica.outbox # {}]
            /\ UNCHANGED <<outgoing, conn>>
    /\ UNCHANGED <<agent, calls, replica, history, worldVars, faults>>

\* Only the current, welcomed, open transport without a frame in flight flushes.
MayFlush(a, c) ==
    /\ c # None
    /\ c = a.socket
    /\ conn[c].ready = "greeted"
    /\ a.welcomed
    /\ a.inFlight = {}

\* refreshPending's patch, then flush up to its read of the outbox.
RunCounts ==
    LET a == Counted(agent, run.pending) IN
    /\ run.step = "counted"
    /\ agent' = a
    /\ IF MayFlush(a, a.socket)
       THEN /\ run' = [NoRun EXCEPT !.step = "peeking", !.socket = a.socket]
            /\ UNCHANGED <<outgoing, conn>>
       ELSE RunEnds(conn)
    /\ UNCHANGED <<calls, replica, history, worldVars, faults>>

\* syncNextFrame: the oldest pending updates, as many as fit a frame.
Oldest(n) == {history[i] : i \in 1..n}
RunPeeks ==
    /\ run.step = "peeking"
    /\ \E n \in 0..Len(history) :
          LET f == replica.outbox \cap Oldest(n) IN
          /\ f = {} <=> replica.outbox = {}
          /\ run' = [run EXCEPT !.step = "peeked", !.frame = f]
          /\ replica' = IF f = {} THEN replica ELSE [replica EXCEPT !.frame = f]
    /\ UNCHANGED <<agent, calls, outgoing, conn, history, worldVars, faults>>

\* flush after its read: the transport may have been replaced meanwhile.
RunSends ==
    LET c == run.socket IN
    /\ run.step = "peeked"
    /\ IF agent.stopped \/ ~MayFlush(agent, c) THEN UNCHANGED agent /\ RunEnds(conn)
       ELSE IF run.frame = {} THEN agent' = [agent EXCEPT !.sync = "synced"] /\ RunEnds(conn)
       ELSE /\ agent' = [agent EXCEPT !.inFlight = run.frame]
            /\ RunEnds([conn EXCEPT ![c].up = Append(@, Msg("update", run.frame, ""))])
    /\ UNCHANGED <<calls, replica, history, worldVars, faults>>

\* A Worker read fails: the handler that asked reports it, or wake does.
RunFails ==
    LET c == Head(outgoing) IN
    /\ Fault
    /\ outgoing # <<>>
    /\ run.step \in {"idle", "peeking"}
    /\ IF \/ agent.stopped
          \/ c = None /\ IsPaused(agent)
          \/ c # None /\ ~IsCurrent(c)
       THEN UNCHANGED agent /\ RunEnds(conn)
       ELSE /\ agent' = TransportFailed(agent, "outbox unavailable")
            /\ RunEnds(Without(conn, agent.socket))
    /\ UNCHANGED <<calls, replica, history, worldVars>>
-----------------------------------------------------------------------------
(* A socket's life.                                                        *)

\* The server accepts the upgrade only with a token it knows.
SocketOpens(c) ==
    /\ conn[c].ready = "connecting"
    /\ credential = "good"
    /\ conn' = [conn EXCEPT ![c].ready = "open"]
    /\ UNCHANGED <<agent, calls, outgoing, run, replica, history, worldVars, faults>>

SocketRefused(c) ==
    /\ conn[c].ready = "connecting"
    /\ credential # "good"
    /\ conn' = [conn EXCEPT ![c].ready = "closing"]
    /\ UNCHANGED <<agent, calls, outgoing, run, replica, history, worldVars, faults>>

\* hello: the replica's version and whether it has a server base.
HelloSent(c) ==
    /\ IsCurrent(c)
    /\ conn[c].ready = "open"
    /\ conn' = [conn EXCEPT ![c].ready = "greeted",
                            ![c].up = Append(@, Msg("hello", replica.doc,
                                               IF replica.base THEN "base" ELSE ""))]
    /\ UNCHANGED <<agent, calls, outgoing, run, replica, history, worldVars, faults>>

\* A Worker call of the hello or of a received frame fails.
SocketCallFails(c) ==
    /\ Fault
    /\ IsCurrent(c)
    /\ conn[c].ready = "open" \/ conn[c].rx.step \in Downloading \cup {"import", "replace", "ack"}
    /\ agent' = TransportFailed(agent, "sync failed")
    /\ conn' = [Without(conn, c) EXCEPT ![c].rx = Idle]
    /\ UNCHANGED <<calls, outgoing, run, replica, history, worldVars>>

\* The network drops the link, or the server has closed it.
LinkLost(c) ==
    /\ Fault
    /\ conn[c].ready \in {"open", "greeted"}
    /\ \E k \in Closing(conn[c]) : conn' = [conn EXCEPT ![c] = k]
    /\ UNCHANGED <<agent, calls, outgoing, run, replica, history, worldVars>>

ServerCloses(c) ==
    /\ conn[c].ready \in {"open", "greeted"}
    /\ conn[c].session = "ended"
    /\ conn' = [conn EXCEPT ![c].ready = "closing"]
    /\ UNCHANGED <<agent, calls, outgoing, run, replica, history, worldVars, faults>>

\* onclose: frames already received are handled first, so that a terminal error
\* can pause the retries.
CloseDrained(c) ==
    /\ IsCurrent(c)
    /\ conn[c].ready = "closing"
    /\ conn[c].down = <<>>
    /\ conn[c].rx = Idle
    /\ agent' = ScheduleReconnect(Abandoned(agent))
    /\ conn' = Without(conn, c)
    /\ UNCHANGED <<calls, outgoing, run, replica, history, worldVars, faults>>

\* onclose aborts a checkpoint download.
DownloadAborted(c) ==
    /\ IsCurrent(c)
    /\ conn[c].ready = "closing"
    /\ conn[c].rx.step \in Downloading
    /\ agent' = TransportFailed(agent, "aborted")
    /\ conn' = Without(conn, c)
    /\ UNCHANGED <<calls, outgoing, run, replica, history, worldVars, faults>>
-----------------------------------------------------------------------------
(* receive: one frame of the current socket at a time.                     *)

Receive(c, type) ==
    /\ IsCurrent(c)
    /\ conn[c].rx = Idle
    /\ conn[c].down # <<>>
    /\ Head(conn[c].down).type = type
Received(c) == Head(conn[c].down)
Handled(c) == [conn EXCEPT ![c].down = Tail(@)]
Begin(c, step, welcome) ==
    /\ conn' = [Handled(c) EXCEPT ![c].rx = [step |-> step, ops |-> Received(c).ops,
                                             welcome |-> welcome]]
    /\ UNCHANGED <<agent, calls, outgoing, run, replica, history, worldVars, faults>>

\* A Welcome, after its payload: the transport is live and the outbox flows.
WelcomedBy(c, w, a) ==
    /\ agent' = [a EXCEPT !.welcomed = TRUE, !.live = "live"]
    /\ outgoing' = Append(outgoing, c)
    /\ conn' = [w EXCEPT ![c].rx = [Idle EXCEPT !.step = "outbox"]]

\* applyWelcomePayload: a delta, possibly empty, an inline replacement, or a
\* checkpoint to download first.
ReceiveWelcome(c) ==
    /\ Receive(c, "welcome")
    /\ Received(c).ops # {}
    /\ Begin(c, "import", TRUE)
ReceiveEmptyWelcome(c) ==
    /\ Receive(c, "welcome")
    /\ Received(c).ops = {}
    /\ WelcomedBy(c, Handled(c), agent)
    /\ UNCHANGED <<calls, run, replica, history, worldVars, faults>>
ReceiveReplace(c) == Receive(c, "replace") /\ Begin(c, "replace", TRUE)
ReceiveDownload(c) == \E d \in Downloading : Receive(c, d) /\ Begin(c, d, TRUE)

\* The checkpoint is the server's document of now; a base decides how it lands.
Downloaded(c) ==
    /\ conn[c].rx.step \in Downloading
    /\ IsCurrent(c)
    /\ credential = "good"
    /\ conn' = [conn EXCEPT ![c].rx.ops = server,
                            ![c].rx.step = IF @ = "replace_download" THEN "replace"
                                           ELSE "import"]
    /\ UNCHANGED <<agent, calls, outgoing, run, replica, history, worldVars, faults>>

\* A download without a stored session, or with one the server rejects.
DownloadRefused(c) ==
    /\ conn[c].rx.step \in Downloading
    /\ IsCurrent(c)
    /\ credential # "good"
    /\ agent' = TransportFailed(agent, "checkpoint download requires authentication")
    /\ conn' = Without(conn, c)
    /\ UNCHANGED <<calls, outgoing, run, replica, history, worldVars, faults>>

ReceiveUpdateUnlessBusy(c) ==
    /\ Receive(c, "update")
    /\ IF agent.inFlight = {} THEN Begin(c, "import", FALSE)
       ELSE /\ conn' = Handled(c)
            /\ UNCHANGED <<agent, calls, outgoing, run, replica, history, worldVars, faults>>
ReceiveUpdate(c) == Receive(c, "update") /\ Begin(c, "import", FALSE)

\* The lane drops an import whose transport is gone before it starts.
ImportDropped(c) ==
    /\ conn[c].rx.step \in {"import", "replace"}
    /\ ~IsCurrent(c)
    /\ conn' = [conn EXCEPT ![c].rx = Idle]
    /\ UNCHANGED <<agent, calls, outgoing, run, replica, history, worldVars, faults>>

\* importRemote lands, also for a transport replaced after it started.
ImportLands(c) ==
    /\ conn[c].rx.step = "import"
    /\ replica' = [replica EXCEPT !.doc = @ \cup conn[c].rx.ops]
    /\ IF IsCurrent(c) /\ conn[c].rx.welcome THEN WelcomedBy(c, conn, agent)
       ELSE /\ conn' = [conn EXCEPT ![c].rx = Idle]
            /\ UNCHANGED <<agent, outgoing>>
    /\ UNCHANGED <<calls, run, history, worldVars, faults>>

\* replaceRemote: only a replica with no server base and nothing to send adopts
\* the server's document; otherwise the agent pauses.
ReplaceLands(c) ==
    /\ conn[c].rx.step = "replace"
    /\ IF ~replica.base /\ replica.outbox = {}
       THEN /\ replica' = [replica EXCEPT !.doc = conn[c].rx.ops, !.base = TRUE]
            /\ IF IsCurrent(c) THEN WelcomedBy(c, conn, agent)
               ELSE /\ conn' = [conn EXCEPT ![c].rx = Idle]
                    /\ UNCHANGED <<agent, outgoing>>
       ELSE /\ agent' = IF IsCurrent(c) THEN TransportFailed(agent, "resync_required")
                        ELSE agent
            /\ conn' = [(IF IsCurrent(c) THEN Without(conn, c) ELSE conn)
                           EXCEPT ![c].rx = Idle]
            /\ UNCHANGED <<replica, outgoing>>
    /\ UNCHANGED <<calls, run, history, worldVars, faults>>

\* An acknowledgement counts only for the frame in flight.
ReceiveAck(c) ==
    /\ Receive(c, "ack")
    /\ IF Received(c).ops = agent.inFlight THEN Begin(c, "ack", FALSE)
       ELSE /\ conn' = Handled(c)
            /\ UNCHANGED <<agent, calls, outgoing, run, replica, history, worldVars, faults>>

\* syncAck: the records the Worker's frame covers, or the one with that id.
CoveredAll(m) == Range(history)
Covered(m) == IF m = replica.frame \/ Cardinality(m) = 1 THEN m ELSE {}
AckLands(c) ==
    LET m == conn[c].rx.ops
        covered == Covered(m)
    IN  /\ conn[c].rx.step = "ack"
        /\ replica' = [replica EXCEPT !.outbox = @ \ covered,
                                      !.frame = IF @ = m THEN {} ELSE @]
        /\ IF IsCurrent(c)
           THEN /\ agent' = [agent EXCEPT !.inFlight = IF @ = m THEN {} ELSE @]
                /\ outgoing' = Append(outgoing, c)
                /\ conn' = [conn EXCEPT ![c].rx = [Idle EXCEPT !.step = "outbox"]]
           ELSE /\ conn' = [conn EXCEPT ![c].rx = Idle]
                /\ UNCHANGED <<agent, outgoing>>
        /\ UNCHANGED <<calls, run, history, worldVars, faults>>

ReceiveResync(c) ==
    /\ Receive(c, "resync")
    /\ agent' = ScheduleReconnect(Abandoned(agent))
    /\ conn' = Without(conn, c)
    /\ UNCHANGED <<calls, outgoing, run, replica, history, worldVars, faults>>

\* An Error: pause, retry, or report it and keep the transport.
PauseReason(code) ==
    CASE code = "access_denied" -> "auth"
      [] code = "membership_revoked" -> "revoked"
      [] code = "unsupported" -> "incompatible"
ReceiveError(c) ==
    LET code == Received(c).code IN
    /\ Receive(c, "error")
    /\ CASE code = "recoverable" ->
              /\ agent' = ScheduleReconnect(Abandoned(agent))
              /\ conn' = Without(conn, c)
         [] code = "fatal" ->
              /\ agent' = [agent EXCEPT !.sync = "error"]
              /\ conn' = Handled(c)
         [] OTHER ->
              /\ agent' = Pause(agent, PauseReason(code))
              /\ \E k \in Closing(Handled(c)[c]) : conn' = [conn EXCEPT ![c] = k]
    /\ UNCHANGED <<calls, outgoing, run, replica, history, worldVars, faults>>
-----------------------------------------------------------------------------
(* Timers and browser events.                                              *)

RetryFires ==
    LET a == [agent EXCEPT !.timer = FALSE] IN
    /\ agent.timer
    /\ Connect(online, a, conn)
    /\ UNCHANGED <<calls, outgoing, run, replica, history, worldVars, faults>>

\* maintainConnectivity's watchdog: the frame in flight was answered by an error
\* that keeps the transport, or nothing at all arrives in time.
Unanswerable ==
    LET c == agent.socket IN
    /\ agent.inFlight # {}
    /\ c # None
    /\ conn[c].up = <<>>
    /\ conn[c].down = <<>>
    /\ conn[c].rx = Idle
TimedOut ==
    /\ ~agent.stopped
    /\ agent.live # "paused"
    /\ agent.socket # None
    /\ agent' = TransportFailed(agent, "sync response timeout")
    /\ conn' = Without(conn, agent.socket)
    /\ UNCHANGED <<calls, outgoing, run, replica, history, worldVars>>
AnswerTimeout == Unanswerable /\ TimedOut /\ UNCHANGED faults
SilenceTimeout == Fault /\ TimedOut

\* onOffline and onOnline.
GoOffline ==
    /\ Fault
    /\ online
    /\ online' = FALSE
    /\ IF agent.stopped \/ agent.live = "paused" THEN UNCHANGED <<agent, conn>>
       ELSE /\ agent' = ScheduleReconnect(Abandoned(agent))
            /\ conn' = Without(conn, agent.socket)
    /\ UNCHANGED <<calls, outgoing, run, replica, history, server, access, credential>>

\* maintainConnectivity while there is no network.  A tick that finds neither a
\* socket nor a timer connects; no reachable state is left that way.
TickOffline ==
    /\ ~online
    /\ ~agent.stopped
    /\ agent.live # "paused"
    /\ agent.socket # None \/ agent.live # "offline"
    /\ agent' = ScheduleReconnect(Abandoned(agent))
    /\ conn' = Without(conn, agent.socket)
    /\ UNCHANGED <<calls, outgoing, run, replica, history, worldVars, faults>>

GoOnline ==
    /\ ~online
    /\ online' = TRUE
    /\ IF agent.stopped \/ agent.live = "paused" THEN UNCHANGED <<agent, conn>>
       ELSE Connect(TRUE, [Abandoned(agent) EXCEPT !.timer = FALSE],
                    Without(conn, agent.socket))
    /\ UNCHANGED <<calls, outgoing, run, replica, history, server, access, credential, faults>>

\* Signing in, here or in another tab, signing out, or the server revoking the
\* token; only the first two dispatch auth-changed, to which the agent resumes.
CredentialChanges ==
    /\ Fault
    /\ \E next \in {"none", "good", "rejected"} \ {credential} :
          /\ credential' = next
          /\ IF next = "rejected" \/ agent.stopped
             THEN credential = "good" /\ UNCHANGED <<agent, calls, conn>>
             ELSE /\ agent' = Resumed(agent)
                  /\ calls' = calls \cup {"resume"}
                  /\ conn' = Without(conn, agent.socket)
    /\ UNCHANGED <<outgoing, run, replica, history, server, access, online>>

\* recheckAccess asks the catalog while the pause says "revoked".
RecheckAccess ==
    /\ ~agent.stopped
    /\ agent.sync = "revoked"
    /\ credential # "none"
    /\ "recheck" \notin calls
    /\ calls' = calls \cup {"recheck"}
    /\ UNCHANGED <<agent, outgoing, run, conn, replica, history, worldVars, faults>>

CatalogAnswers ==
    LET back == agent.sync = "revoked" /\ access = "member" /\ credential = "good" IN
    /\ "recheck" \in calls
    /\ agent' = IF back THEN Resumed(agent) ELSE agent
    /\ calls' = (calls \ {"recheck"}) \cup (IF back THEN {"resume"} ELSE {})
    /\ conn' = IF back THEN Without(conn, agent.socket) ELSE conn
    /\ UNCHANGED <<outgoing, run, replica, history, worldVars, faults>>
-----------------------------------------------------------------------------
(* The server, as its clients see it.                                      *)

Serves(c, type) == conn[c].up # <<>> /\ Head(conn[c].up).type = type
Reply(c, msgs, session) ==
    conn' = [conn EXCEPT ![c].up = Tail(@), ![c].session = session,
                ![c].down = IF conn[c].ready = "greeted" THEN @ \o msgs ELSE @]

\* A Hello: a member joins, and its Welcome is the server's document of now,
\* as a delta, a replacement, or a checkpoint to download.
ServerHello(c) ==
    LET hello == Head(conn[c].up)
        gap == server \ hello.ops
    IN  /\ Serves(c, "hello")
        /\ IF access # "member"
           THEN Reply(c, <<Msg("error", {}, "access_denied")>>, "ended")
           ELSE \E m \in IF hello.code = "base"
                         THEN {Msg("welcome", gap, ""), Msg("merge_download", {}, "")}
                         ELSE {Msg("replace", server, ""), Msg("replace_download", {}, "")} :
                   Reply(c, <<m>>, "joined")
        /\ UNCHANGED <<agent, calls, outgoing, run, replica, history, worldVars, faults>>

\* A frame of a session that ended is never read.
ServerDiscards(c) ==
    /\ Serves(c, "update")
    /\ conn[c].session # "joined"
    /\ Reply(c, <<>>, conn[c].session)
    /\ UNCHANGED <<agent, calls, outgoing, run, replica, history, worldVars, faults>>

ServerUpdate(c) ==
    LET f == Head(conn[c].up).ops IN
    /\ Serves(c, "update")
    /\ conn[c].session = "joined"
    /\ IF access = "member"
       THEN server' = server \cup f /\ Reply(c, <<Msg("ack", f, "")>>, "joined")
       ELSE /\ Reply(c, <<Msg("error", {}, "access_denied")>>, "ended")
            /\ UNCHANGED server
    /\ UNCHANGED <<agent, calls, outgoing, run, replica, history, access, credential, online,
                   faults>>

\* A limit, a quota, an upgrade, or a session that cannot go on.
ServerRefuses(c) ==
    /\ Fault
    /\ \/ /\ Serves(c, "hello")
          /\ Reply(c, <<Msg("error", {}, "unsupported")>>, "ended")
       \/ /\ Serves(c, "update")
          /\ conn[c].session = "joined"
          /\ \/ Reply(c, <<Msg("error", {}, "fatal")>>, "joined")
             \/ Reply(c, <<Msg("error", {}, "recoverable")>>, "joined")
             \/ Reply(c, <<Msg("resync", {}, "")>>, "ended")
    /\ UNCHANGED <<agent, calls, outgoing, run, replica, history, worldVars>>

\* Another replica's update reaches every joined session.
ForeignUpdate(u) ==
    /\ u \notin server
    /\ server' = server \cup {u}
    /\ conn' = [c \in Socket |->
                  IF conn[c].session = "joined" /\ conn[c].ready = "greeted"
                  THEN [conn[c] EXCEPT !.down = Append(@, Msg("update", {u}, ""))]
                  ELSE conn[c]]
    /\ UNCHANGED <<agent, calls, outgoing, run, replica, history, access, credential, online,
                   faults>>

\* The socket is closed at this end: the server's session ends, with or without
\* the frames still on the wire.
ServerEnds(c) ==
    /\ conn[c].ready = "closed"
    /\ conn[c].session # "none" \/ conn[c].up # <<>>
    /\ conn' = [conn EXCEPT ![c].session = "none", ![c].up = <<>>]
    /\ UNCHANGED <<agent, calls, outgoing, run, replica, history, worldVars, faults>>

\* The membership tick: a removed member's session ends.
MembershipTick(c) ==
    /\ conn[c].session = "joined"
    /\ access = "removed" \/ credential # "good"
    /\ conn' = [conn EXCEPT ![c].session = "ended",
                  ![c].down = IF conn[c].ready = "greeted" /\ credential = "good"
                              THEN Append(@, Msg("error", {}, "access_denied")) ELSE @]
    /\ UNCHANGED <<agent, calls, outgoing, run, replica, history, worldVars, faults>>

RemoveMember ==
    /\ Fault
    /\ access = "member"
    /\ access' = "removed"
    /\ UNCHANGED <<agent, calls, outgoing, run, conn, replica, history, server, credential,
                   online>>

InviteBack ==
    /\ access = "removed"
    /\ access' = "member"
    /\ UNCHANGED <<agent, calls, outgoing, run, conn, replica, history, server, credential,
                   online, faults>>

\* Deleting the graph ends every session with membership_revoked.
DeleteGraph ==
    /\ Fault
    /\ access = "member"
    /\ access' = "deleted"
    /\ conn' = [c \in Socket |->
                  IF conn[c].session # "joined" THEN conn[c]
                  ELSE [conn[c] EXCEPT !.session = "ended",
                          !.down = IF conn[c].ready = "greeted"
                                   THEN Append(@, Msg("error", {}, "membership_revoked"))
                                   ELSE @]]
    /\ UNCHANGED <<agent, calls, outgoing, run, replica, history, server, credential, online>>
-----------------------------------------------------------------------------
AgentStep ==
    \/ StartCounted
    \/ \E call \in {"validate", "validate stale"} : StartValidated(call)
    \/ StartRejected
    \/ ResumeCounted
    \/ RunStarts
    \/ RunCounts
    \/ RunPeeks
    \/ RunSends
    \/ RetryFires
    \/ CatalogAnswers
    \/ AnswerTimeout
    \/ TickOffline
    \/ RecheckAccess

SocketStep(c) ==
    \/ SocketOpens(c)
    \/ SocketRefused(c)
    \/ HelloSent(c)
    \/ CloseDrained(c)
    \/ DownloadAborted(c)
    \/ ReceiveWelcome(c)
    \/ ReceiveEmptyWelcome(c)
    \/ ReceiveReplace(c)
    \/ ReceiveDownload(c)
    \/ Downloaded(c)
    \/ DownloadRefused(c)
    \/ ReceiveUpdate(c)
    \/ ImportLands(c)
    \/ ReplaceLands(c)
    \/ ReceiveAck(c)
    \/ AckLands(c)
    \/ ReceiveResync(c)
    \/ ReceiveError(c)

ServerStep(c) ==
    \/ ServerHello(c)
    \/ ServerDiscards(c)
    \/ ServerUpdate(c)
    \/ ServerEnds(c)
    \/ MembershipTick(c)
    \/ ServerCloses(c)

Disturbance ==
    \/ StartFails
    \/ Stop
    \/ RunFails
    \/ GoOffline
    \/ GoOnline
    \/ CredentialChanges
    \/ RemoveMember
    \/ InviteBack
    \/ DeleteGraph
    \/ SilenceTimeout
    \/ \E c \in Socket :
          \/ LinkLost(c)
          \/ SocketCallFails(c)
          \/ ImportDropped(c)
          \/ ServerRefuses(c)

Next ==
    \/ AgentStep
    \/ \E c \in Socket : SocketStep(c) \/ ServerStep(c)
    \/ Disturbance
    \/ \E u \in Local : Save(u)
    \/ \E u \in Foreign : ForeignUpdate(u)

\* The event loop runs every promise and timer; the server answers what it reads.
\* Saves, faults and changes of access happen or do not.
Fairness ==
    /\ WF_vars(AgentStep)
    /\ WF_vars(GoOnline)
    /\ \A c \in Socket : WF_vars(SocketStep(c)) /\ WF_vars(ServerStep(c))

Spec == Init /\ [][Next]_vars /\ Fairness
-----------------------------------------------------------------------------
(* Properties.                                                             *)

\* A live transport leaves no gap: once its Welcome and the updates that followed
\* are applied, the replica has everything the server has, whatever abandoned
\* sockets delivered in between.
NoGap ==
    \A c \in Socket :
        /\ IsCurrent(c)
        /\ agent.welcomed
        /\ conn[c].ready = "greeted"
        /\ conn[c].session = "joined"
        /\ conn[c].down = <<>>
        /\ conn[c].rx.step \in {"idle", "outbox"}
        => server \subseteq replica.doc

\* "Synced" is never shown over a waiting update, once the outbox runs that were
\* asked for are over.
SyncedIsTrue ==
    agent.sync = "synced" /\ outgoing = <<>> /\ ~agent.stopped => replica.outbox = {}

\* Whatever connections, retries and stale answers do, the replica's updates
\* arrive in order and none leaves the outbox before the server has it.
DeliveryRefined == INSTANCE UpdateDelivery WITH
    log <- history,
    delivered <- server \cap Local,
    retired <- Range(history) \ replica.outbox
DeliversInOrder == DeliveryRefined!Delivery

\* Nothing but the user, the account or the history stops delivery: a saved update
\* reaches the server after any bounded number of failures.
CannotDeliver ==
    \/ agent.stopped
    \/ IsPaused(agent)
    \/ access # "member"
    \/ credential # "good"
SavedIsDelivered ==
    \A u \in Local : [](u \in Range(history) => <>(u \in server \/ CannotDeliver))
=============================================================================
