----------------------------- MODULE ServerRoom -----------------------------
(***************************************************************************)
(* The synchronization server for one graph: the durable record kept by    *)
(* PostgreSQL (store.rs) and the disposable in-memory room that serves     *)
(* WebSocket sessions from it (room.rs, web.rs).                           *)
(*                                                                         *)
(* A document is the set of updates it has imported: Loro merges are       *)
(* commutative and idempotent, and the server never looks inside an update *)
(* beyond its causal dependencies and its validity.  An update is its      *)
(* content id, so submitting it twice is submitting the same value.        *)
(*                                                                         *)
(* Every handler is split where the code awaits: store reads taken before  *)
(* the room lock, the commit, the reply and the compaction are separate    *)
(* steps, and the room mutex is held between the ones that hold it.        *)
(*                                                                         *)
(* Some definitions are preceded by a variant named after a mistake        *)
(* (AdmissibleUnordered before Admissible).  The specification never uses  *)
(* a variant: it is what the mutation checks put in the real one's place.  *)
(***************************************************************************)
EXTENDS Naturals, FiniteSets, Sequences

CONSTANTS
    Update,                 \* update frames, identified by content id
    Deps,                   \* Deps[u]: the updates u causally depends on
    Malformed,              \* updates that document validation refuses
    Session,                \* WebSocket session ids
    Account,                \* account ids
    Owner,                  \* the account that owns the graph
    AccountOf,              \* the account a session authenticates as
    RoomId,                 \* identities of in-memory rooms (Arc pointers)
    None,                   \* Option::None
    CheckpointTailUpdates,  \* accepted updates after which a room compacts
    MaxRetainedReceipts,    \* compact receipts kept per graph
    SessionQueueCapacity,   \* outbound messages a session may have queued
    MaxSessionsPerRoom,
    LateCommit,             \* may a COMMIT land after its error was reported?
    MaxCursor,              \* bound: update rows ever inserted
    MaxMembershipVersion,   \* bound: membership changes
    Recreate,               \* may a deleted graph's id be created again?
    MaxDeletions,           \* bound: times the graph is deleted
    MaxPresence             \* bound: presence messages queued at once

ASSUME UpdateAssumption ==
    /\ Deps \in [Update -> SUBSET Update]
    /\ Malformed \subseteq Update

ASSUME IdentityAssumption ==
    /\ Owner \in Account
    /\ AccountOf \in [Session -> Account]
    /\ None \notin Update \cup RoomId \cup Session

ASSUME LimitAssumption ==
    /\ CheckpointTailUpdates \in Nat \ {0}
    /\ MaxRetainedReceipts \in Nat
    /\ SessionQueueCapacity \in Nat \ {0}
    /\ MaxSessionsPerRoom \in Nat
    /\ LateCommit \in BOOLEAN
    /\ MaxCursor \in Nat
    /\ MaxMembershipVersion \in Nat
    /\ Recreate \in BOOLEAN
    /\ MaxDeletions \in Nat
    /\ MaxPresence \in Nat

VARIABLES
    (* the database *)
    exists,             \* does the graph row exist?
    deletions,          \* how many times the graph has been deleted
    base,               \* the checkpoint the graph row points to
    prior,              \* the checkpoint it superseded, kept for fallback
    tail,               \* graph_update: the rows of accepted updates
    receipts,           \* graph_update_receipt: identities of compacted rows
    lastCursor,         \* the identity sequence behind graph_update.cursor
    members,            \* graph_membership
    membershipVersion,  \* graph.membership_version
    late,               \* an insert whose COMMIT outcome nobody learned yet
    (* the server process *)
    room,               \* the rooms that exist in memory
    slot,               \* the room the registry holds for the graph
    lock,               \* the handler that holds a room's mutex
    handler,            \* where each session's handler stands
    outbound,           \* each session's queue of messages to send
    revoke,             \* the room revoke_graph still has to close
    (* what clients have learned *)
    acked,              \* updates whose Ack was sent
    view,               \* updates each connected client got from the server
    unbroadcast         \* updates committed while their author's queue was full

storeVars == <<exists, deletions, base, prior, tail, receipts, lastCursor, late>>
memberVars == <<members, membershipVersion>>
registryVars == <<slot, revoke>>
clientVars == <<acked, view, unbroadcast>>
vars == <<exists, deletions, base, prior, tail, receipts, lastCursor, members,
          membershipVersion, late, room, slot, lock, handler, outbound, revoke,
          acked, view, unbroadcast>>
-----------------------------------------------------------------------------
(* Types.                                                                  *)

Row == [cursor : Nat, msg : Update]
Checkpoint == [cursor : Nat, doc : SUBSET Update]
Role == {"owner", "editor", "viewer", "revoked"}
Membership == [role : Role, version : Nat]
Room == [state : {"empty", "valid", "invalid"}, doc : SUBSET Update,
         cursor : Nat, tailUpdates : Nat, sessions : SUBSET Session]
Message == [type : {"ack", "update"}, msg : Update]
           \cup [type : {"presence", "resync", "membership_revoked"}, msg : {None}]
Step == {"opening", "loading", "idle", "authorized", "admitted",
         "rejected", "inserted", "duplicate", "compacting", "evicting", "leaving"}
Closed == [step |-> "closed", room |-> None, version |-> 0, msg |-> None]
Opening(r) == [step |-> "opening", room |-> r, version |-> 0, msg |-> None]
Submitting == {"authorized", "admitted", "rejected", "inserted", "duplicate"}
Handler == {Closed} \cup {h \in [step : Step, room : RoomId, version : Nat,
                                 msg : Update \cup {None}] :
                             h.step \in Submitting => h.msg \in Update}

NewRoom == [state |-> "empty", doc |-> {}, cursor |-> 0, tailUpdates |-> 0,
            sessions |-> {}]
DeadRoom == [state |-> "invalid", doc |-> {}, cursor |-> 0, tailUpdates |-> 0,
             sessions |-> {}]
NoCheckpoint == [cursor |-> 0, doc |-> {}]

TypeOK ==
    /\ exists \in BOOLEAN
    /\ deletions \in Nat
    /\ base \in Checkpoint
    /\ prior \in Checkpoint
    /\ tail \in SUBSET Row
    /\ IsFiniteSet(tail)
    /\ receipts \in SUBSET Row
    /\ lastCursor \in Nat
    /\ members \in [Account -> Membership]
    /\ membershipVersion \in Nat
    /\ late \in Row \cup {None}
    /\ room \in [RoomId -> Room]
    /\ slot \in RoomId \cup {None}
    /\ lock \in [RoomId -> Session \cup {None}]
    /\ handler \in [Session -> Handler]
    /\ outbound \in [Session -> Seq(Message)]
    /\ revoke \in [step : {"none", "take"}, room : {None}]
                  \cup [step : {"close"}, room : RoomId]
    /\ acked \in SUBSET Update
    /\ view \in [Session -> SUBSET Update]
    /\ unbroadcast \in SUBSET Update
-----------------------------------------------------------------------------
(* The durable record.                                                     *)

RowsAfter(c) == {r \in tail : r.cursor > c}
Messages(rows) == {r.msg : r \in rows}

\* GraphLoad: what a checkpoint and the rows after it reconstruct.
Durable(b) == b.doc \cup Messages(RowsAfter(b.cursor))

\* GraphLoad::latest_cursor, with the rows in cursor order.
LatestCursor(b, rows) ==
    IF rows = {} THEN b.cursor
    ELSE (CHOOSE r \in rows : \A q \in rows : q.cursor <= r.cursor).cursor

\* stage_recovery_update for each row in cursor order, then finish_recovery: a
\* row whose dependencies are absent, or that validation refuses, fails the load.
Replays(doc, rows) ==
    \A r \in rows :
        /\ r.msg \notin Malformed
        /\ Deps[r.msg] \subseteq doc \cup Messages({q \in rows : q.cursor < r.cursor})

\* ServerGraph::admit_update on a document: no dependency may be missing and the
\* result must validate.
AdmissibleUnordered(u, doc) == u \notin Malformed
Admissible(u, doc) == u \notin Malformed /\ Deps[u] \subseteq doc

Authorized(a) == exists /\ members[a].role # "revoked"

\* The role check inside commit_update's transaction.
CanWriteAsBefore(a) == exists
CanWrite(a) == Authorized(a) /\ members[a].role \in {"owner", "editor"}

\* The prior_cursor lookup of commit_update spans the Tail and the receipts.
IsDuplicateInReceipts(u) == u \in Messages(receipts)
IsDuplicate(u) == u \in Messages(tail \cup receipts)

\* The newest MaxRetainedReceipts of a set of receipts.
NewestReceipts(rs) ==
    {r \in rs : Cardinality({q \in rs : q.cursor > r.cursor}) < MaxRetainedReceipts}

\* The receipts after a compaction through cursor c: the covered rows are copied
\* in, identities already recorded keep their row, the oldest beyond the cap go.
ReceiptsAfter(c) ==
    NewestReceipts(receipts \cup {r \in tail : r.cursor <= c
                                        /\ r.msg \notin Messages(receipts)})

\* PgStore::compact_checkpoint with a snapshot doc of a room at cursor c.
InstallCheckpointAlone(c, doc) ==
    /\ receipts' = ReceiptsAfter(c)
    /\ tail' = RowsAfter(c)
    /\ prior' = base
    /\ base' = [cursor |-> c, doc |-> doc]

InstallCheckpoint(c, doc) ==
    /\ receipts' = ReceiptsAfter(c)
    /\ tail' = RowsAfter(base.cursor)
    /\ prior' = base
    /\ base' = [cursor |-> c, doc |-> doc]
-----------------------------------------------------------------------------
(* Rooms, the registry and the sessions' queues.                           *)

Full(s) == Len(outbound[s]) >= SessionQueueCapacity
RoomOf(s) == handler[s].room
At(s, step) == handler[s].step = step
Goto(s, step) == handler' = [handler EXCEPT ![s].step = step]

\* Dropping the last Arc to a room frees it.
Referenced(r) ==
    slot = r \/ revoke.room = r \/ \E s \in Session : handler[s].room = r

Loading(r) == \E s \in Session : At(s, "loading") /\ RoomOf(s) = r

\* A room some session or the registry can still reach and that serves updates.
Live(r) == room[r].state = "valid" /\ Referenced(r)

\* outbound.try_send of m to every session in ss; a full queue drops it.
Queue(ss, m) ==
    outbound' = [t \in Session |-> IF t \in ss /\ ~Full(t)
                                   THEN Append(outbound[t], m) ELSE outbound[t]]

\* The sessions of ss whose queue was full leave the room.
DropNobody(r, ss) == room
DropSlow(r, ss) == [room EXCEPT ![r].sessions = @ \ {t \in ss : Full(t)}]

\* load_room: what a room becomes once the rows after its checkpoint replayed.
Loaded(r, rows) ==
    [room[r] EXCEPT !.state = "valid",
                    !.doc = @ \cup Messages(rows),
                    !.cursor = LatestCursor(room[r], rows),
                    !.tailUpdates = Cardinality(rows)]

\* restore: the document and the counters are reloaded, the sessions stay.
RestoredInPlace(r) ==
    [room[r] EXCEPT !.tailUpdates = Cardinality(RowsAfter(base.cursor))]
Restored(r) ==
    [room[r] EXCEPT !.doc = Durable(base),
                    !.tailUpdates = Cardinality(RowsAfter(base.cursor))]

\* invalidate_room: tell every session to resynchronize and forget them all.
InvalidateSessionsOnly(r) ==
    /\ Queue(room[r].sessions, [type |-> "resync", msg |-> None])
    /\ UNCHANGED room
Invalidate(r) ==
    /\ Queue(room[r].sessions, [type |-> "resync", msg |-> None])
    /\ room' = [room EXCEPT ![r] = DeadRoom]

\* The end of a session's task: its connection drops its Arc to the room.
Close(s) == handler' = [handler EXCEPT ![s] = Closed]
-----------------------------------------------------------------------------
Init ==
    /\ exists = TRUE
    /\ deletions = 0
    /\ base = NoCheckpoint
    /\ prior = NoCheckpoint
    /\ tail = {}
    /\ receipts = {}
    /\ lastCursor = 0
    /\ members = [a \in Account |-> IF a = Owner
                                    THEN [role |-> "owner", version |-> 1]
                                    ELSE [role |-> "revoked", version |-> 0]]
    /\ membershipVersion = 1
    /\ late = None
    /\ room = [r \in RoomId |-> DeadRoom]
    /\ slot = None
    /\ lock = [r \in RoomId |-> None]
    /\ handler = [s \in Session |-> Closed]
    /\ outbound = [s \in Session |-> <<>>]
    /\ revoke = [step |-> "none", room |-> None]
    /\ acked = {}
    /\ view = [s \in Session |-> {}]
    /\ unbroadcast = {}
-----------------------------------------------------------------------------
(* Opening a session: authorize, find or create the registry's slot, load  *)
(* the room if nobody has (single-flight), lock it and authorize again.    *)

OpenSession(s) ==
    /\ At(s, "closed")
    /\ Authorized(AccountOf[s])
    /\ \/ /\ slot # None
          /\ handler' = [handler EXCEPT ![s] = Opening(slot)]
          /\ UNCHANGED <<room, slot>>
       \/ /\ slot = None
          /\ \E r \in RoomId :
                /\ ~Referenced(r)
                /\ room' = [room EXCEPT ![r] = NewRoom]
                /\ slot' = r
                /\ handler' = [handler EXCEPT ![s] = Opening(r)]
    /\ outbound' = [outbound EXCEPT ![s] = <<>>]
    /\ UNCHANGED <<storeVars, memberVars, lock, revoke, clientVars>>

\* load_graph, first read: the checkpoint the graph row points to.
LoadCheckpoint(s) ==
    LET r == RoomOf(s) IN
    /\ At(s, "opening")
    /\ room[r].state = "empty"
    /\ ~Loading(r)
    /\ exists
    /\ room' = [room EXCEPT ![r].doc = base.doc, ![r].cursor = base.cursor]
    /\ Goto(s, "loading")
    /\ UNCHANGED <<storeVars, memberVars, registryVars, lock, outbound, clientVars>>

\* load_graph, second read, and load_room: the rows after that checkpoint.
LoadTail(s) ==
    LET r == RoomOf(s)
        rows == RowsAfter(room[r].cursor)
    IN  /\ At(s, "loading")
        /\ Replays(room[r].doc, rows)
        /\ room' = [room EXCEPT ![r] = Loaded(r, rows)]
        /\ Goto(s, "opening")
        /\ UNCHANGED <<storeVars, memberVars, registryVars, lock, outbound, clientVars>>

\* Storage errors, a deleted graph and a Tail that does not replay fail the
\* initialization; the empty slot stays registered and the session ends.
LoadFails(s) ==
    LET r == RoomOf(s) IN
    /\ \/ At(s, "loading")
       \/ At(s, "opening") /\ room[r].state = "empty" /\ ~Loading(r)
    /\ room' = [room EXCEPT ![r] = NewRoom]
    /\ Close(s)
    /\ UNCHANGED <<storeVars, memberVars, registryVars, lock, outbound, clientVars>>

\* The locked half of open_with_base_status: the Welcome carries everything the
\* client lacks, whichever payload form it takes.
Welcome(s) ==
    LET r == RoomOf(s) IN
    /\ At(s, "opening")
    /\ lock[r] = None
    /\ room[r].state = "valid"
    /\ Authorized(AccountOf[s])
    /\ Cardinality(room[r].sessions) < MaxSessionsPerRoom
    /\ room' = [room EXCEPT ![r].sessions = @ \cup {s}]
    /\ handler' = [handler EXCEPT ![s].step = "idle",
                                  ![s].version = members[AccountOf[s]].version]
    /\ view' = [view EXCEPT ![s] = room[r].doc]
    /\ UNCHANGED <<storeVars, memberVars, registryVars, lock, outbound, acked,
                   unbroadcast>>

WelcomeRefused(s) ==
    LET r == RoomOf(s) IN
    /\ At(s, "opening")
    /\ lock[r] = None
    /\ room[r].state # "empty"
    /\ \/ ~Authorized(AccountOf[s])
       \/ room[r].state = "invalid"
       \/ Cardinality(room[r].sessions) >= MaxSessionsPerRoom
    /\ Close(s)
    /\ UNCHANGED <<storeVars, memberVars, registryVars, room, lock, outbound, clientVars>>
-----------------------------------------------------------------------------
(* submit_update.                                                          *)

\* Content id and membership are checked before the room lock is taken.
SubmitUpdate(s, u) ==
    /\ At(s, "idle")
    /\ \/ /\ Authorized(AccountOf[s])
          /\ members[AccountOf[s]].version = handler[s].version
          /\ handler' = [handler EXCEPT ![s].step = "authorized", ![s].msg = u]
       \/ /\ \/ ~Authorized(AccountOf[s])
             \/ members[AccountOf[s]].version # handler[s].version
          /\ Goto(s, "leaving")
    /\ UNCHANGED <<storeVars, memberVars, registryVars, room, lock, outbound, clientVars>>

\* The room is gone, the session was dropped as a slow consumer, or the quota
\* estimate is exceeded.  Only the first closes the connection by itself.
SubmitRefused(s) ==
    LET r == RoomOf(s) IN
    /\ At(s, "authorized")
    /\ lock[r] = None
    /\ \/ room[r].state # "valid" /\ Goto(s, "leaving")
       \/ room[r].state = "valid" /\ handler' = [handler EXCEPT ![s].step = "idle",
                                                                ![s].msg = None]
    /\ UNCHANGED <<storeVars, memberVars, registryVars, room, lock, outbound, clientVars>>

\* admit_update imports first and validates after: refused operations are in
\* the document until it is restored.
AdmitUpdate(s) ==
    LET r == RoomOf(s)
        u == handler[s].msg
    IN  /\ At(s, "authorized")
        /\ lock[r] = None
        /\ room[r].state = "valid"
        /\ s \in room[r].sessions
        /\ room' = [room EXCEPT ![r].doc = @ \cup {u}]
        /\ lock' = [lock EXCEPT ![r] = s]
        /\ Goto(s, IF Admissible(u, room[r].doc) THEN "admitted" ELSE "rejected")
        /\ UNCHANGED <<storeVars, memberVars, registryVars, outbound, clientVars>>

\* restore: reload the durable state under the room lock, keeping the sessions,
\* provided it is the state this room was built on.
RestoreRoom(s) ==
    LET r == RoomOf(s)
        rows == RowsAfter(base.cursor)
    IN  /\ At(s, "rejected")
        /\ exists
        /\ Replays(base.doc, rows)
        /\ LatestCursor(base, rows) = room[r].cursor
        /\ room' = [room EXCEPT ![r] = Restored(r)]
        /\ lock' = [lock EXCEPT ![r] = None]
        /\ Goto(s, "leaving")
        /\ UNCHANGED <<storeVars, memberVars, registryVars, outbound, clientVars>>

\* A failed or mismatching reload discards the room.
RestoreFailsIfPresent(s) ==
    LET r == RoomOf(s) IN
    /\ At(s, "rejected")
    /\ exists
    /\ Invalidate(r)
    /\ lock' = [lock EXCEPT ![r] = None]
    /\ Goto(s, "evicting")
    /\ UNCHANGED <<storeVars, memberVars, registryVars, clientVars>>
RestoreFails(s) ==
    LET r == RoomOf(s) IN
    /\ At(s, "rejected")
    /\ Invalidate(r)
    /\ lock' = [lock EXCEPT ![r] = None]
    /\ Goto(s, "evicting")
    /\ UNCHANGED <<storeVars, memberVars, registryVars, clientVars>>

\* commit_update finds the identity in the Tail or the receipts.
CommitDuplicate(s) ==
    /\ At(s, "admitted")
    /\ late = None
    /\ CanWrite(AccountOf[s])
    /\ IsDuplicate(handler[s].msg)
    /\ Goto(s, "duplicate")
    /\ UNCHANGED <<storeVars, memberVars, registryVars, room, lock, outbound, clientVars>>

\* commit_update inserts the row; the room advances to its cursor.
CommitInsert(s) ==
    LET r == RoomOf(s) IN
    /\ At(s, "admitted")
    /\ late = None
    /\ CanWrite(AccountOf[s])
    /\ ~IsDuplicate(handler[s].msg)
    /\ lastCursor < MaxCursor
    /\ lastCursor' = lastCursor + 1
    /\ tail' = tail \cup {[cursor |-> lastCursor + 1, msg |-> handler[s].msg]}
    /\ room' = [room EXCEPT ![r].cursor = lastCursor + 1, ![r].tailUpdates = @ + 1]
    /\ Goto(s, "inserted")
    /\ UNCHANGED <<exists, deletions, base, prior, receipts, late, memberVars,
                   registryVars, lock, outbound, clientVars>>

\* commit_update reports an error: access lost, read-only role, quota, or a
\* storage failure.  A storage failure may hide an insert that did commit, or,
\* with LateCommit, one that PostgreSQL is still committing under its row lock.
CommitFails(s) ==
    LET r == RoomOf(s)
        row == [cursor |-> lastCursor + 1, msg |-> handler[s].msg]
        mayInsert == /\ late = None
                     /\ CanWrite(AccountOf[s])
                     /\ ~IsDuplicate(handler[s].msg)
                     /\ lastCursor < MaxCursor
    IN  /\ At(s, "admitted")
        /\ \/ UNCHANGED <<lastCursor, tail, late>>
           \/ /\ mayInsert
              /\ lastCursor' = lastCursor + 1
              /\ tail' = tail \cup {row}
              /\ UNCHANGED late
           \/ /\ mayInsert
              /\ LateCommit
              /\ lastCursor' = lastCursor + 1
              /\ late' = row
              /\ UNCHANGED tail
        /\ Invalidate(r)
        /\ lock' = [lock EXCEPT ![r] = None]
        /\ Goto(s, "evicting")
        /\ UNCHANGED <<exists, deletions, base, prior, receipts, memberVars,
                       registryVars, clientVars>>

\* The transaction nobody heard of becomes visible.
LateCommitLands ==
    /\ late # None
    /\ late' = None
    /\ tail' = tail \cup {late}
    /\ UNCHANGED <<exists, deletions, base, prior, receipts, lastCursor, memberVars,
                   room, registryVars, lock, handler, outbound, clientVars>>

\* evict runs after the room lock is dropped and removes whatever room the
\* registry holds for the graph.  Lost access ends the session; after a storage,
\* role or quota error its loop goes on, without a place in any room.
Evict(s) ==
    /\ At(s, "evicting")
    /\ slot' = None
    /\ \/ Goto(s, "leaving")
       \/ handler' = [handler EXCEPT ![s].step = "idle", ![s].msg = None]
    /\ UNCHANGED <<storeVars, memberVars, room, lock, outbound, revoke, clientVars>>

\* The author's own queue is full: it is dropped and the handler returns before
\* the broadcast and the compaction.
ReplyToSlowAuthor(s) ==
    LET r == RoomOf(s) IN
    /\ At(s, "inserted") \/ At(s, "duplicate")
    /\ Full(s)
    /\ room' = [room EXCEPT ![r].sessions = @ \ {s}]
    /\ lock' = [lock EXCEPT ![r] = None]
    /\ unbroadcast' = IF At(s, "inserted") THEN unbroadcast \cup {handler[s].msg}
                      ELSE unbroadcast
    /\ Goto(s, "leaving")
    /\ UNCHANGED <<storeVars, memberVars, registryVars, outbound, acked, view>>

\* A duplicate is acknowledged and nothing else happens.
ReplyDuplicate(s) ==
    LET r == RoomOf(s) IN
    /\ At(s, "duplicate")
    /\ ~Full(s)
    /\ Queue({s}, [type |-> "ack", msg |-> handler[s].msg])
    /\ lock' = [lock EXCEPT ![r] = None]
    /\ handler' = [handler EXCEPT ![s].step = "idle", ![s].msg = None]
    /\ UNCHANGED <<storeVars, memberVars, registryVars, room, clientVars>>

\* Ack the author, broadcast to every other session, drop the ones whose queue
\* is full, and go on to compaction when the Tail is long enough.
ReplyInserted(s) ==
    LET r == RoomOf(s)
        u == handler[s].msg
        others == room[r].sessions \ {s}
        compacts == room[r].tailUpdates >= CheckpointTailUpdates
    IN  /\ At(s, "inserted")
        /\ ~Full(s)
        /\ outbound' = [t \in Session |->
              IF t = s THEN Append(outbound[t], [type |-> "ack", msg |-> u])
              ELSE IF t \in others /\ ~Full(t)
                   THEN Append(outbound[t], [type |-> "update", msg |-> u])
                   ELSE outbound[t]]
        /\ room' = DropSlow(r, others)
        /\ lock' = [lock EXCEPT ![r] = IF compacts THEN s ELSE None]
        /\ handler' = [handler EXCEPT
                          ![s].step = IF compacts THEN "compacting" ELSE "idle",
                          ![s].msg = None]
        /\ UNCHANGED <<storeVars, memberVars, registryVars, clientVars>>
-----------------------------------------------------------------------------
(* Compaction, still under the room lock.  A failure is only logged.       *)

CompactCheckpoint(s) ==
    LET r == RoomOf(s) IN
    /\ At(s, "compacting")
    /\ late = None
    /\ exists
    /\ room[r].cursor >= base.cursor
    /\ InstallCheckpoint(room[r].cursor, room[r].doc)
    /\ room' = [room EXCEPT ![r].tailUpdates = 0]
    /\ lock' = [lock EXCEPT ![r] = None]
    /\ Goto(s, "idle")
    /\ UNCHANGED <<exists, deletions, lastCursor, late, memberVars, registryVars,
                   outbound, clientVars>>

\* The transaction failed, or committed while its answer was lost: the room
\* keeps its counters either way and retries after the next update.
CompactionDeferred(s) ==
    LET r == RoomOf(s) IN
    /\ At(s, "compacting")
    /\ \/ UNCHANGED <<base, prior, tail, receipts>>
       \/ /\ late = None
          /\ exists
          /\ room[r].cursor >= base.cursor
          /\ InstallCheckpoint(room[r].cursor, room[r].doc)
    /\ lock' = [lock EXCEPT ![r] = None]
    /\ Goto(s, "idle")
    /\ UNCHANGED <<exists, deletions, lastCursor, late, memberVars, room,
                   registryVars, outbound, clientVars>>
-----------------------------------------------------------------------------
(* The rest of run_session.                                                *)

\* Presence is relayed to the other sessions and never stored.
RelayPresence(s) ==
    LET r == RoomOf(s)
        others == room[r].sessions \ {s}
    IN  /\ At(s, "idle")
        /\ Authorized(AccountOf[s])
        /\ members[AccountOf[s]].version = handler[s].version
        /\ lock[r] = None
        /\ room[r].state = "valid"
        /\ s \in room[r].sessions
        /\ others # {}
        /\ \A t \in others :
              Cardinality({i \in DOMAIN outbound[t] : outbound[t][i].type = "presence"})
                  < MaxPresence
        /\ Queue(others, [type |-> "presence", msg |-> None])
        /\ room' = DropSlow(r, others)
        /\ UNCHANGED <<storeVars, memberVars, registryVars, lock, handler, clientVars>>

\* The periodic recheck finds the membership changed and drops the session; the
\* queued notice is never sent, because the loop ends with an error of its own.
RecheckMembershipRoleOnly(s) ==
    LET r == RoomOf(s) IN
    /\ At(s, "idle")
    /\ ~Authorized(AccountOf[s])
    /\ lock[r] = None
    /\ room' = [room EXCEPT ![r].sessions = @ \ {s}]
    /\ Goto(s, "leaving")
    /\ UNCHANGED <<storeVars, memberVars, registryVars, lock, outbound, clientVars>>

RecheckMembership(s) ==
    LET r == RoomOf(s) IN
    /\ At(s, "idle")
    /\ \/ ~Authorized(AccountOf[s])
       \/ members[AccountOf[s]].version # handler[s].version
    /\ lock[r] = None
    /\ room' = [room EXCEPT ![r].sessions = @ \ {s}]
    /\ Goto(s, "leaving")
    /\ UNCHANGED <<storeVars, memberVars, registryVars, lock, outbound, clientVars>>

\* outbound.recv and send_message: the client learns of one queued message.
SendOutboundUntyped(s) ==
    /\ At(s, "idle")
    /\ outbound[s] # <<>>
    /\ acked' = acked \cup {Head(outbound[s]).msg}
    /\ view' = [view EXCEPT ![s] = @ \cup {Head(outbound[s]).msg}]
    /\ outbound' = [outbound EXCEPT ![s] = Tail(@)]
    /\ UNCHANGED <<storeVars, memberVars, registryVars, room, lock, handler, unbroadcast>>

SendOutbound(s) ==
    /\ At(s, "idle")
    /\ outbound[s] # <<>>
    /\ LET m == Head(outbound[s]) IN
          /\ acked' = IF m.type = "ack" THEN acked \cup {m.msg} ELSE acked
          /\ view' = [view EXCEPT ![s] = @ \cup ({m.msg} \ {None})]
    /\ outbound' = [outbound EXCEPT ![s] = Tail(@)]
    /\ UNCHANGED <<storeVars, memberVars, registryVars, room, lock, handler, unbroadcast>>

\* The loop ends (socket gone, error, shutdown) and disconnect takes the lock.
Disconnect(s) ==
    LET r == RoomOf(s) IN
    /\ At(s, "idle") \/ At(s, "leaving")
    /\ lock[r] = None
    /\ room' = [room EXCEPT ![r].sessions = @ \ {s}]
    /\ Close(s)
    /\ outbound' = [outbound EXCEPT ![s] = <<>>]
    /\ view' = [view EXCEPT ![s] = {}]
    /\ UNCHANGED <<storeVars, memberVars, registryVars, lock, acked, unbroadcast>>
-----------------------------------------------------------------------------
(* Membership and the graph's life.                                        *)

GrantMembership(a, role) ==
    /\ late = None
    /\ exists
    /\ a # Owner
    /\ membershipVersion < MaxMembershipVersion
    /\ membershipVersion' = membershipVersion + 1
    /\ members' = [members EXCEPT ![a] = [role |-> role, version |-> membershipVersion + 1]]
    /\ UNCHANGED <<storeVars, room, registryVars, lock, handler, outbound, clientVars>>

RevokeMembership(a) ==
    /\ late = None
    /\ exists
    /\ a # Owner
    /\ members[a].role # "revoked"
    /\ membershipVersion < MaxMembershipVersion
    /\ membershipVersion' = membershipVersion + 1
    /\ members' = [members EXCEPT ![a] = [role |-> "revoked",
                                          version |-> membershipVersion + 1]]
    /\ UNCHANGED <<storeVars, room, registryVars, lock, handler, outbound, clientVars>>

\* delete_graph cascades to every row of the graph, in one transaction.
DeleteGraph ==
    /\ late = None
    /\ exists
    /\ revoke.step = "none"
    /\ deletions < MaxDeletions
    /\ deletions' = deletions + 1
    /\ exists' = FALSE
    /\ base' = NoCheckpoint
    /\ prior' = NoCheckpoint
    /\ tail' = {}
    /\ receipts' = {}
    /\ members' = [a \in Account |-> [role |-> "revoked", version |-> 0]]
    /\ revoke' = [step |-> "take", room |-> None]
    /\ UNCHANGED <<lastCursor, membershipVersion, late, room, slot, lock,
                   handler, outbound, clientVars>>

\* revoke_graph, first the registry ...
RevokeTake ==
    /\ revoke.step = "take"
    /\ revoke' = IF slot = None THEN [step |-> "none", room |-> None]
                 ELSE [step |-> "close", room |-> slot]
    /\ slot' = None
    /\ UNCHANGED <<storeVars, memberVars, room, lock, handler, outbound, clientVars>>

\* ... then the room, once a reconstruction in progress has ended.
RevokeCloseAtOnce ==
    LET r == revoke.room IN
    /\ revoke.step = "close"
    /\ lock[r] = None
    /\ revoke' = [step |-> "none", room |-> None]
    /\ IF room[r].state = "empty"
       THEN UNCHANGED <<room, outbound>>
       ELSE /\ room' = [room EXCEPT ![r] = DeadRoom]
            /\ Queue(room[r].sessions, [type |-> "membership_revoked", msg |-> None])
    /\ UNCHANGED <<storeVars, memberVars, slot, lock, handler, clientVars>>

RevokeClose ==
    LET r == revoke.room IN
    /\ revoke.step = "close"
    /\ ~Loading(r)
    /\ lock[r] = None
    /\ revoke' = [step |-> "none", room |-> None]
    /\ IF room[r].state = "empty"
       THEN UNCHANGED <<room, outbound>>
       ELSE /\ room' = [room EXCEPT ![r] = DeadRoom]
            /\ Queue(room[r].sessions, [type |-> "membership_revoked", msg |-> None])
    /\ UNCHANGED <<storeVars, memberVars, slot, lock, handler, clientVars>>

\* create_graph under the same id; cursors come from one sequence for all graphs.
CreateGraph ==
    /\ ~exists
    /\ Recreate
    /\ exists' = TRUE
    /\ members' = [a \in Account |-> IF a = Owner
                                     THEN [role |-> "owner", version |-> 1]
                                     ELSE [role |-> "revoked", version |-> 0]]
    /\ membershipVersion' = 1
    /\ acked' = {}
    /\ UNCHANGED <<deletions, base, prior, tail, receipts, lastCursor, late, room, registryVars,
                   lock, handler, outbound, view, unbroadcast>>

\* The process dies; PostgreSQL finishes or drops what it had been sent.
Crash ==
    /\ \E s \in Session : handler[s] # Closed
    /\ room' = [r \in RoomId |-> DeadRoom]
    /\ slot' = None
    /\ lock' = [r \in RoomId |-> None]
    /\ handler' = [s \in Session |-> Closed]
    /\ outbound' = [s \in Session |-> <<>>]
    /\ revoke' = [step |-> "none", room |-> None]
    /\ view' = [s \in Session |-> {}]
    /\ UNCHANGED <<storeVars, memberVars, acked, unbroadcast>>
-----------------------------------------------------------------------------
SessionStep(s) ==
    \/ OpenSession(s)
    \/ LoadCheckpoint(s)
    \/ LoadTail(s)
    \/ LoadFails(s)
    \/ Welcome(s)
    \/ WelcomeRefused(s)
    \/ \E u \in Update : SubmitUpdate(s, u)
    \/ SubmitRefused(s)
    \/ AdmitUpdate(s)
    \/ RestoreRoom(s)
    \/ RestoreFails(s)
    \/ CommitDuplicate(s)
    \/ CommitInsert(s)
    \/ CommitFails(s)
    \/ Evict(s)
    \/ ReplyToSlowAuthor(s)
    \/ ReplyDuplicate(s)
    \/ ReplyInserted(s)
    \/ CompactCheckpoint(s)
    \/ CompactionDeferred(s)
    \/ RelayPresence(s)
    \/ RecheckMembership(s)
    \/ SendOutbound(s)
    \/ Disconnect(s)

Next ==
    \/ \E s \in Session : SessionStep(s)
    \/ LateCommitLands
    \/ \E a \in Account, role \in {"editor", "viewer"} : GrantMembership(a, role)
    \/ \E a \in Account : RevokeMembership(a)
    \/ DeleteGraph
    \/ RevokeTake
    \/ RevokeClose
    \/ CreateGraph
    \/ Crash

Spec == Init /\ [][Next]_vars

\* What a session's task does once it has what it waits for.
HandlerStep(s) ==
    \/ LoadCheckpoint(s) \/ LoadTail(s) \/ LoadFails(s)
    \/ RestoreRoom(s) \/ RestoreFails(s)
    \/ CommitDuplicate(s) \/ CommitInsert(s) \/ CommitFails(s)
    \/ ReplyToSlowAuthor(s) \/ ReplyDuplicate(s) \/ ReplyInserted(s)
    \/ CompactCheckpoint(s) \/ CompactionDeferred(s)
    \/ Evict(s)

\* What it does once it gets the room lock.
LockedStep(s) ==
    \/ Welcome(s) \/ WelcomeRefused(s)
    \/ SubmitRefused(s) \/ AdmitUpdate(s)
    \/ At(s, "leaving") /\ Disconnect(s)

\* Tokio polls every ready task, a store call returns or times out, and a mutex
\* is handed over in order, so a handler that waits for it gets it although others
\* take it in between.  Clients are not assumed to do anything.
Fairness ==
    /\ \A s \in Session :
          /\ WF_vars(HandlerStep(s))
          /\ SF_vars(LockedStep(s))
          /\ SF_vars(RecheckMembership(s))
    /\ WF_vars(RevokeTake)
    /\ SF_vars(RevokeClose)

FairSpec == Spec /\ Fairness
-----------------------------------------------------------------------------
(* Properties.                                                             *)

Queued(s) == {outbound[s][i].msg : i \in DOMAIN outbound[s]} \ {None}
Learned(s) == view[s] \cup Queued(s)

\* No Ack, broadcast or Welcome tells a client of an update that a restart of the
\* server would not bring back: whatever submit_update queued, in whatever order
\* commits failed, rooms were rebuilt and checkpoints installed, reconstructing
\* from the current checkpoint and the rows after it yields it.
LearnedIsDurable ==
    exists => (acked \cup UNION {Learned(s) : s \in Session}) \subseteq Durable(base)

\* compact_checkpoint keeps the predecessor checkpoint and enough rows that it
\* reconstructs exactly what the current one does.
FallbackComplete ==
    exists => Durable(prior) = Durable(base)

\* Reconstruction cannot fail on the data itself: the rows after either retained
\* checkpoint replay in cursor order, every dependency before its dependent, and
\* no update that validation refuses has reached a row or a snapshot.
AlwaysReconstructs ==
    exists => \A b \in {base, prior} :
                 /\ Replays(b.doc, RowsAfter(b.cursor))
                 /\ b.doc \cap Malformed = {}

\* Between handlers the room that serves the graph holds exactly the durable
\* document at the durable cursor, although it imports updates before they
\* commit and cannot retract them; and it never believes its Tail shorter than it
\* is, so failed compactions and reloads cannot postpone the next one.
RoomMirrorsStore ==
    exists => \A r \in RoomId :
        Live(r) =>
            /\ room[r].tailUpdates >= Cardinality(RowsAfter(base.cursor))
            /\ lock[r] = None => /\ room[r].doc = Durable(base)
                                 /\ room[r].cursor = LatestCursor(base, RowsAfter(base.cursor))

\* Reconstruction is single-flight: however evictions, failed loads and
\* reconnections interleave, no two rooms serve the graph at once.
SingleLiveRoom ==
    \A r, q \in RoomId : Live(r) /\ Live(q) => r = q

\* A session that stays in its room has been told, or has queued, every update
\* the room committed, unless the author's own queue was full at the commit.
BroadcastComplete ==
    exists => \A r \in RoomId : \A s \in room[r].sessions :
        lock[r] = None => room[r].doc \ unbroadcast \subseteq Learned(s)

\* The MIN(cursor) lookup spans two tables that a compaction copies between, and
\* receipts beyond the cap are forgotten, so that an identity may be accepted
\* again later, at a new cursor.  While one is retained, in the Tail, as a
\* receipt or in both, it has one cursor: a retry of a retained identity is never
\* inserted again and is answered with the cursor it was retained at.
OneCursorPerIdentity ==
    \A p, q \in tail \cup receipts : p.msg = q.msg => p.cursor = q.cursor

\* Authorization is decided in the transaction that inserts: a role that was
\* read before the room lock and lost since then commits nothing.
OnlyWritersCommit ==
    [][\A row \in tail' \ tail :
          late # None \/ \E s \in Session : /\ handler[s].msg = row.msg
                                            /\ members[AccountOf[s]].role
                                                  \in {"owner", "editor"}]_vars

\* Deletion joins a reconstruction in progress: once revoke_graph is done no room
\* serves the deleted graph, whichever session was opening, loading or evicting.
DeletedRoomIsClosed ==
    ~exists /\ revoke.step = "none" => \A r \in RoomId : ~Live(r)

\* A connected session whose membership is not the one it was welcomed with.
Stale(s) ==
    /\ handler[s].step \notin {"closed", "opening", "loading"}
    /\ \/ ~Authorized(AccountOf[s])
       \/ members[AccountOf[s]].version # handler[s].version

\* A revoked or changed membership reaches an idle session through the periodic
\* recheck alone, even while other sessions keep taking the room lock: it does
\* not stay stale for ever.
StaleSessionLeaves ==
    \A s \in Session : []<>~Stale(s)

\* A session with a submission under way: submit_update has not answered it, or
\* the eviction, the compaction or the disconnection it led to has not ended.
\* It stops being busy by going idle again or by closing.
Busy(s) == handler[s].step \in Submitting \cup {"compacting", "evicting", "leaving"}

\* Nobody waits on the room lock for ever: a submission is answered, or its
\* session ends, whatever the other handlers do under that lock: refused updates
\* and their restores, commits that fail, compactions that fail, revocations and
\* the deletion of the graph.
SubmissionsFinish ==
    \A s \in Session : []<>~Busy(s)
=============================================================================
