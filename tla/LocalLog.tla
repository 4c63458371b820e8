------------------------------ MODULE LocalLog ------------------------------
(***************************************************************************)
(* The browser's durable replica of one server graph: the IndexedDB log    *)
(* (persistence.ts), the Worker that recovers a document from it and       *)
(* writes to it (graph-worker.ts), and the tabs that open it, of which one *)
(* holds the lease (session.ts, lease.ts).  The server appears as the set  *)
(* of updates it has accepted.                                             *)
(*                                                                         *)
(* A document is a set of updates, as in ServerRoom.  Every IndexedDB      *)
(* transaction is one step.  Within a tab, commands, imports and reloads   *)
(* run one at a time (GraphSession's lane); outbox reads and               *)
(* acknowledgements run beside them, and so do the other tabs.             *)
(*                                                                         *)
(* Some definitions are preceded by a variant named after a mistake        *)
(* (CoversFlight before Covers).  The specification never uses a variant:  *)
(* it is what the mutation checks put in the real one's place.             *)
(***************************************************************************)
EXTENDS Naturals, FiniteSets, FiniteSetsExt

CONSTANTS
    Tab,                  \* browser tabs that open the graph
    Local,                \* updates this replica's commands produce
    Foreign,              \* updates other replicas produce
    None,
    CompactTailUpdates,   \* COMPACT_TAIL_UPDATES
    MaxSequence,          \* bound: rows ever appended
    MaxCorruptUpdates,    \* bound: Tail rows the medium damages
    MaxCorruptCheckpoints \* bound: checkpoints the medium damages

Update == Local \cup Foreign

ASSUME TabAssumption == None \notin Tab \cup Update
ASSUME OriginAssumption == Local \cap Foreign = {}
ASSUME BoundAssumption ==
    /\ CompactTailUpdates \in Nat \ {0}
    /\ MaxSequence \in Nat
    /\ MaxCorruptUpdates \in Nat
    /\ MaxCorruptCheckpoints \in Nat

VARIABLES
    (* IndexedDB *)
    checkpoints,   \* CheckpointRecord: sequence, document, is it undamaged?
    updates,       \* UpdateRecord: sequence, operations, is it undamaged?
    outbox,        \* OutboxRecord: an update the server has not acknowledged
    nextSequence,  \* MetadataRecord.next_sequence
    compacted,     \* MetadataRecord.compacted_through
    serverBase,    \* SyncStateRecord.server_base
    (* tabs *)
    lease,         \* the tab that may write
    tab,           \* each tab's session and Worker state
    frame,         \* OpenState.frame of the holder: what the frame in flight covers,
                   \* and what a syncNextFrame under way has read
    news,          \* following tabs with an unread "saved" announcement
    (* beyond the browser *)
    server,        \* updates the server has accepted
    sent,          \* frames ever put on a wire, named by what they carry
    (* history, for the properties and the bounds *)
    deps,          \* the updates an update causally depends on
    created,       \* updates some command has produced
    saved,         \* updates the user was told are saved on this device
    damage         \* how many records of each kind the medium has damaged

storageVars == <<checkpoints, updates, outbox, nextSequence, compacted, serverBase>>
worldVars == <<server, sent, deps, created, damage>>
vars == <<checkpoints, updates, outbox, nextSequence, compacted, serverBase, lease,
          tab, frame, news, server, sent, deps, created, saved, damage>>
-----------------------------------------------------------------------------
(* Types.                                                                  *)

CheckpointRecord == [seq : Nat, doc : SUBSET Update, ok : BOOLEAN]
UpdateRecord == [seq : Nat, ops : SUBSET Update, ok : BOOLEAN]
OutboxRecord == [msg : Local, seq : Nat]
TabStep == {"closed", "opening", "reading", "scanning", "repairing", "normalizing",
            "ready", "saving", "resaving", "compacting", "failed"}
TabState == [step : TabStep, opened : BOOLEAN, seen : SUBSET CheckpointRecord,
             base : CheckpointRecord, doc : SUBSET Update, applied : Nat,
             pending : Local \cup {None}]

Frame == [covers : SUBSET Local, read : SUBSET Local]

EmptyBase == [seq |-> 0, doc |-> {}, ok |-> TRUE]
ClosedTab == [step |-> "closed", opened |-> FALSE, seen |-> {}, base |-> EmptyBase,
              doc |-> {}, applied |-> 0, pending |-> None]
NoFrame == [covers |-> {}, read |-> {}]

TypeOK ==
    /\ checkpoints \in SUBSET CheckpointRecord
    /\ updates \in SUBSET UpdateRecord
    /\ outbox \in SUBSET OutboxRecord
    /\ nextSequence \in Nat \ {0}
    /\ compacted \in Nat
    /\ serverBase \in BOOLEAN
    /\ lease \in Tab \cup {None}
    /\ tab \in [Tab -> TabState]
    /\ frame \in Frame
    /\ news \in SUBSET Tab
    /\ server \in SUBSET Update
    /\ sent \in SUBSET SUBSET Local
    /\ deps \in [Update -> SUBSET Update]
    /\ created \in SUBSET Update
    /\ saved \in SUBSET Update
    /\ damage \in [{"update", "checkpoint"} -> Nat]
-----------------------------------------------------------------------------
(* The log.                                                                *)

Seqs(records) == {r.seq : r \in records}
Ops(rows) == UNION {r.ops : r \in rows}
Newest(records) == CHOOSE r \in records : \A q \in records : q.seq <= r.seq
UpdatesAfter(s) == {r \in updates : r.seq > s}

\* Put under the key [graph_id, local_sequence].
PutCheckpoint(s, doc) ==
    {c \in checkpoints : c.seq # s} \cup {[seq |-> s, doc |-> doc, ok |-> TRUE]}

\* The two newest of a set of checkpoints; older ones are deleted.
NewestTwo(cs) == {c \in cs : Cardinality({d \in cs : d.seq > c.seq}) < 2}

Pinned == {o.seq : o \in outbox}

\* appendUpdate: a row whose checksum is already stored is not stored again.
Existing(ops) == {r \in updates : r.ops = ops}
SequenceFor(ops) == IF Existing(ops) = {} THEN nextSequence ELSE Newest(Existing(ops)).seq
AppendUpdate(ops) ==
    IF Existing(ops) = {}
    THEN /\ nextSequence <= MaxSequence
         /\ updates' = updates \cup {[seq |-> nextSequence, ops |-> ops, ok |-> TRUE]}
         /\ nextSequence' = nextSequence + 1
    ELSE UNCHANGED <<updates, nextSequence>>

\* installCheckpoint: rows the older retained checkpoint covers are deleted unless
\* the outbox still needs them.
InstallCheckpointUnpinned(s, doc) ==
    LET kept == NewestTwo(PutCheckpoint(s, doc))
    IN  /\ compacted <= s
        /\ s < nextSequence
        /\ checkpoints' = kept
        /\ updates' = {r \in updates : r.seq > Min(Seqs(kept))}
        /\ compacted' = s
InstallCheckpointFallbackless(s, doc) ==
    LET kept == NewestTwo(PutCheckpoint(s, doc))
    IN  /\ compacted <= s
        /\ s < nextSequence
        /\ checkpoints' = kept
        /\ updates' = {r \in updates : r.seq > s \/ r.seq \in Pinned}
        /\ compacted' = s
InstallCheckpoint(s, doc) ==
    LET kept == NewestTwo(PutCheckpoint(s, doc))
    IN  /\ compacted <= s
        /\ s < nextSequence
        /\ checkpoints' = kept
        /\ updates' = {r \in updates : r.seq > Min(Seqs(kept)) \/ r.seq \in Pinned}
        /\ compacted' = s

\* acknowledge: the outbox records go, and with them the rows that no retained
\* checkpoint needs.
Acknowledge(msgs) ==
    LET fallback == Min(Seqs(checkpoints) \cup {compacted})
        done == {o \in outbox : o.msg \in msgs}
    IN  /\ outbox' = outbox \ done
        /\ updates' = {r \in updates : r.seq > fallback \/ r.seq \notin Seqs(done)}
-----------------------------------------------------------------------------
(* Recovery: a base and the rows after it, replayed in sequence order.     *)

\* The row has its checksum and its causal dependencies.
Replays(r, b, rows) ==
    /\ r.ok
    /\ UNION {deps[u] : u \in r.ops} \subseteq
          b.doc \cup r.ops \cup Ops({q \in rows : q.seq < r.seq})

\* The rows before the first that does not replay.
ValidPrefix(b, rows) ==
    {r \in rows : \A q \in rows : q.seq <= r.seq => Replays(q, b, rows)}

Frontier(b, rows) == IF rows = {} THEN b.seq ELSE Newest(rows).seq

\* The newest undamaged checkpoint and its whole Tail.
Intact(cs) ==
    /\ cs # {}
    /\ Newest(cs).ok
    /\ LET rows == UpdatesAfter(Newest(cs).seq) IN ValidPrefix(Newest(cs), rows) = rows

Usable(cs) == {c \in cs : c.ok}

\* What opening the graph now would show.
Recoverable ==
    IF Usable(checkpoints) = {} THEN {}
    ELSE LET b == Newest(Usable(checkpoints))
         IN  b.doc \cup Ops(ValidPrefix(b, UpdatesAfter(b.seq)))
-----------------------------------------------------------------------------
At(t, step) == tab[t].step = step
Goto(t, step) == tab' = [tab EXCEPT ![t].step = step]
Holds(t) == lease = t
Opened(t) == tab[t].step \in {"ready", "saving", "resaving", "compacting"}
\* The command's first save, or a retry of it.
Saving(t) == At(t, "saving") \/ At(t, "resaving")

\* announceSaved: the tabs that follow this one hear of it, once it matters.
Announce(t) == news' = news \cup {q \in Tab : ~At(q, "closed") /\ q # t}

Init ==
    /\ checkpoints = {}
    /\ updates = {}
    /\ outbox = {}
    /\ nextSequence = 1
    /\ compacted = 0
    /\ serverBase = FALSE
    /\ lease = None
    /\ tab = [t \in Tab |-> ClosedTab]
    /\ frame = NoFrame
    /\ news = {}
    /\ server = {}
    /\ sent = {}
    /\ deps = [u \in Update |-> {}]
    /\ created = {}
    /\ saved = {}
    /\ damage = [k \in {"update", "checkpoint"} |-> 0]
-----------------------------------------------------------------------------
(* Opening: take the lease or follow its holder, then recover.             *)

OpenTab(t) ==
    /\ At(t, "closed")
    /\ Goto(t, "opening")
    /\ lease' = IF lease = None THEN t ELSE lease
    /\ UNCHANGED <<storageVars, frame, news, saved, worldVars>>

\* checkpointsDescending.
ReadCheckpoints(t) ==
    /\ At(t, "opening")
    /\ tab' = [tab EXCEPT ![t] = [ClosedTab EXCEPT !.step = "reading",
                                                   !.opened = tab[t].opened,
                                                   !.seen = checkpoints]]
    /\ UNCHANGED <<storageVars, lease, frame, news, saved, worldVars>>

\* A document built from base b and rows, recovery's result.
Recovered(t, step, b, rows) ==
    tab' = [tab EXCEPT ![t].step = step, ![t].doc = b.doc \cup Ops(rows),
                       ![t].applied = Frontier(b, rows), ![t].base = b, ![t].seen = {}]

\* recoverIntact, the common case.
RecoverIntactBaseOnly(t) ==
    LET b == Newest(tab[t].seen) IN
    /\ At(t, "reading")
    /\ Intact(tab[t].seen)
    /\ Recovered(t, "normalizing", b, {})
    /\ UNCHANGED <<storageVars, lease, frame, news, saved, worldVars>>
RecoverIntact(t) ==
    LET b == Newest(tab[t].seen) IN
    /\ At(t, "reading")
    /\ Intact(tab[t].seen)
    /\ Recovered(t, "normalizing", b, UpdatesAfter(b.seq))
    /\ UNCHANGED <<storageVars, lease, frame, news, saved, worldVars>>

\* recover: the newest checkpoint that is undamaged.
SelectBase(t) ==
    LET seen == tab[t].seen IN
    /\ At(t, "reading")
    /\ ~Intact(seen)
    /\ Usable(seen) # {}
    /\ tab' = [tab EXCEPT ![t].step = "scanning", ![t].base = Newest(Usable(seen)),
                          ![t].seen = {}]
    /\ UNCHANGED <<storageVars, lease, frame, news, saved, worldVars>>

\* recover on a log without checkpoints: a new document is its own base.
CreateBase(t) ==
    /\ At(t, "reading")
    /\ tab[t].seen = {}
    /\ InstallCheckpoint(0, {})
    /\ tab' = [tab EXCEPT ![t].step = "scanning", ![t].base = EmptyBase]
    /\ UNCHANGED <<outbox, nextSequence, serverBase, lease, frame, news, saved, worldVars>>

\* recover: replay record by record and stop at the first that does not.
ScanTail(t) ==
    LET b == tab[t].base
        rows == UpdatesAfter(b.seq)
        good == ValidPrefix(b, rows)
    IN  /\ At(t, "scanning")
        /\ Recovered(t, IF good = rows THEN "normalizing" ELSE "repairing", b, good)
        /\ UNCHANGED <<storageVars, lease, frame, news, saved, worldVars>>

\* repairCorruptTail: publish the frontier, quarantine every row after it.
RepairCorruptTailReusing(t) ==
    LET s == tab[t].applied IN
    /\ At(t, "repairing")
    /\ checkpoints' = NewestTwo(PutCheckpoint(s, tab[t].doc))
    /\ updates' = {r \in updates : r.seq <= s}
    /\ compacted' = s
    /\ nextSequence' = s + 1
    /\ Goto(t, "normalizing")
    /\ UNCHANGED <<outbox, serverBase, lease, frame, news, saved, worldVars>>
RepairCorruptTail(t) ==
    LET s == tab[t].applied IN
    /\ At(t, "repairing")
    /\ checkpoints' = NewestTwo(PutCheckpoint(s, tab[t].doc))
    /\ updates' = {r \in updates : r.seq <= s}
    /\ compacted' = s
    /\ Goto(t, "normalizing")
    /\ UNCHANGED <<outbox, nextSequence, serverBase, lease, frame, news, saved, worldVars>>

\* Every outbox record's row is there and has its checksum.
OutboxResolves == \A o \in outbox : \E r \in updates : r.seq = o.seq /\ r.ok

NormalizeOutbox(t) ==
    /\ At(t, "normalizing")
    /\ OutboxResolves
    /\ tab' = [tab EXCEPT ![t].step = "ready", ![t].opened = TRUE]
    /\ frame' = IF Holds(t) THEN NoFrame ELSE frame
    /\ UNCHANGED <<storageVars, lease, news, saved, worldVars>>

\* storage_corrupt: no checkpoint is usable, another tab compacted an empty log
\* meanwhile, or the outbox does not resolve.  A first open gives the lease back.
OpenFails(t) ==
    /\ \/ /\ At(t, "reading")
          /\ ~Intact(tab[t].seen)
          /\ Usable(tab[t].seen) = {}
          /\ tab[t].seen = {} => compacted > 0
       \/ At(t, "normalizing") /\ ~OutboxResolves
    /\ tab' = [tab EXCEPT ![t] = [ClosedTab EXCEPT !.step = "failed"]]
    /\ lease' = IF Holds(t) /\ ~tab[t].opened THEN None ELSE lease
    /\ UNCHANGED <<storageVars, frame, news, saved, worldVars>>
-----------------------------------------------------------------------------
(* A following tab.                                                        *)

\* reloadNow, after a debounced announcement.
Reload(t) ==
    /\ At(t, "ready")
    /\ ~Holds(t)
    /\ t \in news
    /\ news' = news \ {t}
    /\ Goto(t, "opening")
    /\ UNCHANGED <<storageVars, lease, frame, saved, worldVars>>

\* takeOverNow: the holder let go, so reload and start writing.
TakeOverUnloaded(t) ==
    /\ At(t, "ready")
    /\ lease = None
    /\ lease' = t
    /\ frame' = NoFrame
    /\ news' = news \ {t}
    /\ UNCHANGED <<storageVars, tab, saved, worldVars>>
TakeOver(t) ==
    /\ At(t, "ready")
    /\ lease = None
    /\ lease' = t
    /\ news' = news \ {t}
    /\ Goto(t, "opening")
    /\ UNCHANGED <<storageVars, frame, saved, worldVars>>
-----------------------------------------------------------------------------
(* The holder's lane: commands, saves, imports, maintenance.               *)

\* execute: the core applies the command; its update is pending until saved.
Execute(t, u) ==
    /\ Holds(t)
    /\ At(t, "ready")
    /\ tab[t].pending = None
    /\ serverBase
    /\ u \in Local \ created
    /\ created' = created \cup {u}
    /\ deps' = [deps EXCEPT ![u] = tab[t].doc]
    /\ tab' = [tab EXCEPT ![t].step = "saving", ![t].pending = u,
                          ![t].doc = @ \cup {u}]
    /\ UNCHANGED <<storageVars, lease, frame, news, saved, server, sent, damage>>

\* persistPending: row and outbox record in one transaction.
PersistPending(t) ==
    LET u == tab[t].pending
        s == SequenceFor({u})
    IN  /\ Saving(t)
        /\ AppendUpdate({u})
        /\ outbox' = {o \in outbox : o.msg # u} \cup {[msg |-> u, seq |-> s]}
        /\ saved' = saved \cup {u}
        /\ tab' = [tab EXCEPT ![t].step = "compacting", ![t].pending = None,
                              ![t].applied = Max({@, s})]
        /\ IF At(t, "saving") THEN Announce(t) ELSE news' = news
        /\ UNCHANGED <<checkpoints, compacted, serverBase, lease, frame, worldVars>>

\* The transaction aborts (quota, I/O): the command stays applied and unsaved.
PersistFails(t) ==
    /\ Saving(t)
    /\ Goto(t, "ready")
    /\ UNCHANGED <<storageVars, lease, frame, news, saved, worldVars>>

RetryPending(t) ==
    /\ At(t, "ready")
    /\ tab[t].pending # None
    /\ Goto(t, "resaving")
    /\ UNCHANGED <<storageVars, lease, frame, news, saved, worldVars>>

\* What the server may send: the updates a Hello of some earlier moment lacked, or
\* one broadcast; either may repeat what a previous connection delivered.
Incoming == SUBSET server \ {{}}

\* syncImport: validate, append, import.
SyncImport(t, ops) ==
    LET s == SequenceFor(ops) IN
    /\ Holds(t)
    /\ At(t, "ready")
    /\ tab[t].pending = None
    /\ serverBase
    /\ UNION {deps[u] : u \in ops} \subseteq tab[t].doc \cup ops
    /\ AppendUpdate(ops)
    /\ saved' = saved \cup ops
    /\ tab' = [tab EXCEPT ![t].step = "compacting", ![t].doc = @ \cup ops,
                          ![t].applied = Max({@, s})]
    /\ Announce(t)
    /\ UNCHANGED <<checkpoints, outbox, compacted, serverBase, lease, frame, worldVars>>

\* maybeCompact: enough rows since the last checkpoint, and the core has some.
CompactionDue(t) ==
    /\ Cardinality(UpdatesAfter(compacted)) >= CompactTailUpdates
    /\ tab[t].applied > compacted

MaybeCompact(t) ==
    /\ At(t, "compacting")
    /\ CompactionDue(t)
    /\ InstallCheckpoint(tab[t].applied, tab[t].doc)
    /\ Goto(t, "ready")
    /\ UNCHANGED <<outbox, nextSequence, serverBase, lease, frame, news, saved, worldVars>>

\* Nothing is due, or maintenance fails: the save stands.
CompactionSkipped(t) ==
    /\ At(t, "compacting")
    /\ Goto(t, "ready")
    /\ UNCHANGED <<storageVars, lease, frame, news, saved, worldVars>>

\* replaceHistory: the server's document is the only checkpoint, the Tail is empty.
ReplaceHistory ==
    /\ checkpoints' = {[seq |-> nextSequence - 1, doc |-> server, ok |-> TRUE]}
    /\ updates' = {}
    /\ compacted' = nextSequence - 1
    /\ serverBase' = TRUE
    /\ UNCHANGED <<outbox, nextSequence>>

\* syncReplace: a replica without a server Base adopts the server's document.
SyncReplace(t) ==
    /\ Holds(t)
    /\ At(t, "ready")
    /\ tab[t].pending = None
    /\ ~serverBase
    /\ outbox = {}
    /\ ReplaceHistory
    /\ saved' = saved \cup server
    /\ tab' = [tab EXCEPT ![t].doc = server, ![t].applied = nextSequence - 1]
    /\ Announce(t)
    /\ UNCHANGED <<lease, frame, worldVars>>
-----------------------------------------------------------------------------
(* The outbox, read and acknowledged beside the lane.                      *)

\* syncNextFrame, its read: the oldest pending records travel together.
ReadOutbox(t) ==
    /\ Holds(t)
    /\ Opened(t)
    /\ frame.read = {}
    /\ outbox # {}
    /\ OutboxResolves
    /\ \E last \in outbox :
          frame' = [frame EXCEPT !.read = {o.msg : o \in {p \in outbox : p.seq <= last.seq}}]
    /\ UNCHANGED <<storageVars, lease, tab, news, saved, worldVars>>

\* syncNextFrame, once the records are merged and their checksum is known: the new
\* frame replaces one of a connection that was abandoned, and is sent.
SyncNextFrame(t) ==
    /\ Holds(t)
    /\ Opened(t)
    /\ frame.read # {}
    /\ frame' = [covers |-> frame.read, read |-> {}]
    /\ sent' = sent \cup {frame.read}
    /\ UNCHANGED <<storageVars, lease, tab, news, saved, server, deps, created, damage>>

\* The server accepts a frame, once or again, if it has its dependencies; it may
\* never arrive.
ServerAccepts(f) ==
    /\ UNION {deps[u] : u \in f} \subseteq server \cup f
    /\ server' = server \cup f
    /\ UNCHANGED <<storageVars, lease, tab, frame, news, saved, sent, deps, created, damage>>

\* Another replica that has caught up with the server edits the graph.
ForeignEdit(u) ==
    /\ u \in Foreign \ created
    /\ created' = created \cup {u}
    /\ deps' = [deps EXCEPT ![u] = server]
    /\ server' = server \cup {u}
    /\ UNCHANGED <<storageVars, lease, tab, frame, news, saved, sent, damage>>

\* What an acknowledgement of the frame m retires: what the frame in flight covers,
\* if that is its message id; for any other id the record it names, if it is one.
CoversFlight(m) == IF frame.covers # {} THEN frame.covers ELSE m
Covers(m) == IF m = frame.covers \/ Cardinality(m) = 1 THEN m ELSE {}

\* syncAck: the server acknowledged m, a frame it has, on this connection or on one
\* abandoned since, for the first time or again.
SyncAck(t, m) ==
    /\ Holds(t)
    /\ Opened(t)
    /\ m \subseteq server
    /\ Acknowledge(Covers(m))
    /\ frame' = IF m = frame.covers THEN [frame EXCEPT !.covers = {}] ELSE frame
    /\ UNCHANGED <<checkpoints, nextSequence, compacted, serverBase, lease, tab, news,
                   saved, worldVars>>
-----------------------------------------------------------------------------
(* The end of a tab, and damage to the medium.                             *)

\* closeNow: the holder compacts if it can; unsaved work is kept elsewhere.
CloseTab(t) ==
    /\ At(t, "ready") \/ At(t, "failed")
    /\ \/ UNCHANGED <<checkpoints, updates, compacted>>
       \/ /\ At(t, "ready")
          /\ Holds(t)
          /\ tab[t].pending = None
          /\ tab[t].applied > compacted
          /\ InstallCheckpoint(tab[t].applied, tab[t].doc)
    /\ tab' = [tab EXCEPT ![t] = ClosedTab]
    /\ lease' = IF Holds(t) THEN None ELSE lease
    /\ frame' = IF Holds(t) THEN NoFrame ELSE frame
    /\ news' = news \ {t}
    /\ UNCHANGED <<outbox, nextSequence, serverBase, saved, worldVars>>

\* The tab or the browser dies; its lock is released with it.
CrashTab(t) ==
    /\ ~At(t, "closed")
    /\ tab' = [tab EXCEPT ![t] = ClosedTab]
    /\ lease' = IF Holds(t) THEN None ELSE lease
    /\ frame' = IF Holds(t) THEN NoFrame ELSE frame
    /\ news' = news \ {t}
    /\ UNCHANGED <<storageVars, saved, worldVars>>

DamageUpdate ==
    /\ damage["update"] < MaxCorruptUpdates
    /\ \E r \in updates :
          /\ r.ok
          /\ updates' = (updates \ {r}) \cup {[r EXCEPT !.ok = FALSE]}
    /\ damage' = [damage EXCEPT !["update"] = @ + 1]
    /\ UNCHANGED <<checkpoints, outbox, nextSequence, compacted, serverBase, lease,
                   tab, frame, news, saved, server, sent, deps, created>>

\* A retained checkpoint is damaged while another one is usable; with none left
\* opening fails by design.
DamageCheckpoint ==
    /\ damage["checkpoint"] < MaxCorruptCheckpoints
    /\ \E c \in Usable(checkpoints) :
          /\ Usable(checkpoints) # {c}
          /\ checkpoints' = (checkpoints \ {c}) \cup {[c EXCEPT !.ok = FALSE]}
    /\ damage' = [damage EXCEPT !["checkpoint"] = @ + 1]
    /\ UNCHANGED <<updates, outbox, nextSequence, compacted, serverBase, lease, tab,
                   frame, news, saved, server, sent, deps, created>>
-----------------------------------------------------------------------------
TabAction(t) ==
    \/ OpenTab(t)
    \/ ReadCheckpoints(t)
    \/ RecoverIntact(t)
    \/ SelectBase(t)
    \/ CreateBase(t)
    \/ ScanTail(t)
    \/ RepairCorruptTail(t)
    \/ NormalizeOutbox(t)
    \/ OpenFails(t)
    \/ Reload(t)
    \/ TakeOver(t)
    \/ \E u \in Local : Execute(t, u)
    \/ PersistPending(t)
    \/ PersistFails(t)
    \/ RetryPending(t)
    \/ \E ops \in Incoming : SyncImport(t, ops)
    \/ MaybeCompact(t)
    \/ CompactionSkipped(t)
    \/ SyncReplace(t)
    \/ ReadOutbox(t)
    \/ SyncNextFrame(t)
    \/ \E m \in sent : SyncAck(t, m)
    \/ CloseTab(t)
    \/ CrashTab(t)

Next ==
    \/ \E t \in Tab : TabAction(t)
    \/ \E f \in sent : ServerAccepts(f)
    \/ \E u \in Foreign : ForeignEdit(u)
    \/ DamageUpdate
    \/ DamageCheckpoint

Spec == Init /\ [][Next]_vars
-----------------------------------------------------------------------------
(* Properties.                                                             *)

\* Whatever the user was told is saved, a restart recovers, after any crash,
\* compaction, acknowledgement, failed save or damaged checkpoint.
SavedIsRecoverable == saved \subseteq Recoverable

\* Unacknowledged outbox entries pin their exact Tail payloads, however far
\* compaction has gone: what is left to send can be sent.
OutboxPinned ==
    \A o \in outbox : \E r \in updates : r.seq = o.seq /\ r.ops = {o.msg}

\* An acknowledgement retires nothing the server does not have, whichever frame it
\* is of: one sent before a reconnection and answered after the next frame took its
\* place, one acknowledged twice, or one a compaction or a newer record crossed.
UnsentIsQueued ==
    saved \cap Local \subseteq server \cup {o.msg : o \in outbox}

\* Operations of one replica are numbered by their position in its own history.
\* No two updates that outlive a tab share a position, although a crash may
\* discard an update and the next tab continues under the same replica id.
Position(u) == Cardinality(deps[u] \cap Local)
OneUpdatePerPosition ==
    \A u, v \in (server \cup saved) \cap Local : Position(u) = Position(v) => u = v

\* The holder never works on a replica that is behind its own log: what storage
\* would recover is in its document, also right after it took the lease over.
HolderIsCurrent ==
    \A t \in Tab : Holds(t) /\ Opened(t) => Recoverable \subseteq tab[t].doc

\* Local sequences are never reused, although recovery deletes a damaged suffix:
\* a row keeps its operations and a new one gets a number no row has had.
TakesFreshSequences ==
    /\ nextSequence <= nextSequence'
    /\ \A r \in updates' : \/ \E q \in updates : q.seq = r.seq /\ q.ops = r.ops
                           \/ r.seq >= nextSequence
SequencesAreFresh == [][TakesFreshSequences]_vars
=============================================================================
