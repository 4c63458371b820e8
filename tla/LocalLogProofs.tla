--------------------------- MODULE LocalLogProofs ---------------------------
(***************************************************************************)
(* What holds of the browser's log for any number of tabs and updates and  *)
(* any compaction threshold.  What is queued for the server and how rows   *)
(* are numbered needs no assumption.  What a restart recovers is proved    *)
(* for a medium that keeps its rows, where only the lease holder writes    *)
(* during recovery; a single tab needs no assumption on who writes.        *)
(***************************************************************************)
EXTENDS LocalLog, FiniteSetTheorems, TLAPS

\* What leaves the two sets that UnsentIsQueued relates alone, or only adds to
\* the side that may grow, preserves it.
LEMMA QueueKept ==
    ASSUME UnsentIsQueued, saved' = saved, outbox' = outbox, server \subseteq server'
    PROVE  UnsentIsQueued'
  BY DEF UnsentIsQueued

\* acknowledge retires nothing the server lacks.
LEMMA AcknowledgeKeeps ==
    ASSUME UnsentIsQueued, NEW msgs, msgs \subseteq server, Acknowledge(msgs),
           saved' = saved, server' = server
    PROVE  UnsentIsQueued'
  BY DEF UnsentIsQueued, Acknowledge

\* persistPending records the update and its outbox entry in one transaction.
LEMMA PersistKeeps ==
    ASSUME UnsentIsQueued, NEW t \in Tab, PersistPending(t)
    PROVE  UnsentIsQueued'
  <1> DEFINE u == tab[t].pending
             s == SequenceFor({u})
  <1>1. /\ outbox' = {o \in outbox : o.msg # u} \cup {[msg |-> u, seq |-> s]}
        /\ saved' = saved \cup {u}
        /\ server' = server
    BY DEF PersistPending, worldVars
  <1> HIDE DEF s
  <1>2. u \in {q.msg : q \in outbox'}
    <2>1. [msg |-> u, seq |-> s] \in outbox' /\ [msg |-> u, seq |-> s].msg = u
      BY <1>1
    <2> QED
      BY <2>1
  <1>3. ASSUME NEW o \in outbox PROVE o.msg \in {q.msg : q \in outbox'}
    <2>1. CASE o.msg = u
      BY <1>2, <2>1
    <2>2. CASE o.msg # u
      <3>1. o \in outbox'
        BY <1>1, <2>2
      <3> QED
        BY <3>1
    <2> QED
      BY <2>1, <2>2
  <1> QED
    BY <1>1, <1>2, <1>3 DEF UnsentIsQueued

\* Every step of a tab keeps what is saved here either queued or at the server.
LEMMA TabKeeps ==
    ASSUME UnsentIsQueued, NEW t \in Tab, TabAction(t)
    PROVE  UnsentIsQueued'
  <1>1. CASE PersistPending(t)
    BY <1>1, PersistKeeps
  <1>2. CASE \E m \in sent : SyncAck(t, m)
    <2>1. PICK m \in sent : SyncAck(t, m)
      BY <1>2
    <2>2. /\ Covers(m) \subseteq server /\ Acknowledge(Covers(m))
          /\ saved' = saved /\ server' = server
      BY <2>1 DEF SyncAck, Covers, worldVars
    <2> QED
      BY <2>2, AcknowledgeKeeps
  <1>3. CASE \E ops \in Incoming : SyncImport(t, ops)
    <2>1. PICK ops \in Incoming : SyncImport(t, ops)
      BY <1>3
    <2>2. ops \subseteq server /\ saved' = saved \cup ops /\ outbox' = outbox /\ server' = server
      BY <2>1 DEF Incoming, SyncImport, worldVars
    <2> QED
      BY <2>2 DEF UnsentIsQueued
  <1>4. CASE SyncReplace(t)
    <2>1. saved' = saved \cup server /\ outbox' = outbox /\ server' = server
      BY <1>4 DEF SyncReplace, ReplaceHistory, worldVars
    <2> QED
      BY <2>1 DEF UnsentIsQueued
  <1>5. CASE ReadOutbox(t) \/ SyncNextFrame(t)
    <2>1. saved' = saved /\ outbox' = outbox /\ server' = server
      BY <1>5 DEF ReadOutbox, SyncNextFrame, storageVars, worldVars
    <2> QED
      BY <2>1, QueueKept
  <1>6. CASE \E u \in Local : Execute(t, u)
    <2>1. saved' = saved /\ outbox' = outbox /\ server' = server
      BY <1>6 DEF Execute, storageVars
    <2> QED
      BY <2>1, QueueKept
  <1>7. CASE \/ OpenTab(t) \/ ReadCheckpoints(t) \/ RecoverIntact(t) \/ SelectBase(t)
             \/ CreateBase(t) \/ ScanTail(t) \/ RepairCorruptTail(t) \/ NormalizeOutbox(t)
             \/ OpenFails(t) \/ Reload(t) \/ TakeOver(t)
    <2>1. saved' = saved /\ outbox' = outbox /\ server' = server
      BY <1>7 DEF OpenTab, ReadCheckpoints, RecoverIntact, SelectBase, CreateBase, ScanTail,
                  RepairCorruptTail, NormalizeOutbox, OpenFails, Reload, TakeOver,
                  storageVars, worldVars
    <2> QED
      BY <2>1, QueueKept
  <1>8. CASE \/ PersistFails(t) \/ RetryPending(t) \/ MaybeCompact(t) \/ CompactionSkipped(t)
             \/ CloseTab(t) \/ CrashTab(t)
    <2>1. saved' = saved /\ outbox' = outbox /\ server' = server
      BY <1>8 DEF PersistFails, RetryPending, MaybeCompact, CompactionSkipped,
                  CloseTab, CrashTab, storageVars, worldVars
    <2> QED
      BY <2>1, QueueKept
  <1> QED
    BY <1>1, <1>2, <1>3, <1>4, <1>5, <1>6, <1>7, <1>8 DEF TabAction

\* Whatever the tabs, the transport, the server and the medium do, an update of
\* this replica that the user was told is saved stays in the outbox until the
\* server has accepted it: syncAck, and only it, retires outbox records.
THEOREM UnsentCorrect == Spec => []UnsentIsQueued
  <1>1. Init => UnsentIsQueued
    BY DEF Init, UnsentIsQueued
  <1>2. UnsentIsQueued /\ [Next]_vars => UnsentIsQueued'
    <2> SUFFICES ASSUME UnsentIsQueued, [Next]_vars PROVE UnsentIsQueued'
      OBVIOUS
    <2>1. CASE \E t \in Tab : TabAction(t)
      BY <2>1, TabKeeps
    <2>2. CASE \E f \in sent : ServerAccepts(f)
      <3>1. saved' = saved /\ outbox' = outbox /\ server \subseteq server'
        BY <2>2 DEF ServerAccepts, storageVars
      <3> QED
        BY <3>1, QueueKept
    <2>3. CASE \E u \in Foreign : ForeignEdit(u)
      <3>1. saved' = saved /\ outbox' = outbox /\ server \subseteq server'
        BY <2>3 DEF ForeignEdit, storageVars
      <3> QED
        BY <3>1, QueueKept
    <2>4. CASE DamageUpdate \/ DamageCheckpoint \/ UNCHANGED vars
      <3>1. saved' = saved /\ outbox' = outbox /\ server' = server
        BY <2>4 DEF DamageUpdate, DamageCheckpoint, vars
      <3> QED
        BY <3>1, QueueKept
    <2> QED
      BY <2>1, <2>2, <2>3, <2>4 DEF Next
  <1> QED
    BY <1>1, <1>2, PTL DEF Spec

\* What syncNextFrame reads from the outbox, and may put on a wire steps later, is
\* saved.
ReadIsSaved ==
    /\ frame.read \subseteq saved
    /\ \A o \in outbox : o.msg \in saved

LEMMA ReadStep == ReadIsSaved /\ [Next]_vars => ReadIsSaved'
  <1> SUFFICES ASSUME ReadIsSaved, [Next]_vars PROVE ReadIsSaved'
    OBVIOUS
  <1> USE DEF ReadIsSaved
  <1>1. ASSUME saved \subseteq saved', outbox' \subseteq outbox, frame'.read \in {frame.read, {}}
        PROVE  ReadIsSaved'
    BY <1>1
  <1>2. ASSUME saved \subseteq saved', outbox' = outbox, frame' = frame
        PROVE  ReadIsSaved'
    BY <1>2
  <1>3. CASE \E t \in Tab : TabAction(t)
    <2>1. PICK t \in Tab : TabAction(t)
      BY <1>3
    <2>2. CASE PersistPending(t)
      <3>1. /\ outbox' = {o \in outbox : o.msg # tab[t].pending}
                 \cup {[msg |-> tab[t].pending, seq |-> SequenceFor({tab[t].pending})]}
            /\ saved' = saved \cup {tab[t].pending} /\ frame' = frame
        BY <2>2 DEF PersistPending
      <3> QED
        BY <3>1
    <2>3. CASE ReadOutbox(t)
      <3>1. PICK last \in outbox :
                frame' = [frame EXCEPT !.read = {o.msg : o \in {p \in outbox : p.seq <= last.seq}}]
        BY <2>3 DEF ReadOutbox
      <3>2. saved' = saved /\ outbox' = outbox
        BY <2>3 DEF ReadOutbox, storageVars
      <3>3. frame'.read \in {frame.read, {o.msg : o \in {p \in outbox : p.seq <= last.seq}}}
        BY <3>1
      <3> QED
        BY <3>2, <3>3
    <2>4. CASE SyncNextFrame(t)
      <3>1. saved' = saved /\ outbox' = outbox /\ frame'.read = {}
        BY <2>4 DEF SyncNextFrame, storageVars
      <3> QED
        BY <1>1, <3>1
    <2>5. CASE \E m \in sent : SyncAck(t, m)
      <3>1. PICK m \in sent : SyncAck(t, m)
        BY <2>5
      <3>2. saved' = saved /\ outbox' \subseteq outbox
        BY <3>1 DEF SyncAck, Acknowledge
      <3>3. frame'.read = frame.read
        BY <3>1 DEF SyncAck
      <3> QED
        BY <1>1, <3>2, <3>3
    <2>6. CASE NormalizeOutbox(t) \/ CloseTab(t) \/ CrashTab(t)
      <3>1. saved' = saved /\ outbox' = outbox /\ frame' \in {frame, NoFrame}
        BY <2>6 DEF NormalizeOutbox, CloseTab, CrashTab, storageVars
      <3>2. frame'.read \in {frame.read, {}}
        BY <3>1 DEF NoFrame
      <3> QED
        BY <1>1, <3>1, <3>2
    <2>7. CASE \/ OpenTab(t) \/ ReadCheckpoints(t) \/ RecoverIntact(t) \/ SelectBase(t)
               \/ CreateBase(t) \/ ScanTail(t) \/ RepairCorruptTail(t) \/ OpenFails(t)
               \/ Reload(t) \/ TakeOver(t) \/ PersistFails(t) \/ RetryPending(t)
               \/ MaybeCompact(t) \/ CompactionSkipped(t) \/ (\E u \in Local : Execute(t, u))
      <3>1. saved' = saved /\ outbox' = outbox /\ frame' = frame
        BY <2>7 DEF OpenTab, ReadCheckpoints, RecoverIntact, SelectBase, CreateBase, ScanTail,
                    RepairCorruptTail, OpenFails, Reload, TakeOver, PersistFails, RetryPending,
                    MaybeCompact, CompactionSkipped, Execute, storageVars
      <3> QED
        BY <1>2, <3>1
    <2>8. CASE SyncReplace(t) \/ (\E ops \in Incoming : SyncImport(t, ops))
      <3>1. saved \subseteq saved' /\ outbox' = outbox /\ frame' = frame
        BY <2>8 DEF SyncReplace, ReplaceHistory, SyncImport
      <3> QED
        BY <1>2, <3>1
    <2> QED
      BY <2>1, <2>2, <2>3, <2>4, <2>5, <2>6, <2>7, <2>8 DEF TabAction
  <1>4. CASE ~\E t \in Tab : TabAction(t)
    <2>1. saved' = saved /\ outbox' = outbox /\ frame' = frame
      BY <1>4 DEF Next, ServerAccepts, ForeignEdit, DamageUpdate, DamageCheckpoint, storageVars, vars
    <2> QED
      BY <1>2, <2>1
  <1> QED
    BY <1>3, <1>4

LEMMA ReadAlways == Spec => []ReadIsSaved
  <1>1. Init => ReadIsSaved
    BY DEF Init, ReadIsSaved, NoFrame
  <1> QED
    BY <1>1, ReadStep, PTL DEF Spec
-----------------------------------------------------------------------------
(* A step of recovery that creates a base or repairs the Tail is the       *)
(* holder's, and no row is damaged; checkpoints may be.                    *)

HolderRecovers == \A t \in Tab : CreateBase(t) \/ RepairCorruptTail(t) => Holds(t)
RowsAreKept == MaxCorruptUpdates = 0

\* What a checkpoint and the rows after it restore.
Restores(c) == c.doc \cup Ops(UpdatesAfter(c.seq))

\* A new log is empty until its base is created, and holds nothing of the user's
\* until it has the server's Base.
StartsEmpty ==
    /\ checkpoints = {} => updates = {} /\ outbox = {} /\ compacted = 0 /\ ~serverBase
    /\ ~serverBase => saved = {} /\ updates = {} /\ outbox = {}

\* Sequences identify rows and checkpoints, and the newest checkpoint is the last.
Numbered ==
    /\ \A r \in updates : r.ok /\ r.seq < nextSequence
    /\ \A r, q \in updates : r.seq = q.seq => r = q
    /\ \A c \in checkpoints : c.seq <= compacted
    /\ \A c, d \in checkpoints : c.seq = d.seq => c = d
    /\ compacted < nextSequence
    /\ checkpoints # {} => Usable(checkpoints) # {}

\* Every checkpoint restores the same log, with everything that was saved, and every
\* row after it finds its dependencies.
Agree == \A c, d \in checkpoints : Restores(c) = Restores(d)
Complete == \A c \in checkpoints : saved \subseteq Restores(c) /\ Ops(updates) \subseteq Restores(c)
Replayable == \A c \in checkpoints : \A r \in UpdatesAfter(c.seq) : Replays(r, c, UpdatesAfter(c.seq))

\* Only updates that were made are anywhere.
Made ==
    /\ server \subseteq created /\ saved \subseteq created /\ IsFiniteSet(created)
    /\ \A c \in checkpoints : Restores(c) \subseteq created
    /\ \A f \in sent : f \subseteq saved
    /\ \A o \in outbox : o.msg \in saved
    /\ server \cap Local \subseteq saved
    /\ \A c \in checkpoints : Restores(c) \cap Local \subseteq saved

\* A tab that has not finished opening has no command to save, and read no
\* checkpoint that is not numbered before the next row.
Opens(t) ==
    /\ tab[t].step \in {"reading", "scanning", "repairing", "normalizing"} => tab[t].pending = None
    /\ \A c \in tab[t].seen : c.seq < nextSequence

\* Only the holder saves, and gets to save again what it could not.
Holding(t) ==
    tab[t].step \in {"saving", "resaving", "compacting"} \/ (At(t, "ready") /\ tab[t].pending # None)
        => Holds(t)

\* What the holder knows of the log.
ReadingNow(t) ==
    At(t, "reading") =>
        /\ \A c \in tab[t].seen : \E d \in checkpoints : d.seq = c.seq /\ d.doc = c.doc
        /\ tab[t].seen = {} => checkpoints = {}
        /\ tab[t].seen # {} => Usable(tab[t].seen) # {}
ScanningNow(t) ==
    At(t, "scanning") => \E d \in checkpoints : d.seq = tab[t].base.seq /\ d.doc = tab[t].base.doc
Unsaved(t) == {tab[t].pending} \ {None}
Working(t) == tab[t].step \in {"normalizing", "ready", "saving", "resaving", "compacting"}
WorkingNow(t) ==
    Working(t) =>
        /\ checkpoints # {}
        /\ \A c \in checkpoints : tab[t].doc = Restores(c) \cup Unsaved(t)
        /\ tab[t].applied < nextSequence /\ \A r \in updates : r.seq <= tab[t].applied
        /\ At(t, "compacting") => tab[t].pending = None
        /\ tab[t].step \in {"saving", "resaving"} => tab[t].pending # None
        /\ tab[t].pending # None =>
              /\ serverBase /\ tab[t].pending \in created
              /\ \A c \in checkpoints : deps[tab[t].pending] = Restores(c) /\ tab[t].pending \notin Restores(c)
Recovers(t) == ReadingNow(t) /\ ScanningNow(t) /\ WorkingNow(t) /\ ~At(t, "repairing") /\ ~At(t, "closed")
SessionOf(t) == Opens(t) /\ Holding(t) /\ (Holds(t) => Recovers(t))
Sessions == \A t \in Tab : SessionOf(t)

\* Of two saved updates of this replica one was made on top of the other.
Chained ==
    /\ \A u \in saved \cap Local : u \notin deps[u] /\ deps[u] \cap Local \subseteq saved
    /\ \A u, v \in saved \cap Local : u # v => u \in deps[v] \/ v \in deps[u]
    /\ \A u, v \in saved \cap Local : u \in deps[v] => deps[u] \cap Local \subseteq deps[v]

Store ==
    /\ StartsEmpty /\ Numbered /\ Agree /\ Complete /\ Replayable /\ OutboxPinned
    /\ Made /\ Chained
LogInv == TypeOK /\ Store /\ Sessions
-----------------------------------------------------------------------------
(* Numbers.                                                                *)

LEMMA Least ==
    ASSUME NEW T, T \subseteq Nat, T # {}
    PROVE  \E x \in T : \A y \in T : x <= y
  <1> DEFINE below == {ss \in Nat \X Nat : ss[1] < ss[2]}
  <1>1. IsWellFoundedOn(below, Nat)
    BY NatLessThanWellFounded, Zenon DEF OpToRel
  <1>2. \E x \in T : \A y \in T : ~ (<<y, x>> \in below)
    <2> HIDE DEF below
    <2> QED
      BY <1>1, WFMin
  <1>3. \A x, y \in Nat : y < x => <<y, x>> \in below
    OBVIOUS
  <1>4. \A x, y \in Nat : ~(y < x) => x <= y
    OBVIOUS
  <1> HIDE DEF below
  <1> QED
    BY <1>2, <1>3, <1>4

LEMMA MinIs ==
    ASSUME NEW T, T \subseteq Nat, T # {}
    PROVE  Min(T) \in T /\ \A y \in T : Min(T) <= y
  <1>1. \E x \in T : \A y \in T : x <= y
    BY Least
  <1> QED
    BY <1>1 DEF Min

LEMMA MaxOfTwo ==
    ASSUME NEW a \in Nat, NEW b \in Nat
    PROVE  Max({a, b}) = IF a <= b THEN b ELSE a
  <1>1. \E x \in {a, b} : \A y \in {a, b} : x >= y
    OBVIOUS
  <1>2. Max({a, b}) \in {a, b} /\ \A y \in {a, b} : Max({a, b}) >= y
    BY <1>1 DEF Max
  <1> QED
    BY <1>2

\* Newest is defined on records numbered below a bound.
LEMMA NewestIs ==
    ASSUME NEW S, S # {}, NEW m \in Nat, \A r \in S : r.seq \in Nat /\ r.seq < m
    PROVE  Newest(S) \in S /\ \A q \in S : q.seq <= Newest(S).seq
  <1> DEFINE T == {k \in Nat : \E r \in S : r.seq + k = m}
  <1>1. T \subseteq Nat
    OBVIOUS
  <1>3. T # {}
    <2>1. PICK r \in S : TRUE
      OBVIOUS
    <2>2. m - r.seq \in Nat /\ r.seq + (m - r.seq) = m
      BY <2>1
    <2>3. m - r.seq \in T
      BY <2>2
    <2> QED
      BY <2>3
  <1>2. PICK k \in T : \A j \in T : k <= j
    BY <1>1, <1>3, Least
  <1>4. PICK r \in S : r.seq + k = m
    BY <1>2
  <1>5. \A q \in S : q.seq <= r.seq
    <2> SUFFICES ASSUME NEW q \in S PROVE q.seq <= r.seq
      OBVIOUS
    <2>1. m - q.seq \in T
      OBVIOUS
    <2>2. k <= m - q.seq
      BY <1>2, <2>1
    <2> QED
      BY <1>4, <2>2
  <1> QED
    BY <1>4, <1>5 DEF Newest
-----------------------------------------------------------------------------
(* The log's records, member by member.                                    *)

LEMMA Kinds ==
    ASSUME TypeOK
    PROVE  /\ \A c \in checkpoints : c \in CheckpointRecord /\ c.seq \in Nat /\ c.doc \subseteq Update /\ c.ok \in BOOLEAN
           /\ \A r \in updates : r \in UpdateRecord /\ r.seq \in Nat /\ r.ops \subseteq Update /\ r.ok \in BOOLEAN
           /\ \A o \in outbox : o.msg \in Local /\ o.seq \in Nat
           /\ nextSequence \in Nat /\ nextSequence > 0 /\ compacted \in Nat /\ tab \in [Tab -> TabState]
  <1>1. \A c \in checkpoints : c \in CheckpointRecord /\ c.seq \in Nat /\ c.doc \subseteq Update /\ c.ok \in BOOLEAN
    BY DEF TypeOK, CheckpointRecord
  <1>2. \A r \in updates : r \in UpdateRecord /\ r.seq \in Nat /\ r.ops \subseteq Update /\ r.ok \in BOOLEAN
    BY DEF TypeOK, UpdateRecord
  <1>3. \A o \in outbox : o.msg \in Local /\ o.seq \in Nat
    BY DEF TypeOK, OutboxRecord
  <1>4. nextSequence \in Nat /\ nextSequence > 0 /\ compacted \in Nat /\ tab \in [Tab -> TabState]
    BY DEF TypeOK
  <1> QED
    BY <1>1, <1>2, <1>3, <1>4

LEMMA TabKinds ==
    ASSUME TypeOK, NEW t \in Tab
    PROVE  /\ tab[t] \in TabState /\ tab[t].step \in TabStep /\ tab[t].opened \in BOOLEAN
           /\ tab[t].applied \in Nat /\ tab[t].doc \subseteq Update /\ tab[t].pending \in Local \cup {None}
           /\ tab[t].base \in CheckpointRecord /\ tab[t].base.seq \in Nat /\ tab[t].base.doc \subseteq Update
           /\ \A c \in tab[t].seen : c \in CheckpointRecord /\ c.seq \in Nat /\ c.doc \subseteq Update
  <1>1. tab[t] \in TabState
    BY DEF TypeOK
  <1> QED
    BY <1>1 DEF TabState, CheckpointRecord

\* Rows of which none is damaged, with their dependencies, replay to the last.
LEMMA AllReplay ==
    ASSUME Replayable, NEW c \in checkpoints, NEW b, b.seq = c.seq, b.doc = c.doc
    PROVE  ValidPrefix(b, UpdatesAfter(b.seq)) = UpdatesAfter(b.seq)
  <1>1. \A r \in UpdatesAfter(c.seq) : Replays(r, b, UpdatesAfter(c.seq))
    BY DEF Replayable, Replays
  <1> QED
    BY <1>1 DEF ValidPrefix

\* The frontier of rows after a base is at least every row's sequence.
LEMMA FrontierIs ==
    ASSUME TypeOK, NEW b, b.seq \in Nat, NEW rows, rows \subseteq UpdatesAfter(b.seq), \A r \in updates : r.seq < nextSequence
    PROVE  /\ Frontier(b, rows) \in Nat
           /\ b.seq < nextSequence => Frontier(b, rows) < nextSequence
           /\ rows = UpdatesAfter(b.seq) => \A r \in updates : r.seq <= Frontier(b, rows)
  <1>1. \A r \in rows : r \in updates /\ r.seq \in Nat /\ r.seq < nextSequence /\ r.seq > b.seq
    BY Kinds DEF UpdatesAfter
  <1>2. nextSequence \in Nat
    BY Kinds
  <1>3. CASE rows = {}
    <2>1. \A r \in updates : r.seq \in Nat /\ (rows = UpdatesAfter(b.seq) => ~(r.seq > b.seq))
      BY <1>3, Kinds DEF UpdatesAfter
    <2> QED
      BY <1>3, <2>1 DEF Frontier
  <1>4. CASE rows # {}
    <2>1. Newest(rows) \in rows /\ \A q \in rows : q.seq <= Newest(rows).seq
      BY <1>1, <1>2, <1>4, NewestIs
    <2>2. Frontier(b, rows) = Newest(rows).seq
      BY <1>4 DEF Frontier
    <2>3. \A r \in updates : r.seq \in Nat /\ (r.seq > b.seq => r \in UpdatesAfter(b.seq))
      BY Kinds DEF UpdatesAfter
    <2> QED
      BY <1>1, <1>2, <2>1, <2>2, <2>3
  <1> QED
    BY <1>3, <1>4
-----------------------------------------------------------------------------
(* Transactions on the log.                                                *)

\* What a document is made of, beside the rows and checkpoints.
historyVars == <<saved, server, sent, deps, created>>

LEMMA StoreKept ==
    ASSUME Store, UNCHANGED <<storageVars, historyVars>>
    PROVE  Store' /\ \A c : Restores(c)' = Restores(c)
  <1>1. UNCHANGED <<checkpoints, updates, outbox, nextSequence, compacted, serverBase,
                    saved, server, sent, deps, created>>
    BY DEF storageVars, historyVars
  <1>2. \A c : Restores(c)' = Restores(c)
    BY <1>1 DEF Restores, Ops, UpdatesAfter
  <1>3. StartsEmpty' /\ Numbered' /\ OutboxPinned'
    BY <1>1 DEF Store, StartsEmpty, Numbered, OutboxPinned, Usable
  <1>4. Agree' /\ Complete' /\ Made'
    BY <1>1, <1>2 DEF Store, Agree, Complete, Made, Ops
  <1>5. Replayable' /\ Chained'
    BY <1>1 DEF Store, Replayable, Replays, Chained, UpdatesAfter, Ops
  <1> QED
    BY <1>2, <1>3, <1>4, <1>5 DEF Store

\* installCheckpoint of the document the log restores.
LEMMA InstallStore ==
    ASSUME TypeOK, Store, checkpoints # {}, NEW s \in Nat, NEW doc, doc \subseteq Update,
           \A c \in checkpoints : doc = Restores(c), \A r \in updates : r.seq <= s,
           InstallCheckpoint(s, doc),
           UNCHANGED <<outbox, nextSequence, serverBase, historyVars>>
    PROVE  /\ Store' /\ checkpoints' # {} /\ \A c \in checkpoints' : Restores(c)' = doc
           /\ updates' \subseteq updates
           /\ checkpoints' \in SUBSET CheckpointRecord /\ updates' \in SUBSET UpdateRecord /\ compacted' \in Nat
  <1> DEFINE new == [seq |-> s, doc |-> doc, ok |-> TRUE]
             kept == NewestTwo(PutCheckpoint(s, doc))
  <1>1. /\ compacted <= s /\ s < nextSequence /\ checkpoints' = kept /\ compacted' = s
        /\ updates' = {r \in updates : r.seq > Min(Seqs(kept)) \/ r.seq \in Pinned}
    BY DEF InstallCheckpoint
  <1>2. new.seq = s /\ new.doc = doc /\ new.ok = TRUE /\ new \in CheckpointRecord
    BY DEF CheckpointRecord
  <1>3. \A c \in checkpoints : c \in CheckpointRecord /\ c.seq \in Nat /\ c.seq <= compacted /\ compacted \in Nat
    BY Kinds DEF Store, Numbered
  <1>4. PutCheckpoint(s, doc) = {c \in checkpoints : c.seq # s} \cup {new}
    BY DEF PutCheckpoint
  <1> HIDE DEF new
  <1>5. kept \subseteq {c \in checkpoints : c.seq # s} \cup {new}
    BY <1>4 DEF NewestTwo
  <1>6. new \in kept
    <2>1. {d \in PutCheckpoint(s, doc) : d.seq > new.seq} = {}
      BY <1>1, <1>2, <1>3, <1>4
    <2>3. Cardinality({d \in PutCheckpoint(s, doc) : d.seq > new.seq}) = 0
      BY <2>1, FS_EmptySet, Zenon
    <2>2. Cardinality({d \in PutCheckpoint(s, doc) : d.seq > new.seq}) < 2
      BY <2>3
    <2> QED
      BY <1>4, <2>2 DEF NewestTwo
  <1> HIDE DEF kept
  <1>7. \A c \in kept : c.seq \in Nat /\ c.seq <= s /\ Min(Seqs(kept)) <= c.seq /\ Min(Seqs(kept)) \in Nat
    <2>1. \A c \in kept : c.seq \in Nat /\ c.seq <= s
      BY <1>1, <1>2, <1>3, <1>5
    <2>2. Seqs(kept) \subseteq Nat /\ Seqs(kept) # {}
      BY <1>6, <2>1 DEF Seqs
    <2>3. Min(Seqs(kept)) \in Seqs(kept) /\ \A y \in Seqs(kept) : Min(Seqs(kept)) <= y
      BY <2>2, MinIs
    <2> QED
      BY <2>1, <2>2, <2>3 DEF Seqs
  <1>8. \A r \in updates : r.seq \in Nat
    BY Kinds
  <1>9. ASSUME NEW c \in kept PROVE UpdatesAfter(c.seq)' = UpdatesAfter(c.seq)
    BY <1>1, <1>7, <1>8 DEF UpdatesAfter
  <1>10. ASSUME NEW c \in kept PROVE Restores(c)' = Restores(c)
    BY <1>9 DEF Restores, Ops
  <1>11. UpdatesAfter(new.seq) = {}
    BY <1>2, <1>8 DEF UpdatesAfter
  <1>12. ASSUME NEW c \in kept PROVE Restores(c) = doc
    <2>1. Restores(new) = doc
      BY <1>2, <1>11 DEF Restores, Ops
    <2> QED
      BY <1>5, <2>1
  <1>13. updates' \subseteq updates /\ checkpoints' # {}
    BY <1>1, <1>6
  <1>14. /\ outbox' = outbox /\ nextSequence' = nextSequence /\ serverBase' = serverBase /\ saved' = saved
         /\ server' = server /\ sent' = sent /\ deps' = deps /\ created' = created
    BY DEF historyVars
  <1>15. StartsEmpty'
    BY <1>13, <1>14 DEF Store, StartsEmpty
  <1>16. Numbered'
    <2>1. \A r \in updates' : r.ok /\ r.seq < nextSequence'
      BY <1>13, <1>14 DEF Store, Numbered
    <2>2. \A r, q \in updates' : r.seq = q.seq => r = q
      BY <1>13 DEF Store, Numbered
    <2>3. \A c \in checkpoints' : c.seq <= compacted'
      BY <1>1, <1>7
    <2>4. \A c, d \in checkpoints' : c.seq = d.seq => c = d
      BY <1>1, <1>2, <1>5 DEF Store, Numbered
    <2>5. new \in Usable(checkpoints')
      BY <1>1, <1>2, <1>6 DEF Usable
    <2> QED
      BY <1>1, <1>14, <2>1, <2>2, <2>3, <2>4, <2>5 DEF Numbered, Usable
  <1>17. \A c \in checkpoints' : Restores(c)' = doc
    BY <1>1, <1>10, <1>12
  <1>18. Agree'
    BY <1>17 DEF Agree
  <1>19. PICK c0 \in checkpoints : TRUE
    OBVIOUS
  <1>20. saved \subseteq doc /\ Ops(updates') \subseteq doc /\ doc \subseteq created /\ doc \cap Local \subseteq saved
    <2>1. Ops(updates') \subseteq Ops(updates)
      BY <1>13 DEF Ops
    <2> QED
      BY <1>19, <2>1 DEF Store, Complete, Made
  <1>21. Complete'
    BY <1>14, <1>17, <1>20 DEF Complete
  <1>22. Replayable'
    <2> SUFFICES ASSUME NEW c \in kept, NEW r \in UpdatesAfter(c.seq)
                 PROVE  Replays(r, c, UpdatesAfter(c.seq))
      BY <1>1, <1>9, <1>14 DEF Replayable, Replays, Ops
    <2>1. c \in checkpoints
      BY <1>5, <1>11
    <2> QED
      BY <2>1 DEF Store, Replayable
  <1>23. OutboxPinned'
    BY <1>1, <1>14 DEF Store, OutboxPinned, Pinned
  <1>24. Made' /\ Chained'
    BY <1>14, <1>17, <1>20 DEF Store, Made, Chained
  <1>25. checkpoints' \in SUBSET CheckpointRecord /\ updates' \in SUBSET UpdateRecord /\ compacted' \in Nat
    <2>1. updates \in SUBSET UpdateRecord
      BY DEF TypeOK
    <2> QED
      BY <1>1, <1>2, <1>3, <1>5, <1>13, <2>1
  <1> QED
    BY <1>13, <1>15, <1>16, <1>17, <1>18, <1>21, <1>22, <1>23, <1>24, <1>25 DEF Store

\* appendUpdate of operations whose dependencies the log has.
LEMMA AppendRow ==
    ASSUME TypeOK, Store, checkpoints # {}, NEW ops, ops \subseteq Update,
           \A c \in checkpoints : UNION {deps[u] : u \in ops} \subseteq Restores(c) \cup ops,
           updates' = updates \cup {[seq |-> nextSequence, ops |-> ops, ok |-> TRUE]},
           nextSequence' = nextSequence + 1,
           UNCHANGED <<checkpoints, compacted, deps>>
    PROVE  /\ Numbered' /\ Agree' /\ Replayable' /\ updates' \in SUBSET UpdateRecord /\ nextSequence' \in Nat \ {0}
           /\ \A c \in checkpoints : Restores(c)' = Restores(c) \cup ops
           /\ Ops(updates') = Ops(updates) \cup ops
  <1> DEFINE row == [seq |-> nextSequence, ops |-> ops, ok |-> TRUE]
  <1>1. row.seq = nextSequence /\ row.ops = ops /\ row.ok = TRUE /\ row \in UpdateRecord
    BY Kinds DEF UpdateRecord
  <1>2. updates' = updates \cup {row}
    OBVIOUS
  <1> HIDE DEF row
  <1>3. /\ nextSequence \in Nat /\ nextSequence > 0 /\ \A r \in updates : r.seq \in Nat /\ r.seq < nextSequence
        /\ \A c \in checkpoints : c.seq \in Nat /\ c.seq < nextSequence
    BY Kinds DEF Store, Numbered
  <1>4. \A c \in checkpoints : UpdatesAfter(c.seq)' = UpdatesAfter(c.seq) \cup {row}
    BY <1>1, <1>2, <1>3 DEF UpdatesAfter
  <1>5. \A rows : Ops(rows \cup {row}) = Ops(rows) \cup ops
    BY <1>1 DEF Ops
  <1>6. \A c \in checkpoints : Restores(c)' = Restores(c) \cup ops
    BY <1>4, <1>5 DEF Restores
  <1>7. Ops(updates') = Ops(updates) \cup ops
    BY <1>2, <1>5
  <1>8. Numbered'
    <2>1. \A r \in updates' : r.ok /\ r.seq < nextSequence'
      BY <1>1, <1>2, <1>3 DEF Store, Numbered
    <2>2. \A r, q \in updates' : r.seq = q.seq => r = q
      BY <1>1, <1>2, <1>3 DEF Store, Numbered
    <2>3. compacted < nextSequence'
      BY <1>3, Kinds DEF Store, Numbered
    <2> QED
      BY <2>1, <2>2, <2>3 DEF Store, Numbered, Usable
  <1>9. Agree'
    BY <1>6 DEF Store, Agree
  <1>10. Replayable'
    <2>3. ASSUME NEW c \in checkpoints,
                 \A r \in UpdatesAfter(c.seq) \cup {row} : Replays(r, c, UpdatesAfter(c.seq) \cup {row})
          PROVE  \A r \in UpdatesAfter(c.seq)' : Replays(r, c, UpdatesAfter(c.seq))'
      <3>1. UpdatesAfter(c.seq)' = UpdatesAfter(c.seq) \cup {row}
        BY <1>4
      <3>2. ASSUME NEW r PROVE Replays(r, c, UpdatesAfter(c.seq))' = Replays(r, c, UpdatesAfter(c.seq) \cup {row})
        BY <3>1 DEF Replays, Ops
      <3> QED
        BY <2>3, <3>1, <3>2
    <2> SUFFICES ASSUME NEW c \in checkpoints, NEW r \in UpdatesAfter(c.seq) \cup {row}
                 PROVE  Replays(r, c, UpdatesAfter(c.seq) \cup {row})
      BY <2>3 DEF Replayable
    <2>1. CASE r = row
      <3>1. {q \in UpdatesAfter(c.seq) \cup {row} : q.seq < r.seq} = UpdatesAfter(c.seq)
        BY <1>1, <1>3, <2>1 DEF UpdatesAfter
      <3> QED
        BY <1>1, <2>1, <3>1 DEF Restores, Replays
    <2>2. CASE r \in UpdatesAfter(c.seq)
      <3>1. {q \in UpdatesAfter(c.seq) \cup {row} : q.seq < r.seq} = {q \in UpdatesAfter(c.seq) : q.seq < r.seq}
        BY <1>1, <1>3, <2>2 DEF UpdatesAfter
      <3>2. Replays(r, c, UpdatesAfter(c.seq))
        BY <2>2 DEF Store, Replayable
      <3> QED
        BY <3>1, <3>2 DEF Replays
    <2> QED
      BY <2>1, <2>2
  <1>11. updates' \in SUBSET UpdateRecord /\ nextSequence' \in Nat \ {0}
    BY <1>1, <1>2, <1>3, Kinds
  <1> QED
    BY <1>6, <1>7, <1>8, <1>9, <1>10, <1>11

\* acknowledge keeps what a retained checkpoint or another record needs.
LEMMA AckStore ==
    ASSUME TypeOK, Store, NEW msgs, Acknowledge(msgs),
           UNCHANGED <<checkpoints, nextSequence, compacted, serverBase, historyVars>>
    PROVE  /\ Store' /\ \A c \in checkpoints : Restores(c)' = Restores(c)
           /\ updates' \subseteq updates /\ outbox' \subseteq outbox
  <1> DEFINE fallback == Min(Seqs(checkpoints) \cup {compacted})
             done == {o \in outbox : o.msg \in msgs}
  <1>1. outbox' = outbox \ done /\ updates' = {r \in updates : r.seq > fallback \/ r.seq \notin Seqs(done)}
    BY DEF Acknowledge
  <1>2. fallback \in Nat /\ \A c \in checkpoints : fallback <= c.seq /\ c.seq \in Nat
    <2>1. Seqs(checkpoints) \cup {compacted} \subseteq Nat /\ \A c \in checkpoints : c.seq \in Seqs(checkpoints)
      BY Kinds DEF Seqs
    <2> QED
      BY <2>1, MinIs
  <1> HIDE DEF fallback
  <1>3. \A r \in updates : r.seq \in Nat
    BY Kinds
  <1>4. \A c \in checkpoints : UpdatesAfter(c.seq)' = UpdatesAfter(c.seq)
    BY <1>1, <1>2, <1>3 DEF UpdatesAfter
  <1>5. \A c \in checkpoints : Restores(c)' = Restores(c)
    BY <1>4 DEF Restores, Ops
  <1>6. /\ checkpoints' = checkpoints /\ nextSequence' = nextSequence /\ compacted' = compacted
        /\ serverBase' = serverBase /\ saved' = saved /\ server' = server /\ sent' = sent
        /\ deps' = deps /\ created' = created /\ updates' \subseteq updates /\ outbox' \subseteq outbox
    BY <1>1 DEF historyVars
  <1>7. StartsEmpty' /\ Numbered'
    BY <1>6 DEF Store, StartsEmpty, Numbered, Usable
  <1>8. Agree' /\ Made' /\ Chained'
    BY <1>5, <1>6 DEF Store, Agree, Made, Chained
  <1>9. Complete'
    <2>1. Ops(updates') \subseteq Ops(updates)
      BY <1>6 DEF Ops
    <2> QED
      BY <1>5, <1>6, <2>1 DEF Store, Complete
  <1>10. Replayable'
    BY <1>4, <1>6 DEF Store, Replayable, Replays, Ops
  <1>11. OutboxPinned'
    <2> SUFFICES ASSUME NEW o \in outbox' PROVE \E r \in updates' : r.seq = o.seq /\ r.ops = {o.msg}
      BY DEF OutboxPinned
    <2>1. o \in outbox /\ o \notin done
      BY <1>1
    <2>2. PICK r \in updates : r.seq = o.seq /\ r.ops = {o.msg}
      BY <2>1 DEF Store, OutboxPinned
    <2>3. ASSUME r.seq \in Seqs(done) PROVE FALSE
      <3>1. PICK p \in done : p.seq = r.seq
        BY <2>3 DEF Seqs
      <3>2. PICK q \in updates : q.seq = p.seq /\ q.ops = {p.msg}
        BY <3>1 DEF Store, OutboxPinned
      <3>3. q = r
        BY <2>2, <3>1, <3>2 DEF Store, Numbered
      <3> QED
        BY <2>1, <2>2, <3>1, <3>2, <3>3
    <2> QED
      BY <1>1, <2>2, <2>3
  <1> QED
    BY <1>5, <1>6, <1>7, <1>8, <1>9, <1>10, <1>11 DEF Store
-----------------------------------------------------------------------------
(* What a tab's step must show: its own session, and that it disturbs      *)
(* nothing another holder relies on.                                       *)

Others(t) ==
    /\ \A q \in Tab \ {t} : tab'[q] = tab[q] /\ (lease' = q <=> lease = q)
    /\ nextSequence <= nextSequence'
    /\ Holds(t) \/ UNCHANGED <<storageVars, deps, created>>

LEMMA OpensKept ==
    ASSUME TypeOK, TypeOK', NEW t \in Tab, Opens(t), nextSequence <= nextSequence',
           tab'[t].step \in {"reading", "scanning", "repairing", "normalizing"} => tab'[t].pending = None,
           tab'[t].seen \subseteq tab[t].seen
    PROVE  Opens(t)'
  <1>1. \A c \in tab[t].seen : c.seq \in Nat /\ c.seq < nextSequence
    BY TabKinds DEF Opens
  <1>2. nextSequence \in Nat /\ nextSequence' \in Nat
    BY DEF TypeOK
  <1>3. \A c \in tab'[t].seen : c.seq < nextSequence'
    BY <1>1, <1>2
  <1> QED
    BY <1>3 DEF Opens

LEMMA RecoversKept ==
    ASSUME NEW t \in Tab, Recovers(t), tab'[t] = tab[t], UNCHANGED <<storageVars, deps, created>>
    PROVE  Recovers(t)'
  <1>1. /\ checkpoints' = checkpoints /\ updates' = updates /\ outbox' = outbox
        /\ nextSequence' = nextSequence /\ compacted' = compacted /\ serverBase' = serverBase
        /\ deps' = deps /\ created' = created
    BY DEF storageVars
  <1>2. \A c : Restores(c)' = Restores(c)
    BY <1>1 DEF Restores, Ops, UpdatesAfter
  <1>3. ReadingNow(t)' /\ ScanningNow(t)'
    BY <1>1 DEF Recovers, ReadingNow, ScanningNow, At, Usable
  <1>4. WorkingNow(t)'
    BY <1>1, <1>2 DEF Recovers, WorkingNow, Working, At, Unsaved
  <1> QED
    BY <1>3, <1>4 DEF Recovers, At

LEMMA SessionsStep ==
    ASSUME TypeOK, TypeOK', Sessions, NEW t \in Tab, Others(t), SessionOf(t)'
    PROVE  Sessions'
  <1> SUFFICES ASSUME NEW q \in Tab, q # t PROVE SessionOf(q)'
    BY DEF Sessions
  <1>1. tab'[q] = tab[q] /\ (lease' = q <=> lease = q) /\ nextSequence <= nextSequence' /\ SessionOf(q)
    BY DEF Others, Sessions
  <1>2. Opens(q)'
    <2>1. tab[q].step \in {"reading", "scanning", "repairing", "normalizing"} => tab[q].pending = None
      BY <1>1 DEF SessionOf, Opens
    <2> QED
      BY <1>1, <2>1, OpensKept DEF SessionOf
  <1>3. Holding(q)'
    BY <1>1 DEF SessionOf, Holding, Holds, At
  <1>4. ASSUME Holds(q)' PROVE Recovers(q)'
    <2>1. lease = q /\ ~Holds(t)
      BY <1>1, <1>4 DEF Holds
    <2>2. UNCHANGED <<storageVars, deps, created>> /\ Recovers(q)
      BY <1>1, <2>1 DEF Others, SessionOf, Holds
    <2> QED
      BY <1>1, <2>2, RecoversKept
  <1> QED
    BY <1>2, <1>3, <1>4 DEF SessionOf

\* A tab between two recoveries, or without one, knows nothing yet.
LEMMA Idle ==
    ASSUME NEW t \in Tab, Opens(t)', tab'[t].step \in {"opening", "failed", "closed"},
           lease' = t => tab'[t].step # "closed"
    PROVE  SessionOf(t)'
  BY DEF SessionOf, Holding, Holds, Recovers, ReadingNow, ScanningNow, WorkingNow, Working, At

LEMMA QuietTypes ==
    ASSUME TypeOK, UNCHANGED <<storageVars, historyVars, damage>>, tab' \in [Tab -> TabState],
           lease' \in Tab \cup {None}, frame' \in Frame, news' \in SUBSET Tab
    PROVE  TypeOK'
  BY DEF TypeOK, storageVars, historyVars

\* The steps that leave the log and the history alone.
Quiet(t) ==
    /\ UNCHANGED <<storageVars, historyVars, damage>>
    /\ \A q \in Tab \ {t} : tab'[q] = tab[q] /\ (lease' = q <=> lease = q)
    /\ tab' \in [Tab -> TabState] /\ lease' \in Tab \cup {None}
    /\ frame' \in Frame /\ news' \in SUBSET Tab

LEMMA QuietStep ==
    ASSUME LogInv, NEW t \in Tab, Quiet(t), TypeOK' /\ Store' => SessionOf(t)'
    PROVE  LogInv'
  <1>1. TypeOK'
    BY QuietTypes DEF LogInv, Quiet
  <1>2. Store'
    BY StoreKept DEF LogInv, Quiet
  <1>3. Others(t)
    <2>1. nextSequence' = nextSequence /\ nextSequence \in Nat
      BY DEF LogInv, Quiet, storageVars, TypeOK
    <2> QED
      BY <2>1 DEF Others, Quiet, historyVars
  <1> QED
    BY <1>1, <1>2, <1>3, SessionsStep DEF LogInv
-----------------------------------------------------------------------------
(* The steps of a session that write nothing.                              *)

LEMMA NoFrameType == NoFrame \in Frame
  BY DEF NoFrame, Frame

LEMMA ClosedTabType == ClosedTab \in TabState /\ ClosedTab.seen = {} /\ ClosedTab.pending = None
  BY DEF ClosedTab, TabState, TabStep, CheckpointRecord, EmptyBase

LEMMA GotoType ==
    ASSUME TypeOK, NEW t \in Tab, NEW step \in TabStep, Goto(t, step)
    PROVE  /\ tab' \in [Tab -> TabState] /\ \A q \in Tab \ {t} : tab'[q] = tab[q]
           /\ tab'[t] = [tab[t] EXCEPT !.step = step]
           /\ tab'[t].step = step /\ tab'[t].seen = tab[t].seen /\ tab'[t].pending = tab[t].pending
           /\ tab'[t].doc = tab[t].doc /\ tab'[t].applied = tab[t].applied /\ tab'[t].base = tab[t].base
  BY Kinds, TabKinds DEF Goto, TabState

\* Opening, reloading, taking over.
LEMMA StartsKeep ==
    ASSUME LogInv, NEW t \in Tab, OpenTab(t) \/ Reload(t) \/ TakeOver(t)
    PROVE  LogInv'
  <1>1. Goto(t, "opening") /\ UNCHANGED <<storageVars, historyVars, damage>> /\ (frame' = frame)
    BY DEF OpenTab, Reload, TakeOver, historyVars, worldVars
  <1>2. /\ tab' \in [Tab -> TabState] /\ \A q \in Tab \ {t} : tab'[q] = tab[q]
        /\ tab'[t].step = "opening" /\ tab'[t].seen = tab[t].seen
    BY <1>1, GotoType DEF LogInv, TabStep
  <1>3. lease' \in {lease, t} /\ (lease' = t => lease \in {t, None}) /\ news' \subseteq news
    BY DEF OpenTab, Reload, TakeOver
  <1>4. \A q \in Tab \ {t} : (lease' = q <=> lease = q)
    BY <1>3, TabAssumption
  <1>5. Quiet(t)
    BY <1>1, <1>2, <1>3, <1>4 DEF Quiet, LogInv, TypeOK
  <1>6. ASSUME TypeOK' PROVE SessionOf(t)'
    <2>1. Opens(t) /\ nextSequence' = nextSequence /\ nextSequence \in Nat
      BY <1>1 DEF LogInv, Sessions, SessionOf, storageVars, TypeOK
    <2>2. Opens(t)'
      BY <1>2, <1>6, <2>1, OpensKept DEF LogInv
    <2> QED
      BY <1>2, <2>2, Idle
  <1> QED
    BY <1>5, <1>6, QuietStep

\* A session that ends, or that fails to open.
LEMMA EndsKeep ==
    ASSUME LogInv, NEW t \in Tab,
           \/ OpenFails(t) \/ CrashTab(t)
           \/ CloseTab(t) /\ UNCHANGED <<checkpoints, updates, compacted>>
    PROVE  LogInv'
  <1>1. UNCHANGED <<storageVars, historyVars, damage>> /\ frame' \in {frame, NoFrame} /\ news' \subseteq news
    BY DEF OpenFails, CrashTab, CloseTab, historyVars, worldVars, storageVars
  <1>2. /\ tab' = [tab EXCEPT ![t] = tab'[t]] /\ tab'[t] \in TabState /\ tab'[t].seen = {}
        /\ tab'[t].pending = None /\ tab'[t].step \in {"closed", "failed"}
        /\ lease' \in {lease, None} /\ (Holds(t) /\ tab'[t].step = "closed" => lease' = None)
        /\ (~Holds(t) => lease' = lease)
    <2>1. tab \in [Tab -> TabState]
      BY Kinds DEF LogInv
    <2>2. CASE OpenFails(t)
      <3>1. /\ tab' = [tab EXCEPT ![t] = [ClosedTab EXCEPT !.step = "failed"]]
            /\ lease' = IF Holds(t) /\ ~tab[t].opened THEN None ELSE lease
        BY <2>2 DEF OpenFails
      <3>2. tab'[t] = [ClosedTab EXCEPT !.step = "failed"]
        BY <2>1, <3>1
      <3>3. tab'[t] \in TabState /\ tab'[t].seen = {} /\ tab'[t].pending = None /\ tab'[t].step = "failed"
        BY <3>2, ClosedTabType DEF TabState, TabStep
      <3> QED
        BY <3>1, <3>2, <3>3
    <2>3. CASE CrashTab(t) \/ CloseTab(t)
      <3>1. tab' = [tab EXCEPT ![t] = ClosedTab] /\ lease' = IF Holds(t) THEN None ELSE lease
        BY <2>3 DEF CrashTab, CloseTab
      <3>2. tab'[t] = ClosedTab /\ ClosedTab.step = "closed"
        BY <2>1, <3>1 DEF ClosedTab
      <3> QED
        BY <3>1, <3>2, ClosedTabType
    <2> QED
      BY <2>2, <2>3
  <1>3. tab' \in [Tab -> TabState] /\ \A q \in Tab \ {t} : tab'[q] = tab[q]
    <2>1. tab \in [Tab -> TabState]
      BY Kinds DEF LogInv
    <2> QED
      BY <1>2, <2>1
  <1>4. \A q \in Tab \ {t} : (lease' = q <=> lease = q)
    BY <1>2, TabAssumption DEF Holds
  <1>5. Quiet(t)
    BY <1>1, <1>2, <1>3, <1>4, NoFrameType DEF Quiet, LogInv, TypeOK
  <1>6. SessionOf(t)'
    <2>1. Opens(t)'
      BY <1>2 DEF Opens
    <2>2. lease' = t => tab'[t].step # "closed"
      BY <1>2, TabAssumption DEF Holds
    <2> QED
      BY <1>2, <2>1, <2>2, Idle
  <1> QED
    BY <1>5, <1>6, QuietStep

LEMMA ReadKeeps ==
    ASSUME LogInv, NEW t \in Tab, ReadCheckpoints(t)
    PROVE  LogInv'
  <1> DEFINE new == [ClosedTab EXCEPT !.step = "reading", !.opened = tab[t].opened, !.seen = checkpoints]
  <1>1. tab' = [tab EXCEPT ![t] = new] /\ UNCHANGED <<storageVars, historyVars, damage, lease, frame, news>>
    BY DEF ReadCheckpoints, historyVars, worldVars
  <1>2. /\ new \in TabState /\ new.step = "reading" /\ new.seen = checkpoints /\ new.pending = None
    <2>1. tab[t].opened \in BOOLEAN /\ checkpoints \in SUBSET CheckpointRecord
      BY TabKinds DEF LogInv, TypeOK
    <2> QED
      BY <2>1, ClosedTabType DEF TabState, TabStep, ClosedTab
  <1> HIDE DEF new
  <1>3. tab' \in [Tab -> TabState] /\ tab'[t] = new /\ \A q \in Tab \ {t} : tab'[q] = tab[q]
    <2>1. tab \in [Tab -> TabState]
      BY Kinds DEF LogInv
    <2> QED
      BY <1>1, <1>2, <2>1
  <1>4. Quiet(t)
    BY <1>1, <1>3 DEF Quiet, LogInv, TypeOK
  <1>5. SessionOf(t)'
    <2>1. checkpoints' = checkpoints /\ nextSequence' = nextSequence
      BY <1>1 DEF storageVars
    <2>2. \A c \in checkpoints : c.seq < nextSequence
      BY Kinds DEF LogInv, Store, Numbered
    <2>3. Opens(t)'
      BY <1>2, <1>3, <2>1, <2>2 DEF Opens
    <2>4. Holding(t)' /\ ScanningNow(t)' /\ WorkingNow(t)' /\ ~At(t, "repairing")' /\ ~At(t, "closed")'
      BY <1>2, <1>3 DEF Holding, ScanningNow, WorkingNow, Working, At
    <2>5. ReadingNow(t)'
      BY <1>2, <1>3, <2>1 DEF ReadingNow, LogInv, Store, Numbered
    <2> QED
      BY <2>3, <2>4, <2>5 DEF SessionOf, Recovers
  <1> QED
    BY <1>4, <1>5, QuietStep

LEMMA RecoveredType ==
    ASSUME TypeOK, NEW t \in Tab, NEW step \in TabStep, NEW b \in CheckpointRecord, NEW rows,
           rows \subseteq UpdatesAfter(b.seq), \A r \in updates : r.seq < nextSequence,
           Recovered(t, step, b, rows)
    PROVE  /\ tab' \in [Tab -> TabState] /\ \A q \in Tab \ {t} : tab'[q] = tab[q]
           /\ tab'[t].step = step /\ tab'[t].seen = {} /\ tab'[t].pending = tab[t].pending
           /\ tab'[t].doc = b.doc \cup Ops(rows) /\ tab'[t].applied = Frontier(b, rows) /\ tab'[t].base = b
  <1>1. b.seq \in Nat /\ b.doc \subseteq Update
    BY DEF CheckpointRecord
  <1>2. Frontier(b, rows) \in Nat
    BY <1>1, FrontierIs
  <1>3. Ops(rows) \subseteq Update
    BY Kinds DEF Ops, UpdatesAfter
  <1>4. tab \in [Tab -> TabState] /\ tab[t] \in TabState
    BY Kinds
  <1> DEFINE new == [tab[t] EXCEPT !.step = step, !.doc = b.doc \cup Ops(rows),
                                   !.applied = Frontier(b, rows), !.base = b, !.seen = {}]
  <1>5. tab' = [tab EXCEPT ![t] = new]
    BY <1>4 DEF Recovered
  <1>6. /\ new \in TabState /\ new.step = step /\ new.seen = {} /\ new.pending = tab[t].pending
        /\ new.doc = b.doc \cup Ops(rows) /\ new.applied = Frontier(b, rows) /\ new.base = b
    BY <1>1, <1>2, <1>3, <1>4 DEF TabState
  <1> HIDE DEF new
  <1>7. tab'[t] = new /\ tab' \in [Tab -> TabState] /\ \A q \in Tab \ {t} : tab'[q] = tab[q]
    BY <1>4, <1>5, <1>6
  <1> QED
    BY <1>6, <1>7

\* A base that a retained checkpoint equals, with every row after it, is what the
\* log restores.
LEMMA WholeLog ==
    ASSUME Store, NEW d \in checkpoints, NEW b, d.seq = b.seq, d.doc = b.doc
    PROVE  /\ \A c \in checkpoints : b.doc \cup Ops(UpdatesAfter(b.seq)) = Restores(c)
           /\ ValidPrefix(b, UpdatesAfter(b.seq)) = UpdatesAfter(b.seq)
  <1>1. \A c \in checkpoints : Restores(d) = Restores(c)
    BY DEF Store, Agree
  <1>2. ValidPrefix(b, UpdatesAfter(b.seq)) = UpdatesAfter(b.seq)
    BY AllReplay DEF Store
  <1> QED
    BY <1>1, <1>2 DEF Restores

\* A recovered tab that holds the lease has the whole log.
LEMMA RecoveredSession ==
    ASSUME LogInv, NEW t \in Tab, NEW b \in CheckpointRecord, NEW rows, NEW step \in {"normalizing", "repairing"},
           rows \subseteq UpdatesAfter(b.seq), Recovered(t, step, b, rows),
           UNCHANGED <<storageVars, historyVars, damage, lease, frame, news>>,
           tab[t].pending = None,
           Holds(t) => /\ \E d \in checkpoints : d.seq = b.seq /\ d.doc = b.doc
                       /\ step = "normalizing" /\ rows = UpdatesAfter(b.seq)
    PROVE  LogInv'
  <1>1. step \in TabStep /\ \A r \in updates : r.seq < nextSequence
    BY DEF TabStep, LogInv, Store, Numbered
  <1>2. /\ tab' \in [Tab -> TabState] /\ \A q \in Tab \ {t} : tab'[q] = tab[q]
        /\ tab'[t].step = step /\ tab'[t].seen = {} /\ tab'[t].pending = None
        /\ tab'[t].doc = b.doc \cup Ops(rows) /\ tab'[t].applied = Frontier(b, rows) /\ tab'[t].base = b
    BY <1>1, RecoveredType DEF LogInv
  <1>3. Quiet(t)
    BY <1>2 DEF Quiet, LogInv, TypeOK
  <1>4. SessionOf(t)'
    <2>1. checkpoints' = checkpoints /\ nextSequence' = nextSequence /\ updates' = updates /\ lease' = lease
      BY DEF storageVars
    <2>2. Opens(t)' /\ Holding(t)'
      BY <1>2 DEF Opens, Holding, At
    <2>3. ReadingNow(t)' /\ ScanningNow(t)' /\ ~At(t, "closed")'
      BY <1>2 DEF ReadingNow, ScanningNow, At
    <2>4. ASSUME Holds(t) PROVE WorkingNow(t)' /\ ~At(t, "repairing")'
      <3>1. PICK d \in checkpoints : d.seq = b.seq /\ d.doc = b.doc
        BY <2>4
      <3>2. \A c \in checkpoints : tab'[t].doc = Restores(c)
        BY <1>2, <2>4, <3>1, WholeLog DEF LogInv
      <3>3. \A c : Restores(c)' = Restores(c)
        BY StoreKept DEF LogInv
      <3>4. /\ tab'[t].applied < nextSequence /\ \A r \in updates : r.seq <= tab'[t].applied
        <4>1. b.seq \in Nat /\ b.seq < nextSequence
          BY <3>1, Kinds DEF LogInv, Store, Numbered
        <4> QED
          BY <1>1, <1>2, <2>4, <4>1, FrontierIs DEF LogInv
      <3>5. Unsaved(t)' = {}
        BY <1>2 DEF Unsaved
      <3>6. tab'[t].step = "normalizing"
        BY <1>2, <2>4
      <3> QED
        BY <1>2, <2>1, <3>1, <3>2, <3>3, <3>4, <3>5, <3>6 DEF WorkingNow, At
    <2> QED
      BY <2>1, <2>2, <2>3, <2>4 DEF SessionOf, Recovers, Holds
  <1> QED
    BY <1>3, <1>4, QuietStep

LEMMA IntactKeeps ==
    ASSUME LogInv, NEW t \in Tab, RecoverIntact(t)
    PROVE  LogInv'
  <1>1. PICK b : b = Newest(tab[t].seen)
    OBVIOUS
  <1>2. /\ At(t, "reading") /\ tab[t].seen # {}
        /\ Recovered(t, "normalizing", b, UpdatesAfter(b.seq))
        /\ UNCHANGED <<storageVars, historyVars, damage, lease, frame, news>>
    BY <1>1 DEF RecoverIntact, Intact, historyVars, worldVars
  <1>3. SessionOf(t) /\ nextSequence \in Nat
    BY DEF LogInv, Sessions, TypeOK
  <1>4. \A c \in tab[t].seen : c \in CheckpointRecord /\ c.seq \in Nat /\ c.seq < nextSequence
    BY <1>3, TabKinds DEF LogInv, SessionOf, Opens
  <1>5. b \in tab[t].seen
    BY <1>1, <1>2, <1>3, <1>4, NewestIs
  <1>6. Holds(t) => \E d \in checkpoints : d.seq = b.seq /\ d.doc = b.doc
    BY <1>2, <1>3, <1>5 DEF SessionOf, Recovers, ReadingNow
  <1>7. tab[t].pending = None
    BY <1>2, <1>3 DEF SessionOf, Opens, At
  <1> QED
    BY <1>2, <1>4, <1>5, <1>6, <1>7, RecoveredSession

LEMMA ScanKeeps ==
    ASSUME LogInv, NEW t \in Tab, ScanTail(t)
    PROVE  LogInv'
  <1>1. PICK b, rows, good : /\ b = tab[t].base /\ rows = UpdatesAfter(b.seq) /\ good = ValidPrefix(b, rows)
    OBVIOUS
  <1>2. PICK step : step = IF good = rows THEN "normalizing" ELSE "repairing"
    OBVIOUS
  <1>3. /\ At(t, "scanning") /\ Recovered(t, step, b, good)
        /\ UNCHANGED <<storageVars, historyVars, damage, lease, frame, news>>
    BY <1>1, <1>2 DEF ScanTail, historyVars, worldVars
  <1>4. SessionOf(t) /\ b \in CheckpointRecord /\ good \subseteq UpdatesAfter(b.seq)
    BY <1>1, TabKinds DEF LogInv, Sessions, ValidPrefix
  <1>5. tab[t].pending = None
    BY <1>3, <1>4 DEF SessionOf, Opens, At
  <1>6. ASSUME Holds(t)
        PROVE  /\ \E d \in checkpoints : d.seq = b.seq /\ d.doc = b.doc
               /\ step = "normalizing" /\ good = UpdatesAfter(b.seq)
    <2>1. PICK d \in checkpoints : d.seq = b.seq /\ d.doc = b.doc
      BY <1>1, <1>3, <1>4, <1>6 DEF SessionOf, Recovers, ScanningNow
    <2>2. ValidPrefix(b, UpdatesAfter(b.seq)) = UpdatesAfter(b.seq)
      BY <2>1, WholeLog DEF LogInv
    <2> QED
      BY <1>1, <1>2, <2>1, <2>2
  <1> QED
    BY <1>2, <1>3, <1>4, <1>5, <1>6, RecoveredSession

LEMMA SelectKeeps ==
    ASSUME LogInv, NEW t \in Tab, SelectBase(t)
    PROVE  LogInv'
  <1>1. PICK b : b = Newest(Usable(tab[t].seen))
    OBVIOUS
  <1> DEFINE new == [tab[t] EXCEPT !.step = "scanning", !.base = b, !.seen = {}]
  <1>2. tab \in [Tab -> TabState] /\ tab[t] \in TabState
    BY Kinds DEF LogInv
  <1>3. /\ At(t, "reading") /\ Usable(tab[t].seen) # {}
        /\ tab' = [tab EXCEPT ![t] = new]
        /\ UNCHANGED <<storageVars, historyVars, damage, lease, frame, news>>
    BY <1>1, <1>2 DEF SelectBase, historyVars, worldVars
  <1>4. SessionOf(t) /\ nextSequence \in Nat
    BY DEF LogInv, Sessions, TypeOK
  <1>5. \A c \in tab[t].seen : c \in CheckpointRecord /\ c.seq \in Nat /\ c.seq < nextSequence
    BY <1>4, TabKinds DEF LogInv, SessionOf, Opens
  <1>6. b \in tab[t].seen
    <2>1. \A c \in Usable(tab[t].seen) : c \in tab[t].seen
      BY DEF Usable
    <2>2. b \in Usable(tab[t].seen)
      BY <1>1, <1>3, <1>4, <1>5, <2>1, NewestIs
    <2> QED
      BY <2>1, <2>2
  <1>7. /\ new \in TabState /\ new.step = "scanning" /\ new.seen = {} /\ new.base = b
        /\ new.pending = tab[t].pending
    BY <1>2, <1>5, <1>6 DEF TabState, TabStep
  <1> HIDE DEF new
  <1>8. tab'[t] = new /\ tab' \in [Tab -> TabState] /\ \A q \in Tab \ {t} : tab'[q] = tab[q]
    BY <1>2, <1>3, <1>7
  <1>9. Quiet(t)
    BY <1>3, <1>8 DEF Quiet, LogInv, TypeOK
  <1>10. SessionOf(t)'
    <2>1. tab[t].pending = None
      BY <1>3, <1>4 DEF SessionOf, Opens, At
    <2>2. checkpoints' = checkpoints /\ lease' = lease
      BY <1>3 DEF storageVars
    <2>3. Opens(t)' /\ Holding(t)' /\ ReadingNow(t)' /\ WorkingNow(t)' /\ ~At(t, "repairing")' /\ ~At(t, "closed")'
      BY <1>7, <1>8, <2>1 DEF Opens, Holding, ReadingNow, WorkingNow, Working, At
    <2>4. Holds(t) => ScanningNow(t)'
      BY <1>3, <1>4, <1>6, <1>7, <1>8, <2>2 DEF SessionOf, Recovers, ReadingNow, ScanningNow
    <2> QED
      BY <2>2, <2>3, <2>4 DEF SessionOf, Recovers, Holds
  <1> QED
    BY <1>9, <1>10, QuietStep

\* A step of a working tab that only moves it on.
LEMMA WorkingSession ==
    ASSUME LogInv, NEW t \in Tab, Working(t), Working(t)',
           UNCHANGED <<storageVars, historyVars, damage, lease, news>>, frame' \in Frame,
           \A q \in Tab \ {t} : tab'[q] = tab[q], tab' \in [Tab -> TabState],
           tab'[t].seen \subseteq tab[t].seen, tab'[t].pending = tab[t].pending,
           tab'[t].doc = tab[t].doc, tab'[t].applied = tab[t].applied,
           ~At(t, "normalizing")',
           Holding(t)',
           Holds(t) /\ At(t, "compacting")' => tab[t].pending = None,
           tab'[t].step \in {"saving", "resaving"} => tab[t].pending # None
    PROVE  LogInv'
  <1>1. Quiet(t)
    BY DEF Quiet, LogInv, TypeOK
  <1>2. ASSUME TypeOK' PROVE SessionOf(t)'
    <2>1. SessionOf(t) /\ nextSequence \in Nat
      BY DEF LogInv, Sessions, TypeOK
    <2>2. /\ checkpoints' = checkpoints /\ nextSequence' = nextSequence /\ updates' = updates
          /\ lease' = lease /\ serverBase' = serverBase /\ deps' = deps /\ created' = created
      BY DEF storageVars, historyVars
    <2>3. tab'[t].step \notin {"reading", "scanning", "repairing", "normalizing", "closed"}
      BY DEF Working, At
    <2>4. Opens(t)'
      BY <1>2, <2>1, <2>2, <2>3, OpensKept DEF LogInv, SessionOf
    <2>5. ReadingNow(t)' /\ ScanningNow(t)' /\ ~At(t, "closed")' /\ ~At(t, "repairing")'
      BY <2>3 DEF ReadingNow, ScanningNow, At
    <2>6. ASSUME Holds(t) PROVE WorkingNow(t)'
      <3>1. WorkingNow(t)
        BY <2>1, <2>6 DEF SessionOf, Recovers
      <3>2. \A c : Restores(c)' = Restores(c)
        BY StoreKept DEF LogInv
      <3>3. Unsaved(t)' = Unsaved(t)
        BY DEF Unsaved
      <3> QED
        BY <2>2, <2>6, <3>1, <3>2, <3>3 DEF WorkingNow, At
    <2> QED
      BY <2>2, <2>4, <2>5, <2>6 DEF SessionOf, Recovers, Holds
  <1> QED
    BY <1>1, <1>2, QuietStep

LEMMA MovesKeep ==
    ASSUME LogInv, NEW t \in Tab, PersistFails(t) \/ RetryPending(t) \/ CompactionSkipped(t) \/ NormalizeOutbox(t)
    PROVE  LogInv'
  <1>1. SessionOf(t) /\ tab \in [Tab -> TabState] /\ tab[t] \in TabState
    BY Kinds DEF LogInv, Sessions
  <1>2. UNCHANGED <<storageVars, historyVars, damage, lease, news>>
    BY DEF PersistFails, RetryPending, CompactionSkipped, NormalizeOutbox, historyVars, worldVars
  <1>3. CASE PersistFails(t)
    <2>1. Goto(t, "ready") /\ tab[t].step \in {"saving", "resaving"} /\ frame' = frame
      BY <1>3 DEF PersistFails, Saving, At
    <2>2. /\ tab' \in [Tab -> TabState] /\ \A q \in Tab \ {t} : tab'[q] = tab[q]
          /\ tab'[t].step = "ready" /\ tab'[t].seen = tab[t].seen /\ tab'[t].pending = tab[t].pending
          /\ tab'[t].doc = tab[t].doc /\ tab'[t].applied = tab[t].applied
      BY <2>1, GotoType DEF LogInv, TabStep
    <2>3. Holding(t)' /\ Working(t) /\ Working(t)' /\ ~At(t, "normalizing")'
      BY <1>1, <1>2, <2>1, <2>2 DEF SessionOf, Holding, Holds, Working, At
    <2> QED
      BY <1>2, <2>1, <2>2, <2>3, WorkingSession DEF LogInv, TypeOK, At
  <1>4. CASE RetryPending(t)
    <2>1. Goto(t, "resaving") /\ tab[t].step = "ready" /\ tab[t].pending # None /\ frame' = frame
      BY <1>4 DEF RetryPending, At
    <2>2. /\ tab' \in [Tab -> TabState] /\ \A q \in Tab \ {t} : tab'[q] = tab[q]
          /\ tab'[t].step = "resaving" /\ tab'[t].seen = tab[t].seen /\ tab'[t].pending = tab[t].pending
          /\ tab'[t].doc = tab[t].doc /\ tab'[t].applied = tab[t].applied
      BY <2>1, GotoType DEF LogInv, TabStep
    <2>3. Holding(t)' /\ Working(t) /\ Working(t)' /\ ~At(t, "normalizing")'
      BY <1>1, <1>2, <2>1, <2>2 DEF SessionOf, Holding, Holds, Working, At
    <2> QED
      BY <1>2, <2>1, <2>2, <2>3, WorkingSession DEF LogInv, TypeOK, At
  <1>5. CASE CompactionSkipped(t)
    <2>1. Goto(t, "ready") /\ tab[t].step = "compacting" /\ frame' = frame
      BY <1>5 DEF CompactionSkipped, At
    <2>2. /\ tab' \in [Tab -> TabState] /\ \A q \in Tab \ {t} : tab'[q] = tab[q]
          /\ tab'[t].step = "ready" /\ tab'[t].seen = tab[t].seen /\ tab'[t].pending = tab[t].pending
          /\ tab'[t].doc = tab[t].doc /\ tab'[t].applied = tab[t].applied
      BY <2>1, GotoType DEF LogInv, TabStep
    <2>3. Holding(t)' /\ Working(t) /\ Working(t)' /\ ~At(t, "normalizing")'
      BY <1>1, <1>2, <2>1, <2>2 DEF SessionOf, Holding, Holds, Working, At
    <2> QED
      BY <1>2, <2>1, <2>2, <2>3, WorkingSession DEF LogInv, TypeOK, At
  <1>6. CASE NormalizeOutbox(t)
    <2> DEFINE new == [tab[t] EXCEPT !.step = "ready", !.opened = TRUE]
    <2>1. tab' = [tab EXCEPT ![t] = new] /\ tab[t].step = "normalizing" /\ frame' \in {frame, NoFrame}
      BY <1>1, <1>6 DEF NormalizeOutbox, At
    <2>2. /\ new \in TabState /\ new.step = "ready" /\ new.seen = tab[t].seen /\ new.pending = tab[t].pending
          /\ new.doc = tab[t].doc /\ new.applied = tab[t].applied
      BY <1>1 DEF TabState, TabStep
    <2> HIDE DEF new
    <2>3. tab'[t] = new /\ tab' \in [Tab -> TabState] /\ \A q \in Tab \ {t} : tab'[q] = tab[q]
      BY <1>1, <2>1, <2>2
    <2>4. tab[t].pending = None
      BY <1>1, <2>1 DEF SessionOf, Opens
    <2>5. Holding(t)' /\ Working(t) /\ Working(t)' /\ ~At(t, "normalizing")'
      BY <2>1, <2>2, <2>3, <2>4 DEF Holding, Working, At
    <2> QED
      BY <1>2, <2>1, <2>2, <2>3, <2>4, <2>5, WorkingSession, NoFrameType DEF LogInv, TypeOK, At
  <1> QED
    BY <1>3, <1>4, <1>5, <1>6
-----------------------------------------------------------------------------
(* Steps outside the lane, and beyond the browser.                         *)

LEMMA SessionsKept ==
    ASSUME Sessions, UNCHANGED <<storageVars, deps, created, lease, tab>>
    PROVE  Sessions'
  <1> SUFFICES ASSUME NEW t \in Tab PROVE SessionOf(t)'
    BY DEF Sessions
  <1>1. SessionOf(t) /\ tab' = tab /\ lease' = lease /\ nextSequence' = nextSequence
    BY DEF Sessions, storageVars
  <1>2. Opens(t)' /\ Holding(t)'
    BY <1>1 DEF SessionOf, Opens, Holding, Holds, At
  <1>3. Holds(t)' => Recovers(t)'
    BY <1>1, RecoversKept DEF SessionOf, Holds
  <1> QED
    BY <1>2, <1>3 DEF SessionOf

LEMMA FrameKeeps ==
    ASSUME LogInv, ReadIsSaved, NEW t \in Tab, ReadOutbox(t) \/ SyncNextFrame(t)
    PROVE  LogInv'
  <1>1. /\ UNCHANGED <<storageVars, saved, server, deps, created, damage, lease, tab, news>>
        /\ checkpoints' = checkpoints /\ updates' = updates /\ outbox' = outbox
        /\ nextSequence' = nextSequence /\ compacted' = compacted /\ serverBase' = serverBase
    BY DEF ReadOutbox, SyncNextFrame, worldVars, storageVars
  <1>2. frame' \in Frame /\ \A f \in sent' : f \in sent \/ (f \subseteq saved /\ f \subseteq Local)
    <2>1. CASE ReadOutbox(t)
      <3>1. PICK last \in outbox :
                frame' = [frame EXCEPT !.read = {o.msg : o \in {p \in outbox : p.seq <= last.seq}}]
        BY <2>1 DEF ReadOutbox
      <3>2. sent' = sent
        BY <2>1 DEF ReadOutbox, worldVars
      <3>3. {o.msg : o \in {p \in outbox : p.seq <= last.seq}} \in SUBSET Local
        BY Kinds DEF LogInv
      <3>4. frame' \in Frame
        BY <3>1, <3>3 DEF LogInv, TypeOK, Frame
      <3> QED
        BY <3>2, <3>4
    <2>2. CASE SyncNextFrame(t)
      <3>1. /\ frame' = [covers |-> frame.read, read |-> {}] /\ sent' = sent \cup {frame.read}
            /\ frame.read \in SUBSET Local /\ frame.read \subseteq saved
        BY <2>2 DEF SyncNextFrame, ReadIsSaved, LogInv, TypeOK, Frame
      <3> QED
        BY <3>1 DEF Frame
    <2> QED
      BY <2>1, <2>2
  <1>3. TypeOK'
    <2>1. sent' \in SUBSET SUBSET Local
      BY <1>2 DEF LogInv, TypeOK
    <2> QED
      BY <1>1, <1>2, <2>1 DEF LogInv, TypeOK
  <1>4. Store'
    <2>1. \A c : Restores(c)' = Restores(c)
      BY <1>1 DEF Restores, Ops, UpdatesAfter
    <2>2. StartsEmpty' /\ Numbered' /\ OutboxPinned' /\ Chained'
      BY <1>1 DEF LogInv, Store, StartsEmpty, Numbered, OutboxPinned, Usable, Chained
    <2>3. Agree' /\ Complete' /\ Made'
      BY <1>1, <1>2, <2>1 DEF LogInv, Store, Agree, Complete, Made, Ops
    <2>4. Replayable'
      BY <1>1 DEF LogInv, Store, Replayable, Replays, UpdatesAfter, Ops
    <2> QED
      BY <2>2, <2>3, <2>4 DEF Store
  <1>5. Sessions'
    BY <1>1, SessionsKept DEF LogInv
  <1> QED
    BY <1>3, <1>4, <1>5 DEF LogInv

LEMMA AcceptsKeep ==
    ASSUME LogInv, NEW f \in sent, ServerAccepts(f)
    PROVE  LogInv'
  <1>1. /\ UNCHANGED <<storageVars, saved, deps, created, damage, lease, tab, news, frame>>
        /\ checkpoints' = checkpoints /\ updates' = updates /\ outbox' = outbox
        /\ nextSequence' = nextSequence /\ compacted' = compacted /\ serverBase' = serverBase
        /\ server' = server \cup f /\ sent' = sent
    BY DEF ServerAccepts, storageVars
  <1>2. f \subseteq saved /\ f \subseteq Local
    BY DEF LogInv, Store, Made, TypeOK
  <1>3. TypeOK'
    <2>1. server' \in SUBSET Update /\ sent' \in SUBSET SUBSET Local
      BY <1>1, <1>2 DEF LogInv, TypeOK, Update
    <2> QED
      BY <1>1, <2>1 DEF LogInv, TypeOK
  <1>4. Store'
    <2>1. \A c : Restores(c)' = Restores(c)
      BY <1>1 DEF Restores, Ops, UpdatesAfter
    <2>2. StartsEmpty' /\ Numbered' /\ OutboxPinned' /\ Chained'
      BY <1>1 DEF LogInv, Store, StartsEmpty, Numbered, OutboxPinned, Usable, Chained
    <2>3. Agree' /\ Complete' /\ Made'
      BY <1>1, <1>2, <2>1 DEF LogInv, Store, Agree, Complete, Made, Ops
    <2>4. Replayable'
      BY <1>1 DEF LogInv, Store, Replayable, Replays, UpdatesAfter, Ops
    <2> QED
      BY <2>2, <2>3, <2>4 DEF Store
  <1>5. Sessions'
    BY <1>1, SessionsKept DEF LogInv
  <1> QED
    BY <1>3, <1>4, <1>5 DEF LogInv

\* A new update, of a command here or of another replica, depends on what it was
\* made on top of and disturbs nothing older.
LEMMA EditStore ==
    ASSUME TypeOK, Store, NEW u \in Update, u \notin created, NEW d, d \subseteq Update,
           created' = created \cup {u}, deps' = [deps EXCEPT ![u] = d],
           server' = server \/ (server' = server \cup {u} /\ u \notin Local),
           UNCHANGED <<storageVars, saved, sent>>
    PROVE  /\ Store' /\ \A c : Restores(c)' = Restores(c)
           /\ \A v \in created : deps'[v] = deps[v]
           /\ deps'[u] = d /\ deps' \in [Update -> SUBSET Update] /\ created' \in SUBSET Update
  <1>1. /\ checkpoints' = checkpoints /\ updates' = updates /\ outbox' = outbox
        /\ nextSequence' = nextSequence /\ compacted' = compacted /\ serverBase' = serverBase
        /\ saved' = saved /\ sent' = sent
    BY DEF storageVars
  <1>2. \A c : Restores(c)' = Restores(c)
    BY <1>1 DEF Restores, Ops, UpdatesAfter
  <1>3. deps \in [Update -> SUBSET Update] /\ created \in SUBSET Update
    BY DEF TypeOK
  <1>4. /\ \A v \in Update : v # u => deps'[v] = deps[v]
        /\ deps'[u] = d /\ deps' \in [Update -> SUBSET Update] /\ created' \in SUBSET Update
    BY <1>3
  <1>5. \A v \in created : v # u /\ deps'[v] = deps[v]
    BY <1>3, <1>4
  <1>6. StartsEmpty' /\ Numbered' /\ OutboxPinned' /\ Agree' /\ Complete'
    BY <1>1, <1>2 DEF Store, StartsEmpty, Numbered, OutboxPinned, Usable, Agree, Complete, Ops
  <1>7. Made'
    <2>1. IsFiniteSet(created')
      BY FS_AddElement DEF Store, Made
    <2> QED
      BY <1>1, <1>2, <2>1 DEF Store, Made
  <1>8. Replayable'
    <2>1. ASSUME NEW c \in checkpoints, NEW r \in UpdatesAfter(c.seq)
          PROVE  Replays(r, c, UpdatesAfter(c.seq))'
      <3>1. Replays(r, c, UpdatesAfter(c.seq))
        BY DEF Store, Replayable
      <3>2. r.ops \subseteq created
        BY DEF UpdatesAfter, Ops, Store, Complete, Made
      <3>3. \A v \in r.ops : deps'[v] = deps[v]
        BY <1>5, <3>2
      <3>4. UpdatesAfter(c.seq)' = UpdatesAfter(c.seq)
        BY <1>1 DEF UpdatesAfter
      <3> QED
        BY <3>1, <3>3, <3>4 DEF Replays, Ops
    <2>2. \A c : UpdatesAfter(c.seq)' = UpdatesAfter(c.seq)
      BY <1>1 DEF UpdatesAfter
    <2> QED
      BY <1>1, <2>1, <2>2 DEF Replayable
  <1>9. Chained'
    <2>1. \A v \in saved \cap Local : deps'[v] = deps[v]
      BY <1>5 DEF Store, Made
    <2> QED
      BY <1>1, <2>1 DEF Store, Chained
  <1> QED
    BY <1>2, <1>4, <1>5, <1>6, <1>7, <1>8, <1>9 DEF Store

\* A session keeps what it knows when an update is made that it did not ask for.
LEMMA SessionAfterEdit ==
    ASSUME Sessions, UNCHANGED <<storageVars, lease, tab>>, created \subseteq created',
           \A v \in created : deps'[v] = deps[v]
    PROVE  Sessions'
  <1> SUFFICES ASSUME NEW t \in Tab PROVE SessionOf(t)'
    BY DEF Sessions
  <1>1. /\ SessionOf(t) /\ tab' = tab /\ lease' = lease /\ nextSequence' = nextSequence
        /\ checkpoints' = checkpoints /\ updates' = updates /\ serverBase' = serverBase
    BY DEF Sessions, storageVars
  <1>2. Opens(t)' /\ Holding(t)'
    BY <1>1 DEF SessionOf, Opens, Holding, Holds, At
  <1>3. ASSUME Recovers(t) PROVE Recovers(t)'
    <2>1. ReadingNow(t)' /\ ScanningNow(t)' /\ ~At(t, "repairing")' /\ ~At(t, "closed")'
      BY <1>1, <1>3 DEF Recovers, ReadingNow, ScanningNow, At, Usable
    <2>2. \A c : Restores(c)' = Restores(c)
      BY <1>1 DEF Restores, Ops, UpdatesAfter
    <2>3. WorkingNow(t) /\ Unsaved(t)' = Unsaved(t)
      BY <1>1, <1>3 DEF Recovers, Unsaved
    <2>4. WorkingNow(t)'
      BY <1>1, <2>2, <2>3 DEF WorkingNow, Working, At
    <2> QED
      BY <2>1, <2>4 DEF Recovers
  <1> QED
    BY <1>1, <1>2, <1>3 DEF SessionOf, Holds

LEMMA ForeignKeeps ==
    ASSUME LogInv, NEW u \in Foreign, ForeignEdit(u)
    PROVE  LogInv'
  <1>1. /\ UNCHANGED <<storageVars, lease, tab, frame, news, saved, sent, damage>>
        /\ u \notin created /\ created' = created \cup {u} /\ deps' = [deps EXCEPT ![u] = server]
        /\ server' = server \cup {u}
    BY DEF ForeignEdit
  <1>2. u \in Update /\ u \notin Local /\ server \subseteq Update
    BY OriginAssumption DEF Update, LogInv, TypeOK
  <1>3. /\ Store' /\ \A v \in created : deps'[v] = deps[v]
        /\ deps' \in [Update -> SUBSET Update] /\ created' \in SUBSET Update
    BY <1>1, <1>2, EditStore DEF LogInv
  <1>4. Sessions'
    BY <1>1, <1>3, SessionAfterEdit DEF LogInv
  <1>5. TypeOK'
    BY <1>1, <1>2, <1>3 DEF LogInv, TypeOK, storageVars
  <1> QED
    BY <1>3, <1>4, <1>5 DEF LogInv

\* What a damaged checkpoint held stays recoverable through another one.
LEMMA DamageKeeps ==
    ASSUME LogInv, DamageCheckpoint
    PROVE  LogInv'
  <1>1. PICK c \in Usable(checkpoints) :
            /\ Usable(checkpoints) # {c}
            /\ checkpoints' = (checkpoints \ {c}) \cup {[c EXCEPT !.ok = FALSE]}
    BY DEF DamageCheckpoint
  <1>2. /\ updates' = updates /\ outbox' = outbox /\ nextSequence' = nextSequence
        /\ compacted' = compacted /\ serverBase' = serverBase /\ lease' = lease /\ tab' = tab
        /\ frame' = frame /\ news' = news /\ saved' = saved /\ server' = server /\ sent' = sent
        /\ deps' = deps /\ created' = created
        /\ damage' = [damage EXCEPT !["checkpoint"] = @ + 1]
    BY DEF DamageCheckpoint
  <1> DEFINE hurt == [c EXCEPT !.ok = FALSE]
  <1>3. /\ c \in checkpoints /\ c \in CheckpointRecord /\ hurt \in CheckpointRecord
        /\ hurt.seq = c.seq /\ hurt.doc = c.doc /\ checkpoints' = (checkpoints \ {c}) \cup {hurt}
    <2>1. c \in CheckpointRecord
      BY Kinds DEF Usable, LogInv
    <2> QED
      BY <1>1, <2>1 DEF CheckpointRecord, Usable
  <1> HIDE DEF hurt
  <1>4. \A e \in checkpoints' : \E d \in checkpoints : e.seq = d.seq /\ e.doc = d.doc
    BY <1>3
  <1>5. \A d \in checkpoints : \E e \in checkpoints' : e.seq = d.seq /\ e.doc = d.doc
    BY <1>3
  <1>6. \A d : UpdatesAfter(d.seq)' = UpdatesAfter(d.seq) /\ Restores(d)' = Restores(d)
    BY <1>2 DEF Restores, Ops, UpdatesAfter
  <1>7. \A e \in checkpoints' : \E d \in checkpoints : e.seq = d.seq /\ e.doc = d.doc /\ Restores(e)' = Restores(d)
    <2> SUFFICES ASSUME NEW e \in checkpoints'
                 PROVE  \E d \in checkpoints : e.seq = d.seq /\ e.doc = d.doc /\ Restores(e)' = Restores(d)
      OBVIOUS
    <2>1. PICK d \in checkpoints : e.seq = d.seq /\ e.doc = d.doc
      BY <1>4
    <2>2. Restores(e) = Restores(d)
      BY <2>1 DEF Restores
    <2> QED
      BY <1>6, <2>1, <2>2
  <1>8. TypeOK'
    <2>1. checkpoints' \in SUBSET CheckpointRecord
      BY <1>3 DEF LogInv, TypeOK
    <2>2. damage' \in [{"update", "checkpoint"} -> Nat]
      BY <1>2 DEF LogInv, TypeOK
    <2> QED
      BY <1>2, <2>1, <2>2 DEF LogInv, TypeOK
  <1>9. Store'
    <2>1. StartsEmpty'
      BY <1>2, <1>3 DEF LogInv, Store, StartsEmpty
    <2>2. Numbered'
      <3>1. Usable(checkpoints') # {}
        <4>1. PICK e \in Usable(checkpoints) : e # c
          BY <1>1
        <4>2. e \in Usable(checkpoints')
          BY <1>3, <4>1 DEF Usable
        <4> QED
          BY <4>2
      <3>2. \A e \in checkpoints' : e.seq <= compacted
        BY <1>4 DEF LogInv, Store, Numbered
      <3>3. \A e, d \in checkpoints' : e.seq = d.seq => e = d
        BY <1>3 DEF LogInv, Store, Numbered
      <3> QED
        BY <1>2, <3>1, <3>2, <3>3 DEF LogInv, Store, Numbered, Usable
    <2>3. Agree'
      BY <1>7 DEF LogInv, Store, Agree
    <2>4. Complete'
      BY <1>2, <1>7 DEF LogInv, Store, Complete, Ops
    <2>5. Replayable'
      <3> SUFFICES ASSUME NEW e \in checkpoints', NEW r \in UpdatesAfter(e.seq)
                   PROVE  Replays(r, e, UpdatesAfter(e.seq))
        BY <1>2, <1>6 DEF Replayable, Replays, Ops
      <3>1. PICK d \in checkpoints : e.seq = d.seq /\ e.doc = d.doc
        BY <1>4
      <3>2. Replays(r, d, UpdatesAfter(d.seq))
        BY <3>1 DEF LogInv, Store, Replayable
      <3> QED
        BY <3>1, <3>2 DEF Replays
    <2>6. OutboxPinned' /\ Chained'
      BY <1>2 DEF LogInv, Store, OutboxPinned, Chained
    <2>7. Made'
      BY <1>2, <1>7 DEF LogInv, Store, Made
    <2> QED
      BY <2>1, <2>2, <2>3, <2>4, <2>5, <2>6, <2>7 DEF Store
  <1>10. Sessions'
    <2> SUFFICES ASSUME NEW t \in Tab PROVE SessionOf(t)'
      BY DEF Sessions
    <2>1. SessionOf(t)
      BY DEF LogInv, Sessions
    <2>2. Opens(t)' /\ Holding(t)'
      BY <1>2, <2>1 DEF SessionOf, Opens, Holding, Holds, At
    <2>3. ASSUME Recovers(t) PROVE Recovers(t)'
      <3>1. ReadingNow(t)'
        <4>1. ASSUME NEW s, \E d \in checkpoints : d.seq = s.seq /\ d.doc = s.doc
              PROVE  \E d \in checkpoints' : d.seq = s.seq /\ d.doc = s.doc
          BY <1>5, <4>1
        <4>2. checkpoints # {}
          BY <1>3
        <4> QED
          BY <1>2, <2>3, <4>1, <4>2 DEF Recovers, ReadingNow, At, Usable
      <3>2. ScanningNow(t)'
        BY <1>2, <1>5, <2>3 DEF Recovers, ScanningNow, At
      <3>3. WorkingNow(t)'
        <4>1. \A X : (\A d \in checkpoints : X = Restores(d)) => (\A e \in checkpoints' : X = Restores(e)')
          BY <1>7
        <4>2. checkpoints' # {} /\ Unsaved(t)' = Unsaved(t) /\ WorkingNow(t)
          BY <1>2, <1>3, <2>3 DEF Recovers, Unsaved
        <4>3. Working(t) => \A e \in checkpoints' : tab[t].doc = Restores(e)' \cup Unsaved(t)
          BY <1>7, <4>2 DEF WorkingNow
        <4>4. Working(t) /\ tab[t].pending # None =>
                  \A e \in checkpoints' : deps[tab[t].pending] = Restores(e)' /\ tab[t].pending \notin Restores(e)'
          BY <1>7, <4>2 DEF WorkingNow
        <4> QED
          BY <1>2, <4>2, <4>3, <4>4 DEF WorkingNow, Working, At
      <3> QED
        BY <1>2, <2>3, <3>1, <3>2, <3>3 DEF Recovers, At
    <2> QED
      BY <1>2, <2>1, <2>2, <2>3 DEF SessionOf, Holds
  <1> QED
    BY <1>8, <1>9, <1>10 DEF LogInv
-----------------------------------------------------------------------------
(* The holder's writes.                                                    *)

LEMMA TabSet ==
    ASSUME TypeOK, NEW t \in Tab, NEW new \in TabState, tab' = [tab EXCEPT ![t] = new]
    PROVE  tab' \in [Tab -> TabState] /\ tab'[t] = new /\ \A q \in Tab \ {t} : tab'[q] = tab[q]
  <1>1. tab \in [Tab -> TabState]
    BY Kinds
  <1> QED
    BY <1>1

LEMMA HolderStep ==
    ASSUME LogInv, NEW t \in Tab, Holds(t), TypeOK', Store', SessionOf(t)',
           \A q \in Tab \ {t} : tab'[q] = tab[q], lease' \in {lease, None},
           nextSequence <= nextSequence'
    PROVE  LogInv'
  <1>1. \A q \in Tab \ {t} : (lease' = q <=> lease = q)
    BY TabAssumption DEF Holds
  <1>2. Others(t)
    BY <1>1 DEF Others
  <1> QED
    BY <1>2, SessionsStep DEF LogInv

\* A working tab after a write.
LEMMA WorkedSession ==
    ASSUME LogInv, NEW t \in Tab, TypeOK', tab'[t].step \in {"ready", "saving", "compacting"},
           tab'[t].seen = tab[t].seen, lease' = t, nextSequence <= nextSequence',
           WorkingNow(t)'
    PROVE  SessionOf(t)'
  <1>1. Opens(t)'
    BY OpensKept DEF LogInv, Sessions, SessionOf
  <1> QED
    BY <1>1 DEF SessionOf, Holding, Holds, Recovers, ReadingNow, ScanningNow, At

\* What the holder knows while it works.
LEMMA Knows ==
    ASSUME LogInv, NEW t \in Tab, Holds(t), Working(t)
    PROVE  /\ WorkingNow(t) /\ checkpoints # {} /\ nextSequence \in Nat /\ tab[t] \in TabState
           /\ tab[t].applied \in Nat /\ tab[t].applied < nextSequence
           /\ \A r \in updates : r.seq \in Nat /\ r.seq <= tab[t].applied
           /\ \A c \in checkpoints : tab[t].doc = Restores(c) \cup Unsaved(t)
           /\ tab[t].pending = None => \A c \in checkpoints : tab[t].doc = Restores(c)
           /\ tab[t].doc \subseteq Update
  <1>1. WorkingNow(t)
    BY DEF LogInv, Sessions, SessionOf, Recovers
  <1>2. tab[t] \in TabState /\ tab[t].applied \in Nat /\ tab[t].doc \subseteq Update
    BY TabKinds DEF LogInv
  <1>3. nextSequence \in Nat /\ \A r \in updates : r.seq \in Nat
    BY Kinds DEF LogInv
  <1>4. tab[t].pending = None => Unsaved(t) = {}
    BY DEF Unsaved
  <1> QED
    BY <1>1, <1>2, <1>3, <1>4 DEF WorkingNow

LEMMA CreateKeeps ==
    ASSUME LogInv, NEW t \in Tab, CreateBase(t), Holds(t)
    PROVE  LogInv'
  <1> DEFINE new == [tab[t] EXCEPT !.step = "scanning", !.base = EmptyBase]
             base == [seq |-> 0, doc |-> {}, ok |-> TRUE]
  <1>1. SessionOf(t) /\ tab[t] \in TabState /\ tab \in [Tab -> TabState]
    BY Kinds DEF LogInv, Sessions
  <1>2. /\ checkpoints = {} /\ tab[t].seen = {} /\ tab[t].pending = None
        /\ updates = {} /\ outbox = {} /\ compacted = 0 /\ ~serverBase /\ saved = {}
    <2>1. checkpoints = {} /\ tab[t].seen = {} /\ tab[t].pending = None
      BY <1>1 DEF CreateBase, SessionOf, Recovers, ReadingNow, Opens, At
    <2> QED
      BY <2>1 DEF LogInv, Store, StartsEmpty
  <1>3. /\ tab' = [tab EXCEPT ![t] = new] /\ InstallCheckpoint(0, {})
        /\ outbox' = outbox /\ nextSequence' = nextSequence /\ serverBase' = serverBase
        /\ lease' = lease /\ frame' = frame /\ news' = news /\ saved' = saved /\ server' = server
        /\ sent' = sent /\ deps' = deps /\ created' = created /\ damage' = damage
    BY <1>1 DEF CreateBase, worldVars
  <1>4. PutCheckpoint(0, {}) = {base}
    BY <1>2 DEF PutCheckpoint
  <1>5. base \in CheckpointRecord /\ base.seq = 0 /\ base.doc = {} /\ base.ok = TRUE /\ base = EmptyBase
    BY DEF CheckpointRecord, EmptyBase
  <1>6. /\ new \in TabState /\ new.step = "scanning" /\ new.seen = {} /\ new.base = base
        /\ new.pending = None
    BY <1>1, <1>2, <1>5 DEF TabState, TabStep
  <1> HIDE DEF base
  <1>7. NewestTwo({base}) = {base}
    <2>1. {d \in {base} : d.seq > base.seq} = {}
      BY <1>5
    <2>2. Cardinality({d \in {base} : d.seq > base.seq}) = 0
      BY <2>1, FS_EmptySet, Zenon
    <2>3. Cardinality({d \in {base} : d.seq > base.seq}) < 2
      BY <2>2
    <2> QED
      BY <2>3 DEF NewestTwo
  <1>8. checkpoints' = {base} /\ updates' = {} /\ compacted' = 0
    BY <1>2, <1>3, <1>4, <1>7 DEF InstallCheckpoint
  <1> HIDE DEF new
  <1>9. tab' \in [Tab -> TabState] /\ tab'[t] = new /\ \A q \in Tab \ {t} : tab'[q] = tab[q]
    BY <1>3, <1>6, TabSet DEF LogInv
  <1>10. TypeOK'
    BY <1>3, <1>5, <1>8, <1>9 DEF LogInv, TypeOK
  <1>11. Restores(base)' = {}
    BY <1>5, <1>8 DEF Restores, Ops, UpdatesAfter
  <1>12. Store'
    <2>1. StartsEmpty' /\ OutboxPinned'
      BY <1>2, <1>3, <1>8 DEF StartsEmpty, OutboxPinned
    <2>2. Numbered'
      <3>1. 0 < nextSequence'
        BY <1>3, Kinds DEF LogInv
      <3> QED
        BY <1>5, <1>8, <3>1 DEF Numbered, Usable
    <2>3. Agree' /\ Complete' /\ Replayable'
      BY <1>2, <1>3, <1>8, <1>11 DEF Agree, Complete, Replayable, Ops, UpdatesAfter
    <2>4. Made' /\ Chained'
      BY <1>2, <1>3, <1>8, <1>11 DEF LogInv, Store, Made, Chained
    <2> QED
      BY <2>1, <2>2, <2>3, <2>4 DEF Store
  <1>13. SessionOf(t)'
    <2>1. Opens(t)' /\ Holding(t)'
      BY <1>6, <1>9 DEF Opens, Holding, At
    <2>2. Recovers(t)'
      BY <1>6, <1>8, <1>9 DEF Recovers, ReadingNow, ScanningNow, WorkingNow, Working, At
    <2> QED
      BY <2>1, <2>2 DEF SessionOf
  <1>14. nextSequence <= nextSequence'
    BY <1>3, Kinds DEF LogInv
  <1> QED
    BY <1>3, <1>9, <1>10, <1>12, <1>13, <1>14, HolderStep

\* The holder's rows replay to the last: it repairs nothing.
LEMMA RepairKeeps ==
    ASSUME LogInv, NEW t \in Tab, RepairCorruptTail(t), Holds(t)
    PROVE  LogInv'
  BY DEF LogInv, Sessions, SessionOf, Recovers, RepairCorruptTail

LEMMA ExecuteKeeps ==
    ASSUME LogInv, NEW t \in Tab, NEW u \in Local, Execute(t, u)
    PROVE  LogInv'
  <1> DEFINE new == [tab[t] EXCEPT !.step = "saving", !.pending = u, !.doc = @ \cup {u}]
  <1>1. /\ Holds(t) /\ At(t, "ready") /\ tab[t].pending = None /\ serverBase /\ u \notin created
        /\ UNCHANGED storageVars /\ saved' = saved /\ server' = server /\ sent' = sent
        /\ created' = created \cup {u} /\ deps' = [deps EXCEPT ![u] = tab[t].doc]
        /\ lease' = lease /\ frame' = frame /\ news' = news /\ damage' = damage
    BY DEF Execute
  <1>2. Working(t)
    BY <1>1 DEF Working, At
  <1>3. /\ checkpoints # {} /\ tab[t] \in TabState /\ tab[t].doc \subseteq Update
        /\ \A c \in checkpoints : tab[t].doc = Restores(c)
        /\ tab[t].applied < nextSequence /\ \A r \in updates : r.seq <= tab[t].applied
    BY <1>1, <1>2, Knows
  <1>4. u \in Update /\ u # None
    BY TabAssumption DEF Update
  <1>5. tab' = [tab EXCEPT ![t] = new]
    <2>1. tab \in [Tab -> TabState]
      BY Kinds DEF LogInv
    <2> QED
      BY <2>1 DEF Execute
  <1>6. /\ new \in TabState /\ new.step = "saving" /\ new.seen = tab[t].seen /\ new.pending = u
        /\ new.doc = tab[t].doc \cup {u} /\ new.applied = tab[t].applied
    BY <1>3, <1>4 DEF TabState, TabStep
  <1> HIDE DEF new
  <1>7. tab' \in [Tab -> TabState] /\ tab'[t] = new /\ \A q \in Tab \ {t} : tab'[q] = tab[q]
    BY <1>5, <1>6, TabSet DEF LogInv
  <1>8. /\ Store' /\ \A c : Restores(c)' = Restores(c)
        /\ deps'[u] = tab[t].doc /\ deps' \in [Update -> SUBSET Update] /\ created' \in SUBSET Update
    BY <1>1, <1>3, <1>4, EditStore DEF LogInv
  <1>9. /\ checkpoints' = checkpoints /\ updates' = updates /\ nextSequence' = nextSequence
        /\ serverBase' = serverBase /\ outbox' = outbox /\ compacted' = compacted
    BY <1>1 DEF storageVars
  <1>10. TypeOK'
    BY <1>1, <1>7, <1>8, <1>9 DEF LogInv, TypeOK
  <1>11. \A c \in checkpoints : u \notin Restores(c)
    BY <1>1 DEF LogInv, Store, Made
  <1>12. WorkingNow(t)'
    <2>1. Unsaved(t)' = {u}
      BY <1>4, <1>6, <1>7 DEF Unsaved
    <2> QED
      BY <1>1, <1>3, <1>4, <1>6, <1>7, <1>8, <1>9, <1>11, <2>1 DEF WorkingNow, At
  <1>13. nextSequence <= nextSequence' /\ lease' = t
    BY <1>1, <1>9, Kinds DEF LogInv, Holds
  <1>14. SessionOf(t)'
    BY <1>6, <1>7, <1>10, <1>12, <1>13, WorkedSession
  <1> QED
    BY <1>1, <1>7, <1>8, <1>10, <1>13, <1>14, HolderStep

\* appendUpdate by the holder: whether the row is new or was stored before, the log
\* then restores its operations too.
LEMMA Appended ==
    ASSUME LogInv, NEW t \in Tab, Holds(t), Working(t), NEW ops, ops \subseteq Update,
           \A c \in checkpoints : \A u \in ops : deps[u] \subseteq Restores(c) \cup ops,
           AppendUpdate(ops), UNCHANGED <<checkpoints, compacted, deps>>,
           NEW s, s = SequenceFor(ops)
    PROVE  /\ Numbered' /\ Agree' /\ Replayable' /\ updates' \in SUBSET UpdateRecord
           /\ nextSequence' \in Nat \ {0} /\ nextSequence <= nextSequence'
           /\ \A c \in checkpoints : Restores(c)' = Restores(c) \cup ops
           /\ Ops(updates') = Ops(updates) \cup ops
           /\ updates \subseteq updates'
           /\ \E r \in updates' : r.seq = s /\ r.ops = ops
           /\ Max({tab[t].applied, s}) \in Nat /\ Max({tab[t].applied, s}) < nextSequence'
           /\ \A r \in updates' : r.seq <= Max({tab[t].applied, s})
  <1>1. /\ checkpoints # {} /\ nextSequence \in Nat /\ nextSequence > 0
        /\ tab[t].applied \in Nat /\ tab[t].applied < nextSequence
        /\ \A r \in updates : r.seq \in Nat /\ r.seq <= tab[t].applied /\ r.seq < nextSequence
    <2>1. nextSequence > 0 /\ \A r \in updates : r.seq < nextSequence
      BY Kinds DEF LogInv, Store, Numbered
    <2> QED
      BY <2>1, Knows
  <1>2. CASE Existing(ops) = {}
    <2>1. /\ s = nextSequence
          /\ updates' = updates \cup {[seq |-> nextSequence, ops |-> ops, ok |-> TRUE]}
          /\ nextSequence' = nextSequence + 1
      BY <1>2 DEF SequenceFor, AppendUpdate
    <2>6. \A c \in checkpoints : UNION {deps[u] : u \in ops} \subseteq Restores(c) \cup ops
      OBVIOUS
    <2>2. /\ Numbered' /\ Agree' /\ Replayable' /\ updates' \in SUBSET UpdateRecord
          /\ nextSequence' \in Nat \ {0}
          /\ \A c \in checkpoints : Restores(c)' = Restores(c) \cup ops
          /\ Ops(updates') = Ops(updates) \cup ops
      BY <1>1, <2>1, <2>6, AppendRow DEF LogInv
    <2> DEFINE row == [seq |-> nextSequence, ops |-> ops, ok |-> TRUE]
    <2>7. row.seq = nextSequence /\ row.ops = ops /\ updates' = updates \cup {row}
      BY <2>1
    <2> HIDE DEF row
    <2>4. \A r \in updates' : r.seq <= nextSequence
      BY <1>1, <2>7
    <2>5. \E r \in updates' : r.seq = s /\ r.ops = ops
      BY <2>1, <2>7
    <2>8. updates \subseteq updates' /\ nextSequence <= nextSequence'
      BY <1>1, <2>1, <2>7
    <2>3. Max({tab[t].applied, s}) = nextSequence
      BY <1>1, <2>1, MaxOfTwo
    <2>9. /\ Max({tab[t].applied, s}) \in Nat /\ Max({tab[t].applied, s}) < nextSequence'
          /\ \A r \in updates' : r.seq <= Max({tab[t].applied, s})
      <3>1. nextSequence < nextSequence'
        BY <1>1, <2>1
      <3> QED
        BY <1>1, <2>3, <2>4, <3>1
    <2> QED
      BY <2>2, <2>5, <2>8, <2>9
  <1>3. CASE Existing(ops) # {}
    <2>1. s = Newest(Existing(ops)).seq /\ updates' = updates /\ nextSequence' = nextSequence
      BY <1>3 DEF SequenceFor, AppendUpdate
    <2>2. PICK r : r = Newest(Existing(ops))
      OBVIOUS
    <2>3. r \in Existing(ops)
      <3>1. \A q \in Existing(ops) : q.seq \in Nat /\ q.seq < nextSequence
        BY <1>1 DEF Existing
      <3> QED
        BY <1>1, <1>3, <2>2, <3>1, NewestIs
    <2>4. r \in updates /\ r.ops = ops /\ r.seq = s
      BY <2>1, <2>2, <2>3 DEF Existing
    <2>5. Max({tab[t].applied, s}) = tab[t].applied
      BY <1>1, <2>4, MaxOfTwo
    <2>6. ops \subseteq Ops(updates)
      BY <2>4 DEF Ops
    <2>7. \A c \in checkpoints : ops \subseteq Restores(c)
      BY <2>6 DEF LogInv, Store, Complete
    <2>8. \A c : Restores(c)' = Restores(c)
      BY <2>1 DEF Restores, Ops, UpdatesAfter
    <2>9. Numbered' /\ Agree' /\ Replayable'
      BY <2>1, <2>8 DEF LogInv, Store, Numbered, Agree, Replayable, Replays, Usable, UpdatesAfter, Ops
    <2>10. updates' \in SUBSET UpdateRecord /\ nextSequence' \in Nat \ {0} /\ nextSequence <= nextSequence'
      BY <1>1, <2>1 DEF LogInv, TypeOK
    <2>11. (\A c \in checkpoints : Restores(c)' = Restores(c) \cup ops) /\ Ops(updates') = Ops(updates) \cup ops
      BY <2>1, <2>6, <2>7, <2>8
    <2> QED
      BY <1>1, <2>1, <2>4, <2>5, <2>9, <2>10, <2>11
  <1> QED
    BY <1>2, <1>3

\* The rest of what a save or an import does to the log.
LEMMA AppendedStore ==
    ASSUME LogInv, checkpoints # {}, serverBase, serverBase' = serverBase,
           Numbered', Agree', Replayable', Chained', OutboxPinned',
           NEW ops, ops \subseteq created, saved' = saved \cup ops,
           UNCHANGED <<checkpoints, server, sent, created>>,
           \A c \in checkpoints : Restores(c)' = Restores(c) \cup ops,
           Ops(updates') = Ops(updates) \cup ops,
           \A o \in outbox' : o.msg \in saved'
    PROVE  Store'
  <1>1. StartsEmpty'
    BY DEF StartsEmpty
  <1>2. Complete'
    BY DEF LogInv, Store, Complete
  <1>3. Made'
    BY DEF LogInv, Store, Made
  <1> QED
    BY <1>1, <1>2, <1>3 DEF Store

LEMMA PersistKeepsLog ==
    ASSUME LogInv, NEW t \in Tab, PersistPending(t)
    PROVE  LogInv'
  <1>1. PICK u, s : u = tab[t].pending /\ s = SequenceFor({u})
    OBVIOUS
  <1> DEFINE new == [tab[t] EXCEPT !.step = "compacting", !.pending = None, !.applied = Max({@, s})]
             entry == [msg |-> u, seq |-> s]
  <1>2. /\ Saving(t) /\ AppendUpdate({u}) /\ outbox' = {o \in outbox : o.msg # u} \cup {entry}
        /\ saved' = saved \cup {u} /\ UNCHANGED <<checkpoints, compacted, deps>>
        /\ serverBase' = serverBase /\ lease' = lease /\ frame' = frame
        /\ server' = server /\ sent' = sent /\ created' = created /\ damage' = damage
    BY <1>1 DEF PersistPending, worldVars
  <1>3. Holds(t) /\ Working(t) /\ tab[t].step \in {"saving", "resaving"}
    <2>1. SessionOf(t) /\ tab[t].step \in {"saving", "resaving"}
      BY <1>2 DEF LogInv, Sessions, Saving, At
    <2> QED
      BY <2>1 DEF SessionOf, Holding, Working
  <1>4. /\ checkpoints # {} /\ tab[t] \in TabState /\ WorkingNow(t) /\ tab[t].doc \subseteq Update
        /\ \A c \in checkpoints : tab[t].doc = Restores(c) \cup Unsaved(t)
    BY <1>3, Knows
  <1>5. /\ u # None /\ serverBase /\ u \in created
        /\ \A c \in checkpoints : deps[u] = Restores(c) /\ u \notin Restores(c)
    BY <1>1, <1>3, <1>4 DEF WorkingNow
  <1>6. u \in Local /\ u \in Update
    BY <1>1, <1>5, TabKinds DEF LogInv, Update
  <1>7. \A c \in checkpoints : \A v \in {u} : deps[v] \subseteq Restores(c) \cup {u}
    BY <1>5
  <1>8. /\ Numbered' /\ Agree' /\ Replayable' /\ updates' \in SUBSET UpdateRecord
        /\ nextSequence' \in Nat \ {0} /\ nextSequence <= nextSequence'
        /\ \A c \in checkpoints : Restores(c)' = Restores(c) \cup {u}
        /\ Ops(updates') = Ops(updates) \cup {u}
        /\ updates \subseteq updates'
        /\ \E r \in updates' : r.seq = s /\ r.ops = {u}
        /\ Max({tab[t].applied, s}) \in Nat /\ Max({tab[t].applied, s}) < nextSequence'
        /\ \A r \in updates' : r.seq <= Max({tab[t].applied, s})
    <2>1. PICK ops : ops = {u}
      OBVIOUS
    <2>2. /\ ops \subseteq Update /\ s = SequenceFor(ops) /\ AppendUpdate(ops)
          /\ \A c \in checkpoints : \A v \in ops : deps[v] \subseteq Restores(c) \cup ops
      BY <1>1, <1>2, <1>6, <1>7, <2>1
    <2>3. UNCHANGED <<checkpoints, compacted, deps>>
      BY <1>2
    <2> HIDE DEF new, entry
    <2>4. /\ Numbered' /\ Agree' /\ Replayable' /\ updates' \in SUBSET UpdateRecord
          /\ nextSequence' \in Nat \ {0} /\ nextSequence <= nextSequence'
          /\ \A c \in checkpoints : Restores(c)' = Restores(c) \cup ops
          /\ Ops(updates') = Ops(updates) \cup ops
          /\ updates \subseteq updates'
          /\ \E r \in updates' : r.seq = s /\ r.ops = ops
          /\ Max({tab[t].applied, s}) \in Nat /\ Max({tab[t].applied, s}) < nextSequence'
          /\ \A r \in updates' : r.seq <= Max({tab[t].applied, s})
      BY <1>3, <2>2, <2>3, Appended
    <2> QED
      BY <2>1, <2>4
  <1>9. s \in Nat
    BY <1>8 DEF UpdateRecord
  <1>10. entry.msg = u /\ entry.seq = s /\ entry \in OutboxRecord
    BY <1>6, <1>9 DEF OutboxRecord
  <1>11. /\ new \in TabState /\ new.step = "compacting" /\ new.pending = None /\ new.seen = tab[t].seen
         /\ new.doc = tab[t].doc /\ new.applied = Max({tab[t].applied, s})
    BY <1>4, <1>8 DEF TabState, TabStep
  <1>12. tab' = [tab EXCEPT ![t] = new]
    <2>1. tab \in [Tab -> TabState]
      BY Kinds DEF LogInv
    <2> QED
      BY <1>1, <2>1 DEF PersistPending
  <1> HIDE DEF new, entry
  <1>13. tab' \in [Tab -> TabState] /\ tab'[t] = new /\ \A q \in Tab \ {t} : tab'[q] = tab[q]
    BY <1>11, <1>12, TabSet DEF LogInv
  <1>14. TypeOK'
    <2>1. outbox' \in SUBSET OutboxRecord /\ saved' \in SUBSET Update
      BY <1>2, <1>6, <1>10 DEF LogInv, TypeOK
    <2>2. news' \in SUBSET Tab
      BY DEF PersistPending, Announce, LogInv, TypeOK
    <2> QED
      BY <1>2, <1>8, <1>13, <2>1, <2>2 DEF LogInv, TypeOK
  <1>15. OutboxPinned' /\ \A o \in outbox' : o.msg \in saved'
    <2>1. \A o \in outbox : o.msg \in saved /\ \E r \in updates : r.seq = o.seq /\ r.ops = {o.msg}
      BY DEF LogInv, Store, Made, OutboxPinned
    <2> QED
      BY <1>2, <1>8, <1>10, <2>1 DEF OutboxPinned
  <1>16. Chained'
    <2>1. PICK c \in checkpoints : TRUE
      BY <1>4
    <2>2. /\ saved \subseteq deps[u] /\ u \notin saved /\ u \notin deps[u] /\ deps[u] \cap Local \subseteq saved
      BY <1>5, <2>1 DEF LogInv, Store, Complete, Made
    <2>3. \A v \in saved \cap Local : deps[v] \cap Local \subseteq saved /\ u \notin deps[v] /\ v \in deps[u]
      BY <1>6, <2>2 DEF LogInv, Store, Chained
    <2>4. saved' = saved \cup {u} /\ deps' = deps
      BY <1>2
    <2>5. \A v \in saved' \cap Local : v \notin deps[v] /\ deps[v] \cap Local \subseteq saved'
      BY <2>2, <2>3, <2>4 DEF LogInv, Store, Chained
    <2>6. \A v, w \in saved' \cap Local : v # w => v \in deps[w] \/ w \in deps[v]
      BY <2>2, <2>3, <2>4 DEF LogInv, Store, Chained
    <2>7. ASSUME NEW v \in saved' \cap Local, NEW w \in saved' \cap Local, v \in deps[w]
          PROVE  deps[v] \cap Local \subseteq deps[w]
      <3>1. v # u
        BY <2>2, <2>3, <2>4, <2>7
      <3>2. v \in saved \cap Local
        BY <2>4, <3>1
      <3>3. CASE w = u
        BY <2>2, <2>3, <3>2, <3>3
      <3>4. CASE w # u
        BY <2>4, <2>7, <3>2, <3>4 DEF LogInv, Store, Chained
      <3> QED
        BY <3>3, <3>4
    <2> QED
      BY <2>4, <2>5, <2>6, <2>7 DEF Chained
  <1>17. Store'
    <2>1. {u} \subseteq created
      BY <1>5
    <2> QED
      BY <1>2, <1>4, <1>5, <1>8, <1>15, <1>16, <2>1, AppendedStore
  <1>18. WorkingNow(t)'
    <2>1. Unsaved(t) = {u}
      BY <1>1, <1>5 DEF Unsaved
    <2>2. Unsaved(t)' = {}
      BY <1>11, <1>13 DEF Unsaved
    <2>3. \A c \in checkpoints : new.doc = Restores(c)'
      BY <1>4, <1>8, <1>11, <2>1
    <2> QED
      BY <1>2, <1>4, <1>8, <1>11, <1>13, <2>2, <2>3 DEF WorkingNow, At
  <1>19. lease' = t
    BY <1>2, <1>3 DEF Holds
  <1>20. SessionOf(t)'
    BY <1>8, <1>11, <1>13, <1>14, <1>18, <1>19, WorkedSession
  <1> QED
    BY <1>2, <1>3, <1>8, <1>13, <1>14, <1>17, <1>20, HolderStep

LEMMA ImportKeeps ==
    ASSUME LogInv, NEW t \in Tab, NEW ops \in Incoming, SyncImport(t, ops)
    PROVE  LogInv'
  <1>1. PICK s : s = SequenceFor(ops)
    OBVIOUS
  <1> DEFINE new == [tab[t] EXCEPT !.step = "compacting", !.doc = @ \cup ops, !.applied = Max({@, s})]
  <1>2. /\ Holds(t) /\ At(t, "ready") /\ tab[t].pending = None /\ serverBase
        /\ UNION {deps[u] : u \in ops} \subseteq tab[t].doc \cup ops
        /\ AppendUpdate(ops) /\ saved' = saved \cup ops /\ outbox' = outbox
        /\ UNCHANGED <<checkpoints, compacted, deps>>
        /\ serverBase' = serverBase /\ lease' = lease /\ frame' = frame
        /\ server' = server /\ sent' = sent /\ created' = created /\ damage' = damage
    BY DEF SyncImport, worldVars
  <1>3. Working(t)
    BY <1>2 DEF Working, At
  <1>4. /\ checkpoints # {} /\ tab[t] \in TabState /\ tab[t].doc \subseteq Update
        /\ \A c \in checkpoints : tab[t].doc = Restores(c)
    BY <1>2, <1>3, Knows
  <1>5. ops \subseteq server /\ ops \subseteq created /\ ops \subseteq Update /\ ops \cap Local \subseteq saved
    BY DEF Incoming, LogInv, Store, Made, TypeOK
  <1>6. /\ Numbered' /\ Agree' /\ Replayable' /\ updates' \in SUBSET UpdateRecord
        /\ nextSequence' \in Nat \ {0} /\ nextSequence <= nextSequence'
        /\ \A c \in checkpoints : Restores(c)' = Restores(c) \cup ops
        /\ Ops(updates') = Ops(updates) \cup ops
        /\ updates \subseteq updates'
        /\ Max({tab[t].applied, s}) \in Nat /\ Max({tab[t].applied, s}) < nextSequence'
        /\ \A r \in updates' : r.seq <= Max({tab[t].applied, s})
    <2>1. \A c \in checkpoints : \A u \in ops : deps[u] \subseteq Restores(c) \cup ops
      BY <1>2, <1>4
    <2> HIDE DEF new
    <2>2. AppendUpdate(ops) /\ UNCHANGED <<checkpoints, compacted, deps>>
      BY <1>2
    <2> QED
      BY <1>1, <1>2, <1>3, <1>5, <2>1, <2>2, Appended
  <1>7. /\ new \in TabState /\ new.step = "compacting" /\ new.pending = None /\ new.seen = tab[t].seen
        /\ new.doc = tab[t].doc \cup ops /\ new.applied = Max({tab[t].applied, s})
    BY <1>2, <1>4, <1>5, <1>6 DEF TabState, TabStep
  <1>8. tab' = [tab EXCEPT ![t] = new]
    <2>1. tab \in [Tab -> TabState]
      BY Kinds DEF LogInv
    <2> QED
      BY <1>1, <2>1 DEF SyncImport
  <1> HIDE DEF new
  <1>9. tab' \in [Tab -> TabState] /\ tab'[t] = new /\ \A q \in Tab \ {t} : tab'[q] = tab[q]
    BY <1>7, <1>8, TabSet DEF LogInv
  <1>10. TypeOK'
    <2>1. news' \in SUBSET Tab
      BY DEF SyncImport, Announce, LogInv, TypeOK
    <2>2. saved' \in SUBSET Update
      BY <1>2, <1>5 DEF LogInv, TypeOK
    <2> QED
      BY <1>2, <1>6, <1>9, <2>1, <2>2 DEF LogInv, TypeOK
  <1>11. OutboxPinned' /\ \A o \in outbox' : o.msg \in saved'
    <2>1. \A o \in outbox : o.msg \in saved /\ \E r \in updates : r.seq = o.seq /\ r.ops = {o.msg}
      BY DEF LogInv, Store, Made, OutboxPinned
    <2> QED
      BY <1>2, <1>6, <2>1 DEF OutboxPinned
  <1>12. Chained'
    <2>1. saved' \cap Local = saved \cap Local /\ deps' = deps /\ saved \subseteq saved'
      BY <1>2, <1>5
    <2> QED
      BY <2>1 DEF LogInv, Store, Chained
  <1>13. Store'
    BY <1>2, <1>4, <1>5, <1>6, <1>11, <1>12, AppendedStore
  <1>14. WorkingNow(t)'
    <2>1. Unsaved(t)' = {}
      BY <1>7, <1>9 DEF Unsaved
    <2>2. \A c \in checkpoints : new.doc = Restores(c)'
      BY <1>4, <1>6, <1>7
    <2> QED
      BY <1>2, <1>4, <1>6, <1>7, <1>9, <2>1, <2>2 DEF WorkingNow, At
  <1>15. lease' = t
    BY <1>2 DEF Holds
  <1>16. SessionOf(t)'
    BY <1>6, <1>7, <1>9, <1>10, <1>14, <1>15, WorkedSession
  <1> QED
    BY <1>2, <1>6, <1>9, <1>10, <1>13, <1>16, HolderStep

\* maybeCompact, and the compaction of closeNow.
LEMMA Compacts ==
    ASSUME LogInv, NEW t \in Tab, Holds(t), Working(t), tab[t].pending = None,
           InstallCheckpoint(tab[t].applied, tab[t].doc),
           UNCHANGED <<outbox, nextSequence, serverBase, historyVars, damage>>,
           tab' \in [Tab -> TabState], lease' \in Tab \cup {None}, frame' \in Frame, news' \in SUBSET Tab
    PROVE  /\ TypeOK' /\ Store' /\ checkpoints' # {} /\ \A c \in checkpoints' : tab[t].doc = Restores(c)'
           /\ nextSequence' = nextSequence /\ nextSequence <= nextSequence'
           /\ tab[t].applied < nextSequence /\ \A r \in updates' : r.seq <= tab[t].applied
  <1>1. PICK s, doc : s = tab[t].applied /\ doc = tab[t].doc
    OBVIOUS
  <1>2. /\ checkpoints # {} /\ s \in Nat /\ doc \subseteq Update /\ s < nextSequence
        /\ \A c \in checkpoints : doc = Restores(c)
        /\ \A r \in updates : r.seq <= s
    BY <1>1, Knows
  <1>3. InstallCheckpoint(s, doc)
    BY <1>1
  <1>4. /\ Store' /\ checkpoints' # {} /\ \A c \in checkpoints' : Restores(c)' = doc
        /\ updates' \subseteq updates
        /\ checkpoints' \in SUBSET CheckpointRecord /\ updates' \in SUBSET UpdateRecord /\ compacted' \in Nat
    BY <1>2, <1>3, InstallStore DEF LogInv
  <1>5. TypeOK'
    BY <1>4 DEF LogInv, TypeOK, historyVars
  <1>6. nextSequence' = nextSequence /\ nextSequence <= nextSequence'
    BY Kinds DEF LogInv
  <1> QED
    BY <1>1, <1>2, <1>4, <1>5, <1>6

LEMMA CompactKeeps ==
    ASSUME LogInv, NEW t \in Tab, MaybeCompact(t)
    PROVE  LogInv'
  <1>1. /\ At(t, "compacting") /\ InstallCheckpoint(tab[t].applied, tab[t].doc) /\ Goto(t, "ready")
        /\ UNCHANGED <<outbox, nextSequence, serverBase, historyVars, damage>>
        /\ lease' = lease /\ frame' = frame /\ news' = news
    BY DEF MaybeCompact, worldVars, historyVars
  <1>2. Holds(t) /\ Working(t) /\ tab[t].pending = None
    <2>1. SessionOf(t)
      BY DEF LogInv, Sessions
    <2>2. Holds(t) /\ Working(t)
      BY <1>1, <2>1 DEF SessionOf, Holding, At, Working
    <2> QED
      BY <1>1, <2>2, Knows DEF WorkingNow
  <1>3. /\ tab' \in [Tab -> TabState] /\ \A q \in Tab \ {t} : tab'[q] = tab[q]
        /\ tab'[t].step = "ready" /\ tab'[t].seen = tab[t].seen /\ tab'[t].pending = tab[t].pending
        /\ tab'[t].doc = tab[t].doc /\ tab'[t].applied = tab[t].applied
    BY <1>1, GotoType DEF LogInv, TabStep
  <1>4. lease' \in Tab \cup {None} /\ frame' \in Frame /\ news' \in SUBSET Tab /\ lease' = t
    BY <1>1, <1>2 DEF LogInv, TypeOK, Holds
  <1>5. /\ TypeOK' /\ Store' /\ checkpoints' # {} /\ \A c \in checkpoints' : tab[t].doc = Restores(c)'
        /\ nextSequence' = nextSequence /\ nextSequence <= nextSequence'
        /\ tab[t].applied < nextSequence /\ \A r \in updates' : r.seq <= tab[t].applied
    BY <1>1, <1>2, <1>3, <1>4, Compacts
  <1>6. WorkingNow(t)'
    <2>1. Unsaved(t)' = {}
      BY <1>2, <1>3 DEF Unsaved
    <2> QED
      BY <1>2, <1>3, <1>5, <2>1 DEF WorkingNow, At
  <1>7. SessionOf(t)'
    BY <1>3, <1>4, <1>5, <1>6, WorkedSession
  <1> QED
    BY <1>1, <1>2, <1>3, <1>5, <1>7, HolderStep

LEMMA CloseKeeps ==
    ASSUME LogInv, NEW t \in Tab, CloseTab(t)
    PROVE  LogInv'
  <1>1. CASE UNCHANGED <<checkpoints, updates, compacted>>
    BY <1>1, EndsKeep
  <1>2. CASE /\ At(t, "ready") /\ Holds(t) /\ tab[t].pending = None
             /\ InstallCheckpoint(tab[t].applied, tab[t].doc)
    <2>1. /\ UNCHANGED <<outbox, nextSequence, serverBase, historyVars, damage>>
          /\ tab' = [tab EXCEPT ![t] = ClosedTab] /\ lease' = None /\ frame' = NoFrame /\ news' \subseteq news
      BY <1>2 DEF CloseTab, worldVars, historyVars
    <2>2. tab' \in [Tab -> TabState] /\ tab'[t] = ClosedTab /\ \A q \in Tab \ {t} : tab'[q] = tab[q]
      BY <2>1, ClosedTabType, TabSet DEF LogInv
    <2>3. lease' \in Tab \cup {None} /\ frame' \in Frame /\ news' \in SUBSET Tab
      BY <2>1, NoFrameType DEF LogInv, TypeOK
    <2>4. Working(t)
      BY <1>2 DEF Working, At
    <2>5. TypeOK' /\ Store' /\ nextSequence <= nextSequence'
      BY <1>2, <2>1, <2>2, <2>3, <2>4, Compacts
    <2>6. SessionOf(t)'
      <3>1. Opens(t)' /\ tab'[t].step = "closed"
        BY <2>2, ClosedTabType DEF Opens, ClosedTab
      <3>2. lease' # t
        BY <2>1, TabAssumption
      <3> QED
        BY <3>1, <3>2, Idle
    <2> QED
      BY <1>2, <2>1, <2>2, <2>5, <2>6, HolderStep
  <1> QED
    BY <1>1, <1>2 DEF CloseTab

LEMMA ReplaceKeeps ==
    ASSUME LogInv, NEW t \in Tab, SyncReplace(t)
    PROVE  LogInv'
  <1> DEFINE new == [tab[t] EXCEPT !.doc = server, !.applied = nextSequence - 1]
  <1>0. PICK base : base = [seq |-> nextSequence - 1, doc |-> server, ok |-> TRUE]
    OBVIOUS
  <1>1. /\ Holds(t) /\ At(t, "ready") /\ tab[t].pending = None /\ ~serverBase
        /\ checkpoints' = {base} /\ updates' = {} /\ compacted' = nextSequence - 1 /\ serverBase' = TRUE
        /\ outbox' = outbox /\ nextSequence' = nextSequence /\ saved' = saved \cup server
        /\ lease' = lease /\ frame' = frame
        /\ server' = server /\ sent' = sent /\ deps' = deps /\ created' = created /\ damage' = damage
    BY <1>0 DEF SyncReplace, ReplaceHistory, worldVars
  <1>2. saved = {} /\ outbox = {}
    BY <1>1 DEF LogInv, Store, StartsEmpty
  <1>3. nextSequence - 1 \in Nat /\ nextSequence \in Nat /\ nextSequence - 1 < nextSequence
    BY Kinds DEF LogInv
  <1>4. server \subseteq Update /\ server \subseteq created /\ server \cap Local = {}
    BY <1>2 DEF LogInv, TypeOK, Store, Made
  <1>5. base \in CheckpointRecord /\ base.seq = nextSequence - 1 /\ base.doc = server /\ base.ok = TRUE
    BY <1>0, <1>3, <1>4 DEF CheckpointRecord
  <1>6. tab \in [Tab -> TabState] /\ tab[t] \in TabState
    BY Kinds DEF LogInv
  <1>7. /\ new \in TabState /\ new.step = "ready" /\ new.pending = None /\ new.seen = tab[t].seen
        /\ new.doc = server /\ new.applied = nextSequence - 1
    BY <1>1, <1>3, <1>4, <1>6 DEF TabState, At
  <1>8. tab' = [tab EXCEPT ![t] = new]
    BY <1>6 DEF SyncReplace
  <1> HIDE DEF new
  <1>9. tab' \in [Tab -> TabState] /\ tab'[t] = new /\ \A q \in Tab \ {t} : tab'[q] = tab[q]
    BY <1>7, <1>8, TabSet DEF LogInv
  <1>10. TypeOK'
    <2>1. news' \in SUBSET Tab
      BY DEF SyncReplace, Announce, LogInv, TypeOK
    <2>2. checkpoints' \in SUBSET CheckpointRecord /\ updates' \in SUBSET UpdateRecord /\ saved' \in SUBSET Update
      BY <1>1, <1>4, <1>5 DEF LogInv, TypeOK
    <2> QED
      BY <1>1, <1>3, <1>9, <2>1, <2>2 DEF LogInv, TypeOK
  <1>11. Restores(base)' = server
    BY <1>1, <1>5 DEF Restores, Ops, UpdatesAfter
  <1>12. Store'
    <2>1. StartsEmpty' /\ OutboxPinned'
      BY <1>1, <1>2 DEF StartsEmpty, OutboxPinned
    <2>2. Numbered'
      BY <1>1, <1>3, <1>5 DEF Numbered, Usable
    <2>3. Agree' /\ Complete' /\ Replayable'
      BY <1>1, <1>2, <1>11 DEF Agree, Complete, Replayable, Ops, UpdatesAfter
    <2>4. Made'
      BY <1>1, <1>2, <1>4, <1>11 DEF LogInv, Store, Made
    <2>5. Chained'
      BY <1>1, <1>2, <1>4 DEF Chained
    <2> QED
      BY <2>1, <2>2, <2>3, <2>4, <2>5 DEF Store
  <1>13. WorkingNow(t)'
    <2>1. Unsaved(t)' = {}
      BY <1>7, <1>9 DEF Unsaved
    <2> QED
      BY <1>1, <1>3, <1>7, <1>9, <1>11, <2>1 DEF WorkingNow, At
  <1>14. lease' = t /\ nextSequence <= nextSequence'
    BY <1>1, <1>3 DEF Holds
  <1>15. SessionOf(t)'
    BY <1>7, <1>9, <1>10, <1>13, <1>14, WorkedSession
  <1> QED
    BY <1>1, <1>9, <1>10, <1>12, <1>14, <1>15, HolderStep

LEMMA AckKeeps ==
    ASSUME LogInv, NEW t \in Tab, NEW m \in sent, SyncAck(t, m)
    PROVE  LogInv'
  <1>1. /\ Holds(t) /\ Acknowledge(Covers(m)) /\ frame' \in Frame
        /\ UNCHANGED <<checkpoints, nextSequence, compacted, serverBase, historyVars>>
        /\ checkpoints' = checkpoints /\ nextSequence' = nextSequence /\ compacted' = compacted
        /\ serverBase' = serverBase /\ lease' = lease /\ tab' = tab /\ news' = news
        /\ saved' = saved /\ server' = server /\ sent' = sent /\ deps' = deps /\ created' = created
        /\ damage' = damage
    BY DEF SyncAck, worldVars, historyVars, LogInv, TypeOK, Frame
  <1>2. /\ Store' /\ \A c \in checkpoints : Restores(c)' = Restores(c)
        /\ updates' \subseteq updates /\ outbox' \subseteq outbox
    BY <1>1, AckStore DEF LogInv
  <1>3. TypeOK'
    BY <1>1, <1>2 DEF LogInv, TypeOK
  <1>4. SessionOf(t)'
    <2>1. SessionOf(t)
      BY DEF LogInv, Sessions
    <2>2. Opens(t)' /\ Holding(t)'
      BY <1>1, <2>1 DEF SessionOf, Opens, Holding, Holds, At
    <2>3. Recovers(t)
      BY <1>1, <2>1 DEF SessionOf
    <2>4. ReadingNow(t)' /\ ScanningNow(t)' /\ ~At(t, "repairing")' /\ ~At(t, "closed")'
      BY <1>1, <2>3 DEF Recovers, ReadingNow, ScanningNow, At, Usable
    <2>5. WorkingNow(t)'
      <3>1. WorkingNow(t) /\ Unsaved(t)' = Unsaved(t)
        BY <1>1, <2>3 DEF Recovers, Unsaved
      <3> QED
        BY <1>1, <1>2, <3>1 DEF WorkingNow, Working, At
    <2> QED
      BY <2>2, <2>4, <2>5 DEF SessionOf, Recovers
  <1>5. nextSequence <= nextSequence'
    BY <1>1, Kinds DEF LogInv
  <1> QED
    BY <1>1, <1>2, <1>3, <1>4, <1>5, HolderStep
-----------------------------------------------------------------------------
(* The invariant, and what follows from it.                                *)

LEMMA LogStart == Init => LogInv
  <1> SUFFICES ASSUME Init PROVE LogInv
    OBVIOUS
  <1>1. \A t \in Tab : tab[t] = ClosedTab
    BY DEF Init
  <1>2. TypeOK
    <2>1. tab \in [Tab -> TabState]
      BY ClosedTabType DEF Init
    <2>2. damage \in [{"update", "checkpoint"} -> Nat] /\ deps \in [Update -> SUBSET Update]
      BY DEF Init
    <2>3. nextSequence \in Nat \ {0} /\ compacted \in Nat /\ lease \in Tab \cup {None}
      BY DEF Init
    <2>4. serverBase \in BOOLEAN
      BY Zenon DEF Init
    <2> QED
      BY <2>1, <2>2, <2>3, <2>4, NoFrameType DEF Init, TypeOK
  <1>3. Store
    <2>1. StartsEmpty /\ Agree /\ Complete /\ Replayable /\ OutboxPinned /\ Chained
      BY DEF Init, StartsEmpty, Agree, Complete, Replayable, OutboxPinned, Chained
    <2>2. Numbered
      BY DEF Init, Numbered
    <2>3. Made
      BY FS_EmptySet DEF Init, Made
    <2> QED
      BY <2>1, <2>2, <2>3 DEF Store
  <1>4. Sessions
    <2> SUFFICES ASSUME NEW t \in Tab PROVE SessionOf(t)
      BY DEF Sessions
    <2>1. Opens(t) /\ Holding(t)
      BY <1>1, ClosedTabType DEF Opens, Holding, ClosedTab, At
    <2>2. ~Holds(t)
      BY TabAssumption DEF Init, Holds
    <2> QED
      BY <2>1, <2>2 DEF SessionOf
  <1> QED
    BY <1>2, <1>3, <1>4 DEF LogInv

LEMMA LogStep == RowsAreKept /\ ReadIsSaved /\ LogInv /\ [Next]_vars /\ [HolderRecovers]_vars => LogInv'
  <1> SUFFICES ASSUME RowsAreKept, ReadIsSaved, LogInv, [Next]_vars, [HolderRecovers]_vars PROVE LogInv'
    OBVIOUS
  <1>1. CASE HolderRecovers /\ \E t \in Tab : TabAction(t)
    <2>1. PICK t \in Tab : TabAction(t)
      BY <1>1
    <2>2. CASE OpenTab(t) \/ Reload(t) \/ TakeOver(t)
      BY <2>2, StartsKeep
    <2>3. CASE ReadCheckpoints(t) \/ RecoverIntact(t) \/ SelectBase(t) \/ ScanTail(t)
      BY <2>3, ReadKeeps, IntactKeeps, SelectKeeps, ScanKeeps
    <2>4. CASE CreateBase(t) \/ RepairCorruptTail(t)
      BY <1>1, <2>4, CreateKeeps, RepairKeeps DEF HolderRecovers
    <2>5. CASE NormalizeOutbox(t) \/ PersistFails(t) \/ RetryPending(t) \/ CompactionSkipped(t)
      BY <2>5, MovesKeep
    <2>6. CASE OpenFails(t) \/ CrashTab(t)
      BY <2>6, EndsKeep
    <2>7. CASE \E u \in Local : Execute(t, u)
      BY <2>7, ExecuteKeeps
    <2>8. CASE PersistPending(t) \/ (\E ops \in Incoming : SyncImport(t, ops))
      BY <2>8, PersistKeepsLog, ImportKeeps
    <2>9. CASE MaybeCompact(t) \/ CloseTab(t) \/ SyncReplace(t)
      BY <2>9, CompactKeeps, CloseKeeps, ReplaceKeeps
    <2>10. CASE ReadOutbox(t) \/ SyncNextFrame(t) \/ (\E m \in sent : SyncAck(t, m))
      BY <2>10, FrameKeeps, AckKeeps
    <2> QED
      BY <2>1, <2>2, <2>3, <2>4, <2>5, <2>6, <2>7, <2>8, <2>9, <2>10 DEF TabAction
  <1>2. CASE \E f \in sent : ServerAccepts(f)
    BY <1>2, AcceptsKeep
  <1>3. CASE \E u \in Foreign : ForeignEdit(u)
    BY <1>3, ForeignKeeps
  <1>4. CASE DamageUpdate
    <2>1. damage["update"] \in Nat
      BY DEF LogInv, TypeOK
    <2> QED
      BY <1>4, <2>1 DEF DamageUpdate, RowsAreKept
  <1>5. CASE DamageCheckpoint
    BY <1>5, DamageKeeps
  <1>6. CASE UNCHANGED vars
    <2>1. /\ UNCHANGED <<storageVars, historyVars, damage, lease, tab, frame, news>>
      BY <1>6 DEF vars, storageVars, historyVars
    <2>2. Store' /\ Sessions'
      BY <2>1, StoreKept, SessionsKept DEF LogInv, historyVars
    <2>3. TypeOK'
      BY <2>1 DEF LogInv, TypeOK, storageVars, historyVars
    <2> QED
      BY <2>2, <2>3 DEF LogInv
  <1> QED
    BY <1>1, <1>2, <1>3, <1>4, <1>5, <1>6 DEF Next

\* What a restart recovers is what every checkpoint restores.
LEMMA RecoversAll ==
    ASSUME LogInv, checkpoints # {}
    PROVE  \E c \in checkpoints : Recoverable = Restores(c)
  <1>1. PICK b : b = Newest(Usable(checkpoints))
    OBVIOUS
  <1>2. Usable(checkpoints) # {}
    BY DEF LogInv, Store, Numbered
  <1>3. nextSequence \in Nat /\ \A c \in Usable(checkpoints) : c \in checkpoints /\ c.seq \in Nat /\ c.seq < nextSequence
    BY Kinds DEF LogInv, Store, Numbered, Usable
  <1>4. b \in checkpoints
    BY <1>1, <1>2, <1>3, NewestIs
  <1>5. ValidPrefix(b, UpdatesAfter(b.seq)) = UpdatesAfter(b.seq)
    BY <1>4, AllReplay DEF LogInv, Store
  <1>6. Recoverable = Restores(b)
    BY <1>1, <1>2, <1>5 DEF Recoverable, Restores
  <1> QED
    BY <1>4, <1>6

LEMMA InvRecovers == LogInv => SavedIsRecoverable
  <1> SUFFICES ASSUME LogInv PROVE saved \subseteq Recoverable
    BY DEF SavedIsRecoverable
  <1>1. CASE checkpoints = {}
    BY <1>1 DEF LogInv, Store, StartsEmpty
  <1>2. CASE checkpoints # {}
    BY <1>2, RecoversAll DEF LogInv, Store, Complete
  <1> QED
    BY <1>1, <1>2

LEMMA InvCurrent == LogInv => HolderIsCurrent
  <1> SUFFICES ASSUME LogInv, NEW t \in Tab, Holds(t), Opened(t) PROVE Recoverable \subseteq tab[t].doc
    BY DEF HolderIsCurrent
  <1>1. Working(t)
    BY DEF Opened, Working
  <1>2. checkpoints # {} /\ \A c \in checkpoints : Restores(c) \subseteq tab[t].doc
    BY <1>1, Knows
  <1> QED
    BY <1>2, RecoversAll

\* An update is not among those it was made on top of, so the later of two has more
\* of its replica's updates below it.
LEMMA Later ==
    ASSUME LogInv, NEW u \in saved \cap Local, NEW v \in saved \cap Local, u \in deps[v]
    PROVE  Position(u) # Position(v)
  <1>1. deps[v] \cap Local \subseteq created /\ IsFiniteSet(created)
    BY DEF LogInv, Store, Made, Chained
  <1>2. IsFiniteSet(deps[v] \cap Local)
    BY <1>1, FS_Subset
  <1>3. deps[u] \cap Local \subseteq deps[v] \cap Local
    BY DEF LogInv, Store, Chained
  <1>4. u \in deps[v] \cap Local /\ u \notin deps[u] \cap Local
    BY DEF LogInv, Store, Chained
  <1>5. Cardinality(deps[v] \cap Local) = Cardinality(deps[u] \cap Local) => deps[v] \cap Local = deps[u] \cap Local
    BY <1>2, <1>3, FS_Subset
  <1> QED
    BY <1>4, <1>5 DEF Position

LEMMA InvPositions == LogInv => OneUpdatePerPosition
  <1> SUFFICES ASSUME LogInv, NEW u \in (server \cup saved) \cap Local, NEW v \in (server \cup saved) \cap Local,
                      Position(u) = Position(v), u # v
               PROVE  FALSE
    BY DEF OneUpdatePerPosition
  <1>1. u \in saved \cap Local /\ v \in saved \cap Local
    BY DEF LogInv, Store, Made
  <1>2. u \in deps[v] \/ v \in deps[u]
    BY <1>1 DEF LogInv, Store, Chained
  <1> QED
    BY <1>1, <1>2, Later

LEMMA LogAlways == RowsAreKept /\ Spec /\ [][HolderRecovers]_vars => []LogInv
  <1>1. ASSUME RowsAreKept PROVE ReadIsSaved /\ LogInv /\ [Next]_vars /\ [HolderRecovers]_vars => LogInv'
    BY <1>1, LogStep
  <1>2. ASSUME RowsAreKept PROVE Spec /\ [][HolderRecovers]_vars => []LogInv
    BY <1>1, <1>2, LogStart, ReadAlways, PTL DEF Spec
  <1> QED
    BY <1>2

\* The log and every tab's session keep their types.
THEOREM LogTypeCorrect == RowsAreKept /\ Spec /\ [][HolderRecovers]_vars => []TypeOK
  <1>1. LogInv => TypeOK
    BY DEF LogInv
  <1> QED
    BY <1>1, LogAlways, PTL

\* While no row is lost and no tab but the holder writes during recovery, whatever
\* the user was told is saved is what opening the graph shows, across any crash,
\* compaction, acknowledgement, failed save, change of holder or damaged checkpoint.
THEOREM RecoverableCorrect == RowsAreKept /\ Spec /\ [][HolderRecovers]_vars => []SavedIsRecoverable
  BY LogAlways, InvRecovers, PTL

\* Compaction and acknowledgement keep the row of every record still to be sent.
THEOREM PinnedCorrect == RowsAreKept /\ Spec /\ [][HolderRecovers]_vars => []OutboxPinned
  <1>1. LogInv => OutboxPinned
    BY DEF LogInv, Store
  <1> QED
    BY <1>1, LogAlways, PTL

\* Updates of this replica that outlive a tab are a chain, so each has a position
\* of its own.
THEOREM PositionsCorrect == RowsAreKept /\ Spec /\ [][HolderRecovers]_vars => []OneUpdatePerPosition
  BY LogAlways, InvPositions, PTL

\* Every tab that may write has all the log restores, right after a takeover too.
THEOREM CurrentCorrect == RowsAreKept /\ Spec /\ [][HolderRecovers]_vars => []HolderIsCurrent
  BY LogAlways, InvCurrent, PTL
-----------------------------------------------------------------------------
(* A row's number, without any assumption.                                 *)

RowShape ==
    /\ nextSequence \in Nat
    /\ \A r \in updates : r = [seq |-> r.seq, ops |-> r.ops, ok |-> r.ok]

LEMMA ShrinkFresh ==
    ASSUME RowShape, updates' \subseteq updates, nextSequence' = nextSequence
    PROVE  RowShape' /\ TakesFreshSequences
  BY DEF RowShape, TakesFreshSequences

LEMMA AppendFresh ==
    ASSUME RowShape, NEW ops, AppendUpdate(ops)
    PROVE  RowShape' /\ TakesFreshSequences
  <1>1. CASE Existing(ops) # {}
    BY <1>1, ShrinkFresh DEF AppendUpdate
  <1>2. CASE Existing(ops) = {}
    <2>1. PICK row : row = [seq |-> nextSequence, ops |-> ops, ok |-> TRUE]
      OBVIOUS
    <2>2. updates' = updates \cup {row} /\ nextSequence' = nextSequence + 1
      BY <1>2, <2>1 DEF AppendUpdate
    <2>3. row.seq = nextSequence /\ row = [seq |-> row.seq, ops |-> row.ops, ok |-> row.ok]
      BY <2>1
    <2>4. nextSequence <= nextSequence' /\ nextSequence' \in Nat /\ row.seq >= nextSequence
      BY <2>2, <2>3 DEF RowShape
    <2> QED
      BY <2>2, <2>3, <2>4 DEF RowShape, TakesFreshSequences
  <1> QED
    BY <1>1, <1>2

LEMMA FreshStep ==
    ASSUME RowShape, [Next]_vars
    PROVE  RowShape' /\ TakesFreshSequences
  <1>1. CASE \E t \in Tab : TabAction(t)
    <2>1. PICK t \in Tab : TabAction(t)
      BY <1>1
    <2>2. CASE PersistPending(t) \/ (\E ops \in Incoming : SyncImport(t, ops))
      BY <2>2, AppendFresh DEF PersistPending, SyncImport
    <2>3. CASE CreateBase(t) \/ MaybeCompact(t) \/ CloseTab(t)
      <3>1. updates' \subseteq updates /\ nextSequence' = nextSequence
        BY <2>3 DEF CreateBase, MaybeCompact, CloseTab, InstallCheckpoint
      <3> QED
        BY <3>1, ShrinkFresh
    <2>4. CASE RepairCorruptTail(t) \/ SyncReplace(t) \/ (\E m \in sent : SyncAck(t, m))
      <3>1. updates' \subseteq updates /\ nextSequence' = nextSequence
        BY <2>4 DEF RepairCorruptTail, SyncReplace, ReplaceHistory, SyncAck, Acknowledge
      <3> QED
        BY <3>1, ShrinkFresh
    <2>5. CASE \/ OpenTab(t) \/ ReadCheckpoints(t) \/ RecoverIntact(t) \/ SelectBase(t) \/ ScanTail(t)
               \/ NormalizeOutbox(t) \/ OpenFails(t) \/ Reload(t) \/ TakeOver(t)
               \/ (\E u \in Local : Execute(t, u)) \/ PersistFails(t) \/ RetryPending(t)
               \/ CompactionSkipped(t) \/ ReadOutbox(t) \/ SyncNextFrame(t) \/ CrashTab(t)
      <3>1. updates' = updates /\ nextSequence' = nextSequence
        BY <2>5 DEF OpenTab, ReadCheckpoints, RecoverIntact, SelectBase, ScanTail, NormalizeOutbox, OpenFails,
                    Reload, TakeOver, Execute, PersistFails, RetryPending, CompactionSkipped, ReadOutbox,
                    SyncNextFrame, CrashTab, storageVars
      <3> QED
        BY <3>1, ShrinkFresh
    <2> QED
      BY <2>1, <2>2, <2>3, <2>4, <2>5 DEF TabAction
  <1>2. CASE (\E f \in sent : ServerAccepts(f)) \/ (\E u \in Foreign : ForeignEdit(u)) \/ DamageCheckpoint \/ UNCHANGED vars
    <2>1. updates' = updates /\ nextSequence' = nextSequence
      BY <1>2 DEF ServerAccepts, ForeignEdit, DamageCheckpoint, vars, storageVars
    <2> QED
      BY <2>1, ShrinkFresh
  <1>3. CASE DamageUpdate
    <2>1. PICK r \in updates : updates' = (updates \ {r}) \cup {[r EXCEPT !.ok = FALSE]}
      BY <1>3 DEF DamageUpdate
    <2>2. PICK hurt : hurt = [r EXCEPT !.ok = FALSE]
      OBVIOUS
    <2>3. hurt.seq = r.seq /\ hurt.ops = r.ops /\ hurt = [seq |-> hurt.seq, ops |-> hurt.ops, ok |-> hurt.ok]
      <3>1. r = [seq |-> r.seq, ops |-> r.ops, ok |-> r.ok]
        BY DEF RowShape
      <3> QED
        BY <2>2, <3>1
    <2>4. updates' = (updates \ {r}) \cup {hurt} /\ nextSequence' = nextSequence
      BY <1>3, <2>1, <2>2 DEF DamageUpdate
    <2> QED
      BY <2>3, <2>4 DEF RowShape, TakesFreshSequences
  <1> QED
    BY <1>1, <1>2, <1>3 DEF Next

\* Whatever is deleted, damaged, repaired or replaced, by whichever tab, a local
\* sequence names one payload for good.
THEOREM FreshCorrect == Spec => SequencesAreFresh
  <1>1. Init => RowShape
    BY DEF Init, RowShape
  <1>2. RowShape /\ [Next]_vars => RowShape' /\ [TakesFreshSequences]_vars
    BY FreshStep
  <1> QED
    BY <1>1, <1>2, PTL DEF Spec, SequencesAreFresh
-----------------------------------------------------------------------------
(* One tab needs no assumption on who writes.                              *)

OneTab == \A t, q \in Tab : t = q

\* An open tab has the lease.
Alone ==
    /\ DOMAIN tab = Tab /\ lease \in Tab \cup {None}
    /\ \A t \in Tab : At(t, "closed") \/ At(t, "failed") \/ Holds(t)

LEMMA AloneStep ==
    ASSUME OneTab, Alone, [Next]_vars
    PROVE  Alone' /\ HolderRecovers
  <1>1. HolderRecovers
    BY DEF HolderRecovers, CreateBase, RepairCorruptTail, Alone, At
  <1>2. CASE \E t \in Tab : TabAction(t)
    <2>1. PICK t \in Tab : TabAction(t)
      BY <1>2
    <2>2. \A q \in Tab : q = t
      BY DEF OneTab
    <2>3. DOMAIN tab = Tab
      BY DEF Alone
    <2>4. CASE OpenTab(t)
      <3>1. lease' = t /\ DOMAIN tab' = Tab
        BY <2>2, <2>3, <2>4 DEF OpenTab, Goto, Alone
      <3> QED
        BY <1>1, <2>2, <3>1 DEF Alone, Holds
    <2>5. CASE TakeOver(t)
      <3>1. lease' = t /\ DOMAIN tab' = Tab
        BY <2>3, <2>5 DEF TakeOver, Goto
      <3> QED
        BY <1>1, <2>2, <3>1 DEF Alone, Holds
    <2>6. CASE OpenFails(t) \/ CloseTab(t) \/ CrashTab(t)
      <3>1. tab'[t].step \in {"failed", "closed"} /\ lease' \in {lease, None} /\ DOMAIN tab' = Tab
        <4>1. CASE OpenFails(t)
          <5>1. tab' = [tab EXCEPT ![t] = [ClosedTab EXCEPT !.step = "failed"]] /\ lease' \in {lease, None}
            BY <4>1 DEF OpenFails
          <5>2. tab'[t] = [ClosedTab EXCEPT !.step = "failed"]
            BY <2>3, <5>1
          <5>3. tab'[t].step \in {"failed", "closed"}
            BY <5>2 DEF ClosedTab
          <5> QED
            BY <2>3, <5>1, <5>3
        <4>2. CASE CloseTab(t) \/ CrashTab(t)
          <5>1. tab' = [tab EXCEPT ![t] = ClosedTab] /\ lease' \in {lease, None}
            BY <4>2 DEF CloseTab, CrashTab
          <5>2. tab'[t] = ClosedTab
            BY <2>3, <5>1
          <5>3. tab'[t].step \in {"failed", "closed"}
            BY <5>2 DEF ClosedTab
          <5> QED
            BY <2>3, <5>1, <5>3
        <4> QED
          BY <2>6, <4>1, <4>2
      <3> QED
        BY <1>1, <2>2, <3>1 DEF Alone, At
    <2>7. CASE ~(OpenTab(t) \/ TakeOver(t) \/ OpenFails(t) \/ CloseTab(t) \/ CrashTab(t))
      <3>1. ~At(t, "closed") /\ ~At(t, "failed") /\ lease' = lease
        BY <2>1, <2>7 DEF TabAction, ReadCheckpoints, RecoverIntact, SelectBase, CreateBase, ScanTail,
            RepairCorruptTail, NormalizeOutbox, Reload, Execute, PersistPending, PersistFails, RetryPending,
            SyncImport, MaybeCompact, CompactionSkipped, SyncReplace, ReadOutbox, SyncNextFrame, SyncAck,
            Saving, Opened, At
      <3>2. DOMAIN tab' = Tab
        BY <2>1, <2>3, <2>7 DEF TabAction, ReadCheckpoints, RecoverIntact, SelectBase, CreateBase, ScanTail,
            RepairCorruptTail, NormalizeOutbox, Reload, Execute, PersistPending, PersistFails, RetryPending,
            SyncImport, MaybeCompact, CompactionSkipped, SyncReplace, ReadOutbox, SyncNextFrame, SyncAck,
            Recovered, Goto
      <3>3. Holds(t)'
        BY <3>1 DEF Alone, Holds
      <3> QED
        BY <1>1, <2>2, <3>1, <3>2, <3>3 DEF Alone
    <2> QED
      BY <2>4, <2>5, <2>6, <2>7
  <1>3. CASE ~(\E t \in Tab : TabAction(t))
    <2>1. tab' = tab /\ lease' = lease
      BY <1>3 DEF Next, ServerAccepts, ForeignEdit, DamageCheckpoint, DamageUpdate, vars
    <2> QED
      BY <1>1, <2>1 DEF Alone, At, Holds
  <1> QED
    BY <1>2, <1>3

\* With a single tab on a medium that keeps its rows, what was saved is recovered:
\* the instance local_log checks, for any number of updates and any threshold.
THEOREM SingleTabCorrect == RowsAreKept /\ OneTab /\ Spec => []SavedIsRecoverable
  <1>1. Init => Alone
    BY DEF Init, Alone, At, ClosedTab
  <1>2. ASSUME OneTab PROVE Alone /\ [Next]_vars => Alone' /\ [HolderRecovers]_vars
    BY <1>2, AloneStep
  <1>3. ASSUME OneTab PROVE Spec => [][HolderRecovers]_vars
    BY <1>1, <1>2, <1>3, PTL DEF Spec
  <1> QED
    BY <1>3, RecoverableCorrect
=============================================================================
