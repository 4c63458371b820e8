-------------------------- MODULE ServerRoomProofs --------------------------
(***************************************************************************)
(* Proofs about ServerRoom, for every value of its constants: the declared *)
(* types, one cursor per update identity, which room serves the graph, and *)
(* that what the server answers is durable.                                *)
(***************************************************************************)
EXTENDS ServerRoom, FiniteSetTheorems, TLAPS

\* The records of the graph's tables taken together: cursors come from one
\* sequence, the Tail has a newest row, and an insert whose outcome is unknown
\* holds the newest cursor and a fresh identity.
StoreInv ==
    /\ \A r \in tail \cup receipts : r.cursor <= lastCursor
    /\ tail # {} => \E r \in tail : \A q \in tail : q.cursor <= r.cursor
    /\ late # None => /\ late.cursor = lastCursor
                      /\ ~IsDuplicate(late.msg)
    /\ OneCursorPerIdentity

Inv == TypeOK /\ StoreInv

LEMMA InitInv == Init => Inv
  <1> SUFFICES ASSUME Init PROVE Inv
    OBVIOUS
  <1> USE DEF Init
  <1>1. TypeOK
    BY FS_EmptySet, IdentityAssumption
       DEF TypeOK, Row, Checkpoint, Role, Membership, Room, Handler, Step, Message,
           NewRoom, DeadRoom, NoCheckpoint, Closed
  <1>2. StoreInv
    BY DEF StoreInv, OneCursorPerIdentity
  <1> QED
    BY <1>1, <1>2 DEF Inv
-----------------------------------------------------------------------------
(* What the updates of one field write.                                    *)

LEMMA TypeFacts ==
    /\ NewRoom \in Room
    /\ DeadRoom \in Room
    /\ NoCheckpoint \in Checkpoint
    /\ Closed \in Handler
    /\ \A r \in RoomId : Opening(r) \in Handler
  BY DEF NewRoom, DeadRoom, NoCheckpoint, Closed, Opening, Room, Checkpoint, Handler, Step,
         Submitting

\* The handlers of connected sessions.
OpenHandler == {h \in [step : Step, room : RoomId, version : Nat,
                       msg : Update \cup {None}] :
                   h.step \in Submitting => h.msg \in Update}

LEMMA HandlerReplace ==
    ASSUME handler \in [Session -> Handler], NEW s \in Session, NEW h \in Handler
    PROVE  [handler EXCEPT ![s] = h] \in [Session -> Handler]
  OBVIOUS

LEMMA OpenHandlerFacts ==
    ASSUME handler \in [Session -> Handler], NEW s \in Session, ~At(s, "closed")
    PROVE  /\ handler[s] \in OpenHandler
           /\ RoomOf(s) \in RoomId
           /\ handler[s].step \in Submitting => handler[s].msg \in Update
           /\ handler[s].version \in Nat
  <1>1. handler[s] \in Handler
    OBVIOUS
  <1>2. handler[s] \in OpenHandler
    BY <1>1 DEF Handler, Closed, At, OpenHandler
  <1> QED
    BY <1>2 DEF OpenHandler, RoomOf

LEMMA HandlerGoto ==
    ASSUME handler \in [Session -> Handler], NEW s \in Session, ~At(s, "closed"),
           NEW st \in Step, st \in Submitting => handler[s].step \in Submitting
    PROVE  [handler EXCEPT ![s].step = st] \in [Session -> Handler]
  <1> DEFINE h == [handler[s] EXCEPT !.step = st]
  <1>1. h \in OpenHandler
    BY OpenHandlerFacts DEF OpenHandler
  <1>2. [handler EXCEPT ![s].step = st] = [handler EXCEPT ![s] = h]
    OBVIOUS
  <1> QED
    BY <1>1, <1>2, HandlerReplace DEF Handler, OpenHandler

LEMMA HandlerMsg ==
    ASSUME handler \in [Session -> Handler], NEW s \in Session, ~At(s, "closed"),
           NEW st \in Step, NEW m \in Update \cup {None},
           st \in Submitting => m \in Update
    PROVE  [handler EXCEPT ![s].step = st, ![s].msg = m] \in [Session -> Handler]
  <1> DEFINE h == [handler[s] EXCEPT !.step = st, !.msg = m]
  <1>1. h \in OpenHandler
    BY OpenHandlerFacts DEF OpenHandler
  <1>2. [handler EXCEPT ![s].step = st, ![s].msg = m] = [handler EXCEPT ![s] = h]
    OBVIOUS
  <1> QED
    BY <1>1, <1>2, HandlerReplace DEF Handler, OpenHandler

LEMMA HandlerVersion ==
    ASSUME handler \in [Session -> Handler], NEW s \in Session, ~At(s, "closed"),
           NEW st \in Step, NEW v \in Nat, st \notin Submitting
    PROVE  [handler EXCEPT ![s].step = st, ![s].version = v] \in [Session -> Handler]
  <1> DEFINE h == [handler[s] EXCEPT !.step = st, !.version = v]
  <1>1. h \in OpenHandler
    BY OpenHandlerFacts DEF OpenHandler
  <1>2. [handler EXCEPT ![s].step = st, ![s].version = v] = [handler EXCEPT ![s] = h]
    OBVIOUS
  <1> QED
    BY <1>1, <1>2, HandlerReplace DEF Handler, OpenHandler

LEMMA RoomReplace ==
    ASSUME room \in [RoomId -> Room], NEW r, NEW v, r \in RoomId => v \in Room
    PROVE  [room EXCEPT ![r] = v] \in [RoomId -> Room]
  OBVIOUS

LEMMA RoomSessions ==
    ASSUME room \in [RoomId -> Room], NEW r, NEW ss \in SUBSET Session
    PROVE  /\ [room EXCEPT ![r].sessions = @ \ ss] \in [RoomId -> Room]
           /\ [room EXCEPT ![r].sessions = @ \cup ss] \in [RoomId -> Room]
  BY DEF Room

LEMMA RoomSession ==
    ASSUME room \in [RoomId -> Room], NEW r, NEW s \in Session
    PROVE  /\ [room EXCEPT ![r].sessions = @ \ {s}] \in [RoomId -> Room]
           /\ [room EXCEPT ![r].sessions = @ \cup {s}] \in [RoomId -> Room]
  BY DEF Room

LEMMA RoomDoc ==
    ASSUME room \in [RoomId -> Room], NEW r, NEW d \in SUBSET Update
    PROVE  /\ [room EXCEPT ![r].doc = @ \cup d] \in [RoomId -> Room]
           /\ \A n \in Nat : /\ [room EXCEPT ![r].doc = d, ![r].cursor = n] \in [RoomId -> Room]
                             /\ [room EXCEPT ![r].doc = d, ![r].tailUpdates = n] \in [RoomId -> Room]
  <1>1. [room EXCEPT ![r].doc = @ \cup d] \in [RoomId -> Room]
    BY DEF Room
  <1>2. ASSUME NEW n \in Nat
        PROVE  [room EXCEPT ![r].doc = d, ![r].cursor = n] \in [RoomId -> Room]
    BY <1>2 DEF Room
  <1>3. ASSUME NEW n \in Nat
        PROVE  [room EXCEPT ![r].doc = d, ![r].tailUpdates = n] \in [RoomId -> Room]
    BY <1>3 DEF Room
  <1> QED
    BY <1>1, <1>2, <1>3

LEMMA RoomTailUpdates ==
    ASSUME room \in [RoomId -> Room], NEW r, NEW n \in Nat
    PROVE  /\ [room EXCEPT ![r].tailUpdates = n] \in [RoomId -> Room]
           /\ [room EXCEPT ![r].cursor = n, ![r].tailUpdates = @ + 1] \in [RoomId -> Room]
  <1>1. [room EXCEPT ![r].tailUpdates = n] \in [RoomId -> Room]
    BY DEF Room
  <1>2. ASSUME r \in RoomId PROVE room[r] \in Room /\ room[r].tailUpdates + 1 \in Nat
    BY <1>2 DEF Room
  <1>3. CASE r \in RoomId
    <2> DEFINE v == [room[r] EXCEPT !.cursor = n, !.tailUpdates = @ + 1]
    <2>1. v \in Room
      BY <1>2, <1>3 DEF Room
    <2>2. [room EXCEPT ![r].cursor = n, ![r].tailUpdates = @ + 1] = [room EXCEPT ![r] = v]
      BY <1>3
    <2> QED
      BY <1>1, <2>1, <2>2, RoomReplace
  <1> QED
    BY <1>1, <1>3

LEMMA QueueType ==
    ASSUME outbound \in [Session -> Seq(Message)], NEW ss, NEW m \in Message, Queue(ss, m)
    PROVE  outbound' \in [Session -> Seq(Message)]
  BY DEF Queue

LEMMA LatestCursorType ==
    ASSUME TypeOK, StoreInv, NEW b, b.cursor \in Nat, NEW c \in Nat
    PROVE  LatestCursor(b, RowsAfter(c)) \in Nat
  <1> DEFINE rows == RowsAfter(c)
  <1>1. CASE rows = {}
    BY <1>1 DEF LatestCursor
  <1>2. CASE rows # {}
    <2>1. PICK m \in tail : \A q \in tail : q.cursor <= m.cursor
      BY <1>2 DEF RowsAfter, StoreInv
    <2>2. m \in rows
      BY <1>2, <2>1 DEF RowsAfter, TypeOK, Row
    <2>3. \E r \in rows : \A q \in rows : q.cursor <= r.cursor
      BY <2>1, <2>2 DEF RowsAfter
    <2>4. (CHOOSE r \in rows : \A q \in rows : q.cursor <= r.cursor) \in tail
      BY <2>3 DEF RowsAfter
    <2> QED
      BY <1>2, <2>4 DEF LatestCursor, TypeOK, Row
  <1> QED
    BY <1>1, <1>2

LEMMA RowsType ==
    ASSUME TypeOK, NEW c
    PROVE  /\ RowsAfter(c) \subseteq tail
           /\ RowsAfter(c) \subseteq Row
           /\ IsFiniteSet(RowsAfter(c))
           /\ Cardinality(RowsAfter(c)) \in Nat
           /\ Messages(RowsAfter(c)) \subseteq Update
  <1>1. RowsAfter(c) \subseteq tail /\ RowsAfter(c) \subseteq Row
    BY DEF RowsAfter, TypeOK
  <1>2. IsFiniteSet(RowsAfter(c))
    BY <1>1, FS_Subset DEF TypeOK
  <1>3. Cardinality(RowsAfter(c)) \in Nat
    BY <1>2, FS_CardinalityType
  <1> QED
    BY <1>1, <1>2, <1>3 DEF Messages, Row

LEMMA TailAdd ==
    ASSUME TypeOK, NEW row \in Row
    PROVE  tail \cup {row} \in SUBSET Row /\ IsFiniteSet(tail \cup {row})
  <1>1. IsFiniteSet(tail \cup {row})
    BY FS_AddElement DEF TypeOK
  <1> QED
    BY <1>1 DEF TypeOK

LEMMA RoomType ==
    ASSUME TypeOK, NEW r \in RoomId
    PROVE  /\ room[r] \in Room
           /\ room[r].doc \in SUBSET Update
           /\ room[r].cursor \in Nat
           /\ room[r].tailUpdates \in Nat
           /\ room[r].sessions \in SUBSET Session
  BY DEF TypeOK, Room

LEMMA RoomAdvance ==
    ASSUME NEW v \in Room, NEW d \in SUBSET Update, NEW c \in Nat, NEW n \in Nat
    PROVE  [v EXCEPT !.state = "valid", !.doc = @ \cup d, !.cursor = c,
                     !.tailUpdates = n] \in Room
  BY DEF Room

LEMMA LoadedType ==
    ASSUME TypeOK, StoreInv, NEW r \in RoomId
    PROVE  Loaded(r, RowsAfter(room[r].cursor)) \in Room
  <1> DEFINE rows == RowsAfter(room[r].cursor)
             c == LatestCursor(room[r], rows)
             d == Messages(rows)
             n == Cardinality(rows)
  <1>1. c \in Nat /\ d \subseteq Update /\ n \in Nat
    BY RoomType, RowsType, LatestCursorType
  <1>2. Loaded(r, rows) = [room[r] EXCEPT !.state = "valid", !.doc = @ \cup d,
                                          !.cursor = c, !.tailUpdates = n]
    BY DEF Loaded
  <1> HIDE DEF c, d, n
  <1>3. room[r] \in Room
    BY DEF TypeOK
  <1>4. [room[r] EXCEPT !.state = "valid", !.doc = @ \cup d,
                        !.cursor = c, !.tailUpdates = n] \in Room
    BY <1>1, <1>3, RoomAdvance
  <1> QED
    BY <1>2, <1>4

LEMMA RestoredType ==
    ASSUME TypeOK, NEW r \in RoomId
    PROVE  Restored(r) \in Room
  <1> DEFINE d == Durable(base)
             n == Cardinality(RowsAfter(base.cursor))
  <1>1. d \subseteq Update /\ n \in Nat
    BY RowsType DEF TypeOK, Durable, Checkpoint
  <1>2. Restored(r) = [room[r] EXCEPT !.doc = d, !.tailUpdates = n]
    BY DEF Restored
  <1> HIDE DEF d, n
  <1> QED
    BY <1>1, <1>2, RoomType DEF Room

LEMMA InstallType ==
    ASSUME TypeOK, NEW c \in Nat, NEW d \in SUBSET Update, InstallCheckpoint(c, d)
    PROVE  /\ base' \in Checkpoint
           /\ prior' \in Checkpoint
           /\ tail' \in SUBSET Row
           /\ IsFiniteSet(tail')
           /\ receipts' \in SUBSET Row
  <1>1. tail' = RowsAfter(base.cursor) /\ prior' = base
    BY DEF InstallCheckpoint
  <1>2. base' \in Checkpoint
    BY DEF InstallCheckpoint, Checkpoint
  <1>3. receipts' \in SUBSET Row
    BY DEF InstallCheckpoint, ReceiptsAfter, NewestReceipts, TypeOK
  <1> QED
    BY <1>1, <1>2, <1>3, RowsType DEF TypeOK

LEMMA SessionStepType ==
    ASSUME Inv, NEW s \in Session, SessionStep(s)
    PROVE  TypeOK'
  <1> USE UpdateAssumption, IdentityAssumption
  <1> USE DEF Inv, TypeOK
  <1>1. CASE OpenSession(s)
    <2>1. ASSUME slot # None PROVE handler' \in [Session -> Handler]
      <3>1. Opening(slot) \in Handler
        BY <1>1, <2>1, TypeFacts
      <3> QED
        BY <1>1, <2>1, <3>1, HandlerReplace DEF OpenSession
    <2>2. ASSUME slot = None PROVE handler' \in [Session -> Handler]
      <3>1. PICK r \in RoomId : handler' = [handler EXCEPT ![s] = Opening(r)]
        BY <1>1, <2>2 DEF OpenSession
      <3>2. Opening(r) \in Handler
        BY <1>1, TypeFacts
      <3> QED
        BY <1>1, <3>1, <3>2, HandlerReplace
    <2>3. handler' \in [Session -> Handler]
      BY <1>1, <2>1, <2>2
    <2>4. room' \in [RoomId -> Room]
      BY <1>1, RoomReplace, TypeFacts DEF OpenSession
    <2>5. slot' \in RoomId \cup {None}
      BY <1>1 DEF OpenSession
    <2>6. outbound' \in [Session -> Seq(Message)]
      BY <1>1 DEF OpenSession
    <2> QED
      BY <1>1, <2>3, <2>4, <2>5, <2>6 DEF OpenSession, storeVars, memberVars, registryVars, clientVars
  <1>2. CASE LoadCheckpoint(s)
    <2>1. handler' \in [Session -> Handler]
      BY <1>2, HandlerGoto DEF LoadCheckpoint, Goto, At, Step, Submitting
    <2>2. base.doc \in SUBSET Update /\ base.cursor \in Nat
      BY <1>2 DEF Checkpoint
    <2>3. room' \in [RoomId -> Room]
      BY <1>2, <2>2, RoomDoc DEF LoadCheckpoint
    <2> QED
      BY <1>2, <2>1, <2>2, <2>3 DEF LoadCheckpoint, storeVars, memberVars, registryVars, clientVars
  <1>3. CASE LoadTail(s)
    <2>1. handler' \in [Session -> Handler]
      BY <1>3, HandlerGoto DEF LoadTail, Goto, At, Step, Submitting
    <2>2. RoomOf(s) \in RoomId
      BY <1>3, OpenHandlerFacts DEF LoadTail, At
    <2>3. room[RoomOf(s)].cursor \in Nat
      BY <1>3, <2>2, RoomType
    <2>4. LatestCursor(room[RoomOf(s)], RowsAfter(room[RoomOf(s)].cursor)) \in Nat
      BY <1>3, <2>3, LatestCursorType
    <2>5. Loaded(RoomOf(s), RowsAfter(room[RoomOf(s)].cursor)) \in Room
      BY <1>3, <2>2, <2>3, LoadedType
    <2>6. room' \in [RoomId -> Room]
      BY <1>3, <2>5, RoomReplace DEF LoadTail
    <2> QED
      BY <1>3, <2>1, <2>2, <2>3, <2>4, <2>5, <2>6 DEF LoadTail, storeVars, memberVars, registryVars, clientVars
  <1>4. CASE LoadFails(s)
    <2>1. handler' \in [Session -> Handler]
      BY <1>4, HandlerReplace, TypeFacts DEF LoadFails, Close
    <2>2. room' \in [RoomId -> Room]
      BY <1>4, RoomReplace, TypeFacts DEF LoadFails
    <2> QED
      BY <1>4, <2>1, <2>2 DEF LoadFails, storeVars, memberVars, registryVars, clientVars
  <1>5. CASE Welcome(s)
    <2>1. RoomOf(s) \in RoomId
      BY <1>5, OpenHandlerFacts DEF Welcome, At
    <2>2. members[AccountOf[s]].version \in Nat
      BY <1>5 DEF Membership
    <2>3. handler' \in [Session -> Handler]
      BY <1>5, <2>2, HandlerVersion DEF Welcome, At, Step, Submitting
    <2>4. room' \in [RoomId -> Room]
      BY <1>5, RoomSession DEF Welcome
    <2>5. view' \in [Session -> SUBSET Update]
      BY <1>5, <2>1, RoomType DEF Welcome
    <2> QED
      BY <1>5, <2>1, <2>2, <2>3, <2>4, <2>5 DEF Welcome, storeVars, memberVars, registryVars, clientVars
  <1>6. CASE WelcomeRefused(s)
    <2>1. handler' \in [Session -> Handler]
      BY <1>6, HandlerReplace, TypeFacts DEF WelcomeRefused, Close
    <2> QED
      BY <1>6, <2>1 DEF WelcomeRefused, storeVars, memberVars, registryVars, clientVars
  <1>7. ASSUME NEW u \in Update, SubmitUpdate(s, u) PROVE TypeOK'
    <2>1. ~At(s, "closed") /\ {"authorized", "leaving"} \subseteq Step
      BY <1>7 DEF SubmitUpdate, At, Step
    <2>2. [handler EXCEPT ![s].step = "authorized", ![s].msg = u] \in [Session -> Handler]
      BY <1>7, <2>1, HandlerMsg
    <2>3. [handler EXCEPT ![s].step = "leaving"] \in [Session -> Handler]
      BY <1>7, <2>1, HandlerGoto DEF Submitting
    <2>4. handler' \in [Session -> Handler]
      BY <1>7, <2>2, <2>3 DEF SubmitUpdate, Goto
    <2> QED
      BY <1>7, <2>1, <2>2, <2>3, <2>4 DEF SubmitUpdate, storeVars, memberVars, registryVars, clientVars
  <1>8. CASE SubmitRefused(s)
    <2>1. ~At(s, "closed") /\ {"idle", "leaving"} \subseteq Step \ Submitting
      BY <1>8 DEF SubmitRefused, At, Step, Submitting
    <2>2. [handler EXCEPT ![s].step = "idle", ![s].msg = None] \in [Session -> Handler]
      BY <1>8, <2>1, HandlerMsg
    <2>3. [handler EXCEPT ![s].step = "leaving"] \in [Session -> Handler]
      BY <1>8, <2>1, HandlerGoto
    <2>4. handler' \in [Session -> Handler]
      BY <1>8, <2>2, <2>3 DEF SubmitRefused, Goto
    <2> QED
      BY <1>8, <2>1, <2>2, <2>3, <2>4 DEF SubmitRefused, storeVars, memberVars, registryVars, clientVars
  <1>9. CASE AdmitUpdate(s)
    <2>1. ~At(s, "closed") /\ handler[s].step \in Submitting /\ {"admitted", "rejected"} \subseteq Step
      BY <1>9 DEF AdmitUpdate, At, Step, Submitting
    <2>2. /\ [handler EXCEPT ![s].step = "admitted"] \in [Session -> Handler]
          /\ [handler EXCEPT ![s].step = "rejected"] \in [Session -> Handler]
      BY <1>9, <2>1, HandlerGoto
    <2>3. handler' \in [Session -> Handler]
      BY <1>9, <2>2 DEF AdmitUpdate, Goto
    <2>4. {handler[s].msg} \in SUBSET Update
      BY <1>9, <2>1, OpenHandlerFacts
    <2>5. room' \in [RoomId -> Room]
      BY <1>9, <2>4, RoomDoc DEF AdmitUpdate
    <2>6. lock' \in [RoomId -> Session \cup {None}]
      BY <1>9 DEF AdmitUpdate
    <2> QED
      BY <1>9, <2>1, <2>2, <2>3, <2>4, <2>5, <2>6 DEF AdmitUpdate, storeVars, memberVars, registryVars, clientVars
  <1>10. CASE RestoreRoom(s)
    <2>1. handler' \in [Session -> Handler]
      BY <1>10, HandlerGoto DEF RestoreRoom, Goto, At, Step, Submitting
    <2>2. Durable(base) \in SUBSET Update
      BY <1>10, RowsType DEF Durable, Checkpoint
    <2>3. RoomOf(s) \in RoomId
      BY <1>10, OpenHandlerFacts DEF RestoreRoom, At
    <2>4. Restored(RoomOf(s)) \in Room
      BY <1>10, <2>3, RestoredType
    <2>5. room' \in [RoomId -> Room]
      BY <1>10, <2>4, RoomReplace DEF RestoreRoom
    <2>6. lock' \in [RoomId -> Session \cup {None}]
      BY <1>10 DEF RestoreRoom
    <2> QED
      BY <1>10, <2>1, <2>2, <2>3, <2>4, <2>5, <2>6 DEF RestoreRoom, storeVars, memberVars, registryVars, clientVars
  <1>11. CASE RestoreFails(s)
    <2>1. handler' \in [Session -> Handler]
      BY <1>11, HandlerGoto DEF RestoreFails, Goto, At, Step, Submitting
    <2>2. [type |-> "resync", msg |-> None] \in Message
      BY <1>11 DEF Message
    <2>3. outbound' \in [Session -> Seq(Message)]
      BY <1>11, <2>2, QueueType DEF RestoreFails, Invalidate
    <2>4. room' \in [RoomId -> Room]
      BY <1>11, RoomReplace, TypeFacts DEF RestoreFails, Invalidate
    <2>5. lock' \in [RoomId -> Session \cup {None}]
      BY <1>11 DEF RestoreFails
    <2> QED
      BY <1>11, <2>1, <2>2, <2>3, <2>4, <2>5 DEF RestoreFails, storeVars, memberVars, registryVars, clientVars
  <1>12. CASE CommitDuplicate(s)
    <2>1. handler' \in [Session -> Handler]
      BY <1>12, HandlerGoto DEF CommitDuplicate, Goto, At, Step, Submitting
    <2> QED
      BY <1>12, <2>1 DEF CommitDuplicate, storeVars, memberVars, registryVars, clientVars
  <1>13. CASE CommitInsert(s)
    <2>1. handler' \in [Session -> Handler]
      BY <1>13, HandlerGoto DEF CommitInsert, Goto, At, Step, Submitting
    <2>2. lastCursor' \in Nat
      BY <1>13 DEF CommitInsert
    <2>3. handler[s].msg \in Update
      BY <1>13, OpenHandlerFacts DEF CommitInsert, At, Submitting
    <2>4. lastCursor + 1 \in Nat /\ [cursor |-> lastCursor + 1, msg |-> handler[s].msg] \in Row
      BY <1>13, <2>3 DEF Row
    <2>5. tail' \in SUBSET Row /\ IsFiniteSet(tail')
      BY <1>13, <2>4, TailAdd DEF CommitInsert
    <2>6. room' \in [RoomId -> Room]
      BY <1>13, <2>4, RoomTailUpdates DEF CommitInsert
    <2> QED
      BY <1>13, <2>1, <2>2, <2>3, <2>4, <2>5, <2>6 DEF CommitInsert, storeVars, memberVars, registryVars, clientVars
  <1>14. CASE CommitFails(s)
    <2>1. handler' \in [Session -> Handler]
      BY <1>14, HandlerGoto DEF CommitFails, Goto, At, Step, Submitting
    <2>2. [type |-> "resync", msg |-> None] \in Message
      BY <1>14 DEF Message
    <2>3. outbound' \in [Session -> Seq(Message)]
      BY <1>14, <2>2, QueueType DEF CommitFails, Invalidate
    <2>4. room' \in [RoomId -> Room]
      BY <1>14, RoomReplace, TypeFacts DEF CommitFails, Invalidate
    <2>5. lock' \in [RoomId -> Session \cup {None}]
      BY <1>14 DEF CommitFails
    <2>6. handler[s].msg \in Update
      BY <1>14, OpenHandlerFacts DEF CommitFails, At, Submitting
    <2>7. lastCursor + 1 \in Nat /\ [cursor |-> lastCursor + 1, msg |-> handler[s].msg] \in Row
      BY <1>14, <2>6 DEF Row
    <2>8. /\ tail \cup {[cursor |-> lastCursor + 1, msg |-> handler[s].msg]} \in SUBSET Row
          /\ IsFiniteSet(tail \cup {[cursor |-> lastCursor + 1, msg |-> handler[s].msg]})
      BY <1>14, <2>7, TailAdd
    <2>9. /\ tail' \in SUBSET Row /\ IsFiniteSet(tail')
          /\ lastCursor' \in Nat
          /\ late' \in Row \cup {None}
      BY <1>14, <2>7, <2>8 DEF CommitFails
    <2> QED
      BY <1>14, <2>1, <2>2, <2>3, <2>4, <2>5, <2>6, <2>7, <2>8, <2>9 DEF CommitFails, storeVars, memberVars, registryVars, clientVars
  <1>15. CASE Evict(s)
    <2>1. ~At(s, "closed") /\ {"idle", "leaving"} \subseteq Step \ Submitting
      BY <1>15 DEF Evict, At, Step, Submitting
    <2>2. [handler EXCEPT ![s].step = "idle", ![s].msg = None] \in [Session -> Handler]
      BY <1>15, <2>1, HandlerMsg
    <2>3. [handler EXCEPT ![s].step = "leaving"] \in [Session -> Handler]
      BY <1>15, <2>1, HandlerGoto
    <2>4. handler' \in [Session -> Handler]
      BY <1>15, <2>2, <2>3 DEF Evict, Goto
    <2>5. slot' \in RoomId \cup {None}
      BY <1>15 DEF Evict
    <2> QED
      BY <1>15, <2>1, <2>2, <2>3, <2>4, <2>5 DEF Evict, storeVars, memberVars, registryVars, clientVars
  <1>16. CASE ReplyToSlowAuthor(s)
    <2>1. handler' \in [Session -> Handler]
      BY <1>16, HandlerGoto DEF ReplyToSlowAuthor, Goto, At, Step, Submitting
    <2>2. room' \in [RoomId -> Room]
      BY <1>16, RoomSession DEF ReplyToSlowAuthor
    <2>3. lock' \in [RoomId -> Session \cup {None}]
      BY <1>16 DEF ReplyToSlowAuthor
    <2>4. handler[s].msg \in Update
      BY <1>16, OpenHandlerFacts DEF ReplyToSlowAuthor, At, Submitting
    <2>5. unbroadcast' \in SUBSET Update
      BY <1>16, <2>4 DEF ReplyToSlowAuthor
    <2> QED
      BY <1>16, <2>1, <2>2, <2>3, <2>4, <2>5 DEF ReplyToSlowAuthor, storeVars, memberVars, registryVars, clientVars
  <1>17. CASE ReplyDuplicate(s)
    <2>1. handler' \in [Session -> Handler]
      BY <1>17, HandlerMsg DEF ReplyDuplicate, At, Step, Submitting
    <2>2. handler[s].msg \in Update
      BY <1>17, OpenHandlerFacts DEF ReplyDuplicate, At, Submitting
    <2>3. [type |-> "ack", msg |-> handler[s].msg] \in Message
      BY <1>17, <2>2 DEF Message
    <2>4. outbound' \in [Session -> Seq(Message)]
      BY <1>17, <2>3, QueueType DEF ReplyDuplicate
    <2>5. lock' \in [RoomId -> Session \cup {None}]
      BY <1>17 DEF ReplyDuplicate
    <2> QED
      BY <1>17, <2>1, <2>2, <2>3, <2>4, <2>5 DEF ReplyDuplicate, storeVars, memberVars, registryVars, clientVars
  <1>18. CASE ReplyInserted(s)
    <2>1. handler' \in [Session -> Handler]
      <3> DEFINE st == IF room[RoomOf(s)].tailUpdates >= CheckpointTailUpdates
                       THEN "compacting" ELSE "idle"
      <3>1. st \in Step /\ st \notin Submitting
        BY DEF Step, Submitting
      <3>2. ~At(s, "closed")
        BY <1>18 DEF ReplyInserted, At
      <3>3. handler' = [handler EXCEPT ![s].step = st, ![s].msg = None]
        BY <1>18 DEF ReplyInserted
      <3> HIDE DEF st
      <3> QED
        BY <3>1, <3>2, <3>3, HandlerMsg
    <2>2. handler[s].msg \in Update
      BY <1>18, OpenHandlerFacts DEF ReplyInserted, At, Submitting
    <2>3. /\ [type |-> "ack", msg |-> handler[s].msg] \in Message
          /\ [type |-> "update", msg |-> handler[s].msg] \in Message
      BY <1>18, <2>2 DEF Message
    <2>4. outbound' \in [Session -> Seq(Message)]
      BY <1>18, <2>3 DEF ReplyInserted
    <2>5. lock' \in [RoomId -> Session \cup {None}]
      BY <1>18 DEF ReplyInserted
    <2>6. room' \in [RoomId -> Room]
      BY <1>18, OpenHandlerFacts, RoomSessions, RoomType DEF ReplyInserted, DropSlow, At
    <2> QED
      BY <1>18, <2>1, <2>2, <2>3, <2>4, <2>5, <2>6 DEF ReplyInserted, storeVars, memberVars, registryVars, clientVars
  <1>19. CASE CompactCheckpoint(s)
    <2>1. handler' \in [Session -> Handler]
      BY <1>19, HandlerGoto DEF CompactCheckpoint, Goto, At, Step, Submitting
    <2>2. RoomOf(s) \in RoomId
      BY <1>19, OpenHandlerFacts DEF CompactCheckpoint, At
    <2>3. /\ base' \in Checkpoint /\ prior' \in Checkpoint
          /\ tail' \in SUBSET Row /\ IsFiniteSet(tail') /\ receipts' \in SUBSET Row
      BY <1>19, <2>2, RoomType, InstallType DEF CompactCheckpoint
    <2>4. room' \in [RoomId -> Room]
      BY <1>19, RoomTailUpdates DEF CompactCheckpoint
    <2>5. lock' \in [RoomId -> Session \cup {None}]
      BY <1>19 DEF CompactCheckpoint
    <2> QED
      BY <1>19, <2>1, <2>2, <2>3, <2>4, <2>5 DEF CompactCheckpoint, storeVars, memberVars, registryVars, clientVars
  <1>20. CASE CompactionDeferred(s)
    <2>1. handler' \in [Session -> Handler]
      BY <1>20, HandlerGoto DEF CompactionDeferred, Goto, At, Step, Submitting
    <2>2. RoomOf(s) \in RoomId
      BY <1>20, OpenHandlerFacts DEF CompactionDeferred, At
    <2>3. /\ base' \in Checkpoint /\ prior' \in Checkpoint
          /\ tail' \in SUBSET Row /\ IsFiniteSet(tail') /\ receipts' \in SUBSET Row
      BY <1>20, <2>2, RoomType, InstallType DEF CompactionDeferred
    <2>4. lock' \in [RoomId -> Session \cup {None}]
      BY <1>20 DEF CompactionDeferred
    <2> QED
      BY <1>20, <2>1, <2>2, <2>3, <2>4 DEF CompactionDeferred, storeVars, memberVars, registryVars, clientVars
  <1>21. CASE RelayPresence(s)
    <2>1. [type |-> "presence", msg |-> None] \in Message
      BY <1>21 DEF Message
    <2>2. outbound' \in [Session -> Seq(Message)]
      BY <1>21, <2>1, QueueType DEF RelayPresence
    <2>3. RoomOf(s) \in RoomId
      BY <1>21, OpenHandlerFacts DEF RelayPresence, At
    <2>4. room' \in [RoomId -> Room]
      BY <1>21, <2>3, RoomSessions, RoomType DEF RelayPresence, DropSlow
    <2> QED
      BY <1>21, <2>1, <2>2, <2>3, <2>4 DEF RelayPresence, storeVars, memberVars, registryVars, clientVars
  <1>22. CASE RecheckMembership(s)
    <2>1. handler' \in [Session -> Handler]
      BY <1>22, HandlerGoto DEF RecheckMembership, Goto, At, Step, Submitting
    <2>2. room' \in [RoomId -> Room]
      BY <1>22, RoomSession DEF RecheckMembership
    <2> QED
      BY <1>22, <2>1, <2>2 DEF RecheckMembership, storeVars, memberVars, registryVars, clientVars
  <1>23. CASE SendOutbound(s)
    <2>1. Head(outbound[s]) \in Message /\ Tail(outbound[s]) \in Seq(Message)
      BY <1>23 DEF SendOutbound
    <2>2. outbound' \in [Session -> Seq(Message)]
      BY <1>23, <2>1 DEF SendOutbound
    <2>3. Head(outbound[s]).msg \in Update \cup {None}
      BY <1>23, <2>1 DEF Message
    <2>4. Head(outbound[s]).type = "ack" => Head(outbound[s]).msg \in Update
      BY <1>23, <2>1 DEF Message
    <2>5. acked' \in SUBSET Update
      BY <1>23, <2>4 DEF SendOutbound
    <2>6. view' \in [Session -> SUBSET Update]
      BY <1>23, <2>3 DEF SendOutbound
    <2> QED
      BY <1>23, <2>1, <2>2, <2>3, <2>4, <2>5, <2>6 DEF SendOutbound, storeVars, memberVars, registryVars, clientVars
  <1>24. CASE Disconnect(s)
    <2>1. handler' \in [Session -> Handler]
      BY <1>24, HandlerReplace, TypeFacts DEF Disconnect, Close
    <2>2. room' \in [RoomId -> Room]
      BY <1>24, RoomSession DEF Disconnect
    <2>3. outbound' \in [Session -> Seq(Message)]
      BY <1>24 DEF Disconnect
    <2>4. view' \in [Session -> SUBSET Update]
      BY <1>24 DEF Disconnect
    <2> QED
      BY <1>24, <2>1, <2>2, <2>3, <2>4 DEF Disconnect, storeVars, memberVars, registryVars, clientVars
  <1> QED
    BY <1>1, <1>2, <1>3, <1>4, <1>5, <1>6, <1>7, <1>8, <1>9, <1>10, <1>11, <1>12, <1>13, <1>14, <1>15, <1>16, <1>17, <1>18, <1>19, <1>20, <1>21, <1>22, <1>23, <1>24 DEF SessionStep

LEMMA OtherStepType ==
    ASSUME Inv, [Next]_vars, ~ \E s \in Session : SessionStep(s)
    PROVE  TypeOK'
  <1> USE IdentityAssumption
  <1> USE DEF Inv, TypeOK
  <1>1. CASE LateCommitLands
    <2>1. tail' \in SUBSET Row /\ IsFiniteSet(tail')
      BY <1>1, TailAdd DEF LateCommitLands
    <2> QED
      BY <1>1, <2>1 DEF LateCommitLands, memberVars, registryVars, clientVars
  <1>2. ASSUME NEW a \in Account, NEW role \in {"editor", "viewer"},
               GrantMembership(a, role)
        PROVE  TypeOK'
    <2>1. [role |-> role, version |-> membershipVersion + 1] \in Membership
      BY DEF Membership, Role
    <2> QED
      BY <1>2, <2>1 DEF GrantMembership, storeVars, registryVars, clientVars
  <1>3. ASSUME NEW a \in Account, RevokeMembership(a)
        PROVE  TypeOK'
    <2>1. [role |-> "revoked", version |-> membershipVersion + 1] \in Membership
      BY DEF Membership, Role
    <2> QED
      BY <1>3, <2>1 DEF RevokeMembership, storeVars, registryVars, clientVars
  <1>4. CASE DeleteGraph
    <2>1. [role |-> "revoked", version |-> 0] \in Membership
      BY DEF Membership, Role
    <2>2. members' \in [Account -> Membership]
      BY <1>4, <2>1 DEF DeleteGraph
    <2>3. tail' \in SUBSET Row /\ IsFiniteSet(tail')
      BY <1>4, FS_EmptySet DEF DeleteGraph
    <2>4. /\ deletions' \in Nat /\ base' \in Checkpoint /\ prior' \in Checkpoint
          /\ revoke' \in [step : {"none", "take"}, room : {None}]
      BY <1>4, TypeFacts DEF DeleteGraph
    <2> QED
      BY <1>4, <2>2, <2>3, <2>4 DEF DeleteGraph, clientVars
  <1>5. CASE RevokeTake
    BY <1>5 DEF RevokeTake, storeVars, memberVars, clientVars
  <1>6. CASE RevokeClose
    <2>1. [type |-> "membership_revoked", msg |-> None] \in Message
      BY DEF Message
    <2>2. outbound' \in [Session -> Seq(Message)]
      BY <1>6, <2>1, QueueType DEF RevokeClose
    <2>3. room' \in [RoomId -> Room]
      BY <1>6, RoomReplace, TypeFacts DEF RevokeClose
    <2> QED
      BY <1>6, <2>2, <2>3 DEF RevokeClose, storeVars, memberVars, clientVars
  <1>7. CASE CreateGraph
    <2>1. /\ [role |-> "owner", version |-> 1] \in Membership
          /\ [role |-> "revoked", version |-> 0] \in Membership
      BY DEF Membership, Role
    <2>2. members' \in [Account -> Membership]
      BY <1>7, <2>1 DEF CreateGraph
    <2> QED
      BY <1>7, <2>2 DEF CreateGraph, registryVars
  <1>8. CASE Crash
    <2>1. /\ room' \in [RoomId -> Room]
          /\ handler' \in [Session -> Handler]
          /\ outbound' \in [Session -> Seq(Message)]
      BY <1>8, TypeFacts DEF Crash
    <2> QED
      BY <1>8, <2>1 DEF Crash, storeVars, memberVars
  <1>9. CASE UNCHANGED vars
    BY <1>9 DEF vars
  <1> QED
    BY <1>1, <1>2, <1>3, <1>4, <1>5, <1>6, <1>7, <1>8, <1>9 DEF Next
-----------------------------------------------------------------------------
(* The store's invariant.                                                  *)

LEMMA StoreSame ==
    ASSUME StoreInv, UNCHANGED <<tail, receipts, lastCursor, late>>
    PROVE  StoreInv'
  BY DEF StoreInv, OneCursorPerIdentity, IsDuplicate, Messages

\* A row with a fresh identity and a cursor above every other.
LEMMA StoreAdd ==
    ASSUME Inv, NEW row \in Row, ~IsDuplicate(row.msg),
           \A q \in tail \cup receipts : q.cursor <= row.cursor,
           tail' = tail \cup {row}, receipts' = receipts,
           lastCursor' = row.cursor, late' = None
    PROVE  StoreInv'
  <1>1. \A q \in tail \cup receipts : q \in Row /\ q.msg # row.msg
    BY DEF Inv, TypeOK, IsDuplicate, Messages
  <1>2. row.cursor \in Nat
    BY DEF Row
  <1>3. \A r \in tail' \cup receipts' : r.cursor <= lastCursor'
    BY <1>2
  <1>4. \E r \in tail' : \A q \in tail' : q.cursor <= r.cursor
    BY <1>2
  <1>5. OneCursorPerIdentity'
    BY <1>1 DEF OneCursorPerIdentity, Inv, StoreInv
  <1> QED
    BY <1>3, <1>4, <1>5 DEF StoreInv

\* What the insert of commit_update would write.
LEMMA FreshRow ==
    ASSUME Inv, NEW u \in Update
    PROVE  /\ [cursor |-> lastCursor + 1, msg |-> u] \in Row
           /\ \A q \in tail \cup receipts : q.cursor <= lastCursor + 1
  <1>1. \A q \in tail \cup receipts : q.cursor \in Nat /\ q.cursor <= lastCursor
    BY DEF Inv, TypeOK, StoreInv, Row
  <1> QED
    BY <1>1 DEF Inv, TypeOK, Row

LEMMA StoreInstall ==
    ASSUME Inv, late = None, NEW c, NEW d, InstallCheckpoint(c, d),
           UNCHANGED <<lastCursor, late>>
    PROVE  StoreInv'
  <1>1. tail' = RowsAfter(base.cursor) /\ tail' \subseteq tail
    BY DEF InstallCheckpoint, RowsAfter
  <1>2. receipts' \subseteq receipts \cup tail
    BY DEF InstallCheckpoint, ReceiptsAfter, NewestReceipts
  <1>3. \A r \in tail' \cup receipts' : r.cursor <= lastCursor'
    BY <1>1, <1>2 DEF Inv, StoreInv
  <1>4. OneCursorPerIdentity'
    BY <1>1, <1>2 DEF OneCursorPerIdentity, Inv, StoreInv
  <1>5. ASSUME tail' # {}
        PROVE  \E r \in tail' : \A q \in tail' : q.cursor <= r.cursor
    <2>1. PICK m \in tail : \A q \in tail : q.cursor <= m.cursor
      BY <1>1, <1>5 DEF Inv, StoreInv
    <2>2. PICK q \in tail : q.cursor > base.cursor
      BY <1>1, <1>5 DEF RowsAfter
    <2>3. m.cursor \in Nat /\ q.cursor \in Nat /\ base.cursor \in Nat
      BY DEF Inv, TypeOK, Row, Checkpoint
    <2>4. m \in tail'
      BY <1>1, <2>1, <2>2, <2>3 DEF RowsAfter
    <2> QED
      BY <1>1, <2>1, <2>4
  <1> QED
    BY <1>3, <1>4, <1>5 DEF StoreInv

LEMMA StoreStep ==
    ASSUME Inv, [Next]_vars
    PROVE  StoreInv'
  <1> USE DEF Inv, TypeOK
  <1>1. ASSUME NEW s \in Session, CommitInsert(s)
        PROVE  StoreInv'
    <2> DEFINE row == [cursor |-> lastCursor + 1, msg |-> handler[s].msg]
    <2>1. handler[s].msg \in Update
      BY <1>1, OpenHandlerFacts DEF CommitInsert, At, Submitting
    <2>2. row \in Row /\ \A q \in tail \cup receipts : q.cursor <= row.cursor
      BY <2>1, FreshRow
    <2>3. /\ ~IsDuplicate(row.msg) /\ tail' = tail \cup {row} /\ receipts' = receipts
          /\ lastCursor' = row.cursor /\ late' = None
      BY <1>1 DEF CommitInsert
    <2> HIDE DEF row
    <2> QED
      BY <2>2, <2>3, StoreAdd
  <1>2. ASSUME NEW s \in Session, CommitFails(s)
        PROVE  StoreInv'
    <2> DEFINE row == [cursor |-> lastCursor + 1, msg |-> handler[s].msg]
    <2>1. handler[s].msg \in Update
      BY <1>2, OpenHandlerFacts DEF CommitFails, At, Submitting
    <2>2. row \in Row /\ \A q \in tail \cup receipts : q.cursor <= row.cursor
      BY <2>1, FreshRow
    <2>3. row.cursor = lastCursor + 1 /\ row.msg = handler[s].msg
      OBVIOUS
    <2>4. receipts' = receipts
      BY <1>2 DEF CommitFails
    <2>5. \/ UNCHANGED <<lastCursor, tail, late>>
          \/ /\ ~IsDuplicate(row.msg) /\ tail' = tail \cup {row}
             /\ lastCursor' = row.cursor /\ late' = None
          \/ /\ ~IsDuplicate(row.msg) /\ tail' = tail
             /\ lastCursor' = row.cursor /\ late' = row
      BY <1>2 DEF CommitFails
    <2> HIDE DEF row
    <2>6. CASE UNCHANGED <<lastCursor, tail, late>>
      BY <2>4, <2>6, StoreSame
    <2>7. CASE /\ ~IsDuplicate(row.msg) /\ tail' = tail \cup {row}
               /\ lastCursor' = row.cursor /\ late' = None
      BY <2>2, <2>4, <2>7, StoreAdd
    <2>8. CASE /\ ~IsDuplicate(row.msg) /\ tail' = tail
               /\ lastCursor' = row.cursor /\ late' = row
      BY <2>2, <2>4, <2>8 DEF StoreInv, OneCursorPerIdentity, IsDuplicate, Messages
    <2> QED
      BY <2>5, <2>6, <2>7, <2>8
  <1>3. CASE LateCommitLands
    <2>1. /\ late \in Row /\ ~IsDuplicate(late.msg) /\ late.cursor = lastCursor
          /\ tail' = tail \cup {late} /\ receipts' = receipts
          /\ lastCursor' = lastCursor /\ late' = None
      BY <1>3 DEF LateCommitLands, StoreInv
    <2>2. \A q \in tail \cup receipts : q.cursor <= late.cursor
      BY <2>1 DEF StoreInv
    <2> QED
      BY <2>1, <2>2, StoreAdd
  <1>4. ASSUME NEW s \in Session, CompactCheckpoint(s)
        PROVE  StoreInv'
    BY <1>4, StoreInstall DEF CompactCheckpoint
  <1>5. ASSUME NEW s \in Session, CompactionDeferred(s)
        PROVE  StoreInv'
    <2>1. UNCHANGED <<lastCursor, late>>
      BY <1>5 DEF CompactionDeferred
    <2>2. CASE UNCHANGED <<base, prior, tail, receipts>>
      BY <2>1, <2>2, StoreSame
    <2>3. CASE late = None /\ InstallCheckpoint(room[RoomOf(s)].cursor, room[RoomOf(s)].doc)
      BY <2>1, <2>3, StoreInstall
    <2> QED
      BY <1>5, <2>2, <2>3 DEF CompactionDeferred
  <1>6. CASE DeleteGraph
    BY <1>6 DEF DeleteGraph, StoreInv, OneCursorPerIdentity
  <1>7. ASSUME NEW s \in Session, SessionStep(s),
               ~CommitInsert(s), ~CommitFails(s), ~CompactCheckpoint(s), ~CompactionDeferred(s)
        PROVE  StoreInv'
    <2>1. UNCHANGED storeVars
      BY <1>7 DEF SessionStep, OpenSession, LoadCheckpoint, LoadTail, LoadFails, Welcome,
         WelcomeRefused, SubmitUpdate, SubmitRefused, AdmitUpdate, RestoreRoom,
         RestoreFails, CommitDuplicate, Evict, ReplyToSlowAuthor, ReplyDuplicate,
         ReplyInserted, RelayPresence, RecheckMembership, SendOutbound, Disconnect
    <2> QED
      BY <2>1, StoreSame DEF storeVars
  <1>8. ASSUME \/ \E a \in Account, role \in {"editor", "viewer"} : GrantMembership(a, role)
               \/ \E a \in Account : RevokeMembership(a)
               \/ RevokeTake
               \/ RevokeClose
               \/ CreateGraph
               \/ Crash
               \/ UNCHANGED vars
        PROVE  StoreInv'
    <2>1. UNCHANGED <<tail, receipts, lastCursor, late>>
      BY <1>8 DEF GrantMembership, RevokeMembership, RevokeTake, RevokeClose, CreateGraph,
                  Crash, storeVars, vars
    <2> QED
      BY <2>1, StoreSame
  <1> QED
    BY <1>1, <1>2, <1>3, <1>4, <1>5, <1>6, <1>7, <1>8 DEF Next

LEMMA InvStep == Inv /\ [Next]_vars => Inv'
  BY SessionStepType, OtherStepType, StoreStep DEF Inv

LEMMA Invariance == Spec => []Inv
  BY InitInv, InvStep, PTL DEF Spec

\* Every reachable state has the types above: in particular a handler that is
\* between authorization and its reply always carries the update it serves, and a
\* session only ever waits on a room that exists.
THEOREM TypeCorrect == Spec => []TypeOK
  <1>1. Inv => TypeOK
    BY DEF Inv
  <1> QED
    BY <1>1, Invariance, PTL

\* However commits fail, land late or are retried, however compactions move rows to
\* receipts and expire receipts, and whatever the limits are, an identity that is
\* retained is retained at one cursor (commit_update's duplicate lookup and the
\* receipts of compact_checkpoint); one the cap forgot may be accepted anew.
THEOREM IdentityCorrect == Spec => []OneCursorPerIdentity
  <1>1. Inv => OneCursorPerIdentity
    BY DEF Inv, StoreInv
  <1> QED
    BY <1>1, Invariance, PTL
-----------------------------------------------------------------------------
(* Which rooms serve the graph: for any number of sessions and rooms, as    *)
(* long as a deleted graph's id is not created again, no two rooms serve    *)
(* it at once, and none once its deletion is through.                       *)
\* The steps of a handler that holds the room lock, and of one past its Welcome.
Locking == {"admitted", "rejected", "inserted", "duplicate", "compacting"}
Served == Step \ {"opening", "loading"}

\* A room that serves, or may yet be loaded to serve.
Serving(r) == Referenced(r) /\ room[r].state # "invalid"

\* One session loads an empty room; the others wait for it.
LoaderInv ==
    /\ \A s \in Session : At(s, "loading") => room[RoomOf(s)].state = "empty"
    /\ \A s, t \in Session :
          At(s, "loading") /\ At(t, "loading") /\ RoomOf(s) = RoomOf(t) => s = t
    /\ \A s \in Session : handler[s].step \in Served => room[RoomOf(s)].state # "empty"

\* A handler between admission and its reply holds the lock of a valid room.
LockInv ==
    \A s \in Session : handler[s].step \in Locking =>
        lock[RoomOf(s)] = s /\ room[RoomOf(s)].state = "valid"

\* The handler that is about to evict has discarded its room, and what it will take
\* out of the registry is that room or nothing.
EvictInv ==
    /\ \A s \in Session : At(s, "evicting") =>
          /\ room[RoomOf(s)].state = "invalid"
          /\ slot \in {RoomOf(s), None}
          /\ exists => slot # None
    /\ \A s, t \in Session :
          At(s, "evicting") /\ At(t, "evicting") /\ RoomOf(s) = RoomOf(t) => s = t

\* The registry knows the room that serves the graph, and there is one at most.
SlotInv ==
    /\ \A r \in RoomId : Serving(r) => slot \in {r, None} /\ (exists => slot = r)
    /\ \A r, q \in RoomId : Serving(r) /\ Serving(q) => r = q

\* A room that serves a deleted graph is the one revoke_graph will close.
CloseInv ==
    /\ exists => revoke.step = "none"
    /\ ~exists => \A r \in RoomId : Live(r) \/ Loading(r) =>
          \/ revoke.step = "take" /\ slot = r
          \/ revoke.step = "close" /\ revoke.room = r

RegInv == LoaderInv /\ LockInv /\ EvictInv /\ SlotInv /\ CloseInv
-----------------------------------------------------------------------------
(* What the types say, member by member.                                   *)

Shape ==
    /\ \A s \in Session :
          /\ handler[s].step \in Step \cup {"closed"}
          /\ handler[s].step # "closed" => handler[s].room \in RoomId
          /\ handler[s].step = "closed" => handler[s].room = None
    /\ \A r \in RoomId : room[r].state \in {"empty", "valid", "invalid"}
    /\ slot \in RoomId \cup {None}
    /\ None \notin RoomId \cup Session
    /\ revoke.step \in {"none", "take", "close"}
    /\ revoke.step = "close" => revoke.room \in RoomId
    /\ revoke.step # "close" => revoke.room = None

LEMMA Shaped == Inv => Shape
  <1> SUFFICES ASSUME Inv PROVE Shape
    OBVIOUS
  <1>1. ASSUME NEW s \in Session
        PROVE  /\ handler[s].step \in Step \cup {"closed"}
               /\ handler[s].step # "closed" => handler[s].room \in RoomId
               /\ handler[s].step = "closed" => handler[s].room = None
    <2>1. handler[s] \in Handler
      BY DEF Inv, TypeOK
    <2> QED
      BY <2>1 DEF Handler, Closed, Step
  <1>2. ASSUME NEW r \in RoomId PROVE room[r].state \in {"empty", "valid", "invalid"}
    BY DEF Inv, TypeOK, Room
  <1>3. slot \in RoomId \cup {None} /\ None \notin RoomId \cup Session
    BY IdentityAssumption DEF Inv, TypeOK
  <1>4. /\ revoke.step \in {"none", "take", "close"}
        /\ revoke.step = "close" => revoke.room \in RoomId
        /\ revoke.step # "close" => revoke.room = None
    BY DEF Inv, TypeOK
  <1> QED
    BY <1>1, <1>2, <1>3, <1>4 DEF Shape

\* Session s goes to step st in its room; the other handlers stand where they were.
Moves(s, st) ==
    \A t \in Session :
        IF t = s THEN handler'[t].step = st /\ handler'[t].room = handler[t].room
        ELSE handler'[t] = handler[t]

LEMMA Moving ==
    ASSUME handler \in [Session -> Handler], NEW s \in Session, ~At(s, "closed"), NEW st, NEW m
    PROVE  /\ handler' = [handler EXCEPT ![s].step = st] => Moves(s, st)
           /\ handler' = [handler EXCEPT ![s].step = st, ![s].msg = m] => Moves(s, st)
           /\ handler' = [handler EXCEPT ![s].step = st, ![s].version = m] => Moves(s, st)
  <1>1. handler[s] \in OpenHandler
    BY OpenHandlerFacts
  <1>2. /\ [handler[s] EXCEPT !.step = st].step = st
        /\ [handler[s] EXCEPT !.step = st].room = handler[s].room
        /\ [handler[s] EXCEPT !.step = st, !.msg = m].step = st
        /\ [handler[s] EXCEPT !.step = st, !.msg = m].room = handler[s].room
        /\ [handler[s] EXCEPT !.step = st, !.version = m].step = st
        /\ [handler[s] EXCEPT !.step = st, !.version = m].room = handler[s].room
    BY <1>1 DEF OpenHandler
  <1> QED
    BY <1>2 DEF Moves

\* The handler of session s ends.
Closes(s) == \A t \in Session : handler'[t] = IF t = s THEN Closed ELSE handler[t]

LEMMA Closing ==
    ASSUME handler \in [Session -> Handler], NEW s \in Session, Close(s)
    PROVE  Closes(s)
  BY DEF Close, Closes

\* No room changes its state, and the registry and the deletion stand.
SameStates == \A r \in RoomId : room'[r].state = room[r].state
SameRegistry == slot' = slot /\ exists' = exists /\ revoke' = revoke

\* Only session s may have taken or given back the lock of its room.
OwnLock(s) ==
    \A r \in RoomId : (r = RoomOf(s) /\ lock[r] \in {None, s}) \/ lock'[r] = lock[r]
-----------------------------------------------------------------------------
(* A step that leaves the states of the rooms alone.                       *)

LEMMA References ==
    ASSUME Shape, NEW s \in Session, NEW st, Moves(s, st), SameRegistry
    PROVE  \A r \in RoomId : Referenced(r)' <=> Referenced(r)
  <1>1. \A t \in Session : handler'[t].room = handler[t].room
    BY DEF Moves
  <1> QED
    BY <1>1 DEF SameRegistry, Referenced

LEMMA WorkingStep ==
    ASSUME Shape, RegInv, NEW s \in Session, NEW st \in Served \ {"evicting"}, Moves(s, st),
           SameStates, SameRegistry, OwnLock(s),
           ~At(s, "closed"), room[RoomOf(s)].state # "empty",
           st \in Locking => lock'[RoomOf(s)] = s /\ room[RoomOf(s)].state = "valid"
    PROVE  RegInv'
  <1> USE DEF Shape, RegInv, At, RoomOf, Served, Step
  <1>1. LoaderInv'
    BY DEF LoaderInv, Moves, SameStates
  <1>2. LockInv'
    <2> SUFFICES ASSUME NEW t \in Session, handler'[t].step \in Locking
                 PROVE  lock'[handler'[t].room] = t /\ room'[handler'[t].room].state = "valid"
      BY DEF LockInv
    <2>1. CASE t = s
      BY <2>1 DEF Moves, SameStates, Locking
    <2>2. CASE t # s
      <3>1. handler'[t] = handler[t] /\ handler[t].step \in Locking /\ handler[t].room \in RoomId
        BY <2>2 DEF Moves, Locking
      <3>2. lock[handler[t].room] = t /\ room[handler[t].room].state = "valid"
        BY <3>1 DEF LockInv
      <3>3. lock'[handler[t].room] = t
        BY <2>2, <3>1, <3>2 DEF OwnLock
      <3> QED
        BY <3>1, <3>2, <3>3 DEF SameStates
    <2> QED
      BY <2>1, <2>2
  <1>3. EvictInv'
    BY DEF EvictInv, Moves, SameStates, SameRegistry
  <1>4. \A r \in RoomId : (Serving(r)' <=> Serving(r)) /\ (Live(r)' <=> Live(r)) /\ (Loading(r)' => Loading(r))
    <2>1. \A r \in RoomId : Loading(r)' => Loading(r)
      BY DEF Loading, Moves
    <2> QED
      BY <2>1, References DEF Serving, Live, SameStates
  <1>5. SlotInv'
    BY <1>4 DEF SlotInv, SameRegistry
  <1>6. CloseInv'
    BY <1>4 DEF CloseInv, SameRegistry
  <1> QED
    BY <1>1, <1>2, <1>3, <1>5, <1>6
-----------------------------------------------------------------------------
(* The steps that change which rooms there are, and who waits for them.    *)

\* A handler ends: WelcomeRefused, LoadFails, Disconnect.
LEMMA ClosingStep ==
    ASSUME Shape, RegInv, NEW s \in Session, Closes(s), SameStates, SameRegistry, lock' = lock
    PROVE  RegInv'
  <1> USE DEF Shape, RegInv, At, RoomOf
  <1>1. handler'[s] = Closed /\ Closed.step = "closed" /\ Closed.room = None
    BY DEF Closes, Closed
  <1>2. \A t \in Session : t # s => handler'[t] = handler[t]
    BY DEF Closes
  <1>3. LoaderInv'
    BY <1>1, <1>2 DEF LoaderInv, SameStates, Served, Step
  <1>4. LockInv'
    BY <1>1, <1>2 DEF LockInv, SameStates, Locking
  <1>5. EvictInv'
    BY <1>1, <1>2 DEF EvictInv, SameStates, SameRegistry
  <1>6. \A r \in RoomId : (Serving(r)' => Serving(r)) /\ (Live(r)' => Live(r)) /\ (Loading(r)' => Loading(r))
    <2>1. \A r \in RoomId : Loading(r)' => Loading(r)
      BY <1>1, <1>2 DEF Loading
    <2>2. \A r \in RoomId : Referenced(r)' => Referenced(r)
      BY <1>1, <1>2 DEF Referenced, SameRegistry
    <2> QED
      BY <2>1, <2>2 DEF Serving, Live, SameStates
  <1>7. SlotInv'
    BY <1>6 DEF SlotInv, SameRegistry
  <1>8. CloseInv'
    BY <1>6 DEF CloseInv, SameRegistry
  <1> QED
    BY <1>3, <1>4, <1>5, <1>7, <1>8

\* A session finds its room empty and starts to load it.
LEMMA LoadCheckpointStep ==
    ASSUME Inv, RegInv, NEW s \in Session, LoadCheckpoint(s)
    PROVE  RegInv'
  <1> DEFINE r == RoomOf(s)
  <1>1. Shape
    BY Shaped
  <1> USE DEF RegInv, At, RoomOf
  <1>2. /\ handler[s].step = "opening" /\ room[r].state = "empty" /\ ~Loading(r) /\ exists
        /\ SameRegistry /\ lock' = lock
    BY DEF LoadCheckpoint, SameRegistry, storeVars, registryVars
  <1>3. r \in RoomId
    BY <1>1, <1>2 DEF Shape
  <1>4. Moves(s, "loading")
    BY <1>2, Moving DEF LoadCheckpoint, Goto, Inv, TypeOK
  <1>5. SameStates
    <2>1. room \in [RoomId -> Room] /\ room' = [room EXCEPT ![r].doc = base.doc, ![r].cursor = base.cursor]
      BY DEF LoadCheckpoint, Inv, TypeOK
    <2> QED
      BY <2>1 DEF SameStates, Room
  <1>6. LoaderInv'
    <2>1. \A t \in Session : t # s /\ handler[t].step = "loading" => handler[t].room # r
      BY <1>2 DEF Loading
    <2> QED
      BY <1>1, <1>2, <1>4, <1>5, <2>1 DEF LoaderInv, Moves, SameStates, Shape, Served, Step
  <1>7. LockInv'
    BY <1>1, <1>2, <1>4, <1>5 DEF LockInv, Moves, SameStates, Locking, Shape
  <1>8. EvictInv'
    BY <1>1, <1>2, <1>4, <1>5 DEF EvictInv, Moves, SameStates, SameRegistry, Shape
  <1>9. \A q \in RoomId : (Serving(q)' <=> Serving(q)) /\ (Live(q)' <=> Live(q))
    BY <1>1, <1>2, <1>4, <1>5, References DEF Serving, Live, SameStates
  <1>10. SlotInv'
    BY <1>2, <1>9 DEF SlotInv, SameRegistry
  <1>11. CloseInv'
    BY <1>2 DEF CloseInv, SameRegistry
  <1> QED
    BY <1>6, <1>7, <1>8, <1>10, <1>11

\* It has replayed the rows, and the room serves the graph.
LEMMA LoadTailStep ==
    ASSUME Inv, RegInv, NEW s \in Session, LoadTail(s)
    PROVE  RegInv'
  <1> DEFINE r == RoomOf(s)
  <1>1. Shape
    BY Shaped
  <1> USE DEF RegInv, At, RoomOf
  <1>2. handler[s].step = "loading" /\ SameRegistry /\ lock' = lock
    BY DEF LoadTail, SameRegistry, storeVars, registryVars
  <1>3. r \in RoomId /\ room[r].state = "empty" /\ r # None
    BY <1>1, <1>2 DEF Shape, LoaderInv
  <1>4. Moves(s, "opening")
    BY <1>2, Moving DEF LoadTail, Goto, Inv, TypeOK
  <1>5. room'[r].state = "valid" /\ \A q \in RoomId \ {r} : room'[q] = room[q]
    <2>1. room \in [RoomId -> Room] /\ room' = [room EXCEPT ![r] = Loaded(r, RowsAfter(room[r].cursor))]
      BY DEF LoadTail, Inv, TypeOK
    <2>2. Loaded(r, RowsAfter(room[r].cursor)).state = "valid"
      BY <1>3, <2>1 DEF Loaded, Room
    <2> QED
      BY <1>3, <2>1, <2>2
  <1>6. LoaderInv'
    BY <1>1, <1>2, <1>3, <1>4, <1>5 DEF LoaderInv, Moves, Shape, Served, Step
  <1>7. LockInv'
    BY <1>1, <1>2, <1>3, <1>4, <1>5 DEF LockInv, Moves, Locking, Shape
  <1>8. EvictInv'
    BY <1>1, <1>2, <1>3, <1>4, <1>5 DEF EvictInv, Moves, SameRegistry, Shape
  <1>9. Loading(r)
    BY <1>2 DEF Loading
  <1>10. \A q \in RoomId : (Serving(q)' <=> Serving(q)) /\ (Live(q)' \/ Loading(q)' => Live(q) \/ Loading(q))
    <2>1. \A q \in RoomId : Loading(q)' => Loading(q)
      BY <1>4 DEF Loading, Moves
    <2> QED
      BY <1>1, <1>2, <1>3, <1>4, <1>5, <1>9, <2>1, References DEF Serving, Live
  <1>11. SlotInv'
    BY <1>2, <1>10 DEF SlotInv, SameRegistry
  <1>12. CloseInv'
    BY <1>2, <1>10 DEF CloseInv, SameRegistry
  <1> QED
    BY <1>6, <1>7, <1>8, <1>11, <1>12

\* A handler discards the room it has locked: invalidate_room.
LEMMA InvalidateStep ==
    ASSUME Inv, RegInv, NEW s \in Session, handler[s].step \in Locking, Moves(s, "evicting"),
           room' = [room EXCEPT ![RoomOf(s)] = DeadRoom], lock' = [lock EXCEPT ![RoomOf(s)] = None],
           SameRegistry
    PROVE  RegInv'
  <1> DEFINE r == RoomOf(s)
  <1>1. Shape
    BY Shaped
  <1> USE DEF RegInv, At, RoomOf
  <1>2. r \in RoomId /\ room[r].state = "valid" /\ lock[r] = s /\ r # None
    BY <1>1 DEF Shape, LockInv, Locking
  <1>3. /\ room'[r].state = "invalid" /\ \A q \in RoomId \ {r} : room'[q] = room[q]
        /\ \A q \in RoomId \ {r} : lock'[q] = lock[q]
    BY <1>2 DEF Inv, TypeOK, DeadRoom
  <1>4. \A t \in Session : handler[t].step \in Locking /\ t # s => handler[t].room # r
    BY <1>2 DEF LockInv
  <1>5. LoaderInv'
    BY <1>1, <1>2, <1>3 DEF LoaderInv, Moves, Shape, Served, Step
  <1>6. LockInv'
    BY <1>1, <1>2, <1>3, <1>4 DEF LockInv, Moves, Locking, Shape
  <1>7. \A q \in RoomId : (Serving(q)' => Serving(q)) /\ (Live(q)' => Live(q)) /\ (Loading(q)' => Loading(q))
    <2>1. \A q \in RoomId : Loading(q)' => Loading(q)
      BY DEF Loading, Moves
    <2> QED
      BY <1>1, <1>2, <1>3, <2>1, References DEF Serving, Live
  <1>8. slot \in {r, None} /\ (exists => slot # None)
    <2>1. Serving(r)
      BY <1>2 DEF Serving, Referenced
    <2> QED
      BY <1>2, <2>1 DEF SlotInv
  <1>9. EvictInv'
    BY <1>1, <1>2, <1>3, <1>8 DEF EvictInv, Moves, SameRegistry, Shape
  <1>10. SlotInv'
    BY <1>7 DEF SlotInv, SameRegistry
  <1>11. CloseInv'
    BY <1>7 DEF CloseInv, SameRegistry
  <1> QED
    BY <1>5, <1>6, <1>9, <1>10, <1>11

\* A session finds the registry's slot, or creates it.
LEMMA OpenStep ==
    ASSUME Inv, RegInv, NEW s \in Session, OpenSession(s)
    PROVE  RegInv'
  <1>1. Shape /\ handler \in [Session -> Handler] /\ room \in [RoomId -> Room]
    BY Shaped DEF Inv, TypeOK
  <1> USE DEF RegInv, At, RoomOf
  <1>2. handler[s].step = "closed" /\ exists /\ lock' = lock /\ exists' = exists /\ revoke' = revoke
    BY DEF OpenSession, Authorized, storeVars
  <1>3. PICK r \in RoomId :
            /\ slot' = r /\ handler' = [handler EXCEPT ![s] = Opening(r)]
            /\ \/ slot = r /\ room' = room
               \/ slot = None /\ ~Referenced(r) /\ room' = [room EXCEPT ![r] = NewRoom]
    <2>1. CASE slot # None
      BY <1>1, <2>1 DEF OpenSession, Shape
    <2>2. CASE slot = None
      BY <1>1, <2>2 DEF OpenSession
    <2> QED
      BY <2>1, <2>2
  <1>4. /\ handler'[s].step = "opening" /\ handler'[s].room = r
        /\ \A t \in Session : t # s => handler'[t] = handler[t]
    BY <1>1, <1>3 DEF Opening
  <1>5. \A t \in Session : t # s /\ handler[t].step # "closed" => room'[handler[t].room] = room[handler[t].room]
    <2> SUFFICES ASSUME NEW t \in Session, t # s, handler[t].step # "closed", room' # room
                 PROVE  room'[handler[t].room] = room[handler[t].room]
      OBVIOUS
    <2>1. handler[t].room # r
      BY <1>3 DEF Referenced
    <2> QED
      BY <1>1, <1>3, <2>1 DEF Shape
  <1>6. LoaderInv'
    BY <1>1, <1>4, <1>5 DEF LoaderInv, Shape, Served, Step
  <1>7. LockInv'
    BY <1>1, <1>2, <1>4, <1>5 DEF LockInv, Locking
  <1>8. \A q \in RoomId : q # r => ~Serving(q)' /\ (Live(q)' \/ Loading(q)' => q = r)
    <2> SUFFICES ASSUME NEW q \in RoomId, q # r PROVE ~Serving(q)' /\ ~Live(q)' /\ ~Loading(q)'
      OBVIOUS
    <2>1. room'[q] = room[q]
      BY <1>1, <1>3
    <2>2. Referenced(q)' => Referenced(q)
      BY <1>2, <1>3, <1>4 DEF Referenced
    <2>3. ~Serving(q)
      BY <1>1, <1>2, <1>3 DEF SlotInv, Shape
    <2>4. ~Loading(q)
      BY <2>3 DEF Loading, LoaderInv, Serving, Referenced
    <2>5. ~Loading(q)'
      BY <1>4, <2>4 DEF Loading
    <2> QED
      BY <2>1, <2>2, <2>3, <2>5 DEF Serving, Live
  <1>9. EvictInv'
    <2>1. slot = None => \A t \in Session : handler[t].step # "evicting"
      BY <1>2 DEF EvictInv
    <2> QED
      BY <1>1, <1>2, <1>3, <1>4, <1>5, <2>1 DEF EvictInv, Shape
  <1>10. SlotInv'
    BY <1>2, <1>3, <1>8 DEF SlotInv
  <1>11. CloseInv'
    BY <1>2 DEF CloseInv
  <1> QED
    BY <1>6, <1>7, <1>9, <1>10, <1>11

\* evict takes its own discarded room out of the registry, and no other.
LEMMA EvictStep ==
    ASSUME Inv, RegInv, NEW s \in Session, Evict(s)
    PROVE  RegInv'
  <1>1. Shape
    BY Shaped
  <1> USE DEF RegInv, At, RoomOf
  <1>2. /\ handler[s].step = "evicting" /\ slot' = None /\ room' = room /\ lock' = lock
        /\ exists' = exists /\ revoke' = revoke
    BY DEF Evict, storeVars
  <1>3. Moves(s, "leaving") \/ Moves(s, "idle")
    BY <1>2, Moving DEF Evict, Goto, Inv, TypeOK
  <1>4. handler[s].room \in RoomId /\ room[handler[s].room].state = "invalid"
        /\ slot \in {handler[s].room, None} /\ (exists => slot # None)
    BY <1>1, <1>2 DEF Shape, EvictInv
  <1>5. LoaderInv'
    BY <1>1, <1>2, <1>3, <1>4 DEF LoaderInv, Moves, Shape, Served, Step
  <1>6. LockInv'
    BY <1>1, <1>2, <1>3, <1>4 DEF LockInv, Moves, Locking, Shape
  <1>7. \A q \in RoomId : (Serving(q)' => Serving(q)) /\ (Live(q)' => Live(q)) /\ (Loading(q)' => Loading(q))
    <2>1. \A q \in RoomId : Loading(q)' => Loading(q)
      BY <1>2, <1>3 DEF Loading, Moves
    <2>2. \A q \in RoomId : Referenced(q)' => Referenced(q)
      BY <1>1, <1>2, <1>3 DEF Referenced, Moves, Shape
    <2> QED
      BY <1>2, <2>1, <2>2 DEF Serving, Live
  <1>8. \A q \in RoomId : Serving(q) => slot # q
    BY <1>1, <1>4 DEF Serving, Shape
  <1>9. EvictInv'
    <2>1. \A t \in Session : t # s => handler'[t] = handler[t]
      BY <1>3 DEF Moves
    <2>2. handler'[s].step # "evicting"
      BY <1>3 DEF Moves
    <2>3. exists => \A t \in Session : handler[t].step = "evicting" => t = s
      BY <1>1, <1>2, <1>4 DEF EvictInv, Shape
    <2> QED
      BY <1>1, <1>2, <2>1, <2>2, <2>3 DEF EvictInv, Shape
  <1>10. SlotInv'
    BY <1>2, <1>7, <1>8 DEF SlotInv
  <1>11. CloseInv'
    <2>1. \A q \in RoomId : Live(q) \/ Loading(q) => slot # q
      BY <1>8 DEF Live, Loading, LoaderInv, Serving, Referenced
    <2> QED
      BY <1>2, <1>7, <2>1 DEF CloseInv
  <1> QED
    BY <1>5, <1>6, <1>9, <1>10, <1>11
-----------------------------------------------------------------------------
(* Every step.                                                             *)

\* What the registry's invariant depends on.
registryView == <<handler, room, lock, slot, exists, revoke>>

LEMMA ViewKept ==
    ASSUME RegInv, UNCHANGED registryView
    PROVE  RegInv'
  BY DEF RegInv, registryView, LoaderInv, LockInv, EvictInv, SlotInv, CloseInv, At, RoomOf,
         Serving, Live, Loading, Referenced

\* The steps that keep every room's state: what they do to it, to the lock and to the
\* handler.
LEMMA SubmissionStep ==
    ASSUME Inv, RegInv, NEW s \in Session,
           \/ Welcome(s) \/ (\E u \in Update : SubmitUpdate(s, u)) \/ SubmitRefused(s)
           \/ AdmitUpdate(s) \/ RestoreRoom(s) \/ CommitDuplicate(s) \/ CommitInsert(s)
    PROVE  RegInv'
  <1>1. Shape
    BY Shaped
  <1>2. handler \in [Session -> Handler] /\ room \in [RoomId -> Room] /\ lock \in [RoomId -> Session \cup {None}]
    BY DEF Inv, TypeOK
  <1> USE DEF At, RoomOf
  <1>3. /\ handler[s].step \in Served => room[handler[s].room].state # "empty"
        /\ handler[s].step \in Locking => lock[handler[s].room] = s /\ room[handler[s].room].state = "valid"
    BY DEF RegInv, LoaderInv, LockInv
  <1>4. CASE Welcome(s)
    <2>1. Moves(s, "idle") /\ SameRegistry /\ lock' = lock /\ handler[s].step = "opening" /\ room[handler[s].room].state = "valid"
      BY <1>2, <1>4, Moving DEF Welcome, SameRegistry, storeVars, registryVars
    <2>2. SameStates
      BY <1>2, <1>4 DEF Welcome, SameStates, Room
    <2> QED
      BY <1>1, <2>1, <2>2, WorkingStep DEF Served, Step, OwnLock, Locking
  <1>5. ASSUME NEW u \in Update, SubmitUpdate(s, u) PROVE RegInv'
    <2>1. (Moves(s, "authorized") \/ Moves(s, "leaving")) /\ handler[s].step = "idle"
      BY <1>2, <1>5, Moving DEF SubmitUpdate, Goto
    <2>2. SameRegistry /\ lock' = lock /\ SameStates
      BY <1>5 DEF SubmitUpdate, SameRegistry, SameStates, storeVars, registryVars
    <2> QED
      BY <1>1, <1>3, <2>1, <2>2, WorkingStep DEF Served, Step, OwnLock, Locking
  <1>6. CASE SubmitRefused(s)
    <2>1. (Moves(s, "idle") \/ Moves(s, "leaving")) /\ handler[s].step = "authorized"
      <3>1. /\ handler[s].step = "authorized"
            /\ \/ handler' = [handler EXCEPT ![s].step = "leaving"]
               \/ handler' = [handler EXCEPT ![s].step = "idle", ![s].msg = None]
        BY <1>6 DEF SubmitRefused, Goto
      <3> QED
        BY <1>2, <3>1, Moving
    <2>2. SameRegistry /\ lock' = lock /\ SameStates
      BY <1>6 DEF SubmitRefused, SameRegistry, SameStates, storeVars, registryVars
    <2> QED
      BY <1>1, <1>3, <2>1, <2>2, WorkingStep DEF Served, Step, OwnLock, Locking
  <1>7. CASE AdmitUpdate(s)
    <2>1. (Moves(s, "admitted") \/ Moves(s, "rejected")) /\ handler[s].step = "authorized"
      BY <1>2, <1>7, Moving DEF AdmitUpdate, Goto
    <2>2. SameRegistry /\ OwnLock(s) /\ lock'[handler[s].room] = s /\ room[handler[s].room].state = "valid"
      BY <1>1, <1>2, <1>7 DEF AdmitUpdate, SameRegistry, OwnLock, storeVars, registryVars, Shape
    <2>3. SameStates
      BY <1>2, <1>7 DEF AdmitUpdate, SameStates, Room
    <2> QED
      BY <1>1, <1>3, <2>1, <2>2, <2>3, WorkingStep DEF Served, Step, Locking
  <1>8. CASE RestoreRoom(s)
    <2>1. Moves(s, "leaving") /\ handler[s].step = "rejected"
      BY <1>2, <1>8, Moving DEF RestoreRoom, Goto
    <2>2. SameRegistry /\ OwnLock(s)
      BY <1>2, <1>3, <1>8, <2>1 DEF RestoreRoom, SameRegistry, OwnLock, Locking, storeVars, registryVars
    <2>3. SameStates
      BY <1>2, <1>8 DEF RestoreRoom, Restored, SameStates, Room
    <2> QED
      BY <1>1, <1>3, <2>1, <2>2, <2>3, WorkingStep DEF Served, Step, Locking
  <1>9. CASE CommitDuplicate(s)
    <2>1. Moves(s, "duplicate") /\ handler[s].step = "admitted"
      BY <1>2, <1>9, Moving DEF CommitDuplicate, Goto
    <2>2. SameRegistry /\ lock' = lock /\ SameStates
      BY <1>9 DEF CommitDuplicate, SameRegistry, SameStates, storeVars, registryVars
    <2> QED
      BY <1>1, <1>3, <2>1, <2>2, WorkingStep DEF Served, Step, OwnLock, Locking
  <1>10. CASE CommitInsert(s)
    <2>1. Moves(s, "inserted") /\ handler[s].step = "admitted"
      BY <1>2, <1>10, Moving DEF CommitInsert, Goto
    <2>2. SameRegistry /\ lock' = lock
      BY <1>10 DEF CommitInsert, SameRegistry, storeVars, registryVars
    <2>3. SameStates
      BY <1>2, <1>10 DEF CommitInsert, SameStates, Room
    <2> QED
      BY <1>1, <1>3, <2>1, <2>2, <2>3, WorkingStep DEF Served, Step, OwnLock, Locking
  <1> QED
    BY <1>4, <1>5, <1>6, <1>7, <1>8, <1>9, <1>10

LEMMA ReplyStep ==
    ASSUME Inv, RegInv, NEW s \in Session,
           \/ ReplyToSlowAuthor(s) \/ ReplyDuplicate(s) \/ ReplyInserted(s)
           \/ CompactCheckpoint(s) \/ CompactionDeferred(s)
           \/ RelayPresence(s) \/ RecheckMembership(s) \/ SendOutbound(s)
    PROVE  RegInv'
  <1>1. Shape
    BY Shaped
  <1>2. handler \in [Session -> Handler] /\ room \in [RoomId -> Room] /\ lock \in [RoomId -> Session \cup {None}]
    BY DEF Inv, TypeOK
  <1> USE DEF At, RoomOf
  <1>3. /\ handler[s].step \in Served => room[handler[s].room].state # "empty"
        /\ handler[s].step \in Locking => lock[handler[s].room] = s /\ room[handler[s].room].state = "valid"
    BY DEF RegInv, LoaderInv, LockInv
  <1>4. CASE ReplyToSlowAuthor(s)
    <2>1. Moves(s, "leaving") /\ handler[s].step \in {"inserted", "duplicate"}
      BY <1>2, <1>4, Moving DEF ReplyToSlowAuthor, Goto
    <2>2. SameRegistry /\ OwnLock(s)
      BY <1>2, <1>3, <1>4, <2>1 DEF ReplyToSlowAuthor, SameRegistry, OwnLock, Locking, storeVars, registryVars
    <2>3. SameStates
      BY <1>2, <1>4 DEF ReplyToSlowAuthor, SameStates, Room
    <2> QED
      BY <1>1, <1>3, <2>1, <2>2, <2>3, WorkingStep DEF Served, Step, Locking
  <1>5. CASE ReplyDuplicate(s)
    <2>1. Moves(s, "idle") /\ handler[s].step = "duplicate"
      BY <1>2, <1>5, Moving DEF ReplyDuplicate
    <2>2. SameRegistry /\ OwnLock(s) /\ SameStates
      BY <1>2, <1>3, <1>5, <2>1 DEF ReplyDuplicate, SameRegistry, SameStates, OwnLock, Locking, storeVars, registryVars
    <2> QED
      BY <1>1, <1>3, <2>1, <2>2, WorkingStep DEF Served, Step, Locking
  <1>6. CASE ReplyInserted(s)
    <2>1. handler[s].step = "inserted"
      BY <1>6 DEF ReplyInserted
    <2>2. \/ Moves(s, "compacting") /\ lock'[handler[s].room] = s
          \/ Moves(s, "idle")
      <3> DEFINE compacts == room[handler[s].room].tailUpdates >= CheckpointTailUpdates
      <3>1. /\ handler' = [handler EXCEPT ![s].step = IF compacts THEN "compacting" ELSE "idle", ![s].msg = None]
            /\ lock' = [lock EXCEPT ![handler[s].room] = IF compacts THEN s ELSE None]
        BY <1>6 DEF ReplyInserted
      <3>2. handler[s].room \in RoomId
        BY <1>1, <2>1 DEF Shape
      <3> HIDE DEF compacts
      <3>3. CASE compacts
        BY <1>2, <2>1, <3>1, <3>2, <3>3, Moving
      <3>4. CASE ~compacts
        BY <1>2, <2>1, <3>1, <3>4, Moving
      <3> QED
        BY <3>3, <3>4
    <2>3. SameRegistry /\ OwnLock(s)
      BY <1>2, <1>3, <1>6, <2>1 DEF ReplyInserted, SameRegistry, OwnLock, Locking, storeVars, registryVars
    <2>4. SameStates
      BY <1>2, <1>6 DEF ReplyInserted, DropSlow, SameStates, Room
    <2> QED
      BY <1>1, <1>3, <2>1, <2>2, <2>3, <2>4, WorkingStep DEF Served, Step, Locking
  <1>7. CASE CompactCheckpoint(s) \/ CompactionDeferred(s)
    <2>1. Moves(s, "idle") /\ handler[s].step = "compacting"
      BY <1>2, <1>7, Moving DEF CompactCheckpoint, CompactionDeferred, Goto
    <2>2. SameRegistry /\ OwnLock(s)
      BY <1>2, <1>3, <1>7, <2>1 DEF CompactCheckpoint, CompactionDeferred, SameRegistry, OwnLock, Locking, registryVars
    <2>3. SameStates
      BY <1>2, <1>7 DEF CompactCheckpoint, CompactionDeferred, SameStates, Room
    <2> QED
      BY <1>1, <1>3, <2>1, <2>2, <2>3, WorkingStep DEF Served, Step, Locking
  <1>8. CASE RelayPresence(s) \/ SendOutbound(s)
    <2>1. UNCHANGED <<handler, lock, slot, exists, revoke>> /\ handler[s].step = "idle"
      BY <1>8 DEF RelayPresence, SendOutbound, storeVars, registryVars
    <2>2. Moves(s, "idle") /\ SameRegistry /\ OwnLock(s)
      BY <2>1 DEF Moves, SameRegistry, OwnLock
    <2>3. SameStates
      BY <1>2, <1>8 DEF RelayPresence, DropSlow, SendOutbound, SameStates, Room
    <2> QED
      BY <1>1, <1>3, <2>1, <2>2, <2>3, WorkingStep DEF Served, Step, Locking
  <1>9. CASE RecheckMembership(s)
    <2>1. Moves(s, "leaving") /\ handler[s].step = "idle"
      BY <1>2, <1>9, Moving DEF RecheckMembership, Goto
    <2>2. SameRegistry /\ OwnLock(s)
      BY <1>9 DEF RecheckMembership, SameRegistry, OwnLock, storeVars, registryVars
    <2>3. SameStates
      BY <1>2, <1>9 DEF RecheckMembership, SameStates, Room
    <2> QED
      BY <1>1, <1>3, <2>1, <2>2, <2>3, WorkingStep DEF Served, Step, Locking
  <1> QED
    BY <1>4, <1>5, <1>6, <1>7, <1>8, <1>9

\* Handlers that end, and handlers that discard their room.
LEMMA EndStep ==
    ASSUME Inv, RegInv, NEW s \in Session,
           WelcomeRefused(s) \/ LoadFails(s) \/ Disconnect(s)
    PROVE  RegInv'
  <1>1. Shape
    BY Shaped
  <1>2. handler \in [Session -> Handler] /\ room \in [RoomId -> Room]
    BY DEF Inv, TypeOK
  <1> USE DEF At, RoomOf
  <1>3. Closes(s) /\ SameRegistry /\ lock' = lock
    BY <1>2, Closing DEF WelcomeRefused, LoadFails, Disconnect, SameRegistry, storeVars, registryVars
  <1>4. SameStates
    <2>1. CASE WelcomeRefused(s)
      BY <2>1 DEF WelcomeRefused, SameStates
    <2>2. CASE LoadFails(s)
      <3>1. room[handler[s].room].state = "empty" /\ room' = [room EXCEPT ![handler[s].room] = NewRoom]
        BY <2>2 DEF LoadFails, RegInv, LoaderInv
      <3> QED
        BY <1>2, <3>1 DEF SameStates, NewRoom
    <2>3. CASE Disconnect(s)
      BY <1>2, <2>3 DEF Disconnect, SameStates, Room
    <2> QED
      BY <2>1, <2>2, <2>3
  <1> QED
    BY <1>1, <1>3, <1>4, ClosingStep

LEMMA DiscardStep ==
    ASSUME Inv, RegInv, NEW s \in Session, RestoreFails(s) \/ CommitFails(s)
    PROVE  RegInv'
  <1>1. handler \in [Session -> Handler]
    BY DEF Inv, TypeOK
  <1> USE DEF At, RoomOf
  <1>2. handler[s].step \in Locking /\ handler[s].step # "closed"
    BY DEF RestoreFails, CommitFails, Locking
  <1>3. Moves(s, "evicting")
    BY <1>1, <1>2, Moving DEF RestoreFails, CommitFails, Goto
  <1>4. /\ room' = [room EXCEPT ![RoomOf(s)] = DeadRoom] /\ lock' = [lock EXCEPT ![RoomOf(s)] = None]
        /\ SameRegistry
    BY DEF RestoreFails, CommitFails, Invalidate, SameRegistry, storeVars, registryVars
  <1> QED
    BY <1>2, <1>3, <1>4, InvalidateStep

\* Deletion and the end of the process.
LEMMA DeletionStep ==
    ASSUME Inv, RegInv, DeleteGraph \/ RevokeTake
    PROVE  RegInv'
  <1>1. Shape
    BY Shaped
  <1> USE DEF RegInv, At, RoomOf
  <1>2. handler' = handler /\ room' = room /\ lock' = lock
    BY DEF DeleteGraph, RevokeTake, memberVars
  <1>3. /\ exists' => exists /\ revoke' = revoke /\ slot' = slot
        /\ slot' \in {slot, None} /\ (slot' # slot => ~exists)
    BY DEF DeleteGraph, RevokeTake, CloseInv, storeVars
  <1>4. \A r \in RoomId : Referenced(r)' => Referenced(r)
    <2>1. CASE DeleteGraph
      BY <1>1, <2>1 DEF DeleteGraph, Referenced, Shape
    <2>2. CASE RevokeTake
      BY <1>1, <1>2, <2>2 DEF RevokeTake, Referenced, Shape
    <2> QED
      BY <2>1, <2>2
  <1>5. \A r \in RoomId : (Serving(r)' => Serving(r)) /\ (Live(r)' => Live(r)) /\ (Loading(r)' => Loading(r))
    BY <1>2, <1>4 DEF Serving, Live, Loading
  <1>6. LoaderInv' /\ LockInv'
    BY <1>2 DEF LoaderInv, LockInv
  <1>7. EvictInv'
    BY <1>2, <1>3 DEF EvictInv
  <1>8. SlotInv'
    BY <1>3, <1>5 DEF SlotInv
  <1>9. CloseInv'
    <2>1. CASE DeleteGraph
      <3>1. exists /\ ~exists' /\ revoke'.step = "take" /\ slot' = slot
        BY <2>1 DEF DeleteGraph
      <3>2. \A r \in RoomId : Live(r) \/ Loading(r) => Serving(r)
        BY DEF Live, Loading, Serving, Referenced, LoaderInv
      <3> QED
        BY <1>5, <3>1, <3>2 DEF SlotInv, CloseInv
    <2>2. CASE RevokeTake
      <3>1. exists' = exists /\ revoke.step = "take" /\ slot' = None
        BY <2>2 DEF RevokeTake, storeVars
      <3>2. slot # None => revoke'.step = "close" /\ revoke'.room = slot
        BY <2>2 DEF RevokeTake
      <3> QED
        BY <1>1, <1>5, <3>1, <3>2 DEF CloseInv, Shape
    <2> QED
      BY <2>1, <2>2
  <1> QED
    BY <1>6, <1>7, <1>8, <1>9

LEMMA RevokeCloseStep ==
    ASSUME Inv, RegInv, RevokeClose
    PROVE  RegInv'
  <1> DEFINE r == revoke.room
  <1>1. Shape /\ room \in [RoomId -> Room]
    BY Shaped DEF Inv, TypeOK
  <1> USE DEF RegInv, At, RoomOf
  <1>2. /\ handler' = handler /\ lock' = lock /\ slot' = slot /\ exists' = exists
        /\ revoke.step = "close" /\ ~Loading(r) /\ lock[r] = None
        /\ revoke'.step = "none" /\ revoke'.room = None
        /\ IF room[r].state = "empty" THEN room' = room ELSE room' = [room EXCEPT ![r] = DeadRoom]
    BY DEF RevokeClose, storeVars, memberVars
  <1>3. r \in RoomId /\ ~exists
    BY <1>1, <1>2 DEF Shape, CloseInv
  <1>4. /\ \A q \in RoomId \ {r} : room'[q] = room[q]
        /\ room'[r].state = IF room[r].state = "empty" THEN "empty" ELSE "invalid"
    BY <1>1, <1>2, <1>3 DEF DeadRoom
  <1>5. LoaderInv'
    BY <1>1, <1>2, <1>3, <1>4 DEF LoaderInv, Shape, Served, Step
  <1>6. LockInv'
    BY <1>1, <1>2, <1>3, <1>4 DEF LockInv, Locking, Shape
  <1>7. EvictInv'
    BY <1>1, <1>2, <1>3, <1>4 DEF EvictInv, Shape
  <1>8. \A q \in RoomId : (Serving(q)' => Serving(q)) /\ (Live(q)' => Live(q) /\ q # r) /\ (Loading(q)' => Loading(q) /\ q # r)
    <2>1. \A q \in RoomId : Referenced(q)' => Referenced(q)
      BY <1>1, <1>2, <1>3 DEF Referenced, Shape
    <2>2. \A q \in RoomId : Loading(q)' => Loading(q) /\ q # r
      BY <1>2 DEF Loading
    <2>3. ASSUME NEW q \in RoomId PROVE (Serving(q)' => Serving(q)) /\ (Live(q)' => Live(q) /\ q # r)
      <3>1. CASE q = r
        BY <1>4, <2>1, <3>1 DEF Serving, Live
      <3>2. CASE q # r
        BY <1>4, <2>1, <3>2 DEF Serving, Live
      <3> QED
        BY <3>1, <3>2
    <2> QED
      BY <2>2, <2>3
  <1>9. SlotInv'
    BY <1>2, <1>8 DEF SlotInv
  <1>10. CloseInv'
    BY <1>2, <1>3, <1>8 DEF CloseInv
  <1> QED
    BY <1>5, <1>6, <1>7, <1>9, <1>10

LEMMA CrashStep ==
    ASSUME Inv, RegInv, Crash
    PROVE  RegInv'
  <1>1. /\ \A r \in RoomId : room'[r] = DeadRoom
        /\ \A s \in Session : handler'[s] = Closed
        /\ slot' = None /\ exists' = exists /\ revoke'.step = "none" /\ revoke'.room = None
    BY DEF Crash, storeVars
  <1>2. Closed.step = "closed" /\ DeadRoom.state = "invalid"
    BY DEF Closed, DeadRoom
  <1>3. \A r \in RoomId : ~Serving(r)' /\ ~Live(r)' /\ ~Loading(r)'
    BY <1>1, <1>2 DEF Serving, Live, Loading, At
  <1> QED
    BY <1>1, <1>2, <1>3 DEF RegInv, LoaderInv, LockInv, EvictInv, SlotInv, CloseInv, At, Served, Step, Locking

LEMMA RegInit == Init => RegInv
  <1> SUFFICES ASSUME Init PROVE RegInv
    OBVIOUS
  <1>1. /\ \A r \in RoomId : room[r] = DeadRoom
        /\ \A s \in Session : handler[s] = Closed
        /\ exists /\ revoke.step = "none" /\ revoke.room = None
    BY DEF Init
  <1>2. Closed.step = "closed" /\ DeadRoom.state = "invalid"
    BY DEF Closed, DeadRoom
  <1>3. \A r \in RoomId : ~Serving(r) /\ ~Live(r) /\ ~Loading(r)
    BY <1>1, <1>2 DEF Serving, Live, Loading, At
  <1> QED
    BY <1>1, <1>2, <1>3 DEF RegInv, LoaderInv, LockInv, EvictInv, SlotInv, CloseInv, At, Served, Step, Locking

LEMMA RegStep ==
    ASSUME ~Recreate, Inv, RegInv, [Next]_vars
    PROVE  RegInv'
  <1>1. ASSUME NEW s \in Session, SessionStep(s) PROVE RegInv'
    BY <1>1, OpenStep, LoadCheckpointStep, LoadTailStep, EvictStep, SubmissionStep, ReplyStep, EndStep, DiscardStep
       DEF SessionStep
  <1>2. CASE LateCommitLands
    BY <1>2, ViewKept DEF LateCommitLands, registryView, registryVars
  <1>3. ASSUME NEW a \in Account, NEW role \in {"editor", "viewer"}, GrantMembership(a, role) \/ RevokeMembership(a)
        PROVE  RegInv'
    BY <1>3, ViewKept DEF GrantMembership, RevokeMembership, registryView, registryVars, storeVars
  <1>4. CASE CreateGraph
    BY <1>4 DEF CreateGraph
  <1>5. CASE UNCHANGED vars
    BY <1>5, ViewKept DEF vars, registryView
  <1> QED
    BY <1>1, <1>2, <1>3, <1>4, <1>5, DeletionStep, RevokeCloseStep, CrashStep DEF Next

\* The registry's invariant holds of every server whose graph ids are not used again.
THEOREM RegistryInvariant == ~Recreate /\ Spec => [](Inv /\ RegInv)
  <1> SUFFICES ASSUME ~Recreate PROVE Spec => [](Inv /\ RegInv)
    OBVIOUS
  <1>1. Init => Inv /\ RegInv
    BY InitInv, RegInit
  <1>2. Inv /\ RegInv /\ [Next]_vars => (Inv /\ RegInv)'
    BY InvStep, RegStep
  <1> QED
    BY <1>1, <1>2, PTL DEF Spec

\* Reconstruction is single-flight: however evictions, failed loads, reconnections,
\* deletion and crashes interleave, for any number of sessions, no two rooms serve
\* the graph at once (room.rs evict, open_with_base_status).
THEOREM SingleLiveCorrect == ~Recreate /\ Spec => []SingleLiveRoom
  <1>1. RegInv => SingleLiveRoom
    BY DEF RegInv, SlotInv, SingleLiveRoom, Live, Serving
  <1> QED
    BY <1>1, RegistryInvariant, PTL

\* Deletion joins a reconstruction in progress: once revoke_graph is through, no room
\* serves the deleted graph, whatever sessions were opening, loading or evicting.
THEOREM DeletedClosedCorrect == ~Recreate /\ Spec => []DeletedRoomIsClosed
  <1>1. RegInv => DeletedRoomIsClosed
    BY DEF RegInv, CloseInv, DeletedRoomIsClosed
  <1> QED
    BY <1>1, RegistryInvariant, PTL
-----------------------------------------------------------------------------
(***************************************************************************)
(* What the server answers is durable: for any updates, sessions, rooms    *)
(* and limits, where an error report means that no commit is still to      *)
(* land and a deleted graph's id is not created again.                     *)
(***************************************************************************)

\* The durable document, the cursor it ends at and the rows after its checkpoint.
Log == Durable(base)
Top == LatestCursor(base, RowsAfter(base.cursor))
Pending == Cardinality(RowsAfter(base.cursor))

\* The graph's tables: rows and receipts are in the document, and either checkpoint
\* reconstructs it.
Tables ==
    /\ prior.cursor <= base.cursor /\ base.cursor <= lastCursor
    /\ Messages(tail \cup receipts) \subseteq Log
    /\ Durable(prior) = Log
    /\ \A b \in {base, prior} : Replays(b.doc, RowsAfter(b.cursor)) /\ b.doc \cap Malformed = {}

\* Between handlers a live room holds the durable document; a handler that has
\* admitted an update holds that update besides.
RoomHolds(r) ==
    /\ room[r].cursor = Top
    /\ room[r].tailUpdates >= Pending
    /\ Log \subseteq room[r].doc
    /\ lock[r] = None => room[r].doc \subseteq Log
HandlerHolds(s) ==
    /\ At(s, "loading") => room[RoomOf(s)].doc = base.doc /\ room[RoomOf(s)].cursor = base.cursor
    /\ handler[s].step \in {"admitted", "rejected"} =>
          room[RoomOf(s)].doc \subseteq Log \cup {handler[s].msg}
    /\ At(s, "admitted") => Admissible(handler[s].msg, Log) /\ handler[s].msg \in room[RoomOf(s)].doc
    /\ handler[s].step \in {"inserted", "duplicate", "compacting"} =>
          room[RoomOf(s)].doc \subseteq Log
    /\ handler[s].step \in {"inserted", "duplicate"} => handler[s].msg \in Log
RoomDocs == exists => \A r \in RoomId : Live(r) => RoomHolds(r)
HandlerDocs == exists => \A s \in Session : HandlerHolds(s)

\* Only sessions that got their Welcome from a room that serves are in it.
Seated ==
    /\ \A r \in RoomId : room[r].state # "valid" => room[r].sessions = {}
    /\ \A r \in RoomId : \A s \in room[r].sessions : RoomOf(s) = r /\ handler[s].step \in Served

\* What clients have learned is durable, and a session in its room lacks only what
\* is about to be broadcast or was lost with its author's full queue.
Learnt == exists => acked \subseteq Log /\ \A s \in Session : Learned(s) \subseteq Log
Owed(r, u) == \E t \in Session : At(t, "inserted") /\ RoomOf(t) = r /\ handler[t].msg = u
Told ==
    exists => \A r \in RoomId : \A s \in room[r].sessions : \A u \in Log :
        u \in unbroadcast \cup Learned(s) \/ Owed(r, u)

ServeInv ==
    /\ late = None
    /\ Tables /\ RoomDocs /\ HandlerDocs /\ Seated /\ Learnt /\ Told
-----------------------------------------------------------------------------
(* The tables.                                                             *)

\* Rows and checkpoints, member by member.
LEMMA Recorded ==
    ASSUME Inv
    PROVE  /\ \A r \in tail \cup receipts : r.cursor \in Nat /\ r.cursor <= lastCursor /\ r.msg \in Update
           /\ base.cursor \in Nat /\ prior.cursor \in Nat /\ lastCursor \in Nat
           /\ base.doc \subseteq Update /\ prior.doc \subseteq Update
           /\ Log \subseteq Update /\ Pending \in Nat /\ Top \in Nat
  <1>1. \A r \in tail \cup receipts : r.cursor \in Nat /\ r.cursor <= lastCursor /\ r.msg \in Update
    BY DEF Inv, TypeOK, StoreInv, Row
  <1>2. /\ base.cursor \in Nat /\ prior.cursor \in Nat /\ lastCursor \in Nat
        /\ base.doc \subseteq Update /\ prior.doc \subseteq Update
    BY DEF Inv, TypeOK, Checkpoint
  <1>3. Pending \in Nat /\ Messages(RowsAfter(base.cursor)) \subseteq Update
    BY RowsType DEF Inv, Pending
  <1>4. Top \in Nat
    BY <1>2, LatestCursorType DEF Inv, Top
  <1> QED
    BY <1>1, <1>2, <1>3, <1>4 DEF Log, Durable

\* GraphLoad::latest_cursor is the newest cursor there is.
LEMMA TopIs ==
    ASSUME Inv, base.cursor <= lastCursor
    PROVE  /\ base.cursor <= Top /\ Top <= lastCursor
           /\ \A r \in tail : r.cursor <= Top
  <1> DEFINE rows == RowsAfter(base.cursor)
  <1>1. \A r \in tail : r.cursor \in Nat /\ r.cursor <= lastCursor
    BY Recorded
  <1>2. base.cursor \in Nat /\ lastCursor \in Nat
    BY Recorded
  <1>3. CASE rows = {}
    <2>1. Top = base.cursor
      BY <1>3 DEF Top, LatestCursor
    <2> QED
      BY <1>1, <1>2, <1>3, <2>1 DEF RowsAfter
  <1>4. CASE rows # {}
    <2>1. PICK m \in tail : \A q \in tail : q.cursor <= m.cursor
      BY <1>4 DEF RowsAfter, Inv, StoreInv
    <2>2. m \in rows
      BY <1>1, <1>2, <1>4, <2>1 DEF RowsAfter
    <2> DEFINE n == CHOOSE r \in rows : \A q \in rows : q.cursor <= r.cursor
    <2>3. n \in rows /\ \A q \in rows : q.cursor <= n.cursor
      <3>1. \E r \in rows : \A q \in rows : q.cursor <= r.cursor
        BY <2>1, <2>2 DEF RowsAfter
      <3> QED
        BY <3>1
    <2>4. Top = n.cursor
      BY <1>4 DEF Top, LatestCursor
    <2> HIDE DEF n
    <2>5. n \in tail /\ n.cursor > base.cursor
      BY <2>3 DEF RowsAfter
    <2> QED
      BY <1>1, <1>2, <2>1, <2>2, <2>3, <2>4, <2>5
  <1> QED
    BY <1>3, <1>4

\* What the room's document and its tables are compared by.
sameLog == /\ exists' = exists /\ base' = base /\ Log' = Log /\ Top' = Top /\ Pending' = Pending
           /\ late' = None

LEMMA TablesKept ==
    ASSUME ServeInv, UNCHANGED storeVars
    PROVE  sameLog /\ Tables'
  <1>1. UNCHANGED <<exists, base, prior, tail, receipts, lastCursor, late>>
    BY DEF storeVars
  <1>2. Log' = Log /\ Top' = Top /\ Pending' = Pending
    BY <1>1 DEF Log, Top, Pending, Durable, RowsAfter, LatestCursor, Messages
  <1>3. Tables'
    BY <1>1, <1>2 DEF ServeInv, Tables, Durable, RowsAfter, Messages, Replays
  <1> QED
    BY <1>1, <1>2, <1>3 DEF sameLog, ServeInv

\* commit_update's insert of an update that its room admitted.
Inserted(u) ==
    /\ lastCursor' = lastCursor + 1
    /\ tail' = tail \cup {[cursor |-> lastCursor + 1, msg |-> u]}
    /\ UNCHANGED <<base, prior, receipts>>

LEMMA TablesInsert ==
    ASSUME Inv, Tables, NEW u \in Update, Admissible(u, Log), Inserted(u)
    PROVE  /\ Tables' /\ Log' = Log \cup {u} /\ Top' = lastCursor + 1
           /\ Pending' \in Nat /\ Pending' <= Pending + 1
  <1> DEFINE row == [cursor |-> lastCursor + 1, msg |-> u]
  <1>1. /\ \A r \in tail \cup receipts : r.cursor \in Nat /\ r.cursor <= lastCursor /\ r.msg \in Update
        /\ base.cursor \in Nat /\ prior.cursor \in Nat /\ lastCursor \in Nat /\ Pending \in Nat
    BY Recorded
  <1>2. prior.cursor <= base.cursor /\ base.cursor <= lastCursor
    BY DEF Tables
  <1>3. row.cursor = lastCursor + 1 /\ row.msg = u
    OBVIOUS
  <1>4. /\ lastCursor' = lastCursor + 1 /\ tail' = tail \cup {row}
        /\ base' = base /\ prior' = prior /\ receipts' = receipts
    BY DEF Inserted
  <1> HIDE DEF row
  <1>5. ASSUME NEW c \in {base.cursor, prior.cursor}
        PROVE  {r \in tail' : r.cursor > c} = RowsAfter(c) \cup {row}
    <2>1. row.cursor > c
      BY <1>1, <1>2, <1>3
    <2> QED
      BY <1>4, <2>1 DEF RowsAfter
  <1>6. RowsAfter(base.cursor)' = RowsAfter(base.cursor) \cup {row}
    BY <1>4, <1>5 DEF RowsAfter
  <1>7. RowsAfter(prior.cursor)' = RowsAfter(prior.cursor) \cup {row}
    BY <1>4, <1>5 DEF RowsAfter
  <1>8. \A rows : Messages(rows \cup {row}) = Messages(rows) \cup {u}
    BY <1>3 DEF Messages
  <1>9. Log' = Log \cup {u} /\ Durable(prior)' = Durable(prior) \cup {u}
    BY <1>4, <1>6, <1>7, <1>8 DEF Log, Durable
  <1>10. Top' = lastCursor + 1
    <2> DEFINE rows == RowsAfter(base.cursor) \cup {row}
               n == CHOOSE r \in rows : \A q \in rows : q.cursor <= r.cursor
    <2>1. \A q \in rows : q.cursor \in Nat /\ q.cursor <= row.cursor
      BY <1>1, <1>3 DEF RowsAfter
    <2>2. row \in rows
      OBVIOUS
    <2>3. n \in rows /\ \A q \in rows : q.cursor <= n.cursor
      BY <2>1, <2>2
    <2>4. n.cursor = row.cursor
      BY <2>1, <2>2, <2>3
    <2>5. Top' = n.cursor
      BY <1>4, <1>6, <2>2 DEF Top, LatestCursor
    <2> QED
      BY <1>3, <2>4, <2>5
  <1>11. Pending' \in Nat /\ Pending' <= Pending + 1
    <2>1. IsFiniteSet(RowsAfter(base.cursor))
      BY RowsType DEF Inv
    <2>2. Cardinality(RowsAfter(base.cursor) \cup {row}) \in {Pending, Pending + 1}
      BY <1>1, <2>1, FS_AddElement DEF Pending
    <2> QED
      BY <1>1, <1>4, <1>6, <2>2 DEF Pending
  <1>12. ASSUME NEW b \in {base, prior}
         PROVE  Replays(b.doc, RowsAfter(b.cursor) \cup {row})
    <2> DEFINE old == RowsAfter(b.cursor)
    <2>1. /\ Replays(b.doc, old) /\ Log = b.doc \cup Messages(old)
      BY DEF Tables, Log, Durable
    <2>2. \A r \in old : r.cursor \in Nat /\ r.cursor < lastCursor + 1
      BY <1>1 DEF RowsAfter
    <2>3. ASSUME NEW r \in old PROVE {q \in old \cup {row} : q.cursor < r.cursor} = {q \in old : q.cursor < r.cursor}
      BY <1>1, <1>3, <2>2
    <2>4. {q \in old \cup {row} : q.cursor < row.cursor} = old
      BY <1>1, <1>3, <2>2
    <2>5. u \notin Malformed /\ Deps[u] \subseteq b.doc \cup Messages(old)
      BY <2>1 DEF Admissible
    <2> HIDE DEF old
    <2>6. ASSUME NEW r \in old
          PROVE  /\ r.msg \notin Malformed
                 /\ Deps[r.msg] \subseteq b.doc \cup Messages({q \in old \cup {row} : q.cursor < r.cursor})
      BY <2>1, <2>3 DEF Replays
    <2>7. /\ row.msg \notin Malformed
          /\ Deps[row.msg] \subseteq b.doc \cup Messages({q \in old \cup {row} : q.cursor < row.cursor})
      BY <1>3, <2>4, <2>5
    <2>8. Replays(b.doc, old \cup {row})
      BY <2>6, <2>7 DEF Replays
    <2> QED
      BY <2>8 DEF old
  <1>13. /\ Replays(base.doc, RowsAfter(base.cursor))' /\ base'.doc \cap Malformed = {}
         /\ Replays(prior.doc, RowsAfter(prior.cursor))' /\ prior'.doc \cap Malformed = {}
    <2>1. base.doc \cap Malformed = {} /\ prior.doc \cap Malformed = {}
      BY DEF Tables
    <2> QED
      BY <1>4, <1>6, <1>7, <1>12, <2>1 DEF Replays, Messages
  <1>14. Messages(tail \cup receipts)' = Messages(tail \cup receipts) \cup {u}
    BY <1>3, <1>4 DEF Messages
  <1>15. prior'.cursor <= base'.cursor /\ base'.cursor <= lastCursor'
    BY <1>1, <1>2, <1>4
  <1>16. Messages(tail \cup receipts)' \subseteq Log' /\ Durable(prior)' = Log'
    BY <1>9, <1>14 DEF Tables
  <1> QED
    BY <1>9, <1>10, <1>11, <1>13, <1>15, <1>16 DEF Tables

\* compact_checkpoint with the document of a room at the newest cursor.
LEMMA TablesInstall ==
    ASSUME Inv, Tables, InstallCheckpoint(Top, Log), lastCursor' = lastCursor
    PROVE  Tables' /\ Log' = Log /\ Top' = Top /\ Pending' = 0
  <1>1. /\ \A r \in tail \cup receipts : r.cursor \in Nat /\ r.cursor <= lastCursor /\ r.msg \in Update
        /\ base.cursor \in Nat /\ prior.cursor \in Nat /\ lastCursor \in Nat /\ Top \in Nat
    BY Recorded
  <1>2. base.cursor <= Top /\ Top <= lastCursor /\ \A r \in tail : r.cursor <= Top
    BY TopIs DEF Tables
  <1>3. /\ tail' = RowsAfter(base.cursor) /\ prior' = base /\ base' = [cursor |-> Top, doc |-> Log]
        /\ receipts' \subseteq receipts \cup tail
    BY DEF InstallCheckpoint, ReceiptsAfter, NewestReceipts
  <1>4. base'.cursor = Top /\ base'.doc = Log /\ prior'.cursor = base.cursor /\ prior'.doc = base.doc
    BY <1>3
  <1>5. {r \in tail' : r.cursor > Top} = {}
    BY <1>1, <1>2, <1>3 DEF RowsAfter
  <1>6. {r \in tail' : r.cursor > base.cursor} = RowsAfter(base.cursor)
    BY <1>3 DEF RowsAfter
  <1>7. RowsAfter(base.cursor)' = {} /\ RowsAfter(prior.cursor)' = RowsAfter(base.cursor)
    BY <1>4, <1>5, <1>6 DEF RowsAfter
  <1>8. Log' = Log
    BY <1>4, <1>7 DEF Log, Durable, Messages
  <1>9. Top' = Top
    BY <1>4, <1>7 DEF Top, LatestCursor
  <1>10. Pending' = 0
    BY <1>7, FS_EmptySet DEF Pending
  <1>11. Durable(prior)' = Log
    BY <1>4, <1>7 DEF Log, Durable, Messages
  <1>12. Messages(tail \cup receipts)' \subseteq Messages(tail \cup receipts)
    BY <1>3 DEF Messages, RowsAfter
  <1>13. Log \cap Malformed = {}
    BY DEF Tables, Log, Durable, Replays, Messages
  <1>14. Replays(base.doc, RowsAfter(base.cursor))' /\ base'.doc \cap Malformed = {}
    BY <1>4, <1>7, <1>13 DEF Replays
  <1>15. Replays(prior.doc, RowsAfter(prior.cursor))' /\ prior'.doc \cap Malformed = {}
    <2>1. Replays(base.doc, RowsAfter(base.cursor)) /\ base.doc \cap Malformed = {}
      BY DEF Tables
    <2> QED
      BY <1>4, <1>7, <2>1 DEF Replays, Messages
  <1> QED
    BY <1>1, <1>2, <1>4, <1>8, <1>9, <1>10, <1>11, <1>12, <1>14, <1>15 DEF Tables
-----------------------------------------------------------------------------
(* What a session has learned.                                             *)

Msgs(q) == {q[i].msg : i \in DOMAIN q}

LEMMA AppendMsgs ==
    ASSUME NEW q \in Seq(Message), NEW m \in Message
    PROVE  Msgs(Append(q, m)) = Msgs(q) \cup {m.msg}
  <1>1. /\ DOMAIN Append(q, m) = 1..(Len(q) + 1) /\ DOMAIN q = 1..Len(q) /\ Len(q) \in Nat
        /\ \A i \in 1..Len(q) : Append(q, m)[i] = q[i]
        /\ Append(q, m)[Len(q) + 1] = m
    OBVIOUS
  <1>2. \A i : i \in 1..(Len(q) + 1) <=> i \in 1..Len(q) \/ i = Len(q) + 1
    BY <1>1
  <1>3. ASSUME NEW x \in Msgs(Append(q, m)) PROVE x \in Msgs(q) \cup {m.msg}
    BY <1>1, <1>2 DEF Msgs
  <1>4. ASSUME NEW x \in Msgs(q) PROVE x \in Msgs(Append(q, m))
    <2>1. PICK i \in 1..Len(q) : x = q[i].msg
      BY <1>1 DEF Msgs
    <2>2. i \in DOMAIN Append(q, m) /\ Append(q, m)[i].msg = x
      BY <1>1, <1>2, <2>1
    <2> QED
      BY <2>2 DEF Msgs
  <1>5. m.msg \in Msgs(Append(q, m))
    <2>1. Len(q) + 1 \in DOMAIN Append(q, m) /\ Append(q, m)[Len(q) + 1].msg = m.msg
      BY <1>1, <1>2
    <2> QED
      BY <2>1 DEF Msgs
  <1> QED
    BY <1>3, <1>4, <1>5

LEMMA TailMsgs ==
    ASSUME NEW q \in Seq(Message), q # <<>>
    PROVE  Msgs(q) = {Head(q).msg} \cup Msgs(Tail(q)) /\ Head(q) \in Message
  <1>1. /\ DOMAIN Tail(q) = 1..(Len(q) - 1) /\ DOMAIN q = 1..Len(q) /\ Len(q) \in Nat \ {0}
        /\ \A i \in 1..(Len(q) - 1) : Tail(q)[i] = q[i + 1]
        /\ Head(q) = q[1] /\ 1 \in DOMAIN q /\ q[1] \in Message
    OBVIOUS
  <1>2. ASSUME NEW x \in Msgs(q) PROVE x \in {Head(q).msg} \cup Msgs(Tail(q))
    <2>1. PICK i \in 1..Len(q) : x = q[i].msg
      BY <1>1 DEF Msgs
    <2>2. CASE i = 1
      BY <1>1, <2>1, <2>2
    <2>3. CASE i # 1
      <3>1. i - 1 \in 1..(Len(q) - 1) /\ (i - 1) + 1 = i
        BY <1>1, <2>3
      <3>2. Tail(q)[i - 1].msg = x
        BY <1>1, <2>1, <3>1
      <3> QED
        BY <1>1, <3>1, <3>2 DEF Msgs
    <2> QED
      BY <2>2, <2>3
  <1>3. ASSUME NEW x \in Msgs(Tail(q)) PROVE x \in Msgs(q)
    <2>1. PICK i \in 1..(Len(q) - 1) : x = Tail(q)[i].msg
      BY <1>1 DEF Msgs
    <2>2. i + 1 \in DOMAIN q /\ q[i + 1].msg = x
      BY <1>1, <2>1
    <2> QED
      BY <2>2 DEF Msgs
  <1>4. Head(q).msg \in Msgs(q)
    BY <1>1 DEF Msgs
  <1> QED
    BY <1>1, <1>2, <1>3, <1>4

LEMMA LearnedIs == \A s \in Session : Learned(s) = view[s] \cup (Msgs(outbound[s]) \ {None})
  BY DEF Learned, Queued, Msgs

\* try_send adds the message to what its receivers have learned, and nothing to others.
LEMMA QueueLearned ==
    ASSUME Inv, NEW ss, NEW m \in Message, Queue(ss, m), view' = view
    PROVE  \A t \in Session :
               Learned(t)' = Learned(t) \cup (IF t \in ss /\ ~Full(t) THEN {m.msg} \ {None} ELSE {})
  <1> SUFFICES ASSUME NEW t \in Session
               PROVE  Learned(t)' = Learned(t) \cup (IF t \in ss /\ ~Full(t) THEN {m.msg} \ {None} ELSE {})
    OBVIOUS
  <1>1. outbound[t] \in Seq(Message)
    BY DEF Inv, TypeOK
  <1>2. outbound'[t] = IF t \in ss /\ ~Full(t) THEN Append(outbound[t], m) ELSE outbound[t]
    BY DEF Queue
  <1>3. Learned(t)' = view[t] \cup (Msgs(outbound'[t]) \ {None})
    BY LearnedIs DEF Learned, Queued, Msgs
  <1>4. Msgs(Append(outbound[t], m)) = Msgs(outbound[t]) \cup {m.msg}
    BY <1>1, AppendMsgs
  <1> HIDE DEF Msgs
  <1>5. CASE t \in ss /\ ~Full(t)
    BY <1>2, <1>3, <1>4, <1>5, LearnedIs
  <1>6. CASE ~(t \in ss /\ ~Full(t))
    BY <1>2, <1>3, <1>6, LearnedIs
  <1> QED
    BY <1>5, <1>6

\* Members of the types used below.
LEMMA Kinds ==
    ASSUME Inv
    PROVE  /\ handler \in [Session -> Handler] /\ room \in [RoomId -> Room]
           /\ lock \in [RoomId -> Session \cup {None}]
           /\ \A s \in Session : outbound[s] \in Seq(Message)
           /\ view \in [Session -> SUBSET Update]
           /\ \A r \in RoomId : room[r].sessions \subseteq Session /\ room[r].tailUpdates \in Nat
                                /\ room[r].doc \subseteq Update
  BY DEF Inv, TypeOK, Room

\* Nothing serves but the room of session s, and nobody else holds a lock or loads.
Sole(s) ==
    /\ \A r \in RoomId : Live(r) => r = RoomOf(s)
    /\ \A t \in Session : handler[t].step \in Locking \cup {"loading"} => t = s

LEMMA Alone ==
    ASSUME Inv, RegInv, NEW s \in Session, ~At(s, "closed"),
           \/ room[RoomOf(s)].state = "valid" /\ lock[RoomOf(s)] \in {None, s}
           \/ room[RoomOf(s)].state = "empty" /\ (At(s, "loading") \/ ~Loading(RoomOf(s)))
    PROVE  Sole(s) /\ RoomOf(s) \in RoomId /\ Referenced(RoomOf(s))
  <1>1. Shape
    BY Shaped
  <1>2. RoomOf(s) \in RoomId
    BY <1>1 DEF Shape, RoomOf, At
  <1>3. Serving(RoomOf(s)) /\ Referenced(RoomOf(s))
    BY DEF Serving, Referenced, RoomOf
  <1>4. \A r \in RoomId : Serving(r) => r = RoomOf(s)
    BY <1>2, <1>3 DEF RegInv, SlotInv
  <1>5. \A r \in RoomId : Live(r) => r = RoomOf(s)
    BY <1>4 DEF Serving, Live
  <1>6. ASSUME NEW t \in Session, handler[t].step \in Locking \cup {"loading"} PROVE t = s
    <2>1. RoomOf(t) \in RoomId
      BY <1>1, <1>6 DEF Shape, RoomOf, Locking
    <2>2. CASE handler[t].step = "loading"
      <3>1. room[RoomOf(t)].state = "empty"
        BY <2>2 DEF RegInv, LoaderInv, At
      <3>2. Serving(RoomOf(t))
        BY <3>1 DEF Serving, Referenced, RoomOf
      <3>3. RoomOf(t) = RoomOf(s) /\ Loading(RoomOf(s))
        BY <1>4, <2>1, <2>2, <3>2 DEF Loading, At
      <3> QED
        BY <2>2, <3>1, <3>3 DEF RegInv, LoaderInv, At
    <2>3. CASE handler[t].step \in Locking
      <3>1. room[RoomOf(t)].state = "valid" /\ lock[RoomOf(t)] = t
        BY <2>3 DEF RegInv, LockInv
      <3>2. Serving(RoomOf(t))
        BY <3>1 DEF Serving, Referenced, RoomOf
      <3>3. RoomOf(t) = RoomOf(s) /\ t # None
        BY <1>1, <1>4, <2>1, <3>2 DEF Shape
      <3> QED
        BY <3>1, <3>3
    <2> QED
      BY <1>6, <2>2, <2>3
  <1> QED
    BY <1>2, <1>3, <1>5, <1>6 DEF Sole

\* A handler between admission and its reply.
LEMMA Locked ==
    ASSUME Inv, RegInv, NEW s \in Session, handler[s].step \in Locking
    PROVE  /\ Sole(s) /\ RoomOf(s) \in RoomId /\ Live(RoomOf(s))
           /\ room[RoomOf(s)].state = "valid" /\ lock[RoomOf(s)] = s
  <1>1. room[RoomOf(s)].state = "valid" /\ lock[RoomOf(s)] = s
    BY DEF RegInv, LockInv
  <1> QED
    BY <1>1, Alone DEF Locking, At, Live
-----------------------------------------------------------------------------
(* Steps that leave the tables alone.                                      *)

\* Only the handler of session s moves.
Only(s) == \A t \in Session : t # s => handler'[t] = handler[t]
SameDocs ==
    \A r \in RoomId : /\ room'[r].doc = room[r].doc /\ room'[r].cursor = room[r].cursor
                      /\ room'[r].tailUpdates = room[r].tailUpdates
                      /\ room'[r].state = room[r].state
NoNewReference == \A r \in RoomId : Referenced(r)' => Referenced(r)

\* A handler that gives the lock back, or moves without it, leaves the durable
\* document in its room.
LEMMA QuietDocs ==
    ASSUME Inv, ServeInv, NEW s \in Session, sameLog, Only(s), SameDocs, NoNewReference,
           ~At(s, "closed"), handler'[s].step \notin {"loading", "admitted", "rejected"},
           exists /\ handler'[s].step \in {"inserted", "duplicate", "compacting"} =>
               handler'[s].room = handler[s].room /\ room[RoomOf(s)].doc \subseteq Log,
           exists /\ handler'[s].step \in {"inserted", "duplicate"} => handler'[s].msg \in Log,
           \A r \in RoomId : exists /\ Live(r) /\ lock'[r] = None => lock[r] = None \/ room[r].doc \subseteq Log
    PROVE  RoomDocs' /\ HandlerDocs'
  <1>1. Shape
    BY Shaped
  <1>2. RoomDocs'
    <2> SUFFICES ASSUME exists, NEW r \in RoomId, Live(r)'
                 PROVE  /\ room'[r].cursor = Top' /\ room'[r].tailUpdates >= Pending'
                        /\ Log' \subseteq room'[r].doc
                        /\ lock'[r] = None => room'[r].doc \subseteq Log'
      BY DEF RoomDocs, RoomHolds, sameLog
    <2>1. Live(r)
      BY DEF Live, SameDocs, NoNewReference
    <2>2. /\ room[r].cursor = Top /\ room[r].tailUpdates >= Pending /\ Log \subseteq room[r].doc
          /\ lock[r] = None => room[r].doc \subseteq Log
      BY <2>1 DEF ServeInv, RoomDocs, RoomHolds
    <2> QED
      BY <2>1, <2>2 DEF SameDocs, sameLog
  <1>3. HandlerDocs'
    <2> SUFFICES ASSUME exists, NEW t \in Session
                 PROVE  /\ At(t, "loading")' => room'[handler'[t].room].doc = base.doc /\ room'[handler'[t].room].cursor = base.cursor
                        /\ handler'[t].step \in {"admitted", "rejected"} => room'[handler'[t].room].doc \subseteq Log \cup {handler'[t].msg}
                        /\ At(t, "admitted")' => Admissible(handler'[t].msg, Log) /\ handler'[t].msg \in room'[handler'[t].room].doc
                        /\ handler'[t].step \in {"inserted", "duplicate", "compacting"} => room'[handler'[t].room].doc \subseteq Log
                        /\ handler'[t].step \in {"inserted", "duplicate"} => handler'[t].msg \in Log
      BY DEF HandlerDocs, HandlerHolds, sameLog, Admissible, RoomOf
    <2>1. CASE t = s
      <3>1. handler[s].room \in RoomId
        BY <1>1 DEF Shape, At
      <3>2. room'[handler[s].room].doc = room[handler[s].room].doc
        BY <3>1 DEF SameDocs
      <3> QED
        BY <2>1, <3>2 DEF At, RoomOf
    <2>2. CASE t # s
      <3>1. handler'[t] = handler[t]
        BY <2>2 DEF Only
      <3>2. CASE handler[t].step \in Locking \cup {"loading"}
        <4>1. handler[t].room \in RoomId
          BY <1>1, <3>2 DEF Shape, Locking
        <4>2. room'[handler[t].room].doc = room[handler[t].room].doc
              /\ room'[handler[t].room].cursor = room[handler[t].room].cursor
          BY <4>1 DEF SameDocs
        <4> QED
          BY <3>1, <4>2 DEF ServeInv, HandlerDocs, HandlerHolds, At, RoomOf
      <3>3. CASE handler[t].step \notin Locking \cup {"loading"}
        BY <3>1, <3>3 DEF At, Locking
      <3> QED
        BY <3>2, <3>3
    <2> QED
      BY <2>1, <2>2
  <1> QED
    BY <1>2, <1>3

\* What a step does to rooms and handlers when only the room of s serves.
LEMMA SoleDocs ==
    ASSUME Inv, NEW s \in Session, Sole(s), NEW r, r = RoomOf(s), exists' = exists, Only(s), NoNewReference,
           \A q \in RoomId : q # r /\ room'[q].state = "valid" => room[q].state = "valid",
           exists /\ Live(r)' => RoomHolds(r)',
           exists => HandlerHolds(s)'
    PROVE  RoomDocs' /\ HandlerDocs'
  <1>1. ASSUME exists, NEW q \in RoomId, Live(q)' PROVE RoomHolds(q)'
    <2>1. q # r => Live(q)
      BY <1>1 DEF Live, NoNewReference
    <2>2. q = r
      BY <2>1 DEF Sole
    <2> QED
      BY <1>1, <2>2
  <1>2. ASSUME exists, NEW t \in Session, t # s PROVE HandlerHolds(t)'
    <2>1. handler'[t] = handler[t] /\ handler[t].step \notin Locking \cup {"loading"}
      BY <1>2 DEF Only, Sole
    <2> QED
      BY <2>1 DEF HandlerHolds, Locking, At
  <1>3. RoomDocs'
    BY <1>1 DEF RoomDocs
  <1>4. HandlerDocs'
    BY <1>2 DEF HandlerDocs
  <1> QED
    BY <1>3, <1>4

\* What a step does to the sessions: who sits in a room, what is learned of.
LEMMA SessionsStep ==
    ASSUME Inv, ServeInv, NEW s \in Session, exists' = exists, Only(s),
           \A r \in RoomId : room'[r].sessions \subseteq room[r].sessions \cup {s},
           \A r \in RoomId : room'[r].state # "valid" => room'[r].sessions = {},
           \A r \in RoomId : s \in room'[r].sessions => handler'[s].room = r /\ handler'[s].step \in Served,
           exists => Log \subseteq Log' /\ acked' \subseteq acked \cup Log',
           exists => \A t \in Session : Learned(t)' \subseteq Learned(t) \cup Log'
    PROVE  Seated' /\ Learnt'
  <1>1. Seated'
    <2> SUFFICES ASSUME NEW r \in RoomId, NEW t \in room'[r].sessions
                 PROVE  handler'[t].room = r /\ handler'[t].step \in Served
      BY DEF Seated, RoomOf
    <2>1. t \in room[r].sessions \cup {s} /\ t \in Session
      BY Kinds
    <2>2. t # s => handler[t].room = r /\ handler[t].step \in Served
      BY <2>1 DEF ServeInv, Seated, RoomOf
    <2> QED
      BY <2>1, <2>2 DEF Only
  <1>2. Learnt'
    BY DEF ServeInv, Learnt
  <1> QED
    BY <1>1, <1>2

\* A step after which nobody lacks an update that was not to be lacked before.
LEMMA ToldStep ==
    ASSUME Inv, ServeInv, NEW s \in Session, exists' = exists, Only(s), Log' = Log,
           handler[s].step # "inserted",
           \A r \in RoomId : room'[r].sessions \subseteq room[r].sessions,
           unbroadcast \subseteq unbroadcast',
           \A r \in RoomId : \A t \in room'[r].sessions : Learned(t) \subseteq Learned(t)'
    PROVE  Told'
  <1>1. \A r \in RoomId, u \in Log : Owed(r, u) => Owed(r, u)'
    BY DEF Owed, Only, At, RoomOf
  <1> QED
    BY <1>1 DEF ServeInv, Told

\* Sessions leave rooms at most, and nobody learns anything.
LEMMA SilentSessions ==
    ASSUME Inv, ServeInv, NEW s \in Session, exists' = exists, Log' = Log, Only(s),
           handler[s].step # "inserted",
           \A r \in RoomId : room'[r].sessions \subseteq room[r].sessions,
           \A r \in RoomId : room'[r].state # "valid" => room'[r].sessions = {},
           \A r \in RoomId : s \in room'[r].sessions => handler'[s].room = r /\ handler'[s].step \in Served,
           UNCHANGED <<outbound, clientVars>>
    PROVE  Seated' /\ Learnt' /\ Told'
  <1>1. UNCHANGED <<outbound, acked, view, unbroadcast>>
    BY DEF clientVars
  <1>2. \A t \in Session : Learned(t)' = Learned(t)
    BY <1>1 DEF Learned, Queued
  <1>3. \A r \in RoomId : room'[r].sessions \subseteq Session
    BY Kinds
  <1>4. Seated' /\ Learnt'
    BY <1>1, <1>2, SessionsStep
  <1>5. Told'
    BY <1>1, <1>2, <1>3, ToldStep
  <1> QED
    BY <1>4, <1>5

\* A step of a session with both.
LEMMA QuietStep ==
    ASSUME Inv, ServeInv, NEW s \in Session, UNCHANGED storeVars, Only(s), SameDocs, NoNewReference,
           ~At(s, "closed"), handler'[s].step \notin {"loading", "admitted", "rejected"},
           exists /\ handler'[s].step \in {"inserted", "duplicate", "compacting"} =>
               handler'[s].room = handler[s].room /\ room[RoomOf(s)].doc \subseteq Log,
           exists /\ handler'[s].step \in {"inserted", "duplicate"} => handler'[s].msg \in Log,
           \A r \in RoomId : exists /\ Live(r) /\ lock'[r] = None => lock[r] = None \/ room[r].doc \subseteq Log,
           handler[s].step # "inserted",
           \A r \in RoomId : room'[r].sessions \subseteq room[r].sessions,
           \A r \in RoomId : s \in room'[r].sessions => handler'[s].room = r /\ handler'[s].step \in Served,
           UNCHANGED <<outbound, clientVars>>
    PROVE  ServeInv'
  <1>1. sameLog /\ Tables'
    BY TablesKept
  <1>2. RoomDocs' /\ HandlerDocs'
    BY <1>1, QuietDocs
  <1>3. \A r \in RoomId : room'[r].state # "valid" => room'[r].sessions = {}
    BY DEF ServeInv, Seated, SameDocs
  <1>4. Seated' /\ Learnt' /\ Told'
    BY <1>1, <1>3, SilentSessions DEF sameLog
  <1> QED
    BY <1>1, <1>2, <1>4 DEF ServeInv, sameLog
-----------------------------------------------------------------------------
(* Opening.                                                                *)

LEMMA MovesOnly ==
    ASSUME NEW s \in Session, NEW st, Moves(s, st)
    PROVE  Only(s) /\ handler'[s].step = st /\ handler'[s].room = handler[s].room
  BY DEF Moves, Only

LEMMA SubmitSteps ==
    ASSUME Inv, RegInv, ServeInv, NEW s \in Session,
           \/ (\E u \in Update : SubmitUpdate(s, u)) \/ SubmitRefused(s)
           \/ WelcomeRefused(s) \/ RecheckMembership(s) \/ Evict(s)
    PROVE  ServeInv'
  <1>1. Shape
    BY Shaped
  <1> USE Kinds
  <1>2. CASE (\E u \in Update : SubmitUpdate(s, u)) \/ SubmitRefused(s)
    <2>1. /\ Only(s) /\ handler'[s].room = handler[s].room
          /\ handler'[s].step \in {"authorized", "leaving", "idle"} /\ handler[s].step \in {"idle", "authorized"}
      <3>1. PICK u \in Update :
              /\ handler[s].step \in {"idle", "authorized"}
              /\ \/ handler' = [handler EXCEPT ![s].step = "authorized", ![s].msg = u]
                 \/ handler' = [handler EXCEPT ![s].step = "idle", ![s].msg = None]
                 \/ handler' = [handler EXCEPT ![s].step = "leaving"]
        <4>1. CASE \E u \in Update : SubmitUpdate(s, u)
          BY <4>1 DEF SubmitUpdate, Goto, At
        <4>2. CASE SubmitRefused(s)
          <5>1. handler[s].step = "authorized" /\ handler[s] \in Handler
            BY <4>2 DEF SubmitRefused, At
          <5>2. handler[s].msg \in Update
            BY <5>1 DEF Handler, Closed, Submitting
          <5> QED
            BY <4>2, <5>1, <5>2 DEF SubmitRefused, Goto, At
        <4> QED
          BY <1>2, <4>1, <4>2
      <3>2. Moves(s, "authorized") \/ Moves(s, "idle") \/ Moves(s, "leaving")
        BY <3>1, Moving DEF At
      <3> QED
        BY <3>1, <3>2, MovesOnly
    <2>2. UNCHANGED <<storeVars, room, lock, slot, revoke, outbound, clientVars>>
      BY <1>2 DEF SubmitUpdate, SubmitRefused, registryVars
    <2>3. NoNewReference
      BY <2>1, <2>2 DEF NoNewReference, Referenced, Only
    <2> QED
      BY <2>1, <2>2, <2>3, QuietStep DEF At, SameDocs, ServeInv, Seated, RoomOf, Served, Step
  <1>3. CASE WelcomeRefused(s)
    <2>1. Closes(s) /\ handler[s].step = "opening"
      BY <1>3, Closing DEF WelcomeRefused, At
    <2>2. UNCHANGED <<storeVars, room, lock, slot, revoke, outbound, clientVars>>
      BY <1>3 DEF WelcomeRefused, registryVars
    <2>3. Only(s) /\ handler'[s].step = "closed" /\ handler'[s].room = None
      BY <2>1 DEF Closes, Only, Closed
    <2>4. NoNewReference
      BY <1>1, <2>2, <2>3 DEF NoNewReference, Referenced, Only, Shape
    <2>5. \A r \in RoomId : s \notin room[r].sessions
      BY <2>1 DEF ServeInv, Seated, Served
    <2> QED
      BY <2>1, <2>2, <2>3, <2>4, <2>5, QuietStep DEF At, SameDocs
  <1>4. CASE RecheckMembership(s)
    <2>1. Only(s) /\ handler'[s].room = handler[s].room /\ handler'[s].step = "leaving" /\ handler[s].step = "idle"
      BY <1>4, Moving, MovesOnly DEF RecheckMembership, Goto, At
    <2>2. UNCHANGED <<storeVars, lock, slot, revoke, outbound, clientVars>>
      BY <1>4 DEF RecheckMembership, registryVars
    <2>3. SameDocs /\ \A r \in RoomId : room'[r].sessions \subseteq room[r].sessions
      BY <1>4 DEF RecheckMembership, SameDocs, Room
    <2>4. NoNewReference
      BY <2>1, <2>2 DEF NoNewReference, Referenced, Only
    <2> QED
      BY <2>1, <2>2, <2>3, <2>4, QuietStep DEF At, ServeInv, Seated, RoomOf, Served, Step
  <1>5. CASE Evict(s)
    <2>1. Only(s) /\ handler'[s].room = handler[s].room /\ handler'[s].step \in {"leaving", "idle"} /\ handler[s].step = "evicting"
      <3>1. Moves(s, "leaving") \/ Moves(s, "idle")
        BY <1>5, Moving DEF Evict, Goto, At
      <3> QED
        BY <1>5, <3>1, MovesOnly DEF Evict, At
    <2>2. UNCHANGED <<storeVars, room, lock, revoke, outbound, clientVars>> /\ slot' = None
      BY <1>5 DEF Evict
    <2>3. NoNewReference
      BY <1>1, <2>1, <2>2 DEF NoNewReference, Referenced, Only, Shape
    <2> QED
      BY <2>1, <2>2, <2>3, QuietStep DEF At, SameDocs, ServeInv, Seated, RoomOf, Served, Step
  <1> QED
    BY <1>2, <1>3, <1>4, <1>5

\* A session asks for the room; a new one is not yet loaded.
LEMMA OpenSteps ==
    ASSUME Inv, RegInv, ServeInv, NEW s \in Session, OpenSession(s)
    PROVE  ServeInv'
  <1>1. Shape
    BY Shaped
  <1>2. /\ At(s, "closed") /\ UNCHANGED <<storeVars, lock, revoke, acked, view, unbroadcast>>
        /\ outbound' = [outbound EXCEPT ![s] = <<>>]
    BY DEF OpenSession, clientVars
  <1>3. PICK r \in RoomId :
          /\ handler' = [handler EXCEPT ![s] = Opening(r)] /\ slot' = r
          /\ \/ slot = r /\ room' = room
             \/ slot = None /\ ~Referenced(r) /\ room' = [room EXCEPT ![r] = NewRoom]
    BY <1>1 DEF OpenSession, Shape
  <1>4. /\ Only(s) /\ handler'[s].step = "opening" /\ handler'[s].room = r
    BY <1>3, Kinds DEF Only, Opening
  <1>5. \A q \in RoomId : q # r => room'[q] = room[q]
    BY <1>3, Kinds
  <1>6. \A q \in RoomId : q # r /\ Referenced(q)' => Referenced(q)
    BY <1>2, <1>3, <1>4 DEF Referenced, Only
  <1>7. \/ room'[r] = room[r] /\ Referenced(r)
        \/ room'[r] = NewRoom /\ ~Referenced(r)
    BY <1>3, Kinds DEF Referenced
  <1>8. sameLog /\ Tables'
    BY <1>2, TablesKept
  <1>9. RoomDocs'
    <2> SUFFICES ASSUME exists, NEW q \in RoomId, Live(q)' PROVE RoomHolds(q)'
      BY <1>8 DEF RoomDocs, sameLog
    <2>1. Live(q) /\ room'[q] = room[q]
      BY <1>5, <1>6, <1>7 DEF Live, NewRoom
    <2> QED
      BY <1>2, <1>8, <2>1 DEF ServeInv, RoomDocs, RoomHolds, sameLog
  <1>10. HandlerDocs'
    <2> SUFFICES ASSUME exists, NEW t \in Session PROVE HandlerHolds(t)'
      BY <1>8 DEF HandlerDocs, sameLog
    <2>1. CASE t = s
      BY <1>4, <2>1 DEF HandlerHolds, At
    <2>2. CASE t # s
      <3>1. handler'[t] = handler[t] /\ HandlerHolds(t)
        BY <1>4, <2>2 DEF Only, ServeInv, HandlerDocs
      <3>2. CASE handler[t].step \in Locking \cup {"loading"}
        <4>1. handler[t].room \in RoomId
          BY <1>1, <3>2 DEF Shape, Locking
        <4>2. room'[handler[t].room] = room[handler[t].room]
          BY <1>5, <1>7, <4>1 DEF Referenced
        <4> QED
          BY <1>8, <3>1, <4>2 DEF HandlerHolds, At, RoomOf, sameLog, Admissible
      <3>3. CASE handler[t].step \notin Locking \cup {"loading"}
        BY <3>1, <3>3 DEF HandlerHolds, At, Locking
      <3> QED
        BY <3>2, <3>3
    <2> QED
      BY <2>1, <2>2
  <1>11. \A q \in RoomId : room'[q].sessions \subseteq room[q].sessions \ {s}
    <2>1. \A q \in RoomId : s \notin room[q].sessions
      BY <1>2 DEF ServeInv, Seated, Served, Step, At
    <2> QED
      BY <1>5, <1>7, <2>1 DEF NewRoom
  <1>12. \A q \in RoomId : room'[q].state # "valid" => room'[q].sessions = {}
    BY <1>5, <1>7 DEF NewRoom, ServeInv, Seated
  <1>13. \A t \in Session : outbound'[t] = IF t = s THEN <<>> ELSE outbound[t]
    BY <1>2 DEF Inv, TypeOK
  <1>14. \A t \in Session : Learned(t)' \subseteq Learned(t) /\ (t # s => Learned(t)' = Learned(t))
    BY <1>2, <1>13 DEF Learned, Queued
  <1>15. Seated' /\ Learnt'
    BY <1>2, <1>4, <1>8, <1>11, <1>12, <1>14, SessionsStep DEF sameLog
  <1>16. \A q \in RoomId : room'[q].sessions \subseteq Session
    BY <1>11, Kinds
  <1>17. Told'
    BY <1>2, <1>4, <1>8, <1>11, <1>14, <1>16, ToldStep DEF sameLog, At
  <1> QED
    BY <1>8, <1>9, <1>10, <1>15, <1>17 DEF ServeInv, sameLog

\* load_graph's reads, and its failures: the room stays empty until the last row
\* has replayed.
LEMMA LoadSteps ==
    ASSUME Inv, RegInv, ServeInv, NEW s \in Session, LoadCheckpoint(s) \/ LoadTail(s) \/ LoadFails(s)
    PROVE  ServeInv'
  <1>1. Shape
    BY Shaped
  <1>0. PICK r \in RoomId : r = RoomOf(s)
    BY <1>1 DEF Shape, RoomOf, LoadCheckpoint, LoadTail, LoadFails, At
  <1>2. /\ ~At(s, "closed") /\ handler[s].step \in {"opening", "loading"} /\ room[r].state = "empty"
        /\ At(s, "loading") \/ ~Loading(r)
    BY <1>0 DEF LoadCheckpoint, LoadTail, LoadFails, RegInv, LoaderInv, At
  <1>3. Sole(s) /\ r \in RoomId /\ Referenced(r)
    BY <1>0, <1>2, Alone
  <1>4. UNCHANGED <<storeVars, slot, revoke, lock, outbound, clientVars>>
    BY DEF LoadCheckpoint, LoadTail, LoadFails, registryVars
  <1>5. sameLog /\ Tables'
    BY <1>4, TablesKept
  <1>6. room[r].sessions = {} /\ room[r] \in Room
    BY <1>2, <1>3, Kinds DEF ServeInv, Seated
  <1>7. /\ Only(s) /\ handler'[s].room \in {handler[s].room, None}
        /\ handler'[s].step \in {"opening", "loading", "closed"}
    <2>1. Moves(s, "loading") \/ Moves(s, "opening") \/ Closes(s)
      <3>1. LoadCheckpoint(s) => Moves(s, "loading")
        BY <1>2, Moving, Kinds DEF LoadCheckpoint, Goto
      <3>2. LoadTail(s) => Moves(s, "opening")
        BY <1>2, Moving, Kinds DEF LoadTail, Goto
      <3>3. LoadFails(s) => Closes(s)
        BY Closing, Kinds DEF LoadFails
      <3> QED
        BY <3>1, <3>2, <3>3
    <2> QED
      BY <2>1, MovesOnly DEF Closes, Only, Closed
  <1>8. NoNewReference
    BY <1>1, <1>4, <1>7 DEF NoNewReference, Referenced, Only, Shape
  <1>9. \A q \in RoomId : q # r => room'[q] = room[q]
    BY <1>0, Kinds DEF LoadCheckpoint, LoadTail, LoadFails
  <1>10. room'[r].sessions = {}
    <2>1. CASE LoadFails(s)
      BY <1>0, <1>3, <2>1, Kinds DEF LoadFails, NewRoom
    <2>2. CASE LoadCheckpoint(s)
      BY <1>0, <1>3, <1>6, <2>2, Kinds DEF LoadCheckpoint, Room
    <2>3. CASE LoadTail(s)
      BY <1>0, <1>3, <1>6, <2>3, Kinds DEF LoadTail, Loaded, Room
    <2> QED
      BY <2>1, <2>2, <2>3
  <1>11. (exists /\ Live(r)' => RoomHolds(r)') /\ (exists => HandlerHolds(s)')
    <2>1. CASE LoadFails(s)
      <3>1. room'[r].state = "empty"
        BY <1>0, <1>3, <2>1, Kinds DEF LoadFails, NewRoom
      <3>2. handler'[s].step = "closed"
        BY <2>1, Closing, Kinds DEF LoadFails, Closes, Closed
      <3> QED
        BY <3>1, <3>2 DEF Live, HandlerHolds, At
    <2>2. CASE LoadCheckpoint(s)
      <3>1. room' = [room EXCEPT ![r].doc = base.doc, ![r].cursor = base.cursor]
        BY <1>0, <2>2 DEF LoadCheckpoint
      <3>2. room'[r].state = "empty" /\ room'[r].doc = base.doc /\ room'[r].cursor = base.cursor
        BY <1>2, <1>3, <1>6, <3>1, Kinds DEF Room
      <3>3. handler'[s].step = "loading" /\ handler'[s].room = r
        BY <1>0, <1>2, <2>2, Moving, MovesOnly, Kinds DEF LoadCheckpoint, Goto, RoomOf
      <3> QED
        BY <1>5, <3>2, <3>3 DEF Live, HandlerHolds, At, RoomOf, sameLog
    <2>3. CASE LoadTail(s)
      <3>1. room' = [room EXCEPT ![r] = Loaded(r, RowsAfter(room[r].cursor))]
        BY <1>0, <2>3 DEF LoadTail
      <3>2. exists => room[r].doc = base.doc /\ room[r].cursor = base.cursor
        BY <1>0, <2>3 DEF LoadTail, ServeInv, HandlerDocs, HandlerHolds
      <3>3. /\ room'[r].doc = room[r].doc \cup Messages(RowsAfter(room[r].cursor))
            /\ room'[r].cursor = LatestCursor(room[r], RowsAfter(room[r].cursor))
            /\ room'[r].tailUpdates = Cardinality(RowsAfter(room[r].cursor))
        BY <1>3, <1>6, <3>1, Kinds DEF Loaded, Room
      <3>4. exists => room'[r].doc = Log /\ room'[r].cursor = Top /\ room'[r].tailUpdates = Pending
        BY <3>2, <3>3 DEF Log, Top, Pending, Durable, LatestCursor
      <3>5. handler'[s].step = "opening"
        BY <1>2, <2>3, Moving, MovesOnly, Kinds DEF LoadTail, Goto
      <3>6. Pending \in Nat
        BY Recorded
      <3> QED
        BY <1>5, <3>4, <3>5, <3>6 DEF RoomHolds, HandlerHolds, At, sameLog
    <2> QED
      BY <2>1, <2>2, <2>3
  <1>12. RoomDocs' /\ HandlerDocs'
    <2>1. \A q \in RoomId : q # r /\ room'[q].state = "valid" => room[q].state = "valid"
      BY <1>9
    <2> QED
      BY <1>0, <1>3, <1>5, <1>7, <1>8, <1>11, <2>1, SoleDocs DEF sameLog
  <1>13. \A q \in RoomId : room'[q].sessions = room[q].sessions
    BY <1>6, <1>9, <1>10
  <1>14. \A q \in RoomId : s \notin room[q].sessions
    BY <1>2 DEF ServeInv, Seated, Served, Step
  <1>15. \A q \in RoomId : room'[q].state # "valid" => room'[q].sessions = {}
    BY <1>9, <1>10 DEF ServeInv, Seated
  <1>16. Seated' /\ Learnt' /\ Told'
    BY <1>2, <1>4, <1>5, <1>7, <1>13, <1>14, <1>15, SilentSessions DEF sameLog
  <1> QED
    BY <1>5, <1>12, <1>16 DEF ServeInv, sameLog

\* The Welcome hands out the durable document.
LEMMA WelcomeStep ==
    ASSUME Inv, RegInv, ServeInv, NEW s \in Session, Welcome(s)
    PROVE  ServeInv'
  <1> DEFINE r == RoomOf(s)
  <1>1. Shape
    BY Shaped
  <1>2. /\ ~At(s, "closed") /\ handler[s].step = "opening" /\ room[r].state = "valid" /\ lock[r] = None /\ exists
        /\ room' = [room EXCEPT ![r].sessions = @ \cup {s}]
        /\ view' = [view EXCEPT ![s] = room[r].doc]
        /\ UNCHANGED <<storeVars, slot, revoke, lock, outbound, acked, unbroadcast>>
    BY DEF Welcome, registryVars, At, Authorized
  <1>3. Sole(s) /\ r \in RoomId /\ Referenced(r)
    BY <1>2, Alone
  <1>4. sameLog /\ Tables'
    BY <1>2, TablesKept
  <1>5. Only(s) /\ handler'[s].room = handler[s].room /\ handler'[s].step = "idle"
    BY <1>2, Moving, MovesOnly, Kinds DEF Welcome
  <1>6. SameDocs /\ NoNewReference
    <2>1. SameDocs
      BY <1>2, <1>3, Kinds DEF SameDocs, Room
    <2> QED
      BY <1>2, <1>5, <2>1 DEF NoNewReference, Referenced, Only
  <1>7. room[r].doc = Log
    BY <1>2, <1>3 DEF ServeInv, RoomDocs, RoomHolds, Live
  <1>8. RoomDocs' /\ HandlerDocs'
    BY <1>2, <1>4, <1>5, <1>6, QuietDocs
  <1>9. \A q \in RoomId : room'[q].sessions = IF q = r THEN room[q].sessions \cup {s} ELSE room[q].sessions
    BY <1>2, <1>3, Kinds DEF Room
  <1>10. \A t \in Session : Learned(t)' = IF t = s THEN Log \cup Queued(s) ELSE Learned(t)
    BY <1>2, <1>7, Kinds DEF Learned, Queued
  <1>11. \A q \in RoomId : s \notin room[q].sessions
    BY <1>2 DEF ServeInv, Seated, Served
  <1>12. Seated' /\ Learnt'
    <2>1. \A t \in Session : Learned(t)' \subseteq Learned(t) \cup Log
      BY <1>10 DEF Learned
    <2>2. \A q \in RoomId : s \in room'[q].sessions => handler'[s].room = q /\ handler'[s].step \in Served
      BY <1>5, <1>9, <1>11 DEF RoomOf, Served, Step
    <2>3. \A q \in RoomId : room'[q].state # "valid" => room'[q].sessions = {}
      BY <1>2, <1>6, <1>9 DEF SameDocs, ServeInv, Seated
    <2> QED
      BY <1>2, <1>4, <1>5, <1>9, <2>1, <2>2, <2>3, SessionsStep DEF sameLog
  <1>13. Told'
    <2> SUFFICES ASSUME NEW q \in RoomId, NEW t \in room'[q].sessions, NEW u \in Log
                 PROVE  u \in unbroadcast' \cup Learned(t)' \/ Owed(q, u)'
      BY <1>4 DEF Told, sameLog
    <2>1. CASE t = s
      BY <1>10, <2>1
    <2>2. CASE t # s
      <3>1. t \in room[q].sessions /\ t \in Session
        BY <1>9, <2>2, Kinds
      <3>2. u \in unbroadcast \cup Learned(t) \/ Owed(q, u)
        BY <1>2, <3>1 DEF ServeInv, Told
      <3>3. Owed(q, u) => Owed(q, u)'
        BY <1>2, <1>5 DEF Owed, Only, At, RoomOf
      <3> QED
        BY <1>2, <1>10, <2>2, <3>1, <3>2, <3>3
    <2> QED
      BY <2>1, <2>2
  <1> QED
    BY <1>4, <1>8, <1>12, <1>13 DEF ServeInv, sameLog
-----------------------------------------------------------------------------
(* Submitting.                                                             *)

\* The update is in the room's document before it is in the log.
LEMMA AdmitStep ==
    ASSUME Inv, RegInv, ServeInv, NEW s \in Session, AdmitUpdate(s)
    PROVE  ServeInv'
  <1>1. Shape
    BY Shaped
  <1>2. PICK r \in RoomId : r = RoomOf(s)
    BY <1>1 DEF Shape, RoomOf, AdmitUpdate, At
  <1> DEFINE u == handler[s].msg
             st == IF Admissible(u, room[r].doc) THEN "admitted" ELSE "rejected"
  <1>3. /\ ~At(s, "closed") /\ handler[s].step = "authorized" /\ room[r].state = "valid" /\ lock[r] = None
        /\ room' = [room EXCEPT ![r].doc = @ \cup {u}]
        /\ lock' = [lock EXCEPT ![r] = s]
        /\ handler' = [handler EXCEPT ![s].step = st]
        /\ UNCHANGED <<storeVars, slot, revoke, outbound, clientVars>>
    BY <1>2 DEF AdmitUpdate, registryVars, At, Goto
  <1>4. Sole(s) /\ Live(r)
    BY <1>2, <1>3, Alone DEF Live
  <1>5. sameLog /\ Tables'
    BY <1>3, TablesKept
  <1>6. /\ Only(s) /\ handler'[s].room = r /\ handler'[s].msg = u /\ handler'[s].step = st
    <2>1. Moves(s, st)
      BY <1>3, Moving, Kinds
    <2>2. handler[s] \in OpenHandler
      BY <1>3, OpenHandlerFacts, Kinds
    <2> QED
      BY <1>2, <1>3, <2>1, <2>2, MovesOnly, Kinds DEF OpenHandler, RoomOf
  <1>7. /\ \A q \in RoomId : q # r => room'[q] = room[q]
        /\ room'[r].doc = room[r].doc \cup {u} /\ room'[r].cursor = room[r].cursor
        /\ room'[r].tailUpdates = room[r].tailUpdates /\ room'[r].state = "valid"
        /\ room'[r].sessions = room[r].sessions
    BY <1>3, Kinds DEF Room
  <1>8. NoNewReference
    BY <1>2, <1>3, <1>6 DEF NoNewReference, Referenced, Only, RoomOf
  <1>9. exists => RoomHolds(r) /\ room[r].doc = Log
    BY <1>3, <1>4 DEF ServeInv, RoomDocs, RoomHolds
  <1>10. exists => RoomHolds(r)'
    <2>1. lock'[r] # None
      BY <1>1, <1>3, Kinds DEF Shape
    <2> QED
      BY <1>5, <1>7, <1>9, <2>1 DEF RoomHolds, sameLog
  <1>11. exists => HandlerHolds(s)'
    <2>1. st = "admitted" => Admissible(u, room[r].doc)
      OBVIOUS
    <2>2. st \in {"admitted", "rejected"}
      OBVIOUS
    <2> HIDE DEF st
    <2> QED
      BY <1>5, <1>6, <1>7, <1>9, <2>1, <2>2 DEF HandlerHolds, At, RoomOf, sameLog, Admissible
  <1>12. RoomDocs' /\ HandlerDocs'
    BY <1>2, <1>4, <1>5, <1>6, <1>7, <1>8, <1>10, <1>11, SoleDocs DEF sameLog
  <1>13. Seated' /\ Learnt' /\ Told'
    <2>1. \A q \in RoomId : room'[q].sessions = room[q].sessions /\ room'[q].state = room[q].state
      BY <1>3, <1>7
    <2>2. \A q \in RoomId : s \in room[q].sessions => handler'[s].room = q /\ handler'[s].step \in Served
      BY <1>2, <1>6 DEF ServeInv, Seated, Served, Step
    <2>3. \A q \in RoomId : room'[q].state # "valid" => room'[q].sessions = {}
      BY <2>1 DEF ServeInv, Seated
    <2> QED
      BY <1>3, <1>5, <1>6, <2>1, <2>2, <2>3, SilentSessions DEF sameLog
  <1> QED
    BY <1>5, <1>12, <1>13 DEF ServeInv, sameLog

\* A reload in place gives the room the durable document back.
LEMMA RestoreStep ==
    ASSUME Inv, RegInv, ServeInv, NEW s \in Session, RestoreRoom(s)
    PROVE  ServeInv'
  <1>1. handler[s].step = "rejected" /\ handler[s].step \in Locking /\ ~At(s, "closed")
    BY DEF RestoreRoom, At, Locking
  <1>2. PICK r \in RoomId : r = RoomOf(s)
    BY <1>1, Locked
  <1>3. Sole(s) /\ Live(r) /\ room[r].state = "valid"
    BY <1>1, <1>2, Locked
  <1>4. /\ room' = [room EXCEPT ![r] = Restored(r)] /\ lock' = [lock EXCEPT ![r] = None]
        /\ exists /\ Top = room[r].cursor
        /\ UNCHANGED <<storeVars, slot, revoke, outbound, clientVars>>
    BY <1>2 DEF RestoreRoom, registryVars, Top
  <1>5. sameLog /\ Tables'
    BY <1>4, TablesKept
  <1>6. Only(s) /\ handler'[s].room = r /\ handler'[s].step = "leaving"
    BY <1>1, <1>2, Moving, MovesOnly, Kinds DEF RestoreRoom, Goto, RoomOf
  <1>7. /\ \A q \in RoomId : q # r => room'[q] = room[q]
        /\ room'[r].doc = Log /\ room'[r].cursor = Top /\ room'[r].tailUpdates = Pending
        /\ room'[r].state = "valid" /\ room'[r].sessions = room[r].sessions
    BY <1>3, <1>4, Kinds DEF Room, Restored, Log, Pending
  <1>8. NoNewReference
    BY <1>2, <1>4, <1>6 DEF NoNewReference, Referenced, Only, RoomOf
  <1>9. RoomHolds(r)' /\ HandlerHolds(s)'
    BY <1>5, <1>6, <1>7, Recorded DEF RoomHolds, HandlerHolds, At, sameLog
  <1>10. RoomDocs' /\ HandlerDocs'
    BY <1>2, <1>3, <1>5, <1>6, <1>7, <1>8, <1>9, SoleDocs DEF sameLog
  <1>11. Seated' /\ Learnt' /\ Told'
    <2>1. \A q \in RoomId : room'[q].sessions = room[q].sessions /\ room'[q].state = room[q].state
      BY <1>3, <1>7
    <2>2. \A q \in RoomId : s \in room[q].sessions => handler'[s].room = q /\ handler'[s].step \in Served
      BY <1>2, <1>6 DEF ServeInv, Seated, Served, Step
    <2>3. \A q \in RoomId : room'[q].state # "valid" => room'[q].sessions = {}
      BY <2>1 DEF ServeInv, Seated
    <2> QED
      BY <1>1, <1>4, <1>5, <1>6, <2>1, <2>2, <2>3, SilentSessions DEF sameLog
  <1> QED
    BY <1>5, <1>10, <1>11 DEF ServeInv, sameLog

\* commit_update finds that the update was accepted before.
LEMMA DuplicateStep ==
    ASSUME Inv, RegInv, ServeInv, NEW s \in Session, CommitDuplicate(s)
    PROVE  ServeInv'
  <1>1. handler[s].step = "admitted" /\ handler[s].step \in Locking /\ ~At(s, "closed")
    BY DEF CommitDuplicate, At, Locking
  <1>2. RoomOf(s) \in RoomId /\ lock[RoomOf(s)] = s /\ s # None
    BY <1>1, Locked, Shaped DEF Shape
  <1>3. UNCHANGED <<storeVars, room, lock, slot, revoke, outbound, clientVars>>
    BY DEF CommitDuplicate, registryVars
  <1>4. /\ Only(s) /\ handler'[s].room = handler[s].room
        /\ handler'[s].step = "duplicate" /\ handler'[s].msg = handler[s].msg
    <2>1. handler[s] \in OpenHandler
      BY <1>1, OpenHandlerFacts, Kinds
    <2> QED
      BY <1>1, <2>1, Moving, MovesOnly, Kinds DEF CommitDuplicate, Goto, OpenHandler
  <1>5. handler[s].msg \in Log
    BY DEF CommitDuplicate, IsDuplicate, ServeInv, Tables
  <1>6. exists => room[RoomOf(s)].doc \subseteq Log
    BY <1>1, <1>5 DEF ServeInv, HandlerDocs, HandlerHolds
  <1>7. NoNewReference
    BY <1>3, <1>4 DEF NoNewReference, Referenced, Only
  <1>8. \A q \in RoomId : s \in room[q].sessions => handler'[s].room = q /\ handler'[s].step \in Served
    BY <1>4 DEF ServeInv, Seated, Served, Step, RoomOf
  <1> QED
    BY <1>1, <1>3, <1>4, <1>5, <1>6, <1>7, <1>8, QuietStep DEF SameDocs

\* Where one room serves, the others have no sessions.
LEMMA SoleSessions ==
    ASSUME Inv, ServeInv, NEW s \in Session, Sole(s)
    PROVE  \A q \in RoomId : q # RoomOf(s) => room[q].sessions = {}
  <1> SUFFICES ASSUME NEW q \in RoomId, NEW t \in room[q].sessions PROVE q = RoomOf(s)
    OBVIOUS
  <1>1. t \in Session /\ RoomOf(t) = q /\ room[q].state = "valid"
    BY Kinds DEF ServeInv, Seated
  <1> QED
    BY <1>1 DEF Sole, Live, Referenced, RoomOf

\* commit_update inserts the row of the admitted update.
LEMMA InsertStep ==
    ASSUME Inv, RegInv, ServeInv, NEW s \in Session, CommitInsert(s)
    PROVE  ServeInv'
  <1>1. handler[s].step = "admitted" /\ handler[s].step \in Locking /\ ~At(s, "closed")
    BY DEF CommitInsert, At, Locking
  <1>2. PICK r \in RoomId : r = RoomOf(s)
    BY <1>1, Locked
  <1>3. Sole(s) /\ Live(r) /\ room[r].state = "valid" /\ lock[r] = s /\ s # None
    BY <1>1, <1>2, Locked, Shaped DEF Shape
  <1> DEFINE u == handler[s].msg
  <1>4. /\ room' = [room EXCEPT ![r].cursor = lastCursor + 1, ![r].tailUpdates = @ + 1]
        /\ Inserted(u) /\ exists /\ exists' = exists /\ late' = None
        /\ UNCHANGED <<lock, slot, revoke, outbound, acked, view, unbroadcast>>
    BY <1>2 DEF CommitInsert, registryVars, clientVars, Inserted, CanWrite, Authorized
  <1>5. u \in Update /\ Admissible(u, Log) /\ HandlerHolds(s) /\ RoomHolds(r)
    <2>1. handler[s] \in Handler
      BY Kinds
    <2>2. u \in Update
      BY <1>1, <2>1 DEF Handler, Closed, Submitting
    <2> QED
      BY <1>1, <1>3, <1>4, <2>2 DEF ServeInv, HandlerDocs, HandlerHolds, At, RoomDocs
  <1>6. /\ Tables' /\ Log' = Log \cup {u} /\ Top' = lastCursor + 1
        /\ Pending' \in Nat /\ Pending' <= Pending + 1
    BY <1>4, <1>5, TablesInsert DEF ServeInv
  <1>7. /\ Only(s) /\ handler'[s].room = r /\ handler'[s].step = "inserted" /\ handler'[s].msg = u
    <2>1. handler[s] \in OpenHandler
      BY <1>1, OpenHandlerFacts, Kinds
    <2> QED
      BY <1>1, <1>2, <2>1, Moving, MovesOnly, Kinds DEF CommitInsert, Goto, OpenHandler, RoomOf
  <1>8. /\ \A q \in RoomId : q # r => room'[q] = room[q]
        /\ room'[r].doc = room[r].doc /\ room'[r].cursor = lastCursor + 1
        /\ room'[r].tailUpdates = room[r].tailUpdates + 1
        /\ room'[r].state = "valid" /\ room'[r].sessions = room[r].sessions
    BY <1>3, <1>4, Kinds DEF Room
  <1>9. NoNewReference
    BY <1>2, <1>4, <1>7 DEF NoNewReference, Referenced, Only, RoomOf
  <1>10. RoomHolds(r)'
    <2>1. u \in room[r].doc
      BY <1>1, <1>2, <1>5 DEF HandlerHolds, At
    <2>2. room'[r].tailUpdates >= Pending'
      BY <1>5, <1>6, <1>8, Recorded, Kinds DEF RoomHolds
    <2> QED
      BY <1>3, <1>4, <1>5, <1>6, <1>8, <2>1, <2>2 DEF RoomHolds
  <1>11. HandlerHolds(s)'
    <2>1. room[r].doc \subseteq Log \cup {u}
      BY <1>1, <1>2, <1>5 DEF HandlerHolds
    <2> QED
      BY <1>6, <1>7, <1>8, <2>1 DEF HandlerHolds, At, RoomOf
  <1>12. RoomDocs' /\ HandlerDocs'
    BY <1>2, <1>3, <1>4, <1>7, <1>8, <1>9, <1>10, <1>11, SoleDocs
  <1>13. \A t \in Session : Learned(t)' = Learned(t)
    BY <1>4 DEF Learned, Queued
  <1>14. \A q \in RoomId : room'[q].sessions = room[q].sessions /\ room'[q].state = room[q].state
    BY <1>3, <1>8
  <1>15. Seated' /\ Learnt'
    <2>1. \A q \in RoomId : s \in room'[q].sessions => handler'[s].room = q /\ handler'[s].step \in Served
      BY <1>2, <1>7, <1>14 DEF ServeInv, Seated, Served, Step
    <2>2. \A q \in RoomId : room'[q].state # "valid" => room'[q].sessions = {}
      BY <1>14 DEF ServeInv, Seated
    <2> QED
      BY <1>4, <1>6, <1>7, <1>13, <1>14, <2>1, <2>2, SessionsStep
  <1>16. Told'
    <2> SUFFICES ASSUME NEW q \in RoomId, NEW t \in room[q].sessions, NEW v \in Log \cup {u}
                 PROVE  v \in unbroadcast \cup Learned(t) \/ Owed(q, v)'
      BY <1>4, <1>6, <1>13, <1>14, Kinds DEF Told
    <2>1. CASE v = u
      <3>1. q = r
        BY <1>2, <1>3, SoleSessions
      <3> QED
        BY <1>7, <2>1, <3>1 DEF Owed, At, RoomOf
    <2>2. CASE v # u
      <3>1. v \in unbroadcast \cup Learned(t) \/ Owed(q, v)
        BY <1>4, <2>2 DEF ServeInv, Told
      <3>2. Owed(q, v) => Owed(q, v)'
        BY <1>1, <1>7 DEF Owed, Only, At, RoomOf
      <3> QED
        BY <3>1, <3>2
    <2> QED
      BY <2>1, <2>2
  <1> QED
    BY <1>4, <1>6, <1>12, <1>15, <1>16 DEF ServeInv

\* A reload or a commit that failed, though its insert may be in the tables: the room
\* is discarded and its sessions are told to resynchronize.
LEMMA DiscardSteps ==
    ASSUME Inv, RegInv, ServeInv, ~LateCommit, NEW s \in Session, RestoreFails(s) \/ CommitFails(s)
    PROVE  ServeInv'
  <1>1. handler[s].step \in {"admitted", "rejected"} /\ handler[s].step \in Locking /\ ~At(s, "closed")
    BY DEF RestoreFails, CommitFails, At, Locking
  <1>2. PICK r \in RoomId : r = RoomOf(s)
    BY <1>1, Locked
  <1>3. Sole(s)
    BY <1>1, Locked
  <1> DEFINE u == handler[s].msg
             m == [type |-> "resync", msg |-> None]
  <1>4. /\ Queue(room[r].sessions, m) /\ room' = [room EXCEPT ![r] = DeadRoom]
        /\ exists' = exists /\ late' = None
        /\ UNCHANGED <<slot, revoke, acked, view, unbroadcast>>
    BY <1>2 DEF RestoreFails, CommitFails, Invalidate, registryVars, clientVars, storeVars, ServeInv
  <1>5. Tables' /\ (exists => Log \subseteq Log')
    <2>1. CASE RestoreFails(s)
      <3>1. UNCHANGED storeVars
        BY <2>1 DEF RestoreFails
      <3> QED
        BY <3>1, TablesKept DEF sameLog
    <2>2. CASE CommitFails(s)
      <3>1. CASE UNCHANGED <<lastCursor, tail, late>>
        <4>1. UNCHANGED storeVars
          BY <2>2, <3>1 DEF CommitFails, storeVars
        <4> QED
          BY <4>1, TablesKept DEF sameLog
      <3>2. CASE ~UNCHANGED <<lastCursor, tail, late>>
        <4>1. Inserted(u) /\ exists /\ At(s, "admitted")
          BY <2>2, <3>2 DEF CommitFails, Inserted, CanWrite, Authorized
        <4>2. handler[s] \in Handler
          BY Kinds
        <4>3. u \in Update
          BY <1>1, <4>2 DEF Handler, Closed, Submitting
        <4>4. Admissible(u, Log)
          BY <4>1 DEF ServeInv, HandlerDocs, HandlerHolds
        <4> QED
          BY <4>1, <4>3, <4>4, TablesInsert DEF ServeInv
      <3> QED
        BY <3>1, <3>2
    <2> QED
      BY <2>1, <2>2
  <1>6. Only(s) /\ handler'[s].room = r /\ handler'[s].step = "evicting"
    BY <1>1, <1>2, Moving, MovesOnly, Kinds DEF RestoreFails, CommitFails, Goto, RoomOf
  <1>7. /\ \A q \in RoomId : q # r => room'[q] = room[q]
        /\ room'[r].state = "invalid" /\ room'[r].sessions = {}
    BY <1>4, Kinds DEF DeadRoom
  <1>8. NoNewReference
    BY <1>2, <1>4, <1>6 DEF NoNewReference, Referenced, Only, RoomOf
  <1>9. RoomDocs' /\ HandlerDocs'
    <2>1. (exists /\ Live(r)' => RoomHolds(r)') /\ HandlerHolds(s)'
      BY <1>6, <1>7 DEF Live, HandlerHolds, At
    <2> QED
      BY <1>2, <1>3, <1>4, <1>6, <1>7, <1>8, <2>1, SoleDocs
  <1>10. \A t \in Session : Learned(t)' = Learned(t)
    <2>1. m \in Message /\ m.msg = None
      BY DEF Message
    <2> HIDE DEF m
    <2>2. {m.msg} \ {None} = {}
      BY <2>1
    <2>3. Queue(room[r].sessions, m) /\ view' = view
      BY <1>4
    <2>4. \A t \in Session : Learned(t)' = Learned(t) \cup (IF t \in room[r].sessions /\ ~Full(t) THEN {m.msg} \ {None} ELSE {})
      BY <2>1, <2>3, QueueLearned
    <2> QED
      BY <2>2, <2>4
  <1>11. \A q \in RoomId : room'[q].sessions = {}
    BY <1>2, <1>3, <1>7, SoleSessions
  <1>12. Seated' /\ Learnt' /\ Told'
    <2>1. Seated' /\ Learnt'
      BY <1>4, <1>5, <1>6, <1>10, <1>11, SessionsStep
    <2>2. Told'
      BY <1>11 DEF Told
    <2> QED
      BY <2>1, <2>2
  <1> QED
    BY <1>4, <1>5, <1>9, <1>12 DEF ServeInv
-----------------------------------------------------------------------------
(* Replying and compacting.                                                *)

\* A reply gives the lock back, or keeps it to compact, over the durable document.
LEMMA ReplyDocs ==
    ASSUME Inv, RegInv, ServeInv, NEW s \in Session,
           handler[s].step \in {"inserted", "duplicate", "compacting"},
           sameLog, Only(s), SameDocs, handler'[s].room = handler[s].room,
           handler'[s].step \in {"idle", "leaving", "compacting"},
           \A q \in RoomId : q # RoomOf(s) => lock'[q] = lock[q],
           slot' = slot, revoke' = revoke
    PROVE  RoomDocs' /\ HandlerDocs'
  <1>1. exists => room[RoomOf(s)].doc \subseteq Log
    BY DEF ServeInv, HandlerDocs, HandlerHolds
  <1>2. NoNewReference
    BY DEF NoNewReference, Referenced, Only
  <1>3. \A q \in RoomId : exists /\ Live(q) /\ lock'[q] = None => lock[q] = None \/ room[q].doc \subseteq Log
    BY <1>1
  <1> QED
    BY <1>1, <1>2, <1>3, QuietDocs DEF At

\* The author's queue is full: the others never hear of its update from this room.
LEMMA SlowAuthorStep ==
    ASSUME Inv, RegInv, ServeInv, NEW s \in Session, ReplyToSlowAuthor(s)
    PROVE  ServeInv'
  <1>1. handler[s].step \in {"inserted", "duplicate"} /\ handler[s].step \in Locking /\ ~At(s, "closed")
    BY DEF ReplyToSlowAuthor, At, Locking
  <1>2. PICK r \in RoomId : r = RoomOf(s)
    BY <1>1, Locked
  <1>3. /\ room' = [room EXCEPT ![r].sessions = @ \ {s}] /\ lock' = [lock EXCEPT ![r] = None]
        /\ unbroadcast' = (IF At(s, "inserted") THEN unbroadcast \cup {handler[s].msg} ELSE unbroadcast)
        /\ UNCHANGED <<storeVars, slot, revoke, outbound, acked, view>>
    BY <1>2 DEF ReplyToSlowAuthor, registryVars
  <1>4. sameLog /\ Tables'
    BY <1>3, TablesKept
  <1>5. Only(s) /\ handler'[s].room = handler[s].room /\ handler'[s].step = "leaving"
    BY <1>1, Moving, MovesOnly, Kinds DEF ReplyToSlowAuthor, Goto
  <1>6. SameDocs /\ \A q \in RoomId : room'[q].sessions \subseteq room[q].sessions
    BY <1>3, Kinds DEF SameDocs, Room
  <1>7. RoomDocs' /\ HandlerDocs'
    BY <1>1, <1>2, <1>3, <1>4, <1>5, <1>6, ReplyDocs, Kinds
  <1>8. \A t \in Session : Learned(t)' = Learned(t)
    BY <1>3 DEF Learned, Queued
  <1>9. Seated' /\ Learnt'
    <2>1. \A q \in RoomId : s \in room'[q].sessions => handler'[s].room = q /\ handler'[s].step \in Served
      BY <1>5, <1>6 DEF ServeInv, Seated, Served, Step, RoomOf
    <2>2. \A q \in RoomId : room'[q].state # "valid" => room'[q].sessions = {}
      BY <1>6 DEF ServeInv, Seated, SameDocs
    <2> QED
      BY <1>3, <1>4, <1>5, <1>6, <1>8, <2>1, <2>2, SessionsStep DEF sameLog
  <1>10. Told'
    <2> SUFFICES ASSUME exists, NEW q \in RoomId, NEW t \in room'[q].sessions, NEW v \in Log
                 PROVE  v \in unbroadcast' \cup Learned(t) \/ Owed(q, v)'
      BY <1>4, <1>6, <1>8, Kinds DEF Told, sameLog
    <2>1. v \in unbroadcast \cup Learned(t) \/ Owed(q, v)
      BY <1>6 DEF ServeInv, Told
    <2>2. ASSUME Owed(q, v) PROVE v \in unbroadcast' \/ Owed(q, v)'
      <3>1. PICK w \in Session : At(w, "inserted") /\ RoomOf(w) = q /\ handler[w].msg = v
        BY <2>2 DEF Owed
      <3>2. CASE w = s
        BY <1>3, <3>1, <3>2
      <3>3. CASE w # s
        BY <1>5, <3>1, <3>3 DEF Owed, Only, At, RoomOf
      <3> QED
        BY <3>2, <3>3
    <2>3. unbroadcast \subseteq unbroadcast'
      BY <1>3
    <2> QED
      BY <2>1, <2>2, <2>3
  <1> QED
    BY <1>4, <1>7, <1>9, <1>10 DEF ServeInv, sameLog

\* A duplicate is acknowledged.
LEMMA ReplyDuplicateStep ==
    ASSUME Inv, RegInv, ServeInv, NEW s \in Session, ReplyDuplicate(s)
    PROVE  ServeInv'
  <1>1. handler[s].step = "duplicate" /\ handler[s].step \in Locking /\ ~At(s, "closed")
    BY DEF ReplyDuplicate, At, Locking
  <1>2. PICK r \in RoomId : r = RoomOf(s)
    BY <1>1, Locked
  <1> DEFINE m == [type |-> "ack", msg |-> handler[s].msg]
  <1>3. /\ Queue({s}, m) /\ lock' = [lock EXCEPT ![r] = None]
        /\ UNCHANGED <<storeVars, room, slot, revoke, acked, view, unbroadcast>>
    BY <1>2 DEF ReplyDuplicate, registryVars, clientVars
  <1>4. sameLog /\ Tables'
    BY <1>3, TablesKept
  <1>5. Only(s) /\ handler'[s].room = handler[s].room /\ handler'[s].step = "idle"
    BY <1>1, Moving, MovesOnly, Kinds DEF ReplyDuplicate
  <1>6. RoomDocs' /\ HandlerDocs'
    BY <1>1, <1>2, <1>3, <1>4, <1>5, ReplyDocs, Kinds DEF SameDocs
  <1>7. /\ exists => \A t \in Session : Learned(t)' \subseteq Learned(t) \cup Log
        /\ \A t \in Session : Learned(t) \subseteq Learned(t)'
    <2>1. handler[s] \in Handler
      BY Kinds
    <2>2. handler[s].msg \in Update
      BY <1>1, <2>1 DEF Handler, Closed, Submitting
    <2>3. m \in Message /\ m.msg = handler[s].msg
      BY <2>2 DEF Message
    <2>4. exists => handler[s].msg \in Log
      BY <1>1 DEF ServeInv, HandlerDocs, HandlerHolds
    <2> HIDE DEF m
    <2>5. \A t \in Session : Learned(t) \subseteq Learned(t)' /\ Learned(t)' \subseteq Learned(t) \cup {m.msg}
      BY <1>3, <2>3, QueueLearned
    <2> QED
      BY <2>3, <2>4, <2>5
  <1>8. Seated' /\ Learnt'
    <2>1. \A q \in RoomId : s \in room'[q].sessions => handler'[s].room = q /\ handler'[s].step \in Served
      BY <1>3, <1>5 DEF ServeInv, Seated, Served, Step, RoomOf
    <2>2. \A q \in RoomId : room'[q].state # "valid" => room'[q].sessions = {}
      BY <1>3 DEF ServeInv, Seated
    <2> QED
      BY <1>3, <1>4, <1>5, <1>7, <2>1, <2>2, SessionsStep DEF sameLog
  <1>9. Told'
    BY <1>1, <1>3, <1>4, <1>5, <1>7, ToldStep, Kinds DEF sameLog
  <1> QED
    BY <1>4, <1>6, <1>8, <1>9 DEF ServeInv, sameLog

\* The author's Ack and the broadcast: who cannot take the update leaves the room.
LEMMA ReplyInsertedStep ==
    ASSUME Inv, RegInv, ServeInv, NEW s \in Session, ReplyInserted(s)
    PROVE  ServeInv'
  <1>1. handler[s].step = "inserted" /\ handler[s].step \in Locking /\ ~At(s, "closed")
    BY DEF ReplyInserted, At, Locking
  <1>2. PICK r \in RoomId : r = RoomOf(s)
    BY <1>1, Locked
  <1>3. Sole(s)
    BY <1>1, Locked
  <1> DEFINE u == handler[s].msg
             ack == [type |-> "ack", msg |-> u]
             upd == [type |-> "update", msg |-> u]
             others == room[r].sessions \ {s}
             st == IF room[r].tailUpdates >= CheckpointTailUpdates THEN "compacting" ELSE "idle"
  <1>4. /\ ~Full(s)
        /\ outbound' = [t \in Session |-> IF t = s THEN Append(outbound[t], ack)
                                          ELSE IF t \in others /\ ~Full(t) THEN Append(outbound[t], upd)
                                               ELSE outbound[t]]
        /\ room' = [room EXCEPT ![r].sessions = @ \ {t \in others : Full(t)}]
        /\ \E l \in Session \cup {None} : lock' = [lock EXCEPT ![r] = l]
        /\ handler' = [handler EXCEPT ![s].step = st, ![s].msg = None]
        /\ UNCHANGED <<storeVars, slot, revoke, acked, view, unbroadcast>>
    BY <1>2 DEF ReplyInserted, DropSlow, registryVars, clientVars
  <1>5. sameLog /\ Tables'
    BY <1>4, TablesKept
  <1>6. Only(s) /\ handler'[s].room = handler[s].room /\ handler'[s].step \in {"idle", "compacting"}
    <2>1. st \in {"idle", "compacting"}
      OBVIOUS
    <2> HIDE DEF st
    <2> QED
      BY <1>1, <1>4, <2>1, Moving, MovesOnly, Kinds
  <1>7. /\ SameDocs
        /\ \A q \in RoomId : room'[q].sessions = IF q = r THEN room[q].sessions \ {t \in others : Full(t)} ELSE room[q].sessions
    <2> DEFINE gone == {t \in others : Full(t)}
    <2>1. room' = [room EXCEPT ![r].sessions = @ \ gone]
      BY <1>4
    <2> HIDE DEF gone
    <2>2. SameDocs /\ \A q \in RoomId : room'[q].sessions = IF q = r THEN room[q].sessions \ gone ELSE room[q].sessions
      BY <2>1, Kinds DEF SameDocs, Room
    <2> QED
      BY <2>2 DEF gone
  <1>8. RoomDocs' /\ HandlerDocs'
    BY <1>1, <1>2, <1>4, <1>5, <1>6, <1>7, ReplyDocs, Kinds
  <1>9. u \in Update /\ (exists => u \in Log)
    <2>1. handler[s] \in Handler
      BY Kinds
    <2>2. u \in Update
      BY <1>1, <2>1 DEF Handler, Closed, Submitting
    <2> QED
      BY <1>1, <2>2 DEF ServeInv, HandlerDocs, HandlerHolds
  <1>10. \A t \in Session : Learned(t)' = Learned(t) \cup (IF t = s \/ (t \in others /\ ~Full(t)) THEN {u} ELSE {})
    <2> SUFFICES ASSUME NEW t \in Session
                 PROVE  Learned(t)' = Learned(t) \cup (IF t = s \/ (t \in others /\ ~Full(t)) THEN {u} ELSE {})
      OBVIOUS
    <2>1. ack \in Message /\ upd \in Message /\ ack.msg = u /\ upd.msg = u /\ u # None
      BY <1>9, IdentityAssumption DEF Message
    <2>2. outbound'[t] = IF t = s THEN Append(outbound[t], ack)
                         ELSE IF t \in others /\ ~Full(t) THEN Append(outbound[t], upd) ELSE outbound[t]
      BY <1>4
    <2> HIDE DEF ack, upd, others
    <2>3. outbound[t] \in Seq(Message)
      BY Kinds
    <2>4. Msgs(Append(outbound[t], ack)) = Msgs(outbound[t]) \cup {u}
      BY <2>1, <2>3, AppendMsgs
    <2>5. Msgs(Append(outbound[t], upd)) = Msgs(outbound[t]) \cup {u}
      BY <2>1, <2>3, AppendMsgs
    <2>6. Learned(t)' = view[t] \cup (Msgs(outbound'[t]) \ {None})
      BY <1>4 DEF Learned, Queued, Msgs
    <2>7. Learned(t) = view[t] \cup (Msgs(outbound[t]) \ {None})
      BY LearnedIs
    <2>8. CASE t = s
      BY <2>1, <2>2, <2>4, <2>6, <2>7, <2>8
    <2>9. CASE t # s /\ t \in others /\ ~Full(t)
      BY <2>1, <2>2, <2>5, <2>6, <2>7, <2>9
    <2>10. CASE t # s /\ ~(t \in others /\ ~Full(t))
      BY <2>2, <2>6, <2>7, <2>10
    <2> QED
      BY <2>8, <2>9, <2>10
  <1>11. Seated' /\ Learnt'
    <2>1. \A q \in RoomId : s \in room'[q].sessions => handler'[s].room = q /\ handler'[s].step \in Served
      BY <1>6, <1>7 DEF ServeInv, Seated, Served, Step, RoomOf
    <2>2. \A q \in RoomId : room'[q].state # "valid" => room'[q].sessions = {}
      BY <1>7 DEF ServeInv, Seated, SameDocs
    <2>3. \A q \in RoomId : room'[q].sessions \subseteq room[q].sessions
      BY <1>7
    <2>4. exists => \A t \in Session : Learned(t)' \subseteq Learned(t) \cup Log
      BY <1>9, <1>10
    <2> QED
      BY <1>4, <1>5, <1>6, <2>1, <2>2, <2>3, <2>4, SessionsStep DEF sameLog
  <1>12. Told'
    <2> SUFFICES ASSUME exists, NEW q \in RoomId, NEW t \in room'[q].sessions, NEW v \in Log
                 PROVE  v \in unbroadcast \cup Learned(t)' \/ Owed(q, v)'
      BY <1>4, <1>5 DEF Told, sameLog
    <2>1. q = r /\ t \in room[r].sessions /\ t \notin {w \in others : Full(w)} /\ t \in Session
      BY <1>2, <1>3, <1>7, SoleSessions, Kinds
    <2>2. Learned(t)' = Learned(t) \cup {u}
      BY <1>4, <1>10, <2>1
    <2>3. v \in unbroadcast \cup Learned(t) \/ Owed(r, v)
      BY <2>1 DEF ServeInv, Told
    <2>4. ASSUME Owed(r, v) PROVE v = u
      <3>1. PICK w \in Session : At(w, "inserted") /\ handler[w].msg = v
        BY <2>4 DEF Owed
      <3>2. w = s
        BY <1>3, <3>1 DEF Sole, Locking, At
      <3> QED
        BY <3>1, <3>2
    <2> QED
      BY <2>2, <2>3, <2>4
  <1> QED
    BY <1>5, <1>8, <1>11, <1>12 DEF ServeInv, sameLog

\* A snapshot is taken of the room's document under the lock, which is the log.
LEMMA CompactSteps ==
    ASSUME Inv, RegInv, ServeInv, NEW s \in Session, CompactCheckpoint(s) \/ CompactionDeferred(s)
    PROVE  ServeInv'
  <1>1. handler[s].step = "compacting" /\ handler[s].step \in Locking /\ ~At(s, "closed")
    BY DEF CompactCheckpoint, CompactionDeferred, At, Locking
  <1>2. PICK r \in RoomId : r = RoomOf(s)
    BY <1>1, Locked
  <1>3. Sole(s) /\ Live(r) /\ room[r].state = "valid" /\ lock[r] = s
    BY <1>1, <1>2, Locked
  <1>4. exists => room[r].doc = Log /\ room[r].cursor = Top /\ room[r].tailUpdates >= Pending
    BY <1>1, <1>2, <1>3 DEF ServeInv, RoomDocs, RoomHolds, HandlerDocs, HandlerHolds
  <1>5. /\ lock' = [lock EXCEPT ![r] = None] /\ exists' = exists /\ late' = None /\ lastCursor' = lastCursor
        /\ UNCHANGED <<slot, revoke, outbound, clientVars>>
    BY <1>2 DEF CompactCheckpoint, CompactionDeferred, registryVars, ServeInv
  <1>6. Only(s) /\ handler'[s].room = r /\ handler'[s].step = "idle"
    BY <1>1, <1>2, Moving, MovesOnly, Kinds DEF CompactCheckpoint, CompactionDeferred, Goto, RoomOf
  <1>7. \/ UNCHANGED <<base, prior, tail, receipts>> /\ room' = room
        \/ /\ exists /\ InstallCheckpoint(room[r].cursor, room[r].doc)
           /\ room' \in {room, [room EXCEPT ![r].tailUpdates = 0]}
    BY <1>2 DEF CompactCheckpoint, CompactionDeferred
  <1>8. /\ \A q \in RoomId : q # r => room'[q] = room[q]
        /\ room'[r].doc = room[r].doc /\ room'[r].cursor = room[r].cursor
        /\ room'[r].state = "valid" /\ room'[r].sessions = room[r].sessions
        /\ room'[r].tailUpdates \in {0, room[r].tailUpdates}
    BY <1>3, <1>7, Kinds DEF Room
  <1>9. /\ Tables' /\ Log' = Log /\ Top' = Top
        /\ exists => room'[r].tailUpdates >= Pending'
    <2>1. CASE UNCHANGED <<base, prior, tail, receipts>> /\ room' = room
      <3>1. Log' = Log /\ Top' = Top /\ Pending' = Pending
        BY <2>1 DEF Log, Top, Pending, Durable, RowsAfter, LatestCursor, Messages
      <3>2. Tables'
        BY <1>5, <2>1, <3>1 DEF ServeInv, Tables, Durable, RowsAfter, Messages, Replays
      <3> QED
        BY <1>4, <2>1, <3>1, <3>2
    <2>2. CASE exists /\ InstallCheckpoint(room[r].cursor, room[r].doc)
      <3>1. InstallCheckpoint(Top, Log)
        BY <1>4, <2>2
      <3>2. Tables' /\ Log' = Log /\ Top' = Top /\ Pending' = 0
        BY <1>5, <3>1, TablesInstall DEF ServeInv
      <3> QED
        BY <1>8, <3>2, Kinds
    <2> QED
      BY <1>7, <2>1, <2>2
  <1>10. NoNewReference
    BY <1>2, <1>5, <1>6 DEF NoNewReference, Referenced, Only, RoomOf
  <1>11. (exists => RoomHolds(r)') /\ HandlerHolds(s)'
    BY <1>4, <1>6, <1>8, <1>9 DEF RoomHolds, HandlerHolds, At
  <1>12. RoomDocs' /\ HandlerDocs'
    BY <1>2, <1>3, <1>5, <1>6, <1>8, <1>10, <1>11, SoleDocs
  <1>13. Seated' /\ Learnt' /\ Told'
    <2>1. \A q \in RoomId : room'[q].sessions = room[q].sessions /\ room'[q].state = room[q].state
      BY <1>3, <1>8
    <2>2. \A q \in RoomId : s \in room[q].sessions => handler'[s].room = q /\ handler'[s].step \in Served
      BY <1>2, <1>6 DEF ServeInv, Seated, Served, Step
    <2>3. \A q \in RoomId : room'[q].state # "valid" => room'[q].sessions = {}
      BY <2>1 DEF ServeInv, Seated
    <2> QED
      BY <1>1, <1>5, <1>6, <1>9, <2>1, <2>2, <2>3, SilentSessions
  <1> QED
    BY <1>5, <1>9, <1>12, <1>13 DEF ServeInv
-----------------------------------------------------------------------------
(* The rest of run_session.                                                *)

\* Presence tells nobody of an update.
LEMMA PresenceStep ==
    ASSUME Inv, RegInv, ServeInv, NEW s \in Session, RelayPresence(s)
    PROVE  ServeInv'
  <1>1. handler[s].step = "idle" /\ ~At(s, "closed")
    BY DEF RelayPresence, At
  <1>2. PICK r \in RoomId : r = RoomOf(s)
    BY <1>1, Shaped DEF Shape, RoomOf
  <1> DEFINE m == [type |-> "presence", msg |-> None]
             others == room[r].sessions \ {s}
  <1>3. /\ Queue(others, m) /\ room' = [room EXCEPT ![r].sessions = @ \ {t \in others : Full(t)}]
        /\ UNCHANGED <<storeVars, lock, handler, slot, revoke, acked, view, unbroadcast>>
    BY <1>2 DEF RelayPresence, DropSlow, registryVars, clientVars
  <1>4. sameLog /\ Tables'
    BY <1>3, TablesKept
  <1>5. Only(s) /\ handler'[s] = handler[s] /\ NoNewReference
    BY <1>3 DEF Only, NoNewReference, Referenced
  <1>6. SameDocs /\ \A q \in RoomId : room'[q].sessions \subseteq room[q].sessions
    BY <1>3, Kinds DEF SameDocs, Room
  <1>7. RoomDocs' /\ HandlerDocs'
    BY <1>1, <1>3, <1>4, <1>5, <1>6, QuietDocs
  <1>8. \A t \in Session : Learned(t)' = Learned(t)
    <2>1. m \in Message /\ m.msg = None
      BY DEF Message
    <2> HIDE DEF m, others
    <2>2. {m.msg} \ {None} = {}
      BY <2>1
    <2>3. Queue(others, m) /\ view' = view
      BY <1>3
    <2>4. \A t \in Session : Learned(t)' = Learned(t) \cup (IF t \in others /\ ~Full(t) THEN {m.msg} \ {None} ELSE {})
      BY <2>1, <2>3, QueueLearned
    <2> QED
      BY <2>2, <2>4
  <1>9. Seated' /\ Learnt'
    <2>1. \A q \in RoomId : s \in room'[q].sessions => handler'[s].room = q /\ handler'[s].step \in Served
      BY <1>5, <1>6 DEF ServeInv, Seated, RoomOf
    <2>2. \A q \in RoomId : room'[q].state # "valid" => room'[q].sessions = {}
      BY <1>6 DEF ServeInv, Seated, SameDocs
    <2> QED
      BY <1>3, <1>4, <1>5, <1>6, <1>8, <2>1, <2>2, SessionsStep DEF sameLog
  <1>10. Told'
    BY <1>1, <1>3, <1>4, <1>5, <1>6, <1>8, ToldStep, Kinds DEF sameLog
  <1> QED
    BY <1>4, <1>7, <1>9, <1>10 DEF ServeInv, sameLog

\* A message that is sent stays learned.
LEMMA SendStep ==
    ASSUME Inv, RegInv, ServeInv, NEW s \in Session, SendOutbound(s)
    PROVE  ServeInv'
  <1>1. handler[s].step = "idle" /\ ~At(s, "closed")
    BY DEF SendOutbound, At
  <1> DEFINE m == Head(outbound[s])
  <1>2. /\ outbound[s] # <<>>
        /\ acked' = (IF m.type = "ack" THEN acked \cup {m.msg} ELSE acked)
        /\ view' = [view EXCEPT ![s] = @ \cup ({m.msg} \ {None})]
        /\ outbound' = [outbound EXCEPT ![s] = Tail(@)]
        /\ UNCHANGED <<storeVars, room, lock, handler, slot, revoke, unbroadcast>>
    BY DEF SendOutbound, registryVars
  <1>3. sameLog /\ Tables'
    BY <1>2, TablesKept
  <1>4. Only(s) /\ handler'[s] = handler[s] /\ NoNewReference /\ SameDocs
    BY <1>2 DEF Only, NoNewReference, Referenced, SameDocs
  <1>5. RoomDocs' /\ HandlerDocs'
    BY <1>1, <1>2, <1>3, <1>4, QuietDocs
  <1>6. Msgs(outbound[s]) = {m.msg} \cup Msgs(Tail(outbound[s])) /\ m \in Message
    BY <1>2, TailMsgs, Kinds
  <1>7. \A t \in Session : Learned(t)' = Learned(t)
    <2> SUFFICES ASSUME NEW t \in Session PROVE Learned(t)' = Learned(t)
      OBVIOUS
    <2>1. Learned(t)' = view'[t] \cup (Msgs(outbound'[t]) \ {None})
      BY DEF Learned, Queued, Msgs
    <2>2. Learned(t) = view[t] \cup (Msgs(outbound[t]) \ {None})
      BY LearnedIs
    <2>3. /\ t = s => view'[t] = view[t] \cup ({m.msg} \ {None}) /\ outbound'[t] = Tail(outbound[t])
          /\ t # s => view'[t] = view[t] /\ outbound'[t] = outbound[t]
      <3>1. outbound \in [Session -> Seq(Message)]
        BY DEF Inv, TypeOK
      <3> QED
        BY <1>2, <3>1, Kinds
    <2> HIDE DEF m
    <2> QED
      BY <1>6, <2>1, <2>2, <2>3
  <1>8. exists => acked' \subseteq acked \cup Log
    <2>1. m.type = "ack" => m.msg \in Update
      BY <1>6 DEF Message
    <2>2. m.type = "ack" => m.msg \in Learned(s)
      <3>1. m.type = "ack" => m.msg # None
        BY <2>1, IdentityAssumption
      <3> HIDE DEF m
      <3> QED
        BY <1>6, <3>1, LearnedIs
    <2> HIDE DEF m
    <2> QED
      BY <1>2, <2>2 DEF ServeInv, Learnt
  <1>9. Seated' /\ Learnt'
    <2>1. \A q \in RoomId : s \in room'[q].sessions => handler'[s].room = q /\ handler'[s].step \in Served
      BY <1>2 DEF ServeInv, Seated, RoomOf
    <2>2. \A q \in RoomId : room'[q].state # "valid" => room'[q].sessions = {}
      BY <1>2 DEF ServeInv, Seated
    <2> QED
      BY <1>2, <1>3, <1>4, <1>7, <1>8, <2>1, <2>2, SessionsStep DEF sameLog
  <1>10. Told'
    BY <1>1, <1>2, <1>3, <1>4, <1>7, ToldStep, Kinds DEF sameLog
  <1> QED
    BY <1>3, <1>5, <1>9, <1>10 DEF ServeInv, sameLog

\* A session that ends takes what it learned with it.
LEMMA DisconnectStep ==
    ASSUME Inv, RegInv, ServeInv, NEW s \in Session, Disconnect(s)
    PROVE  ServeInv'
  <1>1. handler[s].step \in {"idle", "leaving"} /\ ~At(s, "closed")
    BY DEF Disconnect, At
  <1>2. PICK r \in RoomId : r = RoomOf(s)
    BY <1>1, Shaped DEF Shape, RoomOf
  <1>3. /\ room' = [room EXCEPT ![r].sessions = @ \ {s}]
        /\ outbound' = [outbound EXCEPT ![s] = <<>>] /\ view' = [view EXCEPT ![s] = {}]
        /\ UNCHANGED <<storeVars, lock, slot, revoke, acked, unbroadcast>>
    BY <1>2 DEF Disconnect, registryVars
  <1>4. sameLog /\ Tables'
    BY <1>3, TablesKept
  <1>5. Only(s) /\ handler'[s].room = None /\ handler'[s].step = "closed"
    <2>1. Closes(s)
      BY Closing, Kinds DEF Disconnect
    <2> QED
      BY <2>1 DEF Closes, Closed, Only
  <1>6. NoNewReference
    BY <1>3, <1>5, Shaped DEF NoNewReference, Referenced, Only, Shape
  <1>7. SameDocs /\ \A q \in RoomId : room'[q].sessions \subseteq room[q].sessions
    BY <1>3, Kinds DEF SameDocs, Room
  <1>8. RoomDocs' /\ HandlerDocs'
    BY <1>1, <1>3, <1>4, <1>5, <1>6, <1>7, QuietDocs
  <1>9. \A q \in RoomId : s \notin room'[q].sessions
    <2>1. \A q \in RoomId : s \in room[q].sessions => q = r
      BY <1>2 DEF ServeInv, Seated
    <2>2. room'[r].sessions = room[r].sessions \ {s}
      BY <1>3, Kinds DEF Room
    <2> QED
      BY <1>7, <2>1, <2>2
  <1>10. \A t \in Session : Learned(t)' \subseteq Learned(t) /\ (t # s => Learned(t)' = Learned(t))
    <2>1. outbound \in [Session -> Seq(Message)]
      BY DEF Inv, TypeOK
    <2>2. /\ outbound'[s] = <<>> /\ view'[s] = {}
          /\ \A t \in Session : t # s => outbound'[t] = outbound[t] /\ view'[t] = view[t]
      BY <1>3, <2>1, Kinds
    <2>3. Learned(s)' = {}
      BY <2>2 DEF Learned, Queued
    <2>4. \A t \in Session : t # s => Learned(t)' = Learned(t)
      BY <2>2 DEF Learned, Queued
    <2> QED
      BY <2>3, <2>4
  <1>11. Seated' /\ Learnt'
    <2>1. \A q \in RoomId : room'[q].state # "valid" => room'[q].sessions = {}
      BY <1>7 DEF ServeInv, Seated, SameDocs
    <2> QED
      BY <1>3, <1>4, <1>5, <1>7, <1>9, <1>10, <2>1, SessionsStep DEF sameLog
  <1>12. Told'
    <2>1. \A q \in RoomId : \A t \in room'[q].sessions : Learned(t)' = Learned(t)
      BY <1>7, <1>9, <1>10, Kinds
    <2> QED
      BY <1>1, <1>3, <1>4, <1>5, <1>7, <2>1, ToldStep DEF sameLog
  <1> QED
    BY <1>4, <1>8, <1>11, <1>12 DEF ServeInv, sameLog
-----------------------------------------------------------------------------
(* Membership, deletion and crash.                                         *)

\* Tables, rooms, handlers and clients as they were, but for references given up.
LEMMA StandStep ==
    ASSUME Inv, ServeInv, UNCHANGED <<storeVars, room, lock, handler, outbound, clientVars>>,
           NoNewReference
    PROVE  ServeInv'
  <1>1. sameLog /\ Tables'
    BY TablesKept
  <1>2. UNCHANGED <<acked, view, unbroadcast>>
    BY DEF clientVars
  <1>3. RoomDocs'
    BY <1>1 DEF ServeInv, RoomDocs, RoomHolds, sameLog, Live, NoNewReference
  <1>4. HandlerDocs'
    BY <1>1 DEF ServeInv, HandlerDocs, HandlerHolds, sameLog, At, RoomOf, Admissible
  <1>5. Seated'
    BY DEF ServeInv, Seated, RoomOf
  <1>6. \A t \in Session : Learned(t)' = Learned(t)
    BY <1>2 DEF Learned, Queued
  <1>7. Learnt'
    BY <1>1, <1>2, <1>6 DEF ServeInv, Learnt, sameLog
  <1>8. \A q, v : Owed(q, v)' <=> Owed(q, v)
    BY DEF Owed, At, RoomOf
  <1>9. Told'
    BY <1>1, <1>2, <1>6, <1>8, Kinds DEF ServeInv, Told, sameLog
  <1> QED
    BY <1>1, <1>3, <1>4, <1>5, <1>7, <1>9 DEF ServeInv, sameLog

\* delete_graph leaves nothing that a document could be compared with.
LEMMA DeleteStep ==
    ASSUME Inv, ServeInv, DeleteGraph
    PROVE  ServeInv'
  <1>1. /\ ~exists' /\ base' = NoCheckpoint /\ prior' = NoCheckpoint /\ tail' = {} /\ receipts' = {}
        /\ lastCursor' = lastCursor /\ late' = late
        /\ UNCHANGED <<room, handler>>
    BY DEF DeleteGraph
  <1>2. RowsAfter(base.cursor)' = {} /\ RowsAfter(prior.cursor)' = {}
    BY <1>1 DEF RowsAfter
  <1>3. lastCursor \in Nat
    BY Recorded
  <1>4. Log' = {} /\ Durable(prior)' = {} /\ Messages(tail \cup receipts)' = {}
    BY <1>1, <1>2 DEF Log, Durable, NoCheckpoint, Messages
  <1>5. Replays(base.doc, RowsAfter(base.cursor))' /\ Replays(prior.doc, RowsAfter(prior.cursor))'
    BY <1>2 DEF Replays
  <1>6. Tables'
    BY <1>1, <1>3, <1>4, <1>5 DEF Tables, NoCheckpoint
  <1>7. Seated'
    BY <1>1 DEF ServeInv, Seated, RoomOf
  <1> QED
    BY <1>1, <1>6, <1>7 DEF ServeInv, RoomDocs, HandlerDocs, Learnt, Told

\* revoke_graph closes the room of a graph that is gone.
LEMMA RevokedStep ==
    ASSUME Inv, RegInv, ServeInv, RevokeClose
    PROVE  ServeInv'
  <1>1. ~exists /\ revoke.step = "close"
    BY DEF RevokeClose, RegInv, CloseInv
  <1>2. UNCHANGED <<storeVars, handler>> /\ \/ room' = room
                                            \/ room' = [room EXCEPT ![revoke.room] = DeadRoom]
    BY DEF RevokeClose
  <1>3. sameLog /\ Tables'
    BY <1>2, TablesKept
  <1>4. \A q \in RoomId : room'[q] = room[q] \/ room'[q] = DeadRoom
    BY <1>2, Kinds
  <1>5. Seated'
    BY <1>2, <1>4 DEF ServeInv, Seated, RoomOf, DeadRoom
  <1> QED
    BY <1>1, <1>3, <1>5 DEF ServeInv, RoomDocs, HandlerDocs, Learnt, Told, sameLog

\* A crash loses rooms, sessions and what is queued, and nothing else.
LEMMA CrashedStep ==
    ASSUME Inv, ServeInv, Crash
    PROVE  ServeInv'
  <1>1. /\ \A q \in RoomId : room'[q] = DeadRoom
        /\ \A t \in Session : handler'[t] = Closed /\ outbound'[t] = <<>> /\ view'[t] = {}
        /\ UNCHANGED <<storeVars, acked>>
    BY DEF Crash
  <1>2. sameLog /\ Tables'
    BY <1>1, TablesKept
  <1>3. RoomDocs' /\ Seated' /\ Told'
    BY <1>1 DEF RoomDocs, Seated, Told, Live, DeadRoom
  <1>4. HandlerDocs'
    BY <1>1 DEF HandlerDocs, HandlerHolds, At, Closed
  <1>5. \A t \in Session : Learned(t)' = {}
    BY <1>1 DEF Learned, Queued
  <1>6. Learnt'
    BY <1>1, <1>2, <1>5 DEF ServeInv, Learnt, sameLog
  <1> QED
    BY <1>2, <1>3, <1>4, <1>6 DEF ServeInv, sameLog

LEMMA ServeStep ==
    ASSUME ~Recreate, ~LateCommit, Inv, RegInv, ServeInv, [Next]_vars
    PROVE  ServeInv'
  <1>1. CASE \E s \in Session : SessionStep(s)
    <2>1. PICK s \in Session : SessionStep(s)
      BY <1>1
    <2> QED
      BY <2>1, OpenSteps, LoadSteps, WelcomeStep, SubmitSteps, AdmitStep, RestoreStep, DiscardSteps,
         DuplicateStep, InsertStep, SlowAuthorStep, ReplyDuplicateStep, ReplyInsertedStep, CompactSteps,
         PresenceStep, SendStep, DisconnectStep DEF SessionStep
  <1>2. CASE LateCommitLands
    BY <1>2 DEF LateCommitLands, ServeInv
  <1>3. CASE \E a \in Account : RevokeMembership(a) \/ \E role \in {"editor", "viewer"} : GrantMembership(a, role)
    <2>1. UNCHANGED <<storeVars, room, slot, revoke, lock, handler, outbound, clientVars>>
      BY <1>3 DEF RevokeMembership, GrantMembership, registryVars
    <2>2. NoNewReference
      BY <2>1 DEF NoNewReference, Referenced
    <2> QED
      BY <2>1, <2>2, StandStep
  <1>4. CASE DeleteGraph
    BY <1>4, DeleteStep
  <1>5. CASE RevokeTake
    <2>1. NoNewReference
      BY <1>5, Shaped DEF RevokeTake, NoNewReference, Referenced, Shape
    <2> QED
      BY <1>5, <2>1, StandStep DEF RevokeTake
  <1>6. CASE RevokeClose
    BY <1>6, RevokedStep
  <1>7. CASE CreateGraph
    BY <1>7 DEF CreateGraph
  <1>8. CASE Crash
    BY <1>8, CrashedStep
  <1>9. CASE UNCHANGED vars
    <2>1. UNCHANGED <<storeVars, room, slot, revoke, lock, handler, outbound, clientVars>>
      BY <1>9 DEF vars, storeVars, clientVars
    <2>2. NoNewReference
      BY <2>1 DEF NoNewReference, Referenced
    <2> QED
      BY <2>1, <2>2, StandStep
  <1> QED
    BY <1>1, <1>2, <1>3, <1>4, <1>5, <1>6, <1>7, <1>8, <1>9 DEF Next

LEMMA ServeInit == Init => ServeInv
  <1> SUFFICES ASSUME Init PROVE ServeInv
    OBVIOUS
  <1>1. /\ base = NoCheckpoint /\ prior = NoCheckpoint /\ tail = {} /\ receipts = {} /\ lastCursor = 0
        /\ late = None /\ acked = {} /\ \A q \in RoomId : room[q] = DeadRoom
        /\ \A t \in Session : handler[t] = Closed /\ outbound[t] = <<>> /\ view[t] = {}
    BY DEF Init
  <1>2. RowsAfter(base.cursor) = {} /\ RowsAfter(prior.cursor) = {}
    BY <1>1 DEF RowsAfter
  <1>3. Log = {} /\ Durable(prior) = {} /\ Messages(tail \cup receipts) = {}
    BY <1>1, <1>2 DEF Log, Durable, NoCheckpoint, Messages
  <1>4. Replays(base.doc, RowsAfter(base.cursor)) /\ Replays(prior.doc, RowsAfter(prior.cursor))
    BY <1>2 DEF Replays
  <1>5. Tables
    BY <1>1, <1>3, <1>4 DEF Tables, NoCheckpoint
  <1>6. RoomDocs /\ Seated /\ Told
    BY <1>1 DEF RoomDocs, Seated, Told, Live, DeadRoom
  <1>7. HandlerDocs
    BY <1>1 DEF HandlerDocs, HandlerHolds, At, Closed
  <1>8. Learnt
    BY <1>1 DEF Learnt, Learned, Queued
  <1> QED
    BY <1>1, <1>5, <1>6, <1>7, <1>8 DEF ServeInv
-----------------------------------------------------------------------------
(* The theorems.  ~LateCommit: a commit whose error was reported is either *)
(* in the tables by then or never.  ~Recreate: see RegistryInvariant.        *)

\* What the server answers is in the database, and its rooms hold what is there.
THEOREM DurabilityInvariant == ~Recreate /\ ~LateCommit /\ Spec => [](Inv /\ RegInv /\ ServeInv)
  <1> SUFFICES ASSUME ~Recreate, ~LateCommit PROVE Spec => [](Inv /\ RegInv /\ ServeInv)
    OBVIOUS
  <1>1. Init => Inv /\ RegInv /\ ServeInv
    BY InitInv, RegInit, ServeInit
  <1>2. Inv /\ RegInv /\ ServeInv /\ [Next]_vars => (Inv /\ RegInv /\ ServeInv)'
    BY InvStep, RegStep, ServeStep
  <1> QED
    BY <1>1, <1>2, PTL DEF Spec

\* No Ack, broadcast or Welcome, sent or queued, tells of an update that a restart
\* of the server would not bring back (room.rs submit_update, store.rs commit_update).
THEOREM LearnedCorrect == ~Recreate /\ ~LateCommit /\ Spec => []LearnedIsDurable
  <1>1. ServeInv => LearnedIsDurable
    BY DEF ServeInv, Learnt, LearnedIsDurable, Log
  <1> QED
    BY <1>1, DurabilityInvariant, PTL

\* compact_checkpoint leaves a predecessor that reconstructs the same document,
\* after any number of compactions, failed or not.
THEOREM FallbackCorrect == ~Recreate /\ ~LateCommit /\ Spec => []FallbackComplete
  <1>1. ServeInv => FallbackComplete
    BY DEF ServeInv, Tables, FallbackComplete, Log
  <1> QED
    BY <1>1, DurabilityInvariant, PTL

\* Reconstruction from either checkpoint cannot fail on the data (load_graph,
\* stage_recovery_update): dependencies come first, and nothing stored is malformed.
THEOREM ReconstructsCorrect == ~Recreate /\ ~LateCommit /\ Spec => []AlwaysReconstructs
  <1>1. ServeInv => AlwaysReconstructs
    BY DEF ServeInv, Tables, AlwaysReconstructs
  <1> QED
    BY <1>1, DurabilityInvariant, PTL

\* Between handlers a room that serves holds the durable document at the durable
\* cursor, although admit_update imports before the commit.
THEOREM MirrorsCorrect == ~Recreate /\ ~LateCommit /\ Spec => []RoomMirrorsStore
  <1>1. ServeInv => RoomMirrorsStore
    <2> SUFFICES ASSUME ServeInv, exists, NEW r \in RoomId, Live(r)
                 PROVE  /\ room[r].tailUpdates >= Pending
                        /\ lock[r] = None => room[r].doc = Log /\ room[r].cursor = Top
      BY DEF RoomMirrorsStore, Pending, Log, Top
    <2>1. RoomHolds(r)
      BY DEF ServeInv, RoomDocs
    <2> QED
      BY <2>1 DEF RoomHolds
  <1> QED
    BY <1>1, DurabilityInvariant, PTL

\* A session that stays in its room has been told, or has queued, every update the
\* room committed, unless its author's own queue was full (submit_update's broadcast).
THEOREM BroadcastCorrect == ~Recreate /\ ~LateCommit /\ Spec => []BroadcastComplete
  <1>1. Inv /\ RegInv /\ ServeInv => BroadcastComplete
    <2> SUFFICES ASSUME Inv, RegInv, ServeInv, exists, NEW r \in RoomId, NEW s \in room[r].sessions, lock[r] = None,
                        NEW u \in room[r].doc
                 PROVE  u \in unbroadcast \cup Learned(s)
      BY DEF BroadcastComplete
    <2>1. s \in Session /\ RoomOf(s) = r /\ room[r].state = "valid"
      BY Kinds DEF ServeInv, Seated
    <2>2. Live(r)
      BY <2>1 DEF Live, Referenced, RoomOf
    <2>3. u \in Log
      BY <2>2 DEF ServeInv, RoomDocs, RoomHolds
    <2>4. ~Owed(r, u)
      <3>1. \A t \in Session : At(t, "inserted") => lock[RoomOf(t)] = t /\ t # None
        BY Shaped DEF RegInv, LockInv, Locking, At, Shape
      <3> QED
        BY <3>1 DEF Owed
    <2> QED
      BY <2>3, <2>4 DEF ServeInv, Told
  <1> QED
    BY <1>1, DurabilityInvariant, PTL

\* Authorization is decided in the transaction that inserts: whatever was read
\* before the room lock, only a writer's admitted update becomes a row (commit_update).
THEOREM OnlyWritersCorrect == Spec => OnlyWritersCommit
  <1> DEFINE Allowed == \A row \in tail' \ tail :
                            late # None \/ \E s \in Session : /\ handler[s].msg = row.msg
                                                              /\ members[AccountOf[s]].role \in {"owner", "editor"}
  <1>1. ASSUME NEW s \in Session, SessionStep(s), late = None, NEW row \in tail' \ tail
        PROVE  handler[s].msg = row.msg /\ members[AccountOf[s]].role \in {"owner", "editor"}
    <2>1. CASE CommitInsert(s) \/ CommitFails(s)
      <3>1. tail' = tail \cup {[cursor |-> lastCursor + 1, msg |-> handler[s].msg]} /\ CanWrite(AccountOf[s])
        BY <1>1, <2>1 DEF CommitInsert, CommitFails
      <3>2. row = [cursor |-> lastCursor + 1, msg |-> handler[s].msg]
        BY <1>1, <3>1
      <3> QED
        BY <3>1, <3>2 DEF CanWrite
    <2>2. CASE CompactCheckpoint(s) \/ CompactionDeferred(s)
      <3>1. tail' \subseteq tail
        BY <2>2 DEF CompactCheckpoint, CompactionDeferred, InstallCheckpoint, RowsAfter
      <3> QED
        BY <1>1, <3>1
    <2>3. CASE ~(CommitInsert(s) \/ CommitFails(s) \/ CompactCheckpoint(s) \/ CompactionDeferred(s))
      <3>1. tail' = tail
        BY <1>1, <2>3 DEF SessionStep, storeVars, OpenSession, LoadCheckpoint, LoadTail, LoadFails, Welcome,
           WelcomeRefused, SubmitUpdate, SubmitRefused, AdmitUpdate, RestoreRoom, RestoreFails, CommitDuplicate,
           Evict, ReplyToSlowAuthor, ReplyDuplicate, ReplyInserted, RelayPresence, RecheckMembership,
           SendOutbound, Disconnect
      <3> QED
        BY <1>1, <3>1
    <2> QED
      BY <2>1, <2>2, <2>3
  <1>2. [Next]_vars => Allowed
    <2>1. ASSUME Next, NEW row \in tail' \ tail, late = None PROVE \E s \in Session : SessionStep(s)
      BY <2>1 DEF Next, LateCommitLands, GrantMembership, RevokeMembership, DeleteGraph, RevokeTake,
         RevokeClose, CreateGraph, Crash, storeVars
    <2> QED
      BY <1>1, <2>1 DEF vars
  <1>3. [Next]_vars => [Allowed]_vars
    BY <1>2
  <1> QED
    BY <1>3, PTL DEF Spec, OnlyWritersCommit
=============================================================================
