--------------------------- MODULE BlockOnceProofs ---------------------------
(***************************************************************************)
(* Proofs about BlockContent: nothing is applied twice, neither the action *)
(* that is submitted with the text nor the text itself.                    *)
(***************************************************************************)
EXTENDS BlockContentProofs
-----------------------------------------------------------------------------
(* The action submitted with the text, and the jobs a lane has once.       *)

Choice == Job("submit", TRUE)
Theirs == (Size + MaxTyped + 1)..(Size + MaxTyped + budget.foreign)

\* The action waits in the lane, is at the Worker, waits for a retry, or is over.
Once ==
    /\ core.acted \in {0, 1} /\ disk.acted \in {0, 1}
    /\ action \in {"idle", "queued", "sent", "retry"} => core.acted = 0 /\ disk.acted = 0
    /\ Choice \in Range(lane) =>
          \/ action = "queued" /\ ~(inflight # Absent /\ lane[1] = Choice)
          \/ action = "sent" /\ inflight # Absent /\ lane[1] = Choice
Tally == Unrepeated /\ Once /\ Inserts \subseteq Theirs

\* The step of a lane no insertion comes into.
Tallied == Tally' /\ Inserts' \subseteq Inserts

LEMMA InsertsFlow ==
    ASSUME NEW ran, NEW e, Flows(ran, e), \A j \in Range(e) : ~Single(j)
    PROVE  /\ Inserts' \subseteq Inserts
           /\ Choice \in Range(lane') => Choice \in Range(lane)
  <1>1. \A j \in Range(lane') : j \in Range(lane) \/ (j.kind # "insert" /\ j # Choice)
    BY DEF Flows, Single, Choice
  <1> QED
    BY <1>1 DEF Inserts, Of

LEMMA TheirsGrow ==
    ASSUME ControlInv, budget'.foreign = budget.foreign
    PROVE  Theirs' = Theirs
  BY DEF Theirs

\* What happens beside the action.
LEMMA TallyStays ==
    ASSUME Tally, NEW ran, NEW e, Flows(ran, e), \A j \in Range(e) : ~Single(j),
           core'.acted = core.acted, disk'.acted \in {disk.acted, core.acted},
           UNCHANGED <<action, inflight>>, inflight # Absent => lane'[1] = lane[1],
           budget'.foreign = budget.foreign
    PROVE  Tallied
  <1>1. Unrepeated'
    BY DEF Tally, Flows
  <1>2. Inserts' \subseteq Theirs' /\ Inserts' \subseteq Inserts
    BY InsertsFlow DEF Tally, Theirs
  <1>3. Once'
    BY InsertsFlow DEF Tally, Once, Choice, Job
  <1> QED
    BY <1>1, <1>2, <1>3 DEF Tally, Tallied

LEMMA TallyStill ==
    ASSUME Tally, UNCHANGED <<lane, action, inflight, core, disk>>, budget'.foreign = budget.foreign
    PROVE  Tallied
  <1>1. Flows({}, <<>>) /\ \A j \in Range(<<>>) : ~Single(j)
    BY StillFlows, NoText
  <1> QED
    BY <1>1, TallyStays

LEMMA TallyAppend ==
    ASSUME ControlInv, Tally, NEW j \in Jobs, ~Single(j), lane' = Append(lane, j),
           UNCHANGED <<action, inflight, core, disk>>, budget'.foreign = budget.foreign
    PROVE  Tallied
  <1>1. Flows({}, <<j>>) /\ \A k \in Range(<<j>>) : ~Single(k)
    BY ControlParts, JobFlows, SingleRange
  <1>2. inflight # Absent => lane # <<>>
    BY AtWorker
  <1>3. inflight # Absent => lane'[1] = lane[1]
    BY <1>2, ControlParts, Appended
  <1> QED
    BY <1>1, <1>3, TallyStays

LEMMA ChoiceIs ==
    /\ Choice \in Jobs /\ Single(Choice) /\ Choice.kind = "submit"
    /\ \A j \in Jobs : j = Choice <=> j.kind = "submit" /\ j.payload = TRUE
    /\ \A k, p : Single(Job(k, p)) <=> k = "insert" \/ (k = "submit" /\ p = TRUE)
  <1>1. Choice \in Jobs
    BY JobMade DEF Choice
  <1>2. Single(Choice)
    BY DEF Single, Choice
  <1>3. \A j \in Jobs : j = Choice <=> j.kind = "submit" /\ j.payload = TRUE
    BY DEF Choice, Job, Jobs
  <1>4. \A k, p : Single(Job(k, p)) <=> k = "insert" \/ (k = "submit" /\ p = TRUE)
    BY DEF Single, Job
  <1>5. Choice.kind = "submit"
    BY DEF Choice, Job
  <1> QED
    BY <1>1, <1>2, <1>3, <1>4, <1>5

LEMMA TallyRuns ==
    ASSUME ControlInv, Tally, lane # <<>>, inflight = Absent, NEW e, Follows(e), lane' = Tail(lane) \o e,
           UNCHANGED <<action, inflight>>, core'.acted = core.acted, disk' \in {disk, core', core},
           budget'.foreign = budget.foreign
    PROVE  Tallied
  <1>1. lane \in Seq(Jobs) /\ e \in Seq(Jobs)
    <2>1. \A j \in Jobs : <<j>> \in Seq(Jobs)
      OBVIOUS
    <2>2. <<>> \in Seq(Jobs)
      BY EmptySeq
    <2> QED
      BY <2>1, <2>2, ControlParts DEF Follows
  <1>2. Flows({lane[1]}, e)
    BY <1>1, TailFlows
  <1>3. \A j \in Range(e) : ~Single(j)
    <2>1. CASE e = <<>>
      BY <2>1, NoText
    <2>2. ASSUME NEW j \in Jobs, e = <<j>>, j.kind \in {"recover", "fill"} PROVE \A k \in Range(e) : ~Single(k)
      <3>1. j.kind # "insert" /\ j.kind # "submit"
        BY <2>2
      <3>2. ~Single(j)
        BY <3>1, ChoiceIs DEF Single, Choice
      <3> QED
        BY <2>2, <3>2, SingleRange
    <2> QED
      BY <2>1, <2>2 DEF Follows
  <1>4. disk'.acted \in {disk.acted, core.acted}
    OBVIOUS
  <1> QED
    BY <1>2, <1>3, <1>4, TallyStays

LEMMA TallyPasses ==
    ASSUME ControlInv, Tally, lane # <<>>, inflight = Absent, lane' = Tail(lane),
           UNCHANGED <<action, inflight, core>>, disk' \in {disk, core}, budget'.foreign = budget.foreign
    PROVE  Tallied
  <1>1. Follows(<<>>) /\ lane' = Tail(lane) \o <<>>
    BY ControlParts, NothingFollows
  <1> QED
    BY <1>1, TallyRuns

\* A job that failed: the action it had with it is not submitted again.
LEMMA TallyFails ==
    ASSUME ControlInv, Tally, lane # <<>>, inflight = Absent, JobFails, budget'.foreign = budget.foreign
    PROVE  Tallied
  <1>1. /\ UNCHANGED <<core, disk, inflight>> /\ lane' = Tail(lane)
        /\ action' = IF Head1.kind = "submit" /\ Head1.payload THEN "dropped" ELSE action
    BY DEF JobFails
  <1>2. Head1 = lane[1] /\ Head1 \in Jobs /\ lane \in Seq(Jobs)
    BY ControlParts, LaneIs
  <1>3. CASE action' = action
    BY <1>1, <1>3, TallyPasses
  <1>4. CASE action' # action
    <2>1. Head1.kind = "submit" /\ Head1.payload = TRUE /\ action' = "dropped"
      BY <1>1, <1>2, <1>4, JobHolds
    <2>2. lane[1] = Choice
      BY <1>2, <2>1 DEF Choice, Job, Jobs
    <2>3. Flows({lane[1]}, <<>>) /\ \A j \in Range(<<>>) : ~Single(j)
      BY <1>1, <1>2, RunFlows, NoText
    <2>4. Unrepeated' /\ Choice \notin Range(lane')
      BY <2>2, <2>3 DEF Tally, Flows, Single, Choice
    <2>5. Once'
      BY <1>1, <2>1, <2>4 DEF Tally, Once, Choice, Job
    <2>6. Inserts' \subseteq Theirs' /\ Inserts' \subseteq Inserts
      BY <2>3, InsertsFlow DEF Tally, Theirs
    <2> QED
      BY <2>4, <2>5, <2>6 DEF Tally, Tallied
  <1> QED
    BY <1>3, <1>4
-----------------------------------------------------------------------------
LEMMA TallyJob ==
    ASSUME ControlInv, Tally, NEW k, NEW p, Job(k, p) \in Jobs, k # "insert", k # "submit",
           lane' = Append(lane, Job(k, p)),
           UNCHANGED <<action, inflight, core, disk>>, budget'.foreign = budget.foreign
    PROVE  Tallied
  BY ChoiceIs, TallyAppend

LEMMA TallyFlush ==
    ASSUME ControlInv, Tally, flush,
           UNCHANGED <<action, inflight, core, disk>>, budget'.foreign = budget.foreign
    PROVE  Tallied
  <1>1. CASE UNCHANGED lane
    BY <1>1, TallyStill
  <1>2. CASE lane' = Append(lane, Job("submit", FALSE))
    <2>1. PICK p \in BOOLEAN : p = FALSE
      OBVIOUS
    <2>2. Job("submit", p) \in Jobs /\ ~Single(Job("submit", p))
      BY <2>1, JobMade, ChoiceIs
    <2> QED
      BY <1>2, <2>1, <2>2, TallyAppend
  <1> QED
    BY <1>1, <1>2 DEF flush, Enqueue

LEMMA TypeThrifty ==
    ASSUME ControlInv, Type
    PROVE  budget'.foreign = budget.foreign /\ budget'.typed = budget.typed + 1 /\ budget.typed < MaxTyped
  <1>1. budget' = [budget EXCEPT !["typed"] = @ + 1] /\ budget["typed"] < MaxTyped
    BY DEF Type, Spend
  <1>2. TypeOK
    BY ControlParts
  <1> QED
    BY <1>1, <1>2 DEF TypeOK

LEMMA SurfaceTally ==
    ASSUME ControlInv, Tally, ~Races, Surface \/ flushTimer
    PROVE  Tallied
  <1>1. budget'.foreign = budget.foreign
    BY SurfaceThrifty, TypeThrifty DEF Thrifty
  <1>2. CASE observe \/ Type \/ Erase \/ closeMenu \/ compositionStart \/ compositionEnd \/ stageDraftSplice
    <2>1. UNCHANGED <<lane, action, inflight, core, disk>>
      BY <1>2 DEF observe, Type, Erase, closeMenu, compositionStart, compositionEnd, stageDraftSplice,
                  onInput, graphVars, draftVars
    <2> QED
      BY <1>1, <2>1, TallyStill
  <1>3. CASE leave \/ flushTimer
    BY <1>1, <1>3, TallyFlush DEF leave, flushTimer, graphVars, draftVars
  <1>4. CASE pickerRun \/ pickerClose
    <2>1. PICK k \in {"picked", "prefix"} : lane' = Append(lane, Job(k, staged)) /\ staged # Absent /\ ~Waiting({"picked"})
                 /\ UNCHANGED <<action, inflight, core, disk>>
      BY <1>4 DEF pickerRun, pickerClose, graphVars, draftVars, Enqueue
    <2>2. Job(k, staged) \in Jobs
      BY <2>1, StagedJob
    <2> QED
      BY <1>1, <2>1, <2>2, TallyJob
  <1>5. CASE runVimWordMotion
    <2>1. PICK edited \in Buffers : lane' = Append(lane, Job("word", edited))
      BY <1>5, WordLane
    <2>2. Job("word", edited) \in Jobs
      BY JobMade DEF EarlyKind
    <2>3. UNCHANGED <<action, inflight, core, disk>>
      BY <1>5 DEF runVimWordMotion, graphVars, draftVars
    <2> QED
      BY <1>1, <2>1, <2>2, <2>3, TallyJob
  <1>6. CASE commitDraftWith
    <2>1. /\ lane' = Append(lane, Choice) /\ action = "idle" /\ action' = "queued"
          /\ UNCHANGED <<core, disk, inflight>>
      BY <1>6 DEF commitDraftWith, graphVars, Enqueue, Choice
    <2>2. Choice \notin Range(lane)
      BY <2>1 DEF Tally, Once
    <2>3. lane \in Seq(Jobs) /\ Choice \in Jobs
      BY ControlParts, ChoiceIs
    <2>4. GrownBy(Choice) /\ (lane # <<>> => lane'[1] = lane[1])
      BY <2>1, <2>3, AppendedLane, Appended
    <2>5. DOMAIN lane = 1..Len(lane) /\ Len(lane) \in Nat
      BY <2>3, LaneIs
    <2>6. Unrepeated'
      <3>1. \A i \in DOMAIN lane : lane'[i] # Choice
        BY <2>2, <2>4 DEF GrownBy, Range
      <3> QED
        BY <2>4, <3>1 DEF Unrepeated, GrownBy, Tally
    <2>7. Inserts' \subseteq Theirs' /\ Inserts' \subseteq Inserts
      <3>1. \A j \in Range(lane') : j \in Range(lane) \/ j = Choice
        BY <2>4 DEF GrownBy, Range
      <3>2. Choice.kind # "insert"
        BY ChoiceIs
      <3>3. Inserts' \subseteq Inserts
        BY <3>1, <3>2 DEF Inserts, Of
      <3> QED
        BY <1>1, <3>3, TheirsGrow DEF Tally, Tallied
    <2>8. inflight' # Absent => lane'[1] # Choice
      <3>1. inflight # Absent => lane # <<>> /\ 1 \in DOMAIN lane
        BY AtWorker, <2>3, LaneIs
      <3> QED
        BY <2>1, <2>2, <2>4, <3>1 DEF Range
    <2>9. Once'
      BY <2>1, <2>8 DEF Tally, Once, Choice, Job
    <2> QED
      BY <2>6, <2>7, <2>9 DEF Tally, Tallied
  <1> QED
    BY <1>2, <1>3, <1>4, <1>5, <1>6 DEF Surface
-----------------------------------------------------------------------------
LEMMA TallySubmitted ==
    ASSUME ControlInv, Tally, inflight # Absent, inflight' = Absent, lane' = Tail(lane),
           budget'.foreign = budget.foreign,
           \/ UNCHANGED <<core, disk>> /\ action' = IF action = "sent" THEN "retry" ELSE action
           \/ /\ core'.acted = IF action = "sent" THEN core.acted + 1 ELSE core.acted
              /\ disk'.acted \in {disk.acted, core'.acted}
              /\ action' = IF action = "sent" THEN "applied" ELSE action
    PROVE  Tallied
  <1>1. lane \in Seq(Jobs) /\ lane # <<>>
    BY ControlParts, AtWorker
  <1>2. Flows({lane[1]}, <<>>) /\ \A j \in Range(<<>>) : ~Single(j)
    BY <1>1, RunFlows, NoText
  <1>3. Unrepeated' /\ (lane[1] # Choice \/ Choice \notin Range(lane'))
    BY <1>2, ChoiceIs DEF Tally, Flows
  <1>4. Inserts' \subseteq Theirs' /\ Inserts' \subseteq Inserts /\ (Choice \in Range(lane') => Choice \in Range(lane))
    BY <1>2, InsertsFlow DEF Tally, Theirs
  <1>5. Choice \in Range(lane') => action = "queued"
    BY <1>3, <1>4 DEF Tally, Once
  <1>6. /\ core.acted \in {0, 1} /\ disk.acted \in {0, 1}
        /\ action \in {"idle", "queued", "sent", "retry"} => core.acted = 0 /\ disk.acted = 0
    BY DEF Tally, Once
  <1>7. /\ core'.acted \in {0, 1} /\ disk'.acted \in {0, 1}
        /\ action' \in {"idle", "queued", "sent", "retry"} => core'.acted = 0 /\ disk'.acted = 0
    <2>1. CASE UNCHANGED <<core, disk>> /\ action' = IF action = "sent" THEN "retry" ELSE action
      BY <1>6, <2>1
    <2>2. CASE /\ core'.acted = IF action = "sent" THEN core.acted + 1 ELSE core.acted
               /\ disk'.acted \in {disk.acted, core'.acted}
               /\ action' = IF action = "sent" THEN "applied" ELSE action
      BY <1>6, <2>2
    <2> QED
      BY <2>1, <2>2
  <1>8. action = "queued" => action' = "queued"
    OBVIOUS
  <1>9. Choice' = Choice
    BY DEF Choice, Job
  <1>10. Once'
    BY <1>5, <1>7, <1>8, <1>9 DEF Once
  <1> QED
    BY <1>3, <1>4, <1>10 DEF Tally, Tallied

LEMMA submitSavedTally ==
    ASSUME ControlInv, Tally, ~Races, submitSaved
    PROVE  Tallied
  <1>1. PICK saved \in BOOLEAN, r \in Buffers : \E d :
              /\ inflight # Absent /\ Accepted /\ Reached(Submitted, saved)
              /\ action' = IF action = "sent" THEN "applied" ELSE action
              /\ inflight' = Absent /\ lane' = Tail(lane)
    BY submitSavedCases
  <1>2. Submitted.acted = IF action = "sent" THEN core.acted + 1 ELSE core.acted
    BY <1>1, SubmittedHolds
  <1>3. core' = Submitted /\ disk' \in {disk, Submitted}
    BY <1>1 DEF Reached
  <1>4. budget'.foreign = budget.foreign
    BY LaneThrifty DEF Lane, Thrifty
  <1> QED
    BY <1>1, <1>2, <1>3, <1>4, TallySubmitted

LEMMA submitUnpublishedTally ==
    ASSUME ControlInv, Tally, ~Races, submitUnpublished
    PROVE  Tallied
  <1>1. /\ inflight # Absent /\ Accepted /\ Reached(Submitted, TRUE) /\ inflight' = Absent /\ lane' = Tail(lane)
        /\ action' = IF action = "sent" THEN "applied" ELSE action
    BY DEF submitUnpublished
  <1>2. Submitted.acted = IF action = "sent" THEN core.acted + 1 ELSE core.acted
    BY <1>1, SubmittedHolds
  <1>3. core' = Submitted /\ disk' \in {disk, Submitted}
    BY <1>1 DEF Reached
  <1>4. budget'.foreign = budget.foreign
    BY LaneThrifty DEF Lane, Thrifty
  <1> QED
    BY <1>1, <1>2, <1>3, <1>4, TallySubmitted

LEMMA submitRefusedTally ==
    ASSUME ControlInv, Tally, submitRefused
    PROVE  Tallied
  BY submitRefusedCases, TallySubmitted

LEMMA submitPrepareTally ==
    ASSUME ControlInv, Tally, submitPrepare
    PROVE  Tallied
  <1>1. /\ lane # <<>> /\ lane[1].kind = "submit" /\ Head1 = lane[1] /\ inflight = Absent
        /\ UNCHANGED <<core, disk, budget>> /\ lane \in Seq(Jobs)
    BY submitPrepareCases, ControlParts
  <1>2. CASE JobFails
    BY <1>1, <1>2, TallyFails
  <1>3. CASE lane' = Tail(lane) /\ UNCHANGED <<inflight, action>>
    BY <1>1, <1>3, TallyPasses
  <1>4. CASE /\ inflight' # Absent /\ UNCHANGED lane
             /\ action' = IF Head1.payload \/ action = "retry" THEN "sent" ELSE action
    <2>1. lane[1] \in Range(lane) /\ lane[1] \in Jobs
      BY <1>1, LaneIs DEF Range
    <2>2. lane[1].payload \in BOOLEAN
      BY <1>1, <2>1, JobHolds
    <2>3. Choice' = Choice /\ Theirs' = Theirs /\ Inserts' = Inserts /\ Unrepeated' = Unrepeated
      BY <1>1, <1>4 DEF Choice, Job, Theirs, Inserts, Of, Unrepeated
    <2>4. CASE lane[1].payload = TRUE
      <3>1. lane[1] = Choice
        BY <1>1, <2>1, <2>4, ChoiceIs
      <3>2. action = "queued"
        BY <1>1, <2>1, <3>1 DEF Tally, Once
      <3>3. action' = "sent"
        BY <1>1, <1>4, <2>4
      <3>4. Once'
        BY <1>1, <1>4, <2>3, <3>1, <3>2, <3>3 DEF Tally, Once
      <3> QED
        BY <2>3, <3>4 DEF Tally, Tallied
    <2>5. CASE lane[1].payload = FALSE
      <3>1. lane[1] # Choice
        BY <1>1, <2>1, <2>5, ChoiceIs
      <3>2. action' = IF action = "retry" THEN "sent" ELSE action
        BY <1>1, <1>4, <2>5
      <3>3. Choice \in Range(lane) => action = "queued"
        BY <1>1 DEF Tally, Once
      <3>4. Once'
        BY <1>1, <1>4, <2>3, <3>1, <3>2, <3>3 DEF Tally, Once
      <3> QED
        BY <2>3, <3>4 DEF Tally, Tallied
    <2> QED
      BY <2>2, <2>4, <2>5
  <1>5. target \in Buffers => target # Absent
    BY AbsentIsNoData
  <1> QED
    BY <1>2, <1>3, <1>4, <1>5, submitPrepareCases
-----------------------------------------------------------------------------
LEMMA TallyExecuted ==
    ASSUME ControlInv, Tally, inflight = Absent, lane # <<>>, NEW document, NEW own, NEW saved, NEW ok \in BOOLEAN,
           NEW d, Executed(document, own, <<>>, saved, ok, d), document.acted = core.acted,
           budget'.foreign = budget.foreign
    PROVE  Tallied
  <1>1. PICK e : Follows(e) /\ lane' = Tail(lane) \o e
    BY ExecutedLane
  <1>2. core' = document /\ disk' \in {disk, core'} /\ UNCHANGED <<action, inflight>>
    BY DEF Executed, Reached
  <1> QED
    BY <1>1, <1>2, TallyRuns

LEMMA TallyHeir ==
    ASSUME ControlInv, Tally, inflight = Absent, lane # <<>>, NEW document, NEW e, Follows(e), NEW saved, NEW ok,
           NEW d, HeirExecuted(document, e, saved, ok, d), document.acted = core.acted,
           budget'.foreign = budget.foreign
    PROVE  Tallied
  <1>1. core' = document /\ disk' \in {disk, core'} /\ UNCHANGED <<action, inflight>> /\ lane' = Tail(lane) \o e
    BY DEF HeirExecuted, Reached
  <1> QED
    BY <1>1, TallyRuns

LEMMA ensureCurrentTally ==
    ASSUME ControlInv, Tally, ~Races, ensureCurrent
    PROVE  Tallied
  <1>1. budget'.foreign = budget.foreign
    BY LaneThrifty DEF Lane, Thrifty
  <1>2. lane # <<>> /\ inflight = Absent /\ lane \in Seq(Jobs)
    BY ensureCurrentCases, ControlParts
  <1>3. ASSUME NEW d, lane' = lane \o Recovery(d), UNCHANGED <<core, disk, inflight, action>>
        PROVE  Tallied
    <2>1. CASE Recovery(d) = <<>>
      <3>1. lane' = lane
        BY <1>2, <1>3, <2>1
      <3> QED
        BY <1>1, <1>3, <3>1, TallyStill
    <2>2. CASE Recovery(d) = <<Job("recover", Absent)>>
      <3>1. PICK j \in Jobs : j = Job("recover", Absent)
        BY JobMade
      <3>2. lane' = Append(lane, j)
        BY <1>2, <1>3, <2>2, <3>1
      <3>3. ~Single(j)
        BY <3>1, ChoiceIs
      <3> QED
        BY <1>1, <1>3, <3>2, <3>3, TallyAppend
    <2> QED
      BY <2>1, <2>2 DEF Recovery
  <1>4. CASE JobFails
    BY <1>1, <1>2, <1>4, TallyFails
  <1> QED
    BY <1>3, <1>4, ensureCurrentCases

LEMMA LaneTally ==
    ASSUME ControlInv, Tally, ~Races, Lane
    PROVE  Tallied
  <1>1. budget'.foreign = budget.foreign
    BY LaneThrifty DEF Thrifty
  <1>2. CASE applyRemote
    <2>1. lane # <<>> /\ inflight = Absent /\ Head1 \in Jobs /\ Head1.kind \in RemoteKind /\ TypeOK
      BY <1>2, applyRemoteCases, ControlParts
    <2>2. CASE lane' = Tail(lane) /\ UNCHANGED <<core, disk, inflight, action>>
      BY <1>1, <2>1, <2>2, TallyPasses
    <2>3. ASSUME NEW document \in Imported(Head1), NEW saved \in BOOLEAN, NEW ok \in BOOLEAN, NEW d,
                 core.block # Absent, Executed(document, FALSE, <<>>, saved, ok, d)
          PROVE  Tallied
      <3>1. document.acted = core.acted
        BY <2>1, <2>3, ImportedHolds
      <3> QED
        BY <1>1, <2>1, <2>3, <3>1, TallyExecuted
    <2> QED
      BY <1>2, <2>2, <2>3, applyRemoteCases
  <1>3. CASE executeLocal
    <2>1. lane # <<>> /\ inflight = Absent
      BY <1>3, executeLocalCases
    <2>2. CASE JobFails
      BY <1>1, <2>1, <2>2, TallyFails
    <2>3. ASSUME LocalDocument.acted = core.acted, NEW saved \in BOOLEAN, NEW ok \in BOOLEAN, NEW d,
                 Executed(LocalDocument, TRUE, <<>>, saved, ok, d)
          PROVE  Tallied
      BY <1>1, <2>1, <2>3, TallyExecuted
    <2> QED
      BY <1>3, <2>2, <2>3, executeLocalCases
  <1>4. CASE executeSplices
    <2>1. lane # <<>> /\ inflight = Absent /\ EarlyDocument.acted = core.acted
      BY <1>4, executeSplicesCases
    <2>2. PICK saved \in BOOLEAN : \E d : Executed(EarlyDocument, TRUE, <<>>, saved, TRUE, d)
      BY <1>4, executeSplicesCases
    <2>3. PICK ok \in BOOLEAN : ok = TRUE
      OBVIOUS
    <2>4. PICK d : Executed(EarlyDocument, ok, <<>>, saved, ok, d)
      BY <2>2, <2>3
    <2> QED
      BY <1>1, <2>1, <2>4, TallyExecuted
  <1>5. CASE restoreUnsaved
    <2>1. lane # <<>> /\ inflight = Absent /\ core \in Docs
      BY <1>5, restoreUnsavedCases, ControlParts DEF TypeOK
    <2>2. CASE lane' = Tail(lane) /\ UNCHANGED <<core, disk, inflight, action>>
      BY <1>1, <2>1, <2>2, TallyPasses
    <2>3. ASSUME NEW saved \in BOOLEAN, NEW ok \in BOOLEAN, NEW d,
                 Executed(RestoredDocument, TRUE, <<>>, saved, ok, d)
          PROVE  Tallied
      <3>1. RestoredDocument.acted = core.acted
        BY <2>1 DEF RestoredDocument, Docs
      <3> QED
        BY <1>1, <2>1, <2>3, <3>1, TallyExecuted
    <2> QED
      BY <1>5, <2>2, <2>3, restoreUnsavedCases
  <1>6. CASE recover
    <2>1. lane # <<>> /\ inflight = Absent /\ core \in Docs /\ TypeOK
      BY <1>6, recoverCases, ControlParts DEF TypeOK
    <2>2. CASE lane' = Tail(lane) /\ UNCHANGED <<core, disk, inflight, action>>
      BY <1>1, <2>1, <2>2, TallyPasses
    <2>3. ASSUME NEW saved \in BOOLEAN, NEW ok \in BOOLEAN, NEW e, NEW d, buf # Absent,
                 e = IF ok THEN FillJob ELSE <<>>, HeirExecuted(NewBlock, e, saved, ok, d)
          PROVE  Tallied
      <3>1. NewBlock.acted = core.acted
        BY <2>1 DEF NewBlock, Docs
      <3>2. buf.visible \in Texts
        BY <2>1, <2>3, BufferHolds DEF TypeOK
      <3>3. Job("fill", buf.visible) \in Jobs /\ Job("fill", buf.visible).kind = "fill"
        BY <3>2, JobMade, JobIs
      <3>4. e = <<>> \/ e = <<Job("fill", buf.visible)>>
        BY <2>3 DEF FillJob
      <3>5. Follows(e)
        BY <3>3, <3>4 DEF Follows
      <3> QED
        BY <1>1, <2>1, <2>3, <3>1, <3>5, TallyHeir
    <2> QED
      BY <1>6, <2>2, <2>3, recoverCases
  <1>7. CASE fillRecovered
    <2>1. lane # <<>> /\ inflight = Absent /\ FilledBlock.acted = core.acted
      BY <1>7, fillRecoveredCases
    <2>2. PICK saved, ok \in BOOLEAN : \E d : HeirExecuted(FilledBlock, <<>>, saved, ok, d)
      BY <1>7, fillRecoveredCases
    <2>3. PICK d : HeirExecuted(FilledBlock, <<>>, saved, ok, d)
      BY <2>2
    <2>4. Follows(<<>>)
      BY DEF Follows
    <2> QED
      BY <1>1, <2>1, <2>3, <2>4, TallyHeir
  <1>8. CASE refuseJob
    BY <1>1, <1>8, TallyFails DEF refuseJob
  <1>9. CASE retryNow
    BY <1>1, <1>9, TallyPasses DEF retryNow, Running, draftVars
  <1> QED
    BY <1>2, <1>3, <1>4, <1>5, <1>6, <1>7, <1>8, <1>9, ensureCurrentTally, submitPrepareTally,
       submitSavedTally, submitUnpublishedTally, submitRefusedTally DEF Lane
-----------------------------------------------------------------------------
\* An atom of another replica: one nobody has had.
LEMMA ForeignAtom ==
    ASSUME ControlInv, NEW a, a = Size + MaxTyped + budget.foreign + 1
    PROVE  /\ a \in Nat /\ a \notin Theirs
           /\ budget'.foreign = budget.foreign + 1 => Theirs' = Theirs \cup {a}
  <1>1. budget.foreign \in Nat /\ Size \in Nat /\ MaxTyped \in Nat
    <2>1. TypeOK
      BY ControlParts
    <2> QED
      BY <2>1, BoundAssumption DEF TypeOK
  <1> QED
    BY <1>1 DEF Theirs

\* An insertion of another replica comes into the lane.
Arrived == /\ budget'.foreign = budget.foreign + 1
           /\ Inserts' \subseteq Inserts \cup {Size + MaxTyped + budget.foreign + 1}

LEMMA ArrivesTally ==
    ASSUME ControlInv, Tally, remoteArrives
    PROVE  Tally' /\ (Tallied \/ Arrived)
  <1>1. UNCHANGED <<core, disk, action, inflight>>
    BY DEF remoteArrives, graphVars, draftVars
  <1>2. ASSUME NEW kind \in {"delete", "remove"}, Enqueue(Job(kind, Absent)), budget'.foreign = budget.foreign
        PROVE  Tallied
    <2>1. Job(kind, Absent) \in Jobs
      BY JobMade
    <2>2. lane' = Append(lane, Job(kind, Absent))
      BY <1>2 DEF Enqueue
    <2> QED
      BY <1>1, <1>2, <2>1, <2>2, TallyJob
  <1>3. ASSUME budget'.foreign = budget.foreign + 1,
               Enqueue(Job("insert", Size + MaxTyped + budget.foreign + 1))
        PROVE  Tally' /\ Arrived
    <2>1. PICK a : a = Size + MaxTyped + budget.foreign + 1
      OBVIOUS
    <2>2. a \in Nat /\ a \notin Theirs /\ Theirs' = Theirs \cup {a}
      BY <1>3, <2>1, ForeignAtom
    <2>3. PICK j \in Jobs : j = Job("insert", a)
      BY <2>2, JobMade
    <2>4. lane' = Append(lane, j) /\ lane \in Seq(Jobs) /\ j.kind = "insert" /\ j.payload = a
      BY <1>3, <2>1, <2>3, ControlParts, JobIs DEF Enqueue
    <2>5. GrownBy(j) /\ (lane # <<>> => lane'[1] = lane[1])
      BY <2>4, AppendedLane, Appended
    <2>6. j \notin Range(lane)
      BY <2>2, <2>4 DEF Tally, Inserts, Of
    <2>7. Unrepeated'
      <3>1. \A i \in DOMAIN lane : lane'[i] # j
        BY <2>5, <2>6 DEF GrownBy, Range
      <3>2. DOMAIN lane = 1..Len(lane) /\ Len(lane) \in Nat
        BY <2>4, LaneIs
      <3> QED
        BY <2>5, <3>1, <3>2 DEF Unrepeated, GrownBy, Tally
    <2>8. \A k \in Range(lane') : k \in Range(lane) \/ k = j
      BY <2>5 DEF GrownBy, Range
    <2>9. Inserts' \subseteq Theirs' /\ Inserts' \subseteq Inserts \cup {a}
      <3>1. Inserts' \subseteq Inserts \cup {a}
        BY <2>4, <2>8 DEF Inserts, Of
      <3> QED
        BY <2>2, <3>1 DEF Tally
    <2>10. j # Choice
      BY <2>4, ChoiceIs
    <2>11. inflight # Absent => lane # <<>>
      BY AtWorker
    <2>12. Choice' = Choice
      BY DEF Choice, Job
    <2>13. Once'
      BY <1>1, <2>5, <2>8, <2>10, <2>11, <2>12 DEF Tally, Once
    <2> QED
      BY <1>3, <2>1, <2>7, <2>9, <2>13 DEF Tally, Arrived
  <1> QED
    BY <1>2, <1>3, ArrivesThrifty DEF Tallied

LEMMA WorldTally ==
    ASSUME ControlInv, Tally, ~Races, World
    PROVE  remoteArrives \/ Tallied
  <1>2. CASE localArrives
    <2>1. UNCHANGED <<core, disk, action, inflight>> /\ budget'.foreign = budget.foreign
      BY <1>2, SpendThrifty DEF localArrives, graphVars, draftVars, Thrifty
    <2>2. PICK change \in {"remove", "undo"} : lane' = Append(lane, Job("local", change))
      BY <1>2 DEF localArrives, Enqueue
    <2>3. Job("local", change) \in Jobs
      BY JobMade
    <2> QED
      BY <2>1, <2>2, <2>3, TallyJob
  <1>3. CASE retry
    <2>1. UNCHANGED <<core, disk, action, inflight, budget>> /\ lane' = Append(lane, Job("save", Absent))
      BY <1>3 DEF retry, graphVars, draftVars, Enqueue
    <2>2. Job("save", Absent) \in Jobs
      BY JobMade
    <2> QED
      BY <2>1, <2>2, TallyJob
  <1>4. CASE hide
    <2>1. UNCHANGED <<core, disk, action, inflight, budget>> /\ (flush \/ UNCHANGED lane)
      BY <1>4 DEF hide, graphVars, draftVars
    <2> QED
      BY <2>1, TallyFlush, TallyStill
  <1>5. CASE show
    BY <1>5, TallyStill DEF show, graphVars, draftVars
  <1>6. CASE discard
    <2>1. /\ core' = disk' /\ inflight' = Absent /\ Inserts' = {}
          /\ disk' = disk \/ (inflight # Absent /\ Accepted /\ disk' = Submitted)
          /\ action' = IF action \in {"queued", "sent", "retry"} THEN "dropped" ELSE action
          /\ lane' = IF page.kept = Absent THEN <<>> ELSE <<Job("resume", page.kept)>>
      BY <1>6, Discarded
    <2>2. core.acted \in {0, 1} /\ disk.acted \in {0, 1} /\ (action = "sent" => core.acted = 0)
          /\ (action = "idle" => disk.acted = 0 /\ core.acted = 0)
      BY DEF Tally, Once
    <2>3. inflight # Absent /\ Accepted => Submitted.acted = IF action = "sent" THEN core.acted + 1 ELSE core.acted
      BY SubmittedHolds
    <2>4. disk'.acted \in {0, 1} /\ (action = "idle" => disk'.acted = 0)
      <3>1. CASE disk' = disk
        BY <2>2, <3>1
      <3>2. CASE inflight # Absent /\ Accepted /\ disk' = Submitted
        BY <2>2, <2>3, <3>2
      <3> QED
        BY <2>1, <3>1, <3>2
    <2>5. action' \in {"idle", "queued", "sent", "retry"} => action = "idle"
      BY <2>1
    <2>6. PICK j : j = Job("resume", page.kept)
      OBVIOUS
    <2>7. j # Choice
      BY <2>6, JobIs, ChoiceIs
    <2>8. Range(lane') \subseteq {j} /\ \A i \in DOMAIN lane' : i = 1
      <3>1. CASE lane' = <<>>
        BY <3>1, NoText DEF Range
      <3>2. CASE lane' = <<j>>
        BY <3>2, SingleRange
      <3> QED
        BY <2>1, <2>6, <3>1, <3>2
    <2>9. Unrepeated' /\ Choice' \notin Range(lane')
      <3>1. Choice' = Choice
        BY DEF Choice, Job
      <3> QED
        BY <2>7, <2>8, <3>1 DEF Unrepeated
    <2>10. Once'
      BY <2>1, <2>4, <2>5, <2>9 DEF Once
    <2> QED
      BY <2>1, <2>9, <2>10 DEF Tally, Tallied
  <1> QED
    BY <1>2, <1>3, <1>4, <1>5, <1>6 DEF World

LEMMA NextTally ==
    ASSUME ControlInv, Tally, ~Races, Next
    PROVE  Tally'
  BY SurfaceTally, LaneTally, WorldTally, ArrivesTally DEF Next, Tallied

LEMMA InitTally ==
    ASSUME Init
    PROVE  Tally
  <1>1. lane = <<>> /\ core = Doc(Original) /\ disk = Doc(Original)
    BY DEF Init
  <1>2. Range(lane) = {} /\ DOMAIN lane = {} /\ core.acted = 0 /\ disk.acted = 0
    BY <1>1, NoText DEF Doc
  <1>3. Inserts = {}
    BY <1>1, NoJobsYet
  <1> QED
    BY <1>2, <1>3 DEF Tally, Once, Unrepeated

LEMMA IdleTally ==
    ASSUME Tally, UNCHANGED vars
    PROVE  Tally'
  <1>1. UNCHANGED <<lane, action, inflight, core, disk, budget>>
    BY DEF vars
  <1> QED
    BY <1>1, TallyStill DEF Tallied
-----------------------------------------------------------------------------
(* No atom is twice in a text.                                             *)

Ours == 1..(Size + budget.typed)
Known == Ours \cup Theirs
Distinct(s) == s # Absent => IsInjective(s)

\* What a draft, a submission or an early edit puts in is typed, and nowhere else.
Sound(b) ==
    /\ b # Absent => IsInjective(b.source) /\ IsInjective(b.visible)
    /\ Visible(b) \cup Source(b) \subseteq Known
    /\ New(b) \subseteq Ours
    /\ New(b) \cap (landed \cup ResumeAtoms) = {}

Written == /\ Distinct(core.block) /\ Distinct(core.removed) /\ Distinct(seen)
           /\ Distinct(disk.block) /\ Distinct(disk.removed)
Drafted == \A b \in Lowered : Sound(b)
Stored == \A k \in Kept : IsInjective(k.content)
\* What is typed after an edit was lowered is not in that edit.
Apart == New(buf) \cap (EarlyAtoms \cup Visible(staged)) = {}
Numbered == landed \cup KeptAtoms \cup ResumeAtoms \subseteq Known /\ budget.typed <= MaxTyped
\* An insertion that waits is not in the text yet.
Fresh == Inserts \cap (landed \cup ResumeAtoms) = {}
Unique == Written /\ Drafted /\ Stored /\ Apart /\ Numbered /\ Fresh

LEMMA SoundAbsent == Sound(Absent) /\ Distinct(Absent)
  BY NoText2 DEF Sound, Distinct

LEMMA SoundDrafts ==
    ASSUME Unique
    PROVE  /\ Sound(buf) /\ Sound(inflight) /\ Sound(staged) /\ \A b \in Early : Sound(b)
           /\ New(buf) \cap EarlyAtoms = {} /\ New(buf) \cap Visible(staged) = {}
  BY DEF Unique, Drafted, Lowered, Apart

LEMMA SameNumbers ==
    ASSUME Thrifty
    PROVE  Ours' = Ours /\ Theirs' = Theirs /\ Known' = Known
  BY DEF Thrifty, Ours, Theirs, Known

LEMMA OursAndTheirs ==
    ASSUME ControlInv, Unique
    PROVE  Ours \cap Theirs = {} /\ Ours \subseteq Known /\ Theirs \subseteq Known
  <1>1. budget.foreign \in Nat /\ budget.typed \in Nat /\ Size \in Nat /\ MaxTyped \in Nat
    <2>1. TypeOK
      BY ControlParts
    <2> QED
      BY <2>1, BoundAssumption DEF TypeOK
  <1> QED
    BY <1>1 DEF Ours, Theirs, Known, Unique, Numbered

\* Records and the jobs that put them back only go away.
LEMMA KeptUnique ==
    ASSUME Unique, page'.kept \in {page.kept, Absent}, Resumes' \subseteq Resumes
    PROVE  Stored' /\ ResumeAtoms' \subseteq ResumeAtoms /\ KeptAtoms' \subseteq KeptAtoms
  <1>1. Kept' \subseteq Kept
    BY DEF Kept
  <1>2. Stored'
    BY <1>1 DEF Unique, Stored
  <1>3. ResumeAtoms' \subseteq ResumeAtoms /\ KeptAtoms' \subseteq KeptAtoms
    BY DEF ResumeAtoms, KeptAtoms
  <1> QED
    BY <1>2, <1>3

\* Only drafts change.
LEMMA DraftUnique ==
    ASSUME Unique, Thrifty, UNCHANGED <<core, seen, landed>>, disk' \in {disk, core},
           \A b \in {buf', inflight', staged'} \cup Early' : Sound(b),
           New(buf') \cap (EarlyAtoms' \cup Visible(staged')) = {},
           page'.kept \in {page.kept, Absent}, Resumes' \subseteq Resumes, Inserts' \subseteq Inserts
    PROVE  Unique'
  <1>1. Stored' /\ ResumeAtoms' \subseteq ResumeAtoms /\ KeptAtoms' \subseteq KeptAtoms
    BY KeptUnique
  <1>2. Ours' = Ours /\ Known' = Known /\ budget'.typed = budget.typed
    BY SameNumbers DEF Thrifty
  <1>3. Written'
    BY DEF Unique, Written, Distinct
  <1>4. Drafted'
    <2>1. Lowered' = {buf', inflight', staged'} \cup Early'
      BY DEF Lowered
    <2>2. ASSUME NEW b \in Lowered', Sound(b)
          PROVE  Sound(b)'
      BY <1>1, <1>2, <2>2 DEF Sound, Visible, Source, New
    <2> QED
      BY <2>1, <2>2 DEF Drafted
  <1>5. Apart'
    BY DEF Apart
  <1>6. Numbered' /\ Fresh'
    BY <1>1, <1>2 DEF Unique, Numbered, Fresh
  <1> QED
    BY <1>1, <1>3, <1>4, <1>5, <1>6 DEF Unique

\* A document is reached, and what it holds has landed.
LEMMA DocumentUnique ==
    ASSUME Unique, Thrifty, landed' = landed \cup Text(core'.block), Text(core'.block) \subseteq Known,
           Distinct(core'.block), core'.removed \in {core.removed, core.block, Absent},
           disk' \in {disk, core'}, seen' \in {seen, core'.block},
           \A b \in {buf', inflight', staged'} \cup Early' : Sound(b) /\ New(b) \cap Text(core'.block) = {},
           New(buf') \cap (EarlyAtoms' \cup Visible(staged')) = {},
           page'.kept \in {page.kept, Absent}, Resumes' \subseteq Resumes,
           Inserts' \subseteq Inserts, Inserts' \cap Text(core'.block) = {}
    PROVE  Unique'
  <1>1. Stored' /\ ResumeAtoms' \subseteq ResumeAtoms /\ KeptAtoms' \subseteq KeptAtoms
    BY KeptUnique
  <1>2. Ours' = Ours /\ Known' = Known /\ budget'.typed = budget.typed
    BY SameNumbers DEF Thrifty
  <1>3. Written'
    <2>1. Distinct(core'.removed)
      BY SoundAbsent DEF Unique, Written
    <2>2. Distinct(disk'.block) /\ Distinct(disk'.removed) /\ Distinct(seen')
      BY <2>1 DEF Unique, Written
    <2> QED
      BY <2>1, <2>2 DEF Written, Distinct
  <1>4. Drafted'
    <2>1. Lowered' = {buf', inflight', staged'} \cup Early'
      BY DEF Lowered
    <2>2. ASSUME NEW b \in Lowered', Sound(b), New(b) \cap Text(core'.block) = {}
          PROVE  Sound(b)'
      BY <1>1, <1>2, <2>2 DEF Sound, Visible, Source, New
    <2> QED
      BY <2>1, <2>2 DEF Drafted
  <1>5. Apart'
    BY DEF Apart
  <1>6. Numbered' /\ Fresh'
    BY <1>1, <1>2 DEF Unique, Numbered, Fresh
  <1> QED
    BY <1>1, <1>3, <1>4, <1>5, <1>6 DEF Unique

LEMMA SoundSettled ==
    ASSUME NEW s \in Texts, IsInjective(s), Range(s) \subseteq Known, NEW r, r = createContentBuffer(s)
    PROVE  Sound(r) /\ New(r) = {}
  BY SettledAtoms DEF Sound

LEMMA SoundRebased ==
    ASSUME NEW b \in Buffers, Sound(b), NEW s \in Texts, IsInjective(s), Range(s) \subseteq Known,
           New(b) \cap Range(s) = {}, NEW r, r = rebaseBuffer(b, s)
    PROVE  Sound(r) /\ New(r) \subseteq New(b)
  <1>1. b # Absent /\ IsInjective(b.visible)
    BY AbsentIsNoData DEF Sound
  <1>2. r.source = s /\ IsInjective(r.visible)
    BY <1>1, RebaseHolds
  <1>3. Source(r) = Range(s) /\ Visible(r) = (Range(s) \ Cut(b)) \cup New(b) /\ New(r) \subseteq New(b)
    BY RebaseAtoms
  <1>4. New(b) \subseteq Visible(b)
    BY DEF New
  <1> QED
    BY <1>2, <1>3, <1>4 DEF Sound

\* What the user sees: the draft, or the published text.
LEMMA targetSound ==
    ASSUME ControlInv, TextInv, Unique, buf # Absent \/ seen # Absent
    PROVE  target \in Buffers /\ Sound(target)
  <1>1. CASE buf # Absent
    BY <1>1, SoundDrafts, targetText
  <1>2. CASE buf = Absent
    <2>1. seen \in Texts /\ target = createContentBuffer(seen) /\ target \in Buffers
      BY <1>2, targetText
    <2>2. IsInjective(seen) /\ Range(seen) \subseteq Known
      <3>1. seen # Absent /\ Text(seen) = Range(seen)
        BY <2>1, AbsentIsNoData DEF Text
      <3> QED
        BY <3>1 DEF Unique, Written, Distinct, Numbered, TextInv, Landing
    <2> HIDE DEF target
    <2> QED
      BY <2>1, <2>2, SoundSettled
  <1> QED
    BY <1>1, <1>2
-----------------------------------------------------------------------------
LEMMA BesideUnique ==
    ASSUME Unique, Beside, Thrifty, Inserts' \subseteq Inserts
    PROVE  Unique'
  <1>1. /\ UNCHANGED <<core, seen, landed, buf, inflight, staged>> /\ disk' \in {disk, core}
        /\ Early' = Early /\ Resumes' = Resumes /\ page'.kept \in {page.kept, Absent}
    BY DEF Beside
  <1>2. EarlyAtoms' = EarlyAtoms
    BY <1>1 DEF EarlyAtoms
  <1>3. \A b \in {buf', inflight', staged'} \cup Early' : Sound(b)
    BY <1>1, SoundDrafts
  <1>4. New(buf') \cap (EarlyAtoms' \cup Visible(staged')) = {}
    BY <1>1, <1>2, SoundDrafts
  <1> QED
    BY <1>1, <1>3, <1>4, DraftUnique

\* The surface changes a draft.
LEMMA SurfaceUnique ==
    ASSUME Unique, Thrifty, UNCHANGED <<core, disk, seen, landed, inflight, page>>,
           Sound(buf'), New(buf') \subseteq New(buf), staged' \in {staged, Absent}, LaneSame,
           Inserts' \subseteq Inserts
    PROVE  Unique'
  <1>1. EarlyAtoms' = EarlyAtoms /\ Visible(staged') \subseteq Visible(staged)
    BY NoText2 DEF EarlyAtoms, LaneSame
  <1>2. \A b \in {buf', inflight', staged'} \cup Early' : Sound(b)
    BY SoundDrafts, SoundAbsent DEF LaneSame
  <1>3. New(buf') \cap (EarlyAtoms' \cup Visible(staged')) = {}
    BY <1>1, SoundDrafts
  <1> QED
    BY <1>2, <1>3, DraftUnique DEF LaneSame

LEMMA observeUnique ==
    ASSUME ControlInv, TextInv, Unique, Inserts' \subseteq Inserts, Thrifty, observe
    PROVE  Unique'
  <1>1. buf' = target /\ UNCHANGED <<core, disk, seen, landed, inflight, staged, page, lane>> /\ seen # Absent
    BY DEF observe, graphVars, draftVars
  <1>2. Sound(target) /\ (buf # Absent => target = buf) /\ (buf = Absent => New(target) = {})
    <2>1. buf = Absent => target = createContentBuffer(seen) /\ seen \in Texts
      BY <1>1, targetText
    <2> QED
      BY <1>1, <2>1, targetText, targetSound, SettledAtoms
  <1> HIDE DEF target
  <1>3. New(buf') \subseteq New(buf)
    BY <1>1, <1>2
  <1> QED
    BY <1>1, <1>2, <1>3, StillFlows, SurfaceUnique

LEMMA NextNumber ==
    ASSUME NEW n \in Nat
    PROVE  n + 1 \in Nat /\ n + 1 \notin 1..n /\ 1..(n + 1) = 1..n \cup {n + 1}
  <1>1. n + 1 \in Nat /\ n + 1 \notin 1..n
    OBVIOUS
  <1>2. \A x : x \in 1..(n + 1) <=> x \in 1..n \/ x = n + 1
    OBVIOUS
  <1> QED
    BY <1>1, <1>2

LEMMA TypeUnique ==
    ASSUME ControlInv, Unique, Inserts' \subseteq Inserts, Type
    PROVE  Unique'
  <1>1. buf \in Buffers /\ buf.visible \in Texts /\ buf # Absent
    BY ControlParts, BufferHolds DEF Type, Editing, TypeOK
  <1>2. PICK at \in 1..(Len(buf.visible) + 1), menu \in BOOLEAN :
            onInput(InsertAt(buf.visible, at, Size + budget.typed + 1), menu) /\ UNCHANGED gone
    BY DEF Type
  <1>3. budget'.foreign = budget.foreign /\ budget'.typed = budget.typed + 1 /\ budget.typed < MaxTyped
    BY TypeThrifty
  <1>4. PICK a : a = Size + budget.typed + 1
    OBVIOUS
  <1>5. a \in Nat /\ a \notin Known /\ Ours' = Ours \cup {a} /\ Theirs' = Theirs /\ budget'.typed <= MaxTyped
    <2>1. budget.foreign \in Nat /\ budget.typed \in Nat /\ Size \in Nat /\ MaxTyped \in Nat
      <3>1. TypeOK
        BY ControlParts
      <3> QED
        BY <3>1, BoundAssumption DEF TypeOK
    <2>2. a \in Nat /\ a \notin 1..(Size + budget.typed)
          /\ 1..(Size + (budget.typed + 1)) = 1..(Size + budget.typed) \cup {a}
      <3>1. PICK n \in Nat : n = Size + budget.typed
        BY <2>1
      <3>2. a = n + 1 /\ Size + (budget.typed + 1) = n + 1
        BY <1>4, <2>1, <3>1
      <3> QED
        BY <3>1, <3>2, NextNumber
    <2>3. budget.typed + 1 <= MaxTyped
      BY <1>3, <2>1
    <2>4. a < Size + MaxTyped + 1
      BY <1>3, <1>4, <2>1
    <2>5. a \notin Theirs
      BY <2>1, <2>2, <2>4 DEF Theirs
    <2> QED
      BY <1>3, <2>2, <2>3, <2>5 DEF Known, Ours, Theirs
  <1>6. Known' = Known \cup {a}
    BY <1>5 DEF Known
  <1>7. PICK text : text = InsertAt(buf.visible, at, a)
    OBVIOUS
  <1>8. Sound(buf) /\ Source(buf) = Range(buf.source) /\ Visible(buf) = Range(buf.visible)
    BY <1>1, SoundDrafts, BufferHolds
  <1>9. text \in Texts /\ Range(text) = Range(buf.visible) \cup {a} /\ IsInjective(text)
    BY <1>1, <1>5, <1>7, <1>8, InsertedAtom DEF Sound
  <1>10. /\ buf' = [buf EXCEPT !.visible = text]
         /\ UNCHANGED <<core, disk, seen, landed, inflight, staged, page, lane>>
    BY <1>2, <1>4, <1>7 DEF onInput, graphVars, draftVars
  <1>11. /\ buf' # Absent /\ buf'.source = buf.source /\ buf'.visible = text
         /\ Source(buf') = Source(buf) /\ Visible(buf') = Visible(buf) \cup {a}
    BY <1>1, <1>8, <1>9, <1>10, EditedAtoms
  <1>12. New(buf') = New(buf) \cup {a}
    BY <1>5, <1>8, <1>11 DEF New, Sound
  <1>13. LaneSame /\ ResumeAtoms' = ResumeAtoms /\ EarlyAtoms' = EarlyAtoms /\ KeptAtoms' = KeptAtoms
    BY <1>10, StillFlows DEF LaneSame, ResumeAtoms, EarlyAtoms, KeptAtoms
  <1>14. landed \cup KeptAtoms \cup ResumeAtoms \subseteq Known
    BY DEF Unique, Numbered
  <1>15. \A b : Sound(b) => Sound(b)'
    BY <1>5, <1>6, <1>10, <1>13 DEF Sound, Visible, Source, New
  <1>16. PICK r : r = buf'
    OBVIOUS
  <1>17. Sound(r)'
    <2>1. r # Absent /\ r.source = buf.source /\ r.visible = text /\ IsInjective(buf.source) /\ IsInjective(text)
      BY <1>1, <1>8, <1>9, <1>11, <1>16 DEF Sound
    <2>2. Visible(r) \cup Source(r) \subseteq Known' /\ New(r) \subseteq Ours'
      BY <1>5, <1>6, <1>8, <1>11, <1>12, <1>16 DEF Sound
    <2>3. New(r) \cap (landed' \cup ResumeAtoms') = {}
      BY <1>5, <1>8, <1>10, <1>12, <1>13, <1>14, <1>16 DEF Sound
    <2> QED
      BY <2>1, <2>2, <2>3 DEF Sound, New, Visible, Source
  <1>21. Drafted'
    <2>1. \A b \in Lowered' : b = r \/ b \in Lowered
      BY <1>10, <1>13, <1>16 DEF Lowered, LaneSame
    <2>2. \A b \in Lowered : Sound(b)
      BY DEF Unique, Drafted
    <2>3. ASSUME NEW b \in Lowered' PROVE Sound(b)'
      <3>1. CASE b = r
        BY <1>17, <3>1
      <3>2. CASE b # r
        BY <1>15, <2>1, <2>2, <3>2
      <3> QED
        BY <3>1, <3>2
    <2> QED
      BY <2>3 DEF Drafted
  <1>18. Apart'
    <2>1. \A b \in Early : a \notin Visible(b)
      BY <1>5, SoundDrafts DEF Sound
    <2>2. a \notin EarlyAtoms /\ a \notin Visible(staged)
      BY <1>5, <2>1, SoundDrafts DEF Sound, EarlyAtoms
    <2> QED
      BY <1>10, <1>12, <1>13, <2>2, SoundDrafts DEF Apart
  <1>19. Written' /\ Stored'
    BY <1>10, <1>13 DEF Unique, Written, Distinct, Stored, Kept, LaneSame
  <1>20. Numbered' /\ Fresh'
    BY <1>5, <1>6, <1>10, <1>13 DEF Unique, Numbered, Fresh
  <1> QED
    BY <1>18, <1>19, <1>20, <1>21 DEF Unique

LEMMA EraseUnique ==
    ASSUME ControlInv, Unique, Inserts' \subseteq Inserts, Thrifty, Erase
    PROVE  Unique'
  <1>1. buf \in Buffers /\ buf.visible \in Texts /\ buf # Absent
    BY ControlParts, BufferHolds DEF Erase, Editing, TypeOK
  <1>2. PICK at \in DOMAIN buf.visible : onInput(RemoveAt(buf.visible, at), FALSE)
    BY DEF Erase
  <1>4. PICK text : text = RemoveAt(buf.visible, at)
    OBVIOUS
  <1>5. Sound(buf) /\ Source(buf) = Range(buf.source) /\ Visible(buf) = Range(buf.visible)
    BY <1>1, SoundDrafts, BufferHolds
  <1>6. text \in Texts /\ Range(text) \subseteq Range(buf.visible) /\ IsInjective(text)
    BY <1>1, <1>4, <1>5, RemovedAtom DEF Sound
  <1>7. buf' = [buf EXCEPT !.visible = text] /\ UNCHANGED <<core, disk, seen, landed, inflight, staged, page, lane>>
    BY <1>2, <1>4 DEF onInput, graphVars, draftVars
  <1>8. /\ buf' # Absent /\ buf'.source = buf.source /\ buf'.visible = text
        /\ Source(buf') = Source(buf) /\ Visible(buf') \subseteq Visible(buf)
    BY <1>1, <1>5, <1>6, <1>7, EditedAtoms
  <1>9. New(buf') \subseteq New(buf)
    BY <1>8 DEF New
  <1>10. Sound(buf')
    BY <1>1, <1>5, <1>6, <1>8, <1>9 DEF Sound
  <1> QED
    BY <1>7, <1>9, <1>10, StillFlows, SurfaceUnique

LEMMA leaveUnique ==
    ASSUME ControlInv, Unique, Inserts' \subseteq Inserts, Thrifty, leave
    PROVE  Unique'
  <1>1. /\ UNCHANGED <<core, disk, seen, landed, inflight, page>> /\ flush /\ staged' = Absent
        /\ buf' = release(buf, FALSE, inflight # Absent, action)
    BY DEF leave, graphVars, draftVars
  <1>2. buf' \in {buf, Absent}
    BY <1>1, Released
  <1>3. Sound(buf') /\ New(buf') \subseteq New(buf)
    BY <1>2, SoundDrafts, SoundAbsent, NoText2
  <1>4. LaneSame
    BY <1>1, FlushSame
  <1> QED
    BY <1>1, <1>3, <1>4, SurfaceUnique

LEMMA compositionEndUnique ==
    ASSUME ControlInv, TextInv, Unique, Inserts' \subseteq Inserts, Thrifty, compositionEnd
    PROVE  Unique'
  <1>1. /\ UNCHANGED <<core, disk, seen, landed, inflight, staged, page, lane>> /\ compose.live
        /\ buf' = IF compose.content = Absent \/ (buf = Absent /\ seen = Absent) THEN buf
                  ELSE rebaseBuffer(target, compose.content)
    BY DEF compositionEnd, graphVars, draftVars
  <1>2. CASE buf' = buf
    BY <1>1, <1>2, SoundDrafts, StillFlows, SurfaceUnique
  <1>3. CASE buf' # buf
    <2>1. compose.content # Absent /\ buf' = rebaseBuffer(target, compose.content) /\ (buf # Absent \/ seen # Absent)
      BY <1>1, <1>3
    <2>2. compose.content = seen /\ buf # Absent /\ seen \in Texts
      <3>1. Composing /\ TypeOK
        BY ControlParts
      <3> QED
        BY <1>1, <2>1, <3>1 DEF Composing, TypeOK
    <2>3. target = buf /\ buf \in Buffers
      BY <2>2, targetText
    <2>4. IsInjective(seen) /\ Range(seen) \subseteq landed
      <3>1. seen # Absent /\ Text(seen) = Range(seen)
        BY <2>2, AbsentIsNoData DEF Text
      <3> QED
        BY <3>1 DEF Unique, Written, Distinct, TextInv, Landing
    <2>5. Range(seen) \subseteq Known /\ New(buf) \cap Range(seen) = {} /\ Sound(buf)
      BY <2>4, SoundDrafts DEF Unique, Numbered, Sound
    <2>6. Sound(buf') /\ New(buf') \subseteq New(buf)
      BY <2>1, <2>2, <2>3, <2>4, <2>5, SoundRebased
    <2> QED
      BY <1>1, <2>6, StillFlows, SurfaceUnique
  <1> QED
    BY <1>2, <1>3
-----------------------------------------------------------------------------
LEMMA stageDraftSpliceUnique ==
    ASSUME ControlInv, Unique, Inserts' \subseteq Inserts, Thrifty, stageDraftSplice
    PROVE  Unique'
  <1>1. /\ UNCHANGED <<core, disk, seen, landed, inflight, page, lane>> /\ staged' = buf
        /\ buf' = createContentBuffer(buf.visible) /\ buf \in Buffers
    BY ControlParts DEF stageDraftSplice, graphVars, draftVars, settleBuffer, Editing, TypeOK
  <1>2. buf.visible \in Texts /\ buf # Absent /\ Sound(buf) /\ Visible(buf) = Range(buf.visible)
    BY <1>1, BufferHolds, AbsentIsNoData, SoundDrafts
  <1>3. IsInjective(buf.visible) /\ Range(buf.visible) \subseteq Known
    BY <1>2 DEF Sound
  <1>4. Sound(buf') /\ New(buf') = {}
    BY <1>1, <1>2, <1>3, SoundSettled
  <1>5. LaneSame
    BY <1>1, StillFlows
  <1>6. \A b \in {buf', inflight', staged'} \cup Early' : Sound(b)
    BY <1>1, <1>2, <1>4, <1>5, SoundDrafts DEF LaneSame
  <1> QED
    BY <1>1, <1>4, <1>5, <1>6, DraftUnique DEF LaneSame

LEMMA pickerUnique ==
    ASSUME ControlInv, Unique, Inserts' \subseteq Inserts, Thrifty, pickerRun \/ pickerClose
    PROVE  Unique'
  <1>1. /\ UNCHANGED <<core, disk, seen, landed, inflight, page, buf>> /\ staged' \in {staged, Absent}
        /\ staged \in Buffers /\ \E k \in EarlyKind : lane' = Append(lane, Job(k, staged))
    BY ControlParts DEF pickerRun, pickerClose, graphVars, draftVars, Enqueue, TypeOK, EarlyKind
  <1>2. Early' = Early \cup {staged} /\ Resumes' = Resumes
    BY <1>1, EarlyFlows
  <1>3. \A b \in {buf', inflight', staged'} \cup Early' : Sound(b)
    BY <1>1, <1>2, SoundDrafts, SoundAbsent
  <1>4. EarlyAtoms' = EarlyAtoms \cup Visible(staged) /\ Visible(staged') \subseteq Visible(staged)
    BY <1>1, <1>2, NoText2 DEF EarlyAtoms
  <1>5. New(buf') \cap (EarlyAtoms' \cup Visible(staged')) = {}
    BY <1>1, <1>4, SoundDrafts
  <1> QED
    BY <1>1, <1>2, <1>3, <1>5, DraftUnique

LEMMA runVimWordMotionUnique ==
    ASSUME ControlInv, Unique, Inserts' \subseteq Inserts, Thrifty, ~Races, runVimWordMotion
    PROVE  Unique'
  <1>1. PICK at \in DOMAIN buf.visible, edited \in Buffers, j \in Jobs :
                 /\ edited.source = buf.source /\ edited.visible = RemoveAt(buf.visible, at)
                 /\ j = Job("word", edited) /\ lane' = Append(lane, j)
                 /\ buf' = createContentBuffer(edited.visible)
    BY WordLane
  <1>2. buf \in Buffers /\ buf.visible \in Texts /\ edited.visible \in Texts /\ buf # Absent /\ edited # Absent
    BY <1>1, WordLane, BufferHolds, AbsentIsNoData
  <1>3. UNCHANGED <<core, disk, seen, landed, inflight, staged, page>>
    BY DEF runVimWordMotion, graphVars, draftVars
  <1>4. Sound(buf)
    BY SoundDrafts
  <1>5. Range(edited.visible) \subseteq Range(buf.visible) /\ IsInjective(edited.visible)
    BY <1>1, <1>2, <1>4, RemovedAtom DEF Sound
  <1>6. /\ Source(edited) = Source(buf) /\ Visible(edited) = Range(edited.visible)
        /\ Visible(edited) \subseteq Visible(buf) /\ New(edited) \subseteq New(buf)
    BY <1>1, <1>2, <1>5, BufferHolds
  <1>7. Sound(edited) /\ Range(edited.visible) \subseteq Known
    BY <1>1, <1>2, <1>4, <1>5, <1>6 DEF Sound
  <1>8. Sound(buf') /\ New(buf') = {}
    BY <1>1, <1>2, <1>5, <1>7, SoundSettled
  <1>9. "word" \in EarlyKind /\ lane' = Append(lane, Job("word", edited))
    BY <1>1 DEF EarlyKind
  <1>10. Early' = Early \cup {edited} /\ Resumes' = Resumes
    BY <1>9, EarlyFlows
  <1>11. \A b \in {buf', inflight', staged'} \cup Early' : Sound(b)
    BY <1>3, <1>7, <1>8, <1>10, SoundDrafts
  <1> QED
    BY <1>3, <1>8, <1>10, <1>11, DraftUnique

LEMMA hideUnique ==
    ASSUME ControlInv, Unique, Inserts' \subseteq Inserts, Thrifty, hide
    PROVE  Unique'
  <1>1. /\ UNCHANGED <<core, disk, seen, landed, inflight, staged, buf>> /\ page'.kept = unsaved
    BY DEF hide, graphVars, draftVars
  <1>2. LaneSame
    BY FlushSame, StillFlows DEF hide
  <1>3. unsaved # Absent => unsaved.content = buf.visible /\ buf # Absent
    BY DEF unsaved
  <1>4. buf # Absent => buf \in Buffers /\ IsInjective(buf.visible) /\ Range(buf.visible) \subseteq Known
    <2>1. buf # Absent => buf \in Buffers
      BY ControlParts DEF TypeOK
    <2>2. buf # Absent => Visible(buf) = Range(buf.visible)
      BY <2>1, BufferHolds
    <2> QED
      BY <2>1, <2>2, SoundDrafts DEF Sound
  <1>5. ResumeAtoms' = ResumeAtoms /\ EarlyAtoms' = EarlyAtoms
    BY <1>2 DEF LaneSame, ResumeAtoms, EarlyAtoms
  <1>6. Ours' = Ours /\ Known' = Known /\ budget'.typed = budget.typed
    BY SameNumbers DEF Thrifty
  <1>7. Stored'
    <2>1. \A k \in Kept' : k \in Kept \/ (k = unsaved /\ unsaved # Absent)
      BY <1>1, <1>2 DEF Kept, LaneSame
    <2> QED
      BY <1>3, <1>4, <2>1 DEF Unique, Stored
  <1>8. Numbered'
    <2>1. KeptAtoms' \subseteq Known
      BY <1>1, <1>3, <1>4 DEF KeptAtoms
    <2> QED
      BY <1>1, <1>5, <1>6, <2>1 DEF Unique, Numbered
  <1>9. Drafted'
    <2>1. Lowered' = Lowered
      BY <1>1, <1>2 DEF Lowered, LaneSame
    <2>2. \A b : Sound(b) => Sound(b)'
      BY <1>1, <1>5, <1>6 DEF Sound, Visible, Source, New
    <2> QED
      BY <2>1, <2>2 DEF Unique, Drafted
  <1>10. Written' /\ Apart' /\ Fresh'
    BY <1>1, <1>5 DEF Unique, Written, Distinct, Apart, Fresh
  <1> QED
    BY <1>7, <1>8, <1>9, <1>10 DEF Unique

\* The draft a publication leaves.
LEMMA ObservedSound ==
    ASSUME ControlInv, Unique, inflight = Absent, NEW document \in Docs, Distinct(document.block),
           Text(document.block) \subseteq Known, New(buf) \cap Text(document.block) = {},
           NEW own \in BOOLEAN, NEW d, d = Observed(document.block, own, buf, inflight)
    PROVE  Sound(d.buf) /\ New(d.buf) \subseteq New(buf)
  <1>1. New(d.buf) \subseteq New(buf)
    BY ObservedAtoms
  <1>2. d.buf \in {buf, Absent} \/ (document.block # Absent /\ buf # Absent /\ d.buf = rebaseBuffer(buf, document.block))
    BY DEF Observed, Draft, Unchanged
  <1>3. ASSUME document.block # Absent, buf # Absent, d.buf = rebaseBuffer(buf, document.block)
        PROVE  Sound(d.buf)
    <2>1. document.block \in Texts /\ buf \in Buffers /\ Text(document.block) = Range(document.block)
      BY <1>3, ControlParts DEF Docs, TypeOK, Text
    <2>2. IsInjective(document.block)
      BY <1>3 DEF Distinct
    <2> QED
      BY <1>3, <2>1, <2>2, SoundDrafts, SoundRebased
  <1> QED
    BY <1>1, <1>2, <1>3, SoundDrafts, SoundAbsent
-----------------------------------------------------------------------------
LEMMA ExecutedUnique ==
    ASSUME ControlInv, Unique, Thrifty, inflight = Absent, lane # <<>>, lane[1].kind # "save",
           NEW document \in Docs, NEW own \in BOOLEAN, NEW saved \in BOOLEAN, NEW ok \in BOOLEAN, NEW d,
           Executed(document, own, <<>>, saved, ok, d), buf' = IF ok THEN d.buf ELSE buf, staged' = Absent,
           document.removed \in {core.removed, core.block, Absent},
           Distinct(document.block), Text(document.block) \subseteq Known, New(buf) \cap Text(document.block) = {},
           page'.kept \in {page.kept, Absent}, Inserts' \subseteq Inserts, Inserts' \cap Text(document.block) = {}
    PROVE  Unique'
  <1>1. PICK e : Follows(e) /\ lane' = Tail(lane) \o e
    BY ExecutedLane
  <1>2. Early' = {} /\ Resumes' = {}
    BY <1>1, AfterTurn
  <1>3. core' = document /\ landed' = landed \cup Text(document.block) /\ disk' \in {disk, document}
    BY DEF Executed, Reached
  <1>4. d = Observed(document.block, own, buf, inflight) /\ inflight' = inflight
    BY DEF Executed
  <1>5. seen' \in {seen, document.block}
    BY DEF Executed, publish
  <1>6. Sound(d.buf) /\ New(d.buf) \subseteq New(buf)
    BY <1>4, ObservedSound
  <1>7. Sound(buf') /\ New(buf') \subseteq New(buf)
    BY <1>6, SoundDrafts
  <1>8. \A b \in {buf', inflight', staged'} \cup Early' : Sound(b) /\ New(b) \cap Text(core'.block) = {}
    <2>1. New(Absent) = {} /\ Sound(Absent)
      BY NoText2, SoundAbsent
    <2> QED
      BY <1>2, <1>3, <1>4, <1>7, <2>1
  <1>9. New(buf') \cap (EarlyAtoms' \cup Visible(staged')) = {}
    BY <1>2, NoText2 DEF EarlyAtoms
  <1> QED
    BY <1>2, <1>3, <1>5, <1>8, <1>9, DocumentUnique

LEMMA HeirUnique ==
    ASSUME ControlInv, Unique, Thrifty, inflight = Absent, lane # <<>>, lane[1].kind \in {"recover", "fill"},
           NEW document \in Docs, document.block = Absent, document.removed = Absent,
           NEW e, Follows(e), NEW saved \in BOOLEAN, NEW ok \in BOOLEAN, NEW d,
           HeirExecuted(document, e, saved, ok, d), UNCHANGED <<staged, page>>, Inserts' \subseteq Inserts
    PROVE  Unique'
  <1>1. lane[1].kind # "save" /\ lane' = Tail(lane) \o e
    BY DEF HeirExecuted
  <1>2. Early' = {} /\ Resumes' = {}
    BY <1>1, AfterTurn
  <1>3. core' = document /\ landed' = landed \cup Text(document.block) /\ disk' \in {disk, document}
    BY DEF HeirExecuted, Reached
  <1>4. d = Observed(document.block, TRUE, buf, inflight) /\ inflight' = inflight
    BY DEF HeirExecuted
  <1>5. seen' \in {seen, document.block} /\ buf' \in {buf, d.buf, Absent}
    BY DEF HeirExecuted, publish
  <1>6. Text(document.block) = {} /\ Distinct(document.block)
    BY NoText2, SoundAbsent
  <1>7. Sound(d.buf) /\ New(d.buf) \subseteq New(buf)
    <2>1. PICK own \in BOOLEAN : own = TRUE
      OBVIOUS
    <2>2. d = Observed(document.block, own, buf, inflight)
      BY <1>4, <2>1
    <2> QED
      BY <1>6, <2>2, ObservedSound
  <1>8. Sound(buf') /\ New(buf') \subseteq New(buf)
    BY <1>5, <1>7, SoundDrafts, SoundAbsent, NoText2
  <1>9. \A b \in {buf', inflight', staged'} \cup Early' : Sound(b) /\ New(b) \cap Text(core'.block) = {}
    BY <1>2, <1>3, <1>4, <1>6, <1>8, SoundDrafts
  <1>10. New(buf') \cap (EarlyAtoms' \cup Visible(staged')) = {}
    BY <1>2, <1>8, SoundDrafts DEF EarlyAtoms
  <1>11. page'.kept \in {page.kept, Absent} /\ core'.removed \in {core.removed, core.block, Absent}
    BY <1>3
  <1> QED
    BY <1>2, <1>3, <1>5, <1>6, <1>9, <1>10, <1>11, DocumentUnique

\* What a submission or an early edit makes of the text: what was there, and what was typed.
LEMMA WrittenAtoms ==
    ASSUME ControlInv, Tally, TextInv, Unique, NEW b \in Buffers, Sound(b), b.source = core.block
    PROVE  /\ Visible(b) \subseteq Known /\ Inserts \cap Visible(b) = {}
           /\ IsInjective(b.source) /\ IsInjective(b.visible)
  <1>1. core.block = b.source /\ Text(core.block) = Source(b)
    <2>1. b.source \in Texts /\ Source(b) = Range(b.source)
      BY BufferHolds
    <2> QED
      BY <2>1, AbsentIsNoData DEF Text
  <1>2. Source(b) \subseteq landed
    BY <1>1 DEF TextInv, Landing
  <1>3. Visible(b) \subseteq landed \cup Ours
    BY <1>2 DEF Sound, New
  <1>4. Inserts \subseteq Theirs /\ Inserts \cap landed = {}
    BY DEF Tally, Unique, Fresh
  <1>5. b # Absent
    BY AbsentIsNoData
  <1> QED
    BY <1>3, <1>4, <1>5, OursAndTheirs DEF Sound

LEMMA ensureCurrentUnique ==
    ASSUME ControlInv, TextInv, Unique, Inserts' \subseteq Inserts, Thrifty, ~Races, ensureCurrent
    PROVE  Unique'
  <1>1. /\ stale /\ lane # <<>> /\ inflight = Absent /\ lane[1].kind # "save" /\ staged = Absent
    BY ensureCurrentCases
  <1>2. ASSUME NEW d, d = Observed(core.block, FALSE, buf, inflight),
               publish(core.block, d), buf' = d.buf, staged' = Absent, lane' = lane \o Recovery(d),
               UNCHANGED <<core, disk, inflight, action, page, told, gone, landed, budget>>
        PROVE  Unique'
    <2>1. core \in Docs /\ FALSE \in BOOLEAN /\ lane \in Seq(Jobs)
      BY ControlParts DEF TypeOK
    <2>2. Text(core.block) \subseteq landed /\ Text(core.block) \subseteq Known /\ Distinct(core.block)
          /\ New(buf) \cap Text(core.block) = {} /\ Inserts' \cap Text(core.block) = {}
      <3>1. Text(core.block) \subseteq landed
        BY DEF TextInv, Landing
      <3> QED
        BY <3>1, SoundDrafts DEF Unique, Numbered, Written, Sound, Fresh
    <2>3. Sound(d.buf) /\ New(d.buf) \subseteq New(buf)
      <3>1. PICK own \in BOOLEAN : own = FALSE
        OBVIOUS
      <3>2. d = Observed(core.block, own, buf, inflight)
        BY <1>2, <3>1
      <3> QED
        BY <1>1, <2>1, <2>2, <3>2, ObservedSound
    <2>4. LaneSame
      <3>1. Recovery(d) \in Seq(Jobs) /\ \A j \in Range(Recovery(d)) : j.kind \notin TextKind
        <4>1. Job("recover", Absent) \in Jobs /\ Job("recover", Absent).kind = "recover"
          BY JobMade, JobIs
        <4>2. Recovery(d) = <<>> \/ Recovery(d) = <<Job("recover", Absent)>>
          BY DEF Recovery
        <4>3. \A j \in Jobs : <<j>> \in Seq(Jobs) /\ Range(<<j>>) = {j}
          BY SingleRange
        <4>4. <<>> \in Seq(Jobs) /\ Range(<<>>) = {}
          BY EmptySeq, NoText
        <4> QED
          BY <4>1, <4>2, <4>3, <4>4 DEF TextKind, EarlyKind
      <3>2. Flows({}, Recovery(d))
        BY <1>2, <2>1, <3>1, LaneFlows
      <3> QED
        BY <3>1, <3>2, SameFlow
    <2>5. seen' = core.block /\ landed' = landed \cup Text(core'.block)
      BY <1>2, <2>2 DEF publish
    <2>6. EarlyAtoms' = EarlyAtoms
      BY <2>4 DEF LaneSame, EarlyAtoms
    <2>7. \A b \in {buf', inflight', staged'} \cup Early' : Sound(b) /\ New(b) \cap Text(core'.block) = {}
      <3>1. \A b \in {buf', inflight', staged'} \cup Early' : Sound(b)
        BY <1>1, <1>2, <2>3, <2>4, SoundDrafts DEF LaneSame
      <3> QED
        BY <1>2, <2>2, <3>1 DEF Sound
    <2>8. New(buf') \cap (EarlyAtoms' \cup Visible(staged')) = {}
      BY <1>1, <1>2, <2>3, <2>6, SoundDrafts
    <2>9. /\ core'.removed \in {core.removed, core.block, Absent} /\ disk' \in {disk, core'}
          /\ seen' \in {seen, core'.block} /\ page'.kept \in {page.kept, Absent} /\ Resumes' \subseteq Resumes
          /\ Text(core'.block) \subseteq Known /\ Distinct(core'.block) /\ Inserts' \cap Text(core'.block) = {}
      BY <1>2, <2>2, <2>4, <2>5 DEF LaneSame
    <2> QED
      BY <2>5, <2>7, <2>8, <2>9, DocumentUnique
  <1>3. CASE lane[1].kind \notin EarlyKind /\ JobFails
    <2>1. lane[1].kind # "resume"
      <3>1. 1 \in DOMAIN lane
        BY <1>1, ControlParts, LaneIs
      <3> QED
        BY <1>1, <3>1, StaleLane DEF Kindly
    <2>2. Beside
      BY <1>1, <1>3, <2>1, FailedBeside
    <2> QED
      BY <2>2, BesideUnique
  <1> QED
    BY <1>2, <1>3, ensureCurrentCases

LEMMA submitPrepareUnique ==
    ASSUME ControlInv, TextInv, Unique, Inserts' \subseteq Inserts, Thrifty, submitPrepare
    PROVE  Unique'
  <1>1. /\ lane # <<>> /\ lane[1].kind = "submit" /\ inflight = Absent
        /\ UNCHANGED <<core, disk, seen, stale, orphan, compose, staged, view, page, landed, budget>>
    BY submitPrepareCases
  <1>2. CASE JobFails
    <2>1. Beside
      BY <1>1, <1>2, FailedBeside DEF EarlyKind
    <2> QED
      BY <2>1, BesideUnique
  <1>3. CASE lane' = Tail(lane) /\ UNCHANGED <<buf, inflight, action, unavailable, told, gone>>
    <2>1. lane[1].kind \notin TextKind
      BY <1>1 DEF TextKind, EarlyKind
    <2>2. Beside
      BY <1>1, <1>3, <2>1, RunBeside
    <2> QED
      BY <2>2, BesideUnique
  <1>4. CASE /\ target \in Buffers
             /\ buf = Absent => seen # Absent
             /\ inflight' = target /\ buf' = createContentBuffer(target.visible)
             /\ UNCHANGED <<lane, unavailable, told, gone>>
    <2>1. target \in Buffers /\ Sound(target)
      BY <1>4, targetSound
    <2> HIDE DEF target
    <2>2. target.visible \in Texts /\ IsInjective(target.visible) /\ Range(target.visible) \subseteq Known
      BY <2>1, BufferHolds, AbsentIsNoData DEF Sound
    <2>3. Sound(buf') /\ New(buf') = {}
      BY <1>4, <2>2, SoundSettled
    <2>4. LaneSame
      BY <1>4, StillFlows
    <2>5. \A b \in {buf', inflight', staged'} \cup Early' : Sound(b)
      BY <1>1, <1>4, <2>1, <2>3, <2>4, SoundDrafts DEF LaneSame
    <2> QED
      BY <1>1, <2>3, <2>4, <2>5, DraftUnique DEF LaneSame
  <1> QED
    BY <1>2, <1>3, <1>4, submitPrepareCases
-----------------------------------------------------------------------------
\* A submission reaches the document.
LEMMA SubmittedUnique ==
    ASSUME ControlInv, Tally, TextInv, Unique, Thrifty, Inserts' \subseteq Inserts, inflight # Absent, Accepted,
           NEW saved, Reached(Submitted, saved), seen' \in {seen, Submitted.block}, inflight' = Absent,
           lane' = Tail(lane), UNCHANGED <<staged, page>>,
           Sound(buf') /\ New(buf') \cap Visible(inflight) = {}
    PROVE  Unique'
  <1>1. lane # <<>> /\ lane[1].kind = "submit" /\ staged = Absent /\ lane \in Seq(Jobs)
    BY AtWorker, ControlParts
  <1>2. Follows(<<>>) /\ lane' = Tail(lane) \o <<>>
    BY <1>1, NothingFollows
  <1>3. Early' = {} /\ Resumes' = {}
    BY <1>1, <1>2, AfterTurn
  <1>4. /\ Submitted.block \in Texts /\ Submitted.removed = core.removed /\ core.block # Absent
        /\ inflight \in Buffers /\ inflight.source = core.block /\ Range(Submitted.block) = Range(inflight.visible)
        /\ IsInjective(core.block) /\ IsInjective(inflight.visible) => IsInjective(Submitted.block)
    BY SubmittedHolds
  <1>5. Sound(inflight) /\ Visible(inflight) = Range(inflight.visible)
    BY <1>4, SoundDrafts, BufferHolds
  <1>6. Visible(inflight) \subseteq Known /\ Inserts \cap Visible(inflight) = {} /\ IsInjective(inflight.visible)
        /\ IsInjective(core.block)
    BY <1>4, <1>5, WrittenAtoms
  <1>7. Text(Submitted.block) = Visible(inflight) /\ Distinct(Submitted.block)
    BY <1>4, <1>5, <1>6, AbsentIsNoData DEF Text, Distinct
  <1>8. core' = Submitted /\ disk' \in {disk, core'} /\ landed' = landed \cup Text(core'.block)
    BY DEF Reached
  <1>9. \A b \in {buf', inflight', staged'} \cup Early' : Sound(b) /\ New(b) \cap Text(core'.block) = {}
    BY <1>1, <1>3, <1>7, <1>8, NoText2, SoundAbsent
  <1>10. New(buf') \cap (EarlyAtoms' \cup Visible(staged')) = {}
    BY <1>1, <1>3, NoText2 DEF EarlyAtoms
  <1>11. /\ core'.removed \in {core.removed, core.block, Absent} /\ seen' \in {seen, core'.block}
         /\ page'.kept \in {page.kept, Absent} /\ Resumes' \subseteq Resumes
         /\ Text(core'.block) \subseteq Known /\ Distinct(core'.block) /\ Inserts' \cap Text(core'.block) = {}
    BY <1>3, <1>4, <1>6, <1>7, <1>8
  <1> QED
    BY <1>8, <1>9, <1>10, <1>11, DocumentUnique

\* What is typed behind a submission is not in it.
LEMMA BehindSubmission ==
    ASSUME ControlInv, Unique, inflight # Absent
    PROVE  /\ buf \in Buffers /\ Sound(buf) /\ Sound(inflight) /\ inflight \in Buffers
           /\ Source(buf) = Visible(inflight) /\ New(buf) \cap Visible(inflight) = {}
           /\ IsInjective(buf.visible) /\ IsInjective(inflight.visible) /\ IsInjective(inflight.source)
  <1>1. buf \in Buffers /\ inflight \in Buffers /\ buf.source = inflight.visible
    BY AtWorker
  <1>2. Source(buf) = Visible(inflight)
    BY <1>1, BufferHolds
  <1>3. buf # Absent /\ inflight # Absent
    BY <1>1, AbsentIsNoData
  <1> QED
    BY <1>1, <1>2, <1>3, SoundDrafts DEF New, Sound

LEMMA submitSavedUnique ==
    ASSUME ControlInv, Tally, TextInv, Unique, Inserts' \subseteq Inserts, Thrifty, submitSaved
    PROVE  Unique'
  <1>1. PICK saved \in BOOLEAN, r \in Buffers : \E d :
              /\ inflight # Absent /\ Accepted /\ Reached(Submitted, saved)
              /\ publish(Submitted.block, d) /\ r = Continued(buf, Submitted.block)
              /\ buf' \in {r, Absent}
              /\ inflight' = Absent /\ lane' = Tail(lane)
              /\ UNCHANGED <<staged, page>>
    BY submitSavedCases
  <1>2. seen' = Submitted.block
    BY <1>1 DEF publish
  <1>3. /\ Submitted.block \in Texts /\ Range(Submitted.block) = Range(inflight.visible)
        /\ IsInjective(core.block) /\ IsInjective(inflight.visible) => IsInjective(Submitted.block)
        /\ inflight.source = core.block
    BY <1>1, SubmittedHolds
  <1>4. /\ Sound(buf) /\ Sound(inflight) /\ inflight \in Buffers /\ New(buf) \cap Visible(inflight) = {}
        /\ IsInjective(buf.visible) /\ IsInjective(inflight.visible) /\ IsInjective(inflight.source)
    BY <1>1, BehindSubmission
  <1>5. Range(Submitted.block) = Visible(inflight) /\ IsInjective(Submitted.block)
    BY <1>3, <1>4, BufferHolds
  <1>6. /\ New(r) \subseteq New(buf) /\ Source(r) = Range(Submitted.block)
        /\ Visible(r) \subseteq Range(Submitted.block) \cup New(buf)
        /\ IsInjective(r.visible) /\ r.source = Submitted.block
    BY <1>1, <1>3, <1>4, <1>5, ContinuedAtoms
  <1>7. New(buf) \subseteq Visible(buf)
    BY DEF New
  <1>8. Sound(r) /\ New(r) \cap Visible(inflight) = {}
    BY <1>4, <1>5, <1>6, <1>7 DEF Sound
  <1>9. Sound(buf') /\ New(buf') \cap Visible(inflight) = {}
    BY <1>1, <1>8, SoundAbsent, NoText2
  <1> QED
    BY <1>1, <1>2, <1>9, SubmittedUnique

LEMMA submitUnpublishedUnique ==
    ASSUME ControlInv, Tally, TextInv, Unique, Inserts' \subseteq Inserts, Thrifty, submitUnpublished
    PROVE  Unique'
  <1>1. /\ inflight # Absent /\ Accepted /\ Reached(Submitted, TRUE) /\ inflight' = Absent /\ lane' = Tail(lane)
        /\ UNCHANGED <<seen, staged, page>> /\ buf' = release(buf, view.observed, compose.on, action')
    BY DEF submitUnpublished
  <1>2. Sound(buf') /\ New(buf') \cap Visible(inflight) = {}
    BY <1>1, Released, BehindSubmission, SoundAbsent, NoText2
  <1> QED
    BY <1>1, <1>2, SubmittedUnique

LEMMA submitRefusedUnique ==
    ASSUME ControlInv, Unique, Inserts' \subseteq Inserts, submitRefused
    PROVE  Unique'
  <1>1. PICK r \in Buffers :
              /\ inflight # Absent
              /\ r.source = inflight.source /\ Range(r.visible) = Range(buf.visible)
              /\ IsInjective(inflight.visible) /\ IsInjective(buf.visible) => IsInjective(r.visible)
              /\ buf' \in {r, Absent}
              /\ inflight' = Absent /\ lane' = Tail(lane)
              /\ UNCHANGED <<core, disk, seen, staged, page, landed>>
              /\ budget'.typed = budget.typed /\ budget'.foreign = budget.foreign
    BY submitRefusedCases
  <1>2. staged = Absent /\ lane # <<>> /\ lane[1].kind = "submit" /\ lane \in Seq(Jobs)
    BY <1>1, AtWorker, ControlParts
  <1>3. /\ buf \in Buffers /\ Sound(buf) /\ Sound(inflight) /\ inflight \in Buffers
        /\ Source(buf) = Visible(inflight)
        /\ IsInjective(buf.visible) /\ IsInjective(inflight.visible) /\ IsInjective(inflight.source)
    BY <1>1, BehindSubmission
  <1>4. Source(r) = Source(inflight) /\ Visible(r) = Visible(buf)
    BY <1>1, <1>3, BufferHolds
  <1>5. New(r) \subseteq New(buf) \cup New(inflight)
    BY <1>3, <1>4 DEF New
  <1>6. Sound(r)
    BY <1>1, <1>3, <1>4, <1>5 DEF Sound
  <1>7. Follows(<<>>) /\ lane' = Tail(lane) \o <<>>
    BY <1>1, <1>2, NothingFollows
  <1>8. Early' = {} /\ Resumes' = {}
    BY <1>2, <1>7, AfterTurn
  <1>9. \A b \in {buf', inflight', staged'} \cup Early' : Sound(b)
    BY <1>1, <1>2, <1>6, <1>8, SoundAbsent
  <1>10. New(buf') \cap (EarlyAtoms' \cup Visible(staged')) = {}
    BY <1>1, <1>2, <1>8, NoText2 DEF EarlyAtoms
  <1> QED
    BY <1>1, <1>8, <1>9, <1>10, DraftUnique DEF Thrifty

\* The insertion that runs is not waiting any more.
LEMMA InsertRuns ==
    ASSUME ControlInv, Tally, inflight = Absent, lane # <<>>, lane[1].kind = "insert",
           NEW e, Follows(e), lane' = Tail(lane) \o e
    PROVE  lane[1].payload \in Inserts /\ lane[1].payload \notin Inserts'
  <1>1. Flows({lane[1]}, e)
    BY AfterTurn
  <1>2. lane[1] \in Jobs /\ lane[1] \in Range(lane) /\ \A j \in Range(lane) : j \in Jobs
    <2>1. lane \in Seq(Jobs)
      BY ControlParts
    <2> QED
      BY <2>1, LaneIs DEF Range
  <1>3. \A j \in Range(e) : j.kind # "insert" /\ ~Single(j)
    <2>1. CASE e = <<>>
      BY <2>1, NoText
    <2>2. ASSUME NEW j \in Jobs, e = <<j>>, j.kind \in {"recover", "fill"}
          PROVE  \A k \in Range(e) : k.kind # "insert" /\ ~Single(k)
      <3>1. j.kind # "insert" /\ j.kind # "submit"
        BY <2>2
      <3>2. ~Single(j)
        BY <3>1, ChoiceIs DEF Single, Choice
      <3> QED
        BY <2>2, <3>1, <3>2, SingleRange
    <2> QED
      BY <2>1, <2>2 DEF Follows
  <1>4. lane[1] \notin Range(lane')
    <2>1. Single(lane[1])
      BY DEF Single
    <2> QED
      BY <1>1, <1>3, <2>1 DEF Flows, Tally
  <1>5. ASSUME NEW j \in Range(lane'), j.kind = "insert", j.payload = lane[1].payload
        PROVE  FALSE
    <2>1. j \in Jobs
      BY <1>1, <1>2, <1>3, <1>5 DEF Flows
    <2>2. \A k \in Jobs : k = Job(k.kind, k.payload)
      BY DEF Jobs, Job
    <2>3. j = Job("insert", lane[1].payload) /\ lane[1] = Job("insert", lane[1].payload)
      BY <1>2, <1>5, <2>1, <2>2
    <2>4. j = lane[1]
      BY <2>3
    <2> QED
      BY <1>4, <1>5, <2>4
  <1> QED
    BY <1>2, <1>5 DEF Inserts, Of
-----------------------------------------------------------------------------
LEMMA applyRemoteUnique ==
    ASSUME ControlInv, Tally, TextInv, Unique, Inserts' \subseteq Inserts, Thrifty, ~Races, applyRemote
    PROVE  Unique'
  <1>1. /\ lane # <<>> /\ Head1 = lane[1] /\ Head1 \in Jobs /\ Head1.kind \in RemoteKind /\ inflight = Absent
        /\ staged = Absent /\ page' = page
    BY applyRemoteCases
  <1>2. lane[1].kind \notin TextKind \cup {"save"}
    BY <1>1 DEF TextKind, EarlyKind, RemoteKind
  <1>3. CASE /\ lane' = Tail(lane)
             /\ UNCHANGED <<core, disk, seen, stale, buf, inflight, action, unavailable, orphan, compose,
                            view, staged, gone, landed, budget>>
    BY <1>1, <1>2, <1>3, RunBeside, BesideUnique
  <1>4. ASSUME NEW document \in Imported(Head1), NEW saved \in BOOLEAN, NEW ok \in BOOLEAN, NEW d,
               core.block # Absent,
               Executed(document, FALSE, <<>>, saved, ok, d),
               buf' = IF ok THEN d.buf ELSE buf, staged' = Absent
        PROVE  Unique'
    <2>1. TypeOK /\ core.block \in Texts
      <3>1. TypeOK
        BY ControlParts
      <3> QED
        BY <1>4, <3>1 DEF TypeOK, Docs
    <2>2. /\ document \in Docs /\ document.removed = core.removed
          /\ \/ document.block = Absent /\ Head1.kind = "remove"
             \/ /\ Head1.kind = "delete" /\ document.block \in Texts
                /\ Range(document.block) \subseteq Range(core.block)
                /\ IsInjective(core.block) => IsInjective(document.block)
             \/ /\ Head1.kind = "insert" /\ document.block \in Texts
                /\ Range(document.block) = Range(core.block) \cup {Head1.payload}
                /\ IsInjective(core.block) /\ Head1.payload \notin Range(core.block) => IsInjective(document.block)
      BY <1>1, <1>4, <2>1, ImportedHolds
    <2>3. Range(core.block) \subseteq landed /\ IsInjective(core.block)
      <3>1. Text(core.block) = Range(core.block)
        BY <1>4 DEF Text
      <3> QED
        BY <1>4, <3>1 DEF TextInv, Landing, Unique, Written, Distinct
    <2>4. landed \subseteq Known /\ New(buf) \cap landed = {} /\ Inserts \cap landed = {} /\ New(buf) \subseteq Ours
      BY SoundDrafts DEF Unique, Numbered, Sound, Fresh
    <2>5. ASSUME Distinct(document.block), Text(document.block) \subseteq Known,
                 New(buf) \cap Text(document.block) = {}, Inserts' \cap Text(document.block) = {}
          PROVE  Unique'
      <3>1. PICK own \in BOOLEAN : own = FALSE
        OBVIOUS
      <3>2. Executed(document, own, <<>>, saved, ok, d)
        BY <1>4, <3>1
      <3>3. page'.kept \in {page.kept, Absent} /\ lane[1].kind # "save"
        BY <1>1, <1>2
      <3>4. document \in Docs /\ document.removed \in {core.removed, core.block, Absent}
        BY <2>2
      <3> QED
        BY <1>1, <1>4, <2>5, <3>2, <3>3, <3>4, ExecutedUnique
    <2>6. CASE document.block = Absent
      BY <2>5, <2>6, NoText2, SoundAbsent
    <2>7. CASE Head1.kind = "delete" /\ document.block \in Texts
               /\ Range(document.block) \subseteq Range(core.block) /\ IsInjective(document.block)
      <3>1. Text(document.block) \subseteq landed /\ Distinct(document.block)
        BY <2>3, <2>7, AbsentIsNoData DEF Text, Distinct
      <3>2. /\ Text(document.block) \subseteq Known /\ New(buf) \cap Text(document.block) = {}
            /\ Inserts' \cap Text(document.block) = {}
        BY <2>4, <3>1
      <3> QED
        BY <2>5, <3>1, <3>2
    <2>8. CASE /\ Head1.kind = "insert" /\ document.block \in Texts
               /\ Range(document.block) = Range(core.block) \cup {Head1.payload}
               /\ Head1.payload \notin Range(core.block) => IsInjective(document.block)
      <3>1. PICK e : Follows(e) /\ lane' = Tail(lane) \o e
        BY <1>1, <1>4, ExecutedLane
      <3>2. Head1.payload \in Inserts /\ Head1.payload \notin Inserts'
        BY <1>1, <2>8, <3>1, InsertRuns
      <3>3. Head1.payload \in Theirs /\ Head1.payload \notin landed /\ Head1.payload \notin Ours /\ Head1.payload \in Known
        BY <2>4, <3>2, OursAndTheirs DEF Tally
      <3>4. Text(document.block) = Range(core.block) \cup {Head1.payload} /\ Distinct(document.block)
        BY <2>3, <2>8, <3>3, AbsentIsNoData DEF Text, Distinct
      <3>5. /\ Text(document.block) \subseteq Known /\ New(buf) \cap Text(document.block) = {}
            /\ Inserts' \cap Text(document.block) = {}
        BY <2>3, <2>4, <3>2, <3>3, <3>4
      <3> QED
        BY <2>5, <3>4, <3>5
    <2> QED
      BY <2>2, <2>3, <2>6, <2>7, <2>8
  <1> QED
    BY <1>3, <1>4, applyRemoteCases

LEMMA executeLocalUnique ==
    ASSUME ControlInv, TextInv, Unique, Inserts' \subseteq Inserts, Thrifty, ~Races, executeLocal
    PROVE  Unique'
  <1>1. /\ lane # <<>> /\ Head1 = lane[1] /\ Head1.kind = "local" /\ Head1.payload \in {"remove", "undo"}
        /\ inflight = Absent /\ staged = Absent
    BY executeLocalCases
  <1>2. lane[1].kind \notin EarlyKind \cup {"save", "resume"}
    BY <1>1 DEF EarlyKind
  <1>3. CASE JobFails
    BY <1>1, <1>2, <1>3, FailedBeside, BesideUnique
  <1>4. ASSUME LocalDocument \in Docs,
               Head1.payload = "remove" => LocalDocument.block = Absent /\ LocalDocument.removed = core.block,
               Head1.payload = "undo" => LocalDocument.block = core.removed /\ LocalDocument.removed = Absent,
               NEW saved \in BOOLEAN, NEW ok \in BOOLEAN, NEW d,
               Executed(LocalDocument, TRUE, <<>>, saved, ok, d), buf' = IF ok THEN d.buf ELSE buf,
               UNCHANGED <<staged, page, told>>
        PROVE  Unique'
    <2>1. LocalDocument.block \in {Absent, core.removed}
      BY <1>1, <1>4
    <2>2. Text(LocalDocument.block) \subseteq landed /\ Distinct(LocalDocument.block)
      BY <2>1, NoText2, SoundAbsent DEF TextInv, Landing, Unique, Written
    <2>3. landed \subseteq Known /\ New(buf) \cap landed = {} /\ Inserts \cap landed = {}
      BY SoundDrafts DEF Unique, Numbered, Sound, Fresh
    <2>4. /\ lane[1].kind # "save" /\ TRUE \in BOOLEAN /\ page'.kept \in {page.kept, Absent} /\ staged' = Absent
          /\ LocalDocument.removed \in {core.removed, core.block, Absent}
          /\ Text(LocalDocument.block) \subseteq Known /\ New(buf) \cap Text(LocalDocument.block) = {}
          /\ Inserts' \cap Text(LocalDocument.block) = {}
      BY <1>1, <1>2, <1>4, <2>2, <2>3
    <2> QED
      BY <1>1, <1>4, <2>2, <2>4, ExecutedUnique
  <1> QED
    BY <1>3, <1>4, executeLocalCases

LEMMA executeSplicesUnique ==
    ASSUME ControlInv, Tally, TextInv, Unique, Inserts' \subseteq Inserts, Thrifty, ~Races, executeSplices
    PROVE  Unique'
  <1>1. /\ lane # <<>> /\ lane[1].kind \in EarlyKind /\ inflight = Absent
        /\ lane[1].payload \in Buffers /\ core.block # Absent /\ lane[1].payload.source = core.block
        /\ EarlyDocument \in Docs /\ EarlyDocument.block \in Texts /\ EarlyDocument.removed = core.removed
        /\ Range(EarlyDocument.block) = Visible(lane[1].payload)
        /\ IsInjective(lane[1].payload.source) /\ IsInjective(lane[1].payload.visible)
              => IsInjective(EarlyDocument.block)
        /\ staged' = Absent /\ UNCHANGED <<gone, page, told>>
    BY executeSplicesCases
  <1>2. PICK saved \in BOOLEAN : \E d :
                 /\ Executed(EarlyDocument, TRUE, <<>>, saved, TRUE, d)
                 /\ buf' = d.buf /\ unavailable' = d.unavailable
    BY executeSplicesCases
  <1>3. PICK d : Executed(EarlyDocument, TRUE, <<>>, saved, TRUE, d) /\ buf' = d.buf
    BY <1>2
  <1>4. lane[1].kind # "save" /\ page'.kept \in {page.kept, Absent}
    BY <1>1 DEF EarlyKind
  <1>5. lane[1].payload \in Early
    BY <1>1, <1>4, TurnSets
  <1>6. Sound(lane[1].payload) /\ New(buf) \cap Visible(lane[1].payload) = {}
    <2>1. Visible(lane[1].payload) \subseteq EarlyAtoms
      BY <1>5 DEF EarlyAtoms
    <2> QED
      BY <1>5, <2>1, SoundDrafts
  <1>7. /\ Visible(lane[1].payload) \subseteq Known /\ Inserts \cap Visible(lane[1].payload) = {}
        /\ IsInjective(lane[1].payload.source) /\ IsInjective(lane[1].payload.visible)
    BY <1>1, <1>6, WrittenAtoms
  <1>8. Text(EarlyDocument.block) = Visible(lane[1].payload) /\ Distinct(EarlyDocument.block)
    BY <1>1, <1>7, AbsentIsNoData DEF Text, Distinct
  <1>9. PICK ok \in BOOLEAN : ok = TRUE
    OBVIOUS
  <1>10. Executed(EarlyDocument, ok, <<>>, saved, ok, d) /\ buf' = IF ok THEN d.buf ELSE buf
    BY <1>3, <1>9
  <1>11. /\ EarlyDocument.removed \in {core.removed, core.block, Absent}
         /\ Text(EarlyDocument.block) \subseteq Known /\ New(buf) \cap Text(EarlyDocument.block) = {}
         /\ Inserts' \cap Text(EarlyDocument.block) = {}
    BY <1>1, <1>6, <1>7, <1>8
  <1> QED
    BY <1>1, <1>4, <1>8, <1>10, <1>11, ExecutedUnique

LEMMA restoreUnsavedUnique ==
    ASSUME ControlInv, Unique, Inserts' \subseteq Inserts, Thrifty, ~Races, restoreUnsaved
    PROVE  Unique'
  <1>1. /\ lane # <<>> /\ Head1 = lane[1] /\ lane[1].kind = "resume" /\ lane[1].payload \in Records
        /\ inflight = Absent /\ staged = Absent /\ page'.kept = Absent /\ staged' = staged
    BY restoreUnsavedCases
  <1>2. lane[1].kind # "save" /\ page'.kept \in {page.kept, Absent}
    BY <1>1
  <1>3. Resumes = {lane[1].payload} /\ lane[1].payload.content \in Texts
    BY <1>1, <1>2, TurnSets DEF Records
  <1>4. Range(lane[1].payload.content) = ResumeAtoms /\ IsInjective(lane[1].payload.content)
    BY <1>3 DEF ResumeAtoms, Unique, Stored, Kept
  <1>5. ASSUME core.block # Absent, core.block \in lane[1].payload.bases,
               NEW saved \in BOOLEAN, NEW ok \in BOOLEAN, NEW d,
               Executed(RestoredDocument, TRUE, <<>>, saved, ok, d), buf' = IF ok THEN d.buf ELSE buf
        PROVE  Unique'
    <2>1. RestoredDocument = [core EXCEPT !.block = lane[1].payload.content]
      BY <1>1 DEF RestoredDocument
    <2>2. /\ RestoredDocument \in Docs /\ RestoredDocument.block = lane[1].payload.content
          /\ RestoredDocument.removed = core.removed
      <3>1. core \in Docs
        BY ControlParts DEF TypeOK
      <3> QED
        BY <1>3, <2>1, <3>1 DEF Docs
    <2>3. Text(RestoredDocument.block) = ResumeAtoms /\ Distinct(RestoredDocument.block)
      BY <1>3, <1>4, <2>2, AbsentIsNoData DEF Text, Distinct
    <2>4. ResumeAtoms \subseteq Known /\ New(buf) \cap ResumeAtoms = {} /\ Inserts \cap ResumeAtoms = {}
      BY SoundDrafts DEF Unique, Numbered, Sound, Fresh
    <2>5. /\ TRUE \in BOOLEAN /\ staged' = Absent
          /\ RestoredDocument.removed \in {core.removed, core.block, Absent}
          /\ Text(RestoredDocument.block) \subseteq Known /\ New(buf) \cap Text(RestoredDocument.block) = {}
          /\ Inserts' \cap Text(RestoredDocument.block) = {}
      BY <1>1, <2>2, <2>3, <2>4
    <2> QED
      BY <1>1, <1>2, <1>5, <2>2, <2>3, <2>5, ExecutedUnique
  <1>6. CASE /\ lane' = Tail(lane)
             /\ UNCHANGED <<core, disk, seen, stale, buf, inflight, action, unavailable, orphan, compose,
                            view, landed, budget>>
    <2>1. Follows(<<>>) /\ lane' = Tail(lane) \o <<>>
      BY <1>1, <1>6, ControlParts, NothingFollows
    <2>2. Early' = {} /\ Resumes' = {}
      BY <1>1, <1>2, <2>1, AfterTurn
    <2>3. \A b \in {buf', inflight', staged'} \cup Early' : Sound(b)
      BY <1>1, <1>6, <2>2, SoundDrafts
    <2>4. New(buf') \cap (EarlyAtoms' \cup Visible(staged')) = {}
      BY <1>1, <1>6, <2>2, NoText2 DEF EarlyAtoms
    <2> QED
      BY <1>2, <1>6, <2>2, <2>3, <2>4, DraftUnique
  <1> QED
    BY <1>5, <1>6, restoreUnsavedCases

LEMMA recoverUnique ==
    ASSUME ControlInv, Unique, Inserts' \subseteq Inserts, Thrifty, recover
    PROVE  Unique'
  <1>1. lane # <<>> /\ lane[1].kind = "recover" /\ inflight = Absent /\ UNCHANGED <<staged, page, told, gone>>
    BY recoverCases
  <1>2. CASE /\ buf = Absent /\ lane' = Tail(lane)
             /\ UNCHANGED <<core, disk, seen, stale, buf, inflight, action, unavailable, orphan, compose,
                            view, budget, landed>>
    <2>1. lane[1].kind \notin TextKind
      BY <1>1 DEF TextKind, EarlyKind
    <2>2. Beside
      BY <1>1, <1>2, <2>1, RunBeside
    <2> QED
      BY <2>2, BesideUnique
  <1>3. ASSUME NEW saved \in BOOLEAN, NEW ok \in BOOLEAN, NEW e, NEW d, buf # Absent,
               e = IF ok THEN FillJob ELSE <<>>, HeirExecuted(NewBlock, e, saved, ok, d)
        PROVE  Unique'
    <2>1. core \in Docs /\ core.block = Absent /\ core.removed = Absent /\ buf \in Buffers
      <3>1. Head1 = lane[1]
        BY <1>1, ControlParts, LaneIs
      <3> QED
        BY <1>1, <1>3, <3>1, HeirTurn, ControlParts DEF TypeOK
    <2>2. NewBlock \in Docs /\ NewBlock.block = Absent /\ NewBlock.removed = Absent
      BY <2>1, NoText DEF NewBlock, Docs
    <2>3. Follows(e)
      <3>1. buf.visible \in Texts
        BY <2>1, BufferHolds
      <3>2. Job("fill", buf.visible) \in Jobs /\ Job("fill", buf.visible).kind = "fill"
        BY <3>1, JobMade, JobIs
      <3>3. e = <<>> \/ e = <<Job("fill", buf.visible)>>
        BY <1>3 DEF FillJob
      <3> QED
        BY <3>2, <3>3 DEF Follows
    <2> QED
      BY <1>1, <1>3, <2>2, <2>3, HeirUnique
  <1> QED
    BY <1>2, <1>3, recoverCases

LEMMA fillRecoveredUnique ==
    ASSUME ControlInv, Unique, Inserts' \subseteq Inserts, Thrifty, fillRecovered
    PROVE  Unique'
  <1>1. /\ lane # <<>> /\ lane[1].kind = "fill" /\ Head1 = lane[1] /\ inflight = Absent
        /\ UNCHANGED <<staged, page, told, gone>> /\ FilledBlock \in Docs
        /\ FilledBlock.block = core.block /\ FilledBlock.removed = core.removed
    BY fillRecoveredCases
  <1>2. PICK saved, ok \in BOOLEAN : \E d : HeirExecuted(FilledBlock, <<>>, saved, ok, d)
    BY fillRecoveredCases
  <1>3. PICK d : HeirExecuted(FilledBlock, <<>>, saved, ok, d)
    BY <1>2
  <1>4. core.block = Absent /\ core.removed = Absent /\ Follows(<<>>)
    BY <1>1, HeirTurn DEF Follows
  <1> QED
    BY <1>1, <1>3, <1>4, HeirUnique

LEMMA discardUnique ==
    ASSUME ControlInv, Tally, TextInv, Unique, Inserts' \subseteq Inserts, Thrifty, ~Races, discard
    PROVE  Unique'
  <1>1. /\ core' = disk' /\ seen' = disk'.block /\ buf' = Absent /\ inflight' = Absent /\ staged' = Absent
        /\ page'.kept = page.kept /\ Early' = {} /\ Inserts' = {}
        /\ Resumes' = IF page.kept = Absent THEN {} ELSE {page.kept}
        /\ disk' = disk \/ (inflight # Absent /\ Accepted /\ disk' = Submitted)
        /\ landed' = landed \cup Text(disk'.block)
    BY Discarded
  <1>2. Ours' = Ours /\ Known' = Known /\ budget'.typed = budget.typed
    BY SameNumbers DEF Thrifty
  <1>3. Distinct(disk'.block) /\ Distinct(disk'.removed) /\ Text(disk'.block) \subseteq Known
    <2>1. CASE disk' = disk
      BY <2>1 DEF Unique, Written, Numbered, TextInv, Landing
    <2>2. CASE inflight # Absent /\ Accepted /\ disk' = Submitted
      <3>1. /\ Submitted.block \in Texts /\ Submitted.removed = core.removed /\ inflight.source = core.block
            /\ Range(Submitted.block) = Range(inflight.visible)
            /\ IsInjective(core.block) /\ IsInjective(inflight.visible) => IsInjective(Submitted.block)
        BY <2>2, SubmittedHolds
      <3>2. Sound(inflight) /\ inflight \in Buffers /\ Visible(inflight) = Range(inflight.visible)
        BY <2>2, BehindSubmission, BufferHolds
      <3>3. Visible(inflight) \subseteq Known /\ IsInjective(inflight.visible) /\ IsInjective(core.block)
        BY <3>1, <3>2, WrittenAtoms
      <3>4. Text(Submitted.block) = Visible(inflight) /\ Distinct(Submitted.block)
        BY <3>1, <3>2, <3>3, AbsentIsNoData DEF Text, Distinct
      <3> QED
        BY <2>2, <3>1, <3>3, <3>4 DEF Unique, Written
    <2> QED
      BY <1>1, <2>1, <2>2
  <1>4. Written'
    BY <1>1, <1>3 DEF Written, Distinct
  <1>5. Drafted'
    <2>1. Lowered' = {Absent}
      BY <1>1 DEF Lowered
    <2>2. Sound(Absent)'
      BY NoText2 DEF Sound, Visible, Source, New, Text, Cut
    <2> QED
      BY <2>1, <2>2 DEF Drafted
  <1>6. Stored' /\ ResumeAtoms' \subseteq KeptAtoms /\ KeptAtoms' = KeptAtoms
    <2>1. Kept' \subseteq Kept
      BY <1>1 DEF Kept
    <2>2. Stored'
      BY <2>1 DEF Unique, Stored
    <2> QED
      BY <1>1, <2>2 DEF ResumeAtoms, KeptAtoms
  <1>7. Apart'
    BY <1>1, NoText2 DEF Apart, New, Visible, Source, Cut
  <1>8. Numbered' /\ Fresh'
    BY <1>1, <1>2, <1>3, <1>6 DEF Unique, Numbered, Fresh
  <1> QED
    BY <1>4, <1>5, <1>6, <1>7, <1>8 DEF Unique

\* What another replica writes is new to this one.
LEMMA ArrivedUnique ==
    ASSUME ControlInv, Tally, Unique, Beside, Arrived, budget'.typed = budget.typed
    PROVE  Unique'
  <1>1. PICK a : a = Size + MaxTyped + budget.foreign + 1
    OBVIOUS
  <1>2. Theirs' = Theirs \cup {a} /\ a \notin Theirs /\ Inserts' \subseteq Inserts \cup {a}
    BY <1>1, ForeignAtom DEF Arrived
  <1>3. Ours' = Ours /\ a \notin Ours
    <2>1. budget.foreign \in Nat /\ budget.typed \in Nat /\ Size \in Nat /\ MaxTyped \in Nat
      <3>1. TypeOK
        BY ControlParts
      <3> QED
        BY <3>1, BoundAssumption DEF TypeOK
    <2>2. budget.typed <= MaxTyped
      BY DEF Unique, Numbered
    <2> QED
      BY <1>1, <2>1, <2>2 DEF Ours
  <1>4. Known \subseteq Known' /\ a \notin Known
    BY <1>2, <1>3 DEF Known
  <1>5. /\ UNCHANGED <<core, seen, landed, buf, inflight, staged>> /\ disk' \in {disk, core}
        /\ Early' = Early /\ Resumes' = Resumes /\ page'.kept \in {page.kept, Absent}
    BY DEF Beside
  <1>6. Stored' /\ ResumeAtoms' \subseteq ResumeAtoms /\ KeptAtoms' \subseteq KeptAtoms
    BY <1>5, KeptUnique
  <1>7. Written'
    BY <1>5 DEF Unique, Written, Distinct
  <1>8. Drafted'
    <2>1. Lowered' = Lowered
      BY <1>5 DEF Lowered
    <2>2. ASSUME NEW b, Sound(b)
          PROVE  Sound(b)'
      BY <1>3, <1>4, <1>5, <1>6, <2>2 DEF Sound, Visible, Source, New
    <2> QED
      BY <2>1, <2>2 DEF Drafted, Unique
  <1>9. Apart'
    BY <1>5 DEF Unique, Apart, EarlyAtoms
  <1>10. Numbered'
    BY <1>4, <1>5, <1>6 DEF Unique, Numbered
  <1>11. Fresh'
    BY <1>2, <1>4, <1>5, <1>6 DEF Unique, Numbered, Fresh
  <1> QED
    BY <1>6, <1>7, <1>8, <1>9, <1>10, <1>11 DEF Unique

LEMMA ArrivesUnique ==
    ASSUME ControlInv, Tally, Unique, ~Races, remoteArrives
    PROVE  Unique'
  <1>1. Beside
    BY BesideSteps
  <1>2. budget'.typed = budget.typed /\ budget'.foreign \in {budget.foreign, budget.foreign + 1}
    BY ArrivesThrifty
  <1>3. CASE Arrived
    BY <1>1, <1>2, <1>3, ArrivedUnique
  <1>4. CASE ~Arrived
    <2>1. CASE budget'.foreign = budget.foreign
      <3>1. Inserts' \subseteq Inserts
        <4>1. budget.foreign \in Nat
          BY ControlParts DEF TypeOK
        <4> QED
          BY <1>4, <2>1, <4>1, ArrivesTally DEF Tallied
      <3> QED
        BY <1>1, <1>2, <2>1, <3>1, BesideUnique DEF Thrifty
    <2>2. CASE budget'.foreign = budget.foreign + 1
      <3>1. Inserts' \subseteq Inserts
        BY <1>4, ArrivesTally DEF Tallied
      <3>2. Arrived
        BY <2>2, <3>1 DEF Arrived
      <3> QED
        BY <1>4, <3>2
    <2> QED
      BY <1>2, <2>1, <2>2
  <1> QED
    BY <1>3, <1>4

LEMMA InitUnique ==
    ASSUME Init
    PROVE  Unique
  <1>1. /\ core = Doc(Original) /\ disk = Doc(Original) /\ seen = Original /\ lane = <<>>
        /\ buf = Absent /\ inflight = Absent /\ staged = Absent /\ page = NoPage
        /\ landed = Range(Original) /\ budget.typed = 0
    BY DEF Init
  <1>2. core.block = Original /\ core.removed = Absent /\ disk.block = Original /\ disk.removed = Absent
        /\ page.kept = Absent
    BY <1>1 DEF Doc, NoPage
  <1>3. Early = {} /\ Resumes = {} /\ Inserts = {}
    BY <1>1, NoJobsYet
  <1>4. Written
    BY <1>1, <1>2, OriginalText, SoundAbsent DEF Written, Distinct
  <1>5. Drafted
    BY <1>1, <1>3, SoundAbsent DEF Drafted, Lowered
  <1>6. Stored /\ Apart /\ Fresh
    BY <1>1, <1>2, <1>3, NoText2 DEF Stored, Kept, Apart, Fresh
  <1>7. Numbered
    <2>1. ResumeAtoms = {} /\ KeptAtoms = {}
      BY <1>2, <1>3 DEF ResumeAtoms, KeptAtoms
    <2>2. MaxTyped \in Nat /\ Size \in Nat
      BY BoundAssumption
    <2>3. landed = Ours
      BY <1>1, <2>2, OriginalText DEF Ours
    <2> QED
      BY <1>1, <2>1, <2>2, <2>3 DEF Numbered, Known
  <1> QED
    BY <1>4, <1>5, <1>6, <1>7 DEF Unique

LEMMA IdleUnique ==
    ASSUME Unique, UNCHANGED vars
    PROVE  Unique'
  <1>1. Beside
    BY StillFlows DEF vars, Beside, LaneSame
  <1>2. Thrifty /\ Inserts' = Inserts
    BY DEF vars, Thrifty, Inserts, Of
  <1> QED
    BY <1>1, <1>2, BesideUnique

LEMMA NextUnique ==
    ASSUME ControlInv, Tally, TextInv, Unique, ~Races, Next
    PROVE  Unique'
  <1>1. CASE Surface \/ flushTimer
    <2>1. Inserts' \subseteq Inserts
      BY <1>1, SurfaceTally DEF Tallied
    <2>2. CASE Type
      BY <2>1, <2>2, TypeUnique
    <2>3. CASE ~Type
      <3>1. Thrifty
        BY <1>1, <2>3, SurfaceThrifty
      <3>2. CASE closeMenu \/ commitDraftWith \/ compositionStart \/ flushTimer
        BY <2>1, <3>1, <3>2, BesideSteps, BesideUnique
      <3> QED
        BY <1>1, <2>1, <2>3, <3>1, <3>2, observeUnique, EraseUnique, leaveUnique, compositionEndUnique,
           stageDraftSpliceUnique, pickerUnique, runVimWordMotionUnique DEF Surface
    <2> QED
      BY <2>2, <2>3
  <1>2. CASE Lane
    <2>1. Inserts' \subseteq Inserts /\ Thrifty
      BY <1>2, LaneTally, LaneThrifty DEF Tallied
    <2>2. CASE refuseJob \/ retryNow
      BY <2>1, <2>2, BesideSteps, BesideUnique
    <2> QED
      BY <1>2, <2>1, <2>2, ensureCurrentUnique, submitPrepareUnique, submitSavedUnique, submitUnpublishedUnique,
         submitRefusedUnique, applyRemoteUnique, executeLocalUnique, executeSplicesUnique, recoverUnique,
         fillRecoveredUnique, restoreUnsavedUnique DEF Lane
  <1>3. CASE World
    <2>1. CASE remoteArrives
      BY <2>1, ArrivesUnique
    <2>2. CASE ~remoteArrives
      <3>1. Inserts' \subseteq Inserts /\ Thrifty
        BY <1>3, <2>2, WorldTally, WorldThrifty DEF Tallied
      <3>2. CASE localArrives \/ retry \/ show
        BY <3>1, <3>2, BesideSteps, BesideUnique
      <3> QED
        BY <1>3, <2>2, <3>1, <3>2, hideUnique, discardUnique DEF World
    <2> QED
      BY <2>1, <2>2
  <1> QED
    BY <1>1, <1>2, <1>3 DEF Next

LEMMA OnceHolds == ~Races => (Spec => [](ControlInv /\ TextInv /\ Tally /\ Unique))
  <1> SUFFICES ASSUME ~Races PROVE Spec => [](ControlInv /\ TextInv /\ Tally /\ Unique)
    OBVIOUS
  <1>1. Init => ControlInv /\ TextInv /\ Tally /\ Unique
    BY InitControl, InitText, InitTally, InitUnique
  <1>2. ControlInv /\ TextInv /\ Tally /\ Unique /\ [Next]_vars => (ControlInv /\ TextInv /\ Tally /\ Unique)'
    BY NextControl, IdleControl, NextText, IdleText, NextTally, IdleTally, NextUnique, IdleUnique
  <1> QED
    BY <1>1, <1>2, PTL DEF Spec

\* No character is ever twice in the saved text and no action of a submission
\* is executed twice: rebaseBuffer, restoreBuffer, the early edits, the record
\* of a hidden page and the submission that is sent again never write what the
\* graph already holds.
THEOREM OnceOnly == ~Races => (Spec => []NothingTwice)
  <1> SUFFICES ASSUME ~Races PROVE Spec => []NothingTwice
    OBVIOUS
  <1>1. ControlInv /\ Tally /\ Unique => NothingTwice
    <2> SUFFICES ASSUME ControlInv, Tally, Unique PROVE NothingTwice
      OBVIOUS
    <2>1. core.acted <= 1
      BY DEF Tally, Once
    <2> QED
      BY <2>1 DEF Unique, Written, Distinct, NothingTwice
  <1> QED
    BY <1>1, OnceHolds, PTL
=============================================================================
