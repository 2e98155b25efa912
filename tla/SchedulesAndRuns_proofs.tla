------------------------- MODULE SchedulesAndRuns_proofs -------------------------
(***************************************************************************)
(* Proofs about the runs of a workflow (WorkflowRuns), for any number of   *)
(* runs, any rows, any retention and any budget of alerts; and about the   *)
(* scheduler (Schedules), for any number of schedules, any intervals, any  *)
(* bound on the ages and any number of faults.                             *)
(***************************************************************************)
EXTENDS WorkflowRuns, Schedules, Lemmas

(***************************************************************************)
(* Runs                                                                    *)
(***************************************************************************)
Pc(r) == call[r].pc
Verdict(r) == IF call[r].ok THEN "succeeded" ELSE "failed"

\* A run gets its row once; when it is over the row says how it ended, and is
\* missing only when Keep newer ones are there.
RowsInv ==
    /\ \A r \in Runs : Pc(r) \in {"idle", "create"} => r \notin rows /\ status[r] = "none"
    /\ \A r \in Runs : Pc(r) = "over" /\ status[r] # "none" =>
          /\ status[r] = Verdict(r)
          /\ present => r \in rows \/ Cardinality({s \in rows : Newer(s, r)}) >= Keep
    /\ RetentionBound

\* Without faults one run is at work at a time; what was alerted is in the memory, or
\* in what the run at work is about to save, and what it is about to alert is new.
SerialInv ==
    runFaults = {} =>
       /\ \A r, s \in Runs : InFlight(r) /\ InFlight(s) => r = s
       /\ \A r \in Runs : Pc(r) \in {"source", "dedup", "alert", "save"} => memory \subseteq call[r].mem
       /\ \A i \in Items : alerts[i] > 0 =>
             i \in memory \/ \E r \in Runs : Pc(r) = "save" /\ i \in call[r].mem
       /\ \A r \in Runs : Pc(r) = "alert" =>
             \A i \in call[r].batch : i \in call[r].mem /\ alerts[i] = 0
       /\ SerialAlertsOnce

\* Why an item may be remembered.
Explained(i) ==
    \/ alerts[i] > 0
    \/ \E r \in Runs : /\ i \in call[r].took
                       /\ ~call[r].ok \/ Cardinality(call[r].took) > Budget

LossInv ==
    /\ \A i \in memory : Explained(i)
    /\ \A r \in Runs :
          /\ Pc(r) \in {"source", "dedup", "save"} => \A i \in call[r].mem : Explained(i)
          /\ Pc(r) = "alert" => /\ call[r].batch = call[r].took
                                /\ \A i \in call[r].mem \ call[r].took : Explained(i)
          /\ Pc(r) \in {"idle", "create", "validate", "load", "source", "dedup"} =>
                call[r].took = {} /\ call[r].ok

FiniteInv ==
    /\ IsFiniteSet(rows) /\ IsFiniteSet(arrived)
    /\ \A r \in Runs : IsFiniteSet(call[r].batch) /\ IsFiniteSet(call[r].took)

RunsInv == RunsTypeOK /\ FiniteInv /\ RowsInv /\ SerialInv /\ LossInv

-----------------------------------------------------------------------------
(* Retention *)

\* started_at, then the id: a strict order of all runs.
LEMMA NewerOrders ==
    ASSUME started \in [Runs -> Nat], NEW r \in Runs, NEW s \in Runs, NEW t \in Runs
    PROVE  /\ ~Newer(r, r)
           /\ Newer(r, s) /\ Newer(s, t) => Newer(r, t)
           /\ r # s => Newer(r, s) \/ Newer(s, r)
BY RunsAssumption DEF Newer

\* Fewer newer runs means newer.
LEMMA NewerCounts ==
    ASSUME started \in [Runs -> Nat], NEW R \in SUBSET Runs, IsFiniteSet(R),
           NEW r \in R, NEW s \in Runs, Newer(r, s)
    PROVE  LET above(t) == {q \in R : Newer(q, t)}
           IN /\ Cardinality(above(r)) \in Nat /\ Cardinality(above(s)) \in Nat
              /\ Cardinality(above(r)) < Cardinality(above(s))
<1> DEFINE above(t) == {q \in R : Newer(q, t)}
<1>1. above(r) \in SUBSET above(s) /\ r \in above(s) /\ r \notin above(r) BY NewerOrders
<1>2. above(s) \in SUBSET R OBVIOUS
<1>3. IsFiniteSet(above(s)) BY <1>2, FS_Subset
<1>4. IsFiniteSet(above(r)) /\ Cardinality(above(r)) <= Cardinality(above(s))
      /\ (Cardinality(above(s)) = Cardinality(above(r)) => above(s) = above(r))
  <2> HIDE DEF above
  <2> QED BY <1>1, <1>3, FS_Subset
<1>5. Cardinality(above(r)) \in Nat /\ Cardinality(above(s)) \in Nat
  <2> HIDE DEF above
  <2> QED BY <1>3, <1>4, FS_CardinalityType
<1>6. Cardinality(above(r)) < Cardinality(above(s))
  <2> HIDE DEF above
  <2> QED BY <1>1, <1>4, <1>5
<1> QED BY <1>5, <1>6

\* The rows that finish_run leaves are at most Keep.
LEMMA NewestBound ==
    ASSUME started \in [Runs -> Nat], NEW R \in SUBSET Runs, IsFiniteSet(R)
    PROVE  IsFiniteSet(Newest(R)) /\ Cardinality(Newest(R)) <= Keep
<1> DEFINE N == Newest(R)
           above(t) == {q \in R : Newer(q, t)}
           n == [r \in Runs |-> Keep - 1 - Cardinality(above(r))]
<1>k. Keep \in Nat /\ Keep > 0 BY KeepAssumption
<1>1. N \in SUBSET R /\ \A r \in N : r \in Runs /\ Cardinality(above(r)) < Keep BY DEF Newest
<1>2. IsFiniteSet(N) BY <1>1, FS_Subset
<1>3. CASE N = {} BY <1>2, <1>3, <1>k, FS_EmptySet
<1>4. CASE N # {}
  <2>1. \A r \in N : IsFiniteSet(above(r)) /\ Cardinality(above(r)) \in Nat
    <3> SUFFICES ASSUME NEW r \in N PROVE IsFiniteSet(above(r)) /\ Cardinality(above(r)) \in Nat
      OBVIOUS
    <3>1. above(r) \in SUBSET R OBVIOUS
    <3> QED BY <3>1, FS_Subset, FS_CardinalityType
  <2>2. \A r \in N : n[r] \in Nat /\ n[r] = Keep - 1 - Cardinality(above(r))
    <3> HIDE DEF above, N
    <3> QED BY <1>1, <1>k, <2>1
  <2>3. PICK o \in N : \A s \in N : n[o] <= n[s]
    <3> HIDE DEF n, N
    <3> QED BY <1>4, <2>2, LeastMeasure
  <2>4. \A s \in N \ {o} : Newer(s, o)
    <3> SUFFICES ASSUME NEW s \in N \ {o}, Newer(o, s) PROVE FALSE
      BY <1>1, NewerOrders
    <3>1. Cardinality(above(o)) < Cardinality(above(s)) BY <1>1, NewerCounts
    <3>2. n[o] <= n[s] BY <2>3
    <3> HIDE DEF above, n, N
    <3> QED BY <3>1, <3>2, <2>1, <2>2, <1>k
  <2>5. N \ {o} \in SUBSET above(o) BY <1>1, <2>4
  <2>6. IsFiniteSet(N \ {o}) /\ Cardinality(N \ {o}) <= Cardinality(above(o))
    <3> HIDE DEF above, N
    <3> QED BY <2>1, <2>5, FS_Subset
  <2>7. Cardinality(N) \in Nat /\ Cardinality(N \ {o}) = Cardinality(N) - 1
    <3> HIDE DEF N
    <3> QED BY <1>2, FS_RemoveElement, FS_CardinalityType
  <2>8. Cardinality(N) <= Keep
    <3>1. o \in N /\ Cardinality(above(o)) \in Nat /\ Cardinality(above(o)) < Keep BY <1>1, <2>1
    <3> HIDE DEF above, N
    <3> QED BY <1>k, <2>6, <2>7, <3>1
  <2> QED BY <1>2, <2>8
<1> QED BY <1>3, <1>4

\* A run outside the newest Keep stays outside when the others are pruned.
LEMMA NewestKeeps ==
    ASSUME started \in [Runs -> Nat], NEW R \in SUBSET Runs, IsFiniteSet(R), NEW r \in Runs,
           Cardinality({s \in R : Newer(s, r)}) >= Keep
    PROVE  Cardinality({s \in Newest(R) : Newer(s, r)}) >= Keep
<1> DEFINE above(t) == {q \in R : Newer(q, t)}
           A == {s \in Newest(R) : Newer(s, r)}
           B == above(r) \ A
           n == [s \in Runs |-> Cardinality(above(s))]
<1>k. Keep \in Nat BY KeepAssumption
<1>0. \A t \in Runs : IsFiniteSet(above(t)) /\ Cardinality(above(t)) \in Nat
  <2> SUFFICES ASSUME NEW t \in Runs PROVE IsFiniteSet(above(t)) /\ Cardinality(above(t)) \in Nat
    OBVIOUS
  <2>1. above(t) \in SUBSET R OBVIOUS
  <2> QED BY <2>1, FS_Subset, FS_CardinalityType
<1>1. A \in SUBSET above(r) /\ \A s \in R : Newer(s, r) /\ Cardinality(above(s)) < Keep => s \in A
  BY DEF Newest
<1>2. IsFiniteSet(A) /\ Cardinality(A) \in Nat
  <2> HIDE DEF A, above
  <2> QED BY <1>0, <1>1, FS_Subset, FS_CardinalityType
<1> SUFFICES ASSUME Cardinality(A) < Keep PROVE FALSE
  BY <1>2, <1>k
<1>3. B # {}
  <2>1. A # above(r) BY <1>0, <1>2, <1>k
  <2> QED BY <1>1, <2>1
<1>4. \A s \in B : n[s] \in Nat /\ n[s] = Cardinality(above(s)) /\ s \in R /\ Newer(s, r) /\ s \in Runs
  BY <1>0
<1>5. PICK b \in B : \A s \in B : n[b] <= n[s]
  <2> HIDE DEF B, n
  <2> QED BY <1>3, <1>4, LeastMeasure
<1>6. above(b) \in SUBSET A
  <2> SUFFICES ASSUME NEW s \in above(b), s \notin A PROVE FALSE OBVIOUS
  <2>1. s \in B BY <1>4, NewerOrders
  <2>2. Cardinality(above(s)) < Cardinality(above(b)) BY <1>4, NewerCounts
  <2>3. n[b] <= n[s] BY <1>5, <2>1
  <2> HIDE DEF above, n, A, B
  <2> QED BY <1>4, <1>5, <2>1, <2>2, <2>3
<1>7. Cardinality(above(b)) <= Cardinality(A)
  <2> HIDE DEF A, above
  <2> QED BY <1>2, <1>6, FS_Subset
<1>8. Cardinality(above(b)) < Keep
  <2>1. Cardinality(above(b)) \in Nat BY <1>0, <1>4
  <2> HIDE DEF above, A
  <2> QED BY <1>2, <1>7, <1>k, <2>1
<1> QED BY <1>1, <1>4, <1>8

-----------------------------------------------------------------------------
(* The invariant, part by part *)

LEMMA RunsInitially == RunsInit => RunsInv
<1> SUFFICES ASSUME RunsInit PROVE RunsInv OBVIOUS
<1>1. RunsTypeOK
  BY FS_EmptySet, BoundAssumption DEF RunsInit, RunsTypeOK, NotCalled, Call, RunPhases, NoRun
<1>2. FiniteInv BY FS_EmptySet DEF RunsInit, FiniteInv, NotCalled
<1>3. RowsInv
  <2>1. {r \in rows : status[r] = "running"} = {} BY DEF RunsInit
  <2> QED BY <2>1, FS_EmptySet, KeepAssumption DEF RunsInit, RowsInv, NotCalled, RetentionBound, Pc
<1>4. SerialInv BY DEF RunsInit, SerialInv, SerialAlertsOnce, NotCalled, InFlight, Pc
<1>5. LossInv BY DEF RunsInit, LossInv, NotCalled, Pc
<1> QED BY <1>1, <1>2, <1>3, <1>4, <1>5 DEF RunsInv

LEMMA CallTypes ==
    ASSUME RunsTypeOK, NEW r \in Runs
    PROVE  /\ call[r] \in Call /\ call[r].pc \in RunPhases /\ call[r].ok \in BOOLEAN
           /\ call[r].mem \in SUBSET Items /\ call[r].batch \in SUBSET Items
           /\ call[r].took \in SUBSET Items
BY DEF RunsTypeOK, Call

LEMMA TypeStep ==
    ASSUME RunsTypeOK, [RunsNext]_runVars
    PROVE  RunsTypeOK'
<1> USE DEF RunsTypeOK, runEnv, Call, RunPhases
<1>1. ASSUME NEW r \in Runs, RunNow(r) PROVE RunsTypeOK' BY <1>1 DEF RunNow, Begin, Goto
<1>2. ASSUME NEW r \in Runs, RunScheduled(r) PROVE RunsTypeOK'
  <2>1. sched' = {r} /\ Cardinality(sched') = 1 BY <1>2, FS_Singleton DEF RunScheduled
  <2> QED BY <1>2, <2>1 DEF RunScheduled, Begin, Goto
<1>3. ASSUME NEW r \in Runs, CreateRun(r) PROVE RunsTypeOK' BY <1>3 DEF CreateRun, Goto
<1>4. ASSUME NEW r \in Runs, Validate(r) PROVE RunsTypeOK' BY <1>4 DEF Validate, Goto
<1>5. ASSUME NEW r \in Runs, GetMemory(r) PROVE RunsTypeOK' BY <1>5 DEF GetMemory
<1>6. ASSUME NEW r \in Runs, BlockFails(r) PROVE RunsTypeOK' BY <1>6 DEF BlockFails
<1>7. ASSUME NEW r \in Runs, SourceBlock(r) PROVE RunsTypeOK' BY <1>7 DEF SourceBlock
<1>8. ASSUME NEW r \in Runs, PythonBlock(r) PROVE RunsTypeOK'
  <2> DEFINE new == call[r].batch \ call[r].mem
  <2>1. new \in SUBSET Items /\ call[r].mem \cup new \in SUBSET Items BY CallTypes
  <2>2. call' = [call EXCEPT ![r].pc = "alert", ![r].batch = new, ![r].took = new,
                             ![r].mem = @ \cup new]
    BY <1>8 DEF PythonBlock
  <2> HIDE DEF new
  <2>3. call[r] \in Call BY CallTypes
  <2>4. [call[r] EXCEPT !.pc = "alert", !.batch = new, !.took = new, !.mem = @ \cup new] \in Call
    BY <2>1, <2>3
  <2>5. call' \in [Runs -> Call] BY <2>2, <2>4
  <2> QED BY <1>8, <2>5 DEF PythonBlock
<1>9. ASSUME NEW r \in Runs, AlertBlock(r) PROVE RunsTypeOK' BY <1>9 DEF AlertBlock, Publish, Goto
<1>10. ASSUME NEW r \in Runs, SaveMemory(r) PROVE RunsTypeOK' BY <1>10 DEF SaveMemory, Goto
<1>11. ASSUME NEW r \in Runs, FinishRun(r) PROVE RunsTypeOK'
  <2>1. rows' \in SUBSET rows BY <1>11 DEF FinishRun, Newest
  <2>2. status' \in [Runs -> {"none", "running", "succeeded", "failed"}]
        /\ \A s \in rows : status'[s] # "none"
    BY <1>11 DEF FinishRun
  <2>3. call' \in [Runs -> Call]
    <3>1. \E p \in {"over", "raised"} : call' = [call EXCEPT ![r].pc = p] BY <1>11 DEF FinishRun, Goto
    <3> QED BY <3>1
  <2> QED BY <1>11, <2>1, <2>2, <2>3 DEF FinishRun
<1>12. CASE RunReturns BY <1>12, FS_EmptySet DEF RunReturns, NoRun
<1>13. CASE ReplaceMemory \/ DeleteWorkflow BY <1>13 DEF ReplaceMemory, DeleteWorkflow
<1>14. CASE CrashRuns BY <1>14, FS_EmptySet DEF CrashRuns, NoRun
<1>15. CASE Tick \/ \E i \in Items : Arrive(i) BY <1>15, BoundAssumption DEF Arrive, Tick
<1>16. CASE UNCHANGED runVars BY <1>16 DEF runVars
<1> QED BY <1>1, <1>2, <1>3, <1>4, <1>5, <1>6, <1>7, <1>8, <1>9, <1>10, <1>11, <1>12, <1>13, <1>14,
           <1>15, <1>16 DEF RunsNext, Work

LEMMA FiniteStep ==
    ASSUME RunsTypeOK, FiniteInv, [RunsNext]_runVars
    PROVE  FiniteInv'
<1> USE DEF RunsTypeOK, FiniteInv, runEnv, Call, RunPhases
<1>1. ASSUME NEW r \in Runs, RunNow(r) \/ RunScheduled(r) \/ Validate(r) \/ GetMemory(r)
                             \/ BlockFails(r) \/ SourceBlock(r) \/ SaveMemory(r)
      PROVE  FiniteInv'
  BY <1>1 DEF RunNow, RunScheduled, Begin, Goto, Validate, GetMemory, BlockFails, SourceBlock, SaveMemory
<1>2. ASSUME NEW r \in Runs, CreateRun(r) PROVE FiniteInv'
  <2>1. IsFiniteSet(rows \cup {r}) BY FS_AddElement
  <2> QED BY <1>2, <2>1 DEF CreateRun, Goto
<1>3. ASSUME NEW r \in Runs, PythonBlock(r) PROVE FiniteInv'
  BY <1>3, FS_Difference DEF PythonBlock
<1>4. ASSUME NEW r \in Runs, AlertBlock(r) PROVE FiniteInv' BY <1>4 DEF AlertBlock, Goto
<1>5. ASSUME NEW r \in Runs, FinishRun(r) PROVE FiniteInv'
  <2>1. IsFiniteSet(Newest(rows)) BY NewestBound
  <2> QED BY <1>5, <2>1 DEF FinishRun, Goto
<1>6. CASE RunReturns \/ ReplaceMemory BY <1>6 DEF RunReturns, ReplaceMemory
<1>7. CASE DeleteWorkflow BY <1>7, FS_EmptySet DEF DeleteWorkflow
<1>8. CASE CrashRuns BY <1>8 DEF CrashRuns
<1>9. CASE \E i \in Items : Arrive(i) BY <1>9, FS_AddElement DEF Arrive
<1>10. CASE Tick BY <1>10 DEF Tick
<1>11. CASE UNCHANGED runVars BY <1>11 DEF runVars
<1> QED BY <1>1, <1>2, <1>3, <1>4, <1>5, <1>6, <1>7, <1>8, <1>9, <1>10, <1>11 DEF RunsNext, Work

\* A step that moves calls along, and neither creates nor ends a row, keeps the rows right.
LEMMA RowsAlone ==
    ASSUME RunsTypeOK, RowsInv, UNCHANGED <<rows, status, started>>, present' => present,
           \A r \in Runs : /\ Pc(r)' \in {"idle", "create"} => Pc(r) \in {"idle", "create"}
                           /\ Pc(r)' = "over" /\ status[r] # "none" =>
                                 Pc(r) = "over" /\ call'[r].ok = call[r].ok
    PROVE  RowsInv'
BY DEF RowsInv, RetentionBound, Newer, Verdict, Pc

LEMMA RowsStep ==
    ASSUME RunsTypeOK, FiniteInv, RowsInv, [RunsNext]_runVars
    PROVE  RowsInv'
<1> USE DEF RunsTypeOK, runEnv, Call, RunPhases, Pc
<1>1. ASSUME NEW r \in Runs, RunNow(r) \/ RunScheduled(r) \/ Validate(r) \/ GetMemory(r)
                             \/ BlockFails(r) \/ SourceBlock(r) \/ PythonBlock(r) \/ AlertBlock(r)
                             \/ SaveMemory(r)
      PROVE  RowsInv'
  <2>1. UNCHANGED <<rows, status, started, present>>
    BY <1>1 DEF RunNow, RunScheduled, Validate, GetMemory, BlockFails, SourceBlock, PythonBlock,
                AlertBlock, SaveMemory
  <2>2. /\ \A s \in Runs \ {r} : call'[s] = call[s]
        /\ Pc(r)' \in {"idle", "create"} => Pc(r) = "idle"
        /\ Pc(r)' = "over" => Pc(r) = "idle"
    BY <1>1 DEF RunNow, RunScheduled, Begin, Validate, GetMemory, BlockFails, SourceBlock, PythonBlock,
                AlertBlock, SaveMemory, Goto
  <2>3. Pc(r) = "idle" => status[r] = "none" BY DEF RowsInv
  <2> QED BY <2>1, <2>2, <2>3, RowsAlone
<1>2. ASSUME NEW r \in Runs, CreateRun(r) PROVE RowsInv'
  <2>1. r \notin rows /\ rows' = rows \cup {r} /\ present' = present
        /\ status' = [status EXCEPT ![r] = "running"] /\ started' = [started EXCEPT ![r] = now]
        /\ call' = [call EXCEPT ![r].pc = "validate"] /\ Pc(r) = "create"
    BY <1>2 DEF CreateRun, Goto, RowsInv
  <2>2. \A s \in Runs : Pc(s)' \in {"idle", "create"} => s \notin rows' /\ status'[s] = "none"
    BY <2>1 DEF RowsInv
  <2>3. ASSUME NEW s \in Runs, Pc(s)' = "over", status'[s] # "none"
        PROVE  /\ status'[s] = Verdict(s)'
               /\ present' => s \in rows' \/ Cardinality({q \in rows : Newer(q, s)}') >= Keep
    <3>1. s # r /\ call'[s] = call[s] /\ status'[s] = status[s] BY <2>1, <2>3
    <3>2. {q \in rows : Newer(q, s)} \in SUBSET {q \in rows : Newer(q, s)}'
      BY <2>1, <3>1 DEF Newer
    <3>3. {q \in rows : Newer(q, s)}' \in SUBSET rows' OBVIOUS
    <3>4. IsFiniteSet(rows') BY <2>1, FS_AddElement DEF FiniteInv
    <3>5. /\ Cardinality({q \in rows : Newer(q, s)}) \in Nat
          /\ Cardinality({q \in rows : Newer(q, s)}') \in Nat
          /\ Cardinality({q \in rows : Newer(q, s)}) <= Cardinality({q \in rows : Newer(q, s)}')
      <4> DEFINE X == {q \in rows : Newer(q, s)}
                 Y == {q \in rows : Newer(q, s)}'
      <4>1. X \in SUBSET Y /\ Y \in SUBSET rows' BY <3>2, <3>3
      <4> HIDE DEF X, Y
      <4>2. IsFiniteSet(Y) BY <3>4, <4>1, FS_Subset
      <4> QED BY <4>1, <4>2, FS_Subset, FS_CardinalityType DEF X, Y
    <3>6. /\ status[s] = Verdict(s)
          /\ present => s \in rows \/ Cardinality({q \in rows : Newer(q, s)}) >= Keep
      BY <2>3, <3>1 DEF RowsInv
    <3>7. Verdict(s)' = Verdict(s) BY <3>1 DEF Verdict
    <3> HIDE DEF RunsTypeOK
    <3> QED BY <2>1, <3>1, <3>5, <3>6, <3>7, KeepAssumption
  <2>4. RetentionBound'
    <3> DEFINE X == {s \in rows : status[s] = "running"}
    <3>1. X' = X \cup {r} /\ r \notin X BY <2>1
    <3>2. IsFiniteSet(X) /\ X \in SUBSET rows BY FS_Subset DEF FiniteInv
    <3>3. Cardinality(rows) <= Keep + Cardinality(X) BY DEF RowsInv, RetentionBound
    <3> HIDE DEF X
    <3>4. Cardinality(X') = Cardinality(X) + 1 /\ Cardinality(X) \in Nat
      BY <3>1, <3>2, FS_AddElement, FS_CardinalityType
    <3>5. Cardinality(rows') = Cardinality(rows) + 1 /\ Cardinality(rows) \in Nat
      BY <2>1, FS_AddElement, FS_CardinalityType DEF FiniteInv
    <3>6. Cardinality(rows') <= Keep + Cardinality(X') BY <3>3, <3>4, <3>5, KeepAssumption
    <3> QED BY <3>6 DEF RetentionBound, X
  <2> QED BY <2>2, <2>3, <2>4 DEF RowsInv
<1>3. ASSUME NEW r \in Runs, FinishRun(r), r \in rows PROVE RowsInv'
  <2>1. rows' = Newest(rows) /\ present' = present /\ started' = started
        /\ status' = [status EXCEPT ![r] = Verdict(r)] /\ call' = [call EXCEPT ![r].pc = "over"]
        /\ Pc(r) = "finish"
    BY <1>3 DEF FinishRun, Goto, Verdict
  <2>2. \A s \in Runs : Pc(s)' \in {"idle", "create"} => s \notin rows' /\ status'[s] = "none"
    BY <2>1 DEF RowsInv, Newest
  <2>3. ASSUME NEW s \in Runs, Pc(s)' = "over", status'[s] # "none"
        PROVE  /\ status'[s] = Verdict(s)'
               /\ present' => s \in rows' \/ Cardinality({q \in rows : Newer(q, s)}') >= Keep
    <3>1. status'[s] = Verdict(s)' BY <2>1, <2>3 DEF RowsInv, Verdict
    <3>2. ASSUME present', s \notin rows' PROVE Cardinality({q \in rows : Newer(q, s)}) >= Keep
      <4>1. CASE s \in rows
        <5>1. {q \in rows : Newer(q, s)} \in SUBSET rows OBVIOUS
        <5>2. Cardinality({q \in rows : Newer(q, s)}) \in Nat
          BY <5>1, FS_Subset, FS_CardinalityType DEF FiniteInv
        <5> QED BY <2>1, <3>2, <4>1, <5>2, KeepAssumption DEF Newest
      <4>2. CASE s \notin rows BY <1>3, <2>1, <2>3, <3>2, <4>2 DEF RowsInv
      <4> QED BY <4>1, <4>2
    <3>3. {q \in rows : Newer(q, s)}' = {q \in Newest(rows) : Newer(q, s)}
      BY <2>1 DEF Newer
    <3>4. started \in [Runs -> Nat] /\ rows \in SUBSET Runs OBVIOUS
    <3> HIDE DEF RunsTypeOK
    <3> QED BY <3>1, <3>2, <3>3, <3>4, NewestKeeps DEF FiniteInv
  <2>4. RetentionBound'
    <3>1. IsFiniteSet(Newest(rows)) /\ Cardinality(Newest(rows)) <= Keep
      BY NewestBound DEF FiniteInv
    <3>2. {s \in rows : status[s] = "running"}' \in SUBSET rows' OBVIOUS
    <3>3. Cardinality({s \in rows : status[s] = "running"}') \in Nat
      BY <2>1, <3>1, <3>2, FS_Subset, FS_CardinalityType
    <3>4. Cardinality(rows') \in Nat BY <2>1, <3>1, FS_CardinalityType
    <3> HIDE DEF RunsTypeOK
    <3> QED BY <2>1, <3>1, <3>3, <3>4, KeepAssumption DEF RetentionBound
  <2> QED BY <2>2, <2>3, <2>4 DEF RowsInv
<1>4. ASSUME NEW r \in Runs, FinishRun(r), r \notin rows PROVE RowsInv'
  <2>1. UNCHANGED <<rows, status, started, present>> /\ call' = [call EXCEPT ![r].pc = "raised"]
    BY <1>4 DEF FinishRun, Goto
  <2> QED BY <2>1, RowsAlone
<1>5. CASE DeleteWorkflow
  <2>1. {s \in rows : status[s] = "running"}' = {} /\ rows' = {} /\ present' = FALSE
        /\ UNCHANGED <<status, call>>
    BY <1>5 DEF DeleteWorkflow
  <2>2. RetentionBound'
    <3>1. Cardinality({s \in rows : status[s] = "running"}') = 0 /\ Cardinality(rows') = 0
      BY <2>1, FS_EmptySet
    <3> HIDE DEF RunsTypeOK
    <3> QED BY <3>1, KeepAssumption DEF RetentionBound
  <2> QED BY <2>1, <2>2 DEF RowsInv, Verdict
<1>6. CASE CrashRuns BY <1>6, RowsAlone DEF CrashRuns
<1>7. CASE RunReturns \/ ReplaceMemory \/ Tick \/ (\E i \in Items : Arrive(i)) \/ UNCHANGED runVars
  BY <1>7, RowsAlone DEF RunReturns, ReplaceMemory, Tick, Arrive, runVars
<1> QED BY <1>1, <1>2, <1>3, <1>4, <1>5, <1>6, <1>7 DEF RunsNext, Work

\* A step of the run at work that neither alerts nor saves.
LEMMA SerialAlone ==
    ASSUME RunsTypeOK, SerialInv, runFaults = {}, UNCHANGED <<runFaults, memory, alerts>>,
           NEW r \in Runs, InFlight(r), Pc(r) # "save", Pc(r)' # "alert",
           \A s \in Runs \ {r} : call'[s] = call[s],
           Pc(r)' \in {"source", "dedup", "save"} => memory \subseteq call'[r].mem
    PROVE  SerialInv'
<1> USE DEF InFlight, Pc
<1>0. \A s \in Runs : InFlight(s) => s = r BY DEF SerialInv
<1>1. \A p, s \in Runs : InFlight(p)' /\ InFlight(s)' => p = s BY <1>0
<1>2. \A s \in Runs : Pc(s)' \in {"source", "dedup", "alert", "save"} => memory' \subseteq call'[s].mem
  BY <1>0
<1>3. \A i \in Items : alerts'[i] > 0 => i \in memory' BY <1>0 DEF SerialInv
<1>4. \A s \in Runs : Pc(s)' # "alert" BY <1>0
<1>5. SerialAlertsOnce' BY DEF SerialInv, SerialAlertsOnce
<1> QED BY <1>1, <1>2, <1>3, <1>4, <1>5 DEF SerialInv

\* A run at work alone may put into its memory what that holds, and alert what is new.
LEMMA SerialStep ==
    ASSUME RunsTypeOK, SerialInv, [RunsNext]_runVars
    PROVE  SerialInv'
<1>0. runFaults' = runFaults
  BY DEF RunsNext, Work, RunNow, RunScheduled, CreateRun, Validate, GetMemory, BlockFails, SourceBlock,
         PythonBlock, AlertBlock, SaveMemory, FinishRun, RunReturns, ReplaceMemory, DeleteWorkflow,
         CrashRuns, Arrive, Tick, runVars, runEnv
<1> SUFFICES ASSUME runFaults = {} PROVE SerialInv' BY <1>0 DEF SerialInv
<1> USE DEF SerialInv, SerialAlertsOnce, InFlight, Pc, RunsTypeOK, Call, RunPhases
<1>1. ASSUME NEW r \in Runs, RunNow(r) \/ RunScheduled(r) PROVE SerialInv'
  <2>1. UNCHANGED <<runFaults, memory, alerts>> /\ (\A s \in Runs : ~InFlight(s))
        /\ \E p \in {"create", "over"} : call' = [call EXCEPT ![r].pc = p]
    BY <1>1 DEF RunNow, RunScheduled, Begin, Quiet, Goto, runEnv
  <2> QED BY <2>1
<1>2. ASSUME NEW r \in Runs, CreateRun(r) \/ Validate(r) \/ FinishRun(r) PROVE SerialInv'
  <2>1. UNCHANGED <<runFaults, memory, alerts>> /\ InFlight(r) /\ Pc(r) # "save"
        /\ (\A s \in Runs \ {r} : call'[s] = call[s])
        /\ Pc(r)' \in {"validate", "load", "finish", "over", "raised"}
    BY <1>2 DEF CreateRun, Validate, FinishRun, Goto, runEnv
  <2>2. Pc(r)' \notin {"alert", "source", "dedup", "save"} BY <2>1
  <2> HIDE DEF SerialInv, SerialAlertsOnce, InFlight, Pc, RunsTypeOK, Call, RunPhases
  <2> QED BY <2>1, <2>2, SerialAlone
<1>3. ASSUME NEW r \in Runs, GetMemory(r) PROVE SerialInv' BY <1>3 DEF GetMemory, runEnv
<1>4. ASSUME NEW r \in Runs, BlockFails(r) \/ SourceBlock(r) PROVE SerialInv'
  <2>1. UNCHANGED <<runFaults, memory, alerts>> /\ InFlight(r) /\ Pc(r) # "save" /\ Pc(r)' # "alert"
        /\ (\A s \in Runs \ {r} : call'[s] = call[s])
        /\ call'[r].mem = call[r].mem /\ Pc(r) \in {"source", "dedup", "alert"}
    BY <1>4 DEF BlockFails, SourceBlock, runEnv
  <2>2. memory \subseteq call'[r].mem BY <2>1
  <2> HIDE DEF SerialInv, SerialAlertsOnce, InFlight, Pc, RunsTypeOK, Call, RunPhases
  <2> QED BY <2>1, <2>2, SerialAlone
<1>5. ASSUME NEW r \in Runs, PythonBlock(r) PROVE SerialInv'
  <2> DEFINE new == call[r].batch \ call[r].mem
  <2>1. /\ UNCHANGED <<runFaults, memory, alerts>> /\ InFlight(r) /\ Pc(r) = "dedup"
        /\ \A s \in Runs \ {r} : call'[s] = call[s]
        /\ call'[r].pc = "alert" /\ call'[r].batch = new /\ call'[r].mem = call[r].mem \cup new
    BY <1>5 DEF PythonBlock, runEnv
  <2>2. \A i \in new : i \in Items /\ alerts[i] = 0
    <3>1. \A s \in Runs : Pc(s) # "save" BY <2>1
    <3>2. \A i \in Items : alerts[i] > 0 => i \in call[r].mem BY <2>1, <3>1
    <3>3. new \in SUBSET Items BY CallTypes
    <3>4. \A i \in Items : alerts[i] \in Nat OBVIOUS
    <3> QED BY <3>2, <3>3, <3>4
  <2> HIDE DEF new
  <2> QED BY <2>1, <2>2
<1>6. ASSUME NEW r \in Runs, AlertBlock(r) PROVE SerialInv'
  <2>1. PICK sent \in SUBSET call[r].batch : Publish(sent) BY <1>6 DEF AlertBlock
  <2>2. /\ UNCHANGED <<runFaults, memory>> /\ InFlight(r) /\ Pc(r) = "alert"
        /\ call' = [call EXCEPT ![r].pc = "save"]
    BY <1>6 DEF AlertBlock, Goto, runEnv
  <2>3. \A i \in Items : alerts'[i] = IF i \in sent /\ alerts[i] < 2 THEN alerts[i] + 1 ELSE alerts[i]
    BY <2>1 DEF Publish
  <2>4. \A i \in sent : i \in call[r].mem /\ alerts[i] = 0 BY <2>1, <2>2
  <2>5. \A i \in Items : alerts'[i] <= 1 BY <2>3, <2>4
  <2>6. \A s \in Runs \ {r} : ~InFlight(s) BY <2>2
  <2>7. \A i \in Items : alerts'[i] > 0 => alerts[i] > 0 \/ i \in call[r].mem BY <2>3, <2>4
  <2>8. \A i \in Items : alerts[i] > 0 => i \in call[r].mem BY <2>2, <2>6
  <2> QED BY <2>2, <2>5, <2>6, <2>7, <2>8
<1>7. ASSUME NEW r \in Runs, SaveMemory(r) PROVE SerialInv'
  <2>1. /\ UNCHANGED <<runFaults, alerts>> /\ InFlight(r) /\ Pc(r) = "save" /\ memory' = call[r].mem
        /\ call' = [call EXCEPT ![r].pc = "finish"]
    BY <1>7 DEF SaveMemory, Goto, runEnv
  <2> QED BY <2>1
<1>8. ASSUME ReplaceMemory \/ DeleteWorkflow \/ CrashRuns PROVE FALSE
  BY <1>8 DEF ReplaceMemory, DeleteWorkflow, CrashRuns
<1>9. CASE RunReturns \/ Tick \/ (\E i \in Items : Arrive(i)) \/ UNCHANGED runVars
  BY <1>9 DEF RunReturns, Tick, Arrive, runVars, runEnv
<1> QED BY <1>1, <1>2, <1>3, <1>4, <1>5, <1>6, <1>7, <1>8, <1>9 DEF RunsNext, Work

\* An explanation stays one: alerts are not taken back, a run that failed has failed.
LEMMA ExplainedStays ==
    ASSUME RunsTypeOK, \A i \in Items : alerts[i] > 0 => alerts'[i] > 0,
           \A r \in Runs : \/ call'[r].took = call[r].took /\ (~call[r].ok => ~call'[r].ok)
                           \/ call[r].took = {},
           NEW i \in Items, Explained(i)
    PROVE  Explained(i)'
BY DEF Explained

LEMMA LossStep ==
    ASSUME RunsTypeOK, FiniteInv, LossInv, [RunsNext]_runVars
    PROVE  LossInv'
<1> USE DEF LossInv, Pc
<1>t. \A r \in Runs : call[r] \in Call /\ call[r].mem \in SUBSET Items BY CallTypes
<1>m. memory \in SUBSET Items BY DEF RunsTypeOK
<1>1. ASSUME NEW r \in Runs, RunNow(r) \/ RunScheduled(r) \/ CreateRun(r) \/ FinishRun(r)
      PROVE  LossInv'
  <2>1. /\ UNCHANGED <<memory, alerts>>
        /\ \E p \in {"create", "over", "validate", "raised"} : call' = [call EXCEPT ![r].pc = p]
        /\ Pc(r) \in {"idle", "create", "finish"}
        /\ Pc(r)' \in {"create", "validate"} => Pc(r) \in {"idle", "create"}
    BY <1>1, <1>t DEF RunNow, RunScheduled, Begin, CreateRun, FinishRun, Goto, RunsTypeOK, Call
  <2>2. /\ \A s \in Runs : /\ call'[s].took = call[s].took /\ call'[s].ok = call[s].ok
                           /\ call'[s].mem = call[s].mem /\ call'[s].batch = call[s].batch
        /\ \A s \in Runs \ {r} : call'[s] = call[s]
    BY <2>1, <1>t DEF RunsTypeOK, Call
  <2>3. \A i \in Items : Explained(i) => Explained(i)' BY <2>1, <2>2, ExplainedStays
  <2>4. \A i \in memory : Explained(i)' BY <1>m, <2>3
  <2> QED BY <2>1, <2>2, <2>3, <2>4, <1>t
<1>2. ASSUME NEW r \in Runs, Validate(r) PROVE LossInv'
  <2>1. /\ UNCHANGED <<memory, alerts>> /\ Pc(r) = "validate"
        /\ \A s \in Runs \ {r} : call'[s] = call[s]
        /\ call'[r].pc \in {"load", "finish"} /\ call'[r].took = call[r].took
        /\ call'[r].pc = "load" => call'[r].ok = call[r].ok
        /\ call[r].ok
    BY <1>2, <1>t DEF Validate, Goto, RunsTypeOK, Call
  <2>2. \A i \in Items : Explained(i) => Explained(i)' BY <2>1, ExplainedStays
  <2>3. \A i \in memory : Explained(i)' BY <1>m, <2>2
  <2> QED BY <2>1, <2>2, <2>3, <1>t
<1>3. ASSUME NEW r \in Runs, GetMemory(r) \/ SourceBlock(r) PROVE LossInv'
  <2>1. /\ UNCHANGED <<memory, alerts>> /\ Pc(r) \in {"load", "source"}
        /\ \A s \in Runs \ {r} : call'[s] = call[s]
        /\ call'[r].pc \in {"source", "dedup"} /\ call'[r].took = call[r].took /\ call'[r].ok = call[r].ok
        /\ call'[r].mem = memory \/ (call'[r].mem = call[r].mem /\ Pc(r) = "source")
    BY <1>3, <1>t DEF GetMemory, SourceBlock, RunsTypeOK, Call
  <2>2. \A i \in Items : Explained(i) => Explained(i)' BY <2>1, ExplainedStays
  <2>3. \A i \in memory : Explained(i)' BY <1>m, <2>2
  <2> QED BY <2>1, <2>2, <2>3, <1>t
<1>4. ASSUME NEW r \in Runs, BlockFails(r) PROVE LossInv'
  <2>1. /\ UNCHANGED <<memory, alerts>> /\ Pc(r) \in {"source", "dedup", "alert"}
        /\ \A s \in Runs \ {r} : call'[s] = call[s]
        /\ call'[r].pc = "save" /\ call'[r].took = call[r].took /\ call'[r].ok = FALSE
        /\ call'[r].mem = call[r].mem
    BY <1>4, <1>t DEF BlockFails, RunsTypeOK, Call
  <2>2. \A i \in Items : Explained(i) => Explained(i)' BY <2>1, ExplainedStays
  <2>3. \A i \in memory : Explained(i)' BY <1>m, <2>2
  <2>4. \A i \in call[r].took : Explained(i)' BY <2>1 DEF Explained
  <2>5. \A i \in call'[r].mem : Explained(i)' BY <2>1, <2>2, <2>4, <1>t
  <2> QED BY <2>1, <2>2, <2>3, <2>5, <1>t
<1>5. ASSUME NEW r \in Runs, PythonBlock(r) PROVE LossInv'
  <2> DEFINE new == call[r].batch \ call[r].mem
  <2>1. /\ UNCHANGED <<memory, alerts>> /\ Pc(r) = "dedup"
        /\ \A s \in Runs \ {r} : call'[s] = call[s]
        /\ call'[r].pc = "alert" /\ call'[r].batch = new /\ call'[r].took = new
        /\ call'[r].mem = call[r].mem \cup new
    BY <1>5, <1>t DEF PythonBlock, RunsTypeOK, Call
  <2>2. \A i \in Items : Explained(i) => Explained(i)' BY <2>1, ExplainedStays
  <2>3. \A i \in memory : Explained(i)' BY <1>m, <2>2
  <2>4. \A i \in call'[r].mem \ call'[r].took : Explained(i)' BY <2>1, <2>2, <1>t
  <2> QED BY <2>1, <2>2, <2>3, <2>4, <1>t
<1>6. ASSUME NEW r \in Runs, AlertBlock(r) PROVE LossInv'
  <2>1. PICK sent \in SUBSET call[r].batch :
             /\ Publish(sent)
             /\ sent = call[r].batch \/ (Cardinality(sent) = Budget /\ sent # call[r].batch)
    BY <1>6 DEF AlertBlock
  <2>2. /\ memory' = memory /\ Pc(r) = "alert" /\ call' = [call EXCEPT ![r].pc = "save"]
    BY <1>6 DEF AlertBlock, Goto
  <2>3. /\ \A s \in Runs \ {r} : call'[s] = call[s]
        /\ call'[r].pc = "save" /\ call'[r].took = call[r].took /\ call'[r].ok = call[r].ok
        /\ call'[r].mem = call[r].mem
    BY <2>2, <1>t DEF RunsTypeOK, Call
  <2>4. \A i \in Items : /\ alerts[i] \in Nat
                         /\ alerts'[i] = IF i \in sent /\ alerts[i] < 2 THEN alerts[i] + 1 ELSE alerts[i]
    BY <2>1 DEF Publish, RunsTypeOK
  <2>5. \A i \in Items : Explained(i) => Explained(i)' BY <2>3, <2>4, ExplainedStays
  <2>6. \A i \in memory : Explained(i)' BY <1>m, <2>5
  <2>7. \A i \in call[r].took : Explained(i)'
    <3>1. CASE sent = call[r].batch
      <4>1. \A i \in call[r].took : i \in Items /\ i \in sent BY <2>2, <3>1, CallTypes
      <4>2. \A i \in call[r].took : alerts'[i] > 0 BY <2>4, <4>1
      <4> QED BY <4>2 DEF Explained
    <3>2. CASE sent # call[r].batch
      <4>1. /\ Cardinality(sent) \in Nat /\ Cardinality(call[r].batch) \in Nat
            /\ Cardinality(sent) <= Cardinality(call[r].batch)
            /\ Cardinality(sent) # Cardinality(call[r].batch)
        BY <3>2, FS_Subset, FS_CardinalityType DEF FiniteInv
      <4>2. Cardinality(call[r].took) > Budget BY <2>1, <2>2, <3>2, <4>1, KeepAssumption
      <4> QED BY <2>3, <4>2 DEF Explained
    <3> QED BY <3>1, <3>2
  <2>8. \A i \in call'[r].mem : Explained(i)' BY <2>2, <2>3, <2>5, <2>7, <1>t
  <2>9. \A s \in Runs \ {r} : \A i \in call'[s].mem : Explained(i) => Explained(i)' BY <2>3, <2>5, <1>t
  <2> HIDE DEF Explained
  <2> QED BY <2>2, <2>3, <2>6, <2>8, <2>9
<1>7. ASSUME NEW r \in Runs, SaveMemory(r) PROVE LossInv'
  <2>1. /\ UNCHANGED alerts /\ Pc(r) = "save" /\ memory' = call[r].mem
        /\ call' = [call EXCEPT ![r].pc = "finish"]
    BY <1>7 DEF SaveMemory, Goto
  <2>2. /\ \A s \in Runs \ {r} : call'[s] = call[s]
        /\ call'[r].pc = "finish" /\ call'[r].took = call[r].took /\ call'[r].ok = call[r].ok
    BY <2>1, <1>t DEF RunsTypeOK, Call
  <2>3. \A i \in Items : Explained(i) => Explained(i)' BY <2>1, <2>2, ExplainedStays
  <2>4. \A i \in memory' : Explained(i)' BY <2>1, <2>3, <1>t
  <2> QED BY <2>2, <2>3, <2>4, <1>t
<1>8. CASE CrashRuns
  <2>1. /\ UNCHANGED <<memory, alerts>>
        /\ \A s \in Runs : /\ call'[s].took = call[s].took /\ call'[s].ok = call[s].ok
                           /\ call'[s].pc = "lost" \/ call'[s] = call[s]
    BY <1>8, <1>t DEF CrashRuns, Call
  <2>2. \A i \in Items : Explained(i) => Explained(i)' BY <2>1, ExplainedStays
  <2>3. \A i \in memory : Explained(i)' BY <1>m, <2>2
  <2> QED BY <2>1, <2>2, <2>3, <1>t
<1>9. CASE \/ ReplaceMemory \/ DeleteWorkflow \/ RunReturns \/ Tick \/ (\E i \in Items : Arrive(i))
           \/ UNCHANGED runVars
  <2>1. UNCHANGED <<alerts, call>> /\ memory' \in SUBSET memory
    BY <1>9 DEF ReplaceMemory, DeleteWorkflow, RunReturns, Tick, Arrive, runVars
  <2>2. \A i \in Items : Explained(i) => Explained(i)' BY <2>1, ExplainedStays
  <2>3. \A i \in memory' : Explained(i)' BY <1>m, <2>1, <2>2
  <2> QED BY <2>1, <2>2, <2>3, <1>t
<1> QED BY <1>1, <1>2, <1>3, <1>4, <1>5, <1>6, <1>7, <1>8, <1>9 DEF RunsNext, Work

LEMMA RunsInvariant == RunsSpec => []RunsInv
<1>1. RunsInv /\ [RunsNext]_runVars => RunsInv'
  BY TypeStep, FiniteStep, RowsStep, SerialStep, LossStep DEF RunsInv
<1> QED BY <1>1, RunsInitially, PTL DEF RunsSpec

\* The memory of a workflow: runs that follow one another alert no item twice,
\* whichever of their blocks fail.
THEOREM AlertsOnce == RunsSpec => []SerialAlertsOnce
<1>1. RunsInv => SerialAlertsOnce BY DEF RunsInv, SerialInv, SerialAlertsOnce
<1> QED BY <1>1, RunsInvariant, PTL

\* An item in the memory was alerted, or a run that took it failed or had more than
\* its budget, even if runs overlap, crash or overwrite each other's memory.
THEOREM LossExplained == RunsSpec => []LossIsExplained
<1>1. RunsInv => LossIsExplained BY DEF RunsInv, LossInv, Explained, LossIsExplained
<1> QED BY <1>1, RunsInvariant, PTL

\* create_run and finish_run: what was answered is on record while Keep newer rows are
\* not, and the table is bounded.
THEOREM RunsRecorded == RunsSpec => []RunsOnRecord
<1>1. RunsInv => RunsOnRecord
  <2> SUFFICES ASSUME RunsInv PROVE RunsOnRecord OBVIOUS
  <2>1. AnsweredIsRecorded
    <3> SUFFICES ASSUME NEW r \in Runs, present, call[r].pc = "over", status[r] # "none",
                        Cardinality({s \in rows : Newer(s, r)}) < Keep
                 PROVE  r \in rows /\ status[r] = Verdict(r)
      BY DEF AnsweredIsRecorded, Verdict
    <3>1. {s \in rows : Newer(s, r)} \in SUBSET rows OBVIOUS
    <3>2. Cardinality({s \in rows : Newer(s, r)}) \in Nat
      BY <3>1, FS_Subset, FS_CardinalityType DEF RunsInv, FiniteInv
    <3>3. /\ status[r] = Verdict(r)
          /\ r \in rows \/ Cardinality({s \in rows : Newer(s, r)}) >= Keep
      BY DEF RunsInv, RowsInv, Pc
    <3> QED BY <3>2, <3>3, KeepAssumption
  <2> QED BY <2>1 DEF RunsInv, RowsInv, RunsOnRecord
<1> QED BY <1>1, RunsInvariant, PTL

(***************************************************************************)
(* Schedules                                                               *)
(***************************************************************************)
(* The loop attempts one schedule at a time, repairs before it attempts, and *)
(* holds nothing between ticks.                                              *)
Phases ==
    /\ \A s, u \in cur : s = u
    /\ pc \in {"sleep", "down"} => todo = {} /\ fixed = {}
    /\ pc # "repair" => repairs = {}

(* A schedule about to be inserted is not in the table and not in the tick. *)
CheckedFree ==
    \A s \in checked : ~table[s].stored /\ s \notin todo \cup cur

(* A late attempt uses up the place of the schedule in the tick. *)
LateOnce ==
    \A s \in Slots : /\ late[s] <= 1
                     /\ late[s] = 1 => s \notin todo /\ ~Active(s)

(* The time of a row is no older than the last tick that found it due, once it *)
(* was advanced; a time that is still corrupt was never judged, or its tick is *)
(* under way or was cut off.                                                   *)
PacedRow(s) ==
    table[s].stored =>
       /\ ~table[s].corrupt /\ s \notin cut /\ s \notin (todo \cup cur) \ fixed
             => table[s].age <= since[s]
       /\ table[s].corrupt =>
             /\ s \notin fixed
             /\ s \notin cut \cup todo \cup cur => since[s] = Cap

Paced == \A s \in Slots : PacedRow(s)

IInv == TypeOK /\ Phases /\ CheckedFree /\ LateOnce /\ ErrorVisible /\ Paced

USE CapAssumption, IntervalsAssumption, FaultsAssumption

(* The empty row is a row. *)
LEMMA NoRowTyped == NoRow \in Row
  BY DEF NoRow, Row

(* Edits of a row keep it a row. *)
LEMMA AdvancedTyped ==
  ASSUME table \in [Slots -> Row], NEW s \in Slots, NEW err \in BOOLEAN
  PROVE  /\ Advanced(s, err) \in [Slots -> Row]
         /\ \A u \in Slots \ {s} : Advanced(s, err)[u] = table[u]
         /\ ~table[s].stored => Advanced(s, err)[s] = table[s]
         /\ table[s].stored =>
               /\ ~Advanced(s, err)[s].corrupt
               /\ Advanced(s, err)[s].age = 0
               /\ Advanced(s, err)[s].err = err
         /\ Advanced(s, err)[s].stored = table[s].stored
         /\ Advanced(s, err)[s].enabled = table[s].enabled
<1>1. 0 \in 0 .. Cap
  OBVIOUS
<1>2. table[s] \in Row
  OBVIOUS
<1> DEFINE r == [table[s] EXCEPT !.corrupt = FALSE, !.age = 0, !.err = err]
<1>3. r \in Row
  BY <1>1, <1>2 DEF Row
<1>4. CASE table[s].stored
  <2>1. Advanced(s, err) = [table EXCEPT ![s] = r]
    BY <1>4 DEF Advanced
  <2> QED
    BY <2>1, <1>2, <1>3, <1>4 DEF Row
<1>5. CASE ~table[s].stored
  BY <1>5 DEF Advanced
<1> QED
  BY <1>4, <1>5

(* The history of a schedule that is inserted or deleted starts afresh. *)
LEMMA UnwatchedTyped ==
  ASSUME TypeOK, NEW S \in SUBSET Slots, Unwatched(S)
  PROVE  /\ since' \in [Slots -> 0 .. Cap] /\ late' \in [Slots -> 0 .. 2]
         /\ told' \in [Slots -> BOOLEAN]
         /\ cut' \subseteq Slots /\ fixed' \subseteq Slots
         /\ \A u \in S : /\ since'[u] = Cap /\ late'[u] = 0 /\ told'[u] = FALSE
                         /\ u \notin cut'
         /\ \A u \in Slots \ S : /\ since'[u] = since[u] /\ late'[u] = late[u]
                                 /\ told'[u] = told[u]
                                 /\ (u \in cut' <=> u \in cut)
         /\ fixed' = fixed
<1>1. Cap \in 0 .. Cap /\ 0 \in 0 .. 2
  OBVIOUS
<1>2. since' \in [Slots -> 0 .. Cap] /\ late' \in [Slots -> 0 .. 2]
  BY <1>1 DEF TypeOK, Unwatched
<1>3. told' \in [Slots -> BOOLEAN]
  BY Zenon DEF TypeOK, Unwatched
<1>4. cut' \subseteq Slots /\ fixed' \subseteq Slots
  BY DEF TypeOK, Unwatched
<1>5. \A u \in S : /\ since'[u] = Cap /\ late'[u] = 0 /\ told'[u] = FALSE
                  /\ u \notin cut'
  BY DEF Unwatched
<1>6. \A u \in Slots \ S : /\ since'[u] = since[u] /\ late'[u] = late[u]
                          /\ told'[u] = told[u]
                          /\ (u \in cut' <=> u \in cut)
  BY DEF Unwatched
<1> QED
  BY <1>2, <1>3, <1>4, <1>5, <1>6 DEF Unwatched

(* The invariant holds before the first tick. *)
LEMMA InitIInv == Init => IInv
<1> SUFFICES ASSUME Init PROVE IInv
  OBVIOUS
<1> DEFINE Corrupt == [stored : {TRUE}, enabled : {TRUE}, interval : Intervals,
                       corrupt : {TRUE}, age : {0}, err : BOOLEAN]
<1>a. Corrupt \subseteq Row
  <2>1. 0 \in 0 .. Cap
    OBVIOUS
  <2> QED
    BY <2>1 DEF Row
<1>b. \A r \in FoundRows : r = NoRow \/ r \in Corrupt
  BY DEF FoundRows
<1> HIDE DEF Corrupt
<1>1. FoundRows \subseteq Row
  BY NoRowTyped, <1>a, <1>b
<1>2. TypeOK
  BY <1>1 DEF Init, TypeOK, Row
<1>3. LateOnce /\ ErrorVisible
  BY <1>1 DEF Init, LateOnce, ErrorVisible
<1>4. Paced
  <2> SUFFICES ASSUME NEW s \in Slots, table[s].stored PROVE PacedRow(s)
    BY DEF Paced, PacedRow
  <2>1. table[s] # NoRow
    BY DEF NoRow
  <2>2. table[s] \in Corrupt
    BY <2>1, <1>b DEF Init
  <2>3. table[s].corrupt
    BY <2>2 DEF Corrupt
  <2> QED
    BY <2>3 DEF PacedRow, Init
<1> QED
  BY <1>2, <1>3, <1>4 DEF IInv, Init, Phases, CheckedFree

LEMMA ScanKeeps ==
  ASSUME IInv, Scan PROVE IInv'
<1> USE DEF Scan, Due
<1>1. TypeOK'
  BY NoRowTyped DEF IInv, TypeOK, Row, Phases
<1>2. Phases' /\ CheckedFree'
  BY DEF IInv, TypeOK, Phases, CheckedFree
<1>3. LateOnce' /\ ErrorVisible'
  BY DEF IInv, TypeOK, Row, LateOnce, ErrorVisible, Active
<1>4. Paced'
  BY DEF IInv, TypeOK, Row, Phases, CheckedFree, Paced, PacedRow
<1> QED
  BY <1>1, <1>2, <1>3, <1>4 DEF IInv

LEMMA RepairKeeps ==
  ASSUME IInv, NEW t \in Slots, Repair(t) PROVE IInv'
<1> USE DEF Repair, Repaired
<1>a. table[t].err \in BOOLEAN
  BY DEF IInv, TypeOK, Row
<1>b. /\ table' \in [Slots -> Row]
      /\ \A u \in Slots \ {t} : table'[u] = table[u]
      /\ ~table[t].stored => table'[t] = table[t]
      /\ table[t].stored => /\ ~table'[t].corrupt
                            /\ table'[t].age = 0
                            /\ table'[t].err = table[t].err
      /\ table'[t].stored = table[t].stored
      /\ table'[t].enabled = table[t].enabled
  BY <1>a, AdvancedTyped DEF IInv, TypeOK
<1>1. TypeOK'
  BY <1>b DEF IInv, TypeOK, Phases
<1>2. Phases' /\ CheckedFree'
  BY <1>b DEF IInv, TypeOK, Phases, CheckedFree
<1>3. LateOnce' /\ ErrorVisible'
  BY <1>b DEF IInv, TypeOK, LateOnce, ErrorVisible, Active
<1>4. Paced'
  <2> SUFFICES ASSUME NEW u \in Slots PROVE PacedRow(u)'
    BY DEF Paced
  <2>1. CASE u = t
    BY <2>1, <1>b DEF IInv, TypeOK, Row, Phases, Paced, PacedRow
  <2>2. CASE u # t
    BY <2>2, <1>b DEF IInv, TypeOK, Row, Phases, Paced, PacedRow
  <2> QED
    BY <2>1, <2>2
<1> QED
  BY <1>1, <1>2, <1>3, <1>4 DEF IInv

LEMMA StartAttemptKeeps ==
  ASSUME IInv, NEW t \in Slots, StartAttempt(t) PROVE IInv'
<1> USE DEF StartAttempt, Picked, Min2
<1>1. TypeOK'
  BY NoRowTyped DEF IInv, TypeOK, Row, Phases
<1>2. Phases' /\ CheckedFree'
  BY DEF IInv, TypeOK, Phases, CheckedFree
<1>3. LateOnce' /\ ErrorVisible'
  BY DEF IInv, TypeOK, Row, LateOnce, ErrorVisible, Active
<1>4. Paced'
  BY DEF IInv, TypeOK, Row, Phases, CheckedFree, Paced, PacedRow
<1> QED
  BY <1>1, <1>2, <1>3, <1>4 DEF IInv

LEMMA EndAttemptKeeps ==
  ASSUME IInv, EndAttempt PROVE IInv'
<1> USE DEF EndAttempt, history
<1>1. TypeOK'
  BY NoRowTyped DEF IInv, TypeOK, Row, Phases
<1>2. Phases' /\ CheckedFree'
  BY DEF IInv, TypeOK, Phases, CheckedFree
<1>3. LateOnce' /\ ErrorVisible'
  BY DEF IInv, TypeOK, Row, LateOnce, ErrorVisible, Active
<1>4. Paced'
  BY DEF IInv, TypeOK, Row, Phases, CheckedFree, Paced, PacedRow
<1> QED
  BY <1>1, <1>2, <1>3, <1>4 DEF IInv

LEMMA RecordKeeps ==
  ASSUME IInv, NEW t \in Slots, Record(t) PROVE IInv'
<1> USE DEF Record, Recorded
<1>a. (result = "error") \in BOOLEAN
  BY DEF IInv, TypeOK, Row
<1>b. /\ table' \in [Slots -> Row]
      /\ \A u \in Slots \ {t} : table'[u] = table[u]
      /\ ~table[t].stored => table'[t] = table[t]
      /\ table[t].stored => /\ ~table'[t].corrupt
                            /\ table'[t].age = 0
                            /\ table'[t].err = (result = "error")
      /\ table'[t].stored = table[t].stored
      /\ table'[t].enabled = table[t].enabled
  BY <1>a, AdvancedTyped DEF IInv, TypeOK
<1>1. TypeOK'
  BY <1>b DEF IInv, TypeOK, Phases
<1>2. Phases' /\ CheckedFree'
  BY <1>b DEF IInv, TypeOK, Phases, CheckedFree
<1>3. LateOnce' /\ ErrorVisible'
  BY <1>b DEF IInv, TypeOK, LateOnce, ErrorVisible, Active
<1>4. Paced'
  <2> SUFFICES ASSUME NEW u \in Slots PROVE PacedRow(u)'
    BY DEF Paced
  <2>1. CASE u = t
    BY <2>1, <1>b DEF IInv, TypeOK, Row, Phases, Paced, PacedRow
  <2>2. CASE u # t
    BY <2>2, <1>b DEF IInv, TypeOK, Row, Phases, Paced, PacedRow
  <2> QED
    BY <2>1, <2>2
<1> QED
  BY <1>1, <1>2, <1>3, <1>4 DEF IInv

LEMMA TickDoneKeeps ==
  ASSUME IInv, TickDone PROVE IInv'
<1> USE DEF TickDone
<1>1. TypeOK'
  BY NoRowTyped DEF IInv, TypeOK, Row, Phases
<1>2. Phases' /\ CheckedFree'
  BY DEF IInv, TypeOK, Phases, CheckedFree
<1>3. LateOnce' /\ ErrorVisible'
  BY DEF IInv, TypeOK, Row, LateOnce, ErrorVisible, Active
<1>4. Paced'
  BY DEF IInv, TypeOK, Row, Phases, CheckedFree, Paced, PacedRow
<1> QED
  BY <1>1, <1>2, <1>3, <1>4 DEF IInv

LEMMA StoreFailsKeeps ==
  ASSUME IInv, StoreFails PROVE IInv'
<1> USE DEF StoreFails, Forget
<1>1. TypeOK'
  BY NoRowTyped DEF IInv, TypeOK, Row, Phases
<1>2. Phases' /\ CheckedFree'
  BY DEF IInv, TypeOK, Phases, CheckedFree
<1>3. LateOnce' /\ ErrorVisible'
  BY DEF IInv, TypeOK, Row, LateOnce, ErrorVisible, Active
<1>4. Paced'
  BY DEF IInv, TypeOK, Row, Phases, CheckedFree, Paced, PacedRow
<1> QED
  BY <1>1, <1>2, <1>3, <1>4 DEF IInv

LEMMA CrashKeeps ==
  ASSUME IInv, Crash PROVE IInv'
<1> USE DEF Crash, Forget
<1>1. TypeOK'
  BY NoRowTyped DEF IInv, TypeOK, Row, Phases
<1>2. Phases' /\ CheckedFree'
  BY DEF IInv, TypeOK, Phases, CheckedFree
<1>3. LateOnce' /\ ErrorVisible'
  BY DEF IInv, TypeOK, Row, LateOnce, ErrorVisible, Active
<1>4. Paced'
  BY DEF IInv, TypeOK, Row, Phases, CheckedFree, Paced, PacedRow
<1> QED
  BY <1>1, <1>2, <1>3, <1>4 DEF IInv

LEMMA StartKeeps ==
  ASSUME IInv, Start PROVE IInv'
<1> USE DEF Start, history
<1>1. TypeOK'
  BY NoRowTyped DEF IInv, TypeOK, Row, Phases
<1>2. Phases' /\ CheckedFree'
  BY DEF IInv, TypeOK, Phases, CheckedFree
<1>3. LateOnce' /\ ErrorVisible'
  BY DEF IInv, TypeOK, Row, LateOnce, ErrorVisible, Active
<1>4. Paced'
  BY DEF IInv, TypeOK, Row, Phases, CheckedFree, Paced, PacedRow
<1> QED
  BY <1>1, <1>2, <1>3, <1>4 DEF IInv

LEMMA ClockKeeps ==
  ASSUME IInv, Clock PROVE IInv'
<1> USE DEF Clock, Min2, loop
<1>a. table' \in [Slots -> Row]
  BY DEF IInv, TypeOK, Row
<1>b. since' \in [Slots -> 0 .. Cap]
  BY DEF IInv, TypeOK
<1>1. TypeOK'
  BY <1>a, <1>b DEF IInv, TypeOK
<1>2. Phases' /\ CheckedFree'
  BY DEF IInv, TypeOK, Phases, CheckedFree
<1>3. LateOnce' /\ ErrorVisible'
  BY DEF IInv, TypeOK, Row, LateOnce, ErrorVisible, Active
<1>4. Paced'
  BY DEF IInv, TypeOK, Row, Phases, CheckedFree, Paced, PacedRow
<1> QED
  BY <1>1, <1>2, <1>3, <1>4 DEF IInv

LEMMA LookUpTargetKeeps ==
  ASSUME IInv, NEW t \in Slots, LookUpTarget(t) PROVE IInv'
<1> USE DEF LookUpTarget, loop, history
<1>1. TypeOK'
  BY NoRowTyped DEF IInv, TypeOK, Row, Phases
<1>2. Phases' /\ CheckedFree'
  BY DEF IInv, TypeOK, Phases, CheckedFree
<1>3. LateOnce' /\ ErrorVisible'
  BY DEF IInv, TypeOK, Row, LateOnce, ErrorVisible, Active
<1>4. Paced'
  BY DEF IInv, TypeOK, Row, Phases, CheckedFree, Paced, PacedRow
<1> QED
  BY <1>1, <1>2, <1>3, <1>4 DEF IInv

LEMMA InsertScheduleKeeps ==
  ASSUME IInv, NEW t \in Slots, InsertSchedule(t) PROVE IInv'
<1>d. Inserted(t, {NewRow(i, e) : i \in Intervals, e \in BOOLEAN})
  BY DEF InsertSchedule
<1>v. /\ t \in checked /\ checked' = checked \ {t}
      /\ Unwatched({t})
      /\ UNCHANGED <<target, loop, faults>>
  BY <1>d DEF Inserted
<1>a. PICK i \in Intervals, e \in BOOLEAN : table' = [table EXCEPT ![t] = NewRow(i, e)]
  BY <1>d DEF Inserted
<1>b. /\ NewRow(i, e) \in Row
      /\ ~NewRow(i, e).corrupt /\ NewRow(i, e).err = FALSE /\ NewRow(i, e).age = 0
  BY DEF NewRow, Row
<1>c. /\ table' \in [Slots -> Row]
      /\ \A u \in Slots \ {t} : table'[u] = table[u]
      /\ table'[t] = NewRow(i, e)
  BY <1>a, <1>b DEF IInv, TypeOK
<1>u. /\ since' \in [Slots -> 0 .. Cap] /\ late' \in [Slots -> 0 .. 2]
      /\ told' \in [Slots -> BOOLEAN]
      /\ cut' \subseteq Slots /\ fixed' \subseteq Slots
      /\ \A u \in {t} : /\ since'[u] = Cap /\ late'[u] = 0 /\ told'[u] = FALSE
                      /\ u \notin cut'
      /\ \A u \in Slots \ {t} : /\ since'[u] = since[u] /\ late'[u] = late[u]
                                /\ told'[u] = told[u]
                                /\ (u \in cut' <=> u \in cut)
      /\ fixed' = fixed
  BY <1>v, UnwatchedTyped DEF IInv
<1>1. TypeOK'
  BY <1>b, <1>c, <1>u, <1>v DEF loop, IInv, TypeOK
<1>2. Phases' /\ CheckedFree'
  BY <1>b, <1>c, <1>u, <1>v DEF loop, IInv, TypeOK, Phases, CheckedFree
<1>3. LateOnce'
  BY <1>b, <1>c, <1>u, <1>v DEF loop, IInv, TypeOK, LateOnce, Active, CheckedFree
<1>4. ErrorVisible'
  <2> SUFFICES ASSUME NEW u \in Slots, table'[u].stored
               PROVE  table'[u].err = told'[u]
    BY DEF ErrorVisible
  <2>1. CASE u = t
    BY <2>1, <1>b, <1>c, <1>u
  <2>2. CASE u # t
    BY <2>2, <1>c, <1>u DEF IInv, ErrorVisible
  <2> QED
    BY <2>1, <2>2
<1>5. Paced'
  BY <1>b, <1>c, <1>u, <1>v DEF loop, IInv, TypeOK, Row, Paced, PacedRow
<1> QED
  BY <1>1, <1>2, <1>3, <1>4, <1>5 DEF IInv

LEMMA UpdateScheduleKeeps ==
  ASSUME IInv, NEW t \in Slots, UpdateSchedule(t) PROVE IInv'
<1> USE DEF UpdateSchedule, loop
<1>a. PICK i \in Intervals, e \in BOOLEAN :
        /\ table' = [table EXCEPT ![t].interval = i, ![t].enabled = e]
        /\ late' = [late EXCEPT ![t] = IF e THEN 0 ELSE @]
  OBVIOUS
<1>b. table[t] \in Row
  BY DEF IInv, TypeOK
<1> DEFINE r == [table[t] EXCEPT !.interval = i, !.enabled = e]
<1>c. /\ r \in Row
      /\ r.stored = table[t].stored /\ r.enabled = e /\ r.corrupt = table[t].corrupt
      /\ r.age = table[t].age /\ r.err = table[t].err
  BY <1>b DEF Row
<1>d. table' = [table EXCEPT ![t] = r]
  BY <1>a DEF IInv, TypeOK
<1> HIDE DEF r
<1>e. table' \in [Slots -> Row]
  BY <1>c, <1>d DEF IInv, TypeOK
<1>f. late' \in [Slots -> 0 .. 2]
  BY <1>a DEF IInv, TypeOK
<1>1. TypeOK'
  BY <1>e, <1>f DEF IInv, TypeOK
<1>2. Phases' /\ CheckedFree'
  BY <1>c, <1>d DEF IInv, TypeOK, Phases, CheckedFree
<1>3. LateOnce' /\ ErrorVisible'
  BY <1>a, <1>c, <1>d DEF IInv, TypeOK, LateOnce, ErrorVisible, Active
<1>4. Paced'
  BY <1>c, <1>d DEF IInv, TypeOK, Row, Paced, PacedRow
<1> QED
  BY <1>1, <1>2, <1>3, <1>4 DEF IInv

LEMMA DeleteScheduleKeeps ==
  ASSUME IInv, NEW t \in Slots, DeleteSchedule(t) PROVE IInv'
<1> USE DEF DeleteSchedule, loop
<1>a. NoRow \in Row /\ ~NoRow.stored /\ ~NoRow.enabled
  BY NoRowTyped DEF NoRow
<1>c. /\ table' \in [Slots -> Row]
      /\ \A u \in Slots \ {t} : table'[u] = table[u]
      /\ \A u \in {t} : table'[u] = NoRow
  BY <1>a DEF IInv, TypeOK
<1>u. /\ since' \in [Slots -> 0 .. Cap] /\ late' \in [Slots -> 0 .. 2]
      /\ told' \in [Slots -> BOOLEAN]
      /\ cut' \subseteq Slots /\ fixed' \subseteq Slots
      /\ \A u \in {t} : /\ since'[u] = Cap /\ late'[u] = 0 /\ told'[u] = FALSE
                      /\ u \notin cut'
      /\ \A u \in Slots \ {t} : /\ since'[u] = since[u] /\ late'[u] = late[u]
                                /\ told'[u] = told[u]
                                /\ (u \in cut' <=> u \in cut)
      /\ fixed' = fixed
  BY UnwatchedTyped DEF IInv
<1>1. TypeOK'
  BY <1>a, <1>c, <1>u DEF IInv, TypeOK
<1>2. Phases' /\ CheckedFree'
  BY <1>a, <1>c, <1>u DEF IInv, TypeOK, Phases, CheckedFree
<1>3. LateOnce'
  BY <1>a, <1>c, <1>u DEF IInv, TypeOK, LateOnce, Active, CheckedFree
<1>4. ErrorVisible'
  BY <1>a, <1>c, <1>u DEF IInv, TypeOK, ErrorVisible
<1>5. Paced'
  BY <1>a, <1>c, <1>u DEF IInv, TypeOK, Row, Paced, PacedRow
<1> QED
  BY <1>1, <1>2, <1>3, <1>4, <1>5 DEF IInv

LEMMA DeleteTargetKeeps ==
  ASSUME IInv, DeleteTarget PROVE IInv'
<1> USE DEF DeleteTarget, loop
<1>a. NoRow \in Row /\ ~NoRow.stored /\ ~NoRow.enabled
  BY NoRowTyped DEF NoRow
<1>c. /\ table' \in [Slots -> Row]
      /\ \A u \in Slots \ Slots : table'[u] = table[u]
      /\ \A u \in Slots : table'[u] = NoRow
  BY <1>a DEF IInv, TypeOK
<1>u. /\ since' \in [Slots -> 0 .. Cap] /\ late' \in [Slots -> 0 .. 2]
      /\ told' \in [Slots -> BOOLEAN]
      /\ cut' \subseteq Slots /\ fixed' \subseteq Slots
      /\ \A u \in Slots : /\ since'[u] = Cap /\ late'[u] = 0 /\ told'[u] = FALSE
                      /\ u \notin cut'
      /\ \A u \in Slots \ Slots : /\ since'[u] = since[u] /\ late'[u] = late[u]
                                /\ told'[u] = told[u]
                                /\ (u \in cut' <=> u \in cut)
      /\ fixed' = fixed
  BY UnwatchedTyped DEF IInv
<1>1. TypeOK'
  BY <1>a, <1>c, <1>u DEF IInv, TypeOK
<1>2. Phases' /\ CheckedFree'
  BY <1>a, <1>c, <1>u DEF IInv, TypeOK, Phases, CheckedFree
<1>3. LateOnce'
  BY <1>a, <1>c, <1>u DEF IInv, TypeOK, LateOnce, Active, CheckedFree
<1>4. ErrorVisible'
  BY <1>a, <1>c, <1>u DEF IInv, TypeOK, ErrorVisible
<1>5. Paced'
  BY <1>a, <1>c, <1>u DEF IInv, TypeOK, Row, Paced, PacedRow
<1> QED
  BY <1>1, <1>2, <1>3, <1>4, <1>5 DEF IInv

LEMMA SwitchWorkflowKeeps ==
  ASSUME IInv, SwitchWorkflow PROVE IInv'
<1> USE DEF SwitchWorkflow, loop, history
<1>1. TypeOK'
  BY NoRowTyped DEF IInv, TypeOK, Row, Phases
<1>2. Phases' /\ CheckedFree'
  BY DEF IInv, TypeOK, Phases, CheckedFree
<1>3. LateOnce' /\ ErrorVisible'
  BY DEF IInv, TypeOK, Row, LateOnce, ErrorVisible, Active
<1>4. Paced'
  BY DEF IInv, TypeOK, Row, Phases, CheckedFree, Paced, PacedRow
<1> QED
  BY <1>1, <1>2, <1>3, <1>4 DEF IInv

(* Every step keeps the invariant. *)
LEMMA StepKeeps ==
  ASSUME IInv, [Next]_vars PROVE IInv'
<1>u. CASE UNCHANGED vars
  BY <1>u DEF IInv, TypeOK, Phases, CheckedFree, LateOnce, ErrorVisible, Paced, PacedRow,
              Active, vars, loop, history
<1>1. CASE Scan
  BY <1>1, ScanKeeps
<1>2. ASSUME NEW s \in Slots, Repair(s) PROVE IInv'
  BY <1>2, RepairKeeps
<1>3. ASSUME NEW s \in Slots, StartAttempt(s) PROVE IInv'
  BY <1>3, StartAttemptKeeps
<1>4. ASSUME NEW s \in Slots, Record(s) PROVE IInv'
  BY <1>4, RecordKeeps
<1>5. CASE EndAttempt
  BY <1>5, EndAttemptKeeps
<1>6. CASE TickDone
  BY <1>6, TickDoneKeeps
<1>7. CASE StoreFails
  BY <1>7, StoreFailsKeeps
<1>8. CASE Crash
  BY <1>8, CrashKeeps
<1>9. CASE Start
  BY <1>9, StartKeeps
<1>10. CASE Clock
  BY <1>10, ClockKeeps
<1>11. ASSUME NEW s \in Slots, LookUpTarget(s) PROVE IInv'
  BY <1>11, LookUpTargetKeeps
<1>12. ASSUME NEW s \in Slots, InsertSchedule(s) PROVE IInv'
  BY <1>12, InsertScheduleKeeps
<1>13. ASSUME NEW s \in Slots, UpdateSchedule(s) PROVE IInv'
  BY <1>13, UpdateScheduleKeeps
<1>14. ASSUME NEW s \in Slots, DeleteSchedule(s) PROVE IInv'
  BY <1>14, DeleteScheduleKeeps
<1>15. CASE DeleteTarget
  BY <1>15, DeleteTargetKeeps
<1>16. CASE SwitchWorkflow
  BY <1>16, SwitchWorkflowKeeps
<1> QED
  BY <1>u, <1>1, <1>2, <1>3, <1>4, <1>5, <1>6, <1>7, <1>8,
     <1>9, <1>10, <1>11, <1>12, <1>13, <1>14, <1>15, <1>16 DEF Next, LoopStep

THEOREM InvariantHolds == Spec => []IInv
<1> QED
  BY InitIInv, StepKeeps, PTL DEF Spec

(* The type invariant of the table, the loop and the history. *)
THEOREM ScheduleTypes == Spec => []TypeOK
<1>1. IInv => TypeOK
  BY DEF IInv
<1> QED
  BY <1>1, InvariantHolds, PTL

(* A disabled schedule is attempted at most once more, by the tick that had read *)
(* it before, however many schedules there are.                                  *)
THEOREM AtMostOneLateAttempt == Spec => []AtMostOneLate
<1>1. IInv => AtMostOneLate
  BY DEF IInv, LateOnce, AtMostOneLate
<1> QED
  BY <1>1, InvariantHolds, PTL

(* last_error is the last recorded outcome, for any number of schedules and faults. *)
THEOREM ErrorsShow == Spec => []ErrorVisible
<1>1. IInv => ErrorVisible
  BY DEF IInv
<1> QED
  BY <1>1, InvariantHolds, PTL

(* Only a scan makes schedules due, and it finds their interval to have passed. *)
LEMMA DueAfterInterval ==
  ASSUME IInv, [Next]_vars, NEW s \in todo' \ todo
  PROVE  since[s] >= table[s].interval \/ s \in cut
<1>1. todo' \subseteq todo \/ Scan
  <2>1. ASSUME NEW p \in Slots, Repair(p) PROVE todo' \subseteq todo
    BY <2>1 DEF Repair, Repaired
  <2>2. ASSUME NEW p \in Slots, StartAttempt(p) PROVE todo' \subseteq todo
    BY <2>2 DEF StartAttempt, Picked
  <2>3. CASE EndAttempt
    BY <2>3 DEF EndAttempt
  <2>4. ASSUME NEW p \in Slots, Record(p) PROVE todo' \subseteq todo
    BY <2>4 DEF Record, Recorded
  <2>5. CASE TickDone
    BY <2>5 DEF TickDone
  <2>6. CASE StoreFails \/ Crash
    BY <2>6 DEF StoreFails, Crash, Forget
  <2>7. CASE Start
    BY <2>7 DEF Start
  <2>8. CASE Clock
    BY <2>8 DEF Clock, loop
  <2>9. ASSUME NEW p \in Slots,
               LookUpTarget(p) \/ InsertSchedule(p) \/ UpdateSchedule(p) \/ DeleteSchedule(p)
        PROVE  todo' \subseteq todo
    BY <2>9 DEF LookUpTarget, InsertSchedule, Inserted, UpdateSchedule, DeleteSchedule, loop
  <2>10. CASE DeleteTarget \/ SwitchWorkflow
    BY <2>10 DEF DeleteTarget, SwitchWorkflow, loop
  <2>11. CASE UNCHANGED vars
    BY <2>11 DEF vars, loop
  <2> QED
    BY <2>1, <2>2, <2>3, <2>4, <2>5, <2>6, <2>7, <2>8, <2>9, <2>10, <2>11 DEF Next, LoopStep
<1>2. Scan
  BY <1>1
<1>3. /\ s \in Slots /\ Due(table[s])
      /\ todo = {} /\ cur = {}
  BY <1>2 DEF Scan, IInv, TypeOK, Phases
<1>4. /\ table[s] \in Row /\ since[s] \in 0 .. Cap
      /\ table[s].interval \in 1 .. Cap
  BY <1>3 DEF IInv, TypeOK, Row
<1>5. PacedRow(s)
  BY <1>3 DEF IInv, Paced
<1>6. CASE s \notin cut /\ table[s].corrupt
  BY <1>6, <1>3, <1>4, <1>5 DEF PacedRow, Due
<1>7. CASE s \notin cut /\ ~table[s].corrupt
  BY <1>7, <1>3, <1>4, <1>5 DEF PacedRow, Due, Row
<1> QED
  BY <1>6, <1>7

(* No hot loop: for any intervals and any number of schedules, a schedule is due *)
(* again only after its interval, unless a fault kept its time from advancing.   *)
THEOREM NoHotLoop == Spec => DueOnce
<1>1. ASSUME IInv, [Next]_vars
      PROVE  [\A s \in todo' \ todo : since[s] >= table[s].interval \/ s \in cut]_vars
  BY <1>1, DueAfterInterval
<1> QED
  BY <1>1, InvariantHolds, PTL DEF Spec, DueOnce

==================================================================================
