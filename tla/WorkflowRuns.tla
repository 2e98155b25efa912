----------------------------- MODULE WorkflowRuns -----------------------------
(***************************************************************************)
(* The runs of one stored workflow (apps/api/app/workflows): run_workflow  *)
(* called by POST /run and by the scheduler, the run rows and their        *)
(* retention, and the memory a workflow keeps from run to run.             *)
(*                                                                         *)
(* The workflow is the one the memory is meant for: a source block, a      *)
(* python block that drops the rows the memory has seen and remembers the  *)
(* others, a sink that raises an alert for each row that is left.          *)
(***************************************************************************)
EXTENDS Naturals, FiniteSets

CONSTANTS Runs,     \* the calls of run_workflow explored; the ids of their rows
          Items,    \* the rows the source may deliver
          Keep,     \* RUNS_KEEP_PER_WORKFLOW
          Budget,   \* MAX_ALERTS_PER_RUN
          MaxTime,  \* bound: the seconds the clock shows
          Faults    \* what may happen in some behaviours: runs overlap, a crash,
                    \* the memory is replaced, the workflow is deleted

ASSUME RunsAssumption == Runs \subseteq Nat
ASSUME KeepAssumption == Keep \in Nat \ {0} /\ Budget \in Nat \ {0}
ASSUME BoundAssumption == MaxTime \in Nat
ASSUME RunFaultsAssumption == Faults \subseteq {"overlap", "crash", "replace", "delete"}

RunPhases == {"idle", "create", "validate", "load", "source", "dedup", "alert",
              "save", "finish", "over", "raised", "lost"}

VARIABLES
    runFaults, \* what may happen in this behaviour
    present,   \* the workflow is stored
    rows,      \* the ids in the runs table
    status,    \* status[r]: the status column of row r
    started,   \* started[r]: its started_at, in seconds
    memory,    \* wf_memory: the items seen, or what was put there
    arrived,   \* the items the source delivers
    alerts,    \* alerts[i]: how often the sink raised i, 2 for more than once
    now,       \* _now_iso()
    sched,     \* the run the scheduler waits for, none when it is between ticks
    call       \* call[r]: the locals of the call

runEnv == <<runFaults, arrived, now>>
runVars == <<runFaults, present, rows, status, started, memory, arrived, alerts, now,
             sched, call>>

(* mem: ctx.memory; batch: the rows after the last block; took: the rows the *)
(* python block let through; ok: no block has failed so far.                 *)
Call == [pc : RunPhases, mem : SUBSET Items, batch : SUBSET Items,
         took : SUBSET Items, ok : BOOLEAN]

NotCalled == [pc |-> "idle", mem |-> {}, batch |-> {}, took |-> {}, ok |-> TRUE]

InFlight(r) == call[r].pc \notin {"idle", "over", "raised", "lost"}
Quiet == \A r \in Runs : ~InFlight(r)
NoRun == {}

Goto(r, p) == call' = [call EXCEPT ![r].pc = p]

-----------------------------------------------------------------------------
(* The callers *)

Begin(r) == /\ call[r].pc = "idle"
            /\ "overlap" \in runFaults \/ Quiet

\* POST /api/workflows/{id}/run: 404 when the workflow is not stored.
RunNow(r) ==
    /\ Begin(r)
    /\ Goto(r, IF present THEN "create" ELSE "over")
    /\ UNCHANGED <<runEnv, present, rows, status, started, memory, alerts, sched>>

\* _tick runs a due schedule and waits for it.  Deleting the workflow deletes
\* its schedules.
RunScheduled(r) ==
    /\ sched = NoRun /\ present
    /\ Begin(r)
    /\ Goto(r, "create")
    /\ sched' = {r}
    /\ UNCHANGED <<runEnv, present, rows, status, started, memory, alerts>>

\* Slip: the loop awaits the run without an except clause.
TickUncaught ==
    /\ \E r \in sched : call[r].pc = "over"
    /\ sched' = NoRun
    /\ UNCHANGED <<runEnv, present, rows, status, started, memory, alerts, call>>

\* The run is over, or raised an exception that _tick catches: in both cases
\* set_schedule_result, and on with the next tick.
RunReturns ==
    /\ \E r \in sched : call[r].pc \in {"over", "raised"}
    /\ sched' = NoRun
    /\ UNCHANGED <<runEnv, present, rows, status, started, memory, alerts, call>>

-----------------------------------------------------------------------------
(* run_workflow *)

\* Slip: the row is created with its default status.
CreateRunBare(r) ==
    /\ call[r].pc = "create"
    /\ rows' = rows \cup {r}
    /\ started' = [started EXCEPT ![r] = now]
    /\ Goto(r, "validate")
    /\ UNCHANGED <<runEnv, present, status, memory, alerts, sched>>

\* create_run: nothing checks that the workflow is still there.
CreateRun(r) ==
    /\ call[r].pc = "create"
    /\ rows' = rows \cup {r}
    /\ status' = [status EXCEPT ![r] = "running"]
    /\ started' = [started EXCEPT ![r] = now]
    /\ Goto(r, "validate")
    /\ UNCHANGED <<runEnv, present, memory, alerts, sched>>

\* _validate_dag; an invalid spec ends the run without touching the memory.
Validate(r) ==
    /\ call[r].pc = "validate"
    /\ \/ Goto(r, "load")
       \/ call' = [call EXCEPT ![r].pc = "finish", ![r].ok = FALSE]
    /\ UNCHANGED <<runEnv, present, rows, status, started, memory, alerts, sched>>

GetMemory(r) ==
    /\ call[r].pc = "load"
    /\ call' = [call EXCEPT ![r].pc = "source", ![r].mem = memory]
    /\ UNCHANGED <<runEnv, present, rows, status, started, memory, alerts, sched>>

\* A block raises, or the wall budget is used up before it: the later blocks are
\* skipped and the memory is saved all the same.
BlockFails(r) ==
    /\ call[r].pc \in {"source", "dedup", "alert"}
    /\ call' = [call EXCEPT ![r].pc = "save", ![r].ok = FALSE]
    /\ UNCHANGED <<runEnv, present, rows, status, started, memory, alerts, sched>>

SourceBlock(r) ==
    /\ call[r].pc = "source"
    /\ call' = [call EXCEPT ![r].pc = "dedup", ![r].batch = arrived]
    /\ UNCHANGED <<runEnv, present, rows, status, started, memory, alerts, sched>>

\* _run_op_python with a memory round trip.
PythonBlock(r) ==
    /\ call[r].pc = "dedup"
    /\ LET new == call[r].batch \ call[r].mem
       IN call' = [call EXCEPT ![r].pc = "alert", ![r].batch = new, ![r].took = new,
                               ![r].mem = @ \cup new]
    /\ UNCHANGED <<runEnv, present, rows, status, started, memory, alerts, sched>>

Publish(sent) == alerts' = [i \in Items |-> IF i \in sent /\ alerts[i] < 2
                                           THEN alerts[i] + 1 ELSE alerts[i]]

\* Slip: the budget is one alert short.
AlertBlockShort(r) ==
    /\ call[r].pc = "alert"
    /\ \E sent \in SUBSET call[r].batch :
          /\ Cardinality(sent) < Budget
          /\ Cardinality(sent) = Cardinality(call[r].batch) \/ Cardinality(sent) = Budget - 1
          /\ Publish(sent)
    /\ Goto(r, "save")
    /\ UNCHANGED <<runEnv, present, rows, status, started, memory, sched>>

\* One alert per row, in the order of the rows, until the budget is used up: the
\* block succeeds whether or not rows are left.
AlertBlock(r) ==
    /\ call[r].pc = "alert"
    /\ \E sent \in SUBSET call[r].batch :
          /\ Cardinality(sent) <= Budget
          /\ sent = call[r].batch \/ Cardinality(sent) = Budget
          /\ Publish(sent)
    /\ Goto(r, "save")
    /\ UNCHANGED <<runEnv, present, rows, status, started, memory, sched>>

\* Slip: the memory that was loaded is what is saved.
SaveNothing(r) ==
    /\ call[r].pc = "save"
    /\ Goto(r, "finish")
    /\ UNCHANGED <<runEnv, present, rows, status, started, memory, alerts, sched>>

\* set_memory_all replaces the whole memory, of a workflow that may be gone.
SaveMemory(r) ==
    /\ call[r].pc = "save"
    /\ memory' = call[r].mem
    /\ Goto(r, "finish")
    /\ UNCHANGED <<runEnv, present, rows, status, started, alerts, sched>>

Newer(s, r) == started[s] > started[r] \/ (started[s] = started[r] /\ s > r)

\* Slip: one row too many.
NewestOneMore(R) == {r \in R : Cardinality({s \in R : Newer(s, r)}) <= Keep}

\* ORDER BY started_at DESC, id DESC LIMIT Keep
Newest(R) == {r \in R : Cardinality({s \in R : Newer(s, r)}) < Keep}

\* Slip: the rows beyond the limit are pruned before the update is made.
FinishPrunesFirst(r) ==
    /\ call[r].pc = "finish"
    /\ rows' = Newest(rows \ {r})
    /\ status' = [status EXCEPT ![r] = IF call[r].ok THEN "succeeded" ELSE "failed"]
    /\ Goto(r, IF r \in rows THEN "over" ELSE "raised")
    /\ UNCHANGED <<runEnv, present, started, memory, alerts, sched>>

\* finish_run: one transaction.  Without the row there is nothing to update, and
\* _run_row(None) raises.
FinishRun(r) ==
    /\ call[r].pc = "finish"
    /\ \/ /\ r \in rows
          /\ status' = [status EXCEPT ![r] = IF call[r].ok THEN "succeeded" ELSE "failed"]
          /\ rows' = Newest(rows)
          /\ Goto(r, "over")
       \/ /\ r \notin rows
          /\ Goto(r, "raised")
          /\ UNCHANGED <<rows, status>>
    /\ UNCHANGED <<runEnv, present, started, memory, alerts, sched>>

Work(r) ==
    \/ CreateRun(r)
    \/ Validate(r)
    \/ GetMemory(r)
    \/ BlockFails(r)
    \/ SourceBlock(r)
    \/ PythonBlock(r)
    \/ AlertBlock(r)
    \/ SaveMemory(r)
    \/ FinishRun(r)

-----------------------------------------------------------------------------
(* What happens around the runs *)

\* PUT /memory, with an empty body.
ReplaceMemory ==
    /\ "replace" \in runFaults
    /\ memory # {}
    /\ memory' = {}
    /\ UNCHANGED <<runEnv, present, rows, status, started, alerts, sched, call>>

DeleteWorkflow ==
    /\ "delete" \in runFaults
    /\ present
    /\ present' = FALSE
    /\ rows' = {}
    /\ memory' = {}
    /\ UNCHANGED <<runEnv, status, started, alerts, sched, call>>

\* The process stops; after the restart the scheduler ticks again and nothing
\* touches the rows of the runs that were under way.
CrashRuns ==
    /\ "crash" \in runFaults
    /\ ~Quiet
    /\ call' = [r \in Runs |-> IF InFlight(r) THEN [call[r] EXCEPT !.pc = "lost"] ELSE call[r]]
    /\ sched' = NoRun
    /\ UNCHANGED <<runEnv, present, rows, status, started, memory, alerts>>

Arrive(i) ==
    /\ i \notin arrived
    /\ arrived' = arrived \cup {i}
    /\ UNCHANGED <<runFaults, present, rows, status, started, memory, alerts, now, sched, call>>

Tick ==
    /\ now < MaxTime
    /\ now' = now + 1
    /\ UNCHANGED <<runFaults, present, rows, status, started, memory, arrived, alerts, sched, call>>

RunsInit ==
    /\ runFaults \in SUBSET Faults
    /\ present = TRUE
    /\ rows = {}
    /\ status = [r \in Runs |-> "none"]
    /\ started = [r \in Runs |-> 0]
    /\ memory = {}
    /\ arrived = {}
    /\ alerts = [i \in Items |-> 0]
    /\ now = 0
    /\ sched = NoRun
    /\ call = [r \in Runs |-> NotCalled]

RunsNext ==
    \/ \E r \in Runs : RunNow(r) \/ RunScheduled(r) \/ Work(r)
    \/ RunReturns
    \/ ReplaceMemory
    \/ DeleteWorkflow
    \/ CrashRuns
    \/ \E i \in Items : Arrive(i)
    \/ Tick

RunsSpec == RunsInit /\ [][RunsNext]_runVars

\* The event loop resumes what it has started; every block has a timeout.
RunsFairSpec == RunsSpec /\ WF_runVars(RunReturns) /\ \A r \in Runs : WF_runVars(Work(r))

-----------------------------------------------------------------------------
(* Properties *)

RunsTypeOK ==
    /\ runFaults \in SUBSET Faults
    /\ present \in BOOLEAN
    /\ rows \in SUBSET Runs
    /\ status \in [Runs -> {"none", "running", "succeeded", "failed"}]
    /\ started \in [Runs -> 0..MaxTime]
    /\ memory \in SUBSET Items /\ arrived \in SUBSET Items
    /\ alerts \in [Items -> 0..2]
    /\ now \in 0..MaxTime
    /\ sched \in SUBSET Runs /\ Cardinality(sched) <= 1
    /\ call \in [Runs -> Call]
    /\ \A r \in rows : status[r] # "none"

\* Dedup through the memory works for runs that follow one another, whether they
\* succeed or fail: no item is alerted twice.  (An overlap, a crash between the
\* alert and the save, a replaced memory and a deletion each break it.)
SerialAlertsOnce ==
    runFaults = {} => \A i \in Items : alerts[i] <= 1

\* The memory marks an item as seen without an alert only because of a run that
\* failed, or one with more rows than its budget of alerts; even if runs overlap,
\* crash or lose each other's memory.
LossIsExplained ==
    \A i \in memory :
        \/ alerts[i] > 0
        \/ \E r \in Runs :
              /\ i \in call[r].took
              /\ \/ ~call[r].ok
                 \/ Cardinality(call[r].took) > Budget

\* While the workflow is stored, a run that returned has its row, with the status
\* it returned, unless Keep newer runs are on record.
AnsweredIsRecorded ==
    \A r \in Runs :
        (/\ present
         /\ call[r].pc = "over" /\ status[r] # "none"
         /\ Cardinality({s \in rows : Newer(s, r)}) < Keep)
        => r \in rows /\ status[r] = IF call[r].ok THEN "succeeded" ELSE "failed"

\* The table holds at most Keep rows beside those of runs that have not ended.
RetentionBound ==
    Cardinality(rows) <= Keep + Cardinality({r \in rows : status[r] = "running"})

\* The table of runs keeps what was answered, and no more than it should.
RunsOnRecord == RunsTypeOK /\ AnsweredIsRecorded /\ RetentionBound

\* Whatever happens to the run it waits for, the scheduler gets to its next tick.
SchedulerSurvives == []<>(sched = NoRun)
=============================================================================
