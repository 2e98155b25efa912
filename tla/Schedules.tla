------------------------------ MODULE Schedules ------------------------------
(***************************************************************************)
(* Interval schedules: the table of schedules of a transform (foundry) or  *)
(* of a workflow (workflows), its requests, and the background loop that   *)
(* runs what is due.  The two products are written line by line alike: a   *)
(* transform is a workflow that nobody disables, so the schedules of both  *)
(* are modelled as those of a workflow.                                    *)
(*                                                                         *)
(* Time is kept as ages: the seconds since a timestamp, up to Cap.  The    *)
(* pause of the loop is any length, none included.                         *)
(***************************************************************************)
EXTENDS Naturals

CONSTANTS Slots,      \* schedule ids; one is used again when nothing names it
          Intervals,  \* the values of interval_s explored
          Cap,        \* bound: the age beyond which seconds are not counted
          MaxFaults   \* bound: crashes and failing store calls

ASSUME CapAssumption == Cap \in Nat
ASSUME IntervalsAssumption == Intervals \subseteq 1 .. Cap /\ Intervals # {}
ASSUME FaultsAssumption == MaxFaults \in Nat

VARIABLES
    target,   \* the transform or workflow: "on", "off" (disabled), "gone"
    table,    \* table[s]: the row of schedule s
    checked,  \* the schedules whose target POST has looked up
    pc,       \* where the loop is
    todo,     \* the rest of due
    repairs,  \* the due schedules with a corrupt time, to be repaired
    cur,      \* the schedule being attempted, none or one
    result,   \* its outcome: last_error is set or None
    faults    \* how many faults may still come

loop == <<pc, todo, repairs, cur, result>>

VARIABLES     \* history, for the properties
    since,    \* since[s]: seconds since s was last found due; Cap if never
    cut,      \* the schedules whose time was not advanced after that
    fixed,    \* the schedules repaired in this tick
    late,     \* late[s]: attempts since s was disabled
    told      \* told[s]: the last outcome recorded was an error

history == <<since, cut, fixed, late, told>>
vars == <<target, table, checked, loop, faults, history>>

Min2(a, b) == IF a < b THEN a ELSE b

(* age: seconds since last_run, or since created_at; corrupt: the time cannot *)
(* be parsed; err: last_error is not None.                                    *)
Row == [stored : BOOLEAN, enabled : BOOLEAN, interval : Intervals,
        corrupt : BOOLEAN, age : 0 .. Cap, err : BOOLEAN]

Active(s) == table[s].stored /\ table[s].enabled

\* set_schedule_result: nothing happens to a row that is gone.
Advanced(s, err) ==
    IF table[s].stored
    THEN [table EXCEPT ![s].corrupt = FALSE, ![s].age = 0, ![s].err = err]
    ELSE table

-----------------------------------------------------------------------------
(* The loop *)

\* Slip: the disabled schedules are read too.
DueIfStored(r) == r.stored /\ (r.corrupt \/ r.age >= r.interval)

Due(r) == r.stored /\ r.enabled /\ (r.corrupt \/ r.age >= r.interval)

\* due_schedules reads the table and judges what it read.
Scan ==
    /\ pc = "sleep"
    /\ todo' = {s \in Slots : Due(table[s])}
    /\ repairs' = {s \in todo' : table[s].corrupt}
    /\ pc' = IF repairs' = {} THEN "tick" ELSE "repair"
    /\ since' = [s \in Slots |-> IF s \in todo' THEN 0 ELSE since[s]]
    /\ cut' = cut \ todo'
    /\ UNCHANGED <<target, table, checked, cur, result, faults, fixed, late, told>>

Repaired(s) ==
    /\ pc = "repair"
    /\ s \in repairs
    /\ repairs' = repairs \ {s}
    /\ pc' = IF repairs' = {} THEN "tick" ELSE "repair"
    /\ fixed' = fixed \cup {s}
    /\ UNCHANGED <<target, checked, todo, cur, result, faults, since, cut, late, told>>

\* Slip: the repair clears last_error.
RepairAndClear(s) == Repaired(s) /\ table' = Advanced(s, FALSE)

\* The repair writes last_error back as it was read; only the loop writes it.
Repair(s) == Repaired(s) /\ table' = Advanced(s, table[s].err)

Picked(s) ==
    /\ pc = "tick"
    /\ s \in todo
    /\ todo' = todo \ {s}
    /\ cur' = {s}
    /\ late' = [late EXCEPT ![s] = IF table[s].stored /\ ~table[s].enabled
                                  THEN Min2(@ + 1, 2) ELSE 0]
    /\ UNCHANGED <<target, table, checked, repairs, faults, since, cut, fixed, told>>

\* Slip: a target that is not stored is skipped like a disabled one.
StartQuietly(s) ==
    /\ Picked(s)
    /\ \/ target = "on" /\ pc' = "run" /\ result' = "none"
       \/ target # "on" /\ pc' = "record" /\ result' = "ok"

\* The next schedule of the tick: neither its row nor the other rows are read
\* again.  A disabled workflow is skipped without an error; a target that is not
\* stored, or that cannot be read, is an error.
StartAttempt(s) ==
    /\ Picked(s)
    /\ \/ target = "on" /\ pc' = "run" /\ result' = "none"
       \/ target = "off" /\ pc' = "record" /\ result' = "ok"
       \/ pc' = "record" /\ result' = "error"

\* The build or the run returns, or raises an exception that _tick catches.
EndAttempt ==
    /\ pc = "run"
    /\ pc' = "record"
    /\ result' \in {"ok", "error"}
    /\ UNCHANGED <<target, table, checked, todo, repairs, cur, faults, history>>

Recorded(s) ==
    /\ pc = "record"
    /\ s \in cur
    /\ cur' = {}
    /\ result' = "none"
    /\ pc' = "tick"
    /\ told' = [told EXCEPT ![s] = table[s].stored /\ result = "error"]
    /\ UNCHANGED <<target, checked, todo, repairs, faults, since, cut, fixed, late>>

\* Slip: an attempt that failed is tried again in the next tick.
RecordSuccess(s) ==
    /\ Recorded(s)
    /\ table' = IF result = "ok" \/ ~table[s].stored THEN Advanced(s, FALSE)
                ELSE [table EXCEPT ![s].err = TRUE]

\* last_run advances whether the attempt succeeded or failed.
Record(s) == Recorded(s) /\ table' = Advanced(s, result = "error")

TickDone ==
    /\ pc = "tick" /\ todo = {}
    /\ pc' = "sleep"
    /\ fixed' = {}
    /\ UNCHANGED <<target, table, checked, todo, repairs, cur, result, faults,
                   since, cut, late, told>>

\* What the loop held is lost.
Forget ==
    /\ faults > 0
    /\ faults' = faults - 1
    /\ todo' = {} /\ repairs' = {} /\ cur' = {} /\ result' = "none"
    /\ cut' = cut \cup ((todo \cup cur) \ fixed)
    /\ fixed' = {}
    /\ UNCHANGED <<target, table, since, late, told>>

\* A call of the store raises outside the attempt (the database stays locked):
\* _run_forever drops the tick and goes on to the next.
StoreFails ==
    /\ pc \in {"sleep", "repair", "record"}
    /\ pc' = "sleep"
    /\ UNCHANGED checked
    /\ Forget

LoopStep ==
    \/ Scan
    \/ \E s \in Slots : Repair(s) \/ StartAttempt(s) \/ Record(s)
    \/ EndAttempt
    \/ TickDone

-----------------------------------------------------------------------------
(* The process *)

\* stop cancels the task at any of its awaits; a crash does the same.
Crash ==
    /\ pc # "down"
    /\ pc' = "down"
    /\ checked' = {}
    /\ Forget

\* Slip: stop leaves _STARTED set, so start returns at once.
StartNothing ==
    /\ pc = "down"
    /\ UNCHANGED vars

Start ==
    /\ pc = "down"
    /\ pc' = "sleep"
    /\ UNCHANGED <<target, table, checked, todo, repairs, cur, result, faults, history>>

Clock ==
    /\ table' = [s \in Slots |-> IF table[s].stored /\ ~table[s].corrupt
                                 THEN [table[s] EXCEPT !.age = Min2(@ + 1, Cap)]
                                 ELSE table[s]]
    /\ since' = [s \in Slots |-> Min2(since[s] + 1, Cap)]
    /\ UNCHANGED <<target, checked, loop, faults, cut, fixed, late, told>>

-----------------------------------------------------------------------------
(* The requests *)

Up == pc # "down"
NewRow(i, e) == [stored |-> TRUE, enabled |-> e, interval |-> i,
                 corrupt |-> FALSE, age |-> 0, err |-> FALSE]
NoRow == [stored |-> FALSE, enabled |-> FALSE, interval |-> CHOOSE i \in Intervals : TRUE,
          corrupt |-> FALSE, age |-> 0, err |-> FALSE]

Unwatched(S) ==
    /\ since' = [s \in Slots |-> IF s \in S THEN Cap ELSE since[s]]
    /\ told' = [s \in Slots |-> IF s \in S THEN FALSE ELSE told[s]]
    /\ late' = [s \in Slots |-> IF s \in S THEN 0 ELSE late[s]]
    /\ cut' = cut \ S
    /\ UNCHANGED fixed

\* POST /schedules: 404 when the target is not stored.
LookUpTarget(s) ==
    /\ Up /\ target # "gone"
    /\ ~table[s].stored
    /\ s \notin checked \cup todo \cup cur
    /\ checked' = checked \cup {s}
    /\ UNCHANGED <<target, table, loop, faults, history>>

Inserted(s, rows) ==
    /\ Up
    /\ s \in checked
    /\ checked' = checked \ {s}
    /\ table' \in {[table EXCEPT ![s] = r] : r \in rows}
    /\ Unwatched({s})
    /\ UNCHANGED <<target, loop, faults>>

\* Slip: any interval is accepted.
InsertUnbounded(s) ==
    Inserted(s, {NewRow(i, e) : i \in Intervals \cup {0}, e \in BOOLEAN})

InsertSchedule(s) ==
    Inserted(s, {NewRow(i, e) : i \in Intervals, e \in BOOLEAN})

\* PUT /schedules/{id} leaves last_run and last_error alone.
UpdateSchedule(s) ==
    /\ Up
    /\ table[s].stored
    /\ \E i \in Intervals, e \in BOOLEAN :
          /\ table' = [table EXCEPT ![s].interval = i, ![s].enabled = e]
          /\ late' = [late EXCEPT ![s] = IF e THEN 0 ELSE @]
    /\ UNCHANGED <<target, checked, loop, faults, since, cut, fixed, told>>

DeleteSchedule(s) ==
    /\ Up
    /\ table[s].stored
    /\ table' = [table EXCEPT ![s] = NoRow]
    /\ Unwatched({s})
    /\ UNCHANGED <<target, checked, loop, faults>>

\* DELETE of the transform or workflow deletes its schedules in the same
\* transaction.
DeleteTarget ==
    /\ Up /\ target # "gone"
    /\ target' = "gone"
    /\ table' = [s \in Slots |-> NoRow]
    /\ Unwatched(Slots)
    /\ UNCHANGED <<checked, loop, faults>>

\* PUT /workflows/{id} enables or disables the workflow.
SwitchWorkflow ==
    /\ Up /\ target # "gone"
    /\ target' \in {"on", "off"} \ {target}
    /\ UNCHANGED <<table, checked, loop, faults, history>>

-----------------------------------------------------------------------------
\* A row that the loop finds at its start may hold a time it cannot parse.
FoundRows == {NoRow} \cup
    [stored : {TRUE}, enabled : {TRUE}, interval : Intervals, corrupt : {TRUE},
     age : {0}, err : BOOLEAN]

Init ==
    /\ target = "on"
    /\ table \in [Slots -> FoundRows]
    /\ checked = {}
    /\ pc = "sleep" /\ todo = {} /\ repairs = {} /\ cur = {} /\ result = "none"
    /\ faults = MaxFaults
    /\ since = [s \in Slots |-> Cap]
    /\ cut = {} /\ fixed = {}
    /\ late = [s \in Slots |-> 0]
    /\ told = [s \in Slots |-> table[s].err]

Next ==
    \/ LoopStep
    \/ StoreFails
    \/ Crash
    \/ Start
    \/ Clock
    \/ \E s \in Slots : LookUpTarget(s) \/ InsertSchedule(s)
                        \/ UpdateSchedule(s) \/ DeleteSchedule(s)
    \/ DeleteTarget
    \/ SwitchWorkflow

Spec == Init /\ [][Next]_vars

\* Time passes, the event loop resumes the task, attempts end, and a process that
\* stopped is started again.
FairSpec == Spec /\ WF_vars(LoopStep) /\ WF_vars(Start) /\ WF_vars(Clock)

-----------------------------------------------------------------------------
(* Properties *)

TypeOK ==
    /\ target \in {"on", "off", "gone"}
    /\ table \in [Slots -> Row]
    /\ checked \subseteq Slots
    /\ pc \in {"sleep", "repair", "tick", "run", "record", "down"}
    /\ todo \subseteq Slots /\ repairs \subseteq todo
    /\ cur \subseteq Slots /\ (cur # {} <=> pc \in {"run", "record"})
    /\ result \in {"none", "ok", "error"} /\ (result # "none" <=> pc = "record")
    /\ faults \in 0 .. MaxFaults
    /\ since \in [Slots -> 0 .. Cap]
    /\ cut \subseteq Slots /\ fixed \subseteq Slots
    /\ late \in [Slots -> 0 .. 2]
    /\ told \in [Slots -> BOOLEAN]

\* "ALWAYS advance last_run ... must never hot-loop": a schedule is not found due
\* again before its interval has passed, success or failure, unless a crash or a
\* failing call kept the loop from advancing its time.  A corrupt time that was
\* repaired makes it due once: not even a crash before the attempt brings it back.
DueOnce ==
    [][\A s \in todo' \ todo : since[s] >= table[s].interval \/ s \in cut]_vars

\* A tick works from what it read at its start: a schedule that was disabled since
\* is attempted at most once more.
AtMostOneLate == \A s \in Slots : late[s] <= 1

\* last_error shows the outcome of the last attempt that was recorded, through
\* edits, repairs, crashes and dropped ticks.
ErrorVisible == \A s \in Slots : table[s].stored => table[s].err = told[s]

\* A schedule inserted after its target was deleted (the look-up and the insert
\* are two calls) fails, and is seen to fail.
OrphanShown ==
    \A s \in Slots : (Active(s) /\ target = "gone") ~> (table[s].err \/ ~Active(s))

\* A schedule that stays enabled is attempted again and again, whatever becomes of
\* the others, of edits of its interval and of the attempts.
KeepsRunning ==
    \A s \in Slots : <>[]Active(s) => []<>(s \in cur)

\* No schedule is passed over or fails in silence for ever.
LoopServesAll == OrphanShown /\ KeepsRunning
=============================================================================
