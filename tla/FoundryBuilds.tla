---------------------------- MODULE FoundryBuilds ----------------------------
(***************************************************************************)
(* The builds of one Foundry transform (apps/api/app/foundry/builds.py):   *)
(* run_transform_build, which the build route, the scheduler, the pipeline *)
(* build and the upload cascade all call, without excluding one another.   *)
(* Every await of a store call lets the other builds, uploads of the input *)
(* dataset and edits of the transform run.                                 *)
(*                                                                         *)
(* The transform reads one input dataset and writes one output dataset.    *)
(* add_version is one step here, its commit: FoundryVersions has its       *)
(* statements.  Rows are named after the input version they come from.     *)
(***************************************************************************)
EXTENDS Naturals, Sequences, FiniteSets

CONSTANTS Builds,      \* the calls of run_transform_build explored
          MaxInput,    \* bound: the last version uploaded to the input
          MaxTime,     \* bound: the seconds the clock shows
          Faults       \* what may happen in some behaviours: builds overlap,
                       \* a crash, a store call that raises

ASSUME BoundAssumption == MaxInput \in Nat \ {0} /\ MaxTime \in Nat
ASSUME FaultsAssumption == Faults \subseteq {"overlap", "crash", "store"}

NoBuild == "none"
ASSUME NoBuildAssumption == NoBuild \notin Builds

(* aborted: an error left run_transform_build before its try; unfinished:  *)
(* one left it from an except clause.                                      *)
Phases == {"idle", "create", "resolve", "read", "write", "dead", "sync",
           "apply", "finish", "fail", "ended", "lost", "aborted", "unfinished"}

Over == {"ended", "lost", "aborted", "unfinished"}

VARIABLES
    faults,     \* what may happen in this behaviour
    present,    \* the transform is stored
    inputThere, \* the input dataset is stored
    inVer,      \* the latest version of the input
    out,        \* the versions of the output: who wrote them, from which input
    dead,       \* the build whose quarantined rows are in dead_letter
    synced,     \* the output version the bound ontology objects were taken from
    now,        \* _now_iso(): a clock of one-second ticks
    build       \* build[b]: the row of build b and the locals of its call

vars == <<faults, present, inputThere, inVer, out, dead, synced, now, build>>

(* recorded: input_versions, {} or the one number; from: the input version *)
(* whose rows were read, 0 for none; bad: rows were quarantined; seen: the *)
(* output version whose rows the sync read.                                *)
Build == [pc : Phases, status : {"none", "running", "succeeded", "failed"},
          recorded : SUBSET (0..MaxInput), from : 0..MaxInput, bad : BOOLEAN,
          seen : Nat, finished : 0..MaxTime]

NoBuildYet == [pc |-> "idle", status |-> "none", recorded |-> {}, from |-> 0,
               bad |-> FALSE, seen |-> 0, finished |-> 0]

InFlight(b) == build[b].pc \notin Over \cup {"idle"}
Quiet == \A b \in Builds : ~InFlight(b)

-----------------------------------------------------------------------------
(* Staleness *)

\* resolve_input_versions: the latest version of every input that is there.
InputVersions == IF inputThere THEN {inVer} ELSE {}

\* Slip: the query forgets status='succeeded'.
LastFinished ==
    {b \in Builds : /\ build[b].status \in {"succeeded", "failed"}
                    /\ \A c \in Builds : build[c].status \in {"succeeded", "failed"}
                                           => build[c].finished <= build[b].finished}

\* most_recent_successful_build_for_transform: ORDER BY finished_at DESC LIMIT 1
\* returns any one of those that finished in the same, latest second.
LastSuccessful ==
    {b \in Builds : /\ build[b].status = "succeeded"
                    /\ \A c \in Builds : build[c].status = "succeeded"
                                           => build[c].finished <= build[b].finished}

\* transform_is_stale, when the query returned b.
StaleSince(b) == build[b].recorded # InputVersions

-----------------------------------------------------------------------------
(* run_transform_build *)

Goto(b, p) == build' = [build EXCEPT ![b].pc = p]

\* get_transform: 404 before any row exists when the transform is gone.  An error
\* of the store here leaves as little.
GetTransform(b) ==
    /\ build[b].pc = "idle"
    /\ "overlap" \in faults \/ Quiet
    /\ Goto(b, IF present THEN "create" ELSE "ended")
    /\ UNCHANGED <<faults, present, inputThere, inVer, out, dead, synced, now>>

\* Slip: the row is inserted when the build ends.
CreateBuildLate(b) ==
    /\ build[b].pc = "create"
    /\ build' = [build EXCEPT ![b].pc = "resolve"]
    /\ UNCHANGED <<faults, present, inputThere, inVer, out, dead, synced, now>>

\* create_build inserts the row with status running.
CreateBuild(b) ==
    /\ build[b].pc = "create"
    /\ build' = [build EXCEPT ![b].pc = "resolve", ![b].status = "running"]
    /\ UNCHANGED <<faults, present, inputThere, inVer, out, dead, synced, now>>

\* Slip: the versions are looked up after the rows.
ResolveInputsAhead(b) ==
    /\ build[b].pc = "resolve"
    /\ build' = [build EXCEPT ![b].pc = "read",
                              ![b].recorded = IF inputThere /\ inVer < MaxInput
                                              THEN {inVer + 1} ELSE InputVersions]
    /\ UNCHANGED <<faults, present, inputThere, inVer, out, dead, synced, now>>

\* resolve_input_versions, stored in the row by set_build_input_versions.
ResolveInputs(b) ==
    /\ build[b].pc = "resolve"
    /\ build' = [build EXCEPT ![b].pc = "read", ![b].recorded = InputVersions]
    /\ UNCHANGED <<faults, present, inputThere, inVer, out, dead, synced, now>>

\* _execute_transform: latest_rows of the input, [] when it is gone; the steps
\* quarantine some rows, or raise.
ReadInput(b) ==
    /\ build[b].pc = "read"
    /\ \E quarantined \in BOOLEAN, p \in {"write", "fail"} :
         build' = [build EXCEPT ![b].pc = p, ![b].bad = quarantined,
                                ![b].from = IF inputThere THEN inVer ELSE 0]
    /\ UNCHANGED <<faults, present, inputThere, inVer, out, dead, synced, now>>

\* Slip: a refused write is not noticed.
RejectVersionIgnored(b) ==
    /\ build[b].pc = "write"
    /\ Goto(b, "dead")
    /\ UNCHANGED <<faults, present, inputThere, inVer, out, dead, synced, now>>

\* add_version is refused: a failing check, the row cap, a number taken.
RejectVersion(b) ==
    /\ build[b].pc = "write"
    /\ Goto(b, "fail")
    /\ UNCHANGED <<faults, present, inputThere, inVer, out, dead, synced, now>>

\* Slip: the build ends without its auto-sync.
AddVersionUnsynced(b) ==
    /\ build[b].pc = "write"
    /\ out' = Append(out, [by |-> b, from |-> build[b].from])
    /\ Goto(b, "finish")
    /\ UNCHANGED <<faults, present, inputThere, inVer, dead, synced, now>>

\* add_version commits; what it calls after the commit may still raise.
AddVersion(b) ==
    /\ build[b].pc = "write"
    /\ out' = Append(out, [by |-> b, from |-> build[b].from])
    /\ \E p \in {"dead"} \cup (IF "store" \in faults THEN {"fail"} ELSE {}) : Goto(b, p)
    /\ UNCHANGED <<faults, present, inputThere, inVer, dead, synced, now>>

\* Slip: a clean build leaves the rows of the previous one.
RecordDeadLetterIfAny(b) ==
    /\ build[b].pc = "dead"
    /\ dead' = IF build[b].bad THEN b ELSE dead
    /\ Goto(b, "sync")
    /\ UNCHANGED <<faults, present, inputThere, inVer, out, synced, now>>

\* record_dead_letter replaces the rows of whichever build recorded before.
RecordDeadLetter(b) ==
    /\ build[b].pc = "dead"
    /\ dead' = IF build[b].bad THEN b ELSE NoBuild
    /\ Goto(b, "sync")
    /\ UNCHANGED <<faults, present, inputThere, inVer, out, synced, now>>

\* sync_binding reads the rows of the latest output version ...
SyncRead(b) ==
    /\ build[b].pc = "sync"
    /\ build' = [build EXCEPT ![b].pc = "apply", ![b].seen = Len(out)]
    /\ UNCHANGED <<faults, present, inputThere, inVer, out, dead, synced, now>>

\* ... and upserts the objects of those rows.
SyncApply(b) ==
    /\ build[b].pc = "apply"
    /\ synced' = build[b].seen
    /\ Goto(b, "finish")
    /\ UNCHANGED <<faults, present, inputThere, inVer, out, dead, now>>

\* Slip: an except clause that logs and does not finish the row.
FinishOnSuccess(b) ==
    /\ build[b].pc \in {"finish", "fail"}
    /\ build' = IF build[b].pc = "finish"
                THEN [build EXCEPT ![b].pc = "ended", ![b].finished = now,
                                   ![b].status = "succeeded"]
                ELSE [build EXCEPT ![b].pc = "ended"]
    /\ UNCHANGED <<faults, present, inputThere, inVer, out, dead, synced, now>>

\* finish_build, after a success or from one of the except clauses.
FinishBuild(b) ==
    /\ build[b].pc \in {"finish", "fail"}
    /\ build' = [build EXCEPT
         ![b].pc = "ended", ![b].finished = now,
         ![b].status = IF build[b].pc = "finish" THEN "succeeded" ELSE "failed"]
    /\ UNCHANGED <<faults, present, inputThere, inVer, out, dead, synced, now>>

\* Slip: the try is gone.
StoreFailsUncaught(b) ==
    /\ "store" \in faults
    /\ build[b].pc \in {"create", "resolve", "read", "write", "dead", "sync", "finish", "fail"}
    /\ Goto(b, IF build[b].pc = "fail" THEN "unfinished" ELSE "aborted")
    /\ UNCHANGED <<faults, present, inputThere, inVer, out, dead, synced, now>>

\* A store call raises, "database is locked", before it has an effect.  In front of
\* the try nothing catches it: create_build leaves no row, the two calls that
\* record the input versions leave it running.  In the try the except clause
\* takes over, which itself calls nothing that raises but finish_build: the
\* monitors catch everything.
StoreFails(b) ==
    /\ "store" \in faults
    /\ \/ build[b].pc \in {"create", "resolve"} /\ Goto(b, "aborted")
       \/ build[b].pc \in {"read", "write", "dead", "sync", "finish"} /\ Goto(b, "fail")
       \/ build[b].pc = "fail" /\ Goto(b, "unfinished")
    /\ UNCHANGED <<faults, present, inputThere, inVer, out, dead, synced, now>>

\* auto_sync_dataset catches what sync_binding raises: the build goes on.
SyncFails(b) ==
    /\ "store" \in faults
    /\ build[b].pc \in {"sync", "apply"}
    /\ Goto(b, "finish")
    /\ UNCHANGED <<faults, present, inputThere, inVer, out, dead, synced, now>>

Run(b) ==
    \/ GetTransform(b)
    \/ CreateBuild(b)
    \/ ResolveInputs(b)
    \/ ReadInput(b)
    \/ RejectVersion(b)
    \/ AddVersion(b)
    \/ RecordDeadLetter(b)
    \/ SyncRead(b)
    \/ SyncApply(b)
    \/ FinishBuild(b)

-----------------------------------------------------------------------------
(* What happens around the builds *)

\* A new version of the input.
UploadInput ==
    /\ inputThere
    /\ inVer < MaxInput
    /\ inVer' = inVer + 1
    /\ UNCHANGED <<faults, present, inputThere, out, dead, synced, now, build>>

DeleteTransform ==
    /\ present
    /\ present' = FALSE
    /\ UNCHANGED <<faults, inputThere, inVer, out, dead, synced, now, build>>

\* delete_dataset refuses the input for as long as the transform is stored, not
\* while a build of it runs.
DeleteInput ==
    /\ inputThere /\ ~present
    /\ inputThere' = FALSE
    /\ UNCHANGED <<faults, present, inVer, out, dead, synced, now, build>>

Tick ==
    /\ now < MaxTime
    /\ now' = now + 1
    /\ UNCHANGED <<faults, present, inputThere, inVer, out, dead, synced, build>>

\* The process stops or the scheduler's task is cancelled in the middle of
\* builds: nothing ever touches their rows again.
Crash ==
    /\ "crash" \in faults
    /\ ~Quiet
    /\ build' = [b \in Builds |-> IF InFlight(b) THEN [build[b] EXCEPT !.pc = "lost"]
                                  ELSE build[b]]
    /\ UNCHANGED <<faults, present, inputThere, inVer, out, dead, synced, now>>

\* A transform over an input at version 1, never built.
Init ==
    /\ faults \in SUBSET Faults
    /\ present = TRUE
    /\ inputThere = TRUE
    /\ inVer = 1
    /\ out = <<>>
    /\ dead = NoBuild
    /\ synced = 0
    /\ now = 0
    /\ build = [b \in Builds |-> NoBuildYet]

Next ==
    \/ \E b \in Builds : Run(b) \/ StoreFails(b) \/ SyncFails(b)
    \/ UploadInput
    \/ DeleteTransform
    \/ DeleteInput
    \/ Tick
    \/ Crash

Spec == Init /\ [][Next]_vars

\* The event loop resumes a call whose store operation has returned; whether
\* anyone starts a build is up to the callers, and no store call has to fail.
FairSpec == Spec /\ \A b \in Builds : WF_vars(Run(b) /\ InFlight(b))

-----------------------------------------------------------------------------
(* Properties *)

VersionsBy(b) == {i \in 1..Len(out) : out[i].by = b}

\* Types; a row says "running" from its insertion to its end, or for ever.
TypeOK ==
    /\ faults \in SUBSET Faults
    /\ present \in BOOLEAN /\ inputThere \in BOOLEAN
    /\ inVer \in 1..MaxInput
    /\ out \in Seq([by : Builds, from : 0..MaxInput])
    /\ dead \in Builds \cup {NoBuild}
    /\ synced \in 0..Len(out)
    /\ now \in 0..MaxTime
    /\ build \in [Builds -> Build]
    /\ \A b \in Builds : (InFlight(b) /\ build[b].pc # "create") => build[b].status = "running"

\* A build that is reported as succeeded wrote one version of the output, and no
\* build ever writes two, whatever it is interleaved with or interrupted by.
SucceededWroteOnce ==
    /\ TypeOK
    /\ \A b \in Builds : /\ build[b].status = "succeeded" => Cardinality(VersionsBy(b)) = 1
                         /\ Cardinality(VersionsBy(b)) <= 1

\* The input versions are recorded before the rows are read.  An upload between
\* the two makes a build look older than it is, never newer: when the build the
\* staleness check consults is also the one that wrote the latest output, "not
\* stale" is the truth.
NotStaleIfOwnVersion ==
    \A b \in LastSuccessful :
        (inputThere /\ ~StaleSince(b) /\ out # <<>> /\ out[Len(out)].by = b)
            => out[Len(out)].from = inVer

\* Every started build ends, whatever the others do: with a row that says succeeded
\* or failed, whichever call in the try raises.  The exceptions are the loss of the
\* process or of the task, a finish_build that raises in an except clause, and an
\* error of the store before the try, which has then recorded and written nothing.
BuildEnds ==
    \A b \in Builds :
        InFlight(b) ~>
          \/ build[b].pc = "ended" /\ build[b].status \in {"succeeded", "failed"}
          \/ build[b].pc \in {"lost", "unfinished"}
          \/ build[b].pc = "aborted" /\ build[b].recorded = {} /\ VersionsBy(b) = {}

\* lineage_graph: an output that is not flagged stale was computed from the
\* latest version of the input.
NotStaleMeansFresh ==
    \A b \in LastSuccessful :
        (Quiet /\ inputThere /\ ~StaleSince(b))
            => out # <<>> /\ out[Len(out)].from = inVer

\* It is true of builds that follow one another, even if the process stops in
\* one of them or the store fails in any of its calls.
SerialBuildsFresh == "overlap" \notin faults => NotStaleMeansFresh

\* What transform_is_stale may be trusted for: a build that wrote the latest
\* output, and builds that followed one another.
NotStaleIsTrusted == NotStaleIfOwnVersion /\ SerialBuildsFresh

\* record_dead_letter: "the table reflects the LATEST build's bad rows", which is
\* true of builds that follow one another.  Whatever else happens, a build whose
\* version was refused leaves the rows of the live version alone: they belong to a
\* build that wrote a version.
DeadLetters ==
    dead # NoBuild => /\ VersionsBy(dead) # {}
                      /\ (faults = {} /\ Quiet) => out[Len(out)].by = dead

\* The bound objects were taken from the latest version of the output, data
\* changes propagate to the ontology: after builds that follow one another.
SerialSynced == (faults = {} /\ Quiet) => synced = Len(out)

\* The two tables that every build replaces follow the live version.
ReplacedTablesFollow == DeadLetters /\ SerialSynced
=============================================================================
