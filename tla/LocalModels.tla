----------------------------- MODULE LocalModels -----------------------------
(***************************************************************************)
(* The registry of local language models (app/localllm/manager.py):        *)
(* download jobs that run on the event loop and in worker threads, deletes *)
(* that wipe a model's directory in a worker thread, and the roles (active *)
(* and hot models) kept in a JSON sidecar.  Three guards keep them apart:  *)
(* _JOBS_LOCK with the set _DELETING, the reservation of a queued job, and *)
(* _STATE_LOCK around each read-mutate-write of the sidecar.               *)
(*                                                                         *)
(* A model's directory holds weights ("gguf") and "meta" (metadata.json);  *)
(* a model is installed exactly when its metadata is there.  The server    *)
(* may restart at any step: jobs and claims are lost, the disk stays.      *)
(***************************************************************************)
EXTENDS Integers, FiniteSets

CONSTANTS Keys,       \* model keys (sha1 of repo and quant)
          None,       \* the JSON null
          MaxJob,     \* how many downloads are ever requested
          MaxJobs,    \* _MAX_JOBS, the finished jobs kept
          Deleters,   \* worker threads that serve DELETE
          Roles,      \* "main" and "selection"
          Faults      \* of "preflight" "mkdir" "fetch" "late" "unlink" "save" "crash"

ASSUME LocalAssumption ==
    /\ None \notin Keys
    /\ MaxJob \in Nat /\ MaxJobs \in Nat

VARIABLES
    next,       \* identity (and creation order) of the next job
    listed,     \* the ids in _JOBS
    job,        \* per id: its key, status, and whether its digests were checked
    task,       \* per id: where the request or its background task stands
    deleting,   \* _DELETING
    del,        \* per delete thread: its key, its step, the files still listed
    metaFirst,  \* whether the file system lists metadata.json first
    disk,       \* per key: the directory
    refs,       \* the sidecar: active model per role, and the hot set
    setter,     \* the set_active or set_hot call that holds _STATE_LOCK
    locked,     \* _STATE_LOCK
    \* history
    expected,   \* what the sidecar should hold, each completed change applied once
    overlapped, \* keys that two deletes have held at the same time
    abandoned,  \* keys whose delete was cut short by a fault
    served      \* per key: the job whose install nothing has touched since

serverVars == <<next, listed, job, task, deleting, del, setter, locked>>
history == <<expected, overlapped, abandoned, served>>
vars == <<serverVars, metaFirst, disk, refs, history>>

JobIds == 1 .. MaxJob
Statuses == {"queued", "downloading", "verifying", "done", "error"}
ActiveStatuses == {"queued", "downloading", "verifying"}
Writing == {"queued", "fetching", "verifying", "recording", "finishing"}
Live == Writing \cup {"preflight"}
Wiping == {"claimed", "first", "second", "drop"}
Empty == [dir |-> FALSE, gguf |-> "none", meta |-> FALSE]
IdleSetter == [busy |-> FALSE]
IdleDelete == [key |-> None, at |-> "idle", todo |-> {}]
Fails(f) == f \in Faults

Files(k) == {f \in {"gguf", "meta"} :
                IF f = "meta" THEN disk[k].meta ELSE disk[k].gguf # "none"}
Installed(k) == disk[k].meta
Referenced(k) == k \in refs.hot \/ \E r \in Roles : refs.active[r] = k
\* Slip: a job still in its preflight is not seen.
RunningUnreserved(k) ==
    \E j \in listed : job[j].key = k /\ job[j].status \in {"downloading", "verifying"}
\* _running_job_for_key_locked
RunningJob(k) == \E j \in listed : job[j].key = k /\ job[j].status \in ActiveStatuses

Init ==
    /\ next = 1 /\ listed = {} /\ deleting = {} /\ locked = FALSE
    /\ job = [j \in JobIds |-> [key |-> None, status |-> "queued", verified |-> FALSE]]
    /\ task = [j \in JobIds |-> "none"]
    /\ del = [d \in Deleters |-> IdleDelete]
    /\ metaFirst \in BOOLEAN
    /\ disk = [k \in Keys |-> Empty]
    /\ refs = [active |-> [r \in Roles |-> None], hot |-> {}]
    /\ setter = IdleSetter
    /\ expected = refs /\ overlapped = {} /\ abandoned = {}
    /\ served = [k \in Keys |-> 0]
-----------------------------------------------------------------------------
(* Downloads                                                               *)

\* start_download, the check-and-reserve under _JOBS_LOCK.  A refused call
\* (409) and one that joins a running job change nothing.
ReserveUnclaimed(k) ==
    /\ next <= MaxJob
    /\ ~RunningJob(k)
    /\ job' = [job EXCEPT ![next] = [@ EXCEPT !.key = k]]
    /\ task' = [task EXCEPT ![next] = "preflight"]
    /\ listed' = listed \cup {next}
    /\ next' = next + 1
    /\ UNCHANGED <<deleting, del, setter, locked, metaFirst, disk, refs, history>>
Reserve(k) == k \notin deleting /\ ReserveUnclaimed(k)

\* _prune_jobs: the oldest finished jobs over the cap, but never keep.
Pruned(ids, status, keep) ==
    LET finished == {j \in ids : status[j] \in {"done", "error"} /\ j # keep}
        excess == Cardinality(ids) - MaxJobs
    IN ids \ {j \in finished : Cardinality({i \in finished : i < j}) < excess}

StatusOf == [j \in JobIds |-> job[j].status]

\* The preflight failed: nothing matches, the disk is too small, the hub is
\* unreachable.  The placeholder stays, marked, for callers that joined it.
PreflightFailAs(j, status) ==
    /\ task[j] = "preflight" /\ Fails("preflight")
    /\ job' = [job EXCEPT ![j].status = status]
    /\ task' = [task EXCEPT ![j] = "ended"]
    /\ listed' = Pruned(listed, [StatusOf EXCEPT ![j] = status], j)
    /\ UNCHANGED <<next, deleting, del, setter, locked, metaFirst, disk, refs, history>>
\* Slip: a status that is none of the five.
PreflightFailed(j) == PreflightFailAs(j, "failed")
PreflightFail(j) == PreflightFailAs(j, "error")

\* The preflight passed: the background task is created.
PreflightPass(j) ==
    /\ task[j] = "preflight"
    /\ task' = [task EXCEPT ![j] = "queued"]
    /\ listed' = Pruned(listed, StatusOf, 0)
    /\ UNCHANGED <<next, job, deleting, del, setter, locked, metaFirst, disk, refs, history>>

\* A step of the task of job j that leaves the rest of the server alone.
TaskStep(j, from, to, status) ==
    /\ task[j] = from
    /\ task' = [task EXCEPT ![j] = to]
    /\ job' = [job EXCEPT ![j] = [@ EXCEPT !.status = status]]
    /\ UNCHANGED <<next, listed, deleting, del, setter, locked, metaFirst, refs,
                   expected, overlapped, abandoned>>

\* _run_job creates the directory.
StartOk(j) ==
    /\ TaskStep(j, "queued", "fetching", "downloading")
    /\ disk' = [disk EXCEPT ![job[j].key].dir = TRUE]
    /\ served' = [served EXCEPT ![job[j].key] = 0]
\* Slip: the exception ends the task and nothing marks the job.
StartUncaught(j) ==
    \/ StartOk(j)
    \/ /\ Fails("mkdir")
       /\ TaskStep(j, "queued", "died", job[j].status)
       /\ UNCHANGED <<disk, served>>
Start(j) ==
    \/ StartOk(j)
    \/ /\ Fails("mkdir")
       /\ TaskStep(j, "queued", "ended", "error")
       /\ UNCHANGED <<disk, served>>

\* snapshot_download (external) lands the weights, recreating the directory if
\* it is gone; what lands may not match its digest.  A failure leaves the
\* weights as they were, or some shards of the new ones.
Fetch(j) ==
    LET k == job[j].key
        Land(g) == disk' = [disk EXCEPT ![k] = [@ EXCEPT !.dir = TRUE, !.gguf = g]]
    IN /\ UNCHANGED served
       /\ \/ /\ TaskStep(j, "fetching", "verifying", "verifying")
             /\ \E g \in {"good", "bad"} : Land(g)
          \/ /\ Fails("fetch")
             /\ TaskStep(j, "fetching", "ended", "error")
             /\ UNCHANGED disk \/ Land("bad")

\* An exception once the bytes are in (a read error, a vanished directory) ends
\* the task with the status it had.
Die(j, from) == TaskStep(j, from, "died", job[j].status) /\ UNCHANGED <<disk, served>>

\* The weights against their digests, where the hub publishes any.
Accept(j, checked) ==
    /\ task[j] = "verifying"
    /\ task' = [task EXCEPT ![j] = "recording"]
    /\ job' = [job EXCEPT ![j] = [@ EXCEPT !.verified = checked]]
    /\ UNCHANGED <<next, listed, deleting, del, setter, locked, metaFirst, disk, refs, history>>
\* Slip: a mismatch is logged and the job goes on.
VerifyBlind(j) == Accept(j, TRUE) \/ Accept(j, FALSE)
Verify(j) ==
    /\ task[j] = "verifying"
    /\ \/ disk[job[j].key].gguf = "good" /\ Accept(j, TRUE)
       \/ /\ disk[job[j].key].gguf # "good"
          /\ TaskStep(j, "verifying", "ended", "error")
          /\ UNCHANGED <<disk, served>>
       \/ Accept(j, FALSE)
       \/ Fails("late") /\ Die(j, "verifying")

\* _write_metadata, which needs the directory: the model is installed.
Record(j) ==
    /\ task[j] = "recording"
    /\ \/ /\ disk[job[j].key].dir
          /\ TaskStep(j, "recording", "finishing", job[j].status)
          /\ disk' = [disk EXCEPT ![job[j].key].meta = TRUE]
          /\ UNCHANGED served
       \/ (~disk[job[j].key].dir \/ Fails("late")) /\ Die(j, "recording")

Finish(j) ==
    /\ TaskStep(j, "finishing", "ended", "done")
    /\ served' = [served EXCEPT ![job[j].key] = j]
    /\ UNCHANGED disk
-----------------------------------------------------------------------------
(* Deletes                                                                 *)

Busy(d) == del[d].at \in Wiping

\* delete_model claims the key, unless a download of it runs (409).
ClaimUnchecked(d, k) ==
    /\ del[d].at = "idle"
    /\ deleting' = deleting \cup {k}
    /\ del' = [del EXCEPT ![d] = [key |-> k, at |-> "claimed", todo |-> {}]]
    /\ overlapped' = IF \E e \in Deleters : del[e].at # "idle" /\ del[e].key = k
                     THEN overlapped \cup {k} ELSE overlapped
    /\ served' = [served EXCEPT ![k] = 0]
    /\ UNCHANGED <<next, listed, job, task, setter, locked, metaFirst, disk, refs,
                   expected, abandoned>>
Claim(d, k) == ~RunningJob(k) /\ ClaimUnchecked(d, k)

DelStep(d, to, todo) ==
    /\ del' = [del EXCEPT ![d] = [@ EXCEPT !.at = to, !.todo = todo]]
    /\ UNCHANGED <<next, listed, job, task, deleting, setter, locked, metaFirst,
                   expected, overlapped, served>>

\* _delete_model_files: 404 if there is no metadata, else its first listing.
List(d) ==
    LET k == del[d].key
    IN /\ del[d].at = "claimed"
       /\ IF Installed(k) THEN DelStep(d, "first", Files(k)) ELSE DelStep(d, "release", {})
       /\ UNCHANGED <<disk, refs, abandoned>>

\* The file the listing yields first of those not yet visited.
Listed(S) == IF (metaFirst \/ "gguf" \notin S) /\ "meta" \in S THEN "meta" ELSE "gguf"
Without(k, f) == IF f = "meta" THEN [disk[k] EXCEPT !.meta = FALSE]
                               ELSE [disk[k] EXCEPT !.gguf = "none"]

\* unlink of the next listed file.  A file that is gone is skipped if is_file()
\* already says so, and raises if it went just after.
UnlinkAs(d, afterRaise) ==
    LET k == del[d].key
        f == Listed(del[d].todo)
        rest == del[d].todo \ {f}
    IN /\ del[d].at \in {"first", "second"} /\ del[d].todo # {}
       /\ UNCHANGED refs
       /\ \/ /\ f \in Files(k)
             /\ disk' = [disk EXCEPT ![k] = Without(k, f)]
             /\ DelStep(d, del[d].at, rest)
             /\ UNCHANGED abandoned
          \/ /\ f \notin Files(k)
             /\ DelStep(d, del[d].at, rest) \/ DelStep(d, afterRaise, {})
             /\ UNCHANGED <<disk, abandoned>>
          \/ /\ Fails("unlink")
             /\ DelStep(d, afterRaise, {})
             /\ abandoned' = abandoned \cup {k}
             /\ UNCHANGED disk
\* Slip: no finally clause.
UnlinkUnprotected(d) == UnlinkAs(d, "idle")
Unlink(d) == UnlinkAs(d, "release")

\* The second listing: whatever the directory holds by now.
ListAgain(d) ==
    LET k == del[d].key
    IN /\ del[d].at = "first" /\ del[d].todo = {}
       /\ IF disk[k].dir THEN DelStep(d, "second", Files(k)) ELSE DelStep(d, "drop", {})
       /\ UNCHANGED <<disk, refs, abandoned>>

\* rmdir, which a file that came meanwhile defeats in silence.
Rmdir(d) ==
    LET k == del[d].key
    IN /\ del[d].at = "second" /\ del[d].todo = {}
       /\ disk' = IF Files(k) = {} THEN [disk EXCEPT ![k].dir = FALSE] ELSE disk
       /\ DelStep(d, "drop", {})
       /\ UNCHANGED <<refs, abandoned>>

Cleared(state, k) ==
    [active |-> [r \in Roles |-> IF state.active[r] = k THEN None ELSE state.active[r]],
     hot |-> state.hot \ {k}]

\* _drop_active_refs, one read-mutate-write under _STATE_LOCK.
DropUnlocked(d) ==
    LET k == del[d].key
    IN /\ del[d].at = "drop"
       /\ del' = [del EXCEPT ![d] = [@ EXCEPT !.at = "release"]]
       /\ UNCHANGED <<next, listed, job, task, deleting, setter, locked, metaFirst, disk,
                      overlapped, served>>
       /\ \/ /\ refs' = Cleared(refs, k)
             /\ expected' = Cleared(expected, k)
             /\ UNCHANGED abandoned
          \/ /\ Fails("save")
             /\ abandoned' = abandoned \cup {k}
             /\ UNCHANGED <<refs, expected>>
Drop(d) == ~locked /\ DropUnlocked(d)

\* The finally clause gives the claim up.
Release(d) ==
    /\ del[d].at = "release"
    /\ deleting' = deleting \ {del[d].key}
    /\ del' = [del EXCEPT ![d] = IdleDelete]
    /\ UNCHANGED <<next, listed, job, task, setter, locked, metaFirst, disk, refs, history>>
-----------------------------------------------------------------------------
(* Roles                                                                   *)

\* What set_active and set_hot do to the sidecar.
Changes == {<<"active", r, k>> : r \in Roles, k \in Keys \cup {None}}
             \cup {<<"hot", k, hot>> : k \in Keys, hot \in BOOLEAN}
Target(c) == IF c[1] = "active" THEN c[3] ELSE c[2]
Changed(state, c) ==
    IF c[1] = "active" THEN [state EXCEPT !.active[c[2]] = c[3]]
    ELSE [state EXCEPT !.hot = IF c[3] THEN @ \cup {c[2]} ELSE @ \ {c[2]}]

\* _mutate_state for set_active and set_hot: take the lock, read the sidecar,
\* check that the key is installed (404 otherwise, and nothing is written) ...
ReadRoles ==
    /\ ~setter.busy
    /\ \E c \in Changes :
          /\ Target(c) # None => Installed(Target(c))
          /\ setter' = [busy |-> TRUE, change |-> c, write |-> Changed(refs, c)]
    /\ UNCHANGED <<next, listed, job, task, deleting, del, metaFirst, disk, refs, history>>
\* Slip: the check and the read are made before the lock is taken.
BeginUnlocked == ReadRoles /\ UNCHANGED locked
Begin == ReadRoles /\ ~locked /\ locked' = TRUE

\* ... and replace the sidecar, or fail to, and let the lock go.
Commit ==
    /\ setter.busy
    /\ setter' = IdleSetter /\ locked' = FALSE
    /\ \/ refs' = setter.write /\ expected' = Changed(expected, setter.change)
       \/ Fails("save") /\ UNCHANGED <<refs, expected>>
    /\ UNCHANGED <<next, listed, job, task, deleting, del, metaFirst, disk,
                   overlapped, abandoned, served>>
-----------------------------------------------------------------------------
\* The process restarts: what was in memory is gone.  Of a job, key and verified
\* are kept as history; its status is as good as that of one never listed.
Crash ==
    /\ Fails("crash")
    /\ listed' = {} /\ deleting' = {} /\ locked' = FALSE
    /\ task' = [j \in JobIds |-> IF task[j] = "none" THEN "none" ELSE "lost"]
    /\ job' = [j \in JobIds |-> [job[j] EXCEPT !.status = "queued"]]
    /\ del' = [d \in Deleters |-> IdleDelete]
    /\ setter' = IdleSetter
    /\ abandoned' = abandoned \cup {del[d].key : d \in {e \in Deleters : Busy(e)}}
    /\ UNCHANGED <<next, metaFirst, disk, refs, expected, overlapped, served>>

JobStep(j) ==
    \/ PreflightFail(j) \/ PreflightPass(j) \/ Start(j) \/ Fetch(j)
    \/ Verify(j) \/ Record(j) \/ Finish(j)
DeleteStep(d) ==
    List(d) \/ Unlink(d) \/ ListAgain(d) \/ Rmdir(d) \/ Drop(d) \/ Release(d)

Next ==
    \/ \E k \in Keys : Reserve(k)
    \/ \E j \in JobIds : JobStep(j)
    \/ \E d \in Deleters, k \in Keys : Claim(d, k)
    \/ \E d \in Deleters : DeleteStep(d)
    \/ Begin \/ Commit
    \/ Crash

\* The event loop resumes what it awaits and the worker threads run.  A thread
\* that waits for _STATE_LOCK gets it: no caller takes it again and again, so a
\* delete that finds the lock free time after time is not passed over for ever.
Fairness ==
    /\ \A j \in JobIds : WF_vars(JobStep(j))
    /\ \A d \in Deleters : WF_vars(DeleteStep(d)) /\ SF_vars(Drop(d))
    /\ WF_vars(Commit)

Spec == Init /\ [][Next]_vars
FairSpec == Spec /\ Fairness
-----------------------------------------------------------------------------
(* Invariants                                                              *)

TypeOK ==
    /\ next \in 1 .. MaxJob + 1
    /\ listed \subseteq 1 .. next - 1 /\ listed \subseteq JobIds
    /\ job \in [JobIds -> [key : Keys \cup {None}, status : Statuses, verified : BOOLEAN]]
    /\ task \in [JobIds -> Live \cup {"none", "ended", "died", "lost"}]
    /\ \A j \in JobIds : task[j] # "none" => job[j].key \in Keys
    /\ deleting \subseteq Keys
    /\ del \in [Deleters -> [key : Keys \cup {None},
                             at : Wiping \cup {"idle", "release"},
                             todo : SUBSET {"gguf", "meta"}]]
    /\ \A d \in Deleters : del[d].at # "idle" => del[d].key \in Keys
    /\ disk \in [Keys -> [dir : BOOLEAN, gguf : {"none", "good", "bad"}, meta : BOOLEAN]]

\* Two downloads never write the same model's directory.  It rests on the
\* reservation before the preflight, on the statuses every step leaves behind,
\* and on a prune that spares the jobs still running.
OneWriter ==
    \A i, j \in JobIds :
        (i # j /\ task[i] \in Live /\ task[j] \in Live) => job[i].key # job[j].key

\* No download writes into the directory of a model that is being wiped, as long
\* as the deletes of that model follow one another.
SoloWipeExcludesWriter ==
    \A d \in Deleters, j \in JobIds :
        (Busy(d) /\ del[d].key \notin overlapped /\ task[j] \in Live)
            => job[j].key # del[d].key

\* The directory of a model has one user at a time.
DirectoryIsExclusive == OneWriter /\ SoloWipeExcludesWriter

\* A role or the hot set names a model that is not installed only while the
\* delete that removed it has still to clear the name, or after a fault cut that
\* delete short (or another delete did, taking a file from under it): set_active
\* and set_hot bring no deleted key back.
NoDeadRefs ==
    \A k \in Keys \ (abandoned \cup overlapped) :
        (Referenced(k) /\ ~Installed(k))
            => \E d \in Deleters : Busy(d) /\ del[d].key = k

\* The sidecar holds what the completed calls, each applied once and in order,
\* make of it: no read-mutate-write loses another.
NoLostUpdate == refs = expected

\* The sidecar of roles is what the calls made it, and names what is installed.
RolesAreSound == NoLostUpdate /\ NoDeadRefs

\* What a finished download promised stays true until a delete or a new download
\* of that model: it is installed, and its weights match the digests it checked.
DoneIsServed ==
    \A k \in Keys \ overlapped :
        served[k] # 0 => /\ Installed(k)
                         /\ job[served[k]].verified => disk[k].gguf = "good"

\* A model that a download or a delete holds (a second download joins it, a delete
\* gets 409) is given up again, whatever becomes of that work and of its restarts,
\* unless an exception after the fetch killed the download's task: then the job
\* shows "verifying" for good and the model is held until a restart.
Held(k) == k \in deleting \/ RunningJob(k)
Wrecked(k) ==
    \E j \in listed : job[j].key = k /\ task[j] = "died" /\ job[j].status = "verifying"
ModelIsFreed == \A k \in Keys : Held(k) ~> (~Held(k) \/ Wrecked(k))

\* delete_model: "no writer can slip into the directory mid-wipe".
WipeExcludesWriter ==
    \A d \in Deleters, j \in JobIds :
        (Busy(d) /\ task[j] \in Live) => job[j].key # del[d].key
=============================================================================
