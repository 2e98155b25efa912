-------------------------- MODULE LocalModels_proofs --------------------------
(***************************************************************************)
(* For any number of models, downloads, deletes and roles: the state is      *)
(* typed; a model's directory has one user at a time; the sidecar of roles   *)
(* is what the calls made it and names what is installed; and a finished     *)
(* download stays what it was until a delete or a new download of its model. *)
(*                                                                           *)
(* The exclusions follow from one chain.  A task that may still write has    *)
(* its job in _JOBS under an active status (Visible), so the reservation     *)
(* sees it, and the claim of a delete sees it; hence a claimed key has no    *)
(* such task (ClaimExcludes).  A delete at work holds its claim unless       *)
(* another delete of the same key has overlapped it (SoloClaim).  The roles  *)
(* and the finished downloads, in the second half, rest on the exclusions.   *)
(***************************************************************************)
EXTENDS LocalModels, TLAPS

Visible ==
    \A j \in JobIds : task[j] \in Live => j \in listed /\ job[j].status \in ActiveStatuses
Unused ==
    \A j \in JobIds : j >= next => task[j] = "none" /\ job[j].status = "queued"
ClaimExcludes == \A j \in JobIds : task[j] \in Live => job[j].key \notin deleting
SoloClaim ==
    \A d \in Deleters :
        (del[d].at # "idle" /\ del[d].key \notin overlapped) =>
            /\ del[d].key \in deleting
            /\ \A e \in Deleters : (e # d /\ del[e].at # "idle") => del[e].key # del[d].key

JobInv == Visible /\ Unused /\ OneWriter
IInv == TypeOK /\ JobInv /\ ClaimExcludes /\ SoloClaim

\* A job with another status, or another verdict on its digests.
LEMMA JobFields ==
    ASSUME NEW r \in [key : Keys \cup {None}, status : Statuses, verified : BOOLEAN],
           NEW x
    PROVE  /\ [r EXCEPT !.status = x] = [key |-> r.key, status |-> x, verified |-> r.verified]
           /\ [r EXCEPT !.verified = x] = [key |-> r.key, status |-> r.status, verified |-> x]
OBVIOUS

\* A prune takes nothing but finished jobs.
LEMMA PruneSpares ==
    ASSUME NEW ids, NEW status, NEW keep
    PROVE  /\ Pruned(ids, status, keep) \subseteq ids
           /\ \A j \in ids : status[j] \notin {"done", "error"}
                               => j \in Pruned(ids, status, keep)
BY DEF Pruned

\* Every step of a request or task of job j: its status follows its place, its
\* key stays, and only finished jobs leave _JOBS.
Moves(j, to, status, verified) ==
    /\ task[j] \in Live
    /\ to \in Live \cup {"ended", "died"}
    /\ to \in Live => status \in ActiveStatuses
    /\ status \in Statuses /\ verified \in BOOLEAN
    /\ task' = [task EXCEPT ![j] = to]
    /\ job' = [job EXCEPT ![j] = [key |-> job[j].key, status |-> status,
                                  verified |-> verified]]
    /\ listed' \subseteq listed
    /\ \A i \in listed : job'[i].status \notin {"done", "error"} => i \in listed'
    /\ UNCHANGED <<next, deleting, del, overlapped>>

LEMMA MoveKeeps ==
    ASSUME IInv, NEW j \in JobIds, NEW to, NEW status, NEW verified,
           Moves(j, to, status, verified), disk' \in [Keys ->
               [dir : BOOLEAN, gguf : {"none", "good", "bad"}, meta : BOOLEAN]]
    PROVE  IInv'
<1>1. TypeOK'
  <2> USE DEF IInv, TypeOK, Moves
  <2>1. [key |-> job[j].key, status |-> status, verified |-> verified]
          \in [key : Keys \cup {None}, status : Statuses, verified : BOOLEAN]
    OBVIOUS
  <2>2. job' \in [JobIds -> [key : Keys \cup {None}, status : Statuses, verified : BOOLEAN]]
    BY <2>1
  <2>3. task' \in [JobIds -> Live \cup {"none", "ended", "died", "lost"}]
    OBVIOUS
  <2>4. task[j] # "none" BY DEF Live, Writing
  <2>5. \A i \in JobIds : task'[i] # "none" => job'[i].key \in Keys
    BY <2>4
  <2>6. listed' \subseteq 1 .. next' - 1 /\ listed' \subseteq JobIds
    OBVIOUS
  <2> QED BY <2>2, <2>3, <2>5, <2>6 DEF JobIds
<1>2. Visible'
  <2> SUFFICES ASSUME NEW i \in JobIds, task'[i] \in Live
               PROVE  i \in listed' /\ job'[i].status \in ActiveStatuses
      BY DEF Visible
  <2>1. i \in listed /\ job'[i].status \in ActiveStatuses
      BY DEF IInv, JobInv, Visible, TypeOK, Moves
  <2> QED BY <2>1 DEF Moves, ActiveStatuses
<1>3. Unused' BY DEF IInv, JobInv, Unused, TypeOK, Moves, Live, Writing
<1>4. \A i \in JobIds : /\ task'[i] \in Live => task[i] \in Live
                        /\ job'[i].key = job[i].key
  BY DEF IInv, TypeOK, Moves
<1>5. OneWriter' BY <1>4 DEF IInv, JobInv, OneWriter
<1>6. ClaimExcludes' BY <1>4 DEF IInv, ClaimExcludes, Moves
<1>7. SoloClaim' BY DEF IInv, SoloClaim, Moves
<1> QED BY <1>1, <1>2, <1>3, <1>5, <1>6, <1>7 DEF IInv, JobInv

\* Every step of a delete between its claim and its release.
LEMMA DeleteKeeps ==
    ASSUME IInv, NEW d \in Deleters, NEW to \in Wiping \cup {"release"},
           NEW todo \in SUBSET {"gguf", "meta"},
           del[d].at \in Wiping,
           del' = [del EXCEPT ![d] = [@ EXCEPT !.at = to, !.todo = todo]],
           UNCHANGED <<next, listed, job, task, deleting, overlapped>>,
           disk' \in [Keys ->
               [dir : BOOLEAN, gguf : {"none", "good", "bad"}, meta : BOOLEAN]]
    PROVE  IInv'
<1>1. TypeOK'
  <2> USE DEF IInv, TypeOK
  <2>1. [del[d] EXCEPT !.at = to, !.todo = todo]
          \in [key : Keys \cup {None}, at : Wiping \cup {"idle", "release"},
              todo : SUBSET {"gguf", "meta"}]
    <3>1. del[d] \in [key : Keys \cup {None}, at : Wiping \cup {"idle", "release"},
                      todo : SUBSET {"gguf", "meta"}]
      OBVIOUS
    <3>2. to \in Wiping \cup {"idle", "release"} OBVIOUS
    <3> HIDE DEF IInv, TypeOK
    <3> QED BY <3>1, <3>2
  <2>2. del' \in [Deleters -> [key : Keys \cup {None},
                               at : Wiping \cup {"idle", "release"},
                               todo : SUBSET {"gguf", "meta"}]]
    BY <2>1
  <2>3. \A e \in Deleters : del'[e].at # "idle" => del'[e].key \in Keys
    BY DEF Wiping
  <2> QED BY <2>2, <2>3 DEF JobIds
<1>2. JobInv' BY DEF IInv, JobInv, Visible, Unused, OneWriter
<1>3. ClaimExcludes' BY DEF IInv, ClaimExcludes
<1>4. \A e \in Deleters : /\ del'[e].key = del[e].key
                          /\ del'[e].at # "idle" => del[e].at # "idle"
  BY DEF IInv, TypeOK, Wiping
<1>5. SoloClaim' BY <1>4 DEF IInv, SoloClaim
<1> QED BY <1>1, <1>2, <1>3, <1>5 DEF IInv

\* A step that leaves jobs, claims and the disk alone.
LEMMA OtherKeeps ==
    ASSUME IInv, UNCHANGED <<next, listed, job, task, deleting, del, overlapped, disk>>
    PROVE  IInv'
BY DEF IInv, TypeOK, JobInv, Visible, Unused, OneWriter, ClaimExcludes, SoloClaim, JobIds

LEMMA Initially == Init => IInv
BY LocalAssumption DEF Init, IInv, TypeOK, JobInv, Visible, Unused, OneWriter,
    ClaimExcludes, SoloClaim, JobIds, Live, Writing, Wiping, Statuses, IdleDelete, Empty
-------------------------------------------------------------------------------
LEMMA ReserveKeeps == ASSUME IInv, NEW k \in Keys, Reserve(k) PROVE IInv'
<1> USE DEF IInv, Reserve, ReserveUnclaimed
<1>1. next \in JobIds /\ task[next] = "none" /\ job[next].status = "queued"
  BY LocalAssumption DEF TypeOK, JobIds, JobInv, Unused
<1>2. \A i \in JobIds : i # next => task'[i] = task[i] /\ job'[i] = job[i]
  BY DEF TypeOK
<1>3. /\ task'[next] = "preflight" /\ job'[next].key = k
      /\ job'[next].status = "queued"
  BY <1>1 DEF TypeOK
<1>4. TypeOK' BY <1>1, LocalAssumption DEF TypeOK, JobIds, Live
<1>5. \A i \in JobIds : task[i] \in Live => job[i].key # k
  BY DEF JobInv, Visible, RunningJob
<1>6. Visible' BY <1>2, <1>3 DEF JobInv, Visible, ActiveStatuses
<1>7. Unused' BY <1>1, <1>2 DEF JobInv, Unused, TypeOK, JobIds
<1>8. OneWriter' BY <1>2, <1>3, <1>5 DEF JobInv, OneWriter
<1>9. ClaimExcludes' BY <1>2, <1>3 DEF ClaimExcludes
<1>10. SoloClaim' BY DEF SoloClaim, history
<1> QED BY <1>4, <1>6, <1>7, <1>8, <1>9, <1>10 DEF JobInv

LEMMA JobStepKeeps == ASSUME IInv, NEW j \in JobIds, JobStep(j) PROVE IInv'
<1> DEFINE K == job[j].key
           Disks == [Keys -> [dir : BOOLEAN, gguf : {"none", "good", "bad"}, meta : BOOLEAN]]
<1>0. /\ job[j] = [key |-> job[j].key, status |-> job[j].status,
                   verified |-> job[j].verified]
      /\ job[j] \in [key : Keys \cup {None}, status : Statuses, verified : BOOLEAN]
      /\ job[j].status \in Statuses /\ job[j].verified \in BOOLEAN
      /\ disk \in Disks
  BY DEF IInv, TypeOK
<1>1. task[j] \in Live => job[j].key \in Keys /\ job[j].status \in ActiveStatuses
  BY DEF IInv, TypeOK, JobInv, Visible, Live, Writing
\* A task step of any kind is a move.
<1>2. ASSUME NEW from \in Live, NEW to \in Live \cup {"ended", "died"},
             NEW status \in Statuses, to \in Live => status \in ActiveStatuses,
             TaskStep(j, from, to, status), disk' \in Disks
      PROVE  IInv'
  <2>1. job' = [job EXCEPT ![j] = [key |-> job[j].key, status |-> status,
                                   verified |-> job[j].verified]]
    BY <1>2, <1>0, JobFields DEF TaskStep
  <2>2. Moves(j, to, status, job[j].verified)
    BY <1>2, <1>0, <2>1 DEF TaskStep, Moves
  <2> QED BY <2>2, <1>2, MoveKeeps
<1> HIDE DEF Disks
<1>3. ASSUME PreflightFail(j) PROVE IInv'
  <2>1. job' = [job EXCEPT ![j] = [key |-> job[j].key, status |-> "error",
                                   verified |-> job[j].verified]]
    BY <1>3, <1>0, JobFields DEF PreflightFail, PreflightFailAs
  <2>2. StatusOf \in [JobIds -> Statuses] BY DEF StatusOf, IInv, TypeOK
  <2>3. /\ listed' \subseteq listed
        /\ \A i \in listed : [StatusOf EXCEPT ![j] = "error"][i] \notin {"done", "error"}
                               => i \in listed'
    BY <1>3, PruneSpares DEF PreflightFail, PreflightFailAs
  <2>4. \A i \in listed : job'[i].status = [StatusOf EXCEPT ![j] = "error"][i]
    BY <2>1 DEF StatusOf, IInv, TypeOK
  <2>5. Moves(j, "ended", "error", job[j].verified)
    BY <1>3, <1>0, <2>1, <2>3, <2>4
    DEF PreflightFail, PreflightFailAs, Moves, Live, Statuses, Writing, history
  <2> QED BY <2>5, <1>3, <1>0, MoveKeeps DEF PreflightFail, PreflightFailAs, Disks
<1>4. ASSUME PreflightPass(j) PROVE IInv'
  <2>1. job' = [job EXCEPT ![j] = [key |-> job[j].key, status |-> job[j].status,
                                   verified |-> job[j].verified]]
    BY <1>4, <1>0 DEF PreflightPass, IInv, TypeOK
  <2>2. /\ listed' \subseteq listed
        /\ \A i \in listed : StatusOf[i] \notin {"done", "error"} => i \in listed'
    BY <1>4, PruneSpares DEF PreflightPass
  <2>3. \A i \in listed : job'[i].status = StatusOf[i]
    BY <1>4 DEF PreflightPass, StatusOf, IInv, TypeOK
  <2>4. Moves(j, "queued", job[j].status, job[j].verified)
    BY <1>4, <1>0, <1>1, <2>1, <2>2, <2>3
    DEF PreflightPass, Moves, Live, Writing, history
  <2> QED BY <2>4, <1>4, <1>0, MoveKeeps DEF PreflightPass, Disks
<1>5. ASSUME Start(j) PROVE IInv'
  <2>1. CASE StartOk(j)
    <3>1. disk' \in Disks
      BY <2>1, <1>0, <1>1 DEF StartOk, TaskStep, Disks, Live, Writing
    <3> QED BY <2>1, <3>1, <1>2 DEF StartOk, Live, Writing, Statuses, ActiveStatuses
  <2>2. CASE TaskStep(j, "queued", "ended", "error") /\ UNCHANGED <<disk, served>>
    BY <2>2, <1>0, <1>2 DEF Live, Writing, Statuses
  <2> QED BY <1>5, <2>1, <2>2 DEF Start
<1>6. ASSUME Fetch(j) PROVE IInv'
  <2>1. task[j] = "fetching" BY <1>6 DEF Fetch, TaskStep
  <2>2. disk' \in Disks
    <3>1. job[j].key \in Keys BY <1>1, <2>1 DEF Live, Writing
    <3>2. \A g \in {"good", "bad"} :
             [disk[job[j].key] EXCEPT !.dir = TRUE, !.gguf = g]
               \in [dir : BOOLEAN, gguf : {"none", "good", "bad"}, meta : BOOLEAN]
      BY <3>1, <1>0 DEF Disks
    <3>3. disk' = disk \/ \E g \in {"good", "bad"} :
             disk' = [disk EXCEPT ![job[j].key] = [@ EXCEPT !.dir = TRUE, !.gguf = g]]
      BY <1>6 DEF Fetch
    <3> QED BY <3>1, <3>2, <3>3, <1>0 DEF Disks
  <2>3. TaskStep(j, "fetching", "verifying", "verifying")
        \/ TaskStep(j, "fetching", "ended", "error")
    BY <1>6 DEF Fetch
  <2> QED BY <2>2, <2>3, <1>2 DEF Live, Writing, Statuses, ActiveStatuses
<1>7. ASSUME NEW from \in Live, Die(j, from) PROVE IInv'
  BY <1>7, <1>0, <1>2 DEF Die, Live, Writing
<1>8. ASSUME NEW c \in BOOLEAN, Accept(j, c) PROVE IInv'
  <2>1. job' = [job EXCEPT ![j] = [key |-> job[j].key, status |-> job[j].status,
                                   verified |-> c]]
    BY <1>8, <1>0, JobFields DEF Accept
  <2>2. \A i \in listed : job'[i].status \notin {"done", "error"} => i \in listed'
    BY <1>8 DEF Accept
  <2>3. Moves(j, "recording", job[j].status, c)
    BY <1>8, <1>0, <1>1, <2>1, <2>2 DEF Accept, Moves, Live, Writing, history
  <2> QED BY <2>3, <1>8, <1>0, MoveKeeps DEF Accept, Disks
<1>9. ASSUME Verify(j) PROVE IInv'
  <2>1. CASE TaskStep(j, "verifying", "ended", "error") /\ UNCHANGED <<disk, served>>
    BY <2>1, <1>0, <1>2 DEF Live, Writing, Statuses
  <2> QED BY <1>9, <2>1, <1>7, <1>8 DEF Verify, Live, Writing
<1>10. ASSUME Record(j) PROVE IInv'
  <2>1. task[j] = "recording" BY <1>10 DEF Record
  <2>2. CASE /\ TaskStep(j, "recording", "finishing", job[j].status)
             /\ disk' = [disk EXCEPT ![job[j].key].meta = TRUE]
    <3>1. disk' \in Disks BY <2>1, <2>2, <1>0, <1>1 DEF Disks, Live, Writing
    <3> QED BY <2>1, <2>2, <3>1, <1>0, <1>1, <1>2 DEF Live, Writing
  <2>3. CASE Die(j, "recording") BY <2>3, <1>7 DEF Live, Writing
  <2> QED BY <1>10, <2>2, <2>3 DEF Record
<1>11. ASSUME Finish(j) PROVE IInv'
  BY <1>11, <1>0, <1>2 DEF Finish, Live, Writing, Statuses
<1> QED BY <1>3, <1>4, <1>5, <1>6, <1>9, <1>10, <1>11 DEF JobStep
-------------------------------------------------------------------------------
LEMMA ClaimKeeps == ASSUME IInv, NEW d \in Deleters, NEW k \in Keys, Claim(d, k) PROVE IInv'
<1> USE DEF IInv, Claim, ClaimUnchecked
<1>1. TypeOK' BY DEF TypeOK, Wiping
<1>2. JobInv' BY DEF JobInv, Visible, Unused, OneWriter
<1>3. ClaimExcludes' BY DEF ClaimExcludes, JobInv, Visible, RunningJob
<1>4. /\ del'[d].key = k /\ overlapped \subseteq overlapped'
      /\ \A e \in Deleters : e # d => del'[e] = del[e]
  BY DEF TypeOK
<1>5. SoloClaim'
  <2> SUFFICES ASSUME NEW e \in Deleters, del'[e].at # "idle", del'[e].key \notin overlapped'
               PROVE  /\ del'[e].key \in deleting'
                      /\ \A f \in Deleters : (f # e /\ del'[f].at # "idle")
                                               => del'[f].key # del'[e].key
      BY DEF SoloClaim
  <2>1. CASE e = d
    <3>1. \A f \in Deleters : f # d /\ del[f].at # "idle" => del[f].key # k
      BY <2>1, <1>4
    <3> QED BY <2>1, <3>1, <1>4
  <2>2. CASE e # d
    <3>1. del[e].key # k BY <2>2, <1>4
    <3> QED BY <2>2, <3>1, <1>4 DEF SoloClaim
  <2> QED BY <2>1, <2>2
<1> QED BY <1>1, <1>2, <1>3, <1>5

LEMMA ReleaseKeeps == ASSUME IInv, NEW d \in Deleters, Release(d) PROVE IInv'
<1> USE DEF IInv, Release
<1>1. TypeOK' BY DEF TypeOK, IdleDelete
<1>2. JobInv' BY DEF JobInv, Visible, Unused, OneWriter
<1>3. ClaimExcludes' BY DEF ClaimExcludes
<1>4. del'[d].at = "idle" /\ \A e \in Deleters : e # d => del'[e] = del[e]
  BY DEF TypeOK, IdleDelete
<1>5. SoloClaim' BY <1>4 DEF SoloClaim, history
<1> QED BY <1>1, <1>2, <1>3, <1>5

LEMMA DeleteStepKeeps == ASSUME IInv, NEW d \in Deleters, DeleteStep(d) PROVE IInv'
<1> DEFINE K == del[d].key
           Disks == [Keys -> [dir : BOOLEAN, gguf : {"none", "good", "bad"}, meta : BOOLEAN]]
<1>0. disk \in Disks /\ del[d].todo \in SUBSET {"gguf", "meta"}
  BY DEF IInv, TypeOK
<1>1. del[d].at \in Wiping => del[d].key \in Keys
  BY DEF IInv, TypeOK, Wiping
<1>2. ASSUME NEW to \in Wiping \cup {"release"}, NEW todo \in SUBSET {"gguf", "meta"},
             DelStep(d, to, todo), del[d].at \in Wiping, disk' \in Disks
      PROVE  IInv'
  BY <1>2, DeleteKeeps DEF DelStep
<1> HIDE DEF Disks
<1>3. ASSUME List(d) PROVE IInv'
  <2>1. Files(del[d].key) \in SUBSET {"gguf", "meta"} BY DEF Files
  <2>2. DelStep(d, "first", Files(del[d].key)) \/ DelStep(d, "release", {})
    BY <1>3 DEF List
  <2> QED BY <1>3, <2>1, <2>2, <1>0, <1>2 DEF List, Wiping
<1>4. ASSUME Unlink(d) PROVE IInv'
  <2> DEFINE rest == del[d].todo \ {Listed(del[d].todo)}
  <2>1. del[d].at \in {"first", "second"} /\ rest \in SUBSET {"gguf", "meta"}
    BY <1>4, <1>0 DEF Unlink, UnlinkAs
  <2>2. disk' \in Disks
    <3>1. del[d].key \in Keys BY <2>1, <1>1 DEF Wiping
    <3>2. Without(del[d].key, Listed(del[d].todo))
            \in [dir : BOOLEAN, gguf : {"none", "good", "bad"}, meta : BOOLEAN]
      BY <3>1, <1>0 DEF Disks, Without
    <3> QED BY <1>4, <1>0, <3>1, <3>2 DEF Unlink, UnlinkAs, Disks
  <2>3. DelStep(d, del[d].at, rest) \/ DelStep(d, "release", {})
    BY <1>4 DEF Unlink, UnlinkAs
  <2> HIDE DEF rest
  <2> QED BY <2>1, <2>2, <2>3, <1>2 DEF Wiping
<1>5. ASSUME ListAgain(d) PROVE IInv'
  <2>1. Files(del[d].key) \in SUBSET {"gguf", "meta"} BY DEF Files
  <2>2. DelStep(d, "second", Files(del[d].key)) \/ DelStep(d, "drop", {})
    BY <1>5 DEF ListAgain
  <2> QED BY <1>5, <2>1, <2>2, <1>0, <1>2 DEF ListAgain, Wiping
<1>6. ASSUME Rmdir(d) PROVE IInv'
  <2>1. del[d].key \in Keys BY <1>6, <1>1 DEF Rmdir, Wiping
  <2>2. disk' \in Disks BY <1>6, <1>0, <2>1 DEF Rmdir, Disks
  <2> QED BY <1>6, <2>2, <1>2 DEF Rmdir, Wiping
<1>7. ASSUME Drop(d) PROVE IInv'
  <2>1. del' = [del EXCEPT ![d] = [@ EXCEPT !.at = "release", !.todo = del[d].todo]]
    BY <1>7 DEF Drop, DropUnlocked, IInv, TypeOK
  <2> QED BY <1>7, <1>0, <2>1, DeleteKeeps DEF Drop, DropUnlocked, Wiping, Disks
<1>8. ASSUME Release(d) PROVE IInv' BY <1>8, ReleaseKeeps
<1> QED BY <1>3, <1>4, <1>5, <1>6, <1>7, <1>8 DEF DeleteStep

LEMMA CrashKeeps == ASSUME IInv, Crash PROVE IInv'
<1> USE DEF IInv, Crash
<1>0. "queued" \in Statuses BY DEF Statuses
<1>1. TypeOK'
  <2>1. /\ job' \in [JobIds -> [key : Keys \cup {None}, status : Statuses, verified : BOOLEAN]]
        /\ \A j \in JobIds : job'[j].key = job[j].key
    <3>1. \A j \in JobIds : job[j] \in [key : Keys \cup {None}, status : Statuses,
                                       verified : BOOLEAN]
      BY DEF TypeOK
    <3> QED BY <1>0, <3>1
  <2>2. /\ task' \in [JobIds -> Live \cup {"none", "ended", "died", "lost"}]
        /\ \A j \in JobIds : task'[j] # "none" => task[j] # "none"
    BY DEF TypeOK
  <2>3. \A j \in JobIds : task'[j] # "none" => job'[j].key \in Keys
    BY <2>1, <2>2 DEF TypeOK
  <2> HIDE DEF Crash
  <2>4. /\ next' = next /\ disk' = disk /\ listed' = {} /\ deleting' = {}
        /\ del' = [d \in Deleters |-> IdleDelete]
    BY DEF Crash
  <2> QED BY <2>1, <2>2, <2>3, <2>4 DEF TypeOK, IdleDelete
<1>2. \A j \in JobIds : task'[j] \notin Live BY DEF Live, Writing
<1>3. JobInv' BY <1>2 DEF JobInv, Visible, Unused, OneWriter, TypeOK
<1>4. ClaimExcludes' BY <1>2 DEF ClaimExcludes
<1>5. SoloClaim' BY DEF SoloClaim, IdleDelete
<1> QED BY <1>1, <1>3, <1>4, <1>5

LEMMA StepKeeps == IInv /\ [Next]_vars => IInv'
<1> SUFFICES ASSUME IInv, [Next]_vars PROVE IInv' OBVIOUS
<1>1. ASSUME Begin \/ Commit PROVE IInv'
  BY <1>1, OtherKeeps DEF Begin, Commit, ReadRoles, history
<1>2. CASE UNCHANGED vars BY <1>2, OtherKeeps DEF vars, serverVars, history
<1> QED BY <1>1, <1>2, ReserveKeeps, JobStepKeeps, ClaimKeeps, DeleteStepKeeps, CrashKeeps
        DEF Next

\* Every variable of the model keeps its type, and every job one of the five
\* statuses of a Job.
THEOREM LocalTypes == Spec => []TypeOK
<1>1. Spec => []IInv BY Initially, StepKeeps, PTL DEF Spec
<1>2. IInv => TypeOK BY DEF IInv
<1> QED BY <1>1, <1>2, PTL

\* However many downloads and deletes there are and wherever the process stops,
\* two downloads never write one model's directory: start_download's reservation
\* and _prune_jobs see to it.
THEOREM OneWriterPerModel == Spec => []OneWriter
<1>1. Spec => []IInv BY Initially, StepKeeps, PTL DEF Spec
<1>2. IInv => OneWriter BY DEF IInv, JobInv
<1> QED BY <1>1, <1>2, PTL

\* While one delete alone wipes a model, no download of it is under way: the claim
\* in _DELETING and the reservation in _JOBS exclude each other.
THEOREM SoloWipeIsExclusive == Spec => []SoloWipeExcludesWriter
<1>1. Spec => []IInv BY Initially, StepKeeps, PTL DEF Spec
<1>2. IInv => SoloWipeExcludesWriter
  BY DEF IInv, ClaimExcludes, SoloClaim, SoloWipeExcludesWriter, Busy, Wiping
<1> QED BY <1>1, <1>2, PTL

\* Together: the directory of a model has one user at a time.
THEOREM DirectoryExclusive == Spec => []DirectoryIsExclusive
<1>1. OneWriter /\ SoloWipeExcludesWriter <=> DirectoryIsExclusive BY DEF DirectoryIsExclusive
<1> QED BY <1>1, OneWriterPerModel, SoloWipeIsExclusive, PTL
-------------------------------------------------------------------------------
(* What the roles and the finished downloads rest on.  A set_active or set_hot *)
(* holds _STATE_LOCK from its read to its write (SetterInv), and a name that   *)
(* outlives its model's metadata, in the sidecar or about to be written to it, *)
(* has a delete on its way to _drop_active_refs, which waits for that lock     *)
(* (DeadRefs); an unlink finds the file it listed while its delete is alone    *)
(* (TodoInv).  From its first byte to its last a download has a directory no   *)
(* other job and no delete touches, so what it checked is what it serves       *)
(* (ServedInv).                                                                *)

RolesType == refs \in [active : [Roles -> Keys \cup {None}], hot : SUBSET Keys]
SetterInv ==
    \/ setter = IdleSetter /\ ~locked
    \/ /\ locked
       /\ \E c \in Changes : setter = [busy |-> TRUE, change |-> c, write |-> Changed(refs, c)]
Named(k) == Referenced(k) \/ (setter.busy /\ Target(setter.change) = k)
Cleaning(d) == del[d].at \in {"first", "second", "drop"}
DeadRefs ==
    \A k \in Keys \ (abandoned \cup overlapped) :
        (Named(k) /\ ~Installed(k)) => \E d \in Deleters : Cleaning(d) /\ del[d].key = k
TodoInv ==
    \A d \in Deleters :
        (del[d].at \in {"first", "second"} /\ del[d].key \notin overlapped)
            => del[d].todo \subseteq Files(del[d].key)
RolesInv == RolesType /\ NoLostUpdate /\ SetterInv /\ DeadRefs /\ TodoInv

ServedOver == \A k \in Keys : served[k] # 0 => task[served[k]] \in {"ended", "lost"}
WriterUnserved == \A j \in JobIds : task[j] \in Writing \ {"queued"} => served[job[j].key] = 0
WipeUnserved ==
    \A d \in Deleters : (Busy(d) /\ del[d].key \notin overlapped) => served[del[d].key] = 0
CheckedHolds ==
    \A j \in JobIds :
        job[j].key \notin overlapped =>
            /\ (task[j] \in {"recording", "finishing"} /\ job[j].verified)
                  => disk[job[j].key].gguf = "good"
            /\ task[j] = "finishing" => Installed(job[j].key)
ServedInv ==
    /\ served \in [Keys -> 0 .. MaxJob]
    /\ ServedOver /\ WriterUnserved /\ WipeUnserved /\ CheckedHolds /\ DoneIsServed

FullInv == IInv /\ RolesInv /\ ServedInv

\* A change of the sidecar keeps its type and brings in no name but its target's.
LEMMA ChangedIs ==
    ASSUME NEW state \in [active : [Roles -> Keys \cup {None}], hot : SUBSET Keys],
           NEW c \in Changes
    PROVE  /\ Changed(state, c) \in [active : [Roles -> Keys \cup {None}], hot : SUBSET Keys]
           /\ \A k \in Changed(state, c).hot : k \in state.hot \/ k = Target(c)
           /\ \A r \in Roles : \/ Changed(state, c).active[r] = state.active[r]
                               \/ Changed(state, c).active[r] = Target(c)
<1>1. CASE \E r \in Roles, k \in Keys \cup {None} : c = <<"active", r, k>>
  <2> PICK r \in Roles, k \in Keys \cup {None} : c = <<"active", r, k>> BY <1>1
  <2>1. Changed(state, c) = [active |-> [state.active EXCEPT ![r] = k], hot |-> state.hot]
    BY DEF Changed
  <2>2. Target(c) = k BY DEF Target
  <2> QED BY <2>1, <2>2
<1>2. CASE \E k \in Keys, h \in BOOLEAN : c = <<"hot", k, h>>
  <2> PICK k \in Keys, h \in BOOLEAN : c = <<"hot", k, h>> BY <1>2
  <2>1. Changed(state, c) = [active |-> state.active,
                             hot |-> IF h THEN state.hot \cup {k} ELSE state.hot \ {k}]
    BY DEF Changed
  <2>2. Target(c) = k BY DEF Target
  <2> QED BY <2>1, <2>2
<1> QED BY <1>1, <1>2 DEF Changes

\* A delete that is alone with its model: no other delete holds the key, and no
\* download of it may still write.
LEMMA Alone ==
    ASSUME IInv, NEW d \in Deleters, del[d].at # "idle", del[d].key \notin overlapped
    PROVE  /\ \A e \in Deleters : (e # d /\ del[e].at # "idle") => del[e].key # del[d].key
           /\ \A j \in JobIds : task[j] \in Live => job[j].key # del[d].key
BY DEF IInv, SoloClaim, ClaimExcludes

\* What a step of job j does to its own model's directory, and to nothing else.
JobEffect(j) ==
    LET k == job[j].key
    IN /\ task[j] \in Live /\ k \in Keys
       /\ UNCHANGED <<del, overlapped, abandoned, refs, expected, setter, locked>>
       /\ \A i \in JobIds : job'[i].key = job[i].key
       /\ \A i \in JobIds \ {j} : task'[i] = task[i] /\ job'[i].verified = job[i].verified
       /\ \A x \in Keys \ {k} : disk'[x] = disk[x]
       /\ disk[k].meta => disk'[k].meta
       /\ disk[k].gguf # "none" => disk'[k].gguf # "none"
       /\ \/ served' = served
          \/ served' = [served EXCEPT ![k] = 0]
          \/ /\ served' = [served EXCEPT ![k] = j]
             /\ task[j] = "finishing" /\ task'[j] = "ended" /\ disk' = disk
             /\ job'[j].verified = job[j].verified
       /\ task'[j] \in Writing \ {"queued"} => served'[k] = 0
       /\ k \notin overlapped =>
             /\ (task'[j] \in {"recording", "finishing"} /\ job'[j].verified)
                    => disk'[k].gguf = "good"
             /\ task'[j] = "finishing" => disk'[k].meta
       /\ served'[k] # 0 => disk'[k].gguf = disk[k].gguf

LEMMA JobStepEffect == ASSUME FullInv, NEW j \in JobIds, JobStep(j) PROVE JobEffect(j)
<1> DEFINE K == job[j].key
           Dir == [dir : BOOLEAN, gguf : {"none", "good", "bad"}, meta : BOOLEAN]
<1>0. /\ disk \in [Keys -> Dir] /\ served \in [Keys -> 0 .. MaxJob]
      /\ DOMAIN job = JobIds /\ DOMAIN task = JobIds
      /\ job[j] \in [key : Keys \cup {None}, status : Statuses, verified : BOOLEAN]
  BY DEF FullInv, ServedInv, IInv, TypeOK
<1>1. task[j] \in Live => job[j].key \in Keys BY DEF FullInv, IInv, TypeOK, Live, Writing
<1>2. task[j] \in Writing \ {"queued"} => served[K] = 0
  BY DEF FullInv, ServedInv, WriterUnserved
<1>3. K \notin overlapped =>
         /\ (task[j] \in {"recording", "finishing"} /\ job[j].verified) => disk[K].gguf = "good"
         /\ task[j] = "finishing" => disk[K].meta
  BY DEF FullInv, ServedInv, CheckedHolds, Installed
\* What a step of the task leaves alone, and what it does to job and task.
<1>4. ASSUME NEW from, NEW to, NEW status, TaskStep(j, from, to, status)
      PROVE  /\ UNCHANGED <<del, overlapped, abandoned, refs, expected, setter, locked>>
             /\ task[j] = from /\ task'[j] = to
             /\ \A i \in JobIds : job'[i].key = job[i].key /\ job'[i].verified = job[i].verified
             /\ \A i \in JobIds \ {j} : task'[i] = task[i]
  BY <1>4, <1>0 DEF TaskStep
<1>5. ASSUME NEW c \in BOOLEAN, Accept(j, c)
      PROVE  /\ UNCHANGED <<del, overlapped, abandoned, refs, expected, setter, locked, disk, served>>
             /\ task[j] = "verifying" /\ task'[j] = "recording" /\ job'[j].verified = c
             /\ \A i \in JobIds : job'[i].key = job[i].key
             /\ \A i \in JobIds \ {j} : task'[i] = task[i] /\ job'[i].verified = job[i].verified
  BY <1>5, <1>0 DEF Accept, history
<1> USE DEF Live, Writing
<1>6. ASSUME PreflightFail(j) PROVE JobEffect(j)
  BY <1>6, <1>0, <1>1 DEF PreflightFail, PreflightFailAs, JobEffect, history
<1>7. ASSUME PreflightPass(j) PROVE JobEffect(j)
  BY <1>7, <1>0, <1>1 DEF PreflightPass, JobEffect, history
\* A step that ends the task.
<1>8. ASSUME NEW from \in Live, NEW to \in {"ended", "died"}, NEW status,
             TaskStep(j, from, to, status), UNCHANGED <<disk, served>>
      PROVE  JobEffect(j)
  BY <1>8, <1>4, <1>1 DEF JobEffect
<1>9. ASSUME Start(j) PROVE JobEffect(j)
  <2>1. CASE StartOk(j)
    <3>1. TaskStep(j, "queued", "fetching", "downloading") BY <2>1 DEF StartOk
    <3>2. K \in Keys BY <3>1, <1>4, <1>1
    <3>3. /\ disk'[K].meta = disk[K].meta /\ disk'[K].gguf = disk[K].gguf
          /\ \A x \in Keys \ {K} : disk'[x] = disk[x]
      BY <2>1, <3>2, <1>0 DEF StartOk
    <3>4. served' = [served EXCEPT ![K] = 0] /\ served'[K] = 0
      BY <2>1, <3>2, <1>0 DEF StartOk
    <3> QED BY <3>1, <3>2, <3>3, <3>4, <1>4 DEF JobEffect
  <2> QED BY <1>9, <2>1, <1>8 DEF Start
<1>10. ASSUME Fetch(j) PROVE JobEffect(j)
  <2>1. task[j] = "fetching" /\ served' = served BY <1>10 DEF Fetch, TaskStep
  <2>2. K \in Keys /\ served[K] = 0 /\ served'[K] = 0 BY <2>1, <1>1, <1>2
  <2>3. /\ disk[K].meta => disk'[K].meta
        /\ disk[K].gguf # "none" => disk'[K].gguf # "none"
        /\ \A x \in Keys \ {K} : disk'[x] = disk[x]
    <3>1. ASSUME NEW g \in {"good", "bad"},
                 disk' = [disk EXCEPT ![K] = [@ EXCEPT !.dir = TRUE, !.gguf = g]]
          PROVE  <2>3
      BY <3>1, <2>2, <1>0
    <3>2. disk' = disk \/ \E g \in {"good", "bad"} :
             disk' = [disk EXCEPT ![K] = [@ EXCEPT !.dir = TRUE, !.gguf = g]]
      BY <1>10 DEF Fetch
    <3> QED BY <3>1, <3>2
  <2>4. TaskStep(j, "fetching", "verifying", "verifying") \/ TaskStep(j, "fetching", "ended", "error")
    BY <1>10 DEF Fetch
  <2>5. /\ UNCHANGED <<del, overlapped, abandoned, refs, expected, setter, locked>>
        /\ task'[j] \in {"verifying", "ended"}
        /\ \A i \in JobIds : job'[i].key = job[i].key /\ job'[i].verified = job[i].verified
        /\ \A i \in JobIds \ {j} : task'[i] = task[i]
    BY <2>4, <1>4
  <2> QED BY <2>1, <2>2, <2>3, <2>5 DEF JobEffect
<1>11. ASSUME Verify(j) PROVE JobEffect(j)
  <2>1. CASE disk[K].gguf = "good" /\ Accept(j, TRUE)
    BY <2>1, <1>5, <1>1, <1>2 DEF JobEffect
  <2>2. CASE Accept(j, FALSE)
    BY <2>2, <1>5, <1>1, <1>2 DEF JobEffect
  <2>3. CASE TaskStep(j, "verifying", "ended", "error") /\ UNCHANGED <<disk, served>>
    BY <2>3, <1>8
  <2>4. CASE Die(j, "verifying") BY <2>4, <1>8 DEF Die
  <2> QED BY <1>11, <2>1, <2>2, <2>3, <2>4 DEF Verify
<1>12. ASSUME Record(j) PROVE JobEffect(j)
  <2>1. CASE /\ TaskStep(j, "recording", "finishing", job[j].status)
             /\ disk' = [disk EXCEPT ![K].meta = TRUE]
             /\ UNCHANGED served
    <3>1. K \in Keys /\ served'[K] = 0 BY <2>1, <1>4, <1>1, <1>2
    <3>2. /\ disk'[K].meta /\ disk'[K].gguf = disk[K].gguf
          /\ \A x \in Keys \ {K} : disk'[x] = disk[x]
      BY <2>1, <3>1, <1>0
    <3> QED BY <2>1, <3>1, <3>2, <1>3, <1>4 DEF JobEffect
  <2>2. CASE Die(j, "recording") BY <2>2, <1>8 DEF Die
  <2> QED BY <1>12, <2>1, <2>2 DEF Record
<1>13. ASSUME Finish(j) PROVE JobEffect(j)
  BY <1>13, <1>4, <1>1 DEF Finish, JobEffect
<1> QED BY <1>6, <1>7, <1>9, <1>10, <1>11, <1>12, <1>13 DEF JobStep

LEMMA JobRolesKept == ASSUME FullInv, NEW j \in JobIds, JobEffect(j) PROVE RolesInv'
<1> USE DEF JobEffect
<1>1. \A x \in Keys : Files(x) \subseteq Files(x)' /\ (Installed(x) => Installed(x)')
  BY DEF Files, Installed
<1>2. \A x \in Keys : Named(x)' => Named(x) BY DEF Named, Referenced
<1>3. DeadRefs' BY <1>1, <1>2 DEF FullInv, RolesInv, DeadRefs, Cleaning
<1>4. TodoInv' BY <1>1 DEF FullInv, IInv, TypeOK, RolesInv, TodoInv
<1> QED BY <1>3, <1>4 DEF FullInv, RolesInv, RolesType, NoLostUpdate, SetterInv, IdleSetter

LEMMA JobServedKept == ASSUME FullInv, NEW j \in JobIds, JobEffect(j), TypeOK' PROVE ServedInv'
<1> DEFINE K == job[j].key
<1>0. served \in [Keys -> 0 .. MaxJob] /\ j \in 1 .. MaxJob /\ K \in Keys /\ task[j] \in Live
  BY DEF FullInv, ServedInv, JobEffect, JobIds
<1>1. \/ served' = served \/ served' = [served EXCEPT ![K] = 0]
      \/ served' = [served EXCEPT ![K] = j]
  BY DEF JobEffect
<1>2. served' \in [Keys -> 0 .. MaxJob] BY <1>0, <1>1, LocalAssumption
<1>3. \A x \in Keys \ {K} : served'[x] = served[x] /\ disk'[x] = disk[x]
  BY <1>0, <1>1 DEF JobEffect
\* The job an untouched install points at is over, so it is not j.
<1>4. \A x \in Keys : served[x] # 0 => served[x] \in JobIds \ {j}
  <2> SUFFICES ASSUME NEW x \in Keys, served[x] # 0 PROVE served[x] \in JobIds \ {j} OBVIOUS
  <2>1. served[x] \in JobIds BY <1>0 DEF JobIds
  <2>2. task[served[x]] \in {"ended", "lost"} BY DEF FullInv, ServedInv, ServedOver
  <2> QED BY <2>1, <2>2, <1>0 DEF Live, Writing
<1>5. ServedOver'
  <2> SUFFICES ASSUME NEW x \in Keys, served'[x] # 0
               PROVE  task'[served'[x]] \in {"ended", "lost"}
      BY DEF ServedOver
  <2>1. CASE served'[x] = served[x]
    <3>1. task'[served[x]] = task[served[x]] BY <2>1, <1>4 DEF JobEffect
    <3> QED BY <2>1, <3>1 DEF FullInv, ServedInv, ServedOver
  <2>2. CASE served'[x] # served[x]
    <3>1. x = K /\ served'[K] = j /\ task'[j] = "ended" BY <2>2, <1>0, <1>3 DEF JobEffect
    <3> QED BY <3>1
  <2> QED BY <2>1, <2>2
<1>6. \A i \in JobIds \ {j} : /\ task'[i] = task[i] /\ job'[i].key = job[i].key
                              /\ job'[i].verified = job[i].verified
                              /\ task[i] \in Live => job[i].key \in Keys \ {K}
  <2>1. \A i \in JobIds \ {j} : task[i] \in Live => job[i].key \in Keys
    BY DEF FullInv, IInv, TypeOK, Live, Writing
  <2>2. \A i \in JobIds \ {j} : task[i] \in Live => job[i].key # K
    BY <1>0 DEF FullInv, IInv, JobInv, OneWriter
  <2> QED BY <2>1, <2>2 DEF JobEffect
<1>7. WriterUnserved'
  <2> SUFFICES ASSUME NEW i \in JobIds, task'[i] \in Writing \ {"queued"}
               PROVE  served'[job'[i].key] = 0
      BY DEF WriterUnserved
  <2>1. CASE i = j BY <2>1 DEF JobEffect
  <2>2. CASE i # j
    <3>1. served[job[i].key] = 0 BY <2>2, <1>6 DEF FullInv, ServedInv, WriterUnserved
    <3> QED BY <2>2, <3>1, <1>3, <1>6 DEF Live
  <2> QED BY <2>1, <2>2
<1>8. WipeUnserved'
  <2> SUFFICES ASSUME NEW d \in Deleters, Busy(d)', del'[d].key \notin overlapped'
               PROVE  served'[del'[d].key] = 0
      BY DEF WipeUnserved
  <2>1. Busy(d) /\ del' = del /\ overlapped' = overlapped BY DEF JobEffect, Busy
  <2>2. del[d].at # "idle" BY <2>1 DEF Busy, Wiping
  <2>3. K # del[d].key BY <1>0, <2>1, <2>2, Alone DEF FullInv
  <2>4. del[d].key \in Keys BY <2>2 DEF FullInv, IInv, TypeOK
  <2> QED BY <2>1, <2>3, <2>4, <1>3 DEF FullInv, ServedInv, WipeUnserved
<1>9. CheckedHolds'
  <2> SUFFICES ASSUME NEW i \in JobIds, job'[i].key \notin overlapped'
               PROVE  /\ (task'[i] \in {"recording", "finishing"} /\ job'[i].verified)
                            => disk'[job'[i].key].gguf = "good"
                      /\ task'[i] = "finishing" => disk'[job'[i].key].meta
      BY DEF CheckedHolds, Installed
  <2>1. CASE i = j BY <2>1 DEF JobEffect
  <2>2. CASE i # j
    <3>1. overlapped' = overlapped BY DEF JobEffect
    <3>2. task'[i] \in {"recording", "finishing"} => disk'[job'[i].key] = disk[job[i].key]
      BY <2>2, <1>3, <1>6 DEF Live, Writing
    <3> QED BY <2>2, <3>1, <3>2, <1>6 DEF FullInv, ServedInv, CheckedHolds, Installed
  <2> QED BY <2>1, <2>2
<1>10. DoneIsServed'
  <2> SUFFICES ASSUME NEW x \in Keys \ overlapped', served'[x] # 0
               PROVE  /\ disk'[x].meta
                      /\ job'[served'[x]].verified => disk'[x].gguf = "good"
      BY DEF DoneIsServed, Installed
  <2>1. x \in Keys \ overlapped BY DEF JobEffect
  <2>2. CASE served'[x] = served[x]
    <3>1. disk[x].meta /\ (job[served[x]].verified => disk[x].gguf = "good")
      BY <2>1, <2>2 DEF FullInv, ServedInv, DoneIsServed, Installed
    <3>2. job'[served[x]].verified = job[served[x]].verified BY <2>2, <1>4, <1>6
    <3>3. (disk[x].meta => disk'[x].meta) /\ disk'[x].gguf = disk[x].gguf
      BY <1>3 DEF JobEffect
    <3> QED BY <2>2, <3>1, <3>2, <3>3
  <2>3. CASE served'[x] # served[x]
    <3>1. /\ x = K /\ served'[K] = j /\ task[j] = "finishing" /\ disk' = disk
          /\ job'[j].verified = job[j].verified
      BY <2>3, <1>0, <1>3 DEF JobEffect
    <3> QED BY <2>1, <3>1 DEF FullInv, ServedInv, CheckedHolds, Installed
  <2> QED BY <2>2, <2>3
<1> QED BY <1>2, <1>5, <1>7, <1>8, <1>9, <1>10 DEF ServedInv
-------------------------------------------------------------------------------
\* The steps of a delete from its claim to its release, by what they do: the
\* directory of its own model may lose files, nothing else of the server's changes.
WipeEffect(d) ==
    LET k == del[d].key
    IN /\ del[d].at # "idle" /\ k \in Keys
       /\ UNCHANGED <<job, task, setter, locked, overlapped, served>>
       /\ abandoned \subseteq abandoned'
       /\ \A e \in Deleters \ {d} : del'[e] = del[e]
       /\ del'[d].at # "idle" => del'[d].key = k
       /\ Busy(d)' => Busy(d)
       /\ \A x \in Keys \ {k} : disk'[x] = disk[x]
       /\ disk'[k].meta # disk[k].meta \/ disk'[k].gguf # disk[k].gguf => Busy(d)

LEMMA WipeServedKept == ASSUME FullInv, NEW d \in Deleters, WipeEffect(d) PROVE ServedInv'
<1> DEFINE K == del[d].key
<1> USE DEF WipeEffect
<1>1. served' \in [Keys -> 0 .. MaxJob] /\ ServedOver' /\ WriterUnserved'
  BY DEF FullInv, ServedInv, ServedOver, WriterUnserved
<1>2. WipeUnserved'
  <2> SUFFICES ASSUME NEW e \in Deleters, Busy(e)', del'[e].key \notin overlapped
               PROVE  served[del'[e].key] = 0
      BY DEF WipeUnserved
  <2>1. del'[e].at # "idle" BY DEF Busy, Wiping
  <2>2. Busy(e) /\ del'[e].key = del[e].key
    <3>1. CASE e = d BY <2>1, <3>1
    <3>2. CASE e # d BY <3>2 DEF Busy
    <3> QED BY <3>1, <3>2
  <2> QED BY <2>2 DEF FullInv, ServedInv, WipeUnserved
\* The files change only under a delete at work, which if it is alone has no
\* unserved promise and no writer to break.
<1>3. ASSUME K \notin overlapped, disk'[K].meta # disk[K].meta \/ disk'[K].gguf # disk[K].gguf
      PROVE  served[K] = 0 /\ \A j \in JobIds : task[j] \in Live => job[j].key # K
  <2>1. Busy(d) BY <1>3
  <2>2. served[K] = 0 BY <1>3, <2>1 DEF FullInv, ServedInv, WipeUnserved
  <2> QED BY <1>3, <2>2, Alone DEF FullInv
<1>4. CheckedHolds'
  <2> SUFFICES ASSUME NEW j \in JobIds, job[j].key \notin overlapped,
                      task[j] \in {"recording", "finishing"}
               PROVE  /\ job[j].verified => disk'[job[j].key].gguf = "good"
                      /\ task[j] = "finishing" => disk'[job[j].key].meta
      BY DEF CheckedHolds, Installed
  <2>1. task[j] \in Live /\ job[j].key \in Keys
    BY DEF FullInv, IInv, TypeOK, Live, Writing
  <2>2. /\ disk'[job[j].key].meta = disk[job[j].key].meta
        /\ disk'[job[j].key].gguf = disk[job[j].key].gguf
    BY <2>1, <1>3
  <2> QED BY <2>2 DEF FullInv, ServedInv, CheckedHolds, Installed
<1>5. DoneIsServed'
  <2> SUFFICES ASSUME NEW x \in Keys \ overlapped, served[x] # 0
               PROVE  disk'[x].meta /\ (job[served[x]].verified => disk'[x].gguf = "good")
      BY DEF DoneIsServed, Installed
  <2>1. disk'[x].meta = disk[x].meta /\ disk'[x].gguf = disk[x].gguf BY <1>3
  <2> QED BY <2>1 DEF FullInv, ServedInv, DoneIsServed, Installed
<1> QED BY <1>1, <1>2, <1>4, <1>5 DEF ServedInv

\* The first three parts of RolesInv do not look at the deletes or the disk.
LEMMA RolesAlone ==
    ASSUME RolesInv, UNCHANGED <<refs, expected, setter, locked>>
    PROVE  RolesType' /\ NoLostUpdate' /\ SetterInv'
BY DEF RolesInv, RolesType, NoLostUpdate, SetterInv, IdleSetter

\* A step of a delete that keeps the names, still leads to _drop_active_refs or
\* gives its key up as abandoned, and lists only what is there.
LEMMA WipeRolesKept ==
    ASSUME FullInv, NEW d \in Deleters, WipeEffect(d), UNCHANGED <<refs, expected>>,
           \/ Cleaning(d)' \/ del[d].key \in abandoned' \cup overlapped
           \/ (~Cleaning(d) /\ disk' = disk),
           (del'[d].at \in {"first", "second"} /\ del[d].key \notin overlapped)
               => del'[d].todo \subseteq Files(del[d].key)'
    PROVE  RolesInv'
<1> DEFINE K == del[d].key
<1> USE DEF WipeEffect
<1>1. DeadRefs'
  <2> SUFFICES ASSUME NEW x \in Keys \ (abandoned' \cup overlapped'),
                      Named(x)', ~Installed(x)'
               PROVE  \E e \in Deleters : Cleaning(e)' /\ del'[e].key = x
      BY DEF DeadRefs
  <2>1. Named(x) /\ x \in Keys \ (abandoned \cup overlapped) BY DEF Named, Referenced
  <2>2. CASE x = K /\ Cleaning(d)' BY <2>2 DEF Cleaning
  <2>3. CASE x # K \/ ~Cleaning(d)'
    <3>1. x # K \/ (~Cleaning(d) /\ disk' = disk) BY <2>3
    <3>2. ~Installed(x) BY <3>1 DEF Installed
    <3>3. PICK e \in Deleters : Cleaning(e) /\ del[e].key = x
      BY <2>1, <3>2 DEF FullInv, RolesInv, DeadRefs
    <3>4. e # d BY <3>1, <3>3
    <3> QED BY <3>3, <3>4 DEF Cleaning
  <2> QED BY <2>2, <2>3
<1>2. TodoInv'
  <2> SUFFICES ASSUME NEW e \in Deleters, del'[e].at \in {"first", "second"},
                      del'[e].key \notin overlapped'
               PROVE  del'[e].todo \subseteq Files(del[e].key)'
      BY DEF TodoInv
  <2>0. overlapped' = overlapped OBVIOUS
  <2>1. CASE e = d BY <2>0, <2>1
  <2>2. CASE e # d
    <3>1. del'[e] = del[e] BY <2>2
    <3>2. del[e].at # "idle" /\ del[e].key \in Keys BY <3>1 DEF FullInv, IInv, TypeOK
    <3>3. del[e].key # K BY <2>0, <2>2, <3>1, <3>2, Alone DEF FullInv
    <3>4. disk'[del[e].key] = disk[del[e].key] BY <3>2, <3>3
    <3>5. Files(del[e].key)' = Files(del[e].key) BY <3>1, <3>4 DEF Files
    <3> QED BY <2>0, <3>1, <3>5 DEF FullInv, RolesInv, TodoInv
  <2> QED BY <2>1, <2>2
<1> QED BY <1>1, <1>2, RolesAlone DEF FullInv, RolesInv

LEMMA DeleteStepFull ==
    ASSUME FullInv, NEW d \in Deleters, DeleteStep(d)
    PROVE  WipeEffect(d) /\ RolesInv'
<1> DEFINE K == del[d].key
           Dir == [dir : BOOLEAN, gguf : {"none", "good", "bad"}, meta : BOOLEAN]
<1>0. /\ disk \in [Keys -> Dir] /\ DOMAIN del = Deleters
      /\ del[d] \in [key : Keys \cup {None}, at : Wiping \cup {"idle", "release"},
                     todo : SUBSET {"gguf", "meta"}]
      /\ del[d].at # "idle" => K \in Keys
      /\ K \in Keys => disk[K] \in Dir
  BY DEF FullInv, IInv, TypeOK
<1>1. ASSUME NEW to, NEW todo, DelStep(d, to, todo)
      PROVE  /\ UNCHANGED <<job, task, setter, locked, overlapped, served, expected, metaFirst>>
             /\ \A e \in Deleters \ {d} : del'[e] = del[e]
             /\ del'[d].key = K /\ del'[d].at = to /\ del'[d].todo = todo
  BY <1>1, <1>0 DEF DelStep
<1> USE DEF Wiping
<1>2. ASSUME List(d) PROVE WipeEffect(d) /\ RolesInv'
  <2>1. del[d].at = "claimed" /\ UNCHANGED <<disk, refs, abandoned>> /\ K \in Keys
    BY <1>2, <1>0 DEF List
  <2>2. \/ DelStep(d, "first", Files(K))
        \/ DelStep(d, "release", {})
    BY <1>2 DEF List
  <2>3. WipeEffect(d) /\ expected' = expected BY <2>1, <2>2, <1>1 DEF WipeEffect, Busy
  <2>4. del'[d].at = "first" => del'[d].todo = Files(K) BY <2>2, <1>1
  <2>5. Files(K)' = Files(K) BY <2>1, <2>2, <1>1 DEF Files
  <2>6. del'[d].at \in {"first", "release"} BY <2>2, <1>1
  <2> QED BY <2>1, <2>3, <2>4, <2>5, <2>6, WipeRolesKept DEF Cleaning
<1>3. ASSUME Unlink(d) PROVE WipeEffect(d) /\ RolesInv'
  <2> DEFINE f == Listed(del[d].todo)
             rest == del[d].todo \ {f}
  <2>1. /\ del[d].at \in {"first", "second"} /\ del[d].todo # {} /\ K \in Keys
        /\ refs' = refs
    BY <1>3, <1>0 DEF Unlink, UnlinkAs
  <2>2. f \in del[d].todo BY <2>1, <1>0 DEF Listed
  <2>3. K \notin overlapped => del[d].todo \subseteq Files(K)
    BY <2>1 DEF FullInv, RolesInv, TodoInv
  <2>4. CASE /\ f \in Files(K) /\ disk' = [disk EXCEPT ![K] = Without(K, f)]
             /\ DelStep(d, del[d].at, rest) /\ UNCHANGED abandoned
    <3>1. \A x \in Keys \ {K} : disk'[x] = disk[x] BY <2>4, <2>1, <1>0
    <3>2. WipeEffect(d) /\ expected' = expected
      BY <2>1, <2>4, <3>1, <1>1 DEF WipeEffect, Busy
    <3>3. disk'[K] = Without(K, f) BY <2>4, <2>1, <1>0
    <3>4. Files(K) \ {f} \subseteq Files(K)'
      <4>1. disk'[del'[d].key] = Without(K, f) BY <3>3, <2>4, <1>1
      <4>2. f = "meta" \/ f = "gguf" BY <2>2, <1>0
      <4>3. CASE f = "meta"
        <5>1. disk'[del'[d].key].gguf = disk[K].gguf BY <4>1, <4>3, <2>1, <1>0 DEF Without
        <5> QED BY <5>1, <4>3 DEF Files
      <4>4. CASE f = "gguf"
        <5>1. disk'[del'[d].key].meta = disk[K].meta BY <4>1, <4>4, <2>1, <1>0 DEF Without
        <5> QED BY <5>1, <4>4 DEF Files
      <4> QED BY <4>2, <4>3, <4>4
    <3>5. del'[d].at = del[d].at /\ del'[d].todo = rest BY <2>4, <1>1
    <3>6. K \notin overlapped => rest \subseteq Files(K)' BY <2>3, <3>4
    <3>7. Cleaning(d)' BY <3>5, <2>1 DEF Cleaning
    <3> HIDE DEF rest, f
    <3> QED BY <2>1, <3>2, <3>5, <3>6, <3>7, WipeRolesKept
  <2>5. CASE /\ f \notin Files(K) /\ UNCHANGED <<disk, abandoned>>
             /\ DelStep(d, del[d].at, rest) \/ DelStep(d, "release", {})
    <3>1. K \in overlapped BY <2>2, <2>3, <2>5
    <3>2. WipeEffect(d) /\ expected' = expected
      BY <2>1, <2>5, <1>1 DEF WipeEffect, Busy
    <3> HIDE DEF rest, f
    <3> QED BY <2>1, <3>1, <3>2, WipeRolesKept
  <2>6. CASE /\ DelStep(d, "release", {}) /\ abandoned' = abandoned \cup {K} /\ UNCHANGED disk
    <3>1. WipeEffect(d) /\ expected' = expected
      BY <2>1, <2>6, <1>1 DEF WipeEffect, Busy
    <3>2. del'[d].at = "release" BY <2>6, <1>1
    <3> QED BY <2>1, <2>6, <3>1, <3>2, WipeRolesKept
  <2> HIDE DEF rest
  <2>7. \/ /\ f \in Files(K) /\ disk' = [disk EXCEPT ![K] = Without(K, f)]
           /\ DelStep(d, del[d].at, rest) /\ UNCHANGED abandoned
        \/ /\ f \notin Files(K) /\ UNCHANGED <<disk, abandoned>>
           /\ DelStep(d, del[d].at, rest) \/ DelStep(d, "release", {})
        \/ /\ DelStep(d, "release", {}) /\ abandoned' = abandoned \cup {K} /\ UNCHANGED disk
    BY <1>3 DEF Unlink, UnlinkAs, rest
  <2> QED BY <2>4, <2>5, <2>6, <2>7
<1>4. ASSUME ListAgain(d) PROVE WipeEffect(d) /\ RolesInv'
  <2>1. del[d].at = "first" /\ UNCHANGED <<disk, refs, abandoned>> /\ K \in Keys
    BY <1>4, <1>0 DEF ListAgain
  <2>2. DelStep(d, "second", Files(K)) \/ DelStep(d, "drop", {})
    BY <1>4 DEF ListAgain
  <2>3. WipeEffect(d) /\ expected' = expected BY <2>1, <2>2, <1>1 DEF WipeEffect, Busy
  <2>4. del'[d].at = "second" => del'[d].todo = Files(K) BY <2>2, <1>1
  <2>5. Files(K)' = Files(K) BY <2>1, <2>2, <1>1 DEF Files
  <2>6. del'[d].at \in {"second", "drop"} BY <2>2, <1>1
  <2>7. Cleaning(d)' BY <2>6 DEF Cleaning
  <2> QED BY <2>1, <2>3, <2>4, <2>5, <2>6, <2>7, WipeRolesKept
<1>5. ASSUME Rmdir(d) PROVE WipeEffect(d) /\ RolesInv'
  <2>1. /\ del[d].at = "second" /\ UNCHANGED <<refs, abandoned>> /\ K \in Keys
        /\ DelStep(d, "drop", {})
    BY <1>5, <1>0 DEF Rmdir
  <2>2. \/ disk' = disk
        \/ disk' = [disk EXCEPT ![K].dir = FALSE]
    BY <1>5 DEF Rmdir
  <2>3. /\ \A x \in Keys \ {K} : disk'[x] = disk[x]
        /\ disk'[K].meta = disk[K].meta /\ disk'[K].gguf = disk[K].gguf
    BY <2>1, <2>2, <1>0
  <2>4. WipeEffect(d) /\ expected' = expected BY <2>1, <2>3, <1>1 DEF WipeEffect, Busy
  <2>5. del'[d].at = "drop" BY <2>1, <1>1
  <2>6. Cleaning(d)' BY <2>5 DEF Cleaning
  <2> QED BY <2>1, <2>4, <2>5, <2>6, WipeRolesKept
<1>6. ASSUME Drop(d) PROVE WipeEffect(d) /\ RolesInv'
  <2>1. /\ del[d].at = "drop" /\ K \in Keys /\ ~locked
        /\ UNCHANGED <<job, task, setter, locked, overlapped, served, disk>>
        /\ del'[d].at = "release" /\ del'[d].key = K
        /\ \A e \in Deleters \ {d} : del'[e] = del[e]
    BY <1>6, <1>0 DEF Drop, DropUnlocked
  <2>2. \/ refs' = Cleared(refs, K) /\ expected' = Cleared(expected, K) /\ UNCHANGED abandoned
        \/ abandoned' = abandoned \cup {K} /\ UNCHANGED <<refs, expected>>
    BY <1>6 DEF Drop, DropUnlocked
  <2>3. WipeEffect(d) BY <2>1, <2>2 DEF WipeEffect, Busy
  <2>4. CASE abandoned' = abandoned \cup {K} /\ UNCHANGED <<refs, expected>>
    BY <2>1, <2>3, <2>4, WipeRolesKept
  \* Nobody holds the lock, so no set_active is about to write the name back.
  <2>5. CASE refs' = Cleared(refs, K) /\ expected' = Cleared(expected, K) /\ UNCHANGED abandoned
    <3>1. RolesType' /\ NoLostUpdate'
      BY <2>5 DEF FullInv, RolesInv, RolesType, NoLostUpdate, Cleared
    <3>2. SetterInv' /\ setter = IdleSetter
      BY <2>1 DEF FullInv, RolesInv, SetterInv, IdleSetter
    <3>3. \A x \in Keys : Named(x)' => Named(x) /\ x # K
      <4>1. ~setter'.busy BY <3>2, <2>1 DEF IdleSetter
      <4>2. /\ refs'.hot = refs.hot \ {K}
            /\ \A r \in Roles : refs'.active[r] = IF refs.active[r] = K THEN None ELSE refs.active[r]
        BY <2>5 DEF Cleared
      <4> QED BY <4>1, <4>2, <2>1, LocalAssumption DEF Named, Referenced
    <3>4. DeadRefs'
      <4> SUFFICES ASSUME NEW x \in Keys \ (abandoned' \cup overlapped'),
                          Named(x)', ~Installed(x)'
                   PROVE  \E e \in Deleters : Cleaning(e)' /\ del'[e].key = x
          BY DEF DeadRefs
      <4>1. Named(x) /\ x # K /\ ~Installed(x) BY <3>3, <2>1 DEF Installed
      <4>2. PICK e \in Deleters : Cleaning(e) /\ del[e].key = x
        BY <4>1, <2>1, <2>5 DEF FullInv, RolesInv, DeadRefs
      <4> QED BY <4>1, <4>2, <2>1 DEF Cleaning
    <3>5. TodoInv'
      <4> SUFFICES ASSUME NEW e \in Deleters, del'[e].at \in {"first", "second"},
                          del'[e].key \notin overlapped'
                   PROVE  del'[e].todo \subseteq Files(del[e].key)'
          BY DEF TodoInv
      <4>1. del'[e] = del[e] BY <2>1
      <4>2. Files(del[e].key)' = Files(del[e].key) BY <4>1, <2>1 DEF Files
      <4>3. overlapped' = overlapped BY <2>1
      <4> QED BY <4>1, <4>2, <4>3 DEF FullInv, RolesInv, TodoInv
    <3> QED BY <2>3, <3>1, <3>2, <3>4, <3>5 DEF RolesInv
  <2> QED BY <2>2, <2>3, <2>4, <2>5
<1>7. ASSUME Release(d) PROVE WipeEffect(d) /\ RolesInv'
  <2>1. /\ del[d].at = "release" /\ K \in Keys
        /\ UNCHANGED <<job, task, setter, locked, overlapped, served, disk, refs, expected,
                       abandoned>>
        /\ del'[d].at = "idle"
        /\ \A e \in Deleters \ {d} : del'[e] = del[e]
    BY <1>7, <1>0 DEF Release, IdleDelete, history
  <2>2. WipeEffect(d) BY <2>1 DEF WipeEffect, Busy
  <2> QED BY <2>1, <2>2, WipeRolesKept DEF Cleaning
<1> QED BY <1>2, <1>3, <1>4, <1>5, <1>6, <1>7 DEF DeleteStep
-------------------------------------------------------------------------------
LEMMA ReserveFull == ASSUME FullInv, NEW k \in Keys, Reserve(k) PROVE RolesInv' /\ ServedInv'
<1> USE DEF Reserve, ReserveUnclaimed, history
<1>0. UNCHANGED <<del, disk, refs, expected, setter, locked, overlapped, abandoned, served>>
  OBVIOUS
<1>1. RolesInv'
  <2>1. DeadRefs' BY <1>0 DEF FullInv, RolesInv, DeadRefs, Cleaning, Named, Referenced, Installed
  <2>2. TodoInv' BY <1>0 DEF FullInv, RolesInv, TodoInv, Files
  <2> QED BY <1>0, <2>1, <2>2, RolesAlone DEF FullInv, RolesInv
<1>2. next \in JobIds /\ task[next] = "none" /\ task'[next] = "preflight"
  BY LocalAssumption DEF FullInv, IInv, TypeOK, JobIds, JobInv, Unused
<1>3. \A j \in JobIds \ {next} : task'[j] = task[j] /\ job'[j] = job[j]
  BY DEF FullInv, IInv, TypeOK
\* The new job's place is in no use, so no install is of it.
<1>4. \A x \in Keys : served[x] # 0 => served[x] \in JobIds \ {next}
  <2> SUFFICES ASSUME NEW x \in Keys, served[x] # 0 PROVE served[x] \in JobIds \ {next} OBVIOUS
  <2>1. served[x] \in JobIds BY LocalAssumption DEF FullInv, ServedInv, JobIds
  <2>2. task[served[x]] \in {"ended", "lost"} BY DEF FullInv, ServedInv, ServedOver
  <2> QED BY <2>1, <2>2, <1>2
<1>5. served' \in [Keys -> 0 .. MaxJob] /\ WipeUnserved'
  BY <1>0 DEF FullInv, ServedInv, WipeUnserved, Busy
<1>6. ServedOver' BY <1>0, <1>3, <1>4 DEF FullInv, ServedInv, ServedOver
<1>7. WriterUnserved' BY <1>0, <1>2, <1>3 DEF FullInv, ServedInv, WriterUnserved, Writing
<1>8. CheckedHolds' BY <1>0, <1>2, <1>3 DEF FullInv, ServedInv, CheckedHolds, Installed
<1>9. DoneIsServed' BY <1>0, <1>3, <1>4 DEF FullInv, ServedInv, DoneIsServed, Installed
<1> QED BY <1>1, <1>5, <1>6, <1>7, <1>8, <1>9 DEF ServedInv

LEMMA ClaimFull ==
    ASSUME FullInv, NEW d \in Deleters, NEW k \in Keys, Claim(d, k)
    PROVE  RolesInv' /\ ServedInv'
<1> USE DEF Claim, ClaimUnchecked
<1>0. /\ UNCHANGED <<job, task, disk, refs, expected, setter, locked, abandoned>>
      /\ overlapped \subseteq overlapped'
      /\ del[d].at = "idle" /\ del'[d].at = "claimed" /\ del'[d].key = k
      /\ \A e \in Deleters \ {d} : del'[e] = del[e]
      /\ served' = [served EXCEPT ![k] = 0]
  BY DEF FullInv, IInv, TypeOK
<1>1. DeadRefs'
  <2> SUFFICES ASSUME NEW x \in Keys \ (abandoned \cup overlapped), Named(x), ~Installed(x)
               PROVE  \E e \in Deleters : Cleaning(e)' /\ del'[e].key = x
      BY <1>0 DEF DeadRefs, Named, Referenced, Installed
  <2>1. PICK e \in Deleters : Cleaning(e) /\ del[e].key = x
    BY DEF FullInv, RolesInv, DeadRefs
  <2> QED BY <2>1, <1>0 DEF Cleaning
<1>2. TodoInv' BY <1>0 DEF FullInv, RolesInv, TodoInv, Files
<1>3. RolesInv' BY <1>0, <1>1, <1>2, RolesAlone DEF FullInv, RolesInv
<1>4. served' \in [Keys -> 0 .. MaxJob]
  BY <1>0, LocalAssumption DEF FullInv, ServedInv
<1>5. \A x \in Keys : served'[x] # 0 => x # k /\ served'[x] = served[x]
  BY <1>0 DEF FullInv, ServedInv
<1>6. ServedOver' BY <1>0, <1>5 DEF FullInv, ServedInv, ServedOver
<1>7. WriterUnserved' BY <1>0, <1>5 DEF FullInv, ServedInv, WriterUnserved, IInv, TypeOK, Writing
<1>8. WipeUnserved'
  <2> SUFFICES ASSUME NEW e \in Deleters, Busy(e)', del'[e].key \notin overlapped'
               PROVE  served'[del'[e].key] = 0
      BY DEF WipeUnserved
  <2>1. CASE e = d BY <2>1, <1>0, <1>4, <1>5
  <2>2. CASE e # d
    <3>1. Busy(e) /\ del'[e].key = del[e].key /\ del[e].key \notin overlapped
      BY <2>2, <1>0 DEF Busy
    <3>2. del[e].key \in Keys BY <3>1 DEF FullInv, IInv, TypeOK, Busy, Wiping
    <3> QED BY <3>1, <3>2, <1>5 DEF FullInv, ServedInv, WipeUnserved
  <2> QED BY <2>1, <2>2
<1>9. CheckedHolds' BY <1>0 DEF FullInv, ServedInv, CheckedHolds, Installed
<1>10. DoneIsServed' BY <1>0, <1>5 DEF FullInv, ServedInv, DoneIsServed, Installed
<1> QED BY <1>3, <1>4, <1>6, <1>7, <1>8, <1>9, <1>10 DEF ServedInv

\* A step that touches neither jobs, deletes nor the disk.
LEMMA ServedAlone ==
    ASSUME ServedInv, UNCHANGED <<job, task, del, disk, overlapped, served>>
    PROVE  ServedInv'
BY DEF ServedInv, ServedOver, WriterUnserved, WipeUnserved, CheckedHolds, DoneIsServed,
    Busy, Installed

LEMMA BeginFull == ASSUME FullInv, Begin PROVE RolesInv' /\ ServedInv'
<1> USE DEF Begin, ReadRoles, history
<1>0. UNCHANGED <<job, task, del, disk, refs, expected, overlapped, abandoned, served>>
  OBVIOUS
<1>1. PICK c \in Changes :
         /\ Target(c) # None => Installed(Target(c))
         /\ setter' = [busy |-> TRUE, change |-> c, write |-> Changed(refs, c)]
  OBVIOUS
<1>2. SetterInv'
  <2>1. setter' = [busy |-> TRUE, change |-> c, write |-> Changed(refs', c)] /\ locked'
    BY <1>0, <1>1
  <2> QED BY <2>1 DEF SetterInv
<1>3. DeadRefs'
  <2> SUFFICES ASSUME NEW x \in Keys \ (abandoned \cup overlapped), Named(x)', ~Installed(x)
               PROVE  \E e \in Deleters : Cleaning(e) /\ del[e].key = x
      BY <1>0 DEF DeadRefs, Installed, Cleaning
  <2>1. Referenced(x)' \/ Target(c) = x BY <1>1 DEF Named
  <2>2. Target(c) # x BY <1>1, LocalAssumption
  <2>3. Named(x) BY <2>1, <2>2, <1>0 DEF Named, Referenced
  <2> QED BY <2>3 DEF FullInv, RolesInv, DeadRefs
<1>4. TodoInv' BY <1>0 DEF FullInv, RolesInv, TodoInv, Files
<1>5. RolesType' /\ NoLostUpdate' BY <1>0 DEF FullInv, RolesInv, RolesType, NoLostUpdate
<1> QED BY <1>0, <1>2, <1>3, <1>4, <1>5, ServedAlone DEF FullInv, RolesInv

LEMMA CommitFull == ASSUME FullInv, Commit PROVE RolesInv' /\ ServedInv'
<1> USE DEF Commit
<1>0. /\ UNCHANGED <<job, task, del, disk, overlapped, abandoned, served>>
      /\ setter.busy /\ setter' = IdleSetter /\ ~locked'
  OBVIOUS
<1>1. PICK c \in Changes : setter = [busy |-> TRUE, change |-> c, write |-> Changed(refs, c)]
  <2>1. setter # IdleSetter BY <1>0 DEF IdleSetter
  <2> QED BY <2>1 DEF FullInv, RolesInv, SetterInv
<1>2. \/ refs' = Changed(refs, c) /\ expected' = Changed(expected, c)
      \/ UNCHANGED <<refs, expected>>
  BY <1>1
<1>3. refs \in [active : [Roles -> Keys \cup {None}], hot : SUBSET Keys]
  BY DEF FullInv, RolesInv, RolesType
<1>4. RolesType' BY <1>2, <1>3, ChangedIs DEF RolesType
<1>5. NoLostUpdate' BY <1>2 DEF FullInv, RolesInv, NoLostUpdate
<1>6. SetterInv' BY <1>0 DEF SetterInv
<1>7. \A x \in Keys : Named(x)' => Named(x)
  <2> SUFFICES ASSUME NEW x \in Keys, Named(x)' PROVE Named(x) OBVIOUS
  <2>1. Referenced(x)'
    <3>1. ~setter'.busy BY <1>0 DEF IdleSetter
    <3> QED BY <3>1 DEF Named
  <2>2. Referenced(x) \/ x = Target(c)
    BY <2>1, <1>2, <1>3, ChangedIs DEF Referenced
  <2> QED BY <2>2, <1>1 DEF Named
<1>8. DeadRefs' BY <1>0, <1>7 DEF FullInv, RolesInv, DeadRefs, Installed, Cleaning
<1>9. TodoInv' BY <1>0 DEF FullInv, RolesInv, TodoInv, Files
<1> QED BY <1>0, <1>4, <1>5, <1>6, <1>8, <1>9, ServedAlone DEF FullInv, RolesInv

LEMMA CrashFull == ASSUME FullInv, Crash PROVE RolesInv' /\ ServedInv'
<1> USE DEF Crash
<1>0. /\ UNCHANGED <<disk, refs, expected, overlapped, served>>
      /\ setter' = IdleSetter /\ ~locked'
      /\ \A d \in Deleters : del'[d] = IdleDelete
      /\ \A d \in Deleters : Busy(d) => del[d].key \in abandoned'
      /\ abandoned \subseteq abandoned'
      /\ \A j \in JobIds : task'[j] \in {"none", "lost"} /\ (task[j] # "none" => task'[j] = "lost")
  OBVIOUS
<1>1. \A j \in JobIds : job'[j].verified = job[j].verified
  BY DEF FullInv, IInv, TypeOK
<1>2. DeadRefs'
  <2> SUFFICES ASSUME NEW x \in Keys \ (abandoned' \cup overlapped), Named(x)', ~Installed(x)
               PROVE  FALSE
      BY <1>0 DEF DeadRefs, Installed
  <2>1. Referenced(x)
    <3>1. ~setter'.busy BY <1>0 DEF IdleSetter
    <3> QED BY <3>1, <1>0 DEF Named, Referenced
  <2>2. PICK d \in Deleters : Cleaning(d) /\ del[d].key = x
    BY <2>1, <1>0 DEF FullInv, RolesInv, DeadRefs, Named
  <2>3. Busy(d) BY <2>2 DEF Cleaning, Busy, Wiping
  <2> QED BY <2>2, <2>3, <1>0
<1>3. TodoInv' BY <1>0 DEF TodoInv, IdleDelete
<1>4. RolesInv'
  BY <1>0, <1>2, <1>3 DEF FullInv, RolesInv, RolesType, NoLostUpdate, SetterInv
<1>5. \A x \in Keys : served[x] # 0 => served[x] \in JobIds
  BY LocalAssumption DEF FullInv, ServedInv, JobIds
<1>6. ServedOver'
  <2> SUFFICES ASSUME NEW x \in Keys, served[x] # 0 PROVE task'[served[x]] = "lost"
      BY <1>0 DEF ServedOver
  <2>1. task[served[x]] # "none" BY DEF FullInv, ServedInv, ServedOver
  <2> QED BY <2>1, <1>0, <1>5
<1>7. WriterUnserved' /\ CheckedHolds' BY <1>0 DEF WriterUnserved, CheckedHolds, Writing
<1>8. WipeUnserved' BY <1>0 DEF WipeUnserved, Busy, Wiping, IdleDelete
<1>9. DoneIsServed' BY <1>0, <1>1, <1>5 DEF FullInv, ServedInv, DoneIsServed, Installed
<1>10. served' \in [Keys -> 0 .. MaxJob] BY <1>0 DEF FullInv, ServedInv
<1> QED BY <1>4, <1>6, <1>7, <1>8, <1>9, <1>10 DEF ServedInv

LEMMA FullInitially == Init => FullInv
<1> SUFFICES ASSUME Init PROVE FullInv OBVIOUS
<1> USE DEF Init
<1>1. IInv BY Initially
<1>2. \A k \in Keys : ~Named(k) BY LocalAssumption DEF Named, Referenced, IdleSetter
<1>3. RolesType /\ NoLostUpdate /\ SetterInv BY DEF RolesType, NoLostUpdate, SetterInv
<1>4. DeadRefs /\ TodoInv BY <1>2 DEF DeadRefs, TodoInv, IdleDelete
<1>5. ServedInv
  BY LocalAssumption DEF ServedInv, ServedOver, WriterUnserved, WipeUnserved, CheckedHolds,
      DoneIsServed, Busy, Wiping, Writing, IdleDelete
<1> QED BY <1>1, <1>3, <1>4, <1>5 DEF FullInv, RolesInv

LEMMA FullStep == FullInv /\ [Next]_vars => FullInv'
<1> SUFFICES ASSUME FullInv, [Next]_vars PROVE RolesInv' /\ ServedInv'
    BY StepKeeps DEF FullInv
<1>1. TypeOK' BY StepKeeps DEF FullInv, IInv
<1>2. ASSUME NEW k \in Keys, Reserve(k) PROVE RolesInv' /\ ServedInv' BY <1>2, ReserveFull
<1>3. ASSUME NEW j \in JobIds, JobStep(j) PROVE RolesInv' /\ ServedInv'
  BY <1>1, <1>3, JobStepEffect, JobRolesKept, JobServedKept
<1>4. ASSUME NEW d \in Deleters, NEW k \in Keys, Claim(d, k) PROVE RolesInv' /\ ServedInv'
  BY <1>4, ClaimFull
<1>5. ASSUME NEW d \in Deleters, DeleteStep(d) PROVE RolesInv' /\ ServedInv'
  BY <1>5, DeleteStepFull, WipeServedKept
<1>6. CASE UNCHANGED vars
  <2>1. UNCHANGED <<job, task, del, disk, refs, expected, setter, locked, overlapped,
                    abandoned, served>>
    BY <1>6 DEF vars, serverVars, history
  <2>2. DeadRefs' /\ TodoInv'
    BY <2>1 DEF FullInv, RolesInv, DeadRefs, TodoInv, Named, Referenced, Installed, Cleaning,
        Files
  <2> QED BY <2>1, <2>2, RolesAlone, ServedAlone DEF FullInv, RolesInv
<1> QED BY <1>2, <1>3, <1>4, <1>5, <1>6, BeginFull, CommitFull, CrashFull DEF Next

\* The sidecar of roles is what the completed calls made it, each applied once, and
\* a model it names is installed, or a delete is on its way to clear the name:
\* _STATE_LOCK spans the check, the read and the write of set_active and set_hot,
\* and _drop_active_refs waits for it.
THEOREM RolesSound == Spec => []RolesAreSound
<1>1. Spec => []FullInv BY FullInitially, FullStep, PTL DEF Spec
<1>2. FullInv => RolesAreSound
  <2> SUFFICES ASSUME FullInv, NEW k \in Keys \ (abandoned \cup overlapped),
                      Referenced(k), ~Installed(k)
               PROVE  \E d \in Deleters : Busy(d) /\ del[d].key = k
      BY DEF RolesAreSound, NoDeadRefs, FullInv, RolesInv
  <2>1. PICK d \in Deleters : Cleaning(d) /\ del[d].key = k
    BY DEF FullInv, RolesInv, DeadRefs, Named
  <2> QED BY <2>1 DEF Cleaning, Busy, Wiping
<1> QED BY <1>1, <1>2, PTL

\* A finished download of _run_job stays installed, with the weights it checked,
\* until a delete claims the model or a new download writes into its directory.
THEOREM DoneServed == Spec => []DoneIsServed
<1>1. Spec => []FullInv BY FullInitially, FullStep, PTL DEF Spec
<1>2. FullInv => DoneIsServed BY DEF FullInv, ServedInv
<1> QED BY <1>1, <1>2, PTL
===============================================================================
