-------------------------- MODULE FoundryVersions --------------------------
(***************************************************************************)
(* One dataset of the Foundry store (apps/api/app/foundry/store.py) and    *)
(* the requests that write it: snapshot uploads and transform builds,      *)
(* appends, rollbacks, the deletion of the dataset, and the creation of a  *)
(* transform whose output it is.                                           *)
(*                                                                         *)
(* Every store method runs its sqlite statements on a thread of the        *)
(* default executor, so the statements of two requests interleave.  The    *)
(* sqlite3 module opens a transaction at the first INSERT, UPDATE or       *)
(* DELETE only: a SELECT that comes before it is a step of its own, the    *)
(* statements from the first write up to commit() are one step.            *)
(*                                                                         *)
(* A row is named after the request that uploaded it, a version's content  *)
(* is a set of rows.  A dataset id is a fresh uuid, never used again.      *)
(***************************************************************************)
EXTENDS Naturals, FiniteSets

CONSTANTS Requests,     \* the requests in flight, one operation each
          Checks,       \* the data expectations an author may enable
          Fails,        \* Fails[c]: the contents check c rejects
          Blocking,     \* the checks of severity 'fail'; the others warn
          KeepVersions, \* KEEP_VERSIONS
          MaxRows,      \* MAX_ROWS_PER_DATASET
          MaxVersions   \* bound: the highest version number explored

ASSUME KeepAssumption == KeepVersions \in Nat \ {0}
ASSUME BoundAssumption == MaxVersions \in Nat /\ MaxRows \in Nat
ASSUME ChecksAssumption ==
    Blocking \subseteq Checks /\ Fails \in [Checks -> SUBSET SUBSET Requests]

Version == 1..MaxVersions
Content == SUBSET Requests
Ops == {"snapshot", "append", "rollback", "delete", "reference"}
Writing == {"snapshot", "append", "rollback"}

(* The program counter of a request: the statement it runs next. *)
Phases == {"idle", "count", "fetch", "checks", "find", "max", "insert",
           "reread", "results", "deps", "wipe", "link", "done", "failed"}

VARIABLES
    exists,     \* the datasets row is there
    versions,   \* the numbers in the versions table
    written,    \* written[v]: the content v was committed with (row_count, source)
    rows,       \* rows[v]: what the rows table still holds of v
    enabled,    \* the checks of the dataset with enabled = 1
    results,    \* check_results: records of check, version and verdict
    users,      \* the transforms that write the dataset, by creating request
    req         \* req[q]: the local variables of request q

db == <<exists, versions, written, rows, enabled, results, users>>
vars == <<exists, versions, written, rows, enabled, results, users, req>>

Result == [version : Version, check : Checks, passed : BOOLEAN]

(* base: version read by append or rollback; cand: rows to write; seen:    *)
(* MAX(version) read; mine: number inserted; verdicts: check -> passed.    *)
Request == [pc : Phases, op : Ops, base : Nat, payload : Content,
            cand : Content, seen : Nat, mine : Nat,
            passed : SUBSET Checks, judged : SUBSET Checks]

Idle == [pc |-> "idle", op |-> "snapshot", base |-> 0, payload |-> {},
         cand |-> {}, seen |-> 0, mine |-> 0, passed |-> {}, judged |-> {}]

-----------------------------------------------------------------------------
(* Helpers *)

\* MAX(version), 0 for a dataset with no version.
MaxVersion(vs) == IF vs = {} THEN 0
                  ELSE CHOOSE v \in vs : \A u \in vs : u <= v

Latest == MaxVersion(versions)

\* Slip: the slice starts one version late.
OldVersionsOneMore(vs) ==
    {v \in vs : Cardinality({u \in vs : u > v}) > KeepVersions}

\* ORDER BY version DESC, the slice [KEEP_VERSIONS:].
OldVersions(vs) ==
    {v \in vs : Cardinality({u \in vs : u > v}) >= KeepVersions}

\* A version that should have rows and has none.
VersionRowsPruned(v) == written[v] # {} /\ rows[v] = {}

\* A request that was answered has no locals left; what a successful writer
\* wrote, and under which number, is kept for the properties.
Failed == [Idle EXCEPT !.pc = "failed"]
Fail(q) == req' = [req EXCEPT ![q] = Failed]
Finish(q) == req' = [req EXCEPT ![q] =
    [Idle EXCEPT !.pc = "done", !.op = req[q].op, !.cand = req[q].cand, !.mine = req[q].mine]]

\* Request q goes on with the locals r when ok holds, and fails otherwise.
Proceed(q, ok, r) == req' = [req EXCEPT ![q] = IF ok THEN r ELSE Failed]

-----------------------------------------------------------------------------
(* Writers *)

\* add_version by an upload in snapshot mode or by a build: the row cap.
StartSnapshot(q, p) ==
    /\ req[q].pc = "idle"
    /\ Proceed(q, Cardinality(p) <= MaxRows,
               [Idle EXCEPT !.pc = "checks", !.payload = p, !.cand = p])
    /\ UNCHANGED db

\* append_version reads the number of the latest version.
StartAppend(q, p) ==
    /\ req[q].pc = "idle"
    /\ Proceed(q, exists,
               [Idle EXCEPT !.pc = IF Latest = 0 THEN "checks" ELSE "count",
                            !.op = "append", !.base = Latest,
                            !.payload = p, !.cand = p])
    /\ UNCHANGED db

\* rollback_version looks the target version up.
StartRollback(q, v) ==
    /\ req[q].pc = "idle"
    /\ Proceed(q, exists /\ v \in versions,
               [Idle EXCEPT !.pc = "count", !.op = "rollback", !.base = v])
    /\ UNCHANGED db

\* _version_rows_pruned_sync: 410 when the base version lost its rows.
CountBase(q) ==
    /\ req[q].pc = "count"
    /\ Proceed(q, ~VersionRowsPruned(req[q].base), [req[q] EXCEPT !.pc = "fetch"])
    /\ UNCHANGED db

\* Slip: the rows of the version that is the latest by now.
FetchLatest(q) ==
    /\ req[q].pc = "fetch"
    /\ LET cand == UNION {rows[v] : v \in {Latest} \ {0}} \cup req[q].payload
       IN Proceed(q, Cardinality(cand) <= MaxRows,
                  [req[q] EXCEPT !.pc = "checks", !.cand = cand])
    /\ UNCHANGED db

\* _rows_for_version_sync, the union with the new rows, and the row cap.
FetchBase(q) ==
    /\ req[q].pc = "fetch"
    /\ LET cand == rows[req[q].base] \cup req[q].payload
       IN Proceed(q, Cardinality(cand) <= MaxRows,
                  [req[q] EXCEPT !.pc = "checks", !.cand = cand])
    /\ UNCHANGED db

\* Slip: the checks see the uploaded rows instead of the version's.
EvalChecksOnUpload(q) ==
    /\ req[q].pc = "checks"
    /\ LET ok == {c \in enabled : req[q].payload \notin Fails[c]}
       IN Proceed(q, Blocking \cap enabled \subseteq ok,
                  [req[q] EXCEPT !.pc = "find", !.judged = enabled, !.passed = ok])
    /\ UNCHANGED db

\* _eval_checks_or_raise: a fail-severity check that fails ends the request.
EvalChecks(q) ==
    /\ req[q].pc = "checks"
    /\ LET ok == {c \in enabled : req[q].cand \notin Fails[c]}
       IN Proceed(q, Blocking \cap enabled \subseteq ok,
                  [req[q] EXCEPT !.pc = "find", !.judged = enabled, !.passed = ok])
    /\ UNCHANGED db

\* add_version's _sync: the dataset must exist.
FindDataset(q) ==
    /\ req[q].pc = "find"
    /\ Proceed(q, exists, [req[q] EXCEPT !.pc = "max"])
    /\ UNCHANGED db

\* SELECT MAX(version), in autocommit.
ReadMax(q) ==
    /\ req[q].pc = "max"
    /\ Latest < MaxVersions
    /\ req' = [req EXCEPT ![q].seen = Latest, ![q].pc = "insert"]
    /\ UNCHANGED db

\* Slip: INSERT OR REPLACE.
InsertOrReplace(q) ==
    /\ req[q].pc = "insert"
    /\ LET v  == req[q].seen + 1
           vs == versions \cup {v}
       IN /\ versions' = vs
          /\ written' = [written EXCEPT ![v] = req[q].cand]
          /\ rows' = [u \in Version |->
                        IF u \in OldVersions(vs) THEN {}
                        ELSE IF u = v THEN req[q].cand ELSE rows[u]]
          /\ req' = [req EXCEPT ![q].mine = v, ![q].pc = "reread"]
          /\ UNCHANGED <<exists, enabled, results, users>>

\* Slip: the retention deletes the version records with the rows.
InsertAndForget(q) ==
    /\ req[q].pc = "insert"
    /\ LET v  == req[q].seen + 1
           vs == versions \cup {v}
       IN /\ v \notin versions
          /\ versions' = vs \ OldVersions(vs)
          /\ written' = [written EXCEPT ![v] = req[q].cand]
          /\ rows' = [u \in Version |->
                        IF u \in OldVersions(vs) THEN {}
                        ELSE IF u = v THEN req[q].cand ELSE rows[u]]
          /\ req' = [req EXCEPT ![q].mine = v, ![q].pc = "reread"]
          /\ UNCHANGED <<exists, enabled, results, users>>

\* The write transaction.  UNIQUE(dataset_id, version) refuses a number that
\* another request committed since; nothing checks that the dataset is there.
InsertVersion(q) ==
    /\ req[q].pc = "insert"
    /\ LET v  == req[q].seen + 1
           vs == versions \cup {v}
       IN \/ /\ v \in versions
             /\ Fail(q)
             /\ UNCHANGED db
          \/ /\ v \notin versions
             /\ versions' = vs
             /\ written' = [written EXCEPT ![v] = req[q].cand]
             /\ rows' = [u \in Version |->
                           IF u \in OldVersions(vs) THEN {}
                           ELSE IF u = v THEN req[q].cand ELSE rows[u]]
             /\ req' = [req EXCEPT ![q].mine = v, ![q].pc = "reread"]
             /\ UNCHANGED <<exists, enabled, results, users>>

\* Slip: a dataset that is gone counts as one at version 0.
RereadOrZero(q) ==
    /\ req[q].pc = "reread"
    /\ req' = [req EXCEPT ![q].seen = Latest, ![q].pc = "results"]
    /\ UNCHANGED db

\* Slip: the latest version is not read again.
RereadNothing(q) ==
    /\ req[q].pc = "reread"
    /\ Proceed(q, exists, [req[q] EXCEPT !.pc = "results"])
    /\ UNCHANGED db

\* _dataset_row after the commit: the latest version by then, or no dataset
\* (None["latest_version"] raises).
RereadDataset(q) ==
    /\ req[q].pc = "reread"
    /\ Proceed(q, exists, [req[q] EXCEPT !.seen = Latest, !.pc = "results"])
    /\ UNCHANGED db

\* record_check_results under the number _dataset_row returned.
RecordResults(q) ==
    /\ req[q].pc = "results"
    /\ results' = results \cup
         {[version |-> req[q].seen, check |-> c, passed |-> c \in req[q].passed] :
            c \in req[q].judged}
    /\ Finish(q)
    /\ UNCHANGED <<exists, versions, written, rows, enabled, users>>

-----------------------------------------------------------------------------
(* The dataset's deletion, and a transform whose output it is *)

\* delete_dataset: 404 when it is not there.
StartDelete(q) ==
    /\ req[q].pc = "idle"
    /\ Proceed(q, exists, [Idle EXCEPT !.op = "delete", !.pc = "deps"])
    /\ UNCHANGED db

\* 409 when a transform reads or writes it.
ReadDependents(q) ==
    /\ req[q].pc = "deps"
    /\ Proceed(q, users = {}, [req[q] EXCEPT !.pc = "wipe"])
    /\ UNCHANGED db

\* The DELETE statements and the commit.
DeleteDataset(q) ==
    /\ req[q].pc = "wipe"
    /\ exists' = FALSE
    /\ versions' = {}
    /\ rows' = [v \in Version |-> {}]
    /\ enabled' = {}
    /\ results' = {}
    /\ Finish(q)
    /\ UNCHANGED <<written, users>>

\* POST /transforms finds its output dataset by name and lists the transforms ...
StartReference(q) ==
    /\ req[q].pc = "idle"
    /\ Proceed(q, exists, [Idle EXCEPT !.op = "reference", !.pc = "link"])
    /\ UNCHANGED db

\* ... and inserts the transform in a later call, under the id it found.
InsertTransform(q) ==
    /\ req[q].pc = "link"
    /\ users' = users \cup {q}
    /\ Finish(q)
    /\ UNCHANGED <<exists, versions, written, rows, enabled, results>>

DeleteTransform(q) ==
    /\ q \in users
    /\ users' = users \ {q}
    /\ UNCHANGED <<exists, versions, written, rows, enabled, results, req>>

-----------------------------------------------------------------------------
(* Data expectations *)

\* create_check on an existing dataset, or update_check with enabled = 1.
EnableCheck(c) ==
    /\ exists
    /\ c \notin enabled
    /\ enabled' = enabled \cup {c}
    /\ UNCHANGED <<exists, versions, written, rows, results, users, req>>

\* update_check with enabled = 0: the results stay.
DisableCheck(c) ==
    /\ c \in enabled
    /\ enabled' = enabled \ {c}
    /\ UNCHANGED <<exists, versions, written, rows, results, users, req>>

\* delete_check drops the check and its results.
DeleteCheck(c) ==
    /\ c \in enabled \/ \E r \in results : r.check = c
    /\ enabled' = enabled \ {c}
    /\ results' = {r \in results : r.check # c}
    /\ UNCHANGED <<exists, versions, written, rows, users, req>>

\* The process stops: requests are lost between two statements, the committed
\* transactions stay.
Crash ==
    /\ \E q \in Requests : req[q].pc \notin {"idle", "done", "failed"}
    /\ req' = [q \in Requests |->
                 IF req[q].pc \in {"idle", "done"} THEN req[q] ELSE Failed]
    /\ UNCHANGED db

-----------------------------------------------------------------------------
(* An empty dataset, version 0, with any checks enabled. *)
Init ==
    /\ exists = TRUE
    /\ versions = {}
    /\ written = [v \in Version |-> {}]
    /\ rows = [v \in Version |-> {}]
    /\ enabled \in SUBSET Checks
    /\ results = {}
    /\ users = {}
    /\ req = [q \in Requests |-> Idle]

Start(q) ==
    \/ \E p \in {{}, {q}} : StartSnapshot(q, p) \/ StartAppend(q, p)
    \/ \E v \in Version : StartRollback(q, v)
    \/ StartDelete(q)
    \/ StartReference(q)

Write(q) ==
    \/ CountBase(q)
    \/ FetchBase(q)
    \/ EvalChecks(q)
    \/ FindDataset(q)
    \/ ReadMax(q)
    \/ InsertVersion(q)
    \/ RereadDataset(q)
    \/ RecordResults(q)

Remove(q) == ReadDependents(q) \/ DeleteDataset(q)

Reference(q) == InsertTransform(q) \/ DeleteTransform(q)

Author(c) == EnableCheck(c) \/ DisableCheck(c) \/ DeleteCheck(c)

Next ==
    \/ \E q \in Requests : Start(q) \/ Write(q) \/ Remove(q) \/ Reference(q)
    \/ \E c \in Checks : Author(c)
    \/ Crash

Spec == Init /\ [][Next]_vars

-----------------------------------------------------------------------------
(* Properties *)

TypeOK ==
    /\ exists \in BOOLEAN
    /\ versions \in SUBSET Version
    /\ written \in [Version -> Content]
    /\ rows \in [Version -> Content]
    /\ enabled \in SUBSET Checks
    /\ results \in SUBSET Result
    /\ users \in SUBSET Requests
    /\ req \in [Requests -> Request]

\* While the dataset is there its versions are numbered 1, 2, ... without a
\* hole, whichever requests raced for a number, and exactly the newest
\* KEEP_VERSIONS of them still have the rows they were committed with.
RetentionWindow ==
    exists => \E n \in 0..MaxVersions :
        /\ versions = 1..n
        /\ \A v \in Version :
             rows[v] = IF v <= n /\ v + KeepVersions > n THEN written[v] ELSE {}

\* A request that was answered with success wrote what it had put together
\* under a number that is its own, and no later write replaced it.
AcknowledgedIsRecorded ==
    \A q \in Requests :
        (exists /\ req[q].pc \in {"results", "done"} /\ req[q].op \in Writing) =>
            /\ req[q].mine \in versions
            /\ written[req[q].mine] = req[q].cand
            /\ \A p \in Requests \ {q} :
                 req[p].pc \in {"results", "done"} => req[p].mine # req[q].mine

\* What an append or a rollback writes starts from the whole content of the
\* version it read, although the row count and the rows are read by separate
\* statements: only KEEP_VERSIONS commits in between can empty the base.
BaseReadWhole ==
    \A q \in Requests :
        (/\ exists
         /\ req[q].op \in {"append", "rollback"}
         /\ req[q].base # 0
         /\ req[q].pc \in {"checks", "find", "max", "insert", "reread", "results"})
        => \/ req[q].cand = written[req[q].base] \cup req[q].payload
           \/ Latest >= req[q].base + KeepVersions

\* The verdicts a writer is about to record were computed from the version it
\* wrote, and the number it records them under, which is read after the commit, is
\* at worst that of a later version: never of one that was there before.
VerdictsNotBackdated ==
    \A q \in Requests :
        (exists /\ req[q].pc = "results") =>
            /\ req[q].passed = {c \in req[q].judged : written[req[q].mine] \notin Fails[c]}
            /\ req[q].mine <= req[q].seen /\ req[q].seen \in versions

\* Each racing request does what a request alone would: what it answers is on
\* record, its base was read whole, its verdicts are about its own version.
RequestsStandAlone == AcknowledgedIsRecorded /\ BaseReadWhole /\ VerdictsNotBackdated

\* A version that an enabled fail-severity check rejects is only ever committed
\* when that check was enabled after the writer had read the checks.
GateUnlessEdited ==
    [][\A q \in Requests, c \in Blocking \cap enabled :
         (InsertVersion(q) /\ versions' # versions /\ req[q].cand \in Fails[c])
            => c \notin req[q].judged]_vars

\* The statements of the racing requests implement the history the store
\* promises: versions are added one by one and never change, the window of
\* readable ones moves with them, a deletion ends it.
History == INSTANCE VersionHistory WITH
    Rows <- Requests,
    Keep <- KeepVersions,
    live <- exists,
    count <- IF exists THEN Latest ELSE 0,
    content <- [v \in Version |->
                  IF exists /\ v \in versions THEN written[v] ELSE {}],
    shown <- [v \in Version |-> IF exists THEN rows[v] ELSE {}]

ImplementsHistory == History!Spec

-----------------------------------------------------------------------------
(* What the repository says and the interleavings refute *)

\* append_version: "new version's rows = latest version's rows + new_rows".
AppendExtendsLatest ==
    [][\A q \in Requests :
         (InsertVersion(q) /\ versions' # versions /\ req[q].op = "append" /\ exists)
            => req[q].cand = (IF Latest = 0 THEN {} ELSE written[Latest]) \cup req[q].payload]_vars

\* DELETE /datasets refuses a dataset a transform depends on.
NoDanglingTransform == users # {} => exists
=============================================================================
