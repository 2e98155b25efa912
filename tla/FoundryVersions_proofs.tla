----------------------- MODULE FoundryVersions_proofs -----------------------
(***************************************************************************)
(* Proofs about FoundryVersions for any set of requests, any checks and    *)
(* any bounds: the retention window, and that the interleaved statements   *)
(* implement the append-only history of module VersionHistory.             *)
(*                                                                         *)
(* The window alone is not inductive.  An insert is safe because the       *)
(* number it computed from a possibly outdated MAX(version) is either      *)
(* taken, and then refused, or exactly the next one: a request's `seen' is *)
(* 0 or a number of the table for as long as the dataset is there.         *)
(***************************************************************************)
EXTENDS FoundryVersions, FiniteSetTheorems, WellFoundedInduction, TLAPS

\* What a request remembers between two of its statements.
LocalOK(r) ==
    /\ r.pc \in {"count", "fetch"} => r.base \in Version
    /\ r.pc = "insert" => /\ r.seen < MaxVersions
                          /\ exists => r.seen = 0 \/ r.seen \in versions
    /\ (r.pc = "reread" /\ exists) => versions # {}
    /\ r.pc = "results" => r.seen \in Version

LocalsOK == \A q \in Requests : LocalOK(req[q])

IInv == TypeOK /\ RetentionWindow /\ LocalsOK

-----------------------------------------------------------------------------
(* Lemmas about the helpers *)

\* A non-empty set of version numbers has a greatest element.
LEMMA MaxVersionIsMax ==
    ASSUME NEW S \in SUBSET Version, S # {}
    PROVE  /\ MaxVersion(S) \in S
           /\ \A u \in S : u <= MaxVersion(S)
<1>1. MaxVersions \in Nat
  BY BoundAssumption
<1> DEFINE T == {m \in Nat : \E v \in S : m = MaxVersions - v}
<1>2. T \in SUBSET Nat
  OBVIOUS
<1>3. \A v \in S : v \in Nat /\ MaxVersions - v \in T
  BY <1>1 DEF Version
<1>4. T # {}
  BY <1>3
<1>5. PICK t \in T : \A m \in T : t <= m
  <2> DEFINE Less == OpToRel(<, Nat)
  <2>1. PICK t \in T : \A m \in T : ~(<<m, t>> \in Less)
    <3> HIDE DEF T, Less
    <3>1. IsWellFoundedOn(Less, Nat)
      BY NatLessThanWellFounded DEF Less
    <3> QED
      BY <1>2, <1>4, <3>1, WFMin
  <2>2. \A m \in T : ~(m < t)
    BY <1>2, <2>1 DEF OpToRel
  <2> QED
    BY <1>2, <2>2
<1>6. PICK v \in S : t = MaxVersions - v
  BY <1>5
<1>7. \A u \in S : u <= v
  BY <1>1, <1>3, <1>5, <1>6
<1> QED
  BY <1>6, <1>7 DEF MaxVersion

\* The greatest version is a number, 0 exactly when there is no version.
LEMMA MaxVersionType ==
    ASSUME NEW S \in SUBSET Version
    PROVE  /\ MaxVersion(S) \in 0..MaxVersions
           /\ MaxVersion(S) = 0 <=> S = {}
<1>1. MaxVersions \in Nat
  BY BoundAssumption
<1>2. CASE S = {}
  BY <1>1, <1>2 DEF MaxVersion
<1>3. CASE S # {}
  <2>1. MaxVersion(S) \in Version
    BY <1>3, MaxVersionIsMax
  <2>2. MaxVersion(S) \in 0..MaxVersions /\ MaxVersion(S) # 0
    BY <1>1, <2>1 DEF Version
  <2> QED
    BY <1>3, <2>2
<1> QED
  BY <1>2, <1>3

\* Without holes, the greatest version is the number of versions.
LEMMA MaxVersionDense ==
    ASSUME NEW n \in 0..MaxVersions
    PROVE  MaxVersion(1..n) = n
<1>1. MaxVersions \in Nat
  BY BoundAssumption
<1>2. CASE n = 0
  BY <1>2 DEF MaxVersion
<1>3. CASE n # 0
  <2>1. (1..n) \in SUBSET Version /\ n \in 1..n
    BY <1>1, <1>3 DEF Version
  <2>2. MaxVersion(1..n) \in 1..n /\ n <= MaxVersion(1..n)
    BY <2>1, MaxVersionIsMax
  <2> QED
    BY <1>1, <2>2
<1> QED
  BY <1>2, <1>3

\* Without holes, the versions past the retention window are the first ones.
LEMMA OldVersionsDense ==
    ASSUME NEW n \in Nat
    PROVE  OldVersions(1..n) = {v \in 1..n : v + KeepVersions <= n}
<1>1. KeepVersions \in Nat
  BY KeepAssumption
<1>2. ASSUME NEW v \in 1..n
      PROVE  Cardinality({u \in 1..n : u > v}) = n - v
  <2>1. {u \in 1..n : u > v} = (v+1)..n
    BY <1>2
  <2>2. v + 1 \in Nat /\ n \in Nat /\ v \in Nat /\ v <= n
    BY <1>2
  <2>3. Cardinality((v+1)..n) = IF v + 1 > n THEN 0 ELSE n - (v + 1) + 1
    BY <2>2, FS_Interval
  <2>4. (IF v + 1 > n THEN 0 ELSE n - (v + 1) + 1) = n - v
    BY <2>2
  <2> QED
    BY <2>1, <2>3, <2>4
<1>3. \A v \in 1..n : Cardinality({u \in 1..n : u > v}) >= KeepVersions
                        <=> v + KeepVersions <= n
  BY <1>1, <1>2
<1> QED
  BY <1>3 DEF OldVersions

-----------------------------------------------------------------------------
(* Steps that only move one request *)

\* Most statements read the database and change the locals of one request: they
\* keep the invariant when the new locals are well typed and consistent.
LEMMA LocalStep ==
    ASSUME IInv, NEW q \in Requests, NEW r \in Request, LocalOK(r),
           req' = [req EXCEPT ![q] = r], UNCHANGED db
    PROVE  IInv'
<1>1. TypeOK'
  BY DEF IInv, TypeOK, db
<1>2. RetentionWindow'
  BY DEF IInv, RetentionWindow, db
<1>3. LocalsOK'
  <2> SUFFICES ASSUME NEW p \in Requests PROVE LocalOK(req[p])'
    BY DEF LocalsOK
  <2>1. req'[p] = IF p = q THEN r ELSE req[p]
    BY DEF IInv, TypeOK
  <2>2. LocalOK(req[p])
    BY DEF IInv, LocalsOK
  <2> QED
    BY <2>1, <2>2 DEF LocalOK, db
<1> QED
  BY <1>1, <1>2, <1>3 DEF IInv

\* Idle and failed requests remember nothing.
LEMMA IdleOK == Idle \in Request /\ Failed \in Request /\ LocalOK(Idle) /\ LocalOK(Failed)
BY DEF Idle, Failed, Request, Phases, Ops, Content, LocalOK

\* A statement that goes on with new locals or fails keeps the invariant.
LEMMA ProceedStep ==
    ASSUME IInv, NEW q \in Requests, NEW ok, NEW r \in Request, LocalOK(r),
           Proceed(q, ok, r), UNCHANGED db
    PROVE  IInv'
<1>1. CASE ok
  <2>1. req' = [req EXCEPT ![q] = r]
    BY <1>1 DEF Proceed
  <2> QED
    BY <2>1, LocalStep
<1>2. CASE ~ok
  <2>1. req' = [req EXCEPT ![q] = Failed]
    BY <1>2 DEF Proceed
  <2> QED
    BY <2>1, LocalStep, IdleOK
<1> QED
  BY <1>1, <1>2

\* A request that finishes has locals that are well typed.
LEMMA FinishOK ==
    ASSUME TypeOK, NEW q \in Requests
    PROVE  LET r == [Idle EXCEPT !.pc = "done", !.op = req[q].op,
                                 !.cand = req[q].cand, !.mine = req[q].mine]
           IN r \in Request /\ r.pc = "done"
<1>1. req[q].op \in Ops /\ req[q].cand \in Content /\ req[q].mine \in Nat
  BY DEF TypeOK, Request
<1> QED
  BY <1>1 DEF Idle, Request, Phases, Content

-----------------------------------------------------------------------------
(* The steps, one lemma per group of actions *)

\* The operations start in a state the invariant allows.
LEMMA StartStep ==
    ASSUME IInv, NEW q \in Requests, Start(q)
    PROVE  IInv'
<1> USE DEF IInv
<1>0. Latest \in Nat /\ (Latest # 0 => Latest \in Version)
  <2>1. versions \in SUBSET Version
    BY DEF TypeOK
  <2> QED
    BY <2>1, MaxVersionType, MaxVersionIsMax, BoundAssumption DEF Latest
<1>1. ASSUME NEW p \in {{}, {q}}, StartSnapshot(q, p) PROVE IInv'
  <2> DEFINE r == [Idle EXCEPT !.pc = "checks", !.payload = p, !.cand = p]
  <2>1. r \in Request /\ LocalOK(r)
    BY <1>1 DEF Idle, Request, Phases, Ops, Content, LocalOK
  <2> QED
    BY <1>1, <2>1, ProceedStep DEF StartSnapshot
<1>2. ASSUME NEW p \in {{}, {q}}, StartAppend(q, p) PROVE IInv'
  <2> DEFINE r == [Idle EXCEPT !.pc = IF Latest = 0 THEN "checks" ELSE "count",
                               !.op = "append", !.base = Latest,
                               !.payload = p, !.cand = p]
  <2>1. r \in Request /\ LocalOK(r)
    BY <1>0, <1>2 DEF Idle, Request, Phases, Ops, Content, LocalOK
  <2> QED
    BY <1>2, <2>1, ProceedStep DEF StartAppend
<1>3. ASSUME NEW v \in Version, StartRollback(q, v) PROVE IInv'
  <2> DEFINE r == [Idle EXCEPT !.pc = "count", !.op = "rollback", !.base = v]
  <2>0. v \in Nat
    BY BoundAssumption DEF Version
  <2>1. r \in Request /\ LocalOK(r)
    BY <2>0 DEF Idle, Request, Phases, Ops, Content, LocalOK
  <2> QED
    BY <1>3, <2>1, ProceedStep DEF StartRollback
<1>4. ASSUME StartDelete(q) PROVE IInv'
  <2> DEFINE r == [Idle EXCEPT !.op = "delete", !.pc = "deps"]
  <2>1. r \in Request /\ LocalOK(r)
    BY DEF Idle, Request, Phases, Ops, Content, LocalOK
  <2> QED
    BY <1>4, <2>1, ProceedStep DEF StartDelete
<1>5. ASSUME StartReference(q) PROVE IInv'
  <2> DEFINE r == [Idle EXCEPT !.op = "reference", !.pc = "link"]
  <2>1. r \in Request /\ LocalOK(r)
    BY DEF Idle, Request, Phases, Ops, Content, LocalOK
  <2> QED
    BY <1>5, <2>1, ProceedStep DEF StartReference
<1> QED
  BY <1>1, <1>2, <1>3, <1>4, <1>5 DEF Start

\* The reads of a writer, up to the number it will try to insert.
LEMMA ReadStep ==
    ASSUME IInv, NEW q \in Requests,
           \/ CountBase(q) \/ FetchBase(q) \/ EvalChecks(q) \/ FindDataset(q)
           \/ ReadMax(q) \/ RereadDataset(q) \/ ReadDependents(q)
    PROVE  IInv'
<1> USE DEF IInv
<1>0. /\ req[q] \in Request
      /\ LocalOK(req[q])
      /\ versions \in SUBSET Version
  BY DEF TypeOK, LocalsOK
<1>1. CASE CountBase(q)
  <2> DEFINE r == [req[q] EXCEPT !.pc = "fetch"]
  <2>1. r \in Request /\ LocalOK(r)
    BY <1>0, <1>1 DEF CountBase, Request, Phases, LocalOK
  <2> QED
    BY <1>1, <2>1, ProceedStep DEF CountBase
<1>2. CASE FetchBase(q)
  <2> DEFINE cand == rows[req[q].base] \cup req[q].payload
             r == [req[q] EXCEPT !.pc = "checks", !.cand = cand]
  <2>1. cand \in Content
    <3>1. req[q].base \in Version /\ req[q].payload \in Content
      BY <1>0, <1>2 DEF FetchBase, LocalOK, Request
    <3> QED
      BY <3>1 DEF TypeOK, Content
  <2> HIDE DEF cand
  <2>2. r \in Request /\ LocalOK(r)
    BY <1>0, <2>1 DEF Request, Phases, LocalOK
  <2>3. Proceed(q, Cardinality(cand) <= MaxRows, r) /\ UNCHANGED db
    BY <1>2 DEF FetchBase, cand
  <2> QED
    BY <2>2, <2>3, ProceedStep
<1>3. CASE EvalChecks(q)
  <2> DEFINE ok == {c \in enabled : req[q].cand \notin Fails[c]}
             r == [req[q] EXCEPT !.pc = "find", !.judged = enabled, !.passed = ok]
  <2>1. ok \in SUBSET Checks /\ enabled \in SUBSET Checks
    BY DEF TypeOK
  <2> HIDE DEF ok
  <2>2. r \in Request /\ LocalOK(r)
    BY <1>0, <2>1 DEF Request, Phases, LocalOK
  <2>3. Proceed(q, Blocking \cap enabled \subseteq ok, r) /\ UNCHANGED db
    BY <1>3 DEF EvalChecks, ok
  <2> QED
    BY <2>2, <2>3, ProceedStep
<1>4. CASE FindDataset(q)
  <2> DEFINE r == [req[q] EXCEPT !.pc = "max"]
  <2>1. r \in Request /\ LocalOK(r)
    BY <1>0 DEF Request, Phases, LocalOK
  <2> QED
    BY <1>4, <2>1, ProceedStep DEF FindDataset
<1>5. CASE ReadMax(q)
  <2> DEFINE r == [req[q] EXCEPT !.seen = Latest, !.pc = "insert"]
  <2>1. Latest \in Nat /\ Latest < MaxVersions /\ (Latest = 0 \/ Latest \in versions)
    BY <1>0, <1>5, MaxVersionType, MaxVersionIsMax, BoundAssumption DEF ReadMax, Latest
  <2>2. r \in Request /\ LocalOK(r)
    BY <1>0, <2>1 DEF Request, Phases, LocalOK
  <2>3. req' = [req EXCEPT ![q] = r] /\ UNCHANGED db
    BY <1>5 DEF ReadMax, TypeOK
  <2> QED
    BY <2>2, <2>3, LocalStep
<1>6. CASE RereadDataset(q)
  <2> DEFINE r == [req[q] EXCEPT !.seen = Latest, !.pc = "results"]
  <2>1. CASE exists
    <3>1. Latest \in Nat /\ Latest \in Version
      BY <1>0, <1>6, <2>1, MaxVersionIsMax, BoundAssumption
         DEF Latest, LocalOK, RereadDataset, Version
    <3>2. r \in Request /\ LocalOK(r)
      BY <1>0, <3>1 DEF Request, Phases, LocalOK
    <3> QED
      BY <1>6, <3>2, ProceedStep DEF RereadDataset
  <2>2. CASE ~exists
    <3>1. Proceed(q, exists, Idle) /\ UNCHANGED db
      BY <1>6, <2>2 DEF RereadDataset, Proceed
    <3> QED
      BY <3>1, IdleOK, ProceedStep
  <2> QED
    BY <2>1, <2>2
<1>7. CASE ReadDependents(q)
  <2> DEFINE r == [req[q] EXCEPT !.pc = "wipe"]
  <2>1. r \in Request /\ LocalOK(r)
    BY <1>0 DEF Request, Phases, LocalOK
  <2> QED
    BY <1>7, <2>1, ProceedStep DEF ReadDependents
<1> QED
  BY <1>1, <1>2, <1>3, <1>4, <1>5, <1>6, <1>7

\* The write transaction: an outdated number is refused, any other is the next
\* one, so the table keeps no hole and the window moves by one.
LEMMA InsertStep ==
    ASSUME IInv, NEW q \in Requests, InsertVersion(q)
    PROVE  IInv'
<1> DEFINE v == req[q].seen + 1
           vs == versions \cup {v}
<1>0. /\ req[q] \in Request
      /\ LocalOK(req[q])
      /\ req[q].pc = "insert"
      /\ MaxVersions \in Nat
      /\ KeepVersions \in Nat \ {0}
  BY BoundAssumption, KeepAssumption DEF IInv, TypeOK, LocalsOK, InsertVersion
<1>1. v \in Version /\ v \in Nat /\ req[q].seen \in Nat /\ req[q].cand \in Content
  BY <1>0 DEF LocalOK, Request, Version
<1>2. CASE v \in versions
  <2>1. req' = [req EXCEPT ![q] = Failed] /\ UNCHANGED db
    BY <1>2 DEF InsertVersion, Fail
  <2> QED
    BY <2>1, LocalStep, IdleOK
<1>3. CASE v \notin versions
  <2>0. /\ versions' = vs
        /\ written' = [written EXCEPT ![v] = req[q].cand]
        /\ rows' = [u \in Version |-> IF u \in OldVersions(vs) THEN {}
                                      ELSE IF u = v THEN req[q].cand ELSE rows[u]]
        /\ req' = [req EXCEPT ![q].mine = v, ![q].pc = "reread"]
        /\ UNCHANGED <<exists, enabled, results, users>>
    BY <1>3 DEF InsertVersion
  <2>1. TypeOK'
    <3>1. versions' \in SUBSET Version
      BY <1>1, <2>0 DEF IInv, TypeOK
    <3>2. written' \in [Version -> Content]
      BY <1>1, <2>0 DEF IInv, TypeOK
    <3>3. rows' \in [Version -> Content]
      <4>1. {} \in Content /\ \A u \in Version : rows[u] \in Content
        BY DEF Content, IInv, TypeOK
      <4> QED
        BY <1>1, <2>0, <4>1
    <3>4. req' \in [Requests -> Request]
      <4>1. [req[q] EXCEPT !.mine = v, !.pc = "reread"] \in Request
        BY <1>0, <1>1 DEF Request, Phases
      <4> QED
        BY <2>0, <4>1 DEF IInv, TypeOK
    <3> QED
      BY <2>0, <3>1, <3>2, <3>3, <3>4 DEF IInv, TypeOK
  <2>2. RetentionWindow'
    <3> SUFFICES ASSUME exists PROVE RetentionWindow'
      BY <2>0 DEF RetentionWindow
    <3>1. PICK n \in 0..MaxVersions :
            /\ versions = 1..n
            /\ \A u \in Version :
                 rows[u] = IF u <= n /\ u + KeepVersions > n THEN written[u] ELSE {}
      BY DEF IInv, RetentionWindow
    <3>2. v = n + 1
      BY <1>0, <1>1, <1>3, <3>1 DEF LocalOK
    <3>3. n + 1 \in 0..MaxVersions /\ n \in Nat
      BY <1>0, <1>1, <3>1, <3>2 DEF Version
    <3>4. vs = 1..(n+1)
      BY <3>1, <3>2, <3>3
    <3> DEFINE m == n + 1
    <3>a. m \in Nat /\ m = n + 1
      BY <3>3
    <3> HIDE DEF m
    <3>b. OldVersions(1..m) = {u \in 1..m : u + KeepVersions <= m}
      BY <3>a, OldVersionsDense
    <3>c. vs = 1..m
      BY <3>4, <3>a
    <3> HIDE DEF vs, v
    <3>d. OldVersions(vs) = {u \in 1..m : u + KeepVersions <= m}
      BY <3>b, <3>c
    <3>5. ASSUME NEW u \in Nat, u >= 1
          PROVE  u \in OldVersions(vs) <=> u <= n + 1 /\ u + KeepVersions <= n + 1
      BY <3>3, <3>5, <3>a, <3>d
    <3>6. ASSUME NEW u \in Version
          PROVE  rows'[u] = IF u <= n + 1 /\ u + KeepVersions > n + 1
                            THEN written'[u] ELSE {}
      <4>0. u \in Nat /\ u >= 1
        BY <1>0 DEF Version
      <4>1. CASE u = v
        <5>1. u \notin OldVersions(vs) /\ u <= n + 1 /\ u + KeepVersions > n + 1
          BY <1>0, <3>2, <3>3, <3>5, <4>0, <4>1
        <5>2. rows'[u] = req[q].cand
          BY <2>0, <4>1, <5>1
        <5>3. written'[u] = req[q].cand
          BY <2>0, <4>1 DEF IInv, TypeOK
        <5> QED
          BY <5>1, <5>2, <5>3
      <4>2. CASE u # v
        <5>1. written'[u] = written[u]
          BY <2>0, <4>2 DEF IInv, TypeOK
        <5>2. rows'[u] = IF u \in OldVersions(vs) THEN {} ELSE rows[u]
          BY <2>0, <4>2
        <5>3. rows[u] = IF u <= n /\ u + KeepVersions > n THEN written[u] ELSE {}
          BY <3>1
        <5>4. u \in OldVersions(vs) <=> u <= n + 1 /\ u + KeepVersions <= n + 1
          BY <3>3, <3>5, <4>0
        <5> QED
          BY <1>0, <3>2, <3>3, <4>0, <4>2, <5>1, <5>2, <5>3, <5>4
      <4> QED
        BY <4>1, <4>2
    <3>7. versions' = 1..(n+1)
      BY <2>0, <3>4
    <3> QED
      BY <3>3, <3>6, <3>7 DEF RetentionWindow
  <2>3. LocalsOK'
    <3> SUFFICES ASSUME NEW p \in Requests PROVE LocalOK(req[p])'
      BY DEF LocalsOK
    <3>1. CASE p = q
      <4>1. req'[p].pc = "reread" /\ versions' # {}
        BY <2>0, <3>1, <1>0 DEF IInv, TypeOK, Request
      <4> QED
        BY <4>1 DEF LocalOK
    <3>2. CASE p # q
      <4>1. req'[p] = req[p] /\ LocalOK(req[p])
        BY <2>0, <3>2 DEF IInv, TypeOK, LocalsOK
      <4> QED
        BY <2>0, <4>1 DEF LocalOK
    <3> QED
      BY <3>1, <3>2
  <2> QED
    BY <2>1, <2>2, <2>3 DEF IInv
<1> QED
  BY <1>2, <1>3

\* The steps that leave the versions alone: recording verdicts, editing the
\* checks, linking and unlinking transforms, and a crash.
LEMMA OtherStep ==
    ASSUME IInv, TypeOK',
           UNCHANGED <<exists, versions, written, rows>>,
           \A p \in Requests : req'[p] = req[p] \/ req'[p].pc \in {"done", "failed"}
    PROVE  IInv'
<1>1. RetentionWindow'
  BY DEF IInv, RetentionWindow
<1>2. LocalsOK'
  <2> SUFFICES ASSUME NEW p \in Requests PROVE LocalOK(req[p])'
    BY DEF LocalsOK
  <2>1. CASE req'[p] = req[p]
    BY <2>1 DEF IInv, LocalsOK, LocalOK
  <2>2. CASE req'[p].pc \in {"done", "failed"}
    BY <2>2 DEF LocalOK
  <2> QED
    BY <2>1, <2>2
<1> QED
  BY <1>1, <1>2 DEF IInv

\* A request that is answered with success.
LEMMA FinishStep ==
    ASSUME TypeOK, NEW q \in Requests, Finish(q)
    PROVE  /\ req' \in [Requests -> Request]
           /\ \A p \in Requests : req'[p] = req[p] \/ req'[p].pc = "done"
<1> DEFINE r == [Idle EXCEPT !.pc = "done", !.op = req[q].op,
                             !.cand = req[q].cand, !.mine = req[q].mine]
<1>1. r \in Request /\ r.pc = "done"
  BY FinishOK
<1>2. req' = [req EXCEPT ![q] = r]
  BY DEF Finish
<1> HIDE DEF r
<1> QED
  BY <1>1, <1>2 DEF TypeOK

\* record_check_results: the verdicts carry a number _dataset_row returned.
LEMMA RecordStep ==
    ASSUME IInv, NEW q \in Requests, RecordResults(q)
    PROVE  IInv'
<1>1. /\ req[q].judged \in SUBSET Checks
      /\ req[q].passed \in SUBSET Checks
      /\ req[q].seen \in Version
  BY DEF IInv, TypeOK, Request, LocalsOK, LocalOK, RecordResults
<1>2. results' \in SUBSET Result
  <2> SUFFICES ASSUME NEW c \in req[q].judged
               PROVE  [version |-> req[q].seen, check |-> c,
                       passed |-> c \in req[q].passed] \in Result
    BY DEF RecordResults, IInv, TypeOK
  <2>1. c \in Checks /\ (c \in req[q].passed) \in BOOLEAN
    BY <1>1
  <2> QED
    BY <1>1, <2>1 DEF Result
<1>3. /\ req' \in [Requests -> Request]
      /\ \A p \in Requests : req'[p] = req[p] \/ req'[p].pc = "done"
  BY FinishStep DEF IInv, RecordResults
<1>4. TypeOK'
  BY <1>2, <1>3 DEF RecordResults, IInv, TypeOK
<1> QED
  BY <1>3, <1>4, OtherStep DEF RecordResults

\* The deletion takes every version with it.
LEMMA DeleteStep ==
    ASSUME IInv, NEW q \in Requests, DeleteDataset(q)
    PROVE  IInv'
<1>1. /\ req' \in [Requests -> Request]
      /\ \A p \in Requests : req'[p] = req[p] \/ req'[p].pc = "done"
  BY FinishStep DEF IInv, DeleteDataset
<1>2. TypeOK'
  <2>1. rows' \in [Version -> Content]
    BY DEF DeleteDataset, Content
  <2> QED
    BY <1>1, <2>1 DEF DeleteDataset, IInv, TypeOK
<1>3. RetentionWindow'
  BY DEF DeleteDataset, RetentionWindow
<1>4. LocalsOK'
  <2> SUFFICES ASSUME NEW p \in Requests PROVE LocalOK(req[p])'
    BY DEF LocalsOK
  <2>1. LocalOK(req[p])
    BY DEF IInv, LocalsOK
  <2> QED
    BY <1>1, <2>1 DEF LocalOK, DeleteDataset
<1> QED
  BY <1>2, <1>3, <1>4 DEF IInv

\* Transforms come and go without touching the versions.
LEMMA ReferenceStep ==
    ASSUME IInv, NEW q \in Requests, Reference(q)
    PROVE  IInv'
<1>1. CASE InsertTransform(q)
  <2>1. /\ req' \in [Requests -> Request]
        /\ \A p \in Requests : req'[p] = req[p] \/ req'[p].pc = "done"
    BY <1>1, FinishStep DEF IInv, InsertTransform
  <2>2. TypeOK'
    BY <1>1, <2>1 DEF InsertTransform, IInv, TypeOK
  <2> QED
    BY <1>1, <2>1, <2>2, OtherStep DEF InsertTransform
<1>2. CASE DeleteTransform(q)
  <2>1. TypeOK'
    BY <1>2 DEF DeleteTransform, IInv, TypeOK
  <2> QED
    BY <1>2, <2>1, OtherStep DEF DeleteTransform
<1> QED
  BY <1>1, <1>2 DEF Reference

\* Neither do the authors of checks.
LEMMA AuthorStep ==
    ASSUME IInv, NEW c \in Checks, Author(c)
    PROVE  IInv'
<1>1. /\ UNCHANGED <<exists, versions, written, rows, users, req>>
      /\ enabled' \in SUBSET Checks
      /\ results' \in SUBSET Result
  BY DEF Author, EnableCheck, DisableCheck, DeleteCheck, IInv, TypeOK
<1>2. TypeOK'
  BY <1>1 DEF IInv, TypeOK
<1> QED
  BY <1>1, <1>2, OtherStep

\* A crash forgets the requests, the committed transactions stay.
LEMMA CrashStep ==
    ASSUME IInv, Crash
    PROVE  IInv'
<1>1. \A p \in Requests : req'[p] = req[p] \/ req'[p] = Failed
  BY DEF Crash
<1>2. Failed.pc = "failed" /\ Failed \in Request
  BY IdleOK DEF Failed, Idle
<1>3. req' \in [Requests -> Request]
  BY <1>2 DEF Crash, IInv, TypeOK
<1>4. TypeOK'
  BY <1>3 DEF Crash, IInv, TypeOK, db
<1>5. UNCHANGED <<exists, versions, written, rows>>
  BY DEF Crash, db
<1> QED
  BY <1>1, <1>2, <1>4, <1>5, OtherStep

-----------------------------------------------------------------------------
(* The invariant *)

\* A new dataset has no version and no request.
LEMMA InitInv == Init => IInv
<1> SUFFICES ASSUME Init PROVE IInv
  OBVIOUS
<1>0. MaxVersions \in Nat /\ KeepVersions \in Nat
  BY BoundAssumption, KeepAssumption
<1>1. TypeOK
  <2>1. {} \in Content
    BY DEF Content
  <2> QED
    BY <2>1, IdleOK DEF Init, TypeOK
<1>2. RetentionWindow
  <2>1. 0 \in 0..MaxVersions /\ versions = 1..0
    BY <1>0 DEF Init
  <2>2. \A v \in Version : ~(v <= 0) /\ rows[v] = {}
    BY <1>0 DEF Init, Version
  <2> QED
    BY <2>1, <2>2 DEF RetentionWindow
<1>3. LocalsOK
  BY IdleOK DEF Init, LocalsOK
<1> QED
  BY <1>1, <1>2, <1>3 DEF IInv

\* Every step keeps the invariant.
LEMMA NextInv == IInv /\ [Next]_vars => IInv'
<1> SUFFICES ASSUME IInv, [Next]_vars PROVE IInv'
  OBVIOUS
<1>1. ASSUME NEW q \in Requests, Start(q) PROVE IInv'
  BY <1>1, StartStep
<1>2. ASSUME NEW q \in Requests, Write(q) PROVE IInv'
  BY <1>2, ReadStep, InsertStep, RecordStep DEF Write
<1>3. ASSUME NEW q \in Requests, Remove(q) PROVE IInv'
  BY <1>3, ReadStep, DeleteStep DEF Remove
<1>4. ASSUME NEW q \in Requests, Reference(q) PROVE IInv'
  BY <1>4, ReferenceStep
<1>5. ASSUME NEW c \in Checks, Author(c) PROVE IInv'
  BY <1>5, AuthorStep
<1>6. CASE Crash
  BY <1>6, CrashStep
<1>7. CASE UNCHANGED vars
  BY <1>7 DEF vars, IInv, TypeOK, RetentionWindow, LocalsOK, LocalOK
<1> QED
  BY <1>1, <1>2, <1>3, <1>4, <1>5, <1>6, <1>7 DEF Next

\* Type correctness for every instance.
THEOREM TypeCorrect == Spec => []TypeOK
<1>1. IInv => TypeOK
  BY DEF IInv
<1> QED
  BY <1>1, InitInv, NextInv, PTL DEF Spec

\* For any number of racing uploads, appends, rollbacks and builds, and with a
\* crash at any point: the versions of an existing dataset are numbered without
\* a hole and exactly the newest KEEP_VERSIONS hold their rows.
THEOREM RetentionHolds == Spec => []RetentionWindow
<1>1. IInv => RetentionWindow
  BY DEF IInv
<1> QED
  BY <1>1, InitInv, NextInv, PTL DEF Spec

-----------------------------------------------------------------------------
(* Refinement of VersionHistory *)

\* The value of the refinement mapping in terms of the number of versions.
LEMMA MappedCount ==
    ASSUME IInv
    PROVE  exists => \E n \in 0..MaxVersions : versions = 1..n /\ Latest = n
BY MaxVersionDense DEF IInv, RetentionWindow, Latest

\* Steps that leave the versions and their rows alone are stuttering steps.
LEMMA StutterRefines ==
    ASSUME UNCHANGED <<exists, versions, written, rows>>
    PROVE  UNCHANGED History!vars
BY DEF History!vars, Latest

\* Nothing that happens to a deleted dataset shows: it stays deleted.
LEMMA GoneRefines ==
    ASSUME ~exists, exists' = exists
    PROVE  UNCHANGED History!vars
BY DEF History!vars

\* A write transaction that is not refused is the abstract Commit.
LEMMA CommitRefines ==
    ASSUME IInv, NEW q \in Requests, InsertVersion(q),
           exists, req[q].seen + 1 \notin versions
    PROVE  History!Commit(req[q].cand)
<1> DEFINE v == req[q].seen + 1
           c == req[q].cand
<1>0. MaxVersions \in Nat /\ KeepVersions \in Nat
  BY BoundAssumption, KeepAssumption
<1>1. IInv'
  BY InsertStep
<1>2. PICK n \in 0..MaxVersions : versions = 1..n /\ Latest = n
  BY MappedCount
<1>3. /\ versions' = versions \cup {v}
      /\ written' = [written EXCEPT ![v] = c]
      /\ exists' = exists
  BY DEF InsertVersion
<1>4. v = n + 1 /\ v \in Version
  <2>1. LocalOK(req[q]) /\ req[q].pc = "insert" /\ req[q].seen \in Nat
    BY DEF IInv, TypeOK, LocalsOK, InsertVersion, Request
  <2> QED
    BY <1>0, <1>2, <2>1 DEF LocalOK, Version
<1>5. n < MaxVersions /\ n \in Nat /\ n + 1 \in Version
  BY <1>0, <1>4 DEF Version
<1>6. versions' = 1..(n+1)
  BY <1>2, <1>3, <1>4, <1>5
<1>7. Latest' = n + 1
  <2>1. n + 1 \in 0..MaxVersions
    BY <1>0, <1>5
  <2> QED
    BY <1>6, <2>1, MaxVersionDense DEF Latest
<1>8. \A u \in Version : rows'[u] = IF u <= n + 1 /\ u + KeepVersions > n + 1
                                    THEN written'[u] ELSE {}
  <2>1. PICK m \in 0..MaxVersions :
          /\ versions' = 1..m
          /\ \A u \in Version :
               rows'[u] = IF u <= m /\ u + KeepVersions > m THEN written'[u] ELSE {}
    BY <1>1, <1>3 DEF IInv, RetentionWindow
  <2>2. m = n + 1
    BY <1>0, <1>5, <1>6, <2>1
  <2> QED
    BY <2>1, <2>2
<1> DEFINE content == [u \in Version |->
                         IF exists /\ u \in versions THEN written[u] ELSE {}]
           shown == [u \in Version |-> IF exists THEN rows[u] ELSE {}]
<1>9. content' = [content EXCEPT ![n + 1] = c]
  <2>1. ASSUME NEW u \in Version
        PROVE  content'[u] = IF u = n + 1 THEN c ELSE content[u]
    <3>1. CASE u = n + 1
      BY <1>3, <1>4, <3>1 DEF IInv, TypeOK
    <3>2. CASE u # n + 1
      <4>1. u \in versions' <=> u \in versions
        BY <1>3, <1>4, <3>2
      <4>2. written'[u] = written[u]
        BY <1>3, <1>4, <3>2 DEF IInv, TypeOK
      <4> QED
        BY <1>3, <3>2, <4>1, <4>2
    <3> QED
      BY <3>1, <3>2
  <2> QED
    BY <2>1
<1>10. shown' = [u \in Version |-> IF u <= n + 1 /\ u + KeepVersions > n + 1
                                   THEN content'[u] ELSE {}]
  <2>1. ASSUME NEW u \in Version, u <= n + 1
        PROVE  content'[u] = written'[u]
    <3>1. u \in versions'
      BY <1>0, <1>6, <2>1 DEF Version
    <3> QED
      BY <1>3, <3>1
  <2> QED
    BY <1>3, <1>8, <2>1
<1> QED
  BY <1>2, <1>3, <1>5, <1>7, <1>9, <1>10
     DEF History!Commit, History!Version, Version

\* A deletion that finds the dataset is the abstract Discard.
LEMMA DiscardRefines ==
    ASSUME NEW q \in Requests, DeleteDataset(q), exists
    PROVE  History!Discard
<1>1. exists' = FALSE
  BY DEF DeleteDataset
<1> QED
  BY <1>1 DEF History!Discard, History!Nothing, History!Version, Version

\* A new dataset is an empty history.
LEMMA InitRefines == Init => History!Init
<1> SUFFICES ASSUME Init PROVE History!Init
  OBVIOUS
<1>1. exists = TRUE /\ versions = {} /\ rows = [v \in Version |-> {}]
  BY DEF Init
<1>2. Latest = 0
  BY <1>1 DEF Latest, MaxVersion
<1> QED
  BY <1>1, <1>2 DEF History!Init, History!Nothing, History!Version, Version

\* Every statement is a step of the history or a stuttering step.
LEMMA NextRefines == IInv /\ [Next]_vars => [History!Next]_(History!vars)
<1> SUFFICES ASSUME IInv, [Next]_vars
             PROVE  History!Next \/ UNCHANGED History!vars
  OBVIOUS
<1>1. ASSUME NEW q \in Requests, InsertVersion(q)
      PROVE  History!Next \/ UNCHANGED History!vars
  <2>1. CASE ~exists
    BY <1>1, <2>1, GoneRefines DEF InsertVersion, db
  <2>2. CASE exists /\ req[q].seen + 1 \notin versions
    <3>1. req[q].cand \in SUBSET Requests
      BY DEF IInv, TypeOK, Request, Content
    <3>2. History!Commit(req[q].cand)
      BY <1>1, <2>2, CommitRefines
    <3>3. \E c \in SUBSET Requests : History!Commit(c)
      BY <3>1, <3>2 DEF History!Commit
    <3> QED
      BY <3>3 DEF History!Next
  <2>3. CASE req[q].seen + 1 \in versions
    <3>1. UNCHANGED <<exists, versions, written, rows>>
      BY <1>1, <2>3 DEF InsertVersion, db
    <3> QED
      BY <3>1, StutterRefines
  <2> QED
    BY <2>1, <2>2, <2>3
<1>2. ASSUME NEW q \in Requests, DeleteDataset(q)
      PROVE  History!Next \/ UNCHANGED History!vars
  <2>1. CASE exists
    BY <1>2, <2>1, DiscardRefines DEF History!Next
  <2>2. CASE ~exists
    BY <1>2, <2>2, GoneRefines DEF DeleteDataset, IInv, TypeOK
  <2> QED
    BY <2>1, <2>2
<1>3. ASSUME UNCHANGED <<exists, versions, written, rows>>
      PROVE  History!Next \/ UNCHANGED History!vars
  BY <1>3, StutterRefines
<1>4. ASSUME NEW q \in Requests, Start(q)
      PROVE  UNCHANGED <<exists, versions, written, rows>>
  BY <1>4 DEF Start, StartSnapshot, StartAppend, StartRollback, StartDelete,
              StartReference, db
<1>5. ASSUME NEW q \in Requests, Write(q)
      PROVE  InsertVersion(q) \/ UNCHANGED <<exists, versions, written, rows>>
  BY <1>5 DEF Write, CountBase, FetchBase, EvalChecks, FindDataset, ReadMax,
              RereadDataset, RecordResults, db
<1>6. ASSUME NEW q \in Requests, Remove(q)
      PROVE  DeleteDataset(q) \/ UNCHANGED <<exists, versions, written, rows>>
  BY <1>6 DEF Remove, ReadDependents, db
<1>7. ASSUME NEW q \in Requests, Reference(q)
      PROVE  UNCHANGED <<exists, versions, written, rows>>
  BY <1>7 DEF Reference, InsertTransform, DeleteTransform
<1>8. ASSUME NEW c \in Checks, Author(c)
      PROVE  UNCHANGED <<exists, versions, written, rows>>
  BY <1>8 DEF Author, EnableCheck, DisableCheck, DeleteCheck
<1>9. Crash \/ UNCHANGED vars => UNCHANGED <<exists, versions, written, rows>>
  BY DEF Crash, vars, db
<1> QED
  BY <1>1, <1>2, <1>3, <1>4, <1>5, <1>6, <1>7, <1>8, <1>9 DEF Next

\* However the statements of the requests interleave, what a reader can see of
\* the dataset is an append-only history of immutable versions.
THEOREM HistoryImplemented == Spec => ImplementsHistory
<1> QED
  BY InitInv, NextInv, InitRefines, NextRefines, PTL
     DEF Spec, ImplementsHistory, History!Spec
-----------------------------------------------------------------------------
(* What the racing requests do to one another: nothing.  A request's locals   *)
(* agree with themselves (LocalRace) and, while the dataset is there, with    *)
(* what it read and wrote (SharedRace): the base it read is still the version *)
(* it read, whole unless the retention emptied it, and the version it wrote   *)
(* is still there, as it wrote it, under a number no other request got.       *)

Committing == {"checks", "find", "max", "insert", "reread", "results"}

LocalRace(r) ==
    /\ r.pc \in Committing \cup {"count", "fetch"} => r.op \in Writing
    /\ r.pc \in {"deps", "wipe", "link"} => r.op \notin Writing /\ r.mine = 0
    /\ (r.pc = "done" /\ r.op \notin Writing) => r.mine = 0
    /\ r.pc \in Committing \ {"checks"} => r.passed = {c \in r.judged : r.cand \notin Fails[c]}
    /\ r.pc \in {"find", "max", "insert"} => Blocking \cap r.judged \subseteq r.passed

Based(r) == r.op \in {"append", "rollback"} /\ r.base # 0
Wrote(r) == r.pc \in {"reread", "results"} \/ (r.pc = "done" /\ r.op \in Writing)

SharedRace(r) ==
    /\ r.pc \in {"count", "fetch"} => r.base \in versions
    /\ (r.pc \in Committing /\ Based(r)) =>
          /\ r.base \in versions
          /\ r.cand = written[r.base] \cup r.payload \/ Latest >= r.base + KeepVersions
    /\ Wrote(r) => r.mine \in versions /\ written[r.mine] = r.cand
    /\ r.pc = "results" => r.mine <= r.seen /\ r.seen \in versions

OwnNumber ==
    \A p, q \in Requests :
        (p # q /\ Wrote(req[p]) /\ Wrote(req[q])) => req[p].mine # req[q].mine

RaceInv ==
    /\ \A q \in Requests : LocalRace(req[q])
    /\ exists => OwnNumber /\ \A q \in Requests : SharedRace(req[q])

\* A statement that writes no version, and the new locals of its request.
LEMMA RaceLocal ==
    ASSUME IInv, RaceInv, NEW q \in Requests, NEW r \in Request,
           req' = [req EXCEPT ![q] = r], UNCHANGED <<exists, versions, written>>,
           LocalRace(r), exists => SharedRace(r),
           Wrote(r) => Wrote(req[q]) /\ r.mine = req[q].mine
    PROVE  RaceInv'
<1>1. \A p \in Requests : req'[p] = IF p = q THEN r ELSE req[p]
  BY DEF IInv, TypeOK
<1>2. ASSUME NEW p \in Requests PROVE LocalRace(req'[p])
  BY <1>1 DEF RaceInv
<1>3. ASSUME exists, NEW p \in Requests PROVE SharedRace(req[p])'
  <2>1. SharedRace(req'[p])
    BY <1>1, <1>3 DEF RaceInv
  <2>2. Latest' = Latest
    BY DEF Latest
  <2> QED
    BY <2>1, <2>2 DEF SharedRace, Based, Wrote
<1>4. ASSUME NEW p \in Requests, Wrote(req'[p])
      PROVE  Wrote(req[p]) /\ req'[p].mine = req[p].mine
  BY <1>1, <1>4
<1>5. exists => OwnNumber'
  <2>1. exists => OwnNumber
    BY DEF RaceInv
  <2>2. \A p \in Requests : Wrote(req[p])' <=> Wrote(req'[p])
    BY DEF Wrote
  <2> QED
    BY <1>4, <2>1, <2>2 DEF OwnNumber
<1>6. \A p \in Requests : LocalRace(req[p])' <=> LocalRace(req'[p])
  BY DEF LocalRace
<1> QED
  BY <1>2, <1>3, <1>5, <1>6 DEF RaceInv

\* Idle and failed requests have nothing to agree with.
LEMMA IdleRace ==
    /\ LocalRace(Idle) /\ SharedRace(Idle) /\ ~Wrote(Idle)
    /\ LocalRace(Failed) /\ SharedRace(Failed) /\ ~Wrote(Failed)
BY DEF Idle, Failed, LocalRace, SharedRace, Wrote, Committing, Based

LEMMA RaceProceed ==
    ASSUME IInv, RaceInv, NEW q \in Requests, NEW ok, NEW r \in Request,
           Proceed(q, ok, r), UNCHANGED db,
           ok => LocalRace(r), (ok /\ exists) => SharedRace(r),
           Wrote(r) => Wrote(req[q]) /\ r.mine = req[q].mine
    PROVE  RaceInv'
<1>0. UNCHANGED <<exists, versions, written>>
  BY DEF db
<1>1. CASE ok
  <2>1. req' = [req EXCEPT ![q] = r]
    BY <1>1 DEF Proceed
  <2> QED
    BY <1>0, <1>1, <2>1, RaceLocal
<1>2. CASE ~ok
  <2>1. req' = [req EXCEPT ![q] = Failed]
    BY <1>2 DEF Proceed
  <2> QED
    BY <1>0, <2>1, RaceLocal, IdleRace, IdleOK
<1> QED
  BY <1>1, <1>2

LEMMA RaceStart == ASSUME IInv, RaceInv, NEW q \in Requests, Start(q) PROVE RaceInv'
<1>0. /\ Latest \in Nat /\ (Latest # 0 => Latest \in versions)
      /\ \A v \in Version : v \in Nat
  <2>1. versions \in SUBSET Version
    BY DEF IInv, TypeOK
  <2> QED
    BY <2>1, MaxVersionType, MaxVersionIsMax, BoundAssumption DEF Latest, Version
<1> USE DEF Idle, LocalRace, SharedRace, Wrote, Based, Committing, Writing
<1>1. ASSUME NEW p \in {{}, {q}}, StartSnapshot(q, p) PROVE RaceInv'
  <2> DEFINE r == [Idle EXCEPT !.pc = "checks", !.payload = p, !.cand = p]
  <2>1. r \in Request
    BY <1>1 DEF Request, Phases, Ops, Content
  <2>2. LocalRace(r) /\ SharedRace(r) /\ ~Wrote(r)
    OBVIOUS
  <2>3. Proceed(q, Cardinality(p) <= MaxRows, r) /\ UNCHANGED db
    BY <1>1 DEF StartSnapshot
  <2> HIDE DEF r, LocalRace, SharedRace, Wrote
  <2> QED
    BY <2>1, <2>2, <2>3, RaceProceed
<1>2. ASSUME NEW p \in {{}, {q}}, StartAppend(q, p) PROVE RaceInv'
  <2> DEFINE r == [Idle EXCEPT !.pc = IF Latest = 0 THEN "checks" ELSE "count",
                               !.op = "append", !.base = Latest,
                               !.payload = p, !.cand = p]
  <2>1. r \in Request
    BY <1>0, <1>2 DEF Request, Phases, Ops, Content
  <2>2. LocalRace(r) /\ SharedRace(r) /\ ~Wrote(r)
    BY <1>0
  <2>3. Proceed(q, exists, r) /\ UNCHANGED db
    BY <1>2 DEF StartAppend
  <2> HIDE DEF r, LocalRace, SharedRace, Wrote
  <2> QED
    BY <2>1, <2>2, <2>3, RaceProceed
<1>3. ASSUME NEW v \in Version, StartRollback(q, v) PROVE RaceInv'
  <2> DEFINE r == [Idle EXCEPT !.pc = "count", !.op = "rollback", !.base = v]
  <2>1. r \in Request
    BY <1>0, <1>3 DEF Request, Phases, Ops, Content
  <2>2. LocalRace(r) /\ (v \in versions => SharedRace(r)) /\ ~Wrote(r)
    OBVIOUS
  <2>3. Proceed(q, exists /\ v \in versions, r) /\ UNCHANGED db
    BY <1>3 DEF StartRollback
  <2> HIDE DEF r, LocalRace, SharedRace, Wrote
  <2> QED
    BY <2>1, <2>2, <2>3, RaceProceed
<1>4. ASSUME StartDelete(q) PROVE RaceInv'
  <2> DEFINE r == [Idle EXCEPT !.op = "delete", !.pc = "deps"]
  <2>1. r \in Request /\ LocalRace(r) /\ SharedRace(r) /\ ~Wrote(r)
    BY DEF Request, Phases, Ops, Content
  <2>2. Proceed(q, exists, r) /\ UNCHANGED db
    BY <1>4 DEF StartDelete
  <2> HIDE DEF r, LocalRace, SharedRace, Wrote
  <2> QED
    BY <2>1, <2>2, RaceProceed
<1>5. ASSUME StartReference(q) PROVE RaceInv'
  <2> DEFINE r == [Idle EXCEPT !.op = "reference", !.pc = "link"]
  <2>1. r \in Request /\ LocalRace(r) /\ SharedRace(r) /\ ~Wrote(r)
    BY DEF Request, Phases, Ops, Content
  <2>2. Proceed(q, exists, r) /\ UNCHANGED db
    BY <1>5 DEF StartReference
  <2> HIDE DEF r, LocalRace, SharedRace, Wrote
  <2> QED
    BY <2>1, <2>2, RaceProceed
<1> QED
  BY <1>1, <1>2, <1>3, <1>4, <1>5 DEF Start

LEMMA RaceRead ==
    ASSUME IInv, RaceInv, NEW q \in Requests,
           \/ CountBase(q) \/ FetchBase(q) \/ EvalChecks(q) \/ FindDataset(q)
           \/ ReadMax(q) \/ RereadDataset(q) \/ ReadDependents(q)
    PROVE  RaceInv'
<1>0. /\ req[q] \in Request /\ LocalRace(req[q]) /\ LocalOK(req[q])
      /\ exists => SharedRace(req[q])
      /\ versions \in SUBSET Version
  BY DEF IInv, TypeOK, RaceInv, LocalsOK
<1>t. /\ req[q].base \in Nat /\ req[q].mine \in Nat /\ req[q].payload \in Content
      /\ req[q].cand \in Content /\ req[q].op \in Ops
  BY <1>0 DEF Request
<1> USE DEF LocalRace, SharedRace, Wrote, Based, Committing
<1>1. CASE CountBase(q)
  <2> DEFINE r == [req[q] EXCEPT !.pc = "fetch"]
  <2>1. r \in Request
    BY <1>0 DEF Request, Phases
  <2>2. LocalRace(r) /\ (exists => SharedRace(r)) /\ ~Wrote(r)
    BY <1>0, <1>1 DEF CountBase, Request
  <2>3. Proceed(q, ~VersionRowsPruned(req[q].base), r) /\ UNCHANGED db
    BY <1>1 DEF CountBase
  <2> HIDE DEF r, LocalRace, SharedRace, Wrote
  <2> QED
    BY <2>1, <2>2, <2>3, RaceProceed
<1>2. CASE FetchBase(q)
  <2> DEFINE cand == rows[req[q].base] \cup req[q].payload
             r == [req[q] EXCEPT !.pc = "checks", !.cand = cand]
  <2>0. req[q].pc = "fetch" /\ Proceed(q, Cardinality(cand) <= MaxRows, r) /\ UNCHANGED db
    BY <1>2 DEF FetchBase
  <2>1. cand \in Content
    <3>1. req[q].base \in Version
      BY <1>0, <2>0 DEF LocalOK
    <3> QED
      BY <3>1, <1>t DEF IInv, TypeOK, Content
  \* The base has its rows unless KEEP_VERSIONS commits came in between.
  <2>2. exists => /\ req[q].base \in versions
                  /\ cand = written[req[q].base] \cup req[q].payload
                       \/ Latest >= req[q].base + KeepVersions
    <3> SUFFICES ASSUME exists PROVE <2>2
      OBVIOUS
    <3>1. req[q].base \in versions
      BY <1>0, <2>0
    <3>2. PICK n \in 0..MaxVersions :
            /\ versions = 1..n
            /\ \A v \in Version :
                 rows[v] = IF v <= n /\ v + KeepVersions > n THEN written[v] ELSE {}
      BY DEF IInv, RetentionWindow
    <3>3. Latest = n
      BY <3>2, MaxVersionDense DEF Latest
    <3>4. req[q].base \in Version /\ req[q].base <= n
      BY <3>1, <3>2, <1>0
    <3>5. CASE req[q].base + KeepVersions > n
      <4>1. rows[req[q].base] = written[req[q].base]
        BY <3>2, <3>4, <3>5
      <4> QED
        BY <3>1, <4>1
    <3>6. CASE ~(req[q].base + KeepVersions > n)
      BY <3>1, <3>3, <3>6, <1>t, KeepAssumption, BoundAssumption
    <3> QED
      BY <3>5, <3>6
  <2> HIDE DEF cand
  <2>3. req[q].op \in Writing
    BY <1>0, <2>0
  <2>4. r \in Request
    BY <1>0, <2>1 DEF Request, Phases
  <2>5. r.pc = "checks" /\ r.cand = cand /\ r.op = req[q].op /\ r.base = req[q].base
        /\ r.payload = req[q].payload
    BY <1>0 DEF Request
  <2>6. LocalRace(r) /\ (exists => SharedRace(r)) /\ ~Wrote(r)
    BY <2>2, <2>3, <2>5
  <2> HIDE DEF r, LocalRace, SharedRace, Wrote
  <2> QED
    BY <2>0, <2>4, <2>6, RaceProceed
<1>3. CASE EvalChecks(q)
  <2> DEFINE ok == {c \in enabled : req[q].cand \notin Fails[c]}
             r == [req[q] EXCEPT !.pc = "find", !.judged = enabled, !.passed = ok]
  <2>1. req[q].pc = "checks" /\ Proceed(q, Blocking \cap enabled \subseteq ok, r) /\ UNCHANGED db
    BY <1>3 DEF EvalChecks
  <2>2. ok \in SUBSET Checks /\ enabled \in SUBSET Checks
    BY DEF IInv, TypeOK
  <2>3. r \in Request
    BY <1>0, <2>2 DEF Request, Phases
  <2>4. /\ r.pc = "find" /\ r.judged = enabled /\ r.cand = req[q].cand /\ r.passed = ok
        /\ r.op = req[q].op /\ r.base = req[q].base /\ r.payload = req[q].payload
    BY <1>0 DEF Request
  <2>5. (Blocking \cap enabled \subseteq ok) => LocalRace(r)
    BY <1>0, <2>1, <2>4
  <2>6. (exists => SharedRace(r)) /\ ~Wrote(r)
    BY <1>0, <2>1, <2>4
  <2> HIDE DEF r, LocalRace, SharedRace, Wrote
  <2> QED
    BY <2>1, <2>3, <2>5, <2>6, RaceProceed
<1>4. CASE FindDataset(q)
  <2> DEFINE r == [req[q] EXCEPT !.pc = "max"]
  <2>1. r \in Request
    BY <1>0 DEF Request, Phases
  <2>2. LocalRace(r) /\ (exists => SharedRace(r)) /\ ~Wrote(r)
    BY <1>0, <1>4 DEF FindDataset, Request
  <2>3. Proceed(q, exists, r) /\ UNCHANGED db
    BY <1>4 DEF FindDataset
  <2> HIDE DEF r, LocalRace, SharedRace, Wrote
  <2> QED
    BY <2>1, <2>2, <2>3, RaceProceed
<1>5. CASE ReadMax(q)
  <2> DEFINE r == [req[q] EXCEPT !.seen = Latest, !.pc = "insert"]
  <2>1. r \in Request
    <3>1. Latest \in Nat
      BY <1>0, MaxVersionType, BoundAssumption DEF Latest
    <3> QED
      BY <1>0, <3>1 DEF Request, Phases
  <2>2. LocalRace(r) /\ (exists => SharedRace(r)) /\ ~Wrote(r)
    BY <1>0, <1>5 DEF ReadMax, Request
  <2>3. req' = [req EXCEPT ![q] = r] /\ UNCHANGED <<exists, versions, written>>
    BY <1>5 DEF ReadMax, IInv, TypeOK, db
  <2> HIDE DEF r, LocalRace, SharedRace, Wrote
  <2> QED
    BY <2>1, <2>2, <2>3, RaceLocal
<1>6. CASE RereadDataset(q)
  <2> DEFINE r == [req[q] EXCEPT !.seen = Latest, !.pc = "results"]
  <2>0. req[q].pc = "reread" /\ Proceed(q, exists, r) /\ UNCHANGED db
    BY <1>6 DEF RereadDataset
  <2>1. Latest \in Nat
    BY <1>0, MaxVersionType, BoundAssumption DEF Latest
  <2>2. r \in Request
    BY <1>0, <2>1 DEF Request, Phases
  \* The latest version by then is the request's own or a later one.
  <2>3. exists => req[q].mine <= Latest /\ Latest \in versions
    <3>1. exists => req[q].mine \in versions
      BY <1>0, <2>0
    <3> QED
      BY <1>0, <3>1, MaxVersionIsMax DEF Latest
  <2>4. /\ r.pc = "results" /\ r.mine = req[q].mine /\ r.seen = Latest /\ r.op = req[q].op
        /\ r.cand = req[q].cand /\ r.base = req[q].base /\ r.payload = req[q].payload
        /\ r.judged = req[q].judged /\ r.passed = req[q].passed
    BY <1>0 DEF Request
  <2>5. LocalRace(r)
    BY <1>0, <2>0, <2>4
  <2>6. exists => SharedRace(r)
    BY <1>0, <2>0, <2>3, <2>4
  <2>7. Wrote(req[q]) /\ r.mine = req[q].mine
    BY <2>0, <2>4
  <2> HIDE DEF r, LocalRace, SharedRace, Wrote
  <2> QED
    BY <2>0, <2>2, <2>5, <2>6, <2>7, RaceProceed
<1>7. CASE ReadDependents(q)
  <2> DEFINE r == [req[q] EXCEPT !.pc = "wipe"]
  <2>1. r \in Request
    BY <1>0 DEF Request, Phases
  <2>2. LocalRace(r) /\ (exists => SharedRace(r)) /\ ~Wrote(r)
    BY <1>0, <1>7 DEF ReadDependents, Request
  <2>3. Proceed(q, users = {}, r) /\ UNCHANGED db
    BY <1>7 DEF ReadDependents
  <2> HIDE DEF r, LocalRace, SharedRace, Wrote
  <2> QED
    BY <2>1, <2>2, <2>3, RaceProceed
<1> QED
  BY <1>1, <1>2, <1>3, <1>4, <1>5, <1>6, <1>7

\* The write transaction: the number is new, so no base and no version another
\* request wrote is touched, and the one this request gets is nobody else's.
LEMMA RaceInsert ==
    ASSUME IInv, RaceInv, NEW q \in Requests, InsertVersion(q)
    PROVE  RaceInv'
<1> DEFINE v == req[q].seen + 1
           r == [req[q] EXCEPT !.mine = v, !.pc = "reread"]
<1>0. /\ req[q] \in Request /\ LocalRace(req[q])
      /\ exists => SharedRace(req[q])
      /\ versions \in SUBSET Version /\ req[q].pc = "insert"
  BY DEF IInv, TypeOK, RaceInv, InsertVersion
<1>1. CASE v \in versions
  <2>1. req' = [req EXCEPT ![q] = Failed] /\ UNCHANGED <<exists, versions, written>>
    BY <1>1 DEF InsertVersion, Fail, db
  <2> QED
    BY <2>1, RaceLocal, IdleRace, IdleOK
<1>2. CASE v \notin versions
  <2>0. /\ versions' = versions \cup {v}
        /\ written' = [written EXCEPT ![v] = req[q].cand]
        /\ req' = [req EXCEPT ![q] = r]
        /\ exists' = exists
    BY <1>2 DEF InsertVersion, IInv, TypeOK
  <2>1. /\ r.pc = "reread" /\ r.mine = v /\ r.op = req[q].op /\ r.cand = req[q].cand
        /\ r.base = req[q].base /\ r.payload = req[q].payload
        /\ r.judged = req[q].judged /\ r.passed = req[q].passed
    BY <1>0 DEF Request
  <2> HIDE DEF r
  <2>2. \A p \in Requests : req'[p] = IF p = q THEN r ELSE req[p]
    BY <2>0 DEF IInv, TypeOK
  <2>3. LocalRace(r)
    BY <1>0, <2>1 DEF LocalRace, Committing
  <2>4. \A p \in Requests : LocalRace(req[p])'
    <3> SUFFICES ASSUME NEW p \in Requests PROVE LocalRace(req[p])'
      OBVIOUS
    <3>1. LocalRace(req'[p])
      BY <2>2, <2>3 DEF RaceInv
    <3> QED
      BY <3>1 DEF LocalRace
  <2>5. \A u \in versions : written'[u] = written[u]
    BY <1>0, <1>2, <2>0 DEF IInv, TypeOK
  <2>6. exists => /\ Latest' \in Nat /\ Latest \in Nat /\ Latest' >= Latest
                  /\ v \in Version /\ written'[v] = req[q].cand
    <3> SUFFICES ASSUME exists PROVE <2>6
      OBVIOUS
    <3>1. PICK n \in 0..MaxVersions : versions = 1..n /\ Latest = n
      BY MappedCount
    <3>2. IInv'
      BY InsertStep
    <3>3. PICK m \in 0..MaxVersions : versions' = 1..m /\ Latest' = m
      <4>1. PICK m \in 0..MaxVersions : versions' = 1..m
        BY <2>0, <3>2 DEF IInv, RetentionWindow
      <4> QED
        BY <4>1, MaxVersionDense DEF Latest
    <3>4. n <= m
      <4>1. n # 0 => n \in versions'
        BY <3>1, <2>0, BoundAssumption
      <4> QED
        BY <3>1, <3>3, <4>1, BoundAssumption
    <3>5. v \in Version
      BY <2>0, <3>2 DEF IInv, TypeOK
    <3>6. written'[v] = req[q].cand
      BY <2>0, <3>5 DEF IInv, TypeOK
    <3> QED
      BY <3>1, <3>3, <3>4, <3>5, <3>6, BoundAssumption
  <2>7. ASSUME exists, NEW p \in Requests PROVE SharedRace(req[p])'
    <3>1. SharedRace(req[p]) /\ req[p] \in Request
      BY <2>7 DEF RaceInv, IInv, TypeOK
    <3>2. req[p].base \in Nat
      BY <3>1 DEF Request
    <3>3. Latest >= req[p].base + KeepVersions => Latest' >= req[p].base + KeepVersions
      BY <2>6, <2>7, <3>2, KeepAssumption
    <3>4. CASE p = q
      <4>1. req'[p] = r
        BY <2>2, <3>4
      <4>2. req[p].pc \in Committing /\ r.pc \in Committing /\ (Based(r) <=> Based(req[p]))
        BY <1>0, <2>1, <3>4 DEF Committing, Based
      <4>3. Based(r) => /\ r.base \in versions'
                        /\ r.cand = written'[r.base] \cup r.payload
                             \/ Latest' >= r.base + KeepVersions
        BY <2>0, <2>1, <2>5, <3>1, <3>3, <3>4, <4>2 DEF SharedRace
      <4>4. r.mine \in versions' /\ written'[r.mine] = r.cand
        BY <2>0, <2>1, <2>6, <2>7
      <4> QED
        BY <2>1, <4>1, <4>3, <4>4 DEF SharedRace, Based
    <3>5. CASE p # q
      <4>1. req'[p] = req[p]
        BY <2>2, <3>5
      <4> QED
        BY <2>0, <2>5, <3>1, <3>3, <4>1 DEF SharedRace, Based, Wrote
    <3> QED
      BY <3>4, <3>5
  <2>8. exists => OwnNumber'
    <3> SUFFICES ASSUME exists, NEW p \in Requests, NEW s \in Requests, p # s,
                        Wrote(req[p])', Wrote(req[s])'
                 PROVE  req'[p].mine # req'[s].mine
      BY DEF OwnNumber
    <3>1. ASSUME NEW t \in Requests, t # q, Wrote(req[t])'
          PROVE  Wrote(req[t]) /\ req'[t].mine = req[t].mine /\ req[t].mine \in versions
      <4>1. req'[t] = req[t]
        BY <2>2, <3>1
      <4>2. Wrote(req[t])
        BY <3>1, <4>1 DEF Wrote
      <4> QED
        BY <4>1, <4>2 DEF RaceInv, SharedRace
    <3>2. req'[q].mine = v
      BY <2>1, <2>2
    <3>3. p # q /\ s # q => req'[p].mine # req'[s].mine
      BY <3>1 DEF RaceInv, OwnNumber
    <3> QED
      BY <1>2, <3>1, <3>2, <3>3
  <2> QED
    BY <2>0, <2>4, <2>7, <2>8 DEF RaceInv
<1> QED
  BY <1>1, <1>2

\* The answer keeps the record of what was written.
LEMMA RaceFinish ==
    ASSUME IInv, RaceInv, NEW q \in Requests, Finish(q),
           UNCHANGED <<exists, versions, written>>,
           \/ req[q].pc = "results"
           \/ req[q].pc = "link"
    PROVE  RaceInv'
<1> DEFINE r == [Idle EXCEPT !.pc = "done", !.op = req[q].op,
                             !.cand = req[q].cand, !.mine = req[q].mine]
<1>1. r \in Request /\ req' = [req EXCEPT ![q] = r]
  BY FinishOK DEF Finish, IInv
<1>2. r.pc = "done" /\ r.op = req[q].op /\ r.cand = req[q].cand /\ r.mine = req[q].mine
  BY DEF Idle
<1>3. LocalRace(req[q]) /\ (exists => SharedRace(req[q]))
  BY DEF RaceInv
<1> HIDE DEF r
<1>4. LocalRace(r)
  BY <1>2, <1>3 DEF LocalRace, Committing
<1>5. Wrote(r) => Wrote(req[q])
  BY <1>2, <1>3 DEF Wrote, LocalRace
<1>6. exists => SharedRace(r)
  BY <1>2, <1>3, <1>5 DEF SharedRace, Committing
<1> QED
  BY <1>1, <1>2, <1>4, <1>5, <1>6, RaceLocal

\* With the dataset gone there is nothing left to agree with.
LEMMA RaceDelete ==
    ASSUME IInv, RaceInv, NEW q \in Requests, DeleteDataset(q)
    PROVE  RaceInv'
<1>1. exists' = FALSE
  BY DEF DeleteDataset
<1>2. ASSUME NEW p \in Requests PROVE LocalRace(req[p])'
  <2>1. LocalRace(req[p])
    BY DEF RaceInv
  <2>2. CASE p = q
    <3>1. /\ req'[p].pc = "done" /\ req'[p].op = req[p].op /\ req'[p].mine = req[p].mine
          /\ req[p].pc = "wipe"
      BY <2>2 DEF DeleteDataset, Finish, Idle, IInv, TypeOK
    <3> QED
      BY <2>1, <3>1 DEF LocalRace, Committing
  <2>3. CASE p # q
    <3>1. req'[p] = req[p]
      BY <2>3 DEF DeleteDataset, Finish, IInv, TypeOK
    <3> QED
      BY <2>1, <3>1 DEF LocalRace
  <2> QED
    BY <2>2, <2>3
<1> QED
  BY <1>1, <1>2 DEF RaceInv

\* Steps that leave the versions alone and at most end requests in failure.
LEMMA RaceOther ==
    ASSUME IInv, RaceInv, UNCHANGED <<exists, versions, written>>,
           \A p \in Requests : req'[p] = req[p] \/ req'[p] = Failed
    PROVE  RaceInv'
<1>0. Latest' = Latest
  BY DEF Latest
<1>1. ASSUME NEW p \in Requests PROVE LocalRace(req[p])'
  <2>1. LocalRace(req'[p])
    BY IdleRace DEF RaceInv
  <2> QED
    BY <2>1 DEF LocalRace
<1>2. ASSUME exists, NEW p \in Requests PROVE SharedRace(req[p])'
  <2>1. SharedRace(req'[p])
    BY <1>2, IdleRace DEF RaceInv
  <2> QED
    BY <1>0, <2>1 DEF SharedRace, Based, Wrote
<1>3. ASSUME NEW p \in Requests, Wrote(req[p])' PROVE req'[p] = req[p] /\ Wrote(req[p])
  <2>1. Wrote(req'[p])
    BY <1>3 DEF Wrote
  <2> QED
    BY <2>1, IdleRace
<1>4. exists => OwnNumber'
  BY <1>3 DEF RaceInv, OwnNumber
<1> QED
  BY <1>1, <1>2, <1>4 DEF RaceInv

LEMMA RaceInit == Init => RaceInv
<1> SUFFICES ASSUME Init PROVE RaceInv
  OBVIOUS
<1>1. \A q \in Requests : req[q] = Idle
  BY DEF Init
<1> QED
  BY <1>1, IdleRace DEF RaceInv, OwnNumber

LEMMA RaceNext == IInv /\ RaceInv /\ [Next]_vars => RaceInv'
<1> SUFFICES ASSUME IInv, RaceInv, [Next]_vars PROVE RaceInv'
  OBVIOUS
<1>1. ASSUME NEW q \in Requests, Start(q) PROVE RaceInv'
  BY <1>1, RaceStart
<1>2. ASSUME NEW q \in Requests, Write(q) PROVE RaceInv'
  <2>1. RecordResults(q) => RaceInv'
    BY RaceFinish DEF RecordResults
  <2> QED
    BY <1>2, <2>1, RaceRead, RaceInsert DEF Write
<1>3. ASSUME NEW q \in Requests, Remove(q) PROVE RaceInv'
  BY <1>3, RaceRead, RaceDelete DEF Remove
<1>4. ASSUME NEW q \in Requests, Reference(q) PROVE RaceInv'
  <2>1. CASE InsertTransform(q)
    BY <2>1, RaceFinish DEF InsertTransform
  <2>2. CASE DeleteTransform(q)
    BY <2>2, RaceOther DEF DeleteTransform
  <2> QED
    BY <1>4, <2>1, <2>2 DEF Reference
<1>5. ASSUME NEW c \in Checks, Author(c) PROVE RaceInv'
  <2>1. UNCHANGED <<exists, versions, written, req>>
    BY <1>5 DEF Author, EnableCheck, DisableCheck, DeleteCheck
  <2> QED
    BY <2>1, RaceOther
<1>6. CASE Crash
  BY <1>6, RaceOther DEF Crash, db
<1>7. CASE UNCHANGED vars
  BY <1>7, RaceOther DEF vars
<1> QED
  BY <1>1, <1>2, <1>3, <1>4, <1>5, <1>6, <1>7 DEF Next

\* However many requests race for a dataset, each does what a request alone would:
\* what it answered is on record under its own number, an append or a rollback
\* starts from the whole of the version it read unless the retention emptied that,
\* and its verdicts are about what it wrote.
THEOREM EachStandsAlone == Spec => []RequestsStandAlone
<1>1. Spec => [](IInv /\ RaceInv)
  BY InitInv, NextInv, RaceInit, RaceNext, PTL DEF Spec
<1>2. IInv /\ RaceInv => RequestsStandAlone
  <2> SUFFICES ASSUME IInv, RaceInv, exists, NEW q \in Requests
               PROVE  /\ AcknowledgedIsRecorded!(q)
                      /\ BaseReadWhole!(q)
                      /\ VerdictsNotBackdated!(q)
    BY DEF RequestsStandAlone, AcknowledgedIsRecorded, BaseReadWhole, VerdictsNotBackdated
  <2>1. LocalRace(req[q]) /\ SharedRace(req[q])
    BY DEF RaceInv
  <2>2. \A v \in versions : v # 0
    BY BoundAssumption DEF IInv, TypeOK, Version
  <2>3. AcknowledgedIsRecorded!(q)
    <3> SUFFICES ASSUME req[q].pc \in {"results", "done"}, req[q].op \in Writing
                 PROVE  /\ req[q].mine \in versions /\ written[req[q].mine] = req[q].cand
                        /\ \A p \in Requests \ {q} :
                             req[p].pc \in {"results", "done"} => req[p].mine # req[q].mine
      OBVIOUS
    <3>1. Wrote(req[q])
      BY DEF Wrote
    <3>2. req[q].mine \in versions /\ written[req[q].mine] = req[q].cand
      BY <2>1, <3>1 DEF SharedRace
    <3>3. ASSUME NEW p \in Requests \ {q}, req[p].pc \in {"results", "done"}
          PROVE  req[p].mine # req[q].mine
      <4>1. CASE Wrote(req[p])
        BY <3>1, <4>1 DEF RaceInv, OwnNumber
      <4>2. CASE ~Wrote(req[p])
        <5>1. req[p].mine = 0
          BY <3>3, <4>2 DEF RaceInv, LocalRace, Wrote
        <5> QED
          BY <2>2, <3>2, <5>1
      <4> QED
        BY <4>1, <4>2
    <3> QED
      BY <3>2, <3>3
  <2>4. BaseReadWhole!(q)
    BY <2>1 DEF SharedRace, Based, Committing
  <2>5. VerdictsNotBackdated!(q)
    <3> SUFFICES ASSUME req[q].pc = "results"
                 PROVE  /\ req[q].passed = {c \in req[q].judged : written[req[q].mine] \notin Fails[c]}
                        /\ req[q].mine <= req[q].seen /\ req[q].seen \in versions
      OBVIOUS
    <3>1. written[req[q].mine] = req[q].cand
      BY <2>1 DEF SharedRace, Wrote
    <3>2. req[q].passed = {c \in req[q].judged : req[q].cand \notin Fails[c]}
      BY <2>1 DEF LocalRace, Committing
    <3> QED
      BY <2>1, <3>1, <3>2 DEF SharedRace
  <2> QED
    BY <2>3, <2>4, <2>5
<1> QED
  BY <1>1, <1>2, PTL

\* The gate of _eval_checks_or_raise holds at the insert: the only blocking check a
\* committed version fails is one that was enabled since the writer read the checks.
THEOREM GateHolds == Spec => GateUnlessEdited
<1>1. ASSUME RaceInv, NEW q \in Requests, NEW c \in Blocking \cap enabled,
             InsertVersion(q), req[q].cand \in Fails[c]
      PROVE  c \notin req[q].judged
  <2>1. LocalRace(req[q]) /\ req[q].pc = "insert"
    BY <1>1 DEF RaceInv, InsertVersion
  <2> QED
    BY <1>1, <2>1 DEF LocalRace, Committing
<1>2. RaceInv /\ [Next]_vars =>
        [\A q \in Requests, c \in Blocking \cap enabled :
           (InsertVersion(q) /\ versions' # versions /\ req[q].cand \in Fails[c])
              => c \notin req[q].judged]_vars
  BY <1>1
<1> QED
  BY <1>2, InitInv, NextInv, RaceInit, RaceNext, PTL DEF Spec, GateUnlessEdited
=============================================================================
