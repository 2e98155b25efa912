------------------------- MODULE FoundryBuilds_proofs -------------------------
(***************************************************************************)
(* Foundry's builds: of one transform, and of a whole graph.               *)
(*                                                                         *)
(* One transform, for any number of builds of it, uploads of its input and *)
(* edits, overlapping or interrupted: a build that reports success wrote   *)
(* exactly one version, "not stale" may be trusted for a build that wrote  *)
(* the latest output and for builds that follow one another, and the two   *)
(* tables every build replaces follow the live version.  The argument is   *)
(* bookkeeping along run_transform_build.  A build has no version before   *)
(* add_version and one after it (RowsInv); the number it records is read   *)
(* before the rows, so it is at most that of the rows, and that at most    *)
(* the input's latest (InputsInv).  Builds that do not overlap read ever   *)
(* later inputs (SerialInv), and while nothing goes wrong the build at     *)
(* work is the author of the live version, from its commit until its dead  *)
(* letters and its sync are in (CalmInv).                                  *)
(*                                                                         *)
(* The graph, for any datasets and transforms: would_cycle's rounds leave  *)
(* something exactly if there is a closed walk (CycleCheck: what outlasts  *)
(* as many rounds as there are datasets has a walk before it that meets    *)
(* itself, and a closed walk is never removed), and _topo_order orders     *)
(* every list whose graph has none (SortedUnlessCyclic: a pass that places *)
(* nothing leaves transforms that wait for one another).  DagInv adds what *)
(* an editor knows about its candidate, where a pipeline build stands in   *)
(* its list, and that what it has passed is fresh unless something         *)
(* interfered: PastIsUntouched is why a build does not undo an earlier one.*)
(***************************************************************************)
EXTENDS FoundryBuilds, FoundryDag, Lemmas

-----------------------------------------------------------------------------
(* One transform *)

Early == {"idle", "create", "resolve", "read", "write"}
Late == {"dead", "sync", "apply", "finish"}
Pc(b) == build[b].pc
Newest == out[Len(out)]

RowsInv ==
    \A b \in Builds :
        /\ Pc(b) \in Early => VersionsBy(b) = {}
        /\ Pc(b) \in Late \/ build[b].status = "succeeded" => VersionsBy(b) # {}
        /\ \A i, j \in VersionsBy(b) : i = j
        /\ build[b].seen \in 0..Len(out)

InputsInv ==
    /\ \A b \in Builds :
         (Pc(b) \in {"read", "write"} /\ inputThere) =>
            \E r \in 0..inVer :
               /\ build[b].recorded = {r}
               /\ Pc(b) = "write" => r <= build[b].from
    /\ \A b \in Builds : Pc(b) = "write" => build[b].from <= inVer
    /\ \A i \in 1..Len(out) :
         /\ out[i].from <= inVer
         /\ inputThere => \E r \in 0..out[i].from : build[out[i].by].recorded = {r}

SerialInv ==
    "overlap" \notin faults =>
       /\ \A b, c \in Builds : InFlight(b) /\ InFlight(c) => b = c
       /\ inputThere => \A i \in 1..Len(out) :
            /\ out[i].from <= Newest.from
            /\ \A b \in Builds : Pc(b) = "write" => out[i].from <= build[b].from

CalmInv ==
    faults = {} =>
       /\ \A b \in Builds : Pc(b) \in Late => out # <<>> /\ Newest.by = b
       /\ \A b \in Builds : Pc(b) = "apply" => build[b].seen = Len(out)
       /\ \/ \E b \in Builds : Pc(b) = "dead"
          \/ dead = NoBuild
          \/ out # <<>> /\ Newest.by = dead
       /\ (\E b \in Builds : Pc(b) \in {"dead", "sync", "apply"}) \/ synced = Len(out)

DeadInv == dead # NoBuild => VersionsBy(dead) # {}

IInv == TypeOK /\ RowsInv /\ InputsInv /\ SerialInv /\ CalmInv /\ DeadInv
-------------------------------------------------------------------------------
(* Steps of one build *)

\* What the parts of the invariant ask of a step that only gives the row of build b
\* and the locals of its call new values.
Follows(b, r) ==
    /\ r.pc \notin Over \cup {"idle", "create"} => r.status = "running"
    /\ r.pc \in Early => Pc(b) \in Early
    /\ r.pc \in Late \/ r.status = "succeeded" =>
          Pc(b) \in Late \/ build[b].status = "succeeded"
    /\ r.seen \in 0..Len(out)
    /\ (r.pc \in {"read", "write"} /\ inputThere) =>
          \E n \in 0..inVer : /\ r.recorded = {n}
                              /\ r.pc = "write" => n <= r.from
    /\ r.pc = "write" => r.from <= inVer
    /\ Pc(b) \notin Early => r.recorded = build[b].recorded
    /\ "overlap" \notin faults =>
          /\ r.pc \notin Over \cup {"idle"} => InFlight(b) \/ Quiet
          /\ (inputThere /\ r.pc = "write") => \A i \in 1..Len(out) : out[i].from <= r.from

\* A version has an author, and is one of the author's versions.
LEMMA VersionAuthor ==
    ASSUME IInv, NEW i \in 1..Len(out)
    PROVE  /\ out[i] \in [by : Builds, from : 0..MaxInput]
           /\ out[i].by \in Builds /\ i \in VersionsBy(out[i].by)
<1>1. out \in Seq([by : Builds, from : 0..MaxInput])
  BY DEF IInv, TypeOK
<1>2. out[i] \in [by : Builds, from : 0..MaxInput]
  BY <1>1, ElementOfSeq
<1>3. out[i].by \in Builds
  BY <1>2
<1> QED
  BY <1>2, <1>3 DEF VersionsBy

LEMMA BuildStep ==
    ASSUME IInv, NEW b \in Builds, NEW r \in Build, Follows(b, r),
           build' = [build EXCEPT ![b] = r],
           UNCHANGED <<faults, present, inputThere, inVer, out, now>>,
           dead' \in Builds \cup {NoBuild}, synced' \in 0..Len(out)
    PROVE  TypeOK' /\ RowsInv' /\ InputsInv' /\ SerialInv'
<1>0. \A c \in Builds : build'[c] = IF c = b THEN r ELSE build[c]
  BY DEF IInv, TypeOK
<1>1. \A c \in Builds : VersionsBy(c)' = VersionsBy(c)
  BY DEF VersionsBy
<1>2. TypeOK'
  <2>1. build' \in [Builds -> Build]
    BY DEF IInv, TypeOK
  <2>2. \A c \in Builds : (InFlight(c)' /\ build'[c].pc # "create") => build'[c].status = "running"
    BY <1>0 DEF Follows, InFlight, Over, IInv, TypeOK
  <2> QED
    BY <2>1, <2>2 DEF IInv, TypeOK
<1>3. RowsInv'
  BY <1>0, <1>1 DEF IInv, RowsInv, Follows, Pc
\* A build that has written has its input versions on record already.
<1>4. \A i \in 1..Len(out) : build'[out[i].by].recorded = build[out[i].by].recorded
  <2> SUFFICES ASSUME NEW i \in 1..Len(out)
               PROVE  build'[out[i].by].recorded = build[out[i].by].recorded
    OBVIOUS
  <2>1. out[i].by \in Builds /\ i \in VersionsBy(out[i].by)
    BY VersionAuthor
  <2>2. Pc(out[i].by) \notin Early
    BY <2>1 DEF IInv, RowsInv
  <2> QED
    BY <1>0, <2>1, <2>2 DEF Follows, Over
<1>5. InputsInv'
  <2>1. \A c \in Builds :
          (Pc(c)' \in {"read", "write"} /\ inputThere) =>
             \E n \in 0..inVer : /\ build'[c].recorded = {n}
                                 /\ Pc(c)' = "write" => n <= build'[c].from
    BY <1>0 DEF IInv, InputsInv, Follows, Pc
  <2>2. \A c \in Builds : Pc(c)' = "write" => build'[c].from <= inVer
    BY <1>0 DEF IInv, InputsInv, Follows, Pc
  <2>3. ASSUME NEW i \in 1..Len(out)
        PROVE  /\ out[i].from <= inVer
               /\ inputThere => \E n \in 0..out[i].from : build'[out[i].by].recorded = {n}
    BY <1>4 DEF IInv, InputsInv
  <2> QED
    BY <2>1, <2>2, <2>3 DEF InputsInv
<1>6. SerialInv'
  <2> SUFFICES ASSUME "overlap" \notin faults
               PROVE  /\ \A c, d \in Builds : InFlight(c)' /\ InFlight(d)' => c = d
                      /\ inputThere => \A i \in 1..Len(out) :
                           /\ out[i].from <= Newest.from
                           /\ \A c \in Builds : Pc(c)' = "write" => out[i].from <= build'[c].from
    BY DEF SerialInv, Newest
  <2>1. \A c \in Builds : InFlight(c)' => InFlight(c) \/ (c = b /\ Quiet)
    BY <1>0 DEF InFlight, Over, Follows
  <2>2. \A c, d \in Builds : InFlight(c)' /\ InFlight(d)' => c = d
    BY <2>1 DEF IInv, SerialInv, Quiet
  <2>3. \A c \in Builds : Pc(c)' = "write" /\ inputThere =>
           \A i \in 1..Len(out) : out[i].from <= build'[c].from
    BY <1>0 DEF IInv, SerialInv, Follows, Pc
  <2> QED
    BY <2>2, <2>3 DEF IInv, SerialInv
<1> QED
  BY <1>2, <1>3, <1>5, <1>6

\* A step that leaves the two replaced tables and the live version alone, and takes
\* the build neither into the part after its commit nor past a table.
LEMMA CalmStep ==
    ASSUME IInv, NEW b \in Builds, NEW r \in Build,
           build' = [build EXCEPT ![b] = r], UNCHANGED <<faults, out, dead, synced>>,
           r.pc \in Late => Pc(b) \in Late,
           r.pc = "apply" => r.seen = Len(out),
           faults = {} => /\ Pc(b) # "dead"
                          /\ Pc(b) \in {"sync", "apply"} => r.pc \in {"sync", "apply"}
    PROVE  CalmInv' /\ DeadInv'
<1>0. \A c \in Builds : build'[c] = IF c = b THEN r ELSE build[c]
  BY DEF IInv, TypeOK
<1>1. DeadInv'
  BY DEF IInv, DeadInv, VersionsBy
<1>2. faults = {} =>
         \A c \in Builds : /\ Pc(c)' \in Late => Pc(c) \in Late
                           /\ Pc(c) = "dead" => Pc(c)' = "dead"
                           /\ Pc(c) \in {"dead", "sync", "apply"}
                                => Pc(c)' \in {"dead", "sync", "apply"}
  BY <1>0 DEF Pc
<1>3. \A c \in Builds : (Pc(c)' = "apply" /\ faults = {}) => build'[c].seen = Len(out)
  BY <1>0 DEF Pc, IInv, CalmInv
<1> QED
  BY <1>1, <1>2, <1>3 DEF IInv, CalmInv, Newest

\* The fields of a row.
LEMMA BuildFields ==
    ASSUME IInv, NEW b \in Builds
    PROVE  /\ build[b] \in Build /\ build[b].recorded \in SUBSET (0..MaxInput)
           /\ build[b].from \in 0..MaxInput /\ build[b].seen \in 0..Len(out)
           /\ build[b].finished \in 0..MaxTime /\ build[b].bad \in BOOLEAN
           /\ inVer \in 0..MaxInput /\ MaxInput \in Nat /\ Len(out) \in Nat
           /\ dead \in Builds \cup {NoBuild} /\ synced \in 0..Len(out)
           /\ (InFlight(b) /\ Pc(b) # "create") => build[b].status = "running"
BY BoundAssumption DEF IInv, TypeOK, RowsInv, Build, Pc

LEMMA RunBefore ==
    ASSUME IInv, NEW b \in Builds,
           \/ GetTransform(b) \/ CreateBuild(b) \/ ResolveInputs(b) \/ ReadInput(b)
           \/ RejectVersion(b) \/ SyncRead(b) \/ FinishBuild(b)
           \/ StoreFails(b) \/ SyncFails(b)
    PROVE  IInv'
<1>0. /\ build[b] \in Build /\ build[b].recorded \in SUBSET (0..MaxInput)
      /\ build[b].from \in 0..MaxInput /\ build[b].seen \in 0..Len(out)
      /\ build[b].finished \in 0..MaxTime /\ build[b].bad \in BOOLEAN
      /\ inVer \in 0..MaxInput /\ MaxInput \in Nat /\ Len(out) \in Nat
      /\ dead \in Builds \cup {NoBuild} /\ synced \in 0..Len(out)
      /\ (InFlight(b) /\ Pc(b) # "create") => build[b].status = "running"
  BY BuildFields
<1>1. ASSUME NEW r \in Build, Follows(b, r), build' = [build EXCEPT ![b] = r],
             UNCHANGED <<faults, present, inputThere, inVer, out, dead, synced, now>>,
             r.pc \in Late => Pc(b) \in Late,
             r.pc = "apply" => r.seen = Len(out),
             faults = {} => /\ Pc(b) # "dead"
                            /\ Pc(b) \in {"sync", "apply"} => r.pc \in {"sync", "apply"}
      PROVE  IInv'
  <2>1. TypeOK' /\ RowsInv' /\ InputsInv' /\ SerialInv'
    BY <1>0, <1>1, BuildStep
  <2>2. CalmInv' /\ DeadInv'
    BY <1>1, CalmStep
  <2> QED
    BY <2>1, <2>2 DEF IInv
<1> USE DEF Pc, Early, Late
<1>2. ASSUME GetTransform(b) PROVE IInv'
  <2> DEFINE p == IF present THEN "create" ELSE "ended"
             r == [build[b] EXCEPT !.pc = p]
  <2>1. r \in Build /\ build' = [build EXCEPT ![b] = r] /\ build[b].pc = "idle"
    BY <1>0, <1>2 DEF GetTransform, Goto, Build, Phases, IInv, TypeOK
  <2>2. /\ r.pc \in {"create", "ended"} /\ r.status = build[b].status
        /\ r.recorded = build[b].recorded /\ r.seen = build[b].seen
    BY <1>0 DEF Build
  <2> HIDE DEF r
  <2>3. Follows(b, r)
    BY <1>0, <1>2, <2>1, <2>2 DEF GetTransform, Follows, Over
  <2> QED
    BY <1>1, <1>2, <2>1, <2>2, <2>3 DEF GetTransform
<1>3. ASSUME CreateBuild(b) PROVE IInv'
  <2> DEFINE r == [build[b] EXCEPT !.pc = "resolve", !.status = "running"]
  <2>1. r \in Build /\ build' = [build EXCEPT ![b] = r] /\ build[b].pc = "create"
    BY <1>0, <1>3 DEF CreateBuild, Build, Phases, IInv, TypeOK
  <2>2. /\ r.pc = "resolve" /\ r.status = "running"
        /\ r.recorded = build[b].recorded /\ r.seen = build[b].seen
    BY <1>0 DEF Build
  <2> HIDE DEF r
  <2>3. Follows(b, r)
    BY <1>0, <2>1, <2>2 DEF Follows, InFlight, Over
  <2> QED
    BY <1>1, <1>3, <2>1, <2>2, <2>3 DEF CreateBuild
<1>4. ASSUME ResolveInputs(b) PROVE IInv'
  <2> DEFINE r == [build[b] EXCEPT !.pc = "read", !.recorded = InputVersions]
  <2>0. InputVersions \in SUBSET (0..MaxInput) /\ (inputThere => InputVersions = {inVer})
    BY <1>0 DEF InputVersions
  <2>1. r \in Build /\ build' = [build EXCEPT ![b] = r] /\ build[b].pc = "resolve"
    BY <1>0, <1>4, <2>0 DEF ResolveInputs, Build, Phases, IInv, TypeOK
  <2>2. /\ r.pc = "read" /\ r.status = build[b].status
        /\ r.recorded = InputVersions /\ r.seen = build[b].seen
    BY <1>0 DEF Build
  <2> HIDE DEF r
  <2>3. Follows(b, r)
    BY <1>0, <2>0, <2>1, <2>2 DEF Follows, InFlight, Over
  <2> QED
    BY <1>1, <1>4, <2>1, <2>2, <2>3 DEF ResolveInputs
<1>5. ASSUME ReadInput(b) PROVE IInv'
  <2>0. PICK quarantined \in BOOLEAN, p \in {"write", "fail"} :
          build' = [build EXCEPT ![b].pc = p, ![b].bad = quarantined,
                                 ![b].from = IF inputThere THEN inVer ELSE 0]
    BY <1>5 DEF ReadInput
  <2> DEFINE from == IF inputThere THEN inVer ELSE 0
             r == [build[b] EXCEPT !.pc = p, !.bad = quarantined, !.from = from]
  <2>1. from \in 0..MaxInput /\ from <= inVer /\ (inputThere => from = inVer)
    BY <1>0
  <2>2. build' = [build EXCEPT ![b] = r] /\ build[b].pc = "read"
    BY <1>5, <2>0 DEF ReadInput, IInv, TypeOK
  <2> HIDE DEF from
  <2>3. /\ r \in Build
        /\ r.pc = p /\ r.status = build[b].status /\ r.from = from
        /\ r.recorded = build[b].recorded /\ r.seen = build[b].seen
    BY <1>0, <2>1 DEF Build, Phases
  <2> HIDE DEF r
  <2>4. inputThere => \E n \in 0..inVer : build[b].recorded = {n}
    BY <2>2 DEF IInv, InputsInv
  <2>5. \A i \in 1..Len(out) : inputThere => out[i].from <= from
    BY <2>1 DEF IInv, InputsInv
  <2>6. inputThere => \E n \in 0..inVer : r.recorded = {n} /\ n <= r.from
    <3> SUFFICES ASSUME inputThere PROVE \E n \in 0..inVer : r.recorded = {n} /\ n <= r.from
      OBVIOUS
    <3>1. PICK n \in 0..inVer : build[b].recorded = {n}
      BY <2>4
    <3>2. n <= r.from
      BY <1>0, <2>1, <2>3, <3>1
    <3> QED
      BY <2>3, <3>1, <3>2
  <2>7. Follows(b, r)
    BY <1>0, <2>1, <2>2, <2>3, <2>5, <2>6 DEF Follows, InFlight, Over
  <2> QED
    BY <1>1, <1>5, <2>2, <2>3, <2>7 DEF ReadInput
<1>6. ASSUME RejectVersion(b) PROVE IInv'
  <2> DEFINE r == [build[b] EXCEPT !.pc = "fail"]
  <2>1. r \in Build /\ build' = [build EXCEPT ![b] = r] /\ build[b].pc = "write"
    BY <1>0, <1>6 DEF RejectVersion, Goto, Build, Phases, IInv, TypeOK
  <2>2. /\ r.pc = "fail" /\ r.status = build[b].status
        /\ r.recorded = build[b].recorded /\ r.seen = build[b].seen
    BY <1>0 DEF Build
  <2> HIDE DEF r
  <2>3. Follows(b, r)
    BY <1>0, <2>1, <2>2 DEF Follows, InFlight, Over
  <2> QED
    BY <1>1, <1>6, <2>1, <2>2, <2>3 DEF RejectVersion
<1>7. ASSUME SyncRead(b) PROVE IInv'
  <2> DEFINE r == [build[b] EXCEPT !.pc = "apply", !.seen = Len(out)]
  <2>1. r \in Build /\ build' = [build EXCEPT ![b] = r] /\ build[b].pc = "sync"
    BY <1>0, <1>7 DEF SyncRead, Build, Phases, IInv, TypeOK
  <2>2. /\ r.pc = "apply" /\ r.status = build[b].status
        /\ r.recorded = build[b].recorded /\ r.seen = Len(out)
    BY <1>0 DEF Build
  <2> HIDE DEF r
  <2>3. Follows(b, r)
    BY <1>0, <2>1, <2>2 DEF Follows, InFlight, Over
  <2> QED
    BY <1>1, <1>7, <2>1, <2>2, <2>3 DEF SyncRead
<1>8. ASSUME FinishBuild(b) PROVE IInv'
  <2> DEFINE status == IF build[b].pc = "finish" THEN "succeeded" ELSE "failed"
             r == [build[b] EXCEPT !.pc = "ended", !.finished = now, !.status = status]
  <2>0. now \in 0..MaxTime /\ status \in {"succeeded", "failed"}
        /\ (status = "succeeded" => build[b].pc = "finish")
    BY DEF IInv, TypeOK
  <2>1. build' = [build EXCEPT ![b] = r] /\ build[b].pc \in {"finish", "fail"}
    BY <1>8 DEF FinishBuild, IInv, TypeOK
  <2> HIDE DEF status
  <2>2. /\ r \in Build /\ r.pc = "ended" /\ r.status = status
        /\ r.recorded = build[b].recorded /\ r.seen = build[b].seen
    BY <1>0, <2>0 DEF Build, Phases
  <2> HIDE DEF r
  <2>3. Follows(b, r)
    BY <1>0, <2>0, <2>1, <2>2 DEF Follows, Over
  <2> QED
    BY <1>1, <1>8, <2>1, <2>2, <2>3 DEF FinishBuild
\* A call that raises takes the build out of its try or on to its end.
<1>9. ASSUME StoreFails(b) \/ SyncFails(b) PROVE IInv'
  <2>1. PICK p \in {"aborted", "unfinished", "fail", "finish"} :
          /\ build' = [build EXCEPT ![b].pc = p]
          /\ p = "finish" => Pc(b) \in {"sync", "apply"}
          /\ p = "fail" => InFlight(b) /\ Pc(b) # "create"
    BY <1>9 DEF StoreFails, SyncFails, Goto, InFlight, Over
  <2> DEFINE r == [build[b] EXCEPT !.pc = p]
  <2>2. /\ r \in Build /\ r.pc = p /\ r.status = build[b].status
        /\ r.recorded = build[b].recorded /\ r.seen = build[b].seen
    BY <1>0 DEF Build, Phases
  <2>3. build' = [build EXCEPT ![b] = r]
    BY <2>1 DEF IInv, TypeOK
  <2> HIDE DEF r
  <2>4. /\ UNCHANGED <<faults, present, inputThere, inVer, out, dead, synced, now>>
        /\ faults # {}
    BY <1>9 DEF StoreFails, SyncFails
  <2>5. Follows(b, r)
    BY <1>0, <2>1, <2>2 DEF Follows, InFlight, Over
  <2> QED
    BY <1>1, <2>1, <2>2, <2>3, <2>4, <2>5
<1> QED
  BY <1>2, <1>3, <1>4, <1>5, <1>6, <1>7, <1>8, <1>9

\* The two steps that replace a table.
LEMMA RunTables ==
    ASSUME IInv, NEW b \in Builds, RecordDeadLetter(b) \/ SyncApply(b)
    PROVE  IInv'
<1>0. /\ build[b] \in Build /\ build[b].seen \in 0..Len(out)
      /\ dead \in Builds \cup {NoBuild} /\ synced \in 0..Len(out)
      /\ (InFlight(b) /\ Pc(b) # "create") => build[b].status = "running"
  BY BuildFields
<1> USE DEF Pc, Early, Late
<1>1. CASE RecordDeadLetter(b)
  <2> DEFINE r == [build[b] EXCEPT !.pc = "sync"]
  <2>1. /\ r \in Build /\ build' = [build EXCEPT ![b] = r] /\ build[b].pc = "dead"
        /\ UNCHANGED <<faults, present, inputThere, inVer, out, synced, now>>
        /\ dead' \in {b, NoBuild}
    BY <1>0, <1>1 DEF RecordDeadLetter, Goto, Build, Phases, IInv, TypeOK
  <2>2. /\ r.pc = "sync" /\ r.status = build[b].status
        /\ r.recorded = build[b].recorded /\ r.seen = build[b].seen
    BY <1>0 DEF Build
  <2> HIDE DEF r
  <2>3. Follows(b, r)
    BY <1>0, <2>1, <2>2 DEF Follows, InFlight, Over
  <2>4. TypeOK' /\ RowsInv' /\ InputsInv' /\ SerialInv'
    BY <1>0, <2>1, <2>3, BuildStep
  <2>5. \A c \in Builds : build'[c] = IF c = b THEN r ELSE build[c]
    BY <2>1 DEF IInv, TypeOK
  <2>6. DeadInv'
    <3>1. VersionsBy(b) # {}
      BY <2>1 DEF IInv, RowsInv
    <3>2. VersionsBy(b)' = VersionsBy(b)
      BY <2>1 DEF VersionsBy
    <3> QED
      BY <2>1, <3>1, <3>2 DEF DeadInv
  <2>7. CalmInv'
    <3> SUFFICES ASSUME faults = {} PROVE CalmInv'
      BY <2>1 DEF CalmInv
    <3>1. out # <<>> /\ Newest.by = b
      BY <2>1 DEF IInv, CalmInv
    <3>2. dead' = NoBuild \/ (out' # <<>> /\ Newest'.by = dead')
      BY <2>1, <3>1 DEF Newest
    <3>3. Pc(b)' = "sync"
      BY <2>2, <2>5
    <3>4. \A c \in Builds : build'[c].pc \in Late => out' # <<>> /\ Newest'.by = c
      BY <2>1, <2>5, <3>1 DEF IInv, CalmInv, Newest
    <3>5. \A c \in Builds : build'[c].pc = "apply" => build'[c].seen = Len(out')
      BY <2>1, <2>2, <2>5 DEF IInv, CalmInv
    <3> QED
      BY <3>2, <3>3, <3>4, <3>5 DEF CalmInv
  <2> QED
    BY <2>4, <2>6, <2>7 DEF IInv
<1>2. CASE SyncApply(b)
  <2> DEFINE r == [build[b] EXCEPT !.pc = "finish"]
  <2>1. /\ r \in Build /\ build' = [build EXCEPT ![b] = r] /\ build[b].pc = "apply"
        /\ UNCHANGED <<faults, present, inputThere, inVer, out, dead, now>>
        /\ synced' = build[b].seen
    BY <1>0, <1>2 DEF SyncApply, Goto, Build, Phases, IInv, TypeOK
  <2>2. /\ r.pc = "finish" /\ r.status = build[b].status
        /\ r.recorded = build[b].recorded /\ r.seen = build[b].seen
    BY <1>0 DEF Build
  <2> HIDE DEF r
  <2>3. Follows(b, r)
    BY <1>0, <2>1, <2>2 DEF Follows, InFlight, Over
  <2>4. TypeOK' /\ RowsInv' /\ InputsInv' /\ SerialInv'
    BY <1>0, <2>1, <2>3, BuildStep
  <2>5. \A c \in Builds : build'[c] = IF c = b THEN r ELSE build[c]
    BY <2>1 DEF IInv, TypeOK
  <2>6. DeadInv'
    BY <2>1 DEF IInv, DeadInv, VersionsBy
  <2>7. CalmInv'
    <3> SUFFICES ASSUME faults = {} PROVE CalmInv'
      BY <2>1 DEF CalmInv
    <3>1. synced' = Len(out')
      BY <2>1 DEF IInv, CalmInv
    <3>2. \A c \in Builds : build'[c].pc \in Late => out' # <<>> /\ Newest'.by = c
      BY <2>1, <2>5 DEF IInv, CalmInv, Newest
    <3>3. \A c \in Builds : build'[c].pc = "apply" => build'[c].seen = Len(out')
      BY <2>1, <2>2, <2>5 DEF IInv, CalmInv
    <3>4. \/ \E c \in Builds : build'[c].pc = "dead"
          \/ dead' = NoBuild
          \/ out' # <<>> /\ Newest'.by = dead'
      BY <2>1, <2>5 DEF IInv, CalmInv, Newest
    <3> QED
      BY <3>1, <3>2, <3>3, <3>4 DEF CalmInv
  <2> QED
    BY <2>4, <2>6, <2>7 DEF IInv
<1> QED
  BY <1>1, <1>2

\* The commit: the version is the build's first, and the latest.
LEMMA RunCommit ==
    ASSUME IInv, NEW b \in Builds, AddVersion(b)
    PROVE  IInv'
<1> DEFINE rec == [by |-> b, from |-> build[b].from]
           n == Len(out)
<1>0. /\ build[b] \in Build /\ build[b].from \in 0..MaxInput
      /\ build[b].status = "running" /\ build[b].pc = "write"
      /\ n \in Nat /\ out \in Seq([by : Builds, from : 0..MaxInput])
  <2>1. build[b].pc = "write"
    BY DEF AddVersion
  <2>2. InFlight(b) /\ Pc(b) # "create"
    BY <2>1 DEF InFlight, Over, Pc
  <2> QED
    BY <2>1, <2>2, BuildFields DEF IInv, TypeOK
<1>1. PICK p \in {"dead", "fail"} :
        /\ build' = [build EXCEPT ![b].pc = p]
        /\ p = "fail" => "store" \in faults
        /\ out' = Append(out, rec)
        /\ UNCHANGED <<faults, present, inputThere, inVer, dead, synced, now>>
  BY DEF AddVersion, Goto
<1> DEFINE r == [build[b] EXCEPT !.pc = p]
<1>2. /\ r \in Build /\ r.pc = p /\ r.status = "running" /\ r.recorded = build[b].recorded
      /\ r.seen = build[b].seen /\ r.from = build[b].from
  BY <1>0 DEF Build, Phases
<1>3. \A c \in Builds : build'[c] = IF c = b THEN r ELSE build[c]
  BY <1>1 DEF IInv, TypeOK
<1>4. build' \in [Builds -> Build]
  <2>1. build' = [build EXCEPT ![b] = r]
    BY <1>1 DEF IInv, TypeOK
  <2> HIDE DEF r
  <2> QED
    BY <1>2, <2>1 DEF IInv, TypeOK
<1> HIDE DEF r
<1>5. /\ out' \in Seq([by : Builds, from : 0..MaxInput]) /\ Len(out') = n + 1
      /\ \A i \in 1..n : out'[i] = out[i]
      /\ out'[n + 1] = rec
  <2> DEFINE S == [by : Builds, from : 0..MaxInput]
  <2>1. out \in Seq(S) /\ rec \in S
    BY <1>0
  <2> HIDE DEF S, rec
  <2>2. Append(out, rec) \in Seq(S) /\ Len(Append(out, rec)) = n + 1
        /\ (\A i \in 1..n : Append(out, rec)[i] = out[i]) /\ Append(out, rec)[n + 1] = rec
    BY <2>1, AppendProperties
  <2> QED
    BY <1>1, <2>2 DEF S
<1>6. \A i \in 1..n + 1 : i \in 1..n \/ i = n + 1
  BY <1>0
<1>7. VersionsBy(b) = {} /\ VersionsBy(b)' = {n + 1}
  <2>1. VersionsBy(b) = {}
    BY <1>0 DEF IInv, RowsInv, Early, Pc
  <2>2. \A i \in 1..n : out'[i].by # b
    BY <1>5, <2>1 DEF VersionsBy
  <2>3. out'[n + 1].by = b /\ n + 1 \in 1..n + 1
    BY <1>0, <1>5
  <2> QED
    BY <1>5, <1>6, <2>1, <2>2, <2>3 DEF VersionsBy
<1>8. ASSUME NEW c \in Builds, c # b PROVE VersionsBy(c)' = VersionsBy(c)
  <2>1. out'[n + 1].by # c
    BY <1>5, <1>8
  <2>2. \A i \in 1..n : i \in 1..n + 1
    BY <1>0
  <2> QED
    BY <1>5, <1>6, <2>1, <2>2 DEF VersionsBy
<1>9. \A c \in Builds : build[c].seen \in 0..n + 1
  BY <1>0 DEF IInv, RowsInv
<1>10. TypeOK'
  <2>1. synced' \in 0..Len(out')
    BY <1>0, <1>1, <1>5 DEF IInv, TypeOK
  <2>2. \A c \in Builds : (InFlight(c)' /\ build'[c].pc # "create") => build'[c].status = "running"
    BY <1>2, <1>3 DEF InFlight, Over, IInv, TypeOK
  <2> QED
    BY <1>1, <1>4, <1>5, <2>1, <2>2 DEF IInv, TypeOK
<1>11. RowsInv'
  <2> SUFFICES ASSUME NEW c \in Builds
               PROVE  /\ build'[c].pc \in Early => VersionsBy(c)' = {}
                      /\ build'[c].pc \in Late \/ build'[c].status = "succeeded"
                           => VersionsBy(c)' # {}
                      /\ \A i, j \in VersionsBy(c)' : i = j
                      /\ build'[c].seen \in 0..Len(out')
    BY DEF RowsInv, Pc
  <2>1. CASE c = b
    BY <1>2, <1>3, <1>5, <1>7, <1>9, <2>1 DEF Early
  <2>2. CASE c # b
    BY <1>3, <1>5, <1>8, <1>9, <2>2 DEF IInv, RowsInv, Pc
  <2> QED
    BY <2>1, <2>2
<1>12. ASSUME NEW i \in 1..n PROVE out[i].by \in Builds \ {b} /\ out[i].from \in 0..MaxInput
  <2>1. out[i].by \in Builds /\ i \in VersionsBy(out[i].by)
        /\ out[i] \in [by : Builds, from : 0..MaxInput]
    BY <1>12, VersionAuthor
  <2> QED
    BY <1>7, <2>1
<1>13. build[b].from <= inVer
  BY <1>0 DEF IInv, InputsInv, Pc
<1>14. InputsInv'
  <2>1. \A c \in Builds : (build'[c].pc \in {"read", "write"} /\ inputThere) =>
           \E m \in 0..inVer : /\ build'[c].recorded = {m}
                               /\ build'[c].pc = "write" => m <= build'[c].from
    BY <1>2, <1>3 DEF IInv, InputsInv, Pc
  <2>2. \A c \in Builds : build'[c].pc = "write" => build'[c].from <= inVer
    BY <1>2, <1>3 DEF IInv, InputsInv, Pc
  <2>3. ASSUME NEW i \in 1..n + 1
        PROVE  /\ out'[i].from <= inVer
               /\ inputThere => \E m \in 0..out'[i].from : build'[out'[i].by].recorded = {m}
    <3>1. CASE i \in 1..n
      <4>1. out'[i] = out[i] /\ out[i].by # b /\ out[i].by \in Builds
        BY <1>5, <1>12, <3>1
      <4>2. build'[out[i].by] = build[out[i].by]
        BY <1>3, <4>1
      <4> QED
        BY <3>1, <4>1, <4>2 DEF IInv, InputsInv
    <3>2. CASE i = n + 1
      <4>1. out'[i].by = b /\ out'[i].from = build[b].from
        BY <1>5, <3>2
      <4>2. inputThere => \E m \in 0..inVer : build[b].recorded = {m} /\ m <= build[b].from
        BY <1>0 DEF IInv, InputsInv, Pc
      <4>3. inputThere => \E m \in 0..build[b].from : build[b].recorded = {m}
        BY <1>0, <4>2
      <4> QED
        BY <1>2, <1>3, <1>13, <4>1, <4>3
    <3> QED
      BY <1>6, <3>1, <3>2
  <2> QED
    BY <1>1, <1>5, <2>1, <2>2, <2>3 DEF InputsInv, Pc
<1>15. Newest' = rec
  BY <1>5 DEF Newest
<1>16. SerialInv'
  <2> SUFFICES ASSUME "overlap" \notin faults PROVE SerialInv'
    BY <1>1 DEF SerialInv
  <2>1. \A c \in Builds : InFlight(c)' => InFlight(c)
    BY <1>0, <1>3 DEF InFlight, Over
  <2>2. \A c, d \in Builds : InFlight(c)' /\ InFlight(d)' => c = d
    BY <2>1 DEF IInv, SerialInv
  <2>3. \A c \in Builds : build'[c].pc # "write"
    <3>1. \A c \in Builds \ {b} : build[c].pc # "write"
      BY <1>0 DEF IInv, SerialInv, InFlight, Over
    <3> QED
      BY <1>2, <1>3, <3>1
  <2>4. inputThere => \A i \in 1..n : out[i].from <= build[b].from
    BY <1>0 DEF IInv, SerialInv, Pc
  <2>5. inputThere => \A i \in 1..n + 1 : out'[i].from <= build[b].from
    BY <1>0, <1>5, <1>6, <2>4
  <2> QED
    BY <1>1, <1>5, <1>15, <2>2, <2>3, <2>5 DEF SerialInv, Pc
<1>17. CalmInv'
  <2> SUFFICES ASSUME faults = {} PROVE CalmInv'
    BY <1>1 DEF CalmInv
  <2>1. p = "dead"
    BY <1>1
  <2>2. \A c \in Builds \ {b} : ~InFlight(c)
    BY <1>0 DEF IInv, SerialInv, InFlight, Over
  <2>3. \A c \in Builds : build'[c].pc \in Late => c = b
    BY <1>3, <2>2 DEF InFlight, Over, Late
  <2>4. out' # <<>>
    BY <1>0, <1>5
  <2>5. build'[b].pc = "dead"
    BY <1>2, <1>3, <2>1
  <2> QED
    BY <1>15, <2>3, <2>4, <2>5 DEF CalmInv, Pc, Late
<1>18. DeadInv'
  <2> SUFFICES ASSUME dead # NoBuild PROVE VersionsBy(dead)' # {}
    BY <1>1 DEF DeadInv
  <2>1. dead \in Builds /\ VersionsBy(dead) # {}
    BY DEF IInv, TypeOK, DeadInv
  <2>2. dead' = dead /\ dead # b
    BY <1>1, <1>7, <2>1
  <2>3. PICK i \in 1..n : out[i].by = dead
    BY <2>1 DEF VersionsBy
  <2>4. i \in 1..Len(out') /\ out'[i].by = dead'
    BY <1>0, <1>5, <2>2, <2>3
  <2> QED
    BY <2>4 DEF VersionsBy
<1> QED
  BY <1>10, <1>11, <1>14, <1>16, <1>17, <1>18 DEF IInv
-------------------------------------------------------------------------------
(* Steps around the builds *)

\* An upload, an edit of the transform, the deletion of its input, the clock.
LEMMA AroundStep ==
    ASSUME IInv, UNCHANGED <<faults, out, dead, synced, build>>,
           present' \in BOOLEAN, inputThere' \in BOOLEAN, inputThere' => inputThere,
           inVer' \in 1..MaxInput, inVer <= inVer', now' \in 0..MaxTime
    PROVE  IInv'
<1>0. inVer \in Nat /\ inVer' \in Nat /\ \A c \in Builds : build[c].from \in Nat
  BY BoundAssumption DEF IInv, TypeOK, Build
<1>1. \A i \in 1..Len(out) : out[i].from \in Nat
  <2> SUFFICES ASSUME NEW i \in 1..Len(out) PROVE out[i].from \in Nat
    OBVIOUS
  <2>1. out[i] \in [by : Builds, from : 0..MaxInput]
    BY VersionAuthor
  <2> QED
    BY <2>1, BoundAssumption
<1>2. TypeOK'
  <2>1. \A c \in Builds : InFlight(c)' => InFlight(c)
    BY DEF InFlight, Over
  <2> QED
    BY <2>1 DEF IInv, TypeOK
<1>3. RowsInv'
  BY DEF IInv, RowsInv, VersionsBy, Pc
<1>4. InputsInv'
  <2>1. \A c \in Builds : (build[c].pc \in {"read", "write"} /\ inputThere') =>
           \E m \in 0..inVer' : /\ build[c].recorded = {m}
                                /\ build[c].pc = "write" => m <= build[c].from
    <3>1. \A m \in 0..inVer : m \in 0..inVer'
      BY <1>0
    <3> QED
      BY <3>1 DEF IInv, InputsInv, Pc
  <2>2. \A c \in Builds : build[c].pc = "write" => build[c].from <= inVer'
    BY <1>0 DEF IInv, InputsInv, Pc
  <2>3. ASSUME NEW i \in 1..Len(out)
        PROVE  /\ out[i].from <= inVer'
               /\ inputThere' => \E m \in 0..out[i].from : build[out[i].by].recorded = {m}
    <3>1. out[i].from <= inVer /\ out[i].from \in Nat
      BY <1>1 DEF IInv, InputsInv
    <3>2. inputThere => \E m \in 0..out[i].from : build[out[i].by].recorded = {m}
      BY DEF IInv, InputsInv
    <3> QED
      BY <1>0, <3>1, <3>2
  <2> QED
    BY <2>1, <2>2, <2>3 DEF InputsInv, Pc
<1>5. SerialInv'
  BY DEF IInv, SerialInv, InFlight, Over, Newest, Pc
<1>6. CalmInv'
  BY DEF IInv, CalmInv, Newest, Pc
<1>7. DeadInv'
  BY DEF IInv, DeadInv, VersionsBy
<1> QED
  BY <1>2, <1>3, <1>4, <1>5, <1>6, <1>7 DEF IInv

LEMMA CrashStep == ASSUME IInv, Crash PROVE IInv'
<1>0. /\ UNCHANGED <<faults, present, inputThere, inVer, out, dead, synced, now>>
      /\ "crash" \in faults
      /\ build' = [b \in Builds |-> IF InFlight(b) THEN [build[b] EXCEPT !.pc = "lost"]
                                    ELSE build[b]]
  BY DEF Crash
<1>1. ASSUME NEW c \in Builds
      PROVE  /\ build'[c] \in Build /\ ~InFlight(c)'
             /\ build'[c].pc \in Over \cup {"idle"}
             /\ build'[c].pc = "idle" => build[c].pc = "idle"
             /\ build'[c].recorded = build[c].recorded /\ build'[c].seen = build[c].seen
             /\ build'[c].status = build[c].status
  <2>0. build[c] \in Build
    BY DEF IInv, TypeOK
  <2> DEFINE r == [build[c] EXCEPT !.pc = "lost"]
  <2>1. /\ r \in Build /\ r.pc = "lost" /\ r.recorded = build[c].recorded
        /\ r.seen = build[c].seen /\ r.status = build[c].status
    BY <2>0 DEF Build, Phases
  <2>2. build'[c] = IF InFlight(c) THEN r ELSE build[c]
    BY <1>0
  <2> HIDE DEF r
  <2>3. ~InFlight(c) => build[c].pc \in Over \cup {"idle"}
    BY DEF InFlight, Over
  <2>4. /\ build'[c].pc \in Over \cup {"idle"}
        /\ build'[c].pc = "idle" => build[c].pc = "idle"
    BY <2>1, <2>2, <2>3 DEF Over
  <2>5. ~InFlight(c)'
    BY <2>4 DEF InFlight, Over
  <2> QED
    BY <2>0, <2>1, <2>2, <2>4, <2>5
<1>2. TypeOK'
  <2>1. build' \in [Builds -> Build]
    BY <1>0, <1>1
  <2> QED
    BY <1>0, <1>1, <2>1 DEF IInv, TypeOK
<1>3. RowsInv'
  <2> SUFFICES ASSUME NEW c \in Builds
               PROVE  /\ build'[c].pc \in Early => VersionsBy(c) = {}
                      /\ build'[c].pc \in Late \/ build'[c].status = "succeeded"
                           => VersionsBy(c) # {}
                      /\ \A i, j \in VersionsBy(c) : i = j
                      /\ build'[c].seen \in 0..Len(out)
    BY <1>0 DEF RowsInv, Pc, VersionsBy
  <2> QED
    BY <1>1 DEF IInv, RowsInv, Early, Late, Over, Pc
<1>4. InputsInv'
  <2>1. \A c \in Builds : Pc(c)' \notin {"read", "write"}
    BY <1>1 DEF Pc, Over
  <2>2. ASSUME NEW i \in 1..Len(out)
        PROVE  /\ out[i].from <= inVer
               /\ inputThere => \E m \in 0..out[i].from : build'[out[i].by].recorded = {m}
    <3>1. out[i].by \in Builds
      BY VersionAuthor
    <3> QED
      BY <1>1, <3>1 DEF IInv, InputsInv
  <2> QED
    BY <1>0, <2>1, <2>2 DEF InputsInv
<1>5. SerialInv'
  <2>1. \A c \in Builds : ~InFlight(c)' /\ Pc(c)' # "write"
    BY <1>1 DEF Pc, Over
  <2> QED
    BY <1>0, <2>1 DEF IInv, SerialInv, Newest
<1>6. CalmInv'
  BY <1>0 DEF CalmInv
<1>7. DeadInv'
  BY <1>0 DEF IInv, DeadInv, VersionsBy
<1> QED
  BY <1>2, <1>3, <1>4, <1>5, <1>6, <1>7 DEF IInv
-------------------------------------------------------------------------------
LEMMA InitInv == Init => IInv
<1> SUFFICES ASSUME Init PROVE IInv
  OBVIOUS
<1> USE DEF Init
<1>0. MaxInput \in Nat /\ 1 \in 1..MaxInput /\ MaxTime \in Nat /\ Len(out) = 0
  BY BoundAssumption
<1>1. /\ NoBuildYet \in Build
      /\ NoBuildYet.pc = "idle" /\ NoBuildYet.status = "none" /\ NoBuildYet.seen = 0
  BY <1>0 DEF NoBuildYet, Build, Phases
<1>2. \A c \in Builds : build[c] = NoBuildYet /\ VersionsBy(c) = {}
  BY DEF VersionsBy
<1>3. TypeOK
  <2>1. out \in Seq([by : Builds, from : 0..MaxInput])
    OBVIOUS
  <2> QED
    BY <1>0, <1>1, <2>1 DEF TypeOK, InFlight, Over
<1>4. RowsInv
  BY <1>0, <1>1, <1>2 DEF RowsInv, Early, Late, Pc
<1>5. InputsInv
  BY <1>1, <1>2 DEF InputsInv, Pc
<1>6. SerialInv
  BY <1>1, <1>2 DEF SerialInv, InFlight, Over, Pc
<1>7. CalmInv
  BY <1>0, <1>1, <1>2 DEF CalmInv, Late, Pc
<1>8. DeadInv
  BY DEF DeadInv
<1> QED
  BY <1>3, <1>4, <1>5, <1>6, <1>7, <1>8 DEF IInv

LEMMA NextInv == IInv /\ [Next]_vars => IInv'
<1> SUFFICES ASSUME IInv, [Next]_vars PROVE IInv'
  OBVIOUS
<1>0. /\ present \in BOOLEAN /\ inputThere \in BOOLEAN /\ inVer \in 1..MaxInput
      /\ now \in 0..MaxTime /\ MaxInput \in Nat /\ MaxTime \in Nat
  BY BoundAssumption DEF IInv, TypeOK
<1>1. ASSUME NEW b \in Builds, Run(b) \/ StoreFails(b) \/ SyncFails(b) PROVE IInv'
  BY <1>1, RunBefore, RunTables, RunCommit DEF Run
<1>2. CASE UploadInput
  BY <1>0, <1>2, AroundStep DEF UploadInput
<1>3. CASE DeleteTransform
  <2>1. /\ UNCHANGED <<faults, inputThere, inVer, out, dead, synced, now, build>>
        /\ present' = FALSE /\ inVer <= inVer
    BY <1>0, <1>3 DEF DeleteTransform
  <2> QED
    BY <1>0, <2>1, AroundStep
<1>4. CASE DeleteInput
  <2>1. /\ UNCHANGED <<faults, present, inVer, out, dead, synced, now, build>>
        /\ inputThere' = FALSE /\ inVer <= inVer
    BY <1>0, <1>4 DEF DeleteInput
  <2> QED
    BY <1>0, <2>1, AroundStep
<1>5. CASE Tick
  BY <1>0, <1>5, AroundStep DEF Tick
<1>6. CASE Crash
  BY <1>6, CrashStep
<1>7. CASE UNCHANGED vars
  BY <1>0, <1>7, AroundStep DEF vars
<1> QED
  BY <1>1, <1>2, <1>3, <1>4, <1>5, <1>6, <1>7 DEF Next

LEMMA Invariant == Spec => []IInv
BY InitInv, NextInv, PTL DEF Spec

\* A build the API reports as succeeded wrote exactly one version of the output, and
\* none ever writes two, whatever runs beside it or cuts it short.
THEOREM SucceededOnce == Spec => []SucceededWroteOnce
<1>1. IInv => SucceededWroteOnce
  <2> SUFFICES ASSUME IInv, NEW b \in Builds
               PROVE  /\ build[b].status = "succeeded" => Cardinality(VersionsBy(b)) = 1
                      /\ Cardinality(VersionsBy(b)) <= 1
    BY DEF SucceededWroteOnce, IInv
  <2>1. CASE VersionsBy(b) = {}
    BY <2>1, FS_EmptySet DEF IInv, RowsInv
  <2>2. CASE VersionsBy(b) # {}
    <3>1. PICK i \in VersionsBy(b) : VersionsBy(b) = {i}
      BY <2>2 DEF IInv, RowsInv
    <3>2. Cardinality(VersionsBy(b)) = 1
      BY <3>1, FS_Singleton
    <3> QED
      BY <3>2
  <2> QED
    BY <2>1, <2>2
<1> QED
  BY <1>1, Invariant, PTL

\* transform_is_stale may be trusted when it says "not stale" of a build that wrote
\* the latest output, and of builds that follow one another, even if the process
\* stops in one of them or the store fails under it.
THEOREM NotStaleTrusted == Spec => []NotStaleIsTrusted
<1>1. ASSUME IInv, inputThere, NEW b \in Builds, ~StaleSince(b), NEW i \in VersionsBy(b)
      PROVE  i \in 1..Len(out) /\ out[i].from = inVer
  <2>1. i \in 1..Len(out) /\ out[i].by = b
    BY DEF VersionsBy
  <2>2. PICK m \in 0..out[i].from : build[b].recorded = {m}
    BY <1>1, <2>1 DEF IInv, InputsInv
  <2>3. m = inVer
    BY <1>1, <2>2 DEF StaleSince, InputVersions
  <2>4. out[i].from <= inVer /\ out[i] \in [by : Builds, from : 0..MaxInput]
    BY <1>1, <2>1, VersionAuthor DEF IInv, InputsInv
  <2>5. out[i].from \in Nat /\ inVer \in Nat
    BY <1>1, <2>4, BoundAssumption DEF IInv, TypeOK
  <2> QED
    BY <2>1, <2>2, <2>3, <2>4, <2>5
<1>2. IInv => NotStaleIfOwnVersion
  <2> SUFFICES ASSUME IInv, NEW b \in LastSuccessful, inputThere, ~StaleSince(b),
                      out # <<>>, out[Len(out)].by = b
               PROVE  out[Len(out)].from = inVer
    BY DEF NotStaleIfOwnVersion
  <2>1. Len(out) \in 1..Len(out)
    BY DEF IInv, TypeOK
  <2>2. b \in Builds /\ Len(out) \in VersionsBy(b)
    BY <2>1 DEF LastSuccessful, VersionsBy
  <2> QED
    BY <1>1, <2>2
\* The live version of builds in a row was read from an input no older than that
\* of the one that succeeded.
<1>3. IInv => SerialBuildsFresh
  <2> SUFFICES ASSUME IInv, "overlap" \notin faults, NEW b \in LastSuccessful,
                      inputThere, ~StaleSince(b)
               PROVE  out # <<>> /\ out[Len(out)].from = inVer
    BY DEF SerialBuildsFresh, NotStaleMeansFresh
  <2>1. b \in Builds /\ build[b].status = "succeeded"
    BY DEF LastSuccessful
  <2>2. PICK i \in VersionsBy(b) : TRUE
    BY <2>1 DEF IInv, RowsInv
  <2>3. i \in 1..Len(out) /\ out[i].from = inVer
    BY <1>1, <2>1, <2>2
  <2>4. out # <<>> /\ Len(out) \in 1..Len(out)
    BY <2>3 DEF IInv, TypeOK
  <2>5. out[i].from <= Newest.from
    BY <2>3 DEF IInv, SerialInv
  <2>6. Newest.from <= inVer /\ Newest.from \in Nat /\ inVer \in Nat
    <3>1. out[Len(out)] \in [by : Builds, from : 0..MaxInput]
      BY <2>4, VersionAuthor
    <3>2. out[Len(out)].from <= inVer
      BY <2>4 DEF IInv, InputsInv
    <3> QED
      BY <3>1, <3>2, BoundAssumption DEF Newest, IInv, TypeOK
  <2> QED
    BY <2>3, <2>4, <2>5, <2>6 DEF Newest
<1> QED
  BY <1>2, <1>3, Invariant, PTL DEF NotStaleIsTrusted

\* What record_dead_letter and sync_binding replace follows the live version: after
\* builds in a row with nothing going wrong both are of it, and the quarantined rows
\* are always those of a build that wrote a version.
THEOREM TablesFollow == Spec => []ReplacedTablesFollow
<1>1. IInv => ReplacedTablesFollow
  <2> SUFFICES ASSUME IInv PROVE DeadLetters /\ SerialSynced
    BY DEF ReplacedTablesFollow
  <2>1. Quiet => \A b \in Builds : Pc(b) \notin {"dead", "sync", "apply"}
    BY DEF Quiet, InFlight, Over, Pc
  <2>2. DeadLetters
    BY <2>1 DEF DeadLetters, IInv, DeadInv, CalmInv, Newest
  <2>3. SerialSynced
    BY <2>1 DEF SerialSynced, IInv, CalmInv
  <2> QED
    BY <2>2, <2>3
<1> QED
  BY <1>1, Invariant, PTL

-----------------------------------------------------------------------------
(* The cycle check *)

N == Cardinality(Datasets)

LEMMA Sizes == N \in Nat /\ IsFiniteSet(Datasets)
BY BodiesAssumption, FS_CardinalityType DEF N

\* What is left after each round.
IsPeel(m, T) ==
    /\ m \in [0 .. N -> SUBSET Datasets]
    /\ m[0] = Datasets
    /\ \A k \in 1 .. N : m[k] = {d \in m[k - 1] : \E c \in m[k - 1] : Edge(T, c, d)}

LEMMA Peeled == ASSUME NEW T PROVE \E m : IsPeel(m, T) /\ Peel(T) = m[N]
<1> DEFINE S == SUBSET Datasets
           D == 0 .. N
           Step(x) == {d \in x : \E c \in x : Edge(T, c, d)}
           G == [k \in 1 .. N |-> [x \in S |-> Step(x)]]
           Good(g) == g = [k \in D |-> IF k = 0 THEN Datasets ELSE Step(g[k - 1])]
           m == CHOOSE g : Good(g)
<1>1. \A x \in S : Step(x) \in S OBVIOUS
<1>2. G \in StepsOn(N, S)
  <2> HIDE DEF S, Step
  <2> QED BY <1>1 DEF StepsOn
<1>3. PICK f : IsIteration(f, N, S, Datasets, G)
  <2>1. Datasets \in S OBVIOUS
  <2> HIDE DEF G, S
  <2> QED BY <1>2, <2>1, Sizes, IterationExists
<1>4. /\ f \in [D -> S] /\ f[0] = Datasets
      /\ \A k \in 1 .. N : f[k] = Step(f[k - 1])
  <2> HIDE DEF Step, S
  <2>1. f \in [D -> S] /\ f[0] = Datasets /\ \A k \in 1 .. N : f[k] = G[k][f[k - 1]]
    BY <1>3 DEF IsIteration
  <2>2. \A k \in 1 .. N : k - 1 \in D BY Sizes
  <2> QED BY <2>1, <2>2
<1>5. Good(f)
  <2> HIDE DEF Step, S
  <2>1. \A k \in D : k # 0 => k \in 1 .. N BY Sizes
  <2> QED BY <1>4, <2>1
<1>6. Good(m)
  <2> HIDE DEF Good
  <2> QED BY <1>5
<1>7. Peel(T) = m[N] BY DEF Peel, N
<1>8. m[0] = Datasets /\ DOMAIN m = D /\ \A k \in 1 .. N : m[k] = Step(m[k - 1])
  <2> HIDE DEF m, Step
  <2>1. m = [k \in D |-> IF k = 0 THEN Datasets ELSE Step(m[k - 1])] BY <1>6
  <2>2. 0 \in D /\ \A k \in 1 .. N : k \in D /\ k # 0 BY Sizes
  <2> HIDE DEF D
  <2> QED BY <2>1, <2>2
<1>9. m = f
  <2> HIDE DEF m, Step, S
  <2> DEFINE P == {n \in Nat : n <= N => m[n] = f[n]}
  <2>1. 0 \in P BY <1>4, <1>8
  <2>2. ASSUME NEW n \in Nat, n \in P PROVE n + 1 \in P
    <3> SUFFICES ASSUME n + 1 <= N PROVE m[n + 1] = f[n + 1] OBVIOUS
    <3>1. n + 1 \in 1 .. N /\ (n + 1) - 1 = n /\ n <= N BY Sizes
    <3>2. m[n + 1] = Step(m[n]) BY <1>8, <3>1
    <3>3. f[n + 1] = Step(f[n]) BY <1>4, <3>1
    <3> QED BY <2>2, <3>1, <3>2, <3>3
  <2> HIDE DEF P
  <2>3. \A n \in Nat : n \in P BY <2>1, <2>2, Induct
  <2>4. \A n \in D : m[n] = f[n] BY <2>3, Sizes DEF P
  <2>5. m = [n \in D |-> m[n]] BY <1>6
  <2> HIDE DEF D
  <2> QED BY <1>4, <2>4, <2>5
<1> HIDE DEF m
<1> QED BY <1>4, <1>7, <1>9 DEF IsPeel

\* Datasets that each have a predecessor among them are never removed.
LEMMA InnerStays ==
    ASSUME NEW T, NEW C \in SUBSET Datasets, \A d \in C : \E c \in C : Edge(T, c, d)
    PROVE  C \in SUBSET Peel(T)
<1>1. PICK m : IsPeel(m, T) /\ Peel(T) = m[N] BY Peeled
<1> DEFINE P == {n \in Nat : n <= N => C \in SUBSET m[n]}
<1>2. 0 \in P BY <1>1 DEF IsPeel
<1>3. ASSUME NEW n \in Nat, n \in P PROVE n + 1 \in P
  <2> SUFFICES ASSUME n + 1 <= N PROVE C \in SUBSET m[n + 1] OBVIOUS
  <2>1. n + 1 \in 1 .. N /\ (n + 1) - 1 = n /\ n <= N BY Sizes
  <2>2. m[n + 1] = {d \in m[n] : \E c \in m[n] : Edge(T, c, d)} BY <1>1, <2>1 DEF IsPeel
  <2> QED BY <1>3, <2>1, <2>2
<1> HIDE DEF P
<1>4. \A n \in Nat : n \in P BY <1>2, <1>3, Induct
<1> QED BY <1>1, <1>4, Sizes DEF P

IsWalk(T, w, n) == w \in [0 .. n -> Datasets] /\ \A i \in 1 .. n : Edge(T, w[i - 1], w[i])

\* Whatever outlasts k rounds has k datasets in a row before it.
LEMMA WalkBehind ==
    ASSUME NEW T, NEW m, IsPeel(m, T), NEW k \in 0 .. N, NEW e \in m[k]
    PROVE  \E w : IsWalk(T, w, k) /\ w[k] = e
<1> DEFINE P == {n \in Nat : n <= N => \A d \in m[n] : \E w : IsWalk(T, w, n) /\ w[n] = d}
<1>1. 0 \in P
  <2> SUFFICES ASSUME NEW d \in m[0] PROVE \E w : IsWalk(T, w, 0) /\ w[0] = d OBVIOUS
  <2>1. d \in Datasets BY DEF IsPeel
  <2> DEFINE w == [i \in 0 .. 0 |-> d]
  <2>2. IsWalk(T, w, 0) /\ w[0] = d BY <2>1 DEF IsWalk
  <2> QED BY <2>2
<1>2. ASSUME NEW n \in Nat, n \in P PROVE n + 1 \in P
  <2> SUFFICES ASSUME n + 1 <= N, NEW d \in m[n + 1]
               PROVE  \E w : IsWalk(T, w, n + 1) /\ w[n + 1] = d
    OBVIOUS
  <2>1. n + 1 \in 1 .. N /\ (n + 1) - 1 = n /\ n <= N /\ n + 1 \in 0 .. N BY Sizes
  <2>2. m[n + 1] = {x \in m[n] : \E c \in m[n] : Edge(T, c, x)} /\ m[n + 1] \in SUBSET Datasets
    BY <2>1 DEF IsPeel
  <2>3. PICK c \in m[n] : Edge(T, c, d) BY <2>2
  <2>4. PICK v : IsWalk(T, v, n) /\ v[n] = c BY <1>2, <2>1
  <2> DEFINE w == [i \in 0 .. n + 1 |-> IF i = n + 1 THEN d ELSE v[i]]
  <2>5. w \in [0 .. n + 1 -> Datasets]
    <3>1. \A i \in 0 .. n + 1 : i # n + 1 => i \in 0 .. n OBVIOUS
    <3>2. v \in [0 .. n -> Datasets] BY <2>4 DEF IsWalk
    <3> QED BY <2>2, <3>1, <3>2
  <2>6. ASSUME NEW i \in 1 .. n + 1 PROVE Edge(T, w[i - 1], w[i])
    <3>1. CASE i = n + 1
      <4>1. w[i] = d /\ w[i - 1] = v[n] BY <3>1
      <4> QED BY <2>3, <2>4, <4>1
    <3>2. CASE i # n + 1
      <4>1. i \in 1 .. n BY <3>2
      <4>2. w[i] = v[i] /\ w[i - 1] = v[i - 1] BY <4>1
      <4> QED BY <2>4, <4>1, <4>2 DEF IsWalk
    <3> QED BY <3>1, <3>2
  <2>7. w[n + 1] = d OBVIOUS
  <2> HIDE DEF w
  <2> QED BY <2>5, <2>6, <2>7 DEF IsWalk
<1> HIDE DEF P
<1>3. \A n \in Nat : n \in P BY <1>1, <1>2, Induct
<1> QED BY <1>3, Sizes DEF P

\* would_cycle is exact, whatever the graph.
LEMMA CycleCheck == ASSUME NEW T PROVE WouldCycle(T) <=> HasCycle(T)
<1>1. ASSUME HasCycle(T) PROVE WouldCycle(T)
  <2>0. PICK n \in 1 .. N : \E w \in [0 .. n -> Datasets] :
             w[0] = w[n] /\ \A i \in 1 .. n : Edge(T, w[i - 1], w[i])
    BY <1>1 DEF HasCycle, N
  <2>1. PICK w \in [0 .. n -> Datasets] : w[0] = w[n] /\ \A i \in 1 .. n : Edge(T, w[i - 1], w[i])
    BY <2>0
  <2> DEFINE C == {w[i] : i \in 0 .. n}
  <2>2. n \in Nat /\ n >= 1 BY Sizes
  <2>3. C \in SUBSET Datasets /\ w[0] \in C BY <2>1, <2>2
  <2>4. ASSUME NEW i \in 0 .. n PROVE \E c \in C : Edge(T, c, w[i])
    <3>1. CASE i # 0
      <4>1. i \in 1 .. n /\ i - 1 \in 0 .. n BY <2>2, <3>1
      <4> QED BY <2>1, <4>1
    <3>2. CASE i = 0
      <4>1. n \in 1 .. n /\ n - 1 \in 0 .. n BY <2>2
      <4> QED BY <2>1, <3>2, <4>1
    <3> QED BY <3>1, <3>2
  <2>5. \A d \in C : \E c \in C : Edge(T, c, d) BY <2>4
  <2> HIDE DEF C
  <2> QED BY <2>3, <2>5, InnerStays DEF WouldCycle
<1>2. ASSUME WouldCycle(T) PROVE HasCycle(T)
  <2>1. PICK m : IsPeel(m, T) /\ Peel(T) = m[N] BY Peeled
  <2>2. PICK w : IsWalk(T, w, N)
    <3>1. PICK d : d \in m[N] BY <1>2, <2>1 DEF WouldCycle
    <3>2. N \in 0 .. N BY Sizes
    <3> QED BY <2>1, <3>1, <3>2, WalkBehind
  <2>3. PICK i \in 0 .. N, j \in 0 .. N : i # j /\ w[i] = w[j]
    <3>1. Cardinality(0 .. N) = N + 1 /\ IsFiniteSet(0 .. N)
      <4>1. Cardinality(0 .. N) = IF 0 > N THEN 0 ELSE N - 0 + 1 BY Sizes, FS_Interval
      <4>2. (IF 0 > N THEN 0 ELSE N - 0 + 1) = N + 1 BY Sizes
      <4>3. IsFiniteSet(0 .. N) BY Sizes, FS_Interval
      <4> QED BY <4>1, <4>2, <4>3
    <3>2. Cardinality(Datasets) < Cardinality(0 .. N) BY <3>1, Sizes DEF N
    <3>3. w \in [0 .. N -> Datasets] BY <2>2 DEF IsWalk
    <3> QED BY <3>1, <3>2, <3>3, Sizes, FS_PigeonHole
  <2>4. ASSUME NEW a \in 0 .. N, NEW b \in 0 .. N, a < b, w[a] = w[b] PROVE HasCycle(T)
    <3> DEFINE n == b - a
               v == [h \in 0 .. n |-> w[a + h]]
    <3>1. n \in 1 .. N /\ a \in Nat /\ b \in Nat /\ N \in Nat /\ n \in Nat BY <2>4, Sizes
    <3>2. \A h \in 0 .. n : a + h \in 0 .. N BY <3>1
    <3>3. v \in [0 .. n -> Datasets] BY <2>2, <3>2 DEF IsWalk
    <3>4. v[0] = v[n] BY <2>4, <3>1
    <3>5. ASSUME NEW h \in 1 .. n PROVE Edge(T, v[h - 1], v[h])
      <4>1. a + h \in 1 .. N /\ h - 1 \in 0 .. n /\ h \in 0 .. n /\ a + (h - 1) = (a + h) - 1 BY <3>1
      <4>2. v[h] = w[a + h] /\ v[h - 1] = w[(a + h) - 1] BY <4>1
      <4> QED BY <2>2, <4>1, <4>2 DEF IsWalk
    <3> HIDE DEF v, n
    <3> QED BY <3>1, <3>3, <3>4, <3>5 DEF HasCycle, N
  <2> QED BY <2>3, <2>4
<1> QED BY <1>1, <1>2

-----------------------------------------------------------------------------
(* The order of the transforms *)

LEMMA InjectiveLength ==
    ASSUME NEW S, IsFiniteSet(S), NEW t \in Seq(S), IsInjective(t)
    PROVE  Len(t) <= Cardinality(S) /\ (Len(t) = Cardinality(S) <=> ToSet(t) = S)
<1>1. /\ ToSet(t) = {t[i] : i \in 1 .. Len(t)} /\ ToSet(t) \subseteq S
      /\ DOMAIN t = 1 .. Len(t) /\ Len(t) \in Nat
  BY SeqContent
<1>2. t \in [1 .. Len(t) -> S] BY <1>1, ElementOfSeq
<1>3. t \in Injection(1 .. Len(t), S) BY <1>2 DEF Injection
<1>4. Cardinality(1 .. Len(t)) = Len(t)
  <2>1. Cardinality(1 .. Len(t)) = IF 1 > Len(t) THEN 0 ELSE Len(t) - 1 + 1 BY <1>1, FS_Interval
  <2>2. (IF 1 > Len(t) THEN 0 ELSE Len(t) - 1 + 1) = Len(t) BY <1>1
  <2> QED BY <2>1, <2>2
<1>5. t \in Surjection(1 .. Len(t), S) <=> ToSet(t) = S BY <1>1, <1>2 DEF Surjection
<1> QED BY <1>3, <1>4, <1>5, FS_Injection

LEMMA Producers ==
    ASSUME NEW T \in Tables, NEW d \in Outputs(T)
    PROVE  /\ ProducedBy(T, d) \in Present(T) /\ T[ProducedBy(T, d)].out = d
           /\ Present(T) \subseteq Ids
<1> DEFINE U == {t \in Present(T) : T[t].out = d}
<1>1. Present(T) \subseteq Ids /\ Ids \subseteq Nat BY DagBounds DEF Present, Tables, Ids
<1>2. U \in SUBSET Nat /\ U # {} BY <1>1 DEF Outputs
<1>3. \E t \in U : \A u \in U : t <= u
  <2> HIDE DEF U
  <2> QED BY <1>2, LeastNumber
<1>4. \E t \in Present(T) : T[t].out = d /\ \A u \in Present(T) : T[u].out = d => t <= u
  BY <1>3
<1> QED BY <1>1, <1>4 DEF ProducedBy

LEMMA DepsArePresent ==
    ASSUME NEW T \in Tables, NEW t, NEW u \in Deps(T, t)
    PROVE  u \in Present(T) /\ u # t /\ T[u].out \in T[t].ins
BY Producers DEF Deps

\* What the passes may have placed: every transform after those it waits for.
Orders(T) ==
    {ord \in Seq(Present(T)) :
        /\ IsInjective(ord)
        /\ \A i \in DOMAIN ord : Deps(T, ord[i]) \subseteq {ord[j] : j \in 1 .. i - 1}}

\* t is next, or could be.
Ready(T, ord, t) == t \in Present(T) \ ToSet(ord) /\ Deps(T, t) \subseteq ToSet(ord)

LEMMA OrderFacts ==
    ASSUME NEW T, NEW ord \in Orders(T)
    PROVE  /\ ord \in Seq(Present(T)) /\ IsInjective(ord) /\ Len(ord) \in Nat
           /\ DOMAIN ord = 1 .. Len(ord) /\ ToSet(ord) = {ord[i] : i \in 1 .. Len(ord)}
           /\ ToSet(ord) \subseteq Present(T)
<1>1. ord \in Seq(Present(T)) /\ IsInjective(ord) BY DEF Orders
<1> QED BY <1>1, SeqContent

LEMMA PlaceKeeps ==
    ASSUME NEW T, NEW ord \in Orders(T), NEW t
    PROVE  /\ Place(T, ord, t) \in Orders(T)
           /\ Ready(T, ord, t) => Len(Place(T, ord, t)) = Len(ord) + 1
           /\ ~Ready(T, ord, t) => Place(T, ord, t) = ord
<1>0. /\ ord \in Seq(Present(T)) /\ IsInjective(ord) /\ Len(ord) \in Nat
      /\ DOMAIN ord = 1 .. Len(ord) /\ ToSet(ord) = {ord[i] : i \in 1 .. Len(ord)}
  BY OrderFacts
<1>1. CASE ~Ready(T, ord, t) BY <1>1 DEF Ready, Place
<1>2. CASE Ready(T, ord, t)
  <2> DEFINE new == Append(ord, t)
  <2>1. Place(T, ord, t) = new BY <1>2 DEF Ready, Place
  <2>2. new \in Seq(Present(T)) /\ IsInjective(new) BY <1>0, <1>2, OneMore DEF Ready
  <2>3. /\ Len(new) = Len(ord) + 1 /\ new[Len(ord) + 1] = t
        /\ \A i \in 1 .. Len(ord) : new[i] = ord[i]
    BY <1>0, <1>2, AppendProperties DEF Ready
  <2>4. DOMAIN new = 1 .. Len(ord) + 1 BY <2>2, <2>3, SeqContent
  <2> HIDE DEF new
  <2>5. ASSUME NEW i \in 1 .. Len(ord) + 1 PROVE Deps(T, new[i]) \subseteq {new[j] : j \in 1 .. i - 1}
    <3>1. CASE i = Len(ord) + 1
      <4>1. {new[j] : j \in 1 .. i - 1} = ToSet(ord)
        <5>1. 1 .. i - 1 = 1 .. Len(ord) BY <1>0, <3>1
        <5> QED BY <1>0, <2>3, <5>1
      <4> QED BY <1>2, <2>3, <3>1, <4>1 DEF Ready
    <3>2. CASE i # Len(ord) + 1
      <4>1. i \in 1 .. Len(ord) BY <1>0, <3>2
      <4>2. \A j \in 1 .. i - 1 : j \in 1 .. Len(ord) BY <1>0, <4>1
      <4>3. {new[j] : j \in 1 .. i - 1} = {ord[j] : j \in 1 .. i - 1} BY <2>3, <4>2
      <4> QED BY <1>0, <2>3, <4>1, <4>3 DEF Orders
    <3> QED BY <3>1, <3>2
  <2>6. new \in Orders(T) BY <2>2, <2>4, <2>5 DEF Orders
  <2> QED BY <1>2, <2>1, <2>3, <2>6
<1> QED BY <1>1, <1>2

Stuck(T, ord) == \A t \in Present(T) : ~Ready(T, ord, t)

\* A pass places something as long as something is ready.
LEMMA PassKeeps ==
    ASSUME NEW T \in Tables, NEW placed \in Orders(T)
    PROVE  /\ Pass(T, placed) \in Orders(T)
           /\ \/ Stuck(T, placed) /\ Pass(T, placed) = placed
              \/ ~Stuck(T, placed) /\ Len(Pass(T, placed)) >= Len(placed) + 1
<1> DEFINE M == Orders(T)
           K == MaxTransforms
           D == 0 .. K
           At(k) == K + 1 - k
           Step(k, x) == Place(T, x, At(k))
           G == [k \in 1 .. K |-> [x \in M |-> Step(k, x)]]
           Good(g) == g = [k \in D |-> IF k = 0 THEN placed ELSE Step(k, g[k - 1])]
           m == CHOOSE g : Good(g)
<1>k. K \in Nat BY DagBounds
<1>c. ASSUME NEW k, NEW x \in M
      PROVE  /\ Step(k, x) \in M
             /\ Ready(T, x, At(k)) => Len(Step(k, x)) = Len(x) + 1
             /\ ~Ready(T, x, At(k)) => Step(k, x) = x
  BY PlaceKeeps
<1>2. G \in StepsOn(K, M)
  <2> HIDE DEF M, Step
  <2> QED BY <1>c DEF StepsOn
<1>3. PICK f : IsIteration(f, K, M, placed, G)
  <2>1. placed \in M OBVIOUS
  <2> HIDE DEF G, M, K
  <2> QED BY <1>2, <2>1, <1>k, IterationExists
<1>4. Good(f)
  <2> HIDE DEF Step, M, K
  <2>1. f \in [D -> M] /\ f[0] = placed /\ \A k \in 1 .. K : f[k] = G[k][f[k - 1]]
    BY <1>3 DEF IsIteration
  <2>2. ASSUME NEW k \in D PROVE f[k] = IF k = 0 THEN placed ELSE Step(k, f[k - 1])
    <3>1. CASE k # 0
      <4>1. k \in 1 .. K /\ k - 1 \in D BY <1>k, <3>1
      <4> QED BY <2>1, <3>1, <4>1
    <3> QED BY <2>1, <3>1
  <2> QED BY <2>1, <2>2
<1>5. Good(m)
  <2> HIDE DEF Good
  <2> QED BY <1>4
<1>6. Pass(T, placed) = m[K] BY DEF Pass
<1>7. m[0] = placed /\ \A k \in 1 .. K : m[k] = Step(k, m[k - 1])
  <2> HIDE DEF m, Step, K
  <2>1. m = [k \in D |-> IF k = 0 THEN placed ELSE Step(k, m[k - 1])] BY <1>5
  <2>2. 0 \in D /\ \A k \in 1 .. K : k \in D /\ k # 0 BY <1>k
  <2> HIDE DEF D
  <2> QED BY <2>1, <2>2
<1> DEFINE Fine(n) == /\ m[n] \in M
                      /\ \/ m[n] = placed /\ \A k \in 1 .. n : ~Ready(T, placed, At(k))
                         \/ ~Stuck(T, placed) /\ Len(m[n]) >= Len(placed) + 1
<1>8. Fine(0)
  <2> HIDE DEF m
  <2> QED BY <1>7
<1>9. ASSUME NEW n \in Nat, n + 1 \in 1 .. K, Fine(n) PROVE Fine(n + 1)
  <2> HIDE DEF m
  <2>1. m[n + 1] = Step(n + 1, m[n]) /\ m[n] \in M BY <1>7, <1>9
  <2>2. /\ m[n + 1] \in M
        /\ Ready(T, m[n], At(n + 1)) => Len(m[n + 1]) = Len(m[n]) + 1
        /\ ~Ready(T, m[n], At(n + 1)) => m[n + 1] = m[n]
    <3> HIDE DEF Step, M, At
    <3> QED BY <2>1, <1>c
  <2>3. Len(m[n]) \in Nat /\ Len(placed) \in Nat BY <2>1, OrderFacts
  <2>4. CASE ~Stuck(T, placed) /\ Len(m[n]) >= Len(placed) + 1 BY <2>2, <2>3, <2>4
  <2>5. CASE m[n] = placed /\ \A k \in 1 .. n : ~Ready(T, placed, At(k))
    <3>1. CASE Ready(T, placed, At(n + 1))
      <4>1. ~Stuck(T, placed) BY <3>1 DEF Stuck, Ready
      <4> QED BY <2>2, <2>3, <2>5, <3>1, <4>1
    <3>2. CASE ~Ready(T, placed, At(n + 1))
      <4>1. \A k \in 1 .. n + 1 : k \in 1 .. n \/ k = n + 1 OBVIOUS
      <4> HIDE DEF At
      <4> QED BY <2>2, <2>5, <3>2, <4>1
    <3> QED BY <3>1, <3>2
  <2> QED BY <1>9, <2>4, <2>5
<1>10. Fine(K)
  <2> DEFINE P == {n \in Nat : n <= K => Fine(n)}
  <2> HIDE DEF Fine, K
  <2>1. 0 \in P BY <1>8
  <2>2. ASSUME NEW n \in Nat, n \in P PROVE n + 1 \in P
    <3> SUFFICES ASSUME n + 1 <= K PROVE Fine(n + 1) OBVIOUS
    <3> QED BY <1>k, <1>9, <2>2
  <2> HIDE DEF P
  <2>3. \A n \in Nat : n \in P BY <2>1, <2>2, Induct
  <2> QED BY <1>k, <2>3 DEF P
<1>11. ASSUME \A k \in 1 .. K : ~Ready(T, placed, At(k)) PROVE Stuck(T, placed)
  <2> SUFFICES ASSUME NEW t \in Present(T) PROVE ~Ready(T, placed, t) BY DEF Stuck
  <2>1. t \in 1 .. K BY DEF Present, Tables, Ids
  <2>2. K + 1 - t \in 1 .. K /\ At(K + 1 - t) = t BY <1>k, <2>1
  <2> HIDE DEF At, K
  <2> QED BY <1>11, <2>2
<1> HIDE DEF m
<1> QED BY <1>6, <1>10, <1>11

\* The passes leave nothing ready.
LEMMA TopoFacts ==
    ASSUME NEW T \in Tables
    PROVE  /\ TopoOrder(T) \in Orders(T)
           /\ Len(TopoOrder(T)) >= Cardinality(Present(T)) \/ Stuck(T, TopoOrder(T))
<1> DEFINE M == Orders(T)
           K == Cardinality(Present(T))
           D == 0 .. K
           Step(x) == Pass(T, x)
           G == [k \in 1 .. K |-> [x \in M |-> Step(x)]]
           Good(g) == g = [k \in D |-> IF k = 0 THEN <<>> ELSE Step(g[k - 1])]
           m == CHOOSE g : Good(g)
<1>k. K \in Nat
  <2>1. Present(T) \in SUBSET Ids BY DEF Present, Tables
  <2>2. IsFiniteSet(Ids) BY DagBounds, FS_Interval DEF Ids
  <2> QED BY <2>1, <2>2, FS_Subset, FS_CardinalityType
<1>0. <<>> \in M /\ Len(<<>>) = 0
  <2>1. <<>> \in Seq(Present(T)) /\ DOMAIN <<>> = {} BY EmptySeq
  <2>2. IsInjective(<<>>) BY EmptyContent
  <2> QED BY <2>1, <2>2 DEF Orders
<1>c. ASSUME NEW x \in M
      PROVE  /\ Step(x) \in M
             /\ \/ Stuck(T, x) /\ Step(x) = x
                \/ ~Stuck(T, x) /\ Len(Step(x)) >= Len(x) + 1
  BY PassKeeps
<1>2. G \in StepsOn(K, M)
  <2> HIDE DEF M, Step, K
  <2> QED BY <1>c DEF StepsOn
<1>3. PICK f : IsIteration(f, K, M, <<>>, G)
  <2> HIDE DEF G, M, K
  <2> QED BY <1>0, <1>2, <1>k, IterationExists
<1>4. Good(f)
  <2> HIDE DEF Step, M, K
  <2>1. f \in [D -> M] /\ f[0] = <<>> /\ \A k \in 1 .. K : f[k] = G[k][f[k - 1]]
    BY <1>3 DEF IsIteration
  <2>2. ASSUME NEW k \in D PROVE f[k] = IF k = 0 THEN <<>> ELSE Step(f[k - 1])
    <3>1. CASE k # 0
      <4>1. k \in 1 .. K /\ k - 1 \in D BY <1>k, <3>1
      <4> QED BY <2>1, <3>1, <4>1
    <3> QED BY <2>1, <3>1
  <2> QED BY <2>1, <2>2
<1>5. Good(m)
  <2> HIDE DEF Good
  <2> QED BY <1>4
<1>6. TopoOrder(T) = m[K] BY DEF TopoOrder
<1>7. m[0] = <<>> /\ \A k \in 1 .. K : m[k] = Step(m[k - 1])
  <2> HIDE DEF m, Step, K
  <2>1. m = [k \in D |-> IF k = 0 THEN <<>> ELSE Step(m[k - 1])] BY <1>5
  <2>2. 0 \in D /\ \A k \in 1 .. K : k \in D /\ k # 0 BY <1>k
  <2> HIDE DEF D
  <2> QED BY <2>1, <2>2
<1> DEFINE Fine(n) == m[n] \in M /\ (Len(m[n]) >= n \/ Stuck(T, m[n]))
<1>8. Fine(0)
  <2> HIDE DEF m, M
  <2> QED BY <1>0, <1>7
<1>9. ASSUME NEW n \in Nat, n + 1 \in 1 .. K, Fine(n) PROVE Fine(n + 1)
  <2> HIDE DEF m
  <2>1. m[n + 1] = Step(m[n]) /\ m[n] \in M BY <1>7, <1>9
  <2>2. /\ m[n + 1] \in M
        /\ \/ Stuck(T, m[n]) /\ m[n + 1] = m[n]
           \/ ~Stuck(T, m[n]) /\ Len(m[n + 1]) >= Len(m[n]) + 1
    <3> HIDE DEF Step, M
    <3> QED BY <2>1, <1>c
  <2>3. Len(m[n]) \in Nat /\ Len(m[n + 1]) \in Nat BY <2>1, <2>2, OrderFacts
  <2> QED BY <1>9, <2>2, <2>3
<1>10. Fine(K)
  <2> DEFINE P == {n \in Nat : n <= K => Fine(n)}
  <2> HIDE DEF Fine, K
  <2>1. 0 \in P BY <1>8
  <2>2. ASSUME NEW n \in Nat, n \in P PROVE n + 1 \in P
    <3> SUFFICES ASSUME n + 1 <= K PROVE Fine(n + 1) OBVIOUS
    <3> QED BY <1>k, <1>9, <2>2
  <2> HIDE DEF P
  <2>3. \A n \in Nat : n \in P BY <2>1, <2>2, Induct
  <2> QED BY <1>k, <2>3 DEF P
<1> HIDE DEF m
<1> QED BY <1>6, <1>10

\* A list is sorted unless its datasets have a cycle.
LEMMA SortedUnlessCyclic ==
    ASSUME NEW T \in Tables, \A t \in Present(T) : T[t].out \in Datasets
    PROVE  /\ TopoOrder(T) \in Orders(T)
           /\ Sorted(T) => ToSet(TopoOrder(T)) = Present(T)
           /\ ~Sorted(T) => HasCycle(T)
<1> DEFINE ord == TopoOrder(T)
<1>1. ord \in Orders(T) /\ (Len(ord) >= Cardinality(Present(T)) \/ Stuck(T, ord)) BY TopoFacts
<1>2. IsFiniteSet(Present(T)) /\ Cardinality(Present(T)) \in Nat
  <2>1. Present(T) \in SUBSET Ids BY DEF Present, Tables
  <2>2. IsFiniteSet(Ids) BY DagBounds, FS_Interval DEF Ids
  <2> QED BY <2>1, <2>2, FS_Subset, FS_CardinalityType
<1> HIDE DEF ord
<1>3. ord \in Seq(Present(T)) /\ IsInjective(ord) /\ Len(ord) \in Nat /\ ToSet(ord) \subseteq Present(T)
  BY <1>1, OrderFacts
<1>4. Len(ord) <= Cardinality(Present(T)) /\ (Len(ord) = Cardinality(Present(T)) <=> ToSet(ord) = Present(T))
  BY <1>2, <1>3, InjectiveLength
<1>5. ASSUME ToSet(ord) # Present(T) PROVE HasCycle(T)
  <2> DEFINE U == Present(T) \ ToSet(ord)
             C == {T[t].out : t \in U}
  <2>1. Stuck(T, ord) BY <1>1, <1>2, <1>3, <1>4, <1>5
  <2>2. ASSUME NEW t \in U PROVE \E c \in C : Edge(T, c, T[t].out)
    <3>1. PICK u \in Deps(T, t) : u \notin ToSet(ord) BY <2>1 DEF Stuck, Ready
    <3>2. u \in Present(T) /\ T[u].out \in T[t].ins BY DepsArePresent
    <3> QED BY <3>1, <3>2 DEF Edge
  <2>3. C \in SUBSET Datasets /\ C # {} /\ \A d \in C : \E c \in C : Edge(T, c, d)
    BY <1>3, <1>5, <2>2
  <2> HIDE DEF C
  <2>4. WouldCycle(T) BY <2>3, InnerStays DEF WouldCycle
  <2> QED BY <2>4, CycleCheck
<1> QED BY <1>1, <1>4, <1>5 DEF Sorted, ord

-----------------------------------------------------------------------------
(* The invariant *)

SelfFree(T) == \A t \in Present(T) : T[t].out \notin T[t].ins

\* What an editor is about to write was checked, against what is stored unless
\* somebody has written since.
CheckedBody(e) ==
    editor[e].pc = "write" =>
        LET b == editor[e].body
        IN /\ b \in Bodies /\ b.out \notin b.ins
           /\ ~editor[e].outdated => ~HasCycle(Candidate(stored, editor[e].target, b))

Whole(T, ord) == ord \in Orders(T) /\ ToSet(ord) = Present(T)

\* How a pipeline build works through its list, and why its row may stay running.
Works(p) ==
    LET q == pipe[p]
        T == q.listed
    IN /\ SelfFree(T) /\ Present(T) \subseteq 1 .. created
       /\ q.pc \in {"idle", "create"} => q.row = "none" /\ q.next = 1 /\ ~q.failed
       /\ q.pc = "run" => q.row = "running"
       /\ (q.pc = "run" \/ q.row \in {"succeeded", "failed"}) =>
             Whole(T, q.order) /\ q.next \in 1 .. Len(q.order) + 1
       /\ q.row \in {"succeeded", "failed"} => q.next = Len(q.order) + 1
       /\ q.row = "succeeded" => ~q.failed
       /\ (q.pc = "over" /\ q.row = "running") =>
             HasCycle(T) \/ q.raised \/ \E t \in Present(T) : stored[t] = Absent

Separate(T) == OneProducerEach(T) /\ \A t \in Present(T) : T[t].right \cap Outputs(T) = {}

\* What a pipeline build has passed is fresh, if nothing interferes with it.
FreshSoFar(p) ==
    LET q == pipe[p]
    IN p \in calm =>
         /\ q.pc # "idle" /\ q.listed = stored
         /\ ((q.pc = "run" \/ q.row = "succeeded") /\ ~q.failed /\ Separate(q.listed)) =>
               \A i \in 1 .. q.next - 1 : ~Stale(q.order[i], q.listed[q.order[i]])

DagInv ==
    /\ DagTypeOK
    /\ SelfFree(stored)
    /\ \A e \in Editors : CheckedBody(e)
    /\ \A p \in Pipelines : Works(p) /\ FreshSoFar(p)

LEMMA Stored ==
    ASSUME NEW T \in Tables
    PROVE  /\ DOMAIN T = Ids /\ Present(T) \subseteq Ids /\ Absent \notin Bodies
           /\ \A t \in Present(T) : /\ T[t] \in Bodies /\ T[t].out \in Datasets
                                    /\ Referenced(T[t]) \subseteq Datasets
<1>1. DOMAIN T = Ids /\ Absent \notin Bodies /\ Present(T) \subseteq Ids
  BY BodiesAssumption DEF Tables, Present
<1>2. \A t \in Present(T) : T[t] \in Bodies BY DEF Tables, Present
<1>3. \A b \in Bodies : b.out \in Datasets /\ Referenced(b) \subseteq Datasets
  BY BodiesAssumption DEF Referenced
<1> QED BY <1>1, <1>2, <1>3

\* A graph without cycles has no transform that reads its own output.
LEMMA CycleFreeIsSelfFree ==
    ASSUME NEW T, NEW t \in Present(T), T[t].out \in Datasets, T[t].out \in T[t].ins
    PROVE  HasCycle(T)
<1> DEFINE C == {T[t].out}
<1>1. C \in SUBSET Datasets /\ C # {} /\ \A d \in C : \E c \in C : Edge(T, c, d) BY DEF Edge
<1> HIDE DEF C
<1> QED BY <1>1, InnerStays, CycleCheck DEF WouldCycle

\* Two tables with the same edges have the same cycles.
LEMMA SameEdges ==
    ASSUME NEW T, NEW U, \A c, d : Edge(T, c, d) <=> Edge(U, c, d)
    PROVE  HasCycle(T) <=> HasCycle(U)
BY DEF HasCycle

\* What the check sees of the others and the candidate is what is then stored.
LEMMA CandidateIsStored ==
    ASSUME NEW T \in Tables, NEW b \in Bodies, NEW target \in 0 .. MaxTransforms, NEW t \in Ids,
           target = t \/ (target = 0 /\ T[t] = Absent)
    PROVE  HasCycle(Candidate(T, target, b)) <=> HasCycle([T EXCEPT ![t] = b])
<1> DEFINE C == Candidate(T, target, b)
           U == [T EXCEPT ![t] = b]
<1>1. DOMAIN T = Ids /\ Absent \notin Bodies /\ 0 \notin Ids BY Stored, DagBounds DEF Ids
<1>2. C = [s \in Ids \cup {0} |-> IF s = target THEN b ELSE IF s = 0 THEN Absent ELSE T[s]]
  BY <1>1 DEF Candidate
<1>3. U = [s \in Ids |-> IF s = t THEN b ELSE T[s]] BY <1>1
<1> HIDE DEF C, U
<1>4. ASSUME NEW c, NEW d, Edge(C, c, d) PROVE Edge(U, c, d)
  <2>1. PICK s \in Present(C) : c \in C[s].ins /\ d = C[s].out BY <1>4 DEF Edge
  <2>2. CASE s = target
    <3>1. t \in Present(U) /\ U[t] = b /\ C[s] = b BY <1>1, <1>2, <1>3, <2>1, <2>2 DEF Present
    <3> QED BY <2>1, <3>1 DEF Edge
  <2>3. CASE s # target
    <3>1. s \in Ids /\ s # t /\ C[s] = T[s] /\ C[s] # Absent
      BY <1>1, <1>2, <2>1, <2>3 DEF Present
    <3>2. s \in Present(U) /\ U[s] = C[s] BY <1>3, <3>1 DEF Present
    <3> QED BY <2>1, <3>2 DEF Edge
  <2> QED BY <2>2, <2>3
<1>5. ASSUME NEW c, NEW d, Edge(U, c, d) PROVE Edge(C, c, d)
  <2>1. PICK s \in Present(U) : c \in U[s].ins /\ d = U[s].out BY <1>5 DEF Edge
  <2>2. CASE s = t
    <3>1. target \in Present(C) /\ C[target] = b /\ U[s] = b
      BY <1>1, <1>2, <1>3, <2>2 DEF Present
    <3> QED BY <2>1, <3>1 DEF Edge
  <2>3. CASE s # t
    <3>1. s \in Ids /\ s # target /\ s # 0 /\ U[s] = T[s] /\ U[s] # Absent
      BY <1>1, <1>3, <2>1, <2>3 DEF Present
    <3>2. s \in Present(C) /\ C[s] = U[s] BY <1>2, <3>1 DEF Present
    <3> QED BY <2>1, <3>2 DEF Edge
  <2> QED BY <2>2, <2>3
<1>6. HasCycle(C) <=> HasCycle(U) BY <1>4, <1>5, SameEdges
<1> QED BY <1>6 DEF C, U

\* A pipeline build that does nothing is as far as before, whatever is written.
LEMMA WorksOn ==
    ASSUME DagTypeOK, created' \in Nat, created <= created',
           \A t \in 1 .. created : stored[t] = Absent => stored'[t] = Absent,
           NEW p \in Pipelines, Works(p), pipe'[p] = pipe[p]
    PROVE  Works(p)'
<1>1. created \in Nat /\ \A t \in 1 .. created : t \in 1 .. created' BY DagBounds DEF DagTypeOK
<1> QED BY <1>1 DEF Works

LEMMA FreshOn ==
    ASSUME UNCHANGED <<stored, version, consumed>>, NEW p \in Pipelines, FreshSoFar(p),
           pipe'[p] = pipe[p], p \in calm' => p \in calm
    PROVE  FreshSoFar(p)'
BY DEF FreshSoFar, Stale, ReadVersions

LEMMA ListAndCheckKeeps ==
    ASSUME DagInv, NEW e \in Editors, NEW target \in {0} \cup Ids, NEW b \in Bodies,
           ListAndCheck(e, target, b)
    PROVE  DagInv'
<1>0. DagTypeOK BY DEF DagInv
<1> DEFINE C == Candidate(stored, target, b)
           new == [pc |-> "write", target |-> target, body |-> b, outdated |-> FALSE]
<1>1. target \in 0 .. MaxTransforms BY DagBounds DEF Ids
<1>2. new \in EditorState /\ EditorDone \in EditorState
  BY <1>1, DagBounds DEF EditorState, EditorDone
<1>3. \/ editor' = [editor EXCEPT ![e] = EditorDone]
      \/ ~WouldCycle(C) /\ editor' = [editor EXCEPT ![e] = new]
  BY DEF ListAndCheck
<1>4. requests' \in 0 .. MaxRequests BY <1>0, DagBounds DEF ListAndCheck, Request, DagTypeOK
<1>5. UNCHANGED <<stored, created, version, consumed, pipe, calm>> BY DEF ListAndCheck
<1>6. editor' \in [Editors -> EditorState]
  <2> HIDE DEF new
  <2> QED BY <1>0, <1>2, <1>3 DEF DagTypeOK
<1>7. DagTypeOK' BY <1>0, <1>4, <1>5, <1>6 DEF DagTypeOK
<1>8. ASSUME ~WouldCycle(C) PROVE b.out \notin b.ins /\ ~HasCycle(C)
  <2>1. ~HasCycle(C) BY <1>8, CycleCheck
  <2>2. DOMAIN stored = Ids /\ Absent \notin Bodies /\ b.out \in Datasets
    BY <1>0, Stored, BodiesAssumption DEF DagTypeOK
  <2>3. target \in Present(C) /\ C[target] = b BY <2>2 DEF Candidate, Present
  <2> HIDE DEF C
  <2> QED BY <2>1, <2>2, <2>3, CycleFreeIsSelfFree
<1>9. \A f \in Editors : CheckedBody(f)'
  <2> SUFFICES ASSUME NEW f \in Editors PROVE CheckedBody(f)' OBVIOUS
  <2>1. CASE f # e \/ editor' = [editor EXCEPT ![e] = EditorDone]
    <3>1. editor'[f] = editor[f] \/ editor'[f].pc = "done"
      BY <1>0, <1>3, <2>1 DEF EditorDone, DagTypeOK
    <3> QED BY <1>5, <3>1 DEF DagInv, CheckedBody
  <2>2. CASE f = e /\ ~WouldCycle(C) /\ editor' = [editor EXCEPT ![e] = new]
    <3>1. editor'[e] = new BY <1>0, <2>2 DEF DagTypeOK
    <3> QED BY <1>5, <1>8, <2>2, <3>1 DEF CheckedBody
  <2> QED BY <1>3, <2>1, <2>2
<1>10. \A p \in Pipelines : Works(p)' /\ FreshSoFar(p)'
  <2>1. created \in Nat BY <1>0, DagBounds DEF DagTypeOK
  <2> QED BY <1>0, <1>5, <2>1, WorksOn, FreshOn DEF DagInv
<1> QED BY <1>5, <1>7, <1>9, <1>10 DEF DagInv, SelfFree

\* A write: nobody's check is up to date but the writer's, who is done.
LEMMA WriteKeeps ==
    ASSUME DagInv, NEW e \in Editors, NEW t \in Ids, NEW b \in Bodies \cup {Absent},
           b # Absent => b.out \notin b.ins,
           Commit(e), calm' = {}, stored' = [stored EXCEPT ![t] = b],
           requests' \in 0 .. MaxRequests, created' \in 0 .. MaxTransforms, created <= created',
           t \in 1 .. created', t \in 1 .. created => stored[t] # Absent,
           UNCHANGED <<version, consumed, pipe>>
    PROVE  DagInv'
<1>0. DagTypeOK BY DEF DagInv
<1>1. DOMAIN stored = Ids /\ stored \in Tables BY <1>0, Stored DEF DagTypeOK
<1>2. stored' \in Tables BY <1>1 DEF Tables
<1>3. Present(stored') \subseteq 1 .. created'
  <2>1. \A s \in 1 .. created : s \in 1 .. created' BY <1>0, DagBounds DEF DagTypeOK
  <2> QED BY <1>0, <1>1, <2>1 DEF Present, DagTypeOK
<1>4. editor' \in [Editors -> EditorState]
  <2>1. EditorDone \in EditorState BY DagBounds DEF EditorState, EditorDone
  <2>2. ASSUME NEW f \in Editors
        PROVE  [editor[f] EXCEPT !.outdated = editor[f].pc = "write"] \in EditorState
    <3>1. editor[f] \in EditorState BY <1>0 DEF DagTypeOK
    <3>2. (editor[f].pc = "write") \in BOOLEAN OBVIOUS
    <3> QED BY <3>1, <3>2 DEF EditorState
  <2> QED BY <2>1, <2>2 DEF Commit
<1>5. DagTypeOK' BY <1>0, <1>2, <1>3, <1>4 DEF DagTypeOK
<1>6. SelfFree(stored')
  <2>1. SelfFree(stored) BY DEF DagInv
  <2>2. \A s \in Ids : stored'[s] = IF s = t THEN b ELSE stored[s] BY <1>1
  <2> QED BY <1>1, <2>1, <2>2 DEF SelfFree, Present
<1>7. ASSUME NEW f \in Editors PROVE CheckedBody(f)'
  <2>1. CASE f = e
    <3>1. editor'[f].pc = "done" BY <2>1 DEF Commit, EditorDone
    <3> QED BY <3>1 DEF CheckedBody
  <2>2. CASE f # e
    <3>1. editor'[f] = [editor[f] EXCEPT !.outdated = editor[f].pc = "write"] BY <2>2 DEF Commit
    <3>2. editor[f] \in EditorState BY <1>0 DEF DagTypeOK
    <3>3. /\ editor'[f].pc = editor[f].pc /\ editor'[f].body = editor[f].body
          /\ editor'[f].outdated = (editor[f].pc = "write")
      BY <3>1, <3>2 DEF EditorState
    <3>4. CheckedBody(f) BY DEF DagInv
    <3> QED BY <3>3, <3>4 DEF CheckedBody
  <2> QED BY <2>1, <2>2
<1>8. ASSUME NEW p \in Pipelines PROVE Works(p)' /\ FreshSoFar(p)'
  <2>1. created' \in Nat BY DagBounds
  <2>2. \A s \in 1 .. created : stored[s] = Absent => stored'[s] = Absent
    <3>1. \A s \in 1 .. created : s \in Ids BY <1>0, DagBounds DEF DagTypeOK, Ids
    <3> QED BY <1>1, <3>1
  <2>3. Works(p)' BY <1>0, <2>1, <2>2, WorksOn DEF DagInv
  <2> QED BY <2>3 DEF FreshSoFar
<1> QED BY <1>5, <1>6, <1>7, <1>8 DEF DagInv

LEMMA EditKeeps == ASSUME DagInv, NEW e \in Editors, Edit(e) PROVE DagInv'
<1>0. DagTypeOK BY DEF DagInv
<1>n. created \in 0 .. MaxTransforms /\ MaxTransforms \in Nat /\ requests \in 0 .. MaxRequests
  BY <1>0, DagBounds DEF DagTypeOK
<1>1. ASSUME NEW target \in {0} \cup Ids, NEW b \in Bodies, ListAndCheck(e, target, b) PROVE DagInv'
  BY <1>1, ListAndCheckKeeps
<1>2. CASE CreateTransform(e)
  <2> DEFINE b == editor[e].body
  <2>1. b \in Bodies \cup {Absent} /\ (b # Absent => b.out \notin b.ins)
    BY <1>2 DEF CreateTransform, DagInv, CheckedBody
  <2>2. /\ created + 1 \in Ids /\ created' \in 0 .. MaxTransforms /\ created <= created'
        /\ created + 1 \in 1 .. created' /\ created + 1 \notin 1 .. created
    BY <1>2, <1>n DEF CreateTransform, Ids
  <2>3. /\ Commit(e) /\ calm' = {} /\ stored' = [stored EXCEPT ![created + 1] = b]
        /\ requests' \in 0 .. MaxRequests /\ UNCHANGED <<version, consumed, pipe>>
    BY <1>2, <1>n DEF CreateTransform
  <2> HIDE DEF b
  <2> QED BY <2>1, <2>2, <2>3, WriteKeeps
<1>3. CASE UpdateTransform(e)
  <2> DEFINE b == editor[e].body
             t == editor[e].target
  <2>1. b \in Bodies \cup {Absent} /\ (b # Absent => b.out \notin b.ins)
    BY <1>3 DEF UpdateTransform, DagInv, CheckedBody
  <2>2. t \in Ids
    <3>1. editor[e] \in EditorState BY <1>0 DEF DagTypeOK
    <3> QED BY <1>3, <1>n, <3>1 DEF UpdateTransform, EditorState, Ids
  <2>3. UNCHANGED <<created, version, consumed, pipe, requests>> BY <1>3 DEF UpdateTransform
  <2>4. CASE stored[t] # Absent
    <3>1. t \in 1 .. created BY <1>0, <2>2, <2>4, Stored DEF DagTypeOK, Present
    <3>2. Commit(e) /\ calm' = {} /\ stored' = [stored EXCEPT ![t] = b] BY <1>3, <2>4 DEF UpdateTransform
    <3>3. /\ t \in 1 .. created' /\ created' \in 0 .. MaxTransforms /\ created <= created'
          /\ requests' \in 0 .. MaxRequests
      BY <1>n, <2>3, <3>1
    <3>4. UNCHANGED <<version, consumed, pipe>> BY <2>3
    <3> HIDE DEF b, t
    <3> QED BY <2>1, <2>2, <2>4, <3>2, <3>3, <3>4, WriteKeeps
  <2>5. CASE stored[t] = Absent
    <3>1. editor' = [editor EXCEPT ![e] = EditorDone] /\ UNCHANGED <<stored, calm>>
      BY <1>3, <2>5 DEF UpdateTransform
    <3>2. EditorDone \in EditorState BY <1>n DEF EditorState, EditorDone
    <3>3. DagTypeOK' BY <1>0, <2>3, <3>1, <3>2 DEF DagTypeOK
    <3>4. ASSUME NEW f \in Editors PROVE CheckedBody(f)'
      <4>1. editor'[f] = editor[f] \/ editor'[f].pc = "done" BY <1>0, <3>1 DEF EditorDone, DagTypeOK
      <4> QED BY <3>1, <4>1 DEF DagInv, CheckedBody
    <3>5. \A p \in Pipelines : Works(p)' /\ FreshSoFar(p)'
      <4>1. created \in Nat BY <1>n
      <4> QED BY <1>0, <2>3, <3>1, <4>1, WorksOn, FreshOn DEF DagInv
    <3> QED BY <3>1, <3>3, <3>4, <3>5 DEF DagInv, SelfFree
  <2> QED BY <2>4, <2>5
<1>4. ASSUME NEW t \in Present(stored), DropTransform(e, t) PROVE DagInv'
  <2>1. t \in Ids /\ t \in 1 .. created /\ stored[t] # Absent
    BY <1>0, Stored DEF DagTypeOK, Present
  <2>2. requests' \in 0 .. MaxRequests BY <1>4, <1>n, DagBounds DEF DropTransform, Request
  <2>3. /\ Commit(e) /\ calm' = {} /\ stored' = [stored EXCEPT ![t] = Absent]
        /\ UNCHANGED <<version, consumed, pipe>> /\ created' = created
    BY <1>4 DEF DropTransform
  <2>4. t \in 1 .. created' /\ created' \in 0 .. MaxTransforms /\ created <= created'
    BY <1>n, <2>1, <2>3
  <2>5. \A b \in {Absent} : b \in Bodies \cup {Absent} /\ (b # Absent => b.out \notin b.ins) OBVIOUS
  <2> QED BY <2>1, <2>2, <2>3, <2>4, <2>5, WriteKeeps
<1> QED BY <1>1, <1>2, <1>3, <1>4 DEF Edit

\* A build reads versions that exist, and adds one.
LEMMA BuiltTypes ==
    ASSUME DagTypeOK, NEW t \in Present(stored), Built(t),
           UNCHANGED <<stored, created, editor>>, requests' \in 0 .. MaxRequests,
           pipe' \in [Pipelines -> PipeState], calm' \in SUBSET Pipelines
    PROVE  DagTypeOK'
<1> DEFINE b == stored[t]
<1>1. b \in Bodies /\ b.out \in Datasets /\ Referenced(b) \subseteq Datasets /\ t \in Ids
  BY Stored DEF DagTypeOK
<1>2. /\ version' = [version EXCEPT ![b.out] = @ + 1]
      /\ consumed' = [consumed EXCEPT ![t] = {ReadVersions(b)}]
  BY DEF Built
<1>3. version \in [Datasets -> Nat] /\ DOMAIN consumed = Ids BY DEF DagTypeOK
<1> HIDE DEF b
<1>4. version' \in [Datasets -> Nat] /\ \A d \in Datasets : version[d] \in Nat /\ version[d] <= version'[d]
  BY <1>1, <1>2, <1>3
<1>5. DOMAIN consumed' = Ids BY <1>2, <1>3
<1>6. ASSUME NEW s \in Ids
      PROVE  /\ Cardinality(consumed'[s]) <= 1
             /\ \A f \in consumed'[s] : /\ DOMAIN f \subseteq Datasets
                                        /\ \A d \in DOMAIN f : f[d] \in 0 .. version'[d]
  <2>1. CASE s = t
    <3>1. consumed'[s] = {ReadVersions(b)} BY <1>1, <1>2, <1>3, <2>1
    <3>2. Cardinality({ReadVersions(b)}) = 1 BY FS_Singleton
    <3>3. DOMAIN ReadVersions(b) = Referenced(b) /\ \A d \in Referenced(b) : ReadVersions(b)[d] = version[d]
      BY DEF ReadVersions
    <3> HIDE DEF ReadVersions
    <3> QED BY <1>1, <1>4, <3>1, <3>2, <3>3
  <2>2. CASE s # t
    <3>1. consumed'[s] = consumed[s] BY <1>2, <1>3, <2>2
    <3>2. /\ Cardinality(consumed[s]) <= 1
          /\ \A f \in consumed[s] : /\ DOMAIN f \subseteq Datasets
                                    /\ \A d \in DOMAIN f : f[d] \in 0 .. version[d]
      BY DEF DagTypeOK
    <3>3. ASSUME NEW f \in consumed[s], NEW d \in DOMAIN f PROVE f[d] \in 0 .. version'[d]
      <4>1. d \in Datasets /\ f[d] \in 0 .. version[d] BY <3>2
      <4>2. version[d] \in Nat /\ version'[d] \in Nat /\ version[d] <= version'[d] BY <1>4, <4>1
      <4> QED BY <4>1, <4>2
    <3> QED BY <3>1, <3>2, <3>3
  <2> QED BY <2>1, <2>2
<1> QED BY <1>4, <1>5, <1>6 DEF DagTypeOK

LEMMA BuildOneKeeps == ASSUME DagInv, NEW t \in Ids, BuildOne(t) PROVE DagInv'
<1>0. DagTypeOK BY DEF DagInv
<1>1. /\ Built(t) /\ calm' = {} /\ UNCHANGED <<stored, created, editor, pipe>> /\ t \in Present(stored)
  BY <1>0, Stored DEF BuildOne, DagTypeOK, Present
<1>2. requests' \in 0 .. MaxRequests BY <1>0, DagBounds DEF BuildOne, Request, DagTypeOK
<1>3. DagTypeOK'
  <2>1. pipe' \in [Pipelines -> PipeState] BY <1>0, <1>1 DEF DagTypeOK
  <2> QED BY <1>0, <1>1, <1>2, <2>1, BuiltTypes
<1>4. \A e \in Editors : CheckedBody(e)' BY <1>1 DEF DagInv, CheckedBody
<1>5. ASSUME NEW p \in Pipelines PROVE Works(p)' /\ FreshSoFar(p)'
  <2>1. created \in Nat BY <1>0, DagBounds DEF DagTypeOK
  <2>2. Works(p)' BY <1>0, <1>1, <2>1, WorksOn DEF DagInv
  <2> QED BY <1>1, <2>2 DEF FreshSoFar
<1> QED BY <1>1, <1>3, <1>4, <1>5 DEF DagInv, SelfFree

\* A version that no successful build of a transform has written.
LEMMA OneMoreVersion ==
    ASSUME DagTypeOK, NEW d \in Datasets, version' = [version EXCEPT ![d] = @ + 1],
           UNCHANGED <<stored, created, consumed, editor>>, requests' \in 0 .. MaxRequests,
           pipe' \in [Pipelines -> PipeState], calm' \in SUBSET Pipelines
    PROVE  DagTypeOK'
<1>1. /\ version' \in [Datasets -> Nat]
      /\ \A c \in Datasets : version[c] \in Nat /\ version[c] <= version'[c]
  BY DEF DagTypeOK
<1>2. ASSUME NEW s \in Ids, NEW f \in consumed[s], NEW c \in DOMAIN f PROVE f[c] \in 0 .. version'[c]
  <2>1. c \in Datasets /\ f[c] \in 0 .. version[c] BY DEF DagTypeOK
  <2>2. version[c] \in Nat /\ version'[c] \in Nat /\ version[c] <= version'[c] BY <1>1, <2>1
  <2> QED BY <2>1, <2>2
<1> QED BY <1>1, <1>2 DEF DagTypeOK

LEMMA UploadKeeps == ASSUME DagInv, NEW d \in Datasets, Upload(d) PROVE DagInv'
<1>0. DagTypeOK BY DEF DagInv
<1>1. /\ version' = [version EXCEPT ![d] = @ + 1] /\ calm' = {}
      /\ UNCHANGED <<stored, created, consumed, editor, pipe>>
  BY DEF Upload
<1>2. requests' \in 0 .. MaxRequests BY <1>0, DagBounds DEF Upload, Request, DagTypeOK
<1>3. DagTypeOK'
  <2>1. pipe' \in [Pipelines -> PipeState] BY <1>0, <1>1 DEF DagTypeOK
  <2> QED BY <1>0, <1>1, <1>2, <2>1, OneMoreVersion
<1>4. \A e \in Editors : CheckedBody(e)' BY <1>1 DEF DagInv, CheckedBody
<1>5. ASSUME NEW p \in Pipelines PROVE Works(p)' /\ FreshSoFar(p)'
  <2>1. created \in Nat BY <1>0, DagBounds DEF DagTypeOK
  <2>2. Works(p)' BY <1>0, <1>1, <2>1, WorksOn DEF DagInv
  <2> QED BY <1>1, <2>2 DEF FreshSoFar
<1> QED BY <1>1, <1>3, <1>4, <1>5 DEF DagInv, SelfFree

\* A step of one pipeline build, seen from the others.
LEMMA PipeStep ==
    ASSUME DagInv, NEW p \in Pipelines, DagTypeOK', UNCHANGED <<stored, created, editor>>,
           \A q \in Pipelines \ {p} : pipe'[q] = pipe[q] /\ FreshSoFar(q)',
           Works(p)', FreshSoFar(p)'
    PROVE  DagInv'
<1>1. \A e \in Editors : CheckedBody(e)' BY DEF DagInv, CheckedBody
<1>2. ASSUME NEW q \in Pipelines \ {p} PROVE Works(q)'
  <2>1. created \in Nat /\ DagTypeOK BY DagBounds DEF DagTypeOK, DagInv
  <2> QED BY <2>1, WorksOn DEF DagInv
<1> QED BY <1>1, <1>2 DEF DagInv, SelfFree

LEMMA StartPipelineKeeps ==
    ASSUME DagInv, NEW p \in Pipelines, NEW only \in BOOLEAN, StartPipeline(p, only) PROVE DagInv'
<1>0. DagTypeOK BY DEF DagInv
<1> DEFINE q == pipe[p]
           new == [q EXCEPT !.pc = "create", !.only = only, !.listed = stored]
<1>1. pipe' = [pipe EXCEPT ![p] = new] /\ calm' = calm \cup {p} /\ q.pc = "idle"
      /\ UNCHANGED <<stored, created, version, consumed, editor, requests>>
  <2>1. q \in PipeState BY <1>0 DEF DagTypeOK
  <2> QED BY <2>1, <1>0 DEF StartPipeline, DagTypeOK, PipeState
<1>2. /\ new \in PipeState /\ new.pc = "create" /\ new.listed = stored /\ new.row = q.row
      /\ new.next = q.next /\ new.failed = q.failed
  BY <1>0 DEF DagTypeOK, PipeState
<1>3. pipe'[p] = new /\ pipe' \in [Pipelines -> PipeState] /\ \A o \in Pipelines \ {p} : pipe'[o] = pipe[o]
  <2> HIDE DEF new
  <2> QED BY <1>0, <1>1, <1>2 DEF DagTypeOK
<1>4. Works(p) BY DEF DagInv
<1> HIDE DEF new
<1>5. DagTypeOK' BY <1>0, <1>1, <1>3 DEF DagTypeOK
<1>6. Works(p)'
  <2>1. q.row = "none" /\ q.next = 1 /\ ~q.failed BY <1>1, <1>4 DEF Works
  <2> QED BY <1>0, <1>1, <1>2, <1>3, <2>1 DEF Works, DagInv, DagTypeOK
<1>7. FreshSoFar(p)'
  <2>1. q.row = "none" BY <1>1, <1>4 DEF Works
  <2> QED BY <1>1, <1>2, <1>3, <2>1 DEF FreshSoFar
<1>8. ASSUME NEW o \in Pipelines \ {p} PROVE FreshSoFar(o)'
  <2>1. FreshSoFar(o) BY DEF DagInv
  <2>2. pipe'[o] = pipe[o] /\ (o \in calm' => o \in calm) BY <1>1, <1>3
  <2> QED BY <1>1, <2>1, <2>2, FreshOn
<1> QED BY <1>1, <1>3, <1>5, <1>6, <1>7, <1>8, PipeStep

\* A step of pipeline build p that touches nothing but p.
LEMMA OwnStep ==
    ASSUME DagInv, NEW p \in Pipelines, NEW new \in PipeState, pipe' = [pipe EXCEPT ![p] = new],
           UNCHANGED <<stored, created, version, consumed, editor, requests, calm>>,
           Works(p)', FreshSoFar(p)'
    PROVE  DagInv'
<1>0. DagTypeOK BY DEF DagInv
<1>1. pipe' \in [Pipelines -> PipeState] /\ \A o \in Pipelines \ {p} : pipe'[o] = pipe[o]
  BY <1>0 DEF DagTypeOK
<1>2. DagTypeOK' BY <1>0, <1>1 DEF DagTypeOK
<1>3. ASSUME NEW o \in Pipelines \ {p} PROVE FreshSoFar(o)' BY <1>1, FreshOn DEF DagInv
<1> QED BY <1>1, <1>2, <1>3, PipeStep

LEMMA CreatePipelineBuildKeeps ==
    ASSUME DagInv, NEW p \in Pipelines, CreatePipelineBuild(p) PROVE DagInv'
<1>0. DagTypeOK BY DEF DagInv
<1> DEFINE q == pipe[p]
           ord == TopoOrder(q.listed)
           after == IF Sorted(q.listed) THEN "run" ELSE "over"
           new == [q EXCEPT !.row = "running", !.order = ord, !.pc = after]
<1>1. q \in PipeState /\ q.listed \in Tables BY <1>0 DEF DagTypeOK, PipeState
<1>2. /\ q.pc = "create" /\ pipe' = [pipe EXCEPT ![p] = new]
      /\ UNCHANGED <<stored, created, version, consumed, editor, requests, calm>>
  BY DEF CreatePipelineBuild
<1>3. /\ ord \in Orders(q.listed)
      /\ Sorted(q.listed) => ToSet(ord) = Present(q.listed)
      /\ ~Sorted(q.listed) => HasCycle(q.listed)
  BY <1>1, Stored, SortedUnlessCyclic
<1>4. ord \in Seq(Ids) /\ Len(ord) \in Nat
  <2>1. ord \in Seq(Present(q.listed)) /\ Len(ord) \in Nat BY <1>3, OrderFacts
  <2>2. Present(q.listed) \subseteq Ids BY <1>1, Stored
  <2> HIDE DEF ord
  <2>3. Len(ord) \in Nat /\ ord \in [1 .. Len(ord) -> Present(q.listed)] BY <2>1, ElementOfSeq
  <2>4. ord \in [1 .. Len(ord) -> Ids] BY <2>2, <2>3
  <2> QED BY <2>3, <2>4, SeqDef
<1> HIDE DEF ord
<1>5. /\ new \in PipeState /\ new.row = "running" /\ new.order = ord /\ new.pc = after
      /\ new.listed = q.listed /\ new.next = q.next /\ new.failed = q.failed
      /\ after = "run" <=> Sorted(q.listed)
      /\ after \in {"run", "over"}
  BY <1>1, <1>4 DEF PipeState
<1> HIDE DEF new, after
<1>6. pipe'[p] = new BY <1>0, <1>2 DEF DagTypeOK
<1>7. /\ SelfFree(q.listed) /\ Present(q.listed) \subseteq 1 .. created
      /\ q.next = 1 /\ ~q.failed /\ 1 \in 1 .. Len(ord) + 1 /\ 1 .. 1 - 1 = {}
  BY <1>4, <1>2 DEF DagInv, Works
<1>8. Works(p)' BY <1>2, <1>3, <1>4, <1>5, <1>6, <1>7 DEF Works, Whole
<1>9. FreshSoFar(p)'
  <2>1. p \in calm => q.listed = stored BY DEF DagInv, FreshSoFar
  <2> QED BY <1>2, <1>5, <1>6, <1>7, <2>1 DEF FreshSoFar
<1> QED BY <1>2, <1>5, <1>8, <1>9, OwnStep

\* Where a pipeline build that is at work stands.
LEMMA AtWork ==
    ASSUME DagInv, NEW p \in Pipelines, HasNext(p)
    PROVE  LET q == pipe[p]
           IN /\ q \in PipeState /\ q.pc = "run" /\ q.row = "running"
              /\ Whole(q.listed, q.order) /\ Len(q.order) \in Nat
              /\ q.next \in 1 .. Len(q.order) /\ DOMAIN q.order = 1 .. Len(q.order)
              /\ Current(p) \in Present(q.listed) /\ Current(p) \in Ids
              /\ SelfFree(q.listed) /\ Present(q.listed) \subseteq 1 .. created
<1> DEFINE q == pipe[p]
<1>1. q \in PipeState /\ q.listed \in Tables BY DEF DagInv, DagTypeOK, PipeState
<1>2. Works(p) BY DEF DagInv
<1>3. /\ q.pc = "run" /\ q.row = "running" /\ q.next <= Len(q.order)
      /\ SelfFree(q.listed) /\ Present(q.listed) \subseteq 1 .. created
      /\ Whole(q.listed, q.order) /\ q.next \in 1 .. Len(q.order) + 1
  BY <1>2 DEF Works, HasNext
<1>4. /\ Len(q.order) \in Nat /\ DOMAIN q.order = 1 .. Len(q.order)
      /\ ToSet(q.order) = {q.order[i] : i \in 1 .. Len(q.order)}
  BY <1>3, OrderFacts DEF Whole
<1>5. q.next \in 1 .. Len(q.order) BY <1>3, <1>4
<1>6. Current(p) \in Present(q.listed) BY <1>3, <1>4, <1>5 DEF Current, Whole
<1> QED BY <1>1, <1>3, <1>4, <1>5, <1>6, Stored

\* A step of pipeline build p in which the store fails, or a build of it does.
LEMMA ErrorStep ==
    ASSUME DagInv, NEW p \in Pipelines, NEW new \in PipeState, pipe' = [pipe EXCEPT ![p] = new],
           UNCHANGED <<stored, created, consumed, editor>>, requests' \in 0 .. MaxRequests,
           VersionOfFailed(p) \/ UNCHANGED <<version, calm>>, Works(p)', FreshSoFar(p)'
    PROVE  DagInv'
<1>0. DagTypeOK BY DEF DagInv
<1>1. pipe' \in [Pipelines -> PipeState] /\ \A o \in Pipelines \ {p} : pipe'[o] = pipe[o]
  BY <1>0 DEF DagTypeOK
<1>2. CASE UNCHANGED <<version, calm>>
  <2>1. DagTypeOK' BY <1>0, <1>1, <1>2 DEF DagTypeOK
  <2>2. ASSUME NEW o \in Pipelines \ {p} PROVE FreshSoFar(o)' BY <1>1, <1>2, FreshOn DEF DagInv
  <2> QED BY <1>1, <2>1, <2>2, PipeStep
<1>3. CASE VersionOfFailed(p)
  <2> DEFINE d == stored[Current(p)].out
  <2>1. /\ HasNext(p) /\ stored[Current(p)] # Absent /\ calm' = calm \cap {p}
        /\ version' = [version EXCEPT ![d] = @ + 1]
    BY <1>3 DEF VersionOfFailed, ToBuild
  <2>2. Current(p) \in Present(stored)
    <3>1. Current(p) \in Ids BY <2>1, AtWork
    <3> QED BY <1>0, <2>1, <3>1, Stored DEF DagTypeOK, Present
  <2>3. d \in Datasets BY <1>0, <2>2, Stored DEF DagTypeOK
  <2> HIDE DEF d
  <2>4. calm' \in SUBSET Pipelines BY <1>0, <2>1 DEF DagTypeOK
  <2>5. DagTypeOK' BY <1>0, <1>1, <2>1, <2>3, <2>4, OneMoreVersion
  <2>6. ASSUME NEW o \in Pipelines \ {p} PROVE FreshSoFar(o)'
    <3>1. o \notin calm' BY <2>1
    <3> QED BY <3>1 DEF FreshSoFar
  <2> QED BY <1>1, <2>5, <2>6, PipeStep
<1> QED BY <1>2, <1>3

LEMMA SkipFreshKeeps == ASSUME DagInv, NEW p \in Pipelines, SkipFresh(p) PROVE DagInv'
<1>0. DagTypeOK BY DEF DagInv
<1> DEFINE q == pipe[p]
           new == [q EXCEPT !.next = q.next + 1]
<1>1. /\ HasNext(p) /\ ~ToBuild(p) /\ pipe' = [pipe EXCEPT ![p] = new]
      /\ UNCHANGED <<stored, created, version, consumed, editor, requests, calm>>
  BY <1>0 DEF SkipFresh, DagTypeOK
<1>2. /\ q \in PipeState /\ q.pc = "run" /\ q.row = "running"
      /\ Whole(q.listed, q.order) /\ Len(q.order) \in Nat /\ q.next \in 1 .. Len(q.order)
      /\ SelfFree(q.listed) /\ Present(q.listed) \subseteq 1 .. created
  BY <1>1, AtWork
<1>3. /\ new \in PipeState /\ new.next = q.next + 1 /\ new.row = q.row /\ new.order = q.order
      /\ new.pc = q.pc /\ new.listed = q.listed /\ new.failed = q.failed
  BY <1>2 DEF PipeState
<1> HIDE DEF new
<1>4. pipe'[p] = new BY <1>0, <1>1 DEF DagTypeOK
<1>5. q.next + 1 \in 1 .. Len(q.order) + 1 BY <1>2
<1>6. Works(p)' BY <1>1, <1>2, <1>3, <1>4, <1>5 DEF Works
<1>7. ~Stale(q.order[q.next], q.listed[q.order[q.next]]) BY <1>1 DEF ToBuild, Current
<1>8. FreshSoFar(p)'
  <2>1. FreshSoFar(p) BY DEF DagInv
  <2>2. \A i \in 1 .. (q.next + 1) - 1 : i \in 1 .. q.next - 1 \/ i = q.next BY <1>2
  <2>3. \A t, b : Stale(t, b)' <=> Stale(t, b) BY <1>1 DEF Stale, ReadVersions
  <2> HIDE DEF Stale
  <2> QED BY <1>1, <1>2, <1>3, <1>4, <1>7, <2>1, <2>2, <2>3 DEF FreshSoFar
<1> QED BY <1>1, <1>3, <1>6, <1>8, OwnStep

LEMMA FailNextKeeps == ASSUME DagInv, NEW p \in Pipelines, FailNext(p) PROVE DagInv'
<1>0. DagTypeOK BY DEF DagInv
<1> DEFINE q == pipe[p]
           new == [q EXCEPT !.next = q.next + 1, !.failed = TRUE]
<1>1. /\ HasNext(p) /\ pipe' = [pipe EXCEPT ![p] = new]
      /\ UNCHANGED <<stored, created, consumed, editor>> /\ requests' \in 0 .. MaxRequests
      /\ VersionOfFailed(p) \/ UNCHANGED <<version, calm>>
  <2>1. requests' \in 0 .. MaxRequests
    BY <1>0, DagBounds DEF FailNext, Request, DagTypeOK
  <2>2. /\ HasNext(p) /\ UNCHANGED <<stored, created, consumed, editor>>
        /\ VersionOfFailed(p) \/ UNCHANGED <<version, calm>>
    BY DEF FailNext, ToBuild
  <2>3. pipe' = [pipe EXCEPT ![p] = new] BY <1>0 DEF FailNext, DagTypeOK
  <2> QED BY <2>1, <2>2, <2>3
<1>2. /\ q \in PipeState /\ q.pc = "run" /\ q.row = "running"
      /\ Whole(q.listed, q.order) /\ Len(q.order) \in Nat /\ q.next \in 1 .. Len(q.order)
      /\ SelfFree(q.listed) /\ Present(q.listed) \subseteq 1 .. created
  BY <1>1, AtWork
<1>3. /\ new \in PipeState /\ new.next = q.next + 1 /\ new.row = q.row /\ new.order = q.order
      /\ new.pc = q.pc /\ new.listed = q.listed /\ new.failed
  <2> DEFINE moved == [q EXCEPT !.next = q.next + 1]
  <2>1. /\ moved \in PipeState /\ moved.next = q.next + 1 /\ moved.row = q.row
        /\ moved.order = q.order /\ moved.pc = q.pc /\ moved.listed = q.listed
    BY <1>2 DEF PipeState
  <2>2. new = [moved EXCEPT !.failed = TRUE] OBVIOUS
  <2> HIDE DEF moved, new
  <2> QED BY <2>1, <2>2 DEF PipeState
<1> HIDE DEF new
<1>4. pipe'[p] = new BY <1>0, <1>1 DEF DagTypeOK
<1>5. q.next + 1 \in 1 .. Len(q.order) + 1 BY <1>2
<1>6. Works(p)' BY <1>1, <1>2, <1>3, <1>4, <1>5 DEF Works
<1>7. FreshSoFar(p)'
  <2>1. FreshSoFar(p) BY DEF DagInv
  <2>2. p \in calm' => p \in calm BY <1>1 DEF VersionOfFailed
  <2> QED BY <1>1, <1>2, <1>3, <1>4, <2>1, <2>2 DEF FreshSoFar
<1> QED BY <1>1, <1>3, <1>6, <1>7, ErrorStep

\* An error of the store ends a pipeline build where it stands.
LEMMA RaiseKeeps ==
    ASSUME DagInv, NEW p \in Pipelines, RaiseNext(p) \/ RaiseAround(p) PROVE DagInv'
<1>0. DagTypeOK BY DEF DagInv
<1> DEFINE q == pipe[p]
           new == [q EXCEPT !.pc = "over", !.raised = TRUE]
<1>1. /\ q.pc \in {"create", "run"} /\ pipe' = [pipe EXCEPT ![p] = new]
      /\ UNCHANGED <<stored, created, consumed, editor>> /\ requests' \in 0 .. MaxRequests
      /\ VersionOfFailed(p) \/ UNCHANGED <<version, calm>>
  <2>1. requests' \in 0 .. MaxRequests
    BY <1>0, DagBounds DEF RaiseNext, RaiseAround, Request, DagTypeOK
  <2>2. /\ UNCHANGED <<stored, created, consumed, editor>>
        /\ q.pc \in {"create", "run"} /\ (VersionOfFailed(p) \/ UNCHANGED <<version, calm>>)
    BY DEF RaiseNext, RaiseAround, HasNext
  <2>3. pipe' = [pipe EXCEPT ![p] = new] BY <1>0 DEF RaiseNext, RaiseAround, DagTypeOK
  <2> QED BY <2>1, <2>2, <2>3
<1>2. /\ q \in PipeState /\ q.row \in {"none", "running"}
      /\ SelfFree(q.listed) /\ Present(q.listed) \subseteq 1 .. created
  BY <1>0, <1>1 DEF DagInv, Works, DagTypeOK
<1>3. /\ new \in PipeState /\ new.pc = "over" /\ new.raised /\ new.row = q.row
      /\ new.listed = q.listed
  <2> DEFINE ended == [q EXCEPT !.pc = "over"]
  <2>1. /\ ended \in PipeState /\ ended.pc = "over" /\ ended.row = q.row
        /\ ended.listed = q.listed
    BY <1>2 DEF PipeState
  <2>2. new = [ended EXCEPT !.raised = TRUE] OBVIOUS
  <2> HIDE DEF ended, new
  <2> QED BY <2>1, <2>2 DEF PipeState
<1> HIDE DEF new
<1>4. pipe'[p] = new BY <1>0, <1>1 DEF DagTypeOK
<1>5. Works(p)' BY <1>1, <1>2, <1>3, <1>4 DEF Works
<1>6. FreshSoFar(p)'
  <2>1. FreshSoFar(p) BY DEF DagInv
  <2>2. p \in calm' => p \in calm BY <1>1 DEF VersionOfFailed
  <2> QED BY <1>1, <1>2, <1>3, <1>4, <2>1, <2>2 DEF FreshSoFar
<1> QED BY <1>1, <1>3, <1>5, <1>6, ErrorStep

LEMMA MissingNextKeeps == ASSUME DagInv, NEW p \in Pipelines, MissingNext(p) PROVE DagInv'
<1>0. DagTypeOK BY DEF DagInv
<1> DEFINE q == pipe[p]
           new == [q EXCEPT !.pc = "over"]
<1>1. /\ HasNext(p) /\ stored[Current(p)] = Absent /\ pipe' = [pipe EXCEPT ![p] = new]
      /\ UNCHANGED <<stored, created, version, consumed, editor, requests, calm>>
  BY <1>0 DEF MissingNext, ToBuild, DagTypeOK
<1>2. /\ q \in PipeState /\ q.pc = "run" /\ q.row = "running" /\ Current(p) \in Present(q.listed)
      /\ SelfFree(q.listed) /\ Present(q.listed) \subseteq 1 .. created
  BY <1>1, AtWork
<1>3. /\ new \in PipeState /\ new.row = "running" /\ new.pc = "over" /\ new.listed = q.listed
  BY <1>2 DEF PipeState
<1> HIDE DEF new
<1>4. pipe'[p] = new BY <1>0, <1>1 DEF DagTypeOK
<1>5. Works(p)' BY <1>1, <1>2, <1>3, <1>4 DEF Works
<1>6. FreshSoFar(p)'
  <2>1. FreshSoFar(p) BY DEF DagInv
  <2> QED BY <1>1, <1>2, <1>3, <1>4, <2>1 DEF FreshSoFar
<1> QED BY <1>1, <1>3, <1>5, <1>6, OwnStep

LEMMA FinishPipelineKeeps == ASSUME DagInv, NEW p \in Pipelines, FinishPipeline(p) PROVE DagInv'
<1>0. DagTypeOK BY DEF DagInv
<1> DEFINE q == pipe[p]
           status == IF q.failed THEN "failed" ELSE "succeeded"
           new == [q EXCEPT !.pc = "over", !.row = status]
<1>1. /\ q.pc = "run" /\ ~HasNext(p) /\ pipe' = [pipe EXCEPT ![p] = new]
      /\ UNCHANGED <<stored, created, version, consumed, editor, requests, calm>>
  BY <1>0 DEF FinishPipeline, DagTypeOK
<1>2. /\ SelfFree(q.listed) /\ Present(q.listed) \subseteq 1 .. created
      /\ Whole(q.listed, q.order) /\ q.next \in 1 .. Len(q.order) + 1
  BY <1>1 DEF DagInv, Works
<1>3. q.next = Len(q.order) + 1
  <2>1. Len(q.order) \in Nat BY <1>2, OrderFacts DEF Whole
  <2> QED BY <1>1, <1>2, <2>1 DEF HasNext
<1>4. /\ new \in PipeState /\ new.row = status /\ new.pc = "over" /\ new.listed = q.listed
      /\ new.order = q.order /\ new.next = q.next /\ new.failed = q.failed
      /\ status \in {"succeeded", "failed"} /\ (status = "succeeded" => ~q.failed)
  BY <1>0 DEF PipeState, DagTypeOK
<1> HIDE DEF new, status
<1>5. pipe'[p] = new BY <1>0, <1>1 DEF DagTypeOK
<1>6. Works(p)' BY <1>1, <1>2, <1>3, <1>4, <1>5 DEF Works
<1>7. FreshSoFar(p)'
  <2>1. FreshSoFar(p) BY DEF DagInv
  <2>2. \A t, b : Stale(t, b)' <=> Stale(t, b) BY <1>1 DEF Stale, ReadVersions
  <2> HIDE DEF Stale
  <2> QED BY <1>1, <1>4, <1>5, <2>1, <2>2 DEF FreshSoFar
<1> QED BY <1>1, <1>4, <1>6, <1>7, OwnStep

\* What a transform writes is read neither by itself nor by those placed before it.
LEMMA PastIsUntouched ==
    ASSUME NEW T \in Tables, SelfFree(T), Separate(T), NEW ord \in Orders(T),
           NEW k \in DOMAIN ord, NEW i \in 1 .. k
    PROVE  T[ord[k]].out \notin Referenced(T[ord[i]])
<1> DEFINE t == ord[k]
           s == ord[i]
<1>0. /\ DOMAIN ord = 1 .. Len(ord) /\ Len(ord) \in Nat /\ IsInjective(ord)
      /\ ToSet(ord) = {ord[j] : j \in 1 .. Len(ord)} /\ ToSet(ord) \subseteq Present(T)
  BY OrderFacts
<1>1. k \in 1 .. Len(ord) /\ i \in 1 .. Len(ord) BY <1>0
<1>2. t \in Present(T) /\ s \in Present(T) BY <1>0, <1>1
<1>3. T[t].out \in Outputs(T) BY <1>2 DEF Outputs
<1>4. T[t].out \notin T[s].right BY <1>2, <1>3 DEF Separate
<1>5. ASSUME T[t].out \in T[s].ins PROVE FALSE
  <2>1. s # t BY <1>2, <1>5 DEF SelfFree
  <2>2. ProducedBy(T, T[t].out) = t BY <1>2, <1>3, Producers DEF Separate, OneProducerEach
  <2>3. t \in Deps(T, s) BY <1>3, <1>5, <2>1, <2>2 DEF Deps
  <2>4. PICK j \in 1 .. i - 1 : t = ord[j] BY <1>0, <1>1, <2>3 DEF Orders
  <2>5. j \in DOMAIN ord /\ j # k BY <1>0, <1>1
  <2> QED BY <1>0, <2>4, <2>5 DEF IsInjective
<1> QED BY <1>4, <1>5 DEF Referenced

LEMMA BuildNextKeeps == ASSUME DagInv, NEW p \in Pipelines, BuildNext(p) PROVE DagInv'
<1>0. DagTypeOK BY DEF DagInv
<1> DEFINE q == pipe[p]
           t == Current(p)
           new == [q EXCEPT !.next = q.next + 1]
<1>1. /\ HasNext(p) /\ stored[t] # Absent /\ Built(t) /\ pipe' = [pipe EXCEPT ![p] = new]
      /\ calm' = calm \cap {p} /\ UNCHANGED <<stored, created, editor, requests>>
  BY <1>0 DEF BuildNext, ToBuild, DagTypeOK
<1>2. /\ q \in PipeState /\ q.pc = "run" /\ q.row = "running" /\ t \in Ids
      /\ Whole(q.listed, q.order) /\ Len(q.order) \in Nat /\ q.next \in 1 .. Len(q.order)
      /\ DOMAIN q.order = 1 .. Len(q.order)
      /\ SelfFree(q.listed) /\ Present(q.listed) \subseteq 1 .. created
  BY <1>1, AtWork
<1>3. /\ new \in PipeState /\ new.next = q.next + 1 /\ new.row = q.row /\ new.order = q.order
      /\ new.pc = q.pc /\ new.listed = q.listed /\ new.failed = q.failed
  BY <1>2 DEF PipeState
<1>t. t = q.order[q.next] BY DEF Current
<1> HIDE DEF new, t
<1>4. /\ pipe'[p] = new /\ pipe' \in [Pipelines -> PipeState]
      /\ \A o \in Pipelines \ {p} : pipe'[o] = pipe[o]
  BY <1>0, <1>1, <1>3 DEF DagTypeOK
<1>5. t \in Present(stored) /\ stored \in Tables
  BY <1>0, <1>1, <1>2, Stored DEF DagTypeOK, Present
<1>6. DagTypeOK'
  <2>1. requests' \in 0 .. MaxRequests /\ calm' \in SUBSET Pipelines BY <1>0, <1>1 DEF DagTypeOK
  <2> QED BY <1>0, <1>1, <1>4, <1>5, <2>1, BuiltTypes
<1>7. Works(p)'
  <2>1. q.next + 1 \in 1 .. Len(q.order) + 1 BY <1>2
  <2> QED BY <1>1, <1>2, <1>3, <1>4, <2>1 DEF Works
<1>8. FreshSoFar(p)'
  <2>1. FreshSoFar(p) BY DEF DagInv
  <2>2. CASE p \notin calm' BY <2>2 DEF FreshSoFar
  <2>3. CASE p \in calm' /\ ~q.failed /\ Separate(q.listed)
    <3>1. p \in calm /\ q.listed = stored BY <1>1, <2>1, <2>3 DEF FreshSoFar
    <3>2. ASSUME NEW i \in 1 .. q.next
          PROVE  LET s == q.order[i]
                 IN consumed'[s] = {[d \in Referenced(stored[s]) |-> version'[d]]}
      <4> DEFINE s == q.order[i]
                 b == stored[s]
                 mine == stored[t]
      <4>1. mine.out \notin Referenced(b)
        <5>1. q.order \in Orders(stored) /\ q.next \in DOMAIN q.order
          BY <1>2, <3>1 DEF Whole
        <5> QED BY <1>2, <1>5, <1>t, <2>3, <3>1, <5>1, PastIsUntouched
      <4>2. /\ version' = [version EXCEPT ![mine.out] = @ + 1]
            /\ consumed' = [consumed EXCEPT ![t] = {ReadVersions(mine)}]
        BY <1>1 DEF Built
      <4>3. [d \in Referenced(b) |-> version'[d]] = ReadVersions(b)
        <5>1. Referenced(b) \subseteq Datasets
          <6>1. i \in DOMAIN q.order /\ s \in ToSet(q.order) BY <1>2 DEF ToSet
          <6> QED BY <1>2, <1>5, <3>1, <6>1, Stored DEF Whole
        <5>2. \A d \in Referenced(b) : version'[d] = version[d]
          <6> HIDE DEF mine, b, s
          <6> QED BY <1>0, <4>1, <4>2, <5>1 DEF DagTypeOK
        <5> HIDE DEF b
        <5> QED BY <5>2 DEF ReadVersions
      <4>4. CASE i = q.next
        <5>1. s = t /\ b = mine BY <1>t, <4>4
        <5>2. consumed'[t] = {ReadVersions(mine)} BY <1>0, <1>2, <4>2 DEF DagTypeOK
        <5> HIDE DEF b, s, mine
        <5>3. consumed'[s] = {[d \in Referenced(b) |-> version'[d]]} BY <4>3, <5>1, <5>2
        <5> QED BY <5>3 DEF b, s
      <4>5. CASE i # q.next
        <5>1. i \in 1 .. q.next - 1 /\ i \in DOMAIN q.order /\ q.next \in DOMAIN q.order BY <1>2, <4>5
        <5>2. ~Stale(s, b) BY <1>2, <2>1, <2>3, <3>1, <5>1 DEF FreshSoFar
        <5>3. s # t
          <6>1. IsInjective(q.order) BY <1>2, OrderFacts DEF Whole
          <6> QED BY <1>t, <4>5, <5>1, <6>1 DEF IsInjective
        <5>4. consumed'[s] = consumed[s] BY <4>2, <5>3
        <5>5. consumed[s] = {ReadVersions(b)} BY <5>2 DEF Stale
        <5> HIDE DEF b, s
        <5>6. consumed'[s] = {[d \in Referenced(b) |-> version'[d]]} BY <4>3, <5>4, <5>5
        <5> QED BY <5>6 DEF b, s
      <4> QED BY <4>4, <4>5
    <3>3. (q.next + 1) - 1 = q.next BY <1>2
    <3>4. ASSUME NEW i \in 1 .. q.next PROVE ~Stale(pipe[p].order[i], stored[pipe[p].order[i]])'
      <4>1. pipe'[p].order = q.order BY <1>3, <1>4
      <4> QED BY <1>1, <3>2, <4>1 DEF Stale, ReadVersions
    <3> HIDE DEF Stale
    <3> QED BY <1>1, <1>2, <1>3, <1>4, <3>1, <3>3, <3>4 DEF FreshSoFar
  <2>4. CASE p \in calm' /\ ~(~q.failed /\ Separate(q.listed))
    <3>1. p \in calm /\ q.listed = stored BY <1>1, <2>1, <2>4 DEF FreshSoFar
    <3> QED BY <1>1, <1>2, <1>3, <1>4, <2>4, <3>1 DEF FreshSoFar
  <2> QED BY <2>2, <2>3, <2>4
<1>9. ASSUME NEW o \in Pipelines \ {p} PROVE pipe'[o] = pipe[o] /\ FreshSoFar(o)'
  <2>1. o \notin calm' BY <1>1
  <2> QED BY <1>4, <2>1 DEF FreshSoFar
<1> QED BY <1>1, <1>6, <1>7, <1>8, <1>9, PipeStep

LEMMA RunPipelineKeeps == ASSUME DagInv, NEW p \in Pipelines, RunPipeline(p) PROVE DagInv'
BY StartPipelineKeeps, CreatePipelineBuildKeeps, SkipFreshKeeps, BuildNextKeeps, FailNextKeeps,
   RaiseKeeps, MissingNextKeeps, FinishPipelineKeeps DEF RunPipeline

LEMMA DagStep == DagInv /\ [DagNext]_dagVars => DagInv'
<1> SUFFICES ASSUME DagInv, [DagNext]_dagVars PROVE DagInv' OBVIOUS
<1>1. CASE DagNext BY <1>1, EditKeeps, RunPipelineKeeps, BuildOneKeeps, UploadKeeps DEF DagNext
<1>2. CASE UNCHANGED dagVars
  <2>0. DagTypeOK /\ created \in Nat BY DagBounds DEF DagInv, DagTypeOK
  <2>1. UNCHANGED <<stored, created, version, consumed, editor, pipe, requests, calm>>
    BY <1>2 DEF dagVars
  <2>2. DagTypeOK' BY <2>0, <2>1 DEF DagTypeOK
  <2>3. \A e \in Editors : CheckedBody(e)' BY <2>1 DEF DagInv, CheckedBody
  <2>4. \A p \in Pipelines : Works(p)' /\ FreshSoFar(p)' BY <2>0, <2>1, WorksOn, FreshOn DEF DagInv
  <2> QED BY <2>1, <2>2, <2>3, <2>4 DEF DagInv, SelfFree
<1> QED BY <1>1, <1>2

LEMMA DagInitially == DagInit => DagInv
<1> SUFFICES ASSUME DagInit PROVE DagInv OBVIOUS
<1>1. created \in 0 .. MaxTransforms /\ stored \in Tables /\ Present(stored) = 1 .. created
  BY DEF DagInit
<1>2. SelfFree(stored)
  <2>1. ~HasCycle(stored) BY CycleCheck DEF DagInit
  <2> QED BY <1>1, <2>1, Stored, CycleFreeIsSelfFree DEF SelfFree
<1>3. NoTable \in Tables /\ Present(NoTable) = {} BY DEF NoTable, Tables, Present
<1>4. pipe \in [Pipelines -> PipeState]
  <2>1. <<>> \in Seq(Ids) BY EmptySeq
  <2> HIDE DEF NoTable, Tables, Ids
  <2> QED BY <1>3, <2>1 DEF DagInit, PipeState
<1>5. editor \in [Editors -> EditorState] BY DagBounds DEF DagInit, EditorState
<1>6. DagTypeOK
  <2>1. \A t \in Ids : consumed[t] = {} /\ Cardinality(consumed[t]) <= 1
    BY FS_EmptySet DEF DagInit
  <2>2. requests \in 0 .. MaxRequests BY DagBounds DEF DagInit
  <2> QED BY <1>1, <1>4, <1>5, <2>1, <2>2 DEF DagInit, DagTypeOK
<1>7. \A e \in Editors : CheckedBody(e) BY DEF DagInit, CheckedBody
<1>8. ASSUME NEW p \in Pipelines PROVE Works(p) /\ FreshSoFar(p)
  <2>1. /\ pipe[p].pc = "idle" /\ pipe[p].row = "none" /\ pipe[p].next = 1
        /\ ~pipe[p].failed /\ pipe[p].listed = NoTable
    BY DEF DagInit
  <2>2. p \notin calm BY DEF DagInit
  <2> QED BY <1>3, <2>1, <2>2 DEF Works, FreshSoFar, SelfFree
<1> QED BY <1>2, <1>6, <1>7, <1>8 DEF DagInv

THEOREM DagInvariant == DagSpec => []DagInv
BY DagInitially, DagStep, PTL DEF DagSpec

\* would_cycle is exact for every graph and every definition about to be added
\* to it: its rounds of removal leave something exactly if there is a closed walk.
THEOREM CheckExact == DagSpec => []CheckIsExact
<1>1. CheckIsExact
  <2> SUFFICES ASSUME NEW b \in Bodies
               PROVE  WouldCycle(Candidate(stored, 0, b)) = HasCycle(Candidate(stored, 0, b))
    BY DEF CheckIsExact
  <2>1. WouldCycle(Candidate(stored, 0, b)) <=> HasCycle(Candidate(stored, 0, b)) BY CycleCheck
  <2> QED BY <2>1 DEF WouldCycle, HasCycle
<1> QED BY <1>1, PTL

\* POST and PUT check a list read earlier: a cycle comes into the stored graph
\* only through one whose list another request has made out of date.
THEOREM CyclesOnlyByEdits == DagSpec => CycleOnlyIfEdited
<1> DEFINE Fine(e) == (editor[e].pc = "write" /\ editor'[e].pc = "done" /\ HasCycle(stored')
                         /\ ~HasCycle(stored)) => editor[e].outdated
           A == \A e \in Editors : Fine(e)
<1>1. ASSUME DagInv, [DagNext]_dagVars, NEW e \in Editors, editor[e].pc = "write",
             editor'[e].pc = "done", HasCycle(stored'), ~HasCycle(stored)
      PROVE  editor[e].outdated
  <2>0. DagTypeOK /\ editor[e] \in EditorState /\ stored \in Tables BY <1>1 DEF DagInv, DagTypeOK
  <2>1. PICK f \in Editors : Edit(f)
    <3>1. stored' # stored BY <1>1
    <3>2. \/ \E f \in Editors : Edit(f)
          \/ UNCHANGED stored
      <4>1. ASSUME NEW p \in Pipelines, RunPipeline(p) PROVE UNCHANGED stored
        BY <4>1 DEF RunPipeline, StartPipeline, CreatePipelineBuild, SkipFresh, BuildNext, FailNext,
                    RaiseNext, RaiseAround, MissingNext, FinishPipeline
      <4> QED BY <1>1, <4>1 DEF DagNext, dagVars, BuildOne, Upload
    <3> QED BY <3>1, <3>2
  <2>2. ~\E target \in {0} \cup Ids, b \in Bodies : ListAndCheck(f, target, b)
    BY <1>1 DEF ListAndCheck
  <2>3. ASSUME Commit(f) PROVE f = e
    <3>1. CASE f # e
      <4>1. editor'[e] = [editor[e] EXCEPT !.outdated = editor[e].pc = "write"]
        BY <2>3, <3>1 DEF Commit
      <4> QED BY <1>1, <2>0, <4>1 DEF EditorState
    <3> QED BY <3>1
  <2>4. ~\E t \in Present(stored) : DropTransform(f, t) BY <1>1, <2>3 DEF DropTransform
  <2> DEFINE b == editor[e].body
             target == editor[e].target
  <2>5. b \in Bodies /\ (~editor[e].outdated => ~HasCycle(Candidate(stored, target, b)))
    BY <1>1 DEF DagInv, CheckedBody
  <2>6. target \in 0 .. MaxTransforms BY <2>0 DEF EditorState
  <2>7. CASE CreateTransform(f)
    <3>1. f = e BY <2>3, <2>7 DEF CreateTransform
    <3>2. created + 1 \in Ids /\ stored[created + 1] = Absent
      BY <2>0, <2>7, DagBounds, Stored DEF CreateTransform, DagTypeOK, Ids, Present
    <3>3. target = 0 /\ stored' = [stored EXCEPT ![created + 1] = b]
      BY <2>7, <3>1 DEF CreateTransform
    <3> HIDE DEF b, target
    <3>4. HasCycle(Candidate(stored, target, b)) <=> HasCycle(stored')
      BY <2>0, <2>5, <2>6, <3>2, <3>3, CandidateIsStored
    <3> QED BY <1>1, <2>5, <3>4
  <2>8. CASE UpdateTransform(f)
    <3>1. Commit(f) /\ stored' = [stored EXCEPT ![editor[f].target] = editor[f].body]
      BY <1>1, <2>8 DEF UpdateTransform
    <3>2. f = e BY <2>3, <3>1
    <3>3. target \in Ids BY <2>6, <2>8, <3>2, DagBounds DEF UpdateTransform, Ids
    <3>4. stored' = [stored EXCEPT ![target] = b] BY <3>1, <3>2
    <3> HIDE DEF b, target
    <3>5. HasCycle(Candidate(stored, target, b)) <=> HasCycle(stored')
      BY <2>0, <2>5, <2>6, <3>3, <3>4, CandidateIsStored
    <3> QED BY <1>1, <2>5, <3>5
  <2> QED BY <2>1, <2>2, <2>4, <2>7, <2>8 DEF Edit
<1>2. ASSUME DagInv, [DagNext]_dagVars PROVE A BY <1>1, <1>2
<1>3. DagInv /\ [DagNext]_dagVars => [A]_dagVars BY <1>2
<1>4. DagSpec => [][A]_dagVars BY <1>3, DagInvariant, PTL DEF DagSpec
<1> QED BY <1>4 DEF CycleOnlyIfEdited

\* A pipeline build visits every listed transform once and after its producers,
\* and leaves none stale if it succeeds and nothing interfered.
THEOREM WorksInOrder == DagSpec => []OrderedAndFresh
<1>1. ASSUME DagInv PROVE RunIsOrdered
  <2> SUFFICES ASSUME NEW p \in Pipelines, pipe[p].pc = "run", pipe[p].next = 1
               PROVE  LET T == pipe[p].listed
                          ord == pipe[p].order
                      IN /\ ToSet(ord) = Present(T) /\ Len(ord) = Cardinality(Present(T))
                         /\ \A i \in 1 .. Len(ord) : \A d \in T[ord[i]].ins \cap Outputs(T) :
                              \E j \in 1 .. (i - 1) : T[ord[j]].out = d
    BY DEF RunIsOrdered
  <2> DEFINE T == pipe[p].listed
             ord == pipe[p].order
  <2>1. T \in Tables BY <1>1 DEF DagInv, DagTypeOK, PipeState
  <2>2. SelfFree(T) /\ ord \in Orders(T) /\ ToSet(ord) = Present(T)
    BY <1>1 DEF DagInv, Works, Whole
  <2> HIDE DEF T, ord
  <2>3. /\ ord \in Seq(Present(T)) /\ IsInjective(ord) /\ Len(ord) \in Nat
        /\ DOMAIN ord = 1 .. Len(ord) /\ ToSet(ord) = {ord[i] : i \in 1 .. Len(ord)}
    BY <2>2, OrderFacts
  <2>4. Len(ord) = Cardinality(Present(T))
    <3>1. IsFiniteSet(Present(T))
      <4>1. Present(T) \in SUBSET Ids BY <2>1, Stored
      <4>2. IsFiniteSet(Ids) BY DagBounds, FS_Interval DEF Ids
      <4> QED BY <4>1, <4>2, FS_Subset
    <3> QED BY <2>2, <2>3, <3>1, InjectiveLength
  <2>5. ASSUME NEW i \in 1 .. Len(ord), NEW d \in T[ord[i]].ins \cap Outputs(T)
        PROVE  \E j \in 1 .. (i - 1) : T[ord[j]].out = d
    <3>1. ProducedBy(T, d) \in Present(T) /\ T[ProducedBy(T, d)].out = d BY <2>1, Producers
    <3>2. ord[i] \in Present(T) BY <2>2, <2>3
    <3>3. ProducedBy(T, d) # ord[i] BY <2>2, <3>1, <3>2 DEF SelfFree
    <3>4. ProducedBy(T, d) \in Deps(T, ord[i]) BY <3>3 DEF Deps
    <3>5. PICK j \in 1 .. i - 1 : ProducedBy(T, d) = ord[j] BY <2>2, <2>3, <3>4 DEF Orders
    <3> QED BY <3>1, <3>5
  <2> QED BY <2>2, <2>4, <2>5 DEF T, ord
<1>2. ASSUME DagInv PROVE PipelineFreshens
  <2> SUFFICES ASSUME NEW p \in calm, pipe[p].row = "succeeded", Separate(pipe[p].listed)
               PROVE  FreshAll(pipe[p].listed)
    BY DEF PipelineFreshens, Separate
  <2> DEFINE T == pipe[p].listed
             ord == pipe[p].order
  <2>0. p \in Pipelines BY <1>1, <1>2 DEF DagInv, DagTypeOK
  <2>1. /\ ord \in Orders(T) /\ ToSet(ord) = Present(T) /\ ~pipe[p].failed
        /\ pipe[p].next = Len(ord) + 1
    BY <1>2, <2>0 DEF DagInv, Works, Whole
  <2>2. Len(ord) \in Nat /\ ToSet(ord) = {ord[i] : i \in 1 .. Len(ord)} BY <2>1, OrderFacts
  <2>3. \A i \in 1 .. pipe[p].next - 1 : ~Stale(ord[i], T[ord[i]])
    BY <1>2, <2>0, <2>1 DEF DagInv, FreshSoFar
  <2>4. \A i \in 1 .. Len(ord) : i \in 1 .. pipe[p].next - 1 BY <2>1, <2>2
  <2> HIDE DEF T, ord, Stale
  <2>5. FreshAll(T) BY <2>1, <2>2, <2>3, <2>4 DEF FreshAll
  <2> QED BY <2>5 DEF T
<1>3. DagInv => OrderedAndFresh BY <1>1, <1>2 DEF OrderedAndFresh
<1> QED BY <1>3, DagInvariant, PTL

\* A pipeline build's row stays running only if its list had a cycle or lost a
\* transform, or an error of the store was raised out of run_pipeline_build: builds
\* of its transforms that fail never do it.  A row that says how the pipeline build
\* ended is of one that went through its whole list.
THEOREM StuckIsBroken == DagSpec => []StuckOnlyIfBroken
<1>1. ASSUME DagInv PROVE StuckOnlyIfBroken
  <2>1. \A p \in Pipelines : Works(p) /\ DagTypeOK BY <1>1 DEF DagInv
  <2> QED BY <1>1, <2>1 DEF Works, Whole, StuckOnlyIfBroken, DagInv
<1> QED BY <1>1, DagInvariant, PTL
===============================================================================
