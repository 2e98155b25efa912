------------------------------ MODULE FoundryDag ------------------------------
(***************************************************************************)
(* The dataset/transform graph of Foundry: the writes of transforms, which *)
(* are checked for cycles on a list read earlier (routes/foundry.py), and  *)
(* the pipeline build, which orders a list of the transforms and builds    *)
(* them one after another (builds.py).                                     *)
(*                                                                         *)
(* A transform reads its inputs and the "right" datasets of its join and   *)
(* union steps.  The datasets are all stored already; names, which must be *)
(* unique, are taken to be fresh.  A listing is one step, and so is the    *)
(* build of one transform: FoundryBuilds has its statements.               *)
(***************************************************************************)
EXTENDS Naturals, FiniteSets, SequencesExt

CONSTANTS Datasets,
          Absent,        \* no transform
          Bodies,        \* the definitions authors may write
          Editors,       \* POST, PUT and DELETE requests, one each
          Pipelines,     \* calls of run_pipeline_build
          MaxTransforms, \* bound: the transforms ever created
          MaxRequests    \* bound: the edits, uploads, lone builds and errors of
                         \* the store explored

ASSUME BodiesAssumption ==
    /\ IsFiniteSet(Datasets)
    /\ Absent \notin Bodies
    /\ Bodies \subseteq [ins : SUBSET Datasets, right : SUBSET Datasets, out : Datasets]
ASSUME DagBounds == MaxTransforms \in Nat /\ MaxRequests \in Nat

(* Transforms are numbered in the order of their creation. *)
Ids == 1..MaxTransforms
Tables == [Ids -> Bodies \cup {Absent}]
NoTable == [t \in Ids |-> Absent]

VARIABLES
    stored,   \* the transforms table
    created,  \* how many were ever created
    version,  \* the latest version of each dataset
    consumed, \* consumed[t]: the input_versions of the last successful build of t
    editor,   \* the requests that write transforms; outdated: another one has
              \* written since this one listed them
    pipe,     \* the calls of run_pipeline_build and their build rows
    requests, \* how many edits, uploads, lone builds and errors there were
    calm      \* the pipelines nothing has interfered with since they started

dagVars == <<stored, created, version, consumed, editor, pipe, requests, calm>>

-----------------------------------------------------------------------------
(* The graph *)

Present(T) == {t \in DOMAIN T : T[t] # Absent}
Outputs(T) == {T[t].out : t \in Present(T)}

\* _referenced_dataset_ids
Referenced(b) == b.ins \cup b.right

\* would_cycle's edges, from dataset to dataset through a transform: the
\* declared inputs alone.
Edge(T, c, d) == \E t \in Present(T) : c \in T[t].ins /\ d = T[t].out

\* Slip: a transform that reads its own output is overlooked.
PeelNoSelf(T) ==
    LET peel[k \in 0 .. Cardinality(Datasets)] ==
          IF k = 0 THEN Datasets
          ELSE {d \in peel[k - 1] : \E c \in peel[k - 1] : c # d /\ Edge(T, c, d)}
    IN peel[Cardinality(Datasets)]

\* Nodes without an incoming edge are removed until none is left.
Peel(T) ==
    LET peel[k \in 0 .. Cardinality(Datasets)] ==
          IF k = 0 THEN Datasets
          ELSE {d \in peel[k - 1] : \E c \in peel[k - 1] : Edge(T, c, d)}
    IN peel[Cardinality(Datasets)]

WouldCycle(T) == Peel(T) # {}

\* The list is newest first, and the last of several producers wins.
ProducedBy(T, d) ==
    CHOOSE t \in Present(T) :
        /\ T[t].out = d
        /\ \A u \in Present(T) : T[u].out = d => t <= u

\* Slip: only the first input counts.
DepsOfOneInput(T, t) ==
    {ProducedBy(T, d) : d \in {CHOOSE d \in T[t].ins : TRUE} \cap Outputs(T)} \ {t}

\* _topo_order: the producers of the declared inputs.
Deps(T, t) == {ProducedBy(T, d) : d \in T[t].ins \cap Outputs(T)} \ {t}

\* Transform t is placed when its producers are.
Place(T, ord, t) ==
    IF t \in Present(T) \ ToSet(ord) /\ Deps(T, t) \subseteq ToSet(ord)
    THEN Append(ord, t) ELSE ord

\* One pass over the remaining transforms, newest first.
Pass(T, placed) ==
    LET ord[k \in 0 .. MaxTransforms] ==
          IF k = 0 THEN placed ELSE Place(T, ord[k - 1], MaxTransforms + 1 - k)
    IN ord[MaxTransforms]

\* The passes until nothing is placed any more; a shorter result is the error
\* "pipeline contains a cycle".
TopoOrder(T) ==
    LET passes[k \in 0 .. Cardinality(Present(T))] ==
          IF k = 0 THEN <<>> ELSE Pass(T, passes[k - 1])
    IN passes[Cardinality(Present(T))]

Sorted(T) == Len(TopoOrder(T)) = Cardinality(Present(T))

-----------------------------------------------------------------------------
(* The requests that write transforms *)

\* The bound on what happens beside the pipeline builds and on the errors of the
\* store in them.
Request == requests < MaxRequests /\ requests' = requests + 1

EditorDone == [pc |-> "done", target |-> 0, body |-> Absent, outdated |-> FALSE]

\* Editor e is done, and what the others have listed is out of date.
Commit(e) ==
    editor' = [f \in Editors |->
                 IF f = e THEN EditorDone
                 ELSE [editor[f] EXCEPT !.outdated = editor[f].pc = "write"]]

\* What the cycle check sees: the others as listed, and the candidate.
Candidate(T, target, b) ==
    [t \in DOMAIN T \cup {0} |-> IF t = target THEN b
                                 ELSE IF t = 0 THEN Absent ELSE T[t]]

\* Slip: only POST checks.
ListAndCheckPost(e, target, b) ==
    /\ editor[e].pc = "idle"
    /\ Request
    /\ editor' = [editor EXCEPT ![e] =
         IF IF target = 0 THEN WouldCycle(Candidate(stored, target, b))
            ELSE stored[target] = Absent
         THEN EditorDone
         ELSE [pc |-> "write", target |-> target, body |-> b, outdated |-> FALSE]]
    /\ UNCHANGED <<stored, created, version, consumed, pipe, calm>>

\* POST (target 0) and PUT list the transforms and check the candidate.
ListAndCheck(e, target, b) ==
    /\ editor[e].pc = "idle"
    /\ Request
    /\ editor' = [editor EXCEPT ![e] =
         IF (target # 0 /\ stored[target] = Absent)
              \/ WouldCycle(Candidate(stored, target, b))
         THEN EditorDone
         ELSE [pc |-> "write", target |-> target, body |-> b, outdated |-> FALSE]]
    /\ UNCHANGED <<stored, created, version, consumed, pipe, calm>>

\* create_transform
CreateTransform(e) ==
    /\ editor[e].pc = "write" /\ editor[e].target = 0
    /\ created < MaxTransforms
    /\ created' = created + 1
    /\ stored' = [stored EXCEPT ![created + 1] = editor[e].body]
    /\ Commit(e)
    /\ calm' = {}
    /\ UNCHANGED <<version, consumed, pipe, requests>>

\* update_transform: 404 when the transform is gone by now.
UpdateTransform(e) ==
    /\ editor[e].pc = "write" /\ editor[e].target # 0
    /\ LET t == editor[e].target
       IN \/ /\ stored[t] # Absent
             /\ stored' = [stored EXCEPT ![t] = editor[e].body]
             /\ Commit(e)
             /\ calm' = {}
          \/ /\ stored[t] = Absent
             /\ editor' = [editor EXCEPT ![e] = EditorDone]
             /\ UNCHANGED <<stored, calm>>
    /\ UNCHANGED <<created, version, consumed, pipe, requests>>

DropTransform(e, t) ==
    /\ editor[e].pc = "idle"
    /\ Request
    /\ stored' = [stored EXCEPT ![t] = Absent]
    /\ Commit(e)
    /\ calm' = {}
    /\ UNCHANGED <<created, version, consumed, pipe>>

-----------------------------------------------------------------------------
(* Builds *)

\* resolve_input_versions
ReadVersions(b) == [d \in Referenced(b) |-> version[d]]

\* transform_is_stale, of the definition b of transform t.
Stale(t, b) == consumed[t] # {ReadVersions(b)}

\* run_transform_build of a stored transform, when it succeeds: a new version of
\* the output.
Built(t) ==
    LET b == stored[t]
    IN /\ version' = [version EXCEPT ![b.out] = @ + 1]
       /\ consumed' = [consumed EXCEPT ![t] = {ReadVersions(b)}]

\* A build by its route or by the scheduler.  One that fails changes nothing
\* here, or does what Upload does.
BuildOne(t) ==
    /\ stored[t] # Absent
    /\ Request
    /\ Built(t)
    /\ calm' = {}
    /\ UNCHANGED <<stored, created, editor, pipe>>

Upload(d) ==
    /\ Request
    /\ version' = [version EXCEPT ![d] = @ + 1]
    /\ calm' = {}
    /\ UNCHANGED <<stored, created, consumed, editor, pipe>>

-----------------------------------------------------------------------------
(* run_pipeline_build *)

StartPipeline(p, only) ==
    /\ pipe[p].pc = "idle"
    /\ pipe' = [pipe EXCEPT ![p].pc = "create", ![p].only = only, ![p].listed = stored]
    /\ calm' = calm \cup {p}
    /\ UNCHANGED <<stored, created, version, consumed, editor, requests>>

\* Slip: what cannot be ordered is left out, and the rest is built.
CreateLenient(p) ==
    /\ pipe[p].pc = "create"
    /\ pipe' = [pipe EXCEPT ![p].row = "running", ![p].pc = "run",
                            ![p].order = TopoOrder(pipe[p].listed)]
    /\ UNCHANGED <<stored, created, version, consumed, editor, requests, calm>>

\* create_build inserts the row as running; _topo_order, which follows in the
\* same step of the event loop, may raise.
CreatePipelineBuild(p) ==
    /\ pipe[p].pc = "create"
    /\ pipe' = [pipe EXCEPT ![p].row = "running",
                            ![p].order = TopoOrder(pipe[p].listed),
                            ![p].pc = IF Sorted(pipe[p].listed) THEN "run" ELSE "over"]
    /\ UNCHANGED <<stored, created, version, consumed, editor, requests, calm>>

Current(p) == pipe[p].order[pipe[p].next]
HasNext(p) == pipe[p].pc = "run" /\ pipe[p].next <= Len(pipe[p].order)
ToBuild(p) ==
    /\ HasNext(p)
    /\ pipe[p].only => Stale(Current(p), pipe[p].listed[Current(p)])

\* only_stale, and the transform is not.
SkipFresh(p) ==
    /\ HasNext(p) /\ ~ToBuild(p)
    /\ pipe' = [pipe EXCEPT ![p].next = @ + 1]
    /\ UNCHANGED <<stored, created, version, consumed, editor, requests, calm>>

BuildNext(p) ==
    /\ ToBuild(p) /\ stored[Current(p)] # Absent
    /\ Built(Current(p))
    /\ pipe' = [pipe EXCEPT ![p].next = @ + 1]
    /\ calm' = calm \cap {p}
    /\ UNCHANGED <<stored, created, editor, requests>>

\* Slip: a failed build ends the pipeline.
FailNextRaises(p) ==
    /\ ToBuild(p) /\ stored[Current(p)] # Absent
    /\ pipe' = [pipe EXCEPT ![p].pc = "over", ![p].failed = TRUE]
    /\ UNCHANGED <<stored, created, version, consumed, editor, requests, calm>>

\* A build may fail after its version is committed, when the store does.
VersionOfFailed(p) ==
    /\ ToBuild(p) /\ stored[Current(p)] # Absent
    /\ version' = [version EXCEPT ![stored[Current(p)].out] = @ + 1]
    /\ calm' = calm \cap {p}

FailNext(p) ==
    /\ ToBuild(p) /\ stored[Current(p)] # Absent
    /\ pipe' = [pipe EXCEPT ![p].next = @ + 1, ![p].failed = TRUE]
    /\ \/ VersionOfFailed(p) /\ Request
       \/ UNCHANGED <<version, calm, requests>>
    /\ UNCHANGED <<stored, created, consumed, editor>>

\* transform_is_stale or run_transform_build raises an error of the store: before
\* the build of the transform, or after it has failed (FoundryBuilds!StoreFails).
\* Nothing in the loop catches it.
RaiseNext(p) ==
    /\ HasNext(p)
    /\ Request
    /\ pipe' = [pipe EXCEPT ![p].pc = "over", ![p].raised = TRUE]
    /\ VersionOfFailed(p) \/ UNCHANGED <<version, calm>>
    /\ UNCHANGED <<stored, created, consumed, editor>>

\* create_build raises and leaves no row, or the last finish_build does.
RaiseAround(p) ==
    /\ pipe[p].pc \in {"create", "run"} /\ ~HasNext(p)
    /\ Request
    /\ pipe' = [pipe EXCEPT ![p].pc = "over", ![p].raised = TRUE]
    /\ UNCHANGED <<stored, created, version, consumed, editor, calm>>

\* run_transform_build raises the 404 of a transform that is gone; nothing
\* catches it.
MissingNext(p) ==
    /\ ToBuild(p) /\ stored[Current(p)] = Absent
    /\ pipe' = [pipe EXCEPT ![p].pc = "over"]
    /\ UNCHANGED <<stored, created, version, consumed, editor, requests, calm>>

\* Slip: the failures are logged and not counted.
FinishAsSucceeded(p) ==
    /\ pipe[p].pc = "run" /\ ~HasNext(p)
    /\ pipe' = [pipe EXCEPT ![p].pc = "over", ![p].row = "succeeded"]
    /\ UNCHANGED <<stored, created, version, consumed, editor, requests, calm>>

\* Slip: only a clean pipeline build is finished.
FinishIfClean(p) ==
    /\ pipe[p].pc = "run" /\ ~HasNext(p)
    /\ pipe' = [pipe EXCEPT ![p].pc = "over",
                            ![p].row = IF pipe[p].failed THEN @ ELSE "succeeded"]
    /\ UNCHANGED <<stored, created, version, consumed, editor, requests, calm>>

FinishPipeline(p) ==
    /\ pipe[p].pc = "run" /\ ~HasNext(p)
    /\ pipe' = [pipe EXCEPT ![p].pc = "over",
                            ![p].row = IF pipe[p].failed THEN "failed" ELSE "succeeded"]
    /\ UNCHANGED <<stored, created, version, consumed, editor, requests, calm>>

-----------------------------------------------------------------------------
(* Any graph that requests one at a time can have stored, nothing built. *)
DagInit ==
    /\ created \in 0..MaxTransforms
    /\ stored \in {T \in Tables : Present(T) = 1..created /\ ~WouldCycle(T)}
    /\ version = [d \in Datasets |-> 0]
    /\ consumed = [t \in Ids |-> {}]
    /\ editor = [e \in Editors |-> [pc |-> "idle", target |-> 0, body |-> Absent,
                                    outdated |-> FALSE]]
    /\ pipe = [p \in Pipelines |->
                 [pc |-> "idle", row |-> "none", only |-> FALSE, listed |-> NoTable,
                  order |-> <<>>, next |-> 1, failed |-> FALSE, raised |-> FALSE]]
    /\ requests = 0
    /\ calm = {}

Edit(e) ==
    \/ \E target \in {0} \cup Ids, b \in Bodies : ListAndCheck(e, target, b)
    \/ CreateTransform(e)
    \/ UpdateTransform(e)
    \/ \E t \in Present(stored) : DropTransform(e, t)

RunPipeline(p) ==
    \/ \E only \in BOOLEAN : StartPipeline(p, only)
    \/ CreatePipelineBuild(p)
    \/ SkipFresh(p)
    \/ BuildNext(p)
    \/ FailNext(p)
    \/ RaiseNext(p)
    \/ RaiseAround(p)
    \/ MissingNext(p)
    \/ FinishPipeline(p)

DagNext ==
    \/ \E e \in Editors : Edit(e)
    \/ \E p \in Pipelines : RunPipeline(p)
    \/ \E t \in Ids : BuildOne(t)
    \/ \E d \in Datasets : Upload(d)

DagSpec == DagInit /\ [][DagNext]_dagVars

-----------------------------------------------------------------------------
(* Properties *)

EditorState == [pc : {"idle", "write", "done"}, target : 0 .. MaxTransforms,
                body : Bodies \cup {Absent}, outdated : BOOLEAN]

PipeState == [pc : {"idle", "create", "run", "over"},
              row : {"none", "running", "succeeded", "failed"}, only : BOOLEAN,
              listed : Tables, order : Seq(Ids), next : Nat, failed : BOOLEAN,
              raised : BOOLEAN]

DagTypeOK ==
    /\ created \in 0..MaxTransforms
    /\ stored \in Tables /\ Present(stored) \subseteq 1..created
    /\ version \in [Datasets -> Nat] /\ requests \in 0..MaxRequests
    /\ DOMAIN consumed = Ids
    /\ \A t \in Ids : /\ Cardinality(consumed[t]) <= 1
                      /\ \A f \in consumed[t] :
                            /\ DOMAIN f \subseteq Datasets
                            /\ \A d \in DOMAIN f : f[d] \in 0 .. version[d]
    /\ editor \in [Editors -> EditorState]
    /\ pipe \in [Pipelines -> PipeState]
    /\ calm \subseteq Pipelines

\* A closed walk over at most as many edges as there are datasets.
HasCycle(T) ==
    \E n \in 1..Cardinality(Datasets) : \E w \in [0..n -> Datasets] :
        w[0] = w[n] /\ \A i \in 1..n : Edge(T, w[i - 1], w[i])

\* would_cycle finds a cycle exactly if there is one, whatever definition is
\* about to be added to the stored ones.
CheckIsExact ==
    (requests = 0 /\ \A e \in Editors : editor[e].pc = "idle") => \A b \in Bodies :
        LET T == Candidate(stored, 0, b) IN WouldCycle(T) = HasCycle(T)

\* A write closes a cycle only when the transforms have changed since they were
\* listed for its check.
CycleOnlyIfEdited ==
    [][\A e \in Editors :
         (editor[e].pc = "write" /\ editor'[e].pc = "done" /\ HasCycle(stored')
            /\ ~HasCycle(stored)) => editor[e].outdated]_dagVars

\* A pipeline build that starts to build has every listed transform ahead of it
\* once, each after a producer of every input that some listed transform writes.
RunIsOrdered ==
    \A p \in Pipelines :
        LET T == pipe[p].listed
            ord == pipe[p].order
        IN (pipe[p].pc = "run" /\ pipe[p].next = 1) =>
             /\ ToSet(ord) = Present(T) /\ Len(ord) = Cardinality(Present(T))
             /\ \A i \in 1..Len(ord) : \A d \in T[ord[i]].ins \cap Outputs(T) :
                  \E j \in 1..(i - 1) : T[ord[j]].out = d

OneProducerEach(T) == \A t, u \in Present(T) : T[t].out = T[u].out => t = u

FreshAll(T) == \A t \in Present(T) : ~Stale(t, T[t])

\* After a pipeline build that succeeded and that nothing interfered with, no
\* transform is stale, whether it rebuilt all of them or the stale ones only:
\* provided that each dataset has one producer and that no join or union reads
\* what another transform writes.
PipelineFreshens ==
    \A p \in calm :
        LET T == pipe[p].listed
        IN (/\ pipe[p].row = "succeeded"
            /\ OneProducerEach(T)
            /\ \A t \in Present(T) : T[t].right \cap Outputs(T) = {})
           => FreshAll(T)

\* The row of a pipeline build that is over says running only if the list had a
\* cycle, a listed transform was deleted or a store call of its own raised, but
\* never because builds of its transforms failed.  A row that says succeeded or
\* failed is of a build that has been through its whole list.
StuckOnlyIfBroken ==
    /\ DagTypeOK
    /\ \A p \in Pipelines :
         LET q == pipe[p]
             T == q.listed
         IN /\ (q.pc = "over" /\ q.row = "running") =>
                 HasCycle(T) \/ q.raised \/ \E t \in Present(T) : stored[t] = Absent
            /\ q.row \in {"succeeded", "failed"} =>
                 q.next = Len(q.order) + 1 /\ ToSet(q.order) = Present(T)

\* A pipeline build works in a topological order, which is what makes its outputs
\* fresh.
OrderedAndFresh == RunIsOrdered /\ PipelineFreshens

\* POST /pipeline/build is a "topological run of every transform": afterwards
\* nothing is stale.
PipelineFreshensAll ==
    \A p \in calm : pipe[p].row = "succeeded" => FreshAll(pipe[p].listed)
=============================================================================
