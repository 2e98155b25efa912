---------------------------- MODULE AdsbFeed_proofs ----------------------------
(***************************************************************************)
(* The two halves of the ADS-B feed, which share no state.                 *)
(*                                                                         *)
(* The snapshot, for any number of aircraft, feeds and bodies: OpenSky is  *)
(* asked at most once a day, no contact blinks or flies backwards, what a  *)
(* cycle accepts is as fresh as what was cached, and the sticky snapshot   *)
(* is no trap.  The steps of the refresher are in Publish; what they need  *)
(* of the states before is small: ages are numbers (TypeOK), nothing is    *)
(* served before the bootstrap is over (NothingYet), and an OpenSky pull   *)
(* that is due has not been made today (Budget).                           *)
(*                                                                         *)
(* The sidecar, for any number of backends, processes and faults: a        *)
(* backend that stopped leaves nothing behind, and there is no storm of    *)
(* respawns.  Both rest on what the port says (PortInv): whoever is past   *)
(* booting holds it, so that a backend which finds it free, or held by a   *)
(* process it then evicts, has nothing else alive (TrackInv).  Against the *)
(* storm, a spawn is counted when it is decided; as long as the holder is  *)
(* doomed, or the port free, there is a fault or a teardown in hand that   *)
(* no spawn has been counted against (StormInv).                           *)
(***************************************************************************)
EXTENDS AdsbSnapshot, Sidecar, Lemmas

-----------------------------------------------------------------------------
(* The global snapshot *)

\* Until a refresher or a first caller is through, no snapshot is served.
NothingYet == phase \in {"off", "boot"} => DOMAIN snap = {}

Budget == pulledToday <= 1 /\ (pull["opensky"] = "idle" => pulledToday = 0)

SnapshotInv == TypeOK /\ NothingYet /\ Budget

-----------------------------------------------------------------------------
(* Fixes and their unions *)

LEMMA Ages ==
    ASSUME NEW f \in Fix
    PROVE  /\ ObsAge(f) \in Nat /\ f.rx \in Nat /\ f.pos \in Nat
           /\ f = [rx |-> f.rx, pos |-> f.pos]
BY AgesAssumption DEF Fix, ObsAge

LEMMA NoneAreFixes == IsFixes(NoFixes) /\ DOMAIN NoFixes = {}
BY DEF IsFixes, NoFixes

LEMMA BodyFacts ==
    ASSUME NEW t \in Tiers \cup {"grid"}, NEW body \in Bodies(t)
    PROVE  DOMAIN body \subseteq Aircraft /\ \A a \in DOMAIN body : body[a] \in Nat
BY AgesAssumption, NoneAreFixes DEF Bodies, Tiers, NoFixes

\* The union has what either has, and of what both have the later observation.
LEMMA MergeIsFreshest ==
    ASSUME NEW byId, NEW raw, IsFixes(byId), IsFixes(raw)
    PROVE  /\ IsFixes(MergeRaw(byId, raw))
           /\ DOMAIN MergeRaw(byId, raw) = DOMAIN byId \cup DOMAIN raw
           /\ \A a \in DOMAIN raw : ObsAge(MergeRaw(byId, raw)[a]) <= ObsAge(raw[a])
           /\ \A a \in DOMAIN byId : ObsAge(MergeRaw(byId, raw)[a]) <= ObsAge(byId[a])
<1> DEFINE m == MergeRaw(byId, raw)
<1>1. DOMAIN m = DOMAIN byId \cup DOMAIN raw BY DEF MergeRaw
<1>2. ASSUME NEW a \in DOMAIN m
      PROVE  /\ m[a] \in Fix
             /\ a \in DOMAIN raw => ObsAge(m[a]) <= ObsAge(raw[a])
             /\ a \in DOMAIN byId => ObsAge(m[a]) <= ObsAge(byId[a])
  <2> DEFINE later == a \in DOMAIN raw
                      /\ (a \in DOMAIN byId => ObsAge(raw[a]) < ObsAge(byId[a]))
  <2>1. m[a] = IF later THEN raw[a] ELSE byId[a] BY <1>1 DEF MergeRaw
  <2>2. /\ a \in DOMAIN raw => raw[a] \in Fix /\ ObsAge(raw[a]) \in Nat
        /\ a \in DOMAIN byId => byId[a] \in Fix /\ ObsAge(byId[a]) \in Nat
    BY Ages DEF IsFixes
  <2>3. CASE later BY <2>1, <2>2, <2>3
  <2>4. CASE ~later BY <1>1, <2>1, <2>2, <2>4
  <2> QED BY <2>3, <2>4
<1> HIDE DEF m
<1>3. IsFixes(m) BY <1>1, <1>2 DEF IsFixes
<1> QED BY <1>1, <1>2, <1>3 DEF m

LEMMA TierFixes ==
    ASSUME TypeOK, NEW t \in Tiers
    PROVE  IsFixes(FixesOf(t)) /\ DOMAIN FixesOf(t) = DOMAIN cache[t].body
<1>1. cache[t].age \in 0 .. MaxAge /\ cache[t].body \in Bodies(t) BY DEF TypeOK
<1>2. DOMAIN cache[t].body \subseteq Aircraft /\ \A a \in DOMAIN cache[t].body : cache[t].body[a] \in Nat
  BY <1>1, BodyFacts
<1> QED BY <1>1, <1>2 DEF IsFixes, FixesOf, Fix

LEMMA GridFixesAreFixes ==
    ASSUME NEW body \in Bodies("grid") PROVE IsFixes(GridFixes(body))
BY BodyFacts, AgesAssumption DEF IsFixes, GridFixes, Fix

\* The union of the feeds has every aircraft that a live feed covers, as fresh as in any.
LEMMA FeedsAreFreshest ==
    ASSUME TypeOK
    PROVE  /\ IsFixes(FeedUnion)
           /\ \A f \in LiveFeeds : \A a \in DOMAIN cache[f].body :
                 a \in DOMAIN FeedUnion /\ ObsAge(FeedUnion[a]) <= ObsAge(FixesOf(f)[a])
<1> DEFINE least(a, f) == \A g \in Covering(a) : ObsAge(FixesOf(f)[a]) <= ObsAge(FixesOf(g)[a])
           freshest(a) == CHOOSE f \in Covering(a) : least(a, f)
           known == {b \in Aircraft : Covering(b) # {}}
<1>1. DOMAIN FeedUnion = known /\ \A a \in known : FeedUnion[a] = FixesOf(freshest(a))[a]
  BY DEF FeedUnion
<1>2. \A a, f : f \in Covering(a) => f \in Tiers /\ a \in DOMAIN cache[f].body
  BY DEF Covering, LiveFeeds, Tiers
<1>3. \A a, f : f \in Covering(a) => FixesOf(f)[a] \in Fix /\ a \in Aircraft
  BY <1>2, TierFixes DEF IsFixes
<1>4. ASSUME NEW a \in known PROVE freshest(a) \in Covering(a) /\ least(a, freshest(a))
  <2> DEFINE n == [f \in Covering(a) |-> ObsAge(FixesOf(f)[a])]
  <2>1. \A f \in Covering(a) : n[f] \in Nat /\ n[f] = ObsAge(FixesOf(f)[a])
    BY <1>3, Ages
  <2> HIDE DEF n
  <2>2. \E f \in Covering(a) : \A g \in Covering(a) : n[f] <= n[g] BY <2>1, LeastMeasure
  <2>3. \E f \in Covering(a) : least(a, f) BY <2>1, <2>2
  <2> HIDE DEF least
  <2> QED BY <2>3
<1> HIDE DEF freshest
<1>5. IsFixes(FeedUnion) BY <1>1, <1>3, <1>4 DEF IsFixes
<1>6. ASSUME NEW f \in LiveFeeds, NEW a \in DOMAIN cache[f].body
      PROVE  a \in DOMAIN FeedUnion /\ ObsAge(FeedUnion[a]) <= ObsAge(FixesOf(f)[a])
  <2>1. f \in Covering(a) BY <1>6 DEF Covering
  <2>2. a \in known BY <1>3, <2>1
  <2> QED BY <1>1, <1>4, <2>1, <2>2
<1> QED BY <1>5, <1>6

\* What a fan-out gathers, whichever of its two forms it takes.
LEMMA UnionIsFreshest ==
    ASSUME TypeOK
    PROVE  /\ IsFixes(Union)
           /\ \A t \in LiveFeeds \cup (IF SidecarServes THEN {} ELSE {"opensky", "firehose"}) :
                 \A a \in DOMAIN cache[t].body :
                    a \in DOMAIN Union /\ ObsAge(Union[a]) <= ObsAge(FixesOf(t)[a])
<1>1. CASE SidecarServes BY <1>1, FeedsAreFreshest DEF Union
<1>2. CASE ~SidecarServes
  <2> DEFINE os == FixesOf("opensky")
             fh == FixesOf("firehose")
             m == MergeRaw(os, FeedUnion)
             u == MergeRaw(m, fh)
  <2>1. Union = u BY <1>2 DEF Union
  <2>2. /\ IsFixes(os) /\ DOMAIN os = DOMAIN cache["opensky"].body
        /\ IsFixes(fh) /\ DOMAIN fh = DOMAIN cache["firehose"].body
    BY TierFixes DEF Tiers
  <2> HIDE DEF os, fh
  <2>3. /\ IsFixes(m) /\ DOMAIN m = DOMAIN os \cup DOMAIN FeedUnion
        /\ \A a \in DOMAIN os : ObsAge(m[a]) <= ObsAge(os[a])
        /\ \A a \in DOMAIN FeedUnion : ObsAge(m[a]) <= ObsAge(FeedUnion[a])
    BY <2>2, FeedsAreFreshest, MergeIsFreshest
  <2> HIDE DEF m
  <2>4. /\ IsFixes(u) /\ DOMAIN u = DOMAIN m \cup DOMAIN fh
        /\ \A a \in DOMAIN fh : ObsAge(u[a]) <= ObsAge(fh[a])
        /\ \A a \in DOMAIN m : ObsAge(u[a]) <= ObsAge(m[a])
    BY <2>2, <2>3, MergeIsFreshest
  <2> HIDE DEF u
  <2>5. \A a \in DOMAIN cache["firehose"].body : a \in DOMAIN u /\ ObsAge(u[a]) <= ObsAge(fh[a])
    BY <2>2, <2>4
  <2>6. \A a \in DOMAIN cache["opensky"].body : a \in DOMAIN u /\ ObsAge(u[a]) <= ObsAge(os[a])
    <3> TAKE a \in DOMAIN cache["opensky"].body
    <3>1. a \in DOMAIN os /\ a \in DOMAIN m /\ a \in DOMAIN u BY <2>2, <2>3, <2>4
    <3>2. ObsAge(u[a]) \in Nat /\ ObsAge(m[a]) \in Nat /\ ObsAge(os[a]) \in Nat
      BY <2>2, <2>3, <2>4, <3>1, Ages DEF IsFixes
    <3>3. ObsAge(u[a]) <= ObsAge(m[a]) /\ ObsAge(m[a]) <= ObsAge(os[a]) BY <2>3, <2>4, <3>1
    <3> QED BY <3>1, <3>2, <3>3
  <2>7. ASSUME NEW f \in LiveFeeds, NEW a \in DOMAIN cache[f].body
        PROVE  a \in DOMAIN u /\ ObsAge(u[a]) <= ObsAge(FixesOf(f)[a])
    <3> DEFINE x == FixesOf(f)[a]
               w == FeedUnion
    <3>1. IsFixes(w) /\ a \in DOMAIN w /\ ObsAge(w[a]) <= ObsAge(x) BY <2>7, FeedsAreFreshest
    <3>2. x \in Fix
      <4>1. f \in Tiers BY DEF LiveFeeds, Tiers
      <4> QED BY <2>7, <4>1, TierFixes DEF IsFixes
    <3>3. a \in DOMAIN m /\ a \in DOMAIN u BY <2>3, <2>4, <3>1
    <3> HIDE DEF x
    <3>4. /\ ObsAge(u[a]) \in Nat /\ ObsAge(m[a]) \in Nat /\ ObsAge(w[a]) \in Nat
          /\ ObsAge(x) \in Nat
      BY <2>3, <2>4, <3>1, <3>2, <3>3, Ages DEF IsFixes
    <3>5. ObsAge(u[a]) <= ObsAge(m[a]) /\ ObsAge(m[a]) <= ObsAge(w[a]) BY <2>3, <2>4, <3>1, <3>3
    <3> HIDE DEF w
    <3>6. ObsAge(u[a]) <= ObsAge(x) BY <3>1, <3>4, <3>5
    <3> QED BY <3>3, <3>6 DEF x
  <2> QED BY <1>2, <2>1, <2>4, <2>5, <2>6, <2>7 DEF os, fh
<1> QED BY <1>1, <1>2

-----------------------------------------------------------------------------
(* One cycle *)

NoneBlinks ==
    \A a \in DOMAIN snap \ DOMAIN snap' : snap[a].rx > CarryMax \/ snap[a].pos > PosCap

NoneReverses ==
    \A a \in (DOMAIN snap \cap DOMAIN snap') \ Slow :
       ObsAge(snap'[a]) > ObsAge(snap[a]) => ObsAge(snap[a]) > HoldMax

LEMMA MergedFixes ==
    ASSUME TypeOK, NEW fc, IsFixes(fc)
    PROVE  LET m == MergePrevious(fc) IN
           /\ IsFixes(m)
           /\ DOMAIN m = DOMAIN fc \cup {b \in DOMAIN snap : Carried(b)}
           /\ \A a \in DOMAIN fc :
                 \/ m[a] = fc[a] /\ ~(a \in DOMAIN snap /\ Regresses(a, fc[a]))
                 \/ m[a] = snap[a] /\ a \in DOMAIN snap /\ Regresses(a, fc[a])
           /\ \A a \in DOMAIN m \ DOMAIN fc : m[a] = snap[a] /\ a \in DOMAIN snap /\ Carried(a)
<1> DEFINE m == MergePrevious(fc)
           held(a) == a \in DOMAIN snap /\ Regresses(a, fc[a])
<1>1. /\ DOMAIN m = DOMAIN fc \cup {b \in DOMAIN snap : Carried(b)}
      /\ \A a \in DOMAIN m : m[a] = IF a \in DOMAIN fc /\ ~held(a) THEN fc[a] ELSE snap[a]
  BY DEF MergePrevious
<1>2. IsFixes(snap) BY DEF TypeOK
<1> HIDE DEF m
<1>3. \A a \in DOMAIN fc : \/ m[a] = fc[a] /\ ~held(a)
                           \/ m[a] = snap[a] /\ held(a)
  BY <1>1
<1>4. \A a \in DOMAIN m \ DOMAIN fc : m[a] = snap[a] /\ a \in DOMAIN snap /\ Carried(a)
  BY <1>1
<1>5. \A a \in DOMAIN m : m[a] \in Fix /\ a \in Aircraft BY <1>1, <1>2, <1>3, <1>4 DEF IsFixes
<1>6. IsFixes(m) BY <1>5 DEF IsFixes
<1> QED BY <1>1, <1>3, <1>4, <1>6 DEF m

LEMMA PublishKeeps ==
    ASSUME TypeOK, NEW fc, IsFixes(fc), Publish(fc)
    PROVE  /\ IsFixes(snap') /\ age' \in 0 .. MaxAge /\ dark' \in BOOLEAN /\ published' = TRUE
           /\ NoneBlinks /\ NoneReverses /\ Renewed(fc)
           /\ Accepts(MergePrevious(fc)) =>
                 \A a \in DOMAIN fc : a \in DOMAIN snap' /\ ObsAge(snap'[a]) <= ObsAge(fc[a])
<1> DEFINE m == MergePrevious(fc)
<1>1. /\ IsFixes(m)
      /\ DOMAIN m = DOMAIN fc \cup {b \in DOMAIN snap : Carried(b)}
      /\ \A a \in DOMAIN fc :
            \/ m[a] = fc[a] /\ ~(a \in DOMAIN snap /\ Regresses(a, fc[a]))
            \/ m[a] = snap[a] /\ a \in DOMAIN snap /\ Regresses(a, fc[a])
      /\ \A a \in DOMAIN m \ DOMAIN fc : m[a] = snap[a] /\ a \in DOMAIN snap /\ Carried(a)
  BY MergedFixes
<1>2. /\ Accepts(m) => snap' = m /\ age' = 0
      /\ ~Accepts(m) => snap' = snap /\ age' = age
      /\ dark' = (DOMAIN m = {}) /\ published' = TRUE
  BY DEF Publish
<1>3. /\ IsFixes(snap) /\ age \in 0 .. MaxAge
      /\ \A a \in DOMAIN snap : ObsAge(snap[a]) \in Nat /\ snap[a].rx \in Nat /\ snap[a].pos \in Nat
      /\ \A a \in DOMAIN fc : ObsAge(fc[a]) \in Nat
  BY Ages DEF TypeOK, IsFixes
<1>4. {HoldMax, StaleMax, CarryMax, PosCap, MaxAge} \subseteq Nat BY AgesAssumption
<1>5. Renewed(fc)
  <2>1. CASE DOMAIN m = {} BY <1>2, <2>1 DEF Renewed
  <2>2. CASE DOMAIN m # {} /\ ~Accepts(m)
    <3>1. ~(age >= StaleMax) BY <2>2 DEF Accepts
    <3> QED BY <1>2, <1>3, <1>4, <2>2, <3>1 DEF Renewed
  <2>3. CASE Accepts(m)
    <3>1. \A a \in DOMAIN snap' \ DOMAIN fc : snap'[a].rx <= CarryMax
      BY <1>1, <1>2, <2>3 DEF Carried
    <3> QED BY <1>2, <1>4, <2>3, <3>1 DEF Renewed
  <2> QED BY <2>1, <2>2, <2>3
<1> HIDE DEF m
<1>6. NoneBlinks
  <2> SUFFICES ASSUME NEW a \in DOMAIN snap, a \notin DOMAIN snap'
               PROVE  snap[a].rx > CarryMax \/ snap[a].pos > PosCap
    BY DEF NoneBlinks
  <2>1. Accepts(m) /\ snap' = m BY <1>2
  <2>2. ~Carried(a) BY <1>1, <2>1
  <2> QED BY <1>3, <1>4, <2>2 DEF Carried
<1>7. NoneReverses
  <2> SUFFICES ASSUME NEW a \in DOMAIN snap, a \in DOMAIN snap', a \notin Slow,
                      ObsAge(snap'[a]) > ObsAge(snap[a])
               PROVE  ObsAge(snap[a]) > HoldMax
    BY DEF NoneReverses
  <2>1. ~(ObsAge(snap[a]) > ObsAge(snap[a])) BY <1>3
  <2>2. Accepts(m) /\ snap' = m BY <1>2, <2>1
  <2>3. m[a] # snap[a] BY <2>1, <2>2
  <2>4. a \in DOMAIN fc /\ m[a] = fc[a] /\ ~Regresses(a, fc[a]) BY <1>1, <2>2, <2>3
  <2>5. ~(ObsAge(snap[a]) <= HoldMax) BY <2>2, <2>4 DEF Regresses
  <2> QED BY <1>3, <1>4, <2>5
<1>8. ASSUME Accepts(m), NEW a \in DOMAIN fc
      PROVE  a \in DOMAIN snap' /\ ObsAge(snap'[a]) <= ObsAge(fc[a])
  <2>1. snap' = m /\ a \in DOMAIN m BY <1>1, <1>2, <1>8
  <2>2. CASE m[a] = fc[a] BY <1>3, <2>1, <2>2
  <2>3. CASE m[a] = snap[a] /\ a \in DOMAIN snap /\ Regresses(a, fc[a])
    BY <1>3, <2>1, <2>3 DEF Regresses
  <2> QED BY <1>1, <2>2, <2>3
<1>9. IsFixes(snap') /\ age' \in 0 .. MaxAge /\ dark' \in BOOLEAN
  BY <1>1, <1>2, <1>3, <1>4
<1> QED BY <1>2, <1>5, <1>6, <1>7, <1>8, <1>9 DEF m

\* A fan-out keeps the tiers, and asks OpenSky when it is due only.
LEMMA FanOutKeeps ==
    ASSUME TypeOK, Budget, FanOutEffects
    PROVE  /\ pull' \in [Tiers -> {"idle", "flying", "armed"}] /\ pulledToday' \in Nat
           /\ DOMAIN cache' = Tiers
           /\ \A t \in Tiers : cache'[t] \in [age : 0 .. MaxAge, body : Bodies(t)]
           /\ Budget'
<1> DEFINE read == IF SidecarServes THEN Feeds ELSE Tiers
           more == IF "opensky" \in read /\ pull["opensky"] = "idle" THEN 1 ELSE 0
<1>1. /\ cache' = [t \in Tiers |-> IF t \in Feeds \ LiveFeeds THEN Empty ELSE cache[t]]
      /\ pull' = [t \in Tiers |-> IF t \in read /\ pull[t] = "idle" THEN "flying" ELSE pull[t]]
      /\ pulledToday' = pulledToday + more
  BY DEF FanOutEffects, Kick
<1> HIDE DEF read
<1>2. pull' \in [Tiers -> {"idle", "flying", "armed"}] BY <1>1 DEF TypeOK
<1>3. "opensky" \in Tiers BY DEF Tiers
<1>4. pulledToday' \in Nat /\ Budget'
  <2>1. CASE "opensky" \in read /\ pull["opensky"] = "idle"
    <3>1. pulledToday = 0 /\ pulledToday' = 1 /\ pull'["opensky"] = "flying"
      BY <1>1, <1>3, <2>1 DEF Budget, TypeOK
    <3> QED BY <3>1 DEF Budget
  <2>2. CASE ~("opensky" \in read /\ pull["opensky"] = "idle")
    <3>1. pulledToday' = pulledToday /\ pull'["opensky"] = pull["opensky"]
      BY <1>1, <1>3, <2>2 DEF TypeOK
    <3> QED BY <3>1 DEF Budget, TypeOK
  <2> QED BY <2>1, <2>2
<1>5. \A t \in Tiers : cache'[t] \in [age : 0 .. MaxAge, body : Bodies(t)]
  <2>1. \A t \in Tiers : Empty \in [age : 0 .. MaxAge, body : Bodies(t)]
    BY AgesAssumption DEF Empty, Bodies
  <2> QED BY <1>1, <2>1 DEF TypeOK
<1> QED BY <1>1, <1>2, <1>4, <1>5

-----------------------------------------------------------------------------
(* Every step keeps the invariant, blinks no contact and turns none back *)

Kept == SnapshotInv' /\ NoneBlinks /\ (Tick \/ NoneReverses)

\* A step that leaves the snapshot alone.
LEMMA SameSnapshot ==
    ASSUME TypeOK, snap' = snap PROVE NoneBlinks /\ NoneReverses
<1>1. \A a \in DOMAIN snap : ~(ObsAge(snap[a]) > ObsAge(snap[a]))
  BY Ages DEF TypeOK, IsFixes
<1> QED BY <1>1 DEF NoneBlinks, NoneReverses

LEMMA BootBeginKeeps == ASSUME SnapshotInv, BootBegin PROVE Kept
<1>1. /\ phase = "off" /\ phase' = "boot" /\ fan' = Union /\ FanOutEffects
      /\ UNCHANGED <<sidecarOnly, snap, age, published, dark>>
  BY DEF BootBegin
<1>2. SnapshotInv'
  BY <1>1, FanOutKeeps, UnionIsFreshest DEF SnapshotInv, TypeOK, NothingYet
<1> QED BY <1>1, <1>2, SameSnapshot DEF Kept, SnapshotInv

LEMMA BootEndKeeps == ASSUME SnapshotInv, NEW body \in Bodies("grid"), BootEnd(body) PROVE Kept
<1> DEFINE merged == MergeRaw(fan, GridFixes(body))
           first == IF Cardinality(DOMAIN fan) < Thin THEN merged ELSE fan
<1>1. /\ phase = "boot" /\ fan' = NoFixes /\ phase' = "idle"
      /\ \/ snap' = first /\ age' = 0
         \/ snap' = snap /\ age' = age
      /\ UNCHANGED <<sidecarOnly, pull, pulledToday, cache, published, dark>>
  BY DEF BootEnd
<1>2. IsFixes(merged)
  BY GridFixesAreFixes, MergeIsFreshest DEF SnapshotInv, TypeOK
<1> HIDE DEF merged
<1>3. IsFixes(first) BY <1>2 DEF SnapshotInv, TypeOK
<1> HIDE DEF first
<1>4. IsFixes(snap') /\ age' \in 0 .. MaxAge BY <1>1, <1>3, AgesAssumption DEF SnapshotInv, TypeOK
<1>5. SnapshotInv' BY <1>1, <1>4, NoneAreFixes DEF SnapshotInv, TypeOK, NothingYet, Budget
<1>6. DOMAIN snap = {} BY <1>1 DEF SnapshotInv, NothingYet
<1> QED BY <1>5, <1>6 DEF Kept, NoneBlinks, NoneReverses

LEMMA CycleKeeps == ASSUME SnapshotInv, Cycle PROVE Kept
<1>1. /\ phase = "idle" /\ Publish(Union) /\ FanOutEffects
      /\ UNCHANGED <<sidecarOnly, phase, fan>>
  BY DEF Cycle
<1>2. SnapshotInv'
  BY <1>1, PublishKeeps, FanOutKeeps, UnionIsFreshest DEF SnapshotInv, TypeOK, NothingYet
<1> QED BY <1>1, <1>2, PublishKeeps, UnionIsFreshest DEF Kept, SnapshotInv

LEMMA CycleThinKeeps == ASSUME SnapshotInv, CycleThin PROVE Kept
<1>1. /\ phase = "idle" /\ phase' = "grid" /\ fan' = Union /\ FanOutEffects
      /\ UNCHANGED <<sidecarOnly, snap, age, published, dark>>
  BY DEF CycleThin
<1>2. SnapshotInv'
  BY <1>1, FanOutKeeps, UnionIsFreshest DEF SnapshotInv, TypeOK, NothingYet
<1> QED BY <1>1, <1>2, SameSnapshot DEF Kept, SnapshotInv

LEMMA CycleGridKeeps ==
    ASSUME SnapshotInv, NEW body \in Bodies("grid"), CycleGrid(body)
    PROVE  Kept /\ Renewed(MergeRaw(fan, GridFixes(body)))
<1> DEFINE u == MergeRaw(fan, GridFixes(body))
<1>1. /\ phase = "grid" /\ Publish(u) /\ phase' = "idle" /\ fan' = NoFixes
      /\ UNCHANGED <<sidecarOnly, pull, pulledToday, cache>>
  BY DEF CycleGrid
<1>2. IsFixes(u) BY GridFixesAreFixes, MergeIsFreshest DEF SnapshotInv, TypeOK
<1> HIDE DEF u
<1>3. SnapshotInv'
  BY <1>1, <1>2, PublishKeeps, NoneAreFixes DEF SnapshotInv, TypeOK, NothingYet, Budget
<1> QED BY <1>1, <1>2, <1>3, PublishKeeps DEF Kept, SnapshotInv, u

LEMMA PullEndsKeeps ==
    ASSUME SnapshotInv, NEW t \in Tiers, NEW body \in Bodies(t), PullEnds(t, body) PROVE Kept
<1>1. /\ pull[t] = "flying" /\ pull' = [pull EXCEPT ![t] = "armed"]
      /\ \/ cache' = cache
         \/ cache' = [cache EXCEPT ![t] = [age |-> 0, body |-> body]]
      /\ UNCHANGED <<sidecarOnly, phase, pulledToday, fan, snap, age, published, dark>>
  BY DEF PullEnds
<1>2. \A u \in Tiers : cache'[u] \in [age : 0 .. MaxAge, body : Bodies(u)]
  <2>1. [age |-> 0, body |-> body] \in [age : 0 .. MaxAge, body : Bodies(t)]
    BY AgesAssumption
  <2>2. \A u \in Tiers : cache'[u] = cache[u] \/ (u = t /\ cache'[u] = [age |-> 0, body |-> body])
    BY <1>1 DEF SnapshotInv, TypeOK
  <2> QED BY <2>1, <2>2 DEF SnapshotInv, TypeOK
<1>3. SnapshotInv' BY <1>1, <1>2 DEF SnapshotInv, TypeOK, NothingYet, Budget
<1> QED BY <1>1, <1>3, SameSnapshot DEF Kept, SnapshotInv

LEMMA MidnightKeeps == ASSUME SnapshotInv, Midnight PROVE Kept
<1>1. /\ pull' = [pull EXCEPT !["opensky"] = IF @ = "armed" THEN "idle" ELSE @]
      /\ pulledToday' = 0
      /\ UNCHANGED <<sidecarOnly, phase, cache, fan, snap, age, published, dark>>
  BY DEF Midnight
<1>2. pull' \in [Tiers -> {"idle", "flying", "armed"}] BY <1>1 DEF SnapshotInv, TypeOK
<1>3. SnapshotInv' BY <1>1, <1>2 DEF SnapshotInv, TypeOK, NothingYet, Budget
<1> QED BY <1>1, <1>3, SameSnapshot DEF Kept, SnapshotInv

LEMMA AgedFixes ==
    ASSUME NEW fc, IsFixes(fc) PROVE IsFixes(AgeFixes(fc)) /\ DOMAIN AgeFixes(fc) = DOMAIN fc
<1>1. ASSUME NEW a \in DOMAIN fc PROVE [fc[a] EXCEPT !.rx = Older(@)] \in Fix
  <2>1. fc[a] \in Fix /\ Older(fc[a].rx) \in 0 .. MaxAge
    BY AgesAssumption DEF IsFixes, Fix, Older
  <2> QED BY <2>1 DEF Fix
<1> QED BY <1>1 DEF IsFixes, AgeFixes

LEMMA TickKeeps == ASSUME SnapshotInv, Tick PROVE Kept
<1>1. \A n \in 0 .. MaxAge : Older(n) \in 0 .. MaxAge BY AgesAssumption DEF Older
<1>2. /\ published' = FALSE /\ age' = Older(age) /\ snap' = AgeFixes(snap) /\ fan' = AgeFixes(fan)
      /\ cache' = [t \in Tiers |->
                     IF cache[t] = Empty THEN Empty ELSE [cache[t] EXCEPT !.age = Older(@)]]
      /\ pull' = [t \in Tiers |->
                    IF t # "opensky" /\ pull[t] = "armed" THEN "idle" ELSE pull[t]]
      /\ UNCHANGED <<sidecarOnly, phase, pulledToday, dark>>
  BY DEF Tick
<1>3. /\ IsFixes(snap') /\ DOMAIN snap' = DOMAIN snap /\ IsFixes(fan')
  BY <1>2, AgedFixes DEF SnapshotInv, TypeOK
<1>4. \A t \in Tiers : cache'[t] \in [age : 0 .. MaxAge, body : Bodies(t)]
  <2> TAKE t \in Tiers
  <2>1. cache[t] \in [age : 0 .. MaxAge, body : Bodies(t)] BY DEF SnapshotInv, TypeOK
  <2>2. Older(cache[t].age) \in 0 .. MaxAge BY <1>1, <2>1
  <2>3. cache'[t] = cache[t] \/ cache'[t] = [cache[t] EXCEPT !.age = Older(cache[t].age)]
    BY <1>2
  <2> QED BY <2>1, <2>2, <2>3
<1>5. pull' \in [Tiers -> {"idle", "flying", "armed"}] /\ pull'["opensky"] = pull["opensky"]
  BY <1>2 DEF SnapshotInv, TypeOK, Tiers
<1>6. SnapshotInv' BY <1>1, <1>2, <1>3, <1>4, <1>5 DEF SnapshotInv, TypeOK, NothingYet, Budget
<1> QED BY <1>3, <1>6 DEF Kept, NoneBlinks

LEMMA SnapshotStep == SnapshotInv /\ [Next]_vars => Kept
<1> SUFFICES ASSUME SnapshotInv, [Next]_vars PROVE Kept OBVIOUS
<1>1. ASSUME UNCHANGED vars PROVE Kept
  BY <1>1, SameSnapshot DEF vars, Kept, SnapshotInv, TypeOK, NothingYet, Budget
<1>2. ASSUME StartSnapshot PROVE Kept
  BY <1>2, SameSnapshot DEF StartSnapshot, Kept, SnapshotInv, TypeOK, NothingYet, Budget
<1> QED
  BY <1>1, <1>2, BootBeginKeeps, BootEndKeeps, CycleKeeps, CycleThinKeeps, CycleGridKeeps,
     PullEndsKeeps, MidnightKeeps, TickKeeps
  DEF Next

LEMMA SnapshotInitially == Init => SnapshotInv
<1> SUFFICES ASSUME Init PROVE SnapshotInv OBVIOUS
<1>1. \A t \in Tiers : Empty \in [age : 0 .. MaxAge, body : Bodies(t)]
  BY AgesAssumption DEF Empty, Bodies
<1>2. age \in 0 .. MaxAge BY AgesAssumption DEF Init
<1>3. TypeOK BY <1>1, <1>2, NoneAreFixes DEF Init, TypeOK
<1> QED BY <1>3, NoneAreFixes DEF Init, SnapshotInv, NothingYet, Budget

LEMMA IsInvariant == Spec => []SnapshotInv
<1>1. SnapshotInv /\ [Next]_vars => SnapshotInv' BY SnapshotStep DEF Kept
<1> QED BY <1>1, SnapshotInitially, PTL DEF Spec

\* The daily gate of OpenSky holds, whatever pulls fail or cross midnight.
THEOREM AskedOnceADay == Spec => []PullBudget
<1>1. SnapshotInv => PullBudget BY DEF SnapshotInv, Budget, PullBudget
<1> QED BY <1>1, IsInvariant, PTL

\* _merge_with_previous: no contact blinks, however coverage flips between the tiers.
THEOREM NothingBlinks == Spec => NoBlink
<1>1. SnapshotInv /\ [Next]_vars =>
        [\A a \in DOMAIN snap \ DOMAIN snap' : snap[a].rx > CarryMax \/ snap[a].pos > PosCap]_vars
  BY SnapshotStep DEF Kept, NoneBlinks
<1> QED BY <1>1, IsInvariant, PTL DEF Spec, NoBlink

\* _regresses: no fast contact flies backwards within the hold, whichever tier won.
THEOREM NothingReverses == Spec => NeverBackwards
<1>1. SnapshotInv /\ [Next]_vars =>
        [Tick \/ \A a \in (DOMAIN snap \cap DOMAIN snap') \ Slow :
                    ObsAge(snap'[a]) > ObsAge(snap[a]) => ObsAge(snap[a]) > HoldMax]_vars
  BY SnapshotStep DEF Kept, NoneReverses
<1> QED BY <1>1, IsInvariant, PTL DEF Spec, NeverBackwards

\* _merge_raw_into, _readsb_feeds: what a cycle accepts is, of every aircraft, at least
\* as fresh as what any tier in use had cached.
THEOREM AcceptedIsFreshest == Spec => FreshestServed
<1>1. SnapshotInv /\ [Next]_vars =>
        [Cycle /\ Accepts(MergePrevious(Union)) =>
           \A t \in LiveFeeds \cup (IF SidecarServes THEN {} ELSE {"opensky", "firehose"}) :
              \A a \in DOMAIN cache[t].body :
                 /\ a \in DOMAIN snap'
                 /\ ObsAge(snap'[a]) <= ObsAge(FixesOf(t)[a])]_vars
  <2> SUFFICES ASSUME SnapshotInv, Cycle, Accepts(MergePrevious(Union)),
                      NEW t \in LiveFeeds
                                \cup (IF SidecarServes THEN {} ELSE {"opensky", "firehose"}),
                      NEW a \in DOMAIN cache[t].body
               PROVE  a \in DOMAIN snap' /\ ObsAge(snap'[a]) <= ObsAge(FixesOf(t)[a])
    OBVIOUS
  <2> DEFINE u == Union
             x == FixesOf(t)[a]
  <2>1. TypeOK /\ Publish(u) BY DEF SnapshotInv, Cycle
  <2>2. IsFixes(u) /\ a \in DOMAIN u /\ ObsAge(u[a]) <= ObsAge(x) BY <2>1, UnionIsFreshest
  <2>3. t \in Tiers BY DEF LiveFeeds, Tiers
  <2>4. x \in Fix BY <2>1, <2>3, TierFixes DEF IsFixes
  <2> HIDE DEF u, x
  <2>5. IsFixes(snap') /\ a \in DOMAIN snap' /\ ObsAge(snap'[a]) <= ObsAge(u[a])
    BY <2>1, <2>2, PublishKeeps DEF u
  <2>6. ObsAge(snap'[a]) \in Nat /\ ObsAge(u[a]) \in Nat /\ ObsAge(x) \in Nat
    BY <2>2, <2>4, <2>5, Ages DEF IsFixes
  <2>7. ObsAge(snap'[a]) <= ObsAge(x) BY <2>2, <2>5, <2>6
  <2> QED BY <2>5, <2>7 DEF x
<1> QED BY <1>1, IsInvariant, PTL DEF Spec, FreshestServed

\* _refresh_snapshot_forever: no snapshot outlives the stale limit unless the sky is dark,
\* and a renewed one carries nothing past the carry window.
THEOREM AlwaysRenewed == Spec => NotLockedOut
<1>1. SnapshotInv /\ [Next]_vars =>
        [/\ Cycle => Renewed(Union)
         /\ \A body \in Bodies("grid") :
               CycleGrid(body) => Renewed(MergeRaw(fan, GridFixes(body)))]_vars
  <2>1. SnapshotInv /\ Cycle => Renewed(Union)
    BY PublishKeeps, UnionIsFreshest DEF SnapshotInv, Cycle
  <2>2. SnapshotInv => \A body \in Bodies("grid") :
                   CycleGrid(body) => Renewed(MergeRaw(fan, GridFixes(body)))
    BY CycleGridKeeps
  <2> QED BY <2>1, <2>2
<1> QED BY <1>1, IsInvariant, PTL DEF Spec, NotLockedOut

-----------------------------------------------------------------------------
(* The sidecar *)

Up(p) == proc[p] \notin {"dead", "boots"}
Tracks(b, p) == own[b] = p \/ reuse[b] = p
Running(b) == pc[b] \notin {"stop", "gone"}

\* Whoever is past booting holds the port, and signals go to the living.
PortInv ==
    /\ holder # None => Up(holder)
    /\ \A p \in Pids : Up(p) => holder = p
    /\ \A p \in termed : proc[p] # "dead"

\* What start() read of the port has never been a process that boots since, and
\* what is evicted is dead or was sent its signal, on the ADS-B feed for hanging.
SeenInv ==
    \A b \in Backends :
       /\ pc[b] \in {"serving", "evict"} => seen[b] # None
       /\ seen[b] # None => proc[seen[b]] # "boots"
       /\ pc[b] = "evict" /\ kind = "adsb" => proc[seen[b]] \in {"dead", "hung"}

\* A process that boots has one parent, which waits for it, and nobody adopted it.
ChildInv ==
    \A b \in Backends :
       /\ pc[b] = "child" => own[b] # None
       /\ own[b] # None => (proc[own[b]] = "boots" =>
             /\ pc[b] = "child" /\ own[b] \notin termed
             /\ \A c \in Backends \ {b} : own[c] # own[b])
       /\ reuse[b] # None => proc[reuse[b]] # "boots"

\* A backend that runs tracks what it claimed, and nothing of it is alive when it
\* decides to spawn; one that stops waits for it, unless it dies by itself.
TrackInv ==
    \A b \in Backends, p \in Pids :
       /\ Tracks(b, p) /\ proc[p] # "dead" =>
             /\ pc[b] \in {"serving", "evict"} => p = seen[b]
             /\ pc[b] # "spawn"
       /\ p \in kills[b] => proc[p] = "dead" \/ p \in termed
       /\ b \notin killed /\ b \in claimed[p] /\ proc[p] # "dead" =>
             /\ Running(b) => Tracks(b, p)
             /\ pc[b] = "stop" => p \in kills[b] \/ (proc[p] = "boots" /\ p \in termed)
             /\ pc[b] = "gone" => proc[p] = "boots" /\ p \in termed

\* What a backend's spawns may be put down to.
Torn(b) == {c \in Backends \ {b} : pc[c] \in {"stop", "gone"}}
Causes(b) == faults + Cardinality(Torn(b))

Doomed == holder # None /\ (proc[holder] = "hung" \/ holder \in termed)
Decided(b) == pc[b] \in {"evict", "spawn"} \/ (pc[b] = "serving" /\ seen[b] # holder)
Waits(b) == pc[b] = "child" /\ proc[own[b]] = "boots"
Spawns(b) == IF Decided(b) THEN spawned[b] + 1 ELSE spawned[b]

StormInv ==
    kind = "adsb" =>
       \A b \in Backends :
          /\ spawned[b] <= 1 + Causes(b)
          /\ Running(b) =>
                /\ Spawns(b) <= 1 + Causes(b)
                /\ Doomed /\ ~(pc[b] = "evict" /\ holder = seen[b]) => Spawns(b) <= Causes(b)
                /\ holder = None /\ ~Decided(b) /\ ~Waits(b) => spawned[b] <= Causes(b)

PortsInv == SidecarTypeOK /\ PortInv /\ SeenInv /\ ChildInv
SidecarInv == PortsInv /\ TrackInv /\ StormInv

\* Causes only accumulate: no backend comes back from its teardown.
CausesGrowAs(grown) ==
    \A c \in Backends :
       Causes(c) \in Nat /\ Causes(c)' \in Nat /\ Causes(c) + grown <= Causes(c)'

LEMMA CausesGrow ==
    ASSUME SidecarTypeOK, SidecarTypeOK', faults <= faults', \A c \in Backends : Running(c)' => Running(c)
    PROVE  CausesGrowAs(faults' - faults)
<1> SUFFICES ASSUME NEW b \in Backends
             PROVE  /\ Causes(b) \in Nat /\ Causes(b)' \in Nat
                    /\ Causes(b) + (faults' - faults) <= Causes(b)'
  BY DEF CausesGrowAs
<1>1. Torn(b) \subseteq Torn(b)' /\ Torn(b)' \subseteq Backends
  BY DEF Torn, Running
<1>2. IsFiniteSet(Torn(b)')
  BY <1>1, SidecarAssumption, FS_Subset
<1>3. /\ Cardinality(Torn(b)) \in Nat /\ Cardinality(Torn(b)') \in Nat
      /\ Cardinality(Torn(b)) <= Cardinality(Torn(b)')
  BY <1>1, <1>2, FS_Subset, FS_CardinalityType
<1> QED BY <1>3, SidecarAssumption DEF Causes, SidecarTypeOK

LEMMA BootKeeps == ASSUME SidecarInv, NEW b \in Backends, Boot(b) PROVE SidecarInv'
<1> USE SidecarAssumption DEF SidecarInv, PortsInv, Boot, state, Goto
<1>1. SidecarTypeOK' BY DEF SidecarTypeOK, InStart, PortInv, SeenInv
<1>2. PortInv' BY DEF SidecarTypeOK, PortInv, SeenInv, ChildInv, TrackInv, Up
<1>3. SeenInv' /\ ChildInv' BY DEF SidecarTypeOK, PortInv, SeenInv, ChildInv, Up
<1>4. TrackInv' BY DEF SidecarTypeOK, PortInv, SeenInv, ChildInv, TrackInv, Up, Tracks, Running, InStart
<1>5. CausesGrowAs(faults' - faults)
  <2>1. faults <= faults' BY DEF SidecarTypeOK
  <2>2. \A c \in Backends : Running(c)' => Running(c) BY DEF SidecarTypeOK, Running
  <2> QED BY <1>1, <2>1, <2>2, CausesGrow
<1>6. StormInv'
  BY <1>1, <1>5 DEF SidecarTypeOK, PortInv, SeenInv, ChildInv, TrackInv, StormInv, CausesGrowAs, Up, Running,
                    Doomed, Decided, Waits, Spawns
<1> QED BY <1>1, <1>2, <1>3, <1>4, <1>6

LEMMA ProbeKeeps == ASSUME SidecarInv, NEW b \in Backends, Probe(b) PROVE SidecarInv'
<1> USE SidecarAssumption DEF SidecarInv, PortsInv, Probe, state, Goto, Healthy
<1>1. SidecarTypeOK' BY DEF SidecarTypeOK, InStart, PortInv, SeenInv
<1>2. PortInv' BY DEF SidecarTypeOK, PortInv, SeenInv, ChildInv, TrackInv, Up
<1>3. SeenInv' /\ ChildInv' BY DEF SidecarTypeOK, PortInv, SeenInv, ChildInv, Up
<1>4. TrackInv' BY DEF SidecarTypeOK, PortInv, SeenInv, ChildInv, TrackInv, Up, Tracks, Running, InStart
<1>5. CausesGrowAs(faults' - faults)
  <2>1. faults <= faults' BY DEF SidecarTypeOK
  <2>2. \A c \in Backends : Running(c)' => Running(c) BY DEF SidecarTypeOK, Running
  <2> QED BY <1>1, <2>1, <2>2, CausesGrow
<1>6. StormInv'
  BY <1>1, <1>5 DEF SidecarTypeOK, PortInv, SeenInv, ChildInv, TrackInv, StormInv, CausesGrowAs, Up, Running,
                    Doomed, Decided, Waits, Spawns
<1> QED BY <1>1, <1>2, <1>3, <1>4, <1>6

LEMMA ReuseHolderKeeps == ASSUME SidecarInv, NEW b \in Backends, ReuseHolder(b) PROVE SidecarInv'
<1> USE SidecarAssumption DEF SidecarInv, PortsInv, ReuseHolder, Adopt, Return, Goto
<1>1. SidecarTypeOK' BY DEF SidecarTypeOK, InStart, PortInv, SeenInv
<1>2. PortInv' BY DEF SidecarTypeOK, PortInv, SeenInv, ChildInv, TrackInv, Up
<1>3. SeenInv' /\ ChildInv' BY DEF SidecarTypeOK, PortInv, SeenInv, ChildInv, Up
<1>4. TrackInv' BY DEF SidecarTypeOK, PortInv, SeenInv, ChildInv, TrackInv, Up, Tracks, Running, InStart
<1>5. CausesGrowAs(faults' - faults)
  <2>1. faults <= faults' BY DEF SidecarTypeOK
  <2>2. \A c \in Backends : Running(c)' => Running(c) BY DEF SidecarTypeOK, Running
  <2> QED BY <1>1, <2>1, <2>2, CausesGrow
<1>6. StormInv'
  BY <1>1, <1>5 DEF SidecarTypeOK, PortInv, SeenInv, ChildInv, TrackInv, StormInv, CausesGrowAs, Up, Running,
                    Doomed, Decided, Waits, Spawns
<1> QED BY <1>1, <1>2, <1>3, <1>4, <1>6

LEMMA ReadHolderKeeps == ASSUME SidecarInv, NEW b \in Backends, ReadHolder(b) PROVE SidecarInv'
<1> USE SidecarAssumption DEF SidecarInv, PortsInv
<1>0. /\ pc[b] = "holder" /\ seen' = [seen EXCEPT ![b] = holder]
      /\ \/ holder = None /\ pc' = [pc EXCEPT ![b] = "spawn"] /\ termed' = termed
         \/ /\ holder # None /\ kind = "adsb"
            /\ pc' = [pc EXCEPT ![b] = "serving"] /\ termed' = termed
         \/ /\ holder # None /\ kind = "ais"
            /\ pc' = [pc EXCEPT ![b] = "evict"] /\ termed' = termed \cup {holder}
      /\ UNCHANGED <<kind, proc, holder, booted, own, reuse, kills, faults, claimed, spawned, killed>>
  <2> USE DEF ReadHolder, Goto, Terminate
  <2>1. CASE holder = None BY <2>1
  <2>2. CASE holder # None /\ kind = "adsb" BY <2>2
  <2>3. CASE holder # None /\ kind = "ais" BY <2>3 DEF PortInv, Up
  <2> QED BY <2>1, <2>2, <2>3 DEF SidecarTypeOK
<1>1. SidecarTypeOK' BY <1>0 DEF SidecarTypeOK, InStart
<1>2. PortInv' BY <1>0 DEF SidecarTypeOK, PortInv, Up
<1>3. SeenInv' BY <1>0 DEF SidecarTypeOK, PortInv, SeenInv, Up
<1>4. ChildInv' /\ TrackInv'
  BY <1>0 DEF SidecarTypeOK, PortInv, ChildInv, TrackInv, Up, Tracks, Running
<1>5. CausesGrowAs(0)
  <2>1. faults' - faults = 0 /\ faults <= faults' BY <1>0 DEF SidecarTypeOK
  <2>2. \A c \in Backends : Running(c)' => Running(c) BY <1>0 DEF SidecarTypeOK, Running
  <2> QED BY <1>1, <2>1, <2>2, CausesGrow
<1>6. StormInv'
  BY <1>0, <1>5 DEF SidecarTypeOK, PortInv, StormInv, CausesGrowAs, Up, Running, Doomed, Decided, Waits, Spawns
<1> QED BY <1>1, <1>2, <1>3, <1>4, <1>6

LEMMA ProbeHolderKeeps == ASSUME SidecarInv, NEW b \in Backends, ProbeHolder(b) PROVE SidecarInv'
<1> USE SidecarAssumption DEF SidecarInv, PortsInv, ProbeHolder, Adopt, Goto, Terminate, Serving
<1>1. SidecarTypeOK' BY DEF SidecarTypeOK, InStart, PortInv, SeenInv
<1>2. PortInv' BY DEF SidecarTypeOK, PortInv, SeenInv, ChildInv, TrackInv, Up
<1>3. SeenInv' /\ ChildInv' BY DEF SidecarTypeOK, PortInv, SeenInv, ChildInv, Up
<1>4. TrackInv' BY DEF SidecarTypeOK, PortInv, SeenInv, ChildInv, TrackInv, Up, Tracks, Running, InStart
<1>5. CausesGrowAs(faults' - faults)
  <2>1. faults <= faults' BY DEF SidecarTypeOK
  <2>2. \A c \in Backends : Running(c)' => Running(c) BY DEF SidecarTypeOK, Running
  <2> QED BY <1>1, <2>1, <2>2, CausesGrow
<1>6. StormInv'
  BY <1>1, <1>5 DEF SidecarTypeOK, PortInv, SeenInv, ChildInv, TrackInv, StormInv, CausesGrowAs, Up, Running,
                    Doomed, Decided, Waits, Spawns
<1> QED BY <1>1, <1>2, <1>3, <1>4, <1>6

LEMMA EvictedKeeps == ASSUME SidecarInv, NEW b \in Backends, Evicted(b) PROVE SidecarInv'
<1> USE SidecarAssumption DEF SidecarInv, PortsInv, Evicted, Goto, Die
<1>1. SidecarTypeOK' BY DEF SidecarTypeOK, InStart, PortInv, SeenInv
<1>2. PortInv' BY DEF SidecarTypeOK, PortInv, SeenInv, ChildInv, TrackInv, Up
<1>3. SeenInv' /\ ChildInv' BY DEF SidecarTypeOK, PortInv, SeenInv, ChildInv, Up
<1>4. TrackInv' BY DEF SidecarTypeOK, PortInv, SeenInv, ChildInv, TrackInv, Up, Tracks, Running, InStart
<1>5. CausesGrowAs(faults' - faults)
  <2>1. faults <= faults' BY DEF SidecarTypeOK
  <2>2. \A c \in Backends : Running(c)' => Running(c) BY DEF SidecarTypeOK, Running
  <2> QED BY <1>1, <2>1, <2>2, CausesGrow
<1>6. StormInv'
  BY <1>1, <1>5 DEF SidecarTypeOK, PortInv, SeenInv, ChildInv, TrackInv, StormInv, CausesGrowAs, Up, Running,
                    Doomed, Decided, Waits, Spawns
<1> QED BY <1>1, <1>2, <1>3, <1>4, <1>6

LEMMA SpawnKeeps == ASSUME SidecarInv, NEW b \in Backends, Spawn(b) PROVE SidecarInv'
<1> USE SidecarAssumption DEF SidecarInv, PortsInv
<1> DEFINE q == CHOOSE p \in FreePids : TRUE
<1>1. /\ q \in Pids /\ proc[q] = "dead"
      /\ \A c \in Backends : q # seen[c] /\ q \notin kills[c] /\ ~(pc[c] = "child" /\ q = own[c])
  <2>1. q \in FreePids BY DEF Spawn
  <2> QED BY <2>1 DEF FreePids
<1>2. /\ pc[b] = "spawn" /\ pc' = [pc EXCEPT ![b] = "child"]
      /\ proc' = [proc EXCEPT ![q] = "boots"]
      /\ own' = [c \in Backends |-> IF c = b THEN q ELSE IF own[c] = q THEN None ELSE own[c]]
      /\ reuse' = [c \in Backends |-> IF reuse[c] = q THEN None ELSE reuse[c]]
      /\ claimed' = [claimed EXCEPT ![q] = {b}]
      /\ spawned' = [spawned EXCEPT ![b] = IF @ < SpawnCap THEN @ + 1 ELSE @]
      /\ UNCHANGED <<kind, holder, termed, booted, seen, kills, faults, killed>>
  BY DEF Spawn, Goto, Forget
<1> HIDE DEF q
<1>3. SpawnCap \in Nat BY FS_CardinalityType DEF SpawnCap
<1>4. SidecarTypeOK' BY <1>1, <1>2, <1>3 DEF SidecarTypeOK, InStart
<1>5. PortInv' BY <1>1, <1>2 DEF SidecarTypeOK, PortInv, Up
<1>6. SeenInv' BY <1>1, <1>2 DEF SidecarTypeOK, SeenInv
<1>7. ChildInv' BY <1>1, <1>2 DEF SidecarTypeOK, ChildInv, PortInv, TrackInv, Tracks
<1>8. TrackInv' BY <1>1, <1>2 DEF SidecarTypeOK, TrackInv, Tracks, Running
<1>9. CausesGrowAs(0)
  <2>1. faults <= faults' BY <1>2 DEF SidecarTypeOK
  <2>2. \A c \in Backends : Running(c)' => Running(c) BY <1>2 DEF SidecarTypeOK, Running
  <2>3. faults' - faults = 0 BY <1>2 DEF SidecarTypeOK
  <2> QED BY <1>4, <2>1, <2>2, <2>3, CausesGrow
<1>10. StormInv'
  BY <1>1, <1>2, <1>3, <1>9 DEF CausesGrowAs, SidecarTypeOK, PortInv, SeenInv, StormInv, Up, Running, Doomed, Decided, Waits, Spawns
<1> QED BY <1>4, <1>5, <1>6, <1>7, <1>8, <1>10

LEMMA ChildSettlesKeeps == ASSUME SidecarInv, NEW b \in Backends, ChildSettles(b) PROVE SidecarInv'
<1> USE SidecarAssumption DEF SidecarInv, PortsInv, ChildSettles, Return, Goto
<1>1. SidecarTypeOK' BY DEF SidecarTypeOK, InStart, PortInv, SeenInv
<1>2. PortInv' BY DEF SidecarTypeOK, PortInv, SeenInv, ChildInv, TrackInv, Up
<1>3. SeenInv' /\ ChildInv' BY DEF SidecarTypeOK, PortInv, SeenInv, ChildInv, Up
<1>4. TrackInv' BY DEF SidecarTypeOK, PortInv, SeenInv, ChildInv, TrackInv, Up, Tracks, Running, InStart
<1>5. CausesGrowAs(faults' - faults)
  <2>1. faults <= faults' BY DEF SidecarTypeOK
  <2>2. \A c \in Backends : Running(c)' => Running(c) BY DEF SidecarTypeOK, Running
  <2> QED BY <1>1, <2>1, <2>2, CausesGrow
<1>6. StormInv'
  BY <1>1, <1>5 DEF SidecarTypeOK, PortInv, SeenInv, ChildInv, TrackInv, StormInv, CausesGrowAs, Up, Running,
                    Doomed, Decided, Waits, Spawns
<1> QED BY <1>1, <1>2, <1>3, <1>4, <1>6

LEMMA AdoptedSettlesKeeps == ASSUME SidecarInv, NEW b \in Backends, AdoptedSettles(b) PROVE SidecarInv'
<1> USE SidecarAssumption DEF SidecarInv, PortsInv, AdoptedSettles, state, Return, Goto
<1>1. SidecarTypeOK' BY DEF SidecarTypeOK, InStart, PortInv, SeenInv
<1>2. PortInv' BY DEF SidecarTypeOK, PortInv, SeenInv, ChildInv, TrackInv, Up
<1>3. SeenInv' /\ ChildInv' BY DEF SidecarTypeOK, PortInv, SeenInv, ChildInv, Up
<1>4. TrackInv' BY DEF SidecarTypeOK, PortInv, SeenInv, ChildInv, TrackInv, Up, Tracks, Running, InStart
<1>5. CausesGrowAs(faults' - faults)
  <2>1. faults <= faults' BY DEF SidecarTypeOK
  <2>2. \A c \in Backends : Running(c)' => Running(c) BY DEF SidecarTypeOK, Running
  <2> QED BY <1>1, <2>1, <2>2, CausesGrow
<1>6. StormInv'
  BY <1>1, <1>5 DEF SidecarTypeOK, PortInv, SeenInv, ChildInv, TrackInv, StormInv, CausesGrowAs, Up, Running,
                    Doomed, Decided, Waits, Spawns
<1> QED BY <1>1, <1>2, <1>3, <1>4, <1>6

LEMMA SuperviseKeeps == ASSUME SidecarInv, NEW b \in Backends, Supervise(b) PROVE SidecarInv'
<1> USE SidecarAssumption DEF SidecarInv, PortsInv, Supervise, state, Goto, Serving, Healthy, Alive
<1>1. SidecarTypeOK' BY DEF SidecarTypeOK, InStart, PortInv, SeenInv
<1>2. PortInv' BY DEF SidecarTypeOK, PortInv, SeenInv, ChildInv, TrackInv, Up
<1>3. SeenInv' /\ ChildInv' BY DEF SidecarTypeOK, PortInv, SeenInv, ChildInv, Up
<1>4. TrackInv' BY DEF SidecarTypeOK, PortInv, SeenInv, ChildInv, TrackInv, Up, Tracks, Running, InStart
<1>5. CausesGrowAs(faults' - faults)
  <2>1. faults <= faults' BY DEF SidecarTypeOK
  <2>2. \A c \in Backends : Running(c)' => Running(c) BY DEF SidecarTypeOK, Running
  <2> QED BY <1>1, <2>1, <2>2, CausesGrow
<1>6. StormInv'
  BY <1>1, <1>5 DEF SidecarTypeOK, PortInv, SeenInv, ChildInv, TrackInv, StormInv, CausesGrowAs, Up, Running,
                    Doomed, Decided, Waits, Spawns
<1> QED BY <1>1, <1>2, <1>3, <1>4, <1>6

LEMMA StopKeeps == ASSUME SidecarInv, NEW b \in Backends, Stop(b) PROVE SidecarInv'
<1> USE SidecarAssumption DEF SidecarInv, PortsInv
<1> DEFINE live == {p \in Targets(b) \ {None} : proc[p] # "dead"}
<1>1. /\ pc[b] \in InStart \cup {"run"} /\ pc' = [pc EXCEPT ![b] = "stop"]
      /\ kills' = [kills EXCEPT ![b] = live] /\ termed' = termed \cup live
      /\ own' = [own EXCEPT ![b] = None] /\ reuse' = [reuse EXCEPT ![b] = None]
      /\ seen' = [seen EXCEPT ![b] = None]
      /\ UNCHANGED <<kind, proc, holder, booted, faults, claimed, spawned, killed>>
  BY DEF Stop, Goto
<1>2. /\ live \subseteq Pids /\ \A p \in live : proc[p] # "dead"
      /\ \A p \in Pids : Tracks(b, p) /\ proc[p] # "dead" <=> p \in live
  BY DEF Targets, Tracks, SidecarTypeOK
<1>3. \A p \in live : p = own[b] \/ p = reuse[b] BY DEF Targets
<1> HIDE DEF live
<1>4. SidecarTypeOK' BY <1>1, <1>2 DEF SidecarTypeOK
<1>5. PortInv' BY <1>1, <1>2 DEF SidecarTypeOK, PortInv, Up
<1>6. SeenInv' BY <1>1, <1>2 DEF SidecarTypeOK, SeenInv
<1>7. ChildInv' BY <1>1, <1>2, <1>3 DEF SidecarTypeOK, ChildInv
<1>8. TrackInv' BY <1>1, <1>2 DEF SidecarTypeOK, TrackInv, Tracks, Running, InStart
<1>9. CausesGrowAs(0)
  <2>1. faults <= faults' BY <1>1 DEF SidecarTypeOK
  <2>2. \A c \in Backends : Running(c)' => Running(c) BY <1>1 DEF SidecarTypeOK, Running
  <2>3. faults' - faults = 0 BY <1>1 DEF SidecarTypeOK
  <2> QED BY <1>4, <2>1, <2>2, <2>3, CausesGrow
<1>10. \A c \in Backends \ {b} : Causes(c)' = Causes(c) + 1
  <2> TAKE c \in Backends \ {b}
  <2>1. Torn(c)' = Torn(c) \cup {b} /\ b \notin Torn(c)
    BY <1>1 DEF Torn, SidecarTypeOK, InStart
  <2>2. IsFiniteSet(Torn(c))
    <3>1. Torn(c) \subseteq Backends BY DEF Torn
    <3> QED BY <3>1, FS_Subset
  <2>3. Cardinality(Torn(c)') = Cardinality(Torn(c)) + 1 /\ Cardinality(Torn(c)) \in Nat
    BY <2>1, <2>2, FS_AddElement, FS_CardinalityType
  <2> QED BY <1>1, <2>3 DEF Causes, SidecarTypeOK
<1>11. StormInv'
  BY <1>1, <1>9, <1>10 DEF CausesGrowAs, SidecarTypeOK, StormInv, Running, Doomed, Decided, Waits, Spawns, InStart
<1> QED BY <1>4, <1>5, <1>6, <1>7, <1>8, <1>11

LEMMA StopReturnsKeeps == ASSUME SidecarInv, NEW b \in Backends, StopReturns(b) PROVE SidecarInv'
<1> USE SidecarAssumption DEF SidecarInv, PortsInv, StopReturns, state, Goto
<1>1. SidecarTypeOK' BY DEF SidecarTypeOK, InStart, PortInv, SeenInv
<1>2. PortInv' BY DEF SidecarTypeOK, PortInv, SeenInv, ChildInv, TrackInv, Up
<1>3. SeenInv' /\ ChildInv' BY DEF SidecarTypeOK, PortInv, SeenInv, ChildInv, Up
<1>4. TrackInv' BY DEF SidecarTypeOK, PortInv, SeenInv, ChildInv, TrackInv, Up, Tracks, Running, InStart
<1>5. CausesGrowAs(faults' - faults)
  <2>1. faults <= faults' BY DEF SidecarTypeOK
  <2>2. \A c \in Backends : Running(c)' => Running(c) BY DEF SidecarTypeOK, Running
  <2> QED BY <1>1, <2>1, <2>2, CausesGrow
<1>6. StormInv'
  BY <1>1, <1>5 DEF SidecarTypeOK, PortInv, SeenInv, ChildInv, TrackInv, StormInv, CausesGrowAs, Up, Running,
                    Doomed, Decided, Waits, Spawns
<1> QED BY <1>1, <1>2, <1>3, <1>4, <1>6

LEMMA KillBackendKeeps == ASSUME SidecarInv, NEW b \in Backends, KillBackend(b) PROVE SidecarInv'
<1> USE SidecarAssumption DEF SidecarInv, PortsInv, KillBackend, Goto, Fault
<1>1. SidecarTypeOK' BY DEF SidecarTypeOK, InStart, PortInv, SeenInv
<1>2. PortInv' BY DEF SidecarTypeOK, PortInv, SeenInv, ChildInv, TrackInv, Up
<1>3. SeenInv' /\ ChildInv' BY DEF SidecarTypeOK, PortInv, SeenInv, ChildInv, Up
<1>4. TrackInv' BY DEF SidecarTypeOK, PortInv, SeenInv, ChildInv, TrackInv, Up, Tracks, Running, InStart
<1>5. CausesGrowAs(faults' - faults)
  <2>1. faults <= faults' BY DEF SidecarTypeOK
  <2>2. \A c \in Backends : Running(c)' => Running(c) BY DEF SidecarTypeOK, Running
  <2> QED BY <1>1, <2>1, <2>2, CausesGrow
<1>6. StormInv'
  BY <1>1, <1>5 DEF SidecarTypeOK, PortInv, SeenInv, ChildInv, TrackInv, StormInv, CausesGrowAs, Up, Running,
                    Doomed, Decided, Waits, Spawns
<1> QED BY <1>1, <1>2, <1>3, <1>4, <1>6

LEMMA StoppedKeeps == ASSUME SidecarInv, NEW b \in Backends, NEW p \in Pids, Stopped(b, p) PROVE SidecarInv'
<1> USE SidecarAssumption DEF SidecarInv, PortsInv, Stopped, state, Die
<1>1. SidecarTypeOK' BY DEF SidecarTypeOK, InStart, PortInv, SeenInv
<1>2. PortInv' BY DEF SidecarTypeOK, PortInv, SeenInv, ChildInv, TrackInv, Up
<1>3. SeenInv' /\ ChildInv' BY DEF SidecarTypeOK, PortInv, SeenInv, ChildInv, Up
<1>4. TrackInv' BY DEF SidecarTypeOK, PortInv, SeenInv, ChildInv, TrackInv, Up, Tracks, Running, InStart
<1>5. CausesGrowAs(faults' - faults)
  <2>1. faults <= faults' BY DEF SidecarTypeOK
  <2>2. \A c \in Backends : Running(c)' => Running(c) BY DEF SidecarTypeOK, Running
  <2> QED BY <1>1, <2>1, <2>2, CausesGrow
<1>6. StormInv'
  BY <1>1, <1>5 DEF SidecarTypeOK, PortInv, SeenInv, ChildInv, TrackInv, StormInv, CausesGrowAs, Up, Running,
                    Doomed, Decided, Waits, Spawns
<1> QED BY <1>1, <1>2, <1>3, <1>4, <1>6

LEMMA BindKeeps == ASSUME SidecarInv, NEW p \in Pids, Bind(p) PROVE SidecarInv'
<1> USE SidecarAssumption DEF SidecarInv, PortsInv, Bind, state, Die
<1>1. SidecarTypeOK' BY DEF SidecarTypeOK, InStart, PortInv, SeenInv
<1>2. PortInv' BY DEF SidecarTypeOK, PortInv, SeenInv, ChildInv, TrackInv, Up
<1>3. SeenInv' /\ ChildInv' BY DEF SidecarTypeOK, PortInv, SeenInv, ChildInv, Up
<1>4. TrackInv' BY DEF SidecarTypeOK, PortInv, SeenInv, ChildInv, TrackInv, Up, Tracks, Running, InStart
<1>5. CausesGrowAs(faults' - faults)
  <2>1. faults <= faults' BY DEF SidecarTypeOK
  <2>2. \A c \in Backends : Running(c)' => Running(c) BY DEF SidecarTypeOK, Running
  <2> QED BY <1>1, <2>1, <2>2, CausesGrow
<1>6. StormInv'
  BY <1>1, <1>5 DEF SidecarTypeOK, PortInv, SeenInv, ChildInv, TrackInv, StormInv, CausesGrowAs, Up, Running,
                    Doomed, Decided, Waits, Spawns
<1> QED BY <1>1, <1>2, <1>3, <1>4, <1>6

LEMMA DiesOfTermKeeps == ASSUME SidecarInv, NEW p \in Pids, DiesOfTerm(p) PROVE SidecarInv'
<1> USE SidecarAssumption DEF SidecarInv, PortsInv, DiesOfTerm, state, Die
<1>1. SidecarTypeOK' BY DEF SidecarTypeOK, InStart, PortInv, SeenInv
<1>2. PortInv' BY DEF SidecarTypeOK, PortInv, SeenInv, ChildInv, TrackInv, Up
<1>3. SeenInv' /\ ChildInv' BY DEF SidecarTypeOK, PortInv, SeenInv, ChildInv, Up
<1>4. TrackInv' BY DEF SidecarTypeOK, PortInv, SeenInv, ChildInv, TrackInv, Up, Tracks, Running, InStart
<1>5. CausesGrowAs(faults' - faults)
  <2>1. faults <= faults' BY DEF SidecarTypeOK
  <2>2. \A c \in Backends : Running(c)' => Running(c) BY DEF SidecarTypeOK, Running
  <2> QED BY <1>1, <2>1, <2>2, CausesGrow
<1>6. StormInv'
  BY <1>1, <1>5 DEF SidecarTypeOK, PortInv, SeenInv, ChildInv, TrackInv, StormInv, CausesGrowAs, Up, Running,
                    Doomed, Decided, Waits, Spawns
<1> QED BY <1>1, <1>2, <1>3, <1>4, <1>6

LEMMA WarmKeeps == ASSUME SidecarInv, NEW p \in Pids, Warm(p) PROVE SidecarInv'
<1> USE SidecarAssumption DEF SidecarInv, PortsInv, Warm, state
<1>1. SidecarTypeOK' BY DEF SidecarTypeOK, InStart, PortInv, SeenInv
<1>2. PortInv' BY DEF SidecarTypeOK, PortInv, SeenInv, ChildInv, TrackInv, Up
<1>3. SeenInv' /\ ChildInv' BY DEF SidecarTypeOK, PortInv, SeenInv, ChildInv, Up
<1>4. TrackInv' BY DEF SidecarTypeOK, PortInv, SeenInv, ChildInv, TrackInv, Up, Tracks, Running, InStart
<1>5. CausesGrowAs(faults' - faults)
  <2>1. faults <= faults' BY DEF SidecarTypeOK
  <2>2. \A c \in Backends : Running(c)' => Running(c) BY DEF SidecarTypeOK, Running
  <2> QED BY <1>1, <2>1, <2>2, CausesGrow
<1>6. StormInv'
  BY <1>1, <1>5 DEF SidecarTypeOK, PortInv, SeenInv, ChildInv, TrackInv, StormInv, CausesGrowAs, Up, Running,
                    Doomed, Decided, Waits, Spawns
<1> QED BY <1>1, <1>2, <1>3, <1>4, <1>6

LEMMA FailsKeeps == ASSUME SidecarInv, NEW p \in Pids, Fails(p) PROVE SidecarInv'
<1> USE SidecarAssumption DEF SidecarInv, PortsInv, Fails, state, Die, Fault
<1>1. SidecarTypeOK' BY DEF SidecarTypeOK, InStart, PortInv, SeenInv
<1>2. PortInv' BY DEF SidecarTypeOK, PortInv, SeenInv, ChildInv, TrackInv, Up
<1>3. SeenInv' /\ ChildInv' BY DEF SidecarTypeOK, PortInv, SeenInv, ChildInv, Up
<1>4. TrackInv' BY DEF SidecarTypeOK, PortInv, SeenInv, ChildInv, TrackInv, Up, Tracks, Running, InStart
<1>5. CausesGrowAs(faults' - faults)
  <2>1. faults <= faults' BY DEF SidecarTypeOK
  <2>2. \A c \in Backends : Running(c)' => Running(c) BY DEF SidecarTypeOK, Running
  <2> QED BY <1>1, <2>1, <2>2, CausesGrow
<1>6. StormInv'
  BY <1>1, <1>5 DEF SidecarTypeOK, PortInv, SeenInv, ChildInv, TrackInv, StormInv, CausesGrowAs, Up, Running,
                    Doomed, Decided, Waits, Spawns
<1> QED BY <1>1, <1>2, <1>3, <1>4, <1>6

LEMMA SidecarInitially == SidecarInit => SidecarInv
<1> SUFFICES ASSUME SidecarInit PROVE SidecarInv OBVIOUS
<1> USE SidecarAssumption DEF SidecarInit
<1>1. SidecarTypeOK
  <2>1. SpawnCap \in Nat BY FS_CardinalityType DEF SpawnCap
  <2> QED BY <2>1 DEF SidecarTypeOK
<1>2. PortInv /\ SeenInv /\ ChildInv /\ TrackInv
  BY DEF PortInv, SeenInv, ChildInv, TrackInv, Up, Tracks
<1>3. StormInv
  <2>1. \A b \in Backends : Causes(b) \in Nat
    <3> TAKE b \in Backends
    <3>1. Torn(b) \subseteq Backends BY DEF Torn
    <3>2. Cardinality(Torn(b)) \in Nat BY <3>1, FS_Subset, FS_CardinalityType
    <3> QED BY <3>2 DEF Causes
  <2> QED BY <2>1 DEF StormInv, Doomed, Decided, Spawns
<1> QED BY <1>1, <1>2, <1>3 DEF SidecarInv, PortsInv

LEMMA SidecarStep == SidecarInv /\ [SidecarNext]_sidecarVars => SidecarInv'
<1> SUFFICES ASSUME SidecarInv, [SidecarNext]_sidecarVars PROVE SidecarInv' OBVIOUS
<1>1. ASSUME UNCHANGED sidecarVars PROVE SidecarInv'
  <2> USE <1>1 DEF sidecarVars, state
  <2>1. SidecarTypeOK' /\ PortInv' /\ SeenInv' /\ ChildInv'
    BY DEF SidecarInv, PortsInv, SidecarTypeOK, SpawnCap, PortInv, SeenInv, ChildInv, Up
  <2>2. TrackInv' BY DEF SidecarInv, TrackInv, Tracks, Running
  <2>3. StormInv'
    BY DEF SidecarInv, StormInv, Causes, Torn, Running, Doomed, Decided, Waits, Spawns
  <2> QED BY <2>1, <2>2, <2>3 DEF SidecarInv, PortsInv
<1>2. ASSUME NEW b \in Backends, Backend(b) PROVE SidecarInv'
  BY <1>2, ProbeKeeps, ReuseHolderKeeps, ReadHolderKeeps, ProbeHolderKeeps, EvictedKeeps,
     SpawnKeeps, ChildSettlesKeeps, AdoptedSettlesKeeps, SuperviseKeeps, StopReturnsKeeps,
     StoppedKeeps
  DEF Backend
<1> QED
  BY <1>1, <1>2, BootKeeps, StopKeeps, KillBackendKeeps, BindKeeps, DiesOfTermKeeps, WarmKeeps,
     FailsKeeps
  DEF SidecarNext, Process, Ended

\* The type invariant, for any number of backends, processes and faults.
THEOREM SidecarTypes == SidecarSpec => []SidecarTypeOK
<1>1. SidecarInv => SidecarTypeOK BY DEF SidecarInv, PortsInv
<1> QED BY <1>1, SidecarInitially, SidecarStep, PTL DEF SidecarSpec

\* The teardown of start(), supervise() and stop(): of what a backend spawned or
\* adopted nothing lives on after stop(), wherever the stop met it.
THEOREM StopLeavesNothing == SidecarSpec => []LeavesNothing
<1>1. SidecarInv => LeavesNothing BY DEF SidecarInv, PortsInv, TrackInv, LeavesNothing
<1> QED BY <1>1, SidecarInitially, SidecarStep, PTL DEF SidecarSpec

\* supervise() on the ADS-B feed: beyond its first sidecar a backend spawns at most
\* one for each fault and for each other backend that tore its own down.
THEOREM SpawnsHaveCauses == SidecarSpec => []NoStorm
<1>1. SidecarInv => NoStorm
  <2> SUFFICES ASSUME SidecarInv PROVE NoStorm OBVIOUS
  <2> SUFFICES ASSUME kind = "adsb", NEW b \in Backends
               PROVE  spawned[b] <= 1 + faults + Cardinality(Torn(b))
    BY DEF NoStorm, Torn
  <2>1. Cardinality(Torn(b)) \in Nat
    <3>1. Torn(b) \subseteq Backends BY DEF Torn
    <3> QED BY <3>1, SidecarAssumption, FS_Subset, FS_CardinalityType
  <2> QED BY <2>1, SidecarAssumption DEF SidecarInv, PortsInv, SidecarTypeOK, StormInv, Causes
<1> QED BY <1>1, SidecarInitially, SidecarStep, PTL DEF SidecarSpec
===============================================================================
