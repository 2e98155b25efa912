----------------------------- MODULE AdsbSnapshot -----------------------------
(***************************************************************************)
(* The sticky aircraft snapshot of routes/adsb.py: the background loop     *)
(* that unions the caches of its upstream tiers, merges the result with    *)
(* the snapshot it serves, and accepts or rejects it; the pulls that fill  *)
(* the caches on their own; and the bootstrap by a first caller.           *)
(*                                                                         *)
(* Time is counted in ticks of 30 s.  A cycle of the loop, its fan-out     *)
(* budget (10 s) and the push to its subscribers (7 s) included, fits in   *)
(* one tick, so the loop publishes at least once between two ticks.        *)
(*                                                                         *)
(* An aircraft flies forward, so a fix is known by the age of its          *)
(* observation: one observed a tick earlier lies more than the reject      *)
(* distance behind.  A fix is                                              *)
(*   rx   ticks since its body was received (seen_at)                      *)
(*   pos  how old the position already was inside the body (seen_pos_s)    *)
(* Ages saturate at MaxAge, above every limit the code compares with.      *)
(***************************************************************************)
EXTENDS Naturals, FiniteSets

CONSTANTS
    Aircraft,
    Slow,       \* those on the ground or below the speed of the track guard
    Feeds,      \* the readsb feeds, the local sidecar among them
    Reports,    \* tier (and the grid) -> the bodies it may answer, each one a
                \* function from aircraft to the age of its position
    Floor,      \* _SIDECAR_ONLY_FLOOR
    Thin,       \* _GRID_SKIP_ABOVE
    RetainPct,  \* _SNAPSHOT_MIN_RETAIN_FRACTION, in percent
    HoldMax,    \* _BACKWARD_MAX_HOLD_S, in ticks
    StaleMax,   \* _SNAPSHOT_STALE_S
    CarryMax,   \* max_age_s of _merge_with_previous
    SliceMax,   \* _FEED_SLICE_MAX_AGE_S
    PosCap,     \* _STALE_POS_CAP_S
    MaxAge      \* bound: ages saturate here

ASSUME AgesAssumption ==
    /\ {HoldMax, StaleMax, CarryMax, SliceMax, PosCap, MaxAge} \subseteq Nat
    /\ HoldMax < MaxAge /\ SliceMax < MaxAge /\ PosCap < MaxAge
    /\ CarryMax + StaleMax + 1 < MaxAge
    /\ {Floor, Thin} \subseteq Nat /\ Floor >= Thin
    /\ Slow \subseteq Aircraft
    /\ \A t \in Feeds \cup {"opensky", "firehose", "grid"} : \A body \in Reports[t] :
          DOMAIN body \subseteq Aircraft /\ \A a \in DOMAIN body : body[a] \in Nat

VARIABLES
    sidecarOnly,  \* the setting adsb_sidecar_only
    phase,        \* of the refresher: off, boot, idle, grid
    pull,         \* tier -> idle, flying (its task runs), armed (not due yet)
    pulledToday,  \* OpenSky pulls begun since 0000 UTC
    cache,        \* tier -> the bodies kept of it: none, or the last one
    fan,          \* the union a cycle holds while it waits for the grid
    snap,         \* _LATEST_SNAPSHOT: aircraft -> fix
    age,          \* ticks since _LATEST_SNAPSHOT_AT
    published,    \* the loop has been through a cycle in this tick
    dark          \* the last cycle merged to an empty snapshot

vars == <<sidecarOnly, phase, pull, pulledToday, cache, fan, snap, age,
          published, dark>>

Tiers == Feeds \cup {"opensky", "firehose"}

Fix == [rx : 0 .. MaxAge, pos : Nat]
IsFixes(fc) == DOMAIN fc \subseteq Aircraft /\ \A a \in DOMAIN fc : fc[a] \in Fix
NoFixes == [a \in {} |-> 0]

\* A body, or the empty one of a pull that failed.
Bodies(t) == Reports[t] \cup {NoFixes}

Older(n) == IF n < MaxAge THEN n + 1 ELSE n

\* _feat_obs_at: the age of the observation itself.
ObsAge(f) == f.rx + f.pos

TypeOK ==
    /\ sidecarOnly \in BOOLEAN
    /\ phase \in {"off", "boot", "idle", "grid"}
    /\ pull \in [Tiers -> {"idle", "flying", "armed"}]
    /\ pulledToday \in Nat
    /\ DOMAIN cache = Tiers
    /\ \A t \in Tiers : cache[t] \in [age : 0 .. MaxAge, body : Bodies(t)]
    /\ IsFixes(fan) /\ IsFixes(snap)
    /\ age \in 0 .. MaxAge
    /\ published \in BOOLEAN /\ dark \in BOOLEAN

Empty == [age |-> 0, body |-> NoFixes]

Init ==
    /\ sidecarOnly \in BOOLEAN
    /\ phase = "off"
    /\ pull = [t \in Tiers |-> "idle"]
    /\ pulledToday = 0
    /\ cache = [t \in Tiers |-> Empty]
    /\ fan = NoFixes
    /\ snap = NoFixes
    /\ age = MaxAge
    /\ published = FALSE
    /\ dark = FALSE

-----------------------------------------------------------------------------
(* The union of the tiers *)

\* What a tier contributes: its last body, as old as the cache is.
FixesOf(t) ==
    [a \in DOMAIN cache[t].body |->
        [rx |-> cache[t].age, pos |-> cache[t].body[a]]]

\* Slip: the tier that is merged last wins.
SlipMergeRaw(byId, raw) ==
    [a \in DOMAIN byId \cup DOMAIN raw |-> IF a \in DOMAIN raw THEN raw[a] ELSE byId[a]]

\* The freshest-wins union: an aircraft nobody has yet is taken, another one
\* only if it was observed later.
MergeRaw(byId, raw) ==
    [a \in DOMAIN byId \cup DOMAIN raw |->
        IF a \in DOMAIN raw /\ (a \in DOMAIN byId => ObsAge(raw[a]) < ObsAge(byId[a]))
        THEN raw[a] ELSE byId[a]]

\* The slices of the feeds that are young enough, and those of them with an aircraft.
LiveFeeds == {f \in Feeds : cache[f].age <= SliceMax}
Covering(a) == {f \in LiveFeeds : a \in DOMAIN cache[f].body}

\* Of every aircraft, the fix observed last; of two of one age, either.
FeedUnion ==
    [a \in {b \in Aircraft : Covering(b) # {}} |->
        LET freshest == CHOOSE f \in Covering(a) :
                \A g \in Covering(a) : ObsAge(FixesOf(f)[a]) <= ObsAge(FixesOf(g)[a])
        IN FixesOf(freshest)[a]]

\* The local sidecar alone, while it covers the sky.
SidecarServes == sidecarOnly /\ Cardinality(DOMAIN FeedUnion) >= Floor

Union ==
    IF SidecarServes
    THEN FeedUnion
    ELSE MergeRaw(MergeRaw(FixesOf("opensky"), FeedUnion), FixesOf("firehose"))

NeedsGrid == ~SidecarServes /\ Cardinality(DOMAIN Union) < Thin

\* A read of a tier starts its pull when it is due and none is in flight.
Kick(tiers) ==
    /\ pull' = [t \in Tiers |->
                    IF t \in tiers /\ pull[t] = "idle" THEN "flying" ELSE pull[t]]
    /\ pulledToday' = pulledToday
          + IF "opensky" \in tiers /\ pull["opensky"] = "idle" THEN 1 ELSE 0

\* What a fan-out does besides its union: slices too old are dropped, and the
\* tiers it reads start their pulls.
FanOutEffects ==
    /\ cache' = [t \in Tiers |-> IF t \in Feeds \ LiveFeeds THEN Empty ELSE cache[t]]
    /\ Kick(IF SidecarServes THEN Feeds ELSE Tiers)

-----------------------------------------------------------------------------
(* Merging with the snapshot that is served *)

\* Slip: the guard holds the slow contacts instead of the fast ones.
SlipRegresses(a, new) ==
    /\ a \in Slow
    /\ ObsAge(snap[a]) <= HoldMax
    /\ ObsAge(new) > ObsAge(snap[a])

\* The new fix would fly the contact backwards along its track, and the one
\* that is served is not yet held too long.
Regresses(a, new) ==
    /\ a \notin Slow
    /\ ObsAge(snap[a]) <= HoldMax
    /\ ObsAge(new) > ObsAge(snap[a])

\* A contact that the fan-out misses is carried forward.
Carried(a) == snap[a].rx <= CarryMax /\ snap[a].pos <= PosCap

\* Slip: no contact is carried forward.
SlipMergePrevious(fc) ==
    [a \in DOMAIN fc |->
        IF a \in DOMAIN snap /\ Regresses(a, fc[a]) THEN snap[a] ELSE fc[a]]

MergePrevious(fc) ==
    [a \in DOMAIN fc \cup {b \in DOMAIN snap : Carried(b)} |->
        IF a \in DOMAIN fc /\ ~(a \in DOMAIN snap /\ Regresses(a, fc[a]))
        THEN fc[a] ELSE snap[a]]

\* Slip: a snapshot below the fraction is rejected however old the served one is.
SlipAccepts(merged) ==
    /\ DOMAIN merged # {}
    /\ \/ DOMAIN snap = {}
       \/ Cardinality(DOMAIN merged)
             >= (Cardinality(DOMAIN snap) * RetainPct) \div 100

Accepts(merged) ==
    /\ DOMAIN merged # {}
    /\ \/ age >= StaleMax
       \/ DOMAIN snap = {}
       \/ Cardinality(DOMAIN merged)
             >= (Cardinality(DOMAIN snap) * RetainPct) \div 100

\* The rest of a cycle, under _SNAPSHOT_LOCK and without an await.
Publish(fc) ==
    LET merged == MergePrevious(fc) IN
    /\ IF Accepts(merged)
       THEN snap' = merged /\ age' = 0
       ELSE UNCHANGED <<snap, age>>
    /\ dark' = (DOMAIN merged = {})
    /\ published' = TRUE

-----------------------------------------------------------------------------
(* Start and bootstrap *)

\* start_snapshot: the refresher, without a fan-out of its own.
StartSnapshot ==
    /\ phase = "off"
    /\ phase' = "idle"
    /\ UNCHANGED <<sidecarOnly, pull, pulledToday, cache, fan, snap, age, published, dark>>

\* global_snapshot by a first caller: the fan-out, while later callers (and
\* start_snapshot) wait for the bootstrap lock.
BootBegin ==
    /\ phase = "off"
    /\ phase' = "boot"
    /\ fan' = Union
    /\ FanOutEffects
    /\ UNCHANGED <<sidecarOnly, snap, age, published, dark>>

GridFixes(body) == [a \in DOMAIN body |-> [rx |-> 0, pos |-> body[a]]]

BootEnd(body) ==
    /\ phase = "boot"
    /\ LET first == IF Cardinality(DOMAIN fan) < Thin THEN MergeRaw(fan, GridFixes(body)) ELSE fan IN
       IF DOMAIN first # {}
       THEN snap' = first /\ age' = 0
       ELSE UNCHANGED <<snap, age>>
    /\ fan' = NoFixes
    /\ phase' = "idle"
    /\ UNCHANGED <<sidecarOnly, pull, pulledToday, cache, published, dark>>

-----------------------------------------------------------------------------
(* The refresher *)

\* A cycle whose fan-out has all it needs: no await between the reads of the
\* tiers and the merge gives another task anything of it to change.
Cycle ==
    /\ phase = "idle"
    /\ ~NeedsGrid
    /\ Publish(Union)
    /\ FanOutEffects
    /\ UNCHANGED <<sidecarOnly, phase, fan>>

\* A thin one waits for the grid, up to its budget, with the union in hand.
CycleThin ==
    /\ phase = "idle"
    /\ NeedsGrid
    /\ phase' = "grid"
    /\ fan' = Union
    /\ FanOutEffects
    /\ UNCHANGED <<sidecarOnly, snap, age, published, dark>>

CycleGrid(body) ==
    /\ phase = "grid"
    /\ Publish(MergeRaw(fan, GridFixes(body)))
    /\ phase' = "idle"
    /\ fan' = NoFixes
    /\ UNCHANGED <<sidecarOnly, pull, pulledToday, cache>>

-----------------------------------------------------------------------------
(* The pulls, each a task of its own *)

\* Slip: an OpenSky pull that failed leaves the gate open.
SlipPullEnds(t, body) ==
    /\ pull[t] = "flying"
    /\ pull' = [pull EXCEPT ![t] = IF body = NoFixes THEN "idle" ELSE "armed"]
    /\ cache' = IF body = NoFixes THEN cache
                ELSE [cache EXCEPT ![t] = [age |-> 0, body |-> body]]
    /\ UNCHANGED <<sidecarOnly, phase, pulledToday, fan, snap, age, published, dark>>

PullEnds(t, body) ==
    /\ pull[t] = "flying"
    /\ pull' = [pull EXCEPT ![t] = "armed"]
    /\ cache' = IF body = NoFixes THEN cache
                ELSE [cache EXCEPT ![t] = [age |-> 0, body |-> body]]
    /\ UNCHANGED <<sidecarOnly, phase, pulledToday, fan, snap, age, published, dark>>

\* 0000 UTC: the gate of OpenSky opens; a pull in flight sets it again when it
\* ends.
Midnight ==
    /\ pulledToday > 0 \/ pull["opensky"] = "armed"
    /\ pull' = [pull EXCEPT !["opensky"] = IF @ = "armed" THEN "idle" ELSE @]
    /\ pulledToday' = 0
    /\ UNCHANGED <<sidecarOnly, phase, cache, fan, snap, age, published, dark>>

AgeFixes(fc) == [a \in DOMAIN fc |-> [fc[a] EXCEPT !.rx = Older(@)]]

\* 30 s pass; the other pulls are due again.
Tick ==
    /\ phase \in {"idle", "grid"} => published
    /\ published' = FALSE
    /\ age' = Older(age)
    /\ snap' = AgeFixes(snap)
    /\ fan' = AgeFixes(fan)
    /\ cache' = [t \in Tiers |->
                    IF cache[t] = Empty THEN Empty ELSE [cache[t] EXCEPT !.age = Older(@)]]
    /\ pull' = [t \in Tiers |->
                    IF t # "opensky" /\ pull[t] = "armed" THEN "idle" ELSE pull[t]]
    /\ UNCHANGED <<sidecarOnly, phase, pulledToday, dark>>

Next ==
    \/ StartSnapshot
    \/ BootBegin
    \/ \E body \in Bodies("grid") : BootEnd(body) \/ CycleGrid(body)
    \/ Cycle
    \/ CycleThin
    \/ \E t \in Tiers : \E body \in Bodies(t) : PullEnds(t, body)
    \/ Midnight
    \/ Tick

Spec == Init /\ [][Next]_vars

-----------------------------------------------------------------------------
(* Properties *)

\* No contact flies in reverse: within a tick a fast aircraft's served fix is
\* replaced by one observed earlier only when it has itself aged past the hold
\* (the guard of _merge_with_previous, whatever tier lost or won the cycle).
NeverBackwards ==
    [][Tick \/ \A a \in (DOMAIN snap \cap DOMAIN snap') \ Slow :
                  ObsAge(snap'[a]) > ObsAge(snap[a]) => ObsAge(snap[a]) > HoldMax]_vars

\* No contact blinks: one that is served stops being served only when its
\* body is older than the carry window or its position was past the cap,
\* however the tiers' coverage flips and whichever cycles are rejected.
NoBlink ==
    [][\A a \in DOMAIN snap \ DOMAIN snap' :
          snap[a].rx > CarryMax \/ snap[a].pos > PosCap]_vars

\* A snapshot that a cycle accepts is as fresh as what was cached: for every
\* aircraft the tiers in use know, no cached fix was observed after the served
\* one, in whatever order the tiers are merged.
FreshestServed ==
    [][Cycle /\ Accepts(MergePrevious(Union)) =>
          \A t \in LiveFeeds \cup (IF SidecarServes THEN {} ELSE {"opensky", "firehose"}) :
             \A a \in DOMAIN cache[t].body :
                /\ a \in DOMAIN snap'
                /\ ObsAge(snap'[a]) <= ObsAge(FixesOf(t)[a])]_vars

\* The sticky snapshot is no trap: unless the sky is dark, nothing cached and nothing
\* left to carry, a cycle leaves it renewed within the stale limit, and a cycle that
\* renews it rids it of what it can no longer account for: every contact that is not in
\* the union of the cycle and has outlived the carry window.
Renewed(fc) ==
    \/ dark'
    \/ /\ age' <= StaleMax
       /\ snap' # snap => \A a \in DOMAIN snap' \ DOMAIN fc : snap'[a].rx <= CarryMax

NotLockedOut ==
    [][/\ Cycle => Renewed(Union)
       /\ \A body \in Bodies("grid") :
             CycleGrid(body) => Renewed(MergeRaw(fan, GridFixes(body)))]_vars

\* OpenSky is asked at most once per UTC day, failed pulls and pulls that
\* cross midnight included.
PullBudget == TypeOK /\ pulledToday <= 1
===============================================================================
