------------------------------- MODULE Sidecar -------------------------------
(***************************************************************************)
(* The browser sidecars of adsb_sidecar.py and ais_sidecar.py: node        *)
(* processes that bind one port, started, adopted, supervised and stopped  *)
(* by a backend.  In a restart two backends overlap: the new one starts    *)
(* while the old one still runs or stops.                                  *)
(*                                                                         *)
(* A sidecar is dead (or was never spawned), boots, then serves: warm      *)
(* (no aircraft yet, no scrape yet), fresh, or stale (a union older than   *)
(* the cap, AIS only); or it hangs: it holds the port and does not answer, *)
(* and does not die of SIGTERM.  Every await of start() and stop() ends a  *)
(* step here.  What ss and /health say is right when they say it.          *)
(***************************************************************************)
EXTENDS Naturals, FiniteSets

CONSTANTS
    Backends,
    Pids,
    None,
    MaxFaults   \* bound: crashes and hangs of sidecars, kills of backends

ASSUME SidecarAssumption ==
    None \notin Pids /\ IsFiniteSet(Pids) /\ IsFiniteSet(Backends) /\ MaxFaults \in Nat

VARIABLES
    kind,     \* which feeder this is: adsb or ais
    proc,     \* pid -> state of the process
    holder,   \* the pid that listens on the port
    termed,   \* pids that were sent SIGTERM
    pc,       \* backend -> where its start(), supervise() or stop() is
    booted,   \* backends whose lifespan start() has returned
    own,      \* backend -> _proc
    reuse,    \* backend -> _reuse_pid
    seen,     \* backend -> the holder that start() read
    kills,    \* backend -> pids its stop() still waits for
    faults,   \* faults so far
    claimed,  \* history: pid -> backends that spawned or adopted it
    spawned,  \* history: backend -> how many sidecars it spawned
    killed    \* history: backends that were killed without a stop()

state == <<own, reuse, seen>>
sidecarVars == <<kind, proc, holder, termed, pc, booted, own, reuse, seen, kills,
          faults, claimed, spawned, killed>>

SpawnCap == MaxFaults + Cardinality(Backends) + 1   \* bound of the history spawned

InStart == {"start", "reuse", "holder", "serving", "evict", "spawn", "child", "adopted"}

SidecarTypeOK ==
    /\ kind \in {"adsb", "ais"}
    /\ proc \in [Pids -> {"dead", "boots", "warm", "fresh", "stale", "hung"}]
    /\ holder \in Pids \cup {None}
    /\ termed \subseteq Pids
    /\ pc \in [Backends -> InStart \cup {"off", "run", "stop", "gone"}]
    /\ booted \subseteq Backends
    /\ own \in [Backends -> Pids \cup {None}]
    /\ reuse \in [Backends -> Pids \cup {None}]
    /\ seen \in [Backends -> Pids \cup {None}]
    /\ kills \in [Backends -> SUBSET Pids]
    /\ faults \in 0 .. MaxFaults
    /\ claimed \in [Pids -> SUBSET Backends]
    /\ spawned \in [Backends -> 0 .. SpawnCap]
    /\ killed \subseteq Backends

SidecarInit ==
    /\ kind \in {"adsb", "ais"}
    /\ proc = [p \in Pids |-> "dead"]
    /\ holder = None
    /\ termed = {}
    /\ pc = [b \in Backends |-> "off"]
    /\ booted = {}
    /\ own = [b \in Backends |-> None]
    /\ reuse = [b \in Backends |-> None]
    /\ seen = [b \in Backends |-> None]
    /\ kills = [b \in Backends |-> {}]
    /\ faults = 0
    /\ claimed = [p \in Pids |-> {}]
    /\ spawned = [b \in Backends |-> 0]
    /\ killed = {}

-----------------------------------------------------------------------------
(* What a probe of the port sees *)

Serving == holder # None /\ proc[holder] \in {"warm", "fresh", "stale"}

\* _already_healthy: with aircraft (ADS-B); not older than the cap, and a
\* feeder that has not scraped yet passes (AIS).
Healthy ==
    /\ holder # None
    /\ proc[holder] \in IF kind = "adsb" THEN {"fresh"} ELSE {"warm", "fresh"}

\* What supervise() asks: liveness only for ADS-B, where a warming sidecar must
\* be left alone.
Alive == IF kind = "adsb" THEN Serving ELSE Healthy

\* The processes ps die, and the port is free if one of them held it.
Die(ps) ==
    /\ claimed' = [p \in Pids |-> IF p \in ps THEN {} ELSE claimed[p]]
    /\ proc' = [p \in Pids |-> IF p \in ps THEN "dead" ELSE proc[p]]
    /\ holder' = IF holder \in ps THEN None ELSE holder
    /\ termed' = termed \ ps

Goto(b, where) == pc' = [pc EXCEPT ![b] = where]

\* start() returns: to lifespan, which then starts supervise(), or to supervise().
Return(b) ==
    /\ Goto(b, "run")
    /\ booted' = booted \cup {b}

-----------------------------------------------------------------------------
(* start() *)

Boot(b) ==
    /\ pc[b] = "off"
    /\ Goto(b, "start")
    /\ UNCHANGED <<kind, proc, holder, termed, booted, state, kills, faults, claimed, spawned, killed>>

Probe(b) ==
    /\ pc[b] = "start"
    /\ Goto(b, IF Healthy THEN "reuse" ELSE "holder")
    /\ UNCHANGED <<kind, proc, holder, termed, booted, state, kills, faults, claimed, spawned, killed>>

\* Adopting p: remembered as a pid only, since it is no child of b.
Adopt(b, p) ==
    /\ reuse' = [reuse EXCEPT ![b] = p]
    /\ claimed' = IF p = None THEN claimed ELSE [claimed EXCEPT ![p] = @ \cup {b}]

ReuseHolder(b) ==
    /\ pc[b] = "reuse"
    /\ Adopt(b, holder)
    /\ Return(b)
    /\ UNCHANGED <<kind, proc, holder, termed, own, seen, kills, faults, spawned, killed>>

\* _kill_pid sends SIGTERM to a live process and then waits.
Terminate(b, p) ==
    IF proc[p] = "dead"
    THEN Goto(b, "spawn") /\ UNCHANGED termed
    ELSE Goto(b, "evict") /\ termed' = termed \cup {p}

\* The holder of the port: none, asked once more (ADS-B), or evicted (AIS).
ReadHolder(b) ==
    /\ pc[b] = "holder"
    /\ seen' = [seen EXCEPT ![b] = holder]
    /\ CASE holder = None -> Goto(b, "spawn") /\ UNCHANGED termed
         [] holder # None /\ kind = "adsb" -> Goto(b, "serving") /\ UNCHANGED termed
         [] holder # None /\ kind = "ais" -> Terminate(b, holder)
    /\ UNCHANGED <<kind, proc, holder, booted, own, reuse, kills, faults, claimed, spawned, killed>>

\* Slip: a holder without aircraft is evicted, warming or not.
SlipProbeHolder(b) ==
    /\ pc[b] = "serving"
    /\ Terminate(b, seen[b]) /\ UNCHANGED <<reuse, claimed>>
    /\ UNCHANGED <<kind, proc, holder, booted, own, seen, kills, faults, spawned, killed>>

\* ADS-B: a holder that serves is still warming, and adopted; one that does not
\* is wedged or foreign, and evicted.
ProbeHolder(b) ==
    /\ pc[b] = "serving"
    /\ IF Serving
       THEN /\ Adopt(b, seen[b])
            /\ seen' = [seen EXCEPT ![b] = None]
            /\ Goto(b, "adopted") /\ UNCHANGED termed
       ELSE Terminate(b, seen[b]) /\ UNCHANGED <<reuse, claimed, seen>>
    /\ UNCHANGED <<kind, proc, holder, booted, own, kills, faults, spawned, killed>>

\* The evicted process let go of the port, or is killed for good.
Evicted(b) ==
    /\ pc[b] = "evict"
    /\ IF holder = seen[b] THEN Die({seen[b]}) ELSE UNCHANGED <<proc, holder, termed, claimed>>
    /\ seen' = [seen EXCEPT ![b] = None]
    /\ Goto(b, "spawn")
    /\ UNCHANGED <<kind, booted, own, reuse, kills, faults, spawned, killed>>

\* Pids for the next process.  A dead pid that is still remembered as a child or
\* as adopted is as good as none, so it may be used again and is forgotten then;
\* the system itself does not use a pid again so soon.  (Bound: Pids, without a
\* free one nothing is spawned.)
FreePids ==
    {p \in Pids : /\ proc[p] = "dead"
                  /\ \A b \in Backends :
                        p # seen[b] /\ p \notin kills[b] /\ ~(pc[b] = "child" /\ p = own[b])}

Forget(refs, p) == [b \in Backends |-> IF refs[b] = p THEN None ELSE refs[b]]

Spawn(b) ==
    /\ pc[b] = "spawn" /\ FreePids # {}
    /\ LET p == CHOOSE q \in FreePids : TRUE IN
       /\ proc' = [proc EXCEPT ![p] = "boots"]
       /\ own' = [Forget(own, p) EXCEPT ![b] = p]
       /\ reuse' = Forget(reuse, p)
       /\ claimed' = [claimed EXCEPT ![p] = {b}]
    /\ spawned' = [spawned EXCEPT ![b] = IF @ < SpawnCap THEN @ + 1 ELSE @]
    /\ Goto(b, "child")
    /\ UNCHANGED <<kind, holder, termed, booted, seen, kills, faults, killed>>

\* _wait_for_aircraft on a child, or the second that AIS gives it: an early
\* exit is forgotten; otherwise the wait ends healthy or at its cap, by when the
\* child has bound the port or failed to.
ChildSettles(b) ==
    /\ pc[b] = "child"
    /\ proc[own[b]] # "boots"
    /\ own' = IF proc[own[b]] = "dead" THEN [own EXCEPT ![b] = None] ELSE own
    /\ Return(b)
    /\ UNCHANGED <<kind, proc, holder, termed, reuse, seen, kills, faults, claimed, spawned, killed>>

\* The same wait on an adopted one, which it cannot see exit.
AdoptedSettles(b) ==
    /\ pc[b] = "adopted"
    /\ Return(b)
    /\ UNCHANGED <<kind, proc, holder, termed, state, kills, faults, claimed, spawned, killed>>

\* Slip: a port that is held counts as a sidecar that is alive.
SlipSupervise(b) ==
    /\ pc[b] = "run"
    /\ holder = None
    /\ Goto(b, "start")
    /\ UNCHANGED <<kind, proc, holder, termed, booted, state, kills, faults, claimed, spawned, killed>>

\* supervise(): a tick that finds the sidecar not alive starts it again.
Supervise(b) ==
    /\ pc[b] = "run"
    /\ ~Alive
    /\ Goto(b, "start")
    /\ UNCHANGED <<kind, proc, holder, termed, booted, state, kills, faults, claimed, spawned, killed>>

-----------------------------------------------------------------------------
(* stop() *)

\* Slip: only a child is torn down.
SlipTargets(b) == {own[b]}

\* The child if it still runs, and the sidecar that was adopted.
Targets(b) == {own[b], reuse[b]}

\* The lifespan's end: supervise() is cancelled wherever it is (a child being
\* spawned dies with it), and every tracked pid is sent SIGTERM.
Stop(b) ==
    /\ b \in booted
    /\ pc[b] \in InStart \cup {"run"}
    /\ LET live == {p \in Targets(b) \ {None} : proc[p] # "dead"} IN
       /\ kills' = [kills EXCEPT ![b] = live]
       /\ termed' = termed \cup live
    /\ own' = [own EXCEPT ![b] = None]
    /\ reuse' = [reuse EXCEPT ![b] = None]
    /\ seen' = [seen EXCEPT ![b] = None]
    /\ Goto(b, "stop")
    /\ UNCHANGED <<kind, proc, holder, booted, faults, claimed, spawned, killed>>

\* One of them let go of the port, or is killed for good.
Stopped(b, p) ==
    /\ pc[b] = "stop" /\ p \in kills[b]
    /\ IF holder = p THEN Die({p}) ELSE UNCHANGED <<proc, holder, termed, claimed>>
    /\ kills' = [kills EXCEPT ![b] = @ \ {p}]
    /\ UNCHANGED <<kind, pc, booted, state, faults, spawned, killed>>

StopReturns(b) ==
    /\ pc[b] = "stop" /\ kills[b] = {}
    /\ Goto(b, "gone")
    /\ UNCHANGED <<kind, proc, holder, termed, booted, state, kills, faults, claimed, spawned, killed>>

-----------------------------------------------------------------------------
(* The sidecar itself (node, a browser and a web site), and what fails *)

\* It binds the port, or exits when another process holds it.
Bind(p) ==
    /\ proc[p] = "boots" /\ p \notin termed
    /\ IF holder = None
       THEN proc' = [proc EXCEPT ![p] = "warm"] /\ holder' = p /\ UNCHANGED <<termed, claimed>>
       ELSE Die({p})
    /\ UNCHANGED <<kind, pc, booted, state, kills, faults, spawned, killed>>

Warm(p) ==
    /\ proc[p] = "warm"
    /\ proc' = [proc EXCEPT ![p] = "fresh"]
    /\ UNCHANGED <<kind, holder, termed, pc, booted, state, kills, faults, claimed, spawned, killed>>

\* SIGTERM ends a sidecar that does not hang.
DiesOfTerm(p) ==
    /\ p \in termed /\ proc[p] # "hung"
    /\ Die({p})
    /\ UNCHANGED <<kind, pc, booted, state, kills, faults, spawned, killed>>

Fault == faults < MaxFaults /\ faults' = faults + 1

\* A serving sidecar crashes, hangs, or is cut off by its site.
Fails(p) ==
    /\ proc[p] \in {"warm", "fresh"}
    /\ Fault
    /\ \/ Die({p})
       \/ proc' = [proc EXCEPT ![p] = "hung"] /\ UNCHANGED <<holder, termed, claimed>>
       \/ /\ kind = "ais" /\ proc[p] = "fresh"
          /\ proc' = [proc EXCEPT ![p] = "stale"] /\ UNCHANGED <<holder, termed, claimed>>
    /\ UNCHANGED <<kind, pc, booted, state, kills, spawned, killed>>

\* A backend is killed: its sidecar, a session of its own, lives on.
KillBackend(b) ==
    /\ pc[b] \notin {"off", "gone"}
    /\ Fault
    /\ Goto(b, "gone")
    /\ killed' = killed \cup {b}
    /\ own' = [own EXCEPT ![b] = None]
    /\ reuse' = [reuse EXCEPT ![b] = None]
    /\ seen' = [seen EXCEPT ![b] = None]
    /\ kills' = [kills EXCEPT ![b] = {}]
    /\ UNCHANGED <<kind, proc, holder, termed, booted, claimed, spawned>>

\* Every backend has gone, and so has every signal.
Ended ==
    /\ \A b \in Backends : pc[b] = "gone"
    /\ UNCHANGED sidecarVars

Backend(b) ==
    \/ Probe(b) \/ ReuseHolder(b) \/ ReadHolder(b) \/ ProbeHolder(b) \/ Evicted(b)
    \/ Spawn(b) \/ ChildSettles(b) \/ AdoptedSettles(b) \/ Supervise(b)
    \/ StopReturns(b) \/ \E p \in Pids : Stopped(b, p)

Process(p) == Bind(p) \/ DiesOfTerm(p)

SidecarNext ==
    \/ \E b \in Backends : Boot(b) \/ Backend(b) \/ Stop(b) \/ KillBackend(b)
    \/ \E p \in Pids : Process(p) \/ Warm(p) \/ Fails(p)
    \/ Ended

\* The event loop runs what is due, and the system delivers its signals and
\* starts its processes; nobody has to stop a backend, and a site need never
\* let a sidecar warm up.
Fairness ==
    /\ \A b \in Backends : WF_sidecarVars(Backend(b))
    /\ \A p \in Pids : WF_sidecarVars(Process(p))

SidecarSpec == SidecarInit /\ [][SidecarNext]_sidecarVars /\ Fairness

-----------------------------------------------------------------------------
(* Properties *)

\* A backend that stopped leaves nothing behind: whatever it spawned or adopted
\* is dead, or dies of the signal it was sent before it ever holds the port.
LeavesNothing ==
    /\ SidecarTypeOK
    /\ \A b \in Backends \ killed, p \in Pids :
          pc[b] = "gone" /\ b \in claimed[p] =>
             proc[p] = "dead" \/ (proc[p] = "boots" /\ p \in termed)

\* No storm of respawns on the ADS-B feed: every sidecar that a backend spawns
\* beyond its first answers a fault, or a teardown by the other backend.
NoStorm ==
    kind = "adsb" =>
       \A b \in Backends :
          spawned[b] <= 1 + faults + Cardinality({c \in Backends \ {b} : pc[c] \in {"stop", "gone"}})

\* The feed comes back: while a backend runs, a sidecar that died, hangs or has
\* gone stale is replaced by one that serves, adopted from an outgoing backend
\* or not; and a teardown ends, with a sidecar that ignores SIGTERM too.
ComesBack ==
    \A b \in Backends :
       /\ (pc[b] \in InStart \cup {"run"}) ~> (Alive \/ pc[b] \in {"stop", "gone"})
       /\ (pc[b] = "stop") ~> (pc[b] = "gone")
===============================================================================
