------------------------------ MODULE Incidents ------------------------------
(***************************************************************************)
(* What is made of the brief's incidents from one brief to the next: the   *)
(* incident store compares the newest picture with the one before          *)
(* (intel/incident_store.py); the watch officer files briefs for an        *)
(* operator who acknowledges or dismisses them (intel/watch_officer.py);   *)
(* the incident watch of correlate/runner.py announces what turned high,   *)
(* with a cool-down, on the bus that the sockets read (AlertBus).          *)
(*                                                                         *)
(* A picture is the sequence of incidents of one brief, the worst first;   *)
(* an incident is known by its key, the cell of its centroid and its       *)
(* domains, which two incidents of one picture may share.  One tick is a   *)
(* minute, the cycle of the incident watch.                                *)
(***************************************************************************)
EXTENDS AlertBus, FiniteSets

CONSTANTS
    Keys,
    Pictures,   \* the sequences of incidents [key, level] that a brief may give
    MaxBriefs,  \* _MAX_BRIEFS
    CoolDown,   \* _DEDUP_SEC, in ticks
    MaxAlerts   \* bound: alerts on the bus

Levels == 0 .. 3    \* absent, low, elevated, high: _LEVEL_RANK
High == 3
Actionable == {2, 3}
Scopes == {"officer", "global"}

ASSUME IncidentsAssumption ==
    /\ MaxBriefs \in Nat \ {0} /\ CoolDown \in Nat \ {0} /\ MaxAlerts \in Nat
    /\ IsFiniteSet(Keys)
    /\ \A pic \in Pictures :
          /\ pic \in Seq([key : Keys, level : Levels \ {0}])
          /\ \A i, j \in DOMAIN pic : i < j => pic[i].level >= pic[j].level

VARIABLES
    snap,     \* scope -> key -> its level in the newest snapshot
    filing,   \* the officer's sweep: keys it has still to look at
    open,     \* _BRIEFS, oldest first: keys
    seen,     \* _seen: key -> ticks since the dedupe let it through, or CoolDown
    risen,    \* history: keys new or worse in the officer's sweep that runs
    cleared,  \* history: keys whose brief was taken since they last rose
    spoken    \* history: key -> ticks since its last alert, or CoolDown

officerVars == <<filing, open, risen, cleared>>
vars == <<snap, officerVars, seen, spoken, busVars>>

IncidentsTypeOK ==
    /\ snap \in [Scopes -> [Keys -> Levels]]
    /\ filing \in Seq(Keys)
    /\ open \in Seq(Keys) /\ IsInjective(open)
    /\ seen \in [Keys -> 0 .. CoolDown] /\ spoken \in [Keys -> 0 .. CoolDown]
    /\ risen \subseteq Keys /\ cleared \subseteq Keys

Init ==
    /\ BusInit
    /\ snap = [s \in Scopes |-> [k \in Keys |-> 0]]
    /\ filing = <<>> /\ open = <<>>
    /\ risen = {} /\ cleared = {}
    /\ seen = [k \in Keys |-> CoolDown] /\ spoken = [k \in Keys |-> CoolDown]

-----------------------------------------------------------------------------
(* IncidentStore.record *)

\* The snapshot of a picture: of two incidents with one key the last one counts.
Snapshot(pic) ==
    [k \in Keys |->
       LET at == {i \in DOMAIN pic : pic[i].key = k} IN
       IF at = {} THEN 0 ELSE pic[CHOOSE i \in at : \A j \in at : j <= i].level]

\* Slip: an incident that is worse than before is no news.
SlipChanges(prev, cur) == SetToSeq({k \in Keys : prev[k] = 0 /\ cur[k] > 0})

\* The changes that the callers look at: what is new, then what has escalated.
Changes(prev, cur) ==
    SetToSeq({k \in Keys : prev[k] = 0 /\ cur[k] > 0})
    \o SetToSeq({k \in Keys : 0 < prev[k] /\ prev[k] < cur[k]})

Rose(prev, cur) == {k \in Keys : prev[k] < cur[k]}

-----------------------------------------------------------------------------
(* The watch officer *)

\* The oldest briefs go when there are too many of them.
Evict(bs) == SubSeq(bs, IF Len(bs) > MaxBriefs THEN Len(bs) - MaxBriefs + 1 ELSE 1, Len(bs))

\* run_once up to its loop.  (A brief that fails ends the sweep before anything
\* has changed.)
OfficerSweep ==
    /\ filing = <<>>
    /\ \E pic \in Pictures :
          LET prev == snap["officer"]
              cur == Snapshot(pic)
          IN /\ snap' = [snap EXCEPT !["officer"] = cur]
             /\ filing' = Changes(prev, cur)
             /\ risen' = IF filing' = <<>> THEN {} ELSE Rose(prev, cur)
             /\ cleared' = cleared \ Rose(prev, cur)
    /\ UNCHANGED <<open, seen, spoken, busVars>>

\* What is filed: an actionable incident without an open brief.
Files(k) == k \notin ToSet(open) /\ snap["officer"][k] \in Actionable

\* One change; the playbook of a filed brief is awaited, so an operator may act
\* before the next.
FileNext ==
    /\ filing # <<>>
    /\ LET k == Head(filing)
           more == IF Files(k) THEN Append(open, k) ELSE open
           last == Len(filing) = 1
       IN /\ open' = IF last THEN Evict(more) ELSE more
          /\ filing' = Tail(filing)
          /\ risen' = IF last THEN {} ELSE risen
          /\ cleared' = (IF Files(k) /\ k \in risen THEN cleared \ {k} ELSE cleared)
                        \cup (ToSet(more) \ ToSet(open'))
    /\ UNCHANGED <<snap, seen, spoken, busVars>>

\* ack, dismiss: the brief goes either way.
Drop(k) ==
    /\ k \in ToSet(open)
    /\ \E i \in DOMAIN open : open[i] = k /\ open' = RemoveAt(open, i)
    /\ cleared' = cleared \cup {k}
    /\ UNCHANGED <<snap, filing, seen, risen, spoken, busVars>>

-----------------------------------------------------------------------------
(* The incident watch of the runner *)

\* Slip: every call renews the cool-down.
SlipCool(ks) == [k \in Keys |-> IF k \in ks THEN 0 ELSE seen[k]]

\* _dedupe: the cool-down starts with an alert that was let through.
Cool(ks) == [k \in Keys |-> IF k \in ks /\ seen[k] = CoolDown THEN 0 ELSE seen[k]]

\* One turn of the loop: what is new or worse, and high, is announced unless it
\* cools down.
WatchIncidents ==
    /\ \E pic \in Pictures :
          LET cur == Snapshot(pic)
              due == {k \in ToSet(Changes(snap["global"], cur)) : cur[k] = High}
              said == {k \in due : seen[k] = CoolDown}
          IN /\ snap' = [snap EXCEPT !["global"] = cur]
             /\ seen' = Cool(due)
             /\ spoken' = [k \in Keys |-> IF k \in said THEN 0 ELSE spoken[k]]
             /\ published + Cardinality(said) <= MaxAlerts
             /\ Publish(Cardinality(said))
    /\ UNCHANGED officerVars

Tick ==
    /\ seen' = [k \in Keys |-> IF seen[k] < CoolDown THEN seen[k] + 1 ELSE CoolDown]
    /\ spoken' = [k \in Keys |-> IF spoken[k] < CoolDown THEN spoken[k] + 1 ELSE CoolDown]
    /\ UNCHANGED <<snap, officerVars, busVars>>

-----------------------------------------------------------------------------

\* The process restarts: all of this is memory, the sockets included.
Restart ==
    /\ snap' = [s \in Scopes |-> [k \in Keys |-> 0]]
    /\ filing' = <<>> /\ open' = <<>>
    /\ risen' = {} /\ cleared' = {}
    /\ seen' = [k \in Keys |-> CoolDown] /\ spoken' = [k \in Keys |-> CoolDown]
    /\ BusRestarts

Next ==
    \/ OfficerSweep \/ FileNext \/ WatchIncidents \/ Tick \/ Restart
    \/ \E k \in Keys : Drop(k)
    \/ \E c \in Clients : Socket(c) /\ UNCHANGED <<snap, officerVars, seen, spoken>>

Spec == Init /\ [][Next]_vars

-----------------------------------------------------------------------------
(* Properties *)

\* Between sweeps every actionable incident of the officer's snapshot has its
\* brief in the inbox, unless it was taken, by the operator or for lack of room,
\* since the incident last rose; and one that was taken is not filed again
\* before that.
InboxIsCurrent ==
    /\ IncidentsTypeOK
    /\ filing = <<>> =>
          \A k \in Keys : snap["officer"][k] \in Actionable => k \in ToSet(open) \cup cleared
    /\ ToSet(open) \cap cleared = {}
    /\ filing = <<>> => Len(open) <= MaxBriefs

\* When a key turns high for the incident watch, in its picture of one incident per
\* key, it has been announced on the bus, then or within the cool-down before; and
\* it was not announced twice within one.  A high incident that shares its key with
\* a lesser one later in the brief is not in that picture and is never announced.
HighIsAnnounced ==
    [][WatchIncidents =>
         \A k \in Keys :
            /\ snap["global"][k] < High /\ snap'["global"][k] = High => spoken'[k] < CoolDown
            /\ spoken'[k] < spoken[k] => spoken[k] = CoolDown]_vars
===============================================================================
