-------------------------------- MODULE Watch --------------------------------
(***************************************************************************)
(* Standing watches (intel/watch.py): a loop that compares, sweep after    *)
(* sweep, the rules of every registered user with the picture, remembers   *)
(* who is inside which area, and announces the transitions: a stored       *)
(* alert, a delivery to the rule's sink, and the bus that the sockets      *)
(* read (AlertBus).  Rules are created and deleted                         *)
(* (routes/alert_rules.py,                                                 *)
(* alert_rules_local.py), sessions come and go (routes/alerts.py), stores  *)
(* fail and the process restarts while it sweeps.                          *)
(*                                                                         *)
(* The areas of all rules that have one coincide.  The picture tells of a  *)
(* thing (an aircraft or vessel, or an incident) where its sources put it, *)
(* inside or outside of that area, and how severe it is; a thing that two  *)
(* sources report has two fixes.                                           *)
(***************************************************************************)
EXTENDS Naturals, Sequences, FiniteSets, SequencesExt

CONSTANTS
    Users,
    LocalUser,  \* the shared identity of a keyless boot
    Expired,    \* users whose token is no longer accepted
    Rules,
    Owner,      \* rule -> user
    Watches,    \* rule -> the things of the kinds and the identity it wants
    Pinned,     \* rules that follow an identity, wherever it is
    Floor,      \* rule -> min_severity
    Sinked,     \* rules with a discord or webhook sink
    Contacts,   \* things with an identity of their own
    Incidents,  \* things that the brief finds anew each time
    Sightings,  \* the pictures: sequences of fixes, of no thing or of several
    MaxSweeps,  \* bound: after this many sweeps the picture is empty
    MaxFaults   \* bound: failing store calls, restarts

Things == Contacts \cup Incidents

ASSUME WatchAssumption ==
    /\ IsFiniteSet(Rules) /\ MaxSweeps \in Nat /\ MaxFaults \in Nat
    /\ <<>> \in Sightings
    /\ Sightings \subseteq Seq([thing : Things, at : {"in", "out"}, sev : Nat])
    /\ LocalUser \in Users /\ Expired \subseteq Users \ {LocalUser}
    /\ Pinned \subseteq Rules /\ Sinked \subseteq Rules
    /\ Owner \in [Rules -> Users] /\ Floor \in [Rules -> Nat]
    /\ Watches \in [Rules -> SUBSET Things]

VARIABLES
    cloud,     \* rules and sessions live in the cloud store, or boot was keyless
    rules,     \* rule -> new, stored, deleted
    sessions,  \* _SESSIONS, in the order of registration
    inside,    \* _STATE.inside: pairs of a rule and an entity id
    cands,     \* _LAST_CANDIDATES: a fix of a thing and the id it is known by
    brief,     \* sweeps begun
    pc,        \* of the loop: sleep, gather, session, persist, deliver
    todo,      \* the sessions this sweep still has to evaluate
    firings,   \* the firings of the session at the head of todo
    faults,    \* faults so far
    quiet,     \* history: pairs that entered below the floor of their rule
    told,      \* history: pairs whose newest announcement is an enter
    lost       \* history: pairs a firing of which was never announced

watchVars == <<cloud, rules, sessions, inside, cands, brief, pc, todo, firings,
          faults, quiet, told, lost>>

Ids == [thing : Things, nr : 0 .. MaxSweeps]
Pairs == Rules \X Ids

Candidate == [id : Ids, at : {"in", "out"}, sev : Nat]
Firing == [pair : Pairs, to : {"enter", "exit"}]

WatchTypeOK ==
    /\ cloud \in BOOLEAN
    /\ rules \in [Rules -> {"new", "stored", "deleted"}]
    /\ sessions \in Seq(Users) /\ IsInjective(sessions)
    /\ inside \subseteq Pairs
    /\ cands \in Seq(Candidate)
    /\ brief \in 0 .. MaxSweeps
    /\ pc \in {"sleep", "gather", "session", "persist", "deliver"}
    /\ todo \in Seq(Users) /\ (pc # "sleep" => todo # <<>>)
    /\ firings \in Seq(Firing) /\ (pc \in {"persist", "deliver"} <=> firings # <<>>)
    /\ faults \in 0 .. MaxFaults
    /\ {quiet, told, lost} \subseteq SUBSET Pairs

WatchInit ==
    /\ cloud \in BOOLEAN
    /\ rules = [r \in Rules |-> "new"]
    /\ sessions = <<>>
    /\ inside = {}
    /\ cands = <<>>
    /\ brief = 0
    /\ pc = "sleep"
    /\ todo = <<>>
    /\ firings = <<>>
    /\ faults = 0
    /\ quiet = {} /\ told = {} /\ lost = {}

-----------------------------------------------------------------------------
(* evaluate_rules *)

\* Identity decides for a pinned rule, the circle for the others.
Within(r, c) == r \in Pinned \/ c.at = "in"

\* Slip: the circle decides for a pinned rule too.
SlipCross(mem, r, c) ==
    LET pair == <<r, c.id>> IN
    CASE c.at = "in" /\ pair \notin mem.inside ->
           IF c.sev >= Floor[r]
           THEN [mem EXCEPT !.inside = @ \cup {pair},
                            !.fired = Append(@, [pair |-> pair, to |-> "enter"])]
           ELSE [mem EXCEPT !.inside = @ \cup {pair}, !.quiet = @ \cup {pair}]
      [] c.at = "out" /\ pair \in mem.inside ->
           [mem EXCEPT !.inside = @ \ {pair}, !.quiet = @ \ {pair},
                       !.fired = Append(@, [pair |-> pair, to |-> "exit"])]
      [] OTHER -> mem

\* One candidate against one rule, given the membership so far.
Cross(mem, r, c) ==
    LET pair == <<r, c.id>> IN
    CASE Within(r, c) /\ pair \notin mem.inside ->
           IF c.sev >= Floor[r]
           THEN [mem EXCEPT !.inside = @ \cup {pair},
                            !.fired = Append(@, [pair |-> pair, to |-> "enter"])]
           ELSE [mem EXCEPT !.inside = @ \cup {pair}, !.quiet = @ \cup {pair}]
      [] ~Within(r, c) /\ pair \in mem.inside ->
           [mem EXCEPT !.inside = @ \ {pair}, !.quiet = @ \ {pair},
                       !.fired = Append(@, [pair |-> pair, to |-> "exit"])]
      [] OTHER -> mem

\* Every candidate against one rule.
AgainstRule(mem, r) ==
    LET m[k \in 0 .. Len(cands)] ==
          IF k = 0 THEN mem
          ELSE IF cands[k].id.thing \in Watches[r] THEN Cross(m[k - 1], r, cands[k])
          ELSE m[k - 1]
    IN m[Len(cands)]

\* The rules rs one after another, from the membership given.
AgainstRules(rs, known) ==
    LET m[k \in 0 .. Cardinality(rs)] ==
          IF k = 0 THEN [inside |-> known, quiet |-> quiet, fired |-> <<>>]
          ELSE AgainstRule(m[k - 1], SetToSeq(rs)[k])
    IN m[Cardinality(rs)]

\* Slip: whoever is not in the picture is forgotten.
SlipEvaluateRules(rs) ==
    AgainstRules(rs, {p \in inside : p[2] \in {c.id : c \in ToSet(cands)}})

EvaluateRules(rs) == AgainstRules(rs, inside)

\* The rules that a sweep reads for u: none if the store refuses.
RulesOf(u) ==
    IF u \in Expired THEN {} ELSE {r \in Rules : rules[r] = "stored" /\ Owner[r] = u}

-----------------------------------------------------------------------------
(* The loop *)

\* A sweep begins with the sessions of the moment; without one it has nothing to
\* do, unless the boot was keyless and the local user has a rule.
BeginSweep ==
    /\ pc = "sleep"
    /\ todo' = IF sessions # <<>> THEN sessions
               ELSE IF ~cloud /\ RulesOf(LocalUser) # {} THEN <<LocalUser>> ELSE <<>>
    /\ todo' # <<>>
    /\ pc' = "gather"
    /\ UNCHANGED <<cloud, rules, sessions, inside, cands, brief, firings, faults,
                   quiet, told, lost>>

\* An incident is given a new id by every brief.
IdOf(t) == [thing |-> t, nr |-> IF t \in Incidents THEN brief' ELSE 0]

\* The picture is gathered once for all sessions; a source that fails or has
\* nothing gives no fix.
Gather ==
    /\ pc = "gather"
    /\ brief' = IF brief < MaxSweeps THEN brief + 1 ELSE brief
    /\ \E seen \in IF brief < MaxSweeps THEN Sightings ELSE {<<>>} :
          cands' = [i \in DOMAIN seen |->
                      [id |-> IdOf(seen[i].thing), at |-> seen[i].at, sev |-> seen[i].sev]]
    /\ pc' = "session"
    /\ UNCHANGED <<cloud, rules, sessions, inside, todo, firings, faults, quiet, told, lost>>

\* On to the next session, or to sleep.
NextSession ==
    /\ todo' = Tail(todo)
    /\ firings' = <<>>
    /\ pc' = IF Len(todo) = 1 THEN "sleep" ELSE "session"

\* Slip: a session without rules ends the sweep.
SlipEvaluate(rs) ==
    LET mem == EvaluateRules(rs) IN
    /\ pc = "session"
    /\ inside' = mem.inside
    /\ quiet' = mem.quiet
    /\ CASE rs = {} -> todo' = <<>> /\ firings' = <<>> /\ pc' = "sleep"
         [] rs # {} /\ mem.fired = <<>> -> NextSession
         [] OTHER -> firings' = mem.fired /\ pc' = "persist" /\ UNCHANGED todo

\* evaluate_session: membership moves for all its rules at once, before any of
\* the firings is stored or announced.
Evaluate(rs) ==
    LET mem == EvaluateRules(rs) IN
    /\ pc = "session"
    /\ inside' = mem.inside
    /\ quiet' = mem.quiet
    /\ IF mem.fired = <<>> THEN NextSession
       ELSE firings' = mem.fired /\ pc' = "persist" /\ UNCHANGED todo

EvaluateSession ==
    /\ Evaluate(RulesOf(Head(todo)))
    /\ UNCHANGED <<cloud, rules, sessions, cands, brief, faults, told, lost>>

Fault == faults < MaxFaults /\ faults' = faults + 1

\* The store of the session's rules does not answer: it has none this time.
ListFails ==
    /\ Fault
    /\ Evaluate({})
    /\ UNCHANGED <<cloud, rules, sessions, cands, brief, told, lost>>

\* The alert is stored, or its store fails, which is swallowed.
Persist ==
    /\ pc = "persist"
    /\ pc' = "deliver"
    /\ UNCHANGED <<cloud, rules, sessions, inside, cands, brief, todo, firings, faults,
                   quiet, told, lost>>

\* Bookkeeping of an announcement on the bus.
Tell(f) ==
    /\ told' = IF f.to = "enter" THEN told \cup {f.pair} ELSE told \ {f.pair}
    /\ lost' = lost \ {f.pair}

\* The sink is called and the attempt logged, whatever came of it; then the bus.
Deliver ==
    /\ pc = "deliver"
    /\ Tell(Head(firings))
    /\ IF Len(firings) = 1 THEN NextSession
       ELSE firings' = Tail(firings) /\ pc' = "persist" /\ UNCHANGED todo
    /\ UNCHANGED <<cloud, rules, sessions, inside, cands, brief, faults, quiet>>

\* The log of deliveries fails, and again when that failure is logged: the rest
\* of the session's firings goes with it.
LogFails ==
    /\ pc = "deliver"
    /\ Head(firings).pair[1] \in Sinked
    /\ Fault
    /\ lost' = lost \cup {f.pair : f \in ToSet(firings)}
    /\ NextSession
    /\ UNCHANGED <<cloud, rules, sessions, inside, cands, brief, quiet, told>>

-----------------------------------------------------------------------------
(* Its surroundings *)

CreateRule(r) ==
    /\ rules[r] = "new"
    /\ rules' = [rules EXCEPT ![r] = "stored"]
    /\ UNCHANGED <<cloud, sessions, inside, cands, brief, pc, todo, firings, faults,
                   quiet, told, lost>>

DeleteRule(r) ==
    /\ rules[r] = "stored"
    /\ rules' = [rules EXCEPT ![r] = "deleted"]
    /\ UNCHANGED <<cloud, sessions, inside, cands, brief, pc, todo, firings, faults,
                   quiet, told, lost>>

\* A signed-in tab registers its user, again every few minutes.
Register(u) ==
    /\ cloud
    /\ sessions' = IF u \in ToSet(sessions) THEN sessions ELSE Append(sessions, u)
    /\ UNCHANGED <<cloud, rules, inside, cands, brief, pc, todo, firings, faults, quiet,
                   told, lost>>

\* A tab closes: its user is dropped, whatever other tabs he has.
Unregister(u) ==
    /\ \/ \E i \in DOMAIN sessions : sessions[i] = u /\ sessions' = RemoveAt(sessions, i)
       \/ u \notin ToSet(sessions) /\ sessions' = sessions
    /\ UNCHANGED <<cloud, rules, inside, cands, brief, pc, todo, firings, faults, quiet,
                   told, lost>>

\* The process ends, by stop() or a crash, and comes up again: membership,
\* sessions, the ring and the sockets are gone, the rules are not.
RestartWatch ==
    /\ Fault
    /\ inside' = {} /\ sessions' = <<>> /\ cands' = <<>>
    /\ pc' = "sleep" /\ todo' = <<>> /\ firings' = <<>>
    /\ quiet' = {} /\ told' = {} /\ lost' = {}
    /\ UNCHANGED <<cloud, rules, brief>>

Loop == BeginSweep \/ Gather \/ EvaluateSession \/ Persist \/ Deliver

WatchNext ==
    \/ Loop \/ ListFails \/ LogFails \/ RestartWatch
    \/ \E r \in Rules : CreateRule(r) \/ DeleteRule(r)
    \/ \E u \in Users : Register(u) \/ Unregister(u)

\* The loop runs for ever; nobody has to open a tab or read a socket.
WatchSpec == WatchInit /\ [][WatchNext]_watchVars /\ WF_watchVars(Loop)

-----------------------------------------------------------------------------
(* Properties *)

\* What the users were told is what the evaluator believes: between sweeps, a
\* pair is remembered as inside just when its newest announcement is an enter,
\* unless it came in below the floor, or its announcement was lost to a failing
\* log of deliveries.  In a sweep the pairs still to be announced are excused.
ToldIsInside ==
    /\ WatchTypeOK
    /\ \A p \in Pairs \ (quiet \cup lost \cup {f.pair : f \in ToSet(firings)}) :
          p \in inside <=> p \in told

\* The level view, standing_detections: what is in the area now, by the rules of
\* now and the last picture.
Standing(r) ==
    {c \in ToSet(cands) : c.id.thing \in Watches[r] /\ c.sev >= Floor[r] /\ Within(r, c)}

\* Edge and level agree on what matches: once a session has been evaluated, all
\* that the level view shows for its rules is inside for the edge view too.  A
\* thing that two sources put on both sides of the border is excused.
EdgeKnowsLevel ==
    [][EvaluateSession =>
         \A r \in RulesOf(Head(todo)) : \A c \in Standing(r) :
            \/ <<r, c.id>> \in inside'
            \/ \E d \in ToSet(cands) : d.id = c.id /\ ~Within(r, d)]_watchVars

\* No session starves: one whose rules cannot be read does not keep the others
\* from being evaluated.
SessionsSwept ==
    \A u \in Users :
       u \in ToSet(sessions) ~> (u \notin ToSet(sessions) \/ (pc = "session" /\ Head(todo) = u))

\* "A rule fires on the transition into its area, not once per tick while a
\* contact sits inside": of one thing, a rule has told one enter that no exit
\* followed.
EntersOnce ==
    \A r \in Rules, t \in Things : Cardinality({p \in told : p[1] = r /\ p[2].thing = t}) <= 1
===============================================================================
