------------------------------- MODULE MCWatch -------------------------------
(***************************************************************************)
(* Two rules of one user, an area that wants both things at severity 2 and *)
(* has a sink, and a pin on the vessel; a second user whose token expired; *)
(* a vessel that may loiter across the border, and an incident.            *)
(***************************************************************************)
EXTENDS Watch, TLC

CONSTANTS alice, bob, area, pin, vessel, incident

MCOwner == area :> alice @@ pin :> alice
MCWatches == area :> {vessel, incident} @@ pin :> {vessel}
MCFloor == area :> 2 @@ pin :> 1

Fx(t, at, sev) == <<[thing |-> t, at |-> at, sev |-> sev]>>

MCSightings ==
    {v \o i : v \in {<<>>, Fx(vessel, "in", 1), Fx(vessel, "in", 2), Fx(vessel, "out", 2),
                     Fx(vessel, "in", 2) \o Fx(vessel, "out", 2)},
             i \in {<<>>, Fx(incident, "in", 2)}}
===============================================================================
