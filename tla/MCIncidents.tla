----------------------------- MODULE MCIncidents -----------------------------
(***************************************************************************)
(* An incident k1 at any level, an incident k2 that is high or absent, and *)
(* a picture in which a low incident shares the key of a high one.         *)
(***************************************************************************)
EXTENDS Incidents

CONSTANTS k1, k2

At(k, l) == IF l = 0 THEN <<>> ELSE <<[key |-> k, level |-> l]>>

MCPictures ==
    {At(k2, m) \o At(k1, l) : m \in {0, High}, l \in Levels}
    \cup {At(k1, High) \o At(k1, 1)}
===============================================================================
