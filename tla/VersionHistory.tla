--------------------------- MODULE VersionHistory ---------------------------
(***************************************************************************)
(* What the Foundry store promises of one dataset (docs/foundry-plan.md,   *)
(* "immutable versions" and "Bounding"): an append-only history of         *)
(* immutable versions numbered from 1, of which the newest Keep keep their *)
(* rows.  The dataset may be deleted, history and all.                     *)
(***************************************************************************)
EXTENDS Naturals

CONSTANTS Rows, Keep, MaxVersions

VARIABLES live,     \* the dataset has not been deleted
          count,    \* the number of versions, and the latest of them
          content,  \* content[v]: what version v was written with
          shown     \* shown[v]: the rows of v one can still read

vars == <<live, count, content, shown>>

Version == 1..MaxVersions
Nothing == [v \in Version |-> {}]

Init ==
    /\ live = TRUE
    /\ count = 0
    /\ content = Nothing
    /\ shown = Nothing

\* A writer adds the next version; the window moves on.
Commit(c) ==
    /\ live
    /\ count < MaxVersions
    /\ count' = count + 1
    /\ content' = [content EXCEPT ![count + 1] = c]
    /\ shown' = [v \in Version |->
                   IF v <= count + 1 /\ v + Keep > count + 1 THEN content'[v] ELSE {}]
    /\ UNCHANGED live

Discard ==
    /\ live
    /\ live' = FALSE
    /\ count' = 0
    /\ content' = Nothing
    /\ shown' = Nothing

Next == Discard \/ \E c \in SUBSET Rows : Commit(c)

Spec == Init /\ [][Next]_vars
=============================================================================
