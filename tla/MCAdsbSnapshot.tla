---------------------------- MODULE MCAdsbSnapshot ----------------------------
(***************************************************************************)
(* The snapshot with a fast and a slow aircraft, one feed, OpenSky, the    *)
(* firehose and the grid.  The feed loses the fast aircraft now and then;  *)
(* OpenSky's positions are old in its body, the fast one's beyond the hold *)
(* and the slow one's beyond the cap.                                      *)
(***************************************************************************)
EXTENDS AdsbSnapshot, TLC

CONSTANTS fast, slow, feed

MCReports ==
    feed :> {fast :> 0 @@ slow :> 0, slow :> 0}
    @@ "opensky" :> {fast :> 2 @@ slow :> 4, slow :> 4}
    @@ "firehose" :> {fast :> 0 @@ slow :> 0}
    @@ "grid" :> {fast :> 0}
===============================================================================
