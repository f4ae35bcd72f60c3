------------------------------- MODULE MCSpawn -------------------------------
(***************************************************************************)
(* Instance of Spawn for TLC: three slots, of which the third is slower    *)
(* than the spawn looks.  Intervals are the shortest that leave an         *)
(* announced monster time to arrive.                                       *)
(***************************************************************************)
EXTENDS Spawn, TLC

MCInterval == 1 :> 7 @@ 2 :> 7 @@ 3 :> 8
=============================================================================
