-------------------------- MODULE MCCheckpointChain --------------------------
(***************************************************************************)
(* An instance of CheckpointChain for TLC: three payments of one month,    *)
(* of which the second is recorded after the third.                        *)
(***************************************************************************)
EXTENDS CheckpointChain, TLC

CONSTANTS a1, a2, a3, w1
MCInstant == a1 :> 1 @@ a2 :> 2 @@ a3 :> 3
MCPeriod == [p \in Payment |-> 1]
=============================================================================
