------------------------------ MODULE MCOpPool ------------------------------
(***************************************************************************)
(* Two validators, the second activated at epoch 1; three attester        *)
(* slashings that overlap (a1 and a2 both slash 1, a2 and a3 both slash 2) *)
(* so that the skip of already-claimed indices matters; maxima of 1 so     *)
(* that every cap is reached with two pooled operations.                   *)
(***************************************************************************)
EXTENDS OpPool, TLC

CONSTANTS a1, a2, a3

MCAttSlashings == {a1, a2, a3}
MCAttKeyOrder == <<a2, a1, a3>>
MCIntersectingIndices == (a1 :> {1}) @@ (a2 :> {1, 2}) @@ (a3 :> {2})
MCActivationEpoch == (1 :> 0) @@ (2 :> 1)
=============================================================================
