------------------------------ MODULE MCPoolApi ------------------------------
(***************************************************************************)
(* Three items, so that no error, one error and several errors all occur, *)
(* and two subnets, so that a signature can fail on one publish while its *)
(* other publish is still in flight.                                       *)
(***************************************************************************)
EXTENDS PoolApi, TLC
=============================================================================
