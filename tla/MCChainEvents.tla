---------------------------- MODULE MCChainEvents ----------------------------
(***************************************************************************)
(* One proposer, four epochs of two slots, up to five distinct block post- *)
(* states in fork choice: a chain of three blocks past genesis is the      *)
(* shortest that finalizes an epoch, and the fifth state lets a competing  *)
(* fork be imported before or after it.                                    *)
(***************************************************************************)
EXTENDS ChainEvents, TLC
=============================================================================
