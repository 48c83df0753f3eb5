------------------------- MODULE MCBeaconStateApi -------------------------
(***************************************************************************)
(* One validator at genesis and up to three in the head, of two statuses, *)
(* so that a queried state may lack a validator the head knows; two slots *)
(* per epoch with two committees each, so that slot and index differ.     *)
(***************************************************************************)
EXTENDS BeaconStateApi, TLC

MCBalance == (0 :> 32) @@ (1 :> 31) @@ (2 :> 33)
MCStatus == (0 :> "active") @@ (1 :> "pending") @@ (2 :> "active")
=============================================================================
