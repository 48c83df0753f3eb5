------------------------- MODULE MCValidatorSigning -------------------------
(***************************************************************************)
(* One key, two signing roots, two duties in flight, three epochs.  Two    *)
(* duties of the one key is the case that matters: two block productions   *)
(* of a slot, or a block and an attestation, racing through the store.    *)
(***************************************************************************)
EXTENDS ValidatorSigning, TLC

CONSTANTS k1, r1, r2

\* Signing roots are only compared for equality
RootSymmetry == Permutations({r1, r2})
=============================================================================
