---------------------------- MODULE SigningSafety ----------------------------
(***************************************************************************)
(* What the validator client promises about the signatures it releases     *)
(* (spec.md 1 and 4.3): for every key, no two released block signatures   *)
(* are for the same slot with different signing roots, and no two         *)
(* released attestation signatures are a double vote or a surround vote.   *)
(* A released signature is one that getSignature has handed back to a      *)
(* duty: from then on it may be published and cannot be taken back.       *)
(***************************************************************************)
EXTENDS Naturals

CONSTANTS Pubkeys, Roots, Slots, Epochs

VARIABLES
    signedBlocks,   \* pubkey -> set of <<slot, signingRoot>>
    signedAtts      \* pubkey -> set of [source, target, root]

vars == <<signedBlocks, signedAtts>>

Att == [source : Epochs, target : Epochs, root : Roots]

\* Two block proposals of one key that would get it slashed
DoubleBlock(b1, b2) == b1[1] = b2[1] /\ b1[2] # b2[2]

\* Two attestations of one key that would get it slashed
DoubleVote(a1, a2) == a1.target = a2.target /\ a1.root # a2.root
Surrounds(a1, a2) == a1.source < a2.source /\ a2.target < a1.target
SlashableAtts(a1, a2) ==
    DoubleVote(a1, a2) \/ Surrounds(a1, a2) \/ Surrounds(a2, a1)

Init ==
    /\ signedBlocks = [k \in Pubkeys |-> {}]
    /\ signedAtts = [k \in Pubkeys |-> {}]

SignBlock(k, s, r) ==
    /\ \A b \in signedBlocks[k] : ~DoubleBlock(b, <<s, r>>)
    /\ signedBlocks' = [signedBlocks EXCEPT ![k] = @ \cup {<<s, r>>}]
    /\ UNCHANGED signedAtts

SignAttestation(k, a) ==
    /\ \A b \in signedAtts[k] : ~SlashableAtts(b, a)
    /\ signedAtts' = [signedAtts EXCEPT ![k] = @ \cup {a}]
    /\ UNCHANGED signedBlocks

Next ==
    \/ \E k \in Pubkeys, s \in Slots, r \in Roots : SignBlock(k, s, r)
    \/ \E k \in Pubkeys, a \in Att : SignAttestation(k, a)

Spec == Init /\ [][Next]_vars

(***************************************************************************)
(* No key ever has two slashable signatures out.                           *)
(***************************************************************************)
NoSlashableSignatures ==
    \A k \in Pubkeys :
        /\ \A b1, b2 \in signedBlocks[k] : ~DoubleBlock(b1, b2)
        /\ \A a1, a2 \in signedAtts[k] : ~SlashableAtts(a1, a2)
=============================================================================
