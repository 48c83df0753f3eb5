------------------------- MODULE SeenBlockProposers -------------------------
(***************************************************************************)
(* SeenBlockProposers (lodestar/src/chain/seenCache/seenBlockProposers.ts): *)
(* the proposers seen per slot, pruned to a finality horizon.  The MapDef  *)
(* of sets is the set of its <<slot, proposerIndex>> pairs: a bucket only  *)
(* comes into being with the proposer that add puts in it.                 *)
(***************************************************************************)
EXTENDS Naturals

CONSTANTS ProposerIndexes, MaxSlot

SlotRange == 0 .. MaxSlot

VARIABLES proposerIndexesBySlot, finalizedSlot

seenVars == <<proposerIndexesBySlot, finalizedSlot>>

isKnown(blockSlot, proposerIndex) ==
    <<blockSlot, proposerIndex>> \in proposerIndexesBySlot

\* mutant: add accepts any slot
MutAddNoHorizonCheck(blockSlot, proposerIndex) ==
    /\ proposerIndexesBySlot' =
          proposerIndexesBySlot \cup {<<blockSlot, proposerIndex>>}
    /\ UNCHANGED finalizedSlot

\* add throws, changing nothing, below the horizon
add(blockSlot, proposerIndex) ==
    /\ blockSlot >= finalizedSlot
    /\ proposerIndexesBySlot' =
          proposerIndexesBySlot \cup {<<blockSlot, proposerIndex>>}
    /\ UNCHANGED finalizedSlot

\* mutant: the bucket at the new horizon is dropped as well
MutPruneInclusive(newFinalizedSlot) ==
    /\ finalizedSlot' = newFinalizedSlot
    /\ proposerIndexesBySlot' =
          {e \in proposerIndexesBySlot : ~(e[1] <= newFinalizedSlot)}

prune(newFinalizedSlot) ==
    /\ finalizedSlot' = newFinalizedSlot
    /\ proposerIndexesBySlot' =
          {e \in proposerIndexesBySlot : ~(e[1] < newFinalizedSlot)}

SeenInit ==
    /\ proposerIndexesBySlot = {}
    /\ finalizedSlot = 0
=============================================================================
