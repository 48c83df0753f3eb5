----------------------------- MODULE ChainEvents -----------------------------
(***************************************************************************)
(* The chain event handlers (lodestar/src/chain/eventHandlers.ts) that     *)
(* keep the seen block proposers and the operation pool in step with      *)
(* finality, and report justified and finalized checkpoints.              *)
(* handleChainEvents registers every handler through wrapHandler and      *)
(* unregisters them all on abort; emit calls a handler synchronously, and *)
(* neither onCheckpoint nor onForkChoiceFinalized awaits before its       *)
(* writes, so the handlers run in the step of the block import that       *)
(* emits their events.                                                     *)
(*                                                                         *)
(* Fork choice is the set of imported blocks, each as the epoch and the   *)
(* justified and finalized epochs of its post-state: a block is a child   *)
(* of any known one, so blocks of competing forks are imported in any     *)
(* order, and no handler reads more of a block than its state.  The operation pool is abstracted to the        *)
(* finalized epoch of the head state it was last pruned against (OpPool   *)
(* models pruneAll itself); the state cache either holds the head state   *)
(* or not.  Logging and metrics are abstracted to the sets of epochs the  *)
(* justified and finalized handlers were called with.                     *)
(***************************************************************************)
EXTENDS SeenBlockProposers, FiniteSets, TLC

CONSTANTS SLOTS_PER_EPOCH, MaxEpoch, MaxBlocks

ASSUME MaxSlot = (MaxEpoch + 1) * SLOTS_PER_EPOCH - 1

EpochRange == 0 .. MaxEpoch

VARIABLES
    clockSlot,        \* the clock
    fcFinalized,      \* fork choice's finalized epoch
    poolPrunedAt,     \* finalized epoch of the head state of the last pruneAll
    registered,       \* the handlers are on the emitter (no abort yet)
    accepted,         \* blocks add accepted: <<slot, proposer>> (history)
    blocks,           \* fork choice's blocks, as their post-states
    reportedJustified,  \* epochs onJustified was called with
    reportedFinalized   \* epochs onFinalized was called with

reportVars == <<reportedJustified, reportedFinalized>>
vars == <<seenVars, clockSlot, fcFinalized, poolPrunedAt, registered, accepted,
          blocks, reportVars>>

computeStartSlotAtEpoch(e) == e * SLOTS_PER_EPOCH
computeEpochAtSlot(s) == s \div SLOTS_PER_EPOCH

\* mutant: the seen cache is pruned to the epoch number, not its start slot
MutOnForkChoiceFinalizedEpochUnits(cpEpoch) ==
    /\ prune(cpEpoch)
    /\ \/ \E head \in blocks' : poolPrunedAt' = head.finalized
       \/ UNCHANGED poolPrunedAt

\* onForkChoiceFinalized: prune the seen proposers to the start slot of the
\* finalized epoch; prune the op pool only if the state of fork choice's
\* head is cached, and then against that state's finalized checkpoint.
\* The head is fork choice's choice (not in src/): any imported block.
onForkChoiceFinalized(cpEpoch) ==
    /\ prune(computeStartSlotAtEpoch(cpEpoch))
    /\ \/ \E head \in blocks' : poolPrunedAt' = head.finalized  \* hit: pruneAll
       \/ UNCHANGED poolPrunedAt          \* miss: the pool is left alone

\* onJustified / onFinalized: log the checkpoint, set the epoch gauges
onJustified(cpEpoch) == reportedJustified' = reportedJustified \cup {cpEpoch}
onFinalized(cpEpoch) == reportedFinalized' = reportedFinalized \cup {cpEpoch}

\* mutant: finality is compared with the parent's justified epoch
MutOnCheckpointFinalizedVsJustified(state, parentBlockSummary) ==
    /\ IF state.justified > parentBlockSummary.justified
       THEN onJustified(state.justified) ELSE UNCHANGED reportedJustified
    /\ IF state.finalized > parentBlockSummary.justified
       THEN onFinalized(state.finalized) ELSE UNCHANGED reportedFinalized

\* onCheckpoint: emit justified / finalized when the checkpoint state's
\* epochs are later than those of its parent block in fork choice
onCheckpoint(state, parentBlockSummary) ==
    /\ IF state.justified > parentBlockSummary.justified
       THEN onJustified(state.justified) ELSE UNCHANGED reportedJustified
    /\ IF state.finalized > parentBlockSummary.finalized
       THEN onFinalized(state.finalized) ELSE UNCHANGED reportedFinalized

\* The post-states a child of parent can have (state transition, not in
\* src/): epochs do not go back; justification and finality change only in
\* the epoch processing of a block that starts a later epoch; a justified
\* epoch precedes the block's; a newly finalized epoch is one the parent's
\* state had justified, and (past genesis) precedes the justified one.
PostStates(parent) ==
    {st \in [epoch : EpochRange, justified : EpochRange, finalized : EpochRange] :
        /\ st.epoch >= parent.epoch
        /\ st.justified >= parent.justified /\ st.finalized >= parent.finalized
        /\ st.epoch = parent.epoch =>
              st.justified = parent.justified /\ st.finalized = parent.finalized
        /\ st.epoch > parent.epoch => st.justified < st.epoch
        /\ st.finalized <= parent.justified
        /\ st.finalized = 0 \/ st.finalized < st.justified}

\* importBlock (not in src/) adds a child of a known block to fork choice,
\* whose finalized checkpoint moves to a later one of the block's state, and
\* emits checkpoint for the first block of an epoch and forkChoiceFinalized
\* when fork choice finalized a later epoch
ImportBlock(parent, st) ==
    /\ Cardinality(blocks) < MaxBlocks
    /\ st.epoch <= computeEpochAtSlot(clockSlot)
    /\ blocks' = blocks \cup {st}
    /\ fcFinalized' = IF st.finalized > fcFinalized THEN st.finalized ELSE fcFinalized
    /\ IF registered /\ st.epoch > parent.epoch
       THEN onCheckpoint(st, parent) ELSE UNCHANGED reportVars
    /\ IF registered /\ st.finalized > fcFinalized
       THEN onForkChoiceFinalized(st.finalized)
       ELSE UNCHANGED <<seenVars, poolPrunedAt>>
    /\ UNCHANGED <<clockSlot, registered, accepted>>

\* Gossip validation of a block of proposerIndex at blockSlot (not in src/)
\* records it in the cache; add throws below the horizon
GossipBlock(blockSlot, proposerIndex) ==
    /\ blockSlot <= clockSlot
    /\ ~isKnown(blockSlot, proposerIndex)
    /\ add(blockSlot, proposerIndex)
    /\ accepted' = accepted \cup {<<blockSlot, proposerIndex>>}
    /\ UNCHANGED <<clockSlot, fcFinalized, poolPrunedAt, registered, blocks,
                   reportVars>>

\* The clock's slot and epoch handlers prune caches that are not in src/
Tick ==
    /\ clockSlot < MaxSlot
    /\ clockSlot' = clockSlot + 1
    /\ UNCHANGED <<seenVars, fcFinalized, poolPrunedAt, registered, accepted,
                   blocks, reportVars>>

\* handleChainEvents' abort listener unregisters every handler
Abort ==
    /\ registered
    /\ registered' = FALSE
    /\ UNCHANGED <<seenVars, clockSlot, fcFinalized, poolPrunedAt, accepted,
                   blocks, reportVars>>

Init ==
    /\ SeenInit
    /\ clockSlot = 0
    /\ fcFinalized = 0
    /\ poolPrunedAt = 0
    /\ registered = TRUE
    /\ accepted = {}
    /\ blocks = {[epoch |-> 0, justified |-> 0, finalized |-> 0]}
    /\ reportedJustified = {}
    /\ reportedFinalized = {}

Next ==
    \/ \E parent \in blocks : \E st \in PostStates(parent) : ImportBlock(parent, st)
    \/ \E s \in SlotRange, p \in ProposerIndexes : GossipBlock(s, p)
    \/ Tick
    \/ Abort

Spec == Init /\ [][Next]_vars

-----------------------------------------------------------------------------
\* Types, and no bucket below the horizon
TypeOK ==
    /\ proposerIndexesBySlot \subseteq SlotRange \X ProposerIndexes
    /\ finalizedSlot \in SlotRange
    /\ \A e \in proposerIndexesBySlot : e[1] >= finalizedSlot
    /\ clockSlot \in SlotRange /\ fcFinalized \in EpochRange
    /\ poolPrunedAt \in EpochRange /\ registered \in BOOLEAN
    /\ reportedJustified \subseteq EpochRange
    /\ reportedFinalized \subseteq EpochRange

(***************************************************************************)
HorizonFollowsFinality ==
    registered => finalizedSlot = computeStartSlotAtEpoch(fcFinalized)

(***************************************************************************)
(* While the handlers are registered, a block accepted by gossip is known  *)
(* to the seen-proposer cache exactly as long as its slot is at or above  *)
(* the start slot of fork choice's finalized epoch: onForkChoiceFinalized  *)
(* moves the horizon there (spec.md 4.5) and prune drops exactly the       *)
(* buckets below it (spec.md 7: after prune(10), isKnown(5) is false and   *)
(* add(10) succeeds).                                                      *)
(***************************************************************************)
KnownAboveHorizon ==
    registered =>
        \A e \in accepted :
            isKnown(e[1], e[2]) <=> e[1] >= computeStartSlotAtEpoch(fcFinalized)

(***************************************************************************)
(* spec.md 4.5: on a finalized-checkpoint transition the operation pool is *)
(* pruned against the finalized head state.                               *)
(***************************************************************************)
PoolPrunedAtFinality ==
    registered => poolPrunedAt = fcFinalized

(***************************************************************************)
(* Every justified and finalized checkpoint of an imported block's state  *)
(* has been reported by onJustified / onFinalized, whatever the order in  *)
(* which blocks of competing forks were imported: onCheckpoint compares a *)
(* state only with its parent block, never with what was reported before, *)
(* so this rests on the state transition changing finality only where a   *)
(* checkpoint is emitted.                                                   *)
(***************************************************************************)
CheckpointsReported ==
    registered =>
        \A b \in blocks :
            /\ b.justified \in {0} \cup reportedJustified
            /\ b.finalized \in {0} \cup reportedFinalized
=============================================================================
