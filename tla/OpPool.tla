------------------------------- MODULE OpPool -------------------------------
(***************************************************************************)
(* The beacon node's operation pool (lodestar/src/chain/opPools/opPool.ts) *)
(* as the pool API handlers fill it, and the chain it reads: a head state *)
(* whose validators exit and are slashed by other proposers' blocks and by *)
(* the blocks this node builds from the pool.                              *)
(*                                                                         *)
(* A JS Map is an insertion-ordered sequence of distinct keys; set() on a  *)
(* present key keeps its position, delete() removes it.  Proposer          *)
(* slashings and exits are keyed by validator index; the value of a        *)
(* proposer slashing is abstracted away (any one proves the offence), the  *)
(* value of an exit is its message epoch.  An attester slashing is its     *)
(* root; its intersecting indices are a function of the root.              *)
(***************************************************************************)
EXTENDS Integers, Sequences, FiniteSets, SequencesExt

CONSTANTS
    Validators,             \* validator indices (integers: DB key order)
    AttSlashings,           \* attester slashings, named by hash tree root
    AttKeyOrder,            \* the roots in the DB's byte order of keys
    IntersectingIndices,    \* getAttesterSlashableIndices, root -> indices
    ActivationEpoch,        \* validator -> activation epoch
    MAX_PROPOSER_SLASHINGS,
    MAX_ATTESTER_SLASHINGS,
    MAX_VOLUNTARY_EXITS,
    SHARD_COMMITTEE_PERIOD,
    MIN_VALIDATOR_WITHDRAWABILITY_DELAY,
    EPOCHS_PER_SLASHINGS_VECTOR,
    FAR_FUTURE_EPOCH,
    MaxEpoch,               \* bound on the head state's epoch
    MaxInFlight             \* bound on submissions between validation and insert

ASSUME /\ IntersectingIndices \in [AttSlashings -> SUBSET Validators]
       /\ ToSet(AttKeyOrder) = AttSlashings
       /\ FAR_FUTURE_EPOCH > MaxEpoch + 1 + EPOCHS_PER_SLASHINGS_VECTOR
                                  + MIN_VALIDATOR_WITHDRAWABILITY_DELAY

Epochs == 0..MaxEpoch
NoExit == -1

VARIABLES
    \* OpPool, in memory
    attesterSlashings,        \* Seq of roots (Map insertion order)
    proposerSlashings,        \* Seq of proposer indices
    voluntaryExits,           \* Seq of validator indices
    exitMessageEpoch,         \* index -> voluntaryExit.message.epoch
    attesterSlashingIndexes,  \* Set of seen attester slashing indexes
    \* the head state
    epoch,
    finalizedEpoch,
    validators,
    \* the pool API
    validated                 \* submissions validated, not yet inserted

poolVars    == <<attesterSlashings, proposerSlashings, voluntaryExits,
                 exitMessageEpoch, attesterSlashingIndexes>>
chainVars   == <<epoch, finalizedEpoch, validators>>
vars        == <<poolVars, chainVars, validated>>

Validator == [activationEpoch : Epochs,
              exitEpoch : Nat,
              withdrawableEpoch : Nat,
              slashed : BOOLEAN]

(***************************************************************************)
(* Rules of the state transition that the pool relies on.  They are not   *)
(* code of this repository: they follow the consensus specification that   *)
(* spec.md defers to (is_slashable_validator, is_valid_voluntary_exit,     *)
(* initiate_validator_exit, slash_validator).  The exit queue is           *)
(* abstracted: an exit takes effect at the next epoch.                     *)
(***************************************************************************)
IsSlashableValidator(val, e) ==
    ~val.slashed /\ val.activationEpoch <= e /\ e < val.withdrawableEpoch

IsValidVoluntaryExit(vals, v, msgEpoch) ==
    /\ vals[v].activationEpoch <= epoch /\ epoch < vals[v].exitEpoch
    /\ vals[v].exitEpoch = FAR_FUTURE_EPOCH
    /\ epoch >= msgEpoch
    /\ epoch >= vals[v].activationEpoch + SHARD_COMMITTEE_PERIOD

InitiateExit(val) ==
    IF val.exitEpoch # FAR_FUTURE_EPOCH THEN val
    ELSE [val EXCEPT !.exitEpoch = epoch + 1,
                     !.withdrawableEpoch =
                        epoch + 1 + MIN_VALIDATOR_WITHDRAWABILITY_DELAY]

SlashValidator(val) ==
    LET ex == InitiateExit(val) IN
    [ex EXCEPT !.slashed = TRUE,
               !.withdrawableEpoch =
                  IF @ > epoch + EPOCHS_PER_SLASHINGS_VECTOR THEN @
                  ELSE epoch + EPOCHS_PER_SLASHINGS_VECTOR]

(***************************************************************************)
(* Reference: apply a block body to `validators` in the order of           *)
(* process_operations.  ok is FALSE as soon as one operation is invalid.   *)
(***************************************************************************)
ApplyProposerSlashing(acc, v) ==
    [ok   |-> acc.ok /\ IsSlashableValidator(acc.vals[v], epoch),
     vals |-> [acc.vals EXCEPT ![v] = SlashValidator(@)]]

ApplyAttesterSlashing(acc, a) ==
    LET hit == {i \in IntersectingIndices[a] :
                   IsSlashableValidator(acc.vals[i], epoch)}
    IN [ok   |-> acc.ok /\ hit # {},
        vals |-> [i \in Validators |->
                     IF i \in hit THEN SlashValidator(acc.vals[i])
                     ELSE acc.vals[i]]]

ApplyVoluntaryExit(acc, v) ==
    [ok   |-> acc.ok /\ IsValidVoluntaryExit(acc.vals, v, exitMessageEpoch[v]),
     vals |-> [acc.vals EXCEPT ![v] = InitiateExit(@)]]

ApplyBlockBody(body) ==
    LET s1 == FoldLeft(ApplyProposerSlashing, [ok |-> TRUE, vals |-> validators],
                       body.proposerSlashings)
        s2 == FoldLeft(ApplyAttesterSlashing, s1, body.attesterSlashings)
    IN  FoldLeft(ApplyVoluntaryExit, s2, body.voluntaryExits)

(***************************************************************************)
(* OpPool                                                                  *)
(***************************************************************************)
\* Map.set: a new key is appended, a present key keeps its place
MapSet(keys, k) == IF k \in ToSet(keys) THEN keys ELSE Append(keys, k)

isSlashableAtEpoch(val, e) ==
    ~val.slashed /\ val.activationEpoch <= e /\ e < val.withdrawableEpoch

hasSeenAttesterSlashing(indices) == indices \subseteq attesterSlashingIndexes

hasSeenVoluntaryExit(v) == v \in ToSet(voluntaryExits)

hasSeenProposerSlashing(v) == v \in ToSet(proposerSlashings)

\* The three loops of getSlashingsAndExits(state), against the head state
SelectProposerSlashing(acc, v) ==
    IF Len(acc) >= MAX_PROPOSER_SLASHINGS THEN acc
    ELSE IF isSlashableAtEpoch(validators[v], epoch) THEN Append(acc, v)
    ELSE acc

SelectAttesterSlashing(acc, a) ==
    LET slashableIndices ==
            {i \in IntersectingIndices[a] : isSlashableAtEpoch(validators[i], epoch)}
    IN  IF IntersectingIndices[a] \cap acc.toBeSlashed # {} THEN acc
        ELSE IF slashableIndices = {} THEN acc
        ELSE [sel |-> Append(acc.sel, a),
              toBeSlashed |-> acc.toBeSlashed \cup slashableIndices]

\* mutant: the exit loop forgets the validators slashed earlier in the block
MutSelectVoluntaryExitNoSlashedCheck(toBeSlashed, acc, v) ==
    IF Len(acc) >= MAX_VOLUNTARY_EXITS THEN acc
    ELSE IF IsValidVoluntaryExit(validators, v, exitMessageEpoch[v])
         THEN Append(acc, v)
    ELSE acc

SelectVoluntaryExit(toBeSlashed, acc, v) ==
    IF Len(acc) >= MAX_VOLUNTARY_EXITS THEN acc
    ELSE IF /\ v \notin toBeSlashed
            /\ IsValidVoluntaryExit(validators, v, exitMessageEpoch[v])
         THEN Append(acc, v)
    ELSE acc

getSlashingsAndExits ==
    LET pro == FoldLeft(SelectProposerSlashing, <<>>, proposerSlashings)
        att == FoldLeft(SelectAttesterSlashing,
                        [sel |-> <<>>, toBeSlashed |-> ToSet(pro)],
                        attesterSlashings)
        ex  == FoldLeft(LAMBDA acc, v : SelectVoluntaryExit(att.toBeSlashed, acc, v),
                        <<>>, voluntaryExits)
    IN  [attesterSlashings |-> att.sel,
         proposerSlashings |-> pro,
         voluntaryExits    |-> ex]

\* insert*: "Must be validated beforehand"
insertAttesterSlashing(a) ==
    /\ attesterSlashings' = MapSet(attesterSlashings, a)
    /\ attesterSlashingIndexes' = attesterSlashingIndexes \cup IntersectingIndices[a]

insertProposerSlashing(v) ==
    proposerSlashings' = MapSet(proposerSlashings, v)

insertVoluntaryExit(v, e) ==
    /\ voluntaryExits' = MapSet(voluntaryExits, v)
    /\ exitMessageEpoch' = [exitMessageEpoch EXCEPT ![v] = e]

(***************************************************************************)
(* Gossip validation is not in src/; modelled from spec.md 4.1 and 6: the  *)
(* operation is valid against the head state and brings something not yet  *)
(* seen (the hasSeen* queries of the pool).                                *)
(***************************************************************************)
validateAttesterSlashing(a) ==
    /\ ~hasSeenAttesterSlashing(IntersectingIndices[a])
    /\ \E i \in IntersectingIndices[a] : IsSlashableValidator(validators[i], epoch)

validateProposerSlashing(v) ==
    /\ ~hasSeenProposerSlashing(v)
    /\ IsSlashableValidator(validators[v], epoch)

validateVoluntaryExit(v, e) ==
    /\ ~hasSeenVoluntaryExit(v)
    /\ IsValidVoluntaryExit(validators, v, e)

(***************************************************************************)
(* Pool API handlers (pool/index.ts): await validateGossip*, then insert   *)
(* and publish (publishing changes no state).  Between the validation and  *)
(* the insert other handlers run: another submission, a pruneAll, a block. *)
(* validated holds the submissions that passed validation and have not     *)
(* been inserted yet; a rejected submission changes nothing.               *)
(***************************************************************************)
ValidateStep(op) ==
    /\ Cardinality(validated) < MaxInFlight
    /\ validated' = validated \cup {op}
    /\ UNCHANGED <<poolVars, chainVars>>

validatePoolAttesterSlashing(a) ==
    validateAttesterSlashing(a) /\ ValidateStep(<<"att", a>>)

validatePoolProposerSlashing(v) ==
    validateProposerSlashing(v) /\ ValidateStep(<<"prop", v>>)

validatePoolVoluntaryExit(v, e) ==
    validateVoluntaryExit(v, e) /\ ValidateStep(<<"exit", v, e>>)

submitPoolAttesterSlashing(a) ==
    /\ <<"att", a>> \in validated
    /\ validated' = validated \ {<<"att", a>>}
    /\ insertAttesterSlashing(a)
    /\ UNCHANGED <<proposerSlashings, voluntaryExits, exitMessageEpoch, chainVars>>

submitPoolProposerSlashing(v) ==
    /\ <<"prop", v>> \in validated
    /\ validated' = validated \ {<<"prop", v>>}
    /\ insertProposerSlashing(v)
    /\ UNCHANGED <<attesterSlashings, voluntaryExits, exitMessageEpoch,
                   attesterSlashingIndexes, chainVars>>

submitPoolVoluntaryExit(v, e) ==
    /\ <<"exit", v, e>> \in validated
    /\ validated' = validated \ {<<"exit", v, e>>}
    /\ insertVoluntaryExit(v, e)
    /\ UNCHANGED <<attesterSlashings, proposerSlashings, attesterSlashingIndexes,
                   chainVars>>

\* The three prunes, each against the finalized epoch fin of the head state
pruneAttesterSlashings(fin) ==
    LET stillSlashable(a) ==
            \E i \in IntersectingIndices[a] : validators[i].exitEpoch > fin
    IN  attesterSlashings' = SelectSeq(attesterSlashings, stillSlashable)

pruneProposerSlashings(fin) ==
    LET keep(v) == ~(validators[v].exitEpoch <= fin)
    IN  proposerSlashings' = SelectSeq(proposerSlashings, keep)

pruneVoluntaryExits(fin) ==
    LET keep(v) == ~(exitMessageEpoch[v] <= fin)
    IN  /\ voluntaryExits' = SelectSeq(voluntaryExits, keep)
        /\ exitMessageEpoch' = [v \in Validators |->
                                   IF v \in ToSet(voluntaryExits) /\ keep(v)
                                   THEN exitMessageEpoch[v] ELSE NoExit]

pruneAll(fin) ==
    /\ pruneAttesterSlashings(fin)
    /\ pruneProposerSlashings(fin)
    /\ pruneVoluntaryExits(fin)
    /\ UNCHANGED attesterSlashingIndexes

(***************************************************************************)
(* The chain the pool reads (environment): epochs pass, finality advances  *)
(* and runs the pool's part of onForkChoiceFinalized, other proposers'     *)
(* blocks exit or slash validators, and this node imports the block it     *)
(* builds from getSlashingsAndExits (a block the state transition rejects *)
(* is not imported).                                                       *)
(***************************************************************************)
NextEpoch ==
    /\ epoch < MaxEpoch
    /\ epoch' = epoch + 1
    /\ UNCHANGED <<finalizedEpoch, validators, poolVars, validated>>

\* Fork choice finalizes epoch f and emits forkChoiceFinalized; its handler
\* (eventHandlers.ts) prunes the pool against the head state if the state
\* cache holds it, and leaves the pool alone otherwise.  Casper FFG
\* finalizes at best the epoch two before the current one.
Finalize ==
    /\ \E f \in finalizedEpoch + 1 .. epoch - 2 :
          /\ finalizedEpoch' = f
          /\ \/ pruneAll(f)
             \/ UNCHANGED poolVars
    /\ UNCHANGED <<epoch, validators, validated>>

ChainExit(v) ==
    /\ IsValidVoluntaryExit(validators, v, epoch)
    /\ validators' = [validators EXCEPT ![v] = InitiateExit(@)]
    /\ UNCHANGED <<epoch, finalizedEpoch, poolVars, validated>>

ChainSlash(v) ==
    /\ IsSlashableValidator(validators[v], epoch)
    /\ validators' = [validators EXCEPT ![v] = SlashValidator(@)]
    /\ UNCHANGED <<epoch, finalizedEpoch, poolVars, validated>>

ProposeBlock ==
    LET post == ApplyBlockBody(getSlashingsAndExits) IN
    /\ post.ok
    /\ validators' = post.vals
    /\ UNCHANGED <<epoch, finalizedEpoch, poolVars, validated>>

-----------------------------------------------------------------------------
Init ==
    /\ attesterSlashings = <<>>
    /\ proposerSlashings = <<>>
    /\ voluntaryExits = <<>>
    /\ exitMessageEpoch = [v \in Validators |-> NoExit]
    /\ attesterSlashingIndexes = {}
    /\ epoch = 0
    /\ finalizedEpoch = 0
    /\ validators = [v \in Validators |->
                        [activationEpoch |-> ActivationEpoch[v],
                         exitEpoch |-> FAR_FUTURE_EPOCH,
                         withdrawableEpoch |-> FAR_FUTURE_EPOCH,
                         slashed |-> FALSE]]
    /\ validated = {}

Next ==
    \/ \E a \in AttSlashings :
          validatePoolAttesterSlashing(a) \/ submitPoolAttesterSlashing(a)
    \/ \E v \in Validators :
          validatePoolProposerSlashing(v) \/ submitPoolProposerSlashing(v)
    \/ \E v \in Validators, e \in Epochs :
          validatePoolVoluntaryExit(v, e) \/ submitPoolVoluntaryExit(v, e)
    \/ NextEpoch
    \/ Finalize
    \/ \E v \in Validators : ChainExit(v) \/ ChainSlash(v)
    \/ ProposeBlock

Spec == Init /\ [][Next]_vars

-----------------------------------------------------------------------------
(***************************************************************************)
(* getSlashingsAndExits yields a block body the state transition accepts  *)
(* against the state it was selected from: every proposer slashing,        *)
(* attester slashing and exit applies in block order after the ones before *)
(* it, so no validator is slashed twice and no slashed validator exits.    *)
(* This is what the toBeSlashedIndices bookkeeping of the selection loops  *)
(* is for.                                                                 *)
(***************************************************************************)
SelectionApplies == ApplyBlockBody(getSlashingsAndExits).ok

(***************************************************************************)
(* The block body getSlashingsAndExits selects respects the per-block      *)
(* maxima of the protocol for all three lists (spec.md 4.1: "bounded by    *)
(* protocol maxima"); process_block rejects a body above them.  The       *)
(* proposer and exit loops break at their maximum, the attester slashing   *)
(* loop has no such break.                                                 *)
(***************************************************************************)
SelectionWithinMaxima ==
    LET b == getSlashingsAndExits IN
    /\ Len(b.proposerSlashings) <= MAX_PROPOSER_SLASHINGS
    /\ Len(b.attesterSlashings) <= MAX_ATTESTER_SLASHINGS
    /\ Len(b.voluntaryExits) <= MAX_VOLUNTARY_EXITS

=============================================================================
