-------------------------- MODULE ValidatorSigning --------------------------
(***************************************************************************)
(* The validator client's signing path: ValidatorStore                     *)
(* (validator/src/services/validatorStore.ts) with its signers and its     *)
(* slashing protection, driven by the block proposing service             *)
(* (validator/src/services/block.ts) and by attestation duties.           *)
(*                                                                         *)
(* Every duty is a task on the cooperative event loop; a task's pc is the  *)
(* await it is suspended at, and every other task, signer change, clock    *)
(* tick or process restart may run while it is suspended:                 *)
(*   remoteRandao  signRandao waits for the remote signer                  *)
(*   produce       waits for the beacon node's block                       *)
(*   protect       waits for slashing protection's check                  *)
(*   insert        the check passed; waits for the insert                  *)
(*   remoteSign    getSignature waits for the remote signer                *)
(*   publish       waits for publishBlock                                  *)
(* The code after an await runs in the step in which the await resolves:  *)
(* getSignature's lookup of the signer, and a local signature, are part   *)
(* of the step that calls it.                                              *)
(* A block is <<slot, signingRoot>>; an attestation is its source, target  *)
(* and signing root.  The clock counts epochs with one block slot each.    *)
(***************************************************************************)
EXTENDS Naturals, FiniteSets

CONSTANTS
    Pubkeys,        \* validator keys the client may hold
    Roots,          \* signing roots
    Tasks,          \* ids of duties that may be in flight at once
    MaxSlot,        \* bound on the clock
    MaxDuties,      \* bound on the duties and imports started in a behaviour
    GENESIS_SLOT

Slots == GENESIS_SLOT + 1 .. MaxSlot
Epochs == 0 .. MaxSlot
NoSigner == "none"
SignerTypes == {"local", "remote"}

VARIABLES
    signers,          \* ValidatorStore.validators: pubkey -> signer type
    blockHistory,     \* slashing protection, durable: pubkey -> blocks
    attHistory,       \* slashing protection, durable: pubkey -> attestations
    task,             \* duty id -> Idle or the suspended duty
    currentSlot,      \* the clock
    releasedBlocks,   \* block signatures getSignature has returned
    releasedAtts,     \* attestation signatures getSignature has returned
    started           \* duties and imports so far (bounded by MaxDuties)

vars == <<signers, blockHistory, attHistory, task, currentSlot,
          releasedBlocks, releasedAtts, started>>

Att == [source : Epochs, target : Epochs, root : Roots]
Idle == [pc |-> "idle"]
BlockDuty == [pc : {"remoteRandao", "produce", "protect", "insert", "remoteSign",
                    "publish"},
              kind : {"block"}, pk : Pubkeys, slot : Epochs,
              blk : (Slots \X Roots) \cup {<<>>}]
AttDuty == [pc : {"protect", "insert", "remoteSign"}, kind : {"att"},
            pk : Pubkeys, att : Att]
\* aggregate-and-proof, sync committee, contribution, selection proofs and
\* voluntary exit: the signing root is computed and getSignature awaited
OtherDuty == [pc : {"remoteSign"}, kind : {"other"}, pk : Pubkeys]
\* what the beacon node says a duty is, and the data it asks to be signed
DutyData == [slot : {0, 1}, index : {0, 1}]

Safety == INSTANCE SigningSafety
            WITH signedBlocks <- releasedBlocks, signedAtts <- releasedAtts

\* The signature is returned to the duty d: a block goes on to publishBlock,
\* any other duty is done with the store.
Release(t, d) ==
    /\ releasedBlocks' = IF d.kind = "block"
                         THEN [releasedBlocks EXCEPT ![d.pk] = @ \cup {d.blk}]
                         ELSE releasedBlocks
    /\ releasedAtts' = IF d.kind = "att"
                       THEN [releasedAtts EXCEPT ![d.pk] = @ \cup {d.att}]
                       ELSE releasedAtts
    /\ task' = [task EXCEPT ![t] = IF d.kind = "block"
                                   THEN [d EXCEPT !.pc = "publish"] ELSE Idle]

\* getSignature for duty d up to its await: an unknown key throws, a local
\* key signs in place, a remote signer is called.
getSignature(t, d) ==
    \/ signers[d.pk] = NoSigner /\ task' = [task EXCEPT ![t] = Idle]
                                /\ UNCHANGED <<releasedBlocks, releasedAtts>>
    \/ signers[d.pk] = "local" /\ Release(t, d)
    \/ signers[d.pk] = "remote" /\ task' = [task EXCEPT ![t] = [d EXCEPT !.pc = "remoteSign"]]
                                /\ UNCHANGED <<releasedBlocks, releasedAtts>>

(***************************************************************************)
(* Slashing protection is not in src/.  Its history is durable and         *)
(* survives restarts, and a repeat of an identical message passes          *)
(* (spec.md 4.3).  Its check-and-insert reads the key's history and then   *)
(* writes it, each an await of the DB: spec.md 5 relies on a per-key queue *)
(* of the callers so that no two requests of one key are between the two. *)
(***************************************************************************)
checkBlockProposal(t) ==
    LET k == task[t].pk IN
    /\ task[t].pc = "protect" /\ task[t].kind = "block"
    /\ task' = [task EXCEPT ![t] =
                   IF \E b2 \in blockHistory[k] : Safety!DoubleBlock(b2, task[t].blk)
                   THEN Idle ELSE [@ EXCEPT !.pc = "insert"]]
    /\ UNCHANGED <<signers, blockHistory, attHistory, currentSlot,
                   releasedBlocks, releasedAtts, started>>

checkAttestation(t) ==
    LET k == task[t].pk IN
    /\ task[t].pc = "protect" /\ task[t].kind = "att"
    /\ task' = [task EXCEPT ![t] =
                   IF \E a2 \in attHistory[k] : Safety!SlashableAtts(a2, task[t].att)
                   THEN Idle ELSE [@ EXCEPT !.pc = "insert"]]
    /\ UNCHANGED <<signers, blockHistory, attHistory, currentSlot,
                   releasedBlocks, releasedAtts, started>>

\* The insert resolves and signBlock / signAttestation go on to getSignature
insertBlockProposal(t) ==
    LET d == task[t] IN
    /\ d.pc = "insert" /\ d.kind = "block"
    /\ blockHistory' = [blockHistory EXCEPT ![d.pk] = @ \cup {d.blk}]
    /\ getSignature(t, d)
    /\ UNCHANGED <<signers, attHistory, currentSlot, started>>

insertAttestation(t) ==
    LET d == task[t] IN
    /\ d.pc = "insert" /\ d.kind = "att"
    /\ attHistory' = [attHistory EXCEPT ![d.pk] = @ \cup {d.att}]
    /\ getSignature(t, d)
    /\ UNCHANGED <<signers, blockHistory, currentSlot, started>>

(***************************************************************************)
(* ValidatorStore                                                          *)
(***************************************************************************)
addSigner(k, type) ==
    /\ signers' = [signers EXCEPT ![k] = type]
    /\ UNCHANGED <<blockHistory, attHistory, task, currentSlot,
                   releasedBlocks, releasedAtts, started>>

removeSigner(k) ==
    /\ signers' = [signers EXCEPT ![k] = NoSigner]
    /\ UNCHANGED <<blockHistory, attHistory, task, currentSlot,
                   releasedBlocks, releasedAtts, started>>

\* externalSignerPostSignature resolves
remoteSignerResponse(t) ==
    /\ \/ task[t].pc = "remoteRandao" /\ task' = [task EXCEPT ![t].pc = "produce"]
                                      /\ UNCHANGED <<releasedBlocks, releasedAtts>>
       \/ task[t].pc = "remoteSign" /\ Release(t, task[t])
    /\ UNCHANGED <<signers, blockHistory, attHistory, currentSlot, started>>

\* externalSignerPostSignature rejects: the error reaches the duty, which
\* logs it (createAndPublishBlock) or rethrows it (attestation duty)
remoteSignerError(t) ==
    /\ task[t].pc \in {"remoteRandao", "remoteSign"}
    /\ task' = [task EXCEPT ![t] = Idle]
    /\ UNCHANGED <<signers, blockHistory, attHistory, currentSlot,
                   releasedBlocks, releasedAtts, started>>

\* signBlock up to its await of the check-and-insert: a block above the
\* duty's slot is refused
signBlock(d, b) ==
    IF b[1] > d.slot THEN Idle
    ELSE [d EXCEPT !.pc = "protect", !.blk = b]

\* mutant: signAttestation asks for the signature without slashing protection
MutSignAttestationNoProtection(t, k, a) ==
    /\ task[t] = Idle /\ started < MaxDuties
    /\ a.target <= currentSlot
    /\ getSignature(t, [pc |-> "idle", kind |-> "att", pk |-> k, att |-> a])
    /\ started' = started + 1
    /\ UNCHANGED <<signers, blockHistory, attHistory, currentSlot>>

\* signAttestation up to its await of the check-and-insert; the duty is
\* consistent with the data (validateAttestationDuty throws otherwise,
\* before any state is touched)
signAttestation(t, k, a) ==
    /\ task[t] = Idle /\ started < MaxDuties
    /\ a.target <= currentSlot
    /\ task' = [task EXCEPT ![t] = [pc |-> "protect", kind |-> "att",
                                    pk |-> k, att |-> a]]
    /\ started' = started + 1
    /\ UNCHANGED <<signers, blockHistory, attHistory, currentSlot,
                   releasedBlocks, releasedAtts>>

\* validateAttestationDuty: the data must be for the duty's slot and committee
validateAttestationDuty(duty, data) ==
    duty.slot = data.slot /\ duty.index = data.index

\* signAggregateAndProof: an inconsistent duty throws before any state is
\* touched; otherwise the signing root is computed and getSignature called
signAggregateAndProof(t, k, duty, data) ==
    /\ task[t] = Idle /\ started < MaxDuties
    /\ IF validateAttestationDuty(duty, data)
       THEN getSignature(t, [pc |-> "idle", kind |-> "other", pk |-> k])
       ELSE UNCHANGED <<task, releasedBlocks, releasedAtts>>
    /\ started' = started + 1
    /\ UNCHANGED <<signers, blockHistory, attHistory, currentSlot>>

\* signSyncCommitteeSignature, signContributionAndProof, the selection
\* proofs and signVoluntaryExit: no duty check and no slashing protection
signOther(t, k) ==
    /\ task[t] = Idle /\ started < MaxDuties
    /\ getSignature(t, [pc |-> "idle", kind |-> "other", pk |-> k])
    /\ started' = started + 1
    /\ UNCHANGED <<signers, blockHistory, attHistory, currentSlot>>

\* importInterchange hands a history to slashing protection, which loads it
\* as it is (spec.md 4.3); one record per import in the model
importInterchange(k, blocks, atts) ==
    /\ started < MaxDuties
    /\ blockHistory' = [blockHistory EXCEPT ![k] = @ \cup blocks]
    /\ attHistory' = [attHistory EXCEPT ![k] = @ \cup atts]
    /\ started' = started + 1
    /\ UNCHANGED <<signers, task, currentSlot, releasedBlocks, releasedAtts>>

(***************************************************************************)
(* BlockProposingService                                                   *)
(***************************************************************************)
\* signRandao: getSignature of the epoch's signing root, with no slashing
\* protection (unknown key: the error reaches createAndPublishBlock, which
\* logs it; local: signed in place; remote: the call is made)
signRandao(d, k) ==
    CASE signers[k] = "local"  -> d
      [] signers[k] = "remote" -> [d EXCEPT !.pc = "remoteRandao"]
      [] OTHER                 -> Idle

\* notifyBlockProductionFn starts createAndPublishBlock, which runs until
\* its first await, in signRandao.  It may run more than once for one slot.
notifyBlockProductionFn(t, k) ==
    LET d == [pc |-> "produce", kind |-> "block", pk |-> k,
              slot |-> currentSlot, blk |-> <<>>]
    IN
    /\ currentSlot > GENESIS_SLOT
    /\ task[t] = Idle /\ started < MaxDuties
    /\ task' = [task EXCEPT ![t] = signRandao(d, k)]
    /\ started' = started + 1
    /\ UNCHANGED <<signers, blockHistory, attHistory, currentSlot,
                   releasedBlocks, releasedAtts>>

\* The beacon node answers with block b (its slot is the node's choice) and
\* the fee recipient check passes; signBlock is called.
produceBlock(t, b) ==
    /\ task[t].pc = "produce"
    /\ task' = [task EXCEPT ![t] = signBlock(@, b)]
    /\ UNCHANGED <<signers, blockHistory, attHistory, currentSlot,
                   releasedBlocks, releasedAtts, started>>

\* produceBlock rejects, or the strict fee recipient check throws
produceBlockError(t) ==
    /\ task[t].pc = "produce"
    /\ task' = [task EXCEPT ![t] = Idle]
    /\ UNCHANGED <<signers, blockHistory, attHistory, currentSlot,
                   releasedBlocks, releasedAtts, started>>

\* publishBlock resolves or rejects; either way the duty ends
publishBlock(t) ==
    /\ task[t].pc = "publish"
    /\ task' = [task EXCEPT ![t] = Idle]
    /\ UNCHANGED <<signers, blockHistory, attHistory, currentSlot,
                   releasedBlocks, releasedAtts, started>>

(***************************************************************************)
(* Environment: the clock, and a process restart that loses every duty in  *)
(* flight and starts with whatever keys it is given; the slashing          *)
(* protection history is on disk and survives.                             *)
(***************************************************************************)
Tick ==
    /\ currentSlot < MaxSlot
    /\ currentSlot' = currentSlot + 1
    /\ UNCHANGED <<signers, blockHistory, attHistory, task,
                   releasedBlocks, releasedAtts, started>>

Restart ==
    /\ task' = [t \in Tasks |-> Idle]
    /\ signers' \in [Pubkeys -> SignerTypes \cup {NoSigner}]
    /\ UNCHANGED <<blockHistory, attHistory, currentSlot,
                   releasedBlocks, releasedAtts, started>>

-----------------------------------------------------------------------------
\* The constructor adds the signers it is given
Init ==
    /\ signers \in [Pubkeys -> SignerTypes \cup {NoSigner}]
    /\ blockHistory = [k \in Pubkeys |-> {}]
    /\ attHistory = [k \in Pubkeys |-> {}]
    /\ task = [t \in Tasks |-> Idle]
    /\ currentSlot = GENESIS_SLOT
    /\ releasedBlocks = [k \in Pubkeys |-> {}]
    /\ releasedAtts = [k \in Pubkeys |-> {}]
    /\ started = 0

Next ==
    \/ \E k \in Pubkeys, type \in SignerTypes : addSigner(k, type)
    \/ \E k \in Pubkeys : removeSigner(k)
    \/ \E t \in Tasks, k \in Pubkeys : notifyBlockProductionFn(t, k)
    \/ \E t \in Tasks, k \in Pubkeys, a \in Att : signAttestation(t, k, a)
    \/ \E t \in Tasks, k \in Pubkeys, duty, data \in DutyData :
          signAggregateAndProof(t, k, duty, data)
    \/ \E t \in Tasks, k \in Pubkeys : signOther(t, k)
    \/ \E k \in Pubkeys :
          \/ \E b \in Slots \X Roots : importInterchange(k, {b}, {})
          \/ \E a \in Att : importInterchange(k, {}, {a})
    \/ \E t \in Tasks :
          \/ \E b \in Slots \X Roots : produceBlock(t, b)
          \/ produceBlockError(t)
          \/ checkBlockProposal(t)
          \/ checkAttestation(t)
          \/ insertBlockProposal(t)
          \/ insertAttestation(t)
          \/ remoteSignerResponse(t)
          \/ remoteSignerError(t)
          \/ publishBlock(t)
    \/ Tick
    \/ Restart

Spec == Init /\ [][Next]_vars

-----------------------------------------------------------------------------
(***************************************************************************)
(* Every signature getSignature has returned is in the slashing protection *)
(* history: the insert is awaited before getSignature is called, so a     *)
(* remote signer's late answer, a signer removed or added in between, or  *)
(* a restart never leaves a signature out of the durable record that a    *)
(* restarted client checks against.                                        *)
(***************************************************************************)
ReleasedRecorded ==
    \A k \in Pubkeys :
        /\ releasedBlocks[k] \subseteq blockHistory[k]
        /\ releasedAtts[k] \subseteq attHistory[k]

(***************************************************************************)
(* The signing path implements SigningSafety (spec.md 4.3 and 5): the      *)
(* signatures released are the ones the abstract specification allows (no *)
(* double block, double or surround vote).  ValidatorStore keeps no        *)
(* per-key queue, so two duties of one key, such as two runs of            *)
(* notifyBlockProductionFn for one slot, can both pass the check before    *)
(* either inserts.                                                         *)
(***************************************************************************)
SafetySpec == Safety!Spec
=============================================================================
