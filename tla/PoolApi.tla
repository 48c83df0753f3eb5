------------------------------- MODULE PoolApi -------------------------------
(***************************************************************************)
(* The batch handlers of the beacon pool API                              *)
(* (lodestar/src/api/impl/beacon/pool/index.ts): submitPoolAttestations   *)
(* and submitPoolSyncCommitteeSignatures.  Every item runs as its own     *)
(* callback of Promise.all and catches its own error, so all of them      *)
(* settle; the handler then throws nothing, the one error as it is, or    *)
(* one error naming them all.                                              *)
(*                                                                         *)
(* An item's callback runs synchronously up to its first await.  A sync   *)
(* committee signature looks up the head state's committee for its slot  *)
(* (which throws for a slot outside the state's periods) and returns at   *)
(* once for a non-member.  After validation the item is added to its pool *)
(* and published once per position it holds in the committee; positions   *)
(* map to subnets by integer division, so two positions of one validator *)
(* may share a subnet.  The first publish that rejects fails the item, the *)
(* others still settle later.  An attestation has one position: its       *)
(* subnet.                                                                 *)
(***************************************************************************)
EXTENDS Naturals, Sequences, FiniteSets, SequencesExt

CONSTANTS
    Items,                       \* the request's items, in request order
    AttSubnets,                  \* attestation subnets
    SYNC_COMMITTEE_SIZE

Positions == 0 .. SYNC_COMMITTEE_SIZE - 1

VARIABLES
    call,       \* which handler runs: "attestations" | "syncCommittee"
    member,     \* item -> it has positions in the committee
    indexes,    \* item -> its positions (indexesInCommittee), or its subnet
    pc,         \* item -> "validate" | "publish" | "done" | "failed"
    pooled,     \* <<item, position>>: pool.add(subnet, item, indexInSubcommittee),
                \* where the position determines subnet and index within it
    pending,    \* item -> positions whose publish is in flight (two may be
                \* on one subnet)
    errors,     \* the errors array: items in the order they failed
    result      \* the handler's outcome once Promise.all has resolved

vars == <<call, member, indexes, pc, pooled, pending, errors, result>>

Settled(i) == pc[i] \in {"done", "failed"}

\* errors.push in the item's catch
Fail(i) ==
    /\ pc' = [pc EXCEPT ![i] = "failed"]
    /\ errors' = Append(errors, i)

\* validateGossipAttestation / validateSyncCommitteeSigOnly rejects
validateError(i) ==
    /\ pc[i] = "validate"
    /\ Fail(i)
    /\ UNCHANGED <<call, member, indexes, pooled, pending, result>>

\* validation resolves: add to the pool for every position, then publish
\* each on its subnet
validateOk(i) ==
    /\ pc[i] = "validate"
    /\ pooled' = pooled \cup {<<i, x>> : x \in indexes[i]}
    /\ pc' = [pc EXCEPT ![i] = "publish"]
    /\ pending' = [pending EXCEPT ![i] = indexes[i]]
    /\ UNCHANGED <<call, member, indexes, errors, result>>

\* a publish resolves; the item is done when its last publish resolves
publishOk(i, x) ==
    /\ x \in pending[i]
    /\ pending' = [pending EXCEPT ![i] = @ \ {x}]
    /\ pc' = [pc EXCEPT ![i] = IF @ = "publish" /\ pending'[i] = {}
                               THEN "done" ELSE @]
    /\ UNCHANGED <<call, member, indexes, pooled, errors, result>>

\* mutant: every rejected publish pushes an error
MutPublishErrorPushEach(i, x) ==
    /\ x \in pending[i]
    /\ pending' = [pending EXCEPT ![i] = @ \ {x}]
    /\ Fail(i)
    /\ UNCHANGED <<call, member, indexes, pooled, result>>

\* a publish rejects: the first rejection fails the item (Promise.all)
publishError(i, x) ==
    /\ x \in pending[i]
    /\ pending' = [pending EXCEPT ![i] = @ \ {x}]
    /\ IF pc[i] = "publish" THEN Fail(i) ELSE UNCHANGED <<pc, errors>>
    /\ UNCHANGED <<call, member, indexes, pooled, result>>

\* Promise.all resolves once every callback settled; the handler returns
\* or throws
returnResult ==
    /\ result = [kind |-> "pending"]
    /\ \A i \in Items : Settled(i)
    /\ result' = CASE Len(errors) > 1  -> [kind |-> "many", items |-> ToSet(errors)]
                   [] Len(errors) = 1  -> [kind |-> "one", items |-> {errors[1]}]
                   [] OTHER            -> [kind |-> "ok"]
    /\ UNCHANGED <<call, member, indexes, pc, pooled, pending, errors>>

-----------------------------------------------------------------------------
\* What the synchronous part of each sync committee callback finds:
\* getIndexedSyncCommittee throws, the validator has no position, or its
\* positions in the committee
SyncLookup ==
    {[kind |-> "throws", pos |-> {}], [kind |-> "none", pos |-> {}]}
    \cup {[kind |-> "member", pos |-> S] : S \in SUBSET Positions \ {{}}}

\* One call of either handler with the items the client sent.  The
\* callbacks run in request order up to their first await: a committee
\* lookup that throws has pushed its error, a non-member has returned.
Init ==
    /\ call \in {"attestations", "syncCommittee"}
    /\ \E look \in IF call = "attestations"
                   THEN [Items -> {[kind |-> "member", pos |-> {n}] : n \in AttSubnets}]
                   ELSE [Items -> SyncLookup] :
          /\ member = [i \in Items |-> look[i].kind = "member"]
          /\ indexes = [i \in Items |-> look[i].pos]
          /\ pc = [i \in Items |-> CASE look[i].kind = "member" -> "validate"
                                     [] look[i].kind = "none"   -> "done"
                                     [] OTHER                   -> "failed"]
          /\ errors = SetToSortSeq({i \in Items : look[i].kind = "throws"}, <)
    /\ pooled = {}
    /\ pending = [i \in Items |-> {}]
    /\ result = [kind |-> "pending"]

Next ==
    \/ \E i \in Items :
          \/ validateError(i)
          \/ validateOk(i)
          \/ \E x \in indexes[i] : publishOk(i, x) \/ publishError(i, x)
    \/ returnResult

Spec == Init /\ [][Next]_vars

-----------------------------------------------------------------------------
\* Types, and the errors array: an item pushes its error once, however many
\* of its publishes reject
TypeOK ==
    /\ pc \in [Items -> {"validate", "publish", "done", "failed"}]
    /\ pooled \subseteq Items \X (Positions \cup AttSubnets)
    /\ pending \in [Items -> SUBSET (Positions \cup AttSubnets)]
    /\ errors \in Seq(Items) /\ Len(errors) <= Cardinality(Items)
=============================================================================
