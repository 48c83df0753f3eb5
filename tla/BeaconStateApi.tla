--------------------------- MODULE BeaconStateApi ---------------------------
(***************************************************************************)
(* The validator and committee queries of the beacon state API            *)
(* (lodestar/src/api/impl/beacon/state/index.ts).  A query resolves a      *)
(* state id to a state of the chain, which may be older than the head, and *)
(* reads it; pubkeys are looked up in the HEAD state's pubkey2index, which *)
(* also knows validators that joined after the queried state.              *)
(*                                                                         *)
(* Validator i's pubkey is <<"pk", i>>; its balance and status are fixed   *)
(* per index.  A state is its number of validators; the chain grows one    *)
(* deposit at a time, so every count from GenesisValidators to the head's  *)
(* is the count of some state.  A committee is named by its epoch,         *)
(* slot-in-epoch and committee index.  Each query stores its inputs and    *)
(* its result in lastResponse, which the properties compare with a        *)
(* reference definition of the Beacon API's answer.                        *)
(***************************************************************************)
EXTENDS Naturals, Sequences, SequencesExt

CONSTANTS
    GenesisValidators,      \* validators in the genesis state
    MaxValidators,          \* bound on the head state's validators
    Balance,                \* validator index -> balance (non-zero)
    Status,                 \* validator index -> status
    StatusValues,           \* the statuses a filter may name
    SLOTS_PER_EPOCH,
    CommitteesPerSlot,
    ALTAIR_FORK_EPOCH,
    MaxEpoch                \* bound on the epoch of a queried state

Indices == 0 .. MaxValidators - 1
\* an id of a request: a validator index or a pubkey
IndexId(i) == <<"index", i>>
Pubkey(i) == <<"pk", i>>
\* ids a request may name: indices (some beyond every state) and pubkeys
ValidatorIds == {IndexId(i) : i \in 0 .. MaxValidators} \cup {Pubkey(i) : i \in Indices}
IsIndexId(id) == id[1] = "index"
IdLists == {<<x>> : x \in ValidatorIds} \cup {<<x, y>> : x, y \in ValidatorIds}
\* absent filters: no epoch, index or slot; no ids; no statuses (the model
\* never sends an empty list)
NoFilter == -1
NoIds == <<>>
NoStatuses == {}
NoIndex == -1
\* a response: a list of entries, or an HTTP error
Ok(data) == [error |-> 0, data |-> data]
Error(code) == [error |-> code, data |-> <<>>]

VARIABLES
    headLen,        \* validators in the head state
    lastResponse    \* the last query: its inputs and its result

vars == <<headLen, lastResponse>>

\* pubkey2index of the head state
pubkey2index(id) == IF id[2] < headLen THEN id[2] ELSE NoIndex

\* Not in src/ (api/impl/beacon/state/utils.ts): the index the id names in
\* a state of n validators, or NoIndex (Beacon API: the validator of that
\* state)
getStateValidatorIndex(id, n) ==
    IF IsIndexId(id) THEN IF id[2] < n THEN id[2] ELSE NoIndex
    ELSE IF pubkey2index(id) # NoIndex /\ pubkey2index(id) < n
         THEN pubkey2index(id) ELSE NoIndex

\* Not in src/: the validators of the state whose status is in statuses
filterStateValidatorsByStatuses(statuses, n) ==
    LET sel == SetToSortSeq({i \in 0 .. n - 1 : Status[i] \in statuses}, <)
    IN  [j \in DOMAIN sel |-> <<sel[j], Status[sel[j]]>>]

\* toValidatorResponse, reduced to what tells validators apart
toValidatorResponse(i) == <<i, Status[i]>>

\* mutant: the statuses filter is ignored when ids are given
MutGetStateValidatorsIdsIgnoreStatuses(n, ids, statuses) ==
    LET push(acc, id) ==
            LET i == getStateValidatorIndex(id, n) IN
            IF i = NoIndex THEN acc ELSE Append(acc, toValidatorResponse(i))
    IN  IF ids # NoIds THEN FoldLeft(push, <<>>, ids)
        ELSE IF statuses # NoStatuses THEN filterStateValidatorsByStatuses(statuses, n)
        ELSE [j \in 1 .. n |-> toValidatorResponse(j - 1)]

(***************************************************************************)
(* getStateValidators: ids given: each known id, unless its status is not *)
(* in the statuses filter; otherwise the statuses filter; otherwise all.   *)
(***************************************************************************)
getStateValidators(n, ids, statuses) ==
    LET push(acc, id) ==
            LET i == getStateValidatorIndex(id, n) IN
            IF i = NoIndex THEN acc
            ELSE IF statuses # NoStatuses /\ Status[i] \notin statuses THEN acc
            ELSE Append(acc, toValidatorResponse(i))
    IN  IF ids # NoIds THEN FoldLeft(push, <<>>, ids)
        ELSE IF statuses # NoStatuses THEN filterStateValidatorsByStatuses(statuses, n)
        ELSE [j \in 1 .. n |-> toValidatorResponse(j - 1)]

\* getStateValidator: an id no validator of the state has is a 404
getStateValidator(n, id) ==
    LET i == getStateValidatorIndex(id, n) IN
    IF i = NoIndex THEN Error(404) ELSE Ok(<<toValidatorResponse(i)>>)

(***************************************************************************)
(* getStateValidatorBalances: an index id is skipped when the state has no *)
(* such validator; a pubkey id is looked up in the head state and kept if  *)
(* index <= state.validators.length.  balances.get past the end of the     *)
(* list is not bounds-checked by the caller: it reads 0 or throws.         *)
(***************************************************************************)
OutOfRange == -1  \* a read past the end of the balances list (balances are > 0)
BalanceGet(n, i) == IF i < n THEN Balance[i] ELSE OutOfRange

getStateValidatorBalances(n, ids) ==
    LET push(acc, id) ==
            IF IsIndexId(id)
            THEN IF n <= id[2] THEN acc ELSE Append(acc, <<id[2], BalanceGet(n, id[2])>>)
            ELSE LET i == pubkey2index(id) IN
                 IF i # NoIndex /\ i <= n THEN Append(acc, <<i, BalanceGet(n, i)>>)
                 ELSE acc
    IN  IF ids # NoIds THEN FoldLeft(push, <<>>, ids)
        ELSE [j \in 1 .. n |-> <<j - 1, Balance[j - 1]>>]

\* the two outcomes of a read past the end: 0 for the entry, or an error
BalanceOutcomes(data) ==
    IF \E j \in DOMAIN data : data[j][2] = OutOfRange
    THEN {Ok([j \in DOMAIN data |->
                 IF data[j][2] = OutOfRange THEN <<data[j][1], 0>> ELSE data[j]]),
          Error(500)}
    ELSE {Ok(data)}

(***************************************************************************)
(* getEpochCommittees: the shuffling's committees are per slot, then per  *)
(* committee index (slotCommittees); the outer position is reported as    *)
(* the committee index and the inner one as the slot.                     *)
(***************************************************************************)
getEpochCommittees(epoch, index, slot) ==
    LET entries(committeeIndex) ==
            [k \in 1 .. CommitteesPerSlot |->
                [index |-> committeeIndex, slot |-> k - 1,
                 validators |-> <<epoch, committeeIndex, k - 1>>]]
        perOuter == [o \in 1 .. SLOTS_PER_EPOCH |->
                       IF index # NoFilter /\ index # o - 1 THEN <<>>
                       ELSE SelectSeq(entries(o - 1),
                                      LAMBDA e : slot = NoFilter \/ slot = e.slot)]
    IN  FoldLeft(LAMBDA acc, x : acc \o x, <<>>, perOuter)

(***************************************************************************)
(* The query handlers.  resolveStateId (not in src/) yields a state of the *)
(* chain: n validators, at epoch e, whose epoch context is cached or not.  *)
(***************************************************************************)
States == {<<n, e>> : n \in GenesisValidators .. headLen, e \in 0 .. MaxEpoch}
Slots == 0 .. (MaxEpoch + 1) * SLOTS_PER_EPOCH - 1
CommitteeIndices == 0 .. SLOTS_PER_EPOCH + CommitteesPerSlot - 1

\* the chain imports a block with a deposit: the head has one more validator
Deposit ==
    /\ headLen < MaxValidators
    /\ headLen' = headLen + 1
    /\ UNCHANGED lastResponse

QueryValidators(st, ids, statuses) ==
    /\ lastResponse' = [query |-> "validators", n |-> st[1], head |-> headLen,
                        ids |-> ids, statuses |-> statuses,
                        res |-> Ok(getStateValidators(st[1], ids, statuses))]
    /\ UNCHANGED headLen

QueryValidator(st, id) ==
    /\ lastResponse' = [query |-> "validator", n |-> st[1], head |-> headLen,
                        ids |-> <<id>>, statuses |-> NoStatuses,
                        res |-> getStateValidator(st[1], id)]
    /\ UNCHANGED headLen

QueryBalances(st, ids) ==
    /\ \E res \in BalanceOutcomes(getStateValidatorBalances(st[1], ids)) :
          lastResponse' = [query |-> "balances", n |-> st[1], head |-> headLen,
                           ids |-> ids, res |-> res]
    /\ UNCHANGED headLen

\* getShufflingAtEpoch (not in src/) holds the shufflings of the state's
\* previous, current and next epoch and throws for any other epoch
HasShuffling(st, e) == e + 1 >= st[2] /\ e <= st[2] + 1

\* an uncached state is a 400; the epoch filter defaults to the state's;
\* the throw of getShufflingAtEpoch is not caught (a 500)
QueryCommittees(st, cached, epoch, index, slot) ==
    LET e == IF epoch = NoFilter THEN st[2] ELSE epoch IN
    /\ lastResponse' = [query |-> "committees", epoch |-> e, index |-> index,
                        slot |-> slot,
                        res |-> CASE ~cached              -> Error(400)
                                  [] ~HasShuffling(st, e) -> Error(500)
                                  [] OTHER -> Ok(getEpochCommittees(e, index, slot))]
    /\ UNCHANGED headLen

\* getEpochSyncCommittees: 400 before Altair and for an uncached state
QuerySyncCommittees(st, cached, epoch) ==
    LET e == IF epoch = NoFilter THEN st[2] ELSE epoch IN
    /\ lastResponse' = [query |-> "syncCommittees",
                        res |-> IF st[2] < ALTAIR_FORK_EPOCH \/ ~cached
                                THEN Error(400) ELSE Ok(<<e>>)]
    /\ UNCHANGED headLen

Init ==
    /\ headLen = GenesisValidators
    /\ lastResponse = [query |-> "none"]

Next ==
    \/ Deposit
    \/ \E st \in States :
          \/ \E ids \in IdLists \cup {NoIds},
                statuses \in SUBSET StatusValues :
                QueryValidators(st, ids, statuses)
          \/ \E id \in ValidatorIds : QueryValidator(st, id)
          \/ \E ids \in IdLists \cup {NoIds} : QueryBalances(st, ids)
          \/ \E cached \in BOOLEAN, epoch \in (0 .. MaxEpoch + 2) \cup {NoFilter},
                index \in CommitteeIndices \cup {NoFilter},
                slot \in Slots \cup {NoFilter} :
                QueryCommittees(st, cached, epoch, index, slot)
          \/ \E cached \in BOOLEAN, epoch \in (0 .. MaxEpoch) \cup {NoFilter} :
                QuerySyncCommittees(st, cached, epoch)

Spec == Init /\ [][Next]_vars

-----------------------------------------------------------------------------
(***************************************************************************)
(* What the Beacon API answers.  A validator of the queried state is one   *)
(* with an index below its count; a pubkey names index i only if the      *)
(* state has it.                                                           *)
(***************************************************************************)
Denotes(id, n) == {i \in 0 .. n - 1 : id \in {IndexId(i), Pubkey(i)}}

ValidatorsRef(n, ids, statuses) ==
    LET keep(i) == statuses = NoStatuses \/ Status[i] \in statuses
        pick(id) == IF \E i \in Denotes(id, n) : keep(i)
                    THEN <<toValidatorResponse(CHOOSE i \in Denotes(id, n) : TRUE)>>
                    ELSE <<>>
    IN  IF ids # NoIds THEN FoldLeft(LAMBDA acc, id : acc \o pick(id), <<>>, ids)
        ELSE LET sel == SetToSortSeq({i \in 0 .. n - 1 : keep(i)}, <)
             IN  [j \in DOMAIN sel |-> toValidatorResponse(sel[j])]

BalancesRef(n, ids) ==
    LET pick(id) == IF Denotes(id, n) = {} THEN <<>>
                    ELSE LET i == CHOOSE i \in Denotes(id, n) : TRUE
                         IN  <<<<i, Balance[i]>>>>
    IN  IF ids # NoIds THEN FoldLeft(LAMBDA acc, id : acc \o pick(id), <<>>, ids)
        ELSE [j \in 1 .. n |-> <<j - 1, Balance[j - 1]>>]

(***************************************************************************)
(* getStateValidators and getStateValidator answer with exactly the       *)
(* validators of the QUERIED state that the ids name and the statuses     *)
(* admit, in request order, although pubkeys are resolved through the     *)
(* head state, which may know validators the queried state does not.      *)
(***************************************************************************)
ValidatorQueriesMatch ==
    LET r == lastResponse IN
    /\ r.query = "validators" => r.res = Ok(ValidatorsRef(r.n, r.ids, r.statuses))
    /\ r.query = "validator" =>
          r.res = IF ValidatorsRef(r.n, r.ids, NoStatuses) = <<>> THEN Error(404)
                  ELSE Ok(ValidatorsRef(r.n, r.ids, NoStatuses))

(***************************************************************************)
(* getStateValidatorBalances answers with the balance of every requested  *)
(* validator of the queried state and of nothing else; an id the state    *)
(* does not know is skipped, whether it is an index or a pubkey, also     *)
(* when the pubkey belongs to a validator the head state has and the      *)
(* queried, older state does not yet.                                      *)
(***************************************************************************)
BalancesMatch ==
    lastResponse.query = "balances" =>
        lastResponse.res = Ok(BalancesRef(lastResponse.n, lastResponse.ids))
=============================================================================
