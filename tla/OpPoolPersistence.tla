------------------------- MODULE OpPoolPersistence -------------------------
(***************************************************************************)
(* The operation pool of OpPool composed with its database: toPersisted   *)
(* (persistDiff on three repositories in parallel) and a process restart   *)
(* at any point, after which a new pool is filled by fromPersisted.  Every *)
(* action of OpPool leaves the database alone.                             *)
(***************************************************************************)
EXTENDS OpPool

Repos == {"attesterSlashing", "proposerSlashing", "voluntaryExit"}

VARIABLES
    db,             \* repository -> set of <<key, value>> pairs
    persistPhase,   \* repository -> "idle" | "put" | "delete" | "done"
    persistTarget   \* repository -> the items toPersisted was called with

persistVars == <<db, persistPhase, persistTarget>>
allVars == <<vars, persistVars>>

Keys(repo) == {p[1] : p \in repo}

(***************************************************************************)
(* toPersisted: the target items are taken synchronously; each repository *)
(* then runs persistDiff: read keys, batchPut the items whose key is not   *)
(* persisted, batchDelete the persisted keys that are not targets.  The    *)
(* three run in parallel and the process may stop between any two awaits.  *)
(* No other writer touches these repositories, so the keys read before the *)
(* put give the same deletions as the keys present after it.               *)
(***************************************************************************)
PoolItems ==
    [attesterSlashing |-> {<<a, a>> : a \in ToSet(attesterSlashings)},
     proposerSlashing |-> {<<v, v>> : v \in ToSet(proposerSlashings)},
     voluntaryExit    |-> {<<v, exitMessageEpoch[v]>> : v \in ToSet(voluntaryExits)}]

\* No caller of toPersisted is in src/.  The model assumes the caller awaits
\* one call before it starts the next (the code has no guard of its own);
\* overlapping calls are not modelled.
toPersisted ==
    /\ \A r \in Repos : persistPhase[r] \in {"idle", "done"}
    /\ persistTarget' = PoolItems
    /\ persistPhase' = [r \in Repos |-> "put"]
    /\ UNCHANGED <<db, poolVars, chainVars, validated>>

persistDiffPut(r) ==
    LET itemsToPut == {it \in persistTarget[r] : it[1] \notin Keys(db[r])} IN
    /\ persistPhase[r] = "put"
    /\ db' = [db EXCEPT ![r] = @ \cup itemsToPut]
    /\ persistPhase' = [persistPhase EXCEPT ![r] = "delete"]
    /\ UNCHANGED <<persistTarget, poolVars, chainVars, validated>>

\* mutant: the difference taken the wrong way round
MutPersistDiffDeleteSwapped(r) ==
    LET keysToDelete == Keys(persistTarget[r]) \ Keys(db[r]) IN
    /\ persistPhase[r] = "delete"
    /\ db' = [db EXCEPT ![r] = {p \in @ : p[1] \notin keysToDelete}]
    /\ persistPhase' = [persistPhase EXCEPT ![r] = "done"]
    /\ UNCHANGED <<persistTarget, poolVars, chainVars, validated>>

persistDiffDelete(r) ==
    LET keysToDelete == Keys(db[r]) \ Keys(persistTarget[r]) IN
    /\ persistPhase[r] = "delete"
    /\ db' = [db EXCEPT ![r] = {p \in @ : p[1] \notin keysToDelete}]
    /\ persistPhase' = [persistPhase EXCEPT ![r] = "done"]
    /\ UNCHANGED <<persistTarget, poolVars, chainVars, validated>>

\* The process stops and starts again: a new OpPool runs fromPersisted.
\* entries()/values() return the repositories in key order.
fromPersisted ==
    LET attKeys == Keys(db["attesterSlashing"])
        exitKeys == Keys(db["voluntaryExit"])
    IN
    /\ attesterSlashings' = SelectSeq(AttKeyOrder, LAMBDA a : a \in attKeys)
    /\ attesterSlashingIndexes' = UNION {IntersectingIndices[a] : a \in attKeys}
    /\ proposerSlashings' = SetToSortSeq(Keys(db["proposerSlashing"]), <)
    /\ voluntaryExits' = SetToSortSeq(exitKeys, <)
    /\ exitMessageEpoch' = [v \in Validators |->
                              IF v \in exitKeys
                              THEN CHOOSE e \in Epochs : <<v, e>> \in db["voluntaryExit"]
                              ELSE NoExit]

Restart ==
    /\ fromPersisted
    /\ persistPhase' = [r \in Repos |-> "idle"]
    /\ validated' = {}
    /\ UNCHANGED <<db, persistTarget, chainVars>>

-----------------------------------------------------------------------------
\* A fresh node: BeaconDb opens the three operation repositories empty
PInit ==
    /\ Init
    /\ db = [r \in Repos |-> {}]
    /\ persistPhase = [r \in Repos |-> "idle"]
    /\ persistTarget = [r \in Repos |-> {}]

PNext ==
    \/ Next /\ UNCHANGED persistVars
    \/ toPersisted
    \/ \E r \in Repos : persistDiffPut(r) \/ persistDiffDelete(r)
    \/ Restart

PSpec == PInit /\ [][PNext]_allVars

-----------------------------------------------------------------------------
(***************************************************************************)
(* Once every repository's persistDiff has completed, the keys in the DB  *)
(* are exactly the keys of the items toPersisted was called with, whatever *)
(* was persisted before (including leftovers of a persist a restart cut).  *)
(***************************************************************************)
PersistedKeysMatch ==
    \A r \in Repos :
        persistPhase[r] = "done" => Keys(db[r]) = Keys(persistTarget[r])

(***************************************************************************)
(* A completed persist leaves the DB holding the pool's items themselves, *)
(* so that fromPersisted after a restart restores that pool (spec.md 4.1). *)
(***************************************************************************)
PersistedItemsMatch ==
    \A r \in Repos : persistPhase[r] = "done" => db[r] = persistTarget[r]

=============================================================================
