------------------------ MODULE MCOpPoolPersistence ------------------------
(* One validator with one attester slashing, one proposer slashing and one *)
(* exit: each repository holds at most one key, which is enough for a put, *)
(* a delete, and a put of a key that is already persisted.                 *)
EXTENDS OpPoolPersistence, TLC

CONSTANTS a1

MCAttSlashings == {a1}
MCAttKeyOrder == <<a1>>
MCIntersectingIndices == (a1 :> {1})
MCActivationEpoch == (1 :> 0)
=============================================================================
