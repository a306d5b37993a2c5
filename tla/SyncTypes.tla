----------------------------- MODULE SyncTypes ------------------------------
(* The names that the desktop's store and the server share.                *)
EXTENDS Integers, Sequences, FiniteSets

CONSTANTS
    LocalIds,      \* primary keys the desktop generates for its own skills
    ServerIds,     \* skill ids the server generates
    Hashes,        \* snapshot (package manifest) hashes
    None,          \* NULL for ids, hashes and slugs
    MaxMutations   \* bound: mutations the desktop ever creates

ASSUME TypesAssumption ==
    /\ LocalIds \cap ServerIds = {}
    /\ None \notin LocalIds \cup ServerIds \cup Hashes
    /\ MaxMutations \in Nat
=============================================================================
