--------------------------- MODULE MCDesktopSync ----------------------------
(* DesktopSync on small instances.                                         *)
EXTENDS DesktopSync, TLC

(* Every skill has a slug of its own.                                      *)
OwnSlugs == [x \in LocalIds \cup ServerIds |-> x]

(* All skills are created under the same slug.                             *)
SameSlug == [x \in LocalIds \cup ServerIds |-> None]

HashSymmetry == Permutations(Hashes)

(* With one slug for all, the server ids are interchangeable.              *)
IdSymmetry == Permutations(ServerIds)
=============================================================================
