---------------------------- MODULE MCSkillCache ----------------------------
(* Two skills and two snapshots that share a file.                   *)
EXTENDS SkillCache, TLC

CONSTANTS t1, t2, f1, f2

FilesOfTree == t1 :> {f1} @@ t2 :> {f1, f2}

SkillSymmetry == Permutations(Skills)
=============================================================================
