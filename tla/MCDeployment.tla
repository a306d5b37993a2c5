---------------------------- MODULE MCDeployment ----------------------------
(* Instances of Deployment; the transaction ids are interchangeable.       *)
EXTENDS Deployment, TLC

TxSymmetry == Permutations(Txs)
=============================================================================
