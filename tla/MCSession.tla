----------------------------- MODULE MCSession ------------------------------
(* Two accounts on one server, which is the default, and a server without  *)
(* accounts to switch to.                                                  *)
EXTENDS Session, TLC

CONSTANTS s1, s2

Hosts == [a \in Accounts |-> s1]

AccountSymmetry == Permutations(Accounts)
=============================================================================
