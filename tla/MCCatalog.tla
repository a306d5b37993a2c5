----------------------------- MODULE MCCatalog ------------------------------
(* One skill, a built-in and a custom agent, and two home directories; the *)
(* custom agent may take either root of the built-in one.                  *)
EXTENDS Catalog, TLC

CONSTANTS a, builtin, custom, h1, h2, d1, d2

MCRootAt == builtin :> (h1 :> d1 @@ h2 :> d2)
=============================================================================
