------------------------- MODULE ContentPoolProofs --------------------------
(***************************************************************************)
(* What follows from the promise of the blob store alone.                  *)
(***************************************************************************)
EXTENDS ContentPool, TLAPS

(* Whatever is stored, evicted or swept, every reference of a row, a       *)
(* deployment or a queued mutation finds its blob: a blob store that keeps *)
(* Spec (SkillCache's PoolSpec) always serves, for any blobs.              *)
THEOREM PoolServes == Spec => []Served
<1>1. Init => Served
  BY DEF Init, Served
<1>2. Served /\ [Next]_poolVars => Served'
  <2> SUFFICES ASSUME Served, [Next]_poolVars PROVE Served'
    OBVIOUS
  <2>1. CASE Store
    BY <2>1 DEF Served, Store
  <2>2. CASE Discard
    BY <2>2 DEF Served, Discard
  <2>3. CASE Repin
    BY <2>3 DEF Served, Repin
  <2>4. CASE UNCHANGED poolVars
    BY <2>4 DEF Served, poolVars
  <2> QED
    BY <2>1, <2>2, <2>3, <2>4 DEF Next
<1> QED
  BY <1>1, <1>2, PTL DEF Spec
=============================================================================
