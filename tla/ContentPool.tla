---------------------------- MODULE ContentPool -----------------------------
(***************************************************************************)
(* What the desktop's content-addressed blob store promises: content can   *)
(* always be added, but what something still points at is never discarded, *)
(* and nothing comes to point at content that is not there.                *)
(***************************************************************************)
VARIABLES
    held,    \* the blobs in the store
    pinned   \* the blobs that rows, deployments and queued work refer to

poolVars == <<held, pinned>>

Init == held = {} /\ pinned = {}

Store ==
    /\ held \subseteq held'
    /\ UNCHANGED pinned

Discard ==
    /\ held' \subseteq held
    /\ pinned \cap held \subseteq held'
    /\ UNCHANGED pinned

Repin ==
    /\ pinned' \subseteq held
    /\ UNCHANGED held

Next == Store \/ Discard \/ Repin

Spec == Init /\ [][Next]_poolVars

(* The pool serves every reference to it: a consequence of Spec.           *)
Served == pinned \subseteq held
=============================================================================
