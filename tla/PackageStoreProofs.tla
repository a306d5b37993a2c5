------------------------- MODULE PackageStoreProofs -------------------------
(***************************************************************************)
(* The sweep against the pushes, for any packages, writers and batch size. *)
(*                                                                         *)
(* PackageInv strengthens CompleteUnlessRaced: it says what a pass that is *)
(* under way still knows (a version committed since the versions were read *)
(* is in the change log; a sweep holds no object of a retained package)    *)
(* and what a request that is under way may rely on.                       *)
(***************************************************************************)
EXTENDS PackageStore, TLAPS

(* A pass under way: what it holds has old rows, and it knows every        *)
(* retained package.                                                       *)
PassKnows ==
    /\ gc.mode # "sweeping" => gc.left = {} /\ gc.swept = {}
    /\ \A o \in gc.left \cup gc.swept : registry[o] = "old"
    /\ gc.mode = "marking" => Referenced \ raced \subseteq gc.roots \cup history
    /\ \A m \in Referenced \ raced : ~Doomed(m)

(* A request under way names a package and, when it writes, a skill.       *)
WriterShape ==
    \A w \in Writers :
      /\ writer[w].mode # "idle" => writer[w].pkg \in Manifests
      /\ writer[w].mode = "writing" => writer[w].skill \in Skills
      /\ writer[w].put # NoObject =>
           writer[w].mode = "uploading" /\ writer[w].put \in writer[w].need

(* An object of an unexposed request is there, or it is still to be        *)
(* stored, or its bytes are there and the commit will insert its row.      *)
Backed(w, o) ==
    /\ writer[w].mode # "idle" =>
         \/ o \in writer[w].need
         \/ Present(o)
         \/ writer[w].mode = "writing" /\ o \in writer[w].rows /\ o \in bytes
    /\ o = writer[w].put => o \in bytes

WritersBacked ==
    \A w \in Writers :
      writer[w].mode # "idle" /\ ~writer[w].exposed =>
        /\ ~Doomed(writer[w].pkg)
        /\ \A o \in Closure(writer[w].pkg) : Backed(w, o)
        /\ writer[w].need \subseteq Closure(writer[w].pkg)

PackageInv ==
    /\ PackageTypeOK
    /\ CompleteUnlessRaced
    /\ PassKnows
    /\ WriterShape
    /\ WritersBacked

-----------------------------------------------------------------------------
(* What a closure holds: objects, none of which is NoObject.               *)
LEMMA ClosureFacts ==
    /\ \A m \in Manifests : Closure(m) \subseteq Objects /\ m \in Closure(m)
    /\ NoObject \notin Objects
    /\ Manifests \subseteq Objects
    /\ NoObject \notin Manifests
<1>1. \A m \in Manifests : Closure(m) \subseteq Objects /\ m \in Closure(m)
  BY DEF Objects, Closure
<1>2. Objects \subseteq Nat
  BY PackageAssumption DEF Objects, Closure
<1> QED
  BY <1>1, <1>2, PackageAssumption

-----------------------------------------------------------------------------
(* One lemma per action.                                                   *)

(* Negotiation asks for whatever is not there.                             *)
LEMMA NegotiateKeeps ==
    ASSUME PackageInv, NEW d \in Devices, NEW m \in Captured, Negotiate(d, m)
    PROVE  PackageInv'
<1> USE DEF PackageInv, Negotiate
<1>a. d \in Writers /\ m \in Manifests /\ Doomed(m) \in BOOLEAN
  BY DEF Writers, Manifests, Doomed
<1>b. /\ writer'[d].mode = "uploading" /\ writer'[d].pkg = m
      /\ writer'[d].skill = NoObject /\ writer'[d].put = NoObject
      /\ writer'[d].need = {o \in Closure(m) : ~Present(o)}
      /\ writer'[d].rows = {}
      /\ writer'[d].exposed = Doomed(m)
      /\ writer'[d] \in WriteStates
      /\ \A w \in Writers \ {d} : writer'[w] = writer[w]
      /\ writer' = [w \in Writers |-> writer'[w]]
  BY <1>a, ClosureFacts DEF NoWrite, PackageTypeOK, WriteStates
<1>c. writer' \in [Writers -> WriteStates]
  BY <1>b DEF PackageTypeOK
<1>1. PackageTypeOK'
  BY <1>c DEF PackageTypeOK, Referenced, skillVars
<1>2. CompleteUnlessRaced'
  BY DEF CompleteUnlessRaced, Complete, Present, Referenced, skillVars
<1>3. PassKnows'
  BY DEF PassKnows, Doomed, Referenced, skillVars, NoPass
<1>4. WriterShape'
  BY <1>a, <1>b DEF WriterShape
<1>5. WritersBacked'
  <2> SUFFICES ASSUME NEW w \in Writers, writer'[w].mode # "idle",
                      ~writer'[w].exposed
               PROVE  /\ ~Doomed(writer'[w].pkg)
                      /\ \A o \in Closure(writer'[w].pkg) : Backed(w, o)'
                      /\ writer'[w].need \subseteq Closure(writer'[w].pkg)
    BY DEF WritersBacked, Doomed
  <2>1. CASE w = d
    <3>1. ~Doomed(m)
      BY <1>b, <2>1
    <3>2. ASSUME NEW o \in Closure(m) PROVE Backed(d, o)'
      <4>1. o # NoObject /\ (Present(o)' <=> Present(o))
        BY <1>a, ClosureFacts DEF Present
      <4>2. o \in writer'[d].need \/ Present(o)
        BY <1>b
      <4> QED
        BY <1>b, <4>1, <4>2 DEF Backed
    <3> QED
      BY <1>b, <2>1, <3>1, <3>2
  <2>2. CASE w # d
    BY <1>b, <2>2 DEF WritersBacked, Backed, Present
  <2> QED
    BY <2>1, <2>2
<1> QED
  BY <1>1, <1>2, <1>3, <1>4, <1>5

(* Storing bytes only adds.                                                *)
LEMMA StoreBlobKeeps ==
    ASSUME PackageInv, NEW d \in Devices, NEW o \in Objects, StoreBlob(d, o)
    PROVE  PackageInv'
<1> USE DEF PackageInv, StoreBlob
<1>1. PackageTypeOK'
  BY DEF PackageTypeOK, WriteStates, PassStates, Ages, Referenced, skillVars,
     NoWrite, NoPass, Objects, Writers
<1>2. CompleteUnlessRaced'
  BY DEF CompleteUnlessRaced, Complete, Present, Referenced, skillVars
<1>3. PassKnows'
  BY DEF PassKnows, Doomed, Referenced, skillVars, NoPass
<1>4. WriterShape'
  BY DEF WriterShape, skillVars, NoWrite, PackageTypeOK, WriteStates
<1>5. WritersBacked'
  BY DEF WritersBacked, Backed, Doomed, Present, skillVars, NoWrite,
     PackageTypeOK, WriteStates
<1> QED
  BY <1>1, <1>2, <1>3, <1>4, <1>5

(* A row is added where there was none.                                    *)
LEMMA RegisterBlobKeeps ==
    ASSUME PackageInv, NEW d \in Devices, RegisterBlob(d)
    PROVE  PackageInv'
<1> USE DEF PackageInv, RegisterBlob
<1>a. /\ d \in Writers /\ writer[d].put \in Objects
      /\ writer[d].mode = "uploading" /\ writer[d].put \in writer[d].need
  BY DEF Writers, PackageTypeOK, WriteStates, WriterShape
<1>b. /\ writer'[d] = [writer[d] EXCEPT !.put = NoObject,
                          !.need = writer[d].need \ {writer[d].put}]
      /\ writer'[d] \in WriteStates
      /\ \A w \in Writers \ {d} : writer'[w] = writer[w]
      /\ writer' = [w \in Writers |-> writer'[w]]
  BY <1>a DEF PackageTypeOK, WriteStates
<1>c. /\ registry' \in [Objects -> Ages]
      /\ \A o \in Objects : registry[o] # "none" => registry'[o] = registry[o]
      /\ registry'[writer[d].put] # "none"
  BY <1>a DEF PackageTypeOK, Ages
<1>d. writer' \in [Writers -> WriteStates]
  BY <1>b DEF PackageTypeOK
<1>1. PackageTypeOK'
  BY <1>b, <1>c, <1>d DEF PackageTypeOK, Referenced, skillVars
<1>2. CompleteUnlessRaced'
  BY DEF CompleteUnlessRaced, Complete, Present, Referenced, skillVars
<1>3. PassKnows'
  BY DEF PassKnows, Doomed, Referenced, skillVars, NoPass
<1>4. WriterShape'
  BY DEF WriterShape, skillVars, NoWrite, PackageTypeOK, WriteStates
<1>5. WritersBacked'
  <2> SUFFICES ASSUME NEW w \in Writers, writer'[w].mode # "idle",
                      ~writer'[w].exposed
               PROVE  /\ ~Doomed(writer'[w].pkg)
                      /\ \A o \in Closure(writer'[w].pkg) : Backed(w, o)'
                      /\ writer'[w].need \subseteq Closure(writer'[w].pkg)
    BY DEF WritersBacked, Doomed
  <2>1. /\ writer'[w].mode = writer[w].mode /\ writer'[w].pkg = writer[w].pkg
        /\ writer'[w].exposed = writer[w].exposed
        /\ writer'[w].need \subseteq writer[w].need
        /\ writer[w].pkg \in Manifests
    BY <1>b DEF WriterShape, PackageTypeOK, WriteStates
  <2>2. \A o \in Closure(writer[w].pkg) :
          o \in Objects /\ o # NoObject /\ Backed(w, o)
    BY <2>1, ClosureFacts DEF WritersBacked
  <2>3. \A o \in Closure(writer[w].pkg) : Backed(w, o)'
    <3>1. CASE w = d
      BY <1>a, <1>b, <1>c, <2>1, <2>2, <3>1
         DEF Backed, Present, PackageTypeOK, WriteStates
    <3>2. CASE w # d
      BY <1>b, <1>c, <2>1, <2>2, <3>2 DEF Backed, Present
    <3> QED
      BY <3>1, <3>2
  <2> QED
    BY <2>1, <2>3 DEF WritersBacked
<1> QED
  BY <1>1, <1>2, <1>3, <1>4, <1>5

(* A verified package is complete.                                         *)
LEMMA VerifyClosureKeeps ==
    ASSUME PackageInv, NEW d \in Devices, NEW k \in Skills, VerifyClosure(d, k)
    PROVE  PackageInv'
<1> USE DEF PackageInv, VerifyClosure
<1>a. /\ d \in Writers
      /\ writer'[d] = [writer[d] EXCEPT !.mode = "writing", !.skill = k,
                          !.exposed = Doomed(writer[d].pkg)]
      /\ \A w \in Writers \ {d} : writer'[w] = writer[w]
      /\ writer' = [w \in Writers |-> writer'[w]]
  BY DEF Writers, PackageTypeOK
<1>b. Doomed(writer[d].pkg) \in BOOLEAN
  BY DEF Doomed
<1>c. /\ writer'[d].mode = "writing" /\ writer'[d].skill = k
      /\ writer'[d].pkg = writer[d].pkg /\ writer'[d].put = NoObject
      /\ writer'[d] \in WriteStates
  BY <1>a, <1>b DEF PackageTypeOK, WriteStates, Uploaded
<1>d. writer' \in [Writers -> WriteStates]
  BY <1>a, <1>c DEF PackageTypeOK
<1>1. PackageTypeOK'
  BY <1>d DEF PackageTypeOK, Referenced, skillVars
<1>2. CompleteUnlessRaced'
  BY DEF CompleteUnlessRaced, Complete, Present, Referenced, skillVars
<1>3. PassKnows'
  BY DEF PassKnows, Doomed, Referenced, skillVars, NoPass
<1>4. WriterShape'
  BY <1>a, <1>c DEF WriterShape, Uploaded
<1>5. WritersBacked'
  BY DEF WritersBacked, Backed, Doomed, Present, skillVars, NoWrite,
     PackageTypeOK, WriteStates, Uploaded, Complete, WriterShape
<1> QED
  BY <1>1, <1>2, <1>3, <1>4, <1>5

(* A refused push changes nothing.                                         *)
LEMMA RefuseClosureKeeps ==
    ASSUME PackageInv, NEW d \in Devices, RefuseClosure(d)
    PROVE  PackageInv'
<1> USE DEF PackageInv, RefuseClosure
<1>1. PackageTypeOK'
  BY DEF PackageTypeOK, WriteStates, PassStates, Ages, Referenced, skillVars,
     NoWrite, NoPass, Objects, Writers
<1>2. CompleteUnlessRaced'
  BY DEF CompleteUnlessRaced, Complete, Present, Referenced, skillVars
<1>3. PassKnows'
  BY DEF PassKnows, Doomed, Referenced, skillVars, NoPass
<1>4. WriterShape'
  BY DEF WriterShape, skillVars, NoWrite, PackageTypeOK, WriteStates
<1>5. WritersBacked'
  BY DEF WritersBacked, Backed, Doomed, Present, skillVars, NoWrite,
     PackageTypeOK, WriteStates
<1> QED
  BY <1>1, <1>2, <1>3, <1>4, <1>5

(* A REST write has its whole package to store.                            *)
LEMMA SynthesizeKeeps ==
    ASSUME PackageInv, NEW b \in Browsers, NEW k \in Skills,
           NEW m \in Synthesized, Synthesize(b, k, m)
    PROVE  PackageInv'
<1> USE DEF PackageInv, Synthesize
<1>a. b \in Writers /\ m \in Manifests /\ Doomed(m) \in BOOLEAN
  BY DEF Writers, Manifests, Doomed
<1>b. /\ writer'[b].mode = "writing" /\ writer'[b].pkg = m
      /\ writer'[b].skill = k /\ writer'[b].put = NoObject
      /\ writer'[b].need = Closure(m) /\ writer'[b].rows = {}
      /\ writer'[b].exposed = Doomed(m)
      /\ writer'[b] \in WriteStates
      /\ \A w \in Writers \ {b} : writer'[w] = writer[w]
      /\ writer' = [w \in Writers |-> writer'[w]]
  BY <1>a, ClosureFacts DEF NoWrite, PackageTypeOK, WriteStates
<1>c. writer' \in [Writers -> WriteStates]
  BY <1>b DEF PackageTypeOK
<1>1. PackageTypeOK'
  BY <1>a, <1>c, ClosureFacts DEF PackageTypeOK, Referenced, skillVars
<1>2. CompleteUnlessRaced'
  BY DEF CompleteUnlessRaced, Complete, Present, Referenced, skillVars
<1>3. PassKnows'
  BY DEF PassKnows, Doomed, Referenced, skillVars, NoPass
<1>4. WriterShape'
  BY <1>a, <1>b DEF WriterShape
<1>5. WritersBacked'
  <2> SUFFICES ASSUME NEW w \in Writers, writer'[w].mode # "idle",
                      ~writer'[w].exposed
               PROVE  /\ ~Doomed(writer'[w].pkg)
                      /\ \A o \in Closure(writer'[w].pkg) : Backed(w, o)'
                      /\ writer'[w].need \subseteq Closure(writer'[w].pkg)
    BY DEF WritersBacked, Doomed
  <2>1. CASE w = b
    BY <1>a, <1>b, <2>1, ClosureFacts DEF Backed, Present
  <2>2. CASE w # b
    BY <1>b, <2>2 DEF WritersBacked, Backed, Present
  <2> QED
    BY <2>1, <2>2
<1> QED
  BY <1>1, <1>2, <1>3, <1>4, <1>5

(* What a REST write has stored has a row, or gets one.                    *)
LEMMA AddBlobKeeps ==
    ASSUME PackageInv, NEW b \in Browsers, NEW o \in Objects, AddBlob(b, o)
    PROVE  PackageInv'
<1> USE DEF PackageInv, AddBlob
<1> DEFINE Rows == IF registry[o] = "none" THEN writer[b].rows \cup {o}
                   ELSE writer[b].rows
<1>a. b \in Writers /\ writer[b].mode = "writing" /\ writer[b].put = NoObject
  BY DEF Writers, WriterShape
<1>b. /\ writer'[b] = [writer[b] EXCEPT !.need = writer[b].need \ {o},
                                       !.rows = Rows]
      /\ writer'[b] \in WriteStates
      /\ \A w \in Writers \ {b} : writer'[w] = writer[w]
      /\ writer' = [w \in Writers |-> writer'[w]]
  <2>1. Rows \in SUBSET Objects
    BY <1>a DEF PackageTypeOK, WriteStates
  <2>2. writer' = [writer EXCEPT
                     ![b] = [writer[b] EXCEPT !.need = writer[b].need \ {o},
                                              !.rows = Rows]]
    BY <1>a DEF PackageTypeOK, WriteStates
  <2>3. [writer[b] EXCEPT !.need = writer[b].need \ {o}, !.rows = Rows]
          \in WriteStates
    <3>1. writer[b] \in WriteStates
      BY <1>a DEF PackageTypeOK
    <3>2. \A r \in SUBSET Objects, n \in SUBSET Objects :
            [writer[b] EXCEPT !.need = n, !.rows = r] \in WriteStates
      BY <3>1 DEF WriteStates
    <3>3. writer[b].need \ {o} \in SUBSET Objects
      BY <3>1 DEF WriteStates
    <3> HIDE DEF Rows, AddBlob, PackageInv
    <3> QED
      BY <2>1, <3>2, <3>3
  <2> HIDE DEF Rows, AddBlob
  <2> QED
    BY <1>a, <2>2, <2>3 DEF PackageTypeOK
<1>c. writer' \in [Writers -> WriteStates]
  BY <1>b DEF PackageTypeOK
<1>1. PackageTypeOK'
  BY <1>c DEF PackageTypeOK, Referenced, skillVars
<1>2. CompleteUnlessRaced'
  BY DEF CompleteUnlessRaced, Complete, Present, Referenced, skillVars
<1>3. PassKnows'
  BY DEF PassKnows, Doomed, Referenced, skillVars, NoPass
<1>4. WriterShape'
  BY <1>a, <1>b DEF WriterShape, PackageTypeOK, WriteStates
<1>5. WritersBacked'
  <2> SUFFICES ASSUME NEW w \in Writers, writer'[w].mode # "idle",
                      ~writer'[w].exposed
               PROVE  /\ ~Doomed(writer'[w].pkg)
                      /\ \A p \in Closure(writer'[w].pkg) : Backed(w, p)'
                      /\ writer'[w].need \subseteq Closure(writer'[w].pkg)
    BY DEF WritersBacked, Doomed
  <2>1. /\ writer'[w].mode = writer[w].mode /\ writer'[w].pkg = writer[w].pkg
        /\ writer'[w].exposed = writer[w].exposed
        /\ writer'[w].put = writer[w].put
        /\ writer'[w].need \subseteq writer[w].need
        /\ writer[w].rows \subseteq writer'[w].rows
        /\ writer[w].pkg \in Manifests
    BY <1>b DEF WriterShape, PackageTypeOK, WriteStates
  <2>2. \A p \in Closure(writer[w].pkg) :
          p \in Objects /\ p # NoObject /\ Backed(w, p)
    BY <2>1, ClosureFacts DEF WritersBacked
  <2>3. \A p \in Closure(writer[w].pkg) : Backed(w, p)'
    <3>1. CASE w = b
      <4> SUFFICES ASSUME NEW p \in Closure(writer[w].pkg) PROVE Backed(w, p)'
        OBVIOUS
      <4>1. CASE p = o
        BY <1>a, <1>b, <2>1, <2>2, <3>1, <4>1
           DEF Backed, Present, PackageTypeOK, WriteStates
      <4>2. CASE p # o
        BY <1>a, <1>b, <2>1, <2>2, <3>1, <4>2
           DEF Backed, Present, PackageTypeOK, WriteStates
      <4> QED
        BY <4>1, <4>2
    <3>2. CASE w # b
      BY <1>b, <2>1, <2>2, <3>2 DEF Backed, Present
    <3> QED
      BY <3>1, <3>2
  <2> QED
    BY <2>1, <2>3 DEF WritersBacked
<1> QED
  BY <1>1, <1>2, <1>3, <1>4, <1>5

(* A committed package is complete, unless a sweep had it.                 *)
LEMMA CommitVersionKeeps ==
    ASSUME PackageInv, NEW w \in Writers, CommitVersion(w)
    PROVE  PackageInv'
<1> USE DEF PackageInv, CommitVersion
<1> DEFINE m == writer[w].pkg
           k == writer[w].skill
<1>a. m \in Manifests /\ k \in Skills /\ NoWrite \in WriteStates
  BY DEF WriterShape, NoWrite, WriteStates
<1>b. /\ \A o \in Objects : registry[o] # "none" => registry'[o] = registry[o]
      /\ \A o \in Objects \cap writer[w].rows : registry'[o] # "none"
  BY DEF PackageTypeOK
<1>c. \A n \in Referenced' \ raced' :
        \/ n = m /\ ~writer[w].exposed
        \/ n \in Referenced \ raced
  BY <1>a DEF Referenced, PackageTypeOK
<1>1. PackageTypeOK'
  <2>1. registry' \in [Objects -> Ages]
    BY DEF PackageTypeOK, Ages
  <2>2. versions' \in [Skills -> SUBSET Manifests]
    BY <1>a DEF PackageTypeOK
  <2>3. \A j \in Skills : versions[j] \subseteq versions'[j]
    BY DEF PackageTypeOK
  <2>4. m \in versions'[k]
    BY <1>a DEF PackageTypeOK
  <2>5. raced' \subseteq Referenced'
    BY <1>a, <2>3, <2>4 DEF PackageTypeOK, Referenced
  <2>6. trash' \subseteq {j \in Skills : versions'[j] # {}}
    BY <2>3 DEF PackageTypeOK
  <2>7. writer' \in [Writers -> WriteStates] /\ history' \subseteq Manifests
    BY <1>a DEF PackageTypeOK
  <2> QED
    BY <2>1, <2>2, <2>5, <2>6, <2>7 DEF PackageTypeOK
<1>2. CompleteUnlessRaced'
  <2> SUFFICES ASSUME NEW n \in Referenced' \ raced',
                      NEW o \in Closure(n)
               PROVE  o \in bytes /\ registry'[o] # "none"
    BY DEF CompleteUnlessRaced, Complete, Present
  <2>1. n \in Manifests /\ o \in Objects
    BY <1>1, ClosureFacts DEF PackageTypeOK, Referenced
  <2>2. CASE n = m /\ ~writer[w].exposed
    <3>1. writer[w].mode = "writing" /\ writer[w].need = {}
      OBVIOUS
    <3>2. Backed(w, o)
      BY <2>2, <3>1 DEF WritersBacked
    <3>3. o \in bytes /\ (registry[o] # "none" \/ o \in writer[w].rows)
      BY <3>1, <3>2 DEF Backed, Present
    <3> QED
      BY <1>b, <2>1, <3>3
  <2>3. CASE n \in Referenced \ raced
    BY <1>b, <2>1, <2>3 DEF CompleteUnlessRaced, Complete, Present
  <2> QED
    BY <1>c, <2>2, <2>3
<1>3. PassKnows'
  <2>1. \A n \in Referenced' \ raced' : ~Doomed(n)
    BY <1>c DEF PassKnows, WritersBacked
  <2>2. \A o \in gc.left \cup gc.swept : registry'[o] = "old"
    BY <1>b DEF PassKnows, PackageTypeOK, PassStates
  <2>3. gc.mode = "marking" => Referenced' \ raced' \subseteq gc.roots \cup history'
    BY <1>c DEF PassKnows
  <2> QED
    BY <2>1, <2>2, <2>3 DEF PassKnows, Doomed
<1>4. WriterShape'
  BY DEF WriterShape, skillVars, NoWrite, PackageTypeOK, WriteStates
<1>5. WritersBacked'
  BY DEF WritersBacked, Backed, Doomed, Present, skillVars, NoWrite,
     PackageTypeOK, WriteStates
<1> QED
  BY <1>1, <1>2, <1>3, <1>4, <1>5

(* A request that ends leaves its bytes, and nothing relies on it.         *)
LEMMA GiveUpKeeps ==
    ASSUME PackageInv, NEW w \in Writers, GiveUp(w)
    PROVE  PackageInv'
<1> USE DEF PackageInv, GiveUp
<1>1. PackageTypeOK'
  BY DEF PackageTypeOK, WriteStates, PassStates, Ages, Referenced, skillVars,
     NoWrite, NoPass, Objects, Writers
<1>2. CompleteUnlessRaced'
  BY DEF CompleteUnlessRaced, Complete, Present, Referenced, skillVars
<1>3. PassKnows'
  BY DEF PassKnows, Doomed, Referenced, skillVars, NoPass
<1>4. WriterShape'
  BY DEF WriterShape, skillVars, NoWrite, PackageTypeOK, WriteStates
<1>5. WritersBacked'
  BY DEF WritersBacked, Backed, Doomed, Present, skillVars, NoWrite,
     PackageTypeOK, WriteStates
<1> QED
  BY <1>1, <1>2, <1>3, <1>4, <1>5

(* Trash keeps the versions.                                               *)
LEMMA SoftDeleteKeeps ==
    ASSUME PackageInv, NEW k \in Skills, SoftDelete(k)
    PROVE  PackageInv'
<1> USE DEF PackageInv, SoftDelete
<1>1. PackageTypeOK'
  BY DEF PackageTypeOK, WriteStates, PassStates, Ages, Referenced, skillVars,
     NoWrite, NoPass, Objects, Writers
<1>2. CompleteUnlessRaced'
  BY DEF CompleteUnlessRaced, Complete, Present, Referenced, skillVars
<1>3. PassKnows'
  BY DEF PassKnows, Doomed, Referenced, skillVars, NoPass
<1>4. WriterShape'
  BY DEF WriterShape, skillVars, NoWrite, PackageTypeOK, WriteStates
<1>5. WritersBacked'
  BY DEF WritersBacked, Backed, Doomed, Present, skillVars, NoWrite,
     PackageTypeOK, WriteStates
<1> QED
  BY <1>1, <1>2, <1>3, <1>4, <1>5

(* So does a restore.                                                      *)
LEMMA RestoreSkillKeeps ==
    ASSUME PackageInv, NEW k \in Skills, RestoreSkill(k)
    PROVE  PackageInv'
<1> USE DEF PackageInv, RestoreSkill
<1>1. PackageTypeOK'
  BY DEF PackageTypeOK, WriteStates, PassStates, Ages, Referenced, skillVars,
     NoWrite, NoPass, Objects, Writers
<1>2. CompleteUnlessRaced'
  BY DEF CompleteUnlessRaced, Complete, Present, Referenced, skillVars
<1>3. PassKnows'
  BY DEF PassKnows, Doomed, Referenced, skillVars, NoPass
<1>4. WriterShape'
  BY DEF WriterShape, skillVars, NoWrite, PackageTypeOK, WriteStates
<1>5. WritersBacked'
  BY DEF WritersBacked, Backed, Doomed, Present, skillVars, NoWrite,
     PackageTypeOK, WriteStates
<1> QED
  BY <1>1, <1>2, <1>3, <1>4, <1>5

(* A purge only removes references.                                        *)
LEMMA PurgeSkillKeeps ==
    ASSUME PackageInv, NEW k \in Skills, PurgeSkill(k)
    PROVE  PackageInv'
<1> USE DEF PackageInv, PurgeSkill
<1>1. PackageTypeOK'
  BY DEF PackageTypeOK, WriteStates, PassStates, Ages, Referenced, skillVars,
     NoWrite, NoPass, Objects, Writers
<1>2. CompleteUnlessRaced'
  BY DEF CompleteUnlessRaced, Complete, Present, Referenced, skillVars
<1>3. PassKnows'
  BY DEF PassKnows, Doomed, Referenced, skillVars, NoPass
<1>4. WriterShape'
  BY DEF WriterShape, skillVars, NoWrite, PackageTypeOK, WriteStates
<1>5. WritersBacked'
  BY DEF WritersBacked, Backed, Doomed, Present, skillVars, NoWrite,
     PackageTypeOK, WriteStates
<1> QED
  BY <1>1, <1>2, <1>3, <1>4, <1>5

(* A row that ages is still a row.                                         *)
LEMMA GraceElapsesKeeps ==
    ASSUME PackageInv, NEW o \in Objects, GraceElapses(o)
    PROVE  PackageInv'
<1> USE DEF PackageInv, GraceElapses
<1>1. PackageTypeOK'
  BY DEF PackageTypeOK, WriteStates, PassStates, Ages, Referenced, skillVars,
     NoWrite, NoPass, Objects, Writers
<1>2. CompleteUnlessRaced'
  BY DEF CompleteUnlessRaced, Complete, Present, Referenced, skillVars
<1>3. PassKnows'
  BY DEF PassKnows, Doomed, Referenced, skillVars, NoPass
<1>4. WriterShape'
  BY DEF WriterShape, skillVars, NoWrite, PackageTypeOK, WriteStates
<1>5. WritersBacked'
  BY DEF WritersBacked, Backed, Doomed, Present, skillVars, NoWrite,
     PackageTypeOK, WriteStates
<1> QED
  BY <1>1, <1>2, <1>3, <1>4, <1>5

(* No pass is under way when history expires.                              *)
LEMMA RetentionElapsesKeeps ==
    ASSUME PackageInv, NEW m \in Manifests, RetentionElapses(m)
    PROVE  PackageInv'
<1> USE DEF PackageInv, RetentionElapses
<1>1. PackageTypeOK'
  BY DEF PackageTypeOK, WriteStates, PassStates, Ages, Referenced, skillVars,
     NoWrite, NoPass, Objects, Writers
<1>2. CompleteUnlessRaced'
  BY DEF CompleteUnlessRaced, Complete, Present, Referenced, skillVars
<1>3. PassKnows'
  BY DEF PassKnows, Doomed, Referenced, skillVars, NoPass
<1>4. WriterShape'
  BY DEF WriterShape, skillVars, NoWrite, PackageTypeOK, WriteStates
<1>5. WritersBacked'
  BY DEF WritersBacked, Backed, Doomed, Present, skillVars, NoWrite,
     PackageTypeOK, WriteStates
<1> QED
  BY <1>1, <1>2, <1>3, <1>4, <1>5

(* The pass starts with every version's manifest.                          *)
LEMMA MarkVersionsKeeps ==
    ASSUME PackageInv, MarkVersions
    PROVE  PackageInv'
<1> USE DEF PackageInv, MarkVersions
<1>a. Referenced \subseteq Manifests
  BY DEF Referenced, PackageTypeOK
<1>b. gc' = [mode |-> "marking", roots |-> Referenced, left |-> {}, swept |-> {}]
  BY DEF NoPass
<1>c. gc' \in PassStates
  BY <1>a, <1>b DEF PassStates, Objects
<1>1. PackageTypeOK'
  BY <1>c DEF PackageTypeOK, Referenced, skillVars
<1>2. CompleteUnlessRaced'
  BY DEF CompleteUnlessRaced, Complete, Present, Referenced, skillVars
<1>3. PassKnows'
  BY DEF PassKnows, Doomed, Referenced, skillVars, NoPass
<1>4. WriterShape'
  BY DEF WriterShape, skillVars, NoWrite, PackageTypeOK, WriteStates
<1>5. WritersBacked'
  <2>1. gc'.left = {} /\ gc'.swept = {}
    <3> HIDE DEF MarkVersions, PackageInv
    <3> QED
      BY <1>b
  <2>2. \A w, o : Backed(w, o)' <=> Backed(w, o)
    BY DEF Backed, Present
  <2>3. \A w \in Writers : writer'[w] = writer[w] /\ ~Doomed(writer[w].pkg)'
    BY <2>1 DEF Doomed
  <2> QED
    BY <2>2, <2>3 DEF WritersBacked
<1> QED
  BY <1>1, <1>2, <1>3, <1>4, <1>5

(* A retained manifest is marked, can be read, and so marks its files.     *)
LEMMA MarkHistoryKeeps ==
    ASSUME PackageInv, MarkHistory
    PROVE  PackageInv'
<1> USE DEF PackageInv, MarkHistory
<1>a. /\ gc'.mode = "sweeping" /\ gc'.roots = {} /\ gc'.swept = {}
      /\ gc'.left = Candidates \ Marked(gc.roots \cup history)
      /\ gc' \in PassStates
      /\ \A o \in gc'.left : o \in Objects /\ registry[o] = "old"
  BY DEF PackageTypeOK, PassStates, PassKnows, Candidates
<1>b. \A w \in Writers :
        /\ writer'[w].mode = writer[w].mode /\ writer'[w].pkg = writer[w].pkg
        /\ writer'[w].skill = writer[w].skill
        /\ writer'[w].need = writer[w].need /\ writer'[w].put = writer[w].put
        /\ writer'[w].rows = writer[w].rows
        /\ ~writer'[w].exposed /\ writer[w].mode # "idle" =>
             ~writer[w].exposed /\ Closure(writer[w].pkg) \cap gc'.left = {}
  BY DEF PackageTypeOK, WriteStates
<1>c. writer' \in [Writers -> WriteStates]
  <2>1. \A w \in Writers :
          (\/ writer[w].exposed
           \/ /\ writer[w].mode # "idle"
              /\ Closure(writer[w].pkg) \cap gc'.left # {}) \in BOOLEAN
    OBVIOUS
  <2>2. \A w \in Writers : \A x \in BOOLEAN :
          [writer[w] EXCEPT !.exposed = x] \in WriteStates
    BY DEF PackageTypeOK, WriteStates
  <2> QED
    BY <2>1, <2>2
<1>d. \A m \in Referenced \ raced : Closure(m) \cap gc'.left = {}
  <2> SUFFICES ASSUME NEW m \in Referenced \ raced, NEW o \in Closure(m)
               PROVE  o \in Marked(gc.roots \cup history)
    BY <1>a
  <2>1. m \in gc.roots \cup history /\ m \in bytes
    BY DEF PassKnows, CompleteUnlessRaced, Complete, Present, Closure
  <2> QED
    BY <2>1 DEF Marked, Closure
<1>1. PackageTypeOK'
  BY <1>a, <1>c DEF PackageTypeOK, Referenced, skillVars
<1>2. CompleteUnlessRaced'
  BY DEF CompleteUnlessRaced, Complete, Present, Referenced, skillVars
<1>3. PassKnows'
  BY <1>a, <1>d, ZenonT(30) DEF PassKnows, Doomed, Referenced, skillVars
<1>4. WriterShape'
  BY <1>b, ZenonT(30) DEF WriterShape
<1>5. WritersBacked'
  <2> SUFFICES ASSUME NEW w \in Writers, writer[w].mode # "idle",
                      ~writer'[w].exposed
               PROVE  /\ Closure(writer[w].pkg) \cap (gc'.left \cup gc'.swept) = {}
                      /\ \A o \in Closure(writer[w].pkg) : Backed(w, o)'
                      /\ writer[w].need \subseteq Closure(writer[w].pkg)
    BY <1>b, ZenonT(30) DEF WritersBacked, Doomed
  <2>1. ~writer[w].exposed /\ Closure(writer[w].pkg) \cap gc'.left = {}
    BY <1>b
  <2>2. \A o : Backed(w, o)' <=> Backed(w, o)
    BY <1>b DEF Backed, Present
  <2> QED
    BY <1>a, <2>1, <2>2 DEF WritersBacked
<1> QED
  BY <1>1, <1>2, <1>3, <1>4, <1>5

(* The sweep takes no object of a retained or unexposed package.           *)
LEMMA DeleteBytesKeeps ==
    ASSUME PackageInv, DeleteBytes
    PROVE  PackageInv'
<1> USE DEF PackageInv, DeleteBytes
<1> PICK o \in gc.left :
      /\ bytes' = bytes \ {o}
      /\ gc' = [gc EXCEPT !.left = gc.left \ {o}, !.swept = gc.swept \cup {o}]
      /\ UNCHANGED <<registry, skillVars, writer, failures, raced>>
  OBVIOUS
<1>a. /\ gc'.left \cup gc'.swept = gc.left \cup gc.swept
      /\ gc'.mode = gc.mode /\ gc'.roots = gc.roots
  BY DEF PackageTypeOK, PassStates
<1>b. gc' \in PassStates
  BY DEF PackageTypeOK, PassStates
<1> HIDE DEF DeleteBytes
<1>1. PackageTypeOK'
  BY <1>b DEF PackageTypeOK, Referenced, skillVars
<1>2. CompleteUnlessRaced'
  BY DEF CompleteUnlessRaced, Complete, Present, Referenced, skillVars,
     PassKnows, Doomed
<1>3. PassKnows'
  BY <1>a DEF PassKnows, Doomed, Referenced, skillVars
<1>4. WriterShape'
  BY DEF WriterShape, skillVars, NoWrite, PackageTypeOK, WriteStates
<1>5. WritersBacked'
  BY <1>a DEF WritersBacked, Backed, Doomed, Present, skillVars
<1> QED
  BY <1>1, <1>2, <1>3, <1>4, <1>5

(* Nor do the rows that it removes belong to one.                          *)
LEMMA CommitSweepKeeps ==
    ASSUME PackageInv, CommitSweep
    PROVE  PackageInv'
<1> USE DEF PackageInv, CommitSweep
<1>a. gc' = [mode |-> "idle", roots |-> {}, left |-> {}, swept |-> {}]
  BY DEF NoPass
<1>b. \A o \in Objects \ gc.swept : registry'[o] = registry[o]
  OBVIOUS
<1>1. PackageTypeOK'
  BY DEF PackageTypeOK, WriteStates, PassStates, Ages, Referenced, skillVars,
     NoWrite, NoPass, Objects, Writers
<1>2. CompleteUnlessRaced'
  <2> SUFFICES ASSUME NEW m \in Referenced \ raced, NEW o \in Closure(m)
               PROVE  o \in bytes /\ registry'[o] # "none"
    BY DEF CompleteUnlessRaced, Complete, Present, Referenced, skillVars
  <2>1. o \in Objects \ gc.swept
    BY ClosureFacts DEF PassKnows, Doomed, PackageTypeOK, Referenced
  <2> QED
    BY <1>b, <2>1 DEF CompleteUnlessRaced, Complete, Present
<1>3. PassKnows'
  BY DEF PassKnows, Doomed, Referenced, skillVars, NoPass
<1>4. WriterShape'
  BY DEF WriterShape, skillVars, NoWrite, PackageTypeOK, WriteStates
<1>5. WritersBacked'
  <2> SUFFICES ASSUME NEW w \in Writers, writer[w].mode # "idle",
                      ~writer[w].exposed, NEW o \in Closure(writer[w].pkg)
               PROVE  Backed(w, o)'
    BY <1>a DEF WritersBacked, Doomed
  <2>1. o \in Objects \ gc.swept
    BY ClosureFacts DEF WritersBacked, Doomed, WriterShape
  <2> QED
    BY <1>b, <2>1 DEF WritersBacked, Backed, Present
<1> QED
  BY <1>1, <1>2, <1>3, <1>4, <1>5

(* A failed pass leaves rows without bytes, of no retained package.        *)
LEMMA PassFailsKeeps ==
    ASSUME PackageInv, PassFails
    PROVE  PackageInv'
<1> USE DEF PackageInv, PassFails
<1>a. gc' = [mode |-> "idle", roots |-> {}, left |-> {}, swept |-> {}]
  BY DEF NoPass
<1>1. PackageTypeOK'
  BY <1>a, PackageAssumption DEF PackageTypeOK, WriteStates, PassStates,
     Ages, Referenced, skillVars
<1>2. CompleteUnlessRaced'
  BY DEF CompleteUnlessRaced, Complete, Present, Referenced, skillVars
<1>3. PassKnows'
  BY DEF PassKnows, Doomed, Referenced, skillVars, NoPass
<1>4. WriterShape'
  BY DEF WriterShape, skillVars, NoWrite, PackageTypeOK, WriteStates
<1>5. WritersBacked'
  BY <1>a DEF WritersBacked, Backed, Doomed, Present, skillVars
<1> QED
  BY <1>1, <1>2, <1>3, <1>4, <1>5

-----------------------------------------------------------------------------
(* Nothing is stored, referred to or under way in the beginning.           *)
LEMMA InitKeeps == Init => PackageInv
<1> SUFFICES ASSUME Init PROVE PackageInv
  OBVIOUS
<1>1. NoWrite \in WriteStates /\ NoPass \in PassStates
  BY DEF NoWrite, WriteStates, NoPass, PassStates
<1>2. Referenced = {}
  BY DEF Init, Referenced
<1>3. PackageTypeOK
  BY <1>1, <1>2, PackageAssumption DEF Init, PackageTypeOK, Ages
<1>4. CompleteUnlessRaced
  BY <1>2 DEF CompleteUnlessRaced
<1>5. PassKnows
  BY <1>2 DEF Init, PassKnows, NoPass
<1>6. WriterShape /\ WritersBacked
  BY DEF Init, WriterShape, WritersBacked, NoWrite
<1> QED
  BY <1>3, <1>4, <1>5, <1>6 DEF PackageInv

(* Every step keeps the invariant.                                         *)
LEMMA StepKeeps == PackageInv /\ [Next]_packageVars => PackageInv'
<1> SUFFICES ASSUME PackageInv, [Next]_packageVars PROVE PackageInv'
  OBVIOUS
<1>1. CASE WriterStep
  <2>1. ASSUME NEW d \in Devices, DeviceStep(d) PROVE PackageInv'
    BY <2>1, NegotiateKeeps, StoreBlobKeeps, RegisterBlobKeeps,
       VerifyClosureKeeps, RefuseClosureKeeps DEF DeviceStep
  <2> QED
    BY <1>1, <2>1, SynthesizeKeeps, AddBlobKeeps, CommitVersionKeeps,
       GiveUpKeeps DEF WriterStep
<1>2. CASE SkillStep
  BY <1>2, SoftDeleteKeeps, RestoreSkillKeeps, PurgeSkillKeeps DEF SkillStep
<1>3. CASE TimeStep
  BY <1>3, GraceElapsesKeeps, RetentionElapsesKeeps DEF TimeStep
<1>4. CASE GcStep
  BY <1>4, MarkVersionsKeeps, MarkHistoryKeeps, DeleteBytesKeeps,
     CommitSweepKeeps DEF GcStep
<1>5. CASE PassFails
  BY <1>5, PassFailsKeeps
<1>6. CASE UNCHANGED packageVars
  <2> USE <1>6 DEF packageVars, skillVars
  <2>1. PackageTypeOK' /\ CompleteUnlessRaced'
    BY DEF PackageInv, PackageTypeOK, CompleteUnlessRaced, Complete, Present,
       Referenced
  <2>2. PassKnows' /\ WriterShape'
    BY DEF PackageInv, PassKnows, Doomed, Referenced, WriterShape
  <2>3. WritersBacked'
    BY DEF PackageInv, WritersBacked, Backed, Doomed, Present
  <2> QED
    BY <2>1, <2>2, <2>3 DEF PackageInv
<1> QED
  BY <1>1, <1>2, <1>3, <1>4, <1>5, <1>6 DEF Next

(* PackageInv holds throughout.                                            *)
THEOREM PackageInvariant == Spec => []PackageInv
<1>1. Init => PackageInv
  BY InitKeeps
<1>2. PackageInv /\ [Next]_packageVars => PackageInv'
  BY StepKeeps
<1> QED
  BY <1>1, <1>2, PTL DEF Spec

(* Registry, storage, versions, requests and passes keep their types, and  *)
(* what a request or a pass holds is always an object of some package, for *)
(* any packages and any interleaving of the writers with the pass.         *)
THEOREM PackageTypes == Spec => []PackageTypeOK
<1>1. PackageInv => PackageTypeOK
  BY DEF PackageInv
<1> QED
  BY <1>1, PackageInvariant, PTL

(* The package of a retained version keeps every row and every byte        *)
(* through all sweeps, unless it was committed while one held an object of *)
(* it, for any packages that share any files, any writers and any batches. *)
THEOREM RetainedPackagesComplete == Spec => []CompleteUnlessRaced
<1>1. PackageInv => CompleteUnlessRaced
  BY DEF PackageInv
<1> QED
  BY <1>1, PackageInvariant, PTL

(* A device that has uploaded what it was asked for finds its package      *)
(* complete, unless a sweep held an object of it since it negotiated.      *)
THEOREM UploadsAreEnough == Spec => []UploadsSuffice
<1>1. PackageInv => UploadsSuffice
  <2> SUFFICES ASSUME PackageInv, NEW d \in Devices,
                      Uploaded(d), ~writer[d].exposed
               PROVE  Complete(writer[d].pkg)
    BY DEF UploadsSuffice
  <2>1. d \in Writers /\ writer[d].mode = "uploading" /\ writer[d].need = {}
    BY DEF Uploaded, Writers
  <2>2. \A o \in Closure(writer[d].pkg) : Backed(d, o)
    BY <2>1 DEF PackageInv, WritersBacked
  <2> QED
    BY <2>1, <2>2 DEF Backed, Complete
<1> QED
  BY <1>1, PackageInvariant, PTL

(* A row within the orphan grace, and its bytes, survive every step.       *)
THEOREM FreshObjectsAreKept == Spec => FreshIsKept
<1> DEFINE Keeps == \A o \in Objects : registry[o] = "fresh" =>
                      /\ registry'[o] # "none"
                      /\ o \in bytes => o \in bytes'
<1>1. PackageInv /\ [Next]_packageVars => [Keeps]_packageVars
  <2> SUFFICES ASSUME PackageInv, Next, NEW o \in Objects,
                      registry[o] = "fresh"
               PROVE  registry'[o] # "none" /\ (o \in bytes => o \in bytes')
    OBVIOUS
  <2>1. o \notin gc.left \cup gc.swept
    BY DEF PackageInv, PassKnows
  <2>2. registry \in [Objects -> Ages]
    BY DEF PackageInv, PackageTypeOK
  <2>3. CASE WriterStep
    <3>1. ASSUME NEW d \in Devices, DeviceStep(d)
          PROVE  registry'[o] # "none" /\ bytes \subseteq bytes'
      BY <2>2, <3>1 DEF DeviceStep, Negotiate, StoreBlob, RegisterBlob,
         VerifyClosure, RefuseClosure
    <3> QED
      BY <2>2, <2>3, <3>1
         DEF WriterStep, Synthesize, AddBlob, CommitVersion, GiveUp
  <2>4. CASE SkillStep \/ TimeStep \/ PassFails
    BY <2>2, <2>4 DEF SkillStep, SoftDelete, RestoreSkill, PurgeSkill,
       TimeStep, GraceElapses, RetentionElapses, PassFails
  <2>5. CASE GcStep
    BY <2>1, <2>2, <2>5 DEF GcStep, MarkVersions, MarkHistory, DeleteBytes,
       CommitSweep
  <2> QED
    BY <2>3, <2>4, <2>5 DEF Next
<1> QED
  BY <1>1, PackageInvariant, PTL DEF Spec, FreshIsKept
=============================================================================
