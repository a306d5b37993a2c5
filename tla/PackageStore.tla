---------------------------- MODULE PackageStore ----------------------------
(***************************************************************************)
(* The server's content-addressed packages: bytes in the blob storage, the *)
(* registry of objects, the rows that refer to packages, the pushes that   *)
(* add them, and the mark-and-sweep pass of the maintenance worker, which  *)
(* runs in a thread of its own beside the requests.                        *)
(*                                                                         *)
(* Every query and every file operation is a step; the statements of one   *)
(* request or pass that change rows take effect at its commit.             *)
(***************************************************************************)
EXTENDS Integers, FiniteSets

CONSTANTS
    Captured,    \* manifest hashes of the desktops' snapshots
    Synthesized, \* manifest hashes the server builds for REST writes
    Files(_),    \* the blobs that a manifest lists
    Skills,      \* skill ids
    Devices,     \* desktops that push packages
    Browsers,    \* REST writers, whose packages the server synthesizes
    BatchSize,   \* blob_gc_batch_size
    NoObject,
    MaxFailures  \* bound: failed passes

Manifests == Captured \cup Synthesized

(* Hashes are compared by the sweep, so they are numbers here.             *)
ASSUME PackageAssumption ==
    /\ Manifests \subseteq Nat
    /\ \A m \in Manifests : Files(m) \subseteq Nat \ Manifests
    /\ Devices \cap Browsers = {}
    /\ BatchSize \in Nat \ {0}
    /\ NoObject \notin Nat \cup Skills
    /\ MaxFailures \in Nat

VARIABLES
    bytes,      \* the objects in the storage
    registry,   \* skill_blob_objects: no row, or the age of the row
    versions,   \* skill_versions.package_manifest_hash, by skill
    trash,      \* the skills with status deleted
    history,    \* manifests named by change rows or receipts within retention
    writer,     \* what each device or REST request is doing
    gc,         \* the maintenance worker's pass
    failures,   \* failed passes so far (model bound)
    raced       \* history: packages committed while a sweep held their objects

skillVars == <<versions, trash, history>>
packageVars == <<bytes, registry, skillVars, writer, gc, failures, raced>>

Closure(m) == {m} \cup Files(m)
Objects == UNION {Closure(m) : m \in Manifests}
Writers == Devices \cup Browsers
Ages == {"none", "fresh", "old"}   \* fresh: younger than the orphan grace

Referenced == UNION {versions[k] : k \in Skills}

(* _blob_present: an object counts when both its row and its bytes exist.  *)
Present(o) == registry[o] # "none" /\ o \in bytes
Complete(m) == \A o \in Closure(m) : Present(o)

(* need: objects to store; put: stored, its row not looked for yet; rows:  *)
(* objects whose rows the request's transaction inserts;                   *)
(* exposed: history, a sweep holds or has taken an object of the package.  *)
NoWrite == [mode |-> "idle", pkg |-> NoObject, skill |-> NoObject,
            need |-> {}, put |-> NoObject, rows |-> {}, exposed |-> FALSE]
NoPass == [mode |-> "idle", roots |-> {}, left |-> {}, swept |-> {}]

Doomed(m) == Closure(m) \cap (gc.left \cup gc.swept) # {}
Held(k) == \E w \in Writers : writer[w].skill = k

Init ==
    /\ bytes = {}
    /\ registry = [o \in Objects |-> "none"]
    /\ versions = [k \in Skills |-> {}]
    /\ trash = {}
    /\ history = {}
    /\ writer = [w \in Writers |-> NoWrite]
    /\ gc = NoPass
    /\ failures = 0
    /\ raced = {}

-----------------------------------------------------------------------------
(* Pushing a package.                                                      *)

(* Mutant: the rows are trusted, the storage is not asked.                 *)
NegotiateByRow(d, m) ==
    /\ writer[d].mode = "idle"
    /\ writer' = [writer EXCEPT ![d] =
          [NoWrite EXCEPT !.mode = "uploading", !.pkg = m,
                          !.need = {o \in Closure(m) : registry[o] = "none"},
                          !.exposed = Doomed(m)]]
    /\ UNCHANGED <<bytes, registry, skillVars, gc, failures, raced>>

(* negotiate_missing_blobs for the closure of the desktop's snapshot.      *)
Negotiate(d, m) ==
    /\ writer[d].mode = "idle"
    /\ writer' = [writer EXCEPT ![d] =
          [NoWrite EXCEPT !.mode = "uploading", !.pkg = m,
                          !.need = {o \in Closure(m) : ~Present(o)},
                          !.exposed = Doomed(m)]]
    /\ UNCHANGED <<bytes, registry, skillVars, gc, failures, raced>>

(* upload_blob, in the order of the hashes: the bytes first ...            *)
StoreBlob(d, o) ==
    /\ writer[d].mode = "uploading"
    /\ writer[d].put = NoObject
    /\ o \in writer[d].need /\ \A p \in writer[d].need : o <= p
    /\ bytes' = bytes \cup {o}
    /\ writer' = [writer EXCEPT ![d].put = o]
    /\ UNCHANGED <<registry, skillVars, gc, failures, raced>>

(* ... then the row, unless there is one, which keeps its created_at.      *)
RegisterBlob(d) ==
    LET o == writer[d].put IN
    /\ o # NoObject
    /\ registry' = IF registry[o] = "none"
                   THEN [registry EXCEPT ![o] = "fresh"] ELSE registry
    /\ writer' = [writer EXCEPT ![d].put = NoObject, ![d].need = @ \ {o}]
    /\ UNCHANGED <<bytes, skillVars, gc, failures, raced>>

Uploaded(d) ==
    writer[d].mode = "uploading" /\ writer[d].put = NoObject
      /\ writer[d].need = {}

(* A create or an update reaches _verify_package_closure with its skill's  *)
(* row locked.                                                             *)
VerifyClosure(d, k) ==
    /\ Uploaded(d)
    /\ k \notin trash /\ ~Held(k)
    /\ Complete(writer[d].pkg)
    /\ writer' = [writer EXCEPT ![d].mode = "writing", ![d].skill = k,
                                ![d].exposed = Doomed(writer[d].pkg)]
    /\ UNCHANGED <<bytes, registry, skillVars, gc, failures, raced>>

(* BLOB_MISSING or BLOB_NOT_FOUND: no receipt, no change.                  *)
RefuseClosure(d) ==
    /\ Uploaded(d)
    /\ ~Complete(writer[d].pkg)
    /\ writer' = [writer EXCEPT ![d] = NoWrite]
    /\ UNCHANGED <<bytes, registry, skillVars, gc, failures, raced>>

(* A REST write begins synthesize_legacy_package, with its skill's row     *)
(* locked.                                                                 *)
Synthesize(b, k, m) ==
    /\ writer[b].mode = "idle"
    /\ k \notin trash /\ ~Held(k)
    /\ writer' = [writer EXCEPT ![b] =
          [NoWrite EXCEPT !.mode = "writing", !.pkg = m, !.skill = k,
                          !.need = Closure(m), !.exposed = Doomed(m)]]
    /\ UNCHANGED <<bytes, registry, skillVars, gc, failures, raced>>

(* register_verified_blob for the files and then for the manifest: the     *)
(* bytes are stored, and a row that is missing is added to the request's   *)
(* transaction.  One step, since between the two only a sweep that holds   *)
(* the object could take the row away, and then the request is exposed.    *)
AddBlob(b, o) ==
    /\ writer[b].mode = "writing"
    /\ o \in writer[b].need
    /\ o = writer[b].pkg => writer[b].need = {o}
    /\ bytes' = bytes \cup {o}
    /\ writer' = [writer EXCEPT
          ![b].need = @ \ {o},
          ![b].rows = IF registry[o] = "none" THEN @ \cup {o} ELSE @]
    /\ UNCHANGED <<registry, skillVars, gc, failures, raced>>

(* The commit of a version row, its change row and (for a device) its      *)
(* receipt; another request's row with the same key makes it fail.         *)
CommitVersion(w) ==
    LET m == writer[w].pkg
        k == writer[w].skill IN
    /\ writer[w].mode = "writing" /\ writer[w].need = {}
    /\ \A o \in writer[w].rows : registry[o] = "none"
    /\ registry' = [o \in Objects |->
          IF o \in writer[w].rows THEN "fresh" ELSE registry[o]]
    /\ versions' = [versions EXCEPT ![k] = @ \cup {m}]
    /\ history' = history \cup {m}
    /\ raced' = IF writer[w].exposed THEN raced \cup {m} ELSE raced \ {m}
    /\ writer' = [writer EXCEPT ![w] = NoWrite]
    /\ UNCHANGED <<bytes, trash, gc, failures>>

(* A lost connection, a process that dies, a failed insert: the request's  *)
(* rows roll back, its bytes stay; the retry negotiates again.             *)
GiveUp(w) ==
    /\ writer[w].mode # "idle"
    /\ writer' = [writer EXCEPT ![w] = NoWrite]
    /\ UNCHANGED <<bytes, registry, skillVars, gc, failures, raced>>

-----------------------------------------------------------------------------
(* The lifecycle of a skill.  A change row names the current package, and  *)
(* publish_version makes any version the current one.                      *)

SoftDelete(k) ==
    /\ versions[k] # {} /\ k \notin trash /\ ~Held(k)
    /\ trash' = trash \cup {k}
    /\ \E m \in versions[k] : history' = history \cup {m}
    /\ UNCHANGED <<bytes, registry, versions, writer, gc, failures, raced>>

RestoreSkill(k) ==
    /\ k \in trash
    /\ trash' = trash \ {k}
    /\ \E m \in versions[k] : history' = history \cup {m}
    /\ UNCHANGED <<bytes, registry, versions, writer, gc, failures, raced>>

(* Mutant: the versions go, the row of the skill stays in the trash.       *)
PurgeVersionsOnly(k) ==
    /\ k \in trash
    /\ versions' = [versions EXCEPT ![k] = {}]
    /\ \E m \in versions[k] : history' = history \cup {m}
    /\ raced' = raced \cap UNION {versions'[j] : j \in Skills}
    /\ UNCHANGED <<bytes, registry, trash, writer, gc, failures>>

(* purge_skill, by the user or by purge_expired_trash.                     *)
PurgeSkill(k) ==
    /\ k \in trash
    /\ trash' = trash \ {k}
    /\ versions' = [versions EXCEPT ![k] = {}]
    /\ \E m \in versions[k] : history' = history \cup {m}
    /\ raced' = raced \cap UNION {versions'[j] : j \in Skills}
    /\ UNCHANGED <<bytes, registry, writer, gc, failures>>

-----------------------------------------------------------------------------
(* Time.  Rows age at any moment, also during a pass, which compares with  *)
(* its start: the model lets a pass take a row for old a little early.     *)

GraceElapses(o) ==
    /\ registry[o] = "fresh"
    /\ registry' = [registry EXCEPT ![o] = "old"]
    /\ UNCHANGED <<bytes, skillVars, writer, gc, failures, raced>>

(* Every row that names the manifest leaves the retention windows, which   *)
(* are far longer than a pass; a trimmed row is one that had left them.    *)
RetentionElapses(m) ==
    /\ gc.mode = "idle"
    /\ m \in history
    /\ history' = history \ {m}
    /\ UNCHANGED <<bytes, registry, versions, trash, writer, gc, failures, raced>>

-----------------------------------------------------------------------------
(* run_blob_gc.                                                            *)

(* The manifests of all versions.  The query for current_package_hash that *)
(* follows finds nothing that these and the change rows do not hold.       *)
MarkVersions ==
    /\ gc.mode = "idle"
    /\ gc' = [NoPass EXCEPT !.mode = "marking", !.roots = Referenced]
    /\ UNCHANGED <<bytes, registry, skillVars, writer, failures, raced>>

(* A manifest that cannot be read contributes itself only.                 *)
Marked(roots) == roots \cup UNION {Files(m) : m \in roots \cap bytes}

(* Mutant: no cutoff by creation time.                                     *)
CandidatesOfAnyAge ==
    {o \in Objects : registry[o] # "none"}

(* The first rows, by hash, that are older than the orphan grace.          *)
Candidates ==
    LET Old == {o \in Objects : registry[o] = "old"} IN
    {o \in Old : Cardinality({p \in Old : p < o}) < BatchSize}

(* Mutant: the versions are the only roots.                                *)
MarkVersionsOnly ==
    /\ gc.mode = "marking"
    /\ gc' = [gc EXCEPT !.mode = "sweeping", !.roots = {},
                        !.left = Candidates \ Marked(gc.roots)]
    /\ writer' = [w \in Writers |->
          [writer[w] EXCEPT !.exposed =
             \/ @
             \/ /\ writer[w].mode # "idle"
                /\ Closure(writer[w].pkg) \cap gc'.left # {}]]
    /\ UNCHANGED <<bytes, registry, skillVars, failures, raced>>

(* The change rows and receipts, the closures, and the candidate rows.     *)
MarkHistory ==
    /\ gc.mode = "marking"
    /\ gc' = [gc EXCEPT !.mode = "sweeping", !.roots = {},
                        !.left = Candidates \ Marked(gc.roots \cup history)]
    /\ writer' = [w \in Writers |->
          [writer[w] EXCEPT !.exposed =
             \/ @
             \/ /\ writer[w].mode # "idle"
                /\ Closure(writer[w].pkg) \cap gc'.left # {}]]
    /\ UNCHANGED <<bytes, registry, skillVars, failures, raced>>

DeleteBytes ==
    \E o \in gc.left :
      /\ \A p \in gc.left : o <= p
      /\ bytes' = bytes \ {o}
      /\ gc' = [gc EXCEPT !.left = @ \ {o}, !.swept = @ \cup {o}]
      /\ UNCHANGED <<registry, skillVars, writer, failures, raced>>

(* Mutant: the bytes go, the rows stay.                                    *)
CommitNothing ==
    /\ gc.mode = "sweeping"
    /\ gc.left = {}
    /\ gc' = NoPass
    /\ UNCHANGED <<bytes, registry, skillVars, writer, failures, raced>>

CommitSweep ==
    /\ gc.mode = "sweeping"
    /\ gc.left = {}
    /\ registry' = [o \in Objects |->
          IF o \in gc.swept THEN "none" ELSE registry[o]]
    /\ gc' = NoPass
    /\ UNCHANGED <<bytes, skillVars, writer, failures, raced>>

(* The server stops, or the storage raises: the rows roll back, the        *)
(* deleted bytes do not.                                                   *)
PassFails ==
    /\ gc.mode # "idle"
    /\ failures < MaxFailures
    /\ failures' = failures + 1
    /\ gc' = NoPass
    /\ UNCHANGED <<bytes, registry, skillVars, writer, raced>>

-----------------------------------------------------------------------------
DeviceStep(d) ==
    \/ \E m \in Captured : Negotiate(d, m)
    \/ \E o \in Objects : StoreBlob(d, o)
    \/ RegisterBlob(d)
    \/ \E k \in Skills : VerifyClosure(d, k)
    \/ RefuseClosure(d)

WriterStep ==
    \/ \E d \in Devices : DeviceStep(d)
    \/ \E b \in Browsers, k \in Skills, m \in Synthesized :
         Synthesize(b, k, m)
    \/ \E b \in Browsers, o \in Objects : AddBlob(b, o)
    \/ \E w \in Writers : CommitVersion(w) \/ GiveUp(w)

SkillStep ==
    \E k \in Skills : SoftDelete(k) \/ RestoreSkill(k) \/ PurgeSkill(k)

TimeStep ==
    \/ \E o \in Objects : GraceElapses(o)
    \/ \E m \in Manifests : RetentionElapses(m)

GcStep == MarkVersions \/ MarkHistory \/ DeleteBytes \/ CommitSweep

Next == WriterStep \/ SkillStep \/ TimeStep \/ GcStep \/ PassFails

Spec == Init /\ [][Next]_packageVars

(* The worker loops for ever and goes on after a failed pass, of which     *)
(* there are finitely many; time passes.                                   *)
FairSpec ==
    /\ Spec
    /\ WF_packageVars(GcStep)
    /\ \A o \in Objects : WF_packageVars(GraceElapses(o))

-----------------------------------------------------------------------------
(* Properties.                                                             *)

WriteStates ==
    [mode : {"idle", "uploading", "writing"},
     pkg : Manifests \cup {NoObject}, skill : Skills \cup {NoObject},
     need : SUBSET Objects, put : Objects \cup {NoObject},
     rows : SUBSET Objects, exposed : BOOLEAN]

PassStates ==
    [mode : {"idle", "marking", "sweeping"},
     roots : SUBSET Manifests, left : SUBSET Objects, swept : SUBSET Objects]

(* The state has its type; a trashed skill still has its versions.         *)
PackageTypeOK ==
    /\ bytes \subseteq Objects
    /\ registry \in [Objects -> Ages]
    /\ versions \in [Skills -> SUBSET Manifests]
    /\ trash \subseteq {k \in Skills : versions[k] # {}}
    /\ history \subseteq Manifests
    /\ writer \in [Writers -> WriteStates]
    /\ gc \in PassStates
    /\ failures \in 0..MaxFailures
    /\ raced \subseteq Referenced

(* The package of every retained version keeps all its rows and bytes      *)
(* through any number of passes, failed ones included, except when it was  *)
(* committed while a sweep that had finished marking held one of its       *)
(* objects (run_blob_gc against _verify_package_closure).                  *)
CompleteUnlessRaced ==
    \A m \in Referenced \ raced : Complete(m)

(* A device that has uploaded what negotiate_missing_blobs asked for is    *)
(* not answered BLOB_MISSING, unless a sweep held an object of its package *)
(* since it negotiated: no failed pass, no lost request and no other       *)
(* writer leaves the registry and the storage in a state that negotiation  *)
(* misjudges.                                                              *)
UploadsSuffice ==
    \A d \in Devices :
      Uploaded(d) /\ ~writer[d].exposed => Complete(writer[d].pkg)

(* An object registered within the orphan grace loses neither its row nor, *)
(* once stored, its bytes, whatever the marks say (R4 of run_blob_gc).     *)
FreshIsKept ==
    [][\A o \in Objects : registry[o] = "fresh" =>
         /\ registry'[o] # "none"
         /\ o \in bytes => o \in bytes']_packageVars

(* When a batch can hold every row, the row of an object that nothing      *)
(* refers to is removed in the end, however often passes fail and devices  *)
(* upload it again (run_blob_gc: repeated runs converge).                  *)
GarbageCollected ==
    \A o \in Objects :
      []<>(\/ registry[o] = "none"
           \/ \E m \in Referenced \cup history : o \in Closure(m))
=============================================================================
