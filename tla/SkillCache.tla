----------------------------- MODULE SkillCache -----------------------------
(***************************************************************************)
(* Local content on the desktop: the blob store, the managed workspaces,   *)
(* hydration, release and the cache budget.                                *)
(*                                                                         *)
(* A snapshot is named by its tree, which is also the name of its manifest *)
(* blob; its closure is the manifest and the blobs of its files.  The      *)
(* commands run one at a time ("cmd", under the coordinator's lock); the   *)
(* worker pulls and pushes beside them without that lock; the user's       *)
(* editor writes workspaces at any time.  A SQLite transaction, a blob     *)
(* put or removal and a directory rename is a step each.  Deletion of a    *)
(* skill and lost answers are in LocalStore and DesktopSync.               *)
(***************************************************************************)
EXTENDS Integers, Sequences, FiniteSets

CONSTANTS
    Skills,
    Trees,        \* snapshots, each named like its manifest blob
    Files,        \* file blobs
    FilesOf,      \* the file blobs of each tree
    Budgets,      \* the max_bytes the user may set (every blob counts 1)
    None,
    Partial,      \* a directory that materialization did not finish
    MaxVersions,  \* bound: revisions of a skill on the server
    MaxPublished, \* bound: revisions in all when another device commits
    MaxEdits,     \* bound: writes of the user's editor
    MaxCommands,  \* bound: commands given (an import is a create and a commit)
    MaxFaults     \* bound: failed downloads, crashes

Attempts == 3     \* of hydrate_skill

ASSUME CacheAssumption ==
    /\ FilesOf \in [Trees -> SUBSET Files]
    /\ Trees \cap Files = {}
    /\ None \notin Trees /\ Partial \notin Trees /\ None # Partial
    /\ IsFiniteSet(Trees) /\ IsFiniteSet(Files) /\ IsFiniteSet(Skills)
    /\ Budgets \subseteq Nat \ {0}

VARIABLES
    server,    \* the package hash of each revision of a skill on the server
    row,       \* local_skills: state, current and remote hash, revision
    outbox,    \* the unacked mutations of a skill ("bare" is history: the
               \* row was hollow when it was queued)
    deployed,  \* the snapshot recorded as deployed
    blobs,     \* the content of the blob store
    ws,        \* the managed workspaces
    budget,    \* local_cache_policy.max_bytes
    cmd,       \* the command in progress
    sweep,     \* what enforce_cache_budget has read
    wk,        \* the worker's change page
    edited,    \* history: edited since it was last committed or written
    hollow,    \* history: rows that left remote_only without their files
    edits,     \* model bound
    given,     \* model bound
    faults     \* model bound

local == <<row, outbox, deployed>>
cacheVars == <<server, local, blobs, ws, budget, cmd, sweep, wk, edited, hollow,
               edits, given, faults>>

Blobs == Trees \cup Files
Closure(t) == {t} \cup FilesOf[t]

Absent == [st |-> "absent", head |-> None, rem |-> None, rev |-> 0]
NoCmd == [op |-> "none", pc |-> "idle", s |-> None, head |-> None,
          tree |-> None, tries |-> 0, moved |-> FALSE, lost |-> FALSE]
NoSweep == [rows |-> [s \in Skills |-> Absent], shipped |-> {}, refs |-> {},
            inv |-> {}, used |-> 0, cand |-> {}, doomed |-> {},
            unresolved |-> {}]
NoPage == [pc |-> "idle", s |-> None, rev |-> 0]

Init ==
    /\ server = [s \in Skills |-> <<>>]
    /\ row = [s \in Skills |-> Absent]
    /\ outbox = [s \in Skills |-> <<>>]
    /\ deployed = [s \in Skills |-> None]
    /\ blobs = {}
    /\ ws = [s \in Skills |-> None]
    /\ budget \in Budgets
    /\ cmd = NoCmd /\ sweep = NoSweep /\ wk = NoPage
    /\ edited = [s \in Skills |-> FALSE]
    /\ hollow = {}
    /\ edits = 0 /\ given = 0 /\ faults = 0

Present(s) == row[s].st # "absent"
Published(s) == {server[s][k] : k \in DOMAIN server[s]}

-----------------------------------------------------------------------------
(* The other devices and the user's editor.                                *)

(* Another device commits a revision; a change of metadata alone carries   *)
(* the package hash it had.  A skill made here is unknown elsewhere until  *)
(* it is pushed.                                                           *)
Publish(s, t) ==
    /\ Len(server[s]) < MaxVersions
    /\ Cardinality({p \in Skills \X (1 .. MaxVersions) :
                      p[2] <= Len(server[p[1]])}) < MaxPublished
    /\ server[s] # <<>> \/ (~Present(s) /\ ws[s] = None /\ cmd.s # s)
    /\ server' = [server EXCEPT ![s] = Append(@, t)]
    /\ UNCHANGED <<local, blobs, ws, budget, cmd, sweep, wk, edited, hollow,
                   edits, given, faults>>

(* The user's editor writes a workspace.                                   *)
Edit(s, t) ==
    /\ edits < MaxEdits
    /\ ws[s] # None /\ ws[s] # t
    /\ ws' = [ws EXCEPT ![s] = t]
    /\ edited' = [edited EXCEPT ![s] = TRUE]
    /\ edits' = edits + 1
    /\ cmd' = [cmd EXCEPT !.moved = @ \/ cmd.s = s]
    /\ UNCHANGED <<server, local, blobs, budget, sweep, wk, hollow, given,
                   faults>>

-----------------------------------------------------------------------------
(* The worker: sync_pull.rs and sync_push.rs.                              *)

(* fetch_changes_page: a page with the next change of a row.               *)
FetchChangesPage(s) ==
    /\ wk.pc = "idle"
    /\ Len(server[s]) > row[s].rev
    /\ wk' = [pc |-> "page", s |-> s, rev |-> row[s].rev + 1]
    /\ UNCHANGED <<server, local, blobs, ws, budget, cmd, sweep, edited, hollow,
                   edits, given, faults>>

(* download_page_blobs: the manifest alone, and only when it is missing.   *)
DownloadPageBlobs ==
    /\ wk.pc = "page"
    /\ blobs' = blobs \cup {server[wk.s][wk.rev]}
    /\ wk' = [wk EXCEPT !.pc = "apply"]
    /\ UNCHANGED <<server, local, ws, budget, cmd, sweep, edited, hollow, edits,
                   given, faults>>

(* Mutant: a new row does not take the hash of the change.                 *)
UpsertedMetadataOnly(r, t, k) ==
    IF r.rev >= k THEN r
    ELSE [r EXCEPT !.st = IF r.st \in {"dirty", "conflict"} THEN "conflict"
                          ELSE IF r.head # t THEN "remote_only" ELSE "synced",
                   !.rem = t, !.rev = k]

(* Mutant: a dirty row keeps its hash but is listed like a clean one.      *)
UpsertedOverDirty(r, t, k) ==
    IF r.rev >= k THEN r
    ELSE [st |-> IF r.head # t THEN "remote_only" ELSE "synced",
          head |-> IF r.st \in {"dirty", "conflict"} THEN r.head ELSE t,
          rem |-> t, rev |-> k]

(* apply_upsert: local work makes a conflict, a new hash makes the row     *)
(* remote_only, and the same hash makes it synced.                         *)
Upserted(r, t, k) ==
    IF r.rev >= k THEN r
    ELSE IF r.st \in {"dirty", "conflict"}
    THEN [r EXCEPT !.st = "conflict", !.rem = t, !.rev = k]
    ELSE [st |-> IF r.st = "absent" \/ r.head # t
                 THEN "remote_only" ELSE "synced",
          head |-> t, rem |-> t, rev |-> k]

ApplyChangesPage ==
    LET s == wk.s
        r == Upserted(row[s], server[s][wk.rev], wk.rev)
    IN  /\ wk.pc = "apply"
        /\ row' = [row EXCEPT ![s] = r]
        /\ hollow' = CASE r.st = "remote_only" -> hollow \ {s}
                       [] row[s].st = "remote_only" /\ r.st = "synced" ->
                            hollow \cup {s}
                       [] OTHER -> hollow
        /\ wk' = NoPage
        /\ UNCHANGED <<server, outbox, deployed, blobs, ws, budget, cmd, sweep,
                       edited, edits, given, faults>>

(* The first mutation of a skill is pushed; its closure is read from the   *)
(* blob store.  The server takes it on the revision it was based on.       *)
Push(s) ==
    /\ wk.pc = "idle"
    /\ outbox[s] # <<>>
    /\ LET m == Head(outbox[s])
           n == Len(server[s])
           st == IF row[s].st \in {"dirty", "conflict"} /\ Tail(outbox[s]) = <<>>
                 THEN "synced" ELSE row[s].st
       IN  /\ ~m.conflict
           /\ Closure(m.tree) \subseteq blobs
           /\ IF m.base = n
              THEN /\ n < MaxVersions
                   /\ server' = [server EXCEPT ![s] = Append(@, m.tree)]
                   /\ outbox' = [outbox EXCEPT ![s] = Tail(@)]
                   /\ row' = [row EXCEPT ![s] = [@ EXCEPT !.rev = n + 1,
                                                        !.st = st]]
              ELSE /\ outbox' = [outbox EXCEPT ![s] =
                        <<[m EXCEPT !.conflict = TRUE]>> \o Tail(@)]
                   /\ row' = [row EXCEPT ![s] =
                        [@ EXCEPT !.st = "conflict", !.rev = n,
                                  !.rem = server[s][n]]]
                   /\ UNCHANGED server
    /\ hollow' = IF row[s].st = "remote_only" /\ row'[s].st = "conflict"
                 THEN hollow \cup {s} ELSE hollow
    /\ UNCHANGED <<deployed, blobs, ws, budget, cmd, sweep, wk, edited, edits,
                   given, faults>>

-----------------------------------------------------------------------------
(* Commands.                                                               *)

Idle == cmd.pc = "idle"

Command(c) ==
    /\ Idle
    /\ given' = given + IF c.op = "zip" THEN 2 ELSE 1
    /\ given' <= MaxCommands
    /\ cmd' = c
    /\ UNCHANGED <<budget, sweep, wk, edits, faults>>

Step(pc) == cmd' = [cmd EXCEPT !.pc = pc]
Fail == cmd' = NoCmd
Frame == UNCHANGED <<server, budget, wk, edits, given, faults>>

NewId(s) == ~Present(s) /\ server[s] = <<>> /\ ws[s] = None

(* create_skill_workspace: a new id and its SKILL.md.                      *)
CreateWorkspace(s, t) ==
    /\ NewId(s)
    /\ Command(NoCmd)
    /\ ws' = [ws EXCEPT ![s] = t]
    /\ edited' = [edited EXCEPT ![s] = TRUE]
    /\ UNCHANGED <<server, local, blobs, hollow>>

(* import_skill_zip: the unpacked archive is captured, then imported as a  *)
(* workspace.                                                              *)
Unpacked(s, t) ==
    [NoCmd EXCEPT !.op = "zip", !.pc = "put", !.s = s, !.head = t, !.tree = t]

(* import_skill_zip_from_dialog: ... and the workspace is captured and     *)
(* committed.                                                              *)
ImportSkillZip(s, t) ==
    /\ NewId(s)
    /\ Command(Unpacked(s, t))
    /\ UNCHANGED <<server, local, blobs, ws, edited, hollow>>

(* commit_local_skill_workspace.                                           *)
StartCommit(s) ==
    /\ ws[s] # None
    /\ Command([NoCmd EXCEPT !.op = "commit", !.pc = "capture", !.s = s])
    /\ UNCHANGED <<server, local, blobs, ws, edited, hollow>>

(* release_skill_workspace: only what the server has.                      *)
StartRelease(s) ==
    /\ row[s].st = "synced" /\ row[s].rev # 0
    /\ Command(IF ws[s] = None
               THEN [NoCmd EXCEPT !.op = "enforce", !.pc = "list"]
               ELSE [NoCmd EXCEPT !.op = "release", !.pc = "capture",
                                  !.s = s, !.head = row[s].head])
    /\ UNCHANGED <<server, local, blobs, ws, edited, hollow>>

(* capture_workspace: every file is read twice, but the files are read one *)
(* after the other.  A workspace edited meanwhile, or a partial one, gives *)
(* any mixture or an error; the file blobs are put before the manifest.    *)
CaptureWorkspace(t) ==
    /\ cmd.pc = "capture"
    /\ t = ws[cmd.s] \/ cmd.moved \/ ws[cmd.s] = Partial
    /\ cmd' = [cmd EXCEPT !.pc = "put", !.tree = t]
    /\ UNCHANGED <<local, blobs, ws, sweep, edited, hollow>>
    /\ Frame

CaptureFails ==
    /\ cmd.pc = "capture"
    /\ cmd.moved \/ ws[cmd.s] = Partial
    /\ Fail
    /\ UNCHANGED <<local, blobs, ws, sweep, edited, hollow>>
    /\ Frame

Captured ==
    CASE cmd.op = "commit" -> Step("commit")
      [] cmd.op = "zip" -> Step(IF ws[cmd.s] = None THEN "import" ELSE "commit")
      [] cmd.tree = cmd.head -> Step("remove")
      [] OTHER -> Fail

PutBytes ==
    LET missing == FilesOf[cmd.tree] \ blobs
    IN  /\ cmd.pc = "put"
        /\ IF missing # {}
           THEN /\ \E b \in missing : blobs' = blobs \cup {b}
                /\ UNCHANGED cmd
           ELSE /\ blobs' = blobs \cup {cmd.tree}
                /\ Captured
        /\ UNCHANGED <<local, ws, sweep, edited, hollow>>
        /\ Frame

(* commit_skill_edit, then the cache attempt (an import makes none).       *)
CommitSkillEdit ==
    LET s == cmd.s
    IN  /\ cmd.pc = "commit"
        /\ row' = [row EXCEPT ![s].st = "dirty", ![s].head = cmd.tree]
        /\ outbox' = [outbox EXCEPT ![s] = Append(@,
              [tree |-> cmd.tree, base |-> row[s].rev, conflict |-> FALSE,
               bare |-> FALSE])]
        /\ hollow' = hollow \ {s}
        /\ edited' = [edited EXCEPT ![s] = cmd.moved \/ ws[s] = Partial]
        /\ IF cmd.op = "zip" THEN Fail ELSE Step("list")
        /\ UNCHANGED <<deployed, blobs, ws, sweep>>
        /\ Frame

RemoveWorkspace ==
    /\ cmd.pc = "remove"
    /\ ws' = [ws EXCEPT ![cmd.s] = None]
    /\ edited' = [edited EXCEPT ![cmd.s] = FALSE]
    /\ Step("list")
    /\ UNCHANGED <<local, blobs, sweep, hollow>>
    /\ Frame

(* supersede_conflict_chain.  Only the first mutation is ever sent, so     *)
(* only it can be in conflict.                                             *)
Unresolved(s) ==
    IF outbox[s] # <<>> /\ Head(outbox[s]).conflict
    THEN Tail(outbox[s]) ELSE outbox[s]

(* resolve_keep_local and resolve_keep_remote.                             *)

KeepLocal(s) ==
    /\ row[s].st = "conflict"
    /\ Command(NoCmd)
    /\ row' = [row EXCEPT ![s].st = "dirty"]
    /\ outbox' = [outbox EXCEPT ![s] = Append(Unresolved(s),
          [tree |-> row[s].head, base |-> row[s].rev, conflict |-> FALSE,
           bare |-> s \in hollow])]
    /\ UNCHANGED <<server, deployed, blobs, ws, edited, hollow>>

KeepRemote(s) ==
    /\ row[s].st = "conflict" /\ row[s].rem # None
    /\ Command(NoCmd)
    /\ row' = [row EXCEPT ![s].st = "remote_only", ![s].head = row[s].rem,
                          ![s].rem = None]
    /\ outbox' = [outbox EXCEPT ![s] = Unresolved(s)]
    /\ UNCHANGED <<server, deployed, blobs, ws, edited, hollow>>

-----------------------------------------------------------------------------
(* Hydration (hydrate.rs).                                                 *)

StartHydrate(s) ==
    /\ Present(s)
    /\ Command([NoCmd EXCEPT !.op = "hydrate", !.pc = "read", !.s = s])
    /\ UNCHANGED <<server, local, blobs, ws, edited, hollow>>

(* deploy_skill_to_agent: hydrate_if_needed comes first.                   *)
StartDeploy(s) ==
    /\ Present(s)
    /\ Command([NoCmd EXCEPT !.op = "deploy", !.s = s,
          !.pc = IF row[s].st # "remote_only" /\ ws[s] # None
                 THEN "check" ELSE "read"])
    /\ UNCHANGED <<server, local, blobs, ws, edited, hollow>>

Hydrated == IF cmd.op = "deploy" THEN Step("check") ELSE Fail

(* verify_materialized_snapshot.                                           *)
IsCurrent(s, t) == t \in blobs /\ ws[s] = t

ReadForHydration ==
    LET s == cmd.s
        t == row[s].head
    IN  /\ cmd.pc = "read"
        /\ CASE row[s].st \notin {"remote_only", "synced"} -> Fail
             [] row[s].st = "synced" /\ IsCurrent(s, t) -> Hydrated
             [] OTHER -> cmd' = [cmd EXCEPT !.pc = "fetch", !.head = t,
                                    !.tree = IF IsCurrent(s, t) THEN t ELSE ws[s],
                                    !.tries = @ + 1]
        /\ UNCHANGED <<local, blobs, ws, sweep, edited, hollow>>
        /\ Frame

(* ensure_closure_local: the manifest first, then the missing files; each  *)
(* download is verified.  A failed one ends the command.                   *)
EnsureClosureLocal ==
    LET t == cmd.head
        missing == Closure(t) \ blobs
    IN  /\ cmd.pc = "fetch"
        /\ IF missing = {}
           THEN /\ Step(CASE cmd.tree = None -> "import"
                          [] cmd.tree = t -> "mark"
                          [] OTHER -> "set aside")
                /\ UNCHANGED blobs
           ELSE /\ t \in Published(cmd.s)
                /\ \E b \in missing : /\ t \notin blobs => b = t
                                      /\ blobs' = blobs \cup {b}
                /\ UNCHANGED cmd
        /\ UNCHANGED <<local, ws, sweep, edited, hollow>>
        /\ Frame

DownloadFails ==
    /\ cmd.pc = "fetch"
    /\ Closure(cmd.head) \ blobs # {}
    /\ faults < MaxFaults
    /\ faults' = faults + 1
    /\ Fail
    /\ UNCHANGED <<server, local, blobs, ws, budget, sweep, wk, edited, hollow,
                   edits, given>>

(* import_snapshot: the directory is created, then filled.  A file the     *)
(* user wrote there meanwhile makes it fail, and failure removes the tree. *)
ImportSnapshot ==
    LET s == cmd.s
    IN  /\ \/ /\ cmd.pc = "import" /\ ws[s] = None
              /\ ws' = [ws EXCEPT ![s] = Partial]
              /\ Step("fill")
              /\ UNCHANGED edited
           \/ /\ cmd.pc = "import" /\ ws[s] # None
              /\ Fail
              /\ UNCHANGED <<ws, edited>>
           \/ /\ cmd.pc = "fill"
              /\ ws' = [ws EXCEPT ![s] = IF edited[s] THEN @ ELSE cmd.head]
              /\ Step(IF cmd.op = "zip" THEN "capture" ELSE "mark")
              /\ UNCHANGED edited
           \/ /\ cmd.pc = "fill" /\ edited[s]
              /\ ws' = [ws EXCEPT ![s] = None]
              /\ edited' = [edited EXCEPT ![s] = FALSE]
              /\ Fail
        /\ UNCHANGED <<local, blobs, sweep, hollow>>
        /\ Frame

(* replace_snapshot, with the snapshot staged: the old directory is moved  *)
(* aside, the new one takes its place, the old one is removed.             *)
ReplaceSnapshot ==
    LET s == cmd.s
    IN  /\ \/ /\ cmd.pc = "set aside"
              /\ ws' = [ws EXCEPT ![s] = None]
              /\ cmd' = [cmd EXCEPT !.pc = "activate", !.lost = edited[s]]
              /\ edited' = [edited EXCEPT ![s] = FALSE]
           \/ /\ cmd.pc = "activate"
              /\ ws' = [ws EXCEPT ![s] = cmd.head]
              /\ Step("discard")
              /\ UNCHANGED edited
           \/ /\ cmd.pc = "discard"
              /\ cmd' = [cmd EXCEPT !.pc = "mark", !.lost = FALSE]
              /\ UNCHANGED <<ws, edited>>
        /\ UNCHANGED <<local, blobs, sweep, hollow>>
        /\ Frame

(* Mutant: the row is promoted whatever hash it has now.                   *)
PromotableAny(r, t) == r.st \in {"remote_only", "synced"}

(* mark_skill_hydrated: the compare-and-swap.                              *)
Promotable(r, t) == r.st \in {"remote_only", "synced"} /\ r.head = t

MarkSkillHydrated ==
    LET s == cmd.s
        r == row[s]
    IN  /\ cmd.pc = "mark"
        /\ IF Promotable(r, cmd.head)
           THEN /\ row' = [row EXCEPT ![s].st = "synced"]
                /\ hollow' = hollow \ {s}
                /\ Hydrated
           ELSE /\ IF /\ r.st \in {"remote_only", "synced"}
                      /\ cmd.tries < Attempts
                   THEN Step("read")
                   ELSE Fail
                /\ UNCHANGED <<row, hollow>>
        /\ UNCHANGED <<outbox, deployed, blobs, ws, sweep, edited>>
        /\ Frame

(* deploy_single: the target is materialized from the blob store and       *)
(* verified, then the deployment is recorded.                              *)
DeploySingle ==
    LET s == cmd.s
    IN  /\ \/ /\ cmd.pc = "check"
              /\ IF /\ row[s].st # "remote_only"
                    /\ Closure(row[s].head) \subseteq blobs
                 THEN cmd' = [cmd EXCEPT !.pc = "record", !.head = row[s].head]
                 ELSE Fail
              /\ UNCHANGED deployed
           \/ /\ cmd.pc = "record"
              /\ deployed' = [deployed EXCEPT ![s] = cmd.head]
              /\ Fail
        /\ UNCHANGED <<row, outbox, blobs, ws, sweep, edited, hollow>>
        /\ Frame

Uninstall(s) ==
    /\ deployed[s] # None
    /\ Command(NoCmd)
    /\ deployed' = [deployed EXCEPT ![s] = None]
    /\ UNCHANGED <<server, row, outbox, blobs, ws, edited, hollow>>

-----------------------------------------------------------------------------
(* The cache budget (cache_manager.rs).                                    *)

SetPolicy(b) ==
    /\ Idle /\ given < MaxCommands
    /\ given' = given + 1
    /\ budget' = b
    /\ cmd' = [NoCmd EXCEPT !.op = "enforce", !.pc = "list"]
    /\ UNCHANGED <<server, local, blobs, ws, sweep, wk, edited, hollow, edits,
                   faults>>

(* list_cache_skills.                                                      *)
ListCacheSkills ==
    /\ cmd.pc = "list"
    /\ sweep' = [NoSweep EXCEPT !.rows = row]
    /\ Step("roots")
    /\ UNCHANGED <<local, blobs, ws, edited, hollow>>
    /\ Frame

(* Mutant: queued payloads do not count as roots.                          *)
PayloadRefsDropped == {}

(* list_unacked_mutation_payload_hashes: each payload counts once.         *)
PayloadRefs ==
    UNION {{[kind |-> "payload", of |-> None, tree |-> outbox[s][i].tree] :
              i \in DOMAIN outbox[s]} : s \in Skills}

(* The references to snapshots: rows that are not remote_only,             *)
(* deployments, and the payloads of unacked mutations.                     *)
CountReferences ==
    /\ cmd.pc = "roots"
    /\ sweep' = [sweep EXCEPT
          !.shipped = {s \in Skills : deployed[s] # None},
          !.refs = {[kind |-> "row", of |-> s, tree |-> sweep.rows[s].head] :
                      s \in {z \in Skills :
                               sweep.rows[z].st \notin {"absent", "remote_only"}}}
                   \cup {[kind |-> "deployment", of |-> s, tree |-> deployed[s]] :
                           s \in {z \in Skills : deployed[z] # None}}
                   \cup PayloadRefs]
    /\ Step("scan")
    /\ UNCHANGED <<local, blobs, ws, edited, hollow>>
    /\ Frame

(* scan_blob_inventory, the early return within the budget, and            *)
(* snapshot_closure: a snapshot without its manifest is unresolved.        *)
ScanInventory ==
    /\ cmd.pc = "scan"
    /\ IF Cardinality(blobs) <= budget
       THEN /\ Fail
            /\ sweep' = NoSweep
       ELSE /\ sweep' = [sweep EXCEPT
                  !.inv = blobs, !.used = Cardinality(blobs),
                  !.cand = {s \in Skills : sweep.rows[s].st # "absent"},
                  !.unresolved = {r.tree : r \in sweep.refs} \ blobs]
            /\ Step("evict")
    /\ UNCHANGED <<local, blobs, ws, edited, hollow>>
    /\ Frame

(* The snapshots whose closure keeps blob b, by reference.                 *)
Keepers(refs, b) ==
    {r \in refs : r.tree \notin sweep.unresolved /\ b \in Closure(r.tree)}

(* is_evictable and the recheck of the workspace path.                     *)
IsEvictable(s) ==
    LET r == sweep.rows[s]
    IN  /\ r.st = "synced" /\ r.rev # 0
        /\ s \notin sweep.shipped
        /\ ws[s] = None
        /\ r.head \notin sweep.unresolved

(* claim_skill_for_eviction.                                               *)
Claimable(s) ==
    /\ row[s].st = "synced" /\ row[s].rev # 0
    /\ row[s].head = sweep.rows[s].head
    /\ deployed[s] = None

(* One candidate.  Its blobs that nothing else keeps are doomed.           *)
EvictCandidate(s) ==
    LET refs == sweep.refs \ {[kind |-> "row", of |-> s,
                                tree |-> sweep.rows[s].head]}
    IN  /\ cmd.pc = "evict"
        /\ sweep.used > budget /\ sweep.doomed = {}
        /\ s \in sweep.cand
        /\ IF IsEvictable(s) /\ Claimable(s)
           THEN /\ row' = [row EXCEPT ![s].st = "remote_only"]
                /\ hollow' = hollow \ {s}
                /\ sweep' = [sweep EXCEPT !.cand = @ \ {s}, !.refs = refs,
                      !.doomed = {b \in Closure(row[s].head) \cap sweep.inv :
                                    Keepers(refs, b) = {}}]
           ELSE /\ sweep' = [sweep EXCEPT !.cand = @ \ {s}]
                /\ UNCHANGED <<row, hollow>>
        /\ UNCHANGED <<outbox, deployed, blobs, ws, cmd, edited>>
        /\ Frame

(* remove_blob_file, for a doomed blob.                                    *)
RemoveBlobFile(b) ==
    /\ cmd.pc = "evict"
    /\ b \in sweep.doomed
    /\ blobs' = blobs \ {b}
    /\ sweep' = [sweep EXCEPT !.doomed = @ \ {b}, !.inv = @ \ {b},
                    !.used = IF b \in blobs THEN @ - 1 ELSE @]
    /\ UNCHANGED <<local, ws, cmd, edited, hollow>>
    /\ Frame

(* The sweep of the inventory's blobs that nothing refers to, unless a     *)
(* snapshot could not be resolved.                                         *)
Orphans == {b \in sweep.inv : Keepers(sweep.refs, b) = {}}

SweepOrphan(b) ==
    /\ cmd.pc = "evict"
    /\ sweep.used > budget
    /\ sweep.cand = {} /\ sweep.doomed = {}
    /\ sweep.unresolved = {}
    /\ b \in Orphans
    /\ blobs' = blobs \ {b}
    /\ sweep' = [sweep EXCEPT !.inv = @ \ {b},
                    !.used = IF b \in blobs THEN @ - 1 ELSE @]
    /\ UNCHANGED <<local, ws, cmd, edited, hollow>>
    /\ Frame

FinishEnforcement ==
    /\ cmd.pc = "evict"
    /\ sweep.doomed = {}
    /\ \/ sweep.used <= budget
       \/ sweep.cand = {} /\ (sweep.unresolved # {} \/ Orphans = {})
    /\ Fail
    /\ sweep' = NoSweep
    /\ UNCHANGED <<local, blobs, ws, edited, hollow>>
    /\ Frame

(* The process dies and starts again; startup enforces the budget.         *)
Crash ==
    /\ faults < MaxFaults
    /\ faults' = faults + 1
    /\ cmd' = [NoCmd EXCEPT !.op = "enforce", !.pc = "list"]
    /\ sweep' = NoSweep /\ wk' = NoPage
    /\ UNCHANGED <<server, local, blobs, ws, budget, edited, hollow, edits,
                   given>>

-----------------------------------------------------------------------------
Worker ==
    \/ \E s \in Skills : Push(s) \/ FetchChangesPage(s)
    \/ DownloadPageBlobs
    \/ ApplyChangesPage

Begin ==
    \/ \E s \in Skills : \/ StartCommit(s) \/ StartRelease(s) \/ StartHydrate(s)
                        \/ StartDeploy(s) \/ Uninstall(s)
                        \/ KeepLocal(s) \/ KeepRemote(s)
                        \/ \E t \in Trees : CreateWorkspace(s, t) \/ ImportSkillZip(s, t)
    \/ \E b \in Budgets : SetPolicy(b)

Continue ==
    \/ \E t \in Trees : CaptureWorkspace(t)
    \/ CaptureFails
    \/ PutBytes
    \/ CommitSkillEdit
    \/ RemoveWorkspace
    \/ ReadForHydration
    \/ EnsureClosureLocal
    \/ DownloadFails
    \/ ImportSnapshot
    \/ ReplaceSnapshot
    \/ MarkSkillHydrated
    \/ DeploySingle
    \/ ListCacheSkills
    \/ CountReferences
    \/ ScanInventory
    \/ \E s \in Skills : EvictCandidate(s)
    \/ \E b \in Blobs : RemoveBlobFile(b) \/ SweepOrphan(b)
    \/ FinishEnforcement

Next ==
    \/ \E s \in Skills, t \in Trees : Publish(s, t) \/ Edit(s, t)
    \/ Worker
    \/ Begin
    \/ Continue
    \/ Crash

Spec == Init /\ [][Next]_cacheVars

-----------------------------------------------------------------------------
MutationType == [tree : Trees, base : Nat, conflict : BOOLEAN, bare : BOOLEAN]
RowType == [st : {"absent", "remote_only", "synced", "dirty", "conflict"},
            head : Trees \cup {None}, rem : Trees \cup {None}, rev : Nat]
RefType == [kind : {"row", "deployment", "payload"},
            of : Skills \cup {None}, tree : Trees]

(* The variables keep their types, and a row has a head exactly when it    *)
(* is in the table (local_skills.current_blob_hash).                       *)
CacheTypeOK ==
    /\ server \in [Skills -> Seq(Trees)]
    /\ row \in [Skills -> RowType]
    /\ \A s \in Skills : row[s].st = "absent" <=> row[s].head = None
    /\ outbox \in [Skills -> Seq(MutationType)]
    /\ deployed \in [Skills -> Trees \cup {None}]
    /\ blobs \subseteq Blobs
    /\ ws \in [Skills -> Trees \cup {None, Partial}]
    /\ sweep.refs \subseteq RefType /\ sweep.inv \subseteq Blobs
    /\ edited \in [Skills -> BOOLEAN]
    /\ hollow \subseteq Skills

(* The snapshots that something points at: rows that a commit or a         *)
(* hydration made local, deployments and queued payloads.                  *)
Roots ==
    {row[s].head : s \in {z \in Skills \ hollow :
                            row[z].st \notin {"absent", "remote_only"}}}
    \cup ({deployed[s] : s \in Skills} \ {None})
    \cup UNION {{outbox[s][i].tree :
                   i \in {j \in DOMAIN outbox[s] : ~outbox[s][j].bare}} :
                 s \in Skills}

Pinned == UNION {Closure(t) : t \in Roots}

(* The blob store is a ContentPool: eviction and the orphan sweep, which   *)
(* work from lists read before the worker went on, discard no blob that a  *)
(* local row, a deployment or a queued mutation needs, and a row, a        *)
(* deployment or a mutation only ever points at content that is complete   *)
(* (enforce_cache_budget, hydrate_skill, capture_workspace).               *)
Pool == INSTANCE ContentPool WITH held <- blobs, pinned <- Pinned
PoolSpec == Pool!Spec

(* What eviction or keep-remote leaves to the server is on the server: the *)
(* head of a remote_only row can be downloaded (claim_skill_for_eviction,  *)
(* resolve_keep_remote, apply_upsert).                                     *)
RemoteOnlyIsOnServer ==
    \A s \in Skills :
        row[s].st = "remote_only" => row[s].head \in Published(s)

(* A synced row's finished workspace, unless it was edited, is the         *)
(* snapshot the row names: a pull between materialization and promotion    *)
(* does not leave an old directory behind a synced row                     *)
(* (mark_skill_hydrated's hash CAS).                                       *)
SyncedIsExact ==
    \A s \in Skills \ hollow :
        row[s].st = "synced" /\ ws[s] \in Trees /\ ~edited[s]
            => ws[s] = row[s].head

(* hydrate.rs promises that hydration never costs local work: the          *)
(* directory that replace_snapshot removes holds no edit.                  *)
LocalWorkSurvives == cmd.pc = "discard" => ~cmd.lost
=============================================================================
