----------------------------- MODULE SyncServer -----------------------------
(***************************************************************************)
(* The server's side of the sync protocol for one account: the skills and  *)
(* their revisions, the idempotency receipts and the append-only change    *)
(* log.  Device mutations go through SubmitMutation, browser requests      *)
(* through the Rest actions, pulls read the log through ListChanges.  Each *)
(* request is one transaction behind a writer lock (BEGIN IMMEDIATE on     *)
(* SQLite, SELECT FOR UPDATE on PostgreSQL), hence one step.               *)
(***************************************************************************)
EXTENDS SyncTypes

CONSTANTS
    SlugOf,        \* the slug a skill is created with, by local or server id
    MaxRest,       \* bound: browser requests
    RestOps        \* the browser requests in play

VARIABLES
    skill,    \* the skills table
    receipt,  \* sync_mutation_receipts, by mutation id
    log,      \* sync_change_log; the index is the sequence
    rest      \* browser requests so far (model bound)

serverVars == <<skill, receipt, log, rest>>

(* "draft" stands for every status of a skill that is not in the trash.    *)
SkillStatus == {"absent", "draft", "deleted", "purged"}

NoSkill == [status |-> "absent", rev |-> 0, pkg |-> None, slug |-> None]

(* The answers that leave a receipt; http_request_error (422) and          *)
(* http_server_error (500) leave none.                                     *)
Definitive == {"acked", "conflict", "permission_denied", "validation_error"}

Response(status, rid, rev, head, pkg) ==
    [status |-> status, rid |-> rid, rev |-> rev, head |-> head, pkg |-> pkg]

Acked(s, rev) == Response("acked", s, rev, 0, None)
Refused(status) == Response(status, None, 0, 0, None)
NoReceipt == Refused("none")

(* _conflict_head: the head the device lost against.                       *)
ConflictHead(s) == Response("conflict", None, 0, skill[s].rev, skill[s].pkg)

InTable(s) == skill[s].status \notin {"absent", "purged"}
Live(s) == InTable(s) /\ skill[s].status # "deleted"

ServerInit ==
    /\ skill = [s \in ServerIds |-> NoSkill]
    /\ receipt = [m \in 1 .. MaxMutations |-> NoReceipt]
    /\ log = <<>>
    /\ rest = 0

-----------------------------------------------------------------------------
(* SkillMutationService: every change of a skill bumps its revision and    *)
(* emits a change event in the same transaction.                           *)

EmitChangeEvent(s, rev, op) ==
    log' = Append(log, [rid |-> s, rev |-> rev, op |-> op])

(* create_skill: revision 1.                                               *)
CreateSkill(s, slug, hash) ==
    /\ skill' = [skill EXCEPT ![s] = [status |-> "draft", rev |-> 1,
                                      pkg |-> hash, slug |-> slug]]
    /\ EmitChangeEvent(s, 1, "upsert")

(* update_skill with content; create_version and rollback_version change   *)
(* the same three things.                                                  *)
UpdateSkill(s, hash) ==
    /\ skill' = [skill EXCEPT ![s].rev = @ + 1, ![s].pkg = hash]
    /\ EmitChangeEvent(s, skill[s].rev + 1, "upsert")

(* update_skill without content, set_version_tags: same package.           *)
TouchMetadata(s) ==
    /\ skill' = [skill EXCEPT ![s].rev = @ + 1]
    /\ EmitChangeEvent(s, skill[s].rev + 1, "upsert")

(* soft_delete: a second delete changes and emits nothing.                 *)
SoftDelete(s) ==
    IF skill[s].status = "deleted" THEN UNCHANGED <<skill, log>>
    ELSE /\ skill' = [skill EXCEPT ![s].rev = @ + 1, ![s].status = "deleted"]
         /\ EmitChangeEvent(s, skill[s].rev + 1, "delete")

DeletedRev(s) == IF skill[s].status = "deleted" THEN skill[s].rev
                 ELSE skill[s].rev + 1

(* restore_skill: back as a draft.                                         *)
RestoreSkill(s) ==
    /\ skill[s].status = "deleted"
    /\ skill' = [skill EXCEPT ![s].rev = @ + 1, ![s].status = "draft"]
    /\ EmitChangeEvent(s, skill[s].rev + 1, "upsert")

(* purge_skill: the row goes, a second tombstone at the same revision.     *)
PurgeSkill(s) ==
    /\ skill[s].status = "deleted"
    /\ skill' = [skill EXCEPT ![s] = [NoSkill EXCEPT !.status = "purged"]]
    /\ EmitChangeEvent(s, skill[s].rev, "delete")

-----------------------------------------------------------------------------
(* POST /sync/mutations.                                                   *)

(* SyncMutationRequest.validate_operation_shape, answered with 422.        *)
WellFormed(req) ==
    IF req.op = "create" THEN req.remote = None /\ req.base = 0
    ELSE req.remote # None /\ req.base >= 1

InsertReceipt(req, answer) == receipt' = [receipt EXCEPT ![req.id] = answer]

(* A definitive answer that changes no skill is recorded all the same.     *)
Refuse(req, answer) ==
    /\ InsertReceipt(req, answer)
    /\ UNCHANGED <<skill, log>>

(* _find_skill_by_slug skips trashed skills, the unique constraint on      *)
(* (owner, slug) does not: its violation is an unhandled 500.              *)
SlugTaken(slug) == \E s \in ServerIds : Live(s) /\ skill[s].slug = slug
SlugTrashed(slug) ==
    \E s \in ServerIds : skill[s].status = "deleted" /\ skill[s].slug = slug

FreshId(s) == skill[s].status = "absent"

(* _handle_create.                                                         *)
HandleCreate(req) ==
    LET slug == SlugOf[req.key] IN
    \/ SlugTaken(slug) /\ Refuse(req, Refused("validation_error"))
    \/ /\ ~SlugTaken(slug) /\ SlugTrashed(slug)
       /\ UNCHANGED <<skill, receipt, log>>
    \/ /\ ~SlugTaken(slug) /\ ~SlugTrashed(slug)
       /\ \E s \in ServerIds :
            /\ FreshId(s)
            /\ CreateSkill(s, slug, req.payload)
            /\ InsertReceipt(req, Acked(s, 1))

(* _handle_update: optimistic concurrency on the revision.                 *)
HandleUpdate(req) ==
    LET s == req.remote IN
    \/ ~InTable(s) /\ Refuse(req, Refused("permission_denied"))
    \/ skill[s].status = "deleted" /\ Refuse(req, Refused("validation_error"))
    \/ Live(s) /\ skill[s].rev # req.base /\ Refuse(req, ConflictHead(s))
    \/ /\ Live(s) /\ skill[s].rev = req.base
       /\ UpdateSkill(s, req.payload)
       /\ InsertReceipt(req, Acked(s, skill[s].rev + 1))

(* Mutant: a delete ignores its base revision.                             *)
HandleDeleteBlind(req) ==
    LET s == req.remote IN
    \/ ~InTable(s) /\ Refuse(req, Refused("permission_denied"))
    \/ /\ InTable(s)
       /\ SoftDelete(s)
       /\ InsertReceipt(req, Acked(s, DeletedRev(s)))

(* _handle_delete: a trashed skill is deleted again without an event.      *)
HandleDelete(req) ==
    LET s == req.remote IN
    \/ ~InTable(s) /\ Refuse(req, Refused("permission_denied"))
    \/ InTable(s) /\ skill[s].rev # req.base /\ Refuse(req, ConflictHead(s))
    \/ /\ InTable(s) /\ skill[s].rev = req.base
       /\ SoftDelete(s)
       /\ InsertReceipt(req, Acked(s, DeletedRev(s)))

(* Mutant: the receipt is not looked up.                                   *)
ApplyAgain(req) ==
    \/ req.op = "create" /\ HandleCreate(req)
    \/ req.op = "update" /\ HandleUpdate(req)
    \/ req.op = "delete" /\ HandleDelete(req)

(* apply_sync_mutation: a mutation with a receipt is not applied again.    *)
ApplySyncMutation(req) ==
    \/ receipt[req.id] # NoReceipt /\ UNCHANGED <<skill, receipt, log>>
    \/ /\ receipt[req.id] = NoReceipt
       /\ \/ req.op = "create" /\ HandleCreate(req)
          \/ req.op = "update" /\ HandleUpdate(req)
          \/ req.op = "delete" /\ HandleDelete(req)

(* submit_mutation, one transaction.                                       *)
SubmitMutation(req) ==
    /\ \/ ~WellFormed(req) /\ UNCHANGED <<skill, receipt, log>>
       \/ WellFormed(req) /\ ApplySyncMutation(req)
    /\ UNCHANGED rest

(* What the client is sent in the step that handled req: the receipt,      *)
(* fresh or replayed, or the HTTP error that left none.                    *)
ReplyTo(req) ==
    IF ~WellFormed(req) THEN Refused("http_request_error")
    ELSE IF receipt'[req.id] = NoReceipt THEN Refused("http_server_error")
    ELSE receipt'[req.id]

-----------------------------------------------------------------------------
(* GET /sync/changes with a page limit of one.                             *)

(* Mutant: the filter hides the tombstones of trashed skills too.          *)
VisibleIfLive(e) == Live(e.rid)

(* _skill_visible for the owner of private skills: a purged skill hides    *)
(* all of its events, tombstones included.                                 *)
SkillVisible(e) == InTable(e.rid)

(* _project: an upsert ships the package the skill has now, not the one it *)
(* had when the event was written.                                         *)
Project(e) ==
    [op |-> e.op, rid |-> e.rid, rev |-> e.rev,
     pkg |-> IF e.op = "upsert" THEN skill[e.rid].pkg ELSE None]

NoChange == [op |-> "none", rid |-> None, rev |-> 0, pkg |-> None]

(* Mutant: the last row of the log is never served.                        *)
ListChangesButLast(cur) ==
    LET seq == IF cur + 1 < Len(log) THEN cur + 1 ELSE cur IN
    [change |-> IF seq > cur /\ SkillVisible(log[seq])
                THEN Project(log[seq]) ELSE NoChange,
     next |-> seq,
     more |-> seq + 1 < Len(log)]

(* list_changes: the page behind a cursor.                                 *)
ListChanges(cur) ==
    LET seq == IF cur < Len(log) THEN cur + 1 ELSE cur IN
    [change |-> IF seq > cur /\ SkillVisible(log[seq])
                THEN Project(log[seq]) ELSE NoChange,
     next |-> seq,
     more |-> seq < Len(log)]

-----------------------------------------------------------------------------
(* The browser, through PrivateSkillService.                               *)

Rest(op) ==
    /\ op \in RestOps
    /\ rest < MaxRest
    /\ rest' = rest + 1
    /\ UNCHANGED receipt

RestCreate(s, hash) ==
    /\ Rest("create")
    /\ FreshId(s)
    /\ ~SlugTaken(SlugOf[s]) /\ ~SlugTrashed(SlugOf[s])
    /\ CreateSkill(s, SlugOf[s], hash)

RestUpdate(s, hash) == Rest("update") /\ Live(s) /\ UpdateSkill(s, hash)
RestDelete(s) == Rest("delete") /\ Live(s) /\ SoftDelete(s)
RestRestore(s) == Rest("restore") /\ RestoreSkill(s)
RestPurge(s) == Rest("purge") /\ PurgeSkill(s)
RestTouch(s) == Rest("touch") /\ Live(s) /\ TouchMetadata(s)

RestNext ==
    \E s \in ServerIds :
        \/ \E hash \in Hashes : RestCreate(s, hash) \/ RestUpdate(s, hash)
        \/ RestDelete(s) \/ RestRestore(s) \/ RestPurge(s) \/ RestTouch(s)
=============================================================================
