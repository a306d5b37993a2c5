---------------------------- MODULE DesktopSync -----------------------------
(***************************************************************************)
(* One desktop installation against the server: the LocalStore, the        *)
(* threads that run SyncEngine::run_cycle on it, the HTTP requests between *)
(* the two sides, the user's commands and the browser.                     *)
(*                                                                         *)
(* Two threads run cycles: the background worker, which takes no lock      *)
(* beyond the store's own, and the sync_now command ("ui"), which holds    *)
(* the DesktopMutationCoordinator for its whole cycle and so excludes the  *)
(* other commands, but not the worker.                                     *)
(***************************************************************************)
EXTENDS LocalStore, SyncServer

CONSTANTS
    Threads,      \* the threads that run cycles: "worker", "ui"
    UserOps,      \* the user's commands in play
    MaxFailures,  \* bound: timeouts, failed uploads, refused sessions, crashes
    Faults        \* the kinds of failures in play

VARIABLES
    thread,    \* where each thread is in its cycle
    late,      \* requests whose sender gave up; the server may still get them
    failures,  \* failures so far (model bound)
    applied,   \* history: how often the server applied each mutation
    seen       \* history: <<skill, revision>> pairs the desktop was told of

syncVars == <<storeVars, serverVars, thread, late, failures, applied, seen>>

(* batch: claimed (key, mutation id) pairs not dispatched yet.             *)
Idle == [pc |-> "idle", batch |-> {}, req |-> <<>>, resp |-> NoReceipt,
         page |-> <<>>]

At(pc, batch) == [Idle EXCEPT !.pc = pc, !.batch = batch]

SyncInit ==
    /\ StoreInit
    /\ ServerInit
    /\ thread = [t \in Threads |-> Idle]
    /\ late = {}
    /\ failures = 0
    /\ applied = [m \in 1 .. MaxMutations |-> 0]
    /\ seen = {}

Fail(kind) ==
    /\ kind \in Faults
    /\ failures < MaxFailures
    /\ failures' = failures + 1

-----------------------------------------------------------------------------
(* Push.                                                                   *)

AfterPush(batch) == At(IF batch = {} THEN "pull" ELSE "push", batch)
AfterFailure(batch) == At(IF batch = {} THEN "pull" ELSE "release", batch)

(* run_cycle up to the claim.  A session or device failure before the      *)
(* claim ends the cycle with no effect.                                    *)
StartCycle(t) ==
    /\ thread[t].pc = "idle"
    /\ \E batch \in SUBSET Dispatchable :
         /\ ClaimDispatchable(batch)
         /\ thread' = [thread EXCEPT ![t] =
              AfterPush({<<p[1], outbox[p[1]][p[2]].id>> : p \in batch})]
    /\ UNCHANGED <<serverVars, late, failures, applied, seen>>

IndexOf(k, id) == CHOOSE i \in DOMAIN outbox[k] : outbox[k][i].id = id

(* submit_mutation: the mutation as it was claimed, the remote id as it is *)
(* now.                                                                    *)
Request(k, m) ==
    [key |-> k, id |-> m.id, op |-> m.op, base |-> m.base,
     payload |-> m.payload, remote |-> row[k].remoteId]

(* dispatch_mutation: the package closure is uploaded, the request is out. *)
Submit(t) ==
    /\ thread[t].pc = "push"
    /\ \E p \in thread[t].batch :
         LET m == outbox[p[1]][IndexOf(p[1], p[2])] IN
         thread' = [thread EXCEPT ![t] =
             [At("sent", @.batch \ {p}) EXCEPT !.req = Request(p[1], m)]]
    /\ UNCHANGED <<storeVars, serverVars, late, failures, applied, seen>>

(* dispatch_mutation: the closure upload fails.                            *)
UploadFails(t) ==
    /\ thread[t].pc = "push"
    /\ Fail("upload")
    /\ \E p \in thread[t].batch :
         /\ ApplyTransportError(p[1], IndexOf(p[1], p[2]))
         /\ thread' = [thread EXCEPT ![t] = AfterFailure(@.batch \ {p})]
    /\ UNCHANGED <<serverVars, late, applied, seen>>

(* The server handles a request; the history notes what it applied.        *)
Serve(req) ==
    /\ SubmitMutation(req)
    /\ applied' = [applied EXCEPT ![req.id] = IF log' # log THEN @ + 1 ELSE @]

ServerReplies(t) ==
    /\ thread[t].pc = "sent"
    /\ Serve(thread[t].req)
    /\ thread' = [thread EXCEPT ![t].pc = "replied",
                                ![t].resp = ReplyTo(thread[t].req)]
    /\ UNCHANGED <<storeVars, late, failures, seen>>

(* A request whose sender timed out or crashed reaches the server late.    *)
LateDelivery ==
    \E req \in late :
        /\ Serve(req)
        /\ late' = late \ {req}
        /\ UNCHANGED <<storeVars, thread, failures, seen>>

(* Mutant: a timed out mutation is put back as if it had never been sent.  *)
TimeoutForgets(t) ==
    /\ thread[t].pc \in {"sent", "replied"}
    /\ Fail("timeout")
    /\ LET req == thread[t].req IN
       /\ outbox' = [outbox EXCEPT
                       ![req.key][IndexOf(req.key, req.id)].state = "pending"]
       /\ late' = IF thread[t].pc = "sent" THEN late \cup {req} ELSE late
    /\ thread' = [thread EXCEPT ![t] = AfterFailure(@.batch)]
    /\ UNCHANGED <<row, cursor, nextId, serverVars, applied, seen>>

(* dispatch_mutation: a timeout, before or after the server handled the    *)
(* request, is recorded as a transport error.                              *)
Timeout(t) ==
    /\ thread[t].pc \in {"sent", "replied"}
    /\ Fail("timeout")
    /\ LET req == thread[t].req IN
       /\ ApplyTransportError(req.key, IndexOf(req.key, req.id))
       /\ late' = IF thread[t].pc = "sent" THEN late \cup {req} ELSE late
    /\ thread' = [thread EXCEPT ![t] = AfterFailure(@.batch)]
    /\ UNCHANGED <<serverVars, applied, seen>>

(* dispatch_mutation: the server refuses the session or the device (401,   *)
(* 403); the mutation is left as it is, in flight.                         *)
SessionRefused(t) ==
    /\ thread[t].pc = "sent"
    /\ Fail("session")
    /\ thread' = [thread EXCEPT ![t] = AfterFailure(@.batch)]
    /\ UNCHANGED <<storeVars, serverVars, late, applied, seen>>

(* apply_mutation_outcome on the answer; the cycle goes on after a         *)
(* definitive answer and stops pushing after an HTTP error.  The arms for  *)
(* a mutation that is acked already or gone are not needed: ClaimExclusive *)
(* says that a dispatched mutation is still in flight.                     *)
ApplyReply(t) ==
    LET req == thread[t].req
        resp == thread[t].resp
        k == req.key
        i == IndexOf(k, req.id)
    IN
    /\ thread[t].pc = "replied"
    /\ CASE resp.status = "acked" -> ApplyAcked(k, i, resp.rid, resp.rev)
         [] resp.status = "conflict" ->
              ApplyConflict(k, i, resp.head, resp.pkg)
         [] resp.status = "permission_denied" -> ApplyPermissionDenied(k, i)
         [] resp.status \in {"validation_error", "http_request_error"} ->
              ApplyValidationError(k, i)
         [] resp.status = "http_server_error" -> ApplyTransportError(k, i)
    /\ seen' = seen \cup {<<resp.rid, resp.rev>>, <<req.remote, resp.head>>}
    /\ thread' = [thread EXCEPT ![t] =
                    IF resp.status \in Definitive THEN AfterPush(@.batch)
                                                  ELSE AfterFailure(@.batch)]
    /\ UNCHANGED <<serverVars, late, failures, applied>>

(* The ack's transaction rolls back: remote_id would not be unique.  The   *)
(* mutation stays in flight.                                               *)
AckRollsBack(t) ==
    LET req == thread[t].req
        resp == thread[t].resp
    IN
    /\ thread[t].pc = "replied"
    /\ resp.status = "acked"
    /\ RemoteIdTaken(req.key, resp.rid)
    /\ thread' = [thread EXCEPT ![t] = AfterFailure(@.batch)]
    /\ UNCHANGED <<storeVars, serverVars, late, failures, applied, seen>>

(* run_cycle after a failed dispatch: the tail is released.                *)
ReleaseTail(t) ==
    /\ thread[t].pc = "release"
    /\ ReleaseInFlight({p[2] : p \in thread[t].batch})
    /\ thread' = [thread EXCEPT ![t] = At("pull", {})]
    /\ UNCHANGED <<serverVars, late, failures, applied, seen>>

-----------------------------------------------------------------------------
(* Pull: pull_changes, page by page.                                       *)

FetchPage(t) ==
    /\ thread[t].pc = "pull"
    /\ thread' = [thread EXCEPT ![t].pc = "page",
                                ![t].page = ListChanges(cursor)]
    /\ UNCHANGED <<storeVars, serverVars, late, failures, applied, seen>>

(* The page request, or the download of its blobs, fails.                  *)
PullFails(t) ==
    /\ thread[t].pc \in {"pull", "page"}
    /\ Fail("pull")
    /\ thread' = [thread EXCEPT ![t] = Idle]
    /\ UNCHANGED <<storeVars, serverVars, late, applied, seen>>

ApplyPage(t) ==
    LET page == thread[t].page
        c == page.change
    IN
    /\ thread[t].pc = "page"
    /\ CASE c.op = "upsert" -> ApplyUpsert(c.rid, c.rev, c.pkg, page.next)
         [] c.op = "delete" -> ApplyTombstone(c.rid, c.rev, page.next)
         [] c.op = "none" -> ApplyEmptyPage(page.next)
    /\ seen' = seen \cup {<<c.rid, c.rev>>}
    /\ thread' = [thread EXCEPT ![t] = IF page.more THEN At("pull", {})
                                       ELSE Idle]
    /\ UNCHANGED <<serverVars, late, failures, applied>>

-----------------------------------------------------------------------------
(* The process dies at any point and starts again: the threads' memory is  *)
(* lost, requests on the wire stay there, startup requeues what was in     *)
(* flight.                                                                 *)
Restart ==
    /\ Fail("crash")
    /\ RecoverInFlight
    /\ late' = late \cup {thread[t].req : t \in {u \in Threads :
                                            thread[u].pc = "sent"}}
    /\ thread' = [t \in Threads |-> Idle]
    /\ UNCHANGED <<serverVars, applied, seen>>

(* The user's commands wait for the coordinator while sync_now runs.       *)
CoordinatorFree == \A t \in Threads \cap {"ui"} : thread[t].pc = "idle"

UserCommand ==
    /\ CoordinatorFree
    /\ \E k \in RowIds :
         \/ /\ "edit" \in UserOps
            /\ \E hash \in Hashes : CommitSkillEdit(k, hash, row[k].rev)
         \/ "delete" \in UserOps /\ QueueSkillDelete(k, row[k].rev)
         \/ "keep_local" \in UserOps /\ ResolveKeepLocal(k)
         \/ "keep_remote" \in UserOps /\ ResolveKeepRemote(k)
         \/ "hydrate" \in UserOps /\ MarkSkillHydrated(k, row[k].cur)
         \/ "evict" \in UserOps /\ ClaimSkillForEviction(k, row[k].cur)
    /\ UNCHANGED <<serverVars, thread, late, failures, applied, seen>>

Backoff ==
    /\ \E k \in RowIds : \E i \in DOMAIN outbox[k] : BackoffElapses(k, i)
    /\ UNCHANGED <<serverVars, thread, late, failures, applied, seen>>

Browser ==
    /\ RestNext
    /\ UNCHANGED <<storeVars, thread, late, failures, applied, seen>>

Push(t) ==
    \/ Submit(t) \/ ServerReplies(t) \/ ApplyReply(t)
    \/ AckRollsBack(t) \/ ReleaseTail(t)

Pull(t) == FetchPage(t) \/ ApplyPage(t)

Failure(t) ==
    UploadFails(t) \/ Timeout(t) \/ SessionRefused(t) \/ PullFails(t)

SyncNext ==
    \/ \E t \in Threads : StartCycle(t) \/ Push(t) \/ Pull(t) \/ Failure(t)
    \/ LateDelivery \/ Restart \/ UserCommand \/ Backoff \/ Browser

SyncSpec == SyncInit /\ [][SyncNext]_syncVars

(* Every HTTP call has a timeout, so a cycle that has started goes on; the *)
(* worker wakes periodically, so another one follows; the clock goes on    *)
(* too.  Nothing is assumed of the user (who need not press "sync now"     *)
(* again), the browser, late deliveries or failures (of which there are at *)
(* most MaxFailures: in the end the network and the session hold).         *)
FairSpec ==
    /\ SyncSpec
    /\ \A t \in Threads : WF_syncVars(Push(t) \/ Pull(t))
    /\ WF_syncVars(\E t \in Threads \cap {"worker"} : StartCycle(t))
    /\ WF_syncVars(Backoff)

-----------------------------------------------------------------------------
Held(t) == {p[2] : p \in thread[t].batch}
             \cup (IF thread[t].pc \in {"sent", "replied"}
                   THEN {thread[t].req.id} ELSE {})

(* Two cycles never work on the same mutation: whatever a thread has       *)
(* claimed is in flight in the store, and no other thread has claimed it.  *)
ClaimExclusive ==
    /\ \A t \in Threads : \A m \in Held(t) :
          \E k \in RowIds : \E i \in DOMAIN outbox[k] :
             outbox[k][i].id = m /\ outbox[k][i].state = "in_flight"
    /\ \A t, u \in Threads : t # u => Held(t) \cap Held(u) = {}

(* Retries, late deliveries, restarts and concurrent cycles never make the *)
(* server apply one mutation twice, and never make the desktop take a      *)
(* mutation that the server has applied for a refused one.                 *)
ExactlyOnce ==
    /\ \A m \in DOMAIN applied : applied[m] <= 1
    /\ \A k \in RowIds : \A i \in DOMAIN outbox[k] :
          outbox[k][i].state \in {"conflict", "permission_denied",
                                  "permanent_error"}
             => applied[outbox[k][i].id] = 0

(* The desktop believes a mutation acked at a revision only if the server  *)
(* holds the receipt of exactly that, for the skill the row now mirrors.   *)
AckedIsReceipted ==
    \A k \in RowIds : \A i \in DOMAIN outbox[k] :
        LET m == outbox[k][i] IN
        m.ack # 0 => receipt[m.id] = Acked(row[k].remoteId, m.ack)

(* A device mutation never replaces a head that this desktop has not been  *)
(* told of: whoever wrote the head that an update or a delete replaced,    *)
(* its revision had reached the store before.                              *)
NeverOverwritesUnseen ==
    [][\A s \in ServerIds :
          rest' = rest /\ skill'[s] # skill[s] /\ InTable(s)
             => <<s, skill[s].rev>> \in seen]_syncVars

(* The last event about skill s that the cursor has passed.                *)
PassedEvents(s) == {i \in 1 .. cursor : i <= Len(log) /\ log[i].rid = s}
LastPassed(s) == CHOOSE i \in PassedEvents(s) :
                    \A j \in PassedEvents(s) : j <= i

(* Content and cursor move together: every change the cursor has passed is *)
(* in the mirror, at its revision or a later one.  (Concurrent cycles may  *)
(* take the cursor back over a deletion; that one is pulled again.)        *)
MirrorCoversCursor ==
    \A s \in ServerIds :
        PassedEvents(s) # {} /\ log[LastPassed(s)].op = "upsert" /\ InTable(s)
          => \/ \E k \in Matches(s) : row[k].rev >= log[LastPassed(s)].rev
             \/ \E j \in (cursor + 1) .. Len(log) :
                   log[j].rid = s /\ log[j].op = "delete"

(* A deletion the cursor has passed is gone from the mirror, unless local  *)
(* work that the server has not acked holds on to the row, or the row is   *)
(* ahead of the cursor at a revision after the deletion.                   *)
TombstonesClear ==
    \A s \in ServerIds :
        PassedEvents(s) # {} /\ log[LastPassed(s)].op = "delete"
          => \A k \in Matches(s) :
                Unacked(k) # {} \/ row[k].rev > log[LastPassed(s)].rev

Quiet ==
    /\ cursor = Len(log)
    /\ late = {}
    /\ \A t \in Threads : thread[t].pc = "idle"
    /\ \A k \in RowIds : Unacked(k) = {}

Heads(k, i) == i \in DOMAIN outbox[k]
                 /\ \A j \in 1 .. (i - 1) : outbox[k][j].state = "acked"
Settled(k, i) == i \in DOMAIN outbox[k]
                   => outbox[k][i].state \in {"acked", "conflict",
                        "permission_denied", "permanent_error"}

(* Every locally committed mutation is eventually settled: once it heads   *)
(* its chain, the server's definitive answer reaches the store.            *)
EventuallySettles ==
    \A k \in RowIds : \A i \in 1 .. MaxMutations :
        Heads(k, i) ~> Settled(k, i)

(* The pull catches up with the change log, whatever happens to the push.  *)
FeedDrains == <>[](cursor = Len(log))

(* Once everything is acked and pulled, the mirror is the server's state.  *)
Converged ==
    Quiet => \A s \in ServerIds :
        /\ Live(s) => \E k \in Matches(s) :
                         row[k].rev = skill[s].rev /\ row[k].cur = skill[s].pkg
        /\ skill[s].status = "deleted" => Matches(s) = {}

(* What the plan says of edits queued offline: they synchronize in order.  *)
(* With one desktop as the only writer and no failures, nothing it sends   *)
(* is ever refused.                                                        *)
SoleWriterAccepted ==
    rest = 0 /\ failures = 0
      => \A k \in RowIds : \A i \in DOMAIN outbox[k] :
            outbox[k][i].state \notin {"conflict", "permanent_error",
                                      "permission_denied"}
=============================================================================
