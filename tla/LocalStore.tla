----------------------------- MODULE LocalStore -----------------------------
(***************************************************************************)
(* The desktop's durable store: the local_skills table, the                *)
(* local_mutations outbox and the pull cursor, with one action per         *)
(* LocalStore method that changes them.  Every method runs in one SQLite   *)
(* IMMEDIATE transaction, so each one is one step here.                    *)
(*                                                                         *)
(* The callers are left open: StoreSpec lets the user, the sync cycle and  *)
(* the server hand the store any argument of the right shape, in any       *)
(* order.  DesktopSync composes the store with the real callers and        *)
(* implements StoreSpec.                                                   *)
(***************************************************************************)
EXTENDS SyncTypes

CONSTANTS
    ClaimLimit,    \* MAX_MUTATIONS_PER_CYCLE
    MaxRev,        \* bound: revisions the open environment may report
    MaxSeq         \* bound: cursors the open environment may report

ASSUME StoreAssumption ==
    /\ ClaimLimit \in Nat
    /\ MaxRev \in Nat
    /\ MaxSeq \in Nat

VARIABLES
    row,      \* local_skills, by primary key; state "absent": no such row
    outbox,   \* local_mutations of each skill; the index is local_sequence
    cursor,   \* sync_state.server_cursor; 0: none yet
    nextId    \* the next mutation id (a fresh UUID in the code)

storeVars == <<row, outbox, cursor, nextId>>

(* A pulled row is keyed by the server's id, a created one by a local id.  *)
RowIds == LocalIds \cup ServerIds

(* "uploading" and "corrupted" are declared by the schema and never set.   *)
RowStates == {"absent", "remote_only", "synced", "dirty", "conflict",
              "sync_error", "access_revoked"}

(* retry_later is retryable_error with next_attempt_at in the future.      *)
MutStates == {"pending", "in_flight", "acked", "retryable_error",
              "retry_later", "conflict", "permission_denied",
              "permanent_error"}

(* Revision 0 stands for NULL: the server's revisions start at 1.          *)
Rows == [remoteId : ServerIds \cup {None}, rev : Nat,
         cur : Hashes \cup {None}, rem : Hashes \cup {None},
         state : RowStates]

Mutations == [id : Nat, op : {"create", "update", "delete"}, base : Nat,
              payload : Hashes, state : MutStates, ack : Nat]

NoRow == [remoteId |-> None, rev |-> 0, cur |-> None, rem |-> None,
          state |-> "absent"]

Present(k) == row[k].state # "absent"

Unacked(k) == {i \in DOMAIN outbox[k] : outbox[k][i].state # "acked"}

StoreInit ==
    /\ row = [k \in RowIds |-> NoRow]
    /\ outbox = [k \in RowIds |-> <<>>]
    /\ cursor = 0
    /\ nextId = 1

-----------------------------------------------------------------------------
(* User edits.                                                             *)

NewMutation(op, base, hash) ==
    [id |-> nextId, op |-> op, base |-> base, payload |-> hash,
     state |-> "pending", ack |-> 0]

(* commit_skill_edit: upsert the row as dirty and append to its chain.     *)
(* base is the revision the caller edited from, 0 when it knows none.      *)
CommitSkillEdit(k, hash, base) ==
    /\ nextId <= MaxMutations
    /\ Present(k) \/ (k \in LocalIds /\ base = 0)
    /\ row' = [row EXCEPT ![k].cur = hash,
                          ![k].rev = IF base = 0 THEN @ ELSE base,
                          ![k].state = "dirty"]
    /\ outbox' = [outbox EXCEPT ![k] =
                    Append(@, NewMutation(IF Present(k) THEN "update"
                                          ELSE "create", base, hash))]
    /\ nextId' = nextId + 1
    /\ UNCHANGED cursor

(* Mutant: the SkillNotFound check is gone.                                *)
QueueSkillDeleteUnchecked(k, base) ==
    /\ nextId <= MaxMutations
    /\ row' = [row EXCEPT ![k].state = "dirty"]
    /\ outbox' = [outbox EXCEPT ![k] =
                    Append(@, NewMutation("delete", base, row[k].cur))]
    /\ nextId' = nextId + 1
    /\ UNCHANGED cursor

(* queue_skill_delete: the row stays, its current snapshot is the payload. *)
QueueSkillDelete(k, base) ==
    /\ nextId <= MaxMutations
    /\ Present(k)
    /\ row' = [row EXCEPT ![k].state = "dirty"]
    /\ outbox' = [outbox EXCEPT ![k] =
                    Append(@, NewMutation("delete", base, row[k].cur))]
    /\ nextId' = nextId + 1
    /\ UNCHANGED cursor

-----------------------------------------------------------------------------
(* Dispatch.                                                               *)

(* local_mutations as a set of (skill, local_sequence) pairs.              *)
Entries == UNION {{k} \X DOMAIN outbox[k] : k \in RowIds}

StateOf(p) == outbox[p[1]][p[2]].state

(* Every earlier mutation of the skill is acked.                           *)
HeadsChain(p) == \A j \in DOMAIN outbox[p[1]] :
                    j < p[2] => outbox[p[1]][j].state = "acked"

(* Mutant: the NOT EXISTS (earlier) clause is gone.                        *)
DispatchableAnyOrder ==
    {p \in Entries : StateOf(p) \in {"pending", "retryable_error"}}

(* Mutant: a mutation that another cycle claimed may be claimed again.     *)
DispatchableInFlight ==
    {p \in Entries :
        /\ StateOf(p) \in {"pending", "retryable_error", "in_flight"}
        /\ HeadsChain(p)}

(* read_dispatchable: due, and every earlier mutation of the skill acked.  *)
Dispatchable ==
    {p \in Entries :
        StateOf(p) \in {"pending", "retryable_error"} /\ HeadsChain(p)}

(* The outbox with the given entries put in state st.                      *)
Moved(entries, st) ==
    [k \in RowIds |->
        [i \in DOMAIN outbox[k] |->
            IF <<k, i>> \in entries THEN [outbox[k][i] EXCEPT !.state = st]
                                    ELSE outbox[k][i]]]

(* claim_dispatchable_mutations: the limit cuts an order that created_at   *)
(* (in seconds) and random UUIDs leave arbitrary.                          *)
ClaimDispatchable(batch) ==
    /\ batch \subseteq Dispatchable
    /\ \/ batch = Dispatchable /\ Cardinality(batch) <= ClaimLimit
       \/ batch # Dispatchable /\ Cardinality(batch) = ClaimLimit
    /\ outbox' = Moved(batch, "in_flight")
    /\ UNCHANGED <<row, cursor, nextId>>

InFlight == {p \in Entries : StateOf(p) = "in_flight"}

(* release_in_flight_mutations: the undispatched tail is due again.        *)
ReleaseInFlight(ids) ==
    /\ outbox' = Moved({p \in InFlight : outbox[p[1]][p[2]].id \in ids},
                       "retryable_error")
    /\ UNCHANGED <<row, cursor, nextId>>

(* Mutant: startup recovers nothing.                                       *)
RecoverNothing == UNCHANGED storeVars

(* recover_in_flight_mutations, at process start.                          *)
RecoverInFlight ==
    /\ outbox' = Moved(InFlight, "retryable_error")
    /\ UNCHANGED <<row, cursor, nextId>>

(* The clock passes next_attempt_at.                                       *)
BackoffElapses(k, i) ==
    /\ outbox[k][i].state = "retry_later"
    /\ outbox' = [outbox EXCEPT ![k][i].state = "retryable_error"]
    /\ UNCHANGED <<row, cursor, nextId>>

-----------------------------------------------------------------------------
(* Outcomes: apply_mutation_outcome on mutation i of skill k.              *)

(* The UNIQUE constraint on remote_id that apply_acked may run into.       *)
RemoteIdTaken(k, rid) == \E j \in RowIds \ {k} : row[j].remoteId = rid

AllAckedBut(k, i) == Unacked(k) \subseteq {i}

(* Mutant: "conflict" is not one of the labels that an ack clears.         *)
ApplyAckedKeepsConflict(k, i, rid, rev) ==
    /\ outbox[k][i].state # "acked"
    /\ ~RemoteIdTaken(k, rid)
    /\ outbox' = [outbox EXCEPT ![k][i].state = "acked", ![k][i].ack = rev]
    /\ row' = [row EXCEPT
         ![k].remoteId = rid,
         ![k].rev = rev,
         ![k].rem = None,
         ![k].state = IF @ \in {"dirty", "sync_error"} /\ AllAckedBut(k, i)
                      THEN "synced" ELSE @]
    /\ UNCHANGED <<cursor, nextId>>

(* Mutant: the client counts the revision itself.                          *)
ApplyAckedCounts(k, i, rid, rev) ==
    /\ outbox[k][i].state # "acked"
    /\ ~RemoteIdTaken(k, rid)
    /\ outbox' = [outbox EXCEPT ![k][i].state = "acked",
                                ![k][i].ack = row[k].rev + 1]
    /\ row' = [row EXCEPT ![k].remoteId = rid, ![k].rev = @ + 1,
                          ![k].rem = None, ![k].state = "synced"]
    /\ UNCHANGED <<cursor, nextId>>

(* apply_acked.                                                            *)
ApplyAcked(k, i, rid, rev) ==
    /\ outbox[k][i].state # "acked"
    /\ ~RemoteIdTaken(k, rid)
    /\ outbox' = [outbox EXCEPT ![k][i].state = "acked", ![k][i].ack = rev]
    /\ row' = [row EXCEPT
         ![k].remoteId = rid,
         ![k].rev = rev,
         ![k].rem = None,
         ![k].state = IF /\ @ \in {"dirty", "sync_error", "conflict"}
                         /\ AllAckedBut(k, i)
                      THEN "synced" ELSE @]
    /\ UNCHANGED <<cursor, nextId>>

(* apply_definitive_error: conflict, permission_denied, validation_error.  *)
(* Head revision 0 and hash None: the outcome carries none.                *)
DefinitiveError(k, i, mutState, rowState, head, headHash) ==
    /\ outbox[k][i].state # "acked"
    /\ outbox' = [outbox EXCEPT ![k][i].state = mutState]
    /\ row' = [row EXCEPT
         ![k].rev = IF head = 0 THEN @ ELSE head,
         ![k].rem = IF rowState = "conflict" /\ headHash # None
                    THEN headHash ELSE @,
         ![k].state = rowState]
    /\ UNCHANGED <<cursor, nextId>>

ApplyConflict(k, i, head, headHash) ==
    DefinitiveError(k, i, "conflict", "conflict", head, headHash)

ApplyPermissionDenied(k, i) ==
    DefinitiveError(k, i, "permission_denied", "access_revoked", 0, None)

ApplyValidationError(k, i) ==
    DefinitiveError(k, i, "permanent_error", "sync_error", 0, None)

(* The transport_error arm: retry after the backoff.                       *)
ApplyTransportError(k, i) ==
    /\ outbox[k][i].state # "acked"
    /\ outbox' = [outbox EXCEPT ![k][i].state = "retry_later"]
    /\ UNCHANGED <<row, cursor, nextId>>

-----------------------------------------------------------------------------
(* Pull: apply_changes_page, for a page that holds at most one change.     *)
(* Page sizes are the server's to choose; the limit 1 gives every commit   *)
(* point that a larger page has, and more of them.                         *)

(* Mutant: only the primary key is looked up.                              *)
MatchesById(rid) == {k \in RowIds : Present(k) /\ k = rid}

(* The row of a server skill: keyed by its id, or created here.            *)
Matches(rid) ==
    {k \in RowIds : Present(k) /\ (k = rid \/ row[k].remoteId = rid)}

(* Mutant: off by one.                                                     *)
StaleByOne(k, rev) == row[k].rev + 1 >= rev

(* A retried or stale page must not move the mirror backwards.             *)
Stale(k, rev) == row[k].rev >= rev

KeepsLocalHead(k) == row[k].state \in {"dirty", "conflict"}

(* The row at the pulled revision; a local head is kept as a conflict.     *)
Refreshed(k, rev, hash) ==
    [remoteId |-> IF row[k].remoteId = None THEN k ELSE row[k].remoteId,
     rev |-> rev,
     cur |-> IF KeepsLocalHead(k) THEN row[k].cur ELSE hash,
     rem |-> hash,
     state |-> IF KeepsLocalHead(k) THEN "conflict"
               ELSE IF row[k].cur # hash THEN "remote_only"
               ELSE "synced"]

(* Mutant: metadata is refreshed, the package is not.                      *)
UpsertMetadataOnly(k, rev, hash) ==
    row' = IF Stale(k, rev) THEN row
           ELSE [row EXCEPT ![k].rev = rev, ![k].rem = hash]

(* apply_upsert on a row the desktop already has.                          *)
UpsertMatched(k, rev, hash) ==
    row' = IF Stale(k, rev) THEN row
           ELSE [row EXCEPT ![k] = Refreshed(k, rev, hash)]

(* apply_upsert on a resource the desktop does not know.                   *)
UpsertNew(rid, rev, hash) ==
    row' = [row EXCEPT ![rid] = [remoteId |-> rid, rev |-> rev, cur |-> hash,
                                 rem |-> hash, state |-> "remote_only"]]

ApplyUpsert(rid, rev, hash, next) ==
    /\ IF Matches(rid) = {} THEN UpsertNew(rid, rev, hash)
       ELSE \E k \in Matches(rid) : UpsertMatched(k, rev, hash)
    /\ cursor' = next
    /\ UNCHANGED <<outbox, nextId>>

(* Mutant: the count of unacked mutations is gone.                         *)
TombstoneRemoves(k, rev) ==
    IF Stale(k, rev) THEN UNCHANGED <<row, outbox>>
    ELSE /\ row' = [row EXCEPT ![k] = NoRow]
         /\ outbox' = [outbox EXCEPT ![k] = <<>>]

(* apply_tombstone: unacked work is kept as a conflict, a clean row goes   *)
(* and the foreign key takes its acked mutations with it.                  *)
TombstoneMatched(k, rev) ==
    IF Stale(k, rev) THEN UNCHANGED <<row, outbox>>
    ELSE IF Unacked(k) # {}
         THEN /\ row' = [row EXCEPT ![k].rev = rev, ![k].state = "conflict"]
              /\ UNCHANGED outbox
         ELSE /\ row' = [row EXCEPT ![k] = NoRow]
              /\ outbox' = [outbox EXCEPT ![k] = <<>>]

ApplyTombstone(rid, rev, next) ==
    /\ IF Matches(rid) = {} THEN UNCHANGED <<row, outbox>>
       ELSE \E k \in Matches(rid) : TombstoneMatched(k, rev)
    /\ cursor' = next
    /\ UNCHANGED nextId

(* A page whose only log row the caller may not see still moves the cursor *)
ApplyEmptyPage(next) ==
    /\ cursor' = next
    /\ UNCHANGED <<row, outbox, nextId>>

-----------------------------------------------------------------------------
(* Conflict resolution, hydration and eviction.                            *)

(* supersede_conflict_chain.                                               *)
Superseded(k) ==
    [i \in DOMAIN outbox[k] |->
        IF outbox[k][i].state = "conflict"
        THEN [outbox[k][i] EXCEPT !.state = "acked"]
        ELSE outbox[k][i]]

(* resolve_keep_local: requeue the local snapshot on the known head.       *)
ResolveKeepLocal(k) ==
    /\ nextId <= MaxMutations
    /\ row[k].state = "conflict"
    /\ row[k].rev # 0
    /\ outbox' = [outbox EXCEPT ![k] =
          Append(Superseded(k), NewMutation("update", row[k].rev, row[k].cur))]
    /\ row' = [row EXCEPT ![k].state = "dirty"]
    /\ nextId' = nextId + 1
    /\ UNCHANGED cursor

(* resolve_keep_remote: adopt the recorded remote package.                 *)
ResolveKeepRemote(k) ==
    /\ row[k].state = "conflict"
    /\ row[k].rem # None
    /\ outbox' = [outbox EXCEPT ![k] = Superseded(k)]
    /\ row' = [row EXCEPT ![k].cur = row[k].rem, ![k].rem = None,
                          ![k].state = "remote_only"]
    /\ UNCHANGED <<cursor, nextId>>

(* mark_skill_hydrated, compare-and-swap on the hash that was materialized *)
MarkSkillHydrated(k, hash) ==
    /\ row[k].state \in {"remote_only", "synced"}
    /\ row[k].cur = hash
    /\ row' = [row EXCEPT ![k].state = "synced"]
    /\ UNCHANGED <<outbox, cursor, nextId>>

(* claim_skill_for_eviction.                                               *)
ClaimSkillForEviction(k, hash) ==
    /\ row[k].state = "synced"
    /\ row[k].remoteId # None
    /\ row[k].cur = hash
    /\ row' = [row EXCEPT ![k].state = "remote_only"]
    /\ UNCHANGED <<outbox, cursor, nextId>>

-----------------------------------------------------------------------------
Revs == 1 .. MaxRev
Cursors == 0 .. MaxSeq

(* What the user, and the commands acting for them, may ask of the store.  *)
UserNext ==
    \E k \in RowIds :
        \/ \E hash \in Hashes, base \in {0, row[k].rev} :
              CommitSkillEdit(k, hash, base)
        \/ QueueSkillDelete(k, row[k].rev)
        \/ ResolveKeepLocal(k)
        \/ ResolveKeepRemote(k)
        \/ \E hash \in Hashes : MarkSkillHydrated(k, hash)
        \/ \E hash \in Hashes : ClaimSkillForEviction(k, hash)

(* An outcome is reported only for a mutation that was claimed, and the    *)
(* server acks under the remote id it was sent, if it was sent one.        *)
OutcomeNext ==
    \E k \in RowIds : \E i \in DOMAIN outbox[k] :
        /\ outbox[k][i].state # "pending"
        /\ \/ \E rid \in ServerIds, rev \in Revs :
                 /\ row[k].remoteId \in {None, rid}
                 /\ ApplyAcked(k, i, rid, rev)
           \/ \E head \in Revs, hash \in Hashes : ApplyConflict(k, i, head, hash)
           \/ ApplyPermissionDenied(k, i)
           \/ ApplyValidationError(k, i)
           \/ ApplyTransportError(k, i)

PullNext ==
    \E next \in Cursors :
        \/ \E rid \in ServerIds, rev \in Revs, hash \in Hashes :
              ApplyUpsert(rid, rev, hash, next)
        \/ \E rid \in ServerIds, rev \in Revs : ApplyTombstone(rid, rev, next)
        \/ ApplyEmptyPage(next)

DispatchNext ==
    \/ \E batch \in SUBSET Dispatchable : ClaimDispatchable(batch)
    \/ \E ids \in SUBSET (1 .. MaxMutations) : ReleaseInFlight(ids)
    \/ RecoverInFlight
    \/ \E k \in RowIds : \E i \in DOMAIN outbox[k] : BackoffElapses(k, i)

StoreNext == UserNext \/ OutcomeNext \/ PullNext \/ DispatchNext

StoreSpec == StoreInit /\ [][StoreNext]_storeVars

-----------------------------------------------------------------------------
(* Type correctness of the four pieces of durable state.                   *)
StoreTypeOK ==
    /\ row \in [RowIds -> Rows]
    /\ outbox \in [RowIds -> Seq(Mutations)]
    /\ cursor \in Nat
    /\ nextId \in Nat

(* claim_dispatchable_mutations promises dependency-safe work: whatever    *)
(* outcomes, releases, recoveries and conflict resolutions come in         *)
(* between, a mutation has left "pending" only if every earlier mutation   *)
(* of its skill has been acked.                                            *)
ChainOrder ==
    \A k \in RowIds : \A i, j \in DOMAIN outbox[k] :
        i < j /\ outbox[k][j].state # "pending" => outbox[k][i].state = "acked"

(* A row whose state says that the outbox still owes it something is right *)
(* about that: some mutation of its chain is not acked, so the ack of the  *)
(* last one has not left the label behind (the stale wedge that the gate   *)
(* of apply_acked is about).  It does not say that the label will go: a    *)
(* chain whose head is a permanent_error is not dispatched again, and      *)
(* nothing resolves it.                                                    *)
NoStaleWedge ==
    \A k \in RowIds :
        row[k].state \in {"dirty", "conflict", "sync_error"} => Unacked(k) # {}

(* The UNIQUE constraint on remote_id is never what stops a pull: between  *)
(* acks, inserts by server id and tombstones, one server skill has at most *)
(* one row, and a row keyed by a server id mirrors that very skill.        *)
OneRowPerRemote ==
    /\ \A j, k \in RowIds :
          row[j].remoteId = row[k].remoteId /\ row[j].remoteId # None => j = k
    /\ \A k \in ServerIds : Present(k) => row[k].remoteId = k

(* Unacknowledged local work survives every step: while a mutation is not  *)
(* acked its row, its place in the chain, its identity and its payload     *)
(* stay (tombstones, stale pages, conflict resolutions and restarts).      *)
UnackedWorkSurvives ==
    [][\A k \in RowIds : \A i \in Unacked(k) :
          /\ row'[k].state # "absent"
          /\ i \in DOMAIN outbox'[k]
          /\ outbox'[k][i].id = outbox[k][i].id
          /\ outbox'[k][i].payload = outbox[k][i].payload]_storeVars
=============================================================================
