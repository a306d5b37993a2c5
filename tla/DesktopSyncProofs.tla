-------------------------- MODULE DesktopSyncProofs --------------------------
(***************************************************************************)
(* What the exchange between the desktop and the server guarantees for any *)
(* number of skills, mutations, cycles, failures and browser requests:     *)
(* claims are exclusive, a mutation is applied once, an ack is a receipt,  *)
(* no head is replaced that this desktop has not been told of, and the     *)
(* exchange implements the specification of the store.                     *)
(***************************************************************************)
EXTENDS DesktopSync, LocalStoreProofs, FiniteSetTheorems

Ids == 1 .. MaxMutations

Refusals == {"conflict", "permission_denied", "permanent_error"}

(* The shapes of what travels.                                             *)
Requests == [key : RowIds, id : Ids, op : {"create", "update", "delete"},
             base : Nat, payload : Hashes, remote : ServerIds \cup {None}]

Statuses == Definitive \cup {"none", "http_request_error", "http_server_error"}

Responses == [status : Statuses, rid : ServerIds \cup {None}, rev : Nat,
              head : Nat, pkg : Hashes \cup {None}]

Changes == [op : {"none", "upsert", "delete"}, rid : ServerIds \cup {None},
            rev : Nat, pkg : Hashes \cup {None}]

Pages == [change : Changes, next : Nat, more : BOOLEAN]

Skills == [status : SkillStatus, rev : Nat, pkg : Hashes \cup {None},
           slug : {SlugOf[x] : x \in RowIds} \cup {None}]

Events == [rid : ServerIds, rev : Nat, op : {"upsert", "delete"}]

PCs == {"idle", "push", "sent", "replied", "release", "pull", "page"}

ThreadStates == [pc : PCs, batch : SUBSET (RowIds \X Ids),
                 req : Requests \cup {<<>>}, resp : Responses,
                 page : Pages \cup {<<>>}]

Sending(t) == thread[t].pc \in {"sent", "replied"}

(* Every request that the server may still be given.                       *)
Reqs == late \cup {thread[t].req : t \in {u \in Threads : Sending(u)}}

-----------------------------------------------------------------------------
(* The server: a skill in the table has a package, the log names skills,   *)
(* receipts answer mutations that exist.                                   *)
ServerInv ==
    /\ skill \in [ServerIds -> Skills]
    /\ \A x \in ServerIds : InTable(x) => skill[x].pkg \in Hashes
    /\ log \in Seq(Events)
    /\ rest \in Nat
    /\ receipt \in [Ids -> Responses]
    /\ applied \in [Ids -> Nat]

(* A receipt is a definitive answer to a mutation of this desktop; an ack  *)
(* names a skill and its revision and nothing else.                        *)
ReceiptInv ==
    \A m \in Ids :
        /\ receipt[m] # NoReceipt
             => m < nextId /\ receipt[m].status \in Definitive
        /\ receipt[m].status = "acked"
             => /\ receipt[m].rid \in ServerIds
                /\ receipt[m] = Acked(receipt[m].rid, receipt[m].rev)

(* The server has applied a mutation once if its receipt is an ack.        *)
AppliedInv ==
    \A m \in Ids :
        applied[m] = 0 \/ (applied[m] = 1 /\ receipt[m].status = "acked")

(* What is true of mutation m, the i-th of a row with remote id rid, when  *)
(* a is its receipt and told what the desktop has been told.               *)
CreateOK(i, m, rid, a) ==
    /\ i = 1 /\ m.base = 0
    /\ m.state # "acked" => rid = None
    /\ rid # None => a # NoReceipt
    /\ m.state # "conflict" /\ a.status # "conflict"

EntryOK(i, m, rid, a, told) ==
    /\ m.op = "create" => CreateOK(i, m, rid, a)
    /\ m.op # "create" /\ m.base # 0 => rid # None /\ <<rid, m.base>> \in told
    /\ m.op # "create" /\ m.base = 0 => a = NoReceipt
    /\ m.state = "pending" => a = NoReceipt
    /\ m.state # "acked" => m.ack = 0
    /\ m.ack # 0 => a = Acked(rid, m.ack)
    /\ a.status = "acked" /\ rid # None => a.rid = rid
    /\ m.state \in Refusals
         => /\ a.status # "acked"
            /\ a # NoReceipt \/ (m.op # "create" /\ m.base = 0)

EntryInv ==
    \A k \in RowIds : \A i \in DOMAIN outbox[k] :
        EntryOK(i, outbox[k][i], row[k].remoteId, receipt[outbox[k][i].id], seen)

(* Mutation ids are UUIDs.                                                 *)
UniqueIds ==
    /\ 1 <= nextId /\ nextId <= MaxMutations + 1
    /\ \A k \in RowIds : \A i \in DOMAIN outbox[k] :
          outbox[k][i].id \in Ids /\ outbox[k][i].id < nextId
    /\ \A k, l \in RowIds : \A i \in DOMAIN outbox[k], j \in DOMAIN outbox[l] :
          outbox[k][i].id = outbox[l][j].id => k = l /\ i = j

(* A row has a revision only together with a remote id, and the desktop    *)
(* was told of it.                                                         *)
RowInv ==
    \A k \in RowIds :
        row[k].rev # 0
          => row[k].remoteId # None /\ <<row[k].remoteId, row[k].rev>> \in seen

(* A request and its mutation, as long as the outbox still holds it.       *)
Matching(r, k, m, rid) ==
    /\ r.key = k /\ r.op = m.op /\ r.base = m.base
    /\ m.state # "pending"
    /\ r.remote # None => rid = r.remote

RequestOK(r) ==
    /\ r \in Requests /\ r.id < nextId
    /\ r.op = "create" => r.base = 0 /\ r.remote = None
    /\ r.op # "create" /\ r.base # 0
         => r.remote # None /\ <<r.remote, r.base>> \in seen
    /\ \A k \in RowIds : \A i \in DOMAIN outbox[k] :
          outbox[k][i].id = r.id => Matching(r, k, outbox[k][i], row[k].remoteId)

RequestInv == \A r \in Reqs : RequestOK(r)

(* Mutation m of skill k has been claimed and not been settled.            *)
Claimed(k, m) ==
    k \in RowIds /\ \E i \in DOMAIN outbox[k] :
        outbox[k][i].id = m /\ outbox[k][i].state = "in_flight"

(* What Held says of a thread in state w.                                  *)
HeldBy(w) == {p[2] : p \in w.batch}
               \cup (IF w.pc \in {"sent", "replied"} THEN {w.req.id} ELSE {})

ThreadOK(w) ==
    /\ \A p \in w.batch : Claimed(p[1], p[2])
    /\ w.pc \in {"sent", "replied"} =>
         /\ w.req \in Requests
         /\ Claimed(w.req.key, w.req.id)
         /\ \A p \in w.batch : p[2] # w.req.id
    /\ w.pc = "replied" =>
         /\ w.resp.status # "none"
         /\ w.resp.status \in Definitive => w.resp = receipt[w.req.id]
         /\ w.resp.status = "http_request_error" => ~WellFormed(w.req)
    /\ w.pc = "page" =>
         /\ w.page \in Pages
         /\ w.page.change.op # "none" => w.page.change.rid \in ServerIds
         /\ w.page.change.op = "upsert" => w.page.change.pkg \in Hashes

ThreadInv ==
    /\ thread \in [Threads -> ThreadStates]
    /\ \A t \in Threads : ThreadOK(thread[t])
    /\ \A t, u \in Threads :
          t # u => HeldBy(thread[t]) \cap HeldBy(thread[u]) = {}

SyncInv ==
    /\ StoreInv
    /\ ServerInv
    /\ ReceiptInv
    /\ AppliedInv
    /\ EntryInv
    /\ UniqueIds
    /\ RowInv
    /\ RequestInv
    /\ ThreadInv

-----------------------------------------------------------------------------
(* Mutation n is mutation m with another state: never put back to pending. *)
SameMutation(m, n) ==
    /\ n.id = m.id /\ n.op = m.op /\ n.base = m.base /\ n.payload = m.payload
    /\ n.state = "pending" => m.state = "pending"

(* Mutation i of skill k was there before the step, and its row stays the  *)
(* mirror of the same server skill.                                        *)
Old(k, i) ==
    /\ i \in DOMAIN outbox[k]
    /\ SameMutation(outbox[k][i], outbox'[k][i])
    /\ row[k].remoteId # None => row'[k].remoteId = row[k].remoteId

(* Whatever was claimed stays so, the mutations of M excepted.             *)
ClaimsKept(M) ==
    \A k \in RowIds : \A i \in DOMAIN outbox[k] :
        outbox[k][i].state = "in_flight" /\ outbox[k][i].id \notin M
          => /\ i \in DOMAIN outbox'[k]
             /\ outbox'[k][i].id = outbox[k][i].id
             /\ outbox'[k][i].state = "in_flight"

ReceiptsKept ==
    \A m \in Ids : receipt[m] # NoReceipt => receipt'[m] = receipt[m]

(* Initially there is nothing that could go wrong.                         *)
LEMMA SyncInitHolds == SyncInit => SyncInv
<1> SUFFICES ASSUME SyncInit PROVE SyncInv
  OBVIOUS
<1>1. StoreInv
  BY InitHolds DEF SyncInit
<1>2. /\ \A k \in RowIds : outbox[k] = <<>> /\ row[k] = NoRow
      /\ nextId = 1 /\ late = {} /\ MaxMutations \in Nat
      /\ \A t \in Threads : thread[t] = Idle
      /\ thread = [t \in Threads |-> Idle]
  BY TypesAssumption DEF SyncInit, StoreInit
<1>3. /\ Idle.pc = "idle" /\ Idle.batch = {}
      /\ Idle \in ThreadStates
  <2>1. NoReceipt \in Responses
    BY DEF NoReceipt, Refused, Response, Responses, Statuses
  <2> DEFINE none == <<>>
  <2>2. Idle = [pc |-> "idle", batch |-> {}, req |-> none, resp |-> NoReceipt,
                page |-> none]
    BY DEF Idle
  <2>3. none = <<>>
    OBVIOUS
  <2> HIDE DEF none
  <2>4. "idle" \in PCs
    BY DEF PCs
  <2> QED
    BY <2>1, <2>2, <2>3, <2>4 DEF ThreadStates
<1>4. /\ skill = [s \in ServerIds |-> NoSkill]
      /\ receipt = [m \in Ids |-> NoReceipt]
      /\ log = <<>> /\ rest = 0
      /\ applied = [m \in Ids |-> 0]
  BY DEF SyncInit, ServerInit, Ids
<1>5. NoReceipt \in Responses /\ NoReceipt.status = "none"
  BY DEF NoReceipt, Refused, Response, Responses, Statuses
<1>6. ServerInv
  <2>1. NoSkill \in Skills /\ NoSkill.status = "absent"
    BY DEF NoSkill, Skills, SkillStatus
  <2>2. \A x \in ServerIds : skill[x] = NoSkill
    BY <1>4
  <2>3. skill \in [ServerIds -> Skills]
    BY <1>4, <2>1
  <2> QED
    BY <1>4, <1>5, <2>1, <2>2, <2>3 DEF ServerInv, InTable
<1>7. ReceiptInv /\ AppliedInv
  BY <1>4, <1>5 DEF ReceiptInv, AppliedInv
<1>8. EntryInv /\ UniqueIds
  BY <1>2 DEF EntryInv, UniqueIds
<1>9. RowInv
  BY <1>2 DEF RowInv, NoRow
<1>10. RequestInv
  BY <1>2, <1>3 DEF RequestInv, Reqs, Sending
<1>11. ThreadInv
  <2>1. \A t \in Threads : ThreadOK(thread[t]) /\ HeldBy(thread[t]) = {}
    BY <1>2, <1>3 DEF ThreadOK, HeldBy
  <2> QED
    BY <1>2, <1>3, <2>1 DEF ThreadInv
<1> QED
  BY <1>1, <1>6, <1>7, <1>8, <1>9, <1>10, <1>11 DEF SyncInv

-----------------------------------------------------------------------------
(* How the store's methods change the chains.                              *)

(* A mutation is found by its id.                                          *)
LEMMA FoundById ==
    ASSUME UniqueIds, NEW k \in RowIds, NEW i \in DOMAIN outbox[k]
    PROVE  IndexOf(k, outbox[k][i].id) = i
BY DEF UniqueIds, IndexOf

LEMMA SameId ==
    ASSUME UniqueIds, NEW k \in RowIds, NEW i \in DOMAIN outbox[k],
           NEW l \in RowIds, NEW j \in DOMAIN outbox[l],
           outbox[k][i].id = outbox[l][j].id
    PROVE  k = l /\ i = j
BY DEF UniqueIds

(* Moving entries changes their state and nothing else.                    *)
LEMMA MovedEntries ==
    ASSUME StoreInv, NEW entries, NEW st, outbox' = Moved(entries, st)
    PROVE  \A k \in RowIds :
              /\ DOMAIN outbox'[k] = DOMAIN outbox[k]
              /\ \A i \in DOMAIN outbox[k] :
                    /\ outbox'[k][i].id = outbox[k][i].id
                    /\ outbox'[k][i].op = outbox[k][i].op
                    /\ outbox'[k][i].base = outbox[k][i].base
                    /\ outbox'[k][i].payload = outbox[k][i].payload
                    /\ outbox'[k][i].ack = outbox[k][i].ack
                    /\ <<k, i>> \in entries => outbox'[k][i].state = st
                    /\ <<k, i>> \notin entries => outbox'[k][i] = outbox[k][i]
<1> SUFFICES ASSUME NEW k \in RowIds
             PROVE  /\ DOMAIN outbox'[k] = DOMAIN outbox[k]
                    /\ \A i \in DOMAIN outbox[k] :
                          /\ outbox'[k][i].id = outbox[k][i].id
                          /\ outbox'[k][i].op = outbox[k][i].op
                          /\ outbox'[k][i].base = outbox[k][i].base
                          /\ outbox'[k][i].payload = outbox[k][i].payload
                          /\ outbox'[k][i].ack = outbox[k][i].ack
                          /\ <<k, i>> \in entries => outbox'[k][i].state = st
                          /\ <<k, i>> \notin entries => outbox'[k][i] = outbox[k][i]
  OBVIOUS
<1>1. outbox[k] \in Seq(Mutations)
  BY DEF StoreInv, StoreTypeOK
<1>2. \A i \in DOMAIN outbox[k] : outbox[k][i] \in Mutations
  BY <1>1
<1>3. outbox'[k] = [i \in DOMAIN outbox[k] |->
            IF <<k, i>> \in entries THEN [outbox[k][i] EXCEPT !.state = st]
                                    ELSE outbox[k][i]]
  BY DEF Moved
<1>4. ASSUME NEW i \in DOMAIN outbox[k], <<k, i>> \in entries
      PROVE  /\ outbox'[k][i].id = outbox[k][i].id
             /\ outbox'[k][i].op = outbox[k][i].op
             /\ outbox'[k][i].base = outbox[k][i].base
             /\ outbox'[k][i].payload = outbox[k][i].payload
             /\ outbox'[k][i].ack = outbox[k][i].ack
             /\ outbox'[k][i].state = st
  <2>1. outbox'[k][i] = [outbox[k][i] EXCEPT !.state = st]
    BY <1>3, <1>4
  <2>2. outbox[k][i] \in Mutations
    BY <1>2
  <2> QED
    BY <2>1, <2>2 DEF Mutations
<1>5. ASSUME NEW i \in DOMAIN outbox[k], <<k, i>> \notin entries
      PROVE  outbox'[k][i] = outbox[k][i]
  BY <1>3, <1>5
<1> QED
  BY <1>3, <1>4, <1>5

(* Recording the outcome of one mutation leaves the others alone.          *)
LEMMA OutcomeEntries ==
    ASSUME StoreInv, NEW k \in RowIds, NEW i \in DOMAIN outbox[k],
           NEW m, outbox' = [outbox EXCEPT ![k][i] = m]
    PROVE  /\ \A l \in RowIds \ {k} : outbox'[l] = outbox[l]
           /\ DOMAIN outbox'[k] = DOMAIN outbox[k]
           /\ outbox'[k][i] = m
           /\ \A j \in DOMAIN outbox[k] \ {i} : outbox'[k][j] = outbox[k][j]
<1>1. outbox \in [RowIds -> Seq(Mutations)] /\ outbox[k] \in Seq(Mutations)
  BY DEF StoreInv, StoreTypeOK
<1>2. outbox'[k] = [outbox[k] EXCEPT ![i] = m]
  BY <1>1
<1>3. DOMAIN outbox'[k] = DOMAIN outbox[k]
  BY <1>2
<1> QED
  BY <1>1, <1>2, <1>3

(* A transport error and the end of its backoff as outcomes.               *)
LEMMA RetryEntries ==
    ASSUME StoreInv, NEW k \in RowIds, NEW i \in DOMAIN outbox[k],
           ApplyTransportError(k, i) \/ BackoffElapses(k, i)
    PROVE  /\ row' = row /\ cursor' = cursor /\ nextId' = nextId
           /\ \A l \in RowIds \ {k} : outbox'[l] = outbox[l]
           /\ DOMAIN outbox'[k] = DOMAIN outbox[k]
           /\ SameMutation(outbox[k][i], outbox'[k][i])
           /\ outbox'[k][i].ack = outbox[k][i].ack
           /\ outbox'[k][i].state \in {"retry_later", "retryable_error"}
           /\ outbox[k][i].state # "acked"
           /\ \A j \in DOMAIN outbox[k] \ {i} : outbox'[k][j] = outbox[k][j]
<1>1. PICK st \in {"retry_later", "retryable_error"} :
         outbox' = [outbox EXCEPT ![k][i].state = st]
  BY DEF ApplyTransportError, BackoffElapses
<1>2. PICK m : m = [outbox[k][i] EXCEPT !.state = st]
  OBVIOUS
<1>3. outbox' = [outbox EXCEPT ![k][i] = m]
  BY <1>1, <1>2
<1>4. outbox[k][i] \in Mutations
  BY DEF StoreInv, StoreTypeOK
<1>5. /\ m.id = outbox[k][i].id /\ m.op = outbox[k][i].op
      /\ m.base = outbox[k][i].base /\ m.payload = outbox[k][i].payload
      /\ m.ack = outbox[k][i].ack /\ m.state = st
  BY <1>2, <1>4 DEF Mutations
<1>6. /\ \A l \in RowIds \ {k} : outbox'[l] = outbox[l]
      /\ DOMAIN outbox'[k] = DOMAIN outbox[k]
      /\ outbox'[k][i] = m
      /\ \A j \in DOMAIN outbox[k] \ {i} : outbox'[k][j] = outbox[k][j]
  BY <1>3, OutcomeEntries
<1> QED
  BY <1>5, <1>6 DEF SameMutation, ApplyTransportError, BackoffElapses

(* Superseding turns conflicts into acks and changes nothing else.         *)
LEMMA SupersededEntries ==
    ASSUME StoreInv, NEW k \in RowIds
    PROVE  /\ DOMAIN Superseded(k) = DOMAIN outbox[k]
           /\ \A i \in DOMAIN outbox[k] :
                 /\ SameMutation(outbox[k][i], Superseded(k)[i])
                 /\ Superseded(k)[i].ack = outbox[k][i].ack
                 /\ Superseded(k)[i].state = outbox[k][i].state
                      \/ (/\ outbox[k][i].state = "conflict"
                          /\ Superseded(k)[i].state = "acked")
<1>1. \A i \in DOMAIN outbox[k] : outbox[k][i] \in Mutations
  BY DEF StoreInv, StoreTypeOK
<1>2. ASSUME NEW i \in DOMAIN outbox[k], outbox[k][i].state = "conflict"
      PROVE  /\ SameMutation(outbox[k][i], Superseded(k)[i])
             /\ Superseded(k)[i].ack = outbox[k][i].ack
             /\ Superseded(k)[i].state = "acked"
  <2>1. Superseded(k)[i] = [outbox[k][i] EXCEPT !.state = "acked"]
    BY <1>2 DEF Superseded
  <2>2. outbox[k][i] \in Mutations
    BY <1>1
  <2> QED
    BY <2>1, <2>2 DEF Mutations, SameMutation
<1>3. ASSUME NEW i \in DOMAIN outbox[k], outbox[k][i].state # "conflict"
      PROVE  Superseded(k)[i] = outbox[k][i]
  BY <1>3 DEF Superseded
<1> QED
  BY <1>2, <1>3 DEF Superseded, SameMutation
-----------------------------------------------------------------------------
(* What a step of the desktop leaves alone.                                *)

(* Learning more never hurts.                                              *)
LEMMA EntryTold ==
    ASSUME NEW i, NEW m, NEW rid, NEW a, NEW S, NEW T,
           EntryOK(i, m, rid, a, S), S \subseteq T
    PROVE  EntryOK(i, m, rid, a, T)
BY DEF EntryOK

(* A step that does not touch the server and adds at most one mutation,    *)
(* with a fresh id, keeps what does not depend on its details.             *)
LEMMA TracedParts ==
    ASSUME SyncInv, UNCHANGED serverVars, applied' = applied,
           nextId' \in Nat, nextId <= nextId', nextId' <= MaxMutations + 1,
           seen \subseteq seen', Reqs' \subseteq Reqs, NEW l, NEW n,
           \A k \in RowIds : \A i \in DOMAIN outbox'[k] :
              \/ Old(k, i)
              \/ /\ k = l /\ i = n
                 /\ outbox'[k][i].id = nextId /\ nextId < nextId'
    PROVE  /\ ServerInv' /\ ReceiptInv' /\ AppliedInv'
           /\ UniqueIds' /\ RequestInv'
<1>1. nextId \in Nat /\ MaxMutations \in Nat /\ Ids \subseteq Nat
  BY TypesAssumption DEF SyncInv, StoreInv, StoreTypeOK, Ids
<1>2. ServerInv' /\ AppliedInv'
  BY DEF SyncInv, ServerInv, AppliedInv, serverVars, InTable
<1>3. ReceiptInv'
  BY <1>1 DEF SyncInv, ReceiptInv, serverVars
<1>4. UniqueIds'
  <2>1. \A k \in RowIds : \A i \in DOMAIN outbox'[k] :
           outbox'[k][i].id \in Ids /\ outbox'[k][i].id < nextId'
    <3> SUFFICES ASSUME NEW k \in RowIds, NEW i \in DOMAIN outbox'[k]
                 PROVE  outbox'[k][i].id \in Ids /\ outbox'[k][i].id < nextId'
      OBVIOUS
    <3>1. CASE Old(k, i)
      <4>1. outbox'[k][i].id = outbox[k][i].id /\ i \in DOMAIN outbox[k]
        BY <3>1 DEF Old, SameMutation
      <4>2. outbox[k][i].id \in Ids /\ outbox[k][i].id < nextId
        BY <4>1 DEF SyncInv, UniqueIds
      <4>3. PICK x \in Nat : x = outbox[k][i].id
        BY <1>1, <4>2
      <4>4. x < nextId'
        BY <1>1, <4>2, <4>3
      <4> QED
        BY <4>1, <4>2, <4>3, <4>4
    <3>2. CASE outbox'[k][i].id = nextId /\ nextId < nextId'
      <4>1. nextId >= 1
        BY DEF SyncInv, UniqueIds
      <4> QED
        BY <1>1, <3>2, <4>1 DEF Ids
    <3> QED
      BY <3>1, <3>2
  <2>2. ASSUME NEW k \in RowIds, NEW j \in RowIds,
               NEW i \in DOMAIN outbox'[k], NEW h \in DOMAIN outbox'[j],
               outbox'[k][i].id = outbox'[j][h].id
        PROVE  k = j /\ i = h
    <3>0. /\ Old(k, i) => /\ i \in DOMAIN outbox[k]
                          /\ outbox'[k][i].id = outbox[k][i].id
                          /\ outbox[k][i].id \in Nat /\ outbox[k][i].id < nextId
          /\ Old(j, h) => /\ h \in DOMAIN outbox[j]
                          /\ outbox'[j][h].id = outbox[j][h].id
                          /\ outbox[j][h].id \in Nat /\ outbox[j][h].id < nextId
      BY <1>1 DEF Old, SameMutation, SyncInv, UniqueIds
    <3>1. CASE Old(k, i) /\ Old(j, h)
      BY <2>2, <3>0, <3>1 DEF SyncInv, UniqueIds
    <3>2. CASE ~Old(k, i) /\ ~Old(j, h)
      BY <3>2
    <3>3. CASE Old(k, i) /\ ~Old(j, h)
      BY <1>1, <2>2, <3>0, <3>3
    <3>4. CASE ~Old(k, i) /\ Old(j, h)
      BY <1>1, <2>2, <3>0, <3>4
    <3> QED
      BY <3>1, <3>2, <3>3, <3>4
  <2> QED
    <3>1. 1 <= nextId'
      BY <1>1 DEF SyncInv, UniqueIds
    <3> QED
      BY <2>1, <2>2, <3>1 DEF UniqueIds
<1>5. RequestInv'
  <2> SUFFICES ASSUME NEW r \in Reqs
               PROVE  RequestOK(r)'
    BY DEF RequestInv
  <2>1. RequestOK(r) /\ r.id \in Nat
    BY <1>1 DEF SyncInv, RequestInv, RequestOK, Requests
  <2>2. \A k \in RowIds : \A i \in DOMAIN outbox'[k] :
           outbox'[k][i].id = r.id
             => Matching(r, k, outbox'[k][i], row'[k].remoteId)
    <3> SUFFICES ASSUME NEW k \in RowIds, NEW i \in DOMAIN outbox'[k],
                        outbox'[k][i].id = r.id
                 PROVE  Matching(r, k, outbox'[k][i], row'[k].remoteId)
      OBVIOUS
    <3>1. Old(k, i)
      BY <1>1, <2>1 DEF RequestOK
    <3>2. Matching(r, k, outbox[k][i], row[k].remoteId)
      BY <2>1, <3>1 DEF Old, SameMutation, RequestOK
    <3>3. r.remote # None => row[k].remoteId # None
      BY <3>2 DEF Matching
    <3> QED
      BY <3>1, <3>2, <3>3 DEF Old, SameMutation, Matching
  <2> QED
    BY <1>1, <2>1, <2>2 DEF RequestOK
<1> QED
  BY <1>2, <1>3, <1>4, <1>5

(* A thread that works on nothing the step unclaims can go on.             *)
LEMMA ThreadOKKept ==
    ASSUME NEW w \in ThreadStates, ThreadOK(w), ReceiptsKept, NEW M,
           ClaimsKept(M), HeldBy(w) \cap M = {}
    PROVE  ThreadOK(w)'
<1>1. ASSUME NEW k, NEW m, Claimed(k, m), m \notin M
      PROVE  Claimed(k, m)'
  BY <1>1 DEF Claimed, ClaimsKept
<1>2. \A p \in w.batch : Claimed(p[1], p[2])'
  BY <1>1 DEF ThreadOK, HeldBy
<1>3. w.pc \in {"sent", "replied"} => Claimed(w.req.key, w.req.id)'
  BY <1>1 DEF ThreadOK, HeldBy
<1>4. w.pc = "replied" /\ w.resp.status \in Definitive
         => w.resp = receipt'[w.req.id]
  <2>1. NoReceipt.status \notin Definitive
    BY DEF NoReceipt, Refused, Response, Definitive
  <2> QED
    BY <2>1 DEF ThreadOK, ReceiptsKept, Requests
<1> QED
  BY <1>2, <1>3, <1>4 DEF ThreadOK

(* A step of thread t that unclaims nothing but its own.                   *)
LEMMA ThreadStep ==
    ASSUME ThreadInv, ReceiptsKept, NEW t \in Threads, NEW w \in ThreadStates,
           thread' = [thread EXCEPT ![t] = w],
           NEW M, M \subseteq HeldBy(thread[t]), ClaimsKept(M), ThreadOK(w)',
           \A u \in Threads \ {t} : HeldBy(w) \cap HeldBy(thread[u]) = {}
    PROVE  ThreadInv'
<1>1. /\ thread' \in [Threads -> ThreadStates]
      /\ thread'[t] = w
      /\ \A u \in Threads \ {t} : thread'[u] = thread[u]
  BY DEF ThreadInv
<1>2. ASSUME NEW u \in Threads
      PROVE  ThreadOK(thread[u])'
  <2>1. CASE u = t
    BY <1>1, <2>1 DEF ThreadOK
  <2>2. CASE u # t
    <3>1. PICK v \in ThreadStates : v = thread[u]
      BY DEF ThreadInv
    <3>2. HeldBy(v) \cap M = {}
      BY <2>2, <3>1 DEF ThreadInv
    <3>3. ThreadOK(v)
      BY <3>1 DEF ThreadInv
    <3>4. ThreadOK(v)'
      BY <3>2, <3>3, ThreadOKKept
    <3>5. thread'[u] = v
      BY <1>1, <2>2, <3>1
    <3> QED
      BY <3>4, <3>5 DEF ThreadOK
  <2> QED
    BY <2>1, <2>2
<1>3. \A u, v \in Threads :
         u # v => HeldBy(thread'[u]) \cap HeldBy(thread'[v]) = {}
  BY <1>1 DEF ThreadInv
<1> QED
  BY <1>1, <1>2, <1>3 DEF ThreadInv

(* A step that unclaims nothing and moves no thread.                       *)
LEMMA ThreadsKept ==
    ASSUME ThreadInv, ReceiptsKept, thread' = thread, ClaimsKept({})
    PROVE  ThreadInv'
<1>1. ASSUME NEW u \in Threads
      PROVE  ThreadOK(thread[u])'
  <2>1. PICK v \in ThreadStates : v = thread[u]
    BY DEF ThreadInv
  <2>2. ThreadOK(v)
    BY <2>1 DEF ThreadInv
  <2>3. ThreadOK(v)'
    BY <2>2, ThreadOKKept
  <2> QED
    BY <2>1, <2>3 DEF ThreadOK
<1> QED
  BY <1>1 DEF ThreadInv

(* What At builds.                                                         *)
LEMMA AtState ==
    /\ Idle \in ThreadStates /\ Idle.pc = "idle" /\ Idle.batch = {}
    /\ \A pc \in PCs, batch \in SUBSET (RowIds \X Ids) :
          /\ At(pc, batch) \in ThreadStates
          /\ At(pc, batch).pc = pc /\ At(pc, batch).batch = batch
          /\ pc \notin {"sent", "replied"}
               => HeldBy(At(pc, batch)) = {p[2] : p \in batch}
<1>1. NoReceipt \in Responses /\ "idle" \in PCs
  BY DEF NoReceipt, Refused, Response, Responses, Statuses, PCs
<1> DEFINE none == <<>>
<1>2. Idle = [pc |-> "idle", batch |-> {}, req |-> none, resp |-> NoReceipt,
              page |-> none]
  BY DEF Idle
<1>3. none = <<>>
  OBVIOUS
<1> HIDE DEF none
<1>4. Idle \in ThreadStates
  BY <1>1, <1>2, <1>3 DEF ThreadStates
<1>5. ASSUME NEW pc \in PCs, NEW batch \in SUBSET (RowIds \X Ids)
      PROVE  /\ At(pc, batch) \in ThreadStates
             /\ At(pc, batch).pc = pc /\ At(pc, batch).batch = batch
  <2>1. At(pc, batch) = [Idle EXCEPT !.pc = pc, !.batch = batch]
    BY DEF At
  <2>2. PICK r \in ThreadStates : r = Idle
    BY <1>4
  <2>3. At(pc, batch) = [r EXCEPT !.pc = pc, !.batch = batch]
    BY <2>1, <2>2
  <2> QED
    BY <2>3 DEF ThreadStates
<1>6. ASSUME NEW pc \in PCs, NEW batch \in SUBSET (RowIds \X Ids),
             pc \notin {"sent", "replied"}
      PROVE  HeldBy(At(pc, batch)) = {p[2] : p \in batch}
  BY <1>5, <1>6 DEF HeldBy
<1> QED
  BY <1>2, <1>4, <1>5, <1>6

(* The continuation of a cycle after an answer or a failure.               *)
LEMMA AfterState ==
    ASSUME NEW batch \in SUBSET (RowIds \X Ids),
           NEW w \in {AfterPush(batch), AfterFailure(batch)}
    PROVE  /\ w \in ThreadStates /\ w.batch = batch
           /\ w.pc \in {"pull", "push", "release"}
           /\ HeldBy(w) = {p[2] : p \in batch}
<1>1. PICK pc \in {"pull", "push", "release"} : w = At(pc, batch)
  BY DEF AfterPush, AfterFailure
<1>2. pc \in PCs
  BY DEF PCs
<1> QED
  BY <1>1, <1>2, AtState

(* The requests in play change only with the step's own thread and late.   *)
LEMMA ReqsAfter ==
    ASSUME SyncInv, NEW t \in Threads, NEW w,
           thread' = [thread EXCEPT ![t] = w],
           w.pc \in {"sent", "replied"} => Sending(t) /\ w.req = thread[t].req,
           late' \subseteq Reqs
    PROVE  Reqs' \subseteq Reqs
<1>1. /\ thread'[t] = w
      /\ \A u \in Threads \ {t} : thread'[u] = thread[u]
  BY DEF SyncInv, ThreadInv
<1>2. ASSUME NEW u \in Threads, Sending(u)'
      PROVE  thread'[u].req \in Reqs
  <2>1. CASE u = t
    BY <1>1, <1>2, <2>1 DEF Sending, Reqs
  <2>2. CASE u # t
    BY <1>1, <1>2, <2>2 DEF Sending, Reqs
  <2> QED
    BY <2>1, <2>2
<1> QED
  BY <1>2 DEF Reqs

(* A mutation that is put in flight or put back for a retry stays right.   *)
LEMMA EntryRestated ==
    ASSUME NEW i, NEW m, NEW n, NEW rid, NEW a, NEW S,
           EntryOK(i, m, rid, a, S),
           n.op = m.op, n.base = m.base, n.ack = m.ack, m.state # "acked",
           n.state \in {"in_flight", "retryable_error", "retry_later"}
    PROVE  EntryOK(i, n, rid, a, S)
BY DEF EntryOK, CreateOK, Refusals

(* Dispatch actions: only states change, and none of them to a settled one *)
LEMMA MovedParts ==
    ASSUME SyncInv, UNCHANGED <<row, nextId, receipt, seen>>, NEW entries,
           NEW st \in {"in_flight", "retryable_error"},
           \A p \in entries : StateOf(p) # "acked",
           outbox' = Moved(entries, st)
    PROVE  /\ EntryInv' /\ RowInv'
           /\ \A k \in RowIds : \A i \in DOMAIN outbox'[k] : Old(k, i)
<1>0. StoreInv
  BY DEF SyncInv
<1>1. \A k \in RowIds :
         /\ DOMAIN outbox'[k] = DOMAIN outbox[k]
         /\ \A i \in DOMAIN outbox[k] :
               /\ outbox'[k][i].id = outbox[k][i].id
               /\ outbox'[k][i].op = outbox[k][i].op
               /\ outbox'[k][i].base = outbox[k][i].base
               /\ outbox'[k][i].payload = outbox[k][i].payload
               /\ outbox'[k][i].ack = outbox[k][i].ack
               /\ <<k, i>> \in entries => outbox'[k][i].state = st
               /\ <<k, i>> \notin entries => outbox'[k][i] = outbox[k][i]
  BY <1>0, MovedEntries
<1>2. ASSUME NEW k \in RowIds, NEW i \in DOMAIN outbox'[k]
      PROVE  /\ EntryOK(i, outbox'[k][i], row'[k].remoteId,
                        receipt'[outbox'[k][i].id], seen')
             /\ Old(k, i)
  <2>1. EntryOK(i, outbox[k][i], row[k].remoteId, receipt[outbox[k][i].id], seen)
    BY <1>1 DEF SyncInv, EntryInv
  <2>2. CASE <<k, i>> \in entries
    <3>1. outbox[k][i].state # "acked" /\ outbox'[k][i].state = st
      BY <1>1, <2>2 DEF StateOf
    <3>2. EntryOK(i, outbox'[k][i], row[k].remoteId, receipt[outbox[k][i].id], seen)
      <4>1. /\ outbox'[k][i].op = outbox[k][i].op
            /\ outbox'[k][i].base = outbox[k][i].base
            /\ outbox'[k][i].ack = outbox[k][i].ack
        BY <1>1
      <4> QED
        BY <2>1, <3>1, <4>1, EntryRestated
    <3>3. outbox'[k][i].id = outbox[k][i].id
      BY <1>1
    <3>4. Old(k, i)
      BY <1>1, <3>1 DEF Old, SameMutation
    <3> QED
      BY <3>2, <3>3, <3>4
  <2>3. CASE <<k, i>> \notin entries
    BY <1>1, <2>1, <2>3 DEF Old, SameMutation
  <2> QED
    BY <2>2, <2>3
<1>3. EntryInv'
  BY <1>2 DEF EntryInv
<1>4. RowInv'
  BY DEF SyncInv, RowInv
<1> QED
  BY <1>2, <1>3, <1>4

-----------------------------------------------------------------------------
(* Cycles: claiming, sending, failing, releasing.                          *)

(* Moving entries keeps what is claimed, if it moves nothing out of flight *)
(* but the mutations of M.                                                 *)
LEMMA MovedClaims ==
    ASSUME StoreInv, NEW entries, NEW st, outbox' = Moved(entries, st), NEW M,
           \A p \in entries : \/ st = "in_flight"
                              \/ outbox[p[1]][p[2]].id \in M
    PROVE  ClaimsKept(M)
<1>1. \A k \in RowIds :
         /\ DOMAIN outbox'[k] = DOMAIN outbox[k]
         /\ \A i \in DOMAIN outbox[k] :
               /\ outbox'[k][i].id = outbox[k][i].id
               /\ <<k, i>> \in entries => outbox'[k][i].state = st
               /\ <<k, i>> \notin entries => outbox'[k][i] = outbox[k][i]
  BY MovedEntries
<1> SUFFICES ASSUME NEW k \in RowIds, NEW i \in DOMAIN outbox[k],
                    outbox[k][i].state = "in_flight", outbox[k][i].id \notin M
             PROVE  /\ i \in DOMAIN outbox'[k]
                    /\ outbox'[k][i].id = outbox[k][i].id
                    /\ outbox'[k][i].state = "in_flight"
  BY DEF ClaimsKept
<1>2. CASE <<k, i>> \in entries
  <2>1. st = "in_flight"
    BY <1>2
  <2> QED
    BY <1>1, <1>2, <2>1
<1>3. CASE <<k, i>> \notin entries
  BY <1>1, <1>3
<1> QED
  BY <1>2, <1>3

(* An entry of the outbox, by its pair.                                    *)
LEMMA EntryPair ==
    ASSUME NEW p \in Entries
    PROVE  p[1] \in RowIds /\ p[2] \in DOMAIN outbox[p[1]] /\ p = <<p[1], p[2]>>
BY DEF Entries

(* run_cycle claims what nobody works on.                                  *)
LEMMA StartCycleSafe ==
    ASSUME SyncInv, NEW t \in Threads, StartCycle(t)
    PROVE  SyncInv' /\ KeepsWork
<1>1. PICK batch \in SUBSET Dispatchable :
         /\ ClaimDispatchable(batch)
         /\ thread' = [thread EXCEPT ![t] =
              AfterPush({<<p[1], outbox[p[1]][p[2]].id>> : p \in batch})]
  BY DEF StartCycle
<1>2. StoreInv' /\ KeepsWork
  BY <1>1, ClaimSafe DEF SyncInv
<1>3. /\ outbox' = Moved(batch, "in_flight") /\ UNCHANGED <<row, cursor, nextId>>
      /\ UNCHANGED serverVars /\ late' = late /\ applied' = applied /\ seen' = seen
      /\ batch \subseteq Dispatchable
  BY <1>1 DEF StartCycle, ClaimDispatchable
<1>4. \A p \in batch :
         /\ p[1] \in RowIds /\ p[2] \in DOMAIN outbox[p[1]] /\ p = <<p[1], p[2]>>
         /\ outbox[p[1]][p[2]].state \in {"pending", "retryable_error"}
         /\ outbox[p[1]][p[2]].id \in Ids
  BY EntryPair DEF Dispatchable, StateOf, SyncInv, UniqueIds
<1>5. EntryInv' /\ RowInv' /\ \A k \in RowIds : \A i \in DOMAIN outbox'[k] : Old(k, i)
  <2>1. \A p \in batch : StateOf(p) # "acked"
    BY <1>4 DEF StateOf
  <2>2. UNCHANGED <<row, nextId, receipt, seen>>
    BY <1>3 DEF serverVars
  <2> QED
    BY <1>3, <2>1, <2>2, MovedParts
<1> DEFINE P == {<<p[1], outbox[p[1]][p[2]].id>> : p \in batch}
<1>6. PICK Q \in SUBSET (RowIds \X Ids) : Q = P
  <2>1. \A p \in batch : <<p[1], outbox[p[1]][p[2]].id>> \in RowIds \X Ids
    BY <1>4
  <2>2. P \subseteq RowIds \X Ids
    BY <2>1
  <2> QED
    BY <2>2
<1>7. PICK w : w = AfterPush(Q)
  OBVIOUS
<1>8. /\ w \in ThreadStates /\ w.batch = Q
      /\ w.pc \in {"pull", "push", "release"}
      /\ HeldBy(w) = {p[2] : p \in Q}
  BY <1>7, AfterState
<1>9. thread' = [thread EXCEPT ![t] = w]
  BY <1>1, <1>6, <1>7
<1>10. ThreadOK(w)'
  <2>1. ASSUME NEW q \in Q
        PROVE  Claimed(q[1], q[2])'
    <3>1. PICK p \in batch : q = <<p[1], outbox[p[1]][p[2]].id>>
      BY <1>6
    <3>2. PICK k, i : k \in RowIds /\ i \in DOMAIN outbox[k] /\ p = <<k, i>>
      BY <1>4
    <3>3. /\ i \in DOMAIN outbox'[k] /\ outbox'[k][i].id = outbox[k][i].id
          /\ outbox'[k][i].state = "in_flight"
      BY <1>3, <3>2, MovedEntries DEF SyncInv
    <3>4. q[1] = k /\ q[2] = outbox[k][i].id
      BY <3>1, <3>2
    <3> QED
      BY <3>3, <3>4 DEF Claimed
  <2> QED
    BY <1>8, <2>1 DEF ThreadOK
<1>11. \A u \in Threads \ {t} : HeldBy(w) \cap HeldBy(thread[u]) = {}
  <2> SUFFICES ASSUME NEW u \in Threads, NEW q \in Q, q[2] \in HeldBy(thread[u])
               PROVE  FALSE
    BY <1>8
  <2>1. PICK p \in batch : q = <<p[1], outbox[p[1]][p[2]].id>>
    BY <1>6
  <2>2. PICK l : Claimed(l, q[2])
    BY DEF SyncInv, ThreadInv, ThreadOK, HeldBy
  <2>3. PICK k, i : k \in RowIds /\ i \in DOMAIN outbox[k] /\ p = <<k, i>>
    BY <1>4
  <2>4. PICK j \in DOMAIN outbox[l] :
           outbox[l][j].id = q[2] /\ outbox[l][j].state = "in_flight" /\ l \in RowIds
    BY <2>2 DEF Claimed
  <2>5. outbox[l][j].id = outbox[k][i].id
    BY <2>1, <2>3, <2>4
  <2>6. l = k /\ j = i
    <3>1. UniqueIds
      BY DEF SyncInv
    <3> QED
      BY <2>3, <2>4, <2>5, <3>1, SameId
  <2> QED
    BY <1>4, <2>3, <2>4, <2>6
<1>12. ReceiptsKept
  BY <1>3 DEF ReceiptsKept, serverVars
<1>13. ClaimsKept({})
  BY <1>3, MovedClaims DEF SyncInv
<1>14. ThreadInv'
  BY <1>8, <1>9, <1>10, <1>11, <1>12, <1>13, ThreadStep DEF SyncInv
<1>15. Reqs' \subseteq Reqs
  BY <1>3, <1>8, <1>9, ReqsAfter DEF Reqs
<1>16. ServerInv' /\ ReceiptInv' /\ AppliedInv' /\ UniqueIds' /\ RequestInv'
  <2>1. nextId' \in Nat /\ nextId <= nextId' /\ nextId' <= MaxMutations + 1
    BY <1>3 DEF SyncInv, UniqueIds, StoreInv, StoreTypeOK
  <2> QED
    BY <1>3, <1>5, <1>15, <2>1, TracedParts
<1> QED
  BY <1>2, <1>5, <1>14, <1>16 DEF SyncInv

(* A step that only moves thread t keeps everything, if the new state of   *)
(* the thread is right and claims nothing more.                            *)
LEMMA ThreadOnly ==
    ASSUME SyncInv, UNCHANGED <<storeVars, serverVars, applied, seen>>,
           NEW t \in Threads, NEW w \in ThreadStates,
           thread' = [thread EXCEPT ![t] = w], ThreadOK(w),
           HeldBy(w) \subseteq HeldBy(thread[t]), RequestInv'
    PROVE  SyncInv' /\ KeepsWork
<1>1. /\ row' = row /\ outbox' = outbox /\ cursor' = cursor /\ nextId' = nextId
      /\ skill' = skill /\ receipt' = receipt /\ log' = log /\ rest' = rest
      /\ applied' = applied /\ seen' = seen
  BY DEF storeVars, serverVars
<1>2. StoreInv' /\ KeepsWork
  <2>1. cursor' \in Nat
    BY <1>1 DEF SyncInv, StoreInv, StoreTypeOK
  <2> QED
    BY <1>1, <2>1, NothingChangesSafe DEF SyncInv
<1>3. ServerInv' /\ ReceiptInv' /\ AppliedInv'
  BY <1>1 DEF SyncInv, ServerInv, ReceiptInv, AppliedInv, InTable
<1>4. EntryInv' /\ UniqueIds' /\ RowInv'
  BY <1>1 DEF SyncInv, EntryInv, UniqueIds, RowInv
<1>5. ReceiptsKept /\ ClaimsKept({})
  BY <1>1 DEF ReceiptsKept, ClaimsKept
<1>6. ThreadOK(w)'
  BY <1>1 DEF ThreadOK, Claimed
<1>7. \A u \in Threads \ {t} : HeldBy(w) \cap HeldBy(thread[u]) = {}
  BY DEF SyncInv, ThreadInv
<1>8. ThreadInv'
  BY <1>5, <1>6, <1>7, ThreadStep DEF SyncInv
<1> QED
  BY <1>2, <1>3, <1>4, <1>8 DEF SyncInv

(* The requests in play are right as long as no other comes in.            *)
LEMMA RequestsUnmoved ==
    ASSUME SyncInv, UNCHANGED <<storeVars, seen>>, Reqs' \subseteq Reqs
    PROVE  RequestInv'
BY DEF SyncInv, RequestInv, RequestOK, storeVars

(* The mutation that a thread works on, by its place in the outbox.        *)
LEMMA FoundClaim ==
    ASSUME UniqueIds, NEW k, NEW m, Claimed(k, m)
    PROVE  /\ k \in RowIds
           /\ IndexOf(k, m) \in DOMAIN outbox[k]
           /\ outbox[k][IndexOf(k, m)].id = m
           /\ outbox[k][IndexOf(k, m)].state = "in_flight"
<1>1. PICK i \in DOMAIN outbox[k] :
         k \in RowIds /\ outbox[k][i].id = m /\ outbox[k][i].state = "in_flight"
  BY DEF Claimed
<1>2. IndexOf(k, m) = i
  BY <1>1, FoundById
<1> QED
  BY <1>1, <1>2

(* dispatch_mutation sends the claimed mutation with the remote id that    *)
(* its row has by now.                                                     *)
LEMMA SubmitSafe ==
    ASSUME SyncInv, NEW t \in Threads, Submit(t)
    PROVE  SyncInv' /\ KeepsWork
<1>1. PICK p \in thread[t].batch :
         thread' = [thread EXCEPT ![t] =
             [At("sent", @.batch \ {p}) EXCEPT
                !.req = Request(p[1], outbox[p[1]][IndexOf(p[1], p[2])])]]
  BY DEF Submit
<1>2. /\ thread[t].pc = "push"
      /\ UNCHANGED <<storeVars, serverVars, applied, seen>> /\ late' = late
      /\ row' = row /\ outbox' = outbox /\ nextId' = nextId /\ seen' = seen
      /\ UniqueIds
  BY DEF Submit, SyncInv, storeVars
<1>3. PICK v \in ThreadStates : v = thread[t]
  BY DEF SyncInv, ThreadInv
<1>4. ThreadOK(v) /\ v.batch \in SUBSET (RowIds \X Ids) /\ p \in v.batch
  BY <1>1, <1>3 DEF SyncInv, ThreadInv, ThreadStates
<1>5. PICK k, i : k = p[1] /\ i = IndexOf(k, p[2])
  OBVIOUS
<1>6. /\ k \in RowIds /\ i \in DOMAIN outbox[k] /\ outbox[k][i].id = p[2]
      /\ outbox[k][i].state = "in_flight" /\ p = <<k, p[2]>> /\ p[2] \in Ids
  <2>1. Claimed(p[1], p[2])
    BY <1>4 DEF ThreadOK
  <2>2. p = <<p[1], p[2]>> /\ p[2] \in Ids
    BY <1>4
  <2> QED
    BY <1>2, <1>5, <2>1, <2>2, FoundClaim
<1>7. PICK m \in Mutations : m = outbox[k][i]
  BY <1>6 DEF SyncInv, StoreInv, StoreTypeOK
<1>8. PICK rid \in ServerIds \cup {None} : rid = row[k].remoteId
  BY <1>6 DEF SyncInv, StoreInv, StoreTypeOK, Rows
<1>9. PICK r : r = [key |-> k, id |-> m.id, op |-> m.op, base |-> m.base,
                    payload |-> m.payload, remote |-> rid]
  OBVIOUS
<1>10. r = Request(k, m)
  BY <1>8, <1>9 DEF Request
<1>11. r \in Requests /\ r.id = p[2] /\ r.key = k
  BY <1>6, <1>7, <1>9 DEF Requests, Mutations
<1>12. EntryOK(i, m, rid, receipt[m.id], seen)
  BY <1>6, <1>7, <1>8 DEF SyncInv, EntryInv
<1>13. RequestOK(r)
  <2>1. r.op = "create" => r.base = 0 /\ r.remote = None
    BY <1>6, <1>7, <1>9, <1>12 DEF EntryOK, CreateOK
  <2>2. r.op # "create" /\ r.base # 0
          => r.remote # None /\ <<r.remote, r.base>> \in seen
    BY <1>9, <1>12 DEF EntryOK
  <2>3. ASSUME NEW l \in RowIds, NEW j \in DOMAIN outbox[l],
               outbox[l][j].id = r.id
        PROVE  Matching(r, l, outbox[l][j], row[l].remoteId)
    <3>1. l = k /\ j = i
      BY <1>2, <1>6, <1>11, <2>3, SameId
    <3> QED
      BY <1>6, <1>7, <1>8, <1>9, <3>1 DEF Matching
  <2>4. r.id < nextId
    BY <1>2, <1>6, <1>11 DEF UniqueIds
  <2> QED
    BY <1>11, <2>1, <2>2, <2>3, <2>4 DEF RequestOK
<1> DEFINE B == v.batch \ {p}
<1>14. B \in SUBSET (RowIds \X Ids) /\ "sent" \in PCs
  BY <1>4 DEF PCs
<1>15. PICK w : w = [At("sent", B) EXCEPT !.req = r]
  OBVIOUS
<1> HIDE DEF B
<1>16. /\ w \in ThreadStates /\ w.pc = "sent" /\ w.batch = B /\ w.req = r
  <2>1. PICK s \in ThreadStates : s = At("sent", B) /\ s.pc = "sent" /\ s.batch = B
    BY <1>14, AtState
  <2>2. w = [s EXCEPT !.req = r]
    BY <1>15, <2>1
  <2> QED
    BY <1>11, <2>1, <2>2 DEF ThreadStates
<1>17. thread' = [thread EXCEPT ![t] = w]
  BY <1>1, <1>3, <1>5, <1>7, <1>10, <1>15 DEF B
<1>18. \A q \in B : q \in v.batch /\ q[2] # p[2]
  <2> SUFFICES ASSUME NEW q \in B
               PROVE  q \in v.batch /\ q[2] # p[2]
    OBVIOUS
  <2>1. q \in v.batch /\ q # p
    BY DEF B
  <2>2. ASSUME q[2] = p[2]
        PROVE  FALSE
    <3>1. Claimed(q[1], p[2])
      BY <1>4, <2>1, <2>2 DEF ThreadOK
    <3>2. PICK j \in DOMAIN outbox[q[1]] :
             outbox[q[1]][j].id = p[2] /\ q[1] \in RowIds
      BY <3>1 DEF Claimed
    <3>3. q[1] = k
      BY <1>2, <1>6, <3>2, SameId
    <3>4. q = <<q[1], q[2]>>
      BY <1>4, <2>1
    <3> QED
      BY <1>6, <2>1, <2>2, <3>3, <3>4
  <2> QED
    BY <2>1, <2>2
<1>19. ThreadOK(w)
  <2>1. Claimed(r.key, r.id)
    BY <1>6, <1>11 DEF Claimed
  <2>2. \A q \in w.batch : Claimed(q[1], q[2]) /\ q[2] # w.req.id
    BY <1>4, <1>11, <1>16, <1>18 DEF ThreadOK
  <2> QED
    BY <1>11, <1>16, <2>1, <2>2 DEF ThreadOK
<1>20. HeldBy(w) \subseteq HeldBy(thread[t])
  BY <1>3, <1>4, <1>11, <1>16, <1>18 DEF HeldBy
<1>21. RequestInv'
  <2>1. thread'[t] = w /\ \A u \in Threads \ {t} : thread'[u] = thread[u]
    BY <1>17 DEF SyncInv, ThreadInv
  <2>2. Reqs' \subseteq Reqs \cup {r}
    <3> SUFFICES ASSUME NEW u \in Threads, Sending(u)'
                 PROVE  thread'[u].req \in Reqs \cup {r}
      BY <1>2 DEF Reqs
    <3>1. CASE u = t
      BY <1>16, <2>1, <3>1
    <3>2. CASE u # t
      BY <2>1, <3>2 DEF Sending, Reqs
    <3> QED
      BY <3>1, <3>2
  <2>3. \A x \in Reqs \cup {r} : RequestOK(x)
    BY <1>13 DEF SyncInv, RequestInv
  <2> QED
    BY <1>2, <2>2, <2>3 DEF RequestInv, RequestOK
<1> QED
  BY <1>2, <1>16, <1>17, <1>19, <1>20, <1>21, ThreadOnly

(* A thread that goes on with part of its batch holds nothing new.         *)
LEMMA GoesOn ==
    ASSUME NEW v \in ThreadStates, ThreadOK(v), NEW B \in SUBSET v.batch,
           NEW w \in {AfterPush(B), AfterFailure(B), At("pull", {}), Idle}
    PROVE  /\ w \in ThreadStates /\ ThreadOK(w)
           /\ w.pc \notin {"sent", "replied"}
           /\ HeldBy(w) \subseteq {p[2] : p \in B}
           /\ HeldBy(w) \subseteq HeldBy(v)
<1>1. B \in SUBSET (RowIds \X Ids)
  BY DEF ThreadStates
<1>2. /\ w \in ThreadStates /\ w.batch \subseteq B
      /\ w.pc \in {"idle", "pull", "push", "release"}
  <2>1. CASE w \in {AfterPush(B), AfterFailure(B)}
    BY <1>1, <2>1, AfterState
  <2>2. CASE w = At("pull", {})
    <3>1. "pull" \in PCs /\ {} \in SUBSET (RowIds \X Ids)
      BY DEF PCs
    <3> QED
      BY <2>2, <3>1, AtState
  <2>3. CASE w = Idle
    BY <2>3, AtState
  <2> QED
    BY <2>1, <2>2, <2>3
<1>3. HeldBy(w) = {p[2] : p \in w.batch}
  BY <1>2 DEF HeldBy
<1>4. HeldBy(w) \subseteq {p[2] : p \in B}
  BY <1>2, <1>3
<1>5. {p[2] : p \in B} \subseteq HeldBy(v)
  BY DEF HeldBy
<1>6. ThreadOK(w)
  BY <1>2 DEF ThreadOK
<1> QED
  BY <1>2, <1>4, <1>5, <1>6

(* The cycle gives up on a mutation that stays in flight, or starts to     *)
(* pull, or ends: nothing but the thread moves.                            *)
LEMMA LetGoSafe ==
    ASSUME SyncInv, NEW t \in Threads,
           \/ SessionRefused(t) \/ AckRollsBack(t) \/ PullFails(t)
    PROVE  SyncInv' /\ KeepsWork
<1>1. PICK v \in ThreadStates : v = thread[t] /\ ThreadOK(v)
  BY DEF SyncInv, ThreadInv
<1>2. PICK w \in {AfterFailure(v.batch), Idle} :
         thread' = [thread EXCEPT ![t] = w]
  BY <1>1 DEF SessionRefused, AckRollsBack, PullFails
<1>3. /\ w \in ThreadStates /\ ThreadOK(w)
      /\ w.pc \notin {"sent", "replied"} /\ HeldBy(w) \subseteq HeldBy(v)
  BY <1>1, <1>2, GoesOn
<1>4. UNCHANGED <<storeVars, serverVars, applied, seen>> /\ late' = late
  BY DEF SessionRefused, AckRollsBack, PullFails
<1>5. Reqs' \subseteq Reqs
  BY <1>2, <1>3, <1>4, ReqsAfter DEF Reqs
<1>6. RequestInv'
  BY <1>4, <1>5, RequestsUnmoved
<1> QED
  BY <1>1, <1>2, <1>3, <1>4, <1>6, ThreadOnly

(* One mutation goes to be retried: a timeout, a failed upload, the end of *)
(* a backoff.                                                              *)
LEMMA RetryParts ==
    ASSUME SyncInv, UNCHANGED receipt, seen \subseteq seen', NEW k \in RowIds,
           NEW i \in DOMAIN outbox[k],
           ApplyTransportError(k, i) \/ BackoffElapses(k, i)
    PROVE  /\ EntryInv' /\ RowInv' /\ UNCHANGED <<row, cursor, nextId>>
           /\ \A l \in RowIds : \A j \in DOMAIN outbox'[l] : Old(l, j)
           /\ \A M : outbox[k][i].id \in M \/ outbox[k][i].state # "in_flight"
                       => ClaimsKept(M)
<1>1. /\ row' = row /\ cursor' = cursor /\ nextId' = nextId
      /\ \A l \in RowIds \ {k} : outbox'[l] = outbox[l]
      /\ DOMAIN outbox'[k] = DOMAIN outbox[k]
      /\ SameMutation(outbox[k][i], outbox'[k][i])
      /\ outbox'[k][i].ack = outbox[k][i].ack
      /\ outbox'[k][i].state \in {"retry_later", "retryable_error"}
      /\ outbox[k][i].state # "acked"
      /\ \A j \in DOMAIN outbox[k] \ {i} : outbox'[k][j] = outbox[k][j]
  BY RetryEntries DEF SyncInv
<1>2. ASSUME NEW l \in RowIds, NEW j \in DOMAIN outbox'[l]
      PROVE  /\ EntryOK(j, outbox'[l][j], row'[l].remoteId,
                        receipt'[outbox'[l][j].id], seen')
             /\ Old(l, j)
  <2>0. j \in DOMAIN outbox[l]
    BY <1>1
  <2>1. EntryOK(j, outbox[l][j], row[l].remoteId, receipt[outbox[l][j].id], seen')
    <3>1. EntryOK(j, outbox[l][j], row[l].remoteId, receipt[outbox[l][j].id], seen)
      BY <2>0 DEF SyncInv, EntryInv
    <3> QED
      BY <3>1, EntryTold
  <2>2. CASE l = k /\ j = i
    <3>1. /\ outbox'[l][j].op = outbox[l][j].op
          /\ outbox'[l][j].base = outbox[l][j].base
          /\ outbox'[l][j].id = outbox[l][j].id
      BY <1>1, <2>2 DEF SameMutation
    <3>2. EntryOK(j, outbox'[l][j], row[l].remoteId, receipt[outbox[l][j].id], seen')
      BY <1>1, <2>1, <2>2, <3>1, EntryRestated
    <3> QED
      BY <1>1, <2>0, <2>2, <3>1, <3>2 DEF Old
  <2>3. CASE ~(l = k /\ j = i)
    <3>1. outbox'[l][j] = outbox[l][j]
      BY <1>1, <2>0, <2>3
    <3> QED
      BY <1>1, <2>0, <2>1, <3>1 DEF Old, SameMutation
  <2> QED
    BY <2>2, <2>3
<1>3. EntryInv'
  BY <1>2 DEF EntryInv
<1>4. RowInv'
  BY <1>1 DEF SyncInv, RowInv
<1>5. ASSUME NEW M, outbox[k][i].id \in M \/ outbox[k][i].state # "in_flight"
      PROVE  ClaimsKept(M)
  BY <1>1, <1>5 DEF ClaimsKept
<1> QED
  BY <1>1, <1>2, <1>3, <1>4, <1>5

(* The rest of a batch is claimed still when one of its mutations is not.  *)
LEMMA RestOfBatch ==
    ASSUME NEW v \in ThreadStates, ThreadOK(v), NEW M, ClaimsKept(M),
           ReceiptsKept, NEW B \in SUBSET v.batch, \A p \in B : p[2] \notin M,
           NEW w \in {AfterPush(B), AfterFailure(B), At("pull", {}), Idle}
    PROVE  ThreadOK(w)'
<1>1. /\ w \in ThreadStates /\ ThreadOK(w) /\ HeldBy(w) \subseteq {p[2] : p \in B}
  BY GoesOn
<1>2. HeldBy(w) \cap M = {}
  BY <1>1
<1> QED
  BY <1>1, <1>2, ThreadOKKept

(* A timeout or a failed upload of mutation id of skill k in thread t.     *)
LEMMA TransportErrorSafe ==
    ASSUME SyncInv, NEW t \in Threads, NEW k, NEW id, Claimed(k, id),
           id \in HeldBy(thread[t]),
           ApplyTransportError(k, IndexOf(k, id)),
           NEW B \in SUBSET thread[t].batch, \A p \in B : p[2] # id,
           thread' = [thread EXCEPT ![t] = AfterFailure(B)],
           late' \subseteq Reqs, UNCHANGED <<serverVars, applied, seen>>
    PROVE  SyncInv' /\ KeepsWork
<1>1. PICK i : i = IndexOf(k, id)
  OBVIOUS
<1>2. /\ k \in RowIds /\ i \in DOMAIN outbox[k] /\ outbox[k][i].id = id
      /\ outbox[k][i].state = "in_flight" /\ ApplyTransportError(k, i)
  BY <1>1, FoundClaim DEF SyncInv
<1>3. StoreInv' /\ KeepsWork
  BY <1>2, RetrySafe DEF SyncInv
<1>4. UNCHANGED <<receipt, seen>>
  BY DEF serverVars
<1>5. /\ EntryInv' /\ RowInv' /\ UNCHANGED <<row, cursor, nextId>>
      /\ \A l \in RowIds : \A j \in DOMAIN outbox'[l] : Old(l, j)
      /\ ClaimsKept({id})
  BY <1>2, <1>4, RetryParts
<1>6. PICK v \in ThreadStates : v = thread[t] /\ ThreadOK(v)
  BY DEF SyncInv, ThreadInv
<1>7. PICK w : w = AfterFailure(B)
  OBVIOUS
<1>8. /\ w \in ThreadStates /\ w.pc \notin {"sent", "replied"}
      /\ HeldBy(w) \subseteq HeldBy(v)
  BY <1>6, <1>7, GoesOn
<1>9. ReceiptsKept
  BY <1>4 DEF ReceiptsKept
<1>10. ThreadOK(w)'
  BY <1>5, <1>6, <1>7, <1>9, RestOfBatch
<1>11. thread' = [thread EXCEPT ![t] = w]
  BY <1>7
<1>12. ThreadInv'
  <2>1. \A u \in Threads \ {t} : HeldBy(w) \cap HeldBy(thread[u]) = {}
    BY <1>6, <1>8 DEF SyncInv, ThreadInv
  <2> QED
    BY <1>5, <1>8, <1>9, <1>10, <1>11, <2>1, ThreadStep DEF SyncInv
<1>13. Reqs' \subseteq Reqs
  BY <1>8, <1>11, ReqsAfter
<1>14. ServerInv' /\ ReceiptInv' /\ AppliedInv' /\ UniqueIds' /\ RequestInv'
  <2>1. nextId' \in Nat /\ nextId <= nextId' /\ nextId' <= MaxMutations + 1
    BY <1>5 DEF SyncInv, UniqueIds, StoreInv, StoreTypeOK
  <2> QED
    BY <1>5, <1>13, <2>1, TracedParts
<1> QED
  BY <1>3, <1>5, <1>12, <1>14 DEF SyncInv

(* An upload that fails: the rest of the batch holds other mutations.      *)
LEMMA UploadFailsSafe ==
    ASSUME SyncInv, NEW t \in Threads, UploadFails(t)
    PROVE  SyncInv' /\ KeepsWork
<1>1. PICK p \in thread[t].batch :
         /\ ApplyTransportError(p[1], IndexOf(p[1], p[2]))
         /\ thread' = [thread EXCEPT ![t] = AfterFailure(@.batch \ {p})]
  BY DEF UploadFails
<1>2. UNCHANGED <<serverVars, applied, seen>> /\ late' = late
  BY DEF UploadFails
<1>3. PICK v \in ThreadStates : v = thread[t] /\ ThreadOK(v)
  BY DEF SyncInv, ThreadInv
<1>4. PICK k, id : k = p[1] /\ id = p[2]
  OBVIOUS
<1>5. Claimed(k, id) /\ id \in HeldBy(thread[t])
  BY <1>1, <1>3, <1>4 DEF ThreadOK, HeldBy
<1>6. PICK B \in SUBSET thread[t].batch : B = thread[t].batch \ {p}
  OBVIOUS
<1>7. ASSUME NEW q \in B, q[2] = id
      PROVE  FALSE
  <2>1. Claimed(q[1], id) /\ UniqueIds
    BY <1>3, <1>6, <1>7 DEF ThreadOK, SyncInv
  <2>2. PICK i \in DOMAIN outbox[k] : k \in RowIds /\ outbox[k][i].id = id
    BY <1>5 DEF Claimed
  <2>3. PICK j \in DOMAIN outbox[q[1]] :
           q[1] \in RowIds /\ outbox[q[1]][j].id = id
    BY <2>1 DEF Claimed
  <2>4. q[1] = k
    BY <2>1, <2>2, <2>3, SameId
  <2>5. q = <<q[1], q[2]>> /\ p = <<p[1], p[2]>>
    BY <1>1, <1>3, <1>6 DEF ThreadStates
  <2> QED
    BY <1>4, <1>6, <1>7, <2>4, <2>5
<1>8. thread' = [thread EXCEPT ![t] = AfterFailure(B)]
  BY <1>1, <1>6
<1>9. ApplyTransportError(k, IndexOf(k, id))
  BY <1>1, <1>4
<1> QED
  BY <1>2, <1>5, <1>7, <1>8, <1>9, TransportErrorSafe DEF Reqs

(* A timeout: the request may go on to the server behind the sender's back.*)
LEMMA TimeoutSafe ==
    ASSUME SyncInv, NEW t \in Threads, Timeout(t)
    PROVE  SyncInv' /\ KeepsWork
<1>1. PICK v \in ThreadStates : v = thread[t] /\ ThreadOK(v)
  BY DEF SyncInv, ThreadInv
<1>2. /\ v.pc \in {"sent", "replied"}
      /\ ApplyTransportError(v.req.key, IndexOf(v.req.key, v.req.id))
      /\ late' \subseteq late \cup {v.req}
      /\ thread' = [thread EXCEPT ![t] = AfterFailure(v.batch)]
      /\ UNCHANGED <<serverVars, applied, seen>>
  BY <1>1 DEF Timeout
<1>3. PICK k, id : k = v.req.key /\ id = v.req.id
  OBVIOUS
<1>4. /\ Claimed(k, id) /\ id \in HeldBy(thread[t])
      /\ \A p \in v.batch : p[2] # id
  BY <1>1, <1>2, <1>3 DEF ThreadOK, HeldBy
<1>5. late' \subseteq Reqs
  BY <1>1, <1>2 DEF Reqs, Sending
<1>6. ApplyTransportError(k, IndexOf(k, id))
  BY <1>2, <1>3
<1>7. PICK B \in SUBSET thread[t].batch : B = v.batch
  BY <1>1
<1>8. thread' = [thread EXCEPT ![t] = AfterFailure(B)] /\ \A p \in B : p[2] # id
  BY <1>2, <1>4, <1>7
<1> QED
  BY <1>2, <1>4, <1>5, <1>6, <1>8, TransportErrorSafe

(* release_in_flight_mutations puts back what the thread still claims.     *)
LEMMA ReleaseTailSafe ==
    ASSUME SyncInv, NEW t \in Threads, ReleaseTail(t)
    PROVE  SyncInv' /\ KeepsWork
<1>1. PICK v \in ThreadStates : v = thread[t] /\ ThreadOK(v)
  BY DEF SyncInv, ThreadInv
<1>2. PICK ids : ids = {p[2] : p \in v.batch}
  OBVIOUS
<1>3. /\ ReleaseInFlight(ids) /\ late' = late
      /\ thread' = [thread EXCEPT ![t] = At("pull", {})]
      /\ UNCHANGED <<serverVars, applied, seen>>
  BY <1>1, <1>2 DEF ReleaseTail
<1>4. StoreInv' /\ KeepsWork
  BY <1>3, ReleaseSafe DEF SyncInv
<1>5. PICK tail : tail = {p \in InFlight : outbox[p[1]][p[2]].id \in ids}
  OBVIOUS
<1>6. /\ outbox' = Moved(tail, "retryable_error")
      /\ UNCHANGED <<row, cursor, nextId, receipt, seen>>
      /\ \A p \in tail : StateOf(p) # "acked" /\ outbox[p[1]][p[2]].id \in ids
  BY <1>3, <1>5 DEF ReleaseInFlight, InFlight, serverVars
<1>7. /\ EntryInv' /\ RowInv'
      /\ \A k \in RowIds : \A i \in DOMAIN outbox'[k] : Old(k, i)
  <2>1. UNCHANGED <<row, nextId, receipt, seen>>
    BY <1>6
  <2> QED
    BY <1>6, <2>1, MovedParts
<1>8. ClaimsKept(ids)
  BY <1>6, MovedClaims DEF SyncInv
<1>9. PICK w : w = At("pull", {})
  OBVIOUS
<1>10. {} \in SUBSET v.batch /\ ReceiptsKept
  BY <1>6 DEF ReceiptsKept
<1>11. PICK none \in SUBSET v.batch : none = {}
  OBVIOUS
<1>12. /\ w \in ThreadStates /\ w.pc \notin {"sent", "replied"}
       /\ HeldBy(w) \subseteq HeldBy(v)
  BY <1>1, <1>9, <1>11, GoesOn
<1>13. ThreadOK(w)'
  BY <1>1, <1>8, <1>9, <1>10, <1>11, RestOfBatch
<1>14. thread' = [thread EXCEPT ![t] = w]
  BY <1>3, <1>9
<1>15. ThreadInv'
  <2>1. \A u \in Threads \ {t} : HeldBy(w) \cap HeldBy(thread[u]) = {}
    BY <1>1, <1>12 DEF SyncInv, ThreadInv
  <2>2. ids \subseteq HeldBy(thread[t])
    BY <1>1, <1>2 DEF HeldBy
  <2> QED
    BY <1>8, <1>10, <1>12, <1>13, <1>14, <2>1, <2>2, ThreadStep DEF SyncInv
<1>16. Reqs' \subseteq Reqs
  BY <1>3, <1>12, <1>14, ReqsAfter DEF Reqs
<1>17. ServerInv' /\ ReceiptInv' /\ AppliedInv' /\ UniqueIds' /\ RequestInv'
  <2>1. nextId' \in Nat /\ nextId <= nextId' /\ nextId' <= MaxMutations + 1
    BY <1>6 DEF SyncInv, UniqueIds, StoreInv, StoreTypeOK
  <2> QED
    BY <1>3, <1>6, <1>7, <1>16, <2>1, TracedParts
<1> QED
  BY <1>4, <1>7, <1>15, <1>17 DEF SyncInv

(* The end of a backoff.                                                   *)
LEMMA BackoffSafe ==
    ASSUME SyncInv, Backoff
    PROVE  SyncInv' /\ KeepsWork
<1>1. PICK k \in RowIds : \E i \in DOMAIN outbox[k] : BackoffElapses(k, i)
  BY DEF Backoff
<1>2. PICK i \in DOMAIN outbox[k] : BackoffElapses(k, i)
  BY <1>1
<1>3. outbox[k][i].state = "retry_later"
  BY <1>2 DEF BackoffElapses
<1>4. /\ UNCHANGED <<serverVars, applied, seen>> /\ thread' = thread
      /\ late' = late /\ UNCHANGED <<receipt, seen>>
  BY DEF Backoff, serverVars
<1>5. StoreInv' /\ KeepsWork
  BY <1>2, <1>3, RetrySafe DEF SyncInv
<1>6. /\ EntryInv' /\ RowInv' /\ UNCHANGED <<row, cursor, nextId>>
      /\ \A l \in RowIds : \A j \in DOMAIN outbox'[l] : Old(l, j)
      /\ ClaimsKept({})
  BY <1>2, <1>3, <1>4, RetryParts
<1>7. ThreadInv'
  BY <1>4, <1>6, ThreadsKept DEF SyncInv, ReceiptsKept
<1>8. Reqs' \subseteq Reqs
  BY <1>4 DEF Reqs, Sending
<1>9. ServerInv' /\ ReceiptInv' /\ AppliedInv' /\ UniqueIds' /\ RequestInv'
  <2>1. nextId' \in Nat /\ nextId <= nextId' /\ nextId' <= MaxMutations + 1
    BY <1>6 DEF SyncInv, UniqueIds, StoreInv, StoreTypeOK
  <2> QED
    BY <1>4, <1>6, <1>8, <2>1, TracedParts
<1> QED
  BY <1>5, <1>6, <1>7, <1>9 DEF SyncInv

(* The process dies and starts again: recover_in_flight_mutations.         *)
LEMMA RestartSafe ==
    ASSUME SyncInv, Restart
    PROVE  SyncInv' /\ KeepsWork
<1>1. /\ RecoverInFlight /\ UNCHANGED <<serverVars, applied, seen>>
      /\ late' \subseteq Reqs
      /\ thread' = [t \in Threads |-> Idle]
  BY DEF Restart, Reqs, Sending
<1>2. StoreInv' /\ KeepsWork
  BY <1>1, ReleaseSafe DEF SyncInv
<1>3. /\ outbox' = Moved(InFlight, "retryable_error")
      /\ UNCHANGED <<row, cursor, nextId, receipt, seen>>
      /\ \A p \in InFlight : StateOf(p) # "acked"
  BY <1>1 DEF RecoverInFlight, InFlight, serverVars
<1>4. /\ EntryInv' /\ RowInv'
      /\ \A k \in RowIds : \A i \in DOMAIN outbox'[k] : Old(k, i)
  <2>1. UNCHANGED <<row, nextId, receipt, seen>>
    BY <1>3
  <2>2. PICK entries : entries = InFlight
    OBVIOUS
  <2> QED
    BY <1>3, <2>1, <2>2, MovedParts
<1>5. ThreadInv'
  <2>1. \A t \in Threads : thread'[t] = Idle
    BY <1>1
  <2>2. ThreadOK(Idle)' /\ HeldBy(Idle) = {}
    BY AtState DEF ThreadOK, HeldBy
  <2>3. \A t \in Threads : ThreadOK(thread[t])'
    BY <2>1, <2>2 DEF ThreadOK
  <2>4. \A t, u \in Threads : HeldBy(thread'[t]) \cap HeldBy(thread'[u]) = {}
    BY <2>1, <2>2
  <2>5. thread' \in [Threads -> ThreadStates]
    BY <1>1, AtState
  <2> QED
    BY <2>3, <2>4, <2>5 DEF ThreadInv
<1>6. Reqs' \subseteq Reqs
  <2>1. \A t \in Threads : ~Sending(t)'
    BY <1>1, AtState DEF Sending
  <2> QED
    BY <1>1, <2>1 DEF Reqs
<1>7. ServerInv' /\ ReceiptInv' /\ AppliedInv' /\ UniqueIds' /\ RequestInv'
  <2>1. nextId' \in Nat /\ nextId <= nextId' /\ nextId' <= MaxMutations + 1
    BY <1>3 DEF SyncInv, UniqueIds, StoreInv, StoreTypeOK
  <2> QED
    BY <1>1, <1>3, <1>4, <1>6, <2>1, TracedParts
<1> QED
  BY <1>2, <1>4, <1>5, <1>7 DEF SyncInv

-----------------------------------------------------------------------------
(* The server.                                                             *)

(* A change of one skill together with its event keeps the tables typed.   *)
LEMMA TablesMoved ==
    ASSUME ServerInv, NEW s \in ServerIds, NEW x \in Skills,
           x.status \notin {"absent", "purged"} => x.pkg \in Hashes,
           skill' = [skill EXCEPT ![s] = x],
           NEW rev \in Nat, NEW op \in {"upsert", "delete"},
           EmitChangeEvent(s, rev, op)
    PROVE  /\ skill' \in [ServerIds -> Skills]
           /\ \A y \in ServerIds : InTable(y)' => skill'[y].pkg \in Hashes
           /\ log' \in Seq(Events)
           /\ \A y \in ServerIds \ {s} : skill'[y] = skill[y]
<1>1. /\ skill' \in [ServerIds -> Skills] /\ skill'[s] = x
      /\ \A y \in ServerIds \ {s} : skill'[y] = skill[y]
  BY DEF ServerInv
<1>2. \A y \in ServerIds : InTable(y)' => skill'[y].pkg \in Hashes
  BY <1>1 DEF ServerInv, InTable
<1>3. PICK e : e = [rid |-> s, rev |-> rev, op |-> op]
  OBVIOUS
<1>4. e \in Events
  BY <1>3 DEF Events
<1>5. log' = Append(log, e)
  BY <1>3 DEF EmitChangeEvent
<1>6. log' \in Seq(Events)
  BY <1>4, <1>5 DEF ServerInv
<1> QED
  BY <1>1, <1>2, <1>6

(* What the methods of SkillMutationService do to the tables.              *)
TablesKept(s) ==
    /\ skill' \in [ServerIds -> Skills]
    /\ \A y \in ServerIds : InTable(y)' => skill'[y].pkg \in Hashes
    /\ log' \in Seq(Events)
    /\ \A y \in ServerIds \ {s} : skill'[y] = skill[y]

LEMMA ServiceSafe ==
    ASSUME ServerInv, NEW s \in ServerIds,
           \/ \E hash \in Hashes, k \in RowIds : CreateSkill(s, SlugOf[k], hash)
           \/ Live(s) /\ \E hash \in Hashes : UpdateSkill(s, hash)
           \/ Live(s) /\ TouchMetadata(s)
           \/ InTable(s) /\ SoftDelete(s)
           \/ RestoreSkill(s) \/ PurgeSkill(s)
    PROVE  TablesKept(s)
<1>1. skill \in [ServerIds -> Skills] /\ skill[s] \in Skills
  BY DEF ServerInv
<1>2. InTable(s) => skill[s].pkg \in Hashes
  BY DEF ServerInv
<1>3. ASSUME NEW x \in Skills, x.status \notin {"absent", "purged"} => x.pkg \in Hashes,
             skill' = [skill EXCEPT ![s] = x],
             NEW rev \in Nat, NEW op \in {"upsert", "delete"},
             EmitChangeEvent(s, rev, op)
      PROVE  TablesKept(s)
  BY <1>3, TablesMoved DEF TablesKept
<1>4. skill[s].rev \in Nat /\ skill[s].rev + 1 \in Nat
  BY <1>1 DEF Skills
<1>5. ASSUME NEW hash \in Hashes, NEW k \in RowIds, CreateSkill(s, SlugOf[k], hash)
      PROVE  TablesKept(s)
  <2>1. PICK x : x = [status |-> "draft", rev |-> 1, pkg |-> hash, slug |-> SlugOf[k]]
    OBVIOUS
  <2>2. x \in Skills /\ x.pkg \in Hashes
    BY <2>1 DEF Skills, SkillStatus
  <2>3. skill' = [skill EXCEPT ![s] = x] /\ EmitChangeEvent(s, 1, "upsert")
    BY <1>5, <2>1 DEF CreateSkill
  <2> QED
    BY <1>3, <2>2, <2>3
<1>6. ASSUME Live(s), NEW hash \in Hashes, UpdateSkill(s, hash)
      PROVE  TablesKept(s)
  <2>1. PICK x : x = [skill[s] EXCEPT !.rev = skill[s].rev + 1, !.pkg = hash]
    OBVIOUS
  <2>2. x \in Skills /\ x.pkg \in Hashes
    BY <1>1, <1>4, <2>1 DEF Skills
  <2>3. skill' = [skill EXCEPT ![s] = x]
          /\ EmitChangeEvent(s, skill[s].rev + 1, "upsert")
    BY <1>1, <1>6, <2>1 DEF UpdateSkill
  <2> QED
    BY <1>3, <1>4, <2>2, <2>3
<1>7. ASSUME Live(s), TouchMetadata(s)
      PROVE  TablesKept(s)
  <2>1. PICK x : x = [skill[s] EXCEPT !.rev = skill[s].rev + 1]
    OBVIOUS
  <2>2. x \in Skills /\ x.pkg \in Hashes
    BY <1>1, <1>2, <1>4, <1>7, <2>1 DEF Skills, Live
  <2>3. skill' = [skill EXCEPT ![s] = x]
          /\ EmitChangeEvent(s, skill[s].rev + 1, "upsert")
    BY <1>1, <1>7, <2>1 DEF TouchMetadata
  <2> QED
    BY <1>3, <1>4, <2>2, <2>3
<1>8. ASSUME InTable(s), SoftDelete(s)
      PROVE  TablesKept(s)
  <2>1. CASE skill[s].status = "deleted"
    BY <1>8, <2>1 DEF SoftDelete, TablesKept, ServerInv, InTable
  <2>2. CASE skill[s].status # "deleted"
    <3>1. PICK x : x = [skill[s] EXCEPT !.rev = skill[s].rev + 1, !.status = "deleted"]
      OBVIOUS
    <3>2. x \in Skills /\ x.pkg \in Hashes
      BY <1>1, <1>2, <1>4, <1>8, <3>1 DEF Skills, SkillStatus
    <3>3. skill' = [skill EXCEPT ![s] = x]
            /\ EmitChangeEvent(s, skill[s].rev + 1, "delete")
      BY <1>1, <1>8, <2>2, <3>1 DEF SoftDelete
    <3> QED
      BY <1>3, <1>4, <3>2, <3>3
  <2> QED
    BY <2>1, <2>2
<1>9. ASSUME RestoreSkill(s)
      PROVE  TablesKept(s)
  <2>1. PICK x : x = [skill[s] EXCEPT !.rev = skill[s].rev + 1, !.status = "draft"]
    OBVIOUS
  <2>2. x \in Skills /\ x.pkg \in Hashes
    BY <1>1, <1>2, <1>4, <1>9, <2>1 DEF Skills, SkillStatus, RestoreSkill, InTable
  <2>3. skill' = [skill EXCEPT ![s] = x]
          /\ EmitChangeEvent(s, skill[s].rev + 1, "upsert")
    BY <1>1, <1>9, <2>1 DEF RestoreSkill
  <2> QED
    BY <1>3, <1>4, <2>2, <2>3
<1>10. ASSUME PurgeSkill(s)
       PROVE  TablesKept(s)
  <2>1. PICK x : x = [NoSkill EXCEPT !.status = "purged"]
    OBVIOUS
  <2>2. x \in Skills /\ x.status = "purged"
    BY <2>1 DEF NoSkill, Skills, SkillStatus
  <2>3. skill' = [skill EXCEPT ![s] = x]
          /\ EmitChangeEvent(s, skill[s].rev, "delete")
    BY <1>10, <2>1 DEF PurgeSkill
  <2> QED
    BY <1>3, <1>4, <2>2, <2>3
<1> QED
  BY <1>5, <1>6, <1>7, <1>8, <1>9, <1>10

(* What answering request r for the first time does: nothing (an HTTP      *)
(* error), a refusal that changes no skill, or an ack of the skill the     *)
(* request names, whose head was the request's base.                       *)
Refusing(r) ==
    \E a \in Responses :
        /\ a.status \in Definitive \ {"acked"}
        /\ a.status = "conflict" => r.op # "create"
        /\ Refuse(r, a)

Acking(r) ==
    \E s \in ServerIds, rev \in Nat :
        /\ r.op # "create" => s = r.remote
        /\ InsertReceipt(r, Acked(s, rev))
        /\ TablesKept(s)
        /\ InTable(s) => r.op # "create" /\ skill[s].rev = r.base

LEMMA HandledParts ==
    ASSUME ServerInv, NEW r \in Requests, WellFormed(r),
           \/ r.op = "create" /\ HandleCreate(r)
           \/ r.op = "update" /\ HandleUpdate(r)
           \/ r.op = "delete" /\ HandleDelete(r)
    PROVE  UNCHANGED <<skill, receipt, log>> \/ Refusing(r) \/ Acking(r)
<1>1. /\ Refused("validation_error") \in Responses
      /\ Refused("permission_denied") \in Responses
      /\ Refused("validation_error").status = "validation_error"
      /\ Refused("permission_denied").status = "permission_denied"
  BY DEF Refused, Response, Responses, Statuses, Definitive
<1>2. ASSUME \/ Refuse(r, Refused("validation_error"))
             \/ Refuse(r, Refused("permission_denied"))
      PROVE  Refusing(r)
  BY <1>1, <1>2 DEF Refusing, Definitive
<1>3. ASSUME NEW s \in ServerIds, Refuse(r, ConflictHead(s)), r.op # "create"
      PROVE  Refusing(r)
  <2>1. skill[s] \in Skills
    BY DEF ServerInv
  <2>2. ConflictHead(s) \in Responses /\ ConflictHead(s).status = "conflict"
    BY <2>1 DEF ConflictHead, Response, Responses, Statuses, Definitive, Skills
  <2> QED
    BY <1>3, <2>2 DEF Refusing, Definitive
<1>4. CASE r.op = "create" /\ HandleCreate(r)
  <2>1. CASE UNCHANGED <<skill, receipt, log>> \/ Refuse(r, Refused("validation_error"))
    BY <1>2, <2>1
  <2>2. CASE \E s \in ServerIds :
               /\ FreshId(s)
               /\ CreateSkill(s, SlugOf[r.key], r.payload)
               /\ InsertReceipt(r, Acked(s, 1))
    <3>1. PICK s \in ServerIds :
               /\ FreshId(s)
               /\ CreateSkill(s, SlugOf[r.key], r.payload)
               /\ InsertReceipt(r, Acked(s, 1))
      BY <2>2
    <3>2. r.key \in RowIds /\ r.payload \in Hashes
      BY DEF Requests
    <3>3. TablesKept(s)
      BY <3>1, <3>2, ServiceSafe
    <3>4. ~InTable(s)
      BY <3>1 DEF FreshId, InTable
    <3> QED
      BY <1>4, <3>1, <3>3, <3>4 DEF Acking
  <2> QED
    BY <1>4, <2>1, <2>2 DEF HandleCreate
<1>5. ASSUME r.op # "create"
      PROVE  r.remote \in ServerIds /\ skill[r.remote].rev + 1 \in Nat
               /\ skill[r.remote].rev \in Nat
  <2>1. r.remote \in ServerIds
    BY <1>5 DEF WellFormed, Requests
  <2>2. skill[r.remote] \in Skills
    BY <2>1 DEF ServerInv
  <2> QED
    BY <2>1, <2>2 DEF Skills
<1>6. CASE r.op = "update" /\ HandleUpdate(r)
  <2>0. PICK s \in ServerIds : s = r.remote
    BY <1>5, <1>6
  <2>1. CASE Live(s) /\ skill[s].rev = r.base /\ UpdateSkill(s, r.payload)
               /\ InsertReceipt(r, Acked(s, skill[s].rev + 1))
    <3>1. r.payload \in Hashes
      BY DEF Requests
    <3>2. TablesKept(s)
      BY <2>1, <3>1, ServiceSafe
    <3>3. skill[s].rev + 1 \in Nat
      BY <1>5, <1>6, <2>0
    <3> QED
      BY <1>6, <2>0, <2>1, <3>2, <3>3 DEF Acking
  <2>2. CASE \/ Refuse(r, Refused("validation_error"))
             \/ Refuse(r, Refused("permission_denied"))
             \/ Refuse(r, ConflictHead(s))
    BY <1>2, <1>3, <1>6, <2>2
  <2> QED
    BY <1>6, <2>0, <2>1, <2>2 DEF HandleUpdate
<1>7. CASE r.op = "delete" /\ HandleDelete(r)
  <2>0. PICK s \in ServerIds : s = r.remote
    BY <1>5, <1>7
  <2>1. CASE InTable(s) /\ skill[s].rev = r.base /\ SoftDelete(s)
               /\ InsertReceipt(r, Acked(s, DeletedRev(s)))
    <3>1. TablesKept(s)
      BY <2>1, ServiceSafe
    <3>2. DeletedRev(s) \in Nat
      BY <1>5, <1>7, <2>0 DEF DeletedRev
    <3> QED
      BY <1>7, <2>0, <2>1, <3>1, <3>2 DEF Acking
  <2>2. CASE \/ Refuse(r, Refused("permission_denied"))
             \/ Refuse(r, ConflictHead(s))
    BY <1>2, <1>3, <1>7, <2>2
  <2> QED
    BY <1>7, <2>0, <2>1, <2>2 DEF HandleDelete
<1> QED
  BY <1>4, <1>6, <1>7

(* The server handles a request: every receipt stays, at most the one of   *)
(* the request comes in, and it says once what the server did.             *)
LEMMA ServeParts ==
    ASSUME SyncInv, NEW r, RequestOK(r), Serve(r), nextId' = nextId
    PROVE  /\ ServerInv' /\ ReceiptInv' /\ AppliedInv' /\ ReceiptsKept
           /\ \A m \in Ids \ {r.id} : receipt'[m] = receipt[m]
           /\ receipt' = receipt
                \/ /\ WellFormed(r) /\ receipt[r.id] = NoReceipt
                   /\ receipt'[r.id] # NoReceipt
                   /\ receipt'[r.id].status = "conflict" => r.op # "create"
                   /\ receipt'[r.id].status = "acked" /\ r.op # "create"
                        => receipt'[r.id].rid = r.remote
           /\ \A s \in ServerIds :
                 skill'[s] # skill[s] /\ InTable(s) => <<s, skill[s].rev>> \in seen
<1>1. r \in Requests /\ r.id \in Ids /\ r.id < nextId
  BY DEF RequestOK, Requests
<1>2. /\ receipt \in [Ids -> Responses] /\ applied \in [Ids -> Nat]
      /\ ServerInv /\ ReceiptInv /\ AppliedInv
  BY DEF SyncInv, ServerInv
<1>3. applied' = [applied EXCEPT ![r.id] = IF log' # log THEN @ + 1 ELSE @]
  BY DEF Serve
<1>4. rest' = rest /\ rest \in Nat
  BY DEF Serve, SubmitMutation, SyncInv, ServerInv
<1>5. NoReceipt.status = "none" /\ "none" \notin Definitive
  BY DEF NoReceipt, Refused, Response, Definitive
<1>6. CASE UNCHANGED <<skill, receipt, log>>
  <2>1. applied' = applied
    BY <1>1, <1>2, <1>3, <1>6
  <2> QED
    BY <1>2, <1>4, <1>6, <2>1 DEF ServerInv, ReceiptInv, AppliedInv, ReceiptsKept, InTable
<1>7. CASE WellFormed(r) /\ receipt[r.id] = NoReceipt /\ Refusing(r)
  <2>1. PICK a \in Responses :
           /\ a.status \in Definitive \ {"acked"}
           /\ a.status = "conflict" => r.op # "create"
           /\ receipt' = [receipt EXCEPT ![r.id] = a]
           /\ UNCHANGED <<skill, log>>
    BY <1>7 DEF Refusing, Refuse, InsertReceipt
  <2>2. applied' = applied
    BY <1>1, <1>2, <1>3, <2>1
  <2>3. /\ receipt' \in [Ids -> Responses] /\ receipt'[r.id] = a
        /\ \A m \in Ids \ {r.id} : receipt'[m] = receipt[m]
    BY <1>1, <1>2, <2>1
  <2>4. ServerInv'
    BY <1>2, <1>4, <2>1, <2>2, <2>3 DEF ServerInv, InTable
  <2>5. ReceiptInv' /\ ReceiptsKept
    BY <1>1, <1>2, <1>7, <2>1, <2>3 DEF ReceiptInv, ReceiptsKept
  <2>6. AppliedInv'
    BY <1>2, <1>5, <1>7, <2>2, <2>3 DEF AppliedInv
  <2> QED
    BY <1>5, <1>7, <2>1, <2>3, <2>4, <2>5, <2>6
<1>8. CASE WellFormed(r) /\ receipt[r.id] = NoReceipt /\ Acking(r)
  <2>1. PICK s \in ServerIds, rev \in Nat :
           /\ r.op # "create" => s = r.remote
           /\ receipt' = [receipt EXCEPT ![r.id] = Acked(s, rev)]
           /\ TablesKept(s)
           /\ InTable(s) => r.op # "create" /\ skill[s].rev = r.base
    BY <1>8 DEF Acking, InsertReceipt
  <2>2. PICK a : a = Acked(s, rev)
    OBVIOUS
  <2>3. /\ a \in Responses /\ a.status = "acked" /\ a.status \in Definitive
         /\ a.rid = s /\ a.rev = rev
    BY <2>2 DEF Acked, Response, Responses, Statuses, Definitive
  <2>4. /\ receipt' \in [Ids -> Responses] /\ receipt'[r.id] = a
        /\ \A m \in Ids \ {r.id} : receipt'[m] = receipt[m]
    BY <1>1, <1>2, <2>1, <2>2, <2>3
  <2>5. applied[r.id] = 0
    BY <1>1, <1>2, <1>5, <1>8 DEF AppliedInv
  <2>6. /\ applied' \in [Ids -> Nat] /\ applied'[r.id] \in {0, 1}
        /\ \A m \in Ids \ {r.id} : applied'[m] = applied[m]
    BY <1>1, <1>2, <1>3, <2>5
  <2>7. ServerInv'
    BY <1>4, <2>1, <2>4, <2>6 DEF ServerInv, TablesKept
  <2>8. ReceiptInv' /\ ReceiptsKept
    <3>1. a = Acked(a.rid, a.rev)
      BY <2>2, <2>3
    <3> QED
      BY <1>1, <1>2, <1>8, <2>1, <2>3, <2>4, <3>1 DEF ReceiptInv, ReceiptsKept
  <2>9. AppliedInv'
    BY <1>2, <2>3, <2>4, <2>6 DEF AppliedInv
  <2>10. ASSUME NEW y \in ServerIds, skill'[y] # skill[y], InTable(y)
        PROVE  <<y, skill[y].rev>> \in seen
    <3>1. y = s
      BY <2>1, <2>10 DEF TablesKept
    <3>2. r.op # "create" /\ s = r.remote /\ skill[s].rev = r.base
      BY <2>1, <2>10, <3>1
    <3>3. r.base # 0
      BY <1>1, <1>8, <3>2 DEF WellFormed, Requests
    <3> QED
      BY <3>1, <3>2, <3>3 DEF RequestOK
  <2> QED
    BY <1>5, <1>8, <2>1, <2>3, <2>4, <2>7, <2>8, <2>9, <2>10
<1>9. UNCHANGED <<skill, receipt, log>>
        \/ (WellFormed(r) /\ receipt[r.id] = NoReceipt /\ (Refusing(r) \/ Acking(r)))
  BY <1>1, <1>2, HandledParts DEF Serve, SubmitMutation, ApplySyncMutation
<1> QED
  BY <1>6, <1>7, <1>8, <1>9

(* The mutation that a fresh receipt answers stays right.                  *)
LEMMA EntryAnswered ==
    ASSUME NEW i, NEW m, NEW rid, NEW b, NEW S, NEW r \in Requests,
           EntryOK(i, m, rid, NoReceipt, S), NEW k, Matching(r, k, m, rid),
           WellFormed(r), b # NoReceipt,
           b.status = "conflict" => r.op # "create",
           b.status = "acked" /\ r.op # "create" => b.rid = r.remote
    PROVE  EntryOK(i, m, rid, b, S)
<1>1. r.op = m.op /\ r.base = m.base /\ m.state # "pending"
      /\ (r.remote # None => rid = r.remote)
  BY DEF Matching
<1>2. m.op # "create" => m.base # 0 /\ r.remote # None
  BY <1>1 DEF WellFormed, Requests
<1>3. NoReceipt.status = "none"
  BY DEF NoReceipt, Refused, Response
<1>4. Acked(rid, m.ack).status = "acked"
  BY DEF Acked, Response
<1>5. m.ack = 0
  BY <1>3, <1>4 DEF EntryOK
<1>6. m.op = "create" => CreateOK(i, m, rid, b)
  BY <1>1 DEF EntryOK, CreateOK
<1>7. b.status = "acked" /\ rid # None => b.rid = rid
  BY <1>1, <1>2 DEF EntryOK, CreateOK
<1>8. m.state \notin Refusals
  BY <1>2 DEF EntryOK
<1> QED
  BY <1>1, <1>2, <1>5, <1>6, <1>7, <1>8 DEF EntryOK

LEMMA ServeEntries ==
    ASSUME SyncInv, NEW r, RequestOK(r), Serve(r), UNCHANGED <<storeVars, seen>>
    PROVE  EntryInv'
<1>1. /\ row' = row /\ outbox' = outbox /\ nextId' = nextId /\ seen' = seen
  BY DEF storeVars
<1>2. /\ \A m \in Ids \ {r.id} : receipt'[m] = receipt[m]
      /\ receipt' = receipt
            \/ /\ WellFormed(r) /\ receipt[r.id] = NoReceipt
               /\ receipt'[r.id] # NoReceipt
               /\ receipt'[r.id].status = "conflict" => r.op # "create"
               /\ receipt'[r.id].status = "acked" /\ r.op # "create"
                    => receipt'[r.id].rid = r.remote
  BY <1>1, ServeParts
<1>3. ASSUME NEW k \in RowIds, NEW i \in DOMAIN outbox[k]
      PROVE  EntryOK(i, outbox[k][i], row[k].remoteId,
                     receipt'[outbox[k][i].id], seen)
  <2>1. /\ EntryOK(i, outbox[k][i], row[k].remoteId, receipt[outbox[k][i].id], seen)
        /\ outbox[k][i].id \in Ids
    BY DEF SyncInv, EntryInv, UniqueIds
  <2>2. CASE receipt'[outbox[k][i].id] = receipt[outbox[k][i].id]
    BY <2>1, <2>2
  <2>3. CASE receipt'[outbox[k][i].id] # receipt[outbox[k][i].id]
    <3>1. outbox[k][i].id = r.id /\ receipt' # receipt
      BY <1>2, <2>1, <2>3
    <3>2. Matching(r, k, outbox[k][i], row[k].remoteId) /\ r \in Requests
      BY <3>1 DEF RequestOK
    <3>3. PICK b : b = receipt'[r.id]
      OBVIOUS
    <3>4. /\ WellFormed(r) /\ receipt[r.id] = NoReceipt /\ b # NoReceipt
          /\ b.status = "conflict" => r.op # "create"
          /\ b.status = "acked" /\ r.op # "create" => b.rid = r.remote
      BY <1>2, <3>1, <3>3
    <3>5. EntryOK(i, outbox[k][i], row[k].remoteId, NoReceipt, seen)
      BY <2>1, <3>1, <3>4
    <3>6. EntryOK(i, outbox[k][i], row[k].remoteId, b, seen)
      BY <3>2, <3>4, <3>5, EntryAnswered
    <3> QED
      BY <3>1, <3>3, <3>6
  <2> QED
    BY <2>2, <2>3
<1> QED
  BY <1>1, <1>3 DEF EntryInv

(* The server's part of a step in which the store stands still.            *)
LEMMA ServeSafe ==
    ASSUME SyncInv, NEW r, RequestOK(r), Serve(r), UNCHANGED <<storeVars, seen>>,
           Reqs' \subseteq Reqs
    PROVE  /\ StoreInv' /\ KeepsWork /\ ServerInv' /\ ReceiptInv' /\ AppliedInv'
           /\ EntryInv' /\ UniqueIds' /\ RowInv' /\ RequestInv'
           /\ ReceiptsKept /\ ClaimsKept({})
<1>1. /\ row' = row /\ outbox' = outbox /\ cursor' = cursor /\ nextId' = nextId
      /\ seen' = seen
  BY DEF storeVars
<1>2. StoreInv' /\ KeepsWork
  <2>1. cursor' \in Nat
    BY <1>1 DEF SyncInv, StoreInv, StoreTypeOK
  <2> QED
    BY <1>1, <2>1, NothingChangesSafe DEF SyncInv
<1>3. ServerInv' /\ ReceiptInv' /\ AppliedInv' /\ ReceiptsKept
  BY <1>1, ServeParts
<1>4. EntryInv'
  BY ServeEntries
<1>5. UniqueIds' /\ RowInv'
  BY <1>1 DEF SyncInv, UniqueIds, RowInv
<1>6. RequestInv'
  BY RequestsUnmoved
<1>7. ClaimsKept({})
  BY <1>1 DEF ClaimsKept
<1> QED
  BY <1>2, <1>3, <1>4, <1>5, <1>6, <1>7

(* A late delivery.                                                        *)
LEMMA LateDeliverySafe ==
    ASSUME SyncInv, LateDelivery
    PROVE  SyncInv' /\ KeepsWork
<1>1. PICK r \in late :
         /\ Serve(r) /\ late' = late \ {r}
         /\ UNCHANGED <<storeVars, thread, failures, seen>>
  BY DEF LateDelivery
<1>2. RequestOK(r)
  BY <1>1 DEF SyncInv, RequestInv, Reqs
<1>3. Reqs' \subseteq Reqs
  BY <1>1 DEF Reqs, Sending
<1>4. /\ StoreInv' /\ KeepsWork /\ ServerInv' /\ ReceiptInv' /\ AppliedInv'
      /\ EntryInv' /\ UniqueIds' /\ RowInv' /\ RequestInv'
      /\ ReceiptsKept /\ ClaimsKept({})
  BY <1>1, <1>2, <1>3, ServeSafe
<1>5. ThreadInv'
  BY <1>1, <1>4, ThreadsKept DEF SyncInv
<1> QED
  BY <1>4, <1>5 DEF SyncInv

(* The server answers the request a thread waits for.                      *)
LEMMA ServerRepliesSafe ==
    ASSUME SyncInv, NEW t \in Threads, ServerReplies(t)
    PROVE  SyncInv' /\ KeepsWork
<1>1. PICK v \in ThreadStates : v = thread[t] /\ ThreadOK(v)
  BY DEF SyncInv, ThreadInv
<1>2. PICK r : r = v.req
  OBVIOUS
<1>3. /\ v.pc = "sent" /\ Serve(r) /\ UNCHANGED <<storeVars, seen>>
      /\ late' = late
  BY <1>1, <1>2 DEF ServerReplies
<1>4. RequestOK(r) /\ r \in Requests
  BY <1>1, <1>2, <1>3 DEF SyncInv, RequestInv, Reqs, Sending, RequestOK
<1>5. PICK a : a = ReplyTo(r)
  OBVIOUS
<1>6. PICK w : w = [v EXCEPT !.pc = "replied", !.resp = a]
  OBVIOUS
<1>7. thread' = [thread EXCEPT ![t] = w]
  <2>1. thread' = [thread EXCEPT ![t].pc = "replied", ![t].resp = a]
    BY <1>1, <1>2, <1>5 DEF ServerReplies
  <2>2. thread \in [Threads -> ThreadStates]
    BY DEF SyncInv, ThreadInv
  <2> QED
    BY <1>1, <1>6, <2>1, <2>2
<1>8. nextId' = nextId
  BY <1>3 DEF storeVars
<1>9. ServerInv' /\ ReceiptInv'
  BY <1>3, <1>4, <1>8, ServeParts
<1>10. r.id \in Ids /\ receipt'[r.id] \in Responses
  BY <1>4, <1>9 DEF Requests, ServerInv
<1>11. /\ a \in Responses
       /\ a.status # "none"
       /\ a.status \in Definitive => a = receipt'[r.id]
       /\ a.status = "http_request_error" => ~WellFormed(r)
  <2>1. /\ Refused("http_request_error") \in Responses
        /\ Refused("http_server_error") \in Responses
        /\ Refused("http_request_error").status = "http_request_error"
        /\ Refused("http_server_error").status = "http_server_error"
    BY DEF Refused, Response, Responses, Statuses
  <2>2. /\ "http_request_error" \notin Definitive
        /\ "http_server_error" \notin Definitive
        /\ "none" \notin Definitive
    BY DEF Definitive
  <2>3. CASE ~WellFormed(r)
    BY <1>5, <2>1, <2>2, <2>3 DEF ReplyTo
  <2>4. CASE WellFormed(r) /\ receipt'[r.id] = NoReceipt
    <3>1. a = Refused("http_server_error")
      BY <1>5, <2>4 DEF ReplyTo
    <3> QED
      BY <2>1, <2>2, <3>1
  <2>5. CASE WellFormed(r) /\ receipt'[r.id] # NoReceipt
    <3>1. a = receipt'[r.id]
      BY <1>5, <2>5 DEF ReplyTo
    <3>2. receipt'[r.id].status \in Definitive
      BY <1>9, <1>10, <2>5 DEF ReceiptInv
    <3> QED
      BY <1>10, <2>2, <2>5, <3>1, <3>2
  <2> QED
    BY <2>3, <2>4, <2>5
<1>12. /\ w \in ThreadStates /\ w.pc = "replied" /\ w.batch = v.batch
       /\ w.req = r /\ w.resp = a
  <2>1. "replied" \in PCs
    BY DEF PCs
  <2> QED
    BY <1>2, <1>6, <1>11, <2>1 DEF ThreadStates
<1>13. Reqs' \subseteq Reqs
  BY <1>1, <1>2, <1>3, <1>7, <1>12, ReqsAfter DEF Reqs, Sending
<1>14. /\ StoreInv' /\ KeepsWork /\ ServerInv' /\ ReceiptInv' /\ AppliedInv'
       /\ EntryInv' /\ UniqueIds' /\ RowInv' /\ RequestInv'
       /\ ReceiptsKept /\ ClaimsKept({})
  BY <1>3, <1>4, <1>13, ServeSafe
<1>15. ThreadOK(w)'
  <2>1. outbox' = outbox
    BY <1>3 DEF storeVars
  <2>2. \A p \in w.batch : Claimed(p[1], p[2])' /\ p[2] # w.req.id
    BY <1>1, <1>2, <1>3, <1>12, <2>1 DEF ThreadOK, Claimed
  <2>3. Claimed(w.req.key, w.req.id)'
    BY <1>1, <1>2, <1>3, <1>12, <2>1 DEF ThreadOK, Claimed
  <2> QED
    BY <1>4, <1>11, <1>12, <2>2, <2>3 DEF ThreadOK
<1>16. HeldBy(w) = HeldBy(v)
  BY <1>2, <1>3, <1>12 DEF HeldBy
<1>17. ThreadInv'
  <2>1. \A u \in Threads \ {t} : HeldBy(w) \cap HeldBy(thread[u]) = {}
    BY <1>1, <1>16 DEF SyncInv, ThreadInv
  <2> QED
    BY <1>7, <1>12, <1>14, <1>15, <2>1, ThreadStep DEF SyncInv
<1> QED
  BY <1>14, <1>17 DEF SyncInv

(* A request of the browser.                                               *)
LEMMA BrowserSafe ==
    ASSUME SyncInv, Browser
    PROVE  SyncInv' /\ KeepsWork /\ rest' # rest
<1>1. /\ RestNext /\ UNCHANGED <<storeVars, thread, late, applied, seen>>
      /\ row' = row /\ outbox' = outbox /\ cursor' = cursor /\ nextId' = nextId
      /\ thread' = thread /\ late' = late /\ applied' = applied /\ seen' = seen
  BY DEF Browser, storeVars
<1>2. PICK s \in ServerIds :
        \/ \E hash \in Hashes : RestCreate(s, hash) \/ RestUpdate(s, hash)
        \/ RestDelete(s) \/ RestRestore(s) \/ RestPurge(s) \/ RestTouch(s)
  BY <1>1 DEF RestNext
<1>3. receipt' = receipt /\ TablesKept(s)
  <2>1. s \in RowIds
    BY DEF RowIds
  <2>2. \/ \E hash \in Hashes, k \in RowIds : CreateSkill(s, SlugOf[k], hash)
        \/ Live(s) /\ \E hash \in Hashes : UpdateSkill(s, hash)
        \/ Live(s) /\ TouchMetadata(s)
        \/ InTable(s) /\ SoftDelete(s)
        \/ RestoreSkill(s) \/ PurgeSkill(s)
    BY <1>2, <2>1 DEF RestCreate, RestUpdate, RestDelete, RestRestore,
       RestPurge, RestTouch, Live
  <2>3. receipt' = receipt
    BY <1>2 DEF RestCreate, RestUpdate, RestDelete, RestRestore, RestPurge,
       RestTouch, Rest
  <2> QED
    BY <2>2, <2>3, ServiceSafe DEF SyncInv
<1>4. rest' # rest /\ rest' \in Nat
  <2>1. rest' = rest + 1 /\ rest < MaxRest
    BY <1>2 DEF RestCreate, RestUpdate, RestDelete, RestRestore, RestPurge,
       RestTouch, Rest
  <2>2. rest \in Nat
    BY DEF SyncInv, ServerInv
  <2> QED
    BY <2>1, <2>2
<1>5. StoreInv' /\ KeepsWork
  <2>1. cursor' \in Nat
    BY <1>1 DEF SyncInv, StoreInv, StoreTypeOK
  <2> QED
    BY <1>1, <2>1, NothingChangesSafe DEF SyncInv
<1>6. ServerInv' /\ ReceiptInv' /\ AppliedInv'
  BY <1>1, <1>3, <1>4 DEF SyncInv, ServerInv, TablesKept, ReceiptInv, AppliedInv
<1>7. EntryInv' /\ UniqueIds' /\ RowInv'
  BY <1>1, <1>3 DEF SyncInv, EntryInv, UniqueIds, RowInv
<1>8. RequestInv'
  <2>1. Reqs' \subseteq Reqs
    BY <1>1 DEF Reqs, Sending
  <2> QED
    BY <1>1, <2>1, RequestsUnmoved
<1>9. ThreadInv'
  <2>1. ReceiptsKept /\ ClaimsKept({})
    BY <1>1, <1>3 DEF ReceiptsKept, ClaimsKept
  <2> QED
    BY <1>1, <2>1, ThreadsKept DEF SyncInv
<1> QED
  BY <1>4, <1>5, <1>6, <1>7, <1>8, <1>9 DEF SyncInv

-----------------------------------------------------------------------------
(* Pull.                                                                   *)

(* A page names a skill and, for an upsert, the package it has.            *)
LEMMA PageTyped ==
    ASSUME ServerInv, NEW cur \in Nat
    PROVE  /\ ListChanges(cur) \in Pages
           /\ ListChanges(cur).change.op # "none"
                => ListChanges(cur).change.rid \in ServerIds
           /\ ListChanges(cur).change.op = "upsert"
                => ListChanges(cur).change.pkg \in Hashes
<1>1. PICK seq : seq = IF cur < Len(log) THEN cur + 1 ELSE cur
  OBVIOUS
<1>2. PICK c : c = IF seq > cur /\ SkillVisible(log[seq])
                   THEN Project(log[seq]) ELSE NoChange
  OBVIOUS
<1>3. log \in Seq(Events) /\ Len(log) \in Nat
  BY DEF ServerInv
<1>4. seq \in Nat /\ (seq > cur => seq \in DOMAIN log)
  BY <1>1, <1>3
<1>5. /\ c \in Changes
      /\ c.op # "none" => c.rid \in ServerIds
      /\ c.op = "upsert" => c.pkg \in Hashes
  <2>1. CASE seq > cur /\ SkillVisible(log[seq])
    <3>1. PICK e \in Events : e = log[seq]
      BY <1>3, <1>4, <2>1
    <3>2. c = [op |-> e.op, rid |-> e.rid, rev |-> e.rev,
               pkg |-> IF e.op = "upsert" THEN skill[e.rid].pkg ELSE None]
      BY <1>2, <2>1, <3>1 DEF Project
    <3>3. /\ e.rid \in ServerIds /\ e.rev \in Nat
          /\ e.op \in {"none", "upsert", "delete"}
      BY DEF Events
    <3>4. skill[e.rid].pkg \in Hashes
      BY <2>1, <3>1, <3>3 DEF SkillVisible, ServerInv
    <3> QED
      BY <3>2, <3>3, <3>4 DEF Changes
  <2>2. CASE ~(seq > cur /\ SkillVisible(log[seq]))
    <3>1. c = NoChange
      BY <1>2, <2>2
    <3> QED
      BY <3>1 DEF NoChange, Changes
  <2> QED
    BY <2>1, <2>2
<1>6. ListChanges(cur) = [change |-> c, next |-> seq, more |-> seq < Len(log)]
  BY <1>1, <1>2 DEF ListChanges
<1>7. (seq < Len(log)) \in BOOLEAN
  BY <1>3, <1>4
<1> QED
  BY <1>4, <1>5, <1>6, <1>7 DEF Pages

(* A page is fetched for the cursor of the moment.                         *)
LEMMA FetchPageSafe ==
    ASSUME SyncInv, NEW t \in Threads, FetchPage(t)
    PROVE  SyncInv' /\ KeepsWork
<1>1. PICK v \in ThreadStates : v = thread[t] /\ ThreadOK(v)
  BY DEF SyncInv, ThreadInv
<1>2. PICK p : p = ListChanges(cursor)
  OBVIOUS
<1>3. /\ p \in Pages
      /\ p.change.op # "none" => p.change.rid \in ServerIds
      /\ p.change.op = "upsert" => p.change.pkg \in Hashes
  BY <1>2, PageTyped DEF SyncInv, StoreInv, StoreTypeOK
<1>4. PICK w : w = [v EXCEPT !.pc = "page", !.page = p]
  OBVIOUS
<1>5. /\ v.pc = "pull" /\ UNCHANGED <<storeVars, serverVars, applied, seen>>
      /\ late' = late /\ thread' = [thread EXCEPT ![t] = w]
  <2>1. thread' = [thread EXCEPT ![t].pc = "page", ![t].page = p]
    BY <1>2 DEF FetchPage
  <2>2. thread \in [Threads -> ThreadStates]
    BY DEF SyncInv, ThreadInv
  <2>3. thread' = [thread EXCEPT ![t] = w]
    BY <1>1, <1>4, <2>1, <2>2
  <2> QED
    BY <1>1, <2>3 DEF FetchPage
<1>6. /\ w \in ThreadStates /\ w.pc = "page" /\ w.batch = v.batch /\ w.page = p
  <2>1. "page" \in PCs
    BY DEF PCs
  <2> QED
    BY <1>3, <1>4, <2>1 DEF ThreadStates
<1>7. ThreadOK(w) /\ HeldBy(w) \subseteq HeldBy(v)
  BY <1>1, <1>3, <1>5, <1>6 DEF ThreadOK, HeldBy
<1>8. Reqs' \subseteq Reqs
  BY <1>5, <1>6, ReqsAfter DEF Reqs
<1>9. RequestInv'
  BY <1>5, <1>8, RequestsUnmoved
<1> QED
  BY <1>1, <1>5, <1>6, <1>7, <1>9, ThreadOnly

(* What a page that speaks of skill rid at revision rev does to row k: the *)
(* row goes with its acked mutations, or the chain stays and the row stays *)
(* or is that skill at that revision.                                      *)
Pulled(k, rid, rev) ==
    \/ outbox'[k] = <<>> /\ Unacked(k) = {} /\ row'[k].rev = 0
    \/ /\ outbox'[k] = outbox[k]
       /\ \/ outbox[k] = <<>> /\ row[k].remoteId = None
          \/ row'[k].remoteId = row[k].remoteId
       /\ \/ row'[k].remoteId = row[k].remoteId /\ row'[k].rev = row[k].rev
          \/ row'[k].remoteId = rid /\ rid # None /\ row'[k].rev = rev

LEMMA UpsertPulls ==
    ASSUME StoreInv, NEW rid \in ServerIds, NEW rev \in Nat, NEW hash \in Hashes,
           NEW next \in Nat, ApplyUpsert(rid, rev, hash, next)
    PROVE  \A k \in RowIds : Pulled(k, rid, rev)
<1>1. /\ row \in [RowIds -> Rows] /\ outbox' = outbox /\ rid \in RowIds
      /\ rid # None
  BY TypesAssumption DEF StoreInv, StoreTypeOK, ApplyUpsert, RowIds
<1>2. CASE row' = row
  BY <1>1, <1>2 DEF Pulled
<1>3. CASE Matches(rid) = {}
  <2>1. row' = [row EXCEPT ![rid] = [remoteId |-> rid, rev |-> rev, cur |-> hash,
                                     rem |-> hash, state |-> "remote_only"]]
    BY <1>3 DEF ApplyUpsert, UpsertNew
  <2>2. row'[rid].remoteId = rid /\ row'[rid].rev = rev
    BY <1>1, <2>1
  <2>3. outbox[rid] = <<>> /\ row[rid].remoteId = None
    BY <1>1, <1>3 DEF Matches, StoreInv, RowsWellFormed
  <2>4. \A k \in RowIds \ {rid} : row'[k] = row[k]
    BY <1>1, <2>1
  <2>5. Pulled(rid, rid, rev)
    BY <1>1, <2>2, <2>3 DEF Pulled
  <2>6. \A k \in RowIds \ {rid} : Pulled(k, rid, rev)
    BY <1>1, <2>4 DEF Pulled
  <2> QED
    BY <2>5, <2>6
<1>4. CASE Matches(rid) # {} /\ row' # row
  <2>1. PICK l \in Matches(rid) : UpsertMatched(l, rev, hash)
    BY <1>4 DEF ApplyUpsert
  <2>2. l \in RowIds /\ row[l].remoteId = rid
    BY <2>1, MatchesMirror
  <2>3. row' = [row EXCEPT ![l] = Refreshed(l, rev, hash)]
    BY <1>4, <2>1 DEF UpsertMatched
  <2>4. row'[l].remoteId = rid /\ row'[l].rev = rev
    BY <1>1, <2>2, <2>3 DEF Refreshed
  <2>5. \A k \in RowIds \ {l} : row'[k] = row[k]
    BY <1>1, <2>3
  <2>6. Pulled(l, rid, rev)
    BY <1>1, <2>2, <2>4 DEF Pulled
  <2>7. \A k \in RowIds \ {l} : Pulled(k, rid, rev)
    BY <1>1, <2>5 DEF Pulled
  <2> QED
    BY <2>6, <2>7
<1> QED
  BY <1>2, <1>3, <1>4

LEMMA TombstonePulls ==
    ASSUME StoreInv, NEW rid \in ServerIds, NEW rev \in Nat,
           NEW next \in Nat, ApplyTombstone(rid, rev, next)
    PROVE  \A k \in RowIds : Pulled(k, rid, rev)
<1>1. /\ row \in [RowIds -> Rows] /\ outbox \in [RowIds -> Seq(Mutations)]
      /\ rid # None
  BY TypesAssumption DEF StoreInv, StoreTypeOK
<1>2. CASE row' = row /\ outbox' = outbox
  BY <1>2 DEF Pulled
<1>3. CASE ~(row' = row /\ outbox' = outbox)
  <2>1. PICK l \in Matches(rid) : TombstoneMatched(l, rev) /\ ~Stale(l, rev)
    BY <1>3 DEF ApplyTombstone, TombstoneMatched
  <2>2. l \in RowIds /\ row[l].remoteId = rid
    BY <2>1, MatchesMirror
  <2>3. CASE Unacked(l) # {}
    <3>1. row' = [row EXCEPT ![l].rev = rev, ![l].state = "conflict"]
            /\ outbox' = outbox
      BY <2>1, <2>3 DEF TombstoneMatched
    <3>2. /\ row'[l].remoteId = rid /\ row'[l].rev = rev
          /\ \A k \in RowIds \ {l} : row'[k] = row[k]
      BY <1>1, <2>2, <3>1 DEF Rows
    <3>3. Pulled(l, rid, rev)
      BY <1>1, <2>2, <3>1, <3>2 DEF Pulled
    <3>4. \A k \in RowIds \ {l} : Pulled(k, rid, rev)
      BY <3>1, <3>2 DEF Pulled
    <3> QED
      BY <3>3, <3>4
  <2>4. CASE Unacked(l) = {}
    <3>1. row' = [row EXCEPT ![l] = NoRow] /\ outbox' = [outbox EXCEPT ![l] = <<>>]
      BY <2>1, <2>4 DEF TombstoneMatched
    <3>2. row'[l] = NoRow /\ \A k \in RowIds \ {l} : row'[k] = row[k]
      BY <1>1, <2>2, <3>1
    <3>3. outbox'[l] = <<>> /\ \A k \in RowIds \ {l} : outbox'[k] = outbox[k]
      BY <1>1, <2>2, <3>1
    <3>4. Pulled(l, rid, rev)
      BY <2>4, <3>2, <3>3 DEF Pulled, NoRow
    <3>5. \A k \in RowIds \ {l} : Pulled(k, rid, rev)
      BY <3>2, <3>3 DEF Pulled
    <3> QED
      BY <3>4, <3>5
  <2> QED
    BY <2>3, <2>4
<1> QED
  BY <1>2, <1>3

(* A page keeps every mutation that is not acked where it is.              *)
LEMMA PulledParts ==
    ASSUME SyncInv, NEW rid, NEW rev, \A k \in RowIds : Pulled(k, rid, rev),
           UNCHANGED receipt, seen' = seen \cup {<<rid, rev>>}
    PROVE  /\ EntryInv' /\ RowInv' /\ ClaimsKept({})
           /\ \A k \in RowIds : \A i \in DOMAIN outbox'[k] : Old(k, i)
<1>1. ASSUME NEW k \in RowIds, NEW i \in DOMAIN outbox'[k]
      PROVE  /\ outbox'[k] = outbox[k] /\ i \in DOMAIN outbox[k]
             /\ row'[k].remoteId = row[k].remoteId
  <2>1. outbox'[k] # <<>>
    OBVIOUS
  <2> QED
    BY <2>1 DEF Pulled
<1>2. ASSUME NEW k \in RowIds, NEW i \in DOMAIN outbox'[k]
      PROVE  /\ EntryOK(i, outbox'[k][i], row'[k].remoteId,
                        receipt'[outbox'[k][i].id], seen')
             /\ Old(k, i)
  <2>1. /\ outbox'[k] = outbox[k] /\ i \in DOMAIN outbox[k]
        /\ row'[k].remoteId = row[k].remoteId
    BY <1>1
  <2>2. EntryOK(i, outbox[k][i], row[k].remoteId, receipt[outbox[k][i].id], seen)
    BY <2>1 DEF SyncInv, EntryInv
  <2>3. EntryOK(i, outbox[k][i], row[k].remoteId, receipt[outbox[k][i].id], seen')
    BY <2>2, EntryTold
  <2> QED
    BY <2>1, <2>3 DEF Old, SameMutation
<1>3. EntryInv'
  BY <1>2 DEF EntryInv
<1>4. RowInv'
  <2> SUFFICES ASSUME NEW k \in RowIds, row'[k].rev # 0
               PROVE  row'[k].remoteId # None
                        /\ <<row'[k].remoteId, row'[k].rev>> \in seen'
    BY DEF RowInv
  <2>1. \/ row'[k].remoteId = row[k].remoteId /\ row'[k].rev = row[k].rev
        \/ row'[k].remoteId = rid /\ rid # None /\ row'[k].rev = rev
    BY DEF Pulled
  <2> QED
    BY <2>1 DEF SyncInv, RowInv
<1>5. ClaimsKept({})
  <2> SUFFICES ASSUME NEW k \in RowIds, NEW i \in DOMAIN outbox[k],
                      outbox[k][i].state = "in_flight"
               PROVE  outbox'[k] = outbox[k]
    BY DEF ClaimsKept
  <2>1. i \in Unacked(k)
    BY DEF Unacked
  <2> QED
    BY <2>1 DEF Pulled
<1> QED
  BY <1>2, <1>3, <1>4, <1>5

(* apply_changes_page.                                                     *)
LEMMA ApplyPageSafe ==
    ASSUME SyncInv, NEW t \in Threads, ApplyPage(t)
    PROVE  SyncInv' /\ KeepsWork
<1>1. PICK v \in ThreadStates : v = thread[t] /\ ThreadOK(v)
  BY DEF SyncInv, ThreadInv
<1>2. PICK p : p = v.page
  OBVIOUS
<1>3. PICK c : c = p.change
  OBVIOUS
<1>4. /\ v.pc = "page"
      /\ CASE c.op = "upsert" -> ApplyUpsert(c.rid, c.rev, c.pkg, p.next)
           [] c.op = "delete" -> ApplyTombstone(c.rid, c.rev, p.next)
           [] c.op = "none" -> ApplyEmptyPage(p.next)
      /\ seen' = seen \cup {<<c.rid, c.rev>>}
      /\ thread' = [thread EXCEPT ![t] = IF p.more THEN At("pull", {}) ELSE Idle]
      /\ UNCHANGED <<serverVars, late, failures, applied>>
  BY <1>1, <1>2, <1>3 DEF ApplyPage
<1>5. /\ p \in Pages
      /\ c \in Changes /\ p.next \in Nat /\ c.rev \in Nat
      /\ c.op \in {"none", "upsert", "delete"}
      /\ c.op # "none" => c.rid \in ServerIds
      /\ c.op = "upsert" => c.pkg \in Hashes
  <2>1. /\ p \in Pages
        /\ c.op # "none" => c.rid \in ServerIds
        /\ c.op = "upsert" => c.pkg \in Hashes
    BY <1>1, <1>2, <1>3, <1>4 DEF ThreadOK
  <2>2. c \in Changes /\ p.next \in Nat
    BY <1>3, <2>1 DEF Pages
  <2> QED
    BY <2>1, <2>2 DEF Changes
<1>6. /\ StoreInv' /\ KeepsWork /\ nextId' = nextId
      /\ \A k \in RowIds : Pulled(k, c.rid, c.rev)
  <2>1. CASE c.op = "upsert"
    <3>1. ApplyUpsert(c.rid, c.rev, c.pkg, p.next)
      BY <1>4, <2>1
    <3> QED
      BY <1>5, <2>1, <3>1, ApplyUpsertSafe, UpsertPulls DEF SyncInv, ApplyUpsert
  <2>2. CASE c.op = "delete"
    <3>1. ApplyTombstone(c.rid, c.rev, p.next)
      BY <1>4, <2>2
    <3> QED
      BY <1>5, <2>2, <3>1, ApplyTombstoneSafe, TombstonePulls
         DEF SyncInv, ApplyTombstone
  <2>3. CASE c.op = "none"
    <3>1. ApplyEmptyPage(p.next)
      BY <1>4, <2>3
    <3>2. StoreInv' /\ KeepsWork
      BY <1>5, <3>1, NothingChangesSafe DEF SyncInv, ApplyEmptyPage
    <3>3. \A k \in RowIds : Pulled(k, c.rid, c.rev)
      BY <3>1 DEF ApplyEmptyPage, Pulled
    <3> QED
      BY <3>1, <3>2, <3>3 DEF ApplyEmptyPage
  <2> QED
    BY <1>5, <2>1, <2>2, <2>3
<1>7. /\ EntryInv' /\ RowInv' /\ ClaimsKept({})
      /\ \A k \in RowIds : \A i \in DOMAIN outbox'[k] : Old(k, i)
  <2>1. UNCHANGED receipt
    BY <1>4 DEF serverVars
  <2>2. PICK rid, rev : rid = c.rid /\ rev = c.rev
    OBVIOUS
  <2> QED
    BY <1>4, <1>6, <2>1, <2>2, PulledParts
<1>8. PICK w \in {At("pull", {}), Idle} : thread' = [thread EXCEPT ![t] = w]
  BY <1>4
<1>9. PICK none \in SUBSET v.batch : none = {}
  OBVIOUS
<1>10. /\ w \in ThreadStates /\ w.pc \notin {"sent", "replied"}
       /\ HeldBy(w) \subseteq HeldBy(v)
  BY <1>1, <1>8, <1>9, GoesOn
<1>11. ReceiptsKept
  BY <1>4 DEF ReceiptsKept, serverVars
<1>12. ThreadOK(w)'
  BY <1>1, <1>7, <1>8, <1>9, <1>11, RestOfBatch
<1>13. ThreadInv'
  <2>1. \A u \in Threads \ {t} : HeldBy(w) \cap HeldBy(thread[u]) = {}
    BY <1>1, <1>10 DEF SyncInv, ThreadInv
  <2> QED
    BY <1>7, <1>8, <1>10, <1>11, <1>12, <2>1, ThreadStep DEF SyncInv
<1>14. Reqs' \subseteq Reqs
  BY <1>4, <1>8, <1>10, ReqsAfter DEF Reqs
<1>15. ServerInv' /\ ReceiptInv' /\ AppliedInv' /\ UniqueIds' /\ RequestInv'
  <2>1. nextId' \in Nat /\ nextId <= nextId' /\ nextId' <= MaxMutations + 1
    BY <1>6 DEF SyncInv, UniqueIds, StoreInv, StoreTypeOK
  <2> QED
    BY <1>4, <1>7, <1>14, <2>1, TracedParts
<1> QED
  BY <1>6, <1>7, <1>13, <1>15 DEF SyncInv

-----------------------------------------------------------------------------
(* The answer.                                                             *)

(* A row that gets its remote id with an ack gets it from its create: no   *)
(* other mutation of the chain has reached the server yet.                 *)
LEMMA FirstAck ==
    ASSUME SyncInv, NEW k \in RowIds, NEW i \in DOMAIN outbox[k],
           receipt[outbox[k][i].id].status = "acked", row[k].remoteId = None,
           NEW j \in DOMAIN outbox[k] \ {i}
    PROVE  /\ outbox[k][j].op # "create" /\ outbox[k][j].base = 0
           /\ receipt[outbox[k][j].id] = NoReceipt
           /\ outbox[k][j].ack = 0
<1>1. NoReceipt.status = "none" /\ \A rid, rev : Acked(rid, rev).status = "acked"
  BY DEF NoReceipt, Refused, Acked, Response
<1>2. EntryOK(i, outbox[k][i], None, receipt[outbox[k][i].id], seen)
  BY DEF SyncInv, EntryInv
<1>3. EntryOK(j, outbox[k][j], None, receipt[outbox[k][j].id], seen)
  BY DEF SyncInv, EntryInv
<1>4. receipt[outbox[k][i].id] # NoReceipt
  BY <1>1
<1>5. i = 1
  BY <1>2, <1>4 DEF EntryOK, CreateOK
<1>6. outbox[k][j].op # "create"
  BY <1>3, <1>5 DEF EntryOK, CreateOK
<1>7. outbox[k][j].base = 0 /\ receipt[outbox[k][j].id] = NoReceipt
  BY <1>3, <1>6 DEF EntryOK
<1> QED
  BY <1>1, <1>3, <1>6, <1>7 DEF EntryOK

(* apply_acked with the answer of the receipt.                             *)
LEMMA AckedParts ==
    ASSUME SyncInv, UNCHANGED receipt, seen \subseteq seen',
           NEW k \in RowIds, NEW i \in DOMAIN outbox[k],
           outbox[k][i].state = "in_flight",
           NEW rid \in ServerIds, NEW rev \in Nat,
           receipt[outbox[k][i].id] = Acked(rid, rev), <<rid, rev>> \in seen',
           ApplyAcked(k, i, rid, rev)
    PROVE  /\ StoreInv' /\ KeepsWork /\ nextId' = nextId
           /\ EntryInv' /\ RowInv'
           /\ \A l \in RowIds : \A j \in DOMAIN outbox'[l] : Old(l, j)
           /\ ClaimsKept({outbox[k][i].id})
<1>1. Acked(rid, rev).status = "acked" /\ Acked(rid, rev).rid = rid
      /\ NoReceipt.status = "none"
  BY DEF Acked, Response, NoReceipt, Refused
<1>2. EntryOK(i, outbox[k][i], row[k].remoteId, Acked(rid, rev), seen)
  BY DEF SyncInv, EntryInv
<1>3. row[k].remoteId \in {None, rid} /\ rid # None
  BY <1>1, <1>2, TypesAssumption DEF EntryOK
<1>4. StoreInv' /\ KeepsWork /\ nextId' = nextId
  BY <1>3, ApplyAckedSafe DEF SyncInv, ApplyAcked
<1>5. /\ row \in [RowIds -> Rows] /\ outbox \in [RowIds -> Seq(Mutations)]
      /\ outbox[k][i] \in Mutations /\ StoreInv
  BY DEF SyncInv, StoreInv, StoreTypeOK
<1>6. /\ row'[k].remoteId = rid /\ row'[k].rev = rev
      /\ \A l \in RowIds \ {k} : row'[l] = row[l]
  BY <1>5 DEF ApplyAcked, Rows
<1>7. PICK m : m = [outbox[k][i] EXCEPT !.state = "acked", !.ack = rev]
  OBVIOUS
<1>8. /\ m.id = outbox[k][i].id /\ m.op = outbox[k][i].op
      /\ m.base = outbox[k][i].base /\ m.payload = outbox[k][i].payload
      /\ m.state = "acked" /\ m.ack = rev
  BY <1>5, <1>7 DEF Mutations
<1>9. outbox' = [outbox EXCEPT ![k][i] = m]
  BY <1>7 DEF ApplyAcked
<1>10. /\ \A l \in RowIds \ {k} : outbox'[l] = outbox[l]
       /\ DOMAIN outbox'[k] = DOMAIN outbox[k]
       /\ outbox'[k][i] = m
       /\ \A j \in DOMAIN outbox[k] \ {i} : outbox'[k][j] = outbox[k][j]
  BY <1>5, <1>9, OutcomeEntries
<1>11. ASSUME NEW l \in RowIds, NEW j \in DOMAIN outbox'[l]
       PROVE  Old(l, j)
  <2>1. j \in DOMAIN outbox[l]
    BY <1>10
  <2>2. SameMutation(outbox[l][j], outbox'[l][j])
    BY <1>8, <1>10, <2>1 DEF SameMutation
  <2>3. row[l].remoteId # None => row'[l].remoteId = row[l].remoteId
    BY <1>3, <1>6
  <2> QED
    BY <2>1, <2>2, <2>3 DEF Old
<1>12. ASSUME NEW l \in RowIds, NEW j \in DOMAIN outbox'[l]
       PROVE  EntryOK(j, outbox'[l][j], row'[l].remoteId,
                      receipt'[outbox'[l][j].id], seen')
  <2>1. j \in DOMAIN outbox[l]
    BY <1>10
  <2>2. EntryOK(j, outbox[l][j], row[l].remoteId, receipt[outbox[l][j].id], seen')
    <3>1. EntryOK(j, outbox[l][j], row[l].remoteId, receipt[outbox[l][j].id], seen)
      BY <2>1 DEF SyncInv, EntryInv
    <3> QED
      BY <3>1, EntryTold
  <2>3. CASE l = k /\ j = i
    <3>1. EntryOK(i, outbox[k][i], row[k].remoteId, Acked(rid, rev), seen')
      BY <2>2, <2>3
    <3>2. EntryOK(i, m, rid, Acked(rid, rev), seen')
      BY <1>1, <1>3, <1>8, <3>1 DEF EntryOK, CreateOK, Refusals
    <3> QED
      BY <1>6, <1>8, <1>10, <2>3, <3>2
  <2>4. CASE l # k \/ (row[k].remoteId = rid /\ j # i)
    <3>1. outbox'[l][j] = outbox[l][j] /\ row'[l].remoteId = row[l].remoteId
      BY <1>6, <1>10, <2>1, <2>4
    <3> QED
      BY <2>2, <3>1
  <2>5. CASE l = k /\ j # i /\ row[k].remoteId = None
    <3>1. /\ outbox[k][j].op # "create" /\ outbox[k][j].base = 0
          /\ receipt[outbox[k][j].id] = NoReceipt
          /\ outbox[k][j].ack = 0
      BY <1>1, <2>1, <2>5, FirstAck
    <3>2. outbox'[k][j] = outbox[k][j]
      BY <1>10, <2>1, <2>5
    <3>3. EntryOK(j, outbox[k][j], rid, NoReceipt, seen')
      BY <1>1, <2>2, <2>5, <3>1 DEF EntryOK
    <3> QED
      BY <1>6, <2>5, <3>1, <3>2, <3>3
  <2> QED
    BY <1>3, <2>3, <2>4, <2>5
<1>13. EntryInv'
  BY <1>12 DEF EntryInv
<1>14. RowInv'
  <2>1. \A l \in RowIds \ {k} :
           row'[l].rev # 0 => row'[l].remoteId # None
                                /\ <<row'[l].remoteId, row'[l].rev>> \in seen'
    BY <1>6 DEF SyncInv, RowInv
  <2>2. row'[k].remoteId # None /\ <<row'[k].remoteId, row'[k].rev>> \in seen'
    BY <1>3, <1>6
  <2> QED
    BY <2>1, <2>2 DEF RowInv
<1>15. ClaimsKept({outbox[k][i].id})
  BY <1>10 DEF ClaimsKept
<1> QED
  BY <1>4, <1>11, <1>13, <1>14, <1>15

(* apply_definitive_error with the answer of the receipt, or with the      *)
(* refusal of a request that the server would not even read.               *)
LEMMA RefusedParts ==
    ASSUME SyncInv, UNCHANGED receipt, seen \subseteq seen',
           NEW k \in RowIds, NEW i \in DOMAIN outbox[k],
           outbox[k][i].state = "in_flight",
           NEW st \in Refusals,
           NEW rowState \in {"conflict", "access_revoked", "sync_error"},
           NEW head \in Nat, NEW hash \in Hashes \cup {None},
           DefinitiveError(k, i, st, rowState, head, hash),
           st = "conflict" => outbox[k][i].op # "create",
           receipt[outbox[k][i].id].status # "acked",
           \/ receipt[outbox[k][i].id] # NoReceipt
           \/ outbox[k][i].op # "create" /\ outbox[k][i].base = 0,
           head # 0 => /\ row[k].remoteId # None
                       /\ <<row[k].remoteId, head>> \in seen'
    PROVE  /\ StoreInv' /\ KeepsWork /\ nextId' = nextId
           /\ EntryInv' /\ RowInv'
           /\ \A l \in RowIds : \A j \in DOMAIN outbox'[l] : Old(l, j)
           /\ ClaimsKept({outbox[k][i].id})
<1>1. StoreInv' /\ KeepsWork /\ nextId' = nextId
  <2>1. st \in {"conflict", "permission_denied", "permanent_error"} /\ StoreInv
    BY DEF SyncInv, Refusals
  <2>2. StoreInv' /\ KeepsWork
    BY <2>1, DefinitiveErrorSafe
  <2>3. nextId' = nextId
    BY DEF DefinitiveError
  <2> QED
    BY <2>2, <2>3
<1>2. /\ row \in [RowIds -> Rows] /\ outbox \in [RowIds -> Seq(Mutations)]
      /\ outbox[k][i] \in Mutations /\ StoreInv
  BY DEF SyncInv, StoreInv, StoreTypeOK
<1>3. /\ row'[k].remoteId = row[k].remoteId
      /\ row'[k].rev = IF head = 0 THEN row[k].rev ELSE head
      /\ \A l \in RowIds \ {k} : row'[l] = row[l]
  BY <1>2 DEF DefinitiveError, Rows
<1>4. PICK m : m = [outbox[k][i] EXCEPT !.state = st]
  OBVIOUS
<1>5. /\ m.id = outbox[k][i].id /\ m.op = outbox[k][i].op
      /\ m.base = outbox[k][i].base /\ m.payload = outbox[k][i].payload
      /\ m.state = st /\ m.ack = outbox[k][i].ack
  BY <1>2, <1>4 DEF Mutations
<1>6. outbox' = [outbox EXCEPT ![k][i] = m]
  BY <1>4 DEF DefinitiveError
<1>7. /\ \A l \in RowIds \ {k} : outbox'[l] = outbox[l]
      /\ DOMAIN outbox'[k] = DOMAIN outbox[k]
      /\ outbox'[k][i] = m
      /\ \A j \in DOMAIN outbox[k] \ {i} : outbox'[k][j] = outbox[k][j]
  BY <1>2, <1>6, OutcomeEntries
<1>8. ASSUME NEW l \in RowIds, NEW j \in DOMAIN outbox'[l]
      PROVE  /\ Old(l, j)
             /\ EntryOK(j, outbox'[l][j], row'[l].remoteId,
                        receipt'[outbox'[l][j].id], seen')
  <2>1. j \in DOMAIN outbox[l] /\ row'[l].remoteId = row[l].remoteId
    BY <1>3, <1>7
  <2>2. EntryOK(j, outbox[l][j], row[l].remoteId, receipt[outbox[l][j].id], seen')
    <3>1. EntryOK(j, outbox[l][j], row[l].remoteId, receipt[outbox[l][j].id], seen)
      BY <2>1 DEF SyncInv, EntryInv
    <3> QED
      BY <3>1, EntryTold
  <2>3. SameMutation(outbox[l][j], outbox'[l][j])
    BY <1>5, <1>7, <2>1 DEF SameMutation, Refusals
  <2>4. CASE l = k /\ j = i
    <3>1. EntryOK(i, outbox[k][i], row[k].remoteId, receipt[outbox[k][i].id], seen')
      BY <2>2, <2>4
    <3>2. EntryOK(i, m, row[k].remoteId, receipt[outbox[k][i].id], seen')
      BY <1>5, <3>1 DEF EntryOK, CreateOK, Refusals
    <3> QED
      BY <1>5, <1>7, <2>1, <2>3, <2>4, <3>2 DEF Old
  <2>5. CASE ~(l = k /\ j = i)
    <3>1. outbox'[l][j] = outbox[l][j]
      BY <1>7, <2>1, <2>5
    <3> QED
      BY <2>1, <2>2, <2>3, <3>1 DEF Old
  <2> QED
    BY <2>4, <2>5
<1>9. EntryInv'
  BY <1>8 DEF EntryInv
<1>10. RowInv'
  BY <1>3 DEF SyncInv, RowInv
<1>11. ClaimsKept({outbox[k][i].id})
  BY <1>7 DEF ClaimsKept
<1> QED
  BY <1>1, <1>8, <1>9, <1>10, <1>11

(* What apply_mutation_outcome does with answer a to request r.            *)
Outcome(r, a, i) ==
    CASE a.status = "acked" -> ApplyAcked(r.key, i, a.rid, a.rev)
      [] a.status = "conflict" -> ApplyConflict(r.key, i, a.head, a.pkg)
      [] a.status = "permission_denied" -> ApplyPermissionDenied(r.key, i)
      [] a.status \in {"validation_error", "http_request_error"} ->
           ApplyValidationError(r.key, i)
      [] a.status = "http_server_error" -> ApplyTransportError(r.key, i)

LEMMA OutcomeParts ==
    ASSUME SyncInv, UNCHANGED receipt, NEW r \in Requests, RequestOK(r),
           NEW i \in DOMAIN outbox[r.key], outbox[r.key][i].id = r.id,
           outbox[r.key][i].state = "in_flight",
           NEW a \in Responses, a.status # "none",
           a.status \in Definitive => a = receipt[r.id],
           a.status = "http_request_error" => ~WellFormed(r),
           seen' = seen \cup {<<a.rid, a.rev>>, <<r.remote, a.head>>},
           Outcome(r, a, i)
    PROVE  /\ StoreInv' /\ KeepsWork /\ nextId' = nextId
           /\ EntryInv' /\ RowInv'
           /\ \A l \in RowIds : \A j \in DOMAIN outbox'[l] : Old(l, j)
           /\ ClaimsKept({r.id})
<1>1. PICK k \in RowIds : k = r.key
  BY DEF Requests
<1>2. /\ i \in DOMAIN outbox[k] /\ outbox[k][i].id = r.id
      /\ outbox[k][i].state = "in_flight" /\ r.id \in Ids
      /\ seen \subseteq seen'
  BY <1>1 DEF Requests
<1>3. EntryOK(i, outbox[k][i], row[k].remoteId, receipt[r.id], seen)
  BY <1>2 DEF SyncInv, EntryInv
<1>4. Matching(r, k, outbox[k][i], row[k].remoteId)
  BY <1>2 DEF RequestOK
<1>5. NoReceipt.status = "none" /\ "none" \notin Definitive
  BY DEF NoReceipt, Refused, Response, Definitive
<1>6. /\ a.rid \in ServerIds \cup {None} /\ a.rev \in Nat /\ a.head \in Nat
      /\ a.pkg \in Hashes \cup {None}
  BY DEF Responses
<1>7. CASE a.status = "acked"
  <2>1. a = receipt[r.id]
    BY <1>7 DEF Definitive
  <2>2. a.rid \in ServerIds /\ receipt[r.id] = Acked(a.rid, a.rev)
    BY <1>2, <1>7, <2>1 DEF SyncInv, ReceiptInv
  <2>3. ApplyAcked(k, i, a.rid, a.rev)
    BY <1>1, <1>7 DEF Outcome
  <2>4. PICK rid \in ServerIds, rev \in Nat : rid = a.rid /\ rev = a.rev
    BY <1>6, <2>2
  <2>5. /\ receipt[outbox[k][i].id] = Acked(rid, rev) /\ <<rid, rev>> \in seen'
        /\ ApplyAcked(k, i, rid, rev)
    BY <1>2, <2>2, <2>3, <2>4
  <2> QED
    BY <1>2, <2>5, AckedParts
<1>8. CASE a.status = "conflict"
  <2>1. a = receipt[r.id] /\ receipt[r.id] # NoReceipt
    BY <1>5, <1>8 DEF Definitive
  <2>2. outbox[k][i].op # "create" /\ outbox[k][i].base # 0
    BY <1>3, <1>8, <2>1 DEF EntryOK, CreateOK
  <2>3. r.remote # None /\ row[k].remoteId = r.remote
    BY <1>4, <2>2 DEF Matching, RequestOK
  <2>4. DefinitiveError(k, i, "conflict", "conflict", a.head, a.pkg)
    BY <1>1, <1>8 DEF Outcome, ApplyConflict
  <2>5. PICK head \in Nat, hash \in Hashes \cup {None} : head = a.head /\ hash = a.pkg
    BY <1>6
  <2>6. /\ DefinitiveError(k, i, "conflict", "conflict", head, hash)
        /\ row[k].remoteId # None /\ <<row[k].remoteId, head>> \in seen'
        /\ receipt[outbox[k][i].id].status # "acked"
        /\ receipt[outbox[k][i].id] # NoReceipt
    BY <1>2, <1>8, <2>1, <2>3, <2>4, <2>5
  <2>7. "conflict" \in Refusals
    BY DEF Refusals
  <2> QED
    BY <1>2, <2>2, <2>6, <2>7, RefusedParts
<1>9. CASE a.status \in {"permission_denied", "validation_error"}
  <2>1. a = receipt[r.id] /\ receipt[r.id] # NoReceipt
    BY <1>5, <1>9 DEF Definitive
  <2>2. PICK st \in {"permission_denied", "permanent_error"},
             rowState \in {"access_revoked", "sync_error"} :
           DefinitiveError(k, i, st, rowState, 0, None)
    BY <1>1, <1>9 DEF Outcome, ApplyPermissionDenied, ApplyValidationError
  <2>3. receipt[outbox[k][i].id].status # "acked"
          /\ receipt[outbox[k][i].id] # NoReceipt
    BY <1>2, <1>9, <2>1
  <2>4. /\ st \in Refusals /\ st # "conflict"
        /\ rowState \in {"conflict", "access_revoked", "sync_error"}
    BY DEF Refusals
  <2>5. 0 \in Nat /\ None \in Hashes \cup {None}
    OBVIOUS
  <2>6. DefinitiveError(k, i, st, rowState, 0, None)
    BY <2>2
  <2> QED
    BY <1>2, <2>3, <2>4, <2>5, <2>6, RefusedParts
<1>10. CASE a.status = "http_request_error"
  <2>1. DefinitiveError(k, i, "permanent_error", "sync_error", 0, None)
    BY <1>1, <1>10 DEF Outcome, ApplyValidationError
  <2>2. r.op # "create" /\ r.base = 0
    <3>1. r.base \in Nat
      BY DEF Requests
    <3> QED
      BY <1>10, <3>1 DEF RequestOK, WellFormed
  <2>3. outbox[k][i].op # "create" /\ outbox[k][i].base = 0
    BY <1>4, <2>2 DEF Matching
  <2>4. receipt[outbox[k][i].id].status # "acked"
    BY <1>2, <1>3, <1>5, <2>3 DEF EntryOK
  <2>5. "permanent_error" \in Refusals /\ 0 \in Nat
    BY DEF Refusals
  <2> QED
    BY <1>2, <2>1, <2>3, <2>4, <2>5, RefusedParts
<1>11. CASE a.status = "http_server_error"
  <2>1. ApplyTransportError(k, i)
    BY <1>1, <1>11 DEF Outcome
  <2>2. StoreInv' /\ KeepsWork
    BY <1>2, <2>1, RetrySafe DEF SyncInv
  <2>3. /\ EntryInv' /\ RowInv' /\ nextId' = nextId
        /\ \A l \in RowIds : \A j \in DOMAIN outbox'[l] : Old(l, j)
        /\ ClaimsKept({r.id})
    BY <1>2, <2>1, RetryParts
  <2> QED
    BY <2>2, <2>3
<1> QED
  BY <1>7, <1>8, <1>9, <1>10, <1>11 DEF Responses, Statuses, Definitive

(* apply_mutation_outcome: the answer is that of the receipt, or none, and *)
(* the mutation is the one that the request was made from.                 *)
LEMMA ApplyReplySafe ==
    ASSUME SyncInv, NEW t \in Threads, ApplyReply(t)
    PROVE  SyncInv' /\ KeepsWork
<1>1. PICK v \in ThreadStates : v = thread[t] /\ ThreadOK(v)
  BY DEF SyncInv, ThreadInv
<1>2. PICK r, a, i : r = v.req /\ a = v.resp /\ i = IndexOf(r.key, r.id)
  OBVIOUS
<1>3. /\ v.pc = "replied" /\ Outcome(r, a, i)
      /\ seen' = seen \cup {<<a.rid, a.rev>>, <<r.remote, a.head>>}
      /\ thread' = [thread EXCEPT ![t] =
                      IF a.status \in Definitive THEN AfterPush(v.batch)
                                                 ELSE AfterFailure(v.batch)]
      /\ UNCHANGED <<serverVars, late, failures, applied>>
  BY <1>1, <1>2 DEF ApplyReply, Outcome
<1>4. /\ r \in Requests /\ Claimed(r.key, r.id)
      /\ \A p \in v.batch : p[2] # r.id
      /\ a \in Responses /\ a.status # "none"
      /\ a.status \in Definitive => a = receipt[r.id]
      /\ a.status = "http_request_error" => ~WellFormed(r)
  BY <1>1, <1>2, <1>3 DEF ThreadOK, ThreadStates
<1>5. RequestOK(r)
  BY <1>1, <1>2, <1>3 DEF SyncInv, RequestInv, Reqs, Sending
<1>6. /\ i \in DOMAIN outbox[r.key] /\ outbox[r.key][i].id = r.id
      /\ outbox[r.key][i].state = "in_flight"
  BY <1>2, <1>4, FoundClaim DEF SyncInv
<1>7. UNCHANGED receipt /\ ReceiptsKept
  BY <1>3 DEF serverVars, ReceiptsKept
<1>8. /\ StoreInv' /\ KeepsWork /\ nextId' = nextId
      /\ EntryInv' /\ RowInv'
      /\ \A l \in RowIds : \A j \in DOMAIN outbox'[l] : Old(l, j)
      /\ ClaimsKept({r.id})
  BY <1>3, <1>4, <1>5, <1>6, <1>7, OutcomeParts
<1>9. PICK B \in SUBSET v.batch : B = v.batch
  OBVIOUS
<1>10. PICK w \in {AfterPush(B), AfterFailure(B)} : thread' = [thread EXCEPT ![t] = w]
  BY <1>3, <1>9
<1>11. /\ w \in ThreadStates /\ w.pc \notin {"sent", "replied"}
       /\ HeldBy(w) \subseteq HeldBy(v)
  BY <1>1, <1>10, GoesOn
<1>12. ThreadOK(w)'
  BY <1>1, <1>4, <1>7, <1>8, <1>9, <1>10, RestOfBatch
<1>13. ThreadInv'
  <2>1. \A u \in Threads \ {t} : HeldBy(w) \cap HeldBy(thread[u]) = {}
    BY <1>1, <1>11 DEF SyncInv, ThreadInv
  <2>2. {r.id} \subseteq HeldBy(thread[t])
    BY <1>1, <1>2, <1>3 DEF HeldBy
  <2> QED
    BY <1>7, <1>8, <1>10, <1>11, <1>12, <2>1, <2>2, ThreadStep DEF SyncInv
<1>14. Reqs' \subseteq Reqs
  BY <1>3, <1>10, <1>11, ReqsAfter DEF Reqs
<1>15. ServerInv' /\ ReceiptInv' /\ AppliedInv' /\ UniqueIds' /\ RequestInv'
  <2>1. nextId' \in Nat /\ nextId <= nextId' /\ nextId' <= MaxMutations + 1
    BY <1>8 DEF SyncInv, UniqueIds, StoreInv, StoreTypeOK
  <2>2. seen \subseteq seen'
    BY <1>3
  <2> QED
    BY <1>3, <1>8, <1>14, <2>1, <2>2, TracedParts
<1> QED
  BY <1>8, <1>13, <1>15 DEF SyncInv

-----------------------------------------------------------------------------
(* The user's commands.                                                    *)

(* Mutation j of skill l is what it was, or a conflict that is settled.    *)
Restated(l, j) ==
    /\ j \in DOMAIN outbox[l]
    /\ SameMutation(outbox[l][j], outbox'[l][j])
    /\ outbox'[l][j].ack = outbox[l][j].ack
    /\ \/ outbox'[l][j].state = outbox[l][j].state
       \/ outbox[l][j].state = "conflict" /\ outbox'[l][j].state = "acked"

(* Mutation n of skill k is new and was made from the row as it stands.    *)
Fresh(k, n) ==
    /\ nextId <= MaxMutations /\ nextId' = nextId + 1
    /\ \E op, hash :
          /\ outbox'[k][n] = NewMutation(op, row[k].rev, hash)
          /\ op = "create" => n = 1 /\ row[k].remoteId = None /\ row[k].rev = 0

(* A step of the user appends at most one mutation.                        *)
LEMMA UserParts ==
    ASSUME SyncInv, StoreInv', nextId' = nextId \/ nextId' = nextId + 1,
           nextId' <= MaxMutations + 1,
           UNCHANGED <<serverVars, thread, late, applied, seen>>,
           \A l \in RowIds : /\ row'[l].remoteId = row[l].remoteId
                             /\ row'[l].rev = row[l].rev
                             /\ DOMAIN outbox[l] \subseteq DOMAIN outbox'[l],
           NEW k \in RowIds, NEW n, n \notin DOMAIN outbox[k],
           \A l \in RowIds : \A j \in DOMAIN outbox'[l] :
              Restated(l, j) \/ (l = k /\ j = n /\ Fresh(k, n))
    PROVE  SyncInv'
<1>1. /\ receipt' = receipt /\ seen' = seen /\ thread' = thread /\ late' = late
      /\ UNCHANGED serverVars /\ applied' = applied
  BY DEF serverVars
<1>2. nextId \in Nat /\ MaxMutations \in Nat
  BY TypesAssumption DEF SyncInv, StoreInv, StoreTypeOK
<1>3. ASSUME Fresh(k, n)
      PROVE  /\ outbox'[k][n].id = nextId /\ nextId < nextId'
             /\ EntryOK(n, outbox'[k][n], row[k].remoteId,
                        receipt[outbox'[k][n].id], seen)
  <2>1. PICK op, hash :
          /\ outbox'[k][n] = NewMutation(op, row[k].rev, hash)
          /\ op = "create" => n = 1 /\ row[k].remoteId = None /\ row[k].rev = 0
    BY <1>3 DEF Fresh
  <2>2. PICK m : m = outbox'[k][n]
    OBVIOUS
  <2>3. /\ m.id = nextId /\ m.op = op /\ m.base = row[k].rev
        /\ m.state = "pending" /\ m.ack = 0
    BY <2>1, <2>2 DEF NewMutation
  <2>4. nextId \in Ids /\ nextId < nextId'
    BY <1>2, <1>3 DEF Fresh, Ids, SyncInv, UniqueIds
  <2>5. receipt[nextId] = NoReceipt
    <3>1. ~(nextId < nextId)
      BY <1>2
    <3> QED
      BY <2>4, <3>1 DEF SyncInv, ReceiptInv
  <2>6. NoReceipt.status = "none"
    BY DEF NoReceipt, Refused, Response
  <2>7. row[k].rev # 0
          => row[k].remoteId # None /\ <<row[k].remoteId, row[k].rev>> \in seen
    BY DEF SyncInv, RowInv
  <2>8. EntryOK(n, m, row[k].remoteId, NoReceipt, seen)
    BY <2>1, <2>3, <2>6, <2>7 DEF EntryOK, CreateOK, Refusals
  <2> QED
    BY <2>2, <2>3, <2>4, <2>5, <2>8
<1>4. ASSUME NEW l \in RowIds, NEW j \in DOMAIN outbox'[l], Restated(l, j)
      PROVE  /\ Old(l, j)
             /\ EntryOK(j, outbox'[l][j], row[l].remoteId,
                        receipt[outbox'[l][j].id], seen)
  <2>1. /\ j \in DOMAIN outbox[l]
        /\ SameMutation(outbox[l][j], outbox'[l][j])
    BY <1>4 DEF Restated
  <2>2. Old(l, j) /\ outbox'[l][j].id = outbox[l][j].id
    BY <2>1 DEF Old, SameMutation
  <2>3. EntryOK(j, outbox[l][j], row[l].remoteId, receipt[outbox[l][j].id], seen)
    BY <2>1 DEF SyncInv, EntryInv
  <2>4. EntryOK(j, outbox'[l][j], row[l].remoteId, receipt[outbox[l][j].id], seen)
    BY <1>4, <2>3 DEF Restated, SameMutation, EntryOK, CreateOK, Refusals
  <2> QED
    BY <2>2, <2>4
<1>5. EntryInv'
  <2>1. \A l \in RowIds : \A j \in DOMAIN outbox'[l] :
           EntryOK(j, outbox'[l][j], row[l].remoteId,
                   receipt[outbox'[l][j].id], seen)
    BY <1>3, <1>4
  <2> QED
    BY <1>1, <2>1 DEF EntryInv
<1>6. RowInv'
  BY <1>1 DEF SyncInv, RowInv
<1>7. ClaimsKept({})
  <2> SUFFICES ASSUME NEW l \in RowIds, NEW j \in DOMAIN outbox[l],
                      outbox[l][j].state = "in_flight"
               PROVE  /\ j \in DOMAIN outbox'[l]
                      /\ outbox'[l][j].id = outbox[l][j].id
                      /\ outbox'[l][j].state = "in_flight"
    BY DEF ClaimsKept
  <2>1. j \in DOMAIN outbox'[l]
    OBVIOUS
  <2>2. Restated(l, j)
    BY <2>1
  <2> QED
    BY <2>1, <2>2 DEF Restated, SameMutation
<1>8. ThreadInv'
  <2>1. ReceiptsKept
    BY <1>1 DEF ReceiptsKept
  <2> QED
    BY <1>1, <1>7, <2>1, ThreadsKept DEF SyncInv
<1>9. ServerInv' /\ ReceiptInv' /\ AppliedInv' /\ UniqueIds' /\ RequestInv'
  <2>1. nextId' \in Nat /\ nextId <= nextId'
    BY <1>2
  <2>2. Reqs' \subseteq Reqs
    BY <1>1 DEF Reqs, Sending
  <2>3. \A l \in RowIds : \A j \in DOMAIN outbox'[l] :
           \/ Old(l, j)
           \/ l = k /\ j = n /\ outbox'[l][j].id = nextId /\ nextId < nextId'
    BY <1>3, <1>4
  <2> QED
    BY <1>1, <2>1, <2>2, <2>3, TracedParts
<1> QED
  BY <1>5, <1>6, <1>8, <1>9 DEF SyncInv

(* A mutation is appended to the chain of skill k, itself or superseded.   *)
LEMMA AppendParts ==
    ASSUME SyncInv, StoreInv', UNCHANGED <<serverVars, thread, late, applied, seen>>,
           nextId <= MaxMutations, nextId' = nextId + 1,
           \A l \in RowIds : /\ row'[l].remoteId = row[l].remoteId
                             /\ row'[l].rev = row[l].rev,
           NEW k \in RowIds, NEW s \in {outbox[k], Superseded(k)},
           NEW op \in {"create", "update", "delete"}, NEW hash \in Hashes,
           op = "create" =>
              outbox[k] = <<>> /\ row[k].remoteId = None /\ row[k].rev = 0,
           outbox' = [outbox EXCEPT ![k] =
                        Append(s, NewMutation(op, row[k].rev, hash))]
    PROVE  SyncInv'
<1>1. /\ outbox \in [RowIds -> Seq(Mutations)] /\ outbox[k] \in Seq(Mutations)
      /\ row[k].rev \in Nat /\ nextId \in Nat /\ MaxMutations \in Nat
  BY TypesAssumption DEF SyncInv, StoreInv, StoreTypeOK, Rows
<1>2. PICK m : m = NewMutation(op, row[k].rev, hash)
  OBVIOUS
<1>3. m \in Mutations
  BY <1>1, <1>2 DEF NewMutation, Mutations, MutStates
<1>4. /\ s \in Seq(Mutations) /\ DOMAIN s = DOMAIN outbox[k]
      /\ \A i \in DOMAIN outbox[k] :
            /\ SameMutation(outbox[k][i], s[i]) /\ s[i].ack = outbox[k][i].ack
            /\ \/ s[i].state = outbox[k][i].state
               \/ outbox[k][i].state = "conflict" /\ s[i].state = "acked"
  <2>1. CASE s = outbox[k]
    BY <1>1, <2>1 DEF SameMutation
  <2>2. CASE s = Superseded(k)
    BY <2>2, SupersededChain, SupersededEntries DEF SyncInv
  <2> QED
    BY <2>1, <2>2
<1>5. PICK n : n = Len(s) + 1
  OBVIOUS
<1>6. /\ outbox'[k] = Append(s, m)
      /\ \A l \in RowIds \ {k} : outbox'[l] = outbox[l]
  BY <1>1, <1>2
<1>7. /\ DOMAIN outbox'[k] = DOMAIN s \cup {n} /\ n \notin DOMAIN s
      /\ \A i \in DOMAIN s : outbox'[k][i] = s[i]
      /\ outbox'[k][n] = m
  <2>1. /\ DOMAIN Append(s, m) = DOMAIN s \cup {n}
        /\ \A i \in DOMAIN s : Append(s, m)[i] = s[i] /\ i < n
        /\ Append(s, m)[n] = m /\ n \in Nat
    BY <1>3, <1>4, <1>5, ExtendedChain
  <2>2. ~(n < n)
    BY <2>1
  <2> QED
    BY <1>6, <2>1, <2>2
<1>8. Fresh(k, n)
  <2>1. op = "create" => n = 1
    <3>1. ASSUME op = "create" PROVE Len(s) = 0
      BY <1>4, <3>1
    <3> QED
      BY <1>5, <3>1
  <2> QED
    BY <1>2, <1>7, <2>1 DEF Fresh
<1>9. \A l \in RowIds : DOMAIN outbox[l] \subseteq DOMAIN outbox'[l]
  BY <1>4, <1>6, <1>7
<1>10. ASSUME NEW l \in RowIds, NEW j \in DOMAIN outbox'[l]
       PROVE  Restated(l, j) \/ (l = k /\ j = n /\ Fresh(k, n))
  <2>1. CASE l # k
    BY <1>6, <2>1 DEF Restated, SameMutation
  <2>2. CASE l = k /\ j \in DOMAIN s
    BY <1>4, <1>7, <2>2 DEF Restated
  <2>3. CASE l = k /\ j = n
    BY <1>8, <2>3
  <2> QED
    BY <1>7, <2>1, <2>2, <2>3
<1>11. nextId' <= MaxMutations + 1
  BY <1>1
<1> QED
  BY <1>4, <1>7, <1>9, <1>10, <1>11, UserParts

(* A command that adds no mutation relabels the row, and may settle the    *)
(* conflicts of its chain.                                                 *)
LEMMA RelabelParts ==
    ASSUME SyncInv, StoreInv', nextId' = nextId,
           UNCHANGED <<serverVars, thread, late, applied, seen>>,
           \A l \in RowIds : /\ row'[l].remoteId = row[l].remoteId
                             /\ row'[l].rev = row[l].rev,
           NEW k \in RowIds,
           outbox' = outbox \/ outbox' = [outbox EXCEPT ![k] = Superseded(k)]
    PROVE  SyncInv'
<1>1. /\ outbox \in [RowIds -> Seq(Mutations)] /\ outbox[k] \in Seq(Mutations)
      /\ nextId \in Nat /\ nextId <= MaxMutations + 1
  BY DEF SyncInv, StoreInv, StoreTypeOK, UniqueIds
<1>2. ASSUME NEW l \in RowIds
      PROVE  /\ DOMAIN outbox'[l] = DOMAIN outbox[l]
             /\ \A j \in DOMAIN outbox[l] : Restated(l, j)
  <2>1. CASE outbox'[l] = outbox[l]
    BY <2>1 DEF Restated, SameMutation
  <2>2. CASE l = k /\ outbox'[l] = Superseded(k)
    BY <2>2, SupersededEntries DEF SyncInv, Restated
  <2> QED
    BY <1>1, <2>1, <2>2
<1>3. PICK n \in {0} : n \notin DOMAIN outbox[k]
  BY <1>1
<1> QED
  BY <1>1, <1>2, <1>3, UserParts

(* The commands of the user, at the revision and the snapshot that the row *)
(* shows.                                                                  *)
LEMMA UserCommandSafe ==
    ASSUME SyncInv, UserCommand
    PROVE  SyncInv' /\ KeepsWork
<1>1. UNCHANGED <<serverVars, thread, late, applied, seen>>
  BY DEF UserCommand
<1>2. PICK k \in RowIds :
        \/ \E hash \in Hashes : CommitSkillEdit(k, hash, row[k].rev)
        \/ QueueSkillDelete(k, row[k].rev)
        \/ ResolveKeepLocal(k)
        \/ ResolveKeepRemote(k)
        \/ MarkSkillHydrated(k, row[k].cur)
        \/ ClaimSkillForEviction(k, row[k].cur)
  BY DEF UserCommand
<1>3. /\ row \in [RowIds -> Rows] /\ row[k] \in Rows /\ row[k].rev \in Nat
      /\ StoreInv
      /\ ~Present(k) => row[k].remoteId = None /\ outbox[k] = <<>>
      /\ Present(k) => row[k].cur \in Hashes
  BY DEF SyncInv, StoreInv, StoreTypeOK, Rows, RowsWellFormed
<1>4. ASSUME NEW hash \in Hashes, CommitSkillEdit(k, hash, row[k].rev)
      PROVE  SyncInv' /\ KeepsWork
  <2>1. StoreInv' /\ KeepsWork
    BY <1>3, <1>4, CommitSkillEditSafe
  <2>2. \A l \in RowIds : row'[l].remoteId = row[l].remoteId
                            /\ row'[l].rev = row[l].rev
    BY <1>3, <1>4 DEF CommitSkillEdit, Rows
  <2>3. PICK op \in {"create", "update", "delete"} :
           op = IF Present(k) THEN "update" ELSE "create"
    OBVIOUS
  <2>4. outbox' = [outbox EXCEPT ![k] =
                     Append(outbox[k], NewMutation(op, row[k].rev, hash))]
    BY <1>4, <2>3 DEF CommitSkillEdit
  <2>5. op = "create" =>
           outbox[k] = <<>> /\ row[k].remoteId = None /\ row[k].rev = 0
    BY <1>3, <1>4, <2>3 DEF CommitSkillEdit
  <2>6. nextId <= MaxMutations /\ nextId' = nextId + 1
    BY <1>4 DEF CommitSkillEdit
  <2>7. PICK s \in {outbox[k], Superseded(k)} : s = outbox[k]
    OBVIOUS
  <2> QED
    BY <1>1, <2>1, <2>2, <2>4, <2>5, <2>6, <2>7, AppendParts
<1>5. ASSUME QueueSkillDelete(k, row[k].rev)
      PROVE  SyncInv' /\ KeepsWork
  <2>1. StoreInv' /\ KeepsWork
    BY <1>3, <1>5, QueueSkillDeleteSafe
  <2>2. \A l \in RowIds : row'[l].remoteId = row[l].remoteId
                            /\ row'[l].rev = row[l].rev
    BY <1>3, <1>5 DEF QueueSkillDelete, Rows
  <2>3. PICK s \in {outbox[k], Superseded(k)}, hash \in Hashes,
             op \in {"create", "update", "delete"} :
           s = outbox[k] /\ hash = row[k].cur /\ op = "delete"
    BY <1>3, <1>5 DEF QueueSkillDelete
  <2>4. outbox' = [outbox EXCEPT ![k] =
                     Append(s, NewMutation(op, row[k].rev, hash))]
    BY <1>5, <2>3 DEF QueueSkillDelete
  <2>5. nextId <= MaxMutations /\ nextId' = nextId + 1
    BY <1>5 DEF QueueSkillDelete
  <2> QED
    BY <1>1, <2>1, <2>2, <2>3, <2>4, <2>5, AppendParts
<1>6. ASSUME ResolveKeepLocal(k)
      PROVE  SyncInv' /\ KeepsWork
  <2>1. StoreInv' /\ KeepsWork
    BY <1>3, <1>6, ResolveKeepLocalSafe
  <2>2. \A l \in RowIds : row'[l].remoteId = row[l].remoteId
                            /\ row'[l].rev = row[l].rev
    BY <1>3, <1>6 DEF ResolveKeepLocal, Rows
  <2>3. PICK s \in {outbox[k], Superseded(k)}, hash \in Hashes,
             op \in {"create", "update", "delete"} :
           s = Superseded(k) /\ hash = row[k].cur /\ op = "update"
    BY <1>3, <1>6 DEF ResolveKeepLocal, Present
  <2>4. outbox' = [outbox EXCEPT ![k] =
                     Append(s, NewMutation(op, row[k].rev, hash))]
    BY <1>6, <2>3 DEF ResolveKeepLocal
  <2>5. nextId <= MaxMutations /\ nextId' = nextId + 1
    BY <1>6 DEF ResolveKeepLocal
  <2> QED
    BY <1>1, <2>1, <2>2, <2>3, <2>4, <2>5, AppendParts
<1>7. ASSUME ResolveKeepRemote(k)
      PROVE  SyncInv' /\ KeepsWork
  <2>1. StoreInv' /\ KeepsWork
    BY <1>3, <1>7, ResolveKeepRemoteSafe
  <2>2. \A l \in RowIds : row'[l].remoteId = row[l].remoteId
                            /\ row'[l].rev = row[l].rev
    BY <1>3, <1>7 DEF ResolveKeepRemote, Rows
  <2>3. outbox' = [outbox EXCEPT ![k] = Superseded(k)] /\ nextId' = nextId
    BY <1>7 DEF ResolveKeepRemote
  <2> QED
    BY <1>1, <2>1, <2>2, <2>3, RelabelParts
<1>8. ASSUME MarkSkillHydrated(k, row[k].cur) \/ ClaimSkillForEviction(k, row[k].cur)
      PROVE  SyncInv' /\ KeepsWork
  <2>1. PICK hash \in Hashes : hash = row[k].cur
    BY <1>3, <1>8 DEF MarkSkillHydrated, ClaimSkillForEviction, Present
  <2>2. StoreInv' /\ KeepsWork
    <3>1. MarkSkillHydrated(k, hash) \/ ClaimSkillForEviction(k, hash)
      BY <1>8, <2>1
    <3> QED
      BY <1>3, <3>1, RelabelSafe
  <2>3. \A l \in RowIds : row'[l].remoteId = row[l].remoteId
                            /\ row'[l].rev = row[l].rev
    BY <1>3, <1>8 DEF MarkSkillHydrated, ClaimSkillForEviction, Rows
  <2>4. outbox' = outbox /\ nextId' = nextId
    BY <1>8 DEF MarkSkillHydrated, ClaimSkillForEviction
  <2> QED
    BY <1>1, <2>2, <2>3, <2>4, RelabelParts
<1> QED
  BY <1>2, <1>4, <1>5, <1>6, <1>7, <1>8

-----------------------------------------------------------------------------
(* What NeverOverwritesUnseen says of one step.                            *)
OverwritesOnlySeen ==
    \A s \in ServerIds :
        rest' = rest /\ skill'[s] # skill[s] /\ InTable(s)
          => <<s, skill[s].rev>> \in seen

(* Only the server's answer to a device, or a request of the browser,      *)
(* changes a skill, and a device names the revision it was told of.        *)
LEMMA SkillsOverwritten ==
    ASSUME SyncInv, SyncNext
    PROVE  OverwritesOnlySeen
<1>1. ASSUME NEW r \in Reqs, Serve(r), nextId' = nextId
      PROVE  OverwritesOnlySeen
  <2>1. RequestOK(r)
    BY <1>1 DEF SyncInv, RequestInv
  <2> QED
    BY <1>1, <2>1, ServeParts DEF OverwritesOnlySeen
<1>2. CASE UNCHANGED skill
  BY <1>2 DEF OverwritesOnlySeen
<1>3. CASE Browser
  BY <1>3, BrowserSafe DEF OverwritesOnlySeen
<1>4. CASE LateDelivery
  BY <1>1, <1>4 DEF LateDelivery, Reqs, storeVars
<1>5. ASSUME NEW t \in Threads, ServerReplies(t)
      PROVE  OverwritesOnlySeen
  <2>1. thread[t].req \in Reqs
    BY <1>5 DEF ServerReplies, Reqs, Sending
  <2> QED
    BY <1>1, <1>5, <2>1 DEF ServerReplies, storeVars
<1>6. ASSUME NEW t \in Threads,
             \/ StartCycle(t) \/ Submit(t) \/ ApplyReply(t) \/ AckRollsBack(t)
             \/ ReleaseTail(t) \/ Pull(t) \/ Failure(t)
      PROVE  UNCHANGED skill
  BY <1>6 DEF StartCycle, Submit, ApplyReply, AckRollsBack, ReleaseTail, Pull,
     FetchPage, ApplyPage, Failure, UploadFails, Timeout, SessionRefused,
     PullFails, serverVars
<1>7. CASE Restart \/ UserCommand \/ Backoff
  BY <1>2, <1>7 DEF Restart, UserCommand, Backoff, serverVars
<1> QED
  BY <1>2, <1>3, <1>4, <1>5, <1>6, <1>7 DEF SyncNext, Push

(* Every step of the exchange keeps the invariant and all unacked work.    *)
LEMMA SyncStepSafe ==
    SyncInv /\ [SyncNext]_syncVars
      => SyncInv' /\ KeepsWork /\ (OverwritesOnlySeen \/ UNCHANGED syncVars)
<1> SUFFICES ASSUME SyncInv, [SyncNext]_syncVars
             PROVE  SyncInv' /\ KeepsWork
                      /\ (OverwritesOnlySeen \/ UNCHANGED syncVars)
  OBVIOUS
<1>1. ASSUME NEW t \in Threads,
             StartCycle(t) \/ Push(t) \/ Pull(t) \/ Failure(t)
      PROVE  SyncInv' /\ KeepsWork
  BY <1>1, StartCycleSafe, SubmitSafe, ServerRepliesSafe, ApplyReplySafe,
     LetGoSafe, ReleaseTailSafe, FetchPageSafe, ApplyPageSafe, UploadFailsSafe,
     TimeoutSafe DEF Push, Pull, Failure
<1>2. ASSUME LateDelivery \/ Restart \/ UserCommand \/ Backoff \/ Browser
      PROVE  SyncInv' /\ KeepsWork
  BY <1>2, LateDeliverySafe, RestartSafe, UserCommandSafe, BackoffSafe, BrowserSafe
<1>3. CASE UNCHANGED syncVars
  <2>1. /\ row' = row /\ outbox' = outbox /\ cursor' = cursor /\ nextId' = nextId
        /\ UNCHANGED <<serverVars, thread, late, applied, seen>>
    BY <1>3 DEF syncVars, storeVars
  <2>2. StoreInv' /\ KeepsWork
    BY <2>1, NothingChangesSafe DEF SyncInv, StoreInv, StoreTypeOK
  <2>3. ServerInv' /\ ReceiptInv' /\ AppliedInv'
    BY <2>1 DEF SyncInv, ServerInv, serverVars, InTable, ReceiptInv, AppliedInv
  <2>4. EntryInv' /\ UniqueIds' /\ RowInv'
    BY <2>1 DEF SyncInv, serverVars, EntryInv, UniqueIds, RowInv
  <2>5. RequestInv'
    <3>1. Reqs' \subseteq Reqs
      BY <2>1 DEF Reqs, Sending
    <3>2. UNCHANGED <<storeVars, seen>>
      BY <2>1 DEF storeVars
    <3> QED
      BY <3>1, <3>2, RequestsUnmoved
  <2>6. ThreadInv'
    <3>1. ASSUME NEW w, ThreadOK(w) PROVE ThreadOK(w)'
      BY <2>1, <3>1 DEF serverVars, ThreadOK, Claimed
    <3> QED
      BY <2>1, <3>1 DEF SyncInv, ThreadInv
  <2> QED
    BY <1>3, <2>2, <2>3, <2>4, <2>5, <2>6 DEF SyncInv
<1>4. SyncNext => SyncInv' /\ KeepsWork
  BY <1>1, <1>2 DEF SyncNext
<1> QED
  BY <1>3, <1>4, SkillsOverwritten

(* The inductive invariant of the exchange.                                *)
THEOREM SyncInvariant == SyncSpec => []SyncInv
<1>1. SyncInit => SyncInv
  BY SyncInitHolds
<1>2. SyncInv /\ [SyncNext]_syncVars => SyncInv'
  BY SyncStepSafe
<1> QED
  BY <1>1, <1>2, PTL DEF SyncSpec

(* Whatever the schedule, two cycles never hold the same mutation, and     *)
(* what a cycle holds is in flight in the store.                           *)
THEOREM ClaimsExclusive == SyncSpec => []ClaimExclusive
<1>1. SyncInv => ClaimExclusive
  <2> SUFFICES ASSUME SyncInv PROVE ClaimExclusive
    OBVIOUS
  <2>1. \A t \in Threads : Held(t) = HeldBy(thread[t])
    BY DEF Held, HeldBy
  <2>2. ASSUME NEW t \in Threads, NEW m \in Held(t)
        PROVE  \E k : Claimed(k, m)
    <3>1. ThreadOK(thread[t]) /\ m \in HeldBy(thread[t])
      BY <2>1 DEF SyncInv, ThreadInv
    <3> QED
      BY <3>1 DEF ThreadOK, HeldBy
  <2> QED
    BY <2>1, <2>2 DEF ClaimExclusive, Claimed, SyncInv, ThreadInv
<1> QED
  BY <1>1, SyncInvariant, PTL

(* However often a mutation is sent, and whenever the requests arrive, the *)
(* server applies it at most once, and the desktop never takes a mutation  *)
(* that the server has applied for a refused one.                          *)
THEOREM AppliedOnce == SyncSpec => []ExactlyOnce
<1>1. SyncInv => ExactlyOnce
  <2> SUFFICES ASSUME SyncInv PROVE ExactlyOnce
    OBVIOUS
  <2>1. \A m \in DOMAIN applied : applied[m] <= 1
    BY DEF SyncInv, ServerInv, AppliedInv
  <2>2. ASSUME NEW k \in RowIds, NEW i \in DOMAIN outbox[k],
               outbox[k][i].state \in Refusals
        PROVE  applied[outbox[k][i].id] = 0
    <3>1. EntryOK(i, outbox[k][i], row[k].remoteId, receipt[outbox[k][i].id], seen)
      BY DEF SyncInv, EntryInv
    <3>2. receipt[outbox[k][i].id].status # "acked" /\ outbox[k][i].id \in Ids
      BY <2>2, <3>1 DEF EntryOK, SyncInv, UniqueIds
    <3> QED
      BY <3>2 DEF SyncInv, AppliedInv
  <2> QED
    BY <2>1, <2>2 DEF ExactlyOnce, Refusals
<1> QED
  BY <1>1, SyncInvariant, PTL

(* An ack that the desktop has recorded is the ack of the server's receipt.*)
THEOREM AcksReceipted == SyncSpec => []AckedIsReceipted
<1>1. SyncInv => AckedIsReceipted
  BY DEF SyncInv, EntryInv, EntryOK, AckedIsReceipted
<1> QED
  BY <1>1, SyncInvariant, PTL

(* No update and no delete of a device replaces a head that this desktop   *)
(* has not been told of.                                                   *)
THEOREM NoUnseenOverwrite == SyncSpec => NeverOverwritesUnseen
<1>1. SyncInv /\ [SyncNext]_syncVars => [OverwritesOnlySeen]_syncVars
  BY SyncStepSafe
<1> QED
  BY <1>1, SyncInvariant, PTL
     DEF SyncSpec, NeverOverwritesUnseen, OverwritesOnlySeen

(* With the real callers, too, no step loses a mutation that the server    *)
(* has not acked.                                                          *)
THEOREM SyncKeepsWork == SyncSpec => UnackedWorkSurvives
<1>1. SyncInv /\ [SyncNext]_syncVars => [KeepsWork]_storeVars
  BY SyncStepSafe
<1> QED
  BY <1>1, SyncInvariant, PTL DEF SyncSpec, UnackedWorkSurvives, KeepsWork

(* With the real callers, whatever the server answers, the store keeps its *)
(* types, its chains in order, its rows unwedged and its mirror injective. *)
THEOREM StoreStaysSound ==
    SyncSpec => [](StoreTypeOK /\ ChainOrder /\ NoStaleWedge /\ OneRowPerRemote)
<1>1. SyncInv => StoreTypeOK /\ ChainOrder /\ NoStaleWedge /\ OneRowPerRemote
  BY DEF SyncInv, StoreInv
<1> QED
  BY <1>1, SyncInvariant, PTL

-----------------------------------------------------------------------------
(* The exchange implements StoreSpec, whose environment may report any     *)
(* revision up to MaxRev and any cursor up to MaxSeq: the server hands out *)
(* no more than one of each per request that changes a skill.              *)
BoundsSuffice ==
    /\ MaxRest \in Nat
    /\ MaxRev >= MaxMutations + MaxRest
    /\ MaxSeq >= MaxMutations + MaxRest

(* The mutations that the server has applied.                              *)
Effective == {m \in Ids : applied[m] = 1}

(* The revisions that events in a log of length n can carry.               *)
UpTo(n) == 1 .. n

(* Every event is that of a browser request or of an applied mutation.     *)
LogInv ==
    /\ rest <= MaxRest
    /\ Len(log) <= rest + Cardinality(Effective)

(* No revision is ahead of the number of events.                           *)
RevInv ==
    /\ \A s \in ServerIds : InTable(s) => skill[s].rev \in UpTo(Len(log))
    /\ \A i \in DOMAIN log : log[i].rev \in UpTo(Len(log))
    /\ \A m \in Ids :
          /\ receipt[m].status = "acked" => receipt[m].rev \in UpTo(Len(log))
          /\ receipt[m].status = "conflict"
               => receipt[m].head \in UpTo(Len(log)) /\ receipt[m].pkg \in Hashes

(* Nor is a cursor, in the store or on a page under way.                   *)
PageBounded(p) ==
    /\ p.next <= Len(log)
    /\ p.change.op # "none" => p.change.rev \in UpTo(Len(log))

CursorInv ==
    /\ cursor <= Len(log)
    /\ \A t \in Threads : thread[t].pc = "page" => PageBounded(thread[t].page)

BoundInv == LogInv /\ RevInv /\ CursorInv

(* Initially nothing has been reported.                                    *)
LEMMA BoundInitHolds == BoundsSuffice /\ SyncInit => BoundInv
<1> SUFFICES ASSUME BoundsSuffice, SyncInit PROVE BoundInv
  OBVIOUS
<1>1. /\ skill = [s \in ServerIds |-> NoSkill]
      /\ receipt = [m \in Ids |-> NoReceipt]
      /\ log = <<>> /\ rest = 0 /\ cursor = 0
      /\ applied = [m \in Ids |-> 0]
      /\ \A t \in Threads : thread[t].pc = "idle"
  BY DEF SyncInit, ServerInit, StoreInit, Ids, Idle
<1>2. Effective = {}
  BY <1>1 DEF Effective
<1>3. LogInv
  BY <1>1, <1>2, FS_EmptySet DEF LogInv, BoundsSuffice
<1>4. RevInv
  <2>1. NoSkill.status = "absent" /\ NoReceipt.status = "none"
    BY DEF NoSkill, NoReceipt, Refused, Response
  <2> QED
    BY <1>1, <2>1 DEF RevInv, InTable
<1>5. CursorInv
  BY <1>1 DEF CursorInv
<1> QED
  BY <1>3, <1>4, <1>5 DEF BoundInv

(* The mutations applied number at most MaxMutations.                      *)
LEMMA EffectiveFinite ==
    /\ IsFiniteSet(Effective)
    /\ Cardinality(Effective) \in Nat /\ Cardinality(Effective) <= MaxMutations
<1>1. MaxMutations \in Nat /\ 1 \in Int
  BY TypesAssumption
<1>2. IsFiniteSet(Ids) /\ Cardinality(Ids) = MaxMutations
  <2>1. /\ IsFiniteSet(1 .. MaxMutations)
        /\ Cardinality(1 .. MaxMutations) =
             IF 1 > MaxMutations THEN 0 ELSE MaxMutations - 1 + 1
    BY <1>1, FS_Interval
  <2> QED
    BY <1>1, <2>1 DEF Ids
<1>3. Effective \in SUBSET Ids
  BY DEF Effective
<1>4. IsFiniteSet(Effective) /\ Cardinality(Effective) <= Cardinality(Ids)
  BY <1>2, <1>3, FS_Subset
<1>5. Cardinality(Effective) \in Nat
  BY <1>4, FS_CardinalityType
<1> QED
  BY <1>2, <1>4, <1>5

(* Hence what is reported is within the bounds of StoreSpec.               *)
LEMMA WithinBounds ==
    ASSUME SyncInv, BoundInv, BoundsSuffice
    PROVE  /\ Len(log) \in Nat
           /\ \A n \in UpTo(Len(log)) : n \in Revs
           /\ \A n \in Nat : n <= Len(log) => n \in Cursors
<1>1. /\ Len(log) \in Nat /\ rest \in Nat /\ MaxRest \in Nat /\ MaxMutations \in Nat
      /\ MaxRev \in Nat /\ MaxSeq \in Nat
  BY TypesAssumption, StoreAssumption DEF SyncInv, ServerInv, BoundsSuffice
<1>2. Len(log) <= MaxRest + MaxMutations
  <2>1. Len(log) <= rest + Cardinality(Effective) /\ rest <= MaxRest
    BY DEF BoundInv, LogInv
  <2> QED
    BY <1>1, <2>1, EffectiveFinite
<1>3. Len(log) <= MaxRev /\ Len(log) <= MaxSeq
  BY <1>1, <1>2 DEF BoundsSuffice
<1> QED
  BY <1>1, <1>3 DEF UpTo, Revs, Cursors

(* What a request may do to the tables: nothing, or one event whose        *)
(* revision is at most the one after the length of the log.                *)
TablesBounded ==
    /\ log' = log \/ Len(log') = Len(log) + 1
    /\ \A y \in ServerIds : InTable(y)' => skill'[y].rev \in UpTo(Len(log'))
    /\ \A i \in DOMAIN log' : log'[i].rev \in UpTo(Len(log'))

LEMMA TablesGrow ==
    ASSUME ServerInv, RevInv, NEW s \in ServerIds, NEW rev \in Nat, NEW op,
           op \in {"upsert", "delete"}, EmitChangeEvent(s, rev, op),
           rev \in UpTo(Len(log) + 1),
           \A y \in ServerIds \ {s} : skill'[y] = skill[y],
           InTable(s)' => skill'[s].rev = rev
    PROVE  TablesBounded
<1>1. log \in Seq(Events) /\ Len(log) \in Nat
  BY DEF ServerInv
<1>2. PICK e \in Events : e = [rid |-> s, rev |-> rev, op |-> op]
  BY DEF Events
<1>3. /\ Len(log') = Len(log) + 1
      /\ DOMAIN log' = DOMAIN log \cup {Len(log) + 1}
      /\ \A i \in DOMAIN log : log'[i] = log[i]
      /\ log'[Len(log) + 1] = e
  BY <1>1, <1>2 DEF EmitChangeEvent
<1>4. UpTo(Len(log)) \subseteq UpTo(Len(log') )
  BY <1>1, <1>3 DEF UpTo
<1>5. \A i \in DOMAIN log' : log'[i].rev \in UpTo(Len(log'))
  <2>1. \A i \in DOMAIN log : log[i].rev \in UpTo(Len(log))
    BY DEF RevInv
  <2>2. e.rev \in UpTo(Len(log'))
    BY <1>2, <1>3
  <2> QED
    BY <1>3, <1>4, <2>1, <2>2
<1>6. ASSUME NEW y \in ServerIds, InTable(y)'
      PROVE  skill'[y].rev \in UpTo(Len(log'))
  <2>1. CASE y = s
    BY <1>3, <1>6, <2>1
  <2>2. CASE y # s
    <3>1. skill'[y] = skill[y] /\ InTable(y)
      BY <1>6, <2>2 DEF InTable
    <3> QED
      BY <1>4, <3>1 DEF RevInv
  <2> QED
    BY <2>1, <2>2
<1> QED
  BY <1>3, <1>5, <1>6 DEF TablesBounded

(* Each method of SkillMutationService writes the revision after the one   *)
(* of the skill, or again the one it has.                                  *)
LEMMA ServiceBounded ==
    ASSUME ServerInv, RevInv, NEW s \in ServerIds,
           \/ \E hash \in Hashes, k \in RowIds : CreateSkill(s, SlugOf[k], hash)
           \/ Live(s) /\ \E hash \in Hashes : UpdateSkill(s, hash)
           \/ Live(s) /\ TouchMetadata(s)
           \/ InTable(s) /\ SoftDelete(s)
           \/ RestoreSkill(s) \/ PurgeSkill(s)
    PROVE  TablesBounded
<1>1. /\ skill \in [ServerIds -> Skills] /\ skill[s] \in Skills
      /\ Len(log) \in Nat
  BY DEF ServerInv
<1>2. InTable(s) => /\ skill[s].rev \in UpTo(Len(log) + 1)
                    /\ skill[s].rev + 1 \in UpTo(Len(log) + 1)
                    /\ skill[s].rev \in Nat /\ skill[s].rev + 1 \in Nat
  <2>1. InTable(s) => skill[s].rev \in UpTo(Len(log))
    BY DEF RevInv
  <2> QED
    BY <1>1, <2>1 DEF UpTo
<1>3. 1 \in UpTo(Len(log) + 1) /\ 1 \in Nat
  BY <1>1 DEF UpTo
<1>4. CASE UNCHANGED <<skill, log>>
  BY <1>4 DEF TablesBounded, RevInv, InTable
<1>5. ASSUME NEW x, skill' = [skill EXCEPT ![s] = x],
             NEW rev \in Nat, NEW op \in {"upsert", "delete"},
             rev \in UpTo(Len(log) + 1), EmitChangeEvent(s, rev, op),
             x.rev = rev \/ x.status = "purged"
      PROVE  TablesBounded
  <2>1. skill'[s] = x /\ \A y \in ServerIds \ {s} : skill'[y] = skill[y]
    BY <1>1, <1>5
  <2>2. InTable(s)' => skill'[s].rev = rev
    BY <1>5, <2>1 DEF InTable
  <2> QED
    BY <1>5, <2>1, <2>2, TablesGrow
<1>6. ASSUME NEW hash, NEW slug, CreateSkill(s, slug, hash)
      PROVE  TablesBounded
  <2>1. PICK x : x = [status |-> "draft", rev |-> 1, pkg |-> hash, slug |-> slug]
    OBVIOUS
  <2>2. /\ skill' = [skill EXCEPT ![s] = x] /\ x.rev = 1
        /\ EmitChangeEvent(s, 1, "upsert")
    BY <1>6, <2>1 DEF CreateSkill
  <2> QED
    BY <1>3, <1>5, <2>2
<1>7. ASSUME NEW hash, Live(s), UpdateSkill(s, hash)
      PROVE  TablesBounded
  <2>1. PICK x : x = [skill[s] EXCEPT !.rev = skill[s].rev + 1, !.pkg = hash]
    OBVIOUS
  <2>2. /\ skill' = [skill EXCEPT ![s] = x] /\ x.rev = skill[s].rev + 1
        /\ EmitChangeEvent(s, skill[s].rev + 1, "upsert")
    BY <1>1, <1>7, <2>1 DEF UpdateSkill, Skills
  <2> QED
    BY <1>2, <1>5, <1>7, <2>2 DEF Live
<1>8. ASSUME Live(s), TouchMetadata(s)
      PROVE  TablesBounded
  <2>1. PICK x : x = [skill[s] EXCEPT !.rev = skill[s].rev + 1]
    OBVIOUS
  <2>2. /\ skill' = [skill EXCEPT ![s] = x] /\ x.rev = skill[s].rev + 1
        /\ EmitChangeEvent(s, skill[s].rev + 1, "upsert")
    BY <1>1, <1>8, <2>1 DEF TouchMetadata, Skills
  <2> QED
    BY <1>2, <1>5, <1>8, <2>2 DEF Live
<1>9. ASSUME InTable(s), SoftDelete(s)
      PROVE  TablesBounded
  <2>1. CASE skill[s].status = "deleted"
    BY <1>4, <1>9, <2>1 DEF SoftDelete
  <2>2. CASE skill[s].status # "deleted"
    <3>1. PICK x : x = [skill[s] EXCEPT !.rev = skill[s].rev + 1, !.status = "deleted"]
      OBVIOUS
    <3>2. /\ skill' = [skill EXCEPT ![s] = x] /\ x.rev = skill[s].rev + 1
          /\ EmitChangeEvent(s, skill[s].rev + 1, "delete")
      BY <1>1, <1>9, <2>2, <3>1 DEF SoftDelete, Skills
    <3> QED
      BY <1>2, <1>5, <1>9, <3>2
  <2> QED
    BY <2>1, <2>2
<1>10. ASSUME RestoreSkill(s)
       PROVE  TablesBounded
  <2>1. PICK x : x = [skill[s] EXCEPT !.rev = skill[s].rev + 1, !.status = "draft"]
    OBVIOUS
  <2>2. /\ skill' = [skill EXCEPT ![s] = x] /\ x.rev = skill[s].rev + 1
        /\ EmitChangeEvent(s, skill[s].rev + 1, "upsert")
    BY <1>1, <1>10, <2>1 DEF RestoreSkill, Skills
  <2>3. InTable(s)
    BY <1>10 DEF RestoreSkill, InTable
  <2> QED
    BY <1>2, <1>5, <2>2, <2>3
<1>11. ASSUME PurgeSkill(s)
       PROVE  TablesBounded
  <2>1. PICK x : x = [NoSkill EXCEPT !.status = "purged"]
    OBVIOUS
  <2>2. x.status = "purged"
    BY <2>1 DEF NoSkill
  <2>3. /\ skill' = [skill EXCEPT ![s] = x]
        /\ EmitChangeEvent(s, skill[s].rev, "delete")
    BY <1>11, <2>1 DEF PurgeSkill
  <2>4. InTable(s)
    BY <1>11 DEF PurgeSkill, InTable
  <2> QED
    BY <1>2, <1>5, <2>2, <2>3, <2>4
<1> QED
  BY <1>6, <1>7, <1>8, <1>9, <1>10, <1>11

(* The answer to request r carries a revision that the log has reached.    *)
AnswerBounded(r) ==
    \E a \in Responses :
        /\ InsertReceipt(r, a)
        /\ a.status = "acked" => a.rev \in UpTo(Len(log'))
        /\ a.status = "conflict" => a.head \in UpTo(Len(log')) /\ a.pkg \in Hashes

LEMMA HandledBounded ==
    ASSUME ServerInv, RevInv, NEW r \in Requests, WellFormed(r),
           \/ r.op = "create" /\ HandleCreate(r)
           \/ r.op = "update" /\ HandleUpdate(r)
           \/ r.op = "delete" /\ HandleDelete(r)
    PROVE  TablesBounded /\ (receipt' = receipt \/ AnswerBounded(r))
<1>1. CASE UNCHANGED <<skill, receipt, log>>
  BY <1>1 DEF TablesBounded, RevInv, InTable
<1>2. ASSUME NEW status \in {"validation_error", "permission_denied"},
             Refuse(r, Refused(status))
      PROVE  TablesBounded /\ AnswerBounded(r)
  <2>1. /\ Refused(status) \in Responses /\ Refused(status).status = status
    BY <1>2 DEF Refused, Response, Responses, Statuses, Definitive
  <2>2. AnswerBounded(r)
    BY <1>2, <2>1 DEF Refuse, AnswerBounded
  <2> QED
    BY <1>2, <2>2 DEF Refuse, TablesBounded, RevInv, InTable
<1>3. ASSUME NEW s \in ServerIds, InTable(s), Refuse(r, ConflictHead(s))
      PROVE  TablesBounded /\ AnswerBounded(r)
  <2>1. skill[s] \in Skills /\ skill[s].pkg \in Hashes /\ skill[s].rev \in UpTo(Len(log))
    BY <1>3 DEF ServerInv, RevInv
  <2>2. PICK a : a = ConflictHead(s)
    OBVIOUS
  <2>3. /\ a \in Responses /\ a.status = "conflict"
        /\ a.head = skill[s].rev /\ a.pkg = skill[s].pkg
    BY <2>1, <2>2 DEF ConflictHead, Response, Responses, Statuses, Definitive, Skills
  <2>4. AnswerBounded(r)
    BY <1>3, <2>1, <2>2, <2>3 DEF Refuse, AnswerBounded
  <2> QED
    BY <1>3, <2>4 DEF Refuse, TablesBounded, RevInv, InTable
<1>4. ASSUME NEW s \in ServerIds, NEW rev \in Nat, TablesBounded,
             InTable(s)', skill'[s].rev = rev, InsertReceipt(r, Acked(s, rev))
      PROVE  TablesBounded /\ AnswerBounded(r)
  <2>1. PICK a : a = Acked(s, rev)
    OBVIOUS
  <2>2. a \in Responses /\ a.status = "acked" /\ a.rev = rev
    BY <2>1 DEF Acked, Response, Responses, Statuses, Definitive
  <2>3. rev \in UpTo(Len(log'))
    BY <1>4 DEF TablesBounded
  <2> QED
    BY <1>4, <2>1, <2>2, <2>3 DEF AnswerBounded
<1>5. \A s \in ServerIds : skill \in [ServerIds -> Skills] /\ skill[s] \in Skills
  BY DEF ServerInv
<1>6. CASE r.op = "create" /\ HandleCreate(r)
  <2>1. CASE Refuse(r, Refused("validation_error"))
    BY <1>2, <2>1
  <2>2. ASSUME NEW s \in ServerIds, CreateSkill(s, SlugOf[r.key], r.payload),
               InsertReceipt(r, Acked(s, 1))
        PROVE  TablesBounded /\ AnswerBounded(r)
    <3>1. r.key \in RowIds /\ r.payload \in Hashes
      BY DEF Requests
    <3>2. TablesBounded
      BY <2>2, <3>1, ServiceBounded
    <3>3. skill'[s] = [status |-> "draft", rev |-> 1, pkg |-> r.payload,
                       slug |-> SlugOf[r.key]]
      BY <1>5, <2>2 DEF CreateSkill
    <3>4. InTable(s)' /\ skill'[s].rev = 1
      BY <3>3 DEF InTable
    <3> QED
      BY <1>4, <2>2, <3>2, <3>4
  <2> QED
    BY <1>1, <1>6, <2>1, <2>2 DEF HandleCreate
<1>7. ASSUME r.op # "create"
      PROVE  r.remote \in ServerIds
  BY <1>7 DEF WellFormed, Requests
<1>8. CASE r.op = "update" /\ HandleUpdate(r)
  <2>1. PICK s \in ServerIds : s = r.remote
    BY <1>7, <1>8
  <2>2. ASSUME Live(s), UpdateSkill(s, r.payload),
               InsertReceipt(r, Acked(s, skill[s].rev + 1))
        PROVE  TablesBounded /\ AnswerBounded(r)
    <3>1. r.payload \in Hashes
      BY DEF Requests
    <3>2. TablesBounded
      BY <2>2, <3>1, ServiceBounded
    <3>3. skill'[s] = [skill[s] EXCEPT !.rev = skill[s].rev + 1, !.pkg = r.payload]
      BY <1>5, <2>2 DEF UpdateSkill
    <3>4. /\ skill'[s].rev = skill[s].rev + 1 /\ skill[s].rev + 1 \in Nat
          /\ skill'[s].status = skill[s].status
      BY <1>5, <3>3 DEF Skills
    <3>5. InTable(s)'
      BY <2>2, <3>4 DEF Live, InTable
    <3> QED
      BY <1>4, <2>2, <3>2, <3>4, <3>5
  <2>3. CASE Live(s) /\ Refuse(r, ConflictHead(s))
    BY <1>3, <2>3 DEF Live
  <2> QED
    BY <1>2, <1>8, <2>1, <2>2, <2>3 DEF HandleUpdate
<1>9. CASE r.op = "delete" /\ HandleDelete(r)
  <2>1. PICK s \in ServerIds : s = r.remote
    BY <1>7, <1>9
  <2>2. ASSUME InTable(s), SoftDelete(s), InsertReceipt(r, Acked(s, DeletedRev(s)))
        PROVE  TablesBounded /\ AnswerBounded(r)
    <3>1. TablesBounded
      BY <2>2, ServiceBounded
    <3>2. /\ skill'[s].rev = DeletedRev(s) /\ DeletedRev(s) \in Nat
          /\ skill'[s].status = "deleted"
      <4>1. CASE skill[s].status = "deleted"
        BY <1>5, <2>2, <4>1 DEF SoftDelete, DeletedRev, Skills
      <4>2. CASE skill[s].status # "deleted"
        BY <1>5, <2>2, <4>2 DEF SoftDelete, DeletedRev, Skills
      <4> QED
        BY <4>1, <4>2
    <3>3. InTable(s)'
      BY <3>2 DEF InTable
    <3> QED
      BY <1>4, <2>2, <3>1, <3>2, <3>3
  <2>3. CASE InTable(s) /\ Refuse(r, ConflictHead(s))
    BY <1>3, <2>3
  <2> QED
    BY <1>2, <1>9, <2>1, <2>2, <2>3 DEF HandleDelete
<1> QED
  BY <1>6, <1>8, <1>9

(* Receipts that were bounded stay so when the log grows.                  *)
LEMMA RevsKept ==
    ASSUME SyncInv, RevInv, TablesBounded,
           \A m \in Ids :
              \/ receipt'[m] = receipt[m]
              \/ /\ receipt'[m].status = "acked" => receipt'[m].rev \in UpTo(Len(log'))
                 /\ receipt'[m].status = "conflict"
                      => receipt'[m].head \in UpTo(Len(log')) /\ receipt'[m].pkg \in Hashes
    PROVE  RevInv' /\ Len(log) <= Len(log')
<1>1. Len(log) \in Nat /\ (log' = log \/ Len(log') = Len(log) + 1)
  BY DEF SyncInv, ServerInv, TablesBounded
<1>2. Len(log) <= Len(log') /\ UpTo(Len(log)) \subseteq UpTo(Len(log'))
  BY <1>1 DEF UpTo
<1>3. \A m \in Ids :
          /\ receipt'[m].status = "acked" => receipt'[m].rev \in UpTo(Len(log'))
          /\ receipt'[m].status = "conflict"
               => receipt'[m].head \in UpTo(Len(log')) /\ receipt'[m].pkg \in Hashes
  BY <1>2 DEF RevInv
<1> QED
  BY <1>2, <1>3 DEF TablesBounded, RevInv

(* No thread takes up a page.                                              *)
PagesKept ==
    \A t \in Threads : thread'[t].pc = "page"
        => thread[t].pc = "page" /\ thread'[t].page = thread[t].page

(* A cursor or a page that was behind the log stays behind it.             *)
LEMMA CursorsKept ==
    ASSUME SyncInv, CursorInv, log' = log \/ Len(log') = Len(log) + 1,
           cursor' = cursor, PagesKept
    PROVE  CursorInv'
<1>1. Len(log) \in Nat /\ cursor \in Nat
  BY DEF SyncInv, ServerInv, StoreInv, StoreTypeOK
<1>2. Len(log') \in Nat /\ Len(log) <= Len(log')
        /\ UpTo(Len(log)) \subseteq UpTo(Len(log'))
  BY <1>1 DEF UpTo
<1>3. cursor' <= Len(log')
  BY <1>1, <1>2 DEF CursorInv
<1>4. ASSUME NEW t \in Threads, thread'[t].pc = "page"
      PROVE  /\ thread'[t].page.next <= Len(log')
             /\ thread'[t].page.change.op # "none"
                  => thread'[t].page.change.rev \in UpTo(Len(log'))
  <2>1. PICK p \in Pages : p = thread[t].page /\ p = thread'[t].page
    BY <1>4 DEF PagesKept, SyncInv, ThreadInv, ThreadOK
  <2>2. PageBounded(p) /\ p.next \in Nat
    BY <1>4, <2>1 DEF PagesKept, CursorInv, Pages
  <2>3. p.next <= Len(log')
    BY <1>1, <1>2, <2>2 DEF PageBounded
  <2>4. p.change.op # "none" => p.change.rev \in UpTo(Len(log'))
    BY <1>2, <2>2 DEF PageBounded
  <2> QED
    BY <2>1, <2>3, <2>4
<1> QED
  BY <1>3, <1>4 DEF CursorInv, PageBounded

(* The log grows only with a mutation that had not been applied.           *)
LEMMA ServeBounded ==
    ASSUME SyncInv, BoundInv, BoundsSuffice, NEW r, RequestOK(r), Serve(r),
           cursor' = cursor, PagesKept
    PROVE  BoundInv'
<1>1. /\ r \in Requests /\ r.id \in Ids /\ ServerInv /\ RevInv /\ CursorInv
      /\ receipt \in [Ids -> Responses] /\ applied \in [Ids -> Nat]
      /\ Len(log) \in Nat /\ rest \in Nat
  BY DEF RequestOK, Requests, SyncInv, ServerInv, BoundInv
<1>2. /\ applied' = [applied EXCEPT ![r.id] = IF log' # log THEN @ + 1 ELSE @]
      /\ rest' = rest
  BY DEF Serve, SubmitMutation
<1>3. \/ UNCHANGED <<skill, receipt, log>>
      \/ /\ receipt[r.id] = NoReceipt /\ TablesBounded
         /\ receipt' = receipt \/ AnswerBounded(r)
  BY <1>1, HandledBounded DEF Serve, SubmitMutation, ApplySyncMutation
<1>4. TablesBounded
  BY <1>1, <1>3 DEF TablesBounded, RevInv, InTable
<1>5. ASSUME NEW m \in Ids
      PROVE  \/ receipt'[m] = receipt[m]
             \/ /\ receipt'[m].status = "acked" => receipt'[m].rev \in UpTo(Len(log'))
                /\ receipt'[m].status = "conflict"
                     => receipt'[m].head \in UpTo(Len(log')) /\ receipt'[m].pkg \in Hashes
  <2>1. CASE AnswerBounded(r)
    BY <1>1, <2>1 DEF AnswerBounded, InsertReceipt
  <2> QED
    BY <1>3, <2>1
<1>6. RevInv'
  BY <1>1, <1>4, <1>5, RevsKept
<1>7. LogInv'
  <2>1. CASE log' = log
    <3>1. applied' = applied
      BY <1>1, <1>2, <2>1
    <3> QED
      BY <1>2, <2>1, <3>1 DEF BoundInv, LogInv, Effective
  <2>2. CASE log' # log
    <3>1. receipt[r.id] = NoReceipt /\ Len(log') = Len(log) + 1
      BY <1>3, <1>4, <2>2 DEF TablesBounded
    <3>2. applied[r.id] = 0
      <4>1. NoReceipt.status # "acked"
        BY DEF NoReceipt, Refused, Response
      <4> QED
        BY <1>1, <3>1, <4>1 DEF SyncInv, AppliedInv
    <3>3. /\ applied'[r.id] = 1
          /\ \A m \in Ids \ {r.id} : applied'[m] = applied[m]
      BY <1>1, <1>2, <2>2, <3>2
    <3>4. Effective' = Effective \cup {r.id} /\ r.id \notin Effective
      BY <1>1, <3>2, <3>3 DEF Effective
    <3>5. /\ Cardinality(Effective \cup {r.id}) = Cardinality(Effective) + 1
          /\ Cardinality(Effective) \in Nat
      BY <3>4, EffectiveFinite, FS_AddElement
    <3>6. Len(log) <= rest + Cardinality(Effective) /\ rest <= MaxRest
      BY DEF BoundInv, LogInv
    <3>7. Len(log') <= rest + Cardinality(Effective \cup {r.id})
      BY <1>1, <3>1, <3>5, <3>6
    <3> QED
      BY <1>2, <3>4, <3>6, <3>7 DEF LogInv
  <2> QED
    BY <2>1, <2>2
<1>8. CursorInv'
  BY <1>1, <1>4, CursorsKept DEF TablesBounded
<1> QED
  BY <1>6, <1>7, <1>8 DEF BoundInv

(* A browser request adds at most one event.                               *)
LEMMA BrowserBounded ==
    ASSUME SyncInv, BoundInv, BoundsSuffice, Browser
    PROVE  BoundInv'
<1>1. /\ RestNext /\ cursor' = cursor /\ thread' = thread /\ applied' = applied
      /\ ServerInv /\ RevInv /\ CursorInv
      /\ Len(log) \in Nat /\ rest \in Nat
  BY DEF Browser, storeVars, SyncInv, ServerInv, BoundInv
<1>2. PICK s \in ServerIds :
        \/ \E hash \in Hashes : RestCreate(s, hash) \/ RestUpdate(s, hash)
        \/ RestDelete(s) \/ RestRestore(s) \/ RestPurge(s) \/ RestTouch(s)
  BY <1>1 DEF RestNext
<1>3. rest < MaxRest /\ rest' = rest + 1 /\ receipt' = receipt
  BY <1>2 DEF RestCreate, RestUpdate, RestDelete, RestRestore, RestPurge,
     RestTouch, Rest
<1>4. TablesBounded
  <2>1. s \in RowIds
    BY DEF RowIds
  <2>2. \/ \E hash \in Hashes, k \in RowIds : CreateSkill(s, SlugOf[k], hash)
        \/ Live(s) /\ \E hash \in Hashes : UpdateSkill(s, hash)
        \/ Live(s) /\ TouchMetadata(s)
        \/ InTable(s) /\ SoftDelete(s)
        \/ RestoreSkill(s) \/ PurgeSkill(s)
    BY <1>2, <2>1 DEF RestCreate, RestUpdate, RestDelete, RestRestore,
       RestPurge, RestTouch, Live
  <2> QED
    BY <1>1, <2>2, ServiceBounded
<1>5. RevInv'
  BY <1>1, <1>3, <1>4, RevsKept
<1>6. LogInv'
  <2>1. /\ Cardinality(Effective) \in Nat /\ Effective' = Effective
        /\ Len(log) <= rest + Cardinality(Effective) /\ MaxRest \in Nat
    BY <1>1, EffectiveFinite DEF Effective, BoundInv, LogInv, BoundsSuffice
  <2>2. Len(log') <= Len(log) + 1
    BY <1>1, <1>4 DEF TablesBounded
  <2>3. Len(log') \in Nat
    BY <1>1, <1>4 DEF TablesBounded
  <2>4. Len(log') <= rest' + Cardinality(Effective) /\ rest' <= MaxRest
    BY <1>1, <1>3, <2>1, <2>2, <2>3
  <2> QED
    BY <2>1, <2>4 DEF LogInv
<1>7. CursorInv'
  BY <1>1, <1>4, CursorsKept DEF TablesBounded, PagesKept
<1> QED
  BY <1>5, <1>6, <1>7 DEF BoundInv

(* Every other step leaves the server alone; at most it moves the cursor,  *)
(* or takes up a page, within the log.                                     *)
LEMMA QuietBounded ==
    ASSUME SyncInv, BoundInv, UNCHANGED <<serverVars, applied>>,
           cursor' <= Len(log),
           \A t \in Threads : thread'[t].pc = "page" =>
              \/ thread[t].pc = "page" /\ thread'[t].page = thread[t].page
              \/ PageBounded(thread'[t].page)
    PROVE  BoundInv'
<1>1. /\ skill' = skill /\ receipt' = receipt /\ log' = log /\ rest' = rest
      /\ applied' = applied
  BY DEF serverVars
<1>2. LogInv' /\ RevInv'
  BY <1>1 DEF BoundInv, LogInv, Effective, RevInv, InTable
<1>3. CursorInv'
  BY <1>1 DEF BoundInv, CursorInv, PageBounded
<1> QED
  BY <1>2, <1>3 DEF BoundInv

(* A page shows an event of the log and the sequence behind it.            *)
LEMMA PageIsBounded ==
    ASSUME SyncInv, BoundInv
    PROVE  PageBounded(ListChanges(cursor))
<1>1. /\ log \in Seq(Events) /\ Len(log) \in Nat /\ cursor \in Nat
      /\ cursor <= Len(log) /\ \A i \in DOMAIN log : log[i].rev \in UpTo(Len(log))
  BY DEF SyncInv, ServerInv, StoreInv, StoreTypeOK, BoundInv, CursorInv, RevInv
<1>2. PICK seq : seq = IF cursor < Len(log) THEN cursor + 1 ELSE cursor
  OBVIOUS
<1>3. PICK c : c = IF seq > cursor /\ SkillVisible(log[seq])
                   THEN Project(log[seq]) ELSE NoChange
  OBVIOUS
<1>4. seq <= Len(log) /\ (seq > cursor => seq \in DOMAIN log)
  BY <1>1, <1>2
<1>5. c.op # "none" => c.rev \in UpTo(Len(log))
  <2>1. CASE seq > cursor /\ SkillVisible(log[seq])
    <3>1. c.rev = log[seq].rev
      BY <1>3, <2>1 DEF Project
    <3> QED
      BY <1>1, <1>4, <2>1, <3>1
  <2>2. CASE ~(seq > cursor /\ SkillVisible(log[seq]))
    BY <1>3, <2>2 DEF NoChange
  <2> QED
    BY <2>1, <2>2
<1>6. ListChanges(cursor) = [change |-> c, next |-> seq, more |-> seq < Len(log)]
  BY <1>2, <1>3 DEF ListChanges
<1> QED
  BY <1>4, <1>5, <1>6 DEF PageBounded

(* A thread that moves on elsewhere takes up no page.                      *)
LEMMA PagesLeft ==
    ASSUME SyncInv, NEW t \in Threads, NEW w, w.pc # "page",
           thread' = [thread EXCEPT ![t] = w]
    PROVE  PagesKept
<1>1. thread'[t] = w /\ \A u \in Threads \ {t} : thread'[u] = thread[u]
  BY DEF SyncInv, ThreadInv
<1> QED
  BY <1>1 DEF PagesKept

(* Where At puts a thread.                                                 *)
LEMMA AtPc ==
    ASSUME NEW pc, NEW batch, NEW r
    PROVE  At(pc, batch).pc = pc /\ [At(pc, batch) EXCEPT !.req = r].pc = pc
<1> DEFINE none == <<>>
<1>1. Idle = [pc |-> "idle", batch |-> {}, req |-> none, resp |-> NoReceipt,
              page |-> none]
  BY DEF Idle
<1> HIDE DEF none
<1>2. At(pc, batch) = [pc |-> pc, batch |-> batch, req |-> none,
                       resp |-> NoReceipt, page |-> none]
  <2>1. At(pc, batch) = [Idle EXCEPT !.pc = pc, !.batch = batch]
    BY DEF At
  <2> QED
    BY <1>1, <2>1
<1> QED
  BY <1>2

-----------------------------------------------------------------------------
(* Every step of the exchange is a step of the store, or none of its.      *)

(* A transport error is recorded for a mutation that was claimed.          *)
LEMMA RetryRefines ==
    ASSUME SyncInv, NEW k, NEW m, Claimed(k, m),
           ApplyTransportError(k, IndexOf(k, m))
    PROVE  OutcomeNext /\ cursor' = cursor
<1>1. PICK i : i = IndexOf(k, m)
  OBVIOUS
<1>2. /\ k \in RowIds /\ i \in DOMAIN outbox[k]
      /\ outbox[k][i].state = "in_flight" /\ ApplyTransportError(k, i)
  BY <1>1, FoundClaim DEF SyncInv
<1> QED
  BY <1>2 DEF OutcomeNext, ApplyTransportError

(* The server acks under the remote id it was sent, reports a revision     *)
(* that it has reached and, with a conflict, the package at its head.      *)
LEMMA ReplyRefines ==
    ASSUME SyncInv, BoundInv, BoundsSuffice, NEW t \in Threads, ApplyReply(t)
    PROVE  OutcomeNext /\ cursor' = cursor
<1>1. PICK v \in ThreadStates : v = thread[t] /\ ThreadOK(v)
  BY DEF SyncInv, ThreadInv
<1>2. PICK r, a, i : r = v.req /\ a = v.resp /\ i = IndexOf(r.key, r.id)
  OBVIOUS
<1>3. v.pc = "replied" /\ Outcome(r, a, i)
  BY <1>1, <1>2 DEF ApplyReply, Outcome
<1>4. /\ r \in Requests /\ Claimed(r.key, r.id)
      /\ a \in Responses /\ a.status # "none"
      /\ a.status \in Definitive => a = receipt[r.id]
  BY <1>1, <1>2, <1>3 DEF ThreadOK, ThreadStates
<1>5. PICK k : k = r.key
  OBVIOUS
<1>6. /\ k \in RowIds /\ i \in DOMAIN outbox[k] /\ outbox[k][i].id = r.id
      /\ outbox[k][i].state = "in_flight" /\ r.id \in Ids
  BY <1>2, <1>4, <1>5, FoundClaim DEF SyncInv, Requests
<1>7. EntryOK(i, outbox[k][i], row[k].remoteId, receipt[r.id], seen)
  BY <1>6 DEF SyncInv, EntryInv
<1>8. CASE a.status = "acked"
  <2>1. a = receipt[r.id] /\ a.rid \in ServerIds
    BY <1>4, <1>6, <1>8 DEF Definitive, SyncInv, ReceiptInv
  <2>2. a.rev \in UpTo(Len(log))
    BY <1>6, <1>8, <2>1 DEF BoundInv, RevInv
  <2>3. PICK rid \in ServerIds, rev \in Revs : rid = a.rid /\ rev = a.rev
    BY <2>1, <2>2, WithinBounds
  <2>4. ApplyAcked(k, i, rid, rev)
    BY <1>3, <1>5, <1>8, <2>3 DEF Outcome
  <2>5. row[k].remoteId \in {None, rid}
    BY <1>7, <1>8, <2>1, <2>3 DEF EntryOK
  <2> QED
    BY <1>6, <2>4, <2>5 DEF OutcomeNext, ApplyAcked
<1>9. CASE a.status = "conflict"
  <2>1. a = receipt[r.id]
    BY <1>4, <1>9 DEF Definitive
  <2>2. a.head \in UpTo(Len(log)) /\ a.pkg \in Hashes
    BY <1>6, <1>9, <2>1 DEF BoundInv, RevInv
  <2>3. PICK head \in Revs, hash \in Hashes : head = a.head /\ hash = a.pkg
    BY <2>2, WithinBounds
  <2>4. ApplyConflict(k, i, head, hash)
    BY <1>3, <1>5, <1>9, <2>3 DEF Outcome
  <2>5. cursor' = cursor
    BY <2>4 DEF ApplyConflict, DefinitiveError
  <2> QED
    BY <1>6, <2>4, <2>5 DEF OutcomeNext
<1>10. CASE a.status = "permission_denied"
  <2>1. ApplyPermissionDenied(k, i)
    BY <1>3, <1>5, <1>10 DEF Outcome
  <2>2. cursor' = cursor
    BY <2>1 DEF ApplyPermissionDenied, DefinitiveError
  <2> QED
    BY <1>6, <2>1, <2>2 DEF OutcomeNext
<1>11. CASE a.status \in {"validation_error", "http_request_error"}
  <2>1. ApplyValidationError(k, i)
    BY <1>3, <1>5, <1>11 DEF Outcome
  <2>2. cursor' = cursor
    BY <2>1 DEF ApplyValidationError, DefinitiveError
  <2> QED
    BY <1>6, <2>1, <2>2 DEF OutcomeNext
<1>12. CASE a.status = "http_server_error"
  <2>1. ApplyTransportError(k, i)
    BY <1>3, <1>5, <1>12 DEF Outcome
  <2> QED
    BY <1>6, <2>1 DEF OutcomeNext, ApplyTransportError
<1> QED
  BY <1>4, <1>8, <1>9, <1>10, <1>11, <1>12 DEF Responses, Statuses, Definitive

(* A page reports what the log holds.                                      *)
LEMMA PageRefines ==
    ASSUME SyncInv, BoundInv, BoundsSuffice, NEW t \in Threads, ApplyPage(t)
    PROVE  PullNext /\ cursor' <= Len(log)
<1>1. PICK v \in ThreadStates : v = thread[t] /\ ThreadOK(v)
  BY DEF SyncInv, ThreadInv
<1>2. PICK p, c : p = v.page /\ c = p.change
  OBVIOUS
<1>3. /\ v.pc = "page"
      /\ CASE c.op = "upsert" -> ApplyUpsert(c.rid, c.rev, c.pkg, p.next)
           [] c.op = "delete" -> ApplyTombstone(c.rid, c.rev, p.next)
           [] c.op = "none" -> ApplyEmptyPage(p.next)
  BY <1>1, <1>2 DEF ApplyPage
<1>4. /\ p \in Pages
      /\ c.op # "none" => c.rid \in ServerIds
      /\ c.op = "upsert" => c.pkg \in Hashes
  BY <1>1, <1>2, <1>3 DEF ThreadOK
<1>5. c.op \in {"none", "upsert", "delete"} /\ p.next \in Nat
  BY <1>2, <1>4 DEF Pages, Changes
<1>6. PageBounded(p)
  BY <1>1, <1>2, <1>3 DEF BoundInv, CursorInv
<1>7. p.next <= Len(log) /\ (c.op # "none" => c.rev \in UpTo(Len(log)))
  BY <1>2, <1>6 DEF PageBounded
<1>8. PICK next \in Cursors : next = p.next
  BY <1>5, <1>7, WithinBounds
<1>9. CASE c.op = "upsert"
  <2>1. PICK rid \in ServerIds, rev \in Revs, hash \in Hashes :
           rid = c.rid /\ rev = c.rev /\ hash = c.pkg
    BY <1>4, <1>7, <1>9, WithinBounds
  <2>2. ApplyUpsert(rid, rev, hash, next)
    BY <1>3, <1>8, <1>9, <2>1
  <2>3. cursor' = next
    BY <2>2 DEF ApplyUpsert
  <2> QED
    BY <1>7, <1>8, <2>2, <2>3 DEF PullNext
<1>10. CASE c.op = "delete"
  <2>1. PICK rid \in ServerIds, rev \in Revs : rid = c.rid /\ rev = c.rev
    BY <1>4, <1>7, <1>10, WithinBounds
  <2>2. ApplyTombstone(rid, rev, next)
    BY <1>3, <1>8, <1>10, <2>1
  <2>3. cursor' = next
    BY <2>2 DEF ApplyTombstone
  <2> QED
    BY <1>7, <1>8, <2>2, <2>3 DEF PullNext
<1>11. CASE c.op = "none"
  <2>1. ApplyEmptyPage(next)
    BY <1>3, <1>8, <1>11
  <2>2. cursor' = next
    BY <2>1 DEF ApplyEmptyPage
  <2> QED
    BY <1>7, <1>8, <2>1, <2>2 DEF PullNext
<1> QED
  BY <1>5, <1>9, <1>10, <1>11

(* Of the store's environment the user is one.                             *)
LEMMA UserRefines ==
    ASSUME SyncInv, UserCommand
    PROVE  UserNext /\ cursor' = cursor
<1>1. PICK k \in RowIds :
        \/ \E hash \in Hashes : CommitSkillEdit(k, hash, row[k].rev)
        \/ QueueSkillDelete(k, row[k].rev)
        \/ ResolveKeepLocal(k)
        \/ ResolveKeepRemote(k)
        \/ MarkSkillHydrated(k, row[k].cur)
        \/ ClaimSkillForEviction(k, row[k].cur)
  BY DEF UserCommand
<1>2. Present(k) => row[k].cur \in Hashes
  BY DEF SyncInv, StoreInv, RowsWellFormed
<1>3. cursor' = cursor
  BY <1>1 DEF CommitSkillEdit, QueueSkillDelete, ResolveKeepLocal,
     ResolveKeepRemote, MarkSkillHydrated, ClaimSkillForEviction
<1>4. ASSUME NEW hash \in Hashes, CommitSkillEdit(k, hash, row[k].rev)
      PROVE  UserNext
  <2>1. PICK base \in {0, row[k].rev} : base = row[k].rev
    OBVIOUS
  <2> QED
    BY <1>4, <2>1 DEF UserNext
<1>5. ASSUME MarkSkillHydrated(k, row[k].cur) \/ ClaimSkillForEviction(k, row[k].cur)
      PROVE  UserNext
  <2>1. PICK hash \in Hashes : hash = row[k].cur
    BY <1>2, <1>5 DEF MarkSkillHydrated, ClaimSkillForEviction, Present
  <2> QED
    BY <1>5, <2>1 DEF UserNext
<1>6. QueueSkillDelete(k, row[k].rev) \/ ResolveKeepLocal(k) \/ ResolveKeepRemote(k)
        => UserNext
  BY DEF UserNext
<1> QED
  BY <1>1, <1>3, <1>4, <1>5, <1>6

(* Every step of a cycle keeps within the bounds and is one of the store's.*)
LEMMA CycleRefines ==
    ASSUME SyncInv, BoundInv, BoundsSuffice, NEW t \in Threads,
           StartCycle(t) \/ Push(t) \/ Pull(t) \/ Failure(t)
    PROVE  BoundInv' /\ (StoreNext \/ UNCHANGED storeVars)
<1>1. PICK v \in ThreadStates : v = thread[t] /\ ThreadOK(v)
  BY DEF SyncInv, ThreadInv
<1>2. v.batch \in SUBSET (RowIds \X Ids)
  BY DEF ThreadStates
<1>3. Len(log) \in Nat /\ cursor <= Len(log)
  BY DEF SyncInv, ServerInv, BoundInv, CursorInv
<1>4. \A B : AfterPush(B).pc # "page" /\ AfterFailure(B).pc # "page"
  BY AtPc DEF AfterPush, AfterFailure
<1>5. ASSUME NEW w, w.pc # "page", thread' = [thread EXCEPT ![t] = w],
             UNCHANGED <<serverVars, applied>>, cursor' <= Len(log)
      PROVE  BoundInv'
  <2>1. PagesKept
    BY <1>5, PagesLeft
  <2> QED
    BY <1>5, <2>1, QuietBounded DEF PagesKept
<1>6. CASE StartCycle(t)
  <2>1. PICK batch \in SUBSET Dispatchable :
           /\ ClaimDispatchable(batch)
           /\ thread' = [thread EXCEPT ![t] =
                AfterPush({<<p[1], outbox[p[1]][p[2]].id>> : p \in batch})]
    BY <1>6 DEF StartCycle
  <2>2. PICK w : w = AfterPush({<<p[1], outbox[p[1]][p[2]].id>> : p \in batch})
    OBVIOUS
  <2>3. cursor' = cursor /\ UNCHANGED <<serverVars, applied>>
    BY <1>6, <2>1 DEF StartCycle, ClaimDispatchable
  <2>4. w.pc # "page" /\ thread' = [thread EXCEPT ![t] = w]
    BY <1>4, <2>1, <2>2
  <2>5. BoundInv'
    BY <1>3, <1>5, <2>3, <2>4
  <2> QED
    BY <2>1, <2>5 DEF StoreNext, DispatchNext
<1>7. CASE Submit(t)
  <2>1. PICK p \in thread[t].batch :
           thread' = [thread EXCEPT ![t] =
               [At("sent", @.batch \ {p}) EXCEPT
                  !.req = Request(p[1], outbox[p[1]][IndexOf(p[1], p[2])])]]
    BY <1>7 DEF Submit
  <2>2. PICK r, B : /\ r = Request(p[1], outbox[p[1]][IndexOf(p[1], p[2])])
                    /\ B = thread[t].batch \ {p}
    OBVIOUS
  <2>3. PICK w : w = [At("sent", B) EXCEPT !.req = r]
    OBVIOUS
  <2>4. w.pc = "sent" /\ thread' = [thread EXCEPT ![t] = w]
    BY <2>1, <2>2, <2>3, AtPc
  <2>5. UNCHANGED <<storeVars, serverVars, applied>> /\ cursor' = cursor
    BY <1>7 DEF Submit, storeVars
  <2>6. BoundInv'
    BY <1>3, <1>5, <2>4, <2>5
  <2> QED
    BY <2>5, <2>6
<1>8. CASE ServerReplies(t)
  <2>1. PICK r : r = v.req
    OBVIOUS
  <2>2. /\ v.pc = "sent" /\ Serve(r) /\ UNCHANGED storeVars /\ cursor' = cursor
    BY <1>1, <1>8, <2>1 DEF ServerReplies, storeVars
  <2>3. RequestOK(r)
    BY <1>1, <2>1, <2>2 DEF SyncInv, RequestInv, Reqs, Sending
  <2>4. PICK a : a = ReplyTo(thread[t].req)
    OBVIOUS
  <2>5. PICK w : w = [v EXCEPT !.pc = "replied", !.resp = a]
    OBVIOUS
  <2>6. thread' = [thread EXCEPT ![t] = w] /\ w.pc = "replied"
    <3>1. thread' = [thread EXCEPT ![t].pc = "replied", ![t].resp = a]
      BY <1>8, <2>4 DEF ServerReplies
    <3>2. thread \in [Threads -> ThreadStates]
      BY DEF SyncInv, ThreadInv
    <3>3. thread' = [thread EXCEPT ![t] = w]
      BY <1>1, <2>5, <3>1, <3>2
    <3>4. w.pc = "replied"
      BY <2>5 DEF ThreadStates
    <3> QED
      BY <3>3, <3>4
  <2>7. PagesKept
    BY <2>6, PagesLeft
  <2>8. BoundInv'
    BY <2>2, <2>3, <2>7, ServeBounded
  <2> QED
    BY <2>2, <2>8
<1>9. CASE ApplyReply(t)
  <2>1. OutcomeNext /\ cursor' = cursor
    BY <1>9, ReplyRefines
  <2>2. UNCHANGED <<serverVars, applied>>
    BY <1>9 DEF ApplyReply
  <2>3. PICK B : B = thread[t].batch
    OBVIOUS
  <2>4. PICK w \in {AfterPush(B), AfterFailure(B)} : thread' = [thread EXCEPT ![t] = w]
    BY <1>9, <2>3 DEF ApplyReply
  <2>5. BoundInv'
    BY <1>3, <1>4, <1>5, <2>1, <2>2, <2>4
  <2> QED
    BY <2>1, <2>5 DEF StoreNext
<1>10. ASSUME AckRollsBack(t) \/ SessionRefused(t)
       PROVE  BoundInv' /\ UNCHANGED storeVars
  <2>1. /\ UNCHANGED <<storeVars, serverVars, applied>> /\ cursor' = cursor
        /\ thread' = [thread EXCEPT ![t] = AfterFailure(@.batch)]
    BY <1>10 DEF AckRollsBack, SessionRefused, storeVars
  <2>2. PICK w : w = AfterFailure(thread[t].batch)
    OBVIOUS
  <2>3. w.pc # "page" /\ thread' = [thread EXCEPT ![t] = w]
    BY <1>4, <2>1, <2>2
  <2> QED
    BY <1>3, <1>5, <2>1, <2>3
<1>11. CASE ReleaseTail(t)
  <2>1. PICK ids \in SUBSET (1 .. MaxMutations) : ids = {p[2] : p \in v.batch}
    BY <1>2 DEF Ids
  <2>2. /\ ReleaseInFlight(ids) /\ UNCHANGED <<serverVars, applied>>
        /\ thread' = [thread EXCEPT ![t] = At("pull", {})]
    BY <1>1, <1>11, <2>1 DEF ReleaseTail
  <2>3. PICK w : w = At("pull", {})
    OBVIOUS
  <2>4. w.pc = "pull" /\ thread' = [thread EXCEPT ![t] = w]
    BY <2>2, <2>3, AtPc
  <2>5. cursor' = cursor
    BY <2>2 DEF ReleaseInFlight
  <2>6. BoundInv'
    BY <1>3, <1>5, <2>2, <2>4, <2>5
  <2> QED
    BY <2>2, <2>6 DEF StoreNext, DispatchNext
<1>12. CASE FetchPage(t)
  <2>1. PICK p : p = ListChanges(cursor)
    OBVIOUS
  <2>2. /\ UNCHANGED <<storeVars, serverVars, applied>> /\ cursor' = cursor
        /\ thread' = [thread EXCEPT ![t].pc = "page", ![t].page = p]
    BY <1>12, <2>1 DEF FetchPage, storeVars
  <2>3. PageBounded(p)
    BY <2>1, PageIsBounded
  <2>4. /\ thread'[t].page = p
        /\ \A u \in Threads \ {t} : thread'[u] = thread[u]
    <3>1. thread \in [Threads -> ThreadStates] /\ thread[t] \in ThreadStates
      BY DEF SyncInv, ThreadInv
    <3>2. thread'[t] = [thread[t] EXCEPT !.pc = "page", !.page = p]
            /\ \A u \in Threads \ {t} : thread'[u] = thread[u]
      BY <2>2, <3>1
    <3> QED
      BY <3>1, <3>2 DEF ThreadStates
  <2>5. BoundInv'
    BY <1>3, <2>2, <2>3, <2>4, QuietBounded
  <2> QED
    BY <2>2, <2>5
<1>13. CASE ApplyPage(t)
  <2>1. PullNext /\ cursor' <= Len(log)
    BY <1>13, PageRefines
  <2>2. PICK w \in {At("pull", {}), Idle} : thread' = [thread EXCEPT ![t] = w]
    BY <1>13 DEF ApplyPage
  <2>3. w.pc # "page"
    BY <2>2, AtPc, AtState
  <2>4. UNCHANGED <<serverVars, applied>>
    BY <1>13 DEF ApplyPage
  <2>5. BoundInv'
    BY <1>5, <2>1, <2>2, <2>3, <2>4
  <2> QED
    BY <2>1, <2>5 DEF StoreNext
<1>14. CASE UploadFails(t)
  <2>1. PICK p \in thread[t].batch :
           /\ ApplyTransportError(p[1], IndexOf(p[1], p[2]))
           /\ thread' = [thread EXCEPT ![t] = AfterFailure(@.batch \ {p})]
    BY <1>14 DEF UploadFails
  <2>2. PICK k, m, w : /\ k = p[1] /\ m = p[2]
                       /\ w = AfterFailure(thread[t].batch \ {p})
    OBVIOUS
  <2>3. Claimed(k, m) /\ ApplyTransportError(k, IndexOf(k, m))
    BY <1>1, <2>1, <2>2 DEF ThreadOK
  <2>4. OutcomeNext /\ cursor' = cursor
    BY <2>3, RetryRefines
  <2>5. w.pc # "page" /\ thread' = [thread EXCEPT ![t] = w]
    BY <1>4, <2>1, <2>2
  <2>6. UNCHANGED <<serverVars, applied>>
    BY <1>14 DEF UploadFails
  <2>7. BoundInv'
    BY <1>3, <1>5, <2>4, <2>5, <2>6
  <2> QED
    BY <2>4, <2>7 DEF StoreNext
<1>15. CASE Timeout(t)
  <2>1. PICK k, m, w : /\ k = v.req.key /\ m = v.req.id
                       /\ w = AfterFailure(thread[t].batch)
    OBVIOUS
  <2>2. /\ v.pc \in {"sent", "replied"} /\ ApplyTransportError(k, IndexOf(k, m))
        /\ UNCHANGED <<serverVars, applied>>
        /\ thread' = [thread EXCEPT ![t] = w]
    BY <1>1, <1>15, <2>1 DEF Timeout
  <2>3. Claimed(k, m)
    BY <1>1, <2>1, <2>2 DEF ThreadOK
  <2>4. OutcomeNext /\ cursor' = cursor
    BY <2>2, <2>3, RetryRefines
  <2>5. BoundInv'
    BY <1>3, <1>4, <1>5, <2>1, <2>2, <2>4
  <2> QED
    BY <2>4, <2>5 DEF StoreNext
<1>16. CASE PullFails(t)
  <2>1. /\ UNCHANGED <<storeVars, serverVars, applied>> /\ cursor' = cursor
        /\ thread' = [thread EXCEPT ![t] = Idle]
    BY <1>16 DEF PullFails, storeVars
  <2>2. PICK w : w = Idle
    OBVIOUS
  <2>3. w.pc # "page" /\ thread' = [thread EXCEPT ![t] = w]
    BY <2>1, <2>2, AtState
  <2> QED
    BY <1>3, <1>5, <2>1, <2>3
<1> QED
  BY <1>6, <1>7, <1>8, <1>9, <1>10, <1>11, <1>12, <1>13, <1>14, <1>15, <1>16
     DEF Push, Pull, Failure

(* So does everything else that happens.                                   *)
LEMMA StepRefines ==
    ASSUME SyncInv, BoundInv, BoundsSuffice, [SyncNext]_syncVars
    PROVE  BoundInv' /\ [StoreNext]_storeVars
<1>1. Len(log) \in Nat /\ cursor <= Len(log)
  BY DEF SyncInv, ServerInv, BoundInv, CursorInv
<1>2. ASSUME thread' = thread, UNCHANGED <<serverVars, applied>>, cursor' = cursor
      PROVE  BoundInv'
  BY <1>1, <1>2, QuietBounded
<1>3. CASE \E t \in Threads : StartCycle(t) \/ Push(t) \/ Pull(t) \/ Failure(t)
  BY <1>3, CycleRefines
<1>4. CASE LateDelivery
  <2>1. PICK r \in late : Serve(r) /\ UNCHANGED <<storeVars, thread>>
    BY <1>4 DEF LateDelivery
  <2>2. RequestOK(r)
    BY <2>1 DEF SyncInv, RequestInv, Reqs
  <2>3. PagesKept /\ cursor' = cursor
    BY <2>1 DEF PagesKept, storeVars
  <2>4. BoundInv'
    BY <2>1, <2>2, <2>3, ServeBounded
  <2> QED
    BY <2>1, <2>4
<1>5. CASE Restart
  <2>1. /\ RecoverInFlight /\ UNCHANGED <<serverVars, applied>>
        /\ thread' = [t \in Threads |-> Idle]
    BY <1>5 DEF Restart
  <2>2. cursor' = cursor
    BY <2>1 DEF RecoverInFlight
  <2>3. \A t \in Threads : thread'[t].pc # "page"
    BY <2>1, AtState
  <2>4. BoundInv'
    BY <1>1, <2>1, <2>2, <2>3, QuietBounded
  <2> QED
    BY <2>1, <2>4 DEF StoreNext, DispatchNext
<1>6. CASE UserCommand
  <2>1. UserNext /\ cursor' = cursor
    BY <1>6, UserRefines
  <2>2. thread' = thread /\ UNCHANGED <<serverVars, applied>>
    BY <1>6 DEF UserCommand
  <2> QED
    BY <1>2, <2>1, <2>2 DEF StoreNext
<1>7. CASE Backoff
  <2>1. \E k \in RowIds : \E i \in DOMAIN outbox[k] : BackoffElapses(k, i)
    BY <1>7 DEF Backoff
  <2>2. cursor' = cursor
    BY <2>1 DEF BackoffElapses
  <2>3. thread' = thread /\ UNCHANGED <<serverVars, applied>>
    BY <1>7 DEF Backoff
  <2> QED
    BY <1>2, <2>1, <2>2, <2>3 DEF StoreNext, DispatchNext
<1>8. CASE Browser
  BY <1>8, BrowserBounded DEF Browser
<1>9. CASE UNCHANGED syncVars
  BY <1>2, <1>9 DEF syncVars, storeVars
<1> QED
  BY <1>3, <1>4, <1>5, <1>6, <1>7, <1>8, <1>9 DEF SyncNext

(* The exchange implements the specification of the store: whatever the    *)
(* cycles, the server, the browser and the failures do, every step of      *)
(* DesktopSync is a call that StoreSpec allows, or leaves the store alone. *)
(* So what holds of LocalStore in its open environment holds of the real   *)
(* one.                                                                    *)
THEOREM ImplementsStore == BoundsSuffice => (SyncSpec => StoreSpec)
<1> SUFFICES ASSUME BoundsSuffice PROVE SyncSpec => StoreSpec
  OBVIOUS
<1>1. SyncInit => StoreInit /\ BoundInv
  BY BoundInitHolds DEF SyncInit
<1>2. SyncInv /\ BoundInv /\ [SyncNext]_syncVars
        => BoundInv' /\ [StoreNext]_storeVars
  BY StepRefines
<1> QED
  BY <1>1, <1>2, SyncInvariant, PTL DEF SyncSpec, StoreSpec

-----------------------------------------------------------------------------
(* The change log.  What the mirror can know of a skill is ordered by its  *)
(* revisions, and the last event of a skill says where the skill is.       *)

(* The kind of the event that left skill s as it is.                       *)
HeadOp(s) == IF skill[s].status = "deleted" THEN "delete" ELSE "upsert"

(* Event h made skill s what it is, and is the last about it.              *)
IsHead(s, h) ==
    /\ log[h] = [rid |-> s, rev |-> skill[s].rev, op |-> HeadOp(s)]
    /\ \A i \in DOMAIN log :
          log[i].rid = s /\ i # h => i < h /\ log[i].rev < skill[s].rev

(* Revisions rise along the events of a skill; only a purge repeats the    *)
(* revision of the deletion before it.                                     *)
Rises(e, f) ==
    e.rid = f.rid => \/ e.rev < f.rev
                     \/ e.rev = f.rev /\ e.op = "delete" /\ f.op = "delete"

FeedInv ==
    /\ \A i \in DOMAIN log :
          log[i].rev >= 1 /\ skill[log[i].rid].status # "absent"
    /\ \A s \in ServerIds : InTable(s) => \E h \in DOMAIN log : IsHead(s, h)
    /\ \A i, j \in DOMAIN log : i < j => Rises(log[i], log[j])

(* Skill s becomes x and event e says so: at the next revision, or with    *)
(* the second tombstone of a purge.                                        *)
Published(s, x, e) ==
    /\ skill' = [skill EXCEPT ![s] = x]
    /\ log' = Append(log, e)
    /\ e \in Events /\ e.rid = s
    /\ \/ /\ x.status \in {"draft", "deleted"} /\ x.rev = e.rev
          /\ e.op = IF x.status = "deleted" THEN "delete" ELSE "upsert"
          /\ \/ skill[s].status = "absent" /\ e.rev = 1
             \/ InTable(s) /\ e.rev = skill[s].rev + 1
       \/ /\ x.status = "purged" /\ e.op = "delete"
          /\ skill[s].status = "deleted" /\ e.rev = skill[s].rev

(* What the tables may do between two looks at them.                       *)
FeedGrows ==
    /\ Len(log) <= Len(log')
    /\ \A i \in DOMAIN log : i \in DOMAIN log' /\ log'[i] = log[i]
    /\ \A s \in ServerIds : skill[s].status # "absent" =>
          /\ skill'[s].status # "absent"
          /\ InTable(s)' => InTable(s) /\ skill[s].rev <= skill'[s].rev
          /\ InTable(s)' /\ skill'[s].rev = skill[s].rev
               => skill'[s].pkg = skill[s].pkg
    /\ \A i \in DOMAIN log' \ DOMAIN log : LET s == log'[i].rid IN
          \/ skill[s].status = "absent" \/ skill'[s].status = "purged"
          \/ InTable(s) /\ skill[s].rev < log'[i].rev

(* Every method of SkillMutationService publishes what it does.            *)
LEMMA ServicePublishes ==
    ASSUME ServerInv, NEW s \in ServerIds,
           \/ FreshId(s) /\ \E hash \in Hashes, k \in RowIds :
                               CreateSkill(s, SlugOf[k], hash)
           \/ Live(s) /\ \E hash \in Hashes : UpdateSkill(s, hash)
           \/ Live(s) /\ TouchMetadata(s)
           \/ InTable(s) /\ SoftDelete(s)
           \/ RestoreSkill(s) \/ PurgeSkill(s)
    PROVE  UNCHANGED <<skill, log>> \/ \E x, e : Published(s, x, e)
<1>1. skill \in [ServerIds -> Skills] /\ skill[s] \in Skills
  BY DEF ServerInv
<1>2. skill[s].rev \in Nat /\ skill[s].rev + 1 \in Nat
  BY <1>1 DEF Skills
<1>3. ASSUME NEW x, skill' = [skill EXCEPT ![s] = x], NEW rev \in Nat,
             NEW op \in {"upsert", "delete"}, EmitChangeEvent(s, rev, op),
             \/ /\ x.status \in {"draft", "deleted"} /\ x.rev = rev
                /\ op = IF x.status = "deleted" THEN "delete" ELSE "upsert"
                /\ \/ skill[s].status = "absent" /\ rev = 1
                   \/ InTable(s) /\ rev = skill[s].rev + 1
             \/ /\ x.status = "purged" /\ op = "delete"
                /\ skill[s].status = "deleted" /\ rev = skill[s].rev
      PROVE  \E y, e : Published(s, y, e)
  <2>1. PICK e : e = [rid |-> s, rev |-> rev, op |-> op]
    OBVIOUS
  <2>2. e \in Events /\ e.rid = s /\ e.rev = rev /\ e.op = op
    BY <2>1 DEF Events
  <2>3. log' = Append(log, e)
    BY <1>3, <2>1 DEF EmitChangeEvent
  <2>4. Published(s, x, e)
    BY <1>3, <2>2, <2>3 DEF Published
  <2> QED
    BY <2>4
<1>4. ASSUME FreshId(s), NEW hash, NEW slug, CreateSkill(s, slug, hash)
      PROVE  \E y, e : Published(s, y, e)
  <2>1. PICK x : x = [status |-> "draft", rev |-> 1, pkg |-> hash, slug |-> slug]
    OBVIOUS
  <2>2. /\ skill' = [skill EXCEPT ![s] = x] /\ EmitChangeEvent(s, 1, "upsert")
        /\ x.status = "draft" /\ x.rev = 1
    BY <1>4, <2>1 DEF CreateSkill
  <2> QED
    BY <1>3, <1>4, <2>2 DEF FreshId
<1>5. ASSUME Live(s), NEW hash, UpdateSkill(s, hash)
      PROVE  \E y, e : Published(s, y, e)
  <2>1. PICK x : x = [skill[s] EXCEPT !.rev = skill[s].rev + 1, !.pkg = hash]
    OBVIOUS
  <2>2. /\ skill' = [skill EXCEPT ![s] = x]
        /\ EmitChangeEvent(s, skill[s].rev + 1, "upsert")
    BY <1>1, <1>5, <2>1 DEF UpdateSkill
  <2>3. x.status = "draft" /\ x.rev = skill[s].rev + 1
    BY <1>1, <1>5, <2>1 DEF Skills, SkillStatus, Live, InTable
  <2> QED
    BY <1>2, <1>3, <1>5, <2>2, <2>3 DEF Live
<1>6. ASSUME Live(s), TouchMetadata(s)
      PROVE  \E y, e : Published(s, y, e)
  <2>1. PICK x : x = [skill[s] EXCEPT !.rev = skill[s].rev + 1]
    OBVIOUS
  <2>2. /\ skill' = [skill EXCEPT ![s] = x]
        /\ EmitChangeEvent(s, skill[s].rev + 1, "upsert")
    BY <1>1, <1>6, <2>1 DEF TouchMetadata
  <2>3. x.status = "draft" /\ x.rev = skill[s].rev + 1
    BY <1>1, <1>6, <2>1 DEF Skills, SkillStatus, Live, InTable
  <2> QED
    BY <1>2, <1>3, <1>6, <2>2, <2>3 DEF Live
<1>7. ASSUME InTable(s), SoftDelete(s), skill[s].status # "deleted"
      PROVE  \E y, e : Published(s, y, e)
  <2>1. PICK x : x = [skill[s] EXCEPT !.rev = skill[s].rev + 1, !.status = "deleted"]
    OBVIOUS
  <2>2. /\ skill' = [skill EXCEPT ![s] = x]
        /\ EmitChangeEvent(s, skill[s].rev + 1, "delete")
    BY <1>1, <1>7, <2>1 DEF SoftDelete
  <2>3. x.status = "deleted" /\ x.rev = skill[s].rev + 1
    BY <1>1, <2>1 DEF Skills
  <2> QED
    BY <1>2, <1>3, <1>7, <2>2, <2>3
<1>8. ASSUME RestoreSkill(s)
      PROVE  \E y, e : Published(s, y, e)
  <2>1. PICK x : x = [skill[s] EXCEPT !.rev = skill[s].rev + 1, !.status = "draft"]
    OBVIOUS
  <2>2. /\ skill' = [skill EXCEPT ![s] = x] /\ InTable(s)
        /\ EmitChangeEvent(s, skill[s].rev + 1, "upsert")
    BY <1>1, <1>8, <2>1 DEF RestoreSkill, InTable
  <2>3. x.status = "draft" /\ x.rev = skill[s].rev + 1
    BY <1>1, <2>1 DEF Skills
  <2> QED
    BY <1>2, <1>3, <2>2, <2>3
<1>9. ASSUME PurgeSkill(s)
      PROVE  \E y, e : Published(s, y, e)
  <2>1. PICK x : x = [NoSkill EXCEPT !.status = "purged"]
    OBVIOUS
  <2>2. /\ skill' = [skill EXCEPT ![s] = x] /\ skill[s].status = "deleted"
        /\ EmitChangeEvent(s, skill[s].rev, "delete")
    BY <1>9, <2>1 DEF PurgeSkill
  <2>3. x.status = "purged"
    BY <2>1 DEF NoSkill
  <2> QED
    BY <1>2, <1>3, <2>2, <2>3
<1>10. InTable(s) /\ SoftDelete(s) /\ skill[s].status = "deleted"
          => UNCHANGED <<skill, log>>
  BY DEF SoftDelete
<1> QED
  BY <1>4, <1>5, <1>6, <1>7, <1>8, <1>9, <1>10

(* A published event keeps the log in order with the skills.               *)
LEMMA PublishedFeeds ==
    ASSUME ServerInv, FeedInv, NEW s \in ServerIds, NEW x, NEW e,
           Published(s, x, e)
    PROVE  FeedInv' /\ FeedGrows
<1>1. /\ log \in Seq(Events) /\ Len(log) \in Nat
      /\ skill \in [ServerIds -> Skills]
  BY DEF ServerInv
<1>2. /\ \A y \in ServerIds : skill[y].rev \in Nat
      /\ \A i \in DOMAIN log : log[i] \in Events /\ log[i].rev \in Nat
                                 /\ log[i].rid \in ServerIds
      /\ e \in Events /\ e.rev \in Nat /\ e.rid = s
  <2>1. \A y \in ServerIds : skill[y].rev \in Nat
    BY <1>1 DEF Skills
  <2>2. \A i \in DOMAIN log : log[i] \in Events
    BY <1>1
  <2>3. \A f \in Events : f.rev \in Nat /\ f.rid \in ServerIds
    BY DEF Events
  <2>4. e \in Events /\ e.rid = s
    BY DEF Published
  <2> QED
    BY <2>1, <2>2, <2>3, <2>4
<1>3. PICK n \in Nat : n = Len(log) + 1
  BY <1>1
<1>4. /\ DOMAIN log' = DOMAIN log \cup {n} /\ n \notin DOMAIN log
      /\ \A i \in DOMAIN log : log'[i] = log[i] /\ i < n /\ i \in Nat
      /\ log'[n] = e /\ Len(log') = n /\ Len(log) <= n
  BY <1>1, <1>2, <1>3 DEF Published
<1>5. skill'[s] = x /\ \A y \in ServerIds \ {s} : skill'[y] = skill[y]
  BY <1>1 DEF Published
<1>6. \A i \in DOMAIN log :
         log[i].rid = s => /\ skill[s].status # "absent"
                           /\ InTable(s) => log[i].rev <= skill[s].rev
  <2> SUFFICES ASSUME NEW i \in DOMAIN log, log[i].rid = s, InTable(s)
               PROVE  log[i].rev <= skill[s].rev
    BY DEF FeedInv
  <2>1. PICK h \in DOMAIN log : IsHead(s, h)
    BY DEF FeedInv
  <2>2. CASE i = h
    BY <1>2, <2>1, <2>2 DEF IsHead
  <2>3. CASE i # h
    BY <1>2, <2>1, <2>3 DEF IsHead
  <2> QED
    BY <2>2, <2>3
<1>7. skill[s].status # "absent" => InTable(s)
  BY DEF Published, InTable
<1>8. e.rev >= 1
  <2>1. CASE InTable(s)
    <3>1. PICK h \in DOMAIN log : IsHead(s, h)
      BY <2>1 DEF FeedInv
    <3>2. skill[s].rev >= 1
      BY <3>1 DEF FeedInv, IsHead
    <3> QED
      BY <1>2, <3>2 DEF Published, InTable
  <2>2. CASE ~InTable(s)
    BY <2>2 DEF Published, InTable
  <2> QED
    BY <2>1, <2>2
<1>9. \A i \in DOMAIN log : Rises(log[i], e)
  <2> SUFFICES ASSUME NEW i \in DOMAIN log, log[i].rid = s
               PROVE  \/ log[i].rev < e.rev
                      \/ /\ log[i].rev = e.rev
                         /\ log[i].op = "delete" /\ e.op = "delete"
    BY <1>2 DEF Rises
  <2>1. InTable(s) /\ log[i].rev <= skill[s].rev
    BY <1>6, <1>7
  <2>2. PICK h \in DOMAIN log : IsHead(s, h)
    BY <2>1 DEF FeedInv
  <2>3. CASE e.rev = skill[s].rev + 1
    BY <1>2, <2>1, <2>3
  <2>4. CASE skill[s].status = "deleted" /\ e.rev = skill[s].rev /\ e.op = "delete"
    <3>1. CASE i = h
      BY <2>2, <2>4, <3>1 DEF IsHead, HeadOp
    <3>2. CASE i # h
      BY <2>2, <2>4, <3>2 DEF IsHead
    <3> QED
      BY <3>1, <3>2
  <2> QED
    BY <2>1, <2>3, <2>4 DEF Published, InTable
<1>10. \A i, j \in DOMAIN log' : i < j => Rises(log'[i], log'[j])
  <2> SUFFICES ASSUME NEW i \in DOMAIN log', NEW j \in DOMAIN log', i < j
               PROVE  Rises(log'[i], log'[j])
    OBVIOUS
  <2>1. i \in DOMAIN log
    <3>1. \A m \in DOMAIN log' : ~(n < m)
      BY <1>3, <1>4
    <3> QED
      BY <1>4, <3>1
  <2>2. CASE j \in DOMAIN log
    BY <1>4, <2>1, <2>2 DEF FeedInv
  <2>3. CASE j = n
    BY <1>4, <1>9, <2>1, <2>3
  <2> QED
    BY <1>4, <2>2, <2>3
<1>11. \A i \in DOMAIN log' :
          log'[i].rev >= 1 /\ skill'[log'[i].rid].status # "absent"
  <2>1. x.status # "absent"
    BY DEF Published
  <2>2. \A i \in DOMAIN log : skill'[log[i].rid].status # "absent"
    BY <1>2, <1>5, <2>1 DEF FeedInv
  <2> QED
    BY <1>2, <1>4, <1>5, <1>8, <2>1, <2>2 DEF FeedInv
<1>12. ASSUME NEW y \in ServerIds, InTable(y)'
       PROVE  \E h \in DOMAIN log' : IsHead(y, h)'
  <2>1. CASE y # s
    <3>1. skill'[y] = skill[y] /\ InTable(y)
      BY <1>5, <1>12, <2>1 DEF InTable
    <3>2. PICK h \in DOMAIN log : IsHead(y, h)
      BY <3>1 DEF FeedInv
    <3>3. \A i \in DOMAIN log' : log'[i].rid = y => i \in DOMAIN log
      BY <1>2, <1>4, <2>1
    <3>4. IsHead(y, h)'
      BY <1>4, <3>1, <3>2, <3>3 DEF IsHead, HeadOp
    <3> QED
      BY <1>4, <3>4
  <2>2. CASE y = s
    <3>1. /\ x.rev = e.rev /\ x.status # "purged"
          /\ e.op = IF x.status = "deleted" THEN "delete" ELSE "upsert"
          /\ \/ skill[s].status = "absent"
             \/ InTable(s) /\ e.rev = skill[s].rev + 1
      BY <1>5, <1>12, <2>2 DEF InTable, Published
    <3>2. log'[n] = [rid |-> s, rev |-> skill'[s].rev, op |-> HeadOp(s)']
      BY <1>2, <1>4, <1>5, <3>1 DEF HeadOp, Events
    <3>3. \A i \in DOMAIN log' :
             log'[i].rid = s /\ i # n => i < n /\ log'[i].rev < skill'[s].rev
      <4> SUFFICES ASSUME NEW i \in DOMAIN log, log[i].rid = s
                   PROVE  log[i].rev < e.rev
        BY <1>4, <1>5, <3>1
      <4>1. InTable(s) /\ log[i].rev <= skill[s].rev /\ e.rev = skill[s].rev + 1
        BY <1>6, <1>7, <3>1
      <4> QED
        BY <1>2, <4>1
    <3>4. IsHead(s, n)'
      BY <3>2, <3>3 DEF IsHead
    <3> QED
      BY <1>4, <2>2, <3>4
  <2> QED
    BY <2>1, <2>2
<1>13. FeedInv'
  BY <1>10, <1>11, <1>12 DEF FeedInv
<1>14. \A y \in ServerIds : skill[y].status # "absent" =>
          /\ skill'[y].status # "absent"
          /\ InTable(y)' => InTable(y) /\ skill[y].rev <= skill'[y].rev
          /\ InTable(y)' /\ skill'[y].rev = skill[y].rev
               => skill'[y].pkg = skill[y].pkg
  <2> SUFFICES ASSUME NEW y \in ServerIds, skill[y].status # "absent"
               PROVE  /\ skill'[y].status # "absent"
                      /\ InTable(y)' => InTable(y) /\ skill[y].rev <= skill'[y].rev
                      /\ InTable(y)' /\ skill'[y].rev = skill[y].rev
                           => skill'[y].pkg = skill[y].pkg
    OBVIOUS
  <2>1. CASE y # s
    BY <1>2, <1>5, <2>1 DEF InTable
  <2>2. CASE y = s
    <3>1. InTable(s) /\ x.status # "absent"
      BY <1>7, <2>2 DEF Published
    <3>2. InTable(s)' => skill'[s].rev = skill[s].rev + 1
      BY <1>5, <2>2 DEF Published, InTable
    <3> QED
      BY <1>2, <1>5, <2>2, <3>1, <3>2
  <2> QED
    BY <2>1, <2>2
<1>15. /\ log'[n].rid = s
       /\ \/ skill[s].status = "absent" \/ skill'[s].status = "purged"
          \/ InTable(s) /\ skill[s].rev < log'[n].rev
  BY <1>2, <1>4, <1>5 DEF Published
<1> QED
  BY <1>4, <1>13, <1>14, <1>15 DEF FeedGrows

(* Answer a and the tables that the handled request r left fit together.   *)
AnswerNow(r, a) ==
    /\ a.status = "acked" =>
         /\ a.rid \in ServerIds /\ InTable(a.rid) /\ skill[a.rid].rev = a.rev
         /\ r.op # "delete" => Live(a.rid) /\ skill[a.rid].pkg = r.payload
    /\ a.status = "conflict" =>
         /\ r.remote \in ServerIds /\ InTable(r.remote)
         /\ skill[r.remote].rev = a.head

(* Every handler of a mutation publishes what it does, and answers with    *)
(* what is now true.                                                       *)
LEMMA HandledAnswers ==
    ASSUME ServerInv, NEW r \in Requests, WellFormed(r),
           \/ r.op = "create" /\ HandleCreate(r)
           \/ r.op = "update" /\ HandleUpdate(r)
           \/ r.op = "delete" /\ HandleDelete(r)
    PROVE  /\ \/ UNCHANGED <<skill, log>>
              \/ \E s \in ServerIds : \E x, e : Published(s, x, e)
           /\ UNCHANGED receipt \/ \E a : InsertReceipt(r, a) /\ AnswerNow(r, a)'
<1>0. skill \in [ServerIds -> Skills] /\ r.key \in RowIds /\ r.payload \in Hashes
  BY DEF ServerInv, Requests
<1>1. ASSUME NEW a, Refuse(r, a), AnswerNow(r, a)'
      PROVE  /\ UNCHANGED <<skill, log>>
             /\ \E b : InsertReceipt(r, b) /\ AnswerNow(r, b)'
  BY <1>1 DEF Refuse
<1>2. ASSUME \/ Refuse(r, Refused("validation_error"))
             \/ Refuse(r, Refused("permission_denied"))
      PROVE  /\ UNCHANGED <<skill, log>>
             /\ \E b : InsertReceipt(r, b) /\ AnswerNow(r, b)'
  <2>1. PICK a : /\ Refuse(r, a)
                 /\ a = Refused("validation_error") \/ a = Refused("permission_denied")
    BY <1>2
  <2>2. a.status # "acked" /\ a.status # "conflict"
    BY <2>1 DEF Refused, Response
  <2>3. AnswerNow(r, a)'
    BY <2>2 DEF AnswerNow
  <2> QED
    BY <1>1, <2>1, <2>3
<1>3. ASSUME NEW s \in ServerIds, s = r.remote, InTable(s), Refuse(r, ConflictHead(s))
      PROVE  /\ UNCHANGED <<skill, log>>
             /\ \E b : InsertReceipt(r, b) /\ AnswerNow(r, b)'
  <2>1. PICK a : a = ConflictHead(s)
    OBVIOUS
  <2>2. Refuse(r, a) /\ skill' = skill
    BY <1>3, <2>1 DEF Refuse
  <2>3. a.status = "conflict" /\ a.head = skill[s].rev
    BY <2>1 DEF ConflictHead, Response
  <2>4. AnswerNow(r, a)'
    BY <1>3, <2>2, <2>3 DEF AnswerNow, InTable
  <2> QED
    BY <1>1, <2>2, <2>4
<1>4. ASSUME NEW s \in ServerIds, NEW rev, InsertReceipt(r, Acked(s, rev)),
             InTable(s)', skill'[s].rev = rev,
             r.op # "delete" => Live(s)' /\ skill'[s].pkg = r.payload
      PROVE  \E b : InsertReceipt(r, b) /\ AnswerNow(r, b)'
  <2>1. PICK a : a = Acked(s, rev)
    OBVIOUS
  <2>2. a.status = "acked" /\ a.rid = s /\ a.rev = rev
    BY <2>1 DEF Acked, Response
  <2>3. AnswerNow(r, a)'
    BY <1>4, <2>2 DEF AnswerNow
  <2>4. InsertReceipt(r, a)
    BY <1>4, <2>1
  <2> QED
    BY <2>3, <2>4
<1>5. CASE r.op = "create" /\ HandleCreate(r)
  <2>1. CASE UNCHANGED <<skill, receipt, log>> \/ Refuse(r, Refused("validation_error"))
    BY <1>2, <2>1
  <2>2. CASE \E s \in ServerIds :
               /\ FreshId(s)
               /\ CreateSkill(s, SlugOf[r.key], r.payload)
               /\ InsertReceipt(r, Acked(s, 1))
    <3>1. PICK s \in ServerIds :
               /\ FreshId(s)
               /\ CreateSkill(s, SlugOf[r.key], r.payload)
               /\ InsertReceipt(r, Acked(s, 1))
      BY <2>2
    <3>2. \E x, e : Published(s, x, e)
      <4>1. skill' # skill
        BY <1>0, <3>1 DEF CreateSkill, FreshId
      <4> QED
        BY <1>0, <3>1, <4>1, ServicePublishes
    <3>3. skill'[s] = [status |-> "draft", rev |-> 1, pkg |-> r.payload,
                       slug |-> SlugOf[r.key]]
      BY <1>0, <3>1 DEF CreateSkill
    <3>4. Live(s)' /\ InTable(s)' /\ skill'[s].rev = 1 /\ skill'[s].pkg = r.payload
      BY <3>3 DEF Live, InTable
    <3> QED
      BY <1>4, <3>1, <3>2, <3>4
  <2> QED
    BY <1>5, <2>1, <2>2 DEF HandleCreate
<1>6. ASSUME r.op # "create"
      PROVE  r.remote \in ServerIds
  BY <1>6 DEF WellFormed, Requests
<1>7. CASE r.op = "update" /\ HandleUpdate(r)
  <2>0. PICK s \in ServerIds : s = r.remote
    BY <1>6, <1>7
  <2>1. CASE Live(s) /\ skill[s].rev = r.base /\ UpdateSkill(s, r.payload)
               /\ InsertReceipt(r, Acked(s, skill[s].rev + 1))
    <3>1. PICK n : n = skill[s].rev + 1
      OBVIOUS
    <3>2. skill' = [skill EXCEPT ![s].rev = n, ![s].pkg = r.payload]
      BY <2>1, <3>1 DEF UpdateSkill
    <3>3. skill[s] \in Skills
      BY <1>0
    <3>4. /\ skill'[s].rev = n /\ skill'[s].pkg = r.payload
          /\ skill'[s].status = skill[s].status
      BY <1>0, <3>2, <3>3 DEF Skills
    <3>5. Live(s)' /\ InTable(s)'
      BY <2>1, <3>4 DEF Live, InTable
    <3>6. InsertReceipt(r, Acked(s, n))
      BY <2>1, <3>1
    <3>7. UNCHANGED <<skill, log>> \/ \E x, e : Published(s, x, e)
      BY <1>0, <2>1, ServicePublishes
    <3> QED
      BY <1>4, <3>4, <3>5, <3>6, <3>7
  <2>2. CASE \/ Refuse(r, Refused("validation_error"))
             \/ Refuse(r, Refused("permission_denied"))
             \/ Live(s) /\ Refuse(r, ConflictHead(s))
    BY <1>2, <1>3, <2>0, <2>2 DEF Live
  <2> QED
    BY <1>7, <2>0, <2>1, <2>2 DEF HandleUpdate
<1>8. CASE r.op = "delete" /\ HandleDelete(r)
  <2>0. PICK s \in ServerIds : s = r.remote
    BY <1>6, <1>8
  <2>1. CASE InTable(s) /\ skill[s].rev = r.base /\ SoftDelete(s)
               /\ InsertReceipt(r, Acked(s, DeletedRev(s)))
    <3>1. PICK n : n = DeletedRev(s)
      OBVIOUS
    <3>2. skill[s] \in Skills
      BY <1>0
    <3>3. skill'[s].rev = n /\ skill'[s].status = "deleted"
      <4>1. CASE skill[s].status = "deleted"
        BY <2>1, <3>1, <4>1 DEF SoftDelete, DeletedRev
      <4>2. CASE skill[s].status # "deleted"
        BY <1>0, <2>1, <3>1, <3>2, <4>2 DEF SoftDelete, DeletedRev, Skills
      <4> QED
        BY <4>1, <4>2
    <3>4. InTable(s)'
      BY <3>3 DEF InTable
    <3>5. InsertReceipt(r, Acked(s, n))
      BY <2>1, <3>1
    <3>6. UNCHANGED <<skill, log>> \/ \E x, e : Published(s, x, e)
      BY <2>1, ServicePublishes
    <3> QED
      BY <1>4, <1>8, <3>3, <3>4, <3>5, <3>6
  <2>2. CASE \/ Refuse(r, Refused("permission_denied"))
             \/ InTable(s) /\ Refuse(r, ConflictHead(s))
    BY <1>2, <1>3, <2>0, <2>2
  <2> QED
    BY <1>8, <2>0, <2>1, <2>2 DEF HandleDelete
<1> QED
  BY <1>5, <1>7, <1>8

(* A step that leaves the tables alone.                                    *)
LEMMA TablesStill ==
    ASSUME ServerInv, UNCHANGED <<skill, log>>
    PROVE  FeedGrows /\ (FeedInv => FeedInv')
<1>1. Len(log) \in Nat /\ \A s \in ServerIds : skill[s].rev \in Nat
  BY DEF ServerInv, Skills
<1>2. FeedGrows
  BY <1>1 DEF FeedGrows, InTable
<1> QED
  BY <1>2 DEF FeedInv, IsHead, HeadOp, InTable

LEMMA ServeFeeds ==
    ASSUME SyncInv, FeedInv, NEW r, RequestOK(r), Serve(r)
    PROVE  /\ FeedInv' /\ FeedGrows
           /\ \/ UNCHANGED receipt
              \/ \E a : receipt' = [receipt EXCEPT ![r.id] = a] /\ AnswerNow(r, a)'
<1>1. r \in Requests /\ ServerInv
  BY DEF RequestOK, SyncInv
<1>2. CASE UNCHANGED <<skill, receipt, log>>
  BY <1>1, <1>2, TablesStill
<1>3. CASE /\ WellFormed(r)
           /\ \/ r.op = "create" /\ HandleCreate(r)
              \/ r.op = "update" /\ HandleUpdate(r)
              \/ r.op = "delete" /\ HandleDelete(r)
  <2>1. /\ \/ UNCHANGED <<skill, log>>
           \/ \E s \in ServerIds : \E x, e : Published(s, x, e)
        /\ UNCHANGED receipt \/ \E a : InsertReceipt(r, a) /\ AnswerNow(r, a)'
    BY <1>1, <1>3, HandledAnswers
  <2>2. FeedInv' /\ FeedGrows
    BY <1>1, <2>1, TablesStill, PublishedFeeds
  <2> QED
    BY <2>1, <2>2 DEF InsertReceipt
<1> QED
  BY <1>2, <1>3 DEF Serve, SubmitMutation, ApplySyncMutation

(* What the desktop is told the first time is now true.                    *)
LEMMA ReplyFits ==
    ASSUME SyncInv, FeedInv, NEW r, RequestOK(r), Serve(r),
           receipt[r.id] = NoReceipt, NEW a, a = ReplyTo(r)
    PROVE  AnswerNow(r, a)'
<1>1. r \in Requests /\ r.id \in Ids /\ receipt \in [Ids -> Responses]
  BY DEF RequestOK, Requests, SyncInv, ServerInv
<1>2. \/ a = Refused("http_request_error") \/ a = Refused("http_server_error")
      \/ receipt'[r.id] # NoReceipt /\ a = receipt'[r.id]
  BY DEF ReplyTo
<1>3. CASE a = Refused("http_request_error") \/ a = Refused("http_server_error")
  <2>1. a.status # "acked" /\ a.status # "conflict"
    BY <1>3 DEF Refused, Response
  <2> QED
    BY <2>1 DEF AnswerNow
<1>4. CASE receipt'[r.id] # NoReceipt /\ a = receipt'[r.id]
  <2>1. PICK b : receipt' = [receipt EXCEPT ![r.id] = b] /\ AnswerNow(r, b)'
    BY <1>4, ServeFeeds
  <2>2. a = b
    BY <1>1, <1>4, <2>1
  <2> QED
    BY <2>1, <2>2
<1> QED
  BY <1>2, <1>3, <1>4

LEMMA BrowserFeeds ==
    ASSUME ServerInv, FeedInv, RestNext
    PROVE  FeedInv' /\ FeedGrows
<1>1. ServerIds \subseteq RowIds
  BY DEF RowIds
<1>2. PICK s \in ServerIds :
         \/ \E hash \in Hashes : RestCreate(s, hash) \/ RestUpdate(s, hash)
         \/ RestDelete(s) \/ RestRestore(s) \/ RestPurge(s) \/ RestTouch(s)
  BY DEF RestNext
<1>3. \/ FreshId(s) /\ \E hash \in Hashes, k \in RowIds :
                            CreateSkill(s, SlugOf[k], hash)
      \/ Live(s) /\ \E hash \in Hashes : UpdateSkill(s, hash)
      \/ Live(s) /\ TouchMetadata(s)
      \/ InTable(s) /\ SoftDelete(s)
      \/ RestoreSkill(s) \/ PurgeSkill(s)
  BY <1>1, <1>2 DEF RestCreate, RestUpdate, RestDelete, RestRestore, RestPurge,
     RestTouch, Live
<1>4. UNCHANGED <<skill, log>> \/ \E x, e : Published(s, x, e)
  BY <1>3, ServicePublishes
<1> QED
  BY <1>4, TablesStill, PublishedFeeds

LEMMA FeedStep ==
    ASSUME SyncInv, FeedInv, [SyncNext]_syncVars
    PROVE  FeedInv' /\ FeedGrows
<1>0. ServerInv
  BY DEF SyncInv
<1>1. CASE UNCHANGED <<skill, log>>
  BY <1>0, <1>1, TablesStill
<1>2. CASE Browser
  BY <1>0, <1>2, BrowserFeeds DEF Browser
<1>3. CASE LateDelivery
  <2>1. PICK r \in Reqs : Serve(r)
    BY <1>3 DEF LateDelivery, Reqs
  <2>2. RequestOK(r)
    BY DEF SyncInv, RequestInv
  <2> QED
    BY <2>1, <2>2, ServeFeeds
<1>4. ASSUME NEW t \in Threads, ServerReplies(t)
      PROVE  FeedInv' /\ FeedGrows
  <2>1. PICK r \in Reqs : r = thread[t].req
    BY <1>4 DEF ServerReplies, Reqs, Sending
  <2>2. RequestOK(r) /\ Serve(r)
    BY <1>4, <2>1 DEF SyncInv, RequestInv, ServerReplies
  <2> QED
    BY <2>2, ServeFeeds
<1>5. ASSUME NEW t \in Threads,
             \/ StartCycle(t) \/ Submit(t) \/ ApplyReply(t) \/ AckRollsBack(t)
             \/ ReleaseTail(t) \/ Pull(t) \/ Failure(t)
      PROVE  UNCHANGED <<skill, log>>
  BY <1>5 DEF StartCycle, Submit, ApplyReply, AckRollsBack, ReleaseTail, Pull,
     FetchPage, ApplyPage, Failure, UploadFails, Timeout, SessionRefused,
     PullFails, serverVars
<1>6. CASE Restart \/ UserCommand \/ Backoff
  BY <1>1, <1>6 DEF Restart, UserCommand, Backoff, serverVars
<1>7. CASE UNCHANGED syncVars
  BY <1>1, <1>7 DEF syncVars, serverVars
<1> QED
  BY <1>1, <1>2, <1>3, <1>4, <1>5, <1>6, <1>7 DEF SyncNext, Push

(* The change log is a faithful history: the revisions of a skill rise     *)
(* along it (only a purge repeats one), and the last event of every skill  *)
(* in the table states its revision and whether it is in the trash.        *)
(* _emit_change_event in every method of SkillMutationService.                 *)
THEOREM FeedTellsHeads == SyncSpec => []FeedInv
<1>1. SyncInit => FeedInv
  <2> SUFFICES ASSUME SyncInit PROVE FeedInv
    OBVIOUS
  <2>1. log = <<>> /\ skill = [s \in ServerIds |-> NoSkill]
    BY DEF SyncInit, ServerInit
  <2>2. DOMAIN log = {} /\ \A s \in ServerIds : skill[s].status = "absent"
    BY <2>1 DEF NoSkill
  <2> QED
    BY <2>2 DEF FeedInv, InTable
<1>2. SyncInv /\ FeedInv /\ [SyncNext]_syncVars => FeedInv'
  BY FeedStep
<1> QED
  BY <1>1, <1>2, SyncInvariant, PTL DEF SyncSpec

-----------------------------------------------------------------------------
(* The mirror.  One cycle at a time, and no request whose answer is lost:  *)
(* the worker and sync_now never overlap, no dispatch times out and the    *)
(* process does not die.  Uploads, pulls and sessions may fail.            *)
Undisturbed ==
    /\ \A t, u \in Threads : t = u
    /\ "timeout" \notin Faults /\ "crash" \notin Faults

Unsent == {"pending", "retryable_error", "retry_later"}

(* What a thread has still to send has not been answered.                  *)
FreshThread(w) ==
    /\ \A p \in w.batch : receipt[p[2]] = NoReceipt
    /\ w.pc = "sent" => receipt[w.req.id] = NoReceipt
    /\ w.pc = "replied" /\ w.resp.status \notin Definitive
         => receipt[w.req.id] = NoReceipt

(* Nothing that has a receipt is sent again: every ack is a fresh one.     *)
FreshEntries ==
    \A k \in RowIds : \A i \in DOMAIN outbox[k] :
        outbox[k][i].state \in Unsent => receipt[outbox[k][i].id] = NoReceipt

FreshInv ==
    /\ late = {}
    /\ FreshEntries
    /\ \A t \in Threads : FreshThread(thread[t])

LEMMA OneThreadMoves ==
    ASSUME ThreadInv, Undisturbed, NEW t \in Threads, NEW w,
           thread' = [thread EXCEPT ![t] = w]
    PROVE  \A u \in Threads : thread'[u] = w
BY DEF ThreadInv, Undisturbed

(* What every command of the user leaves alone: revisions, remote ids, and *)
(* every mutation but the conflicts that it settles.                       *)
LEMMA CommandEntries ==
    ASSUME SyncInv, UserCommand
    PROVE  /\ UNCHANGED <<serverVars, thread, late, cursor>>
           /\ row' \in [RowIds -> Rows]
           /\ \A l \in RowIds : /\ row'[l].remoteId = row[l].remoteId
                                /\ row'[l].rev = row[l].rev
           /\ \A l \in RowIds : \A j \in DOMAIN outbox'[l] :
                 \/ Restated(l, j)
                 \/ outbox'[l][j].id = nextId /\ nextId <= MaxMutations
<1>1. UNCHANGED <<serverVars, thread, late, applied, seen>>
  BY DEF UserCommand
<1>2. PICK k \in RowIds :
        \/ \E hash \in Hashes : CommitSkillEdit(k, hash, row[k].rev)
        \/ QueueSkillDelete(k, row[k].rev)
        \/ ResolveKeepLocal(k)
        \/ ResolveKeepRemote(k)
        \/ MarkSkillHydrated(k, row[k].cur)
        \/ ClaimSkillForEviction(k, row[k].cur)
  BY DEF UserCommand
<1>3. /\ row \in [RowIds -> Rows] /\ row[k] \in Rows
      /\ outbox \in [RowIds -> Seq(Mutations)] /\ StoreInv
  BY DEF SyncInv, StoreInv, StoreTypeOK
<1>4. \A l \in RowIds : row'[l].remoteId = row[l].remoteId
                          /\ row'[l].rev = row[l].rev
  <2>1. CASE \E hash \in Hashes : CommitSkillEdit(k, hash, row[k].rev)
    BY <1>3, <2>1 DEF CommitSkillEdit, Rows
  <2>2. ASSUME NEW st, row' = [row EXCEPT ![k].state = st]
        PROVE  \A l \in RowIds : row'[l].remoteId = row[l].remoteId
                                 /\ row'[l].rev = row[l].rev
    BY <1>3, <2>2 DEF Rows
  <2>3. CASE ResolveKeepRemote(k)
    BY <1>3, <2>3 DEF ResolveKeepRemote, Rows
  <2>4. CASE \/ QueueSkillDelete(k, row[k].rev) \/ ResolveKeepLocal(k)
             \/ MarkSkillHydrated(k, row[k].cur)
             \/ ClaimSkillForEviction(k, row[k].cur)
    BY <2>2, <2>4 DEF QueueSkillDelete, ResolveKeepLocal, MarkSkillHydrated,
       ClaimSkillForEviction
  <2> QED
    BY <1>2, <2>1, <2>3, <2>4
<1>5. cursor' = cursor
  BY <1>2 DEF CommitSkillEdit, QueueSkillDelete, ResolveKeepLocal,
     ResolveKeepRemote, MarkSkillHydrated, ClaimSkillForEviction
<1>6. \/ outbox' = outbox
      \/ outbox' = [outbox EXCEPT ![k] = Superseded(k)]
      \/ /\ nextId <= MaxMutations
         /\ \E s \in {outbox[k], Superseded(k)} : \E op, hash :
               outbox' = [outbox EXCEPT ![k] =
                            Append(s, NewMutation(op, row[k].rev, hash))]
  BY <1>2 DEF CommitSkillEdit, QueueSkillDelete, ResolveKeepLocal,
     ResolveKeepRemote, MarkSkillHydrated, ClaimSkillForEviction
<1>7. \A l \in RowIds : outbox'[l] = outbox[l] =>
         \A j \in DOMAIN outbox'[l] : Restated(l, j)
  BY DEF Restated, SameMutation
<1>8. /\ Superseded(k) \in Seq(Mutations)
      /\ DOMAIN Superseded(k) = DOMAIN outbox[k]
      /\ \A l \in RowIds \ {k} : outbox'[l] = outbox[l]
  <2>1. \A l \in RowIds \ {k} : outbox'[l] = outbox[l]
    BY <1>3, <1>6
  <2> QED
    BY <1>3, <2>1, SupersededChain, SupersededEntries
<1>9. ASSUME NEW s \in {outbox[k], Superseded(k)}, NEW j \in DOMAIN s,
             j \in DOMAIN outbox'[k], outbox'[k][j] = s[j]
      PROVE  Restated(k, j)
  BY <1>3, <1>8, <1>9, SupersededEntries DEF Restated, SameMutation
<1>10. ASSUME NEW j \in DOMAIN outbox'[k]
       PROVE  \/ Restated(k, j)
              \/ outbox'[k][j].id = nextId /\ nextId <= MaxMutations
  <2>1. CASE outbox' = outbox
    BY <1>7, <2>1
  <2>2. CASE outbox' = [outbox EXCEPT ![k] = Superseded(k)]
    BY <1>3, <1>9, <1>10, <2>2
  <2>3. ASSUME nextId <= MaxMutations, NEW s \in {outbox[k], Superseded(k)},
               NEW op, NEW hash,
               outbox' = [outbox EXCEPT ![k] =
                            Append(s, NewMutation(op, row[k].rev, hash))]
        PROVE  \/ Restated(k, j)
               \/ outbox'[k][j].id = nextId /\ nextId <= MaxMutations
    <3>1. PICK m : m = NewMutation(op, row[k].rev, hash)
      OBVIOUS
    <3>2. m.id = nextId
      BY <3>1 DEF NewMutation
    <3>3. outbox'[k] = Append(s, m) /\ s \in Seq(Mutations)
      BY <1>3, <1>8, <2>3, <3>1
    <3>4. (j \in DOMAIN s /\ outbox'[k][j] = s[j]) \/ outbox'[k][j] = m
      BY <1>10, <3>3
    <3> QED
      BY <1>9, <1>10, <2>3, <3>2, <3>4
  <2> QED
    BY <1>6, <2>1, <2>2, <2>3
<1>11. row' \in [RowIds -> Rows]
  BY UserCommandSafe DEF SyncInv, StoreInv, StoreTypeOK
<1> QED
  BY <1>1, <1>4, <1>5, <1>7, <1>8, <1>10, <1>11

-----------------------------------------------------------------------------
(* What the steps of a thread do, each with its parts named.               *)

(* run_cycle claims the batch and holds its mutations.                     *)
LEMMA CycleStarts ==
    ASSUME SyncInv, NEW t \in Threads, StartCycle(t)
    PROVE  /\ UNCHANGED <<row, cursor, nextId, serverVars, late>>
           /\ \E Q \in SUBSET (RowIds \X Ids), w \in ThreadStates :
                /\ thread' = [thread EXCEPT ![t] = w]
                /\ w.batch = Q /\ w.pc \in {"pull", "push"}
                /\ \A q \in Q : \E k \in RowIds : \E i \in DOMAIN outbox[k] :
                      /\ q = <<k, outbox[k][i].id>>
                      /\ outbox[k][i].state \in {"pending", "retryable_error"}
           /\ \E batch \in SUBSET Dispatchable : outbox' = Moved(batch, "in_flight")
<1>1. PICK batch \in SUBSET Dispatchable :
         /\ ClaimDispatchable(batch)
         /\ thread' = [thread EXCEPT ![t] =
              AfterPush({<<p[1], outbox[p[1]][p[2]].id>> : p \in batch})]
  BY DEF StartCycle
<1>2. /\ outbox' = Moved(batch, "in_flight")
      /\ UNCHANGED <<row, cursor, nextId, serverVars, late>>
  BY <1>1 DEF StartCycle, ClaimDispatchable
<1>3. \A p \in batch :
         /\ p[1] \in RowIds /\ p[2] \in DOMAIN outbox[p[1]]
         /\ outbox[p[1]][p[2]].state \in {"pending", "retryable_error"}
         /\ outbox[p[1]][p[2]].id \in Ids
  BY EntryPair DEF Dispatchable, StateOf, SyncInv, UniqueIds
<1>4. PICK Q : Q = {<<p[1], outbox[p[1]][p[2]].id>> : p \in batch}
  OBVIOUS
<1>5. /\ Q \in SUBSET (RowIds \X Ids)
      /\ \A q \in Q : \E k \in RowIds : \E i \in DOMAIN outbox[k] :
            /\ q = <<k, outbox[k][i].id>>
            /\ outbox[k][i].state \in {"pending", "retryable_error"}
  BY <1>3, <1>4
<1>6. PICK w : w = AfterPush(Q)
  OBVIOUS
<1>7. w \in ThreadStates /\ w.batch = Q
  BY <1>5, <1>6, AfterState
<1>8. w.pc \in {"pull", "push"}
  BY <1>5, <1>6, AtState DEF AfterPush, PCs
<1>9. thread' = [thread EXCEPT ![t] = w]
  BY <1>1, <1>4, <1>6
<1> QED
  BY <1>2, <1>5, <1>7, <1>8, <1>9

(* dispatch_mutation sends one of the claimed mutations.                   *)
LEMMA SubmitSends ==
    ASSUME SyncInv, NEW t \in Threads, Submit(t)
    PROVE  \E w \in ThreadStates : \E k \in RowIds : \E i \in DOMAIN outbox[k] :
              /\ thread' = [thread EXCEPT ![t] = w]
              /\ w.pc = "sent" /\ w.batch \subseteq thread[t].batch
              /\ w.req = Request(k, outbox[k][i])
              /\ w.req.id = outbox[k][i].id
              /\ w.req.payload = outbox[k][i].payload
              /\ <<k, outbox[k][i].id>> \in thread[t].batch
<1>1. PICK p \in thread[t].batch :
         thread' = [thread EXCEPT ![t] =
             [At("sent", @.batch \ {p}) EXCEPT
                !.req = Request(p[1], outbox[p[1]][IndexOf(p[1], p[2])])]]
  BY DEF Submit
<1>2. PICK v \in ThreadStates : v = thread[t]
  BY DEF SyncInv, ThreadInv
<1>3. ThreadOK(v) /\ v.batch \in SUBSET (RowIds \X Ids) /\ p \in v.batch
  BY <1>1, <1>2 DEF SyncInv, ThreadInv, ThreadStates
<1>4. PICK k, i : k = p[1] /\ i = IndexOf(k, p[2])
  OBVIOUS
<1>5. /\ k \in RowIds /\ i \in DOMAIN outbox[k] /\ outbox[k][i].id = p[2]
      /\ p = <<k, p[2]>> /\ p[2] \in Ids
  <2>1. Claimed(p[1], p[2])
    BY <1>3 DEF ThreadOK
  <2>2. p = <<p[1], p[2]>> /\ p[2] \in Ids
    BY <1>3
  <2> QED
    BY <1>4, <2>1, <2>2, FoundClaim DEF SyncInv
<1>6. PICK r : r = Request(k, outbox[k][i])
  OBVIOUS
<1>7. /\ r.id = outbox[k][i].id /\ r.payload = outbox[k][i].payload
      /\ r \in Requests
  <2>1. outbox[k][i] \in Mutations /\ row[k] \in Rows
    BY <1>5 DEF SyncInv, StoreInv, StoreTypeOK
  <2>2. outbox[k][i].id \in Ids
    BY <1>5
  <2> QED
    BY <1>5, <1>6, <2>1, <2>2 DEF Request, Requests, Mutations, Rows
<1>8. PICK B \in SUBSET (RowIds \X Ids) : B = v.batch \ {p}
  BY <1>3
<1>9. PICK w : w = [At("sent", B) EXCEPT !.req = r]
  OBVIOUS
<1>10. /\ w \in ThreadStates /\ w.pc = "sent" /\ w.batch = B /\ w.req = r
  <2>1. PICK s \in ThreadStates : s = At("sent", B) /\ s.pc = "sent" /\ s.batch = B
    <3>1. "sent" \in PCs
      BY DEF PCs
    <3> QED
      BY <3>1, AtState
  <2>2. w = [s EXCEPT !.req = r]
    BY <1>9, <2>1
  <2> QED
    BY <1>7, <2>1, <2>2 DEF ThreadStates
<1>11. thread' = [thread EXCEPT ![t] = w]
  BY <1>1, <1>2, <1>4, <1>6, <1>8, <1>9
<1>12. B \subseteq v.batch /\ <<k, outbox[k][i].id>> \in v.batch
  BY <1>3, <1>5, <1>8
<1> QED
  BY <1>2, <1>5, <1>6, <1>7, <1>10, <1>11, <1>12

(* The request of a thread and the mutation it stands for.                 *)
LEMMA RequestEntry ==
    ASSUME SyncInv, NEW t \in Threads, Sending(t)
    PROVE  \E r \in Requests : \E i \in DOMAIN outbox[r.key] :
              /\ r = thread[t].req /\ RequestOK(r) /\ r \in Reqs
              /\ i = IndexOf(r.key, r.id)
              /\ outbox[r.key][i].id = r.id
              /\ outbox[r.key][i].state = "in_flight"
<1>1. PICK r : r = thread[t].req
  OBVIOUS
<1>2. r \in Requests /\ Claimed(r.key, r.id) /\ r \in Reqs
  BY <1>1 DEF SyncInv, ThreadInv, ThreadOK, Sending, Reqs
<1>3. RequestOK(r)
  BY <1>2 DEF SyncInv, RequestInv
<1> QED
  BY <1>1, <1>2, <1>3, FoundClaim DEF SyncInv

(* The server's answer comes in.                                           *)
LEMMA AnswerComes ==
    ASSUME SyncInv, NEW t \in Threads, ServerReplies(t)
    PROVE  \E r \in Requests, w \in ThreadStates : \E a \in Responses :
              /\ r = thread[t].req /\ RequestOK(r) /\ Serve(r)
              /\ thread[t].pc = "sent" /\ a = ReplyTo(r)
              /\ thread' = [thread EXCEPT ![t] = w]
              /\ w.pc = "replied" /\ w.batch = thread[t].batch
              /\ w.req = r /\ w.resp = a
              /\ UNCHANGED <<row, outbox, cursor, nextId, late>>
<1>1. PICK v \in ThreadStates : v = thread[t] /\ ThreadOK(v)
  BY DEF SyncInv, ThreadInv
<1>2. /\ v.pc = "sent" /\ Serve(v.req)
      /\ UNCHANGED <<row, outbox, cursor, nextId, late>>
  BY <1>1 DEF ServerReplies, storeVars
<1>3. PICK r \in Requests : r = v.req /\ RequestOK(r)
  <2>1. Sending(t)
    BY <1>1, <1>2 DEF Sending
  <2> QED
    BY <1>1, <2>1, RequestEntry
<1>4. PICK a : a = ReplyTo(r)
  OBVIOUS
<1>5. PICK w : w = [v EXCEPT !.pc = "replied", !.resp = a]
  OBVIOUS
<1>6. thread' = [thread EXCEPT ![t] = w]
  <2>1. thread' = [thread EXCEPT ![t].pc = "replied", ![t].resp = a]
    BY <1>1, <1>3, <1>4 DEF ServerReplies
  <2> QED
    BY <1>1, <1>5, <2>1 DEF SyncInv, ThreadInv
<1>7. w.pc = "replied" /\ w.batch = v.batch /\ w.req = r /\ w.resp = a
  BY <1>1, <1>3, <1>5 DEF ThreadStates
<1>8. w \in ThreadStates
  <2>1. w = thread'[t]
    BY <1>6 DEF SyncInv, ThreadInv
  <2> QED
    BY <2>1, ServerRepliesSafe DEF SyncInv, ThreadInv
<1>9. a \in Responses
  BY <1>7, <1>8 DEF ThreadStates
<1> QED
  BY <1>1, <1>2, <1>3, <1>4, <1>6, <1>7, <1>8, <1>9

(* The answer is applied to the mutation that was sent.                    *)
LEMMA AnswerApplied ==
    ASSUME SyncInv, NEW t \in Threads, ApplyReply(t)
    PROVE  \E r \in Requests, w \in ThreadStates, a \in Responses :
           \E i \in DOMAIN outbox[r.key] :
              /\ r = thread[t].req /\ a = thread[t].resp /\ RequestOK(r)
              /\ thread[t].pc = "replied"
              /\ Outcome(r, a, i)
              /\ outbox[r.key][i].id = r.id
              /\ outbox[r.key][i].state = "in_flight"
              /\ a.status # "none"
              /\ a.status \in Definitive => a = receipt[r.id]
              /\ thread' = [thread EXCEPT ![t] = w]
              /\ w.pc \in {"pull", "push", "release"}
              /\ w.batch = thread[t].batch
              /\ UNCHANGED <<serverVars, late>>
<1>1. PICK v \in ThreadStates : v = thread[t] /\ ThreadOK(v)
  BY DEF SyncInv, ThreadInv
<1>2. v.pc = "replied" /\ Sending(t)
  BY <1>1 DEF ApplyReply, Sending
<1>3. PICK r \in Requests : /\ r = v.req /\ RequestOK(r)
                            /\ \E i \in DOMAIN outbox[r.key] :
                                  /\ i = IndexOf(r.key, r.id)
                                  /\ outbox[r.key][i].id = r.id
                                  /\ outbox[r.key][i].state = "in_flight"
  BY <1>1, <1>2, RequestEntry
<1>4. PICK i \in DOMAIN outbox[r.key] :
         /\ i = IndexOf(r.key, r.id)
         /\ outbox[r.key][i].id = r.id
         /\ outbox[r.key][i].state = "in_flight"
  BY <1>3
<1>5. PICK a \in Responses : a = v.resp
  BY DEF ThreadStates
<1>6. /\ Outcome(r, a, i) /\ UNCHANGED <<serverVars, late>>
      /\ thread' = [thread EXCEPT ![t] =
                      IF a.status \in Definitive THEN AfterPush(v.batch)
                                                 ELSE AfterFailure(v.batch)]
  BY <1>1, <1>3, <1>4, <1>5 DEF ApplyReply, Outcome
<1>7. a.status # "none" /\ (a.status \in Definitive => a = receipt[r.id])
  BY <1>1, <1>2, <1>3, <1>5 DEF ThreadOK
<1>8. PICK B \in SUBSET (RowIds \X Ids) : B = v.batch
  BY DEF ThreadStates
<1>9. PICK w \in {AfterPush(B), AfterFailure(B)} :
         thread' = [thread EXCEPT ![t] = w]
  BY <1>6, <1>8
<1>10. /\ w \in ThreadStates /\ w.batch = B
       /\ w.pc \in {"pull", "push", "release"}
  BY <1>9, AfterState
<1>11. /\ r = thread[t].req /\ a = thread[t].resp /\ RequestOK(r)
       /\ thread[t].pc = "replied" /\ w.batch = thread[t].batch
  BY <1>1, <1>2, <1>3, <1>5, <1>8, <1>10
<1> QED
  BY <1>4, <1>6, <1>7, <1>9, <1>10, <1>11

(* The page is applied and the cycle goes on or ends.                      *)
LEMMA PageApplied ==
    ASSUME SyncInv, NEW t \in Threads, ApplyPage(t)
    PROVE  \E p \in Pages, c \in Changes, w \in ThreadStates :
              /\ p = thread[t].page /\ c = p.change /\ thread[t].pc = "page"
              /\ c.op # "none" => c.rid \in ServerIds
              /\ c.op = "upsert" =>
                   c.pkg \in Hashes /\ ApplyUpsert(c.rid, c.rev, c.pkg, p.next)
              /\ c.op = "delete" => ApplyTombstone(c.rid, c.rev, p.next)
              /\ c.op = "none" => ApplyEmptyPage(p.next)
              /\ thread' = [thread EXCEPT ![t] = w]
              /\ w.pc \in {"pull", "idle"} /\ w.batch = {}
              /\ UNCHANGED <<serverVars, late>>
<1>1. PICK v \in ThreadStates : v = thread[t] /\ ThreadOK(v)
  BY DEF SyncInv, ThreadInv
<1>2. v.pc = "page"
  BY <1>1 DEF ApplyPage
<1>3. PICK p \in Pages : p = v.page
  BY <1>1, <1>2 DEF ThreadOK
<1>4. PICK c \in Changes : c = p.change
  BY DEF Pages
<1>5. /\ c.op # "none" => c.rid \in ServerIds
      /\ c.op = "upsert" => c.pkg \in Hashes
      /\ c.op \in {"none", "upsert", "delete"}
  BY <1>1, <1>2, <1>3, <1>4 DEF ThreadOK, Changes
<1>6. /\ CASE c.op = "upsert" -> ApplyUpsert(c.rid, c.rev, c.pkg, p.next)
           [] c.op = "delete" -> ApplyTombstone(c.rid, c.rev, p.next)
           [] c.op = "none" -> ApplyEmptyPage(p.next)
      /\ thread' = [thread EXCEPT ![t] = IF p.more THEN At("pull", {}) ELSE Idle]
      /\ UNCHANGED <<serverVars, late>>
  BY <1>1, <1>3, <1>4 DEF ApplyPage
<1>7. PICK w \in {At("pull", {}), Idle} : thread' = [thread EXCEPT ![t] = w]
  BY <1>6
<1>8. w \in ThreadStates /\ w.pc \in {"pull", "idle"} /\ w.batch = {}
  <2>1. "pull" \in PCs /\ {} \in SUBSET (RowIds \X Ids)
    BY DEF PCs
  <2> QED
    BY <1>7, <2>1, AtState
<1>9. /\ c.op = "upsert" => ApplyUpsert(c.rid, c.rev, c.pkg, p.next)
      /\ c.op = "delete" => ApplyTombstone(c.rid, c.rev, p.next)
      /\ c.op = "none" => ApplyEmptyPage(p.next)
  BY <1>6
<1> QED
  BY <1>1, <1>2, <1>3, <1>4, <1>5, <1>6, <1>7, <1>8, <1>9

(* What remains: the thread gives up, or goes on to the pull, and keeps at *)
(* most what it held.                                                      *)
LEMMA ThreadTurns ==
    ASSUME SyncInv, NEW t \in Threads,
           \/ UploadFails(t) \/ SessionRefused(t) \/ AckRollsBack(t)
           \/ ReleaseTail(t) \/ PullFails(t)
    PROVE  /\ UNCHANGED <<row, cursor, nextId, serverVars, late>>
           /\ \E w \in ThreadStates :
                /\ thread' = [thread EXCEPT ![t] = w]
                /\ w.pc \in {"idle", "pull", "push", "release"}
                /\ w.batch \subseteq thread[t].batch
           /\ \/ outbox' = outbox
              \/ \E p \in thread[t].batch :
                    ApplyTransportError(p[1], IndexOf(p[1], p[2]))
              \/ ReleaseInFlight({p[2] : p \in thread[t].batch})
<1>1. PICK v \in ThreadStates : v = thread[t] /\ ThreadOK(v)
  BY DEF SyncInv, ThreadInv
<1>2. ASSUME NEW B \in SUBSET v.batch,
             NEW w \in {AfterPush(B), AfterFailure(B), At("pull", {}), Idle},
             thread' = [thread EXCEPT ![t] = w]
      PROVE  \E x \in ThreadStates :
                /\ thread' = [thread EXCEPT ![t] = x]
                /\ x.pc \in {"idle", "pull", "push", "release"}
                /\ x.batch \subseteq thread[t].batch
  <2>1. B \in SUBSET (RowIds \X Ids)
    BY DEF ThreadStates
  <2>2. "pull" \in PCs /\ {} \in SUBSET (RowIds \X Ids)
    BY DEF PCs
  <2>3. /\ w \in ThreadStates /\ w.batch \subseteq B
        /\ w.pc \in {"idle", "pull", "push", "release"}
    <3>1. CASE w \in {AfterPush(B), AfterFailure(B)}
      BY <2>1, <3>1, AfterState
    <3>2. CASE w = At("pull", {}) \/ w = Idle
      BY <2>2, <3>2, AtState
    <3> QED
      BY <3>1, <3>2
  <2> QED
    BY <1>1, <1>2, <2>3
<1>3. {} \in SUBSET v.batch /\ v.batch \in SUBSET v.batch
  OBVIOUS
<1>4. CASE UploadFails(t)
  <2>1. PICK p \in v.batch :
           /\ ApplyTransportError(p[1], IndexOf(p[1], p[2]))
           /\ thread' = [thread EXCEPT ![t] = AfterFailure(v.batch \ {p})]
    BY <1>1, <1>4 DEF UploadFails
  <2>2. PICK B \in SUBSET v.batch : B = v.batch \ {p}
    OBVIOUS
  <2>3. UNCHANGED <<row, cursor, nextId, serverVars, late>>
    BY <1>4, <2>1 DEF UploadFails, ApplyTransportError
  <2> QED
    BY <1>1, <1>2, <2>1, <2>2, <2>3
<1>5. CASE SessionRefused(t) \/ AckRollsBack(t) \/ PullFails(t)
  <2>1. UNCHANGED <<row, outbox, cursor, nextId, serverVars, late>>
    BY <1>5 DEF SessionRefused, AckRollsBack, PullFails, storeVars
  <2>2. PICK w \in {AfterFailure(v.batch), Idle} :
           thread' = [thread EXCEPT ![t] = w]
    BY <1>1, <1>5 DEF SessionRefused, AckRollsBack, PullFails
  <2> QED
    BY <1>2, <1>3, <2>1, <2>2
<1>6. CASE ReleaseTail(t)
  <2>1. /\ ReleaseInFlight({p[2] : p \in thread[t].batch})
        /\ thread' = [thread EXCEPT ![t] = At("pull", {})]
        /\ UNCHANGED <<row, cursor, nextId, serverVars, late>>
    BY <1>6 DEF ReleaseTail, ReleaseInFlight
  <2> QED
    BY <1>2, <1>3, <2>1
<1> QED
  BY <1>4, <1>5, <1>6

(* What an outcome does to the mutation and to its row.                    *)
Settles(k, i, a) ==
    \/ /\ a.status = "acked" /\ outbox'[k][i].state = "acked"
       /\ row'[k].remoteId = a.rid /\ row'[k].rev = a.rev
       /\ row'[k].cur = row[k].cur /\ ~RemoteIdTaken(k, a.rid)
       /\ \/ row'[k].state = row[k].state
          \/ row'[k].state = "synced" /\ Unacked(k) \subseteq {i}
    \/ /\ a.status = "conflict" /\ outbox'[k][i].state = "conflict"
       /\ row'[k].remoteId = row[k].remoteId /\ row'[k].cur = row[k].cur
       /\ row'[k].rev = IF a.head = 0 THEN row[k].rev ELSE a.head
       /\ row'[k].state = "conflict"
    \/ /\ a.status \notin {"acked", "conflict"}
       /\ outbox'[k][i].state \in {"permission_denied", "permanent_error"}
       /\ row'[k].remoteId = row[k].remoteId /\ row'[k].rev = row[k].rev
       /\ row'[k].cur = row[k].cur
    \/ /\ a.status = "http_server_error" /\ outbox'[k][i].state = "retry_later"
       /\ row'[k] = row[k]

LEMMA OutcomeSettles ==
    ASSUME SyncInv, NEW r \in Requests, NEW i \in DOMAIN outbox[r.key],
           NEW a \in Responses, a.status # "none", Outcome(r, a, i)
    PROVE  LET k == r.key IN
           /\ k \in RowIds /\ cursor' = cursor
           /\ \A l \in RowIds \ {k} : row'[l] = row[l] /\ outbox'[l] = outbox[l]
           /\ DOMAIN outbox'[k] = DOMAIN outbox[k]
           /\ \A j \in DOMAIN outbox[k] \ {i} : outbox'[k][j] = outbox[k][j]
           /\ SameMutation(outbox[k][i], outbox'[k][i])
           /\ outbox[k][i].state # "acked"
           /\ Settles(k, i, a)
<1>1. PICK k \in RowIds : k = r.key
  BY DEF Requests
<1>2. /\ row \in [RowIds -> Rows] /\ row[k] \in Rows /\ StoreInv
      /\ outbox \in [RowIds -> Seq(Mutations)] /\ outbox[k] \in Seq(Mutations)
      /\ i \in DOMAIN outbox[k] /\ outbox[k][i] \in Mutations
  BY <1>1 DEF SyncInv, StoreInv, StoreTypeOK
<1>3. ASSUME NEW m, outbox' = [outbox EXCEPT ![k][i] = m],
             m.id = outbox[k][i].id, m.op = outbox[k][i].op,
             m.base = outbox[k][i].base, m.payload = outbox[k][i].payload,
             m.state # "pending"
      PROVE  /\ \A l \in RowIds \ {k} : outbox'[l] = outbox[l]
             /\ DOMAIN outbox'[k] = DOMAIN outbox[k]
             /\ \A j \in DOMAIN outbox[k] \ {i} : outbox'[k][j] = outbox[k][j]
             /\ SameMutation(outbox[k][i], outbox'[k][i])
             /\ outbox'[k][i] = m
  BY <1>2, <1>3, OutcomeEntries DEF SameMutation
<1>4. ASSUME NEW st \in MutStates \ {"pending"},
             outbox' = [outbox EXCEPT ![k][i].state = st]
      PROVE  /\ \A l \in RowIds \ {k} : outbox'[l] = outbox[l]
             /\ DOMAIN outbox'[k] = DOMAIN outbox[k]
             /\ \A j \in DOMAIN outbox[k] \ {i} : outbox'[k][j] = outbox[k][j]
             /\ SameMutation(outbox[k][i], outbox'[k][i])
             /\ outbox'[k][i].state = st
  <2>1. PICK m : m = [outbox[k][i] EXCEPT !.state = st]
    OBVIOUS
  <2>2. /\ m.id = outbox[k][i].id /\ m.op = outbox[k][i].op
        /\ m.base = outbox[k][i].base /\ m.payload = outbox[k][i].payload
        /\ m.state = st
    BY <1>2, <2>1 DEF Mutations
  <2>3. outbox' = [outbox EXCEPT ![k][i] = m]
    BY <1>2, <1>4, <2>1
  <2> QED
    BY <1>3, <2>2, <2>3
<1>5. CASE a.status = "acked"
  <2>1. ApplyAcked(k, i, a.rid, a.rev)
    BY <1>1, <1>5 DEF Outcome
  <2>2. PICK m : m = [outbox[k][i] EXCEPT !.state = "acked", !.ack = a.rev]
    OBVIOUS
  <2>3. /\ m.id = outbox[k][i].id /\ m.op = outbox[k][i].op
        /\ m.base = outbox[k][i].base /\ m.payload = outbox[k][i].payload
        /\ m.state = "acked"
    BY <1>2, <2>2 DEF Mutations
  <2>4. outbox' = [outbox EXCEPT ![k][i] = m]
    BY <1>2, <2>1, <2>2 DEF ApplyAcked
  <2>5. PICK x : row' = [row EXCEPT ![k] = x] /\ x.remoteId = a.rid
                 /\ x.rev = a.rev /\ x.cur = row[k].cur
                 /\ \/ x.state = row[k].state
                    \/ x.state = "synced" /\ Unacked(k) \subseteq {i}
    <3>1. PICK st : st = IF /\ row[k].state \in {"dirty", "sync_error", "conflict"}
                            /\ AllAckedBut(k, i)
                         THEN "synced" ELSE row[k].state
      OBVIOUS
    <3>2. PICK x : x = [row[k] EXCEPT !.remoteId = a.rid, !.rev = a.rev,
                                      !.rem = None, !.state = st]
      OBVIOUS
    <3>3. row' = [row EXCEPT ![k] = x]
      BY <1>2, <2>1, <3>1, <3>2 DEF ApplyAcked
    <3>4. x.remoteId = a.rid /\ x.rev = a.rev /\ x.cur = row[k].cur /\ x.state = st
      BY <1>2, <3>2 DEF Rows
    <3> QED
      BY <3>1, <3>3, <3>4 DEF AllAckedBut
  <2>6. row'[k] = x /\ \A l \in RowIds \ {k} : row'[l] = row[l]
    BY <1>2, <2>5
  <2>7. cursor' = cursor /\ outbox[k][i].state # "acked" /\ ~RemoteIdTaken(k, a.rid)
    BY <2>1 DEF ApplyAcked
  <2>8. outbox'[k][i].state = "acked"
    BY <1>3, <2>3, <2>4
  <2>9. Settles(k, i, a)
    BY <1>5, <2>5, <2>6, <2>7, <2>8 DEF Settles
  <2>10. /\ \A l \in RowIds \ {k} : outbox'[l] = outbox[l]
         /\ DOMAIN outbox'[k] = DOMAIN outbox[k]
         /\ \A j \in DOMAIN outbox[k] \ {i} : outbox'[k][j] = outbox[k][j]
         /\ SameMutation(outbox[k][i], outbox'[k][i])
    BY <1>3, <2>3, <2>4
  <2> QED
    BY <1>1, <2>6, <2>7, <2>9, <2>10
<1>6. ASSUME NEW st \in {"conflict", "permission_denied", "permanent_error"},
             NEW rowState, NEW head, NEW hash,
             DefinitiveError(k, i, st, rowState, head, hash)
      PROVE  /\ cursor' = cursor /\ outbox[k][i].state # "acked"
             /\ \A l \in RowIds \ {k} : row'[l] = row[l] /\ outbox'[l] = outbox[l]
             /\ DOMAIN outbox'[k] = DOMAIN outbox[k]
             /\ \A j \in DOMAIN outbox[k] \ {i} : outbox'[k][j] = outbox[k][j]
             /\ SameMutation(outbox[k][i], outbox'[k][i])
             /\ outbox'[k][i].state = st
             /\ row'[k].remoteId = row[k].remoteId /\ row'[k].cur = row[k].cur
             /\ row'[k].rev = IF head = 0 THEN row[k].rev ELSE head
             /\ row'[k].state = rowState
  <2>1. /\ outbox' = [outbox EXCEPT ![k][i].state = st] /\ cursor' = cursor
        /\ outbox[k][i].state # "acked"
    BY <1>6 DEF DefinitiveError
  <2>2. st \in MutStates \ {"pending"}
    BY DEF MutStates
  <2>3. PICK x : /\ row' = [row EXCEPT ![k] = x]
                 /\ x.remoteId = row[k].remoteId /\ x.cur = row[k].cur
                 /\ x.rev = IF head = 0 THEN row[k].rev ELSE head
                 /\ x.state = rowState
    <3>1. PICK rem, rev : /\ rev = IF head = 0 THEN row[k].rev ELSE head
                          /\ rem = IF rowState = "conflict" /\ hash # None
                                   THEN hash ELSE row[k].rem
      OBVIOUS
    <3>2. PICK x : x = [row[k] EXCEPT !.rev = rev, !.rem = rem, !.state = rowState]
      OBVIOUS
    <3>3. row' = [row EXCEPT ![k] = x]
      BY <1>2, <1>6, <3>1, <3>2 DEF DefinitiveError
    <3>4. /\ x.remoteId = row[k].remoteId /\ x.cur = row[k].cur
          /\ x.rev = rev /\ x.state = rowState
      BY <1>2, <3>2 DEF Rows
    <3> QED
      BY <3>1, <3>3, <3>4
  <2>4. row'[k] = x /\ \A l \in RowIds \ {k} : row'[l] = row[l]
    BY <1>2, <2>3
  <2> QED
    BY <1>4, <2>1, <2>2, <2>3, <2>4
<1>7. CASE a.status = "conflict"
  <2>1. DefinitiveError(k, i, "conflict", "conflict", a.head, a.pkg)
    BY <1>1, <1>7 DEF Outcome, ApplyConflict
  <2>2. Settles(k, i, a)
    BY <1>6, <1>7, <2>1 DEF Settles
  <2> QED
    BY <1>1, <1>6, <2>1, <2>2
<1>8. CASE a.status \in {"permission_denied", "validation_error", "http_request_error"}
  <2>1. PICK st, rowState :
           /\ st \in {"permission_denied", "permanent_error"}
           /\ DefinitiveError(k, i, st, rowState, 0, None)
    <3>1. ApplyPermissionDenied(k, i) \/ ApplyValidationError(k, i)
      BY <1>1, <1>8 DEF Outcome
    <3> QED
      BY <3>1 DEF ApplyPermissionDenied, ApplyValidationError
  <2>2. Settles(k, i, a)
    BY <1>6, <1>8, <2>1 DEF Settles
  <2> QED
    BY <1>1, <1>6, <2>1, <2>2
<1>9. CASE a.status = "http_server_error"
  <2>1. ApplyTransportError(k, i)
    BY <1>1, <1>9 DEF Outcome
  <2>2. /\ outbox[k][i].state # "acked" /\ UNCHANGED <<row, cursor>>
        /\ outbox' = [outbox EXCEPT ![k][i].state = "retry_later"]
    BY <2>1 DEF ApplyTransportError
  <2>3. "retry_later" \in MutStates \ {"pending"}
    BY DEF MutStates
  <2>4. Settles(k, i, a)
    BY <1>4, <1>9, <2>2, <2>3 DEF Settles
  <2> QED
    BY <1>1, <1>4, <2>2, <2>3, <2>4
<1> QED
  BY <1>5, <1>7, <1>8, <1>9 DEF Responses, Statuses, Definitive

(* A thread that sends nothing keeps what it holds fresh.                  *)
LEMMA FreshRest ==
    ASSUME SyncInv, Undisturbed, FreshInv, FreshEntries', UNCHANGED receipt,
           late' = late, NEW t \in Threads, NEW w,
           thread' = [thread EXCEPT ![t] = w],
           w.pc \notin {"sent", "replied"}, w.batch \subseteq thread[t].batch
    PROVE  FreshInv'
<1>1. \A u \in Threads : thread'[u] = w
  BY OneThreadMoves DEF SyncInv
<1>2. FreshThread(w)'
  BY DEF FreshInv, FreshThread
<1> QED
  BY <1>1, <1>2 DEF FreshInv, FreshThread

(* Nothing that the server has answered is sent again, when no answer is   *)
(* lost: the receipts of claim_dispatchable's candidates are empty.        *)
LEMMA FreshStep ==
    ASSUME SyncInv, Undisturbed, FreshInv, [SyncNext]_syncVars
    PROVE  FreshInv'
<1>0. /\ StoreInv /\ UniqueIds /\ ReceiptInv /\ FreshEntries /\ late = {}
      /\ outbox \in [RowIds -> Seq(Mutations)]
  BY DEF SyncInv, FreshInv, StoreInv, StoreTypeOK
<1>1. CASE UNCHANGED <<outbox, receipt, thread, late>>
  BY <1>1 DEF FreshInv, FreshEntries, FreshThread
<1>2. CASE Browser
  BY <1>1, <1>2 DEF Browser, storeVars, RestNext, RestCreate, RestUpdate, RestDelete,
     RestRestore, RestPurge, RestTouch, Rest
<1>3. CASE UNCHANGED syncVars
  BY <1>1, <1>3 DEF syncVars, storeVars, serverVars
<1>4. ~LateDelivery /\ ~Restart /\ \A t \in Threads : ~Timeout(t)
  BY <1>0 DEF LateDelivery, Restart, Timeout, Fail, Undisturbed
<1>5. CASE UserCommand
  <2>1. /\ UNCHANGED <<serverVars, thread, late>>
        /\ \A l \in RowIds : \A j \in DOMAIN outbox'[l] :
              \/ Restated(l, j)
              \/ outbox'[l][j].id = nextId /\ nextId <= MaxMutations
    BY <1>5, CommandEntries
  <2>2. receipt' = receipt
    BY <2>1 DEF serverVars
  <2>3. nextId <= MaxMutations => receipt[nextId] = NoReceipt
    <3>1. nextId \in Nat /\ 1 <= nextId /\ MaxMutations \in Nat
      BY <1>0, TypesAssumption DEF UniqueIds, StoreInv, StoreTypeOK
    <3>2. nextId <= MaxMutations => nextId \in Ids /\ ~(nextId < nextId)
      BY <3>1 DEF Ids
    <3> QED
      BY <1>0, <3>2 DEF ReceiptInv
  <2>4. ASSUME NEW l \in RowIds, NEW j \in DOMAIN outbox'[l],
               outbox'[l][j].state \in Unsent
        PROVE  receipt[outbox'[l][j].id] = NoReceipt
    <3>1. CASE Restated(l, j)
      <4>1. /\ j \in DOMAIN outbox[l] /\ outbox'[l][j].id = outbox[l][j].id
            /\ outbox[l][j].state \in Unsent
        BY <2>4, <3>1 DEF Restated, SameMutation, Unsent
      <4> QED
        BY <1>0, <4>1 DEF FreshEntries
    <3> QED
      BY <2>1, <2>3, <2>4, <3>1
  <2>5. FreshEntries'
    BY <2>2, <2>4 DEF FreshEntries
  <2> QED
    BY <2>1, <2>2, <2>5 DEF FreshInv, FreshThread
<1>6. ASSUME NEW k \in RowIds, NEW i \in DOMAIN outbox[k], UNCHANGED receipt,
             ApplyTransportError(k, i) \/ BackoffElapses(k, i),
             receipt[outbox[k][i].id] = NoReceipt
      PROVE  FreshEntries'
  <2>1. /\ \A l \in RowIds \ {k} : outbox'[l] = outbox[l]
        /\ DOMAIN outbox'[k] = DOMAIN outbox[k]
        /\ outbox'[k][i].id = outbox[k][i].id
        /\ \A j \in DOMAIN outbox[k] \ {i} : outbox'[k][j] = outbox[k][j]
    BY <1>0, <1>6, RetryEntries DEF SameMutation
  <2>2. ASSUME NEW l \in RowIds, NEW j \in DOMAIN outbox'[l],
               outbox'[l][j].state \in Unsent
        PROVE  receipt'[outbox'[l][j].id] = NoReceipt
    <3>1. CASE l = k /\ j = i
      BY <1>6, <2>1, <3>1
    <3>2. CASE ~(l = k /\ j = i)
      <4>1. j \in DOMAIN outbox[l] /\ outbox'[l][j] = outbox[l][j]
        BY <2>1, <2>2, <3>2
      <4> QED
        BY <1>0, <1>6, <2>2, <4>1 DEF FreshEntries
    <3> QED
      BY <3>1, <3>2
  <2> QED
    BY <2>2 DEF FreshEntries
<1>7. CASE Backoff
  <2>1. PICK k \in RowIds : \E i \in DOMAIN outbox[k] : BackoffElapses(k, i)
    BY <1>7 DEF Backoff
  <2>2. PICK i \in DOMAIN outbox[k] : BackoffElapses(k, i)
    BY <2>1
  <2>3. UNCHANGED <<receipt, thread, late>>
    BY <1>7 DEF Backoff, serverVars
  <2>4. outbox[k][i].state \in Unsent
    BY <2>2 DEF BackoffElapses, Unsent
  <2>5. FreshEntries'
    BY <1>0, <1>6, <2>2, <2>3, <2>4 DEF FreshEntries
  <2> QED
    BY <2>3, <2>5 DEF FreshInv, FreshThread
<1>8. ASSUME NEW t \in Threads, StartCycle(t)
      PROVE  FreshInv'
  <2>1. UNCHANGED <<receipt, late>>
    BY <1>8, CycleStarts DEF serverVars
  <2>2. PICK Q \in SUBSET (RowIds \X Ids), w \in ThreadStates :
           /\ thread' = [thread EXCEPT ![t] = w]
           /\ w.batch = Q /\ w.pc \in {"pull", "push"}
           /\ \A q \in Q : \E k \in RowIds : \E i \in DOMAIN outbox[k] :
                 /\ q = <<k, outbox[k][i].id>>
                 /\ outbox[k][i].state \in {"pending", "retryable_error"}
    BY <1>8, CycleStarts
  <2>3. PICK batch \in SUBSET Dispatchable : outbox' = Moved(batch, "in_flight")
    BY <1>8, CycleStarts
  <2>4. ASSUME NEW l \in RowIds, NEW j \in DOMAIN outbox'[l],
               outbox'[l][j].state \in Unsent
        PROVE  receipt'[outbox'[l][j].id] = NoReceipt
    <3>1. j \in DOMAIN outbox[l]
      BY <1>0, <2>3, MovedEntries
    <3>2. <<l, j>> \notin batch
      <4> SUFFICES ASSUME <<l, j>> \in batch
                   PROVE  FALSE
        OBVIOUS
      <4>1. outbox'[l][j].state = "in_flight"
        BY <1>0, <2>3, <3>1, MovedEntries
      <4> QED
        BY <2>4, <4>1 DEF Unsent
    <3>3. outbox'[l][j] = outbox[l][j]
      BY <1>0, <2>3, <3>1, <3>2, MovedEntries
    <3> QED
      BY <1>0, <2>1, <2>4, <3>1, <3>3 DEF FreshEntries
  <2>5. \A q \in Q : receipt[q[2]] = NoReceipt
    <3> SUFFICES ASSUME NEW q \in Q
                 PROVE  receipt[q[2]] = NoReceipt
      OBVIOUS
    <3>1. PICK k \in RowIds : \E i \in DOMAIN outbox[k] :
             /\ q = <<k, outbox[k][i].id>>
             /\ outbox[k][i].state \in {"pending", "retryable_error"}
      BY <2>2
    <3>2. PICK i \in DOMAIN outbox[k] :
             /\ q = <<k, outbox[k][i].id>>
             /\ outbox[k][i].state \in {"pending", "retryable_error"}
      BY <3>1
    <3>3. q[2] = outbox[k][i].id /\ outbox[k][i].state \in Unsent
      BY <3>2 DEF Unsent
    <3> QED
      BY <1>0, <3>3 DEF FreshEntries
  <2>6. FreshThread(w)'
    BY <2>1, <2>2, <2>5 DEF FreshThread
  <2>7. \A u \in Threads : thread'[u] = w
    BY <2>2, OneThreadMoves DEF SyncInv
  <2> QED
    BY <1>0, <2>1, <2>4, <2>6, <2>7 DEF FreshInv, FreshEntries, FreshThread
<1>9. ASSUME NEW t \in Threads, Submit(t)
      PROVE  FreshInv'
  <2>1. UNCHANGED <<outbox, receipt, late>>
    BY <1>9 DEF Submit, storeVars, serverVars
  <2>2. PICK w \in ThreadStates : \E k \in RowIds : \E i \in DOMAIN outbox[k] :
           /\ thread' = [thread EXCEPT ![t] = w]
           /\ w.pc = "sent" /\ w.batch \subseteq thread[t].batch
           /\ w.req.id = outbox[k][i].id
           /\ <<k, outbox[k][i].id>> \in thread[t].batch
    BY <1>9, SubmitSends
  <2>3. PICK p \in thread[t].batch : p[2] = w.req.id
    BY <2>2
  <2>4. FreshThread(w)'
    BY <2>1, <2>2, <2>3 DEF FreshInv, FreshThread
  <2>5. \A u \in Threads : thread'[u] = w
    BY <2>2, OneThreadMoves DEF SyncInv
  <2> QED
    BY <1>0, <2>1, <2>4, <2>5 DEF FreshInv, FreshEntries, FreshThread
<1>10. ASSUME NEW t \in Threads, ServerReplies(t)
       PROVE  FreshInv'
  <2>1. PICK r \in Requests, w \in ThreadStates : \E a \in Responses :
           /\ r = thread[t].req /\ RequestOK(r) /\ Serve(r)
           /\ thread[t].pc = "sent" /\ a = ReplyTo(r)
           /\ thread' = [thread EXCEPT ![t] = w]
           /\ w.pc = "replied" /\ w.batch = thread[t].batch
           /\ w.req = r /\ w.resp = a
           /\ UNCHANGED <<row, outbox, cursor, nextId, late>>
    BY <1>10, AnswerComes
  <2>2. /\ receipt' = receipt
             \/ (WellFormed(r) /\ receipt'[r.id] # NoReceipt)
        /\ \A m \in Ids \ {r.id} : receipt'[m] = receipt[m]
        /\ receipt[r.id] = NoReceipt
        /\ ReceiptInv' /\ r.id \in Ids
    BY <2>1, ServeParts DEF FreshInv, FreshThread, Requests
  <2>3. PICK v \in ThreadStates : v = thread[t] /\ ThreadOK(v)
    BY DEF SyncInv, ThreadInv
  <2>4. ASSUME NEW m \in Ids, m # r.id, receipt[m] = NoReceipt
        PROVE  receipt'[m] = NoReceipt
    BY <2>2, <2>4
  <2>5. PICK i \in DOMAIN outbox[r.key] :
           outbox[r.key][i].id = r.id /\ outbox[r.key][i].state = "in_flight"
    <3>1. Sending(t)
      BY <2>1 DEF Sending
    <3> QED
      BY <2>1, <3>1, RequestEntry
  <2>6. ASSUME NEW l \in RowIds, NEW j \in DOMAIN outbox[l],
               outbox[l][j].state \in Unsent
        PROVE  receipt'[outbox[l][j].id] = NoReceipt
    <3>1. r.key \in RowIds
      BY DEF Requests
    <3>2. outbox[l][j].id # r.id
      <4> SUFFICES ASSUME outbox[l][j].id = r.id
                   PROVE  FALSE
        OBVIOUS
      <4>1. l = r.key /\ j = i
        BY <1>0, <2>5, <3>1, SameId
      <4> QED
        BY <2>5, <2>6, <4>1 DEF Unsent
    <3>3. outbox[l][j].id \in Ids /\ receipt[outbox[l][j].id] = NoReceipt
      BY <1>0, <2>6 DEF FreshEntries, UniqueIds
    <3> QED
      BY <2>4, <3>2, <3>3
  <2>7. \A p \in w.batch : receipt'[p[2]] = NoReceipt
    <3> SUFFICES ASSUME NEW p \in v.batch
                 PROVE  receipt'[p[2]] = NoReceipt
      BY <2>1, <2>3
    <3>1. p[2] \in Ids
      BY DEF ThreadStates
    <3>2. p[2] # r.id
      BY <2>1, <2>3 DEF ThreadOK
    <3>3. receipt[p[2]] = NoReceipt
      BY <2>3 DEF FreshInv, FreshThread
    <3> QED
      BY <2>4, <3>1, <3>2, <3>3
  <2>8. w.resp.status \notin Definitive => receipt'[r.id] = NoReceipt
    <3>1. CASE ~WellFormed(r)
      BY <2>2, <3>1
    <3>2. CASE WellFormed(r) /\ receipt'[r.id] # NoReceipt
      <4>1. w.resp = receipt'[r.id]
        BY <2>1, <3>2 DEF ReplyTo
      <4>2. receipt'[r.id].status \in Definitive
        BY <2>2, <3>2 DEF ReceiptInv
      <4> QED
        BY <4>1, <4>2
    <3> QED
      BY <3>1, <3>2
  <2>9. FreshThread(w)'
    BY <2>1, <2>7, <2>8 DEF FreshThread
  <2>10. \A u \in Threads : thread'[u] = w
    <3>1. ThreadInv /\ thread' = [thread EXCEPT ![t] = w]
      BY <2>1 DEF SyncInv
    <3> QED
      BY <3>1, OneThreadMoves
  <2>11. \A u \in Threads : FreshThread(thread[u])'
    BY <2>9, <2>10 DEF FreshThread
  <2>12. late' = {}
    BY <1>0, <2>1
  <2>13. FreshEntries'
    BY <2>1, <2>6 DEF FreshEntries
  <2> QED
    BY <2>11, <2>12, <2>13 DEF FreshInv
<1>11. ASSUME NEW t \in Threads, ApplyReply(t)
       PROVE  FreshInv'
  <2>1. PICK r \in Requests, w \in ThreadStates, a \in Responses :
        \E i \in DOMAIN outbox[r.key] :
           /\ r = thread[t].req /\ a = thread[t].resp
           /\ thread[t].pc = "replied"
           /\ Outcome(r, a, i)
           /\ outbox[r.key][i].id = r.id
           /\ a.status # "none"
           /\ thread' = [thread EXCEPT ![t] = w]
           /\ w.pc \in {"pull", "push", "release"}
           /\ w.batch = thread[t].batch
           /\ UNCHANGED <<serverVars, late>>
    BY <1>11, AnswerApplied
  <2>2. PICK i \in DOMAIN outbox[r.key] :
           Outcome(r, a, i) /\ outbox[r.key][i].id = r.id
    BY <2>1
  <2>3. PICK k \in RowIds : k = r.key
    BY DEF Requests
  <2>4. /\ \A l \in RowIds \ {k} : outbox'[l] = outbox[l]
        /\ DOMAIN outbox'[k] = DOMAIN outbox[k]
        /\ \A j \in DOMAIN outbox[k] \ {i} : outbox'[k][j] = outbox[k][j]
        /\ outbox'[k][i].id = outbox[k][i].id
        /\ outbox'[k][i].state \in Unsent => a.status = "http_server_error"
    <3>0. a.status # "none" /\ Outcome(r, a, i)
      BY <2>1, <2>2
    <3>1. /\ \A l \in RowIds \ {k} : outbox'[l] = outbox[l]
          /\ DOMAIN outbox'[k] = DOMAIN outbox[k]
          /\ \A j \in DOMAIN outbox[k] \ {i} : outbox'[k][j] = outbox[k][j]
          /\ SameMutation(outbox[k][i], outbox'[k][i])
          /\ Settles(k, i, a)
      BY <2>3, <3>0, OutcomeSettles
    <3>2. outbox'[k][i].state \in Unsent => a.status = "http_server_error"
      BY <3>1 DEF Settles, Unsent
    <3> QED
      BY <3>1, <3>2 DEF SameMutation
  <2>5. a.status = "http_server_error" => receipt[r.id] = NoReceipt
    BY <2>1 DEF FreshInv, FreshThread, Definitive
  <2>6. receipt' = receipt
    BY <2>1 DEF serverVars
  <2>7. ASSUME NEW l \in RowIds, NEW j \in DOMAIN outbox'[l],
               outbox'[l][j].state \in Unsent
        PROVE  receipt'[outbox'[l][j].id] = NoReceipt
    <3>1. CASE l = k /\ j = i
      BY <2>2, <2>3, <2>4, <2>5, <2>6, <2>7, <3>1
    <3>2. CASE ~(l = k /\ j = i)
      <4>1. j \in DOMAIN outbox[l] /\ outbox'[l][j] = outbox[l][j]
        BY <2>4, <2>7, <3>2
      <4> QED
        BY <1>0, <2>6, <2>7, <4>1 DEF FreshEntries
    <3> QED
      BY <3>1, <3>2
  <2>8. FreshEntries'
    BY <2>7 DEF FreshEntries
  <2> QED
    BY <2>1, <2>6, <2>8, FreshRest
<1>12. ASSUME NEW t \in Threads,
              \/ UploadFails(t) \/ SessionRefused(t) \/ AckRollsBack(t)
              \/ ReleaseTail(t) \/ PullFails(t)
       PROVE  FreshInv'
  <2>1. /\ UNCHANGED <<receipt, late>>
        /\ \E w \in ThreadStates :
                /\ thread' = [thread EXCEPT ![t] = w]
                /\ w.pc \in {"idle", "pull", "push", "release"}
                /\ w.batch \subseteq thread[t].batch
        /\ \/ outbox' = outbox
           \/ \E p \in thread[t].batch :
                    ApplyTransportError(p[1], IndexOf(p[1], p[2]))
           \/ ReleaseInFlight({p[2] : p \in thread[t].batch})
    BY <1>12, ThreadTurns DEF serverVars
  <2>2. PICK v \in ThreadStates : v = thread[t] /\ ThreadOK(v)
    BY DEF SyncInv, ThreadInv
  <2>3. \A p \in v.batch : receipt[p[2]] = NoReceipt
    BY <2>2 DEF FreshInv, FreshThread
  <2>9. receipt' = receipt
    BY <2>1
  <2>4. ASSUME outbox' = outbox PROVE FreshEntries'
    BY <1>0, <2>9, <2>4 DEF FreshEntries
  <2>5. ASSUME NEW p \in v.batch, ApplyTransportError(p[1], IndexOf(p[1], p[2]))
        PROVE  FreshEntries'
    <3>1. PICK k, i : k = p[1] /\ i = IndexOf(k, p[2])
      OBVIOUS
    <3>2. Claimed(k, p[2])
      BY <2>2, <3>1 DEF ThreadOK
    <3>3. k \in RowIds /\ i \in DOMAIN outbox[k] /\ outbox[k][i].id = p[2]
      BY <1>0, <3>1, <3>2, FoundClaim
    <3>4. ApplyTransportError(k, i)
      BY <2>5, <3>1
    <3> QED
      BY <1>6, <2>1, <2>3, <3>3, <3>4
  <2>6. ASSUME ReleaseInFlight({p[2] : p \in v.batch})
        PROVE  FreshEntries'
    <3>1. PICK tail : tail = {p \in InFlight :
                                 outbox[p[1]][p[2]].id \in {q[2] : q \in v.batch}}
      OBVIOUS
    <3>2. outbox' = Moved(tail, "retryable_error")
      BY <2>6, <3>1 DEF ReleaseInFlight
    <3> SUFFICES ASSUME NEW l \in RowIds, NEW j \in DOMAIN outbox'[l],
                        outbox'[l][j].state \in Unsent
                 PROVE  receipt'[outbox'[l][j].id] = NoReceipt
      BY DEF FreshEntries
    <3>3. receipt'[outbox'[l][j].id] = NoReceipt
      <4>1. j \in DOMAIN outbox[l] /\ outbox'[l][j].id = outbox[l][j].id
        <5>1. DOMAIN outbox'[l] = DOMAIN outbox[l]
          BY <1>0, <3>2, MovedEntries
        <5>2. j \in DOMAIN outbox[l]
          BY <5>1
        <5> QED
          BY <1>0, <3>2, <5>2, MovedEntries
      <4>2. CASE <<l, j>> \in tail
        <5>1. PICK q \in v.batch : outbox[l][j].id = q[2]
          BY <3>1, <4>2
        <5> QED
          BY <2>9, <2>3, <4>1, <5>1
      <4>3. CASE <<l, j>> \notin tail
        <5>1. outbox'[l][j] = outbox[l][j]
          BY <1>0, <3>2, <4>1, <4>3, MovedEntries
        <5> QED
          BY <1>0, <2>9, <4>1, <5>1 DEF FreshEntries
      <4> QED
        BY <4>2, <4>3
    <3> QED
      BY <3>3
  <2>7. FreshEntries'
    <3>1. \/ outbox' = outbox
          \/ \E p \in v.batch :
                    ApplyTransportError(p[1], IndexOf(p[1], p[2]))
          \/ ReleaseInFlight({p[2] : p \in v.batch})
      BY <2>1, <2>2
    <3> QED
      BY <2>4, <2>5, <2>6, <3>1
  <2> QED
    BY <2>1, <2>7, FreshRest
<1>13. ASSUME NEW t \in Threads, FetchPage(t)
       PROVE  FreshInv'
  <2>1. PICK v \in ThreadStates : v = thread[t]
    BY DEF SyncInv, ThreadInv
  <2>2. PICK w : w = [v EXCEPT !.pc = "page", !.page = ListChanges(cursor)]
    OBVIOUS
  <2>3. w.pc = "page" /\ w.batch = v.batch
    BY <2>2 DEF ThreadStates
  <2>4. thread' = [thread EXCEPT ![t] = w]
    <3>1. thread' = [thread EXCEPT ![t].pc = "page", ![t].page = ListChanges(cursor)]
      BY <1>13 DEF FetchPage
    <3> QED
      BY <2>1, <2>2, <3>1 DEF SyncInv, ThreadInv
  <2>5. UNCHANGED <<outbox, receipt, late>>
    BY <1>13 DEF FetchPage, storeVars, serverVars
  <2>6. FreshEntries'
    BY <1>0, <2>5 DEF FreshEntries
  <2> QED
    BY <2>1, <2>3, <2>4, <2>5, <2>6, FreshRest
<1>14. ASSUME NEW t \in Threads, ApplyPage(t)
       PROVE  FreshInv'
  <2>1. PICK p \in Pages, c \in Changes, w \in ThreadStates :
           /\ c.op # "none" => c.rid \in ServerIds
           /\ p = thread[t].page
           /\ c.op = "upsert" =>
                c.pkg \in Hashes /\ ApplyUpsert(c.rid, c.rev, c.pkg, p.next)
           /\ c.op = "delete" => ApplyTombstone(c.rid, c.rev, p.next)
           /\ c.op = "none" => ApplyEmptyPage(p.next)
           /\ thread' = [thread EXCEPT ![t] = w]
           /\ w.pc \in {"pull", "idle"} /\ w.batch = {}
           /\ UNCHANGED <<serverVars, late>>
    BY <1>14, PageApplied
  <2>2. p.next \in Nat /\ c.rev \in Nat /\ c.op \in {"none", "upsert", "delete"}
    BY DEF Pages, Changes
  <2>3. \A l \in RowIds : outbox'[l] = <<>> \/ outbox'[l] = outbox[l]
    <3>1. CASE c.op = "upsert" \/ c.op = "none"
      BY <2>1, <3>1 DEF ApplyUpsert, ApplyEmptyPage
    <3>2. CASE c.op = "delete"
      BY <1>0, <2>1, <2>2, <3>2, TombstonePulls DEF Pulled
    <3> QED
      BY <2>2, <3>1, <3>2
  <2>4. receipt' = receipt
    BY <2>1 DEF serverVars
  <2>5. FreshEntries'
    <3> SUFFICES ASSUME NEW l \in RowIds, NEW j \in DOMAIN outbox'[l],
                        outbox'[l][j].state \in Unsent
                 PROVE  receipt'[outbox'[l][j].id] = NoReceipt
      BY DEF FreshEntries
    <3>1. outbox'[l] = outbox[l]
      BY <2>3
    <3> QED
      BY <1>0, <2>4, <3>1 DEF FreshEntries
  <2> QED
    BY <2>1, <2>4, <2>5, FreshRest
<1>15. ASSUME NEW t \in Threads,
              StartCycle(t) \/ Push(t) \/ Pull(t) \/ Failure(t)
       PROVE  FreshInv'
  BY <1>4, <1>8, <1>9, <1>10, <1>11, <1>12, <1>13, <1>14, <1>15
     DEF Push, Pull, Failure
<1> QED
  BY <1>2, <1>3, <1>4, <1>5, <1>7, <1>15 DEF SyncNext

-----------------------------------------------------------------------------
(* What the mirror holds.                                                  *)

(* Event i is the last one about skill s among the first n.                *)
LastOf(s, i, n) ==
    i \in 1 .. n /\ log[i].rid = s /\ \A j \in (i + 1) .. n : log[j].rid # s

(* Skill s has had revision rev.                                           *)
Known(s, rev) ==
    skill[s].status # "absent" /\ (InTable(s) => rev <= skill[s].rev)

(* Nothing that the cursor has passed is later than revision rev of s.     *)
Reaches(s, rev) ==
    /\ Known(s, rev)
    /\ \A i \in 1 .. cursor : log[i].rid = s => log[i].rev <= rev

(* An answer on its way to the store does not take the mirror back.        *)
AnswerOK(r, a) ==
    /\ a.status = "acked" => a.rid \in ServerIds /\ Reaches(a.rid, a.rev)
    /\ a.status = "conflict" =>
         r.remote \in ServerIds /\ a.head >= 1 /\ Reaches(r.remote, a.head)

(* A page on its way to the store starts at the cursor.                    *)
PageOK(p) ==
    /\ p.next \in {cursor, cursor + 1} /\ p.next <= Len(log)
    /\ p.change.op # "none" =>
         /\ p.next = cursor + 1
         /\ log[p.next] = [rid |-> p.change.rid, rev |-> p.change.rev,
                           op |-> p.change.op]
    /\ p.change.op = "none" /\ p.next = cursor + 1 => ~InTable(log[p.next].rid)

Working(w) ==
    /\ w.pc = "replied" => AnswerOK(w.req, w.resp)
    /\ w.pc = "page" => PageOK(w.page)

WorkInv == \A t \in Threads : Working(thread[t])

KnownInv ==
    \A k \in RowIds : row[k].remoteId # None => Known(row[k].remoteId, row[k].rev)

(* Every package that the cursor has passed is in the mirror.              *)
CoverInv ==
    /\ cursor <= Len(log)
    /\ \A s \in ServerIds : \A i \in DOMAIN log :
          LastOf(s, i, cursor) /\ log[i].op = "upsert" /\ InTable(s)
            => \E k \in RowIds : row[k].remoteId = s /\ row[k].rev >= log[i].rev

MirrorInv == FreshInv /\ WorkInv /\ KnownInv /\ CoverInv

(* The types these definitions need.                                       *)
LEMMA MirrorTypes ==
    ASSUME SyncInv
    PROVE  /\ log \in Seq(Events) /\ Len(log) \in Nat /\ DOMAIN log = 1 .. Len(log)
           /\ cursor \in Nat
           /\ \A i \in DOMAIN log : /\ log[i].rid \in ServerIds /\ log[i].rev \in Nat
                                    /\ log[i].op \in {"upsert", "delete"}
           /\ \A s \in ServerIds : skill[s].rev \in Nat
           /\ \A k \in RowIds : /\ row[k].rev \in Nat /\ row[k] \in Rows
                                /\ row[k].remoteId # None => row[k].remoteId \in ServerIds
<1>1. /\ log \in Seq(Events) /\ cursor \in Nat
      /\ row \in [RowIds -> Rows] /\ skill \in [ServerIds -> Skills]
  BY DEF SyncInv, ServerInv, StoreInv, StoreTypeOK
<1>2. Len(log) \in Nat /\ DOMAIN log = 1 .. Len(log)
  BY <1>1
<1>3. \A i \in DOMAIN log : log[i] \in Events
  BY <1>1
<1>4. \A e \in Events : e.rid \in ServerIds /\ e.rev \in Nat
                          /\ e.op \in {"upsert", "delete"}
  BY DEF Events
<1>5. \A s \in ServerIds : skill[s].rev \in Nat
  BY <1>1 DEF Skills
<1>6. \A k \in RowIds : /\ row[k].rev \in Nat /\ row[k] \in Rows
                        /\ row[k].remoteId # None => row[k].remoteId \in ServerIds
  BY <1>1 DEF Rows
<1> QED
  BY <1>1, <1>2, <1>3, <1>4, <1>5, <1>6

(* A skill in the table is at the revision of its last event.              *)
LEMMA HeadIsLast ==
    ASSUME SyncInv, FeedInv, NEW s \in ServerIds, InTable(s)
    PROVE  /\ skill[s].rev >= 1
           /\ \A i \in DOMAIN log : log[i].rid = s => log[i].rev <= skill[s].rev
<1>1. PICK h \in DOMAIN log : IsHead(s, h)
  BY DEF FeedInv
<1>2. log[h].rev = skill[s].rev /\ log[h].rev >= 1
  BY <1>1 DEF IsHead, FeedInv
<1>3. \A i \in DOMAIN log : log[i].rid = s /\ i # h => log[i].rev < skill[s].rev
  BY <1>1 DEF IsHead
<1> QED
  BY <1>2, <1>3, MirrorTypes

(* The answer of the moment reaches everything that the cursor has passed. *)
LEMMA FreshAnswerOK ==
    ASSUME SyncInv, FeedInv, NEW r, NEW a, AnswerNow(r, a), cursor <= Len(log)
    PROVE  AnswerOK(r, a)
<1>1. ASSUME NEW s \in ServerIds, InTable(s)
      PROVE  Reaches(s, skill[s].rev) /\ skill[s].rev >= 1
  <2>1. /\ skill[s].rev >= 1 /\ skill[s].rev \in Nat
        /\ \A i \in DOMAIN log : log[i].rid = s => log[i].rev <= skill[s].rev
    BY <1>1, HeadIsLast, MirrorTypes
  <2>2. 1 .. cursor \subseteq DOMAIN log
    BY MirrorTypes
  <2>3. Known(s, skill[s].rev)
    BY <1>1, <2>1 DEF Known, InTable
  <2> QED
    BY <2>1, <2>2, <2>3 DEF Reaches
<1> QED
  BY <1>1 DEF AnswerNow, AnswerOK

(* list_changes at the cursor gives the next event, or skips one whose     *)
(* skill is gone.                                                          *)
LEMMA FreshPageOK ==
    ASSUME SyncInv, cursor <= Len(log)
    PROVE  PageOK(ListChanges(cursor))
<1>1. PICK p : p = ListChanges(cursor)
  OBVIOUS
<1>2. PICK seq : seq = IF cursor < Len(log) THEN cursor + 1 ELSE cursor
  OBVIOUS
<1>3. PICK c : c = IF seq > cursor /\ SkillVisible(log[seq])
                   THEN Project(log[seq]) ELSE NoChange
  OBVIOUS
<1>4. p.next = seq /\ p.change = c
  BY <1>1, <1>2, <1>3 DEF ListChanges
<1>5. /\ seq \in {cursor, cursor + 1} /\ seq <= Len(log) /\ seq \in Nat
      /\ seq > cursor => seq = cursor + 1 /\ seq \in DOMAIN log
      /\ cursor + 1 # cursor /\ (seq = cursor + 1 => seq > cursor)
  BY <1>2, MirrorTypes
<1>6. CASE seq > cursor /\ SkillVisible(log[seq])
  <2>1. PICK e \in Events : e = log[seq]
    BY <1>5, <1>6, MirrorTypes
  <2>2. c.op = e.op /\ c.rid = e.rid /\ c.rev = e.rev
    BY <1>3, <1>6, <2>1 DEF Project
  <2>3. e = [rid |-> c.rid, rev |-> c.rev, op |-> c.op] /\ c.op # "none"
    BY <2>2 DEF Events
  <2> QED
    BY <1>1, <1>4, <1>5, <1>6, <2>1, <2>3 DEF PageOK
<1>7. CASE ~(seq > cursor /\ SkillVisible(log[seq]))
  <2>1. c.op = "none"
    BY <1>3, <1>7 DEF NoChange
  <2>2. seq = cursor + 1 => ~InTable(log[seq].rid)
    BY <1>5, <1>7 DEF SkillVisible
  <2> QED
    BY <1>1, <1>4, <1>5, <2>1, <2>2 DEF PageOK
<1> QED
  BY <1>6, <1>7

(* What the tables do behind the cursor does not hurt: answers and pages   *)
(* on their way, rows and coverage stay right.                             *)
LEMMA FeedKeepsMirror ==
    ASSUME SyncInv, SyncInv', FeedInv, FeedGrows, cursor' = cursor,
           cursor <= Len(log)
    PROVE  /\ \A s \in ServerIds : \A rev \in Nat : Known(s, rev) => Known(s, rev)'
           /\ \A w \in ThreadStates : Working(w) /\ (w.pc = "page" => w.page \in Pages)
                => Working(w)'
           /\ \A s \in ServerIds : \A i \in DOMAIN log' :
                 (LastOf(s, i, cursor) /\ log[i].op = "upsert" /\ InTable(s))'
                   => /\ i \in DOMAIN log /\ log'[i] = log[i]
                      /\ LastOf(s, i, cursor) /\ log[i].op = "upsert" /\ InTable(s)
<1>1. /\ Len(log) \in Nat /\ DOMAIN log = 1 .. Len(log) /\ cursor \in Nat
      /\ \A i \in DOMAIN log : log[i].rid \in ServerIds /\ log[i].rev \in Nat
      /\ \A s \in ServerIds : skill[s].rev \in Nat
  BY MirrorTypes
<1>2. /\ Len(log') \in Nat /\ DOMAIN log' = 1 .. Len(log')
      /\ \A s \in ServerIds : skill'[s].rev \in Nat
  <2>1. log' \in Seq(Events) /\ skill' \in [ServerIds -> Skills]
    BY DEF SyncInv, ServerInv
  <2>2. \A s \in ServerIds : skill'[s].rev \in Nat
    BY <2>1 DEF Skills
  <2> QED
    BY <2>1, <2>2
<1>3. /\ \A i \in DOMAIN log : i \in DOMAIN log' /\ log'[i] = log[i]
      /\ 1 .. cursor \subseteq DOMAIN log /\ Len(log) <= Len(log')
  BY <1>1 DEF FeedGrows
<1>4. ASSUME NEW s \in ServerIds, NEW rev \in Nat, Known(s, rev)
      PROVE  Known(s, rev)'
  <2>1. skill'[s].status # "absent"
    BY <1>4 DEF Known, FeedGrows
  <2>2. InTable(s)' => rev <= skill[s].rev /\ skill[s].rev <= skill'[s].rev
    BY <1>4 DEF Known, FeedGrows
  <2>3. InTable(s)' => rev <= skill'[s].rev
    BY <1>1, <1>2, <2>2
  <2> QED
    BY <2>1, <2>3 DEF Known
<1>5. ASSUME NEW s \in ServerIds, NEW rev \in Nat, Reaches(s, rev)
      PROVE  Reaches(s, rev)'
  BY <1>3, <1>4, <1>5 DEF Reaches
<1>6. \A s \in ServerIds : skill[s].status # "absent" /\ InTable(s)' => InTable(s)
  BY DEF FeedGrows
<1>7. ASSUME NEW w \in ThreadStates, Working(w), w.pc = "page" => w.page \in Pages
      PROVE  Working(w)'
  <2>1. PICK a \in Responses : a = w.resp
    BY DEF ThreadStates
  <2>2. a.rev \in Nat /\ a.head \in Nat
    BY DEF Responses
  <2>3. ASSUME w.pc = "replied"
        PROVE  AnswerOK(w.req, w.resp)'
    BY <1>5, <1>7, <2>1, <2>2, <2>3 DEF Working, AnswerOK
  <2>4. ASSUME NEW p \in Pages, PageOK(p)
        PROVE  PageOK(p)'
    <3>1. p.next \in Nat /\ p.next <= Len(log) /\ p.next \in {cursor, cursor + 1}
      BY <2>4 DEF PageOK, Pages
    <3>2. p.next = cursor + 1 =>
             p.next \in DOMAIN log /\ log'[p.next] = log[p.next]
      BY <1>1, <1>3, <3>1
    <3>5. PICK s : s = log[p.next].rid
      OBVIOUS
    <3>3. p.next = cursor + 1 => log'[p.next].rid = s /\ (~InTable(s) => ~InTable(s)')
      <4>1. p.next = cursor + 1 => s \in ServerIds /\ skill[s].status # "absent"
        BY <1>1, <3>2, <3>5 DEF FeedInv
      <4> QED
        BY <1>6, <3>2, <3>5, <4>1
    <3>4. p.next <= Len(log')
      BY <1>1, <1>2, <1>3, <3>1
    <3>6. p.change.op # "none" => p.next = cursor + 1
      BY <2>4 DEF PageOK
    <3>7. ASSUME p.change.op = "none", p.next = cursor + 1
          PROVE  ~InTable(log[p.next].rid)'
      <4>1. ~InTable(s)
        BY <2>4, <3>5, <3>7 DEF PageOK
      <4>2. ~InTable(s)' /\ log'[p.next].rid = s
        BY <3>3, <3>7, <4>1
      <4> QED
        BY <4>2 DEF InTable
    <3>8. p.change.op # "none" =>
             log'[p.next] = [rid |-> p.change.rid, rev |-> p.change.rev,
                             op |-> p.change.op]
      BY <2>4, <3>2, <3>6 DEF PageOK
    <3> QED
      BY <3>1, <3>4, <3>6, <3>7, <3>8 DEF PageOK
  <2> QED
    BY <1>7, <2>3, <2>4 DEF Working
<1>8. ASSUME NEW s \in ServerIds, NEW i \in DOMAIN log',
             LastOf(s, i, cursor)', log'[i].op = "upsert", InTable(s)'
      PROVE  /\ i \in DOMAIN log /\ log'[i] = log[i]
             /\ LastOf(s, i, cursor) /\ log[i].op = "upsert" /\ InTable(s)
  <2>1. i \in 1 .. cursor /\ log'[i].rid = s
    BY <1>8 DEF LastOf
  <2>2. i \in DOMAIN log /\ log'[i] = log[i]
    BY <1>3, <2>1
  <2>3. \A j \in (i + 1) .. cursor : j \in DOMAIN log
    BY <1>1, <1>3, <2>1
  <2>4. LastOf(s, i, cursor)
    BY <1>3, <1>8, <2>1, <2>2, <2>3 DEF LastOf
  <2>5. InTable(s)
    BY <1>6, <1>8, <2>1, <2>2 DEF FeedInv
  <2> QED
    BY <1>8, <2>2, <2>4, <2>5
<1> QED
  BY <1>4, <1>7, <1>8

(* What a page does to the store, row by row: at most row l changes, and   *)
(* only if it is, or becomes, the row of the skill that the page names.    *)
PageMoves(l, op, rid, rev, hash) ==
    /\ \A k \in RowIds \ {l} : row'[k] = row[k] /\ outbox'[k] = outbox[k]
    /\ \/ /\ op = "delete" /\ Matches(rid) = {}
          /\ row'[l] = row[l] /\ outbox'[l] = outbox[l]
       \/ /\ row[l].remoteId = rid /\ row[l].rev >= rev
          /\ row'[l] = row[l] /\ outbox'[l] = outbox[l]
       \/ /\ op = "upsert" /\ row[l].remoteId = None
          /\ outbox[l] = <<>> /\ outbox'[l] = <<>>
          /\ row'[l].remoteId = rid /\ row'[l].rev = rev /\ row'[l].cur = hash
       \/ /\ op = "upsert" /\ row[l].remoteId = rid
          /\ row'[l].remoteId = rid /\ row'[l].rev = rev
          /\ row'[l].cur = (IF KeepsLocalHead(l) THEN row[l].cur ELSE hash)
          /\ KeepsLocalHead(l) => row'[l].state = "conflict"
          /\ outbox'[l] = outbox[l]
       \/ /\ op = "delete" /\ row[l].remoteId = rid /\ Unacked(l) # {}
          /\ row'[l].remoteId = rid /\ row'[l].rev = rev
          /\ row'[l].cur = row[l].cur /\ row'[l].state = "conflict"
          /\ outbox'[l] = outbox[l]
       \/ /\ op = "delete" /\ row[l].remoteId = rid
          /\ row'[l].remoteId = None /\ outbox'[l] = <<>>

LEMMA UpsertMoves ==
    ASSUME StoreInv, NEW rid \in ServerIds, NEW rev \in Nat, NEW hash \in Hashes,
           NEW next \in Nat, ApplyUpsert(rid, rev, hash, next)
    PROVE  \E l \in RowIds : PageMoves(l, "upsert", rid, rev, hash)
<1>1. /\ row \in [RowIds -> Rows] /\ outbox' = outbox /\ rid \in RowIds
      /\ rid # None
  BY TypesAssumption DEF StoreInv, StoreTypeOK, ApplyUpsert, RowIds
<1>2. CASE Matches(rid) = {}
  <2>1. row' = [row EXCEPT ![rid] = [remoteId |-> rid, rev |-> rev, cur |-> hash,
                                     rem |-> hash, state |-> "remote_only"]]
    BY <1>2 DEF ApplyUpsert, UpsertNew
  <2>2. row'[rid].remoteId = rid /\ row'[rid].rev = rev /\ row'[rid].cur = hash
    BY <1>1, <2>1
  <2>3. outbox[rid] = <<>> /\ row[rid].remoteId = None
    BY <1>1, <1>2 DEF Matches, StoreInv, RowsWellFormed
  <2>4. \A k \in RowIds \ {rid} : row'[k] = row[k]
    BY <1>1, <2>1
  <2> QED
    BY <1>1, <2>2, <2>3, <2>4 DEF PageMoves
<1>3. CASE Matches(rid) # {}
  <2>1. PICK l \in Matches(rid) : UpsertMatched(l, rev, hash)
    BY <1>3 DEF ApplyUpsert
  <2>2. l \in RowIds /\ row[l].remoteId = rid
    BY <2>1, MatchesMirror
  <2>3. CASE Stale(l, rev)
    BY <1>1, <2>1, <2>2, <2>3 DEF UpsertMatched, Stale, PageMoves
  <2>4. CASE ~Stale(l, rev)
    <3>1. row' = [row EXCEPT ![l] = Refreshed(l, rev, hash)]
      BY <2>1, <2>4 DEF UpsertMatched
    <3>2. \A k \in RowIds \ {l} : row'[k] = row[k]
      BY <1>1, <3>1
    <3>3. /\ row'[l].remoteId = rid /\ row'[l].rev = rev
          /\ row'[l].cur = (IF KeepsLocalHead(l) THEN row[l].cur ELSE hash)
          /\ KeepsLocalHead(l) => row'[l].state = "conflict"
      BY <1>1, <2>2, <3>1 DEF Refreshed
    <3> QED
      BY <1>1, <2>2, <3>2, <3>3 DEF PageMoves
  <2> QED
    BY <2>3, <2>4
<1> QED
  BY <1>2, <1>3

LEMMA TombstoneMoves ==
    ASSUME StoreInv, NEW rid \in ServerIds, NEW rev \in Nat, NEW hash,
           NEW next \in Nat, ApplyTombstone(rid, rev, next)
    PROVE  \E l \in RowIds : PageMoves(l, "delete", rid, rev, hash)
<1>1. /\ row \in [RowIds -> Rows] /\ outbox \in [RowIds -> Seq(Mutations)]
      /\ rid \in RowIds
  BY DEF StoreInv, StoreTypeOK, RowIds
<1>2. CASE Matches(rid) = {}
  BY <1>1, <1>2 DEF ApplyTombstone, PageMoves
<1>3. CASE Matches(rid) # {}
  <2>1. PICK l \in Matches(rid) : TombstoneMatched(l, rev)
    BY <1>3 DEF ApplyTombstone
  <2>2. l \in RowIds /\ row[l].remoteId = rid
    BY <2>1, MatchesMirror
  <2>3. CASE Stale(l, rev)
    BY <2>1, <2>2, <2>3 DEF TombstoneMatched, Stale, PageMoves
  <2>4. CASE ~Stale(l, rev) /\ Unacked(l) # {}
    <3>1. /\ row' = [row EXCEPT ![l].rev = rev, ![l].state = "conflict"]
          /\ outbox' = outbox
      BY <2>1, <2>4 DEF TombstoneMatched
    <3>2. /\ row'[l].remoteId = rid /\ row'[l].rev = rev
          /\ row'[l].cur = row[l].cur /\ row'[l].state = "conflict"
          /\ \A k \in RowIds \ {l} : row'[k] = row[k]
      BY <1>1, <2>2, <3>1 DEF Rows
    <3> QED
      BY <2>2, <2>4, <3>1, <3>2 DEF PageMoves
  <2>5. CASE ~Stale(l, rev) /\ Unacked(l) = {}
    <3>1. row' = [row EXCEPT ![l] = NoRow] /\ outbox' = [outbox EXCEPT ![l] = <<>>]
      BY <2>1, <2>5 DEF TombstoneMatched
    <3>2. row'[l] = NoRow /\ \A k \in RowIds \ {l} : row'[k] = row[k]
      BY <1>1, <2>2, <3>1
    <3>3. outbox'[l] = <<>> /\ \A k \in RowIds \ {l} : outbox'[k] = outbox[k]
      BY <1>1, <2>2, <3>1
    <3> QED
      BY <2>2, <3>2, <3>3 DEF PageMoves, NoRow
  <2> QED
    BY <2>3, <2>4, <2>5
<1> QED
  BY <1>2, <1>3

(* Rows that keep their remote ids and revisions go on covering the feed.  *)
LEMMA RowsCover ==
    ASSUME SyncInv, SyncInv', FeedInv, FeedGrows, KnownInv, CoverInv,
           cursor' = cursor,
           \A k \in RowIds :
               row'[k].remoteId = row[k].remoteId /\ row'[k].rev = row[k].rev
    PROVE  KnownInv' /\ CoverInv'
<1>1. /\ cursor <= Len(log) /\ cursor \in Nat /\ Len(log) \in Nat
      /\ \A s \in ServerIds : \A rev \in Nat : Known(s, rev) => Known(s, rev)'
      /\ \A s \in ServerIds : \A i \in DOMAIN log' :
            (LastOf(s, i, cursor) /\ log[i].op = "upsert" /\ InTable(s))'
              => /\ i \in DOMAIN log /\ log'[i] = log[i]
                 /\ LastOf(s, i, cursor) /\ log[i].op = "upsert" /\ InTable(s)
  BY FeedKeepsMirror, MirrorTypes DEF CoverInv
<1>2. ASSUME NEW k \in RowIds, row'[k].remoteId # None
      PROVE  Known(row[k].remoteId, row[k].rev)'
  <2>1. PICK s \in ServerIds, rev \in Nat : s = row[k].remoteId /\ rev = row[k].rev
    BY <1>2, MirrorTypes
  <2>2. Known(s, rev)
    BY <1>2, <2>1 DEF KnownInv
  <2>3. Known(s, rev)'
    BY <1>1, <2>2
  <2> QED
    BY <2>1, <2>3 DEF Known, InTable
<1>3. KnownInv'
  BY <1>2 DEF KnownInv
<1>4. ASSUME NEW s \in ServerIds, NEW i \in DOMAIN log',
             (LastOf(s, i, cursor) /\ log[i].op = "upsert" /\ InTable(s))'
      PROVE  \E k \in RowIds : row'[k].remoteId = s /\ row'[k].rev >= log'[i].rev
  <2>1. /\ i \in DOMAIN log /\ log'[i] = log[i]
        /\ LastOf(s, i, cursor) /\ log[i].op = "upsert" /\ InTable(s)
    BY <1>1, <1>4
  <2>2. PICK k \in RowIds : row[k].remoteId = s /\ row[k].rev >= log[i].rev
    BY <2>1 DEF CoverInv
  <2> QED
    BY <2>1, <2>2
<1>5. cursor' <= Len(log')
  <2>1. log' \in Seq(Events)
    BY DEF SyncInv, ServerInv
  <2>2. Len(log') \in Nat
    BY <2>1
  <2> QED
    BY <1>1, <2>2 DEF FeedGrows
<1>6. CoverInv'
  <2>1. \A s \in ServerIds : \A i \in DOMAIN log' :
          (LastOf(s, i, cursor) /\ log[i].op = "upsert" /\ InTable(s))'
            => \E k \in RowIds : row'[k].remoteId = s /\ row'[k].rev >= log'[i].rev
    BY <1>4
  <2> QED
    BY <1>5, <2>1 DEF CoverInv
<1> QED
  BY <1>3, <1>6

(* An outcome that moves row k of skill s moves it past everything pulled. *)
LEMMA OutcomeCovers ==
    ASSUME SyncInv, SyncInv', KnownInv, CoverInv, UNCHANGED serverVars,
           cursor' = cursor, NEW k \in RowIds, NEW s \in ServerIds,
           \A l \in RowIds \ {k} : row'[l] = row[l],
           row[k].remoteId \in {None, s}, row'[k].remoteId = s,
           Reaches(s, row'[k].rev)
    PROVE  KnownInv' /\ CoverInv'
<1>1. log' = log /\ skill' = skill /\ s # None
  BY TypesAssumption DEF serverVars
<1>2. ASSUME NEW l \in RowIds, row'[l].remoteId # None
      PROVE  Known(row[l].remoteId, row[l].rev)'
  <2>1. CASE l = k
    BY <1>1, <2>1 DEF Reaches, Known, InTable
  <2>2. CASE l # k
    <3>1. Known(row[l].remoteId, row[l].rev)
      BY <1>2, <2>2 DEF KnownInv
    <3> QED
      BY <1>1, <2>2, <3>1 DEF Known, InTable
  <2> QED
    BY <2>1, <2>2
<1>3. KnownInv'
  BY <1>2 DEF KnownInv
<1>4. ASSUME NEW x \in ServerIds, NEW i \in DOMAIN log,
             LastOf(x, i, cursor), log[i].op = "upsert", InTable(x)
      PROVE  \E l \in RowIds : row'[l].remoteId = x /\ row'[l].rev >= log[i].rev
  <2>1. PICK l \in RowIds : row[l].remoteId = x /\ row[l].rev >= log[i].rev
    BY <1>4 DEF CoverInv
  <2>2. CASE l # k
    BY <2>1, <2>2
  <2>3. CASE l = k
    <3>1. x = s /\ log[i].rid = s /\ i \in 1 .. cursor
      BY <1>4, <2>1, <2>3, TypesAssumption DEF LastOf
    <3>2. log[i].rev <= row'[k].rev
      BY <3>1 DEF Reaches
    <3>3. log[i].rev \in Nat /\ row'[k].rev \in Nat
      <4>1. row' \in [RowIds -> Rows]
        BY DEF SyncInv, StoreInv, StoreTypeOK
      <4>2. row'[k].rev \in Nat
        BY <4>1 DEF Rows
      <4> QED
        BY <4>2, MirrorTypes
    <3> QED
      BY <3>1, <3>2, <3>3
  <2> QED
    BY <2>2, <2>3
<1>5. CoverInv'
  BY <1>1, <1>4 DEF CoverInv, LastOf, InTable
<1> QED
  BY <1>3, <1>5

(* A page at the cursor brings the mirror up to the next event.            *)
LEMMA PageCovers ==
    ASSUME SyncInv, SyncInv', FeedInv, KnownInv, CoverInv, UNCHANGED serverVars,
           NEW p \in Pages, PageOK(p), NEW c \in Changes, c = p.change,
           c.op # "none", c.rid \in ServerIds, cursor' = p.next,
           NEW l \in RowIds, PageMoves(l, c.op, c.rid, c.rev, c.pkg)
    PROVE  KnownInv' /\ CoverInv'
<1>1. log' = log /\ skill' = skill
  BY DEF serverVars
<1>2. PICK n \in Nat : n = cursor + 1
  BY MirrorTypes
<1>3. PICK s \in ServerIds, rev \in Nat : s = c.rid /\ rev = c.rev
  BY DEF Changes
<1>4. /\ cursor' = n /\ n \in DOMAIN log /\ n <= Len(log) /\ cursor \in Nat
      /\ log[n] = [rid |-> s, rev |-> rev, op |-> c.op] /\ s # None
      /\ c.op \in {"upsert", "delete"}
  BY <1>2, <1>3, MirrorTypes, TypesAssumption DEF PageOK, Changes
<1>5. Known(s, rev)
  <2>1. skill[s].status # "absent"
    BY <1>4 DEF FeedInv
  <2>2. InTable(s) => rev <= skill[s].rev
    BY <1>4, HeadIsLast
  <2> QED
    BY <2>1, <2>2 DEF Known
<1>6. /\ \A k \in RowIds \ {l} : row'[k] = row[k]
      /\ \/ row'[l] = row[l] \/ row'[l].remoteId = None
         \/ row'[l].remoteId = s /\ row'[l].rev = rev
      /\ row'[l] # row[l] => row[l].remoteId \in {None, s}
      /\ c.op = "upsert" => row'[l].remoteId = s /\ row'[l].rev >= rev
      /\ c.op = "upsert" => row[l].remoteId \in {None, s}
  <2>1. row'[l].rev \in Nat
    <3>1. row' \in [RowIds -> Rows]
      BY DEF SyncInv, StoreInv, StoreTypeOK
    <3> QED
      BY <3>1 DEF Rows
  <2> QED
    BY <1>3, <1>4, <2>1 DEF PageMoves
<1>7. ASSUME NEW k \in RowIds, row'[k].remoteId # None
      PROVE  Known(row[k].remoteId, row[k].rev)'
  <2>1. CASE row'[k] = row[k]
    <3>1. Known(row[k].remoteId, row[k].rev)
      BY <1>7, <2>1 DEF KnownInv
    <3> QED
      BY <1>1, <2>1, <3>1 DEF Known, InTable
  <2>2. CASE row'[k] # row[k]
    <3>1. row'[k].remoteId = s /\ row'[k].rev = rev
      BY <1>6, <1>7, <2>2
    <3> QED
      BY <1>1, <1>5, <3>1 DEF Known, InTable
  <2> QED
    BY <2>1, <2>2
<1>8. KnownInv'
  BY <1>7 DEF KnownInv
<1>9. ASSUME NEW x \in ServerIds, NEW i \in DOMAIN log,
             LastOf(x, i, n), log[i].op = "upsert", InTable(x)
      PROVE  \E k \in RowIds : row'[k].remoteId = x /\ row'[k].rev >= log[i].rev
  <2>1. CASE i = n
    BY <1>4, <1>6, <1>9, <2>1 DEF LastOf
  <2>2. CASE i # n
    <3>1. x # s
      BY <1>4, <1>9, <2>2 DEF LastOf
    <3>2. LastOf(x, i, cursor)
      BY <1>2, <1>4, <1>9, <2>2 DEF LastOf
    <3>3. PICK k \in RowIds : row[k].remoteId = x /\ row[k].rev >= log[i].rev
      BY <1>9, <3>2 DEF CoverInv
    <3>4. row'[k] = row[k]
      BY <1>6, <3>1, <3>3, TypesAssumption
    <3> QED
      BY <3>3, <3>4
  <2> QED
    BY <2>1, <2>2
<1>10. CoverInv'
  BY <1>1, <1>4, <1>9 DEF CoverInv, LastOf, InTable
<1> QED
  BY <1>8, <1>10

(* A page without a change skips at most an event of a skill that is gone. *)
LEMMA EmptyPageCovers ==
    ASSUME SyncInv, SyncInv', KnownInv, CoverInv, UNCHANGED serverVars,
           NEW p \in Pages, PageOK(p), p.change.op = "none",
           cursor' = p.next, row' = row
    PROVE  KnownInv' /\ CoverInv'
<1>1. log' = log /\ skill' = skill
  BY DEF serverVars
<1>2. KnownInv'
  BY <1>1 DEF KnownInv, Known, InTable
<1>3. PICK n \in Nat : n = cursor'
  BY DEF Pages
<1>4. n <= Len(log) /\ n \in {cursor, cursor + 1} /\ cursor \in Nat
      /\ (n = cursor + 1 => ~InTable(log[n].rid))
  BY <1>3, MirrorTypes DEF PageOK
<1>5. ASSUME NEW x \in ServerIds, NEW i \in DOMAIN log,
             LastOf(x, i, n), log[i].op = "upsert", InTable(x)
      PROVE  LastOf(x, i, cursor)
  <2>1. CASE n = cursor
    BY <1>5, <2>1
  <2>2. CASE n = cursor + 1
    <3>1. i # n
      BY <1>4, <1>5, <2>2 DEF LastOf
    <3> QED
      BY <1>4, <1>5, <2>2, <3>1 DEF LastOf
  <2> QED
    BY <1>4, <2>1, <2>2
<1>6. CoverInv'
  BY <1>1, <1>3, <1>4, <1>5 DEF CoverInv, LastOf, InTable
<1> QED
  BY <1>2, <1>6

(* Work that is neither an answer nor a page is always right.              *)
LEMMA WorkRests ==
    ASSUME ThreadInv, Undisturbed, NEW t \in Threads, NEW w,
           thread' = [thread EXCEPT ![t] = w], w.pc \notin {"replied", "page"}
    PROVE  WorkInv'
BY OneThreadMoves DEF WorkInv, Working

(* An answer of the moment is right when it arrives.                       *)
LEMMA ReplyWorks ==
    ASSUME SyncInv', FeedInv', NEW r, NEW a, AnswerNow(r, a)', (cursor <= Len(log))'
    PROVE  AnswerOK(r, a)'
<1>1. /\ Len(log') \in Nat /\ DOMAIN log' = 1 .. Len(log') /\ cursor' \in Nat
      /\ \A i \in DOMAIN log' : log'[i].rev \in Nat
      /\ \A s \in ServerIds : skill'[s].rev \in Nat
  <2>1. /\ log' \in Seq(Events) /\ cursor' \in Nat
        /\ skill' \in [ServerIds -> Skills]
    BY DEF SyncInv, ServerInv, StoreInv, StoreTypeOK
  <2>2. \A i \in DOMAIN log' : log'[i] \in Events
    BY <2>1
  <2>3. \A e \in Events : e.rev \in Nat
    BY DEF Events
  <2>4. \A s \in ServerIds : skill'[s].rev \in Nat
    BY <2>1 DEF Skills
  <2> QED
    BY <2>1, <2>2, <2>3, <2>4
<1>2. ASSUME NEW s \in ServerIds, InTable(s)'
      PROVE  Reaches(s, skill[s].rev)' /\ skill'[s].rev >= 1
  <2>1. PICK h \in DOMAIN log' : IsHead(s, h)'
    BY <1>2 DEF FeedInv
  <2>2. log'[h].rev = skill'[s].rev /\ log'[h].rev >= 1
    BY <2>1 DEF IsHead, FeedInv
  <2>3. \A i \in DOMAIN log' : log'[i].rid = s /\ i # h => log'[i].rev < skill'[s].rev
    BY <2>1 DEF IsHead
  <2>4. \A i \in DOMAIN log' : log'[i].rid = s => log'[i].rev <= skill'[s].rev
    BY <1>1, <2>2, <2>3
  <2>5. \A i \in 1 .. cursor' : i \in DOMAIN log'
    BY <1>1
  <2>6. Known(s, skill[s].rev)'
    BY <1>1, <1>2 DEF Known, InTable
  <2> QED
    BY <2>2, <2>4, <2>5, <2>6 DEF Reaches
<1> QED
  BY <1>2 DEF AnswerNow, AnswerOK, Reaches, Known

(* Work in hand stays right while the tables move behind the cursor.       *)
LEMMA WorkWaits ==
    ASSUME SyncInv, SyncInv', FeedInv, FeedGrows, WorkInv, CoverInv,
           thread' = thread, cursor' = cursor
    PROVE  WorkInv'
<1> SUFFICES ASSUME NEW t \in Threads
             PROVE  Working(thread[t])'
  BY DEF WorkInv
<1>1. PICK w \in ThreadStates : w = thread[t] /\ ThreadOK(w)
  BY DEF SyncInv, ThreadInv
<1>2. Working(w) /\ (w.pc = "page" => w.page \in Pages)
  BY <1>1 DEF WorkInv, ThreadOK
<1>3. Working(w)'
  BY <1>2, FeedKeepsMirror DEF CoverInv
<1>4. thread'[t] = w
  BY <1>1
<1> QED
  BY <1>3, <1>4 DEF Working, AnswerOK, PageOK, Reaches, Known, InTable

(* Every step keeps what the mirror holds, and what is on its way to it.   *)
LEMMA MirrorStep ==
    ASSUME SyncInv, SyncInv', FeedInv, FeedInv', FeedGrows, Undisturbed,
           MirrorInv, [SyncNext]_syncVars
    PROVE  MirrorInv'
<1>0. /\ FreshInv /\ WorkInv /\ KnownInv /\ CoverInv /\ ThreadInv /\ late = {}
      /\ cursor <= Len(log)
  BY DEF MirrorInv, SyncInv, FreshInv, CoverInv
<1>1. FreshInv'
  BY <1>0, FreshStep
<1>2. ASSUME row' = row, cursor' = cursor
      PROVE  KnownInv' /\ CoverInv'
  BY <1>0, <1>2, RowsCover
<1>3. CASE UNCHANGED <<row, cursor, thread>>
  BY <1>0, <1>1, <1>2, <1>3, WorkWaits DEF MirrorInv
<1>4. CASE Browser
  BY <1>3, <1>4 DEF Browser, storeVars
<1>5. CASE UNCHANGED syncVars
  BY <1>3, <1>5 DEF syncVars, storeVars
<1>6. CASE UserCommand
  <2>1. /\ UNCHANGED <<thread, cursor>>
        /\ \A l \in RowIds : /\ row'[l].remoteId = row[l].remoteId
                             /\ row'[l].rev = row[l].rev
    BY <1>6, CommandEntries
  <2> QED
    BY <1>0, <1>1, <2>1, RowsCover, WorkWaits DEF MirrorInv
<1>7. CASE Backoff
  BY <1>3, <1>7, RetryEntries DEF Backoff, SyncInv
<1>8. ~LateDelivery /\ ~Restart /\ \A t \in Threads : ~Timeout(t)
  BY <1>0 DEF LateDelivery, Restart, Timeout, Fail, Undisturbed
<1>9. ASSUME NEW t \in Threads,
             \/ StartCycle(t) \/ Submit(t)
             \/ UploadFails(t) \/ SessionRefused(t) \/ AckRollsBack(t)
             \/ ReleaseTail(t) \/ PullFails(t)
      PROVE  MirrorInv'
  <2>1. UNCHANGED <<row, cursor>>
    <3>1. CASE StartCycle(t)
      BY <3>1, CycleStarts
    <3>2. CASE Submit(t)
      BY <3>2 DEF Submit, storeVars
    <3>3. CASE ~StartCycle(t) /\ ~Submit(t)
      BY <1>9, <3>3, ThreadTurns
    <3> QED
      BY <3>1, <3>2, <3>3
  <2>2. PICK w \in ThreadStates : /\ thread' = [thread EXCEPT ![t] = w]
                                  /\ w.pc \notin {"replied", "page"}
    <3>1. CASE StartCycle(t)
      BY <3>1, CycleStarts
    <3>2. CASE Submit(t)
      BY <3>2, SubmitSends
    <3>3. CASE ~StartCycle(t) /\ ~Submit(t)
      BY <1>9, <3>3, ThreadTurns
    <3> QED
      BY <3>1, <3>2, <3>3
  <2>3. WorkInv'
    BY <1>0, <2>2, WorkRests
  <2> QED
    BY <1>1, <1>2, <2>1, <2>3 DEF MirrorInv
<1>10. ASSUME NEW t \in Threads, ServerReplies(t)
       PROVE  MirrorInv'
  <2>1. PICK r \in Requests, w \in ThreadStates : \E a \in Responses :
           /\ r = thread[t].req /\ RequestOK(r) /\ Serve(r)
           /\ thread[t].pc = "sent" /\ a = ReplyTo(r)
           /\ thread' = [thread EXCEPT ![t] = w]
           /\ w.pc = "replied" /\ w.req = r /\ w.resp = a
           /\ UNCHANGED <<row, cursor>>
    BY <1>10, AnswerComes
  <2>2. receipt[r.id] = NoReceipt
    BY <1>0, <2>1 DEF FreshInv, FreshThread
  <2>3. PICK a : a = ReplyTo(r) /\ w.resp = a
    BY <2>1
  <2>4. AnswerNow(r, a)'
    BY <2>1, <2>2, <2>3, ReplyFits
  <2>5. KnownInv' /\ CoverInv'
    BY <1>2, <2>1
  <2>6. AnswerOK(r, a)'
    BY <2>4, <2>5, ReplyWorks DEF CoverInv
  <2>7. \A u \in Threads : thread'[u] = w
    BY <1>0, <2>1, OneThreadMoves
  <2>8. Working(w)'
    BY <2>1, <2>3, <2>6 DEF Working
  <2>9. WorkInv'
    BY <2>7, <2>8 DEF WorkInv, Working, AnswerOK, PageOK, Reaches, Known, InTable
  <2> QED
    BY <1>1, <2>5, <2>9 DEF MirrorInv
<1>11. ASSUME NEW t \in Threads, FetchPage(t)
       PROVE  MirrorInv'
  <2>1. PICK v \in ThreadStates : v = thread[t]
    BY <1>0 DEF ThreadInv
  <2>2. PICK p : p = ListChanges(cursor)
    OBVIOUS
  <2>3. PICK w : w = [v EXCEPT !.pc = "page", !.page = p]
    OBVIOUS
  <2>4. w.pc = "page" /\ w.page = p
    BY <2>3 DEF ThreadStates
  <2>5. thread' = [thread EXCEPT ![t] = w]
    <3>1. thread' = [thread EXCEPT ![t].pc = "page", ![t].page = p]
      BY <1>11, <2>2 DEF FetchPage
    <3> QED
      BY <1>0, <2>1, <2>3, <3>1 DEF ThreadInv
  <2>6. UNCHANGED <<row, cursor, log, skill>>
    BY <1>11 DEF FetchPage, storeVars, serverVars
  <2>7. PageOK(p)
    BY <1>0, <2>2, FreshPageOK
  <2>8. PageOK(p)'
    BY <2>6, <2>7 DEF PageOK, InTable
  <2>9. \A u \in Threads : thread'[u] = w
    BY <1>0, <2>5, OneThreadMoves
  <2>10. WorkInv'
    BY <2>4, <2>8, <2>9 DEF WorkInv, Working, PageOK, InTable
  <2> QED
    BY <1>1, <1>2, <2>6, <2>10 DEF MirrorInv
<1>12. ASSUME NEW t \in Threads, ApplyReply(t)
       PROVE  MirrorInv'
  <2>1. PICK r \in Requests, w \in ThreadStates, a \in Responses :
        \E i \in DOMAIN outbox[r.key] :
           /\ r = thread[t].req /\ a = thread[t].resp /\ RequestOK(r)
           /\ thread[t].pc = "replied"
           /\ Outcome(r, a, i)
           /\ outbox[r.key][i].id = r.id
           /\ a.status # "none"
           /\ a.status \in Definitive => a = receipt[r.id]
           /\ thread' = [thread EXCEPT ![t] = w]
           /\ w.pc \in {"pull", "push", "release"}
           /\ UNCHANGED serverVars
    BY <1>12, AnswerApplied
  <2>2. PICK i \in DOMAIN outbox[r.key] :
           Outcome(r, a, i) /\ outbox[r.key][i].id = r.id
    BY <2>1
  <2>3. PICK k \in RowIds : k = r.key
    BY DEF Requests
  <2>4. /\ cursor' = cursor /\ Settles(k, i, a)
        /\ \A l \in RowIds \ {k} : row'[l] = row[l]
    BY <2>1, <2>2, <2>3, OutcomeSettles
  <2>5. AnswerOK(r, a)
    BY <1>0, <2>1 DEF WorkInv, Working
  <2>6. WorkInv'
    BY <1>0, <2>1, WorkRests
  <2>7. UNCHANGED serverVars
    BY <2>1
  <2>8. KnownInv' /\ CoverInv'
    <3>1. CASE a.status = "acked"
      <4>1. PICK s : s = a.rid
        OBVIOUS
      <4>2. s \in ServerIds /\ Reaches(s, a.rev)
        BY <2>5, <3>1, <4>1 DEF AnswerOK
      <4>3. row'[k].remoteId = s /\ row'[k].rev = a.rev
        BY <2>4, <3>1, <4>1 DEF Settles
      <4>4. row[k].remoteId \in {None, s}
        <5>1. EntryOK(i, outbox[k][i], row[k].remoteId, receipt[outbox[k][i].id], seen)
          BY <2>2, <2>3 DEF SyncInv, EntryInv
        <5>2. receipt[outbox[k][i].id] = a
          BY <2>1, <2>2, <2>3, <3>1 DEF Definitive
        <5> QED
          BY <3>1, <4>1, <5>1, <5>2 DEF EntryOK
      <4>5. Reaches(s, row'[k].rev)
        BY <4>2, <4>3
      <4> QED
        BY <1>0, <2>4, <2>7, <4>2, <4>3, <4>4, <4>5, OutcomeCovers
    <3>2. CASE a.status = "conflict"
      <4>1. PICK s : s = r.remote
        OBVIOUS
      <4>2. s \in ServerIds /\ Reaches(s, a.head) /\ a.head >= 1
        BY <2>5, <3>2, <4>1 DEF AnswerOK
      <4>3. row'[k].remoteId = row[k].remoteId /\ row'[k].rev = a.head
        <5>1. a.head # 0
          BY <4>2
        <5> QED
          BY <2>4, <3>2, <5>1 DEF Settles
      <4>4. row[k].remoteId = s
        <5>1. Matching(r, k, outbox[k][i], row[k].remoteId)
          BY <2>1, <2>2, <2>3 DEF RequestOK
        <5> QED
          BY <4>1, <4>2, <5>1, TypesAssumption DEF Matching
      <4>5. Reaches(s, row'[k].rev)
        BY <4>2, <4>3
      <4> QED
        BY <1>0, <2>4, <2>7, <4>2, <4>3, <4>4, <4>5, OutcomeCovers
    <3>3. CASE a.status \notin {"acked", "conflict"}
      <4>1. \A l \in RowIds : /\ row'[l].remoteId = row[l].remoteId
                              /\ row'[l].rev = row[l].rev
        BY <2>4, <3>3 DEF Settles
      <4> QED
        BY <1>0, <2>4, <4>1, RowsCover
    <3> QED
      BY <3>1, <3>2, <3>3
  <2> QED
    BY <1>1, <2>6, <2>8 DEF MirrorInv
<1>13. ASSUME NEW t \in Threads, ApplyPage(t)
       PROVE  MirrorInv'
  <2>1. PICK p \in Pages, c \in Changes, w \in ThreadStates :
           /\ p = thread[t].page /\ c = p.change /\ thread[t].pc = "page"
           /\ c.op # "none" => c.rid \in ServerIds
           /\ c.op = "upsert" =>
                c.pkg \in Hashes /\ ApplyUpsert(c.rid, c.rev, c.pkg, p.next)
           /\ c.op = "delete" => ApplyTombstone(c.rid, c.rev, p.next)
           /\ c.op = "none" => ApplyEmptyPage(p.next)
           /\ thread' = [thread EXCEPT ![t] = w]
           /\ w.pc \in {"pull", "idle"}
           /\ UNCHANGED serverVars
    BY <1>13, PageApplied
  <2>2. PageOK(p)
    BY <1>0, <2>1 DEF WorkInv, Working
  <2>3. /\ c.rev \in Nat /\ p.next \in Nat /\ c.op \in {"none", "upsert", "delete"}
        /\ StoreInv
    BY DEF Changes, Pages, SyncInv
  <2>4. WorkInv'
    BY <1>0, <2>1, WorkRests
  <2>5. KnownInv' /\ CoverInv'
    <3>1. CASE c.op = "none"
      BY <1>0, <2>1, <2>2, <3>1, EmptyPageCovers DEF ApplyEmptyPage
    <3>2. CASE c.op # "none"
      <4>1. PICK rid, rev, hash, next : /\ rid = c.rid /\ rev = c.rev
                                        /\ hash = c.pkg /\ next = p.next
        OBVIOUS
      <4>2. cursor' = p.next /\ \E l \in RowIds : PageMoves(l, c.op, rid, rev, hash)
        <5>1. CASE c.op = "upsert"
          BY <2>1, <2>3, <4>1, <5>1, UpsertMoves DEF ApplyUpsert
        <5>2. CASE c.op = "delete"
          <6>1. ApplyTombstone(rid, rev, next) /\ rid \in ServerIds
            BY <2>1, <4>1, <5>2
          <6>2. \E l \in RowIds : PageMoves(l, "delete", rid, rev, hash)
            BY <2>3, <4>1, <6>1, TombstoneMoves
          <6> QED
            BY <4>1, <5>2, <6>1, <6>2 DEF ApplyTombstone
        <5> QED
          BY <2>3, <3>2, <5>1, <5>2
      <4>3. PICK l \in RowIds : PageMoves(l, c.op, c.rid, c.rev, c.pkg)
        BY <4>1, <4>2
      <4> QED
        BY <1>0, <2>1, <2>2, <3>2, <4>2, <4>3, PageCovers
    <3> QED
      BY <3>1, <3>2
  <2> QED
    BY <1>1, <2>4, <2>5 DEF MirrorInv
<1>14. ASSUME NEW t \in Threads,
              StartCycle(t) \/ Push(t) \/ Pull(t) \/ Failure(t)
       PROVE  MirrorInv'
  BY <1>8, <1>9, <1>10, <1>11, <1>12, <1>13, <1>14 DEF Push, Pull, Failure
<1> QED
  BY <1>4, <1>5, <1>6, <1>7, <1>8, <1>14 DEF SyncNext

LEMMA MirrorStarts == SyncInit => MirrorInv
<1> SUFFICES ASSUME SyncInit PROVE MirrorInv
  OBVIOUS
<1>1. /\ \A k \in RowIds : row[k] = NoRow /\ outbox[k] = <<>>
      /\ \A t \in Threads : thread[t] = Idle
      /\ late = {} /\ log = <<>> /\ cursor = 0
  BY DEF SyncInit, StoreInit, ServerInit
<1>2. \A t \in Threads : thread[t].pc = "idle" /\ thread[t].batch = {}
  BY <1>1, AtState
<1>3. FreshInv
  BY <1>1, <1>2 DEF FreshInv, FreshEntries, FreshThread
<1>4. WorkInv
  BY <1>2 DEF WorkInv, Working
<1>5. KnownInv
  BY <1>1 DEF KnownInv, NoRow
<1>6. CoverInv
  <2>1. Len(log) = 0 /\ DOMAIN log = {}
    BY <1>1
  <2> QED
    BY <1>1, <2>1 DEF CoverInv
<1> QED
  BY <1>3, <1>4, <1>5, <1>6 DEF MirrorInv

(* A non-empty set of numbers up to n has a largest one.                   *)
LEMMA LargestExists ==
    ASSUME NEW n \in Nat, NEW P \in SUBSET (1 .. n), P # {}
    PROVE  \E m \in P : \A j \in P : j <= m
<1>1. PICK T : T = {n - i : i \in P}
  OBVIOUS
<1>2. T \subseteq Nat /\ T # {}
  <2>1. \A i \in 1 .. n : n - i \in Nat
    OBVIOUS
  <2>2. \A x \in T : x \in Nat
    BY <1>1, <2>1
  <2>3. PICK i : i \in P
    OBVIOUS
  <2>4. n - i \in T
    BY <1>1, <2>3
  <2> QED
    BY <2>2, <2>4
<1>3. PICK R : R = OpToRel(<, Nat)
  OBVIOUS
<1>4. IsWellFoundedOn(R, Nat)
  BY <1>3, NatLessThanWellFounded
<1>5. PICK x \in T : \A y \in T : ~(<<y, x>> \in R)
  BY <1>2, <1>4, WFMin
<1>6. \A y \in T : y < x => <<y, x>> \in R
  BY <1>2, <1>3 DEF OpToRel
<1>7. PICK m \in P : x = n - m
  BY <1>1
<1>8. ASSUME NEW j \in P
      PROVE  j <= m
  <2>1. n - j \in T /\ ~(n - j < x)
    BY <1>1, <1>5, <1>6
  <2> QED
    BY <1>7, <2>1
<1> QED
  BY <1>8

(* LastPassed is the last of the events that the cursor has passed.        *)
LEMMA LastIsLast ==
    ASSUME SyncInv, cursor <= Len(log), NEW s \in ServerIds, PassedEvents(s) # {}
    PROVE  LastOf(s, LastPassed(s), cursor) /\ LastPassed(s) \in DOMAIN log
<1>1. /\ cursor \in Nat /\ Len(log) \in Nat /\ DOMAIN log = 1 .. Len(log)
  BY MirrorTypes
<1>2. PassedEvents(s) = {i \in 1 .. cursor : log[i].rid = s}
  BY <1>1 DEF PassedEvents
<1>3. \E m \in PassedEvents(s) : \A j \in PassedEvents(s) : j <= m
  <2>1. PICK P \in SUBSET (1 .. cursor) : P = PassedEvents(s)
    BY <1>2
  <2>2. PICK n \in Nat : n = cursor
    BY <1>1
  <2>3. \E m \in P : \A j \in P : j <= m
    BY <2>1, <2>2, LargestExists
  <2> QED
    BY <2>1, <2>3
<1>4. PICK m : m = LastPassed(s)
  OBVIOUS
<1>5. m \in PassedEvents(s) /\ \A j \in PassedEvents(s) : j <= m
  BY <1>3, <1>4 DEF LastPassed
<1> QED
  BY <1>1, <1>2, <1>4, <1>5 DEF LastOf

(* Content and cursor move together: whatever the cursor has passed is in  *)
(* the mirror, at its revision or a later one, when the cycles of the      *)
(* worker and of sync_now do not overlap and no answer is lost.            *)
(* apply_changes_page: the page and the cursor are one transaction; a row  *)
(* at the page's revision or later is left alone because what put it there *)
(* was an ack or a conflict head, which the server's revisions order after *)
(* everything pulled.                                                      *)
THEOREM MirrorCovers ==
    Undisturbed => (SyncSpec => []MirrorCoversCursor)
<1>1. Undisturbed /\ SyncInv /\ FeedInv /\ MirrorInv /\ [SyncNext]_syncVars
        => MirrorInv'
  BY SyncStepSafe, FeedStep, MirrorStep
<1>2. SyncInv /\ MirrorInv => MirrorCoversCursor
  <2> SUFFICES ASSUME SyncInv, MirrorInv, NEW s \in ServerIds, PassedEvents(s) # {},
                      log[LastPassed(s)].op = "upsert", InTable(s)
               PROVE  \E k \in Matches(s) : row[k].rev >= log[LastPassed(s)].rev
    BY DEF MirrorCoversCursor
  <2>1. PICK i : i = LastPassed(s)
    OBVIOUS
  <2>2. i \in DOMAIN log /\ LastOf(s, i, cursor)
    BY <2>1, LastIsLast DEF MirrorInv, CoverInv
  <2>3. PICK k \in RowIds : row[k].remoteId = s /\ row[k].rev >= log[i].rev
    BY <2>1, <2>2 DEF MirrorInv, CoverInv
  <2>4. Present(k)
    BY <2>3, TypesAssumption DEF SyncInv, StoreInv, RowsWellFormed
  <2> QED
    BY <2>1, <2>3, <2>4 DEF Matches
<1>3. ASSUME Undisturbed
      PROVE  SyncSpec => []MirrorCoversCursor
  <2>1. SyncInv /\ FeedInv /\ MirrorInv /\ [SyncNext]_syncVars => MirrorInv'
    BY <1>1, <1>3
  <2> QED
    BY <1>2, <2>1, MirrorStarts, SyncInvariant, FeedTellsHeads, PTL DEF SyncSpec
<1> QED
  BY <1>3

-----------------------------------------------------------------------------
(* What the mirror shows.  When nobody gives anything up, neither the user *)
(* (who would delete, or take the remote side of a conflict) nor the       *)
(* browser (which would purge), the mirror follows deletions and packages  *)
(* too.                                                                    *)
NothingGivenUp ==
    /\ Undisturbed
    /\ "delete" \notin UserOps /\ "keep_remote" \notin UserOps
    /\ "purge" \notin RestOps

(* Revision rev of skill s is where the skill is.                          *)
AtHead(s, rev) == InTable(s) /\ skill[s].rev = rev

(* Revision rev of skill s is a deletion.                                  *)
Deletion(s, rev) ==
    \E i \in DOMAIN log : log[i] = [rid |-> s, rev |-> rev, op |-> "delete"]

Rejected == {"permission_denied", "permanent_error"}

EditsOnly ==
    /\ \A s \in ServerIds : skill[s].status # "purged"
    /\ \A k \in RowIds : \A i \in DOMAIN outbox[k] : outbox[k][i].op # "delete"

(* A row without work of its own shows the package of its revision and is  *)
(* not behind a deletion that the cursor has passed.                       *)
RowExact(k) ==
    \A s \in ServerIds : row[k].remoteId = s /\ Unacked(k) = {} =>
        /\ ~Deletion(s, row[k].rev)
        /\ AtHead(s, row[k].rev) => row[k].cur = skill[s].pkg
        /\ \A i \in DOMAIN log :
              LastOf(s, i, cursor) /\ log[i].op = "delete"
                => row[k].rev > log[i].rev

(* The last mutation of a chain that nothing has rejected is what the row  *)
(* shows.                                                                  *)
LocalExact(k) ==
    Unacked(k) # {}
      /\ (\A i \in DOMAIN outbox[k] : outbox[k][i].state \notin Rejected)
        => /\ row[k].state \in {"dirty", "conflict"}
           /\ outbox[k][Len(outbox[k])].payload = row[k].cur

PayloadOf(r) ==
    \A k \in RowIds : \A i \in DOMAIN outbox[k] :
        outbox[k][i].id = r.id => outbox[k][i].payload = r.payload

AnswerExact(r, a) ==
    a.status = "acked" =>
        /\ ~Deletion(a.rid, a.rev)
        /\ AtHead(a.rid, a.rev) => skill[a.rid].pkg = r.payload

PageExact(c) ==
    c.op = "upsert" /\ AtHead(c.rid, c.rev) => c.pkg = skill[c.rid].pkg

InHand(w) ==
    /\ w.pc \in {"sent", "replied"} => PayloadOf(w.req)
    /\ w.pc = "replied" => AnswerExact(w.req, w.resp)
    /\ w.pc = "page" => PageExact(w.page.change)

ExactInv ==
    /\ EditsOnly
    /\ \A k \in RowIds : RowExact(k)
    /\ \A k \in RowIds : LocalExact(k)
    /\ \A t \in Threads : InHand(thread[t])

-----------------------------------------------------------------------------
(* Behind a revision that was known nothing changes.                       *)
LEMMA KnownStays ==
    ASSUME SyncInv, FeedInv, FeedGrows, EditsOnly',
           NEW s \in ServerIds, NEW rev \in Nat, Known(s, rev)
    PROVE  /\ Deletion(s, rev)' => Deletion(s, rev)
           /\ AtHead(s, rev)' => AtHead(s, rev) /\ skill'[s].pkg = skill[s].pkg
<1>1. /\ skill[s].status # "absent" /\ (InTable(s) => rev <= skill[s].rev)
      /\ skill[s].rev \in Nat
  BY MirrorTypes DEF Known
<1>2. /\ InTable(s)' => InTable(s) /\ skill[s].rev <= skill'[s].rev
      /\ InTable(s)' /\ skill'[s].rev = skill[s].rev
           => skill'[s].pkg = skill[s].pkg
      /\ \A i \in DOMAIN log : i \in DOMAIN log' /\ log'[i] = log[i]
  BY <1>1 DEF FeedGrows
<1>3. ASSUME NEW i \in DOMAIN log' \ DOMAIN log, log'[i].rid = s
      PROVE  log'[i].rev # rev
  <2>1. \/ skill[s].status = "absent" \/ skill'[s].status = "purged"
        \/ InTable(s) /\ skill[s].rev < log'[i].rev
    BY <1>3 DEF FeedGrows
  <2>2. InTable(s) /\ skill[s].rev < log'[i].rev
    BY <1>1, <2>1 DEF EditsOnly
  <2> QED
    BY <1>1, <2>2
<1>4. Deletion(s, rev)' => Deletion(s, rev)
  BY <1>2, <1>3 DEF Deletion
<1>5. AtHead(s, rev)' => AtHead(s, rev) /\ skill'[s].pkg = skill[s].pkg
  BY <1>1, <1>2 DEF AtHead, InTable
<1> QED
  BY <1>4, <1>5

(* A row that stays the same mirror stays exact.                           *)
LEMMA RowStays ==
    ASSUME SyncInv, SyncInv', FeedInv, FeedGrows, KnownInv, EditsOnly',
           cursor <= Len(log), cursor' = cursor,
           NEW k \in RowIds, RowExact(k),
           row'[k].remoteId = row[k].remoteId, row'[k].rev = row[k].rev,
           Unacked(k)' = {} => Unacked(k) = {} /\ row'[k].cur = row[k].cur
    PROVE  RowExact(k)'
<1> SUFFICES ASSUME NEW s \in ServerIds, row'[k].remoteId = s, Unacked(k)' = {}
             PROVE  /\ ~Deletion(s, row[k].rev)'
                    /\ AtHead(s, row[k].rev)' => row'[k].cur = skill'[s].pkg
                    /\ \A i \in DOMAIN log' :
                          LastOf(s, i, cursor)' /\ log'[i].op = "delete"
                            => row'[k].rev > log'[i].rev
  BY DEF RowExact
<1>1. PICK rev \in Nat : rev = row[k].rev /\ row'[k].rev = rev
  BY MirrorTypes
<1>2. s # None /\ row[k].remoteId = s /\ Unacked(k) = {} /\ row'[k].cur = row[k].cur
  BY TypesAssumption
<1>3. Known(s, rev)
  BY <1>1, <1>2 DEF KnownInv
<1>4. /\ ~Deletion(s, rev)
      /\ AtHead(s, rev) => row[k].cur = skill[s].pkg
      /\ \A i \in DOMAIN log :
            LastOf(s, i, cursor) /\ log[i].op = "delete" => rev > log[i].rev
  BY <1>1, <1>2 DEF RowExact
<1>5. ~Deletion(s, rev)' /\ (AtHead(s, rev)' => row'[k].cur = skill'[s].pkg)
  BY <1>2, <1>3, <1>4, KnownStays
<1>6. ASSUME NEW i \in DOMAIN log', LastOf(s, i, cursor)', log'[i].op = "delete"
      PROVE  rev > log'[i].rev
  <2>1. /\ cursor \in Nat /\ Len(log) \in Nat /\ DOMAIN log = 1 .. Len(log)
        /\ \A j \in DOMAIN log : j \in DOMAIN log' /\ log'[j] = log[j]
    BY MirrorTypes DEF FeedGrows
  <2>2. i \in 1 .. cursor /\ log'[i].rid = s
    BY <1>6 DEF LastOf
  <2>3. \A j \in 1 .. cursor : j \in DOMAIN log /\ log'[j] = log[j]
    BY <2>1
  <2>4. \A j \in (i + 1) .. cursor : j \in 1 .. cursor
    BY <2>1, <2>2
  <2>5. LastOf(s, i, cursor) /\ i \in DOMAIN log /\ log[i] = log'[i]
    BY <1>6, <2>2, <2>3, <2>4 DEF LastOf
  <2> QED
    BY <1>4, <1>6, <2>5
<1> QED
  BY <1>1, <1>5, <1>6 DEF Deletion, AtHead, InTable

(* Chain k keeps its mutations, and which of them are acked or rejected.   *)
SameChain(k) ==
    /\ DOMAIN outbox'[k] = DOMAIN outbox[k]
    /\ \A i \in DOMAIN outbox[k] :
          /\ outbox'[k][i].id = outbox[k][i].id
          /\ outbox'[k][i].op = outbox[k][i].op
          /\ outbox'[k][i].payload = outbox[k][i].payload
          /\ outbox'[k][i].state = "acked" <=> outbox[k][i].state = "acked"
          /\ outbox'[k][i].state \in Rejected <=> outbox[k][i].state \in Rejected

LEMMA ChainUnacked ==
    ASSUME NEW k, SameChain(k)
    PROVE  Unacked(k)' = Unacked(k)
BY DEF SameChain, Unacked

LEMMA LocalStays ==
    ASSUME SyncInv, SyncInv', NEW k \in RowIds, LocalExact(k), SameChain(k),
           row'[k].state = row[k].state \/ row'[k].state = "conflict",
           row'[k].cur = row[k].cur
    PROVE  LocalExact(k)'
<1> SUFFICES ASSUME Unacked(k)' # {},
                    \A i \in DOMAIN outbox'[k] : outbox'[k][i].state \notin Rejected
             PROVE  /\ row'[k].state \in {"dirty", "conflict"}
                    /\ outbox'[k][Len(outbox'[k])].payload = row'[k].cur
  BY DEF LocalExact
<1>1. /\ outbox[k] \in Seq(Mutations) /\ outbox'[k] \in Seq(Mutations)
  BY DEF SyncInv, StoreInv, StoreTypeOK
<1>2. /\ Unacked(k) # {}
      /\ \A i \in DOMAIN outbox[k] : outbox[k][i].state \notin Rejected
  BY ChainUnacked DEF SameChain
<1>3. /\ row[k].state \in {"dirty", "conflict"}
      /\ outbox[k][Len(outbox[k])].payload = row[k].cur
  BY <1>2 DEF LocalExact
<1>4. Len(outbox'[k]) = Len(outbox[k])
  BY <1>1 DEF SameChain
<1>5. PICK n : n = Len(outbox[k])
  OBVIOUS
<1>6. n \in DOMAIN outbox[k]
  <2>1. PICK j : j \in DOMAIN outbox[k]
    BY <1>2 DEF Unacked
  <2> QED
    BY <1>1, <1>5, <2>1
<1>7. outbox'[k][n].payload = outbox[k][n].payload
  BY <1>6 DEF SameChain
<1> QED
  BY <1>3, <1>4, <1>5, <1>7

(* Entries that move between states of work in progress.                   *)
LEMMA MovedChains ==
    ASSUME SyncInv, NEW entries, NEW st \in {"in_flight", "retryable_error"},
           outbox' = Moved(entries, st),
           \A p \in entries : outbox[p[1]][p[2]].state \in
              {"pending", "retryable_error", "in_flight", "retry_later"}
    PROVE  \A k \in RowIds : SameChain(k)
<1>a. \A k \in RowIds :
         /\ DOMAIN outbox'[k] = DOMAIN outbox[k]
         /\ \A i \in DOMAIN outbox[k] :
               /\ outbox'[k][i].id = outbox[k][i].id
               /\ outbox'[k][i].op = outbox[k][i].op
               /\ outbox'[k][i].base = outbox[k][i].base
               /\ outbox'[k][i].payload = outbox[k][i].payload
               /\ outbox'[k][i].ack = outbox[k][i].ack
               /\ <<k, i>> \in entries => outbox'[k][i].state = st
               /\ <<k, i>> \notin entries => outbox'[k][i] = outbox[k][i]
  <2>1. StoreInv
    BY DEF SyncInv
  <2>2. outbox' = Moved(entries, st)
    OBVIOUS
  <2> QED
    BY <2>1, <2>2, MovedEntries
<1> SUFFICES ASSUME NEW k \in RowIds
             PROVE  SameChain(k)
  OBVIOUS
<1>0. /\ DOMAIN outbox'[k] = DOMAIN outbox[k]
      /\ \A i \in DOMAIN outbox[k] :
            /\ outbox'[k][i].id = outbox[k][i].id
            /\ outbox'[k][i].op = outbox[k][i].op
            /\ outbox'[k][i].payload = outbox[k][i].payload
            /\ <<k, i>> \in entries => outbox'[k][i].state = st
            /\ <<k, i>> \notin entries => outbox'[k][i] = outbox[k][i]
  BY <1>a
<1>1. DOMAIN outbox'[k] = DOMAIN outbox[k]
  BY <1>0
<1>2. ASSUME NEW i \in DOMAIN outbox[k]
      PROVE  /\ outbox'[k][i].id = outbox[k][i].id
             /\ outbox'[k][i].op = outbox[k][i].op
             /\ outbox'[k][i].payload = outbox[k][i].payload
             /\ outbox'[k][i].state = "acked" <=> outbox[k][i].state = "acked"
             /\ outbox'[k][i].state \in Rejected
                  <=> outbox[k][i].state \in Rejected
  <2>1. /\ outbox'[k][i].id = outbox[k][i].id
        /\ outbox'[k][i].op = outbox[k][i].op
        /\ outbox'[k][i].payload = outbox[k][i].payload
    BY <1>0
  <2>2. CASE <<k, i>> \in entries
    <3>1. outbox'[k][i].state = st
      BY <2>2, <1>0
    <3>2. outbox[k][i].state \in
             {"pending", "retryable_error", "in_flight", "retry_later"}
      <4>1. PICK p \in entries : p = <<k, i>>
        BY <2>2
      <4>2. p[1] = k /\ p[2] = i
        BY <4>1
      <4> QED
        BY <4>2
    <3> QED
      BY <2>1, <3>1, <3>2 DEF Rejected
  <2>3. CASE <<k, i>> \notin entries
    <3>1. outbox'[k][i] = outbox[k][i]
      BY <2>3, <1>0
    <3> QED
      BY <3>1
  <2> QED
    BY <2>2, <2>3
<1> QED
  BY <1>1, <1>2 DEF SameChain

LEMMA RetriedChains ==
    ASSUME SyncInv, NEW k \in RowIds, NEW i \in DOMAIN outbox[k],
           \/ /\ ApplyTransportError(k, i)
              /\ outbox[k][i].state \in {"in_flight", "pending"}
           \/ BackoffElapses(k, i)
    PROVE  /\ \A l \in RowIds : SameChain(l)
           /\ row' = row /\ cursor' = cursor
<1>1. /\ row' = row /\ cursor' = cursor
      /\ \A l \in RowIds \ {k} : outbox'[l] = outbox[l]
      /\ DOMAIN outbox'[k] = DOMAIN outbox[k]
      /\ SameMutation(outbox[k][i], outbox'[k][i])
      /\ outbox'[k][i].state \in {"retry_later", "retryable_error"}
      /\ outbox[k][i].state # "acked"
      /\ \A j \in DOMAIN outbox[k] \ {i} : outbox'[k][j] = outbox[k][j]
  BY RetryEntries DEF SyncInv
<1>2. outbox[k][i].state \notin Rejected
  BY DEF BackoffElapses, Rejected
<1>3. outbox'[k][i].state \notin Rejected /\ outbox'[k][i].state # "acked"
  BY <1>1 DEF Rejected
<1>4. SameChain(k)
  BY <1>1, <1>2, <1>3 DEF SameChain, SameMutation
<1>5. \A l \in RowIds \ {k} : SameChain(l)
  BY <1>1 DEF SameChain
<1> QED
  BY <1>1, <1>4, <1>5

(* The steps of a thread that neither apply an answer nor a page.          *)
LEMMA ChainsStay ==
    ASSUME SyncInv, NEW t \in Threads,
           \/ StartCycle(t) \/ Submit(t) \/ ServerReplies(t) \/ FetchPage(t)
           \/ UploadFails(t) \/ SessionRefused(t) \/ AckRollsBack(t)
           \/ ReleaseTail(t) \/ PullFails(t)
    PROVE  \A k \in RowIds : SameChain(k)
<1>1. outbox' = outbox => \A k \in RowIds : SameChain(k)
  BY DEF SameChain
<1>2. CASE StartCycle(t)
  <2>1. PICK batch \in SUBSET Dispatchable : outbox' = Moved(batch, "in_flight")
    BY <1>2, CycleStarts
  <2>2. \A p \in batch : outbox[p[1]][p[2]].state \in
           {"pending", "retryable_error", "in_flight", "retry_later"}
    BY DEF Dispatchable, StateOf
  <2> QED
    BY <2>1, <2>2, MovedChains
<1>3. CASE Submit(t) \/ ServerReplies(t) \/ FetchPage(t)
  BY <1>1, <1>3 DEF Submit, ServerReplies, FetchPage, storeVars
<1>4. CASE \/ UploadFails(t) \/ SessionRefused(t) \/ AckRollsBack(t)
           \/ ReleaseTail(t) \/ PullFails(t)
  <2>1. PICK v \in ThreadStates : v = thread[t] /\ ThreadOK(v)
    BY DEF SyncInv, ThreadInv
  <2>2. \/ outbox' = outbox
        \/ \E p \in v.batch : ApplyTransportError(p[1], IndexOf(p[1], p[2]))
        \/ ReleaseInFlight({p[2] : p \in v.batch})
    BY <1>4, <2>1, ThreadTurns
  <2>3. ASSUME NEW p \in v.batch, ApplyTransportError(p[1], IndexOf(p[1], p[2]))
        PROVE  \A k \in RowIds : SameChain(k)
    <3>1. PICK k, i : k = p[1] /\ i = IndexOf(k, p[2])
      OBVIOUS
    <3>2. Claimed(k, p[2])
      BY <2>1, <3>1 DEF ThreadOK
    <3>3. k \in RowIds /\ i \in DOMAIN outbox[k] /\ outbox[k][i].state = "in_flight"
      BY <3>1, <3>2, FoundClaim DEF SyncInv
    <3>4. ApplyTransportError(k, i)
      BY <2>3, <3>1
    <3> QED
      BY <3>3, <3>4, RetriedChains
  <2>4. ASSUME ReleaseInFlight({p[2] : p \in v.batch})
        PROVE  \A k \in RowIds : SameChain(k)
    <3>1. PICK tail : tail = {p \in InFlight :
                                 outbox[p[1]][p[2]].id \in {q[2] : q \in v.batch}}
      OBVIOUS
    <3>2. outbox' = Moved(tail, "retryable_error")
      BY <2>4, <3>1 DEF ReleaseInFlight
    <3>3. \A p \in tail : outbox[p[1]][p[2]].state \in
             {"pending", "retryable_error", "in_flight", "retry_later"}
      BY <3>1 DEF InFlight, StateOf
    <3> QED
      BY <3>2, <3>3, MovedChains
  <2> QED
    BY <1>1, <2>2, <2>3, <2>4
<1> QED
  BY <1>2, <1>3, <1>4

(* Without a purge no request makes a skill a purged one.                  *)
LEMMA NothingPurged ==
    ASSUME ServerInv, NEW s, NEW x \in ServerIds, skill[x].status # "purged",
           \/ \E slug, hash : CreateSkill(s, slug, hash)
           \/ \E hash : UpdateSkill(s, hash)
           \/ TouchMetadata(s) \/ SoftDelete(s) \/ RestoreSkill(s)
    PROVE  skill'[x].status # "purged"
<1>1. skill \in [ServerIds -> Skills] /\ skill[x] \in Skills
  BY DEF ServerInv
<1>2. CASE s # x
  BY <1>1, <1>2 DEF CreateSkill, UpdateSkill, TouchMetadata, SoftDelete, RestoreSkill
<1>3. CASE s = x
  <2>1. CASE \E slug, hash : CreateSkill(x, slug, hash)
    BY <1>1, <2>1 DEF CreateSkill
  <2>2. CASE \E hash : UpdateSkill(x, hash)
    BY <1>1, <2>2 DEF UpdateSkill, Skills
  <2>3. CASE TouchMetadata(x) \/ SoftDelete(x) \/ RestoreSkill(x)
    BY <1>1, <2>3 DEF TouchMetadata, SoftDelete, RestoreSkill, Skills
  <2> QED
    BY <1>3, <2>1, <2>2, <2>3
<1> QED
  BY <1>2, <1>3

LEMMA SkillsRemain ==
    ASSUME SyncInv, NothingGivenUp, [SyncNext]_syncVars,
           NEW x \in ServerIds, skill[x].status # "purged"
    PROVE  skill'[x].status # "purged"
<1>0. ServerInv
  BY DEF SyncInv
<1>1. CASE skill' = skill
  BY <1>1
<1>2. ASSUME NEW r, Serve(r)
      PROVE  skill'[x].status # "purged"
  <2>1. CASE skill' = skill
    BY <1>1, <2>1
  <2>2. CASE HandleCreate(r)
    BY <1>0, <1>1, <2>2, NothingPurged DEF HandleCreate, Refuse
  <2>3. CASE HandleUpdate(r)
    BY <1>0, <1>1, <2>3, NothingPurged DEF HandleUpdate, Refuse
  <2>4. CASE HandleDelete(r)
    BY <1>0, <1>1, <2>4, NothingPurged DEF HandleDelete, Refuse
  <2> QED
    BY <1>2, <2>1, <2>2, <2>3, <2>4 DEF Serve, SubmitMutation, ApplySyncMutation
<1>3. CASE Browser
  <2>1. PICK s \in ServerIds :
           \/ \E hash \in Hashes : RestCreate(s, hash) \/ RestUpdate(s, hash)
           \/ RestDelete(s) \/ RestRestore(s) \/ RestPurge(s) \/ RestTouch(s)
    BY <1>3 DEF Browser, RestNext
  <2>2. ~RestPurge(s)
    BY DEF RestPurge, Rest, NothingGivenUp
  <2>3. \/ \E slug, hash : CreateSkill(s, slug, hash)
        \/ \E hash : UpdateSkill(s, hash)
        \/ TouchMetadata(s) \/ SoftDelete(s) \/ RestoreSkill(s)
    BY <2>1, <2>2 DEF RestCreate, RestUpdate, RestDelete, RestRestore, RestTouch
  <2> QED
    BY <1>0, <2>3, NothingPurged
<1>4. ASSUME NEW t \in Threads,
             \/ StartCycle(t) \/ Submit(t) \/ ApplyReply(t) \/ AckRollsBack(t)
             \/ ReleaseTail(t) \/ Pull(t) \/ Failure(t)
      PROVE  skill' = skill
  BY <1>4 DEF StartCycle, Submit, ApplyReply, AckRollsBack, ReleaseTail, Pull,
     FetchPage, ApplyPage, Failure, UploadFails, Timeout, SessionRefused,
     PullFails, serverVars
<1>5. CASE Restart \/ UserCommand \/ Backoff \/ UNCHANGED syncVars
  BY <1>1, <1>5 DEF Restart, UserCommand, Backoff, serverVars, syncVars
<1>6. CASE LateDelivery
  BY <1>2, <1>6 DEF LateDelivery
<1>7. ASSUME NEW t \in Threads, ServerReplies(t)
      PROVE  skill'[x].status # "purged"
  BY <1>2, <1>7 DEF ServerReplies
<1> QED
  BY <1>1, <1>3, <1>4, <1>5, <1>6, <1>7 DEF SyncNext, Push

(* What a command of the user who gives nothing up does: it relabels a     *)
(* clean row, or appends what the row then shows.                          *)
Shown(k) ==
    /\ row'[k].state = "dirty"
    /\ \E n \in DOMAIN outbox'[k] :
          /\ n = Len(outbox'[k]) /\ outbox'[k][n].state = "pending"
          /\ outbox'[k][n].payload = row'[k].cur
          /\ outbox'[k][n].op # "delete" /\ outbox'[k][n].id = nextId
          /\ \A j \in DOMAIN outbox'[k] \ {n} :
                j \in DOMAIN outbox[k] /\ SameMutation(outbox[k][j], outbox'[k][j])

LEMMA AppendShows ==
    ASSUME SyncInv, NEW k \in RowIds, NEW s \in {outbox[k], Superseded(k)},
           NEW op, op # "delete", NEW hash, row'[k].state = "dirty",
           row'[k].cur = hash, NEW base, NewMutation(op, base, hash) \in Mutations,
           outbox'[k] = Append(s, NewMutation(op, base, hash))
    PROVE  Shown(k)
<1>1. outbox[k] \in Seq(Mutations) /\ StoreInv
  BY DEF SyncInv, StoreInv, StoreTypeOK
<1>2. PICK m \in Mutations : m = NewMutation(op, base, hash)
  OBVIOUS
<1>3. m.id = nextId /\ m.op = op /\ m.payload = hash /\ m.state = "pending"
  BY <1>2 DEF NewMutation
<1>4. /\ s \in Seq(Mutations) /\ DOMAIN s = DOMAIN outbox[k]
      /\ \A i \in DOMAIN outbox[k] : SameMutation(outbox[k][i], s[i])
  <2>1. CASE s = outbox[k]
    BY <1>1, <2>1 DEF SameMutation
  <2>2. CASE s = Superseded(k)
    BY <1>1, <2>2, SupersededChain, SupersededEntries
  <2> QED
    BY <2>1, <2>2
<1>5. PICK n : n = Len(s) + 1
  OBVIOUS
<1>6. /\ DOMAIN outbox'[k] = DOMAIN s \cup {n}
      /\ \A i \in DOMAIN s : outbox'[k][i] = s[i]
      /\ outbox'[k][n] = m
  BY <1>2, <1>4, <1>5, ExtendedChain
<1>7. n = Len(outbox'[k])
  <2>1. outbox'[k] = Append(s, m)
    BY <1>2
  <2> QED
    BY <1>4, <1>5, <2>1
<1> QED
  BY <1>3, <1>4, <1>6, <1>7 DEF Shown

LEMMA CommandsKeep ==
    ASSUME SyncInv, NothingGivenUp, UserCommand
    PROVE  \E k \in RowIds :
              /\ \A l \in RowIds \ {k} : row'[l] = row[l] /\ outbox'[l] = outbox[l]
              /\ \/ /\ outbox'[k] = outbox[k] /\ row'[k].cur = row[k].cur
                    /\ row[k].state \in {"remote_only", "synced"}
                 \/ Shown(k)
<1>1. PICK k \in RowIds :
        \/ \E hash \in Hashes : CommitSkillEdit(k, hash, row[k].rev)
        \/ ResolveKeepLocal(k)
        \/ MarkSkillHydrated(k, row[k].cur)
        \/ ClaimSkillForEviction(k, row[k].cur)
  BY DEF UserCommand, NothingGivenUp
<1>2. /\ row \in [RowIds -> Rows] /\ row[k] \in Rows /\ row[k].rev \in Nat
      /\ outbox \in [RowIds -> Seq(Mutations)]
      /\ nextId \in Nat /\ 1 <= nextId /\ MaxMutations \in Nat
      /\ Present(k) => row[k].cur \in Hashes
  BY TypesAssumption DEF SyncInv, StoreInv, StoreTypeOK, Rows, RowsWellFormed,
     UniqueIds
<1>3. ASSUME NEW hash \in Hashes, NEW op \in {"create", "update"},
             nextId <= MaxMutations
      PROVE  NewMutation(op, row[k].rev, hash) \in Mutations
  BY <1>2, <1>3 DEF NewMutation, Mutations, MutStates
<1>4. ASSUME NEW hash \in Hashes, CommitSkillEdit(k, hash, row[k].rev)
      PROVE  /\ \A l \in RowIds \ {k} : row'[l] = row[l] /\ outbox'[l] = outbox[l]
             /\ Shown(k)
  <2>1. PICK op \in {"create", "update"} :
           op = IF Present(k) THEN "update" ELSE "create"
    OBVIOUS
  <2>2. outbox' = [outbox EXCEPT ![k] =
                     Append(outbox[k], NewMutation(op, row[k].rev, hash))]
    BY <1>4, <2>1 DEF CommitSkillEdit
  <2>3. nextId <= MaxMutations
    BY <1>4 DEF CommitSkillEdit
  <2>4. /\ \A l \in RowIds \ {k} : row'[l] = row[l]
        /\ row'[k].state = "dirty" /\ row'[k].cur = hash
    BY <1>2, <1>4 DEF CommitSkillEdit, Rows
  <2>5. PICK base : base = row[k].rev
    OBVIOUS
  <2>6. /\ outbox'[k] = Append(outbox[k], NewMutation(op, base, hash))
        /\ \A l \in RowIds \ {k} : outbox'[l] = outbox[l]
    BY <1>2, <2>2, <2>5
  <2>7. PICK s \in {outbox[k], Superseded(k)} : s = outbox[k]
    OBVIOUS
  <2>8. Shown(k)
    BY <1>3, <2>3, <2>4, <2>5, <2>6, <2>7, AppendShows
  <2> QED
    BY <2>4, <2>6, <2>8
<1>5. ASSUME ResolveKeepLocal(k)
      PROVE  /\ \A l \in RowIds \ {k} : row'[l] = row[l] /\ outbox'[l] = outbox[l]
             /\ Shown(k)
  <2>1. PICK hash \in Hashes, op \in {"create", "update"} :
           hash = row[k].cur /\ op = "update"
    BY <1>2, <1>5 DEF ResolveKeepLocal, Present
  <2>2. nextId <= MaxMutations
    BY <1>5 DEF ResolveKeepLocal
  <2>3. /\ \A l \in RowIds \ {k} : row'[l] = row[l]
        /\ row'[k].state = "dirty" /\ row'[k].cur = hash
    BY <1>2, <1>5, <2>1 DEF ResolveKeepLocal, Rows
  <2>4. PICK base : base = row[k].rev
    OBVIOUS
  <2>5. PICK s \in {outbox[k], Superseded(k)} : s = Superseded(k)
    OBVIOUS
  <2>6. outbox' = [outbox EXCEPT ![k] = Append(s, NewMutation(op, base, hash))]
    BY <1>5, <2>1, <2>4, <2>5 DEF ResolveKeepLocal
  <2>7. /\ outbox'[k] = Append(s, NewMutation(op, base, hash))
        /\ \A l \in RowIds \ {k} : outbox'[l] = outbox[l]
    BY <1>2, <2>6
  <2>8. Shown(k)
    BY <1>3, <2>1, <2>2, <2>3, <2>4, <2>7, AppendShows
  <2> QED
    BY <2>3, <2>7, <2>8
<1>6. ASSUME MarkSkillHydrated(k, row[k].cur) \/ ClaimSkillForEviction(k, row[k].cur)
      PROVE  /\ \A l \in RowIds \ {k} : row'[l] = row[l] /\ outbox'[l] = outbox[l]
             /\ outbox'[k] = outbox[k] /\ row'[k].cur = row[k].cur
             /\ row[k].state \in {"remote_only", "synced"}
  BY <1>2, <1>6 DEF MarkSkillHydrated, ClaimSkillForEviction, Rows
<1> QED
  BY <1>1, <1>4, <1>5, <1>6

(* A page that is applied, by what it does to the rows.                    *)
LEMMA PageSteps ==
    ASSUME SyncInv, NEW t \in Threads, ApplyPage(t)
    PROVE  \E p \in Pages, c \in Changes, w \in ThreadStates :
              /\ p = thread[t].page /\ c = p.change /\ thread[t].pc = "page"
              /\ thread' = [thread EXCEPT ![t] = w] /\ w.pc \in {"pull", "idle"}
              /\ UNCHANGED serverVars /\ cursor' = p.next
              /\ c.op = "none" => row' = row /\ outbox' = outbox
              /\ c.op # "none" =>
                   /\ c.rid \in ServerIds
                   /\ \E l \in RowIds : PageMoves(l, c.op, c.rid, c.rev, c.pkg)
<1>1. PICK p \in Pages, c \in Changes, w \in ThreadStates :
         /\ p = thread[t].page /\ c = p.change /\ thread[t].pc = "page"
         /\ c.op # "none" => c.rid \in ServerIds
         /\ c.op = "upsert" =>
              c.pkg \in Hashes /\ ApplyUpsert(c.rid, c.rev, c.pkg, p.next)
         /\ c.op = "delete" => ApplyTombstone(c.rid, c.rev, p.next)
         /\ c.op = "none" => ApplyEmptyPage(p.next)
         /\ thread' = [thread EXCEPT ![t] = w]
         /\ w.pc \in {"pull", "idle"}
         /\ UNCHANGED serverVars
  BY PageApplied
<1>2. /\ c.rev \in Nat /\ p.next \in Nat /\ c.op \in {"none", "upsert", "delete"}
      /\ StoreInv
  BY DEF Changes, Pages, SyncInv
<1>3. c.op = "none" => row' = row /\ outbox' = outbox /\ cursor' = p.next
  BY <1>1 DEF ApplyEmptyPage
<1>4. ASSUME c.op # "none"
      PROVE  /\ cursor' = p.next
             /\ \E l \in RowIds : PageMoves(l, c.op, c.rid, c.rev, c.pkg)
  <2>1. PICK rid, rev, hash, next : /\ rid = c.rid /\ rev = c.rev
                                    /\ hash = c.pkg /\ next = p.next
    OBVIOUS
  <2>2. cursor' = p.next /\ \E l \in RowIds : PageMoves(l, c.op, rid, rev, hash)
    <3>1. CASE c.op = "upsert"
      BY <1>1, <1>2, <2>1, <3>1, UpsertMoves DEF ApplyUpsert
    <3>2. CASE c.op = "delete"
      <4>1. ApplyTombstone(rid, rev, next) /\ rid \in ServerIds
        BY <1>1, <2>1, <3>2
      <4>2. \E l \in RowIds : PageMoves(l, "delete", rid, rev, hash)
        BY <1>2, <2>1, <4>1, TombstoneMoves
      <4> QED
        BY <2>1, <3>2, <4>1, <4>2 DEF ApplyTombstone
    <3> QED
      BY <1>2, <1>4, <3>1, <3>2
  <2> QED
    BY <2>1, <2>2
<1>5. /\ cursor' = p.next
      /\ c.op # "none" =>
           /\ c.rid \in ServerIds
           /\ \E l \in RowIds : PageMoves(l, c.op, c.rid, c.rev, c.pkg)
  BY <1>1, <1>3, <1>4
<1> QED
  BY <1>1, <1>3, <1>5

(* Entry j of chain k was there before the step, or is an edit just made.  *)
Kept(k, j) ==
    /\ j \in DOMAIN outbox[k]
    /\ outbox'[k][j].id = outbox[k][j].id
    /\ outbox'[k][j].op = outbox[k][j].op
    /\ outbox'[k][j].payload = outbox[k][j].payload

Made(k, j) == outbox'[k][j].id = nextId /\ outbox'[k][j].op # "delete"

(* The mutations of the chains stay what they are.                         *)
LEMMA EntriesStay ==
    ASSUME SyncInv, NothingGivenUp, [SyncNext]_syncVars
    PROVE  \A k \in RowIds : \A j \in DOMAIN outbox'[k] : Kept(k, j) \/ Made(k, j)
<1>1. \A k \in RowIds : outbox'[k] = outbox[k] \/ SameChain(k)
         => \A j \in DOMAIN outbox'[k] : Kept(k, j)
  BY DEF SameChain, Kept
<1>2. outbox' = outbox => \A k \in RowIds : \A j \in DOMAIN outbox'[k] : Kept(k, j)
  BY <1>1
<1>3. CASE Browser \/ LateDelivery \/ UNCHANGED syncVars
  BY <1>2, <1>3 DEF Browser, LateDelivery, storeVars, syncVars
<1>4. CASE UserCommand
  <2>1. PICK l \in RowIds :
           /\ \A k \in RowIds \ {l} : outbox'[k] = outbox[k]
           /\ outbox'[l] = outbox[l] \/ Shown(l)
    BY <1>4, CommandsKeep
  <2>2. ASSUME Shown(l), NEW j \in DOMAIN outbox'[l]
        PROVE  Kept(l, j) \/ Made(l, j)
    BY <2>2 DEF Shown, Kept, Made, SameMutation
  <2> QED
    BY <1>1, <2>1, <2>2
<1>5. CASE Backoff
  BY <1>1, <1>5, RetriedChains DEF Backoff
<1>6. ~Restart /\ \A t \in Threads : ~Timeout(t)
  BY DEF Restart, Timeout, Fail, NothingGivenUp, Undisturbed
<1>7. ASSUME NEW t \in Threads,
             \/ StartCycle(t) \/ Submit(t) \/ ServerReplies(t) \/ FetchPage(t)
             \/ UploadFails(t) \/ SessionRefused(t) \/ AckRollsBack(t)
             \/ ReleaseTail(t) \/ PullFails(t)
      PROVE  \A k \in RowIds : \A j \in DOMAIN outbox'[k] : Kept(k, j)
  BY <1>1, <1>7, ChainsStay
<1>8. ASSUME NEW t \in Threads, ApplyReply(t)
      PROVE  \A k \in RowIds : \A j \in DOMAIN outbox'[k] : Kept(k, j)
  <2>1. PICK r \in Requests, a \in Responses : \E i \in DOMAIN outbox[r.key] :
           Outcome(r, a, i) /\ a.status # "none"
    BY <1>8, AnswerApplied
  <2>2. PICK i \in DOMAIN outbox[r.key] : Outcome(r, a, i) /\ a.status # "none"
    BY <2>1
  <2>3. PICK k : k = r.key
    OBVIOUS
  <2>4. /\ k \in RowIds /\ \A l \in RowIds \ {k} : outbox'[l] = outbox[l]
        /\ DOMAIN outbox'[k] = DOMAIN outbox[k]
        /\ \A j \in DOMAIN outbox[k] \ {i} : outbox'[k][j] = outbox[k][j]
        /\ SameMutation(outbox[k][i], outbox'[k][i])
    BY <2>2, <2>3, OutcomeSettles
  <2>5. \A j \in DOMAIN outbox'[k] : Kept(k, j)
    BY <2>4 DEF SameMutation, Kept
  <2> QED
    BY <1>1, <2>4, <2>5
<1>9. ASSUME NEW t \in Threads, ApplyPage(t)
      PROVE  \A k \in RowIds : \A j \in DOMAIN outbox'[k] : Kept(k, j)
  <2>1. PICK c \in Changes :
           /\ c.op = "none" => outbox' = outbox
           /\ c.op # "none" =>
                \E l \in RowIds : PageMoves(l, c.op, c.rid, c.rev, c.pkg)
    BY <1>9, PageSteps
  <2>2. ASSUME NEW l \in RowIds, PageMoves(l, c.op, c.rid, c.rev, c.pkg)
        PROVE  \A k \in RowIds : outbox'[k] = outbox[k] \/ outbox'[k] = <<>>
    BY <2>2 DEF PageMoves
  <2>3. \A k \in RowIds : outbox'[k] = outbox[k] \/ outbox'[k] = <<>>
    BY <2>1, <2>2
  <2> QED
    BY <1>1, <2>3
<1> QED
  BY <1>3, <1>4, <1>5, <1>6, <1>7, <1>8, <1>9 DEF SyncNext, Push, Pull, Failure

LEMMA EditsStay ==
    ASSUME SyncInv, NothingGivenUp, [SyncNext]_syncVars, EditsOnly
    PROVE  EditsOnly'
<1>1. \A s \in ServerIds : skill'[s].status # "purged"
  BY SkillsRemain DEF EditsOnly
<1>2. \A k \in RowIds : \A i \in DOMAIN outbox'[k] : outbox'[k][i].op # "delete"
  BY EntriesStay DEF EditsOnly, Kept, Made
<1> QED
  BY <1>1, <1>2 DEF EditsOnly

(* A request goes on carrying the package of its mutation.                 *)
LEMMA PayloadStays ==
    ASSUME SyncInv, NothingGivenUp, [SyncNext]_syncVars, NEW r, r.id < nextId,
           PayloadOf(r)
    PROVE  PayloadOf(r)'
<1> SUFFICES ASSUME NEW k \in RowIds, NEW j \in DOMAIN outbox'[k],
                    outbox'[k][j].id = r.id
             PROVE  outbox'[k][j].payload = r.payload
  BY DEF PayloadOf
<1>1. nextId \in Nat
  BY DEF SyncInv, StoreInv, StoreTypeOK
<1>2. ~(nextId < nextId)
  BY <1>1
<1>3. Kept(k, j)
  BY <1>2, EntriesStay DEF Made
<1> QED
  BY <1>3 DEF Kept, PayloadOf

(* Every event of the log is of a revision that its skill has had.         *)
LEMMA EventKnown ==
    ASSUME SyncInv, FeedInv, NEW i \in DOMAIN log
    PROVE  Known(log[i].rid, log[i].rev)
<1>1. log[i].rid \in ServerIds /\ skill[log[i].rid].status # "absent"
  BY MirrorTypes DEF FeedInv
<1>2. InTable(log[i].rid) => log[i].rev <= skill[log[i].rid].rev
  BY <1>1, HeadIsLast
<1> QED
  BY <1>1, <1>2 DEF Known

(* A thread that does not move keeps exact what it has in hand.            *)
LEMMA HandStays ==
    ASSUME SyncInv, FeedInv, FeedGrows, NothingGivenUp, [SyncNext]_syncVars,
           EditsOnly', cursor <= Len(log), NEW t \in Threads,
           Working(thread[t]), InHand(thread[t]), thread'[t] = thread[t]
    PROVE  InHand(thread[t])'
<1>1. PICK w \in ThreadStates : w = thread[t] /\ ThreadOK(w)
  BY DEF SyncInv, ThreadInv
<1>2. Working(w) /\ InHand(w)
  BY <1>1
<1>3. ASSUME w.pc \in {"sent", "replied"}
      PROVE  PayloadOf(w.req)'
  <2>1. Sending(t)
    BY <1>1, <1>3 DEF Sending
  <2>2. PICK r \in Requests : r = w.req /\ r.id < nextId
    BY <1>1, <2>1, RequestEntry DEF RequestOK
  <2>3. PayloadOf(r)
    BY <1>2, <1>3, <2>2 DEF InHand
  <2> QED
    BY <2>2, <2>3, PayloadStays
<1>4. ASSUME w.pc = "replied"
      PROVE  AnswerExact(w.req, w.resp)'
  <2>1. PICK a \in Responses : a = w.resp
    BY DEF ThreadStates
  <2>2. AnswerOK(w.req, a) /\ AnswerExact(w.req, a)
    BY <1>2, <1>4, <2>1 DEF Working, InHand
  <2>3. CASE a.status = "acked"
    <3>1. PICK s, rev : s = a.rid /\ rev = a.rev
      OBVIOUS
    <3>2. s \in ServerIds /\ rev \in Nat /\ Known(s, rev)
      BY <2>2, <2>3, <3>1 DEF AnswerOK, Reaches, Responses
    <3>3. /\ Deletion(s, rev)' => Deletion(s, rev)
          /\ AtHead(s, rev)' => AtHead(s, rev) /\ skill'[s].pkg = skill[s].pkg
      BY <3>2, KnownStays
    <3>4. ~Deletion(s, rev)' /\ (AtHead(s, rev)' => skill'[s].pkg = w.req.payload)
      BY <2>2, <2>3, <3>1, <3>3 DEF AnswerExact
    <3> QED
      BY <2>1, <3>1, <3>4 DEF AnswerExact
  <2> QED
    BY <2>1, <2>3 DEF AnswerExact
<1>5. ASSUME w.pc = "page"
      PROVE  PageExact(w.page.change)'
  <2>1. PICK p \in Pages, c \in Changes : p = w.page /\ c = p.change
    BY <1>1, <1>5 DEF ThreadOK, Pages
  <2>2. PageOK(p) /\ PageExact(c)
    BY <1>2, <1>5, <2>1 DEF Working, InHand
  <2>3. CASE c.op = "upsert"
    <3>1. PICK s, rev : s = c.rid /\ rev = c.rev
      OBVIOUS
    <3>2. p.next \in DOMAIN log /\ log[p.next].rid = s /\ log[p.next].rev = rev
      <4>1. cursor \in Nat /\ Len(log) \in Nat /\ DOMAIN log = 1 .. Len(log)
        BY MirrorTypes
      <4> QED
        BY <2>1, <2>2, <2>3, <3>1, <4>1 DEF PageOK
    <3>3. s \in ServerIds /\ rev \in Nat /\ Known(s, rev)
      BY <3>2, EventKnown, MirrorTypes
    <3>4. AtHead(s, rev)' => AtHead(s, rev) /\ skill'[s].pkg = skill[s].pkg
      BY <3>3, KnownStays
    <3>5. AtHead(s, rev)' => c.pkg = skill'[s].pkg
      BY <2>2, <2>3, <3>1, <3>4 DEF PageExact
    <3> QED
      BY <2>1, <3>1, <3>5 DEF PageExact
  <2> QED
    BY <2>1, <2>3 DEF PageExact
<1>6. thread'[t] = w
  BY <1>1
<1>7. InHand(w)'
  BY <1>3, <1>4, <1>5 DEF InHand
<1> QED
  BY <1>6, <1>7 DEF InHand, PayloadOf, AnswerExact, PageExact, Deletion, AtHead,
     InTable

(* The answer of the moment is exact when it arrives.                      *)
LEMMA ReplyExact ==
    ASSUME SyncInv', FeedInv', NEW r, r.op # "delete", NEW a, AnswerNow(r, a)'
    PROVE  AnswerExact(r, a)'
<1> SUFFICES ASSUME a.status = "acked"
             PROVE  /\ ~Deletion(a.rid, a.rev)'
                    /\ AtHead(a.rid, a.rev)' => skill'[a.rid].pkg = r.payload
  BY DEF AnswerExact
<1>1. PICK s \in ServerIds :
         /\ s = a.rid /\ InTable(s)' /\ skill'[s].rev = a.rev
         /\ skill'[s].status # "deleted" /\ skill'[s].pkg = r.payload
  BY DEF AnswerNow, Live
<1>2. PICK h \in DOMAIN log' : IsHead(s, h)'
  BY <1>1 DEF FeedInv
<1>3. ASSUME NEW i \in DOMAIN log',
             log'[i] = [rid |-> s, rev |-> a.rev, op |-> "delete"]
      PROVE  FALSE
  <2>1. log'[i].rid = s /\ log'[i].rev = a.rev /\ log'[i].op = "delete"
    BY <1>3
  <2>2. log'[h].op = "upsert"
    BY <1>1, <1>2 DEF IsHead, HeadOp
  <2>3. i # h
    BY <2>1, <2>2
  <2>4. a.rev < a.rev /\ a.rev \in Nat
    <3>1. log'[i].rev < skill'[s].rev
      BY <1>2, <2>1, <2>3 DEF IsHead
    <3>2. skill'[s].rev \in Nat
      BY <1>1 DEF SyncInv, ServerInv, Skills
    <3> QED
      BY <1>1, <2>1, <3>1, <3>2
  <2> QED
    BY <2>4
<1>4. ~Deletion(s, a.rev)'
  BY <1>3 DEF Deletion
<1> QED
  BY <1>1, <1>4

(* list_changes ships the package that the skill has.                      *)
LEMMA FreshPageExact ==
    ASSUME NEW p, p = ListChanges(cursor)
    PROVE  PageExact(p.change)
<1>1. PICK c : c = p.change
  OBVIOUS
<1>2. c = NoChange \/ \E e : c = Project(e)
  BY <1>1 DEF ListChanges
<1>3. c = NoChange => c.op = "none"
  BY DEF NoChange
<1>4. ASSUME NEW e, c = Project(e), c.op = "upsert"
      PROVE  c.pkg = skill[c.rid].pkg
  BY <1>4 DEF Project
<1> QED
  BY <1>1, <1>2, <1>3, <1>4 DEF PageExact

(* What the threads have in hand stays exact.                              *)
LEMMA HandsStep ==
    ASSUME SyncInv, SyncInv', FeedInv, FeedInv', FeedGrows, NothingGivenUp,
           MirrorInv, EditsOnly, EditsOnly', [SyncNext]_syncVars,
           \A t \in Threads : InHand(thread[t])
    PROVE  \A t \in Threads : InHand(thread[t])'
<1>0. /\ WorkInv /\ ThreadInv /\ cursor <= Len(log) /\ Undisturbed /\ late = {}
      /\ UniqueIds
  BY DEF MirrorInv, CoverInv, FreshInv, SyncInv, NothingGivenUp
<1>1. thread' = thread => \A t \in Threads : InHand(thread[t])'
  BY <1>0, HandStays DEF WorkInv
<1>2. ASSUME NEW t \in Threads, NEW w, thread' = [thread EXCEPT ![t] = w],
             InHand(w)'
      PROVE  \A u \in Threads : InHand(thread[u])'
  <2>1. \A u \in Threads : thread'[u] = w
    BY <1>0, <1>2, OneThreadMoves
  <2>2. SUFFICES ASSUME NEW u \in Threads
                 PROVE  InHand(thread[u])'
    OBVIOUS
  <2>3. thread'[u] = w
    BY <2>1
  <2>4. thread'[u].pc \in {"sent", "replied"} => PayloadOf(thread[u].req)'
    BY <1>2, <2>3 DEF InHand, PayloadOf
  <2>5. thread'[u].pc = "replied" => AnswerExact(thread[u].req, thread[u].resp)'
    BY <1>2, <2>3 DEF InHand, AnswerExact, Deletion, AtHead, InTable
  <2>6. thread'[u].pc = "page" => PageExact(thread[u].page.change)'
    BY <1>2, <2>3 DEF InHand, PageExact, AtHead, InTable
  <2> QED
    BY <2>4, <2>5, <2>6 DEF InHand
<1>3. CASE Browser \/ UserCommand \/ Backoff \/ UNCHANGED syncVars
  BY <1>1, <1>3 DEF Browser, UserCommand, Backoff, syncVars
<1>4. ~LateDelivery /\ ~Restart /\ \A t \in Threads : ~Timeout(t)
  BY <1>0 DEF LateDelivery, Restart, Timeout, Fail, Undisturbed
<1>5. ASSUME NEW t \in Threads,
             \/ StartCycle(t) \/ ApplyReply(t) \/ ApplyPage(t)
             \/ UploadFails(t) \/ SessionRefused(t) \/ AckRollsBack(t)
             \/ ReleaseTail(t) \/ PullFails(t)
      PROVE  \A u \in Threads : InHand(thread[u])'
  <2>1. PICK w : /\ thread' = [thread EXCEPT ![t] = w]
                 /\ w.pc \notin {"sent", "replied", "page"}
    <3>1. CASE StartCycle(t)
      BY <3>1, CycleStarts
    <3>2. CASE ApplyReply(t)
      <4>1. \E w : /\ thread' = [thread EXCEPT ![t] = w]
                   /\ w.pc \in {"pull", "push", "release"}
        BY <3>2, AnswerApplied
      <4> QED
        BY <4>1
    <3>3. CASE ApplyPage(t)
      BY <3>3, PageSteps
    <3>4. CASE ~StartCycle(t) /\ ~ApplyReply(t) /\ ~ApplyPage(t)
      BY <1>5, <3>4, ThreadTurns
    <3> QED
      BY <3>1, <3>2, <3>3, <3>4
  <2>2. InHand(w)'
    BY <2>1 DEF InHand
  <2> QED
    BY <1>2, <2>1, <2>2
<1>6. ASSUME NEW t \in Threads, Submit(t)
      PROVE  \A u \in Threads : InHand(thread[u])'
  <2>1. PICK w \in ThreadStates : \E k \in RowIds : \E i \in DOMAIN outbox[k] :
           /\ thread' = [thread EXCEPT ![t] = w]
           /\ w.pc = "sent" /\ w.batch \subseteq thread[t].batch
           /\ w.req = Request(k, outbox[k][i])
           /\ w.req.id = outbox[k][i].id
           /\ w.req.payload = outbox[k][i].payload
           /\ <<k, outbox[k][i].id>> \in thread[t].batch
    BY <1>6, SubmitSends
  <2>2. PICK k \in RowIds : \E i \in DOMAIN outbox[k] :
           /\ thread' = [thread EXCEPT ![t] = w] /\ w.pc = "sent"
           /\ w.req.id = outbox[k][i].id
           /\ w.req.payload = outbox[k][i].payload
    BY <2>1
  <2>3. PICK i \in DOMAIN outbox[k] :
           /\ thread' = [thread EXCEPT ![t] = w] /\ w.pc = "sent"
           /\ w.req.id = outbox[k][i].id
           /\ w.req.payload = outbox[k][i].payload
    BY <2>2
  <2>4. outbox' = outbox
    BY <1>6 DEF Submit, storeVars
  <2>5. \A l \in RowIds : \A j \in DOMAIN outbox[l] :
           outbox[l][j].id = w.req.id => outbox[l][j].payload = w.req.payload
    BY <1>0, <2>3, SameId
  <2>6. PayloadOf(w.req)'
    BY <2>4, <2>5 DEF PayloadOf
  <2>7. InHand(w)'
    BY <2>3, <2>6 DEF InHand
  <2> QED
    BY <1>2, <2>3, <2>7
<1>7. ASSUME NEW t \in Threads, ServerReplies(t)
      PROVE  \A u \in Threads : InHand(thread[u])'
  <2>1. PICK r \in Requests, w \in ThreadStates : \E a \in Responses :
           /\ r = thread[t].req /\ RequestOK(r) /\ Serve(r)
           /\ thread[t].pc = "sent" /\ a = ReplyTo(r)
           /\ thread' = [thread EXCEPT ![t] = w]
           /\ w.pc = "replied" /\ w.req = r /\ w.resp = a
    BY <1>7, AnswerComes
  <2>2. receipt[r.id] = NoReceipt
    BY <2>1 DEF MirrorInv, FreshInv, FreshThread
  <2>3. PICK a : a = ReplyTo(r) /\ w.resp = a
    BY <2>1
  <2>4. AnswerNow(r, a)'
    BY <2>1, <2>2, <2>3, ReplyFits
  <2>5. PICK i \in DOMAIN outbox[r.key] : outbox[r.key][i].id = r.id
    <3>1. Sending(t)
      BY <2>1 DEF Sending
    <3> QED
      BY <2>1, <3>1, RequestEntry
  <2>6. r.op # "delete"
    <3>1. r.key \in RowIds
      BY DEF Requests
    <3>2. r.op = outbox[r.key][i].op
      BY <2>1, <2>5, <3>1 DEF RequestOK, Matching
    <3> QED
      BY <3>1, <3>2 DEF EditsOnly
  <2>7. AnswerExact(r, a)'
    BY <2>4, <2>6, ReplyExact
  <2>8. PayloadOf(r)'
    <3>1. PayloadOf(r) /\ r.id < nextId
      BY <2>1 DEF InHand, RequestOK
    <3> QED
      BY <3>1, PayloadStays
  <2>9. w.pc = "replied" /\ w.req = r /\ w.resp = a
    BY <2>1, <2>3
  <2>10. InHand(w)'
    BY <2>7, <2>8, <2>9 DEF InHand
  <2> QED
    BY <1>2, <2>1, <2>10
<1>8. ASSUME NEW t \in Threads, FetchPage(t)
      PROVE  \A u \in Threads : InHand(thread[u])'
  <2>1. PICK v \in ThreadStates : v = thread[t]
    BY <1>0 DEF ThreadInv
  <2>2. PICK p : p = ListChanges(cursor)
    OBVIOUS
  <2>3. PICK w : w = [v EXCEPT !.pc = "page", !.page = p]
    OBVIOUS
  <2>4. w.pc = "page" /\ w.page = p
    BY <2>3 DEF ThreadStates
  <2>5. thread' = [thread EXCEPT ![t] = w]
    <3>1. thread' = [thread EXCEPT ![t].pc = "page", ![t].page = p]
      BY <1>8, <2>2 DEF FetchPage
    <3> QED
      BY <1>0, <2>1, <2>3, <3>1 DEF ThreadInv
  <2>6. skill' = skill
    BY <1>8 DEF FetchPage, serverVars
  <2>7. PageExact(p.change)
    BY <2>2, FreshPageExact
  <2>8. PageExact(p.change)'
    BY <2>6, <2>7 DEF PageExact, AtHead, InTable
  <2>9. InHand(w)'
    BY <2>4, <2>8 DEF InHand
  <2> QED
    BY <1>2, <2>5, <2>9
<1> QED
  BY <1>3, <1>4, <1>5, <1>6, <1>7, <1>8 DEF SyncNext, Push, Pull, Failure

(* An outcome leaves its row exact: an ack that settles the whole chain    *)
(* is for what the row shows, and everything else leaves work behind.      *)
LEMMA OutcomeExact ==
    ASSUME SyncInv, SyncInv', NEW k \in RowIds, NEW i \in DOMAIN outbox[k],
           LocalExact(k), UNCHANGED <<skill, log, cursor>>,
           cursor <= Len(log),
           NEW r, NEW a, AnswerOK(r, a), AnswerExact(r, a),
           outbox[k][i].payload = r.payload, outbox[k][i].state = "in_flight",
           DOMAIN outbox'[k] = DOMAIN outbox[k],
           \A j \in DOMAIN outbox[k] \ {i} : outbox'[k][j] = outbox[k][j],
           SameMutation(outbox[k][i], outbox'[k][i]),
           Settles(k, i, a)
    PROVE  RowExact(k)' /\ LocalExact(k)'
<1>0. /\ outbox[k] \in Seq(Mutations) /\ outbox'[k] \in Seq(Mutations)
      /\ ChainOrder
  BY DEF SyncInv, StoreInv, StoreTypeOK
<1>1. PICK n : n = Len(outbox[k])
  OBVIOUS
<1>2. n \in DOMAIN outbox[k] /\ Len(outbox'[k]) = n
  BY <1>0, <1>1
<1>3. /\ i \in Unacked(k)
      /\ outbox'[k][n].payload = outbox[k][n].payload
  <2>1. i \in Unacked(k)
    BY DEF Unacked
  <2>2. outbox'[k][n].payload = outbox[k][n].payload
    BY <1>2 DEF SameMutation
  <2> QED
    BY <2>1, <2>2
<1>4. (\A j \in DOMAIN outbox[k] \ {i} : outbox[k][j].state \notin Rejected)
        => row[k].state \in {"dirty", "conflict"} /\ outbox[k][n].payload = row[k].cur
  <2>1. outbox[k][i].state \notin Rejected
    BY DEF Rejected
  <2> QED
    BY <1>1, <1>3, <2>1 DEF LocalExact
<1>5. LocalExact(k)'
  <2> SUFFICES ASSUME Unacked(k)' # {},
                      \A j \in DOMAIN outbox'[k] : outbox'[k][j].state \notin Rejected
               PROVE  /\ row'[k].state \in {"dirty", "conflict"}
                      /\ outbox'[k][n].payload = row'[k].cur
    BY <1>2 DEF LocalExact
  <2>1. row[k].state \in {"dirty", "conflict"} /\ outbox[k][n].payload = row[k].cur
    BY <1>4
  <2>2. outbox'[k][i].state \notin {"permission_denied", "permanent_error"}
    BY DEF Rejected
  <2>3. ~(Unacked(k) \subseteq {i} /\ outbox'[k][i].state = "acked")
    BY DEF Unacked
  <2>4. row'[k].cur = row[k].cur /\ row'[k].state \in {row[k].state, "conflict"}
    BY <2>2, <2>3 DEF Settles
  <2> QED
    BY <1>3, <2>1, <2>4
<1>6. RowExact(k)'
  <2> SUFFICES ASSUME NEW s \in ServerIds, row'[k].remoteId = s, Unacked(k)' = {}
               PROVE  /\ ~Deletion(s, row[k].rev)'
                      /\ AtHead(s, row[k].rev)' => row'[k].cur = skill'[s].pkg
                      /\ \A j \in DOMAIN log' :
                            LastOf(s, j, cursor)' /\ log'[j].op = "delete"
                              => row'[k].rev > log'[j].rev
    BY DEF RowExact
  <2>1. \A j \in DOMAIN outbox[k] : outbox'[k][j].state = "acked"
    BY DEF Unacked
  <2>2. a.status = "acked" /\ row'[k].cur = row[k].cur
    BY <2>1 DEF Settles
  <2>3. PICK rev : rev = a.rev /\ row'[k].rev = rev /\ a.rid = s
    BY <2>1 DEF Settles
  <2>4. Reaches(s, rev) /\ rev \in Nat
    BY <2>2, <2>3, MirrorTypes DEF AnswerOK, SyncInv, StoreInv, StoreTypeOK, Rows
  <2>5. ~Deletion(s, rev) /\ (AtHead(s, rev) => skill[s].pkg = r.payload)
    BY <2>2, <2>3 DEF AnswerExact
  <2>6. r.payload = row[k].cur
    <3>1. \A j \in DOMAIN outbox[k] \ {i} : outbox[k][j].state = "acked"
      BY <2>1
    <3>2. row[k].state \in {"dirty", "conflict"} /\ outbox[k][n].payload = row[k].cur
      BY <1>4, <3>1 DEF Rejected
    <3>3. ~(i < n)
      BY <1>0, <1>2, <3>1 DEF ChainOrder
    <3>4. i = n
      BY <1>0, <1>1, <3>3
    <3> QED
      BY <3>2, <3>4
  <2>7. ASSUME NEW j \in DOMAIN log, LastOf(s, j, cursor), log[j].op = "delete"
        PROVE  rev > log[j].rev
    <3>1. log[j].rid = s /\ log[j].rev <= rev /\ log[j].rev \in Nat
      BY <2>4, <2>7, MirrorTypes DEF LastOf, Reaches
    <3>2. log[j].rev # rev
      <4> SUFFICES ASSUME log[j].rev = rev PROVE FALSE
        OBVIOUS
      <4>1. log[j] \in Events
        BY MirrorTypes
      <4>2. log[j] = [rid |-> s, rev |-> rev, op |-> "delete"]
        BY <2>7, <3>1, <4>1 DEF Events
      <4> QED
        BY <2>5, <4>2 DEF Deletion
    <3> QED
      BY <2>4, <3>1, <3>2
  <2>8. ~Deletion(s, rev)' /\ (AtHead(s, rev)' => row'[k].cur = skill'[s].pkg)
    BY <2>2, <2>5, <2>6 DEF Deletion, AtHead, InTable
  <2>9. \A j \in DOMAIN log' : LastOf(s, j, cursor)' /\ log'[j].op = "delete"
                                 => rev > log'[j].rev
    BY <2>7 DEF LastOf
  <2> QED
    BY <2>3, <2>8, <2>9 DEF Deletion, AtHead, InTable
<1> QED
  BY <1>5, <1>6

(* A page leaves the rows exact.                                           *)
LEMMA PageExactly ==
    ASSUME SyncInv, SyncInv', FeedInv, NEW p \in Pages, PageOK(p),
           NEW c \in Changes, c = p.change, c.op # "none", c.rid \in ServerIds,
           PageExact(c), cursor' = p.next, UNCHANGED <<skill, log>>,
           NEW l \in RowIds, PageMoves(l, c.op, c.rid, c.rev, c.pkg),
           \A k \in RowIds : RowExact(k) /\ LocalExact(k)
    PROVE  \A k \in RowIds : RowExact(k)' /\ LocalExact(k)'
<1>0. /\ OneRowPerRemote /\ RowsWellFormed /\ NoStaleWedge
  BY DEF SyncInv, StoreInv
<1>1. PICK n : n = cursor + 1
  OBVIOUS
<1>2. PICK rid, rev, op : /\ rid \in ServerIds
                        /\ rid = c.rid /\ rev = c.rev /\ op = c.op
  OBVIOUS
<1>3. /\ n \in DOMAIN log /\ n \in Nat /\ cursor \in Nat /\ cursor' = n
      /\ log[n].rid = rid /\ log[n].rev = rev /\ log[n].op = op
      /\ rev \in Nat /\ op \in {"upsert", "delete"}
  <2>1. /\ p.next = n /\ n <= Len(log)
        /\ log[n] = [rid |-> rid, rev |-> rev, op |-> op]
    BY <1>1, <1>2 DEF PageOK
  <2>2. cursor \in Nat /\ Len(log) \in Nat /\ DOMAIN log = 1 .. Len(log)
    BY MirrorTypes
  <2>3. n \in DOMAIN log
    BY <1>1, <2>1, <2>2
  <2> QED
    BY <1>1, <1>2, <2>1, <2>2, <2>3 DEF Changes
<1>4. ASSUME NEW s \in ServerIds, NEW i, LastOf(s, i, n)
      PROVE  \/ s # rid /\ LastOf(s, i, cursor)
             \/ s = rid /\ i = n
  <2>1. i \in 1 .. n /\ log[i].rid = s
    BY <1>4 DEF LastOf
  <2>2. CASE i = n
    BY <1>3, <2>1, <2>2
  <2>3. CASE i # n
    <3>1. i \in 1 .. cursor /\ n \in (i + 1) .. n
      BY <1>1, <1>3, <2>1, <2>3
    <3>2. log[n].rid # s
      BY <1>4, <3>1 DEF LastOf
    <3>3. \A j \in (i + 1) .. cursor : j \in (i + 1) .. n
      BY <1>1, <1>3, <2>1
    <3> QED
      BY <1>3, <1>4, <2>1, <3>1, <3>2, <3>3 DEF LastOf
  <2> QED
    BY <2>2, <2>3
<1>5. op = "upsert" => ~Deletion(rid, rev)
  <2> SUFFICES ASSUME op = "upsert", NEW i \in DOMAIN log,
                      log[i] = [rid |-> rid, rev |-> rev, op |-> "delete"]
               PROVE  FALSE
    BY DEF Deletion
  <2>1. log[i].rid = rid /\ log[i].rev = rev /\ log[i].op = "delete"
    OBVIOUS
  <2>2. i # n
    BY <1>3, <2>1
  <2>3. i \in Nat
    BY MirrorTypes
  <2>4. Rises(log[i], log[n]) \/ Rises(log[n], log[i])
    BY <1>3, <2>2, <2>3 DEF FeedInv
  <2>5. ~(rev < rev)
    BY <1>3
  <2> QED
    BY <1>3, <2>1, <2>4, <2>5 DEF Rises
<1>6. \A s \in ServerIds : \A v :
         /\ Deletion(s, v)' <=> Deletion(s, v)
         /\ AtHead(s, v)' <=> AtHead(s, v)
  BY DEF Deletion, AtHead, InTable
<1>7. ASSUME NEW k \in RowIds,
             \A s \in ServerIds : row'[k].remoteId = s /\ Unacked(k)' = {} =>
                /\ ~Deletion(s, row'[k].rev)
                /\ AtHead(s, row'[k].rev) => row'[k].cur = skill[s].pkg
                /\ \A i \in DOMAIN log :
                      LastOf(s, i, n) /\ log[i].op = "delete"
                        => row'[k].rev > log[i].rev
      PROVE  RowExact(k)'
  BY <1>3, <1>7 DEF RowExact, LastOf, Deletion, AtHead, InTable
<1>8. ASSUME NEW k \in RowIds, outbox'[k] = outbox[k]
      PROVE  SameChain(k) /\ Unacked(k)' = Unacked(k)
  BY <1>8 DEF SameChain, Unacked
<1>9. ASSUME NEW k \in RowIds, row'[k] = row[k], outbox'[k] = outbox[k],
             \/ op = "upsert" \/ row[k].remoteId # rid
             \/ k = l /\ row[k].rev >= rev
      PROVE  RowExact(k)' /\ LocalExact(k)'
  <2>1. LocalExact(k)'
    BY <1>8, <1>9, LocalStays
  <2>2. ASSUME NEW s \in ServerIds, row'[k].remoteId = s, Unacked(k)' = {}
        PROVE  /\ ~Deletion(s, row'[k].rev)
               /\ AtHead(s, row'[k].rev) => row'[k].cur = skill[s].pkg
               /\ \A i \in DOMAIN log :
                     LastOf(s, i, n) /\ log[i].op = "delete"
                       => row'[k].rev > log[i].rev
    <3>1. row[k].remoteId = s /\ Unacked(k) = {} /\ row[k].rev \in Nat
      BY <1>8, <1>9, <2>2, MirrorTypes
    <3>2. /\ ~Deletion(s, row[k].rev)
          /\ AtHead(s, row[k].rev) => row[k].cur = skill[s].pkg
          /\ \A i \in DOMAIN log :
                LastOf(s, i, cursor) /\ log[i].op = "delete"
                  => row[k].rev > log[i].rev
      BY <3>1 DEF RowExact
    <3>3. ASSUME NEW i \in DOMAIN log, LastOf(s, i, n), log[i].op = "delete"
          PROVE  row[k].rev > log[i].rev
      <4>1. CASE s # rid
        BY <1>4, <3>2, <3>3, <4>1
      <4>2. CASE s = rid
        <5>1. i = n /\ op = "delete" /\ row[k].rev >= rev
          BY <1>3, <1>4, <1>9, <3>1, <3>3, <4>2
        <5>2. row[k].rev # rev
          <6>1. log[n] \in Events
            BY <1>3, MirrorTypes
          <6>2. log[n] = [rid |-> rid, rev |-> rev, op |-> "delete"]
            BY <1>3, <5>1, <6>1 DEF Events
          <6>3. Deletion(rid, rev)
            BY <1>3, <6>2 DEF Deletion
          <6> QED
            BY <3>2, <4>2, <6>3
        <5> QED
          BY <1>3, <3>1, <5>1, <5>2
      <4> QED
        BY <4>1, <4>2
    <3> QED
      BY <1>9, <3>2, <3>3
  <2>3. RowExact(k)'
    BY <1>7, <2>2
  <2> QED
    BY <2>1, <2>3
<1>10. ASSUME op = "upsert", row'[l].remoteId = rid, row'[l].rev = rev,
              row'[l].cur = c.pkg
       PROVE  RowExact(l)'
  <2>1. AtHead(rid, rev) => c.pkg = skill[rid].pkg
    BY <1>2, <1>10 DEF PageExact
  <2>2. \A i \in DOMAIN log : LastOf(rid, i, n) => log[i].op # "delete"
    BY <1>2, <1>3, <1>4, <1>10
  <2> QED
    BY <1>5, <1>7, <1>10, <2>1, <2>2
<1>11. Unacked(l)' # {} \/ row'[l].remoteId = None => RowExact(l)'
  BY TypesAssumption DEF RowExact
<1>12. outbox'[l] = <<>> => LocalExact(l)'
  BY DEF LocalExact, Unacked
<1>13. Matches(rid) = {} => \A k \in RowIds : row[k].remoteId # rid
  BY <1>0, <1>2, TypesAssumption DEF Matches, RowsWellFormed
<1>14. row[l].remoteId = rid => \A k \in RowIds \ {l} : row[k].remoteId # rid
  BY <1>0, <1>2, TypesAssumption DEF OneRowPerRemote
<1>15. \A k \in RowIds \ {l} : row'[k] = row[k] /\ outbox'[k] = outbox[k]
  BY DEF PageMoves
<1>16. ASSUME op = "delete" => \A k \in RowIds \ {l} : row[k].remoteId # rid,
              RowExact(l)' /\ LocalExact(l)'
       PROVE  \A k \in RowIds : RowExact(k)' /\ LocalExact(k)'
  BY <1>3, <1>9, <1>15, <1>16
<1>17. CASE /\ op = "delete" /\ Matches(rid) = {}
            /\ row'[l] = row[l] /\ outbox'[l] = outbox[l]
  BY <1>9, <1>13, <1>16, <1>17
<1>18. CASE /\ row[l].remoteId = rid /\ row[l].rev >= rev
            /\ row'[l] = row[l] /\ outbox'[l] = outbox[l]
  BY <1>9, <1>14, <1>16, <1>18
<1>19. CASE /\ op = "upsert" /\ outbox'[l] = <<>>
            /\ row'[l].remoteId = rid /\ row'[l].rev = rev /\ row'[l].cur = c.pkg
  BY <1>10, <1>12, <1>16, <1>19
<1>20. CASE /\ op = "upsert" /\ row[l].remoteId = rid
            /\ row'[l].remoteId = rid /\ row'[l].rev = rev
            /\ row'[l].cur = (IF KeepsLocalHead(l) THEN row[l].cur ELSE c.pkg)
            /\ KeepsLocalHead(l) => row'[l].state = "conflict"
            /\ outbox'[l] = outbox[l]
  <2>1. SameChain(l) /\ Unacked(l)' = Unacked(l)
    BY <1>8, <1>20
  <2>2. CASE KeepsLocalHead(l)
    <3>1. Unacked(l) # {}
      BY <1>0, <2>2 DEF KeepsLocalHead, NoStaleWedge
    <3>2. LocalExact(l)'
      BY <1>20, <2>1, <2>2, LocalStays
    <3> QED
      BY <1>11, <1>14, <1>16, <1>20, <2>1, <3>1, <3>2
  <2>3. CASE ~KeepsLocalHead(l)
    <3>1. RowExact(l)'
      BY <1>10, <1>20, <2>3
    <3>2. LocalExact(l)'
      BY <1>20, <2>1, <2>3 DEF LocalExact, KeepsLocalHead
    <3> QED
      BY <1>14, <1>16, <1>20, <3>1, <3>2
  <2> QED
    BY <2>2, <2>3
<1>21. CASE /\ op = "delete" /\ row[l].remoteId = rid /\ Unacked(l) # {}
            /\ row'[l].cur = row[l].cur /\ row'[l].state = "conflict"
            /\ outbox'[l] = outbox[l]
  <2>1. SameChain(l) /\ Unacked(l)' = Unacked(l)
    BY <1>8, <1>21
  <2>2. LocalExact(l)'
    BY <1>21, <2>1, LocalStays
  <2> QED
    BY <1>11, <1>14, <1>16, <1>21, <2>1, <2>2
<1>22. CASE /\ op = "delete" /\ row[l].remoteId = rid
            /\ row'[l].remoteId = None /\ outbox'[l] = <<>>
  BY <1>11, <1>12, <1>14, <1>16, <1>22
<1> QED
  BY <1>2, <1>17, <1>18, <1>19, <1>20, <1>21, <1>22 DEF PageMoves

(* Steps that leave the rows, the cursor and the chains as they are.       *)
LEMMA StillExact ==
    ASSUME SyncInv, SyncInv', FeedInv, FeedGrows, MirrorInv, ExactInv, EditsOnly',
           row' = row, cursor' = cursor, \A k \in RowIds : SameChain(k)
    PROVE  \A k \in RowIds : RowExact(k)' /\ LocalExact(k)'
<1> SUFFICES ASSUME NEW k \in RowIds
             PROVE  RowExact(k)' /\ LocalExact(k)'
  OBVIOUS
<1>1. /\ RowExact(k) /\ LocalExact(k) /\ KnownInv /\ cursor <= Len(log)
      /\ Unacked(k)' = Unacked(k)
  BY ChainUnacked DEF ExactInv, MirrorInv, CoverInv
<1>2. RowExact(k)'
  BY <1>1, RowStays
<1>3. LocalExact(k)'
  BY <1>1, LocalStays
<1> QED
  BY <1>2, <1>3

(* Every step keeps what the mirror shows.                                 *)
LEMMA ExactStep ==
    ASSUME SyncInv, SyncInv', FeedInv, FeedInv', FeedGrows, NothingGivenUp,
           MirrorInv, ExactInv, [SyncNext]_syncVars
    PROVE  ExactInv'
<1>0. /\ EditsOnly /\ (\A k \in RowIds : RowExact(k) /\ LocalExact(k))
      /\ (\A t \in Threads : InHand(thread[t]))
      /\ WorkInv /\ KnownInv /\ cursor <= Len(log) /\ Undisturbed /\ late = {}
  BY DEF ExactInv, MirrorInv, CoverInv, FreshInv, NothingGivenUp
<1>1. EditsOnly'
  BY <1>0, EditsStay
<1>2. \A t \in Threads : InHand(thread[t])'
  BY <1>0, <1>1, HandsStep
<1>3. ASSUME row' = row, cursor' = cursor, \A k \in RowIds : SameChain(k)
      PROVE  \A k \in RowIds : RowExact(k)' /\ LocalExact(k)'
  BY <1>1, <1>3, StillExact
<1>4. ASSUME Browser \/ UNCHANGED syncVars
      PROVE  \A k \in RowIds : RowExact(k)' /\ LocalExact(k)'
  <2>1. row' = row /\ cursor' = cursor /\ outbox' = outbox
    BY <1>4 DEF Browser, syncVars, storeVars
  <2>2. \A k \in RowIds : SameChain(k)
    BY <2>1 DEF SameChain
  <2> QED
    BY <1>3, <2>1, <2>2
<1>5. ASSUME Backoff
      PROVE  \A k \in RowIds : RowExact(k)' /\ LocalExact(k)'
  <2>1. PICK k \in RowIds : \E i \in DOMAIN outbox[k] : BackoffElapses(k, i)
    BY <1>5 DEF Backoff
  <2>2. row' = row /\ cursor' = cursor /\ \A j \in RowIds : SameChain(j)
    BY <2>1, RetriedChains
  <2> QED
    BY <1>3, <2>2
<1>6. ASSUME UserCommand
      PROVE  \A k \in RowIds : RowExact(k)' /\ LocalExact(k)'
  <2>1. PICK l \in RowIds :
           /\ \A k \in RowIds \ {l} : row'[k] = row[k] /\ outbox'[k] = outbox[k]
           /\ \/ /\ outbox'[l] = outbox[l] /\ row'[l].cur = row[l].cur
                 /\ row[l].state \in {"remote_only", "synced"}
              \/ Shown(l)
    BY <1>0, <1>6, CommandsKeep
  <2>2. /\ cursor' = cursor
        /\ \A k \in RowIds : /\ row'[k].remoteId = row[k].remoteId
                             /\ row'[k].rev = row[k].rev
    BY <1>6, CommandEntries
  <2>3. ASSUME NEW k \in RowIds, outbox'[k] = outbox[k], row'[k].cur = row[k].cur
        PROVE  SameChain(k) /\ RowExact(k)'
    <3>1. SameChain(k) /\ Unacked(k)' = Unacked(k)
      BY <2>3 DEF SameChain, Unacked
    <3>2. RowExact(k)'
      BY <1>0, <1>1, <2>2, <2>3, <3>1, RowStays
    <3> QED
      BY <3>1, <3>2
  <2>4. ASSUME NEW k \in RowIds, k # l
        PROVE  RowExact(k)' /\ LocalExact(k)'
    <3>1. row'[k] = row[k] /\ outbox'[k] = outbox[k]
      BY <2>1, <2>4
    <3>2. RowExact(k)' /\ SameChain(k)
      BY <2>3, <3>1
    <3>3. LocalExact(k)'
      BY <1>0, <3>1, <3>2, LocalStays
    <3> QED
      BY <3>2, <3>3
  <2>5. ASSUME outbox'[l] = outbox[l], row'[l].cur = row[l].cur,
               row[l].state \in {"remote_only", "synced"}
        PROVE  RowExact(l)' /\ LocalExact(l)'
    <3>1. RowExact(l)'
      BY <2>3, <2>5
    <3>2. LocalExact(l)'
      BY <1>0, <2>5 DEF LocalExact, Unacked
    <3> QED
      BY <3>1, <3>2
  <2>6. ASSUME Shown(l)
        PROVE  RowExact(l)' /\ LocalExact(l)'
    <3>1. PICK n \in DOMAIN outbox'[l] :
             /\ n = Len(outbox'[l]) /\ outbox'[l][n].state = "pending"
             /\ outbox'[l][n].payload = row'[l].cur
      BY <2>6 DEF Shown
    <3>2. Unacked(l)' # {}
      BY <3>1 DEF Unacked
    <3>3. LocalExact(l)'
      BY <2>6, <3>1 DEF LocalExact, Shown
    <3> QED
      BY <3>2, <3>3 DEF RowExact
  <2> QED
    BY <2>1, <2>4, <2>5, <2>6
<1>7. ~LateDelivery /\ ~Restart /\ \A t \in Threads : ~Timeout(t)
  BY <1>0 DEF LateDelivery, Restart, Timeout, Fail, Undisturbed
<1>8. ASSUME NEW t \in Threads,
             \/ StartCycle(t) \/ Submit(t) \/ ServerReplies(t) \/ FetchPage(t)
             \/ UploadFails(t) \/ SessionRefused(t) \/ AckRollsBack(t)
             \/ ReleaseTail(t) \/ PullFails(t)
      PROVE  \A k \in RowIds : RowExact(k)' /\ LocalExact(k)'
  <2>1. \A k \in RowIds : SameChain(k)
    BY <1>8, ChainsStay
  <2>2. row' = row /\ cursor' = cursor
    <3>1. CASE StartCycle(t)
      BY <3>1, CycleStarts
    <3>2. CASE Submit(t) \/ ServerReplies(t) \/ FetchPage(t)
      BY <3>2 DEF Submit, ServerReplies, FetchPage, storeVars
    <3>3. CASE \/ UploadFails(t) \/ SessionRefused(t) \/ AckRollsBack(t)
               \/ ReleaseTail(t) \/ PullFails(t)
      BY <3>3, ThreadTurns
    <3> QED
      BY <1>8, <3>1, <3>2, <3>3
  <2> QED
    BY <1>3, <2>1, <2>2
<1>9. ASSUME NEW t \in Threads, ApplyReply(t)
      PROVE  \A k \in RowIds : RowExact(k)' /\ LocalExact(k)'
  <2>1. PICK r \in Requests, w \in ThreadStates, a \in Responses :
        \E i \in DOMAIN outbox[r.key] :
           /\ r = thread[t].req /\ a = thread[t].resp /\ RequestOK(r)
           /\ thread[t].pc = "replied"
           /\ Outcome(r, a, i)
           /\ outbox[r.key][i].id = r.id
           /\ outbox[r.key][i].state = "in_flight"
           /\ a.status # "none"
           /\ UNCHANGED serverVars
    BY <1>9, AnswerApplied
  <2>2. PICK k \in RowIds : k = r.key
    BY DEF Requests
  <2>3. PICK i \in DOMAIN outbox[k] :
           /\ Outcome(r, a, i) /\ outbox[k][i].id = r.id
           /\ outbox[k][i].state = "in_flight" /\ a.status # "none"
    BY <2>1, <2>2
  <2>4. /\ cursor' = cursor
        /\ \A l \in RowIds \ {k} : row'[l] = row[l] /\ outbox'[l] = outbox[l]
        /\ DOMAIN outbox'[k] = DOMAIN outbox[k]
        /\ \A j \in DOMAIN outbox[k] \ {i} : outbox'[k][j] = outbox[k][j]
        /\ SameMutation(outbox[k][i], outbox'[k][i])
        /\ Settles(k, i, a)
    BY <2>2, <2>3, OutcomeSettles
  <2>5. AnswerOK(r, a) /\ AnswerExact(r, a) /\ PayloadOf(r)
    <3>1. Working(thread[t]) /\ InHand(thread[t])
      BY <1>0 DEF WorkInv
    <3>2. thread[t].pc = "replied" /\ r = thread[t].req /\ a = thread[t].resp
      BY <2>1
    <3> QED
      BY <3>1, <3>2 DEF Working, InHand
  <2>6. UNCHANGED <<skill, log, cursor>>
    BY <2>1, <2>4 DEF serverVars
  <2>7. outbox[k][i].payload = r.payload
    BY <2>3, <2>5 DEF PayloadOf
  <2>8. RowExact(k)' /\ LocalExact(k)'
    BY <1>0, <2>3, <2>4, <2>5, <2>6, <2>7, OutcomeExact
  <2>9. ASSUME NEW l \in RowIds, l # k
        PROVE  RowExact(l)' /\ LocalExact(l)'
    <3>1. row'[l] = row[l] /\ outbox'[l] = outbox[l]
      BY <2>4, <2>9
    <3>2. SameChain(l) /\ Unacked(l)' = Unacked(l)
      BY <3>1 DEF SameChain, Unacked
    <3>3. RowExact(l)'
      BY <1>0, <1>1, <2>4, <3>1, <3>2, RowStays
    <3>4. LocalExact(l)'
      BY <1>0, <3>1, <3>2, LocalStays
    <3> QED
      BY <3>3, <3>4
  <2> QED
    BY <2>8, <2>9
<1>10. ASSUME NEW t \in Threads, ApplyPage(t)
       PROVE  \A k \in RowIds : RowExact(k)' /\ LocalExact(k)'
  <2>1. PICK p \in Pages, c \in Changes :
           /\ p = thread[t].page /\ c = p.change /\ thread[t].pc = "page"
           /\ UNCHANGED serverVars /\ cursor' = p.next
           /\ c.op = "none" => row' = row /\ outbox' = outbox
           /\ c.op # "none" =>
                /\ c.rid \in ServerIds
                /\ \E l \in RowIds : PageMoves(l, c.op, c.rid, c.rev, c.pkg)
    BY <1>10, PageSteps
  <2>2. PageOK(p) /\ PageExact(c)
    <3>1. Working(thread[t]) /\ InHand(thread[t])
      BY <1>0 DEF WorkInv
    <3> QED
      BY <2>1, <3>1 DEF Working, InHand
  <2>3. UNCHANGED <<skill, log>>
    BY <2>1 DEF serverVars
  <2>4. CASE c.op # "none"
    <3>1. PICK l \in RowIds : PageMoves(l, c.op, c.rid, c.rev, c.pkg)
      BY <2>1, <2>4
    <3> QED
      BY <1>0, <2>1, <2>2, <2>3, <2>4, <3>1, PageExactly
  <2>5. CASE c.op = "none"
    <3>1. cursor' = cursor
      <4> SUFFICES ASSUME p.next = cursor + 1 PROVE FALSE
        BY <2>1, <2>2 DEF PageOK
      <4>1. /\ cursor \in Nat /\ Len(log) \in Nat /\ DOMAIN log = 1 .. Len(log)
            /\ p.next <= Len(log) /\ ~InTable(log[p.next].rid)
        BY <2>1, <2>2, <2>5, MirrorTypes DEF PageOK
      <4>2. p.next \in DOMAIN log
        BY <4>1
      <4>3. log[p.next].rid \in ServerIds /\ skill[log[p.next].rid].status # "absent"
        BY <4>2, MirrorTypes DEF FeedInv
      <4> QED
        BY <1>0, <4>1, <4>3 DEF EditsOnly, InTable
    <3>2. \A k \in RowIds : SameChain(k)
      BY <2>1, <2>5 DEF SameChain
    <3> QED
      BY <1>3, <2>1, <2>5, <3>1, <3>2
  <2> QED
    BY <2>4, <2>5
<1>11. \A k \in RowIds : RowExact(k)' /\ LocalExact(k)'
  BY <1>4, <1>5, <1>6, <1>7, <1>8, <1>9, <1>10 DEF SyncNext, Push, Pull, Failure
<1> QED
  BY <1>1, <1>2, <1>11 DEF ExactInv

LEMMA ExactStarts == SyncInit => ExactInv
<1> SUFFICES ASSUME SyncInit PROVE ExactInv
  OBVIOUS
<1>1. /\ \A k \in RowIds : row[k] = NoRow /\ outbox[k] = <<>>
      /\ \A t \in Threads : thread[t] = Idle
      /\ \A s \in ServerIds : skill[s] = NoSkill
  BY DEF SyncInit, StoreInit, ServerInit
<1>2. EditsOnly
  BY <1>1 DEF EditsOnly, NoSkill
<1>3. \A k \in RowIds : RowExact(k) /\ LocalExact(k)
  BY <1>1, TypesAssumption DEF RowExact, LocalExact, NoRow, Unacked
<1>4. \A t \in Threads : InHand(thread[t])
  BY <1>1, AtState DEF InHand
<1> QED
  BY <1>2, <1>3, <1>4 DEF ExactInv

(* The invariants hold together.                                           *)
LEMMA ExactHolds ==
    ASSUME NothingGivenUp
    PROVE  SyncSpec => [](SyncInv /\ FeedInv /\ MirrorInv /\ ExactInv)
<1>1. Undisturbed
  BY DEF NothingGivenUp
<1>2. SyncInv /\ FeedInv /\ MirrorInv /\ [SyncNext]_syncVars => MirrorInv'
  BY <1>1, SyncStepSafe, FeedStep, MirrorStep
<1>3. SyncInv /\ FeedInv /\ MirrorInv /\ ExactInv /\ [SyncNext]_syncVars => ExactInv'
  BY SyncStepSafe, FeedStep, ExactStep
<1> QED
  BY <1>2, <1>3, MirrorStarts, ExactStarts, SyncInvariant, FeedTellsHeads, PTL
     DEF SyncSpec

(* The row of a skill is the one that has it as its remote id.             *)
LEMMA MatchesByRemote ==
    ASSUME SyncInv, NEW s \in ServerIds, NEW k \in RowIds
    PROVE  k \in Matches(s) <=> row[k].remoteId = s
BY TypesAssumption DEF Matches, SyncInv, StoreInv, OneRowPerRemote, RowsWellFormed

(* A deletion that the cursor has passed is gone from the mirror, unless   *)
(* local work that the server has not acked holds on to the row or the row *)
(* is already past it: apply_tombstone removes a clean row that is behind, *)
(* apply_upsert and apply_mutation_outcome bring nothing back that a later *)
(* tombstone has taken.  The user neither deletes nor takes the remote     *)
(* side of a conflict and the browser purges nothing.                      *)
THEOREM TombstonesGone ==
    NothingGivenUp => (SyncSpec => []TombstonesClear)
<1>1. SyncInv /\ MirrorInv /\ ExactInv => TombstonesClear
  <2> SUFFICES ASSUME SyncInv, MirrorInv, ExactInv, NEW s \in ServerIds,
                      PassedEvents(s) # {}, log[LastPassed(s)].op = "delete",
                      NEW k \in Matches(s), Unacked(k) = {}
               PROVE  row[k].rev > log[LastPassed(s)].rev
    BY DEF TombstonesClear
  <2>1. PICK i : i = LastPassed(s)
    OBVIOUS
  <2>2. i \in DOMAIN log /\ LastOf(s, i, cursor) /\ log[i].op = "delete"
    BY <2>1, LastIsLast DEF MirrorInv, CoverInv
  <2>3. k \in RowIds /\ row[k].remoteId = s
    BY MatchesByRemote DEF Matches
  <2>4. row[k].rev > log[i].rev
    BY <2>2, <2>3 DEF ExactInv, RowExact
  <2> QED
    BY <2>1, <2>4
<1>2. ASSUME NothingGivenUp
      PROVE  SyncSpec => []TombstonesClear
  BY <1>1, <1>2, ExactHolds, PTL
<1> QED
  BY <1>2

(* Once everything is acked and pulled, the mirror is the server's state:  *)
(* every live skill at its revision with its package, no deleted one.      *)
(* What run_cycle leaves behind when it ends: apply_mutation_outcome made  *)
(* the revision of the row the one that the server acked, whose package is *)
(* the row's own, and apply_changes_page brought the rest.                 *)
THEOREM MirrorConverges ==
    NothingGivenUp => (SyncSpec => []Converged)
<1>1. SyncInv /\ FeedInv /\ MirrorInv /\ ExactInv => Converged
  <2> SUFFICES ASSUME SyncInv, FeedInv, MirrorInv, ExactInv, Quiet,
                      NEW s \in ServerIds
               PROVE  /\ Live(s) => \E k \in Matches(s) :
                           row[k].rev = skill[s].rev /\ row[k].cur = skill[s].pkg
                      /\ skill[s].status = "deleted" => Matches(s) = {}
    BY DEF Converged
  <2>1. /\ cursor = Len(log) /\ DOMAIN log = 1 .. Len(log) /\ Len(log) \in Nat
        /\ \A k \in RowIds : Unacked(k) = {}
        /\ skill[s].rev \in Nat /\ \A k \in RowIds : row[k].rev \in Nat
    BY MirrorTypes DEF Quiet
  <2>2. ASSUME InTable(s)
        PROVE  \E h \in DOMAIN log : /\ LastOf(s, h, cursor)
                                     /\ log[h].rev = skill[s].rev
                                     /\ log[h].op = HeadOp(s)
    <3>1. PICK h \in DOMAIN log : IsHead(s, h)
      BY <2>2 DEF FeedInv
    <3>2. /\ log[h].rid = s /\ log[h].rev = skill[s].rev /\ log[h].op = HeadOp(s)
          /\ \A i \in DOMAIN log : log[i].rid = s /\ i # h => i < h
      BY <3>1 DEF IsHead
    <3>3. ASSUME NEW j \in (h + 1) .. cursor
          PROVE  log[j].rid # s
      <4>1. j \in DOMAIN log /\ j # h /\ ~(j < h)
        BY <2>1, <3>3
      <4> QED
        BY <3>2, <4>1
    <3>4. LastOf(s, h, cursor)
      BY <2>1, <3>2, <3>3 DEF LastOf
    <3> QED
      BY <3>2, <3>4
  <2>3. ASSUME NEW k \in RowIds, row[k].remoteId = s, InTable(s)
        PROVE  row[k].rev <= skill[s].rev
    BY <2>3, TypesAssumption DEF MirrorInv, KnownInv, Known
  <2>4. ASSUME Live(s)
        PROVE  \E k \in Matches(s) :
                  row[k].rev = skill[s].rev /\ row[k].cur = skill[s].pkg
    <3>1. InTable(s) /\ HeadOp(s) = "upsert"
      BY <2>4 DEF Live, HeadOp
    <3>2. PICK h \in DOMAIN log : /\ LastOf(s, h, cursor) /\ log[h].op = "upsert"
                                  /\ log[h].rev = skill[s].rev
      BY <2>2, <3>1
    <3>3. PICK k \in RowIds : row[k].remoteId = s /\ row[k].rev >= skill[s].rev
      BY <3>1, <3>2 DEF MirrorInv, CoverInv
    <3>4. row[k].rev = skill[s].rev
      BY <2>1, <2>3, <3>1, <3>3
    <3>5. row[k].cur = skill[s].pkg
      BY <2>1, <3>1, <3>3, <3>4 DEF ExactInv, RowExact, AtHead
    <3> QED
      BY <3>3, <3>4, <3>5, MatchesByRemote
  <2>5. ASSUME skill[s].status = "deleted", NEW k \in Matches(s)
        PROVE  FALSE
    <3>1. InTable(s) /\ HeadOp(s) = "delete"
      BY <2>5 DEF InTable, HeadOp
    <3>2. PICK h \in DOMAIN log : /\ LastOf(s, h, cursor) /\ log[h].op = "delete"
                                  /\ log[h].rev = skill[s].rev
      BY <2>2, <3>1
    <3>3. k \in RowIds /\ row[k].remoteId = s
      BY MatchesByRemote DEF Matches
    <3>4. row[k].rev > skill[s].rev
      BY <2>1, <3>2, <3>3 DEF ExactInv, RowExact
    <3> QED
      BY <2>1, <2>3, <3>1, <3>3, <3>4
  <2> QED
    BY <2>4, <2>5
<1>2. ASSUME NothingGivenUp
      PROVE  SyncSpec => []Converged
  BY <1>1, <1>2, ExactHolds, PTL
<1> QED
  BY <1>2

=============================================================================
