-------------------------- MODULE LocalStoreProofs --------------------------
(***************************************************************************)
(* What LocalStore guarantees for any number of skills, mutations,         *)
(* revisions and pages: the invariants TLC checks through DesktopSync,     *)
(* proved from one inductive invariant with one lemma per store method.    *)
(***************************************************************************)
EXTENDS LocalStore, TLAPS

(* The rows themselves: a row that is gone leaves neither a remote id nor  *)
(* mutations behind (the foreign key cascades), a row that is there has a  *)
(* current snapshot.                                                       *)
RowsWellFormed ==
    \A k \in RowIds :
        /\ ~Present(k) => row[k].remoteId = None /\ outbox[k] = <<>>
        /\ Present(k) => row[k].cur \in Hashes

(* The inductive invariant.                                                *)
StoreInv ==
    /\ StoreTypeOK
    /\ ChainOrder
    /\ NoStaleWedge
    /\ OneRowPerRemote
    /\ RowsWellFormed

(* The parts of the invariant that speak of one chain.                     *)
Ordered(s) ==
    \A i, j \in DOMAIN s :
        i < j /\ s[j].state # "pending" => s[i].state = "acked"

Owes(s) == \E i \in DOMAIN s : s[i].state # "acked"

(* Every mutation of s that is not acked is in t, with its id and payload. *)
SameWork(s, t) ==
    \A i \in DOMAIN s :
        s[i].state # "acked"
          => i \in DOMAIN t /\ t[i].id = s[i].id /\ t[i].payload = s[i].payload

(* What UnackedWorkSurvives says of one step.                              *)
KeepsWork ==
    \A k \in RowIds : \A i \in Unacked(k) :
        /\ row'[k].state # "absent"
        /\ i \in DOMAIN outbox'[k]
        /\ outbox'[k][i].id = outbox[k][i].id
        /\ outbox'[k][i].payload = outbox[k][i].payload

-----------------------------------------------------------------------------
(* Changing the state (and the ack) of mutations leaves a chain a chain.   *)
LEMMA RestatedChain ==
    ASSUME NEW s \in Seq(Mutations), NEW t,
           t = [i \in DOMAIN s |-> t[i]],
           \A i \in DOMAIN s : t[i] \in Mutations
    PROVE  t \in Seq(Mutations) /\ DOMAIN t = DOMAIN s /\ Len(t) = Len(s)
<1>1. DOMAIN s = 1 .. Len(s) /\ Len(s) \in Nat
  OBVIOUS
<1>2. t \in [1 .. Len(s) -> Mutations]
  BY <1>1
<1> QED
  BY <1>1, <1>2

(* Appending a mutation extends a chain at its end.                        *)
LEMMA ExtendedChain ==
    ASSUME NEW s \in Seq(Mutations), NEW m \in Mutations
    PROVE  /\ Append(s, m) \in Seq(Mutations)
           /\ DOMAIN Append(s, m) = DOMAIN s \cup {Len(s) + 1}
           /\ \A i \in DOMAIN s : Append(s, m)[i] = s[i]
           /\ Append(s, m)[Len(s) + 1] = m
           /\ \A i \in DOMAIN s : i < Len(s) + 1
           /\ DOMAIN s \subseteq Nat /\ Len(s) + 1 \in Nat
  OBVIOUS

(* Initially there is nothing that could go wrong.                         *)
LEMMA InitHolds == StoreInit => StoreInv
<1> SUFFICES ASSUME StoreInit PROVE StoreInv
  OBVIOUS
<1>1. NoRow \in Rows
  BY DEF NoRow, Rows, RowStates
<1>2. StoreTypeOK
  BY <1>1 DEF StoreInit, StoreTypeOK
<1>3. \A k \in RowIds : row[k] = NoRow /\ outbox[k] = <<>>
  BY DEF StoreInit
<1>4. \A k \in RowIds : row[k].state = "absent" /\ row[k].remoteId = None
  BY <1>3 DEF NoRow
<1> QED
  BY <1>2, <1>3, <1>4 DEF StoreInv, ChainOrder, NoStaleWedge,
     OneRowPerRemote, RowsWellFormed, Present, RowIds

-----------------------------------------------------------------------------
(* A step that rewrites one row and its chain keeps the invariant if the   *)
(* new row and the new chain satisfy their parts of it.                    *)
LEMMA OneRowStep ==
    ASSUME StoreInv, NEW k \in RowIds,
           row' \in [RowIds -> Rows],
           outbox' \in [RowIds -> Seq(Mutations)],
           cursor' \in Nat, nextId' \in Nat,
           \A j \in RowIds \ {k} : row'[j] = row[j] /\ outbox'[j] = outbox[j],
           row'[k].state # "absent",
           row'[k].cur \in Hashes,
           row'[k].remoteId = row[k].remoteId \/ ~RemoteIdTaken(k, row'[k].remoteId),
           k \in ServerIds => row'[k].remoteId = k,
           Ordered(outbox'[k]),
           SameWork(outbox[k], outbox'[k]),
           row'[k].state \in {"dirty", "conflict", "sync_error"} => Owes(outbox'[k])
    PROVE  StoreInv' /\ KeepsWork
<1>1. StoreTypeOK'
  BY DEF StoreTypeOK
<1>2. ChainOrder'
  BY ZenonT(30) DEF StoreInv, ChainOrder, Ordered
<1>3. NoStaleWedge'
  BY ZenonT(30) DEF StoreInv, NoStaleWedge, Unacked, Owes
<1>4. OneRowPerRemote'
  <2>1. ASSUME NEW i \in RowIds, NEW j \in RowIds,
               row'[i].remoteId = row'[j].remoteId, row'[i].remoteId # None
        PROVE  i = j
    BY <2>1, ZenonT(30) DEF StoreInv, OneRowPerRemote, RemoteIdTaken
  <2>2. ASSUME NEW j \in ServerIds, Present(j)'
        PROVE  row'[j].remoteId = j
    BY <2>2 DEF StoreInv, OneRowPerRemote, Present, RowIds
  <2> QED
    BY <2>1, <2>2 DEF OneRowPerRemote
<1>5. RowsWellFormed'
  BY DEF StoreInv, RowsWellFormed, Present
<1>6. KeepsWork
  <2> SUFFICES ASSUME NEW j \in RowIds, NEW i \in Unacked(j)
               PROVE  /\ row'[j].state # "absent"
                      /\ i \in DOMAIN outbox'[j]
                      /\ outbox'[j][i].id = outbox[j][i].id
                      /\ outbox'[j][i].payload = outbox[j][i].payload
    BY DEF KeepsWork
  <2>1. CASE j = k
    BY <2>1 DEF SameWork, Unacked
  <2>2. CASE j # k
    <3>1. outbox[j] # <<>>
      BY DEF Unacked
    <3>2. row[j].state # "absent"
      BY <3>1 DEF StoreInv, RowsWellFormed, Present
    <3> QED
      BY <2>2, <3>2 DEF Unacked
  <2> QED
    BY <2>1, <2>2
<1> QED
  BY <1>1, <1>2, <1>3, <1>4, <1>5, <1>6 DEF StoreInv

(* Appending a pending mutation to a chain.                                *)
LEMMA AppendStep ==
    ASSUME StoreTypeOK, NEW k \in RowIds, NEW s \in Seq(Mutations),
           NEW m \in Mutations, m.state = "pending",
           Ordered(s), SameWork(outbox[k], s),
           outbox' = [outbox EXCEPT ![k] = Append(s, m)]
    PROVE  /\ outbox' \in [RowIds -> Seq(Mutations)]
           /\ \A j \in RowIds \ {k} : outbox'[j] = outbox[j]
           /\ Ordered(outbox'[k])
           /\ SameWork(outbox[k], outbox'[k])
           /\ Owes(outbox'[k])
<1> DEFINE t == Append(s, m)
<1>1. /\ t \in Seq(Mutations)
      /\ DOMAIN t = DOMAIN s \cup {Len(s) + 1}
      /\ \A i \in DOMAIN s : t[i] = s[i]
      /\ t[Len(s) + 1] = m
      /\ \A i \in DOMAIN s : i < Len(s) + 1
      /\ DOMAIN s \subseteq Nat /\ Len(s) + 1 \in Nat
  BY ExtendedChain
<1>2. outbox'[k] = t /\ outbox' \in [RowIds -> Seq(Mutations)]
  BY <1>1 DEF StoreTypeOK
<1>3. Ordered(t)
  BY <1>1 DEF Ordered
<1>4. SameWork(outbox[k], t)
  BY <1>1 DEF SameWork
<1>5. Owes(t)
  BY <1>1 DEF Owes
<1> QED
  BY <1>2, <1>3, <1>4, <1>5 DEF StoreTypeOK

(* Recording an outcome: mutation i of skill k, claimed and not acked yet. *)
LEMMA OutcomeStep ==
    ASSUME StoreInv, NEW k \in RowIds, NEW i \in DOMAIN outbox[k],
           outbox[k][i].state \notin {"acked", "pending"},
           NEW m \in Mutations, m.id = outbox[k][i].id,
           m.payload = outbox[k][i].payload,
           outbox' = [outbox EXCEPT ![k][i] = m]
    PROVE  /\ outbox' \in [RowIds -> Seq(Mutations)]
           /\ \A j \in RowIds \ {k} : outbox'[j] = outbox[j]
           /\ Ordered(outbox'[k])
           /\ SameWork(outbox[k], outbox'[k])
           /\ DOMAIN outbox'[k] = DOMAIN outbox[k]
           /\ outbox'[k][i] = m
           /\ \A j \in DOMAIN outbox[k] \ {i} : outbox'[k][j] = outbox[k][j]
<1> DEFINE t == [outbox[k] EXCEPT ![i] = m]
<1>1. outbox[k] \in Seq(Mutations)
  BY DEF StoreInv, StoreTypeOK
<1>2. /\ t = [j \in DOMAIN outbox[k] |-> t[j]]
      /\ t[i] = m
      /\ \A j \in DOMAIN outbox[k] \ {i} : t[j] = outbox[k][j]
      /\ \A j \in DOMAIN outbox[k] : outbox[k][j] \in Mutations
  BY <1>1
<1>3. t \in Seq(Mutations) /\ DOMAIN t = DOMAIN outbox[k]
  BY <1>1, <1>2, RestatedChain
<1>4. outbox'[k] = t /\ outbox' \in [RowIds -> Seq(Mutations)]
  BY <1>3 DEF StoreInv, StoreTypeOK
<1>5. Ordered(t)
  BY <1>1, <1>2, <1>3 DEF StoreInv, ChainOrder, Ordered
<1>6. SameWork(outbox[k], t)
  BY <1>2, <1>3 DEF SameWork
<1> QED
  BY <1>2, <1>3, <1>4, <1>5, <1>6 DEF StoreInv, StoreTypeOK

-----------------------------------------------------------------------------
(* The user's commands.                                                    *)

(* commit_skill_edit keeps the invariant and every mutation.               *)
LEMMA CommitSkillEditSafe ==
    ASSUME StoreInv, NEW k \in RowIds, NEW hash \in Hashes,
           NEW base \in {0, row[k].rev}, CommitSkillEdit(k, hash, base)
    PROVE  StoreInv' /\ KeepsWork
<1> DEFINE m == NewMutation(IF Present(k) THEN "update" ELSE "create", base, hash)
<1>1. /\ row[k] \in Rows /\ row \in [RowIds -> Rows]
      /\ outbox[k] \in Seq(Mutations)
      /\ base \in Nat /\ nextId \in Nat /\ cursor \in Nat
  BY DEF StoreInv, StoreTypeOK, Rows
<1>2. m \in Mutations /\ m.state = "pending"
  BY <1>1 DEF NewMutation, Mutations, MutStates
<1>3. outbox' = [outbox EXCEPT ![k] = Append(outbox[k], m)]
  BY DEF CommitSkillEdit
<1>4. Ordered(outbox[k]) /\ SameWork(outbox[k], outbox[k])
  BY DEF StoreInv, ChainOrder, Ordered, SameWork
<1>5. /\ outbox' \in [RowIds -> Seq(Mutations)]
      /\ \A j \in RowIds \ {k} : outbox'[j] = outbox[j]
      /\ Ordered(outbox'[k])
      /\ SameWork(outbox[k], outbox'[k])
      /\ Owes(outbox'[k])
  BY <1>1, <1>2, <1>3, <1>4, AppendStep DEF StoreInv
<1>6. /\ row' \in [RowIds -> Rows]
      /\ \A j \in RowIds \ {k} : row'[j] = row[j]
      /\ row'[k].state = "dirty" /\ row'[k].cur = hash
      /\ row'[k].remoteId = row[k].remoteId
  BY <1>1 DEF CommitSkillEdit, Rows, RowStates
<1>7. k \in ServerIds => row'[k].remoteId = k
  BY <1>6, TypesAssumption DEF CommitSkillEdit, StoreInv, OneRowPerRemote
<1>8. cursor' \in Nat /\ nextId' \in Nat
  BY <1>1 DEF CommitSkillEdit
<1> QED
  BY <1>5, <1>6, <1>7, <1>8, OneRowStep

(* queue_skill_delete keeps the invariant and every mutation.              *)
LEMMA QueueSkillDeleteSafe ==
    ASSUME StoreInv, NEW k \in RowIds, QueueSkillDelete(k, row[k].rev)
    PROVE  StoreInv' /\ KeepsWork
<1> DEFINE m == NewMutation("delete", row[k].rev, row[k].cur)
<1>1. /\ row[k] \in Rows /\ row \in [RowIds -> Rows]
      /\ outbox[k] \in Seq(Mutations)
      /\ row[k].rev \in Nat /\ nextId \in Nat /\ cursor \in Nat
  BY DEF StoreInv, StoreTypeOK, Rows
<1>2. row[k].cur \in Hashes /\ (k \in ServerIds => row[k].remoteId = k)
  BY DEF QueueSkillDelete, StoreInv, RowsWellFormed, OneRowPerRemote
<1>3. m \in Mutations /\ m.state = "pending"
  BY <1>1, <1>2 DEF NewMutation, Mutations, MutStates
<1>4. outbox' = [outbox EXCEPT ![k] = Append(outbox[k], m)]
  BY DEF QueueSkillDelete
<1>5. Ordered(outbox[k]) /\ SameWork(outbox[k], outbox[k])
  BY DEF StoreInv, ChainOrder, Ordered, SameWork
<1>6. /\ outbox' \in [RowIds -> Seq(Mutations)]
      /\ \A j \in RowIds \ {k} : outbox'[j] = outbox[j]
      /\ Ordered(outbox'[k])
      /\ SameWork(outbox[k], outbox'[k])
      /\ Owes(outbox'[k])
  BY <1>1, <1>3, <1>4, <1>5, AppendStep DEF StoreInv
<1>7. /\ row' \in [RowIds -> Rows]
      /\ \A j \in RowIds \ {k} : row'[j] = row[j]
      /\ row'[k].state = "dirty" /\ row'[k].cur = row[k].cur
      /\ row'[k].remoteId = row[k].remoteId
  BY <1>1 DEF QueueSkillDelete, Rows, RowStates
<1>8. cursor' \in Nat /\ nextId' \in Nat
  BY <1>1 DEF QueueSkillDelete
<1> QED
  BY <1>2, <1>6, <1>7, <1>8, OneRowStep

(* Superseding conflicts turns them into acks: the chain stays in order    *)
(* and loses nothing.                                                      *)
LEMMA SupersededChain ==
    ASSUME StoreInv, NEW k \in RowIds
    PROVE  /\ Superseded(k) \in Seq(Mutations)
           /\ Ordered(Superseded(k))
           /\ SameWork(outbox[k], Superseded(k))
<1>1. outbox[k] \in Seq(Mutations)
  BY DEF StoreInv, StoreTypeOK
<1>2. \A i \in DOMAIN outbox[k] : outbox[k][i] \in Mutations
  BY <1>1
<1>3. \A i \in DOMAIN outbox[k] :
         /\ Superseded(k)[i] \in Mutations
         /\ Superseded(k)[i].id = outbox[k][i].id
         /\ Superseded(k)[i].payload = outbox[k][i].payload
         /\ Superseded(k)[i].state = IF outbox[k][i].state = "conflict"
                                     THEN "acked" ELSE outbox[k][i].state
  BY <1>2 DEF Superseded, Mutations, MutStates
<1>4. /\ Superseded(k) \in Seq(Mutations)
      /\ DOMAIN Superseded(k) = DOMAIN outbox[k]
  <2>1. Superseded(k) = [i \in DOMAIN outbox[k] |-> Superseded(k)[i]]
    BY DEF Superseded
  <2> QED
    BY <1>1, <1>3, <2>1, RestatedChain
<1>5. Ordered(Superseded(k))
  BY <1>3, <1>4 DEF Ordered, StoreInv, ChainOrder
<1>6. SameWork(outbox[k], Superseded(k))
  BY <1>3, <1>4 DEF SameWork
<1> QED
  BY <1>4, <1>5, <1>6

(* resolve_keep_local keeps the invariant and every mutation.              *)
LEMMA ResolveKeepLocalSafe ==
    ASSUME StoreInv, NEW k \in RowIds, ResolveKeepLocal(k)
    PROVE  StoreInv' /\ KeepsWork
<1> DEFINE m == NewMutation("update", row[k].rev, row[k].cur)
<1>1. /\ row[k] \in Rows /\ row \in [RowIds -> Rows]
      /\ row[k].rev \in Nat /\ nextId \in Nat /\ cursor \in Nat
  BY DEF StoreInv, StoreTypeOK, Rows
<1>2. row[k].cur \in Hashes /\ (k \in ServerIds => row[k].remoteId = k)
  BY DEF ResolveKeepLocal, StoreInv, RowsWellFormed, OneRowPerRemote, Present
<1>3. m \in Mutations /\ m.state = "pending"
  BY <1>1, <1>2 DEF NewMutation, Mutations, MutStates
<1>4. outbox' = [outbox EXCEPT ![k] = Append(Superseded(k), m)]
  BY DEF ResolveKeepLocal
<1>5. /\ outbox' \in [RowIds -> Seq(Mutations)]
      /\ \A j \in RowIds \ {k} : outbox'[j] = outbox[j]
      /\ Ordered(outbox'[k])
      /\ SameWork(outbox[k], outbox'[k])
      /\ Owes(outbox'[k])
  BY <1>3, <1>4, SupersededChain, AppendStep DEF StoreInv
<1>6. /\ row' \in [RowIds -> Rows]
      /\ \A j \in RowIds \ {k} : row'[j] = row[j]
      /\ row'[k].state = "dirty" /\ row'[k].cur = row[k].cur
      /\ row'[k].remoteId = row[k].remoteId
  BY <1>1 DEF ResolveKeepLocal, Rows, RowStates
<1>7. cursor' \in Nat /\ nextId' \in Nat
  BY <1>1 DEF ResolveKeepLocal
<1> QED
  BY <1>2, <1>5, <1>6, <1>7, OneRowStep

(* resolve_keep_remote keeps the invariant and every mutation.             *)
LEMMA ResolveKeepRemoteSafe ==
    ASSUME StoreInv, NEW k \in RowIds, ResolveKeepRemote(k)
    PROVE  StoreInv' /\ KeepsWork
<1>1. /\ row[k] \in Rows /\ row \in [RowIds -> Rows]
      /\ nextId \in Nat /\ cursor \in Nat
  BY DEF StoreInv, StoreTypeOK
<1>2. k \in ServerIds => row[k].remoteId = k
  BY DEF ResolveKeepRemote, StoreInv, OneRowPerRemote, Present
<1>3. /\ outbox' \in [RowIds -> Seq(Mutations)]
      /\ \A j \in RowIds \ {k} : outbox'[j] = outbox[j]
      /\ outbox'[k] = Superseded(k)
  BY SupersededChain DEF ResolveKeepRemote, StoreInv, StoreTypeOK
<1>4. /\ row' \in [RowIds -> Rows]
      /\ \A j \in RowIds \ {k} : row'[j] = row[j]
      /\ row'[k].state = "remote_only" /\ row'[k].cur \in Hashes
      /\ row'[k].remoteId = row[k].remoteId
  BY <1>1 DEF ResolveKeepRemote, Rows, RowStates
<1>5. cursor' \in Nat /\ nextId' \in Nat
  BY <1>1 DEF ResolveKeepRemote
<1> QED
  BY <1>2, <1>3, <1>4, <1>5, SupersededChain, OneRowStep

(* mark_skill_hydrated and claim_skill_for_eviction relabel a clean row.   *)
LEMMA RelabelSafe ==
    ASSUME StoreInv, NEW k \in RowIds, NEW hash \in Hashes,
           MarkSkillHydrated(k, hash) \/ ClaimSkillForEviction(k, hash)
    PROVE  StoreInv' /\ KeepsWork
<1>1. /\ row[k] \in Rows /\ row \in [RowIds -> Rows]
      /\ outbox \in [RowIds -> Seq(Mutations)]
      /\ nextId \in Nat /\ cursor \in Nat
  BY DEF StoreInv, StoreTypeOK
<1>2. row[k].state # "absent" /\ row[k].cur \in Hashes
  BY DEF MarkSkillHydrated, ClaimSkillForEviction
<1>3. k \in ServerIds => row[k].remoteId = k
  BY <1>2 DEF StoreInv, OneRowPerRemote, Present
<1>4. /\ row' \in [RowIds -> Rows]
      /\ \A j \in RowIds \ {k} : row'[j] = row[j]
      /\ row'[k].state \in {"synced", "remote_only"}
      /\ row'[k].cur = row[k].cur
      /\ row'[k].remoteId = row[k].remoteId
  <2>1. PICK st \in {"synced", "remote_only"} :
           row' = [row EXCEPT ![k].state = st]
    BY DEF MarkSkillHydrated, ClaimSkillForEviction
  <2> QED
    BY <1>1, <2>1 DEF Rows, RowStates
<1>5. outbox' = outbox /\ cursor' = cursor /\ nextId' = nextId
  BY DEF MarkSkillHydrated, ClaimSkillForEviction
<1>6. Ordered(outbox[k]) /\ SameWork(outbox[k], outbox[k])
  BY DEF StoreInv, ChainOrder, Ordered, SameWork
<1> QED
  BY <1>1, <1>2, <1>3, <1>4, <1>5, <1>6, OneRowStep

-----------------------------------------------------------------------------
(* Outcomes.                                                               *)

(* apply_acked keeps the invariant: the label is cleared exactly when      *)
(* nothing is owed any more.                                               *)
LEMMA ApplyAckedSafe ==
    ASSUME StoreInv, NEW k \in RowIds, NEW i \in DOMAIN outbox[k],
           outbox[k][i].state # "pending",
           NEW rid \in ServerIds, NEW rev \in Nat,
           row[k].remoteId \in {None, rid}, ApplyAcked(k, i, rid, rev)
    PROVE  StoreInv' /\ KeepsWork
<1> DEFINE m == [outbox[k][i] EXCEPT !.state = "acked", !.ack = rev]
<1>1. /\ row[k] \in Rows /\ row \in [RowIds -> Rows]
      /\ outbox \in [RowIds -> Seq(Mutations)]
      /\ outbox[k][i] \in Mutations
      /\ rev \in Nat /\ nextId \in Nat /\ cursor \in Nat
  BY DEF StoreInv, StoreTypeOK
<1>2. /\ m \in Mutations /\ m.state = "acked"
      /\ m.id = outbox[k][i].id /\ m.payload = outbox[k][i].payload
  BY <1>1 DEF Mutations, MutStates
<1>3. outbox' = [outbox EXCEPT ![k][i] = m]
  BY DEF ApplyAcked
<1>4. /\ outbox' \in [RowIds -> Seq(Mutations)]
      /\ \A j \in RowIds \ {k} : outbox'[j] = outbox[j]
      /\ Ordered(outbox'[k])
      /\ SameWork(outbox[k], outbox'[k])
      /\ DOMAIN outbox'[k] = DOMAIN outbox[k]
      /\ \A j \in DOMAIN outbox[k] \ {i} : outbox'[k][j] = outbox[k][j]
  <2>1. outbox[k][i].state \notin {"acked", "pending"}
    BY DEF ApplyAcked
  <2> HIDE DEF m
  <2> QED
    BY <1>2, <1>3, <2>1, OutcomeStep
<1>5. outbox[k] # <<>>
  OBVIOUS
<1>6. row[k].state # "absent" /\ row[k].cur \in Hashes
  BY <1>5 DEF StoreInv, RowsWellFormed, Present
<1>7. /\ row' \in [RowIds -> Rows]
      /\ \A j \in RowIds \ {k} : row'[j] = row[j]
      /\ row'[k].cur = row[k].cur
      /\ row'[k].remoteId = rid
      /\ row'[k].state = IF /\ row[k].state \in {"dirty", "sync_error", "conflict"}
                            /\ AllAckedBut(k, i)
                         THEN "synced" ELSE row[k].state
  BY <1>1 DEF ApplyAcked, Rows, RowStates
<1>8. row'[k].state \in {"dirty", "conflict", "sync_error"} => Owes(outbox'[k])
  BY <1>4, <1>7 DEF AllAckedBut, Unacked, Owes
<1>9. k \in ServerIds => rid = k
  <2>1. k \in ServerIds => row[k].remoteId = k /\ k # None
    BY <1>6, TypesAssumption DEF StoreInv, OneRowPerRemote, Present
  <2> QED
    BY <2>1
<1>10. ~RemoteIdTaken(k, rid) /\ cursor' \in Nat /\ nextId' \in Nat
  BY <1>1 DEF ApplyAcked
<1>11. row'[k].state # "absent"
  BY <1>6, <1>7
<1> QED
  BY <1>4, <1>6, <1>7, <1>8, <1>9, <1>10, <1>11, OneRowStep

(* apply_definitive_error keeps the invariant: whatever it labels the row, *)
(* the refused mutation is still owed.                                     *)
LEMMA DefinitiveErrorSafe ==
    ASSUME StoreInv, NEW k \in RowIds, NEW i \in DOMAIN outbox[k],
           outbox[k][i].state # "pending",
           NEW mutState \in {"conflict", "permission_denied", "permanent_error"},
           NEW rowState \in {"conflict", "access_revoked", "sync_error"},
           NEW head \in Nat, NEW hash \in Hashes \cup {None},
           DefinitiveError(k, i, mutState, rowState, head, hash)
    PROVE  StoreInv' /\ KeepsWork
<1> DEFINE m == [outbox[k][i] EXCEPT !.state = mutState]
<1>1. /\ row[k] \in Rows /\ row \in [RowIds -> Rows]
      /\ outbox \in [RowIds -> Seq(Mutations)]
      /\ outbox[k][i] \in Mutations
      /\ nextId \in Nat /\ cursor \in Nat
  BY DEF StoreInv, StoreTypeOK
<1>2. /\ m \in Mutations /\ m.state = mutState
      /\ m.id = outbox[k][i].id /\ m.payload = outbox[k][i].payload
  BY <1>1 DEF Mutations, MutStates
<1>3. outbox' = [outbox EXCEPT ![k][i] = m]
  BY DEF DefinitiveError
<1>4. /\ outbox' \in [RowIds -> Seq(Mutations)]
      /\ \A j \in RowIds \ {k} : outbox'[j] = outbox[j]
      /\ Ordered(outbox'[k])
      /\ SameWork(outbox[k], outbox'[k])
      /\ DOMAIN outbox'[k] = DOMAIN outbox[k]
      /\ outbox'[k][i] = m
  <2>1. outbox[k][i].state \notin {"acked", "pending"}
    BY DEF DefinitiveError
  <2> HIDE DEF m
  <2> QED
    BY <1>2, <1>3, <2>1, OutcomeStep
<1>5. outbox[k] # <<>>
  OBVIOUS
<1>6. /\ row[k].cur \in Hashes
      /\ k \in ServerIds => row[k].remoteId = k
  BY <1>5 DEF StoreInv, RowsWellFormed, OneRowPerRemote, Present
<1>7. /\ row' \in [RowIds -> Rows]
      /\ \A j \in RowIds \ {k} : row'[j] = row[j]
      /\ row'[k].cur = row[k].cur
      /\ row'[k].remoteId = row[k].remoteId
      /\ row'[k].state = rowState
  BY <1>1 DEF DefinitiveError, Rows, RowStates
<1>8. Owes(outbox'[k])
  BY <1>2, <1>4 DEF Owes
<1>9. cursor' \in Nat /\ nextId' \in Nat
  BY <1>1 DEF DefinitiveError
<1> QED
  BY <1>4, <1>6, <1>7, <1>8, <1>9, OneRowStep

-----------------------------------------------------------------------------
(* Dispatch.                                                               *)

(* Moving mutations that head their chains, and are not acked, to another  *)
(* state: claiming, releasing, recovering, backing off.                    *)
LEMMA MovedSafe ==
    ASSUME StoreInv, NEW entries, NEW st \in MutStates \ {"acked"},
           \A p \in entries : StateOf(p) # "acked" /\ HeadsChain(p),
           outbox' = Moved(entries, st), UNCHANGED <<row, cursor, nextId>>
    PROVE  StoreInv' /\ KeepsWork
<1>1. \A k \in RowIds : outbox[k] \in Seq(Mutations)
  BY DEF StoreInv, StoreTypeOK
<1>2. \A k \in RowIds :
         outbox'[k] = [i \in DOMAIN outbox[k] |->
            IF <<k, i>> \in entries THEN [outbox[k][i] EXCEPT !.state = st]
                                    ELSE outbox[k][i]]
  BY DEF Moved
<1>3. \A k \in RowIds : \A i \in DOMAIN outbox[k] : outbox[k][i] \in Mutations
  BY <1>1
<1>4. \A k \in RowIds : \A i \in DOMAIN outbox[k] :
         /\ outbox'[k][i] \in Mutations
         /\ outbox'[k][i].id = outbox[k][i].id
         /\ outbox'[k][i].payload = outbox[k][i].payload
         /\ outbox'[k][i].state = IF <<k, i>> \in entries THEN st
                                  ELSE outbox[k][i].state
  <2> SUFFICES ASSUME NEW k \in RowIds, NEW i \in DOMAIN outbox[k]
               PROVE  /\ outbox'[k][i] \in Mutations
                      /\ outbox'[k][i].id = outbox[k][i].id
                      /\ outbox'[k][i].payload = outbox[k][i].payload
                      /\ outbox'[k][i].state = IF <<k, i>> \in entries THEN st
                                               ELSE outbox[k][i].state
    OBVIOUS
  <2>1. CASE <<k, i>> \in entries
    <3>1. outbox'[k][i] = [outbox[k][i] EXCEPT !.state = st]
      BY <1>2, <2>1
    <3>2. outbox[k][i] \in Mutations
      BY <1>3
    <3> QED
      BY <2>1, <3>1, <3>2 DEF Mutations
  <2>2. CASE <<k, i>> \notin entries
    <3>1. outbox'[k][i] = outbox[k][i]
      BY <1>2, <2>2
    <3> QED
      BY <1>3, <2>2, <3>1
  <2> QED
    BY <2>1, <2>2
<1>5. \A k \in RowIds : outbox'[k] \in Seq(Mutations)
                         /\ DOMAIN outbox'[k] = DOMAIN outbox[k]
  <2> SUFFICES ASSUME NEW k \in RowIds
               PROVE  outbox'[k] \in Seq(Mutations)
                        /\ DOMAIN outbox'[k] = DOMAIN outbox[k]
    OBVIOUS
  <2>1. outbox'[k] = [i \in DOMAIN outbox[k] |-> outbox'[k][i]]
    BY <1>2
  <2> QED
    BY <1>1, <1>4, <2>1, RestatedChain
<1>6. StoreTypeOK'
  <2>1. outbox' = [k \in RowIds |-> outbox'[k]]
    BY DEF Moved
  <2>2. outbox' \in [RowIds -> Seq(Mutations)]
    BY <1>5, <2>1
  <2> QED
    BY <2>2 DEF StoreInv, StoreTypeOK
<1>7. \A k \in RowIds : \A i \in DOMAIN outbox[k] :
         <<k, i>> \in entries
           => /\ outbox[k][i].state # "acked"
              /\ \A j \in DOMAIN outbox[k] : j < i => outbox[k][j].state = "acked"
  BY DEF StateOf, HeadsChain
<1>8. \A k \in RowIds : \A i \in DOMAIN outbox[k] :
         (outbox'[k][i].state = "acked") <=> (outbox[k][i].state = "acked")
  <2> SUFFICES ASSUME NEW k \in RowIds, NEW i \in DOMAIN outbox[k]
               PROVE  (outbox'[k][i].state = "acked")
                        <=> (outbox[k][i].state = "acked")
    OBVIOUS
  <2>1. CASE <<k, i>> \in entries
    BY <1>4, <1>7, <2>1
  <2>2. CASE <<k, i>> \notin entries
    BY <1>4, <2>2
  <2> QED
    BY <2>1, <2>2
<1>9. ChainOrder'
  <2> SUFFICES ASSUME NEW k \in RowIds,
                      NEW i \in DOMAIN outbox'[k], NEW j \in DOMAIN outbox'[k],
                      i < j, outbox'[k][j].state # "pending"
               PROVE  outbox'[k][i].state = "acked"
    BY DEF ChainOrder
  <2>1. i \in DOMAIN outbox[k] /\ j \in DOMAIN outbox[k]
    BY <1>5
  <2>2. CASE <<k, j>> \in entries
    BY <1>7, <1>8, <2>1, <2>2
  <2>3. CASE <<k, j>> \notin entries
    <3>1. outbox[k][j].state # "pending"
      BY <1>4, <2>1, <2>3
    <3> QED
      BY <1>8, <2>1, <3>1 DEF StoreInv, ChainOrder
  <2> QED
    BY <2>2, <2>3
<1>10. \A k \in RowIds : Unacked(k)' = Unacked(k)
  BY <1>5, <1>8 DEF Unacked
<1>11. NoStaleWedge'
  BY <1>10 DEF StoreInv, NoStaleWedge
<1>12. OneRowPerRemote'
  BY DEF StoreInv, OneRowPerRemote, Present
<1>13. RowsWellFormed'
  <2> SUFFICES ASSUME NEW k \in RowIds, ~Present(k)
               PROVE  outbox'[k] = <<>>
    BY DEF StoreInv, RowsWellFormed, Present
  <2>1. outbox[k] = <<>>
    BY DEF StoreInv, RowsWellFormed
  <2> QED
    BY <1>5, <2>1
<1>14. KeepsWork
  <2> SUFFICES ASSUME NEW k \in RowIds, NEW i \in Unacked(k)
               PROVE  /\ row'[k].state # "absent"
                      /\ i \in DOMAIN outbox'[k]
                      /\ outbox'[k][i].id = outbox[k][i].id
                      /\ outbox'[k][i].payload = outbox[k][i].payload
    BY DEF KeepsWork
  <2>1. i \in DOMAIN outbox[k] /\ outbox[k] # <<>>
    BY DEF Unacked
  <2> QED
    BY <1>4, <1>5, <2>1 DEF StoreInv, RowsWellFormed, Present
<1> QED
  BY <1>6, <1>9, <1>11, <1>12, <1>13, <1>14 DEF StoreInv

(* The entries that the dispatch actions move qualify for MovedSafe.       *)
LEMMA HeadsOfChains ==
    ASSUME StoreInv
    PROVE  /\ \A p \in Dispatchable : StateOf(p) # "acked" /\ HeadsChain(p)
           /\ \A p \in Entries : StateOf(p) \notin {"pending", "acked"}
                                   => StateOf(p) # "acked" /\ HeadsChain(p)
<1>1. \A p \in Dispatchable : StateOf(p) # "acked" /\ HeadsChain(p)
  BY DEF Dispatchable
<1>2. ASSUME NEW p \in Entries, StateOf(p) # "pending"
      PROVE  HeadsChain(p)
  <2>1. PICK k \in RowIds : p \in {k} \X DOMAIN outbox[k]
    BY DEF Entries
  <2>2. p[1] = k /\ p[2] \in DOMAIN outbox[k]
    BY <2>1
  <2> QED
    BY <1>2, <2>2 DEF StoreInv, ChainOrder, StateOf, HeadsChain
<1> QED
  BY <1>1, <1>2

(* claim_dispatchable_mutations keeps the invariant and every mutation.    *)
LEMMA ClaimSafe ==
    ASSUME StoreInv, NEW batch, ClaimDispatchable(batch)
    PROVE  StoreInv' /\ KeepsWork
<1>1. \A p \in batch : StateOf(p) # "acked" /\ HeadsChain(p)
  BY HeadsOfChains DEF ClaimDispatchable
<1>2. "in_flight" \in MutStates \ {"acked"}
  BY DEF MutStates
<1> QED
  BY <1>1, <1>2, MovedSafe DEF ClaimDispatchable

(* So do releasing an undispatched tail and recovering at process start.   *)
LEMMA ReleaseSafe ==
    ASSUME StoreInv,
           (\E ids : ReleaseInFlight(ids)) \/ RecoverInFlight
    PROVE  StoreInv' /\ KeepsWork
<1>1. \A p \in InFlight : StateOf(p) # "acked" /\ HeadsChain(p)
  BY HeadsOfChains DEF InFlight
<1>2. "retryable_error" \in MutStates \ {"acked"}
  BY DEF MutStates
<1>3. ASSUME NEW ids, ReleaseInFlight(ids)
      PROVE  StoreInv' /\ KeepsWork
  <2> DEFINE tail == {p \in InFlight : outbox[p[1]][p[2]].id \in ids}
  <2>1. \A p \in tail : StateOf(p) # "acked" /\ HeadsChain(p)
    BY <1>1
  <2>2. outbox' = Moved(tail, "retryable_error") /\ UNCHANGED <<row, cursor, nextId>>
    BY <1>3 DEF ReleaseInFlight
  <2> HIDE DEF tail
  <2> QED
    BY <1>2, <2>1, <2>2, MovedSafe
<1>4. ASSUME RecoverInFlight
      PROVE  StoreInv' /\ KeepsWork
  BY <1>1, <1>2, <1>4, MovedSafe DEF RecoverInFlight
<1> QED
  BY <1>3, <1>4

(* A transport error and the end of its backoff restate one mutation and   *)
(* leave its row alone.                                                    *)
LEMMA RetrySafe ==
    ASSUME StoreInv, NEW k \in RowIds, NEW i \in DOMAIN outbox[k],
           outbox[k][i].state # "pending",
           ApplyTransportError(k, i) \/ BackoffElapses(k, i)
    PROVE  StoreInv' /\ KeepsWork
<1>1. PICK st \in {"retry_later", "retryable_error"} :
         outbox' = [outbox EXCEPT ![k][i].state = st]
  BY DEF ApplyTransportError, BackoffElapses
<1> DEFINE m == [outbox[k][i] EXCEPT !.state = st]
<1>2. /\ row' = row /\ cursor' = cursor /\ nextId' = nextId
      /\ outbox[k][i].state \notin {"acked", "pending"}
  BY DEF ApplyTransportError, BackoffElapses
<1>3. /\ row \in [RowIds -> Rows] /\ cursor \in Nat /\ nextId \in Nat
      /\ outbox \in [RowIds -> Seq(Mutations)] /\ outbox[k][i] \in Mutations
  BY DEF StoreInv, StoreTypeOK
<1>4. /\ m \in Mutations /\ m.state = st
      /\ m.id = outbox[k][i].id /\ m.payload = outbox[k][i].payload
  BY <1>3 DEF Mutations, MutStates
<1>5. outbox' = [outbox EXCEPT ![k][i] = m]
  BY <1>1
<1>6. /\ outbox' \in [RowIds -> Seq(Mutations)]
      /\ \A j \in RowIds \ {k} : outbox'[j] = outbox[j]
      /\ Ordered(outbox'[k])
      /\ SameWork(outbox[k], outbox'[k])
      /\ DOMAIN outbox'[k] = DOMAIN outbox[k]
      /\ outbox'[k][i] = m
  <2> HIDE DEF m
  <2> QED
    BY <1>2, <1>4, <1>5, OutcomeStep
<1>7. outbox[k] # <<>>
  OBVIOUS
<1>8. /\ row[k].state # "absent" /\ row[k].cur \in Hashes
      /\ k \in ServerIds => row[k].remoteId = k
  BY <1>7 DEF StoreInv, RowsWellFormed, OneRowPerRemote, Present
<1>9. Owes(outbox'[k])
  BY <1>4, <1>6 DEF Owes
<1> QED
  BY <1>2, <1>3, <1>6, <1>8, <1>9, OneRowStep

-----------------------------------------------------------------------------
(* Pull.                                                                   *)

(* A row that matches a server skill knows it by its remote id.            *)
LEMMA MatchesMirror ==
    ASSUME StoreInv, NEW rid \in ServerIds, NEW k \in Matches(rid)
    PROVE  /\ k \in RowIds /\ Present(k) /\ row[k].remoteId = rid
           /\ row[k].remoteId # None /\ row[k].cur \in Hashes
<1>1. k \in RowIds /\ Present(k) /\ (k = rid \/ row[k].remoteId = rid)
  BY DEF Matches
<1>2. row[k].remoteId = rid
  BY <1>1 DEF StoreInv, OneRowPerRemote
<1> QED
  BY <1>1, <1>2, TypesAssumption DEF StoreInv, RowsWellFormed

(* apply_upsert keeps the invariant and every mutation.                    *)
LEMMA ApplyUpsertSafe ==
    ASSUME StoreInv, NEW rid \in ServerIds, NEW rev \in Nat,
           NEW hash \in Hashes, NEW next \in Nat,
           ApplyUpsert(rid, rev, hash, next)
    PROVE  StoreInv' /\ KeepsWork
<1>1. /\ row \in [RowIds -> Rows] /\ outbox \in [RowIds -> Seq(Mutations)]
      /\ cursor' \in Nat /\ nextId' \in Nat /\ outbox' = outbox
      /\ rev \in Nat
  BY DEF StoreInv, StoreTypeOK, ApplyUpsert
<1>2. \A k \in RowIds : Ordered(outbox[k]) /\ SameWork(outbox[k], outbox[k])
  BY DEF StoreInv, ChainOrder, Ordered, SameWork
<1>3. CASE Matches(rid) = {}
  <2>1. rid \in RowIds /\ UpsertNew(rid, rev, hash)
    BY <1>3 DEF ApplyUpsert, RowIds
  <2>2. ~RemoteIdTaken(rid, rid)
    <3> SUFFICES ASSUME NEW j \in RowIds, row[j].remoteId = rid
                 PROVE  FALSE
      BY DEF RemoteIdTaken
    <3>1. ~Present(j)
      BY <1>3 DEF Matches
    <3> QED
      BY <3>1, TypesAssumption DEF StoreInv, RowsWellFormed
  <2>3. /\ row' \in [RowIds -> Rows]
        /\ \A j \in RowIds \ {rid} : row'[j] = row[j]
        /\ row'[rid].state = "remote_only" /\ row'[rid].cur = hash
        /\ row'[rid].remoteId = rid
    BY <1>1, <2>1 DEF UpsertNew, Rows, RowStates
  <2> QED
    BY <1>1, <1>2, <2>1, <2>2, <2>3, OneRowStep, SMTT(30)
<1>4. CASE Matches(rid) # {}
  <2>1. PICK k \in Matches(rid) : UpsertMatched(k, rev, hash)
    BY <1>4 DEF ApplyUpsert
  <2>2. /\ k \in RowIds /\ Present(k) /\ row[k].remoteId = rid
        /\ row[k].remoteId # None /\ row[k].cur \in Hashes
    BY MatchesMirror
  <2>3. row[k] \in Rows
    BY <1>1, <2>2
  <2>4. k \in ServerIds => row[k].remoteId = k
    BY <2>2 DEF StoreInv, OneRowPerRemote
  <2>5. row[k].state \in {"dirty", "conflict", "sync_error"} => Owes(outbox[k])
    BY <2>2 DEF StoreInv, NoStaleWedge, Unacked, Owes
  <2>6. CASE Stale(k, rev)
    <3>1. row' = row
      BY <1>1, <2>1, <2>2, <2>6 DEF UpsertMatched
    <3> QED
      BY <1>1, <1>2, <2>2, <2>4, <2>5, <3>1, OneRowStep DEF Present
  <2>7. CASE ~Stale(k, rev)
    <3> DEFINE r == Refreshed(k, rev, hash)
    <3>1. row' = [row EXCEPT ![k] = r]
      BY <2>1, <2>7 DEF UpsertMatched
    <3>2. /\ r \in Rows
          /\ r.cur \in Hashes
          /\ r.remoteId = row[k].remoteId
          /\ r.state \in {"conflict", "remote_only", "synced"}
          /\ r.state = "conflict" => KeepsLocalHead(k)
      BY <1>1, <2>2, <2>3 DEF Refreshed, Rows, RowStates
    <3> HIDE DEF r
    <3>3. /\ row' \in [RowIds -> Rows] /\ row'[k] = r
          /\ \A j \in RowIds \ {k} : row'[j] = row[j]
      BY <1>1, <2>2, <3>1, <3>2
    <3>4. row'[k].state \in {"dirty", "conflict", "sync_error"}
             => Owes(outbox'[k])
      BY <1>1, <2>5, <3>2, <3>3 DEF KeepsLocalHead
    <3> QED
      BY <1>1, <1>2, <2>2, <2>4, <3>2, <3>3, <3>4, OneRowStep
  <2> QED
    BY <2>6, <2>7
<1> QED
  BY <1>3, <1>4

(* apply_tombstone keeps the invariant and every unacked mutation: a row   *)
(* goes only when nothing is owed.                                         *)
LEMMA ApplyTombstoneSafe ==
    ASSUME StoreInv, NEW rid \in ServerIds, NEW rev \in Nat,
           NEW next \in Nat, ApplyTombstone(rid, rev, next)
    PROVE  StoreInv' /\ KeepsWork
<1>1. /\ row \in [RowIds -> Rows] /\ outbox \in [RowIds -> Seq(Mutations)]
      /\ cursor' \in Nat /\ nextId' \in Nat /\ rev \in Nat
  BY DEF StoreInv, StoreTypeOK, ApplyTombstone
<1>2. CASE row' = row /\ outbox' = outbox
  BY <1>1, <1>2 DEF StoreInv, StoreTypeOK, ChainOrder, NoStaleWedge,
     OneRowPerRemote, RowsWellFormed, KeepsWork, Present, Unacked
<1>3. CASE ~(row' = row /\ outbox' = outbox)
  <2>1. PICK k \in Matches(rid) : TombstoneMatched(k, rev) /\ ~Stale(k, rev)
    BY <1>3 DEF ApplyTombstone, TombstoneMatched
  <2>2. /\ k \in RowIds /\ Present(k) /\ row[k].remoteId = rid
        /\ row[k].cur \in Hashes
    BY MatchesMirror
  <2>3. CASE Unacked(k) # {}
    <3>1. row' = [row EXCEPT ![k].rev = rev, ![k].state = "conflict"]
            /\ outbox' = outbox
      BY <2>1, <2>3 DEF TombstoneMatched
    <3>2. /\ row' \in [RowIds -> Rows]
          /\ \A j \in RowIds \ {k} : row'[j] = row[j]
          /\ row'[k].state = "conflict" /\ row'[k].cur = row[k].cur
          /\ row'[k].remoteId = row[k].remoteId
      BY <1>1, <2>2, <3>1, ZenonT(30) DEF Rows, RowStates
    <3>3. /\ Ordered(outbox[k]) /\ SameWork(outbox[k], outbox[k])
          /\ Owes(outbox[k])
      BY <2>2, <2>3 DEF StoreInv, ChainOrder, Ordered, SameWork, Unacked, Owes
    <3>4. k \in ServerIds => row[k].remoteId = k
      BY <2>2 DEF StoreInv, OneRowPerRemote
    <3> QED
      BY <1>1, <2>2, <3>1, <3>2, <3>3, <3>4, OneRowStep
  <2>4. CASE Unacked(k) = {}
    <3>1. /\ row' = [row EXCEPT ![k] = NoRow]
          /\ outbox' = [outbox EXCEPT ![k] = <<>>]
      BY <2>1, <2>4 DEF TombstoneMatched
    <3>2. NoRow \in Rows /\ NoRow.state = "absent" /\ NoRow.remoteId = None
      BY DEF NoRow, Rows, RowStates
    <3>3. /\ \A j \in RowIds \ {k} : row'[j] = row[j] /\ outbox'[j] = outbox[j]
          /\ row'[k].state = "absent" /\ row'[k].remoteId = None
          /\ outbox'[k] = <<>>
      <4>1. row'[k] = NoRow
        BY <1>1, <2>2, <3>1
      <4>2. \A j \in RowIds \ {k} : row'[j] = row[j]
        BY <1>1, <3>1
      <4>3. outbox'[k] = <<>> /\ \A j \in RowIds \ {k} : outbox'[j] = outbox[j]
        BY <1>1, <2>2, <3>1
      <4> QED
        BY <3>2, <4>1, <4>2, <4>3
    <3>4. StoreTypeOK'
      <4>1. row' \in [RowIds -> Rows]
        BY <1>1, <3>1, <3>2
      <4>2. outbox' \in [RowIds -> Seq(Mutations)]
        <5> DEFINE empty == <<>>
        <5>1. empty \in Seq(Mutations)
          OBVIOUS
        <5>2. outbox' = [outbox EXCEPT ![k] = empty]
          BY <3>1
        <5> HIDE DEF empty
        <5> QED
          BY <1>1, <5>1, <5>2
      <4> QED
        BY <1>1, <4>1, <4>2 DEF StoreTypeOK
    <3>5. ChainOrder'
      BY <3>3 DEF StoreInv, ChainOrder
    <3>6. NoStaleWedge'
      BY <3>3 DEF StoreInv, NoStaleWedge, Unacked
    <3>7. OneRowPerRemote'
      BY <3>3 DEF StoreInv, OneRowPerRemote, Present, RowIds
    <3>8. RowsWellFormed'
      BY <3>3 DEF StoreInv, RowsWellFormed, Present
    <3>9. KeepsWork
      <4> SUFFICES ASSUME NEW j \in RowIds, NEW i \in Unacked(j)
                   PROVE  /\ row'[j].state # "absent"
                          /\ i \in DOMAIN outbox'[j]
                          /\ outbox'[j][i].id = outbox[j][i].id
                          /\ outbox'[j][i].payload = outbox[j][i].payload
        BY DEF KeepsWork
      <4>1. j # k /\ i \in DOMAIN outbox[j] /\ outbox[j] # <<>>
        BY <2>4 DEF Unacked
      <4> QED
        BY <3>3, <4>1 DEF StoreInv, RowsWellFormed, Present
    <3> QED
      BY <3>4, <3>5, <3>6, <3>7, <3>8, <3>9 DEF StoreInv
  <2> QED
    BY <2>3, <2>4
<1> QED
  BY <1>2, <1>3

(* A page whose changes are all hidden, and a stuttering step.             *)
LEMMA NothingChangesSafe ==
    ASSUME StoreInv, row' = row, outbox' = outbox, nextId' = nextId,
           cursor' \in Nat
    PROVE  StoreInv' /\ KeepsWork
  BY DEF StoreInv, StoreTypeOK, ChainOrder, NoStaleWedge, OneRowPerRemote,
     RowsWellFormed, KeepsWork, Present, Unacked

-----------------------------------------------------------------------------
(* Every step of the store keeps the invariant and all unacked work.       *)
LEMMA StepSafe == StoreInv /\ [StoreNext]_storeVars => StoreInv' /\ KeepsWork
<1> SUFFICES ASSUME StoreInv, [StoreNext]_storeVars
             PROVE  StoreInv' /\ KeepsWork
  OBVIOUS
<1>0. Revs \subseteq Nat /\ Cursors \subseteq Nat
  BY StoreAssumption DEF Revs, Cursors
<1>1. CASE UserNext
  <2>1. PICK k \in RowIds :
          \/ \E hash \in Hashes, base \in {0, row[k].rev} :
                CommitSkillEdit(k, hash, base)
          \/ QueueSkillDelete(k, row[k].rev)
          \/ ResolveKeepLocal(k)
          \/ ResolveKeepRemote(k)
          \/ \E hash \in Hashes : MarkSkillHydrated(k, hash)
          \/ \E hash \in Hashes : ClaimSkillForEviction(k, hash)
    BY <1>1 DEF UserNext
  <2> QED
    BY <2>1, CommitSkillEditSafe, QueueSkillDeleteSafe, ResolveKeepLocalSafe,
       ResolveKeepRemoteSafe, RelabelSafe
<1>2. CASE OutcomeNext
  <2>0. PICK k \in RowIds :
          \E i \in DOMAIN outbox[k] :
             /\ outbox[k][i].state # "pending"
             /\ \/ \E rid \in ServerIds, rev \in Revs :
                      row[k].remoteId \in {None, rid} /\ ApplyAcked(k, i, rid, rev)
                \/ \E head \in Revs, hash \in Hashes :
                      ApplyConflict(k, i, head, hash)
                \/ ApplyPermissionDenied(k, i)
                \/ ApplyValidationError(k, i)
                \/ ApplyTransportError(k, i)
    BY <1>2 DEF OutcomeNext
  <2>1. PICK i \in DOMAIN outbox[k] :
          /\ outbox[k][i].state # "pending"
          /\ \/ \E rid \in ServerIds, rev \in Revs :
                   row[k].remoteId \in {None, rid} /\ ApplyAcked(k, i, rid, rev)
             \/ \E head \in Revs, hash \in Hashes :
                   ApplyConflict(k, i, head, hash)
             \/ ApplyPermissionDenied(k, i)
             \/ ApplyValidationError(k, i)
             \/ ApplyTransportError(k, i)
    BY <2>0
  <2>2. ASSUME NEW rid \in ServerIds, NEW rev \in Revs,
               row[k].remoteId \in {None, rid}, ApplyAcked(k, i, rid, rev)
        PROVE  StoreInv' /\ KeepsWork
    BY <1>0, <2>1, <2>2, ApplyAckedSafe
  <2>3. ASSUME NEW head \in Revs, NEW hash \in Hashes,
               ApplyConflict(k, i, head, hash)
        PROVE  StoreInv' /\ KeepsWork
    <3>1. head \in Nat
      BY <1>0
    <3> QED
      BY <2>1, <2>3, <3>1, DefinitiveErrorSafe DEF ApplyConflict
  <2>4. CASE ApplyPermissionDenied(k, i)
    BY <2>1, <2>4, DefinitiveErrorSafe DEF ApplyPermissionDenied
  <2>5. CASE ApplyValidationError(k, i)
    BY <2>1, <2>5, DefinitiveErrorSafe DEF ApplyValidationError
  <2>6. CASE ApplyTransportError(k, i)
    BY <2>1, <2>6, RetrySafe
  <2> QED
    BY <2>1, <2>2, <2>3, <2>4, <2>5, <2>6
<1>3. CASE PullNext
  <2>1. PICK next \in Cursors :
          \/ \E rid \in ServerIds, rev \in Revs, hash \in Hashes :
                ApplyUpsert(rid, rev, hash, next)
          \/ \E rid \in ServerIds, rev \in Revs : ApplyTombstone(rid, rev, next)
          \/ ApplyEmptyPage(next)
    BY <1>3 DEF PullNext
  <2>2. CASE ApplyEmptyPage(next)
    BY <1>0, <2>2, NothingChangesSafe DEF ApplyEmptyPage
  <2> QED
    BY <1>0, <2>1, <2>2, ApplyUpsertSafe, ApplyTombstoneSafe
<1>4. CASE DispatchNext
  <2>1. CASE \E batch \in SUBSET Dispatchable : ClaimDispatchable(batch)
    BY <2>1, ClaimSafe
  <2>2. CASE \/ \E ids \in SUBSET (1 .. MaxMutations) : ReleaseInFlight(ids)
             \/ RecoverInFlight
    BY <2>2, ReleaseSafe
  <2>3. ASSUME NEW k \in RowIds, NEW i \in DOMAIN outbox[k],
               BackoffElapses(k, i)
        PROVE  StoreInv' /\ KeepsWork
    <3>1. outbox[k][i].state # "pending"
      BY <2>3 DEF BackoffElapses
    <3> QED
      BY <2>3, <3>1, RetrySafe
  <2> QED
    BY <1>4, <2>1, <2>2, <2>3 DEF DispatchNext
<1>5. CASE UNCHANGED storeVars
  <2>1. cursor \in Nat
    BY DEF StoreInv, StoreTypeOK
  <2> QED
    BY <1>5, <2>1, NothingChangesSafe DEF storeVars
<1> QED
  BY <1>1, <1>2, <1>3, <1>4, <1>5 DEF StoreNext

(* The conjunction that carries the induction holds in every reachable     *)
(* state of the store.                                                     *)
THEOREM StoreInvariant == StoreSpec => []StoreInv
<1>1. StoreInit => StoreInv
  BY InitHolds
<1>2. StoreInv /\ [StoreNext]_storeVars => StoreInv'
  BY StepSafe
<1> QED
  BY <1>1, <1>2, PTL DEF StoreSpec

(* Rows, mutations, cursor and ids always have their types.                *)
THEOREM TypeCorrect == StoreSpec => []StoreTypeOK
<1>1. StoreInv => StoreTypeOK
  BY DEF StoreInv
<1> QED
  BY <1>1, StoreInvariant, PTL

(* Work of one skill is dispatched in the order in which it was committed. *)
THEOREM ChainsStayOrdered == StoreSpec => []ChainOrder
<1>1. StoreInv => ChainOrder
  BY DEF StoreInv
<1> QED
  BY <1>1, StoreInvariant, PTL

(* No row keeps its label after the last mutation of its chain is acked.   *)
THEOREM NoRowIsWedged == StoreSpec => []NoStaleWedge
<1>1. StoreInv => NoStaleWedge
  BY DEF StoreInv
<1> QED
  BY <1>1, StoreInvariant, PTL

(* The mirror never holds one server skill twice.                          *)
THEOREM MirrorIsInjective == StoreSpec => []OneRowPerRemote
<1>1. StoreInv => OneRowPerRemote
  BY DEF StoreInv
<1> QED
  BY <1>1, StoreInvariant, PTL

(* No step of the store loses a mutation that the server has not acked.    *)
THEOREM WorkSurvives == StoreSpec => UnackedWorkSurvives
<1>1. StoreInv /\ [StoreNext]_storeVars => [KeepsWork]_storeVars
  BY StepSafe
<1> QED
  BY <1>1, StoreInvariant, PTL DEF StoreSpec, UnackedWorkSurvives, KeepsWork
=============================================================================
