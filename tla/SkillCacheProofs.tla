-------------------------- MODULE SkillCacheProofs --------------------------
(***************************************************************************)
(* Local content for any skills, snapshots, budgets and bounds: the blob   *)
(* store implements ContentPool, and rows agree with the server and with   *)
(* the directories.                                                        *)
(*                                                                         *)
(* CacheInv joins what each command relies on between its steps with what  *)
(* the worker may do meanwhile: the worker never discards a blob and never *)
(* makes a row a new root, and a sweep has a reference for every root.     *)
(***************************************************************************)
EXTENDS SkillCache, FiniteSetTheorems, TLAPS

Rooted(s) == s \notin hollow /\ row[s].st \notin {"absent", "remote_only"}

(* The pc's of a hydration once it has read the row.                       *)
Hydrating ==
    \/ cmd.pc \in {"fetch", "set aside", "activate", "discard", "mark"}
    \/ cmd.pc \in {"import", "fill"} /\ cmd.op # "zip"

Ops == {"none", "commit", "zip", "release", "hydrate", "deploy", "enforce"}
Pcs == {"idle", "capture", "put", "commit", "remove", "read", "fetch", "import",
        "fill", "set aside", "activate", "discard", "mark", "check", "record",
        "list", "roots", "scan", "evict"}
CmdRecords == [op : Ops, pc : Pcs, s : Skills \cup {None},
               head : Trees \cup {None}, tree : Trees \cup {None, Partial},
               tries : Nat, moved : BOOLEAN, lost : BOOLEAN]

(* The command and the page in hand are of their types; a command past its *)
(* start has its skill and its snapshots.                                  *)
CmdType ==
    /\ cmd \in CmdRecords
    /\ cmd.pc \notin {"idle", "list", "roots", "scan", "evict"} => cmd.s \in Skills
    /\ cmd.pc \in {"put", "commit", "remove"} => cmd.tree \in Trees
    /\ Hydrating \/ cmd.pc = "record" \/ cmd.op = "zip" => cmd.head \in Trees
    /\ cmd.pc \in {"read", "check"} => Present(cmd.s)

PageType ==
    /\ wk \in [pc : {"idle", "page", "apply"}, s : Skills \cup {None}, rev : Nat]
    /\ wk.pc # "idle" => wk.s \in Skills /\ wk.rev \in 1 .. Len(server[wk.s])

(* What the sweep has read are rows of the table and references to         *)
(* snapshots.                                                              *)
SweepRecords ==
    [rows : [Skills -> RowType], shipped : SUBSET Skills, refs : SUBSET RefType,
     inv : SUBSET Blobs, used : Int, cand : SUBSET Skills,
     doomed : SUBSET Blobs, unresolved : SUBSET Trees]

SweepType ==
    /\ sweep \in SweepRecords
    /\ \A s \in Skills : sweep.rows[s].st # "absent" => sweep.rows[s].head \in Trees

(* No row and no mutation is ahead of the server; a row that is not in the *)
(* table has no mutations and no revision.                                 *)
RowsBehind ==
    \A s \in Skills :
        /\ row[s].rev <= Len(server[s])
        /\ \A i \in DOMAIN outbox[s] : outbox[s][i].base <= Len(server[s])
        /\ ~Present(s) => outbox[s] = <<>> /\ row[s].rev = 0

(* An imported skill is nobody's until it is committed.                    *)
ImportIsNew ==
    cmd.op = "zip" =>
        /\ cmd.s \in Skills
        /\ ~Present(cmd.s) /\ server[cmd.s] = <<>>

(* What is pinned is there, and what a command is about to pin.            *)
Served == Pinned \subseteq blobs

Fetched ==
    /\ cmd.pc = "commit" => Closure(cmd.tree) \subseteq blobs
    /\ Hydrating /\ cmd.pc # "fetch" => Closure(cmd.head) \subseteq blobs
    /\ cmd.pc = "record" => Closure(cmd.head) \subseteq blobs

(* From the listing of the rows to the end of the sweep, every root has    *)
(* been read, counted and resolved, and nothing pinned is doomed.          *)
Listed ==
    cmd.pc \in {"roots", "scan", "evict"} =>
        /\ \A s \in Skills : Rooted(s) =>
              /\ sweep.rows[s].st \notin {"absent", "remote_only"}
              /\ sweep.rows[s].head = row[s].head
        /\ sweep.doomed \cap Pinned = {}

Counted ==
    cmd.pc \in {"scan", "evict"} => \A s \in Skills :
        /\ Rooted(s) => [kind |-> "row", of |-> s, tree |-> row[s].head] \in sweep.refs
        /\ deployed[s] # None =>
              [kind |-> "deployment", of |-> s, tree |-> deployed[s]] \in sweep.refs
        /\ \A i \in DOMAIN outbox[s] : ~outbox[s][i].bare =>
              [kind |-> "payload", of |-> None, tree |-> outbox[s][i].tree] \in sweep.refs

Resolved == cmd.pc = "evict" => sweep.unresolved \cap Roots = {}

(* Local and remote heads that can be downloaded, and local work that the  *)
(* next push will publish.                                                 *)
HeadsPublished ==
    \A s \in Skills :
        /\ row[s].st \in {"remote_only", "synced"} => row[s].head \in Published(s)
        /\ row[s].rem # None => row[s].rem \in Published(s)
        /\ (/\ row[s].st \in {"dirty", "conflict"}
            /\ outbox[s] # <<>> /\ ~Head(outbox[s]).conflict)
              => outbox[s][Len(outbox[s])].tree = row[s].head

(* A directory that was not edited is the snapshot of its row, of the      *)
(* capture or of the hydration under way.                                  *)
LocalIsExact ==
    \A s \in Skills \ hollow :
        row[s].st \in {"synced", "dirty", "conflict"} /\ ws[s] \in Trees /\ ~edited[s]
            => ws[s] = row[s].head

CaptureIsExact ==
    cmd.pc \in {"put", "commit"} =>
        cmd.tree = ws[cmd.s] \/ cmd.moved \/ ws[cmd.s] \in {None, Partial}

HydrationIsExact ==
    /\ Hydrating /\ Rooted(cmd.s) => row[cmd.s].head = cmd.head
    /\ cmd.pc = "fetch" /\ cmd.tree = cmd.head =>
          ws[cmd.s] = cmd.head \/ edited[cmd.s]
    /\ cmd.pc \in {"discard", "mark"} => ws[cmd.s] = cmd.head \/ edited[cmd.s]

CacheInv ==
    /\ CacheTypeOK /\ CmdType /\ PageType /\ SweepType
    /\ RowsBehind /\ ImportIsNew
    /\ Served /\ Fetched
    /\ Listed /\ Counted /\ Resolved
    /\ HeadsPublished
    /\ LocalIsExact /\ CaptureIsExact /\ HydrationIsExact

(* A step of the pool, or none.                                            *)
PoolStep == [Pool!Next]_(Pool!poolVars)

SweepPcs == {"roots", "scan", "evict"}

(* What the worker does to the roots: it may only lose some.               *)
NoNewRoots ==
    \A s \in Skills :
        /\ Rooted(s)' => Rooted(s) /\ row'[s].head = row[s].head
        /\ deployed'[s] \in {deployed[s], None}
        /\ \A i \in DOMAIN outbox'[s] : ~outbox'[s][i].bare =>
              \E j \in DOMAIN outbox[s] : /\ ~outbox[s][j].bare
                                         /\ outbox[s][j].tree = outbox'[s][i].tree

-----------------------------------------------------------------------------
(* Sequences, roots and the pool.                                          *)

LEMMA AppendFacts ==
    ASSUME NEW S, NEW q \in Seq(S), NEW e \in S
    PROVE  /\ Append(q, e) \in Seq(S)
           /\ Len(Append(q, e)) = Len(q) + 1
           /\ DOMAIN Append(q, e) = DOMAIN q \cup {Len(q) + 1}
           /\ \A i \in DOMAIN q : Append(q, e)[i] = q[i]
           /\ Append(q, e)[Len(q) + 1] = e
           /\ Append(q, e) # <<>>
  OBVIOUS

LEMMA TailFacts ==
    ASSUME NEW S, NEW q \in Seq(S), q # <<>>
    PROVE  /\ Head(q) = q[1] /\ 1 \in DOMAIN q /\ Head(q) \in S
           /\ Tail(q) \in Seq(S)
           /\ Len(Tail(q)) = Len(q) - 1
           /\ \A i \in DOMAIN Tail(q) : i + 1 \in DOMAIN q /\ Tail(q)[i] = q[i + 1]
  OBVIOUS

LEMMA NewHeadFacts ==
    ASSUME NEW S, NEW q \in Seq(S), q # <<>>, NEW e \in S
    PROVE  /\ <<e>> \o Tail(q) \in Seq(S)
           /\ <<e>> \o Tail(q) # <<>>
           /\ DOMAIN (<<e>> \o Tail(q)) = DOMAIN q
           /\ (<<e>> \o Tail(q))[1] = e
           /\ \A i \in DOMAIN q \ {1} : (<<e>> \o Tail(q))[i] = q[i]
           /\ Head(<<e>> \o Tail(q)) = e
  OBVIOUS

LEMMA RootFacts ==
    ASSUME NEW t
    PROVE  /\ t \in Roots <=>
                 \/ \E s \in Skills : Rooted(s) /\ t = row[s].head
                 \/ \E s \in Skills : t = deployed[s] /\ t # None
                 \/ \E s \in Skills : \E i \in DOMAIN outbox[s] :
                       ~outbox[s][i].bare /\ t = outbox[s][i].tree
           /\ t \in Roots' <=>
                 \/ \E s \in Skills : Rooted(s)' /\ t = row'[s].head
                 \/ \E s \in Skills : t = deployed'[s] /\ t # None
                 \/ \E s \in Skills : \E i \in DOMAIN outbox'[s] :
                       ~outbox'[s][i].bare /\ t = outbox'[s][i].tree
  BY DEF Roots, Rooted

LEMMA PinFacts ==
    ASSUME NEW b
    PROVE  /\ b \in Pinned <=> \E t \in Roots : b \in Closure(t)
           /\ b \in Pinned' <=> \E t \in Roots' : b \in Closure(t)
  BY DEF Pinned, Closure

LEMMA FewerRoots ==
    ASSUME NoNewRoots
    PROVE  Roots' \subseteq Roots
<1> SUFFICES ASSUME NEW t \in Roots' PROVE t \in Roots
  OBVIOUS
<1>1. CASE \E s \in Skills : Rooted(s)' /\ t = row'[s].head
  BY <1>1, RootFacts DEF NoNewRoots
<1>2. CASE \E s \in Skills : t = deployed'[s] /\ t # None
  BY <1>2, RootFacts DEF NoNewRoots
<1>3. CASE \E s \in Skills : \E i \in DOMAIN outbox'[s] :
             ~outbox'[s][i].bare /\ t = outbox'[s][i].tree
  BY <1>3, RootFacts DEF NoNewRoots
<1> QED
  BY <1>1, <1>2, <1>3, RootFacts

LEMMA FewerPins ==
    ASSUME Roots' \subseteq Roots
    PROVE  Pinned' \subseteq Pinned
  BY PinFacts

(* Nothing else than rows, mutations, deployments and hollow rows makes a  *)
(* root.                                                                   *)
LEMMA SameRoots ==
    ASSUME UNCHANGED <<local, hollow>>
    PROVE  Roots' = Roots /\ Pinned' = Pinned /\ NoNewRoots
  BY DEF Roots, Pinned, local, NoNewRoots, Rooted, Present

(* A sweep that does not move keeps what it knows while roots only go.     *)
LEMMA SweepKeeps ==
    ASSUME Listed, Counted, Resolved, NoNewRoots,
           cmd'.pc \in SweepPcs => cmd'.pc = cmd.pc /\ sweep' = sweep
    PROVE  Listed' /\ Counted' /\ Resolved'
<1>1. Roots' \subseteq Roots /\ Pinned' \subseteq Pinned
  BY FewerRoots, FewerPins
<1>2. CASE cmd'.pc \notin SweepPcs
  BY <1>2 DEF Listed, Counted, Resolved, SweepPcs
<1>3. CASE cmd'.pc = cmd.pc /\ sweep' = sweep
  <2>1. Listed'
    BY <1>1, <1>3 DEF Listed, NoNewRoots
  <2>2. Counted'
    BY <1>3 DEF Counted, NoNewRoots
  <2>3. Resolved'
    BY <1>1, <1>3 DEF Resolved
  <2> QED
    BY <2>1, <2>2, <2>3
<1> QED
  BY <1>2, <1>3

(* The three ways in which a step is one of the pool's.                    *)
LEMMA PoolStores ==
    ASSUME blobs \subseteq blobs', Pinned' = Pinned
    PROVE  PoolStep
  BY DEF PoolStep, Pool!Next, Pool!Store

LEMMA PoolRepins ==
    ASSUME blobs' = blobs, Pinned' \subseteq blobs
    PROVE  PoolStep
  BY DEF PoolStep, Pool!Next, Pool!Repin

LEMMA PoolDiscards ==
    ASSUME blobs' \subseteq blobs, Pinned' = Pinned, Pinned \cap blobs \subseteq blobs'
    PROVE  PoolStep
  BY DEF PoolStep, Pool!Next, Pool!Discard

-----------------------------------------------------------------------------
(* Steps that touch neither rows nor mutations nor deployments.            *)

LEMMA NoSweepType ==
    /\ NoSweep \in SweepRecords
    /\ NoSweep.doomed = {} /\ NoSweep.refs = {} /\ NoSweep.inv = {}
    /\ \A s \in Skills : NoSweep.rows[s].st = "absent"
<1>1. NoSweep \in SweepRecords
  BY DEF NoSweep, Absent, RowType, SweepRecords
<1>2. \A s \in Skills : NoSweep.rows[s].st = "absent"
  BY DEF NoSweep, Absent
<1> QED
  BY <1>1, <1>2 DEF NoSweep

LEMMA QuietStep ==
    ASSUME CacheInv,
           UNCHANGED <<server, local, hollow>>,
           blobs \subseteq blobs', blobs' \subseteq Blobs,
           ws' \in [Skills -> Trees \cup {None, Partial}],
           edited' \in [Skills -> BOOLEAN],
           CmdType', PageType', ImportIsNew', Fetched',
           sweep' \in {sweep, NoSweep},
           cmd'.pc \in SweepPcs => cmd'.pc = cmd.pc /\ sweep' = sweep,
           LocalIsExact', CaptureIsExact', HydrationIsExact'
    PROVE  CacheInv' /\ PoolStep
<1>1. Pinned' = Pinned /\ NoNewRoots
  BY SameRoots
<1>2. CacheTypeOK'
  BY DEF CacheInv, CacheTypeOK, local, NoSweep
<1>3. RowsBehind' /\ HeadsPublished'
  BY DEF CacheInv, RowsBehind, HeadsPublished, local, Present, Published
<1>4. Served'
  BY <1>1 DEF CacheInv, Served
<1>5. Listed' /\ Counted' /\ Resolved'
  BY <1>1, SweepKeeps DEF CacheInv
<1>6. SweepType'
  BY NoSweepType DEF CacheInv, SweepType
<1> QED
  BY <1>1, <1>2, <1>3, <1>4, <1>5, <1>6, PoolStores DEF CacheInv

(* ... and leave the command and the directories alone.                    *)
LEMMA WorkerStep ==
    ASSUME CacheInv,
           UNCHANGED <<server, local, hollow, cmd, sweep, ws, edited>>,
           blobs \subseteq blobs', blobs' \subseteq Blobs, PageType'
    PROVE  CacheInv' /\ PoolStep
<1>1. CmdType' /\ ImportIsNew' /\ CaptureIsExact'
  BY DEF CacheInv, CmdType, ImportIsNew, CaptureIsExact, local, Present, Hydrating
<1>2. Fetched'
  BY DEF CacheInv, Fetched, Hydrating
<1>3. LocalIsExact' /\ HydrationIsExact'
  BY DEF CacheInv, LocalIsExact, HydrationIsExact, Hydrating, Rooted, local
<1>4. /\ ws' \in [Skills -> Trees \cup {None, Partial}]
      /\ edited' \in [Skills -> BOOLEAN]
  BY DEF CacheInv, CacheTypeOK
<1> QED
  BY <1>1, <1>2, <1>3, <1>4, QuietStep

LEMMA FetchChangesPageStep ==
    ASSUME CacheInv, NEW s \in Skills, FetchChangesPage(s)
    PROVE  CacheInv' /\ PoolStep
<1>1. /\ row[s].rev \in Nat /\ Len(server[s]) \in Nat /\ server' = server
      /\ wk' = [pc |-> "page", s |-> s, rev |-> row[s].rev + 1]
      /\ Len(server[s]) > row[s].rev
  BY DEF CacheInv, CacheTypeOK, RowType, FetchChangesPage
<1>2. PageType'
  BY <1>1 DEF PageType
<1> QED
  BY <1>2, WorkerStep DEF FetchChangesPage, CacheInv, CacheTypeOK

LEMMA DownloadPageBlobsStep ==
    ASSUME CacheInv, DownloadPageBlobs
    PROVE  CacheInv' /\ PoolStep
<1>1. /\ wk.s \in Skills /\ wk.rev \in 1 .. Len(server[wk.s])
      /\ server[wk.s] \in Seq(Trees) /\ server' = server
      /\ wk' = [wk EXCEPT !.pc = "apply"]
  BY DEF CacheInv, CacheTypeOK, PageType, DownloadPageBlobs
<1>2. PageType'
  BY <1>1 DEF PageType, CacheInv
<1>3. server[wk.s][wk.rev] \in Blobs
  BY <1>1 DEF Blobs
<1> QED
  BY <1>2, <1>3, WorkerStep DEF DownloadPageBlobs, CacheInv, CacheTypeOK

(* The editor leaves a mark on the directory and on the command.           *)
LEMMA EditStep ==
    ASSUME CacheInv, NEW s \in Skills, NEW t \in Trees, Edit(s, t)
    PROVE  CacheInv' /\ PoolStep
<1>1. /\ ws' = [ws EXCEPT ![s] = t] /\ edited' = [edited EXCEPT ![s] = TRUE]
      /\ cmd' = [cmd EXCEPT !.moved = @ \/ cmd.s = s]
      /\ UNCHANGED <<server, local, blobs, sweep, wk, hollow>>
      /\ ws \in [Skills -> Trees \cup {None, Partial}]
      /\ edited \in [Skills -> BOOLEAN]
  BY DEF Edit, CacheInv, CacheTypeOK
<1>2. /\ ws' \in [Skills -> Trees \cup {None, Partial}]
      /\ edited' \in [Skills -> BOOLEAN]
      /\ blobs' \subseteq Blobs /\ blobs \subseteq blobs'
  BY <1>1 DEF CacheInv, CacheTypeOK
<1>3. /\ cmd'.pc = cmd.pc /\ cmd'.op = cmd.op /\ cmd'.s = cmd.s
      /\ cmd'.head = cmd.head /\ cmd'.tree = cmd.tree
      /\ (cmd.moved \/ cmd.s = s) = cmd'.moved
      /\ cmd' \in CmdRecords
  BY <1>1 DEF CacheInv, CmdType, CmdRecords
<1>4. CmdType'
  BY <1>1, <1>3 DEF CacheInv, CmdType, Hydrating, Present, local
<1>5. PageType' /\ ImportIsNew' /\ Fetched'
  BY <1>1, <1>3 DEF CacheInv, PageType, ImportIsNew, Fetched, Hydrating, Present, local
<1>6. LocalIsExact'
  BY <1>1 DEF CacheInv, LocalIsExact, local
<1>7. CaptureIsExact'
  BY <1>1, <1>3 DEF CacheInv, CmdType, CaptureIsExact
<1>8. HydrationIsExact'
  <2>1. Hydrating' <=> Hydrating
    BY <1>3 DEF Hydrating
  <2>2. cmd.pc \in {"fetch", "discard", "mark"} => cmd.s \in Skills
    BY DEF CacheInv, CmdType
  <2>3. \A z \in Skills : (ws'[z] = ws[z] /\ edited'[z] = edited[z]) \/ edited'[z]
    BY <1>1
  <2> QED
    BY <1>1, <1>3, <2>1, <2>2, <2>3 DEF CacheInv, HydrationIsExact, Rooted, local
<1> QED
  BY <1>1, <1>2, <1>3, <1>4, <1>5, <1>6, <1>7, <1>8, QuietStep

-----------------------------------------------------------------------------
(* Commands begin.                                                         *)

LEMMA NoCmdType ==
    /\ NoCmd \in CmdRecords
    /\ NoCmd.pc = "idle" /\ NoCmd.op = "none" /\ NoCmd.s = None /\ NoCmd.tree = None
  BY DEF NoCmd, CmdRecords, Ops, Pcs

LEMMA StepFacts ==
    ASSUME cmd \in CmdRecords, NEW p \in Pcs, Step(p)
    PROVE  /\ cmd' \in CmdRecords /\ cmd'.pc = p
           /\ cmd'.op = cmd.op /\ cmd'.s = cmd.s /\ cmd'.head = cmd.head
           /\ cmd'.tree = cmd.tree /\ cmd'.moved = cmd.moved
  BY DEF CmdRecords, Step

(* A command that has done nothing yet, or is over.                        *)
LEMMA PauseStep ==
    ASSUME CacheInv, UNCHANGED <<server, local, hollow, blobs, ws, edited>>,
           cmd' \in CmdRecords, cmd'.op # "zip",
           cmd'.pc \in {"idle", "list", "capture", "read", "check"},
           cmd'.pc \in {"capture", "read", "check"} => cmd'.s \in Skills,
           cmd'.pc \in {"read", "check"} => Present(cmd'.s),
           PageType', sweep' \in {sweep, NoSweep}
    PROVE  CacheInv' /\ PoolStep
<1>1. CmdType'
  BY DEF CmdType, CmdRecords, Hydrating, Present, local
<1>2. ImportIsNew' /\ Fetched' /\ CaptureIsExact' /\ HydrationIsExact'
  BY DEF ImportIsNew, Fetched, CaptureIsExact, HydrationIsExact, Hydrating
<1>3. LocalIsExact'
  BY DEF CacheInv, LocalIsExact, local
<1>4. /\ ws' \in [Skills -> Trees \cup {None, Partial}]
      /\ edited' \in [Skills -> BOOLEAN]
      /\ blobs \subseteq blobs' /\ blobs' \subseteq Blobs
  BY DEF CacheInv, CacheTypeOK
<1>5. cmd'.pc \notin SweepPcs
  BY DEF SweepPcs
<1> QED
  BY <1>1, <1>2, <1>3, <1>4, <1>5, QuietStep

LEMMA SamePage ==
    ASSUME CacheInv, UNCHANGED <<server, wk>>
    PROVE  PageType'
  BY DEF CacheInv, PageType

LEMMA StartStep ==
    ASSUME CacheInv, NEW s \in Skills,
           \/ StartCommit(s) \/ StartRelease(s) \/ StartHydrate(s)
           \/ StartDeploy(s)
    PROVE  CacheInv' /\ PoolStep
<1>1. /\ UNCHANGED <<server, local, hollow, blobs, ws, edited, sweep, wk>>
      /\ row[s].head \in Trees \cup {None}
      /\ row[s].st = "synced" => Present(s)
  BY DEF StartCommit, StartRelease, StartHydrate, StartDeploy, Command, CacheInv,
     CacheTypeOK, RowType, Present
<1>2. /\ cmd' \in CmdRecords /\ cmd'.op # "zip"
      /\ cmd'.pc \in {"list", "capture", "read", "check"}
      /\ cmd'.pc # "list" => cmd'.s = s
      /\ cmd'.pc \in {"read", "check"} => Present(s)
  <2>1. CASE StartCommit(s)
    BY <2>1 DEF StartCommit, Command, CmdRecords, Ops, Pcs, NoCmd
  <2>2. CASE StartRelease(s)
    BY <2>2, <1>1 DEF StartRelease, Command, CmdRecords, Ops, Pcs, NoCmd
  <2>3. CASE StartHydrate(s)
    BY <2>3 DEF StartHydrate, Command, CmdRecords, Ops, Pcs, NoCmd
  <2>4. CASE StartDeploy(s)
    BY <2>4 DEF StartDeploy, Command, CmdRecords, Ops, Pcs, NoCmd
  <2> QED
    BY <2>1, <2>2, <2>3, <2>4
<1> QED
  BY <1>1, <1>2, PauseStep, SamePage

LEMMA SetPolicyStep ==
    ASSUME CacheInv, NEW b \in Budgets, SetPolicy(b)
    PROVE  CacheInv' /\ PoolStep
<1>1. cmd' = [NoCmd EXCEPT !.op = "enforce", !.pc = "list"]
  BY DEF SetPolicy
<1>2. cmd' \in CmdRecords /\ cmd'.op # "zip" /\ cmd'.pc = "list"
  BY <1>1 DEF CmdRecords, Ops, Pcs, NoCmd
<1> QED
  BY <1>2, PauseStep, SamePage DEF SetPolicy

LEMMA CrashStep ==
    ASSUME CacheInv, Crash
    PROVE  CacheInv' /\ PoolStep
<1>1. cmd' = [NoCmd EXCEPT !.op = "enforce", !.pc = "list"]
  BY DEF Crash
<1>2. cmd' \in CmdRecords /\ cmd'.op # "zip" /\ cmd'.pc = "list"
  BY <1>1 DEF CmdRecords, Ops, Pcs, NoCmd
<1>3. PageType'
  BY DEF Crash, PageType, NoPage
<1> QED
  BY <1>2, <1>3, PauseStep DEF Crash

LEMMA CreateWorkspaceStep ==
    ASSUME CacheInv, NEW s \in Skills, NEW t \in Trees, CreateWorkspace(s, t)
    PROVE  CacheInv' /\ PoolStep
<1>1. /\ UNCHANGED <<server, local, hollow, blobs, sweep, wk>>
      /\ cmd' = NoCmd
      /\ ws' = [ws EXCEPT ![s] = t] /\ edited' = [edited EXCEPT ![s] = TRUE]
      /\ ws \in [Skills -> Trees \cup {None, Partial}]
      /\ edited \in [Skills -> BOOLEAN]
  BY DEF CreateWorkspace, Command, CacheInv, CacheTypeOK
<1>2. CmdType'
  BY <1>1, NoCmdType DEF CmdType, CmdRecords, Hydrating
<1>3. ImportIsNew' /\ Fetched' /\ CaptureIsExact' /\ HydrationIsExact'
  BY <1>1, NoCmdType DEF ImportIsNew, Fetched, CaptureIsExact, HydrationIsExact,
     Hydrating
<1>4. LocalIsExact'
  BY <1>1 DEF CacheInv, LocalIsExact, local
<1>5. /\ ws' \in [Skills -> Trees \cup {None, Partial}]
      /\ edited' \in [Skills -> BOOLEAN]
      /\ blobs \subseteq blobs' /\ blobs' \subseteq Blobs
      /\ cmd'.pc \notin SweepPcs
  BY <1>1, NoCmdType DEF CacheInv, CacheTypeOK, SweepPcs
<1> QED
  BY <1>1, <1>2, <1>3, <1>4, <1>5, QuietStep, SamePage

LEMMA ImportSkillZipStep ==
    ASSUME CacheInv, NEW s \in Skills, NEW t \in Trees, ImportSkillZip(s, t)
    PROVE  CacheInv' /\ PoolStep
<1>1. /\ UNCHANGED <<server, local, hollow, blobs, ws, edited, sweep, wk>>
      /\ cmd' = Unpacked(s, t) /\ NewId(s)
  BY DEF ImportSkillZip, Command
<1>2. /\ cmd' \in CmdRecords /\ cmd'.op = "zip" /\ cmd'.pc = "put"
      /\ cmd'.s = s /\ cmd'.head = t /\ cmd'.tree = t
  BY <1>1 DEF Unpacked, CmdRecords, Ops, Pcs, NoCmd
<1>3. CmdType'
  BY <1>2 DEF CmdType, CmdRecords, Hydrating
<1>4. ImportIsNew' /\ Fetched' /\ CaptureIsExact' /\ HydrationIsExact'
  BY <1>1, <1>2 DEF ImportIsNew, Fetched, CaptureIsExact, HydrationIsExact,
     Hydrating, NewId, Present, local
<1>5. LocalIsExact'
  BY <1>1 DEF CacheInv, LocalIsExact, local
<1>6. /\ ws' \in [Skills -> Trees \cup {None, Partial}]
      /\ edited' \in [Skills -> BOOLEAN]
      /\ blobs \subseteq blobs' /\ blobs' \subseteq Blobs
      /\ cmd'.pc \notin SweepPcs
  BY <1>1, <1>2 DEF CacheInv, CacheTypeOK, SweepPcs
<1> QED
  BY <1>1, <1>3, <1>4, <1>5, <1>6, QuietStep, SamePage

-----------------------------------------------------------------------------
(* Commands go on: captures, hydration, deployment.                        *)

LEMMA StepsOn ==
    ASSUME CacheInv,
           UNCHANGED <<server, local, hollow, blobs, ws, edited, sweep, wk>>,
           CmdType', cmd'.op = cmd.op, cmd'.s = cmd.s, cmd'.pc \notin SweepPcs,
           Fetched', CaptureIsExact', HydrationIsExact'
    PROVE  CacheInv' /\ PoolStep
<1>1. ImportIsNew' /\ LocalIsExact'
  BY DEF CacheInv, ImportIsNew, LocalIsExact, Present, local
<1>2. /\ ws' \in [Skills -> Trees \cup {None, Partial}]
      /\ edited' \in [Skills -> BOOLEAN]
      /\ blobs \subseteq blobs' /\ blobs' \subseteq Blobs
  BY DEF CacheInv, CacheTypeOK
<1> QED
  BY <1>1, <1>2, QuietStep, SamePage

LEMMA FailStep ==
    ASSUME CacheInv, Fail, PageType', sweep' \in {sweep, NoSweep},
           UNCHANGED <<server, local, hollow, blobs, ws, edited>>
    PROVE  CacheInv' /\ PoolStep
<1>1. cmd' \in CmdRecords /\ cmd'.op # "zip" /\ cmd'.pc = "idle"
  BY NoCmdType DEF Fail
<1> QED
  BY <1>1, PauseStep

LEMMA CaptureWorkspaceStep ==
    ASSUME CacheInv, NEW t \in Trees, CaptureWorkspace(t)
    PROVE  CacheInv' /\ PoolStep
<1>1. /\ UNCHANGED <<server, local, hollow, blobs, ws, edited, sweep, wk>>
      /\ cmd.pc = "capture"
      /\ cmd' = [cmd EXCEPT !.pc = "put", !.tree = t]
      /\ t = ws[cmd.s] \/ cmd.moved \/ ws[cmd.s] = Partial
  BY DEF CaptureWorkspace, Frame
<1>2. /\ cmd' \in CmdRecords /\ cmd'.pc = "put" /\ cmd'.tree = t
      /\ cmd'.op = cmd.op /\ cmd'.s = cmd.s /\ cmd'.head = cmd.head
      /\ cmd'.moved = cmd.moved
  BY <1>1 DEF CacheInv, CmdType, CmdRecords, Pcs
<1>3. CmdType'
  BY <1>1, <1>2 DEF CacheInv, CmdType, Hydrating
<1>4. Fetched' /\ HydrationIsExact' /\ CaptureIsExact' /\ cmd'.pc \notin SweepPcs
  BY <1>1, <1>2 DEF Fetched, HydrationIsExact, CaptureIsExact, Hydrating, SweepPcs
<1> QED
  BY <1>1, <1>2, <1>3, <1>4, StepsOn

(* Every file is in the store before the manifest, so a capture that goes  *)
(* on to commit has its whole closure there.                               *)
LEMMA PutBytesStep ==
    ASSUME CacheInv, PutBytes
    PROVE  CacheInv' /\ PoolStep
<1>1. /\ UNCHANGED <<server, local, hollow, ws, edited, sweep, wk>>
      /\ cmd.pc = "put" /\ cmd \in CmdRecords /\ cmd.tree \in Trees
      /\ cmd.s \in Skills
      /\ ws' \in [Skills -> Trees \cup {None, Partial}]
      /\ edited' \in [Skills -> BOOLEAN]
      /\ blobs \subseteq Blobs /\ FilesOf[cmd.tree] \subseteq Files
  BY CacheAssumption DEF PutBytes, Frame, CacheInv, CmdType, CacheTypeOK
<1>2. LocalIsExact'
  BY <1>1 DEF CacheInv, LocalIsExact, local
<1>3. CASE /\ cmd' = cmd
           /\ \E b \in FilesOf[cmd.tree] \ blobs : blobs' = blobs \cup {b}
  <2>1. blobs \subseteq blobs' /\ blobs' \subseteq Blobs
    BY <1>1, <1>3 DEF Blobs
  <2>2. CmdType' /\ ImportIsNew' /\ Fetched' /\ CaptureIsExact' /\ HydrationIsExact'
    BY <1>1, <1>3 DEF CacheInv, CmdType, ImportIsNew, Fetched, CaptureIsExact,
       HydrationIsExact, Hydrating, Present, Rooted, local
  <2> QED
    BY <1>1, <1>2, <1>3, <2>1, <2>2, QuietStep, SamePage DEF SweepPcs
<1>4. CASE /\ FilesOf[cmd.tree] \subseteq blobs
           /\ blobs' = blobs \cup {cmd.tree} /\ Captured
  <2>1. blobs \subseteq blobs' /\ blobs' \subseteq Blobs /\ Closure(cmd.tree) \subseteq blobs'
    BY <1>1, <1>4 DEF Blobs, Closure
  <2>2. /\ cmd' \in CmdRecords
        /\ \/ cmd' = NoCmd
           \/ /\ cmd'.op = cmd.op /\ cmd'.s = cmd.s /\ cmd'.head = cmd.head
              /\ cmd'.tree = cmd.tree /\ cmd'.moved = cmd.moved
              /\ cmd'.pc \in {"commit", "import", "remove"}
              /\ cmd'.pc = "import" => cmd.op = "zip"
              /\ cmd'.pc = "commit" => cmd.op \in {"commit", "zip"}
    BY <1>1, <1>4, StepFacts, NoCmdType DEF Captured, Fail, Pcs
  <2>3. CmdType' /\ ImportIsNew'
    BY <1>1, <2>2, NoCmdType DEF CacheInv, CmdType, ImportIsNew, Hydrating, Present, local
  <2>4. Fetched' /\ HydrationIsExact' /\ cmd'.pc \notin SweepPcs
    BY <2>1, <2>2, NoCmdType DEF Fetched, HydrationIsExact, Hydrating, SweepPcs
  <2>5. CaptureIsExact'
    BY <1>1, <2>2, NoCmdType DEF CacheInv, CaptureIsExact
  <2> QED
    BY <1>1, <1>2, <2>1, <2>3, <2>4, <2>5, QuietStep, SamePage
<1> QED
  BY <1>3, <1>4 DEF PutBytes

LEMMA RemoveWorkspaceStep ==
    ASSUME CacheInv, RemoveWorkspace
    PROVE  CacheInv' /\ PoolStep
<1>1. /\ UNCHANGED <<server, local, hollow, blobs, sweep, wk>>
      /\ cmd.pc = "remove" /\ cmd \in CmdRecords
      /\ ws' = [ws EXCEPT ![cmd.s] = None]
      /\ edited' = [edited EXCEPT ![cmd.s] = FALSE]
      /\ ws \in [Skills -> Trees \cup {None, Partial}]
      /\ edited \in [Skills -> BOOLEAN]
      /\ Step("list") /\ cmd.s \in Skills
  BY DEF RemoveWorkspace, Frame, CacheInv, CmdType, CacheTypeOK
<1>2. /\ cmd' \in CmdRecords /\ cmd'.pc = "list" /\ cmd'.op = cmd.op
      /\ cmd'.s = cmd.s /\ cmd'.head = cmd.head
  BY <1>1, StepFacts DEF Pcs
<1>3. CmdType' /\ ImportIsNew'
  BY <1>1, <1>2 DEF CacheInv, CmdType, ImportIsNew, Hydrating, Present, local
<1>4. Fetched' /\ HydrationIsExact' /\ CaptureIsExact' /\ cmd'.pc \notin SweepPcs
  BY <1>2 DEF Fetched, HydrationIsExact, CaptureIsExact, Hydrating, SweepPcs
<1>5. LocalIsExact'
  BY <1>1, CacheAssumption DEF CacheInv, LocalIsExact, local
<1>6. /\ ws' \in [Skills -> Trees \cup {None, Partial}]
      /\ edited' \in [Skills -> BOOLEAN]
      /\ blobs \subseteq blobs' /\ blobs' \subseteq Blobs
  BY <1>1 DEF CacheInv, CacheTypeOK
<1> QED
  BY <1>1, <1>3, <1>4, <1>5, <1>6, QuietStep, SamePage

LEMMA HydratedFacts ==
    ASSUME cmd \in CmdRecords, Hydrated
    PROVE  /\ cmd' \in CmdRecords
           /\ \/ cmd' = NoCmd
              \/ /\ cmd'.pc = "check" /\ cmd'.op = cmd.op /\ cmd'.op = "deploy"
                 /\ cmd'.s = cmd.s /\ cmd'.head = cmd.head
  BY StepFacts, NoCmdType DEF Hydrated, Fail, Pcs

LEMMA ReadForHydrationStep ==
    ASSUME CacheInv, ReadForHydration
    PROVE  CacheInv' /\ PoolStep
<1>1. /\ UNCHANGED <<server, local, hollow, blobs, ws, edited, sweep, wk>>
      /\ cmd.pc = "read" /\ cmd \in CmdRecords /\ cmd.s \in Skills
      /\ Present(cmd.s)
      /\ ws[cmd.s] \in Trees \cup {None, Partial}
      /\ row[cmd.s].head \in Trees
  BY DEF ReadForHydration, Frame, CacheInv, CmdType, CacheTypeOK, RowType, Present
<1>2. CASE Fail
  BY <1>1, <1>2, FailStep, SamePage
<1>3. CASE Hydrated
  <2>1. /\ cmd' \in CmdRecords /\ cmd'.op # "zip" /\ cmd'.pc \in {"idle", "check"}
        /\ cmd'.pc = "check" => cmd'.s = cmd.s
    BY <1>1, <1>3, HydratedFacts, NoCmdType
  <2> QED
    BY <1>1, <2>1, PauseStep, SamePage
<1> DEFINE T == IF IsCurrent(cmd.s, row[cmd.s].head) THEN row[cmd.s].head ELSE ws[cmd.s]
<1>4. CASE cmd' = [cmd EXCEPT !.pc = "fetch", !.head = row[cmd.s].head,
                        !.tree = T, !.tries = @ + 1]
  <2>0. /\ T \in {row[cmd.s].head, ws[cmd.s]}
        /\ T = row[cmd.s].head => ws[cmd.s] = row[cmd.s].head
    BY DEF IsCurrent
  <2> HIDE DEF T
  <2>1. /\ cmd' \in CmdRecords /\ cmd'.pc = "fetch" /\ cmd'.op = cmd.op
        /\ cmd'.s = cmd.s /\ cmd'.head = row[cmd.s].head
        /\ cmd'.tree = T
    <3>1. T \in Trees \cup {None, Partial} /\ cmd.tries + 1 \in Nat
      BY <1>1, <2>0 DEF CmdRecords
    <3> QED
      BY <1>1, <1>4, <3>1 DEF CmdRecords, Pcs
  <2>2. CmdType'
    BY <1>1, <2>1 DEF CmdType, Hydrating
  <2>3. Fetched' /\ CaptureIsExact' /\ cmd'.pc \notin SweepPcs
    BY <2>1 DEF Fetched, CaptureIsExact, Hydrating, SweepPcs
  <2>4. HydrationIsExact'
    BY <1>1, <2>0, <2>1 DEF HydrationIsExact, Hydrating, Rooted, local
  <2> QED
    BY <1>1, <2>1, <2>2, <2>3, <2>4, StepsOn
<1> QED
  BY <1>2, <1>3, <1>4 DEF ReadForHydration

LEMMA EnsureClosureLocalStep ==
    ASSUME CacheInv, EnsureClosureLocal
    PROVE  CacheInv' /\ PoolStep
<1>1. /\ UNCHANGED <<server, local, hollow, ws, edited, sweep, wk>>
      /\ cmd.pc = "fetch" /\ cmd \in CmdRecords /\ cmd.s \in Skills
      /\ cmd.head \in Trees
      /\ ws' \in [Skills -> Trees \cup {None, Partial}]
      /\ edited' \in [Skills -> BOOLEAN]
      /\ blobs \subseteq Blobs /\ Closure(cmd.head) \subseteq Blobs
  BY CacheAssumption DEF EnsureClosureLocal, Frame, CacheInv, CmdType, CacheTypeOK,
     Hydrating, Closure, Blobs
<1>2. LocalIsExact'
  BY <1>1 DEF CacheInv, LocalIsExact, local
<1>3. CASE /\ cmd' = cmd
           /\ \E b \in Closure(cmd.head) \ blobs : blobs' = blobs \cup {b}
  <2>1. blobs \subseteq blobs' /\ blobs' \subseteq Blobs
    BY <1>1, <1>3
  <2>2. CmdType' /\ ImportIsNew' /\ CaptureIsExact' /\ HydrationIsExact'
    BY <1>1, <1>3 DEF CacheInv, CmdType, ImportIsNew, CaptureIsExact,
       HydrationIsExact, Hydrating, Present, Rooted, local
  <2>3. Fetched'
    BY <1>1, <1>3 DEF Fetched
  <2> QED
    BY <1>1, <1>2, <1>3, <2>1, <2>2, <2>3, QuietStep, SamePage DEF SweepPcs
<1>4. CASE /\ Closure(cmd.head) \subseteq blobs /\ blobs' = blobs
           /\ \E p \in {"import", "mark", "set aside"} :
                 Step(p) /\ (p = "mark" => cmd.tree = cmd.head)
  <2>1. /\ cmd' \in CmdRecords /\ cmd'.pc \in {"import", "mark", "set aside"}
        /\ cmd'.op = cmd.op /\ cmd'.s = cmd.s /\ cmd'.head = cmd.head
        /\ cmd'.pc = "mark" => cmd.tree = cmd.head
    BY <1>1, <1>4, StepFacts DEF Pcs
  <2>2. CmdType'
    BY <1>1, <2>1 DEF CmdType
  <2>3. Fetched' /\ CaptureIsExact' /\ cmd'.pc \notin SweepPcs
    BY <1>1, <1>4, <2>1 DEF Fetched, CaptureIsExact, SweepPcs
  <2>4. HydrationIsExact'
    BY <1>1, <2>1 DEF CacheInv, HydrationIsExact, Hydrating, Rooted, local
  <2> QED
    BY <1>1, <1>4, <2>1, <2>2, <2>3, <2>4, StepsOn
<1> QED
  BY <1>1, <1>3, <1>4 DEF EnsureClosureLocal

LEMMA DownloadFailsStep ==
    ASSUME CacheInv, DownloadFails \/ CaptureFails
    PROVE  CacheInv' /\ PoolStep
  BY FailStep, SamePage DEF DownloadFails, CaptureFails, Frame

(* The directory of an unfinished import is no snapshot; when it is        *)
(* finished it is the one the row still names, or the row is remote_only.  *)
LEMMA ImportSnapshotStep ==
    ASSUME CacheInv, ImportSnapshot
    PROVE  CacheInv' /\ PoolStep
<1>1. /\ UNCHANGED <<server, local, blobs, hollow, sweep, wk>>
      /\ cmd.pc \in {"import", "fill"} /\ cmd \in CmdRecords
      /\ cmd.s \in Skills /\ cmd.head \in Trees
      /\ ws \in [Skills -> Trees \cup {None, Partial}]
      /\ edited \in [Skills -> BOOLEAN]
      /\ blobs \subseteq blobs' /\ blobs' \subseteq Blobs
      /\ row[cmd.s].st \in {"synced", "dirty", "conflict"} => Present(cmd.s)
  BY DEF ImportSnapshot, Frame, CacheInv, CmdType, CacheTypeOK, Hydrating, Present
<1>2. CASE /\ cmd.pc = "import" /\ ws[cmd.s] # None /\ Fail /\ UNCHANGED <<ws, edited>>
  BY <1>1, <1>2, FailStep, SamePage
<1>3. CASE /\ cmd.pc = "import" /\ ws[cmd.s] = None
           /\ ws' = [ws EXCEPT ![cmd.s] = Partial]
           /\ Step("fill") /\ UNCHANGED edited
  <2>1. /\ cmd' \in CmdRecords /\ cmd'.pc = "fill"
        /\ cmd'.op = cmd.op /\ cmd'.s = cmd.s /\ cmd'.head = cmd.head
    BY <1>1, <1>3, StepFacts DEF Pcs
  <2>2. CmdType' /\ ImportIsNew'
    BY <1>1, <1>3, <2>1 DEF CacheInv, CmdType, ImportIsNew, Hydrating, Present, local
  <2>3. Fetched' /\ CaptureIsExact' /\ HydrationIsExact' /\ cmd'.pc \notin SweepPcs
    BY <1>1, <1>3, <2>1 DEF CacheInv, Fetched, CaptureIsExact, HydrationIsExact,
       Hydrating, Rooted, local, SweepPcs
  <2>4. LocalIsExact'
    BY <1>1, <1>3, CacheAssumption DEF CacheInv, LocalIsExact, local
  <2>5. ws' \in [Skills -> Trees \cup {None, Partial}] /\ edited' \in [Skills -> BOOLEAN]
    BY <1>1, <1>3
  <2> QED
    BY <1>1, <2>2, <2>3, <2>4, <2>5, QuietStep, SamePage
<1>4. CASE /\ cmd.pc = "fill"
           /\ ws' = [ws EXCEPT ![cmd.s] = IF edited[cmd.s] THEN @ ELSE cmd.head]
           /\ Step(IF cmd.op = "zip" THEN "capture" ELSE "mark")
           /\ UNCHANGED edited
  <2>1. /\ cmd' \in CmdRecords
        /\ cmd'.pc = IF cmd.op = "zip" THEN "capture" ELSE "mark"
        /\ cmd'.op = cmd.op /\ cmd'.s = cmd.s /\ cmd'.head = cmd.head
    BY <1>1, <1>4, StepFacts DEF Pcs
  <2>2. CmdType' /\ ImportIsNew'
    BY <1>1, <1>4, <2>1 DEF CacheInv, CmdType, ImportIsNew, Hydrating, Present, local
  <2>3. Fetched' /\ CaptureIsExact' /\ cmd'.pc \notin SweepPcs
    BY <1>1, <1>4, <2>1 DEF CacheInv, Fetched, CaptureIsExact, Hydrating, SweepPcs
  <2>4. HydrationIsExact'
    BY <1>1, <1>4, <2>1 DEF CacheInv, HydrationIsExact, Hydrating, Rooted, local
  <2>5. ws' \in [Skills -> Trees \cup {None, Partial}] /\ edited' \in [Skills -> BOOLEAN]
    BY <1>1, <1>4
  <2>6. ASSUME NEW s \in Skills \ hollow, ~edited[s], ws'[s] \in Trees,
               row[s].st \in {"synced", "dirty", "conflict"}
        PROVE  ws'[s] = row[s].head
    <3>1. CASE s # cmd.s
      BY <1>1, <1>4, <2>6, <3>1 DEF CacheInv, LocalIsExact
    <3>2. CASE s = cmd.s
      <4>1. Hydrating /\ Rooted(s)
        BY <1>1, <1>4, <2>6, <3>2 DEF CacheInv, ImportIsNew, Hydrating, Rooted
      <4> QED
        BY <1>1, <1>4, <2>6, <3>2, <4>1 DEF CacheInv, HydrationIsExact
    <3> QED
      BY <3>1, <3>2
  <2>7. LocalIsExact'
    BY <1>1, <1>4, <2>6 DEF LocalIsExact, local
  <2> QED
    BY <1>1, <2>2, <2>3, <2>4, <2>5, <2>7, QuietStep, SamePage
<1>5. CASE /\ cmd.pc = "fill" /\ edited[cmd.s]
           /\ ws' = [ws EXCEPT ![cmd.s] = None]
           /\ edited' = [edited EXCEPT ![cmd.s] = FALSE]
           /\ Fail
  <2>1. CmdType' /\ ImportIsNew' /\ Fetched' /\ CaptureIsExact' /\ HydrationIsExact'
    BY <1>5, NoCmdType DEF Fail, CmdType, ImportIsNew, Fetched, CaptureIsExact,
       HydrationIsExact, Hydrating
  <2>2. LocalIsExact'
    BY <1>1, <1>5, CacheAssumption DEF CacheInv, LocalIsExact, local
  <2>3. /\ ws' \in [Skills -> Trees \cup {None, Partial}]
        /\ edited' \in [Skills -> BOOLEAN] /\ cmd'.pc \notin SweepPcs
    BY <1>1, <1>5, NoCmdType DEF Fail, SweepPcs
  <2> QED
    BY <1>1, <2>1, <2>2, <2>3, QuietStep, SamePage
<1> QED
  BY <1>2, <1>3, <1>4, <1>5 DEF ImportSnapshot

LEMMA ReplaceSnapshotStep ==
    ASSUME CacheInv, ReplaceSnapshot
    PROVE  CacheInv' /\ PoolStep
<1>1. /\ UNCHANGED <<server, local, blobs, hollow, sweep, wk>>
      /\ cmd.pc \in {"set aside", "activate", "discard"} /\ cmd \in CmdRecords
      /\ cmd.s \in Skills /\ cmd.head \in Trees
      /\ ws \in [Skills -> Trees \cup {None, Partial}]
      /\ edited \in [Skills -> BOOLEAN]
      /\ blobs \subseteq blobs' /\ blobs' \subseteq Blobs
  BY DEF ReplaceSnapshot, Frame, CacheInv, CmdType, CacheTypeOK, Hydrating
<1>2. /\ cmd' \in CmdRecords
      /\ cmd'.op = cmd.op /\ cmd'.s = cmd.s /\ cmd'.head = cmd.head
      /\ cmd'.pc = CASE cmd.pc = "set aside" -> "activate"
                     [] cmd.pc = "activate" -> "discard"
                     [] cmd.pc = "discard" -> "mark"
  <2>1. CASE cmd.pc = "set aside"
    <3>1. PICK b \in BOOLEAN : cmd' = [cmd EXCEPT !.pc = "activate", !.lost = b]
      BY <1>1, <2>1 DEF ReplaceSnapshot
    <3>2. "activate" \in Pcs
      BY DEF Pcs
    <3> QED
      BY <1>1, <2>1, <3>1, <3>2 DEF CmdRecords
  <2>2. CASE cmd.pc = "activate"
    BY <1>1, <2>2, StepFacts DEF ReplaceSnapshot, Pcs
  <2>3. CASE cmd.pc = "discard"
    BY <1>1, <2>3 DEF ReplaceSnapshot, CmdRecords, Pcs
  <2> QED
    BY <1>1, <2>1, <2>2, <2>3
<1>3. CmdType' /\ ImportIsNew'
  BY <1>1, <1>2 DEF CacheInv, CmdType, ImportIsNew, Hydrating, Present, local
<1>4. Fetched' /\ CaptureIsExact' /\ cmd'.pc \notin SweepPcs
  BY <1>1, <1>2 DEF CacheInv, Fetched, CaptureIsExact, Hydrating, SweepPcs
<1>5. /\ ws' \in [Skills -> Trees \cup {None, Partial}]
      /\ edited' \in [Skills -> BOOLEAN]
      /\ \A s \in Skills \ {cmd.s} : ws'[s] = ws[s] /\ edited'[s] = edited[s]
      /\ cmd.pc = "set aside" => ws'[cmd.s] = None
      /\ cmd.pc = "activate" => ws'[cmd.s] = cmd.head
      /\ cmd.pc = "discard" => ws' = ws /\ edited' = edited
  BY <1>1 DEF ReplaceSnapshot
<1>6. HydrationIsExact'
  BY <1>1, <1>2, <1>5 DEF CacheInv, HydrationIsExact, Hydrating, Rooted, local
<1>7. ASSUME NEW s \in Skills \ hollow, ~edited'[s], ws'[s] \in Trees,
             row[s].st \in {"synced", "dirty", "conflict"}
      PROVE  ws'[s] = row[s].head
  <2>1. CASE s # cmd.s \/ cmd.pc = "discard"
    BY <1>1, <1>5, <1>7, <2>1 DEF CacheInv, LocalIsExact
  <2>2. CASE s = cmd.s /\ cmd.pc # "discard"
    BY <1>1, <1>5, <1>7, <2>2, CacheAssumption DEF CacheInv, HydrationIsExact,
       Hydrating, Rooted
  <2> QED
    BY <2>1, <2>2
<1>8. LocalIsExact'
  BY <1>1, <1>7 DEF LocalIsExact, local
<1> QED
  BY <1>1, <1>3, <1>4, <1>5, <1>6, <1>8, QuietStep, SamePage

LEMMA FinishEnforcementStep ==
    ASSUME CacheInv, FinishEnforcement
    PROVE  CacheInv' /\ PoolStep
  BY FailStep, SamePage DEF FinishEnforcement, Frame

LEMMA CheckStep ==
    ASSUME CacheInv, DeploySingle, cmd.pc = "check"
    PROVE  CacheInv' /\ PoolStep
<1>1. /\ UNCHANGED <<server, local, blobs, ws, edited, hollow, sweep, wk>>
      /\ cmd \in CmdRecords /\ cmd.s \in Skills /\ row[cmd.s].head \in Trees
  BY DEF DeploySingle, Frame, CacheInv, CmdType, CacheTypeOK, RowType, Present, local
<1>2. CASE Fail
  BY <1>1, <1>2, FailStep, SamePage
<1>3. CASE /\ Closure(row[cmd.s].head) \subseteq blobs
           /\ cmd' = [cmd EXCEPT !.pc = "record", !.head = row[cmd.s].head]
  <2>1. /\ cmd' \in CmdRecords /\ cmd'.pc = "record" /\ cmd'.op = cmd.op
        /\ cmd'.s = cmd.s /\ cmd'.head = row[cmd.s].head
    BY <1>1, <1>3 DEF CmdRecords, Pcs
  <2>2. CmdType' /\ Fetched' /\ CaptureIsExact' /\ HydrationIsExact'
    BY <1>1, <1>3, <2>1 DEF CmdType, Fetched, CaptureIsExact, HydrationIsExact, Hydrating
  <2> QED
    BY <1>1, <2>1, <2>2, StepsOn DEF SweepPcs
<1> QED
  BY <1>2, <1>3 DEF DeploySingle

-----------------------------------------------------------------------------
(* Steps that change what is pinned: the pool only repins, and every new   *)
(* root was fetched or is of the store.                                    *)

LEMMA RepinStep ==
    ASSUME CacheInv, blobs' = blobs, Pinned' \subseteq blobs
    PROVE  Served' /\ PoolStep
  BY PoolRepins DEF Served

(* Rows and mutations of another skill do not move.                        *)
LEMMA OthersKeep ==
    ASSUME CacheInv, NEW s \in Skills, NEW r \in RowType,
           NEW q \in Seq(MutationType),
           row' = [row EXCEPT ![s] = r], outbox' = [outbox EXCEPT ![s] = q]
    PROVE  /\ row' \in [Skills -> RowType] /\ row'[s] = r
           /\ outbox' \in [Skills -> Seq(MutationType)] /\ outbox'[s] = q
           /\ \A z \in Skills \ {s} : row'[z] = row[z] /\ outbox'[z] = outbox[z]
  BY DEF CacheInv, CacheTypeOK

(* The roots of a step that changes one skill's row and mutations are the  *)
(* old ones and, it may be, one new one.                                   *)
LEMMA OneNewRoot ==
    ASSUME CacheInv, NEW s \in Skills, NEW t \in Trees, blobs' = blobs,
           Closure(t) \subseteq blobs,
           \A z \in Skills : deployed'[z] \in {deployed[z], None, t},
           \A z \in Skills \ {s} :
              row'[z] = row[z] /\ outbox'[z] = outbox[z] /\ (z \in hollow' <=> z \in hollow),
           Rooted(s)' => \/ row'[s].head = t
                         \/ Rooted(s) /\ row'[s].head = row[s].head,
           \A i \in DOMAIN outbox'[s] : ~outbox'[s][i].bare =>
              \/ outbox'[s][i].tree = t
              \/ \E j \in DOMAIN outbox[s] : /\ ~outbox[s][j].bare
                                            /\ outbox[s][j].tree = outbox'[s][i].tree
    PROVE  Served' /\ PoolStep
<1>1. ASSUME NEW u \in Roots' PROVE u = t \/ u \in Roots
  <2>1. CASE \E z \in Skills : Rooted(z)' /\ u = row'[z].head
    BY <2>1, RootFacts DEF Rooted
  <2>2. CASE \E z \in Skills : u = deployed'[z] /\ u # None
    BY <2>2, RootFacts
  <2>3. CASE \E z \in Skills : \E i \in DOMAIN outbox'[z] :
                ~outbox'[z][i].bare /\ u = outbox'[z][i].tree
    BY <2>3, RootFacts
  <2> QED
    BY <2>1, <2>2, <2>3, RootFacts
<1>2. Pinned' \subseteq blobs
  BY <1>1, PinFacts DEF CacheInv, Served
<1> QED
  BY <1>2, RepinStep

-----------------------------------------------------------------------------
(* The worker and the other devices: a pull or a push makes no new root.   *)

LEMMA NoRootStep ==
    ASSUME CacheInv, NoNewRoots, blobs' = blobs
    PROVE  Served' /\ PoolStep
<1>1. Pinned' \subseteq blobs
  BY FewerRoots, FewerPins DEF CacheInv, Served
<1> QED
  BY <1>1, RepinStep

LEMMA WorkerChangesRows ==
    ASSUME CacheInv, NoNewRoots,
           UNCHANGED <<deployed, blobs, ws, cmd, sweep, edited>>,
           server' \in [Skills -> Seq(Trees)],
           row' \in [Skills -> RowType],
           outbox' \in [Skills -> Seq(MutationType)],
           hollow' \subseteq Skills,
           \A s \in Skills : row'[s].st = "absent" <=> row'[s].head = None,
           \A s \in Skills : Present(s) => Present(s)',
           PageType', RowsBehind', ImportIsNew', HeadsPublished'
    PROVE  CacheInv' /\ PoolStep
<1>1. CacheTypeOK' /\ SweepType'
  BY DEF CacheInv, CacheTypeOK, SweepType
<1>2. CmdType' /\ Fetched' /\ CaptureIsExact'
  BY DEF CacheInv, CmdType, Fetched, CaptureIsExact, Hydrating
<1>3. Served' /\ PoolStep
  BY NoRootStep
<1>4. Listed' /\ Counted' /\ Resolved'
  BY SweepKeeps DEF CacheInv
<1>5. \A s \in Skills : Rooted(s)' => Rooted(s) /\ row'[s].head = row[s].head
  BY DEF NoNewRoots
<1>6. LocalIsExact'
  BY <1>5 DEF CacheInv, LocalIsExact, Rooted, CacheTypeOK, RowType
<1>7. HydrationIsExact'
  <2>1. Hydrating => cmd.s \in Skills
    BY DEF CacheInv, CmdType, Hydrating
  <2> QED
    BY <1>5, <2>1 DEF CacheInv, HydrationIsExact, Hydrating
<1> QED
  BY <1>1, <1>2, <1>3, <1>4, <1>6, <1>7 DEF CacheInv

LEMMA RowFacts ==
    ASSUME CacheInv, NEW s \in Skills
    PROVE  /\ row[s] \in RowType /\ row[s].rev \in Nat
           /\ row[s].head \in Trees \cup {None} /\ row[s].rem \in Trees \cup {None}
           /\ Present(s) => row[s].head \in Trees
           /\ outbox[s] \in Seq(MutationType) /\ Len(outbox[s]) \in Nat
           /\ DOMAIN outbox[s] = 1 .. Len(outbox[s])
           /\ \A i \in DOMAIN outbox[s] :
                 /\ outbox[s][i] \in MutationType /\ outbox[s][i].base \in Nat
                 /\ outbox[s][i].tree \in Trees
                 /\ outbox[s][i].conflict \in BOOLEAN /\ outbox[s][i].bare \in BOOLEAN
           /\ server[s] \in Seq(Trees) /\ Len(server[s]) \in Nat
<1>1. row[s] \in RowType /\ outbox[s] \in Seq(MutationType) /\ server[s] \in Seq(Trees)
  BY DEF CacheInv, CacheTypeOK
<1>2. \A i \in DOMAIN outbox[s] : outbox[s][i] \in MutationType
  BY <1>1
<1>3. \A m \in MutationType : m.base \in Nat /\ m.tree \in Trees /\ m.conflict \in BOOLEAN
                               /\ m.bare \in BOOLEAN
  BY DEF MutationType
<1>4. row[s].st = "absent" <=> row[s].head = None
  BY DEF CacheInv, CacheTypeOK
<1>5. DOMAIN outbox[s] = 1 .. Len(outbox[s]) /\ Len(outbox[s]) \in Nat /\ Len(server[s]) \in Nat
  BY <1>1
<1> QED
  BY <1>1, <1>2, <1>3, <1>4, <1>5 DEF RowType, Present

LEMMA PublishStep ==
    ASSUME CacheInv, NEW s \in Skills, NEW t \in Trees, Publish(s, t)
    PROVE  CacheInv' /\ PoolStep
<1>1. /\ UNCHANGED <<local, blobs, ws, cmd, sweep, wk, edited, hollow>>
      /\ server' = [server EXCEPT ![s] = Append(@, t)]
      /\ server[s] # <<>> \/ cmd.s # s
      /\ server \in [Skills -> Seq(Trees)]
  BY DEF Publish, CacheInv, CacheTypeOK
<1>2. /\ server' \in [Skills -> Seq(Trees)]
      /\ \A z \in Skills : /\ Len(server'[z]) >= Len(server[z])
                           /\ Published(z) \subseteq Published(z)'
                           /\ z # s => server'[z] = server[z]
  <2>1. server'[s] = Append(server[s], t)
    BY <1>1
  <2>2. server' \in [Skills -> Seq(Trees)]
    BY <1>1, <2>1, AppendFacts
  <2>3. /\ Len(server'[s]) >= Len(server[s])
        /\ Published(s) \subseteq Published(s)'
    BY <1>1, <2>1, AppendFacts DEF Published
  <2> QED
    BY <1>1, <2>2, <2>3 DEF Published
<1>3. NoNewRoots
  BY <1>1, SameRoots
<1>4. PageType' /\ RowsBehind'
  <2>1. \A z \in Skills : Len(server[z]) \in Nat /\ Len(server'[z]) \in Nat
    BY <1>1, <1>2
  <2>2. PageType'
    BY <1>1, <1>2, <2>1 DEF CacheInv, PageType
  <2>3. \A z \in Skills : /\ row[z].rev \in Nat
                           /\ \A i \in DOMAIN outbox[z] : outbox[z][i].base \in Nat
    BY RowFacts
  <2>4. RowsBehind'
    BY <1>1, <1>2, <2>1, <2>3 DEF CacheInv, RowsBehind, local, Present
  <2> QED
    BY <2>2, <2>4
<1>5. ImportIsNew'
  BY <1>1, <1>2 DEF CacheInv, ImportIsNew, local, Present
<1>6. HeadsPublished'
  BY <1>1, <1>2 DEF CacheInv, HeadsPublished, local
<1> QED
  BY <1>1, <1>2, <1>3, <1>4, <1>5, <1>6, WorkerChangesRows
     DEF CacheInv, CacheTypeOK, local, Present

LEMMA UpsertedFacts ==
    ASSUME CacheAssumption, NEW r \in RowType, NEW t \in Trees, NEW k \in Nat,
           r.st = "absent" <=> r.head = None, k # 0
    PROVE  /\ Upserted(r, t, k) \in RowType
           /\ Upserted(r, t, k).st = "absent" <=> Upserted(r, t, k).head = None
           /\ r.st # "absent" => Upserted(r, t, k).st # "absent"
           /\ \/ Upserted(r, t, k) = r
              \/ /\ Upserted(r, t, k).st = "conflict" /\ r.st \in {"dirty", "conflict"}
                 /\ Upserted(r, t, k).head = r.head
                 /\ Upserted(r, t, k).rem = t /\ Upserted(r, t, k).rev = k
              \/ /\ Upserted(r, t, k).st = "remote_only"
                 /\ Upserted(r, t, k).head = t
                 /\ Upserted(r, t, k).rem = t /\ Upserted(r, t, k).rev = k
              \/ /\ Upserted(r, t, k).st = "synced"
                 /\ r.st \in {"remote_only", "synced"} /\ r.head = t
                 /\ Upserted(r, t, k).head = t
                 /\ Upserted(r, t, k).rem = t /\ Upserted(r, t, k).rev = k
<1>1. CASE r.rev >= k
  BY <1>1 DEF Upserted
<1>2. CASE ~(r.rev >= k) /\ r.st \in {"dirty", "conflict"}
  <2>1. Upserted(r, t, k) = [r EXCEPT !.st = "conflict", !.rem = t, !.rev = k]
    BY <1>2 DEF Upserted
  <2>2. /\ Upserted(r, t, k) \in RowType /\ Upserted(r, t, k).st = "conflict"
        /\ Upserted(r, t, k).head = r.head /\ Upserted(r, t, k).rem = t
        /\ Upserted(r, t, k).rev = k
    BY <2>1 DEF RowType
  <2> QED
    BY <1>2, <2>2
<1>3. CASE ~(r.rev >= k) /\ r.st \notin {"dirty", "conflict"}
  <2> DEFINE v == IF r.st = "absent" \/ r.head # t THEN "remote_only" ELSE "synced"
  <2>1. Upserted(r, t, k) = [st |-> v, head |-> t, rem |-> t, rev |-> k]
    BY <1>3 DEF Upserted
  <2>2. /\ v \in {"remote_only", "synced"}
        /\ v = "synced" => r.st \in {"remote_only", "synced"} /\ r.head = t
    BY <1>3 DEF RowType
  <2> HIDE DEF v
  <2>3. /\ Upserted(r, t, k) \in RowType /\ Upserted(r, t, k).st = v
        /\ Upserted(r, t, k).head = t /\ Upserted(r, t, k).rem = t
        /\ Upserted(r, t, k).rev = k
    BY <2>1, <2>2 DEF RowType
  <2> QED
    BY <2>2, <2>3
<1> QED
  BY <1>1, <1>2, <1>3

LEMMA ApplyChangesPageStep ==
    ASSUME CacheInv, ApplyChangesPage
    PROVE  CacheInv' /\ PoolStep
<1> DEFINE s == wk.s
           t == server[wk.s][wk.rev]
           r == Upserted(row[s], t, wk.rev)
<1>1. /\ UNCHANGED <<server, outbox, deployed, blobs, ws, cmd, sweep, edited>>
      /\ s \in Skills /\ wk.rev \in 1 .. Len(server[s]) /\ wk' = NoPage
      /\ row' = [row EXCEPT ![s] = r]
      /\ hollow' = CASE r.st = "remote_only" -> hollow \ {s}
                     [] row[s].st = "remote_only" /\ r.st = "synced" ->
                          hollow \cup {s}
                     [] OTHER -> hollow
      /\ hollow \subseteq Skills
  BY DEF ApplyChangesPage, CacheInv, CacheTypeOK, PageType
<1>2. /\ t \in Trees /\ t \in Published(s) /\ wk.rev \in Nat /\ wk.rev # 0
      /\ wk.rev <= Len(server[s])
  BY <1>1, RowFacts DEF Published
<1>3. /\ r \in RowType
      /\ r.st = "absent" <=> r.head = None
      /\ Present(s) => r.st # "absent"
      /\ \/ r = row[s]
         \/ /\ r.st = "conflict" /\ row[s].st \in {"dirty", "conflict"}
            /\ r.head = row[s].head /\ r.rem = t /\ r.rev = wk.rev
         \/ /\ r.st = "remote_only" /\ r.head = t /\ r.rem = t /\ r.rev = wk.rev
         \/ /\ r.st = "synced" /\ row[s].st \in {"remote_only", "synced"}
            /\ row[s].head = t /\ r.head = t /\ r.rem = t /\ r.rev = wk.rev
  <2>1. row[s] \in RowType /\ (row[s].st = "absent" <=> row[s].head = None)
    BY <1>1 DEF CacheInv, CacheTypeOK
  <2> HIDE DEF s, t
  <2> QED
    BY <1>2, <2>1, UpsertedFacts, CacheAssumption DEF Present
<1> HIDE DEF s, t, r
<1>4. /\ row' \in [Skills -> RowType] /\ row'[s] = r
      /\ \A z \in Skills \ {s} : row'[z] = row[z]
      /\ \A z \in Skills : row'[z].st = "absent" <=> row'[z].head = None
      /\ \A z \in Skills : Present(z) => Present(z)'
  BY <1>1, <1>3 DEF CacheInv, CacheTypeOK, Present
<1>5. /\ hollow' \subseteq Skills
      /\ \A z \in Skills \ {s} : z \in hollow' <=> z \in hollow
      /\ s \notin hollow' => \/ r.st = "remote_only"
                             \/ s \notin hollow /\ ~(row[s].st = "remote_only" /\ r.st = "synced")
  BY <1>1
<1>6. NoNewRoots
  <2>1. ASSUME NEW z \in Skills, Rooted(z)'
        PROVE  Rooted(z) /\ row'[z].head = row[z].head
    <3>1. CASE z # s
      BY <1>4, <1>5, <2>1, <3>1 DEF Rooted
    <3>2. CASE z = s
      BY <1>1, <1>3, <1>4, <1>5, <2>1, <3>2 DEF Rooted
    <3> QED
      BY <3>1, <3>2
  <2> QED
    BY <1>1, <2>1 DEF NoNewRoots
<1>7. PageType' /\ ImportIsNew'
  <2>1. PageType'
    BY <1>1 DEF PageType, NoPage
  <2>2. cmd.op = "zip" => cmd.s # s
    BY <1>1, <1>2, RowFacts DEF CacheInv, ImportIsNew
  <2>3. ImportIsNew'
    BY <1>1, <1>4, <2>2 DEF CacheInv, ImportIsNew, Present
  <2> QED
    BY <2>1, <2>3
<1>8. RowsBehind'
  BY <1>1, <1>2, <1>3, <1>4 DEF CacheInv, RowsBehind, Present
<1>9. HeadsPublished'
  <2>1. ASSUME NEW z \in Skills
        PROVE  /\ row'[z].st \in {"remote_only", "synced"} => row'[z].head \in Published(z)
               /\ row'[z].rem # None => row'[z].rem \in Published(z)
               /\ (/\ row'[z].st \in {"dirty", "conflict"}
                   /\ outbox[z] # <<>> /\ ~Head(outbox[z]).conflict)
                     => outbox[z][Len(outbox[z])].tree = row'[z].head
    <3>1. CASE z # s \/ r = row[s]
      BY <1>1, <1>4, <3>1 DEF CacheInv, HeadsPublished
    <3>2. CASE z = s /\ r # row[s]
      BY <1>1, <1>2, <1>3, <1>4, <3>2 DEF CacheInv, HeadsPublished
    <3> QED
      BY <3>1, <3>2
  <2> QED
    BY <1>1, <2>1 DEF HeadsPublished, Published
<1> QED
  BY <1>1, <1>4, <1>5, <1>6, <1>7, <1>8, <1>9, WorkerChangesRows
     DEF CacheInv, CacheTypeOK

(* A push that the server takes publishes what it was based on.            *)
LEMMA PushTakenStep ==
    ASSUME CacheInv, NEW s \in Skills, Push(s), Head(outbox[s]).base = Len(server[s])
    PROVE  CacheInv' /\ PoolStep
<1> DEFINE n == Len(server[s])
           m == Head(outbox[s])
           st == IF row[s].st \in {"dirty", "conflict"} /\ Tail(outbox[s]) = <<>>
                 THEN "synced" ELSE row[s].st
<1>1. /\ UNCHANGED <<deployed, blobs, ws, cmd, sweep, wk, edited>>
      /\ outbox[s] # <<>> /\ ~m.conflict
      /\ server' = [server EXCEPT ![s] = Append(@, m.tree)]
      /\ outbox' = [outbox EXCEPT ![s] = Tail(@)]
      /\ row' = [row EXCEPT ![s] = [@ EXCEPT !.rev = n + 1, !.st = st]]
      /\ hollow' = IF row[s].st = "remote_only" /\ row'[s].st = "conflict"
                   THEN hollow \cup {s} ELSE hollow
      /\ hollow \subseteq Skills
  BY DEF Push, CacheInv, CacheTypeOK
<1>2. /\ m = outbox[s][1] /\ 1 \in DOMAIN outbox[s] /\ m.tree \in Trees
      /\ Tail(outbox[s]) \in Seq(MutationType)
      /\ Len(Tail(outbox[s])) = Len(outbox[s]) - 1
      /\ \A i \in DOMAIN Tail(outbox[s]) : /\ i + 1 \in DOMAIN outbox[s]
                                           /\ Tail(outbox[s])[i] = outbox[s][i + 1]
      /\ n \in Nat
  BY <1>1, RowFacts, TailFacts
<1>3. Present(s)
  BY <1>1 DEF CacheInv, RowsBehind
<1>4. /\ st \in {"remote_only", "synced", "dirty", "conflict"}
      /\ st = "conflict" => row[s].st = "conflict"
      /\ st \notin {"absent", "remote_only"} => row[s].st \notin {"absent", "remote_only"}
      /\ st = row[s].st \/ (/\ st = "synced" /\ Tail(outbox[s]) = <<>>
                            /\ row[s].st \in {"dirty", "conflict"})
  BY <1>3, RowFacts DEF RowType, Present
<1> HIDE DEF st
<1>5. /\ row' \in [Skills -> RowType]
      /\ row'[s].st = st /\ row'[s].head = row[s].head /\ row'[s].rem = row[s].rem
      /\ row'[s].rev = n + 1
      /\ \A z \in Skills \ {s} : row'[z] = row[z]
  <2> DEFINE r == [row[s] EXCEPT !.rev = n + 1, !.st = st]
  <2>1. row[s] \in RowType /\ n + 1 \in Nat
    BY <1>2, RowFacts
  <2>2. /\ r \in RowType
        /\ r.st = st /\ r.head = row[s].head /\ r.rem = row[s].rem /\ r.rev = n + 1
    BY <1>4, <2>1 DEF RowType
  <2>3. row' = [row EXCEPT ![s] = r]
    BY <1>1
  <2> HIDE DEF r
  <2> QED
    BY <2>2, <2>3 DEF CacheInv, CacheTypeOK
<1>6. /\ server' \in [Skills -> Seq(Trees)]
      /\ server'[s] = Append(server[s], m.tree) /\ Len(server'[s]) = n + 1
      /\ Published(s)' = Published(s) \cup {m.tree}
      /\ \A z \in Skills \ {s} : server'[z] = server[z] /\ Published(z)' = Published(z)
  <2>1. server'[s] = Append(server[s], m.tree) /\ server[s] \in Seq(Trees)
    BY <1>1, RowFacts DEF CacheInv, CacheTypeOK
  <2>2. Published(s)' = Published(s) \cup {m.tree}
    BY <1>2, <2>1, AppendFacts DEF Published
  <2> QED
    BY <1>1, <1>2, <2>1, <2>2, AppendFacts DEF Published, CacheInv, CacheTypeOK
<1>7. /\ outbox' \in [Skills -> Seq(MutationType)] /\ outbox'[s] = Tail(outbox[s])
      /\ \A z \in Skills \ {s} : outbox'[z] = outbox[z]
      /\ hollow' = hollow
  BY <1>1, <1>2, <1>4, <1>5 DEF CacheInv, CacheTypeOK
<1>8. NoNewRoots
  <2>1. ASSUME NEW z \in Skills, Rooted(z)'
        PROVE  Rooted(z) /\ row'[z].head = row[z].head
    BY <1>4, <1>5, <1>7, <2>1 DEF Rooted
  <2>2. ASSUME NEW z \in Skills, NEW i \in DOMAIN outbox'[z]
        PROVE  \E j \in DOMAIN outbox[z] : outbox[z][j] = outbox'[z][i]
    <3>1. CASE z = s
      BY <1>2, <1>7, <2>2, <3>1
    <3>2. CASE z # s
      BY <1>7, <2>2, <3>2
    <3> QED
      BY <3>1, <3>2
  <2> QED
    BY <1>1, <2>1, <2>2 DEF NoNewRoots
<1>9. PageType' /\ ImportIsNew'
  <2>1. PageType'
    BY <1>1, <1>2, <1>6 DEF CacheInv, PageType
  <2>2. cmd.op = "zip" => cmd.s # s
    BY <1>3 DEF CacheInv, ImportIsNew
  <2> QED
    BY <1>1, <1>5, <1>6, <2>1, <2>2 DEF CacheInv, ImportIsNew, Present
<1>10. RowsBehind'
  <2>1. \A i \in DOMAIN outbox[s] : outbox[s][i].base <= n /\ outbox[s][i].base \in Nat
    BY RowFacts DEF CacheInv, RowsBehind
  <2>2. \A i \in DOMAIN outbox'[s] : outbox'[s][i].base <= n + 1
    BY <1>2, <1>7, <2>1
  <2>3. row'[s].rev <= Len(server'[s]) /\ Present(s)'
    BY <1>2, <1>4, <1>5, <1>6 DEF Present
  <2> QED
    BY <1>5, <1>6, <1>7, <2>2, <2>3 DEF CacheInv, RowsBehind, Present
<1>11. HeadsPublished'
  <2>1. ASSUME st \in {"remote_only", "synced"}
        PROVE  row[s].head \in Published(s) \cup {m.tree}
    <3>1. CASE st = row[s].st
      BY <2>1, <3>1 DEF CacheInv, HeadsPublished
    <3>2. CASE Tail(outbox[s]) = <<>> /\ row[s].st \in {"dirty", "conflict"}
      <4>1. Len(outbox[s]) = 1
        <5>1. Len(Tail(outbox[s])) = 0 /\ Len(outbox[s]) \in Nat
          BY <3>2, RowFacts
        <5> QED
          BY <1>2, <5>1
      <4> QED
        BY <1>1, <1>2, <3>2, <4>1 DEF CacheInv, HeadsPublished
    <3> QED
      BY <1>4, <3>1, <3>2
  <2>2. ASSUME st \in {"dirty", "conflict"}, outbox'[s] # <<>>
        PROVE  outbox'[s][Len(outbox'[s])].tree = row[s].head
    <3>1. row[s].st = st /\ outbox[s][Len(outbox[s])].tree = row[s].head
      BY <1>1, <1>4, <2>2 DEF CacheInv, HeadsPublished
    <3>2. Len(outbox'[s]) \in DOMAIN outbox'[s] /\ Len(outbox'[s]) + 1 = Len(outbox[s])
      BY <1>2, <1>7, <2>2, RowFacts
    <3> QED
      BY <1>2, <1>7, <3>1, <3>2
  <2>3. /\ HeadsPublished /\ row'[s].st = st /\ row'[s].rem = row[s].rem
        /\ row'[s].head = row[s].head
    BY <1>5 DEF CacheInv
  <2>4. \A z \in Skills \ {s} :
           /\ row'[z] = row[z] /\ outbox'[z] = outbox[z]
           /\ Published(z)' = Published(z)
    BY <1>5, <1>6, <1>7
  <2>5. /\ st \in {"remote_only", "synced"} => row[s].head \in Published(s)'
        /\ st \in {"dirty", "conflict"} /\ outbox'[s] # <<>>
             => outbox'[s][Len(outbox'[s])].tree = row[s].head
        /\ row[s].rem # None => row[s].rem \in Published(s)'
    BY <1>6, <2>1, <2>2, <2>3 DEF HeadsPublished
  <2> QED
    BY <2>3, <2>4, <2>5 DEF HeadsPublished
<1>12. /\ \A z \in Skills : row'[z].st = "absent" <=> row'[z].head = None
       /\ \A z \in Skills : Present(z) => Present(z)'
  BY <1>3, <1>4, <1>5 DEF CacheInv, CacheTypeOK, Present
<1> QED
  BY <1>1, <1>5, <1>6, <1>7, <1>8, <1>9, <1>10, <1>11, <1>12, WorkerChangesRows

(* A stale one becomes a conflict with what the server has.                *)
LEMMA PushStaleStep ==
    ASSUME CacheInv, NEW s \in Skills, Push(s), Head(outbox[s]).base # Len(server[s])
    PROVE  CacheInv' /\ PoolStep
<1> DEFINE n == Len(server[s])
           m == Head(outbox[s])
           mm == [m EXCEPT !.conflict = TRUE]
<1>1. /\ UNCHANGED <<server, deployed, blobs, ws, cmd, sweep, wk, edited>>
      /\ outbox[s] # <<>>
      /\ outbox' = [outbox EXCEPT ![s] = <<mm>> \o Tail(@)]
      /\ row' = [row EXCEPT ![s] = [@ EXCEPT !.st = "conflict", !.rev = n,
                                            !.rem = server[s][n]]]
      /\ hollow' = IF row[s].st = "remote_only" /\ row'[s].st = "conflict"
                   THEN hollow \cup {s} ELSE hollow
      /\ hollow \subseteq Skills
  BY DEF Push, CacheInv, CacheTypeOK
<1>2. /\ m = outbox[s][1] /\ 1 \in DOMAIN outbox[s] /\ m \in MutationType
      /\ m.base \in Nat /\ n \in Nat /\ server[s] \in Seq(Trees)
  BY <1>1, RowFacts, TailFacts
<1>3. Present(s) /\ m.base <= n
  BY <1>1, <1>2 DEF CacheInv, RowsBehind
<1>4. n \in DOMAIN server[s] /\ server[s][n] \in Trees /\ server[s][n] \in Published(s)
  BY <1>2, <1>3 DEF Published
<1>5. /\ mm \in MutationType /\ mm.conflict = TRUE /\ mm.tree = m.tree
      /\ mm.base = m.base /\ mm.bare = m.bare
  BY <1>2 DEF MutationType
<1> HIDE DEF mm
<1>6. /\ row' \in [Skills -> RowType]
      /\ row'[s].st = "conflict" /\ row'[s].head = row[s].head
      /\ row'[s].rem = server[s][n] /\ row'[s].rev = n
      /\ \A z \in Skills \ {s} : row'[z] = row[z]
  <2> DEFINE r == [row[s] EXCEPT !.st = "conflict", !.rev = n, !.rem = server[s][n]]
  <2>1. /\ r \in RowType /\ r.st = "conflict" /\ r.head = row[s].head
        /\ r.rem = server[s][n] /\ r.rev = n
    BY <1>2, <1>4, RowFacts DEF RowType
  <2>2. row' = [row EXCEPT ![s] = r]
    BY <1>1
  <2> HIDE DEF r
  <2> QED
    BY <2>1, <2>2 DEF CacheInv, CacheTypeOK
<1>7. /\ outbox' \in [Skills -> Seq(MutationType)]
      /\ DOMAIN outbox'[s] = DOMAIN outbox[s] /\ outbox'[s][1] = mm
      /\ \A i \in DOMAIN outbox[s] \ {1} : outbox'[s][i] = outbox[s][i]
      /\ Head(outbox'[s]).conflict
      /\ \A z \in Skills \ {s} : outbox'[z] = outbox[z]
  <2>1. outbox'[s] = <<mm>> \o Tail(outbox[s])
    BY <1>1 DEF CacheInv, CacheTypeOK
  <2>2. /\ <<mm>> \o Tail(outbox[s]) \in Seq(MutationType)
        /\ Head(<<mm>> \o Tail(outbox[s])) = mm
    BY <1>1, <1>5, RowFacts, NewHeadFacts
  <2>3. /\ outbox' \in [Skills -> Seq(MutationType)]
        /\ \A z \in Skills \ {s} : outbox'[z] = outbox[z]
    BY <1>1, <2>2 DEF CacheInv, CacheTypeOK
  <2>4. /\ DOMAIN outbox'[s] = DOMAIN outbox[s] /\ outbox'[s][1] = mm
        /\ \A i \in DOMAIN outbox[s] \ {1} : outbox'[s][i] = outbox[s][i]
    BY <1>1, <1>5, <2>1, RowFacts, NewHeadFacts
  <2> QED
    BY <1>5, <2>1, <2>2, <2>3, <2>4
<1>8. /\ hollow' \subseteq Skills
      /\ \A z \in Skills \ {s} : z \in hollow' <=> z \in hollow
      /\ s \notin hollow' => s \notin hollow /\ row[s].st # "remote_only"
  BY <1>1, <1>6
<1>9. NoNewRoots
  <2>1. ASSUME NEW z \in Skills, Rooted(z)'
        PROVE  Rooted(z) /\ row'[z].head = row[z].head
    BY <1>3, <1>6, <1>8, <2>1 DEF Rooted, Present
  <2>2. ASSUME NEW z \in Skills, NEW i \in DOMAIN outbox'[z]
        PROVE  /\ i \in DOMAIN outbox[z]
               /\ outbox[z][i].tree = outbox'[z][i].tree
               /\ outbox[z][i].bare = outbox'[z][i].bare
               /\ outbox[z][i].base = outbox'[z][i].base
    BY <1>2, <1>5, <1>7, <2>2
  <2> QED
    BY <1>1, <2>1, <2>2 DEF NoNewRoots
<1>10. PageType' /\ ImportIsNew'
  <2>1. PageType'
    BY <1>1 DEF CacheInv, PageType
  <2>2. cmd.op = "zip" => cmd.s # s
    BY <1>3 DEF CacheInv, ImportIsNew
  <2> QED
    BY <1>1, <1>6, <2>1, <2>2 DEF CacheInv, ImportIsNew, Present
<1>11. RowsBehind'
  <2>1. \A i \in DOMAIN outbox[s] : outbox[s][i].base <= n
    BY DEF CacheInv, RowsBehind
  <2>2. \A i \in DOMAIN outbox'[s] : outbox'[s][i].base <= n
    BY <1>2, <1>5, <1>7, <2>1
  <2> QED
    BY <1>1, <1>2, <1>6, <1>7, <2>2 DEF CacheInv, RowsBehind, Present
<1>12. HeadsPublished'
  BY <1>1, <1>4, <1>6, <1>7 DEF CacheInv, HeadsPublished, Published
<1>13. /\ \A z \in Skills : row'[z].st = "absent" <=> row'[z].head = None
       /\ \A z \in Skills : Present(z) => Present(z)'
  BY <1>3, <1>6 DEF CacheInv, CacheTypeOK, Present
<1>14. server' \in [Skills -> Seq(Trees)]
  BY <1>1 DEF CacheInv, CacheTypeOK
<1> QED
  BY <1>1, <1>6, <1>7, <1>8, <1>9, <1>10, <1>11, <1>12, <1>13, <1>14, WorkerChangesRows

-----------------------------------------------------------------------------
(* Commands that change rows, mutations or deployments.                    *)

LEMMA Resting ==
    ASSUME cmd' \in CmdRecords, cmd'.pc \in {"idle", "list", "check"},
           cmd'.op # "zip",
           cmd'.pc = "check" => cmd'.s \in Skills /\ row'[cmd'.s].st # "absent"
    PROVE  /\ CmdType' /\ ImportIsNew' /\ Fetched'
           /\ Listed' /\ Counted' /\ Resolved'
           /\ CaptureIsExact' /\ HydrationIsExact'
  BY DEF CmdType, ImportIsNew, Fetched, Listed, Counted, Resolved, CaptureIsExact,
     HydrationIsExact, Hydrating, Present

LEMMA CommitSkillEditStep ==
    ASSUME CacheInv, CommitSkillEdit
    PROVE  CacheInv' /\ PoolStep
<1>0. PICK s \in Skills : s = cmd.s
  BY DEF CommitSkillEdit, CacheInv, CmdType
<1> DEFINE m == [tree |-> cmd.tree, base |-> row[s].rev, conflict |-> FALSE,
                 bare |-> FALSE]
           r == [row[s] EXCEPT !.st = "dirty", !.head = cmd.tree]
           q == Append(outbox[s], m)
<1>1. /\ UNCHANGED <<server, deployed, blobs, ws, sweep, wk>>
      /\ cmd.pc = "commit" /\ cmd \in CmdRecords
      /\ cmd.tree \in Trees /\ Closure(cmd.tree) \subseteq blobs
      /\ row' = [row EXCEPT ![s].st = "dirty", ![s].head = cmd.tree]
      /\ outbox' = [outbox EXCEPT ![s] = q]
      /\ hollow' = hollow \ {s}
      /\ edited' = [edited EXCEPT ![s] = cmd.moved \/ ws[s] = Partial]
      /\ Fail \/ (Step("list") /\ cmd.op # "zip")
  BY <1>0 DEF CommitSkillEdit, Frame, CacheInv, CmdType, Fetched
<1>2. /\ r \in RowType /\ r.st = "dirty" /\ r.head = cmd.tree /\ r.rem = row[s].rem
      /\ r.rev = row[s].rev
  <2>1. row[s] \in RowType
    BY <1>1, RowFacts
  <2> QED
    BY <1>1, <2>1 DEF RowType
<1>3. row' = [row EXCEPT ![s] = r]
  BY <1>1 DEF CacheInv, CacheTypeOK
<1>4. /\ m \in MutationType /\ m.tree = cmd.tree /\ m.base = row[s].rev
      /\ m.conflict = FALSE
  BY <1>1, RowFacts DEF MutationType
<1> HIDE DEF m, r
<1>5. /\ q \in Seq(MutationType) /\ Len(q) = Len(outbox[s]) + 1
      /\ DOMAIN q = DOMAIN outbox[s] \cup {Len(q)}
      /\ \A i \in DOMAIN outbox[s] : q[i] = outbox[s][i]
      /\ q[Len(q)] = m /\ q # <<>>
  BY <1>1, <1>4, RowFacts, AppendFacts
<1> HIDE DEF q
<1>6. /\ row' \in [Skills -> RowType] /\ row'[s] = r
      /\ outbox' \in [Skills -> Seq(MutationType)] /\ outbox'[s] = q
      /\ \A z \in Skills \ {s} : row'[z] = row[z] /\ outbox'[z] = outbox[z]
  BY <1>1, <1>2, <1>3, <1>5, OthersKeep
<1>7. /\ CmdType' /\ ImportIsNew' /\ Fetched' /\ Listed' /\ Counted' /\ Resolved'
      /\ CaptureIsExact' /\ HydrationIsExact'
  <2>1. cmd' \in CmdRecords /\ cmd'.pc \in {"idle", "list"} /\ cmd'.op # "zip"
    BY <1>1, NoCmdType, StepFacts DEF Fail, Pcs
  <2> QED
    BY <2>1, Resting
<1>8. Served' /\ PoolStep
  <2>1. \A i \in DOMAIN outbox'[s] :
           \/ outbox'[s][i].tree = cmd.tree
           \/ i \in DOMAIN outbox[s] /\ outbox'[s][i] = outbox[s][i]
    BY <1>4, <1>5, <1>6
  <2>2. \A i \in DOMAIN outbox'[s] : ~outbox'[s][i].bare =>
           \/ outbox'[s][i].tree = cmd.tree
           \/ \E j \in DOMAIN outbox[s] : /\ ~outbox[s][j].bare
                                         /\ outbox[s][j].tree = outbox'[s][i].tree
    BY <2>1
  <2>3. \A z \in Skills \ {s} :
           row'[z] = row[z] /\ outbox'[z] = outbox[z] /\ (z \in hollow' <=> z \in hollow)
    BY <1>1, <1>6
  <2>4. /\ \A z \in Skills : deployed'[z] \in {deployed[z], None, cmd.tree}
        /\ row'[s].head = cmd.tree
    BY <1>1, <1>2, <1>6
  <2> QED
    BY <1>1, <2>2, <2>3, <2>4, OneNewRoot
<1>9. CacheTypeOK' /\ SweepType' /\ PageType'
  <2>1. \A z \in Skills : row'[z].st = "absent" <=> row'[z].head = None
    BY <1>1, <1>2, <1>6, CacheAssumption DEF CacheInv, CacheTypeOK
  <2>2. edited' \in [Skills -> BOOLEAN] /\ hollow' \subseteq Skills
    <3>1. (cmd.moved \/ ws[s] = Partial) \in BOOLEAN
      OBVIOUS
    <3> QED
      BY <1>1, <3>1 DEF CacheInv, CacheTypeOK
  <2> QED
    BY <1>1, <1>6, <2>1, <2>2 DEF CacheInv, CacheTypeOK, SweepType, PageType
<1>10. RowsBehind'
  <2>1. row[s].rev <= Len(server[s]) /\ \A i \in DOMAIN outbox[s] : outbox[s][i].base <= Len(server[s])
    BY <1>1 DEF CacheInv, RowsBehind
  <2>2. \A i \in DOMAIN outbox'[s] : outbox'[s][i].base <= Len(server[s])
    BY <1>4, <1>5, <1>6, <2>1
  <2>3. row'[s].rev <= Len(server[s]) /\ Present(s)'
    BY <1>2, <1>6, <2>1 DEF Present
  <2> QED
    BY <1>1, <1>6, <2>2, <2>3 DEF CacheInv, RowsBehind, Present
<1>11. HeadsPublished'
  <2>1. q # <<>> /\ q[Len(q)].tree = row'[s].head
    BY <1>2, <1>4, <1>5, <1>6
  <2> QED
    BY <1>1, <1>2, <1>6, <2>1 DEF CacheInv, HeadsPublished, Published
<1>12. LocalIsExact'
  <2>1. ws[s] \in Trees /\ ~edited'[s] => ws[s] = row'[s].head
    <3>1. edited'[s] <=> cmd.moved \/ ws[s] = Partial
      BY <1>1 DEF CacheInv, CacheTypeOK
    <3> QED
      BY <1>0, <1>1, <1>2, <1>6, <3>1, CacheAssumption DEF CacheInv, CaptureIsExact
  <2>2. \A z \in Skills \ {s} : edited'[z] = edited[z]
    BY <1>1 DEF CacheInv, CacheTypeOK
  <2> QED
    BY <1>1, <1>6, <2>1, <2>2 DEF CacheInv, LocalIsExact
<1> QED
  BY <1>7, <1>8, <1>9, <1>10, <1>11, <1>12 DEF CacheInv

LEMMA UnresolvedFacts ==
    ASSUME CacheInv, NEW s \in Skills
    PROVE  /\ Unresolved(s) \in Seq(MutationType)
           /\ \A i \in DOMAIN Unresolved(s) :
                 \E j \in DOMAIN outbox[s] : Unresolved(s)[i] = outbox[s][j]
<1>1. CASE outbox[s] # <<>> /\ Head(outbox[s]).conflict
  BY <1>1, RowFacts, TailFacts DEF Unresolved
<1>2. CASE ~(outbox[s] # <<>> /\ Head(outbox[s]).conflict)
  BY <1>2, RowFacts DEF Unresolved
<1> QED
  BY <1>1, <1>2

(* What the three commands that end in one step have in common.            *)
LEMMA CommandEnds ==
    ASSUME CacheInv, NEW s \in Skills, cmd' = NoCmd,
           UNCHANGED <<server, blobs, ws, edited, hollow, sweep, wk>>,
           row' \in [Skills -> RowType], outbox' \in [Skills -> Seq(MutationType)],
           deployed' \in [Skills -> Trees \cup {None}],
           \A z \in Skills \ {s} : row'[z] = row[z] /\ outbox'[z] = outbox[z],
           row'[s].st = "absent" <=> row'[s].head = None,
           RowsBehind', HeadsPublished',
           Rooted(s)' => Rooted(s) /\ row'[s].head = row[s].head,
           Served', PoolStep
    PROVE  CacheInv' /\ PoolStep
<1>1. /\ CmdType' /\ ImportIsNew' /\ Fetched' /\ Listed' /\ Counted' /\ Resolved'
      /\ CaptureIsExact' /\ HydrationIsExact'
  BY NoCmdType, Resting
<1>2. CacheTypeOK' /\ SweepType' /\ PageType'
  <2>1. \A z \in Skills : row'[z].st = "absent" <=> row'[z].head = None
    BY DEF CacheInv, CacheTypeOK
  <2> QED
    BY <2>1 DEF CacheInv, CacheTypeOK, SweepType, PageType
<1>3. ASSUME NEW z \in Skills \ hollow, row'[z].st \in {"synced", "dirty", "conflict"}
      PROVE  /\ row[z].st \in {"synced", "dirty", "conflict"}
             /\ row'[z].head = row[z].head
  BY <1>3 DEF Rooted, CacheInv, CacheTypeOK, RowType
<1>4. LocalIsExact'
  BY <1>3 DEF CacheInv, LocalIsExact
<1> QED
  BY <1>1, <1>2, <1>4 DEF CacheInv

LEMMA KeepLocalStep ==
    ASSUME CacheInv, NEW s \in Skills, KeepLocal(s)
    PROVE  CacheInv' /\ PoolStep
<1> DEFINE m == [tree |-> row[s].head, base |-> row[s].rev, conflict |-> FALSE,
                 bare |-> s \in hollow]
           r == [row[s] EXCEPT !.st = "dirty"]
           u == Unresolved(s)
           q == Append(u, m)
<1>1. /\ UNCHANGED <<server, deployed, blobs, ws, edited, hollow, sweep, wk>>
      /\ cmd' = NoCmd /\ row[s].st = "conflict"
      /\ row' = [row EXCEPT ![s].st = "dirty"]
      /\ outbox' = [outbox EXCEPT ![s] = q]
  BY DEF KeepLocal, Command
<1>2. /\ row[s] \in RowType /\ row[s].head \in Trees
      /\ row[s].rev \in Nat /\ row[s].rev <= Len(server[s])
  BY <1>1, RowFacts DEF Present, CacheInv, RowsBehind
<1>3. /\ r \in RowType /\ r.st = "dirty" /\ r.head = row[s].head
      /\ r.rem = row[s].rem /\ r.rev = row[s].rev
      /\ row' = [row EXCEPT ![s] = r]
  BY <1>1, <1>2 DEF RowType
<1>4. /\ m \in MutationType /\ m.tree = row[s].head /\ m.base = row[s].rev
      /\ m.bare = (s \in hollow)
  BY <1>2 DEF MutationType
<1>5. /\ u \in Seq(MutationType)
      /\ \A i \in DOMAIN u : \E j \in DOMAIN outbox[s] : u[i] = outbox[s][j]
  BY UnresolvedFacts
<1> HIDE DEF m, r, u
<1>6. /\ q \in Seq(MutationType) /\ q # <<>> /\ q[Len(q)] = m
      /\ \A i \in DOMAIN q : q[i] = m \/ \E j \in DOMAIN outbox[s] : q[i] = outbox[s][j]
  BY <1>4, <1>5, AppendFacts
<1> HIDE DEF q
<1>7. /\ row' \in [Skills -> RowType] /\ row'[s] = r
      /\ outbox' \in [Skills -> Seq(MutationType)] /\ outbox'[s] = q
      /\ \A z \in Skills \ {s} : row'[z] = row[z] /\ outbox'[z] = outbox[z]
  BY <1>1, <1>3, <1>6, OthersKeep
<1>8. Rooted(s)' => Rooted(s) /\ row'[s].head = row[s].head
  BY <1>1, <1>3, <1>7 DEF Rooted
<1>9. Served' /\ PoolStep
  <2>1. CASE s \in hollow
    <3>1. \A i \in DOMAIN outbox'[s] : ~outbox'[s][i].bare =>
             \E j \in DOMAIN outbox[s] : /\ ~outbox[s][j].bare
                                        /\ outbox[s][j].tree = outbox'[s][i].tree
      BY <1>4, <1>6, <1>7, <2>1
    <3>2. NoNewRoots
      <4>1. \A z \in Skills : Rooted(z)' => Rooted(z) /\ row'[z].head = row[z].head
        BY <1>1, <1>7, <1>8 DEF Rooted
      <4> QED
        BY <1>1, <1>7, <3>1, <4>1 DEF NoNewRoots
    <3> QED
      BY <1>1, <3>2, NoRootStep
  <2>2. CASE s \notin hollow
    <3>1. Closure(row[s].head) \subseteq blobs
      <4>1. row[s].head \in Roots
        BY <1>1, <2>2, RootFacts DEF Rooted
      <4> QED
        BY <4>1, PinFacts DEF CacheInv, Served
    <3>2. \A i \in DOMAIN outbox'[s] : ~outbox'[s][i].bare =>
             \/ outbox'[s][i].tree = row[s].head
             \/ \E j \in DOMAIN outbox[s] : /\ ~outbox[s][j].bare
                                           /\ outbox[s][j].tree = outbox'[s][i].tree
      BY <1>4, <1>6, <1>7
    <3>3. \A z \in Skills \ {s} :
             row'[z] = row[z] /\ outbox'[z] = outbox[z] /\ (z \in hollow' <=> z \in hollow)
      BY <1>1, <1>7
    <3>4. \A z \in Skills : deployed'[z] \in {deployed[z], None, row[s].head}
      BY <1>1
    <3> QED
      BY <1>1, <1>2, <1>8, <3>1, <3>2, <3>3, <3>4, OneNewRoot
  <2> QED
    BY <2>1, <2>2
<1>10. RowsBehind'
  <2>1. \A i \in DOMAIN outbox'[s] : outbox'[s][i].base <= Len(server[s])
    BY <1>2, <1>4, <1>6, <1>7 DEF CacheInv, RowsBehind
  <2>2. row'[s].rev <= Len(server[s]) /\ row'[s].st # "absent"
    BY <1>2, <1>3, <1>7
  <2> QED
    BY <1>1, <1>7, <2>1, <2>2 DEF CacheInv, RowsBehind, Present
<1>11. HeadsPublished'
  BY <1>1, <1>3, <1>4, <1>6, <1>7 DEF CacheInv, HeadsPublished, Published
<1>12. /\ row'[s].st = "absent" <=> row'[s].head = None
       /\ deployed' \in [Skills -> Trees \cup {None}]
  BY <1>1, <1>2, <1>3, <1>7, CacheAssumption DEF CacheInv, CacheTypeOK
<1> QED
  BY <1>1, <1>7, <1>8, <1>9, <1>10, <1>11, <1>12, CommandEnds

LEMMA KeepRemoteStep ==
    ASSUME CacheInv, NEW s \in Skills, KeepRemote(s)
    PROVE  CacheInv' /\ PoolStep
<1> DEFINE r == [row[s] EXCEPT !.st = "remote_only", !.head = row[s].rem, !.rem = None]
           q == Unresolved(s)
<1>1. /\ UNCHANGED <<server, deployed, blobs, ws, edited, hollow, sweep, wk>>
      /\ cmd' = NoCmd /\ row[s].st = "conflict" /\ row[s].rem # None
      /\ row' = [row EXCEPT ![s].st = "remote_only", ![s].head = row[s].rem,
                            ![s].rem = None]
      /\ outbox' = [outbox EXCEPT ![s] = q]
  BY DEF KeepRemote, Command
<1>2. /\ row[s] \in RowType /\ row[s].rem \in Trees /\ row[s].rev \in Nat
      /\ row[s].rev <= Len(server[s]) /\ row[s].rem \in Published(s)
  BY <1>1, RowFacts DEF CacheInv, RowsBehind, HeadsPublished
<1>3. /\ r \in RowType /\ r.st = "remote_only" /\ r.head = row[s].rem
      /\ r.rem = None /\ r.rev = row[s].rev
  BY <1>2 DEF RowType
<1>4. row' = [row EXCEPT ![s] = r]
  BY <1>1 DEF CacheInv, CacheTypeOK
<1>5. /\ q \in Seq(MutationType)
      /\ \A i \in DOMAIN q : \E j \in DOMAIN outbox[s] : q[i] = outbox[s][j]
  BY UnresolvedFacts
<1> HIDE DEF r, q
<1>6. /\ row' \in [Skills -> RowType] /\ row'[s] = r
      /\ outbox' \in [Skills -> Seq(MutationType)] /\ outbox'[s] = q
      /\ \A z \in Skills \ {s} : row'[z] = row[z] /\ outbox'[z] = outbox[z]
  BY <1>1, <1>3, <1>4, <1>5, OthersKeep
<1>7. ~Rooted(s)'
  BY <1>3, <1>6 DEF Rooted
<1>8. Served' /\ PoolStep
  <2>1. \A z \in Skills : Rooted(z)' => Rooted(z) /\ row'[z].head = row[z].head
    BY <1>1, <1>6, <1>7 DEF Rooted
  <2>2. \A z \in Skills : \A i \in DOMAIN outbox'[z] :
           \E j \in DOMAIN outbox[z] : outbox[z][j] = outbox'[z][i]
    <3>1. \A i \in DOMAIN outbox'[s] :
             \E j \in DOMAIN outbox[s] : outbox[s][j] = outbox'[s][i]
      BY <1>5, <1>6
    <3>2. \A z \in Skills \ {s} : outbox'[z] = outbox[z]
      BY <1>6
    <3> QED
      BY <3>1, <3>2
  <2>3. NoNewRoots
    <3>1. \A z \in Skills : \A i \in DOMAIN outbox'[z] : ~outbox'[z][i].bare =>
             \E j \in DOMAIN outbox[z] : /\ ~outbox[z][j].bare
                                        /\ outbox[z][j].tree = outbox'[z][i].tree
      BY <2>2
    <3> QED
      BY <1>1, <2>1, <3>1 DEF NoNewRoots
  <2> QED
    BY <1>1, <2>3, NoRootStep
<1>9. RowsBehind'
  <2>1. \A i \in DOMAIN outbox'[s] : outbox'[s][i].base <= Len(server[s])
    BY <1>5, <1>6 DEF CacheInv, RowsBehind
  <2>2. row'[s].rev <= Len(server[s]) /\ row'[s].st # "absent"
    BY <1>2, <1>3, <1>6
  <2> QED
    BY <1>1, <1>6, <2>1, <2>2 DEF CacheInv, RowsBehind, Present
<1>10. HeadsPublished'
  BY <1>1, <1>2, <1>3, <1>6 DEF CacheInv, HeadsPublished, Published
<1>11. /\ row'[s].st = "absent" <=> row'[s].head = None
       /\ deployed' \in [Skills -> Trees \cup {None}]
  BY <1>1, <1>2, <1>3, <1>6, CacheAssumption DEF CacheInv, CacheTypeOK
<1> QED
  BY <1>1, <1>6, <1>7, <1>8, <1>9, <1>10, <1>11, CommandEnds

LEMMA UninstallStep ==
    ASSUME CacheInv, NEW s \in Skills, Uninstall(s)
    PROVE  CacheInv' /\ PoolStep
<1>1. /\ UNCHANGED <<server, row, outbox, blobs, ws, edited, hollow, sweep, wk>>
      /\ cmd' = NoCmd /\ deployed' = [deployed EXCEPT ![s] = None]
      /\ deployed \in [Skills -> Trees \cup {None}]
  BY DEF Uninstall, Command, CacheInv, CacheTypeOK
<1>2. Served' /\ PoolStep
  <2>1. NoNewRoots
    BY <1>1 DEF NoNewRoots, Rooted
  <2> QED
    BY <1>1, <2>1, NoRootStep
<1>3. RowsBehind' /\ HeadsPublished'
  BY <1>1 DEF CacheInv, RowsBehind, HeadsPublished, Present, Published
<1>4. /\ row' \in [Skills -> RowType] /\ outbox' \in [Skills -> Seq(MutationType)]
      /\ deployed' \in [Skills -> Trees \cup {None}]
      /\ \A z \in Skills \ {s} : row'[z] = row[z] /\ outbox'[z] = outbox[z]
      /\ row'[s].st = "absent" <=> row'[s].head = None
  BY <1>1 DEF CacheInv, CacheTypeOK
<1>5. Rooted(s)' => Rooted(s) /\ row'[s].head = row[s].head
  BY <1>1 DEF Rooted
<1> QED
  BY <1>1, <1>2, <1>3, <1>4, <1>5, CommandEnds

LEMMA RecordStep ==
    ASSUME CacheInv, DeploySingle, cmd.pc = "record"
    PROVE  CacheInv' /\ PoolStep
<1>1. PICK s \in Skills : s = cmd.s
  BY DEF CacheInv, CmdType
<1>2. /\ UNCHANGED <<server, row, outbox, blobs, ws, edited, hollow, sweep, wk>>
      /\ cmd' = NoCmd /\ deployed' = [deployed EXCEPT ![s] = cmd.head]
      /\ deployed \in [Skills -> Trees \cup {None}]
      /\ cmd.head \in Trees /\ Closure(cmd.head) \subseteq blobs
  BY <1>1 DEF DeploySingle, Fail, Frame, CacheInv, CacheTypeOK, CmdType, Fetched
<1>3. Rooted(s)' => Rooted(s) /\ row'[s].head = row[s].head
  BY <1>2 DEF Rooted
<1>4. Served' /\ PoolStep
  <2>1. \A z \in Skills : deployed'[z] \in {deployed[z], None, cmd.head}
    BY <1>2
  <2>2. \A z \in Skills \ {s} :
           row'[z] = row[z] /\ outbox'[z] = outbox[z] /\ (z \in hollow' <=> z \in hollow)
    BY <1>2
  <2>3. \A i \in DOMAIN outbox'[s] : ~outbox'[s][i].bare =>
           \/ outbox'[s][i].tree = cmd.head
           \/ \E j \in DOMAIN outbox[s] : /\ ~outbox[s][j].bare
                                         /\ outbox[s][j].tree = outbox'[s][i].tree
    BY <1>2
  <2> QED
    BY <1>2, <1>3, <2>1, <2>2, <2>3, OneNewRoot
<1>5. RowsBehind' /\ HeadsPublished'
  BY <1>2 DEF CacheInv, RowsBehind, HeadsPublished, Present, Published
<1>6. /\ row' \in [Skills -> RowType] /\ outbox' \in [Skills -> Seq(MutationType)]
      /\ deployed' \in [Skills -> Trees \cup {None}]
      /\ \A z \in Skills \ {s} : row'[z] = row[z] /\ outbox'[z] = outbox[z]
      /\ row'[s].st = "absent" <=> row'[s].head = None
  BY <1>2 DEF CacheInv, CacheTypeOK
<1> QED
  BY <1>2, <1>3, <1>4, <1>5, <1>6, CommandEnds

(* The compare-and-swap: the row still names what was fetched and is in    *)
(* the directory.                                                          *)
LEMMA MarkSkillHydratedStep ==
    ASSUME CacheInv, MarkSkillHydrated
    PROVE  CacheInv' /\ PoolStep
<1>1. PICK s \in Skills : s = cmd.s
  BY DEF MarkSkillHydrated, CacheInv, CmdType
<1>2. /\ UNCHANGED <<server, outbox, deployed, blobs, ws, edited, sweep, wk>>
      /\ cmd.pc = "mark" /\ cmd \in CmdRecords /\ cmd.head \in Trees
      /\ Closure(cmd.head) \subseteq blobs
      /\ row[s] \in RowType
  BY <1>1, RowFacts DEF MarkSkillHydrated, Frame, CacheInv, CmdType, Fetched, Hydrating
<1>3. CASE ~Promotable(row[s], cmd.head)
  <2>1. /\ UNCHANGED <<row, hollow>>
        /\ \/ Fail
           \/ Step("read") /\ row[s].st \in {"remote_only", "synced"}
    BY <1>1, <1>3 DEF MarkSkillHydrated
  <2>2. CASE Fail
    BY <1>2, <2>1, <2>2, FailStep, SamePage DEF local
  <2>3. CASE Step("read") /\ row[s].st \in {"remote_only", "synced"}
    <3>1. Present(cmd.s) /\ cmd.op # "zip"
      BY <1>1, <2>3 DEF Present, CacheInv, ImportIsNew
    <3>2. cmd' \in CmdRecords /\ cmd'.pc = "read" /\ cmd'.op = cmd.op /\ cmd'.s = cmd.s
      BY <1>2, <2>3, StepFacts DEF Pcs
    <3> QED
      BY <1>1, <1>2, <2>1, <3>1, <3>2, PauseStep, SamePage DEF local
  <2> QED
    BY <2>1, <2>2, <2>3
<1>4. CASE Promotable(row[s], cmd.head)
  <2> DEFINE r == [row[s] EXCEPT !.st = "synced"]
  <2>1. /\ row' = [row EXCEPT ![s].st = "synced"]
        /\ hollow' = hollow \ {s} /\ Hydrated
        /\ row[s].st \in {"remote_only", "synced"} /\ row[s].head = cmd.head
    BY <1>1, <1>4 DEF MarkSkillHydrated, Promotable
  <2>2. /\ r \in RowType /\ r.st = "synced" /\ r.head = cmd.head
        /\ r.rem = row[s].rem /\ r.rev = row[s].rev
        /\ row' = [row EXCEPT ![s] = r]
    BY <1>2, <2>1 DEF RowType
  <2> HIDE DEF r
  <2>3. /\ row' \in [Skills -> RowType] /\ row'[s] = r
        /\ \A z \in Skills \ {s} : row'[z] = row[z]
    BY <2>2 DEF CacheInv, CacheTypeOK
  <2>4. /\ CmdType' /\ ImportIsNew' /\ Fetched' /\ Listed' /\ Counted' /\ Resolved'
        /\ CaptureIsExact' /\ HydrationIsExact'
    <3>1. /\ cmd' \in CmdRecords /\ cmd'.pc \in {"idle", "check"} /\ cmd'.op # "zip"
          /\ cmd'.pc = "check" => cmd'.s = s
      BY <1>1, <1>2, <2>1, HydratedFacts, NoCmdType
    <3>2. row'[s].st # "absent"
      BY <2>2, <2>3
    <3> QED
      BY <3>1, <3>2, Resting
  <2>5. Served' /\ PoolStep
    <3>1. \A z \in Skills \ {s} :
             row'[z] = row[z] /\ outbox'[z] = outbox[z] /\ (z \in hollow' <=> z \in hollow)
      BY <1>2, <2>1, <2>3
    <3>2. row'[s].head = cmd.head /\ \A z \in Skills : deployed'[z] \in {deployed[z], None, cmd.head}
      BY <1>2, <2>2, <2>3
    <3>3. \A i \in DOMAIN outbox'[s] : ~outbox'[s][i].bare =>
             \/ outbox'[s][i].tree = cmd.head
             \/ \E j \in DOMAIN outbox[s] : /\ ~outbox[s][j].bare
                                           /\ outbox[s][j].tree = outbox'[s][i].tree
      BY <1>2
    <3> QED
      BY <1>2, <3>1, <3>2, <3>3, OneNewRoot
  <2>6. CacheTypeOK' /\ SweepType' /\ PageType'
    <3>1. \A z \in Skills : row'[z].st = "absent" <=> row'[z].head = None
      BY <1>2, <2>2, <2>3, CacheAssumption DEF CacheInv, CacheTypeOK
    <3>2. hollow' \subseteq Skills
      BY <2>1 DEF CacheInv, CacheTypeOK
    <3> QED
      BY <1>2, <2>3, <3>1, <3>2 DEF CacheInv, CacheTypeOK, SweepType, PageType
  <2>7. RowsBehind'
    BY <1>2, <2>1, <2>2, <2>3 DEF CacheInv, RowsBehind, Present
  <2>8. HeadsPublished'
    BY <1>2, <2>1, <2>2, <2>3 DEF CacheInv, HeadsPublished, Published
  <2>9. LocalIsExact'
    <3>1. ws[s] = cmd.head \/ edited[s]
      BY <1>1, <1>2 DEF CacheInv, HydrationIsExact
    <3> QED
      BY <1>2, <2>1, <2>2, <2>3, <3>1 DEF CacheInv, LocalIsExact
  <2> QED
    BY <2>4, <2>5, <2>6, <2>7, <2>8, <2>9 DEF CacheInv
<1> QED
  BY <1>3, <1>4

-----------------------------------------------------------------------------
(* The cache budget: every root is listed, counted and resolved, so only   *)
(* blobs that nothing pins are doomed or swept.                            *)

LEMMA SweepMoves ==
    ASSUME CacheInv, UNCHANGED <<server, local, hollow, ws, edited, wk>>,
           blobs' \subseteq Blobs,
           cmd' \in CmdRecords, cmd'.pc \in SweepPcs, cmd'.op = cmd.op,
           cmd'.s = cmd.s, cmd'.head = cmd.head,
           SweepType', Listed', Counted', Resolved', Served', PoolStep
    PROVE  CacheInv' /\ PoolStep
<1>1. /\ CmdType' /\ ImportIsNew' /\ Fetched' /\ CaptureIsExact'
      /\ HydrationIsExact'
  BY DEF CacheInv, CmdType, ImportIsNew, Fetched, CaptureIsExact, HydrationIsExact,
     Hydrating, SweepPcs, local, Present
<1>2. CacheTypeOK'
  BY DEF CacheInv, CacheTypeOK, SweepType, SweepRecords, local
<1>3. PageType' /\ RowsBehind' /\ HeadsPublished' /\ LocalIsExact'
  BY DEF CacheInv, PageType, RowsBehind, HeadsPublished, LocalIsExact, local, Present,
     Published
<1> QED
  BY <1>1, <1>2, <1>3 DEF CacheInv

LEMMA SamePins ==
    ASSUME CacheInv, UNCHANGED <<local, hollow, blobs>>
    PROVE  Served' /\ PoolStep
  BY SameRoots, NoRootStep

LEMMA ListCacheSkillsStep ==
    ASSUME CacheInv, ListCacheSkills
    PROVE  CacheInv' /\ PoolStep
<1>1. /\ UNCHANGED <<server, local, hollow, blobs, ws, edited, wk>>
      /\ sweep' = [NoSweep EXCEPT !.rows = row] /\ Step("roots")
      /\ cmd \in CmdRecords /\ blobs' \subseteq Blobs
  BY DEF ListCacheSkills, Frame, CacheInv, CmdType, CacheTypeOK
<1>2. /\ cmd' \in CmdRecords /\ cmd'.pc = "roots" /\ cmd'.op = cmd.op
      /\ cmd'.s = cmd.s /\ cmd'.head = cmd.head
  BY <1>1, StepFacts DEF Pcs
<1>3. sweep'.rows = row /\ sweep'.doomed = {} /\ SweepType'
  <2>1. sweep' \in SweepRecords /\ sweep'.rows = row /\ sweep'.doomed = {}
    BY <1>1, NoSweepType DEF SweepRecords, CacheInv, CacheTypeOK
  <2>2. \A s \in Skills : row[s].st # "absent" => row[s].head \in Trees
    BY RowFacts DEF Present
  <2> QED
    BY <2>1, <2>2 DEF SweepType
<1>4. Listed' /\ Counted' /\ Resolved'
  BY <1>1, <1>2, <1>3 DEF Listed, Counted, Resolved, Rooted, local
<1> QED
  BY <1>1, <1>2, <1>3, <1>4, SamePins, SweepMoves DEF SweepPcs

LEMMA CountReferencesStep ==
    ASSUME CacheInv, CountReferences
    PROVE  CacheInv' /\ PoolStep
<1> DEFINE shipped == {s \in Skills : deployed[s] # None}
           refs == {[kind |-> "row", of |-> s, tree |-> sweep.rows[s].head] :
                      s \in {z \in Skills :
                               sweep.rows[z].st \notin {"absent", "remote_only"}}}
                   \cup {[kind |-> "deployment", of |-> s, tree |-> deployed[s]] :
                           s \in {z \in Skills : deployed[z] # None}}
                   \cup PayloadRefs
<1>1. /\ UNCHANGED <<server, local, hollow, blobs, ws, edited, wk>>
      /\ cmd.pc = "roots" /\ Step("scan")
      /\ sweep' = [sweep EXCEPT !.shipped = shipped, !.refs = refs]
      /\ cmd \in CmdRecords /\ blobs' \subseteq Blobs
  BY DEF CountReferences, Frame, CacheInv, CmdType, CacheTypeOK
<1>2. /\ cmd' \in CmdRecords /\ cmd'.pc = "scan" /\ cmd'.op = cmd.op
      /\ cmd'.s = cmd.s /\ cmd'.head = cmd.head
  BY <1>1, StepFacts DEF Pcs
<1>3. PayloadRefs \subseteq RefType
  BY RowFacts DEF PayloadRefs, RefType
<1>4. refs \subseteq RefType
  <2>1. ASSUME NEW s \in Skills, sweep.rows[s].st # "absent"
        PROVE  [kind |-> "row", of |-> s, tree |-> sweep.rows[s].head] \in RefType
    BY <2>1 DEF CacheInv, SweepType, RefType
  <2>2. ASSUME NEW s \in Skills, deployed[s] # None
        PROVE  [kind |-> "deployment", of |-> s, tree |-> deployed[s]] \in RefType
    BY <2>2 DEF CacheInv, CacheTypeOK, RefType
  <2> QED
    BY <1>3, <2>1, <2>2
<1>5. /\ \A s \in Skills : Rooted(s) =>
            [kind |-> "row", of |-> s, tree |-> row[s].head] \in refs
      /\ \A s \in Skills : deployed[s] # None =>
            [kind |-> "deployment", of |-> s, tree |-> deployed[s]] \in refs
      /\ \A s \in Skills : \A i \in DOMAIN outbox[s] :
            [kind |-> "payload", of |-> None, tree |-> outbox[s][i].tree] \in refs
  <2>1. \A s \in Skills : Rooted(s) => /\ sweep.rows[s].st \notin {"absent", "remote_only"}
                                       /\ sweep.rows[s].head = row[s].head
    BY <1>1 DEF CacheInv, Listed
  <2>2. \A s \in Skills : \A i \in DOMAIN outbox[s] :
            [kind |-> "payload", of |-> None, tree |-> outbox[s][i].tree] \in PayloadRefs
    BY DEF PayloadRefs
  <2> QED
    BY <2>1, <2>2
<1> HIDE DEF refs, shipped
<1>6. /\ SweepType' /\ sweep'.refs = refs
      /\ sweep'.rows = sweep.rows /\ sweep'.doomed = sweep.doomed
  <2>1. shipped \subseteq Skills
    BY DEF shipped
  <2>2. sweep \in SweepRecords
    BY DEF CacheInv, SweepType, SweepRecords
  <2>3. /\ sweep' \in SweepRecords /\ sweep'.refs = refs
        /\ sweep'.rows = sweep.rows /\ sweep'.doomed = sweep.doomed
    BY <1>1, <1>4, <2>1, <2>2 DEF SweepRecords
  <2> QED
    BY <2>3 DEF SweepType, SweepRecords, CacheInv
<1>7. Listed' /\ Counted' /\ Resolved'
  <2>1. Listed'
    BY <1>1, <1>6, SameRoots DEF CacheInv, Listed, Rooted, local
  <2>2. Counted' /\ Resolved'
    BY <1>1, <1>2, <1>5, <1>6 DEF Counted, Resolved, Rooted, local
  <2> QED
    BY <2>1, <2>2
<1> QED
  BY <1>1, <1>2, <1>6, <1>7, SamePins, SweepMoves DEF SweepPcs

LEMMA ScanInventoryStep ==
    ASSUME CacheInv, ScanInventory
    PROVE  CacheInv' /\ PoolStep
<1>1. CASE Cardinality(blobs) <= budget
  BY <1>1, FailStep, SamePage DEF ScanInventory, Frame
<1>2. CASE ~(Cardinality(blobs) <= budget)
  <2> DEFINE cand == {s \in Skills : sweep.rows[s].st # "absent"}
             unresolved == {r.tree : r \in sweep.refs} \ blobs
             used == Cardinality(blobs)
  <2>1. /\ UNCHANGED <<server, local, hollow, blobs, ws, edited, wk>>
        /\ cmd.pc = "scan" /\ Step("evict")
        /\ sweep' = [sweep EXCEPT !.inv = blobs, !.used = used, !.cand = cand,
                                  !.unresolved = unresolved]
        /\ cmd \in CmdRecords /\ blobs \subseteq Blobs
    BY <1>2 DEF ScanInventory, Frame, CacheInv, CmdType, CacheTypeOK
  <2>2. /\ cmd' \in CmdRecords /\ cmd'.pc = "evict" /\ cmd'.op = cmd.op
        /\ cmd'.s = cmd.s /\ cmd'.head = cmd.head
    BY <2>1, StepFacts DEF Pcs
  <2>3. cand \subseteq Skills /\ unresolved \subseteq Trees /\ used \in Int
    <3>1. used \in Nat
      BY <2>1, CacheAssumption, FS_Union, FS_Subset, FS_CardinalityType DEF Blobs
    <3>2. \A r \in sweep.refs : r.tree \in Trees
      BY DEF CacheInv, SweepType, SweepRecords, RefType
    <3> QED
      BY <3>1, <3>2
  <2>4. unresolved \cap Roots = {}
    <3>1. Roots \subseteq blobs
      BY PinFacts DEF CacheInv, Served, Closure
    <3> QED
      BY <3>1
  <2> HIDE DEF cand, unresolved, used
  <2>5. /\ SweepType' /\ sweep'.refs = sweep.refs /\ sweep'.unresolved = unresolved
        /\ sweep'.rows = sweep.rows /\ sweep'.doomed = sweep.doomed
    <3>1. sweep \in SweepRecords
      BY DEF CacheInv, SweepType, SweepRecords
    <3>2. /\ sweep' \in SweepRecords
          /\ sweep'.refs = sweep.refs /\ sweep'.unresolved = unresolved
          /\ sweep'.rows = sweep.rows /\ sweep'.doomed = sweep.doomed
      BY <2>1, <2>3, <3>1 DEF SweepRecords
    <3> QED
      BY <3>2 DEF SweepType, SweepRecords, CacheInv
  <2>6. Listed' /\ Counted' /\ Resolved'
    <3>1. Listed'
      BY <2>1, <2>5, SameRoots DEF CacheInv, Listed, Rooted, local
    <3>2. Counted'
      BY <2>1, <2>5 DEF CacheInv, Counted, Rooted, local
    <3>3. Resolved'
      BY <2>1, <2>4, <2>5, SameRoots DEF Resolved
    <3> QED
      BY <3>1, <3>2, <3>3
  <2>7. blobs' \subseteq Blobs
    BY <2>1
  <2> QED
    BY <2>1, <2>2, <2>5, <2>6, <2>7, SamePins, SweepMoves DEF SweepPcs
<1> QED
  BY <1>1, <1>2

(* A reference to a resolved root keeps the blobs of its closure.          *)
LEMMA KeptBlob ==
    ASSUME CacheInv, cmd.pc = "evict", NEW refs, NEW b, NEW t \in Roots,
           b \in Closure(t), NEW x \in refs, x.tree = t
    PROVE  Keepers(refs, b) # {}
<1>1. t \notin sweep.unresolved
  BY DEF CacheInv, Resolved
<1> QED
  BY <1>1 DEF Keepers

LEMMA EvictCandidateStep ==
    ASSUME CacheInv, NEW s \in Skills, EvictCandidate(s)
    PROVE  CacheInv' /\ PoolStep
<1> DEFINE gone == [kind |-> "row", of |-> s, tree |-> sweep.rows[s].head]
           refs == sweep.refs \ {gone}
<1>1. /\ UNCHANGED <<server, outbox, deployed, blobs, ws, cmd, edited, wk>>
      /\ cmd.pc = "evict" /\ cmd \in CmdRecords /\ sweep \in SweepRecords
      /\ sweep.doomed = {}
  BY DEF EvictCandidate, Frame, CacheInv, CmdType, SweepType
<1>2. CASE ~(IsEvictable(s) /\ Claimable(s))
  <2>1. UNCHANGED <<row, hollow>> /\ sweep' = [sweep EXCEPT !.cand = @ \ {s}]
    BY <1>2 DEF EvictCandidate
  <2>2. /\ sweep' \in SweepRecords /\ sweep'.rows = sweep.rows
        /\ sweep'.refs = sweep.refs /\ sweep'.doomed = sweep.doomed
        /\ sweep'.unresolved = sweep.unresolved
    BY <1>1, <2>1 DEF SweepRecords
  <2>3. SweepType'
    BY <2>2 DEF SweepType, CacheInv
  <2>4. Listed' /\ Counted' /\ Resolved'
    BY <1>1, <2>1, <2>2, SameRoots DEF CacheInv, Listed, Counted, Resolved, Rooted, local
  <2>5. blobs' \subseteq Blobs
    BY <1>1 DEF CacheInv, CacheTypeOK
  <2> QED
    BY <1>1, <2>1, <2>3, <2>4, <2>5, SamePins, SweepMoves DEF SweepPcs, local
<1>3. CASE IsEvictable(s) /\ Claimable(s)
  <2> DEFINE doomed == {b \in Closure(row[s].head) \cap sweep.inv : Keepers(refs, b) = {}}
             r == [row[s] EXCEPT !.st = "remote_only"]
  <2>1. /\ row' = [row EXCEPT ![s].st = "remote_only"]
        /\ hollow' = hollow \ {s}
        /\ sweep' = [sweep EXCEPT !.cand = @ \ {s}, !.refs = refs, !.doomed = doomed]
        /\ row[s].st = "synced" /\ row[s] \in RowType
    BY <1>3, RowFacts DEF EvictCandidate, Claimable
  <2>2. /\ r \in RowType /\ r.st = "remote_only" /\ r.head = row[s].head
        /\ r.rem = row[s].rem /\ r.rev = row[s].rev
        /\ row' = [row EXCEPT ![s] = r]
    BY <2>1 DEF RowType
  <2> HIDE DEF r
  <2>3. /\ row' \in [Skills -> RowType] /\ row'[s] = r
        /\ \A z \in Skills \ {s} : row'[z] = row[z]
    BY <2>2 DEF CacheInv, CacheTypeOK
  <2>4. NoNewRoots
    <3>1. \A z \in Skills : Rooted(z)' => z # s /\ Rooted(z) /\ row'[z].head = row[z].head
      BY <2>1, <2>2, <2>3 DEF Rooted
    <3> QED
      BY <1>1, <3>1 DEF NoNewRoots
  <2>5. Roots' \subseteq Roots /\ Served' /\ PoolStep
    BY <1>1, <2>4, FewerRoots, NoRootStep
  <2>6. /\ \A z \in Skills : Rooted(z)' =>
              [kind |-> "row", of |-> z, tree |-> row'[z].head] \in refs
        /\ \A z \in Skills : deployed[z] # None =>
              [kind |-> "deployment", of |-> z, tree |-> deployed[z]] \in refs
        /\ \A z \in Skills : \A i \in DOMAIN outbox[z] : ~outbox[z][i].bare =>
              [kind |-> "payload", of |-> None, tree |-> outbox[z][i].tree] \in refs
    <3>1. \A z \in Skills : Rooted(z)' => z # s /\ Rooted(z) /\ row'[z].head = row[z].head
      BY <2>1, <2>2, <2>3 DEF Rooted
    <3>2. \A z \in Skills \ {s} : \A u : [kind |-> "row", of |-> z, tree |-> u] # gone
      BY Zenon
    <3>3. \A z, u : /\ [kind |-> "deployment", of |-> z, tree |-> u] # gone
                    /\ [kind |-> "payload", of |-> z, tree |-> u] # gone
      OBVIOUS
    <3> QED
      BY <1>1, <3>1, <3>2, <3>3 DEF CacheInv, Counted
  <2> HIDE DEF refs
  <2>7. /\ refs \subseteq sweep.refs /\ doomed \subseteq Blobs
    BY DEF refs, CacheInv, CacheTypeOK
  <2>8. ASSUME NEW b \in doomed PROVE b \notin Pinned'
    <3> SUFFICES ASSUME NEW t \in Roots', b \in Closure(t) PROVE FALSE
      BY PinFacts
    <3>1. \E x \in refs : x.tree = t
      <4>1. CASE \E z \in Skills : Rooted(z)' /\ t = row'[z].head
        BY <2>6, <4>1
      <4>2. CASE \E z \in Skills : t = deployed'[z] /\ t # None
        BY <1>1, <2>6, <4>2
      <4>3. CASE \E z \in Skills : \E i \in DOMAIN outbox'[z] :
                    ~outbox'[z][i].bare /\ t = outbox'[z][i].tree
        BY <1>1, <2>6, <4>3
      <4> QED
        BY <4>1, <4>2, <4>3, RootFacts
    <3> QED
      BY <1>1, <2>5, <3>1, KeptBlob
  <2> HIDE DEF doomed
  <2>9. /\ SweepType' /\ sweep'.rows = sweep.rows /\ sweep'.refs = refs
        /\ sweep'.doomed = doomed /\ sweep'.unresolved = sweep.unresolved
    <3>1. /\ sweep' \in SweepRecords /\ sweep'.rows = sweep.rows /\ sweep'.refs = refs
          /\ sweep'.doomed = doomed /\ sweep'.unresolved = sweep.unresolved
      BY <1>1, <2>1, <2>7 DEF SweepRecords
    <3> QED
      BY <3>1 DEF SweepType, CacheInv
  <2>10. Listed' /\ Counted' /\ Resolved'
    <3>1. Listed'
      BY <1>1, <2>4, <2>8, <2>9 DEF CacheInv, Listed, NoNewRoots
    <3>2. Counted'
      BY <1>1, <2>6, <2>9 DEF Counted
    <3>3. Resolved'
      BY <1>1, <2>5, <2>9 DEF CacheInv, Resolved
    <3> QED
      BY <3>1, <3>2, <3>3
  <2>11. /\ CmdType' /\ ImportIsNew' /\ Fetched' /\ CaptureIsExact' /\ HydrationIsExact'
    BY <1>1, <2>1, <2>2, <2>3 DEF CacheInv, CmdType, ImportIsNew, Fetched,
       CaptureIsExact, HydrationIsExact, Hydrating, Present
  <2>12. CacheTypeOK' /\ PageType'
    <3>1. \A z \in Skills : row'[z].st = "absent" <=> row'[z].head = None
      BY <2>1, <2>2, <2>3 DEF CacheInv, CacheTypeOK
    <3>2. hollow' \subseteq Skills
      BY <2>1 DEF CacheInv, CacheTypeOK
    <3>3. sweep'.refs \subseteq RefType /\ sweep'.inv \subseteq Blobs
      BY <2>9 DEF SweepType, SweepRecords
    <3> QED
      BY <1>1, <2>3, <3>1, <3>2, <3>3 DEF CacheInv, CacheTypeOK, PageType
  <2>13. RowsBehind' /\ HeadsPublished'
    <3>1. RowsBehind'
      BY <1>1, <2>1, <2>2, <2>3 DEF CacheInv, RowsBehind, Present
    <3>2. HeadsPublished'
      BY <1>1, <2>1, <2>2, <2>3 DEF CacheInv, HeadsPublished, Published
    <3> QED
      BY <3>1, <3>2
  <2>14. LocalIsExact'
    BY <1>1, <2>1, <2>2, <2>3 DEF CacheInv, LocalIsExact
  <2> QED
    BY <2>5, <2>9, <2>10, <2>11, <2>12, <2>13, <2>14 DEF CacheInv
<1> QED
  BY <1>2, <1>3

(* A blob that nothing pins leaves the store.                              *)
LEMMA BlobGoes ==
    ASSUME CacheInv, cmd.pc = "evict", NEW b, b \notin Pinned,
           UNCHANGED <<server, local, hollow, ws, edited, wk, cmd>>,
           blobs' = blobs \ {b}, sweep' \in SweepRecords,
           sweep'.rows = sweep.rows, sweep'.refs = sweep.refs,
           sweep'.doomed \subseteq sweep.doomed,
           sweep'.unresolved = sweep.unresolved
    PROVE  CacheInv' /\ PoolStep
<1>1. Pinned' = Pinned /\ Roots' = Roots
  BY SameRoots
<1>2. Served' /\ PoolStep
  <2>1. Pinned \subseteq blobs'
    BY DEF CacheInv, Served
  <2> QED
    BY <1>1, <2>1, PoolDiscards DEF Served
<1>3. SweepType'
  BY DEF CacheInv, SweepType
<1>4. Listed' /\ Counted' /\ Resolved'
  BY <1>1 DEF CacheInv, Listed, Counted, Resolved, Rooted, local
<1>5. blobs' \subseteq Blobs /\ cmd' \in CmdRecords
  BY DEF CacheInv, CacheTypeOK, CmdType
<1> QED
  BY <1>2, <1>3, <1>4, <1>5, SweepMoves DEF SweepPcs

LEMMA RemoveBlobFileStep ==
    ASSUME CacheInv, NEW b \in Blobs, RemoveBlobFile(b)
    PROVE  CacheInv' /\ PoolStep
<1> DEFINE used == IF b \in blobs THEN sweep.used - 1 ELSE sweep.used
<1>1. /\ UNCHANGED <<server, local, hollow, ws, edited, wk, cmd>>
      /\ cmd.pc = "evict" /\ blobs' = blobs \ {b} /\ b \in sweep.doomed
      /\ sweep' = [sweep EXCEPT !.doomed = @ \ {b}, !.inv = @ \ {b}, !.used = used]
      /\ sweep \in SweepRecords
  BY DEF RemoveBlobFile, Frame, CacheInv, SweepType
<1>2. used \in Int
  BY <1>1 DEF SweepRecords
<1> HIDE DEF used
<1>3. /\ sweep' \in SweepRecords
      /\ sweep'.rows = sweep.rows /\ sweep'.refs = sweep.refs
      /\ sweep'.doomed \subseteq sweep.doomed
      /\ sweep'.unresolved = sweep.unresolved
  BY <1>1, <1>2 DEF SweepRecords
<1>4. b \notin Pinned
  BY <1>1 DEF CacheInv, Listed
<1> QED
  BY <1>1, <1>3, <1>4, BlobGoes

LEMMA SweepOrphanStep ==
    ASSUME CacheInv, NEW b \in Blobs, SweepOrphan(b)
    PROVE  CacheInv' /\ PoolStep
<1> DEFINE used == IF b \in blobs THEN sweep.used - 1 ELSE sweep.used
<1>1. /\ UNCHANGED <<server, local, hollow, ws, edited, wk, cmd>>
      /\ cmd.pc = "evict" /\ blobs' = blobs \ {b} /\ b \in Orphans
      /\ sweep' = [sweep EXCEPT !.inv = @ \ {b}, !.used = used]
      /\ sweep \in SweepRecords
  BY DEF SweepOrphan, Frame, CacheInv, SweepType
<1>2. used \in Int
  BY <1>1 DEF SweepRecords
<1> HIDE DEF used
<1>3. /\ sweep' \in SweepRecords
      /\ sweep'.rows = sweep.rows /\ sweep'.refs = sweep.refs
      /\ sweep'.doomed \subseteq sweep.doomed
      /\ sweep'.unresolved = sweep.unresolved
  BY <1>1, <1>2 DEF SweepRecords
<1>4. ASSUME NEW t \in Roots, b \in Closure(t) PROVE FALSE
  <2>1. \E x \in sweep.refs : x.tree = t
    <3>1. CASE \E z \in Skills : Rooted(z) /\ t = row[z].head
      BY <1>1, <3>1 DEF CacheInv, Counted
    <3>2. CASE \E z \in Skills : t = deployed[z] /\ t # None
      BY <1>1, <3>2 DEF CacheInv, Counted
    <3>3. CASE \E z \in Skills : \E i \in DOMAIN outbox[z] :
                  ~outbox[z][i].bare /\ t = outbox[z][i].tree
      BY <1>1, <3>3 DEF CacheInv, Counted
    <3> QED
      BY <3>1, <3>2, <3>3, RootFacts
  <2>2. Keepers(sweep.refs, b) = {}
    BY <1>1 DEF Orphans
  <2> QED
    BY <1>1, <1>4, <2>1, <2>2, KeptBlob
<1>5. b \notin Pinned
  BY <1>4, PinFacts
<1> QED
  BY <1>1, <1>3, <1>5, BlobGoes

-----------------------------------------------------------------------------
(* All together.                                                           *)

LEMMA CacheStarts ==
    ASSUME Init
    PROVE  CacheInv /\ Pool!Init
<1>1. CacheTypeOK
  BY DEF Init, CacheTypeOK, RowType, Absent, NoSweep, MutationType
<1>2. CmdType /\ PageType
  BY NoCmdType DEF Init, CmdType, PageType, NoPage, Hydrating
<1>3. SweepType
  BY NoSweepType DEF Init, SweepType
<1>4. Roots = {} /\ Pinned = {}
  <2>1. \A t : t \notin Roots
    BY RootFacts DEF Init, Absent, Rooted
  <2> QED
    BY <2>1, PinFacts
<1>5. RowsBehind /\ HeadsPublished /\ LocalIsExact
  BY DEF Init, RowsBehind, HeadsPublished, LocalIsExact, Absent, Present, Published
<1>6. ImportIsNew /\ Fetched /\ Listed /\ Counted /\ Resolved /\ CaptureIsExact
      /\ HydrationIsExact
  BY NoCmdType DEF Init, ImportIsNew, Fetched, Listed, Counted, Resolved, CaptureIsExact,
     HydrationIsExact, Hydrating
<1> QED
  BY <1>1, <1>2, <1>3, <1>4, <1>5, <1>6 DEF CacheInv, Served, Pool!Init, Init

LEMMA CacheStutters ==
    ASSUME CacheInv, UNCHANGED cacheVars
    PROVE  CacheInv' /\ PoolStep
<1>1. PageType'
  BY DEF cacheVars, CacheInv, PageType
<1> QED
  BY <1>1, WorkerStep DEF cacheVars, CacheInv, CacheTypeOK

LEMMA CacheSteps ==
    ASSUME CacheInv, [Next]_cacheVars
    PROVE  CacheInv' /\ PoolStep
<1>1. CASE UNCHANGED cacheVars
  BY <1>1, CacheStutters
<1>2. CASE \E s \in Skills, t \in Trees : Publish(s, t) \/ Edit(s, t)
  BY <1>2, PublishStep, EditStep
<1>3. CASE Worker
  <2>1. ASSUME NEW s \in Skills, Push(s) PROVE CacheInv' /\ PoolStep
    BY <2>1, PushTakenStep, PushStaleStep
  <2> QED
    BY <1>3, <2>1, FetchChangesPageStep, DownloadPageBlobsStep, ApplyChangesPageStep
       DEF Worker
<1>4. CASE Begin
  BY <1>4, StartStep, UninstallStep, KeepLocalStep, KeepRemoteStep, CreateWorkspaceStep,
     ImportSkillZipStep, SetPolicyStep DEF Begin
<1>5. CASE Continue
  <2>1. ASSUME DeploySingle PROVE CacheInv' /\ PoolStep
    BY <2>1, CheckStep, RecordStep DEF DeploySingle
  <2>2. ASSUME NEW s \in Skills, EvictCandidate(s) PROVE CacheInv' /\ PoolStep
    BY <2>2, EvictCandidateStep
  <2>3. ASSUME NEW b \in Blobs, RemoveBlobFile(b) \/ SweepOrphan(b)
        PROVE  CacheInv' /\ PoolStep
    BY <2>3, RemoveBlobFileStep, SweepOrphanStep
  <2> QED
    BY <1>5, <2>1, <2>2, <2>3, CaptureWorkspaceStep, DownloadFailsStep, PutBytesStep,
       CommitSkillEditStep, RemoveWorkspaceStep, ReadForHydrationStep,
       EnsureClosureLocalStep, ImportSnapshotStep, ReplaceSnapshotStep,
       MarkSkillHydratedStep, ListCacheSkillsStep, CountReferencesStep,
       ScanInventoryStep, FinishEnforcementStep DEF Continue
<1>6. CASE Crash
  BY <1>6, CrashStep
<1> QED
  BY <1>1, <1>2, <1>3, <1>4, <1>5, <1>6 DEF Next

(* In every run the commands, the worker, the editor and crashes keep      *)
(* CacheInv: what they leave half done never breaks what the others rely   *)
(* on.                                                                     *)
THEOREM CacheInvariant == Spec => []CacheInv
<1>1. Init => CacheInv
  BY CacheStarts
<1>2. CacheInv /\ [Next]_cacheVars => CacheInv'
  BY CacheSteps
<1> QED
  BY <1>1, <1>2, PTL DEF Spec

(* The tables, the store and the directories keep their types, and a row   *)
(* has a head exactly when it is in the table (local_skills).              *)
THEOREM CacheTypes == Spec => []CacheTypeOK
<1>1. CacheInv => CacheTypeOK
  BY DEF CacheInv
<1> QED
  BY <1>1, CacheInvariant, PTL

(* A snapshot that the device has given up, by eviction or for the         *)
(* server's version, can be downloaded again: its row's head is a revision *)
(* of the server (claim_skill_for_eviction, resolve_keep_remote).          *)
THEOREM RemoteHeadsOnServer == Spec => []RemoteOnlyIsOnServer
<1>1. CacheInv => RemoteOnlyIsOnServer
  BY DEF CacheInv, HeadsPublished, RemoteOnlyIsOnServer
<1> QED
  BY <1>1, CacheInvariant, PTL

(* An unedited workspace of a synced row is the snapshot that the row      *)
(* names, whatever the worker pulled while it was materialized             *)
(* (mark_skill_hydrated).                                                  *)
THEOREM SyncedExact == Spec => []SyncedIsExact
<1>1. CacheInv => SyncedIsExact
  BY DEF CacheInv, LocalIsExact, SyncedIsExact
<1> QED
  BY <1>1, CacheInvariant, PTL

(* The blob store implements ContentPool: no eviction and no sweep takes a *)
(* blob that a local row, a deployment or a queued mutation needs, and     *)
(* none of them ever points at content that is not complete                *)
(* (enforce_cache_budget, hydrate_skill, capture_workspace).               *)
THEOREM ImplementsContentPool == Spec => PoolSpec
<1>1. Init => CacheInv /\ Pool!Init
  BY CacheStarts
<1>2. CacheInv /\ [Next]_cacheVars => CacheInv' /\ [Pool!Next]_(Pool!poolVars)
  BY CacheSteps DEF PoolStep
<1> QED
  BY <1>1, <1>2, PTL DEF Spec, PoolSpec, Pool!Spec

=============================================================================
