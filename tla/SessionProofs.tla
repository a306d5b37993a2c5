--------------------------- MODULE SessionProofs ---------------------------
(***************************************************************************)
(* Signing in and out for any servers, accounts, commands and bounds:      *)
(* where tokens go, that the stored one is good, that a logout holds, that *)
(* work is submitted for the account it was made under and whose pages     *)
(* move the cursor.                                                        *)
(*                                                                         *)
(* SessionInv follows each token from the keyring through the hands of the *)
(* two threads, and each scope from the command that wrote it; CursorInv,  *)
(* after it, follows the account of a cycle from its first token to the    *)
(* page it commits.                                                        *)
(***************************************************************************)
EXTENDS Session, TLAPS

(* What a thread has in hand at each of its steps, and which steps and     *)
(* jobs are the commands'.                                                 *)
Shape(t, p) ==
    /\ p.tok # None <=> p.pc \in {"refresh", "rotate", "revoke"}
    /\ p.pc = "idle" => p.acc = None
    /\ p.pc \in {"call", "enroll", "bind", "record"} => p.acc \in Accounts
    /\ p.pc \in {"bind", "record"} /\ p.job = "register" => p.dev \in Accounts
    /\ p.job = "logout" => p.pc \in {"cutoff", "revoke", "clear"}
    /\ p.pc \in {"suspend", "post"} => p.name \in Accounts
    /\ p.pc = "apply" \/ p.job = "blob" => p.page \in Accounts
    /\ p.pc \in {"suspend", "post", "enroll", "config", "cutoff", "revoke", "clear",
                 "restored"} => p.job \in {"login", "logout", "switch", "restore"}
    /\ p.job \in {"login", "logout", "switch", "restore"} => t = "ui"

TypeInv ==
    /\ SessionTypeOK
    /\ faults \in Nat
    /\ \A t \in Threads : Shape(t, thr[t])

(* Each token is kept and carried where it was issued.                     *)
HomeInv ==
    /\ \A s \in Servers : keyring[s] # None => Host[keyring[s][1]] = s
    /\ \A t \in Threads :
         /\ thr[t].tok # None => Host[thr[t].tok[1]] = Url(t)
         /\ thr[t].pc \in {"call", "enroll"} => Host[thr[t].acc] = Url(t)
         /\ thr[t].pc = "post" => Host[thr[t].name] = Url(t)

(* Without faults a rotated token is live and in one thread's hands alone, *)
(* and a stored one is live unless its successor is on the way or it is    *)
(* about to be deleted.                                                    *)
LiveInv ==
    faults = 0 =>
      /\ \A t \in Threads : thr[t].pc = "rotate" =>
            /\ thr[t].tok \in live
            /\ \A s \in Servers : keyring[s] # thr[t].tok
            /\ \A u \in Threads \ {t} : thr[u].tok # thr[t].tok
      /\ \A s \in Servers :
            \/ keyring[s] = None
            \/ keyring[s] \in live
            \/ \E t \in Threads : thr[t].pc \in {"rotate", "clear"} /\ Url(t) = s

LateInv ==
    /\ late \in 0 .. 2
    /\ Busy("worker") /\ client[thr["worker"].cl].enabled => late = 0
    /\ thr["worker"].pc \in {"read", "refresh"} => late = 0
    /\ thr["worker"].pc \in {"rotate", "call"} => late <= 1

(* Nobody on the desktop has anything of server s.                         *)
Nothing(s) ==
    /\ keyring[s] = None
    /\ \A t \in Threads : /\ thr[t].tok # None => Host[thr[t].tok[1]] # s
                          /\ thr[t].acc # None => Host[thr[t].acc] # s

(* Before the first login there is nothing; a logout that met an idle      *)
(* worker keeps it idle, for the scope is no longer complete; and a server *)
(* that was logged out of has left nothing.                                *)
LogoutWaits ==
    thr["ui"].job = "logout" /\ Url("ui") \notin raced =>
      scope.url = None \/ (~Busy("worker") /\ ~ScopeComplete)

OutInv ==
    /\ scope.url = None => /\ \A s \in Servers : Nothing(s)
                           /\ thr["ui"].pc \notin {"suspend", "post"}
    /\ LogoutWaits
    /\ \A s \in out \ raced : Nothing(s)

(* As long as the rows keep their account, it is the one of the scope; and *)
(* a push that has read its device is for that account's mutations.        *)
RowsBound ==
    /\ ~released => \A o \in work : o = None \/ (Established /\ scope.user = o)
    /\ scope.device \in {None, scope.user}

Carries(p) ==
    /\ p.batch \cup p.mut \subseteq work
    /\ (/\ p.job = "push" /\ ~released
        /\ p.pc \in {"ensure", "read", "refresh", "rotate", "call"})
          => p.mut \subseteq {None, p.dev}

WorkInv == RowsBound /\ \A t \in Threads : Carries(thr[t])

SessionInv ==
    TypeInv /\ HomeInv /\ LiveInv /\ LateInv /\ OutInv /\ WorkInv

-----------------------------------------------------------------------------
(* Threads and what they carry.                                            *)

LEMMA ThreadFacts ==
    ASSUME TypeInv, NEW t \in Threads
    PROVE  /\ thr \in [Threads -> ThreadState] /\ thr[t] \in ThreadState
           /\ thr[t].pc \in Steps /\ thr[t].job \in Jobs /\ thr[t].cl \in Clients
           /\ thr[t].tok \in Tokens \cup {None} /\ thr[t].acc \in Owners
           /\ thr[t].name \in Names /\ thr[t].dev \in Owners
           /\ thr[t].page \in Owners
           /\ thr[t].mut \subseteq Owners /\ thr[t].batch \subseteq Owners
           /\ Url(t) \in Servers
<1>1. thr \in [Threads -> ThreadState] /\ thr[t] \in ThreadState
  BY DEF TypeInv, SessionTypeOK
<1>2. client \in [Clients -> [url : Servers, enabled : BOOLEAN]]
  BY DEF TypeInv, SessionTypeOK
<1> QED
  BY <1>1, <1>2 DEF ThreadState, Url

LEMMA Moved ==
    ASSUME TypeInv, NEW t \in Threads, NEW p \in ThreadState, Set(t, p)
    PROVE  /\ thr' \in [Threads -> ThreadState]
           /\ thr'[t] = p /\ \A u \in Threads \ {t} : thr'[u] = thr[u]
  BY ThreadFacts DEF Set

LEMMA GotoFacts ==
    ASSUME TypeInv, NEW t \in Threads, NEW pc \in Steps, Goto(t, pc)
    PROVE  \E p \in ThreadState :
             /\ Set(t, p) /\ p.pc = pc /\ p.job = thr[t].job /\ p.cl = thr[t].cl
             /\ p.tok = thr[t].tok /\ p.acc = thr[t].acc /\ p.name = thr[t].name
             /\ p.dev = thr[t].dev /\ p.page = thr[t].page /\ p.mut = thr[t].mut
             /\ p.batch = thr[t].batch
<1> DEFINE p == [thr[t] EXCEPT !.pc = pc]
<1>1. thr[t] \in ThreadState /\ thr \in [Threads -> ThreadState]
  BY ThreadFacts
<1>2. /\ p \in ThreadState /\ p.pc = pc /\ p.job = thr[t].job /\ p.cl = thr[t].cl
      /\ p.tok = thr[t].tok /\ p.acc = thr[t].acc /\ p.name = thr[t].name
      /\ p.dev = thr[t].dev /\ p.page = thr[t].page /\ p.mut = thr[t].mut
      /\ p.batch = thr[t].batch
  BY <1>1 DEF ThreadState
<1>3. Set(t, p)
  BY <1>1 DEF Goto, Set
<1> QED
  BY <1>2, <1>3

(* A thread that goes on with an account, a page or a token in hand.       *)
LEMMA GoesOnWith ==
    ASSUME NEW q \in ThreadState, NEW pc \in Steps, NEW a \in Owners,
           NEW tok \in Tokens \cup {None}
    PROVE  /\ [q EXCEPT !.pc = pc, !.tok = tok] \in ThreadState
           /\ [q EXCEPT !.pc = pc, !.acc = a] \in ThreadState
           /\ [q EXCEPT !.pc = pc, !.dev = a] \in ThreadState
           /\ [q EXCEPT !.pc = pc, !.page = a] \in ThreadState
<1>1. [q EXCEPT !.pc = pc, !.acc = a] \in ThreadState
  BY DEF ThreadState
<1>2. [q EXCEPT !.pc = pc, !.dev = a] \in ThreadState
  BY DEF ThreadState
<1>3. [q EXCEPT !.pc = pc, !.page = a] \in ThreadState
  BY DEF ThreadState
<1>4. [q EXCEPT !.pc = pc, !.tok = tok] \in ThreadState
  BY DEF ThreadState
<1> QED
  BY <1>1, <1>2, <1>3, <1>4

LEMMA IdleFacts ==
    /\ Idle \in ThreadState /\ Idle.pc = "idle" /\ Idle.job = "none"
    /\ Idle.tok = None /\ Idle.acc = None /\ Idle.mut = {} /\ Idle.batch = {}
    /\ Idle.dev = None /\ Idle.page = None
    /\ \A t \in Threads : Shape(t, Idle)
<1>1. /\ Idle \in ThreadState /\ Idle.pc = "idle" /\ Idle.job = "none"
      /\ Idle.tok = None /\ Idle.acc = None /\ Idle.mut = {} /\ Idle.batch = {}
      /\ Idle.dev = None /\ Idle.page = None
  BY DEF Idle, ThreadState, Steps, Jobs, Clients, Owners, Names
<1> QED
  BY <1>1 DEF Shape

LEMMA AskPageFacts ==
    ASSUME TypeInv, NEW t \in Threads
    PROVE  /\ AskPage(t) \in ThreadState /\ AskPage(t).pc = "ensure"
           /\ AskPage(t).job = "pull" /\ AskPage(t).cl = thr[t].cl
           /\ AskPage(t).tok = None /\ AskPage(t).acc = None
           /\ AskPage(t).mut = {} /\ AskPage(t).batch = {}
           /\ Shape(t, AskPage(t))
<1> DEFINE p == AskPage(t)
<1>1. /\ p \in ThreadState /\ p.pc = "ensure" /\ p.job = "pull" /\ p.cl = thr[t].cl
      /\ p.tok = None /\ p.acc = None /\ p.mut = {} /\ p.batch = {}
  BY ThreadFacts DEF AskPage, Idle, ThreadState, Steps, Jobs, Clients, Owners, Names
<1> HIDE DEF p
<1>2. Shape(t, p)
  BY <1>1 DEF Shape
<1> QED
  BY <1>1, <1>2 DEF p

LEMMA AskFacts ==
    ASSUME TypeInv, NEW t \in Threads, NEW job \in Jobs
    PROVE  /\ Ask(t, job) \in ThreadState /\ Ask(t, job).pc = "ensure"
           /\ Ask(t, job).job = job /\ Ask(t, job).cl = thr[t].cl
           /\ Ask(t, job).tok = None /\ Ask(t, job).acc = None
           /\ Ask(t, job).dev = thr[t].dev /\ Ask(t, job).page = thr[t].page
           /\ Ask(t, job).mut = thr[t].mut /\ Ask(t, job).batch = thr[t].batch
<1>1. thr[t] \in ThreadState
  BY ThreadFacts
<1> QED
  BY <1>1 DEF Ask, ThreadState, Steps, Owners

LEMMA DispatchingFacts ==
    ASSUME TypeInv, NEW t \in Threads, NEW batch \in SUBSET Owners
    PROVE  /\ Dispatching(t, batch) \in ThreadState
           /\ Dispatching(t, batch).pc = "dispatch"
           /\ Dispatching(t, batch).job = "none" /\ Dispatching(t, batch).cl = thr[t].cl
           /\ Dispatching(t, batch).tok = None /\ Dispatching(t, batch).acc = None
           /\ Dispatching(t, batch).mut = {} /\ Dispatching(t, batch).batch = batch
           /\ Shape(t, Dispatching(t, batch))
<1> DEFINE p == Dispatching(t, batch)
<1>1. /\ p \in ThreadState /\ p.pc = "dispatch" /\ p.job = "none" /\ p.cl = thr[t].cl
      /\ p.tok = None /\ p.acc = None /\ p.mut = {} /\ p.batch = batch
  BY ThreadFacts DEF Dispatching, Idle, ThreadState, Steps, Jobs, Clients, Owners, Names
<1> HIDE DEF p
<1>2. Shape(t, p)
  BY <1>1 DEF Shape
<1> QED
  BY <1>1, <1>2 DEF p

LEMMA ClientFacts ==
    ASSUME TypeInv
    PROVE  /\ client \in [Clients -> [url : Servers, enabled : BOOLEAN]]
           /\ \A c \in Clients : client[c].url \in Servers /\ client[c].enabled \in BOOLEAN
           /\ handle \in Clients /\ config \in Servers
           /\ client[handle].url \in Servers
  BY DEF TypeInv, SessionTypeOK

LEMMA ScopeFacts ==
    ASSUME TypeInv
    PROVE  /\ scope \in [url : Servers \cup {None}, ident : Names, user : Owners,
                         device : Owners, cursor : Owners]
           /\ scope.url \in Servers \cup {None} /\ scope.ident \in Names
           /\ scope.user \in Owners /\ scope.device \in Owners /\ scope.cursor \in Owners
  BY DEF TypeInv, SessionTypeOK

(* Where an error leaves the thread, and that the mutations it gives back  *)
(* are local ones.                                                         *)
LEMMA ErrorFacts ==
    ASSUME TypeInv, WorkInv, NEW t \in Threads, NEW r, AfterError(t, r)
    PROVE  /\ \E p \in ThreadState :
                /\ Set(t, p) /\ Shape(t, p) /\ p.pc \in {"idle", "ensure"}
                /\ p.tok = None /\ p.acc = None /\ p.mut = {} /\ p.batch = {}
                /\ p.job \in {"none", "pull"} /\ (p.pc = "idle" \/ p.cl = thr[t].cl)
           /\ pending' \cup flying' \subseteq work
           /\ pending' \cap flying' = {}
<1> DEFINE back == thr[t].batch \cup IF r = "retryable_error" THEN thr[t].mut ELSE {}
           done == back \cup IF r = "permanent_error" THEN thr[t].mut ELSE {}
<1>1. back \subseteq work /\ back \subseteq done
  BY DEF WorkInv, Carries
<1>2. pending \cup flying \subseteq work /\ pending \cap flying = {}
  BY DEF TypeInv, SessionTypeOK
<1>3. CASE thr[t].job \in {"upload", "push"}
  <2>1. /\ pending' = pending \cup back /\ flying' = flying \ done
        /\ Set(t, AskPage(t))
    BY <1>3 DEF AfterError
  <2> HIDE DEF back, done
  <2>2. pending' \cup flying' \subseteq work /\ pending' \cap flying' = {}
    BY <1>1, <1>2, <2>1
  <2> QED
    BY <2>1, <2>2, AskPageFacts
<1>4. CASE thr[t].job \notin {"upload", "push"}
  <2>1. Set(t, Idle) /\ pending' = pending /\ flying' = flying
    BY <1>4 DEF AfterError
  <2> QED
    BY <1>2, <2>1, IdleFacts
<1> QED
  BY <1>3, <1>4

-----------------------------------------------------------------------------
(* A step after which one thread holds no token and no more than it had.   *)

LEMMA Calm ==
    ASSUME SessionInv, NEW t \in Threads, NEW p \in ThreadState, Shape(t, p), Set(t, p),
           p.tok = None, p.acc \in {None, thr[t].acc},
           p.pc \notin {"call", "enroll", "post", "rotate"},
           thr[t].pc \notin {"rotate", "clear"},
           keyring' = keyring, live' \subseteq live, live' = live \/ faults' # 0,
           faults' \in Nat, faults = 0 \/ faults' # 0,
           client' \in [Clients -> [url : Servers, enabled : BOOLEAN]],
           \A u \in Threads \ {t} : client'[thr[u].cl].url = client[thr[u].cl].url,
           handle' \in Clients, config' \in Servers,
           scope' \in [url : Servers \cup {None}, ident : Names, user : Owners,
                       device : Owners, cursor : Owners],
           scope'.url = None => scope.url = None /\ p.pc \notin {"suspend", "post"},
           mirror' \subseteq Accounts, work' = work,
           pending' \cup flying' \subseteq work, pending' \cap flying' = {},
           released => released', out' = out, raced \subseteq raced', raced' \subseteq Servers,
           p.batch \cup p.mut \subseteq work,
           p.job = "push" /\ p.pc \in {"ensure", "read", "refresh", "rotate", "call"}
             => p.mut \subseteq {None, p.dev} \/ released',
           LateInv', LogoutWaits', RowsBound'
    PROVE  SessionInv'
<1>1. /\ thr' \in [Threads -> ThreadState]
      /\ thr'[t] = p /\ \A u \in Threads \ {t} : thr'[u] = thr[u]
  BY Moved DEF SessionInv
<1>2. TypeInv'
  <2>1. SessionTypeOK'
    BY <1>1 DEF SessionInv, TypeInv, SessionTypeOK, LateInv
  <2>2. \A u \in Threads : Shape(u, thr[u])'
    BY <1>1 DEF SessionInv, TypeInv, Shape
  <2> QED
    BY <2>1, <2>2 DEF TypeInv
<1>3. \A u \in Threads \ {t} : thr[u].cl \in Clients /\ Url(u)' = Url(u)
  BY <1>1, ThreadFacts DEF Url, SessionInv
<1>4. HomeInv'
  BY <1>1, <1>3 DEF HomeInv, SessionInv
<1>5. LiveInv'
  <2> SUFFICES ASSUME faults' = 0 PROVE LiveInv'
    BY DEF LiveInv
  <2>1. faults = 0 /\ live' = live
    OBVIOUS
  <2>2. \A u \in Threads : thr'[u].pc = "rotate" =>
            /\ thr'[u].tok \in live'
            /\ \A s \in Servers : keyring'[s] # thr'[u].tok
            /\ \A v \in Threads \ {u} : thr'[v].tok # thr'[u].tok
    <3> SUFFICES ASSUME NEW u \in Threads, thr'[u].pc = "rotate"
                 PROVE  /\ thr'[u].tok \in live'
                        /\ \A s \in Servers : keyring'[s] # thr'[u].tok
                        /\ \A v \in Threads \ {u} : thr'[v].tok # thr'[u].tok
      OBVIOUS
    <3>1. u # t /\ thr'[u] = thr[u]
      BY <1>1
    <3>2. thr[u].tok # None
      BY <3>1 DEF SessionInv, TypeInv, Shape
    <3> QED
      BY <1>1, <2>1, <3>1, <3>2 DEF SessionInv, LiveInv
  <2>3. \A s \in Servers :
            \/ keyring'[s] = None
            \/ keyring'[s] \in live'
            \/ \E u \in Threads : thr'[u].pc \in {"rotate", "clear"} /\ Url(u)' = s
    BY <1>1, <1>3, <2>1 DEF SessionInv, LiveInv
  <2> QED
    BY <2>2, <2>3 DEF LiveInv
<1>6. OutInv'
  <2>1. \A s \in Servers : Nothing(s) => Nothing(s)'
    BY <1>1 DEF Nothing
  <2>2. out \subseteq Servers
    BY DEF SessionInv, TypeInv, SessionTypeOK
  <2>3. \A s \in out' \ raced' : Nothing(s)'
    BY <2>1, <2>2 DEF SessionInv, OutInv
  <2>4. scope'.url = None => /\ \A s \in Servers : Nothing(s)'
                             /\ thr'["ui"].pc \notin {"suspend", "post"}
    BY <1>1, <2>1 DEF SessionInv, OutInv, Threads
  <2> QED
    BY <2>3, <2>4 DEF OutInv
<1>7. WorkInv'
  <2>1. \A u \in Threads : Carries(thr[u])'
    BY <1>1 DEF SessionInv, WorkInv, Carries
  <2> QED
    BY <2>1 DEF WorkInv
<1> QED
  BY <1>2, <1>4, <1>5, <1>6, <1>7 DEF SessionInv

LEMMA NoLogout ==
    ASSUME TypeInv, NEW p \in ThreadState, Set("ui", p), p.job # "logout"
    PROVE  LogoutWaits'
<1>1. thr'["ui"] = p
  BY Moved DEF Threads
<1> QED
  BY <1>1 DEF LogoutWaits

(* A step of a busy thread leaves a logout waiting as it was.              *)
LEMMA Waits ==
    ASSUME SessionInv, NEW t \in Threads, NEW p \in ThreadState, Set(t, p),
           p.job # "logout", thr[t].pc # "idle" \/ t = "ui",
           \A c \in Clients : client'[c].url = client[c].url,
           raced' = raced, scope.url = None => scope'.url = None
    PROVE  LogoutWaits'
<1>1. thr'[t] = p /\ \A u \in Threads \ {t} : thr'[u] = thr[u]
  BY Moved DEF SessionInv
<1>2. CASE t = "ui"
  BY <1>1, <1>2 DEF LogoutWaits
<1>3. CASE t = "worker"
  <2>1. thr'["ui"] = thr["ui"] /\ Url("ui")' = Url("ui") /\ "ui" \in Threads
    BY <1>1, <1>3, ThreadFacts DEF Threads, Url, SessionInv
  <2> QED
    BY <1>1, <1>3, <2>1 DEF SessionInv, OutInv, LogoutWaits, Busy
<1> QED
  BY <1>2, <1>3 DEF Threads

LEMMA LateStays ==
    ASSUME SessionInv, NEW t \in Threads, NEW p \in ThreadState, Set(t, p),
           late' = late, client' = client,
           t = "worker" =>
             /\ p.pc = "idle" \/ (p.cl = thr[t].cl /\ thr[t].pc # "idle")
             /\ p.pc \in {"read", "refresh"} => late = 0
             /\ p.pc \in {"rotate", "call"} => late <= 1
    PROVE  LateInv'
<1>1. thr'[t] = p /\ \A u \in Threads \ {t} : thr'[u] = thr[u]
  BY Moved DEF SessionInv
<1> QED
  BY <1>1 DEF SessionInv, LateInv, Busy, Threads

LEMMA LateCounts ==
    ASSUME SessionInv, NEW t \in Threads, NEW p \in ThreadState, Set(t, p),
           CountLate(t), client' = client, thr[t].pc \in {"refresh", "call"},
           p.pc = "idle" \/ p.cl = thr[t].cl,
           p.pc \notin {"read", "refresh", "call"},
           p.pc = "rotate" => thr[t].pc = "refresh"
    PROVE  LateInv'
<1>1. thr'[t] = p /\ \A u \in Threads \ {t} : thr'[u] = thr[u]
  BY Moved DEF SessionInv
<1>2. CASE t = "ui"
  BY <1>1, <1>2 DEF CountLate, SessionInv, LateInv, Busy, Threads
<1>3. CASE t = "worker"
  <2>1. CASE client[thr[t].cl].enabled
    BY <1>1, <1>3, <2>1 DEF CountLate, LateInv
  <2>2. CASE ~client[thr[t].cl].enabled
    <3>1. late' = late + 1
      BY <1>3, <2>2 DEF CountLate
    <3>2. late \in 0 .. 1 /\ (thr[t].pc = "refresh" => late = 0)
      BY <1>3 DEF SessionInv, LateInv
    <3> QED
      BY <1>1, <1>3, <2>2, <3>1, <3>2 DEF LateInv, Busy
  <2> QED
    BY <2>1, <2>2
<1> QED
  BY <1>2, <1>3 DEF Threads

LEMMA Rows ==
    ASSUME RowsBound, UNCHANGED <<scope, work, released>>
    PROVE  RowsBound'
  BY DEF RowsBound, Established

(* A step that moves a busy thread, and at most gives mutations back.      *)
LEMMA Quiet ==
    ASSUME SessionInv, NEW t \in Threads, NEW p \in ThreadState, Shape(t, p), Set(t, p),
           p.tok = None, p.acc \in {None, thr[t].acc}, p.job # "logout",
           p.pc \notin {"call", "enroll", "post", "suspend", "rotate", "refresh"},
           thr[t].pc \notin {"idle", "rotate", "clear"},
           p.pc = "idle" \/ p.cl = thr[t].cl,
           p.pc = "read" /\ t = "worker" => late = 0,
           p.batch \cup p.mut \subseteq work,
           p.job = "push" /\ p.pc \in {"ensure", "read", "refresh", "rotate", "call"}
             => p.mut \subseteq {None, p.dev} \/ released,
           pending' \cup flying' \subseteq work, pending' \cap flying' = {},
           UNCHANGED <<scope, mirror, work, shared, faults, ghosts>>
    PROVE  SessionInv'
<1>1. /\ UNCHANGED <<scope, mirror, work, keyring, live, client, handle, config, faults>>
      /\ UNCHANGED <<released, torn, late, out, raced>>
  BY DEF shared, ghosts
<1>2. LateInv'
  BY <1>1, LateStays
<1>3. LogoutWaits'
  BY <1>1, Waits
<1>4. RowsBound'
  BY <1>1, Rows DEF SessionInv, WorkInv
<1>5. /\ faults \in Nat /\ mirror \subseteq Accounts /\ raced \subseteq Servers
      /\ scope \in [url : Servers \cup {None}, ident : Names, user : Owners,
                    device : Owners, cursor : Owners]
      /\ client \in [Clients -> [url : Servers, enabled : BOOLEAN]]
      /\ handle \in Clients /\ config \in Servers
  BY ScopeFacts, ClientFacts DEF SessionInv, TypeInv, SessionTypeOK
<1> QED
  BY <1>1, <1>2, <1>3, <1>4, <1>5, Calm

(* What the invariant says of a thread that is in no command's hands.      *)
LEMMA Carried ==
    ASSUME SessionInv, NEW t \in Threads
    PROVE  /\ Shape(t, thr[t]) /\ Carries(thr[t])
           /\ pending \cup flying \subseteq work /\ pending \cap flying = {}
           /\ work \subseteq Owners
  BY DEF SessionInv, TypeInv, SessionTypeOK, WorkInv

LEMMA ErrorStep ==
    ASSUME SessionInv, NEW t \in Threads, NEW r, AfterError(t, r),
           thr[t].pc \notin {"idle", "rotate", "clear"},
           UNCHANGED <<scope, mirror, work, shared, faults, ghosts>>
    PROVE  SessionInv'
<1>1. PICK p \in ThreadState :
        /\ Set(t, p) /\ Shape(t, p) /\ p.pc \in {"idle", "ensure"}
        /\ p.tok = None /\ p.acc = None /\ p.mut = {} /\ p.batch = {}
        /\ p.job \in {"none", "pull"} /\ (p.pc = "idle" \/ p.cl = thr[t].cl)
  BY ErrorFacts DEF SessionInv
<1>2. pending' \cup flying' \subseteq work /\ pending' \cap flying' = {}
  BY ErrorFacts DEF SessionInv
<1> QED
  BY <1>1, <1>2, Quiet

LEMMA ErrorLate ==
    ASSUME SessionInv, NEW t \in Threads, NEW r, AfterError(t, r),
           thr[t].pc \in {"refresh", "call"}, CountLate(t),
           live' \subseteq live, live' = live \/ faults' # 0,
           faults' \in Nat, faults = 0 \/ faults' # 0,
           UNCHANGED <<scope, mirror, work, keyring, client, handle, config,
                       released, torn, out, raced>>
    PROVE  SessionInv'
<1>1. PICK p \in ThreadState :
        /\ Set(t, p) /\ Shape(t, p) /\ p.pc \in {"idle", "ensure"}
        /\ p.tok = None /\ p.acc = None /\ p.mut = {} /\ p.batch = {}
        /\ p.job \in {"none", "pull"} /\ (p.pc = "idle" \/ p.cl = thr[t].cl)
  BY ErrorFacts DEF SessionInv
<1>2. pending' \cup flying' \subseteq work /\ pending' \cap flying' = {}
  BY ErrorFacts DEF SessionInv
<1>3. LateInv'
  BY <1>1, LateCounts
<1>4. LogoutWaits'
  BY <1>1, Waits
<1>5. RowsBound'
  BY Rows DEF SessionInv, WorkInv
<1>6. /\ mirror \subseteq Accounts /\ raced \subseteq Servers
      /\ scope \in [url : Servers \cup {None}, ident : Names, user : Owners,
                    device : Owners, cursor : Owners]
      /\ client \in [Clients -> [url : Servers, enabled : BOOLEAN]]
      /\ handle \in Clients /\ config \in Servers
  BY ScopeFacts, ClientFacts DEF SessionInv, TypeInv, SessionTypeOK
<1> QED
  BY <1>1, <1>2, <1>3, <1>4, <1>5, <1>6, Calm

LEMMA CheckSwitchStep ==
    ASSUME SessionInv, NEW t \in Threads, CheckSwitch(t)
    PROVE  SessionInv'
<1>1. thr[t].pc = "ensure" /\ UNCHANGED <<scope, mirror, work, shared, faults, ghosts>>
  BY DEF CheckSwitch
<1>2. CASE client[thr[t].cl].enabled
  <2>1. Goto(t, "read") /\ UNCHANGED <<pending, flying>>
    BY <1>2 DEF CheckSwitch
  <2>2. PICK p \in ThreadState :
          /\ Set(t, p) /\ p.pc = "read" /\ p.job = thr[t].job /\ p.cl = thr[t].cl
          /\ p.tok = thr[t].tok /\ p.acc = thr[t].acc /\ p.name = thr[t].name
          /\ p.dev = thr[t].dev /\ p.page = thr[t].page /\ p.mut = thr[t].mut
          /\ p.batch = thr[t].batch
    BY <2>1, GotoFacts DEF SessionInv, Steps
  <2>3. Shape(t, p) /\ p.tok = None /\ p.job # "logout"
    BY <1>1, <2>2, Carried DEF Shape
  <2>4. t = "worker" => late = 0
    BY <1>1, <1>2 DEF SessionInv, LateInv, Busy
  <2>5. /\ p.batch \cup p.mut \subseteq work
        /\ p.job = "push" => p.mut \subseteq {None, p.dev} \/ released
    BY <1>1, <2>2, Carried DEF Carries
  <2> QED
    BY <1>1, <2>1, <2>2, <2>3, <2>4, <2>5, Carried, Quiet
<1>3. CASE ~client[thr[t].cl].enabled
  BY <1>1, <1>3, ErrorStep DEF CheckSwitch, Unserved
<1> QED
  BY <1>2, <1>3

LEMMA LoseStep ==
    ASSUME SessionInv, NEW t \in Threads, Lose(t)
    PROVE  SessionInv'
<1>1. faults \in Nat
  BY DEF SessionInv, TypeInv
<1>2. faults' \in Nat /\ faults' # 0
  BY <1>1 DEF Lose, Fault
<1>3. live' \subseteq live
  BY DEF Lose
<1> QED
  BY <1>2, <1>3, ErrorLate DEF Lose

LEMMA ServeStep ==
    ASSUME SessionInv, NEW t \in Threads, Serve(t)
    PROVE  SessionInv'
<1> DEFINE q == thr[t]
<1>1. /\ q.pc = "call" /\ CountLate(t) /\ q.acc \in Accounts /\ q.tok = None
      /\ UNCHANGED <<scope, mirror, work, keyring, live, client, handle, config, faults,
                     released, torn, out, raced>>
  BY Carried DEF Serve, shared, Shape
<1>2. /\ faults \in Nat /\ mirror \subseteq Accounts /\ raced \subseteq Servers
      /\ scope \in [url : Servers \cup {None}, ident : Names, user : Owners,
                    device : Owners, cursor : Owners]
      /\ client \in [Clients -> [url : Servers, enabled : BOOLEAN]]
      /\ handle \in Clients /\ config \in Servers
  BY ScopeFacts, ClientFacts DEF SessionInv, TypeInv, SessionTypeOK
<1>3. ASSUME NEW p \in ThreadState, Set(t, p), Shape(t, p), p.cl = q.cl, p.tok = None,
             p.acc \in {None, q.acc}, p.pc \in {"bind", "device", "ack", "apply", "ensure"},
             p.mut = q.mut, p.batch = q.batch, p.job # "push" \/ p.pc = "ack",
             UNCHANGED <<pending, flying>>
      PROVE  SessionInv'
  <2>1. LateInv'
    BY <1>1, <1>3, LateCounts
  <2>2. LogoutWaits'
    BY <1>1, <1>3, Waits DEF Shape
  <2>3. RowsBound'
    BY <1>1, Rows DEF SessionInv, WorkInv
  <2>4. /\ p.batch \cup p.mut \subseteq work
        /\ pending' \cup flying' \subseteq work /\ pending' \cap flying' = {}
    BY <1>3, Carried DEF Carries
  <2>5. p.job = "push" => p.pc = "ack"
    BY <1>3
  <2> QED
    BY <1>1, <1>2, <1>3, <2>1, <2>2, <2>3, <2>4, <2>5, Calm
<1>4. q \in ThreadState
  BY ThreadFacts DEF SessionInv
<1>5. CASE q.job = "register"
  <2>1. /\ Set(t, [q EXCEPT !.pc = "bind", !.dev = q.acc])
        /\ UNCHANGED <<pending, flying>>
    BY <1>5 DEF Serve
  <2>2. PICK p : p = [q EXCEPT !.pc = "bind", !.dev = q.acc]
    OBVIOUS
  <2>3. /\ p \in ThreadState /\ p.pc = "bind" /\ p.dev = q.acc /\ p.job = q.job
        /\ p.cl = q.cl /\ p.tok = q.tok /\ p.acc = q.acc /\ p.mut = q.mut
        /\ p.batch = q.batch /\ p.page = q.page /\ p.name = q.name
    <3>1. p \in ThreadState
      BY <1>1, <1>4, <2>2, GoesOnWith DEF Steps, Owners
    <3> QED
      BY <1>4, <2>2, <3>1 DEF ThreadState
  <2>4. Shape(t, p)
    BY <1>1, <1>5, <2>3, Carried DEF Shape
  <2> QED
    BY <1>1, <1>3, <1>5, <2>1, <2>2, <2>3, <2>4
<1>6. CASE q.job = "upload"
  <2>1. Set(t, [q EXCEPT !.pc = "device", !.acc = None]) /\ UNCHANGED <<pending, flying>>
    BY <1>6 DEF Serve
  <2>2. PICK p : p = [q EXCEPT !.pc = "device", !.acc = None]
    OBVIOUS
  <2>3. /\ p \in ThreadState /\ p.pc = "device" /\ p.job = q.job /\ p.cl = q.cl
        /\ p.tok = q.tok /\ p.acc = None /\ p.mut = q.mut /\ p.batch = q.batch
    <3>1. p \in ThreadState
      BY <1>4, <2>2, GoesOnWith DEF Steps, Owners
    <3> QED
      BY <1>4, <2>2, <3>1 DEF ThreadState
  <2>4. Shape(t, p)
    BY <1>1, <1>6, <2>3 DEF Shape
  <2> QED
    BY <1>1, <1>3, <1>6, <2>1, <2>2, <2>3, <2>4
<1>7. CASE q.job = "push"
  <2>1. CASE q.dev = q.acc
    <3>1. Goto(t, "ack") /\ UNCHANGED <<pending, flying>>
      BY <1>7, <2>1 DEF Serve
    <3>2. PICK p \in ThreadState :
            /\ Set(t, p) /\ p.pc = "ack" /\ p.job = q.job /\ p.cl = q.cl
            /\ p.tok = q.tok /\ p.acc = q.acc /\ p.name = q.name
            /\ p.dev = q.dev /\ p.page = q.page /\ p.mut = q.mut
            /\ p.batch = q.batch
      BY <3>1, GotoFacts DEF SessionInv, Steps
    <3>3. Shape(t, p)
      BY <1>1, <1>7, <3>2 DEF Shape
    <3> QED
      BY <1>1, <1>3, <3>1, <3>2, <3>3
  <2>2. CASE q.dev # q.acc
    <3>1. AfterError(t, "permanent_error")
      BY <1>7, <2>2 DEF Serve
    <3> QED
      BY <1>1, <1>2, <3>1, ErrorLate
  <2> QED
    BY <2>1, <2>2
<1>8. CASE q.job = "pull"
  <2>1. CASE Set(t, [q EXCEPT !.pc = "apply", !.page = q.acc]) /\ UNCHANGED <<pending, flying>>
    <3>1. PICK p : p = [q EXCEPT !.pc = "apply", !.page = q.acc]
      OBVIOUS
    <3>2. /\ p \in ThreadState /\ p.pc = "apply" /\ p.job = q.job /\ p.cl = q.cl
          /\ p.tok = q.tok /\ p.acc = q.acc /\ p.mut = q.mut /\ p.batch = q.batch
          /\ p.page = q.acc
      <4>1. p \in ThreadState
        BY <1>1, <1>4, <3>1, GoesOnWith DEF Steps, Owners
      <4> QED
        BY <1>4, <3>1, <4>1 DEF ThreadState
    <3>3. Shape(t, p)
      BY <1>1, <1>8, <3>2 DEF Shape
    <3> QED
      BY <1>1, <1>3, <1>8, <2>1, <3>1, <3>2, <3>3
  <2>2. CASE Set(t, [Ask(t, "blob") EXCEPT !.page = q.acc]) /\ UNCHANGED <<pending, flying>>
    <3>1. PICK r \in ThreadState :
            /\ r = Ask(t, "blob") /\ r.pc = "ensure" /\ r.job = "blob" /\ r.cl = q.cl
            /\ r.tok = None /\ r.acc = None /\ r.mut = q.mut /\ r.batch = q.batch
      BY AskFacts DEF SessionInv, Jobs
    <3>2. PICK p : p = [r EXCEPT !.page = q.acc]
      OBVIOUS
    <3>3. /\ p \in ThreadState /\ p.pc = "ensure" /\ p.job = "blob" /\ p.cl = q.cl
          /\ p.tok = None /\ p.acc = None /\ p.mut = q.mut /\ p.batch = q.batch
          /\ p.page = q.acc
      BY <1>1, <3>1, <3>2 DEF ThreadState, Owners
    <3>4. Shape(t, p)
      BY <1>1, <3>3 DEF Shape
    <3> QED
      BY <1>1, <1>3, <2>2, <3>1, <3>2, <3>3, <3>4
  <2> QED
    BY <1>8, <2>1, <2>2 DEF Serve
<1>9. CASE q.job = "blob"
  <2>1. Goto(t, "apply") /\ UNCHANGED <<pending, flying>>
    BY <1>9 DEF Serve
  <2>2. PICK p \in ThreadState :
          /\ Set(t, p) /\ p.pc = "apply" /\ p.job = q.job /\ p.cl = q.cl
          /\ p.tok = q.tok /\ p.acc = q.acc /\ p.name = q.name
          /\ p.dev = q.dev /\ p.page = q.page /\ p.mut = q.mut
          /\ p.batch = q.batch
    BY <2>1, GotoFacts DEF SessionInv, Steps
  <2>3. Shape(t, p)
    BY <1>1, <1>9, <2>2, Carried DEF Shape
  <2> QED
    BY <1>1, <1>3, <1>9, <2>1, <2>2, <2>3
<1> QED
  BY <1>5, <1>6, <1>7, <1>8, <1>9 DEF Serve

-----------------------------------------------------------------------------
(* The steps of a cycle.                                                   *)

(* Who is about to record an account has been given a scope.               *)
LEMMA HasScope ==
    ASSUME SessionInv, NEW t \in Threads, thr[t].pc \in {"bind", "record"}
    PROVE  scope.url # None /\ thr[t].acc \in Accounts
<1>1. thr[t].acc \in Accounts /\ None \notin Accounts
  BY Carried, SessionAssumption DEF Shape
<1>2. Host[thr[t].acc] \in Servers
  BY <1>1, SessionAssumption
<1>3. ~Nothing(Host[thr[t].acc])
  BY <1>1 DEF Nothing
<1> QED
  BY <1>1, <1>2, <1>3 DEF SessionInv, OutInv

(* What record_authenticated_device leaves: the rows keep their account.   *)
LEMMA DeviceRows ==
    ASSUME SessionInv, NEW u \in Servers, NEW name \in Names, NEW user \in Accounts,
           DeviceAllowed(u, user), scope' = DeviceScope(u, name, user),
           UNCHANGED <<work, released>>
    PROVE  /\ RowsBound' /\ scope'.url # None
           /\ scope' \in [url : Servers \cup {None}, ident : Names, user : Owners,
                          device : Owners, cursor : Owners]
<1>1. /\ scope' = [url |-> u, ident |-> name, user |-> user, device |-> user,
                   cursor |-> IF ScopeComplete THEN scope.cursor ELSE None]
      /\ scope.cursor \in Owners /\ user # None /\ u # None
  BY ScopeFacts, SessionAssumption DEF DeviceScope, SessionInv
<1>2. /\ scope' \in [url : Servers \cup {None}, ident : Names, user : Owners,
                     device : Owners, cursor : Owners]
      /\ scope'.url = u /\ scope'.user = user /\ scope'.device = user
  BY <1>1 DEF Owners
<1>3. ~released => \A o \in work : o = None \/ user = o
  <2>1. CASE HasRows /\ Established
    BY <2>1 DEF DeviceAllowed, SessionInv, WorkInv, RowsBound
  <2>2. CASE ~(HasRows /\ Established)
    BY <2>2 DEF HasRows, SessionInv, WorkInv, RowsBound
  <2> QED
    BY <2>1, <2>2
<1> QED
  BY <1>1, <1>2, <1>3 DEF RowsBound, Established

LEMMA BindDeviceStep ==
    ASSUME SessionInv, NEW t \in Threads, BindDevice(t)
    PROVE  SessionInv'
<1> DEFINE q == thr[t]
           name == IF scope.ident = None THEN SyncWorker ELSE scope.ident
<1>1. /\ q.pc = "bind" /\ q.tok = None /\ q.acc \in Accounts /\ q.job # "logout"
      /\ q.job = "register" => q.dev \in Accounts
      /\ q.job = "blob" => q.page \in Accounts
      /\ q.job \in {"login", "logout", "switch", "restore"} => t = "ui"
      /\ UNCHANGED <<scope, mirror, work, shared, faults, ghosts, pending, flying>>
  BY Carried DEF BindDevice, Shape, store
<1>2. CASE Set(t, Idle)
  BY <1>1, <1>2, IdleFacts, Carried, Quiet
<1>3. CASE Goto(t, "claim")
  <2>1. PICK p \in ThreadState :
          /\ Set(t, p) /\ p.pc = "claim" /\ p.job = q.job /\ p.cl = q.cl
          /\ p.tok = q.tok /\ p.acc = q.acc /\ p.name = q.name
          /\ p.dev = q.dev /\ p.page = q.page /\ p.mut = q.mut
          /\ p.batch = q.batch
    BY <1>3, GotoFacts DEF SessionInv, Steps
  <2>2. Shape(t, p) /\ p.batch \cup p.mut \subseteq work
    BY <1>1, <2>1, Carried DEF Shape, Carries
  <2> QED
    BY <1>1, <2>1, <2>2, Carried, Quiet
<1>4. CASE Set(t, [q EXCEPT !.pc = "record", !.name = name])
  <2>1. PICK p : p = [q EXCEPT !.pc = "record", !.name = name]
    OBVIOUS
  <2>2. q \in ThreadState /\ name \in Names
    BY ThreadFacts, ScopeFacts DEF SessionInv, Names
  <2> HIDE DEF name
  <2>3. /\ p \in ThreadState /\ p.pc = "record" /\ p.job = q.job /\ p.cl = q.cl
        /\ p.tok = q.tok /\ p.acc = q.acc /\ p.dev = q.dev /\ p.page = q.page
        /\ p.mut = q.mut /\ p.batch = q.batch
    BY <2>1, <2>2 DEF ThreadState, Steps
  <2>4. Shape(t, p) /\ p.batch \cup p.mut \subseteq work
    BY <1>1, <2>3, Carried DEF Shape, Carries
  <2> QED
    BY <1>1, <1>4, <2>1, <2>3, <2>4, Carried, Quiet
<1> QED
  BY <1>2, <1>3, <1>4 DEF BindDevice

LEMMA RecordDeviceStep ==
    ASSUME SessionInv, NEW t \in Threads, RecordDevice(t)
    PROVE  SessionInv'
<1> DEFINE q == thr[t]
<1>1. /\ q.pc = "record" /\ q.job = "register" /\ q.tok = None /\ q.dev \in Accounts
      /\ UNCHANGED <<mirror, work, pending, flying, shared, faults, ghosts>>
  BY Carried DEF RecordDevice, Shape
<1>2. CASE DeviceAllowed(Url(t), q.dev)
  <2>1. /\ scope' = DeviceScope(Url(t), q.name, q.dev)
        /\ Goto(t, "claim") /\ q.name \in Names /\ Url(t) \in Servers
    BY <1>2, ThreadFacts DEF RecordDevice, SessionInv
  <2>2. PICK p \in ThreadState :
          /\ Set(t, p) /\ p.pc = "claim" /\ p.job = q.job /\ p.cl = q.cl
          /\ p.tok = q.tok /\ p.acc = q.acc /\ p.name = q.name
          /\ p.dev = q.dev /\ p.page = q.page /\ p.mut = q.mut
          /\ p.batch = q.batch
    BY <2>1, GotoFacts DEF SessionInv, Steps
  <2>3. Shape(t, p) /\ p.batch \cup p.mut \subseteq work
    BY <1>1, <2>2, Carried DEF Shape, Carries
  <2>4. /\ UNCHANGED <<keyring, live, client, handle, config, released, late, out, raced>>
    BY <1>1 DEF shared, ghosts
  <2>5. /\ RowsBound' /\ scope'.url # None
        /\ scope' \in [url : Servers \cup {None}, ident : Names, user : Owners,
                       device : Owners, cursor : Owners]
    BY <1>1, <1>2, <2>1, <2>4, DeviceRows
  <2>6. scope.url # None
    BY <1>1, HasScope
  <2>7. LateInv'
    BY <1>1, <2>2, <2>4, LateStays
  <2>8. LogoutWaits'
    BY <1>1, <2>2, <2>4, <2>6, Waits
  <2>9. /\ faults \in Nat /\ mirror \subseteq Accounts /\ raced \subseteq Servers
        /\ client \in [Clients -> [url : Servers, enabled : BOOLEAN]]
        /\ handle \in Clients /\ config \in Servers
    BY ClientFacts DEF SessionInv, TypeInv, SessionTypeOK
  <2> QED
    BY <1>1, <2>2, <2>3, <2>4, <2>5, <2>7, <2>8, <2>9, Carried, Calm
<1>3. CASE ~DeviceAllowed(Url(t), q.dev)
  <2>1. Set(t, Idle) /\ UNCHANGED scope
    BY <1>3 DEF RecordDevice
  <2> QED
    BY <1>1, <2>1, IdleFacts, Carried, Quiet
<1> QED
  BY <1>2, <1>3

LEMMA ClaimStep ==
    ASSUME SessionInv, NEW t \in Threads, Claim(t)
    PROVE  SessionInv'
<1>1. /\ thr[t].pc = "claim" /\ Set(t, Dispatching(t, pending))
      /\ pending' = {} /\ flying' = flying \cup pending
      /\ UNCHANGED <<scope, mirror, work, shared, faults, ghosts>>
  BY DEF Claim
<1>2. pending \subseteq work /\ flying \subseteq work /\ pending \in SUBSET Owners
  BY Carried
<1>3. PICK p \in ThreadState :
        /\ p = Dispatching(t, pending) /\ p.pc = "dispatch" /\ p.job = "none"
        /\ p.cl = thr[t].cl /\ p.tok = None /\ p.acc = None /\ p.mut = {}
        /\ p.batch = pending /\ Shape(t, p)
  BY <1>2, DispatchingFacts DEF SessionInv
<1> QED
  BY <1>1, <1>2, <1>3, Quiet

LEMMA DispatchStep ==
    ASSUME SessionInv, NEW t \in Threads, Dispatch(t)
    PROVE  SessionInv'
<1> DEFINE q == thr[t]
<1>1. /\ q.pc = "dispatch"
      /\ UNCHANGED <<scope, mirror, work, shared, faults, ghosts, pending, flying>>
  BY DEF Dispatch, store
<1>2. CASE q.batch = {}
  <2>1. Set(t, AskPage(t))
    BY <1>2 DEF Dispatch
  <2>2. PICK p \in ThreadState :
          /\ p = AskPage(t) /\ p.pc = "ensure" /\ p.job = "pull" /\ p.cl = thr[t].cl
          /\ p.tok = None /\ p.acc = None /\ p.mut = {} /\ p.batch = {}
          /\ Shape(t, p)
    BY AskPageFacts DEF SessionInv
  <2> QED
    BY <1>1, <2>1, <2>2, Carried, Quiet
<1>3. CASE q.batch # {}
  <2>1. PICK m \in q.batch :
          Set(t, [Ask(t, "upload") EXCEPT !.mut = {m}, !.batch = @ \ {m}])
    BY <1>3 DEF Dispatch
  <2>2. PICK r \in ThreadState :
          /\ r = Ask(t, "upload") /\ r.pc = "ensure" /\ r.job = "upload" /\ r.cl = q.cl
          /\ r.tok = None /\ r.acc = None /\ r.batch = q.batch
    BY AskFacts DEF SessionInv, Jobs
  <2>3. PICK p : p = [r EXCEPT !.mut = {m}, !.batch = @ \ {m}]
    OBVIOUS
  <2>4. m \in Owners /\ q.batch \subseteq Owners
    BY <2>1, ThreadFacts DEF SessionInv
  <2>5. /\ p \in ThreadState /\ p.pc = "ensure" /\ p.job = "upload" /\ p.cl = q.cl
        /\ p.tok = None /\ p.acc = None /\ p.mut = {m} /\ p.batch = q.batch \ {m}
    BY <2>2, <2>3, <2>4 DEF ThreadState
  <2>6. p.batch \cup p.mut \subseteq work
    BY <2>1, <2>5, Carried DEF Carries
  <2>7. Shape(t, p)
    BY <2>5 DEF Shape
  <2> QED
    BY <1>1, <2>1, <2>2, <2>3, <2>5, <2>6, <2>7, Carried, Quiet
<1> QED
  BY <1>2, <1>3

LEMMA ReadDeviceStep ==
    ASSUME SessionInv, NEW t \in Threads, ReadDevice(t)
    PROVE  SessionInv'
<1> DEFINE q == thr[t]
<1>1. /\ q.pc = "device"
      /\ UNCHANGED <<scope, mirror, work, shared, faults, ghosts>>
  BY DEF ReadDevice
<1>2. CASE scope.device # None
  <2>1. Set(t, [Ask(t, "push") EXCEPT !.dev = scope.device]) /\ UNCHANGED <<pending, flying>>
    BY <1>2 DEF ReadDevice
  <2>2. PICK r \in ThreadState :
          /\ r = Ask(t, "push") /\ r.pc = "ensure" /\ r.job = "push" /\ r.cl = q.cl
          /\ r.tok = None /\ r.acc = None /\ r.mut = q.mut /\ r.batch = q.batch
    BY AskFacts DEF SessionInv, Jobs
  <2>3. PICK p : p = [r EXCEPT !.dev = scope.device]
    OBVIOUS
  <2>4. /\ p \in ThreadState /\ p.pc = "ensure" /\ p.job = "push" /\ p.cl = q.cl
        /\ p.tok = None /\ p.acc = None /\ p.mut = q.mut /\ p.batch = q.batch
        /\ p.dev = scope.device
    BY <2>2, <2>3, ScopeFacts DEF ThreadState, SessionInv
  <2>5. p.batch \cup p.mut \subseteq work
    BY <2>4, Carried DEF Carries
  <2>6. ~released => p.mut \subseteq {None, p.dev}
    BY <1>2, <2>4, <2>5 DEF SessionInv, WorkInv, RowsBound
  <2>7. Shape(t, p)
    BY <2>4 DEF Shape
  <2> QED
    BY <1>1, <2>1, <2>2, <2>3, <2>4, <2>5, <2>6, <2>7, Carried, Quiet
<1>3. CASE scope.device = None
  <2>1. AfterError(t, "in_flight")
    BY <1>3 DEF ReadDevice
  <2> QED
    BY <1>1, <2>1, ErrorStep
<1> QED
  BY <1>2, <1>3

LEMMA AcknowledgeStep ==
    ASSUME SessionInv, NEW t \in Threads, Acknowledge(t)
    PROVE  SessionInv'
<1>1. /\ thr[t].pc = "ack" /\ Set(t, Dispatching(t, thr[t].batch))
      /\ pending' = pending /\ flying' = flying \ thr[t].mut
      /\ UNCHANGED <<scope, mirror, work, shared, faults, ghosts>>
  BY DEF Acknowledge
<1>2. thr[t].batch \in SUBSET Owners /\ thr[t].batch \subseteq work
  BY ThreadFacts, Carried DEF SessionInv, Carries
<1>3. PICK p \in ThreadState :
        /\ p = Dispatching(t, thr[t].batch) /\ p.pc = "dispatch" /\ p.job = "none"
        /\ p.cl = thr[t].cl /\ p.tok = None /\ p.acc = None /\ p.mut = {}
        /\ p.batch = thr[t].batch /\ Shape(t, p)
  BY <1>2, DispatchingFacts DEF SessionInv
<1>4. pending' \cup flying' \subseteq work /\ pending' \cap flying' = {}
  BY <1>1, Carried
<1> QED
  BY <1>1, <1>2, <1>3, <1>4, Quiet

LEMMA ApplyPageStep ==
    ASSUME SessionInv, NEW t \in Threads, ApplyPage(t)
    PROVE  SessionInv'
<1> DEFINE a == thr[t].page
<1>1. /\ thr[t].pc = "apply" /\ a \in Accounts
      /\ mirror' \in {mirror, mirror \cup {a}, mirror \ {a}}
      /\ scope' = [scope EXCEPT !.cursor = a]
      /\ UNCHANGED <<work, pending, flying, shared, faults, ghosts>>
  BY Carried DEF ApplyPage, Shape
<1> HIDE DEF a
<1>2. /\ UNCHANGED <<work, keyring, live, client, handle, config, faults>>
      /\ UNCHANGED <<released, torn, late, out, raced>>
  BY <1>1 DEF shared, ghosts
<1>3. /\ scope' \in [url : Servers \cup {None}, ident : Names, user : Owners,
                     device : Owners, cursor : Owners]
      /\ scope'.url = scope.url /\ scope'.user = scope.user
      /\ scope'.device = scope.device /\ scope'.ident = scope.ident
  BY <1>1, ScopeFacts DEF SessionInv, Owners
<1>4. /\ faults \in Nat /\ mirror' \subseteq Accounts /\ raced \subseteq Servers
      /\ client \in [Clients -> [url : Servers, enabled : BOOLEAN]]
      /\ handle \in Clients /\ config \in Servers
  BY <1>1, ClientFacts DEF SessionInv, TypeInv, SessionTypeOK
<1>5. RowsBound'
  BY <1>2, <1>3 DEF SessionInv, WorkInv, RowsBound, Established
<1>6. ASSUME NEW p \in ThreadState, Set(t, p), Shape(t, p), p.pc \in {"idle", "ensure"},
             p.tok = None, p.acc = None, p.mut = {}, p.batch = {}, p.job # "logout",
             p.pc = "idle" \/ p.cl = thr[t].cl
      PROVE  SessionInv'
  <2>1. LateInv'
    BY <1>1, <1>2, <1>6, LateStays
  <2>2. LogoutWaits'
    BY <1>1, <1>2, <1>3, <1>6, Waits
  <2> QED
    BY <1>1, <1>2, <1>3, <1>4, <1>5, <1>6, <2>1, <2>2, Carried, Calm
<1>7. CASE Set(t, Idle)
  BY <1>6, <1>7, IdleFacts
<1>8. CASE Set(t, AskPage(t))
  <2>1. PICK p \in ThreadState :
          /\ p = AskPage(t) /\ p.pc = "ensure" /\ p.job = "pull" /\ p.cl = thr[t].cl
          /\ p.tok = None /\ p.acc = None /\ p.mut = {} /\ p.batch = {}
          /\ Shape(t, p)
    BY AskPageFacts DEF SessionInv
  <2> QED
    BY <1>6, <1>8, <2>1
<1> QED
  BY <1>7, <1>8 DEF ApplyPage

LEMMA BeginCycleStep ==
    ASSUME SessionInv, NEW t \in Threads, BeginCycle(t)
    PROVE  SessionInv'
<1>1. /\ thr[t].pc = "idle" /\ ScopeMatches(client[handle].url)
      /\ Set(t, [Idle EXCEPT !.pc = "ensure", !.job = "session", !.cl = handle])
      /\ late' = IF t = "ui" THEN late ELSE 0
      /\ UNCHANGED <<scope, mirror, work, pending, flying, keyring, live, client,
                     handle, config, faults, released, out, raced>>
  BY DEF BeginCycle, store, shared
<1>2. /\ faults \in Nat /\ mirror \subseteq Accounts /\ raced \subseteq Servers
      /\ scope \in [url : Servers \cup {None}, ident : Names, user : Owners,
                    device : Owners, cursor : Owners]
      /\ client \in [Clients -> [url : Servers, enabled : BOOLEAN]]
      /\ handle \in Clients /\ config \in Servers
  BY ScopeFacts, ClientFacts DEF SessionInv, TypeInv, SessionTypeOK
<1>3. PICK p : p = [Idle EXCEPT !.pc = "ensure", !.job = "session", !.cl = handle]
  OBVIOUS
<1>4. /\ p \in ThreadState /\ p.pc = "ensure" /\ p.job = "session" /\ p.cl = handle
      /\ p.tok = None /\ p.acc = None /\ p.mut = {} /\ p.batch = {}
  BY <1>2, <1>3, IdleFacts DEF ThreadState, Steps, Jobs
<1>5. Shape(t, p)
  BY <1>4 DEF Shape
<1>6. thr'[t] = p /\ \A u \in Threads \ {t} : thr'[u] = thr[u]
  BY <1>1, <1>3, <1>4, Moved DEF SessionInv
<1>7. LateInv'
  BY <1>1, <1>4, <1>6 DEF SessionInv, LateInv, Busy, Threads
<1>8. LogoutWaits'
  <2>1. CASE t = "ui"
    BY <1>1, <1>3, <1>4, <2>1, NoLogout DEF SessionInv
  <2>2. CASE t = "worker"
    <3>1. thr'["ui"] = thr["ui"] /\ Url("ui")' = Url("ui")
      BY <1>1, <1>6, <2>2 DEF Threads, Url
    <3>2. scope.url # None => ScopeComplete
      BY <1>1, <1>2 DEF ScopeMatches
    <3> QED
      BY <1>1, <3>1, <3>2 DEF SessionInv, OutInv, LogoutWaits
  <2> QED
    BY <2>1, <2>2 DEF Threads
<1>9. RowsBound'
  BY <1>1, Rows DEF SessionInv, WorkInv
<1> QED
  BY <1>1, <1>2, <1>3, <1>4, <1>5, <1>7, <1>8, <1>9, Carried, Calm

-----------------------------------------------------------------------------
(* The steps that move a token.                                            *)

LEMMA Assemble ==
    ASSUME SessionInv, NEW t \in Threads, NEW p \in ThreadState, Shape(t, p), Set(t, p),
           keyring' \in [Servers -> Tokens \cup {None}], live' \subseteq Tokens,
           client' \in [Clients -> [url : Servers, enabled : BOOLEAN]],
           UNCHANGED <<scope, mirror, work, pending, flying, handle, config, faults,
                       released>>,
           out' \subseteq Servers, raced' \subseteq Servers,
           p.batch = thr[t].batch \/ p.batch = {}, p.mut = thr[t].mut \/ p.mut = {},
           p.job = "push" /\ p.pc \in {"ensure", "read", "refresh", "rotate", "call"}
             => /\ p.mut = thr[t].mut /\ p.dev = thr[t].dev /\ thr[t].job = "push"
                /\ thr[t].pc \in {"ensure", "read", "refresh", "rotate", "call"},
           HomeInv', LiveInv', LateInv', OutInv'
    PROVE  SessionInv'
<1>1. /\ thr' \in [Threads -> ThreadState]
      /\ thr'[t] = p /\ \A u \in Threads \ {t} : thr'[u] = thr[u]
  BY Moved DEF SessionInv
<1>2. TypeInv'
  <2>1. SessionTypeOK'
    BY <1>1 DEF SessionInv, TypeInv, SessionTypeOK, LateInv
  <2>2. \A u \in Threads : Shape(u, thr[u])'
    BY <1>1 DEF SessionInv, TypeInv, Shape
  <2> QED
    BY <2>1, <2>2 DEF SessionInv, TypeInv
<1>3. WorkInv'
  <2>1. Carries(p)
    BY Carried DEF Carries
  <2>2. \A u \in Threads : Carries(thr[u])'
    BY <1>1, <2>1 DEF SessionInv, WorkInv, Carries
  <2>3. RowsBound'
    BY Rows DEF SessionInv, WorkInv
  <2> QED
    BY <2>2, <2>3 DEF WorkInv
<1> QED
  BY <1>2, <1>3 DEF SessionInv

(* Four tokens of an account are enough: besides the ones in hand only the *)
(* keyring of its server holds one.                                        *)
LEMMA FreshFacts ==
    ASSUME SessionInv, NEW a \in Accounts
    PROVE  /\ Fresh(a) \in Tokens /\ Fresh(a)[1] = a /\ Fresh(a) # None
           /\ \A s \in Servers : keyring[s] # Fresh(a)
           /\ \A t \in Threads : thr[t].tok # Fresh(a)
<1> DEFINE taken == InKeyring({}) \cup InHand
<1>1. \A n \in 1 .. 4 : <<a, n>> \in taken =>
        <<a, n>> \in {keyring[Host[a]], thr["ui"].tok, thr["worker"].tok}
  <2> SUFFICES ASSUME NEW n \in 1 .. 4, NEW s \in Servers, keyring[s] = <<a, n>>
               PROVE  s = Host[a]
    BY DEF InKeyring, InHand, Threads
  <2>1. <<a, n>> # None
    BY SessionAssumption DEF Tokens
  <2>2. keyring[s] # None => Host[keyring[s][1]] = s
    BY DEF SessionInv, HomeInv
  <2> QED
    BY <2>1, <2>2
<1> HIDE DEF taken
<1>2. \E n \in 1 .. 4 : <<a, n>> \notin taken
  <2> SUFFICES ASSUME \A n \in 1 .. 4 : <<a, n>> \in taken PROVE FALSE
    OBVIOUS
  <2> DEFINE k == keyring[Host[a]]
             h == thr["ui"].tok
             w == thr["worker"].tok
  <2>1. \A n \in {1, 2, 3, 4} : <<a, n>> = k \/ <<a, n>> = h \/ <<a, n>> = w
    BY <1>1
  <2> HIDE DEF k, h, w
  <2>2. \A m, n \in {1, 2, 3, 4} : <<a, m>> = <<a, n>> => m = n
    OBVIOUS
  <2> QED
    BY <2>1, <2>2
<1>3. PICK n \in 1 .. 4 : Fresh(a) = <<a, n>> /\ <<a, n>> \notin taken
  BY <1>2 DEF Fresh, taken
<1>4. \A s \in Servers : keyring[s] \in taken
  BY DEF InKeyring, taken
<1>5. \A t \in Threads : thr[t].tok \in taken
  BY DEF InHand, taken
<1>6. Fresh(a) \in Tokens
  BY <1>3 DEF Tokens
<1> QED
  BY <1>3, <1>4, <1>5, <1>6, SessionAssumption

LEMMA KeyFacts ==
    ASSUME SessionInv
    PROVE  /\ keyring \in [Servers -> Tokens \cup {None}]
           /\ \A s \in Servers : keyring[s] \in Tokens \cup {None}
           /\ live \subseteq Tokens /\ out \subseteq Servers /\ raced \subseteq Servers
           /\ None \notin Tokens /\ \A k \in Tokens : k[1] \in Accounts
           /\ \A a \in Accounts : Host[a] \in Servers /\ a # None
  BY SessionAssumption DEF SessionInv, TypeInv, SessionTypeOK, Tokens

LEMMA ReadSecretStep ==
    ASSUME SessionInv, NEW t \in Threads, ReadSecret(t)
    PROVE  SessionInv'
<1> DEFINE q == thr[t]
           tok == keyring[Url(t)]
<1>1. /\ q.pc = "read" /\ q.tok = None /\ q.job # "logout"
      /\ UNCHANGED <<scope, mirror, work, shared, faults, ghosts>>
  BY Carried DEF ReadSecret, Shape
<1>2. CASE tok = None
  <2>1. AfterError(t, "in_flight") \/ AfterError(t, "retryable_error")
    BY <1>2 DEF ReadSecret, Service, Unserved
  <2> QED
    BY <1>1, <2>1, ErrorStep
<1>3. CASE tok # None
  <2>1. /\ Set(t, [q EXCEPT !.pc = "refresh", !.tok = tok])
        /\ UNCHANGED <<pending, flying, scope, mirror, work, keyring, live, client,
                       handle, config, faults, released, late, out, raced>>
    BY <1>3 DEF ReadSecret, Service, shared, ghosts
  <2>2. Url(t) \in Servers /\ q \in ThreadState
    BY ThreadFacts DEF SessionInv
  <2>3. tok \in Tokens /\ Host[tok[1]] = Url(t)
    BY <1>3, <2>2, KeyFacts DEF SessionInv, HomeInv
  <2>4. PICK p : p = [q EXCEPT !.pc = "refresh", !.tok = tok]
    OBVIOUS
  <2>5. /\ p \in ThreadState /\ p.pc = "refresh" /\ p.job = q.job /\ p.cl = q.cl
        /\ p.tok = tok /\ p.acc = q.acc /\ p.name = q.name /\ p.dev = q.dev
        /\ p.page = q.page /\ p.mut = q.mut /\ p.batch = q.batch
    BY <2>2, <2>3, <2>4 DEF ThreadState, Steps
  <2>6. Shape(t, p)
    BY <1>1, <1>3, <2>5, Carried DEF Shape
  <2>7. thr'[t] = p /\ \A u \in Threads \ {t} : thr'[u] = thr[u]
    BY <2>1, <2>4, <2>5, Moved DEF SessionInv
  <2>8. \A u \in Threads : Url(u)' = Url(u)
    BY <2>1, <2>5, <2>7 DEF Url
  <2>9. HomeInv'
    BY <2>1, <2>3, <2>5, <2>7, <2>8 DEF SessionInv, HomeInv
  <2>10. LiveInv'
    <3> SUFFICES ASSUME faults = 0 PROVE LiveInv'
      BY <2>1 DEF LiveInv
    <3>1. \A u \in Threads : thr'[u].pc = "rotate" =>
            /\ thr'[u].tok \in live'
            /\ \A s \in Servers : keyring'[s] # thr'[u].tok
            /\ \A v \in Threads \ {u} : thr'[v].tok # thr'[u].tok
      BY <2>1, <2>2, <2>5, <2>7 DEF SessionInv, LiveInv
    <3>2. \A s \in Servers :
            \/ keyring'[s] = None
            \/ keyring'[s] \in live'
            \/ \E u \in Threads : thr'[u].pc \in {"rotate", "clear"} /\ Url(u)' = s
      BY <1>1, <2>1, <2>7, <2>8 DEF SessionInv, LiveInv
    <3> QED
      BY <3>1, <3>2 DEF LiveInv
  <2>11. LateInv'
    <3>1. t = "worker" => late = 0
      BY <1>1 DEF SessionInv, LateInv
    <3> QED
      BY <1>1, <2>1, <2>4, <2>5, <3>1, LateStays
  <2>12. OutInv'
    <3>1. ~Nothing(Url(t))
      BY <1>3 DEF Nothing
    <3>2. \A s \in Servers : Nothing(s) => Nothing(s)'
      BY <2>1, <2>2, <2>3, <2>5, <2>7, <3>1 DEF Nothing
    <3>3. LogoutWaits'
      BY <1>1, <2>1, <2>4, <2>5, Waits
    <3> QED
      BY <2>1, <2>2, <2>5, <2>7, <3>2, <3>3, KeyFacts DEF SessionInv, OutInv, Threads
  <2> HIDE DEF tok
  <2> QED
    BY <1>1, <2>1, <2>4, <2>5, <2>6, <2>9, <2>10, <2>11, <2>12, KeyFacts, ClientFacts,
       Assemble DEF SessionInv
<1> QED
  BY <1>2, <1>3

LEMMA RefreshStep ==
    ASSUME SessionInv, NEW t \in Threads, Refresh(t)
    PROVE  SessionInv'
<1> DEFINE q == thr[t]
           tok == q.tok
           new == Fresh(tok[1])
<1>1. /\ q.pc = "refresh" /\ tok # None /\ q.job # "logout" /\ CountLate(t)
      /\ UNCHANGED <<scope, mirror, work, keyring, client, handle, config,
                     faults, released, torn, out, raced>>
  BY Carried DEF Refresh, Shape
<1>2. /\ tok \in Tokens /\ Host[tok[1]] = Url(t) /\ tok[1] \in Accounts
      /\ q \in ThreadState /\ Url(t) \in Servers
  BY <1>1, ThreadFacts, KeyFacts DEF SessionInv, HomeInv
<1>3. CASE ~Accepts(Url(t), tok)
  <2>1. UNCHANGED live /\ (AfterError(t, "in_flight") \/ AfterError(t, "retryable_error"))
    BY <1>3 DEF Refresh, Unserved
  <2>2. faults \in Nat
    BY DEF SessionInv, TypeInv
  <2> QED
    BY <1>1, <2>1, <2>2, ErrorLate
<1>4. CASE Accepts(Url(t), tok)
  <2>1. /\ live' = (live \ {tok}) \cup {new}
        /\ Set(t, [q EXCEPT !.pc = "rotate", !.tok = new])
        /\ UNCHANGED <<pending, flying>>
    BY <1>4 DEF Refresh
  <2>2. /\ new \in Tokens /\ new[1] = tok[1] /\ new # None
        /\ \A s \in Servers : keyring[s] # new
        /\ \A u \in Threads : thr[u].tok # new
    BY <1>2, FreshFacts
  <2> HIDE DEF new
  <2>4. PICK p : p = [q EXCEPT !.pc = "rotate", !.tok = new]
    OBVIOUS
  <2>5. /\ p \in ThreadState /\ p.pc = "rotate" /\ p.job = q.job /\ p.cl = q.cl
        /\ p.tok = new /\ p.acc = q.acc /\ p.name = q.name /\ p.dev = q.dev
        /\ p.page = q.page /\ p.mut = q.mut /\ p.batch = q.batch
    BY <1>2, <2>2, <2>4 DEF ThreadState, Steps
  <2>6. Shape(t, p)
    BY <1>1, <2>2, <2>5, Carried DEF Shape
  <2>7. thr'[t] = p /\ \A u \in Threads \ {t} : thr'[u] = thr[u]
    BY <2>1, <2>4, <2>5, Moved DEF SessionInv
  <2>8. \A u \in Threads : Url(u)' = Url(u)
    BY <1>1, <2>5, <2>7 DEF Url
  <2>9. HomeInv'
    BY <1>1, <1>2, <2>2, <2>5, <2>7, <2>8 DEF SessionInv, HomeInv
  <2>10. LiveInv'
    <3> SUFFICES ASSUME faults = 0 PROVE LiveInv'
      BY <1>1 DEF LiveInv
    <3>1. ASSUME NEW u \in Threads, thr'[u].pc = "rotate"
          PROVE  /\ thr'[u].tok \in live'
                 /\ \A s \in Servers : keyring'[s] # thr'[u].tok
                 /\ \A v \in Threads \ {u} : thr'[v].tok # thr'[u].tok
      <4>1. CASE u = t
        BY <1>1, <2>1, <2>2, <2>5, <2>7, <4>1
      <4>2. CASE u # t
        BY <1>1, <2>1, <2>2, <2>5, <2>7, <3>1, <4>2 DEF SessionInv, LiveInv
      <4> QED
        BY <4>1, <4>2
    <3>2. ASSUME NEW s \in Servers
          PROVE  \/ keyring'[s] = None
                 \/ keyring'[s] \in live'
                 \/ \E u \in Threads : thr'[u].pc \in {"rotate", "clear"} /\ Url(u)' = s
      <4>1. CASE keyring[s] = tok
        <5>1. s = Url(t)
          BY <1>1, <1>2, <4>1 DEF SessionInv, HomeInv
        <5> QED
          BY <2>5, <2>7, <2>8, <5>1
      <4>2. CASE keyring[s] # tok
        BY <1>1, <2>1, <2>7, <2>8, <4>2 DEF SessionInv, LiveInv
      <4> QED
        BY <4>1, <4>2
    <3> QED
      BY <3>1, <3>2 DEF LiveInv
  <2>11. LateInv'
    BY <1>1, <2>1, <2>4, <2>5, LateCounts
  <2>12. OutInv'
    <3>1. ~Nothing(Url(t))
      BY <1>1, <1>2 DEF Nothing
    <3>2. \A s \in Servers : Nothing(s) => Nothing(s)'
      BY <1>1, <1>2, <2>2, <2>5, <2>7, <3>1 DEF Nothing
    <3>3. LogoutWaits'
      BY <1>1, <2>1, <2>4, <2>5, Waits
    <3> QED
      BY <1>1, <1>2, <2>5, <2>7, <3>2, <3>3, KeyFacts DEF SessionInv, OutInv, Threads
  <2>13. live' \subseteq Tokens
    BY <2>1, <2>2, KeyFacts
  <2> QED
    BY <1>1, <2>1, <2>4, <2>5, <2>6, <2>9, <2>10, <2>11, <2>12, <2>13, KeyFacts,
       ClientFacts, Assemble DEF SessionInv
<1> QED
  BY <1>3, <1>4

(* Where a rotated token leaves the request that stores it.                *)
LEMMA RotatedFacts ==
    ASSUME SessionInv, NEW t \in Threads, StoreRotated(t)
    PROVE  \E p \in ThreadState :
             /\ Set(t, p) /\ p.cl = thr[t].cl /\ p.tok = None
             /\ p.mut = thr[t].mut /\ p.batch = thr[t].batch
             /\ p.dev = thr[t].dev /\ p.page = thr[t].page
             /\ \/ p.pc = "ensure" /\ p.job = "register" /\ thr[t].job = "session"
                   /\ p.acc = None
                \/ p.pc = "restored" /\ p.job = "restore" /\ thr[t].job = "restore"
                   /\ p.acc = thr[t].tok[1]
                \/ p.pc = "call" /\ p.job = thr[t].job /\ thr[t].job # "restore"
                   /\ p.acc = thr[t].tok[1]
<1> DEFINE q == thr[t]
           tok == q.tok
           kept == [q EXCEPT !.tok = None, !.acc = tok[1]]
<1>1. /\ q.pc = "rotate" /\ tok # None
      /\ Set(t, CASE kept.job = "session" -> Ask(t, "register")
                  [] kept.job = "restore" -> [kept EXCEPT !.pc = "restored"]
                  [] OTHER -> [kept EXCEPT !.pc = "call"])
  BY Carried DEF StoreRotated, Shape
<1>2. tok[1] \in Accounts /\ q \in ThreadState
  BY <1>1, ThreadFacts, KeyFacts DEF SessionInv
<1>3. /\ kept \in ThreadState /\ kept.job = q.job /\ kept.cl = q.cl /\ kept.tok = None
      /\ kept.acc = tok[1] /\ kept.name = q.name /\ kept.dev = q.dev
      /\ kept.page = q.page /\ kept.mut = q.mut /\ kept.batch = q.batch
  BY <1>2 DEF ThreadState, Owners
<1> HIDE DEF kept
<1>4. CASE q.job = "session"
  BY <1>1, <1>3, <1>4, AskFacts DEF SessionInv, Jobs
<1>5. CASE q.job = "restore"
  <2>1. PICK p : p = [kept EXCEPT !.pc = "restored"]
    OBVIOUS
  <2>2. /\ p \in ThreadState /\ p.pc = "restored" /\ p.job = q.job /\ p.cl = q.cl
        /\ p.tok = None /\ p.acc = tok[1] /\ p.mut = q.mut /\ p.batch = q.batch
        /\ p.dev = q.dev /\ p.page = q.page
    BY <1>3, <2>1 DEF ThreadState, Steps
  <2> QED
    BY <1>1, <1>3, <1>5, <2>1, <2>2
<1>6. CASE q.job \notin {"session", "restore"}
  <2>1. PICK p : p = [kept EXCEPT !.pc = "call"]
    OBVIOUS
  <2>2. /\ p \in ThreadState /\ p.pc = "call" /\ p.job = q.job /\ p.cl = q.cl
        /\ p.tok = None /\ p.acc = tok[1] /\ p.mut = q.mut /\ p.batch = q.batch
        /\ p.dev = q.dev /\ p.page = q.page
    BY <1>3, <2>1 DEF ThreadState, Steps
  <2> QED
    BY <1>1, <1>3, <1>6, <2>1, <2>2
<1> QED
  BY <1>4, <1>5, <1>6

LEMMA StoreRotatedStep ==
    ASSUME SessionInv, NEW t \in Threads, StoreRotated(t)
    PROVE  SessionInv'
<1> DEFINE q == thr[t]
           tok == q.tok
<1>1. /\ q.pc = "rotate" /\ tok # None /\ q.job # "logout"
      /\ keyring' = [keyring EXCEPT ![Url(t)] = tok]
      /\ UNCHANGED <<scope, mirror, work, pending, flying, live, client, handle, config,
                     faults, released, torn, late, out, raced>>
  BY Carried DEF StoreRotated, Service, Shape, store, ghosts
<1>2. /\ tok \in Tokens /\ Host[tok[1]] = Url(t) /\ tok[1] \in Accounts
      /\ q \in ThreadState /\ Url(t) \in Servers
  BY <1>1, ThreadFacts, KeyFacts DEF SessionInv, HomeInv
<1>4. PICK p \in ThreadState :
        /\ Set(t, p) /\ p.cl = q.cl /\ p.tok = None /\ p.mut = q.mut /\ p.batch = q.batch
        /\ p.dev = q.dev /\ p.page = q.page
        /\ \/ p.pc = "ensure" /\ p.job = "register" /\ p.acc = None
           \/ p.pc = "restored" /\ p.job = "restore" /\ q.job = "restore" /\ p.acc = tok[1]
           \/ p.pc = "call" /\ p.job = q.job /\ p.acc = tok[1]
  BY RotatedFacts
<1>5. Shape(t, p)
  BY <1>1, <1>2, <1>4, Carried DEF Shape
<1>6. thr'[t] = p /\ \A u \in Threads \ {t} : thr'[u] = thr[u]
  BY <1>4, Moved DEF SessionInv
<1>7. \A u \in Threads : Url(u)' = Url(u)
  BY <1>1, <1>4, <1>6 DEF Url
<1>8. /\ keyring' \in [Servers -> Tokens \cup {None}] /\ keyring'[Url(t)] = tok
      /\ \A s \in Servers : s # Url(t) => keyring'[s] = keyring[s]
  BY <1>1, <1>2, KeyFacts
<1>9. HomeInv'
  BY <1>1, <1>2, <1>4, <1>6, <1>7, <1>8 DEF SessionInv, HomeInv
<1>10. LiveInv'
  <2> SUFFICES ASSUME faults = 0 PROVE LiveInv'
    BY <1>1 DEF LiveInv
  <2>1. tok \in live /\ \A u \in Threads \ {t} : thr[u].tok # tok
    BY <1>1 DEF SessionInv, LiveInv
  <2>2. ASSUME NEW u \in Threads, thr'[u].pc = "rotate"
        PROVE  /\ thr'[u].tok \in live'
               /\ \A s \in Servers : keyring'[s] # thr'[u].tok
               /\ \A v \in Threads \ {u} : thr'[v].tok # thr'[u].tok
    <3>1. u # t /\ thr'[u] = thr[u] /\ thr[u].tok # None
      BY <1>4, <1>6, <2>2, Carried DEF Shape
    <3>2. /\ thr[u].tok \in live /\ \A s \in Servers : keyring[s] # thr[u].tok
          /\ \A v \in Threads \ {u} : thr[v].tok # thr[u].tok
      BY <2>2, <3>1 DEF SessionInv, LiveInv
    <3> QED
      BY <1>1, <1>4, <1>6, <1>8, <2>1, <3>1, <3>2
  <2>3. ASSUME NEW s \in Servers
        PROVE  \/ keyring'[s] = None
               \/ keyring'[s] \in live'
               \/ \E u \in Threads : thr'[u].pc \in {"rotate", "clear"} /\ Url(u)' = s
    <3>1. CASE s = Url(t)
      BY <1>1, <1>8, <2>1, <3>1
    <3>2. CASE s # Url(t)
      BY <1>1, <1>6, <1>7, <1>8, <3>2 DEF SessionInv, LiveInv
    <3> QED
      BY <3>1, <3>2
  <2> QED
    BY <2>2, <2>3 DEF LiveInv
<1>11. LateInv'
  <2>1. t = "worker" => late <= 1
    BY <1>1 DEF SessionInv, LateInv
  <2> QED
    BY <1>1, <1>4, <2>1, LateStays
<1>12. OutInv'
  <2>1. ~Nothing(Url(t))
    BY <1>1, <1>2 DEF Nothing
  <2>2. \A s \in Servers : Nothing(s) => Nothing(s)'
    BY <1>1, <1>2, <1>4, <1>6, <1>8, <2>1 DEF Nothing
  <2>3. LogoutWaits'
    BY <1>1, <1>4, Waits
  <2> QED
    BY <1>1, <1>2, <1>4, <1>6, <2>2, <2>3, KeyFacts DEF SessionInv, OutInv, Threads
<1> QED
  BY <1>1, <1>4, <1>5, <1>8, <1>9, <1>10, <1>11, <1>12, KeyFacts, ClientFacts,
     Assemble DEF SessionInv

-----------------------------------------------------------------------------
(* The commands.                                                           *)

(* A step of the commands' thread that touches neither tokens nor pages.   *)
LEMMA UiCalm ==
    ASSUME SessionInv, NEW p \in ThreadState, Shape("ui", p), Set("ui", p),
           p.tok = None, p.acc \in {None, thr["ui"].acc},
           p.pc \notin {"call", "enroll", "post", "rotate"},
           thr["ui"].pc \notin {"rotate", "clear"},
           p.mut = {} \/ p.mut = thr["ui"].mut, p.batch = {} \/ p.batch = thr["ui"].batch,
           p.job # "push",
           client' \in [Clients -> [url : Servers, enabled : BOOLEAN]],
           client'[thr["worker"].cl].url = client[thr["worker"].cl].url,
           handle' \in Clients, config' \in Servers,
           scope' \in [url : Servers \cup {None}, ident : Names, user : Owners,
                       device : Owners, cursor : Owners],
           scope'.url = None => scope.url = None /\ p.pc \notin {"suspend", "post"},
           UNCHANGED <<mirror, work, pending, flying, keyring, live, faults, out>>,
           released => released', raced \subseteq raced', raced' \subseteq Servers,
           late' = late \/ late' = 0,
           Busy("worker") /\ client'[thr["worker"].cl].enabled => late' = 0,
           LogoutWaits', RowsBound'
    PROVE  SessionInv'
<1>1. "ui" \in Threads /\ "worker" \in Threads /\ Threads \ {"ui"} = {"worker"}
  BY DEF Threads
<1>2. thr'["worker"] = thr["worker"]
  BY <1>1, Moved DEF SessionInv
<1>3. LateInv'
  BY <1>2 DEF SessionInv, LateInv, Busy
<1>4. p.batch \cup p.mut \subseteq work
  BY <1>1, Carried DEF Carries
<1>5. faults \in Nat /\ mirror \subseteq Accounts
  BY DEF SessionInv, TypeInv, SessionTypeOK
<1>6. pending \cup flying \subseteq work /\ pending \cap flying = {}
  BY <1>1, Carried
<1>7. \A u \in Threads \ {"ui"} : client'[thr[u].cl].url = client[thr[u].cl].url
  BY <1>1
<1> QED
  BY <1>1, <1>3, <1>4, <1>5, <1>6, <1>7, Calm

LEMMA LoginStep ==
    ASSUME SessionInv, NEW a \in Accounts, Login(a)
    PROVE  SessionInv'
<1> DEFINE u == Host[a]
<1>1. /\ thr["ui"].pc = "idle" /\ LoginAllowed(u) /\ scope' = LoginScope(u, a)
      /\ Set("ui", [Idle EXCEPT !.pc = "suspend", !.job = "login", !.name = a])
      /\ UNCHANGED <<mirror, work, pending, flying, keyring, live, client, handle,
                     config, faults, released, late, out, raced>>
  BY DEF Login, Command, shared
<1>2. u \in Servers /\ u # None
  BY SessionAssumption
<1> HIDE DEF u
<1>3. PICK p : p = [Idle EXCEPT !.pc = "suspend", !.job = "login", !.name = a]
  OBVIOUS
<1>4. /\ p \in ThreadState /\ p.pc = "suspend" /\ p.job = "login" /\ p.name = a
      /\ p.tok = None /\ p.acc = None /\ p.mut = {} /\ p.batch = {}
  BY <1>3, IdleFacts DEF ThreadState, Steps, Jobs, Names
<1>5. Shape("ui", p)
  BY <1>4 DEF Shape
<1>6. /\ scope' \in [url : Servers \cup {None}, ident : Names, user : Owners,
                     device : Owners, cursor : Owners]
      /\ scope'.url = u /\ scope'.device \in {None, scope'.user}
      /\ scope'.user \in {None, scope.user}
      /\ scope.url = u => scope'.user = scope.user
  <2>1. CASE ScopeComplete /\ scope.url = u /\ scope.ident = a
    BY <1>1, <2>1, ScopeFacts DEF LoginScope, SessionInv, WorkInv, RowsBound
  <2>2. CASE ~(ScopeComplete /\ scope.url = u /\ scope.ident = a)
    <3>1. /\ scope' = [url |-> u, ident |-> None,
                       user |-> IF scope.url = u THEN scope.user ELSE None,
                       device |-> None, cursor |-> None]
          /\ scope.user \in Owners
      BY <1>1, <2>2, ScopeFacts DEF LoginScope, Pending, SessionInv
    <3> QED
      BY <1>2, <3>1 DEF Owners, Names
  <2> QED
    BY <2>1, <2>2
<1>7. RowsBound'
  <2>1. ~released => \A o \in work : o = None \/ (scope.url = u /\ Established /\ scope.user = o)
    BY <1>1 DEF LoginAllowed, HasRows, SessionInv, WorkInv, RowsBound
  <2> QED
    BY <1>1, <1>2, <1>6, <2>1 DEF RowsBound, Established
<1>8. LogoutWaits'
  BY <1>1, <1>3, <1>4, NoLogout DEF SessionInv
<1>9. Busy("worker") /\ client[thr["worker"].cl].enabled => late = 0
  BY DEF SessionInv, LateInv
<1> QED
  BY <1>1, <1>2, <1>3, <1>4, <1>5, <1>6, <1>7, <1>8, <1>9, ClientFacts, KeyFacts, UiCalm
     DEF SessionInv

LEMMA EnrollStep ==
    ASSUME SessionInv, Enroll
    PROVE  SessionInv'
<1> DEFINE q == thr["ui"]
<1>1. /\ "ui" \in Threads /\ "worker" \in Threads /\ q.pc = "enroll" /\ q.tok = None
      /\ q.acc \in Accounts /\ q.cl \in Clients
      /\ q.job \in {"login", "logout", "switch", "restore"} /\ q.job # "logout"
      /\ UNCHANGED <<scope, mirror, work, pending, flying, keyring, live, handle,
                     config, faults, released, out, raced>>
  BY Carried, ThreadFacts DEF Enroll, Shape, store, Threads, SessionInv
<1>2. ASSUME NEW pc \in {"record", "cutoff"}, Goto("ui", pc),
             client' \in [Clients -> [url : Servers, enabled : BOOLEAN]],
             client'[thr["worker"].cl].url = client[thr["worker"].cl].url,
             late' = late \/ late' = 0,
             Busy("worker") /\ client'[thr["worker"].cl].enabled => late' = 0
      PROVE  SessionInv'
  <2>1. PICK p \in ThreadState :
          /\ Set("ui", p) /\ p.pc = pc /\ p.job = q.job /\ p.cl = q.cl
          /\ p.tok = q.tok /\ p.acc = q.acc /\ p.name = q.name
          /\ p.dev = q.dev /\ p.page = q.page /\ p.mut = q.mut
          /\ p.batch = q.batch
    <3>1. TypeInv /\ pc \in Steps /\ Goto("ui", pc)
      BY <1>2 DEF SessionInv, Steps
    <3> QED
      BY <1>1, <3>1, GotoFacts
  <2>2. Shape("ui", p)
    BY <1>1, <1>2, <2>1 DEF Shape
  <2>3. LogoutWaits'
    BY <1>1, <2>1, NoLogout DEF SessionInv
  <2>4. RowsBound'
    BY <1>1, Rows DEF SessionInv, WorkInv
  <2> QED
    BY <1>1, <1>2, <2>1, <2>2, <2>3, <2>4, ScopeFacts, ClientFacts, KeyFacts, UiCalm
       DEF SessionInv
<1>3. thr["worker"].cl \in Clients /\ late \in Nat
  BY <1>1, ThreadFacts DEF SessionInv, LateInv
<1>4. CASE client' = [client EXCEPT ![q.cl].enabled = TRUE] /\ Goto("ui", "record") /\ late' = 0
  <2>1. /\ client' \in [Clients -> [url : Servers, enabled : BOOLEAN]]
        /\ \A c \in Clients : client'[c].url = client[c].url
    BY <1>1, <1>4, ClientFacts DEF SessionInv
  <2> QED
    BY <1>2, <1>3, <1>4, <2>1
<1>5. CASE Goto("ui", "cutoff") /\ UNCHANGED <<client, late>>
  <2>1. Busy("worker") /\ client[thr["worker"].cl].enabled => late = 0
    BY DEF SessionInv, LateInv
  <2> QED
    BY <1>2, <1>5, <2>1, ClientFacts DEF SessionInv
<1> QED
  BY <1>4, <1>5 DEF Enroll

LEMMA RecordLoginStep ==
    ASSUME SessionInv, RecordLogin
    PROVE  SessionInv'
<1> DEFINE q == thr["ui"]
<1>1. /\ "ui" \in Threads /\ "worker" \in Threads /\ q.pc = "record" /\ q.tok = None
      /\ q.job = "login" /\ q.acc \in Accounts /\ q.cl \in Clients /\ q.name \in Names
      /\ Url("ui") \in Servers
      /\ UNCHANGED <<mirror, work, pending, flying, keyring, live, client, handle,
                     config, faults, released, late, out, raced>>
  BY Carried, ThreadFacts DEF RecordLogin, Shape, shared, Threads, SessionInv
<1>2. scope.url # None
  BY <1>1, HasScope
<1>3. ASSUME NEW pc \in {"config", "cutoff"}, Goto("ui", pc), RowsBound',
             scope' \in [url : Servers \cup {None}, ident : Names, user : Owners,
                         device : Owners, cursor : Owners],
             scope'.url # None
      PROVE  SessionInv'
  <2>1. PICK p \in ThreadState :
          /\ Set("ui", p) /\ p.pc = pc /\ p.job = q.job /\ p.cl = q.cl
          /\ p.tok = q.tok /\ p.acc = q.acc /\ p.name = q.name
          /\ p.dev = q.dev /\ p.page = q.page /\ p.mut = q.mut
          /\ p.batch = q.batch
    BY <1>1, <1>3, GotoFacts DEF SessionInv, Steps
  <2>2. Shape("ui", p)
    BY <1>1, <1>3, <2>1 DEF Shape
  <2>3. LogoutWaits'
    BY <1>1, <2>1, NoLogout DEF SessionInv
  <2>4. Busy("worker") /\ client[thr["worker"].cl].enabled => late = 0
    BY DEF SessionInv, LateInv
  <2> QED
    BY <1>1, <1>3, <2>1, <2>2, <2>3, <2>4, ClientFacts, KeyFacts, UiCalm DEF SessionInv
<1>4. CASE DeviceAllowed(Url("ui"), q.acc)
  <2>1. scope' = DeviceScope(Url("ui"), q.name, q.acc) /\ Goto("ui", "config")
    BY <1>4 DEF RecordLogin
  <2>2. /\ RowsBound' /\ scope'.url # None
        /\ scope' \in [url : Servers \cup {None}, ident : Names, user : Owners,
                       device : Owners, cursor : Owners]
    BY <1>1, <1>4, <2>1, DeviceRows
  <2> QED
    BY <1>3, <2>1, <2>2
<1>5. CASE ~DeviceAllowed(Url("ui"), q.acc)
  <2>1. Goto("ui", "cutoff") /\ UNCHANGED scope
    BY <1>5 DEF RecordLogin
  <2>2. RowsBound'
    BY <1>1, <2>1, Rows DEF SessionInv, WorkInv
  <2> QED
    BY <1>2, <1>3, <2>1, <2>2, ScopeFacts DEF SessionInv
<1> QED
  BY <1>4, <1>5

LEMMA ReplaceHandleStep ==
    ASSUME SessionInv, ReplaceHandle
    PROVE  SessionInv'
<1> DEFINE q == thr["ui"]
<1>1. /\ "ui" \in Threads /\ "worker" \in Threads /\ q.pc = "config" /\ q.tok = None
      /\ q.job \in {"login", "logout", "switch", "restore"} /\ q.job # "logout"
      /\ q.cl \in Clients /\ Url("ui") \in Servers
      /\ UNCHANGED <<scope, mirror, work, pending, flying, keyring, live, client,
                     faults, released, late, out, raced>>
  BY Carried, ThreadFacts DEF ReplaceHandle, Shape, store, Threads, SessionInv
<1>2. ASSUME NEW p \in ThreadState, Shape("ui", p), Set("ui", p), p.tok = None,
             p.acc \in {None, q.acc}, p.pc \in {"idle", "cutoff"},
             p.mut = {} \/ p.mut = q.mut, p.batch = {} \/ p.batch = q.batch,
             p.job # "push", p.job # "logout", handle' \in Clients, config' \in Servers
      PROVE  SessionInv'
  <2>1. LogoutWaits'
    BY <1>1, <1>2, NoLogout DEF SessionInv
  <2>2. RowsBound'
    BY <1>1, Rows DEF SessionInv, WorkInv
  <2>3. Busy("worker") /\ client[thr["worker"].cl].enabled => late = 0
    BY DEF SessionInv, LateInv
  <2> QED
    BY <1>1, <1>2, <2>1, <2>2, <2>3, ScopeFacts, ClientFacts, KeyFacts, UiCalm
       DEF SessionInv
<1>3. CASE Set("ui", Idle)
  <2>1. handle' \in Clients /\ config' \in Servers
    BY <1>1, ClientFacts DEF ReplaceHandle, SessionInv
  <2> QED
    BY <1>1, <1>2, <1>3, <2>1, IdleFacts
<1>4. CASE Goto("ui", "cutoff") /\ UNCHANGED <<config, handle>>
  <2>1. PICK p \in ThreadState :
          /\ Set("ui", p) /\ p.pc = "cutoff" /\ p.job = q.job /\ p.cl = q.cl
          /\ p.tok = q.tok /\ p.acc = q.acc /\ p.name = q.name
          /\ p.dev = q.dev /\ p.page = q.page /\ p.mut = q.mut
          /\ p.batch = q.batch
    BY <1>1, <1>4, GotoFacts DEF SessionInv, Steps
  <2>2. Shape("ui", p)
    BY <1>1, <2>1, Carried DEF Shape
  <2> QED
    BY <1>1, <1>2, <1>4, <2>1, <2>2, ClientFacts DEF SessionInv
<1> QED
  BY <1>3, <1>4 DEF ReplaceHandle

LEMMA LogoutStep ==
    ASSUME SessionInv, Logout
    PROVE  SessionInv'
<1>1. /\ "ui" \in Threads /\ "worker" \in Threads /\ thr["ui"].pc = "idle"
      /\ scope' = [url |-> scope.url, ident |-> None, user |-> None, device |-> None,
                   cursor |-> None]
      /\ Set("ui", [Idle EXCEPT !.pc = "cutoff", !.job = "logout", !.cl = handle])
      /\ released' = (released \/ HasRows)
      /\ raced' = IF Busy("worker") THEN raced \cup {client[handle].url} ELSE raced
      /\ UNCHANGED <<mirror, work, pending, flying, keyring, live, client, handle,
                     config, faults, late, out>>
  BY DEF Logout, Command, shared, Threads, SignedOutScope, Pending
<1>2. PICK p : p = [Idle EXCEPT !.pc = "cutoff", !.job = "logout", !.cl = handle]
  OBVIOUS
<1>3. /\ p \in ThreadState /\ p.pc = "cutoff" /\ p.job = "logout" /\ p.cl = handle
      /\ p.tok = None /\ p.acc = None /\ p.mut = {} /\ p.batch = {}
  BY <1>2, IdleFacts, ClientFacts DEF ThreadState, Steps, Jobs, SessionInv
<1>4. Shape("ui", p)
  BY <1>3 DEF Shape
<1>5. /\ scope' \in [url : Servers \cup {None}, ident : Names, user : Owners,
                     device : Owners, cursor : Owners]
      /\ scope'.url = scope.url /\ scope'.user = None /\ scope'.device = None
  BY <1>1, ScopeFacts DEF SessionInv, Owners, Names
<1>6. raced \subseteq raced' /\ raced' \subseteq Servers
  BY <1>1, ClientFacts, KeyFacts DEF SessionInv
<1>7. /\ thr'["ui"] = p /\ thr'["worker"] = thr["worker"]
  BY <1>1, <1>2, <1>3, Moved DEF SessionInv, Threads
<1>8. LogoutWaits'
  <2>1. Url("ui")' = client[handle].url
    BY <1>1, <1>3, <1>7 DEF Url
  <2>2. ~ScopeComplete'
    BY <1>5 DEF ScopeComplete, Established
  <2>3. Busy("worker")' = Busy("worker")
    BY <1>7 DEF Busy
  <2> QED
    BY <1>1, <2>1, <2>2, <2>3 DEF LogoutWaits
<1>9. RowsBound'
  <2>1. ~released' => work = {}
    BY <1>1 DEF HasRows
  <2> QED
    BY <1>1, <1>5, <2>1 DEF RowsBound
<1>10. Busy("worker") /\ client[thr["worker"].cl].enabled => late = 0
  BY DEF SessionInv, LateInv
<1> QED
  BY <1>1, <1>2, <1>3, <1>4, <1>5, <1>6, <1>8, <1>9, <1>10, ClientFacts, UiCalm
     DEF SessionInv

LEMMA RestoreStep ==
    ASSUME SessionInv, RestoreSession
    PROVE  SessionInv'
<1>1. /\ thr["ui"].pc = "idle"
      /\ Set("ui", [Idle EXCEPT !.pc = "ensure", !.job = "restore", !.cl = handle])
      /\ UNCHANGED <<scope, mirror, work, pending, flying, keyring, live, client, handle,
                     config, faults, released, late, out, raced>>
  BY DEF RestoreSession, Command, store, shared, ghosts
<1>2. PICK p : p = [Idle EXCEPT !.pc = "ensure", !.job = "restore", !.cl = handle]
  OBVIOUS
<1>3. /\ p \in ThreadState /\ p.pc = "ensure" /\ p.job = "restore" /\ p.cl = handle
      /\ p.tok = None /\ p.acc = None /\ p.mut = {} /\ p.batch = {}
  BY <1>2, IdleFacts, ClientFacts DEF ThreadState, Steps, Jobs, SessionInv
<1>4. Shape("ui", p)
  BY <1>3 DEF Shape
<1>5. LogoutWaits'
  BY <1>1, <1>2, <1>3, NoLogout DEF SessionInv
<1>6. RowsBound'
  BY <1>1, Rows DEF SessionInv, WorkInv
<1>7. Busy("worker") /\ client[thr["worker"].cl].enabled => late = 0
  BY DEF SessionInv, LateInv
<1> QED
  BY <1>1, <1>2, <1>3, <1>4, <1>5, <1>6, <1>7, ScopeFacts, ClientFacts, KeyFacts, UiCalm
     DEF SessionInv

LEMMA RestoredStep ==
    ASSUME SessionInv, Restored
    PROVE  SessionInv'
<1>1. "ui" \in Threads /\ thr["ui"].pc = "restored" /\ Set("ui", Idle)
  BY DEF Restored, Threads
<1>2. UNCHANGED <<scope, mirror, work, shared, faults, ghosts, pending, flying>>
  BY DEF Restored, store
<1> QED
  BY <1>1, <1>2, IdleFacts, Carried, Quiet

(* A third SyncClient is always free for a new address.                    *)
LEMMA FreeClientFacts ==
    ASSUME TypeInv
    PROVE  FreeClient \in Clients /\ FreeClient # handle /\ FreeClient # thr["worker"].cl
<1> DEFINE w == thr["worker"].cl
<1> HIDE DEF w
<1>1. \E c \in Clients : c \notin {handle, w}
  <2>1. {1, 2, 3} \subseteq Clients
    BY DEF Clients
  <2>2. \/ 1 \notin {handle, w} \/ 2 \notin {handle, w} \/ 3 \notin {handle, w}
    OBVIOUS
  <2> QED
    BY <2>1, <2>2
<1> QED
  BY <1>1 DEF FreeClient, w

LEMMA SetServerUrlStep ==
    ASSUME SessionInv, NEW u \in Servers, SetServerUrl(u)
    PROVE  SessionInv'
<1>1. /\ thr["ui"].pc = "idle" /\ SwitchAllowed(u) /\ scope' = SwitchScope(u)
      /\ client' = [client EXCEPT ![FreeClient] = [url |-> u, enabled |-> TRUE]]
      /\ Set("ui", [Idle EXCEPT !.pc = "config", !.job = "switch", !.cl = FreeClient])
      /\ released' = (released \/ (HasRows /\ scope'.user # scope.user))
      /\ UNCHANGED <<mirror, work, pending, flying, keyring, live, handle, config,
                     faults, late, out, raced>>
  BY DEF SetServerUrl, Command
<1>2. PICK p : p = [Idle EXCEPT !.pc = "config", !.job = "switch", !.cl = FreeClient]
  OBVIOUS
<1>3. FreeClient \in Clients /\ FreeClient # handle /\ FreeClient # thr["worker"].cl
  BY FreeClientFacts DEF SessionInv
<1>4. /\ p \in ThreadState /\ p.pc = "config" /\ p.job = "switch" /\ p.cl = FreeClient
      /\ p.tok = None /\ p.acc = None /\ p.mut = {} /\ p.batch = {}
  BY <1>2, <1>3, IdleFacts DEF ThreadState, Steps, Jobs
<1>5. Shape("ui", p)
  BY <1>4 DEF Shape
<1>6. /\ scope' \in [url : Servers \cup {None}, ident : Names, user : Owners,
                     device : Owners, cursor : Owners]
      /\ scope'.url = u /\ u # None /\ scope'.device \in {None, scope'.user}
      /\ scope' = scope \/ scope'.user = None
  <2>1. CASE scope.url = u /\ ScopeComplete
    BY <1>1, <2>1, ScopeFacts, SessionAssumption
       DEF SwitchScope, SessionInv, WorkInv, RowsBound
  <2>2. CASE ~(scope.url = u /\ ScopeComplete)
    <3>1. scope' = [url |-> u, ident |-> None, user |-> None, device |-> None,
                    cursor |-> None]
      BY <1>1, <2>2 DEF SwitchScope, Pending
    <3> QED
      BY <3>1, SessionAssumption DEF Owners, Names
  <2> QED
    BY <2>1, <2>2
<1>7. RowsBound'
  <2>1. ~released' => \A o \in work : o = None \/ (Established' /\ scope'.user = o)
    <3> SUFFICES ASSUME ~released', NEW o \in work, o # None
                 PROVE  Established' /\ scope'.user = o
      OBVIOUS
    <3>1. HasRows /\ ~released
      BY <1>1 DEF HasRows
    <3>2. Established /\ scope.user = o
      BY <3>1 DEF SessionInv, WorkInv, RowsBound
    <3>3. scope'.user = scope.user
      BY <1>1, <3>1
    <3> QED
      BY <1>6, <3>2, <3>3 DEF Established
  <2> QED
    BY <1>1, <1>6, <2>1 DEF RowsBound
<1>8. LogoutWaits'
  BY <1>1, <1>2, <1>4, NoLogout DEF SessionInv
<1>9. Busy("worker") /\ client[thr["worker"].cl].enabled => late = 0
  BY DEF SessionInv, LateInv
<1>10. thr["worker"].cl \in Clients
  BY ThreadFacts DEF SessionInv, Threads
<1>11. /\ client' \in [Clients -> [url : Servers, enabled : BOOLEAN]]
       /\ client'[thr["worker"].cl] = client[thr["worker"].cl]
  BY <1>1, <1>3, <1>10, ClientFacts DEF SessionInv
<1> QED
  BY <1>1, <1>2, <1>4, <1>5, <1>6, <1>7, <1>8, <1>9, <1>11, ClientFacts, KeyFacts, UiCalm
     DEF SessionInv

LEMMA EditStep ==
    ASSUME SessionInv, Edit
    PROVE  SessionInv'
<1> DEFINE owner == IF Established THEN scope.user ELSE None
<1>1. /\ owner \notin pending \cup flying
      /\ work' = work \cup {owner} /\ pending' = pending \cup {owner}
      /\ UNCHANGED <<scope, mirror, flying, keyring, live, client, handle, config, thr,
                     faults, released, torn, late, out, raced>>
  BY DEF Edit, shared, ghosts
<1>2. owner \in Owners /\ (owner = None \/ (Established /\ scope.user = owner))
  BY ScopeFacts DEF Owners, SessionInv
<1> HIDE DEF owner
<1>3. TypeInv'
  <2>1. SessionTypeOK'
    BY <1>1, <1>2 DEF SessionInv, TypeInv, SessionTypeOK
  <2> QED
    BY <1>1, <2>1 DEF SessionInv, TypeInv
<1>4. HomeInv' /\ LiveInv' /\ LateInv'
  BY <1>1 DEF SessionInv, HomeInv, LiveInv, LateInv, Url, Busy
<1>5. OutInv'
  BY <1>1 DEF SessionInv, OutInv, LogoutWaits, Nothing, Url, Busy, ScopeComplete, Established
<1>6. WorkInv'
  <2>1. RowsBound'
    BY <1>1, <1>2 DEF SessionInv, WorkInv, RowsBound, Established
  <2>2. \A t \in Threads : Carries(thr[t])'
    BY <1>1 DEF SessionInv, WorkInv, Carries
  <2> QED
    BY <2>1, <2>2 DEF WorkInv
<1> QED
  BY <1>3, <1>4, <1>5, <1>6 DEF SessionInv

LEMMA RestartStep ==
    ASSUME SessionInv, Restart
    PROVE  SessionInv'
<1>1. /\ faults' = faults + 1 /\ thr' = [t \in Threads |-> Idle]
      /\ client' = [c \in Clients |-> [url |-> config, enabled |-> TRUE]]
      /\ handle' = 1 /\ pending' = pending \cup flying /\ flying' = {} /\ late' = 0
      /\ UNCHANGED <<scope, mirror, work, keyring, live, config, released, out, raced>>
  BY DEF Restart, Fault
<1>2. \A t \in Threads : thr'[t] = Idle
  BY <1>1
<1>3. TypeInv'
  <2>1. thr' \in [Threads -> ThreadState]
    BY <1>1, IdleFacts
  <2>2. /\ client' \in [Clients -> [url : Servers, enabled : BOOLEAN]]
        /\ handle' \in Clients
    BY <1>1, ClientFacts DEF Clients, SessionInv
  <2>3. SessionTypeOK'
    BY <1>1, <2>1, <2>2 DEF SessionInv, TypeInv, SessionTypeOK
  <2> QED
    BY <1>1, <1>2, <2>3, IdleFacts DEF SessionInv, TypeInv, Shape
<1>4. HomeInv'
  BY <1>1, <1>2, IdleFacts DEF SessionInv, HomeInv
<1>5. LiveInv'
  BY <1>1 DEF SessionInv, TypeInv, LiveInv
<1>6. LateInv'
  BY <1>1, <1>2, IdleFacts DEF LateInv, Threads
<1>7. OutInv'
  <2>1. \A s \in Servers : Nothing(s) => Nothing(s)'
    BY <1>1, <1>2, IdleFacts DEF Nothing
  <2>2. LogoutWaits'
    BY <1>2, IdleFacts DEF LogoutWaits, Threads
  <2> QED
    BY <1>1, <1>2, <2>1, <2>2, IdleFacts, KeyFacts DEF SessionInv, OutInv, Threads
<1>8. WorkInv'
  <2>1. RowsBound'
    BY <1>1, Rows DEF SessionInv, WorkInv
  <2> QED
    BY <1>1, <1>2, <2>1, IdleFacts DEF WorkInv, Carries
<1> QED
  BY <1>3, <1>4, <1>5, <1>6, <1>7, <1>8 DEF SessionInv

LEMMA SuspendStep ==
    ASSUME SessionInv, Suspend
    PROVE  SessionInv'
<1> DEFINE q == thr["ui"]
           w == thr["worker"]
           u == Host[q.name]
           c == IF client[handle].url = u THEN handle ELSE FreeClient
<1>1. /\ "ui" \in Threads /\ "worker" \in Threads /\ Threads = {"ui", "worker"}
      /\ q.pc = "suspend" /\ q.tok = None /\ q.name \in Accounts /\ q.job # "logout"
      /\ q.job \in {"login", "logout", "switch", "restore"}
      /\ client' = [client EXCEPT ![handle].enabled = FALSE,
                                  ![c] = [url |-> u, enabled |-> FALSE]]
      /\ Set("ui", [q EXCEPT !.pc = "post", !.cl = c])
      /\ UNCHANGED <<scope, mirror, work, pending, flying, keyring, live, handle, config,
                     faults, released, torn, late, out, raced>>
  BY Carried DEF Suspend, Shape, store, ghosts, Threads
<1>2. q \in ThreadState /\ w.cl \in Clients /\ handle \in Clients
  BY <1>1, ThreadFacts, ClientFacts DEF SessionInv
<1>3. c \in Clients /\ u \in Servers /\ (c = w.cl => client[w.cl].url = u)
  BY <1>1, <1>2, FreeClientFacts, SessionAssumption DEF SessionInv
<1> HIDE DEF c, u
<1>4. /\ client' \in [Clients -> [url : Servers, enabled : BOOLEAN]]
      /\ client'[c].url = u /\ client'[w.cl].url = client[w.cl].url
      /\ client'[w.cl].enabled => client[w.cl].enabled
  BY <1>1, <1>2, <1>3, ClientFacts DEF SessionInv
<1>5. PICK p : p = [q EXCEPT !.pc = "post", !.cl = c]
  OBVIOUS
<1>6. /\ p \in ThreadState /\ p.pc = "post" /\ p.job = q.job /\ p.cl = c
      /\ p.tok = q.tok /\ p.acc = q.acc /\ p.name = q.name /\ p.dev = q.dev
      /\ p.page = q.page /\ p.mut = q.mut /\ p.batch = q.batch
  BY <1>2, <1>3, <1>5 DEF ThreadState, Steps
<1>7. Shape("ui", p)
  BY <1>1, <1>6 DEF Shape
<1>8. thr'["ui"] = p /\ thr'["worker"] = w
  BY <1>1, <1>5, <1>6, Moved DEF SessionInv
<1>9. Url("ui")' = u /\ Url("worker")' = Url("worker")
  BY <1>4, <1>6, <1>8 DEF Url
<1>10. HomeInv'
  BY <1>1, <1>6, <1>8, <1>9 DEF SessionInv, HomeInv, u
<1>11. LiveInv'
  <2> SUFFICES ASSUME faults = 0 PROVE LiveInv'
    BY <1>1 DEF LiveInv
  <2>1. ASSUME NEW t \in Threads, thr'[t].pc = "rotate"
        PROVE  /\ thr'[t].tok \in live'
               /\ \A s \in Servers : keyring'[s] # thr'[t].tok
               /\ \A v \in Threads \ {t} : thr'[v].tok # thr'[t].tok
    BY <1>1, <1>6, <1>8, <2>1 DEF SessionInv, LiveInv
  <2>2. ASSUME NEW s \in Servers
        PROVE  \/ keyring'[s] = None
               \/ keyring'[s] \in live'
               \/ \E t \in Threads : thr'[t].pc \in {"rotate", "clear"} /\ Url(t)' = s
    BY <1>1, <1>6, <1>8, <1>9 DEF SessionInv, LiveInv
  <2> QED
    BY <2>1, <2>2 DEF LiveInv
<1>12. LateInv'
  BY <1>1, <1>4, <1>8 DEF SessionInv, LateInv, Busy
<1>13. OutInv'
  <2>1. LogoutWaits'
    BY <1>1, <1>5, <1>6, NoLogout DEF SessionInv
  <2>2. \A s \in Servers : Nothing(s) => Nothing(s)'
    BY <1>1, <1>6, <1>8 DEF Nothing
  <2> QED
    BY <1>1, <2>1, <2>2, KeyFacts DEF SessionInv, OutInv
<1> QED
  BY <1>1, <1>4, <1>5, <1>6, <1>7, <1>10, <1>11, <1>12, <1>13, KeyFacts, Assemble

LEMMA AuthenticateStep ==
    ASSUME SessionInv, Authenticate
    PROVE  SessionInv'
<1> DEFINE q == thr["ui"]
           w == thr["worker"]
           u == Url("ui")
           new == Fresh(q.name)
<1>1. /\ "ui" \in Threads /\ "worker" \in Threads /\ Threads = {"ui", "worker"}
      /\ q.pc = "post" /\ q.tok = None /\ q.name \in Accounts /\ q.job # "logout"
      /\ q.job \in {"login", "logout", "switch", "restore"}
      /\ UNCHANGED <<scope, mirror, work, pending, flying, client, handle, config,
                     faults, released, late>>
  BY Carried DEF Authenticate, Shape, store, Threads
<1>2. q \in ThreadState /\ u \in Servers /\ Host[q.name] = u /\ scope.url # None
  BY <1>1, ThreadFacts DEF SessionInv, HomeInv, OutInv
<1>3. CASE Set("ui", Idle) /\ UNCHANGED <<live, keyring, out, raced>>
  <2>1. LogoutWaits'
    BY <1>3, IdleFacts, NoLogout DEF SessionInv
  <2>2. RowsBound'
    BY <1>1, Rows DEF SessionInv, WorkInv
  <2>3. Busy("worker") /\ client[w.cl].enabled => late = 0
    BY DEF SessionInv, LateInv
  <2> QED
    BY <1>1, <1>2, <1>3, <2>1, <2>2, <2>3, IdleFacts, ScopeFacts, ClientFacts, KeyFacts,
       UiCalm DEF SessionInv
<1>4. CASE /\ live' = LiveWithout(u) \cup {new}
           /\ keyring' = [keyring EXCEPT ![Service(u)] = new]
           /\ Set("ui", [q EXCEPT !.pc = "enroll", !.acc = q.name])
           /\ out' = out \ {u} /\ raced' = raced \ {u}
  <2>1. /\ new \in Tokens /\ new[1] = q.name /\ new # None
        /\ \A s \in Servers : keyring[s] # new
        /\ \A t \in Threads : thr[t].tok # new
    BY <1>1, FreshFacts
  <2> HIDE DEF new
  <2>2. /\ keyring' \in [Servers -> Tokens \cup {None}] /\ keyring'[u] = new
        /\ \A s \in Servers : s # u => keyring'[s] = keyring[s]
    BY <1>2, <1>4, <2>1, KeyFacts DEF Service
  <2>3. /\ live' \subseteq Tokens /\ new \in live'
        /\ \A t \in Threads : thr[t].tok \in live => thr[t].tok \in live'
        /\ \A s \in Servers : s # u /\ keyring[s] \in live => keyring[s] \in live'
    BY <1>4, <2>1, KeyFacts DEF LiveWithout, InKeyring, InHand, Service
  <2>4. PICK p : p = [q EXCEPT !.pc = "enroll", !.acc = q.name]
    OBVIOUS
  <2>5. /\ p \in ThreadState /\ p.pc = "enroll" /\ p.job = q.job /\ p.cl = q.cl
        /\ p.tok = q.tok /\ p.acc = q.name /\ p.name = q.name /\ p.dev = q.dev
        /\ p.page = q.page /\ p.mut = q.mut /\ p.batch = q.batch
    <3>1. p \in ThreadState
      BY <1>1, <1>2, <2>4, GoesOnWith DEF Steps, Owners
    <3> QED
      BY <1>2, <2>4, <3>1 DEF ThreadState
  <2>6. Shape("ui", p)
    BY <1>1, <2>5 DEF Shape
  <2>7. thr'["ui"] = p /\ thr'["worker"] = w
    BY <1>1, <1>4, <2>4, <2>5, Moved DEF SessionInv
  <2>8. Url("ui")' = u /\ Url("worker")' = Url("worker")
    BY <1>1, <2>5, <2>7 DEF Url
  <2> HIDE DEF u
  <2>9. HomeInv'
    BY <1>1, <1>2, <2>1, <2>2, <2>5, <2>7, <2>8 DEF SessionInv, HomeInv
  <2>10. LiveInv'
    <3> SUFFICES ASSUME faults = 0 PROVE LiveInv'
      BY <1>1 DEF LiveInv
    <3>1. ASSUME NEW t \in Threads, thr'[t].pc = "rotate"
          PROVE  /\ thr'[t].tok \in live'
                 /\ \A s \in Servers : keyring'[s] # thr'[t].tok
                 /\ \A v \in Threads \ {t} : thr'[v].tok # thr'[t].tok
      <4>1. t = "worker" /\ thr'[t] = w /\ w.tok # None
        BY <1>1, <2>5, <2>7, <3>1, Carried DEF Shape
      <4>2. w.tok \in live /\ \A s \in Servers : keyring[s] # w.tok
        BY <1>1, <3>1, <4>1 DEF SessionInv, LiveInv
      <4> QED
        BY <1>1, <2>1, <2>2, <2>3, <2>5, <2>7, <4>1, <4>2
    <3>2. ASSUME NEW s \in Servers
          PROVE  \/ keyring'[s] = None
                 \/ keyring'[s] \in live'
                 \/ \E t \in Threads : thr'[t].pc \in {"rotate", "clear"} /\ Url(t)' = s
      <4>1. CASE s = u
        BY <2>2, <2>3, <4>1
      <4>2. CASE s # u
        BY <1>1, <2>2, <2>3, <2>7, <2>8, <4>2 DEF SessionInv, LiveInv
      <4> QED
        BY <4>1, <4>2
    <3> QED
      BY <3>1, <3>2 DEF LiveInv
  <2>11. LateInv'
    BY <1>1, <2>7 DEF SessionInv, LateInv, Busy
  <2>12. OutInv'
    <3>1. LogoutWaits'
      BY <1>1, <1>4, <2>4, <2>5, NoLogout DEF SessionInv
    <3>2. \A s \in Servers : s # u /\ Nothing(s) => Nothing(s)'
      BY <1>1, <1>2, <2>2, <2>5, <2>7 DEF Nothing
    <3> QED
      BY <1>1, <1>2, <1>4, <3>1, <3>2, KeyFacts DEF SessionInv, OutInv
  <2>13. out' \subseteq Servers /\ raced' \subseteq Servers
    BY <1>4, KeyFacts
  <2> QED
    BY <1>1, <1>4, <2>2, <2>3, <2>4, <2>5, <2>6, <2>9, <2>10, <2>11, <2>12, <2>13,
       ClientFacts, Assemble DEF SessionInv
<1> QED
  BY <1>3, <1>4 DEF Authenticate

LEMMA CutOffStep ==
    ASSUME SessionInv, CutOff
    PROVE  SessionInv'
<1> DEFINE q == thr["ui"]
           w == thr["worker"]
           tok == keyring[Url("ui")]
           pc == IF tok = None THEN "clear" ELSE "revoke"
<1>1. /\ "ui" \in Threads /\ "worker" \in Threads /\ Threads = {"ui", "worker"}
      /\ q.pc = "cutoff" /\ q.job \in {"login", "logout", "switch", "restore"}
      /\ client' = [client EXCEPT ![q.cl].enabled = FALSE]
      /\ Set("ui", [q EXCEPT !.pc = pc, !.tok = tok])
      /\ UNCHANGED <<scope, mirror, work, pending, flying, keyring, live, handle, config,
                     faults, released, torn, late, out, raced>>
  BY Carried DEF CutOff, Service, Shape, store, ghosts, Threads
<1>2. q \in ThreadState /\ Url("ui") \in Servers /\ q.cl \in Clients /\ w.cl \in Clients
  BY <1>1, ThreadFacts DEF SessionInv
<1>3. tok \in Tokens \cup {None} /\ (tok # None => Host[tok[1]] = Url("ui"))
  BY <1>2, KeyFacts DEF SessionInv, HomeInv
<1>4. /\ client' \in [Clients -> [url : Servers, enabled : BOOLEAN]]
      /\ \A c \in Clients : /\ client'[c].url = client[c].url
                            /\ client'[c].enabled => client[c].enabled
  BY <1>1, <1>2, ClientFacts DEF SessionInv
<1>5. PICK p : p = [q EXCEPT !.pc = pc, !.tok = tok]
  OBVIOUS
<1>6. /\ p \in ThreadState /\ p.pc = pc /\ p.job = q.job /\ p.cl = q.cl
      /\ p.tok = tok /\ p.acc = q.acc /\ p.name = q.name /\ p.dev = q.dev
      /\ p.page = q.page /\ p.mut = q.mut /\ p.batch = q.batch
  <2>1. pc \in Steps /\ None \in Owners
    BY DEF Steps, Owners
  <2>2. p \in ThreadState
    BY <1>2, <1>3, <1>5, <2>1, GoesOnWith
  <2> QED
    BY <1>2, <1>5, <2>2 DEF ThreadState
<1>7. Shape("ui", p)
  BY <1>1, <1>6, Carried DEF Shape
<1>8. thr'["ui"] = p /\ thr'["worker"] = w
  BY <1>1, <1>5, <1>6, Moved DEF SessionInv
<1>9. \A t \in Threads : Url(t)' = Url(t)
  <2>1. \A t \in Threads : thr'[t].cl = thr[t].cl /\ thr[t].cl \in Clients
    BY <1>1, <1>2, <1>6, <1>8
  <2> QED
    BY <1>4, <2>1 DEF Url
<1>10. HomeInv'
  BY <1>1, <1>3, <1>6, <1>8, <1>9 DEF SessionInv, HomeInv
<1>11. LiveInv'
  <2> SUFFICES ASSUME faults = 0 PROVE LiveInv'
    BY <1>1 DEF LiveInv
  <2>1. ASSUME NEW t \in Threads, thr'[t].pc = "rotate"
        PROVE  /\ thr'[t].tok \in live'
               /\ \A s \in Servers : keyring'[s] # thr'[t].tok
               /\ \A v \in Threads \ {t} : thr'[v].tok # thr'[t].tok
    BY <1>1, <1>2, <1>6, <1>8, <2>1 DEF SessionInv, LiveInv
  <2>2. ASSUME NEW s \in Servers
        PROVE  \/ keyring'[s] = None
               \/ keyring'[s] \in live'
               \/ \E t \in Threads : thr'[t].pc \in {"rotate", "clear"} /\ Url(t)' = s
    BY <1>1, <1>8, <1>9 DEF SessionInv, LiveInv
  <2> QED
    BY <2>1, <2>2 DEF LiveInv
<1>12. LateInv'
  BY <1>1, <1>2, <1>4, <1>8 DEF SessionInv, LateInv, Busy
<1>13. OutInv'
  <2>1. LogoutWaits'
    BY <1>1, <1>6, <1>8, <1>9
       DEF SessionInv, OutInv, LogoutWaits, Busy, ScopeComplete, Established
  <2>2. Nothing(Url("ui")) => tok = None
    BY DEF Nothing
  <2>3. \A s \in Servers : Nothing(s) => Nothing(s)'
    BY <1>1, <1>3, <1>6, <1>8, <2>2 DEF Nothing
  <2> QED
    BY <1>1, <1>6, <1>8, <2>1, <2>3, KeyFacts DEF SessionInv, OutInv
<1> HIDE DEF tok, pc
<1> QED
  BY <1>1, <1>4, <1>5, <1>6, <1>7, <1>10, <1>11, <1>12, <1>13, KeyFacts, Assemble

LEMMA RevokeStep ==
    ASSUME SessionInv, Revoke
    PROVE  SessionInv'
<1> DEFINE q == thr["ui"]
           w == thr["worker"]
<1>1. /\ "ui" \in Threads /\ "worker" \in Threads /\ Threads = {"ui", "worker"}
      /\ q.pc = "revoke" /\ q.job \in {"login", "logout", "switch", "restore"}
      /\ q.tok # None /\ live' \in {live, live \ {q.tok}}
      /\ Set("ui", [q EXCEPT !.pc = "clear", !.tok = None])
      /\ UNCHANGED <<scope, mirror, work, pending, flying, keyring, client, handle, config,
                     faults, released, torn, late, out, raced>>
  BY Carried DEF Revoke, Shape, store, ghosts, Threads
<1>2. q \in ThreadState /\ Url("ui") \in Servers
  BY <1>1, ThreadFacts DEF SessionInv
<1>3. PICK p : p = [q EXCEPT !.pc = "clear", !.tok = None]
  OBVIOUS
<1>4. /\ p \in ThreadState /\ p.pc = "clear" /\ p.job = q.job /\ p.cl = q.cl
      /\ p.tok = None /\ p.acc = q.acc /\ p.name = q.name /\ p.dev = q.dev
      /\ p.page = q.page /\ p.mut = q.mut /\ p.batch = q.batch
  BY <1>2, <1>3 DEF ThreadState, Steps
<1>5. Shape("ui", p)
  BY <1>1, <1>4, Carried DEF Shape
<1>6. thr'["ui"] = p /\ thr'["worker"] = w
  BY <1>1, <1>3, <1>4, Moved DEF SessionInv
<1>7. \A t \in Threads : Url(t)' = Url(t)
  BY <1>1, <1>4, <1>6 DEF Url
<1>8. HomeInv'
  BY <1>1, <1>4, <1>6, <1>7 DEF SessionInv, HomeInv
<1>9. LiveInv'
  <2> SUFFICES ASSUME faults = 0 PROVE LiveInv'
    BY <1>1 DEF LiveInv
  <2>1. ASSUME NEW t \in Threads, thr'[t].pc = "rotate"
        PROVE  /\ thr'[t].tok \in live'
               /\ \A s \in Servers : keyring'[s] # thr'[t].tok
               /\ \A v \in Threads \ {t} : thr'[v].tok # thr'[t].tok
    <3>1. t = "worker" /\ thr'[t] = w /\ w.tok # None /\ w.pc = "rotate"
      BY <1>1, <1>4, <1>6, <2>1, Carried DEF Shape
    <3>2. /\ w.tok \in live /\ w.tok # q.tok
          /\ \A s \in Servers : keyring[s] # w.tok
      BY <1>1, <3>1 DEF SessionInv, LiveInv
    <3> QED
      BY <1>1, <1>4, <1>6, <3>1, <3>2
  <2>2. ASSUME NEW s \in Servers
        PROVE  \/ keyring'[s] = None
               \/ keyring'[s] \in live'
               \/ \E t \in Threads : thr'[t].pc \in {"rotate", "clear"} /\ Url(t)' = s
    <3>1. CASE keyring[s] = q.tok
      <4>1. s = Url("ui")
        BY <1>1, <3>1 DEF SessionInv, HomeInv
      <4> QED
        BY <1>1, <1>4, <1>6, <1>7, <4>1
    <3>2. CASE keyring[s] # q.tok
      BY <1>1, <1>6, <1>7, <3>2 DEF SessionInv, LiveInv
    <3> QED
      BY <3>1, <3>2
  <2> QED
    BY <2>1, <2>2 DEF LiveInv
<1>10. LateInv'
  BY <1>1, <1>6 DEF SessionInv, LateInv, Busy
<1>11. OutInv'
  <2>1. LogoutWaits'
    BY <1>1, <1>4, <1>6, <1>7
       DEF SessionInv, OutInv, LogoutWaits, Busy, ScopeComplete, Established
  <2>2. \A s \in Servers : Nothing(s) => Nothing(s)'
    BY <1>1, <1>4, <1>6 DEF Nothing
  <2> QED
    BY <1>1, <1>4, <1>6, <2>1, <2>2, KeyFacts DEF SessionInv, OutInv
<1>12. live' \subseteq Tokens
  BY <1>1, KeyFacts
<1> QED
  BY <1>1, <1>3, <1>4, <1>5, <1>8, <1>9, <1>10, <1>11, <1>12, KeyFacts, ClientFacts,
     Assemble DEF SessionInv

LEMMA ClearCredentialsStep ==
    ASSUME SessionInv, ClearCredentials
    PROVE  SessionInv'
<1> DEFINE q == thr["ui"]
           w == thr["worker"]
           u == Url("ui")
<1>1. /\ "ui" \in Threads /\ "worker" \in Threads /\ Threads = {"ui", "worker"}
      /\ q.pc = "clear" /\ Set("ui", Idle)
      /\ keyring' = [keyring EXCEPT ![u] = None] /\ live' = LiveWithout(u)
      /\ out' = IF q.job = "logout" THEN out \cup {u} ELSE out
      /\ UNCHANGED <<scope, mirror, work, pending, flying, client, handle, config,
                     faults, released, torn, late, raced>>
  BY DEF ClearCredentials, Service, store, Threads
<1>2. u \in Servers
  BY <1>1, ThreadFacts DEF SessionInv
<1>3. thr'["ui"] = Idle /\ thr'["worker"] = w
  BY <1>1, IdleFacts, Moved DEF SessionInv
<1>4. Url("worker")' = Url("worker")
  BY <1>1, <1>3 DEF Url
<1>5. /\ keyring' \in [Servers -> Tokens \cup {None}] /\ keyring'[u] = None
      /\ \A s \in Servers : s # u => keyring'[s] = keyring[s]
  BY <1>1, <1>2, KeyFacts
<1>6. /\ live' \subseteq Tokens
      /\ \A t \in Threads : thr[t].tok \in live => thr[t].tok \in live'
      /\ \A s \in Servers : s # u /\ keyring[s] \in live => keyring[s] \in live'
  BY <1>1, KeyFacts DEF LiveWithout, InKeyring, InHand, Service
<1>7. out' \subseteq Servers
  BY <1>1, <1>2, KeyFacts
<1>8. HomeInv'
  BY <1>1, <1>3, <1>4, <1>5, IdleFacts DEF SessionInv, HomeInv
<1>9. LiveInv'
  <2> SUFFICES ASSUME faults = 0 PROVE LiveInv'
    BY <1>1 DEF LiveInv
  <2>1. ASSUME NEW t \in Threads, thr'[t].pc = "rotate"
        PROVE  /\ thr'[t].tok \in live'
               /\ \A s \in Servers : keyring'[s] # thr'[t].tok
               /\ \A v \in Threads \ {t} : thr'[v].tok # thr'[t].tok
    <3>1. t = "worker" /\ thr'[t] = w /\ w.tok # None /\ w.pc = "rotate"
      BY <1>1, <1>3, <2>1, IdleFacts, Carried DEF Shape
    <3>2. w.tok \in live /\ \A s \in Servers : keyring[s] # w.tok
      BY <1>1, <3>1 DEF SessionInv, LiveInv
    <3> QED
      BY <1>1, <1>3, <1>5, <1>6, <3>1, <3>2, IdleFacts
  <2>2. ASSUME NEW s \in Servers
        PROVE  \/ keyring'[s] = None
               \/ keyring'[s] \in live'
               \/ \E t \in Threads : thr'[t].pc \in {"rotate", "clear"} /\ Url(t)' = s
    <3>1. CASE s = u
      BY <1>5, <3>1
    <3>2. CASE s # u
      BY <1>1, <1>3, <1>4, <1>5, <1>6, <3>2 DEF SessionInv, LiveInv
    <3> QED
      BY <3>1, <3>2
  <2> QED
    BY <2>1, <2>2 DEF LiveInv
<1>10. LateInv'
  BY <1>1, <1>3 DEF SessionInv, LateInv, Busy
<1>11. OutInv'
  <2>1. LogoutWaits'
    BY <1>1, IdleFacts, NoLogout DEF SessionInv
  <2>2. \A s \in Servers : Nothing(s) => Nothing(s)'
    BY <1>1, <1>3, <1>5, IdleFacts DEF Nothing
  <2>3. ASSUME NEW s \in Servers, s = u, q.job = "logout", s \notin raced
        PROVE  Nothing(s)'
    <3>1. CASE scope.url = None
      BY <2>2, <3>1 DEF SessionInv, OutInv
    <3>2. CASE ~Busy("worker")
      <4>1. w.tok = None /\ w.acc = None
        BY <1>1, <3>2, Carried DEF Shape, Busy
      <4> QED
        BY <1>1, <1>3, <1>5, <2>3, <4>1, IdleFacts DEF Nothing
    <3> QED
      BY <2>3, <3>1, <3>2 DEF SessionInv, OutInv, LogoutWaits
  <2>4. \A s \in out' \ raced' : Nothing(s)'
    BY <1>1, <1>2, <2>2, <2>3, KeyFacts DEF SessionInv, OutInv
  <2>5. scope'.url = None => \A s \in Servers : Nothing(s)'
    BY <1>1, <2>2 DEF SessionInv, OutInv
  <2> QED
    BY <1>3, <2>1, <2>4, <2>5, IdleFacts DEF OutInv
<1> HIDE DEF u
<1> QED
  BY <1>1, <1>5, <1>6, <1>7, <1>8, <1>9, <1>10, <1>11, IdleFacts, KeyFacts, ClientFacts,
     Assemble DEF SessionInv

-----------------------------------------------------------------------------
LEMMA SessionStep ==
    ASSUME SessionInv, [Next]_sessionVars
    PROVE  SessionInv'
<1>1. ASSUME NEW t \in Threads, Request(t) \/ Cycle(t) \/ Lose(t)
      PROVE  SessionInv'
  <2>1. CASE Request(t)
    BY <2>1, CheckSwitchStep, ReadSecretStep, RefreshStep, StoreRotatedStep, ServeStep
       DEF Request
  <2>2. CASE Cycle(t)
    BY <2>2, BindDeviceStep, RecordDeviceStep, ClaimStep, DispatchStep, ReadDeviceStep,
       AcknowledgeStep, ApplyPageStep DEF Cycle
  <2>3. CASE Lose(t)
    BY <2>3, LoseStep
  <2> QED
    BY <1>1, <2>1, <2>2, <2>3
<1>2. CASE Wake
  BY <1>2, BeginCycleStep DEF Wake, Threads
<1>3. CASE Commanded
  BY <1>3, SuspendStep, AuthenticateStep, EnrollStep, RecordLoginStep, ReplaceHandleStep,
     CutOffStep, RevokeStep, ClearCredentialsStep, RestoredStep DEF Commanded
<1>4. CASE \E a \in Accounts : Login(a)
  BY <1>4, LoginStep
<1>5. CASE Logout
  BY <1>5, LogoutStep
<1>6. CASE \E u \in Servers : SetServerUrl(u)
  BY <1>6, SetServerUrlStep
<1>7. CASE RestoreSession
  BY <1>7, RestoreStep
<1>8. CASE SyncNow
  BY <1>8, BeginCycleStep DEF SyncNow, Threads
<1>9. CASE Edit
  BY <1>9, EditStep
<1>10. CASE Restart
  BY <1>10, RestartStep
<1>11. CASE UNCHANGED sessionVars
  <2>1. /\ UNCHANGED <<scope, mirror, work, pending, flying, keyring, live, client, handle>>
        /\ UNCHANGED <<config, thr, given, faults, released, torn, late, out, raced>>
    BY <1>11 DEF sessionVars, store, shared, ghosts
  <2>2. TypeInv'
    BY <2>1 DEF SessionInv, TypeInv, SessionTypeOK
  <2>3. HomeInv' /\ LiveInv' /\ LateInv'
    BY <2>1 DEF SessionInv, HomeInv, LiveInv, LateInv, Url, Busy
  <2>4. OutInv'
    BY <2>1
       DEF SessionInv, OutInv, LogoutWaits, Nothing, Url, Busy, ScopeComplete, Established
  <2>5. WorkInv'
    BY <2>1 DEF SessionInv, WorkInv, RowsBound, Carries, Established
  <2> QED
    BY <2>2, <2>3, <2>4, <2>5 DEF SessionInv
<1> QED
  BY <1>1, <1>2, <1>3, <1>4, <1>5, <1>6, <1>7, <1>8, <1>9, <1>10, <1>11 DEF Next

LEMMA SessionStart == Init => SessionInv
<1> SUFFICES ASSUME Init PROVE SessionInv
  OBVIOUS
<1>1. \A t \in Threads : thr[t] = Idle
  BY DEF Init
<1>2. \A s \in Servers : keyring[s] = None
  BY DEF Init
<1>3. TypeInv
  <2>1. scope \in [url : Servers \cup {None}, ident : Names, user : Owners,
                   device : Owners, cursor : Owners]
    BY DEF Init, Names, Owners
  <2>2. /\ keyring \in [Servers -> Tokens \cup {None}]
        /\ client \in [Clients -> [url : Servers, enabled : BOOLEAN]]
        /\ handle \in Clients /\ config \in Servers
    BY SessionAssumption DEF Init, Clients
  <2>3. thr \in [Threads -> ThreadState]
    BY IdleFacts DEF Init
  <2>4. SessionTypeOK
    BY <2>1, <2>2, <2>3 DEF Init, SessionTypeOK
  <2> QED
    BY <1>1, <2>4, IdleFacts DEF Init, TypeInv
<1>4. HomeInv
  BY <1>1, <1>2, IdleFacts DEF HomeInv
<1>5. LiveInv
  BY <1>1, <1>2, IdleFacts DEF LiveInv
<1>6. LateInv
  BY <1>1, IdleFacts DEF Init, LateInv, Busy, Threads
<1>7. OutInv
  <2>1. \A s \in Servers : Nothing(s)
    BY <1>1, <1>2, IdleFacts DEF Nothing
  <2>2. LogoutWaits
    BY <1>1, IdleFacts DEF LogoutWaits, Threads
  <2> QED
    BY <1>1, <2>1, <2>2, IdleFacts DEF Init, OutInv, Threads
<1>8. WorkInv
  BY <1>1, IdleFacts DEF Init, WorkInv, RowsBound, Carries
<1> QED
  BY <1>3, <1>4, <1>5, <1>6, <1>7, <1>8 DEF SessionInv

(* Every reachable state is one of SessionInv: tokens stay where they were *)
(* issued, rotated ones are live, and the scope keeps its rows.            *)
THEOREM SessionInvariant == Spec => []SessionInv
  BY SessionStart, SessionStep, PTL DEF Spec

(* Every variable is always of its type, with at most three requests       *)
(* counted against a disabled client.                                      *)
THEOREM SessionTypes == Spec => []SessionTypeOK
<1>1. SessionInv => SessionTypeOK
  BY DEF SessionInv, TypeInv
<1> QED
  BY <1>1, SessionInvariant, PTL

(* Refresh requests, logouts and calls carry a token or an account of the  *)
(* server they go to, whatever addresses, logins and restarts came before. *)
THEOREM TokensHome == Spec => []TokensStayHome
<1>1. SessionInv => TokensStayHome
  <2> SUFFICES ASSUME SessionInv, NEW t \in Threads
               PROVE  /\ thr[t].pc \in {"refresh", "revoke"} => Host[thr[t].tok[1]] = Url(t)
                      /\ thr[t].pc \in {"call", "enroll"} => Host[thr[t].acc] = Url(t)
    BY DEF TokensStayHome
  <2>1. thr[t].pc \in {"refresh", "revoke"} => thr[t].tok # None
    BY Carried DEF Shape
  <2> QED
    BY <2>1 DEF SessionInv, HomeInv
<1> QED
  BY <1>1, SessionInvariant, PTL

(* Without a fault, and while no rotated token is on its way to the        *)
(* keyring, every stored token is one its own server accepts.              *)
THEOREM StoredLive == Spec => []StoredIsLive
<1>1. SessionInv => StoredIsLive
  <2> SUFFICES ASSUME SessionInv, faults = 0,
                      \A t \in Threads : thr[t].pc \notin {"rotate", "clear"},
                      NEW s \in Servers, keyring[s] # None
               PROVE  keyring[s] \in live /\ Host[keyring[s][1]] = s
    BY DEF StoredIsLive, Accepts
  <2> QED
    BY DEF SessionInv, LiveInv, HomeInv
<1> QED
  BY <1>1, SessionInvariant, PTL

(* A disabled client lets at most two more requests of a cycle through.    *)
THEOREM LateBounded == Spec => []LateIsBounded
<1>1. SessionInv => LateIsBounded
  BY DEF SessionInv, LateInv, LateIsBounded
<1> QED
  BY <1>1, SessionInvariant, PTL

(* A logout that did not meet a running cycle leaves nothing that could    *)
(* get an access token for its server before the next login there.         *)
THEOREM LogoutHeld == Spec => []LogoutHoldsUnlessRaced
<1>1. SessionInv => LogoutHoldsUnlessRaced
  <2> SUFFICES ASSUME SessionInv, NEW t \in Threads, thr[t].acc # None,
                      Host[thr[t].acc] \in out \ raced
               PROVE  FALSE
    BY DEF LogoutHoldsUnlessRaced
  <2> QED
    BY DEF SessionInv, OutInv, Nothing
<1> QED
  BY <1>1, SessionInvariant, PTL

(* As long as no row was detached from its account, a push that the        *)
(* server can accept is of the account's own work.                         *)
THEOREM WorkOwn == Spec => []WorkIsOwn
<1>1. SessionInv => WorkIsOwn
  BY DEF SessionInv, WorkInv, Carries, WorkIsOwn
<1> QED
  BY <1>1, SessionInvariant, PTL

-----------------------------------------------------------------------------
(* Whose pages move the cursor, while no command has changed the session   *)
(* under a running cycle.                                                  *)

CycleJobs == {"session", "register", "upload", "push", "pull", "blob"}
InCycle(p) == p.job \in CycleJobs \/ p.pc \in {"claim", "dispatch"}

(* The cycle has compared its user with that of the scope.                 *)
Bound(p) ==
    p.job \in {"upload", "push", "pull", "blob"} \/ p.pc \in {"claim", "dispatch"}

(* A request has account a in hand, and may store a token of it.           *)
Holds(p, a) ==
    /\ InCycle(p) \/ p.job = "restore"
    /\ (p.tok # None /\ p.tok[1] = a) \/ p.acc = a

(* The steps at which a login may have put its account into the keyring.   *)
Entered(p) ==
    /\ p.job = "login"
    /\ p.pc \in {"enroll", "record", "config", "cutoff", "revoke", "clear"}

(* Which step belongs to which job, and what it has in hand.               *)
Proper(p) ==
    /\ p.pc = "idle" => p.job = "none"
    /\ p.pc \in {"ensure", "read", "refresh", "rotate"} =>
         p.acc = None /\ p.job \in CycleJobs \cup {"restore"}
    /\ p.pc = "call" => p.job \in CycleJobs
    /\ p.pc \in {"device", "ack", "apply"} => Bound(p)
    /\ p.pc = "bind" => p.job = "register"
    /\ p.pc = "record" => p.job \in {"register", "login"}
    /\ p.pc = "record" /\ p.job = "register" => p.name \in {SyncWorker, p.dev}
    /\ p.job = "restore" => p.pc \in {"ensure", "read", "refresh", "rotate", "restored"}
    /\ p.pc \in {"suspend", "post", "enroll"} => p.job = "login"
    /\ p.job = "login" => (p.pc \in {"suspend", "post"} \/ Entered(p)) /\ p.name \in Accounts
    /\ p.job = "login" /\ p.pc \in {"enroll", "record"} => p.acc = p.name

(* A login name is that of the user, or the one the worker makes up.       *)
NamesInv ==
    /\ scope.ident # None => scope.user # None
    /\ scope.ident \in Accounts => scope.user = scope.ident

(* A login that goes on while the worker runs is that of the scope's user. *)
LoginInv ==
    thr["ui"].job = "login" =>
      /\ thr["ui"].pc # "suspend" => Url("ui") = Host[thr["ui"].name]
      /\ ScopeComplete => scope.ident = thr["ui"].name

(* A cycle runs on the scope that it has checked.                          *)
Checked(t) ==
    InCycle(thr[t]) =>
      /\ scope.url = None \/ (ScopeComplete /\ scope.url = Url(t))
      /\ thr[t].pc \in {"bind", "record"} => thr[t].dev = thr[t].acc
      /\ thr[t].pc = "record" => scope.user = thr[t].dev /\ scope.ident = thr[t].name
      /\ Bound(thr[t]) => ScopeComplete
      /\ thr[t].pc = "apply" \/ thr[t].job = "blob" => thr[t].page = scope.user

(* The keyring has the account that a request for its server has in hand,  *)
(* or that of the login under way.                                         *)
Agrees(s, a) ==
    \/ keyring[s] = None
    \/ keyring[s][1] = a
    \/ Entered(thr["ui"]) /\ keyring[s][1] = thr["ui"].name

(* Two requests for one server have the same account in hand.              *)
HandsInv ==
    \A t \in Threads : \A a \in Accounts : Holds(thr[t], a) =>
      /\ Agrees(Url(t), a)
      /\ \A u \in Threads : \A b \in Accounts :
           Holds(thr[u], b) /\ Url(u) = Url(t) => b = a

(* Once a cycle is bound, it is that of the scope's user.                  *)
BoundInv ==
    \A t \in Threads : Bound(thr[t]) =>
      /\ Agrees(Url(t), scope.user)
      /\ \A u \in Threads : \A b \in Accounts :
           Holds(thr[u], b) /\ Url(u) = Url(t) => b = scope.user

CursorInv ==
    /\ NamesInv
    /\ \A t \in Threads : Proper(thr[t])
    /\ ~torn => /\ LoginInv /\ HandsInv /\ BoundInv
                /\ \A t \in Threads : Checked(t)

LEMMA CursorFacts ==
    ASSUME SessionInv, CursorInv, NEW t \in Threads
    PROVE  /\ thr[t] \in ThreadState /\ Shape(t, thr[t]) /\ Proper(thr[t])
           /\ Url(t) \in Servers
           /\ ~torn => Checked(t)
           /\ None \notin Accounts /\ None \notin Servers
           /\ SyncWorker \notin Accounts /\ SyncWorker # None
  BY ThreadFacts, Carried, SessionAssumption DEF SessionInv, CursorInv

(* A request has at most one account in hand, and only an account.         *)
LEMMA OneInHand ==
    ASSUME NEW t, NEW p \in ThreadState, Shape(t, p), Proper(p),
           NEW a \in Accounts, NEW b \in Accounts, Holds(p, a), Holds(p, b)
    PROVE  a = b
  BY SessionAssumption DEF Holds, Shape, Proper, InCycle, CycleJobs

(* The user of a bound cycle is an account.                                *)
LEMMA BoundUser ==
    ASSUME SessionInv, CursorInv, ~torn, NEW t \in Threads, Bound(thr[t])
    PROVE  scope.user \in Accounts /\ ScopeComplete /\ InCycle(thr[t])
<1>1. InCycle(thr[t])
  BY DEF Bound, InCycle, CycleJobs
<1>2. ScopeComplete
  BY <1>1 DEF CursorInv, Checked
<1> QED
  BY <1>1, <1>2, ScopeFacts DEF SessionInv, ScopeComplete, Established, Owners

(* A step of thread t that leaves the bound scope alone keeps CursorInv,   *)
(* when what t has in hand afterwards agrees with the keyring and with the *)
(* other thread, and the other thread with the keyring.                    *)
LEMMA Gains ==
    ASSUME SessionInv, CursorInv, ~torn, NEW t \in Threads, NEW p \in ThreadState,
           Set(t, p), Shape(t, p), Proper(p), ~torn',
           scope'.url = scope.url, scope'.user = scope.user, scope'.ident = scope.ident,
           \A u \in Threads \ {t} : client'[thr[u].cl].url = client[thr[u].cl].url,
           LoginInv', Checked(t)',
           \A u \in Threads \ {t} : \A a \in Accounts :
             Holds(thr[u], a) \/ (Bound(thr[u]) /\ a = scope.user)
               => (Agrees(Url(u), a) => Agrees(Url(u), a)'),
           \A a \in Accounts : Holds(p, a) =>
             /\ Agrees(Url(t), a)'
             /\ \A u \in Threads \ {t} : Url(u) = Url(t)' =>
                  /\ \A b \in Accounts : Holds(thr[u], b) => b = a
                  /\ Bound(thr[u]) => a = scope.user,
           Bound(p) =>
             /\ Agrees(Url(t), scope.user)'
             /\ \A a \in Accounts : Holds(p, a) => a = scope.user
             /\ \A u \in Threads \ {t} : \A b \in Accounts :
                  Holds(thr[u], b) /\ Url(u) = Url(t)' => b = scope.user
    PROVE  CursorInv'
<1>1. thr'[t] = p /\ \A u \in Threads \ {t} : thr'[u] = thr[u]
  BY Moved DEF SessionInv
<1>2. \A u \in Threads \ {t} : Url(u)' = Url(u)
  BY <1>1 DEF Url
<1>3. NamesInv'
  BY DEF CursorInv, NamesInv
<1>4. \A u \in Threads : Proper(thr'[u])
  BY <1>1 DEF CursorInv
<1>5. \A u \in Threads : Checked(u)'
  <2> SUFFICES ASSUME NEW u \in Threads, u # t PROVE Checked(u)'
    OBVIOUS
  <2>1. thr'[u] = thr[u] /\ Url(u)' = Url(u) /\ Checked(u)
    BY <1>1, <1>2 DEF CursorInv
  <2> QED
    BY <2>1 DEF Checked, ScopeComplete, Established
<1>6. HandsInv'
  <2> SUFFICES ASSUME NEW u \in Threads, NEW a \in Accounts, Holds(thr'[u], a)
               PROVE  /\ Agrees(Url(u), a)'
                      /\ \A v \in Threads : \A b \in Accounts :
                           Holds(thr'[v], b) /\ Url(v)' = Url(u)' => b = a
    BY DEF HandsInv
  <2>1. CASE u = t
    BY <1>1, <1>2, <2>1, OneInHand
  <2>2. CASE u # t
    <3>1. thr'[u] = thr[u] /\ Url(u)' = Url(u) /\ Holds(thr[u], a)
      BY <1>1, <1>2, <2>2
    <3>2. Agrees(Url(u), a)'
      BY <2>2, <3>1 DEF CursorInv, HandsInv
    <3>3. ASSUME NEW v \in Threads, NEW b \in Accounts, Holds(thr'[v], b), Url(v)' = Url(u)'
          PROVE  b = a
      <4>1. CASE v = t
        BY <1>1, <2>2, <3>1, <3>3, <4>1
      <4>2. CASE v # t
        BY <1>1, <1>2, <3>1, <3>3, <4>2 DEF CursorInv, HandsInv
      <4> QED
        BY <4>1, <4>2
    <3> QED
      BY <3>1, <3>2, <3>3
  <2> QED
    BY <2>1, <2>2
<1>7. BoundInv'
  <2> SUFFICES ASSUME NEW u \in Threads, Bound(thr'[u])
               PROVE  /\ Agrees(Url(u), scope.user)'
                      /\ \A v \in Threads : \A b \in Accounts :
                           Holds(thr'[v], b) /\ Url(v)' = Url(u)' => b = scope.user
    BY DEF BoundInv
  <2>1. CASE u = t
    BY <1>1, <1>2, <2>1
  <2>2. CASE u # t
    <3>1. thr'[u] = thr[u] /\ Url(u)' = Url(u) /\ Bound(thr[u]) /\ scope.user \in Accounts
      BY <1>1, <1>2, <2>2, BoundUser
    <3>2. Agrees(Url(u), scope.user)'
      BY <2>2, <3>1 DEF CursorInv, BoundInv
    <3>3. ASSUME NEW v \in Threads, NEW b \in Accounts, Holds(thr'[v], b), Url(v)' = Url(u)'
          PROVE  b = scope.user
      <4>1. CASE v = t
        BY <1>1, <2>2, <3>1, <3>3, <4>1
      <4>2. CASE v # t
        BY <1>1, <1>2, <3>1, <3>3, <4>2 DEF CursorInv, BoundInv
      <4> QED
        BY <4>1, <4>2
    <3> QED
      BY <3>1, <3>2, <3>3
  <2> QED
    BY <2>1, <2>2
<1> QED
  BY <1>3, <1>4, <1>5, <1>6, <1>7 DEF CursorInv

(* Nothing but the names and the shape of the threads has to be shown when *)
(* the session was changed under a cycle.                                  *)
LEMMA Torn ==
    ASSUME SessionInv, CursorInv, NEW t \in Threads, NEW p \in ThreadState, Set(t, p),
           Proper(p), NamesInv', torn'
    PROVE  CursorInv'
<1>1. thr'[t] = p /\ \A u \in Threads \ {t} : thr'[u] = thr[u]
  BY Moved DEF SessionInv
<1> QED
  BY <1>1 DEF CursorInv

LEMMA NamesStay ==
    ASSUME CursorInv, scope'.url = scope.url, scope'.user = scope.user,
           scope'.ident = scope.ident
    PROVE  NamesInv'
  BY DEF CursorInv, NamesInv

(* A step of thread t that only lets go of what it had.                    *)
LEMMA Steady ==
    ASSUME SessionInv, CursorInv, NEW t \in Threads, NEW p \in ThreadState,
           Set(t, p), Shape(t, p), Proper(p), torn' = torn, keyring' = keyring,
           scope'.url = scope.url, scope'.user = scope.user, scope'.ident = scope.ident,
           \A u \in Threads \ {t} : client'[thr[u].cl].url = client[thr[u].cl].url,
           thr[t].pc # "idle" /\ (InCycle(p) \/ p.job = "restore" \/ Entered(p)) =>
             p.cl = thr[t].cl /\ client'[p.cl].url = client[p.cl].url,
           InCycle(p) => InCycle(thr[t]), Bound(p) => Bound(thr[t]),
           \A a \in Accounts : Holds(p, a) => Holds(thr[t], a),
           ~torn /\ InCycle(p) =>
             /\ p.pc \in {"bind", "record"} => p.dev = p.acc
             /\ p.pc = "record" => scope.user = p.dev /\ scope.ident = p.name
             /\ p.pc = "apply" \/ p.job = "blob" => p.page = scope.user,
           p.job = "login" => /\ thr[t].job = "login" /\ p.name = thr[t].name
                              /\ thr[t].pc # "suspend" \/ client'[p.cl].url = Host[p.name]
                              /\ thr[t].pc = "suspend" \/ Entered(p),
           Entered(thr[t]) => Entered(p)
    PROVE  CursorInv'
<1>1. thr'[t] = p /\ \A u \in Threads \ {t} : thr'[u] = thr[u]
  BY Moved DEF SessionInv
<1>2. CASE torn
  BY <1>2, NamesStay, Torn
<1>3. CASE ~torn
  <2> DEFINE q == thr[t]
  <2>1. Url(t)' = client'[p.cl].url /\ Url(t) = client[q.cl].url
    BY <1>1 DEF Url
  <2>2. /\ InCycle(q) \/ q.job = "login" \/ (\E a \in Accounts : Holds(q, a)) => q.pc # "idle"
        /\ InCycle(p) \/ p.job = "restore" \/ Entered(p) => q.pc = "idle" \/ Url(t)' = Url(t)
    BY <2>1 DEF CursorInv, Proper, InCycle, Holds, CycleJobs
  <2>3. Entered(thr["ui"]) => Entered(thr["ui"])' /\ thr'["ui"].name = thr["ui"].name
    BY <1>1 DEF Threads, Entered
  <2>4. \A s, a : Agrees(s, a) => Agrees(s, a)'
    BY <2>3 DEF Agrees
  <2>5. LoginInv'
    <3>1. CASE t = "ui"
      <4> SUFFICES ASSUME p.job = "login"
                   PROVE  /\ p.pc # "suspend" => Url("ui")' = Host[p.name]
                          /\ ScopeComplete => scope.ident = p.name
        BY <1>1, <3>1 DEF LoginInv, ScopeComplete, Established
      <4> QED
        BY <1>3, <2>1, <2>2, <3>1 DEF CursorInv, LoginInv
    <3>2. CASE t # "ui"
      <4>1. thr'["ui"] = thr["ui"] /\ Url("ui")' = Url("ui")
        BY <1>1, <3>2 DEF Url, Threads
      <4> QED
        BY <1>3, <4>1 DEF CursorInv, LoginInv, ScopeComplete, Established
    <3> QED
      BY <3>1, <3>2
  <2>6. Checked(t)'
    <3> SUFFICES ASSUME InCycle(p)
                 PROVE  /\ scope.url = None \/ (ScopeComplete /\ scope.url = Url(t)')
                        /\ Bound(p) => ScopeComplete
      BY <1>1, <1>3 DEF Checked, ScopeComplete, Established
    <3> QED
      BY <1>3, <2>2 DEF CursorInv, Checked
  <2>7. ASSUME NEW a \in Accounts, Holds(p, a)
        PROVE  /\ Agrees(Url(t), a)'
               /\ \A u \in Threads \ {t} : Url(u) = Url(t)' =>
                    /\ \A b \in Accounts : Holds(thr[u], b) => b = a
                    /\ Bound(thr[u]) => a = scope.user
    <3>1. Holds(q, a) /\ Url(t)' = Url(t)
      BY <2>2, <2>7 DEF Holds
    <3> QED
      BY <1>3, <2>4, <3>1 DEF CursorInv, HandsInv, BoundInv
  <2>8. ASSUME Bound(p)
        PROVE  /\ Agrees(Url(t), scope.user)'
               /\ \A a \in Accounts : Holds(p, a) => a = scope.user
               /\ \A u \in Threads \ {t} : \A b \in Accounts :
                    Holds(thr[u], b) /\ Url(u) = Url(t)' => b = scope.user
    <3>1. Bound(q) /\ Url(t)' = Url(t)
      BY <2>2, <2>8 DEF Bound, InCycle, CycleJobs
    <3>2. Agrees(Url(t), scope.user) /\ Agrees(Url(t), scope.user)'
      BY <1>3, <2>4, <3>1 DEF CursorInv, BoundInv
    <3> QED
      BY <1>3, <3>1, <3>2 DEF CursorInv, BoundInv
  <2>9. \A u \in Threads \ {t} : \A a : Agrees(Url(u), a) => Agrees(Url(u), a)'
    <3>1. \A u \in Threads \ {t} : Url(u)' = Url(u)
      BY <1>1 DEF Url
    <3> QED
      BY <2>4, <3>1
  <2> HIDE DEF q
  <2> QED
    BY <1>3, <2>5, <2>6, <2>7, <2>8, <2>9, Gains
<1> QED
  BY <1>2, <1>3

(* ... a step of a request or a cycle, which leaves the session as it is.  *)
LEMMA Onward ==
    ASSUME SessionInv, CursorInv, NEW t \in Threads, NEW p \in ThreadState,
           Set(t, p), Shape(t, p), Proper(p), UNCHANGED <<torn, keyring, client>>,
           scope'.url = scope.url, scope'.user = scope.user, scope'.ident = scope.ident,
           thr[t].job # "login", p.job # "login", p.pc = "idle" \/ p.cl = thr[t].cl,
           InCycle(p) => InCycle(thr[t]), Bound(p) => Bound(thr[t]),
           p.job = "restore" => thr[t].job = "restore",
           p.tok # None => thr[t].tok # None /\ p.tok[1] = thr[t].tok[1],
           p.acc # None => p.acc = thr[t].acc \/ (thr[t].tok # None /\ p.acc = thr[t].tok[1]),
           ~torn /\ InCycle(p) =>
             /\ p.pc \in {"bind", "record"} => p.dev = p.acc
             /\ p.pc = "record" => scope.user = p.dev /\ scope.ident = p.name
             /\ p.pc = "apply" \/ p.job = "blob" => p.page = scope.user
    PROVE  CursorInv'
<1>1. \A a \in Accounts : Holds(p, a) => Holds(thr[t], a)
  BY SessionAssumption DEF Holds
<1>2. ~Entered(thr[t]) /\ ~Entered(p)
  BY DEF Entered
<1>3. p.pc = "idle" => ~InCycle(p) /\ p.job # "restore"
  BY DEF Proper, InCycle, CycleJobs
<1> QED
  BY <1>1, <1>2, <1>3, Steady

LEMMA EndsIdle ==
    ASSUME SessionInv, CursorInv, NEW t \in Threads, Set(t, Idle),
           UNCHANGED <<torn, keyring, client>>,
           scope'.url = scope.url, scope'.user = scope.user, scope'.ident = scope.ident,
           thr[t].job # "login"
    PROVE  CursorInv'
<1>1. PICK p \in ThreadState : p = Idle
  BY IdleFacts
<1>2. /\ p.pc = "idle" /\ p.job = "none" /\ p.tok = None /\ p.acc = None
      /\ Shape(t, p) /\ Set(t, p)
  BY <1>1, IdleFacts
<1>3. Proper(p) /\ ~InCycle(p) /\ ~Bound(p)
  BY <1>2 DEF Proper, InCycle, Bound, CycleJobs, Entered
<1> QED
  BY <1>2, <1>3, Onward

(* A bound cycle goes on with nothing in hand.                             *)
LEMMA GoesOnEmpty ==
    ASSUME SessionInv, CursorInv, NEW t \in Threads, NEW p \in ThreadState, Set(t, p),
           Shape(t, p), UNCHANGED <<torn, keyring, client>>,
           scope'.url = scope.url, scope'.user = scope.user, scope'.ident = scope.ident,
           Bound(thr[t]), thr[t].job # "login", p.cl = thr[t].cl,
           p.tok = None, p.acc = None, p.pc \in {"ensure", "dispatch"},
           p.pc = "ensure" => p.job \in {"upload", "push", "pull"},
           p.pc = "dispatch" => p.job = "none"
    PROVE  CursorInv'
<1>1. Proper(p) /\ p.job \notin {"login", "restore", "blob"}
  BY DEF Proper, CycleJobs
<1>2. InCycle(thr[t])
  BY DEF Bound, InCycle, CycleJobs
<1> QED
  BY <1>1, <1>2, Onward

LEMMA ErrorKeeps ==
    ASSUME SessionInv, CursorInv, NEW t \in Threads, NEW r, AfterError(t, r),
           UNCHANGED <<scope, torn, keyring, client>>, thr[t].job # "login"
    PROVE  CursorInv'
<1>1. CASE thr[t].job \in {"upload", "push"}
  <2>1. Set(t, AskPage(t)) /\ Bound(thr[t])
    BY <1>1 DEF AfterError, Bound
  <2>2. PICK p \in ThreadState :
          /\ p = AskPage(t) /\ p.pc = "ensure" /\ p.job = "pull" /\ p.cl = thr[t].cl
          /\ p.tok = None /\ p.acc = None /\ Shape(t, p)
    BY AskPageFacts DEF SessionInv
  <2> QED
    BY <2>1, <2>2, GoesOnEmpty
<1>2. CASE thr[t].job \notin {"upload", "push"}
  <2>1. Set(t, Idle)
    BY <1>2 DEF AfterError
  <2> QED
    BY <2>1, EndsIdle
<1> QED
  BY <1>1, <1>2

LEMMA CheckSwitchCursor ==
    ASSUME SessionInv, CursorInv, NEW t \in Threads, CheckSwitch(t)
    PROVE  CursorInv'
<1>1. /\ thr[t].pc = "ensure" /\ UNCHANGED <<scope, torn, keyring, client>>
      /\ Proper(thr[t]) /\ Shape(t, thr[t]) /\ thr[t].job # "login"
  BY CursorFacts DEF CheckSwitch, shared, ghosts, Proper, Entered, CycleJobs
<1>2. CASE client[thr[t].cl].enabled
  <2>1. PICK p \in ThreadState :
          /\ Set(t, p) /\ p.pc = "read" /\ p.job = thr[t].job /\ p.cl = thr[t].cl
          /\ p.tok = thr[t].tok /\ p.acc = thr[t].acc /\ p.name = thr[t].name
          /\ p.dev = thr[t].dev /\ p.page = thr[t].page /\ p.mut = thr[t].mut
          /\ p.batch = thr[t].batch
    BY <1>2, GotoFacts DEF CheckSwitch, SessionInv, Steps
  <2>2. Shape(t, p) /\ Proper(p) /\ p.tok = None
    BY <1>1, <2>1 DEF Shape, Proper, Entered
  <2>3. (InCycle(p) => InCycle(thr[t])) /\ (Bound(p) => Bound(thr[t]))
    BY <2>1 DEF InCycle, Bound
  <2>4. ~torn /\ InCycle(p) /\ p.job = "blob" => p.page = scope.user
    BY <2>1, <2>3, CursorFacts DEF Checked
  <2> QED
    BY <1>1, <2>1, <2>2, <2>3, <2>4, Onward
<1>3. CASE ~client[thr[t].cl].enabled
  BY <1>1, <1>3, ErrorKeeps DEF CheckSwitch, Unserved
<1> QED
  BY <1>2, <1>3

LEMMA LoseCursor ==
    ASSUME SessionInv, CursorInv, NEW t \in Threads, Lose(t)
    PROVE  CursorInv'
<1>1. thr[t].job # "login"
  BY CursorFacts DEF Lose, Proper, CycleJobs
<1> QED
  BY <1>1, ErrorKeeps DEF Lose

LEMMA RefreshCursor ==
    ASSUME SessionInv, CursorInv, NEW t \in Threads, Refresh(t)
    PROVE  CursorInv'
<1> DEFINE q == thr[t]
           new == Fresh(q.tok[1])
<1>1. /\ q.pc = "refresh" /\ UNCHANGED <<scope, torn, keyring, client>>
      /\ q \in ThreadState /\ Proper(q) /\ Shape(t, q) /\ q.job # "login"
  BY CursorFacts DEF Refresh, Proper, Entered, CycleJobs
<1>2. CASE Accepts(Url(t), q.tok)
  <2>1. Set(t, [q EXCEPT !.pc = "rotate", !.tok = new])
    BY <1>2 DEF Refresh
  <2>2. q.tok # None /\ q.tok \in Tokens
    BY <1>1 DEF Shape, ThreadState
  <2>3. new \in Tokens /\ new # None /\ new[1] = q.tok[1]
    BY <2>2, FreshFacts, SessionAssumption DEF SessionInv, Tokens
  <2> HIDE DEF new
  <2>4. PICK p : p = [q EXCEPT !.pc = "rotate", !.tok = new]
    OBVIOUS
  <2>5. /\ p \in ThreadState /\ p.pc = "rotate" /\ p.tok = new /\ p.job = q.job
        /\ p.cl = q.cl /\ p.acc = q.acc /\ p.name = q.name /\ p.dev = q.dev
        /\ p.page = q.page
    BY <1>1, <2>3, <2>4 DEF ThreadState, Steps
  <2>6. Shape(t, p) /\ Proper(p)
    BY <1>1, <2>3, <2>5 DEF Shape, Proper, Entered
  <2>7. (InCycle(p) => InCycle(q)) /\ (Bound(p) => Bound(q))
    BY <2>5 DEF InCycle, Bound
  <2>8. ~torn /\ InCycle(p) /\ p.job = "blob" => p.page = scope.user
    BY <2>5, <2>7, CursorFacts DEF Checked
  <2> HIDE DEF q
  <2> QED
    BY <1>1, <2>1, <2>2, <2>3, <2>4, <2>5, <2>6, <2>7, <2>8, Onward DEF q
<1>3. CASE ~Accepts(Url(t), q.tok)
  BY <1>1, <1>3, ErrorKeeps DEF Refresh, Unserved
<1> QED
  BY <1>2, <1>3

LEMMA ServeCursor ==
    ASSUME SessionInv, CursorInv, NEW t \in Threads, Serve(t)
    PROVE  CursorInv'
<1> DEFINE q == thr[t]
<1>1. /\ q.pc = "call" /\ UNCHANGED <<scope, torn, keyring, client>> /\ q \in ThreadState
      /\ Proper(q) /\ Shape(t, q) /\ q.job # "login" /\ q.tok = None /\ q.acc \in Accounts
  BY CursorFacts DEF Serve, shared, Proper, CycleJobs, Shape
<1>2. CASE q.job = "register"
  <2>1. PICK p : p = [q EXCEPT !.pc = "bind", !.dev = q.acc]
    OBVIOUS
  <2>2. p \in ThreadState
    BY <1>1, <2>1, GoesOnWith DEF Steps, Owners
  <2>3. /\ p.pc = "bind" /\ p.dev = q.acc /\ p.job = q.job /\ p.cl = q.cl
        /\ p.tok = None /\ p.acc = q.acc
    BY <1>1, <2>1, <2>2 DEF ThreadState
  <2>4. Shape(t, p) /\ Proper(p) /\ InCycle(q) /\ ~Bound(p)
    BY <1>1, <1>2, <2>3 DEF Shape, Proper, InCycle, Bound, CycleJobs
  <2>5. Set(t, p)
    BY <1>2, <2>1 DEF Serve
  <2> QED
    BY <1>1, <1>2, <2>2, <2>3, <2>4, <2>5, Onward
<1>3. CASE q.job = "upload"
  <2>1. PICK p : p = [q EXCEPT !.pc = "device", !.acc = None]
    OBVIOUS
  <2>2. p \in ThreadState
    BY <1>1, <2>1, GoesOnWith DEF Steps, Owners
  <2>3. p.pc = "device" /\ p.job = q.job /\ p.cl = q.cl /\ p.tok = None /\ p.acc = None
    BY <1>1, <2>1, <2>2 DEF ThreadState
  <2>4. Shape(t, p) /\ Proper(p) /\ InCycle(q) /\ Bound(q)
    BY <1>1, <1>3, <2>3 DEF Shape, Proper, InCycle, Bound, CycleJobs
  <2>5. Set(t, p)
    BY <1>3, <2>1 DEF Serve
  <2> QED
    BY <1>1, <1>3, <2>2, <2>3, <2>4, <2>5, Onward
<1>4. CASE q.job = "push"
  <2>1. CASE q.dev = q.acc
    <3>1. PICK p \in ThreadState :
            /\ Set(t, p) /\ p.pc = "ack" /\ p.job = q.job /\ p.cl = q.cl
            /\ p.tok = q.tok /\ p.acc = q.acc /\ p.name = q.name
            /\ p.dev = q.dev /\ p.page = q.page /\ p.mut = q.mut
            /\ p.batch = q.batch
      BY <1>4, <2>1, GotoFacts DEF Serve, SessionInv, Steps
    <3>2. Shape(t, p) /\ Proper(p) /\ InCycle(q) /\ Bound(q)
      BY <1>1, <1>4, <3>1 DEF Shape, Proper, InCycle, Bound, CycleJobs
    <3> QED
      BY <1>1, <1>4, <3>1, <3>2, Onward
  <2>2. CASE q.dev # q.acc
    <3>1. AfterError(t, "permanent_error")
      BY <1>4, <2>2 DEF Serve
    <3> QED
      BY <1>1, <3>1, ErrorKeeps
  <2> QED
    BY <2>1, <2>2
<1>5. CASE q.job = "pull"
  <2>1. InCycle(q) /\ Bound(q) /\ Holds(q, q.acc)
    BY <1>5 DEF InCycle, Bound, Holds, CycleJobs
  <2>2. ~torn => q.acc = scope.user
    BY <1>1, <2>1 DEF CursorInv, BoundInv
  <2>3. CASE Set(t, [q EXCEPT !.pc = "apply", !.page = q.acc])
    <3>1. PICK p : p = [q EXCEPT !.pc = "apply", !.page = q.acc]
      OBVIOUS
    <3>2. p \in ThreadState
      BY <1>1, <3>1, GoesOnWith DEF Steps, Owners
    <3>3. /\ p.pc = "apply" /\ p.job = q.job /\ p.cl = q.cl /\ p.tok = None
          /\ p.acc = q.acc /\ p.page = q.acc
      BY <1>1, <3>1, <3>2 DEF ThreadState
    <3>4. Shape(t, p) /\ Proper(p)
      BY <1>1, <1>5, <3>3 DEF Shape, Proper, Bound
    <3> QED
      BY <1>1, <1>5, <2>1, <2>2, <2>3, <3>1, <3>2, <3>3, <3>4, Onward
  <2>4. CASE Set(t, [Ask(t, "blob") EXCEPT !.page = q.acc])
    <3>1. PICK r \in ThreadState :
            /\ r = Ask(t, "blob") /\ r.pc = "ensure" /\ r.job = "blob" /\ r.cl = q.cl
            /\ r.tok = None /\ r.acc = None
      BY AskFacts DEF SessionInv, Jobs
    <3>2. PICK p : p = [r EXCEPT !.page = q.acc]
      OBVIOUS
    <3>3. /\ p \in ThreadState /\ p.pc = "ensure" /\ p.job = "blob" /\ p.cl = q.cl
          /\ p.tok = None /\ p.acc = None /\ p.page = q.acc
      BY <1>1, <3>1, <3>2 DEF ThreadState, Owners
    <3>4. Shape(t, p) /\ Proper(p)
      BY <1>1, <3>3 DEF Shape, Proper, CycleJobs
    <3> QED
      BY <1>1, <1>5, <2>1, <2>2, <2>4, <3>1, <3>2, <3>3, <3>4, Onward
  <2> QED
    BY <1>5, <2>3, <2>4 DEF Serve
<1>6. CASE q.job = "blob"
  <2>1. PICK p \in ThreadState :
          /\ Set(t, p) /\ p.pc = "apply" /\ p.job = q.job /\ p.cl = q.cl
          /\ p.tok = q.tok /\ p.acc = q.acc /\ p.name = q.name
          /\ p.dev = q.dev /\ p.page = q.page /\ p.mut = q.mut
          /\ p.batch = q.batch
    BY <1>6, GotoFacts DEF Serve, SessionInv, Steps
  <2>2. Shape(t, p) /\ Proper(p) /\ InCycle(q) /\ Bound(q)
    BY <1>1, <1>6, <2>1 DEF Shape, Proper, InCycle, Bound, CycleJobs
  <2>3. ~torn => p.page = scope.user
    BY <1>6, <2>1, <2>2, CursorFacts DEF Checked
  <2> QED
    BY <1>1, <1>6, <2>1, <2>2, <2>3, Onward
<1> QED
  BY <1>2, <1>3, <1>4, <1>5, <1>6 DEF Serve

(* The steps of a bound cycle between its requests.                        *)
LEMMA ClaimCursor ==
    ASSUME SessionInv, CursorInv, NEW t \in Threads, Claim(t) \/ Acknowledge(t)
    PROVE  CursorInv'
<1>1. /\ UNCHANGED <<scope, torn, keyring, client>> /\ thr[t].pc \in {"claim", "ack"}
      /\ thr[t].job # "login" /\ Bound(thr[t])
  BY CursorFacts DEF Claim, Acknowledge, shared, ghosts, Proper, Entered, Bound
<1>2. PICK batch \in SUBSET Owners : Set(t, Dispatching(t, batch))
  <2>1. pending \in SUBSET Owners /\ thr[t].batch \in SUBSET Owners
    BY Carried, ThreadFacts DEF SessionInv
  <2> QED
    BY <2>1 DEF Claim, Acknowledge
<1>3. PICK p \in ThreadState :
        /\ p = Dispatching(t, batch) /\ p.pc = "dispatch" /\ p.job = "none"
        /\ p.cl = thr[t].cl /\ p.tok = None /\ p.acc = None /\ Shape(t, p)
  BY DispatchingFacts DEF SessionInv
<1> QED
  BY <1>1, <1>2, <1>3, GoesOnEmpty

LEMMA DispatchCursor ==
    ASSUME SessionInv, CursorInv, NEW t \in Threads, Dispatch(t)
    PROVE  CursorInv'
<1> DEFINE q == thr[t]
<1>1. /\ UNCHANGED <<scope, torn, keyring, client>> /\ q.pc = "dispatch"
      /\ q.job # "login" /\ Bound(q)
  BY CursorFacts DEF Dispatch, shared, store, ghosts, Proper, Entered, Bound
<1>2. CASE q.batch = {}
  <2>1. PICK p \in ThreadState :
          /\ p = AskPage(t) /\ p.pc = "ensure" /\ p.job = "pull" /\ p.cl = thr[t].cl
          /\ p.tok = None /\ p.acc = None /\ Shape(t, p)
    BY AskPageFacts DEF SessionInv
  <2> QED
    BY <1>1, <1>2, <2>1, GoesOnEmpty DEF Dispatch
<1>3. CASE q.batch # {}
  <2>1. PICK m \in q.batch :
          Set(t, [Ask(t, "upload") EXCEPT !.mut = {m}, !.batch = @ \ {m}])
    BY <1>3 DEF Dispatch
  <2>2. PICK r \in ThreadState :
          /\ r = Ask(t, "upload") /\ r.pc = "ensure" /\ r.job = "upload" /\ r.cl = q.cl
          /\ r.tok = None /\ r.acc = None /\ r.batch = q.batch
    BY AskFacts DEF SessionInv, Jobs
  <2>3. PICK p : p = [r EXCEPT !.mut = {m}, !.batch = @ \ {m}]
    OBVIOUS
  <2>4. m \in Owners /\ q.batch \subseteq Owners
    BY <2>1, ThreadFacts DEF SessionInv
  <2>5. /\ p \in ThreadState /\ p.pc = "ensure" /\ p.job = "upload" /\ p.cl = q.cl
        /\ p.tok = None /\ p.acc = None
    BY <2>2, <2>3, <2>4 DEF ThreadState
  <2>6. Shape(t, p)
    BY <2>5 DEF Shape
  <2> QED
    BY <1>1, <2>1, <2>2, <2>3, <2>5, <2>6, GoesOnEmpty
<1> QED
  BY <1>2, <1>3

LEMMA ReadDeviceCursor ==
    ASSUME SessionInv, CursorInv, NEW t \in Threads, ReadDevice(t)
    PROVE  CursorInv'
<1> DEFINE q == thr[t]
<1>1. /\ UNCHANGED <<scope, torn, keyring, client>> /\ q.pc = "device"
      /\ q.job # "login" /\ Bound(q)
  BY CursorFacts DEF ReadDevice, shared, ghosts, Proper, Entered, Bound
<1>2. CASE scope.device # None
  <2>1. Set(t, [Ask(t, "push") EXCEPT !.dev = scope.device])
    BY <1>2 DEF ReadDevice
  <2>2. PICK r \in ThreadState :
          /\ r = Ask(t, "push") /\ r.pc = "ensure" /\ r.job = "push" /\ r.cl = q.cl
          /\ r.tok = None /\ r.acc = None
    BY AskFacts DEF SessionInv, Jobs
  <2>3. PICK p : p = [r EXCEPT !.dev = scope.device]
    OBVIOUS
  <2>4. /\ p \in ThreadState /\ p.pc = "ensure" /\ p.job = "push" /\ p.cl = q.cl
        /\ p.tok = None /\ p.acc = None
    BY <2>2, <2>3, ScopeFacts DEF ThreadState, SessionInv
  <2>5. Shape(t, p)
    BY <2>4 DEF Shape
  <2> QED
    BY <1>1, <2>1, <2>2, <2>3, <2>4, <2>5, GoesOnEmpty
<1>3. CASE scope.device = None
  BY <1>1, <1>3, ErrorKeeps DEF ReadDevice
<1> QED
  BY <1>2, <1>3

LEMMA ApplyPageCursor ==
    ASSUME SessionInv, CursorInv, NEW t \in Threads, ApplyPage(t)
    PROVE  CursorInv'
<1>1. /\ thr[t].pc = "apply" /\ Bound(thr[t]) /\ thr[t].job # "login"
      /\ UNCHANGED <<torn, keyring, client>>
      /\ scope' = [scope EXCEPT !.cursor = thr[t].page]
  BY CursorFacts DEF ApplyPage, shared, ghosts, Proper, Entered, Bound
<1>2. scope'.url = scope.url /\ scope'.user = scope.user /\ scope'.ident = scope.ident
  BY <1>1, ScopeFacts DEF SessionInv
<1>3. CASE Set(t, Idle)
  BY <1>1, <1>2, <1>3, EndsIdle
<1>4. CASE Set(t, AskPage(t))
  <2>1. PICK p \in ThreadState :
          /\ p = AskPage(t) /\ p.pc = "ensure" /\ p.job = "pull" /\ p.cl = thr[t].cl
          /\ p.tok = None /\ p.acc = None /\ Shape(t, p)
    BY AskPageFacts DEF SessionInv
  <2> QED
    BY <1>1, <1>2, <1>4, <2>1, GoesOnEmpty
<1> QED
  BY <1>3, <1>4 DEF ApplyPage

(* What does not depend on the thread, when neither it nor the login moves.*)
LEMMA RestStays ==
    ASSUME SessionInv, CursorInv, ~torn, NEW t \in Threads, NEW p \in ThreadState,
           Set(t, p), client' = client, p.cl = thr[t].cl,
           scope'.url = scope.url, scope'.user = scope.user, scope'.ident = scope.ident,
           thr[t].job # "login", p.job # "login"
    PROVE  /\ \A u \in Threads : Url(u)' = Url(u)
           /\ LoginInv'
           /\ Entered(thr["ui"])' <=> Entered(thr["ui"])
           /\ Entered(thr["ui"]) => thr'["ui"].name = thr["ui"].name
<1>1. thr'[t] = p /\ \A u \in Threads \ {t} : thr'[u] = thr[u]
  BY Moved DEF SessionInv
<1>2. \A u \in Threads : Url(u)' = Url(u)
  BY <1>1 DEF Url
<1>3. CASE t = "ui"
  BY <1>1, <1>2, <1>3 DEF LoginInv, Entered, Threads
<1>4. CASE t # "ui"
  BY <1>1, <1>2, <1>4
     DEF CursorInv, LoginInv, Entered, Threads, ScopeComplete, Established
<1> QED
  BY <1>2, <1>3, <1>4

LEMMA StoreRotatedCursor ==
    ASSUME SessionInv, CursorInv, NEW t \in Threads, StoreRotated(t)
    PROVE  CursorInv'
<1> DEFINE q == thr[t]
<1>1. /\ q.pc = "rotate" /\ q.tok # None /\ q \in ThreadState /\ Proper(q) /\ Shape(t, q)
      /\ q.job \in CycleJobs \cup {"restore"} /\ q.tok[1] \in Accounts /\ Url(t) \in Servers
      /\ keyring' = [keyring EXCEPT ![Url(t)] = q.tok]
      /\ UNCHANGED <<scope, torn, client>>
  BY CursorFacts, KeyFacts
     DEF StoreRotated, store, ghosts, Service, Shape, Proper, ThreadState
<1> PICK a \in Accounts : a = q.tok[1]
  BY <1>1
<1>2. PICK p \in ThreadState :
        /\ Set(t, p) /\ p.cl = q.cl /\ p.tok = None /\ p.page = q.page
        /\ \/ p.pc = "ensure" /\ p.job = "register" /\ q.job = "session" /\ p.acc = None
           \/ p.pc = "restored" /\ p.job = "restore" /\ q.job = "restore" /\ p.acc = a
           \/ p.pc = "call" /\ p.job = q.job /\ q.job # "restore" /\ p.acc = a
  BY RotatedFacts
<1>3. Shape(t, p) /\ Proper(p) /\ p.job # "login" /\ q.job # "login"
  BY <1>1, <1>2 DEF Shape, Proper, CycleJobs
<1>4. CASE torn
  BY <1>1, <1>2, <1>3, <1>4, NamesStay, Torn
<1>5. CASE ~torn
  <2>1. /\ \A u \in Threads : Url(u)' = Url(u)
        /\ LoginInv'
        /\ Entered(thr["ui"])' <=> Entered(thr["ui"])
        /\ Entered(thr["ui"]) => thr'["ui"].name = thr["ui"].name
    BY <1>1, <1>2, <1>3, <1>5, RestStays
  <2>2. Holds(q, a) /\ (InCycle(p) => InCycle(q)) /\ (Bound(p) => Bound(q))
    BY <1>1, <1>2 DEF Holds, InCycle, Bound, CycleJobs
  <2>3. \A s \in Servers : s # Url(t) => keyring'[s] = keyring[s]
    BY <1>1, KeyFacts
  <2>4. keyring'[Url(t)] = q.tok
    BY <1>1, KeyFacts
  <2>5. Agrees(Url(t), a)'
    BY <2>1, <2>4 DEF Agrees
  <2>6. ASSUME NEW u \in Threads \ {t}, Url(u) = Url(t)
        PROVE  /\ \A b \in Accounts : Holds(thr[u], b) => b = a
               /\ Bound(thr[u]) => a = scope.user
    BY <1>1, <1>5, <2>2, <2>6 DEF CursorInv, HandsInv, BoundInv
  <2>7. ASSUME NEW u \in Threads \ {t}, NEW b \in Accounts,
               Holds(thr[u], b) \/ (Bound(thr[u]) /\ b = scope.user), Agrees(Url(u), b)
        PROVE  Agrees(Url(u), b)'
    <3>1. CASE Url(u) = Url(t)
      BY <2>1, <2>5, <2>6, <2>7, <3>1
    <3>2. CASE Url(u) # Url(t)
      <4>1. keyring'[Url(u)] = keyring[Url(u)]
        BY <2>3, <3>2, CursorFacts
      <4> QED
        BY <2>1, <2>7, <4>1 DEF Agrees
    <3> QED
      BY <3>1, <3>2
  <2>8. Checked(t)'
    <3>1. thr'[t] = p
      BY <1>2, Moved DEF SessionInv
    <3>2. Checked(t)
      BY <1>5, CursorFacts
    <3> QED
      BY <1>1, <1>2, <2>1, <2>2, <3>1, <3>2 DEF Checked, ScopeComplete, Established
  <2>9. Bound(q) => a = scope.user /\
          \A u \in Threads : \A b \in Accounts :
            Holds(thr[u], b) /\ Url(u) = Url(t) => b = scope.user
    BY <1>1, <1>5, <2>2 DEF CursorInv, BoundInv
  <2>10. \A b \in Accounts : Holds(p, b) => b = a
    BY <1>1, <1>2, SessionAssumption DEF Holds
  <2>11. \A b \in Accounts : Holds(p, b) =>
           /\ Agrees(Url(t), b)'
           /\ \A u \in Threads \ {t} : Url(u) = Url(t)' =>
                /\ \A c \in Accounts : Holds(thr[u], c) => c = b
                /\ Bound(thr[u]) => b = scope.user
    BY <2>1, <2>5, <2>6, <2>10
  <2>12. Bound(p) =>
           /\ Agrees(Url(t), scope.user)'
           /\ \A b \in Accounts : Holds(p, b) => b = scope.user
           /\ \A u \in Threads \ {t} : \A b \in Accounts :
                Holds(thr[u], b) /\ Url(u) = Url(t)' => b = scope.user
    <3> SUFFICES ASSUME Bound(p)
                 PROVE  /\ Agrees(Url(t), scope.user)'
                        /\ \A b \in Accounts : Holds(p, b) => b = scope.user
                        /\ \A u \in Threads \ {t} : \A b \in Accounts :
                             Holds(thr[u], b) /\ Url(u) = Url(t)' => b = scope.user
      OBVIOUS
    <3>1. scope.user = a /\ scope'.user = a
      BY <1>1, <2>2, <2>9
    <3>2. Agrees(Url(t), scope.user)'
      BY <2>5, <3>1 DEF Agrees
    <3> QED
      BY <2>1, <2>2, <2>9, <2>10, <3>1, <3>2
  <2> HIDE DEF q
  <2> QED
    BY <1>1, <1>2, <1>3, <1>5, <2>1, <2>7, <2>8, <2>11, <2>12, Gains
<1> QED
  BY <1>4, <1>5

LEMMA ReadSecretCursor ==
    ASSUME SessionInv, CursorInv, NEW t \in Threads, ReadSecret(t)
    PROVE  CursorInv'
<1> DEFINE q == thr[t]
           tok == keyring[Url(t)]
<1>1. /\ q.pc = "read" /\ q \in ThreadState /\ Proper(q) /\ Shape(t, q)
      /\ q.job \in CycleJobs \cup {"restore"} /\ q.job # "login"
      /\ q.tok = None /\ q.acc = None /\ Url(t) \in Servers
      /\ UNCHANGED <<scope, torn, client, keyring>>
  BY CursorFacts DEF ReadSecret, shared, ghosts, Shape, Proper, CycleJobs
<1>2. CASE tok = None
  BY <1>1, <1>2, ErrorKeeps DEF ReadSecret, Service, Unserved
<1>3. CASE tok # None
  <2>1. tok \in Tokens /\ tok[1] \in Accounts
    BY <1>1, <1>3, KeyFacts
  <2> PICK a \in Accounts : a = tok[1]
    BY <2>1
  <2>2. PICK p : p = [q EXCEPT !.pc = "refresh", !.tok = tok]
    OBVIOUS
  <2>3. /\ p \in ThreadState /\ p.pc = "refresh" /\ p.job = q.job /\ p.cl = q.cl
        /\ p.tok = tok /\ p.acc = None /\ p.name = q.name /\ p.dev = q.dev
        /\ p.page = q.page
    BY <1>1, <2>1, <2>2 DEF ThreadState, Steps
  <2>4. Set(t, p)
    BY <1>3, <2>2 DEF ReadSecret, Service
  <2>5. Shape(t, p) /\ Proper(p)
    BY <1>1, <1>3, <2>3 DEF Shape, Proper, Entered, CycleJobs
  <2>6. CASE torn
    BY <1>1, <2>3, <2>4, <2>5, <2>6, NamesStay, Torn
  <2>7. CASE ~torn
    <3>1. /\ \A u \in Threads : Url(u)' = Url(u)
          /\ LoginInv'
          /\ Entered(thr["ui"])' <=> Entered(thr["ui"])
          /\ Entered(thr["ui"]) => thr'["ui"].name = thr["ui"].name
      BY <1>1, <2>3, <2>4, <2>7, RestStays
    <3>2. \A u \in Threads : \A b : Agrees(Url(u), b) => Agrees(Url(u), b)'
      BY <1>1, <3>1 DEF Agrees
    <3>3. (InCycle(p) => InCycle(q)) /\ (Bound(p) <=> Bound(q))
      BY <1>1, <2>3 DEF InCycle, Bound
    <3>4. Agrees(Url(t), a)'
      BY <1>1, <3>1 DEF Agrees
    <3>5. ASSUME NEW u \in Threads \ {t}, Url(u) = Url(t)
          PROVE  /\ \A b \in Accounts : Holds(thr[u], b) => b = a
                 /\ Bound(thr[u]) => a = scope.user
      <4>1. CASE Entered(thr["ui"])
        <5>1. u = "ui"
          BY <1>1, <4>1 DEF Entered, Threads
        <5>2. ~InCycle(thr[u]) /\ thr[u].job # "restore" /\ ~Bound(thr[u])
          BY <4>1, <5>1 DEF Entered, InCycle, Bound, CycleJobs
        <5> QED
          BY <5>2 DEF Holds
      <4>2. CASE ~Entered(thr["ui"])
        BY <1>3, <2>7, <3>5, <4>2 DEF CursorInv, HandsInv, BoundInv, Agrees
      <4> QED
        BY <4>1, <4>2
    <3>6. Checked(t)'
      <4>1. thr'[t] = p
        BY <2>3, <2>4, Moved DEF SessionInv
      <4>2. Checked(t)
        BY <2>7, CursorFacts
      <4> QED
        BY <1>1, <2>3, <3>1, <3>3, <4>1, <4>2 DEF Checked, ScopeComplete, Established
    <3>7. ASSUME Bound(q)
          PROVE  a = scope.user
      <4>1. scope.user \in Accounts /\ ScopeComplete
        BY <2>7, <3>7, BoundUser
      <4>2. Agrees(Url(t), scope.user)
        BY <2>7, <3>7 DEF CursorInv, BoundInv
      <4>3. ASSUME Entered(thr["ui"]), a = thr["ui"].name
            PROVE  a = scope.user
        BY <2>1, <2>7, <4>1, <4>3 DEF CursorInv, LoginInv, NamesInv, Entered
      <4> QED
        BY <1>3, <4>2, <4>3 DEF Agrees
    <3>8. \A b \in Accounts : Holds(p, b) => b = a
      BY <2>3, SessionAssumption DEF Holds
    <3>9. \A b \in Accounts : Holds(p, b) =>
            /\ Agrees(Url(t), b)'
            /\ \A u \in Threads \ {t} : Url(u) = Url(t)' =>
                 /\ \A c \in Accounts : Holds(thr[u], c) => c = b
                 /\ Bound(thr[u]) => b = scope.user
      BY <3>1, <3>4, <3>5, <3>8
    <3>10. Bound(p) =>
            /\ Agrees(Url(t), scope.user)'
            /\ \A b \in Accounts : Holds(p, b) => b = scope.user
            /\ \A u \in Threads \ {t} : \A b \in Accounts :
                 Holds(thr[u], b) /\ Url(u) = Url(t)' => b = scope.user
      <4> SUFFICES ASSUME Bound(p)
                   PROVE  /\ Agrees(Url(t), scope.user)'
                          /\ \A b \in Accounts : Holds(p, b) => b = scope.user
                          /\ \A u \in Threads \ {t} : \A b \in Accounts :
                               Holds(thr[u], b) /\ Url(u) = Url(t)' => b = scope.user
        OBVIOUS
      <4>1. a = scope.user /\ scope'.user = a
        BY <1>1, <3>3, <3>7
      <4>2. Agrees(Url(t), scope.user)'
        BY <3>4, <4>1 DEF Agrees
      <4>3. \A u \in Threads : \A b \in Accounts :
              Holds(thr[u], b) /\ Url(u) = Url(t) => b = scope.user
        BY <2>7, <3>3 DEF CursorInv, BoundInv
      <4> QED
        BY <3>1, <3>8, <4>1, <4>2, <4>3
    <3> HIDE DEF q, tok
    <3> QED
      BY <1>1, <2>3, <2>4, <2>5, <2>7, <3>1, <3>2, <3>6, <3>9, <3>10, Gains
  <2> QED
    BY <2>6, <2>7
<1> QED
  BY <1>2, <1>3

(* A cycle is bound to the account it has registered its device for.       *)
LEMMA BecomesBound ==
    ASSUME SessionInv, CursorInv, NEW t \in Threads, NEW p \in ThreadState, Set(t, p),
           UNCHANGED <<torn, keyring, client>>, thr[t].pc \in {"bind", "record"},
           thr[t].job = "register", p.pc = "claim", p.job = "register",
           p.cl = thr[t].cl, p.tok = None, p.acc = thr[t].acc, Shape(t, p), NamesInv',
           ~torn => /\ scope.user = thr[t].acc
                    /\ scope'.url = scope.url /\ scope'.user = scope.user
                    /\ scope'.ident = scope.ident
    PROVE  CursorInv'
<1> DEFINE q == thr[t]
<1>1. Proper(p) /\ InCycle(q) /\ InCycle(p)
  BY DEF Proper, InCycle, CycleJobs
<1>2. CASE torn
  BY <1>1, <1>2, Torn
<1>3. CASE ~torn
  <2> PICK a : a = scope.user
    OBVIOUS
  <2>1. q.acc = a /\ a \in Accounts /\ scope.url # None /\ Holds(q, a)
    BY <1>1, <1>3, HasScope DEF Holds
  <2>2. ScopeComplete /\ scope.url = Url(t)
    BY <1>1, <1>3, <2>1 DEF CursorInv, Checked
  <2>3. /\ \A u \in Threads : Url(u)' = Url(u)
        /\ LoginInv'
        /\ Entered(thr["ui"])' <=> Entered(thr["ui"])
        /\ Entered(thr["ui"]) => thr'["ui"].name = thr["ui"].name
    BY <1>3, RestStays
  <2>4. \A u \in Threads : \A b : Agrees(Url(u), b) => Agrees(Url(u), b)'
    BY <2>3 DEF Agrees
  <2>5. /\ Agrees(Url(t), a)'
        /\ \A u \in Threads : Url(u) = Url(t) =>
             /\ \A b \in Accounts : Holds(thr[u], b) => b = a
             /\ Bound(thr[u]) => a = scope.user
    BY <1>3, <2>1, <2>4 DEF CursorInv, HandsInv, BoundInv
  <2>6. \A b \in Accounts : Holds(p, b) => b = a
    BY <2>1 DEF Holds
  <2>7. Checked(t)'
    <3>1. thr'[t] = p
      BY Moved DEF SessionInv
    <3> QED
      BY <1>3, <2>2, <2>3, <3>1 DEF Checked, ScopeComplete, Established
  <2>8. Agrees(Url(t), scope.user)'
    BY <1>3, <2>5 DEF Agrees
  <2> HIDE DEF q
  <2> QED
    BY <1>1, <1>3, <2>3, <2>4, <2>5, <2>6, <2>7, <2>8, Gains
<1> QED
  BY <1>2, <1>3

LEMMA BindDeviceCursor ==
    ASSUME SessionInv, CursorInv, NEW t \in Threads, BindDevice(t)
    PROVE  CursorInv'
<1> DEFINE q == thr[t]
           name == IF scope.ident = None THEN SyncWorker ELSE scope.ident
<1>1. /\ q.pc = "bind" /\ q.job = "register" /\ q.tok = None /\ q.acc \in Accounts
      /\ q.dev \in Accounts /\ q \in ThreadState /\ Proper(q) /\ Shape(t, q)
      /\ UNCHANGED <<scope, torn, keyring, client>>
  BY CursorFacts DEF BindDevice, shared, store, ghosts, Shape, Proper
<1>2. InCycle(q) /\ (~torn => q.dev = q.acc /\ Checked(t))
  BY <1>1, CursorFacts DEF InCycle, CycleJobs, Checked
<1>3. CASE scope.user \notin {None, q.dev}
  BY <1>1, <1>3, EndsIdle DEF BindDevice
<1>4. CASE scope.user = q.dev /\ Goto(t, "claim")
  <2>1. PICK p \in ThreadState :
          /\ Set(t, p) /\ p.pc = "claim" /\ p.job = q.job /\ p.cl = q.cl
          /\ p.tok = q.tok /\ p.acc = q.acc /\ p.name = q.name
          /\ p.dev = q.dev /\ p.page = q.page /\ p.mut = q.mut
          /\ p.batch = q.batch
    BY <1>4, GotoFacts DEF SessionInv, Steps
  <2>2. Shape(t, p) /\ NamesInv'
    BY <1>1, <2>1, NamesStay DEF Shape
  <2> QED
    BY <1>1, <1>2, <1>4, <2>1, <2>2, BecomesBound
<1>5. CASE /\ scope.user \in {None, q.dev}
           /\ Set(t, [q EXCEPT !.pc = "record", !.name = name])
  <2>1. PICK p : p = [q EXCEPT !.pc = "record", !.name = name]
    OBVIOUS
  <2>2. name \in Names /\ scope.ident \in Names
    BY ScopeFacts DEF SessionInv, Names
  <2>3. name \in {SyncWorker, q.dev}
    BY <1>5, <2>2 DEF CursorInv, NamesInv, Names
  <2>4. ~torn => scope.user = q.dev /\ scope.ident = name
    <3> SUFFICES ASSUME ~torn PROVE scope.user = q.dev /\ scope.ident = name
      OBVIOUS
    <3>1. ScopeComplete
      BY <1>1, <1>2, HasScope DEF Checked
    <3> QED
      BY <1>5, <3>1 DEF ScopeComplete, Established
  <2> HIDE DEF name
  <2>5. /\ p \in ThreadState /\ p.pc = "record" /\ p.job = q.job /\ p.cl = q.cl
        /\ p.tok = q.tok /\ p.acc = q.acc /\ p.dev = q.dev /\ p.page = q.page
        /\ p.name = name
    BY <1>1, <2>1, <2>2 DEF ThreadState, Steps
  <2>6. Shape(t, p) /\ Proper(p) /\ ~Bound(p)
    BY <1>1, <2>3, <2>5 DEF Shape, Proper, Bound
  <2> QED
    BY <1>1, <1>2, <1>5, <2>1, <2>4, <2>5, <2>6, Onward
<1> QED
  BY <1>1, <1>3, <1>4, <1>5 DEF BindDevice

LEMMA RecordDeviceCursor ==
    ASSUME SessionInv, CursorInv, NEW t \in Threads, RecordDevice(t)
    PROVE  CursorInv'
<1> DEFINE q == thr[t]
<1>1. /\ q.pc = "record" /\ q.job = "register" /\ q.tok = None /\ q.acc \in Accounts
      /\ q.dev \in Accounts /\ q \in ThreadState /\ q.name \in {SyncWorker, q.dev}
      /\ Shape(t, q) /\ UNCHANGED <<torn, keyring, client>>
  BY CursorFacts DEF RecordDevice, shared, ghosts, Shape, Proper
<1>2. InCycle(q) /\ (~torn => q.dev = q.acc /\ Checked(t))
  BY <1>1, CursorFacts DEF InCycle, CycleJobs, Checked
<1>3. CASE DeviceAllowed(Url(t), q.dev)
  <2>1. scope' = DeviceScope(Url(t), q.name, q.dev) /\ Goto(t, "claim")
    BY <1>3 DEF RecordDevice
  <2>2. scope'.url = Url(t) /\ scope'.ident = q.name /\ scope'.user = q.dev
    BY <2>1 DEF DeviceScope
  <2>3. PICK p \in ThreadState :
          /\ Set(t, p) /\ p.pc = "claim" /\ p.job = q.job /\ p.cl = q.cl
          /\ p.tok = q.tok /\ p.acc = q.acc /\ p.name = q.name
          /\ p.dev = q.dev /\ p.page = q.page /\ p.mut = q.mut
          /\ p.batch = q.batch
    BY <2>1, GotoFacts DEF SessionInv, Steps
  <2>4. Shape(t, p)
    BY <1>1, <2>3 DEF Shape
  <2>5. NamesInv'
    BY <1>1, <2>2, CursorFacts DEF NamesInv
  <2>6. ~torn => /\ scope.user = q.acc
                 /\ scope'.url = scope.url /\ scope'.user = scope.user
                 /\ scope'.ident = scope.ident
    BY <1>1, <1>2, <2>2, HasScope DEF Checked
  <2> HIDE DEF q
  <2> QED
    BY <1>1, <2>3, <2>4, <2>5, <2>6, BecomesBound DEF q
<1>4. CASE ~DeviceAllowed(Url(t), q.dev)
  BY <1>1, <1>4, EndsIdle DEF RecordDevice
<1> QED
  BY <1>3, <1>4

LEMMA BeginCycleCursor ==
    ASSUME SessionInv, CursorInv, NEW t \in Threads, BeginCycle(t)
    PROVE  CursorInv'
<1>1. /\ thr[t].pc = "idle" /\ ScopeMatches(client[handle].url)
      /\ Set(t, [Idle EXCEPT !.pc = "ensure", !.job = "session", !.cl = handle])
      /\ torn' = (torn /\ \E u \in Threads \ {t} : Busy(u))
      /\ UNCHANGED <<scope, keyring, client>>
  BY DEF BeginCycle, store, shared
<1>2. PICK p : p = [Idle EXCEPT !.pc = "ensure", !.job = "session", !.cl = handle]
  OBVIOUS
<1>3. /\ p \in ThreadState /\ p.pc = "ensure" /\ p.job = "session" /\ p.cl = handle
      /\ p.tok = None /\ p.acc = None
  BY <1>2, IdleFacts, ClientFacts DEF SessionInv, ThreadState, Steps, Jobs
<1>4. /\ Shape(t, p) /\ Proper(p) /\ InCycle(p) /\ ~Bound(p) /\ ~Entered(p)
      /\ \A a \in Accounts : ~Holds(p, a)
  BY <1>3, SessionAssumption DEF Shape, Proper, InCycle, Bound, Entered, Holds, CycleJobs
<1>5. thr'[t] = p /\ \A u \in Threads \ {t} : thr'[u] = thr[u]
  BY <1>1, <1>2, <1>3, Moved DEF SessionInv
<1>6. Url(t)' = client[handle].url /\ \A u \in Threads \ {t} : Url(u)' = Url(u)
  BY <1>1, <1>3, <1>5 DEF Url
<1>7. Checked(t)'
  <2>1. scope.url = None \/ (ScopeComplete /\ scope.url = client[handle].url)
    BY <1>1, ScopeFacts DEF ScopeMatches, SessionInv
  <2> QED
    BY <1>1, <1>3, <1>4, <1>5, <1>6, <2>1 DEF Checked, ScopeComplete, Established
<1>8. CASE torn'
  BY <1>1, <1>2, <1>3, <1>4, <1>8, NamesStay, Torn
<1>9. CASE ~torn
  <2>1. LoginInv'
    <3>1. CASE t = "ui"
      BY <1>3, <1>5, <3>1 DEF LoginInv
    <3>2. CASE t # "ui"
      BY <1>1, <1>5, <1>6, <1>9, <3>2
         DEF CursorInv, LoginInv, Threads, ScopeComplete, Established
    <3> QED
      BY <3>1, <3>2
  <2>2. ~Entered(thr[t])
    BY <1>1 DEF Entered
  <2>3. \A u \in Threads \ {t} : \A a : Agrees(Url(u), a) => Agrees(Url(u), a)'
    BY <1>1, <1>5, <1>6, <2>2 DEF Agrees, Threads
  <2> QED
    BY <1>1, <1>2, <1>3, <1>4, <1>7, <1>9, <2>1, <2>3, Gains
<1>10. CASE torn /\ ~torn'
  <2>1. \A u \in Threads \ {t} : thr[u].pc = "idle"
    BY <1>1, <1>10 DEF Busy
  <2>2. \A u \in Threads \ {t} : thr[u].job = "none" /\ thr[u].tok = None /\ thr[u].acc = None
    BY <2>1, CursorFacts DEF Proper, Shape
  <2>3. \A u \in Threads \ {t} :
          ~InCycle(thr[u]) /\ ~Bound(thr[u]) /\ \A a : ~Holds(thr[u], a)
    BY <2>1, <2>2 DEF InCycle, Bound, Holds, CycleJobs
  <2>4. HandsInv' /\ BoundInv' /\ \A u \in Threads : Checked(u)'
    BY <1>4, <1>5, <1>7, <2>3 DEF HandsInv, BoundInv, Checked
  <2>5. LoginInv'
    BY <1>3, <1>5, <2>2 DEF LoginInv, Threads
  <2>6. NamesInv' /\ \A u \in Threads : Proper(thr'[u])
    BY <1>1, <1>4, <1>5, NamesStay DEF CursorInv
  <2> QED
    BY <2>4, <2>5, <2>6 DEF CursorInv
<1> QED
  BY <1>8, <1>9, <1>10

(* A command that tears the session while no cycle runs meets nobody.      *)
LEMMA Alone ==
    ASSUME SessionInv, CursorInv, NEW p \in ThreadState, Set("ui", p), Proper(p),
           ~InCycle(p), p.job # "restore", NamesInv', Tear,
           ~torn' /\ p.job = "login" =>
             /\ p.pc # "suspend" => Url("ui")' = Host[p.name]
             /\ ScopeComplete' => scope'.ident = p.name
    PROVE  CursorInv'
<1>1. /\ "ui" \in Threads /\ "worker" \in Threads /\ Threads = {"ui", "worker"}
      /\ thr'["ui"] = p /\ thr'["worker"] = thr["worker"]
  BY Moved DEF SessionInv, Threads
<1>2. CASE torn'
  BY <1>1, <1>2, Torn
<1>3. CASE ~torn'
  <2>1. thr["worker"].pc = "idle"
    BY <1>3 DEF Tear, Busy
  <2>2. thr["worker"].job = "none"
    BY <1>1, <2>1, CursorFacts DEF Proper
  <2>3. \A t \in Threads : /\ ~InCycle(thr'[t]) /\ ~Bound(thr'[t])
                           /\ \A a : ~Holds(thr'[t], a)
    BY <1>1, <2>1, <2>2 DEF InCycle, Bound, Holds, CycleJobs
  <2>4. HandsInv' /\ BoundInv' /\ \A t \in Threads : Checked(t)'
    BY <2>3 DEF HandsInv, BoundInv, Checked
  <2>5. LoginInv'
    BY <1>1, <1>3 DEF LoginInv
  <2>6. \A t \in Threads : Proper(thr'[t])
    BY <1>1 DEF CursorInv
  <2> QED
    BY <2>4, <2>5, <2>6 DEF CursorInv
<1> QED
  BY <1>2, <1>3

(* A command that has gone on with its session.                            *)
LEMMA Proceeds ==
    ASSUME SessionInv, CursorInv, NEW p \in ThreadState, Set("ui", p), Shape("ui", p),
           Proper(p), UNCHANGED <<scope, torn, keyring>>,
           client'[thr["worker"].cl].url = client[thr["worker"].cl].url,
           thr["ui"].job \notin CycleJobs \cup {"restore"}, thr["ui"].pc # "suspend",
           p.job = thr["ui"].job, p.name = thr["ui"].name, p.cl = thr["ui"].cl,
           p.pc \notin {"claim", "dispatch", "suspend", "post"},
           client'[p.cl].url = client[p.cl].url
    PROVE  CursorInv'
<1>1. "ui" \in Threads /\ Threads \ {"ui"} = {"worker"}
  BY DEF Threads
<1>2. ~InCycle(p) /\ ~Bound(p) /\ p.job # "restore" /\ \A a : ~Holds(p, a)
  BY DEF InCycle, Bound, Holds, CycleJobs
<1>3. /\ p.job = "login" => Entered(p) /\ thr["ui"].job = "login"
      /\ Entered(thr["ui"]) => Entered(p)
  BY DEF Proper, Entered
<1> QED
  BY <1>1, <1>2, <1>3, Steady

LEMMA LoginCursor ==
    ASSUME SessionInv, CursorInv, NEW a \in Accounts, Login(a)
    PROVE  CursorInv'
<1>1. /\ scope' = LoginScope(Host[a], a) /\ Tear
      /\ Set("ui", [Idle EXCEPT !.pc = "suspend", !.job = "login", !.name = a])
  BY DEF Login
<1>2. PICK p : p = [Idle EXCEPT !.pc = "suspend", !.job = "login", !.name = a]
  OBVIOUS
<1>3. p \in ThreadState /\ p.pc = "suspend" /\ p.job = "login" /\ p.name = a
  BY <1>2, IdleFacts DEF ThreadState, Steps, Jobs, Names
<1>4. Proper(p) /\ ~InCycle(p)
  BY <1>3 DEF Proper, InCycle, CycleJobs
<1>5. NamesInv' /\ (ScopeComplete' => scope'.ident = a)
  <2>1. CASE ScopeComplete /\ scope.url = Host[a] /\ scope.ident = a
    <3>1. scope' = scope
      BY <1>1, <2>1 DEF LoginScope
    <3> QED
      BY <2>1, <3>1, NamesStay
  <2>2. CASE ~(ScopeComplete /\ scope.url = Host[a] /\ scope.ident = a)
    <3>1. scope'.ident = None
      BY <1>1, <2>2 DEF LoginScope, Pending
    <3> QED
      BY <3>1, SessionAssumption DEF NamesInv, ScopeComplete
  <2> QED
    BY <2>1, <2>2
<1> QED
  BY <1>1, <1>2, <1>3, <1>4, <1>5, Alone

LEMMA SuspendCursor ==
    ASSUME SessionInv, CursorInv, Suspend
    PROVE  CursorInv'
<1> DEFINE q == thr["ui"]
           w == thr["worker"]
           u == Host[q.name]
           c == IF client[handle].url = u THEN handle ELSE FreeClient
<1>1. /\ "ui" \in Threads /\ "worker" \in Threads /\ Threads \ {"ui"} = {"worker"}
      /\ q.pc = "suspend" /\ q.job = "login" /\ q.name \in Accounts /\ q.tok = None
      /\ client' = [client EXCEPT ![handle].enabled = FALSE,
                                  ![c] = [url |-> u, enabled |-> FALSE]]
      /\ Set("ui", [q EXCEPT !.pc = "post", !.cl = c])
      /\ UNCHANGED <<scope, keyring, torn>>
  BY CursorFacts DEF Suspend, Shape, Proper, store, ghosts, Threads
<1>2. q \in ThreadState /\ w.cl \in Clients /\ handle \in Clients
  BY <1>1, ThreadFacts, ClientFacts DEF SessionInv
<1>3. c \in Clients /\ u \in Servers /\ (c = w.cl => client[w.cl].url = u)
  BY <1>1, <1>2, FreeClientFacts, SessionAssumption DEF SessionInv
<1> HIDE DEF c
<1>4. client'[c].url = u /\ client'[w.cl].url = client[w.cl].url
  BY <1>1, <1>2, <1>3, ClientFacts DEF SessionInv
<1>5. PICK p : p = [q EXCEPT !.pc = "post", !.cl = c]
  OBVIOUS
<1>6. /\ p \in ThreadState /\ p.pc = "post" /\ p.job = "login" /\ p.cl = c
      /\ p.tok = None /\ p.acc = q.acc /\ p.name = q.name
  BY <1>1, <1>2, <1>3, <1>5 DEF ThreadState, Steps
<1>7. Shape("ui", p) /\ Proper(p)
  BY <1>1, <1>6 DEF Shape, Proper
<1>8. /\ ~InCycle(p) /\ ~Bound(p) /\ ~Entered(p) /\ ~Entered(q)
      /\ \A a : ~Holds(p, a)
  BY <1>1, <1>6 DEF InCycle, Bound, Entered, Holds, CycleJobs
<1> HIDE DEF q, u, w
<1>9. client'[p.cl].url = Host[p.name]
  BY <1>4, <1>6 DEF u
<1> QED
  BY <1>1, <1>4, <1>5, <1>6, <1>7, <1>8, <1>9, Steady DEF q, w

LEMMA AuthenticateCursor ==
    ASSUME SessionInv, CursorInv, Authenticate
    PROVE  CursorInv'
<1> DEFINE q == thr["ui"]
           w == thr["worker"]
           new == Fresh(q.name)
<1>1. /\ "ui" \in Threads /\ "worker" \in Threads /\ Threads \ {"ui"} = {"worker"}
      /\ q.pc = "post" /\ q.job = "login" /\ q.name \in Accounts /\ q.tok = None
      /\ q \in ThreadState /\ Url("ui") \in Servers /\ Host[q.name] = Url("ui")
      /\ UNCHANGED <<scope, client, torn>>
  BY CursorFacts DEF Authenticate, Shape, Proper, store, Threads, SessionInv, HomeInv
<1>2. CASE Set("ui", Idle) /\ keyring' = keyring
  <2>1. PICK p \in ThreadState : p = Idle
    BY IdleFacts
  <2>2. /\ p.pc = "idle" /\ p.job = "none" /\ p.tok = None /\ p.acc = None
        /\ Shape("ui", p) /\ Set("ui", p)
    BY <1>1, <1>2, <2>1, IdleFacts
  <2>3. /\ Proper(p) /\ ~InCycle(p) /\ ~Bound(p) /\ ~Entered(p) /\ ~Entered(q)
        /\ \A a : ~Holds(p, a)
    BY <1>1, <2>2 DEF Proper, InCycle, Bound, Entered, Holds, CycleJobs
  <2> QED
    BY <1>1, <1>2, <2>2, <2>3, Steady
<1>3. CASE /\ keyring' = [keyring EXCEPT ![Service(Url("ui"))] = new]
           /\ Set("ui", [q EXCEPT !.pc = "enroll", !.acc = q.name])
  <2>1. new \in Tokens /\ new[1] = q.name
    BY <1>1, FreshFacts
  <2>2. PICK p : p = [q EXCEPT !.pc = "enroll", !.acc = q.name]
    OBVIOUS
  <2>3. p \in ThreadState
    BY <1>1, <2>2, GoesOnWith DEF Steps, Owners
  <2>4. /\ p.pc = "enroll" /\ p.job = "login" /\ p.cl = q.cl /\ p.tok = None
        /\ p.acc = q.name /\ p.name = q.name
    BY <1>1, <2>2, <2>3 DEF ThreadState
  <2>5. /\ Shape("ui", p) /\ Proper(p) /\ ~InCycle(p) /\ ~Bound(p) /\ Entered(p)
        /\ \A a : ~Holds(p, a)
    BY <1>1, <2>4 DEF Shape, Proper, InCycle, Bound, Entered, Holds, CycleJobs
  <2>6. thr'["ui"] = p /\ thr'["worker"] = w
    BY <1>1, <1>3, <2>2, <2>3, Moved DEF SessionInv
  <2>7. Url("ui")' = Url("ui") /\ Url("worker")' = Url("worker")
    BY <1>1, <2>4, <2>6 DEF Url
  <2>8. CASE torn
    BY <1>1, <1>3, <2>2, <2>3, <2>5, <2>8, NamesStay, Torn
  <2>9. CASE ~torn
    <3>1. LoginInv'
      BY <1>1, <2>4, <2>6, <2>7, <2>9
         DEF CursorInv, LoginInv, ScopeComplete, Established
    <3>2. ASSUME NEW a, Agrees(Url("worker"), a)
          PROVE  Agrees(Url("worker"), a)'
      <4>1. Url("worker") \in Servers /\ ~Entered(q)
        BY <1>1, CursorFacts DEF Entered
      <4>2. CASE Url("worker") = Url("ui")
        <5>1. keyring'[Url("ui")] = new
          BY <1>1, <1>3, KeyFacts DEF Service
        <5> HIDE DEF new
        <5> QED
          BY <2>1, <2>4, <2>5, <2>6, <2>7, <4>2, <5>1 DEF Agrees
      <4>3. CASE Url("worker") # Url("ui")
        <5>1. keyring'[Url("worker")] = keyring[Url("worker")]
          BY <1>1, <1>3, <4>1, <4>3, KeyFacts DEF Service
        <5> QED
          BY <2>7, <3>2, <4>1, <5>1 DEF Agrees
      <4> QED
        BY <4>2, <4>3
    <3>3. Checked("ui")'
      BY <2>5, <2>6 DEF Checked
    <3> QED
      BY <1>1, <1>3, <2>2, <2>3, <2>5, <2>9, <3>1, <3>2, <3>3, Gains
  <2> QED
    BY <2>8, <2>9
<1> QED
  BY <1>2, <1>3 DEF Authenticate

LEMMA EnrollCursor ==
    ASSUME SessionInv, CursorInv, Enroll
    PROVE  CursorInv'
<1> DEFINE q == thr["ui"]
<1>1. /\ "ui" \in Threads /\ "worker" \in Threads /\ q.pc = "enroll" /\ q.job = "login"
      /\ Shape("ui", q) /\ Proper(q) /\ q.cl \in Clients /\ thr["worker"].cl \in Clients
      /\ UNCHANGED <<scope, keyring, torn>>
  BY CursorFacts, ThreadFacts DEF Enroll, Proper, store, Threads, SessionInv
<1>2. \A c \in Clients : client'[c].url = client[c].url
  BY <1>1, ClientFacts DEF Enroll, SessionInv
<1>3. PICK pc \in {"record", "cutoff"} : Goto("ui", pc)
  BY DEF Enroll
<1>4. TypeInv /\ pc \in Steps
  BY <1>3 DEF SessionInv, Steps
<1>5. PICK p \in ThreadState :
        /\ Set("ui", p) /\ p.pc = pc /\ p.job = q.job /\ p.cl = q.cl
        /\ p.tok = q.tok /\ p.acc = q.acc /\ p.name = q.name
        /\ p.dev = q.dev /\ p.page = q.page /\ p.mut = q.mut
        /\ p.batch = q.batch
  BY <1>1, <1>3, <1>4, GotoFacts
<1>6. Shape("ui", p) /\ Proper(p)
  BY <1>1, <1>3, <1>5 DEF Shape, Proper, Entered
<1> QED
  BY <1>1, <1>2, <1>3, <1>5, <1>6, Proceeds DEF CycleJobs

LEMMA RecordLoginCursor ==
    ASSUME SessionInv, CursorInv, RecordLogin
    PROVE  CursorInv'
<1> DEFINE q == thr["ui"]
<1>1. /\ "ui" \in Threads /\ q.pc = "record" /\ q.job = "login" /\ Proper(q)
      /\ q.name \in Accounts /\ q.acc = q.name /\ Tear /\ client' = client
  BY CursorFacts DEF RecordLogin, shared, Proper, Threads
<1>2. ASSUME NEW pc \in {"config", "cutoff"}, Goto("ui", pc), NamesInv',
             ~torn' /\ ScopeComplete' => scope'.ident = q.name
      PROVE  CursorInv'
  <2>1. TypeInv /\ pc \in Steps
    BY <1>2 DEF SessionInv, Steps
  <2>2. PICK p \in ThreadState :
          /\ Set("ui", p) /\ p.pc = pc /\ p.job = q.job /\ p.cl = q.cl
          /\ p.tok = q.tok /\ p.acc = q.acc /\ p.name = q.name
          /\ p.dev = q.dev /\ p.page = q.page /\ p.mut = q.mut
          /\ p.batch = q.batch
    BY <1>1, <1>2, <2>1, GotoFacts
  <2>3. Proper(p) /\ ~InCycle(p) /\ p.job # "restore"
    BY <1>1, <1>2, <2>2 DEF Proper, Entered, InCycle, CycleJobs
  <2>4. thr'["ui"] = p
    BY <1>1, <2>1, <2>2, Moved
  <2>5. ~torn' => Url("ui")' = Host[p.name]
    BY <1>1, <2>2, <2>4 DEF Tear, CursorInv, LoginInv, Url
  <2> QED
    BY <1>1, <1>2, <2>2, <2>3, <2>5, Alone
<1>3. CASE DeviceAllowed(Url("ui"), q.acc)
  <2>1. scope' = DeviceScope(Url("ui"), q.name, q.acc) /\ Goto("ui", "config")
    BY <1>3 DEF RecordLogin
  <2>2. scope'.ident = q.name /\ scope'.user = q.name
    BY <1>1, <2>1 DEF DeviceScope
  <2>3. NamesInv'
    BY <1>1, <2>2, SessionAssumption DEF NamesInv
  <2> QED
    BY <1>2, <2>1, <2>2, <2>3
<1>4. CASE ~DeviceAllowed(Url("ui"), q.acc)
  <2>1. scope' = scope /\ Goto("ui", "cutoff")
    BY <1>4 DEF RecordLogin
  <2>2. NamesInv' /\ (~torn' /\ ScopeComplete' => scope'.ident = q.name)
    BY <1>1, <2>1, NamesStay DEF Tear, CursorInv, LoginInv, ScopeComplete, Established
  <2> QED
    BY <1>2, <2>1, <2>2
<1> QED
  BY <1>3, <1>4

LEMMA ReplaceHandleCursor ==
    ASSUME SessionInv, CursorInv, ReplaceHandle
    PROVE  CursorInv'
<1> DEFINE q == thr["ui"]
<1>1. /\ "ui" \in Threads /\ q.pc = "config" /\ Tear /\ UNCHANGED <<scope, client>>
      /\ NamesInv' /\ q \in ThreadState /\ Proper(q) /\ Shape("ui", q)
  BY CursorFacts, NamesStay DEF ReplaceHandle, store, Threads
<1>2. CASE Set("ui", Idle)
  <2>1. PICK p \in ThreadState : p = Idle
    BY IdleFacts
  <2>2. p.pc = "idle" /\ p.job = "none" /\ Set("ui", p)
    BY <1>2, <2>1, IdleFacts
  <2>3. Proper(p) /\ ~InCycle(p)
    BY <2>1, <2>2, IdleFacts DEF Proper, InCycle, CycleJobs
  <2> QED
    BY <1>1, <2>2, <2>3, Alone
<1>3. CASE q.job = "login" /\ Goto("ui", "cutoff")
  <2>1. TypeInv /\ "cutoff" \in Steps
    BY DEF SessionInv, Steps
  <2>2. PICK p \in ThreadState :
          /\ Set("ui", p) /\ p.pc = "cutoff" /\ p.job = q.job /\ p.cl = q.cl
          /\ p.tok = q.tok /\ p.acc = q.acc /\ p.name = q.name
          /\ p.dev = q.dev /\ p.page = q.page /\ p.mut = q.mut
          /\ p.batch = q.batch
    BY <1>1, <1>3, <2>1, GotoFacts
  <2>3. Proper(p) /\ ~InCycle(p) /\ p.job # "restore"
    BY <1>1, <1>3, <2>2 DEF Proper, Entered, InCycle, CycleJobs
  <2>4. thr'["ui"] = p
    BY <1>1, <2>1, <2>2, Moved
  <2>5. ~torn' => /\ Url("ui")' = Host[p.name]
                  /\ ScopeComplete' => scope'.ident = p.name
    BY <1>1, <1>3, <2>2, <2>4
       DEF Tear, CursorInv, LoginInv, Url, ScopeComplete, Established
  <2> QED
    BY <1>1, <2>2, <2>3, <2>5, Alone
<1> QED
  BY <1>2, <1>3 DEF ReplaceHandle

LEMMA LogoutCursor ==
    ASSUME SessionInv, CursorInv, Logout
    PROVE  CursorInv'
<1>1. /\ scope' = SignedOutScope /\ Tear
      /\ Set("ui", [Idle EXCEPT !.pc = "cutoff", !.job = "logout", !.cl = handle])
  BY DEF Logout
<1>2. PICK p : p = [Idle EXCEPT !.pc = "cutoff", !.job = "logout", !.cl = handle]
  OBVIOUS
<1>3. p \in ThreadState /\ p.pc = "cutoff" /\ p.job = "logout"
  BY <1>2, IdleFacts, ClientFacts DEF SessionInv, ThreadState, Steps, Jobs
<1>4. Proper(p) /\ ~InCycle(p)
  BY <1>3 DEF Proper, InCycle, CycleJobs
<1>5. scope'.ident = None
  BY <1>1 DEF SignedOutScope, Pending
<1>6. NamesInv'
  BY <1>5, SessionAssumption DEF NamesInv
<1> QED
  BY <1>1, <1>2, <1>3, <1>4, <1>6, Alone

LEMMA SetServerUrlCursor ==
    ASSUME SessionInv, CursorInv, NEW u \in Servers, SetServerUrl(u)
    PROVE  CursorInv'
<1>1. /\ scope' = SwitchScope(u) /\ Tear
      /\ Set("ui", [Idle EXCEPT !.pc = "config", !.job = "switch", !.cl = FreeClient])
  BY DEF SetServerUrl
<1>2. PICK p : p = [Idle EXCEPT !.pc = "config", !.job = "switch", !.cl = FreeClient]
  OBVIOUS
<1>3. p \in ThreadState /\ p.pc = "config" /\ p.job = "switch"
  BY <1>2, IdleFacts, FreeClientFacts DEF SessionInv, ThreadState, Steps, Jobs
<1>4. Proper(p) /\ ~InCycle(p)
  BY <1>3 DEF Proper, InCycle, CycleJobs
<1>5. NamesInv'
  <2>1. CASE scope.url = u /\ ScopeComplete
    BY <1>1, <2>1, NamesStay DEF SwitchScope
  <2>2. CASE ~(scope.url = u /\ ScopeComplete)
    <3>1. scope'.ident = None
      BY <1>1, <2>2 DEF SwitchScope, Pending
    <3> QED
      BY <3>1, SessionAssumption DEF NamesInv
  <2> QED
    BY <2>1, <2>2
<1> QED
  BY <1>1, <1>2, <1>3, <1>4, <1>5, Alone

LEMMA CutOffCursor ==
    ASSUME SessionInv, CursorInv, CutOff
    PROVE  CursorInv'
<1> DEFINE q == thr["ui"]
           tok == keyring[Service(Url("ui"))]
           pc == IF tok = None THEN "clear" ELSE "revoke"
<1>1. /\ "ui" \in Threads /\ "worker" \in Threads /\ q.pc = "cutoff" /\ q \in ThreadState
      /\ Shape("ui", q) /\ Proper(q) /\ q.job \notin CycleJobs \cup {"restore"}
      /\ client' = [client EXCEPT ![q.cl].enabled = FALSE]
      /\ Set("ui", [q EXCEPT !.pc = pc, !.tok = tok])
      /\ UNCHANGED <<scope, keyring, torn>>
  BY CursorFacts DEF CutOff, Shape, Proper, store, ghosts, Threads, CycleJobs
<1>2. /\ Url("ui") \in Servers /\ q.cl \in Clients /\ thr["worker"].cl \in Clients
      /\ tok \in Tokens \cup {None} /\ pc \in Steps
  BY <1>1, ThreadFacts, KeyFacts DEF SessionInv, Service, Steps
<1>3. \A c \in Clients : client'[c].url = client[c].url
  BY <1>1, <1>2, ClientFacts DEF SessionInv
<1>4. PICK p : p = [q EXCEPT !.pc = pc, !.tok = tok]
  OBVIOUS
<1>5. p \in ThreadState
  <2>1. None \in Owners
    BY DEF Owners
  <2> QED
    BY <1>1, <1>2, <1>4, <2>1, GoesOnWith
<1>6. /\ p.pc = pc /\ p.tok = tok /\ p.job = q.job /\ p.cl = q.cl /\ p.name = q.name
      /\ p.acc = q.acc /\ p.page = q.page
  BY <1>1, <1>4, <1>5 DEF ThreadState
<1>7. pc \in {"clear", "revoke"} /\ (tok = None <=> pc = "clear")
  OBVIOUS
<1> HIDE DEF tok, pc
<1>8. Shape("ui", p) /\ Proper(p)
  BY <1>1, <1>6, <1>7 DEF Shape, Proper, Entered, CycleJobs
<1> QED
  BY <1>1, <1>2, <1>3, <1>4, <1>5, <1>6, <1>7, <1>8, Proceeds

LEMMA RevokeCursor ==
    ASSUME SessionInv, CursorInv, Revoke
    PROVE  CursorInv'
<1> DEFINE q == thr["ui"]
<1>1. /\ "ui" \in Threads /\ q.pc = "revoke" /\ q \in ThreadState
      /\ Shape("ui", q) /\ Proper(q) /\ q.job \notin CycleJobs \cup {"restore"}
      /\ Set("ui", [q EXCEPT !.pc = "clear", !.tok = None])
      /\ UNCHANGED <<scope, keyring, client, torn>>
  BY CursorFacts DEF Revoke, Shape, Proper, store, ghosts, Threads, CycleJobs
<1>2. PICK p : p = [q EXCEPT !.pc = "clear", !.tok = None]
  OBVIOUS
<1>3. /\ p \in ThreadState /\ p.pc = "clear" /\ p.job = q.job /\ p.cl = q.cl
      /\ p.tok = None /\ p.acc = q.acc /\ p.name = q.name /\ p.page = q.page
  BY <1>1, <1>2 DEF ThreadState, Steps
<1>4. Shape("ui", p) /\ Proper(p)
  BY <1>1, <1>3 DEF Shape, Proper, Entered, CycleJobs
<1> QED
  BY <1>1, <1>2, <1>3, <1>4, Proceeds

LEMMA ClearCredentialsCursor ==
    ASSUME SessionInv, CursorInv, ClearCredentials
    PROVE  CursorInv'
<1> DEFINE q == thr["ui"]
           w == thr["worker"]
<1>1. /\ "ui" \in Threads /\ "worker" \in Threads /\ Threads \ {"ui"} = {"worker"}
      /\ q.pc = "clear" /\ Proper(q) /\ Set("ui", Idle)
      /\ keyring' = [keyring EXCEPT ![Url("ui")] = None]
      /\ UNCHANGED <<scope, client, torn>>
  BY CursorFacts DEF ClearCredentials, Service, store, Threads
<1>2. PICK p \in ThreadState : p = Idle
  BY IdleFacts
<1>3. /\ p.pc = "idle" /\ p.job = "none" /\ p.tok = None /\ p.acc = None
      /\ Shape("ui", p) /\ Set("ui", p)
  BY <1>1, <1>2, IdleFacts
<1>4. /\ Proper(p) /\ ~InCycle(p) /\ ~Bound(p)
      /\ \A a \in Accounts : ~Holds(p, a)
  BY <1>3 DEF Proper, InCycle, Bound, Holds, CycleJobs
<1>5. thr'["ui"] = p /\ thr'["worker"] = w
  BY <1>1, <1>3, Moved DEF SessionInv
<1>6. CASE torn
  BY <1>1, <1>3, <1>4, <1>6, NamesStay, Torn
<1>7. CASE ~torn
  <2>1. LoginInv'
    BY <1>3, <1>5 DEF LoginInv
  <2>2. Url("worker")' = Url("worker") /\ Url("worker") \in Servers /\ Url("ui") \in Servers
    BY <1>1, <1>5, CursorFacts DEF Url
  <2>3. ASSUME NEW a, Agrees(Url("worker"), a)
        PROVE  Agrees(Url("worker"), a)'
    <3>1. CASE Url("worker") = Url("ui")
      <4>1. keyring'[Url("worker")] = None
        BY <1>1, <2>2, <3>1, KeyFacts
      <4> QED
        BY <2>2, <4>1 DEF Agrees
    <3>2. CASE Url("worker") # Url("ui")
      <4>1. keyring'[Url("worker")] = keyring[Url("worker")]
        BY <1>1, <2>2, <3>2, KeyFacts
      <4>2. ~(/\ keyring[Url("worker")] # None /\ Entered(q)
              /\ keyring[Url("worker")][1] = q.name)
        BY <1>1, <1>7, <2>2, <3>2
           DEF Entered, CursorInv, LoginInv, SessionInv, HomeInv
      <4> QED
        BY <2>2, <2>3, <4>1, <4>2 DEF Agrees
    <3> QED
      BY <3>1, <3>2
  <2>4. Checked("ui")'
    BY <1>4, <1>5 DEF Checked
  <2> QED
    BY <1>1, <1>3, <1>4, <1>7, <2>1, <2>3, <2>4, Gains
<1> QED
  BY <1>6, <1>7

LEMMA RestoreCursor ==
    ASSUME SessionInv, CursorInv, RestoreSession
    PROVE  CursorInv'
<1>1. /\ "ui" \in Threads /\ thr["ui"].pc = "idle"
      /\ Set("ui", [Idle EXCEPT !.pc = "ensure", !.job = "restore", !.cl = handle])
      /\ UNCHANGED <<scope, client, keyring, torn>>
  BY DEF RestoreSession, Command, store, shared, ghosts, Threads
<1>2. PICK p : p = [Idle EXCEPT !.pc = "ensure", !.job = "restore", !.cl = handle]
  OBVIOUS
<1>3. /\ p \in ThreadState /\ p.pc = "ensure" /\ p.job = "restore"
      /\ p.tok = None /\ p.acc = None
  BY <1>2, IdleFacts, ClientFacts DEF SessionInv, ThreadState, Steps, Jobs
<1>4. /\ Shape("ui", p) /\ Proper(p) /\ ~InCycle(p) /\ ~Bound(p) /\ ~Entered(p)
      /\ \A a \in Accounts : ~Holds(p, a)
  BY <1>3, SessionAssumption
     DEF Shape, Proper, InCycle, Bound, Entered, Holds, CycleJobs
<1>5. ~Entered(thr["ui"])
  BY <1>1 DEF Entered
<1> QED
  BY <1>1, <1>2, <1>3, <1>4, <1>5, Steady

LEMMA RestoredCursor ==
    ASSUME SessionInv, CursorInv, Restored
    PROVE  CursorInv'
<1>1. "ui" \in Threads /\ thr["ui"].job # "login"
  BY CursorFacts DEF Restored, Proper, Entered, Threads
<1> QED
  BY <1>1, EndsIdle DEF Restored, store, shared, ghosts

LEMMA RestartCursor ==
    ASSUME SessionInv, CursorInv, Restart
    PROVE  CursorInv'
<1>1. \A t \in Threads : thr'[t].pc = "idle" /\ thr'[t].job = "none"
                         /\ thr'[t].tok = None /\ thr'[t].acc = None
  BY IdleFacts DEF Restart
<1>2. \A t \in Threads : ~InCycle(thr'[t]) /\ ~Bound(thr'[t]) /\ Proper(thr'[t])
                         /\ \A a : ~Holds(thr'[t], a)
  BY <1>1 DEF InCycle, Bound, Proper, Holds, CycleJobs
<1>3. HandsInv' /\ BoundInv' /\ \A t \in Threads : Checked(t)'
  BY <1>2 DEF HandsInv, BoundInv, Checked
<1>4. LoginInv' /\ NamesInv'
  BY <1>1, NamesStay DEF LoginInv, Threads, Restart
<1> QED
  BY <1>2, <1>3, <1>4 DEF CursorInv

LEMMA UnmovedCursor ==
    ASSUME CursorInv, UNCHANGED <<scope, client, keyring, torn, thr>>
    PROVE  CursorInv'
<1>1. NamesInv' /\ \A t \in Threads : Proper(thr'[t])
  BY DEF CursorInv, NamesInv
<1>2. ~torn' => LoginInv' /\ \A t \in Threads : Checked(t)'
  BY DEF CursorInv, LoginInv, Checked, ScopeComplete, Established, Url
<1>3. ~torn' => HandsInv' /\ BoundInv'
  BY DEF CursorInv, HandsInv, BoundInv, Agrees, Url
<1> QED
  BY <1>1, <1>2, <1>3 DEF CursorInv

LEMMA CursorStep ==
    ASSUME SessionInv, CursorInv, [Next]_sessionVars
    PROVE  CursorInv'
<1>1. ASSUME NEW t \in Threads, Request(t) \/ Cycle(t) \/ Lose(t)
      PROVE  CursorInv'
  <2>1. CASE Request(t)
    BY <2>1, CheckSwitchCursor, ReadSecretCursor, RefreshCursor, StoreRotatedCursor,
       ServeCursor DEF Request
  <2>2. CASE Cycle(t)
    BY <2>2, BindDeviceCursor, RecordDeviceCursor, ClaimCursor, DispatchCursor,
       ReadDeviceCursor, ApplyPageCursor DEF Cycle
  <2>3. CASE Lose(t)
    BY <2>3, LoseCursor
  <2> QED
    BY <1>1, <2>1, <2>2, <2>3
<1>2. CASE Wake \/ SyncNow
  BY <1>2, BeginCycleCursor DEF Wake, SyncNow, Threads
<1>3. CASE Commanded
  BY <1>3, SuspendCursor, AuthenticateCursor, EnrollCursor, RecordLoginCursor,
     ReplaceHandleCursor, CutOffCursor, RevokeCursor, ClearCredentialsCursor,
     RestoredCursor DEF Commanded
<1>4. CASE \E a \in Accounts : Login(a)
  BY <1>4, LoginCursor
<1>5. CASE Logout \/ RestoreSession \/ Restart
  BY <1>5, LogoutCursor, RestoreCursor, RestartCursor
<1>6. CASE \E u \in Servers : SetServerUrl(u)
  BY <1>6, SetServerUrlCursor
<1>7. CASE Edit
  BY <1>7, UnmovedCursor DEF Edit, shared, ghosts
<1>8. CASE UNCHANGED sessionVars
  BY <1>8, UnmovedCursor DEF sessionVars, store, shared, ghosts
<1> QED
  BY <1>1, <1>2, <1>3, <1>4, <1>5, <1>6, <1>7, <1>8 DEF Next

LEMMA CursorStart == Init => CursorInv
<1> SUFFICES ASSUME Init PROVE CursorInv
  OBVIOUS
<1>1. \A t \in Threads : thr[t].pc = "idle" /\ thr[t].job = "none"
                         /\ thr[t].tok = None /\ thr[t].acc = None
  BY IdleFacts DEF Init
<1>2. \A t \in Threads : ~InCycle(thr[t]) /\ ~Bound(thr[t]) /\ Proper(thr[t])
                         /\ \A a : ~Holds(thr[t], a)
  BY <1>1 DEF InCycle, Bound, Proper, Holds, CycleJobs
<1>3. HandsInv /\ BoundInv /\ \A t \in Threads : Checked(t)
  BY <1>2 DEF HandsInv, BoundInv, Checked
<1>4. LoginInv /\ NamesInv
  BY <1>1, SessionAssumption DEF Init, LoginInv, NamesInv, Threads
<1> QED
  BY <1>2, <1>3, <1>4 DEF CursorInv

(* What each step does to the cursor: a page of the bound account moves    *)
(* it, or it stays, or it is forgotten with the scope that it belonged to. *)
LEMMA CursorMoves ==
    ASSUME SessionInv, CursorInv, [Next]_sessionVars
    PROVE  scope'.cursor \in {scope.cursor, None, scope'.user} \/ torn'
<1>1. ASSUME NEW t \in Threads, ApplyPage(t)
      PROVE  scope'.cursor = scope'.user \/ torn'
  <2>1. /\ thr[t].pc = "apply" /\ scope' = [scope EXCEPT !.cursor = thr[t].page]
        /\ torn' = torn /\ Proper(thr[t])
    BY <1>1, CursorFacts DEF ApplyPage, ghosts
  <2>2. scope'.cursor = thr[t].page /\ scope'.user = scope.user
    BY <2>1, ScopeFacts DEF SessionInv
  <2>3. InCycle(thr[t])
    BY <2>1 DEF Proper, Bound, InCycle, CycleJobs
  <2> QED
    BY <2>1, <2>2, <2>3, CursorFacts DEF Checked
<1>2. \A u, name, user : scope' = DeviceScope(u, name, user) =>
        scope'.cursor \in {scope.cursor, None}
  BY DEF DeviceScope
<1>3. \A u, user : scope' = Pending(u, user) => scope'.cursor = None
  BY DEF Pending
<1>4. ASSUME NEW t \in Threads, Request(t) \/ Cycle(t) \/ Lose(t)
      PROVE  scope'.cursor \in {scope.cursor, None, scope'.user} \/ torn'
  <2>1. CASE Request(t) \/ Lose(t)
    <3>1. scope' = scope
      BY <2>1 DEF Request, Lose, CheckSwitch, ReadSecret, Refresh, StoreRotated, Serve, store
    <3> QED
      BY <3>1
  <2>2. CASE RecordDevice(t)
    BY <1>2, <2>2 DEF RecordDevice
  <2>3. CASE ApplyPage(t)
    BY <1>1, <2>3
  <2>4. CASE BindDevice(t) \/ Claim(t) \/ Dispatch(t) \/ ReadDevice(t) \/ Acknowledge(t)
    <3>1. scope' = scope
      BY <2>4 DEF BindDevice, Claim, Dispatch, ReadDevice, Acknowledge, store
    <3> QED
      BY <3>1
  <2> QED
    BY <1>4, <2>1, <2>2, <2>3, <2>4 DEF Cycle
<1>5. CASE RecordLogin
  BY <1>2, <1>5 DEF RecordLogin
<1>6. CASE \E a \in Accounts : Login(a)
  BY <1>3, <1>6 DEF Login, LoginScope
<1>7. CASE Logout
  BY <1>3, <1>7 DEF Logout, SignedOutScope
<1>8. CASE \E u \in Servers : SetServerUrl(u)
  BY <1>3, <1>8 DEF SetServerUrl, SwitchScope
<1>9. CASE \/ Suspend \/ Authenticate \/ Enroll \/ ReplaceHandle \/ CutOff \/ Revoke
           \/ ClearCredentials \/ Restored
  <2>1. scope' = scope
    BY <1>9 DEF Suspend, Authenticate, Enroll, ReplaceHandle, CutOff, Revoke,
                ClearCredentials, Restored, store
  <2> QED
    BY <2>1
<1>10. CASE Wake \/ SyncNow \/ RestoreSession \/ Edit \/ Restart \/ UNCHANGED sessionVars
  <2>1. scope' = scope
    BY <1>10 DEF Wake, SyncNow, BeginCycle, RestoreSession, Edit, Restart, sessionVars, store
  <2> QED
    BY <2>1
<1> QED
  BY <1>4, <1>5, <1>6, <1>7, <1>8, <1>9, <1>10 DEF Next, Commanded

(* Only a page of the account that the scope is bound to moves the cursor, *)
(* unless a command changed the session under the cycle: the token in the  *)
(* keyring, those in the threads' hands and the scope agree on the account *)
(* from the comparison in bind_device to the commit of the page.           *)
THEOREM CursorOwn == Spec => CursorIsOwn
<1>1. SessionInv /\ CursorInv /\ [Next]_sessionVars => CursorInv'
  BY CursorStep
<1>2. SessionInv /\ CursorInv /\ [Next]_sessionVars =>
        [scope'.cursor # scope.cursor =>
           scope'.cursor \in {None, scope'.user} \/ torn']_sessionVars
  BY CursorMoves
<1> QED
  BY <1>1, <1>2, CursorStart, SessionInvariant, PTL DEF Spec, CursorIsOwn

=============================================================================
