------------------------------ MODULE Session -------------------------------
(***************************************************************************)
(* Signing in and out on the desktop: the durable server scope of the      *)
(* LocalStore, the refresh tokens in the OS keyring and at the servers,    *)
(* the replaceable SyncClient with its kill switch, and the two threads    *)
(* that use them.  The background worker takes no lock; the commands run   *)
(* one at a time on the main thread ("ui").                                *)
(*                                                                         *)
(* Every SQLite transaction, keyring access and HTTP exchange is a step.   *)
(* A user id, a login name, a device id and a cursor are named by the      *)
(* account they belong to; local rows by the account they were made under. *)
(***************************************************************************)
EXTENDS Integers, FiniteSets

CONSTANTS
    Servers,      \* server addresses, distinct in lower case (see Service)
    Accounts,     \* user accounts
    Host,         \* the server of each account
    DefaultServer,
    None,
    Commands,     \* the user's commands in play
    MaxCommands,  \* bound: commands given
    MaxFaults     \* bound: lost requests or responses, crashes

Threads == {"worker", "ui"}
Clients == 1 .. 3          \* SyncClient objects: at most three are reachable
Tokens == Accounts \X (1 .. 4)
SyncWorker == "sync-worker"  \* the login name the worker makes up
Names == Accounts \cup {SyncWorker, None}
Owners == Accounts \cup {None}
Jobs == {"session", "register", "upload", "push", "pull", "blob",
         "restore", "login", "logout", "switch", "none"}
Steps == {"idle", "ensure", "read", "refresh", "rotate", "call", "bind", "record",
          "claim", "dispatch", "device", "ack", "apply", "suspend", "post",
          "enroll", "config", "cutoff", "revoke", "clear", "restored"}

ASSUME SessionAssumption ==
    /\ Host \in [Accounts -> Servers]
    /\ DefaultServer \in Servers
    /\ None \notin Servers \cup Accounts \cup Tokens
    /\ SyncWorker \notin Accounts \cup {None}
    /\ MaxCommands \in Nat /\ MaxFaults \in Nat

VARIABLES
    scope,     \* local_sync_state: server, login name, user, device, cursor
    mirror,    \* owners of the local skills that were pulled
    work,      \* owners of the local mutations, which are never deleted
    pending,   \* owners of a mutation that can be claimed
    flying,    \* owners of a mutation that is in_flight
    keyring,   \* the refresh token in each credential namespace
    live,      \* tokens whose server session is not revoked
    client,    \* the SyncClient objects
    handle,    \* the one in the SyncClientHandle
    config,    \* server.json
    thr,       \* what each thread is doing
    given,     \* commands given so far (model bound)
    faults,    \* faults so far (model bound)
    released,  \* history: rows lost their account (logout, pending switch)
    torn,      \* history: a command changed the session during a cycle
    late,      \* history: this cycle's requests since its client was disabled
    out,       \* history: servers logged out of, by the command
    raced      \* history: ... while the worker was in a cycle

store == <<scope, mirror, work, pending, flying>>
shared == <<keyring, live, client, handle, config>>
ghosts == <<released, torn, late, out, raced>>
sessionVars == <<store, shared, thr, given, faults, ghosts>>

Idle == [pc |-> "idle", job |-> "none", cl |-> 1, tok |-> None, acc |-> None,
         name |-> None, dev |-> None, page |-> None, mut |-> {}, batch |-> {}]

Busy(t) == thr[t].pc # "idle"
Url(t) == client[thr[t].cl].url

(* Mutant: all servers share the default service.                          *)
OneService(u) == CHOOSE s \in Servers : TRUE

(* service_for_server: a credential namespace for each address.  It is a   *)
(* hash of the address in lower case, path included.                       *)
Service(u) == u

Init ==
    /\ scope = [url |-> None, ident |-> None, user |-> None, device |-> None,
                cursor |-> None]
    /\ mirror = {} /\ work = {} /\ pending = {} /\ flying = {}
    /\ keyring = [s \in Servers |-> None]
    /\ live = {}
    /\ config = DefaultServer
    /\ client = [c \in Clients |-> [url |-> config, enabled |-> TRUE]]
    /\ handle = 1
    /\ thr = [t \in Threads |-> Idle]
    /\ given = 0 /\ faults = 0
    /\ released = FALSE /\ torn = FALSE /\ late = 0
    /\ out = {} /\ raced = {}

-----------------------------------------------------------------------------
(* The durable scope (local_store/sync_state.rs), one transaction each.    *)

HasRows == mirror \cup work # {}
Established == scope.url # None /\ scope.user # None
ScopeComplete == Established /\ scope.ident # None

Pending(u, user) ==
    [url |-> u, ident |-> None, user |-> user, device |-> None,
     cursor |-> None]

(* prepare_login_scope; the result is scope itself when nothing changes.   *)
LoginAllowed(u) == ~(HasRows /\ Established /\ scope.url # u)
LoginScope(u, name) ==
    IF ScopeComplete /\ scope.url = u /\ scope.ident = name
    THEN scope
    ELSE Pending(u, IF scope.url = u THEN scope.user ELSE None)

(* Mutant: the authenticated user is not compared with the scope.          *)
AnyDeviceAllowed(u, user) == scope.url \in {None, u}

(* record_authenticated_device.                                            *)
DeviceAllowed(u, user) ==
    /\ scope.url \in {None, u}
    /\ HasRows /\ Established => scope.user = user
DeviceScope(u, name, user) ==
    [url |-> u, ident |-> name, user |-> user, device |-> user,
     cursor |-> IF ScopeComplete THEN scope.cursor ELSE None]

(* assert_server_scope.                                                    *)
ScopeMatches(u) ==
    /\ scope.url \in {None, u}
    /\ (\E f \in DOMAIN scope \ {"device"} : scope[f] # None) => ScopeComplete
    /\ HasRows => Established

(* prepare_server_switch.                                                  *)
SwitchAllowed(u) == ~(HasRows /\ Established /\ scope.url # u)
SwitchScope(u) ==
    IF scope.url = u /\ ScopeComplete THEN scope ELSE Pending(u, None)

(* invalidate_authenticated_scope.                                         *)
SignedOutScope == Pending(scope.url, None)

-----------------------------------------------------------------------------
(* Tokens and clients.                                                     *)

InKeyring(except) == {keyring[s] : s \in Servers \ except}
InHand == {thr[t].tok : t \in Threads}

(* A token of the account that nothing on the desktop refers to.           *)
Fresh(a) == <<a, CHOOSE n \in 1 .. 4 : <<a, n>> \notin InKeyring({}) \cup InHand>>

(* Sessions whose token the desktop has dropped make no difference.        *)
LiveWithout(u) == live \cap (InKeyring({Service(u)}) \cup InHand)

(* The server at u takes the token: it issued it and has not revoked it.   *)
Accepts(u, tok) == tok \in live /\ Host[tok[1]] = u

FreeClient == CHOOSE c \in Clients : c \notin {handle, thr["worker"].cl}

Set(t, record) == thr' = [thr EXCEPT ![t] = record]
Goto(t, pc) == thr' = [thr EXCEPT ![t].pc = pc]

(* A command that changes the session while the worker is in a cycle.      *)
Tear == torn' = (torn \/ Busy("worker"))

(* The next request of a cycle, from its check of the kill switch.         *)
Ask(t, job) ==
    [thr[t] EXCEPT !.pc = "ensure", !.job = job, !.tok = None, !.acc = None]
AskPage(t) == [Idle EXCEPT !.pc = "ensure", !.job = "pull", !.cl = thr[t].cl]

Fault == faults < MaxFaults /\ faults' = faults + 1

-----------------------------------------------------------------------------
(* One authenticated request: check the kill switch, read the keyring,     *)
(* rotate the refresh token, keep the new one, make the call.              *)

(* Where the error of a request leaves its cycle, and its mutation: a      *)
(* retryable_error may be claimed again, a permanent_error may not, and    *)
(* without an outcome it is in_flight until the next start.  In each case  *)
(* the rest of the batch is released and the cycle goes on to the pull.    *)
AfterError(t, fate) ==
    LET p == thr[t]
        back == p.batch \cup IF fate = "retryable_error" THEN p.mut ELSE {}
        done == back \cup IF fate = "permanent_error" THEN p.mut ELSE {}
    IN  IF p.job \in {"upload", "push"}
        THEN /\ pending' = pending \cup back
             /\ flying' = flying \ done
             /\ Set(t, AskPage(t))
        ELSE /\ Set(t, Idle)
             /\ UNCHANGED <<pending, flying>>

(* No session, or no access token: any failure of an upload is retried, a  *)
(* push has no outcome.                                                    *)
Unserved(t) ==
    AfterError(t, IF thr[t].job = "upload" THEN "retryable_error" ELSE "in_flight")

(* Mutant: the kill switch is not looked at.                               *)
SkipSwitch(t) ==
    /\ thr[t].pc = "ensure"
    /\ Goto(t, "read")
    /\ UNCHANGED <<store, shared, given, faults, ghosts>>

(* ensure_local_session_enabled.                                           *)
CheckSwitch(t) ==
    /\ thr[t].pc = "ensure"
    /\ IF client[thr[t].cl].enabled
       THEN Goto(t, "read") /\ UNCHANGED <<pending, flying>>
       ELSE Unserved(t)
    /\ UNCHANGED <<scope, mirror, work, shared, given, faults, ghosts>>

(* refresh_session: get_secret.                                            *)
ReadSecret(t) ==
    LET tok == keyring[Service(Url(t))] IN
    /\ thr[t].pc = "read"
    /\ IF tok # None
       THEN /\ Set(t, [thr[t] EXCEPT !.pc = "refresh", !.tok = tok])
            /\ UNCHANGED <<pending, flying>>
       ELSE Unserved(t)
    /\ UNCHANGED <<scope, mirror, work, shared, given, faults, ghosts>>

CountLate(t) ==
    late' = IF t = "ui" THEN late
            ELSE IF client[thr[t].cl].enabled THEN 0 ELSE late + 1

(* POST /auth/refresh: the old session is revoked and a new one issued, or *)
(* a revoked token is refused.                                             *)
Refresh(t) ==
    LET tok == thr[t].tok
        new == Fresh(tok[1])
    IN  /\ thr[t].pc = "refresh"
        /\ IF Accepts(Url(t), tok)
           THEN /\ live' = (live \ {tok}) \cup {new}
                /\ Set(t, [thr[t] EXCEPT !.pc = "rotate", !.tok = new])
                /\ UNCHANGED <<pending, flying>>
           ELSE Unserved(t) /\ UNCHANGED live
        /\ CountLate(t)
        /\ UNCHANGED <<scope, mirror, work, keyring, client, handle, config,
                       given, faults, released, torn, out, raced>>

(* Mutant: the rotated token is not persisted.                             *)
DropRotated(t) ==
    LET p == [thr[t] EXCEPT !.tok = None, !.acc = thr[t].tok[1]] IN
    /\ thr[t].pc = "rotate"
    /\ Set(t, CASE p.job = "session" -> Ask(t, "register")
                 [] p.job = "restore" -> [p EXCEPT !.pc = "restored"]
                 [] OTHER -> [p EXCEPT !.pc = "call"])
    /\ UNCHANGED <<store, shared, given, faults, ghosts>>

(* store_refresh of the rotated token.  The cycle's first refresh is only  *)
(* a check, and register_device asks for a token again; the WebView gets   *)
(* the access token; every other request goes on to its call.              *)
StoreRotated(t) ==
    LET p == [thr[t] EXCEPT !.tok = None, !.acc = thr[t].tok[1]] IN
    /\ thr[t].pc = "rotate"
    /\ keyring' = [keyring EXCEPT ![Service(Url(t))] = thr[t].tok]
    /\ Set(t, CASE p.job = "session" -> Ask(t, "register")
                 [] p.job = "restore" -> [p EXCEPT !.pc = "restored"]
                 [] OTHER -> [p EXCEPT !.pc = "call"])
    /\ UNCHANGED <<store, live, client, handle, config, given, faults, ghosts>>

(* The call is served.  A push names the device read before its token was  *)
(* fetched; validate_active_device answers another account's device with a *)
(* 404, which is a Request error, so the mutation is rejected for good.    *)
Serve(t) ==
    LET p == thr[t] IN
    /\ p.pc = "call"
    /\ CountLate(t)
    /\ \/ /\ p.job = "register"
          /\ Set(t, [p EXCEPT !.pc = "bind", !.dev = p.acc])
          /\ UNCHANGED <<pending, flying>>
       \/ /\ p.job = "upload"
          /\ Set(t, [p EXCEPT !.pc = "device", !.acc = None])
          /\ UNCHANGED <<pending, flying>>
       \/ /\ p.job = "push"
          /\ IF p.dev = p.acc
             THEN Goto(t, "ack") /\ UNCHANGED <<pending, flying>>
             ELSE AfterError(t, "permanent_error")
       \/ /\ p.job = "pull"
          /\ \/ Set(t, [p EXCEPT !.pc = "apply", !.page = p.acc])
             \/ Set(t, [Ask(t, "blob") EXCEPT !.page = p.acc])
          /\ UNCHANGED <<pending, flying>>
       \/ /\ p.job = "blob"
          /\ Goto(t, "apply")
          /\ UNCHANGED <<pending, flying>>
    /\ UNCHANGED <<scope, mirror, work, shared, given, faults, released, torn,
                   out, raced>>

(* A request, or the response to it, is lost; a lost response to a refresh *)
(* leaves the desktop with a revoked token.                                *)
Lose(t) ==
    /\ thr[t].pc \in {"refresh", "call"}
    /\ Fault
    /\ \/ UNCHANGED live
       \/ thr[t].pc = "refresh" /\ live' = live \ {thr[t].tok}
    /\ AfterError(t, "retryable_error")
    /\ CountLate(t)
    /\ UNCHANGED <<scope, mirror, work, keyring, client, handle, config, given,
                   released, torn, out, raced>>

-----------------------------------------------------------------------------
(* SyncEngine::run_cycle, by the worker or by sync_now.                    *)

Command(c) ==
    /\ thr["ui"].pc = "idle"
    /\ c \in Commands
    /\ given < MaxCommands
    /\ given' = given + 1

(* The client is resolved, and the scope must match its address.           *)
BeginCycle(t) ==
    /\ thr[t].pc = "idle"
    /\ ScopeMatches(client[handle].url)
    /\ Set(t, [Idle EXCEPT !.pc = "ensure", !.job = "session", !.cl = handle])
    /\ torn' = (torn /\ \E other \in Threads \ {t} : Busy(other))
    /\ late' = IF t = "ui" THEN late ELSE 0
    /\ UNCHANGED <<store, shared, faults, released, out, raced>>

SyncNow == Command("sync") /\ BeginCycle("ui")
Wake == BeginCycle("worker") /\ UNCHANGED given

(* Mutant: the device is bound whoever the user is.                        *)
BindAnyUser(t) ==
    /\ thr[t].pc = "bind"
    /\ Goto(t, "claim")
    /\ UNCHANGED <<store, shared, given, faults, ghosts>>

(* The scope is read again: another user ends the cycle, a difference in   *)
(* anything else is recorded by a transaction of its own.                  *)
BindDevice(t) ==
    LET p == thr[t] IN
    /\ p.pc = "bind"
    /\ CASE scope.user \notin {None, p.dev} -> Set(t, Idle)
         [] /\ scope.user = p.dev /\ scope.device = p.dev
            /\ scope.url = Url(t) -> Goto(t, "claim")
         [] OTHER ->
              Set(t, [p EXCEPT !.pc = "record",
                               !.name = IF scope.ident = None THEN SyncWorker
                                        ELSE scope.ident])
    /\ UNCHANGED <<store, shared, given, faults, ghosts>>

RecordDevice(t) ==
    LET p == thr[t] IN
    /\ p.pc = "record" /\ p.job = "register"
    /\ IF DeviceAllowed(Url(t), p.dev)
       THEN /\ scope' = DeviceScope(Url(t), p.name, p.dev)
            /\ Goto(t, "claim")
       ELSE Set(t, Idle) /\ UNCHANGED scope
    /\ UNCHANGED <<mirror, work, pending, flying, shared, given, faults, ghosts>>

Dispatching(t, batch) ==
    [Idle EXCEPT !.pc = "dispatch", !.cl = thr[t].cl, !.batch = batch]

(* Mutant: the claim does not change the status.                           *)
ClaimOnly(t) ==
    /\ thr[t].pc = "claim"
    /\ flying' = flying \cup pending
    /\ Set(t, Dispatching(t, pending))
    /\ UNCHANGED <<scope, mirror, work, pending, shared, given, faults, ghosts>>

(* claim_dispatchable_mutations.                                           *)
Claim(t) ==
    /\ thr[t].pc = "claim"
    /\ pending' = {}
    /\ flying' = flying \cup pending
    /\ Set(t, Dispatching(t, pending))
    /\ UNCHANGED <<scope, mirror, work, shared, given, faults, ghosts>>

(* dispatch_mutation: the package closure first.                           *)
Dispatch(t) ==
    /\ thr[t].pc = "dispatch"
    /\ IF thr[t].batch = {}
       THEN Set(t, AskPage(t))
       ELSE \E m \in thr[t].batch :
              Set(t, [Ask(t, "upload") EXCEPT !.mut = {m}, !.batch = @ \ {m}])
    /\ UNCHANGED <<store, shared, given, faults, ghosts>>

(* device_id_for; without a device the mutation stays in_flight.           *)
ReadDevice(t) ==
    /\ thr[t].pc = "device"
    /\ IF scope.device # None
       THEN /\ Set(t, [Ask(t, "push") EXCEPT !.dev = scope.device])
            /\ UNCHANGED <<pending, flying>>
       ELSE AfterError(t, "in_flight")
    /\ UNCHANGED <<scope, mirror, work, shared, given, faults, ghosts>>

(* apply_mutation_outcome for an accepted mutation.                        *)
Acknowledge(t) ==
    /\ thr[t].pc = "ack"
    /\ flying' = flying \ thr[t].mut
    /\ Set(t, Dispatching(t, thr[t].batch))
    /\ UNCHANGED <<scope, mirror, work, pending, shared, given, faults, ghosts>>

(* apply_changes_page commits the page's rows with its cursor, whatever    *)
(* the scope is by then.  More pages may follow.                           *)
ApplyPage(t) ==
    LET a == thr[t].page IN
    /\ thr[t].pc = "apply"
    /\ mirror' \in {mirror, mirror \cup {a}, mirror \ {a}}
    /\ scope' = [scope EXCEPT !.cursor = a]
    /\ \/ Set(t, Idle)
       \/ Set(t, AskPage(t))
    /\ UNCHANGED <<work, pending, flying, shared, given, faults, ghosts>>

-----------------------------------------------------------------------------
(* desktop_login.                                                          *)

Login(a) ==
    LET u == Host[a] IN
    /\ Command("login")
    /\ LoginAllowed(u)
    /\ scope' = LoginScope(u, a)
    /\ Set("ui", [Idle EXCEPT !.pc = "suspend", !.job = "login", !.name = a])
    /\ Tear
    /\ UNCHANGED <<mirror, work, pending, flying, shared, faults, released, late, out, raced>>

(* suspend_local_session of the current client, a new client if the        *)
(* address differs, and the flag again, by SyncClient::login.              *)
Suspend ==
    LET u == Host[thr["ui"].name]
        c == IF client[handle].url = u THEN handle ELSE FreeClient
    IN  /\ thr["ui"].pc = "suspend"
        /\ client' = [client EXCEPT ![handle].enabled = FALSE,
                                    ![c] = [url |-> u, enabled |-> FALSE]]
        /\ Set("ui", [thr["ui"] EXCEPT !.pc = "post", !.cl = c])
        /\ UNCHANGED <<store, keyring, live, handle, config, given, faults,
                       ghosts>>

(* POST /auth/login, which may refuse, and store_refresh.                  *)
Authenticate ==
    LET p == thr["ui"]
        u == Url("ui")
        new == Fresh(p.name)
    IN  /\ p.pc = "post"
        /\ \/ /\ live' = LiveWithout(u) \cup {new}
              /\ keyring' = [keyring EXCEPT ![Service(u)] = new]
              /\ Set("ui", [p EXCEPT !.pc = "enroll", !.acc = p.name])
              /\ out' = out \ {u} /\ raced' = raced \ {u}
           \/ Set("ui", Idle) /\ UNCHANGED <<live, keyring, out, raced>>
        /\ UNCHANGED <<store, client, handle, config, given, faults, released,
                       torn, late>>

(* Device registration; the flag is set before the scope is recorded.  A   *)
(* failure logs the new session out.                                       *)
Enroll ==
    LET p == thr["ui"] IN
    /\ p.pc = "enroll"
    /\ \/ /\ client' = [client EXCEPT ![p.cl].enabled = TRUE]
          /\ Goto("ui", "record")
          /\ late' = 0
       \/ Goto("ui", "cutoff") /\ UNCHANGED <<client, late>>
    /\ UNCHANGED <<store, keyring, live, handle, config, given, faults,
                   released, torn, out, raced>>

RecordLogin ==
    LET p == thr["ui"] IN
    /\ p.pc = "record" /\ p.job = "login"
    /\ IF DeviceAllowed(Url("ui"), p.acc)
       THEN /\ scope' = DeviceScope(Url("ui"), p.name, p.acc)
            /\ Goto("ui", "config")
       ELSE Goto("ui", "cutoff") /\ UNCHANGED scope
    /\ Tear
    /\ UNCHANGED <<mirror, work, pending, flying, shared, given, faults,
                   released, late, out, raced>>

(* server_config::store, which may fail; the new client becomes current.   *)
ReplaceHandle ==
    LET p == thr["ui"] IN
    /\ p.pc = "config"
    /\ \/ /\ config' = Url("ui")
          /\ handle' = p.cl
          /\ Set("ui", Idle)
       \/ /\ IF p.job = "login" THEN Goto("ui", "cutoff") ELSE Set("ui", Idle)
          /\ UNCHANGED <<config, handle>>
    /\ Tear
    /\ UNCHANGED <<store, keyring, live, client, given, faults, released, late,
                   out, raced>>

-----------------------------------------------------------------------------
(* desktop_logout and SyncClient::logout.                                  *)

Logout ==
    /\ Command("logout")
    /\ scope' = SignedOutScope
    /\ Set("ui", [Idle EXCEPT !.pc = "cutoff", !.job = "logout", !.cl = handle])
    /\ released' = (released \/ HasRows)
    /\ raced' = IF Busy("worker") THEN raced \cup {client[handle].url} ELSE raced
    /\ Tear
    /\ UNCHANGED <<mirror, work, pending, flying, shared, faults, late, out>>

(* The flag, then the token, if there is one.                              *)
CutOff ==
    LET p == thr["ui"]
        tok == keyring[Service(Url("ui"))]
    IN  /\ p.pc = "cutoff"
        /\ client' = [client EXCEPT ![p.cl].enabled = FALSE]
        /\ Set("ui", [p EXCEPT !.pc = IF tok = None THEN "clear" ELSE "revoke",
                               !.tok = tok])
        /\ UNCHANGED <<store, keyring, live, handle, config, given, faults,
                       ghosts>>

(* POST /auth/logout, best effort.                                         *)
Revoke ==
    LET p == thr["ui"] IN
    /\ p.pc = "revoke"
    /\ live' \in {live, live \ {p.tok}}
    /\ Set("ui", [p EXCEPT !.pc = "clear", !.tok = None])
    /\ UNCHANGED <<store, keyring, client, handle, config, given, faults, ghosts>>

(* Mutant: the secret is deleted only when the server confirmed.           *)
ClearIfRevoked ==
    LET u == Url("ui") IN
    /\ thr["ui"].pc = "clear"
    /\ keyring' = IF keyring[Service(u)] \in live THEN keyring
                  ELSE [keyring EXCEPT ![Service(u)] = None]
    /\ out' = IF thr["ui"].job = "logout" THEN out \cup {u} ELSE out
    /\ Set("ui", Idle)
    /\ UNCHANGED <<store, live, client, handle, config, given, faults, released, torn, late, raced>>

(* clear_credentials, whatever the server said.                            *)
ClearCredentials ==
    LET u == Url("ui") IN
    /\ thr["ui"].pc = "clear"
    /\ keyring' = [keyring EXCEPT ![Service(u)] = None]
    /\ live' = LiveWithout(u)
    /\ out' = IF thr["ui"].job = "logout" THEN out \cup {u} ELSE out
    /\ Set("ui", Idle)
    /\ UNCHANGED <<store, client, handle, config, given, faults, released, torn, late, raced>>

-----------------------------------------------------------------------------
(* The other commands, the user's work and restarts.                       *)

(* desktop_restore_session: no scope check.                                *)
RestoreSession ==
    /\ Command("restore")
    /\ Set("ui", [Idle EXCEPT !.pc = "ensure", !.job = "restore", !.cl = handle])
    /\ UNCHANGED <<store, shared, faults, ghosts>>

Restored ==
    /\ thr["ui"].pc = "restored"
    /\ Set("ui", Idle)
    /\ UNCHANGED <<store, shared, given, faults, ghosts>>

(* set_server_url, without the coordinator's lock: scope, server.json, a   *)
(* new enabled client.                                                     *)
SetServerUrl(u) ==
    /\ Command("switch")
    /\ SwitchAllowed(u)
    /\ scope' = SwitchScope(u)
    /\ client' = [client EXCEPT ![FreeClient] = [url |-> u, enabled |-> TRUE]]
    /\ Set("ui", [Idle EXCEPT !.pc = "config", !.job = "switch",
                              !.cl = FreeClient])
    /\ released' = (released \/ (HasRows /\ scope'.user # scope.user))
    /\ Tear
    /\ UNCHANGED <<mirror, work, pending, flying, keyring, live, handle, config,
                   faults, late, out, raced>>

(* A local commit, under the account of the scope or under none.           *)
Edit ==
    LET owner == IF Established THEN scope.user ELSE None IN
    /\ Command("edit")
    /\ owner \notin pending \cup flying
    /\ work' = work \cup {owner}
    /\ pending' = pending \cup {owner}
    /\ UNCHANGED <<scope, mirror, flying, shared, thr, faults, ghosts>>

(* The process ends and starts again: a new enabled client from            *)
(* server.json; in_flight mutations are recovered.                         *)
Restart ==
    /\ Fault
    /\ thr' = [t \in Threads |-> Idle]
    /\ client' = [c \in Clients |-> [url |-> config, enabled |-> TRUE]]
    /\ handle' = 1
    /\ pending' = pending \cup flying
    /\ flying' = {}
    /\ torn' = FALSE
    /\ late' = 0
    /\ UNCHANGED <<scope, mirror, work, keyring, live, config, given, released, out, raced>>

-----------------------------------------------------------------------------
Request(t) ==
    \/ CheckSwitch(t) \/ ReadSecret(t) \/ Refresh(t) \/ StoreRotated(t)
    \/ Serve(t)

Cycle(t) ==
    \/ BindDevice(t) \/ RecordDevice(t) \/ Claim(t)
    \/ Dispatch(t) \/ ReadDevice(t) \/ Acknowledge(t)
    \/ ApplyPage(t)

Commanded ==
    \/ Suspend \/ Authenticate \/ Enroll \/ RecordLogin
    \/ ReplaceHandle \/ CutOff \/ Revoke \/ ClearCredentials
    \/ Restored

Next ==
    \/ \E t \in Threads : Request(t) \/ Cycle(t) \/ Lose(t)
    \/ Wake
    \/ Commanded
    \/ \E a \in Accounts : Login(a)
    \/ Logout
    \/ \E u \in Servers : SetServerUrl(u)
    \/ RestoreSession
    \/ SyncNow
    \/ Edit
    \/ Restart

Spec == Init /\ [][Next]_sessionVars

-----------------------------------------------------------------------------
ThreadState ==
    [pc : Steps, job : Jobs, cl : Clients, tok : Tokens \cup {None}, acc : Owners,
     name : Names, dev : Owners, page : Owners, mut : SUBSET Owners,
     batch : SUBSET Owners]

(* Every variable is of its type.                                          *)
SessionTypeOK ==
    /\ scope \in [url : Servers \cup {None}, ident : Names,
                  user : Owners, device : Owners, cursor : Owners]
    /\ mirror \subseteq Accounts
    /\ work \subseteq Owners /\ pending \cup flying \subseteq work
    /\ pending \cap flying = {}
    /\ keyring \in [Servers -> Tokens \cup {None}]
    /\ live \subseteq Tokens
    /\ client \in [Clients -> [url : Servers, enabled : BOOLEAN]]
    /\ handle \in Clients /\ config \in Servers
    /\ thr \in [Threads -> ThreadState]
    /\ late \in 0 .. 3
    /\ out \subseteq Servers /\ raced \subseteq Servers

(* A token is only ever shown to the server that issued it, through every  *)
(* login, switch of the server and restart: the refresh requests, the      *)
(* logout and the calls made with the access token all go home.            *)
TokensStayHome ==
    \A t \in Threads :
      /\ thr[t].pc \in {"refresh", "revoke"} => Host[thr[t].tok[1]] = Url(t)
      /\ thr[t].pc \in {"call", "enroll"} => Host[thr[t].acc] = Url(t)

(* Unless a request or the process was lost, the token in the keyring can  *)
(* be refreshed whenever no thread is between a rotation and its store:    *)
(* worker, sync_now, login and WebView may rotate at the same time.        *)
StoredIsLive ==
    (faults = 0 /\ \A t \in Threads : thr[t].pc \notin {"rotate", "clear"})
      => \A s \in Servers : keyring[s] = None \/ Accepts(s, keyring[s])

(* The kill switch stops the worker after the exchange it is in: at most   *)
(* one refresh and one call go out through a disabled client.              *)
LateIsBounded == late <= 2

(* After a logout that met no running cycle, and until the next login to   *)
(* that server, nobody on the desktop gets an access token for it, not     *)
(* even after a restart, a switch of the address or a session restore.     *)
LogoutHoldsUnlessRaced ==
    \A t \in Threads :
      thr[t].acc # None => Host[thr[t].acc] \notin out \ raced

(* A mutation is submitted, from a device the server accepts, only for the *)
(* account it was made under, or for the first account when there was      *)
(* none, as long as no logout and no re-entered address has detached the   *)
(* rows from their account (record_authenticated_device).                  *)
WorkIsOwn ==
    \A t \in Threads :
      (/\ thr[t].pc = "call" /\ thr[t].job = "push"
       /\ thr[t].dev = thr[t].acc /\ ~released)
        => thr[t].mut \subseteq {None, thr[t].acc}

(* The cursor is advanced with a page of the bound account, unless a       *)
(* command changed the session while the worker had the page in hand.      *)
CursorIsOwn ==
    [][scope'.cursor # scope.cursor =>
         scope'.cursor \in {None, scope'.user} \/ torn']_sessionVars

(* SyncClient::logout: "must never leave an active keyring secret that a   *)
(* background worker can continue using".  Once both threads are at rest   *)
(* after a logout, the desktop does not hold a live token together with a  *)
(* complete scope for it.                                                  *)
LogoutHolds ==
    (\A t \in Threads : ~Busy(t)) =>
      \A s \in out :
        ~(keyring[s] \in live /\ ScopeComplete /\ ScopeMatches(s))
=============================================================================
