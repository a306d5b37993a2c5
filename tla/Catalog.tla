------------------------------ MODULE Catalog -------------------------------
(***************************************************************************)
(* The SQLite side of access and deployment on the desktop: the skills'    *)
(* states, the offline leases, the agent profiles and the deployment       *)
(* catalog.  Commands run one at a time under the coordinator's lock       *)
(* ("cmd" is a deployment to one or several agents); the worker's          *)
(* transactions come in between.  A mutation chain is its first unacked    *)
(* member; workspaces and blobs are in SkillCache, the target directories  *)
(* in Deployment.                                                          *)
(***************************************************************************)
EXTENDS Integers, FiniteSets

CONSTANTS
    Skills,
    Profiles,   \* agent profiles
    Builtin,    \* ... whose root follows from the home directory
    Homes,      \* home directories
    RootAt,     \* the root of each built-in profile under each home
    Dirs,       \* skill roots
    None,
    MaxTime     \* bound: the clock stops there

ASSUME CatalogAssumption ==
    /\ Builtin \subseteq Profiles
    /\ RootAt \in [Builtin -> [Homes -> Dirs]]
    /\ \A p, q \in Builtin : \A h, i \in Homes :
          p # q => RootAt[p][h] # RootAt[q][i]
    /\ None \notin Dirs \cup Skills \cup Profiles
    /\ MaxTime \in Nat

VARIABLES
    now,      \* the wall clock
    home,     \* the user's home directory
    row,      \* local_skills: sync_state, and whether remote_id is set
    work,     \* the state of the first unacked mutation of a skill
    lease,    \* local_entitlements.expires_at
    profile,  \* agent_profiles: root and enabled
    dep,      \* skill_deployments: state and the target's parent
    cmd,      \* the deployments in progress: the skill, the target between
              \* its checks and its catalog row, the targets still to come
    cycle,    \* the worker is in a sync cycle
    swept,    \* history: skills that expire_due_entitlements revoked
    crossed   \* history: ... while a deployment of the skill was past its checks

catalogVars == <<now, home, row, work, lease, profile, dep, cmd, cycle, swept,
                 crossed>>

Absent == [st |-> "absent", remote |-> FALSE]
NoCmd == [s |-> None, p |-> None, root |-> None, left |-> {}]
NoDep == [st |-> "none", root |-> None]
NoProfile == [root |-> None, enabled |-> FALSE]

Clean == {"remote_only", "synced", "sync_error"}
Live == {"installed"}   \* the other live states are never recorded

Init ==
    /\ now = 0
    /\ home \in Homes
    /\ row = [s \in Skills |-> Absent]
    /\ work = [s \in Skills |-> "none"]
    /\ lease = [s \in Skills |-> None]
    /\ profile = [p \in Profiles |-> NoProfile]
    /\ dep = [s \in Skills |-> [p \in Profiles |-> NoDep]]
    /\ cmd = NoCmd
    /\ cycle = FALSE
    /\ swept = {} /\ crossed = {}

Tick ==
    /\ now < MaxTime
    /\ now' = now + 1
    /\ UNCHANGED <<home, row, work, lease, profile, dep, cmd, cycle, swept,
                   crossed>>

(* A row is written: it is swept only as long as it stays revoked.         *)
SetState(s, r) ==
    /\ row' = [row EXCEPT ![s] = r]
    /\ swept' = IF r.st = "access_revoked" THEN swept ELSE swept \ {s}
    /\ crossed' = IF r.st = "access_revoked" THEN crossed ELSE crossed \ {s}

-----------------------------------------------------------------------------
(* The worker's transactions.                                              *)

(* apply_upsert; a change that is not newer leaves the row as it is.       *)
Upserted(r, newer, same) ==
    CASE ~newer -> r.st
      [] r.st = "absent" -> "remote_only"
      [] r.st \in {"dirty", "conflict"} -> "conflict"
      [] OTHER -> IF same THEN "synced" ELSE "remote_only"

(* apply_entitlement: a lease that is over revokes a clean row, a fresh    *)
(* one restores a revoked row, whatever revoked it.                        *)
Leased(st, l) ==
    CASE l = None -> st
      [] l # None /\ l <= now ->
            IF st \in {"remote_only", "synced"} THEN "access_revoked" ELSE st
      [] OTHER -> IF st = "access_revoked" THEN "remote_only" ELSE st

(* apply_changes_page, for an upsert with or without a lease.              *)
PullUpsert(s, newer, same, l) ==
    /\ cycle
    /\ newer \/ row[s].st # "absent"
    /\ row[s].st # "absent" => row[s].remote
    /\ SetState(s, [st |-> Leased(Upserted(row[s], newer, same), l),
                    remote |-> TRUE])
    /\ lease' = [lease EXCEPT ![s] = IF l = None THEN @ ELSE l]
    /\ UNCHANGED <<now, home, work, profile, dep, cmd, cycle>>

(* apply_tombstone: unacked work keeps the row; otherwise it goes, and its *)
(* lease and catalog rows with it (ON DELETE CASCADE).                     *)
PullTombstone(s) ==
    /\ cycle
    /\ row[s].remote
    /\ IF work[s] # "none"
       THEN /\ SetState(s, [row[s] EXCEPT !.st = "conflict"])
            /\ UNCHANGED <<lease, dep>>
       ELSE /\ SetState(s, Absent)
            /\ lease' = [lease EXCEPT ![s] = None]
            /\ dep' = [dep EXCEPT ![s] = [p \in Profiles |-> NoDep]]
    /\ UNCHANGED <<now, home, work, profile, cmd, cycle>>

(* Mutant: a lease is over only after its last instant.                    *)
OverdueLater(s) == lease[s] # None /\ lease[s] < now

LeaseOver(s) == lease[s] # None /\ lease[s] <= now

(* expire_due_entitlements: overdue clean rows and their deployments.      *)
Due == {s \in Skills : LeaseOver(s) /\ row[s].st \in Clean}

ExpireDue ==
    /\ row' = [s \in Skills |-> IF s \in Due
                                THEN [row[s] EXCEPT !.st = "access_revoked"]
                                ELSE row[s]]
    /\ dep' = [s \in Skills |-> [p \in Profiles |->
                  IF s \in Due /\ dep[s][p].st \in Live
                  THEN [dep[s][p] EXCEPT !.st = "revoked"] ELSE dep[s][p]]]
    /\ swept' = swept \cup Due
    /\ crossed' = IF cmd.p = None THEN crossed
                  ELSE crossed \cup (Due \cap {cmd.s})

(* run_cycle: pushes and pulls, and at the end, if the last pull came      *)
(* through, the due leases.  A cycle that fails leaves them.               *)
BeginCycle ==
    /\ ~cycle
    /\ cycle' = TRUE
    /\ UNCHANGED <<now, home, row, work, lease, profile, dep, cmd, swept,
                   crossed>>

FailCycle ==
    /\ cycle
    /\ cycle' = FALSE
    /\ UNCHANGED <<now, home, row, work, lease, profile, dep, cmd, swept,
                   crossed>>

EndCycle ==
    /\ cycle
    /\ cycle' = FALSE
    /\ ExpireDue
    /\ UNCHANGED <<now, home, work, lease, profile, cmd>>

(* apply_mutation_outcome for the mutation in flight.                      *)
Outcome(s, status) ==
    /\ cycle
    /\ work[s] = "pending"
    /\ work' = [work EXCEPT ![s] = IF status = "applied" THEN "none" ELSE status]
    /\ SetState(s, [remote |-> row[s].remote \/ status = "applied",
                    st |-> CASE status = "applied" ->
                                  IF row[s].st \in {"dirty", "sync_error", "conflict"}
                                  THEN "synced" ELSE row[s].st
                             [] status = "permission_denied" -> "access_revoked"
                             [] status = "permanent_error" -> "sync_error"
                             [] status = "conflict" -> "conflict"])
    /\ UNCHANGED <<now, home, lease, profile, dep, cmd, cycle>>

-----------------------------------------------------------------------------
(* Commands.                                                               *)

Idle == cmd = NoCmd

(* commit_local_skill_workspace: no state refuses an edit.                 *)
CommitSkillEdit(s) ==
    /\ Idle
    /\ SetState(s, [row[s] EXCEPT !.st = "dirty"])
    /\ work' = [work EXCEPT ![s] = IF @ = "none" THEN "pending" ELSE @]
    /\ UNCHANGED <<now, home, lease, profile, dep, cmd, cycle>>

(* resolve_keep_local, resolve_keep_remote.                                *)
ResolveConflict(s, keepLocal) ==
    /\ Idle
    /\ row[s].st = "conflict"
    /\ SetState(s, [row[s] EXCEPT !.st = IF keepLocal THEN "dirty" ELSE "remote_only"])
    /\ work' = [work EXCEPT ![s] = CASE keepLocal /\ @ \in {"none", "conflict"} -> "pending"
                                     [] ~keepLocal /\ @ = "conflict" -> "none"
                                     [] OTHER -> @]
    /\ UNCHANGED <<now, home, lease, profile, dep, cmd, cycle>>

(* hydrate_skill promotes, enforce_cache_budget demotes.                   *)
Hydrate(s) ==
    /\ Idle
    /\ row[s].st = "remote_only"
    /\ SetState(s, [row[s] EXCEPT !.st = "synced"])
    /\ UNCHANGED <<now, home, work, lease, profile, dep, cmd, cycle>>

Evict(s) ==
    /\ Idle
    /\ row[s].st = "synced" /\ row[s].remote
    /\ \A p \in Profiles : dep[s][p].st = "none"
    /\ SetState(s, [row[s] EXCEPT !.st = "remote_only"])
    /\ UNCHANGED <<now, home, work, lease, profile, dep, cmd, cycle>>

(* Mutant: a root may change under its deployments.                        *)
RootFreeAlways(p, r) == TRUE

(* upsert_agent_profile: a profile with deployments keeps its root, and    *)
(* no two profiles have the same (UNIQUE skill_root).                      *)
RootFree(p, r) ==
    /\ profile[p].root \in {None, r} \/ \A s \in Skills : dep[s][p].st = "none"
    /\ \A q \in Profiles \ {p} : profile[q].root # r

(* validate_persisted_profile: the root of a built-in agent is not free.   *)
ValidProfile(p, r) == p \in Builtin => r = RootAt[p][home]

SaveAgentProfile(p, r, e) ==
    /\ Idle
    /\ ValidProfile(p, r)
    /\ RootFree(p, r)
    /\ profile' = [profile EXCEPT ![p] = [root |-> r, enabled |-> e]]
    /\ UNCHANGED <<now, home, row, work, lease, dep, cmd, cycle, swept,
                   crossed>>

(* Any of the built-in agents may have a directory under the home.         *)
Detections == SUBSET Builtin

(* discover_and_reconcile_agents, for the built-in agents found: a known   *)
(* profile stays enabled or disabled, a refused root is reported.          *)
Discovered(found, h) ==
    [p \in Profiles |->
        IF p \in found /\ RootFree(p, RootAt[p][h])
        THEN [root |-> RootAt[p][h],
              enabled |-> profile[p].root = None \/ profile[p].enabled]
        ELSE profile[p]]

DiscoverAgents(found) ==
    /\ Idle
    /\ profile' = Discovered(found, home)
    /\ UNCHANGED <<now, home, row, work, lease, dep, cmd, cycle, swept,
                   crossed>>

(* Mutant: deploy_single does not look for a revoked skill.                *)
DeployableIfHere(s) == row[s].st \notin {"absent", "remote_only"}

Deployable(s) == row[s].st \notin {"absent", "remote_only", "access_revoked"}

(* deploy_skill_to_agent, deploy_skill_batch; the hydration that comes     *)
(* first is Hydrate.                                                       *)
BeginDeploy(s, targets) ==
    /\ Idle
    /\ row[s].st # "absent"
    /\ cmd' = [NoCmd EXCEPT !.s = s, !.left = targets]
    /\ UNCHANGED <<now, home, row, work, lease, profile, dep, cycle, swept,
                   crossed>>

(* A target that fails does not keep the others from being tried.          *)
NextTarget(left) ==
    IF left = {} THEN NoCmd
    ELSE [NoCmd EXCEPT !.s = cmd.s, !.left = left]

(* deploy_single: the checks, made again for every target; then the        *)
(* directory (see Deployment) and the record.                              *)
CheckTarget(p) ==
    /\ cmd.p = None /\ p \in cmd.left
    /\ cmd' = IF Deployable(cmd.s) /\ profile[p].enabled
              THEN [cmd EXCEPT !.p = p, !.root = profile[p].root,
                               !.left = @ \ {p}]
              ELSE NextTarget(cmd.left \ {p})
    /\ UNCHANGED <<now, home, row, work, lease, profile, dep, cycle, swept,
                   crossed>>

(* Mutant: the row of the skill is not looked up again.                    *)
RecordUnchecked ==
    /\ cmd.p # None
    /\ dep' = [dep EXCEPT ![cmd.s][cmd.p] =
                  [st |-> "installed", root |-> cmd.root]]
    /\ cmd' = NextTarget(cmd.left)
    /\ UNCHANGED <<now, home, row, work, lease, profile, cycle, swept, crossed>>

(* record_deployment: the skill and the profile's root are looked up again *)
RecordDeployment ==
    /\ cmd.p # None
    /\ dep' = IF row[cmd.s].st # "absent" /\ profile[cmd.p].root = cmd.root
              THEN [dep EXCEPT ![cmd.s][cmd.p] =
                      [st |-> "installed", root |-> cmd.root]]
              ELSE dep
    /\ cmd' = NextTarget(cmd.left)
    /\ UNCHANGED <<now, home, row, work, lease, profile, cycle, swept, crossed>>

(* uninstall_skill_from_agent, remove_deployment_catalog.                  *)
Uninstall(s, p) ==
    /\ Idle
    /\ dep[s][p].st # "none"
    /\ dep[s][p].root = profile[p].root
    /\ dep' = [dep EXCEPT ![s][p] = NoDep]
    /\ UNCHANGED <<now, home, row, work, lease, profile, cmd, cycle, swept,
                   crossed>>

(* The process dies and starts again, perhaps with another home: due       *)
(* leases are expired, then the agents are discovered.                     *)
Restart(h, found) ==
    /\ home' = h
    /\ cmd' = NoCmd /\ cycle' = FALSE
    /\ ExpireDue
    /\ profile' = Discovered(found, h)
    /\ UNCHANGED <<now, work, lease>>

Pull(s) ==
    \/ \E newer, same \in BOOLEAN, l \in (0 .. MaxTime) \cup {None} :
          PullUpsert(s, newer, same, l)
    \/ PullTombstone(s)

Next ==
    \/ Tick
    \/ \E s \in Skills :
          \/ Pull(s)
          \/ \E status \in {"applied", "permission_denied", "permanent_error",
                            "conflict"} : Outcome(s, status)
          \/ CommitSkillEdit(s)
          \/ \E keepLocal \in BOOLEAN : ResolveConflict(s, keepLocal)
          \/ Hydrate(s) \/ Evict(s)
          \/ \E targets \in SUBSET Profiles \ {{}} : BeginDeploy(s, targets)
          \/ \E p \in Profiles : Uninstall(s, p)
    \/ BeginCycle \/ FailCycle \/ EndCycle
    \/ \E p \in Profiles : CheckTarget(p)
    \/ RecordDeployment
    \/ \E p \in Profiles, r \in Dirs, e \in BOOLEAN : SaveAgentProfile(p, r, e)
    \/ \E found \in Detections : DiscoverAgents(found)
    \/ \E h \in Homes, found \in Detections : Restart(h, found)

(* The worker's heartbeat keeps starting cycles.  That they do not all     *)
(* fail from some point on is an assumption on the network.                *)
Fairness == WF_catalogVars(BeginCycle) /\ SF_catalogVars(EndCycle)

Spec == Init /\ [][Next]_catalogVars /\ Fairness

-----------------------------------------------------------------------------
States == {"absent", "remote_only", "synced", "dirty", "conflict", "sync_error",
           "access_revoked"}

(* The variables keep their types; deployments and leases belong to rows   *)
(* of the table (the foreign keys of migrations.rs).                       *)
CatalogTypeOK ==
    /\ now \in 0 .. MaxTime
    /\ home \in Homes
    /\ cycle \in BOOLEAN
    /\ row \in [Skills -> [st : States, remote : BOOLEAN]]
    /\ work \in [Skills -> {"none", "pending", "permission_denied",
                            "permanent_error", "conflict"}]
    /\ lease \in [Skills -> (0 .. MaxTime) \cup {None}]
    /\ profile \in [Profiles -> [root : Dirs \cup {None}, enabled : BOOLEAN]]
    /\ dep \in [Skills -> [Profiles -> [st : {"none", "installed", "revoked"},
                                        root : Dirs \cup {None}]]]
    /\ \A s \in Skills : row[s].st = "absent" =>
          lease[s] = None /\ \A p \in Profiles : dep[s][p] = NoDep

(* Every recorded target is under its profile's root: neither a saved      *)
(* profile nor discovery after the home directory moved strands a          *)
(* deployment, which uninstall would then refuse, or lets two profiles own *)
(* the same target (upsert_agent_profile).                                 *)
RowsUnderRoot ==
    \A s \in Skills, p \in Profiles :
        dep[s][p].st # "none" =>
            /\ dep[s][p].root = profile[p].root
            /\ \A q \in Profiles \ {p} :
                  dep[s][q].st # "none" => dep[s][q].root # dep[s][p].root

(* Once the expiry of its lease has revoked a skill, no deployment of it   *)
(* counts as installed until the server or the user takes the skill out of *)
(* access_revoked: not even a batch that was under way records another     *)
(* target, except the one that had passed its checks                       *)
(* (expire_due_entitlements, deploy_single).                               *)
RevokedStaysUndeployed ==
    \A s \in swept \ crossed, p \in Profiles : dep[s][p].st \notin Live

ExpiredUnnoticed(s) ==
    lease[s] # None /\ lease[s] <= now /\ row[s].st \in Clean

(* A lease that is over takes effect: the clean row is revoked, or the     *)
(* server renews the lease or takes the skill away, or there is local work *)
(* in the way (expire_due_entitlements at the end of a cycle).             *)
ExpiredIsRevoked ==
    \A s \in Skills : ExpiredUnnoticed(s) ~> ~ExpiredUnnoticed(s)
=============================================================================
