----------------------------- MODULE Deployment -----------------------------
(***************************************************************************)
(* One directory of one agent's skill root, the two engines that change it *)
(* (DeploymentEngine, UninstallEngine) with their journals, the            *)
(* skill_deployments catalog, and the startup recovery of both.            *)
(*                                                                         *)
(* An engine call is a list of file system steps, each of them atomic, and *)
(* the process may stop between any two.  The commands and the recovery    *)
(* run one at a time: recovery before the first command, the commands      *)
(* behind the DesktopMutationCoordinator.  The background worker's pulls   *)
(* and whoever else can write to the agent's directory do not wait.        *)
(***************************************************************************)
EXTENDS Integers, Sequences, FiniteSets

CONSTANTS
    Skills,     \* the skills whose slug is the directory's name
    Hashes,     \* snapshot hashes
    None,       \* no such path, no such row
    Mixed,      \* a directory that is no snapshot: half removed, edited
    Txs,        \* transaction ids that may name something at one time
    Faults,     \* kinds of failures in play
    MaxFaults   \* bound: failures

ASSUME DeploymentAssumption ==
    /\ None \notin Hashes /\ Mixed \notin Hashes /\ None # Mixed
    /\ None \notin Skills /\ None \notin Txs
    /\ MaxFaults \in Nat

VARIABLES
    current,   \* local_skills.current_blob_hash, None: no such skill
    catalog,   \* skill_deployments.deployed_blob_hash, None: no such row
    target,    \* what the directory holds
    stage,     \* .skillhive-stage-<tx>
    aside,     \* .skillhive-backup-<tx>, .skillhive-remove-<tx>
    journal,   \* the last complete record of <tx>'s journal
    op,        \* what the process is doing
    faults,    \* failures so far (model bound)
    hit        \* history: the kinds of failures so far

rows == <<current, catalog>>
disk == <<target, stage, aside>>
faultVars == <<faults, hit>>
deployVars == <<rows, disk, journal, op, faultVars>>

Contents == Hashes \cup {None, Mixed}

NoJournal == [kind |-> "none", phase |-> "none", skill |-> None,
              hash |-> None, replaced |-> FALSE]

Journals ==
    [kind : {"deploy", "uninstall"},
     phase : {"intent", "prepared", "old_moved", "activated", "moved"},
     skill : Skills, hash : Hashes \cup {None}, replaced : BOOLEAN]
      \cup {NoJournal}

OfKind(kind) == {t \in Txs : journal[t].kind = kind}

(* todo: the steps of transaction tx that are left; left: the journals the *)
(* recovery still has to look at; found: the ones it reports to its caller *)
Doing(mode) == [mode |-> mode, tx |-> None, todo |-> <<>>,
                left |-> {}, found |-> {}]
Idle == Doing("idle")
Down == Doing("down")
Commands == {"deploy", "uninstall"}

(* A fresh UUID names nothing on disk.                                     *)
Fresh(t) == journal[t] = NoJournal /\ stage[t] = None /\ aside[t] = None

Init ==
    /\ current \in [Skills -> Hashes]
    /\ catalog = [k \in Skills |-> None]
    /\ target = None
    /\ stage = [t \in Txs |-> None]
    /\ aside = [t \in Txs |-> None]
    /\ journal = [t \in Txs |-> NoJournal]
    /\ op = Idle
    /\ faults = 0
    /\ hit = {}

Fault(kind) ==
    /\ kind \in Faults
    /\ faults < MaxFaults
    /\ faults' = faults + 1
    /\ hit' = hit \cup {kind}

-----------------------------------------------------------------------------
(* The commands.                                                           *)

(* DeploymentEngine::deploy from staging on, then deploy_single.           *)
DeploySteps(replaced) ==
    IF replaced
    THEN <<"stage", "prepared", "set_aside", "old_moved", "swap", "verify",
           "activated", "drop_aside", "record", "ack">>
    ELSE <<"stage", "prepared", "swap", "verify", "activated", "drop_aside",
           "record", "ack">>

(* deploy_single, up to the first journal record.                          *)
DeployBegin(k, t) ==
    /\ op = Idle
    /\ current[k] # None
    /\ Fresh(t)
    /\ journal' = [journal EXCEPT ![t] =
          [kind |-> "deploy", phase |-> "intent", skill |-> k,
           hash |-> current[k], replaced |-> target # None]]
    /\ op' = [Doing("deploy") EXCEPT !.tx = t,
                                     !.todo = DeploySteps(target # None)]
    /\ UNCHANGED <<rows, disk, faultVars>>

(* uninstall_skill_from_agent, up to the first journal record; without a   *)
(* directory there is only the row to remove.                              *)
UninstallBegin(k, t) ==
    /\ op = Idle
    /\ catalog[k] # None
    /\ target # None
    /\ Fresh(t)
    /\ journal' = [journal EXCEPT ![t] =
          [NoJournal EXCEPT !.kind = "uninstall", !.phase = "intent",
                            !.skill = k]]
    /\ op' = [Doing("uninstall") EXCEPT !.tx = t,
                 !.todo = <<"set_aside", "moved", "uncatalog">>]
    /\ UNCHANGED <<rows, disk, faultVars>>

UninstallMissing(k) ==
    /\ op = Idle
    /\ catalog[k] # None
    /\ target = None
    /\ catalog' = [catalog EXCEPT ![k] = None]
    /\ UNCHANGED <<current, disk, journal, op, faultVars>>

-----------------------------------------------------------------------------
(* The steps.                                                              *)

tx == op.tx
Record == journal[tx]
Step(s) == op.todo # <<>> /\ Head(op.todo) = s

(* A command is over when nothing is left; the recovery goes on.           *)
After(steps) == IF steps = <<>> /\ op.mode \in Commands THEN Idle
                ELSE [op EXCEPT !.todo = steps]
Proceed == op' = After(Tail(op.todo))
GiveUp == op' = After(<<>>)

(* persist_journal.                                                        *)
Persist(s) ==
    /\ Step(s) /\ Proceed
    /\ journal' = [journal EXCEPT ![tx].phase = s]
    /\ UNCHANGED <<rows, disk, faultVars>>

(* remove_journal.                                                         *)
Forget ==
    /\ Step("forget") /\ Proceed
    /\ journal' = [journal EXCEPT ![tx] = NoJournal]
    /\ UNCHANGED <<rows, disk, faultVars>>

(* materialize_snapshot and its verification.                              *)
Stage ==
    /\ Step("stage") /\ Proceed
    /\ stage' = [stage EXCEPT ![tx] = Record.hash]
    /\ UNCHANGED <<rows, target, aside, journal, faultVars>>

(* The rename of the directory to the backup or the quarantine.            *)
SetAside ==
    /\ Step("set_aside")
    /\ IF target = None THEN GiveUp ELSE Proceed
    /\ aside' = [aside EXCEPT ![tx] = target]
    /\ target' = None
    /\ UNCHANGED <<rows, stage, journal, faultVars>>

(* The rename of the staging directory to the target.                      *)
Swap ==
    /\ Step("swap")
    /\ target = None
    /\ Proceed
    /\ target' = stage[tx]
    /\ stage' = [stage EXCEPT ![tx] = None]
    /\ UNCHANGED <<rows, aside, journal, faultVars>>

UndoSteps == IF aside[tx] # None THEN <<"drop_target", "restore", "forget">>
             ELSE <<"drop_target", "forget">>

(* deploy verifies what it activated before it drops the backup.           *)
Verify ==
    /\ Step("verify")
    /\ IF target = Record.hash THEN Proceed ELSE op' = After(UndoSteps)
    /\ UNCHANGED <<rows, disk, journal, faultVars>>

(* activate_verified_staging does too, and stops there.                    *)
Recheck ==
    /\ Step("recheck")
    /\ IF target = Record.hash THEN Proceed ELSE GiveUp
    /\ UNCHANGED <<rows, disk, journal, faultVars>>

(* remove_any.                                                             *)
Drop ==
    \/ /\ Step("drop_target") /\ Proceed
       /\ target' = None
       /\ UNCHANGED <<rows, stage, aside, journal, faultVars>>
    \/ /\ Step("drop_stage") /\ Proceed
       /\ stage' = [stage EXCEPT ![tx] = None]
       /\ UNCHANGED <<rows, target, aside, journal, faultVars>>
    \/ /\ Step("drop_aside") /\ Proceed
       /\ aside' = [aside EXCEPT ![tx] = None]
       /\ UNCHANGED <<rows, target, stage, journal, faultVars>>

(* restore_backup, and the rename in UninstallEngine::rollback.            *)
Restore ==
    /\ Step("restore")
    /\ target = None /\ aside[tx] # None
    /\ Proceed
    /\ target' = aside[tx]
    /\ aside' = [aside EXCEPT ![tx] = None]
    /\ UNCHANGED <<rows, stage, journal, faultVars>>

(* Mutant: the directory is recorded as it is.                             *)
RecordUnverified ==
    /\ Step("record") /\ Proceed
    /\ catalog' = [catalog EXCEPT ![Record.skill] = target]
    /\ UNCHANGED <<current, disk, journal, faultVars>>

(* The target is verified once more, then record_deployment; a skill that  *)
(* is gone has no deployments.                                             *)
RecordDeployment ==
    LET ok == target = Record.hash /\ current[Record.skill] # None IN
    /\ Step("record")
    /\ IF ok THEN Proceed ELSE GiveUp
    /\ catalog' = IF ok THEN [catalog EXCEPT ![Record.skill] = Record.hash]
                  ELSE catalog
    /\ UNCHANGED <<current, disk, journal, faultVars>>

(* acknowledge_catalog_commit; a rejected ack is reported, nothing more.   *)
Acknowledge ==
    LET ok == /\ Record.phase = "activated" /\ target = Record.hash
              /\ stage[tx] = None /\ aside[tx] = None
    IN
    /\ Step("ack") /\ Proceed
    /\ journal' = IF ok THEN [journal EXCEPT ![tx] = NoJournal] ELSE journal
    /\ UNCHANGED <<rows, disk, faultVars>>

(* UninstallEngine::finalize and rollback.                                 *)
FinalizeSteps(t) ==
    IF target # None THEN <<>> ELSE <<"drop_aside", "forget">>

RollbackSteps(t) ==
    CASE target = None /\ aside[t] # None -> <<"restore", "forget">>
      [] target # None /\ aside[t] = None -> <<"forget">>
      [] OTHER -> <<>>

(* remove_deployment_catalog, then finalize.                               *)
Uncatalog ==
    /\ Step("uncatalog")
    /\ catalog' = [catalog EXCEPT ![Record.skill] = None]
    /\ op' = After(FinalizeSteps(tx))
    /\ UNCHANGED <<current, disk, journal, faultVars>>

(* recover_one reports a deployment for its catalog row to be replayed.    *)
ReportCommit ==
    /\ Step("commit")
    /\ op' = [After(Tail(op.todo)) EXCEPT !.found = @ \cup {tx}]
    /\ UNCHANGED <<rows, disk, journal, faultVars>>

EngineStep ==
    \/ \E s \in {"prepared", "old_moved", "activated", "moved"} : Persist(s)
    \/ Forget \/ Stage \/ SetAside \/ Swap \/ Verify \/ Recheck \/ Drop
    \/ Restore \/ RecordDeployment \/ Acknowledge \/ Uncatalog
    \/ ReportCommit

-----------------------------------------------------------------------------
(* Startup: recover_incomplete, the replay of its commits, then            *)
(* reconcile_uninstall_recovery.  Journals are visited in the order of     *)
(* their random names.                                                     *)

(* verify_materialized_snapshot fails, too, on a file or a blob that cannot *)
(* be read.                                                                *)
Verified(t, content, readable) == readable /\ content = journal[t].hash

(* Mutant: what does not verify is removed, backup or not.                 *)
VerifyOrDiscard(t, readable) ==
    IF Verified(t, target, readable)
    THEN <<"activated", "drop_aside", "commit">>
    ELSE IF aside[t] # None THEN <<"drop_target", "restore", "forget">>
    ELSE <<"drop_target", "forget">>

(* verify_active_or_restore_backup.                                        *)
VerifyOrRestore(t, readable) ==
    IF Verified(t, target, readable)
    THEN <<"activated", "drop_aside", "commit">>
    ELSE IF aside[t] # None THEN <<"drop_target", "restore", "forget">>
    ELSE <<>>

(* Mutant: the roll-forward is not reported for its catalog row.           *)
ActivateSilently(t, readable) ==
    IF Verified(t, stage[t], readable)
    THEN <<"swap", "recheck", "activated", "drop_aside">>
    ELSE <<"drop_stage", "restore", "forget">>

(* Mutant: a bad staging directory is discarded, its backup forgotten.     *)
ActivateOrDiscard(t, readable) ==
    IF Verified(t, stage[t], readable)
    THEN <<"swap", "recheck", "activated", "drop_aside", "commit">>
    ELSE <<"drop_stage", "forget">>

(* activate_verified_staging.                                              *)
ActivateSteps(t, readable) ==
    IF Verified(t, stage[t], readable)
    THEN <<"swap", "recheck", "activated", "drop_aside", "commit">>
    ELSE <<"drop_stage", "restore", "forget">>

(* verify_active_without_backup.                                           *)
VerifyOrRemove(t, readable) ==
    IF Verified(t, target, readable) THEN <<"activated", "commit">>
    ELSE <<"drop_target", "forget">>

(* recover_one, by the phase and by what exists; the empty list: the       *)
(* transaction is reported as unrecoverable and left alone.                *)
RecoverySteps(t, readable) ==
    LET phase == journal[t].phase
        moves == \/ phase = "old_moved"
                 \/ phase = "prepared" /\ journal[t].replaced
        installs == phase = "prepared" /\ ~journal[t].replaced
        exists == <<target # None, stage[t] # None, aside[t] # None>>
    IN
    CASE phase = "intent" /\ aside[t] = None -> <<"drop_stage", "forget">>
      [] phase = "prepared" /\ moves /\ exists = <<TRUE, TRUE, FALSE>>
           -> <<"drop_stage", "forget">>
      [] moves /\ exists = <<FALSE, TRUE, TRUE>> -> ActivateSteps(t, readable)
      [] moves /\ exists = <<TRUE, FALSE, TRUE>> -> VerifyOrRestore(t, readable)
      [] moves /\ exists = <<FALSE, FALSE, TRUE>> -> <<"restore", "forget">>
      [] installs /\ exists = <<FALSE, TRUE, FALSE>>
           -> <<"drop_stage", "forget">>
      [] installs /\ exists = <<TRUE, FALSE, FALSE>>
           -> VerifyOrRemove(t, readable)
      [] phase = "activated" /\ target = None /\ aside[t] # None
           -> <<"restore", "forget">>
      [] phase = "activated" /\ target # None /\ stage[t] = None
           -> VerifyOrRestore(t, readable)
      [] OTHER -> <<>>

Startup ==
    /\ op = Down
    /\ op' = [Doing("recover") EXCEPT !.left = OfKind("deploy")]
    /\ UNCHANGED <<rows, disk, journal, faultVars>>

(* The recovery turns to journal t in the given mode, with these steps.    *)
Visit(mode, t, steps) ==
    /\ op.mode = mode /\ op.todo = <<>>
    /\ t \in op.left
    /\ op' = [op EXCEPT !.tx = t, !.todo = steps, !.left = @ \ {t}]
    /\ UNCHANGED <<rows, disk, journal>>

RecoverOne(t) ==
    \/ Visit("recover", t, RecoverySteps(t, TRUE)) /\ UNCHANGED faultVars
    \/ Visit("recover", t, RecoverySteps(t, FALSE)) /\ Fault("io")

ReplayCommit(t) ==
    Visit("replay", t, <<"record", "ack">>) /\ UNCHANGED faultVars

(* recover_pending: an intent that moved nothing is dropped, what cannot   *)
(* be told is reported.                                                    *)
FindUninstall(t) ==
    /\ Visit("find", t,
             CASE target # None /\ aside[t] = None
                    /\ journal[t].phase = "intent" -> <<"forget">>
               [] target = None /\ (aside[t] # None
                                      \/ journal[t].phase = "moved")
                    -> <<"commit">>
               [] OTHER -> <<>>)
    /\ UNCHANGED faultVars

(* Mutant: a pending uninstall is finished without asking the catalog.     *)
SettleForward(t) ==
    Visit("settle", t, FinalizeSteps(t)) /\ UNCHANGED faultVars

(* reconcile_uninstall_recovery: the catalog decides.                      *)
SettleUninstall(t) ==
    /\ Visit("settle", t,
             IF catalog[journal[t].skill] # None THEN RollbackSteps(t)
             ELSE FinalizeSteps(t))
    /\ UNCHANGED faultVars

(* One pass is over, the next begins.                                      *)
NextPass ==
    /\ op.todo = <<>> /\ op.left = {}
    /\ \/ /\ op.mode = "recover"
          /\ op' = [Doing("replay") EXCEPT !.left = op.found]
       \/ /\ op.mode = "replay"
          /\ op' = [Doing("find") EXCEPT !.left = OfKind("uninstall")]
       \/ /\ op.mode = "find"
          /\ op' = [Doing("settle") EXCEPT !.left = op.found]
       \/ op.mode = "settle" /\ op' = Idle
    /\ UNCHANGED <<rows, disk, journal, faultVars>>

Recovery ==
    \/ Startup \/ NextPass
    \/ \E t \in Txs : RecoverOne(t) \/ ReplayCommit(t)
                        \/ FindUninstall(t) \/ SettleUninstall(t)

-----------------------------------------------------------------------------
(* Failures, and everybody else.                                           *)

(* The step at hand stops half way: removing or materializing a tree is    *)
(* not atomic.                                                             *)
Torn ==
    \/ /\ Step("stage") \/ (Step("drop_stage") /\ stage[tx] # None)
       /\ stage' = [stage EXCEPT ![tx] = Mixed]
       /\ UNCHANGED <<target, aside>>
    \/ /\ Step("drop_aside") /\ aside[tx] # None
       /\ aside' = [aside EXCEPT ![tx] = Mixed]
       /\ UNCHANGED <<target, stage>>
    \/ /\ Step("drop_target") /\ target # None
       /\ target' = Mixed
       /\ UNCHANGED <<stage, aside>>

(* The process dies.  A crash of the recovery itself is told apart.        *)
Crash ==
    /\ op # Down
    /\ Fault(IF op.mode \in Commands \cup {"idle"} THEN "crash"
             ELSE "recovery_crash")
    /\ op' = Down
    /\ Torn \/ UNCHANGED disk
    /\ UNCHANGED <<rows, journal>>

(* A step returns an error.  deploy cleans up what it staged, as well as   *)
(* it can; a failed catalog removal is reconciled at once.                 *)
StepFails ==
    /\ Fault("io")
    /\ op.todo # <<>>
    /\ \/ /\ op.mode = "deploy" /\ (Step("stage") \/ Step("prepared"))
          /\ \E c \in {None, Mixed, stage[tx]} :
                stage' = [stage EXCEPT ![tx] = c]
          /\ journal' \in {journal, [journal EXCEPT ![tx] = NoJournal]}
          /\ GiveUp
          /\ UNCHANGED <<target, aside>>
       \/ /\ Step("verify")
          /\ op' = After(UndoSteps)
          /\ UNCHANGED <<disk, journal>>
       \/ /\ Step("uncatalog")
          /\ op' = [Doing("find") EXCEPT !.left = OfKind("uninstall")]
          /\ UNCHANGED <<disk, journal>>
       \/ /\ ~Step("stage") /\ ~Step("uncatalog") /\ ~Step("verify")
          /\ ~(op.mode = "deploy" /\ Step("prepared"))
          /\ GiveUp
          /\ Torn \/ UNCHANGED disk
          /\ UNCHANGED journal
    /\ UNCHANGED rows

(* The agent or the user edits or removes the directory.                   *)
Tamper ==
    /\ Fault("tamper")
    /\ target # None
    /\ target' \in {None, Mixed}
    /\ UNCHANGED <<rows, stage, aside, journal, op>>

(* An edit or a pull gives a skill another snapshot, a pulled tombstone    *)
(* removes the skill and, by the foreign key, its catalog row.             *)
NewSnapshot(k) ==
    /\ \E hash \in Hashes \ {current[k]} :
          current' = [current EXCEPT ![k] = hash]
    /\ UNCHANGED <<catalog, disk, journal, op, faultVars>>

Tombstone(k) ==
    /\ Fault("tombstone")
    /\ current[k] # None
    /\ current' = [current EXCEPT ![k] = None]
    /\ catalog' = [catalog EXCEPT ![k] = None]
    /\ UNCHANGED <<disk, journal, op>>

Next ==
    \/ \E k \in Skills, t \in Txs : DeployBegin(k, t) \/ UninstallBegin(k, t)
    \/ \E k \in Skills : UninstallMissing(k) \/ NewSnapshot(k) \/ Tombstone(k)
    \/ EngineStep \/ Recovery
    \/ Crash \/ StepFails \/ Tamper

Spec == Init /\ [][Next]_deployVars

-----------------------------------------------------------------------------
(* Type correctness.                                                       *)
DeployTypeOK ==
    /\ current \in [Skills -> Hashes \cup {None}]
    /\ catalog \in [Skills -> Hashes \cup {None}]
    /\ target \in Contents
    /\ stage \in [Txs -> Contents]
    /\ aside \in [Txs -> Contents]
    /\ journal \in [Txs -> Journals]

(* What a crash at any step of a command leaves behind is gone when the    *)
(* startup recovery is over: no journal, no staging, backup or quarantine  *)
(* directory is left, and the directory holds what the catalog says.       *)
RecoveredClean ==
    hit \subseteq {"crash"} /\ op = Idle =>
        /\ \A t \in Txs : Fresh(t)
        /\ \A k \in Skills : catalog[k] # None => target = catalog[k]

(* Content that was moved away from the agent's directory always has the   *)
(* journal that can bring it back or finish its removal.                   *)
SetAsideIsJournaled ==
    \A t \in Txs : aside[t] # None => journal[t] # NoJournal

(* A deployment is all of stage, swap and record, or none of it: the       *)
(* directory holds what the catalog says, or a transaction of that skill   *)
(* is open.                                                                *)
DeployTransactional ==
    \A k \in Skills :
        catalog[k] # None /\ target # catalog[k]
          => \E t \in Txs : journal[t].skill = k

(* Whatever journals crashes and deleted skills have left behind, the      *)
(* recovery never undoes a deployment that a later one replaced: as long   *)
(* as nothing else has failed, deployments are transactional.              *)
CatalogHonest == hit \subseteq {"crash", "tombstone"} => DeployTransactional

(* SQLite has the authority over an uninstall: a quarantined directory is  *)
(* put back or is deleted for good, and is deleted only once the catalog   *)
(* row is gone.                                                            *)
RemovalNeedsCatalog ==
    [][\A t \in OfKind("uninstall") :
          aside[t] # None /\ aside'[t] # aside[t]
             => \/ target' = aside[t]
                \/ catalog[journal[t].skill] = None]_deployVars
=============================================================================
