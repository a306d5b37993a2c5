-------------------------- MODULE DeploymentProofs --------------------------
(***************************************************************************)
(* The two engines and their recovery for any skills, hashes, transaction  *)
(* ids and failures.  EngineInv holds whatever fails: what the process is  *)
(* doing is one of a few plans, and what was moved aside has its journal.  *)
(* CrashInv says of every point of every plan what a crash there leaves    *)
(* and which part of the recovery will find it.                            *)
(***************************************************************************)
EXTENDS Deployment, TLAPS

(* The steps that can be left in each mode.                                *)
DeployPlans ==
    {<<"stage", "prepared", "set_aside", "old_moved", "swap", "verify",
       "activated", "drop_aside", "record", "ack">>,
     <<"prepared", "set_aside", "old_moved", "swap", "verify", "activated",
       "drop_aside", "record", "ack">>,
     <<"stage", "prepared", "swap", "verify", "activated", "drop_aside",
       "record", "ack">>,
     <<"prepared", "swap", "verify", "activated", "drop_aside", "record", "ack">>,
     <<"set_aside", "old_moved", "swap", "verify", "activated", "drop_aside",
       "record", "ack">>,
     <<"old_moved", "swap", "verify", "activated", "drop_aside", "record", "ack">>,
     <<"swap", "verify", "activated", "drop_aside", "record", "ack">>,
     <<"verify", "activated", "drop_aside", "record", "ack">>,
     <<"activated", "drop_aside", "record", "ack">>,
     <<"drop_aside", "record", "ack">>, <<"record", "ack">>, <<"ack">>,
     <<"drop_target", "restore", "forget">>, <<"restore", "forget">>,
     <<"drop_target", "forget">>, <<"forget">>, <<>>}

UninstallPlans ==
    {<<"set_aside", "moved", "uncatalog">>, <<"moved", "uncatalog">>,
     <<"uncatalog">>, <<"drop_aside", "forget">>, <<"forget">>, <<>>}

RecoverPlans ==
    {<<"swap", "recheck", "activated", "drop_aside", "commit">>,
     <<"recheck", "activated", "drop_aside", "commit">>,
     <<"activated", "drop_aside", "commit">>, <<"drop_aside", "commit">>,
     <<"activated", "commit">>, <<"commit">>,
     <<"drop_stage", "restore", "forget">>, <<"drop_stage", "forget">>,
     <<"drop_target", "restore", "forget">>, <<"drop_target", "forget">>,
     <<"restore", "forget">>, <<"forget">>, <<>>}

ReplayPlans == {<<"record", "ack">>, <<"ack">>, <<>>}
FindPlans == {<<"forget">>, <<"commit">>, <<>>}
SettlePlans ==
    {<<"restore", "forget">>, <<"drop_aside", "forget">>, <<"forget">>, <<>>}

Modes == {"idle", "down", "deploy", "uninstall", "recover", "replay", "find", "settle"}

PlansOf(mode) ==
    CASE mode = "deploy" -> DeployPlans
      [] mode = "uninstall" -> UninstallPlans
      [] mode = "recover" -> RecoverPlans
      [] mode = "replay" -> ReplayPlans
      [] mode = "find" -> FindPlans
      [] mode = "settle" -> SettlePlans
      [] OTHER -> {<<>>}

(* The kind of the journals that each mode works on.                       *)
KindOf(mode) ==
    IF mode \in {"deploy", "recover", "replay"} THEN "deploy" ELSE "uninstall"

Plans == DeployPlans \cup UninstallPlans \cup RecoverPlans \cup ReplayPlans
           \cup FindPlans \cup SettlePlans

(* Plans that start with nothing aside, or forget a journal without having *)
(* put back or dropped what is aside.                                      *)
NothingAside ==
    {<<"stage", "prepared", "set_aside", "old_moved", "swap", "verify",
       "activated", "drop_aside", "record", "ack">>,
     <<"prepared", "set_aside", "old_moved", "swap", "verify", "activated",
       "drop_aside", "record", "ack">>,
     <<"stage", "prepared", "swap", "verify", "activated", "drop_aside",
       "record", "ack">>,
     <<"prepared", "swap", "verify", "activated", "drop_aside", "record", "ack">>,
     <<"set_aside", "old_moved", "swap", "verify", "activated", "drop_aside",
       "record", "ack">>,
     <<"set_aside", "moved", "uncatalog">>,
     <<"drop_stage", "forget">>, <<"drop_target", "forget">>, <<"forget">>}

Working(t) == op.todo # <<>> /\ op.tx = t

OpInv ==
    /\ op \in [mode : Modes, tx : Txs \cup {None}, todo : Plans,
               left : SUBSET Txs, found : SUBSET Txs]
    /\ op.mode = "idle" => op = Idle
    /\ op.mode = "down" => op = Down
    /\ op.todo \in PlansOf(op.mode)
    /\ op.todo # <<>> => op.tx \in Txs
    /\ \A t \in Txs : Working(t) \/ t \in op.left \cup op.found
                        => journal[t].kind = KindOf(op.mode)
    /\ \A t \in Txs : Working(t) => t \notin op.left \cup op.found
    /\ op.left \cap op.found = {}
    /\ op.mode \in Commands => op.left = {} /\ op.found = {} /\ op.todo # <<>>

JournalInv ==
    \A t \in Txs :
        /\ journal[t].kind = "deploy" =>
              /\ journal[t].hash \in Hashes
              /\ journal[t].phase \in {"intent", "prepared", "old_moved", "activated"}
        /\ journal[t].kind = "uninstall" => journal[t].phase \in {"intent", "moved"}

AsideInv ==
    /\ SetAsideIsJournaled
    /\ op.todo \in NothingAside => aside[op.tx] = None
    /\ op.mode \in {"uninstall", "settle"} /\ op.todo = <<"drop_aside", "forget">>
         => catalog[journal[op.tx].skill] = None

EngineInv == DeployTypeOK /\ OpInv /\ JournalInv /\ AsideInv

-----------------------------------------------------------------------------
(* Crashes and deleted skills, the skill k alone in the directory.         *)

Crashes == hit \subseteq {"crash", "tombstone"}

Honest(k) == catalog[k] # None => target = catalog[k]
Kept(k, t) == aside[t] # None /\ (catalog[k] # None => aside[t] = catalog[k])

(* A deployment that was activated, and one that was activated for a skill *)
(* that was deleted before it could be recorded.                           *)
Activated(t) ==
    /\ journal[t].kind = "deploy" /\ journal[t].phase = "activated"
    /\ stage[t] = None /\ aside[t] = None
Settled(t) == Fresh(t) \/ (Activated(t) /\ "tombstone" \in hit)
Rolled(t) == Activated(t) /\ target = journal[t].hash

(* What a crash can leave of a deployment ...                              *)
Untouched(k, t) == aside[t] = None /\ Honest(k)
Moved(k, t) == target = None /\ stage[t] = journal[t].hash /\ Kept(k, t)
Swapped(k, t) == target = journal[t].hash /\ stage[t] = None /\ Kept(k, t)

DeployOpen(k, t) ==
    LET j == journal[t] IN
    /\ j.kind = "deploy"
    /\ \/ j.phase = "intent" /\ Untouched(k, t)
       \/ /\ j.phase = "prepared" /\ j.replaced
          /\ \/ Untouched(k, t) /\ stage[t] = j.hash /\ target # None
             \/ Moved(k, t)
       \/ /\ j.phase = "prepared" /\ ~j.replaced
          /\ aside[t] = None /\ catalog[k] = None
          /\ \/ stage[t] = j.hash /\ target = None
             \/ stage[t] = None /\ target = j.hash
       \/ j.phase = "old_moved" /\ (Moved(k, t) \/ Swapped(k, t))
       \/ j.phase = "activated" /\ target = j.hash /\ stage[t] = None

(* ... and of an uninstall.                                                *)
Quarantined(k, t) ==
    /\ journal[t].kind = "uninstall" /\ stage[t] = None /\ target = None
    /\ \/ Kept(k, t)
       \/ journal[t].phase = "moved" /\ aside[t] = None /\ catalog[k] = None

UninstallOpen(k, t) ==
    \/ /\ journal[t].kind = "uninstall" /\ journal[t].phase = "intent"
       /\ stage[t] = None /\ target # None /\ Untouched(k, t)
    \/ Quarantined(k, t)

(* What the recovery still comes to.                                       *)
Waiting(k, t) ==
    /\ ~Working(t)
    /\ \/ op.mode = "down" /\ (DeployOpen(k, t) \/ UninstallOpen(k, t))
       \/ op.mode = "recover" /\ \/ t \in op.left /\ DeployOpen(k, t)
                                 \/ t \in op.found /\ Rolled(t)
                                 \/ UninstallOpen(k, t)
       \/ op.mode = "replay" /\ \/ t \in op.left /\ Rolled(t)
                                \/ UninstallOpen(k, t)
       \/ op.mode = "find" /\ \/ t \in op.left /\ UninstallOpen(k, t)
                              \/ t \in op.found /\ Quarantined(k, t)
       \/ op.mode = "settle" /\ t \in op.left /\ Quarantined(k, t)

(* The state of the transaction at hand, by the step that comes next.      *)
DeployPoint(k, t) ==
    LET j == journal[t]
        before == j.phase = "intent" /\ Untouched(k, t) /\ (j.replaced <=> target # None)
        moved == \/ j.replaced /\ j.phase = "old_moved" /\ Kept(k, t)
                 \/ ~j.replaced /\ j.phase = "prepared" /\ aside[t] = None /\ catalog[k] = None
    IN
    /\ op.todo \in DeployPlans
    /\ Step("stage") => /\ before /\ op.todo = DeploySteps(j.replaced)
    /\ Step("prepared") => /\ before /\ stage[t] = j.hash
                           /\ op.todo = Tail(DeploySteps(j.replaced))
    /\ Step("set_aside") => /\ j.phase = "prepared" /\ j.replaced /\ Untouched(k, t)
                            /\ stage[t] = j.hash /\ target # None
    /\ Step("old_moved") => j.phase = "prepared" /\ j.replaced /\ Moved(k, t)
    /\ Step("swap") => moved /\ target = None /\ stage[t] = j.hash
    /\ Step("verify") \/ Step("activated") => moved /\ target = j.hash /\ stage[t] = None
    /\ Step("drop_aside") => j.phase = "activated" /\ target = j.hash /\ stage[t] = None
    /\ Step("record") => Rolled(t)
    /\ Step("ack") => Rolled(t) /\ Honest(k)
    /\ ~Step("drop_target") /\ ~Step("restore") /\ ~Step("forget")

UninstallPoint(k, t) ==
    /\ stage[t] = None
    /\ Step("set_aside") => journal[t].phase = "intent" /\ Untouched(k, t) /\ target # None
    /\ Step("moved") => journal[t].phase = "intent" /\ Quarantined(k, t)
    /\ Step("uncatalog") => journal[t].phase = "moved" /\ target = None /\ Kept(k, t)
    /\ Step("drop_aside") => /\ journal[t].phase = "moved" /\ Quarantined(k, t)
                             /\ catalog[k] = None
    /\ Step("forget") => /\ journal[t].phase = "moved" /\ Quarantined(k, t)
                         /\ aside[t] = None

RecoverPoint(k, t) ==
    LET j == journal[t] IN
    /\ op.todo \notin {<<"drop_stage", "restore", "forget">>,
                       <<"restore", "forget">>}
    /\ ~Step("drop_target")
    /\ Step("drop_stage") => Untouched(k, t)
    /\ Step("forget") => Untouched(k, t) /\ stage[t] = None
    /\ Step("swap") => target = None /\ stage[t] = j.hash /\ aside[t] # None
    /\ Step("recheck") \/ Step("activated") => target = j.hash /\ stage[t] = None
    /\ op.todo = <<"activated", "commit">> => aside[t] = None
    /\ Step("drop_aside") => target = j.hash /\ stage[t] = None /\ j.phase = "activated"
    /\ Step("commit") => Rolled(t)

ReplayPoint(k, t) ==
    Rolled(t) /\ (Step("ack") => Honest(k))

FindPoint(k, t) ==
    /\ Step("forget") => stage[t] = None /\ Untouched(k, t)
    /\ Step("commit") => Quarantined(k, t)

SettlePoint(k, t) ==
    /\ stage[t] = None
    /\ Step("restore") => target = None /\ Kept(k, t)
    /\ Step("drop_aside") => target = None /\ catalog[k] = None
    /\ Step("forget") => Untouched(k, t)

Point(k, t) ==
    /\ op.mode = "deploy" => DeployPoint(k, t)
    /\ op.mode = "uninstall" => UninstallPoint(k, t)
    /\ op.mode = "recover" => RecoverPoint(k, t)
    /\ op.mode = "replay" => ReplayPoint(k, t)
    /\ op.mode = "find" => FindPoint(k, t)
    /\ op.mode = "settle" => SettlePoint(k, t)

(* What recover_incomplete has reported is what the directory holds.       *)
Reported ==
    /\ op.mode = "recover" => \A t \in op.found : Rolled(t)
    /\ op.mode = "replay" => \A t \in op.left : Rolled(t)

RowsAgree(k) == current[k] = None => catalog[k] = None

CrashInv(k) ==
    /\ RowsAgree(k)
    /\ Crashes =>
        /\ current[k] = None => "tombstone" \in hit
        /\ Reported
        /\ \A t \in Txs : Working(t) => Point(k, t)
        /\ \A t \in Txs : Working(t) \/ Settled(t) \/ Waiting(k, t)
        /\ \A t, v \in Txs : t = v \/ Settled(t) \/ Settled(v)
        /\ Honest(k) \/ (\E t \in Txs : Working(t) \/ Waiting(k, t))

(* What is left of a plan is a plan of the same mode, and has something    *)
(* aside only if the plan had.                                             *)
(* What is left of a plan is a plan of the same mode, and has something    *)
(* aside only if the plan had.                                             *)
(* What is left of a plan is a plan of the same mode, and has something    *)
(* aside only if the plan had.                                             *)
(* What is left of a plan is a plan of the same mode, and has something    *)
(* aside only if the plan had.                                             *)
(* What is left of a plan is a plan of the same mode, and has something    *)
(* aside only if the plan had.                                             *)
(* What is left of a plan is a plan of the same mode, and has something    *)
(* aside only if the plan had.                                             *)
(* What is left of a plan is a plan of the same mode, and has something    *)
(* aside only if the plan had.                                             *)
(* What is left of a plan is a plan of the same mode, and has something    *)
(* aside only if the plan had.                                             *)
(* What is left of a plan is a plan of the same mode, and has something    *)
(* aside only if the plan had.                                             *)
(* What is left of a plan is a plan of the same mode, and has something    *)
(* aside only if the plan had.                                             *)
(* What is left of a plan is a plan of the same mode, and has something    *)
(* aside only if the plan had.                                             *)
(* What is left of a plan is a plan of the same mode, and has something    *)
(* aside only if the plan had.                                             *)
(* What is left of a plan is a plan of the same mode, and has something    *)
(* aside only if the plan had.                                             *)
(* What is left of a plan is a plan of the same mode, and has something    *)
(* aside only if the plan had.                                             *)
(* What is left of a plan is a plan of the same mode, and has something    *)
(* aside only if the plan had.                                             *)
(* What is left of a plan is a plan of the same mode, and has something    *)
(* aside only if the plan had.                                             *)
(* What is left of a plan is a plan of the same mode, and has something    *)
(* aside only if the plan had.                                             *)
(* What is left of a plan is a plan of the same mode, and has something    *)
(* aside only if the plan had.                                             *)
(* What is left of a plan is a plan of the same mode, and has something    *)
(* aside only if the plan had.                                             *)
(* What is left of a plan is a plan of the same mode, and has something    *)
(* aside only if the plan had.                                             *)
(* What is left of a plan is a plan of the same mode, and has something    *)
(* aside only if the plan had.                                             *)
(* What is left of a plan is a plan of the same mode, and has something    *)
(* aside only if the plan had.                                             *)
(* What is left of a plan is a plan of the same mode, and has something    *)
(* aside only if the plan had.                                             *)
(* What is left of a plan is a plan of the same mode, and has something    *)
(* aside only if the plan had.                                             *)
(* What is left of a plan is a plan of the same mode, and has something    *)
(* aside only if the plan had.                                             *)
(* What is left of a plan is a plan of the same mode, and has something    *)
(* aside only if the plan had.                                             *)
(* What is left of a plan is a plan of the same mode, and has something    *)
(* aside only if the plan had.                                             *)
(* What is left of a plan is a plan of the same mode, and has something    *)
(* aside only if the plan had.                                             *)
(* What is left of a plan is a plan of the same mode, and has something    *)
(* aside only if the plan had.                                             *)
(* What is left of a plan is a plan of the same mode, and has something    *)
(* aside only if the plan had.                                             *)
(* What is left of a plan is a plan of the same mode, and has something    *)
(* aside only if the plan had.                                             *)
(* What is left of a plan is a plan of the same mode, and has something    *)
(* aside only if the plan had.                                             *)
LEMMA FindTails ==
    /\ Tail(<<"forget">>) = <<>>
    /\ Tail(<<"commit">>) = <<>>
OBVIOUS

LEMMA FindAside ==
    /\ <<"forget">> \in NothingAside
    /\ <<"commit">> \notin NothingAside
    /\ <<>> \notin NothingAside
BY DEF NothingAside

LEMMA ReplayTails ==
    /\ Tail(<<"record", "ack">>) = <<"ack">>
    /\ Tail(<<"ack">>) = <<>>
OBVIOUS

LEMMA ReplayAside ==
    /\ <<"record", "ack">> \notin NothingAside
    /\ <<"ack">> \notin NothingAside
    /\ <<>> \notin NothingAside
BY DEF NothingAside

LEMMA SettleTails ==
    /\ Tail(<<"restore", "forget">>) = <<"forget">>
    /\ Tail(<<"drop_aside", "forget">>) = <<"forget">>
    /\ Tail(<<"forget">>) = <<>>
OBVIOUS

LEMMA SettleAside ==
    /\ <<"restore", "forget">> \notin NothingAside
    /\ <<"drop_aside", "forget">> \notin NothingAside
    /\ <<"forget">> \in NothingAside
    /\ <<>> \notin NothingAside
BY DEF NothingAside

LEMMA UninstallTails ==
    /\ Tail(<<"set_aside", "moved", "uncatalog">>) = <<"moved", "uncatalog">>
    /\ Tail(<<"moved", "uncatalog">>) = <<"uncatalog">>
    /\ Tail(<<"uncatalog">>) = <<>>
    /\ Tail(<<"drop_aside", "forget">>) = <<"forget">>
    /\ Tail(<<"forget">>) = <<>>
OBVIOUS

LEMMA UninstallAside ==
    /\ <<"set_aside", "moved", "uncatalog">> \in NothingAside
    /\ <<"moved", "uncatalog">> \notin NothingAside
    /\ <<"uncatalog">> \notin NothingAside
    /\ <<"drop_aside", "forget">> \notin NothingAside
    /\ <<"forget">> \in NothingAside
    /\ <<>> \notin NothingAside
BY DEF NothingAside

LEMMA RecoverTails ==
    /\ Tail(<<"swap", "recheck", "activated", "drop_aside", "commit">>) =
         <<"recheck", "activated", "drop_aside", "commit">>
    /\ Tail(<<"recheck", "activated", "drop_aside", "commit">>) = <<"activated",
         "drop_aside", "commit">>
    /\ Tail(<<"activated", "drop_aside", "commit">>) = <<"drop_aside",
         "commit">>
    /\ Tail(<<"drop_aside", "commit">>) = <<"commit">>
    /\ Tail(<<"activated", "commit">>) = <<"commit">>
    /\ Tail(<<"commit">>) = <<>>
    /\ Tail(<<"drop_stage", "restore", "forget">>) = <<"restore", "forget">>
    /\ Tail(<<"drop_stage", "forget">>) = <<"forget">>
    /\ Tail(<<"drop_target", "restore", "forget">>) = <<"restore", "forget">>
    /\ Tail(<<"drop_target", "forget">>) = <<"forget">>
    /\ Tail(<<"restore", "forget">>) = <<"forget">>
    /\ Tail(<<"forget">>) = <<>>
OBVIOUS

LEMMA RecoverAside ==
    /\ <<"swap", "recheck", "activated", "drop_aside", "commit">> \notin
         NothingAside
    /\ <<"recheck", "activated", "drop_aside", "commit">> \notin NothingAside
    /\ <<"activated", "drop_aside", "commit">> \notin NothingAside
    /\ <<"drop_aside", "commit">> \notin NothingAside
    /\ <<"activated", "commit">> \notin NothingAside
    /\ <<"commit">> \notin NothingAside
    /\ <<"drop_stage", "restore", "forget">> \notin NothingAside
    /\ <<"drop_stage", "forget">> \in NothingAside
    /\ <<"drop_target", "restore", "forget">> \notin NothingAside
    /\ <<"drop_target", "forget">> \in NothingAside
    /\ <<"restore", "forget">> \notin NothingAside
    /\ <<"forget">> \in NothingAside
    /\ <<>> \notin NothingAside
BY DEF NothingAside

LEMMA DeployTails ==
    /\ Tail(<<"stage", "prepared", "set_aside", "old_moved", "swap", "verify",
         "activated", "drop_aside", "record", "ack">>) = <<"prepared",
         "set_aside", "old_moved", "swap", "verify", "activated", "drop_aside",
         "record", "ack">>
    /\ Tail(<<"prepared", "set_aside", "old_moved", "swap", "verify",
         "activated", "drop_aside", "record", "ack">>) = <<"set_aside",
         "old_moved", "swap", "verify", "activated", "drop_aside", "record",
         "ack">>
    /\ Tail(<<"stage", "prepared", "swap", "verify", "activated", "drop_aside",
         "record", "ack">>) = <<"prepared", "swap", "verify", "activated",
         "drop_aside", "record", "ack">>
    /\ Tail(<<"prepared", "swap", "verify", "activated", "drop_aside", "record",
         "ack">>) = <<"swap", "verify", "activated", "drop_aside", "record",
         "ack">>
    /\ Tail(<<"set_aside", "old_moved", "swap", "verify", "activated",
         "drop_aside", "record", "ack">>) = <<"old_moved", "swap", "verify",
         "activated", "drop_aside", "record", "ack">>
    /\ Tail(<<"old_moved", "swap", "verify", "activated", "drop_aside",
         "record", "ack">>) = <<"swap", "verify", "activated", "drop_aside",
         "record", "ack">>
    /\ Tail(<<"swap", "verify", "activated", "drop_aside", "record", "ack">>) =
         <<"verify", "activated", "drop_aside", "record", "ack">>
    /\ Tail(<<"verify", "activated", "drop_aside", "record", "ack">>) =
         <<"activated", "drop_aside", "record", "ack">>
    /\ Tail(<<"activated", "drop_aside", "record", "ack">>) = <<"drop_aside",
         "record", "ack">>
    /\ Tail(<<"drop_aside", "record", "ack">>) = <<"record", "ack">>
    /\ Tail(<<"record", "ack">>) = <<"ack">>
    /\ Tail(<<"ack">>) = <<>>
    /\ Tail(<<"drop_target", "restore", "forget">>) = <<"restore", "forget">>
    /\ Tail(<<"restore", "forget">>) = <<"forget">>
    /\ Tail(<<"drop_target", "forget">>) = <<"forget">>
    /\ Tail(<<"forget">>) = <<>>
OBVIOUS

LEMMA DeployAside ==
    /\ <<"stage", "prepared", "set_aside", "old_moved", "swap", "verify",
         "activated", "drop_aside", "record", "ack">> \in NothingAside
    /\ <<"prepared", "set_aside", "old_moved", "swap", "verify", "activated",
         "drop_aside", "record", "ack">> \in NothingAside
    /\ <<"stage", "prepared", "swap", "verify", "activated", "drop_aside",
         "record", "ack">> \in NothingAside
    /\ <<"prepared", "swap", "verify", "activated", "drop_aside", "record",
         "ack">> \in NothingAside
    /\ <<"set_aside", "old_moved", "swap", "verify", "activated", "drop_aside",
         "record", "ack">> \in NothingAside
    /\ <<"old_moved", "swap", "verify", "activated", "drop_aside", "record",
         "ack">> \notin NothingAside
    /\ <<"swap", "verify", "activated", "drop_aside", "record", "ack">> \notin
         NothingAside
    /\ <<"verify", "activated", "drop_aside", "record", "ack">> \notin
         NothingAside
    /\ <<"activated", "drop_aside", "record", "ack">> \notin NothingAside
    /\ <<"drop_aside", "record", "ack">> \notin NothingAside
    /\ <<"record", "ack">> \notin NothingAside
    /\ <<"ack">> \notin NothingAside
    /\ <<"drop_target", "restore", "forget">> \notin NothingAside
    /\ <<"restore", "forget">> \notin NothingAside
    /\ <<"drop_target", "forget">> \in NothingAside
    /\ <<"forget">> \in NothingAside
    /\ <<>> \notin NothingAside
BY DEF NothingAside

LEMMA TailPlans ==
    ASSUME NEW m \in Modes, NEW s \in PlansOf(m), s # <<>>
    PROVE  Tail(s) \in PlansOf(m)
<1>1. CASE m = "find"
  <2>1. s \in FindPlans /\ PlansOf(m) = FindPlans
    BY <1>1 DEF PlansOf
  <2>2. Tail(s) \in FindPlans
    BY <2>1, FindTails DEF FindPlans
  <2> QED
    BY <2>1, <2>2
<1>2. CASE m = "replay"
  <2>1. s \in ReplayPlans /\ PlansOf(m) = ReplayPlans
    BY <1>2 DEF PlansOf
  <2>2. Tail(s) \in ReplayPlans
    BY <2>1, ReplayTails DEF ReplayPlans
  <2> QED
    BY <2>1, <2>2
<1>3. CASE m = "settle"
  <2>1. s \in SettlePlans /\ PlansOf(m) = SettlePlans
    BY <1>3 DEF PlansOf
  <2>2. Tail(s) \in SettlePlans
    BY <2>1, SettleTails DEF SettlePlans
  <2> QED
    BY <2>1, <2>2
<1>4. CASE m = "uninstall"
  <2>1. s \in UninstallPlans /\ PlansOf(m) = UninstallPlans
    BY <1>4 DEF PlansOf
  <2>2. Tail(s) \in UninstallPlans
    BY <2>1, UninstallTails DEF UninstallPlans
  <2> QED
    BY <2>1, <2>2
<1>5. CASE m = "recover"
  <2>1. s \in RecoverPlans /\ PlansOf(m) = RecoverPlans
    BY <1>5 DEF PlansOf
  <2>2. Tail(s) \in RecoverPlans
    BY <2>1, RecoverTails DEF RecoverPlans
  <2> QED
    BY <2>1, <2>2
<1>6. CASE m = "deploy"
  <2>1. s \in DeployPlans /\ PlansOf(m) = DeployPlans
    BY <1>6 DEF PlansOf
  <2>2. Tail(s) \in DeployPlans
    BY <2>1, DeployTails DEF DeployPlans
  <2> QED
    BY <2>1, <2>2
<1>7. CASE m \in {"idle", "down"}
  BY <1>7 DEF PlansOf
<1> QED
  BY <1>1, <1>2, <1>3, <1>4, <1>5, <1>6, <1>7 DEF Modes

LEMMA TailAside ==
    ASSUME NEW m \in Modes, NEW s \in PlansOf(m), s # <<>>,
           Tail(s) \in NothingAside
    PROVE  s \in NothingAside \/ s \in {<<"restore", "forget">>, <<"drop_aside", "forget">>}
<1>1. CASE m = "find"
  <2>1. s \in FindPlans
    BY <1>1 DEF PlansOf
  <2> QED
    BY <2>1, FindTails, FindAside DEF FindPlans
<1>2. CASE m = "replay"
  <2>1. s \in ReplayPlans
    BY <1>2 DEF PlansOf
  <2> QED
    BY <2>1, ReplayTails, ReplayAside DEF ReplayPlans
<1>3. CASE m = "settle"
  <2>1. s \in SettlePlans
    BY <1>3 DEF PlansOf
  <2> QED
    BY <2>1, SettleTails, SettleAside DEF SettlePlans
<1>4. CASE m = "uninstall"
  <2>1. s \in UninstallPlans
    BY <1>4 DEF PlansOf
  <2> QED
    BY <2>1, UninstallTails, UninstallAside DEF UninstallPlans
<1>5. CASE m = "recover"
  <2>1. s \in RecoverPlans
    BY <1>5 DEF PlansOf
  <2> QED
    BY <2>1, RecoverTails, RecoverAside DEF RecoverPlans
<1>6. CASE m = "deploy"
  <2>1. s \in DeployPlans
    BY <1>6 DEF PlansOf
  <2> QED
    BY <2>1, DeployTails, DeployAside DEF DeployPlans
<1>7. CASE m \in {"idle", "down"}
  BY <1>7 DEF PlansOf
<1> QED
  BY <1>1, <1>2, <1>3, <1>4, <1>5, <1>6, <1>7 DEF Modes

(* Which modes have a step, and what may come after it.                    *)
LEMMA Heads ==
    ASSUME NEW m \in Modes, NEW s \in PlansOf(m), s # <<>>
    PROVE  /\ Head(s) \in {"stage", "prepared", "set_aside", "forget"}
                => s \in NothingAside
           /\ Head(s) = "moved" => m = "uninstall"
           /\ Head(s) = "uncatalog" => m = "uninstall"
           /\ Head(s) = "commit" => s = <<"commit">> /\ m \in {"recover", "find"}
           /\ Head(s) = "forget" => s = <<"forget">>
           /\ Head(s) = "ack" => s = <<"ack">> /\ m \in {"deploy", "replay"}
           /\ Head(s) \in {"prepared", "old_moved", "activated"}
                => m \in {"deploy", "recover"}
           /\ Head(s) \in {"stage", "swap", "verify", "recheck", "record",
                           "drop_stage", "drop_target"}
                => KindOf(m) = "deploy"
<1>1. CASE m = "find"
  BY <1>1, FindAside DEF PlansOf, FindPlans, KindOf
<1>2. CASE m = "replay"
  BY <1>2, ReplayAside DEF PlansOf, ReplayPlans, KindOf
<1>3. CASE m = "settle"
  BY <1>3, SettleAside DEF PlansOf, SettlePlans, KindOf
<1>4. CASE m = "uninstall"
  BY <1>4, UninstallAside DEF PlansOf, UninstallPlans, KindOf
<1>5. CASE m = "recover"
  BY <1>5, RecoverAside DEF PlansOf, RecoverPlans, KindOf
<1>6. CASE m = "deploy"
  <2>1. s \in DeployPlans /\ KindOf(m) = "deploy"
    BY <1>6 DEF PlansOf, KindOf
  <2>2. Head(s) \in {"stage", "prepared", "set_aside", "forget"} => s \in NothingAside
    <3>1. Head(s) = "stage" => s \in NothingAside
      BY <2>1 DEF DeployPlans, NothingAside
    <3>2. Head(s) = "prepared" => s \in NothingAside
      BY <2>1 DEF DeployPlans, NothingAside
    <3>3. Head(s) = "set_aside" => s \in NothingAside
      BY <2>1 DEF DeployPlans, NothingAside
    <3>4. Head(s) = "forget" => s \in NothingAside
      BY <2>1 DEF DeployPlans, NothingAside
    <3> QED
      BY <3>1, <3>2, <3>3, <3>4
  <2>3. /\ Head(s) \notin {"moved", "uncatalog", "commit"}
        /\ Head(s) = "forget" => s = <<"forget">>
        /\ Head(s) = "ack" => s = <<"ack">>
    BY <2>1 DEF DeployPlans
  <2> QED
    BY <1>6, <2>1, <2>2, <2>3
<1>7. CASE m \in {"idle", "down"}
  BY <1>7 DEF PlansOf
<1> QED
  BY <1>1, <1>2, <1>3, <1>4, <1>5, <1>6, <1>7 DEF Modes

LEMMA Removals ==
    ASSUME NEW m \in {"uninstall", "settle", "find"},
           NEW s \in PlansOf(m), s # <<>>
    PROVE  /\ Head(s) = "drop_aside" => /\ s = <<"drop_aside", "forget">>
                                        /\ m \in {"uninstall", "settle"}
           /\ Tail(s) # <<"drop_aside", "forget">>
<1>1. Head(s) = "drop_aside" => /\ s = <<"drop_aside", "forget">>
                                /\ m \in {"uninstall", "settle"}
  <2>1. CASE m = "find"
    BY <2>1 DEF PlansOf, FindPlans
  <2>2. CASE m = "uninstall"
    BY <2>2 DEF PlansOf, UninstallPlans
  <2>3. CASE m = "settle"
    BY <2>3 DEF PlansOf, SettlePlans
  <2> QED
    BY <2>1, <2>2, <2>3
<1>2. Tail(s) \in {<<"moved", "uncatalog">>, <<"uncatalog">>, <<"forget">>, <<>>}
  <2>1. CASE m = "find"
    BY <2>1, FindTails DEF PlansOf, FindPlans
  <2>2. CASE m = "uninstall"
    BY <2>2, UninstallTails DEF PlansOf, UninstallPlans
  <2>3. CASE m = "settle"
    BY <2>3, SettleTails DEF PlansOf, SettlePlans
  <2> QED
    BY <2>1, <2>2, <2>3
<1>3. <<"drop_aside", "forget">>
        \notin {<<"moved", "uncatalog">>, <<"uncatalog">>, <<"forget">>, <<>>}
  OBVIOUS
<1> QED
  BY <1>1, <1>2, <1>3

LEMMA PlansOfPlans ==
    ASSUME NEW m \in Modes
    PROVE  PlansOf(m) \subseteq Plans
BY DEF PlansOf, Plans, Modes, FindPlans

(* The plans that depend on the disk: those with nothing aside are chosen  *)
(* only where nothing is.                                                  *)
LEMMA DeployStepsPlan ==
    ASSUME NEW r
    PROVE  DeploySteps(r) \in DeployPlans
BY DEF DeploySteps, DeployPlans

LEMMA UndoStepsPlan ==
    /\ UndoSteps \in DeployPlans
    /\ UndoSteps \in NothingAside => aside[tx] = None
<1>1. <<"drop_target", "restore", "forget">> \in DeployPlans
  BY DEF DeployPlans
<1>2. <<"drop_target", "forget">> \in DeployPlans
  BY DEF DeployPlans
<1> QED
  BY <1>1, <1>2, DeployAside DEF UndoSteps

LEMMA FinalizeStepsPlan ==
    ASSUME NEW t
    PROVE  /\ FinalizeSteps(t) \in UninstallPlans
           /\ FinalizeSteps(t) \in SettlePlans
           /\ FinalizeSteps(t) \notin NothingAside
BY SettleAside DEF FinalizeSteps, UninstallPlans, SettlePlans

LEMMA RollbackStepsPlan ==
    ASSUME NEW t
    PROVE  /\ RollbackSteps(t) \in SettlePlans
           /\ RollbackSteps(t) \in NothingAside => aside[t] = None
           /\ RollbackSteps(t) # <<"drop_aside", "forget">>
<1>1. \/ RollbackSteps(t) = <<"restore", "forget">>
      \/ RollbackSteps(t) = <<"forget">> /\ aside[t] = None
      \/ RollbackSteps(t) = <<>>
  BY DEF RollbackSteps
<1>2. /\ <<"restore", "forget">> # <<"drop_aside", "forget">>
      /\ <<"forget">> # <<"drop_aside", "forget">>
      /\ <<>> # <<"drop_aside", "forget">>
  OBVIOUS
<1> QED
  BY <1>1, <1>2, SettleAside DEF SettlePlans

LEMMA RecoveryStepsPlan ==
    ASSUME NEW t, NEW readable \in BOOLEAN
    PROVE  /\ RecoverySteps(t, readable) \in RecoverPlans
           /\ RecoverySteps(t, readable) \in NothingAside => aside[t] = None
<1>1. /\ ActivateSteps(t, readable) \in RecoverPlans
      /\ ActivateSteps(t, readable) \notin NothingAside
  BY RecoverAside DEF ActivateSteps, RecoverPlans
<1>2. /\ VerifyOrRestore(t, readable) \in RecoverPlans
      /\ VerifyOrRestore(t, readable) \notin NothingAside
  BY RecoverAside DEF VerifyOrRestore, RecoverPlans
<1>3. VerifyOrRemove(t, readable) \in RecoverPlans
  BY DEF VerifyOrRemove, RecoverPlans
<1>4. <<"drop_stage", "forget">> \in RecoverPlans
  BY DEF RecoverPlans
<1>5. <<"restore", "forget">> \in RecoverPlans /\ <<>> \in RecoverPlans
  BY DEF RecoverPlans
<1> DEFINE phase == journal[t].phase
           exists == <<target # None, stage[t] # None, aside[t] # None>>
           steps == RecoverySteps(t, readable)
<1>6. \/ aside[t] = None /\ steps = <<"drop_stage", "forget">>
      \/ steps = ActivateSteps(t, readable)
      \/ steps = VerifyOrRestore(t, readable)
      \/ steps = <<"restore", "forget">>
      \/ aside[t] = None /\ steps = VerifyOrRemove(t, readable)
      \/ steps = <<>>
  BY DEF RecoverySteps
<1> HIDE DEF steps
<1>7. steps \in RecoverPlans
  BY <1>1, <1>2, <1>3, <1>4, <1>5, <1>6
<1>8. steps \in NothingAside => aside[t] = None
  BY <1>1, <1>2, <1>6, RecoverAside
<1> QED
  BY <1>7, <1>8 DEF steps

-----------------------------------------------------------------------------
(* What the process is doing.                                              *)

(* The transaction at hand goes on with the steps s.                       *)
LEMMA Proceeds ==
    ASSUME OpInv, op.todo # <<>>, NEW s \in PlansOf(op.mode),
           op' = After(s),
           \A t \in Txs \ {op.tx} : journal'[t].kind = journal[t].kind,
           s # <<>> => journal'[op.tx].kind = journal[op.tx].kind
    PROVE  /\ OpInv'
           /\ op'.todo = s
           /\ s # <<>> => op'.mode = op.mode /\ op'.tx = op.tx
<1>1. op.mode \in Modes /\ op.tx \in Txs /\ s \in Plans
  BY PlansOfPlans DEF OpInv
<1>2. op.tx \notin op.left \cup op.found /\ journal[op.tx].kind = KindOf(op.mode)
  BY <1>1 DEF OpInv, Working
<1>3. CASE s = <<>> /\ op.mode \in Commands
  <2>1. op' = Idle
    BY <1>3 DEF After
  <2>2. Idle = [mode |-> "idle", tx |-> None, todo |-> <<>>, left |-> {}, found |-> {}]
    BY DEF Idle, Doing
  <2>3. <<>> \in Plans
    BY DEF Plans, FindPlans
  <2> QED
    BY <1>3, <2>1, <2>2, <2>3 DEF OpInv, Working, PlansOf, Modes, Commands
<1>4. CASE ~(s = <<>> /\ op.mode \in Commands)
  <2>1. op' = [op EXCEPT !.todo = s]
    BY <1>4 DEF After
  <2>2. /\ op'.mode = op.mode /\ op'.tx = op.tx /\ op'.todo = s
        /\ op'.left = op.left /\ op'.found = op.found
        /\ op' \in [mode : Modes, tx : Txs \cup {None}, todo : Plans,
                    left : SUBSET Txs, found : SUBSET Txs]
    BY <1>1, <2>1 DEF OpInv
  <2>3. op.mode \notin {"idle", "down"}
    BY DEF OpInv, Idle, Down, Doing
  <2>4. \A t \in Txs : Working(t)' \/ t \in op.left \cup op.found
                         => journal'[t].kind = KindOf(op.mode)
    BY <1>1, <1>2, <2>2 DEF OpInv, Working
  <2>5. \A t \in Txs : Working(t)' => t \notin op.left \cup op.found
    BY <1>2, <2>2 DEF Working
  <2>6. op.mode \in Commands => s # <<>> /\ op.left = {} /\ op.found = {}
    BY <1>4 DEF OpInv
  <2> QED
    BY <1>1, <2>2, <2>3, <2>4, <2>5, <2>6 DEF OpInv
<1> QED
  BY <1>3, <1>4

(* The recovery turns to journal t.                                        *)
LEMMA Visits ==
    ASSUME OpInv, NEW t \in Txs, NEW mode \in Modes,
           NEW s \in PlansOf(mode), Visit(mode, t, s)
    PROVE  OpInv' /\ op'.todo = s /\ op'.mode = mode /\ op'.tx = t
<1>1. op.mode \in Modes /\ s \in Plans /\ op.mode = mode /\ op.todo = <<>>
      /\ t \in op.left /\ journal' = journal
  BY PlansOfPlans DEF OpInv, Visit
<1>2. /\ op'.mode = op.mode /\ op'.tx = t /\ op'.todo = s
      /\ op'.left = op.left \ {t} /\ op'.found = op.found
      /\ op' \in [mode : Modes, tx : Txs \cup {None}, todo : Plans,
                  left : SUBSET Txs, found : SUBSET Txs]
  BY <1>1 DEF OpInv, Visit
<1>3. op.mode \notin {"idle", "down"} \cup Commands
  BY <1>1 DEF OpInv, Idle, Down, Doing
<1>4. \A v \in Txs : Working(v)' \/ v \in op'.left \cup op'.found
                       => journal[v].kind = KindOf(op.mode)
  BY <1>1, <1>2 DEF OpInv, Working
<1>5. \A v \in Txs : Working(v)' => v \notin op'.left \cup op'.found
  BY <1>1, <1>2 DEF OpInv, Working
<1> QED
  BY <1>1, <1>2, <1>3, <1>4, <1>5 DEF OpInv

(* Nothing that the process is doing changes.                              *)
LEMMA StandsStill ==
    ASSUME OpInv, op' = op, \A t \in Txs : journal'[t].kind = journal[t].kind
    PROVE  OpInv'
BY DEF OpInv, Working

(* The process does nothing, or begins a pass over some journals.          *)
LEMMA Begins ==
    ASSUME NEW mode \in Modes \ Commands, NEW L \in SUBSET Txs,
           op' = [mode |-> mode, tx |-> None, todo |-> <<>>, left |-> L, found |-> {}],
           mode \in {"idle", "down"} => L = {},
           \A t \in L : journal'[t].kind = KindOf(mode)
    PROVE  OpInv' /\ op'.todo = <<>>
<1>2. <<>> \in PlansOf(mode) /\ <<>> \in Plans
  BY DEF PlansOf, Modes, Commands, Plans, FindPlans, ReplayPlans, SettlePlans,
         RecoverPlans
<1>3. op' \in [mode : Modes, tx : Txs \cup {None}, todo : Plans,
               left : SUBSET Txs, found : SUBSET Txs]
  <2>1. ASSUME NEW p \in Plans
        PROVE  [mode |-> mode, tx |-> None, todo |-> p, left |-> L, found |-> {}]
                 \in [mode : Modes, tx : Txs \cup {None}, todo : Plans,
                      left : SUBSET Txs, found : SUBSET Txs]
    OBVIOUS
  <2> QED
    BY <1>2, <2>1, Zenon
<1>4. mode \in {"idle", "down"} => op' = Doing(mode)
  BY DEF Doing
<1> QED
  BY <1>2, <1>3, <1>4 DEF OpInv, Working, Idle, Down

(* The transaction at hand has a journal of the kind the mode works on.    *)
LEMMA AtHand ==
    ASSUME EngineInv, op.todo # <<>>
    PROVE  /\ op.tx \in Txs /\ op.mode \in Modes /\ op.todo \in PlansOf(op.mode)
           /\ journal[op.tx] \in Journals \ {NoJournal}
           /\ journal[op.tx].kind = KindOf(op.mode)
           /\ journal[op.tx].skill \in Skills
           /\ journal[op.tx].hash \in Hashes \cup {None}
<1>1. /\ op.tx \in Txs /\ op.mode \in Modes /\ op.todo \in PlansOf(op.mode)
      /\ journal[op.tx].kind = KindOf(op.mode)
  BY DEF EngineInv, OpInv, Working
<1>2. journal[op.tx] \in Journals /\ journal[op.tx] # NoJournal
  BY <1>1 DEF EngineInv, DeployTypeOK, KindOf, NoJournal
<1> QED
  BY <1>1, <1>2 DEF Journals

LEMMA JournalTypes ==
    ASSUME NEW j \in Journals
    PROVE  /\ j.kind \in {"deploy", "uninstall", "none"}
           /\ j = NoJournal <=> j.kind = "none"
           /\ \A s \in {"intent", "prepared", "old_moved", "activated", "moved"} :
                j # NoJournal => [j EXCEPT !.phase = s] \in Journals \ {NoJournal}
BY DEF Journals, NoJournal

(* A step that goes on with what is left of the plan.                      *)
LEMMA GoesOn ==
    ASSUME EngineInv, op.todo # <<>>, Proceed,
           \A t \in Txs \ {op.tx} : journal'[t].kind = journal[t].kind,
           Tail(op.todo) # <<>> => journal'[op.tx].kind = journal[op.tx].kind
    PROVE  /\ OpInv' /\ op'.todo = Tail(op.todo)
           /\ op'.todo \in NothingAside
                => /\ op'.tx = op.tx
                   /\ op.todo \in NothingAside \/ Head(op.todo) \in {"restore", "drop_aside"}
           /\ op'.mode \in {"uninstall", "settle"}
                => op'.todo # <<"drop_aside", "forget">>
<1>1. op.mode \in Modes /\ op.todo \in PlansOf(op.mode) /\ OpInv
  BY DEF EngineInv, OpInv
<1>2. Tail(op.todo) \in PlansOf(op.mode)
  BY <1>1, TailPlans
<1>3. /\ OpInv' /\ op'.todo = Tail(op.todo)
      /\ Tail(op.todo) # <<>> => op'.mode = op.mode /\ op'.tx = op.tx
  BY <1>1, <1>2, Proceeds DEF Proceed
<1>4. <<>> \notin NothingAside
  BY FindAside
<1>5. op'.todo \in NothingAside
        => /\ op'.tx = op.tx
           /\ op.todo \in NothingAside \/ Head(op.todo) \in {"restore", "drop_aside"}
  <2>1. Head(<<"restore", "forget">>) = "restore"
    OBVIOUS
  <2>2. Head(<<"drop_aside", "forget">>) = "drop_aside"
    OBVIOUS
  <2> QED
    BY <1>1, <1>3, <1>4, <2>1, <2>2, TailAside
<1>6. op'.mode \in {"uninstall", "settle"} => op'.todo # <<"drop_aside", "forget">>
  <2>1. <<>> # <<"drop_aside", "forget">>
    OBVIOUS
  <2> QED
    BY <1>1, <1>3, <2>1, Removals
<1> QED
  BY <1>3, <1>5, <1>6

(* A step that is the last one.                                            *)
LEMMA Stops ==
    ASSUME EngineInv, op.todo # <<>>, GiveUp,
           \A t \in Txs \ {op.tx} : journal'[t].kind = journal[t].kind
    PROVE  /\ OpInv'
           /\ op'.todo \notin NothingAside /\ op'.todo # <<"drop_aside", "forget">>
<1>1. op.mode \in Modes /\ OpInv
  BY DEF EngineInv, OpInv
<1>2. <<>> \in PlansOf(op.mode)
  BY <1>1 DEF PlansOf, Modes, DeployPlans, UninstallPlans, FindPlans,
              ReplayPlans, SettlePlans, RecoverPlans
<1>3. OpInv' /\ op'.todo = <<>>
  BY <1>1, <1>2, Proceeds DEF GiveUp
<1>4. <<>> \notin NothingAside
  BY FindAside
<1>5. <<>> # <<"drop_aside", "forget">>
  OBVIOUS
<1> QED
  BY <1>3, <1>4, <1>5

-----------------------------------------------------------------------------
(* The steps of the engines.                                               *)

(* A step that moves nothing aside and writes no journal.                  *)
LEMMA LeavesAside ==
    ASSUME EngineInv, op.todo # <<>>, Proceed \/ GiveUp,
           Head(op.todo) \notin {"restore", "drop_aside"},
           aside' = aside, journal' = journal
    PROVE  OpInv' /\ JournalInv' /\ AsideInv'
<1>1. /\ OpInv'
      /\ op'.todo \in NothingAside => op'.tx = op.tx /\ op.todo \in NothingAside
      /\ op'.mode \in {"uninstall", "settle"} => op'.todo # <<"drop_aside", "forget">>
  BY GoesOn, Stops
<1>2. JournalInv'
  BY DEF EngineInv, JournalInv
<1>3. AsideInv'
  BY <1>1 DEF EngineInv, AsideInv, SetAsideIsJournaled
<1> QED
  BY <1>1, <1>2, <1>3

LEMMA PersistEngine ==
    ASSUME EngineInv, NEW s \in {"prepared", "old_moved", "activated", "moved"},
           Persist(s)
    PROVE  EngineInv'
<1>1. /\ op.todo # <<>> /\ Head(op.todo) = s /\ Proceed
      /\ op.tx \in Txs /\ op.mode \in Modes /\ op.todo \in PlansOf(op.mode)
      /\ journal[op.tx] \in Journals \ {NoJournal}
      /\ journal[op.tx].kind = KindOf(op.mode)
  BY AtHand DEF Persist, Step
<1>2. journal \in [Txs -> Journals]
  BY DEF EngineInv, DeployTypeOK
<1> DEFINE j == [journal[op.tx] EXCEPT !.phase = s]
<1>3. /\ journal' = [journal EXCEPT ![op.tx] = j]
      /\ rows' = rows /\ disk' = disk /\ faultVars' = faultVars
  BY <1>1, <1>2 DEF Persist, tx
<1>4. /\ j \in Journals \ {NoJournal}
      /\ j.kind = journal[op.tx].kind /\ j.phase = s
      /\ j.hash = journal[op.tx].hash /\ j.skill = journal[op.tx].skill
  BY <1>1, JournalTypes DEF Journals
<1> HIDE DEF j
<1>5. /\ journal' \in [Txs -> Journals]
      /\ \A t \in Txs \ {op.tx} : journal'[t] = journal[t]
      /\ journal'[op.tx] = j
  BY <1>1, <1>2, <1>3, <1>4
<1>6. DeployTypeOK'
  BY <1>3, <1>5 DEF EngineInv, DeployTypeOK, rows, disk
<1>7. /\ OpInv'
      /\ op'.todo \in NothingAside => op'.tx = op.tx /\ op.todo \in NothingAside
      /\ op'.mode \in {"uninstall", "settle"} => op'.todo # <<"drop_aside", "forget">>
  BY <1>1, <1>4, <1>5, GoesOn
<1>8. JournalInv'
  <2>1. s # "moved" => KindOf(op.mode) = "deploy"
    BY <1>1, Heads DEF KindOf
  <2>2. s = "moved" => KindOf(op.mode) = "uninstall"
    BY <1>1, Heads DEF KindOf
  <2> QED
    BY <1>1, <1>4, <1>5, <2>1, <2>2 DEF EngineInv, JournalInv
<1>9. AsideInv'
  BY <1>1, <1>3, <1>4, <1>5, <1>7 DEF EngineInv, AsideInv, SetAsideIsJournaled, disk
<1> QED
  BY <1>6, <1>7, <1>8, <1>9 DEF EngineInv

(* A journal is removed: what was aside has been put back or dropped.      *)
LEMMA Removes ==
    ASSUME EngineInv, op.todo # <<>>, GiveUp,
           journal' \in {journal, [journal EXCEPT ![op.tx] = NoJournal]},
           aside[op.tx] = None, aside' = aside
    PROVE  OpInv' /\ JournalInv' /\ AsideInv' /\ journal' \in [Txs -> Journals]
<1>1. op.tx \in Txs /\ journal \in [Txs -> Journals]
  BY AtHand DEF EngineInv, DeployTypeOK
<1>2. /\ journal' \in [Txs -> Journals]
      /\ \A t \in Txs \ {op.tx} : journal'[t] = journal[t]
      /\ journal'[op.tx] \in {journal[op.tx], NoJournal}
  BY <1>1 DEF Journals
<1>3. OpInv' /\ op'.todo \notin NothingAside /\ op'.todo # <<"drop_aside", "forget">>
  BY <1>2, Stops
<1>4. JournalInv'
  BY <1>2 DEF EngineInv, JournalInv, NoJournal
<1>5. AsideInv'
  BY <1>1, <1>2, <1>3 DEF EngineInv, AsideInv, SetAsideIsJournaled
<1> QED
  BY <1>2, <1>3, <1>4, <1>5

LEMMA LastStep ==
    ASSUME EngineInv, op.todo # <<>>, Head(op.todo) \in {"forget", "ack"}, Proceed
    PROVE  GiveUp
<1>1. op.todo = <<"forget">> \/ op.todo = <<"ack">>
  BY AtHand, Heads
<1>2. Tail(<<"forget">>) = <<>>
  OBVIOUS
<1>3. Tail(<<"ack">>) = <<>>
  OBVIOUS
<1> QED
  BY <1>1, <1>2, <1>3 DEF Proceed, GiveUp

LEMMA ForgetEngine ==
    ASSUME EngineInv, Forget
    PROVE  EngineInv'
<1>1. op.todo # <<>> /\ Head(op.todo) = "forget" /\ Proceed
  BY DEF Forget, Step
<1>2. op.todo \in NothingAside
  BY <1>1, AtHand, Heads
<1>3. aside[op.tx] = None
  BY <1>2 DEF EngineInv, AsideInv
<1>4. GiveUp
  BY <1>1, LastStep
<1>5. OpInv' /\ JournalInv' /\ AsideInv' /\ journal' \in [Txs -> Journals]
  BY <1>1, <1>3, <1>4, Removes DEF Forget, tx, disk
<1> QED
  BY <1>5 DEF EngineInv, DeployTypeOK, Forget, rows, disk

LEMMA AcknowledgeEngine ==
    ASSUME EngineInv, Acknowledge
    PROVE  EngineInv'
<1>1. op.todo # <<>> /\ Head(op.todo) = "ack" /\ Proceed
  BY DEF Acknowledge, Step
<1>2. GiveUp
  BY <1>1, LastStep
<1>3. \/ journal' = journal
      \/ journal' = [journal EXCEPT ![op.tx] = NoJournal] /\ aside[op.tx] = None
  BY DEF Acknowledge, tx
<1>4. rows' = rows /\ disk' = disk
  BY DEF Acknowledge
<1>5. CASE journal' = journal
  <2>1. OpInv' /\ JournalInv' /\ AsideInv'
    BY <1>1, <1>4, <1>5, LeavesAside DEF disk
  <2> QED
    BY <1>4, <1>5, <2>1 DEF EngineInv, DeployTypeOK, rows, disk
<1>6. CASE journal' = [journal EXCEPT ![op.tx] = NoJournal] /\ aside[op.tx] = None
  <2>1. OpInv' /\ JournalInv' /\ AsideInv' /\ journal' \in [Txs -> Journals]
    BY <1>1, <1>2, <1>4, <1>6, Removes DEF disk
  <2> QED
    BY <1>4, <2>1 DEF EngineInv, DeployTypeOK, rows, disk
<1> QED
  BY <1>3, <1>5, <1>6

(* What comes after a rename to the backup or the quarantine.              *)
LEMMA SetAsideTails ==
    ASSUME NEW m \in Modes, NEW s \in PlansOf(m), s # <<>>,
           Head(s) = "set_aside"
    PROVE  Tail(s) \notin NothingAside
<1>1. CASE m = "uninstall"
  <2>1. s = <<"set_aside", "moved", "uncatalog">>
    BY <1>1 DEF PlansOf, UninstallPlans
  <2> QED
    BY <2>1, UninstallTails, UninstallAside
<1>2. CASE m = "deploy"
  <2>1. s = <<"set_aside", "old_moved", "swap", "verify", "activated",
              "drop_aside", "record", "ack">>
    BY <1>2 DEF PlansOf, DeployPlans
  <2> QED
    BY <2>1, DeployTails, DeployAside
<1>3. m \notin {"find", "replay", "settle", "recover", "idle", "down"}
  BY DEF PlansOf, FindPlans, ReplayPlans, SettlePlans, RecoverPlans
<1> QED
  BY <1>1, <1>2, <1>3 DEF Modes

(* The deployment that does not verify is undone.                          *)
LEMMA Undoes ==
    ASSUME EngineInv, op.todo # <<>>, Head(op.todo) = "verify",
           op' = After(UndoSteps), disk' = disk, journal' = journal
    PROVE  OpInv' /\ JournalInv' /\ AsideInv'
<1>1. op.mode = "deploy" /\ OpInv /\ op.todo \in DeployPlans
  <2>1. op.mode \in Modes /\ op.todo \in PlansOf(op.mode)
    BY AtHand
  <2>2. op.mode \notin {"uninstall", "recover", "replay", "find", "settle", "idle", "down"}
    BY <2>1 DEF PlansOf, UninstallPlans, RecoverPlans, ReplayPlans, FindPlans,
                SettlePlans
  <2> QED
    BY <2>1, <2>2 DEF Modes, EngineInv, PlansOf
<1>2. UndoSteps \in PlansOf(op.mode)
  BY <1>1, UndoStepsPlan DEF PlansOf
<1>3. /\ OpInv' /\ op'.todo = UndoSteps
      /\ UndoSteps # <<>> => op'.mode = op.mode /\ op'.tx = op.tx
  BY <1>1, <1>2, Proceeds
<1>4. UndoSteps # <<>> /\ UndoSteps \notin {<<"drop_aside", "forget">>}
  BY DEF UndoSteps
<1>5. JournalInv'
  BY DEF EngineInv, JournalInv
<1>6. AsideInv'
  BY <1>1, <1>3, <1>4, UndoStepsPlan
     DEF EngineInv, AsideInv, SetAsideIsJournaled, disk, tx
<1> QED
  BY <1>3, <1>5, <1>6

(* The transaction at hand has nothing aside any more.                     *)
LEMMA EmptiesAside ==
    ASSUME EngineInv, op.todo # <<>>, Proceed, journal' = journal,
           aside' = [aside EXCEPT ![op.tx] = None]
    PROVE  OpInv' /\ JournalInv' /\ AsideInv'
<1>1. /\ OpInv'
      /\ op'.todo \in NothingAside => op'.tx = op.tx
      /\ op'.mode \in {"uninstall", "settle"} => op'.todo # <<"drop_aside", "forget">>
  BY GoesOn
<1>2. op.tx \in Txs
  BY AtHand
<1>3. JournalInv'
  BY DEF EngineInv, JournalInv
<1>4. AsideInv'
  BY <1>1, <1>2 DEF EngineInv, DeployTypeOK, AsideInv, SetAsideIsJournaled
<1> QED
  BY <1>1, <1>3, <1>4

LEMMA SimpleStepsEngine ==
    ASSUME EngineInv, Stage \/ Swap \/ Recheck \/ RecordDeployment
    PROVE  EngineInv'
<1>1. /\ op.todo # <<>> /\ (Proceed \/ GiveUp)
      /\ Head(op.todo) \in {"stage", "swap", "recheck", "record"}
      /\ aside' = aside /\ journal' = journal
  BY DEF Stage, Swap, Recheck, RecordDeployment, Step, disk
<1>2. OpInv' /\ JournalInv' /\ AsideInv'
  BY <1>1, LeavesAside
<1>3. /\ op.tx \in Txs /\ journal[op.tx].skill \in Skills
      /\ journal[op.tx].hash \in Hashes \cup {None}
  BY <1>1, AtHand
<1>4. DeployTypeOK'
  <2>1. CASE Stage
    BY <1>1, <1>3, <2>1 DEF EngineInv, DeployTypeOK, Stage, Record, tx, rows, Contents
  <2>2. CASE Swap
    BY <1>1, <1>3, <2>2 DEF EngineInv, DeployTypeOK, Swap, tx, rows, Contents
  <2>3. CASE Recheck
    BY <1>1, <2>3 DEF EngineInv, DeployTypeOK, Recheck, rows, disk
  <2>4. CASE RecordDeployment
    BY <1>1, <1>3, <2>4 DEF EngineInv, DeployTypeOK, RecordDeployment, Record, tx, disk
  <2> QED
    BY <2>1, <2>2, <2>3, <2>4
<1> QED
  BY <1>2, <1>4 DEF EngineInv

LEMMA SetAsideEngine ==
    ASSUME EngineInv, SetAside
    PROVE  EngineInv'
<1>1. /\ op.todo # <<>> /\ Head(op.todo) = "set_aside" /\ (Proceed \/ GiveUp)
      /\ aside' = [aside EXCEPT ![op.tx] = target] /\ target' = None
      /\ rows' = rows /\ stage' = stage /\ journal' = journal
  BY DEF SetAside, Step, tx
<1>2. op.tx \in Txs /\ journal[op.tx] # NoJournal
  BY <1>1, AtHand
<1>3. OpInv' /\ op'.todo \notin NothingAside
      /\ (op'.mode \in {"uninstall", "settle"} => op'.todo # <<"drop_aside", "forget">>)
  <2>1. CASE GiveUp
    BY <1>1, <2>1, Stops
  <2>2. CASE Proceed
    <3>1. /\ OpInv'
          /\ op'.mode \in {"uninstall", "settle"} => op'.todo # <<"drop_aside", "forget">>
      BY <1>1, <2>2, GoesOn
    <3>2. op'.todo = Tail(op.todo)
      BY <1>1, <2>2, GoesOn
    <3>3. op.mode \in Modes /\ op.todo \in PlansOf(op.mode)
      BY <1>1, AtHand
    <3>4. Tail(op.todo) \notin NothingAside
      BY <1>1, <3>3, SetAsideTails
    <3> QED
      BY <3>1, <3>2, <3>4
  <2> QED
    BY <1>1, <2>1, <2>2
<1>4. DeployTypeOK'
  BY <1>1, <1>2 DEF EngineInv, DeployTypeOK, rows, Contents
<1>5. JournalInv'
  BY <1>1 DEF EngineInv, JournalInv
<1>6. AsideInv'
  BY <1>1, <1>2, <1>3 DEF EngineInv, DeployTypeOK, AsideInv, SetAsideIsJournaled
<1> QED
  BY <1>3, <1>4, <1>5, <1>6 DEF EngineInv

LEMMA VerifyEngine ==
    ASSUME EngineInv, Verify
    PROVE  EngineInv'
<1>1. /\ op.todo # <<>> /\ Head(op.todo) = "verify"
      /\ Proceed \/ op' = After(UndoSteps)
      /\ rows' = rows /\ disk' = disk /\ journal' = journal
  BY DEF Verify, Step
<1>2. DeployTypeOK'
  BY <1>1 DEF EngineInv, DeployTypeOK, rows, disk
<1>3. CASE Proceed
  BY <1>1, <1>2, <1>3, LeavesAside DEF EngineInv, disk
<1>4. CASE op' = After(UndoSteps)
  BY <1>1, <1>2, <1>4, Undoes DEF EngineInv, disk
<1> QED
  BY <1>1, <1>3, <1>4

LEMMA DropEngine ==
    ASSUME EngineInv, Drop
    PROVE  EngineInv'
<1>1. op.todo # <<>> /\ Proceed /\ rows' = rows /\ journal' = journal
  BY DEF Drop, Step
<1>2. op.tx \in Txs
  BY <1>1, AtHand
<1>3. CASE Head(op.todo) # "drop_aside"
  <2>1. aside' = aside /\ Head(op.todo) \in {"drop_target", "drop_stage"}
    BY <1>3 DEF Drop, Step
  <2>2. OpInv' /\ JournalInv' /\ AsideInv'
    BY <1>1, <2>1, LeavesAside
  <2>3. DeployTypeOK'
    BY <1>1, <1>2, <2>1 DEF EngineInv, DeployTypeOK, Drop, Step, rows, tx, Contents
  <2> QED
    BY <2>2, <2>3 DEF EngineInv
<1>4. CASE Head(op.todo) = "drop_aside"
  <2>1. /\ aside' = [aside EXCEPT ![op.tx] = None]
        /\ target' = target /\ stage' = stage
    BY <1>4 DEF Drop, Step, tx
  <2>2. DeployTypeOK'
    BY <1>1, <1>2, <2>1 DEF EngineInv, DeployTypeOK, rows, Contents
  <2> QED
    BY <1>1, <1>2, <2>1, <2>2, EmptiesAside DEF EngineInv
<1> QED
  BY <1>3, <1>4

LEMMA RestoreEngine ==
    ASSUME EngineInv, Restore
    PROVE  EngineInv'
<1>1. /\ op.todo # <<>> /\ Proceed /\ rows' = rows /\ journal' = journal
      /\ aside' = [aside EXCEPT ![op.tx] = None]
      /\ target' = aside[op.tx] /\ stage' = stage
  BY DEF Restore, Step, tx
<1>2. op.tx \in Txs
  BY <1>1, AtHand
<1>3. DeployTypeOK'
  BY <1>1, <1>2 DEF EngineInv, DeployTypeOK, rows, Contents
<1> QED
  BY <1>1, <1>2, <1>3, EmptiesAside DEF EngineInv

(* Nothing is at hand afterwards, or no part of the plan touches what is   *)
(* aside.                                                                  *)
LEMMA AsideRests ==
    ASSUME EngineInv, journal' = journal,
           op'.todo \notin NothingAside, op'.todo # <<"drop_aside", "forget">>,
           \A t \in Txs : aside'[t] # None => aside[t] # None
    PROVE  JournalInv' /\ AsideInv'
BY DEF EngineInv, JournalInv, AsideInv, SetAsideIsJournaled

LEMMA EmptyPlan == <<>> \notin NothingAside /\ <<>> # <<"drop_aside", "forget">>
BY FindAside

LEMMA UncatalogEngine ==
    ASSUME EngineInv, Uncatalog
    PROVE  EngineInv'
<1>1. /\ op.todo # <<>> /\ Head(op.todo) = "uncatalog"
      /\ op' = After(FinalizeSteps(op.tx))
      /\ catalog' = [catalog EXCEPT ![journal[op.tx].skill] = None]
      /\ current' = current /\ disk' = disk /\ journal' = journal
  BY DEF Uncatalog, Step, Record, tx
<1>2. /\ op.tx \in Txs /\ op.mode \in Modes /\ op.todo \in PlansOf(op.mode)
      /\ journal[op.tx].skill \in Skills
  BY <1>1, AtHand
<1>3. op.mode = "uninstall" /\ OpInv
  BY <1>1, <1>2, Heads DEF EngineInv
<1>4. FinalizeSteps(op.tx) \in PlansOf(op.mode)
  BY <1>3, FinalizeStepsPlan DEF PlansOf
<1>5. /\ OpInv' /\ op'.todo = FinalizeSteps(op.tx)
      /\ op'.todo # <<>> => op'.tx = op.tx
  BY <1>1, <1>3, <1>4, Proceeds
<1>6. DeployTypeOK'
  BY <1>1, <1>2 DEF EngineInv, DeployTypeOK, disk
<1>7. op'.todo \notin NothingAside
  BY <1>5, FinalizeStepsPlan
<1>8. op'.todo = <<"drop_aside", "forget">> => catalog'[journal[op'.tx].skill] = None
  BY <1>1, <1>2, <1>5, EmptyPlan DEF EngineInv, DeployTypeOK
<1>9. AsideInv'
  BY <1>1, <1>7, <1>8 DEF EngineInv, AsideInv, SetAsideIsJournaled, disk
<1>10. JournalInv'
  BY <1>1 DEF EngineInv, JournalInv
<1> QED
  BY <1>5, <1>6, <1>9, <1>10 DEF EngineInv

LEMMA ReportCommitEngine ==
    ASSUME EngineInv, ReportCommit
    PROVE  EngineInv'
<1>1. /\ op.todo # <<>> /\ Head(op.todo) = "commit"
      /\ op' = [After(Tail(op.todo)) EXCEPT !.found = @ \cup {op.tx}]
      /\ rows' = rows /\ disk' = disk /\ journal' = journal
  BY DEF ReportCommit, Step, tx
<1>2. /\ op.tx \in Txs /\ op.mode \in Modes /\ op.todo \in PlansOf(op.mode)
  BY <1>1, AtHand
<1>3. op.todo = <<"commit">> /\ op.mode \in {"recover", "find"}
  BY <1>1, <1>2, Heads
<1>4. Tail(<<"commit">>) = <<>>
  OBVIOUS
<1>5. op' = [op EXCEPT !.todo = <<>>, !.found = op.found \cup {op.tx}]
  <2>1. After(<<>>) = [op EXCEPT !.todo = <<>>]
    BY <1>3 DEF After, Commands
  <2>2. op' = [[op EXCEPT !.todo = <<>>] EXCEPT !.found = @ \cup {op.tx}]
    BY <1>1, <1>3, <1>4, <2>1
  <2> QED
    BY <2>2 DEF EngineInv, OpInv
<1>6. OpInv'
  <2>1. <<>> \in PlansOf(op.mode) /\ <<>> \in Plans
    BY <1>3 DEF PlansOf, Plans, RecoverPlans, FindPlans
  <2>2. /\ op'.mode = op.mode /\ op'.tx = op.tx /\ op'.todo = <<>>
        /\ op'.left = op.left /\ op'.found = op.found \cup {op.tx}
    BY <1>5 DEF EngineInv, OpInv
  <2>3. op' \in [mode : Modes, tx : Txs \cup {None}, todo : Plans,
                 left : SUBSET Txs, found : SUBSET Txs]
    BY <1>2, <1>5, <2>1 DEF EngineInv, OpInv
  <2>4. op.tx \notin op.left \cup op.found /\ journal[op.tx].kind = KindOf(op.mode)
    BY <1>1, <1>2 DEF EngineInv, OpInv, Working
  <2> QED
    BY <1>1, <1>2, <1>3, <2>1, <2>2, <2>3, <2>4
       DEF EngineInv, OpInv, Working, Commands
<1>7. op'.todo = <<>>
  BY <1>5 DEF EngineInv, OpInv
<1>8. JournalInv' /\ AsideInv'
  BY <1>1, <1>7, EmptyPlan, AsideRests DEF disk
<1>9. DeployTypeOK'
  BY <1>1 DEF EngineInv, DeployTypeOK, rows, disk
<1> QED
  BY <1>6, <1>8, <1>9 DEF EngineInv

LEMMA EngineStepEngine ==
    ASSUME EngineInv, EngineStep
    PROVE  EngineInv'
BY PersistEngine, ForgetEngine, AcknowledgeEngine, SimpleStepsEngine,
   SetAsideEngine, VerifyEngine, DropEngine, RestoreEngine, UncatalogEngine,
   ReportCommitEngine DEF EngineStep

-----------------------------------------------------------------------------
(* The commands, the recovery, the failures.                               *)

LEMMA DeployBeginEngine ==
    ASSUME EngineInv, NEW k \in Skills, NEW t \in Txs, DeployBegin(k, t)
    PROVE  EngineInv'
<1> DEFINE j == [kind |-> "deploy", phase |-> "intent", skill |-> k,
                 hash |-> current[k], replaced |-> target # None]
           s == DeploySteps(target # None)
<1>1. /\ op = Idle /\ current[k] # None /\ aside[t] = None
      /\ journal' = [journal EXCEPT ![t] = j]
      /\ op' = [Doing("deploy") EXCEPT !.tx = t, !.todo = s]
      /\ rows' = rows /\ disk' = disk
  BY DEF DeployBegin, Fresh
<1>2. j \in Journals /\ j.kind = "deploy" /\ j # NoJournal
      /\ j.hash \in Hashes /\ j.phase = "intent"
  BY <1>1 DEF Journals, NoJournal, EngineInv, DeployTypeOK
<1> HIDE DEF j
<1>3. /\ journal' \in [Txs -> Journals] /\ journal'[t] = j
      /\ \A v \in Txs \ {t} : journal'[v] = journal[v]
  BY <1>1, <1>2 DEF EngineInv, DeployTypeOK
<1>4. s \in DeployPlans /\ s # <<>>
  BY DeployStepsPlan DEF DeploySteps
<1> HIDE DEF s
<1>5. op' = [mode |-> "deploy", tx |-> t, todo |-> s, left |-> {}, found |-> {}]
  BY <1>1 DEF Doing
<1>6. OpInv'
  <2>1. op' \in [mode : Modes, tx : Txs \cup {None}, todo : Plans,
                 left : SUBSET Txs, found : SUBSET Txs]
    BY <1>4, <1>5 DEF Plans, Modes
  <2> QED
    BY <1>2, <1>3, <1>4, <1>5, <2>1 DEF OpInv, Working, PlansOf, KindOf, Commands
<1>7. DeployTypeOK'
  BY <1>1, <1>3 DEF EngineInv, DeployTypeOK, rows, disk
<1>8. JournalInv'
  BY <1>2, <1>3 DEF EngineInv, JournalInv
<1>9. AsideInv'
  <2>1. op'.mode = "deploy" /\ op'.tx = t /\ aside' = aside
    <3>1. op'.mode = "deploy" /\ op'.tx = t
      BY <1>5
    <3> QED
      BY <1>1, <3>1 DEF disk
  <2> QED
    BY <1>1, <1>2, <1>3, <2>1 DEF EngineInv, AsideInv, SetAsideIsJournaled
<1> QED
  BY <1>6, <1>7, <1>8, <1>9 DEF EngineInv

LEMMA UninstallBeginEngine ==
    ASSUME EngineInv, NEW k \in Skills, NEW t \in Txs, UninstallBegin(k, t)
    PROVE  EngineInv'
<1> DEFINE j == [NoJournal EXCEPT !.kind = "uninstall", !.phase = "intent",
                                  !.skill = k]
           s == <<"set_aside", "moved", "uncatalog">>
<1>1. /\ op = Idle /\ aside[t] = None
      /\ journal' = [journal EXCEPT ![t] = j]
      /\ op' = [Doing("uninstall") EXCEPT !.tx = t, !.todo = s]
      /\ rows' = rows /\ disk' = disk
  BY DEF UninstallBegin, Fresh
<1>2. PICK n : n = NoJournal
  OBVIOUS
<1>3. j \in Journals /\ j.kind = "uninstall" /\ j # NoJournal /\ j.phase = "intent"
  <2>1. n \in [kind : {"none", "uninstall"}, phase : {"none", "intent"},
               skill : {None} \cup Skills, hash : {None} \cup Hashes,
               replaced : BOOLEAN]
    BY <1>2 DEF NoJournal
  <2>2. j = [n EXCEPT !.kind = "uninstall", !.phase = "intent", !.skill = k]
    BY <1>2
  <2> HIDE DEF j
  <2>3. /\ j \in [kind : {"none", "uninstall"}, phase : {"none", "intent"},
                  skill : {None} \cup Skills, hash : {None} \cup Hashes,
                  replaced : BOOLEAN]
        /\ j.kind = "uninstall" /\ j.phase = "intent" /\ j.skill = k
    BY <2>1, <2>2
  <2>4. j \in [kind : {"deploy", "uninstall"},
               phase : {"intent", "prepared", "old_moved", "activated", "moved"},
               skill : Skills, hash : Hashes \cup {None}, replaced : BOOLEAN]
    BY <2>3
  <2> QED
    BY <2>3, <2>4 DEF Journals, NoJournal
<1> HIDE DEF j
<1>4. /\ journal' \in [Txs -> Journals] /\ journal'[t] = j
      /\ \A v \in Txs \ {t} : journal'[v] = journal[v]
  BY <1>1, <1>3 DEF EngineInv, DeployTypeOK
<1>5. s \in UninstallPlans /\ s # <<>> /\ s # <<"drop_aside", "forget">>
  BY DEF UninstallPlans
<1> HIDE DEF s
<1>6. op' = [mode |-> "uninstall", tx |-> t, todo |-> s, left |-> {}, found |-> {}]
  BY <1>1 DEF Doing
<1>7. OpInv'
  <2>1. op' \in [mode : Modes, tx : Txs \cup {None}, todo : Plans,
                 left : SUBSET Txs, found : SUBSET Txs]
    BY <1>5, <1>6 DEF Plans, Modes
  <2> QED
    BY <1>3, <1>4, <1>5, <1>6, <2>1 DEF OpInv, Working, PlansOf, KindOf, Commands
<1>8. DeployTypeOK'
  BY <1>1, <1>4 DEF EngineInv, DeployTypeOK, rows, disk
<1>9. JournalInv'
  BY <1>3, <1>4 DEF EngineInv, JournalInv
<1>10. AsideInv'
  BY <1>1, <1>3, <1>4, <1>5, <1>6 DEF EngineInv, AsideInv, SetAsideIsJournaled, disk
<1> QED
  BY <1>7, <1>8, <1>9, <1>10 DEF EngineInv

(* The catalog and the skills change, and nothing else.                    *)
LEMMA RowsEngine ==
    ASSUME EngineInv, NEW k \in Skills,
           UninstallMissing(k) \/ NewSnapshot(k) \/ Tombstone(k)
    PROVE  EngineInv'
<1>1. op' = op /\ disk' = disk /\ journal' = journal
  BY DEF UninstallMissing, NewSnapshot, Tombstone
<1>2. /\ current' \in [Skills -> Hashes \cup {None}]
      /\ catalog' \in {catalog, [catalog EXCEPT ![k] = None]}
  BY DEF UninstallMissing, NewSnapshot, Tombstone, EngineInv, DeployTypeOK
<1>3. DeployTypeOK'
  BY <1>1, <1>2 DEF EngineInv, DeployTypeOK, disk
<1>4. OpInv'
  BY <1>1, StandsStill DEF EngineInv
<1>5. \A x \in Skills : catalog[x] = None => catalog'[x] = None
  BY <1>2 DEF EngineInv, DeployTypeOK
<1>6. op.todo = <<"drop_aside", "forget">> => journal[op.tx].skill \in Skills
  <2>1. <<"drop_aside", "forget">> # <<>>
    OBVIOUS
  <2> QED
    BY <2>1, AtHand
<1>7. JournalInv' /\ AsideInv'
  BY <1>1, <1>5, <1>6
     DEF EngineInv, JournalInv, AsideInv, SetAsideIsJournaled, disk
<1> QED
  BY <1>3, <1>4, <1>7 DEF EngineInv

LEMMA TamperEngine ==
    ASSUME EngineInv, Tamper
    PROVE  EngineInv'
<1>1. /\ target' \in {None, Mixed} /\ rows' = rows /\ stage' = stage
      /\ aside' = aside /\ journal' = journal /\ op' = op
  BY DEF Tamper
<1>2. OpInv'
  BY <1>1, StandsStill DEF EngineInv
<1>3. DeployTypeOK' /\ JournalInv'
  BY <1>1 DEF EngineInv, DeployTypeOK, JournalInv, rows, Contents
<1>4. AsideInv'
  BY <1>1 DEF EngineInv, AsideInv, SetAsideIsJournaled, rows
<1> QED
  BY <1>2, <1>3, <1>4 DEF EngineInv

LEMMA TornDisk ==
    ASSUME EngineInv, Torn \/ disk' = disk
    PROVE  /\ target' \in Contents
           /\ stage' \in [Txs -> Contents]
           /\ aside' \in [Txs -> Contents]
           /\ \A t \in Txs : aside'[t] # None => aside[t] # None
<1>1. CASE disk' = disk
  BY <1>1 DEF EngineInv, DeployTypeOK, disk
<1>2. CASE Torn
  <2>1. op.tx \in Txs
    BY <1>2, AtHand DEF Torn, Step
  <2> QED
    BY <1>2, <2>1 DEF Torn, EngineInv, DeployTypeOK, Contents, tx
<1> QED
  BY <1>1, <1>2

(* The process begins a pass over the journals, or stops.                  *)
LEMMA BeginsEngine ==
    ASSUME EngineInv, NEW mode \in Modes \ Commands, NEW L \in SUBSET Txs,
           op' = [mode |-> mode, tx |-> None, todo |-> <<>>, left |-> L, found |-> {}],
           mode \in {"idle", "down"} => L = {},
           \A t \in L : journal[t].kind = KindOf(mode),
           Torn \/ disk' = disk, rows' = rows, journal' = journal
    PROVE  EngineInv'
<1>1. OpInv' /\ op'.todo = <<>>
  BY Begins
<1>2. DeployTypeOK'
  BY TornDisk DEF EngineInv, DeployTypeOK, rows
<1>3. JournalInv' /\ AsideInv'
  BY <1>1, EmptyPlan, TornDisk, AsideRests
<1> QED
  BY <1>1, <1>2, <1>3 DEF EngineInv

LEMMA CrashEngine ==
    ASSUME EngineInv, Crash
    PROVE  EngineInv'
<1>1. op' = [mode |-> "down", tx |-> None, todo |-> <<>>, left |-> {}, found |-> {}]
  BY DEF Crash, Down, Doing
<1>2. (Torn \/ disk' = disk) /\ rows' = rows /\ journal' = journal
  BY DEF Crash
<1> QED
  BY <1>1, <1>2, BeginsEngine DEF Modes, Commands

LEMMA FindsEngine ==
    ASSUME EngineInv, op' = [Doing("find") EXCEPT !.left = OfKind("uninstall")],
           disk' = disk, rows' = rows, journal' = journal
    PROVE  EngineInv'
<1>1. op' = [mode |-> "find", tx |-> None, todo |-> <<>>,
             left |-> OfKind("uninstall"), found |-> {}]
  BY DEF Doing
<1>2. OfKind("uninstall") \in SUBSET Txs
      /\ \A t \in OfKind("uninstall") : journal[t].kind = "uninstall"
  BY DEF OfKind
<1> QED
  BY <1>1, <1>2, BeginsEngine DEF Modes, Commands, KindOf

LEMMA PassesEngine ==
    ASSUME EngineInv, Startup \/ NextPass
    PROVE  EngineInv'
<1>1. disk' = disk /\ rows' = rows /\ journal' = journal
  BY DEF Startup, NextPass
<1>2. op.left \in SUBSET Txs /\ op.found \in SUBSET Txs
      /\ \A t \in op.found : journal[t].kind = KindOf(op.mode)
  BY DEF EngineInv, OpInv
<1>3. \A kind : OfKind(kind) \in SUBSET Txs
                /\ \A t \in OfKind(kind) : journal[t].kind = kind
  BY DEF OfKind
<1>4. CASE Startup
  <2>1. op' = [mode |-> "recover", tx |-> None, todo |-> <<>>,
               left |-> OfKind("deploy"), found |-> {}]
    BY <1>4 DEF Startup, Doing
  <2> QED
    BY <1>1, <1>3, <2>1, BeginsEngine DEF Modes, Commands, KindOf
<1>5. CASE op.mode = "recover" /\ op' = [Doing("replay") EXCEPT !.left = op.found]
  <2>1. op' = [mode |-> "replay", tx |-> None, todo |-> <<>>, left |-> op.found,
               found |-> {}]
    BY <1>5 DEF Doing
  <2> QED
    BY <1>1, <1>2, <1>5, <2>1, BeginsEngine DEF Modes, Commands, KindOf
<1>6. CASE op' = [Doing("find") EXCEPT !.left = OfKind("uninstall")]
  BY <1>1, <1>6, FindsEngine
<1>7. CASE op.mode = "find" /\ op' = [Doing("settle") EXCEPT !.left = op.found]
  <2>1. op' = [mode |-> "settle", tx |-> None, todo |-> <<>>, left |-> op.found,
               found |-> {}]
    BY <1>7 DEF Doing
  <2> QED
    BY <1>1, <1>2, <1>7, <2>1, BeginsEngine DEF Modes, Commands, KindOf
<1>8. CASE op' = Idle
  <2>1. op' = [mode |-> "idle", tx |-> None, todo |-> <<>>, left |-> {}, found |-> {}]
    BY <1>8 DEF Idle, Doing
  <2> QED
    BY <1>1, <2>1, BeginsEngine DEF Modes, Commands
<1> QED
  BY <1>4, <1>5, <1>6, <1>7, <1>8 DEF NextPass

(* The recovery turns to a journal: what has to be aside is told by the    *)
(* disk, and a quarantine is dropped only without its row.                 *)
LEMMA VisitEngine ==
    ASSUME EngineInv, NEW t \in Txs, NEW mode \in Modes,
           NEW s \in PlansOf(mode), Visit(mode, t, s),
           s \in NothingAside => aside[t] = None,
           mode = "settle" /\ s = <<"drop_aside", "forget">>
             => catalog[journal[t].skill] = None
    PROVE  EngineInv'
<1>1. OpInv' /\ op'.todo = s /\ op'.mode = mode /\ op'.tx = t
  BY Visits DEF EngineInv
<1>2. rows' = rows /\ disk' = disk /\ journal' = journal /\ op.mode = mode
  BY DEF Visit
<1>3. mode # "uninstall"
  BY <1>2 DEF EngineInv, OpInv, Commands, Visit
<1>4. DeployTypeOK' /\ JournalInv'
  BY <1>2 DEF EngineInv, DeployTypeOK, JournalInv, rows, disk
<1>5. AsideInv'
  BY <1>1, <1>2, <1>3 DEF EngineInv, AsideInv, SetAsideIsJournaled, rows, disk
<1> QED
  BY <1>1, <1>4, <1>5 DEF EngineInv

LEMMA RecoveryEngine ==
    ASSUME EngineInv, Recovery
    PROVE  EngineInv'
<1>1. CASE Startup \/ NextPass
  BY <1>1, PassesEngine
<1>2. ASSUME NEW t \in Txs, RecoverOne(t)
      PROVE  EngineInv'
  <2>1. PICK readable \in BOOLEAN : Visit("recover", t, RecoverySteps(t, readable))
    BY <1>2 DEF RecoverOne
  <2>2. RecoverySteps(t, readable) \in PlansOf("recover")
    BY RecoveryStepsPlan DEF PlansOf
  <2> QED
    BY <2>1, <2>2, RecoveryStepsPlan, VisitEngine DEF Modes
<1>3. ASSUME NEW t \in Txs, ReplayCommit(t)
      PROVE  EngineInv'
  <2>1. <<"record", "ack">> \in PlansOf("replay")
    BY DEF PlansOf, ReplayPlans
  <2> QED
    BY <1>3, <2>1, ReplayAside, VisitEngine DEF ReplayCommit, Modes
<1>4. ASSUME NEW t \in Txs, FindUninstall(t)
      PROVE  EngineInv'
  <2>1. PICK s \in FindPlans :
            /\ Visit("find", t, s)
            /\ s = <<"forget">> => aside[t] = None
    BY <1>4 DEF FindUninstall, FindPlans
  <2>2. s \in NothingAside => aside[t] = None
    BY <2>1, FindAside DEF FindPlans
  <2>3. s \in PlansOf("find")
    BY DEF PlansOf
  <2> QED
    BY <2>1, <2>2, <2>3, VisitEngine DEF Modes
<1>5. ASSUME NEW t \in Txs, SettleUninstall(t)
      PROVE  EngineInv'
  <2>1. CASE catalog[journal[t].skill] # None
    <3>1. Visit("settle", t, RollbackSteps(t)) /\ RollbackSteps(t) \in PlansOf("settle")
      BY <1>5, <2>1, RollbackStepsPlan DEF SettleUninstall, PlansOf
    <3> QED
      BY <3>1, RollbackStepsPlan, VisitEngine DEF Modes
  <2>2. CASE catalog[journal[t].skill] = None
    <3>1. Visit("settle", t, FinalizeSteps(t)) /\ FinalizeSteps(t) \in PlansOf("settle")
      BY <1>5, <2>2, FinalizeStepsPlan DEF SettleUninstall, PlansOf
    <3> QED
      BY <2>2, <3>1, FinalizeStepsPlan, VisitEngine DEF Modes
  <2> QED
    BY <2>1, <2>2
<1> QED
  BY <1>1, <1>2, <1>3, <1>4, <1>5 DEF Recovery

LEMMA StepFailsEngine ==
    ASSUME EngineInv, StepFails
    PROVE  EngineInv'
<1>1. op.todo # <<>> /\ rows' = rows
  BY DEF StepFails
<1>2. op.tx \in Txs /\ op.mode \in Modes /\ op.todo \in PlansOf(op.mode)
  BY <1>1, AtHand
<1>3. CASE /\ Step("stage") \/ Step("prepared")
           /\ \E c \in {None, Mixed, stage[tx]} :
                 stage' = [stage EXCEPT ![tx] = c]
           /\ journal' \in {journal, [journal EXCEPT ![tx] = NoJournal]}
           /\ GiveUp /\ target' = target /\ aside' = aside
  <2>1. op.todo \in NothingAside
    BY <1>1, <1>2, <1>3, Heads DEF Step
  <2>2. aside[op.tx] = None
    BY <2>1 DEF EngineInv, AsideInv
  <2>3. OpInv' /\ JournalInv' /\ AsideInv' /\ journal' \in [Txs -> Journals]
    BY <1>1, <1>3, <2>2, Removes DEF tx
  <2>4. stage' \in [Txs -> Contents]
    BY <1>2, <1>3 DEF EngineInv, DeployTypeOK, Contents, tx
  <2> QED
    BY <1>1, <1>3, <2>3, <2>4 DEF EngineInv, DeployTypeOK, rows
<1>4. CASE Step("verify") /\ op' = After(UndoSteps) /\ disk' = disk /\ journal' = journal
  <2>1. OpInv' /\ JournalInv' /\ AsideInv'
    BY <1>4, Undoes DEF Step
  <2> QED
    BY <1>1, <1>4, <2>1 DEF EngineInv, DeployTypeOK, rows, disk
<1>5. CASE /\ op' = [Doing("find") EXCEPT !.left = OfKind("uninstall")]
           /\ disk' = disk /\ journal' = journal
  BY <1>1, <1>5, FindsEngine
<1>6. CASE GiveUp /\ (Torn \/ disk' = disk) /\ journal' = journal
  <2>1. OpInv' /\ op'.todo \notin NothingAside /\ op'.todo # <<"drop_aside", "forget">>
    BY <1>1, <1>6, Stops
  <2>2. JournalInv' /\ AsideInv'
    BY <1>6, <2>1, TornDisk, AsideRests
  <2>3. DeployTypeOK'
    BY <1>1, <1>6, TornDisk DEF EngineInv, DeployTypeOK, rows
  <2> QED
    BY <2>1, <2>2, <2>3 DEF EngineInv
<1> QED
  BY <1>1, <1>3, <1>4, <1>5, <1>6 DEF StepFails

-----------------------------------------------------------------------------

LEMMA InitEngine == Init => EngineInv
<1> SUFFICES ASSUME Init
             PROVE  EngineInv
  OBVIOUS
<1>1. op = [mode |-> "idle", tx |-> None, todo |-> <<>>, left |-> {}, found |-> {}]
  BY DEF Init, Idle, Doing
<1>2. <<>> \in Plans /\ <<>> \in PlansOf("idle")
  BY DEF Plans, FindPlans, PlansOf
<1>3. op \in [mode : Modes, tx : Txs \cup {None}, todo : Plans,
              left : SUBSET Txs, found : SUBSET Txs]
  BY <1>1, <1>2 DEF Modes
<1>4. OpInv
  BY <1>1, <1>2, <1>3 DEF OpInv, Working, Idle, Down, Doing, Commands
<1>5. DeployTypeOK
  BY DEF Init, DeployTypeOK, Contents, Journals
<1>6. JournalInv
  BY DEF Init, JournalInv, NoJournal
<1>7. AsideInv
  BY <1>1, EmptyPlan DEF Init, AsideInv, SetAsideIsJournaled
<1> QED
  BY <1>4, <1>5, <1>6, <1>7 DEF EngineInv

LEMMA NextEngine == EngineInv /\ [Next]_deployVars => EngineInv'
<1> SUFFICES ASSUME EngineInv, [Next]_deployVars
             PROVE  EngineInv'
  OBVIOUS
<1>1. CASE Next
  BY <1>1, DeployBeginEngine, UninstallBeginEngine, RowsEngine, EngineStepEngine,
     RecoveryEngine, CrashEngine, StepFailsEngine, TamperEngine DEF Next
<1>2. CASE UNCHANGED deployVars
  <2>1. /\ current' = current /\ catalog' = catalog /\ target' = target
        /\ stage' = stage /\ aside' = aside /\ journal' = journal /\ op' = op
    BY <1>2 DEF deployVars, rows, disk
  <2>2. OpInv'
    BY <2>1, StandsStill DEF EngineInv
  <2> QED
    BY <2>1, <2>2 DEF EngineInv, DeployTypeOK, JournalInv, AsideInv,
                      SetAsideIsJournaled
<1> QED
  BY <1>1, <1>2

(* Whatever fails and whenever: the process is at a point of one of the    *)
(* plans, every journal it works on is of the engine's kind, and what is   *)
(* aside has its journal.                                                  *)
THEOREM EngineInvariant == Spec => []EngineInv
BY InitEngine, NextEngine, PTL DEF Spec

(* Every variable keeps its type.                                          *)
THEOREM DeployTypes == Spec => []DeployTypeOK
BY EngineInvariant, PTL DEF EngineInv

(* Content that was moved away from the agent's directory always has the   *)
(* journal that can bring it back or finish its removal.                   *)
THEOREM SetAsideJournaled == Spec => []SetAsideIsJournaled
<1>1. EngineInv => SetAsideIsJournaled
  BY DEF EngineInv, AsideInv
<1> QED
  BY <1>1, EngineInvariant, PTL

(* The only steps that change what is aside.                               *)
LEMMA AsideChanges ==
    ASSUME EngineInv, Next, NEW t \in Txs, aside[t] # None, aside'[t] # aside[t]
    PROVE  /\ op.todo # <<>> /\ t = op.tx
           /\ \/ Head(op.todo) = "drop_aside"
              \/ Head(op.todo) = "restore" /\ target' = aside[t]
<1> DEFINE changed == /\ op.todo # <<>> /\ t = op.tx
                      /\ \/ Head(op.todo) = "drop_aside"
                         \/ Head(op.todo) = "restore" /\ target' = aside[t]
<1>1. aside \in [Txs -> Contents]
  BY DEF EngineInv, DeployTypeOK
<1>2. ASSUME SetAside PROVE FALSE
  <2>1. op.todo # <<>> /\ Head(op.todo) = "set_aside"
        /\ aside' = [aside EXCEPT ![op.tx] = target]
    BY <1>2 DEF SetAside, Step, tx
  <2>2. op.todo \in NothingAside
    BY <2>1, AtHand, Heads
  <2> QED
    BY <1>1, <2>1, <2>2 DEF EngineInv, AsideInv
<1>3. CASE Drop
  BY <1>1, <1>3 DEF Drop, Step, tx
<1>4. CASE Restore
  BY <1>1, <1>4 DEF Restore, Step, tx
<1>5. ASSUME Torn PROVE changed
  BY <1>1, <1>5 DEF Torn, Step, tx
<1>6. CASE Crash \/ StepFails
  BY <1>5, <1>6 DEF Crash, StepFails, disk
<1>7. CASE EngineStep
  <2>1. aside' = aside \/ SetAside \/ Drop \/ Restore
    BY <1>7 DEF EngineStep, Persist, Forget, Stage, Swap, Verify, Recheck,
         RecordDeployment, Acknowledge, Uncatalog, ReportCommit, disk
  <2> QED
    BY <1>2, <1>3, <1>4, <2>1
<1>8. CASE Recovery
  BY <1>8 DEF Recovery, Startup, NextPass, RecoverOne, ReplayCommit, FindUninstall,
       SettleUninstall, Visit, disk
<1>9. ASSUME NEW k \in Skills, NEW v \in Txs, DeployBegin(k, v) \/ UninstallBegin(k, v)
      PROVE  FALSE
  BY <1>9 DEF DeployBegin, UninstallBegin, disk
<1>10. ASSUME NEW k \in Skills, UninstallMissing(k) \/ NewSnapshot(k) \/ Tombstone(k)
       PROVE  FALSE
  BY <1>10 DEF UninstallMissing, NewSnapshot, Tombstone, disk
<1>11. ~Tamper
  BY DEF Tamper
<1> QED
  BY <1>6, <1>7, <1>8, <1>9, <1>10, <1>11 DEF Next

(* SQLite has the authority over an uninstall, whatever fails: what is in  *)
(* quarantine is put back, or its catalog row is gone before it goes.      *)
THEOREM RemovalHasCatalog == Spec => RemovalNeedsCatalog
<1> DEFINE A == \A t \in OfKind("uninstall") :
                  aside[t] # None /\ aside'[t] # aside[t]
                    => \/ target' = aside[t]
                       \/ catalog[journal[t].skill] = None
<1>1. ASSUME EngineInv, Next
      PROVE  A
  <2> SUFFICES ASSUME NEW t \in OfKind("uninstall"),
                      aside[t] # None, aside'[t] # aside[t], target' # aside[t]
               PROVE  catalog[journal[t].skill] = None
    OBVIOUS
  <2>1. t \in Txs /\ journal[t].kind = "uninstall"
    BY DEF OfKind
  <2>2. op.todo # <<>> /\ t = op.tx /\ Head(op.todo) = "drop_aside"
    BY <1>1, <2>1, AsideChanges
  <2>3. op.mode \in Modes /\ op.todo \in PlansOf(op.mode) /\ KindOf(op.mode) = "uninstall"
    BY <1>1, <2>1, <2>2, AtHand
  <2>4. op.mode \in {"uninstall", "settle", "find"}
    BY <2>2, <2>3 DEF KindOf, PlansOf, Modes
  <2>5. op.todo = <<"drop_aside", "forget">> /\ op.mode \in {"uninstall", "settle"}
    BY <2>2, <2>3, <2>4, Removals
  <2> QED
    BY <1>1, <2>2, <2>5 DEF EngineInv, AsideInv
<1>2. EngineInv /\ [Next]_deployVars => [A]_deployVars
  BY <1>1
<1> QED
  BY <1>2, EngineInvariant, PTL DEF Spec, RemovalNeedsCatalog

-----------------------------------------------------------------------------
(* Crashes and deleted skills: what a step means for the transaction at    *)
(* hand, and that the others keep waiting.                                 *)

LEMMA OpAfter ==
    ASSUME EngineInv, op.todo # <<>>, NEW s \in PlansOf(op.mode), op' = After(s)
    PROVE  /\ op'.todo = s
           /\ s # <<>> \/ op.mode \notin Commands
                => /\ op'.mode = op.mode /\ op'.tx = op.tx
                   /\ op'.left = op.left /\ op'.found = op.found
           /\ s = <<>> /\ op.mode \in Commands => op'.mode = "idle"
BY DEF After, EngineInv, OpInv, Idle, Doing

LEMMA ProceedOp ==
    ASSUME EngineInv, op.todo # <<>>, Proceed
    PROVE  /\ op'.todo = Tail(op.todo)
           /\ op'.todo # <<>> \/ op.mode \notin Commands
                => /\ op'.mode = op.mode /\ op'.tx = op.tx
                   /\ op'.left = op.left /\ op'.found = op.found
           /\ op'.todo = <<>> /\ op.mode \in Commands => op'.mode = "idle"
<1>1. op.mode \in Modes /\ op.todo \in PlansOf(op.mode)
  BY AtHand
<1> QED
  BY <1>1, TailPlans, OpAfter DEF Proceed

(* A skill that is alone: every journal is about it.                       *)
LEMMA AboutAlone ==
    ASSUME NEW k, Skills = {k}, EngineInv, NEW t \in Txs,
           journal[t].kind \in {"deploy", "uninstall"}
    PROVE  journal[t].skill = k
BY DEF EngineInv, DeployTypeOK, Journals, NoJournal

LEMMA WaitingKind ==
    ASSUME NEW k, NEW t, Waiting(k, t)
    PROVE  journal[t].kind \in {"deploy", "uninstall"}
BY DEF Waiting, DeployOpen, UninstallOpen, Quarantined, Rolled, Activated

LEMMA SettledKind ==
    ASSUME NEW t, Settled(t)
    PROVE  journal[t].kind \in {"deploy", "none"}
BY DEF Settled, Fresh, Activated, NoJournal

(* The other transactions while one is at hand.                            *)
LEMMA Others ==
    ASSUME NEW k, EngineInv, CrashInv(k), Crashes, op.todo # <<>>,
           NEW v \in Txs, v # op.tx
    PROVE  /\ Settled(v) \/ (Settled(op.tx) /\ Waiting(k, v))
           /\ op.mode \notin {"recover", "replay"} => Settled(v)
<1>1. /\ op.tx \in Txs /\ journal[op.tx].kind = KindOf(op.mode) /\ op.mode \in Modes
      /\ ~Working(v)
  BY AtHand DEF Working
<1>2. Settled(v) \/ (Settled(op.tx) /\ Waiting(k, v))
  BY <1>1 DEF CrashInv
<1>3. op.mode \in {"deploy", "uninstall"} => ~Waiting(k, v)
  BY DEF Waiting
<1>4. op.mode \in {"find", "settle"} => ~Settled(op.tx)
  BY <1>1, SettledKind DEF KindOf
<1>5. op.mode \notin {"idle", "down"}
  BY DEF EngineInv, OpInv, Idle, Down, Doing
<1> QED
  BY <1>1, <1>2, <1>3, <1>4, <1>5 DEF Modes

LEMMA StaysSettled ==
    ASSUME NEW t \in Txs, Settled(t), hit \subseteq hit', journal'[t] = journal[t],
           stage'[t] = stage[t], aside'[t] = aside[t]
    PROVE  Settled(t)'
BY DEF Settled, Fresh, Activated

LEMMA StaysWaiting ==
    ASSUME NEW k, NEW t \in Txs, Waiting(k, t), ~Working(t)', journal'[t] = journal[t],
           stage'[t] = stage[t], aside'[t] = aside[t], target' = target,
           op'.mode = op.mode, op'.left = op.left \/ t \in op'.left,
           op.found \subseteq op'.found,
           \/ catalog'[k] = catalog[k] \/ catalog'[k] = None
    PROVE  Waiting(k, t)'
BY DEF Waiting, DeployOpen, UninstallOpen, Quarantined, Untouched, Moved, Swapped,
       Kept, Honest, Rolled, Activated

(* What has to be shown of a step of the transaction w.                    *)
LEMMA StepFrame ==
    ASSUME NEW k \in Skills, NEW w \in Txs, w = op.tx, op.todo # <<>>,
           EngineInv, CrashInv(k), Crashes,
           hit' = hit, current' = current, RowsAgree(k)', Reported',
           \A v \in Txs \ {w} : /\ journal'[v] = journal[v]
                                /\ stage'[v] = stage[v] /\ aside'[v] = aside[v],
           op'.todo # <<>> => op'.tx = w,
           \/ Working(w)' /\ Point(k, w)'
           \/ ~Working(w)' /\ Settled(w)' /\ Honest(k)'
           \/ ~Working(w)' /\ Waiting(k, w)',
           \/ \A v \in Txs \ {w} : Settled(v)
           \/ /\ Settled(w)'
              /\ \A v \in Txs \ {w} : Settled(v) \/ Waiting(k, v)'
    PROVE  CrashInv(k)'
<1>1. \A v \in Txs \ {w} : ~Working(v)'
  BY DEF Working
<1>2. \A v \in Txs \ {w} : Settled(v) => Settled(v)'
  BY StaysSettled
<1>3. \A t \in Txs : Working(t)' => Point(k, t)'
  BY <1>1
<1>4. \A t \in Txs : Working(t)' \/ Settled(t)' \/ Waiting(k, t)'
  BY <1>2
<1>5. \A t, v \in Txs : t = v \/ Settled(t)' \/ Settled(v)'
  BY <1>2 DEF CrashInv
<1>6. Honest(k)' \/ (\E t \in Txs : Working(t)' \/ Waiting(k, t)')
  OBVIOUS
<1>7. current[k] = None => "tombstone" \in hit
  BY DEF CrashInv
<1> QED
  BY <1>3, <1>4, <1>5, <1>6, <1>7 DEF CrashInv

-----------------------------------------------------------------------------
(* A deployment that nothing but crashes and deleted skills disturbs.      *)

(* The next step of a deployment.                                          *)
LEMMA DeployNext ==
    ASSUME NEW s \in DeployPlans, s # <<>>
    PROVE  /\ Head(s) = "set_aside" => Tail(s) # <<>> /\ Head(Tail(s)) = "old_moved"
           /\ Head(s) = "old_moved" => Tail(s) # <<>> /\ Head(Tail(s)) = "swap"
           /\ Head(s) = "swap" => Tail(s) # <<>> /\ Head(Tail(s)) = "verify"
           /\ Head(s) = "verify" => Tail(s) # <<>> /\ Head(Tail(s)) = "activated"
           /\ Head(s) = "activated" => Tail(s) # <<>> /\ Head(Tail(s)) = "drop_aside"
           /\ Head(s) = "drop_aside" => Tail(s) # <<>> /\ Head(Tail(s)) = "record"
           /\ Head(s) = "record" => Tail(s) # <<>> /\ Head(Tail(s)) = "ack"
           /\ Head(s) = "ack" => Tail(s) = <<>>
<1>1. Head(s) = "set_aside" => Tail(s) # <<>> /\ Head(Tail(s)) = "old_moved"
  <2> DEFINE p == <<"set_aside", "old_moved", "swap", "verify", "activated",
                "drop_aside", "record", "ack">>
  <2>1. Head(s) = "set_aside" => s = p
    BY DEF DeployPlans
  <2>2. Tail(p) # <<>> /\ Head(Tail(p)) = "old_moved"
    OBVIOUS
  <2> QED
    BY <2>1, <2>2
<1>2. Head(s) = "old_moved" => Tail(s) # <<>> /\ Head(Tail(s)) = "swap"
  <2> DEFINE p == <<"old_moved", "swap", "verify", "activated", "drop_aside",
                "record", "ack">>
  <2>1. Head(s) = "old_moved" => s = p
    BY DEF DeployPlans
  <2>2. Tail(p) # <<>> /\ Head(Tail(p)) = "swap"
    OBVIOUS
  <2> QED
    BY <2>1, <2>2
<1>3. Head(s) = "swap" => Tail(s) # <<>> /\ Head(Tail(s)) = "verify"
  <2> DEFINE p == <<"swap", "verify", "activated", "drop_aside", "record",
                "ack">>
  <2>1. Head(s) = "swap" => s = p
    BY DEF DeployPlans
  <2>2. Tail(p) # <<>> /\ Head(Tail(p)) = "verify"
    OBVIOUS
  <2> QED
    BY <2>1, <2>2
<1>4. Head(s) = "verify" => Tail(s) # <<>> /\ Head(Tail(s)) = "activated"
  <2> DEFINE p == <<"verify", "activated", "drop_aside", "record", "ack">>
  <2>1. Head(s) = "verify" => s = p
    BY DEF DeployPlans
  <2>2. Tail(p) # <<>> /\ Head(Tail(p)) = "activated"
    OBVIOUS
  <2> QED
    BY <2>1, <2>2
<1>5. Head(s) = "activated" => Tail(s) # <<>> /\ Head(Tail(s)) = "drop_aside"
  <2> DEFINE p == <<"activated", "drop_aside", "record", "ack">>
  <2>1. Head(s) = "activated" => s = p
    BY DEF DeployPlans
  <2>2. Tail(p) # <<>> /\ Head(Tail(p)) = "drop_aside"
    OBVIOUS
  <2> QED
    BY <2>1, <2>2
<1>6. Head(s) = "drop_aside" => Tail(s) # <<>> /\ Head(Tail(s)) = "record"
  <2> DEFINE p == <<"drop_aside", "record", "ack">>
  <2>1. Head(s) = "drop_aside" => s = p
    BY DEF DeployPlans
  <2>2. Tail(p) # <<>> /\ Head(Tail(p)) = "record"
    OBVIOUS
  <2> QED
    BY <2>1, <2>2
<1>7. Head(s) = "record" => Tail(s) # <<>> /\ Head(Tail(s)) = "ack"
  <2> DEFINE p == <<"record", "ack">>
  <2>1. Head(s) = "record" => s = p
    BY DEF DeployPlans
  <2>2. Tail(p) # <<>> /\ Head(Tail(p)) = "ack"
    OBVIOUS
  <2> QED
    BY <2>1, <2>2
<1>8. Head(s) = "ack" => Tail(s) = <<>>
  <2>1. Head(s) = "ack" => s = <<"ack">>
    BY DEF DeployPlans
  <2> QED
    BY <2>1, DeployTails
<1> QED
  BY <1>1, <1>2, <1>3, <1>4, <1>5, <1>6, <1>7, <1>8

LEMMA DeployFirst ==
    ASSUME NEW r \in BOOLEAN
    PROVE  /\ DeploySteps(r) # <<>> /\ Head(DeploySteps(r)) = "stage"
           /\ Tail(DeploySteps(r)) # <<>> /\ Head(Tail(DeploySteps(r))) = "prepared"
           /\ Tail(Tail(DeploySteps(r))) # <<>>
           /\ Head(Tail(Tail(DeploySteps(r)))) = IF r THEN "set_aside" ELSE "swap"
BY DeployTails DEF DeploySteps

(* What is known of the transaction at hand.                               *)
LEMMA AtPoint ==
    ASSUME NEW k, Skills = {k}, EngineInv, CrashInv(k), Crashes, op.todo # <<>>
    PROVE  /\ op.tx \in Txs /\ journal[op.tx].kind = KindOf(op.mode)
           /\ journal[op.tx].skill = k /\ Point(k, op.tx) /\ op.mode \in Modes
           /\ op.todo \in PlansOf(op.mode)
           /\ KindOf(op.mode) = "deploy"
                => journal[op.tx].hash \in Hashes /\ journal[op.tx].hash # None
<1>1. /\ op.tx \in Txs /\ journal[op.tx].kind = KindOf(op.mode) /\ op.mode \in Modes
      /\ op.todo \in PlansOf(op.mode)
  BY AtHand
<1>2. journal[op.tx].skill = k
  BY <1>1, AboutAlone DEF KindOf
<1>3. Point(k, op.tx)
  BY <1>1 DEF CrashInv, Working
<1>4. KindOf(op.mode) = "deploy"
        => journal[op.tx].hash \in Hashes /\ journal[op.tx].hash # None
  BY <1>1, DeploymentAssumption DEF EngineInv, JournalInv
<1> QED
  BY <1>1, <1>2, <1>3, <1>4

LEMMA GiveUpOp ==
    ASSUME EngineInv, op.todo # <<>>, GiveUp
    PROVE  /\ op'.todo = <<>>
           /\ op.mode \notin Commands
                => /\ op'.mode = op.mode /\ op'.tx = op.tx
                   /\ op'.left = op.left /\ op'.found = op.found
           /\ op.mode \in Commands => op'.mode = "idle"
<1>1. op.mode \in Modes
  BY AtHand
<1>2. <<>> \in PlansOf(op.mode)
  BY <1>1 DEF PlansOf, Modes, DeployPlans, UninstallPlans, FindPlans,
              ReplayPlans, SettlePlans, RecoverPlans
<1> QED
  BY <1>2, OpAfter DEF GiveUp

(* A step of a command: the transaction comes to its next point, or it is  *)
(* over and has left nothing.                                              *)
LEMMA CommandFrame ==
    ASSUME NEW k \in Skills, NEW w \in Txs, w = op.tx, op.todo # <<>>,
           EngineInv, CrashInv(k), Crashes, Proceed \/ GiveUp,
           op.mode \in Commands,
           hit' = hit, current' = current, RowsAgree(k)',
           \A v \in Txs \ {w} : /\ journal'[v] = journal[v]
                                /\ stage'[v] = stage[v] /\ aside'[v] = aside[v],
           op'.todo # <<>> /\ op'.mode = op.mode => Point(k, w)',
           op'.todo = <<>> => Settled(w)' /\ Honest(k)'
    PROVE  CrashInv(k)'
<1>1. op.mode \in Modes /\ op.todo \in PlansOf(op.mode)
  BY AtHand
<1>2. /\ op'.todo # <<>> => op'.mode = op.mode /\ op'.tx = op.tx
      /\ op'.todo = <<>> => op'.mode = "idle"
  <2>1. CASE Proceed
    BY <2>1, ProceedOp
  <2>2. CASE GiveUp
    BY <2>2, GiveUpOp
  <2> QED
    BY <2>1, <2>2
<1>3. Reported'
  BY <1>2 DEF Reported, Commands
<1>4. \A v \in Txs \ {w} : Settled(v)
  BY Others DEF Commands
<1>5. \/ Working(w)' /\ Point(k, w)'
      \/ ~Working(w)' /\ Settled(w)' /\ Honest(k)'
  BY <1>2 DEF Working
<1> QED
  BY <1>2, <1>3, <1>4, <1>5, StepFrame

LEMMA RowsStay ==
    ASSUME NEW k, CrashInv(k), current' = current, catalog' = catalog
    PROVE  RowsAgree(k)'
BY DEF CrashInv, RowsAgree

LEMMA DeployStepCrash ==
    ASSUME NEW k \in Skills, Skills = {k}, EngineInv, EngineInv', CrashInv(k), Crashes,
           op.mode = "deploy", EngineStep
    PROVE  CrashInv(k)'
<1>1. op.todo # <<>>
  BY DEF EngineStep, Persist, Forget, Stage, SetAside, Swap, Verify, Recheck, Drop,
         Restore, RecordDeployment, Acknowledge, Uncatalog, ReportCommit, Step
<1>2. PICK w \in Txs : w = op.tx
  BY <1>1, AtHand
<1>3. PICK j \in Journals : j = journal[w]
  BY <1>1, <1>2, AtHand
<1>4. /\ op.todo \in DeployPlans
      /\ j.kind = "deploy" /\ j.skill = k /\ j.hash \in Hashes /\ j.hash # None
      /\ j.replaced \in BOOLEAN
      /\ DeployPoint(k, w)
  <2>1. PlansOf("deploy") = DeployPlans /\ KindOf("deploy") = "deploy"
    BY DEF PlansOf, KindOf
  <2>2. j # NoJournal
    BY <1>1, <1>2, <1>3, AtHand
  <2> QED
    BY <1>1, <1>2, <1>3, <2>1, <2>2, AtPoint DEF Point, Journals
<1>5. /\ journal \in [Txs -> Journals]
      /\ stage \in [Txs -> Contents] /\ aside \in [Txs -> Contents]
      /\ catalog \in [Skills -> Hashes \cup {None}]
  BY DEF EngineInv, DeployTypeOK
<1>6. Head(op.todo) \notin {"forget", "restore", "drop_target", "drop_stage",
                            "uncatalog", "commit", "recheck", "moved"}
  <2>1. Head(op.todo) \notin {"drop_stage", "uncatalog", "commit", "recheck", "moved"}
    BY <1>1, <1>4 DEF DeployPlans
  <2> QED
    BY <1>1, <1>4, <2>1 DEF DeployPoint, Step
<1>7. Proceed => op'.todo = Tail(op.todo) /\ (op'.todo # <<>> => op'.mode = "deploy")
  BY <1>1, ProceedOp
<1>8. op'.todo # <<>> => op'.todo \in DeployPlans \/ op'.mode # "deploy"
  BY DEF EngineInv, OpInv, PlansOf
<1>9. CASE Stage
  <2>1. /\ Head(op.todo) = "stage" /\ Proceed /\ stage' = [stage EXCEPT ![w] = j.hash]
        /\ rows' = rows /\ target' = target /\ aside' = aside /\ journal' = journal
        /\ hit' = hit
    BY <1>2, <1>3, <1>9 DEF Stage, Step, Record, tx, faultVars
  <2>2. op.todo = DeploySteps(j.replaced) /\ j.phase = "intent" /\ Untouched(k, w)
        /\ (j.replaced <=> target # None)
    BY <1>1, <1>3, <1>4, <2>1 DEF DeployPoint, Step
  <2>3. op'.todo # <<>> /\ Head(op'.todo) = "prepared"
        /\ op'.todo = Tail(DeploySteps(j.replaced))
    BY <1>4, <1>7, <2>1, <2>2, DeployFirst
  <2>4. Untouched(k, w)' /\ stage'[w] = j.hash
    BY <1>5, <2>1, <2>2 DEF Untouched, Honest, rows
  <2>5. DeployPoint(k, w)'
    BY <1>3, <1>7, <1>8, <2>1, <2>2, <2>3, <2>4 DEF DeployPoint, Step
  <2> QED
    BY <1>1, <1>2, <1>5, <2>1, <2>3, <2>5, CommandFrame, RowsStay
       DEF Commands, rows, Point
<1>10. CASE \E s \in {"prepared", "old_moved", "activated", "moved"} : Persist(s)
  <2>1. PICK s \in {"prepared", "old_moved", "activated"} :
            /\ Head(op.todo) = s /\ Proceed
            /\ journal' = [journal EXCEPT ![w] = [j EXCEPT !.phase = s]]
            /\ rows' = rows /\ disk' = disk /\ hit' = hit
    BY <1>2, <1>3, <1>5, <1>6, <1>10 DEF Persist, Step, tx, faultVars
  <2>2. PICK i : i = [j EXCEPT !.phase = s]
    OBVIOUS
  <2>3. /\ i.phase = s /\ i.kind = "deploy" /\ i.skill = k /\ i.hash = j.hash
        /\ i.replaced = j.replaced /\ journal'[w] = i
        /\ \A v \in Txs \ {w} : journal'[v] = journal[v]
    BY <1>3, <1>4, <1>5, <2>1, <2>2 DEF Journals, NoJournal
  <2>4. /\ target' = target /\ stage' = stage /\ aside' = aside
        /\ current' = current /\ catalog' = catalog
    BY <2>1 DEF rows, disk
  <2>5. op'.todo # <<>> /\ DeployPoint(k, w)'
    <3>1. CASE s = "prepared"
      <4>1. /\ j.phase = "intent" /\ Untouched(k, w) /\ (j.replaced <=> target # None)
            /\ stage[w] = j.hash /\ op.todo = Tail(DeploySteps(j.replaced))
        BY <1>1, <1>3, <1>4, <2>1, <3>1 DEF DeployPoint, Step
      <4>2. op'.todo # <<>> /\ Head(op'.todo) = IF j.replaced THEN "set_aside" ELSE "swap"
        BY <1>4, <1>7, <2>1, <4>1, DeployFirst
      <4> QED
        BY <1>4, <1>7, <1>8, <2>1, <2>3, <2>4, <3>1, <4>1, <4>2
           DEF DeployPoint, Step, Untouched, Honest
    <3>2. CASE s = "old_moved"
      <4>1. j.phase = "prepared" /\ j.replaced /\ Moved(k, w)
        BY <1>1, <1>3, <1>4, <2>1, <3>2 DEF DeployPoint, Step
      <4>2. op'.todo # <<>> /\ Head(op'.todo) = "swap"
        BY <1>1, <1>4, <1>7, <2>1, <3>2, DeployNext
      <4> QED
        BY <1>3, <1>7, <1>8, <2>1, <2>3, <2>4, <3>2, <4>1, <4>2
           DEF DeployPoint, Step, Moved, Kept
    <3>3. CASE s = "activated"
      <4>1. target = j.hash /\ stage[w] = None
        BY <1>1, <1>3, <1>4, <2>1, <3>3 DEF DeployPoint, Step
      <4>2. op'.todo # <<>> /\ Head(op'.todo) = "drop_aside"
        BY <1>1, <1>4, <1>7, <2>1, <3>3, DeployNext
      <4> QED
        BY <1>7, <1>8, <2>1, <2>3, <2>4, <3>3, <4>1, <4>2 DEF DeployPoint, Step
    <3> QED
      BY <3>1, <3>2, <3>3
  <2> QED
    BY <1>1, <1>2, <2>1, <2>3, <2>4, <2>5, CommandFrame, RowsStay DEF Commands, Point
<1>11. CASE SetAside
  <2>1. Head(op.todo) = "set_aside"
    BY <1>11 DEF SetAside, Step
  <2>2. /\ j.phase = "prepared" /\ j.replaced /\ Untouched(k, w)
        /\ stage[w] = j.hash /\ target # None
    BY <1>1, <1>3, <1>4, <2>1 DEF DeployPoint, Step
  <2>3. /\ Proceed /\ aside' = [aside EXCEPT ![w] = target] /\ target' = None
        /\ current' = current /\ catalog' = catalog /\ stage' = stage
        /\ journal' = journal /\ hit' = hit
    BY <1>2, <1>11, <2>2 DEF SetAside, tx, rows, faultVars
  <2>4. op'.todo # <<>> /\ Head(op'.todo) = "old_moved"
    BY <1>1, <1>4, <1>7, <2>1, <2>3, DeployNext
  <2>5. Moved(k, w)'
    BY <1>3, <1>5, <2>2, <2>3 DEF Moved, Kept, Untouched, Honest
  <2>6. DeployPoint(k, w)'
    BY <1>3, <1>7, <1>8, <2>2, <2>3, <2>4, <2>5 DEF DeployPoint, Step
  <2> QED
    BY <1>1, <1>2, <1>5, <2>3, <2>4, <2>6, CommandFrame, RowsStay DEF Commands, Point
<1>12. CASE Swap
  <2>1. /\ Head(op.todo) = "swap" /\ Proceed /\ target' = stage[w]
        /\ stage' = [stage EXCEPT ![w] = None] /\ current' = current
        /\ catalog' = catalog /\ aside' = aside /\ journal' = journal /\ hit' = hit
    BY <1>2, <1>12 DEF Swap, Step, tx, rows, faultVars
  <2>2. /\ stage[w] = j.hash
        /\ \/ j.replaced /\ j.phase = "old_moved" /\ Kept(k, w)
           \/ ~j.replaced /\ j.phase = "prepared" /\ aside[w] = None /\ catalog[k] = None
    BY <1>1, <1>3, <1>4, <2>1 DEF DeployPoint, Step
  <2>3. op'.todo # <<>> /\ Head(op'.todo) = "verify"
    BY <1>1, <1>4, <1>7, <2>1, DeployNext
  <2>4. DeployPoint(k, w)'
    BY <1>3, <1>5, <1>7, <1>8, <2>1, <2>2, <2>3 DEF DeployPoint, Step, Kept
  <2> QED
    BY <1>1, <1>2, <1>5, <2>1, <2>3, <2>4, CommandFrame, RowsStay DEF Commands, Point
<1>13. CASE Verify
  <2>1. Head(op.todo) = "verify"
    BY <1>13 DEF Verify, Step
  <2>2. /\ target = j.hash /\ stage[w] = None
        /\ \/ j.replaced /\ j.phase = "old_moved" /\ Kept(k, w)
           \/ ~j.replaced /\ j.phase = "prepared" /\ aside[w] = None /\ catalog[k] = None
    BY <1>1, <1>3, <1>4, <2>1 DEF DeployPoint, Step
  <2>3. /\ Proceed /\ target' = target /\ stage' = stage /\ aside' = aside
        /\ current' = current /\ catalog' = catalog /\ journal' = journal /\ hit' = hit
    BY <1>2, <1>3, <1>13, <2>2 DEF Verify, Record, tx, rows, disk, faultVars
  <2>4. op'.todo # <<>> /\ Head(op'.todo) = "activated"
    BY <1>1, <1>4, <1>7, <2>1, <2>3, DeployNext
  <2>5. DeployPoint(k, w)'
    BY <1>3, <1>7, <1>8, <2>2, <2>3, <2>4 DEF DeployPoint, Step, Kept
  <2> QED
    BY <1>1, <1>2, <2>3, <2>4, <2>5, CommandFrame, RowsStay DEF Commands, Point
<1>14. CASE Drop
  <2>1. /\ Head(op.todo) = "drop_aside" /\ Proceed
        /\ aside' = [aside EXCEPT ![w] = None]
        /\ target' = target /\ stage' = stage /\ journal' = journal /\ hit' = hit
        /\ current' = current /\ catalog' = catalog
    BY <1>2, <1>6, <1>14 DEF Drop, Step, tx, rows, faultVars
  <2>2. j.phase = "activated" /\ target = j.hash /\ stage[w] = None
    BY <1>1, <1>3, <1>4, <2>1 DEF DeployPoint, Step
  <2>3. op'.todo # <<>> /\ Head(op'.todo) = "record"
    BY <1>1, <1>4, <1>7, <2>1, DeployNext
  <2>4. DeployPoint(k, w)'
    BY <1>3, <1>4, <1>5, <1>7, <1>8, <2>1, <2>2, <2>3
       DEF DeployPoint, Step, Rolled, Activated
  <2> QED
    BY <1>1, <1>2, <1>5, <2>1, <2>3, <2>4, CommandFrame, RowsStay DEF Commands, Point
<1>15. CASE RecordDeployment
  <2>1. Head(op.todo) = "record"
    BY <1>15 DEF RecordDeployment, Step
  <2>2. Rolled(w)
    BY <1>1, <1>4, <2>1 DEF DeployPoint, Step
  <2>3. /\ target' = target /\ stage' = stage /\ aside' = aside
        /\ journal' = journal /\ hit' = hit /\ current' = current
    BY <1>15 DEF RecordDeployment, disk, faultVars
  <2>4. CASE current[k] # None
    <3>1. Proceed /\ catalog' = [catalog EXCEPT ![k] = j.hash]
      BY <1>2, <1>3, <1>4, <1>15, <2>2, <2>4
         DEF RecordDeployment, Record, tx, Rolled
    <3>2. op'.todo # <<>> /\ Head(op'.todo) = "ack"
      BY <1>1, <1>4, <1>7, <2>1, <3>1, DeployNext
    <3>3. Rolled(w)' /\ Honest(k)'
      BY <1>3, <1>5, <2>2, <2>3, <3>1 DEF Rolled, Activated, Honest
    <3>4. DeployPoint(k, w)'
      BY <1>7, <1>8, <3>1, <3>2, <3>3 DEF DeployPoint, Step
    <3>5. RowsAgree(k)'
      BY <2>3, <2>4 DEF RowsAgree
    <3> QED
      BY <1>1, <1>2, <2>3, <3>1, <3>2, <3>4, <3>5, CommandFrame DEF Commands, Point
  <2>5. CASE current[k] = None
    <3>1. GiveUp /\ catalog' = catalog
      BY <1>2, <1>3, <1>4, <1>15, <2>5 DEF RecordDeployment, Record, tx
    <3>2. op'.todo = <<>>
      BY <1>1, <3>1, GiveUpOp
    <3>3. "tombstone" \in hit /\ catalog[k] = None
      BY <2>5 DEF CrashInv, RowsAgree
    <3>4. Settled(w)' /\ Honest(k)'
      BY <2>2, <2>3, <3>1, <3>3 DEF Settled, Rolled, Activated, Honest
    <3> QED
      BY <1>1, <1>2, <2>3, <3>1, <3>2, <3>4, CommandFrame, RowsStay DEF Commands, Point
  <2> QED
    BY <2>4, <2>5
<1>16. CASE Acknowledge
  <2>1. Head(op.todo) = "ack" /\ Proceed
    BY <1>16 DEF Acknowledge, Step
  <2>2. Rolled(w) /\ Honest(k)
    BY <1>1, <1>4, <2>1 DEF DeployPoint, Step
  <2>3. /\ target' = target /\ stage' = stage /\ aside' = aside /\ hit' = hit
        /\ current' = current /\ catalog' = catalog
        /\ journal' = [journal EXCEPT ![w] = NoJournal]
    BY <1>2, <1>3, <1>16, <2>2
       DEF Acknowledge, Record, tx, Rolled, Activated, rows, disk, faultVars
  <2>4. op'.todo = <<>>
    BY <1>1, <1>4, <1>7, <2>1, DeployNext
  <2>5. Settled(w)' /\ Honest(k)'
    BY <1>5, <2>2, <2>3 DEF Settled, Fresh, Rolled, Activated, Honest
  <2> QED
    BY <1>1, <1>2, <1>5, <2>1, <2>3, <2>4, <2>5, CommandFrame, RowsStay
       DEF Commands, Point
<1> QED
  BY <1>1, <1>6, <1>9, <1>10, <1>11, <1>12, <1>13, <1>14, <1>15, <1>16
     DEF EngineStep, Forget, Recheck, Restore, Uncatalog, ReportCommit, Step

-----------------------------------------------------------------------------
(* An uninstall.                                                           *)

LEMMA UninstallNext ==
    ASSUME NEW s \in UninstallPlans, s # <<>>
    PROVE  /\ Head(s) \in {"set_aside", "moved", "uncatalog", "drop_aside", "forget"}
           /\ Head(s) = "set_aside" => Tail(s) # <<>> /\ Head(Tail(s)) = "moved"
           /\ Head(s) = "moved" => Tail(s) # <<>> /\ Head(Tail(s)) = "uncatalog"
           /\ Head(s) = "drop_aside" => Tail(s) # <<>> /\ Head(Tail(s)) = "forget"
           /\ Head(s) = "forget" => Tail(s) = <<>>
<1>1. \/ s = <<"set_aside", "moved", "uncatalog">> \/ s = <<"moved", "uncatalog">>
      \/ s = <<"uncatalog">> \/ s = <<"drop_aside", "forget">> \/ s = <<"forget">>
  BY DEF UninstallPlans
<1>2. CASE s = <<"set_aside", "moved", "uncatalog">>
  <2>1. Tail(<<"set_aside", "moved", "uncatalog">>) # <<>> /\ Head(Tail(<<"set_aside", "moved", "uncatalog">>)) = "moved"
    OBVIOUS
  <2> QED
    BY <1>2, <2>1
<1>3. CASE s = <<"moved", "uncatalog">>
  <2>1. Tail(<<"moved", "uncatalog">>) # <<>> /\ Head(Tail(<<"moved", "uncatalog">>)) = "uncatalog"
    OBVIOUS
  <2> QED
    BY <1>3, <2>1
<1>4. CASE s = <<"uncatalog">>
  BY <1>4
<1>5. CASE s = <<"drop_aside", "forget">>
  <2>1. Tail(<<"drop_aside", "forget">>) # <<>> /\ Head(Tail(<<"drop_aside", "forget">>)) = "forget"
    OBVIOUS
  <2> QED
    BY <1>5, <2>1
<1>6. CASE s = <<"forget">>
  BY <1>6
<1> QED
  BY <1>1, <1>2, <1>3, <1>4, <1>5, <1>6

LEMMA UninstallStepCrash ==
    ASSUME NEW k \in Skills, Skills = {k}, EngineInv, CrashInv(k), Crashes,
           op.mode = "uninstall", EngineStep
    PROVE  CrashInv(k)'
<1>1. op.todo # <<>>
  BY DEF EngineStep, Persist, Forget, Stage, SetAside, Swap, Verify, Recheck, Drop,
         Restore, RecordDeployment, Acknowledge, Uncatalog, ReportCommit, Step
<1>2. PICK w \in Txs : w = op.tx
  BY <1>1, AtHand
<1>3. PICK j \in Journals : j = journal[w]
  BY <1>1, <1>2, AtHand
<1>4. /\ op.todo \in UninstallPlans
      /\ j.kind = "uninstall" /\ j.skill = k
      /\ UninstallPoint(k, w)
  <2>1. PlansOf("uninstall") = UninstallPlans /\ KindOf("uninstall") = "uninstall"
    BY DEF PlansOf, KindOf
  <2> QED
    BY <1>1, <1>2, <1>3, <2>1, AtPoint DEF Point
<1>5. /\ journal \in [Txs -> Journals]
      /\ stage \in [Txs -> Contents] /\ aside \in [Txs -> Contents]
      /\ catalog \in [Skills -> Hashes \cup {None}]
      /\ target \in Contents
  BY DEF EngineInv, DeployTypeOK
<1>6. Head(op.todo) \in {"set_aside", "moved", "uncatalog", "drop_aside", "forget"}
  BY <1>1, <1>4, UninstallNext
<1>7. Proceed => op'.todo = Tail(op.todo) /\ (op'.todo # <<>> => op'.mode = "uninstall")
  BY <1>1, ProceedOp
<1>8. CASE SetAside
  <2>1. Head(op.todo) = "set_aside"
    BY <1>8 DEF SetAside, Step
  <2>2. j.phase = "intent" /\ Untouched(k, w) /\ target # None /\ stage[w] = None
    BY <1>1, <1>3, <1>4, <2>1 DEF UninstallPoint, Step
  <2>3. /\ Proceed /\ aside' = [aside EXCEPT ![w] = target] /\ target' = None
        /\ current' = current /\ catalog' = catalog /\ stage' = stage
        /\ journal' = journal /\ hit' = hit
    BY <1>2, <1>8, <2>2 DEF SetAside, tx, rows, faultVars
  <2>4. op'.todo # <<>> /\ Head(op'.todo) = "moved"
    BY <1>1, <1>4, <1>7, <2>1, <2>3, UninstallNext
  <2>5. Quarantined(k, w)'
    BY <1>3, <1>4, <1>5, <2>2, <2>3 DEF Quarantined, Kept, Untouched, Honest
  <2>6. UninstallPoint(k, w)'
    BY <1>3, <2>2, <2>3, <2>4, <2>5 DEF UninstallPoint, Step
  <2> QED
    BY <1>1, <1>2, <1>5, <1>7, <2>3, <2>4, <2>6, CommandFrame, RowsStay
       DEF Commands, Point
<1>9. CASE \E s \in {"prepared", "old_moved", "activated", "moved"} : Persist(s)
  <2>1. /\ Head(op.todo) = "moved" /\ Proceed
        /\ journal' = [journal EXCEPT ![w] = [j EXCEPT !.phase = "moved"]]
        /\ rows' = rows /\ disk' = disk /\ hit' = hit
    BY <1>2, <1>3, <1>5, <1>6, <1>9 DEF Persist, Step, tx, faultVars
  <2>2. PICK i : i = [j EXCEPT !.phase = "moved"]
    OBVIOUS
  <2>3. /\ i.phase = "moved" /\ i.kind = "uninstall" /\ journal'[w] = i
        /\ \A v \in Txs \ {w} : journal'[v] = journal[v]
    BY <1>3, <1>4, <1>5, <2>1, <2>2 DEF Journals, NoJournal
  <2>4. /\ target' = target /\ stage' = stage /\ aside' = aside
        /\ current' = current /\ catalog' = catalog
    BY <2>1 DEF rows, disk
  <2>5. target = None /\ Kept(k, w) /\ stage[w] = None
    BY <1>1, <1>3, <1>4, <2>1 DEF UninstallPoint, Step, Quarantined
  <2>6. op'.todo # <<>> /\ Head(op'.todo) = "uncatalog"
    BY <1>1, <1>4, <1>7, <2>1, UninstallNext
  <2>7. UninstallPoint(k, w)'
    BY <2>3, <2>4, <2>5, <2>6 DEF UninstallPoint, Step, Kept
  <2> QED
    BY <1>1, <1>2, <1>7, <2>1, <2>3, <2>4, <2>6, <2>7, CommandFrame, RowsStay
       DEF Commands, Point
<1>10. CASE Uncatalog
  <2>1. /\ Head(op.todo) = "uncatalog" /\ op' = After(FinalizeSteps(w))
        /\ catalog' = [catalog EXCEPT ![k] = None]
        /\ current' = current /\ disk' = disk /\ journal' = journal /\ hit' = hit
    BY <1>2, <1>3, <1>4, <1>10 DEF Uncatalog, Step, Record, tx, faultVars
  <2>2. j.phase = "moved" /\ target = None /\ Kept(k, w) /\ stage[w] = None
    BY <1>1, <1>3, <1>4, <2>1 DEF UninstallPoint, Step
  <2>3. FinalizeSteps(w) = <<"drop_aside", "forget">>
    BY <2>2 DEF FinalizeSteps
  <2>4. /\ op'.todo = <<"drop_aside", "forget">> /\ op'.mode = "uninstall" /\ op'.tx = w
    <3>1. FinalizeSteps(w) \in PlansOf(op.mode)
      BY FinalizeStepsPlan DEF PlansOf
    <3>2. <<"drop_aside", "forget">> # <<>>
      OBVIOUS
    <3> QED
      BY <1>1, <1>2, <2>1, <2>3, <3>1, <3>2, OpAfter
  <2>5. op'.todo # <<>> /\ Head(op'.todo) = "drop_aside"
    BY <2>4
  <2>6. catalog'[k] = None /\ target' = target /\ stage' = stage /\ aside' = aside
    BY <1>5, <2>1 DEF disk
  <2>7. UninstallPoint(k, w)'
    BY <1>3, <1>4, <2>1, <2>2, <2>5, <2>6 DEF UninstallPoint, Step, Quarantined, Kept
  <2>8. RowsAgree(k)' /\ Reported'
    BY <2>4, <2>6 DEF RowsAgree, Reported
  <2>9. Working(w)' /\ Point(k, w)'
    BY <2>4, <2>5, <2>7 DEF Working, Point
  <2>10. \A v \in Txs \ {w} : Settled(v)
    BY <1>1, <1>2, Others
  <2> QED
    BY <1>1, <1>2, <2>1, <2>4, <2>6, <2>8, <2>9, <2>10, StepFrame
<1>11. CASE Drop
  <2>1. /\ Head(op.todo) = "drop_aside" /\ Proceed
        /\ aside' = [aside EXCEPT ![w] = None]
        /\ target' = target /\ stage' = stage /\ journal' = journal /\ hit' = hit
        /\ current' = current /\ catalog' = catalog
    BY <1>2, <1>6, <1>11 DEF Drop, Step, tx, rows, faultVars
  <2>2. j.phase = "moved" /\ Quarantined(k, w) /\ catalog[k] = None
    BY <1>1, <1>3, <1>4, <2>1 DEF UninstallPoint, Step
  <2>3. op'.todo # <<>> /\ Head(op'.todo) = "forget"
    BY <1>1, <1>4, <1>7, <2>1, UninstallNext
  <2>4. UninstallPoint(k, w)'
    BY <1>3, <1>5, <2>1, <2>2, <2>3 DEF UninstallPoint, Step, Quarantined
  <2> QED
    BY <1>1, <1>2, <1>5, <1>7, <2>1, <2>3, <2>4, CommandFrame, RowsStay
       DEF Commands, Point
<1>12. CASE Forget
  <2>1. /\ Head(op.todo) = "forget" /\ Proceed
        /\ journal' = [journal EXCEPT ![w] = NoJournal]
        /\ target' = target /\ stage' = stage /\ aside' = aside /\ hit' = hit
        /\ current' = current /\ catalog' = catalog
    BY <1>2, <1>12 DEF Forget, Step, tx, rows, disk, faultVars
  <2>2. Quarantined(k, w) /\ aside[w] = None /\ stage[w] = None
    BY <1>1, <1>4, <2>1 DEF UninstallPoint, Step
  <2>3. op'.todo = <<>>
    BY <1>1, <1>4, <1>7, <2>1, UninstallNext
  <2>4. Settled(w)' /\ Honest(k)'
    BY <1>5, <2>1, <2>2 DEF Settled, Fresh, Quarantined, Kept, Honest
  <2> QED
    BY <1>1, <1>2, <1>5, <2>1, <2>3, <2>4, CommandFrame, RowsStay
       DEF Commands, Point
<1> QED
  BY <1>1, <1>6, <1>8, <1>9, <1>10, <1>11, <1>12
     DEF EngineStep, Stage, Swap, Verify, Recheck, Restore, RecordDeployment,
         Acknowledge, ReportCommit, Step

-----------------------------------------------------------------------------
(* Commands begin, the process stops, the rows change.                     *)

(* Between the commands no transaction is open.                            *)
LEMMA IdleSettled ==
    ASSUME NEW k, EngineInv, CrashInv(k), Crashes, op = Idle
    PROVE  Honest(k) /\ \A t \in Txs : Settled(t)
<1>1. op.todo = <<>> /\ op.mode = "idle"
  BY DEF Idle, Doing
<1>2. \A t \in Txs : ~Working(t) /\ ~Waiting(k, t)
  BY <1>1 DEF Working, Waiting
<1> QED
  BY <1>2 DEF CrashInv

LEMMA BeginCrash ==
    ASSUME NEW k \in Skills, Skills = {k}, EngineInv, EngineInv', CrashInv(k), Crashes,
           NEW t \in Txs, DeployBegin(k, t) \/ UninstallBegin(k, t)
    PROVE  CrashInv(k)'
<1>1. /\ op = Idle /\ Fresh(t) /\ rows' = rows /\ disk' = disk /\ hit' = hit
  BY DEF DeployBegin, UninstallBegin, faultVars
<1>2. Honest(k) /\ \A v \in Txs : Settled(v)
  BY <1>1, IdleSettled
<1>3. /\ target' = target /\ stage' = stage /\ aside' = aside
      /\ current' = current /\ catalog' = catalog
  BY <1>1 DEF rows, disk
<1>4. journal \in [Txs -> Journals]
  BY DEF EngineInv, DeployTypeOK
<1>5. /\ op'.tx = t /\ op'.todo # <<>> /\ op'.mode \in Commands
      /\ Point(k, t)'
      /\ \A v \in Txs \ {t} : journal'[v] = journal[v]
  <2>1. CASE DeployBegin(k, t)
    <3> DEFINE j == [kind |-> "deploy", phase |-> "intent", skill |-> k,
                     hash |-> current[k], replaced |-> target # None]
               s == DeploySteps(target # None)
    <3>1. /\ journal' = [journal EXCEPT ![t] = j]
          /\ op' = [Doing("deploy") EXCEPT !.tx = t, !.todo = s]
      BY <2>1 DEF DeployBegin
    <3>2. /\ j.phase = "intent" /\ j.replaced = (target # None)
      OBVIOUS
    <3> HIDE DEF j
    <3>3. journal'[t] = j /\ \A v \in Txs \ {t} : journal'[v] = journal[v]
      BY <1>4, <3>1
    <3>4. s # <<>> /\ Head(s) = "stage" /\ s \in DeployPlans
      BY DeployFirst, DeployStepsPlan
    <3>5. s = DeploySteps(j.replaced)
      BY <3>2
    <3> HIDE DEF s
    <3>6. op'.mode = "deploy" /\ op'.tx = t /\ op'.todo = s
      BY <3>1 DEF Doing
    <3>7. Untouched(k, t)'
      BY <1>1, <1>2, <1>3 DEF Untouched, Fresh, Honest
    <3>8. DeployPoint(k, t)'
      BY <1>3, <3>2, <3>3, <3>4, <3>5, <3>6, <3>7 DEF DeployPoint, Step
    <3> QED
      BY <3>3, <3>4, <3>6, <3>8 DEF Point, Commands
  <2>2. CASE UninstallBegin(k, t)
    <3> DEFINE s == <<"set_aside", "moved", "uncatalog">>
               j == [NoJournal EXCEPT !.kind = "uninstall", !.phase = "intent",
                                      !.skill = k]
    <3>1. /\ op' = [Doing("uninstall") EXCEPT !.tx = t, !.todo = s]
          /\ journal' = [journal EXCEPT ![t] = j] /\ target # None
      BY <2>2 DEF UninstallBegin
    <3>2. j.phase = "intent"
      BY DEF NoJournal
    <3> HIDE DEF j
    <3>3. journal'[t] = j /\ \A v \in Txs \ {t} : journal'[v] = journal[v]
      BY <1>4, <3>1
    <3>4. s # <<>> /\ Head(s) = "set_aside"
      OBVIOUS
    <3> HIDE DEF s
    <3>5. op'.mode = "uninstall" /\ op'.tx = t /\ op'.todo = s
      BY <3>1 DEF Doing
    <3>6. Untouched(k, t)'
      BY <1>1, <1>2, <1>3 DEF Untouched, Fresh, Honest
    <3>7. UninstallPoint(k, t)'
      BY <1>1, <1>3, <3>1, <3>2, <3>3, <3>4, <3>5, <3>6
         DEF UninstallPoint, Step, Fresh
    <3> QED
      BY <3>3, <3>4, <3>5, <3>7 DEF Point, Commands
  <2> QED
    BY <2>1, <2>2
<1>6. \A v \in Txs \ {t} : Settled(v)'
  BY <1>1, <1>2, <1>3, <1>5, StaysSettled
<1>7. \A v \in Txs : Working(v)' <=> v = t
  BY <1>5 DEF Working
<1>8. RowsAgree(k)' /\ Reported'
  BY <1>3, <1>5, RowsStay DEF Reported, Commands
<1>9. current[k] = None => "tombstone" \in hit
  BY DEF CrashInv
<1> QED
  BY <1>1, <1>3, <1>5, <1>6, <1>7, <1>8, <1>9 DEF CrashInv

(* Wherever a command stops, it leaves what the recovery comes to.         *)
LEMMA CommandTorn ==
    ASSUME NEW k, Skills = {k}, EngineInv, CrashInv(k), Crashes, op.todo # <<>>,
           op.mode \in Commands, NEW w \in Txs, w = op.tx,
           Torn \/ disk' = disk, rows' = rows, journal' = journal
    PROVE  /\ DeployOpen(k, w)' \/ UninstallOpen(k, w)'
           /\ \A v \in Txs \ {w} : stage'[v] = stage[v] /\ aside'[v] = aside[v]
<1>1. PICK j \in Journals : j = journal[w]
  BY AtHand
<1>2. /\ stage \in [Txs -> Contents] /\ aside \in [Txs -> Contents]
      /\ target \in Contents
  BY DEF EngineInv, DeployTypeOK
<1>3. None # Mixed
  BY DeploymentAssumption
<1>4. \A v \in Txs \ {w} : stage'[v] = stage[v] /\ aside'[v] = aside[v]
  BY <1>2 DEF Torn, disk, tx
<1>5. catalog' = catalog
  BY DEF rows
<1>6. CASE op.mode = "deploy"
  <2>1. /\ op.todo \in DeployPlans /\ j.kind = "deploy" /\ DeployPoint(k, w)
        /\ j.hash # None /\ j.replaced \in BOOLEAN
    <3>1. PlansOf("deploy") = DeployPlans /\ KindOf("deploy") = "deploy"
      BY DEF PlansOf, KindOf
    <3>2. j # NoJournal
      BY <1>1, AtHand
    <3> QED
      BY <1>1, <1>6, <3>1, <3>2, AtPoint DEF Point, Journals
  <2>2. /\ target' = target /\ (Head(op.todo) # "stage" => stage' = stage)
        /\ (Head(op.todo) # "drop_aside" => aside' = aside)
    <3>1. Head(op.todo) \notin {"drop_target", "drop_stage"}
      <4>1. Head(op.todo) # "drop_stage"
        BY <2>1 DEF DeployPlans
      <4> QED
        BY <2>1, <4>1 DEF DeployPoint, Step
    <3> QED
      BY <3>1 DEF Torn, disk, Step
  <2>3. CASE Head(op.todo) \in {"stage", "prepared"}
    <3>1. j.phase = "intent" /\ Untouched(k, w)
      BY <1>1, <2>1, <2>3 DEF DeployPoint, Step
    <3> QED
      BY <1>1, <1>4, <1>5, <2>1, <2>2, <2>3, <3>1 DEF DeployOpen, Untouched, Honest
  <2>4. CASE Head(op.todo) = "set_aside"
    <3>1. /\ j.phase = "prepared" /\ j.replaced /\ Untouched(k, w)
          /\ stage[w] = j.hash /\ target # None
      BY <1>1, <2>1, <2>4 DEF DeployPoint, Step
    <3> QED
      BY <1>1, <1>4, <1>5, <2>1, <2>2, <2>4, <3>1 DEF DeployOpen, Untouched, Honest
  <2>5. CASE Head(op.todo) = "old_moved"
    <3>1. j.phase = "prepared" /\ j.replaced /\ Moved(k, w)
      BY <1>1, <2>1, <2>5 DEF DeployPoint, Step
    <3> QED
      BY <1>1, <1>4, <1>5, <2>1, <2>2, <2>5, <3>1 DEF DeployOpen, Moved, Kept
  <2>6. CASE Head(op.todo) \in {"swap", "verify", "activated"}
    <3>1. /\ \/ j.replaced /\ j.phase = "old_moved" /\ Kept(k, w)
             \/ ~j.replaced /\ j.phase = "prepared" /\ aside[w] = None /\ catalog[k] = None
          /\ \/ target = None /\ stage[w] = j.hash
             \/ target = j.hash /\ stage[w] = None
      BY <1>1, <2>1, <2>6 DEF DeployPoint, Step
    <3> QED
      BY <1>1, <1>4, <1>5, <2>1, <2>2, <2>6, <3>1
         DEF DeployOpen, Moved, Swapped, Kept
  <2>7. CASE Head(op.todo) \in {"drop_aside", "record", "ack"}
    <3>1. j.phase = "activated" /\ target = j.hash /\ stage[w] = None
      BY <1>1, <2>1, <2>7 DEF DeployPoint, Step, Rolled, Activated
    <3> QED
      BY <1>1, <1>4, <1>5, <2>1, <2>2, <2>7, <3>1 DEF DeployOpen
  <2>8. Head(op.todo) \notin {"forget", "restore", "drop_target"}
    BY <2>1 DEF DeployPoint, Step
  <2>9. Head(op.todo) \in {"stage", "prepared", "set_aside", "old_moved", "swap",
                           "verify", "activated", "drop_aside", "record", "ack",
                           "forget", "restore", "drop_target"}
    BY <2>1 DEF DeployPlans
  <2> QED
    BY <1>4, <2>3, <2>4, <2>5, <2>6, <2>7, <2>8, <2>9
<1>7. CASE op.mode = "uninstall"
  <2>1. op.todo \in UninstallPlans /\ j.kind = "uninstall" /\ UninstallPoint(k, w)
    <3>1. PlansOf("uninstall") = UninstallPlans /\ KindOf("uninstall") = "uninstall"
      BY DEF PlansOf, KindOf
    <3> QED
      BY <1>1, <1>7, <3>1, AtPoint DEF Point
  <2>2. Head(op.todo) \in {"set_aside", "moved", "uncatalog", "drop_aside", "forget"}
    BY <2>1, UninstallNext
  <2>3. /\ target' = target /\ stage' = stage
        /\ Head(op.todo) # "drop_aside" => aside' = aside
        /\ aside'[w] = aside[w] \/ (aside[w] # None /\ aside'[w] = Mixed)
    BY <1>2, <2>2 DEF Torn, disk, Step, tx
  <2>4. stage[w] = None
    BY <2>1 DEF UninstallPoint
  <2>5. CASE Head(op.todo) = "set_aside"
    <3>1. j.phase = "intent" /\ Untouched(k, w) /\ target # None
      BY <1>1, <2>1, <2>5 DEF UninstallPoint, Step
    <3> QED
      BY <1>1, <1>4, <1>5, <2>1, <2>3, <2>4, <2>5, <3>1
         DEF UninstallOpen, Untouched, Honest
  <2>6. CASE Head(op.todo) \in {"moved", "uncatalog", "forget"}
    <3>1. target = None /\ Quarantined(k, w)
      BY <1>1, <2>1, <2>4, <2>6 DEF UninstallPoint, Step, Quarantined
    <3> QED
      BY <1>4, <1>5, <2>3, <2>6, <3>1 DEF UninstallOpen, Quarantined, Kept
  <2>7. CASE Head(op.todo) = "drop_aside"
    <3>1. Quarantined(k, w) /\ catalog[k] = None
      BY <1>1, <2>1, <2>7 DEF UninstallPoint, Step
    <3> QED
      BY <1>3, <1>4, <1>5, <2>3, <3>1 DEF UninstallOpen, Quarantined, Kept
  <2> QED
    BY <2>2, <2>5, <2>6, <2>7, <1>4
<1> QED
  BY <1>6, <1>7 DEF Commands

LEMMA CrashCrash ==
    ASSUME NEW k \in Skills, Skills = {k}, EngineInv, CrashInv(k), Crash, Crashes'
    PROVE  CrashInv(k)'
<1>1. /\ op' = Down /\ (Torn \/ disk' = disk) /\ rows' = rows /\ journal' = journal
      /\ hit \subseteq hit' /\ op # Down
      /\ op.mode \in Commands \cup {"idle"}
  <2>1. CASE op.mode \in Commands \cup {"idle"}
    BY <2>1 DEF Crash, Fault
  <2>2. CASE op.mode \notin Commands \cup {"idle"}
    <3>1. "recovery_crash" \in hit'
      BY <2>2 DEF Crash, Fault
    <3> QED
      BY <3>1 DEF Crashes
  <2> QED
    BY <2>1, <2>2
<1>2. Crashes
  BY <1>1 DEF Crashes
<1>3. op'.mode = "down" /\ op'.todo = <<>> /\ op'.left = {} /\ op'.found = {}
  BY <1>1 DEF Down, Doing
<1>4. current' = current /\ catalog' = catalog
  BY <1>1 DEF rows
<1>5. RowsAgree(k)' /\ Reported' /\ (current'[k] = None => "tombstone" \in hit')
  BY <1>1, <1>2, <1>3, <1>4, RowsStay DEF Reported, CrashInv
<1>6. \A t \in Txs : ~Working(t)'
  BY <1>3 DEF Working
<1>7. CASE op.mode = "idle"
  <2>1. op = Idle
    BY <1>7 DEF EngineInv, OpInv
  <2>2. disk' = disk
    BY <1>1, <2>1 DEF Torn, Step, Idle, Doing
  <2>3. Honest(k) /\ \A t \in Txs : Settled(t)
    BY <1>2, <2>1, IdleSettled
  <2>4. Honest(k)' /\ \A t \in Txs : Settled(t)'
    BY <1>1, <1>4, <2>2, <2>3, StaysSettled DEF disk, Honest
  <2> QED
    BY <1>5, <1>6, <2>4 DEF CrashInv
<1>8. CASE op.mode \in Commands
  <2>1. op.todo # <<>>
    BY <1>8 DEF EngineInv, OpInv
  <2>2. PICK w \in Txs : w = op.tx
    BY <2>1, AtHand
  <2>3. /\ DeployOpen(k, w)' \/ UninstallOpen(k, w)'
        /\ \A v \in Txs \ {w} : stage'[v] = stage[v] /\ aside'[v] = aside[v]
    BY <1>1, <1>2, <1>8, <2>1, <2>2, CommandTorn
  <2>4. Waiting(k, w)'
    BY <1>3, <1>6, <2>3 DEF Waiting
  <2>5. \A v \in Txs \ {w} : Settled(v)'
    <3>1. \A v \in Txs \ {w} : Settled(v)
      BY <1>2, <1>8, <2>1, <2>2, Others DEF Commands
    <3> QED
      BY <1>1, <2>3, <3>1, StaysSettled
  <2> QED
    BY <1>5, <1>6, <2>4, <2>5 DEF CrashInv
<1> QED
  BY <1>1, <1>7, <1>8

(* An edit, a pull, a deleted skill: the catalog loses a row at most, and  *)
(* no point and no open transaction needs the row.                         *)
LEMMA RowsPoint ==
    ASSUME NEW k, NEW t \in Txs, op' = op, disk' = disk, journal' = journal,
           catalog'[k] = catalog[k] \/ catalog'[k] = None
    PROVE  /\ Point(k, t) => Point(k, t)'
           /\ Waiting(k, t) => Waiting(k, t)'
           /\ Honest(k) => Honest(k)'
<1>1. /\ target' = target /\ stage' = stage /\ aside' = aside
  BY DEF disk
<1>2. Honest(k) => Honest(k)'
  BY <1>1 DEF Honest
<1>3. Kept(k, t) => Kept(k, t)'
  BY <1>1 DEF Kept
<1>4. Quarantined(k, t) => Quarantined(k, t)'
  BY <1>1, <1>3 DEF Quarantined
<1>5. Untouched(k, t) => Untouched(k, t)'
  BY <1>1, <1>2 DEF Untouched
<1>6. Rolled(t) => Rolled(t)'
  BY <1>1 DEF Rolled, Activated
<1>7. Moved(k, t) => Moved(k, t)'
  BY <1>1, <1>3 DEF Moved
<1>8. Swapped(k, t) => Swapped(k, t)'
  BY <1>1, <1>3 DEF Swapped
<1>9. \A x : Step(x)' <=> Step(x)
  BY DEF Step
<1>10. DeployPoint(k, t) => DeployPoint(k, t)'
  BY <1>1, <1>2, <1>3, <1>5, <1>6, <1>7, <1>9 DEF DeployPoint
<1>11. UninstallPoint(k, t) => UninstallPoint(k, t)'
  BY <1>1, <1>3, <1>4, <1>5, <1>9 DEF UninstallPoint
<1>12. RecoverPoint(k, t) => RecoverPoint(k, t)'
  BY <1>1, <1>5, <1>6, <1>9 DEF RecoverPoint
<1>13. ReplayPoint(k, t) => ReplayPoint(k, t)'
  BY <1>2, <1>6, <1>9 DEF ReplayPoint
<1>14. FindPoint(k, t) => FindPoint(k, t)'
  BY <1>1, <1>4, <1>5, <1>9 DEF FindPoint
<1>15. SettlePoint(k, t) => SettlePoint(k, t)'
  BY <1>1, <1>3, <1>5, <1>9 DEF SettlePoint
<1>16. Point(k, t) => Point(k, t)'
  BY <1>10, <1>11, <1>12, <1>13, <1>14, <1>15 DEF Point
<1>17. DeployOpen(k, t) => DeployOpen(k, t)'
  BY <1>1, <1>5, <1>7, <1>8 DEF DeployOpen
<1>18. UninstallOpen(k, t) => UninstallOpen(k, t)'
  BY <1>1, <1>4, <1>5 DEF UninstallOpen
<1>19. Waiting(k, t) => Waiting(k, t)'
  BY <1>4, <1>6, <1>17, <1>18 DEF Waiting, Working
<1> QED
  BY <1>2, <1>16, <1>19

LEMMA RowsCrash ==
    ASSUME NEW k \in Skills, EngineInv, CrashInv(k), Crashes',
           UninstallMissing(k) \/ NewSnapshot(k) \/ Tombstone(k)
    PROVE  CrashInv(k)'
<1>1. /\ op' = op /\ disk' = disk /\ journal' = journal /\ hit \subseteq hit'
  BY DEF UninstallMissing, NewSnapshot, Tombstone, Fault, faultVars
<1>2. Crashes
  BY <1>1 DEF Crashes
<1>3. /\ catalog'[k] = catalog[k] \/ catalog'[k] = None
      /\ RowsAgree(k)'
      /\ current'[k] = None => "tombstone" \in hit'
  <2>1. CASE UninstallMissing(k)
    BY <1>1, <1>2, <2>1
       DEF UninstallMissing, EngineInv, DeployTypeOK, CrashInv, RowsAgree
  <2>2. CASE NewSnapshot(k)
    BY <2>2, DeploymentAssumption DEF NewSnapshot, EngineInv, DeployTypeOK, RowsAgree
  <2>3. CASE Tombstone(k)
    BY <2>3 DEF Tombstone, Fault, EngineInv, DeployTypeOK, RowsAgree
  <2> QED
    BY <2>1, <2>2, <2>3
<1>4. \A t \in Txs : Settled(t) => Settled(t)'
  BY <1>1, StaysSettled DEF disk
<1>5. \A t \in Txs : Working(t)' <=> Working(t)
  BY <1>1 DEF Working
<1>6. Reported'
  BY <1>1, <1>2 DEF CrashInv, Reported, Rolled, Activated, disk
<1>7. \A t \in Txs : /\ Point(k, t) => Point(k, t)'
                     /\ Waiting(k, t) => Waiting(k, t)'
  BY <1>1, <1>3, RowsPoint
<1>8. Honest(k) => Honest(k)'
  BY <1>1, <1>3 DEF Honest, disk
<1> QED
  BY <1>2, <1>3, <1>4, <1>5, <1>6, <1>7, <1>8 DEF CrashInv

-----------------------------------------------------------------------------
(* The recovery: every pass takes over what the one before has left.       *)

LEMMA PassCrash ==
    ASSUME NEW k \in Skills, EngineInv, CrashInv(k), Crashes, Startup \/ NextPass
    PROVE  CrashInv(k)'
<1>1. /\ disk' = disk /\ rows' = rows /\ journal' = journal /\ hit' = hit
      /\ op.todo = <<>> /\ op'.todo = <<>>
      /\ \/ /\ op.mode = "down" /\ op'.mode = "recover" /\ op'.left = OfKind("deploy")
            /\ op'.found = {}
         \/ /\ op.mode = "recover" /\ op.left = {} /\ op'.mode = "replay"
            /\ op'.left = op.found
         \/ /\ op.mode = "replay" /\ op.left = {} /\ op'.mode = "find"
            /\ op'.left = OfKind("uninstall")
         \/ /\ op.mode = "find" /\ op.left = {} /\ op'.mode = "settle"
            /\ op'.left = op.found
         \/ /\ op.mode = "settle" /\ op.left = {} /\ op'.mode = "idle"
  BY DEF Startup, NextPass, Down, Doing, Idle, faultVars
<1>2. /\ target' = target /\ stage' = stage /\ aside' = aside
      /\ current' = current /\ catalog' = catalog
  BY <1>1 DEF disk, rows
<1>3. \A t \in Txs : ~Working(t) /\ ~Working(t)'
  BY <1>1 DEF Working
<1>4. \A t \in Txs : Settled(t) => Settled(t)'
  BY <1>1, <1>2, StaysSettled
<1>5. \A t \in Txs : /\ DeployOpen(k, t)' <=> DeployOpen(k, t)
                     /\ UninstallOpen(k, t)' <=> UninstallOpen(k, t)
                     /\ Quarantined(k, t)' <=> Quarantined(k, t)
                     /\ Rolled(t)' <=> Rolled(t)
  BY <1>1, <1>2 DEF DeployOpen, UninstallOpen, Quarantined, Rolled, Activated,
       Untouched, Moved, Swapped, Kept, Honest
<1>6. \A t \in Txs : /\ DeployOpen(k, t) => t \in OfKind("deploy")
                     /\ UninstallOpen(k, t) => t \in OfKind("uninstall")
  BY DEF OfKind, DeployOpen, UninstallOpen, Quarantined
<1>7. \A t \in Txs : Waiting(k, t) => Waiting(k, t)'
  BY <1>1, <1>3, <1>5, <1>6 DEF Waiting
<1>8. Reported'
  <2>1. Reported /\ op.found \subseteq Txs
    BY DEF CrashInv, EngineInv, OpInv
  <2> QED
    BY <1>1, <1>5, <2>1 DEF Reported
<1>9. Honest(k) => Honest(k)'
  BY <1>2 DEF Honest
<1>10. RowsAgree(k)' /\ (current'[k] = None => "tombstone" \in hit')
  BY <1>1, <1>2, RowsStay DEF CrashInv
<1> QED
  BY <1>3, <1>4, <1>7, <1>8, <1>9, <1>10 DEF CrashInv

(* The recovery turns to a journal: it finds work for what is open.        *)
LEMMA VisitFrame ==
    ASSUME NEW k \in Skills, EngineInv, CrashInv(k), Crashes, hit' = hit,
           NEW t \in Txs, NEW mode \in Modes, NEW s \in PlansOf(mode),
           Visit(mode, t, s),
           s = <<>> => Settled(t) /\ ~Waiting(k, t),
           s # <<>> => Point(k, t)'
    PROVE  CrashInv(k)'
<1>1. /\ op.mode = mode /\ op.todo = <<>> /\ t \in op.left
      /\ op'.mode = mode /\ op'.todo = s /\ op'.tx = t
      /\ op'.left = op.left \ {t} /\ op'.found = op.found
      /\ disk' = disk /\ rows' = rows /\ journal' = journal
  BY DEF Visit, EngineInv, OpInv
<1>2. /\ target' = target /\ stage' = stage /\ aside' = aside
      /\ current' = current /\ catalog' = catalog
  BY <1>1 DEF disk, rows
<1>3. \A v \in Txs : ~Working(v) /\ (Working(v)' <=> v = t /\ s # <<>>)
  BY <1>1 DEF Working
<1>4. \A v \in Txs : Settled(v) => Settled(v)'
  BY <1>1, <1>2, StaysSettled
<1>5. \A v \in Txs \ {t} : Waiting(k, v) => Waiting(k, v)'
  <2> SUFFICES ASSUME NEW v \in Txs \ {t}, Waiting(k, v)
               PROVE  Waiting(k, v)'
    OBVIOUS
  <2>1. v \in op.left <=> v \in op'.left
    BY <1>1
  <2>2. ~Working(v)'
    BY <1>3
  <2>3. /\ DeployOpen(k, v)' <=> DeployOpen(k, v)
        /\ UninstallOpen(k, v)' <=> UninstallOpen(k, v)
        /\ Quarantined(k, v)' <=> Quarantined(k, v)
        /\ Rolled(v)' <=> Rolled(v)
    BY <1>1, <1>2 DEF DeployOpen, UninstallOpen, Quarantined, Rolled, Activated,
         Untouched, Moved, Swapped, Kept, Honest
  <2> QED
    BY <1>1, <2>1, <2>2, <2>3 DEF Waiting
<1>6. Reported'
  BY <1>1, <1>2 DEF CrashInv, Reported, Rolled, Activated
<1>7. RowsAgree(k)' /\ (current'[k] = None => "tombstone" \in hit')
  BY <1>1, <1>2, RowsStay DEF CrashInv
<1>8. Honest(k) => Honest(k)'
  BY <1>2 DEF Honest
<1> QED
  BY <1>3, <1>4, <1>5, <1>6, <1>7, <1>8 DEF CrashInv

(* What recover_one does about each thing that a crash can leave.          *)
LEMMA RecoversOpen ==
    ASSUME NEW k, NEW t \in Txs, EngineInv, DeployOpen(k, t)
    PROVE  LET s == RecoverySteps(t, TRUE)
               j == journal[t]
           IN  \/ s = <<"drop_stage", "forget">> /\ Untouched(k, t)
               \/ /\ s = <<"swap", "recheck", "activated", "drop_aside", "commit">>
                  /\ target = None /\ stage[t] = j.hash /\ aside[t] # None
               \/ /\ s = <<"activated", "drop_aside", "commit">>
                  /\ target = j.hash /\ stage[t] = None
               \/ /\ s = <<"activated", "commit">>
                  /\ target = j.hash /\ stage[t] = None /\ aside[t] = None
<1>1. PICK j \in Journals : j = journal[t]
  BY DEF EngineInv, DeployTypeOK
<1>2. j.kind = "deploy" /\ j.hash # None /\ j.replaced \in BOOLEAN
  BY <1>1, DeploymentAssumption
     DEF EngineInv, JournalInv, DeployOpen, Journals, NoJournal
<1>3. CASE j.phase = "intent"
  <2>1. Untouched(k, t)
    BY <1>1, <1>3 DEF DeployOpen
  <2>2. RecoverySteps(t, TRUE) = <<"drop_stage", "forget">>
    BY <1>1, <1>3, <2>1 DEF RecoverySteps, Untouched
  <2> QED
    BY <2>1, <2>2
<1>4. CASE j.phase = "prepared" /\ j.replaced
  <2>1. CASE Untouched(k, t) /\ stage[t] = j.hash /\ target # None
    <3>1. RecoverySteps(t, TRUE) = <<"drop_stage", "forget">>
      BY <1>1, <1>2, <1>4, <2>1 DEF RecoverySteps, Untouched
    <3> QED
      BY <2>1, <3>1
  <2>2. CASE Moved(k, t)
    <3>1. RecoverySteps(t, TRUE) = ActivateSteps(t, TRUE)
      BY <1>1, <1>2, <1>4, <2>2 DEF RecoverySteps, Moved, Kept
    <3> QED
      BY <1>1, <2>2, <3>1 DEF ActivateSteps, Verified, Moved, Kept
  <2> QED
    BY <1>1, <1>4, <2>1, <2>2 DEF DeployOpen
<1>5. CASE j.phase = "prepared" /\ ~j.replaced
  <2>1. aside[t] = None /\ catalog[k] = None
    BY <1>1, <1>5 DEF DeployOpen
  <2>2. CASE stage[t] = j.hash /\ target = None
    <3>1. RecoverySteps(t, TRUE) = <<"drop_stage", "forget">>
      BY <1>1, <1>2, <1>5, <2>1, <2>2 DEF RecoverySteps
    <3> QED
      BY <2>1, <3>1 DEF Untouched, Honest
  <2>3. CASE stage[t] = None /\ target = j.hash
    <3>1. RecoverySteps(t, TRUE) = VerifyOrRemove(t, TRUE)
      BY <1>1, <1>2, <1>5, <2>1, <2>3 DEF RecoverySteps
    <3> QED
      BY <1>1, <2>1, <2>3, <3>1 DEF VerifyOrRemove, Verified
  <2> QED
    BY <1>1, <1>5, <2>2, <2>3 DEF DeployOpen
<1>6. CASE j.phase = "old_moved"
  <2>1. CASE Moved(k, t)
    <3>1. RecoverySteps(t, TRUE) = ActivateSteps(t, TRUE)
      BY <1>1, <1>2, <1>6, <2>1 DEF RecoverySteps, Moved, Kept
    <3> QED
      BY <1>1, <2>1, <3>1 DEF ActivateSteps, Verified, Moved, Kept
  <2>2. CASE Swapped(k, t)
    <3>1. RecoverySteps(t, TRUE) = VerifyOrRestore(t, TRUE)
      BY <1>1, <1>2, <1>6, <2>2 DEF RecoverySteps, Swapped, Kept
    <3> QED
      BY <1>1, <2>2, <3>1 DEF VerifyOrRestore, Verified, Swapped
  <2> QED
    BY <1>1, <1>6, <2>1, <2>2 DEF DeployOpen
<1>7. CASE j.phase = "activated"
  <2>1. target = j.hash /\ stage[t] = None
    BY <1>1, <1>7 DEF DeployOpen
  <2>2. RecoverySteps(t, TRUE) = VerifyOrRestore(t, TRUE)
    BY <1>1, <1>2, <1>7, <2>1 DEF RecoverySteps
  <2> QED
    BY <1>1, <2>1, <2>2 DEF VerifyOrRestore, Verified
<1> QED
  BY <1>1, <1>3, <1>4, <1>5, <1>6, <1>7 DEF DeployOpen

(* A deployment that was activated for a deleted skill is left alone,      *)
(* unless the directory holds just what it installed.                      *)
LEMMA RecoversLeftover ==
    ASSUME NEW k, NEW t \in Txs, Activated(t), ~DeployOpen(k, t)
    PROVE  RecoverySteps(t, TRUE) = <<>>
<1>1. /\ journal[t].phase = "activated" /\ stage[t] = None /\ aside[t] = None
      /\ target # journal[t].hash
  BY DEF Activated, DeployOpen
<1>2. CASE target = None
  BY <1>1, <1>2 DEF RecoverySteps
<1>3. CASE target # None
  <2>1. RecoverySteps(t, TRUE) = VerifyOrRestore(t, TRUE)
    BY <1>1, <1>3 DEF RecoverySteps
  <2> QED
    BY <1>1, <2>1 DEF VerifyOrRestore, Verified
<1> QED
  BY <1>2, <1>3

LEMMA RecoverVisitCrash ==
    ASSUME NEW k \in Skills, EngineInv, CrashInv(k), Crashes', NEW t \in Txs,
           RecoverOne(t)
    PROVE  CrashInv(k)'
<1> DEFINE s == RecoverySteps(t, TRUE)
<1>1. Visit("recover", t, s) /\ hit' = hit
  <2>1. ~Fault("io")
    BY DEF Fault, Crashes
  <2> QED
    BY <2>1 DEF RecoverOne, faultVars
<1>2. Crashes
  BY <1>1 DEF Crashes
<1>3. /\ op.mode = "recover" /\ t \in op.left /\ op.todo = <<>>
      /\ op'.mode = "recover" /\ op'.todo = s /\ op'.tx = t
      /\ disk' = disk /\ rows' = rows /\ journal' = journal
  BY <1>1 DEF Visit, EngineInv, OpInv
<1>4. journal[t].kind = "deploy" /\ t \notin op.found
  BY <1>3 DEF EngineInv, OpInv, KindOf
<1>5. Waiting(k, t) => DeployOpen(k, t)
  BY <1>3, <1>4 DEF Waiting, UninstallOpen, Quarantined
<1>6. Settled(t) => Activated(t)
  BY <1>4 DEF Settled, Fresh, NoJournal
<1>7. Settled(t) \/ Waiting(k, t)
  BY <1>2, <1>3 DEF CrashInv, Working
<1>8. s \in PlansOf("recover")
  BY RecoveryStepsPlan DEF PlansOf
<1> HIDE DEF s
<1>9. CASE ~DeployOpen(k, t)
  <2>1. s = <<>> /\ Settled(t) /\ ~Waiting(k, t)
    BY <1>5, <1>6, <1>7, <1>9, RecoversLeftover DEF s
  <2> QED
    BY <1>1, <1>2, <1>8, <2>1, VisitFrame DEF Modes
<1>10. CASE DeployOpen(k, t)
  <2>1. /\ target' = target /\ stage' = stage /\ aside' = aside /\ catalog' = catalog
    BY <1>3 DEF disk, rows
  <2>2. \/ s = <<"drop_stage", "forget">> /\ Untouched(k, t)
        \/ /\ s = <<"swap", "recheck", "activated", "drop_aside", "commit">>
           /\ target = None /\ stage[t] = journal[t].hash /\ aside[t] # None
        \/ /\ s = <<"activated", "drop_aside", "commit">>
           /\ target = journal[t].hash /\ stage[t] = None
        \/ /\ s = <<"activated", "commit">>
           /\ target = journal[t].hash /\ stage[t] = None /\ aside[t] = None
    BY <1>10, RecoversOpen DEF s
  <2>3. s # <<>>
    <3>1. /\ <<"drop_stage", "forget">> # <<>> /\ <<"activated", "commit">> # <<>>
          /\ <<"activated", "drop_aside", "commit">> # <<>>
          /\ <<"swap", "recheck", "activated", "drop_aside", "commit">> # <<>>
      OBVIOUS
    <3> QED
      BY <2>2, <3>1
  <2>4. RecoverPoint(k, t)'
    <3>1. CASE s = <<"drop_stage", "forget">> /\ Untouched(k, t)
      BY <1>3, <2>1, <3>1 DEF RecoverPoint, Step, Untouched, Honest
    <3>2. CASE /\ s = <<"swap", "recheck", "activated", "drop_aside", "commit">>
               /\ target = None /\ stage[t] = journal[t].hash /\ aside[t] # None
      BY <1>3, <2>1, <3>2 DEF RecoverPoint, Step
    <3>3. CASE /\ s = <<"activated", "drop_aside", "commit">>
               /\ target = journal[t].hash /\ stage[t] = None
      BY <1>3, <2>1, <3>3 DEF RecoverPoint, Step
    <3>4. CASE /\ s = <<"activated", "commit">>
               /\ target = journal[t].hash /\ stage[t] = None /\ aside[t] = None
      BY <1>3, <2>1, <3>4 DEF RecoverPoint, Step
    <3> QED
      BY <2>2, <3>1, <3>2, <3>3, <3>4
  <2>5. Point(k, t)'
    BY <1>3, <2>4 DEF Point
  <2> QED
    BY <1>1, <1>2, <1>8, <2>3, <2>5, VisitFrame DEF Modes
<1> QED
  BY <1>9, <1>10

LEMMA ReplayVisitCrash ==
    ASSUME NEW k \in Skills, EngineInv, CrashInv(k), Crashes, NEW t \in Txs,
           ReplayCommit(t)
    PROVE  CrashInv(k)'
<1> DEFINE s == <<"record", "ack">>
<1>1. Visit("replay", t, s) /\ hit' = hit
  BY DEF ReplayCommit, faultVars
<1>2. s \in PlansOf("replay") /\ s # <<>> /\ Head(s) = "record"
  BY DEF PlansOf, ReplayPlans
<1> HIDE DEF s
<1>3. /\ op.mode = "replay" /\ t \in op.left
      /\ op'.mode = "replay" /\ op'.todo = s
      /\ disk' = disk /\ rows' = rows /\ journal' = journal
  BY <1>1 DEF Visit, EngineInv, OpInv
<1>4. Rolled(t)
  BY <1>3 DEF CrashInv, Reported
<1>5. Point(k, t)'
  BY <1>2, <1>3, <1>4 DEF Point, ReplayPoint, Rolled, Activated, disk, Step
<1> QED
  BY <1>1, <1>2, <1>5, VisitFrame DEF Modes

LEMMA FindVisitCrash ==
    ASSUME NEW k \in Skills, EngineInv, CrashInv(k), Crashes, NEW t \in Txs,
           FindUninstall(t)
    PROVE  CrashInv(k)'
<1>1. PICK s : /\ Visit("find", t, s)
               /\ s = CASE target # None /\ aside[t] = None
                             /\ journal[t].phase = "intent" -> <<"forget">>
                        [] target = None /\ (aside[t] # None
                                               \/ journal[t].phase = "moved")
                             -> <<"commit">>
                        [] OTHER -> <<>>
  BY DEF FindUninstall
<1>2. /\ op.mode = "find" /\ t \in op.left /\ op.todo = <<>>
      /\ op'.mode = "find" /\ op'.todo = s
      /\ disk' = disk /\ rows' = rows /\ journal' = journal /\ hit' = hit
  BY <1>1 DEF Visit, EngineInv, OpInv, FindUninstall, faultVars
<1>3. journal[t].kind = "uninstall" /\ t \notin op.found
  BY <1>2 DEF EngineInv, OpInv, KindOf
<1>4. UninstallOpen(k, t)
  <2>1. ~Settled(t)
    BY <1>3, SettledKind
  <2> QED
    BY <1>2, <1>3, <2>1 DEF CrashInv, Working, Waiting
<1>5. /\ target' = target /\ stage' = stage /\ aside' = aside /\ catalog' = catalog
  BY <1>2 DEF disk, rows
<1>6. \/ s = <<"forget">> /\ stage[t] = None /\ Untouched(k, t)
      \/ s = <<"commit">> /\ Quarantined(k, t)
  BY <1>1, <1>4 DEF UninstallOpen, Quarantined, Kept, Untouched
<1>7. s \in PlansOf("find") /\ s # <<>>
  BY <1>6 DEF PlansOf, FindPlans
<1>8. FindPoint(k, t)'
  <2>1. CASE s = <<"forget">> /\ stage[t] = None /\ Untouched(k, t)
    BY <1>2, <1>5, <2>1 DEF FindPoint, Step, Untouched, Honest
  <2>2. CASE s = <<"commit">> /\ Quarantined(k, t)
    BY <1>2, <1>5, <2>2 DEF FindPoint, Step, Quarantined, Kept
  <2> QED
    BY <1>6, <2>1, <2>2
<1>9. Point(k, t)'
  BY <1>2, <1>8 DEF Point
<1> QED
  BY <1>1, <1>2, <1>7, <1>9, VisitFrame DEF Modes

LEMMA SettleVisitCrash ==
    ASSUME NEW k \in Skills, Skills = {k}, EngineInv, CrashInv(k), Crashes,
           NEW t \in Txs, SettleUninstall(t)
    PROVE  CrashInv(k)'
<1>1. PICK s : /\ Visit("settle", t, s)
               /\ s = IF catalog[journal[t].skill] # None THEN RollbackSteps(t)
                      ELSE FinalizeSteps(t)
  BY DEF SettleUninstall
<1>2. /\ op.mode = "settle" /\ t \in op.left /\ op.todo = <<>>
      /\ op'.mode = "settle" /\ op'.todo = s
      /\ disk' = disk /\ rows' = rows /\ journal' = journal /\ hit' = hit
  BY <1>1 DEF Visit, EngineInv, OpInv, SettleUninstall, faultVars
<1>3. journal[t].kind = "uninstall" /\ t \notin op.found
  BY <1>2 DEF EngineInv, OpInv, KindOf
<1>4. Quarantined(k, t) /\ journal[t].skill = k
  <2>1. ~Settled(t)
    BY <1>3, SettledKind
  <2> QED
    BY <1>2, <1>3, <2>1, AboutAlone DEF CrashInv, Working, Waiting
<1>5. /\ target' = target /\ stage' = stage /\ aside' = aside /\ catalog' = catalog
  BY <1>2 DEF disk, rows
<1>6. \/ s = <<"restore", "forget">> /\ target = None /\ Kept(k, t)
      \/ s = <<"drop_aside", "forget">> /\ target = None /\ catalog[k] = None
  BY <1>1, <1>4 DEF Quarantined, Kept, RollbackSteps, FinalizeSteps
<1>7. s \in PlansOf("settle") /\ s # <<>>
  BY <1>6 DEF PlansOf, SettlePlans
<1>8. SettlePoint(k, t)'
  <2>1. stage[t] = None
    BY <1>4 DEF Quarantined
  <2>2. CASE s = <<"restore", "forget">> /\ target = None /\ Kept(k, t)
    BY <1>2, <1>5, <2>1, <2>2 DEF SettlePoint, Step, Kept
  <2>3. CASE s = <<"drop_aside", "forget">> /\ target = None /\ catalog[k] = None
    BY <1>2, <1>5, <2>1, <2>3 DEF SettlePoint, Step
  <2> QED
    BY <1>6, <2>2, <2>3
<1>9. Point(k, t)'
  BY <1>2, <1>8 DEF Point
<1> QED
  BY <1>1, <1>2, <1>7, <1>9, VisitFrame DEF Modes

(* A recovery step that leaves the directory and the catalog alone.        *)
LEMMA QuietFrame ==
    ASSUME NEW k \in Skills, NEW w \in Txs, w = op.tx, op.todo # <<>>,
           EngineInv, CrashInv(k), Crashes,
           hit' = hit, current' = current, catalog' = catalog, target' = target,
           \A v \in Txs \ {w} : /\ journal'[v] = journal[v]
                                /\ stage'[v] = stage[v] /\ aside'[v] = aside[v],
           op'.mode = op.mode, op'.left = op.left, op'.tx = w,
           op'.found = op.found \/ (op'.found = op.found \cup {w} /\ Rolled(w)')
             \/ (op'.found = op.found \cup {w} /\ op.mode = "find"),
           Settled(w) => Settled(w)',
           \/ Working(w)' /\ Point(k, w)'
           \/ ~Working(w)' /\ Settled(w)' /\ Honest(k)'
           \/ ~Working(w)' /\ Waiting(k, w)'
    PROVE  CrashInv(k)'
<1>1. w \notin op.left \cup op.found
  BY DEF EngineInv, OpInv, Working
<1>2. Reported'
  <2>1. \A v \in Txs \ {w} : Rolled(v) => Rolled(v)'
    BY DEF Rolled, Activated
  <2>2. op.left \subseteq Txs /\ op.found \subseteq Txs /\ Reported
    BY DEF EngineInv, OpInv, CrashInv
  <2> QED
    BY <1>1, <2>1, <2>2 DEF Reported
<1>3. \/ \A v \in Txs \ {w} : Settled(v)
      \/ Settled(w) /\ \A v \in Txs \ {w} : Settled(v) \/ Waiting(k, v)
  BY Others
<1>4. \A v \in Txs \ {w} : Waiting(k, v) => Waiting(k, v)'
  <2> SUFFICES ASSUME NEW v \in Txs \ {w}, Waiting(k, v)
               PROVE  Waiting(k, v)'
    OBVIOUS
  <2>1. ~Working(v)'
    BY DEF Working
  <2>2. op.found \subseteq op'.found
    OBVIOUS
  <2> QED
    BY <2>1, <2>2, StaysWaiting
<1>5. RowsAgree(k)'
  BY RowsStay
<1> QED
  BY <1>2, <1>3, <1>4, <1>5, StepFrame

LEMMA RecoverNext ==
    ASSUME NEW s \in RecoverPlans, s # <<>>
    PROVE  /\ Head(s) \in {"swap", "recheck", "activated", "drop_aside", "commit",
                           "drop_stage", "drop_target", "restore", "forget"}
           /\ Head(s) = "swap" => Tail(s) = <<"recheck", "activated", "drop_aside", "commit">>
           /\ Head(s) = "recheck" => Tail(s) = <<"activated", "drop_aside", "commit">>
           /\ Head(s) = "activated"
                => \/ Tail(s) = <<"drop_aside", "commit">>
                   \/ s = <<"activated", "commit">> /\ Tail(s) = <<"commit">>
           /\ Head(s) = "drop_aside" => Tail(s) = <<"commit">>
           /\ Head(s) = "commit" => Tail(s) = <<>>
           /\ Head(s) = "drop_stage"
                => \/ s = <<"drop_stage", "restore", "forget">>
                   \/ Tail(s) = <<"forget">>
           /\ Head(s) = "restore" => s = <<"restore", "forget">>
           /\ Head(s) = "forget" => Tail(s) = <<>>
<1>1. Head(s) \in {"swap", "recheck", "activated", "drop_aside", "commit",
                   "drop_stage", "drop_target", "restore", "forget"}
  BY DEF RecoverPlans
<1>2. /\ Head(s) = "swap"
           => s = <<"swap", "recheck", "activated", "drop_aside", "commit">>
      /\ Head(s) = "recheck" => s = <<"recheck", "activated", "drop_aside", "commit">>
      /\ Head(s) = "activated" => \/ s = <<"activated", "drop_aside", "commit">>
                                  \/ s = <<"activated", "commit">>
      /\ Head(s) = "drop_aside" => s = <<"drop_aside", "commit">>
      /\ Head(s) = "commit" => s = <<"commit">>
      /\ Head(s) = "drop_stage" => \/ s = <<"drop_stage", "restore", "forget">>
                                   \/ s = <<"drop_stage", "forget">>
      /\ Head(s) = "restore" => s = <<"restore", "forget">>
      /\ Head(s) = "forget" => s = <<"forget">>
  BY DEF RecoverPlans
<1> QED
  BY <1>1, <1>2, RecoverTails, Zenon

LEMMA RecoverStepCrash ==
    ASSUME NEW k \in Skills, Skills = {k}, EngineInv, CrashInv(k), Crashes,
           op.mode = "recover", EngineStep
    PROVE  CrashInv(k)'
<1>1. op.todo # <<>>
  BY DEF EngineStep, Persist, Forget, Stage, SetAside, Swap, Verify, Recheck, Drop,
         Restore, RecordDeployment, Acknowledge, Uncatalog, ReportCommit, Step
<1>2. PICK w \in Txs : w = op.tx
  BY <1>1, AtHand
<1>3. PICK j \in Journals : j = journal[w]
  BY <1>1, <1>2, AtHand
<1>4. /\ op.todo \in RecoverPlans
      /\ j.kind = "deploy" /\ j.skill = k /\ j.hash # None /\ j # NoJournal
      /\ RecoverPoint(k, w)
  <2>1. PlansOf("recover") = RecoverPlans /\ KindOf("recover") = "deploy"
    BY DEF PlansOf, KindOf
  <2> QED
    BY <1>1, <1>2, <1>3, <2>1, AtPoint, AtHand DEF Point
<1>5. /\ journal \in [Txs -> Journals]
      /\ stage \in [Txs -> Contents] /\ aside \in [Txs -> Contents]
  BY DEF EngineInv, DeployTypeOK
<1>6. Head(op.todo) \in {"swap", "recheck", "activated", "drop_aside", "commit",
                         "drop_stage", "forget"}
  BY <1>1, <1>4, RecoverNext DEF RecoverPoint, Step
<1>7. Proceed => /\ op'.todo = Tail(op.todo) /\ op'.mode = "recover" /\ op'.tx = w
                 /\ op'.left = op.left /\ op'.found = op.found
  BY <1>1, <1>2, ProceedOp DEF Commands
<1>8. CASE Swap
  <2>1. /\ Head(op.todo) = "swap" /\ Proceed /\ target = None /\ target' = stage[w]
        /\ stage' = [stage EXCEPT ![w] = None] /\ current' = current
        /\ catalog' = catalog /\ aside' = aside /\ journal' = journal /\ hit' = hit
    BY <1>2, <1>8 DEF Swap, Step, tx, rows, faultVars
  <2>2. stage[w] = j.hash /\ aside[w] # None
    BY <1>1, <1>3, <1>4, <2>1 DEF RecoverPoint, Step
  <2>3. op'.todo = <<"recheck", "activated", "drop_aside", "commit">>
    BY <1>1, <1>4, <1>7, <2>1, RecoverNext
  <2>4. Point(k, w)'
    BY <1>3, <1>5, <1>7, <2>1, <2>2, <2>3 DEF RecoverPoint, Step, Point
  <2>5. Working(w)'
    BY <1>7, <2>1, <2>3 DEF Working
  <2>6. \A v \in Txs \ {w} : Settled(v)
    <3>1. ~Settled(w)
      BY <1>3, <1>4, <2>2 DEF Settled, Fresh, Activated
    <3> QED
      BY <1>1, <1>2, <3>1, Others
  <2>7. op.found = {}
    <3> SUFFICES ASSUME NEW t \in op.found
                 PROVE  FALSE
      OBVIOUS
    <3>1. t \in Txs /\ journal[t].kind = "deploy"
      BY DEF EngineInv, OpInv, KindOf
    <3>2. journal[t].hash # None
      BY <3>1, DeploymentAssumption DEF EngineInv, JournalInv
    <3> QED
      BY <2>1, <3>2 DEF CrashInv, Reported, Rolled
  <2>8. Reported'
    BY <1>7, <2>1, <2>7 DEF Reported
  <2>9. RowsAgree(k)'
    BY <2>1, RowsStay
  <2> QED
    BY <1>1, <1>2, <1>5, <1>7, <2>1, <2>4, <2>5, <2>6, <2>8, <2>9, StepFrame
<1>9. CASE Recheck
  <2>1. Head(op.todo) = "recheck"
    BY <1>9 DEF Recheck, Step
  <2>2. target = j.hash /\ stage[w] = None
    BY <1>1, <1>3, <1>4, <2>1 DEF RecoverPoint, Step
  <2>3. /\ Proceed /\ target' = target /\ stage' = stage /\ aside' = aside
        /\ current' = current /\ catalog' = catalog /\ journal' = journal /\ hit' = hit
    BY <1>2, <1>3, <1>9, <2>2 DEF Recheck, Record, tx, rows, disk, faultVars
  <2>4. op'.todo = <<"activated", "drop_aside", "commit">>
    BY <1>1, <1>4, <1>7, <2>1, <2>3, RecoverNext
  <2>5. Point(k, w)'
    BY <1>3, <1>7, <2>2, <2>3, <2>4 DEF RecoverPoint, Step, Point
  <2>6. Working(w)'
    BY <1>7, <2>3, <2>4 DEF Working
  <2>7. Settled(w) => Settled(w)'
    BY <2>3, StaysSettled
  <2> QED
    BY <1>1, <1>2, <1>7, <2>3, <2>5, <2>6, <2>7, QuietFrame
<1>10. CASE \E s \in {"prepared", "old_moved", "activated", "moved"} : Persist(s)
  <2>1. /\ Head(op.todo) = "activated" /\ Proceed
        /\ journal' = [journal EXCEPT ![w] = [j EXCEPT !.phase = "activated"]]
        /\ rows' = rows /\ disk' = disk /\ hit' = hit
    BY <1>2, <1>3, <1>5, <1>6, <1>10 DEF Persist, Step, tx, faultVars
  <2>2. PICK i : i = [j EXCEPT !.phase = "activated"]
    OBVIOUS
  <2>3. /\ i.phase = "activated" /\ i.kind = "deploy" /\ i.hash = j.hash
        /\ journal'[w] = i
        /\ \A v \in Txs \ {w} : journal'[v] = journal[v]
    BY <1>3, <1>4, <1>5, <2>1, <2>2 DEF Journals, NoJournal
  <2>4. /\ target' = target /\ stage' = stage /\ aside' = aside
        /\ current' = current /\ catalog' = catalog
    BY <2>1 DEF rows, disk
  <2>5. /\ target = j.hash /\ stage[w] = None
        /\ op.todo = <<"activated", "commit">> => aside[w] = None
    BY <1>1, <1>3, <1>4, <2>1 DEF RecoverPoint, Step
  <2>6. \/ op'.todo = <<"drop_aside", "commit">>
        \/ op'.todo = <<"commit">> /\ aside[w] = None
    BY <1>1, <1>4, <1>7, <2>1, <2>5, RecoverNext
  <2>7. Point(k, w)'
    <3>1. CASE op'.todo = <<"drop_aside", "commit">>
      BY <1>7, <2>1, <2>3, <2>4, <2>5, <3>1 DEF RecoverPoint, Step, Point
    <3>2. CASE op'.todo = <<"commit">> /\ aside[w] = None
      <4>1. Head(op'.todo) = "commit" /\ op'.todo # <<>>
        BY <3>2
      <4>2. op'.todo \notin {<<"drop_stage", "restore", "forget">>,
                             <<"restore", "forget">>, <<"activated", "commit">>}
        BY <3>2
      <4>3. Rolled(w)'
        BY <2>3, <2>4, <2>5, <3>2 DEF Rolled, Activated
      <4> QED
        BY <1>7, <2>1, <4>1, <4>2, <4>3 DEF RecoverPoint, Step, Point
    <3> QED
      BY <2>6, <3>1, <3>2
  <2>8. Working(w)'
    BY <1>7, <2>1, <2>6 DEF Working
  <2>9. Settled(w) => Settled(w)'
    BY <1>3, <1>4, <2>1, <2>3, <2>4 DEF Settled, Fresh, Activated
  <2> QED
    BY <1>1, <1>2, <1>7, <2>1, <2>3, <2>4, <2>7, <2>8, <2>9, QuietFrame
<1>11. CASE Drop /\ Head(op.todo) = "drop_aside"
  <2>1. /\ Proceed /\ aside' = [aside EXCEPT ![w] = None]
        /\ target' = target /\ stage' = stage /\ journal' = journal /\ hit' = hit
        /\ current' = current /\ catalog' = catalog
    BY <1>2, <1>11 DEF Drop, Step, tx, rows, faultVars
  <2>2. j.phase = "activated" /\ target = j.hash /\ stage[w] = None
    BY <1>1, <1>3, <1>4, <1>11 DEF RecoverPoint, Step
  <2>3. op'.todo = <<"commit">>
    BY <1>1, <1>4, <1>7, <1>11, <2>1, RecoverNext
  <2>4. Rolled(w)'
    BY <1>3, <1>4, <1>5, <2>1, <2>2 DEF Rolled, Activated
  <2>5. Point(k, w)'
    BY <1>7, <2>1, <2>3, <2>4 DEF RecoverPoint, Step, Point
  <2>6. Working(w)'
    BY <1>7, <2>1, <2>3 DEF Working
  <2>7. Settled(w) => Settled(w)'
    BY <1>5, <2>1 DEF Settled, Fresh, Activated
  <2> QED
    BY <1>1, <1>2, <1>5, <1>7, <2>1, <2>5, <2>6, <2>7, QuietFrame
<1>12. CASE Drop /\ Head(op.todo) = "drop_stage"
  <2>1. /\ Proceed /\ stage' = [stage EXCEPT ![w] = None]
        /\ target' = target /\ aside' = aside /\ journal' = journal /\ hit' = hit
        /\ current' = current /\ catalog' = catalog
    BY <1>2, <1>12 DEF Drop, Step, tx, rows, faultVars
  <2>2. Untouched(k, w) /\ op.todo # <<"drop_stage", "restore", "forget">>
    BY <1>1, <1>4, <1>12 DEF RecoverPoint, Step
  <2>3. op'.todo = <<"forget">>
    BY <1>1, <1>4, <1>7, <1>12, <2>1, <2>2, RecoverNext
  <2>4. Point(k, w)'
    BY <1>5, <1>7, <2>1, <2>2, <2>3 DEF RecoverPoint, Step, Point, Untouched, Honest
  <2>5. Working(w)'
    BY <1>7, <2>1, <2>3 DEF Working
  <2>6. Settled(w) => Settled(w)'
    BY <1>5, <2>1 DEF Settled, Fresh, Activated
  <2> QED
    BY <1>1, <1>2, <1>5, <1>7, <2>1, <2>4, <2>5, <2>6, QuietFrame
<1>13. CASE Forget
  <2>1. /\ Head(op.todo) = "forget" /\ Proceed
        /\ journal' = [journal EXCEPT ![w] = NoJournal]
        /\ target' = target /\ stage' = stage /\ aside' = aside /\ hit' = hit
        /\ current' = current /\ catalog' = catalog
    BY <1>2, <1>13 DEF Forget, Step, tx, rows, disk, faultVars
  <2>2. Untouched(k, w) /\ stage[w] = None
    BY <1>1, <1>4, <2>1 DEF RecoverPoint, Step
  <2>3. ~Working(w)'
    BY <1>1, <1>4, <1>7, <2>1, RecoverNext DEF Working
  <2>4. Settled(w)' /\ Honest(k)'
    BY <1>5, <2>1, <2>2 DEF Settled, Fresh, Untouched, Honest
  <2> QED
    BY <1>1, <1>2, <1>5, <1>7, <2>1, <2>3, <2>4, QuietFrame
<1>14. CASE ReportCommit
  <2>1. /\ Head(op.todo) = "commit"
        /\ op' = [After(Tail(op.todo)) EXCEPT !.found = @ \cup {w}]
        /\ target' = target /\ stage' = stage /\ aside' = aside /\ journal' = journal
        /\ current' = current /\ catalog' = catalog /\ hit' = hit
    BY <1>2, <1>14 DEF ReportCommit, Step, tx, rows, disk, faultVars
  <2>2. Rolled(w)
    BY <1>1, <1>4, <2>1 DEF RecoverPoint, Step
  <2>3. /\ op'.todo = <<>> /\ op'.mode = "recover" /\ op'.tx = w
        /\ op'.left = op.left /\ op'.found = op.found \cup {w}
    <3>1. Tail(op.todo) = <<>>
      BY <1>1, <1>4, <2>1, RecoverNext
    <3> QED
      BY <1>2, <2>1, <3>1 DEF After, Commands, EngineInv, OpInv
  <2>4. Rolled(w)'
    BY <2>1, <2>2 DEF Rolled, Activated
  <2>5. ~Working(w)' /\ Waiting(k, w)'
    BY <2>3, <2>4 DEF Working, Waiting
  <2>6. Settled(w) => Settled(w)'
    BY <2>1, StaysSettled
  <2> QED
    BY <1>1, <1>2, <2>1, <2>3, <2>4, <2>5, <2>6, QuietFrame
<1> QED
  BY <1>1, <1>6, <1>8, <1>9, <1>10, <1>11, <1>12, <1>13, <1>14
     DEF EngineStep, Stage, SetAside, Verify, Drop, Restore, RecordDeployment,
         Acknowledge, Uncatalog, Step

LEMMA ReplayStepCrash ==
    ASSUME NEW k \in Skills, Skills = {k}, EngineInv, CrashInv(k), Crashes,
           op.mode = "replay", EngineStep
    PROVE  CrashInv(k)'
<1>1. op.todo # <<>>
  BY DEF EngineStep, Persist, Forget, Stage, SetAside, Swap, Verify, Recheck, Drop,
         Restore, RecordDeployment, Acknowledge, Uncatalog, ReportCommit, Step
<1>2. PICK w \in Txs : w = op.tx
  BY <1>1, AtHand
<1>3. PICK j \in Journals : j = journal[w]
  BY <1>1, <1>2, AtHand
<1>4. /\ op.todo = <<"record", "ack">> \/ op.todo = <<"ack">>
      /\ j.kind = "deploy" /\ j.skill = k /\ j.hash # None
      /\ ReplayPoint(k, w)
  <2>1. PlansOf("replay") = ReplayPlans /\ KindOf("replay") = "deploy"
    BY DEF PlansOf, KindOf
  <2>2. op.todo \in ReplayPlans
    BY <1>1, <2>1, AtHand
  <2>3. op.todo = <<"record", "ack">> \/ op.todo = <<"ack">>
    BY <1>1, <2>2 DEF ReplayPlans
  <2> QED
    BY <1>1, <1>2, <1>3, <2>1, <2>3, AtPoint DEF Point
<1>5. /\ journal \in [Txs -> Journals] /\ catalog \in [Skills -> Hashes \cup {None}]
  BY DEF EngineInv, DeployTypeOK
<1>6. Rolled(w) /\ (Head(op.todo) = "ack" => Honest(k))
  BY <1>1, <1>4 DEF ReplayPoint, Step
<1>7. /\ Proceed => op'.todo = Tail(op.todo)
      /\ GiveUp => op'.todo = <<>>
      /\ Proceed \/ GiveUp => /\ op'.mode = "replay" /\ op'.tx = w
                              /\ op'.left = op.left /\ op'.found = op.found
  BY <1>1, <1>2, ProceedOp, GiveUpOp DEF Commands
<1>8. CASE Acknowledge
  <2>1. Head(op.todo) = "ack" /\ Proceed
    BY <1>8 DEF Acknowledge, Step
  <2>2. Tail(op.todo) = <<>>
    <3>1. op.todo = <<"ack">>
      BY <1>4, <2>1
    <3> QED
      BY <3>1
  <2>3. /\ target' = target /\ stage' = stage /\ aside' = aside /\ hit' = hit
        /\ current' = current /\ catalog' = catalog
        /\ journal' = [journal EXCEPT ![w] = NoJournal]
    BY <1>2, <1>3, <1>6, <1>8
       DEF Acknowledge, Record, tx, Rolled, Activated, rows, disk, faultVars
  <2>4. ~Working(w)'
    BY <1>7, <2>1, <2>2 DEF Working
  <2>5. Settled(w)' /\ Honest(k)'
    BY <1>5, <1>6, <2>1, <2>3 DEF Settled, Fresh, Rolled, Activated, Honest
  <2> QED
    BY <1>1, <1>2, <1>5, <1>7, <2>1, <2>3, <2>4, <2>5, QuietFrame
<1>9. CASE RecordDeployment
  <2>1. Head(op.todo) = "record" /\ op.todo # <<"ack">>
    BY <1>9 DEF RecordDeployment, Step
  <2>2. /\ target' = target /\ stage' = stage /\ aside' = aside
        /\ journal' = journal /\ hit' = hit /\ current' = current
    BY <1>9 DEF RecordDeployment, disk, faultVars
  <2>3. Settled(w) => Settled(w)'
    BY <2>2, StaysSettled
  <2>4. CASE current[k] = None
    <3>1. GiveUp /\ catalog' = catalog
      BY <1>2, <1>3, <1>4, <1>9, <2>4 DEF RecordDeployment, Record, tx
    <3>2. "tombstone" \in hit /\ catalog[k] = None
      BY <2>4 DEF CrashInv, RowsAgree
    <3>3. Settled(w)' /\ Honest(k)'
      BY <1>6, <2>2, <3>1, <3>2 DEF Settled, Rolled, Activated, Honest
    <3>4. ~Working(w)'
      BY <1>7, <3>1 DEF Working
    <3> QED
      BY <1>1, <1>2, <1>7, <2>2, <3>1, <3>3, <3>4, QuietFrame
  <2>5. CASE current[k] # None
    <3>1. Proceed /\ catalog' = [catalog EXCEPT ![k] = j.hash]
      BY <1>2, <1>3, <1>4, <1>6, <1>9, <2>5
         DEF RecordDeployment, Record, tx, Rolled
    <3>2. op'.todo = <<"ack">>
      <4>1. Tail(<<"record", "ack">>) = <<"ack">>
        OBVIOUS
      <4> QED
        BY <1>4, <1>7, <2>1, <3>1, <4>1
    <3>3. Rolled(w)' /\ Honest(k)'
      BY <1>3, <1>5, <1>6, <2>2, <3>1 DEF Rolled, Activated, Honest
    <3>4. Working(w)' /\ Point(k, w)'
      BY <1>7, <3>1, <3>2, <3>3 DEF Working, Point, ReplayPoint
    <3>5. RowsAgree(k)'
      BY <2>2, <2>5 DEF RowsAgree
    <3>6. Reported'
      BY <1>7, <2>2, <3>1 DEF Reported, CrashInv, Rolled, Activated
    <3>7. \A v \in Txs \ {w} : Waiting(k, v) => Waiting(k, v)'
      <4> SUFFICES ASSUME NEW v \in Txs \ {w}, Waiting(k, v)
                   PROVE  Waiting(k, v)'
        OBVIOUS
      <4>1. ~Working(v)' /\ ~Working(v)
        BY <1>2, <1>7, <3>1 DEF Working
      <4>2. target # None
        BY <1>3, <1>4, <1>6 DEF Rolled
      <4>3. CASE v \in op.left /\ Rolled(v)
        BY <1>7, <2>2, <3>1, <4>1, <4>3 DEF Waiting, Rolled, Activated
      <4>4. CASE UninstallOpen(k, v)
        BY <1>7, <2>2, <3>1, <3>3, <4>1, <4>2, <4>4
           DEF Waiting, UninstallOpen, Quarantined, Untouched
      <4> QED
        BY <4>3, <4>4 DEF Waiting
    <3>8. \/ \A v \in Txs \ {w} : Settled(v)
          \/ Settled(w)' /\ \A v \in Txs \ {w} : Settled(v) \/ Waiting(k, v)'
      BY <1>1, <1>2, <2>3, <3>7, Others
    <3>9. op'.tx = w
      BY <1>7, <3>1
    <3> QED
      BY <1>1, <1>2, <2>2, <3>4, <3>5, <3>6, <3>8, <3>9, StepFrame
  <2> QED
    BY <2>4, <2>5
<1> QED
  BY <1>1, <1>4, <1>8, <1>9
     DEF EngineStep, Persist, Forget, Stage, SetAside, Swap, Verify, Recheck, Drop,
         Restore, Uncatalog, ReportCommit, Step

LEMMA FindStepCrash ==
    ASSUME NEW k \in Skills, Skills = {k}, EngineInv, CrashInv(k), Crashes,
           op.mode = "find", EngineStep
    PROVE  CrashInv(k)'
<1>1. op.todo # <<>>
  BY DEF EngineStep, Persist, Forget, Stage, SetAside, Swap, Verify, Recheck, Drop,
         Restore, RecordDeployment, Acknowledge, Uncatalog, ReportCommit, Step
<1>2. PICK w \in Txs : w = op.tx
  BY <1>1, AtHand
<1>3. /\ op.todo = <<"forget">> \/ op.todo = <<"commit">>
      /\ FindPoint(k, w)
  <2>1. PlansOf("find") = FindPlans
    BY DEF PlansOf
  <2>2. op.todo \in FindPlans
    BY <1>1, <2>1, AtHand
  <2>3. op.todo = <<"forget">> \/ op.todo = <<"commit">>
    BY <1>1, <2>2 DEF FindPlans
  <2> QED
    BY <1>1, <1>2, <2>3, AtPoint DEF Point
<1>4. journal \in [Txs -> Journals]
  BY DEF EngineInv, DeployTypeOK
<1>5. Tail(op.todo) = <<>>
  BY <1>3, FindTails
<1>6. CASE Forget
  <2>1. /\ Head(op.todo) = "forget" /\ Proceed
        /\ journal' = [journal EXCEPT ![w] = NoJournal]
        /\ target' = target /\ stage' = stage /\ aside' = aside /\ hit' = hit
        /\ current' = current /\ catalog' = catalog
    BY <1>2, <1>6 DEF Forget, Step, tx, rows, disk, faultVars
  <2>2. Untouched(k, w) /\ stage[w] = None
    BY <1>1, <1>3, <2>1 DEF FindPoint, Step
  <2>3. /\ op'.todo = <<>> /\ op'.mode = op.mode /\ op'.tx = w
        /\ op'.left = op.left /\ op'.found = op.found
    BY <1>1, <1>2, <1>5, <2>1, ProceedOp DEF Commands
  <2>4. ~Working(w)' /\ Settled(w)' /\ Honest(k)'
    BY <1>4, <2>1, <2>2, <2>3 DEF Working, Settled, Fresh, Untouched, Honest
  <2> QED
    BY <1>1, <1>2, <1>4, <2>1, <2>3, <2>4, QuietFrame
<1>7. CASE ReportCommit
  <2>1. /\ Head(op.todo) = "commit"
        /\ op' = [After(Tail(op.todo)) EXCEPT !.found = @ \cup {w}]
        /\ target' = target /\ stage' = stage /\ aside' = aside /\ journal' = journal
        /\ current' = current /\ catalog' = catalog /\ hit' = hit
    BY <1>2, <1>7 DEF ReportCommit, Step, tx, rows, disk, faultVars
  <2>2. Quarantined(k, w)
    BY <1>1, <1>3, <2>1 DEF FindPoint, Step
  <2>3. /\ op'.todo = <<>> /\ op'.mode = "find" /\ op'.tx = w
        /\ op'.left = op.left /\ op'.found = op.found \cup {w}
    BY <1>2, <1>5, <2>1 DEF After, Commands, EngineInv, OpInv
  <2>4. Quarantined(k, w)'
    BY <2>1, <2>2 DEF Quarantined, Kept
  <2>5. ~Working(w)' /\ Waiting(k, w)'
    BY <2>3, <2>4 DEF Working, Waiting
  <2>6. Settled(w) => Settled(w)'
    BY <2>1, StaysSettled
  <2> QED
    BY <1>1, <1>2, <2>1, <2>3, <2>5, <2>6, QuietFrame
<1> QED
  BY <1>1, <1>3, <1>6, <1>7
     DEF EngineStep, Persist, Stage, SetAside, Swap, Verify, Recheck, Drop,
         Restore, RecordDeployment, Acknowledge, Uncatalog, Step

LEMMA SettleStepCrash ==
    ASSUME NEW k \in Skills, Skills = {k}, EngineInv, CrashInv(k), Crashes,
           op.mode = "settle", EngineStep
    PROVE  CrashInv(k)'
<1>1. op.todo # <<>>
  BY DEF EngineStep, Persist, Forget, Stage, SetAside, Swap, Verify, Recheck, Drop,
         Restore, RecordDeployment, Acknowledge, Uncatalog, ReportCommit, Step
<1>2. PICK w \in Txs : w = op.tx
  BY <1>1, AtHand
<1>3. /\ \/ op.todo = <<"restore", "forget">> \/ op.todo = <<"drop_aside", "forget">>
         \/ op.todo = <<"forget">>
      /\ SettlePoint(k, w)
  <2>1. PlansOf("settle") = SettlePlans
    BY DEF PlansOf
  <2>2. op.todo \in SettlePlans
    BY <1>1, <2>1, AtHand
  <2>3. \/ op.todo = <<"restore", "forget">> \/ op.todo = <<"drop_aside", "forget">>
        \/ op.todo = <<"forget">>
    BY <1>1, <2>2 DEF SettlePlans
  <2> QED
    BY <1>1, <1>2, <2>3, AtPoint DEF Point
<1>4. /\ journal \in [Txs -> Journals] /\ aside \in [Txs -> Contents]
  BY DEF EngineInv, DeployTypeOK
<1>5. Proceed => /\ op'.todo = Tail(op.todo) /\ op'.mode = "settle" /\ op'.tx = w
                 /\ op'.left = op.left /\ op'.found = op.found
  BY <1>1, <1>2, ProceedOp DEF Commands
<1>6. stage[w] = None /\ \A v \in Txs \ {w} : Settled(v)
  BY <1>1, <1>2, <1>3, Others DEF SettlePoint
<1>7. CASE Restore \/ Drop
  <2>1. /\ Proceed /\ aside' = [aside EXCEPT ![w] = None]
        /\ stage' = stage /\ journal' = journal /\ hit' = hit
        /\ current' = current /\ catalog' = catalog
        /\ Head(op.todo) = "restore" => target' = aside[w]
        /\ Head(op.todo) = "drop_aside" => target' = target
        /\ Head(op.todo) \in {"restore", "drop_aside"}
    BY <1>2, <1>3, <1>7 DEF Restore, Drop, Step, tx, rows, faultVars
  <2>2. op'.todo = <<"forget">>
    <3>1. /\ Tail(<<"restore", "forget">>) = <<"forget">>
          /\ Tail(<<"drop_aside", "forget">>) = <<"forget">>
      OBVIOUS
    <3>2. op.todo # <<"forget">>
      BY <2>1
    <3> QED
      BY <1>3, <1>5, <2>1, <3>1, <3>2
  <2>3. Untouched(k, w)'
    <3>1. aside'[w] = None
      BY <1>4, <2>1
    <3>2. Honest(k)'
      BY <1>1, <1>3, <2>1 DEF SettlePoint, Step, Kept, Honest
    <3> QED
      BY <3>1, <3>2 DEF Untouched
  <2>4. Working(w)' /\ Point(k, w)'
    BY <1>5, <1>6, <2>1, <2>2, <2>3 DEF Working, Point, SettlePoint, Step
  <2>5. RowsAgree(k)' /\ Reported'
    BY <1>5, <2>1, RowsStay DEF Reported
  <2> QED
    BY <1>1, <1>2, <1>4, <1>5, <1>6, <2>1, <2>4, <2>5, StepFrame
<1>8. CASE Forget
  <2>1. /\ Head(op.todo) = "forget" /\ Proceed
        /\ journal' = [journal EXCEPT ![w] = NoJournal]
        /\ target' = target /\ stage' = stage /\ aside' = aside /\ hit' = hit
        /\ current' = current /\ catalog' = catalog
    BY <1>2, <1>8 DEF Forget, Step, tx, rows, disk, faultVars
  <2>2. Untouched(k, w)
    BY <1>1, <1>3, <2>1 DEF SettlePoint, Step
  <2>3. op'.todo = <<>>
    <3>1. op.todo = <<"forget">>
      BY <1>3, <2>1
    <3> QED
      BY <1>5, <2>1, <3>1
  <2>4. ~Working(w)' /\ Settled(w)' /\ Honest(k)'
    BY <1>4, <1>6, <2>1, <2>2, <2>3 DEF Working, Settled, Fresh, Untouched, Honest
  <2> QED
    BY <1>1, <1>2, <1>4, <1>5, <2>1, <2>4, QuietFrame
<1> QED
  BY <1>1, <1>3, <1>7, <1>8
     DEF EngineStep, Persist, Stage, SetAside, Swap, Verify, Recheck,
         RecordDeployment, Acknowledge, Uncatalog, ReportCommit, Step

-----------------------------------------------------------------------------

LEMMA InitCrash ==
    ASSUME NEW k \in Skills, Init
    PROVE  CrashInv(k)
<1>1. current[k] # None /\ catalog[k] = None
  BY DeploymentAssumption DEF Init
<1>2. \A t \in Txs : Settled(t) /\ ~Working(t)
  BY DEF Init, Settled, Fresh, Working, Idle, Doing
<1>3. Reported
  BY DEF Init, Reported, Idle, Doing
<1> QED
  BY <1>1, <1>2, <1>3 DEF CrashInv, RowsAgree, Honest

(* Outside the regime only the rows matter.                                *)
LEMMA RowsAgreeNext ==
    ASSUME NEW k \in Skills, Skills = {k}, EngineInv, RowsAgree(k), Next
    PROVE  RowsAgree(k)'
<1>1. /\ current \in [Skills -> Hashes \cup {None}]
      /\ catalog \in [Skills -> Hashes \cup {None}]
  BY DEF EngineInv, DeployTypeOK
<1>2. CASE rows' = rows
  BY <1>2 DEF RowsAgree, rows
<1>3. ASSUME NEW x \in Skills, UninstallMissing(x) \/ NewSnapshot(x) \/ Tombstone(x)
      PROVE  RowsAgree(k)'
  BY <1>1, <1>3, DeploymentAssumption
     DEF UninstallMissing, NewSnapshot, Tombstone, RowsAgree
<1>4. CASE EngineStep
  <2>1. CASE RecordDeployment
    <3>1. op.tx \in Txs /\ journal[op.tx].skill = k
      BY <2>1, AtHand DEF RecordDeployment, Step
    <3> QED
      BY <1>1, <2>1, <3>1 DEF RecordDeployment, Record, tx, RowsAgree
  <2>2. CASE Uncatalog
    BY <1>1, <2>2 DEF Uncatalog, RowsAgree
  <2>3. rows' = rows \/ RecordDeployment \/ Uncatalog
    BY <1>4 DEF EngineStep, Persist, Forget, Stage, SetAside, Swap, Verify, Recheck,
         Drop, Restore, Acknowledge, ReportCommit
  <2> QED
    BY <1>2, <2>1, <2>2, <2>3
<1>5. CASE Recovery
  BY <1>2, <1>5 DEF Recovery, Startup, NextPass, RecoverOne, ReplayCommit,
       FindUninstall, SettleUninstall, Visit
<1>6. CASE Crash \/ StepFails \/ Tamper
  BY <1>2, <1>6 DEF Crash, StepFails, Tamper
<1>7. ASSUME NEW x \in Skills, NEW t \in Txs, DeployBegin(x, t) \/ UninstallBegin(x, t)
      PROVE  RowsAgree(k)'
  BY <1>2, <1>7 DEF DeployBegin, UninstallBegin
<1> QED
  BY <1>3, <1>4, <1>5, <1>6, <1>7 DEF Next

LEMMA NextCrash ==
    ASSUME NEW k \in Skills, Skills = {k}, EngineInv, EngineInv', CrashInv(k),
           [Next]_deployVars
    PROVE  CrashInv(k)'
<1>1. CASE UNCHANGED deployVars
  <2>1. /\ current' = current /\ catalog' = catalog /\ target' = target
        /\ stage' = stage /\ aside' = aside /\ journal' = journal /\ op' = op
        /\ hit' = hit /\ disk' = disk
    BY <1>1 DEF deployVars, rows, disk, faultVars
  <2>2. \A t \in Txs : /\ Settled(t)' <=> Settled(t)
                       /\ Working(t)' <=> Working(t)
                       /\ Rolled(t)' <=> Rolled(t)
                       /\ Point(k, t) => Point(k, t)'
                       /\ Waiting(k, t) => Waiting(k, t)'
    BY <2>1, RowsPoint DEF Settled, Fresh, Activated, Working, Rolled
  <2>3. Reported => Reported'
    BY <2>1 DEF Reported, Rolled, Activated
  <2>4. Honest(k) => Honest(k)'
    BY <2>1 DEF Honest
  <2>5. RowsAgree(k)'
    BY <2>1, RowsStay
  <2> QED
    BY <2>1, <2>2, <2>3, <2>4, <2>5 DEF CrashInv, Crashes
<1>2. CASE Next
  <2>1. CASE ~Crashes'
    BY <1>2, <2>1, RowsAgreeNext DEF CrashInv
  <2>2. CASE Crashes'
    <3>1. hit \subseteq hit'
      BY <1>2 DEF Next, Fault, DeployBegin, UninstallBegin, UninstallMissing,
           NewSnapshot, Tombstone, EngineStep, Persist, Forget, Stage, SetAside, Swap,
           Verify, Recheck, Drop, Restore, RecordDeployment, Acknowledge, Uncatalog,
           ReportCommit, Recovery, Startup, NextPass, RecoverOne, ReplayCommit,
           FindUninstall, SettleUninstall, Crash, StepFails, Tamper, faultVars
    <3>2. Crashes
      BY <2>2, <3>1 DEF Crashes
    <3>3. ~StepFails /\ ~Tamper
      <4>1. ~Fault("io") /\ ~Fault("tamper")
        BY <2>2 DEF Fault, Crashes
      <4> QED
        BY <4>1 DEF StepFails, Tamper
    <3>4. CASE EngineStep
      <4>1. op.todo # <<>>
        BY <3>4 DEF EngineStep, Persist, Forget, Stage, SetAside, Swap, Verify,
             Recheck, Drop, Restore, RecordDeployment, Acknowledge, Uncatalog,
             ReportCommit, Step
      <4>2. op.mode \in Modes \ {"idle", "down"}
        BY <4>1 DEF EngineInv, OpInv, Idle, Down, Doing
      <4> QED
        BY <3>2, <3>4, <4>2, DeployStepCrash, UninstallStepCrash, RecoverStepCrash,
           ReplayStepCrash, FindStepCrash, SettleStepCrash DEF Modes
    <3>5. CASE Recovery
      BY <2>2, <3>2, <3>5, PassCrash, RecoverVisitCrash, ReplayVisitCrash,
         FindVisitCrash, SettleVisitCrash DEF Recovery
    <3>6. CASE Crash
      BY <2>2, <3>6, CrashCrash
    <3>7. ASSUME NEW x \in Skills, NEW t \in Txs, DeployBegin(x, t) \/ UninstallBegin(x, t)
          PROVE  CrashInv(k)'
      BY <3>2, <3>7, BeginCrash
    <3>8. ASSUME NEW x \in Skills, UninstallMissing(x) \/ NewSnapshot(x) \/ Tombstone(x)
          PROVE  CrashInv(k)'
      BY <2>2, <3>8, RowsCrash
    <3> QED
      BY <1>2, <3>3, <3>4, <3>5, <3>6, <3>7, <3>8 DEF Next
  <2> QED
    BY <2>1, <2>2
<1> QED
  BY <1>1, <1>2

(* With one skill in the directory: at every point a crash leaves what the *)
(* recovery knows how to finish or to undo, and at most one transaction is *)
(* open.                                                                   *)
THEOREM CrashInvariant ==
    ASSUME NEW k, Skills = {k}
    PROVE  Spec => [](EngineInv /\ CrashInv(k))
<1>1. k \in Skills
  OBVIOUS
<1>2. Init => EngineInv /\ CrashInv(k)
  BY <1>1, InitEngine, InitCrash
<1>3. EngineInv /\ CrashInv(k) /\ [Next]_deployVars => (EngineInv /\ CrashInv(k))'
  BY <1>1, NextEngine, NextCrash
<1> QED
  BY <1>2, <1>3, PTL DEF Spec

(* With one skill in the directory: when nothing but crashes has happened  *)
(* and the process is idle, no journal, staging, backup or quarantine is   *)
(* left, and the directory holds what the catalog says.                    *)
THEOREM RecoveryCleans ==
    ASSUME NEW k, Skills = {k}
    PROVE  Spec => []RecoveredClean
<1>1. EngineInv /\ CrashInv(k) => RecoveredClean
  <2> SUFFICES ASSUME EngineInv, CrashInv(k), hit \subseteq {"crash"}, op = Idle
               PROVE  /\ \A t \in Txs : Fresh(t)
                      /\ \A x \in Skills : catalog[x] # None => target = catalog[x]
    BY DEF RecoveredClean
  <2>1. Crashes /\ "tombstone" \notin hit
    BY DEF Crashes
  <2>2. Honest(k) /\ \A t \in Txs : Settled(t)
    BY <2>1, IdleSettled
  <2> QED
    BY <2>1, <2>2 DEF Settled, Honest
<1> QED
  BY <1>1, CrashInvariant, PTL

(* With one skill in the directory: whatever journals crashes and deleted  *)
(* skills leave behind, the directory holds what the catalog says, or a    *)
(* transaction of the skill is open.                                       *)
THEOREM CatalogStaysHonest ==
    ASSUME NEW k, Skills = {k}
    PROVE  Spec => []CatalogHonest
<1>1. EngineInv /\ CrashInv(k) => CatalogHonest
  <2> SUFFICES ASSUME EngineInv, CrashInv(k), Crashes
               PROVE  DeployTransactional
    BY DEF CatalogHonest, Crashes
  <2>1. CASE Honest(k)
    BY <2>1 DEF DeployTransactional, Honest
  <2>2. ASSUME NEW t \in Txs, Working(t) \/ Waiting(k, t)
        PROVE  journal[t].skill = k
    <3>1. CASE Working(t)
      BY <3>1, AtHand DEF Working
    <3>2. CASE Waiting(k, t)
      BY <3>2, WaitingKind, AboutAlone
    <3> QED
      BY <2>2, <3>1, <3>2
  <2> QED
    BY <2>1, <2>2 DEF CrashInv, DeployTransactional
<1> QED
  BY <1>1, CrashInvariant, PTL

=============================================================================
