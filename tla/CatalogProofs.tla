--------------------------- MODULE CatalogProofs ----------------------------
(***************************************************************************)
(* Leases, profiles and the deployment catalog, for any skills, profiles,  *)
(* roots and home directories.                                             *)
(*                                                                         *)
(* CatalogInv strengthens the properties: a deployment in progress holds   *)
(* the root of a real profile, no two profiles share a root, and a skill   *)
(* that expiry has revoked is still labelled so and is not being deployed. *)
(***************************************************************************)
EXTENDS Catalog, TLAPS

(* A command names a skill and targets; past its checks, a target has a    *)
(* root.                                                                   *)
CmdShape ==
    \/ Idle
    \/ /\ cmd \in [s : Skills, p : Profiles \cup {None}, root : Dirs \cup {None},
                   left : SUBSET Profiles]
       /\ cmd.p # None => cmd.root # None

(* An enabled profile has a root, and a root has one profile.              *)
RootsDistinct ==
    /\ \A p \in Profiles : profile[p].enabled => profile[p].root # None
    /\ \A p, q \in Profiles :
          p # q /\ profile[p].root # None => profile[p].root # profile[q].root

(* Every catalog row has a root, and it is the profile's.                  *)
RowsHaveRoot ==
    \A s \in Skills, p \in Profiles :
        dep[s][p].st # "none" =>
            dep[s][p].root # None /\ dep[s][p].root = profile[p].root

(* What expiry revoked is still revoked; unless the two crossed, it is not *)
(* about to be recorded.                                                   *)
SweptIsRevoked ==
    \A s \in Skills :
        /\ s \in swept => row[s].st = "access_revoked"
        /\ s \in swept \ crossed => cmd.s # s \/ cmd.p = None

CatalogInv ==
    /\ CatalogTypeOK
    /\ CmdShape
    /\ RootsDistinct
    /\ RowsHaveRoot
    /\ swept \subseteq Skills
    /\ SweptIsRevoked
    /\ RevokedStaysUndeployed

-----------------------------------------------------------------------------
LEMMA InitCatalog == Init => CatalogInv
<1> SUFFICES ASSUME Init PROVE CatalogInv
  OBVIOUS
<1>1. CatalogTypeOK
  <2>1. now \in 0 .. MaxTime /\ home \in Homes
    BY CatalogAssumption DEF Init
  <2>2. row \in [Skills -> [st : States, remote : BOOLEAN]]
    BY DEF Init, Absent, States
  <2>3. profile \in [Profiles -> [root : Dirs \cup {None}, enabled : BOOLEAN]]
    BY DEF Init, NoProfile
  <2>4. dep \in [Skills -> [Profiles -> [st : {"none", "installed", "revoked"},
                                        root : Dirs \cup {None}]]]
    BY DEF Init, NoDep
  <2>5. \A s \in Skills :
          lease[s] = None /\ \A p \in Profiles : dep[s][p] = NoDep
    BY DEF Init
  <2> QED
    BY <2>1, <2>2, <2>3, <2>4, <2>5, Zenon DEF Init, CatalogTypeOK
<1> QED
  BY <1>1 DEF Init, CatalogInv, CmdShape, Idle, RootsDistinct, RowsHaveRoot,
     SweptIsRevoked, RevokedStaysUndeployed, NoProfile, NoDep, NoCmd

(* Writing one skill's state, its lease and its queue keeps the invariant. *)
LEMMA RowStep ==
    ASSUME CatalogInv, NEW s \in Skills,
           NEW r \in [st : States, remote : BOOLEAN],
           SetState(s, r),
           r.st = "absent" =>
              lease'[s] = None /\ \A p \in Profiles : dep[s][p] = NoDep,
           \A z \in Skills \ {s} : lease'[z] = lease[z],
           lease' \in [Skills -> (0 .. MaxTime) \cup {None}],
           work' \in [Skills -> {"none", "pending", "permission_denied",
                                 "permanent_error", "conflict"}],
           UNCHANGED <<now, home, profile, dep, cmd, cycle>>
    PROVE  CatalogInv'
<1>1. /\ row' \in [Skills -> [st : States, remote : BOOLEAN]]
      /\ row'[s] = r
      /\ \A z \in Skills \ {s} : row'[z] = row[z]
  BY DEF SetState, CatalogInv, CatalogTypeOK
<1>2. CatalogTypeOK'
  <2>1. \A z \in Skills : row'[z].st = "absent" =>
          lease'[z] = None /\ \A p \in Profiles : dep'[z][p] = NoDep
    BY <1>1 DEF CatalogInv, CatalogTypeOK
  <2> QED
    BY <1>1, <2>1 DEF CatalogInv, CatalogTypeOK
<1>3. CmdShape' /\ RootsDistinct' /\ RowsHaveRoot'
  BY DEF CatalogInv, CmdShape, Idle, RootsDistinct, RowsHaveRoot
<1>4. /\ swept' \subseteq swept
      /\ swept' \ crossed' \subseteq swept \ crossed
      /\ s \in swept' => r.st = "access_revoked"
  BY DEF SetState
<1>5. swept' \subseteq Skills /\ SweptIsRevoked' /\ RevokedStaysUndeployed'
  BY <1>1, <1>4 DEF CatalogInv, SweptIsRevoked, RevokedStaysUndeployed, Live
<1> QED
  BY <1>2, <1>3, <1>5 DEF CatalogInv

(* A row with another state is a row.                                      *)
LEMMA Relabelled ==
    ASSUME CatalogInv, NEW s \in Skills, NEW x \in States
    PROVE  /\ [row[s] EXCEPT !.st = x] \in [st : States, remote : BOOLEAN]
           /\ [row[s] EXCEPT !.st = x].st = x
<1>1. row[s] \in [st : States, remote : BOOLEAN]
  BY DEF CatalogInv, CatalogTypeOK
<1> QED
  BY <1>1

(* What the state of a row can be after a change with or without a lease.  *)
LEMMA PulledState ==
    ASSUME CatalogInv, NEW s \in Skills, NEW newer \in BOOLEAN,
           NEW same \in BOOLEAN, NEW l,
           newer \/ row[s].st # "absent"
    PROVE  Leased(Upserted(row[s], newer, same), l) \in States \ {"absent"}
<1>1. row[s].st \in States
  BY DEF CatalogInv, CatalogTypeOK
<1>2. Upserted(row[s], newer, same) \in States \ {"absent"}
  BY <1>1 DEF Upserted, States
<1> QED
  BY <1>2 DEF Leased, States

LEMMA PullStep ==
    ASSUME CatalogInv, NEW s \in Skills, Pull(s)
    PROVE  CatalogInv'
<1>1. ASSUME NEW newer \in BOOLEAN, NEW same \in BOOLEAN,
             NEW l \in (0 .. MaxTime) \cup {None},
             PullUpsert(s, newer, same, l)
      PROVE  CatalogInv'
  <2> DEFINE r == [st |-> Leased(Upserted(row[s], newer, same), l),
                   remote |-> TRUE]
  <2>1. r \in [st : States, remote : BOOLEAN] /\ r.st # "absent"
    BY <1>1, PulledState DEF PullUpsert
  <2>2. /\ lease' \in [Skills -> (0 .. MaxTime) \cup {None}]
        /\ \A z \in Skills \ {s} : lease'[z] = lease[z]
    BY <1>1 DEF PullUpsert, CatalogInv, CatalogTypeOK
  <2>3. /\ SetState(s, r)
        /\ work' = work
        /\ UNCHANGED <<now, home, profile, dep, cmd, cycle>>
    BY <1>1 DEF PullUpsert
  <2>4. work' \in [Skills -> {"none", "pending", "permission_denied",
                              "permanent_error", "conflict"}]
    BY <2>3 DEF CatalogInv, CatalogTypeOK
  <2> HIDE DEF r
  <2> QED
    BY <2>1, <2>2, <2>3, <2>4, RowStep
<1>2. CASE PullTombstone(s) /\ work[s] # "none"
  <2> DEFINE r == [row[s] EXCEPT !.st = "conflict"]
  <2>1. r \in [st : States, remote : BOOLEAN] /\ r.st # "absent"
    BY Relabelled DEF States
  <2>2. /\ SetState(s, r)
        /\ UNCHANGED <<now, home, lease, work, profile, dep, cmd, cycle>>
    BY <1>2 DEF PullTombstone
  <2>3. /\ lease' \in [Skills -> (0 .. MaxTime) \cup {None}]
        /\ work' \in [Skills -> {"none", "pending", "permission_denied",
                                 "permanent_error", "conflict"}]
    BY <2>2 DEF CatalogInv, CatalogTypeOK
  <2> HIDE DEF r
  <2> QED
    BY <2>1, <2>2, <2>3, RowStep
<1>3. CASE PullTombstone(s) /\ work[s] = "none"
  <2>1. /\ row' = [row EXCEPT ![s] = Absent]
        /\ swept' = swept \ {s}
        /\ crossed' = crossed \ {s}
        /\ lease' = [lease EXCEPT ![s] = None]
        /\ dep' = [dep EXCEPT ![s] = [p \in Profiles |-> NoDep]]
        /\ UNCHANGED <<now, home, work, profile, cmd, cycle>>
    BY <1>3 DEF PullTombstone, SetState, Absent
  <2>2. /\ dep' \in [Skills -> [Profiles -> [st : {"none", "installed", "revoked"},
                                             root : Dirs \cup {None}]]]
        /\ \A p \in Profiles : dep'[s][p] = NoDep
        /\ \A z \in Skills \ {s} : dep'[z] = dep[z]
    BY <2>1 DEF CatalogInv, CatalogTypeOK, NoDep
  <2>3. /\ row' \in [Skills -> [st : States, remote : BOOLEAN]]
        /\ \A z \in Skills \ {s} : row'[z] = row[z] /\ lease'[z] = lease[z]
        /\ lease' \in [Skills -> (0 .. MaxTime) \cup {None}]
        /\ lease'[s] = None
    BY <2>1 DEF CatalogInv, CatalogTypeOK, Absent, States
  <2>4. CatalogTypeOK'
    BY <2>1, <2>2, <2>3 DEF CatalogInv, CatalogTypeOK
  <2>5. CmdShape' /\ RootsDistinct' /\ RowsHaveRoot'
    BY <2>1, <2>2 DEF CatalogInv, CmdShape, Idle, RootsDistinct, RowsHaveRoot,
       NoDep
  <2>6. swept' \subseteq Skills /\ SweptIsRevoked' /\ RevokedStaysUndeployed'
    BY <2>1, <2>2, <2>3
       DEF CatalogInv, SweptIsRevoked, RevokedStaysUndeployed
  <2> QED
    BY <2>4, <2>5, <2>6 DEF CatalogInv
<1> QED
  BY <1>1, <1>2, <1>3 DEF Pull, PullTombstone

(* expire_due_entitlements, at the end of a cycle and at startup.          *)
LEMMA ExpireStep ==
    ASSUME CatalogInv, ExpireDue
    PROVE  /\ row' \in [Skills -> [st : States, remote : BOOLEAN]]
           /\ dep' \in [Skills -> [Profiles -> [st : {"none", "installed", "revoked"},
                                                root : Dirs \cup {None}]]]
           /\ \A s \in Skills : row'[s].st = "absent" =>
                 row[s].st = "absent" /\ \A p \in Profiles : dep'[s][p] = dep[s][p]
           /\ \A s \in Skills, p \in Profiles :
                 /\ dep'[s][p].root = dep[s][p].root
                 /\ dep'[s][p].st = "none" <=> dep[s][p].st = "none"
           /\ swept' \subseteq Skills
           /\ \A s \in swept' : row'[s].st = "access_revoked"
           /\ \A s \in swept' \ crossed' : cmd.s # s \/ cmd.p = None
           /\ RevokedStaysUndeployed'
<1>1. /\ row \in [Skills -> [st : States, remote : BOOLEAN]]
      /\ dep \in [Skills -> [Profiles -> [st : {"none", "installed", "revoked"},
                                          root : Dirs \cup {None}]]]
  BY DEF CatalogInv, CatalogTypeOK
<1>2. \A s \in Skills :
        /\ s \in Due => row'[s] = [row[s] EXCEPT !.st = "access_revoked"]
        /\ s \notin Due => row'[s] = row[s]
  BY DEF ExpireDue
<1>3. \A s \in Skills, p \in Profiles :
        /\ s \in Due /\ dep[s][p].st = "installed" =>
             dep'[s][p] = [dep[s][p] EXCEPT !.st = "revoked"]
        /\ ~(s \in Due /\ dep[s][p].st = "installed") => dep'[s][p] = dep[s][p]
  BY DEF ExpireDue, Live
<1>4. \A s \in Skills :
        /\ row'[s] \in [st : States, remote : BOOLEAN]
        /\ s \in Due => row'[s].st = "access_revoked"
  <2> SUFFICES ASSUME NEW s \in Skills
               PROVE  /\ row'[s] \in [st : States, remote : BOOLEAN]
                      /\ s \in Due => row'[s].st = "access_revoked"
    OBVIOUS
  <2>1. "access_revoked" \in States /\ row[s] \in [st : States, remote : BOOLEAN]
    BY <1>1 DEF States
  <2> QED
    BY <1>2, <2>1
<1>5. \A s \in Skills, p \in Profiles :
        /\ dep'[s][p] \in [st : {"none", "installed", "revoked"},
                           root : Dirs \cup {None}]
        /\ dep'[s][p].root = dep[s][p].root
        /\ dep'[s][p].st = "none" <=> dep[s][p].st = "none"
        /\ s \in Due => dep'[s][p].st # "installed"
  <2> SUFFICES ASSUME NEW s \in Skills, NEW p \in Profiles
               PROVE  /\ dep'[s][p] \in [st : {"none", "installed", "revoked"},
                                         root : Dirs \cup {None}]
                      /\ dep'[s][p].root = dep[s][p].root
                      /\ dep'[s][p].st = "none" <=> dep[s][p].st = "none"
                      /\ s \in Due => dep'[s][p].st # "installed"
    OBVIOUS
  <2>1. dep[s][p] \in [st : {"none", "installed", "revoked"},
                       root : Dirs \cup {None}]
    BY <1>1
  <2>2. CASE s \in Due /\ dep[s][p].st = "installed"
    <3>1. dep'[s][p] = [dep[s][p] EXCEPT !.st = "revoked"]
      BY <2>2, <1>3
    <3> QED
      BY <2>1, <2>2, <3>1
  <2>3. CASE ~(s \in Due /\ dep[s][p].st = "installed")
    <3>1. dep'[s][p] = dep[s][p]
      BY <2>3, <1>3
    <3> QED
      BY <2>1, <2>3, <3>1
  <2> QED
    BY <2>2, <2>3
<1>6. row' \in [Skills -> [st : States, remote : BOOLEAN]]
  BY <1>4 DEF ExpireDue
<1>7. dep' \in [Skills -> [Profiles -> [st : {"none", "installed", "revoked"},
                                       root : Dirs \cup {None}]]]
  BY <1>5 DEF ExpireDue
<1>8. /\ Due \subseteq Skills /\ swept' = swept \cup Due
      /\ crossed \subseteq crossed'
      /\ cmd.p # None => Due \cap {cmd.s} \subseteq crossed'
  BY DEF ExpireDue, Due
<1>9. \A s \in swept' : row'[s].st = "access_revoked"
  BY <1>2, <1>4, <1>8 DEF CatalogInv, SweptIsRevoked
<1>10. \A s \in swept' \ crossed' : cmd.s # s \/ cmd.p = None
  BY <1>8 DEF CatalogInv, SweptIsRevoked
<1>11. RevokedStaysUndeployed'
  <2> SUFFICES ASSUME NEW s \in swept' \ crossed', NEW p \in Profiles
               PROVE  dep'[s][p].st # "installed"
    BY DEF RevokedStaysUndeployed, Live
  <2>1. CASE s \in Due
    BY <2>1, <1>5, <1>8
  <2>2. CASE s \notin Due
    <3>1. s \in Skills /\ s \in swept \ crossed
      BY <2>2, <1>8 DEF CatalogInv
    <3>2. dep[s][p].st # "installed" /\ dep'[s][p] = dep[s][p]
      BY <3>1, <2>2, <1>3 DEF CatalogInv, RevokedStaysUndeployed, Live
    <3> QED
      BY <3>2
  <2> QED
    BY <2>1, <2>2
<1>12. \A s \in Skills : row'[s].st = "absent" =>
         row[s].st = "absent" /\ \A p \in Profiles : dep'[s][p] = dep[s][p]
  BY <1>2, <1>3, <1>4
<1> QED
  BY <1>5, <1>6, <1>7, <1>8, <1>9, <1>10, <1>11, <1>12 DEF CatalogInv

LEMMA EndCycleStep == CatalogInv /\ EndCycle => CatalogInv'
<1> SUFFICES ASSUME CatalogInv, EndCycle PROVE CatalogInv'
  OBVIOUS
<1>1. ExpireDue /\ UNCHANGED <<now, home, work, lease, profile, cmd>>
  BY DEF EndCycle
<1>2. cycle' \in BOOLEAN
  BY DEF EndCycle
<1>3. CatalogTypeOK'
  BY <1>1, <1>2, ExpireStep DEF CatalogInv, CatalogTypeOK
<1>4. CmdShape' /\ RootsDistinct'
  BY <1>1 DEF CatalogInv, CmdShape, Idle, RootsDistinct
<1>5. RowsHaveRoot'
  <2> SUFFICES ASSUME NEW s \in Skills, NEW p \in Profiles,
                      dep'[s][p].st # "none"
               PROVE  dep'[s][p].root # None /\ dep'[s][p].root = profile'[p].root
    BY DEF RowsHaveRoot
  <2>1. dep[s][p].st # "none" /\ dep'[s][p].root = dep[s][p].root
    BY <1>1, ExpireStep
  <2> QED
    BY <1>1, <2>1 DEF CatalogInv, RowsHaveRoot
<1>6. SweptIsRevoked' /\ swept' \subseteq Skills /\ RevokedStaysUndeployed'
  BY <1>1, ExpireStep DEF SweptIsRevoked
<1> QED
  BY <1>3, <1>4, <1>5, <1>6 DEF CatalogInv

LEMMA ProfileRecord ==
    ASSUME NEW d \in Dirs \cup {None}, NEW e \in BOOLEAN
    PROVE  /\ [root |-> d, enabled |-> e] \in [root : Dirs \cup {None}, enabled : BOOLEAN]
           /\ [root |-> d, enabled |-> e].root = d
           /\ [root |-> d, enabled |-> e].enabled = e
OBVIOUS

(* Discovery gives a profile a root that no other has, and moves none that *)
(* has deployments.                                                        *)
LEMMA DiscoveredProfiles ==
    ASSUME CatalogInv, NEW h \in Homes, NEW found \in Detections,
           profile' = Discovered(found, h)
    PROVE  /\ profile' \in [Profiles -> [root : Dirs \cup {None}, enabled : BOOLEAN]]
           /\ RootsDistinct'
           /\ \A s \in Skills, p \in Profiles :
                 dep[s][p].st # "none" => profile'[p].root = profile[p].root
<1>1. \A p \in found : p \in Profiles /\ RootAt[p][h] \in Dirs /\ RootAt[p][h] # None
  BY CatalogAssumption DEF Detections
<1> DEFINE on(p) == profile[p].root = None \/ profile[p].enabled
<1>2. \A p \in Profiles :
        \/ /\ p \in found /\ RootFree(p, RootAt[p][h])
           /\ profile'[p] = [root |-> RootAt[p][h], enabled |-> on(p)]
        \/ profile'[p] = profile[p]
  BY DEF Discovered
<1>on. \A p \in Profiles : on(p) \in BOOLEAN
  BY Zenon
<1> HIDE DEF on
<1>3. profile \in [Profiles -> [root : Dirs \cup {None}, enabled : BOOLEAN]]
  BY DEF CatalogInv, CatalogTypeOK
<1>4. \A p \in Profiles :
        profile'[p] \in [root : Dirs \cup {None}, enabled : BOOLEAN]
  <2> SUFFICES ASSUME NEW p \in Profiles
               PROVE  profile'[p] \in [root : Dirs \cup {None}, enabled : BOOLEAN]
    OBVIOUS
  <2>1. CASE /\ p \in found
             /\ profile'[p] = [root |-> RootAt[p][h], enabled |-> on(p)]
    <3>1. RootAt[p][h] \in Dirs \cup {None} /\ on(p) \in BOOLEAN
      BY <2>1, <1>1, <1>on
    <3> QED
      BY <2>1, <3>1, ProfileRecord
  <2>2. CASE profile'[p] = profile[p]
    BY <2>2, <1>3
  <2> QED
    BY <2>1, <2>2, <1>2
<1>5. profile' \in [Profiles -> [root : Dirs \cup {None}, enabled : BOOLEAN]]
  BY <1>4 DEF Discovered
<1>6. \A p \in Profiles :
        \/ p \in found /\ RootFree(p, RootAt[p][h]) /\ profile'[p].root = RootAt[p][h]
        \/ profile'[p] = profile[p]
  <2> SUFFICES ASSUME NEW p \in Profiles, p \in found,
                      profile'[p] = [root |-> RootAt[p][h], enabled |-> on(p)]
               PROVE  profile'[p].root = RootAt[p][h]
    BY <1>2
  <2> QED
    BY <1>1, <1>on, ProfileRecord
<1>7. \A p, q \in Profiles :
        p # q /\ profile'[p].root # None => profile'[p].root # profile'[q].root
  <2> SUFFICES ASSUME NEW p \in Profiles, NEW q \in Profiles, p # q,
                      profile'[p].root # None
               PROVE  profile'[p].root # profile'[q].root
    OBVIOUS
  <2>1. CASE profile'[p] = profile[p]
    BY <2>1, <1>6 DEF RootFree, CatalogInv, RootsDistinct
  <2>2. CASE p \in found /\ RootFree(p, RootAt[p][h]) /\ profile'[p].root = RootAt[p][h]
    <3>1. CASE profile'[q] = profile[q]
      BY <2>2, <3>1 DEF RootFree
    <3>2. CASE q \in found /\ profile'[q].root = RootAt[q][h]
      BY <2>2, <3>2, CatalogAssumption DEF Detections
    <3> QED
      BY <3>1, <3>2, <1>6
  <2> QED
    BY <2>1, <2>2, <1>6
<1>8. \A p \in Profiles : profile'[p].enabled => profile'[p].root # None
  BY <1>1, <1>6 DEF CatalogInv, RootsDistinct
<1>9. ASSUME NEW s \in Skills, NEW p \in Profiles, dep[s][p].st # "none"
      PROVE  profile'[p].root = profile[p].root
  BY <1>6, <1>9 DEF RootFree, CatalogInv, RowsHaveRoot
<1> QED
  BY <1>5, <1>7, <1>8, <1>9 DEF RootsDistinct

LEMMA DiscoverStep ==
    ASSUME CatalogInv, NEW found \in Detections, DiscoverAgents(found)
    PROVE  CatalogInv'
<1>1. /\ profile' = Discovered(found, home)
      /\ UNCHANGED <<now, home, row, work, lease, dep, cmd, cycle, swept, crossed>>
  BY DEF DiscoverAgents
<1>2. home \in Homes
  BY DEF CatalogInv, CatalogTypeOK
<1>3. CatalogTypeOK' /\ RootsDistinct'
  BY <1>1, <1>2, DiscoveredProfiles DEF CatalogInv, CatalogTypeOK
<1>4. RowsHaveRoot'
  BY <1>1, <1>2, DiscoveredProfiles DEF CatalogInv, RowsHaveRoot
<1>5. CmdShape' /\ SweptIsRevoked' /\ RevokedStaysUndeployed'
  BY <1>1 DEF CatalogInv, CmdShape, Idle, SweptIsRevoked, RevokedStaysUndeployed
<1> QED
  BY <1>1, <1>3, <1>4, <1>5 DEF CatalogInv

LEMMA RestartStep ==
    ASSUME CatalogInv, NEW h \in Homes, NEW found \in Detections,
           Restart(h, found)
    PROVE  CatalogInv'
<1>1. /\ ExpireDue
      /\ profile' = Discovered(found, h)
      /\ home' = h /\ cmd' = NoCmd /\ cycle' = FALSE
      /\ UNCHANGED <<now, work, lease>>
  BY DEF Restart
<1>2. cycle' \in BOOLEAN
  BY <1>1
<1>3. CatalogTypeOK'
  BY <1>1, <1>2, ExpireStep, DiscoveredProfiles DEF CatalogInv, CatalogTypeOK
<1>4. CmdShape' /\ RootsDistinct'
  BY <1>1, DiscoveredProfiles DEF CmdShape, Idle
<1>5. RowsHaveRoot'
  <2> SUFFICES ASSUME NEW s \in Skills, NEW p \in Profiles,
                      dep'[s][p].st # "none"
               PROVE  dep'[s][p].root # None /\ dep'[s][p].root = profile'[p].root
    BY DEF RowsHaveRoot
  <2>1. dep[s][p].st # "none" /\ dep'[s][p].root = dep[s][p].root
    BY <1>1, ExpireStep
  <2>2. profile'[p].root = profile[p].root
    BY <1>1, <2>1, DiscoveredProfiles
  <2> QED
    BY <2>1, <2>2 DEF CatalogInv, RowsHaveRoot
<1>6. \A s \in Skills : cmd'.s # s
  BY <1>1, CatalogAssumption DEF NoCmd
<1>7. SweptIsRevoked' /\ swept' \subseteq Skills /\ RevokedStaysUndeployed'
  BY <1>1, <1>6, ExpireStep DEF SweptIsRevoked
<1> QED
  BY <1>3, <1>4, <1>5, <1>7 DEF CatalogInv

LEMMA SaveStep ==
    ASSUME CatalogInv, NEW p \in Profiles, NEW r \in Dirs, NEW e \in BOOLEAN,
           SaveAgentProfile(p, r, e)
    PROVE  CatalogInv'
<1>1. /\ RootFree(p, r)
      /\ profile' = [profile EXCEPT ![p] = [root |-> r, enabled |-> e]]
      /\ UNCHANGED <<now, home, row, work, lease, dep, cmd, cycle, swept, crossed>>
  BY DEF SaveAgentProfile
<1>2. r # None
  BY CatalogAssumption
<1>3. /\ profile' \in [Profiles -> [root : Dirs \cup {None}, enabled : BOOLEAN]]
      /\ profile'[p].root = r
      /\ \A q \in Profiles \ {p} : profile'[q] = profile[q]
  BY <1>1, ProfileRecord DEF CatalogInv, CatalogTypeOK
<1>4. CatalogTypeOK'
  BY <1>1, <1>3 DEF CatalogInv, CatalogTypeOK
<1>5. RootsDistinct'
  BY <1>1, <1>2, <1>3 DEF CatalogInv, RootsDistinct, RootFree
<1>6. RowsHaveRoot'
  BY <1>1, <1>3 DEF CatalogInv, RowsHaveRoot, RootFree
<1>7. CmdShape' /\ SweptIsRevoked' /\ RevokedStaysUndeployed'
  BY <1>1 DEF CatalogInv, CmdShape, Idle, SweptIsRevoked, RevokedStaysUndeployed
<1> QED
  BY <1>1, <1>4, <1>5, <1>6, <1>7 DEF CatalogInv

LEMMA BeginDeployStep ==
    ASSUME CatalogInv, NEW s \in Skills, NEW targets \in SUBSET Profiles,
           BeginDeploy(s, targets)
    PROVE  CatalogInv'
<1>1. /\ cmd' = [s |-> s, p |-> None, root |-> None, left |-> targets]
      /\ UNCHANGED <<now, home, row, work, lease, profile, dep, cycle, swept, crossed>>
  BY DEF BeginDeploy, NoCmd
<1>2. CmdShape' /\ cmd'.p = None
  BY <1>1 DEF CmdShape
<1>3. SweptIsRevoked'
  BY <1>1, <1>2 DEF CatalogInv, SweptIsRevoked
<1>4. CatalogTypeOK' /\ RootsDistinct' /\ RowsHaveRoot' /\ RevokedStaysUndeployed'
  BY <1>1 DEF CatalogInv, CatalogTypeOK, RootsDistinct, RowsHaveRoot,
     RevokedStaysUndeployed
<1> QED
  BY <1>1, <1>2, <1>3, <1>4 DEF CatalogInv

(* Between two targets nothing is past its checks.                         *)
LEMMA NextTargetShape ==
    ASSUME CatalogInv, ~Idle, NEW left \in SUBSET cmd.left,
           cmd' = NextTarget(left)
    PROVE  CmdShape' /\ cmd'.p = None
<1>1. cmd.s \in Skills /\ left \in SUBSET Profiles
  BY DEF CatalogInv, CmdShape
<1>2. CASE left = {}
  BY <1>2 DEF NextTarget, CmdShape, Idle, NoCmd
<1>3. CASE left # {}
  <2>1. cmd' = [s |-> cmd.s, p |-> None, root |-> None, left |-> left]
    BY <1>3 DEF NextTarget, NoCmd
  <2> QED
    BY <1>1, <2>1 DEF CmdShape
<1> QED
  BY <1>2, <1>3

LEMMA CheckTargetStep ==
    ASSUME CatalogInv, NEW p \in Profiles, CheckTarget(p)
    PROVE  CatalogInv'
<1>1. /\ cmd.p = None /\ p \in cmd.left
      /\ UNCHANGED <<now, home, row, work, lease, profile, dep, cycle, swept, crossed>>
  BY DEF CheckTarget
<1>2. /\ ~Idle
      /\ cmd \in [s : Skills, p : Profiles \cup {None}, root : Dirs \cup {None},
                  left : SUBSET Profiles]
  BY <1>1 DEF CatalogInv, CmdShape, Idle, NoCmd
<1>3. CatalogTypeOK' /\ RootsDistinct' /\ RowsHaveRoot' /\ RevokedStaysUndeployed'
  BY <1>1 DEF CatalogInv, CatalogTypeOK, RootsDistinct, RowsHaveRoot,
     RevokedStaysUndeployed
<1>4. CASE Deployable(cmd.s) /\ profile[p].enabled
  <2>1. profile[p].root \in Dirs /\ profile[p].root # None
    BY <1>4 DEF CatalogInv, CatalogTypeOK, RootsDistinct
  <2>2. cmd' = [cmd EXCEPT !.p = p, !.root = profile[p].root, !.left = @ \ {p}]
    BY <1>4 DEF CheckTarget
  <2>3. CmdShape' /\ cmd'.s = cmd.s
    BY <1>2, <2>1, <2>2 DEF CmdShape
  <2>4. cmd.s \notin swept
    BY <1>2, <1>4 DEF CatalogInv, SweptIsRevoked, Deployable
  <2>5. SweptIsRevoked'
    BY <1>1, <2>3, <2>4 DEF CatalogInv, SweptIsRevoked
  <2> QED
    BY <1>1, <1>3, <2>3, <2>5 DEF CatalogInv
<1>5. CASE ~(Deployable(cmd.s) /\ profile[p].enabled)
  <2>1. cmd' = NextTarget(cmd.left \ {p})
    BY <1>5 DEF CheckTarget
  <2>2. CmdShape' /\ cmd'.p = None
    BY <1>2, <2>1, NextTargetShape
  <2>3. SweptIsRevoked'
    BY <1>1, <2>2 DEF CatalogInv, SweptIsRevoked
  <2> QED
    BY <1>1, <1>3, <2>2, <2>3 DEF CatalogInv
<1> QED
  BY <1>4, <1>5

LEMMA RecordStep ==
    ASSUME CatalogInv, RecordDeployment
    PROVE  CatalogInv'
<1>1. /\ cmd.p # None /\ ~Idle
      /\ cmd' = NextTarget(cmd.left)
      /\ UNCHANGED <<now, home, row, work, lease, profile, cycle, swept, crossed>>
  BY DEF RecordDeployment, Idle, NoCmd
<1>2. cmd.s \in Skills /\ cmd.p \in Profiles /\ cmd.root \in Dirs /\ cmd.root # None
  BY <1>1 DEF CatalogInv, CmdShape
<1>3. CmdShape' /\ cmd'.p = None
  BY <1>1, NextTargetShape
<1>4. RootsDistinct' /\ SweptIsRevoked' /\ swept' \subseteq Skills
  BY <1>1, <1>3 DEF CatalogInv, RootsDistinct, SweptIsRevoked
<1>5. CASE dep' = dep
  <2>1. CatalogTypeOK' /\ RowsHaveRoot' /\ RevokedStaysUndeployed'
    BY <1>1, <1>5 DEF CatalogInv, CatalogTypeOK, RowsHaveRoot,
       RevokedStaysUndeployed
  <2> QED
    BY <1>3, <1>4, <2>1 DEF CatalogInv
<1>6. CASE /\ row[cmd.s].st # "absent" /\ profile[cmd.p].root = cmd.root
           /\ dep' = [dep EXCEPT ![cmd.s][cmd.p] =
                        [st |-> "installed", root |-> cmd.root]]
  <2>1. /\ dep' \in [Skills -> [Profiles -> [st : {"none", "installed", "revoked"},
                                            root : Dirs \cup {None}]]]
        /\ dep'[cmd.s][cmd.p].root = cmd.root
        /\ \A s \in Skills, p \in Profiles :
              s # cmd.s \/ p # cmd.p => dep'[s][p] = dep[s][p]
    BY <1>2, <1>6 DEF CatalogInv, CatalogTypeOK
  <2>2. CatalogTypeOK'
    <3>1. \A s \in Skills : row[s].st = "absent" =>
            lease[s] = None /\ \A p \in Profiles : dep'[s][p] = NoDep
      BY <1>6, <2>1 DEF CatalogInv, CatalogTypeOK
    <3> QED
      BY <1>1, <2>1, <3>1 DEF CatalogInv, CatalogTypeOK
  <2>3. RowsHaveRoot'
    BY <1>1, <1>2, <1>6, <2>1 DEF CatalogInv, RowsHaveRoot
  <2>4. RevokedStaysUndeployed'
    BY <1>1, <1>2, <2>1
       DEF CatalogInv, SweptIsRevoked, RevokedStaysUndeployed, Live
  <2> QED
    BY <1>3, <1>4, <2>2, <2>3, <2>4 DEF CatalogInv
<1> QED
  BY <1>5, <1>6 DEF RecordDeployment

LEMMA UninstallStep ==
    ASSUME CatalogInv, NEW s \in Skills, NEW p \in Profiles, Uninstall(s, p)
    PROVE  CatalogInv'
<1>1. /\ dep' = [dep EXCEPT ![s][p] = NoDep]
      /\ UNCHANGED <<now, home, row, work, lease, profile, cmd, cycle, swept, crossed>>
  BY DEF Uninstall
<1>2. /\ dep' \in [Skills -> [Profiles -> [st : {"none", "installed", "revoked"},
                                          root : Dirs \cup {None}]]]
      /\ dep'[s][p] = NoDep
      /\ \A z \in Skills, q \in Profiles :
            z # s \/ q # p => dep'[z][q] = dep[z][q]
  BY <1>1 DEF CatalogInv, CatalogTypeOK, NoDep
<1>3. \A z \in Skills, q \in Profiles : dep'[z][q] \in {dep[z][q], NoDep}
  BY <1>2
<1>4. CatalogTypeOK'
  BY <1>1, <1>2, <1>3 DEF CatalogInv, CatalogTypeOK
<1>5. RowsHaveRoot' /\ RevokedStaysUndeployed'
  BY <1>1, <1>3
     DEF CatalogInv, RowsHaveRoot, RevokedStaysUndeployed, Live, NoDep
<1>6. CmdShape' /\ RootsDistinct' /\ SweptIsRevoked'
  BY <1>1 DEF CatalogInv, CmdShape, Idle, RootsDistinct, SweptIsRevoked
<1> QED
  BY <1>1, <1>4, <1>5, <1>6 DEF CatalogInv

(* The steps that give a row another state and may change its queue.       *)
LEMMA RelabelStep ==
    ASSUME CatalogInv, NEW s \in Skills, NEW x \in States \ {"absent"},
           SetState(s, [row[s] EXCEPT !.st = x]),
           work' \in [Skills -> {"none", "pending", "permission_denied",
                                 "permanent_error", "conflict"}],
           UNCHANGED <<now, home, lease, profile, dep, cmd, cycle>>
    PROVE  CatalogInv'
<1> DEFINE r == [row[s] EXCEPT !.st = x]
<1>1. r \in [st : States, remote : BOOLEAN] /\ r.st # "absent"
  BY Relabelled
<1>2. lease' \in [Skills -> (0 .. MaxTime) \cup {None}]
  BY DEF CatalogInv, CatalogTypeOK
<1>3. SetState(s, r)
  OBVIOUS
<1> HIDE DEF r
<1> QED
  BY <1>1, <1>2, <1>3, RowStep

LEMMA CommandStep ==
    ASSUME CatalogInv, NEW s \in Skills,
           \/ CommitSkillEdit(s)
           \/ \E keepLocal \in BOOLEAN : ResolveConflict(s, keepLocal)
           \/ Hydrate(s)
           \/ Evict(s)
    PROVE  CatalogInv'
<1> DEFINE Works == {"none", "pending", "permission_denied", "permanent_error",
                     "conflict"}
<1>1. work \in [Skills -> Works]
  BY DEF CatalogInv, CatalogTypeOK
<1>2. {"dirty", "remote_only", "synced"} \subseteq States \ {"absent"}
  BY DEF States
<1>3. CASE CommitSkillEdit(s)
  <2>1. work' \in [Skills -> Works]
    BY <1>1, <1>3 DEF CommitSkillEdit
  <2> QED
    BY <1>2, <1>3, <2>1, RelabelStep DEF CommitSkillEdit
<1>4. ASSUME NEW keepLocal \in BOOLEAN, ResolveConflict(s, keepLocal)
      PROVE  CatalogInv'
  <2>1. \E x \in {"dirty", "remote_only"} :
          SetState(s, [row[s] EXCEPT !.st = x])
    BY <1>4 DEF ResolveConflict
  <2>2. work' \in [Skills -> Works]
    BY <1>1, <1>4 DEF ResolveConflict
  <2>3. UNCHANGED <<now, home, lease, profile, dep, cmd, cycle>>
    BY <1>4 DEF ResolveConflict
  <2> QED
    BY <1>2, <2>1, <2>2, <2>3, RelabelStep
<1>5. CASE Hydrate(s)
  BY <1>1, <1>2, <1>5, RelabelStep DEF Hydrate
<1>6. CASE Evict(s)
  BY <1>1, <1>2, <1>6, RelabelStep DEF Evict
<1> QED
  BY <1>3, <1>4, <1>5, <1>6

LEMMA OutcomeStep ==
    ASSUME CatalogInv, NEW s \in Skills,
           NEW status \in {"applied", "permission_denied", "permanent_error",
                           "conflict"},
           Outcome(s, status)
    PROVE  CatalogInv'
<1>1. PICK x, b : /\ SetState(s, [remote |-> b, st |-> x])
                  /\ b = (row[s].remote \/ status = "applied")
                  /\ x = CASE status = "applied" ->
                                IF row[s].st \in {"dirty", "sync_error", "conflict"}
                                THEN "synced" ELSE row[s].st
                           [] status = "permission_denied" -> "access_revoked"
                           [] status = "permanent_error" -> "sync_error"
                           [] status = "conflict" -> "conflict"
  BY DEF Outcome
<1>2. row[s].st \in States
  BY DEF CatalogInv, CatalogTypeOK
<1>3. x \in States /\ (x = "absent" => row[s].st = "absent")
  BY <1>1, <1>2 DEF States
<1>4. b \in BOOLEAN
  BY <1>1
<1> DEFINE r == [remote |-> b, st |-> x]
<1>5. r \in [st : States, remote : BOOLEAN] /\ r.st = x
  BY <1>3, <1>4
<1>6. SetState(s, r)
  BY <1>1
<1>7. /\ lease' = lease
      /\ UNCHANGED <<now, home, profile, dep, cmd, cycle>>
      /\ work' = [work EXCEPT ![s] = IF status = "applied" THEN "none" ELSE status]
  BY DEF Outcome
<1>8. /\ lease' \in [Skills -> (0 .. MaxTime) \cup {None}]
      /\ work' \in [Skills -> {"none", "pending", "permission_denied",
                               "permanent_error", "conflict"}]
  BY <1>7 DEF CatalogInv, CatalogTypeOK
<1>9. r.st = "absent" =>
        lease'[s] = None /\ \A p \in Profiles : dep[s][p] = NoDep
  BY <1>3, <1>5, <1>7 DEF CatalogInv, CatalogTypeOK
<1> HIDE DEF r
<1> QED
  BY <1>5, <1>6, <1>7, <1>8, <1>9, RowStep

LEMMA ClockStep ==
    ASSUME CatalogInv, Tick \/ BeginCycle \/ FailCycle
    PROVE  CatalogInv'
<1>1. UNCHANGED <<home, row, work, lease, profile, dep, cmd, swept, crossed>>
  BY DEF Tick, BeginCycle, FailCycle
<1>2. now' \in 0 .. MaxTime
  BY CatalogAssumption DEF Tick, BeginCycle, FailCycle, CatalogInv, CatalogTypeOK
<1>3. cycle' \in BOOLEAN
  BY DEF Tick, BeginCycle, FailCycle, CatalogInv, CatalogTypeOK
<1>4. CatalogTypeOK'
  BY <1>1, <1>2, <1>3 DEF CatalogInv, CatalogTypeOK
<1> QED
  BY <1>1, <1>4 DEF CatalogInv, CmdShape, Idle, RootsDistinct, RowsHaveRoot,
     SweptIsRevoked, RevokedStaysUndeployed

LEMMA CatalogStep == CatalogInv /\ [Next]_catalogVars => CatalogInv'
<1> SUFFICES ASSUME CatalogInv, [Next]_catalogVars PROVE CatalogInv'
  OBVIOUS
<1>1. CASE UNCHANGED catalogVars
  BY <1>1 DEF catalogVars, CatalogInv, CatalogTypeOK, CmdShape, Idle,
     RootsDistinct, RowsHaveRoot, SweptIsRevoked, RevokedStaysUndeployed
<1>2. CASE Next
  BY <1>2, ClockStep, PullStep, OutcomeStep, CommandStep, BeginDeployStep,
     CheckTargetStep, UninstallStep, EndCycleStep, RecordStep, SaveStep, DiscoverStep,
     RestartStep DEF Next
<1> QED
  BY <1>1, <1>2

-----------------------------------------------------------------------------
(* CatalogInv is an invariant of every behaviour, the fair ones included.  *)
THEOREM CatalogInvariant == Spec => []CatalogInv
  BY InitCatalog, CatalogStep, PTL DEF Spec

(* Types and foreign keys: no lease and no catalog row without its skill,  *)
(* whatever tombstones arrive during a deployment.                         *)
THEOREM CatalogTypes == Spec => []CatalogTypeOK
<1>1. CatalogInv => CatalogTypeOK
  BY DEF CatalogInv
<1> QED
  BY <1>1, CatalogInvariant, PTL

(* No saved profile and no discovery strands a recorded deployment or      *)
(* gives its target a second owner (upsert_agent_profile).                 *)
THEOREM DeploymentsUnderRoot == Spec => []RowsUnderRoot
<1>1. CatalogInv => RowsUnderRoot
  BY DEF CatalogInv, RowsHaveRoot, RootsDistinct, RowsUnderRoot
<1> QED
  BY <1>1, CatalogInvariant, PTL

(* A skill that the expiry of its lease revoked stays undeployed           *)
(* (expire_due_entitlements, deploy_single).                               *)
THEOREM RevokedUndeployed == Spec => []RevokedStaysUndeployed
<1>1. CatalogInv => RevokedStaysUndeployed
  BY DEF CatalogInv
<1> QED
  BY <1>1, CatalogInvariant, PTL
=============================================================================
