---------------------------- MODULE RolloutProofs ----------------------------
(***************************************************************************)
(* What a rollout leaves behind, for every number of hosts, wherever it    *)
(* and its rollback fail and however often daemons exit.                   *)
(***************************************************************************)
EXTENDS Rollout, TLAPS

\* Before the script changes anything, or when it gave up before that.
Early == {"none", "fetch", "backup", "failed"}

\* Everything is installed, and then the sudoers file is written.
Upgraded == {"doctor", "restart", "settle", "finished"}
Installed == {"sudoers"} \union Upgraded

\* The rollback has been over the files, and then the sudoers file.
RolledBack == {"restore_restart", "rolled_back"}
Restored == {"restore_sudoers"} \union RolledBack

\* How far the upgrade of a host has come says which of its files are what.
UpgradeInv(h) ==
    /\ Stage(h) \in Early => AsBefore(h)
    /\ Stage(h) \notin Early => backup[h] = <<Old, OldSudoers>>
    /\ Stage(h) = "install" =>
          \A k \in 1..3 : k < unit[h][2] => file[h][Order[k]] = "new"
    /\ Stage(h) \in Installed => \A f \in Files : file[h][f] = "new"
    /\ Stage(h) \in Upgraded => \A f \in Helpers : sudoers[h][f] = "new"
    /\ Stage(h) = "restore" =>
          \A k \in 1..3 : k < unit[h][2] =>
              Order[k] \in stuck[h] \/ file[h][Order[k]] = "old"
    /\ Stage(h) \in Restored => \A f \in Files \ stuck[h] : file[h][f] = "old"
    /\ Stage(h) \in RolledBack => "sudoers" \in stuck[h] \/ sudoers[h] = OldSudoers

\* The operator has come to hosts in order, and to none twice.
OperatorInv ==
    /\ \A h \in Hosts : h > at => Stage(h) = "none"
    /\ mode = "start" => Stage(at) = "none"
    /\ 1..(at - 1) \subseteq passed

IInv ==
    /\ TypeOK
    /\ \A h \in Hosts : UpgradeInv(h)
    /\ OperatorInv

\* The script handles three files.
LEMMA ThreeFiles ==
    /\ Len(Order) = 3
    /\ Order[1] = "daemon" /\ Order[2] = "run" /\ Order[3] = "root"
    /\ \A k \in 1..3 : Order[k] \in Files
    /\ \A f \in Files : \E k \in 1..3 : f = Order[k]
    /\ Helpers \subseteq Files
<1>1. Len(Order) = 3 /\ Order[1] = "daemon" /\ Order[2] = "run" /\ Order[3] = "root"
  BY DEF Order
<1>2. 1..3 = {1, 2, 3}
  OBVIOUS
<1> QED
  BY <1>1, <1>2 DEF Files, Helpers

\* Hosts are counted from 1, and there is one.
LEMMA HostsAreNumbers == Hosts \subseteq Nat /\ 1 \in Hosts
  BY RolloutAssumption DEF Hosts

\* The invariant holds before the rollout.
LEMMA InitIInv == Init => IInv
<1> SUFFICES ASSUME Init PROVE IInv
  OBVIOUS
<1>1. Old \in [Files -> Versions] /\ OldSudoers \in [Helpers -> Versions]
  BY DEF Old, OldSudoers, Files, Helpers, Versions
<1>2. \A h \in Hosts : Stage(h) = "none"
  BY DEF Init, Stage
<1>3. unit \in [Hosts -> Stages \X (0..Len(Order))]
  BY ThreeFiles DEF Init, Stages
<1>4. TypeOK
  BY <1>1, <1>2, <1>3, HostsAreNumbers, RolloutAssumption DEF Init, TypeOK, Versions
<1>5. ASSUME NEW h \in Hosts PROVE UpgradeInv(h)
  BY <1>2 DEF Init, UpgradeInv, AsBefore, Early, Installed, Upgraded, Restored, RolledBack
<1>6. OperatorInv
  BY <1>2, HostsAreNumbers DEF Init, OperatorInv
<1> QED
  BY <1>4, <1>5, <1>6 DEF IInv

-----------------------------------------------------------------------------
\* The steps of one host's upgrade.

USE DEF hostVars, operatorVars

\* Going to another stage keeps the type of unit.
LEMMA GoType ==
    ASSUME TypeOK, NEW h \in Hosts, NEW s \in Stages, NEW i \in 0..3, Go(h, s, i),
           s \in {"install", "restore"} => i # 0
    PROVE  /\ unit' \in [Hosts -> Stages \X (0..Len(Order))]
           /\ \A g \in Hosts : Stage(g)' \in {"install", "restore"} => unit'[g][2] # 0
           /\ Stage(h)' = s /\ unit'[h][2] = i
           /\ \A g \in Hosts : g # h => unit'[g] = unit[g]
<1>1. /\ unit' = [unit EXCEPT ![h] = <<s, i>>]
      /\ unit \in [Hosts -> Stages \X (0..Len(Order))]
  BY DEF Go, TypeOK
<1>2. /\ unit'[h] = <<s, i>>
      /\ \A g \in Hosts : g # h => unit'[g] = unit[g]
  BY <1>1
<1>3. <<s, i>> \in Stages \X (0..Len(Order))
  BY ThreeFiles
<1>4. unit' \in [Hosts -> Stages \X (0..Len(Order))]
  BY <1>1, <1>3
<1>5. Stage(h)' = s /\ unit'[h][2] = i
  BY <1>2 DEF Stage
<1>6. ASSUME NEW g \in Hosts, Stage(g)' \in {"install", "restore"}
      PROVE  unit'[g][2] # 0
  BY <1>2, <1>5, <1>6 DEF TypeOK, Stage
<1> QED
  BY <1>2, <1>4, <1>5, <1>6

\* An upgrade disturbs no other host.
LEMMA OthersStay ==
    ASSUME TypeOK, NEW h \in Hosts, Upgrade(h), NEW g \in Hosts, g # h
    PROVE  /\ file'[g] = file[g] /\ sudoers'[g] = sudoers[g]
           /\ unit'[g] = unit[g] /\ stuck'[g] = stuck[g] /\ backup'[g] = backup[g]
<1>1. unit'[g] = unit[g]
  <2>1. \A s, i : Go(h, s, i) => unit'[g] = unit[g]
    BY DEF Go, TypeOK
  <2> QED
    BY <2>1 DEF Upgrade, Fetch, Backup, Install, WriteSudoers, Doctor, Restart, IsActive,
                Fail, RestoreFile, RestoreSudoers, RestoreRestart
<1>2. file'[g] = file[g]
  BY DEF TypeOK, Upgrade, Fetch, Backup, Install, WriteSudoers, Doctor, Restart, IsActive,
         Fail, Broken, RestoreFile, RestoreSudoers, RestoreRestart
<1>3. sudoers'[g] = sudoers[g]
  BY DEF TypeOK, Upgrade, Fetch, Backup, Install, WriteSudoers, Doctor, Restart, IsActive,
         Fail, Broken, RestoreFile, RestoreSudoers, RestoreRestart
<1>4. stuck'[g] = stuck[g]
  BY DEF TypeOK, Upgrade, Fetch, Backup, Install, WriteSudoers, Doctor, Restart, IsActive,
         Fail, Broken, RestoreFile, RestoreSudoers, RestoreRestart, Stuck
<1>5. backup'[g] = backup[g]
  BY DEF TypeOK, Upgrade, Fetch, Backup, Install, WriteSudoers, Doctor, Restart, IsActive,
         Fail, Broken, RestoreFile, RestoreSudoers, RestoreRestart
<1> QED
  BY <1>1, <1>2, <1>3, <1>4, <1>5

\* What an upgrade leaves in a host's files fits how far it has come.
LEMMA UpgradeStep ==
    ASSUME TypeOK, NEW h \in Hosts, UpgradeInv(h), Upgrade(h)
    PROVE  UpgradeInv(h)'
<1> USE DEF Early, Upgraded, Installed, RolledBack, Restored
<1>1. \A s, i : Go(h, s, i) => Stage(h)' = s /\ unit'[h][2] = i
  BY DEF Go, TypeOK, Stage
<1>2. ASSUME Fetch(h)
      PROVE  UpgradeInv(h)'
  BY <1>1, <1>2, ThreeFiles DEF Fetch, UpgradeInv, AsBefore, TypeOK
<1>3. ASSUME Backup(h)
      PROVE  UpgradeInv(h)'
  <2>1. AsBefore(h) /\ AsBefore(h)'
    BY <1>3 DEF Backup, UpgradeInv, AsBefore
  <2>2. CASE Go(h, "failed", 0)
    BY <1>1, <2>1, <2>2 DEF UpgradeInv
  <2>3. CASE Go(h, "install", 1) /\ backup' = [backup EXCEPT ![h] = <<file[h], sudoers[h]>>]
    <3>1. backup'[h] = <<Old, OldSudoers>>
      BY <2>1, <2>3 DEF AsBefore, TypeOK
    <3>2. Stage(h)' = "install" /\ unit'[h][2] = 1
      BY <1>1, <2>3
    <3> QED
      BY <3>1, <3>2 DEF UpgradeInv
  <2> QED
    BY <1>3, <2>2, <2>3 DEF Backup
<1>4. ASSUME Install(h)
      PROVE  UpgradeInv(h)'
  <2> DEFINE i == unit[h][2]
  <2>1. /\ Stage(h) = "install" /\ i \in 1..3
        /\ backup'[h] = <<Old, OldSudoers>>
    BY <1>4, ThreeFiles DEF Install, UpgradeInv, TypeOK, Stage
  <2>2. /\ file'[h] = [file[h] EXCEPT ![Order[i]] = "new"]
        /\ IF i < 3 THEN Go(h, "install", i + 1) ELSE Go(h, "sudoers", 0)
    BY <1>4, ThreeFiles DEF Install, TypeOK
  <2>3. \A k \in 1..3 : k <= i => file'[h][Order[k]] = "new"
    <3> SUFFICES ASSUME NEW k \in 1..3, k <= i PROVE file'[h][Order[k]] = "new"
      OBVIOUS
    <3>1. Order[k] \in Files /\ file[h] \in [Files -> Versions]
      BY ThreeFiles DEF TypeOK
    <3>2. k < i => file[h][Order[k]] = "new"
      BY <2>1 DEF UpgradeInv
    <3> QED
      BY <2>1, <2>2, <3>1, <3>2
  <2>4. CASE i < 3
    <3>1. Stage(h)' = "install" /\ unit'[h][2] = i + 1
      BY <1>1, <2>2, <2>4
    <3>2. \A k \in 1..3 : k < unit'[h][2] => file'[h][Order[k]] = "new"
      BY <2>1, <2>3, <3>1
    <3> QED
      BY <2>1, <3>1, <3>2 DEF UpgradeInv
  <2>5. CASE i = 3
    <3>1. Stage(h)' = "sudoers"
      BY <1>1, <2>2, <2>5
    <3>2. \A f \in Files : file'[h][f] = "new"
      BY <2>3, <2>5, ThreeFiles
    <3> QED
      BY <2>1, <3>1, <3>2 DEF UpgradeInv
  <2> QED
    BY <2>1, <2>4, <2>5
<1>5. ASSUME WriteSudoers(h)
      PROVE  UpgradeInv(h)'
  <2>1. /\ Stage(h) = "sudoers" /\ Stage(h)' = "doctor"
        /\ file' = file /\ backup' = backup
    BY <1>1, <1>5 DEF WriteSudoers
  <2>2. \A f \in Helpers : sudoers'[h][f] = file[h][f]
    BY <1>5 DEF WriteSudoers, TypeOK
  <2>3. \A f \in Files : file[h][f] = "new"
    BY <2>1 DEF UpgradeInv
  <2> QED
    BY <2>1, <2>2, <2>3, ThreeFiles DEF UpgradeInv
<1>6. ASSUME Doctor(h)
      PROVE  UpgradeInv(h)'
  BY <1>1, <1>6, ThreeFiles DEF Doctor, UpgradeInv, AsBefore, TypeOK
<1>7. ASSUME Restart(h)
      PROVE  UpgradeInv(h)'
  BY <1>1, <1>7, ThreeFiles DEF Restart, UpgradeInv, AsBefore, TypeOK
<1>8. ASSUME IsActive(h)
      PROVE  UpgradeInv(h)'
  BY <1>1, <1>8, ThreeFiles DEF IsActive, UpgradeInv, AsBefore, TypeOK
<1>9. ASSUME Fail(h)
      PROVE  UpgradeInv(h)'
  BY <1>1, <1>9, ThreeFiles DEF Fail, Broken, UpgradeInv, AsBefore, TypeOK
<1>10. ASSUME RestoreFile(h)
      PROVE  UpgradeInv(h)'
  <2> DEFINE i == unit[h][2]
             Fine(f) == f \in stuck'[h] \/ file'[h][f] = "old"
  <2>1. /\ Stage(h) = "restore" /\ i \in 1..3
        /\ backup[h] = <<Old, OldSudoers>> /\ backup'[h] = <<Old, OldSudoers>>
    BY <1>10, ThreeFiles DEF RestoreFile, UpgradeInv, TypeOK, Stage
  <2>2. /\ \/ stuck'[h] = stuck[h] \union {Order[i]} /\ file'[h] = file[h]
           \/ /\ stuck'[h] = stuck[h] \union {Order[i]}
              /\ file'[h] = [file[h] EXCEPT ![Order[i]] = "broken"]
           \/ /\ file'[h] = [file[h] EXCEPT ![Order[i]] = backup[h][1][Order[i]]]
              /\ stuck'[h] = stuck[h]
        /\ IF i < 3 THEN Go(h, "restore", i + 1) ELSE Go(h, "restore_sudoers", 0)
    BY <1>10, ThreeFiles DEF RestoreFile, Stuck, TypeOK
  <2>3. \A k \in 1..3 : k <= i => Fine(Order[k])
    <3> SUFFICES ASSUME NEW k \in 1..3, k <= i PROVE Fine(Order[k])
      OBVIOUS
    <3>1. Order[k] \in Files /\ file[h] \in [Files -> Versions]
      BY ThreeFiles DEF TypeOK
    <3>2. Old[Order[k]] = "old"
      BY <3>1 DEF Files, Old
    <3>3. k < i => Order[k] \in stuck[h] \/ file[h][Order[k]] = "old"
      BY <2>1 DEF UpgradeInv
    <3>4. CASE k < i
      BY <2>1, <2>2, <3>1, <3>2, <3>3, <3>4
    <3>5. CASE k = i
      BY <2>1, <2>2, <3>1, <3>2, <3>5
    <3> QED
      BY <2>1, <3>4, <3>5
  <2>4. CASE i < 3
    <3>1. Stage(h)' = "restore" /\ unit'[h][2] = i + 1
      BY <1>1, <2>2, <2>4
    <3>2. \A k \in 1..3 : k < unit'[h][2] => Fine(Order[k])
      BY <2>1, <2>3, <3>1
    <3> QED
      BY <2>1, <3>1, <3>2 DEF UpgradeInv
  <2>5. CASE i = 3
    <3>1. Stage(h)' = "restore_sudoers"
      BY <1>1, <2>2, <2>5
    <3>2. \A f \in Files : Fine(f)
      BY <2>3, <2>5, ThreeFiles
    <3> QED
      BY <2>1, <3>1, <3>2 DEF UpgradeInv
  <2> QED
    BY <2>1, <2>4, <2>5
<1>11. ASSUME RestoreSudoers(h)
      PROVE  UpgradeInv(h)'
  <2>1. /\ Stage(h) = "restore_sudoers" /\ Stage(h)' = "restore_restart"
        /\ backup[h] = <<Old, OldSudoers>> /\ backup'[h] = <<Old, OldSudoers>>
        /\ file' = file /\ stuck[h] \subseteq stuck'[h]
        /\ \A f \in Files \ stuck[h] : file[h][f] = "old"
    BY <1>1, <1>11 DEF RestoreSudoers, Stuck, UpgradeInv, TypeOK
  <2>2. "sudoers" \in stuck'[h] \/ sudoers'[h] = OldSudoers
    BY <1>11, <2>1 DEF RestoreSudoers, Stuck, TypeOK
  <2> QED
    BY <2>1, <2>2 DEF UpgradeInv
<1>12. ASSUME RestoreRestart(h)
      PROVE  UpgradeInv(h)'
  BY <1>1, <1>12, ThreeFiles DEF RestoreRestart, UpgradeInv, AsBefore, TypeOK
<1> QED
  BY <1>2, <1>3, <1>4, <1>5, <1>6, <1>7, <1>8, <1>9, <1>10, <1>11, <1>12 DEF Upgrade

\* A restart starts what is installed, if that can be started.
LEMMA RestartTypes ==
    ASSUME TypeOK, NEW h \in Hosts, Restarted(h)
    PROVE  running' \in [Hosts -> {"old", "new", "down"}] /\ batch' \in 0..NumHosts
<1>1. file[h].daemon \in Versions
  BY DEF TypeOK, Files
<1>2. (IF file[h].daemon = "broken" THEN "down" ELSE file[h].daemon) \in {"old", "new", "down"}
  BY <1>1 DEF Versions
<1>3. running' \in [Hosts -> {"old", "new", "down"}]
  BY <1>2 DEF Restarted, TypeOK
<1>4. 0 \in 0..NumHosts
  BY RolloutAssumption
<1> QED
  BY <1>3, <1>4 DEF Restarted, Ended, TypeOK

\* A restart that fails has stopped the daemon or not.
LEMMA RestartFailedTypes ==
    ASSUME TypeOK, NEW h \in Hosts, RestartFailed(h)
    PROVE  running' \in [Hosts -> {"old", "new", "down"}] /\ batch' \in 0..NumHosts
<1>1. 0 \in 0..NumHosts
  BY RolloutAssumption
<1> QED
  BY <1>1 DEF RestartFailed, Ended, TypeOK

\* The types of what an upgrade changes.
LEMMA UpgradeTypes ==
    ASSUME TypeOK, NEW h \in Hosts, UpgradeInv(h), Upgrade(h)
    PROVE  TypeOK'
<1>1. unit' \in [Hosts -> Stages \X (0..Len(Order))]
      /\ \A g \in Hosts : Stage(g)' \in {"install", "restore"} => unit'[g][2] # 0
  <2>1. \A s \in Stages : \A i \in 0..3 :
            Go(h, s, i) /\ (s \in {"install", "restore"} => i # 0)
                => /\ unit' \in [Hosts -> Stages \X (0..Len(Order))]
                   /\ \A g \in Hosts : Stage(g)' \in {"install", "restore"} => unit'[g][2] # 0
    BY GoType
  <2>2. \A i \in 1..3 : (i < 3 => i + 1 \in 0..3 /\ i + 1 # 0) /\ i \in 0..3
    OBVIOUS
  <2>3. Stage(h) \in {"install", "restore"} => unit[h][2] \in 1..3
    BY ThreeFiles DEF TypeOK
  <2>4. /\ Fetch(h) \/ Backup(h) \/ WriteSudoers(h) \/ Doctor(h) \/ Restart(h) \/ IsActive(h)
            \/ Fail(h) \/ RestoreSudoers(h) \/ RestoreRestart(h)
        => \E s \in Stages : \E i \in 0..3 :
              Go(h, s, i) /\ (s \in {"install", "restore"} => i # 0)
    BY DEF Fetch, Backup, WriteSudoers, Doctor, Restart, IsActive, Fail, RestoreSudoers,
           RestoreRestart, Stages
  <2>5. Install(h) \/ RestoreFile(h) =>
           \E s \in Stages : \E i \in 0..3 :
              Go(h, s, i) /\ (s \in {"install", "restore"} => i # 0)
    BY <2>2, <2>3, ThreeFiles DEF Install, RestoreFile, Stages
  <2> QED
    BY <2>1, <2>4, <2>5 DEF Upgrade
<1>2. file' \in [Hosts -> [Files -> Versions]]
  <2>1. CASE Install(h)
    <3>1. unit[h][2] \in 1..3
      BY <2>1, ThreeFiles DEF Install, TypeOK
    <3> QED
      BY <2>1, <3>1, ThreeFiles DEF Install, TypeOK, Versions
  <2>2. CASE Fail(h)
    <3>1. Stage(h) = "install" => Order[unit[h][2]] \in Files
      BY ThreeFiles DEF TypeOK
    <3>2. \A x \in Files : [file[h] EXCEPT ![x] = "broken"] \in [Files -> Versions]
      BY DEF TypeOK, Versions
    <3>3. \/ file' = file
          \/ /\ Order[unit[h][2]] \in Files
             /\ file' = [file EXCEPT ![h] = [file[h] EXCEPT ![Order[unit[h][2]]] = "broken"]]
      BY <2>2, <3>1 DEF Fail, Broken, TypeOK
    <3>4. \A x \in [Files -> Versions] :
             [file EXCEPT ![h] = x] \in [Hosts -> [Files -> Versions]]
      BY DEF TypeOK
    <3>5. CASE file' = file
      BY <3>5 DEF TypeOK
    <3>6. CASE file' # file
      <4> DEFINE x == [file[h] EXCEPT ![Order[unit[h][2]]] = "broken"]
      <4>1. x \in [Files -> Versions] /\ file' = [file EXCEPT ![h] = x]
        BY <3>2, <3>3, <3>6
      <4> HIDE DEF x
      <4> QED
        BY <3>4, <4>1
    <3> QED
      BY <3>5, <3>6
  <2>3. CASE RestoreFile(h)
    <3>1. Stage(h) = "restore" /\ unit[h][2] \in 1..3 /\ backup[h][1] = Old
      BY <2>3, ThreeFiles DEF RestoreFile, TypeOK, UpgradeInv, Early
    <3>2. \A f \in Files : Old[f] \in Versions
      BY DEF Old, Files, Versions
    <3>3. Order[unit[h][2]] \in Files
      BY <3>1, ThreeFiles
    <3>4. \A x \in Files : [file[h] EXCEPT ![x] = Old[x]] \in [Files -> Versions]
      BY <3>2 DEF TypeOK
    <3>5. \A x \in Files : [file[h] EXCEPT ![x] = "broken"] \in [Files -> Versions]
      BY DEF TypeOK, Versions
    <3>6. \A x \in [Files -> Versions] :
             [file EXCEPT ![h] = x] \in [Hosts -> [Files -> Versions]]
      BY DEF TypeOK
    <3>7. \/ file' = file
          \/ file' = [file EXCEPT ![h] = [file[h] EXCEPT
                         ![Order[unit[h][2]]] = Old[Order[unit[h][2]]]]]
          \/ file' = [file EXCEPT ![h] = [file[h] EXCEPT
                         ![Order[unit[h][2]]] = "broken"]]
      BY <2>3, <3>1 DEF RestoreFile, TypeOK
    <3>8. CASE file' = file
      BY <3>8 DEF TypeOK
    <3>9. CASE file' # file
      <4>1. PICK x \in [Files -> Versions] : file' = [file EXCEPT ![h] = x]
        <5>1. CASE file' = [file EXCEPT ![h] = [file[h] EXCEPT
                               ![Order[unit[h][2]]] = Old[Order[unit[h][2]]]]]
          BY <3>3, <3>4, <5>1
        <5>2. CASE file' = [file EXCEPT ![h] = [file[h] EXCEPT
                               ![Order[unit[h][2]]] = "broken"]]
          BY <3>3, <3>5, <5>2
        <5> QED
          BY <3>7, <3>9, <5>1, <5>2
      <4> QED
        BY <3>6, <4>1
    <3> QED
      BY <3>8, <3>9
  <2> QED
    BY <2>1, <2>2, <2>3 DEF TypeOK, Upgrade, Fetch, Backup, WriteSudoers, Doctor, Restart,
                            IsActive, RestoreSudoers, RestoreRestart
<1>3. sudoers' \in [Hosts -> [Helpers -> Versions]]
  <2>1. CASE WriteSudoers(h)
    <3>1. [f \in Helpers |-> file[h][f]] \in [Helpers -> Versions]
      BY ThreeFiles DEF TypeOK
    <3> QED
      BY <2>1, <3>1 DEF WriteSudoers, TypeOK
  <2>2. CASE Fail(h)
    <3>1. [f \in Helpers |-> "broken"] \in [Helpers -> Versions]
      BY DEF Versions
    <3> QED
      BY <2>2, <3>1 DEF Fail, Broken, TypeOK
  <2>3. CASE RestoreSudoers(h)
    <3>1. backup[h][2] = OldSudoers
      BY <2>3 DEF RestoreSudoers, UpgradeInv, Early
    <3>2. OldSudoers \in [Helpers -> Versions]
      BY DEF OldSudoers, Helpers, Versions
    <3>3. [f \in Helpers |-> "broken"] \in [Helpers -> Versions]
      BY DEF Versions
    <3> QED
      BY <2>3, <3>1, <3>2, <3>3 DEF RestoreSudoers, TypeOK
  <2> QED
    BY <2>1, <2>2, <2>3 DEF TypeOK, Upgrade, Fetch, Backup, Install, Doctor, Restart,
                            IsActive, RestoreFile, RestoreRestart
<1>4. backup' \in [Hosts -> {<<>>} \union ([Files -> Versions] \X [Helpers -> Versions])]
  BY DEF TypeOK, Upgrade, Fetch, Backup, Install, WriteSudoers, Doctor, Restart, IsActive,
         Fail, RestoreFile, RestoreSudoers, RestoreRestart
<1>5. stuck' \in [Hosts -> SUBSET (Files \union {"sudoers"})]
  <2>1. CASE RestoreFile(h)
    <3>1. Order[unit[h][2]] \in Files
      BY <2>1, ThreeFiles DEF RestoreFile, TypeOK
    <3>2. \/ stuck' = stuck
          \/ stuck' = [stuck EXCEPT ![h] = @ \union {Order[unit[h][2]]}]
      BY <2>1 DEF RestoreFile, Stuck
    <3>3. stuck[h] \union {Order[unit[h][2]]} \in SUBSET (Files \union {"sudoers"})
      BY <3>1 DEF TypeOK
    <3> QED
      BY <3>2, <3>3 DEF TypeOK
  <2>2. CASE RestoreSudoers(h)
    <3>1. stuck[h] \union {"sudoers"} \in SUBSET (Files \union {"sudoers"})
      BY DEF TypeOK
    <3>2. \/ stuck' = stuck
          \/ stuck' = [stuck EXCEPT ![h] = @ \union {"sudoers"}]
      BY <2>2 DEF RestoreSudoers, Stuck
    <3> QED
      BY <3>1, <3>2 DEF TypeOK
  <2> QED
    BY <2>1, <2>2 DEF TypeOK, Upgrade, Fetch, Backup, Install, WriteSudoers, Doctor, Restart,
                      IsActive, Fail, RestoreRestart
<1>6. running' \in [Hosts -> {"old", "new", "down"}] /\ batch' \in 0..NumHosts
  <2>1. Restarted(h) => running' \in [Hosts -> {"old", "new", "down"}] /\ batch' \in 0..NumHosts
    BY RestartTypes
  <2>2. RestartFailed(h) => running' \in [Hosts -> {"old", "new", "down"}] /\ batch' \in 0..NumHosts
    BY RestartFailedTypes
  <2> QED
    BY <2>1, <2>2 DEF TypeOK, Upgrade, Fetch, Backup, Install, WriteSudoers, Doctor, Restart,
                IsActive, Fail, RestoreFile, RestoreSudoers, RestoreRestart
<1> QED
  BY <1>1, <1>2, <1>3, <1>4, <1>5, <1>6 DEF TypeOK, Upgrade

-----------------------------------------------------------------------------
\* All steps.

\* UpgradeInv and the hosts' part of TypeOK depend on four variables only.
LEMMA UpgradeInvOf ==
    ASSUME NEW h \in Hosts, UpgradeInv(h), UNCHANGED <<file, sudoers, backup, unit, stuck>>
    PROVE  UpgradeInv(h)'
BY DEF UpgradeInv, Stage, AsBefore

\* A step of the upgrade script keeps the invariant: it changes one host, and
\* only one where an upgrade was started.
LEMMA UpgradeKeepsIInv ==
    ASSUME IInv, NEW h \in Hosts, Upgrade(h)
    PROVE  IInv'
<1>1. TypeOK'
  BY UpgradeTypes DEF IInv
<1>2. ASSUME NEW g \in Hosts PROVE UpgradeInv(g)'
  <2>1. CASE g = h
    BY <2>1, UpgradeStep DEF IInv
  <2>2. CASE g # h
    <3>1. /\ file'[g] = file[g] /\ sudoers'[g] = sudoers[g]
          /\ unit'[g] = unit[g] /\ stuck'[g] = stuck[g] /\ backup'[g] = backup[g]
      BY <2>2, OthersStay DEF IInv
    <3> QED
      BY <3>1 DEF IInv, UpgradeInv, Stage, AsBefore
  <2> QED
    BY <2>1, <2>2
<1>3. Stage(h) # "none"
  BY DEF Upgrade, Fetch, Backup, Install, WriteSudoers, Doctor, Restart, IsActive, Fail,
         Broken, RestoreFile, RestoreSudoers, RestoreRestart
<1>4. \A g \in Hosts : Stage(g) = "none" => Stage(g)' = "none"
  BY <1>3, OthersStay DEF IInv, Stage
<1>5. OperatorInv'
  BY <1>4 DEF IInv, OperatorInv, Upgrade, TypeOK
<1> QED
  BY <1>1, <1>2, <1>5 DEF IInv

\* The daemon and systemd change none of the files.
LEMMA DaemonKeepsIInv ==
    ASSUME IInv, NEW h \in Hosts, DaemonExits(h) \/ Respawn(h)
    PROVE  IInv'
<1>1. UNCHANGED <<file, sudoers, backup, unit, stuck, operatorVars>>
  BY DEF DaemonExits, Respawn
<1>2. running' \in [Hosts -> {"old", "new", "down"}] /\ batch' \in 0..NumHosts
  <2>1. CASE Respawn(h)
    BY <2>1, RestartTypes DEF IInv, Respawn
  <2>2. CASE DaemonExits(h)
    <3>1. 0 \in 0..NumHosts
      BY RolloutAssumption
    <3> QED
      BY <2>2, <3>1 DEF DaemonExits, Ended, IInv, TypeOK
  <2> QED
    BY <2>1, <2>2
<1>3. TypeOK'
  BY <1>1, <1>2 DEF IInv, TypeOK, Stage
<1>4. \A g \in Hosts : UpgradeInv(g)'
  BY <1>1, UpgradeInvOf DEF IInv
<1>5. OperatorInv'
  BY <1>1 DEF IInv, OperatorInv, Stage
<1> QED
  BY <1>3, <1>4, <1>5 DEF IInv

\* The operator starts an upgrade only where none was started before, and moves
\* on only from a host that has passed.
LEMMA OperatorKeepsIInv ==
    ASSUME IInv, Operator
    PROVE  IInv'
<1>1. ASSUME StartDeploy \/ StartDeployFails
      PROVE  IInv'
  <2>1. /\ mode = "start" /\ Stage(at) = "none" /\ at \in Hosts /\ at \in Nat
        /\ UNCHANGED <<file, sudoers, backup, running, stuck, at, batch, lastHash,
                       expectedHash, passed>>
        /\ mode' \in {"hash", "died"}
        /\ Go(at, "fetch", 0) \/ unit' = unit
    BY <1>1, HostsAreNumbers DEF StartDeploy, StartDeployFails, Die, IInv, TypeOK, OperatorInv
  <2>2. CASE unit' = unit
    <3>1. TypeOK'
      BY <2>1, <2>2 DEF IInv, TypeOK, Stage
    <3>2. \A h \in Hosts : UpgradeInv(h)'
      BY <2>1, <2>2, UpgradeInvOf DEF IInv
    <3>3. OperatorInv'
      BY <2>1, <2>2 DEF IInv, OperatorInv, Stage
    <3> QED
      BY <3>1, <3>2, <3>3 DEF IInv
  <2>3. CASE Go(at, "fetch", 0)
    <3>1. /\ unit' \in [Hosts -> Stages \X (0..Len(Order))]
          /\ \A g \in Hosts : Stage(g)' \in {"install", "restore"} => unit'[g][2] # 0
          /\ Stage(at)' = "fetch"
          /\ \A g \in Hosts : g # at => unit'[g] = unit[g]
      <4>1. "fetch" \in Stages /\ 0 \in 0..3
        BY DEF Stages
      <4> QED
        BY <2>1, <2>3, <4>1, GoType DEF IInv
    <3>2. TypeOK'
      BY <2>1, <3>1 DEF IInv, TypeOK
    <3>3. ASSUME NEW h \in Hosts PROVE UpgradeInv(h)'
      <4>1. CASE h = at
        BY <2>1, <3>1, <4>1
        DEF IInv, UpgradeInv, AsBefore, Early, Installed, Upgraded, Restored, RolledBack
      <4>2. CASE h # at
        BY <2>1, <3>1, <4>2 DEF IInv, UpgradeInv, AsBefore, Stage
      <4> QED
        BY <4>1, <4>2
    <3>4. OperatorInv'
      <4>1. \A h \in Hosts : h > at => Stage(h)' = "none"
        BY <2>1, <3>1 DEF IInv, OperatorInv, Stage
      <4> QED
        BY <2>1, <4>1 DEF IInv, OperatorInv
    <3> QED
      BY <3>2, <3>3, <3>4 DEF IInv
  <2> QED
    BY <2>1, <2>2, <2>3
<1>2. ASSUME VerifyHash \/ VerifyFails
      PROVE  IInv'
  <2>1. UNCHANGED <<hostVars, at, passed, expectedHash>> /\ mode' \in {"doctor", "died"}
    BY <1>2 DEF VerifyHash, VerifyFails, Die
  <2>2. TypeOK'
    <3>1. at \in 0..NumHosts
      BY RolloutAssumption DEF IInv, TypeOK, Hosts
    <3>2. file[at].daemon \in Versions
      BY DEF IInv, TypeOK, Files
    <3> QED
      BY <1>2, <2>1, <3>1, <3>2 DEF VerifyHash, VerifyFails, Die, IInv, TypeOK, Stage
  <2>3. \A h \in Hosts : UpgradeInv(h)'
    BY <2>1, UpgradeInvOf DEF IInv
  <2>4. OperatorInv'
    BY <2>1 DEF IInv, OperatorInv, Stage
  <2> QED
    BY <2>2, <2>3, <2>4 DEF IInv
<1>3. ASSUME VerifyDoctor
      PROVE  IInv'
  <2>1. /\ UNCHANGED <<hostVars, lastHash>> /\ batch' = 0 /\ expectedHash' = lastHash
        /\ passed' = passed \union {at}
        /\ \/ at < NumHosts /\ at' = at + 1 /\ mode' = "start"
           \/ at' = at /\ mode' = "done"
    BY <1>3 DEF VerifyDoctor
  <2>2. at \in Hosts /\ at \in Nat /\ NumHosts \in Nat /\ at' \in Hosts
    BY <2>1, RolloutAssumption DEF IInv, TypeOK, Hosts
  <2>3. TypeOK'
    <3>1. 0 \in 0..NumHosts
      BY RolloutAssumption
    <3> QED
      BY <2>1, <2>2, <3>1 DEF IInv, TypeOK, Stage
  <2>4. \A h \in Hosts : UpgradeInv(h)'
    BY <2>1, UpgradeInvOf DEF IInv
  <2>5. OperatorInv'
    <3>1. \A h \in Hosts : Stage(h)' = Stage(h)
      BY <2>1 DEF Stage
    <3>2. \A h \in Hosts : h > at' => Stage(h)' = "none"
      BY <2>1, <2>2, <3>1, HostsAreNumbers DEF IInv, OperatorInv
    <3>3. mode' = "start" => Stage(at)' = "none"
      <4>1. mode' = "start" => at' > at /\ unit'[at'] = unit[at']
        BY <2>1, <2>2
      <4> QED
        BY <2>2, <4>1 DEF IInv, OperatorInv, Stage
    <3>4. 1..(at' - 1) \subseteq passed'
      <4>1. 1..(at - 1) \subseteq passed
        BY DEF IInv, OperatorInv
      <4>2. CASE at' = at
        BY <2>1, <4>1, <4>2
      <4>3. CASE at' = at + 1
        <5>1. at' - 1 = at
          BY <2>2, <4>3
        <5>2. \A k \in 1..at : k \in 1..(at - 1) \/ k = at
          BY <2>2
        <5> QED
          BY <2>1, <4>1, <5>1, <5>2
      <4> QED
        BY <2>1, <4>2, <4>3
    <3> QED
      BY <3>2, <3>3, <3>4 DEF OperatorInv
  <2> QED
    BY <2>3, <2>4, <2>5 DEF IInv
<1> QED
  BY <1>1, <1>2, <1>3 DEF Operator

\* Every step keeps the invariant.
LEMMA StepIInv ==
    ASSUME IInv, [Next]_vars
    PROVE  IInv'
<1>1. CASE UNCHANGED vars
  <2>1. TypeOK' /\ OperatorInv'
    BY <1>1 DEF IInv, TypeOK, OperatorInv, Stage, vars
  <2>2. \A h \in Hosts : UpgradeInv(h)'
    BY <1>1, UpgradeInvOf DEF IInv, vars
  <2> QED
    BY <2>1, <2>2 DEF IInv
<1> QED
  BY <1>1, UpgradeKeepsIInv, DaemonKeepsIInv, OperatorKeepsIInv DEF Next

\* How far each upgrade has come says what its host has, apart from what a rollback
\* failed to restore, and the operator has reached the hosts in order
\* (write_remote_script and the loop 249-262).
THEOREM RolloutInvariance == Spec => []IInv
  BY InitIInv, StepIInv, PTL DEF Spec

\* Every variable stays in its type.
THEOREM RolloutTypes == Spec => []TypeOK
<1>1. IInv => TypeOK
  BY DEF IInv
<1> QED
  BY <1>1, RolloutInvariance, PTL

\* For every number of hosts: an upgrade that has ended has replaced all four
\* files, or left them, or restored all but those whose own restoring failed, for
\* whatever reason: no failure of the rollback spreads (127-200).
THEOREM EndsAllOrNothing == Spec => []AllOrNothing
<1>1. ASSUME IInv, NEW h \in Hosts
      PROVE  /\ Stage(h) = "finished" => /\ \A f \in Files : file[h][f] = "new"
                                         /\ \A f \in Helpers : Admitted(h, f)
             /\ Stage(h) = "failed" => AsBefore(h)
             /\ Stage(h) = "rolled_back" =>
                   /\ \A f \in Files \ stuck[h] : file[h][f] = "old"
                   /\ "sudoers" \in stuck[h] \/ sudoers[h] = OldSudoers
  <2>1. Stage(h) = "finished" => \A f \in Files : file[h][f] = "new"
    BY <1>1 DEF IInv, UpgradeInv, Installed, Upgraded
  <2>2. Stage(h) = "finished" => \A f \in Helpers : Admitted(h, f)
    BY <1>1, <2>1, ThreeFiles DEF IInv, UpgradeInv, Upgraded, Admitted
  <2> QED
    BY <1>1, <2>1, <2>2 DEF IInv, UpgradeInv, Early, Restored, RolledBack
<1>2. IInv => AllOrNothing
  BY <1>1 DEF AllOrNothing
<1> QED
  BY <1>2, RolloutInvariance, PTL

\* For every number of hosts: nothing is changed on a host before all hosts in
\* front of it have passed their verification (249-262).
THEOREM HostsInOrder == Spec => []LaterHostsUntouched
<1>1. ASSUME IInv, NEW h \in Hosts
      PROVE  AsBefore(h) \/ 1..(h - 1) \subseteq passed
  <2>1. h \in Nat /\ at \in Nat
    BY <1>1, HostsAreNumbers DEF IInv, TypeOK
  <2>2. CASE h > at
    BY <1>1, <2>2 DEF IInv, OperatorInv, UpgradeInv, Early
  <2>3. CASE h <= at
    BY <1>1, <2>1, <2>3 DEF IInv, OperatorInv
  <2> QED
    BY <2>1, <2>2, <2>3
<1>2. IInv => LaterHostsUntouched
  BY <1>1 DEF LaterHostsUntouched
<1> QED
  BY <1>2, RolloutInvariance, PTL
=============================================================================
