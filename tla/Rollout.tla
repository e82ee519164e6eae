------------------------------- MODULE Rollout -------------------------------
(***************************************************************************)
(* scripts/deploy-release.sh: the operator's loop that upgrades and then   *)
(* verifies one host after another through the host's own daemon, and the  *)
(* upgrade script that each host runs in a unit of its own, with its       *)
(* rollback, beside the daemon, systemd and jobs that are being served.    *)
(***************************************************************************)
EXTENDS Naturals, Sequences

CONSTANTS
    NumHosts,       \* --hosts: 1 to NumHosts, in this order
    FaultyHosts     \* bound: the hosts where any command of a rollback may fail;
                    \* elsewhere only cp over a daemon that runs fails

ASSUME RolloutAssumption ==
    /\ NumHosts \in Nat \ {0}
    /\ FaultyHosts \subseteq Nat

Hosts == 1..NumHosts

\* /usr/local/bin/aiops-execd and the two helpers, in the order of the script.
Order == <<"daemon", "run", "root">>
Files == {"daemon", "run", "root"}
Helpers == {"run", "root"}

VARIABLES
    file,           \* what is installed: "old", "new" or "broken"
    sudoers,        \* the helpers whose hash /etc/sudoers.d/aiops-execd has
    backup,         \* backup_dir, files and sudoers
    unit,           \* the position of the upgrade script, with an index
    running,        \* the daemon process: "old", "new" or "down"
    stuck,          \* history: what a rollback failed to restore
    at,             \* the host the operator is at
    mode,           \* what the operator does there
    batch,          \* the host where the verification's job may run, or 0
    lastHash, expectedHash,
    passed          \* history: the hosts that passed their verification

hostVars == <<file, sudoers, backup, unit, running, stuck>>
operatorVars == <<at, mode, lastHash, expectedHash, passed>>
vars == <<hostVars, operatorVars, batch>>

Old == [daemon |-> "old", run |-> "old", root |-> "old"]
OldSudoers == [run |-> "old", root |-> "old"]

Init ==
    /\ file = [h \in Hosts |-> Old]
    /\ sudoers = [h \in Hosts |-> OldSudoers]
    /\ backup = [h \in Hosts |-> <<>>]
    /\ unit = [h \in Hosts |-> <<"none", 0>>]
    /\ running = [h \in Hosts |-> "old"]
    /\ stuck = [h \in Hosts |-> {}]
    /\ at = 1
    /\ mode = "start"
    /\ lastHash = "none" /\ expectedHash = "none"
    /\ passed = {}
    /\ batch = 0

\* sudo runs a helper only if its hash is the one in sudoers.
Admitted(h, f) == file[h][f] # "broken" /\ sudoers[h][f] = file[h][f]

\* probeChildViaSudo: sudo runs the helper, which reports success.
Probe(h, f) == Admitted(h, f)

\* -doctor with -doctor-probe.  What its static checks look at is not touched by
\* an upgrade, except a helper that is missing, which its probe fails for too.
RunDoctor(h) == \A f \in Helpers : Probe(h, f)

\* The daemon can run a command as root: the operator's only way in.
Serving(h) == running[h] # "down" /\ Admitted(h, "root")

Stage(h) == unit[h][1]

Go(h, stage, i) == unit' = [unit EXCEPT ![h] = <<stage, i>>]

-----------------------------------------------------------------------------
\* The upgrade script on host h.

\* Download, checksum and unpacking, or the failure of one of them.
Fetch(h) ==
    /\ Stage(h) = "fetch"
    /\ Go(h, "backup", 0) \/ Go(h, "failed", 0)
    /\ UNCHANGED <<file, sudoers, backup, running, batch, stuck>>

Backup(h) ==
    /\ Stage(h) = "backup"
    /\ \/ /\ backup' = [backup EXCEPT ![h] = <<file[h], sudoers[h]>>]
          /\ Go(h, "install", 1)
       \/ Go(h, "failed", 0) /\ UNCHANGED backup
    /\ UNCHANGED <<file, sudoers, running, batch, stuck>>

\* install replaces the file, so that the old one may go on being executed.
Install(h) ==
    /\ Stage(h) = "install"
    /\ LET i == unit[h][2] IN
          /\ file' = [file EXCEPT ![h][Order[i]] = "new"]
          /\ IF i < Len(Order) THEN Go(h, "install", i + 1) ELSE Go(h, "sudoers", 0)
    /\ UNCHANGED <<sudoers, backup, running, batch, stuck>>

\* The hashes are taken from the installed helpers.
WriteSudoers(h) ==
    /\ Stage(h) = "sudoers"
    /\ sudoers' = [sudoers EXCEPT ![h] = [f \in Helpers |-> file[h][f]]]
    /\ Go(h, "doctor", 0)
    /\ UNCHANGED <<file, backup, running, batch, stuck>>

\* -doctor, and -doctor-probe as aiopsd.
Doctor(h) ==
    /\ Stage(h) = "doctor"
    /\ RunDoctor(h)
    /\ Go(h, "restart", 0)
    /\ UNCHANGED <<file, sudoers, backup, running, batch, stuck>>

\* All processes of the service end, the jobs it runs included.
Ended(h) == batch' = IF batch = h THEN 0 ELSE batch

Restarted(h) ==
    /\ running' = [running EXCEPT ![h] =
                      IF file[h].daemon = "broken" THEN "down" ELSE file[h].daemon]
    /\ Ended(h)

\* systemctl restart fails before it has stopped the daemon, or after.
RestartFailed(h) ==
    \/ UNCHANGED <<running, batch>>
    \/ running' = [running EXCEPT ![h] = "down"] /\ Ended(h)

Restart(h) ==
    /\ Stage(h) = "restart"
    /\ Restarted(h)
    /\ Go(h, "settle", 0)
    /\ UNCHANGED <<file, sudoers, backup, stuck>>

IsActive(h) ==
    /\ Stage(h) = "settle"
    /\ running[h] # "down"
    /\ Go(h, "finished", 0)
    /\ UNCHANGED <<file, sudoers, backup, running, batch, stuck>>

\* A command fails after the backup, leaving a file that is missing or cut
\* short or as it was, and the EXIT trap calls rollback.
Broken(h) ==
    \/ Stage(h) \in {"doctor", "restart", "settle"} /\ UNCHANGED <<file, sudoers>>
    \/ /\ Stage(h) = "install"
       /\ \/ UNCHANGED file
          \/ file' = [file EXCEPT ![h][Order[unit[h][2]]] = "broken"]
       /\ UNCHANGED sudoers
    \/ /\ Stage(h) = "sudoers"
       /\ \/ UNCHANGED sudoers
          \/ sudoers' = [sudoers EXCEPT ![h] = [f \in Helpers |-> "broken"]]
       /\ UNCHANGED file

\* Mutant: rollback_needed is set once everything is installed.
FailBeforeSudoers(h) ==
    /\ Broken(h)
    /\ IF Stage(h) = "install" THEN Go(h, "failed", 0) ELSE Go(h, "restore", 1)
    /\ UNCHANGED <<backup, running, batch, stuck>>

Fail(h) ==
    /\ Broken(h)
    /\ IF Stage(h) = "restart" THEN RestartFailed(h) ELSE UNCHANGED <<running, batch>>
    /\ Go(h, "restore", 1)
    /\ UNCHANGED <<backup, stuck>>

\* The daemon executes what is installed, unless that was replaced.
Executed(h, f) == f = "daemon" /\ running[h] = file[h].daemon

Stuck(h, f) == stuck' = [stuck EXCEPT ![h] = @ \union {f}]

\* Under set +e the rollback goes on whatever fails.  cp cannot write a file that
\* is being executed ("Text file busy"), by the daemon or by a job, and leaves it;
\* on a full disk it cuts it short.
RestoreFile(h) ==
    /\ Stage(h) = "restore"
    /\ LET i == unit[h][2]  f == Order[i] IN
          /\ \/ /\ ~Executed(h, f)
                /\ file' = [file EXCEPT ![h][f] = backup[h][1][f]]
                /\ UNCHANGED stuck
             \/ /\ ~Executed(h, f)
                /\ h \in FaultyHosts
                /\ file' = [file EXCEPT ![h][f] = "broken"]
                /\ Stuck(h, f)
             \/ /\ Executed(h, f) \/ h \in FaultyHosts
                /\ UNCHANGED file
                /\ Stuck(h, f)
          /\ IF i < Len(Order) THEN Go(h, "restore", i + 1)
                               ELSE Go(h, "restore_sudoers", 0)
    /\ UNCHANGED <<sudoers, backup, running, batch>>

\* Mutant: the rollback forgets the sudoers file.
RestoreSudoersNot(h) ==
    /\ Stage(h) = "restore_sudoers"
    /\ Go(h, "restore_restart", 0)
    /\ UNCHANGED <<file, sudoers, backup, running, batch, stuck>>

\* The same for the sudoers file, and what visudo says of it is not looked at.
RestoreSudoers(h) ==
    /\ Stage(h) = "restore_sudoers"
    /\ \/ /\ sudoers' = [sudoers EXCEPT ![h] = backup[h][2]]
          /\ UNCHANGED stuck
       \/ /\ h \in FaultyHosts
          /\ \/ sudoers' = [sudoers EXCEPT ![h] = [f \in Helpers |-> "broken"]]
             \/ UNCHANGED sudoers
          /\ Stuck(h, "sudoers")
    /\ Go(h, "restore_restart", 0)
    /\ UNCHANGED <<file, backup, running, batch>>

RestoreRestart(h) ==
    /\ Stage(h) = "restore_restart"
    /\ Restarted(h) \/ (h \in FaultyHosts /\ RestartFailed(h))
    /\ Go(h, "rolled_back", 0)
    /\ UNCHANGED <<file, sudoers, backup, stuck>>

Upgrade(h) ==
    /\ \/ Fetch(h) \/ Backup(h) \/ Install(h) \/ WriteSudoers(h) \/ Doctor(h)
       \/ Restart(h) \/ IsActive(h) \/ Fail(h)
       \/ RestoreFile(h) \/ RestoreSudoers(h) \/ RestoreRestart(h)
    /\ UNCHANGED operatorVars

-----------------------------------------------------------------------------
\* The host meanwhile.

\* The new daemon may be flawed and exit, again and again.
DaemonExits(h) ==
    /\ running[h] = "new"
    /\ running' = [running EXCEPT ![h] = "down"]
    /\ Ended(h)
    /\ UNCHANGED <<file, sudoers, backup, unit, stuck, operatorVars>>

\* Restart=always.
Respawn(h) ==
    /\ running[h] = "down"
    /\ file[h].daemon # "broken"
    /\ Restarted(h)
    /\ UNCHANGED <<file, sudoers, backup, unit, stuck, operatorVars>>

-----------------------------------------------------------------------------
\* The operator's script.

Die ==
    /\ mode' = "died"
    /\ UNCHANGED <<at, lastHash, expectedHash, passed>>

StartDeploy ==
    /\ mode = "start"
    /\ Serving(at)
    /\ Go(at, "fetch", 0)
    /\ mode' = "hash"
    /\ UNCHANGED <<file, sudoers, backup, running, stuck, at, batch, lastHash,
                   expectedHash, passed>>

\* start_deploy fails before the unit is started, or its answer is lost.
StartDeployFails ==
    /\ mode = "start"
    /\ Go(at, "fetch", 0) \/ UNCHANGED unit
    /\ Die
    /\ UNCHANGED <<file, sudoers, backup, running, stuck, batch>>

\* Some time later, the script sleeps for 15 seconds whatever the unit does: the
\* batch is one job, which reads the hash before its doctor.
VerifyHash ==
    /\ mode = "hash"
    /\ Serving(at)
    /\ batch' = at
    /\ lastHash' = file[at].daemon
    /\ mode' = "doctor"
    /\ UNCHANGED <<hostVars, at, expectedHash, passed>>

\* Mutant: the loop goes one past the last host.
VerifyPastEnd ==
    /\ mode = "doctor"
    /\ batch = at
    /\ batch' = 0
    /\ RunDoctor(at)
    /\ expectedHash \in {"none", lastHash}
    /\ expectedHash' = lastHash
    /\ passed' = passed \union {at}
    /\ at' = at + 1
    /\ mode' = IF at < NumHosts THEN "start" ELSE "done"
    /\ UNCHANGED <<hostVars, lastHash>>

\* The batch was not cut off, its probe passes and the hash is the first host's:
\* on to the next host.
VerifyDoctor ==
    /\ mode = "doctor"
    /\ batch = at
    /\ batch' = 0
    /\ RunDoctor(at)
    /\ expectedHash \in {"none", lastHash}
    /\ expectedHash' = lastHash
    /\ passed' = passed \union {at}
    /\ IF at < NumHosts THEN at' = at + 1 /\ mode' = "start"
                              ELSE at' = at /\ mode' = "done"
    /\ UNCHANGED <<hostVars, lastHash>>

\* Mutant: a failed verification is reported and the next host is started.
VerifyFailsGoesOn ==
    /\ mode \in {"hash", "doctor"}
    /\ IF at < NumHosts THEN at' = at + 1 /\ mode' = "start"
                              ELSE at' = at /\ mode' = "died"
    /\ UNCHANGED <<hostVars, batch, lastHash, expectedHash, passed>>

\* The batch is refused, fails or is cut off, its answer is lost (it may still
\* run), or the hashes differ.
VerifyFails ==
    /\ mode \in {"hash", "doctor"}
    /\ Die
    /\ UNCHANGED <<hostVars, batch>>

Operator == StartDeploy \/ StartDeployFails \/ VerifyHash \/ VerifyDoctor \/ VerifyFails

Next ==
    \/ Operator
    \/ \E h \in Hosts : Upgrade(h) \/ DaemonExits(h) \/ Respawn(h)

Spec == Init /\ [][Next]_vars

\* The script in its unit and systemd go on.
Fairness == \A h \in Hosts : WF_vars(Upgrade(h)) /\ WF_vars(Respawn(h))

FairSpec == Spec /\ Fairness

-----------------------------------------------------------------------------
Versions == {"old", "new", "broken"}

Stages == {"none", "fetch", "backup", "install", "sudoers", "doctor", "restart",
           "settle", "finished", "failed", "restore", "restore_sudoers",
           "restore_restart", "rolled_back"}

\* The shape of the state.
TypeOK ==
    /\ file \in [Hosts -> [Files -> Versions]]
    /\ sudoers \in [Hosts -> [Helpers -> Versions]]
    /\ backup \in [Hosts -> {<<>>} \union ([Files -> Versions] \X [Helpers -> Versions])]
    /\ unit \in [Hosts -> Stages \X (0..Len(Order))]
    /\ \A h \in Hosts : Stage(h) \in {"install", "restore"} => unit[h][2] # 0
    /\ running \in [Hosts -> {"old", "new", "down"}]
    /\ stuck \in [Hosts -> SUBSET (Files \union {"sudoers"})]
    /\ at \in Hosts
    /\ mode \in {"start", "hash", "doctor", "done", "died"}
    /\ batch \in 0..NumHosts
    /\ {lastHash, expectedHash} \subseteq Versions \union {"none"}
    /\ passed \subseteq Hosts

AsBefore(h) == file[h] = Old /\ sudoers[h] = OldSudoers

\* An upgrade that has ended has replaced all four files by ones that match or,
\* wherever it failed, has left or restored all four, apart from those whose own
\* restoring failed: no failure keeps the rollback from the other files (lines
\* 127-143 and 175-200).
AllOrNothing ==
    \A h \in Hosts :
        /\ Stage(h) = "finished" => /\ \A f \in Files : file[h][f] = "new"
                                    /\ \A f \in Helpers : Admitted(h, f)
        /\ Stage(h) = "failed" => AsBefore(h)
        /\ Stage(h) = "rolled_back" =>
              /\ \A f \in Files \ stuck[h] : file[h][f] = "old"
              /\ "sudoers" \in stuck[h] \/ sudoers[h] = OldSudoers

\* The release reaches no host before all hosts in front of it have passed their
\* verification with one hash: if the rollout dies the later hosts are as before.
LaterHostsUntouched ==
    \A h \in Hosts : AsBefore(h) \/ 1..(h - 1) \subseteq passed

\* The hosts are reached through the daemon that is being replaced: whatever
\* fails, each runs commands as root again and again, also while a flawed daemon
\* keeps exiting, unless its rollback failed to restore the root helper or the
\* sudoers file, or left a daemon that cannot be started.
StaysReachable ==
    \A h \in Hosts :
        []<>(\/ Serving(h)
             \/ {"root", "sudoers"} \intersect stuck[h] # {}
             \/ "daemon" \in stuck[h] /\ file[h].daemon = "broken")
=============================================================================
