--------------------------- MODULE RequestsProofs ---------------------------
(***************************************************************************)
(* normalizeRequest for every configuration and every request.             *)
(***************************************************************************)
EXTENDS Requests, TLAPS

\* The limits are numbers.
LEMMA LimitsAreInts == \A i \in Numbers : Limits[i] \in Int
  BY LimitsAssumption

\* An accepted request may be sent again as it was normalized: it is accepted
\* and unchanged, so that a client may repeat what the daemon recorded, and
\* normalizing has left nothing to be defaulted (normalizeRequest 19-126).
THEOREM NormalizeTwice ==
    ASSUME NEW r \in RawRequest, Accepted(r)
    PROVE  /\ Normalized(Normalized(r)) = Normalized(r)
           /\ Accepted(Normalized(r))
<1> DEFINE n == Normalized(r)
<1>1. /\ n.privilege \in {"user", "root"} /\ n.mode \in {"shell", "argv"}
      /\ n.cwd = Cwd(r) /\ n.cwd \in Directories
  BY DEF Accepted, Valid, CwdAllowed, Normalized
<1>2. Privilege(n) = n.privilege /\ ~Conflict(n)
  <2>1. n.root = r.root /\ n.privilege = Privilege(r)
    BY DEF Normalized
  <2>2. CASE r.root = "true"
    BY <2>1, <2>2 DEF Privilege, Conflict
  <2>3. CASE r.root # "true"
    BY <1>1, <2>1, <2>3 DEF Privilege, Conflict, Accepted
  <2> QED
    BY <2>2, <2>3
<1>3. /\ (IF n.mode = "" THEN "shell" ELSE n.mode) = n.mode
      /\ Cwd(n) = n.cwd
  <2>1. NamedCwd(r) \in Directories
    BY <1>1 DEF Cwd
  <2>2. n.cwd = Resolve[NamedCwd(r)] /\ Resolve[n.cwd] = n.cwd
    BY <1>1, <2>1, SettingsAssumption DEF Cwd
  <2>3. n.cwd # "" => NamedCwd(n) = n.cwd
    BY DEF NamedCwd
  <2>4. n.cwd # ""
    BY <1>1, SettingsAssumption
  <2> HIDE DEF n
  <2> QED
    BY <1>1, <2>2, <2>3, <2>4 DEF Cwd
<1>4. Normalized(n) = n
  <2>1. /\ Default(n.timeoutSec, Limits.DefaultTimeoutSec) = n.timeoutSec
        /\ Default(n.killGraceSec, Limits.DefaultKillGraceSec) = n.killGraceSec
        /\ Default(n.maxStdoutBytes, Limits.DefaultStdoutBytes) = n.maxStdoutBytes
        /\ Default(n.maxStdoutLogBytes, Limits.DefaultStdoutLogBytes) = n.maxStdoutLogBytes
        /\ Default(n.maxStderrBytes, Limits.DefaultStderrBytes) = n.maxStderrBytes
        /\ Default(n.maxStderrLogBytes, Limits.DefaultStderrLogBytes) = n.maxStderrLogBytes
    BY DEF Default, Normalized
  <2>2. (IF n.waitSecSet THEN n.waitSec
         ELSE Default(n.waitSec, Limits.DefaultWaitSec)) = n.waitSec
    BY DEF Default, Normalized
  <2> DEFINE again ==
        [root |-> n.root, privilege |-> n.privilege, mode |-> n.mode,
         command |-> n.command, stdin |-> n.stdin, longestValue |-> n.longestValue,
         timeoutSec |-> n.timeoutSec, waitSec |-> n.waitSec, waitSecSet |-> n.waitSecSet,
         killGraceSec |-> n.killGraceSec, maxStdoutBytes |-> n.maxStdoutBytes,
         maxStdoutLogBytes |-> n.maxStdoutLogBytes, maxStderrBytes |-> n.maxStderrBytes,
         maxStderrLogBytes |-> n.maxStderrLogBytes, cwd |-> n.cwd, env |-> n.env,
         lockKey |-> n.lockKey, idempotencyKey |-> n.idempotencyKey]
  <2>3. again = n
    BY DEF Normalized
  <2> HIDE DEF n
  <2>4. Normalized(n) = again
    BY <1>2, <1>3, <2>1, <2>2 DEF Normalized
  <2> QED
    BY <2>3, <2>4
<1> QED
  BY <1>2, <1>4 DEF Accepted

\* An accepted request stays within the limits of the configuration; in
\* particular stdout.log and stderr.log may hold all that the answer may (lines
\* 69-110).
THEOREM AcceptedInLimits ==
    ASSUME NEW r \in RawRequest, Accepted(r)
    PROVE  /\ InLimits(Normalized(r))
           /\ Normalized(r).maxStdoutBytes <= Normalized(r).maxStdoutLogBytes
           /\ Normalized(r).maxStderrBytes <= Normalized(r).maxStderrLogBytes
           /\ Normalized(r).maxStdoutBytes \in Nat
           /\ Normalized(r).maxStderrBytes \in Nat
<1> DEFINE n == Normalized(r)
<1>1. InLimits(n)
  BY DEF Accepted, Valid
<1>2. /\ n.maxStdoutBytes \in Int /\ n.maxStdoutLogBytes \in Int
      /\ n.maxStderrBytes \in Int /\ n.maxStderrLogBytes \in Int
  BY LimitsAreInts DEF RawRequest, Normalized, Default, Numbers
<1>3. /\ Limits.MaxStdoutBytes \in Int /\ Limits.MaxStdoutLogBytes \in Int
      /\ Limits.MaxStderrBytes \in Int /\ Limits.MaxStderrLogBytes \in Int
  BY LimitsAreInts DEF Numbers
<1> HIDE DEF n
<1>4. /\ n.maxStdoutBytes <= n.maxStdoutLogBytes /\ n.maxStdoutBytes \in Nat
      /\ n.maxStderrBytes <= n.maxStderrLogBytes /\ n.maxStderrBytes \in Nat
  BY <1>1, <1>2, <1>3 DEF InLimits
<1> QED
  BY <1>1, <1>4 DEF n

\* A request for root that a token without allow_root may not make is refused
\* however it is put: by root, by privilege or by both.
THEOREM RootIsPermitted ==
    ASSUME NEW r \in RawRequest, Accepted(r), NEW allowRoot \in BOOLEAN,
           Permitted(r, allowRoot),
           r.root = "true" \/ r.privilege = "root"
    PROVE  allowRoot
<1>1. Normalized(r).privilege = "root"
  BY DEF Accepted, Normalized, Privilege, Conflict
<1> QED
  BY <1>1 DEF Permitted

\* A bare command is accepted under a configuration if and only if its defaults
\* are in its limits and users may be in /tmp: Validate asks the former of the
\* timeout and of wait_sec only (config.go 191-199).
THEOREM BareAccepted ==
    Accepted(Bare) <=> DefaultsInLimits /\ TmpAllowed
<1>1. /\ Normalized(Bare).privilege = "user"
      /\ Normalized(Bare).mode = "shell"
      /\ Normalized(Bare).cwd = Cwd(Bare)
      /\ Normalized(Bare).timeoutSec = Limits.DefaultTimeoutSec
      /\ Normalized(Bare).waitSec = Limits.DefaultWaitSec
      /\ Normalized(Bare).killGraceSec = Limits.DefaultKillGraceSec
      /\ Normalized(Bare).maxStdoutBytes = Limits.DefaultStdoutBytes
      /\ Normalized(Bare).maxStdoutLogBytes = Limits.DefaultStdoutLogBytes
      /\ Normalized(Bare).maxStderrBytes = Limits.DefaultStderrBytes
      /\ Normalized(Bare).maxStderrLogBytes = Limits.DefaultStderrLogBytes
      /\ Normalized(Bare).command = "given"
      /\ Normalized(Bare).stdin = "" /\ Normalized(Bare).longestValue = ""
      /\ Normalized(Bare).env = {}
      /\ Normalized(Bare).lockKey = "" /\ Normalized(Bare).idempotencyKey = ""
  BY DEF Bare, Normalized, Privilege, Default
<1>2. InLimits(Normalized(Bare)) <=> DefaultsInLimits
  BY <1>1, LimitsAssumption DEF Validate, InLimits, DefaultsInLimits, Numbers
<1>3. CwdAllowed(Normalized(Bare)) <=> TmpAllowed
  <2>1. NamedCwd(Bare) = "/tmp"
    BY DEF Bare, NamedCwd, Privilege
  <2>2. CASE "/tmp" \in Directories
    BY <1>1, <2>1, <2>2, SettingsAssumption DEF CwdAllowed, Cwd, TmpAllowed
  <2>3. CASE "/tmp" \notin Directories
    BY <1>1, <2>1, <2>3 DEF CwdAllowed, Cwd, TmpAllowed
  <2> QED
    BY <2>2, <2>3
<1>4. EnvValid(Normalized(Bare)) /\ KeysValid(Normalized(Bare)) /\ ~Conflict(Bare)
  BY <1>1 DEF EnvValid, KeysValid, Conflict, Bare
<1> QED
  BY <1>1, <1>2, <1>3, <1>4 DEF Accepted, Valid

\* The limits the daemon has by default pass Validate, and with them a bare
\* command is accepted (DefaultConfig, config.go 113-132).
COROLLARY DefaultsAcceptBare ==
    /\ Validate(DefaultLimits)
    /\ Limits = DefaultLimits /\ TmpAllowed => Accepted(Bare)
<1>1. Validate(DefaultLimits)
  BY DEF Validate, DefaultLimits
<1>2. Limits = DefaultLimits => DefaultsInLimits
  BY DEF DefaultsInLimits, DefaultLimits
<1> QED
  BY <1>1, <1>2, BareAccepted
=============================================================================
