------------------------------ MODULE Requests ------------------------------
(***************************************************************************)
(* What handleRun makes of a decoded request (normalizeRequest in          *)
(* validation.go and the root check of server.go) under a configuration    *)
(* that Config.Validate lets pass.  Zero and empty stand for "not given".  *)
(* Texts are reduced to what is asked about them.                          *)
(***************************************************************************)
EXTENDS Integers

CONSTANTS
    Limits,             \* the limits of the configuration
    AllowAnyCwdForRoot,
    Directories,        \* the absolute paths that exist
    Resolve,            \* filepath.EvalSymlinks
    UserDirectories,    \* the resolved paths under an allowed prefix
    EnvAllow, EnvDeny,
    EnvKeys,            \* what envKeyRe matches
    ControlKeys         \* what controlKeyRe matches

Numbers == {"DefaultTimeoutSec", "MaxTimeoutSec", "DefaultWaitSec", "MaxWaitSec",
            "DefaultKillGraceSec", "DefaultStdoutBytes", "MaxStdoutBytes",
            "DefaultStdoutLogBytes", "MaxStdoutLogBytes",
            "DefaultStderrBytes", "MaxStderrBytes",
            "DefaultStderrLogBytes", "MaxStderrLogBytes"}

\* Config.Validate, which looks at the limits of time only.
Validate(limits) ==
    /\ limits.DefaultTimeoutSec \in 1..limits.MaxTimeoutSec
    /\ limits.DefaultWaitSec \in 0..limits.MaxWaitSec

ASSUME LimitsAssumption == Limits \in [Numbers -> Int] /\ Validate(Limits)

ASSUME SettingsAssumption ==
    /\ AllowAnyCwdForRoot \in BOOLEAN
    /\ Resolve \in [Directories -> Directories]
    /\ \A d \in Directories : Resolve[Resolve[d]] = Resolve[d]
    /\ UserDirectories \subseteq Directories
    /\ "" \notin Directories
    /\ Directories \union ControlKeys \subseteq STRING

\* A decoded request.  "long" is a text over its limit, "invalid" any other
\* name of a privilege or a mode, and env is the names that are set.
RawRequest ==
    [root : {"unset", "true", "false"},
     privilege : {"", "user", "root", "invalid"},
     mode : {"", "shell", "argv", "invalid"},
     command : {"", "given", "long"},
     stdin : {"", "given", "long"},
     longestValue : {"", "given", "long"},
     timeoutSec : Int, waitSec : Int, waitSecSet : BOOLEAN, killGraceSec : Int,
     maxStdoutBytes : Int, maxStdoutLogBytes : Int,
     maxStderrBytes : Int, maxStderrLogBytes : Int,
     cwd : STRING, env : SUBSET STRING, lockKey : STRING, idempotencyKey : STRING]

Default(value, default) == IF value = 0 THEN default ELSE value

\* root contradicts privilege.
Conflict(r) ==
    \/ r.root = "true" /\ r.privilege \notin {"", "root"}
    \/ r.root = "false" /\ r.privilege = "root"

Privilege(r) ==
    IF r.root = "true" THEN "root" ELSE IF r.privilege = "" THEN "user" ELSE r.privilege

NamedCwd(r) ==
    IF r.cwd # "" THEN r.cwd ELSE IF Privilege(r) = "root" THEN "/" ELSE "/tmp"

Cwd(r) ==
    IF NamedCwd(r) \in Directories THEN Resolve[NamedCwd(r)] ELSE NamedCwd(r)

Normalized(r) ==
    [root |-> r.root,
     privilege |-> Privilege(r),
     mode |-> IF r.mode = "" THEN "shell" ELSE r.mode,
     command |-> r.command,
     stdin |-> r.stdin,
     longestValue |-> r.longestValue,
     timeoutSec |-> Default(r.timeoutSec, Limits.DefaultTimeoutSec),
     waitSec |-> IF r.waitSecSet THEN r.waitSec
                 ELSE Default(r.waitSec, Limits.DefaultWaitSec),
     waitSecSet |-> r.waitSecSet,
     killGraceSec |-> Default(r.killGraceSec, Limits.DefaultKillGraceSec),
     maxStdoutBytes |-> Default(r.maxStdoutBytes, Limits.DefaultStdoutBytes),
     maxStdoutLogBytes |-> Default(r.maxStdoutLogBytes, Limits.DefaultStdoutLogBytes),
     maxStderrBytes |-> Default(r.maxStderrBytes, Limits.DefaultStderrBytes),
     maxStderrLogBytes |-> Default(r.maxStderrLogBytes, Limits.DefaultStderrLogBytes),
     cwd |-> Cwd(r),
     env |-> r.env,
     lockKey |-> r.lockKey,
     idempotencyKey |-> r.idempotencyKey]

\* The numbers of a normalized request are within the limits.
InLimits(n) ==
    /\ n.timeoutSec \in 1..Limits.MaxTimeoutSec
    /\ n.waitSec \in 0..Limits.MaxWaitSec
    /\ n.killGraceSec \in 1..30
    /\ n.maxStdoutBytes \in 0..Limits.MaxStdoutBytes
    /\ n.maxStdoutLogBytes \in n.maxStdoutBytes..Limits.MaxStdoutLogBytes
    /\ n.maxStderrBytes \in 0..Limits.MaxStderrBytes
    /\ n.maxStderrLogBytes \in n.maxStderrBytes..Limits.MaxStderrLogBytes

\* normalizeCwd, validateEnv and validateControlKey.
CwdAllowed(n) ==
    /\ n.cwd \in Directories
    /\ n.cwd \in UserDirectories \/ (n.privilege = "root" /\ AllowAnyCwdForRoot)

EnvValid(n) ==
    /\ n.env \subseteq EnvKeys \ EnvDeny
    /\ n.longestValue # "long"
    /\ EnvAllow # {} => n.env \subseteq EnvAllow

KeysValid(n) == {n.lockKey, n.idempotencyKey} \subseteq ControlKeys \union {""}

Valid(n) ==
    /\ n.privilege \in {"user", "root"}
    /\ n.mode \in {"shell", "argv"}
    /\ n.command = "given"
    /\ n.stdin # "long"
    /\ InLimits(n)
    /\ CwdAllowed(n)
    /\ EnvValid(n)
    /\ KeysValid(n)

\* normalizeRequest returns no error; the job then is for Normalized(r).
Accepted(r) == ~Conflict(r) /\ Valid(Normalized(r))

\* The root check that follows it in handleRun.
Permitted(r, allowRoot) == Normalized(r).privilege = "root" => allowRoot

\* A request of nothing but a command.
Bare == [root |-> "unset", privilege |-> "", mode |-> "", command |-> "given",
         stdin |-> "", longestValue |-> "", timeoutSec |-> 0, waitSec |-> 0, waitSecSet |-> FALSE,
         killGraceSec |-> 0, maxStdoutBytes |-> 0, maxStdoutLogBytes |-> 0,
         maxStderrBytes |-> 0, maxStderrLogBytes |-> 0,
         cwd |-> "", env |-> {}, lockKey |-> "", idempotencyKey |-> ""]

\* The limits of DefaultConfig.
DefaultLimits ==
    [DefaultTimeoutSec |-> 30, MaxTimeoutSec |-> 300, DefaultWaitSec |-> 25,
     MaxWaitSec |-> 60, DefaultKillGraceSec |-> 3,
     DefaultStdoutBytes |-> 262144, MaxStdoutBytes |-> 1048576,
     DefaultStdoutLogBytes |-> 1048576, MaxStdoutLogBytes |-> 16777216,
     DefaultStderrBytes |-> 262144, MaxStderrBytes |-> 1048576,
     DefaultStderrLogBytes |-> 1048576, MaxStderrLogBytes |-> 16777216]

TmpAllowed == "/tmp" \in Directories /\ Resolve["/tmp"] \in UserDirectories

\* What Validate does not ask of a configuration.
DefaultsInLimits ==
    /\ Limits.DefaultKillGraceSec \in 1..30
    /\ Limits.DefaultStdoutBytes \in 0..Limits.MaxStdoutBytes
    /\ Limits.DefaultStdoutLogBytes \in Limits.DefaultStdoutBytes..Limits.MaxStdoutLogBytes
    /\ Limits.DefaultStderrBytes \in 0..Limits.MaxStderrBytes
    /\ Limits.DefaultStderrLogBytes \in Limits.DefaultStderrBytes..Limits.MaxStderrLogBytes
=============================================================================
