SPECIFICATION FairOutputSpec
CONSTANTS
  Background = TRUE
  KillReaches = {"nothing", "sudo", "helper"}
  Limits <- SmallLimits
  AllowAnyCwdForRoot = TRUE
  Directories <- Tmp
  Resolve <- NoLinks
  UserDirectories <- Tmp
  EnvAllow = {}
  EnvDeny = {}
  EnvKeys = {}
  ControlKeys = {}
  RawRequests <- LimitRequests
  PipeSize = 2
  DiskFills = TRUE
  MaxWritten = 3
INVARIANTS OutputTypeOK QuietWhenReturned OutcomeIsTrue ReapedBeforeReport FlagsAreTrue OutputAccounted
PROPERTIES ReturnsUnlessHeld TimeoutOutlivesCancel
CHECK_DEADLOCK FALSE
