SPECIFICATION FairSpec
CHECK_DEADLOCK FALSE
CONSTANTS
  p1 = p1
  p2 = p2
  p3 = p3
  daemon = daemon
  echo = echo
  Process = {p1, p2, p3, daemon, echo}
  Group <- Groups
  Daemon = {daemon}
  Pseudo = {echo}
  Input = {p1, p2, daemon}
  NoShell = {p2}
INVARIANT TypeOK
INVARIANT OneAfterTheOther
PROPERTY ImplementsAction
PROPERTY StoppedEnds
