SPECIFICATION FairSpec
CONSTANTS
  ctl = ctl
  launcher = launcher
  netcat = netcat
  Conns = {ctl, launcher}
  Script <- AskScript
  Reads = {ctl}
  Unterminated = {}
  Impatient = {ctl}
  BufSize = 4
  SockBuf = 2
CHECK_DEADLOCK FALSE
PROPERTIES
  ErrorsAreIgnored
