SPECIFICATION FairSpec
CONSTANTS
  ctl = ctl
  launcher = launcher
  netcat = netcat
  Conns = {ctl, launcher, netcat}
  Script <- PoliteScript
  Reads = {ctl}
  Unterminated = {netcat}
  Impatient = {}
  BufSize = 4
  SockBuf = 1
CHECK_DEADLOCK FALSE
PROPERTIES
  RepliesMatch
  CommandsAreServed
  AnswersArrive
  TheLeftAreForgotten
