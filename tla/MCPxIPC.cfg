SPECIFICATION Spec
CONSTANTS
  ctl = ctl
  launcher = launcher
  netcat = netcat
  Conns = {ctl, launcher, netcat}
  Script <- RudeScript
  Reads = {ctl}
  Unterminated = {launcher}
  Impatient = {ctl}
  BufSize = 4
  SockBuf = 2
CHECK_DEADLOCK FALSE
INVARIANTS
  TypeOK
  Framing
