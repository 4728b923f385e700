SPECIFICATION Spec
CONSTANTS
  NPorts = 1
  QueueSize = 2
  AllowBusWait = TRUE
  Preemptive = TRUE
  ReadLatency = 1
  WriteLatency = 2
  PortReadLatency <- NoPortLatency
  PortWriteLatency <- NoPortLatency
  AddrBandwidth = 2
  DataBandwidth = 1
  CommonBandwidth = {}
  i1 = i1
  i2 = i2
  Instrs <- MCInstrs
  Lockers = {i1}
  FetchUnit = FetchUnit
  FetchPort = 0
  MaxRequestId = 4
  MaxUnlockDelay = 1
  NoRequest = NoRequest
INVARIANTS
  TypeOK
  FirstComeFirstServed
  WaitingOnlyWhenFull
  ClientsAgree
  LockExcludesOthers
  InactiveIsQuiet
