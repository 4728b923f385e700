SPECIFICATION FairSpec
CONSTANTS
  NPorts = 2
  QueueSize = 1
  AllowBusWait = TRUE
  Preemptive = FALSE
  ReadLatency = 1
  WriteLatency = 2
  PortReadLatency <- SlowSecondPort
  PortWriteLatency <- NoPortLatency
  AddrBandwidth = 2
  DataBandwidth = 1
  CommonBandwidth = {1}
  i1 = i1
  i2 = i2
  Instrs <- MCInstrs
  Lockers = {}
  FetchUnit = FetchUnit
  FetchPort = 1
  MaxRequestId = 3
  MaxUnlockDelay = 1
  NoRequest = NoRequest
PROPERTY
  RequestsEnd
