CONSTANTS
  Threads = {t1, t2}
  SNames = {"a", "b"}
  LookupToks = {"udp", "tcp", "geek", NULL}
  Fallbacks <- MC_Fallbacks
  RawPorts = {1, 2}
  PortMod = 4
  Ports = {1, 2}
  ServicesFiles <- MC_TwoFiles
  NULL = NULL
SPECIFICATION Spec


INVARIANT ReadOwnResult
