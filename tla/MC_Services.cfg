CONSTANTS
  Threads = {t1}
  SNames = {"a", "b"}
  LookupToks = {"udp", "tcp", "geek", NULL}
  Fallbacks <- MC_Fallbacks
  RawPorts = {1, 2}
  PortMod = 4
  Ports = {1, 2}
  ServicesFiles <- MC_ServicesFiles
  NULL = NULL
SPECIFICATION Spec
INVARIANT ServiceSound
INVARIANT AnyProtoFound
