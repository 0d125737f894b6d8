CONSTANTS
  Names <- MC_Names
  Addrs <- MC_Addrs
  HostsFiles <- MC_Files3
  AddrLists <- MC_AddrLists
  NULL = NULL
SPECIFICATION Spec



INVARIANT NameFound
