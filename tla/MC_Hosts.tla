------------------------------ MODULE MC_Hosts ------------------------------
(***************************************************************************)
(* Hosts files of up to three lines over two names and two addresses, and *)
(* lookups of either name with one or two addresses.                       *)
(***************************************************************************)
EXTENDS Hosts

MC_Names == {1, 2}
MC_Addrs == {1, 2}

\* every file of at most MaxLines lines, and the absent file
MC_HostsFiles(maxLines) ==
  {[present |-> FALSE]}
    \cup {[present |-> TRUE, lines |-> s] : s \in UNION {[1..n -> Line] : n \in 0..maxLines}}

MC_Files3 == MC_HostsFiles(3)

MC_AddrLists == {<<1>>, <<2>>, <<1, 2>>}

=============================================================================
