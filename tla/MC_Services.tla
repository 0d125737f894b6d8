---------------------------- MODULE MC_Services ----------------------------
(***************************************************************************)
(* One services file of up to three lines over one name, two ports and   *)
(* the protocol fields udp, tcp, udp/tcp and an unknown protocol, or no   *)
(* file configured; ports are taken modulo 4.                              *)
(***************************************************************************)
EXTENDS Services

MC_Toks == {{"udp"}, {"tcp"}, {"udp", "tcp"}, {"geek"}}
MC_Line == [kind : {"ok"}, name : {"a"}, port : RawPorts, toks : MC_Toks] \cup [kind : {"bad"}]

MC_Files(maxLines) ==
  {[present |-> FALSE]}
    \cup {[present |-> TRUE, lines |-> s] : s \in UNION {[1..n -> MC_Line] : n \in 0..maxLines}}

MC_Fallbacks == {<<FALSE, FALSE>>, <<TRUE, FALSE>>, <<TRUE, TRUE>>}

MC_ServicesFiles == {<<>>} \cup {<<f>> : f \in MC_Files(3)}

\* the Windows services file and Wireshark's: "domain 53/tcp", "domain 53/udp", then "domain 53/tcp/udp"
MC_TwoFiles ==
  {<< [present |-> TRUE, lines |-> << [kind |-> "ok", name |-> "a", port |-> 1, toks |-> {"tcp"}],
                                      [kind |-> "ok", name |-> "a", port |-> 1, toks |-> {"udp"}] >>],
      [present |-> TRUE, lines |-> << [kind |-> "ok", name |-> "b", port |-> 1, toks |-> {"tcp", "udp"}] >>] >>}

=============================================================================
