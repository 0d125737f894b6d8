------------------------------ MODULE MC_DNSBL ------------------------------
(***************************************************************************)
(* Model-checking instance of DNSBL: 3-bit addresses, prefixes /1../3     *)
(* accepted (MinPrefix 1 stands for the code's 8), two SBL references and *)
(* DROP/DROPv6 files chosen so that sorting has to move entries, networks *)
(* are given with host bits set, prefixes below MinPrefix are rejected,   *)
(* and (in MCDropFiles) one file lists a network nested in another.       *)
(***************************************************************************)
EXTENDS DNSBL

CONSTANTS r1, r2

MCBlockSize == [b \in 0..3 |-> 2^(3 - b)]

\* a "<net>/<bits> ; SBL<ref>" line, a line with no 'L', and a comment line
L(n, b, r) == [kind |-> "cidr", net |-> n, bits |-> b, ref |-> r]
NoMark(n, b) == [kind |-> "nomark", net |-> n, bits |-> b, ref |-> r1]
Junk == [kind |-> "junk"]

Absent == [present |-> FALSE]
Present(ls) == [present |-> TRUE, lines |-> ls]

\* DROP files whose networks do not overlap
MCDropFilesDisjoint ==
  { Absent,
    Present(<<Junk, L(4, 1, r1), L(1, 3, r2)>>),
    Present(<<L(6, 2, r2), L(3, 2, r1)>>),
    Present(<<L(5, 0, r2), L(3, 3, r1)>>) }

\* ... and one that lists 1/3 nested in 0/1
MCDropFiles ==
  MCDropFilesDisjoint \cup { Present(<<L(0, 1, r1), L(1, 3, r2), L(6, 2, r1)>>) }

MCDrop6Files ==
  { Absent,
    Present(<<Junk>>),
    Present(<<L(2, 2, r1), L(6, 1, r2)>>),
    Present(<<L(0, 0, r2), L(5, 3, r1)>>) }

\* a DROP file with a line that has no "; SBL" part
MCDropFilesNoMark == { Present(<<L(4, 1, r1), NoMark(1, 3)>>) }

MCSpecial == {0}
=============================================================================
