----------------------------- MODULE MC_IP2LocV6 -----------------------------
(***************************************************************************)
(* A small IPv6 database for IP2LocV6.  Bytes are 2 bits wide, an address *)
(* has 7 bytes (addresses 0..16383, v4-mapped ones 3840..4095), and the   *)
(* index table has one bucket per value of the first two bytes (16        *)
(* buckets of 1024 addresses).  The file is built with MkFile of           *)
(* MC_IP2LocLookup, addresses written as byte strings, least significant  *)
(* byte first.                                                             *)
(***************************************************************************)
EXTENDS IP2LocV6, MC_IP2LocLookup

\* the 7 bytes of an address, Byte[0] first, and their order in the file
MC_Addr(n) == [i \in 0..6 |-> (n \div 4^(6 - i)) % 4]
MC_AddrLE(n) == [j \in 1..7 |-> (n \div 4^(j - 1)) % 4]

(***************************************************************************)
(* Database V: type 1 (country only), 2 columns, an index table at offset *)
(* 31, four rows starting at 0, 3840 (the v4-mapped block), 4096 and 9000 *)
(* at offset 159 (11 bytes each), the closing row at 16383; the country   *)
(* strings sit at offset 10.                                               *)
(***************************************************************************)
V_Starts == <<0, 3840, 4096, 9000, 16383>>
V_RowOf(n) == CHOOSE r \in 0..3 : V_Starts[r + 1] <= n /\ n < V_Starts[r + 2]
V_Index == Merge([p \in {31 + 8 * b : b \in 0..15} |-> V_RowOf(((p - 31) \div 8) * 1024)],
                 [p \in {35 + 8 * b : b \in 0..15} |->
                    LET last == ((p - 35) \div 8) * 1024 + 1023
                    IN  V_RowOf(IF last < 16383 THEN last ELSE 16382)])
V_Rec == [p \in {166 + 11 * r : r \in 0..3} |-> 10 + 3 * ((p - 166) \div 11)]
V_Strings == Merge([o \in {10, 13, 16, 19} |-> <<2, 1 + ((o \div 3) % 3), 2>>],
                   [o \in {158 + 11 * r : r \in 0..4} |-> MC_AddrLE(V_Starts[(o - 158) \div 11 + 1])])
V_File == MkFile(215, Merge(V_Index, V_Rec), V_Strings)

\* V cut short before the last (most significant) byte of the closing row
VT_File == SubSeq(V_File, 1, 208)

\* the stack bytes an uninitialised in6_addr may hold: zeros, or an address
\* left by an earlier lookup
MC_Junk == {MC_Addr(0), MC_Addr(9500)}

\* the addresses looked up: the first and last of every 256, and the row
\* starts with their neighbours
MC_Addrs == {MC_Addr(n) : n \in {n \in 0..16383 : n % 256 \in {0, 255}}
                                \cup {V_Starts[r] + d : r \in 2..4, d \in {-1, 1}}}

=============================================================================
