--------------------------- MODULE MC_IP2LocLookup ---------------------------
(***************************************************************************)
(* Small databases for IP2LocLookup.  Bytes are 2 bits wide, so a uint32  *)
(* is 8 bits, addresses are 0..255 and the index table (one bucket per    *)
(* value of the top half of the address) has 16 buckets of 16 addresses. *)
(* A file is built from u32 words at 1-based offsets and length-prefixed  *)
(* strings at 0-based offsets, as the .bin format places them.            *)
(***************************************************************************)
EXTENDS IP2LocLookup

\* the little-endian bytes of a word
WordBytes(v) == [j \in 1..4 |-> (v \div (4^(j - 1))) % 4]

MkFile(size, words, strs) ==
  [i \in 1..size |->
     LET z  == i - 1
         ws == {p \in DOMAIN words : p - 1 <= z /\ z <= p + 2}
         ss == {o \in DOMAIN strs : o <= z /\ z < o + Len(strs[o])}
     IN  IF ws # {} THEN LET p == CHOOSE q \in ws : TRUE IN WordBytes(words[p])[z - p + 2]
         ELSE IF ss # {} THEN LET o == CHOOSE q \in ss : TRUE IN strs[o][z - o + 1]
         ELSE 0]

\* a function from the union of two disjoint domains
Merge(f, g) == [x \in DOMAIN f \cup DOMAIN g |-> IF x \in DOMAIN f THEN f[x] ELSE g[x]]

(***************************************************************************)
(* Database A: type 3 (country, region, city), 4 columns, an index table  *)
(* at offset 31, three rows starting at 0, 70 and 150 at offset 159, the  *)
(* closing row at 255, then the strings.  Row 2's country code has a NUL  *)
(* second character.                                                       *)
(***************************************************************************)
A_Starts == <<0, 70, 150, 255>>
A_RowOf(k) == CHOOSE r \in 0..2 : A_Starts[r + 1] <= k /\ k < A_Starts[r + 2]
A_Index == Merge([p \in {31 + 8 * b : b \in 0..15} |-> A_RowOf(((p - 31) \div 8) * 16)],
                 [p \in {35 + 8 * b : b \in 0..15} |->
                    A_RowOf(IF ((p - 35) \div 8) * 16 + 15 < 255 THEN ((p - 35) \div 8) * 16 + 15 ELSE 254)])
A_Rows == Merge([p \in {159 + 16 * r : r \in 0..3} |-> A_Starts[(p - 159) \div 16 + 1]],
          Merge([p \in {163 + 16 * r : r \in 0..2} |-> 222 + 3 * ((p - 163) \div 16)],
          Merge([p \in {167 + 16 * r : r \in 0..2} |-> 231],
                [p \in {171 + 16 * r : r \in 0..2} |-> 233])))
A_Strings == [o \in {222, 225, 228, 231, 233} |->
                CASE o = 222 -> <<2, 1, 2>> [] o = 225 -> <<2, 3, 1>> [] o = 228 -> <<2, 2, 0>>
                  [] o = 231 -> <<1, 1>> [] o = 233 -> <<1, 2>>]
A_File == MkFile(235, Merge(A_Index, A_Rows), A_Strings)

(***************************************************************************)
(* Database B: type 1 (country only), 2 columns, no index table, four     *)
(* rows starting at 0, 40, 41 and 200 at offset 31 and the closing row.   *)
(* Row 1's country code is one character long.                            *)
(***************************************************************************)
B_Starts(first, last) == <<first, 40, 41, 200, last>>
B_Words(first, last) ==
  Merge([p \in {31 + 8 * r : r \in 0..4} |-> B_Starts(first, last)[(p - 31) \div 8 + 1]],
        [p \in {35 + 8 * r : r \in 0..3} |-> 70 + 3 * ((p - 35) \div 8)])
B_Strings == [o \in {70, 73, 76, 79} |->
                CASE o = 70 -> <<2, 1, 1>> [] o = 73 -> <<1, 2, 0>>
                  [] o = 76 -> <<2, 3, 3>> [] o = 79 -> <<2, 1, 3>>]
B_File == MkFile(82, B_Words(0, 255), B_Strings)

\* database B with a first row that starts at 5 and a closing row at 250:
\* addresses 0..4 and 250..255 are in no row
C_File == MkFile(82, B_Words(5, 250), B_Strings)

\* the mapping as a process attaching to it sees it before its creator has
\* copied the file in: st_size zero bytes, and a header of zeros
Z_File == [i \in 1..82 |-> 0]

\* A cut short at the closing row's start
T_File == SubSeq(A_File, 1, 209)


(***************************************************************************)
(* The same files as byte literals, which TLC reads without rebuilding    *)
(* them; the assumptions check each against its layout above.            *)
(***************************************************************************)
A_Bytes ==
  <<0, 0, 0, 0, 0, 0, 0, 0, 0, 0, 0, 0, 0, 0, 0, 0, 0, 0, 0, 0, 0, 0, 0, 0, 0, 0, 0, 0, 0, 0, 0, 0, 0, 0, 0, 0, 0, 0, 0, 0,
   0, 0, 0, 0, 0, 0, 0, 0, 0, 0, 0, 0, 0, 0, 0, 0, 0, 0, 0, 0, 0, 0, 0, 0, 0, 0, 1, 0, 0, 0, 1, 0, 0, 0, 1, 0, 0, 0, 1, 0,
   0, 0, 1, 0, 0, 0, 1, 0, 0, 0, 1, 0, 0, 0, 1, 0, 0, 0, 1, 0, 0, 0, 1, 0, 0, 0, 2, 0, 0, 0, 2, 0, 0, 0, 2, 0, 0, 0, 2, 0,
   0, 0, 2, 0, 0, 0, 2, 0, 0, 0, 2, 0, 0, 0, 2, 0, 0, 0, 2, 0, 0, 0, 2, 0, 0, 0, 2, 0, 0, 0, 2, 0, 0, 0, 2, 0, 0, 0, 0, 0,
   0, 0, 2, 3, 1, 3, 3, 1, 2, 3, 1, 2, 2, 3, 2, 1, 0, 1, 1, 0, 2, 3, 3, 1, 2, 3, 1, 2, 2, 3, 2, 1, 1, 2, 0, 1, 2, 3, 3, 1,
   2, 3, 1, 2, 2, 3, 3, 3, 3, 3, 0, 0, 0, 0, 0, 0, 0, 0, 0, 0, 0, 0, 2, 1, 2, 2, 3, 1, 2, 2, 0, 1, 1, 1, 2>>

B_Bytes ==
  <<0, 0, 0, 0, 0, 0, 0, 0, 0, 0, 0, 0, 0, 0, 0, 0, 0, 0, 0, 0, 0, 0, 0, 0, 0, 0, 0, 0, 0, 0, 0, 0, 0, 0, 2, 1, 0, 1, 0, 2,
   2, 0, 1, 2, 0, 1, 1, 2, 2, 0, 0, 3, 0, 1, 0, 2, 0, 3, 3, 3, 0, 1, 3, 3, 3, 3, 0, 0, 0, 0, 2, 1, 1, 1, 2, 0, 2, 3, 3, 2,
   1, 3>>

C_Bytes ==
  <<0, 0, 0, 0, 0, 0, 0, 0, 0, 0, 0, 0, 0, 0, 0, 0, 0, 0, 0, 0, 0, 0, 0, 0, 0, 0, 0, 0, 0, 0, 1, 1, 0, 0, 2, 1, 0, 1, 0, 2,
   2, 0, 1, 2, 0, 1, 1, 2, 2, 0, 0, 3, 0, 1, 0, 2, 0, 3, 3, 3, 0, 1, 2, 2, 3, 3, 0, 0, 0, 0, 2, 1, 1, 1, 2, 0, 2, 3, 3, 2,
   1, 3>>

T_Bytes ==
  <<0, 0, 0, 0, 0, 0, 0, 0, 0, 0, 0, 0, 0, 0, 0, 0, 0, 0, 0, 0, 0, 0, 0, 0, 0, 0, 0, 0, 0, 0, 0, 0, 0, 0, 0, 0, 0, 0, 0, 0,
   0, 0, 0, 0, 0, 0, 0, 0, 0, 0, 0, 0, 0, 0, 0, 0, 0, 0, 0, 0, 0, 0, 0, 0, 0, 0, 1, 0, 0, 0, 1, 0, 0, 0, 1, 0, 0, 0, 1, 0,
   0, 0, 1, 0, 0, 0, 1, 0, 0, 0, 1, 0, 0, 0, 1, 0, 0, 0, 1, 0, 0, 0, 1, 0, 0, 0, 2, 0, 0, 0, 2, 0, 0, 0, 2, 0, 0, 0, 2, 0,
   0, 0, 2, 0, 0, 0, 2, 0, 0, 0, 2, 0, 0, 0, 2, 0, 0, 0, 2, 0, 0, 0, 2, 0, 0, 0, 2, 0, 0, 0, 2, 0, 0, 0, 2, 0, 0, 0, 0, 0,
   0, 0, 2, 3, 1, 3, 3, 1, 2, 3, 1, 2, 2, 3, 2, 1, 0, 1, 1, 0, 2, 3, 3, 1, 2, 3, 1, 2, 2, 3, 2, 1, 1, 2, 0, 1, 2, 3, 3, 1,
   2, 3, 1, 2, 2, 3, 3, 3, 3>>

Z_Bytes ==
  <<0, 0, 0, 0, 0, 0, 0, 0, 0, 0, 0, 0, 0, 0, 0, 0, 0, 0, 0, 0, 0, 0, 0, 0, 0, 0, 0, 0, 0, 0, 0, 0, 0, 0, 0, 0, 0, 0, 0, 0,
   0, 0, 0, 0, 0, 0, 0, 0, 0, 0, 0, 0, 0, 0, 0, 0, 0, 0, 0, 0, 0, 0, 0, 0, 0, 0, 0, 0, 0, 0, 0, 0, 0, 0, 0, 0, 0, 0, 0, 0,
   0, 0>>

ASSUME BytesMatchLayout ==
  /\ A_Bytes = A_File /\ B_Bytes = B_File /\ C_Bytes = C_File
  /\ T_Bytes = T_File /\ Z_Bytes = Z_File

MC_FieldSize == [f \in {"country_short", "country_long", "region", "city"} |->
                   IF f = "country_short" THEN 3 ELSE 40]
MC_Mode == {"country_short", "region", "city"}

=============================================================================
