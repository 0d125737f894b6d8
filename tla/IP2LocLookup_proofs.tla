------------------------- MODULE IP2LocLookup_proofs ------------------------
(***************************************************************************)
(* Proof that the IPv4 lookup of ip2loc.c (ip2loc_get_ipv4_entry() and    *)
(* the binary search of IP2Location_get_ipv4_record()) returns the row     *)
(* holding the address on every well-formed database, for every byte      *)
(* width, file, header and index table.                                    *)
(*                                                                         *)
(* The argument: the row starts of a well-formed table ascend, so every    *)
(* searched number lies in exactly one row (RowOf).  That row stays inside *)
(* the window [low, high] of the loop: the index table brackets it, and    *)
(* each probe that misses moves a bound past mid only on the side the row  *)
(* is not on.  The uint32 arithmetic never wraps inside a well-formed     *)
(* table, so the row read at mid is RowStart(mid).                         *)
(***************************************************************************)
EXTENDS IP2LocLookup, WellFoundedInduction, SequenceTheorems, TLAPS


\* the width of a row in bytes: column = dbcolumn * 4
Col == DbColumn * 4

-----------------------------------------------------------------------------
(***************************************************************************)
(* A non-empty set of naturals has a least element, from the               *)
(* well-foundedness of < on Nat.                                           *)
(***************************************************************************)
LEMMA NatMin ==
  ASSUME NEW T \in SUBSET Nat, T # {}
  PROVE  \E m \in T : \A y \in T : m <= y
<1>1. \E x \in T : \A y \in T : ~(<<y, x>> \in OpToRel(<, Nat))
  BY NatLessThanWellFounded, WFMin
<1>2. \A x, y \in Nat : ~(<<y, x>> \in OpToRel(<, Nat)) => x <= y
  BY DEF OpToRel
<1>. QED
  BY <1>1, <1>2

\* the word and the file: a uint32_t holds every offset of the file
LEMMA FileBasics ==
  /\ Word \in Nat \ {0} /\ Size \in Nat /\ Size < Word
  /\ \A i \in 1..Size : Mem[i] \in Nat
<1>1. Word \in Nat \ {0}
  BY PowerAssumption
<1>2. File \in Seq(0..(Byte - 1)) /\ Len(File) < Word
  BY FileAssumption
<1>3. \A i \in 1..Len(File) : File[i] \in Nat
  <2>1. Byte \in Nat
    BY PowerAssumption
  <2>2. \A i \in 1..Len(File) : File[i] \in 0..(Byte - 1)
    BY <1>2, ElementOfSeq
  <2>. QED
    BY <2>1, <2>2
<1>. QED
  BY <1>1, <1>2, <1>3 DEF Size, Mem

\* the powers of the byte that weigh the bytes of a word are naturals
LEMMA BytePowers == {Byte, Byte^2, Byte^3} \subseteq Nat
BY PowerAssumption

\* the header fields are naturals
LEMMA HeaderNat ==
  /\ {V4Count, V4Base, V4Index} \subseteq Nat
  /\ DbColumn \in 0..255
BY HeaderAssumption

(***************************************************************************)
(* What a well-formed table says of the header and the file size.         *)
(***************************************************************************)
LEMMA WellFormedBounds ==
  ASSUME WellFormedV4
  PROVE  /\ V4Count \in Nat \ {0} /\ DbColumn \in 1..255 /\ V4Base \in Nat \ {0}
         /\ Size \in Nat /\ Size < Word
         /\ V4Base + V4Count * Col + 3 <= Size
         /\ MaxIPv4 \in Nat /\ MaxIPv4 >= 1
BY HeaderNat, FileBasics DEF WellFormedV4, Col, MaxIPv4

LEMMA FileWordNat ==
  ASSUME NEW p \in Int
  PROVE  FileWord(p) \in Nat
<1>1. CASE p >= 1 /\ p + 3 <= Size
  <2>1. {Mem[p], Mem[p + 1], Mem[p + 2], Mem[p + 3]} \subseteq Nat
    BY <1>1, FileBasics
  <2>. QED
    BY <1>1, <2>1, BytePowers DEF FileWord
<1>2. CASE ~(p >= 1 /\ p + 3 <= Size)
  BY <1>2 DEF FileWord
<1>. QED
  BY <1>1, <1>2

(***************************************************************************)
(* IP2Location_read32() at a 1-based offset whose four bytes lie in the   *)
(* file reads the little-endian word the file holds there, without error. *)
(***************************************************************************)
LEMMA Read32InFile ==
  ASSUME NEW p \in Int, p >= 1, p + 3 <= Size, Size < Word
  PROVE  /\ IP2Location_read32(p).val = FileWord(p)
         /\ p < Size
<1>1. Word \in Nat \ {0} /\ Size \in Nat
  BY FileBasics
<1>2. U32(p - 1) = p - 1 /\ U32(p + 1) = p + 1 /\ U32(p + 2) = p + 2
  BY <1>1 DEF U32
<1>3. /\ ByteAt(p - 1) = Mem[p] /\ ByteAt(p) = Mem[p + 1]
      /\ ByteAt(p + 1) = Mem[p + 2] /\ ByteAt(p + 2) = Mem[p + 3]
  BY <1>1 DEF ByteAt
<1>4. Val32(p) = FileWord(p)
  BY <1>2, <1>3 DEF Val32, FileWord
<1>. QED
  BY <1>1, <1>4 DEF IP2Location_read32

(***************************************************************************)
(* ... and touches only bytes of the file.                                 *)
(***************************************************************************)
LEMMA Read32Bounds ==
  ASSUME NEW p \in Int, p >= 1, p + 3 <= Size
  PROVE  /\ ~Past(IP2Location_read32(p).idx)
         /\ ~Past(IP2Location_read_float(p).idx)
<1>1. Word \in Nat \ {0} /\ Size \in Nat /\ Size < Word
  BY FileBasics
<1>2. U32(p - 1) = p - 1 /\ U32(p + 1) = p + 1 /\ U32(p + 2) = p + 2
  BY <1>1 DEF U32
<1>3. IP2Location_read32(p).idx = {p - 1, p, p + 1, p + 2}
      /\ IP2Location_read_float(p).idx = {p - 1, p, p + 1, p + 2}
  BY <1>1, <1>2 DEF IP2Location_read32, IP2Location_read_float, Idx32
<1>. QED
  BY <1>1, <1>3 DEF Past

\* no read is past the file when neither of two is
LEMMA PastUnion ==
  ASSUME NEW A, NEW B, ~Past(A), ~Past(B)
  PROVE  ~Past(A \cup B)
BY DEF Past

(***************************************************************************)
(* IP2Location_read_str() of a string whose length byte and bytes lie in  *)
(* the file touches only bytes of the file: it copies at most the length  *)
(* byte's count.                                                           *)
(***************************************************************************)
LEMMA StrBounds ==
  ASSUME NEW p \in Nat, NEW max \in Nat, p + ByteAt(p) < Size
  PROVE  ~Past(IP2Location_read_str(p, max).idx)
<1>1. Word \in Nat \ {0} /\ Size \in Nat /\ Size < Word
  BY FileBasics
<1>2. p < Size /\ ByteAt(p) \in Nat
  <2>1. ByteAt(p) = Mem[p + 1] /\ Mem[p + 1] \in Nat
    <3>1. p < Size
      <4>1. CASE p >= Size
        BY <1>1, <4>1 DEF ByteAt
      <4>. QED
        BY <1>1, <4>1
    <3>. QED
      BY <1>1, <3>1, FileBasics DEF ByteAt
  <2>. QED
    BY <1>1, <2>1
<1>. DEFINE n == IF ByteAt(p) < max % 256 THEN ByteAt(p) ELSE max % 256
<1>3. n \in Nat /\ n <= ByteAt(p)
  BY <1>2
<1>4. U32(p + 1) = p + 1
  BY <1>1, <1>2 DEF U32
<1>5. IP2Location_read_str(p, max).idx = {p} \cup {U32(p + 1) + k : k \in 0..(n - 1)}
  BY <1>1, <1>2 DEF IP2Location_read_str
<1>6. \A k \in 0..(n - 1) : U32(p + 1) + k < Size
  BY <1>1, <1>2, <1>3, <1>4
<1>7. \A i \in IP2Location_read_str(p, max).idx : i \in Int /\ i < Size
  <2>. TAKE i \in IP2Location_read_str(p, max).idx
  <2>1. i = p \/ \E k \in 0..(n - 1) : i = U32(p + 1) + k
    BY <1>5, Zenon
  <2>. QED
    BY <1>1, <1>2, <1>4, <1>6, <2>1
<1>. QED
  BY <1>1, <1>7 DEF Past

-----------------------------------------------------------------------------
(***************************************************************************)
(* The row starts of a well-formed table ascend: RowStart is strictly     *)
(* monotonic on 0..V4Count, not only from one row to the next.             *)
(***************************************************************************)
LEMMA RowStartNat ==
  ASSUME WellFormedV4, NEW r \in Int
  PROVE  RowStart(r) \in Nat
BY FileWordNat, WellFormedBounds DEF RowStart

LEMMA RowStartMono ==
  ASSUME WellFormedV4, NEW r1 \in 0..V4Count, NEW r2 \in 0..V4Count, r1 < r2
  PROVE  RowStart(r1) < RowStart(r2)
<1>. DEFINE Bad(d) == \E r \in 0..V4Count : r + d + 1 <= V4Count /\ RowStart(r) >= RowStart(r + d + 1)
<1>. DEFINE T == {d \in Nat : Bad(d)}
<1>1. V4Count \in Nat
  BY WellFormedBounds
<1>2. RowStart(r1) \in Nat /\ RowStart(r2) \in Nat
  BY RowStartNat
<1>3. SUFFICES ASSUME RowStart(r1) >= RowStart(r2) PROVE FALSE
  BY <1>2
<1>4. r2 - r1 - 1 \in T
  <2>1. r1 + (r2 - r1 - 1) + 1 = r2
    OBVIOUS
  <2>. QED
    BY <1>3, <2>1
<1>5. PICK d \in T : \A y \in T : d <= y
  BY <1>4, NatMin
<1>6. PICK r \in 0..V4Count : r + d + 1 <= V4Count /\ RowStart(r) >= RowStart(r + d + 1)
  BY <1>5
<1>7. /\ RowStart(r + d) < RowStart(r + d + 1)
      /\ {RowStart(r), RowStart(r + d), RowStart(r + d + 1)} \subseteq Nat
  BY <1>1, <1>6, RowStartNat DEF WellFormedV4
<1>8. CASE d = 0
  BY <1>6, <1>7, <1>8
<1>9. CASE d # 0
  <2>1. d - 1 \notin T
    BY <1>5, <1>9
  <2>2. ~(RowStart(r) >= RowStart(r + (d - 1) + 1))
    BY <1>1, <1>6, <1>9, <2>1
  <2>3. RowStart(r) < RowStart(r + d)
    BY <1>7, <2>2
  <2>. QED
    BY <1>6, <1>7, <2>3
<1>. QED
  BY <1>8, <1>9

(***************************************************************************)
(* Every number below MAX_IPV4_RANGE lies in a row, and in only one: RowOf *)
(* names it.                                                               *)
(***************************************************************************)
InRow(k, r) == r \in 0..(V4Count - 1) /\ RowStart(r) <= k /\ k < RowStart(r + 1)

LEMMA RowExists ==
  ASSUME WellFormedV4, NEW k \in 0..(MaxIPv4 - 1)
  PROVE  \E r \in 0..(V4Count - 1) : InRow(k, r)
<1>. DEFINE T == {d \in Nat : d <= V4Count /\ RowStart(V4Count - d) <= k}
<1>1. V4Count \in Nat \ {0}
  BY WellFormedBounds
<1>2. V4Count \in T
  BY <1>1 DEF WellFormedV4
<1>3. PICK d \in T : \A y \in T : d <= y
  BY <1>2, NatMin
<1>4. d # 0
  BY <1>3, WellFormedBounds DEF WellFormedV4
<1>5. d - 1 \notin T
  BY <1>3, <1>4
<1>6. RowStart(V4Count - d + 1) > k
  <2>1. RowStart(V4Count - d + 1) \in Nat
    BY <1>1, RowStartNat
  <2>. QED
    BY <1>1, <1>3, <1>4, <1>5, <2>1
<1>. QED
  BY <1>1, <1>3, <1>4, <1>6 DEF InRow

LEMMA RowUnique ==
  ASSUME WellFormedV4, NEW k \in Int, NEW r1 \in Int, NEW r2 \in Int,
         InRow(k, r1), InRow(k, r2)
  PROVE  r1 = r2
<1>1. V4Count \in Nat
  BY WellFormedBounds
<1>2. ASSUME NEW a \in Int, NEW b \in Int, InRow(k, a), InRow(k, b), a < b PROVE FALSE
  <2>0. {RowStart(a + 1), RowStart(b)} \subseteq Nat
    BY <1>2, RowStartNat
  <2>1. RowStart(a + 1) <= RowStart(b)
    <3>1. CASE a + 1 = b
      BY <2>0, <3>1
    <3>2. CASE a + 1 < b
      <4>1. RowStart(a + 1) < RowStart(b)
        BY <1>1, <1>2, <3>2, RowStartMono DEF InRow
      <4>. QED
        BY <2>0, <4>1
    <3>. QED
      BY <1>2, <3>1, <3>2
  <2>2. {RowStart(a + 1), RowStart(b)} \subseteq Nat
    BY <1>2, RowStartNat
  <2>. QED
    BY <1>2, <2>1, <2>2 DEF InRow
<1>. QED
  BY <1>2

LEMMA RowOfSpec ==
  ASSUME WellFormedV4, NEW k \in 0..(MaxIPv4 - 1)
  PROVE  /\ InRow(k, RowOf(k))
         /\ \A r \in Int : InRow(k, r) => r = RowOf(k)
<1>1. InRow(k, RowOf(k))
  BY RowExists DEF RowOf, InRow
<1>2. RowOf(k) \in Int
  BY <1>1 DEF InRow
<1>. QED
  BY <1>1, <1>2, RowUnique

LEMMA RowOfMono ==
  ASSUME WellFormedV4, NEW k1 \in 0..(MaxIPv4 - 1), NEW k2 \in 0..(MaxIPv4 - 1), k1 <= k2
  PROVE  RowOf(k1) <= RowOf(k2)
<1>1. InRow(k1, RowOf(k1)) /\ InRow(k2, RowOf(k2))
  BY RowOfSpec
<1>2. SUFFICES ASSUME RowOf(k2) < RowOf(k1) PROVE FALSE
  BY <1>1 DEF InRow
<1>3. V4Count \in Nat
  BY WellFormedBounds
<1>4. RowStart(RowOf(k2) + 1) <= RowStart(RowOf(k1))
  <2>0. {RowStart(RowOf(k2) + 1), RowStart(RowOf(k1))} \subseteq Nat
    BY <1>1, RowStartNat DEF InRow
  <2>1. CASE RowOf(k2) + 1 = RowOf(k1)
    BY <2>0, <2>1
  <2>2. CASE RowOf(k2) + 1 < RowOf(k1)
    BY <1>1, <1>3, <2>0, <2>2, RowStartMono DEF InRow
  <2>. QED
    BY <1>1, <1>2, <2>1, <2>2 DEF InRow
<1>5. {RowStart(RowOf(k2) + 1), RowStart(RowOf(k1))} \subseteq Nat
  BY <1>1, RowStartNat DEF InRow
<1>. QED
  BY <1>1, <1>4, <1>5 DEF InRow

\* RowStart is monotonic, the non-strict form
LEMMA RowStartLeq ==
  ASSUME WellFormedV4, NEW r1 \in 0..V4Count, NEW r2 \in 0..V4Count, r1 <= r2
  PROVE  RowStart(r1) <= RowStart(r2)
<1>1. {RowStart(r1), RowStart(r2)} \subseteq Nat
  BY RowStartNat
<1>2. CASE r1 = r2
  BY <1>1, <1>2
<1>3. CASE r1 < r2
  BY <1>1, <1>3, RowStartMono
<1>. QED
  BY <1>2, <1>3

(***************************************************************************)
(* A number below the start of row m lies in a row before m; a number at  *)
(* or above the start of row m + 1 lies in a row after m.                  *)
(***************************************************************************)
LEMMA RowBelow ==
  ASSUME WellFormedV4, NEW k \in 0..(MaxIPv4 - 1), NEW m \in 0..V4Count, k < RowStart(m)
  PROVE  RowOf(k) < m
<1>1. InRow(k, RowOf(k))
  BY RowOfSpec
<1>2. V4Count \in Nat
  BY WellFormedBounds
<1>3. SUFFICES ASSUME RowOf(k) >= m PROVE FALSE
  BY <1>1 DEF InRow
<1>4. RowStart(m) <= RowStart(RowOf(k))
  BY <1>1, <1>2, <1>3, RowStartLeq DEF InRow
<1>5. {RowStart(m), RowStart(RowOf(k))} \subseteq Nat
  BY <1>1, RowStartNat DEF InRow
<1>. QED
  BY <1>1, <1>4, <1>5 DEF InRow

LEMMA RowAbove ==
  ASSUME WellFormedV4, NEW k \in 0..(MaxIPv4 - 1), NEW m \in 0..(V4Count - 1),
         RowStart(m + 1) <= k
  PROVE  RowOf(k) >= m + 1
<1>1. InRow(k, RowOf(k))
  BY RowOfSpec
<1>2. V4Count \in Nat
  BY WellFormedBounds
<1>3. SUFFICES ASSUME RowOf(k) <= m PROVE FALSE
  BY <1>1 DEF InRow
<1>4. RowStart(RowOf(k) + 1) <= RowStart(m + 1)
  BY <1>1, <1>2, <1>3, RowStartLeq DEF InRow
<1>5. {RowStart(m + 1), RowStart(RowOf(k) + 1)} \subseteq Nat
  BY <1>1, <1>2, RowStartNat DEF InRow
<1>. QED
  BY <1>1, <1>4, <1>5 DEF InRow

(***************************************************************************)
(* MAX_IPV4_RANGE is searched as MAX_IPV4_RANGE - 1, which lies in the     *)
(* last row, since the last row ends at MAX_IPV4_RANGE.                    *)
(***************************************************************************)
LEMMA SearchKeyRange ==
  ASSUME WellFormedV4, NEW a \in 0..MaxIPv4
  PROVE  SearchKey(a) \in 0..(MaxIPv4 - 1)
BY WellFormedBounds DEF SearchKey

LEMMA LastRow ==
  ASSUME WellFormedV4
  PROVE  RowOf(MaxIPv4 - 1) = V4Count - 1
<1>1. V4Count \in Nat \ {0} /\ MaxIPv4 \in Nat /\ MaxIPv4 >= 1
  BY WellFormedBounds
<1>2. RowStart(V4Count - 1) < RowStart(V4Count) /\ RowStart(V4Count) = MaxIPv4
  BY <1>1 DEF WellFormedV4
<1>3. RowStart(V4Count - 1) \in Nat
  BY <1>1, RowStartNat
<1>4. InRow(MaxIPv4 - 1, V4Count - 1)
  BY <1>1, <1>2, <1>3 DEF InRow
<1>. QED
  BY <1>1, <1>4, RowOfSpec

-----------------------------------------------------------------------------
\* multiplication is associative
LEMMA MulAssoc ==
  ASSUME NEW a \in Int, NEW b \in Int, NEW c \in Int
  PROVE  a * (b * c) = (a * b) * c
OBVIOUS

\* no integer lies below itself through a third
LEMMA LtCycle ==
  ASSUME NEW x \in Int, NEW y \in Int, NEW z \in Int, x <= y, y < z, z <= x
  PROVE  FALSE
OBVIOUS

\* multiplication by a natural is monotonic
LEMMA MulLeq ==
  ASSUME NEW a \in Nat, NEW b \in Nat, NEW c \in Nat, b <= c
  PROVE  a * b <= a * c /\ b * a <= c * a
OBVIOUS

(***************************************************************************)
(* One probe inside a window [low, high] of rows, high at most the row     *)
(* count and low below it: no uint32 expression wraps, mid lies in the     *)
(* window and is a row, and the two reads give the starts of rows mid and *)
(* mid + 1.                                                                *)
(***************************************************************************)
LEMMA ProbeReads ==
  ASSUME WellFormedV4, low \in Nat, high \in Nat, low <= high,
         high <= V4Count, low <= V4Count - 1
  PROVE  /\ Probe.mid \in low..high
         /\ Probe.mid \in 0..(V4Count - 1)
         /\ Probe.from.val = RowStart(Probe.mid)
         /\ Probe.to.val = RowStart(Probe.mid + 1)
         /\ Probe.row = V4Base + Probe.mid * Col
         /\ ~Past(Probe.from.idx \cup Probe.to.idx)
<1>. DEFINE mid == (low + high) \div 2
<1>1. /\ V4Count \in Nat \ {0} /\ DbColumn \in 1..255 /\ V4Base \in Nat \ {0}
      /\ Size \in Nat /\ Size < Word /\ V4Base + V4Count * Col + 3 <= Size
  BY WellFormedBounds
<1>2. Word \in Nat \ {0}
  BY FileBasics
<1>3. Col \in Nat /\ Col >= 4 /\ Col = DbColumn * 4
  BY <1>1 DEF Col
<1>4. V4Count * 4 <= V4Count * Col /\ 1 * Col <= V4Count * Col
  BY <1>1, <1>3, MulLeq
<1>5. low + high < Word
  <2>1. low + high <= 2 * V4Count - 1
    BY <1>1
  <2>2. V4Count * Col \in Nat
    BY <1>1, <1>3
  <2>3. V4Count * Col < Word
    BY <1>1, <1>2, <2>2
  <2>4. V4Count * 4 <= V4Count * Col
    BY <1>4
  <2>. QED
    BY <1>1, <1>2, <2>1, <2>2, <2>3, <2>4
<1>6. U32(low + high) = low + high
  BY <1>2, <1>5 DEF U32
<1>7. mid \in low..high /\ mid \in 0..(V4Count - 1)
  BY <1>1
<1>8. mid * Col <= (V4Count - 1) * Col /\ (mid + 1) * Col <= V4Count * Col
  BY <1>1, <1>3, <1>7, MulLeq
<1>9. /\ mid * Col \in Nat /\ (mid + 1) * Col \in Nat
      /\ V4Base + (mid + 1) * Col + 3 <= Size
      /\ V4Base + mid * Col + 3 <= Size
  BY <1>1, <1>3, <1>7, <1>8
<1>10. /\ U32(DbColumn * 4) = Col
       /\ U32(mid * Col) = mid * Col
       /\ U32(V4Base + mid * Col) = V4Base + mid * Col
       /\ U32(mid + 1) = mid + 1
       /\ U32((mid + 1) * Col) = (mid + 1) * Col
       /\ U32(V4Base + (mid + 1) * Col) = V4Base + (mid + 1) * Col
  BY <1>1, <1>2, <1>3, <1>4, <1>7, <1>9 DEF U32
<1>11. /\ IP2Location_read32(V4Base + mid * Col).val = FileWord(V4Base + mid * Col)
       /\ IP2Location_read32(V4Base + (mid + 1) * Col).val = FileWord(V4Base + (mid + 1) * Col)
  BY <1>1, <1>9, Read32InFile
<1>12. mid * Col = mid * DbColumn * 4 /\ (mid + 1) * Col = (mid + 1) * DbColumn * 4
  BY <1>1, <1>7, MulAssoc DEF Col
<1>13. /\ FileWord(V4Base + mid * Col) = RowStart(mid)
       /\ FileWord(V4Base + (mid + 1) * Col) = RowStart(mid + 1)
  BY <1>12 DEF RowStart
<1>14. Probe = [mid  |-> mid,
                row  |-> V4Base + mid * Col,
                from |-> IP2Location_read32(V4Base + mid * Col),
                to   |-> IP2Location_read32(V4Base + (mid + 1) * Col)]
  BY <1>6, <1>10 DEF Probe
<1>15. /\ ~Past(IP2Location_read32(V4Base + mid * Col).idx)
       /\ ~Past(IP2Location_read32(V4Base + (mid + 1) * Col).idx)
  BY <1>1, <1>9, Read32Bounds
<1>. QED
  BY <1>7, <1>11, <1>13, <1>14, <1>15, PastUnion

-----------------------------------------------------------------------------
(***************************************************************************)
(* The inductive invariant.  Between two lookups nothing is claimed; once  *)
(* ip2loc_get_ipv4_entry() set the key, the row holding it lies in the     *)
(* window [low, high] of the while loop for as long as the loop runs, and *)
(* the row the loop returns is that row.  It is needed because            *)
(* LookupCorrect speaks of the returned row only: what makes it right is   *)
(* the window, which LookupCorrect does not mention.                       *)
(***************************************************************************)
SearchInv ==
  /\ pc \in {"idle", "search", "done", "crashed"}
  /\ pc \in {"search", "done"} => addr \in 0..MaxIPv4 /\ key = SearchKey(addr)
  /\ pc = "search" =>
       /\ low \in Nat /\ high \in Nat
       /\ low <= RowOf(key) /\ RowOf(key) <= high /\ high <= V4Count
  /\ pc = "done" => hit = RowOf(key)

IInv == WellFormedV4 => SearchInv

-----------------------------------------------------------------------------
(***************************************************************************)
(* The index table of a well-formed database brackets the row of every     *)
(* searched number: the bucket of k (its top half, k \div BucketSize) is   *)
(* an entry of the table, read in full from the file, whose first row is   *)
(* at most and whose last row at least the row of k.                       *)
(***************************************************************************)
LEMMA IndexWindow ==
  ASSUME WellFormedV4, V4Index > 0, NEW k \in 0..(MaxIPv4 - 1)
  PROVE  LET indexpos == U32(V4Index + U32((k \div BucketSize) * 8))
         IN  /\ IP2Location_read32(indexpos).val \in Nat
             /\ IP2Location_read32(U32(indexpos + 4)).val \in Nat
             /\ IP2Location_read32(indexpos).val <= RowOf(k)
             /\ RowOf(k) <= IP2Location_read32(U32(indexpos + 4)).val
             /\ IP2Location_read32(U32(indexpos + 4)).val <= V4Count
             /\ ~Past(IP2Location_read32(indexpos).idx
                       \cup IP2Location_read32(U32(indexpos + 4)).idx)
<1>. DEFINE BS == BucketSize
            b  == k \div BS
            last == IF b * BS + BS - 1 < MaxIPv4 THEN b * BS + BS - 1 ELSE MaxIPv4 - 1
<1>1. /\ V4Count \in Nat \ {0} /\ V4Index \in Nat /\ Size \in Nat /\ Size < Word
      /\ MaxIPv4 \in Nat /\ MaxIPv4 = Word - 1 /\ Word \in Nat \ {0}
  BY WellFormedBounds, HeaderNat, FileBasics DEF MaxIPv4
<1>2. BS \in Nat \ {0} /\ Word = BS * BS
  BY PowerAssumption
<1>3. b \in Nat /\ b * BS <= k /\ k < b * BS + BS
  BY <1>1, <1>2
<1>4. Word \div BS = BS
  BY <1>2
<1>5. b < BS
  <2>1. SUFFICES ASSUME b >= BS PROVE FALSE
    BY <1>2, <1>3
  <2>2. BS * BS <= b * BS
    BY <1>2, <1>3, <2>1, MulLeq
  <2>3. k < BS * BS
    BY <1>1, <1>2
  <2>4. b * BS \in Int /\ BS * BS \in Int /\ k \in Int
    BY <1>1, <1>2, <1>3
  <2>5. b * BS <= k
    BY <1>3
  <2>. QED
    BY <2>2, <2>3, <2>4, <2>5, LtCycle, Zenon
<1>6. b \in 0..(Word \div BS - 1)
  <2>1. b \in 0..(BS - 1)
    BY <1>2, <1>3, <1>5
  <2>. QED
    BY <1>4, <2>1
<1>7. /\ V4Index + 8 * b + 7 <= Size
      /\ FileWord(V4Index + 8 * b) <= RowOf(b * BS)
      /\ RowOf(last) <= FileWord(V4Index + 8 * b + 4)
      /\ FileWord(V4Index + 8 * b + 4) < V4Count
  BY <1>6 DEF WellFormedV4
<1>8. /\ U32(b * 8) = 8 * b
      /\ U32(V4Index + 8 * b) = V4Index + 8 * b
      /\ U32(V4Index + 8 * b + 4) = V4Index + 8 * b + 4
  BY <1>1, <1>3, <1>7 DEF U32
<1>9. /\ IP2Location_read32(V4Index + 8 * b).val = FileWord(V4Index + 8 * b)
      /\ IP2Location_read32(V4Index + 8 * b + 4).val = FileWord(V4Index + 8 * b + 4)
  BY <1>1, <1>3, <1>7, Read32InFile
<1>10. /\ b * BS \in 0..(MaxIPv4 - 1) /\ last \in 0..(MaxIPv4 - 1)
       /\ b * BS <= k /\ k <= last
  BY <1>1, <1>2, <1>3
<1>11. RowOf(b * BS) <= RowOf(k) /\ RowOf(k) <= RowOf(last)
  BY <1>10, RowOfMono
<1>12. /\ FileWord(V4Index + 8 * b) \in Nat /\ FileWord(V4Index + 8 * b + 4) \in Nat
       /\ RowOf(b * BS) \in Int /\ RowOf(k) \in Int /\ RowOf(last) \in Int
  <2>1. \A kk \in 0..(MaxIPv4 - 1) : RowOf(kk) \in 0..(V4Count - 1)
    BY RowOfSpec DEF InRow
  <2>. QED
    BY <1>1, <1>3, <1>10, <2>1, FileWordNat
<1>13. /\ U32(V4Index + U32(b * 8)) = V4Index + 8 * b
       /\ U32(U32(V4Index + U32(b * 8)) + 4) = V4Index + 8 * b + 4
  BY <1>8
<1>14. /\ IP2Location_read32(U32(V4Index + U32(b * 8))).val = FileWord(V4Index + 8 * b)
       /\ IP2Location_read32(U32(U32(V4Index + U32(b * 8)) + 4)).val
            = FileWord(V4Index + 8 * b + 4)
  BY <1>9, <1>13, Zenon
<1>15. FileWord(V4Index + 8 * b) <= RowOf(k)
  <2>1. FileWord(V4Index + 8 * b) <= RowOf(b * BS) /\ RowOf(b * BS) <= RowOf(k)
    BY <1>7, <1>11
  <2>. QED
    BY <1>12, <2>1
<1>16. RowOf(k) <= FileWord(V4Index + 8 * b + 4)
  <2>1. RowOf(last) <= FileWord(V4Index + 8 * b + 4) /\ RowOf(k) <= RowOf(last)
    BY <1>7, <1>11
  <2>. QED
    BY <1>12, <2>1
<1>17. FileWord(V4Index + 8 * b + 4) <= V4Count
  BY <1>1, <1>7, <1>12
<1>18. ~Past(IP2Location_read32(U32(V4Index + U32(b * 8))).idx
             \cup IP2Location_read32(U32(U32(V4Index + U32(b * 8)) + 4)).idx)
  <2>1. /\ ~Past(IP2Location_read32(V4Index + 8 * b).idx)
        /\ ~Past(IP2Location_read32(V4Index + 8 * b + 4).idx)
    BY <1>1, <1>3, <1>7, Read32Bounds
  <2>. QED
    BY <1>13, <2>1, PastUnion
<1>. QED
  BY <1>12, <1>14, <1>15, <1>16, <1>17, <1>18, Zenon

-----------------------------------------------------------------------------
(***************************************************************************)
(* ip2loc_get_ipv4_entry() starts a search whose window holds the row of  *)
(* the key, whatever state the previous lookup left.                       *)
(***************************************************************************)
LEMMA EntryStep ==
  ASSUME WellFormedV4, NEW a \in 0..MaxIPv4, ip2loc_get_ipv4_entry(a)
  PROVE  SearchInv'
<1>. DEFINE k == SearchKey(a)
            indexpos == U32(V4Index + U32((k \div BucketSize) * 8))
<1>1. k \in 0..(MaxIPv4 - 1)
  BY SearchKeyRange
<1>2. RowOf(k) \in 0..(V4Count - 1) /\ V4Count \in Nat /\ V4Index \in Nat
  BY <1>1, RowOfSpec, WellFormedBounds, HeaderNat DEF InRow
<1>3. addr' = a /\ key' = k /\ pc' \in {"search", "crashed"}
  BY DEF ip2loc_get_ipv4_entry
<1>4. CASE V4Index > 0
  <2>1. /\ low' = IP2Location_read32(indexpos).val
        /\ high' = IP2Location_read32(U32(indexpos + 4)).val
    BY <1>4 DEF ip2loc_get_ipv4_entry, BucketSize
  <2>2. /\ IP2Location_read32(indexpos).val \in Nat
        /\ IP2Location_read32(U32(indexpos + 4)).val \in Nat
        /\ IP2Location_read32(indexpos).val <= RowOf(k)
        /\ RowOf(k) <= IP2Location_read32(U32(indexpos + 4)).val
        /\ IP2Location_read32(U32(indexpos + 4)).val <= V4Count
    BY <1>1, <1>4, IndexWindow
  <2>. QED
    BY <1>3, <2>1, <2>2 DEF SearchInv
<1>5. CASE V4Index = 0
  <2>1. low' = 0 /\ high' = V4Count
    BY <1>5 DEF ip2loc_get_ipv4_entry
  <2>. QED
    BY <1>2, <1>3, <2>1 DEF SearchInv
<1>. QED
  BY <1>2, <1>4, <1>5

(***************************************************************************)
(* One iteration of the while loop keeps the row of the key in the window, *)
(* and a match is that row: the rows are read at mid and mid + 1 without  *)
(* wrapping (ProbeReads); a number below row mid's start has its row       *)
(* below mid, so mid >= 1 and high = mid - 1 does not wrap; a number at or *)
(* past row mid + 1's start has its row above mid.                         *)
(***************************************************************************)
LEMMA ProbeStep ==
  ASSUME WellFormedV4, SearchInv, V4Probe
  PROVE  SearchInv'
<1>. DEFINE mid  == Probe.mid
            from == Probe.from.val
            to   == Probe.to.val
<1>1. pc = "search" /\ low <= high /\ addr' = addr /\ key' = key
  BY DEF V4Probe
<1>2. /\ low \in Nat /\ high \in Nat /\ high <= V4Count
      /\ low <= RowOf(key) /\ RowOf(key) <= high
      /\ addr \in 0..MaxIPv4 /\ key = SearchKey(addr)
  BY <1>1 DEF SearchInv
<1>3. key \in 0..(MaxIPv4 - 1) /\ RowOf(key) \in 0..(V4Count - 1)
  BY <1>2, SearchKeyRange, RowOfSpec DEF InRow
<1>4. /\ mid \in 0..(V4Count - 1)
      /\ from = RowStart(mid) /\ to = RowStart(mid + 1)
  <2>1. low <= V4Count - 1
    BY <1>2, <1>3, WellFormedBounds
  <2>. QED
    BY <1>1, <1>2, <2>1, ProbeReads
<1>5. /\ V4Count \in Nat \ {0} /\ V4Count < Word /\ Word \in Nat \ {0}
      /\ RowStart(mid) \in Nat /\ RowStart(mid + 1) \in Nat
      /\ mid \in 0..V4Count /\ mid + 1 \in 0..V4Count
  <2>1. V4Count \in Nat \ {0} /\ V4Count < Word /\ Word \in Nat \ {0}
    BY WellFormedBounds, FileBasics, HeaderAssumption
  <2>. QED
    BY <1>4, <2>1, RowStartNat
<1>6. CASE RowMatches(key, from, to)
  <2>1. InRow(key, mid)
    BY <1>4, <1>6 DEF RowMatches, InRow
  <2>2. mid = RowOf(key)
    BY <1>3, <1>4, <2>1, RowOfSpec
  <2>3. pc' \in {"crashed", "done"} /\ hit' = mid
    BY <1>6 DEF V4Probe
  <2>. QED
    BY <1>1, <2>2, <2>3 DEF SearchInv
<1>7. CASE ~RowMatches(key, from, to) /\ key < from
  <2>1. RowOf(key) < mid
    <3>1. key < RowStart(mid)
      BY <1>4, <1>7
    <3>. QED
      BY <1>3, <1>5, <3>1, RowBelow
  <2>2. U32(mid - 1) = mid - 1
    BY <1>3, <1>4, <1>5, <2>1 DEF U32
  <2>3. high' = NextHigh(mid) /\ low' = low /\ pc' \in {"crashed", "search"}
    BY <1>7 DEF V4Probe
  <2>4. high' = mid - 1
    BY <2>2, <2>3 DEF NextHigh
  <2>5. /\ high' \in Nat /\ high' <= V4Count
        /\ low' <= RowOf(key) /\ RowOf(key) <= high'
    BY <1>2, <1>3, <1>4, <1>5, <2>1, <2>3, <2>4
  <2>. QED
    BY <1>1, <1>2, <2>3, <2>5 DEF SearchInv
<1>8. CASE ~RowMatches(key, from, to) /\ ~(key < from)
  <2>1. RowStart(mid + 1) <= key
    BY <1>3, <1>4, <1>5, <1>8 DEF RowMatches
  <2>2. RowOf(key) >= mid + 1
    BY <1>3, <1>4, <2>1, RowAbove
  <2>3. U32(mid + 1) = mid + 1
    BY <1>4, <1>5 DEF U32
  <2>4. low' = NextLow(mid) /\ high' = high /\ pc' \in {"crashed", "search"}
    BY <1>8 DEF V4Probe
  <2>. QED
    BY <1>1, <1>2, <1>3, <1>4, <2>2, <2>3, <2>4 DEF SearchInv, NextLow
<1>. QED
  BY <1>6, <1>7, <1>8

(***************************************************************************)
(* The loop never runs out of window while the row of the key is in it:  *)
(* under the invariant, the FALSE return of the while test is unreachable. *)
(***************************************************************************)
LEMMA ExhaustedStep ==
  ASSUME WellFormedV4, SearchInv, V4Exhausted
  PROVE  FALSE
<1>1. /\ pc = "search" /\ low > high
  BY DEF V4Exhausted
<1>2. low \in Nat /\ high \in Nat /\ low <= RowOf(key) /\ RowOf(key) <= high
      /\ key = SearchKey(addr) /\ addr \in 0..MaxIPv4
  BY <1>1 DEF SearchInv
<1>3. RowOf(key) \in Int
  BY <1>2, SearchKeyRange, RowOfSpec DEF InRow
<1>. QED
  BY <1>1, <1>2, <1>3

-----------------------------------------------------------------------------
LEMMA InitIInv == Init => IInv
BY DEF Init, IInv, SearchInv

LEMMA NextIInv == IInv /\ [Next]_vars => IInv'
<1>. SUFFICES ASSUME IInv, [Next]_vars, WellFormedV4 PROVE SearchInv'
  BY DEF IInv
<1>1. SearchInv
  BY DEF IInv
<1>2. CASE \E a \in 0..MaxIPv4 : ip2loc_get_ipv4_entry(a)
  BY <1>2, EntryStep
<1>3. CASE V4Probe
  BY <1>1, <1>3, ProbeStep
<1>4. CASE V4Exhausted
  BY <1>1, <1>4, ExhaustedStep
<1>5. CASE UNCHANGED vars
  BY <1>1, <1>5 DEF vars, SearchInv
<1>. QED
  BY <1>2, <1>3, <1>4, <1>5 DEF Next

\* the inductive invariant holds in every state of the lookup
THEOREM IInvHolds == Spec => []IInv
BY InitIInv, NextIInv, PTL DEF Spec

(***************************************************************************)
(* LookupCorrect for every byte width, file, header and index table: on a *)
(* well-formed database every lookup of ip2loc_get_ipv4_entry() that      *)
(* returns, returns the row holding the address (the last row for          *)
(* MAX_IPV4_RANGE).                                                        *)
(***************************************************************************)
THEOREM LookupCorrectHolds == Spec => []LookupCorrect
<1>1. IInv => LookupCorrect
  <2>. SUFFICES ASSUME IInv, WellFormedV4, pc = "done"
                PROVE  hit = IF addr = MaxIPv4 THEN V4Count - 1 ELSE RowOf(addr)
    BY DEF LookupCorrect
  <2>1. hit = RowOf(key) /\ key = SearchKey(addr)
    BY DEF IInv, SearchInv
  <2>2. CASE addr = MaxIPv4
    BY <2>1, <2>2, LastRow DEF SearchKey
  <2>3. CASE addr # MaxIPv4
    BY <2>1, <2>3 DEF SearchKey
  <2>. QED
    BY <2>2, <2>3
<1>. QED
  BY <1>1, IInvHolds, PTL

-----------------------------------------------------------------------------
\* the inductive invariant of ReadsInBounds
BInv == IInv /\ (RecordsInFile => ~overread)

(***************************************************************************)
(* The column of every field, for every database type, is one of 0..6.    *)
(***************************************************************************)
LEMMA PosRange ==
  \A f \in Flags : Pos(Table[f]) \in 0..6
<1>1. DbType + 1 \in 1..25
  BY HeaderAssumption
<1>2. /\ COUNTRY_POSITION[DbType + 1] \in 0..6
      /\ REGION_POSITION[DbType + 1] \in 0..6
      /\ CITY_POSITION[DbType + 1] \in 0..6
      /\ LATITUDE_POSITION[DbType + 1] \in 0..6
      /\ LONGITUDE_POSITION[DbType + 1] \in 0..6
  BY <1>1 DEF COUNTRY_POSITION, REGION_POSITION, CITY_POSITION,
              LATITUDE_POSITION, LONGITUDE_POSITION
<1>. QED
  BY <1>2 DEF Pos, Table, Flags

(***************************************************************************)
(* The reads of one field of row r: the field's word lies in the row, and *)
(* a string field's string lies in the file.                               *)
(***************************************************************************)
LEMMA FieldBounds ==
  ASSUME RecordsInFile, NEW r \in 0..(V4Count - 1), NEW f \in RecordFields
  PROVE  ~Past(FieldRead(V4Base + r * Col, f).idx)
<1>. DEFINE row  == V4Base + r * Col
            faddr == row + 4 * (Pos(Table[f]) - 1)
<1>1. /\ V4Count \in Nat \ {0} /\ DbColumn \in 1..255 /\ V4Base \in Nat \ {0}
      /\ Size \in Nat /\ Size < Word /\ Word \in Nat \ {0}
      /\ V4Base + V4Count * Col + 3 <= Size
  BY WellFormedBounds, FileBasics DEF RecordsInFile
<1>2. Pos(Table[f]) \in 1..DbColumn
  BY PosRange DEF RecordsInFile, FieldsInRow, RecordFields
<1>3. row + Col + 3 <= Size /\ row \in Nat /\ row >= 1
  <2>1. Col \in Nat /\ Col = DbColumn * 4
    BY <1>1 DEF Col
  <2>2. (r + 1) * Col <= V4Count * Col
    BY <1>1, <2>1, MulLeq
  <2>3. r * Col \in Nat /\ (r + 1) * Col = r * Col + Col
    BY <1>1, <2>1
  <2>. QED
    BY <1>1, <2>1, <2>2, <2>3
<1>4. faddr \in Int /\ faddr >= 1 /\ faddr + 3 <= Size
  <2>1. 4 * (Pos(Table[f]) - 1) + 3 < Col
    BY <1>1, <1>2 DEF Col
  <2>2. Pos(Table[f]) \in Int /\ Col \in Nat
    BY <1>1, <1>2 DEF Col
  <2>. QED
    BY <1>1, <1>2, <1>3, <2>1, <2>2
<1>5. FieldAddr(row, f) = faddr
  <2>1. U32(4 * (Pos(Table[f]) - 1)) = 4 * (Pos(Table[f]) - 1)
    BY <1>1, <1>2, <1>3, <1>4 DEF U32
  <2>2. U32(faddr) = faddr
    BY <1>1, <1>4 DEF U32
  <2>. QED
    BY <2>1, <2>2 DEF FieldAddr
<1>6. ~Past(IP2Location_read32(faddr).idx) /\ ~Past(IP2Location_read_float(faddr).idx)
  BY <1>4, Read32Bounds
<1>7. CASE f \in {"latitude", "longitude"}
  BY <1>5, <1>6, <1>7 DEF FieldRead
<1>8. CASE f \notin {"latitude", "longitude"}
  <2>. DEFINE str == StringAt(r, f)
  <2>1. IP2Location_read32(faddr).val = FileWord(faddr)
    BY <1>1, <1>4, Read32InFile
  <2>2. FileWord(faddr) + Skip[f] = str
    BY DEF StringAt, Col
  <2>3. str \in Nat /\ str + ByteAt(str) < Size
    <3>1. FileWord(faddr) \in Nat /\ Skip[f] \in {0, 3}
      BY <1>4, FileWordNat DEF Skip, RecordFields, Flags
    <3>2. str + ByteAt(str) < Size
      BY <1>8 DEF RecordsInFile, StringsInFile
    <3>. QED
      BY <2>2, <3>1, <3>2
  <2>4. ByteAt(str) \in Nat
    BY <1>1, <2>3, FileBasics DEF ByteAt
  <2>5. U32(IP2Location_read32(faddr).val + Skip[f]) = str
    <3>1. U32(str) = str
      BY <1>1, <2>3, <2>4 DEF U32
    <3>. QED
      BY <2>1, <2>2, <3>1
  <2>6. FieldSize[f] \in Nat
    BY <1>8, FieldSizeAssumption DEF RecordFields
  <2>7. ~Past(IP2Location_read_str(str, FieldSize[f]).idx)
    BY <2>3, <2>6, StrBounds
  <2>8. FieldRead(row, f).idx
          = IP2Location_read32(faddr).idx \cup IP2Location_read_str(str, FieldSize[f]).idx
    BY <1>5, <1>8, <2>5 DEF FieldRead
  <2>. QED
    BY <1>6, <2>7, <2>8, PastUnion
<1>. QED
  BY <1>7, <1>8

(***************************************************************************)
(* The record read of a row of a database whose records lie in the file   *)
(* touches only bytes of the file.                                         *)
(***************************************************************************)
LEMMA RecordBounds ==
  ASSUME RecordsInFile, NEW r \in 0..(V4Count - 1)
  PROVE  ~Past(RecordAt[V4Base + r * Col].idx)
<1>1. V4Base + r * Col \in 0..(Word - 1)
  <2>1. /\ V4Count \in Nat \ {0} /\ V4Base \in Nat /\ Size < Word /\ Size \in Nat
        /\ V4Base + V4Count * Col + 3 <= Size /\ Col \in Nat
    BY WellFormedBounds DEF RecordsInFile, Col
  <2>2. r * Col <= V4Count * Col
    BY <2>1, MulLeq
  <2>3. r * Col \in Nat
    BY <2>1
  <2>. QED
    BY <2>1, <2>2, <2>3, FileBasics
<1>2. RecordAt[V4Base + r * Col].idx
        = UNION {FieldRead(V4Base + r * Col, f).idx : f \in RecordFields}
  BY <1>1 DEF RecordAt, IP2Location_read_record
<1>3. \A f \in RecordFields : ~Past(FieldRead(V4Base + r * Col, f).idx)
  BY FieldBounds
<1>. QED
  BY <1>2, <1>3 DEF Past

(***************************************************************************)
(* The window of a running search lies in the table, so ProbeReads         *)
(* applies.                                                                *)
(***************************************************************************)
LEMMA SearchWindow ==
  ASSUME WellFormedV4, SearchInv, pc = "search"
  PROVE  /\ low \in Nat /\ high \in Nat /\ high <= V4Count /\ low <= V4Count - 1
<1>1. /\ low \in Nat /\ high \in Nat /\ high <= V4Count /\ low <= RowOf(key)
      /\ key = SearchKey(addr) /\ addr \in 0..MaxIPv4
  BY DEF SearchInv
<1>2. RowOf(key) \in 0..(V4Count - 1) /\ V4Count \in Nat
  BY <1>1, SearchKeyRange, RowOfSpec, WellFormedBounds DEF InRow
<1>. QED
  BY <1>1, <1>2

\* every step of the lookup keeps its reads inside the file
LEMMA NextBInv == BInv /\ [Next]_vars => BInv'
<1>. SUFFICES ASSUME BInv, [Next]_vars PROVE BInv'
  OBVIOUS
<1>1. IInv'
  BY NextIInv DEF BInv
<1>. SUFFICES ASSUME RecordsInFile PROVE ~overread'
  BY <1>1 DEF BInv, RecordsInFile
<1>2. ~overread /\ SearchInv /\ WellFormedV4
  BY DEF BInv, IInv, RecordsInFile
<1>3. CASE \E a \in 0..MaxIPv4 : ip2loc_get_ipv4_entry(a)
  <2>1. PICK a \in 0..MaxIPv4 : ip2loc_get_ipv4_entry(a)
    BY <1>3
  <2>. DEFINE k == SearchKey(a)
              indexpos == U32(V4Index + U32((k \div BucketSize) * 8))
  <2>2. k \in 0..(MaxIPv4 - 1) /\ V4Index \in Nat
    BY <1>2, SearchKeyRange, HeaderNat
  <2>3. CASE V4Index > 0
    <3>1. overread' = Past(IP2Location_read32(indexpos).idx
                           \cup IP2Location_read32(U32(indexpos + 4)).idx)
      BY <2>1, <2>3 DEF ip2loc_get_ipv4_entry, BucketSize
    <3>. QED
      BY <1>2, <2>2, <2>3, <3>1, IndexWindow
  <2>4. CASE V4Index = 0
    BY <2>1, <2>4 DEF ip2loc_get_ipv4_entry
  <2>. QED
    BY <2>2, <2>3, <2>4
<1>4. CASE V4Probe
  <2>1. pc = "search" /\ low <= high
    BY <1>4 DEF V4Probe
  <2>2. low \in Nat /\ high \in Nat /\ high <= V4Count /\ low <= V4Count - 1
    BY <1>2, <2>1, SearchWindow
  <2>3. /\ Probe.mid \in 0..(V4Count - 1)
        /\ Probe.row = V4Base + Probe.mid * Col
        /\ ~Past(Probe.from.idx \cup Probe.to.idx)
    BY <1>2, <2>1, <2>2, ProbeReads
  <2>4. ~Past(RecordAt[Probe.row].idx)
    BY <2>3, RecordBounds
  <2>5. \/ overread' = (overread \/ Past((Probe.from.idx \cup Probe.to.idx)
                                         \cup RecordAt[Probe.row].idx))
        \/ overread' = (overread \/ Past(Probe.from.idx \cup Probe.to.idx))
    BY <1>4 DEF V4Probe
  <2>. QED
    BY <1>2, <2>3, <2>4, <2>5, PastUnion
<1>5. CASE V4Exhausted
  BY <1>2, <1>5, ExhaustedStep
<1>6. CASE UNCHANGED vars
  BY <1>2, <1>6 DEF vars
<1>. QED
  BY <1>3, <1>4, <1>5, <1>6 DEF Next

(***************************************************************************)
(* ReadsInBounds for every byte width and every database whose records    *)
(* lie in the file: no read of a lookup touches a byte at or past st_size, *)
(* neither of the index table, nor of the rows the search probes, nor of  *)
(* the record it returns.                                                  *)
(***************************************************************************)
THEOREM ReadsInBoundsHolds == RecordsInFile => (Spec => []ReadsInBounds)
<1>. SUFFICES ASSUME RecordsInFile PROVE Spec => []ReadsInBounds
  OBVIOUS
<1>1. Init => BInv
  BY InitIInv DEF Init, BInv
<1>2. BInv /\ [Next]_vars => BInv'
  BY NextBInv
<1>3. BInv => ReadsInBounds
  BY DEF BInv, ReadsInBounds
<1>. QED
  BY <1>1, <1>2, <1>3, PTL DEF Spec


-----------------------------------------------------------------------------
(***************************************************************************)
(* The view ends at the end of the last page of the st_size + 1 bytes     *)
(* mapped, so it reaches at least to st_size: a read that stays in the    *)
(* file cannot fault.                                                      *)
(***************************************************************************)
\* rounding up to a multiple of d: ((n + d - 1) / d) * d >= n
LEMMA DivMod ==
  ASSUME NEW n \in Nat, NEW d \in Nat \ {0}
  PROVE  /\ n = (n \div d) * d + (n % d)
         /\ n % d \in 0..(d - 1)
OBVIOUS

LEMMA RoundUp ==
  ASSUME NEW n \in Nat, NEW d \in Nat \ {0}
  PROVE  ((n + d - 1) \div d) * d >= n
<1>1. n + d - 1 \in Nat
  OBVIOUS
<1>2. /\ n + d - 1 = ((n + d - 1) \div d) * d + ((n + d - 1) % d)
      /\ (n + d - 1) % d \in 0..(d - 1)
  BY <1>1, DivMod
<1>. QED
  BY <1>2

LEMMA PageEndBound == PageEnd \in Int /\ PageEnd >= Size
<1>1. PageSize \in Nat \ {0} /\ Size \in Nat /\ MapSize \in Nat
  BY PageAssumption, FileBasics DEF MapSize
<1>2. ((MapSize + PageSize - 1) \div PageSize) * PageSize >= MapSize
  BY <1>1, RoundUp
<1>3. ((MapSize + PageSize - 1) \div PageSize) \in Int
  BY <1>1
<1>. QED
  BY <1>1, <1>2, <1>3 DEF PageEnd, MapSize

LEMMA NoFault ==
  ASSUME NEW S \in SUBSET Int, ~Past(S)
  PROVE  ~Faults(S)
BY PageEndBound, FileBasics DEF Past, Faults

\* the byte indices a read touches are integers
LEMMA ReadIdxInt ==
  ASSUME NEW p \in Int
  PROVE  /\ IP2Location_read32(p).idx \in SUBSET Int
         /\ IP2Location_read_float(p).idx \in SUBSET Int
         /\ \A m : IP2Location_read_str(p, m).idx \in SUBSET Int
<1>1. Word \in Nat \ {0}
  BY FileBasics
<1>2. \A x \in Int : U32(x) \in Int
  BY <1>1 DEF U32
<1>. QED
  BY <1>2 DEF IP2Location_read32, IP2Location_read_float, IP2Location_read_str, Idx32

\* a uint32_t expression is in 0..Word-1, and so is every byte of the view
LEMMA U32Range ==
  \A x \in Int : U32(x) \in 0..(Word - 1)
BY FileBasics DEF U32

LEMMA ByteAtNat ==
  ASSUME NEW i \in Nat
  PROVE  ByteAt(i) \in Nat
BY FileBasics DEF ByteAt

\* read32() at an unsigned offset yields a natural
LEMMA Read32Nat ==
  ASSUME NEW p \in Nat
  PROVE  IP2Location_read32(p).val \in Nat
<1>1. {U32(p - 1), U32(p + 1), U32(p + 2)} \subseteq Nat
  BY U32Range
<1>2. /\ ByteAt(U32(p - 1)) \in Nat /\ ByteAt(p) \in Nat
      /\ ByteAt(U32(p + 1)) \in Nat /\ ByteAt(U32(p + 2)) \in Nat
  BY <1>1, ByteAtNat
<1>3. Byte \in Nat /\ Byte^2 \in Nat /\ Byte^3 \in Nat
  BY BytePowers
<1>4. /\ Byte * ByteAt(p) \in Nat
      /\ Byte^2 * ByteAt(U32(p + 1)) \in Nat
      /\ Byte^3 * ByteAt(U32(p + 2)) \in Nat
  BY <1>2, <1>3
<1>5. Val32(p) \in Nat
  BY <1>2, <1>4 DEF Val32
<1>. QED
  BY <1>5 DEF IP2Location_read32

LEMMA RecordIdxInt ==
  ASSUME NEW row \in 0..(Word - 1)
  PROVE  RecordAt[row].idx \in SUBSET Int
<1>1. \A f \in RecordFields : FieldRead(row, f).idx \in SUBSET Int
  <2>. TAKE f \in RecordFields
  <2>1. Pos(Table[f]) \in 0..6
    BY PosRange DEF RecordFields
  <2>2. U32(4 * (Pos(Table[f]) - 1)) \in Nat
    BY <2>1, U32Range
  <2>3. FieldAddr(row, f) \in Nat
    BY <2>2, U32Range DEF FieldAddr
  <2>4. CASE f \in {"latitude", "longitude"}
    BY <2>3, <2>4, ReadIdxInt DEF FieldRead
  <2>5. CASE f \notin {"latitude", "longitude"}
    <3>. DEFINE off == IP2Location_read32(FieldAddr(row, f))
    <3>1. off.val \in Nat /\ Skip[f] \in {0, 3}
      BY <2>3, Read32Nat DEF Skip, RecordFields
    <3>2. U32(off.val + Skip[f]) \in Int
      BY <3>1, U32Range
    <3>. QED
      BY <2>3, <2>5, <3>2, ReadIdxInt DEF FieldRead
  <2>. QED
    BY <2>4, <2>5
<1>2. RecordAt[row].idx = UNION {FieldRead(row, f).idx : f \in RecordFields}
  BY DEF RecordAt, IP2Location_read_record
<1>. QED
  BY <1>1, <1>2

(***************************************************************************)
(* The answer of a search that found the row of its key: the key is the   *)
(* address, or MAX_IPV4_RANGE - 1 for MAX_IPV4_RANGE, whose row is the    *)
(* last.                                                                   *)
(***************************************************************************)
LEMMA FoundAnswer ==
  ASSUME WellFormedV4, NEW a \in 0..MaxIPv4
  PROVE  RowOf(SearchKey(a)) = LookupAnswer(a)
<1>1. CASE a = MaxIPv4
  BY <1>1, LastRow DEF SearchKey, LookupAnswer
<1>2. CASE a # MaxIPv4
  BY <1>2 DEF SearchKey, LookupAnswer
<1>. QED
  BY <1>1, <1>2

(***************************************************************************)
(* The lookup implements its contract (IP2LocAbstract) on every database  *)
(* whose records lie in the file, for every byte width, page size and     *)
(* index table: ip2loc_get_ipv4_entry() starts a lookup (the index reads  *)
(* never fault), a probe that misses is invisible to the caller, a probe  *)
(* that matches returns the row holding the address, and the loop never   *)
(* runs dry.  The inductive invariant is IInv; no step reaches "crashed". *)
(***************************************************************************)
THEOREM ContractSafety == RecordsInFile => (Spec => Contract!ASafe)
<1>. SUFFICES ASSUME RecordsInFile PROVE Spec => Contract!ASafe
  OBVIOUS
<1>1. Init => Contract!AInit
  BY DEF Init, Contract!AInit
<1>2. IInv /\ [Next]_vars => [Contract!ANext]_Contract!avars
  <2>. SUFFICES ASSUME IInv, [Next]_vars PROVE [Contract!ANext]_Contract!avars
    OBVIOUS
  <2>1. SearchInv /\ WellFormedV4
    BY DEF IInv, RecordsInFile
  <2>2. CASE \E a \in 0..MaxIPv4 : ip2loc_get_ipv4_entry(a)
    <3>1. PICK a \in 0..MaxIPv4 : ip2loc_get_ipv4_entry(a)
      BY <2>2
    <3>. DEFINE k == SearchKey(a)
                indexpos == U32(V4Index + U32((k \div BucketSize) * 8))
                lo == IP2Location_read32(indexpos)
                hi == IP2Location_read32(U32(indexpos + 4))
    <3>2. pc' = "search"
      <4>1. CASE V4Index > 0
        <5>1. k \in 0..(MaxIPv4 - 1)
          BY <2>1, SearchKeyRange
        <5>2. ~Past(lo.idx \cup hi.idx)
          BY <2>1, <4>1, <5>1, IndexWindow
        <5>3. indexpos \in Nat /\ U32(indexpos + 4) \in Nat
          <6>1. BucketSize \in Nat \ {0} /\ V4Index \in Nat
            BY PowerAssumption, HeaderNat
          <6>2. U32((k \div BucketSize) * 8) \in Nat
            BY <5>1, <6>1, U32Range
          <6>. QED
            BY <6>1, <6>2, U32Range
        <5>4. ~Faults(lo.idx \cup hi.idx)
          BY <5>2, <5>3, ReadIdxInt, NoFault
        <5>. QED
          BY <3>1, <4>1, <5>4 DEF ip2loc_get_ipv4_entry, BucketSize
      <4>2. CASE V4Index = 0
        BY <3>1, <4>2 DEF ip2loc_get_ipv4_entry
      <4>. QED
        BY <4>1, <4>2, HeaderNat
    <3>3. pc \in {"idle", "done"} /\ addr' = a /\ hit' = None
      BY <3>1 DEF ip2loc_get_ipv4_entry
    <3>. QED
      BY <3>2, <3>3 DEF Contract!ANext, Contract!Call
  <2>3. CASE V4Probe
    <3>. DEFINE mid == Probe.mid
                column == U32(DbColumn * 4)
                toaddr == U32(V4Base + U32(U32(mid + 1) * column))
                idx == Probe.from.idx \cup Probe.to.idx
                rec == RecordAt[Probe.row]
    <3>1. pc = "search" /\ low <= high /\ addr' = addr /\ key' = key
      BY <2>3 DEF V4Probe
    <3>2. low \in Nat /\ high \in Nat /\ high <= V4Count /\ low <= V4Count - 1
      BY <2>1, <3>1, SearchWindow
    <3>3. /\ mid \in 0..(V4Count - 1)
          /\ Probe.row = V4Base + mid * Col
          /\ ~Past(idx)
      BY <2>1, <3>1, <3>2, ProbeReads
    <3>4. Probe.row \in 0..(Word - 1) /\ toaddr \in Nat /\ idx \in SUBSET Int
      <4>1. /\ Probe.row = U32(V4Base + U32(mid * column))
            /\ Probe.from = IP2Location_read32(Probe.row)
            /\ Probe.to = IP2Location_read32(toaddr)
        BY DEF Probe
      <4>2. column \in Nat /\ V4Base \in Nat /\ mid \in Nat
        BY <3>3, HeaderNat, U32Range
      <4>3. U32(mid * column) \in Nat /\ U32(mid + 1) \in Nat
        BY <4>2, U32Range
      <4>4. Probe.row \in 0..(Word - 1) /\ toaddr \in Nat
        BY <4>1, <4>2, <4>3, U32Range
      <4>. QED
        BY <4>1, <4>4, ReadIdxInt
    <3>5. CASE RowMatches(key, Probe.from.val, Probe.to.val)
      <4>1. ~Past(rec.idx) /\ rec.idx \in SUBSET Int
        BY <3>3, <3>4, RecordBounds, RecordIdxInt
      <4>2. ~Faults(idx \cup rec.idx)
        BY <3>3, <3>4, <4>1, PastUnion, NoFault
      <4>3. pc' = "done" /\ hit' = mid
        BY <2>3, <3>5, <4>2 DEF V4Probe
      <4>4. hit' = RowOf(key)
        BY <2>1, <2>3, <3>1, <4>3, ProbeStep DEF SearchInv
      <4>5. key = SearchKey(addr) /\ addr \in 0..MaxIPv4
        BY <2>1, <3>1 DEF SearchInv
      <4>6. hit' = LookupAnswer(addr)
        BY <2>1, <4>4, <4>5, FoundAnswer
      <4>. QED
        BY <3>1, <4>3, <4>6 DEF Contract!ANext, Contract!Return
    <3>6. CASE ~RowMatches(key, Probe.from.val, Probe.to.val)
      <4>1. ~Faults(idx)
        BY <3>3, <3>4, NoFault
      <4>2. pc' = "search" /\ hit' = hit
        BY <2>3, <3>6, <4>1 DEF V4Probe
      <4>. QED
        BY <3>1, <4>2 DEF Contract!avars
    <3>. QED
      BY <3>5, <3>6
  <2>4. CASE V4Exhausted
    BY <2>1, <2>4, ExhaustedStep
  <2>5. CASE UNCHANGED vars
    BY <2>5 DEF vars, Contract!avars
  <2>. QED
    BY <2>2, <2>3, <2>4, <2>5 DEF Next
<1>. QED
  BY <1>1, <1>2, IInvHolds, PTL DEF Spec, Contract!ASafe
====
