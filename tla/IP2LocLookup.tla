---------------------------- MODULE IP2LocLookup ----------------------------
(***************************************************************************)
(* The IPv4 lookup of the geo database reader in src/src/ip2loc.c:         *)
(* ip2loc_get_ipv4_entry() and IP2Location_get_ipv4_record(), over the     *)
(* bounds-checked readers IP2Location_read32/read_str/read_float of the    *)
(* memory the .bin file was loaded into.                                   *)
(*                                                                         *)
(* Bytes are ByteBits wide (8 in the code), so a uint32_t is a Word of     *)
(* 4 * ByteBits bits and every uint32_t expression is taken modulo Word.   *)
(* The header fields IP2Location_initialize() read are constants; the      *)
(* rest of the file is the byte sequence File.  The view of the mapping    *)
(* (st_size + 1 bytes) extends with zero bytes to the end of its last      *)
(* page, PageEnd; touching a byte at or beyond PageEnd is an access        *)
(* violation.                                                              *)
(*                                                                         *)
(* sh_mem_index_errors is modelled relative to its value when the lookup   *)
(* started (errs), and saturates at MaxErrors.                             *)
(***************************************************************************)
EXTENDS Integers, Sequences, FiniteSets

CONSTANTS
  ByteBits,    \* bits of a byte
  File,        \* the bytes of the .bin file, File[i + 1] is byte i
  PageSize,    \* granularity of MapViewOfFile()
  DbType,      \* loc->db_type
  DbColumn,    \* loc->db_column
  V4Count,     \* loc->ipv4_db_count
  V4Base,      \* loc->ipv4_db_addr
  V4Index,     \* loc->ipv4_index_db_addr, 0 when there is no index table
  Mode,        \* lookup_flags
  FieldSize,   \* sizeof() the ip2loc_entry string fields
  MaxErrors    \* saturation bound of the index-error count

Byte == 2^ByteBits
Word == 2^(4 * ByteBits)
U32(x) == x % Word
MaxIPv4 == Word - 1                       \* MAX_IPV4_RANGE
Mem == File                               \* the bytes at sh_mem_ptr
Size == Len(Mem)                          \* loc->stat_buf.st_size
MapSize == Size + 1                       \* CreateFileMapping(.., st_size + 1, ..)
PageEnd == ((MapSize + PageSize - 1) \div PageSize) * PageSize

Flags == {"country_short", "country_long", "region", "city", "latitude", "longitude"}

ASSUME ByteBitsAssumption == ByteBits \in Nat \ {0}
ASSUME FileAssumption == File \in Seq(0..(Byte - 1)) /\ Len(File) < Word
ASSUME HeaderAssumption ==
  /\ DbType \in 0..24
  /\ DbColumn \in 0..255
  /\ {V4Count, V4Base, V4Index} \subseteq 0..(Word - 1)
ASSUME ModeAssumption == Mode \subseteq Flags
ASSUME FieldSizeAssumption == FieldSize \in [Flags \ {"latitude", "longitude"} -> Nat]
ASSUME PageAssumption == PageSize \in Nat \ {0} /\ MaxErrors \in Nat

(***************************************************************************)
(* The per-type column tables, indexed by db_type (index 0 unused).        *)
(***************************************************************************)
COUNTRY_POSITION   == <<0, 2, 2, 2, 2, 2, 2, 2, 2, 2, 2, 2, 2, 2, 2, 2, 2, 2, 2, 2, 2, 2, 2, 2, 2>>
REGION_POSITION    == <<0, 0, 0, 3, 3, 3, 3, 3, 3, 3, 3, 3, 3, 3, 3, 3, 3, 3, 3, 3, 3, 3, 3, 3, 3>>
CITY_POSITION      == <<0, 0, 0, 4, 4, 4, 4, 4, 4, 4, 4, 4, 4, 4, 4, 4, 4, 4, 4, 4, 4, 4, 4, 4, 4>>
LATITUDE_POSITION  == <<0, 0, 0, 0, 0, 5, 5, 0, 5, 5, 5, 5, 5, 5, 5, 5, 5, 5, 5, 5, 5, 5, 5, 5, 5>>
LONGITUDE_POSITION == <<0, 0, 0, 0, 0, 6, 6, 0, 6, 6, 6, 6, 6, 6, 6, 6, 6, 6, 6, 6, 6, 6, 6, 6, 6>>

\* TABLE[dbtype] in C
Pos(table) == table[DbType + 1]

-----------------------------------------------------------------------------
(***************************************************************************)
(* Reads.  Each returns its value, the index errors it counted and the     *)
(* byte indices of sh_mem_ptr it touched.                                  *)
(***************************************************************************)
\* the byte at index i of the view: the file, then the mapping's zero fill
ByteAt(i) == IF i < Size THEN Mem[i + 1] ELSE 0

\* IP2Location_read32(): bytes position-1 .. position+2, little endian
Idx32(p) == {U32(p - 1), p, U32(p + 1), U32(p + 2)}

Val32(p) ==
  ByteAt(U32(p - 1)) + Byte * ByteAt(p)
    + Byte^2 * ByteAt(U32(p + 1)) + Byte^3 * ByteAt(U32(p + 2))

IP2Location_read32(p) ==
  IF p >= Size THEN [val |-> 0, err |-> 1, idx |-> {}]
  ELSE [val |-> Val32(p), err |-> 0, idx |-> Idx32(p)]

\* IP2Location_read_float(): memcpy() of the 4 bytes at position-1
IP2Location_read_float(p) ==
  IF p >= Size THEN [err |-> 1, idx |-> {}]
  ELSE [err |-> 0, idx |-> Idx32(p)]

\* mutant: read_str copying one byte more than the length (the NUL)
MutantStrCopiesNul(p, max) ==
  IF p >= Size THEN [ok |-> FALSE, err |-> 1, idx |-> {}]
  ELSE LET n == IF ByteAt(p) < max % 256 THEN ByteAt(p) ELSE max % 256
           first == U32(p + 1)
       IN  [ok  |-> n >= 2 /\ ByteAt(first) # 0 /\ ByteAt(first + 1) # 0,
            err |-> 0,
            idx |-> {p} \cup {first + k : k \in 0..n}]

(***************************************************************************)
(* IP2Location_read_str(): a length byte at position (not position-1),     *)
(* then min(size, max_sz) bytes; "ok" is what ip2loc_get_ipv4_entry()      *)
(* asks of country_short: its first two characters are not NUL.            *)
(***************************************************************************)
IP2Location_read_str(p, max) ==
  IF p >= Size THEN [ok |-> FALSE, err |-> 1, idx |-> {}]
  ELSE LET n == IF ByteAt(p) < max % 256 THEN ByteAt(p) ELSE max % 256
           first == U32(p + 1)
       IN  [ok  |-> n >= 2 /\ ByteAt(first) # 0 /\ ByteAt(first + 1) # 0,
            err |-> 0,
            idx |-> {p} \cup {first + k : k \in 0..(n - 1)}]

\* the column table of each field, and the offset added to its string offset
Table == [country_short |-> COUNTRY_POSITION, country_long |-> COUNTRY_POSITION,
          region |-> REGION_POSITION, city |-> CITY_POSITION,
          latitude |-> LATITUDE_POSITION, longitude |-> LONGITUDE_POSITION]
Skip == [f \in Flags |-> IF f = "country_long" THEN 3 ELSE 0]

\* the fields a record read fills: (mode & FLG_x) && x_POSITION[dbtype]
RecordFields == {f \in Flags : f \in Mode /\ Pos(Table[f]) # 0}

\* rowaddr + 4 * (x_POSITION[dbtype] - 1)
FieldAddr(row, f) == U32(row + U32(4 * (Pos(Table[f]) - 1)))

(***************************************************************************)
(* The reads of one field: latitude and longitude with read_float, the     *)
(* strings with read32 of their offset, then read_str at that offset       *)
(* (plus 3 for country_long).                                              *)
(***************************************************************************)
FieldRead(row, f) ==
  IF f \in {"latitude", "longitude"}
  THEN LET fl == IP2Location_read_float(FieldAddr(row, f))
       IN  [ok |-> FALSE, err |-> fl.err, idx |-> fl.idx]
  ELSE LET off == IP2Location_read32(FieldAddr(row, f))
           str == IP2Location_read_str(U32(off.val + Skip[f]), FieldSize[f])
       IN  [ok |-> str.ok, err |-> off.err + str.err, idx |-> off.idx \cup str.idx]

(***************************************************************************)
(* IP2Location_read_record(): the reads of every field the mode and the    *)
(* database type ask for; ok is the country_short test of                  *)
(* ip2loc_get_ipv4_entry().                                                *)
(***************************************************************************)
IP2Location_read_record(row) ==
  LET fs == [f \in RecordFields |-> FieldRead(row, f)]
  IN  [ok  |-> "country_short" \in RecordFields /\ fs["country_short"].ok,
       err |-> Cardinality({fj \in RecordFields \X {1, 2} : fj[2] <= fs[fj[1]].err}),
       idx |-> UNION {fs[f].idx : f \in RecordFields}]

\* the mapping is not written after the load, so the record read is a
\* function of the row address, tabulated once
RecordAt == [r \in 0..(Word - 1) |-> IP2Location_read_record(r)]

-----------------------------------------------------------------------------
(***************************************************************************)
(* The lookup.  pc is "idle" before the first lookup, "search" inside the  *)
(* while loop, "done" when the lookup returned and "crashed" when a read   *)
(* touched a byte outside the view.  addr is the address asked for, key    *)
(* is ipno, hit the row the loop matched (None when it returned FALSE),    *)
(* ret the result of ip2loc_get_ipv4_entry(), overread records that the   *)
(* lookup touched a byte at or past st_size.                               *)
(***************************************************************************)
VARIABLES pc, addr, key, low, high, hit, ret, errs, overread

vars == <<pc, addr, key, low, high, hit, ret, errs, overread>>

None == -1

TypeOK ==
  /\ pc \in {"idle", "search", "done", "crashed"}
  /\ addr \in 0..MaxIPv4
  /\ {key, low, high} \subseteq 0..(Word - 1)
  /\ hit \in {None} \cup 0..(Word - 1)
  /\ ret \in BOOLEAN
  /\ errs \in 0..MaxErrors
  /\ overread \in BOOLEAN

Init ==
  /\ pc = "idle"
  /\ addr = 0 /\ key = 0 /\ low = 0 /\ high = 0
  /\ hit = None /\ ret = FALSE
  /\ errs = 0 /\ overread = FALSE

(***************************************************************************)
(* Mutants: plausible slips in the lookup, each defined before the         *)
(* definition it replaces.                                                 *)
(***************************************************************************)
MutantKeyNoDecrement(a) == a
MutantMatchInclusive(k, from, to) == k >= from /\ k <= to
MutantHighNoWrap(mid) == mid - 1
MutantLowStays(mid) == mid

\* the effect of a group of reads on the error count and the overread flag
AddErrors(e) == IF errs + e < MaxErrors THEN errs + e ELSE MaxErrors
Past(idx) == \E i \in idx : i >= Size
Faults(idx) == \E i \in idx : i >= PageEnd

\* if (ipno == (uint32_t)MAX_IPV4_RANGE) ipno -= 1;
SearchKey(a) == IF a = MaxIPv4 THEN a - 1 ELSE a

\* if (ipno >= ipfrom && ipno < ipto)
RowMatches(k, from, to) == k >= from /\ k < to

\* high = mid - 1; low = mid + 1 (uint32_t)
NextHigh(mid) == U32(mid - 1)
NextLow(mid) == U32(mid + 1)

(***************************************************************************)
(* ip2loc_get_ipv4_entry(addr): the MAX_IPV4_RANGE special case, then the  *)
(* window [low, high] from the index table or [0, ipv4_db_count].          *)
(***************************************************************************)
ip2loc_get_ipv4_entry(a) ==
  LET k        == SearchKey(a)
      indexpos == U32(V4Index + U32((k \div 2^(2 * ByteBits)) * 8))
      lo       == IP2Location_read32(indexpos)
      hi       == IP2Location_read32(U32(indexpos + 4))
  IN  /\ pc \in {"idle", "done"}
      /\ addr' = a
      /\ key' = k
      /\ hit' = None
      /\ ret' = FALSE
      /\ \/ /\ V4Index > 0
            /\ low' = lo.val
            /\ high' = hi.val
            /\ errs' = AddErrors(lo.err + hi.err)
            /\ overread' = Past(lo.idx \cup hi.idx)
            /\ pc' = IF Faults(lo.idx \cup hi.idx) THEN "crashed" ELSE "search"
         \/ /\ V4Index = 0
            /\ low' = 0
            /\ high' = V4Count
            /\ errs' = 0
            /\ overread' = FALSE
            /\ pc' = "search"

(***************************************************************************)
(* One iteration of the while loop of IP2Location_get_ipv4_record(): the   *)
(* row mid and the start of row mid + 1 are read; a match reads the        *)
(* record and returns, otherwise the window shrinks.  A read that touches  *)
(* a byte past the view crashes the process (the rest of the state is     *)
(* then meaningless).                                                      *)
(***************************************************************************)
Probe ==
  LET mid    == U32(low + high) \div 2
      column == U32(DbColumn * 4)
      row    == U32(V4Base + U32(mid * column))
  IN  [mid  |-> mid,
       row  |-> row,
       from |-> IP2Location_read32(row),
       to   |-> IP2Location_read32(U32(V4Base + U32(U32(mid + 1) * column)))]

V4Probe ==
  LET p   == Probe
      idx == p.from.idx \cup p.to.idx
  IN  /\ pc = "search"
      /\ low <= high
      /\ UNCHANGED <<addr, key>>
      /\ \/ /\ RowMatches(key, p.from.val, p.to.val)
            /\ LET rec == RecordAt[p.row]
               IN  /\ pc' = IF Faults(idx \cup rec.idx) THEN "crashed" ELSE "done"
                   /\ hit' = p.mid
                   /\ ret' = rec.ok
                   /\ errs' = AddErrors(p.from.err + p.to.err + rec.err)
                   /\ overread' = (overread \/ Past(idx \cup rec.idx))
            /\ UNCHANGED <<low, high>>
         \/ /\ ~RowMatches(key, p.from.val, p.to.val)
            /\ IF key < p.from.val
                 THEN high' = NextHigh(p.mid) /\ low' = low
                 ELSE low' = NextLow(p.mid) /\ high' = high
            /\ pc' = IF Faults(idx) THEN "crashed" ELSE "search"
            /\ errs' = AddErrors(p.from.err + p.to.err)
            /\ overread' = (overread \/ Past(idx))
            /\ UNCHANGED <<hit, ret>>

\* while (low <= high) fails: return FALSE
V4Exhausted ==
  /\ pc = "search"
  /\ low > high
  /\ pc' = "done"
  /\ hit' = None
  /\ ret' = FALSE
  /\ UNCHANGED <<addr, key, low, high, errs, overread>>

\* a crashed process takes no more steps
Next ==
  \/ \E a \in 0..MaxIPv4 : ip2loc_get_ipv4_entry(a)
  \/ V4Probe
  \/ V4Exhausted

\* the search loop runs on the caller's thread and never waits
Spec == Init /\ [][Next]_vars /\ WF_vars(V4Probe \/ V4Exhausted)

-----------------------------------------------------------------------------
(***************************************************************************)
(* The database format (spec.md 4.3), decoded from the file itself rather  *)
(* than through the readers: the u32 at a 1-based offset, row starts, the *)
(* row holding an address, and what makes an IPv4 table well formed.       *)
(***************************************************************************)
FileWord(p) ==
  IF p >= 1 /\ p + 3 <= Size
  THEN Mem[p] + Byte * Mem[p + 1] + Byte^2 * Mem[p + 2] + Byte^3 * Mem[p + 3]
  ELSE 0

RowStart(r) == FileWord(V4Base + r * DbColumn * 4)

BucketSize == 2^(2 * ByteBits)

(***************************************************************************)
(* Facts of arithmetic on the powers of two above, which the proofs use    *)
(* and cannot derive: they are positive, and a uint32_t is two index       *)
(* buckets wide (2^(4b) = 2^(2b) * 2^(2b)).                                *)
(***************************************************************************)
ASSUME PowerAssumption ==
  /\ {Byte, Byte^2, Byte^3, BucketSize} \subseteq Nat \ {0}
  /\ Word = BucketSize * BucketSize

RowOf(k) == CHOOSE r \in 0..(V4Count - 1) : RowStart(r) <= k /\ k < RowStart(r + 1)

WellFormedV4 ==
  /\ V4Count > 0 /\ DbColumn > 0 /\ V4Base >= 1
  /\ V4Base + V4Count * DbColumn * 4 + 3 <= Size
  /\ RowStart(0) = 0
  /\ RowStart(V4Count) = MaxIPv4
  /\ \A r \in 0..(V4Count - 1) : RowStart(r) < RowStart(r + 1)
  /\ V4Index > 0 =>
       \A b \in 0..(Word \div BucketSize - 1) :
         LET first == RowOf(b * BucketSize)
             last  == RowOf(IF b * BucketSize + BucketSize - 1 < MaxIPv4
                            THEN b * BucketSize + BucketSize - 1 ELSE MaxIPv4 - 1)
         IN  /\ V4Index + 8 * b + 7 <= Size
             /\ FileWord(V4Index + 8 * b) <= first
             /\ last <= FileWord(V4Index + 8 * b + 4)
             /\ FileWord(V4Index + 8 * b + 4) < V4Count

(***************************************************************************)
(* The records of a well-formed database lie in the file (spec.md 4.3):   *)
(* the columns of the fields the database type has fit in a row, and the *)
(* string a field's offset points at (its length byte, then that many     *)
(* bytes; 3 further on for country_long) ends before the end of the file. *)
(***************************************************************************)
FieldsInRow == \A f \in RecordFields : Pos(Table[f]) <= DbColumn

StringAt(r, f) == FileWord(V4Base + r * (DbColumn * 4) + 4 * (Pos(Table[f]) - 1)) + Skip[f]

StringsInFile ==
  \A r \in 0..(V4Count - 1), f \in RecordFields \ {"latitude", "longitude"} :
    StringAt(r, f) + ByteAt(StringAt(r, f)) < Size

RecordsInFile == WellFormedV4 /\ FieldsInRow /\ StringsInFile

(***************************************************************************)
(* LookupCorrect (spec.md 4.3 and 5): on a well-formed database a lookup   *)
(* of ip2loc_get_ipv4_entry() returns the row whose [start, next start)    *)
(* holds the address, and the last row for MAX_IPV4_RANGE, whose bound is  *)
(* exclusive.  It needs the index window, the uint32 midpoint and the      *)
(* window updates of IP2Location_get_ipv4_record() to agree.               *)
(***************************************************************************)
LookupCorrect ==
  WellFormedV4 /\ pc = "done" =>
    hit = IF addr = MaxIPv4 THEN V4Count - 1 ELSE RowOf(addr)

(***************************************************************************)
(* Terminates: every lookup that enters the while loop of                  *)
(* IP2Location_get_ipv4_record() returns (or crashes), on any database.    *)
(***************************************************************************)
Terminates == pc = "search" ~> pc \in {"done", "crashed"}

(***************************************************************************)
(* HitIsRow (spec.md 4.3, 6: an address outside every row is NotFound):   *)
(* when IP2Location_get_ipv4_record() reports a match, the row it matched *)
(* is a row of the table and holds the searched number.                    *)
(***************************************************************************)
HitIsRow ==
  pc = "done" /\ hit # None =>
    /\ hit \in 0..(V4Count - 1)
    /\ RowStart(hit) <= key /\ key < RowStart(hit + 1)

(***************************************************************************)
(* ReadsInBounds (spec.md 4.2): no read of a lookup touches a byte at or   *)
(* past the mapped length st_size, which sh_mem_max bounds.                *)
(***************************************************************************)
ReadsInBounds == ~overread

(***************************************************************************)
(* NoCrash (spec.md 4.3, 7): a lookup never faults, whatever the header    *)
(* and the contents of the mapping are.                                    *)
(***************************************************************************)
NoCrash == pc # "crashed"

(***************************************************************************)
(* The lookup implements its contract (IP2LocAbstract): with the loop      *)
(* hidden, ip2loc_get_ipv4_entry() is a call of the address and the match *)
(* of IP2Location_get_ipv4_record() its return with the row LookupCorrect *)
(* names, and a called lookup returns.  It needs a database whose records *)
(* lie in the file (RecordsInFile): then no read faults and the loop never *)
(* runs out of window.                                                     *)
(***************************************************************************)
LookupAnswer(a) == IF a = MaxIPv4 THEN V4Count - 1 ELSE RowOf(a)

Contract == INSTANCE IP2LocAbstract
              WITH Addrs <- 0..MaxIPv4, Answer <- LookupAnswer,
                   apc <- IF pc = "search" THEN "busy" ELSE pc,
                   aaddr <- addr, ahit <- hit

\* the lookup behaves as its contract, which answers every call it took
ImplementsContract == Contract!ASpec

=============================================================================
