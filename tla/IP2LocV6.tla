------------------------------ MODULE IP2LocV6 ------------------------------
(***************************************************************************)
(* The IPv6 lookup of src/src/ip2loc.c: ip2loc_get_ipv6_entry() and        *)
(* IP2Location_get_ipv6_record(), over IP2Location_read8() and             *)
(* IP2Location_read_ipv6_addr(), with the readers, the record read and the *)
(* lookup variables of IP2LocLookup.  In a v6 lookup addr and key are      *)
(* addresses of AddrBytes bytes (16 in the code), Byte[0] first.           *)
(*                                                                         *)
(* A row of the v6 table is the address (AddrBytes bytes, least            *)
(* significant first) followed by the columns 2.. of the row;              *)
(* db_column * 4 + 12 is its width, 12 being AddrBytes - 4.                *)
(***************************************************************************)
EXTENDS IP2LocLookup

CONSTANTS
  AddrBytes,   \* sizeof (struct in6_addr)
  V6Count,     \* loc->ipv6_db_count
  V6Base,      \* loc->ipv6_db_addr
  V6Index,     \* loc->ipv6_index_db_addr, 0 when there is no index table
  Junk,        \* what the bytes of an uninitialised struct in6_addr may hold
  Addrs        \* the addresses callers look up

ASSUME V6Assumption ==
  /\ AddrBytes \in Nat /\ AddrBytes >= 6
  /\ {V6Count, V6Base, V6Index} \subseteq 0..(Word - 1)
  /\ Junk \subseteq [0..(AddrBytes - 1) -> 0..(Byte - 1)] /\ Junk # {}
  /\ Addrs \subseteq [0..(AddrBytes - 1) -> 0..(Byte - 1)]

Addr6 == [0..(AddrBytes - 1) -> 0..(Byte - 1)]

\* the number an address stands for, most significant byte first
AddrNum(a) ==
  LET n[i \in 0..AddrBytes] == IF i = 0 THEN 0 ELSE n[i - 1] * Byte + a[i - 1]
  IN  n[AddrBytes]

\* IN6_IS_ADDR_V4MAPPED(): zero bytes, two 0xff bytes, then the IPv4 address
V4Mapped(a) ==
  /\ \A i \in 0..(AddrBytes - 7) : a[i] = 0
  /\ a[AddrBytes - 6] = Byte - 1 /\ a[AddrBytes - 5] = Byte - 1

(***************************************************************************)
(* ipv6_compare(): the first byte, from Byte[0], where the addresses      *)
(* differ decides; equal addresses compare 0.                              *)
(***************************************************************************)
ipv6_compare(a1, a2) ==
  LET c[i \in 0..AddrBytes] ==
        IF i = AddrBytes THEN 0
        ELSE IF a1[i] > a2[i] THEN 1
        ELSE IF a1[i] < a2[i] THEN -1
        ELSE c[i + 1]
  IN  c[0]

(***************************************************************************)
(* IP2Location_read8(): the byte at position - 1 when                      *)
(* sh_mem_ptr + position - 1 <= sh_mem_max, else 0 and an index error.    *)
(* The test admits position - 1 = st_size, one byte past the file.        *)
(***************************************************************************)
IP2Location_read8(p) ==
  IF p - 1 <= Size THEN [val |-> ByteAt(U32(p - 1)), err |-> 0, idx |-> {U32(p - 1)}]
  ELSE [val |-> 0, err |-> 1, idx |-> {}]

\* mutant: the address bytes taken in file order, not reversed
MutantReadAddrForward(p) ==
  LET r == [i \in 0..(AddrBytes - 1) |-> IP2Location_read8(U32(p + i))]
  IN  [val |-> [i \in 0..(AddrBytes - 1) |-> r[i].val],
       err |-> Cardinality({i \in 0..(AddrBytes - 1) : r[i].err = 1}),
       idx |-> UNION {r[i].idx : i \in 0..(AddrBytes - 1)}]

\* IP2Location_read_ipv6_addr(): Byte[i] = read8(position + 15 - i)
IP2Location_read_ipv6_addr(p) ==
  LET r == [i \in 0..(AddrBytes - 1) |-> IP2Location_read8(U32(p + (AddrBytes - 1 - i)))]
  IN  [val |-> [i \in 0..(AddrBytes - 1) |-> r[i].val],
       err |-> Cardinality({i \in 0..(AddrBytes - 1) : r[i].err = 1}),
       idx |-> UNION {r[i].idx : i \in 0..(AddrBytes - 1)}]

\* column = dbcolumn * 4 + 12
V6Column == U32(U32(DbColumn * 4) + (AddrBytes - 4))

\* mutant: the index bucket taken from the last two bytes
MutantBucketLowBytes(k) == k[AddrBytes - 2] * Byte + k[AddrBytes - 1]

\* ipnum1 = (ipno.u.Byte[0] * 256) + ipno.u.Byte[1]
IndexBucket6(k) == k[0] * Byte + k[1]

\* mutant: the "if (!high) return (FALSE)" test left out
MutantRowsAlways == FALSE

\* if (!high) return (FALSE): high starts as ipv6_db_count
NoRows6 == V6Count = 0

-----------------------------------------------------------------------------
(***************************************************************************)
(* ip2loc_get_ipv6_entry(addr): a v4-mapped address sets only              *)
(* parsed_ipv.ipv4, and IP2Location_get_ipv6_record() then searches with   *)
(* parsed_ipv.ipv6, which nothing wrote: any of Junk.  With no rows the    *)
(* record function returns FALSE; otherwise the window is [low, high]      *)
(* from the index bucket of the first two bytes, or [0, ipv6_db_count].   *)
(***************************************************************************)
ip2loc_get_ipv6_entry(a) ==
  \E k \in IF V4Mapped(a) THEN Junk ELSE {a} :
    LET ipnum1   == IndexBucket6(k)
        indexpos == U32(V6Index + U32(ipnum1 * 8))
        lo       == IP2Location_read32(indexpos)
        hi       == IP2Location_read32(U32(indexpos + 4))
    IN  /\ pc \in {"idle", "done"}
        /\ addr' = a
        /\ key' = k
        /\ hit' = None
        /\ ret' = FALSE
        /\ \/ /\ NoRows6
              /\ pc' = "done"
              /\ errs' = 0 /\ overread' = FALSE
              /\ UNCHANGED <<low, high>>
           \/ /\ ~NoRows6 /\ V6Index > 0
              /\ low' = lo.val
              /\ high' = hi.val
              /\ errs' = AddErrors(lo.err + hi.err)
              /\ overread' = Past(lo.idx \cup hi.idx)
              /\ pc' = IF Faults(lo.idx \cup hi.idx) THEN "crashed" ELSE "search"
           \/ /\ ~NoRows6 /\ V6Index = 0
              /\ low' = 0
              /\ high' = V6Count
              /\ errs' = 0 /\ overread' = FALSE
              /\ pc' = "search"

(***************************************************************************)
(* One iteration of the while loop of IP2Location_get_ipv6_record(): the  *)
(* addresses of rows mid and mid + 1 are read; a match reads the record   *)
(* 12 bytes into row mid and returns, otherwise the window shrinks.        *)
(***************************************************************************)
V6Probe ==
  LET mid  == U32(low + high) \div 2
      row  == U32(V6Base + U32(mid * V6Column))
      from == IP2Location_read_ipv6_addr(row)
      to   == IP2Location_read_ipv6_addr(U32(V6Base + U32(U32(mid + 1) * V6Column)))
      idx  == from.idx \cup to.idx
  IN  /\ pc = "search"
      /\ low <= high
      /\ UNCHANGED <<addr, key>>
      /\ \/ /\ ipv6_compare(key, from.val) >= 0 /\ ipv6_compare(key, to.val) < 0
            /\ LET rec == RecordAt[U32(row + (AddrBytes - 4))]
               IN  /\ pc' = IF Faults(idx \cup rec.idx) THEN "crashed" ELSE "done"
                   /\ hit' = mid
                   /\ ret' = rec.ok
                   /\ errs' = AddErrors(from.err + to.err + rec.err)
                   /\ overread' = (overread \/ Past(idx \cup rec.idx))
            /\ UNCHANGED <<low, high>>
         \/ /\ ~(ipv6_compare(key, from.val) >= 0 /\ ipv6_compare(key, to.val) < 0)
            /\ IF ipv6_compare(key, from.val) < 0
                 THEN high' = NextHigh(mid) /\ low' = low
                 ELSE low' = NextLow(mid) /\ high' = high
            /\ pc' = IF Faults(idx) THEN "crashed" ELSE "search"
            /\ errs' = AddErrors(from.err + to.err)
            /\ overread' = (overread \/ Past(idx))
            /\ UNCHANGED <<hit, ret>>

Next6 ==
  \/ \E a \in Addrs : ip2loc_get_ipv6_entry(a)
  \/ V6Probe
  \/ V4Exhausted

Spec6 == Init /\ [][Next6]_vars /\ WF_vars(V6Probe \/ V4Exhausted)

-----------------------------------------------------------------------------
(***************************************************************************)
(* The v6 table as the file holds it, decoded without the readers: the    *)
(* address of row r (AddrBytes bytes from 1-based offset V6Base + r * W,   *)
(* least significant first), the row holding an address, and a well-      *)
(* formed table: rows ascending from 0, index buckets (by the first two   *)
(* bytes) that bracket their rows.                                         *)
(***************************************************************************)
FileByte(i) == IF i >= 1 /\ i <= Size THEN Mem[i] ELSE 0

RowAddr6(r) ==
  [i \in 0..(AddrBytes - 1) |-> FileByte(V6Base + r * (DbColumn * 4 + AddrBytes - 4) + AddrBytes - 1 - i)]

RowStart6(r) == AddrNum(RowAddr6(r))

RowOf6(n) == CHOOSE r \in 0..(V6Count - 1) : RowStart6(r) <= n /\ n < RowStart6(r + 1)

Bucket6 == Byte^(AddrBytes - 2)

WellFormedV6 ==
  /\ V6Count > 0 /\ DbColumn > 0 /\ V6Base >= 1
  /\ V6Base + (V6Count + 1) * (DbColumn * 4 + AddrBytes - 4) <= Size
  /\ RowStart6(0) = 0
  /\ \A r \in 0..(V6Count - 1) : RowStart6(r) < RowStart6(r + 1)
  /\ V6Index > 0 =>
       \A b \in 0..(Byte * Byte - 1) :
         LET first == b * Bucket6
             last  == b * Bucket6 + Bucket6 - 1
         IN  /\ V6Index + 8 * b + 7 <= Size
             /\ first < RowStart6(V6Count) =>
                  FileWord(V6Index + 8 * b) <= RowOf6(first)
             /\ FileWord(V6Index + 8 * b + 4) < V6Count
             /\ last < RowStart6(V6Count) =>
                  RowOf6(last) <= FileWord(V6Index + 8 * b + 4)

(***************************************************************************)
(* spec.md 4.3: on a well-formed table a v6 lookup returns the row whose  *)
(* [start, next start) holds the address, and nothing for an address past *)
(* the last row or when the table has no rows.  Stated for the addresses ip2loc_get_ipv6_entry()        *)
(* searches as given (not v4-mapped).  It needs ipv6_compare(), the       *)
(* byte order of IP2Location_read_ipv6_addr(), the index window and the   *)
(* window updates to agree.                                                *)
(***************************************************************************)
V6LookupCorrect ==
  (V6Count = 0 \/ WellFormedV6) /\ pc = "done" /\ ~V4Mapped(addr) =>
    hit = IF V6Count > 0 /\ AddrNum(addr) < RowStart6(V6Count)
          THEN RowOf6(AddrNum(addr)) ELSE None

(***************************************************************************)
(* ip2loc_get_ipv6_entry() is called with v4-mapped addresses too (the    *)
(* branch at its top is for them): the lookup of one returns the row of   *)
(* the v6 table that holds it.                                             *)
(***************************************************************************)
V4MappedFound ==
  WellFormedV6 /\ pc = "done" /\ V4Mapped(addr) /\ AddrNum(addr) < RowStart6(V6Count) =>
    hit = RowOf6(AddrNum(addr))

=============================================================================
