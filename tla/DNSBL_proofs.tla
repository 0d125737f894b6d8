---------------------------- MODULE DNSBL_proofs ----------------------------
(***************************************************************************)
(* Proofs about the DNSBL range matcher, for every address width, every    *)
(* set of SBL references and every DROP/DROPv6 file contents.              *)
(***************************************************************************)
EXTENDS DNSBL, SequenceTheorems, TLAPS

ParseOut == Entry \cup {Skip, Crash}

(***************************************************************************)
(* Each parser maps a line to an entry, Skip or Crash.                     *)
(***************************************************************************)
LEMMA ParseDropType ==
  ASSUME NEW l \in Line
  PROVE  /\ DNSBL_parse_DROP(l) \in ParseOut
         /\ DNSBL_parse_DROPv6(l) \in ParseOut
<1>1. CASE l.kind = "junk"
  BY <1>1 DEF DNSBL_parse_DROP, DNSBL_parse_DROPv6, ParseOut
<1>2. CASE l.kind # "junk"
  <2>1. l \in [kind : {"cidr", "nomark"}, net : Addr, bits : Prefix, ref : Refs]
    BY <1>2 DEF Line
  <2>2. QED
    BY <2>1 DEF DNSBL_parse_DROP, DNSBL_parse_DROPv6, ParseOut, Entry, Family
<1>3. QED
  BY <1>1, <1>2

(***************************************************************************)
(* smartlist_read_file() of a DROP file yields a sequence of parse results. *)
(***************************************************************************)
LEMMA ParseFileType ==
  ASSUME NEW f \in File
  PROVE  /\ DropList!ReadFile(f) \in Seq(ParseOut)
         /\ Drop6List!ReadFile(f) \in Seq(ParseOut)
<1>1. CASE f.present
  <2>1. f.lines \in Seq(Line)
    BY <1>1 DEF File
  <2>2. \A i \in 1..Len(f.lines) : f.lines[i] \in Line
    BY <2>1
  <2>3. QED
    BY <1>1, <2>1, <2>2, ParseDropType DEF DropList!ReadFile, Drop6List!ReadFile
<1>2. CASE ~f.present
  BY <1>2 DEF DropList!ReadFile, Drop6List!ReadFile
<1>3. QED
  BY <1>1, <1>2

(***************************************************************************)
(* A sorted arrangement of crash-free parse results is a list of entries.  *)
(***************************************************************************)
LEMMA SortResultsType ==
  ASSUME NEW m \in Seq(ParseOut),
         \A i \in 1..Len(m) : m[i] # Crash,
         NEW t \in SortedDrop(m)
  PROVE  t \in Seq(Entry)
<1> DEFINE V == DropList!Kept(m)
<1>1. V \subseteq 1..Len(m)
  BY DEF DropList!Kept
<1>2. PICK f \in DropList!IndexMaps(m) : t = [k \in DOMAIN f |-> m[f[k]]]
  BY DEF SortedDrop, DropList!SortResults, DropList!Arrangements
<1>3. PICK n \in 0..Len(m) : f \in [1..n -> V]
  BY <1>2 DEF DropList!IndexMaps
<1>4. n \in Nat /\ DOMAIN f = 1..n
  BY <1>3, LenProperties
<1>6. \A k \in 1..n : m[f[k]] \in Entry
  BY <1>1, <1>3 DEF DropList!Kept, IsKept, ParseOut
<1>7. [k \in 1..n |-> m[f[k]]] \in Seq(Entry)
  BY <1>4, <1>6, IsASeq
<1>8. QED
  BY <1>2, <1>4, <1>7

(***************************************************************************)
(* The range [net & mask, net | ~mask] of an entry holds its network.      *)
(***************************************************************************)
LEMMA RangeBounds ==
  ASSUME NEW e \in Entry
  PROVE  /\ e.net \in Nat
         /\ RangeStart(e) \in Int
         /\ RangeEnd(e) \in Int
         /\ RangeStart(e) <= e.net
         /\ e.net <= RangeEnd(e)
<1>1. BlockSize[e.bits] \in Nat \ {0}
  BY BlockSizeAssumption DEF Entry
<1>2. e.net \in Nat
  BY DEF Entry, Addr
<1>3. QED
  BY <1>1, <1>2 DEF RangeStart, RangeEnd

(***************************************************************************)
(* What the sign of the comparator DNSBL_check_common() passes to          *)
(* smartlist_bsearch() says about the middle entry.                        *)
(***************************************************************************)
LEMMA CompareKeySign ==
  ASSUME NEW fam \in Family, NEW a \in Int, NEW e \in Entry
  PROVE  /\ CompareKey(fam, a, e) = 0 <=> Covers(e, fam, a)
         /\ CompareKey(fam, a, e) < 0 =>
              \/ fam = AF_INET /\ e.family = AF_INET6
              \/ e.family = fam /\ a < RangeStart(e)
         /\ CompareKey(fam, a, e) > 0 =>
              \/ fam = AF_INET6 /\ e.family = AF_INET
              \/ e.family = fam /\ a > RangeEnd(e)
<1>1. RangeStart(e) \in Int /\ RangeEnd(e) \in Int /\ RangeStart(e) <= RangeEnd(e)
  <2>1. e.net \in Nat /\ RangeStart(e) \in Int /\ RangeEnd(e) \in Int
        /\ RangeStart(e) <= e.net /\ e.net <= RangeEnd(e)
    BY RangeBounds
  <2>2. QED
    BY <2>1
<1>2. e.family \in Family
  BY DEF Entry
<1>3. QED
  BY <1>1, <1>2 DEF CompareKey, DNSBL_compare_is_on_net4,
     DNSBL_compare_is_on_net6, RangeCmp, Covers, Family, AF_INET, AF_INET6

(***************************************************************************)
(* Sorted by DNSBL_compare_net(), stated without an operator argument.     *)
(***************************************************************************)
SortedNet(s) == \A x, y \in 1..Len(s) : x < y => DNSBL_compare_net(s[x], s[y]) <= 0

LEMMA SortedNetDef ==
  ASSUME NEW s
  PROVE  DropList!SortedBy(s) <=> SortedNet(s)
BY Zenon DEF DropList!SortedBy, SortedNet

\* an empty list is sorted
LEMMA SortedEmpty == DropList!SortedBy(<<>>)
<1>1. SortedNet(<<>>)
  BY DEF SortedNet
<1>2. QED
  BY <1>1, SortedNetDef

(***************************************************************************)
(* In a list sorted by DNSBL_compare_net() without overlapping networks,   *)
(* no entry at or after one the key compares below covers the key.         *)
(***************************************************************************)
LEMMA NotCoveredAfter ==
  ASSUME NEW s \in Seq(Entry), SortedNet(s), NoOverlap(s),
         NEW fam \in Family, NEW a \in Int,
         NEW j \in 1..Len(s), CompareKey(fam, a, s[j]) < 0,
         NEW i \in 1..Len(s), j <= i
  PROVE  ~Covers(s[i], fam, a)
<1> SUFFICES ASSUME Covers(s[i], fam, a) PROVE FALSE
  OBVIOUS
<1>1. s[i] \in Entry /\ s[j] \in Entry
  OBVIOUS
<1>2. CASE i = j
  BY <1>1, <1>2, CompareKeySign
<1>3. CASE j < i
  <2>1. DNSBL_compare_net(s[j], s[i]) <= 0
    BY <1>3 DEF SortedNet
  <2>2. s[i].family = fam
    BY DEF Covers
  <2>3. CASE fam = AF_INET /\ s[j].family = AF_INET6
    BY <2>1, <2>2, <2>3 DEF DNSBL_compare_net, AF_INET, AF_INET6
  <2>4. CASE s[j].family = fam /\ a < RangeStart(s[j])
    <3>1. s[j].net <= s[i].net
      BY <2>1, <2>2, <2>4, <1>1, RangeBounds DEF DNSBL_compare_net
    <3>2. RangeEnd(s[j]) < RangeStart(s[i]) \/ RangeEnd(s[i]) < RangeStart(s[j])
      BY <1>3, <2>2, <2>4 DEF NoOverlap
    <3>3. QED
      BY <1>1, <3>1, <3>2, <2>4, RangeBounds DEF Covers
  <2>5. QED
    BY <1>1, <2>3, <2>4, CompareKeySign
<1>4. QED
  BY <1>2, <1>3

(***************************************************************************)
(* Symmetrically, no entry at or before one the key compares above covers  *)
(* the key.                                                                *)
(***************************************************************************)
LEMMA NotCoveredBefore ==
  ASSUME NEW s \in Seq(Entry), SortedNet(s), NoOverlap(s),
         NEW fam \in Family, NEW a \in Int,
         NEW j \in 1..Len(s), CompareKey(fam, a, s[j]) > 0,
         NEW i \in 1..Len(s), i <= j
  PROVE  ~Covers(s[i], fam, a)
<1> SUFFICES ASSUME Covers(s[i], fam, a) PROVE FALSE
  OBVIOUS
<1>1. s[i] \in Entry /\ s[j] \in Entry
  OBVIOUS
<1>2. CASE i = j
  BY <1>1, <1>2, CompareKeySign
<1>3. CASE i < j
  <2>1. DNSBL_compare_net(s[i], s[j]) <= 0
    BY <1>3 DEF SortedNet
  <2>2. s[i].family = fam
    BY DEF Covers
  <2>3. CASE fam = AF_INET6 /\ s[j].family = AF_INET
    BY <2>1, <2>2, <2>3 DEF DNSBL_compare_net, AF_INET, AF_INET6
  <2>4. CASE s[j].family = fam /\ a > RangeEnd(s[j])
    <3>1. s[i].net <= s[j].net
      BY <2>1, <2>2, <2>4, <1>1, RangeBounds DEF DNSBL_compare_net
    <3>2. RangeEnd(s[j]) < RangeStart(s[i]) \/ RangeEnd(s[i]) < RangeStart(s[j])
      BY <1>3, <2>2, <2>4 DEF NoOverlap
    <3>3. QED
      BY <1>1, <3>1, <3>2, <2>4, RangeBounds DEF Covers
  <2>5. QED
    BY <1>1, <2>3, <2>4, CompareKeySign
<1>4. QED
  BY <1>2, <1>3

(***************************************************************************)
(* Addresses are naturals, and 0 is one: 2^AddrBits = BlockSize[0] > 0.   *)
(***************************************************************************)
LEMMA AddrFacts ==
  /\ \A a \in Addr : a \in Nat
  /\ 0 \in Addr
<1>1. \A a \in Addr : a \in Nat
  BY DEF Addr
<1>2. 2^AddrBits \in Nat \ {0}
  <2>1. 0 \in Prefix
    BY AddrBitsAssumption DEF Prefix
  <2>2. BlockSize[0] \in Nat \ {0} /\ BlockSize[0] = 2^(AddrBits - 0)
    BY <2>1, BlockSizeAssumption
  <2>3. AddrBits - 0 = AddrBits
    BY AddrBitsAssumption
  <2>4. QED
    BY <2>2, <2>3
<1>3. 0 \in Addr
  BY <1>2 DEF Addr
<1>4. QED
  BY <1>1, <1>3

(***************************************************************************)
(* What DNSBL_init() reads: DNSBL_parse_and_add() of both files gives a    *)
(* sequence of parse results, and none at all when both files are absent. *)
(***************************************************************************)
Parsed(f4, f6) ==
  DropList!ReadFile(f4) \o Drop6List!ReadFile(f6)

LEMMA ParsedType ==
  ASSUME NEW f4 \in File, NEW f6 \in File
  PROVE  /\ Parsed(f4, f6) \in Seq(ParseOut)
         /\ ~f4.present /\ ~f6.present => Parsed(f4, f6) = <<>>
<1>1. DropList!ReadFile(f4) \in Seq(ParseOut)
      /\ Drop6List!ReadFile(f6) \in Seq(ParseOut)
  BY ParseFileType
<1>2. Parsed(f4, f6) \in Seq(ParseOut)
  BY <1>1, ConcatProperties DEF Parsed
<1>3. ASSUME ~f4.present, ~f6.present PROVE Parsed(f4, f6) = <<>>
  <2>1. DropList!ReadFile(f4) = <<>> /\ Drop6List!ReadFile(f6) = <<>>
    BY <1>3 DEF DropList!ReadFile, Drop6List!ReadFile
  <2>2. QED
    BY <2>1, EmptySeq, ConcatEmptySeq DEF Parsed
<1>4. QED
  BY <1>2, <1>3

(***************************************************************************)
(* smartlist_sort() leaves the list sorted, and an empty list empty.       *)
(***************************************************************************)
LEMMA SortedDropFacts ==
  ASSUME NEW m \in Seq(ParseOut), NEW t \in SortedDrop(m)
  PROVE  /\ SortedNet(t)
         /\ m = <<>> => t = <<>>
<1>1. SortedNet(t)
  <2>1. DropList!SortedBy(t)
    BY DEF SortedDrop, DropList!SortResults
  <2>2. QED
    BY <2>1, SortedNetDef
<1>2. ASSUME m = <<>> PROVE t = <<>>
  <2>1. DropList!Kept(m) = {}
    BY <1>2 DEF DropList!Kept
  <2>2. PICK f \in DropList!IndexMaps(m) : t = [k \in DOMAIN f |-> m[f[k]]]
    BY DEF SortedDrop, DropList!SortResults, DropList!Arrangements
  <2>3. DOMAIN f = {}
    BY <1>2, <2>1, <2>2 DEF DropList!IndexMaps
  <2>4. QED
    BY <2>2, <2>3
<1>3. QED
  BY <1>1, <1>2

-----------------------------------------------------------------------------
(***************************************************************************)
(* The inductive invariant IInv.  LookupSound and LookupComplete are not   *)
(* inductive alone: a step of smartlist_bsearch() is only right because    *)
(* the list is sorted (ListSorted) and the window still holds every entry  *)
(* that covers the key (SearchWindow); DNSBL_init() only yields a typed    *)
(* state because nothing was loaded or looked up before it (BootClean),    *)
(* and DNSBL_check() on a NULL list only because that list is empty        *)
(* (NullEmpty).                                                            *)
(***************************************************************************)
THEOREM InitIInv == Init => IInv
<1> SUFFICES ASSUME Init PROVE IInv
  OBVIOUS
<1>1. TypeOK
  BY AddrFacts, EmptySeq DEF Init, TypeOK, Family
<1>2. ListSorted
  <2>1. SortedNet(<<>>)
    BY DEF SortedNet
  <2>2. QED
    BY <2>1, SortedNetDef DEF Init, ListSorted
<1>3. QED
  BY <1>1, <1>2 DEF Init, IInv, BootClean, NullEmpty, SearchWindow,
     LookupSound, LookupComplete

(***************************************************************************)
(* DNSBL_init() runs at boot, when nothing is loaded or looked up; the      *)
(* list it builds is typed, sorted, and empty when both files are absent.  *)
(***************************************************************************)
LEMMA InitStepIInv ==
  ASSUME IInv,
         NEW enable \in BOOLEAN, NEW f4 \in DropFiles, NEW f6 \in Drop6Files,
         DNSBL_init(enable, f4, f6)
  PROVE  IInv'
<1>1. stage = "boot" /\ pc = "idle" /\ list = <<>> /\ result = 0
  BY DEF DNSBL_init, IInv, BootClean
<1>2. /\ pc' = "idle" /\ result' = 0
      /\ UNCHANGED <<qfam, qaddr, lo, hi>>
  BY <1>1 DEF DNSBL_init
<1>3. f4 \in File /\ f6 \in File
  BY FilesAssumption
<1>4. Parsed(f4, f6) \in Seq(ParseOut)
  BY <1>3, ParsedType
<1>5. TypeOK /\ list = <<>>
  BY <1>1 DEF IInv
<1>6. CASE ~enable \/ \E i \in 1..Len(Parsed(f4, f6)) : Parsed(f4, f6)[i] = Crash
  <2>1. stage' \in {"ready", "crashed"} /\ UNCHANGED <<listNull, list>>
    BY <1>6 DEF DNSBL_init, Parsed
  <2>2. ListSorted'
    BY <1>5, <2>1, SortedEmpty DEF ListSorted
  <2>3. QED
    BY <1>2, <1>5, <2>1, <2>2 DEF IInv, TypeOK, BootClean, NullEmpty,
       SearchWindow, LookupSound, LookupComplete
<1>7. CASE enable /\ ~\E i \in 1..Len(Parsed(f4, f6)) : Parsed(f4, f6)[i] = Crash
  <2>1. /\ stage' = "ready"
        /\ listNull' = ~(f4.present \/ f6.present)
        /\ list' \in SortedDrop(Parsed(f4, f6))
    BY <1>7 DEF DNSBL_init, Parsed
  <2>2. list' \in Seq(Entry)
    BY <1>4, <1>7, <2>1, SortResultsType
  <2>3. ListSorted'
    BY <1>4, <2>1, SortedDropFacts, SortedNetDef DEF ListSorted
  <2>4. NullEmpty'
    BY <1>3, <1>4, <2>1, ParsedType, SortedDropFacts DEF NullEmpty
  <2>5. TypeOK'
    BY <1>2, <1>5, <2>1, <2>2 DEF TypeOK
  <2>6. QED
    BY <1>2, <2>1, <2>3, <2>4, <2>5 DEF IInv, BootClean, SearchWindow,
       LookupSound, LookupComplete
<1>8. QED
  BY <1>6, <1>7

(***************************************************************************)
(* DNSBL_exit() empties the list outside a search; the stale result is    *)
(* no longer tied to the list.                                             *)
(***************************************************************************)
LEMMA ExitStepIInv ==
  ASSUME IInv, DNSBL_exit
  PROVE  IInv'
<1>1. /\ stage' = "exited" /\ listNull' = TRUE /\ list' = <<>> /\ result' = result
      /\ pc' # "search" /\ UNCHANGED <<pc, qfam, qaddr, lo, hi>>
  BY DEF DNSBL_exit
<1>2. TypeOK'
  BY <1>1, EmptySeq DEF IInv, TypeOK
<1>3. ListSorted'
  BY <1>1, SortedEmpty DEF ListSorted
<1>4. QED
  BY <1>1, <1>2, <1>3 DEF IInv, BootClean, NullEmpty, SearchWindow,
     LookupSound, LookupComplete

(***************************************************************************)
(* DNSBL_check() either answers "not listed" at once, for a non-global     *)
(* address or a NULL or empty list, or opens the window on the whole list. *)
(***************************************************************************)
LEMMA CheckStepIInv ==
  ASSUME IInv, NEW fam \in Family, NEW a \in Addr, DNSBL_check(fam, a)
  PROVE  IInv'
<1>1. /\ qfam' = fam /\ qaddr' = a
      /\ UNCHANGED <<stage, listNull, list>>
  BY DEF DNSBL_check
<1>2. TypeOK /\ BootClean /\ NullEmpty /\ ListSorted
  BY DEF IInv
<1>3. stage # "boot"
  BY DEF DNSBL_check
<1>4. CASE a \in Special \/ listNull \/ list = <<>>
  <2>1. pc' = "done" /\ result' = 0 /\ UNCHANGED <<lo, hi>>
    BY <1>4 DEF DNSBL_check
  <2>2. LookupComplete'
    BY <1>1, <1>2, <1>4, <2>1, EmptySeq DEF NullEmpty, LookupComplete
  <2>3. QED
    BY <1>1, <1>2, <1>3, <2>1, <2>2 DEF IInv, TypeOK, BootClean, NullEmpty,
       ListSorted, SearchWindow, LookupSound
<1>5. CASE ~(a \in Special \/ listNull \/ list = <<>>)
  <2>1. pc' = "search" /\ lo' = 1 /\ hi' = Len(list) /\ UNCHANGED result
    BY <1>5 DEF DNSBL_check
  <2>2. Len(list) \in Nat
    BY <1>2, LenProperties DEF TypeOK
  <2>3. SearchWindow'
    BY <1>1, <1>5, <2>1, <2>2 DEF SearchWindow
  <2>4. QED
    BY <1>1, <1>2, <1>3, <2>1, <2>2, <2>3 DEF IInv, TypeOK, BootClean,
       NullEmpty, ListSorted, LookupSound, LookupComplete
<1>6. QED
  BY <1>4, <1>5

(***************************************************************************)
(* A smartlist_bsearch() loop that ends with an empty window has, by       *)
(* SearchWindow, no covering entry left to miss.                           *)
(***************************************************************************)
LEMMA ExhaustedStepIInv ==
  ASSUME IInv, BSearchExhausted
  PROVE  IInv'
<1>1. /\ pc = "search" /\ lo > hi
      /\ pc' = "done" /\ result' = 0
      /\ UNCHANGED <<stage, listNull, list, qfam, qaddr, lo, hi>>
  BY DEF BSearchExhausted
<1>2. TypeOK /\ BootClean /\ NullEmpty /\ ListSorted /\ SearchWindow
  BY DEF IInv
<1>3. LookupComplete'
  BY <1>1, <1>2 DEF TypeOK, SearchWindow, LookupComplete
<1>4. QED
  BY <1>1, <1>2, <1>3 DEF IInv, TypeOK, BootClean, NullEmpty, ListSorted,
     SearchWindow, LookupSound

(***************************************************************************)
(* One iteration of smartlist_bsearch(): a match is a covering entry; a    *)
(* key above the middle entry has no covering entry at or below mid, and a *)
(* key below it none at or above mid (NotCoveredBefore/After), so the      *)
(* narrowed window still holds them all, and "not found" at mid = 1 is    *)
(* right.                                                                  *)
(***************************************************************************)
LEMMA SearchStepIInv ==
  ASSUME IInv, BSearchStep
  PROVE  IInv'
<1> DEFINE mid == DropList!BSearchMid(lo, hi)
           c   == CompareKey(qfam, qaddr, list[mid])
<1>1. TypeOK /\ BootClean /\ NullEmpty /\ ListSorted /\ SearchWindow
  BY DEF IInv
<1>2. /\ pc = "search" /\ lo <= hi
      /\ UNCHANGED <<stage, listNull, list, qfam, qaddr>>
  BY DEF BSearchStep
<1>3. /\ 1 <= lo /\ hi <= Len(list) /\ qaddr \notin Special
      /\ NoOverlap(list) =>
           \A i \in 1..Len(list) : Covers(list[i], qfam, qaddr) => lo <= i /\ i <= hi
  BY <1>1, <1>2 DEF SearchWindow
<1>4. lo \in Int /\ hi \in Int /\ mid \in lo..hi /\ mid \in 1..Len(list)
  BY <1>1, <1>2, <1>3 DEF TypeOK, DropList!BSearchMid
<1>5. /\ list \in Seq(Entry) /\ list[mid] \in Entry
      /\ qfam \in Family /\ qaddr \in Int
  BY <1>1, <1>4, AddrFacts DEF TypeOK
<1>6. SortedNet(list)
  BY <1>1, SortedNetDef DEF ListSorted
<1>7. stage # "boot"
  BY <1>1, <1>2 DEF BootClean
<1> HIDE DEF mid
<1>8. CASE c = 0 /\ pc' = "done" /\ result' = mid /\ UNCHANGED <<lo, hi>>
  <2>1. Covers(list[mid], qfam, qaddr)
    BY <1>5, <1>8, CompareKeySign
  <2>2. QED
    BY <1>1, <1>2, <1>3, <1>4, <1>7, <1>8, <2>1 DEF IInv, TypeOK, BootClean,
       NullEmpty, ListSorted, SearchWindow, LookupSound, LookupComplete
<1>9. CASE c > 0 /\ lo' = mid + 1 /\ UNCHANGED <<pc, hi, result>>
  <2>1. ASSUME NoOverlap(list), NEW i \in 1..Len(list), Covers(list[i], qfam, qaddr)
        PROVE  mid + 1 <= i /\ i <= hi
    <3>1. ~(i <= mid)
      BY <1>4, <1>5, <1>6, <1>9, <2>1, NotCoveredBefore
    <3>2. QED
      BY <1>3, <1>4, <2>1, <3>1
  <2>2. SearchWindow'
    BY <1>2, <1>3, <1>4, <1>9, <2>1 DEF SearchWindow
  <2>3. QED
    BY <1>1, <1>2, <1>4, <1>7, <1>9, <2>2 DEF IInv, TypeOK, BootClean,
       NullEmpty, ListSorted, LookupSound, LookupComplete
<1>10. CASE c < 0 /\ mid > 1 /\ hi' = mid - 1 /\ UNCHANGED <<pc, lo, result>>
  <2>1. ASSUME NoOverlap(list), NEW i \in 1..Len(list), Covers(list[i], qfam, qaddr)
        PROVE  lo <= i /\ i <= mid - 1
    <3>1. ~(mid <= i)
      BY <1>4, <1>5, <1>6, <1>10, <2>1, NotCoveredAfter
    <3>2. QED
      BY <1>3, <1>4, <2>1, <3>1
  <2>2. SearchWindow'
    BY <1>2, <1>3, <1>4, <1>10, <2>1 DEF SearchWindow
  <2>3. QED
    BY <1>1, <1>2, <1>4, <1>7, <1>10, <2>2 DEF IInv, TypeOK, BootClean,
       NullEmpty, ListSorted, LookupSound, LookupComplete
<1>11. CASE c < 0 /\ mid = 1 /\ pc' = "done" /\ result' = 0 /\ UNCHANGED <<lo, hi>>
  <2>1. ASSUME NoOverlap(list), NEW i \in 1..Len(list)
        PROVE  ~Covers(list[i], qfam, qaddr)
    <3>1. mid <= i
      BY <1>4, <1>11
    <3>2. QED
      BY <1>4, <1>5, <1>6, <1>11, <2>1, <3>1, NotCoveredAfter
  <2>2. LookupComplete'
    BY <1>2, <1>11, <2>1 DEF LookupComplete
  <2>3. QED
    BY <1>1, <1>2, <1>7, <1>11, <2>2 DEF IInv, TypeOK, BootClean, NullEmpty,
       ListSorted, SearchWindow, LookupSound
<1>12. QED
  BY <1>8, <1>9, <1>10, <1>11 DEF BSearchStep, mid

\* IInv is preserved by every step of Next and by stuttering.
THEOREM NextIInv == IInv /\ [Next]_vars => IInv'
<1> SUFFICES ASSUME IInv, [Next]_vars PROVE IInv'
  OBVIOUS
<1>1. CASE \E enable \in BOOLEAN, f4 \in DropFiles, f6 \in Drop6Files :
             DNSBL_init(enable, f4, f6)
  BY <1>1, InitStepIInv
<1>2. CASE \E fam \in Family, a \in Addr : DNSBL_check(fam, a)
  BY <1>2, CheckStepIInv
<1>3. CASE BSearchStep
  BY <1>3, SearchStepIInv
<1>4. CASE BSearchExhausted
  BY <1>4, ExhaustedStepIInv
<1>5. CASE DNSBL_exit
  BY <1>5, ExitStepIInv
<1>6. CASE UNCHANGED vars
  BY <1>6 DEF vars, IInv, TypeOK, BootClean, NullEmpty, ListSorted,
     SearchWindow, LookupSound, LookupComplete, NoOverlap, Covers
<1>7. QED
  BY <1>1, <1>2, <1>3, <1>4, <1>5, <1>6 DEF Next

THEOREM IInvInvariant == Spec => []IInv
BY InitIInv, NextIInv, PTL DEF Spec

(***************************************************************************)
(* TypeOK: the state of DNSBL_init/check/exit and of smartlist_bsearch()   *)
(* stays well typed; in particular the index DNSBL_check_common() reads   *)
(* the SBL reference at always lies in DNSBL_list.                         *)
(***************************************************************************)
THEOREM TypeCorrect == Spec => []TypeOK
BY IInvInvariant, PTL DEF IInv

(***************************************************************************)
(* LookupSound: every SBL reference DNSBL_check_ipv4/ipv6() reports is of  *)
(* a network of the address's family that contains the address, for every *)
(* address width and all DROP/DROPv6 contents.                            *)
(***************************************************************************)
THEOREM LookupSoundness == Spec => []LookupSound
BY IInvInvariant, PTL DEF IInv

(***************************************************************************)
(* LookupComplete: with non-overlapping networks, "not listed" from        *)
(* DNSBL_check_ipv4/ipv6() for a global address is right.                 *)
(***************************************************************************)
THEOREM LookupCompleteness == Spec => []LookupComplete
BY IInvInvariant, PTL DEF IInv

=============================================================================
