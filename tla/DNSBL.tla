------------------------------- MODULE DNSBL -------------------------------
(***************************************************************************)
(* The CIDR range matcher of src/src/dnsbl.c.  DNSBL_init() parses the     *)
(* Spamhaus DROP (IPv4) and DROPv6 files into one smartlist and sorts it   *)
(* by family, then network.  DNSBL_check_ipv4() / DNSBL_check_ipv6() do a  *)
(* binary search in it with a containment comparator; DNSBL_exit() frees   *)
(* the list.  The binary search loop is modelled one iteration per step.  *)
(*                                                                         *)
(* Addresses of both families are AddrBits wide (32 and 128 in the code).  *)
(* A prefix of b bits covers a block of BlockSize[b] = 2^(AddrBits-b)      *)
(* addresses: net & mask is net - net % BlockSize[b], net | ~mask is that  *)
(* plus BlockSize[b] - 1.                                                  *)
(***************************************************************************)
EXTENDS Integers, Sequences, FiniteSets

CONSTANTS
  AddrBits,    \* address width
  BlockSize,   \* BlockSize[b]: number of addresses covered by a /b prefix
  MinPrefix,   \* the parsers reject bits < 8 (MinPrefix)
  Refs,        \* the SBL references that may follow the 'L' of "SBL"
  DropFiles,   \* possible contents of g_cfg.DNSBL.drop_file
  Drop6Files,  \* possible contents of g_cfg.DNSBL.dropv6_file
  Special      \* addresses INET_util_addr_is_global() says are not global

Addr == 0..(2^AddrBits - 1)
Prefix == 0..AddrBits

ASSUME AddrBitsAssumption == AddrBits \in Nat \ {0}
ASSUME BlockSizeAssumption ==
  /\ BlockSize \in [Prefix -> Nat \ {0}]
  /\ \A b \in Prefix : BlockSize[b] = 2^(AddrBits - b)
ASSUME MinPrefixAssumption == MinPrefix \in Prefix
ASSUME SpecialAssumption == Special \subseteq Addr

AF_INET == 2
AF_INET6 == 23
Family == {AF_INET, AF_INET6}

(***************************************************************************)
(* A line of a DROP file, as far as sscanf() tells lines apart:            *)
(*   "cidr"   "<net>/<bits> ; SBL<ref>"                                    *)
(*   "nomark" "<net>/<bits>" followed by no 'L' at all: sscanf() still     *)
(*            returns 2, and strchr(line, 'L') is NULL                     *)
(*   "junk"   anything sscanf() does not convert twice (comments, blanks)  *)
(* A file is absent, or present with a sequence of lines.                  *)
(***************************************************************************)
Line == [kind : {"cidr", "nomark"}, net : Addr, bits : Prefix, ref : Refs]
          \cup [kind : {"junk"}]
File == [present : {FALSE}] \cup [present : {TRUE}, lines : Seq(Line)]

ASSUME FilesAssumption == DropFiles \cup Drop6Files \subseteq File

(***************************************************************************)
(* struct DNSBL_info: family, network, prefix bits and SBL reference.      *)
(***************************************************************************)
Entry == [family : Family, net : Addr, bits : Prefix, ref : Refs]

(***************************************************************************)
(* What the line parser does with a line: Skip (return before              *)
(* smartlist_add), Crash (strchr() returned NULL), or the entry it adds.   *)
(***************************************************************************)
Skip == [family |-> 0, net |-> 0, bits |-> 0, ref |-> "none"]
Crash == [family |-> 1, net |-> 0, bits |-> 0, ref |-> "none"]

\* DNSBL_parse_DROP(): "%[0-9.]/%d ; SBL", then 8 <= bits <= 32
DNSBL_parse_DROP(l) ==
  IF l.kind = "junk" \/ l.bits < MinPrefix \/ l.bits > AddrBits THEN Skip
  ELSE IF l.kind = "nomark" THEN Crash
  ELSE [family |-> AF_INET, net |-> l.net, bits |-> l.bits, ref |-> l.ref]

\* DNSBL_parse_DROPv6(): "%[a-f0-9:]/%d ; SBL", then only bits >= 8
DNSBL_parse_DROPv6(l) ==
  IF l.kind = "junk" \/ l.bits < MinPrefix THEN Skip
  ELSE IF l.kind = "nomark" THEN Crash
  ELSE [family |-> AF_INET6, net |-> l.net, bits |-> l.bits, ref |-> l.ref]

\* DNSBL_compare_net(): family first (2 - 23 < 0), then network
DNSBL_compare_net(a, b) ==
  IF a.family # b.family THEN a.family - b.family
  ELSE IF a.net < b.net THEN -1
  ELSE IF a.net > b.net THEN 1
  ELSE 0

\* the range [net & mask, net | ~mask] of an entry
RangeStart(e) == e.net - (e.net % BlockSize[e.bits])
RangeEnd(e) == RangeStart(e) + BlockSize[e.bits] - 1

\* INET_util_range4cmp() / INET_util_range6cmp(): below, above or inside
RangeCmp(a, e) ==
  IF a < RangeStart(e) THEN -1 ELSE IF a > RangeEnd(e) THEN 1 ELSE 0

\* mutant: the family test of DNSBL_compare_is_on_net4() left out
MutantOnNet4NoFamily(a, e) == RangeCmp(a, e)

\* DNSBL_compare_is_on_net4(): a wrong-family member steers to index 0
DNSBL_compare_is_on_net4(a, e) ==
  IF e.family # AF_INET THEN -1 ELSE RangeCmp(a, e)

\* mutant: DNSBL_compare_is_on_net6() steers a wrong-family member to index 0
MutantOnNet6WrongBias(a, e) ==
  IF e.family # AF_INET6 THEN -1 ELSE RangeCmp(a, e)

\* DNSBL_compare_is_on_net6(): a wrong-family member steers to the end
DNSBL_compare_is_on_net6(a, e) ==
  IF e.family # AF_INET6 THEN 1 ELSE RangeCmp(a, e)

\* DNSBL_check_common(): the comparator chosen by the key's family
CompareKey(fam, a, e) ==
  IF fam = AF_INET THEN DNSBL_compare_is_on_net4(a, e)
  ELSE DNSBL_compare_is_on_net6(a, e)

-----------------------------------------------------------------------------
VARIABLES
  stage,     \* "boot", "ready" (after DNSBL_init), "exited", "crashed"
  listNull,  \* DNSBL_list == NULL
  list,      \* the entries of DNSBL_list
  pc,        \* the lookup: "idle", "search" (in smartlist_bsearch), "done"
  qfam,      \* family of the address looked up
  qaddr,     \* the address looked up
  lo, hi,    \* the binary search window (1-based)
  result     \* index of the entry found, 0 for "not listed"

vars == <<stage, listNull, list, pc, qfam, qaddr, lo, hi, result>>

TypeOK ==
  /\ stage \in {"boot", "ready", "exited", "crashed"}
  /\ listNull \in BOOLEAN
  /\ list \in Seq(Entry)
  /\ pc \in {"idle", "search", "done"}
  /\ qfam \in Family
  /\ qaddr \in Addr
  /\ lo \in Int
  /\ hi \in Int
  /\ result \in Nat
  /\ stage # "exited" => result \in 0..Len(list)

Init ==
  /\ stage = "boot"
  /\ listNull = TRUE
  /\ list = <<>>
  /\ pc = "idle"
  /\ qfam = AF_INET
  /\ qaddr = 0
  /\ lo = 0
  /\ hi = 0
  /\ result = 0

\* DNSBL_parse_DROP/DROPv6(): smartlist_add() is called for an entry only
IsKept(x) == x # Skip

(***************************************************************************)
(* DNSBL_list is a smartlist read with DNSBL_parse_DROP (DropList) or      *)
(* DNSBL_parse_DROPv6 (Drop6List) and sorted with DNSBL_compare_net.       *)
(***************************************************************************)
DropList == INSTANCE SmartList
              WITH Parser <- DNSBL_parse_DROP, Keep <- IsKept, Cmp <- DNSBL_compare_net
Drop6List == INSTANCE SmartList
              WITH Parser <- DNSBL_parse_DROPv6, Keep <- IsKept, Cmp <- DNSBL_compare_net

\* smartlist_sort(DNSBL_list, DNSBL_compare_net) of the added entries
SortedDrop(parsed) == DropList!SortResults(parsed)

(***************************************************************************)
(* DNSBL_init(): unless disabled, DNSBL_parse_and_add() for drop_file and  *)
(* dropv6_file (an absent file leaves DNSBL_list as it was), then          *)
(* smartlist_sort() with DNSBL_compare_net() if the list is not NULL.      *)
(***************************************************************************)
DNSBL_init(enable, f4, f6) ==
  LET parsed == DropList!ReadFile(f4) \o Drop6List!ReadFile(f6)
  IN
  /\ stage = "boot"
  /\ IF ~enable THEN /\ stage' = "ready"
                     /\ UNCHANGED <<listNull, list>>
     ELSE IF \E i \in 1..Len(parsed) : parsed[i] = Crash
     THEN /\ stage' = "crashed"
          /\ UNCHANGED <<listNull, list>>
     ELSE /\ stage' = "ready"
          /\ listNull' = ~(f4.present \/ f6.present)
          /\ list' \in SortedDrop(parsed)
  /\ UNCHANGED <<pc, qfam, qaddr, lo, hi, result>>

(***************************************************************************)
(* DNSBL_check_ipv4() / DNSBL_check_ipv6(): a non-global address is not   *)
(* looked up; DNSBL_check_common() returns false on a NULL list;           *)
(* smartlist_bsearch() returns "not found" on an empty list and otherwise  *)
(* starts with the window [0, len-1].                                      *)
(***************************************************************************)
DNSBL_check(fam, a) ==
  /\ stage \in {"ready", "exited"}
  /\ pc \in {"idle", "done"}
  /\ qfam' = fam
  /\ qaddr' = a
  /\ IF a \in Special \/ listNull \/ list = <<>>
     THEN /\ pc' = "done"
          /\ result' = 0
          /\ UNCHANGED <<lo, hi>>
     ELSE /\ pc' = "search"
          /\ lo' = 1
          /\ hi' = Len(list)
          /\ UNCHANGED result
  /\ UNCHANGED <<stage, listNull, list>>

(***************************************************************************)
(* One iteration of the smartlist_bsearch() loop: compare the key with    *)
(* the middle member; 0 is a match, > 0 moves lo above mid, < 0 moves hi   *)
(* below mid, or ends the search when mid is the first index.             *)
(***************************************************************************)
BSearchStep ==
  LET mid == DropList!BSearchMid(lo, hi)
      c   == CompareKey(qfam, qaddr, list[mid])
  IN
  /\ pc = "search"
  /\ lo <= hi
  /\ \/ /\ c = 0
        /\ pc' = "done"
        /\ result' = mid
        /\ UNCHANGED <<lo, hi>>
     \/ /\ c > 0
        /\ lo' = mid + 1
        /\ UNCHANGED <<pc, hi, result>>
     \/ /\ c < 0
        /\ mid > 1
        /\ hi' = mid - 1
        /\ UNCHANGED <<pc, lo, result>>
     \/ /\ c < 0
        /\ mid = 1
        /\ pc' = "done"
        /\ result' = 0
        /\ UNCHANGED <<lo, hi>>
  /\ UNCHANGED <<stage, listNull, list, qfam, qaddr>>

\* The smartlist_bsearch() loop ends with lo > hi: not found.
BSearchExhausted ==
  /\ pc = "search"
  /\ lo > hi
  /\ pc' = "done"
  /\ result' = 0
  /\ UNCHANGED <<stage, listNull, list, qfam, qaddr, lo, hi>>

(***************************************************************************)
(* DNSBL_exit(): smartlist_wipe() and DNSBL_list = NULL, at shutdown when  *)
(* no lookup is in progress.  The last answer is left as it was: the       *)
(* sbl_ref it handed out pointed into the entries just freed.              *)
(***************************************************************************)
DNSBL_exit ==
  /\ stage = "ready"
  /\ pc # "search"
  /\ stage' = "exited"
  /\ listNull' = TRUE
  /\ list' = <<>>
  /\ UNCHANGED <<pc, qfam, qaddr, lo, hi, result>>

Next ==
  \/ \E enable \in BOOLEAN, f4 \in DropFiles, f6 \in Drop6Files :
       DNSBL_init(enable, f4, f6)
  \/ \E fam \in Family, a \in Addr : DNSBL_check(fam, a)
  \/ BSearchStep
  \/ BSearchExhausted
  \/ DNSBL_exit

Spec == Init /\ [][Next]_vars

-----------------------------------------------------------------------------
(***************************************************************************)
(* Properties.                                                             *)
(***************************************************************************)
\* entry e covers address a of family fam
Covers(e, fam, a) == e.family = fam /\ RangeStart(e) <= a /\ a <= RangeEnd(e)

\* no two networks of one family in the list share an address
NoOverlap(s) ==
  \A i, j \in 1..Len(s) :
    i # j /\ s[i].family = s[j].family =>
      RangeEnd(s[i]) < RangeStart(s[j]) \/ RangeEnd(s[j]) < RangeStart(s[i])

(***************************************************************************)
(* A finished DNSBL_check() that reports an SBL reference reports one of a *)
(* network of the address's own family that contains the address, and     *)
(* never for a non-global address.  This is about the loaded list: after   *)
(* DNSBL_exit() the reference of the last answer points into freed entries *)
(* and no new lookup can report one.                                       *)
(***************************************************************************)
LookupSound ==
  stage = "ready" /\ pc = "done" /\ result # 0 =>
    /\ Covers(list[result], qfam, qaddr)
    /\ qaddr \notin Special

(***************************************************************************)
(* When the DROP/DROPv6 networks do not overlap, a finished DNSBL_check() *)
(* of a global address that reports "not listed" is right: no network of  *)
(* its family in DNSBL_list contains it.  This needs the sort by family    *)
(* then network and the family bias of both comparators to agree.         *)
(***************************************************************************)
LookupComplete ==
  pc = "done" /\ result = 0 /\ qaddr \notin Special /\ NoOverlap(list) =>
    \A i \in 1..Len(list) : ~Covers(list[i], qfam, qaddr)

(***************************************************************************)
(* spec.md 4.4: an address covered by a listed network is reported as      *)
(* listed, by one of the networks that cover it ("first match only").      *)
(***************************************************************************)
CoveredIsListed ==
  pc = "done" /\ result = 0 /\ qaddr \notin Special =>
    \A i \in 1..Len(list) : ~Covers(list[i], qfam, qaddr)

(***************************************************************************)
(* spec.md 6: DROP lines that do not have the "<net>/<bits> ; SBL<ref>"    *)
(* shape are skipped; reading the files never stops the process.          *)
(***************************************************************************)
ParseNeverCrashes == stage # "crashed"

-----------------------------------------------------------------------------
(***************************************************************************)
(* The inductive invariant behind LookupSound and LookupComplete.  Before  *)
(* DNSBL_init nothing is loaded or looked up; a NULL list is empty;        *)
(* DNSBL_list stays sorted by DNSBL_compare_net; and, the heart of the     *)
(* binary search, while smartlist_bsearch() runs the window [lo, hi] lies  *)
(* in the list and (with non-overlapping networks) holds every entry that  *)
(* covers the address.                                                     *)
(***************************************************************************)
BootClean == stage = "boot" => pc = "idle" /\ list = <<>> /\ result = 0

NullEmpty == listNull => list = <<>>

ListSorted == DropList!SortedBy(list)

SearchWindow ==
  pc = "search" =>
    /\ 1 <= lo
    /\ hi <= Len(list)
    /\ qaddr \notin Special
    /\ NoOverlap(list) =>
         \A i \in 1..Len(list) : Covers(list[i], qfam, qaddr) => lo <= i /\ i <= hi

\* the binary search keeps the covering entries in its window
IInv ==
  /\ TypeOK
  /\ BootClean
  /\ NullEmpty
  /\ ListSorted
  /\ SearchWindow
  /\ LookupSound
  /\ LookupComplete

=============================================================================
