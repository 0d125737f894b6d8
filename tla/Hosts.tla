------------------------------- MODULE Hosts -------------------------------
(***************************************************************************)
(* The hosts-file lookup of src/src/hosts.c.  hosts_file_init() reads the  *)
(* file with parse_hosts(), sorts the entries with hosts_compare_name()    *)
(* (address family first, then name) and removes duplicates with the same *)
(* comparator.  hosts_file_check_hostent() binary-searches the list with   *)
(* hosts_bsearch_name(), which compares the name only, and counts the      *)
(* addresses of the hostent that equal the entry found.  The search loop  *)
(* (smartlist_bsearch) is one iteration per step.                         *)
(*                                                                         *)
(* A host name is a member of Names, ordered as strcmp() orders them: a    *)
(* name is a number and strcmp(a, b) has the sign of a - b.  An address is *)
(* a member of Addrs; the memcmp() of two addresses of the same family is *)
(* equality.                                                               *)
(***************************************************************************)
EXTENDS Integers, Sequences, FiniteSets

CONSTANTS
  Names,       \* host names, ordered by strcmp()
  Addrs,       \* addresses (of either family)
  HostsFiles,  \* possible contents of g_cfg.hosts_file
  AddrLists,   \* possible h_addr_list contents of a hostent
  NULL         \* a NULL name

ASSUME NamesAssumption == Names \subseteq Int /\ NULL \notin Names

AF_INET == 2
AF_INET6 == 23
AF_UNSPEC == 0
Family == {AF_INET, AF_INET6}

(***************************************************************************)
(* A line of the hosts file, as parse_hosts() tells lines apart: "v4" and  *)
(* "v6" are "<ip> <name>" lines whose ip _wsock_trace_inet_pton() accepts  *)
(* as AF_INET, resp. only as AF_INET6; "bogus" is a line with fewer than   *)
(* two tokens or an ip neither accepts.                                    *)
(***************************************************************************)
Line == [kind : {"v4", "v6"}, addr : Addrs, name : Names] \cup [kind : {"bogus"}]
File == [present : {FALSE}] \cup [present : {TRUE}, lines : Seq(Line)]

ASSUME FilesAssumption ==
  /\ HostsFiles \subseteq File
  /\ AddrLists \subseteq Seq(Addrs) \ {<<>>}

\* struct host_entry: family, name and address
Entry == [family : Family, name : Names, addr : Addrs]

\* parse_hosts(): what is added to the list; Skip stands for no add_entry()
Skip == [family |-> AF_UNSPEC]

parse_hosts(l) ==
  CASE l.kind = "v4" -> [family |-> AF_INET, name |-> l.name, addr |-> l.addr]
    [] l.kind = "v6" -> [family |-> AF_INET6, name |-> l.name, addr |-> l.addr]
    [] OTHER -> Skip

IsKept(x) == x # Skip

\* mutant: hosts_compare_name() that compares names only
MutantCompareNameOnly(a, b) == a.name - b.name

\* hosts_compare_name(): strcmp() within a family, AF_INET before AF_INET6
hosts_compare_name(a, b) ==
  IF a.family = b.family THEN a.name - b.name ELSE a.family - b.family

\* hosts_bsearch_name(): strcmp (name, he->host_name)
hosts_bsearch_name(key, he) == key - he.name

HostsList == INSTANCE SmartList
               WITH Parser <- parse_hosts, Keep <- IsKept, Cmp <- hosts_compare_name

-----------------------------------------------------------------------------
VARIABLES
  stage,     \* "boot", "ready" (after hosts_file_init), "exited"
  parsed,    \* the parse results of the file read (the history of the load)
  listNull,  \* hosts_list == NULL
  list,      \* the entries of hosts_list
  pc,        \* the lookup: "idle", "search" (in smartlist_bsearch), "done"
  qname,     \* the name looked up
  qfam,      \* host->h_addrtype
  qaddrs,    \* host->h_addr_list
  lo, hi,    \* the binary search window (1-based)
  num        \* the count hosts_file_check_hostent() returns

vars == <<stage, parsed, listNull, list, pc, qname, qfam, qaddrs, lo, hi, num>>

TypeOK ==
  /\ stage \in {"boot", "ready", "exited"}
  /\ parsed \in Seq(Entry \cup {Skip})
  /\ listNull \in BOOLEAN
  /\ list \in Seq(Entry)
  /\ pc \in {"idle", "search", "done"}
  /\ qname \in Names \cup {NULL}
  /\ qfam \in Family \cup {AF_UNSPEC}
  /\ qaddrs \in Seq(Addrs)
  /\ lo \in Int /\ hi \in Int
  /\ num \in Nat

Init ==
  /\ stage = "boot"
  /\ parsed = <<>>
  /\ listNull = TRUE
  /\ list = <<>>
  /\ pc = "idle"
  /\ qname = NULL
  /\ qfam = AF_UNSPEC
  /\ qaddrs = <<>>
  /\ lo = 0 /\ hi = 0
  /\ num = 0

(***************************************************************************)
(* hosts_file_init(): smartlist_read_file() with parse_hosts() (NULL when  *)
(* there is no file), then smartlist_sort() and smartlist_make_uniq(), both *)
(* with hosts_compare_name().                                              *)
(***************************************************************************)
hosts_file_init(f) ==
  /\ stage = "boot"
  /\ stage' = "ready"
  /\ parsed' = HostsList!ReadFile(f)
  /\ listNull' = ~f.present
  /\ list' \in { HostsList!MakeUniq(t) : t \in HostsList!SortResults(parsed') }
  /\ UNCHANGED <<pc, qname, qfam, qaddrs, lo, hi, num>>

\* mutant: the count loop without the h_addrtype test
MutantMatchesNoFamily(he) == Cardinality({i \in 1..Len(qaddrs) : qaddrs[i] = he.addr})

\* the addresses of the hostent equal to the entry's, of the hostent's family
Matches(he) ==
  IF he.family = qfam THEN Cardinality({i \in 1..Len(qaddrs) : qaddrs[i] = he.addr}) ELSE 0

(***************************************************************************)
(* hosts_file_check_hostent(name, host): 0 for a NULL name or list;        *)
(* otherwise smartlist_bsearch() with hosts_bsearch_name(), which finds    *)
(* nothing in an empty list and else starts with the whole list.           *)
(***************************************************************************)
Check(name, fam, addrs) ==
  /\ stage \in {"ready", "exited"}
  /\ pc \in {"idle", "done"}
  /\ qname' = name
  /\ qfam' = fam
  /\ qaddrs' = addrs
  /\ IF name = NULL \/ listNull \/ list = <<>>
     THEN /\ pc' = "done"
          /\ num' = 0
          /\ UNCHANGED <<lo, hi>>
     ELSE /\ pc' = "search"
          /\ lo' = 1
          /\ hi' = Len(list)
          /\ num' = 0
  /\ UNCHANGED <<stage, parsed, listNull, list>>

hosts_file_check_hostent(name, fam, addrs) == Check(name, fam, addrs)

(***************************************************************************)
(* hosts_file_check_addrinfo(name, ai): a single address of family         *)
(* ai_family; a family other than AF_INET and AF_INET6 gives 0.            *)
(***************************************************************************)
hosts_file_check_addrinfo(name, fam, a) ==
  IF fam \in Family
  THEN Check(name, fam, <<a>>)
  ELSE /\ pc \in {"idle", "done"}
       /\ stage \in {"ready", "exited"}
       /\ pc' = "done"
       /\ num' = 0
       /\ qname' = name /\ qfam' = fam /\ qaddrs' = <<a>>
       /\ UNCHANGED <<stage, parsed, listNull, list, lo, hi>>

(***************************************************************************)
(* One iteration of the smartlist_bsearch() loop with hosts_bsearch_name(): *)
(* on a match the count loop of hosts_file_check_hostent() runs over the   *)
(* entry found; > 0 moves lo above mid; < 0 moves hi below mid or ends the *)
(* search at the first index.                                              *)
(***************************************************************************)
BSearchStep ==
  LET mid == HostsList!BSearchMid(lo, hi)
      c   == hosts_bsearch_name(qname, list[mid])
  IN
  /\ pc = "search"
  /\ lo <= hi
  /\ \/ /\ c = 0
        /\ pc' = "done"
        /\ num' = Matches(list[mid])
        /\ UNCHANGED <<lo, hi>>
     \/ /\ c > 0
        /\ lo' = mid + 1
        /\ UNCHANGED <<pc, hi, num>>
     \/ /\ c < 0
        /\ mid > 1
        /\ hi' = mid - 1
        /\ UNCHANGED <<pc, lo, num>>
     \/ /\ c < 0
        /\ mid = 1
        /\ pc' = "done"
        /\ UNCHANGED <<lo, hi, num>>
  /\ UNCHANGED <<stage, parsed, listNull, list, qname, qfam, qaddrs>>

\* The loop ends with lo > hi: not found, hosts_file_check_hostent() gives 0.
BSearchExhausted ==
  /\ pc = "search"
  /\ lo > hi
  /\ pc' = "done"
  /\ UNCHANGED <<stage, parsed, listNull, list, qname, qfam, qaddrs, lo, hi, num>>

\* hosts_file_exit(): smartlist_wipe() and hosts_list = NULL, between lookups
hosts_file_exit ==
  /\ stage = "ready"
  /\ pc # "search"
  /\ stage' = "exited"
  /\ listNull' = TRUE
  /\ list' = <<>>
  /\ UNCHANGED <<parsed, pc, qname, qfam, qaddrs, lo, hi, num>>

Next ==
  \/ \E f \in HostsFiles : hosts_file_init(f)
  \/ \E n \in Names \cup {NULL}, fam \in Family, as \in AddrLists :
       hosts_file_check_hostent(n, fam, as)
  \/ \E n \in Names, fam \in Family \cup {AF_UNSPEC}, a \in Addrs :
       hosts_file_check_addrinfo(n, fam, a)
  \/ BSearchStep
  \/ BSearchExhausted
  \/ hosts_file_exit

Spec == Init /\ [][Next]_vars

-----------------------------------------------------------------------------
\* the entries parse_hosts() added while the file was read
FileEntries == {parsed[i] : i \in {j \in 1..Len(parsed) : IsKept(parsed[j])}}

\* one of the addresses of the lookup is the address of entry e
AddrListed(e) == \E i \in 1..Len(qaddrs) : qaddrs[i] = e.addr

(***************************************************************************)
(* hosts_file_check_hostent() counts an address only when the hosts file   *)
(* has a line with the name looked up, of the hostent's address family,    *)
(* and that address; the count is at most the number of addresses.  The   *)
(* search compares names only, so the entry it lands on may be of the      *)
(* other family: the family test of the count loop is what keeps an IPv6   *)
(* line from vouching for an IPv4 address.                                 *)
(***************************************************************************)
HostsSound ==
  pc = "done" /\ num > 0 =>
    /\ num <= Len(qaddrs)
    /\ \E e \in FileEntries : e.name = qname /\ e.family = qfam /\ AddrListed(e)

(***************************************************************************)
(* After hosts_file_init(), hosts_list holds only lines of the file and,   *)
(* for every (family, name) of the file, exactly one entry: the sort and   *)
(* smartlist_make_uniq() with hosts_compare_name() drop the repeated names *)
(* of a family, never a name of the other family (spec.md 8: the container *)
(* keeps every entry once under the comparator's equality).               *)
(***************************************************************************)
UniqKeepsEveryKey ==
  stage = "ready" =>
    /\ \A i \in 1..Len(list) : list[i] \in FileEntries
    /\ \A e \in FileEntries :
         Cardinality({i \in 1..Len(list) : list[i].family = e.family /\ list[i].name = e.name}) = 1

(***************************************************************************)
(* spec.md 4.1 and 8: a search after the sort finds every entry of the    *)
(* list.  Here: when hosts_list holds the name with the hostent's family   *)
(* and one of its addresses, hosts_file_check_hostent() counts it.        *)
(***************************************************************************)
NameFound ==
  pc = "done" /\ qname \in Names /\ qfam \in Family =>
    ((\E i \in 1..Len(list) : list[i].name = qname /\ list[i].family = qfam /\ AddrListed(list[i]))
       => num > 0)

=============================================================================
