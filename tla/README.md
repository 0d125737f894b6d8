# Formal models of wsock-trace's address enrichment

This directory holds TLA+ models of the lookup components of wsock-trace
(`src/src/`), TLC configurations that model-check them on small instances,
and TLAPS proofs of their main safety properties for every value of the
constants.

## 1. The system

wsock-trace hooks the Winsock API and annotates every traced address.  The
annotation comes from a handful of components that each load a file once at
start-up into a sorted in-memory structure and then answer lookups:

| Component | Source | State | Operations |
|---|---|---|---|
| Sorted container ("smartlist") | `smartlist.c` (not under `src/`; spec.md 4.1) | a growable array of entries | read_file with a line parser, append, sort, make_uniq, bsearch |
| CIDR range matcher | `dnsbl.c` | `DNSBL_list`: DROP/DROPv6 networks sorted by family then network | `DNSBL_init`, `DNSBL_check_ipv4/ipv6`, `DNSBL_exit` |
| DROP refresh policy | `dnsbl.c` | file modification times, `max_days` | `DNSBL_update_files`, `DNSBL_update_file` |
| Geo database reader | `ip2loc.c` | `ip2loc_handle`, `ip2loc_bad`, the mapping `IP2location_Shm` shared between processes, the index-error counter | `ip2loc_init`/`open_file`, `ip2loc_get_ipv4_entry/ipv6_entry`, `ip2loc_exit` |
| Hosts file | `hosts.c` | `hosts_list` sorted by (family, name) | `hosts_file_init`, `hosts_file_check_hostent/addrinfo`, `hosts_file_exit` |
| Services file | `services.c` | `services_list` sorted by (port, protocol bits) | `services_file_init`, the port lookups |
| mmap emulation | `Geo-IP/IPFire/libloc/src/win_mmap.c` | a 10-slot table of live views | `_mmap`, `_munmap` |
| Other | `win_str.c`, the two `python/network.c`, `lj_win.c`, headers | string/date conversion, CPython glue, console output | |

How they interact: every lookup component builds its list with the sorted
container (`smartlist_read_file` with a per-line parser, `smartlist_sort`,
for hosts and services `smartlist_make_uniq`) and answers with
`smartlist_bsearch` and a comparator of its own.  The comparator used to
search must agree with the one used to sort; that agreement, and what
happens where it fails, is the main subject of the models.  The geo
reader shares its memory with other processes running the same DLL.

Behaviours that are hard to test and that the models reach:

* binary search with a containment comparator over nested or
  overlapping ranges, and with a wrong-family bias that must agree with
  the sort order (dnsbl.c);
* parse paths for lines that only half match the expected shape (dnsbl.c);
* uint32 wrap-around in `high = mid - 1` and `(low + high) >> 1`, and
  bounds checks that differ by one between readers (ip2loc.c);
* a lookup that searches with a key nothing initialised (the v4-mapped
  path of ip2loc.c);
* a search key that the list is not sorted by (hosts.c), a comparator
  that is not transitive and a static result shared between threads
  (services.c);
* a bucket table whose free buckets keep stale pointers while the OS
  reuses addresses, and a full table (win_mmap.c);
* time arithmetic in `int`, files deleted between runs, failed downloads
  and unchecked copies in the refresh policy (dnsbl.c).

## 2. Modules

### SmartList (spec-modelled)

`smartlist.c` is not part of `src/`, so its operators follow spec.md 4.1 and
the way `dnsbl.c` calls them.  A list is a TLA+ sequence.  The module is
parameterised by three constant operators, the line parser `Parser(_)`,
`Keep(_)` (the parser added an entry) and the comparator `Cmp(_, _)`, and a
user instantiates it (`DropList == INSTANCE SmartList WITH Parser <-
DNSBL_parse_DROP, ...` in `DNSBL`).  `SortResults(m)` is the set of lists
`smartlist_read_file` followed by `smartlist_sort` can produce: the parsed
lines the parser kept, in any order sorted by `Cmp` (qsort is not stable,
so every sorted arrangement is a possible outcome).  `BSearchMid` is the
midpoint of the search window.

### DNSBL (`dnsbl.c`)

State: `stage` (boot, ready, exited, or crashed when a parser
dereferenced NULL), `listNull` (`DNSBL_list == NULL`), `list` (the
entries), and the lookup in progress: `pc`, `qfam`, `qaddr`, the window
`lo`/`hi` and `result` (index of the entry found, 0 for not found).

Actions, one per handler:

* `DNSBL_init(enable, f4, f6)`: `DNSBL_parse_and_add` of both files, each
  line through `DNSBL_parse_DROP`/`DNSBL_parse_DROPv6` (Skip, Crash, or
  an entry), then `smartlist_sort` with `DNSBL_compare_net`.  An absent
  file leaves the list as it was (NULL when both are absent).
* `DNSBL_check(fam, a)`: `DNSBL_check_ipv4/ipv6` and the start of
  `smartlist_bsearch`: a non-global address (`Special`), a NULL list or an
  empty list answer "not listed" at once.
* `BSearchStep`, `BSearchExhausted`: one iteration of the search loop
  with `DNSBL_compare_is_on_net4/6`; these come from the spec because
  the loop is in `smartlist.c`.
* `DNSBL_exit`: `smartlist_wipe`, `DNSBL_list = NULL`.  The last answer
  (`result`) is left alone, as in the code: the `sbl_ref` it handed out
  pointed into the entries just freed.  `TypeOK` therefore bounds
  `result` by the list only while the list is loaded.

Data abstraction: both families have `AddrBits`-bit addresses (3 in the
runs); a prefix of `b` bits covers `BlockSize[b] = 2^(AddrBits-b)`
addresses, so `net & mask` is `net - net % BlockSize[b]`.  A line of a
DROP file is one of three shapes sscanf tells apart: a full `cidr` line,
a `nomark` line (`<net>/<bits>` without `; SBL`), or `junk`.  SBL
references are model values.

### IP2LocLookup (`ip2loc.c`, IPv4 lookup)

The reader answers a lookup from the bytes of the `.bin` file that
`IP2Location_DB_set_shared_memory` copied into a mapping of `st_size + 1`
bytes.  Data abstraction: a byte has `ByteBits` bits (8 in the code, 2 in
the runs), so a `uint32_t` has `4 * ByteBits` bits and every `uint32_t`
expression of the code is taken modulo `Word`; the index bucket
`ipno >> 16` is the top half of the key.  The header fields that
`IP2Location_initialize` decoded are constants (`DbType`, `DbColumn`,
`V4Count`, `V4Base`, `V4Index`); the file is the constant byte sequence
`File`.  The view of the mapping reaches to the end of its last page
(`PageEnd`); a byte at or past it faults.

Readers: `IP2Location_read32`, `read_float` and `read_str` return the value,
the index errors they counted and the set of byte indices they touched,
with the code's checks (`position >= st_size` counts an error; otherwise
bytes `position-1 .. position+2` are read, or for a string the length byte
at `position` and `min(len, max_sz)` bytes after it).
`IP2Location_read_record` reads the fields that `lookup_flags` (`Mode`)
and the position tables select; the tables are copied verbatim.

State: `pc` (idle, search, done, crashed), `addr` (the address asked for),
`key` (`ipno`), the window `low`/`high`, `hit` (the row matched, or None),
`ret` (the result of `ip2loc_get_ipv4_entry`: a match whose
`country_short` has two non-NUL characters), `errs`
(`sh_mem_index_errors` since the lookup began, saturating at `MaxErrors`)
and `overread` (a byte at or past `st_size` was touched).

Actions: `ip2loc_get_ipv4_entry(a)` (the MAX_IPV4_RANGE case and the
window from the index table or `[0, ipv4_db_count]`), `V4Probe` (one
iteration of the while loop: read `ipfrom` and `ipto`, then match and
read the record, or move `high`/`low` with uint32 wrap-around) and
`V4Exhausted` (`low > high`, return FALSE).  Because the mapping is not
written after the load, the record read is a function of the row address
and is tabulated once (`RecordAt`).

`WellFormedV4` says, from the format of spec.md 4.3 and independently of
the readers, what a correct table is: rows inside the file, starting at 0,
strictly increasing, a closing row at the maximum address, and index
buckets whose `[low, high]` bracket the rows of their addresses.
`RecordsInFile` adds that the record fields of every row lie in the file
(section 4).

### IP2LocAbstract (what a lookup promises)

The contract of `ip2loc_get_ipv4_entry` for its caller, from spec.md 4.3,
with the search hidden.  State: `apc` (idle, busy, done), `aaddr` (the
address asked for) and `ahit` (the answer).  Actions: `Call(a)` starts a
lookup; `Return` answers `Answer(aaddr)`.  `ASafe` is the safety part.
`ASpec` adds weak fairness of `Return`: a lookup that was asked always
answers.

`IP2LocLookup` instantiates it as `Contract` with this refinement mapping:
* `apc` is `pc`, with "search" shown as "busy";
* `aaddr` is `addr` and `ahit` is `hit`;
* `Answer` is `LookupAnswer`: the row holding the address, or the last
  row for `MAX_IPV4_RANGE`.

A "crashed" state has no image in the contract.  A probe that misses is a
stutter of the contract.  `ImplementsContract` is `Contract!ASpec`.

### IP2LocV6 (`ip2loc.c`, IPv6 lookup)

`IP2LocV6` EXTENDS `IP2LocLookup`: it reuses the mapped bytes, the
readers, the record table and the lookup variables, and adds the IPv6
path; in its runs `addr` and `key` are addresses of `AddrBytes` bytes
(16 in the code, 7 in the runs; `Byte[0]` first).  Definitions:
`IP2Location_read8` (its check `position - 1 <= st_size` admits the byte
at `st_size`), `IP2Location_read_ipv6_addr` (byte `i` from
`read8(position + 15 - i)`: the file holds addresses least significant
byte first), `ipv6_compare` (the first differing byte, from `Byte[0]`,
decides), `IndexBucket6` (`Byte[0] * 256 + Byte[1]`) and `NoRows6` (the
`if (!high) return FALSE` test).  Actions: `ip2loc_get_ipv6_entry(a)`,
the whole function up to the loop: for a v4-mapped address
(`IN6_IS_ADDR_V4MAPPED`) the code writes only `parsed_ipv.ipv4`, and the
search then uses `parsed_ipv.ipv6`, which nothing wrote (`ipv_t` is a
struct).  Reading it is a read of an uninitialised value, so the key is
any member of the constant `Junk`.  `V6Probe` is one loop iteration (the
record is read 12 = `AddrBytes - 4` bytes into the row), and
`V4Exhausted` is shared with the IPv4 loop.  The addresses looked up are
the constant `Addrs`.  `WellFormedV6` decodes the table from the bytes,
as `WellFormedV4` does.

### MC_IP2LocLookup

Addresses are 8 bits (0..255), so the index table has 16 buckets of 16
addresses, as the real one has 65536 buckets of 65536.  The databases are
built from words and length-prefixed strings at the offsets the format
uses (`A_File`, ...) and given to TLC as literals (`A_Bytes`, ...), which
`BytesMatchLayout` checks against the layout:

* A: type 3 (country, region, city), 4 columns, index table, 3 rows;
  one row's country code has a NUL second character;
* B: type 1, 2 columns, no index table, 4 rows, two of them adjacent
  (40 and 41), one with a one-character country code;
* C: B with its first row starting at 5 and its closing row at 250, so
  addresses 0..4 and 250..255 lie in no row (the latter exhaust the window);
* Z: 82 zero bytes and a zero header, what a process sees when it attaches
  to `IP2location_Shm` before the creator has copied the file in;
* T: A cut short at 209 bytes, inside the closing row.

### MC_IP2LocV6

Database V: 7-byte addresses of 2-bit bytes (0..16383), type 1, 2
columns, rows of 11 bytes starting at 0, 3840 (exactly the v4-mapped
block `::ffff:0:0/96` scaled down), 4096 and 9000, the closing row at
16383, and 16 index buckets of 1024 addresses.  VT is V cut one byte
short of the closing row.  `Addrs` holds the first and the last
address of every 256, and each row start with its two neighbours; these
include every bucket edge.  `Junk` holds two values the stack may hold:
zeros, and an address of row 3.  With 6-byte addresses the v4-mapped
block would be the top of the space, and the last row could be reached
only through junk keys.  That is why the runs use 7.

### Hosts (`hosts.c`)

State: `stage`, `parsed` (the lines `parse_hosts` turned into entries),
`listNull`/`list` (`hosts_list`), and the lookup in progress: `pc`,
`qname`, `qfam`, `qaddrs`, the window `lo`/`hi` and `num` (the count
`hosts_file_check_hostent` returns).  Actions:
* `hosts_file_init(f)`: parse every line, then sort and
  `smartlist_make_uniq` with `hosts_compare_name` (family, then name),
  using the `SmartList` operators;
* `hosts_file_check_hostent`/`_addrinfo`: the search starts;
* `BSearchStep`/`BSearchExhausted`: the `smartlist_bsearch` loop with
  `hosts_bsearch_name`, which compares names only;
* `hosts_file_exit`.

A name is a number ordered as strcmp orders names.  An address is a model
value.

### Services (`services.c`)

State: `parsed`, `numFiles`, `listNull`/`list` (`services_list`), and per
thread of `Threads` the lookup `pc`, `key`, `lo`, `hi`, the return kind
`ret` (the static servent, Winsock's `getservbyport`, or NULL), the entry
`found` and what the caller read (`got`).  There is one shared `servent`
(`ret_fill_servent`).  Actions:
* `services_file_init(fs)`: every file parsed by `parse_port_proto`,
  then sort and make_uniq with `services_compare_port_proto`;
* `ws_getservbyport`;
* `BSearchStep(t)` and `BSearchExhausted(t)`, with
  `services_bsearch_port_proto`;
* `Use(t)`: the caller reads the servent;
* `services_file_exit`.

A protocol field is a set of names, and its value is the sum of the
`PROTO_x` bits.  Ports are kept modulo `PortMod` (2^16: `se->port` is a
uint16_t).  The sort is `SmartList`'s set of sorted arrangements, so
qsort's freedom with a non-transitive comparator is covered.  Strings
are model values; the `%30s` widths are not modelled (section 5).

### MmapTable (`Geo-IP/IPFire/libloc/src/win_mmap.c`)

State: `storage` (`mmap_storage[]`, `N` buckets of `(map, rval)`),
`osViews` (the views MapViewOfFile has mapped), `held` (the pointers the
callers hold), `mret`, `uret`, `errno`.  Actions:
* `mmap(offset, ok)`: the whole of `_mmap` with `mmap_remember`, which
  takes the first free bucket or returns MAP_FAILED with EAGAIN; `ok`
  says whether the OS calls succeed, and a new view is any address not
  mapped;
* `munmap(p)`: `mmap_forget` (the first bucket whose `.rval` equals `p`,
  free or not; it clears only `.map`) and `UnmapViewOfFile` of the
  recorded view, whose failure is reported only with `Debug`.

A pointer is `<<view, offset within the granule>>`.

### DNSBLUpdate (`dnsbl.c`, refresh policy)

State: `now`, per file `tmp` (the copy in the temp directory, the file
`stat()` looks at) and `dst` (the configured file), each missing, empty
or data with an mtime.  The run in progress is `pc`, `forced`, `expiry`,
`idx` and `num`.  `dl` records what the last file step did, and `lastDl`
the time of each file's last successful download.  Actions:
* `DNSBL_update_files(force)`: the expiry of the run;
* `DNSBL_update_file`: one file, the whole function. It skips when the
  file is not configured or the copy is fresh, and otherwise downloads.
  The download may succeed, in which case CopyFile may fail and the file
  is touched, or it may fail, leaving the copy as it was or truncated;
* `UpdateDone`;
* `Tick` (time passes between runs) and `DeleteFile(f)`. These two come
  from the environment and are spec-modelled.

Time is scaled: `SecsPerDay` stands for 86400 and `Slack` for the 10 s,
and `max_days * 24 * 3600` is computed in an `IntBits`-bit int
(`WrapInt`).  The clock starts at `Epoch`, above `MaxAge + Slack`, so
that `expiry - 10` is never 0; that artefact would exist only in the
first days after 1970.

### MC_DNSBL

Three bits of address, prefixes `MinPrefix = 1` and up (the code's 8
scaled down), two references, a handful of DROP and DROPv6 files, and one
non-global address.  The files are chosen so that both families are
present, one file is absent, a junk line and a too-short prefix are
skipped, networks of different sizes sit next to each other in the
sorted list, and (in `MCDropFiles`) one network is nested inside another.

## 3. Runs

| Run | Config | Expect | What it shows |
|---|---|---|---|
| `dnsbl_lookup` | `MC_DNSBL.cfg` | pass | `LookupSound`, `LookupComplete`, `IInv` over every init from the files and every lookup of every address of both families (2329 distinct states). |
| `dnsbl_nested` | `MC_DNSBL_nested.cfg` | violation | `CoveredIsListed`: with 0.0.0.0/1 and 1.0.0.0/3 style nesting, the search reports a covered address as not listed. |
| `dnsbl_nomark` | `MC_DNSBL_nomark.cfg` | violation | `ParseNeverCrashes`: a `<net>/<bits>` line without `; SBL` reaches `strchr(line, 'L') == NULL`. |
| `ip2loc_index` | `MC_IP2Loc_A.cfg` | pass | `LookupCorrect`, `ReadsInBounds`, `Terminates`, `ImplementsContract` on database A, every address (533 states). |
| `ip2loc_v6_index` | `MC_IP2LocV6.cfg` | pass | `V6LookupCorrect` on V with its index table (274 states). |
| `ip2loc_v6_v4mapped` | `MC_IP2LocV6_mapped.cfg` | violation | `V4MappedFound`: a v4-mapped address is searched with the junk key and returns row 0 or 2, not row 1, which holds it. |
| `hosts_lookup` | `MC_Hosts.cfg` | pass | `HostsSound`, `UniqKeepsEveryKey` over every hosts file of up to 3 lines (2 names, 2 addresses) and every lookup (110108 states). |
| `hosts_both_families` | `MC_Hosts_name.cfg` | violation | `NameFound`: a name listed for both families is found by the name-only search as its AF_INET entry, so an AF_INET6 lookup of its listed address counts 0. |
| `services_lookup` | `MC_Services.cfg` | pass | `ServiceSound`, `AnyProtoFound` over every services file of up to 3 lines and every lookup (501987 states). |
| `services_lost_protocol` | `MC_Services_found.cfg` | violation | `ServiceFound`: "1/udp/tcp" and "1/tcp" sort to [tcp, udp/tcp]; make_uniq drops udp/tcp and a udp lookup of the listed port finds nothing. |
| `mmap_table` | `MC_MmapTable.cfg` | pass | `HeldTracked`, `UnmapReleasesView` with 2 buckets, 3 view addresses, granularity 2 (3214 states). |
| `dnsbl_refresh` | `MC_DNSBLUpdate.cfg` | pass | `StaleRefreshed`, `NoEarlyRedownload` over runs, ticks, failures and deletions up to `MaxTime` (1165120 states). |

Further configurations, kept as reproductions and run the same way
(`tlc -config <cfg> <module>`):

| Config | Module | TLC reports | What it shows |
|---|---|---|---|
| `MC_IP2Loc_B.cfg` | MC_IP2LocLookup | no error | `LookupCorrect`, `Terminates` on database B, without an index table (611 states). |
| `MC_IP2Loc_C.cfg` | MC_IP2LocLookup | no error | `TypeOK`, `Terminates` on database C, where `high = mid - 1` wraps and keys past the last row exhaust the window (628 states). |
| `MC_IP2Loc_C_hit.cfg` | MC_IP2LocLookup | a violation | `HitIsRow`: address 0 of C is matched to "row 127", computed from wrapped offsets, instead of NotFound. |
| `MC_IP2Loc_attach.cfg` | MC_IP2LocLookup | a violation | `NoCrash`: with the zero header, the first probe is `read32(0)`, which reads `sh_mem_ptr[0xFFFFFFFF]`. |
| `MC_IP2Loc_trunc.cfg` | MC_IP2LocLookup | a violation | `ReadsInBounds`: `read32` at `st_size - 2` passes its check and reads past `st_size`. |
| `MC_IP2LocV6_noidx.cfg` | MC_IP2LocV6 | no error | `V6LookupCorrect` on V without the index table (367 states). |
| `MC_IP2LocV6_empty.cfg` | MC_IP2LocV6 | no error | `V6LookupCorrect` with `ipv6_db_count = 0`: every lookup returns nothing, through the `!high` return (136 states). |
| `MC_IP2LocV6_overread.cfg` | MC_IP2LocV6 | a violation | `ReadsInBounds`: on VT, probing row 3 reads the closing row, and `read8` reads byte `st_size` with no index error. |
| `MC_Services_race.cfg` | MC_Services | a violation | `ReadOwnResult`: two threads; the second `fill_servent` overwrites the static servent before the first caller reads it. |
| `MC_MmapTable_leak.cfg` | MC_MmapTable | a violation | `NoLeakedView`: a third mapping with both buckets in use returns MAP_FAILED and leaves its view mapped and recorded nowhere. |
| `MC_DNSBLUpdate_missing.cfg` | MC_DNSBLUpdate | a violation | `MissingFileRefreshed`: a deleted `drop.txt` is not downloaded while its temp copy is fresh. |
| `MC_DNSBLUpdate_forced.cfg` | MC_DNSBLUpdate | a violation | `ForcedRefreshes`: a forced run within 10 s of the last download skips the file. |
| `MC_DNSBLUpdate_overflow.cfg` | MC_DNSBLUpdate | a violation | `NoEarlyRedownload`: `max_days * 24 * 3600` wraps negative in int, so every unforced run downloads again. |

The properties:

* `LookupSound`: while the list is loaded, a reported reference is one
  of a network of the key's family that contains the key, and
  non-global addresses are never reported.  After `DNSBL_exit` no lookup
  can report one, and the last answer's reference points into freed
  entries, so the property says nothing of that state.
* `LookupComplete`: when no two networks of one family overlap, "not
  listed" is only reported for an address no network covers.  It needs
  the sort order, both comparators' family bias and the loop's window
  updates to agree; the mutants that flip the IPv6 bias or drop the IPv4
  family test break it.
* `CoveredIsListed`: `LookupComplete` without the no-overlap hypothesis,
  which is what spec.md 4.4 promises ("one arbitrary match").  It fails.
* `IInv`: the inductive invariant of section 4, checked so that the proof
  rests on a formula TLC has seen hold.

* `LookupCorrect` (geo reader): on a well-formed table, a lookup returns
  the row whose `[start, next start)` holds the address, and the last row
  for the maximum address.  The mutants that make the match inclusive or
  drop the MAX_IPV4_RANGE decrement break it.
* `Terminates` (geo reader): every lookup that enters the loop returns or
  faults; a mutant with `low = mid` breaks it.
* `ImplementsContract` (geo reader): the lookup implements
  `IP2LocAbstract` under the mapping of section 2.  It combines the three
  properties above into what the caller sees: every lookup answers, it
  answers only after a call, and the answer is the row holding the
  address.  Database A satisfies `RecordsInFile`.  The inclusive-match
  mutant breaks the property: it makes a `Return` with a wrong answer.
* `HitIsRow`, `NoCrash`, `ReadsInBounds` (geo reader): what spec.md 4.2,
  4.3 and 6 promise for any database: a match is a row of the table, a
  lookup never faults, no read passes `st_size`.  `ReadsInBounds` holds
  on database A, where a `read_str` that copies one byte more than the
  length breaks it.  Each of the three fails on one of the databases C, Z
  and T (the further configurations above).

* `V6LookupCorrect` (IPv6): on a well-formed table (or one with no
  rows), a lookup of an address that is not v4-mapped returns the row
  holding it, or nothing past the last row.  Mutants: the index bucket
  taken from the last two bytes, the address bytes read without
  reversing, and the `!high` test dropped.
* `V4MappedFound`: the same for v4-mapped addresses; it fails.
* `HostsSound`: a positive count of `hosts_file_check_hostent` is backed
  by a line with that name, family and address.  Because the search
  compares names only, it rests on the family test of the count loop.
* `UniqKeepsEveryKey`: after init, the list holds exactly one entry per
  (family, name) of the file.
* `ServiceSound`: a returned servent is a line with the port and the
  protocol asked for.  `AnyProtoFound`: a lookup without a protocol
  finds every listed port, despite the non-transitive comparator.
* `HeldTracked`: every pointer a caller holds is found first by
  `mmap_forget` in its own live bucket, whose view is mapped.  Free
  buckets keep stale `.rval` copies; this holds only because both loops
  scan from bucket 0.  `UnmapReleasesView` (an action property):
  `_munmap` of a held pointer unmaps its view and returns 0.
* `StaleRefreshed` (action): a configured file whose temp copy is
  missing, empty or older than the maximum age plus the slack is
  downloaded.  `NoEarlyRedownload` (action): an unforced run never
  downloads again within the maximum age less the slack of the last
  download, while that copy is still there.

Bounds: three address bits give eight addresses, so prefixes /1, /2 and
/3 produce ranges of 4, 2 and 1 addresses that can be disjoint, adjacent
or nested; every address of both families is looked up after every
possible init.  A larger width adds no new relation between ranges.

The geo reader's bounds: 8-bit words keep every uint32 wrap-around of the
code (`high = mid - 1` at 0, the sum `low + high`, the row offset
`mid * column`) reachable with 256 addresses, and every address is looked
up on every database.  Two bits per byte are enough for the length bytes
and characters the record read tests.

Hosts and services: two names or ports, and files of up to three lines,
give every order of equal, smaller and larger keys across both families
or protocol sets.  Mmap: two buckets and three views are enough for a
bucket to be freed, refilled below a stale copy and the table to fill.
Refresh: two files, one of them not configured, with time up to 20
scaled seconds (five days of 4), cover several unforced runs that skip
and then download.

Fairness: `DNSBL` assumes none and states safety only.  `IP2LocLookup`
assumes weak fairness of the loop steps (`V4Probe`, `V4Exhausted`): the
loop runs on the caller's thread, takes no lock and waits for nothing, so
once a lookup is in the loop it keeps stepping.  No fairness is assumed
for starting lookups.  `IP2LocV6` assumes the same of its loop.  Hosts,
Services, MmapTable and DNSBLUpdate state safety only (state invariants
and action properties) and assume no fairness.

What the passing runs cannot show:
* Database A's first row starts at 0 and its index windows hold at most
  two rows.  So `Terminates` and `ReadsInBounds` on A never meet the
  wrapped `high = mid - 1` or a read near `st_size`.  Only the C, C_hit
  and trunc configurations show those.
* `ServiceSound` and `AnyProtoFound` do not depend on the order of the
  protocol comparator; only the violation run `services_lost_protocol` does.
* `NoEarlyRedownload` asks for at least `MaxAge - Slack` between
  downloads, which is `2 * Slack` below what the code guarantees.
  So the sign of the 10-second slack is not checked.  Its passing run
  uses ints that do not overflow; the overflow configuration shows the
  wrap.

## 4. Proofs

### `DNSBL_proofs.tla`

Proved for every address width, every `BlockSize` consistent with it,
every `MinPrefix`, every set of references and every set of files
(assumptions `AddrBitsAssumption`, `BlockSizeAssumption`,
`MinPrefixAssumption`, `SpecialAssumption`, `FilesAssumption` in
`DNSBL.tla`):

* `TypeCorrect`: `Spec => []TypeOK`;
* `IInvInvariant`: `Spec => []IInv`;
* `LookupSoundness`: `Spec => []LookupSound`;
* `LookupCompleteness`: `Spec => []LookupComplete`.

`TypeOK` is not inductive alone (while the list is loaded, the result
index must lie in it, and `DNSBL_init` replaces it), nor are the lookup properties (a search step is
right only because of what the window holds).  The inductive invariant
`IInv` adds: `BootClean` (before `DNSBL_init` nothing is loaded or looked
up), `NullEmpty` (a NULL list is empty), `ListSorted` (the list is
sorted by `DNSBL_compare_net`) and `SearchWindow` (during a search the
window lies in the list and, without overlaps, holds every covering
entry).  The argument for the search step rests on two lemmas,
`NotCoveredAfter` and `NotCoveredBefore`: in a sorted list without
overlaps, when the key compares below (above) entry `j`, no entry at or
after (at or before) `j` covers it, either because the wrong-family bias
points to the other family's part of the list or because ranges of one
family are ordered by their start.  The lemmas `RangeBounds` (a range
holds its network) and `CompareKeySign` (what the comparator's sign means)
carry the arithmetic.

### `MmapTable_proofs.tla`

These hold for every number of buckets `N`, set of views, offsets,
granularity and debug flag (`MmapAssumption`):

* `TypeCorrect`: `Spec => []TypeOK`;
* `HeldTrackedHolds`: `Spec => []HeldTracked`;
* `UnmapReleasesViewHolds`: `Spec => [][...]_vars` for the action
  property `UnmapReleasesView`.

`HeldTracked` is not inductive, because it speaks only of held
pointers.  Whether the first bucket with `.rval = p` is `p`'s live
bucket depends on every bucket in use.  The inductive invariant `IInv`
says, of every bucket in use (`LiveOK`), that:
* its pointer is of its own view;
* the view is mapped and the pointer held;
* no other bucket in use has the same view;
* no bucket below it carries the same pointer.

It also says that every held pointer has a live bucket.  The key step,
`RememberIInv`, is this: `mmap_remember` fills the first free bucket `k`
with a view the OS did not have mapped, so every bucket below `k` is in
use with another view, and no bucket below carries the new pointer.
`ForgetFindsOwner` shows that `mmap_forget`'s first hit is the pointer's
live bucket, whose view `_munmap` then unmaps (`MunmapIInv`).  The
first-match loops are written as `IsFirst(i, S)` existentials, so no
least-element lemma is needed.

### `DNSBLUpdate_proofs.tla`

These hold for every list of files, `max_days`, day length, slack, int
width and clock start with `Epoch <= MaxTime` (`UpdateAssumption`):

* `IInvHolds`: `NoOverflow /\ Spec => []IInv`;
* `StaleRefreshedHolds`: `NoOverflow /\ Spec => StaleRefreshed`;
* `NoEarlyRedownloadHolds`:
  `NoOverflow /\ ClockAhead /\ Spec => NoEarlyRedownload`.

The hypotheses are conditions on the constants, and the run's instance
meets both.  `NoOverflow` says that `max_days * 24 * 3600` fits an `int`
(`WrapInt` is the identity on it).  `ClockAhead` says that the clock
starts more than `max_days` days plus the slack after 1970, so `expiry -
10` is never the 0 that the code reads as "no expiry".  Without
`NoOverflow` the wrapped product is less than `max_days` days, and an
unforced run downloads copies younger than that.  The two action properties are not inductive.
A step of `DNSBL_update_file` is right only if the run's `expiry` is still
the one `DNSBL_update_files` computed from the current time.  The
invariant `IInv` adds exactly that fact (and the types): while
`pc = "running"`, `expiry = RunExpiry(forced)`.  It holds because `Tick`
only moves the clock between runs.  `StaleStep` and `EarlyStep` show that
each file step under `IInv` meets the action property.

### `IP2LocLookup_proofs.tla`

These hold for every byte width, file, header and index table
(`ByteBitsAssumption`, `FileAssumption`, `HeaderAssumption`,
`PowerAssumption`):

* `IInvHolds`: `Spec => []IInv`;
* `LookupCorrectHolds`: `Spec => []LookupCorrect`;
* `ReadsInBoundsHolds`: `RecordsInFile => (Spec => []ReadsInBounds)`;
* `ContractSafety`: `RecordsInFile => (Spec => Contract!ASafe)`, the
  refinement of the contract's safety part.

`PowerAssumption` states facts of arithmetic about the powers of two:
they are positive, and `Word = BucketSize * BucketSize`.  The provers
cannot derive facts about `^` with a symbolic exponent, and TLC checks the
assumption on every run.

`LookupCorrect` speaks only of the row returned, so it is not inductive.
`IInv` (for a well-formed table, `SearchInv`) adds the window: from the
time `ip2loc_get_ipv4_entry` sets the key, the row holding the key
(`RowOf(key)`) lies in `[low, high]` and `high <= V4Count`.  The argument
runs as follows:
* Row starts ascend strictly over the whole table (`RowStartMono`).  This
  is an induction, done as a least-counterexample argument (`NatMin`,
  from the well-foundedness of `<` on `Nat`).  It makes the row of a
  number unique (`RowOfSpec`) and monotonic (`RowOfMono`).
* The index bucket of a key is an entry of the index table (`IndexWindow`).
  Its first row is at most, and its last row at least, the row of the key.
* In a window inside the table, the uint32 midpoint and the row offsets
  never wrap (`ProbeReads`), so the loop reads `RowStart(mid)` and
  `RowStart(mid + 1)`.
* A key below row `mid`'s start has its row below `mid` (`RowBelow`).
  So `mid >= 1`, and `high = mid - 1` does not wrap.  A key at or past row
  `mid + 1`'s start has its row above `mid` (`RowAbove`).
* The `low > high` exit is therefore unreachable (`ExhaustedStep`), and
  the last row's end is `MAX_IPV4_RANGE` (`LastRow`).

`ReadsInBounds` is false for an arbitrary file, so its theorem assumes
`RecordsInFile`.  This condition reads the file directly, not through
the readers.  It requires a well-formed table, the columns of the
database type's fields fitting a row (`FieldsInRow`), and every string a
field points at, with its length byte, ending before `st_size`
(`StringsInFile`).  The inductive invariant `BInv` is `IInv` together
with `RecordsInFile => ~overread`.  The readers' bounds come from
`Read32Bounds` and `StrBounds` (a string copies at most its length
byte's count), and the record's from `FieldBounds` and `RecordBounds`.

`ContractSafety` follows the usual layout of a refinement proof:
* the initial state maps to `AInit`;
* under `IInv`, each step maps to a contract step or a stutter.

The steps map as follows:
* `ip2loc_get_ipv4_entry(a)` is `Call(a)`.  Its index reads stay before
  `st_size`, hence before `PageEnd` (`PageEndBound`, from a round-up
  division lemma; `NoFault`), so the lookup enters the loop and does not
  crash.
* A probe that misses changes neither the abstract pc, nor `addr`, nor
  `hit`: it is a stutter.
* A probe that matches is `Return`.  None of its reads faults, by
  `ProbeReads`, `RecordBounds` and `RecordIdxInt`, and the row is
  `LookupAnswer(addr)`, by `ProbeStep` and `FoundAnswer`.
* `V4Exhausted` is unreachable.

`IInv` is enough as the invariant.  No step reaches "crashed", so no
state invariant needs to exclude it.

### What only TLC checks

* The violation runs.
* Liveness: `Terminates`, and the fairness part of `ImplementsContract`
  (`WF(Return)`), need fairness and ENABLED.  `ContractSafety` proves
  only the safety part `ASafe`.
* `SmartList`'s `MakeUniq`, `ShortSort` and `ScanMax`, `Services`'
  `ParseAll`, and `IP2LocV6`'s `AddrNum` and `ipv6_compare`.  These are
  recursive functions: what they compute for every input would need an
  induction over data whose library theorems take an operator parameter,
  which the installed provers cannot instantiate.
* `HostsSound`, `UniqKeepsEveryKey`, `ServiceSound` and `AnyProtoFound`
  rest on what the sort and `smartlist_make_uniq` keep.
* `V6LookupCorrect` rests on `AddrNum` and `ipv6_compare`.

## 5. What is not modelled

* `open_file`, `ip2loc_init` and `ip2loc_exit` of `ip2loc.c`: the load of
  the header, the bad-date path, and two processes creating or attaching
  `IP2location_Shm`.  The header a lookup uses is a constant instead:
  the zero header of `ip2loc_attach` stands for the attaching process.
  Modelling the load as steps interleaved with a second process's reads
  is the natural next module.
* The `%30s` field widths of `services.c` (line 228) and the truncation
  of port numbers above 65535 (line 230): the model's names are model
  values, and `RawPorts` is kept small.
* `DNSBL_update_file`'s download itself (`INET_util_download_file`) is
  an external call.  Its outcomes (success, failure, truncated copy) are
  a nondeterministic choice.
* `win_str.c` (string and date conversion), the CPython glue in
  `python/network.c`, `lj_win.c` (console output), the headers, and
  `DNSBL_dump`, `DNSBL_test` and `dnsbl_main` (printing and command-line
  handling).  These are pure formatting or I/O with no state a property
  could tell apart.
* The sorted container `smartlist.c` is not under `src/`.  `SmartList`
  models it from spec.md 4.1 (read, sort, make_uniq, the bsearch
  midpoint).
