------------------------------ MODULE Services ------------------------------
(***************************************************************************)
(* The services-file lookup of src/src/services.c.  services_file_init()   *)
(* parses every configured services file (a name field and a              *)
(* "<port>/<proto>[/<proto>...]" field per line) into one smartlist, sorts *)
(* it and removes duplicates with services_compare_port_proto().           *)
(* ws_getservbyport() binary-searches it with services_bsearch_port_proto() *)
(* and fills the static servent ret_fill_servent from the entry found.    *)
(*                                                                         *)
(* Lookups run on the threads of the traced program (Threads).  A thread   *)
(* returns a pointer to ret_fill_servent and reads it afterwards (Use).   *)
(* A protocol set is a set of protocol names; its value is the sum of     *)
(* their PROTO_x bits.  Ports are uint16_t: PortMod is 2^16 in the code.  *)
(***************************************************************************)
EXTENDS Integers, Sequences, FiniteSets

CONSTANTS
  Threads,       \* the threads that call ws_getservbyport()
  SNames,        \* service names
  RawPorts,      \* port numbers as sscanf("%u") reads them
  PortMod,       \* 2^16: se->port is a uint16_t
  Ports,         \* ports a caller asks for
  ServicesFiles, \* possible g_cfg.services_file[] lists (each file's lines)
  LookupToks,    \* protocol arguments a caller passes (NULL for any)
  Fallbacks,     \* <<fallback, cleaned_up>> pairs a lookup runs with
  NULL           \* a NULL protocol, name or pointer

ASSUME PortAssumption ==
  /\ PortMod \in Nat \ {0}
  /\ RawPorts \subseteq Nat
  /\ Ports \subseteq 0..(PortMod - 1)

\* protocol_list[]: the names list_lookup_value() knows and their bits
ProtoNames == {"?", "udp", "tcp", "dccp", "sctp"}
Bit == [p \in ProtoNames |->
          CASE p = "?" -> 1 [] p = "udp" -> 2 [] p = "tcp" -> 4 [] p = "dccp" -> 8 [] p = "sctp" -> 16]

\* a token of a port/protocol field: a name of protocol_list[] or not
Tokens == ProtoNames \cup {"geek"}

(***************************************************************************)
(* A line of a services file, as services_CSV_add() tells lines apart:     *)
(* "ok" when sscanf("%u/%30s") converts both the port and the rest, whose  *)
(* "/"-separated tokens are toks; "bad" otherwise.  A file is absent or a  *)
(* sequence of lines.                                                      *)
(***************************************************************************)
Line == [kind : {"ok"}, name : SNames, port : RawPorts, toks : SUBSET Tokens]
          \cup [kind : {"bad"}]
File == [present : {FALSE}] \cup [present : {TRUE}, lines : Seq(Line)]

ASSUME FilesAssumption ==
  /\ ServicesFiles \subseteq Seq(File)
  /\ LookupToks \subseteq Tokens \cup {NULL}
  /\ Fallbacks \subseteq BOOLEAN \X BOOLEAN

\* the value of a protocol bit set
ProtoVal(S) == LET b(p) == IF p \in S THEN Bit[p] ELSE 0
               IN  b("?") + b("udp") + b("tcp") + b("dccp") + b("sctp")

\* encode_proto_str(tok, FALSE): list_lookup_value(), PROTO_UNKNOWN if absent
EncodeOne(tok) == IF tok \in ProtoNames THEN {tok} ELSE {"?"}

\* encode_proto_str(str, TRUE): PROTO_UNKNOWN or'ed with every token's bit
EncodeMulti(toks) == {"?"} \cup UNION {EncodeOne(t) : t \in toks}

\* struct service_entry: name, port, protocol bits, index of the file
Entry == [name : SNames, port : 0..(PortMod - 1), proto : SUBSET ProtoNames, file : Nat]

(***************************************************************************)
(* services_CSV_add() / parse_port_proto(): port truncated to uint16_t;   *)
(* the PROTO_UNKNOWN bit is cleared when another bit is set; a line whose *)
(* sscanf() fails adds nothing (Skip).                                     *)
(***************************************************************************)
Skip == [name |-> NULL]

parse_port_proto(l, fileIdx) ==
  IF l.kind = "bad" THEN Skip
  ELSE LET p == EncodeMulti(l.toks)
       IN  [name |-> l.name, port |-> l.port % PortMod,
            proto |-> IF ProtoVal(p) > Bit["?"] THEN p \ {"?"} ELSE p,
            file |-> fileIdx]

\* CSV_open_and_parse_file() over one file; an absent file adds nothing
ParseFile(f, i) ==
  IF ~f.present THEN <<>>
  ELSE SelectSeq([k \in 1..Len(f.lines) |-> parse_port_proto(f.lines[k], i)],
                 LAMBDA e : e # Skip)

\* the files in order of g_cfg.services_file[]
ParseAll(fs) ==
  LET acc[i \in 0..Len(fs)] == IF i = 0 THEN <<>> ELSE acc[i - 1] \o ParseFile(fs[i], i - 1)
  IN  acc[Len(fs)]

\* compare_proto(): 0 when the bit sets intersect, else by value
compare_proto(a, b) ==
  IF a \cap b # {} THEN 0
  ELSE IF ProtoVal(a) < ProtoVal(b) THEN -1
  ELSE IF ProtoVal(a) > ProtoVal(b) THEN 1
  ELSE 0

\* services_compare_port_proto(): port, then compare_proto()
services_compare_port_proto(a, b) ==
  IF a.port # b.port THEN a.port - b.port ELSE compare_proto(a.proto, b.proto)

\* mutant: the protocol is compared even for the "any protocol" key
MutantBsearchAlwaysProto(key, se) ==
  IF key.port # se.port THEN key.port - se.port ELSE compare_proto(key.proto, se.proto)

\* mutant: the protocol is never compared
MutantBsearchPortOnly(key, se) == key.port - se.port

\* services_bsearch_port_proto(): port, then protocol unless PROTO_UNKNOWN
services_bsearch_port_proto(key, se) ==
  IF key.port # se.port THEN key.port - se.port
  ELSE IF "?" \notin key.proto THEN compare_proto(key.proto, se.proto)
  ELSE 0

ServList == INSTANCE SmartList
              WITH Parser <- LAMBDA x : x, Keep <- LAMBDA x : TRUE,
                   Cmp <- services_compare_port_proto

-----------------------------------------------------------------------------
VARIABLES
  stage,     \* "boot", "ready" (after services_file_init), "exited"
  parsed,    \* every entry add_entry() added, in file order
  numFiles,  \* g_cfg.num_services_files
  listNull,  \* services_list == NULL
  list,      \* the entries of services_list
  pc,        \* per thread: "idle", "search", "returned", "used"
  key,       \* per thread: the lookup entry and the call's arguments
  lo, hi,    \* per thread: the binary search window (1-based)
  ret,       \* per thread: "null", "winsock" (getservbyport) or "static"
  found,     \* per thread: the entry smartlist_bsearch() returned
  got,       \* per thread: what the caller read through the pointer
  servent    \* the static ret_fill_servent (name, port, proto)

vars == <<stage, parsed, numFiles, listNull, list, pc, key, lo, hi, ret, found, got, servent>>

NoEntry == [name |-> NULL, port |-> 0, proto |-> {}, file |-> 0]
Servent == [name : SNames \cup {NULL}, port : 0..(PortMod - 1), proto : Tokens \cup {NULL}]
Key == [port : 0..(PortMod - 1), proto : SUBSET ProtoNames, tok : Tokens \cup {NULL},
        fallback : BOOLEAN, cleaned : BOOLEAN]

TypeOK ==
  /\ stage \in {"boot", "ready", "exited"}
  /\ parsed \in Seq(Entry)
  /\ numFiles \in Nat
  /\ listNull \in BOOLEAN
  /\ list \in Seq(Entry)
  /\ pc \in [Threads -> {"idle", "search", "returned", "used"}]
  /\ key \in [Threads -> Key]
  /\ lo \in [Threads -> Int] /\ hi \in [Threads -> Int]
  /\ ret \in [Threads -> {"null", "winsock", "static"}]
  /\ found \in [Threads -> Entry \cup {NoEntry}]
  /\ got \in [Threads -> Servent \cup {"null", "winsock"}]
  /\ servent \in Servent

Init ==
  /\ stage = "boot"
  /\ parsed = <<>>
  /\ numFiles = 0
  /\ listNull = TRUE
  /\ list = <<>>
  /\ pc = [t \in Threads |-> "idle"]
  /\ key = [t \in Threads |-> [port |-> 0, proto |-> {"?"}, tok |-> NULL,
                               fallback |-> FALSE, cleaned |-> FALSE]]
  /\ lo = [t \in Threads |-> 0] /\ hi = [t \in Threads |-> 0]
  /\ ret = [t \in Threads |-> "null"]
  /\ found = [t \in Threads |-> NoEntry]
  /\ got = [t \in Threads |-> "null"]
  /\ servent = [name |-> NULL, port |-> 0, proto |-> NULL]

(***************************************************************************)
(* services_file_init(): smartlist_new(), every configured file parsed in  *)
(* order, then smartlist_sort() and smartlist_make_uniq() with             *)
(* services_compare_port_proto().                                          *)
(***************************************************************************)
services_file_init(fs) ==
  /\ stage = "boot"
  /\ stage' = "ready"
  /\ parsed' = ParseAll(fs)
  /\ numFiles' = Len(fs)
  /\ listNull' = FALSE
  /\ list' = ServList!MakeUniq(ServList!ShortSort(parsed'))
  /\ UNCHANGED <<pc, key, lo, hi, ret, found, got, servent>>

\* services_file_exit(): smartlist_wipe() and NULL, with no lookup running
services_file_exit ==
  /\ stage = "ready"
  /\ \A t \in Threads : pc[t] # "search"
  /\ stage' = "exited"
  /\ listNull' = TRUE
  /\ list' = <<>>
  /\ UNCHANGED <<parsed, numFiles, pc, key, lo, hi, ret, found, got, servent>>

\* the end of ws_getservbyport() without an entry: getservbyport() or NULL
NotFound(t, k) ==
  /\ pc' = [pc EXCEPT ![t] = "returned"]
  /\ ret' = [ret EXCEPT ![t] = IF k.fallback /\ ~k.cleaned THEN "winsock" ELSE "null"]
  /\ found' = [found EXCEPT ![t] = NoEntry]

(***************************************************************************)
(* ws_getservbyport(port, protocol, fallback): the lookup key; an unknown  *)
(* protocol, a NULL list or no configured file skip the search; an empty   *)
(* list makes smartlist_bsearch() find nothing at once.                    *)
(***************************************************************************)
ws_getservbyport(t, port, tok, fallback, cleaned) ==
  LET k == [port |-> port, proto |-> IF tok = NULL THEN {"?"} ELSE EncodeOne(tok),
            tok |-> tok, fallback |-> fallback, cleaned |-> cleaned]
  IN
  /\ stage \in {"ready", "exited"}
  /\ pc[t] \in {"idle", "used"}
  /\ key' = [key EXCEPT ![t] = k]
  /\ got' = [got EXCEPT ![t] = "null"]
  /\ IF (tok # NULL /\ k.proto = {"?"}) \/ listNull \/ numFiles = 0 \/ list = <<>>
     THEN /\ NotFound(t, k)
          /\ UNCHANGED <<lo, hi>>
     ELSE /\ pc' = [pc EXCEPT ![t] = "search"]
          /\ lo' = [lo EXCEPT ![t] = 1]
          /\ hi' = [hi EXCEPT ![t] = Len(list)]
          /\ ret' = [ret EXCEPT ![t] = "null"]
          /\ found' = [found EXCEPT ![t] = NoEntry]
  /\ UNCHANGED <<stage, parsed, numFiles, listNull, list, servent>>

\* fill_servent(se, protocol): the static servent, s_proto NULL for "any"
fill_servent(se, k) ==
  [name |-> se.name, port |-> se.port, proto |-> IF k.proto = {"?"} THEN NULL ELSE k.tok]

(***************************************************************************)
(* One iteration of smartlist_bsearch() with services_bsearch_port_proto(); *)
(* on a match ws_getservbyport() fills ret_fill_servent and returns it.    *)
(***************************************************************************)
BSearchStep(t) ==
  LET mid == ServList!BSearchMid(lo[t], hi[t])
      c   == services_bsearch_port_proto(key[t], list[mid])
  IN
  /\ pc[t] = "search"
  /\ lo[t] <= hi[t]
  /\ \/ /\ c = 0
        /\ pc' = [pc EXCEPT ![t] = "returned"]
        /\ ret' = [ret EXCEPT ![t] = "static"]
        /\ found' = [found EXCEPT ![t] = list[mid]]
        /\ servent' = fill_servent(list[mid], key[t])
        /\ UNCHANGED <<lo, hi>>
     \/ /\ c > 0
        /\ lo' = [lo EXCEPT ![t] = mid + 1]
        /\ UNCHANGED <<pc, hi, ret, found, servent>>
     \/ /\ c < 0
        /\ mid > 1
        /\ hi' = [hi EXCEPT ![t] = mid - 1]
        /\ UNCHANGED <<pc, lo, ret, found, servent>>
     \/ /\ c < 0
        /\ mid = 1
        /\ NotFound(t, key[t])
        /\ UNCHANGED <<lo, hi, servent>>
  /\ UNCHANGED <<stage, parsed, numFiles, listNull, list, key, got>>

\* the loop ends with lo > hi: no entry
BSearchExhausted(t) ==
  /\ pc[t] = "search"
  /\ lo[t] > hi[t]
  /\ NotFound(t, key[t])
  /\ UNCHANGED <<stage, parsed, numFiles, listNull, list, key, lo, hi, got, servent>>

\* the caller reads the servent through the pointer it was given
Use(t) ==
  /\ pc[t] = "returned"
  /\ pc' = [pc EXCEPT ![t] = "used"]
  /\ got' = [got EXCEPT ![t] = IF ret[t] = "static" THEN servent ELSE ret[t]]
  /\ UNCHANGED <<stage, parsed, numFiles, listNull, list, key, lo, hi, ret, found, servent>>

Next ==
  \/ \E fs \in ServicesFiles : services_file_init(fs)
  \/ services_file_exit
  \/ \E t \in Threads, p \in Ports, tok \in LookupToks, fc \in Fallbacks :
       ws_getservbyport(t, p, tok, fc[1], fc[2])
  \/ \E t \in Threads : BSearchStep(t) \/ BSearchExhausted(t) \/ Use(t)

Spec == Init /\ [][Next]_vars

-----------------------------------------------------------------------------
\* a line of the files has the port and, for a protocol, that protocol bit
Listed(k) ==
  \E i \in 1..Len(parsed) : parsed[i].port = k.port /\ (k.tok = NULL \/ k.proto \subseteq parsed[i].proto)

(***************************************************************************)
(* An entry ws_getservbyport() returns is a line of the services files    *)
(* with the port asked for and, when a protocol is given, that protocol   *)
(* among its protocols: the tie-break on protocols in the search, and the *)
(* sort and make_uniq with their non-transitive comparator, never hand    *)
(* back another protocol's entry.                                          *)
(***************************************************************************)
ServiceSound ==
  \A t \in Threads :
    pc[t] \in {"returned", "used"} /\ ret[t] = "static" =>
      /\ \E i \in 1..Len(parsed) : parsed[i] = found[t]
      /\ found[t].port = key[t].port
      /\ key[t].proto # {"?"} => key[t].proto \subseteq found[t].proto

(***************************************************************************)
(* A lookup with no protocol (the "any protocol" case of tests[]) finds an *)
(* entry whenever the files list the port: the sort keeps the entries in   *)
(* port order and make_uniq never drops every entry of a port.            *)
(***************************************************************************)
AnyProtoFound ==
  \A t \in Threads :
    pc[t] \in {"returned", "used"} /\ key[t].tok = NULL /\ stage = "ready" /\ numFiles > 0
      /\ Listed(key[t]) => ret[t] = "static"

(***************************************************************************)
(* spec.md 8 and tests[] (services.c:306): a port and a protocol of       *)
(* protocol_list[] that a line of the files lists are found, so no         *)
(* fallback to getservbyport() is needed.                                  *)
(***************************************************************************)
ServiceFound ==
  \A t \in Threads :
    pc[t] \in {"returned", "used"} /\ key[t].tok \in ProtoNames \ {"?"} /\ stage = "ready" /\ numFiles > 0
      /\ Listed(key[t]) => ret[t] = "static"

(***************************************************************************)
(* The servent a caller reads through the pointer ws_getservbyport()       *)
(* returned is the one filled for its own lookup.                          *)
(***************************************************************************)
ReadOwnResult ==
  \A t \in Threads :
    pc[t] = "used" /\ ret[t] = "static" => got[t] = fill_servent(found[t], key[t])

=============================================================================
