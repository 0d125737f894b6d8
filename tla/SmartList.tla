----------------------------- MODULE SmartList -----------------------------
(***************************************************************************)
(* The sorted container ("smartlist") the lookup components are built on.  *)
(* Its source (smartlist.c) is not part of src/: the operators here follow *)
(* the contract of spec.md section 4.1 and the calls made by dnsbl.c,      *)
(* hosts.c and services.c.                                                 *)
(*                                                                         *)
(* A list is a TLA+ sequence (1-based; the C list is 0-based).  A user of  *)
(* the container instantiates this module with its line parser, the test  *)
(* that says whether the parser called smartlist_add(), and its sort       *)
(* comparator Cmp(a, b), an integer whose sign is the order of a and b.    *)
(* A file is absent ([present |-> FALSE]) or a sequence of lines.          *)
(***************************************************************************)
EXTENDS Integers, Sequences

CONSTANTS
  Parser(_),   \* the smartlist_parse_func applied to each line
  Keep(_),     \* the parser's result is an entry it added to the list
  Cmp(_, _)    \* the comparator given to smartlist_sort()

(***************************************************************************)
(* smartlist_read_file(): the parser applied to every line of a file that  *)
(* fopen() can open; an absent file yields nothing.                        *)
(***************************************************************************)
ReadFile(f) ==
  IF f.present THEN [i \in 1..Len(f.lines) |-> Parser(f.lines[i])] ELSE <<>>

\* smartlist_sort(): ordered by Cmp
SortedBy(s) ==
  \A i, j \in 1..Len(s) : i < j => Cmp(s[i], s[j]) <= 0

(***************************************************************************)
(* The lists smartlist_read_file() followed by smartlist_append() and      *)
(* smartlist_sort() can produce from the parse results m: the results the  *)
(* parser added (Kept), each once, in an order given by an index map f     *)
(* from list positions onto them; qsort is not stable, so any arrangement  *)
(* ordered by Cmp is an outcome.                                           *)
(***************************************************************************)
Kept(m) == {i \in 1..Len(m) : Keep(m[i])}

IndexMaps(m) ==
  { f \in UNION { [1..n -> Kept(m)] : n \in 0..Len(m) } :
      /\ \A v \in Kept(m) : \E k \in DOMAIN f : f[k] = v
      /\ \A k1, k2 \in DOMAIN f : f[k1] = f[k2] => k1 = k2 }

Arrangements(m) == { [k \in DOMAIN f |-> m[f[k]]] : f \in IndexMaps(m) }

SortResults(m) == { t \in Arrangements(m) : SortedBy(t) }

(***************************************************************************)
(* smartlist_sort() as the Windows C runtime's qsort() does it for at most *)
(* eight entries (its CUTOFF): shortsort, which for hi = n down to 2 scans *)
(* t[1..hi] for the entry p with Cmp(p, max) > 0 and swaps it to hi.  For  *)
(* a comparator that is no total order (services.c) the result depends on *)
(* this procedure, not only on Cmp.                                        *)
(***************************************************************************)
ScanMax(t, h) ==
  LET m[k \in 1..h] == IF k = 1 THEN 1
                       ELSE IF Cmp(t[k], t[m[k - 1]]) > 0 THEN k ELSE m[k - 1]
  IN  m[h]

SwapAt(t, i, j) == [t EXCEPT ![i] = t[j], ![j] = t[i]]

ShortSort(s) ==
  LET after[h \in 1..(Len(s) + 1)] ==
        IF h = Len(s) + 1 THEN s
        ELSE SwapAt(after[h + 1], ScanMax(after[h + 1], h), h)
  IN  after[1]

(***************************************************************************)
(* smartlist_make_uniq(): walking from the second entry, an entry that Cmp *)
(* calls equal to the entry before it in the list as it is by then (the   *)
(* last one kept) is freed and removed.  kept[i] is the list made from the *)
(* first i entries.  The count it returns is the number removed.           *)
(***************************************************************************)
MakeUniq(s) ==
  LET kept[i \in 0..Len(s)] ==
        IF i = 0 THEN <<>>
        ELSE IF i > 1 /\ Cmp(kept[i - 1][Len(kept[i - 1])], s[i]) = 0
             THEN kept[i - 1]
             ELSE Append(kept[i - 1], s[i])
  IN  kept[Len(s)]

UniqRemoved(s) == Len(s) - Len(MakeUniq(s))

(***************************************************************************)
(* smartlist_bsearch(): the midpoint of the window [lo, hi].               *)
(***************************************************************************)
BSearchMid(lo, hi) == lo + (hi - lo) \div 2

=============================================================================
