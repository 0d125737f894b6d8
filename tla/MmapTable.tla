----------------------------- MODULE MmapTable -----------------------------
(***************************************************************************)
(* The mmap() emulation of src/src/Geo-IP/IPFire/libloc/src/win_mmap.c.    *)
(* _mmap() maps a view of the file from the allocation-granularity        *)
(* boundary below the offset (CreateFileMapping + MapViewOfFile) and hands *)
(* the caller view + (offset mod granularity).  mmap_remember() stores the *)
(* pair (view, returned pointer) in the first free bucket of the static    *)
(* table mmap_storage[]; _munmap() looks the caller's pointer up with      *)
(* mmap_forget(), frees the bucket and unmaps the view it recorded.        *)
(*                                                                         *)
(* mmap_forget() clears only the .map of a bucket: the .rval of a free    *)
(* bucket keeps the last pointer it held, and the lookup compares .rval of *)
(* every bucket, free or not, in index order.                             *)
(*                                                                         *)
(* A view is a base address the OS can hand out (Views); the OS never     *)
(* returns the base of a view still mapped.  A pointer is the pair         *)
(* <<view, offset within the granule>>.                                   *)
(***************************************************************************)
EXTENDS Integers

CONSTANTS
  N,        \* DIM(mmap_storage), 10 in the code
  Views,    \* the view base addresses MapViewOfFile() can return
  Offsets,  \* the file offsets callers map from
  Gran,     \* si.dwAllocationGranularity
  Debug,    \* debug (LIBLOC_DEBUG set to 1..9)
  NULL      \* a NULL pointer

ASSUME MmapAssumption ==
  /\ N \in Nat \ {0}
  /\ Gran \in Nat \ {0}
  /\ Offsets \subseteq Nat
  /\ Debug \in BOOLEAN
  /\ NULL \notin Views

Slot == 1..N
Ptr == Views \X (0..(Gran - 1))
MAP_FAILED == <<NULL, -1>>

\* errno values
EFAULT == 14
EAGAIN == 11
EINVAL == 22

\* struct mmap_info
Info == [map : Views \cup {NULL}, rval : Ptr \cup {NULL}]

VARIABLES
  storage,   \* mmap_storage[]
  osViews,   \* the views MapViewOfFile() has mapped and not yet unmapped
  held,      \* the pointers _mmap() returned that the callers have not unmapped
  mret,      \* what the last _mmap() returned
  uret,      \* what the last _munmap() returned
  errno

vars == <<storage, osViews, held, mret, uret, errno>>

TypeOK ==
  /\ storage \in [Slot -> Info]
  /\ osViews \subseteq Views
  /\ held \subseteq Ptr
  /\ mret \in Ptr \cup {MAP_FAILED}
  /\ uret \in {0, -1}
  /\ errno \in {0, EFAULT, EAGAIN, EINVAL}

Init ==
  /\ storage = [i \in Slot |-> [map |-> NULL, rval |-> NULL]]
  /\ osViews = {}
  /\ held = {}
  /\ mret = MAP_FAILED
  /\ uret = 0
  /\ errno = 0

\* the buckets whose .map is NULL
FreeSlots == {i \in Slot : storage[i].map = NULL}

\* i is where a loop "for (i = 0; i < DIM(mmap_storage); i++)" that stops
\* at the first bucket of S stops
IsFirst(i, S) == i \in S /\ \A j \in 1..(i - 1) : j \notin S

\* mutant: mmap_remember() scanning the buckets from the last one down
MutantRememberTopDown(v, poffset) ==
  LET p == <<v, poffset>> IN
  IF FreeSlots # {}
  THEN /\ \E i \in FreeSlots :
            /\ \A j \in (i + 1)..N : j \notin FreeSlots
            /\ storage' = [storage EXCEPT ![i] = [map |-> v, rval |-> p]]
       /\ held' = held \cup {p}
       /\ mret' = p
       /\ UNCHANGED errno
  ELSE /\ mret' = MAP_FAILED
       /\ errno' = EAGAIN
       /\ UNCHANGED <<storage, held>>

(***************************************************************************)
(* mmap_remember(map, offset) for a view that was mapped: the first free   *)
(* bucket gets (map, map + offset) and the caller gets map + offset; with  *)
(* every bucket in use it returns MAP_FAILED with errno EAGAIN and the     *)
(* view stays mapped.                                                      *)
(***************************************************************************)
mmap_remember(v, poffset) ==
  LET p == <<v, poffset>> IN
  IF FreeSlots # {}
  THEN /\ \E i \in Slot :
            /\ IsFirst(i, FreeSlots)
            /\ storage' = [storage EXCEPT ![i] = [map |-> v, rval |-> p]]
       /\ held' = held \cup {p}
       /\ mret' = p
       /\ UNCHANGED errno
  ELSE /\ mret' = MAP_FAILED
       /\ errno' = EAGAIN
       /\ UNCHANGED <<storage, held>>

(***************************************************************************)
(* _mmap(): pstart is the offset rounded down to the granularity.  When    *)
(* CreateFileMapping() or MapViewOfFile() fails (or the protection is none *)
(* of the three), map is MAP_FAILED and mmap_remember() returns it with    *)
(* errno EFAULT; otherwise the OS maps a view at an address not in use.    *)
(***************************************************************************)
mmap(offset, ok) ==
  LET poffset == offset % Gran IN
  /\ IF ok
     THEN \E v \in Views \ osViews :
            /\ osViews' = osViews \cup {v}
            /\ mmap_remember(v, poffset)
     ELSE /\ mret' = MAP_FAILED
          /\ errno' = EFAULT
          /\ UNCHANGED <<storage, osViews, held>>
  /\ UNCHANGED uret

\* the buckets mmap_forget() compares equal to the pointer: .rval == map
ForgetHits(p) == {i \in Slot : storage[i].rval = p}

\* mutant: UnmapViewOfFile() given the caller's pointer, which is a view
\* base only when the offset was a multiple of the granularity
MutantUnmapCallerPtr(p, info) == IF p[2] = 0 THEN p[1] ELSE NULL

\* the view _munmap() hands to UnmapViewOfFile(): info.map
UnmapAddr(p, info) == info.map

(***************************************************************************)
(* _munmap(map): mmap_forget() takes the first bucket whose .rval is the   *)
(* pointer, copies it to info and clears its .map; none gives -1 (EINVAL). *)
(* Then UnmapViewOfFile(info.map): it fails for a bucket that was already  *)
(* free (info.map NULL), and the failure is reported (-1, EFAULT) only     *)
(* with debug on.  The caller gives the pointer up either way.            *)
(***************************************************************************)
munmap(p) ==
  /\ IF ForgetHits(p) = {}
     THEN /\ uret' = -1
          /\ errno' = EINVAL
          /\ UNCHANGED <<storage, osViews>>
     ELSE \E i \in Slot :
            LET info == storage[i]
                a    == UnmapAddr(p, info)
            IN  /\ IsFirst(i, ForgetHits(p))
                /\ storage' = [storage EXCEPT ![i].map = NULL]
                /\ IF a = NULL
                   THEN /\ uret' = IF Debug THEN -1 ELSE 0
                        /\ errno' = IF Debug THEN EFAULT ELSE errno
                        /\ UNCHANGED osViews
                   ELSE /\ osViews' = osViews \ {a}
                        /\ uret' = 0
                        /\ UNCHANGED errno
  /\ held' = held \ {p}
  /\ UNCHANGED mret

Next ==
  \/ \E off \in Offsets, ok \in BOOLEAN : mmap(off, ok)
  \/ \E p \in Ptr : munmap(p)

Spec == Init /\ [][Next]_vars

-----------------------------------------------------------------------------
(***************************************************************************)
(* Every pointer a caller holds is found by mmap_forget() in a bucket in   *)
(* use that records its own view, still mapped: the first bucket whose     *)
(* .rval equals it is that bucket.  The free buckets keep stale .rval      *)
(* values and the OS reuses addresses, so this rests on mmap_remember()    *)
(* filling the lowest free bucket while mmap_forget() scans from the       *)
(* lowest: a stale copy of a pointer can only sit above its live bucket.   *)
(***************************************************************************)
HeldTracked ==
  \A p \in held :
    \E j \in Slot :
      /\ storage[j].rval = p
      /\ storage[j].map = p[1]
      /\ p[1] \in osViews
      /\ \A i \in 1..(j - 1) : storage[i].rval # p

(***************************************************************************)
(* _munmap() of a pointer _mmap() returned unmaps its view and returns 0:  *)
(* a step that takes a pointer from the callers leaves none of the views   *)
(* of the given-up pointers mapped.                                        *)
(***************************************************************************)
UnmapReleasesView ==
  [][\A p \in held \ held' : p[1] \notin osViews' /\ uret' = 0]_vars

(***************************************************************************)
(* POSIX mmap(): MAP_FAILED means nothing was mapped.  Every view the OS   *)
(* has mapped is recorded in a bucket in use, so _munmap() can release it. *)
(***************************************************************************)
NoLeakedView ==
  osViews = {storage[i].map : i \in Slot \ FreeSlots}

=============================================================================
