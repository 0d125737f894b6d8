-------------------------- MODULE MmapTable_proofs --------------------------
(***************************************************************************)
(* Proofs, for every number of buckets, views, offsets and granularity,   *)
(* that the bookkeeping of win_mmap.c finds every pointer a caller holds   *)
(* (HeldTracked) and that _munmap() of such a pointer unmaps its view      *)
(* (UnmapReleasesView).                                                    *)
(*                                                                         *)
(* HeldTracked is not inductive: that the first bucket whose .rval is a    *)
(* held pointer is its live bucket depends on every live bucket, not only *)
(* those of held pointers, and on the views of live buckets being mapped  *)
(* and distinct (the OS gives a new view an address no live view has, so  *)
(* no bucket below the first free one can carry its pointer).  IInv says  *)
(* this of every bucket in use.                                           *)
(***************************************************************************)
EXTENDS MmapTable, TLAPS

Live(i) == storage[i].map # NULL

\* what a bucket in use records
LiveOK(i) ==
  /\ storage[i].rval \in Ptr
  /\ storage[i].rval[1] = storage[i].map
  /\ storage[i].map \in osViews
  /\ storage[i].rval \in held
  /\ \A j \in Slot : j # i /\ Live(j) => storage[j].map # storage[i].map
  /\ \A j \in 1..(i - 1) : storage[j].rval # storage[i].rval

IInv ==
  /\ TypeOK
  /\ \A i \in Slot : Live(i) => LiveOK(i)
  /\ \A p \in held : \E j \in Slot : Live(j) /\ storage[j].rval = p

USE MmapAssumption

-----------------------------------------------------------------------------
\* Initially no bucket is in use and no pointer is held.
LEMMA InitIInv == Init => IInv
BY DEF Init, IInv, TypeOK, Live, Info, MAP_FAILED, Slot

\* a view of a live bucket is not one the OS is about to hand out
LEMMA LiveNotFresh ==
  ASSUME IInv, NEW v \in Views \ osViews, NEW i \in Slot, Live(i)
  PROVE  storage[i].map # v /\ storage[i].rval[1] # v
BY DEF IInv, LiveOK

(***************************************************************************)
(* _mmap() that maps a new view v into the first free bucket k: the       *)
(* buckets below k are in use, so their pointers are of other views.      *)
(***************************************************************************)
LEMMA RememberIInv ==
  ASSUME IInv, NEW v \in Views \ osViews, NEW po \in 0..(Gran - 1),
         NEW k \in Slot, IsFirst(k, FreeSlots),
         osViews' = osViews \cup {v},
         storage' = [storage EXCEPT ![k] = [map |-> v, rval |-> <<v, po>>]],
         held' = held \cup {<<v, po>>},
         mret' = <<v, po>>,
         UNCHANGED <<uret, errno>>
  PROVE  IInv'
<1> DEFINE p == <<v, po>>
<1>1. p \in Ptr
  BY DEF Ptr
<1>2. TypeOK'
  BY <1>1 DEF IInv, TypeOK, Info
<1>3. \A j \in 1..(k - 1) : Live(j)
  BY DEF IsFirst, FreeSlots, Live, Slot
<1>4. \A i \in Slot : i # k => storage'[i] = storage[i]
  BY DEF IInv, TypeOK
<1>5. ASSUME NEW i \in Slot, Live(i)'
      PROVE  LiveOK(i)'
  <2>1. CASE i = k
    <3>1. storage'[k] = [map |-> v, rval |-> p]
      BY DEF IInv, TypeOK
    <3>2. \A j \in Slot : j # k /\ Live(j)' => storage'[j].map # v
      BY <1>4, LiveNotFresh DEF Live
    <3>3. \A j \in 1..(k - 1) : storage'[j].rval # p
      BY <1>3, <1>4, LiveNotFresh DEF Slot
    <3>. QED
      BY <1>1, <2>1, <3>1, <3>2, <3>3 DEF LiveOK
  <2>2. CASE i # k
    <3>1. Live(i) /\ LiveOK(i)
      BY <1>4, <1>5, <2>2 DEF Live, IInv
    <3>2. storage'[i] = storage[i]
      BY <1>4, <2>2
    <3>3. storage[i].map # v /\ storage[i].rval[1] # v
      BY <3>1, LiveNotFresh
    <3>4. storage'[k].map = v /\ storage'[k].rval = p
      BY DEF IInv, TypeOK
    <3>5. \A j \in Slot : j # i /\ Live(j)' => storage'[j].map # storage'[i].map
      BY <1>4, <3>1, <3>2, <3>3, <3>4 DEF LiveOK, Live
    <3>6. \A j \in 1..(i - 1) : storage'[j].rval # storage'[i].rval
      BY <1>4, <3>1, <3>2, <3>3, <3>4 DEF LiveOK, Slot
    <3>. QED
      BY <3>1, <3>2, <3>5, <3>6 DEF LiveOK
  <2>. QED
    BY <2>1, <2>2
<1>6. \A q \in held' : \E j \in Slot : Live(j)' /\ storage'[j].rval = q
  <2>1. storage'[k].map = v /\ storage'[k].rval = p
    BY DEF IInv, TypeOK
  <2>2. ASSUME NEW q \in held PROVE \E j \in Slot : Live(j)' /\ storage'[j].rval = q
    <3>1. PICK j \in Slot : Live(j) /\ storage[j].rval = q
      BY DEF IInv
    <3>2. j # k
      BY <3>1 DEF IsFirst, FreeSlots, Live
    <3>. QED
      BY <1>4, <3>1, <3>2 DEF Live
  <2>. QED
    BY <2>1, <2>2 DEF Live
<1>. QED
  BY <1>2, <1>5, <1>6 DEF IInv

\* _mmap() that returns MAP_FAILED: at most a leaked view is added
LEMMA MmapFailIInv ==
  ASSUME IInv, osViews \subseteq osViews', osViews' \subseteq Views,
         UNCHANGED <<storage, held, uret>>,
         mret' = MAP_FAILED, errno' \in {EFAULT, EAGAIN}
  PROVE  IInv'
BY DEF IInv, TypeOK, LiveOK, Live, MAP_FAILED, EFAULT, EAGAIN, EINVAL

LEMMA MmapIInv ==
  ASSUME IInv, NEW off \in Offsets, NEW ok \in BOOLEAN, mmap(off, ok)
  PROVE  IInv'
<1> DEFINE po == off % Gran
<1>1. po \in 0..(Gran - 1)
  BY DEF MmapAssumption
<1>2. CASE ok
  <2>1. PICK v \in Views \ osViews :
          /\ osViews' = osViews \cup {v}
          /\ mmap_remember(v, po)
          /\ UNCHANGED uret
    BY <1>2 DEF mmap
  <2>2. CASE FreeSlots # {}
    <3>1. PICK k \in Slot :
            /\ IsFirst(k, FreeSlots)
            /\ storage' = [storage EXCEPT ![k] = [map |-> v, rval |-> <<v, po>>]]
      BY <2>1, <2>2 DEF mmap_remember
    <3>. QED
      BY <1>1, <2>1, <2>2, <3>1, RememberIInv DEF mmap_remember
  <2>3. CASE FreeSlots = {}
    <3>1. mret' = MAP_FAILED /\ errno' = EAGAIN /\ UNCHANGED <<storage, held>>
      BY <2>1, <2>3 DEF mmap_remember
    <3>. QED
      BY <2>1, <3>1, MmapFailIInv DEF IInv, TypeOK
  <2>. QED
    BY <2>2, <2>3
<1>3. CASE ~ok
  <2>1. mret' = MAP_FAILED /\ errno' = EFAULT /\ UNCHANGED <<storage, osViews, held, uret>>
    BY <1>3 DEF mmap
  <2>. QED
    BY <2>1, MmapFailIInv DEF IInv, TypeOK
<1>. QED
  BY <1>2, <1>3

(***************************************************************************)
(* _munmap(p): when mmap_forget() stops at bucket i, no bucket below i in *)
(* use and no bucket above it carries the same pointer, so a held pointer *)
(* stops at its own bucket and a pointer no caller holds stops at a free  *)
(* bucket.                                                                *)
(***************************************************************************)
LEMMA ForgetFindsOwner ==
  ASSUME IInv, NEW p \in Ptr, NEW i \in Slot, IsFirst(i, ForgetHits(p))
  PROVE  /\ \A j \in Slot : j # i /\ Live(j) => storage[j].rval # p
         /\ p \in held <=> Live(i)
<1>1. storage[i].rval = p
  BY DEF IsFirst, ForgetHits
<1>2. ASSUME NEW j \in Slot, j # i, Live(j), storage[j].rval = p PROVE FALSE
  <2>1. CASE j < i
    BY <1>2, <2>1 DEF IsFirst, ForgetHits, Slot
  <2>2. CASE j > i
    <3>1. LiveOK(j)
      BY <1>2 DEF IInv
    <3>2. i \in 1..(j - 1)
      BY <2>2 DEF Slot
    <3>. QED
      BY <1>1, <1>2, <3>1, <3>2 DEF LiveOK
  <2>. QED
    BY <1>2, <2>1, <2>2 DEF Slot
<1>3. p \in held => Live(i)
  <2> SUFFICES ASSUME p \in held PROVE Live(i)
    OBVIOUS
  <2>1. PICK j \in Slot : Live(j) /\ storage[j].rval = p
    BY DEF IInv
  <2>2. j = i
    BY <1>2, <2>1
  <2>. QED
    BY <2>1, <2>2
<1>4. Live(i) => p \in held
  BY <1>1 DEF IInv, LiveOK
<1>. QED
  BY <1>2, <1>3, <1>4

LEMMA MunmapIInv ==
  ASSUME IInv, NEW p \in Ptr, munmap(p)
  PROVE  /\ IInv'
         /\ \A q \in held \ held' : q[1] \notin osViews' /\ uret' = 0
<1>1. held' = held \ {p} /\ mret' = mret
  BY DEF munmap
<1>2. CASE ForgetHits(p) = {}
  <2>1. p \notin held
    BY <1>2 DEF IInv, ForgetHits
  <2>2. \A j \in Slot : Live(j) => storage[j].rval # p
    BY <1>2 DEF ForgetHits
  <2>3. UNCHANGED <<storage, osViews>> /\ uret' = -1 /\ errno' = EINVAL
    BY <1>2 DEF munmap
  <2>. QED
    BY <1>1, <2>1, <2>2, <2>3 DEF IInv, TypeOK, LiveOK, Live, EINVAL
<1>3. CASE ForgetHits(p) # {}
  <2>1. PICK i \in Slot :
          /\ IsFirst(i, ForgetHits(p))
          /\ storage' = [storage EXCEPT ![i].map = NULL]
          /\ IF storage[i].map = NULL
             THEN /\ uret' = IF Debug THEN -1 ELSE 0
                  /\ errno' = IF Debug THEN EFAULT ELSE errno
                  /\ UNCHANGED osViews
             ELSE /\ osViews' = osViews \ {storage[i].map}
                  /\ uret' = 0
                  /\ UNCHANGED errno
    BY <1>3 DEF munmap, UnmapAddr
  <2>2. \A j \in Slot : j # i /\ Live(j) => storage[j].rval # p
    BY <2>1, ForgetFindsOwner
  <2>3. storage[i].rval = p
    BY <2>1 DEF IsFirst, ForgetHits
  <2>4. \A j \in Slot : storage'[j].rval = storage[j].rval
                        /\ (Live(j)' <=> Live(j) /\ j # i)
                        /\ (j # i => storage'[j] = storage[j])
    BY <2>1 DEF IInv, TypeOK, Live, Info
  <2>5. TypeOK'
    BY <1>1, <2>1 DEF IInv, TypeOK, Info, EFAULT, EINVAL, EAGAIN
  <2>6. CASE Live(i)
    <3>1. osViews' = osViews \ {storage[i].map} /\ uret' = 0
      BY <2>1, <2>6 DEF Live
    <3>2. ASSUME NEW j \in Slot, Live(j)' PROVE LiveOK(j)'
      <4>1. j # i /\ Live(j) /\ LiveOK(j) /\ storage'[j] = storage[j]
        BY <2>4, <3>2 DEF IInv
      <4>2. storage[j].map # storage[i].map
        BY <2>6, <4>1 DEF LiveOK
      <4>3. storage[j].rval # p
        BY <2>2, <4>1
      <4>4. \A j2 \in Slot : j2 # j /\ Live(j2)' => storage'[j2].map # storage'[j].map
        BY <2>4, <4>1 DEF LiveOK
      <4>5. \A j2 \in 1..(j - 1) : storage'[j2].rval # storage'[j].rval
        BY <2>4, <4>1 DEF LiveOK, Slot
      <4>. QED
        BY <1>1, <3>1, <4>1, <4>2, <4>3, <4>4, <4>5 DEF LiveOK
    <3>3. \A q \in held' : \E j \in Slot : Live(j)' /\ storage'[j].rval = q
      BY <1>1, <2>3, <2>4 DEF IInv
    <3>4. p[1] \notin osViews'
      BY <2>3, <2>6, <3>1 DEF IInv, LiveOK
    <3>. QED
      BY <1>1, <2>5, <3>1, <3>2, <3>3, <3>4 DEF IInv
  <2>7. CASE ~Live(i)
    <3>1. p \notin held
      BY <2>1, <2>7, ForgetFindsOwner
    <3>2. UNCHANGED osViews
      BY <2>1, <2>7 DEF Live
    <3>3. ASSUME NEW j \in Slot, Live(j)' PROVE LiveOK(j)'
      <4>1. j # i /\ Live(j) /\ LiveOK(j) /\ storage'[j] = storage[j]
        BY <2>4, <3>3 DEF IInv
      <4>2. storage[j].rval # p
        BY <2>2, <4>1
      <4>3. \A j2 \in Slot : j2 # j /\ Live(j2)' => storage'[j2].map # storage'[j].map
        BY <2>4, <4>1 DEF LiveOK
      <4>4. \A j2 \in 1..(j - 1) : storage'[j2].rval # storage'[j].rval
        BY <2>4, <4>1 DEF LiveOK, Slot
      <4>. QED
        BY <1>1, <3>2, <4>1, <4>2, <4>3, <4>4 DEF LiveOK
    <3>4. \A q \in held' : \E j \in Slot : Live(j)' /\ storage'[j].rval = q
      BY <1>1, <2>3, <2>4 DEF IInv
    <3>. QED
      BY <1>1, <2>5, <3>1, <3>3, <3>4 DEF IInv
  <2>. QED
    BY <2>6, <2>7
<1>. QED
  BY <1>2, <1>3

LEMMA NextIInv == IInv /\ [Next]_vars => IInv'
<1> SUFFICES ASSUME IInv, [Next]_vars PROVE IInv'
  OBVIOUS
<1>1. CASE \E off \in Offsets, ok \in BOOLEAN : mmap(off, ok)
  BY <1>1, MmapIInv
<1>2. CASE \E p \in Ptr : munmap(p)
  BY <1>2, MunmapIInv
<1>3. CASE UNCHANGED vars
  BY <1>3 DEF vars, IInv, TypeOK, LiveOK, Live
<1>. QED
  BY <1>1, <1>2, <1>3 DEF Next

-----------------------------------------------------------------------------
\* The type invariant of the bookkeeping table holds in every state.
THEOREM TypeCorrect == Spec => []TypeOK
<1>1. IInv => TypeOK
  BY DEF IInv
<1>. QED
  BY <1>1, InitIInv, NextIInv, PTL DEF Spec

(***************************************************************************)
(* For every number of buckets and views, the first bucket mmap_forget()  *)
(* finds for a pointer a caller holds is the bucket in use of its view,   *)
(* and that view is mapped: mmap_remember() filling the lowest free       *)
(* bucket keeps stale .rval copies above the live ones.                   *)
(***************************************************************************)
THEOREM HeldTrackedHolds == Spec => []HeldTracked
<1>1. IInv => HeldTracked
  <2> SUFFICES ASSUME IInv, NEW p \in held
               PROVE  \E j \in Slot : /\ storage[j].rval = p
                                      /\ storage[j].map = p[1]
                                      /\ p[1] \in osViews
                                      /\ \A i \in 1..(j - 1) : storage[i].rval # p
    BY DEF HeldTracked
  <2>1. PICK j \in Slot : Live(j) /\ storage[j].rval = p
    BY DEF IInv
  <2>. QED
    BY <2>1 DEF IInv, LiveOK
<1>. QED
  BY <1>1, InitIInv, NextIInv, PTL DEF Spec

(***************************************************************************)
(* For every number of buckets and views, _munmap() of a pointer _mmap()  *)
(* returned unmaps its view and returns 0.                                *)
(***************************************************************************)
THEOREM UnmapReleasesViewHolds == Spec => UnmapReleasesView
<1>1. IInv /\ [Next]_vars => [\A p \in held \ held' : p[1] \notin osViews' /\ uret' = 0]_vars
  <2> SUFFICES ASSUME IInv, [Next]_vars
               PROVE  [\A p \in held \ held' : p[1] \notin osViews' /\ uret' = 0]_vars
    OBVIOUS
  <2>1. CASE \E off \in Offsets, ok \in BOOLEAN : mmap(off, ok)
    <3>1. held \subseteq held'
      BY <2>1 DEF mmap, mmap_remember
    <3>. QED
      BY <3>1
  <2>2. CASE \E p \in Ptr : munmap(p)
    BY <2>2, MunmapIInv
  <2>3. CASE UNCHANGED vars
    BY <2>3 DEF vars
  <2>. QED
    BY <2>1, <2>2, <2>3 DEF Next
<1>. QED
  BY <1>1, InitIInv, NextIInv, PTL DEF Spec, UnmapReleasesView

=============================================================================
