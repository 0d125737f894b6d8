------------------------- MODULE DNSBLUpdate_proofs -------------------------
(***************************************************************************)
(* Proofs about the refresh policy of DNSBL_update_files() and             *)
(* DNSBL_update_file(), for every list of files, every max_days, day      *)
(* length, slack, int width and clock.  The two action properties rest on *)
(* one fact: while a run is in progress its expiry is the one             *)
(* DNSBL_update_files() computed from the current time, because the clock *)
(* only moves between runs.                                                *)
(***************************************************************************)
EXTENDS DNSBLUpdate, TLAPS

USE UpdateAssumption

(***************************************************************************)
(* max_days * 24 * 3600 fits an int: the product the code computes is the *)
(* true one.                                                               *)
(***************************************************************************)
NoOverflow == WrapInt(MaxDays * SecsPerDay) = MaxAge

(***************************************************************************)
(* The clock is above max_days days plus the slack, so the expiry less    *)
(* the slack is never the 0 that "expiry && ..." reads as no expiry.      *)
(***************************************************************************)
ClockAhead == Epoch > MaxAge + Slack

\* the inductive invariant: types, and the expiry of the run in progress
IInv ==
  /\ TypeOK
  /\ pc = "running" => expiry = RunExpiry(forced)

LEMMA MaxAgeNat == MaxAge \in Nat
BY DEF MaxAge

\* INET_util_touch_file() keeps a file a file
LEMMA TouchedType ==
  ASSUME NEW st \in Stat, now \in Int
  PROVE  Touched(st) \in Stat
<1>1. CASE st.state = "missing"
  BY <1>1 DEF Touched
<1>2. CASE st.state # "missing"
  <2>1. st \in [state : {"empty", "data"}, mtime : Int]
    BY <1>2 DEF Stat
  <2>2. Touched(st) = [state |-> st.state, mtime |-> now]
    BY <1>2, <2>1 DEF Touched
  <2>. QED
    BY <2>1, <2>2 DEF Stat
<1>. QED
  BY <1>1, <1>2

LEMMA InitIInv == Init => IInv
<1> SUFFICES ASSUME Init PROVE IInv
  OBVIOUS
<1>1. now \in Epoch..MaxTime
  BY DEF Init
<1>2. tmp \in [Files -> Stat] /\ dst \in [Files -> Stat]
  BY DEF Init, Stat
<1>3. idx \in 1..(Len(Order) + 1)
  BY DEF Init
<1>4. lastDl \in [Files -> Int]
  BY DEF Init
<1>5. pc \in {"idle", "running"} /\ dl \in {"none", "skip", "download"}
  BY DEF Init
<1>6. forced \in BOOLEAN
  BY DEF Init
<1>8. expiry \in Int /\ num \in Nat
  BY DEF Init
<1>7. TypeOK
  BY <1>1, <1>2, <1>3, <1>4, <1>5, <1>6, <1>8 DEF TypeOK
<1>. QED
  <2>1. pc = "idle"
    BY DEF Init
  <2>. QED
    BY <1>7, <2>1 DEF IInv

LEMMA NextIInv == NoOverflow /\ IInv /\ [Next]_vars => IInv'
<1> SUFFICES ASSUME NoOverflow, IInv, [Next]_vars PROVE IInv'
  OBVIOUS
<1>1. ASSUME NEW force \in BOOLEAN, DNSBL_update_files(force) PROVE IInv'
  <2>1. RunExpiry(force) \in Int
    BY DEF IInv, TypeOK, RunExpiry, NoOverflow, MaxAge
  <2>2. TypeOK'
    BY <1>1, <2>1 DEF DNSBL_update_files, IInv, TypeOK
  <2>3. (expiry = RunExpiry(forced))'
    BY <1>1 DEF DNSBL_update_files, RunExpiry
  <2>. QED
    BY <2>2, <2>3 DEF IInv
<1>2. ASSUME DNSBL_update_file PROVE IInv'
  <2> DEFINE f == Order[idx]
  <2>1. f \in Files /\ idx \in 1..Len(Order)
    BY <1>2 DEF DNSBL_update_file, IInv, TypeOK, Files
  <2>2. [state |-> "data", mtime |-> now] \in Stat
        /\ [state |-> "empty", mtime |-> now] \in Stat
    BY DEF IInv, TypeOK, Stat
  <2>3. Touched(dst[f]) \in Stat
    BY <2>1, TouchedType DEF IInv, TypeOK
  <2>4. tmp' \in [Files -> Stat] /\ dst' \in [Files -> Stat] /\ lastDl' \in [Files -> Int]
        /\ num' \in Nat
    <3>1. CASE UNCHANGED <<tmp, dst, num, lastDl>>
      BY <3>1 DEF IInv, TypeOK
    <3>2. CASE /\ tmp' = [tmp EXCEPT ![f] = [state |-> "data", mtime |-> now]]
               /\ dst' \in {[dst EXCEPT ![f] = [state |-> "data", mtime |-> now]],
                             [dst EXCEPT ![f] = Touched(dst[f])]}
               /\ lastDl' = [lastDl EXCEPT ![f] = now]
               /\ num' = num + 1
      BY <2>1, <2>2, <2>3, <3>2 DEF IInv, TypeOK
    <3>3. CASE /\ tmp' \in {tmp, [tmp EXCEPT ![f] = [state |-> "empty", mtime |-> now]]}
               /\ UNCHANGED <<dst, num, lastDl>>
      BY <2>1, <2>2, <3>3 DEF IInv, TypeOK
    <3>. QED
      BY <1>2, <3>1, <3>2, <3>3 DEF DNSBL_update_file
  <2>6. idx' \in 1..(Len(Order) + 1) /\ dl' \in {"none", "skip", "download"}
    BY <1>2, <2>1 DEF DNSBL_update_file
  <2>7. UNCHANGED <<now, pc, forced, expiry>>
    BY <1>2 DEF DNSBL_update_file
  <2>8. TypeOK'
    BY <2>4, <2>6, <2>7 DEF IInv, TypeOK
  <2>5. (pc = "running" => expiry = RunExpiry(forced))'
    BY <1>2 DEF DNSBL_update_file, IInv, RunExpiry
  <2>. QED
    BY <2>8, <2>5 DEF IInv
<1>3. ASSUME UpdateDone PROVE IInv'
  BY <1>3 DEF UpdateDone, IInv, TypeOK
<1>4. ASSUME Tick PROVE IInv'
  BY <1>4 DEF Tick, IInv, TypeOK
<1>5. ASSUME NEW f \in Files, DeleteFile(f) PROVE IInv'
  <2>1. [state |-> "missing"] \in Stat
    BY DEF Stat
  <2>. QED
    BY <1>5, <2>1 DEF DeleteFile, IInv, TypeOK
<1>6. CASE UNCHANGED vars
  BY <1>6 DEF vars, IInv, TypeOK, RunExpiry
<1>. QED
  BY <1>1, <1>2, <1>3, <1>4, <1>5, <1>6 DEF Next

THEOREM IInvHolds == NoOverflow /\ Spec => []IInv
<1> SUFFICES ASSUME NoOverflow PROVE Spec => []IInv
  OBVIOUS
<1>. QED
  BY InitIInv, NextIInv, PTL DEF Spec

(***************************************************************************)
(* The steps that advance idx are DNSBL_update_file() steps.               *)
(***************************************************************************)
LEMMA AdvanceIsUpdateFile ==
  ASSUME IInv, [Next]_vars, idx' = idx + 1
  PROVE  DNSBL_update_file
<1>1. idx \in Int
  BY DEF IInv, TypeOK
<1>. QED
  BY <1>1 DEF Next, DNSBL_update_files, UpdateDone, Tick, DeleteFile, vars, IInv, TypeOK

-----------------------------------------------------------------------------
(***************************************************************************)
(* StaleRefreshed, for every instance where max_days * 24 * 3600 fits an  *)
(* int: DNSBL_update_file() downloads every configured file whose temp    *)
(* copy is missing, empty or at least max_days days plus the slack old,   *)
(* in forced and in unforced runs.                                         *)
(***************************************************************************)
LEMMA StaleStep ==
  ASSUME NoOverflow, IInv, [Next]_vars,
         pc = "running", idx' = idx + 1, Cur \in Configured, Stale(tmp[Cur])
  PROVE  dl' = "download"
<1>1. DNSBL_update_file
  BY AdvanceIsUpdateFile
<1>2. idx \in 1..Len(Order) /\ Cur \in Files
  BY <1>1 DEF DNSBL_update_file, IInv, TypeOK, Cur, Files
<1>3. tmp[Cur] \in Stat /\ now \in Int /\ expiry \in Int /\ MaxAge \in Nat /\ Slack \in Nat
  BY <1>2, MaxAgeNat DEF IInv, TypeOK
<1>4. expiry >= now - MaxAge
  <2>1. CASE forced
    BY <1>3, <2>1 DEF IInv, RunExpiry
  <2>2. CASE ~forced
    BY <1>3, <2>2 DEF IInv, RunExpiry, NoOverflow, MaxAge
  <2>. QED
    BY <2>1, <2>2
<1>5. ~(tmp[Cur].state = "data" /\ Fresh(tmp[Cur], expiry - Slack))
  <2>1. SUFFICES ASSUME tmp[Cur].state = "data" PROVE ~Fresh(tmp[Cur], expiry - Slack)
    OBVIOUS
  <2>2. tmp[Cur].mtime \in Int
    BY <1>3, <2>1 DEF Stat
  <2>3. tmp[Cur].mtime <= now - MaxAge - Slack
    BY <2>1 DEF Stale
  <2>. QED
    BY <1>3, <1>4, <2>2, <2>3 DEF Fresh
<1>. QED
  BY <1>1, <1>5 DEF DNSBL_update_file, Cur

THEOREM StaleRefreshedHolds == NoOverflow /\ Spec => StaleRefreshed
<1> SUFFICES ASSUME NoOverflow PROVE Spec => StaleRefreshed
  OBVIOUS
<1>1. IInv /\ [Next]_vars =>
        [pc = "running" /\ idx' = idx + 1 /\ Cur \in Configured /\ Stale(tmp[Cur])
           => dl' = "download"]_vars
  BY StaleStep
<1>. QED
  BY <1>1, IInvHolds, PTL DEF StaleRefreshed, Spec

(***************************************************************************)
(* NoEarlyRedownload, for every instance where max_days * 24 * 3600 fits  *)
(* an int and the clock is ahead of it: an unforced run downloads a file  *)
(* whose copy from the last download is still there only once that copy  *)
(* is max_days days old, less the slack.                                   *)
(***************************************************************************)
LEMMA EarlyStep ==
  ASSUME NoOverflow, ClockAhead, IInv, [Next]_vars,
         pc = "running", ~forced, idx' = idx + 1, dl' = "download",
         tmp[Cur].state = "data", tmp[Cur].mtime = lastDl[Cur]
  PROVE  now - lastDl[Cur] >= MaxAge - Slack
<1>1. DNSBL_update_file
  BY AdvanceIsUpdateFile
<1>2. idx \in 1..Len(Order) /\ Cur \in Files
  BY <1>1 DEF DNSBL_update_file, IInv, TypeOK, Cur, Files
<1>3. tmp[Cur] \in Stat /\ now \in Epoch..MaxTime /\ lastDl[Cur] \in Int
        /\ MaxAge \in Nat /\ Slack \in Nat
  BY <1>2, MaxAgeNat DEF IInv, TypeOK
<1>4. expiry = now - MaxAge
  BY <1>3 DEF IInv, RunExpiry, NoOverflow, MaxAge
<1>5. ~Fresh(tmp[Cur], expiry - Slack)
  BY <1>1 DEF DNSBL_update_file, Cur
<1>6. expiry - Slack # 0
  BY <1>3, <1>4 DEF ClockAhead
<1>. QED
  BY <1>3, <1>4, <1>5, <1>6 DEF Fresh, Stat

THEOREM NoEarlyRedownloadHolds == NoOverflow /\ ClockAhead /\ Spec => NoEarlyRedownload
<1> SUFFICES ASSUME NoOverflow, ClockAhead PROVE Spec => NoEarlyRedownload
  OBVIOUS
<1>1. IInv /\ [Next]_vars =>
        [pc = "running" /\ ~forced /\ idx' = idx + 1 /\ dl' = "download"
           /\ tmp[Cur].state = "data" /\ tmp[Cur].mtime = lastDl[Cur]
           => now - lastDl[Cur] >= MaxAge - Slack]_vars
  BY EarlyStep
<1>. QED
  BY <1>1, IInvHolds, PTL DEF NoEarlyRedownload, Spec

=============================================================================
