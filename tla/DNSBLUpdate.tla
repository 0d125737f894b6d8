---------------------------- MODULE DNSBLUpdate ----------------------------
(***************************************************************************)
(* The refresh policy of the DROP files, DNSBL_update_files() and          *)
(* DNSBL_update_file() of src/src/dnsbl.c, run again and again as time     *)
(* passes and as files disappear.  For every configured file the code      *)
(* stat()s the copy in the temp directory (tmp_file), not the configured   *)
(* file (fname): a missing or empty copy, or one not newer than expiry (10 *)
(* seconds of slack below now - max_days days), is downloaded again; a     *)
(* download that returns > 0 writes the copy, CopyFile()s it over fname    *)
(* and touches fname.  The download is an external call and may fail,     *)
(* leaving the copy as it was or empty.                                    *)
(*                                                                         *)
(* A file is "missing", "empty" or "data" with a modification time.  Time  *)
(* is in seconds, scaled: SecsPerDay stands for 24 * 3600 and Slack for    *)
(* the 10 seconds.  max_days * 24 * 3600 is evaluated in int, IntBits wide *)
(* (32 in the build, where a signed overflow wraps).                       *)
(***************************************************************************)
EXTENDS Integers, Sequences

CONSTANTS
  Order,       \* the files in the order DNSBL_update_files() handles them
  Configured,  \* the files whose fname and url are set (not NULL)
  MaxDays,     \* g_cfg.DNSBL.max_days
  SecsPerDay,  \* 24 * 3600
  Slack,       \* the 10 seconds of DNSBL_update_file()
  IntBits,     \* the width of int
  Epoch,       \* time(NULL) when the model starts
  MaxTime      \* the last second the model lets pass

Files == {Order[i] : i \in 1..Len(Order)}

ASSUME UpdateAssumption ==
  /\ Len(Order) > 0
  /\ \A i, j \in 1..Len(Order) : Order[i] = Order[j] => i = j
  /\ Configured \subseteq Files
  /\ MaxDays \in Nat /\ SecsPerDay \in Nat \ {0} /\ Slack \in Nat
  /\ IntBits \in Nat \ {0} /\ Epoch \in Nat /\ MaxTime \in Nat /\ Epoch <= MaxTime

\* an int result of IntBits bits, as the multiplication wraps
WrapInt(x) == ((x + 2^(IntBits - 1)) % 2^IntBits) - 2^(IntBits - 1)

Stat == [state : {"missing"}] \cup [state : {"empty", "data"}, mtime : Int]

VARIABLES
  now,       \* time(NULL)
  tmp,       \* the copy in g_data.ws_tmp_dir, per file
  dst,       \* the configured file g_cfg.DNSBL.drop_file / dropv6_file
  pc,        \* "idle" or "running" (inside DNSBL_update_files())
  forced,    \* force_update of the current run
  expiry,    \* expiry of the current run
  idx,       \* the next file of Order the current run handles
  num,       \* the count DNSBL_update_files() returns
  dl,        \* what the last DNSBL_update_file() did: "none", "skip", "download"
  lastDl     \* per file, the time of the last download that returned > 0

vars == <<now, tmp, dst, pc, forced, expiry, idx, num, dl, lastDl>>

TypeOK ==
  /\ now \in Epoch..MaxTime
  /\ tmp \in [Files -> Stat]
  /\ dst \in [Files -> Stat]
  /\ pc \in {"idle", "running"}
  /\ forced \in BOOLEAN
  /\ expiry \in Int
  /\ idx \in 1..(Len(Order) + 1)
  /\ num \in Nat
  /\ dl \in {"none", "skip", "download"}
  /\ lastDl \in [Files -> Int]

\* the files as checked out: the configured file present, the temp copy
\* absent or left from an earlier run, all written at Epoch
Init ==
  /\ now = Epoch
  /\ tmp \in [Files -> {[state |-> "missing"], [state |-> "data", mtime |-> Epoch]}]
  /\ dst = [f \in Files |-> [state |-> "data", mtime |-> Epoch]]
  /\ pc = "idle"
  /\ forced = FALSE
  /\ expiry = 0
  /\ idx = 1
  /\ num = 0
  /\ dl = "none"
  /\ lastDl = [f \in Files |-> Epoch]

\* mutant: the max_days subtraction dropped from the expiry of a run
MutantExpiryNow(force) == now

\* DNSBL_update_files(): expiry = now, less max_days days unless forced
RunExpiry(force) ==
  IF force THEN now ELSE now - WrapInt(MaxDays * SecsPerDay)

(***************************************************************************)
(* DNSBL_update_files(force_update): with DNSBL enabled, now = time(NULL)  *)
(* and expiry for both files; then one DNSBL_update_file() per file.       *)
(***************************************************************************)
DNSBL_update_files(force) ==
  /\ pc = "idle"
  /\ pc' = "running"
  /\ forced' = force
  /\ expiry' = RunExpiry(force)
  /\ idx' = 1
  /\ num' = 0
  /\ UNCHANGED <<now, tmp, dst, dl, lastDl>>

\* mutant: the age test with >= (a copy exactly at expiry counts as fresh)
MutantFreshGE(st, exp) == exp # 0 /\ st.mtime >= exp

\* the else branch of DNSBL_update_file(): a copy with data newer than the
\* expiry less the slack is fresh ("expiry && st.st_mtime > expiry")
Fresh(st, exp) == exp # 0 /\ st.mtime > exp

\* fname after a CopyFile() that failed (its result is not tested) and
\* INET_util_touch_file(), which sets the time of a file that exists
Touched(st) == IF st.state = "missing" THEN st ELSE [st EXCEPT !.mtime = now]

(***************************************************************************)
(* DNSBL_update_file(fname, tmp_file, url, now, expiry): NULL fname or url *)
(* gives 0; stat() of tmp_file; a non-empty copy that is Fresh gives 0;    *)
(* otherwise INET_util_download_file(): > 0 writes the copy, CopyFile()    *)
(* copies it to fname (its time then set by INET_util_touch_file()) and    *)
(* gives 1, whether or not the copy succeeded; otherwise 0, the temp copy  *)
(* left as it was or truncated.                                            *)
(***************************************************************************)
DNSBL_update_file ==
  LET f   == Order[idx]
      exp == expiry - Slack
  IN
  /\ pc = "running"
  /\ idx <= Len(Order)
  /\ idx' = idx + 1
  /\ \/ /\ f \notin Configured \/ (tmp[f].state = "data" /\ Fresh(tmp[f], exp))
        /\ dl' = "skip"
        /\ UNCHANGED <<tmp, dst, num, lastDl>>
     \/ /\ f \in Configured
        /\ ~(tmp[f].state = "data" /\ Fresh(tmp[f], exp))
        /\ dl' = "download"
        /\ \/ /\ tmp' = [tmp EXCEPT ![f] = [state |-> "data", mtime |-> now]]
              /\ dst' \in {[dst EXCEPT ![f] = [state |-> "data", mtime |-> now]],
                          [dst EXCEPT ![f] = Touched(dst[f])]}
              /\ lastDl' = [lastDl EXCEPT ![f] = now]
              /\ num' = num + 1
           \/ /\ tmp' \in {tmp, [tmp EXCEPT ![f] = [state |-> "empty", mtime |-> now]]}
              /\ UNCHANGED <<dst, num, lastDl>>
  /\ UNCHANGED <<now, pc, forced, expiry>>

\* DNSBL_update_files() returns num after the last file
UpdateDone ==
  /\ pc = "running"
  /\ idx = Len(Order) + 1
  /\ pc' = "idle"
  /\ dl' = "none"
  /\ UNCHANGED <<now, tmp, dst, forced, expiry, idx, num, lastDl>>

\* time passes between runs
Tick ==
  /\ pc = "idle"
  /\ \E d \in 1..SecsPerDay : now + d <= MaxTime /\ now' = now + d
  /\ UNCHANGED <<tmp, dst, pc, forced, expiry, idx, num, dl, lastDl>>

\* the environment: a configured file, or its temp copy, is deleted
DeleteFile(f) ==
  /\ pc = "idle"
  /\ \/ dst[f].state # "missing" /\ dst' = [dst EXCEPT ![f] = [state |-> "missing"]]
                                 /\ UNCHANGED tmp
     \/ tmp[f].state # "missing" /\ tmp' = [tmp EXCEPT ![f] = [state |-> "missing"]]
                                 /\ UNCHANGED dst
  /\ UNCHANGED <<now, pc, forced, expiry, idx, num, dl, lastDl>>

Next ==
  \/ \E force \in BOOLEAN : DNSBL_update_files(force)
  \/ DNSBL_update_file
  \/ UpdateDone
  \/ Tick
  \/ \E f \in Files : DeleteFile(f)

Spec == Init /\ [][Next]_vars

-----------------------------------------------------------------------------
\* the file handled by the current DNSBL_update_file() step
Cur == Order[idx]

\* the age max_days stands for, in true arithmetic
MaxAge == MaxDays * SecsPerDay

\* a copy that is missing, empty, or at least MaxAge plus the slack old
Stale(st) == st.state # "data" \/ st.mtime <= now - MaxAge - Slack

(***************************************************************************)
(* spec.md 4.4, refresh policy: a refresh is due when the file is missing, *)
(* zero-length, or older than now minus the maximum age (with about 10 s   *)
(* of slack); DNSBL_update_file() then downloads it.  Stated of the temp   *)
(* copy the code stat()s: a step of a configured file whose copy is Stale  *)
(* downloads.                                                              *)
(***************************************************************************)
StaleRefreshed ==
  [][pc = "running" /\ idx' = idx + 1 /\ Cur \in Configured /\ Stale(tmp[Cur])
       => dl' = "download"]_vars

(***************************************************************************)
(* DNSBL_update_files() without force never downloads a file again within *)
(* max_days days (less the slack) of its last download, while that copy    *)
(* is still in the temp directory: the SpamHaus lists are fetched at most *)
(* once per period.                                                        *)
(***************************************************************************)
NoEarlyRedownload ==
  [][pc = "running" /\ ~forced /\ idx' = idx + 1 /\ dl' = "download"
       /\ tmp[Cur].state = "data" /\ tmp[Cur].mtime = lastDl[Cur]
       => now - lastDl[Cur] >= MaxAge - Slack]_vars

(***************************************************************************)
(* spec.md 4.4: a missing configured file is due for a refresh.  When      *)
(* DNSBL_update_file() handles a configured file that is missing, it       *)
(* downloads.                                                              *)
(***************************************************************************)
MissingFileRefreshed ==
  [][pc = "running" /\ idx' = idx + 1 /\ Cur \in Configured /\ dst[Cur].state = "missing"
       => dl' = "download"]_vars

(***************************************************************************)
(* dnsbl_main's help: "-f: force an update with the '-u' option".  A       *)
(* forced DNSBL_update_files() downloads every configured file.            *)
(***************************************************************************)
ForcedRefreshes ==
  [][pc = "running" /\ forced /\ idx' = idx + 1 /\ Cur \in Configured
       => dl' = "download"]_vars

=============================================================================
