--------------------------- MODULE MC_DNSBLUpdate ---------------------------
(***************************************************************************)
(* DNSBLUpdate for drop.txt and dropv6.txt, both configured.  A day is 4   *)
(* seconds and the slack 1, so runs see copies younger than, exactly at    *)
(* and older than the expiry; the clock starts at 10, above max_days days  *)
(* plus the slack, as the real clock is far above them.                    *)
(***************************************************************************)
EXTENDS DNSBLUpdate

CONSTANTS drop, dropv6

MC_Order == <<drop, dropv6>>
MC_Configured == {drop, dropv6}
=============================================================================
