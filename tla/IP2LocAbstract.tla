--------------------------- MODULE IP2LocAbstract ---------------------------
(***************************************************************************)
(* What a lookup of the geo database promises its caller (spec.md 4.3),    *)
(* with the search hidden: a call takes an address, and the return that    *)
(* follows hands back the answer for that address in one step.  Between  *)
(* the two the lookup is busy; it never fails, and a busy lookup returns. *)
(***************************************************************************)
EXTENDS Integers

CONSTANTS
  Addrs,       \* the addresses a caller may look up
  Answer(_),   \* the row a lookup of an address returns
  None         \* no row

VARIABLES
  apc,         \* "idle", "busy" (called, not yet returned) or "done"
  aaddr,       \* the address of the last call
  ahit         \* the row the last return handed back

avars == <<apc, aaddr, ahit>>

AInit == apc = "idle" /\ aaddr = 0 /\ ahit = None

\* the caller asks for address a
Call(a) ==
  /\ apc \in {"idle", "done"}
  /\ apc' = "busy"
  /\ aaddr' = a
  /\ ahit' = None

\* the lookup returns the answer for the address asked for
Return ==
  /\ apc = "busy"
  /\ apc' = "done"
  /\ ahit' = Answer(aaddr)
  /\ UNCHANGED aaddr

ANext == (\E a \in Addrs : Call(a)) \/ Return

\* the safety part: only calls and correct returns, in that order
ASafe == AInit /\ [][ANext]_avars

ASpec == ASafe /\ WF_avars(Return)

=============================================================================
