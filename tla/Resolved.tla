------------------------------ MODULE Resolved ------------------------------
(***************************************************************************)
(* The resolved server of a ProtectedDialer (libv2ray_support.go): its     *)
(* list of addresses and NextIP, which Dial calls after a failed           *)
(* connection to move to another one.  ipIdx is a uint8, and so is the     *)
(* length NextIP compares it with.                                         *)
(*                                                                         *)
(* NextIP and currentIP hold ipLock from beginning to end, so each is one  *)
(* step; an address is its index in r.IPs.  Time counts seconds since      *)
(* lastSwitched, up to the throttle; a new resolved has the zero           *)
(* lastSwitched, which is longer ago than that.                            *)
(***************************************************************************)
EXTENDS Naturals

CONSTANTS
    Lengths,    \* how many addresses a lookup may put in r.IPs
    Throttle    \* seconds between two switches (5 in the code)

ASSUME ConstantsAssumption ==
    /\ Throttle \in Nat \ {0}
    /\ Lengths \subseteq Nat

VARIABLES
    len,        \* len(r.IPs); 0 while there is no resolved
    ipIdx,      \* r.ipIdx, a uint8
    since       \* seconds since r.lastSwitched, at most Throttle

vars == <<len, ipIdx, since>>

uint8(n) == n % 256

-----------------------------------------------------------------------------
Init ==
    /\ len = 0
    /\ ipIdx = 0
    /\ since = Throttle

\* lookupAddr makes a new resolved, which replaces d.vServer.
NewResolved(n) ==
    /\ len' = n
    /\ ipIdx' = 0
    /\ since' = Throttle

\* An increment that compares with the length by > and not by >=.
AdvanceOffByOne(i, n) ==
    LET j == uint8(i + 1) IN IF j > uint8(n) THEN 0 ELSE j

\* An increment that goes to and fro between the first two addresses.
AdvanceToggle(i, n) == IF i = 0 THEN 1 ELSE 0

\* An increment that never reaches the last address.
AdvanceShort(i, n) ==
    LET j == uint8(i + 1) IN IF j >= uint8(n) - 1 THEN 0 ELSE j

\* The index after an increment: the comparison is between uint8 values.
Advance(i, n) ==
    LET j == uint8(i + 1) IN IF j >= uint8(n) THEN 0 ELSE j

\* NextIP past its early returns (a single address, a recent switch).
NextIP ==
    /\ len > 1
    /\ since = Throttle
    /\ ipIdx' = Advance(ipIdx, len)
    /\ since' = 0
    /\ UNCHANGED len

\* A second passes.
Tick ==
    /\ since < Throttle
    /\ since' = since + 1
    /\ UNCHANGED <<len, ipIdx>>

Next == (\E n \in Lengths : NewResolved(n)) \/ NextIP \/ Tick

Spec == Init /\ [][Next]_vars

-----------------------------------------------------------------------------
(* Properties *)

\* The type of every variable; ipIdx is a byte.
TypeOK ==
    /\ len \in Lengths \cup {0}
    /\ ipIdx \in 0..255
    /\ since \in 0..Throttle

\* r.IPs[r.ipIdx] (support.go:61, 77) is never out of range, whatever the
\* length of the answer and however ipIdx and the length wrap.
IndexInRange == len > 0 => ipIdx < len

\* "NextIP switch to another resolved result" (support.go:34): a NextIP that
\* gets past its early returns moves to another address, if the answer has no
\* more addresses than a uint8 counts.  (With 256 or 257 it stays on the first.)
SwitchMoves ==
    [][len' = len /\ len <= 255 /\ since' = 0 => ipIdx' # ipIdx]_vars

\* While connections to the server go on failing, every address of an answer of
\* at most 255 is tried again and again, unless new lookups replace the answer
\* for ever: NextIP (support.go:51-59) reaches the last address again and again,
\* from the first one each time, and leaves out none on the way.  (The tick that
\* ends the throttle at index 0 is no lookup, though it changes what one would.)
EveryAddressIsTried ==
    /\ [][len' = len => ipIdx' \in {0, ipIdx, ipIdx + 1}]_vars
    /\ \/ []<>(len \in 1..255 => ipIdx = len - 1)
       \/ []<><<~Tick /\ \E n \in Lengths : NewResolved(n)>>_vars

=============================================================================
