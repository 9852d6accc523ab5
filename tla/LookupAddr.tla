----------------------------- MODULE LookupAddr -----------------------------
(***************************************************************************)
(* ProtectedDialer.lookupAddr (libv2ray_support.go) and its two callers:   *)
(* PrepareDomain, whose result becomes d.vServer (Resolved), and a Dial to *)
(* a "domestic" address, which takes the first address of its own result.  *)
(*                                                                         *)
(* lookupAddr reads d.preferIPv6 twice, before and after the IPv4 loop,    *)
(* and no lock keeps the PrepareDomain of another RunLoop from writing it  *)
(* in between, nor from storing a resolved of its own: one lookup is       *)
(* followed in detail, of the others the list they store has any length in *)
(* Lengths.  An address is its index in the answer.                        *)
(***************************************************************************)
EXTENDS Resolved, Sequences

CONSTANT Answers    \* LookupIPAddr's answers: sequences of "IPv4", "IPv6"

ASSUME AnswersAssumption == Answers \subseteq Seq({"IPv4", "IPv6"})

VARIABLES
    preferIPv6, \* ProtectedDialer.preferIPv6
    at,         \* lookupAddr: "idle", "reading" its answer, or "returned"
    caller,     \* who looks up: "PrepareDomain" or "Dial"
    addrs,      \* the answer
    read,       \* the readings of preferIPv6 so far
    IPs         \* the result

lookup == <<at, caller, addrs, read, IPs>>
lvars  == <<vars, preferIPv6, lookup>>

\* One loop of lookupAddr: the addresses of a family, in the answer's order.
Visit(a, family, list, i) == IF a[i] = family THEN Append(list, i) ELSE list

Collect(a, family) ==
    LET Loop[i \in 0..Len(a)] ==
          IF i = 0 THEN <<>> ELSE Visit(a, family, Loop[i - 1], i)
    IN Loop[Len(a)]

\* A lookupAddr that forgets the addresses that are not preferred.
OrderPreferredOnly(a, preferred) ==
    IF preferred[1] THEN Collect(a, "IPv6") ELSE Collect(a, "IPv4")

\* A lookupAddr that reads the preference the wrong way round.
OrderInverted(a, preferred) ==
    (IF preferred[1] THEN <<>> ELSE Collect(a, "IPv6"))
      \o Collect(a, "IPv4")
      \o (IF preferred[2] THEN Collect(a, "IPv6") ELSE <<>>)

\* The three loops, under the two readings of preferIPv6.
Order(a, preferred) ==
    (IF preferred[1] THEN Collect(a, "IPv6") ELSE <<>>)
      \o Collect(a, "IPv4")
      \o (IF preferred[2] THEN <<>> ELSE Collect(a, "IPv6"))

-----------------------------------------------------------------------------
LInit ==
    /\ Init
    /\ preferIPv6 = FALSE
    /\ at = "idle" /\ caller = "Dial"
    /\ addrs = <<>> /\ read = <<>> /\ IPs = <<>>

\* PrepareDomain of a new RunLoop writes the preference, at any time.
Prefer(p) ==
    /\ preferIPv6' = p
    /\ UNCHANGED <<vars, lookup>>

\* The lookup has an answer, and its first test of preferIPv6 is made.  If
\* SplitHostPort, LookupPort or LookupIPAddr fails, or finds nothing, no
\* resolved is made and nothing changes.
LookupAnswered(c, a) ==
    /\ at = "idle"
    /\ a # <<>>
    /\ at' = "reading"
    /\ caller' = c /\ addrs' = a /\ read' = <<preferIPv6>>
    /\ UNCHANGED <<vars, preferIPv6, IPs>>

\* The second test, the result, and what the caller does with it.
LookupReturns ==
    /\ at = "reading"
    /\ at' = "returned"
    /\ read' = Append(read, preferIPv6)
    /\ IPs' = Order(addrs, read')
    /\ IF caller = "PrepareDomain" THEN NewResolved(Len(IPs'))
                                   ELSE UNCHANGED vars
    /\ UNCHANGED <<preferIPv6, caller, addrs>>

\* The result is forgotten, or a resolved of its own.
LookupOver ==
    /\ at = "returned"
    /\ at' = "idle" /\ caller' = "Dial"
    /\ addrs' = <<>> /\ read' = <<>> /\ IPs' = <<>>
    /\ UNCHANGED <<vars, preferIPv6>>

\* Next: NextIP, time, and the PrepareDomain of another RunLoop, which may store
\* its own resolved while this lookup is under way.
LNext ==
    \/ \E p \in BOOLEAN : Prefer(p)
    \/ LookupReturns \/ LookupOver
    \/ \E c \in {"PrepareDomain", "Dial"}, a \in Answers : LookupAnswered(c, a)
    \/ Next /\ UNCHANGED <<preferIPv6, lookup>>

LSpec == LInit /\ [][LNext]_lvars

\* Fairness: connections to the server go on failing, so Dial goes on calling
\* NextIP, and time goes on.
LFairSpec ==
    /\ LSpec
    /\ WF_lvars(NextIP /\ UNCHANGED <<preferIPv6, lookup>>)
    /\ WF_lvars(Tick /\ UNCHANGED <<preferIPv6, lookup>>)

-----------------------------------------------------------------------------
(* Properties *)

\* A lookup during which the preference stayed what it was.
Steady == at = "returned" /\ read[1] = read[2]

\* "ipv6 is prefer, append ipv6 then ipv4; ipv6 is not prefer, append ipv4 then
\* ipv6" (support.go:148-149): a lookup returns every address of the answer
\* exactly once, so that resolved.IPs[0] (support.go:285) exists and no address
\* of the server is out of NextIP's reach.  Nothing keeps a PrepareDomain from
\* changing the preference between the two readings; then IPv6 addresses are
\* lost or doubled, and the promise is made for a steady preference only.
EveryAddressOnce ==
    Steady => /\ Len(IPs) = Len(addrs)
              /\ {IPs[k] : k \in DOMAIN IPs} = DOMAIN addrs

\* The family that was preferred comes first (support.go:148-168), and each
\* family keeps the order of the answer, whatever is preferred by now.
PreferredFamilyFirst ==
    LET Rank(k) == IF (addrs[k] = "IPv6") = read[1] THEN 0 ELSE 1
    IN Steady =>
         \A k \in 1..(Len(IPs) - 1) :
            \/ Rank(IPs[k]) < Rank(IPs[k + 1])
            \/ Rank(IPs[k]) = Rank(IPs[k + 1]) /\ IPs[k] < IPs[k + 1]

=============================================================================
