-------------------------------- MODULE Cidr --------------------------------
(***************************************************************************)
(* Expansion of static peers (internal/utils) on addresses of Width bits,  *)
(* 32 in the program, whose arithmetic wraps around.  IPv6 entries, which  *)
(* stand for themselves, are left out.                                     *)
(***************************************************************************)
EXTENDS Integers, Sequences

CONSTANT Width      \* bits of an address

ASSUME WidthAssumption == Width \in Nat \ {0}

\* 1 << n.
Pow2[n \in 0..Width] == IF n = 0 THEN 1 ELSE 2 * Pow2[n - 1]

Wrap(n) == n % Pow2[Width]
Addresses == 0 .. Pow2[Width] - 1

\* "addr/ones", or "addr" alone for ones = Width, or what does not parse.
Block == [addr : Addresses, ones : 0..Width]
Invalid == [addr |-> -1, ones |-> 0]
Target == Block \cup {Invalid}

\* The IP of what ParseCIDR returns: the address with its host bits cleared.
Network(t) == t.addr - (t.addr % Pow2[Width - t.ones])

TotalHosts(t) == Wrap(Pow2[Width - t.ones])

LastHost_Broadcast(t) == Wrap(TotalHosts(t) - 1)    \* mutant: off by one
\* The loop runs while i < totalHosts-1, which wraps around for totalHosts = 0.
LastHost(t) == Wrap(TotalHosts(t) - 1) - 1

expandIPv4CIDR(t) ==
    CASE t.ones = Width     -> <<Network(t)>>
      [] t.ones = Width - 1 -> <<Network(t), Wrap(Network(t) + 1)>>
      [] OTHER              -> [i \in 1..LastHost(t) |-> Wrap(Network(t) + i)]

\* An entry that does not parse is skipped by the caller.
ParseTarget(t) == IF t = Invalid THEN <<>> ELSE expandIPv4CIDR(t)

-----------------------------------------------------------------------------
\* For reference: the addresses with the prefix of t, without the first and the
\* last of them unless there are no others.
SamePrefix(t) ==
    LET Prefix(a) == a \div Pow2[Width - t.ones] IN {a \in Addresses : Prefix(a) = Prefix(t.addr)}

Usable(t) ==
    IF t = Invalid THEN {}
    ELSE IF t.ones >= Width - 1 THEN SamePrefix(t)
    ELSE {a \in SamePrefix(t) : /\ \E b \in SamePrefix(t) : b < a
                                /\ \E b \in SamePrefix(t) : b > a}

=============================================================================
