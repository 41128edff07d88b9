----------------------------- MODULE PeerProofs -----------------------------
(* Proofs about how a node reaches its peers and remembers them: about Cidr *)
(* and Probe for every width of the addresses, every configuration and      *)
(* every number of rounds and workers, and about PeerTable for every set of *)
(* peers, every pair of stale ages and every number of pending writes.      *)
EXTENDS Probe, PeerTable, FiniteSetTheorems, WellFoundedInduction, TLAPS

-----------------------------------------------------------------------------
(* Recursion on numbers.                                                    *)

\* A non-empty set of natural numbers has a least element.
LEMMA LeastNumber ==
    ASSUME NEW N \in SUBSET Nat, N # {}
    PROVE  \E x \in N : \A y \in N : x <= y
<1>1. \E x \in N : \A y \in N : <<y, x>> \notin OpToRel(<, Nat)
  BY WFMin, NatLessThanWellFounded
<1>2. PICK x \in N : \A y \in N : ~(y < x)
  BY <1>1 DEF OpToRel
<1>3. \A y \in N : x <= y
  BY <1>2
<1> QED
  BY <1>3

\* The first m of a number of steps on a set of values V, starting from base.
Begun(V, base, step, m) ==
    {f \in [0..m -> V] : f[0] = base /\ \A i \in 1..m : f[i] = step[i][f[i - 1]]}

\* A recursion that takes one value of V to another can be followed to its end.
LEMMA StepsDefine ==
    ASSUME NEW V, NEW base \in V, NEW n \in Nat, NEW step \in [1..n -> [V -> V]]
    PROVE  Begun(V, base, step, n) # {}
<1>1. PICK N : N = {m \in 0..n : Begun(V, base, step, m) = {}}
  OBVIOUS
<1>2. SUFFICES ASSUME N # {} PROVE FALSE
  BY <1>1
<1>2a. N \in SUBSET Nat
  BY <1>1
<1>3. PICK m \in N : \A k \in N : m <= k
  BY <1>2, <1>2a, LeastNumber
<1>4. Begun(V, base, step, 0) # {}
  <2>1. PICK f : f = [i \in 0..0 |-> base]
    OBVIOUS
  <2>2. f \in Begun(V, base, step, 0)
    BY <2>1 DEF Begun
  <2> QED
    BY <2>2
<1>5. m \in 1..n /\ m - 1 \in 0..n /\ m - 1 \notin N
  <2>1. m \in 0..n /\ m # 0
    BY <1>1, <1>4
  <2>2. m \in 1..n /\ m - 1 \in 0..n /\ m - 1 < m
    BY <2>1
  <2> QED
    BY <1>3, <2>2
<1>6. PICK f : f \in Begun(V, base, step, m - 1)
  BY <1>1, <1>5
<1>7. /\ f \in [0..(m - 1) -> V]
      /\ f[0] = base
      /\ \A i \in 1..(m - 1) : f[i] = step[i][f[i - 1]]
  BY <1>6 DEF Begun
<1>8. PICK g : g = [i \in 0..m |-> IF i = m THEN step[m][f[m - 1]] ELSE f[i]]
  OBVIOUS
<1>9. step[m][f[m - 1]] \in V
  BY <1>5, <1>7
<1>10. g \in [0..m -> V] /\ g[0] = base
  BY <1>5, <1>7, <1>8, <1>9
<1>11. \A i \in 1..m : g[i] = step[i][g[i - 1]]
  BY <1>5, <1>7, <1>8
<1>12. g \in Begun(V, base, step, m)
  BY <1>10, <1>11 DEF Begun
<1> QED
  BY <1>1, <1>12

-----------------------------------------------------------------------------
(* Powers of two.                                                           *)

\* What the definition of Pow2 asks of a function, and what a function that has
\* it does.
Doubling(p) == [n \in 0..Width |-> IF n = 0 THEN 1 ELSE 2 * p[n - 1]]

LEMMA DoublingAt ==
    ASSUME NEW p
    PROVE  /\ Doubling(p)[0] = 1
           /\ \A n \in 1..Width : Doubling(p)[n] = 2 * p[n - 1]
<1>1. Width \in Nat
  BY WidthAssumption
<1>2. Doubling(p)[0] = 1
  BY <1>1 DEF Doubling
<1>3. \A n \in 1..Width : n \in 0..Width /\ n # 0
  BY <1>1
<1>4. \A n \in 1..Width : Doubling(p)[n] = 2 * p[n - 1]
  BY <1>3 DEF Doubling
<1> QED
  BY <1>2, <1>4

\* Pow2 satisfies its recursive definition, and its values are positive.
LEMMA Pow2Def ==
    /\ Pow2[0] = 1
    /\ \A n \in 1..Width : Pow2[n] = 2 * Pow2[n - 1]
    /\ \A n \in 0..Width : Pow2[n] \in Nat \ {0}
<1>1. PICK V : V = Nat \ {0}
  OBVIOUS
<1>2. PICK step : step = [i \in 1..Width |-> [v \in V |-> 2 * v]]
  OBVIOUS
<1>3. step \in [1..Width -> [V -> V]]
  BY <1>1, <1>2
<1>4. Width \in Nat /\ 1 \in V
  BY <1>1, WidthAssumption
<1>5. PICK f : f \in Begun(V, 1, step, Width)
  BY <1>3, <1>4, StepsDefine
<1>6. /\ f \in [0..Width -> V]
      /\ f[0] = 1
      /\ \A i \in 1..Width : f[i] = step[i][f[i - 1]]
  BY <1>5 DEF Begun
<1>7. \A i \in 1..Width : f[i] = 2 * f[i - 1]
  <2>1. ASSUME NEW i \in 1..Width PROVE f[i] = 2 * f[i - 1]
    <3>1. f[i - 1] \in V
      BY <1>4, <1>6
    <3>2. step[i][f[i - 1]] = 2 * f[i - 1]
      BY <1>2, <3>1
    <3> QED
      BY <1>6, <3>2
  <2> QED
    BY <2>1
<1>8. f = Doubling(f)
  BY <1>4, <1>6, <1>7 DEF Doubling
<1>9. Pow2 = CHOOSE p : p = Doubling(p)
  BY DEF Pow2, Doubling
<1>10. Pow2 = Doubling(Pow2)
  BY <1>8, <1>9
<1>11. Pow2[0] = 1 /\ \A n \in 1..Width : Pow2[n] = 2 * Pow2[n - 1]
  BY <1>10, DoublingAt, Zenon
<1>12. PICK N : N = {n \in 0..Width : Pow2[n] \notin Nat \ {0}}
  OBVIOUS
<1>13. N = {}
  <2>1. SUFFICES ASSUME N # {} PROVE FALSE
    OBVIOUS
  <2>2. N \in SUBSET Nat
    BY <1>12
  <2>3. PICK m \in N : \A k \in N : m <= k
    BY <2>1, <2>2, LeastNumber
  <2>4. m \in 1..Width /\ m - 1 \in 0..Width /\ m - 1 \notin N
    BY <1>4, <1>11, <1>12, <2>3
  <2>5. Pow2[m - 1] \in Nat \ {0} /\ Pow2[m] = 2 * Pow2[m - 1]
    BY <1>11, <1>12, <2>4
  <2> QED
    BY <1>12, <2>3, <2>5
<1> QED
  BY <1>11, <1>12, <1>13

\* A power of two divides every greater one.
LEMMA Pow2Divides ==
    ASSUME NEW m \in 0..Width, NEW n \in m..Width
    PROVE  \E c \in Nat \ {0} : Pow2[n] = c * Pow2[m] /\ (m < n => c >= 2)
<1> DEFINE Ok(k) == \E c \in Nat \ {0} : Pow2[k] = c * Pow2[m] /\ (m < k => c >= 2)
<1>1. PICK N : N = {k \in m..Width : ~Ok(k)}
  OBVIOUS
<1>2. SUFFICES ASSUME N # {} PROVE FALSE
  BY <1>1
<1>3. Width \in Nat /\ m \in Nat /\ m <= Width /\ N \in SUBSET Nat
  BY <1>1, WidthAssumption
<1>4. PICK k \in N : \A j \in N : k <= j
  BY <1>2, <1>3, LeastNumber
<1>5. Pow2[m] \in Nat \ {0}
  BY Pow2Def
<1>6. Ok(m)
  BY <1>3, <1>5
<1>7. k \in 1..Width /\ k - 1 \in m..Width /\ k - 1 < k
  <2>1. k \in m..Width /\ k # m
    BY <1>1, <1>6
  <2> QED
    BY <1>3, <2>1
<1>8. Ok(k - 1)
  BY <1>1, <1>3, <1>4, <1>7
<1>9. PICK c \in Nat \ {0} : Pow2[k - 1] = c * Pow2[m]
  BY <1>8
<1>10. Pow2[k] = 2 * (c * Pow2[m])
  BY <1>7, <1>9, Pow2Def
<1>11. Pow2[k] = (2 * c) * Pow2[m] /\ 2 * c \in Nat \ {0} /\ 2 * c >= 2
  BY <1>5, <1>9, <1>10
<1> QED
  BY <1>1, <1>11

-----------------------------------------------------------------------------
(* Blocks of addresses.                                                     *)

\* Division by a positive number.
LEMMA Division ==
    ASSUME NEW a \in Nat, NEW d \in Nat \ {0}
    PROVE  /\ a \div d \in Nat
           /\ a % d \in 0..(d - 1)
           /\ a = d * (a \div d) + (a % d)
OBVIOUS

\* The multiples of d that are a and more are d apart.
LEMMA Multiples ==
    ASSUME NEW d \in Nat \ {0}, NEW p \in Int, NEW q \in Int
    PROVE  p < q => d * p + d <= d * q
<1>1. ASSUME p < q PROVE d * p + d <= d * q
  <2>1. PICK k \in Nat : q = p + 1 + k
    <3>1. q - p - 1 \in Nat /\ q = p + 1 + (q - p - 1)
      BY <1>1
    <3> QED
      BY <3>1
  <2>2. d * q = d * p + d + d * k
    BY <2>1
  <2>3. d * k \in Nat /\ d * p \in Int
    OBVIOUS
  <2> QED
    BY <2>2, <2>3
<1> QED
  BY <1>1

\* What has the quotient q lies between two multiples of d.
LEMMA Quotient ==
    ASSUME NEW d \in Nat \ {0}, NEW q \in Nat, NEW a \in Nat
    PROVE  a \div d = q <=> d * q <= a /\ a < d * q + d
<1>1. PICK p \in Nat, r \in 0..(d - 1) : p = a \div d /\ a = d * p + r
  BY Division
<1>2. d * p \in Nat /\ d * q \in Nat
  OBVIOUS
<1>3. CASE p < q
  <2>1. d * p + d <= d * q
    BY <1>3, Multiples
  <2> QED
    BY <1>1, <1>2, <1>3, <2>1
<1>4. CASE q < p
  <2>1. d * q + d <= d * p
    BY <1>4, Multiples
  <2> QED
    BY <1>1, <1>2, <1>4, <2>1
<1>5. CASE p = q
  BY <1>1, <1>2, <1>5
<1> QED
  BY <1>3, <1>4, <1>5

\* The number of addresses of a block.
Size(t) == Pow2[Width - t.ones]

\* A block has a power of two of addresses, two of them without the last bit of
\* the prefix, four or more of them without the last two.
LEMMA BlockSize ==
    ASSUME NEW t \in Block
    PROVE  /\ t.addr \in Addresses /\ t.addr \in Nat
           /\ t.ones \in 0..Width /\ Width - t.ones \in 0..Width
           /\ Size(t) \in Nat \ {0}
           /\ Pow2[Width] \in Nat \ {0}
           /\ t.ones = Width => Size(t) = 1
           /\ t.ones = Width - 1 => Size(t) = 2
           /\ t.ones < Width - 1 => Size(t) >= 4
           /\ t.ones # 0 => 2 * Size(t) <= Pow2[Width]
<1>1. Width \in Nat \ {0}
  BY WidthAssumption
<1>2. t.addr \in Addresses /\ t.ones \in 0..Width
  BY DEF Block
<1>3. PICK k : k = Width - t.ones
  OBVIOUS
<1>4. k \in 0..Width /\ Width \in 0..Width /\ Width \in k..Width
  BY <1>1, <1>2, <1>3
<1>5. Pow2[k] \in Nat \ {0} /\ Pow2[Width] \in Nat \ {0}
  BY <1>4, Pow2Def
<1>6. t.addr \in Nat
  BY <1>2, <1>5 DEF Addresses
<1>7. k = 0 => Pow2[k] = 1
  BY Pow2Def
<1>8. k = 1 => Pow2[k] = 2
  <2>1. SUFFICES ASSUME k = 1 PROVE Pow2[1] = 2
    OBVIOUS
  <2>2. 1 \in 1..Width /\ 1 - 1 = 0
    BY <1>1
  <2>3. Pow2[1] = 2 * Pow2[0]
    BY <2>2, Pow2Def
  <2> QED
    BY <2>3, Pow2Def
<1>9. k >= 2 => Pow2[k] >= 4
  <2>1. SUFFICES ASSUME k >= 2 PROVE Pow2[k] >= 4
    OBVIOUS
  <2>2. k \in 1..Width /\ k - 1 \in 1..Width /\ (k - 1) - 1 \in 0..Width
    BY <1>4, <2>1
  <2>3. Pow2[k] = 2 * Pow2[k - 1] /\ Pow2[k - 1] = 2 * Pow2[(k - 1) - 1]
    BY <2>2, Pow2Def
  <2>4. Pow2[(k - 1) - 1] \in Nat \ {0}
    BY <2>2, Pow2Def
  <2> QED
    BY <2>3, <2>4
<1>10. k # Width => 2 * Pow2[k] <= Pow2[Width]
  <2>1. SUFFICES ASSUME k # Width PROVE 2 * Pow2[k] <= Pow2[Width]
    OBVIOUS
  <2>2. k < Width
    BY <1>4, <2>1
  <2>3. PICK c \in Nat \ {0} : Pow2[Width] = c * Pow2[k] /\ c >= 2
    BY <1>4, <2>2, Pow2Divides
  <2>4. PICK b \in Nat : c = 2 + b
    BY <2>3
  <2>5. Pow2[Width] = 2 * Pow2[k] + b * Pow2[k] /\ b * Pow2[k] \in Nat
    BY <1>5, <2>3, <2>4
  <2> QED
    BY <1>5, <2>5
<1>11. /\ t.ones = Width <=> k = 0
       /\ t.ones = Width - 1 <=> k = 1
       /\ t.ones < Width - 1 <=> k >= 2
       /\ t.ones # 0 <=> k # Width
  BY <1>1, <1>2, <1>3
<1> QED
  BY <1>2, <1>3, <1>4, <1>5, <1>6, <1>7, <1>8, <1>9, <1>10, <1>11 DEF Size

\* A block begins at its network address, ends within the address range, and is
\* what has its prefix.
LEMMA BlockIsInterval ==
    ASSUME NEW t \in Block
    PROVE  /\ Network(t) \in Nat
           /\ Network(t) + Size(t) <= Pow2[Width]
           /\ SamePrefix(t) = Network(t) .. (Network(t) + Size(t) - 1)
<1>1. PICK d \in Nat \ {0} : d = Size(t)
  BY BlockSize
<1>2. PICK q \in Nat, r \in 0..(d - 1) : q = t.addr \div d /\ r = t.addr % d /\ t.addr = d * q + r
  <2>1. t.addr \in Nat
    BY BlockSize
  <2> QED
    BY <2>1, Division
<1>3. PICK P \in Nat \ {0} : P = Pow2[Width]
  BY BlockSize
<1>4. PICK c \in Nat \ {0} : P = d * c
  <2>1. Width - t.ones \in 0..Width /\ Width \in (Width - t.ones)..Width
    BY BlockSize, WidthAssumption
  <2>2. PICK c \in Nat \ {0} : Pow2[Width] = c * Pow2[Width - t.ones]
    BY <2>1, Pow2Divides
  <2>3. P = d * c
    BY <1>1, <1>3, <2>2 DEF Size
  <2> QED
    BY <2>3
<1>5. t.addr < P /\ t.addr \in Nat
  BY <1>3, BlockSize DEF Addresses
<1>6. d * q \in Nat /\ d * c \in Nat
  OBVIOUS
<1>7. Network(t) = d * q
  BY <1>1, <1>2, <1>5, <1>6 DEF Network, Size
<1>8. d * q + d <= P
  <2>1. q < c
    <3>1. SUFFICES ASSUME c <= q PROVE FALSE
      OBVIOUS
    <3>2. c < q => d * c + d <= d * q
      BY Multiples
    <3>3. d * c <= d * q
      BY <1>6, <3>1, <3>2
    <3> QED
      BY <1>2, <1>4, <1>5, <1>6, <3>3
  <2> QED
    BY <1>4, <2>1, Multiples
<1>9. SamePrefix(t) = {a \in Addresses : a \div d = q}
  BY <1>1, <1>2 DEF SamePrefix, Size
<1>10. ASSUME NEW a \in Nat
       PROVE  (a \in Addresses /\ a \div d = q) <=> a \in (d * q) .. (d * q + d - 1)
  <2>1. a \div d = q <=> d * q <= a /\ a < d * q + d
    BY Quotient
  <2>2. a \in Addresses <=> a < P
    BY <1>3 DEF Addresses
  <2>3. PICK e \in Nat : e = d * q
    BY <1>6
  <2>4. a \in e .. (e + d - 1) <=> e <= a /\ a < e + d
    BY <2>3
  <2> QED
    BY <1>8, <2>1, <2>2, <2>3, <2>4
<1>11. Addresses \subseteq Nat /\ (d * q) .. (d * q + d - 1) \subseteq Nat
  BY <1>3, <1>6 DEF Addresses
<1>12. SamePrefix(t) = (d * q) .. (d * q + d - 1)
  BY <1>9, <1>10, <1>11
<1> QED
  BY <1>1, <1>3, <1>6, <1>7, <1>8, <1>12

\* An entry that does not parse is no block.
LEMMA InvalidIsNoBlock == Invalid \notin Block
<1>1. Addresses \subseteq Nat
  <2>1. Pow2[Width] \in Nat
    BY Pow2Def, WidthAssumption
  <2> QED
    BY <2>1 DEF Addresses
<1>2. Invalid.addr = -1 /\ -1 \notin Nat
  BY DEF Invalid
<1> QED
  BY <1>1, <1>2 DEF Block

\* The usable addresses of a block are an interval: all of it, or all but its ends.
LEMMA UsableIsInterval ==
    ASSUME NEW t \in Block
    PROVE  /\ t.ones >= Width - 1 => Usable(t) = Network(t) .. (Network(t) + Size(t) - 1)
           /\ t.ones < Width - 1 => Usable(t) = (Network(t) + 1) .. (Network(t) + Size(t) - 2)
<1>1. t # Invalid
  BY InvalidIsNoBlock
<1>2. PICK b \in Nat, d \in Nat \ {0} : b = Network(t) /\ d = Size(t)
  BY BlockIsInterval, BlockSize
<1>3. SamePrefix(t) = b .. (b + d - 1)
  BY <1>2, BlockIsInterval
<1>4. CASE t.ones >= Width - 1
  <2>1. Usable(t) = SamePrefix(t)
    BY <1>1, <1>4 DEF Usable
  <2>2. ~(t.ones < Width - 1)
    BY <1>4, BlockSize, WidthAssumption
  <2> QED
    BY <1>2, <1>3, <2>1, <2>2
<1>5. CASE ~(t.ones >= Width - 1)
  <2>1. Usable(t) = {a \in SamePrefix(t) : /\ \E c \in SamePrefix(t) : c < a
                                          /\ \E c \in SamePrefix(t) : c > a}
    BY <1>1, <1>5 DEF Usable
  <2>2. b \in SamePrefix(t) /\ (b + d - 1) \in SamePrefix(t)
    BY <1>2, <1>3
  <2>3. ASSUME NEW a \in SamePrefix(t)
        PROVE  /\ (\E c \in SamePrefix(t) : c < a) <=> b < a
               /\ (\E c \in SamePrefix(t) : c > a) <=> a < b + d - 1
    BY <1>2, <1>3, <2>2
  <2>4. Usable(t) = {a \in SamePrefix(t) : b < a /\ a < b + d - 1}
    BY <2>1, <2>3
  <2>5. Usable(t) = (b + 1) .. (b + d - 2)
    BY <1>2, <1>3, <2>4
  <2>6. t.ones < Width - 1
    BY <1>5, BlockSize, WidthAssumption
  <2> QED
    BY <1>2, <1>5, <2>5, <2>6
<1> QED
  BY <1>4, <1>5

\* A number below 2^Width stays as it is, and minus one becomes the last address.
LEMMA Wrapped ==
    /\ \A n \in Addresses : Wrap(n) = n
    /\ Wrap(Pow2[Width]) = 0
    /\ Wrap(-1) = Pow2[Width] - 1
<1>1. PICK P \in Nat \ {0} : P = Pow2[Width]
  BY Pow2Def, WidthAssumption
<1>2. \A n \in 0..(P - 1) : n % P = n
  OBVIOUS
<1>3. P % P = 0
  <2>1. PICK q \in Nat, r \in 0..(P - 1) : q = P \div P /\ r = P % P /\ P = P * q + r
    BY Division
  <2>2. P * 1 = P
    OBVIOUS
  <2>3. q = 1
    BY <2>1, <2>2, Quotient
  <2> QED
    BY <2>1, <2>2, <2>3
<1>4. (-1) % P = P - 1
  OBVIOUS
<1> QED
  BY <1>1, <1>2, <1>3, <1>4 DEF Wrap, Addresses

\* The loop over a block's hosts ends with the one before the last.
LEMMA LastHostIs ==
    ASSUME NEW t \in Block, t.ones < Width - 1
    PROVE  LastHost(t) = Size(t) - 2
<1>1. PICK d \in Nat \ {0}, P \in Nat \ {0} :
         d = Size(t) /\ P = Pow2[Width] /\ d >= 4 /\ (t.ones # 0 => 2 * d <= P)
  BY BlockSize
<1>2. CASE t.ones = 0
  <2>1. d = P
    BY <1>1, <1>2, WidthAssumption DEF Size
  <2>2. TotalHosts(t) = 0
    BY <1>1, <2>1, Wrapped DEF TotalHosts, Size
  <2>3. LastHost(t) = Wrap(-1) - 1
    BY <2>2 DEF LastHost
  <2> QED
    BY <1>1, <2>1, <2>3, Wrapped
<1>3. CASE t.ones # 0
  <2>1. d \in Addresses /\ d - 1 \in Addresses
    BY <1>1, <1>3 DEF Addresses
  <2>2. TotalHosts(t) = d
    BY <1>1, <2>1, Wrapped DEF TotalHosts, Size
  <2> QED
    BY <1>1, <2>1, <2>2, Wrapped DEF LastHost
<1> QED
  BY <1>2, <1>3

\* s lists n addresses, one after the other, from the address first on.
Lists(s, first, n) ==
    s \in [1..n -> Addresses] /\ \A i \in 1..n : s[i] = first + i - 1

\* cidr.go:15: ParseTarget returns the usable addresses of an entry, in order and
\* each of them once, at every prefix length and at both ends of the range.
THEOREM ExpansionIsExact ==
    ASSUME NEW t \in Target
    PROVE  \E first, n \in Nat : /\ Lists(ParseTarget(t), first, n)
                               /\ Usable(t) = first .. (first + n - 1)
<1>1. CASE t = Invalid
  <2>1. ParseTarget(t) = <<>> /\ Usable(t) = {}
    BY <1>1 DEF ParseTarget, Usable
  <2>2. Lists(<<>>, 0, 0) /\ 0 .. (0 + 0 - 1) = {}
    BY DEF Lists
  <2> QED
    BY <2>1, <2>2
<1>2. CASE t \in Block
  <2>1. ParseTarget(t) = expandIPv4CIDR(t)
    BY <1>2, InvalidIsNoBlock DEF ParseTarget
  <2>2. PICK b \in Nat, d \in Nat \ {0}, P \in Nat \ {0} :
           b = Network(t) /\ d = Size(t) /\ P = Pow2[Width]
    BY <1>2, BlockIsInterval, BlockSize
  <2>3. b + d <= P /\ Addresses = 0..(P - 1) /\ Width \in Nat \ {0} /\ t.ones \in 0..Width
    BY <1>2, <2>2, BlockIsInterval, BlockSize, WidthAssumption DEF Addresses
  <2>4. CASE t.ones = Width
    <3>1. d = 1 /\ Usable(t) = b .. (b + 1 - 1)
      BY <1>2, <2>2, <2>3, <2>4, BlockSize, UsableIsInterval
    <3>2. ParseTarget(t) = <<b>>
      BY <2>1, <2>2, <2>3, <2>4 DEF expandIPv4CIDR
    <3>3. b \in Addresses
      BY <2>2, <2>3, <3>1
    <3>4. Lists(<<b>>, b, 1)
      BY <2>2, <3>3 DEF Lists
    <3> QED
      BY <2>2, <3>1, <3>2, <3>4
  <2>5. CASE t.ones = Width - 1
    <3>1. d = 2 /\ Usable(t) = b .. (b + 2 - 1)
      BY <1>2, <2>2, <2>3, <2>5, BlockSize, UsableIsInterval
    <3>2. b \in Addresses /\ b + 1 \in Addresses
      BY <2>2, <2>3, <3>1
    <3>3. ParseTarget(t) = <<b, b + 1>>
      BY <2>1, <2>2, <2>3, <2>5, <3>2, Wrapped DEF expandIPv4CIDR
    <3>4. Lists(<<b, b + 1>>, b, 2)
      BY <2>2, <3>2 DEF Lists
    <3> QED
      BY <2>2, <3>1, <3>3, <3>4
  <2>6. CASE t.ones < Width - 1
    <3>1. d >= 4 /\ Usable(t) = (b + 1) .. ((b + 1) + (d - 2) - 1)
      BY <1>2, <2>2, <2>6, BlockSize, UsableIsInterval
    <3>2. ParseTarget(t) = [i \in 1..(d - 2) |-> Wrap(b + i)]
      <4>1. t.ones # Width /\ t.ones # Width - 1
        BY <2>3, <2>6
      <4>2. LastHost(t) = d - 2
        BY <1>2, <2>2, <2>6, LastHostIs
      <4> QED
        BY <2>1, <2>2, <4>1, <4>2 DEF expandIPv4CIDR
    <3>3. ASSUME NEW i \in 1..(d - 2) PROVE b + i \in Addresses
      <4>1. b + i \in 0..(P - 1)
        BY <2>3
      <4> QED
        BY <2>3, <4>1
    <3>4. \A i \in 1..(d - 2) : Wrap(b + i) = (b + 1) + i - 1
      BY <2>2, <3>3, Wrapped
    <3>5. Lists(ParseTarget(t), b + 1, d - 2)
      BY <2>2, <3>2, <3>3, <3>4 DEF Lists
    <3> QED
      BY <2>2, <3>1, <3>5
  <2>7. t.ones = Width \/ t.ones = Width - 1 \/ t.ones < Width - 1
    BY <2>3
  <2> QED
    BY <2>4, <2>5, <2>6, <2>7
<1> QED
  BY <1>1, <1>2 DEF Target

-----------------------------------------------------------------------------
(* The targets of all entries, one after the other.                         *)

\* What the definition of FlattenSeq asks of the function it is taken from.
Joining(seqs, g) == [i \in 1..Len(seqs) |-> IF i = 1 THEN seqs[i] ELSE g[i - 1] \o seqs[i]]

LEMMA JoiningAt ==
    ASSUME NEW seqs, NEW g, Len(seqs) \in Nat
    PROVE  /\ Len(seqs) >= 1 => Joining(seqs, g)[1] = seqs[1]
           /\ \A i \in 2..Len(seqs) : Joining(seqs, g)[i] = g[i - 1] \o seqs[i]
<1>1. PICK n \in Nat : n = Len(seqs)
  OBVIOUS
<1>2. n >= 1 => 1 \in 1..n
  OBVIOUS
<1>3. \A i \in 2..n : i \in 1..n /\ i # 1
  OBVIOUS
<1>4. Joining(seqs, g) = [i \in 1..n |-> IF i = 1 THEN seqs[i] ELSE g[i - 1] \o seqs[i]]
  BY <1>1 DEF Joining
<1>5. n >= 1 => Joining(seqs, g)[1] = seqs[1]
  BY <1>2, <1>4
<1>6. \A i \in 2..n : Joining(seqs, g)[i] = g[i - 1] \o seqs[i]
  BY <1>3, <1>4
<1> QED
  BY <1>1, <1>5, <1>6

\* g[i] is made of the first i of the sequences seqs.
Joined(S, seqs, g) ==
    /\ g \in [1..Len(seqs) -> Seq(S)]
    /\ g[1] = seqs[1]
    /\ \A i \in 2..Len(seqs) : g[i] = g[i - 1] \o seqs[i]

\* There is a function as the definition of FlattenSeq asks for.
LEMMA JoiningExists ==
    ASSUME NEW S, NEW seqs \in Seq(Seq(S)), seqs # <<>>
    PROVE  \E g : g = Joining(seqs, g)
<1>1. PICK n \in Nat \ {0} : n = Len(seqs)
  OBVIOUS
<1>2. \A i \in 1..n : seqs[i] \in Seq(S)
  BY <1>1
<1>3. PICK V : V = Seq(S)
  OBVIOUS
<1>4. PICK step : step = [i \in 1..n |-> [v \in V |-> v \o seqs[i]]]
  OBVIOUS
<1>5. step \in [1..n -> [V -> V]]
  BY <1>2, <1>3, <1>4
<1>6. <<>> \in V
  BY <1>3
<1>7. PICK f : f \in Begun(V, <<>>, step, n)
  BY <1>5, <1>6, StepsDefine
<1>8. /\ f \in [0..n -> V]
      /\ f[0] = <<>>
      /\ \A i \in 1..n : f[i] = step[i][f[i - 1]]
  BY <1>7 DEF Begun
<1>9. \A i \in 1..n : f[i - 1] \in V /\ f[i] = f[i - 1] \o seqs[i]
  <2>1. ASSUME NEW i \in 1..n PROVE f[i - 1] \in V /\ f[i] = f[i - 1] \o seqs[i]
    <3>1. f[i - 1] \in V
      BY <1>8
    <3>2. step[i][f[i - 1]] = f[i - 1] \o seqs[i]
      BY <1>4, <3>1
    <3> QED
      BY <1>8, <3>1, <3>2
  <2> QED
    BY <2>1
<1>10. f[1] = seqs[1]
  <2>1. f[1] = <<>> \o seqs[1]
    <3>1. 1 \in 1..n /\ 1 - 1 = 0
      BY <1>1
    <3> QED
      BY <1>8, <1>9, <3>1
  <2>2. seqs[1] \in Seq(S)
    BY <1>1, <1>2
  <2> QED
    BY <2>1, <2>2
<1>11. PICK g : g = [i \in 1..n |-> f[i]]
  OBVIOUS
<1>12. g = Joining(seqs, g)
  <2>1. \A i \in 1..n : g[i] = IF i = 1 THEN seqs[i] ELSE g[i - 1] \o seqs[i]
    <3>1. ASSUME NEW i \in 1..n, i # 1 PROVE g[i - 1] = f[i - 1]
      <4>1. i - 1 \in 1..n
        BY <3>1
      <4> QED
        BY <1>11, <4>1
    <3> QED
      BY <1>9, <1>10, <1>11, <3>1
  <2> QED
    BY <1>1, <1>11, <2>1 DEF Joining
<1> QED
  BY <1>12

\* FlattenSeq joins the sequences one after the other.
LEMMA FlattenJoins ==
    ASSUME NEW S, NEW seqs \in Seq(Seq(S)), seqs # <<>>
    PROVE  \E g : Joined(S, seqs, g) /\ FlattenSeq(seqs) = g[Len(seqs)]
<1>1. PICK n \in Nat \ {0} : n = Len(seqs)
  OBVIOUS
<1>2. PICK g : g = (CHOOSE h : h = Joining(seqs, h))
  OBVIOUS
<1>3. FlattenSeq(seqs) = g[Len(seqs)]
  BY <1>1, <1>2 DEF FlattenSeq, Joining
<1>4. g = Joining(seqs, g)
  BY <1>2, JoiningExists
<1>5. g[1] = seqs[1] /\ \A i \in 2..n : g[i] = g[i - 1] \o seqs[i]
  <2>1. Len(seqs) \in Nat /\ Len(seqs) >= 1
    BY <1>1
  <2>2. PICK j : j = Joining(seqs, g)
    OBVIOUS
  <2>3. j[1] = seqs[1] /\ \A i \in 2..Len(seqs) : j[i] = g[i - 1] \o seqs[i]
    BY <2>1, <2>2, JoiningAt
  <2>4. j = g
    BY <1>4, <2>2
  <2> QED
    BY <1>1, <2>3, <2>4
<1>6. PICK N : N = {i \in 1..n : g[i] \notin Seq(S)}
  OBVIOUS
<1>7. N = {}
  <2>1. SUFFICES ASSUME N # {} PROVE FALSE
    OBVIOUS
  <2>2. N \in SUBSET Nat
    BY <1>6
  <2>3. PICK m \in N : \A k \in N : m <= k
    BY <2>1, <2>2, LeastNumber
  <2>4. m # 1
    BY <1>1, <1>5, <1>6
  <2>5. m \in 2..n /\ m - 1 \in 1..n /\ m - 1 \notin N
    BY <1>6, <2>3, <2>4
  <2>6. g[m - 1] \in Seq(S)
    BY <1>6, <2>5
  <2>7. seqs[m] \in Seq(S)
    BY <1>1, <2>5
  <2>8. g[m] = g[m - 1] \o seqs[m]
    BY <1>5, <2>5
  <2>9. g[m] \in Seq(S)
    BY <2>6, <2>7, <2>8
  <2> QED
    BY <1>6, <2>9
<1>8. g \in [1..Len(seqs) -> Seq(S)]
  <2>1. \A i \in 1..n : g[i] \in Seq(S)
    BY <1>6, <1>7
  <2>2. g = [i \in 1..n |-> g[i]]
    BY <1>1, <1>4 DEF Joining
  <2> QED
    BY <1>1, <2>1, <2>2
<1> QED
  BY <1>1, <1>3, <1>5, <1>8 DEF Joined

\* Where an address stands in a sequence, and which of the first k entries call
\* for it.
Places(s, a) == {i \in 1..Len(s) : s[i] = a}
Calling(entries, k, a) == {i \in 1..k : a \in Usable(entries[i])}

\* Both are finite.
LEMMA PlacesFinite ==
    ASSUME NEW s \in Seq(Addresses), NEW a
    PROVE  IsFiniteSet(Places(s, a)) /\ Cardinality(Places(s, a)) \in Nat
<1>1. PICK n \in Nat : n = Len(s)
  OBVIOUS
<1>2. IsFiniteSet(1..n)
  BY FS_Interval
<1>3. Places(s, a) \in SUBSET (1..n)
  BY <1>1 DEF Places
<1> QED
  BY <1>2, <1>3, FS_Subset, FS_CardinalityType

LEMMA CallingFinite ==
    ASSUME NEW entries, NEW k \in Nat, NEW a
    PROVE  IsFiniteSet(Calling(entries, k, a)) /\ Cardinality(Calling(entries, k, a)) \in Nat
<1>1. IsFiniteSet(1..k)
  BY FS_Interval
<1>2. Calling(entries, k, a) \in SUBSET (1..k)
  BY DEF Calling
<1> QED
  BY <1>1, <1>2, FS_Subset, FS_CardinalityType

\* The addresses of one entry: in its targets once if usable, and else not at all.
LEMMA ParsedOnce ==
    ASSUME NEW t \in Target, NEW a \in Addresses
    PROVE  /\ ParseTarget(t) \in Seq(Addresses)
           /\ a \notin Usable(t) => Places(ParseTarget(t), a) = {}
           /\ a \in Usable(t) => \E i \in Nat : Places(ParseTarget(t), a) = {i}
<1>1. PICK first \in Nat, n \in Nat :
         Lists(ParseTarget(t), first, n) /\ Usable(t) = first .. (first + n - 1)
  BY ExpansionIsExact
<1>2. PICK s : s = ParseTarget(t)
  OBVIOUS
<1>3. s \in [1..n -> Addresses] /\ \A i \in 1..n : s[i] = first + i - 1
  BY <1>1, <1>2 DEF Lists
<1>4. s \in Seq(Addresses) /\ Len(s) = n
  BY <1>3
<1>5. a \in Nat
  BY Pow2Def, WidthAssumption DEF Addresses
<1>6. Places(s, a) = {i \in 1..n : first + i - 1 = a}
  BY <1>3, <1>4 DEF Places
<1>7. a \notin Usable(t) => Places(s, a) = {}
  BY <1>1, <1>5, <1>6
<1>8. a \in Usable(t) => Places(s, a) = {a - first + 1} /\ a - first + 1 \in Nat
  BY <1>1, <1>5, <1>6
<1> QED
  BY <1>2, <1>4, <1>7, <1>8

\* Each address an entry calls for is in one place more once the entry's targets
\* are joined.
LEMMA JoinCounts ==
    ASSUME NEW s \in Seq(Addresses), NEW t \in Target, NEW a \in Addresses
    PROVE  Cardinality(Places(s \o ParseTarget(t), a))
             = Cardinality(Places(s, a)) + (IF a \in Usable(t) THEN 1 ELSE 0)
<1>1. PICK u \in Seq(Addresses) : u = ParseTarget(t)
  BY ParsedOnce
<1>2. PICK n \in Nat, m \in Nat : n = Len(s) /\ m = Len(u)
  OBVIOUS
<1>3. PICK j : j = s \o u
  OBVIOUS
<1>4. /\ Len(j) = n + m
      /\ \A i \in 1..n : j[i] = s[i]
      /\ \A i \in 1..m : j[n + i] = u[i]
  BY <1>2, <1>3
<1>5. Places(j, a) = Places(s, a) \cup {n + i : i \in Places(u, a)}
  <2>1. ASSUME NEW i \in Places(j, a) PROVE i \in Places(s, a) \cup {n + k : k \in Places(u, a)}
    <3>1. i \in 1..(n + m) /\ j[i] = a
      BY <1>4 DEF Places
    <3>2. CASE i \in 1..n
      BY <1>2, <1>4, <3>1, <3>2 DEF Places
    <3>3. CASE i \notin 1..n
      <4>1. PICK k \in 1..m : i = n + k
        <5>1. i - n \in 1..m /\ i = n + (i - n)
          BY <3>1, <3>3
        <5> QED
          BY <5>1
      <4>2. k \in Places(u, a)
        BY <1>2, <1>4, <3>1, <4>1 DEF Places
      <4> QED
        BY <4>1, <4>2
    <3> QED
      BY <3>2, <3>3
  <2>2. ASSUME NEW i \in Places(s, a) PROVE i \in Places(j, a)
    <3>1. i \in 1..n /\ s[i] = a
      BY <1>2 DEF Places
    <3>2. i \in 1..(n + m) /\ j[i] = a
      BY <1>4, <3>1
    <3> QED
      BY <1>4, <3>2 DEF Places
  <2>3. ASSUME NEW k \in Places(u, a) PROVE n + k \in Places(j, a)
    <3>1. k \in 1..m /\ u[k] = a
      BY <1>2 DEF Places
    <3>2. n + k \in 1..(n + m) /\ j[n + k] = a
      BY <1>4, <3>1
    <3> QED
      BY <1>4, <3>2 DEF Places
  <2> QED
    BY <2>1, <2>2, <2>3
<1>6. IsFiniteSet(Places(s, a)) /\ Cardinality(Places(s, a)) \in Nat
  BY PlacesFinite
<1>7. CASE a \notin Usable(t)
  <2>1. Places(u, a) = {}
    BY <1>1, <1>7, ParsedOnce
  <2>2. Places(j, a) = Places(s, a)
    BY <1>5, <2>1
  <2> QED
    BY <1>1, <1>3, <1>6, <1>7, <2>2
<1>8. CASE a \in Usable(t)
  <2>1. PICK i \in Nat : Places(u, a) = {i}
    BY <1>1, <1>8, ParsedOnce
  <2>2. Places(j, a) = Places(s, a) \cup {n + i}
    BY <1>5, <2>1
  <2>3. i \in 1..m
    BY <1>2, <2>1 DEF Places
  <2>4. n + i \notin Places(s, a)
    BY <1>2, <2>3 DEF Places
  <2>5. Cardinality(Places(j, a)) = Cardinality(Places(s, a)) + 1
    BY <1>6, <2>2, <2>4, FS_AddElement
  <2> QED
    BY <1>1, <1>3, <1>8, <2>5
<1> QED
  BY <1>7, <1>8

\* One entry more calls for one more of each of its usable addresses.
LEMMA CallingCounts ==
    ASSUME NEW entries, NEW k \in Nat \ {0}, NEW a
    PROVE  Cardinality(Calling(entries, k, a))
             = Cardinality(Calling(entries, k - 1, a)) + (IF a \in Usable(entries[k]) THEN 1 ELSE 0)
<1>1. PICK C : C = Calling(entries, k - 1, a)
  OBVIOUS
<1>2. k - 1 \in Nat
  OBVIOUS
<1>3. IsFiniteSet(C) /\ Cardinality(C) \in Nat
  BY <1>1, <1>2, CallingFinite
<1>4. k \notin C
  BY <1>1 DEF Calling
<1>5. 1..k = (1..(k - 1)) \cup {k}
  OBVIOUS
<1>6. CASE a \in Usable(entries[k])
  <2>1. Calling(entries, k, a) = C \cup {k}
    BY <1>1, <1>5, <1>6 DEF Calling
  <2> QED
    BY <1>1, <1>3, <1>4, <1>6, <2>1, FS_AddElement
<1>7. CASE a \notin Usable(entries[k])
  <2>1. Calling(entries, k, a) = C
    BY <1>1, <1>5, <1>7 DEF Calling
  <2> QED
    BY <1>1, <1>3, <1>7, <2>1
<1> QED
  BY <1>6, <1>7

\* udp.go:534: the targets of a round hold each address as often as entries call
\* for it, however many entries there are and however they overlap.
THEOREM TargetsAreExact ==
    ASSUME NEW entries \in Seq(Target)
    PROVE  /\ Targets(entries) \in Seq(Addresses)
           /\ \A a \in Addresses :
                 Cardinality(Places(Targets(entries), a))
                   = Cardinality(Calling(entries, Len(entries), a))
<1>1. PICK n \in Nat : n = Len(entries) /\ DOMAIN entries = 1..n
  OBVIOUS
<1>2. \A i \in 1..n : entries[i] \in Target
  BY <1>1
<1>3. PICK p : p = [i \in 1..n |-> ParseTarget(entries[i])]
  OBVIOUS
<1>4. \A i \in 1..n : ParseTarget(entries[i]) \in Seq(Addresses)
  <2>1. 0 \in Addresses
    BY Pow2Def, WidthAssumption DEF Addresses
  <2> QED
    BY <1>2, <2>1, ParsedOnce
<1>5. p \in [1..n -> Seq(Addresses)]
  BY <1>3, <1>4
<1>6. p \in Seq(Seq(Addresses)) /\ Len(p) = n
  BY <1>5
<1>7. Targets(entries) = FlattenSeq(p)
  BY <1>1, <1>3 DEF Targets
<1>8. CASE n = 0
  <2>1. p = <<>>
    BY <1>6, <1>8
  <2>2. FlattenSeq(p) = p
    BY <1>6, <1>8 DEF FlattenSeq
  <2>3. Targets(entries) = <<>>
    BY <1>7, <2>1, <2>2
  <2>4. ASSUME NEW a \in Addresses
        PROVE  Places(Targets(entries), a) = {} /\ Calling(entries, Len(entries), a) = {}
    BY <1>1, <1>8, <2>3 DEF Places, Calling
  <2>5. Targets(entries) \in Seq(Addresses)
    BY <2>3
  <2> QED
    BY <2>4, <2>5
<1>9. CASE n # 0
  <2>1. p # <<>>
    BY <1>6, <1>9
  <2>2. PICK g : Joined(Addresses, p, g) /\ FlattenSeq(p) = g[Len(p)]
    BY <1>6, <2>1, FlattenJoins
  <2>3. /\ g \in [1..n -> Seq(Addresses)]
        /\ g[1] = p[1]
        /\ \A i \in 2..n : g[i] = g[i - 1] \o p[i]
        /\ Targets(entries) = g[n]
    BY <1>6, <1>7, <2>2 DEF Joined
  <2>4. n \in 1..n /\ 1 \in 1..n
    BY <1>9
  <2>5. ASSUME NEW a \in Addresses
        PROVE  Cardinality(Places(g[n], a)) = Cardinality(Calling(entries, n, a))
    <3>1. PICK N : N = {k \in 1..n : Cardinality(Places(g[k], a)) # Cardinality(Calling(entries, k, a))}
      OBVIOUS
    <3>2. SUFFICES ASSUME N # {} PROVE FALSE
      BY <2>4, <3>1
    <3>3. N \in SUBSET Nat
      BY <3>1
    <3>4. PICK m \in N : \A k \in N : m <= k
      BY <3>2, <3>3, LeastNumber
    <3>5. m \in 1..n /\ m \in Nat \ {0} /\ entries[m] \in Target /\ p[m] = ParseTarget(entries[m])
      BY <1>2, <1>3, <3>1
    <3>6. Cardinality(Calling(entries, m, a))
            = Cardinality(Calling(entries, m - 1, a)) + (IF a \in Usable(entries[m]) THEN 1 ELSE 0)
      BY <3>5, CallingCounts
    <3>7. CASE m = 1
      <4>1. <<>> \in Seq(Addresses) /\ Places(<<>>, a) = {} /\ Calling(entries, 0, a) = {}
        BY DEF Places, Calling
      <4>2. Cardinality(Places(<<>> \o p[1], a)) = IF a \in Usable(entries[1]) THEN 1 ELSE 0
        <5>1. entries[1] \in Target /\ p[1] = ParseTarget(entries[1])
          BY <3>5, <3>7
        <5>2. Cardinality(Places(<<>> \o ParseTarget(entries[1]), a))
                = Cardinality(Places(<<>>, a)) + (IF a \in Usable(entries[1]) THEN 1 ELSE 0)
          BY <4>1, <5>1, JoinCounts
        <5>3. Cardinality(Places(<<>>, a)) = 0
          BY <4>1, FS_EmptySet
        <5> QED
          BY <5>1, <5>2, <5>3
      <4>3. <<>> \o p[1] = g[1]
        BY <1>5, <2>3, <2>4
      <4>4. Cardinality(Calling(entries, 1, a)) = IF a \in Usable(entries[1]) THEN 1 ELSE 0
        <5>1. 1 - 1 = 0
          OBVIOUS
        <5>2. Cardinality(Calling(entries, 0, a)) = 0
          BY <4>1, FS_EmptySet
        <5> QED
          BY <3>6, <3>7, <5>1, <5>2
      <4> QED
        BY <3>1, <3>7, <4>2, <4>3, <4>4
    <3>8. CASE m # 1
      <4>1. m \in 2..n /\ m - 1 \in 1..n /\ m - 1 \notin N
        <5>1. m \in 2..n /\ m - 1 \in 1..n /\ m - 1 < m
          BY <3>5, <3>8
        <5> QED
          BY <3>4, <5>1
      <4>2. Cardinality(Places(g[m - 1], a)) = Cardinality(Calling(entries, m - 1, a))
        BY <3>1, <4>1
      <4>3. g[m - 1] \in Seq(Addresses) /\ g[m] = g[m - 1] \o p[m]
        BY <2>3, <4>1
      <4>4. Cardinality(Places(g[m], a))
              = Cardinality(Places(g[m - 1], a)) + (IF a \in Usable(entries[m]) THEN 1 ELSE 0)
        BY <3>5, <4>3, JoinCounts
      <4> QED
        BY <3>1, <3>6, <4>2, <4>4
    <3> QED
      BY <3>7, <3>8
  <2>6. Targets(entries) \in Seq(Addresses)
    BY <2>3, <2>4
  <2> QED
    BY <1>1, <2>3, <2>5, <2>6
<1> QED
  BY <1>8, <1>9

-----------------------------------------------------------------------------
(* The rounds.  TypeOK is not inductive: that no more is pushed than there   *)
(* are targets needs that a round only waits for room with a target at hand.  *)
(* RoundIsExact needs besides that a round keeps the targets of the entries   *)
(* it began with, and that its channel is closed early only at the shutdown.  *)

Round == [pc : {"idle", "feed", "push", "drain"}, entries : Seq(Target), targets : Seq(Addresses),
          pushed : Nat, taken : Nat, busy : SUBSET Nat, token : BOOLEAN]

\* The round q is as it must be if the context is cancelled or not (halt).
RoundOk(q, halt) ==
    /\ q.targets = Targets(q.entries)
    /\ q.taken <= q.pushed
    /\ q.pushed <= Len(q.targets)
    /\ q.pushed - q.taken <= Capacity
    /\ q.busy \subseteq 1..q.taken
    /\ Cardinality(q.busy) <= Workers
    /\ q.pc = "push" => q.pushed < Len(q.targets)
    /\ q.pc = "drain" /\ ~halt => q.pushed = Len(q.targets)

IInv ==
    /\ static \in Seq(Target)
    /\ round \in [Rounds -> Round]
    /\ \A r \in Rounds : RoundOk(round[r], stopping)
    /\ wait \in 0..Interval
    /\ {stopping, beating} \subseteq BOOLEAN
    /\ ~beating => stopping

\* What the invariant says of the types gives TypeOK.
LEMMA InvIsTyped == IInv => TypeOK
<1> SUFFICES ASSUME IInv PROVE TypeOK
  OBVIOUS
<1>1. Entries \subseteq Target
  BY DEF IInv, Entries, ToSet
<1>2. ASSUME NEW r \in Rounds
      PROVE  /\ round[r].pc \in {"idle", "feed", "push", "drain"}
             /\ round[r].busy \subseteq 1..round[r].taken
             /\ round[r].taken <= round[r].pushed
             /\ round[r].pushed <= Len(round[r].targets)
             /\ round[r].pushed - round[r].taken <= Capacity
             /\ Cardinality(round[r].busy) <= Workers
             /\ round[r].token \in BOOLEAN
  <2>1. round[r] \in Round /\ RoundOk(round[r], stopping)
    BY DEF IInv
  <2>2. round[r].pc \in {"idle", "feed", "push", "drain"} /\ round[r].token \in BOOLEAN
    BY <2>1 DEF Round
  <2> QED
    BY <2>1, <2>2 DEF RoundOk
<1> QED
  BY <1>1, <1>2 DEF IInv, TypeOK

\* Nothing to expand, no targets.
LEMMA NoTargets == Targets(<<>>) = <<>>
<1>1. [i \in DOMAIN <<>> |-> ParseTarget(<<>>[i])] = <<>>
  OBVIOUS
<1>2. FlattenSeq(<<>>) = <<>>
  BY DEF FlattenSeq
<1> QED
  BY <1>1, <1>2 DEF Targets

\* A round that has nothing pushed and nobody at work.
Fresh(pc, entries, targets) ==
    [pc |-> pc, entries |-> entries, targets |-> targets, pushed |-> 0, taken |-> 0,
     busy |-> {}, token |-> FALSE]

\* Such a round is in order if its targets are those of its entries.
LEMMA FreshOk ==
    ASSUME NEW pc \in {"idle", "feed"}, NEW entries \in Seq(Target), NEW T, T = Targets(entries),
           NEW halt, NEW q, q = Fresh(pc, entries, T)
    PROVE  q \in Round /\ RoundOk(q, halt)
<1>1. T \in Seq(Addresses)
  BY TargetsAreExact
<1>2. /\ q.pc = pc /\ q.entries = entries /\ q.targets = T
      /\ q.pushed = 0 /\ q.taken = 0 /\ q.busy = {} /\ q.token = FALSE
  BY DEF Fresh
<1>3. q \in Round
  BY <1>1 DEF Fresh, Round
<1>4. Len(T) \in Nat /\ 0 <= Len(T)
  BY <1>1
<1>5. Cardinality({}) = 0 /\ 0 <= Workers /\ 0 - 0 <= Capacity
  BY FS_EmptySet, ProbeAssumption
<1>6. RoundOk(q, halt)
  BY <1>2, <1>4, <1>5 DEF RoundOk
<1> QED
  BY <1>3, <1>6

\* A round that is not under way, and one that has just begun, are in order.
LEMMA NoRoundOk ==
    ASSUME NEW halt
    PROVE  NoRound \in Round /\ RoundOk(NoRound, halt)
<1>1. NoRound = Fresh("idle", <<>>, <<>>)
  BY DEF NoRound, Fresh
<1>2. <<>> \in Seq(Target) /\ "idle" \in {"idle", "feed"} /\ <<>> = Targets(<<>>)
  BY NoTargets
<1> QED
  BY <1>1, <1>2, FreshOk

LEMMA OpenedOk ==
    ASSUME NEW entries \in Seq(Target), NEW halt
    PROVE  Opened(entries) \in Round /\ RoundOk(Opened(entries), halt)
<1>1. PICK T : T = Targets(entries)
  OBVIOUS
<1>2. PICK pc \in {"idle", "feed"} : pc = IF T = <<>> THEN "idle" ELSE "feed"
  OBVIOUS
<1>3. Opened(entries) = [NoRound EXCEPT !.pc = pc, !.entries = entries, !.targets = T]
  BY <1>1, <1>2, Zenon DEF Opened
<1>4. ASSUME NEW q, q = [NoRound EXCEPT !.pc = pc, !.entries = entries, !.targets = T]
      PROVE  q = Fresh(pc, entries, T)
  <2>1. q = [pc |-> pc, entries |-> entries, targets |-> T, pushed |-> 0, taken |-> 0,
             busy |-> {}, token |-> FALSE]
    BY <1>4 DEF NoRound
  <2> QED
    BY <2>1 DEF Fresh
<1> QED
  BY <1>1, <1>3, <1>4, FreshOk

\* The invariant holds at the start.
LEMMA InvInit == Init => IInv
<1> SUFFICES ASSUME Init PROVE IInv
  OBVIOUS
<1>1. static \in Seq(Target) /\ wait \in 0..Interval
  BY ProbeAssumption DEF Init
<1>2. round \in [Rounds -> Round] /\ \A r \in Rounds : RoundOk(round[r], stopping)
  BY NoRoundOk DEF Init
<1> QED
  BY <1>1, <1>2 DEF Init, IInv

\* A step that changes one round, to one that is in order, keeps the invariant.
LEMMA OneRound ==
    ASSUME IInv, NEW r \in Rounds, NEW q \in Round, RoundOk(q, stopping),
           round' = [round EXCEPT ![r] = q], UNCHANGED <<static, wait, stopping, beating>>
    PROVE  IInv'
<1>1. round' \in [Rounds -> Round]
  BY DEF IInv
<1>2. \A s \in Rounds : round'[s] = IF s = r THEN q ELSE round[s]
  BY DEF IInv
<1>3. \A s \in Rounds : RoundOk(round'[s], stopping)
  BY <1>2 DEF IInv
<1> QED
  BY <1>1, <1>3 DEF IInv

\* What the invariant says of a single round.
LEMMA RoundInOrder ==
    ASSUME IInv, NEW r \in Rounds
    PROVE  /\ round[r] \in Round
           /\ RoundOk(round[r], stopping)
           /\ Len(round[r].targets) \in Nat
           /\ round[r].pushed \in Nat /\ round[r].taken \in Nat
<1>1. round[r] \in Round /\ RoundOk(round[r], stopping)
  BY DEF IInv
<1>2. round[r].targets \in Seq(Addresses) /\ round[r].pushed \in Nat /\ round[r].taken \in Nat
  BY <1>1 DEF Round
<1> QED
  BY <1>1, <1>2

\* A tick is taken with a target at hand.
LEMMA TakeTickStep ==
    ASSUME IInv, NEW r \in Rounds, TakeTick(r)
    PROVE  IInv'
<1>1. PICK p \in Round : p = round[r] /\ RoundOk(p, stopping) /\ p.pushed < Len(p.targets)
  BY RoundInOrder DEF TakeTick
<1>2. PICK q : q = [p EXCEPT !.pc = "push", !.token = FALSE]
  OBVIOUS
<1>3. round' = [round EXCEPT ![r] = q]
  BY <1>1, <1>2 DEF TakeTick, IInv
<1>4. q \in Round
  BY <1>2 DEF Round
<1>5. /\ q.pc = "push" /\ q.entries = p.entries /\ q.targets = p.targets
      /\ q.pushed = p.pushed /\ q.taken = p.taken /\ q.busy = p.busy
  BY <1>2 DEF Round
<1>6. RoundOk(q, stopping)
  BY <1>1, <1>5 DEF RoundOk
<1> QED
  BY <1>3, <1>4, <1>6, OneRound DEF TakeTick

\* What is pushed finds room in the channel.
LEMMA PushStep ==
    ASSUME IInv, NEW r \in Rounds, Push(r)
    PROVE  IInv'
<1>1. PICK p \in Round : p = round[r] /\ RoundOk(p, stopping) /\ p.pc = "push"
                         /\ p.pushed - p.taken < Capacity
  BY RoundInOrder DEF Push, HasRoom
<1>2. PICK q : q = [p EXCEPT !.pc = "feed", !.pushed = @ + 1]
  OBVIOUS
<1>3. round' = [round EXCEPT ![r] = q]
  BY <1>1, <1>2 DEF Push, IInv
<1>4. q \in Round
  <2>1. p.pushed + 1 \in Nat
    BY DEF Round
  <2> QED
    BY <1>2, <2>1 DEF Round
<1>5. /\ q.pc = "feed" /\ q.entries = p.entries /\ q.targets = p.targets
      /\ q.pushed = p.pushed + 1 /\ q.taken = p.taken /\ q.busy = p.busy
  BY <1>2 DEF Round
<1>6. p.pushed \in Nat /\ p.taken \in Nat /\ Len(p.targets) \in Nat /\ Capacity \in Nat
  BY <1>1, RoundInOrder, ProbeAssumption
<1>7. RoundOk(q, stopping)
  <2>1. /\ q.targets = Targets(q.entries) /\ q.busy \subseteq 1..q.taken
        /\ Cardinality(q.busy) <= Workers
    BY <1>1, <1>5 DEF RoundOk
  <2>2. q.taken <= q.pushed /\ q.pushed <= Len(q.targets) /\ q.pushed - q.taken <= Capacity
    BY <1>1, <1>5, <1>6 DEF RoundOk
  <2> QED
    BY <1>5, <2>1, <2>2 DEF RoundOk
<1> QED
  BY <1>3, <1>4, <1>7, OneRound DEF Push

\* The channel is closed with all targets pushed, or at the shutdown.
LEMMA CloseStep ==
    ASSUME IInv, NEW r \in Rounds, Close(r)
    PROVE  IInv'
<1>1. PICK p \in Round : /\ p = round[r] /\ RoundOk(p, stopping)
                         /\ stopping \/ p.pushed = Len(p.targets)
  BY RoundInOrder DEF Close
<1>2. PICK q : q = [p EXCEPT !.pc = "drain", !.token = FALSE]
  OBVIOUS
<1>3. round' = [round EXCEPT ![r] = q]
  BY <1>1, <1>2 DEF Close, IInv
<1>4. q \in Round
  BY <1>2 DEF Round
<1>5. /\ q.pc = "drain" /\ q.entries = p.entries /\ q.targets = p.targets
      /\ q.pushed = p.pushed /\ q.taken = p.taken /\ q.busy = p.busy
  BY <1>2 DEF Round
<1>6. RoundOk(q, stopping)
  BY <1>1, <1>5 DEF RoundOk
<1> QED
  BY <1>3, <1>4, <1>6, OneRound DEF Close

\* A worker that takes an address is one of those there are.
LEMMA TakeStep ==
    ASSUME IInv, NEW r \in Rounds, Take(r)
    PROVE  IInv'
<1>1. PICK p \in Round : /\ p = round[r] /\ RoundOk(p, stopping)
                         /\ p.taken < p.pushed /\ Cardinality(p.busy) < Workers
  BY RoundInOrder DEF Take
<1>2. PICK q : q = [p EXCEPT !.taken = @ + 1, !.busy = @ \cup {p.taken + 1}]
  OBVIOUS
<1>3. round' = [round EXCEPT ![r] = q]
  BY <1>1, <1>2 DEF Take, IInv
<1>4. p.pushed \in Nat /\ p.taken \in Nat /\ Len(p.targets) \in Nat /\ Capacity \in Nat /\ Workers \in Nat
  BY <1>1, RoundInOrder, ProbeAssumption
<1>5. p.busy \subseteq 1..p.taken
  BY <1>1 DEF RoundOk
<1>6. q \in Round
  <2>1. p.taken + 1 \in Nat /\ p.busy \cup {p.taken + 1} \in SUBSET Nat
    BY <1>4, <1>5
  <2> QED
    BY <1>2, <2>1 DEF Round
<1>7. /\ q.pc = p.pc /\ q.entries = p.entries /\ q.targets = p.targets
      /\ q.pushed = p.pushed /\ q.taken = p.taken + 1 /\ q.busy = p.busy \cup {p.taken + 1}
  BY <1>2 DEF Round
<1>8. q.busy \subseteq 1..q.taken
  BY <1>4, <1>5, <1>7
<1>9. Cardinality(q.busy) <= Workers
  <2>0. 1 \in Int /\ p.taken \in Int
    BY <1>4
  <2>1. IsFiniteSet(1..p.taken)
    BY <2>0, FS_Interval
  <2>2. IsFiniteSet(p.busy) /\ Cardinality(p.busy) \in Nat
    BY <1>5, <2>1, FS_Subset, FS_CardinalityType
  <2>3. Cardinality(p.busy \cup {p.taken + 1}) <= Cardinality(p.busy) + 1
    BY <2>2, FS_AddElement
  <2>4. Cardinality(p.busy \cup {p.taken + 1}) \in Nat
    BY <2>2, FS_AddElement, FS_CardinalityType
  <2> QED
    BY <1>1, <1>4, <1>7, <2>2, <2>3, <2>4
<1>10. q.taken <= q.pushed /\ q.pushed <= Len(q.targets) /\ q.pushed - q.taken <= Capacity
  BY <1>1, <1>4, <1>7 DEF RoundOk
<1>11. RoundOk(q, stopping)
  <2>1. /\ q.targets = Targets(q.entries)
        /\ q.pc = "push" => q.pushed < Len(q.targets)
        /\ q.pc = "drain" /\ ~stopping => q.pushed = Len(q.targets)
    BY <1>1, <1>7 DEF RoundOk
  <2> QED
    BY <1>8, <1>9, <1>10, <2>1 DEF RoundOk
<1> QED
  BY <1>3, <1>6, <1>11, OneRound DEF Take

\* A worker that has sent its packet is free again.
LEMMA SendProbeStep ==
    ASSUME IInv, NEW r \in Rounds, SendProbe(r)
    PROVE  IInv'
<1>1. PICK p \in Round : p = round[r] /\ RoundOk(p, stopping)
  BY RoundInOrder
<1>2. PICK i \in p.busy : round' = [round EXCEPT ![r].busy = @ \ {i}]
  BY <1>1 DEF SendProbe
<1>3. PICK q : q = [p EXCEPT !.busy = @ \ {i}]
  OBVIOUS
<1>4. round' = [round EXCEPT ![r] = q]
  BY <1>1, <1>2, <1>3 DEF IInv
<1>5. q \in Round
  BY <1>3 DEF Round
<1>6. /\ q.pc = p.pc /\ q.entries = p.entries /\ q.targets = p.targets
      /\ q.pushed = p.pushed /\ q.taken = p.taken /\ q.busy = p.busy \ {i}
  BY <1>3 DEF Round
<1>7. p.busy \subseteq 1..p.taken /\ p.taken \in Nat /\ Workers \in Nat /\ Cardinality(p.busy) <= Workers
  BY <1>1, RoundInOrder, ProbeAssumption DEF RoundOk
<1>8. Cardinality(q.busy) <= Workers
  <2>1. IsFiniteSet(1..p.taken)
    BY <1>7, FS_Interval
  <2>2. IsFiniteSet(p.busy)
    BY <1>7, <2>1, FS_Subset
  <2>3. q.busy \in SUBSET p.busy
    BY <1>6
  <2>4. Cardinality(q.busy) <= Cardinality(p.busy) /\ IsFiniteSet(q.busy)
    BY <2>2, <2>3, FS_Subset
  <2>5. Cardinality(q.busy) \in Nat /\ Cardinality(p.busy) \in Nat
    BY <2>2, <2>4, FS_CardinalityType
  <2> QED
    BY <1>7, <2>4, <2>5
<1>9. RoundOk(q, stopping)
  BY <1>1, <1>6, <1>7, <1>8 DEF RoundOk
<1> QED
  BY <1>4, <1>5, <1>9, OneRound DEF SendProbe

\* A round that has ended leaves no trace.
LEMMA EndRoundStep ==
    ASSUME IInv, NEW r \in Rounds, EndRound(r)
    PROVE  IInv'
BY NoRoundOk, OneRound DEF EndRound

\* A new round expands what the configuration holds.
LEMMA HeartbeatStep ==
    ASSUME IInv, Heartbeat
    PROVE  IInv'
<1>1. static \in Seq(Target) /\ wait' \in 0..Interval
  BY ProbeAssumption DEF IInv, Heartbeat
<1>2. round' \in [Rounds -> Round] /\ \A r \in Rounds : RoundOk(round'[r], stopping)
  <2>1. CASE UNCHANGED round
    BY <2>1 DEF IInv
  <2>2. ASSUME NEW r \in Rounds, round' = [round EXCEPT ![r] = Opened(static)]
        PROVE  round' \in [Rounds -> Round] /\ \A s \in Rounds : RoundOk(round'[s], stopping)
    <3>1. Opened(static) \in Round /\ RoundOk(Opened(static), stopping)
      BY <1>1, OpenedOk
    <3> QED
      BY <2>2, <3>1 DEF IInv
  <2> QED
    BY <2>1, <2>2 DEF Heartbeat
<1> QED
  BY <1>1, <1>2 DEF IInv, Heartbeat

\* A tick is kept for the round that waits for it.
LEMMA PeriodStep ==
    ASSUME IInv, Period
    PROVE  IInv'
<1> DEFINE Ticked(q) == IF q.pc \in {"feed", "push"} THEN [q EXCEPT !.token = TRUE] ELSE q
<1>1. ASSUME NEW r \in Rounds
      PROVE  Ticked(round[r]) \in Round /\ RoundOk(Ticked(round[r]), stopping)
  <2>1. PICK p \in Round : p = round[r] /\ RoundOk(p, stopping)
    BY RoundInOrder
  <2>2. PICK q : q = [p EXCEPT !.token = TRUE]
    OBVIOUS
  <2>3. q \in Round
    BY <2>2 DEF Round
  <2>4. /\ q.pc = p.pc /\ q.entries = p.entries /\ q.targets = p.targets
        /\ q.pushed = p.pushed /\ q.taken = p.taken /\ q.busy = p.busy
    BY <2>2 DEF Round
  <2>5. RoundOk(q, stopping)
    BY <2>1, <2>4 DEF RoundOk
  <2>6. Ticked(p) = q \/ Ticked(p) = p
    BY <2>2
  <2> QED
    BY <2>1, <2>3, <2>5, <2>6
<1>2. round' = [r \in Rounds |-> Ticked(round[r])]
  BY DEF Period
<1> HIDE DEF Ticked
<1>3. round' \in [Rounds -> Round] /\ \A r \in Rounds : RoundOk(round'[r], stopping)
  BY <1>1, <1>2
<1>4. wait' \in 0..Interval
  BY ProbeAssumption DEF IInv, Period
<1> QED
  BY <1>3, <1>4 DEF IInv, Period

\* A cancelled context asks less of a round than one that is not.
LEMMA ShutdownStep ==
    ASSUME IInv, Shutdown
    PROVE  IInv'
<1>1. \A r \in Rounds : RoundOk(round[r], TRUE)
  BY DEF IInv, RoundOk
<1> QED
  BY <1>1 DEF IInv, Shutdown

\* The other steps do not touch the rounds.
LEMMA OtherSteps ==
    ASSUME IInv, (\E t \in Additions : AddPeer(t)) \/ LeaveLoop \/ UNCHANGED vars
    PROVE  IInv'
<1>1. CASE \E t \in Additions : AddPeer(t)
  <2>1. PICK t \in Additions : AddPeer(t)
    BY <1>1
  <2>2. t \in Target /\ static \in Seq(Target)
    BY ProbeAssumption DEF IInv
  <2>3. static' \in Seq(Target)
    BY <2>1, <2>2 DEF AddPeer
  <2> QED
    BY <2>1, <2>3 DEF IInv, AddPeer
<1>2. CASE LeaveLoop
  BY <1>2 DEF IInv, LeaveLoop
<1>3. CASE UNCHANGED vars
  BY <1>3 DEF IInv, vars
<1> QED
  BY <1>1, <1>2, <1>3

\* Every step keeps the invariant.
LEMMA InvStep == IInv /\ [Next]_vars => IInv'
<1> SUFFICES ASSUME IInv, [Next]_vars PROVE IInv'
  OBVIOUS
<1>1. ASSUME NEW r \in Rounds, Step(r) PROVE IInv'
  BY <1>1, TakeTickStep, PushStep, CloseStep, TakeStep, SendProbeStep, EndRoundStep DEF Step
<1> QED
  BY <1>1, HeartbeatStep, PeriodStep, ShutdownStep, OtherSteps DEF Next

\* The invariant holds in every state.
LEMMA Invariance == Spec => []IInv
BY InvInit, InvStep, PTL DEF Spec

-----------------------------------------------------------------------------
\* The workers and the channel of every round are within their bounds, for every
\* configuration, pool and channel.
THEOREM TypeCorrect == Spec => []TypeOK
BY Invariance, InvIsTyped, PTL

\* What a round that has run to its end has sent, by what it began with.
LEMMA EndIsExact ==
    ASSUME IInv, NEW r \in Rounds, EndRound(r), ~stopping, NEW a \in Addresses
    PROVE  Cardinality({i \in Sent(r) : round[r].targets[i] = a})
             = Cardinality({i \in DOMAIN round[r].entries : a \in Usable(round[r].entries[i])})
<1>1. PICK p \in Round : p = round[r] /\ RoundOk(p, stopping)
  BY RoundInOrder
<1>2. p.pushed = Len(p.targets) /\ p.taken = p.pushed /\ p.busy = {}
  BY <1>1 DEF EndRound, Drained, RoundOk
<1>3. Sent(r) = 1..Len(p.targets)
  BY <1>1, <1>2 DEF Sent
<1>4. {i \in Sent(r) : round[r].targets[i] = a} = Places(p.targets, a)
  BY <1>1, <1>3 DEF Places
<1>5. p.entries \in Seq(Target) /\ p.targets = Targets(p.entries)
  BY <1>1 DEF Round, RoundOk
<1>6. {i \in DOMAIN p.entries : a \in Usable(p.entries[i])} = Calling(p.entries, Len(p.entries), a)
  BY <1>5 DEF Calling
<1>7. Cardinality(Places(p.targets, a)) = Cardinality(Calling(p.entries, Len(p.entries), a))
  BY <1>5, TargetsAreExact
<1> QED
  BY <1>1, <1>4, <1>6, <1>7

\* cidr.go:15, README.md:384: a round that runs to its end has sent one packet to
\* each usable address for each entry that calls for it and none to any other,
\* whatever the entries, the width of the addresses and the other rounds.
THEOREM RoundsAreExact == Spec => RoundIsExact
<1>1. IInv /\ [Next]_vars =>
        [\A r \in Rounds : EndRound(r) /\ ~stopping =>
          \A a \in Addresses :
              Cardinality({i \in Sent(r) : round[r].targets[i] = a})
                = Cardinality({i \in DOMAIN round[r].entries : a \in Usable(round[r].entries[i])})]_vars
  BY EndIsExact
<1> QED
  BY <1>1, Invariance, PTL DEF Spec, RoundIsExact

-----------------------------------------------------------------------------
(* Rounds come to an end.  The work left to a round counts the steps that it *)
(* and its workers can still take.                                          *)

Phase(q) == IF q.pc = "feed" THEN 2 ELSE IF q.pc \in {"push", "drain"} THEN 1 ELSE 0

WorkOf(q) == 4 * (Len(q.targets) - q.pushed) + 2 * (q.pushed - q.taken)
               + Cardinality(q.busy) + Phase(q)

\* Whoever waits for a place in the channel or for the workers to be done has a
\* worker that can send or take: rounds wait in vain for nothing but a tick.
NeverStuck ==
    \A r \in Rounds :
        \/ round[r].pc = "push" /\ ~HasRoom(r)
        \/ round[r].pc = "drain" /\ ~Drained(r)
        => \/ round[r].busy # {}
           \/ round[r].taken < round[r].pushed /\ Cardinality(round[r].busy) < Workers

IdleIsEmpty == \A r \in Rounds : round[r].pc = "idle" => round[r].targets = <<>>

\* Every step of a round leaves it less work, and only a heartbeat, which opens a
\* round that is idle, gives work to any.
WorkIsDone ==
    \A r \in Rounds :
        /\ Step(r) => WorkOf(round'[r]) < WorkOf(round[r])
        /\ ~Step(r) /\ round[r].pc # "idle" => WorkOf(round'[r]) = WorkOf(round[r])

\* The work that is left is a number, and there is none left to an idle round.
LEMMA WorkIsNumber ==
    ASSUME NEW q \in Round, NEW halt, RoundOk(q, halt)
    PROVE  /\ q.pushed \in Nat /\ q.taken \in Nat /\ Len(q.targets) \in Nat
           /\ IsFiniteSet(q.busy) /\ Cardinality(q.busy) \in Nat
           /\ WorkOf(q) \in Nat
           /\ q.targets = <<>> => q.pushed = 0 /\ q.taken = 0 /\ q.busy = {}
<1>1. q.pushed \in Nat /\ q.taken \in Nat /\ q.targets \in Seq(Addresses)
  BY DEF Round
<1>2. Len(q.targets) \in Nat
  BY <1>1
<1>3. q.busy \subseteq 1..q.taken /\ q.taken <= q.pushed /\ q.pushed <= Len(q.targets)
  BY DEF RoundOk
<1>4. IsFiniteSet(q.busy) /\ Cardinality(q.busy) \in Nat
  <2>0. 1 \in Int /\ q.taken \in Int
    BY <1>1
  <2>1. IsFiniteSet(1..q.taken)
    BY <2>0, FS_Interval
  <2> QED
    BY <1>3, <2>1, FS_Subset, FS_CardinalityType
<1>5. Phase(q) \in Nat
  BY DEF Phase
<1>6. WorkOf(q) \in Nat
  <2>1. PICK L \in Nat, a \in Nat, b \in Nat, c \in Nat, h \in Nat :
            /\ L = Len(q.targets) /\ a = q.pushed /\ b = q.taken
            /\ c = Cardinality(q.busy) /\ h = Phase(q)
    BY <1>1, <1>2, <1>4, <1>5
  <2>2. WorkOf(q) = 4 * (L - a) + 2 * (a - b) + c + h
    BY <2>1 DEF WorkOf
  <2>3. b <= a /\ a <= L
    BY <1>3, <2>1
  <2> QED
    BY <2>2, <2>3
<1>7. ASSUME q.targets = <<>> PROVE q.pushed = 0 /\ q.taken = 0 /\ q.busy = {}
  <2>1. Len(q.targets) = 0
    BY <1>7
  <2>2. q.pushed = 0 /\ q.taken = 0
    BY <1>1, <1>3, <2>1
  <2> QED
    BY <1>3, <2>2
<1> QED
  BY <1>1, <1>2, <1>4, <1>6, <1>7

\* A step of a round, as far as its work is concerned.
LEMMA OwnWork ==
    ASSUME IInv, IdleIsEmpty, NEW r \in Rounds, Step(r)
    PROVE  \E q : /\ round' = [round EXCEPT ![r] = q]
                  /\ WorkOf(q) < WorkOf(round[r])
                  /\ q.pc = "idle" => q.targets = <<>>
<1>1. PICK p \in Round : p = round[r] /\ RoundOk(p, stopping)
  BY RoundInOrder
<1>2. /\ p.pushed \in Nat /\ p.taken \in Nat /\ Len(p.targets) \in Nat
      /\ IsFiniteSet(p.busy) /\ Cardinality(p.busy) \in Nat
  BY <1>1, WorkIsNumber
<1>3. p.pc = "idle" => p.pushed = 0 /\ p.taken = 0 /\ p.busy = {} /\ p.targets = <<>>
  BY <1>1, WorkIsNumber DEF IdleIsEmpty
<1>4. CASE TakeTick(r)
  <2>1. PICK q : q = [p EXCEPT !.pc = "push", !.token = FALSE]
    OBVIOUS
  <2>2. round' = [round EXCEPT ![r] = q] /\ p.pc = "feed"
    BY <1>1, <1>4, <2>1 DEF TakeTick, IInv
  <2>3. /\ q.pc = "push" /\ q.targets = p.targets
        /\ q.pushed = p.pushed /\ q.taken = p.taken /\ q.busy = p.busy
    BY <2>1 DEF Round
  <2>4. Phase(p) = 2 /\ Phase(q) = 1
    BY <2>2, <2>3 DEF Phase
  <2>5. WorkOf(q) < WorkOf(p)
    BY <1>2, <2>3, <2>4 DEF WorkOf
  <2> QED
    BY <1>1, <2>2, <2>3, <2>5
<1>5. CASE Push(r)
  <2>1. PICK q : q = [p EXCEPT !.pc = "feed", !.pushed = @ + 1]
    OBVIOUS
  <2>2. round' = [round EXCEPT ![r] = q] /\ p.pc = "push"
    BY <1>1, <1>5, <2>1 DEF Push, IInv
  <2>3. /\ q.pc = "feed" /\ q.targets = p.targets
        /\ q.pushed = p.pushed + 1 /\ q.taken = p.taken /\ q.busy = p.busy
    BY <2>1 DEF Round
  <2>4. Phase(p) = 1 /\ Phase(q) = 2
    BY <2>2, <2>3 DEF Phase
  <2>5. PICK L \in Nat, a \in Nat, b \in Nat, c \in Nat :
            L = Len(p.targets) /\ a = p.pushed /\ b = p.taken /\ c = Cardinality(p.busy)
    BY <1>2
  <2>6. WorkOf(p) = 4 * (L - a) + 2 * (a - b) + c + 1
    BY <2>4, <2>5 DEF WorkOf
  <2>7. WorkOf(q) = 4 * (L - (a + 1)) + 2 * ((a + 1) - b) + c + 2
    BY <2>3, <2>4, <2>5 DEF WorkOf
  <2>8. WorkOf(q) < WorkOf(p)
    BY <2>6, <2>7
  <2> QED
    BY <1>1, <2>2, <2>3, <2>8
<1>6. CASE Close(r)
  <2>1. PICK q : q = [p EXCEPT !.pc = "drain", !.token = FALSE]
    OBVIOUS
  <2>2. round' = [round EXCEPT ![r] = q] /\ p.pc = "feed"
    BY <1>1, <1>6, <2>1 DEF Close, IInv
  <2>3. /\ q.pc = "drain" /\ q.targets = p.targets
        /\ q.pushed = p.pushed /\ q.taken = p.taken /\ q.busy = p.busy
    BY <2>1 DEF Round
  <2>4. Phase(p) = 2 /\ Phase(q) = 1
    BY <2>2, <2>3 DEF Phase
  <2>5. WorkOf(q) < WorkOf(p)
    BY <1>2, <2>3, <2>4 DEF WorkOf
  <2> QED
    BY <1>1, <2>2, <2>3, <2>5
<1>7. CASE Take(r)
  <2>1. PICK q : q = [p EXCEPT !.taken = @ + 1, !.busy = @ \cup {p.taken + 1}]
    OBVIOUS
  <2>2. round' = [round EXCEPT ![r] = q] /\ p.taken < p.pushed
    BY <1>1, <1>7, <2>1 DEF Take, IInv
  <2>3. /\ q.pc = p.pc /\ q.targets = p.targets
        /\ q.pushed = p.pushed /\ q.taken = p.taken + 1 /\ q.busy = p.busy \cup {p.taken + 1}
    BY <2>1 DEF Round
  <2>4. Phase(q) = Phase(p) /\ Phase(p) \in Nat
    BY <2>3 DEF Phase
  <2>5. PICK more : more = p.busy \cup {p.taken + 1}
    OBVIOUS
  <2>6. Cardinality(more) <= Cardinality(p.busy) + 1 /\ Cardinality(more) \in Nat
    <3>1. IsFiniteSet(more)
      BY <1>2, <2>5, FS_AddElement
    <3>2. Cardinality(more) = Cardinality(p.busy) \/ Cardinality(more) = Cardinality(p.busy) + 1
      BY <1>2, <2>5, FS_AddElement
    <3> QED
      BY <1>2, <3>1, <3>2, FS_CardinalityType
  <2>7. PICK L \in Nat, a \in Nat, b \in Nat, c \in Nat, d \in Nat, h \in Nat :
            /\ L = Len(p.targets) /\ a = p.pushed /\ b = p.taken /\ c = Cardinality(p.busy)
            /\ d = Cardinality(more) /\ h = Phase(p)
    BY <1>2, <2>4, <2>6
  <2>8. WorkOf(p) = 4 * (L - a) + 2 * (a - b) + c + h
    BY <2>7 DEF WorkOf
  <2>9. WorkOf(q) = 4 * (L - a) + 2 * (a - (b + 1)) + d + h
    BY <2>3, <2>4, <2>5, <2>7 DEF WorkOf
  <2>10. d <= c + 1
    BY <2>6, <2>7
  <2>11. WorkOf(q) < WorkOf(p)
    BY <2>8, <2>9, <2>10
  <2> QED
    BY <1>1, <1>3, <2>2, <2>3, <2>11
<1>8. CASE SendProbe(r)
  <2>1. PICK i \in p.busy : round' = [round EXCEPT ![r].busy = @ \ {i}]
    BY <1>1, <1>8 DEF SendProbe
  <2>2. PICK q : q = [p EXCEPT !.busy = @ \ {i}]
    OBVIOUS
  <2>3. round' = [round EXCEPT ![r] = q]
    BY <1>1, <2>1, <2>2 DEF IInv
  <2>4. /\ q.pc = p.pc /\ q.targets = p.targets
        /\ q.pushed = p.pushed /\ q.taken = p.taken /\ q.busy = p.busy \ {i}
    BY <2>2 DEF Round
  <2>5. Phase(q) = Phase(p) /\ Phase(p) \in Nat
    BY <2>4 DEF Phase
  <2>6. Cardinality(q.busy) = Cardinality(p.busy) - 1
    BY <1>2, <2>4, FS_RemoveElement
  <2>7. PICK L \in Nat, a \in Nat, b \in Nat, c \in Nat, h \in Nat :
            /\ L = Len(p.targets) /\ a = p.pushed /\ b = p.taken
            /\ c = Cardinality(p.busy) /\ h = Phase(p)
    BY <1>2, <2>5
  <2>8. WorkOf(p) = 4 * (L - a) + 2 * (a - b) + c + h
    BY <2>7 DEF WorkOf
  <2>9. WorkOf(q) = 4 * (L - a) + 2 * (a - b) + (c - 1) + h
    BY <2>4, <2>5, <2>6, <2>7 DEF WorkOf
  <2>10. WorkOf(q) < WorkOf(p)
    BY <2>8, <2>9
  <2> QED
    BY <1>1, <1>3, <2>3, <2>4, <2>10
<1>9. CASE EndRound(r)
  <2>1. round' = [round EXCEPT ![r] = NoRound] /\ p.pc = "drain"
    BY <1>1, <1>9 DEF EndRound
  <2>2. /\ NoRound.pc = "idle" /\ NoRound.targets = <<>> /\ NoRound.pushed = 0
        /\ NoRound.taken = 0 /\ NoRound.busy = {}
    BY DEF NoRound
  <2>3. WorkOf(NoRound) = 0
    <3>1. Len(NoRound.targets) = 0 /\ Cardinality(NoRound.busy) = 0 /\ Phase(NoRound) = 0
      BY <2>2, FS_EmptySet DEF Phase
    <3> QED
      BY <2>2, <3>1 DEF WorkOf
  <2>4. Phase(p) = 1
    BY <2>1 DEF Phase
  <2>5. p.taken <= p.pushed /\ p.pushed <= Len(p.targets)
    BY <1>1 DEF RoundOk
  <2>6. WorkOf(p) > 0
    BY <1>2, <2>4, <2>5 DEF WorkOf
  <2> QED
    BY <1>1, <2>1, <2>2, <2>3, <2>6
<1> QED
  BY <1>4, <1>5, <1>6, <1>7, <1>8, <1>9 DEF Step

\* What the rest of the program does to a round that is under way: a tick at most.
LEMMA OthersWork ==
    ASSUME IInv, IdleIsEmpty, [Next]_vars, NEW r \in Rounds, ~Step(r), round[r].pc # "idle"
    PROVE  /\ round'[r].pc = round[r].pc
           /\ WorkOf(round'[r]) = WorkOf(round[r])
<1>1. PICK p \in Round : p = round[r]
  BY RoundInOrder
<1>2. CASE round'[r] = p
  BY <1>1, <1>2
<1>3. CASE Period
  <2>1. PICK q : q = [p EXCEPT !.token = TRUE]
    OBVIOUS
  <2>2. round'[r] = q \/ round'[r] = p
    BY <1>1, <1>3, <2>1 DEF Period
  <2>3. /\ q.pc = p.pc /\ q.targets = p.targets
        /\ q.pushed = p.pushed /\ q.taken = p.taken /\ q.busy = p.busy
    BY <2>1 DEF Round
  <2>4. WorkOf(q) = WorkOf(p)
    BY <2>3 DEF WorkOf, Phase
  <2> QED
    BY <1>1, <2>2, <2>3, <2>4
<1>4. CASE Heartbeat
  <2>1. CASE UNCHANGED round
    BY <1>1, <1>2, <2>1
  <2>2. ASSUME NEW s \in Rounds, round[s].pc = "idle",
               round' = [round EXCEPT ![s] = Opened(static)]
        PROVE  round'[r] = p
    BY <1>1, <2>2 DEF IInv
  <2> QED
    BY <1>2, <1>4, <2>1, <2>2 DEF Heartbeat
<1>5. CASE (\E t \in Additions : AddPeer(t)) \/ LeaveLoop \/ Shutdown \/ UNCHANGED vars
  BY <1>1, <1>2, <1>5 DEF AddPeer, LeaveLoop, Shutdown, vars
<1>6. ASSUME NEW s \in Rounds, Step(s) PROVE round'[r] = p
  <2>1. s # r
    BY <1>6
  <2>2. PICK q : round' = [round EXCEPT ![s] = q]
    BY <1>6, OwnWork
  <2> QED
    BY <1>1, <2>1, <2>2 DEF IInv
<1> QED
  BY <1>2, <1>3, <1>4, <1>5, <1>6 DEF Next

\* A round is opened idle when there is nothing to expand.
LEMMA OpenedIdle == Opened(static).pc = "idle" => Opened(static).targets = <<>>
<1>1. PICK pc : pc = IF Targets(static) = <<>> THEN "idle" ELSE "feed"
  OBVIOUS
<1>2. PICK q : q = [NoRound EXCEPT !.pc = pc, !.entries = static, !.targets = Targets(static)]
  OBVIOUS
<1>3. Opened(static) = q
  BY <1>1, <1>2 DEF Opened
<1>4. q.pc = pc /\ q.targets = Targets(static)
  BY <1>2 DEF NoRound
<1> QED
  BY <1>1, <1>3, <1>4

\* A round is idle with nothing to do: it has ended, or nothing parsed.
LEMMA IdleStep ==
    ASSUME IInv, IdleIsEmpty, [Next]_vars
    PROVE  IdleIsEmpty'
<1> SUFFICES ASSUME NEW r \in Rounds, round'[r].pc = "idle" PROVE round'[r].targets = <<>>
  BY DEF IdleIsEmpty
<1>1. PICK p \in Round : p = round[r] /\ (p.pc = "idle" => p.targets = <<>>)
  BY RoundInOrder DEF IdleIsEmpty
<1>2. CASE round'[r] = p
  BY <1>1, <1>2
<1>3. CASE Period
  <2>1. PICK q : q = [p EXCEPT !.token = TRUE]
    OBVIOUS
  <2>2. round'[r] = q \/ round'[r] = p
    BY <1>1, <1>3, <2>1 DEF Period
  <2>3. q.pc = p.pc /\ q.targets = p.targets
    BY <2>1 DEF Round
  <2> QED
    BY <1>1, <2>2, <2>3
<1>4. CASE Heartbeat
  <2>1. CASE UNCHANGED round
    BY <1>1, <1>2, <2>1
  <2>2. ASSUME NEW s \in Rounds, round' = [round EXCEPT ![s] = Opened(static)]
        PROVE  round'[r].targets = <<>>
    <3>1. Opened(static).pc = "idle" => Opened(static).targets = <<>>
      BY OpenedIdle
    <3>2. round'[r] = IF r = s THEN Opened(static) ELSE p
      BY <1>1, <2>2 DEF IInv
    <3> QED
      BY <1>1, <3>1, <3>2
  <2> QED
    BY <1>4, <2>1, <2>2 DEF Heartbeat
<1>5. CASE (\E t \in Additions : AddPeer(t)) \/ LeaveLoop \/ Shutdown \/ UNCHANGED vars
  BY <1>1, <1>2, <1>5 DEF AddPeer, LeaveLoop, Shutdown, vars
<1>6. ASSUME NEW s \in Rounds, Step(s) PROVE round'[r].targets = <<>>
  <2>1. PICK q : round' = [round EXCEPT ![s] = q] /\ (q.pc = "idle" => q.targets = <<>>)
    BY <1>6, OwnWork
  <2>2. round'[r] = IF r = s THEN q ELSE p
    BY <1>1, <2>1 DEF IInv
  <2> QED
    BY <1>1, <2>1, <2>2
<1> QED
  BY <1>2, <1>3, <1>4, <1>5, <1>6 DEF Next

\* A full channel holds something, and so do workers who are all at work.
LEMMA SomeoneWorks == IInv => NeverStuck
<1> SUFFICES ASSUME IInv, NEW r \in Rounds,
                    \/ round[r].pc = "push" /\ ~HasRoom(r)
                    \/ round[r].pc = "drain" /\ ~Drained(r),
                    round[r].busy = {}
             PROVE  round[r].taken < round[r].pushed /\ Cardinality(round[r].busy) < Workers
  BY DEF NeverStuck
<1>1. /\ round[r].pushed \in Nat /\ round[r].taken \in Nat
      /\ round[r].taken <= round[r].pushed
  BY RoundInOrder DEF RoundOk
<1>2. round[r].taken # round[r].pushed
  BY <1>1, ProbeAssumption DEF HasRoom, Drained
<1>3. Cardinality(round[r].busy) < Workers
  BY FS_EmptySet, ProbeAssumption
<1> QED
  BY <1>1, <1>2, <1>3

\* Rounds neither block one another nor run for ever: a round that is under way
\* waits for nothing but a tick, each of its steps leaves it less work, and what
\* else happens gives it none.
THEOREM RoundsEnd == Spec => []NeverStuck /\ [][WorkIsDone]_vars
<1>1. Init => IdleIsEmpty
  BY DEF Init, IdleIsEmpty, NoRound
<1>2. IInv /\ IdleIsEmpty /\ [Next]_vars => IdleIsEmpty'
  BY IdleStep
<1>3. IInv /\ IdleIsEmpty /\ [Next]_vars => WorkIsDone
  <2> SUFFICES ASSUME IInv, IdleIsEmpty, [Next]_vars, NEW r \in Rounds
               PROVE  /\ Step(r) => WorkOf(round'[r]) < WorkOf(round[r])
                      /\ ~Step(r) /\ round[r].pc # "idle" => WorkOf(round'[r]) = WorkOf(round[r])
    BY DEF WorkIsDone
  <2>1. ASSUME Step(r) PROVE WorkOf(round'[r]) < WorkOf(round[r])
    <3>1. PICK q : round' = [round EXCEPT ![r] = q] /\ WorkOf(q) < WorkOf(round[r])
      BY <2>1, OwnWork
    <3>2. round'[r] = q
      BY <3>1 DEF IInv
    <3> QED
      BY <3>1, <3>2
  <2> QED
    BY <2>1, OthersWork
<1> QED
  BY <1>1, <1>2, <1>3, Invariance, SomeoneWorks, PTL DEF Spec

USE PeerAssumption

-----------------------------------------------------------------------------
(* PeerTable: ages and tasks.                                               *)

\* One tick later an age is an age, and no age has overtaken another.
LEMMA OlderKeepsOrder ==
    /\ \A a \in Ages : Older(a) \in Ages
    /\ \A a, b \in Ages : a <= b => Older(a) <= Older(b)
    /\ Older(Absent) = Absent
    /\ \A a \in Ages \cup {Absent} : Older(a) = Absent => a = Absent
BY DEF Ages, Oldest, Older

\* What a task of either kind is.
LEMMA TaskTyped ==
    ASSUME NEW t \in Task
    PROVE  t.peer \in Peers /\ t.age \in Ages /\ t.kind \in {"put", "delete"}
BY DEF Task, Ages, Oldest

\* A tick later a write is still a write of the same peer.
LEMMA TaskTicks ==
    ASSUME NEW t \in Task, t.kind = "put"
    PROVE  /\ [t EXCEPT !.age = Older(@)] \in Task
           /\ [t EXCEPT !.age = Older(@)].kind = "put"
           /\ [t EXCEPT !.age = Older(@)].peer = t.peer
           /\ [t EXCEPT !.age = Older(@)].age = Older(t.age)
<1>1. t \in [kind : {"put"}, peer : Peers, age : Ages]
  BY DEF Task
<1>2. Older(t.age) \in Ages
  BY <1>1, OlderKeepsOrder
<1> QED
  BY <1>1, <1>2 DEF Task

-----------------------------------------------------------------------------
(* NeverRejuvenated alone is not inductive: what a pending write puts into   *)
(* the bucket must not be fresher than the registry either, and nothing may  *)
(* be pending when a restart copies the bucket into the registry.            *)

\* No pending write carries a younger age than the registry has.
WritesAreOld ==
    \A t \in tasks : t.kind = "put" /\ registry[t.peer] # Absent => registry[t.peer] <= t.age

\* A daemon that is down has lost its memory and its goroutines.
DownIsEmpty == ~up => registry = Nothing /\ tasks = {} /\ doomed = {}

TableInv == TableTypeOK /\ NeverRejuvenated /\ WritesAreOld /\ DownIsEmpty

\* The invariant holds at the start.
LEMMA TableInvInit == TableInit => TableInv
BY DEF TableInit, TableInv, TableTypeOK, NeverRejuvenated, WritesAreOld, DownIsEmpty, Nothing

\* A heartbeat makes the registry the freshest there can be.
LEMMA UpsertStep ==
    ASSUME TableInv, NEW p \in Peers, Upsert(p)
    PROVE  TableInv'
<1> USE DEF TableInv, TableTypeOK
<1>1. PICK put : put = [kind |-> "put", peer |-> p, age |-> 0]
  OBVIOUS
<1>2. put \in Task /\ put.age = 0 /\ put.peer = p
  BY <1>1 DEF Task, Ages, Oldest
<1>3. tasks' \subseteq tasks \cup {put}
  BY <1>1 DEF Upsert
<1>4. registry' = [registry EXCEPT ![p] = 0] /\ bucket' = bucket
  BY DEF Upsert
<1>5. TableTypeOK'
  <2>1. registry' \in [Peers -> Ages \cup {Absent}]
    BY <1>4 DEF Ages, Oldest
  <2>2. tasks' \subseteq Task
    BY <1>2, <1>3
  <2> QED
    BY <2>1, <2>2 DEF Upsert
<1>6. NeverRejuvenated'
  BY <1>4 DEF NeverRejuvenated, Ages, Oldest
<1>7. WritesAreOld'
  <2>1. ASSUME NEW t \in tasks', t.kind = "put", registry'[t.peer] # Absent
        PROVE  registry'[t.peer] <= t.age
    <3>1. t \in Task /\ t.peer \in Peers /\ t.age \in Ages
      BY <1>2, <1>3, <2>1, TaskTyped
    <3>2. CASE t.peer = p
      BY <1>4, <3>1, <3>2 DEF Ages, Oldest
    <3>3. CASE t.peer # p
      BY <1>2, <1>3, <1>4, <2>1, <3>1, <3>3 DEF WritesAreOld
    <3> QED
      BY <3>2, <3>3
  <2> QED
    BY <2>1 DEF WritesAreOld
<1>8. DownIsEmpty'
  BY DEF Upsert, DownIsEmpty
<1> QED
  BY <1>5, <1>6, <1>7, <1>8

\* A goroutine that reaches the bucket brings nothing fresher than the registry.
LEMMA RunTaskStep ==
    ASSUME TableInv, NEW t \in tasks, RunTask(t)
    PROVE  TableInv'
<1> USE DEF TableInv, TableTypeOK
<1>1. t \in Task /\ t.peer \in Peers /\ t.age \in Ages
  BY TaskTyped
<1>2. bucket' = [bucket EXCEPT ![t.peer] = Written(t)] /\ registry' = registry
  BY DEF RunTask
<1>3. Written(t) \in Ages \cup {Absent}
  BY <1>1 DEF Written
<1>4. TableTypeOK'
  <2>1. bucket' \in [Peers -> Ages \cup {Absent}]
    BY <1>1, <1>2, <1>3
  <2> QED
    BY <2>1 DEF RunTask
<1>5. NeverRejuvenated'
  <2>1. Written(t) # Absent /\ registry[t.peer] # Absent => registry[t.peer] <= Written(t)
    BY <1>1 DEF Written, WritesAreOld
  <2> QED
    BY <1>1, <1>2, <2>1 DEF NeverRejuvenated
<1>6. WritesAreOld' /\ DownIsEmpty'
  BY DEF RunTask, WritesAreOld, DownIsEmpty
<1> QED
  BY <1>4, <1>5, <1>6

\* Pruning the registry forgets peers and asks for deletions only.
LEMMA PruneExpiredStep ==
    ASSUME TableInv, PruneExpired
    PROVE  TableInv'
<1> USE DEF TableInv, TableTypeOK
<1>1. PICK pruned \in SUBSET Peers :
         /\ registry' = [p \in Peers |-> IF p \in pruned THEN Absent ELSE registry[p]]
         /\ tasks' = tasks \cup {[kind |-> "delete", peer |-> p, age |-> 0] : p \in pruned}
  BY DEF PruneExpired
<1>2. \A t \in tasks' : t \in tasks \/ (t \in Task /\ t.kind = "delete")
  BY <1>1 DEF Task
<1>3. TableTypeOK'
  <2>1. registry' \in [Peers -> Ages \cup {Absent}]
    BY <1>1
  <2>2. tasks' \subseteq Task
    BY <1>2
  <2> QED
    BY <2>1, <2>2 DEF PruneExpired
<1>4. \A p \in Peers : registry'[p] # Absent => registry'[p] = registry[p]
  BY <1>1
<1>5. NeverRejuvenated'
  BY <1>4 DEF PruneExpired, NeverRejuvenated
<1>6. WritesAreOld'
  <2>1. ASSUME NEW t \in tasks', t.kind = "put", registry'[t.peer] # Absent
        PROVE  registry'[t.peer] <= t.age
    <3>1. t \in tasks /\ t.peer \in Peers
      BY <1>2, <2>1, TaskTyped
    <3> QED
      BY <1>4, <2>1, <3>1 DEF WritesAreOld
  <2> QED
    BY <2>1 DEF WritesAreOld
<1>7. DownIsEmpty'
  BY DEF PruneExpired, DownIsEmpty
<1> QED
  BY <1>3, <1>5, <1>6, <1>7

\* Everything ages together.
LEMMA TickStep ==
    ASSUME TableInv, Tick
    PROVE  TableInv'
<1> USE DEF TableInv, TableTypeOK
<1> DEFINE aged(t) == IF t.kind = "put" THEN [t EXCEPT !.age = Older(@)] ELSE t
<1>1. /\ registry' = [p \in Peers |-> Older(registry[p])]
      /\ bucket' = [p \in Peers |-> Older(bucket[p])]
      /\ tasks' = {aged(t) : t \in tasks}
  BY DEF Tick
<1>2. \A t \in tasks : /\ aged(t) \in Task /\ aged(t).kind = t.kind /\ aged(t).peer = t.peer
                       /\ t.kind = "put" => aged(t).age = Older(t.age)
  BY TaskTicks
<1>3. TableTypeOK'
  <2>1. registry' \in [Peers -> Ages \cup {Absent}]
    BY <1>1, OlderKeepsOrder
  <2>2. bucket' \in [Peers -> Ages \cup {Absent}]
    BY <1>1, OlderKeepsOrder
  <2>3. tasks' \subseteq Task
    BY <1>1, <1>2
  <2> QED
    BY <2>1, <2>2, <2>3 DEF Tick
<1>4. NeverRejuvenated'
  <2>1. ASSUME NEW p \in Peers, registry'[p] # Absent, bucket'[p] # Absent
        PROVE  registry'[p] <= bucket'[p]
    <3>1. registry'[p] = Older(registry[p]) /\ bucket'[p] = Older(bucket[p])
      BY <1>1
    <3>2. registry[p] # Absent /\ bucket[p] # Absent
      BY <2>1, <3>1, OlderKeepsOrder
    <3>3. registry[p] \in Ages /\ bucket[p] \in Ages /\ registry[p] <= bucket[p]
      BY <3>2 DEF NeverRejuvenated
    <3> QED
      BY <3>1, <3>3, OlderKeepsOrder
  <2> QED
    BY <2>1 DEF NeverRejuvenated
<1>5. WritesAreOld'
  <2>1. ASSUME NEW t \in tasks, t.kind = "put", registry'[t.peer] # Absent
        PROVE  registry'[t.peer] <= Older(t.age)
    <3>1. t.peer \in Peers /\ t.age \in Ages
      BY TaskTyped
    <3>2. registry'[t.peer] = Older(registry[t.peer])
      BY <1>1, <3>1
    <3>3. registry[t.peer] # Absent
      BY <2>1, <3>2, OlderKeepsOrder
    <3>4. registry[t.peer] \in Ages /\ registry[t.peer] <= t.age
      BY <2>1, <3>1, <3>3 DEF WritesAreOld
    <3> QED
      BY <3>1, <3>2, <3>4, OlderKeepsOrder
  <2>2. ASSUME NEW s \in tasks', s.kind = "put", registry'[s.peer] # Absent
        PROVE  registry'[s.peer] <= s.age
    <3>1. PICK t \in tasks : s = aged(t)
      BY <1>1
    <3>2. t.kind = "put" /\ s.peer = t.peer /\ s.age = Older(t.age)
      BY <1>2, <2>2, <3>1
    <3> QED
      BY <2>1, <2>2, <3>2
  <2> QED
    BY <2>2 DEF WritesAreOld
<1>6. DownIsEmpty'
  <2>1. registry = Nothing => registry' = Nothing
    <3> SUFFICES ASSUME registry = Nothing PROVE registry' = Nothing
      OBVIOUS
    <3>1. \A p \in Peers : registry[p] = Absent
      BY DEF Nothing
    <3>2. \A p \in Peers : Older(registry[p]) = Absent
      BY <3>1, OlderKeepsOrder
    <3> QED
      BY <1>1, <3>2 DEF Nothing
  <2> QED
    BY <1>1, <2>1 DEF Tick, DownIsEmpty
<1> QED
  BY <1>3, <1>4, <1>5, <1>6

\* The other steps: a restart finds nothing pending, the rest only forgets.
LEMMA TableOtherSteps ==
    ASSUME TableInv,
           \/ Housekeeping \/ Crash \/ Restart
           \/ (\E p \in Peers : Leave(p))
           \/ UNCHANGED tableVars
    PROVE  TableInv'
<1> USE DEF TableInv, TableTypeOK
<1>1. CASE CollectStale
  BY <1>1 DEF CollectStale, NeverRejuvenated, WritesAreOld, DownIsEmpty
<1>2. CASE DeleteStale
  <2>1. /\ \A p \in Peers : bucket'[p] # Absent => bucket'[p] = bucket[p]
        /\ bucket' \in [Peers -> Ages \cup {Absent}]
    BY <1>2 DEF DeleteStale
  <2>2. NeverRejuvenated'
    BY <1>2, <2>1 DEF DeleteStale, NeverRejuvenated
  <2> QED
    BY <1>2, <2>1, <2>2 DEF DeleteStale, WritesAreOld, DownIsEmpty
<1>3. CASE Crash
  <2>1. /\ registry' = Nothing /\ tasks' = {} /\ doomed' = {}
        /\ UNCHANGED <<bucket, gone>> /\ ~up' /\ crashes' \in 0..MaxCrashes
    BY <1>3 DEF Crash
  <2>2. \A p \in Peers : registry'[p] = Absent
    BY <2>1 DEF Nothing
  <2>3. registry' \in [Peers -> Ages \cup {Absent}]
    BY <2>1 DEF Nothing
  <2>4. TableTypeOK'
    BY <1>3, <2>1, <2>3 DEF Crash
  <2>5. NeverRejuvenated'
    BY <2>2 DEF NeverRejuvenated
  <2> QED
    BY <2>1, <2>4, <2>5 DEF WritesAreOld, DownIsEmpty
<1>4. CASE Restart
  <2>1. tasks' = {} /\ doomed' = {} /\ registry' = bucket /\ bucket' = bucket
    BY <1>4 DEF Restart, DownIsEmpty
  <2>2. \A p \in Peers : bucket[p] # Absent => bucket[p] <= bucket[p]
    BY DEF Ages, Oldest
  <2>3. NeverRejuvenated' /\ WritesAreOld'
    BY <2>1, <2>2 DEF NeverRejuvenated, WritesAreOld
  <2> QED
    BY <1>4, <2>1, <2>3 DEF Restart, DownIsEmpty
<1>5. ASSUME NEW p \in Peers, Leave(p) PROVE TableInv'
  BY <1>5 DEF Leave, NeverRejuvenated, WritesAreOld, DownIsEmpty
<1>6. CASE UNCHANGED tableVars
  BY <1>6 DEF tableVars, NeverRejuvenated, WritesAreOld, DownIsEmpty
<1> QED
  BY <1>1, <1>2, <1>3, <1>4, <1>5, <1>6 DEF Housekeeping

\* The invariant of the peer table.
THEOREM TableInvariance == TableSpec => []TableInv
<1>1. TableInv /\ [TableNext]_tableVars => TableInv'
  BY UpsertStep, RunTaskStep, PruneExpiredStep, TickStep, TableOtherSteps DEF TableNext
<1> QED
  BY <1>1, TableInvInit, PTL DEF TableSpec

\* The variables keep their types, at every order of writes and deletions.
THEOREM TableTypeCorrect == TableSpec => []TableTypeOK
<1>1. TableInv => TableTypeOK
  BY DEF TableInv
<1> QED
  BY <1>1, TableInvariance, PTL

\* However the writes are delayed and in whatever order they come, the bucket
\* never says that a peer was seen later than the registry says.
THEOREM Rejuvenation == TableSpec => []NeverRejuvenated
<1>1. TableInv => NeverRejuvenated
  BY DEF TableInv
<1> QED
  BY <1>1, TableInvariance, PTL

-----------------------------------------------------------------------------
(* Peers that are gone.                                                     *)

\* The pending writes for peer p.
Writes(p) == {t \in tasks : t.kind = "put" /\ t.peer = p}

\* Every age that peer p has anywhere, in memory, in the bucket or on the way.
AgesOf(p) == ({registry[p], bucket[p]} \ {Absent}) \cup {t.age : t \in Writes(p)}

\* What is known of a peer that is gone only grows older, by every tick; nothing
\* that is still to be written and no restart makes it fresh, and where nothing
\* is known nothing will be.
GoneOnlyAge ==
    \A p \in gone : \A a \in AgesOf(p)' :
        \E b \in AgesOf(p) : b <= a /\ (Tick => b < a \/ a = Oldest)

\* Ages are numbers.
LEMMA AgesTyped ==
    ASSUME TableTypeOK, NEW p \in Peers
    PROVE  AgesOf(p) \subseteq Ages
<1>1. {registry[p], bucket[p]} \ {Absent} \subseteq Ages
  BY DEF TableTypeOK
<1>2. \A t \in Writes(p) : t.age \in Ages
  BY TaskTyped DEF TableTypeOK, Writes
<1> QED
  BY <1>1, <1>2 DEF AgesOf

\* A step that adds no age for peer p makes it no fresher.
LEMMA NoNewAge ==
    ASSUME TableTypeOK, ~Tick, NEW p \in Peers, AgesOf(p)' \subseteq AgesOf(p),
           NEW a \in AgesOf(p)'
    PROVE  \E b \in AgesOf(p) : b <= a /\ (Tick => b < a \/ a = Oldest)
<1>1. a \in AgesOf(p) /\ a \in Ages
  BY AgesTyped
<1>2. a <= a
  BY <1>1 DEF Ages, Oldest
<1> QED
  BY <1>1, <1>2

\* What ages with a tick.
LEMMA OlderIsOlder ==
    ASSUME NEW b \in Ages
    PROVE  Older(b) \in Ages /\ b <= Older(b) /\ (b < Older(b) \/ Older(b) = Oldest)
BY DEF Ages, Oldest, Older

\* A tick makes every age older.
LEMMA TickAges ==
    ASSUME TableTypeOK, Tick, NEW p \in Peers, NEW a \in AgesOf(p)'
    PROVE  \E b \in AgesOf(p) : b <= a /\ (b < a \/ a = Oldest)
<1>1. SUFFICES \E b \in AgesOf(p) : a = Older(b)
  <2>1. PICK b \in AgesOf(p) : a = Older(b)
    BY <1>1
  <2>2. b \in Ages
    BY AgesTyped
  <2> QED
    BY <2>1, <2>2, OlderIsOlder
<1>2. /\ registry'[p] = Older(registry[p]) /\ bucket'[p] = Older(bucket[p])
      /\ tasks' = {IF t.kind = "put" THEN [t EXCEPT !.age = Older(@)] ELSE t : t \in tasks}
  BY DEF Tick
<1>3. CASE a \in {registry'[p], bucket'[p]} \ {Absent}
  <2>1. \A k \in {registry[p], bucket[p]} : Older(k) # Absent => k # Absent
    BY OlderKeepsOrder
  <2>2. PICK k \in {registry[p], bucket[p]} : a = Older(k) /\ a # Absent
    BY <1>2, <1>3
  <2>3. k \in AgesOf(p)
    BY <2>1, <2>2 DEF AgesOf
  <2> QED
    BY <2>2, <2>3
<1>4. CASE a \in {t.age : t \in Writes(p)'}
  <2>1. PICK s \in tasks' : s.kind = "put" /\ s.peer = p /\ a = s.age
    BY <1>4 DEF Writes
  <2>2. PICK t \in tasks : s = IF t.kind = "put" THEN [t EXCEPT !.age = Older(@)] ELSE t
    BY <1>2, <2>1
  <2>3. t \in Task /\ t.kind = "put"
    <3>1. t \in Task
      BY DEF TableTypeOK
    <3>2. CASE t.kind # "put"
      BY <2>1, <2>2, <3>2
    <3> QED
      BY <3>1, <3>2
  <2>4. s.age = Older(t.age) /\ s.peer = t.peer
    <3>1. s = [t EXCEPT !.age = Older(@)]
      BY <2>2, <2>3
    <3> QED
      BY <2>3, <3>1, TaskTicks
  <2>5. t.age \in AgesOf(p)
    BY <2>1, <2>3, <2>4 DEF AgesOf, Writes
  <2> QED
    BY <2>1, <2>4, <2>5
<1> QED
  BY <1>3, <1>4 DEF AgesOf

\* No other step brings a peer that is gone an age that it had nowhere.
LEMMA GoneStep ==
    ASSUME TableTypeOK, [TableNext]_tableVars
    PROVE  GoneOnlyAge
<1> SUFFICES ASSUME NEW p \in gone, NEW a \in AgesOf(p)'
             PROVE  \E b \in AgesOf(p) : b <= a /\ (Tick => b < a \/ a = Oldest)
  BY DEF GoneOnlyAge
<1>0. p \in Peers
  BY DEF TableTypeOK
<1>1. CASE Tick
  BY <1>0, <1>1, TickAges
<1>2. SUFFICES ASSUME ~Tick PROVE AgesOf(p)' \subseteq AgesOf(p)
  BY <1>0, <1>1, <1>2, NoNewAge
<1>3. CASE tasks' \subseteq tasks /\ (registry'[p] = registry[p] \/ registry'[p] = Absent
                                      \/ registry'[p] = bucket[p])
                                  /\ (bucket'[p] = bucket[p] \/ bucket'[p] = Absent)
  BY <1>3 DEF AgesOf, Writes
<1>4. ASSUME NEW q \in Peers, Upsert(q) PROVE AgesOf(p)' \subseteq AgesOf(p)
  <2>1. q # p
    BY <1>4 DEF Upsert
  <2>2. PICK put : put = [kind |-> "put", peer |-> q, age |-> 0]
    OBVIOUS
  <2>3. tasks' \subseteq tasks \cup {put} /\ put.peer = q
    BY <1>4, <2>2 DEF Upsert
  <2>4. Writes(p)' \subseteq Writes(p)
    BY <2>1, <2>3 DEF Writes
  <2>5. registry'[p] = registry[p] /\ bucket'[p] = bucket[p]
    BY <1>0, <1>4, <2>1 DEF Upsert, TableTypeOK
  <2> QED
    BY <2>4, <2>5 DEF AgesOf
<1>5. ASSUME NEW t \in tasks, RunTask(t) PROVE AgesOf(p)' \subseteq AgesOf(p)
  <2>1. t \in Task /\ t.peer \in Peers
    BY TaskTyped DEF TableTypeOK
  <2>2. tasks' \subseteq tasks /\ registry' = registry /\ bucket' = [bucket EXCEPT ![t.peer] = Written(t)]
    BY <1>5 DEF RunTask
  <2>3. CASE t.peer # p
    BY <1>0, <1>3, <2>1, <2>2, <2>3 DEF TableTypeOK
  <2>4. CASE t.peer = p
    <3>1. bucket'[p] = Written(t)
      BY <1>0, <2>2, <2>4 DEF TableTypeOK
    <3>2. CASE t.kind = "put"
      <4>1. t.age \in AgesOf(p) /\ bucket'[p] = t.age
        BY <2>4, <3>1, <3>2 DEF AgesOf, Writes, Written
      <4> QED
        BY <2>2, <4>1 DEF AgesOf, Writes
    <3>3. CASE t.kind # "put"
      <4>1. bucket'[p] = Absent
        BY <3>1, <3>3 DEF Written
      <4> QED
        BY <1>3, <2>2, <4>1
    <3> QED
      BY <3>2, <3>3
  <2> QED
    BY <2>3, <2>4
<1>6. CASE PruneExpired
  <2>1. PICK pruned \in SUBSET Peers :
           /\ registry' = [q \in Peers |-> IF q \in pruned THEN Absent ELSE registry[q]]
           /\ tasks' = tasks \cup {[kind |-> "delete", peer |-> q, age |-> 0] : q \in pruned}
    BY <1>6 DEF PruneExpired
  <2>2. Writes(p)' \subseteq Writes(p)
    BY <2>1 DEF Writes
  <2>3. registry'[p] \in {registry[p], Absent} /\ bucket' = bucket
    BY <1>0, <1>6, <2>1 DEF PruneExpired
  <2> QED
    BY <2>2, <2>3 DEF AgesOf
<1>7. CASE Housekeeping
  BY <1>0, <1>3, <1>7 DEF Housekeeping, CollectStale, DeleteStale
<1>8. CASE Crash
  <2>1. registry'[p] = Absent /\ tasks' = {} /\ bucket' = bucket
    BY <1>0, <1>8 DEF Crash, Nothing
  <2> QED
    BY <1>3, <2>1
<1>9. CASE Restart
  BY <1>3, <1>9 DEF Restart
<1>10. ASSUME NEW q \in Peers, Leave(q) PROVE AgesOf(p)' \subseteq AgesOf(p)
  BY <1>3, <1>10 DEF Leave
<1>11. CASE UNCHANGED tableVars
  BY <1>3, <1>11 DEF tableVars
<1> QED
  BY <1>2, <1>4, <1>5, <1>6, <1>7, <1>8, <1>9, <1>10, <1>11 DEF TableNext

\* The safety core of GoneAreForgotten: whatever is still to be written when a
\* peer leaves, and whenever the daemon restarts, what is known of the peer only
\* grows older, so that registry and housekeeping will find it stale.
THEOREM GoneGrowOld == TableSpec => [][GoneOnlyAge]_tableVars
<1>1. TableInv => TableTypeOK
  BY DEF TableInv
<1> QED
  BY <1>1, GoneStep, TableInvariance, PTL DEF TableSpec

=============================================================================
