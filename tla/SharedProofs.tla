---------------------------- MODULE SharedProofs ----------------------------
(***************************************************************************)
(* Facts that the proofs share: about numbers, and about linked lists and  *)
(* the walks along their links.  Induction is an argument about the least  *)
(* number for which the claim could go wrong.                              *)
(***************************************************************************)
EXTENDS Chains, Integers, FiniteSetTheorems, SequenceTheorems, WellFoundedInduction, TLAPS

-----------------------------------------------------------------------------
(* Numbers *)

\* A set of numbers that is not empty has a least one.
LEMMA Least ==
    ASSUME NEW S \in SUBSET Nat, S # {}
    PROVE  \E m \in S : \A k \in S : m <= k
<1>1. PICK R : R = OpToRel(<, Nat) /\ IsWellFoundedOn(R, Nat)
  BY NatLessThanWellFounded
<1>2. R = {p \in Nat \X Nat : p[1] < p[2]}
  BY <1>1 DEF OpToRel
<1>3. PICK m \in S : \A k \in S : ~(<<k, m>> \in R)
  BY <1>1, WFMin
<1>4. ASSUME NEW k \in S PROVE m <= k
  <2>1. k \in Nat /\ m \in Nat
    OBVIOUS
  <2>2. k < m => <<k, m>> \in R
    BY <1>2, <2>1
  <2> QED
    BY <1>3, <2>1, <2>2
<1> QED
  BY <1>4

\* Quotient and remainder.
LEMMA Division ==
    ASSUME NEW a \in Nat, NEW b \in Nat \ {0}
    PROVE  \E q \in Nat : a = q * b + (a % b) /\ a % b \in 0..(b - 1)
<1>1. a = (a \div b) * b + (a % b)
  OBVIOUS
<1>2. a % b \in 0..(b - 1) /\ a \div b \in Int
  OBVIOUS
<1>3. \A m \in Int : m < 0 => m * b <= -b
  OBVIOUS
<1>4. a \div b \in Nat
  BY <1>1, <1>2, <1>3
<1> QED
  BY <1>1, <1>2, <1>4

\* A number written as quotient and remainder.
LEMMA Remainder ==
    ASSUME NEW b \in Nat \ {0}, NEW q \in Nat, NEW r \in 0..(b - 1)
    PROVE  (q * b + r) % b = r
OBVIOUS

\* Products, for the solver's sake.
LEMMA SumTimes ==
    ASSUME NEW b \in Nat, NEW p \in Int, NEW q \in Int
    PROVE  (p + q) * b = p * b + q * b /\ (p - q) * b = p * b - q * b
OBVIOUS

\* Nothing between 0 and b is a multiple of b.
LEMMA NoMultipleBetween ==
    ASSUME NEW b \in Nat \ {0}, NEW m \in Int
    PROVE  m * b \notin 1..(b - 1)
<1>1. CASE m >= 1
  <2>1. m * b >= b
    BY <1>1
  <2> QED
    BY <2>1
<1>2. CASE m <= 0
  <2>1. m * b <= 0
    BY <1>2
  <2> QED
    BY <2>1
<1> QED
  BY <1>1, <1>2

\* Multiples of a number, and their sums.
LEMMA Multiple ==
    ASSUME NEW b \in Nat \ {0}, NEW x \in Nat
    PROVE  x % b = 0 <=> \E q \in Nat : x = q * b
<1>1. ASSUME NEW q \in Nat, x = q * b PROVE x % b = 0
  <2>1. x = q * b + 0 /\ 0 \in 0..(b - 1)
    BY <1>1
  <2> QED
    BY <2>1, Remainder
<1>2. ASSUME x % b = 0 PROVE \E q \in Nat : x = q * b
  <2>1. PICK q \in Nat : x = q * b + (x % b)
    BY Division
  <2>2. x = q * b
    BY <1>2, <2>1
  <2> QED
    BY <2>2
<1> QED
  BY <1>1, <1>2

\* The sum of two multiples is one.
LEMMA MultiplesAdd ==
    ASSUME NEW b \in Nat \ {0}, NEW x \in Nat, NEW y \in Nat, x % b = 0, y % b = 0
    PROVE  (x + y) % b = 0
<1>1. PICK p \in Nat, q \in Nat : x = p * b /\ y = q * b
  BY Multiple
<1>2. p + q \in Nat /\ x + y = (p + q) * b
  BY <1>1, SumTimes
<1>3. x + y \in Nat
  OBVIOUS
<1> QED
  BY <1>2, <1>3, Multiple

\* Rounding down to a multiple.
LEMMA RoundedDown ==
    ASSUME NEW b \in Nat \ {0}, NEW x \in Nat
    PROVE  /\ x - (x % b) \in Nat /\ x - (x % b) <= x /\ x - (x % b) > x - b
           /\ (x - (x % b)) % b = 0
<1>1. PICK q \in Nat : x = q * b + (x % b) /\ x % b \in 0..(b - 1)
  BY Division
<1>2. PICK r \in 0..(b - 1) : r = x % b
  BY <1>1
<1>3. q * b \in Nat /\ x - r = q * b
  BY <1>1, <1>2
<1>4. (x - r) % b = 0
  BY <1>3, Multiple
<1> QED
  BY <1>2, <1>3, <1>4

\* Below b the remainder is the number itself: nothing wraps.
LEMMA SmallRemainder ==
    ASSUME NEW b \in Nat \ {0}, NEW x \in 0..(b - 1)
    PROVE  x % b = x
<1>1. x = 0 * b + x
  OBVIOUS
<1> QED
  BY <1>1, Remainder

\* A guard m <= a \div b keeps the product within a.
LEMMA ProductFits ==
    ASSUME NEW a \in Nat, NEW b \in Nat \ {0}, NEW m \in Nat, m <= a \div b
    PROVE  m * b \in Nat /\ m * b <= a
<1>1. PICK q \in Int, r \in Nat : q = a \div b /\ a = q * b + r
  <2>1. a = (a \div b) * b + (a % b) /\ a % b \in 0..(b - 1) /\ a \div b \in Int
    OBVIOUS
  <2> QED
    BY <2>1
<1>2. PICK d \in Nat : q = m + d
  BY <1>1
<1>3. q * b = m * b + d * b /\ d * b >= 0 /\ m * b \in Nat
  BY <1>2
<1> QED
  BY <1>1, <1>3

\* Rows of b places do not overlap.
LEMMA RowsApart ==
    ASSUME NEW b \in Nat, NEW i \in Nat, NEW k \in Nat, i < k
    PROVE  i * b \in Nat /\ k * b \in Nat /\ (i * b) + b <= k * b
<1>1. PICK d \in Nat : k = (i + 1) + d
  OBVIOUS
<1>2. k * b = (i * b + b) + d * b /\ d * b >= 0 /\ d * b \in Nat /\ i * b \in Nat
  BY <1>1
<1> QED
  BY <1>2

-----------------------------------------------------------------------------
(* Lists *)

\* s is the list that starts at h: it follows the links nx from node to node of
\* S, visits none twice and ends where a link leaves S.
Path(s, h, nx, S) ==
    /\ s \in Seq(S) /\ s # <<>> /\ s[1] = h
    /\ \A j, k \in 1..Len(s) : s[j] = s[k] => j = k
    /\ \A k \in 1..(Len(s) - 1) : nx[s[k]] = s[k + 1]
    /\ nx[s[Len(s)]] \notin S

OnPath(s) == {s[k] : k \in 1..Len(s)}

\* A list has no more nodes than there are.
LEMMA PathFits ==
    ASSUME NEW S, IsFiniteSet(S), NEW s, NEW h, NEW nx, Path(s, h, nx, S)
    PROVE  Len(s) \in 1..Cardinality(S)
<1>1. s \in [1..Len(s) -> S] /\ Len(s) \in Nat /\ Len(s) # 0
  BY LenProperties, EmptySeq DEF Path
<1>2. IsFiniteSet(1..Len(s)) /\ Cardinality(1..Len(s)) = Len(s)
  BY <1>1, FS_Interval
<1>3. IsFiniteSet(S) /\ Cardinality(S) \in Nat
  BY FS_CardinalityType
<1>4. ~(Cardinality(S) < Cardinality(1..Len(s)))
  <2>1. SUFFICES ASSUME Cardinality(S) < Cardinality(1..Len(s)) PROVE FALSE
    OBVIOUS
  <2>2. \E x, y \in 1..Len(s) : x # y /\ s[x] = s[y]
    BY <1>1, <1>2, <1>3, <2>1, FS_PigeonHole
  <2> QED
    BY <2>2 DEF Path
<1> QED
  BY <1>1, <1>2, <1>3, <1>4

\* The walk reaches one node more of the list with every step, up to its end.
LEMMA Walk ==
    ASSUME NEW S, NEW s, NEW h, NEW nx, Path(s, h, nx, S), NEW m \in 1..Len(s), NEW p,
           p = SubSeq(s, 1, m)
    PROVE  /\ p # <<>>
           /\ m < Len(s) => nx[p[Len(p)]] \in S /\ Append(p, nx[p[Len(p)]]) = SubSeq(s, 1, m + 1)
           /\ m = Len(s) => nx[p[Len(p)]] \notin S /\ p = s
<1>1. s \in Seq(S) /\ Len(s) \in Nat /\ \A i \in 1..Len(s) : s[i] \in S
  BY LenProperties, ElementOfSeq DEF Path
<1>2. p \in Seq(S) /\ Len(p) = m /\ \A i \in 1..m : p[i] = s[i]
  <2>1. \A i \in 1..m : s[i] \in S
    BY <1>1
  <2> QED
    BY <1>1, <2>1, SubSeqProperties
<1>3. p # <<>> /\ p[Len(p)] = s[m]
  BY <1>2, EmptySeq
<1>4. ASSUME m < Len(s)
      PROVE  nx[s[m]] \in S /\ Append(p, nx[s[m]]) = SubSeq(s, 1, m + 1)
  <2>1. PICK x \in S : x = nx[s[m]] /\ x = s[m + 1]
    BY <1>1, <1>4 DEF Path
  <2>2. PICK t : t = SubSeq(s, 1, m + 1)
    OBVIOUS
  <2>3. t \in Seq(S) /\ Len(t) = m + 1 /\ \A i \in 1..(m + 1) : t[i] = s[i]
    <3>1. \A i \in 1..(m + 1) : s[i] \in S
      BY <1>1, <1>4
    <3> QED
      BY <1>1, <1>4, <2>2, <3>1, SubSeqProperties
  <2>4. Append(p, x) \in Seq(S) /\ Len(Append(p, x)) = m + 1
        /\ \A i \in 1..(m + 1) : Append(p, x)[i] = s[i]
    BY <1>2, <2>1, AppendProperties
  <2>5. Append(p, x) = t
    BY <2>3, <2>4, SeqEqual
  <2> QED
    BY <2>1, <2>2, <2>5
<1>5. ASSUME m = Len(s) PROVE nx[s[m]] \notin S /\ p = s
  BY <1>1, <1>2, <1>5, SeqEqual DEF Path
<1> QED
  BY <1>3, <1>4, <1>5

\* A walk along a list collects the list: it is long enough, and its k-th turn
\* holds the first k + 1 nodes.
LEMMA AlongPath ==
    ASSUME NEW S, IsFiniteSet(S), NEW s, NEW h, NEW nx, Path(s, h, nx, S)
    PROVE  Along(h, nx, S) = s
<1>1. PICK N \in Nat : N = Cardinality(S)
  BY FS_CardinalityType
<1>2. PICK L \in 1..N : L = Len(s)
  BY <1>1, PathFits
<1>3. s \in Seq(S) /\ s[1] = h /\ h \in S
  BY EmptySeq, ElementOfSeq DEF Path
<1> DEFINE Further(p) == IF p = <<>> \/ nx[p[Len(p)]] \notin S THEN p
                         ELSE Append(p, nx[p[Len(p)]])
           Turns(c) == [k \in 0..N |-> IF k = 0 THEN IF h \in S THEN <<h>> ELSE <<>>
                                       ELSE Further(c[k - 1])]
           First(k) == IF k + 1 < L THEN k + 1 ELSE L
           f == [k \in 0..N |-> SubSeq(s, 1, First(k))]
           g == CHOOSE c : c = Turns(c)
<1>4. Along(h, nx, S) = g[N]
  BY <1>1 DEF Along
<1>5. f[0] = <<h>>
  <2>1. First(0) = 1
    OBVIOUS
  <2>2. SubSeq(s, 1, 1) \in Seq(S) /\ Len(SubSeq(s, 1, 1)) = 1 /\ SubSeq(s, 1, 1)[1] = h
    <3>1. \A i \in 1..1 : s[i] \in S
      BY <1>3
    <3>2. /\ SubSeq(s, 1, 1) \in Seq(S)
          /\ Len(SubSeq(s, 1, 1)) = IF 1 <= 1 THEN 1 - 1 + 1 ELSE 0
          /\ \A i \in 1..(1 - 1 + 1) : SubSeq(s, 1, 1)[i] = s[1 + i - 1]
      BY <3>1, SubSeqProperties
    <3> QED
      BY <1>3, <3>2
  <2>3. SubSeq(s, 1, 1) = <<h>>
    <3>1. <<h>> \in Seq(S) /\ Len(<<h>>) = 1 /\ <<h>>[1] = h
      BY <1>3
    <3>2. PICK u \in Seq(S) : u = SubSeq(s, 1, 1) /\ Len(u) = 1 /\ u[1] = h
      BY <2>2
    <3>3. PICK v \in Seq(S) : v = <<h>> /\ Len(v) = 1 /\ v[1] = h
      BY <3>1
    <3>4. u = v
      <4>1. \A i \in 1..Len(u) : u[i] = v[i]
        BY <3>2, <3>3
      <4> QED
        BY <3>2, <3>3, <4>1, SeqEqual
    <3> QED
      BY <3>2, <3>3, <3>4
  <2> QED
    BY <2>1, <2>3
<1>6. ASSUME NEW k \in 1..N PROVE Further(f[k - 1]) = f[k]
  <2>1. PICK m \in 1..L : m = First(k - 1)
    OBVIOUS
  <2>2. PICK p : p = f[k - 1]
    OBVIOUS
  <2>3. p = SubSeq(s, 1, m)
    BY <2>1, <2>2
  <2>4. f[k] = SubSeq(s, 1, IF m < L THEN m + 1 ELSE L)
    BY <2>1
  <2> HIDE DEF f, First
  <2>5. /\ p # <<>>
        /\ m < L => nx[p[Len(p)]] \in S /\ Append(p, nx[p[Len(p)]]) = SubSeq(s, 1, m + 1)
        /\ m = L => nx[p[Len(p)]] \notin S /\ p = s
    BY <1>2, <2>3, Walk
  <2>6. CASE m < L
    BY <2>2, <2>4, <2>5, <2>6
  <2>7. CASE m = L
    BY <2>2, <2>3, <2>4, <2>5, <2>7
  <2> QED
    BY <2>6, <2>7
<1>7. f = Turns(f)
  <2> HIDE DEF Further
  <2>1. ASSUME NEW k \in 0..N PROVE f[k] = Turns(f)[k]
    <3>1. CASE k = 0
      BY <1>3, <1>5, <3>1
    <3>2. CASE k # 0
      <4>1. k \in 1..N
        BY <3>2
      <4> HIDE DEF f
      <4> QED
        BY <1>6, <3>2, <4>1
    <3> QED
      BY <3>1, <3>2
  <2> QED
    BY <2>1
<1> HIDE DEF f
<1>8. g = Turns(g)
  BY <1>7
<1> HIDE DEF g, Further
<1>9. \A k \in 0..N : g[k] = f[k]
  <2> DEFINE D == {k \in 0..N : g[k] # f[k]}
  <2>1. SUFFICES ASSUME D # {} PROVE FALSE
    OBVIOUS
  <2>2. PICK k \in D : \A j \in D : k <= j
    <3>1. D \in SUBSET Nat
      OBVIOUS
    <3> HIDE DEF D
    <3> QED
      BY <2>1, <3>1, Least
  <2>3. CASE k = 0
    BY <1>3, <1>5, <1>8, <2>3
  <2>4. CASE k # 0
    <3>1. k \in 1..N /\ k - 1 \in 0..N
      BY <2>4
    <3>2. g[k - 1] = f[k - 1]
      BY <2>2, <3>1
    <3>3. g[k] = Further(g[k - 1])
      BY <1>8, <3>1
    <3> QED
      BY <1>6, <3>1, <3>2, <3>3
  <2> QED
    BY <2>3, <2>4
<1>10. f[N] = s
  <2>1. First(N) = L
    OBVIOUS
  <2> QED
    BY <1>2, <1>3, <2>1, SubSeqFull DEF f
<1> QED
  BY <1>4, <1>9, <1>10

\* A walk that starts outside collects nothing.
LEMMA AlongNothing ==
    ASSUME NEW S, IsFiniteSet(S), NEW h, h \notin S, NEW nx
    PROVE  Along(h, nx, S) = <<>>
<1>1. PICK N \in Nat : N = Cardinality(S)
  BY FS_CardinalityType
<1> DEFINE Further(p) == IF p = <<>> \/ nx[p[Len(p)]] \notin S THEN p
                         ELSE Append(p, nx[p[Len(p)]])
           Turns(c) == [k \in 0..N |-> IF k = 0 THEN IF h \in S THEN <<h>> ELSE <<>>
                                       ELSE Further(c[k - 1])]
           f == [k \in 0..N |-> <<>>]
           g == CHOOSE c : c = Turns(c)
<1>2. Along(h, nx, S) = g[N]
  BY <1>1 DEF Along
<1>3. f = Turns(f)
  <2>1. ASSUME NEW k \in 0..N PROVE f[k] = Turns(f)[k]
    <3>1. k # 0 => k - 1 \in 0..N
      OBVIOUS
    <3> QED
      BY <3>1
  <2> QED
    BY <2>1
<1>4. g = Turns(g)
  <2> HIDE DEF f, Further
  <2> QED
    BY <1>3
<1>5. Further(<<>>) = <<>>
  OBVIOUS
<1> HIDE DEF f, g, Further
<1>6. \A k \in 0..N : g[k] = <<>>
  <2> DEFINE D == {k \in 0..N : g[k] # <<>>}
  <2>1. SUFFICES ASSUME D # {} PROVE FALSE
    OBVIOUS
  <2>2. PICK k \in D : \A j \in D : k <= j
    <3>1. D \in SUBSET Nat
      OBVIOUS
    <3> HIDE DEF D
    <3> QED
      BY <2>1, <3>1, Least
  <2>3. CASE k = 0
    BY <1>4, <2>3
  <2>4. CASE k # 0
    <3>1. k \in 1..N /\ k - 1 \in 0..N
      BY <2>4
    <3>2. g[k - 1] = <<>>
      BY <2>2, <3>1
    <3>3. g[k] = Further(g[k - 1])
      BY <1>4, <3>1
    <3> QED
      BY <1>5, <3>2, <3>3
  <2> QED
    BY <2>3, <2>4
<1> QED
  BY <1>2, <1>6

-----------------------------------------------------------------------------
(* What the operations do to a list *)

\* The places of a list, and when its head is its last node.
LEMMA PathEnds ==
    ASSUME NEW S, NEW s, NEW h, NEW nx, Path(s, h, nx, S)
    PROVE  /\ Len(s) \in Nat \ {0} /\ h \in S /\ OnPath(s) \subseteq S
           /\ h \in OnPath(s) /\ s[Len(s)] \in OnPath(s)
           /\ nx[h] \notin S <=> Len(s) = 1
           /\ Len(s) > 1 => nx[h] = s[2] /\ s[2] \in OnPath(s)
<1>1. s \in Seq(S) /\ s[1] = h /\ nx[s[Len(s)]] \notin S
  BY DEF Path
<1>2. PICK L \in Nat \ {0} : L = Len(s)
  BY EmptySeq DEF Path
<1>3. \A k \in 1..L : s[k] \in S /\ s[k] \in OnPath(s)
  BY <1>1, <1>2, ElementOfSeq DEF OnPath
<1>4. L > 1 => nx[h] = s[2] /\ s[2] \in OnPath(s) /\ s[2] \in S
  <2>1. L > 1 => 1 \in 1..(L - 1) /\ 2 \in 1..L
    BY <1>2
  <2>2. \A k \in 1..(L - 1) : nx[s[k]] = s[k + 1]
    BY <1>2 DEF Path
  <2>3. L > 1 => nx[s[1]] = s[1 + 1]
    BY <2>1, <2>2
  <2> QED
    BY <1>1, <1>3, <2>1, <2>3
<1>5. 1 \in 1..L /\ L \in 1..L /\ (L = 1 \/ L > 1)
  BY <1>2
<1> QED
  BY <1>1, <1>2, <1>3, <1>4, <1>5 DEF OnPath

\* Links of other nodes do not matter.
LEMMA PathKept ==
    ASSUME NEW S, NEW s, NEW h, NEW nx, Path(s, h, nx, S), NEW nx2,
           \A n \in OnPath(s) : nx2[n] = nx[n]
    PROVE  Path(s, h, nx2, S)
<1>1. \A k \in 1..Len(s) : s[k] \in OnPath(s)
  BY DEF OnPath
<1>2. Len(s) \in Nat \ {0}
  BY PathEnds
<1>3. \A k \in 1..(Len(s) - 1) : k \in 1..Len(s)
  BY <1>2
<1>4. Len(s) \in 1..Len(s)
  BY <1>2
<1> QED
  BY <1>1, <1>3, <1>4 DEF Path

\* A node alone is a list.
LEMMA PathOfOne ==
    ASSUME NEW S, NEW n \in S, NEW nx, nx[n] \notin S
    PROVE  Path(<<n>>, n, nx, S) /\ OnPath(<<n>>) = {n} /\ <<n>> \in Seq(S)
<1>1. <<n>> \in Seq(S) /\ Len(<<n>>) = 1 /\ <<n>>[1] = n /\ <<n>> # <<>>
  OBVIOUS
<1>2. PICK s \in Seq(S) : s = <<n>> /\ Len(s) = 1 /\ s[1] = n /\ s # <<>>
  BY <1>1
<1>3. Path(s, n, nx, S) /\ OnPath(s) = {n}
  <2>1. \A j \in 1..1 : j = 1
    OBVIOUS
  <2>2. \A k \in 1..(Len(s) - 1) : nx[s[k]] = s[k + 1]
    BY <1>2
  <2>3. OnPath(s) = {n}
    BY <1>2, <2>1 DEF OnPath
  <2> QED
    BY <1>2, <2>1, <2>2, <2>3 DEF Path
<1> QED
  BY <1>2, <1>3

\* Linking a fresh node to the last one appends it.
LEMMA PathGrows ==
    ASSUME NEW S, NEW s, NEW h, NEW nx, Path(s, h, nx, S),
           NEW n \in S, n \notin OnPath(s),
           NEW nx2, nx2[s[Len(s)]] = n, nx2[n] \notin S,
           \A m \in OnPath(s) : m # s[Len(s)] => nx2[m] = nx[m]
    PROVE  /\ Path(Append(s, n), h, nx2, S)
           /\ Append(s, n) \in Seq(S)
           /\ Len(Append(s, n)) = Len(s) + 1 /\ Append(s, n)[Len(s) + 1] = n
           /\ \A k \in 1..Len(s) : Append(s, n)[k] = s[k]
           /\ OnPath(Append(s, n)) = OnPath(s) \cup {n}
<1>1. PICK L \in Nat \ {0} : L = Len(s)
  BY EmptySeq DEF Path
<1>2. s \in Seq(S) /\ \A k \in 1..L : s[k] \in S /\ s[k] # n
  BY <1>1, ElementOfSeq DEF Path, OnPath
<1>3. PICK t \in Seq(S) : t = Append(s, n)
  BY <1>2, AppendProperties
<1>4. Len(t) = L + 1 /\ t[L + 1] = n /\ \A k \in 1..L : t[k] = s[k]
  BY <1>1, <1>2, <1>3, AppendProperties
<1>5. nx2[s[L]] = n /\ nx2[n] \notin S /\ \A k \in 1..L : s[k] # s[L] => nx2[s[k]] = nx[s[k]]
  BY <1>1 DEF OnPath
<1>6. OnPath(t) = OnPath(s) \cup {n}
  <2>1. \A k \in 1..(L + 1) : k \in 1..L \/ k = L + 1
    BY <1>1
  <2>2. \A k \in 1..L : k \in 1..(L + 1)
    BY <1>1
  <2>3. L + 1 \in 1..(L + 1)
    BY <1>1
  <2> QED
    BY <1>1, <1>4, <2>1, <2>2, <2>3 DEF OnPath
<1>7. \A j, k \in 1..(L + 1) : t[j] = t[k] => j = k
  <2>1. \A j, k \in 1..L : s[j] = s[k] => j = k
    BY <1>1 DEF Path
  <2>2. \A k \in 1..(L + 1) : k \in 1..L \/ k = L + 1
    BY <1>1
  <2> QED
    BY <1>2, <1>4, <2>1, <2>2
<1>8. ASSUME NEW k \in 1..L PROVE nx2[t[k]] = t[k + 1]
  <2>1. CASE k = L
    BY <1>4, <1>5, <2>1
  <2>2. CASE k # L
    <3>1. k \in 1..(L - 1) /\ k + 1 \in 1..L /\ L \in 1..L
      BY <1>1, <2>2
    <3>2. nx[s[k]] = s[k + 1] /\ s[k] # s[L]
      BY <1>1, <2>2, <3>1 DEF Path
    <3> QED
      BY <1>2, <1>4, <1>5, <3>1, <3>2
  <2> QED
    BY <2>1, <2>2
<1>9. t[1] = h /\ t # <<>>
  <2>1. 1 \in 1..L /\ L + 1 # 0
    BY <1>1
  <2> QED
    BY <1>4, <2>1, EmptySeq DEF Path
<1>10. Path(t, h, nx2, S)
  <2>1. (L + 1) - 1 = L
    BY <1>1
  <2> QED
    BY <1>4, <1>5, <1>7, <1>8, <1>9, <2>1 DEF Path
<1> QED
  BY <1>1, <1>3, <1>4, <1>6, <1>10

\* The last link of s now leads to n, the other ones lead where they did.
LinkedAfter(s, n, nx, nx2, S) ==
    /\ nx2[s[Len(s)]] = n /\ nx2[n] \notin S
    /\ \A m \in OnPath(s) : m # s[Len(s)] => nx2[m] = nx[m]

\* A list to which n has been appended.
LEMMA PathGrown ==
    ASSUME NEW S, NEW s, NEW h, NEW nx, NEW nx2, NEW n \in S,
           Path(s, h, nx, S), n \notin OnPath(s), LinkedAfter(s, n, nx, nx2, S)
    PROVE  Path(Append(s, n), h, nx2, S)
<1>1. /\ nx2[s[Len(s)]] = n /\ nx2[n] \notin S
      /\ \A m \in OnPath(s) : m # s[Len(s)] => nx2[m] = nx[m]
  BY Zenon DEF LinkedAfter
<1> QED
  BY <1>1, PathGrows

\* Without its first node a list is the rest of the list.
LEMMA PathShrinks ==
    ASSUME NEW S, NEW s, NEW h, NEW nx, Path(s, h, nx, S), Len(s) > 1
    PROVE  /\ Path(Tail(s), s[2], nx, S) /\ Tail(s) \in Seq(S)
           /\ Len(Tail(s)) = Len(s) - 1 /\ \A k \in 1..(Len(s) - 1) : Tail(s)[k] = s[k + 1]
           /\ OnPath(s) = OnPath(Tail(s)) \cup {h} /\ h \notin OnPath(Tail(s))
<1>1. PICK L \in Nat \ {0, 1} : L = Len(s)
  BY EmptySeq DEF Path
<1>2. s \in Seq(S) /\ s # <<>> /\ s[1] = h
  BY DEF Path
<1>3. PICK t \in Seq(S) : t = Tail(s)
  BY <1>2, HeadTailProperties
<1>4. Len(t) = L - 1 /\ \A k \in 1..(L - 1) : t[k] = s[k + 1]
  BY <1>1, <1>2, <1>3, HeadTailProperties
<1>5. \A k \in 1..(L - 1) : k + 1 \in 2..L
  BY <1>1
<1>6. \A k \in 1..L : k = 1 \/ (k - 1 \in 1..(L - 1) /\ (k - 1) + 1 = k)
  BY <1>1
<1>7. \A j, k \in 1..L : s[j] = s[k] => j = k
  BY <1>1 DEF Path
<1>8. OnPath(s) = OnPath(t) \cup {h}
  <2>1. \A k \in 1..(L - 1) : k + 1 \in 1..L
    BY <1>1
  <2>2. 1 \in 1..L
    BY <1>1
  <2>3. OnPath(t) \cup {h} \subseteq OnPath(s)
    BY <1>1, <1>2, <1>4, <2>1, <2>2 DEF OnPath
  <2>4. ASSUME NEW k \in 1..L PROVE s[k] \in OnPath(t) \cup {h}
    <3>1. CASE k = 1
      BY <1>2, <3>1
    <3>2. CASE k # 1
      <4>1. k - 1 \in 1..(L - 1) /\ t[k - 1] = s[k]
        BY <1>4, <1>6, <3>2
      <4> QED
        BY <1>4, <4>1 DEF OnPath
    <3> QED
      BY <3>1, <3>2
  <2> QED
    BY <1>1, <2>3, <2>4 DEF OnPath
<1>9. h \notin OnPath(t)
  <2>1. ASSUME NEW k \in 1..(L - 1), h = t[k] PROVE FALSE
    <3>1. k + 1 \in 1..L /\ 1 \in 1..L /\ k + 1 # 1
      BY <1>1
    <3>2. s[k + 1] = s[1]
      BY <1>2, <1>4, <2>1
    <3> QED
      BY <1>7, <3>1, <3>2
  <2> QED
    BY <1>4, <2>1 DEF OnPath
<1>10. Path(t, s[2], nx, S)
  <2>1. t # <<>> /\ t[1] = s[2]
    <3>1. 1 \in 1..(L - 1) /\ L - 1 # 0
      BY <1>1
    <3>2. t[1] = s[1 + 1]
      BY <1>4, <3>1
    <3> QED
      BY <1>4, <3>1, <3>2, EmptySeq
  <2>2. ASSUME NEW j \in 1..(L - 1), NEW k \in 1..(L - 1), t[j] = t[k] PROVE j = k
    <3>1. j + 1 \in 1..L /\ k + 1 \in 1..L
      BY <1>1
    <3>2. j + 1 = k + 1
      BY <1>4, <1>7, <2>2, <3>1
    <3> QED
      BY <3>2
  <2>3. ASSUME NEW k \in 1..((L - 1) - 1) PROVE nx[t[k]] = t[k + 1]
    <3>1. k \in 1..(L - 1) /\ k + 1 \in 1..(L - 1)
      BY <1>1
    <3>2. nx[s[k + 1]] = s[(k + 1) + 1]
      BY <1>1, <3>1 DEF Path
    <3> QED
      BY <1>4, <3>1, <3>2
  <2>4. nx[t[L - 1]] \notin S
    <3>1. L - 1 \in 1..(L - 1) /\ (L - 1) + 1 = L
      BY <1>1
    <3>2. t[L - 1] = s[L]
      BY <1>4, <3>1
    <3> QED
      BY <1>1, <3>2 DEF Path
  <2> QED
    BY <1>4, <2>1, <2>2, <2>3, <2>4 DEF Path
<1> QED
  BY <1>1, <1>3, <1>4, <1>8, <1>9, <1>10

\* A fresh node that links to the first one comes before the list.
LEMMA PathPrepends ==
    ASSUME NEW S, NEW s, NEW h, NEW nx, Path(s, h, nx, S),
           NEW n \in S, n \notin OnPath(s),
           NEW nx2, nx2[n] = h, \A m \in OnPath(s) : nx2[m] = nx[m]
    PROVE  /\ Path(<<n>> \o s, n, nx2, S) /\ <<n>> \o s \in Seq(S)
           /\ Len(<<n>> \o s) = Len(s) + 1 /\ (<<n>> \o s)[1] = n
           /\ \A k \in 1..Len(s) : (<<n>> \o s)[k + 1] = s[k]
           /\ OnPath(<<n>> \o s) = {n} \cup OnPath(s)
<1>1. PICK L \in Nat \ {0} : L = Len(s)
  BY EmptySeq DEF Path
<1>2. s \in Seq(S) /\ s[1] = h /\ \A k \in 1..L : s[k] \in OnPath(s) /\ s[k] # n
  BY <1>1 DEF Path, OnPath
<1>3. PICK t \in Seq(S) : t = <<n>> \o s
  <2>1. <<n>> \in Seq(S)
    OBVIOUS
  <2> QED
    BY <1>2, <2>1, ConcatProperties
<1>4. Len(t) = L + 1 /\ t[1] = n /\ \A k \in 1..L : t[k + 1] = s[k]
  <2>1. <<n>> \in Seq(S) /\ Len(<<n>>) = 1 /\ <<n>>[1] = n
    OBVIOUS
  <2>2. PICK u \in Seq(S) : u = <<n>> /\ Len(u) = 1 /\ u[1] = n
    BY <2>1
  <2>3. /\ Len(u \o s) = Len(u) + Len(s)
        /\ \A i \in 1..(Len(u) + Len(s)) : (u \o s)[i] = IF i <= Len(u) THEN u[i] ELSE s[i - Len(u)]
    BY <1>2, ConcatProperties
  <2>4. Len(t) = L + 1 /\ \A i \in 1..(L + 1) : t[i] = IF i <= 1 THEN u[i] ELSE s[i - 1]
    BY <1>1, <1>3, <2>2, <2>3
  <2>5. ASSUME NEW k \in 1..L PROVE t[k + 1] = s[k]
    <3>1. k + 1 \in 1..(L + 1) /\ ~(k + 1 <= 1) /\ (k + 1) - 1 = k
      BY <1>1
    <3> QED
      BY <2>4, <3>1
  <2>6. 1 \in 1..(L + 1)
    BY <1>1
  <2> QED
    BY <2>2, <2>4, <2>5, <2>6
<1>5. \A k \in 1..(L + 1) : k = 1 \/ (k - 1 \in 1..L /\ (k - 1) + 1 = k)
  BY <1>1
<1>6. ASSUME NEW k \in 1..(L + 1), k # 1 PROVE k - 1 \in 1..L /\ t[k] = s[k - 1]
  BY <1>4, <1>5, <1>6
<1>7. OnPath(t) = {n} \cup OnPath(s)
  <2>1. \A k \in 1..L : k + 1 \in 1..(L + 1)
    BY <1>1
  <2>2. 1 \in 1..(L + 1)
    BY <1>1
  <2>3. {n} \cup OnPath(s) \subseteq OnPath(t)
    BY <1>1, <1>4, <2>1, <2>2 DEF OnPath
  <2>4. ASSUME NEW k \in 1..(L + 1) PROVE t[k] \in {n} \cup OnPath(s)
    <3>1. CASE k = 1
      BY <1>4, <3>1
    <3>2. CASE k # 1
      BY <1>2, <1>6, <3>2
    <3> QED
      BY <3>1, <3>2
  <2>5. ASSUME NEW x \in OnPath(t) PROVE x \in {n} \cup OnPath(s)
    <3>1. PICK k \in 1..(L + 1) : x = t[k]
      BY <1>4 DEF OnPath
    <3> QED
      BY <2>4, <3>1
  <2> QED
    BY <2>3, <2>5
<1>8. ASSUME NEW j \in 1..(L + 1), NEW k \in 1..(L + 1), t[j] = t[k] PROVE j = k
  <2>1. \A a, b \in 1..L : s[a] = s[b] => a = b
    BY <1>1 DEF Path
  <2>2. CASE j = 1 \/ k = 1
    <3>1. \A a \in 1..(L + 1) : a # 1 => t[a] # n
      BY <1>2, <1>6
    <3> QED
      BY <1>4, <1>8, <2>2, <3>1
  <2>3. CASE j # 1 /\ k # 1
    <3>1. j - 1 = k - 1
      <4>1. j - 1 \in 1..L /\ t[j] = s[j - 1]
        BY <1>6, <2>3
      <4>2. k - 1 \in 1..L /\ t[k] = s[k - 1]
        BY <1>6, <2>3
      <4> QED
        BY <1>8, <2>1, <4>1, <4>2
    <3> QED
      BY <3>1
  <2> QED
    BY <2>2, <2>3
<1>9. ASSUME NEW k \in 1..L PROVE nx2[t[k]] = t[k + 1]
  <2>1. CASE k = 1
    BY <1>2, <1>4, <2>1
  <2>2. CASE k # 1
    <3>1. k \in 1..(L + 1) /\ k - 1 \in 1..(L - 1) /\ k - 1 \in 1..L /\ (k - 1) + 1 = k
      BY <1>1, <2>2
    <3>2. t[k] = s[k - 1] /\ t[k + 1] = s[k]
      BY <1>4, <1>6, <2>2, <3>1
    <3>3. nx[s[k - 1]] = s[k]
      BY <1>1, <3>1 DEF Path
    <3> QED
      BY <1>2, <3>1, <3>2, <3>3
  <2> QED
    BY <2>1, <2>2
<1>10. nx2[t[L + 1]] \notin S
  <2>1. L \in 1..L /\ L + 1 # 1
    BY <1>1
  <2>2. t[L + 1] = s[L]
    BY <1>4, <2>1
  <2>3. nx[s[L]] \notin S
    BY <1>1 DEF Path
  <2> QED
    BY <1>2, <2>1, <2>2, <2>3
<1>11. Path(t, n, nx2, S)
  <2>1. t # <<>> /\ (L + 1) - 1 = L
    BY <1>1, <1>4, EmptySeq
  <2> QED
    BY <1>4, <1>8, <1>9, <1>10, <2>1 DEF Path
<1> QED
  BY <1>1, <1>3, <1>4, <1>7, <1>11
=============================================================================
