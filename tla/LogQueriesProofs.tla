-------------------------- MODULE LogQueriesProofs --------------------------
(***************************************************************************)
(* Theorems about LogQueries, for any requests, any limit, any ring and    *)
(* any number of lines: what a query answers while the file grows under    *)
(* it, and what a follower cannot miss.                                    *)
(*                                                                         *)
(* First come facts about InOrder, which is what the file, its lines in    *)
(* the window and its matches are made of; then the file as it grows;      *)
(* then the invariant: what get_logs has kept and sent (GetInv), and that  *)
(* the answers and the open matches of grep_logs together are what grep    *)
(* is to answer of the lines read so far (GrepInv).                        *)
(***************************************************************************)
EXTENDS LogQueries, FiniteSetTheorems, TLAPS

-----------------------------------------------------------------------------
(* Minima.                                                                 *)

LEMMA MinOfTwo ==
  ASSUME NEW a \in Nat, NEW b \in Nat
  PROVE  Min({a, b}) = IF a <= b THEN a ELSE b
<1>1. CASE a <= b
  <2>1. a \in {a, b} /\ \A y \in {a, b} : a =< y
    BY <1>1
  <2>2. \A x \in {a, b} : (\A y \in {a, b} : x =< y) => x = a
    BY <1>1
  <2> QED
    BY <1>1, <2>1, <2>2 DEF Min
<1>2. CASE ~ (a <= b)
  <2>1. b \in {a, b} /\ \A y \in {a, b} : b =< y
    BY <1>2
  <2>2. \A x \in {a, b} : (\A y \in {a, b} : x =< y) => x = b
    BY <1>2
  <2> QED
    BY <1>2, <2>1, <2>2 DEF Min
<1> QED
  BY <1>1, <1>2

-----------------------------------------------------------------------------
(* InOrder.                                                                *)

Elems(s) == {s[n] : n \in DOMAIN s}

Rising(s) == \A m, n \in DOMAIN s : m < n => s[m] < s[n]

Below(I, n) == {m \in I : m < n}

LEMMA BelowIs ==
  ASSUME NEW I \in SUBSET Nat, IsFiniteSet(I), NEW n \in Nat
  PROVE  IsFiniteSet(Below(I, n)) /\ Cardinality(Below(I, n)) \in Nat
<1>1. Below(I, n) \in SUBSET I
  BY DEF Below
<1> QED
  BY <1>1, FS_Subset, FS_CardinalityType

LEMMA BelowGrows ==
  ASSUME NEW I \in SUBSET Nat, IsFiniteSet(I), NEW m \in I, NEW n \in Nat, m < n
  PROVE  Cardinality(Below(I, m)) < Cardinality(Below(I, n))
<1>1. Below(I, m) \in SUBSET Below(I, n)
  <2>1. \A x \in I : x < m => x < n
    <3>1. \A x, y, z \in Nat : x < y /\ y < z => x < z
      OBVIOUS
    <3> QED
      BY <3>1
  <2> QED
    BY <2>1 DEF Below
<1>2. m \in Below(I, n) /\ m \notin Below(I, m)
  BY DEF Below
<1>3. m \in Nat
  OBVIOUS
<1>4. /\ IsFiniteSet(Below(I, n))
      /\ Cardinality(Below(I, m)) \in Nat /\ Cardinality(Below(I, n)) \in Nat
  BY <1>3, BelowIs
<1>5. /\ Cardinality(Below(I, m)) <= Cardinality(Below(I, n))
      /\ Cardinality(Below(I, n)) = Cardinality(Below(I, m)) => Below(I, n) = Below(I, m)
  BY <1>1, <1>4, FS_Subset
<1>6. Below(I, n) # Below(I, m)
  BY <1>2
<1> QED
  BY <1>4, <1>5, <1>6

(* A member is where as many are below it. *)
LEMMA AtRank ==
  ASSUME NEW I \in SUBSET Nat, IsFiniteSet(I), NEW n \in I,
         NEW k \in 1 .. Cardinality(I), Cardinality(Below(I, n)) = k - 1
  PROVE  InOrder(I)[k] = n
<1> DEFINE P(x) == Cardinality({m \in I : m < x}) = k - 1
<1>1. P(n)
  <2>1. {m \in I : m < n} = Below(I, n)
    BY DEF Below
  <2> QED
    BY <2>1
<1>2. ASSUME NEW x \in I, P(x) PROVE x = n
  <2>1. x \in Nat /\ n \in Nat /\ Cardinality(Below(I, x)) = k - 1
    BY <1>2 DEF Below
  <2>2. ~ (x < n) /\ ~ (n < x)
    BY <2>1, BelowGrows
  <2> QED
    BY <2>1, <2>2
<1>3. InOrder(I)[k] = CHOOSE x \in I : P(x)
  BY DEF InOrder
<1> HIDE DEF P
<1> QED
  BY <1>1, <1>2, <1>3

LEMMA EveryRank ==
  ASSUME NEW I \in SUBSET Nat, IsFiniteSet(I), NEW k \in 1 .. Cardinality(I)
  PROVE  \E n \in I : Cardinality(Below(I, n)) = k - 1
<1> DEFINE C == Cardinality(I)
           f == [n \in I |-> Cardinality(Below(I, n)) + 1]
<1>1. C \in Nat
  BY FS_CardinalityType
<1>2. ASSUME NEW n \in I PROVE f[n] \in 1 .. C
  <2>1. Below(I, n) \in SUBSET I /\ n \notin Below(I, n) /\ n \in Nat
    BY DEF Below
  <2>2. Below(I, n) # I
    BY <2>1
  <2>3. Cardinality(Below(I, n)) \in Nat
    BY <2>1, BelowIs
  <2>4. /\ Cardinality(Below(I, n)) <= C
        /\ C = Cardinality(Below(I, n)) => I = Below(I, n)
    BY <2>1, FS_Subset
  <2> QED
    BY <1>1, <2>2, <2>3, <2>4
<1>3. ASSUME NEW m \in I, NEW n \in I, f[m] = f[n] PROVE m = n
  <2>1. m \in Nat /\ n \in Nat
    OBVIOUS
  <2>2. Cardinality(Below(I, m)) \in Nat /\ Cardinality(Below(I, n)) \in Nat
    BY <2>1, BelowIs
  <2>3. Cardinality(Below(I, m)) = Cardinality(Below(I, n))
    BY <1>3, <2>2
  <2>4. ~ (m < n) /\ ~ (n < m)
    BY <2>1, <2>2, <2>3, BelowGrows
  <2> QED
    BY <2>1, <2>4
<1>4. f \in Injection(I, 1 .. C)
  <2>1. f \in [I -> 1 .. C]
    BY <1>2
  <2>2. \A m, n \in I : f[m] = f[n] => m = n
    BY <1>3
  <2> HIDE DEF f, C
  <2> QED
    BY <2>1, <2>2 DEF Injection, IsInjective
<1>5. IsFiniteSet(1 .. C) /\ Cardinality(1 .. C) = C
  BY <1>1, FS_Interval
<1>6. f \in Surjection(I, 1 .. C)
  BY <1>4, <1>5, FS_Injection
<1>7. PICK n \in I : f[n] = k
  <2> HIDE DEF f, C
  <2> QED BY <1>6 DEF Surjection, C
<1>8. Cardinality(Below(I, n)) \in Nat
  BY BelowIs
<1> QED
  BY <1>7, <1>8

LEMMA OrderFunction ==
  ASSUME NEW I
  PROVE  InOrder(I) = [k \in 1 .. Cardinality(I) |-> InOrder(I)[k]]
<1> DEFINE r(k) == CHOOSE n \in I : Cardinality({m \in I : m < n}) = k - 1
<1>1. InOrder(I) = [k \in 1 .. Cardinality(I) |-> r(k)]
  BY Zenon DEF InOrder
<1> HIDE DEF r
<1>2. \A k \in 1 .. Cardinality(I) : InOrder(I)[k] = r(k)
  BY <1>1
<1> QED
  BY <1>1, <1>2

(* InOrder(I) is the members of I, each once, in their order. *)
LEMMA InOrderIs ==
  ASSUME NEW I \in SUBSET Nat, IsFiniteSet(I)
  PROVE  /\ InOrder(I) \in Seq(I) /\ InOrder(I) \in Seq(Nat)
         /\ Len(InOrder(I)) = Cardinality(I) /\ Cardinality(I) \in Nat
         /\ DOMAIN InOrder(I) = 1 .. Cardinality(I)
         /\ Rising(InOrder(I)) /\ Elems(InOrder(I)) = I
<1> DEFINE s == InOrder(I)
           C == Cardinality(I)
<1>1. C \in Nat /\ DOMAIN s = 1 .. C
  BY FS_CardinalityType DEF InOrder
<1>2. ASSUME NEW k \in 1 .. C
      PROVE  s[k] \in I /\ s[k] \in Nat /\ Cardinality(Below(I, s[k])) = k - 1
  <2>1. PICK n \in I : Cardinality(Below(I, n)) = k - 1
    BY EveryRank
  <2>2. s[k] = n
    BY <2>1, AtRank
  <2> QED
    BY <2>1, <2>2
<1>3. ASSUME NEW m \in 1 .. C, NEW n \in 1 .. C, m < n PROVE s[m] < s[n]
  <2>1. s[m] \in I /\ s[n] \in I /\ s[m] \in Nat /\ s[n] \in Nat
    BY <1>2
  <2>2. Cardinality(Below(I, s[m])) = m - 1 /\ Cardinality(Below(I, s[n])) = n - 1
    BY <1>2
  <2>3. m - 1 < n - 1 /\ m \in Nat /\ n \in Nat
    BY <1>3
  <2>4. s[n] < s[m] => n - 1 < m - 1
    BY <2>1, <2>2, BelowGrows
  <2> HIDE DEF s
  <2> QED
    BY <2>1, <2>2, <2>3, <2>4
<1>4. ASSUME NEW n \in I PROVE \E k \in 1 .. C : s[k] = n
  <2>1. Below(I, n) \in SUBSET I /\ n \notin Below(I, n) /\ n \in Nat
    BY DEF Below
  <2>2. Below(I, n) # I
    BY <2>1
  <2>3. Cardinality(Below(I, n)) \in Nat
    BY <2>1, BelowIs
  <2>4. /\ Cardinality(Below(I, n)) <= C
        /\ C = Cardinality(Below(I, n)) => I = Below(I, n)
    BY <2>1, FS_Subset
  <2>5. Cardinality(Below(I, n)) + 1 \in 1 .. C
    BY <1>1, <2>2, <2>3, <2>4
  <2>6. s[Cardinality(Below(I, n)) + 1] = n
    <3> DEFINE k == Cardinality(Below(I, n)) + 1
    <3>1. k \in 1 .. C /\ Cardinality(Below(I, n)) = k - 1
      BY <2>3, <2>5
    <3> HIDE DEF k
    <3>2. s[k] = n
      BY <3>1, AtRank
    <3> QED BY <3>2 DEF k
  <2> QED
    BY <2>5, <2>6
<1>5. s = [k \in 1 .. C |-> s[k]]
  BY OrderFunction
<1> HIDE DEF s, C
<1>6. s \in Seq(I) /\ s \in Seq(Nat)
  BY <1>1, <1>2, <1>5
<1>7. Len(s) = C
  BY <1>1, <1>6
<1>8. Rising(s)
  BY <1>1, <1>3 DEF Rising
<1>9. Elems(s) = I
  BY <1>1, <1>2, <1>4 DEF Elems
<1> QED
  BY <1>1, <1>6, <1>7, <1>8, <1>9 DEF s, C

(* A rising sequence is its members in order. *)
LEMMA RisingIs ==
  ASSUME NEW s \in Seq(Nat), Rising(s)
  PROVE  /\ IsFiniteSet(Elems(s)) /\ Elems(s) \in SUBSET Nat
         /\ Cardinality(Elems(s)) = Len(s) /\ InOrder(Elems(s)) = s
<1> DEFINE L == Len(s)
           I == Elems(s)
<1>1. L \in Nat /\ DOMAIN s = 1 .. L /\ s \in [1 .. L -> Nat]
  OBVIOUS
<1>2. \A m, n \in 1 .. L : m < n => s[m] < s[n]
  BY <1>1 DEF Rising
<1>3. \A m, n \in 1 .. L : s[m] = s[n] => m = n
  BY <1>1, <1>2
<1>4. ASSUME NEW k \in 0 .. L
      PROVE  LET T == {s[j] : j \in 1 .. k} IN IsFiniteSet(T) /\ Cardinality(T) = k
  <2> DEFINE T == {s[j] : j \in 1 .. k}
             g == [j \in 1 .. k |-> s[j]]
  <2>1. IsFiniteSet(1 .. k) /\ Cardinality(1 .. k) = k
    BY FS_Interval
  <2>2. g \in Bijection(1 .. k, T)
    <3>1. g \in [1 .. k -> T]
      OBVIOUS
    <3>2. \A m, n \in 1 .. k : g[m] = g[n] => m = n
      BY <1>1, <1>3
    <3>3. \A t \in T : \E j \in 1 .. k : g[j] = t
      OBVIOUS
    <3> HIDE DEF g, T
    <3> QED
      BY <3>1, <3>2, <3>3 DEF Bijection, Injection, IsInjective, Surjection
  <2>3. ExistsBijection(1 .. k, T)
    <3> HIDE DEF g, T
    <3> QED BY <2>2 DEF ExistsBijection
  <2> HIDE DEF T
  <2>4. IsFiniteSet(T) /\ Cardinality(T) = k
    BY <2>1, <2>3, FS_Bijection
  <2> QED
    BY <2>4 DEF T
<1>5. I = {s[j] : j \in 1 .. L}
  BY <1>1 DEF Elems
<1>6. IsFiniteSet(I) /\ Cardinality(I) = L
  <2>1. L \in 0 .. L
    BY <1>1
  <2>2. LET T == {s[j] : j \in 1 .. L} IN IsFiniteSet(T) /\ Cardinality(T) = L
    <3> HIDE DEF L, I
    <3> QED BY <2>1, <1>4
  <2> HIDE DEF L, I
  <2> QED
    BY <2>2, <1>5
<1>7. I \in SUBSET Nat
  BY <1>1, <1>5
<1>8. ASSUME NEW k \in 1 .. L PROVE InOrder(I)[k] = s[k]
  <2>1. Below(I, s[k]) = {s[j] : j \in 1 .. k - 1}
    <3>1. \A j \in 1 .. L : s[j] < s[k] <=> j < k
      BY <1>1, <1>2
    <3>2. \A j \in 1 .. L : j < k <=> j \in 1 .. k - 1
      BY <1>1
    <3>3. 1 .. k - 1 \subseteq 1 .. L
      BY <1>1
    <3> HIDE DEF L, I
    <3> QED
      BY <1>5, <3>1, <3>2, <3>3 DEF Below
  <2>2. k - 1 \in 0 .. L
    BY <1>1
  <2>3. Cardinality(Below(I, s[k])) = k - 1
    BY <1>4, <2>1, <2>2
  <2>4. s[k] \in I /\ k \in 1 .. Cardinality(I)
    BY <1>1, <1>5, <1>6
  <2> HIDE DEF L, I
  <2> QED
    BY <1>6, <1>7, <2>3, <2>4, AtRank
<1>9. InOrder(I) = [k \in 1 .. L |-> InOrder(I)[k]]
  <2> HIDE DEF L, I
  <2> QED BY <1>6, OrderFunction
<1>10. InOrder(I) = s
  <2> HIDE DEF I
  <2>1. s = [k \in 1 .. L |-> s[k]]
    BY <1>1
  <2> HIDE DEF L
  <2> QED
    BY <1>8, <1>9, <2>1
<1> QED
  BY <1>6, <1>7, <1>10

LEMMA OrderOfNone == InOrder({}) = <<>>
<1>1. <<>> \in Seq(Nat) /\ Rising(<<>>) /\ Elems(<<>>) = {}
  BY DEF Rising, Elems
<1> QED
  BY <1>1, RisingIs

(* A number above all others comes last. *)
LEMMA OrderAppend ==
  ASSUME NEW I \in SUBSET Nat, IsFiniteSet(I), NEW x \in Nat, \A n \in I : n < x
  PROVE  InOrder(I \cup {x}) = Append(InOrder(I), x)
<1> DEFINE s == InOrder(I)
           t == Append(s, x)
<1>1. s \in Seq(I) /\ s \in Seq(Nat) /\ Rising(s) /\ Elems(s) = I
  BY InOrderIs
<1> HIDE DEF s
<1>2. /\ t \in Seq(Nat) /\ DOMAIN t = 1 .. Len(s) + 1
      /\ \A n \in 1 .. Len(s) : t[n] = s[n] /\ s[n] \in I
      /\ t[Len(s) + 1] = x /\ DOMAIN s = 1 .. Len(s) /\ Len(s) \in Nat
  BY <1>1
<1> HIDE DEF t
<1>3. Rising(t)
  <2> SUFFICES ASSUME NEW m \in DOMAIN t, NEW n \in DOMAIN t, m < n
               PROVE  t[m] < t[n]
    BY DEF Rising
  <2>1. m \in 1 .. Len(s)
    BY <1>2
  <2>2. CASE n \in 1 .. Len(s)
    BY <1>1, <1>2, <2>1, <2>2 DEF Rising
  <2>3. CASE n = Len(s) + 1
    BY <1>2, <2>1, <2>3
  <2> QED
    BY <1>2, <2>2, <2>3
<1>4. Elems(t) = I \cup {x}
  <2>1. \A n \in 1 .. Len(s) : t[n] \in I
    BY <1>2
  <2>2. \A i \in I : \E n \in 1 .. Len(s) : s[n] = i
    BY <1>1, <1>2 DEF Elems
  <2>3. DOMAIN t = (1 .. Len(s)) \cup {Len(s) + 1}
    BY <1>2
  <2>4. \A e \in Elems(t) : e \in I \cup {x}
    BY <1>2, <2>1, <2>3 DEF Elems
  <2>5. \A i \in I : i \in Elems(t)
    <3> SUFFICES ASSUME NEW i \in I PROVE i \in Elems(t)
      OBVIOUS
    <3>1. PICK n \in 1 .. Len(s) : s[n] = i
      BY <2>2
    <3> QED
      BY <1>2, <2>3, <3>1 DEF Elems
  <2>6. x \in Elems(t)
    BY <1>2, <2>3 DEF Elems
  <2> QED
    BY <2>4, <2>5, <2>6
<1>5. InOrder(Elems(t)) = t
  BY <1>2, <1>3, RisingIs
<1> QED
  BY <1>4, <1>5 DEF s, t

(* Numbers above all others change nothing before them. *)
LEMMA OrderPrefix ==
  ASSUME NEW J \in SUBSET Nat, IsFiniteSet(J), NEW I \in SUBSET J,
         \A m \in I, n \in J \ I : m < n
  PROVE  /\ IsFiniteSet(I) /\ Cardinality(I) \in Nat /\ Cardinality(J) \in Nat
         /\ Cardinality(I) <= Cardinality(J)
         /\ \A k \in 1 .. Cardinality(I) : InOrder(J)[k] = InOrder(I)[k]
<1>1. /\ IsFiniteSet(I) /\ Cardinality(I) <= Cardinality(J) /\ I \in SUBSET Nat
      /\ Cardinality(I) \in Nat /\ Cardinality(J) \in Nat
  BY FS_Subset, FS_CardinalityType
<1>2. ASSUME NEW k \in 1 .. Cardinality(I) PROVE InOrder(J)[k] = InOrder(I)[k]
  <2>1. PICK n \in I : Cardinality(Below(I, n)) = k - 1
    BY <1>1, EveryRank
  <2>2. InOrder(I)[k] = n
    BY <1>1, <2>1, AtRank
  <2>3. Below(J, n) = Below(I, n)
    <3>1. \A m \in J : m < n => m \in I
      <4>1. \A m \in J \ I : n < m /\ m \in Nat /\ n \in Nat
        OBVIOUS
      <4>2. \A a, b \in Nat : a < b => ~ (b < a)
        OBVIOUS
      <4> QED
        BY <4>1, <4>2
    <3> QED
      BY <3>1 DEF Below
  <2>4. n \in J /\ k \in 1 .. Cardinality(J)
    BY <1>1
  <2>5. InOrder(J)[k] = n
    BY <2>1, <2>3, <2>4, AtRank
  <2> QED
    BY <2>2, <2>5
<1> QED
  BY <1>1, <1>2

(* What is above all of a set is above none before it: positions. *)
LEMMA RisingFrom ==
  ASSUME NEW L \in Nat, NEW k \in 0 .. L
  PROVE  InOrder(k + 1 .. L) = [n \in 1 .. L - k |-> k + n]
<1> DEFINE s == [n \in 1 .. L - k |-> k + n]
<1>1. s \in Seq(Nat) /\ DOMAIN s = 1 .. L - k
  OBVIOUS
<1>2. Rising(s)
  BY DEF Rising
<1>3. Elems(s) = k + 1 .. L
  <2>1. \A n \in DOMAIN s : s[n] \in k + 1 .. L
    OBVIOUS
  <2>2. \A m \in k + 1 .. L : m - k \in DOMAIN s /\ s[m - k] = m
    OBVIOUS
  <2> HIDE DEF s
  <2> QED
    BY <2>1, <2>2 DEF Elems
<1> HIDE DEF s
<1>4. InOrder(Elems(s)) = s
  BY <1>1, <1>2, RisingIs
<1> QED
  BY <1>3, <1>4 DEF s

(* How Pick takes nothing, the first, the others and everything. *)
LEMMA PickNone == ASSUME NEW s PROVE Pick(s, {}) = <<>>
BY OrderOfNone DEF Pick

LEMMA PickRest ==
  ASSUME NEW S, NEW s \in Seq(S), NEW k \in 0 .. Len(s)
  PROVE  Pick(s, k + 1 .. Len(s)) = SubSeq(s, k + 1, Len(s))
<1> DEFINE L == Len(s)
<1>1. L \in Nat
  OBVIOUS
<1> DEFINE order == InOrder(k + 1 .. L)
<1>2. order = [n \in 1 .. L - k |-> k + n]
  <2> HIDE DEF L
  <2> QED BY <1>1, RisingFrom
<1>3. Pick(s, k + 1 .. L) = [n \in DOMAIN order |-> s[order[n]]]
  BY Zenon DEF Pick
<1>4. DOMAIN order = 1 .. L - k /\ \A n \in 1 .. L - k : order[n] = k + n
  <2> HIDE DEF order
  <2> QED BY <1>2
<1>5. SubSeq(s, k + 1, L) = [n \in 1 .. L - k |-> s[k + n]]
  BY <1>1
<1> HIDE DEF order, L
<1>6. Pick(s, k + 1 .. L) = [n \in 1 .. L - k |-> s[k + n]]
  BY <1>3, <1>4
<1> QED
  BY <1>5, <1>6 DEF L

LEMMA PickFirst ==
  ASSUME NEW s PROVE Pick(s, {1}) = <<s[1]>>
<1>1. InOrder({1}) = << 1 >>
  <2>1. << 1 >> \in Seq(Nat) /\ Rising(<< 1 >>) /\ Elems(<< 1 >>) = {1}
    BY DEF Rising, Elems
  <2> QED
    BY <2>1, RisingIs
<1> QED
  BY <1>1 DEF Pick

(* As many numbers lie between two members as there are places. *)
LEMMA RisingGap ==
  ASSUME NEW s \in Seq(Nat), Rising(s), NEW m \in DOMAIN s, NEW n \in DOMAIN s, m <= n
  PROVE  s[m] + (n - m) <= s[n]
<1> DEFINE f == [k \in m .. n |-> s[k]]
<1>1. m \in Nat /\ n \in Nat /\ m .. n \subseteq DOMAIN s /\ \A k \in DOMAIN s : s[k] \in Nat
  OBVIOUS
<1>2. \A j, k \in DOMAIN s : j < k => s[j] < s[k]
  BY DEF Rising
<1>3. \A k \in m .. n : s[m] <= s[k] /\ s[k] <= s[n]
  <2> SUFFICES ASSUME NEW k \in m .. n PROVE s[m] <= s[k] /\ s[k] <= s[n]
    OBVIOUS
  <2>1. k \in DOMAIN s /\ k \in Nat /\ (m = k \/ m < k) /\ (k = n \/ k < n)
    BY <1>1
  <2>2. s[m] \in Nat /\ s[k] \in Nat /\ s[n] \in Nat
    BY <1>1, <2>1
  <2>3. (m < k => s[m] < s[k]) /\ (k < n => s[k] < s[n])
    BY <1>2, <2>1, Zenon
  <2>4. (s[m] = s[k] \/ s[m] < s[k]) /\ (s[k] = s[n] \/ s[k] < s[n])
    BY <2>1, <2>3
  <2> QED
    BY <2>2, <2>4
<1>4. f \in [m .. n -> s[m] .. s[n]]
  BY <1>1, <1>3
<1>5. \A j, k \in m .. n : f[j] = f[k] => j = k
  <2> SUFFICES ASSUME NEW j \in m .. n, NEW k \in m .. n, s[j] = s[k] PROVE j = k
    OBVIOUS
  <2>1. j \in DOMAIN s /\ k \in DOMAIN s /\ s[j] \in Nat
    BY <1>1
  <2>2. ~ (j < k) /\ ~ (k < j)
    BY <1>2, <2>1
  <2> QED
    BY <1>1, <2>2
<1>6. f \in Injection(m .. n, s[m] .. s[n])
  <2> HIDE DEF f
  <2> QED BY <1>4, <1>5 DEF Injection, IsInjective
<1>7. /\ IsFiniteSet(s[m] .. s[n])
      /\ Cardinality(s[m] .. s[n]) = IF s[m] > s[n] THEN 0 ELSE s[n] - s[m] + 1
  <2>1. s[m] \in Int /\ s[n] \in Int
    BY <1>1
  <2> QED BY <2>1, FS_Interval
<1>8. Cardinality(m .. n) = n - m + 1
  <2>1. m \in Int /\ n \in Int /\ ~ (m > n)
    BY <1>1
  <2> QED BY <2>1, FS_Interval
<1>9. Cardinality(m .. n) <= Cardinality(s[m] .. s[n])
  <2> HIDE DEF f
  <2> QED BY <1>6, <1>7, FS_Injection
<1>10. s[m] <= s[n]
  <2>1. m \in m .. n
    BY <1>1
  <2> QED BY <1>3, <2>1
<1> QED
  <2> DEFINE a == s[m]
             b == s[n]
  <2>1. a \in Nat /\ b \in Nat /\ a <= b
    BY <1>1, <1>3, <1>10
  <2>2. n - m + 1 <= b - a + 1
    BY <1>7, <1>8, <1>9, <1>10, <2>1
  <2> HIDE DEF a, b
  <2>3. a + (n - m) <= b
    BY <1>1, <2>1, <2>2
  <2> QED
    BY <2>3 DEF a, b

-----------------------------------------------------------------------------
(* LastOf.                                                                 *)

LEMMA SameSequence ==
  ASSUME NEW S, NEW s \in Seq(S), NEW t \in Seq(S), Len(s) = Len(t),
         \A k \in 1 .. Len(s) : s[k] = t[k]
  PROVE  s = t
OBVIOUS

LEMMA LastOfIs ==
  ASSUME NEW S, NEW s \in Seq(S), NEW n \in Nat
  PROVE  /\ LastOf(n, s) \in Seq(S)
         /\ n <= Len(s) => Len(LastOf(n, s)) = n
         /\ Len(s) <= n => Len(LastOf(n, s)) = Len(s)
         /\ \A k \in 1 .. Len(LastOf(n, s)) :
              LastOf(n, s)[k] = s[Len(s) - Len(LastOf(n, s)) + k]
<1> DEFINE L == Len(s)
           c == IF n <= L THEN n ELSE L
<1>1. /\ L \in Nat /\ c \in Nat /\ c <= L /\ Min({n, L}) = c
      /\ (n <= L => c = n) /\ (L <= n => c = L)
  BY MinOfTwo
<1>2. LastOf(n, s) = SubSeq(s, L - c + 1, L)
  BY <1>1 DEF LastOf
<1>3. SubSeq(s, L - c + 1, L) = [k \in 1 .. c |-> s[L - c + k]]
  <2>1. L - c + 1 \in Int /\ L \in Int
    BY <1>1
  <2>2. SubSeq(s, L - c + 1, L) = [k \in 1 .. (1 + L - (L - c + 1)) |-> s[(L - c + 1) + k - 1]]
    <3> HIDE DEF L, c
    <3> QED BY <2>1
  <2>3. 1 + L - (L - c + 1) = c /\ \A k \in 1 .. c : (L - c + 1) + k - 1 = L - c + k
    <3>1. \A a, e \in Nat : e <= a =>
            /\ 1 + a - (a - e + 1) = e
            /\ \A k \in 1 .. e : (a - e + 1) + k - 1 = a - e + k
      OBVIOUS
    <3> HIDE DEF L, c
    <3> QED BY <1>1, <3>1
  <2> HIDE DEF L, c
  <2> QED
    BY <2>2, <2>3
<1>4. \A k \in 1 .. c : s[L - c + k] \in S
  <2>1. \A k \in 1 .. c : L - c + k \in 1 .. L
    <3> HIDE DEF L, c
    <3> QED BY <1>1
  <2> HIDE DEF c
  <2> QED BY <2>1
<1> DEFINE w == [k \in 1 .. c |-> s[L - c + k]]
<1>5. w \in Seq(S) /\ Len(w) = c /\ \A k \in 1 .. c : w[k] = s[L - c + k]
  <2> HIDE DEF L, c
  <2> QED BY <1>1, <1>4
<1>6. LastOf(n, s) = w
  BY <1>2, <1>3
<1> HIDE DEF w, c, L
<1> QED
  BY <1>1, <1>5, <1>6 DEF L

LEMMA LastOfNone == ASSUME NEW n \in Nat PROVE LastOf(n, <<>>) = <<>>
<1> DEFINE e == <<>>
<1>1. e \in Seq(Nat) /\ Len(e) = 0 /\ Len(e) <= n
  OBVIOUS
<1> HIDE DEF e
<1>2. LastOf(n, e) \in Seq(Nat) /\ Len(LastOf(n, e)) = Len(e)
  BY <1>1, LastOfIs, Zenon
<1> QED
  BY <1>1, <1>2 DEF e

(* What is kept is enough to know what to keep. *)
LEMMA LastOfAppend ==
  ASSUME NEW S, NEW s \in Seq(S), NEW n \in Nat, NEW x \in S
  PROVE  LastOf(n, Append(LastOf(n, s), x)) = LastOf(n, Append(s, x))
<1> DEFINE w == LastOf(n, s)
           t == Append(w, x)
           u == Append(s, x)
           p == LastOf(n, t)
           q == LastOf(n, u)
<1>1. /\ w \in Seq(S) /\ Len(w) \in Nat /\ Len(s) \in Nat
      /\ (n <= Len(s) => Len(w) = n) /\ (Len(s) <= n => Len(w) = Len(s))
      /\ \A k \in 1 .. Len(w) : w[k] = s[Len(s) - Len(w) + k]
  <2>1. w \in Seq(S)
    BY LastOfIs
  <2> QED
    BY <2>1, LastOfIs
<1> HIDE DEF w
<1>2. /\ t \in Seq(S) /\ Len(t) = Len(w) + 1 /\ t[Len(w) + 1] = x
      /\ \A k \in 1 .. Len(w) : t[k] = w[k]
  BY <1>1
<1>3. /\ u \in Seq(S) /\ Len(u) = Len(s) + 1 /\ u[Len(s) + 1] = x
      /\ \A k \in 1 .. Len(s) : u[k] = s[k]
  OBVIOUS
<1> HIDE DEF t, u
<1>4. /\ p \in Seq(S) /\ Len(p) \in Nat
      /\ (n <= Len(t) => Len(p) = n) /\ (Len(t) <= n => Len(p) = Len(t))
      /\ \A k \in 1 .. Len(p) : p[k] = t[Len(t) - Len(p) + k]
  <2>1. p \in Seq(S)
    BY <1>2, LastOfIs, Zenon
  <2>2. /\ (n <= Len(t) => Len(p) = n) /\ (Len(t) <= n => Len(p) = Len(t))
        /\ \A k \in 1 .. Len(p) : p[k] = t[Len(t) - Len(p) + k]
    BY <1>2, LastOfIs, Zenon
  <2>3. Len(p) \in Nat
    BY <2>1
  <2> QED
    BY <2>1, <2>2, <2>3
<1>5. /\ q \in Seq(S) /\ Len(q) \in Nat
      /\ (n <= Len(u) => Len(q) = n) /\ (Len(u) <= n => Len(q) = Len(u))
      /\ \A k \in 1 .. Len(q) : q[k] = u[Len(u) - Len(q) + k]
  <2>1. q \in Seq(S)
    BY <1>3, LastOfIs, Zenon
  <2>2. /\ (n <= Len(u) => Len(q) = n) /\ (Len(u) <= n => Len(q) = Len(u))
        /\ \A k \in 1 .. Len(q) : q[k] = u[Len(u) - Len(q) + k]
    BY <1>3, LastOfIs, Zenon
  <2>3. Len(q) \in Nat
    BY <2>1
  <2> QED
    BY <2>1, <2>2, <2>3
<1> HIDE DEF p, q
<1>6. Len(p) = Len(q) /\ Len(p) <= Len(w) + 1 /\ Len(p) <= Len(s) + 1 /\ Len(w) <= Len(s)
  BY <1>1, <1>2, <1>3, <1>4, <1>5
<1>7. ASSUME NEW k \in 1 .. Len(p) PROVE p[k] = q[k]
  <2>0. k \in 1 .. Len(q)
    BY <1>6
  <2>1. p[k] = t[Len(w) + 1 - Len(p) + k] /\ q[k] = u[Len(s) + 1 - Len(p) + k]
    <3>1. p[k] = t[Len(t) - Len(p) + k]
      BY <1>4
    <3>2. q[k] = u[Len(u) - Len(q) + k]
      BY <2>0, <1>5
    <3> QED
      BY <3>1, <3>2, <1>2, <1>3, <1>6
  <2>2. CASE k = Len(p)
    <3>1. Len(w) + 1 - Len(p) + k = Len(w) + 1 /\ Len(s) + 1 - Len(p) + k = Len(s) + 1
      BY <1>1, <1>4, <2>2
    <3> QED BY <1>2, <1>3, <2>1, <3>1
  <2>3. CASE k < Len(p)
    <3> DEFINE i == Len(w) + 1 - Len(p) + k
               j == Len(s) + 1 - Len(p) + k
    <3>1. i \in 1 .. Len(w) /\ j \in 1 .. Len(s) /\ Len(s) - Len(w) + i = j
      BY <1>1, <1>4, <1>6, <2>3
    <3>2. p[k] = t[i] /\ q[k] = u[j]
      BY <2>1
    <3> HIDE DEF i, j
    <3> QED BY <1>1, <1>2, <1>3, <3>1, <3>2
  <2> QED
    BY <1>4, <2>2, <2>3
<1>8. p = q
  BY <1>4, <1>5, <1>6, <1>7, SameSequence
<1> QED
  BY <1>8 DEF p, q, t, u, w

-----------------------------------------------------------------------------
(* The invariant.                                                          *)

(* How many lines of what was read of the file are its tail. *)
Count == Min({req.tail, pos})

(* The tail, of which nothing has been sent yet. *)
Tailing ==
  /\ req.tail > 0 /\ known
  /\ sent = <<>> /\ next = subscribed /\ ~lagged
  /\ Len(window) = Count
  /\ \A n \in 1 .. Count : window[n] = File[pos - Count + n]

(* The tail with its numbers comes first; then lines published since the
   subscription, in order, and if it never lagged all of them. *)
Sent ==
  /\ ~known \/ req.tail = 0 => pos = 0
  /\ Count <= Len(sent)
  /\ \A n \in 1 .. Count :
       sent[n] = [line |-> File[pos - Count + n], number |-> pos - Count + n]
  /\ \A n \in Count + 1 .. Len(sent) :
       sent[n].number = 0 /\ sent[n].line \in subscribed + 1 .. next
  /\ \A m, n \in Count + 1 .. Len(sent) : m < n => sent[m].line < sent[n].line
  /\ ~lagged => \A id \in subscribed + 1 .. next : Mine(id) =>
       \E n \in Count + 1 .. Len(sent) : sent[n].line = id

GetInv ==
  /\ req.kind = "get" => at \in {"list", "subscribe", "tail", "follow", "done"}
  /\ req.kind = "grep" => at \in {"open", "grep", "done"} /\ sent = <<>>
  /\ at \in {"list", "subscribe"} => pos = 0 /\ window = <<>> /\ sent = <<>> /\ ~lagged
  /\ at = "tail" => Tailing
  /\ at \in {"follow", "done"} /\ req.kind = "get" => Sent

(* An answered match has all its context. *)
Answered == \A k \in DOMAIN results : Complete(results[k])

(* An open match is short of context, or is the line just read. *)
Open ==
  \A k \in DOMAIN pending :
    LET n == Hits[Len(results) + k] IN n + req.after > Len(Read) \/ n = Len(Read)

Grepping ==
  /\ before = LastOf(req.before, Read)
  /\ results \o pending = Answers
  /\ Len(results) < MaxMatches
  /\ Answered /\ Open

GrepInv ==
  /\ at = "open" => pos = 0 /\ before = <<>> /\ pending = <<>> /\ results = <<>>
  /\ at = "grep" => Grepping
  /\ GrepAnswersExpected

Inv == TypeOK /\ GetInv /\ GrepInv

-----------------------------------------------------------------------------
(* The file, the lines read of it, and the matches among them, as          *)
(* functions of the lines there are.                                       *)

Own(ls, n) == {k \in 1 .. n : ls[k] # "other"}

FileOf(ls, n) == InOrder(Own(ls, n))

InWindow(ls, file, p) == {id \in {file[n] : n \in 1 .. p} : ls[id] # "aged"}

ReadOf(ls, file, p) == InOrder(InWindow(ls, file, p))

HitPlaces(ls, read) == {n \in DOMAIN read : ls[read[n]] = "hit"}

HitsOf(ls, read) == InOrder(HitPlaces(ls, read))

LEMMA FileRead ==
  /\ File = FileOf(lines, stored)
  /\ Read = ReadOf(lines, File, pos)
  /\ Hits = HitsOf(lines, Read)
BY DEF File, FileOf, Own, Mine, Read, ReadOf, InWindow, Hits, HitsOf, HitPlaces

LEMMA FileReadNext ==
  /\ File' = FileOf(lines', stored')
  /\ Read' = ReadOf(lines', File', pos')
  /\ Hits' = HitsOf(lines', Read')
BY DEF File, FileOf, Own, Mine, Read, ReadOf, InWindow, Hits, HitsOf, HitPlaces

LEMMA OwnIs ==
  ASSUME NEW ls, NEW n \in Nat
  PROVE  Own(ls, n) \in SUBSET Nat /\ IsFiniteSet(Own(ls, n))
<1>1. IsFiniteSet(1 .. n)
  BY FS_Interval
<1>2. Own(ls, n) \in SUBSET (1 .. n)
  BY DEF Own
<1> QED
  BY <1>1, <1>2, FS_Subset

(* The file has the lines of the process that are stored, in their order. *)
LEMMA FileOfIs ==
  ASSUME NEW ls, NEW n \in Nat
  PROVE  LET file == FileOf(ls, n) IN
         /\ file \in Seq(Nat) /\ Rising(file)
         /\ \A k \in 1 .. Len(file) : file[k] \in 1 .. n /\ ls[file[k]] # "other"
         /\ \A id \in 1 .. n : ls[id] # "other" => \E k \in 1 .. Len(file) : file[k] = id
<1> DEFINE file == FileOf(ls, n)
<1>1. file \in Seq(Nat) /\ Rising(file) /\ Elems(file) = Own(ls, n)
  BY OwnIs, InOrderIs DEF FileOf
<1> HIDE DEF file
<1>2. DOMAIN file = 1 .. Len(file)
  BY <1>1
<1>3. \A k \in 1 .. Len(file) : file[k] \in 1 .. n /\ ls[file[k]] # "other"
  BY <1>1, <1>2 DEF Elems, Own
<1>4. \A id \in 1 .. n : ls[id] # "other" => \E k \in 1 .. Len(file) : file[k] = id
  BY <1>1, <1>2 DEF Elems, Own
<1> QED
  BY <1>1, <1>3, <1>4 DEF file

(* It only grows at its end. *)
LEMMA FileGrows ==
  ASSUME NEW ls, NEW ls2, NEW n \in Nat, NEW n2 \in Nat, n <= n2,
         \A k \in 1 .. n : ls2[k] = ls[k]
  PROVE  /\ Len(FileOf(ls, n)) \in Nat /\ Len(FileOf(ls2, n2)) \in Nat
         /\ Len(FileOf(ls, n)) <= Len(FileOf(ls2, n2))
         /\ \A k \in 1 .. Len(FileOf(ls, n)) : FileOf(ls2, n2)[k] = FileOf(ls, n)[k]
<1> DEFINE I == Own(ls, n)
           J == Own(ls2, n2)
<1>1. J \in SUBSET Nat /\ IsFiniteSet(J) /\ I \in SUBSET Nat /\ IsFiniteSet(I)
  BY OwnIs
<1>2. I \in SUBSET J
  BY DEF Own
<1>3. \A a \in I, b \in J \ I : a < b
  <2> SUFFICES ASSUME NEW a \in I, NEW b \in J \ I PROVE a < b
    OBVIOUS
  <2>1. a \in 1 .. n /\ b \in 1 .. n2 /\ ls2[b] # "other"
    BY DEF Own
  <2>2. b \notin 1 .. n
    BY <2>1 DEF Own
  <2> QED
    BY <2>1, <2>2
<1> HIDE DEF I, J
<1>4. /\ Cardinality(I) \in Nat /\ Cardinality(J) \in Nat /\ Cardinality(I) <= Cardinality(J)
      /\ \A k \in 1 .. Cardinality(I) : InOrder(J)[k] = InOrder(I)[k]
  BY <1>1, <1>2, <1>3, OrderPrefix
<1>5. Len(InOrder(I)) = Cardinality(I) /\ Len(InOrder(J)) = Cardinality(J)
  BY <1>1, InOrderIs
<1> QED
  BY <1>4, <1>5 DEF FileOf, I, J

LEMMA ReadOfIs ==
  ASSUME NEW ls, NEW file \in Seq(Nat), NEW p \in 0 .. Len(file)
  PROVE  LET read == ReadOf(ls, file, p) IN
         /\ InWindow(ls, file, p) \in SUBSET Nat /\ IsFiniteSet(InWindow(ls, file, p))
         /\ read \in Seq(Nat) /\ Rising(read) /\ Elems(read) = InWindow(ls, file, p)
<1> DEFINE T == {file[n] : n \in 1 .. p}
           f == [n \in 1 .. p |-> file[n]]
<1>1. IsFiniteSet(1 .. p)
  BY FS_Interval
<1>2. f \in Surjection(1 .. p, T)
  <2>1. f \in [1 .. p -> T] /\ \A t \in T : \E n \in 1 .. p : f[n] = t
    OBVIOUS
  <2> HIDE DEF f, T
  <2> QED BY <2>1 DEF Surjection
<1>3. IsFiniteSet(T)
  <2> HIDE DEF f, T
  <2> QED BY <1>1, <1>2, FS_Surjection
<1>4. T \in SUBSET Nat
  OBVIOUS
<1>5. InWindow(ls, file, p) \in SUBSET T
  BY DEF InWindow
<1> HIDE DEF T, f
<1>6. InWindow(ls, file, p) \in SUBSET Nat /\ IsFiniteSet(InWindow(ls, file, p))
  BY <1>3, <1>4, <1>5, FS_Subset
<1> QED
  BY <1>6, InOrderIs DEF ReadOf

LEMMA HitsOfIs ==
  ASSUME NEW ls, NEW read \in Seq(Nat)
  PROVE  LET hits == HitsOf(ls, read) IN
         /\ HitPlaces(ls, read) \in SUBSET Nat /\ IsFiniteSet(HitPlaces(ls, read))
         /\ hits \in Seq(Nat) /\ Rising(hits)
         /\ \A k \in 1 .. Len(hits) : hits[k] \in 1 .. Len(read)
<1>1. HitPlaces(ls, read) \in SUBSET (1 .. Len(read))
  BY DEF HitPlaces
<1>2. Len(read) \in Nat
  OBVIOUS
<1>3. IsFiniteSet(1 .. Len(read))
  BY <1>2, FS_Interval
<1>4. HitPlaces(ls, read) \in SUBSET Nat /\ IsFiniteSet(HitPlaces(ls, read))
  BY <1>1, <1>2, <1>3, FS_Subset
<1> DEFINE hits == HitsOf(ls, read)
<1>5. hits \in Seq(Nat) /\ Rising(hits) /\ Elems(hits) = HitPlaces(ls, read)
  BY <1>4, InOrderIs DEF HitsOf
<1> HIDE DEF hits
<1>6. \A k \in 1 .. Len(hits) : hits[k] \in 1 .. Len(read)
  BY <1>1, <1>5 DEF Elems
<1> QED
  BY <1>4, <1>5, <1>6 DEF hits

(* What was read stays as it is while the file grows. *)
LEMMA ReadStable ==
  ASSUME NEW ls, NEW ls2, NEW file \in Seq(Nat), NEW file2, NEW p \in 0 .. Len(file),
         \A k \in 1 .. p : file2[k] = file[k] /\ ls2[file[k]] = ls[file[k]]
  PROVE  /\ ReadOf(ls2, file2, p) = ReadOf(ls, file, p)
         /\ HitsOf(ls2, ReadOf(ls, file, p)) = HitsOf(ls, ReadOf(ls, file, p))
<1> DEFINE read == ReadOf(ls, file, p)
<1>1. {file2[n] : n \in 1 .. p} = {file[n] : n \in 1 .. p}
  OBVIOUS
<1>2. \A id \in {file[n] : n \in 1 .. p} : ls2[id] = ls[id]
  OBVIOUS
<1>3. InWindow(ls2, file2, p) = InWindow(ls, file, p)
  BY <1>1, <1>2 DEF InWindow
<1>4. read \in Seq(Nat) /\ Elems(read) = InWindow(ls, file, p)
  BY ReadOfIs
<1> HIDE DEF read
<1>5. \A n \in DOMAIN read : ls2[read[n]] = ls[read[n]]
  BY <1>2, <1>4 DEF Elems, InWindow
<1>6. HitPlaces(ls2, read) = HitPlaces(ls, read)
  BY <1>5 DEF HitPlaces
<1> QED
  BY <1>3, <1>6 DEF ReadOf, HitsOf, read

(* A line outside the time window is as if it were not there; any other one
   comes at the end. *)
LEMMA ReadGrows ==
  ASSUME NEW ls, NEW file \in Seq(Nat), Rising(file), NEW p \in Nat, p < Len(file)
  PROVE  /\ ls[file[p + 1]] = "aged" => ReadOf(ls, file, p + 1) = ReadOf(ls, file, p)
         /\ ls[file[p + 1]] # "aged" =>
              ReadOf(ls, file, p + 1) = Append(ReadOf(ls, file, p), file[p + 1])
<1> DEFINE id == file[p + 1]
           I == InWindow(ls, file, p)
           J == InWindow(ls, file, p + 1)
<1>1. p + 1 \in DOMAIN file /\ \A n \in 1 .. p : n \in DOMAIN file /\ n < p + 1
  OBVIOUS
<1>2. id \in Nat
  BY <1>1
<1>3. I \in SUBSET Nat /\ IsFiniteSet(I)
  <2>1. p \in 0 .. Len(file)
    OBVIOUS
  <2> QED BY <2>1, ReadOfIs
<1>4. \A n \in 1 .. p : file[n] < id
  BY <1>1 DEF Rising
<1>5. {file[n] : n \in 1 .. p + 1} = {file[n] : n \in 1 .. p} \cup {id}
  <2>1. 1 .. p + 1 = (1 .. p) \cup {p + 1}
    OBVIOUS
  <2> QED BY <2>1
<1>6. \A n \in I : n < id
  BY <1>4 DEF InWindow
<1>7. J = IF ls[id] = "aged" THEN I ELSE I \cup {id}
  <2> HIDE DEF id
  <2> QED
    BY <1>5 DEF InWindow
<1> HIDE DEF I, J, id
<1>8. ls[id] # "aged" => InOrder(J) = Append(InOrder(I), id)
  BY <1>2, <1>3, <1>6, <1>7, OrderAppend
<1>9. ls[id] = "aged" => InOrder(J) = InOrder(I)
  BY <1>7
<1> QED
  BY <1>8, <1>9 DEF ReadOf, I, J, id

LEMMA HitsGrow ==
  ASSUME NEW ls, NEW read \in Seq(Nat), NEW id \in Nat
  PROVE  HitsOf(ls, Append(read, id)) =
           IF ls[id] = "hit" THEN Append(HitsOf(ls, read), Len(read) + 1) ELSE HitsOf(ls, read)
<1> DEFINE more == Append(read, id)
           N == Len(read)
           I == HitPlaces(ls, read)
<1>1. /\ N \in Nat /\ DOMAIN read = 1 .. N /\ DOMAIN more = (1 .. N) \cup {N + 1}
      /\ more[N + 1] = id /\ \A n \in 1 .. N : more[n] = read[n]
  OBVIOUS
<1>2. I \in SUBSET Nat /\ IsFiniteSet(I)
  BY HitsOfIs
<1>3. \A n \in I : n < N + 1
  BY <1>1 DEF HitPlaces
<1> HIDE DEF more, N
<1>4. HitPlaces(ls, more) = IF ls[id] = "hit" THEN I \cup {N + 1} ELSE I
  BY <1>1 DEF HitPlaces
<1> HIDE DEF I
<1>5. N + 1 \in Nat
  BY <1>1
<1>6. InOrder(I \cup {N + 1}) = Append(InOrder(I), N + 1)
  BY <1>2, <1>3, <1>5, OrderAppend
<1> QED
  BY <1>4, <1>6 DEF HitsOf, I, N, more

-----------------------------------------------------------------------------
(* The pipelines.                                                          *)

LEMMA TypesOfFile ==
  ASSUME TypeOK
  PROVE  /\ File \in Seq(Nat) /\ Rising(File) /\ Len(File) \in Nat
         /\ \A k \in 1 .. Len(File) : File[k] \in 1 .. stored /\ Mine(File[k])
         /\ \A id \in 1 .. stored : Mine(id) => \E k \in 1 .. Len(File) : File[k] = id
         /\ stored \in Nat /\ Len(lines) \in Nat /\ stored <= Len(lines)
         /\ pos \in Nat /\ pos <= Len(File)
         /\ Read \in Seq(Nat) /\ Rising(Read) /\ Len(Read) \in Nat
         /\ Hits \in Seq(Nat) /\ Rising(Hits) /\ Len(Hits) \in Nat
         /\ \A k \in 1 .. Len(Hits) : Hits[k] \in 1 .. Len(Read)
<1>1. lines \in Seq(Kind) /\ stored \in 0 .. Len(lines) /\ pos \in 0 .. Len(File)
  BY DEF TypeOK
<1>2. Len(lines) \in Nat /\ stored \in Nat /\ stored <= Len(lines)
  BY <1>1
<1>3. /\ File \in Seq(Nat) /\ Rising(File)
      /\ \A k \in 1 .. Len(File) : File[k] \in 1 .. stored /\ Mine(File[k])
      /\ \A id \in 1 .. stored : Mine(id) => \E k \in 1 .. Len(File) : File[k] = id
  BY <1>2, FileRead, FileOfIs DEF Mine
<1>4. Len(File) \in Nat /\ pos \in Nat /\ pos <= Len(File)
  BY <1>1, <1>3
<1>5. Read \in Seq(Nat) /\ Rising(Read)
  BY <1>1, <1>3, FileRead, ReadOfIs
<1>6. Hits \in Seq(Nat) /\ Rising(Hits) /\ \A k \in 1 .. Len(Hits) : Hits[k] \in 1 .. Len(Read)
  BY <1>5, FileRead, HitsOfIs
<1> QED
  BY <1>2, <1>3, <1>4, <1>5, <1>6

LEMMA PipelineKeeps ==
  ASSUME TypeOK, Pipeline
  PROVE  /\ lines' \in Seq(Kind) /\ published' \in 0 .. Len(lines') /\ stored' \in 0 .. Len(lines')
         /\ registered' \in BOOLEAN
         /\ published <= published' /\ stored <= stored' /\ Len(lines) <= Len(lines')
         /\ \A k \in 1 .. Len(lines) : lines'[k] = lines[k]
         /\ UNCHANGED <<req, at, pos, getVars, grepVars>>
<1>1. /\ lines \in Seq(Kind) /\ published \in 0 .. Len(lines) /\ stored \in 0 .. Len(lines)
      /\ registered \in BOOLEAN /\ Len(lines) \in Nat
  BY DEF TypeOK
<1>2. CASE \E kind \in Kind : Produce(kind)
  <2>1. PICK kind \in Kind : Produce(kind)
    BY <1>2
  <2>2. /\ lines' = Append(lines, kind) /\ published' = published /\ stored' = stored
        /\ registered' = registered /\ UNCHANGED <<req, at, pos, getVars, grepVars>>
    BY <2>1 DEF Produce
  <2>3. /\ Append(lines, kind) \in Seq(Kind) /\ Len(Append(lines, kind)) = Len(lines) + 1
        /\ \A k \in 1 .. Len(lines) : Append(lines, kind)[k] = lines[k]
    BY <1>1
  <2> QED
    BY <1>1, <2>2, <2>3
<1>3. CASE Publish
  BY <1>1, <1>3 DEF Publish
<1>4. CASE Store
  <2>1. PICK n \in stored + 1 .. Len(lines) : stored' = n
    BY <1>4 DEF Store
  <2>2. UNCHANGED <<lines, published, registered, req, at, pos, getVars, grepVars>>
    BY <1>4 DEF Store
  <2> QED
    BY <1>1, <2>1, <2>2
<1>5. CASE Register
  BY <1>1, <1>5 DEF Register
<1> QED
  BY <1>2, <1>3, <1>4, <1>5 DEF Pipeline

LEMMA SameAnswers ==
  ASSUME UNCHANGED req, Read' = Read, Hits' = Hits
  PROVE  Answers' = Answers /\ Expected' = Expected
<1>1. Answers' = Answers
  BY DEF Answers, Context
<1> QED
  BY <1>1 DEF Expected

LEMMA FileKeeps ==
  ASSUME TypeOK, Pipeline
  PROVE  /\ Len(File') \in Nat /\ Len(File) <= Len(File')
         /\ \A k \in 1 .. Len(File) : File'[k] = File[k]
         /\ \A k \in 1 .. Len(lines) : lines'[k] = lines[k]
         /\ Read' = Read /\ Hits' = Hits /\ Answers' = Answers /\ Expected' = Expected
<1>1. /\ stored \in Nat /\ stored' \in Nat /\ stored <= stored' /\ stored <= Len(lines)
      /\ \A k \in 1 .. Len(lines) : lines'[k] = lines[k]
      /\ Len(lines) \in Nat /\ UNCHANGED <<req, pos>>
  <2>1. lines \in Seq(Kind) /\ stored \in 0 .. Len(lines) /\ lines' \in Seq(Kind)
        /\ stored' \in 0 .. Len(lines')
    BY PipelineKeeps DEF TypeOK
  <2> QED
    BY <2>1, PipelineKeeps
<1>2. \A k \in 1 .. stored : lines'[k] = lines[k]
  BY <1>1
<1>3. /\ Len(File) \in Nat /\ Len(File') \in Nat /\ Len(File) <= Len(File')
      /\ \A k \in 1 .. Len(File) : File'[k] = File[k]
  <2> DEFINE ls == lines
             ls2 == lines'
             n == stored
             n2 == stored'
  <2>1. File = FileOf(ls, n) /\ File' = FileOf(ls2, n2)
    BY FileRead, FileReadNext
  <2>2. n \in Nat /\ n2 \in Nat /\ n <= n2 /\ \A k \in 1 .. n : ls2[k] = ls[k]
    BY <1>1, <1>2
  <2> HIDE DEF ls, ls2, n, n2
  <2> QED
    BY <2>1, <2>2, FileGrows
<1>4. \A k \in 1 .. pos : File'[k] = File[k] /\ lines'[File[k]] = lines[File[k]]
  <2>1. \A k \in 1 .. pos : k \in 1 .. Len(File) /\ File[k] \in 1 .. stored
    BY TypesOfFile
  <2> QED
    BY <1>2, <1>3, <2>1
<1>5. Read' = Read /\ Hits' = Hits
  <2> DEFINE ls == lines
             ls2 == lines'
             file == File
             file2 == File'
  <2>1. /\ file \in Seq(Nat) /\ pos \in 0 .. Len(file)
        /\ \A k \in 1 .. pos : file2[k] = file[k] /\ ls2[file[k]] = ls[file[k]]
    BY <1>4, TypesOfFile
  <2>2. /\ Read = ReadOf(ls, file, pos) /\ Read' = ReadOf(ls2, file2, pos)
        /\ Hits = HitsOf(ls, Read) /\ Hits' = HitsOf(ls2, Read')
    BY <1>1, FileRead, FileReadNext
  <2> HIDE DEF ls, ls2, file, file2
  <2>3. /\ ReadOf(ls2, file2, pos) = ReadOf(ls, file, pos)
        /\ HitsOf(ls2, ReadOf(ls, file, pos)) = HitsOf(ls, ReadOf(ls, file, pos))
    BY <2>1, ReadStable
  <2> QED
    BY <2>2, <2>3
<1>6. Answers' = Answers /\ Expected' = Expected
  BY <1>1, <1>5, SameAnswers
<1> QED
  BY <1>1, <1>3, <1>5, <1>6

LEMMA RequestTypes ==
  ASSUME TypeOK
  PROVE  /\ req \in Requests /\ req.kind \in {"get", "grep"} /\ req.tail \in Nat
         /\ req.before \in Nat /\ req.after \in Nat
         /\ MaxMatches \in Nat /\ MaxMatches > 0 /\ RingCap \in Nat /\ RingCap > 0
BY QueriesAssumption DEF TypeOK

LEMMA CountIs ==
  ASSUME TypeOK
  PROVE  /\ Count \in Nat /\ Count <= pos /\ Count <= req.tail /\ pos \in Nat
         /\ Count = IF req.tail <= pos THEN req.tail ELSE pos
<1>1. req.tail \in Nat /\ pos \in Nat
  BY RequestTypes, TypesOfFile
<1>2. Count = IF req.tail <= pos THEN req.tail ELSE pos
  BY <1>1, MinOfTwo DEF Count
<1> QED
  BY <1>1, <1>2

LEMMA PipelineTypes ==
  ASSUME TypeOK, Pipeline
  PROVE  TypeOK'
<1>1. UNCHANGED <<req, at, pos, getVars, grepVars>>
  BY PipelineKeeps
<1>2. UNCHANGED <<req, at, pos, known, subscribed, next, lagged, window, sent, before, pending, results>>
  BY <1>1 DEF getVars, grepVars
<1>3. /\ subscribed' \in 0 .. published' /\ next' \in subscribed' .. published'
  <2>1. /\ published \in Nat /\ published' \in Nat /\ published <= published'
        /\ subscribed \in 0 .. published /\ next \in subscribed .. published
    <3>1. /\ published \in 0 .. Len(lines) /\ published' \in 0 .. Len(lines')
          /\ published <= published'
      BY PipelineKeeps DEF TypeOK
    <3> QED
      BY <3>1 DEF TypeOK
  <2> QED
    BY <1>2, <2>1
<1>4. pos' \in 0 .. Len(File')
  BY <1>2, FileKeeps, TypesOfFile
<1>5. Match' = Match
  BY DEF Match
<1>6. /\ lines' \in Seq(Kind) /\ published' \in 0 .. Len(lines') /\ stored' \in 0 .. Len(lines')
      /\ registered' \in BOOLEAN
  BY PipelineKeeps
<1> QED
  BY <1>2, <1>3, <1>4, <1>5, <1>6 DEF TypeOK

LEMMA PipelineGet ==
  ASSUME TypeOK, GetInv, Pipeline
  PROVE  GetInv'
<1>1. UNCHANGED <<req, at, pos, known, subscribed, next, lagged, window, sent>>
  BY PipelineKeeps DEF getVars, grepVars
<1>2. Count' = Count
  BY <1>1 DEF Count
<1>3. \A n \in 1 .. Count : File'[pos - Count + n] = File[pos - Count + n]
  <2>1. Count \in Nat /\ Count <= pos /\ pos \in Nat /\ pos <= Len(File) /\ Len(File) \in Nat
    BY CountIs, TypesOfFile
  <2>2. \A n \in 1 .. Count : pos - Count + n \in 1 .. Len(File)
    BY <2>1
  <2> QED
    BY <2>2, FileKeeps
<1>4. \A id \in subscribed + 1 .. next : Mine(id)' <=> Mine(id)
  <2>1. /\ Len(lines) \in Nat /\ published \in 0 .. Len(lines)
        /\ subscribed \in 0 .. published /\ next \in subscribed .. published
    BY TypesOfFile DEF TypeOK
  <2>2. \A id \in subscribed + 1 .. next : id \in 1 .. Len(lines)
    BY <2>1
  <2> QED
    BY <2>2, FileKeeps DEF Mine
<1>5. Tailing => Tailing'
  BY <1>1, <1>2, <1>3 DEF Tailing
<1>6. Sent => Sent'
  BY <1>1, <1>2, <1>3, <1>4 DEF Sent
<1> QED
  BY <1>1, <1>5, <1>6 DEF GetInv

LEMMA PipelineGrep ==
  ASSUME TypeOK, GrepInv, Pipeline
  PROVE  GrepInv'
<1>1. UNCHANGED <<req, at, pos, before, pending, results>>
  BY PipelineKeeps DEF getVars, grepVars
<1>2. Read' = Read /\ Hits' = Hits /\ Answers' = Answers /\ Expected' = Expected
  BY FileKeeps
<1>3. Grepping => Grepping'
  BY <1>1, <1>2 DEF Grepping, Answered, Open, Complete
<1> QED
  BY <1>1, <1>2, <1>3 DEF GrepInv, GrepAnswersExpected

-----------------------------------------------------------------------------
(* get_logs.                                                               *)

LEMMA SameFile ==
  ASSUME UNCHANGED sysVars
  PROVE  File' = File /\ lines' = lines /\ published' = published /\ stored' = stored
         /\ registered' = registered
BY DEF sysVars, File, Mine

LEMMA SameRead ==
  ASSUME UNCHANGED sysVars, UNCHANGED <<req, pos>>
  PROVE  Read' = Read /\ Hits' = Hits /\ Answers' = Answers /\ Expected' = Expected
<1>1. File' = File /\ lines' = lines
  BY SameFile
<1>2. Read' = Read
  BY <1>1 DEF Read
<1>3. Hits' = Hits
  BY <1>1, <1>2 DEF Hits
<1> QED
  BY <1>2, <1>3, SameAnswers

(* A step of get_logs changes nothing that grep_logs has. *)
LEMMA GetLeavesGrep ==
  ASSUME TypeOK, GetInv, GrepInv, UNCHANGED sysVars, UNCHANGED <<req, before, pending, results>>,
         req.kind = "get", at' \notin {"open", "grep"}
  PROVE  GrepInv'
BY DEF GrepInv, GrepAnswersExpected

LEMMA GetTypes ==
  ASSUME TypeOK, UNCHANGED <<sysVars, grepVars, req>>,
         at' \in {"subscribe", "tail", "follow", "done"},
         pos' \in 0 .. Len(File), known' \in BOOLEAN, lagged' \in BOOLEAN,
         subscribed' \in 0 .. published, next' \in subscribed' .. published,
         window' \in Seq(Nat), Len(window') <= req.tail,
         sent' \in Seq([line : Nat, number : Nat])
  PROVE  TypeOK'
<1>1. File' = File /\ lines' = lines /\ published' = published /\ stored' = stored
      /\ registered' = registered /\ req' = req /\ before' = before /\ pending' = pending
      /\ results' = results
  BY SameFile DEF grepVars
<1>2. Match' = Match
  BY DEF Match
<1> QED
  BY <1>1, <1>2 DEF TypeOK

LEMMA ListSourcesInv ==
  ASSUME TypeOK, GetInv, GrepInv, ListSources
  PROVE  TypeOK' /\ GetInv' /\ GrepInv'
<1>1. /\ at = "list" /\ at' = "subscribe"
      /\ UNCHANGED <<sysVars, req, pos, subscribed, next, lagged, window, sent, grepVars>>
      /\ known' \in BOOLEAN
  BY DEF ListSources
<1>2. req.kind = "get"
  BY <1>1, RequestTypes DEF GetInv
<1>3. TypeOK'
  <2>1. /\ pos \in 0 .. Len(File) /\ lagged \in BOOLEAN /\ subscribed \in 0 .. published
        /\ next \in subscribed .. published /\ window \in Seq(Nat) /\ Len(window) <= req.tail
        /\ sent \in Seq([line : Nat, number : Nat])
    BY DEF TypeOK
  <2> QED
    BY <1>1, <2>1, GetTypes
<1>4. GetInv'
  BY <1>1, <1>2 DEF GetInv
<1>5. GrepInv'
  BY <1>1, <1>2, GetLeavesGrep DEF grepVars
<1> QED
  BY <1>3, <1>4, <1>5

LEMMA SubscribeInv ==
  ASSUME TypeOK, GetInv, GrepInv, Subscribe
  PROVE  TypeOK' /\ GetInv' /\ GrepInv'
<1>1. /\ at = "subscribe" /\ subscribed' = published /\ next' = published
      /\ at' = IF req.tail > 0 /\ known THEN "tail" ELSE IF req.follow THEN "follow" ELSE "done"
      /\ UNCHANGED <<sysVars, req, pos, known, lagged, window, sent, grepVars>>
  BY DEF Subscribe
<1>2. req.kind = "get" /\ pos = 0 /\ window = <<>> /\ sent = <<>> /\ ~lagged
  BY <1>1, RequestTypes DEF GetInv
<1>3. published \in Nat /\ req.tail \in Nat
  <2>1. lines \in Seq(Kind) /\ published \in 0 .. Len(lines)
    BY DEF TypeOK
  <2> QED
    BY <2>1, RequestTypes
<1>4. TypeOK'
  <2>1. /\ pos \in 0 .. Len(File) /\ lagged \in BOOLEAN /\ known \in BOOLEAN
        /\ window \in Seq(Nat) /\ Len(window) <= req.tail
        /\ sent \in Seq([line : Nat, number : Nat])
    BY DEF TypeOK
  <2>2. published \in 0 .. published /\ published \in published .. published
    BY <1>3
  <2>3. at' \in {"subscribe", "tail", "follow", "done"}
    BY <1>1
  <2>4. UNCHANGED <<sysVars, grepVars, req>> /\ UNCHANGED <<pos, known, lagged, window, sent>>
    BY <1>1
  <2> QED
    BY <1>1, <2>1, <2>2, <2>3, <2>4, GetTypes
<1>5. Count' = 0 /\ pos' = 0 /\ req' = req
  <2>1. Count = 0
    BY <1>2, CountIs
  <2> QED
    BY <1>1, <1>2, <2>1 DEF Count
<1>6. GetInv'
  <2>1. sent' = <<>> /\ window' = <<>> /\ ~lagged' /\ next' = subscribed' /\ known' = known
    BY <1>1, <1>2
  <2>2. at' = "tail" => Tailing'
    <3>1. Len(window') = 0
      BY <2>1
    <3> QED BY <1>1, <1>5, <2>1, <3>1 DEF Tailing
  <2>3. Sent' \/ at' = "tail"
    <3> SUFFICES ASSUME at' # "tail" PROVE Sent'
      OBVIOUS
    <3>1. ~known' \/ req'.tail = 0 => pos' = 0
      BY <1>5
    <3>2. Count' <= Len(sent') /\ Len(sent') = 0 /\ Count' = 0
      BY <1>5, <2>1
    <3>3. subscribed' + 1 .. next' = {}
      BY <1>1, <1>3
    <3> QED BY <3>1, <3>2, <3>3 DEF Sent
  <2> QED
    BY <1>1, <1>2, <2>2, <2>3 DEF GetInv
<1>7. GrepInv'
  BY <1>1, <1>2, GetLeavesGrep DEF grepVars
<1> QED
  BY <1>4, <1>6, <1>7

LEMMA TailLineInv ==
  ASSUME TypeOK, GetInv, GrepInv, TailLine
  PROVE  TypeOK' /\ GetInv' /\ GrepInv'
<1> DEFINE id == File[pos + 1]
<1>1. /\ at = "tail" /\ pos < Len(File) /\ pos' = pos + 1
      /\ window' = Append(IF Len(window) = req.tail THEN Tail(window) ELSE window, id)
      /\ UNCHANGED <<sysVars, req, at, known, subscribed, next, lagged, sent, grepVars>>
  BY DEF TailLine
<1>2. req.kind = "get" /\ Tailing
  BY <1>1, RequestTypes DEF GetInv
<1>3. /\ window \in Seq(Nat) /\ Len(window) = Count /\ req.tail \in Nat /\ req.tail > 0
      /\ \A n \in 1 .. Count : window[n] = File[pos - Count + n]
  BY <1>2, RequestTypes DEF TypeOK, Tailing
<1>4. pos \in Nat /\ Len(File) \in Nat /\ File \in Seq(Nat) /\ id \in Nat
  BY <1>1, TypesOfFile
<1>5. Count = (IF req.tail <= pos THEN req.tail ELSE pos) /\ Count \in Nat
  BY CountIs
<1>6. Count' = IF req.tail <= pos + 1 THEN req.tail ELSE pos + 1
  <2>1. Count' = Min({req.tail, pos + 1})
    BY <1>1 DEF Count
  <2>2. pos + 1 \in Nat
    BY <1>4
  <2> QED
    BY <1>3, <2>1, <2>2, MinOfTwo
<1> HIDE DEF id
<1> DEFINE w == window'
<1>7. w \in Seq(Nat) /\ Len(w) = Count' /\ \A n \in 1 .. Count' : w[n] = File[pos + 1 - Count' + n]
  <2>1. CASE req.tail <= pos
    <3> DEFINE t == Tail(window)
    <3>1. Count = req.tail /\ Count' = req.tail
      BY <1>3, <1>4, <1>5, <1>6, <2>1
    <3>2. t \in Seq(Nat) /\ Len(t) = Count - 1 /\ \A n \in 1 .. Count - 1 : t[n] = window[n + 1]
      BY <1>3, <3>1
    <3>3. w = Append(t, id)
      BY <1>1, <1>3, <3>1
    <3> HIDE DEF t, w
    <3>4. /\ w \in Seq(Nat) /\ Len(w) = Count /\ w[Count] = id
          /\ \A n \in 1 .. Count - 1 : w[n] = t[n]
      BY <1>3, <1>4, <1>5, <3>1, <3>2, <3>3
    <3>5. \A n \in 1 .. Count - 1 : w[n] = File[pos + 1 - Count + n]
      <4> SUFFICES ASSUME NEW n \in 1 .. Count - 1 PROVE w[n] = File[pos + 1 - Count + n]
        OBVIOUS
      <4>1. n + 1 \in 1 .. Count /\ pos - Count + (n + 1) = pos + 1 - Count + n
        BY <1>4, <1>5
      <4>2. w[n] = window[n + 1]
        BY <3>2, <3>4
      <4>3. window[n + 1] = File[pos - Count + (n + 1)]
        BY <1>3, <4>1
      <4> QED
        BY <4>1, <4>2, <4>3
    <3>6. pos + 1 - Count + Count = pos + 1
      BY <1>4, <1>5
    <3>7. \A n \in 1 .. Count : n = Count \/ n \in 1 .. Count - 1
      BY <1>5
    <3>8. \A n \in 1 .. Count : w[n] = File[pos + 1 - Count + n]
      <4> SUFFICES ASSUME NEW n \in 1 .. Count PROVE w[n] = File[pos + 1 - Count + n]
        OBVIOUS
      <4>1. CASE n = Count
        BY <3>4, <3>6, <4>1 DEF id
      <4>2. CASE n \in 1 .. Count - 1
        BY <3>5, <4>2
      <4> QED
        BY <3>7, <4>1, <4>2
    <3>9. Count' = Count
      BY <3>1
    <3> QED
      BY <3>4, <3>8, <3>9
  <2>2. CASE ~ (req.tail <= pos)
    <3>1. pos + 1 <= req.tail
      BY <1>3, <1>4, <2>2
    <3>2. Count = pos /\ Count' = pos + 1
      <4>1. Count = pos
        BY <1>5, <2>2
      <4>2. pos + 1 = req.tail \/ ~ (req.tail <= pos + 1)
        BY <1>3, <1>4, <3>1
      <4>3. Count' = pos + 1
        BY <1>6, <4>2
      <4> QED
        BY <4>1, <4>3
    <3>3. Len(window) = pos /\ pos # req.tail
      <4>1. Len(window) = pos
        BY <1>3, <3>2
      <4>2. pos # req.tail
        BY <1>4, <2>2
      <4> QED
        BY <4>1, <4>2
    <3>4. w = Append(window, id)
      BY <1>1, <3>3
    <3> HIDE DEF w
    <3>5. /\ w \in Seq(Nat) /\ Len(w) = pos + 1 /\ w[pos + 1] = id
          /\ \A n \in 1 .. pos : w[n] = window[n]
      BY <1>3, <1>4, <3>3, <3>4
    <3>6. \A n \in 1 .. pos : window[n] = File[n]
      <4>1. \A n \in 1 .. pos : pos - pos + n = n
        BY <1>4
      <4> QED
        BY <1>3, <3>2, <4>1
    <3>7. \A n \in 1 .. pos + 1 : pos + 1 - (pos + 1) + n = n /\ (n = pos + 1 \/ n \in 1 .. pos)
      BY <1>4
    <3>8. \A n \in 1 .. pos + 1 : w[n] = File[n]
      BY <3>5, <3>6, <3>7 DEF id
    <3>9. \A n \in 1 .. pos + 1 : w[n] = File[pos + 1 - (pos + 1) + n]
      BY <3>7, <3>8
    <3> QED
      BY <3>2, <3>5, <3>9
  <2> QED
    BY <2>1, <2>2
<1>8. TypeOK'
  <2>1. /\ lagged \in BOOLEAN /\ known \in BOOLEAN /\ subscribed \in 0 .. published
        /\ next \in subscribed .. published /\ sent \in Seq([line : Nat, number : Nat])
    BY DEF TypeOK
  <2>2. pos' \in 0 .. Len(File)
    BY <1>1, <1>4
  <2>3. Len(window') <= req.tail /\ window' \in Seq(Nat)
    BY <1>3, <1>4, <1>6, <1>7
  <2> QED
    BY <1>1, <2>1, <2>2, <2>3, GetTypes
<1>9. File' = File
  BY <1>1, SameFile
<1>10. Tailing'
  <2>1. \A n \in 1 .. Count' : window'[n] = File'[pos' - Count' + n]
    <3> SUFFICES ASSUME NEW n \in 1 .. Count' PROVE window'[n] = File'[pos' - Count' + n]
      OBVIOUS
    <3>1. window'[n] = File[pos + 1 - Count' + n]
      BY <1>7
    <3>2. pos' = pos + 1
      BY <1>1
    <3>3. Count' \in Nat /\ pos \in Nat
      BY <1>3, <1>4, <1>6
    <3>4. pos' - Count' + n = pos + 1 - Count' + n
      BY <3>2, <3>3
    <3>5. File'[pos' - Count' + n] = File[pos + 1 - Count' + n]
      BY <1>9, <3>4, Zenon
    <3> QED
      BY <3>1, <3>5, Zenon
  <2> QED
    BY <1>1, <1>2, <1>7, <2>1 DEF Tailing
<1>11. GetInv'
  BY <1>1, <1>2, <1>10 DEF GetInv
<1>12. GrepInv'
  BY <1>1, <1>2, GetLeavesGrep DEF grepVars
<1> QED
  BY <1>8, <1>11, <1>12

LEMMA SendTailInv ==
  ASSUME TypeOK, GetInv, GrepInv, SendTail
  PROVE  TypeOK' /\ GetInv' /\ GrepInv'
<1> DEFINE s == [n \in 1 .. Count |-> [line |-> window[n], number |-> pos - Count + n]]
<1>1. /\ at = "tail" /\ at' \in {"follow", "done"}
      /\ sent' = [n \in DOMAIN window |->
                    [line |-> window[n], number |-> pos - Len(window) + n]]
      /\ UNCHANGED <<sysVars, req, pos, known, subscribed, next, lagged, window, grepVars>>
  BY DEF SendTail
<1>2. req.kind = "get" /\ Tailing
  BY <1>1, RequestTypes DEF GetInv
<1>3. /\ window \in Seq(Nat) /\ Len(window) = Count /\ DOMAIN window = 1 .. Count
      /\ \A n \in 1 .. Count : window[n] = File[pos - Count + n] /\ window[n] \in Nat
      /\ known /\ req.tail # 0 /\ next = subscribed /\ ~lagged /\ subscribed \in Nat
  <2>1. window \in Seq(Nat) /\ Len(window) = Count /\ Count \in Nat
    BY <1>2, CountIs DEF TypeOK, Tailing
  <2>2. subscribed \in Nat
    <3>1. lines \in Seq(Kind) /\ published \in 0 .. Len(lines) /\ subscribed \in 0 .. published
      BY DEF TypeOK
    <3> QED BY <3>1
  <2> QED
    BY <1>2, <2>1, <2>2, RequestTypes DEF Tailing
<1>4. sent' = s
  BY <1>1, <1>3
<1>5. Count \in Nat /\ pos \in Nat /\ Count <= pos
  BY CountIs
<1>6. s \in Seq([line : Nat, number : Nat]) /\ Len(s) = Count
  <2>1. \A n \in 1 .. Count :
          [line |-> window[n], number |-> pos - Count + n] \in [line : Nat, number : Nat]
    BY <1>3, <1>5
  <2> QED
    BY <1>5, <2>1
<1>7. \A n \in 1 .. Count : s[n] = [line |-> File[pos - Count + n], number |-> pos - Count + n]
  BY <1>3
<1> HIDE DEF s
<1>8. TypeOK'
  <2>1. /\ lagged \in BOOLEAN /\ known \in BOOLEAN /\ subscribed \in 0 .. published
        /\ next \in subscribed .. published /\ pos \in 0 .. Len(File)
        /\ window \in Seq(Nat) /\ Len(window) <= req.tail
    BY DEF TypeOK
  <2>2. sent' \in Seq([line : Nat, number : Nat])
    BY <1>4, <1>6
  <2>3. at' \in {"subscribe", "tail", "follow", "done"}
    BY <1>1
  <2> QED
    BY <1>1, <2>1, <2>2, <2>3, GetTypes
<1>9. Count' = Count /\ File' = File
  BY <1>1, SameFile DEF Count
<1>10. Sent'
  <2>1. UNCHANGED <<req, pos, known, subscribed, next, lagged>>
    BY <1>1
  <2>2. ~ (~known \/ req.tail = 0)
    BY <1>3
  <2>3. Count' <= Len(sent') /\ Len(sent') = Count'
    BY <1>4, <1>5, <1>6, <1>9
  <2>4. Count + 1 .. Count = {} /\ subscribed + 1 .. next = {}
    BY <1>3, <1>5
  <2>5. \A n \in 1 .. Count : sent'[n] = [line |-> File[pos - Count + n], number |-> pos - Count + n]
    BY <1>4, <1>7
  <2> QED
    BY <1>9, <2>1, <2>2, <2>3, <2>4, <2>5 DEF Sent
<1>11. GetInv'
  BY <1>1, <1>2, <1>10 DEF GetInv
<1>12. GrepInv'
  BY <1>1, <1>2, GetLeavesGrep DEF grepVars
<1> QED
  BY <1>8, <1>11, <1>12

LEMMA FollowTypes ==
  ASSUME TypeOK, GetInv, at = "follow"
  PROVE  /\ req.kind = "get" /\ Sent /\ sent \in Seq([line : Nat, number : Nat])
         /\ published \in Nat /\ subscribed \in Nat /\ next \in Nat
         /\ subscribed <= next /\ next <= published /\ Len(sent) \in Nat
         /\ pos \in 0 .. Len(File) /\ known \in BOOLEAN /\ lagged \in BOOLEAN
         /\ subscribed \in 0 .. published /\ window \in Seq(Nat) /\ Len(window) <= req.tail
<1>1. req.kind = "get" /\ Sent
  BY RequestTypes DEF GetInv
<1>2. /\ lines \in Seq(Kind) /\ published \in 0 .. Len(lines) /\ subscribed \in 0 .. published
      /\ next \in subscribed .. published /\ sent \in Seq([line : Nat, number : Nat])
  BY DEF TypeOK
<1> QED
  BY <1>1, <1>2 DEF TypeOK

LEMMA FollowInv ==
  ASSUME TypeOK, GetInv, GrepInv, Follow
  PROVE  TypeOK' /\ GetInv' /\ GrepInv'
<1> DEFINE event == [line |-> next + 1, number |-> 0]
<1>1. /\ at = "follow" /\ next < published /\ next' = next + 1
      /\ sent' = IF Mine(next + 1) THEN Append(sent, event) ELSE sent
      /\ UNCHANGED <<sysVars, req, at, pos, known, subscribed, lagged, window, grepVars>>
  BY DEF Follow
<1>2. /\ req.kind = "get" /\ Sent /\ sent \in Seq([line : Nat, number : Nat])
      /\ published \in Nat /\ subscribed \in Nat /\ next \in Nat
      /\ subscribed <= next /\ Len(sent) \in Nat
  BY <1>1, FollowTypes
<1>3. event \in [line : Nat, number : Nat] /\ event.line = next + 1 /\ event.number = 0
  BY <1>2
<1> HIDE DEF event
<1>4. sent' \in Seq([line : Nat, number : Nat])
  <2>1. Append(sent, event) \in Seq([line : Nat, number : Nat])
    BY <1>2, <1>3
  <2>2. sent' = Append(sent, event) \/ sent' = sent
    BY <1>1
  <2> QED
    BY <1>2, <2>1, <2>2
<1>5. TypeOK'
  <2>1. next' \in subscribed .. published
    BY <1>1, <1>2
  <2>2. at' \in {"subscribe", "tail", "follow", "done"}
    BY <1>1
  <2> QED
    BY <1>1, <1>4, <2>1, <2>2, FollowTypes, GetTypes
<1>6. /\ Count' = Count /\ File' = File /\ Count \in Nat
      /\ \A id : Mine(id)' <=> Mine(id)
      /\ UNCHANGED <<req, pos, known, subscribed, lagged>>
  BY <1>1, SameFile, CountIs DEF Count, Mine
<1>7. Sent'
  <2>1. CASE ~ Mine(next + 1)
    <3>1. sent' = sent
      BY <1>1, <2>1
    <3>2. \A id \in subscribed + 1 .. next' : id = next + 1 \/ id \in subscribed + 1 .. next
      BY <1>1, <1>2
    <3>3. subscribed + 1 .. next \subseteq subscribed + 1 .. next'
      BY <1>1, <1>2
    <3>4. ~lagged => \A id \in subscribed + 1 .. next' : Mine(id) =>
            \E n \in Count + 1 .. Len(sent) : sent[n].line = id
      BY <1>2, <2>1, <3>2 DEF Sent
    <3>5. \A n \in Count + 1 .. Len(sent) :
            sent[n].number = 0 /\ sent[n].line \in subscribed + 1 .. next'
      BY <1>2, <3>3 DEF Sent
    <3> QED
      BY <1>2, <1>6, <3>1, <3>4, <3>5 DEF Sent
  <2>2. CASE Mine(next + 1)
    <3> DEFINE t == Append(sent, event)
               c == Count
               L == Len(sent)
    <3>1. sent' = t /\ c \in Nat /\ L \in Nat /\ c <= L
      BY <1>1, <1>2, <1>6, <2>2 DEF Sent
    <3>2. /\ Len(t) = L + 1 /\ t[L + 1] = event /\ \A n \in 1 .. L : t[n] = sent[n]
      BY <1>2, <1>3
    <3> HIDE DEF t
    <3>3. \A n \in 1 .. c : n \in 1 .. L
      BY <3>1
    <3>4. \A n \in c + 1 .. L + 1 : n = L + 1 \/ (n \in c + 1 .. L /\ n \in 1 .. L)
      BY <3>1
    <3>5. \A n \in 1 .. c : t[n] = [line |-> File[pos - c + n], number |-> pos - c + n]
      BY <1>2, <3>2, <3>3 DEF Sent
    <3>6. \A n \in c + 1 .. L : sent[n].number = 0 /\ sent[n].line \in subscribed + 1 .. next
      BY <1>2 DEF Sent
    <3>7. ASSUME NEW n \in c + 1 .. L + 1
          PROVE  t[n].number = 0 /\ t[n].line \in subscribed + 1 .. next + 1
      <4>1. CASE n = L + 1
        BY <1>2, <1>3, <3>2, <4>1
      <4>2. CASE n \in c + 1 .. L /\ n \in 1 .. L
        <5>1. t[n] = sent[n]
          BY <3>2, <4>2
        <5>2. sent[n].number = 0 /\ sent[n].line \in subscribed + 1 .. next
          BY <3>6, <4>2
        <5>3. subscribed + 1 .. next \subseteq subscribed + 1 .. next + 1
          BY <1>2
        <5> QED
          BY <5>1, <5>2, <5>3, Zenon
      <4> QED
        BY <3>4, <4>1, <4>2
    <3>8. ASSUME NEW m \in c + 1 .. L + 1, NEW n \in c + 1 .. L + 1, m < n
          PROVE  t[m].line < t[n].line
      <4>1. m \in c + 1 .. L /\ m \in 1 .. L
        BY <3>1, <3>8
      <4>2. CASE n = L + 1
        <5>1. t[m].line \in subscribed + 1 .. next
          BY <3>2, <3>6, <4>1
        <5>2. t[n].line = next + 1
          BY <1>3, <3>2, <4>2
        <5> QED
          BY <1>2, <5>1, <5>2
      <4>3. CASE n \in c + 1 .. L /\ n \in 1 .. L
        <5>1. t[m] = sent[m] /\ t[n] = sent[n]
          BY <3>2, <4>1, <4>3
        <5> QED
          BY <1>2, <3>8, <4>1, <4>3, <5>1 DEF Sent
      <4> QED
        BY <3>4, <4>2, <4>3
    <3>9. ASSUME ~lagged, NEW id \in subscribed + 1 .. next + 1, Mine(id)
          PROVE  \E n \in c + 1 .. L + 1 : t[n].line = id
      <4>1. CASE id = next + 1
        <5>1. L + 1 \in c + 1 .. L + 1
          BY <3>1
        <5> QED
          BY <1>3, <3>2, <4>1, <5>1
      <4>2. CASE id \in subscribed + 1 .. next
        <5>1. PICK n \in c + 1 .. L : sent[n].line = id
          BY <1>2, <3>9, <4>2 DEF Sent
        <5>2. n \in 1 .. L /\ n \in c + 1 .. L + 1
          BY <3>1
        <5> QED
          BY <3>2, <5>1, <5>2
      <4> QED
        BY <1>2, <4>1, <4>2
    <3>10. next' = next + 1 /\ Len(sent') = L + 1 /\ sent' = t /\ Count' = c /\ c <= L + 1
      BY <1>1, <1>6, <3>1, <3>2
    <3>11. ~known \/ req.tail = 0 => pos = 0
      BY <1>2 DEF Sent
    <3> HIDE DEF c, L
    <3> QED
      BY <1>6, <3>5, <3>7, <3>8, <3>9, <3>10, <3>11 DEF Sent
  <2> QED
    BY <2>1, <2>2
<1>8. GetInv'
  BY <1>1, <1>2, <1>7 DEF GetInv
<1>9. GrepInv'
  BY <1>1, <1>2, GetLeavesGrep DEF grepVars
<1> QED
  BY <1>5, <1>8, <1>9

LEMMA LagInv ==
  ASSUME TypeOK, GetInv, GrepInv, Lag
  PROVE  TypeOK' /\ GetInv' /\ GrepInv'
<1>1. /\ at = "follow" /\ published - next > RingCap /\ next' = published - RingCap
      /\ lagged' = TRUE
      /\ UNCHANGED <<sysVars, req, at, pos, known, subscribed, window, sent, grepVars>>
  BY DEF Lag
<1>2. /\ req.kind = "get" /\ Sent /\ published \in Nat /\ subscribed \in Nat /\ next \in Nat
      /\ subscribed <= next /\ RingCap \in Nat
  BY <1>1, FollowTypes, RequestTypes
<1>3. next' \in subscribed .. published /\ next <= next'
  BY <1>1, <1>2
<1>4. TypeOK'
  <2>1. at' \in {"subscribe", "tail", "follow", "done"} /\ lagged' \in BOOLEAN
    BY <1>1
  <2> QED
    BY <1>1, <1>3, <2>1, FollowTypes, GetTypes
<1>5. Count' = Count /\ File' = File /\ UNCHANGED <<req, pos, known, subscribed, sent>>
  BY <1>1, SameFile DEF Count
<1>6. subscribed + 1 .. next \subseteq subscribed + 1 .. next'
  BY <1>2, <1>3
<1>7. \A n \in Count + 1 .. Len(sent) :
        sent[n].number = 0 /\ sent[n].line \in subscribed + 1 .. next'
  BY <1>2, <1>6 DEF Sent
<1>8. Sent'
  BY <1>1, <1>2, <1>5, <1>7 DEF Sent
<1>9. GetInv'
  BY <1>1, <1>2, <1>8 DEF GetInv
<1>10. GrepInv'
  BY <1>1, <1>2, GetLeavesGrep DEF grepVars
<1> QED
  BY <1>4, <1>9, <1>10

-----------------------------------------------------------------------------
(* grep_logs.                                                              *)

(* A match among what was read, b lines before it and a after it. *)
InContext(read, n, b, a) ==
  [line   |-> read[n],
   before |-> LastOf(b, SubSeq(read, 1, n - 1)),
   after  |-> SubSeq(read, n + 1, Min({Len(read), n + a}))]

LEMMA AnswersAre ==
  /\ Answers = [k \in DOMAIN Hits |-> InContext(Read, Hits[k], req.before, req.after)]
  /\ Answers' = [k \in DOMAIN Hits' |-> InContext(Read', Hits'[k], req'.before, req'.after)]
BY DEF Answers, Context, InContext

(* How the pieces of a sequence grow with it. *)
PieceKept(S, s, x, m, n) ==
  /\ SubSeq(Append(s, x), m, n) = SubSeq(s, m, n)
  /\ SubSeq(s, m, n) \in Seq(S) /\ Len(SubSeq(s, m, n)) = n + 1 - m
  /\ SubSeq(Append(s, x), m, Len(s) + 1) = Append(SubSeq(s, m, Len(s)), x)

LEMMA PieceGrows ==
  ASSUME NEW S, NEW s \in Seq(S), NEW x \in S, NEW m \in Nat, NEW n \in Nat,
         1 <= m, m <= n + 1, n <= Len(s)
  PROVE  PieceKept(S, s, x, m, n)
<1> DEFINE t == Append(s, x)
           u == SubSeq(s, m, n)
           v == SubSeq(t, m, n)
           p == SubSeq(s, m, Len(s))
           q == SubSeq(t, m, Len(s) + 1)
<1>1. /\ t \in Seq(S) /\ Len(t) = Len(s) + 1 /\ Len(s) \in Nat /\ t[Len(s) + 1] = x
      /\ \A k \in 1 .. Len(s) : t[k] = s[k]
  OBVIOUS
<1> HIDE DEF t
<1>2. /\ u \in Seq(S) /\ Len(u) = n + 1 - m
      /\ \A k \in 1 .. n + 1 - m : u[k] = s[m + k - 1]
  OBVIOUS
<1>3. /\ v \in Seq(S) /\ Len(v) = n + 1 - m
      /\ \A k \in 1 .. n + 1 - m : v[k] = t[m + k - 1]
  BY <1>1
<1>4. /\ p \in Seq(S) /\ Len(p) = Len(s) + 1 - m
      /\ \A k \in 1 .. Len(s) + 1 - m : p[k] = s[m + k - 1]
  BY <1>1
<1>5. /\ q \in Seq(S) /\ Len(q) = Len(s) + 2 - m
      /\ \A k \in 1 .. Len(s) + 2 - m : q[k] = t[m + k - 1]
  BY <1>1
<1> HIDE DEF u, v, p, q
<1>6. u = v
  <2>1. \A k \in 1 .. Len(u) : u[k] = v[k]
    <3>1. \A k \in 1 .. n + 1 - m : m + k - 1 \in 1 .. Len(s)
      BY <1>1
    <3> QED BY <1>1, <1>2, <1>3, <3>1
  <2> QED BY <1>2, <1>3, <2>1, SameSequence
<1>7. q = Append(p, x)
  <2> DEFINE w == Append(p, x)
  <2>1. /\ w \in Seq(S) /\ Len(w) = Len(s) + 2 - m /\ w[Len(s) + 2 - m] = x
        /\ \A k \in 1 .. Len(s) + 1 - m : w[k] = p[k]
    BY <1>1, <1>4
  <2> HIDE DEF w
  <2>2. ASSUME NEW k \in 1 .. Len(q) PROVE q[k] = w[k]
    <3>1. CASE k = Len(s) + 2 - m
      <4>1. m + k - 1 = Len(s) + 1
        BY <1>1, <3>1
      <4> QED BY <1>1, <1>5, <2>1, <3>1, <4>1
    <3>2. CASE k \in 1 .. Len(s) + 1 - m
      <4>1. m + k - 1 \in 1 .. Len(s)
        BY <1>1, <3>2
      <4> QED BY <1>1, <1>4, <1>5, <2>1, <3>2, <4>1
    <3>3. k = Len(s) + 2 - m \/ k \in 1 .. Len(s) + 1 - m
      <4>1. k \in 1 .. Len(s) + 2 - m
        BY <1>5
      <4> QED BY <1>1, <4>1
    <3> QED BY <3>1, <3>2, <3>3
  <2>3. q = w
    BY <1>5, <2>1, <2>2, SameSequence
  <2> QED BY <2>3 DEF w
<1> QED
  BY <1>2, <1>6, <1>7, Zenon DEF PieceKept, t, u, v, p, q

(* One more line is context of the matches that are short of it, and of no
   other. *)
LEMMA ContextGrows ==
  ASSUME NEW read \in Seq(Nat), NEW id \in Nat, NEW b \in Nat, NEW a \in Nat,
         NEW n \in 1 .. Len(read)
  PROVE  LET old == InContext(read, n, b, a)
             new == InContext(Append(read, id), n, b, a)
         IN  /\ Len(old.after) = a <=> n + a <= Len(read)
             /\ Len(new.after) = a <=> n + a <= Len(read) + 1
             /\ n + a <= Len(read) => new = old
             /\ n + a > Len(read) => new = [old EXCEPT !.after = Append(@, id)]
<1> DEFINE N == Len(read)
           more == Append(read, id)
           c == IF N <= n + a THEN N ELSE n + a
           d == IF N + 1 <= n + a THEN N + 1 ELSE n + a
<1>1. N \in Nat /\ n \in Nat /\ 1 <= n /\ n <= N /\ n + a \in Nat /\ N + 1 \in Nat /\ Len(more) = N + 1
  OBVIOUS
<1>2. Min({N, n + a}) = c /\ Min({N + 1, n + a}) = d
  <2> HIDE DEF N
  <2> QED BY <1>1, MinOfTwo
<1>3. more[n] = read[n]
  OBVIOUS
<1>4. SubSeq(more, 1, n - 1) = SubSeq(read, 1, n - 1)
  <2> DEFINE m == n - 1
  <2>1. m \in Nat /\ 1 \in Nat /\ 1 <= 1 /\ 1 <= m + 1 /\ m <= Len(read)
    BY <1>1
  <2> HIDE DEF N, m
  <2>2. PieceKept(Nat, read, id, 1, m)
    BY <2>1, PieceGrows, Zenon
  <2> QED BY <2>2, Zenon DEF PieceKept, m, more
<1>5. c \in Nat /\ n + 1 \in Nat /\ 1 <= n + 1 /\ n + 1 <= c + 1 /\ c <= Len(read)
  BY <1>1
<1>6. /\ SubSeq(more, n + 1, c) = SubSeq(read, n + 1, c)
      /\ Len(SubSeq(read, n + 1, c)) = c + 1 - (n + 1)
      /\ SubSeq(more, n + 1, Len(read) + 1) = Append(SubSeq(read, n + 1, Len(read)), id)
  <2> DEFINE m == n + 1
  <2>1. c \in Nat /\ m \in Nat /\ 1 <= m /\ m <= c + 1 /\ c <= Len(read)
    BY <1>5
  <2> HIDE DEF c, N, m
  <2>2. PieceKept(Nat, read, id, m, c)
    BY <2>1, PieceGrows, Zenon
  <2> QED BY <2>2, Zenon DEF PieceKept, m, more
<1>7. SubSeq(read, n + 1, N) \in Seq(Nat) /\ Len(SubSeq(read, n + 1, N)) = N - n
  <2>1. N \in Nat /\ n + 1 <= N + 1 /\ N <= Len(read) /\ n + 1 \in Nat /\ 1 <= n + 1
    BY <1>1
  <2>2. /\ SubSeq(read, n + 1, N) \in Seq(Nat)
        /\ Len(SubSeq(read, n + 1, N)) = N + 1 - (n + 1)
    <3> DEFINE m == n + 1
    <3> HIDE DEF N, m
    <3>1. PieceKept(Nat, read, id, m, N)
      BY <2>1, PieceGrows, Zenon DEF m
    <3> QED BY <3>1, Zenon DEF PieceKept, m
  <2> HIDE DEF N
  <2> QED BY <1>1, <2>2
<1> DEFINE old == InContext(read, n, b, a)
           new == InContext(more, n, b, a)
           first == LastOf(b, SubSeq(read, 1, n - 1))
<1>8. old = [line |-> read[n], before |-> first, after |-> SubSeq(read, n + 1, c)]
  <2> HIDE DEF c
  <2> QED BY <1>2 DEF InContext
<1>9. new = [line |-> read[n], before |-> first, after |-> SubSeq(more, n + 1, d)]
  <2> HIDE DEF d, more
  <2> QED BY <1>1, <1>2, <1>3, <1>4 DEF InContext
<1> HIDE DEF old, new, first, more
<1>10. CASE n + a <= N
  <2>1. c = n + a /\ d = n + a
    BY <1>1, <1>10
  <2>2. new = old
    BY <1>6, <1>8, <1>9, <2>1
  <2>3. Len(old.after) = a
    BY <1>1, <1>6, <1>8, <2>1
  <2> QED
    BY <1>1, <1>10, <2>2, <2>3 DEF old, new, more
<1>11. CASE n + a > N
  <2>1. c = N /\ d = N + 1
    BY <1>1, <1>11
  <2>2. new = [line |-> read[n], before |-> first, after |-> Append(SubSeq(read, n + 1, N), id)]
    BY <1>6, <1>9, <2>1
  <2>3. old = [line |-> read[n], before |-> first, after |-> SubSeq(read, n + 1, N)]
    BY <1>8, <2>1
  <2>4. new = [old EXCEPT !.after = Append(@, id)]
    <3> DEFINE l == read[n]
               x == SubSeq(read, n + 1, N)
               y == Append(x, id)
    <3>1. /\ old = [line |-> l, before |-> first, after |-> x]
          /\ new = [line |-> l, before |-> first, after |-> y]
      BY <2>2, <2>3
    <3>2. old.after = x
      BY <3>1
    <3> HIDE DEF l, x
    <3>3. [old EXCEPT !.after = Append(@, id)] = [line |-> l, before |-> first, after |-> y]
      <4> HIDE DEF y
      <4>1. [old EXCEPT !.after = y] = [line |-> l, before |-> first, after |-> y]
        BY <3>1
      <4>2. [old EXCEPT !.after = Append(@, id)] = [old EXCEPT !.after = y]
        BY <3>2 DEF y
      <4> QED BY <4>1, <4>2
    <3> HIDE DEF y
    <3> QED BY <3>1, <3>3
  <2>5. Len(old.after) = N - n /\ Len(new.after) = N - n + 1
    BY <1>7, <2>2, <2>3
  <2> HIDE DEF c, d
  <2>6. (Len(old.after) = a <=> n + a <= N) /\ (Len(new.after) = a <=> n + a <= N + 1)
    <3> HIDE DEF N
    <3>1. (N - n = a <=> n + a <= N) /\ (N - n + 1 = a <=> n + a <= N + 1)
      BY <1>1, <1>11
    <3> QED BY <2>5, <3>1, Zenon
  <2>7. ~ (n + a <= N)
    BY <1>1, <1>11
  <2> QED
    BY <2>4, <2>6, <2>7 DEF old, new, more
<1> QED
  BY <1>1, <1>10, <1>11

LEMMA ContextOfLast ==
  ASSUME NEW read \in Seq(Nat), NEW id \in Nat, NEW b \in Nat, NEW a \in Nat
  PROVE  InContext(Append(read, id), Len(read) + 1, b, a) =
           [line |-> id, before |-> LastOf(b, read), after |-> <<>>]
<1> DEFINE N == Len(read)
           more == Append(read, id)
<1>1. N \in Nat /\ N + 1 \in Nat /\ N + 1 + a \in Nat /\ Len(more) = N + 1 /\ more[N + 1] = id
  OBVIOUS
<1>2. Min({N + 1, N + 1 + a}) = N + 1
  <2> HIDE DEF N
  <2>1. N + 1 <= N + 1 + a
    BY <1>1
  <2> QED BY <1>1, <2>1, MinOfTwo
<1>3. SubSeq(more, 1, (N + 1) - 1) = read
  <2>1. (N + 1) - 1 = N
    BY <1>1
  <2>2. SubSeq(more, 1, N) = read
    OBVIOUS
  <2> QED BY <2>1, <2>2
<1>4. SubSeq(more, (N + 1) + 1, N + 1) = <<>>
  <2>1. more \in Seq(Nat)
    OBVIOUS
  <2> HIDE DEF more, N
  <2> QED BY <1>1, <2>1
<1> HIDE DEF more, N
<1>5. InContext(more, N + 1, b, a) = [line |-> id, before |-> LastOf(b, read), after |-> <<>>]
  BY <1>1, <1>2, <1>3, <1>4 DEF InContext
<1> QED
  BY <1>5 DEF more, N

(* No more open matches than lines of context after them, and the line just
   read. *)
LEMMA OpenBound ==
  ASSUME NEW h \in Seq(Nat), Rising(h), NEW q \in 0 .. Len(h), NEW N \in Nat, NEW a \in Nat,
         \A k \in 1 .. q : LET n == h[(Len(h) - q) + k] IN n <= N /\ (n + a > N \/ n = N)
  PROVE  q <= a + 1
<1> DEFINE m == (Len(h) - q) + 1
           n == Len(h)
<1>1. CASE q = 0
  BY <1>1
<1>2. CASE q > 0
  <2>1. /\ m \in DOMAIN h /\ n \in DOMAIN h /\ m <= n /\ n - m = q - 1
        /\ 1 \in 1 .. q /\ q \in 1 .. q /\ (Len(h) - q) + q = n /\ q \in Nat
        /\ h[m] \in Nat /\ h[n] \in Nat /\ n \in Nat /\ m \in Nat
    BY <1>2
  <2>2. /\ h[m] <= N /\ (h[m] + a > N \/ h[m] = N) /\ h[n] <= N
    BY <2>1
  <2> HIDE DEF m, n
  <2>3. h[m] + (n - m) <= h[n]
    BY <2>1, RisingGap
  <2> DEFINE x == h[m]
             y == h[n]
  <2>4. x \in Nat /\ y \in Nat /\ x + (q - 1) <= y /\ y <= N /\ (x + a > N \/ x = N)
    BY <2>1, <2>2, <2>3
  <2> HIDE DEF x, y
  <2> QED
    BY <2>4
<1> QED
  BY <1>1, <1>2

(* What grep_logs has answered (res) and has open (pen), having read that. *)
StateOf(read, h, b, a, res, pen) ==
  /\ h \in Seq(Nat) /\ Rising(h) /\ \A k \in 1 .. Len(h) : h[k] \in 1 .. Len(read)
  /\ res \in Seq(Match) /\ pen \in Seq(Match)
  /\ res \o pen = [k \in DOMAIN h |-> InContext(read, h[k], b, a)]
  /\ \A k \in DOMAIN res : Len(res[k].after) = a
  /\ \A k \in DOMAIN pen :
       h[Len(res) + k] + a > Len(read) \/ h[Len(res) + k] = Len(read)

Fed(pen, id, a) ==
  [n \in DOMAIN pen |-> IF Len(pen[n].after) = a THEN pen[n]
                        ELSE [pen[n] EXCEPT !.after = Append(@, id)]]

Full(fed, a) == {n \in DOMAIN fed : Len(fed[n].after) = a}

(* The answered matches and the open ones, one after the other. *)
PartsOf(read, h, b, a, res, pen) ==
  /\ Len(res) \in Nat /\ Len(pen) \in Nat /\ Len(h) = Len(res) + Len(pen)
  /\ \A k \in 1 .. Len(res) : res[k] = InContext(read, h[k], b, a) /\ Len(res[k].after) = a
  /\ \A k \in 1 .. Len(pen) : pen[k] = InContext(read, h[Len(res) + k], b, a)

LEMMA StateParts ==
  ASSUME NEW read, NEW h, NEW b, NEW a, NEW res, NEW pen, StateOf(read, h, b, a, res, pen)
  PROVE  PartsOf(read, h, b, a, res, pen)
<1> DEFINE all == res \o pen
           In(n) == InContext(read, n, b, a)
           s == [k \in DOMAIN h |-> In(h[k])]
           r == Len(res)
           p == Len(pen)
<1>1. /\ res \in Seq(Match) /\ pen \in Seq(Match) /\ h \in Seq(Nat) /\ all = s
      /\ \A k \in DOMAIN res : Len(res[k].after) = a
  BY DEF StateOf
<1>2. /\ r \in Nat /\ p \in Nat /\ DOMAIN all = 1 .. r + p /\ Len(h) \in Nat
      /\ DOMAIN res = 1 .. r /\ DOMAIN h = 1 .. Len(h)
      /\ \A k \in 1 .. r : all[k] = res[k]
      /\ \A k \in 1 .. p : all[r + k] = pen[k]
  <2>1. res \in Seq(Match) /\ pen \in Seq(Match) /\ h \in Seq(Nat)
    BY <1>1
  <2> HIDE DEF s
  <2>2. r \in Nat /\ p \in Nat /\ Len(h) \in Nat /\ DOMAIN res = 1 .. r /\ DOMAIN h = 1 .. Len(h)
    BY <2>1
  <2>3. all \in Seq(Match) /\ Len(all) = r + p
    BY <2>1
  <2>4. DOMAIN all = 1 .. Len(all)
    <3> HIDE DEF all, r, p
    <3> QED BY <2>3
  <2>5. \A k \in 1 .. r : all[k] = res[k]
    BY <2>1
  <2>6. \A k \in 1 .. p : all[r + k] = pen[k]
    BY <2>1
  <2> HIDE DEF all, r, p
  <2> QED
    BY <2>2, <2>3, <2>4, <2>5, <2>6
<1> HIDE DEF all, In
<1>3. DOMAIN s = DOMAIN h /\ \A k \in DOMAIN h : s[k] = In(h[k])
  OBVIOUS
<1> HIDE DEF s, r, p
<1>4. Len(h) = r + p
  <2>1. 1 .. Len(h) = 1 .. r + p
    BY <1>1, <1>2, <1>3
  <2> DEFINE L == Len(h)
             q == r + p
  <2>2. L \in Nat /\ q \in Nat /\ 1 .. L = 1 .. q
    <3>1. L \in Nat /\ q \in Nat
      BY <1>2
    <3>2. 1 .. L = 1 .. q
      BY <2>1, Zenon
    <3> QED BY <3>1, <3>2
  <2> HIDE DEF L, q
  <2>3. L = q
    <3>1. L \in 1 .. L \/ L = 0
      BY <2>2
    <3>2. q \in 1 .. q \/ q = 0
      BY <2>2
    <3>3. (L \in 1 .. q \/ L = 0) /\ (q \in 1 .. L \/ q = 0)
      BY <2>2, <3>1, <3>2
    <3>4. L <= q /\ q <= L
      BY <2>2, <3>3
    <3> QED
      BY <2>2, <3>4
  <2> QED
    BY <2>3 DEF L, q
<1>5. \A k \in 1 .. r : k \in DOMAIN h
  BY <1>2, <1>4
<1>6. \A k \in 1 .. p : r + k \in DOMAIN h
  BY <1>2, <1>4
<1>7. \A k \in 1 .. r : res[k] = In(h[k]) /\ Len(res[k].after) = a
  BY <1>1, <1>2, <1>3, <1>5
<1>8. \A k \in 1 .. p : pen[k] = In(h[r + k])
  BY <1>1, <1>2, <1>3, <1>6
<1> QED
  BY <1>2, <1>4, <1>7, <1>8 DEF r, p, In, PartsOf

LEMMA StateIs ==
  ASSUME NEW read, NEW h, NEW b, NEW a, NEW res, NEW pen, StateOf(read, h, b, a, res, pen)
  PROVE  Len(res) \in Nat /\ Len(pen) \in Nat /\ Len(h) = Len(res) + Len(pen)
<1>1. PartsOf(read, h, b, a, res, pen)
  BY StateParts
<1> QED
  BY <1>1, Zenon DEF PartsOf

WellFed(fed, pen, id, a) ==
  /\ fed \in Seq(Match) /\ Len(fed) = Len(pen)
  /\ \A k \in 1 .. Len(pen) :
       fed[k] = IF Len(pen[k].after) = a THEN pen[k]
                ELSE [pen[k] EXCEPT !.after = Append(@, id)]

LEMMA FedIs ==
  ASSUME NEW pen \in Seq(Match), NEW id \in Nat, NEW a
  PROVE  WellFed(Fed(pen, id, a), pen, id, a)
<1> DEFINE e(n) == IF Len(pen[n].after) = a THEN pen[n]
                   ELSE [pen[n] EXCEPT !.after = Append(@, id)]
           p == Len(pen)
<1>1. ASSUME NEW n \in 1 .. p PROVE e(n) \in Match
  <2>1. pen[n] \in Match
    OBVIOUS
  <2>2. Append(pen[n].after, id) \in Seq(Nat)
    BY <2>1 DEF Match
  <2>3. [pen[n] EXCEPT !.after = Append(@, id)] \in Match
    BY <2>1, <2>2 DEF Match
  <2> QED
    BY <2>1, <2>3
<1>2. DOMAIN pen = 1 .. p /\ p \in Nat
  OBVIOUS
<1> HIDE DEF p
<1>3. Fed(pen, id, a) = [n \in 1 .. p |-> e(n)]
  BY <1>2 DEF Fed
<1> HIDE DEF e
<1>4. /\ Fed(pen, id, a) \in Seq(Match) /\ Len(Fed(pen, id, a)) = p
      /\ \A k \in 1 .. p : Fed(pen, id, a)[k] = e(k)
  BY <1>1, <1>2, <1>3
<1> QED
  BY <1>4 DEF WellFed, p, e

(* Where at most the first is full, Pick takes it or nothing, and leaves the
   others. *)
Picked(f, res, fed, full, found, open) ==
  /\ f <= Len(fed)
  /\ found \in Seq(Match) /\ Len(found) = Len(res) + f
  /\ \A k \in 1 .. Len(res) : found[k] = res[k]
  /\ f = 1 => found[Len(res) + 1] = fed[1]
  /\ open \in Seq(Match) /\ Len(open) = Len(fed) - f
  /\ \A k \in 1 .. Len(fed) - f : open[k] = fed[f + k]
  /\ \A k \in 1 .. Len(fed) : k \in full <=> k <= f

LEMMA PickFull ==
  ASSUME NEW res \in Seq(Match), NEW fed \in Seq(Match), NEW full,
         full = {} \/ (full = {1} /\ 1 <= Len(fed))
  PROVE  \E f \in {0, 1} :
           Picked(f, res, fed, full, res \o Pick(fed, full), Pick(fed, DOMAIN fed \ full))
<1> DEFINE p == Len(fed)
           r == Len(res)
<1>1. p \in Nat /\ DOMAIN fed = 1 .. p /\ r \in Nat
  OBVIOUS
<1>2. CASE full = {}
  <2>1. Pick(fed, full) = <<>>
    BY <1>2, PickNone
  <2>2. res \o <<>> = res
    OBVIOUS
  <2>3. DOMAIN fed \ full = 0 + 1 .. p /\ 0 \in 0 .. p
    BY <1>1, <1>2
  <2>4. Pick(fed, 0 + 1 .. p) = SubSeq(fed, 0 + 1, p)
    BY <2>3, PickRest
  <2>5. SubSeq(fed, 0 + 1, p) = fed
    OBVIOUS
  <2> HIDE DEF p, r
  <2>6. \A k \in 1 .. p - 0 : 0 + k = k
    BY <1>1
  <2>7. p - 0 = p /\ r + 0 = r /\ 0 <= p /\ \A k \in 1 .. p : ~ (k <= 0)
    BY <1>1
  <2> DEFINE found == res \o Pick(fed, full)
             open  == Pick(fed, DOMAIN fed \ full)
  <2>8. found = res
    BY <2>1, <2>2
  <2>9. open = fed
    BY <2>3, <2>4, <2>5
  <2> HIDE DEF found, open
  <2>10. /\ 0 <= p /\ found \in Seq(Match) /\ Len(found) = r + 0
         /\ \A k \in 1 .. r : found[k] = res[k]
         /\ open \in Seq(Match) /\ Len(open) = p - 0
         /\ \A k \in 1 .. p - 0 : open[k] = fed[0 + k]
         /\ \A k \in 1 .. p : k \in full <=> k <= 0
    BY <1>2, <2>6, <2>7, <2>8, <2>9 DEF p, r
  <2>11. ~ (0 = 1)
    OBVIOUS
  <2> WITNESS 0 \in {0, 1}
  <2> QED
    BY <2>10, <2>11 DEF Picked, p, r, found, open
<1>3. CASE full = {1} /\ 1 <= p
  <2>1. Pick(fed, full) = <<fed[1]>> /\ fed[1] \in Match
    BY <1>1, <1>3, PickFirst
  <2>2. DOMAIN fed \ full = 1 + 1 .. p /\ 1 \in 0 .. p
    BY <1>1, <1>3
  <2>3. Pick(fed, 1 + 1 .. p) = SubSeq(fed, 1 + 1, p)
    BY <2>2, PickRest
  <2> DEFINE open == SubSeq(fed, 2, p)
             x == fed[1]
             found == res \o <<x>>
  <2>4. open \in Seq(Match) /\ Len(open) = p - 1 /\ \A k \in 1 .. p - 1 : open[k] = fed[1 + k]
    <3>1. 2 \in Nat /\ 2 <= p + 1 /\ p <= Len(fed) /\ p \in Nat /\ p + 1 - 2 = p - 1
      BY <1>1, <1>3
    <3>2. \A k \in 1 .. p - 1 : open[k] = fed[2 + k - 1] /\ 2 + k - 1 = 1 + k
      BY <1>1, <1>3
    <3>3. open \in Seq(Match) /\ Len(open) = p - 1
      <4>1. open \in Seq(Match)
        BY <1>1, <1>3
      <4>2. Len(open) = p - 1
        BY <1>1, <1>3
      <4> QED BY <4>1, <4>2
    <3> HIDE DEF open, p
    <3> QED BY <3>2, <3>3
  <2>5. Pick(fed, DOMAIN fed \ full) = open
    <3>1. 1 + 1 = 2
      OBVIOUS
    <3> HIDE DEF p
    <3>2. Pick(fed, DOMAIN fed \ full) = SubSeq(fed, 1 + 1, p)
      BY <2>2, <2>3
    <3> QED BY <3>1, <3>2
  <2> HIDE DEF x
  <2>6. /\ found \in Seq(Match) /\ Len(found) = r + 1 /\ found[r + 1] = x
        /\ \A k \in 1 .. r : found[k] = res[k]
    BY <2>1 DEF x
  <2>7. res \o Pick(fed, full) = found
    BY <2>1 DEF x
  <2>8. \A k \in 1 .. p : k \in full <=> k <= 1
    BY <1>1, <1>3
  <2> HIDE DEF found, open, p, r
  <2> WITNESS 1 \in {0, 1}
  <2> QED
    BY <1>3, <2>4, <2>5, <2>6, <2>7, <2>8 DEF Picked, p, r, x
<1> QED
  BY <1>2, <1>3

(* The line completes f of the open matches. *)
Stepped(f, more, h, b, a, res, pen, found, open) ==
  /\ f <= Len(pen) /\ Len(h) = Len(res) + Len(pen)
  /\ found \in Seq(Match) /\ Len(found) = Len(res) + f
  /\ open \in Seq(Match) /\ Len(open) = Len(pen) - f
  /\ \A k \in 1 .. Len(found) :
       found[k] = InContext(more, h[k], b, a) /\ Len(found[k].after) = a
  /\ \A k \in 1 .. Len(open) :
       /\ open[k] = InContext(more, h[Len(found) + k], b, a)
       /\ h[Len(found) + k] + a > Len(more)

(* One line: at most one open match, the first, gets its last line of
   context. *)
LEMMA GrepStep ==
  ASSUME NEW read \in Seq(Nat), NEW id \in Nat, NEW b \in Nat, NEW a \in Nat,
         NEW h, NEW res, NEW pen, StateOf(read, h, b, a, res, pen),
         NEW fed, fed = Fed(pen, id, a), NEW full, full = Full(fed, a)
  PROVE  \E f \in {0, 1} :
           Stepped(f, Append(read, id), h, b, a, res, pen,
                   res \o Pick(fed, full), Pick(fed, DOMAIN fed \ full))
<1> DEFINE N == Len(read)
           r == Len(res)
           p == Len(pen)
           more == Append(read, id)
           Old(n) == InContext(read, n, b, a)
           New(n) == InContext(more, n, b, a)
<1>1. /\ N \in Nat /\ r \in Nat /\ p \in Nat /\ Len(more) = N + 1 /\ Len(h) = r + p
      /\ pen \in Seq(Match) /\ res \in Seq(Match) /\ DOMAIN h = 1 .. r + p
      /\ DOMAIN res = 1 .. r /\ DOMAIN pen = 1 .. p /\ h \in Seq(Nat)
  BY StateIs DEF StateOf
<1>4. /\ \A k \in 1 .. r : res[k] = Old(h[k]) /\ Len(res[k].after) = a
      /\ \A k \in 1 .. p : pen[k] = Old(h[r + k])
  <2> HIDE DEF N, more
  <2>1. /\ \A k \in 1 .. Len(res) :
             res[k] = InContext(read, h[k], b, a) /\ Len(res[k].after) = a
        /\ \A k \in 1 .. Len(pen) : pen[k] = InContext(read, h[Len(res) + k], b, a)
    <3>1. PartsOf(read, h, b, a, res, pen)
      BY StateParts
    <3> HIDE DEF Old, New, r, p
    <3> QED
      BY <3>1, Zenon DEF PartsOf
  <2> QED
    BY <2>1, Zenon
<1>5. \A n \in 1 .. N :
        /\ Len(Old(n).after) = a <=> n + a <= N
        /\ Len(New(n).after) = a <=> n + a <= N + 1
        /\ n + a <= N => New(n) = Old(n)
        /\ n + a > N => New(n) = [Old(n) EXCEPT !.after = Append(@, id)]
  BY ContextGrows
<1> HIDE DEF New, Old
<1>6. \A k \in 1 .. r + p : h[k] \in 1 .. N
  BY <1>1 DEF StateOf
<1>7. \A k \in 1 .. p : h[r + k] + a > N \/ h[r + k] = N
  BY <1>1 DEF StateOf
<1>10. \A j, k \in 1 .. r + p : j < k => h[j] < h[k]
  BY <1>1 DEF StateOf, Rising
<1>11. /\ fed \in Seq(Match) /\ Len(fed) = p /\ DOMAIN fed = 1 .. p
       /\ \A k \in 1 .. p : fed[k] = IF Len(pen[k].after) = a THEN pen[k]
                                     ELSE [pen[k] EXCEPT !.after = Append(@, id)]
  <2>1. /\ fed \in Seq(Match) /\ Len(fed) = p
        /\ \A k \in 1 .. p : fed[k] = IF Len(pen[k].after) = a THEN pen[k]
                                      ELSE [pen[k] EXCEPT !.after = Append(@, id)]
    <3>1. WellFed(Fed(pen, id, a), pen, id, a)
      BY <1>1, FedIs
    <3>2. WellFed(fed, pen, id, a)
      BY <3>1
    <3> QED
      BY <3>2, Zenon DEF WellFed
  <2> HIDE DEF N, r, p, more
  <2>2. DOMAIN fed = 1 .. Len(fed)
    BY <2>1
  <2> QED
    BY <2>1, <2>2
<1> HIDE DEF N, r, p, more
<1>8. \A k \in 1 .. r : k \in 1 .. r + p
  BY <1>1
<1>9. \A k \in 1 .. p : r + k \in 1 .. r + p
  BY <1>1
<1>13. ASSUME NEW k \in 1 .. p PROVE fed[k] = New(h[r + k])
  <2> DEFINE n == h[r + k]
  <2>1. n \in 1 .. N /\ pen[k] = Old(n)
    BY <1>4, <1>6, <1>9
  <2> HIDE DEF n
  <2>2. n \in Nat /\ n + a \in Nat
    BY <1>1, <2>1
  <2>3. ASSUME n + a <= N PROVE fed[k] = New(n)
    <3>1. Len(Old(n).after) = a /\ New(n) = Old(n)
      BY <1>5, <2>1, <2>3
    <3>2. fed[k] = pen[k]
      BY <1>11, <2>1, <3>1
    <3> QED
      BY <2>1, <3>1, <3>2
  <2>4. ASSUME ~ (n + a <= N) PROVE fed[k] = New(n)
    <3>1. n + a > N
      BY <1>1, <2>2, <2>4
    <3>2. fed[k] = [Old(n) EXCEPT !.after = Append(@, id)]
      BY <1>5, <1>11, <2>1, <2>4
    <3> QED
      BY <1>5, <2>1, <3>1, <3>2
  <2>5. fed[k] = New(n)
    BY <2>3, <2>4
  <2> QED
    BY <2>5 DEF n
<1>14. \A k \in 1 .. p : k \in full <=> h[r + k] + a <= N + 1
  <2> SUFFICES ASSUME NEW k \in 1 .. p PROVE k \in full <=> h[r + k] + a <= N + 1
    OBVIOUS
  <2>1. k \in full <=> Len(fed[k].after) = a
    BY <1>11 DEF Full
  <2>2. h[r + k] \in 1 .. N
    BY <1>6, <1>9
  <2> QED
    BY <1>5, <1>13, <2>1, <2>2
<1>15. full \subseteq 1 .. p
  BY <1>11 DEF Full
<1>16. full \subseteq {1}
  <2> SUFFICES ASSUME NEW k \in full, k # 1 PROVE FALSE
    OBVIOUS
  <2>1. k \in 1 .. p /\ 1 \in 1 .. p /\ r + 1 < r + k
    BY <1>1, <1>15
  <2>2. h[r + 1] < h[r + k] /\ h[r + 1] \in 1 .. N /\ h[r + k] \in 1 .. N
    BY <1>6, <1>9, <1>10, <2>1
  <2>3. h[r + 1] + a > N \/ h[r + 1] = N
    BY <1>7, <2>1
  <2>4. h[r + k] + a <= N + 1
    BY <1>14, <2>1
  <2> DEFINE x == h[r + 1]
             y == h[r + k]
  <2>5. x < y /\ x \in 1 .. N /\ y \in 1 .. N /\ (x + a > N \/ x = N) /\ y + a <= N + 1
    BY <2>2, <2>3, <2>4
  <2> HIDE DEF x, y
  <2> QED
    BY <1>1, <2>5
<1> DEFINE found == res \o Pick(fed, full)
           open  == Pick(fed, DOMAIN fed \ full)
<1>17. PICK f \in {0, 1} :
         /\ f <= p
         /\ found \in Seq(Match) /\ Len(found) = r + f
         /\ \A k \in 1 .. r : found[k] = res[k]
         /\ f = 1 => found[r + 1] = fed[1]
         /\ open \in Seq(Match) /\ Len(open) = p - f
         /\ \A k \in 1 .. p - f : open[k] = fed[f + k]
         /\ \A k \in 1 .. p : k \in full <=> k <= f
  <2>1. full = {} \/ (full = {1} /\ 1 <= Len(fed))
    <3>1. 1 \in full => 1 <= p
      BY <1>1, <1>15
    <3>2. Len(fed) = p
      BY <1>1, <1>11
    <3> QED
      BY <1>16, <3>1, <3>2
  <2>2. fed \in Seq(Match) /\ res \in Seq(Match) /\ Len(fed) = p /\ Len(res) = r
    BY <1>1, <1>11 DEF r
  <2> QED
    <3>1. \E f \in {0, 1} : Picked(f, res, fed, full, found, open)
      BY <2>1, <2>2, PickFull
    <3> HIDE DEF found, open
    <3> QED
      BY <2>2, <3>1, Zenon DEF Picked
<1> HIDE DEF found, open
<1>18. ASSUME NEW k \in 1 .. r + f PROVE found[k] = New(h[k]) /\ Len(found[k].after) = a
  <2>1. CASE k \in 1 .. r
    <3>1. found[k] = res[k] /\ res[k] = Old(h[k]) /\ Len(res[k].after) = a /\ h[k] \in 1 .. N
      BY <1>4, <1>6, <1>8, <1>17, <2>1
    <3> QED
      BY <1>5, <3>1
  <2>2. CASE k = r + 1 /\ f = 1
    <3>1. 1 \in 1 .. p /\ 1 \in full
      BY <1>1, <1>17, <2>2
    <3>2. found[k] = fed[1]
      BY <1>17, <2>2
    <3>3. Len(fed[1].after) = a
      BY <3>1 DEF Full
    <3>4. fed[1] = New(h[r + 1])
      BY <1>13, <3>1
    <3> QED
      BY <2>2, <3>2, <3>3, <3>4
  <2>3. k \in 1 .. r \/ (k = r + 1 /\ f = 1)
    <3>1. r \in Nat /\ (f = 0 \/ f = 1) /\ k \in 1 .. r + f
      BY <1>1
    <3> QED
      BY <3>1
  <2> QED
    BY <2>1, <2>2, <2>3
<1>19. ASSUME NEW k \in 1 .. p - f
       PROVE  open[k] = New(h[(r + f) + k]) /\ h[(r + f) + k] + a > N + 1
  <2> DEFINE j == f + k
  <2>1. j \in 1 .. p /\ r + j = (r + f) + k /\ ~ (j <= f)
    BY <1>1, <1>17
  <2>2. open[k] = fed[j]
    BY <1>17
  <2> HIDE DEF j
  <2>3. fed[j] = New(h[r + j])
    BY <1>13, <2>1
  <2>4. ~ (h[r + j] + a <= N + 1)
    BY <1>14, <1>17, <2>1
  <2>5. h[r + j] \in 1 .. N
    BY <1>6, <1>9, <2>1
  <2>6. h[r + j] + a > N + 1
    BY <1>1, <2>4, <2>5
  <2> QED
    BY <2>1, <2>2, <2>3, <2>6
<1> WITNESS f \in {0, 1}
<1>20. /\ f <= Len(pen) /\ Len(h) = Len(res) + Len(pen)
       /\ found \in Seq(Match) /\ Len(found) = Len(res) + f
       /\ open \in Seq(Match) /\ Len(open) = Len(pen) - f
  BY <1>1, <1>17 DEF r, p
<1>21. \A k \in 1 .. Len(found) : found[k] = New(h[k]) /\ Len(found[k].after) = a
  BY <1>17, <1>18
<1>22. \A k \in 1 .. Len(open) :
         open[k] = New(h[Len(found) + k]) /\ h[Len(found) + k] + a > Len(more)
  BY <1>1, <1>17, <1>19
<1> QED
  BY <1>20, <1>21, <1>22 DEF Stepped, found, open, New, more

LEMMA GrepTypes ==
  ASSUME TypeOK, UNCHANGED <<sysVars, getVars, req>>, at' \in {"grep", "done"},
         pos' \in 0 .. Len(File),
         before' \in Seq(Nat), Len(before') <= req.before,
         pending' \in Seq(Match), Len(pending') <= req.after + 1,
         results' \in Seq(Match), Len(results') <= MaxMatches
  PROVE  TypeOK'
<1>1. File' = File /\ lines' = lines /\ published' = published /\ stored' = stored
      /\ registered' = registered /\ req' = req
      /\ UNCHANGED <<known, subscribed, next, lagged, window, sent>>
  BY SameFile DEF getVars
<1>2. Match' = Match
  BY DEF Match
<1> QED
  BY <1>1, <1>2 DEF TypeOK

LEMMA GrepLeavesGet ==
  ASSUME TypeOK, GetInv, UNCHANGED <<getVars, req>>, at \in {"open", "grep"},
         at' \in {"grep", "done"}
  PROVE  GetInv' /\ req.kind = "grep"
<1>1. req.kind = "grep" /\ sent = <<>>
  BY RequestTypes DEF GetInv
<1> QED
  BY <1>1 DEF GetInv, getVars

LEMMA NothingRead ==
  ASSUME TypeOK, pos = 0
  PROVE  Read = <<>> /\ Hits = <<>> /\ Answers = <<>> /\ Expected = <<>>
<1>1. Read = <<>>
  <2>1. {id \in {File[n] : n \in 1 .. pos} : lines[id] # "aged"} = {}
    OBVIOUS
  <2> QED
    BY <2>1, OrderOfNone DEF Read
<1>2. Hits = <<>>
  <2>1. {n \in DOMAIN Read : lines[Read[n]] = "hit"} = {}
    BY <1>1
  <2> QED
    BY <2>1, OrderOfNone DEF Hits
<1>3. Answers = <<>>
  <2>1. DOMAIN Hits = {} /\ DOMAIN Hits = 1 .. 0
    BY <1>2
  <2>2. Answers = [k \in 1 .. 0 |-> Context(Hits[k])]
    BY <2>1, Zenon DEF Answers
  <2> QED
    BY <2>2
<1>4. Expected = <<>>
  <2>1. Len(Answers) = 0 /\ 0 \in Nat
    BY <1>3
  <2>2. Min({MaxMatches, Len(Answers)}) = 0
    BY <2>1, MinOfTwo, RequestTypes
  <2> QED
    BY <1>3, <2>2 DEF Expected
<1> QED
  BY <1>1, <1>2, <1>3, <1>4

LEMMA OpenForGrepInv ==
  ASSUME TypeOK, GetInv, GrepInv, OpenForGrep
  PROVE  TypeOK' /\ GetInv' /\ GrepInv'
<1>1. /\ at = "open" /\ at' \in {"grep", "done"}
      /\ UNCHANGED <<sysVars, req, pos, getVars, grepVars>>
  BY DEF OpenForGrep
<1>2. /\ UNCHANGED <<before, pending, results>> /\ pos = 0
      /\ before = <<>> /\ pending = <<>> /\ results = <<>>
  BY <1>1 DEF GrepInv, grepVars
<1>3. TypeOK'
  <2>1. /\ pos \in 0 .. Len(File) /\ before \in Seq(Nat) /\ Len(before) <= req.before
        /\ pending \in Seq(Match) /\ Len(pending) <= req.after + 1
        /\ results \in Seq(Match) /\ Len(results) <= MaxMatches
    BY DEF TypeOK
  <2> QED
    BY <1>1, <1>2, <2>1, GrepTypes
<1>4. GetInv'
  BY <1>1, GrepLeavesGet
<1>5. Read = <<>> /\ Hits = <<>> /\ Answers = <<>> /\ Expected = <<>>
  BY <1>2, NothingRead
<1>6. Read' = Read /\ Hits' = Hits /\ Answers' = Answers /\ Expected' = Expected
  BY <1>1, SameRead
<1>7. Grepping'
  <2>1. LastOf(req.before, <<>>) = <<>> /\ MaxMatches > 0 /\ Len(<<>>) = 0
    BY RequestTypes, LastOfNone
  <2>2. <<>> \o <<>> = Answers
    BY <1>5
  <2>3. DOMAIN pending = {} /\ DOMAIN results = {}
    BY <1>2
  <2>4. Answered' /\ Open'
    BY <1>2, <2>3 DEF Answered, Open
  <2>5. Len(results) < MaxMatches
    BY <1>2, <2>1
  <2> QED
    BY <1>1, <1>2, <1>5, <1>6, <2>1, <2>2, <2>4, <2>5 DEF Grepping
<1>8. GrepAnswersExpected'
  BY <1>2, <1>5, <1>6 DEF GrepAnswersExpected
<1> QED
  BY <1>1, <1>3, <1>4, <1>7, <1>8 DEF GrepInv

(* What one more line of the file changes. *)
LEMMA ReadOn ==
  ASSUME TypeOK, pos < Len(File), pos' = pos + 1, UNCHANGED sysVars
  PROVE  /\ File[pos + 1] \in Nat
         /\ lines[File[pos + 1]] = "aged" => Read' = Read /\ Hits' = Hits
         /\ lines[File[pos + 1]] # "aged" =>
              /\ Read' = Append(Read, File[pos + 1])
              /\ Hits' = IF lines[File[pos + 1]] = "hit" THEN Append(Hits, Len(Read) + 1) ELSE Hits
<1> DEFINE ls == lines
           file == File
           id == File[pos + 1]
           p == pos
<1>1. /\ file \in Seq(Nat) /\ Rising(file) /\ p \in Nat /\ p < Len(file) /\ id = file[p + 1]
      /\ id \in Nat /\ Read \in Seq(Nat)
  BY TypesOfFile
<1>2. File' = File /\ lines' = lines
  BY SameFile
<1>3. /\ Read = ReadOf(ls, file, p) /\ Read' = ReadOf(ls, file, p + 1)
      /\ Hits = HitsOf(ls, Read) /\ Hits' = HitsOf(ls, Read')
  BY <1>2, FileRead, FileReadNext
<1> HIDE DEF ls, file, id, p
<1>4. /\ ls[file[p + 1]] = "aged" => ReadOf(ls, file, p + 1) = ReadOf(ls, file, p)
      /\ ls[file[p + 1]] # "aged" =>
           ReadOf(ls, file, p + 1) = Append(ReadOf(ls, file, p), file[p + 1])
  BY <1>1, ReadGrows
<1>5. ls[id] = "aged" => Read' = Read /\ Hits' = Hits
  BY <1>1, <1>3, <1>4
<1>6. ls[id] # "aged" => Read' = Append(Read, id)
  BY <1>1, <1>3, <1>4
<1>7. HitsOf(ls, Append(Read, id)) =
        IF ls[id] = "hit" THEN Append(HitsOf(ls, Read), Len(Read) + 1) ELSE HitsOf(ls, Read)
  BY <1>1, HitsGrow
<1>8. ls[id] # "aged" => Hits' = IF ls[id] = "hit" THEN Append(Hits, Len(Read) + 1) ELSE Hits
  BY <1>3, <1>6, <1>7
<1> QED
  BY <1>1, <1>5, <1>6, <1>8 DEF ls, id

LEMMA SkipLineInv ==
  ASSUME TypeOK, GetInv, GrepInv, SkipLine
  PROVE  TypeOK' /\ GetInv' /\ GrepInv'
<1>1. /\ at = "grep" /\ pos < Len(File) /\ lines[File[pos + 1]] = "aged" /\ pos' = pos + 1
      /\ UNCHANGED <<sysVars, req, at, getVars, grepVars>> /\ UNCHANGED <<before, pending, results>>
  BY DEF SkipLine, grepVars
<1>2. Read' = Read /\ Hits' = Hits
  BY <1>1, ReadOn
<1>3. Answers' = Answers /\ Expected' = Expected
  BY <1>1, <1>2, SameAnswers
<1>4. TypeOK'
  <2>1. /\ before \in Seq(Nat) /\ Len(before) <= req.before
        /\ pending \in Seq(Match) /\ Len(pending) <= req.after + 1
        /\ results \in Seq(Match) /\ Len(results) <= MaxMatches
    BY DEF TypeOK
  <2>2. pos' \in 0 .. Len(File)
    BY <1>1, TypesOfFile
  <2> QED
    BY <1>1, <2>1, <2>2, GrepTypes
<1>5. GetInv'
  BY <1>1, GrepLeavesGet
<1>6. Grepping'
  BY <1>1, <1>2, <1>3 DEF GrepInv, Grepping, Answered, Open, Complete
<1> QED
  BY <1>1, <1>4, <1>5, <1>6 DEF GrepInv, GrepAnswersExpected

LEMMA FinishGrepInv ==
  ASSUME TypeOK, GetInv, GrepInv, FinishGrep
  PROVE  TypeOK' /\ GetInv' /\ GrepInv'
<1> DEFINE all == results \o pending
           c == Min({MaxMatches, Len(all)})
<1>1. /\ at = "grep" /\ at' = "done" /\ results' = SubSeq(all, 1, c)
      /\ UNCHANGED <<sysVars, req, pos, getVars, before, pending>>
  BY DEF FinishGrep
<1>2. all = Answers
  BY <1>1 DEF GrepInv, Grepping
<1>3. /\ before \in Seq(Nat) /\ Len(before) <= req.before
      /\ pending \in Seq(Match) /\ Len(pending) <= req.after + 1 /\ results \in Seq(Match)
      /\ pos \in 0 .. Len(File)
  BY DEF TypeOK
<1>4. all \in Seq(Match) /\ Len(all) \in Nat
  BY <1>3
<1> HIDE DEF all
<1>5. c \in Nat /\ c <= MaxMatches /\ c <= Len(all)
  BY <1>4, MinOfTwo, RequestTypes
<1>6. results' = Expected
  BY <1>1, <1>2 DEF Expected
<1>7. Expected' = Expected
  BY <1>1, SameRead
<1> HIDE DEF c
<1>8. results' \in Seq(Match) /\ Len(results') <= MaxMatches
  <2>1. SubSeq(all, 1, c) \in Seq(Match) /\ Len(SubSeq(all, 1, c)) = c
    BY <1>4, <1>5
  <2> QED
    BY <1>1, <1>5, <2>1
<1>9. TypeOK'
  BY <1>1, <1>3, <1>8, GrepTypes
<1>10. GetInv'
  BY <1>1, GrepLeavesGet
<1> QED
  BY <1>1, <1>6, <1>7, <1>9, <1>10 DEF GrepInv, GrepAnswersExpected


(* One line more, a match or not: what is read of the file, and what the
   search then holds. *)
LineRead(read, id, b, a, h, g, res, pen, fed, full, hit) ==
  /\ read \in Seq(Nat) /\ id \in Nat /\ b \in Nat /\ a \in Nat /\ hit \in BOOLEAN
  /\ StateOf(read, h, b, a, res, pen)
  /\ fed = Fed(pen, id, a) /\ full = Full(fed, a)
  /\ g = IF hit THEN Append(h, Len(read) + 1) ELSE h
  /\ g \in Seq(Nat) /\ Rising(g)
  /\ \A k \in 1 .. Len(g) : g[k] \in 1 .. Len(Append(read, id))

Grown(read, id, b, a, g, res, fed, full, hit) ==
  LET found == res \o Pick(fed, full)
      open  == Pick(fed, DOMAIN fed \ full)
      mine  == [line |-> id, before |-> LastOf(b, read), after |-> <<>>]
  IN  /\ found \in Seq(Match) /\ open \in Seq(Match)
      /\ Len(found) \in Nat /\ Len(found) <= Len(res) + 1
      /\ StateOf(Append(read, id), g, b, a, found,
                 IF hit THEN Append(open, mine) ELSE open)

(* After the line the same is so of one line more. *)
LEMMA StateGrows ==
  ASSUME NEW read, NEW id, NEW b, NEW a, NEW h, NEW g, NEW res, NEW pen,
         NEW fed, NEW full, NEW hit,
         LineRead(read, id, b, a, h, g, res, pen, fed, full, hit)
  PROVE  Grown(read, id, b, a, g, res, fed, full, hit)
<1> SUFFICES
      ASSUME read \in Seq(Nat), id \in Nat, b \in Nat, a \in Nat, hit \in BOOLEAN,
             StateOf(read, h, b, a, res, pen),
             fed = Fed(pen, id, a), full = Full(fed, a),
             g = IF hit THEN Append(h, Len(read) + 1) ELSE h,
             g \in Seq(Nat), Rising(g),
             \A k \in 1 .. Len(g) : g[k] \in 1 .. Len(Append(read, id))
      PROVE  Grown(read, id, b, a, g, res, fed, full, hit)
  BY Zenon DEF LineRead
<1> DEFINE N == Len(read)
           r == Len(res)
           p == Len(pen)
           more == Append(read, id)
           New(n) == InContext(more, n, b, a)
           found == res \o Pick(fed, full)
           open  == Pick(fed, DOMAIN fed \ full)
           mine  == [line |-> id, before |-> LastOf(b, read), after |-> <<>>]
           pens  == IF hit THEN Append(open, mine) ELSE open
           c == Len(found)
           q == Len(open)
<1>1. PICK f \in {0, 1} :
        /\ f <= p /\ Len(h) = r + p
        /\ found \in Seq(Match) /\ c = r + f
        /\ open \in Seq(Match) /\ q = p - f
        /\ \A k \in 1 .. c : found[k] = New(h[k]) /\ Len(found[k].after) = a
        /\ \A k \in 1 .. q : open[k] = New(h[c + k]) /\ h[c + k] + a > Len(more)
  <2>1. \E f \in {0, 1} : Stepped(f, more, h, b, a, res, pen, found, open)
    BY GrepStep
  <2> HIDE DEF found, open, more
  <2> QED
    BY <2>1, Zenon DEF Stepped
<1>2. /\ N \in Nat /\ r \in Nat /\ p \in Nat /\ Len(more) = N + 1 /\ h \in Seq(Nat)
      /\ c \in Nat /\ q \in Nat
  <2>1. r \in Nat /\ p \in Nat /\ h \in Seq(Nat)
    BY StateIs DEF StateOf
  <2>2. c \in Nat /\ q \in Nat
    BY <1>1
  <2>3. Len(more) = N + 1
    OBVIOUS
  <2> QED
    BY <2>1, <2>2, <2>3
<1>3. mine \in Match
  <2>1. LastOf(b, read) \in Seq(Nat) /\ <<>> \in Seq(Nat)
    BY LastOfIs
  <2> QED
    BY <2>1 DEF Match
<1>4. New(N + 1) = mine
  BY ContextOfLast
<1> HIDE DEF N, r, p, more, New, found, open, mine, c, q
<1>5. Len(h) = c + q
  BY <1>1, <1>2
<1>6. /\ pens \in Seq(Match) /\ Len(pens) = IF hit THEN q + 1 ELSE q
      /\ Len(g) = c + Len(pens) /\ Len(pens) \in Nat
  <2>1. hit => pens = Append(open, mine) /\ g = Append(h, N + 1)
    BY DEF N
  <2>2. ~hit => pens = open /\ g = h
    OBVIOUS
  <2> HIDE DEF pens
  <2>3. hit => /\ pens \in Seq(Match) /\ Len(pens) = q + 1 /\ Len(g) = Len(h) + 1
    <3>1. Append(open, mine) \in Seq(Match) /\ Len(Append(open, mine)) = q + 1
      BY <1>1, <1>3 DEF q
    <3>2. Len(Append(h, N + 1)) = Len(h) + 1
      BY <1>2
    <3> QED
      BY <2>1, <3>1, <3>2
  <2>4. ~hit => /\ pens \in Seq(Match) /\ Len(pens) = q /\ Len(g) = Len(h)
    BY <1>1, <2>2 DEF q
  <2>5. Len(pens) = IF hit THEN q + 1 ELSE q
    BY <2>3, <2>4
  <2>6. Len(g) = c + Len(pens) /\ Len(pens) \in Nat
    BY <1>2, <1>5, <2>3, <2>4
  <2> QED
    BY <2>3, <2>4, <2>5, <2>6
<1>7. ASSUME NEW k \in 1 .. c PROVE g[k] = h[k]
  <2>1. k \in 1 .. Len(h)
    BY <1>2, <1>5
  <2> QED
    BY <1>2, <2>1
<1>8. ASSUME NEW k \in 1 .. Len(pens)
      PROVE  /\ pens[k] = New(g[c + k])
             /\ g[c + k] + a > N + 1 \/ g[c + k] = N + 1
  <2>1. CASE k \in 1 .. q
    <3>1. pens[k] = open[k]
      BY <1>1, <1>3, <2>1 DEF q
    <3>2. g[c + k] = h[c + k]
      <4>1. c + k \in 1 .. Len(h)
        BY <1>2, <1>5, <2>1
      <4> QED BY <1>2, <4>1
    <3> HIDE DEF pens
    <3> QED
      BY <1>1, <1>2, <2>1, <3>1, <3>2
  <2>2. CASE hit /\ k = q + 1
    <3>1. pens[k] = mine
      BY <1>1, <1>3, <2>2 DEF q
    <3>2. g[c + k] = N + 1
      <4>1. c + k = Len(h) + 1 /\ g = Append(h, N + 1)
        BY <1>2, <1>5, <2>2 DEF N
      <4> QED BY <1>2, <4>1
    <3> HIDE DEF pens
    <3> QED
      BY <1>4, <3>1, <3>2
  <2> HIDE DEF pens
  <2>3. k \in 1 .. q \/ (hit /\ k = q + 1)
    BY <1>2, <1>6
  <2> QED
    BY <2>1, <2>2, <2>3
<1> HIDE DEF pens
<1>9. found \o pens = [k \in DOMAIN g |-> New(g[k])]
  <2> DEFINE all == found \o pens
             t == [k \in DOMAIN g |-> New(g[k])]
             P == Len(pens)
  <2>1. DOMAIN g = 1 .. c + P
    <3>1. DOMAIN g = 1 .. Len(g)
      OBVIOUS
    <3> QED BY <1>6, <3>1
  <2>2. /\ all \in Seq(Match) /\ Len(all) = c + P
        /\ \A k \in 1 .. c : all[k] = found[k]
        /\ \A k \in 1 .. P : all[c + k] = pens[k]
    <3>1. found \in Seq(Match) /\ pens \in Seq(Match)
      BY <1>1, <1>6
    <3> HIDE DEF P
    <3>2. all \in Seq(Match)
      BY <3>1
    <3>3. Len(all) = Len(found) + Len(pens)
      BY <3>1
    <3>4. \A k \in 1 .. Len(found) : all[k] = found[k]
      BY <3>1
    <3>5. \A k \in 1 .. Len(pens) : all[Len(found) + k] = pens[k]
      BY <3>1
    <3> HIDE DEF all
    <3> QED
      BY <3>2, <3>3, <3>4, <3>5 DEF c, P
  <2> HIDE DEF all
  <2>3. all = [k \in 1 .. c + P |-> all[k]]
    <3>1. all = [k \in 1 .. Len(all) |-> all[k]]
      BY <2>2
    <3> QED BY <2>2, <3>1
  <2> HIDE DEF P
  <2>4. ASSUME NEW k \in 1 .. c + P PROVE all[k] = New(g[k])
    <3>1. CASE k \in 1 .. c
      BY <1>1, <1>7, <2>2, <3>1
    <3>2. CASE k - c \in 1 .. P
      <4>1. c + (k - c) = k /\ k - c \in 1 .. Len(pens)
        BY <1>2, <3>2 DEF P
      <4>2. all[c + (k - c)] = pens[k - c]
        BY <2>2, <3>2
      <4>3. pens[k - c] = New(g[c + (k - c)])
        BY <1>8, <4>1
      <4> QED
        BY <4>1, <4>2, <4>3
    <3>3. k \in 1 .. c \/ k - c \in 1 .. P
      BY <1>2, <1>6 DEF P
    <3> QED BY <3>1, <3>2, <3>3
  <2>5. all = t
    BY <2>1, <2>3, <2>4
  <2> QED
    BY <2>5 DEF all
<1>10. StateOf(more, g, b, a, found, pens)
  <2>1. \A k \in 1 .. Len(g) : g[k] \in 1 .. Len(more)
    BY DEF more
  <2>2. \A k \in DOMAIN found : Len(found[k].after) = a
    BY <1>1 DEF c
  <2>3. \A k \in DOMAIN pens :
          g[Len(found) + k] + a > Len(more) \/ g[Len(found) + k] = Len(more)
    <3>1. DOMAIN pens = 1 .. Len(pens)
      BY <1>6
    <3> QED BY <1>2, <1>8, <3>1 DEF c
  <2>4. found \o pens = [k \in DOMAIN g |-> InContext(more, g[k], b, a)]
    BY <1>9 DEF New
  <2> QED
    BY <1>1, <1>6, <2>1, <2>2, <2>3, <2>4 DEF StateOf
<1>11. c <= r + 1
  BY <1>1, <1>2
<1> QED
  BY <1>1, <1>2, <1>10, <1>11, Zenon DEF Grown, more, found, open, mine, pens, c, r

LEMMA StateBound ==
  ASSUME NEW read \in Seq(Nat), NEW b, NEW a \in Nat,
         NEW h, NEW res, NEW pen, StateOf(read, h, b, a, res, pen)
  PROVE  Len(pen) <= a + 1
<1> DEFINE q == Len(pen)
           N == Len(read)
<1>1. q \in Nat /\ N \in Nat /\ Len(res) \in Nat /\ Len(h) = Len(res) + q
  BY StateIs
<1>2. /\ h \in Seq(Nat) /\ Rising(h) /\ \A k \in 1 .. Len(h) : h[k] \in 1 .. N
      /\ \A k \in DOMAIN pen : h[Len(res) + k] + a > N \/ h[Len(res) + k] = N
      /\ DOMAIN pen = 1 .. q
  BY DEF StateOf
<1> HIDE DEF q, N
<1>3. q \in 0 .. Len(h) /\ Len(h) - q = Len(res)
  BY <1>1
<1>4. \A k \in 1 .. q : LET n == h[(Len(h) - q) + k] IN n <= N /\ (n + a > N \/ n = N)
  <2> SUFFICES ASSUME NEW k \in 1 .. q
               PROVE  LET n == h[Len(res) + k] IN n <= N /\ (n + a > N \/ n = N)
    BY <1>3
  <2>1. Len(res) + k \in 1 .. Len(h)
    BY <1>1
  <2>2. h[Len(res) + k] \in 1 .. N
    BY <1>2, <2>1
  <2>3. h[Len(res) + k] + a > N \/ h[Len(res) + k] = N
    BY <1>2
  <2> DEFINE x == h[Len(res) + k]
  <2>4. x \in 1 .. N /\ (x + a > N \/ x = N)
    BY <2>2, <2>3
  <2> HIDE DEF x
  <2>5. x <= N /\ (x + a > N \/ x = N)
    BY <1>1, <2>4
  <2> QED
    BY <2>5 DEF x
<1>5. q <= a + 1
  BY <1>1, <1>2, <1>3, <1>4, OpenBound
<1> QED
  BY <1>5 DEF q

(* The part of a sequence that was there before another was put after it. *)
LEMMA FirstPart ==
  ASSUME NEW S, NEW s \in Seq(S), NEW t \in Seq(S)
  PROVE  SubSeq(s \o t, 1, Len(s)) = s /\ Len(s \o t) \in Nat /\ Len(s) <= Len(s \o t)
<1> DEFINE u == s \o t
           c == Len(s)
<1>1. /\ u \in Seq(S) /\ Len(u) \in Nat /\ c \in Nat /\ c <= Len(u)
      /\ \A k \in 1 .. c : u[k] = s[k]
  OBVIOUS
<1> HIDE DEF u
<1>2. SubSeq(u, 1, c) = s
  <2>1. SubSeq(u, 1, c) \in Seq(S) /\ Len(SubSeq(u, 1, c)) = c
    BY <1>1
  <2>2. \A k \in 1 .. c : SubSeq(u, 1, c)[k] = u[k]
    BY <1>1
  <2> QED
    BY <1>1, <2>1, <2>2, SameSequence
<1> QED
  BY <1>1, <1>2 DEF u

LEMMA GreppingState ==
  ASSUME TypeOK, Grepping
  PROVE  StateOf(Read, Hits, req.before, req.after, results, pending)
<1>1. /\ Hits \in Seq(Nat) /\ Rising(Hits) /\ \A k \in 1 .. Len(Hits) : Hits[k] \in 1 .. Len(Read)
      /\ results \in Seq(Match) /\ pending \in Seq(Match)
  BY TypesOfFile DEF TypeOK
<1>2. results \o pending = [k \in DOMAIN Hits |-> InContext(Read, Hits[k], req.before, req.after)]
  BY AnswersAre DEF Grepping
<1>3. \A k \in DOMAIN results : Len(results[k].after) = req.after
  BY DEF Grepping, Answered, Complete
<1>4. \A k \in DOMAIN pending :
        Hits[Len(results) + k] + req.after > Len(Read) \/ Hits[Len(results) + k] = Len(Read)
  BY DEF Grepping, Open
<1> QED
  BY <1>1, <1>2, <1>3, <1>4 DEF StateOf

LEMMA StateGrepping ==
  ASSUME StateOf(Read', Hits', req'.before, req'.after, results', pending'),
         before' = LastOf(req'.before, Read'), Len(results') < MaxMatches
  PROVE  Grepping'
<1>1. results' \o pending' = Answers'
  BY AnswersAre DEF StateOf
<1>2. Answered' /\ Open'
  BY DEF StateOf, Answered, Open, Complete
<1> QED
  BY <1>1, <1>2 DEF Grepping

LEMMA GrepLineInv ==
  ASSUME TypeOK, GetInv, GrepInv, GrepLine
  PROVE  TypeOK' /\ GetInv' /\ GrepInv'
<1> DEFINE id    == File[pos + 1]
           hit   == lines[id] = "hit"
           fed   == Fed(pending, id, req.after)
           full  == Full(fed, req.after)
           found == results \o Pick(fed, full)
           open  == Pick(fed, DOMAIN fed \ full)
           mine  == [line |-> id, before |-> before, after |-> <<>>]
           pens  == IF hit THEN Append(open, mine) ELSE open
<1>1. /\ at = "grep" /\ pos < Len(File) /\ lines[id] # "aged" /\ pos' = pos + 1
      /\ results' = found
      /\ IF Len(found) >= MaxMatches
         THEN at' = "done" /\ UNCHANGED <<before, pending>>
         ELSE /\ pending' = pens
              /\ before' = LastOf(req.before, Append(before, id))
              /\ UNCHANGED at
      /\ UNCHANGED <<sysVars, req, getVars>>
  BY DEF GrepLine, Fed, Full, Complete
<1>2. Grepping
  BY <1>1 DEF GrepInv
<1>3. /\ Read \in Seq(Nat) /\ Len(Read) \in Nat /\ Hits \in Seq(Nat)
      /\ Rising(Hits) /\ \A k \in 1 .. Len(Hits) : Hits[k] \in 1 .. Len(Read)
      /\ pos' \in 0 .. Len(File)
  BY <1>1, TypesOfFile
<1>4. id \in Nat /\ Read' = Append(Read, id)
      /\ Hits' = IF hit THEN Append(Hits, Len(Read) + 1) ELSE Hits
  BY <1>1, ReadOn
<1>5. /\ req' = req /\ req.before \in Nat /\ req.after \in Nat /\ MaxMatches \in Nat
  BY <1>1, RequestTypes
<1>6. hit \in BOOLEAN
  OBVIOUS
<1> HIDE DEF id, hit
<1>7. /\ Hits' \in Seq(Nat) /\ Rising(Hits')
      /\ \A k \in 1 .. Len(Hits') : Hits'[k] \in 1 .. Len(Append(Read, id))
  <2> DEFINE ls == lines
             more == Append(Read, id)
  <2>1. more \in Seq(Nat)
    BY <1>3, <1>4
  <2>2. Hits' = HitsOf(ls, more)
    BY <1>1, <1>4, SameFile, FileReadNext
  <2> HIDE DEF more, ls
  <2>3. /\ Hits' \in Seq(Nat) /\ Rising(Hits')
        /\ \A k \in 1 .. Len(Hits') : Hits'[k] \in 1 .. Len(more)
    BY <2>1, <2>2, HitsOfIs
  <2> QED
    BY <2>3 DEF more
<1>8. StateOf(Read, Hits, req.before, req.after, results, pending)
  BY <1>2, GreppingState
<1>9. before = LastOf(req.before, Read) /\ Len(results) < MaxMatches
  BY <1>2 DEF Grepping
<1>10. /\ found \in Seq(Match) /\ open \in Seq(Match)
       /\ Len(found) \in Nat /\ Len(found) <= Len(results) + 1
       /\ StateOf(Append(Read, id), Hits', req.before, req.after, found, pens)
  <2> DEFINE g == Hits'
  <2>1. /\ g \in Seq(Nat) /\ Rising(g) /\ \A k \in 1 .. Len(g) : g[k] \in 1 .. Len(Append(Read, id))
        /\ g = IF hit THEN Append(Hits, Len(Read) + 1) ELSE Hits
    BY <1>4, <1>7
  <2> HIDE DEF g, fed, full
  <2>2. fed = Fed(pending, id, req.after) /\ full = Full(fed, req.after)
    BY DEF fed, full
  <2>3. LineRead(Read, id, req.before, req.after, Hits, g, results, pending, fed, full, hit)
    BY <1>3, <1>4, <1>5, <1>6, <1>8, <2>1, <2>2, Zenon DEF LineRead
  <2>4. Grown(Read, id, req.before, req.after, g, results, fed, full, hit)
    BY <2>3, StateGrows, Zenon
  <2> QED
    BY <1>9, <2>4, Zenon DEF Grown, g
<1> HIDE DEF fed, full, found, open, mine, pens
<1>11. StateOf(Read', Hits', req.before, req.after, found, pens)
  BY <1>4, <1>10
<1>12. /\ pens \in Seq(Match) /\ Len(pens) <= req.after + 1
       /\ found \o pens = Answers'
  <2>1. Read' \in Seq(Nat)
    BY <1>3, <1>4
  <2> DEFINE read == Read'
             h == Hits'
  <2>2. /\ read \in Seq(Nat) /\ StateOf(read, h, req.before, req.after, found, pens)
    BY <1>11, <2>1
  <2> HIDE DEF read, h
  <2>3. Len(pens) <= req.after + 1
    BY <1>5, <2>2, StateBound
  <2>4. pens \in Seq(Match) /\ found \o pens = Answers'
    BY <1>5, <1>11, AnswersAre DEF StateOf
  <2> QED
    BY <2>3, <2>4
<1>13. Len(found) <= MaxMatches
  <2>1. Len(results) \in Nat
    BY DEF TypeOK
  <2> QED
    BY <1>5, <1>9, <1>10, <2>1
<1>14. before \in Seq(Nat) /\ Len(before) <= req.before /\ pending \in Seq(Match)
       /\ Len(pending) <= req.after + 1
  BY DEF TypeOK
<1>15. ASSUME Len(found) >= MaxMatches PROVE TypeOK' /\ GetInv' /\ GrepInv'
  <2>1. at' = "done" /\ before' = before /\ pending' = pending
    BY <1>1, <1>15
  <2>2. TypeOK'
    BY <1>1, <1>3, <1>10, <1>13, <1>14, <2>1, GrepTypes
  <2>3. GetInv'
    BY <1>1, <2>1, GrepLeavesGet
  <2>4. results' = Expected'
    <3>1. /\ SubSeq(Answers', 1, Len(found)) = found /\ Len(Answers') \in Nat
          /\ Len(found) <= Len(Answers')
      BY <1>10, <1>12, FirstPart
    <3>2. Len(found) = MaxMatches
      BY <1>5, <1>10, <1>13, <1>15
    <3> DEFINE answers == Answers'
    <3>3. Expected' = SubSeq(answers, 1, Min({MaxMatches, Len(answers)}))
      BY DEF Expected
    <3>4. Len(answers) \in Nat /\ MaxMatches <= Len(answers) /\ SubSeq(answers, 1, MaxMatches) = found
      BY <3>1, <3>2
    <3> HIDE DEF answers
    <3>5. Min({MaxMatches, Len(answers)}) = MaxMatches
      BY <1>5, <3>4, MinOfTwo
    <3> QED
      BY <1>1, <3>3, <3>4, <3>5
  <2> QED
    BY <2>1, <2>2, <2>3, <2>4 DEF GrepInv, GrepAnswersExpected
<1>16. ASSUME ~ (Len(found) >= MaxMatches) PROVE TypeOK' /\ GetInv' /\ GrepInv'
  <2>1. at' = at /\ pending' = pens /\ before' = LastOf(req.before, Append(before, id))
    BY <1>1, <1>16
  <2>2. /\ before' = LastOf(req.before, Append(Read, id))
        /\ before' \in Seq(Nat) /\ Len(before') <= req.before
    <3>1. before' = LastOf(req.before, Append(Read, id))
      BY <1>3, <1>4, <1>5, <1>9, <2>1, LastOfAppend
    <3> DEFINE more == Append(Read, id)
    <3>2. more \in Seq(Nat) /\ Len(more) \in Nat
      BY <1>3, <1>4
    <3>3. before' = LastOf(req.before, more)
      BY <3>1
    <3> HIDE DEF more
    <3>4. /\ LastOf(req.before, more) \in Seq(Nat)
          /\ req.before <= Len(more) => Len(LastOf(req.before, more)) = req.before
          /\ Len(more) <= req.before => Len(LastOf(req.before, more)) = Len(more)
      BY <1>5, <3>2, LastOfIs
    <3>5. Len(LastOf(req.before, more)) <= req.before
      BY <1>5, <3>2, <3>4
    <3> QED
      BY <3>1, <3>3, <3>4, <3>5
  <2>3. TypeOK'
    BY <1>1, <1>3, <1>10, <1>12, <1>13, <2>1, <2>2, GrepTypes
  <2>4. GetInv'
    BY <1>1, <2>1, GrepLeavesGet
  <2>5. Grepping'
    <3>1. Len(results') < MaxMatches
      BY <1>1, <1>5, <1>10, <1>16
    <3>2. StateOf(Read', Hits', req'.before, req'.after, results', pending')
      BY <1>1, <1>5, <1>11, <2>1
    <3> QED
      BY <1>4, <1>5, <2>2, <3>1, <3>2, StateGrepping
  <2> QED
    BY <1>1, <2>1, <2>3, <2>4, <2>5 DEF GrepInv, GrepAnswersExpected
<1> QED
  BY <1>15, <1>16

-----------------------------------------------------------------------------
(* The invariant holds.                                                    *)

LEMMA InitInv == Init => Inv
<1> SUFFICES ASSUME Init PROVE Inv
  OBVIOUS
<1>1. /\ lines = <<>> /\ published = 0 /\ stored = 0 /\ registered = FALSE
      /\ req \in Requests /\ at = IF req.kind = "get" THEN "list" ELSE "open"
      /\ known = FALSE /\ subscribed = 0 /\ next = 0 /\ lagged = FALSE
      /\ pos = 0 /\ window = <<>> /\ sent = <<>>
      /\ before = <<>> /\ pending = <<>> /\ results = <<>>
  BY DEF Init
<1>2. /\ req.kind \in {"get", "grep"} /\ req.tail \in Nat /\ req.before \in Nat /\ req.after \in Nat
      /\ MaxMatches \in Nat
  BY <1>1, QueriesAssumption
<1>3. at = IF req.kind = "get" THEN "list" ELSE "open"
  BY <1>1
<1>4. at \in {"list", "open"} /\ (req.kind = "get" => at = "list") /\ (req.kind = "grep" => at = "open")
  BY <1>2, <1>3
<1>5. pos \in 0 .. Len(File)
  <2>1. /\ FileOf(lines, stored) \in Seq(Nat)
    BY <1>1, FileOfIs
  <2>2. Len(File) \in Nat
    <3>1. File \in Seq(Nat)
      BY <2>1, FileRead
    <3> QED BY <3>1
  <2> QED
    BY <1>1, <2>2
<1>6. TypeOK
  <2>1. /\ lines \in Seq(Kind) /\ Len(lines) = 0
        /\ published \in 0 .. Len(lines) /\ stored \in 0 .. Len(lines)
    BY <1>1
  <2>2. subscribed \in 0 .. published /\ next \in subscribed .. published
    BY <1>1
  <2>3. /\ window \in Seq(Nat) /\ Len(window) <= req.tail
        /\ sent \in Seq([line : Nat, number : Nat])
        /\ before \in Seq(Nat) /\ Len(before) <= req.before
        /\ pending \in Seq(Match) /\ Len(pending) <= req.after + 1
        /\ results \in Seq(Match) /\ Len(results) <= MaxMatches
    BY <1>1, <1>2
  <2> QED
    BY <1>1, <1>4, <1>5, <2>1, <2>2, <2>3 DEF TypeOK
<1>7. GetInv
  BY <1>1, <1>4 DEF GetInv
<1>8. GrepInv
  BY <1>1, <1>4 DEF GrepInv, GrepAnswersExpected
<1> QED
  BY <1>6, <1>7, <1>8 DEF Inv

LEMMA NextInv == Inv /\ [Next]_vars => Inv'
<1> SUFFICES ASSUME TypeOK, GetInv, GrepInv, [Next]_vars PROVE Inv'
  BY DEF Inv
<1>1. CASE Pipeline
  BY <1>1, PipelineTypes, PipelineGet, PipelineGrep DEF Inv
<1>2. CASE ListSources
  BY <1>2, ListSourcesInv DEF Inv
<1>3. CASE Subscribe
  BY <1>3, SubscribeInv DEF Inv
<1>4. CASE TailLine
  BY <1>4, TailLineInv DEF Inv
<1>5. CASE SendTail
  BY <1>5, SendTailInv DEF Inv
<1>6. CASE Follow
  BY <1>6, FollowInv DEF Inv
<1>7. CASE Lag
  BY <1>7, LagInv DEF Inv
<1>8. CASE OpenForGrep
  BY <1>8, OpenForGrepInv DEF Inv
<1>9. CASE SkipLine
  BY <1>9, SkipLineInv DEF Inv
<1>10. CASE GrepLine
  BY <1>10, GrepLineInv DEF Inv
<1>11. CASE FinishGrep
  BY <1>11, FinishGrepInv DEF Inv
<1>12. CASE UNCHANGED vars
  <2>1. /\ UNCHANGED sysVars
        /\ UNCHANGED <<req, at, pos, known, subscribed, next, lagged, window, sent, before, pending,
                       results>>
    BY <1>12 DEF vars, getVars, grepVars
  <2>2. UNCHANGED <<lines, published, stored, registered>> /\ File' = File
    BY <2>1, SameFile
  <2>3. Read' = Read /\ Hits' = Hits /\ Answers' = Answers /\ Expected' = Expected
    BY <2>1, SameRead
  <2>4. TypeOK'
    BY <2>1, <2>2 DEF TypeOK, Match
  <2>a. Count' = Count
    BY <2>1 DEF Count
  <2>b. Tailing => Tailing'
    BY <2>1, <2>2, <2>a DEF Tailing
  <2>c. Sent => Sent'
    BY <2>1, <2>2, <2>a DEF Sent, Mine
  <2>5. GetInv'
    BY <2>1, <2>b, <2>c DEF GetInv
  <2>6. GrepInv'
    <3>1. Answered' = Answered /\ Open' = Open
      BY <2>1, <2>3 DEF Answered, Open, Complete
    <3>2. Grepping' = Grepping
      BY <2>1, <2>3, <3>1 DEF Grepping
    <3>3. GrepAnswersExpected => GrepAnswersExpected'
      BY <2>1, <2>3 DEF GrepAnswersExpected
    <3> QED
      BY <2>1, <3>2, <3>3 DEF GrepInv
  <2> QED
    BY <2>4, <2>5, <2>6 DEF Inv
<1> QED
  BY <1>1, <1>2, <1>3, <1>4, <1>5, <1>6, <1>7, <1>8, <1>9, <1>10, <1>11, <1>12 DEF Next, Query

(* What the queries have kept, sent and answered is always accounted for by
   what they have read and followed (log_handlers.rs:138-207, 530-703). *)
THEOREM QueriesInvariant == Spec => []Inv
<1>1. Init => Inv
  BY InitInv
<1>2. Inv /\ [Next]_vars => Inv'
  BY NextInv
<1> QED
  BY <1>1, <1>2, PTL DEF Spec

-----------------------------------------------------------------------------
(* What follows from it.                                                   *)

(* The types, and the bounds of the tail, of grep's buffer of lines, of its
   open matches and of its answer (log_handlers.rs:530-606). *)
THEOREM TypesHold == Spec => []TypeOK
<1>1. Inv => TypeOK
  BY DEF Inv
<1> QED
  BY <1>1, QueriesInvariant, PTL

(* Whatever the file gains while grep goes through it, the answer is the
   first matches among the lines it read, each with its own context
   (log_handlers.rs:588-703). *)
THEOREM AnswersAreExpected == Spec => []GrepAnswersExpected
<1>1. Inv => GrepAnswersExpected
  BY DEF Inv, GrepInv
<1> QED
  BY <1>1, QueriesInvariant, PTL

LEMMA SentInv ==
  ASSUME TypeOK, GetInv, sent # <<>>
  PROVE  Sent /\ DOMAIN sent = 1 .. Len(sent) /\ Len(sent) \in Nat
<1>1. sent \in Seq([line : Nat, number : Nat])
  BY DEF TypeOK
<1>2. at \notin {"list", "subscribe", "tail"} /\ req.kind # "grep"
  BY DEF GetInv, Tailing
<1>3. Sent
  BY <1>2, RequestTypes DEF GetInv, TypeOK
<1> QED
  BY <1>1, <1>3

LEMMA InvOrder ==
  ASSUME TypeOK, GetInv
  PROVE  SentInOrder
<1>1. CASE sent = <<>>
  BY <1>1 DEF SentInOrder
<1>2. ASSUME sent # <<>> PROVE SentInOrder
  <2>1. /\ Sent /\ DOMAIN sent = 1 .. Len(sent) /\ Len(sent) \in Nat
        /\ Count \in Nat /\ Count <= pos /\ pos \in Nat /\ pos <= Len(File)
        /\ File \in Seq(Nat) /\ Rising(File)
        /\ subscribed \in Nat /\ next \in Nat
    BY <1>2, SentInv, CountIs, TypesOfFile DEF TypeOK
  <2> DEFINE c == Count
             Tailed(n) == sent[n] = [line |-> File[pos - c + n], number |-> pos - c + n]
             Followed(n) == sent[n].number = 0 /\ sent[n].line \in subscribed + 1 .. next
  <2>2. /\ c <= Len(sent)
        /\ \A n \in 1 .. c : Tailed(n)
        /\ \A n \in c + 1 .. Len(sent) : Followed(n)
        /\ \A m, n \in c + 1 .. Len(sent) : m < n => sent[m].line < sent[n].line
    BY <2>1 DEF Sent
  <2>3. \A n \in DOMAIN sent : n \in 1 .. c \/ n \in c + 1 .. Len(sent)
    BY <2>1
  <2>4. ASSUME NEW n \in 1 .. c
        PROVE  /\ sent[n].number = pos - c + n /\ sent[n].line = File[pos - c + n]
               /\ sent[n].number > 0 /\ pos - c + n \in 1 .. Len(File)
    <3>1. pos - c + n \in 1 .. Len(File)
      BY <2>1
    <3>2. Tailed(n)
      BY <2>2
    <3> DEFINE x == pos - c + n
    <3>3. x \in 1 .. Len(File) /\ sent[n] = [line |-> File[x], number |-> x]
      BY <3>1, <3>2
    <3> HIDE DEF x
    <3>4. sent[n].number = x /\ sent[n].line = File[x] /\ x > 0
      BY <2>1, <3>3
    <3> QED
      BY <3>3, <3>4 DEF x
  <2>5. ASSUME NEW n \in DOMAIN sent, sent[n].number > 0
        PROVE  sent[n].number = pos - c + n /\ sent[n].line = File[sent[n].number]
    <3>1. n \notin c + 1 .. Len(sent)
      <4> SUFFICES ASSUME n \in c + 1 .. Len(sent) PROVE FALSE
        OBVIOUS
      <4>1. sent[n].number = 0
        BY <2>2
      <4> QED
        BY <2>5, <4>1
    <3>2. n \in 1 .. c
      BY <2>3, <3>1
    <3> QED
      BY <2>4, <3>2
  <2>6. ASSUME NEW m \in DOMAIN sent, NEW n \in DOMAIN sent, m < n, sent[m].line >= sent[n].line
        PROVE  sent[m].number > 0 /\ sent[n].number = 0 /\ sent[n].line > subscribed
    <3>1. ~ (m \in 1 .. c /\ n \in 1 .. c)
      <4> SUFFICES ASSUME m \in 1 .. c, n \in 1 .. c PROVE FALSE
        OBVIOUS
      <4> DEFINE x == pos - c + m
                 y == pos - c + n
      <4>1. /\ sent[m].line = File[x] /\ sent[n].line = File[y]
            /\ x \in 1 .. Len(File) /\ y \in 1 .. Len(File)
        BY <2>4
      <4>2. x < y
        BY <2>1, <2>6
      <4> HIDE DEF x, y
      <4>3. File[x] < File[y] /\ File[x] \in Nat /\ File[y] \in Nat
        BY <2>1, <4>1, <4>2 DEF Rising
      <4>4. File[x] >= File[y]
        BY <2>6, <4>1
      <4> QED
        BY <4>3, <4>4
    <3>2. ~ (m \in c + 1 .. Len(sent) /\ n \in c + 1 .. Len(sent))
      <4> SUFFICES ASSUME m \in c + 1 .. Len(sent), n \in c + 1 .. Len(sent) PROVE FALSE
        OBVIOUS
      <4>1. sent[m].line < sent[n].line
        BY <2>2, <2>6
      <4>2. sent[m].line \in Nat /\ sent[n].line \in Nat
        BY <2>1, <2>2
      <4> QED
        BY <2>6, <4>1, <4>2
    <3>3. m \in 1 .. c /\ n \in c + 1 .. Len(sent)
      <4>1. ~ (m \in c + 1 .. Len(sent) /\ n \in 1 .. c)
        BY <2>1, <2>6
      <4> QED
        BY <2>3, <3>1, <3>2, <4>1
    <3>4. sent[m].number > 0
      BY <2>4, <3>3
    <3>5. sent[n].number = 0 /\ sent[n].line > subscribed
      <4>1. sent[n].number = 0 /\ sent[n].line \in subscribed + 1 .. next
        BY <2>2, <3>3
      <4> QED
        BY <2>1, <4>1
    <3> QED
      BY <3>4, <3>5
  <2> HIDE DEF Tailed, Followed
  <2> QED
    BY <2>5, <2>6 DEF SentInOrder, Count
<1> QED
  BY <1>1, <1>2

(* The tail is the end of the file as it was read, numbered as there, and a
   follower gets lines twice or out of order only where a line of the tail
   was published after the subscription (log_handlers.rs:147-207, 530-556). *)
THEOREM SentIsInOrder == Spec => []SentInOrder
<1>1. Inv => SentInOrder
  BY InvOrder DEF Inv
<1> QED
  BY <1>1, QueriesInvariant, PTL

LEMMA InvMissesNothing ==
  ASSUME TypeOK, GetInv
  PROVE  FollowerMissesNothing
<1> SUFFICES ASSUME at = "follow", next = published, ~lagged,
                    NEW id \in 1 .. published, Mine(id)
             PROVE  \/ \E n \in DOMAIN sent : sent[n].line = id
                    \/ id <= subscribed /\ (~known \/ req.tail = 0)
                    \/ \E n \in 1 .. pos - req.tail : File[n] = id
                    \/ id <= subscribed /\ ~ \E n \in 1 .. pos : File[n] = id
  BY DEF FollowerMissesNothing
<1>1. /\ Sent /\ sent \in Seq([line : Nat, number : Nat]) /\ Len(sent) \in Nat
      /\ published \in Nat /\ subscribed \in Nat
  BY FollowTypes
<1>2. DOMAIN sent = 1 .. Len(sent)
  BY <1>1
<1>3. /\ Count \in Nat /\ Count <= pos /\ pos \in Nat /\ req.tail \in Nat
      /\ Count = IF req.tail <= pos THEN req.tail ELSE pos
  BY CountIs, RequestTypes
<1>4. CASE id > subscribed
  <2>1. id \in subscribed + 1 .. next
    BY <1>1, <1>4
  <2>2. \E n \in Count + 1 .. Len(sent) : sent[n].line = id
    BY <1>1, <2>1 DEF Sent
  <2>3. \A n \in Count + 1 .. Len(sent) : n \in DOMAIN sent
    BY <1>1, <1>2, <1>3
  <2> QED
    BY <2>2, <2>3
<1>5. ASSUME id <= subscribed, NEW n \in 1 .. pos, File[n] = id
      PROVE  \/ \E k \in DOMAIN sent : sent[k].line = id
             \/ \E k \in 1 .. pos - req.tail : File[k] = id
  <2>1. CASE n <= pos - req.tail
    <3>1. n \in 1 .. pos - req.tail
      BY <1>3, <2>1
    <3> QED BY <1>5, <3>1
  <2>2. CASE n > pos - Count
    <3> DEFINE k == n - (pos - Count)
    <3>1. k \in 1 .. Count /\ pos - Count + k = n
      BY <1>3, <2>2
    <3>2. \A j \in 1 .. Count :
            sent[j] = [line |-> File[pos - Count + j], number |-> pos - Count + j]
      BY <1>1 DEF Sent
    <3> HIDE DEF k
    <3>3. sent[k].line = File[pos - Count + k]
      <4> DEFINE x == pos - Count + k
      <4>1. sent[k] = [line |-> File[x], number |-> x]
        BY <3>1, <3>2
      <4> HIDE DEF x
      <4>2. sent[k].line = File[x]
        BY <4>1
      <4> QED
        BY <4>2 DEF x
    <3>4. k \in DOMAIN sent
      <4>1. Count <= Len(sent)
        BY <1>1 DEF Sent
      <4> QED BY <1>1, <1>2, <1>3, <3>1, <4>1
    <3>5. sent[k].line = id
      BY <1>5, <3>1, <3>3
    <3> QED BY <3>4, <3>5
  <2>3. n <= pos - req.tail \/ n > pos - Count
    BY <1>3
  <2> QED
    BY <2>1, <2>2, <2>3
<1>6. CASE id <= subscribed
  BY <1>5, <1>6
<1>7. id > subscribed \/ id <= subscribed
  BY <1>1
<1> QED
  BY <1>4, <1>6, <1>7

(* A follower that has kept up has been sent every line but those before its
   tail and those published before it subscribed and not yet in the file
   when the tail was read (log_handlers.rs:138-207). *)
THEOREM NothingIsMissed == Spec => []FollowerMissesNothing
<1>1. Inv => FollowerMissesNothing
  BY InvMissesNothing DEF Inv
<1> QED
  BY <1>1, QueriesInvariant, PTL
=============================================================================
