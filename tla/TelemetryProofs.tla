-------------------------- MODULE TelemetryProofs ---------------------------
(***************************************************************************)
(* What the agent's reports can be trusted for, for every host, every      *)
(* outage, every capacity and every number of scrapes and failures.        *)
(*                                                                         *)
(* First the batch: its series are distinct, and an outage costs the       *)
(* samples that need the failing calls and no others.  Both come from laws *)
(* of FlattenSeq, the recursion every collector and the merge are built    *)
(* with.  Then the page of /metrics: the backlog an operator computes and  *)
(* the time of the last flush, from the accounts the two loops keep and    *)
(* the order in which the handler reads them.  Last the server's copies.   *)
(***************************************************************************)
EXTENDS Telemetry, SequenceTheorems, FiniteSetTheorems, WellFoundedInduction, TLAPS

-----------------------------------------------------------------------------
(* Flattening.  A set of sequences that are a counterexample has a shortest *)
(* member, and that one cannot be: induction without an operator parameter. *)

\* Every set of naturals has a least element.
LEMMA LeastNatural ==
  ASSUME NEW T, T \subseteq Nat, T # {}
  PROVE  \E n \in T : \A m \in T : n <= m
<1> DEFINE R == {p \in Nat \X Nat : p[1] < p[2]}
<1>1. IsWellFoundedOn(R, Nat)
  BY NatLessThanWellFounded DEF OpToRel
<1> HIDE DEF R
<1>2. PICK n \in T : \A m \in T : <<m, n>> \notin R
  BY <1>1, WFMin
<1>3. \A m \in T : ~(m < n)
  BY <1>2 DEF R
<1>4. QED
  BY <1>3

\* Keeps \o from the provers where only the recursion matters.
Then(a, b) == a \o b

\* f[i] is the concatenation of the first i members of ss.
Joins(ss, f) == f = [i \in 1..Len(ss) |-> IF i = 1 THEN ss[i] ELSE Then(f[i - 1], ss[i])]

\* The recursion of FlattenSeq has a solution: one for all but the last member
\* extends to one for all of them.
LEMMA JoinsExists ==
  ASSUME NEW ss, NEW N \in Nat, Len(ss) = N
  PROVE  \E f : Joins(ss, f)
<1> DEFINE Solves(f, n) == f = [i \in 1..n |-> IF i = 1 THEN ss[i] ELSE Then(f[i - 1], ss[i])]
           T == {n \in Nat : ~\E f : Solves(f, n)}
<1>1. SUFFICES ASSUME T # {} PROVE FALSE
  <2>1. T = {} => \E f : Solves(f, N)
    OBVIOUS
  <2>2. QED
    BY <1>1, <2>1 DEF Joins
<1>2. PICK n \in T : \A m \in T : n <= m
  BY <1>1, LeastNatural
<1>3. n # 0
  <2>1. Solves([i \in 1..0 |-> 0], 0)
    OBVIOUS
  <2>2. QED
    BY <2>1
<1>4. PICK f : Solves(f, n - 1)
  <2>1. n - 1 \in Nat /\ n - 1 \notin T
    <3>1. n \in Nat
      OBVIOUS
    <3> HIDE DEF T
    <3>2. QED
      BY <1>2, <1>3, <3>1
  <2>2. QED
    BY <2>1
<1> DEFINE g == [i \in 1..n |-> IF i = 1 THEN ss[i] ELSE Then(f[i - 1], ss[i])]
<1>5. \A i \in 1..(n - 1) : g[i] = f[i]
  BY <1>4
<1>6. Solves(g, n)
  <2>1. n \in Nat
    OBVIOUS
  <2>2. \A i \in 1..n : i # 1 => f[i - 1] = g[i - 1]
    <3> HIDE DEF g
    <3>1. QED
      BY <1>5, <2>1
  <2>3. QED
    BY <2>2
<1>7. QED
  BY <1>6

LEMMA JoinsAt ==
  ASSUME NEW ss, NEW N \in Nat, Len(ss) = N, NEW f, Joins(ss, f), NEW i \in 1..N
  PROVE  f[i] = IF i = 1 THEN ss[i] ELSE Then(f[i - 1], ss[i])
<1>1. f = [j \in 1..N |-> IF j = 1 THEN ss[j] ELSE Then(f[j - 1], ss[j])]
  BY Zenon DEF Joins
<1> DEFINE b(j) == IF j = 1 THEN ss[j] ELSE Then(f[j - 1], ss[j])
<1>2. f = [j \in 1..N |-> b(j)]
  BY <1>1
<1> HIDE DEF b
<1>3. f[i] = b(i)
  BY <1>2
<1>4. QED
  BY <1>3 DEF b

LEMMA FlattenJoins ==
  ASSUME NEW ss, Len(ss) # 0, \E f : Joins(ss, f)
  PROVE  \E f : Joins(ss, f) /\ FlattenSeq(ss) = f[Len(ss)]
<1> DEFINE f == CHOOSE f : f = [i \in 1..Len(ss) |-> IF i = 1 THEN ss[i] ELSE Then(f[i - 1], ss[i])]
<1>1. FlattenSeq(ss) = f[Len(ss)]
  BY Zenon DEF FlattenSeq, Then
<1>2. Joins(ss, f)
  BY Zenon DEF Joins
<1>3. QED
  BY <1>1, <1>2

\* One more member is joined last.
LEMMA JoinsStep ==
  ASSUME NEW N \in Nat, NEW ss, NEW tt, Len(ss) = N, Len(tt) = N + 1,
         \A i \in 1..N : tt[i] = ss[i], NEW f, Joins(ss, f), NEW g, Joins(tt, g)
  PROVE  g[N + 1] = IF N = 0 THEN tt[1] ELSE Then(f[N], tt[N + 1])
<1>1. \A i \in 1..N : f[i] = IF i = 1 THEN ss[i] ELSE Then(f[i - 1], ss[i])
  BY JoinsAt
<1>2. \A i \in 1..(N + 1) : g[i] = IF i = 1 THEN tt[i] ELSE Then(g[i - 1], tt[i])
  <2>1. N + 1 \in Nat
    OBVIOUS
  <2>2. QED
    BY <2>1, JoinsAt
<1> DEFINE T == {i \in 1..N : f[i] # g[i]}
<1>3. ASSUME T # {} PROVE FALSE
  <2>1. PICK i \in T : \A j \in T : i <= j
    <3>1. T \subseteq Nat
      OBVIOUS
    <3>2. QED
      BY <1>3, <3>1, LeastNatural
  <2>2. i \in 1..N /\ f[i] # g[i]
    OBVIOUS
  <2>3. i # 1
    BY <1>1, <1>2, <2>2
  <2>4. i - 1 \in 1..N /\ i - 1 \notin T
    <3> HIDE DEF T
    <3>1. QED
      BY <2>1, <2>2, <2>3
  <2>5. f[i - 1] = g[i - 1]
    BY <2>4
  <2>6. f[i] = Then(f[i - 1], ss[i]) /\ g[i] = Then(g[i - 1], tt[i])
    BY <1>1, <1>2, <2>2, <2>3
  <2>7. QED
    BY <2>2, <2>5, <2>6
<1>4. N # 0 => f[N] = g[N]
  BY <1>3
<1>5. N + 1 \in 1..(N + 1) /\ (N + 1) - 1 = N /\ (N + 1 = 1 <=> N = 0)
  OBVIOUS
<1>6. QED
  BY <1>2, <1>4, <1>5

\* FlattenSeq member by member.
LEMMA FlattenStep ==
  ASSUME NEW S, NEW ss \in Seq(Seq(S)), NEW s \in Seq(S)
  PROVE  FlattenSeq(Append(ss, s)) = FlattenSeq(ss) \o s
<1>1. PICK N \in Nat : Len(ss) = N
  OBVIOUS
<1>2. PICK tt : tt = Append(ss, s)
  OBVIOUS
<1>3. Len(tt) = N + 1 /\ tt[N + 1] = s /\ \A i \in 1..N : tt[i] = ss[i]
  BY <1>1, <1>2
<1>4. PICK g : Joins(tt, g) /\ FlattenSeq(tt) = g[N + 1]
  <2>1. N + 1 \in Nat /\ N + 1 # 0
    OBVIOUS
  <2>2. \E f : Joins(tt, f)
    BY <1>3, <2>1, JoinsExists
  <2>3. QED
    BY <1>3, <2>1, <2>2, FlattenJoins
<1>5. PICK f : Joins(ss, f) /\ (N # 0 => FlattenSeq(ss) = f[N])
  <2>1. \E f : Joins(ss, f)
    BY <1>1, JoinsExists
  <2>2. QED
    BY <1>1, <2>1, FlattenJoins
<1>6. g[N + 1] = IF N = 0 THEN tt[1] ELSE Then(f[N], tt[N + 1])
  BY <1>1, <1>3, <1>4, <1>5, JoinsStep
<1>7. CASE N = 0
  <2>1. FlattenSeq(ss) = <<>>
    BY <1>1, <1>7 DEF FlattenSeq
  <2>2. FlattenSeq(tt) = s
    BY <1>3, <1>4, <1>6, <1>7
  <2>3. QED
    BY <1>2, <2>1, <2>2
<1>8. CASE N # 0
  <2>1. FlattenSeq(tt) = Then(FlattenSeq(ss), s)
    BY <1>3, <1>4, <1>5, <1>6, <1>8
  <2>2. QED
    BY <1>2, <2>1 DEF Then
<1>9. QED
  BY <1>7, <1>8

LEMMA FlattenEmpty == FlattenSeq(<<>>) = <<>>
BY DEF FlattenSeq

\* Every sequence is empty or a shorter one with a last element.
LEMMA SnocCases ==
  ASSUME NEW S, NEW s \in Seq(S)
  PROVE  s = <<>> \/ \E r \in Seq(S), x \in S : s = Append(r, x) /\ Len(r) = Len(s) - 1
<1>1. CASE Len(s) = 0
  BY <1>1
<1>2. CASE Len(s) # 0
  <2> DEFINE r == [i \in 1..(Len(s) - 1) |-> s[i]]
  <2>1. r \in Seq(S) /\ s[Len(s)] \in S /\ Len(r) = Len(s) - 1
    BY <1>2
  <2>2. s = Append(r, s[Len(s)])
    BY <1>2, <2>1
  <2>3. QED
    BY <2>1, <2>2
<1>3. QED
  BY <1>1, <1>2

\* A set of sequences has a shortest one.
LEMMA Shortest ==
  ASSUME NEW S, NEW B, B \subseteq Seq(S), B # {}
  PROVE  \E s \in B : \A t \in B : Len(s) <= Len(t)
<1> DEFINE T == {Len(s) : s \in B}
<1>1. T \subseteq Nat /\ T # {}
  <2>1. \A s \in B : Len(s) \in Nat
    OBVIOUS
  <2>2. QED
    BY <2>1
<1>2. PICK n \in T : \A m \in T : n <= m
  BY <1>1, LeastNatural
<1>3. QED
  BY <1>2

\* FlattenSeq yields a sequence.
LEMMA FlattenType ==
  ASSUME NEW S, NEW ss \in Seq(Seq(S))
  PROVE  FlattenSeq(ss) \in Seq(S)
<1> DEFINE Bad == {tt \in Seq(Seq(S)) : FlattenSeq(tt) \notin Seq(S)}
<1>1. SUFFICES ASSUME Bad # {} PROVE FALSE
  OBVIOUS
<1>2. PICK tt \in Bad : \A uu \in Bad : Len(tt) <= Len(uu)
  BY <1>1, Shortest
<1>3. tt \in Seq(Seq(S)) /\ FlattenSeq(tt) \notin Seq(S)
  OBVIOUS
<1>4. PICK uu \in Seq(Seq(S)), s \in Seq(S) : tt = Append(uu, s) /\ Len(uu) = Len(tt) - 1
  <2>1. <<>> \in Seq(S)
    OBVIOUS
  <2>2. tt # <<>>
    BY <1>3, <2>1, FlattenEmpty
  <2>3. QED
    BY <1>3, <2>2, SnocCases
<1>5. uu \notin Bad
  BY <1>2, <1>3, <1>4
<1>6. FlattenSeq(tt) = FlattenSeq(uu) \o s
  BY <1>4, FlattenStep
<1>7. QED
  BY <1>3, <1>5, <1>6

\* Every element of the result comes from a member.
LEMMA FlattenMembers ==
  ASSUME NEW S, NEW ss \in Seq(Seq(S)), NEW p \in 1..Len(FlattenSeq(ss))
  PROVE  \E i \in 1..Len(ss) : \E k \in 1..Len(ss[i]) : FlattenSeq(ss)[p] = ss[i][k]
<1> DEFINE From(tt, q) == \E i \in 1..Len(tt) : \E k \in 1..Len(tt[i]) : FlattenSeq(tt)[q] = tt[i][k]
           Bad == {tt \in Seq(Seq(S)) : ~\A q \in 1..Len(FlattenSeq(tt)) : From(tt, q)}
<1>1. SUFFICES ASSUME Bad # {} PROVE FALSE
  OBVIOUS
<1>2. PICK tt \in Bad : \A uu \in Bad : Len(tt) <= Len(uu)
  BY <1>1, Shortest
<1>3. tt \in Seq(Seq(S)) /\ ~\A q \in 1..Len(FlattenSeq(tt)) : From(tt, q)
  OBVIOUS
<1>4. PICK uu \in Seq(Seq(S)), s \in Seq(S) : tt = Append(uu, s) /\ Len(uu) = Len(tt) - 1
  BY <1>3, SnocCases, FlattenEmpty
<1>5. \A q \in 1..Len(FlattenSeq(uu)) : From(uu, q)
  <2>1. uu \notin Bad
    <3> HIDE DEF Bad
    <3>1. QED
      BY <1>2, <1>3, <1>4
  <2>2. QED
    BY <2>1
<1>6. FlattenSeq(tt) = FlattenSeq(uu) \o s /\ FlattenSeq(uu) \in Seq(S)
  BY <1>4, FlattenStep, FlattenType
<1>7. ASSUME NEW q \in 1..Len(FlattenSeq(tt)) PROVE From(tt, q)
  <2>1. CASE q <= Len(FlattenSeq(uu))
    <3>0. q \in 1..Len(FlattenSeq(uu))
      BY <1>6, <2>1
    <3>1. PICK i \in 1..Len(uu) : \E k \in 1..Len(uu[i]) : FlattenSeq(uu)[q] = uu[i][k]
      BY <1>5, <3>0
    <3>2. i \in 1..Len(tt) /\ tt[i] = uu[i] /\ FlattenSeq(tt)[q] = FlattenSeq(uu)[q]
      BY <1>4, <1>6, <2>1
    <3>3. QED
      BY <3>1, <3>2
  <2>2. CASE q > Len(FlattenSeq(uu))
    <3>1. Len(tt) \in 1..Len(tt) /\ tt[Len(tt)] = s
      BY <1>4
    <3>2. PICK k \in 1..Len(s) : FlattenSeq(tt)[q] = s[k]
      <4>1. q - Len(FlattenSeq(uu)) \in 1..Len(s)
        BY <1>6, <2>2
      <4>2. FlattenSeq(tt)[q] = s[q - Len(FlattenSeq(uu))]
        BY <1>6, <2>2
      <4>3. QED
        BY <4>1, <4>2
    <3>3. QED
      BY <3>1, <3>2
  <2>3. QED
    BY <1>6, <2>1, <2>2
<1>8. QED
  BY <1>3, <1>7

-----------------------------------------------------------------------------
(* Distinct series *)

\* Two samples of the same name differ in a label that both have of their own;
\* two capacities of disks differ in the device.
Apart(s, t) ==
  s.name = t.name =>
    \E k \in DOMAIN s.labels \cap DOMAIN t.labels :
      s.labels[k] # t.labels[k] /\ (s.name = "disk.used" => k = "device")

AllApart(s) == \A i, j \in 1..Len(s) : i # j => Apart(s[i], s[j])
ApartFrom(s, t) == \A i \in 1..Len(s), j \in 1..Len(t) : Apart(s[i], t[j]) /\ Apart(t[j], s[i])

LEMMA ApartConcat ==
  ASSUME NEW S, NEW s \in Seq(S), NEW t \in Seq(S), AllApart(s), AllApart(t), ApartFrom(s, t)
  PROVE  AllApart(s \o t)
<1>1. ASSUME NEW i \in 1..Len(s \o t) 
      PROVE  \/ i \in 1..Len(s) /\ (s \o t)[i] = s[i]
             \/ i - Len(s) \in 1..Len(t) /\ (s \o t)[i] = t[i - Len(s)] /\ i > Len(s)
  OBVIOUS
<1>2. Len(s) \in Nat /\ Len(t) \in Nat /\ Len(s \o t) \in Nat
  OBVIOUS
<1>3. ASSUME NEW i \in 1..Len(s \o t), NEW j \in 1..Len(s \o t), i # j 
      PROVE  Apart((s \o t)[i], (s \o t)[j])
  <2>1. CASE i \in 1..Len(s) /\ j \in 1..Len(s)
    BY <1>1, <1>2, <1>3, <2>1 DEF AllApart
  <2>2. CASE i \in 1..Len(s) /\ j \notin 1..Len(s)
    BY <1>1, <1>2, <2>2 DEF ApartFrom
  <2>3. CASE i \notin 1..Len(s) /\ j \in 1..Len(s)
    BY <1>1, <1>2, <2>3 DEF ApartFrom
  <2>4. CASE i \notin 1..Len(s) /\ j \notin 1..Len(s)
    <3>1. i - Len(s) # j - Len(s)
      BY <1>2, <1>3
    <3>2. QED
      BY <1>1, <1>2, <2>4, <3>1 DEF AllApart
  <2>5. QED
    BY <2>1, <2>2, <2>3, <2>4
<1>4. QED
  BY <1>3 DEF AllApart

LEMMA FlattenApart ==
  ASSUME NEW S, NEW ss \in Seq(Seq(S)),
         \A i \in 1..Len(ss) : AllApart(ss[i]),
         \A i, j \in 1..Len(ss) : i # j => ApartFrom(ss[i], ss[j])
  PROVE  AllApart(FlattenSeq(ss))
<1> DEFINE Good(tt) == /\ \A i \in 1..Len(tt) : AllApart(tt[i])
                       /\ \A i, j \in 1..Len(tt) : i # j => ApartFrom(tt[i], tt[j])
           Bad == {tt \in Seq(Seq(S)) : Good(tt) /\ ~AllApart(FlattenSeq(tt))}
<1>1. SUFFICES ASSUME Bad # {} PROVE FALSE
  OBVIOUS
<1>2. PICK tt \in Bad : \A uu \in Bad : Len(tt) <= Len(uu)
  BY <1>1, Shortest
<1>3. tt \in Seq(Seq(S)) /\ Good(tt) /\ ~AllApart(FlattenSeq(tt))
  OBVIOUS
<1>4. tt # <<>>
  BY <1>3, FlattenEmpty DEF AllApart
<1>5. PICK uu \in Seq(Seq(S)), s \in Seq(S) : tt = Append(uu, s) /\ Len(uu) = Len(tt) - 1
  BY <1>3, <1>4, SnocCases
<1>6. /\ Len(uu) \in Nat /\ Len(tt) = Len(uu) + 1 /\ tt[Len(tt)] = s
      /\ \A i \in 1..Len(uu) : tt[i] = uu[i]
  BY <1>5
<1>7. Good(uu) /\ AllApart(s) /\ \A i \in 1..Len(uu) : ApartFrom(uu[i], s)
  BY <1>3, <1>6
<1>8. AllApart(FlattenSeq(uu))
  <2>1. uu \notin Bad
    <3> HIDE DEF Bad
    <3>1. QED
      BY <1>2, <1>6
  <2>2. QED
    BY <1>7, <2>1
<1>9. FlattenSeq(tt) = FlattenSeq(uu) \o s /\ FlattenSeq(uu) \in Seq(S)
  BY <1>5, FlattenStep, FlattenType
<1>10. ApartFrom(FlattenSeq(uu), s)
  <2>1. ASSUME NEW p \in 1..Len(FlattenSeq(uu)), NEW j \in 1..Len(s)
        PROVE  Apart(FlattenSeq(uu)[p], s[j]) /\ Apart(s[j], FlattenSeq(uu)[p])
    <3>1. PICK i \in 1..Len(uu) : \E k \in 1..Len(uu[i]) : FlattenSeq(uu)[p] = uu[i][k]
      BY <1>5, FlattenMembers
    <3>2. QED
      BY <1>7, <3>1 DEF ApartFrom
  <2>2. QED
    BY <2>1 DEF ApartFrom
<1>11. QED
  BY <1>3, <1>7, <1>8, <1>9, <1>10, ApartConcat
-----------------------------------------------------------------------------
(* Selecting *)

Pick(x, G) == IF x \in G THEN <<x>> ELSE <<>>
KeepIn(s, G) == FlattenSeq([i \in 1..Len(s) |-> Pick(s[i], G)])

LEMMA KeepEmpty == \A G : KeepIn(<<>>, G) = <<>>
BY FlattenEmpty DEF KeepIn

LEMMA KeepType ==
  ASSUME NEW S, NEW s \in Seq(S), NEW G
  PROVE  KeepIn(s, G) \in Seq(S)
<1>1. [i \in 1..Len(s) |-> Pick(s[i], G)] \in Seq(Seq(S))
  BY DEF Pick
<1>2. QED
  BY <1>1, FlattenType DEF KeepIn

LEMMA KeepStep ==
  ASSUME NEW S, NEW s \in Seq(S), NEW x \in S, NEW G
  PROVE  KeepIn(Append(s, x), G) = KeepIn(s, G) \o Pick(x, G)
<1> DEFINE ss == [i \in 1..Len(s) |-> Pick(s[i], G)]
           tt == [i \in 1..Len(Append(s, x)) |-> Pick(Append(s, x)[i], G)]
<1>1. ss \in Seq(Seq(S)) /\ Pick(x, G) \in Seq(S)
  BY DEF Pick
<1>2. tt = Append(ss, Pick(x, G))
  OBVIOUS
<1>3. FlattenSeq(tt) = FlattenSeq(ss) \o Pick(x, G)
  <2> HIDE DEF ss, tt
  <2>1. QED
    BY <1>1, <1>2, FlattenStep
<1>4. QED
  BY <1>3 DEF KeepIn

\* Selecting from a concatenation is concatenating the selections.
LEMMA KeepConcat ==
  ASSUME NEW S, NEW s \in Seq(S), NEW t \in Seq(S), NEW G
  PROVE  KeepIn(s \o t, G) = KeepIn(s, G) \o KeepIn(t, G)
<1> DEFINE Bad == {u \in Seq(S) : KeepIn(s \o u, G) # KeepIn(s, G) \o KeepIn(u, G)}
<1>1. SUFFICES ASSUME Bad # {} PROVE FALSE
  OBVIOUS
<1>2. PICK u \in Bad : \A v \in Bad : Len(u) <= Len(v)
  BY <1>1, Shortest
<1>3. u \in Seq(S) /\ KeepIn(s \o u, G) # KeepIn(s, G) \o KeepIn(u, G)
  OBVIOUS
<1>4. KeepIn(s, G) \in Seq(S)
  BY KeepType
<1>5. u # <<>>
  <2>1. s \o <<>> = s /\ KeepIn(s, G) \o <<>> = KeepIn(s, G)
    BY <1>4
  <2>2. QED
    BY <1>3, <2>1, KeepEmpty
<1>6. PICK v \in Seq(S), x \in S : u = Append(v, x) /\ Len(v) = Len(u) - 1
  BY <1>3, <1>5, SnocCases
<1>7. KeepIn(s \o v, G) = KeepIn(s, G) \o KeepIn(v, G)
  <2>1. v \notin Bad
    <3> HIDE DEF Bad
    <3>1. QED
      BY <1>2, <1>3, <1>6
  <2>2. QED
    BY <2>1
<1>8. s \o v \in Seq(S) /\ s \o u = Append(s \o v, x)
  BY <1>6
<1>9. KeepIn(s \o u, G) = KeepIn(s \o v, G) \o Pick(x, G)
  BY <1>8, KeepStep
<1>10. KeepIn(u, G) = KeepIn(v, G) \o Pick(x, G)
  BY <1>6, KeepStep
<1>11. KeepIn(v, G) \in Seq(S) /\ Pick(x, G) \in Seq(S)
  BY KeepType DEF Pick
<1>12. (KeepIn(s, G) \o KeepIn(v, G)) \o Pick(x, G) = KeepIn(s, G) \o (KeepIn(v, G) \o Pick(x, G))
  BY <1>4, <1>11
<1>13. QED
  BY <1>3, <1>7, <1>9, <1>10, <1>12

\* Selecting from what was flattened is flattening the selections.
LEMMA KeepFlatten ==
  ASSUME NEW S, NEW ss \in Seq(Seq(S)), NEW G
  PROVE  KeepIn(FlattenSeq(ss), G) = FlattenSeq([i \in 1..Len(ss) |-> KeepIn(ss[i], G)])
<1> DEFINE Kept(tt) == [i \in 1..Len(tt) |-> KeepIn(tt[i], G)]
           Bad == {tt \in Seq(Seq(S)) : KeepIn(FlattenSeq(tt), G) # FlattenSeq(Kept(tt))}
<1>1. SUFFICES ASSUME Bad # {} PROVE FALSE
  OBVIOUS
<1>2. PICK tt \in Bad : \A uu \in Bad : Len(tt) <= Len(uu)
  BY <1>1, Shortest
<1>3. tt \in Seq(Seq(S)) /\ KeepIn(FlattenSeq(tt), G) # FlattenSeq(Kept(tt))
  OBVIOUS
<1>4. tt # <<>>
  <2>1. Kept(<<>>) = <<>>
    OBVIOUS
  <2>2. QED
    BY <1>3, <2>1, FlattenEmpty, KeepEmpty
<1>5. PICK uu \in Seq(Seq(S)), s \in Seq(S) : tt = Append(uu, s) /\ Len(uu) = Len(tt) - 1
  BY <1>3, <1>4, SnocCases
<1>6. KeepIn(FlattenSeq(uu), G) = FlattenSeq(Kept(uu))
  <2>1. uu \notin Bad
    <3> HIDE DEF Bad
    <3>1. QED
      BY <1>2, <1>3, <1>5
  <2>2. QED
    BY <2>1
<1>7. KeepIn(s, G) \in Seq(S) /\ Kept(uu) \in Seq(Seq(S))
  <2>1. \A i \in 1..Len(uu) : KeepIn(uu[i], G) \in Seq(S)
    BY KeepType
  <2>2. QED
    BY <2>1, KeepType
<1>8. Kept(tt) = Append(Kept(uu), KeepIn(s, G))
  BY <1>5
<1>9. FlattenSeq(Kept(tt)) = FlattenSeq(Kept(uu)) \o KeepIn(s, G)
  <2> HIDE DEF Kept
  <2>1. QED
    BY <1>7, <1>8, FlattenStep
<1>10. FlattenSeq(tt) = FlattenSeq(uu) \o s /\ FlattenSeq(uu) \in Seq(S)
  BY <1>5, FlattenStep, FlattenType
<1>11. KeepIn(FlattenSeq(tt), G) = KeepIn(FlattenSeq(uu), G) \o KeepIn(s, G)
  BY <1>10, KeepConcat
<1>12. QED
  BY <1>3, <1>6, <1>9, <1>11

LEMMA KeepNone ==
  ASSUME NEW S, NEW s \in Seq(S), NEW G, \A i \in 1..Len(s) : s[i] \notin G
  PROVE  KeepIn(s, G) = <<>>
<1> DEFINE ss == [i \in 1..Len(s) |-> Pick(s[i], G)]
<1>1. ss \in Seq(Seq(S)) /\ \A i \in 1..Len(ss) : Len(ss[i]) = 0
  BY DEF Pick
<1> HIDE DEF ss
<1>2. FlattenSeq(ss) \in Seq(S)
  BY <1>1, FlattenType
<1>3. ASSUME NEW p \in 1..Len(FlattenSeq(ss)) PROVE FALSE
  <2>1. PICK i \in 1..Len(ss) : \E k \in 1..Len(ss[i]) : FlattenSeq(ss)[p] = ss[i][k]
    BY <1>1, FlattenMembers
  <2>2. Len(ss[i]) = 0
    BY <1>1
  <2>3. QED
    BY <2>1, <2>2
<1>4. FlattenSeq(ss) = <<>>
  BY <1>2, <1>3
<1>5. QED
  BY <1>4 DEF ss, KeepIn

LEMMA KeepAll ==
  ASSUME NEW S, NEW s \in Seq(S), NEW G, \A i \in 1..Len(s) : s[i] \in G
  PROVE  KeepIn(s, G) = s
<1> DEFINE Bad == {u \in Seq(S) : (\A i \in 1..Len(u) : u[i] \in G) /\ KeepIn(u, G) # u}
<1>1. SUFFICES ASSUME Bad # {} PROVE FALSE
  OBVIOUS
<1>2. PICK u \in Bad : \A v \in Bad : Len(u) <= Len(v)
  BY <1>1, Shortest
<1>3. u \in Seq(S) /\ (\A i \in 1..Len(u) : u[i] \in G) /\ KeepIn(u, G) # u
  OBVIOUS
<1>4. PICK v \in Seq(S), x \in S : u = Append(v, x) /\ Len(v) = Len(u) - 1
  BY <1>3, SnocCases, KeepEmpty
<1>5. (\A i \in 1..Len(v) : v[i] \in G) /\ x \in G
  <2>1. /\ Len(u) \in 1..Len(u) /\ u[Len(u)] = x
        /\ \A i \in 1..Len(v) : i \in 1..Len(u) /\ u[i] = v[i]
    BY <1>4
  <2>2. QED
    BY <1>3, <2>1
<1>6. v \notin Bad
  <2> HIDE DEF Bad
  <2>1. QED
    BY <1>2, <1>3, <1>4
<1>7. KeepIn(u, G) = v \o <<x>>
  BY <1>4, <1>5, <1>6, KeepStep DEF Pick
<1>8. QED
  BY <1>3, <1>4, <1>7

LEMMA KeepTwice ==
  ASSUME NEW S, NEW s \in Seq(S), NEW x \in S, NEW G, NEW H
  PROVE  KeepIn(KeepIn(Append(s, x), G), H) = KeepIn(KeepIn(s, G), H) \o KeepIn(Pick(x, G), H)
<1>1. KeepIn(Append(s, x), G) = KeepIn(s, G) \o Pick(x, G)
  BY KeepStep
<1>2. KeepIn(s, G) \in Seq(S) /\ Pick(x, G) \in Seq(S)
  BY KeepType DEF Pick
<1>3. KeepIn(KeepIn(s, G) \o Pick(x, G), H) = KeepIn(KeepIn(s, G), H) \o KeepIn(Pick(x, G), H)
  BY <1>2, KeepConcat
<1>4. QED
  BY <1>1, <1>3

\* The order of two selections does not matter.
LEMMA KeepCommutes ==
  ASSUME NEW S, NEW s \in Seq(S), NEW G, NEW H
  PROVE  KeepIn(KeepIn(s, G), H) = KeepIn(KeepIn(s, H), G)
<1> DEFINE Bad == {u \in Seq(S) : KeepIn(KeepIn(u, G), H) # KeepIn(KeepIn(u, H), G)}
<1>1. SUFFICES ASSUME Bad # {} PROVE FALSE
  OBVIOUS
<1>2. PICK u \in Bad : \A v \in Bad : Len(u) <= Len(v)
  BY <1>1, Shortest
<1>3. u \in Seq(S) /\ KeepIn(KeepIn(u, G), H) # KeepIn(KeepIn(u, H), G)
  OBVIOUS
<1>4. PICK v \in Seq(S), x \in S : u = Append(v, x) /\ Len(v) = Len(u) - 1
  BY <1>3, SnocCases, KeepEmpty
<1>5. KeepIn(KeepIn(v, G), H) = KeepIn(KeepIn(v, H), G)
  <2>1. v \notin Bad
    <3> HIDE DEF Bad
    <3>1. QED
      BY <1>2, <1>3, <1>4
  <2>2. QED
    BY <2>1
<1>6. ASSUME NEW A, NEW B
      PROVE  KeepIn(KeepIn(u, A), B) = KeepIn(KeepIn(v, A), B) \o KeepIn(Pick(x, A), B)
  BY <1>4, KeepTwice
<1>7. KeepIn(Pick(x, G), H) = KeepIn(Pick(x, H), G)
  <2>1. ASSUME NEW A, NEW B 
        PROVE  KeepIn(Pick(x, A), B) = IF x \in A /\ x \in B THEN <<x>> ELSE <<>>
    <3>1. CASE x \in A
      <4>1. <<>> \in Seq(S) /\ <<x>> = Append(<<>>, x) /\ Pick(x, B) \in Seq(S)
        BY DEF Pick
      <4>2. KeepIn(<<x>>, B) = KeepIn(<<>>, B) \o Pick(x, B)
        BY <4>1, KeepStep
      <4>3. KeepIn(<<x>>, B) = Pick(x, B)
        <5>1. KeepIn(<<>>, B) = <<>>
          BY KeepEmpty
        <5>2. <<>> \o Pick(x, B) = Pick(x, B)
          BY <4>1
        <5>3. QED
          BY <4>2, <5>1, <5>2
      <4>4. QED
        BY <3>1, <4>3 DEF Pick
    <3>2. CASE x \notin A
      BY <3>2, KeepEmpty DEF Pick
    <3>3. QED
      BY <3>1, <3>2
  <2>2. QED
    BY <2>1
<1>8. QED
  BY <1>3, <1>5, <1>6, <1>7

\* Whatever is selected is apart if all of it is.
LEMMA KeepApart ==
  ASSUME NEW S, NEW s \in Seq(S), AllApart(s), NEW G
  PROVE  AllApart(KeepIn(s, G))
<1> DEFINE ss == [i \in 1..Len(s) |-> Pick(s[i], G)]
<1>1. /\ ss \in Seq(Seq(S)) /\ Len(ss) = Len(s)
      /\ \A i \in 1..Len(ss) : Len(ss[i]) \in {0, 1} /\ \A k \in 1..Len(ss[i]) : ss[i][k] = s[i]
  BY DEF Pick
<1> HIDE DEF ss
<1>2. ASSUME NEW i \in 1..Len(ss) PROVE AllApart(ss[i])
  <2>1. Len(ss[i]) \in {0, 1}
    BY <1>1
  <2>2. QED
    BY <2>1 DEF AllApart
<1>3. \A i, j \in 1..Len(ss) : i # j => ApartFrom(ss[i], ss[j])
  BY <1>1 DEF AllApart, ApartFrom
<1>4. AllApart(FlattenSeq(ss))
  BY <1>1, <1>2, <1>3, FlattenApart
<1>5. QED
  BY <1>4 DEF ss, KeepIn

-----------------------------------------------------------------------------
(* The collectors *)

CoreSample(i) == Sample(Cores[i].metric, [core |-> Cores[i].core])
MountSample(n, i) == Sample(n, [mount |-> Mounts[i].mount, device |-> Mounts[i].device])
DeviceSample(n, d) == Sample(n, [device |-> d])
IfaceSample(n, i) == Sample(n, [iface |-> Ifaces[i].iface])

\* What the host can yield.
Samples ==
  {Sample(n, NoLabels) : n \in HostMetrics}
    \cup {CoreSample(i) : i \in 1..Len(Cores)}
    \cup {MountSample(n, i) : n \in HostMetrics, i \in 1..Len(Mounts)}
    \cup {DeviceSample(n, Devices[i]) : n \in HostMetrics, i \in 1..Len(Devices)}
    \cup {IfaceSample(n, i) : n \in HostMetrics, i \in 1..Len(Ifaces)}

LEMMA Lengths ==
  Len(Cores) \in Nat /\ Len(Mounts) \in Nat /\ Len(Devices) \in Nat /\ Len(Ifaces) \in Nat
BY HostAssumption

Named(s, names) == \A i \in 1..Len(s) : s[i].name \in names

LEMMA NamedApart ==
  ASSUME NEW s, NEW t, NEW M, NEW N, Named(s, M), Named(t, N), M \cap N = {}
  PROVE  ApartFrom(s, t)
BY DEF Named, ApartFrom, Apart

\* One label of their own tells the samples apart.
Labelled(s, label, a) ==
  \A i \in 1..Len(s) : /\ label \in DOMAIN s[i].labels /\ s[i].labels[label] = a
                       /\ s[i].name = "disk.used" => label = "device"

LEMMA LabelApart ==
  ASSUME NEW s, NEW t, NEW label, NEW a, NEW b, a # b, Labelled(s, label, a), Labelled(t, label, b)
  PROVE  ApartFrom(s, t)
<1>1. ASSUME NEW i \in 1..Len(s), NEW j \in 1..Len(t)
      PROVE  Apart(s[i], t[j]) /\ Apart(t[j], s[i])
  <2>1. /\ label \in DOMAIN s[i].labels /\ s[i].labels[label] = a
        /\ s[i].name = "disk.used" => label = "device"
    BY Zenon DEF Labelled
  <2>2. /\ label \in DOMAIN t[j].labels /\ t[j].labels[label] = b
        /\ t[j].name = "disk.used" => label = "device"
    BY Zenon DEF Labelled
  <2>3. QED
    BY <2>1, <2>2 DEF Apart
<1>2. QED
  BY <1>1 DEF ApartFrom

LEMMA NamedConcat ==
  ASSUME NEW S, NEW s \in Seq(S), NEW t \in Seq(S), NEW M, NEW N, Named(s, M), Named(t, N)
  PROVE  Named(s \o t, M \cup N)
<1>1. ASSUME NEW i \in 1..Len(s \o t) PROVE (s \o t)[i].name \in M \cup N
  <2>1. CASE i \in 1..Len(s)
    BY <2>1 DEF Named
  <2>2. CASE i \notin 1..Len(s)
    <3>1. i - Len(s) \in 1..Len(t) /\ (s \o t)[i] = t[i - Len(s)]
      BY <2>2
    <3>2. QED
      BY <3>1 DEF Named
  <2>3. QED
    BY <2>1, <2>2
<1>2. QED
  BY <1>1 DEF Named

LEMMA PlainSample ==
  \A n \in HostMetrics : Sample(n, NoLabels) \in Samples /\ Sample(n, NoLabels).name = n
BY DEF Samples, Sample

\* A sequence of samples all of whose names are different.
LEMMA PlainApart ==
  ASSUME NEW s, \A i, j \in 1..Len(s) : i # j => s[i].name # s[j].name
  PROVE  AllApart(s)
BY DEF AllApart, Apart

Orderly(s, names) == s \in Seq(Samples) /\ AllApart(s) /\ Named(s, names)

LEMMA OrderlyEmpty == \A names : Orderly(<<>>, names)
BY DEF Orderly, AllApart, Named

LEMMA OrderlyWhen ==
  ASSUME NEW s, NEW names, Orderly(s, names), NEW cond
  PROVE  Orderly(When(cond, s), names)
BY OrderlyEmpty DEF When

LEMMA OrderlyConcat ==
  ASSUME NEW s, NEW t, NEW M, NEW N, Orderly(s, M), Orderly(t, N), M \cap N = {}
  PROVE  Orderly(s \o t, M \cup N)
BY ApartConcat, NamedApart, NamedConcat DEF Orderly

\* mem, swap, uptime.
LEMMA PlainOrderly ==
  ASSUME NEW outage, NEW call, NEW names \in Seq(HostMetrics),
         \A i, j \in 1..Len(names) : i # j => names[i] # names[j]
  PROVE  Orderly(CollectPlain(outage, call, names).samples, {names[i] : i \in 1..Len(names)})
<1> DEFINE s == MapSeq(names, LAMBDA n : Sample(n, NoLabels))
<1>1. Len(s) = Len(names) /\ \A i \in 1..Len(names) : s[i] = Sample(names[i], NoLabels)
  BY DEF MapSeq
<1>2. s \in Seq(Samples)
  <2>1. \A i \in 1..Len(names) : Sample(names[i], NoLabels) \in Samples
    BY PlainSample
  <2>2. QED
    BY <2>1 DEF MapSeq
<1> HIDE DEF s
<1>3. ASSUME NEW i \in 1..Len(names) PROVE s[i].name = names[i]
  <2>1. s[i] = Sample(names[i], NoLabels)
    BY <1>1
  <2>2. QED
    BY <2>1 DEF Sample
<1>4. AllApart(s) /\ Named(s, {names[i] : i \in 1..Len(names)})
  BY <1>1, <1>3, PlainApart DEF Named
<1>5. QED
  <2>1. CollectPlain(outage, call, names).samples = When(Works(outage, call), s)
    BY DEF CollectPlain, Yields, s
  <2>2. QED
    BY <1>2, <1>4, <2>1, OrderlyWhen DEF Orderly

CoreNames == {Cores[i].metric : i \in 1..Len(Cores)}
LoadNames == {"cpu.load_1m", "cpu.load_5m", "cpu.load_15m"}

UsageSamples == <<Sample("cpu.usage", NoLabels)>>
CoreSamples == MapSeq(Cores, LAMBDA c : Sample(c.metric, [core |-> c.core]))
LoadSamples == << Sample("cpu.load_1m", NoLabels), Sample("cpu.load_5m", NoLabels),
                  Sample("cpu.load_15m", NoLabels) >>

LEMMA CPUBlocks ==
  /\ Orderly(UsageSamples, {"cpu.usage"})
  /\ Orderly(CoreSamples, CoreNames)
  /\ Orderly(LoadSamples, LoadNames)
<1>1. Orderly(UsageSamples, {"cpu.usage"})
  <2>1. Sample("cpu.usage", NoLabels) \in Samples
    BY PlainSample DEF HostMetrics
  <2>2. QED
    BY <2>1 DEF UsageSamples, Orderly, AllApart, Named, Sample
<1>2. Orderly(LoadSamples, LoadNames)
  <2>1. /\ Sample("cpu.load_1m", NoLabels) \in Samples
        /\ Sample("cpu.load_5m", NoLabels) \in Samples
        /\ Sample("cpu.load_15m", NoLabels) \in Samples
    BY PlainSample DEF HostMetrics
  <2>2. LoadSamples \in Seq(Samples) /\ Len(LoadSamples) = 3
    BY <2>1 DEF LoadSamples
  <2>3. /\ LoadSamples[1].name = "cpu.load_1m" /\ LoadSamples[2].name = "cpu.load_5m"
        /\ LoadSamples[3].name = "cpu.load_15m"
    BY DEF LoadSamples, Sample
  <2>4. \A i \in 1..3 : i = 1 \/ i = 2 \/ i = 3
    OBVIOUS
  <2>5. Named(LoadSamples, LoadNames)
    BY <2>2, <2>3, <2>4 DEF Named, LoadNames
  <2>6. \A i, j \in 1..Len(LoadSamples) : i # j => LoadSamples[i].name # LoadSamples[j].name
    BY <2>2, <2>3, <2>4
  <2>7. QED
    BY <2>2, <2>5, <2>6, PlainApart DEF Orderly
<1>3. Orderly(CoreSamples, CoreNames)
  <2>1. CoreSamples = [i \in 1..Len(Cores) |-> CoreSample(i)]
    BY DEF CoreSamples, MapSeq, CoreSample
  <2>2. \A i \in 1..Len(Cores) : CoreSample(i) \in Samples /\ CoreSample(i).name = Cores[i].metric
    BY DEF Samples, CoreSample, Sample
  <2>3. /\ CoreSamples \in Seq(Samples) /\ Len(CoreSamples) = Len(Cores)
        /\ \A i \in 1..Len(Cores) : CoreSamples[i].name = Cores[i].metric
    BY <2>1, <2>2, Lengths
  <2>4. Named(CoreSamples, CoreNames) /\ AllApart(CoreSamples)
    BY <2>3, PlainApart, HostAssumption DEF Named, CoreNames
  <2>5. QED
    BY <2>3, <2>4 DEF Orderly
<1>4. QED
  BY <1>1, <1>2, <1>3

CPUNames == ({"cpu.usage"} \cup CoreNames) \cup LoadNames

LEMMA CPUOrderly ==
  ASSUME NEW outage
  PROVE  Orderly(CollectCPU(outage).samples, CPUNames)
<1>1. CollectCPU(outage).samples =
        IF ~Works(outage, "cpu.total") THEN <<>>
        ELSE (UsageSamples \o When(Works(outage, "cpu.cores"), CoreSamples))
               \o When(Works(outage, "load"), LoadSamples)
  BY DEF CollectCPU, Yields, UsageSamples, CoreSamples, LoadSamples
<1>2. {"cpu.usage"} \cap CoreNames = {} /\ ({"cpu.usage"} \cup CoreNames) \cap LoadNames = {}
  BY HostAssumption DEF CoreNames, LoadNames, HostMetrics
<1>3. Orderly(UsageSamples \o When(Works(outage, "cpu.cores"), CoreSamples),
              {"cpu.usage"} \cup CoreNames)
  BY <1>2, CPUBlocks, OrderlyWhen, OrderlyConcat
<1>4. Orderly((UsageSamples \o When(Works(outage, "cpu.cores"), CoreSamples))
               \o When(Works(outage, "load"), LoadSamples), CPUNames)
  BY <1>2, <1>3, CPUBlocks, OrderlyWhen, OrderlyConcat DEF CPUNames
<1>5. QED
  BY <1>1, <1>4, OrderlyEmpty

-----------------------------------------------------------------------------
(* disk *)

MountPair(i) == << MountSample("disk.used", i), MountSample("disk.total", i) >>
Readable(i, outage) == CountsMount(i) /\ Mounts[i].mount \notin outage.mounts
UsageOf(outage) ==
  FlattenSeq([i \in 1..Len(Mounts) |-> When(Readable(i, outage), MountPair(i))])

DevicePair(d) == << DeviceSample("disk.read_bytes", d), DeviceSample("disk.write_bytes", d) >>
DevicePairs == FlattenSeq([i \in 1..Len(Devices) |-> DevicePair(Devices[i])])

LEMMA DiskBlocks ==
  ASSUME NEW outage
  PROVE  CollectDisk(outage).samples =
           When(Works(outage, "partitions"), UsageOf(outage))
             \o When(Works(outage, "disk.io"), DevicePairs)
BY DEF CollectDisk, Yields, UsageOf, MountPair, Readable, DevicePairs, DevicePair, MapSeq,
  MountSample, DeviceSample

\* A pair of samples that differ in the name.
LEMMA PairOrderly ==
  ASSUME NEW s, NEW t, s \in Samples, t \in Samples, s.name # t.name
  PROVE  Orderly(<<s, t>>, {s.name, t.name})
<1>1. <<s, t>> \in Seq(Samples) /\ Len(<<s, t>>) = 2 /\ <<s, t>>[1] = s /\ <<s, t>>[2] = t
  OBVIOUS
<1>2. \A i \in 1..2 : i = 1 \/ i = 2
  OBVIOUS
<1>3. Named(<<s, t>>, {s.name, t.name}) /\ AllApart(<<s, t>>)
  BY <1>1, <1>2, PlainApart DEF Named
<1>4. QED
  BY <1>1, <1>3 DEF Orderly

\* All members orderly, and apart from each other.
LEMMA OrderlyFlatten ==
  ASSUME NEW ss, NEW N \in Nat, DOMAIN ss = 1..N, ss = [i \in 1..N |-> ss[i]], NEW names,
         \A i \in 1..N : Orderly(ss[i], names),
         \A i, j \in 1..N : i # j => ApartFrom(ss[i], ss[j])
  PROVE  Orderly(FlattenSeq(ss), names)
<1>1. ss \in Seq(Seq(Samples)) /\ Len(ss) = N
  <2>1. \A i \in 1..N : ss[i] \in Seq(Samples)
    BY DEF Orderly
  <2>2. QED
    BY <2>1
<1>2. FlattenSeq(ss) \in Seq(Samples)
  BY <1>1, FlattenType
<1>3. AllApart(FlattenSeq(ss))
  BY <1>1, FlattenApart DEF Orderly
<1>4. Named(FlattenSeq(ss), names)
  <2>1. ASSUME NEW p \in 1..Len(FlattenSeq(ss)) PROVE FlattenSeq(ss)[p].name \in names
    <3>1. PICK i \in 1..Len(ss) : \E k \in 1..Len(ss[i]) : FlattenSeq(ss)[p] = ss[i][k]
      BY <1>1, FlattenMembers
    <3>2. Named(ss[i], names)
      BY <1>1, <3>1 DEF Orderly
    <3>3. QED
      BY <3>1, <3>2 DEF Named
  <2>2. QED
    BY <2>1 DEF Named
<1>5. QED
  BY <1>2, <1>3, <1>4 DEF Orderly

UsageNames == {"disk.used", "disk.total"}
IONames == {"disk.read_bytes", "disk.write_bytes"}

\* Two counted mounts are of two devices.
LEMMA CountedMountsDiffer ==
  ASSUME NEW i \in 1..Len(Mounts), NEW j \in 1..Len(Mounts), i # j, CountsMount(i), CountsMount(j)
  PROVE  Mounts[i].device # Mounts[j].device
BY Lengths DEF CountsMount

LEMMA UsageOrderly ==
  ASSUME NEW outage
  PROVE  Orderly(UsageOf(outage), UsageNames)
<1> DEFINE ss == [i \in 1..Len(Mounts) |-> When(Readable(i, outage), MountPair(i))]
<1>1. ASSUME NEW i \in 1..Len(Mounts)
      PROVE  /\ Orderly(MountPair(i), UsageNames)
             /\ Len(MountPair(i)) = 2
             /\ \A k \in 1..2 : /\ DOMAIN MountPair(i)[k].labels = {"mount", "device"}
                                /\ MountPair(i)[k].labels["device"] = Mounts[i].device
  <2>1. \A n \in HostMetrics : /\ MountSample(n, i) \in Samples
                               /\ MountSample(n, i).name = n
                               /\ DOMAIN MountSample(n, i).labels = {"mount", "device"}
                               /\ MountSample(n, i).labels["device"] = Mounts[i].device
    BY DEF Samples, MountSample, Sample
  <2>2. "disk.used" \in HostMetrics /\ "disk.total" \in HostMetrics
    BY DEF HostMetrics
  <2>3. Orderly(MountPair(i), UsageNames)
    BY <2>1, <2>2, PairOrderly DEF MountPair, UsageNames
  <2>4. /\ Len(MountPair(i)) = 2 /\ MountPair(i)[1] = MountSample("disk.used", i)
        /\ MountPair(i)[2] = MountSample("disk.total", i)
    BY DEF MountPair
  <2>5. \A k \in 1..2 : k = 1 \/ k = 2
    OBVIOUS
  <2>6. QED
    BY <2>1, <2>2, <2>3, <2>4, <2>5
<1>2. \A i \in 1..Len(Mounts) : ss[i] = When(Readable(i, outage), MountPair(i))
  OBVIOUS
<1>3. DOMAIN ss = 1..Len(Mounts) /\ ss = [i \in 1..Len(Mounts) |-> ss[i]]
  OBVIOUS
<1> HIDE DEF ss
<1>4. \A i \in 1..Len(Mounts) : Orderly(ss[i], UsageNames)
  BY <1>1, <1>2, OrderlyWhen
<1>5. ASSUME NEW i \in 1..Len(Mounts), NEW j \in 1..Len(Mounts), i # j
      PROVE  ApartFrom(ss[i], ss[j])
  <2>1. CASE Readable(i, outage) /\ Readable(j, outage)
    <3>1. Mounts[i].device # Mounts[j].device
      BY <1>5, <2>1, CountedMountsDiffer DEF Readable
    <3>2. ss[i] = MountPair(i) /\ ss[j] = MountPair(j)
      BY <1>2, <2>1 DEF When
    <3>3. "device" \in {"mount", "device"}
      OBVIOUS
    <3>4. QED
      BY <1>1, <3>1, <3>2, <3>3 DEF ApartFrom, Apart
  <2>2. CASE ~(Readable(i, outage) /\ Readable(j, outage))
    BY <1>2, <2>2 DEF When, ApartFrom
  <2>3. QED
    BY <2>1, <2>2
<1>6. QED
  BY <1>3, <1>4, <1>5, OrderlyFlatten, Lengths DEF UsageOf, ss

LEMMA PairsOrderly ==
  Orderly(DevicePairs, IONames)
<1> DEFINE ss == [i \in 1..Len(Devices) |-> DevicePair(Devices[i])]
<1>1. ASSUME NEW i \in 1..Len(Devices)
      PROVE  /\ Orderly(DevicePair(Devices[i]), IONames)
             /\ Len(DevicePair(Devices[i])) = 2
             /\ \A k \in 1..2 : /\ DOMAIN DevicePair(Devices[i])[k].labels = {"device"}
                                /\ DevicePair(Devices[i])[k].labels["device"] = Devices[i]
                                /\ DevicePair(Devices[i])[k].name \in IONames
  <2>1. \A n \in HostMetrics : /\ DeviceSample(n, Devices[i]) \in Samples
                               /\ DeviceSample(n, Devices[i]).name = n
                               /\ DOMAIN DeviceSample(n, Devices[i]).labels = {"device"}
                               /\ DeviceSample(n, Devices[i]).labels["device"] = Devices[i]
    BY DEF Samples, DeviceSample, Sample
  <2>2. "disk.read_bytes" \in HostMetrics /\ "disk.write_bytes" \in HostMetrics
    BY DEF HostMetrics
  <2>3. Orderly(DevicePair(Devices[i]), IONames)
    BY <2>1, <2>2, PairOrderly DEF DevicePair, IONames
  <2>4. /\ Len(DevicePair(Devices[i])) = 2
        /\ DevicePair(Devices[i])[1] = DeviceSample("disk.read_bytes", Devices[i])
        /\ DevicePair(Devices[i])[2] = DeviceSample("disk.write_bytes", Devices[i])
    BY DEF DevicePair
  <2>5. \A k \in 1..2 : k = 1 \/ k = 2
    OBVIOUS
  <2>6. QED
    BY <2>1, <2>2, <2>3, <2>4, <2>5 DEF IONames
<1>2. \A i \in 1..Len(Devices) : ss[i] = DevicePair(Devices[i])
  OBVIOUS
<1>3. DOMAIN ss = 1..Len(Devices) /\ ss = [i \in 1..Len(Devices) |-> ss[i]]
  OBVIOUS
<1> HIDE DEF ss
<1>4. ASSUME NEW i \in 1..Len(Devices), NEW j \in 1..Len(Devices), i # j
      PROVE  ApartFrom(ss[i], ss[j])
  <2>1. Devices[i] # Devices[j]
    BY <1>4, HostAssumption
  <2>2. "disk.used" \notin IONames
    BY DEF IONames
  <2>3. ASSUME NEW l \in 1..Len(Devices), NEW k \in 1..Len(ss[l])
        PROVE  /\ "device" \in DOMAIN ss[l][k].labels /\ ss[l][k].labels["device"] = Devices[l]
               /\ ss[l][k].name = "disk.used" => "device" = "device"
    BY <1>1, <1>2
  <2>4. Labelled(ss[i], "device", Devices[i]) /\ Labelled(ss[j], "device", Devices[j])
    BY <2>3 DEF Labelled
  <2>5. QED
    BY <2>1, <2>4, LabelApart
<1>5. QED
  BY <1>1, <1>2, <1>3, <1>4, OrderlyFlatten, Lengths DEF DevicePairs, ss

DiskNames == UsageNames \cup IONames

LEMMA DiskOrderly ==
  ASSUME NEW outage
  PROVE  Orderly(CollectDisk(outage).samples, DiskNames)
<1>1. UsageNames \cap IONames = {}
  BY DEF UsageNames, IONames
<1>2. /\ Orderly(When(Works(outage, "partitions"), UsageOf(outage)), UsageNames)
      /\ Orderly(When(Works(outage, "disk.io"), DevicePairs), IONames)
  BY UsageOrderly, PairsOrderly, OrderlyWhen
<1>3. Orderly(When(Works(outage, "partitions"), UsageOf(outage))
                \o When(Works(outage, "disk.io"), DevicePairs), UsageNames \cup IONames)
  BY <1>1, <1>2, OrderlyConcat
<1>4. QED
  BY <1>3, DiskBlocks DEF DiskNames

-----------------------------------------------------------------------------
(* net *)

NetNames == {"net.rx_bytes", "net.tx_bytes", "net.rx_errors", "net.tx_errors"}
IfaceSamples(i) == << IfaceSample("net.rx_bytes", i), IfaceSample("net.tx_bytes", i),
                      IfaceSample("net.rx_errors", i), IfaceSample("net.tx_errors", i) >>
NetSamples == FlattenSeq([i \in 1..Len(Ifaces) |-> When(~Ifaces[i].virtual, IfaceSamples(i))])

LEMMA NetBlock ==
  ASSUME NEW outage
  PROVE  CollectNet(outage).samples = When(Works(outage, "net.io"), NetSamples)
<1>1. ASSUME NEW n
      PROVE  MapSeq(<<"net.rx_bytes", "net.tx_bytes", "net.rx_errors", "net.tx_errors">>,
                    LAMBDA m : Sample(m, [iface |-> n.iface]))
             = << Sample("net.rx_bytes", [iface |-> n.iface]), Sample("net.tx_bytes", [iface |-> n.iface]),
                  Sample("net.rx_errors", [iface |-> n.iface]), Sample("net.tx_errors", [iface |-> n.iface]) >>
  BY DEF MapSeq
<1>2. QED
  BY <1>1 DEF CollectNet, Yields, NetSamples, IfaceSamples, IfaceSample, MapSeq

LEMMA NetOrderly == Orderly(NetSamples, NetNames)
<1> DEFINE ss == [i \in 1..Len(Ifaces) |-> When(~Ifaces[i].virtual, IfaceSamples(i))]
<1>1. ASSUME NEW i \in 1..Len(Ifaces)
      PROVE  /\ Orderly(IfaceSamples(i), NetNames)
             /\ Len(IfaceSamples(i)) = 4
             /\ \A k \in 1..4 : /\ DOMAIN IfaceSamples(i)[k].labels = {"iface"}
                                /\ IfaceSamples(i)[k].labels["iface"] = Ifaces[i].iface
                                /\ IfaceSamples(i)[k].name \in NetNames
  <2>1. \A n \in HostMetrics : /\ IfaceSample(n, i) \in Samples
                               /\ IfaceSample(n, i).name = n
                               /\ DOMAIN IfaceSample(n, i).labels = {"iface"}
                               /\ IfaceSample(n, i).labels["iface"] = Ifaces[i].iface
    BY DEF Samples, IfaceSample, Sample
  <2>2. NetNames \subseteq HostMetrics
    BY DEF HostMetrics, NetNames
  <2>3. /\ Len(IfaceSamples(i)) = 4 
        /\ IfaceSamples(i)[1] = IfaceSample("net.rx_bytes", i)
        /\ IfaceSamples(i)[2] = IfaceSample("net.tx_bytes", i)
        /\ IfaceSamples(i)[3] = IfaceSample("net.rx_errors", i)
        /\ IfaceSamples(i)[4] = IfaceSample("net.tx_errors", i)
    BY DEF IfaceSamples
  <2>4. \A k \in 1..4 : k = 1 \/ k = 2 \/ k = 3 \/ k = 4
    OBVIOUS
  <2>5. IfaceSamples(i) \in Seq(Samples)
    BY <2>1, <2>2 DEF IfaceSamples, NetNames
  <2>6. /\ IfaceSamples(i)[1].name = "net.rx_bytes" /\ IfaceSamples(i)[2].name = "net.tx_bytes"
        /\ IfaceSamples(i)[3].name = "net.rx_errors" /\ IfaceSamples(i)[4].name = "net.tx_errors"
    BY <2>1, <2>2, <2>3 DEF NetNames
  <2>7. Named(IfaceSamples(i), NetNames) /\ AllApart(IfaceSamples(i))
    BY <2>3, <2>4, <2>6, PlainApart DEF Named, NetNames
  <2>8. \A k \in 1..4 : /\ DOMAIN IfaceSamples(i)[k].labels = {"iface"}
                        /\ IfaceSamples(i)[k].labels["iface"] = Ifaces[i].iface
    BY <2>1, <2>2, <2>3, <2>4 DEF NetNames
  <2>9. QED
    BY <2>3, <2>5, <2>7, <2>8 DEF Orderly, Named
<1>2. \A i \in 1..Len(Ifaces) : ss[i] = When(~Ifaces[i].virtual, IfaceSamples(i))
  OBVIOUS
<1>3. DOMAIN ss = 1..Len(Ifaces) /\ ss = [i \in 1..Len(Ifaces) |-> ss[i]]
  OBVIOUS
<1> HIDE DEF ss
<1>4. \A i \in 1..Len(Ifaces) : Orderly(ss[i], NetNames)
  BY <1>1, <1>2, OrderlyWhen
<1>5. ASSUME NEW i \in 1..Len(Ifaces), NEW j \in 1..Len(Ifaces), i # j
      PROVE  ApartFrom(ss[i], ss[j])
  <2>1. Ifaces[i].iface # Ifaces[j].iface
    BY <1>5, HostAssumption
  <2>2. "disk.used" \notin NetNames
    BY DEF NetNames
  <2>3. ApartFrom(IfaceSamples(i), IfaceSamples(j))
    <3>1. ASSUME NEW l \in 1..Len(Ifaces), NEW k \in 1..Len(IfaceSamples(l))
          PROVE  /\ "iface" \in DOMAIN IfaceSamples(l)[k].labels
                 /\ IfaceSamples(l)[k].labels["iface"] = Ifaces[l].iface
                 /\ IfaceSamples(l)[k].name = "disk.used" => "iface" = "device"
      BY <1>1, <2>2
    <3>2. /\ Labelled(IfaceSamples(i), "iface", Ifaces[i].iface)
          /\ Labelled(IfaceSamples(j), "iface", Ifaces[j].iface)
      BY <3>1 DEF Labelled
    <3>3. QED
      BY <2>1, <3>2, LabelApart
  <2>4. /\ ss[i] = IfaceSamples(i) \/ Len(ss[i]) = 0
        /\ ss[j] = IfaceSamples(j) \/ Len(ss[j]) = 0
    BY <1>2 DEF When
  <2>5. QED
    BY <2>3, <2>4 DEF ApartFrom
<1>6. QED
  BY <1>3, <1>4, <1>5, OrderlyFlatten, Lengths DEF NetSamples, ss

-----------------------------------------------------------------------------
(* The batch *)

MemNames == {"mem.used", "mem.total", "mem.available", "mem.cached"}

LEMMA PlainCollectorsOrderly ==
  ASSUME NEW outage
  PROVE  /\ Orderly(CollectMem(outage).samples, MemNames)
         /\ Orderly(CollectSwap(outage).samples, {"swap.used"})
         /\ Orderly(CollectUptime(outage).samples, {"uptime.seconds"})
<1>1. Orderly(CollectMem(outage).samples, MemNames)
  <2> DEFINE names == <<"mem.used", "mem.total", "mem.available", "mem.cached">>
  <2>1. names \in Seq(HostMetrics)
    BY DEF HostMetrics
  <2>2. \A i, j \in 1..Len(names) : i # j => names[i] # names[j]
    OBVIOUS
  <2>3. {names[i] : i \in 1..Len(names)} = MemNames
    <3>1. /\ Len(names) = 4 /\ names[1] = "mem.used" /\ names[2] = "mem.total"
          /\ names[3] = "mem.available" /\ names[4] = "mem.cached"
      OBVIOUS
    <3> HIDE DEF names
    <3>2. \A i \in 1..4 : i = 1 \/ i = 2 \/ i = 3 \/ i = 4
      OBVIOUS
    <3>3. QED
      BY <3>1, <3>2 DEF MemNames
  <2>4. CollectMem(outage) = CollectPlain(outage, "mem", names)
    BY DEF CollectMem
  <2> HIDE DEF names
  <2>5. QED
    BY <2>1, <2>2, <2>3, <2>4, PlainOrderly
<1>2. ASSUME NEW call, NEW n \in HostMetrics
      PROVE  Orderly(CollectPlain(outage, call, <<n>>).samples, {n})
  <2> DEFINE names == <<n>>
  <2>1. names \in Seq(HostMetrics) /\ \A i, j \in 1..Len(names) : i # j => names[i] # names[j]
    OBVIOUS
  <2>2. {names[i] : i \in 1..Len(names)} = {n}
    OBVIOUS
  <2> HIDE DEF names
  <2>3. Orderly(CollectPlain(outage, call, names).samples, {n})
    BY <2>1, <2>2, PlainOrderly
  <2>4. QED
    BY <2>3 DEF names
<1>3. QED
  BY <1>1, <1>2 DEF CollectSwap, CollectUptime, HostMetrics

CollectorNames(i) ==
  IF i = 1 THEN CPUNames ELSE IF i = 2 THEN MemNames ELSE IF i = 3 THEN {"swap.used"}
  ELSE IF i = 4 THEN DiskNames ELSE IF i = 5 THEN NetNames ELSE {"uptime.seconds"}

LEMMA CollectorNamesApart ==
  ASSUME NEW i \in 1..6, NEW j \in 1..6, i # j
  PROVE  CollectorNames(i) \cap CollectorNames(j) = {}
<1>1. CoreNames \cap HostMetrics = {}
  BY HostAssumption DEF CoreNames
<1>2. \A n \in CollectorNames(i) \cap CollectorNames(j) : n \in HostMetrics
  BY DEF CollectorNames, CPUNames, LoadNames, MemNames, DiskNames, UsageNames, IONames, NetNames, HostMetrics
<1>3. ASSUME NEW n \in HostMetrics, n \in CollectorNames(i), n \in CollectorNames(j) PROVE FALSE
  BY <1>1, <1>3 DEF CollectorNames, CPUNames, LoadNames, MemNames, DiskNames, UsageNames, IONames,
    NetNames, HostMetrics
<1>4. QED
  BY <1>2, <1>3

SamplesOf(outage) == [i \in 1..6 |-> CollectAll(outage)[i].samples]
MergedNames == UNION {CollectorNames(i) : i \in 1..6}

LEMMA MergeFlattens ==
  \A outage : MergeSamples(CollectAll(outage)) = FlattenSeq(SamplesOf(outage))
BY DEF MergeSamples, CollectAll, SamplesOf, MapSeq

LEMMA MergedOrderly ==
  ASSUME NEW outage
  PROVE  Orderly(MergeSamples(CollectAll(outage)), MergedNames)
<1> DEFINE ss == SamplesOf(outage)
<1>1. /\ ss[1] = CollectCPU(outage).samples /\ ss[2] = CollectMem(outage).samples
      /\ ss[3] = CollectSwap(outage).samples /\ ss[4] = CollectDisk(outage).samples
      /\ ss[5] = CollectNet(outage).samples /\ ss[6] = CollectUptime(outage).samples
  BY DEF SamplesOf, CollectAll
<1>2. DOMAIN ss = 1..6 /\ ss = [i \in 1..6 |-> ss[i]]
  BY DEF SamplesOf
<1> HIDE DEF ss
<1>3. Orderly(CollectNet(outage).samples, NetNames)
  BY NetBlock, NetOrderly, OrderlyWhen
<1>4. \A i \in 1..6 : Orderly(ss[i], CollectorNames(i))
  <2>1. \A i \in 1..6 : i = 1 \/ i = 2 \/ i = 3 \/ i = 4 \/ i = 5 \/ i = 6
    OBVIOUS
  <2>2. QED
    BY <1>1, <1>3, <2>1, CPUOrderly, DiskOrderly, PlainCollectorsOrderly DEF CollectorNames
<1>5. \A i \in 1..6 : Orderly(ss[i], MergedNames)
  BY <1>4 DEF Orderly, Named, MergedNames
<1>6. \A i, j \in 1..6 : i # j => ApartFrom(ss[i], ss[j])
  BY <1>4, CollectorNamesApart, NamedApart DEF Orderly
<1>7. Orderly(FlattenSeq(ss), MergedNames)
  BY <1>2, <1>5, <1>6, OrderlyFlatten
<1>8. QED
  BY <1>7, MergeFlattens DEF ss

\* The allowlist as a set of samples.
Allowed(allowed) == {x \in Samples : x.name \in allowed}

LEMMA AllowlistKeeps ==
  ASSUME NEW s \in Seq(Samples), NEW allowed
  PROVE  ApplyAllowlist(s, allowed) = IF allowed = {} THEN s ELSE KeepIn(s, Allowed(allowed))
<1>1. \A i \in 1..Len(s) : s[i] \in Allowed(allowed) <=> s[i].name \in allowed
  BY DEF Allowed
<1>2. [i \in 1..Len(s) |-> IF s[i].name \in allowed THEN <<s[i]>> ELSE <<>>]
        = [i \in 1..Len(s) |-> Pick(s[i], Allowed(allowed))]
  BY <1>1 DEF Pick
<1>3. QED
  BY <1>2 DEF ApplyAllowlist, Keep, MapSeq, When, KeepIn

\* Labels merged in keep apart what was apart, whatever they are.
LEMMA ScrapeApart ==
  ASSUME NEW outage, NEW labels, NEW allowed,
         NEW i \in 1..Len(Scrape(outage, labels, allowed).metrics),
         NEW j \in 1..Len(Scrape(outage, labels, allowed).metrics), i # j
  PROVE  LET s == Scrape(outage, labels, allowed).metrics[i]
             t == Scrape(outage, labels, allowed).metrics[j]
         IN  s # t /\ (s.name = "disk.used" /\ t.name = "disk.used" => s.labels.device # t.labels.device)
<1> DEFINE u == ApplyAllowlist(MergeSamples(CollectAll(outage)), allowed)
           m == Scrape(outage, labels, allowed).metrics
<1>1. u \in Seq(Samples) /\ AllApart(u)
  BY MergedOrderly, AllowlistKeeps, KeepType, KeepApart DEF Orderly
<1>2. m = [k \in 1..Len(u) |-> Sample(u[k].name, MergeLabels(u[k].labels, labels))]
  BY DEF Scrape, ApplyStaticLabels, MapSeq
<1> HIDE DEF u, m
<1>3. Len(m) = Len(u) /\ i \in 1..Len(u) /\ j \in 1..Len(u)
  BY <1>1, <1>2 DEF m
<1>4. ASSUME NEW k \in 1..Len(u)
      PROVE  m[k].name = u[k].name /\ \A l \in DOMAIN u[k].labels : m[k].labels[l] = u[k].labels[l]
  BY <1>2 DEF Sample, MergeLabels
<1>5. Apart(u[i], u[j])
  BY <1>1, <1>3 DEF AllApart
<1>6. m[i] # m[j] /\ (m[i].name = "disk.used" /\ m[j].name = "disk.used" => m[i].labels.device # m[j].labels.device)
  <2>1. CASE u[i].name # u[j].name
    BY <1>3, <1>4, <2>1
  <2>2. CASE u[i].name = u[j].name
    <3>1. PICK l \in DOMAIN u[i].labels \cap DOMAIN u[j].labels :
            u[i].labels[l] # u[j].labels[l] /\ (u[i].name = "disk.used" => l = "device")
      BY <1>5, <2>2 DEF Apart
    <3>2. m[i].labels[l] # m[j].labels[l] /\ (m[i].name = "disk.used" => l = "device")
      BY <1>3, <1>4, <3>1
    <3>3. QED
      BY <3>2
  <2>3. QED
    BY <2>1, <2>2
<1>7. QED
  BY <1>6 DEF m

-----------------------------------------------------------------------------
(* What an outage leaves *)

AllFine == [calls |-> {}, mounts |-> {}]
Surviving(outage) == {x \in Samples : Survives(x, outage)}

LEMMA KeepWhen ==
  ASSUME NEW s \in Seq(Samples), NEW G, NEW cond, \A i \in 1..Len(s) : s[i] \in G <=> cond
  PROVE  KeepIn(s, G) = When(cond, s)
<1>1. CASE cond
  BY <1>1, KeepAll DEF When
<1>2. CASE ~cond
  BY <1>2, KeepNone DEF When
<1>3. QED
  BY <1>1, <1>2

LEMMA NeedsOfPlain ==
  /\ Needs("cpu.usage", NoLabels) = {"cpu.total"}
  /\ \A n \in LoadNames : Needs(n, NoLabels) = {"cpu.total", "load"}
  /\ \A n \in MemNames : Needs(n, NoLabels) = {"mem"}
  /\ Needs("swap.used", NoLabels) = {"swap"}
  /\ Needs("uptime.seconds", NoLabels) = {"uptime"}
<1>1. DOMAIN NoLabels = {}
  BY DEF NoLabels
<1>2. QED
  BY <1>1 DEF Needs, LoadNames, MemNames

LEMMA NeedsOfOthers ==
  /\ \A i \in 1..Len(Cores) : Needs(Cores[i].metric, CoreSample(i).labels) = {"cpu.total", "cpu.cores"}
  /\ \A n \in UsageNames : \A i \in 1..Len(Mounts) : Needs(n, MountSample(n, i).labels) = {"partitions"}
  /\ \A n \in IONames : \A d : Needs(n, DeviceSample(n, d).labels) = {"disk.io"}
  /\ \A n \in NetNames : \A i \in 1..Len(Ifaces) : Needs(n, IfaceSample(n, i).labels) = {"net.io"}
<1>1. ASSUME NEW i \in 1..Len(Cores)
      PROVE  Needs(Cores[i].metric, CoreSample(i).labels) = {"cpu.total", "cpu.cores"}
  <2>1. DOMAIN CoreSample(i).labels = {"core"} /\ Cores[i].metric \notin HostMetrics
    BY HostAssumption DEF CoreSample, Sample
  <2>2. QED
    BY <2>1 DEF Needs, HostMetrics
<1>2. ASSUME NEW n \in UsageNames, NEW i \in 1..Len(Mounts)
      PROVE  Needs(n, MountSample(n, i).labels) = {"partitions"}
  <2>1. DOMAIN MountSample(n, i).labels = {"mount", "device"}
    BY DEF MountSample, Sample
  <2>2. QED
    BY <2>1 DEF Needs, UsageNames
<1>3. ASSUME NEW n \in IONames, NEW d
      PROVE  Needs(n, DeviceSample(n, d).labels) = {"disk.io"}
  <2>1. DOMAIN DeviceSample(n, d).labels = {"device"}
    BY DEF DeviceSample, Sample
  <2>2. QED
    BY <2>1 DEF Needs, IONames
<1>4. ASSUME NEW n \in NetNames, NEW i \in 1..Len(Ifaces)
      PROVE  Needs(n, IfaceSample(n, i).labels) = {"net.io"}
  <2>1. DOMAIN IfaceSample(n, i).labels = {"iface"}
    BY DEF IfaceSample, Sample
  <2>2. QED
    BY <2>1 DEF Needs, NetNames
<1>5. QED
  BY <1>1, <1>2, <1>3, <1>4

\* A sample without labels survives when its calls do.
LEMMA PlainSurvives ==
  ASSUME NEW outage, NEW n \in HostMetrics
  PROVE  Sample(n, NoLabels) \in Surviving(outage) <=> Needs(n, NoLabels) \cap outage.calls = {}
<1>1. Sample(n, NoLabels) \in Samples /\ Sample(n, NoLabels).name = n /\ Sample(n, NoLabels).labels = NoLabels
  BY PlainSample DEF Sample
<1>2. "mount" \notin DOMAIN NoLabels
  BY DEF NoLabels
<1>3. QED
  BY <1>1, <1>2 DEF Surviving, Survives

LEMMA PlainLocal ==
  ASSUME NEW outage, NEW call, NEW names \in Seq(HostMetrics),
         \A i \in 1..Len(names) : Needs(names[i], NoLabels) = {call}
  PROVE  KeepIn(CollectPlain(AllFine, call, names).samples, Surviving(outage))
           = CollectPlain(outage, call, names).samples
<1> DEFINE s == MapSeq(names, LAMBDA n : Sample(n, NoLabels))
<1>1. /\ CollectPlain(AllFine, call, names).samples = s
      /\ CollectPlain(outage, call, names).samples = When(Works(outage, call), s)
  BY DEF CollectPlain, Yields, Works, AllFine, When
<1>2. Len(s) = Len(names) /\ \A i \in 1..Len(names) : s[i] = Sample(names[i], NoLabels)
  BY DEF MapSeq
<1>3. s \in Seq(Samples)
  <2>1. \A i \in 1..Len(names) : Sample(names[i], NoLabels) \in Samples
    BY PlainSample
  <2>2. QED
    BY <2>1 DEF MapSeq
<1> HIDE DEF s
<1>4. ASSUME NEW i \in 1..Len(s) PROVE s[i] \in Surviving(outage) <=> Works(outage, call)
  <2>1. i \in 1..Len(names) /\ names[i] \in HostMetrics /\ s[i] = Sample(names[i], NoLabels)
    BY <1>2
  <2>2. s[i] \in Surviving(outage) <=> {call} \cap outage.calls = {}
    BY <2>1, PlainSurvives
  <2>3. QED
    BY <2>2 DEF Works
<1>5. QED
  BY <1>1, <1>3, <1>4, KeepWhen

\* Three sequences in a row, selected from.
InRow(s, t, u) == (s \o t) \o u

LEMMA KeepInRow ==
  \A s, t, u \in Seq(Samples) : \A G :
    KeepIn(InRow(s, t, u), G) = InRow(KeepIn(s, G), KeepIn(t, G), KeepIn(u, G))
<1> TAKE s, t, u \in Seq(Samples)
<1> TAKE G
<1>1. KeepIn(s \o t, G) = KeepIn(s, G) \o KeepIn(t, G)
  BY KeepConcat
<1>2. ASSUME NEW v \in Seq(Samples) PROVE KeepIn(v \o u, G) = KeepIn(v, G) \o KeepIn(u, G)
  BY KeepConcat
<1>3. s \o t \in Seq(Samples)
  OBVIOUS
<1>4. KeepIn((s \o t) \o u, G) = KeepIn(s \o t, G) \o KeepIn(u, G)
  BY <1>2, <1>3, Zenon
<1>5. QED
  BY <1>1, <1>4, Zenon DEF InRow

LEMMA CPULocal ==
  ASSUME NEW outage
  PROVE  KeepIn(CollectCPU(AllFine).samples, Surviving(outage)) = CollectCPU(outage).samples
<1> DEFINE G == Surviving(outage)
           total == Works(outage, "cpu.total")
           cores == Works(outage, "cpu.cores")
           load == Works(outage, "load")
<1>1. CollectCPU(AllFine).samples = InRow(UsageSamples, CoreSamples, LoadSamples)
  BY DEF CollectCPU, Yields, UsageSamples, CoreSamples, LoadSamples, InRow, Works, AllFine, When
<1>2. CollectCPU(outage).samples =
        IF ~total THEN <<>>
        ELSE InRow(UsageSamples, When(cores, CoreSamples), When(load, LoadSamples))
  BY DEF CollectCPU, Yields, UsageSamples, CoreSamples, LoadSamples, InRow
<1>3. UsageSamples \in Seq(Samples) /\ CoreSamples \in Seq(Samples) /\ LoadSamples \in Seq(Samples)
  BY CPUBlocks DEF Orderly
<1>4. KeepIn(UsageSamples, G) = When(total, UsageSamples)
  <2>1. Len(UsageSamples) = 1 /\ UsageSamples[1] = Sample("cpu.usage", NoLabels)
    BY DEF UsageSamples
  <2>2. Sample("cpu.usage", NoLabels) \in G <=> total
    BY PlainSurvives, NeedsOfPlain DEF Works, HostMetrics
  <2> HIDE DEF G, total
  <2>3. \A i \in 1..Len(UsageSamples) : UsageSamples[i] \in G <=> total
    BY <2>1, <2>2
  <2>4. QED
    BY <1>3, <2>3, KeepWhen
<1>5. KeepIn(CoreSamples, G) = When(total /\ cores, CoreSamples)
  <2>1. /\ Len(CoreSamples) = Len(Cores)
        /\ \A i \in 1..Len(Cores) : CoreSamples[i] = CoreSample(i)
    BY Lengths DEF CoreSamples, MapSeq, CoreSample
  <2>2. ASSUME NEW i \in 1..Len(Cores) PROVE CoreSample(i) \in G <=> total /\ cores
    <3>1. /\ CoreSample(i) \in Samples /\ CoreSample(i).name = Cores[i].metric
          /\ "mount" \notin DOMAIN CoreSample(i).labels
      BY DEF Samples, CoreSample, Sample
    <3>2. CoreSample(i) \in G <=> {"cpu.total", "cpu.cores"} \cap outage.calls = {}
      BY <3>1, NeedsOfOthers DEF Surviving, Survives
    <3>3. QED
      BY <3>2 DEF Works
  <2> HIDE DEF G, total, cores
  <2>3. \A i \in 1..Len(CoreSamples) : CoreSamples[i] \in G <=> total /\ cores
    BY <2>1, <2>2
  <2>4. QED
    BY <1>3, <2>3, KeepWhen
<1>6. KeepIn(LoadSamples, G) = When(total /\ load, LoadSamples)
  <2>1. Len(LoadSamples) = 3 /\ \A i \in 1..3 : \E n \in LoadNames : LoadSamples[i] = Sample(n, NoLabels)
    <3>1. /\ Len(LoadSamples) = 3 /\ LoadSamples[1] = Sample("cpu.load_1m", NoLabels)
          /\ LoadSamples[2] = Sample("cpu.load_5m", NoLabels)
          /\ LoadSamples[3] = Sample("cpu.load_15m", NoLabels)
      BY DEF LoadSamples
    <3>2. \A i \in 1..3 : i = 1 \/ i = 2 \/ i = 3
      OBVIOUS
    <3>3. QED
      BY <3>1, <3>2 DEF LoadNames
  <2>2. ASSUME NEW n \in LoadNames PROVE Sample(n, NoLabels) \in G <=> total /\ load
    <3>1. n \in HostMetrics
      BY DEF LoadNames, HostMetrics
    <3>2. Sample(n, NoLabels) \in G <=> {"cpu.total", "load"} \cap outage.calls = {}
      BY <3>1, PlainSurvives, NeedsOfPlain
    <3>3. QED
      BY <3>2 DEF Works
  <2> HIDE DEF G, total, load
  <2>3. \A i \in 1..Len(LoadSamples) : LoadSamples[i] \in G <=> total /\ load
    BY <2>1, <2>2
  <2>4. QED
    BY <1>3, <2>3, KeepWhen
<1>7. KeepIn(InRow(UsageSamples, CoreSamples, LoadSamples), G)
        = InRow(KeepIn(UsageSamples, G), KeepIn(CoreSamples, G), KeepIn(LoadSamples, G))
  <2>1. ASSUME NEW H
        PROVE  KeepIn(InRow(UsageSamples, CoreSamples, LoadSamples), H)
                 = InRow(KeepIn(UsageSamples, H), KeepIn(CoreSamples, H), KeepIn(LoadSamples, H))
    BY <1>3, KeepInRow
  <2>2. QED
    BY <2>1, Zenon
<1> HIDE DEF G, total, cores, load
<1>8. KeepIn(CollectCPU(AllFine).samples, G)
        = InRow(When(total, UsageSamples), When(total /\ cores, CoreSamples),
                When(total /\ load, LoadSamples))
  BY <1>1, <1>4, <1>5, <1>6, <1>7
<1>9. CASE total
  <2>1. /\ When(total, UsageSamples) = UsageSamples
        /\ When(total /\ cores, CoreSamples) = When(cores, CoreSamples)
        /\ When(total /\ load, LoadSamples) = When(load, LoadSamples)
    BY <1>9 DEF When
  <2>2. QED
    BY <1>2, <1>8, <1>9, <2>1 DEF G
<1>10. CASE ~total
  <2>1. InRow(<<>>, <<>>, <<>>) = <<>>
    BY DEF InRow
  <2>2. QED
    BY <1>2, <1>8, <1>10, <2>1 DEF When, G
<1>11. QED
  BY <1>9, <1>10

\* All members of a family survive together.
LEMMA KeepFlattenWhen ==
  ASSUME NEW ss \in Seq(Seq(Samples)), NEW G, NEW cond,
         \A i \in 1..Len(ss) : \A k \in 1..Len(ss[i]) : ss[i][k] \in G <=> cond
  PROVE  KeepIn(FlattenSeq(ss), G) = When(cond, FlattenSeq(ss))
<1>1. FlattenSeq(ss) \in Seq(Samples)
  BY FlattenType
<1>2. ASSUME NEW p \in 1..Len(FlattenSeq(ss)) PROVE FlattenSeq(ss)[p] \in G <=> cond
  <2>1. PICK i \in 1..Len(ss) : \E k \in 1..Len(ss[i]) : FlattenSeq(ss)[p] = ss[i][k]
    BY FlattenMembers
  <2>2. QED
    BY <2>1
<1>3. QED
  BY <1>1, <1>2, KeepWhen

\* The samples of a mount need its partition table and its file system.
LEMMA MountSurvives ==
  ASSUME NEW outage, NEW i \in 1..Len(Mounts), NEW n \in UsageNames
  PROVE  /\ MountSample(n, i) \in Samples
         /\ MountSample(n, i) \in Surviving(outage)
              <=> Works(outage, "partitions") /\ Mounts[i].mount \notin outage.mounts
<1>1. MountSample(n, i) \in Samples
  BY DEF Samples, UsageNames, HostMetrics
<1>2. /\ MountSample(n, i).name = n /\ DOMAIN MountSample(n, i).labels = {"mount", "device"}
      /\ MountSample(n, i).labels["mount"] = Mounts[i].mount
  BY DEF MountSample, Sample
<1>3. "mount" \in {"mount", "device"}
  OBVIOUS
<1>4. Needs(n, MountSample(n, i).labels) = {"partitions"}
  BY NeedsOfOthers
<1>5. QED
  BY <1>1, <1>2, <1>3, <1>4 DEF Surviving, Survives, Works

LEMMA MountPairLocal ==
  ASSUME NEW outage, NEW i \in 1..Len(Mounts)
  PROVE  /\ MountPair(i) \in Seq(Samples)
         /\ \A k \in 1..Len(MountPair(i)) :
              MountPair(i)[k] \in Surviving(outage)
                <=> Works(outage, "partitions") /\ Mounts[i].mount \notin outage.mounts
<1>1. "disk.used" \in UsageNames /\ "disk.total" \in UsageNames
  BY DEF UsageNames
<1>2. /\ Len(MountPair(i)) = 2 /\ MountPair(i)[1] = MountSample("disk.used", i)
      /\ MountPair(i)[2] = MountSample("disk.total", i)
  BY DEF MountPair
<1>3. MountPair(i) \in Seq(Samples)
  BY <1>1, MountSurvives DEF MountPair
<1>4. \A k \in 1..2 : k = 1 \/ k = 2
  OBVIOUS
<1>5. QED
  BY <1>1, <1>2, <1>3, <1>4, MountSurvives

LEMMA UsageLocal ==
  ASSUME NEW outage
  PROVE  KeepIn(UsageOf(AllFine), Surviving(outage))
           = When(Works(outage, "partitions"), UsageOf(outage))
<1> DEFINE G == Surviving(outage)
           fine == [i \in 1..Len(Mounts) |-> When(Readable(i, AllFine), MountPair(i))]
           left == [i \in 1..Len(Mounts) |-> When(Readable(i, outage), MountPair(i))]
<1>1. UsageOf(AllFine) = FlattenSeq(fine) /\ UsageOf(outage) = FlattenSeq(left)
  BY DEF UsageOf
<1>2. fine \in Seq(Seq(Samples))
  BY MountPairLocal, Lengths DEF When
<1>3. Len(fine) = Len(Mounts) /\ \A i \in 1..Len(Mounts) : fine[i] = When(CountsMount(i), MountPair(i))
  <2>1. \A i \in 1..Len(Mounts) : Readable(i, AllFine) <=> CountsMount(i)
    BY DEF Readable, AllFine
  <2>2. \A i \in 1..Len(Mounts) : fine[i] = When(Readable(i, AllFine), MountPair(i))
    OBVIOUS
  <2>3. QED
    BY <2>1, <2>2, Lengths DEF When
<1>4. CASE Works(outage, "partitions")
  <2>1. ASSUME NEW i \in 1..Len(Mounts) PROVE KeepIn(fine[i], G) = left[i]
    <3>1. CASE CountsMount(i)
      <4>1. KeepIn(MountPair(i), G) = When(Mounts[i].mount \notin outage.mounts, MountPair(i))
        <5>1. \A k \in 1..Len(MountPair(i)) :
                MountPair(i)[k] \in G <=> Mounts[i].mount \notin outage.mounts
          BY <1>4, MountPairLocal
        <5> HIDE DEF G
        <5>2. QED
          BY <5>1, MountPairLocal, KeepWhen
      <4>2. fine[i] = MountPair(i)
        BY <1>3, <3>1 DEF When
      <4>3. left[i] = When(Mounts[i].mount \notin outage.mounts, MountPair(i))
        BY <3>1 DEF Readable
      <4>4. QED
        BY <4>1, <4>2, <4>3
    <3>2. CASE ~CountsMount(i)
      BY <1>3, <3>2, KeepEmpty DEF Readable, When
    <3>3. QED
      BY <3>1, <3>2
  <2>2. [i \in 1..Len(fine) |-> KeepIn(fine[i], G)] = left
    BY <1>3, <2>1
  <2>3. KeepIn(FlattenSeq(fine), G) = FlattenSeq(left)
    <3> HIDE DEF fine, left, G
    <3>1. QED
      BY <1>2, <2>2, KeepFlatten
  <2>4. QED
    BY <1>1, <1>4, <2>3 DEF When
<1>5. CASE ~Works(outage, "partitions")
  <2>1. ASSUME NEW i \in 1..Len(fine), NEW k \in 1..Len(fine[i]) PROVE fine[i][k] \in G <=> FALSE
    <3>1. fine[i] = MountPair(i) \/ fine[i] = <<>>
      BY <1>3 DEF When
    <3>2. fine[i] # <<>>
      OBVIOUS
    <3> HIDE DEF fine
    <3>3. QED
      BY <1>3, <1>5, <3>1, <3>2, MountPairLocal
  <2> HIDE DEF fine, G
  <2>2. KeepIn(FlattenSeq(fine), G) = When(FALSE, FlattenSeq(fine))
    BY <1>2, <2>1, KeepFlattenWhen
  <2>3. QED
    BY <1>1, <1>5, <2>2 DEF When, G
<1>6. QED
  BY <1>4, <1>5

\* Disks' counters and interfaces' counters come from one call each.
LEMMA CountersSurvive ==
  ASSUME NEW outage
  PROVE  /\ \A n \in IONames : \A i \in 1..Len(Devices) :
              /\ DeviceSample(n, Devices[i]) \in Samples
              /\ DeviceSample(n, Devices[i]) \in Surviving(outage) <=> Works(outage, "disk.io")
         /\ \A n \in NetNames : \A i \in 1..Len(Ifaces) :
              /\ IfaceSample(n, i) \in Samples
              /\ IfaceSample(n, i) \in Surviving(outage) <=> Works(outage, "net.io")
<1>1. ASSUME NEW n \in IONames, NEW i \in 1..Len(Devices)
      PROVE  /\ DeviceSample(n, Devices[i]) \in Samples
             /\ DeviceSample(n, Devices[i]) \in Surviving(outage) <=> Works(outage, "disk.io")
  <2>1. DeviceSample(n, Devices[i]) \in Samples
    BY DEF Samples, IONames, HostMetrics
  <2>2. /\ DeviceSample(n, Devices[i]).name = n
        /\ "mount" \notin DOMAIN DeviceSample(n, Devices[i]).labels
    BY DEF DeviceSample, Sample
  <2>3. Needs(n, DeviceSample(n, Devices[i]).labels) = {"disk.io"}
    BY NeedsOfOthers
  <2>4. QED
    BY <2>1, <2>2, <2>3 DEF Surviving, Survives, Works
<1>2. ASSUME NEW n \in NetNames, NEW i \in 1..Len(Ifaces)
      PROVE  /\ IfaceSample(n, i) \in Samples
             /\ IfaceSample(n, i) \in Surviving(outage) <=> Works(outage, "net.io")
  <2>1. IfaceSample(n, i) \in Samples
    BY DEF Samples, NetNames, HostMetrics
  <2>2. IfaceSample(n, i).name = n /\ "mount" \notin DOMAIN IfaceSample(n, i).labels
    BY DEF IfaceSample, Sample
  <2>3. Needs(n, IfaceSample(n, i).labels) = {"net.io"}
    BY NeedsOfOthers
  <2>4. QED
    BY <2>1, <2>2, <2>3 DEF Surviving, Survives, Works
<1>3. QED
  BY <1>1, <1>2

LEMMA DiskLocal ==
  ASSUME NEW outage
  PROVE  KeepIn(CollectDisk(AllFine).samples, Surviving(outage)) = CollectDisk(outage).samples
<1> DEFINE G == Surviving(outage)
           ss == [i \in 1..Len(Devices) |-> DevicePair(Devices[i])]
<1>1. CollectDisk(AllFine).samples = UsageOf(AllFine) \o DevicePairs
  <2>1. Works(AllFine, "partitions") /\ Works(AllFine, "disk.io")
    BY DEF Works, AllFine
  <2>2. /\ When(Works(AllFine, "partitions"), UsageOf(AllFine)) = UsageOf(AllFine)
        /\ When(Works(AllFine, "disk.io"), DevicePairs) = DevicePairs
    BY <2>1 DEF When
  <2>3. QED
    BY <2>2, DiskBlocks
<1>2. KeepIn(DevicePairs, G) = When(Works(outage, "disk.io"), DevicePairs)
  <2>1. ASSUME NEW i \in 1..Len(Devices)
        PROVE  /\ DevicePair(Devices[i]) \in Seq(Samples)
               /\ \A k \in 1..Len(DevicePair(Devices[i])) :
                    DevicePair(Devices[i])[k] \in G <=> Works(outage, "disk.io")
    <3>1. "disk.read_bytes" \in IONames /\ "disk.write_bytes" \in IONames
      BY DEF IONames
    <3>2. /\ Len(DevicePair(Devices[i])) = 2
          /\ DevicePair(Devices[i])[1] = DeviceSample("disk.read_bytes", Devices[i])
          /\ DevicePair(Devices[i])[2] = DeviceSample("disk.write_bytes", Devices[i])
      BY DEF DevicePair
    <3>3. DevicePair(Devices[i]) \in Seq(Samples)
      BY <3>1, CountersSurvive DEF DevicePair
    <3>4. \A k \in 1..2 : k = 1 \/ k = 2
      OBVIOUS
    <3>5. QED
      BY <3>1, <3>2, <3>3, <3>4, CountersSurvive
  <2>2. ss \in Seq(Seq(Samples)) /\ Len(ss) = Len(Devices)
    BY <2>1, Lengths
  <2>3. \A i \in 1..Len(Devices) : ss[i] = DevicePair(Devices[i])
    OBVIOUS
  <2> HIDE DEF ss, G
  <2>4. QED
    BY <2>1, <2>2, <2>3, KeepFlattenWhen DEF DevicePairs, ss
<1>3. UsageOf(AllFine) \in Seq(Samples) /\ DevicePairs \in Seq(Samples)
  BY UsageOrderly, PairsOrderly DEF Orderly
<1>4. KeepIn(UsageOf(AllFine), G) = When(Works(outage, "partitions"), UsageOf(outage))
  BY UsageLocal
<1> HIDE DEF G
<1>5. KeepIn(UsageOf(AllFine) \o DevicePairs, G) = KeepIn(UsageOf(AllFine), G) \o KeepIn(DevicePairs, G)
  BY <1>3, KeepConcat
<1>6. KeepIn(CollectDisk(AllFine).samples, G) = CollectDisk(outage).samples
  BY <1>1, <1>2, <1>4, <1>5, DiskBlocks
<1>7. QED
  BY <1>6 DEF G

LEMMA NetLocal ==
  ASSUME NEW outage
  PROVE  KeepIn(CollectNet(AllFine).samples, Surviving(outage)) = CollectNet(outage).samples
<1> DEFINE G == Surviving(outage)
           ss == [i \in 1..Len(Ifaces) |-> When(~Ifaces[i].virtual, IfaceSamples(i))]
<1>1. CollectNet(AllFine).samples = NetSamples
  BY NetBlock DEF Works, AllFine, When
<1>2. ASSUME NEW i \in 1..Len(Ifaces)
      PROVE  /\ IfaceSamples(i) \in Seq(Samples)
             /\ \A k \in 1..Len(IfaceSamples(i)) : IfaceSamples(i)[k] \in G <=> Works(outage, "net.io")
  <2>1. /\ "net.rx_bytes" \in NetNames /\ "net.tx_bytes" \in NetNames
        /\ "net.rx_errors" \in NetNames /\ "net.tx_errors" \in NetNames
    BY DEF NetNames
  <2>2. /\ Len(IfaceSamples(i)) = 4
        /\ IfaceSamples(i)[1] = IfaceSample("net.rx_bytes", i)
        /\ IfaceSamples(i)[2] = IfaceSample("net.tx_bytes", i)
        /\ IfaceSamples(i)[3] = IfaceSample("net.rx_errors", i)
        /\ IfaceSamples(i)[4] = IfaceSample("net.tx_errors", i)
    BY DEF IfaceSamples
  <2>3. IfaceSamples(i) \in Seq(Samples)
    BY <2>1, CountersSurvive DEF IfaceSamples
  <2>4. \A k \in 1..4 : k = 1 \/ k = 2 \/ k = 3 \/ k = 4
    OBVIOUS
  <2>5. QED
    BY <2>1, <2>2, <2>3, <2>4, CountersSurvive
<1>3. ss \in Seq(Seq(Samples)) /\ Len(ss) = Len(Ifaces)
  BY <1>2, Lengths DEF When
<1>4. \A i \in 1..Len(Ifaces) : ss[i] = IfaceSamples(i) \/ Len(ss[i]) = 0
  BY DEF When
<1> HIDE DEF ss, G
<1>5. \A i \in 1..Len(ss) : \A k \in 1..Len(ss[i]) : ss[i][k] \in G <=> Works(outage, "net.io")
  BY <1>2, <1>3, <1>4
<1>6. KeepIn(NetSamples, G) = When(Works(outage, "net.io"), NetSamples)
  BY <1>3, <1>5, KeepFlattenWhen DEF NetSamples, ss
<1>7. QED
  BY <1>1, <1>6, NetBlock DEF G

LEMMA PlainCollectorsLocal ==
  ASSUME NEW outage
  PROVE  /\ KeepIn(CollectMem(AllFine).samples, Surviving(outage)) = CollectMem(outage).samples
         /\ KeepIn(CollectSwap(AllFine).samples, Surviving(outage)) = CollectSwap(outage).samples
         /\ KeepIn(CollectUptime(AllFine).samples, Surviving(outage)) = CollectUptime(outage).samples
<1>1. KeepIn(CollectMem(AllFine).samples, Surviving(outage)) = CollectMem(outage).samples
  <2> DEFINE names == <<"mem.used", "mem.total", "mem.available", "mem.cached">>
  <2>1. names \in Seq(HostMetrics)
    BY DEF HostMetrics
  <2>2. \A i \in 1..Len(names) : Needs(names[i], NoLabels) = {"mem"}
    <3>1. /\ Len(names) = 4 /\ names[1] = "mem.used" /\ names[2] = "mem.total"
          /\ names[3] = "mem.available" /\ names[4] = "mem.cached"
      OBVIOUS
    <3> HIDE DEF names
    <3>2. \A i \in 1..4 : i = 1 \/ i = 2 \/ i = 3 \/ i = 4
      OBVIOUS
    <3>3. QED
      BY <3>1, <3>2, NeedsOfPlain DEF MemNames
  <2>3. \A o : CollectMem(o) = CollectPlain(o, "mem", names)
    BY DEF CollectMem
  <2> HIDE DEF names
  <2>4. QED
    BY <2>1, <2>2, <2>3, PlainLocal
<1>2. ASSUME NEW call, NEW n \in HostMetrics, Needs(n, NoLabels) = {call}
      PROVE  KeepIn(CollectPlain(AllFine, call, <<n>>).samples, Surviving(outage))
               = CollectPlain(outage, call, <<n>>).samples
  <2> DEFINE names == <<n>>
  <2>1. names \in Seq(HostMetrics) /\ \A i \in 1..Len(names) : Needs(names[i], NoLabels) = {call}
    BY <1>2
  <2> HIDE DEF names
  <2>2. KeepIn(CollectPlain(AllFine, call, names).samples, Surviving(outage))
          = CollectPlain(outage, call, names).samples
    BY <2>1, PlainLocal
  <2>3. QED
    BY <2>2 DEF names
<1>3. "swap.used" \in HostMetrics /\ "uptime.seconds" \in HostMetrics
  BY DEF HostMetrics
<1>4. QED
  BY <1>1, <1>2, <1>3, NeedsOfPlain DEF CollectSwap, CollectUptime

\* The whole batch loses what an outage costs, collector by collector.
LEMMA MergedLocal ==
  ASSUME NEW outage
  PROVE  KeepIn(MergeSamples(CollectAll(AllFine)), Surviving(outage))
           = MergeSamples(CollectAll(outage))
<1> DEFINE G == Surviving(outage)
           ss == SamplesOf(AllFine)
           tt == SamplesOf(outage)
<1>1. ASSUME NEW o
      PROVE  /\ SamplesOf(o)[1] = CollectCPU(o).samples /\ SamplesOf(o)[2] = CollectMem(o).samples
             /\ SamplesOf(o)[3] = CollectSwap(o).samples /\ SamplesOf(o)[4] = CollectDisk(o).samples
             /\ SamplesOf(o)[5] = CollectNet(o).samples /\ SamplesOf(o)[6] = CollectUptime(o).samples
             /\ SamplesOf(o) = [i \in 1..6 |-> SamplesOf(o)[i]]
  BY DEF SamplesOf, CollectAll
<1>2. \A i \in 1..6 : i = 1 \/ i = 2 \/ i = 3 \/ i = 4 \/ i = 5 \/ i = 6
  OBVIOUS
<1>3. ss \in Seq(Seq(Samples)) /\ Len(ss) = 6
  <2>1. /\ CollectCPU(AllFine).samples \in Seq(Samples) /\ CollectMem(AllFine).samples \in Seq(Samples)
        /\ CollectSwap(AllFine).samples \in Seq(Samples) /\ CollectDisk(AllFine).samples \in Seq(Samples)
        /\ CollectNet(AllFine).samples \in Seq(Samples) /\ CollectUptime(AllFine).samples \in Seq(Samples)
    BY CPUOrderly, DiskOrderly, PlainCollectorsOrderly, NetBlock, NetOrderly, OrderlyWhen DEF Orderly
  <2>2. \A i \in 1..6 : ss[i] \in Seq(Samples)
    BY <1>1, <1>2, <2>1
  <2>3. ss = [i \in 1..6 |-> ss[i]]
    BY <1>1
  <2> HIDE DEF ss
  <2>4. QED
    BY <2>2, <2>3
<1>4. \A i \in 1..6 : KeepIn(ss[i], G) = tt[i]
  BY <1>1, <1>2, CPULocal, PlainCollectorsLocal, DiskLocal, NetLocal
<1>5. tt = [i \in 1..6 |-> tt[i]]
  BY <1>1
<1> HIDE DEF ss, tt, G
<1>6. [i \in 1..Len(ss) |-> KeepIn(ss[i], G)] = tt
  BY <1>3, <1>4, <1>5
<1>7. KeepIn(FlattenSeq(ss), G) = FlattenSeq(tt)
  BY <1>3, <1>6, KeepFlatten
<1>8. QED
  BY <1>7, MergeFlattens DEF ss, tt, G

\* Without static labels a sample stays as the collector made it.
LEMMA MergeNothing == \A x \in Samples : Sample(x.name, MergeLabels(x.labels, <<>>)) = x
<1>1. ASSUME NEW n, NEW labels, labels = [k \in DOMAIN labels |-> labels[k]]
      PROVE  Sample(Sample(n, labels).name, MergeLabels(Sample(n, labels).labels, <<>>)) = Sample(n, labels)
  <2>1. MergeLabels(labels, <<>>) = labels
    <3>1. DOMAIN labels \cup DOMAIN <<>> = DOMAIN labels
      OBVIOUS
    <3>2. MergeLabels(labels, <<>>) = [k \in DOMAIN labels |-> labels[k]]
      BY <3>1 DEF MergeLabels
    <3>3. QED
      BY <1>1, <3>2
  <2>2. QED
    BY <2>1 DEF Sample
<1>2. NoLabels = [k \in DOMAIN NoLabels |-> NoLabels[k]]
  BY DEF NoLabels
<1>3. ASSUME NEW c PROVE [core |-> c] = [k \in DOMAIN [core |-> c] |-> [core |-> c][k]]
  OBVIOUS
<1>4. ASSUME NEW m, NEW d
      PROVE  [mount |-> m, device |-> d]
               = [k \in DOMAIN [mount |-> m, device |-> d] |-> [mount |-> m, device |-> d][k]]
  OBVIOUS
<1>5. ASSUME NEW d PROVE [device |-> d] = [k \in DOMAIN [device |-> d] |-> [device |-> d][k]]
  OBVIOUS
<1>6. ASSUME NEW f PROVE [iface |-> f] = [k \in DOMAIN [iface |-> f] |-> [iface |-> f][k]]
  OBVIOUS
<1> DEFINE Stays(x) == Sample(x.name, MergeLabels(x.labels, <<>>)) = x
<1>7. /\ \A n : Stays(Sample(n, NoLabels))
      /\ \A i : Stays(CoreSample(i))
      /\ \A n, i : Stays(MountSample(n, i))
      /\ \A n, d : Stays(DeviceSample(n, d))
      /\ \A n, i : Stays(IfaceSample(n, i))
  <2>1. ASSUME NEW n, NEW labels, labels = [k \in DOMAIN labels |-> labels[k]]
        PROVE  Stays(Sample(n, labels))
    BY <1>1, <2>1
  <2> HIDE DEF Stays
  <2>2. \A n : Stays(Sample(n, NoLabels))
    BY <1>2, <2>1
  <2>3. \A i : Stays(CoreSample(i))
    BY <1>3, <2>1 DEF CoreSample
  <2>4. \A n, i : Stays(MountSample(n, i))
    BY <1>4, <2>1 DEF MountSample
  <2>5. \A n, d : Stays(DeviceSample(n, d))
    BY <1>5, <2>1 DEF DeviceSample
  <2>6. \A n, i : Stays(IfaceSample(n, i))
    BY <1>6, <2>1 DEF IfaceSample
  <2>7. QED
    BY <2>2, <2>3, <2>4, <2>5, <2>6
<1> HIDE DEF Stays
<1>8. \A x \in Samples : Stays(x)
  BY <1>7 DEF Samples
<1>9. QED
  BY <1>8 DEF Stays

\* What a host in good order reports under an allowlist.
FineBatch(allowed) == ApplyAllowlist(MergeSamples(CollectAll(AllFine)), allowed)

LEMMA AllowedType ==
  ASSUME NEW outage, NEW allowed
  PROVE  ApplyAllowlist(MergeSamples(CollectAll(outage)), allowed) \in Seq(Samples)
BY MergedOrderly, AllowlistKeeps, KeepType DEF Orderly

LEMMA FineScrape ==
  ASSUME NEW allowed
  PROVE  Scrape(AllFine, <<>>, allowed).metrics = FineBatch(allowed)
<1> DEFINE u == FineBatch(allowed)
<1>1. Scrape(AllFine, <<>>, allowed).metrics
        = [k \in 1..Len(u) |-> Sample(u[k].name, MergeLabels(u[k].labels, <<>>))]
  BY DEF Scrape, ApplyStaticLabels, MapSeq, FineBatch
<1>2. u \in Seq(Samples)
  BY AllowedType DEF FineBatch
<1> HIDE DEF u
<1>3. \A k \in 1..Len(u) : Sample(u[k].name, MergeLabels(u[k].labels, <<>>)) = u[k]
  BY <1>2, MergeNothing
<1>4. [k \in 1..Len(u) |-> Sample(u[k].name, MergeLabels(u[k].labels, <<>>))] = [k \in 1..Len(u) |-> u[k]]
  BY <1>3
<1>5. [k \in 1..Len(u) |-> u[k]] = u
  BY <1>2
<1>6. QED
  BY <1>1, <1>4, <1>5 DEF u

\* The allowlist and the outage take their samples in either order.
LEMMA AllowedLocal ==
  ASSUME NEW outage, NEW allowed
  PROVE  KeepIn(FineBatch(allowed), Surviving(outage))
           = ApplyAllowlist(MergeSamples(CollectAll(outage)), allowed)
<1> DEFINE fine == MergeSamples(CollectAll(AllFine))
           left == MergeSamples(CollectAll(outage))
           G == Surviving(outage)
           A == Allowed(allowed)
<1>1. fine \in Seq(Samples) /\ left \in Seq(Samples)
  BY MergedOrderly DEF Orderly
<1>2. KeepIn(fine, G) = left
  BY MergedLocal
<1>3. /\ FineBatch(allowed) = IF allowed = {} THEN fine ELSE KeepIn(fine, A)
      /\ ApplyAllowlist(left, allowed) = IF allowed = {} THEN left ELSE KeepIn(left, A)
  BY <1>1, AllowlistKeeps DEF FineBatch
<1> HIDE DEF fine, left, G, A
<1>4. KeepIn(KeepIn(fine, A), G) = KeepIn(KeepIn(fine, G), A)
  BY <1>1, KeepCommutes
<1>5. KeepIn(FineBatch(allowed), G) = ApplyAllowlist(left, allowed)
  BY <1>2, <1>3, <1>4
<1>6. QED
  BY <1>5 DEF left, G

NamesOf(m) == [i \in 1..Len(m) |-> m[i].name]
Lasting(m, outage) == Keep(m, LAMBDA s : Survives(s, outage))

\* The names of a scrape are those of the samples that survive the outage.
LEMMA ScrapeLocal ==
  ASSUME NEW outage, NEW labels, NEW allowed
  PROVE  NamesOf(Scrape(outage, labels, allowed).metrics)
           = NamesOf(Lasting(Scrape(AllFine, <<>>, allowed).metrics, outage))
<1> DEFINE m == Scrape(outage, labels, allowed).metrics
           h == Scrape(AllFine, <<>>, allowed).metrics
           lasting == Lasting(h, outage)
           u == ApplyAllowlist(MergeSamples(CollectAll(outage)), allowed)
<1>1. h = FineBatch(allowed) /\ h \in Seq(Samples) /\ u \in Seq(Samples)
  BY FineScrape, AllowedType DEF FineBatch
<1>2. lasting = u
  <2> HIDE DEF h, u
  <2>1. \A i \in 1..Len(h) : h[i] \in Surviving(outage) <=> Survives(h[i], outage)
    BY <1>1 DEF Surviving
  <2>2. [i \in 1..Len(h) |-> IF Survives(h[i], outage) THEN <<h[i]>> ELSE <<>>]
          = [i \in 1..Len(h) |-> Pick(h[i], Surviving(outage))]
    BY <2>1 DEF Pick
  <2>3. lasting = KeepIn(h, Surviving(outage))
    BY <2>2 DEF Lasting, Keep, MapSeq, When, KeepIn
  <2>4. QED
    BY <1>1, <2>3, AllowedLocal DEF u
<1>3. m = [k \in 1..Len(u) |-> Sample(u[k].name, MergeLabels(u[k].labels, labels))]
  BY DEF Scrape, ApplyStaticLabels, MapSeq
<1> HIDE DEF m, u, lasting
<1>4. Len(m) = Len(u) /\ \A i \in 1..Len(u) : m[i].name = u[i].name
  BY <1>1, <1>3 DEF Sample
<1>5. NamesOf(m) = NamesOf(lasting)
  BY <1>2, <1>4 DEF NamesOf
<1>6. QED
  BY <1>5 DEF m, lasting

-----------------------------------------------------------------------------
(* The scrape the loop holds *)

FromRegistry == \E outage \in bounds.outages : scrape = Scrape(outage, static, allowlist)

\* Between the registry and the queue the loop holds what the registry yielded.
ScrapeInv ==
  /\ scrape = NoScrape \/ FromRegistry
  /\ collectPc \in {"errors", "count"} => FromRegistry

LEMMA ScrapeInvInit == Init => ScrapeInv
  BY DEF Init, ScrapeInv

LEMMA ScrapeInvStep == ScrapeInv /\ [Next]_vars => ScrapeInv'
<1> SUFFICES ASSUME ScrapeInv, [Next]_vars PROVE ScrapeInv'
  OBVIOUS
<1>1. CASE UNCHANGED <<registryVars, collectVars>>
  BY <1>1 DEF registryVars, collectVars, ScrapeInv, FromRegistry
<1>2. ASSUME NEW outage \in bounds.outages, RunRegistry(outage) PROVE ScrapeInv'
  BY <1>2 DEF RunRegistry, notCollect, registryVars, ScrapeInv, FromRegistry
<1>3. CASE CountPartial
  BY <1>3 DEF CountPartial, notCollect, registryVars, ScrapeInv, FromRegistry
<1>4. CASE CountEmpty \/ CountOK
  BY <1>4 DEF CountEmpty, CountOK, ScrapeInv
<1>5. CASE PushBatch \/ SignalPush
  BY <1>5 DEF PushBatch, SignalPush, notCollect, registryVars, ScrapeInv, FromRegistry
<1>6. CASE SendNext
  BY <1>1, <1>6 DEF SendNext, PeekHead, IdleNotified, Post, SendReturns, SendTimesOut, CountFailed,
    PopSent, CountSent, StoreLastFlush, notSend
<1>7. CASE ServerNext
  BY <1>1, <1>7 DEF ServerNext, Handle, LoseRequest, notServer
<1>8. CASE ReadField \/ WriteExposition
  BY <1>1, <1>8 DEF ReadField, WriteExposition
<1>9. CASE Rests \/ UNCHANGED vars
  BY <1>1, <1>9 DEF Rests, vars
<1>10. QED
  BY <1>2, <1>3, <1>4, <1>5, <1>6, <1>7, <1>8, <1>9 DEF Next, CollectNext

THEOREM ScrapeInvHolds == Spec => []ScrapeInv
  BY ScrapeInvInit, ScrapeInvStep, PTL DEF Spec

\* SeriesStayDistinct: no two samples of a batch are one series, and no disk is
\* in it twice, for every host, outage, allowlist and set of static labels.
THEOREM SeriesAreDistinct == Spec => []SeriesStayDistinct
<1>1. ScrapeInv => SeriesStayDistinct
  <2> SUFFICES ASSUME ScrapeInv PROVE SeriesStayDistinct
    OBVIOUS
  <2>1. CASE scrape = NoScrape
    BY <2>1 DEF NoScrape, SeriesStayDistinct
  <2>2. ASSUME NEW outage \in bounds.outages, scrape = Scrape(outage, static, allowlist)
        PROVE  SeriesStayDistinct
    BY <2>2, ScrapeApart DEF SeriesStayDistinct
  <2>3. QED
    BY <2>1, <2>2 DEF ScrapeInv, FromRegistry
<1>2. QED
  BY <1>1, ScrapeInvHolds, PTL

\* FailureStaysLocal: a scrape reports, in the same order, what a host in good
\* order reports less the samples that need a failing call.
THEOREM FailuresAreLocal == Spec => []FailureStaysLocal
<1>1. ScrapeInv => FailureStaysLocal
  <2> SUFFICES ASSUME ScrapeInv, collectPc \in {"errors", "count"} PROVE FailureStaysLocal
    BY DEF FailureStaysLocal
  <2>1. PICK outage \in bounds.outages : scrape = Scrape(outage, static, allowlist)
    BY DEF ScrapeInv, FromRegistry
  <2>2. NamesOf(scrape.metrics) = NamesOf(Lasting(Healthy.metrics, outage))
    BY <2>1, ScrapeLocal DEF Healthy, AllFine
  <2>3. QED
    BY <2>1, <2>2 DEF FailureStaysLocal, NamesOf, Lasting
<1>2. QED
  BY <1>1, ScrapeInvHolds, PTL

-----------------------------------------------------------------------------
(* The page of /metrics *)

USE CapacityAssumption

CollectSteps == {"scrape", "errors", "count", "push", "signal"}
SendSteps == {"peek", "idle", "post", "await", "fail", "pop", "count", "flush", "done"}

Types ==
  /\ stats \in [Counters -> Nat] /\ snap \in [Fields -> Nat]
  /\ dropped \in Nat /\ items \in Seq(Nat)
  /\ readPc \in 1..8
  /\ collectPc \in CollectSteps /\ sendPc \in SendSteps

\* A sender that holds a batch holds it against a queue that is not empty.
HoldsBatch == sendPc \in {"post", "await", "pop"} => items # <<>>

\* Every scrape with a sample is sent, dropped, pending, or between two counters.
Accounts ==
  /\ Len(items) <= Capacity
  /\ stats.ok = stats.sent + dropped + Len(items)
                  + (IF collectPc = "push" THEN 1 ELSE 0)
                  + (IF sendPc = "count" THEN 1 ELSE 0)

\* The time of the flush lags behind its number between the two stores only.
Flushes == stats.sent = stats.flush + (IF sendPc = "flush" THEN 1 ELSE 0)

\* What the handler has read, against what it has still to read.
Backlog ==
  /\ readPc \in 2..4 => snap.ok <= stats.sent + dropped + Capacity + 2
  /\ readPc \in 5..7 => snap.ok <= snap.sent + dropped + Capacity + 2
  /\ readPc = 8 => snap.ok <= snap.sent + snap.dropped + Capacity + 2

LastFlush ==
  /\ readPc \in 5..6 => snap.sent <= stats.flush + 1
  /\ readPc \in 7..8 => snap.sent <= snap.flush + 1

TelemetryInv == Types /\ HoldsBatch /\ Accounts /\ Flushes /\ Backlog /\ LastFlush

LEMMA TelemetryInvInit == Init => TelemetryInv
  BY DEF Init, BufferInit, NoSnapshot, Counters, Fields, TelemetryInv, Types, CollectSteps,
         SendSteps, HoldsBatch, Accounts, Flushes, Backlog, LastFlush

\* Counters grow: what has been read stays below what is left to read.
LEMMA ReaderKeeps ==
  ASSUME TelemetryInv, UNCHANGED readVars, dropped' \in Nat, dropped' >= dropped,
         stats' \in [Counters -> Nat],
         stats'.sent >= stats.sent, stats'.flush >= stats.flush
  PROVE  Backlog' /\ LastFlush'
<1>1. /\ snap.ok \in Nat /\ snap.sent \in Nat /\ snap.flush \in Nat /\ snap.dropped \in Nat
      /\ stats.sent \in Nat /\ stats.flush \in Nat /\ dropped \in Nat
      /\ stats'.sent \in Nat /\ stats'.flush \in Nat
  BY DEF TelemetryInv, Types, Counters, Fields
<1>2. snap' = snap /\ readPc' = readPc
  BY DEF readVars
<1>3. Backlog'
  BY <1>1, <1>2 DEF TelemetryInv, Backlog
<1>4. LastFlush'
  BY <1>1, <1>2 DEF TelemetryInv, LastFlush
<1>5. QED
  BY <1>3, <1>4

\* What a TelemetryInv counts with.
LEMMA Numbers ==
  ASSUME TelemetryInv
  PROVE  /\ stats.ok \in Nat /\ stats.sent \in Nat /\ stats.flush \in Nat /\ dropped \in Nat
         /\ Len(items) \in Nat /\ Len(items) <= Capacity
  BY DEF TelemetryInv, Types, Accounts, Counters, Fields

\* A step of a loop owes the accounts; the reader's side follows.
LEMMA LoopKeeps ==
  ASSUME TelemetryInv, UNCHANGED readVars, Types', HoldsBatch', Accounts', Flushes',
         dropped' >= dropped, stats'.sent >= stats.sent, stats'.flush >= stats.flush
  PROVE  TelemetryInv'
<1>1. Backlog' /\ LastFlush'
  BY ReaderKeeps DEF Types
<1>2. QED
  BY <1>1 DEF TelemetryInv

\* The accounts over a step of the collect loop.
LEMMA CollectKeeps ==
  ASSUME TelemetryInv, CollectNext
  PROVE  TelemetryInv'
<1> USE DEF notCollect, registryVars, sendVars, serverVars, readVars, bufferVars
<1>n. /\ stats.ok \in Nat /\ stats.sent \in Nat /\ stats.flush \in Nat /\ dropped \in Nat
      /\ Len(items) \in Nat /\ Len(items) <= Capacity
  BY Numbers
<1>1. ASSUME NEW outage \in bounds.outages, RunRegistry(outage) PROVE TelemetryInv'
  <2>1. UNCHANGED <<stats, bufferVars, sendVars, readVars>> /\ collectPc = "scrape"
         /\ collectPc' \in {"errors", "count"}
    BY <1>1 DEF RunRegistry
  <2>2. QED
    BY <2>1 DEF TelemetryInv, Types, HoldsBatch, Accounts, Flushes, Backlog, LastFlush,
                CollectSteps
<1>2. CASE CountPartial \/ CountEmpty
  <2>1. /\ UNCHANGED <<bufferVars, sendVars, readVars>> /\ collectPc # "push" /\ collectPc' # "push"
        /\ collectPc' \in CollectSteps
    BY <1>2 DEF CountPartial, CountEmpty, CollectSteps
  <2>2. PICK c \in {"partial", "empty"} : Add(c)
    BY <1>2 DEF CountPartial, CountEmpty
  <2>3. /\ stats' \in [Counters -> Nat]
        /\ stats'.ok = stats.ok /\ stats'.sent = stats.sent /\ stats'.flush = stats.flush
    BY <2>2 DEF Add, TelemetryInv, Types, Counters, Fields
  <2>4. Types' /\ HoldsBatch' /\ Flushes'
    BY <2>1, <2>3 DEF TelemetryInv, Types, HoldsBatch, Flushes
  <2>5. Accounts'
    BY <2>1, <2>3 DEF TelemetryInv, Accounts
  <2>6. QED
    BY <2>1, <2>3, <2>4, <2>5, <1>n, LoopKeeps
<1>3. CASE CountOK
  <2>1. /\ UNCHANGED <<bufferVars, sendVars, readVars>> /\ collectPc = "count" /\ collectPc' = "push"
        /\ stats' \in [Counters -> Nat]
        /\ stats'.ok = stats.ok + 1 /\ stats'.sent = stats.sent /\ stats'.flush = stats.flush
    BY <1>3 DEF CountOK, Add, TelemetryInv, Types, Counters, Fields
  <2>2. Types' /\ HoldsBatch' /\ Flushes'
    BY <2>1 DEF TelemetryInv, Types, HoldsBatch, Flushes, CollectSteps
  <2>3. Accounts'
    BY <2>1, <1>n DEF TelemetryInv, Accounts
  <2>4. QED
    BY <2>1, <2>2, <2>3, <1>n, LoopKeeps
<1>4. CASE PushBatch
  <2>1. /\ UNCHANGED <<sendVars, readVars, stats>> /\ collectPc = "push" /\ collectPc' = "signal"
        /\ items' = Append(IF IsFull THEN Tail(items) ELSE items, stats.ok)
        /\ dropped' = IF IsFull THEN dropped + 1 ELSE dropped
    BY <1>4 DEF PushBatch, PushLocked
  <2>2. items \in Seq(Nat)
    BY DEF TelemetryInv, Types
  <2>3. /\ items' \in Seq(Nat) /\ items' # <<>> /\ dropped' \in Nat /\ dropped' >= dropped
        /\ Len(items') <= Capacity /\ dropped' + Len(items') = dropped + Len(items) + 1
    <3>1. CASE IsFull
      <4>1. items # <<>> /\ Len(items) = Capacity
        BY <3>1, <2>2, <1>n, EmptySeq DEF IsFull
      <4>2. Tail(items) \in Seq(Nat) /\ Len(Tail(items)) = Len(items) - 1
        BY <2>2, <4>1, HeadTailProperties
      <4>3. items' = Append(Tail(items), stats.ok) /\ dropped' = dropped + 1
        BY <2>1, <3>1
      <4>4. items' \in Seq(Nat) /\ items' # <<>> /\ Len(items') = Len(items)
        BY <4>2, <4>3, <1>n, AppendProperties
      <4>5. dropped' \in Nat /\ dropped' >= dropped
        BY <4>3, <1>n
      <4>6. dropped' + Len(items') = dropped + Len(items) + 1
        BY <4>3, <4>4, <1>n
      <4>7. QED
        BY <4>1, <4>4, <4>5, <4>6
    <3>2. CASE ~IsFull
      <4>1. items' = Append(items, stats.ok) /\ dropped' = dropped
        BY <2>1, <3>2
      <4>2. items' \in Seq(Nat) /\ items' # <<>> /\ Len(items') = Len(items) + 1
        BY <2>2, <4>1, <1>n, AppendProperties
      <4>3. Len(items) < Capacity
        BY <3>2, <1>n DEF IsFull
      <4>4. QED
        BY <4>1, <4>2, <4>3, <1>n
    <3>3. QED
      BY <3>1, <3>2
  <2>4. Types' /\ HoldsBatch' /\ Flushes'
    BY <2>1, <2>3 DEF TelemetryInv, Types, HoldsBatch, Flushes, CollectSteps
  <2>5. Accounts'
    BY <2>1, <2>3, <1>n DEF TelemetryInv, Accounts
  <2>6. QED
    BY <2>1, <2>3, <2>4, <2>5, <1>n, LoopKeeps
<1>5. CASE SignalPush
  <2>1. /\ UNCHANGED <<items, dropped, stats, sendVars, readVars>> /\ collectPc = "signal"
        /\ collectPc' = "scrape"
    BY <1>5 DEF SignalPush, SignalNotify
  <2>2. Types' /\ HoldsBatch' /\ Flushes'
    BY <2>1 DEF TelemetryInv, Types, HoldsBatch, Flushes, CollectSteps
  <2>3. Accounts'
    BY <2>1 DEF TelemetryInv, Accounts
  <2>4. QED
    BY <2>1, <2>2, <2>3, <1>n, LoopKeeps
<1>6. QED
  BY <1>1, <1>2, <1>3, <1>4, <1>5 DEF CollectNext

\* The accounts over a step of the send loop.
LEMMA SendKeeps ==
  ASSUME TelemetryInv, SendNext
  PROVE  TelemetryInv'
<1> USE DEF notSend, registryVars, collectVars, serverVars, readVars, bufferVars
<1>n. /\ stats.ok \in Nat /\ stats.sent \in Nat /\ stats.flush \in Nat /\ dropped \in Nat
      /\ Len(items) \in Nat /\ Len(items) <= Capacity
  BY Numbers
<1>1. CASE PeekHead \/ IdleNotified \/ Post \/ SendReturns \/ SendTimesOut
  <2>1. UNCHANGED <<items, dropped, stats, collectVars, readVars>>
    BY <1>1 DEF PeekHead, IdleNotified, TakeNotify, Post, SendReturns, SendTimesOut
  <2>2. /\ sendPc \notin {"count", "flush"}
        /\ sendPc' \in {"idle", "post", "peek", "await", "pop", "fail", "done"}
    BY <1>1 DEF PeekHead, IdleNotified, Post, SendReturns, SendTimesOut
  <2>3. HoldsBatch'
    BY <1>1, <2>1 DEF PeekHead, HasBatch, IdleNotified, Post, SendReturns, SendTimesOut,
                      TelemetryInv, HoldsBatch
  <2>4. Types' /\ Flushes'
    BY <2>1, <2>2 DEF TelemetryInv, Types, Flushes, SendSteps
  <2>5. Accounts'
    BY <2>1, <2>2 DEF TelemetryInv, Accounts
  <2>6. QED
    BY <2>1, <2>3, <2>4, <2>5, <1>n, LoopKeeps
<1>2. CASE CountFailed
  <2>1. /\ UNCHANGED <<items, dropped, collectVars, readVars>>
        /\ sendPc = "fail" /\ sendPc' = "peek" /\ stats' \in [Counters -> Nat]
        /\ stats'.ok = stats.ok /\ stats'.sent = stats.sent /\ stats'.flush = stats.flush
    BY <1>2 DEF CountFailed, Add, TelemetryInv, Types, Counters, Fields
  <2>2. Types' /\ HoldsBatch' /\ Flushes'
    BY <2>1 DEF TelemetryInv, Types, HoldsBatch, Flushes, SendSteps
  <2>3. Accounts'
    BY <2>1 DEF TelemetryInv, Accounts
  <2>4. QED
    BY <2>1, <2>2, <2>3, <1>n, LoopKeeps
<1>3. CASE PopSent
  <2>1. /\ UNCHANGED <<dropped, stats, collectVars, readVars>>
        /\ sendPc = "pop" /\ sendPc' = "count" /\ items # <<>> /\ items' = Tail(items)
        /\ items \in Seq(Nat)
    BY <1>3 DEF PopSent, PopHead, HasBatch, TelemetryInv, Types, HoldsBatch
  <2>2. items' \in Seq(Nat) /\ Len(items') = Len(items) - 1
    BY <2>1
  <2>3. Types' /\ HoldsBatch' /\ Flushes'
    BY <2>1, <2>2 DEF TelemetryInv, Types, HoldsBatch, Flushes, SendSteps
  <2>4. Accounts'
    BY <2>1, <2>2, <1>n DEF TelemetryInv, Accounts
  <2>5. QED
    BY <2>1, <2>3, <2>4, <1>n, LoopKeeps
<1>4. CASE CountSent
  <2>1. /\ UNCHANGED <<items, dropped, collectVars, readVars>>
        /\ sendPc = "count" /\ sendPc' = "flush" /\ stats' \in [Counters -> Nat]
        /\ stats'.ok = stats.ok /\ stats'.sent = stats.sent + 1 /\ stats'.flush = stats.flush
    BY <1>4 DEF CountSent, Add, TelemetryInv, Types, Counters, Fields
  <2>2. Types' /\ HoldsBatch'
    BY <2>1 DEF TelemetryInv, Types, HoldsBatch, SendSteps
  <2>3. Accounts'
    BY <2>1, <1>n DEF TelemetryInv, Accounts
  <2>4. Flushes'
    BY <2>1, <1>n DEF TelemetryInv, Flushes
  <2>5. QED
    BY <2>1, <2>2, <2>3, <2>4, <1>n, LoopKeeps
<1>5. CASE StoreLastFlush
  <2>1. /\ UNCHANGED <<items, dropped, collectVars, readVars>>
        /\ sendPc = "flush" /\ sendPc' = "peek" /\ stats' \in [Counters -> Nat]
        /\ stats'.ok = stats.ok /\ stats'.sent = stats.sent /\ stats'.flush = stats.sent
    BY <1>5 DEF StoreLastFlush, TelemetryInv, Types, Counters, Fields
  <2>2. Types' /\ HoldsBatch'
    BY <2>1 DEF TelemetryInv, Types, HoldsBatch, SendSteps
  <2>3. Accounts' /\ Flushes' /\ stats.sent = stats.flush + 1
    BY <2>1, <1>n DEF TelemetryInv, Accounts, Flushes
  <2>4. QED
    BY <2>1, <2>2, <2>3, <1>n, LoopKeeps
<1>6. QED
  BY <1>1, <1>2, <1>3, <1>4, <1>5 DEF SendNext

\* What the handler reads next, and what is left to be read after it.
LEMMA ReadKeeps ==
  ASSUME TelemetryInv, ReadField
  PROVE  TelemetryInv'
<1>1. /\ UNCHANGED <<bufferVars, collectVars, sendVars, stats>>
      /\ readPc \in 1..7 /\ readPc' = readPc + 1
      /\ snap' = [snap EXCEPT ![FieldOrder[readPc]] =
                    IF FieldOrder[readPc] = "dropped" THEN dropped ELSE stats[FieldOrder[readPc]]]
  BY DEF ReadField, FieldOrder, TelemetryInv, Types
<1>2. /\ stats.ok \in Nat /\ stats.sent \in Nat /\ stats.flush \in Nat /\ dropped \in Nat
      /\ Len(items) \in Nat /\ Len(items) <= Capacity
  BY Numbers
<1>3. /\ stats.ok <= stats.sent + dropped + Capacity + 2
      /\ stats.sent <= stats.flush + 1
  <2>1. stats.ok <= stats.sent + dropped + Capacity + 2
    BY <1>2 DEF TelemetryInv, Accounts
  <2>2. stats.sent <= stats.flush + 1
    BY <1>2 DEF TelemetryInv, Flushes
  <2>3. QED
    BY <2>1, <2>2
<1>4. FieldOrder[readPc] \in Fields
  BY <1>1 DEF FieldOrder, Fields
<1>5. snap' \in [Fields -> Nat]
  BY <1>1, <1>2, <1>4 DEF TelemetryInv, Types, Counters, Fields
<1>6. Backlog' /\ LastFlush'
  <2> USE <1>1, <1>2, <1>3
         DEF TelemetryInv, Types, FieldOrder, Fields, Backlog, LastFlush, bufferVars
  <2>1. CASE readPc = 1
    BY <2>1
  <2>2. CASE readPc = 2
    BY <2>2
  <2>3. CASE readPc = 3
    BY <2>3
  <2>4. CASE readPc = 4
    BY <2>4
  <2>5. CASE readPc = 5
    BY <2>5
  <2>6. CASE readPc = 6
    BY <2>6
  <2>7. CASE readPc = 7
    BY <2>7
  <2>8. QED
    BY <2>1, <2>2, <2>3, <2>4, <2>5, <2>6, <2>7
<1>7. QED
  BY <1>1, <1>5, <1>6
     DEF TelemetryInv, Types, HoldsBatch, Accounts, Flushes, bufferVars, collectVars, sendVars

\* The invariant over every step.
LEMMA TelemetryInvNext ==
  ASSUME TelemetryInv, [Next]_vars
  PROVE  TelemetryInv'
<1>1. CASE ServerNext
  <2>1. UNCHANGED <<items, dropped, stats, collectPc, sendPc, snap, readPc>>
    BY <1>1 DEF ServerNext, Handle, LoseRequest, notServer, bufferVars, collectVars, readVars
  <2>2. QED
    BY <2>1 DEF TelemetryInv, Types, HoldsBatch, Accounts, Flushes, Backlog, LastFlush
<1>2. CASE WriteExposition
  <2>1. /\ UNCHANGED <<items, dropped, stats, collectPc, sendPc>>
        /\ readPc' = 1 /\ snap' = NoSnapshot
    BY <1>2 DEF WriteExposition, bufferVars, collectVars, sendVars
  <2>2. QED
    BY <2>1 DEF TelemetryInv, Types, HoldsBatch, Accounts, Flushes, Backlog, LastFlush, NoSnapshot
<1>3. CASE Rests \/ UNCHANGED vars
  <2>1. UNCHANGED <<items, dropped, stats, collectPc, sendPc, snap, readPc>>
    BY <1>3 DEF Rests, vars, bufferVars, collectVars, sendVars, readVars
  <2>2. QED
    BY <2>1 DEF TelemetryInv, Types, HoldsBatch, Accounts, Flushes, Backlog, LastFlush
<1>4. QED
  BY <1>1, <1>2, <1>3, CollectKeeps, SendKeeps, ReadKeeps DEF Next

\* The accounts of the two loops and of the handler are kept for ever.
THEOREM TelemetryInvHolds == Spec => []TelemetryInv
  BY TelemetryInvInit, TelemetryInvNext, PTL DEF Spec

\* BacklogBounded: in every page, whatever the loops do between the loads, the
\* scrapes that are neither sent nor dropped fit the buffer, give or take two.
THEOREM BacklogStaysBounded == Spec => []BacklogBounded
<1>1. TelemetryInv => BacklogBounded
  BY DEF TelemetryInv, Types, Backlog, BacklogBounded, FieldOrder
<1>2. QED
  BY <1>1, TelemetryInvHolds, PTL

\* FlushKeepsUp: no page shows a last flush older than the last batch but one.
THEOREM FlushIsFresh == Spec => []FlushKeepsUp
<1>1. TelemetryInv => FlushKeepsUp
  BY DEF TelemetryInv, Types, LastFlush, FlushKeepsUp, FieldOrder
<1>2. QED
  BY <1>1, TelemetryInvHolds, PTL

-----------------------------------------------------------------------------
(* Requests and the batches they carry *)

BatchesOf(R) == {r[2] : r \in R}
Repeats(R) == Cardinality(R) - Cardinality(BatchesOf(R))

\* There are no more batches than requests.
LEMMA BatchesOfFinite ==
  ASSUME NEW R, IsFiniteSet(R)
  PROVE  /\ IsFiniteSet(BatchesOf(R)) /\ Cardinality(BatchesOf(R)) \in Nat
         /\ Cardinality(R) \in Nat /\ Cardinality(BatchesOf(R)) <= Cardinality(R)
<1> DEFINE f == [r \in R |-> r[2]]
<1>1. f \in Surjection(R, BatchesOf(R))
  BY DEF BatchesOf, Surjection
<1>2. QED
  BY <1>1, FS_Surjection, FS_CardinalityType

\* Fewer requests repeat no more batches.
LEMMA RepeatsMonotone ==
  ASSUME NEW R, IsFiniteSet(R), NEW S, S \subseteq R
  PROVE  /\ IsFiniteSet(S) /\ BatchesOf(S) \subseteq BatchesOf(R)
         /\ Repeats(S) \in Int /\ Repeats(R) \in Int /\ Repeats(S) <= Repeats(R)
<1> DEFINE D == R \ S
<1>1. /\ IsFiniteSet(S) /\ IsFiniteSet(D)
      /\ S \cap D = {} /\ R = S \cup D
  BY FS_Subset
<1>2. BatchesOf(R) = BatchesOf(S) \cup BatchesOf(D)
  BY DEF BatchesOf
<1> HIDE DEF D
<1>3. Cardinality(R) = Cardinality(S) + Cardinality(D)
  <2>1. /\ Cardinality(S) \in Nat /\ Cardinality(D) \in Nat
        /\ Cardinality(S \cap D) = 0
    BY <1>1, FS_EmptySet, FS_CardinalityType
  <2>2. Cardinality(S \cup D) = Cardinality(S) + Cardinality(D) - Cardinality(S \cap D)
    BY <1>1, FS_Union
  <2>3. QED
    BY <1>1, <2>1, <2>2
<1>4. Cardinality(BatchesOf(R)) <= Cardinality(BatchesOf(S)) + Cardinality(BatchesOf(D))
  <2>1. IsFiniteSet(BatchesOf(S)) /\ IsFiniteSet(BatchesOf(D))
    BY <1>1, BatchesOfFinite
  <2>2. Cardinality(BatchesOf(R)) = Cardinality(BatchesOf(S)) + Cardinality(BatchesOf(D))
          - Cardinality(BatchesOf(S) \cap BatchesOf(D))
    BY <1>2, <2>1, FS_Union
  <2>3. Cardinality(BatchesOf(S) \cap BatchesOf(D)) \in Nat
    BY <2>1, FS_Intersection, FS_CardinalityType
  <2>4. QED
    BY <1>1, <2>2, <2>3, BatchesOfFinite
<1>5. /\ Cardinality(S) \in Nat /\ Cardinality(BatchesOf(S)) \in Nat
      /\ Cardinality(D) \in Nat /\ Cardinality(BatchesOf(D)) \in Nat
      /\ Cardinality(R) \in Nat /\ Cardinality(BatchesOf(R)) \in Nat
      /\ Cardinality(BatchesOf(D)) <= Cardinality(D)
  BY <1>1, BatchesOfFinite
<1>6. QED
  <2>1. Repeats(S) \in Int /\ Repeats(R) \in Int /\ Repeats(S) <= Repeats(R)
    BY <1>3, <1>4, <1>5 DEF Repeats
  <2>2. BatchesOf(S) \subseteq BatchesOf(R)
    BY <1>2
  <2>3. QED
    BY <1>1, <2>1, <2>2

\* One more request repeats a batch at most once more, a new batch not at all.
LEMMA RepeatsAdd ==
  ASSUME NEW R, IsFiniteSet(R), NEW a, NEW b, <<a, b>> \notin R
  PROVE  /\ IsFiniteSet(R \cup {<<a, b>>})
         /\ BatchesOf(R \cup {<<a, b>>}) = BatchesOf(R) \cup {b}
         /\ Repeats(R \cup {<<a, b>>})
              = IF b \in BatchesOf(R) THEN Repeats(R) + 1 ELSE Repeats(R)
<1>1. BatchesOf(R \cup {<<a, b>>}) = BatchesOf(R) \cup {b}
  BY DEF BatchesOf
<1>2. /\ IsFiniteSet(R \cup {<<a, b>>})
      /\ Cardinality(R \cup {<<a, b>>}) = Cardinality(R) + 1
  BY FS_AddElement
<1>3. Cardinality(BatchesOf(R) \cup {b}) =
        IF b \in BatchesOf(R) THEN Cardinality(BatchesOf(R)) ELSE Cardinality(BatchesOf(R)) + 1
  BY BatchesOfFinite, FS_AddElement
<1>4. Cardinality(R) \in Nat /\ Cardinality(BatchesOf(R)) \in Nat
  BY BatchesOfFinite
<1> DEFINE Q == R \cup {<<a, b>>}
<1>5. Cardinality(Q) = Cardinality(R) + 1 /\ BatchesOf(Q) = BatchesOf(R) \cup {b}
  BY <1>1, <1>2
<1> HIDE DEF Q
<1>6. Repeats(Q) = IF b \in BatchesOf(R) THEN Repeats(R) + 1 ELSE Repeats(R)
  BY <1>3, <1>4, <1>5 DEF Repeats
<1>7. QED
  BY <1>1, <1>2, <1>6 DEF Q

-----------------------------------------------------------------------------
(* The order of the batches *)

\* Every queued batch is newer than the one in flight, or is it.
Increasing == \A i, j \in 1..Len(items) : i < j => items[i] < items[j]
NotPast == \A i \in 1..Len(items) : inflight <= items[i] /\ items[i] <= stats.ok
Fresh == \A i \in 1..Len(items) : inflight < items[i]

OrderInv ==
  /\ Increasing /\ NotPast
  /\ inflight \in Nat /\ inflight <= stats.ok
  /\ collectPc = "push" => /\ inflight < stats.ok
                           /\ \A i \in 1..Len(items) : items[i] < stats.ok
  /\ sendPc \in {"count", "flush"} => Fresh

\* A push moves what is queued towards the head and adds the newest batch.
LEMMA PushedItems ==
  ASSUME TelemetryInv, PushLocked(stats.ok)
  PROVE  \E k \in {0, 1} :
           /\ Len(items') = Len(items) - k + 1 /\ Len(items) - k \in Nat
           /\ \A i \in 1..(Len(items) - k) : items'[i] = items[i + k]
           /\ items'[Len(items')] = stats.ok
<1>1. stats.ok \in Nat /\ items \in Seq(Nat) /\ Len(items) \in Nat
  BY Numbers DEF TelemetryInv, Types
<1>2. CASE IsFull
  <2>1. items # <<>>
    BY <1>1, <1>2, EmptySeq DEF IsFull
  <2>2. /\ Tail(items) \in Seq(Nat) /\ Len(Tail(items)) = Len(items) - 1
        /\ \A i \in 1..Len(Tail(items)) : Tail(items)[i] = items[i + 1]
    BY <1>1, <2>1, HeadTailProperties
  <2>3. items' = Append(Tail(items), stats.ok)
    BY <1>2 DEF PushLocked
  <2>4. Len(items') = Len(Tail(items)) + 1 /\ items'[Len(items')] = stats.ok
        /\ \A i \in 1..Len(Tail(items)) : items'[i] = Tail(items)[i]
    BY <1>1, <2>2, <2>3, AppendProperties
  <2>5. Len(Tail(items)) \in Nat
    BY <2>2
  <2>6. /\ Len(items') = Len(items) - 1 + 1 /\ Len(items) - 1 \in Nat
        /\ \A i \in 1..(Len(items) - 1) : items'[i] = items[i + 1]
        /\ items'[Len(items')] = stats.ok
    BY <1>1, <2>2, <2>4, <2>5
  <2>7. QED
    BY <2>6
<1>3. CASE ~IsFull
  <2>1. items' = Append(items, stats.ok)
    BY <1>3 DEF PushLocked
  <2>2. Len(items') = Len(items) + 1 /\ items'[Len(items')] = stats.ok
        /\ \A i \in 1..Len(items) : items'[i] = items[i]
    BY <1>1, <2>1, AppendProperties
  <2>3. QED
    BY <1>1, <2>2
<1>4. QED
  BY <1>2, <1>3

\* The collect loop adds what is newer than anything it has added.
LEMMA CollectKeepsOrder ==
  ASSUME TelemetryInv, OrderInv, CollectNext
  PROVE  OrderInv' /\ (Fresh => Fresh')
<1> USE DEF OrderInv, Increasing, NotPast, Fresh, notCollect, sendVars
<1>1. items \in Seq(Nat) /\ Len(items) \in Nat /\ stats.ok \in Nat
      /\ \A i \in 1..Len(items) : items[i] \in Nat
  <2>1. items \in Seq(Nat)
    BY DEF TelemetryInv, Types
  <2>2. QED
    BY <2>1, Numbers
<1>2. CASE CountOK
  <2>1. /\ UNCHANGED <<items, inflight, sendPc>> /\ collectPc' = "push"
        /\ stats'.ok = stats.ok + 1
    BY <1>2 DEF CountOK, Add, bufferVars, TelemetryInv, Types, Counters, Fields
  <2>2. QED
    BY <1>1, <2>1
<1>3. CASE PushBatch
  <2>1. /\ PushLocked(stats.ok)
        /\ UNCHANGED <<stats, inflight, sendPc>> /\ collectPc = "push" /\ collectPc' = "signal"
    BY <1>3 DEF PushBatch
  <2>2. PICK k \in {0, 1} :
          /\ Len(items') = Len(items) - k + 1 /\ Len(items) - k \in Nat
          /\ \A i \in 1..(Len(items) - k) : items'[i] = items[i + k]
          /\ items'[Len(items')] = stats.ok
    BY <2>1, PushedItems
  <2> DEFINE n == Len(items) - k
  <2>3. n \in Nat /\ Len(items') = n + 1 /\ items'[n + 1] = stats.ok
        /\ \A i \in 1..n : items'[i] = items[i + k] /\ i + k \in 1..Len(items)
    BY <1>1, <2>2
  <2> HIDE DEF n
  <2>4. \A i \in 1..Len(items') : i \in 1..n \/ i = n + 1
    BY <2>3
  <2>5. Increasing'
    <3> SUFFICES ASSUME NEW i \in 1..Len(items'), NEW j \in 1..Len(items'), i < j
                 PROVE  items'[i] < items'[j]
      OBVIOUS
    <3>1. i \in 1..n
      BY <2>3
    <3>2. items'[i] = items[i + k] /\ i + k \in 1..Len(items) /\ items[i + k] < stats.ok
      BY <2>1, <2>3, <3>1
    <3>3. CASE j = n + 1
      BY <2>3, <3>2, <3>3
    <3>4. CASE j \in 1..n
      <4>1. items'[j] = items[j + k] /\ j + k \in 1..Len(items) /\ i + k < j + k
        BY <2>3, <3>4
      <4>2. QED
        BY <3>2, <4>1
    <3>5. QED
      BY <2>4, <3>3, <3>4
  <2>6. \A i \in 1..Len(items') : items'[i] <= stats.ok /\ inflight <= items'[i]
    <3> TAKE i \in 1..Len(items')
    <3>1. CASE i \in 1..n
      <4>1. items'[i] = items[i + k] /\ i + k \in 1..Len(items)
        BY <2>3, <3>1
      <4>2. QED
        BY <4>1
    <3>2. CASE i = n + 1
      BY <1>1, <2>3, <3>2
    <3>3. QED
      BY <2>4, <3>1, <3>2
  <2>7. Fresh => \A i \in 1..Len(items') : inflight < items'[i]
    BY <1>1, <2>1, <2>3, <2>4
  <2>8. QED
    BY <2>1, <2>5, <2>6, <2>7
<1>4. CASE ~CountOK /\ ~PushBatch
  <2>1. /\ UNCHANGED <<items, inflight, sendPc>>
        /\ stats'.ok = stats.ok /\ collectPc' # "push"
    BY <1>4 DEF CollectNext, RunRegistry, CountPartial, CountEmpty, SignalPush, SignalNotify, Add,
      bufferVars, TelemetryInv, Types, Counters, Fields
  <2>2. QED
    BY <2>1
<1>5. QED
  BY <1>2, <1>3, <1>4

\* The send loop takes the oldest batch up and removes the head, which is that
\* batch or, if it has been evicted, a newer one.
LEMMA SendKeepsOrder ==
  ASSUME TelemetryInv, OrderInv, SendNext
  PROVE  OrderInv'
<1> USE DEF OrderInv, Increasing, NotPast, Fresh, notSend, collectVars
<1>1. items \in Seq(Nat) /\ Len(items) \in Nat /\ stats.ok \in Nat
      /\ \A i \in 1..Len(items) : items[i] \in Nat
  <2>1. items \in Seq(Nat)
    BY DEF TelemetryInv, Types
  <2>2. QED
    BY <2>1, Numbers
<1>2. CASE PeekHead
  <2>1. UNCHANGED <<items, stats, collectPc>> /\ sendPc' \in {"post", "idle"}
    BY <1>2 DEF PeekHead, bufferVars
  <2>2. CASE HasBatch
    <3>1. 1 \in 1..Len(items) /\ inflight' = items[1]
      BY <1>1, <1>2, <2>2, EmptySeq DEF PeekHead, HasBatch, PeekBatch
    <3>2. \A i \in 1..Len(items) : items[1] <= items[i]
      <4> TAKE i \in 1..Len(items)
      <4>1. CASE i = 1
        BY <1>1, <4>1
      <4>2. CASE 1 < i
        BY <1>1, <3>1, <4>2
      <4>3. QED
        BY <4>1, <4>2
    <3>3. QED
      BY <1>1, <2>1, <3>1, <3>2
  <2>3. CASE ~HasBatch
    <3>1. inflight' = inflight
      BY <1>2, <2>3 DEF PeekHead
    <3>2. QED
      BY <2>1, <3>1
  <2>4. QED
    BY <2>2, <2>3
<1>3. CASE PopSent
  <2>1. UNCHANGED <<stats, collectPc, inflight>> /\ items # <<>> /\ items' = Tail(items)
    BY <1>3 DEF PopSent, PopHead, HasBatch, TelemetryInv, HoldsBatch
  <2>2. /\ Len(items') = Len(items) - 1 /\ Len(items) >= 1
        /\ \A i \in 1..Len(items') : items'[i] = items[i + 1] /\ i + 1 \in 1..Len(items)
    BY <1>1, <2>1, HeadTailProperties, EmptySeq
  <2>3. \A i \in 1..Len(items') : inflight < items'[i]
    <3> TAKE i \in 1..Len(items')
    <3>1. inflight <= items[1] /\ items[1] < items[i + 1]
      BY <1>1, <2>2
    <3>2. QED
      BY <1>1, <2>2, <3>1
  <2>4. Increasing'
    <3> SUFFICES ASSUME NEW i \in 1..Len(items'), NEW j \in 1..Len(items'), i < j
                 PROVE  items'[i] < items'[j]
      OBVIOUS
    <3>1. items'[i] = items[i + 1] /\ i + 1 \in 1..Len(items)
          /\ items'[j] = items[j + 1] /\ j + 1 \in 1..Len(items) /\ i + 1 < j + 1
      BY <1>1, <2>2
    <3>2. QED
      BY <3>1
  <2>5. QED
    BY <1>1, <2>1, <2>2, <2>3, <2>4
<1>4. CASE CountFailed \/ CountSent \/ StoreLastFlush
  <2>1. UNCHANGED <<items, collectPc, inflight>> /\ stats'.ok = stats.ok
    BY <1>4 DEF CountFailed, CountSent, StoreLastFlush, Add, bufferVars, TelemetryInv, Types,
      Counters, Fields
  <2>2. sendPc' \in {"count", "flush"} => sendPc \in {"count", "flush"}
    BY <1>4 DEF CountFailed, CountSent, StoreLastFlush
  <2>3. QED
    BY <2>1, <2>2
<1>5. CASE IdleNotified \/ Post \/ SendReturns \/ SendTimesOut
  <2>1. UNCHANGED <<items, collectPc, inflight, stats>> /\ sendPc' \notin {"count", "flush"}
    BY <1>5 DEF IdleNotified, TakeNotify, Post, SendReturns, SendTimesOut, bufferVars
  <2>2. QED
    BY <2>1
<1>6. QED
  BY <1>2, <1>3, <1>4, <1>5 DEF SendNext

-----------------------------------------------------------------------------
(* What the server may hold twice *)

Requests == network \cup stored

\* Each request has a number of its own and carries no batch newer than the one
\* in flight.
RequestsInv ==
  /\ attempts \in Nat
  /\ IsFiniteSet(network) /\ IsFiniteSet(stored)
  /\ \A r \in Requests : \E a \in 1..attempts, b \in 0..inflight : r = <<a, b>>

\* A batch is about to be requested again only when a failure to send it has
\* been counted that no earlier repetition accounts for.
RepeatsInv ==
  /\ Repeats(Requests) <= stats.failed
  /\ sendPc \in {"peek", "idle"} => Repeats(Requests) + 1 <= stats.failed \/ Fresh
  /\ sendPc = "post" =>
       Repeats(Requests) + 1 <= stats.failed \/ inflight \notin BatchesOf(Requests)

DeliveryInv == OrderInv /\ RequestsInv /\ RepeatsInv

LEMMA DeliveryInvInit == Init => DeliveryInv
<1> SUFFICES ASSUME Init PROVE DeliveryInv
  OBVIOUS
<1>1. items = <<>> /\ inflight = 0 /\ stats = [f \in Counters |-> 0] /\ attempts = 0
      /\ network = {} /\ stored = {} /\ sendPc = "peek" /\ collectPc = "scrape"
  BY DEF Init, BufferInit
<1>2. OrderInv
  BY <1>1, EmptySeq DEF OrderInv, Increasing, NotPast, Fresh, Counters, Fields
<1>3. Fresh
  BY <1>1 DEF Fresh
<1>4. RequestsInv
  BY <1>1, FS_EmptySet DEF RequestsInv, Requests
<1>5. Repeats(Requests) = 0 /\ stats.failed = 0
  <2>1. Requests = {} /\ BatchesOf(Requests) = {}
    BY <1>1 DEF Requests, BatchesOf
  <2>2. QED
    BY <1>1, <2>1, FS_EmptySet DEF Repeats, Counters, Fields
<1>6. QED
  BY <1>1, <1>2, <1>3, <1>4, <1>5 DEF DeliveryInv, RepeatsInv

\* The requests there are can be counted.
LEMMA RequestNumbers ==
  ASSUME DeliveryInv
  PROVE  IsFiniteSet(Requests) /\ Repeats(Requests) \in Int
<1>1. IsFiniteSet(Requests)
  BY FS_Union DEF DeliveryInv, RequestsInv, Requests
<1>2. QED
  BY <1>1, RepeatsMonotone

\* Whatever leaves the requests and the sender's place alone keeps the repeats.
LEMMA RepeatsUndisturbed ==
  ASSUME DeliveryInv, Requests' \subseteq Requests, UNCHANGED <<sendPc, inflight>>,
         stats'.failed = stats.failed, Fresh => Fresh', stats.failed \in Nat
  PROVE  RepeatsInv'
<1>1. /\ BatchesOf(Requests') \subseteq BatchesOf(Requests)
      /\ Repeats(Requests') \in Int /\ Repeats(Requests) \in Int
      /\ Repeats(Requests') <= Repeats(Requests)
  BY RequestNumbers, RepeatsMonotone
<1>2. QED
  BY <1>1 DEF DeliveryInv, RepeatsInv

\* A server that answers, late or in time, stores only what was requested.
LEMMA ServerKeepsDelivery ==
  ASSUME TelemetryInv, DeliveryInv, ServerNext
  PROVE  DeliveryInv'
<1>1. PICK request \in network :
        /\ network' = network \ {request}
        /\ stored' = stored \/ stored' = stored \cup {request}
  BY DEF ServerNext, Handle, LoseRequest
<1>2. UNCHANGED <<items, dropped, stats, collectPc, sendPc, inflight, attempts>>
  BY DEF ServerNext, Handle, LoseRequest, notServer, bufferVars, collectVars
<1>3. Requests' \subseteq Requests
  BY <1>1 DEF Requests
<1>4. IsFiniteSet(network') /\ IsFiniteSet(stored')
  BY <1>1, FS_RemoveElement, FS_AddElement DEF DeliveryInv, RequestsInv
<1>5. RequestsInv'
  BY <1>2, <1>3, <1>4 DEF DeliveryInv, RequestsInv
<1>6. OrderInv' /\ (Fresh => Fresh')
  BY <1>2 DEF DeliveryInv, OrderInv, Increasing, NotPast, Fresh
<1>7. stats.failed \in Nat
  BY DEF TelemetryInv, Types, Counters, Fields
<1>8. RepeatsInv'
  BY <1>2, <1>3, <1>6, <1>7, RepeatsUndisturbed
<1>9. QED
  BY <1>5, <1>6, <1>8 DEF DeliveryInv

\* The collect loop makes no requests.
LEMMA CollectKeepsDelivery ==
  ASSUME TelemetryInv, DeliveryInv, CollectNext
  PROVE  DeliveryInv'
<1>1. UNCHANGED <<network, stored, attempts, sendPc, inflight>>
  BY DEF CollectNext, RunRegistry, CountPartial, CountEmpty, CountOK, PushBatch, SignalPush,
    notCollect, sendVars, serverVars
<1>2. stats.failed \in Nat /\ stats'.failed = stats.failed
  BY DEF CollectNext, RunRegistry, CountPartial, CountEmpty, CountOK, PushBatch, SignalPush, Add,
    TelemetryInv, Types, Counters, Fields
<1>3. OrderInv' /\ (Fresh => Fresh')
  BY CollectKeepsOrder DEF DeliveryInv
<1>4. Requests' = Requests
  BY <1>1 DEF Requests
<1>5. RepeatsInv'
  BY <1>1, <1>2, <1>3, <1>4, RepeatsUndisturbed
<1>6. RequestsInv'
  BY <1>1, <1>4 DEF DeliveryInv, RequestsInv
<1>7. QED
  BY <1>3, <1>5, <1>6 DEF DeliveryInv

\* The send loop requests the batch in flight again only after it has counted a
\* failure to send it.
LEMMA SendKeepsDelivery ==
  ASSUME TelemetryInv, DeliveryInv, SendNext
  PROVE  DeliveryInv'
<1>1. OrderInv'
  BY SendKeepsOrder DEF DeliveryInv
<1>2. /\ IsFiniteSet(Requests) /\ Repeats(Requests) \in Int
      /\ stats.failed \in Nat /\ inflight \in Nat /\ attempts \in Nat
  BY RequestNumbers DEF DeliveryInv, RequestsInv, OrderInv, TelemetryInv, Types, Counters, Fields
<1>3. \A b \in BatchesOf(Requests) : b \in 0..inflight
  BY DEF DeliveryInv, RequestsInv, BatchesOf
<1>4. CASE Post
  <2>1. /\ sendPc = "post" /\ sendPc' = "await" /\ attempts' = attempts + 1
        /\ network' = network \cup {<<attempts + 1, inflight>>}
        /\ UNCHANGED <<stored, inflight, stats>>
    BY <1>4 DEF Post
  <2>2. Requests' = Requests \cup {<<attempts + 1, inflight>>}
    BY <2>1 DEF Requests
  <2>3. <<attempts + 1, inflight>> \notin Requests
    BY <1>2 DEF DeliveryInv, RequestsInv
  <2>4. Repeats(Requests') = IF inflight \in BatchesOf(Requests) THEN Repeats(Requests) + 1
                             ELSE Repeats(Requests)
    BY <1>2, <2>2, <2>3, RepeatsAdd
  <2>5. Repeats(Requests') <= stats.failed
    BY <1>2, <2>1, <2>4 DEF DeliveryInv, RepeatsInv
  <2>6. RepeatsInv'
    BY <2>1, <2>5 DEF RepeatsInv
  <2>7. RequestsInv'
    <3>1. IsFiniteSet(network')
      BY <2>1, FS_AddElement DEF DeliveryInv, RequestsInv
    <3>2. \A r \in Requests' : \E a \in 1..attempts', b \in 0..inflight' : r = <<a, b>>
      <4> TAKE r \in Requests'
      <4>1. CASE r \in Requests
        <5>1. PICK a \in 1..attempts, b \in 0..inflight : r = <<a, b>>
          BY <4>1 DEF DeliveryInv, RequestsInv
        <5>2. a \in 1..attempts' /\ b \in 0..inflight'
          BY <1>2, <2>1
        <5>3. QED
          BY <5>1, <5>2
      <4>2. CASE r = <<attempts + 1, inflight>>
        <5>1. attempts + 1 \in 1..attempts' /\ inflight \in 0..inflight'
          BY <1>2, <2>1
        <5>2. QED
          BY <4>2, <5>1
      <4>3. QED
        BY <2>2, <4>1, <4>2
    <3>3. QED
      BY <1>2, <2>1, <3>1, <3>2 DEF DeliveryInv, RequestsInv
  <2>8. QED
    BY <1>1, <2>6, <2>7 DEF DeliveryInv
<1>5. CASE PeekHead
  <2>1. /\ sendPc = "peek" /\ UNCHANGED <<network, stored, attempts, stats, items>>
        /\ IF HasBatch THEN sendPc' = "post" /\ inflight' = PeekBatch
                       ELSE sendPc' = "idle" /\ inflight' = inflight
    BY <1>5 DEF PeekHead, serverVars, bufferVars
  <2>2. Requests' = Requests
    BY <2>1 DEF Requests
  <2>3. CASE ~HasBatch
    <3>1. RepeatsInv'
      BY <2>1, <2>2, <2>3 DEF DeliveryInv, RepeatsInv, Fresh
    <3>2. RequestsInv'
      BY <2>1, <2>2, <2>3 DEF DeliveryInv, RequestsInv
    <3>3. QED
      BY <1>1, <3>1, <3>2 DEF DeliveryInv
  <2>4. CASE HasBatch
    <3>1. 1 \in 1..Len(items) /\ inflight' = items[1] /\ sendPc' = "post"
      BY <2>1, <2>4, EmptySeq DEF HasBatch, PeekBatch, TelemetryInv, Types
    <3>2. inflight' \in Nat /\ inflight <= inflight' /\ (Fresh => inflight < inflight')
      BY <3>1 DEF DeliveryInv, OrderInv, NotPast, Fresh, TelemetryInv, Types
    <3>3. Fresh => inflight' \notin BatchesOf(Requests)
      BY <1>2, <1>3, <3>2
    <3>4. RepeatsInv'
      BY <2>1, <2>2, <3>1, <3>3 DEF DeliveryInv, RepeatsInv
    <3>5. 0..inflight \subseteq 0..inflight'
      BY <1>2, <3>2
    <3>6. RequestsInv'
      BY <2>1, <2>2, <3>5 DEF DeliveryInv, RequestsInv
    <3>7. QED
      BY <1>1, <3>4, <3>6 DEF DeliveryInv
  <2>5. QED
    BY <2>3, <2>4
<1>6. CASE ~Post /\ ~PeekHead
  <2>1. UNCHANGED <<network, stored, attempts, inflight>>
    BY <1>6 DEF SendNext, IdleNotified, SendReturns, SendTimesOut, CountFailed, PopSent, CountSent,
      StoreLastFlush, serverVars
  <2>2. Requests' = Requests
    BY <2>1 DEF Requests
  <2>3. RequestsInv'
    BY <2>1, <2>2 DEF DeliveryInv, RequestsInv
  <2>4. RepeatsInv'
    <3>1. CASE IdleNotified
      <4>1. sendPc = "idle" /\ sendPc' = "peek" /\ UNCHANGED <<items, stats>>
        BY <3>1 DEF IdleNotified, TakeNotify
      <4>2. QED
        BY <2>1, <2>2, <4>1 DEF DeliveryInv, RepeatsInv, Fresh
    <3>2. CASE CountFailed
      <4>1. sendPc' = "peek" /\ stats'.failed = stats.failed + 1
        BY <3>2 DEF CountFailed, Add, TelemetryInv, Types, Counters, Fields
      <4>2. QED
        BY <1>2, <2>1, <2>2, <4>1 DEF DeliveryInv, RepeatsInv
    <3>3. CASE StoreLastFlush
      <4>1. sendPc = "flush" /\ sendPc' = "peek" /\ UNCHANGED items
            /\ stats'.failed = stats.failed
        BY <3>3 DEF StoreLastFlush, bufferVars, TelemetryInv, Types, Counters, Fields
      <4>2. Fresh'
        BY <2>1, <4>1 DEF DeliveryInv, OrderInv, Fresh
      <4>3. QED
        BY <2>1, <2>2, <4>1, <4>2 DEF DeliveryInv, RepeatsInv
    <3>4. CASE SendReturns \/ SendTimesOut \/ PopSent \/ CountSent
      <4>1. sendPc' \notin {"peek", "idle", "post"} /\ stats'.failed = stats.failed
        BY <3>4 DEF SendReturns, SendTimesOut, PopSent, CountSent, Add, TelemetryInv, Types,
          Counters, Fields
      <4>2. QED
        BY <2>1, <2>2, <4>1 DEF DeliveryInv, RepeatsInv
    <3>5. QED
      BY <1>6, <3>1, <3>2, <3>3, <3>4 DEF SendNext
  <2>5. QED
    BY <1>1, <2>3, <2>4 DEF DeliveryInv
<1>7. QED
  BY <1>4, <1>5, <1>6

LEMMA DeliveryInvStep == TelemetryInv /\ DeliveryInv /\ [Next]_vars => DeliveryInv'
<1> SUFFICES ASSUME TelemetryInv, DeliveryInv, [Next]_vars PROVE DeliveryInv'
  OBVIOUS
<1>1. CASE ReadField \/ WriteExposition \/ Rests \/ UNCHANGED vars
  <2>1. UNCHANGED <<items, stats, collectPc, sendPc, inflight, attempts, network, stored>>
    BY <1>1 DEF ReadField, WriteExposition, Rests, vars, bufferVars, collectVars, sendVars,
      serverVars
  <2>2. QED
    BY <2>1 DEF DeliveryInv, OrderInv, Increasing, NotPast, Fresh, RequestsInv, RepeatsInv,
      Requests, Repeats, BatchesOf
<1>2. QED
  BY <1>1, CollectKeepsDelivery, SendKeepsDelivery, ServerKeepsDelivery DEF Next

\* The accounts of the requests are kept whatever the network loses or delays.
THEOREM DeliveryInvHolds == Spec => []DeliveryInv
  BY TelemetryInvHolds, DeliveryInvInit, DeliveryInvStep, PTL DEF Spec

\* DuplicatesAreFailures: the server holds no more copies beyond the first of a
\* batch than batches_failed counts.
THEOREM DuplicatesAreCounted == Spec => []DuplicatesAreFailures
<1>1. TelemetryInv /\ DeliveryInv => DuplicatesAreFailures
  <2> SUFFICES ASSUME TelemetryInv, DeliveryInv PROVE DuplicatesAreFailures
    OBVIOUS
  <2>1. stored \subseteq Requests /\ IsFiniteSet(Requests)
    BY RequestNumbers DEF Requests
  <2>2. Repeats(stored) \in Int /\ Repeats(Requests) \in Int
        /\ Repeats(stored) <= Repeats(Requests)
    BY <2>1, RepeatsMonotone
  <2>3. Repeats(Requests) <= stats.failed /\ stats.failed \in Nat
    BY DEF DeliveryInv, RepeatsInv, TelemetryInv, Types, Counters, Fields
  <2>4. Repeats(stored) <= stats.failed
    BY <2>2, <2>3
  <2>5. QED
    BY <2>4 DEF DuplicatesAreFailures, StoredBatches, Repeats, BatchesOf
<1>2. QED
  BY <1>1, TelemetryInvHolds, DeliveryInvHolds, PTL
=============================================================================
