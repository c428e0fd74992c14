--------------------------- MODULE StripIoProofs ----------------------------
(***************************************************************************)
(* Proofs about IoSplit and StripIo, for any layout, request and           *)
(* scatter-gather list: the loop that cuts a request into strips never     *)
(* runs short of data and puts every block where the closed form of        *)
(* Raid5Layout says; reads, recovered ones included, bring every byte to   *)
(* its place in memory; writes bring every byte to its place on the disks  *)
(* and leave the parity right.                                             *)
(*                                                                         *)
(* The loops of the model are recursive functions; each is shown to have a *)
(* solution, and an induction over its steps (SetInduction) says what it   *)
(* computes.                                                               *)
(***************************************************************************)
EXTENDS StripIo, CommonFacts

-----------------------------------------------------------------------------
(* Sums                                                                    *)

\* What SumTo does with element i of f, the elements before it done.
SumStep(f, sum, i) == IF i = 0 THEN 0 ELSE sum[i - 1] + f[i]

\* The function that SumTo builds.
SumFcn(f, k) == CHOOSE sum : sum = [i \in 0..k |-> SumStep(f, sum, i)]

LEMMA SumIs ==
  ASSUME NEW f, NEW k
  PROVE  SumTo(f, k) = SumFcn(f, k)[k]
BY DEF SumTo, SumFcn, SumStep

\* The recursion of SumTo has a solution.
LEMMA SumDefined ==
  ASSUME NEW f, NEW k \in Nat
  PROVE  /\ SumFcn(f, k)[0] = 0
         /\ \A i \in 1..k : SumFcn(f, k)[i] = SumFcn(f, k)[i - 1] + f[i]
<1> DEFINE D == {n \in Nat : \E s : s = [i \in 0..n |-> SumStep(f, s, i)]}
<1>1. 0 \in D
  <2> DEFINE s == [i \in {0} |-> 0]
  <2>1. s = [i \in 0..0 |-> SumStep(f, s, i)]
    BY DEF SumStep
  <2> QED  BY <2>1
<1>2. ASSUME NEW n \in Nat, n \in D PROVE n + 1 \in D
  <2>1. PICK s : s = [i \in 0..n |-> SumStep(f, s, i)]
    BY <1>2
  <2> DEFINE g == [i \in 0..(n + 1) |-> SumStep(f, s, i)]
  <2>2. \A i \in 0..n : g[i] = s[i]
    BY <2>1
  <2>3. ASSUME NEW i \in 0..(n + 1) PROVE SumStep(f, s, i) = SumStep(f, g, i)
    <3>1. i # 0 => i - 1 \in 0..n  OBVIOUS
    <3> HIDE DEF g
    <3> QED  BY <2>2, <3>1 DEF SumStep
  <2>4. g = [i \in 0..(n + 1) |-> SumStep(f, g, i)]
    BY <2>3
  <2> HIDE DEF g
  <2>5. \E h : h = [i \in 0..(n + 1) |-> SumStep(f, h, i)]
    BY <2>4
  <2> QED  BY <2>5
<1>3. k \in D
  <2> HIDE DEF D
  <2> QED  BY <1>1, <1>2, SetInduction
<1>4. \E s : s = [i \in 0..k |-> SumStep(f, s, i)]
  BY <1>3
<1> DEFINE s == SumFcn(f, k)
<1>5. s = [i \in 0..k |-> SumStep(f, s, i)]
  BY <1>4 DEF SumFcn
<1> HIDE DEF s
<1>6. \A i \in 0..k : s[i] = SumStep(f, s, i)
  BY <1>5
<1> QED  BY <1>6 DEF SumStep, s

\* A sum of k elements begins like that of any two functions that agree there.
LEMMA SumAgree ==
  ASSUME NEW f, NEW g, NEW k \in Nat, NEW l \in Nat, NEW m \in Nat,
         m <= k, m <= l, \A i \in 1..m : f[i] = g[i]
  PROVE  SumFcn(f, k)[m] = SumFcn(g, l)[m]
<1> DEFINE u == SumFcn(f, k)
           v == SumFcn(g, l)
           D == {i \in Nat : i <= m => u[i] = v[i]}
<1>1. /\ u[0] = 0 /\ v[0] = 0
      /\ \A i \in 1..k : u[i] = u[i - 1] + f[i]
      /\ \A i \in 1..l : v[i] = v[i - 1] + g[i]
  BY SumDefined
<1> HIDE DEF u, v
<1>2. 0 \in D  BY <1>1
<1>3. ASSUME NEW n \in Nat, n \in D PROVE n + 1 \in D
  <2> SUFFICES ASSUME n + 1 <= m PROVE u[n + 1] = v[n + 1]
    OBVIOUS
  <2>1. /\ n + 1 \in 1..k /\ n + 1 \in 1..l /\ n + 1 \in 1..m
        /\ n <= m /\ n + 1 - 1 = n
    OBVIOUS
  <2>2. u[n] = v[n] /\ f[n + 1] = g[n + 1]  BY <1>3, <2>1
  <2> QED  BY <1>1, <2>1, <2>2
<1>4. Nat \subseteq D
  <2> HIDE DEF D
  <2> QED  BY <1>2, <1>3, SetInduction
<1> QED  BY <1>4 DEF u, v

\* A sum grows by its last element, and depends on its elements only.
LEMMA SumFacts ==
  ASSUME NEW f, NEW k \in Nat
  PROVE  /\ SumTo(f, 0) = 0
         /\ SumTo(f, k + 1) = SumTo(f, k) + f[k + 1]
         /\ \A g : (\A i \in 1..k : f[i] = g[i]) => SumTo(g, k) = SumTo(f, k)
<1>1. SumTo(f, 0) = 0  BY SumIs, SumDefined
<1>2. SumTo(f, k + 1) = SumTo(f, k) + f[k + 1]
  <2>1. k + 1 \in 1..(k + 1) /\ k + 1 - 1 = k /\ k + 1 \in Nat
    OBVIOUS
  <2>2. SumFcn(f, k + 1)[k + 1] = SumFcn(f, k + 1)[k] + f[k + 1]
    BY <2>1, SumDefined
  <2>3. SumFcn(f, k + 1)[k] = SumFcn(f, k)[k]
    BY <2>1, SumAgree
  <2> QED  BY <2>2, <2>3, SumIs
<1>3. ASSUME NEW g, \A i \in 1..k : f[i] = g[i]
      PROVE  SumTo(g, k) = SumTo(f, k)
  <2>1. SumFcn(f, k)[k] = SumFcn(g, k)[k]
    BY ONLY <1>3, k \in Nat, SumAgree
  <2> QED  BY <2>1, SumIs
<1> QED  BY <1>1, <1>2, <1>3

\* A sum of natural numbers is one, and no smaller than what it begins with.
LEMMA SumNat ==
  ASSUME NEW k \in Nat, NEW f, \A i \in 1..k : f[i] \in Nat
  PROVE  \A m \in 0..k : SumTo(f, m) \in Nat
<1> DEFINE D == {m \in Nat : m <= k => SumTo(f, m) \in Nat}
<1>1. 0 \in D  BY SumFacts
<1>2. ASSUME NEW m \in Nat, m \in D PROVE m + 1 \in D
  <2> SUFFICES ASSUME m + 1 <= k PROVE SumTo(f, m + 1) \in Nat
    OBVIOUS
  <2>1. SumTo(f, m) \in Nat /\ f[m + 1] \in Nat  BY <1>2
  <2>2. SumTo(f, m + 1) = SumTo(f, m) + f[m + 1]  BY SumFacts
  <2> QED  BY <2>1, <2>2
<1>3. Nat \subseteq D
  <2> HIDE DEF D
  <2> QED  BY <1>1, <1>2, SetInduction
<1> QED  BY <1>3

\* A sum never shrinks.
LEMMA SumMono ==
  ASSUME NEW k \in Nat, NEW f, \A i \in 1..k : f[i] \in Nat
  PROVE  \A a, b \in 0..k : a <= b => SumTo(f, a) <= SumTo(f, b)
<1>1. \A m \in 0..k : SumTo(f, m) \in Nat  BY SumNat
<1> SUFFICES ASSUME NEW a \in 0..k
             PROVE  \A b \in 0..k : a <= b => SumTo(f, a) <= SumTo(f, b)
  OBVIOUS
<1> DEFINE D == {m \in Nat : a + m <= k => SumTo(f, a) <= SumTo(f, a + m)}
<1>2. 0 \in D  BY <1>1
<1>3. ASSUME NEW m \in Nat, m \in D PROVE m + 1 \in D
  <2> SUFFICES ASSUME a + (m + 1) <= k
               PROVE  SumTo(f, a) <= SumTo(f, a + (m + 1))
    OBVIOUS
  <2>1. /\ a + m \in Nat /\ a + m \in 0..k /\ a + (m + 1) = a + m + 1
        /\ a + m + 1 \in 1..k
    OBVIOUS
  <2>2. SumTo(f, a) <= SumTo(f, a + m)  BY <1>3, <2>1
  <2>3. SumTo(f, a + m + 1) = SumTo(f, a + m) + f[a + m + 1]
    BY <2>1, SumFacts
  <2>4. SumTo(f, a) \in Nat /\ SumTo(f, a + m) \in Nat /\ f[a + m + 1] \in Nat
    BY <1>1, <2>1
  <2> QED  BY ONLY <2>1, <2>2, <2>3, <2>4
<1>4. Nat \subseteq D
  <2> HIDE DEF D
  <2> QED  BY ONLY <1>2, <1>3, SetInduction
<1>5. ASSUME NEW b \in 0..k, a <= b PROVE SumTo(f, a) <= SumTo(f, b)
  <2>1. b - a \in Nat /\ a + (b - a) = b  BY <1>5
  <2>2. b - a \in D  BY <1>4, <2>1
  <2> QED  BY <2>1, <2>2
<1> QED  BY <1>5

\* A place in the whole is a place in one part.
LEMMA Locate ==
  ASSUME NEW k \in Nat, NEW f, \A i \in 1..k : f[i] \in Nat,
         NEW p \in 1..SumTo(f, k)
  PROVE  \E i \in 1..k : \E j \in 1..f[i] : p = SumTo(f, i - 1) + j
<1>1. \A m \in 0..k : SumTo(f, m) \in Nat  BY SumNat
<1> DEFINE S == {m \in 0..k : p <= SumTo(f, m)}
<1>2. k \in S /\ S \subseteq Nat  BY <1>1
<1>3. PICK i \in S : \A m \in S : ~(m < i)
  <2> HIDE DEF S
  <2> QED  BY <1>2, LeastElement
<1>4. i \in 0..k /\ p <= SumTo(f, i)  OBVIOUS
<1>5. i # 0
  <2>1. SumTo(f, 0) = 0  BY SumFacts
  <2> QED  BY <1>4, <2>1
<1>6. /\ i \in 1..k /\ i - 1 \in 0..k /\ i - 1 \in Nat /\ i - 1 + 1 = i
      /\ i - 1 < i
  BY <1>4, <1>5
<1>7. ~(p <= SumTo(f, i - 1))  BY <1>3, <1>6
<1>8. SumTo(f, i) = SumTo(f, i - 1) + f[i]  BY <1>6, SumFacts
<1>9. SumTo(f, i - 1) \in Nat /\ SumTo(f, i) \in Nat /\ f[i] \in Nat  BY <1>1, <1>6
<1> DEFINE j == p - SumTo(f, i - 1)
<1>10. j \in 1..f[i] /\ p = SumTo(f, i - 1) + j
  <2>1. p \in Int  OBVIOUS
  <2> QED  BY ONLY <2>1, <1>4, <1>7, <1>8, <1>9
<1> QED  BY <1>6, <1>10

\* The places of a part.
LEMMA PartPlace ==
  ASSUME NEW k \in Nat, NEW f, \A i \in 1..k : f[i] \in Nat,
         NEW i \in 1..k, NEW j \in 1..f[i]
  PROVE  /\ SumTo(f, i - 1) \in Nat
         /\ SumTo(f, i - 1) + j \in 1..SumTo(f, i)
         /\ SumTo(f, i) <= SumTo(f, k)
         /\ SumTo(f, i - 1) + j \in 1..SumTo(f, k)
<1>1. /\ i \in 0..k /\ k \in 0..k /\ i - 1 \in 0..k /\ i - 1 \in Nat
      /\ i - 1 + 1 = i /\ i <= k
  OBVIOUS
<1>2. SumTo(f, i) <= SumTo(f, k)  BY <1>1, SumMono
<1>3. SumTo(f, i) = SumTo(f, i - 1) + f[i]  BY <1>1, SumFacts
<1>4. SumTo(f, i - 1) \in Nat /\ SumTo(f, i) \in Nat /\ SumTo(f, k) \in Nat
  BY <1>1, SumNat
<1> QED  BY <1>2, <1>3, <1>4

-----------------------------------------------------------------------------
(* Sequences one after the other                                          *)

\* c is a and then b.
Joined(c, a, b) ==
  /\ Len(c) = Len(a) + Len(b)
  /\ \A i \in 1..Len(a) : c[i] = a[i]
  /\ \A j \in 1..Len(b) : c[Len(a) + j] = b[j]

\* One sequence after the other.
LEMMA ConcatFacts ==
  ASSUME NEW S, NEW a \in Seq(S), NEW b \in Seq(S)
  PROVE  a \o b \in Seq(S) /\ Joined(a \o b, a, b)
<1>1. /\ a \o b \in Seq(S) /\ Len(a \o b) = Len(a) + Len(b)
      /\ \A i \in 1..Len(a) : (a \o b)[i] = a[i]
  OBVIOUS
<1>2. ASSUME NEW j \in 1..Len(b) PROVE (a \o b)[Len(a) + j] = b[j]
  OBVIOUS
<1> QED  BY <1>1, <1>2 DEF Joined

\* FlattenSeq joins the sequences one after the other.
LEMMA FlattenLoop ==
  ASSUME NEW s, Len(s) \in Nat \ {0}
  PROVE  \E acc :
           /\ acc[1] = s[1]
           /\ \A i \in 1..(Len(s) - 1) : acc[i + 1] = acc[i] \o s[i + 1]
           /\ FlattenSeq(s) = acc[Len(s)]
<1> DEFINE At(acc, i) == IF i = 1 THEN s[i] ELSE acc[i - 1] \o s[i]
           D == {k \in Nat : \E f : f = [i \in 1..k |-> At(f, i)]}
<1>1. 0 \in D
  <2> DEFINE f == [i \in {} |-> 0]
  <2>1. f = [i \in 1..0 |-> At(f, i)]  OBVIOUS
  <2> QED  BY <2>1
<1>2. ASSUME NEW k \in Nat, k \in D PROVE k + 1 \in D
  <2>1. PICK f : f = [i \in 1..k |-> At(f, i)]  BY <1>2
  <2> DEFINE g == [i \in 1..(k + 1) |-> At(f, i)]
  <2> HIDE DEF At
  <2>2. \A i \in 1..k : g[i] = f[i]  BY <2>1
  <2>3. ASSUME NEW i \in 1..(k + 1) PROVE At(f, i) = At(g, i)
    <3>1. i # 1 => i - 1 \in 1..k  OBVIOUS
    <3> HIDE DEF g
    <3> QED  BY <2>2, <3>1 DEF At
  <2>4. g = [i \in 1..(k + 1) |-> At(g, i)]  BY <2>3
  <2> HIDE DEF g
  <2> QED  BY <2>4
<1>3. Len(s) \in D
  <2> HIDE DEF D
  <2> QED  BY <1>1, <1>2, SetInduction
<1> DEFINE h == CHOOSE acc : acc = [i \in 1..Len(s) |-> At(acc, i)]
<1>4. h = [i \in 1..Len(s) |-> At(h, i)]
  <2> HIDE DEF At
  <2> QED  BY <1>3
<1>5. FlattenSeq(s) = h[Len(s)]
  BY DEF FlattenSeq
<1> HIDE DEF h
<1>6. \A i \in 1..Len(s) : h[i] = At(h, i)
  BY <1>4
<1>7. h[1] = s[1]
  <2>1. 1 \in 1..Len(s)  OBVIOUS
  <2> QED  BY <1>6, <2>1
<1>8. ASSUME NEW i \in 1..(Len(s) - 1) PROVE h[i + 1] = h[i] \o s[i + 1]
  <2>1. i + 1 \in 1..Len(s) /\ i + 1 # 1 /\ i + 1 - 1 = i  OBVIOUS
  <2> DEFINE j == i + 1
  <2>2. j \in 1..Len(s) /\ j # 1 /\ j - 1 = i  BY <2>1
  <2> HIDE DEF j
  <2>3. h[j] = h[j - 1] \o s[j]  BY <1>6, <2>2
  <2> DEFINE F(x) == h[x] \o s[j]
  <2>4. h[j] = F(j - 1)  BY <2>3
  <2> HIDE DEF F
  <2>5. h[j] = F(i)  BY <2>2, <2>4
  <2> QED  BY ONLY Zenon, <2>5 DEF F, j
<1> QED  BY <1>5, <1>7, <1>8

\* The elements of w are those of the n parts s, one part after the other.
LaidOut(w, s, lens, n) ==
  /\ Len(w) = SumTo(lens, n)
  /\ \A i \in 1..n : \A j \in 1..lens[i] :
       w[SumTo(lens, i - 1) + j] = s[i][j]

\* The result is all of them, in order.
LEMMA FlattenFacts ==
  ASSUME NEW S, NEW n \in Nat, NEW s \in [1..n -> Seq(S)], NEW lens,
         \A i \in 1..n : lens[i] = Len(s[i])
  PROVE  FlattenSeq(s) \in Seq(S) /\ LaidOut(FlattenSeq(s), s, lens, n)
<1>1. Len(s) = n /\ \A i \in 1..n : lens[i] \in Nat  OBVIOUS
<1>2. \A m \in 0..n : SumTo(lens, m) \in Nat  BY <1>1, SumNat
<1>5. \A a, b \in 0..n : a <= b => SumTo(lens, a) <= SumTo(lens, b)
  BY ONLY n \in Nat, <1>1, SumMono
<1>3. CASE n = 0
  <2>1. FlattenSeq(s) = s  BY <1>1, <1>3 DEF FlattenSeq
  <2>2. s \in Seq(S)  BY <1>3
  <2>3. SumTo(lens, n) = 0  BY <1>3, SumFacts
  <2> QED  BY <1>1, <1>3, <2>1, <2>2, <2>3 DEF LaidOut
<1>4. CASE n # 0
  <2>1. PICK f : /\ f[1] = s[1]
                 /\ \A i \in 1..(n - 1) : f[i + 1] = f[i] \o s[i + 1]
                 /\ FlattenSeq(s) = f[n]
    BY <1>1, <1>4, FlattenLoop
  <2> DEFINE P(k) == /\ f[k] \in Seq(S) /\ Len(f[k]) = SumTo(lens, k)
                     /\ \A i \in 1..k : \A j \in 1..lens[i] :
                          f[k][SumTo(lens, i - 1) + j] = s[i][j]
             D == {k \in Nat : k + 1 <= n => P(k + 1)}
  <2>2. P(1)
    <3>1. SumTo(lens, 0) = 0 /\ SumTo(lens, 0 + 1) = SumTo(lens, 0) + lens[0 + 1]
      BY SumFacts
    <3>2. s[1] \in Seq(S) /\ lens[1] = Len(s[1]) /\ lens[1] \in Nat  BY <1>4, <1>1
    <3>3. SumTo(lens, 1) = lens[1]  BY <3>1, <3>2
    <3> QED  BY <2>1, <3>1, <3>2, <3>3
  <2>3. ASSUME NEW k \in Nat, k \in D PROVE k + 1 \in D
    <3> SUFFICES ASSUME k + 1 + 1 <= n PROVE P(k + 1 + 1)
      OBVIOUS
    <3> DEFINE u == k + 1
    <3>1. u \in 1..n /\ u + 1 \in 2..n /\ u + 1 \in 1..n /\ u \in Nat
          /\ u + 1 - 1 = u /\ u <= n /\ u \in 0..n
      OBVIOUS
    <3>2. P(u)  BY <2>3, <3>1
    <3> HIDE DEF u
    <3> DEFINE a == f[u]
               b == s[u + 1]
    <3>3. a \in Seq(S) /\ Len(a) = SumTo(lens, u)  BY <3>2
    <3>8. b \in Seq(S) /\ Len(b) = lens[u + 1]  BY <3>1
    <3>9. f[u + 1] = a \o b
      <4>1. u \in 1..(n - 1)  BY <3>1
      <4> QED  BY ONLY Zenon, <2>1, <4>1 DEF a, b
    <3>4. \A i \in 1..u : \A j \in 1..lens[i] : a[SumTo(lens, i - 1) + j] = s[i][j]
      BY <3>2
    <3> HIDE DEF a, b
    <3>5. /\ a \o b \in Seq(S) /\ Len(a \o b) = Len(a) + Len(b)
          /\ \A i \in 1..Len(a) : (a \o b)[i] = a[i]
          /\ \A j \in 1..Len(b) : (a \o b)[Len(a) + j] = b[j]
      <4>1. a \o b \in Seq(S) /\ Joined(a \o b, a, b)
        BY ONLY <3>3, <3>8, ConcatFacts
      <4> QED  BY <4>1 DEF Joined
    <3>6. SumTo(lens, u + 1) = SumTo(lens, u) + lens[u + 1]
      BY <3>1, SumFacts
    <3>7. ASSUME NEW i \in 1..(u + 1), NEW j \in 1..lens[i]
          PROVE  f[u + 1][SumTo(lens, i - 1) + j] = s[i][j]
      <4>1. CASE i = u + 1
        <5>1. i - 1 = u  BY <4>1, <3>1
        <5>2. (a \o b)[Len(a) + j] = b[j]  BY <3>5, <3>8, <4>1
        <5> QED  BY <3>3, <3>9, <4>1, <5>1, <5>2 DEF b
      <4>2. CASE i # u + 1
        <5>1. i \in 1..u /\ i \in 1..n /\ i - 1 \in Nat /\ i - 1 + 1 = i  BY <3>1, <4>2
        <5>2. SumTo(lens, i - 1) + j \in 1..Len(a)
          <6>1. SumTo(lens, i) = SumTo(lens, i - 1) + lens[i]
            BY <5>1, SumFacts
          <6>2. SumTo(lens, i) <= SumTo(lens, u)
            <7>1. i \in 0..n /\ u \in 0..n /\ i <= u  BY <3>1, <5>1
            <7> QED  BY ONLY <7>1, <1>5
          <6>3. SumTo(lens, i - 1) \in Nat /\ SumTo(lens, u) \in Nat
                /\ lens[i] \in Nat
            BY <1>1, <1>2, <3>1, <5>1
          <6> QED  BY <3>3, <6>1, <6>2, <6>3
        <5>3. a[SumTo(lens, i - 1) + j] = s[i][j]  BY <3>4, <5>1
        <5> QED  BY <3>5, <3>9, <5>2, <5>3
      <4> QED  BY <4>1, <4>2
    <3> QED  BY <3>3, <3>5, <3>6, <3>7, <3>8, <3>9 DEF u
  <2>4. P(n)
    <3> HIDE DEF P
    <3>1. 0 \in D  BY <2>2
    <3> HIDE DEF D
    <3>2. Nat \subseteq D  BY ONLY <2>3, <3>1, SetInduction
    <3>3. n - 1 \in D /\ n - 1 + 1 = n /\ n <= n  BY <1>4, <3>2
    <3> QED  BY <3>3 DEF D
  <2> QED  BY <2>1, <2>4 DEF LaidOut
<1> QED  BY <1>3, <1>4 DEF LaidOut

-----------------------------------------------------------------------------
(* The bytes of a scatter-gather list                                      *)

\* A buffer of a scatter-gather list.
Iov == [buf : Nat, base : Nat, len : Nat]

Lens(v) == [i \in 1..Len(v) |-> v[i].len]

\* A byte of memory.
Cell == Nat \X Nat

\* Every byte is a byte of a buffer, and every byte of a buffer is there.
LEMMA BytesFacts ==
  ASSUME NEW v \in Seq(Iov)
  PROVE  /\ Len(v) \in Nat /\ \A i \in 1..Len(v) : Lens(v)[i] \in Nat
         /\ \A i \in 0..Len(v) : SumTo(Lens(v), i) \in Nat
         /\ Bytes(v) \in Seq(Cell)
         /\ Len(Bytes(v)) = SumTo(Lens(v), Len(v))
         /\ \A i \in 1..Len(v) : \A j \in 1..Lens(v)[i] :
              Bytes(v)[SumTo(Lens(v), i - 1) + j]
                = <<v[i].buf, v[i].base + j - 1>>
<1> DEFINE n == Len(v)
           lens == Lens(v)
           s == [i \in 1..n |-> [j \in 1..v[i].len |->
                                    <<v[i].buf, v[i].base + j - 1>>]]
<1>1. n \in Nat /\ DOMAIN v = 1..n /\ \A i \in 1..n : v[i] \in Iov
  OBVIOUS
<1>2. \A i \in 1..n : lens[i] = v[i].len /\ lens[i] \in Nat
  BY <1>1 DEF Iov, Lens
<1>3. Bytes(v) = FlattenSeq(s)
  BY <1>1 DEF Bytes
<1>4. ASSUME NEW i \in 1..n
      PROVE  s[i] \in Seq(Cell) /\ lens[i] = Len(s[i])
  <2> DEFINE a == [j \in 1..v[i].len |-> <<v[i].buf, v[i].base + j - 1>>]
  <2>1. v[i].len \in Nat /\ v[i].buf \in Nat /\ v[i].base \in Nat
    BY <1>1 DEF Iov
  <2>2. \A j \in 1..v[i].len : <<v[i].buf, v[i].base + j - 1>> \in Cell
    BY <2>1 DEF Cell
  <2> DEFINE G(j) == <<v[i].buf, v[i].base + j - 1>>
  <2>3. s[i] = a  OBVIOUS
  <2>4. a = [j \in 1..v[i].len |-> G(j)] /\ \A j \in 1..v[i].len : G(j) \in Cell
    BY <2>2
  <2> HIDE DEF G, a, s
  <2>5. a \in Seq(Cell) /\ Len(a) = v[i].len  BY ONLY <2>1, <2>4
  <2> QED  BY <1>2, <2>3, <2>5
<1>5. ASSUME NEW i \in 1..n, NEW j \in 1..lens[i]
      PROVE  s[i][j] = <<v[i].buf, v[i].base + j - 1>>
  BY <1>2
<1>6. s \in [1..n -> Seq(Cell)]  BY <1>4
<1> HIDE DEF s, lens, n
<1>7. FlattenSeq(s) \in Seq(Cell) /\ LaidOut(FlattenSeq(s), s, lens, n)
  <2>1. n \in Nat  BY <1>1
  <2>2. \A i \in 1..n : lens[i] = Len(s[i])  BY <1>4
  <2> QED  BY ONLY <2>1, <2>2, <1>6, FlattenFacts
<1>8. \A i \in 0..n : SumTo(lens, i) \in Nat
  BY ONLY <1>1, <1>2, SumNat
<1>9. /\ Bytes(v) \in Seq(Cell) /\ LaidOut(Bytes(v), s, lens, n)
  BY <1>3, <1>7
<1>10. Len(Bytes(v)) = SumTo(lens, n)  BY ONLY <1>9 DEF LaidOut
<1>11. ASSUME NEW i \in 1..n, NEW j \in 1..lens[i]
       PROVE  Bytes(v)[SumTo(lens, i - 1) + j] = <<v[i].buf, v[i].base + j - 1>>
  <2>1. Bytes(v)[SumTo(lens, i - 1) + j] = s[i][j]  BY ONLY <1>9 DEF LaidOut
  <2> QED  BY <1>5, <2>1
<1> QED  BY <1>1, <1>2, <1>8, <1>9, <1>10, <1>11 DEF lens, n

\* Every byte of memory is in S.
BytesIn(m, S) == \A x \in Cell : m[x] \in S

\* The pieces are those of the view, with the bytes that memory holds there.
PiecesHold(pieces, v, m, S) ==
  /\ Len(pieces) = Len(v)
  /\ \A i \in 1..Len(v) : pieces[i] \in Seq(S) /\ Len(pieces[i]) = Lens(v)[i]
  /\ \A i \in 1..Len(v) : \A j \in 1..Lens(v)[i] :
       pieces[i][j] = m[Bytes(v)[SumTo(Lens(v), i - 1) + j]]

\* What a view holds, byte by byte.
LEMMA PiecesFacts ==
  ASSUME NEW v \in Seq(Iov), NEW m, NEW S, BytesIn(m, S)
  PROVE  PiecesHold(Pieces(m, v), v, m, S)
<1> DEFINE n == Len(v)
           s == Pieces(m, v)
<1>1. n \in Nat /\ DOMAIN v = 1..n /\ \A i \in 1..n : v[i] \in Iov
  OBVIOUS
<1>2. s = [i \in 1..n |-> [j \in 1..v[i].len |-> m[<<v[i].buf, v[i].base + j - 1>>]]]
  BY <1>1 DEF Pieces
<1>3. Len(s) = n  BY <1>1, <1>2
<1>4. ASSUME NEW i \in 1..n
      PROVE  s[i] \in Seq(S) /\ Len(s[i]) = Lens(v)[i]
  <2> DEFINE a == [j \in 1..v[i].len |-> m[<<v[i].buf, v[i].base + j - 1>>]]
  <2>1. v[i].len \in Nat /\ v[i].buf \in Nat /\ v[i].base \in Nat
    BY <1>1 DEF Iov
  <2>2. ASSUME NEW j \in 1..v[i].len
        PROVE  m[<<v[i].buf, v[i].base + j - 1>>] \in S
    <3>1. <<v[i].buf, v[i].base + j - 1>> \in Cell
      BY <2>1 DEF Cell
    <3> QED  BY <3>1 DEF BytesIn
  <2> DEFINE G(j) == m[<<v[i].buf, v[i].base + j - 1>>]
  <2>3. a = [j \in 1..v[i].len |-> G(j)] /\ \A j \in 1..v[i].len : G(j) \in S
    BY <2>2
  <2> HIDE DEF G, a
  <2>4. a \in Seq(S) /\ Len(a) = v[i].len  BY <2>1, <2>3
  <2> QED  BY <1>2, <2>4 DEF Lens, a
<1>5. ASSUME NEW i \in 1..n, NEW j \in 1..Lens(v)[i]
      PROVE  s[i][j] = m[Bytes(v)[SumTo(Lens(v), i - 1) + j]]
  <2>1. Bytes(v)[SumTo(Lens(v), i - 1) + j] = <<v[i].buf, v[i].base + j - 1>>
    BY BytesFacts
  <2>2. s[i][j] = m[<<v[i].buf, v[i].base + j - 1>>]
    BY <1>2 DEF Lens
  <2> QED  BY <2>1, <2>2
<1> HIDE DEF s
<1>6. PiecesHold(s, v, m, S)  BY <1>3, <1>4, <1>5 DEF PiecesHold
<1> QED  BY <1>6 DEF s

\* A view gathers its bytes in order.
LEMMA GatherFacts ==
  ASSUME NEW v \in Seq(Iov), NEW m, NEW S, \A x \in Cell : m[x] \in S
  PROVE  /\ FlattenSeq(Pieces(m, v)) \in Seq(S)
         /\ Len(FlattenSeq(Pieces(m, v))) = Len(Bytes(v))
         /\ \A k \in 1..Len(Bytes(v)) :
              FlattenSeq(Pieces(m, v))[k] = m[Bytes(v)[k]]
<1> DEFINE n == Len(v)
           lens == Lens(v)
           s == Pieces(m, v)
<1>1. /\ n \in Nat /\ Len(Bytes(v)) = SumTo(lens, n)
      /\ \A i \in 1..n : lens[i] \in Nat
  BY BytesFacts
<1>2. /\ \A i \in 1..n : s[i] \in Seq(S) /\ Len(s[i]) = lens[i]
      /\ \A i \in 1..n : \A j \in 1..lens[i] :
           s[i][j] = m[Bytes(v)[SumTo(lens, i - 1) + j]]
  <2>1. BytesIn(m, S)  BY DEF BytesIn
  <2> HIDE DEF s
  <2>2. PiecesHold(Pieces(m, v), v, m, S)
    BY ONLY v \in Seq(Iov), <2>1, PiecesFacts
  <2>3. PiecesHold(s, v, m, S)  BY <2>2 DEF s
  <2> QED  BY ONLY <2>3 DEF PiecesHold, n, lens
<1>3. s \in [1..n -> Seq(S)]
  <2>1. s = [i \in 1..n |-> [j \in 1..v[i].len |-> m[<<v[i].buf, v[i].base + j - 1>>]]]
    BY DEF Pieces
  <2> HIDE DEF s
  <2> DEFINE G(i) == [j \in 1..v[i].len |-> m[<<v[i].buf, v[i].base + j - 1>>]]
  <2>2. s = [i \in 1..n |-> G(i)]  BY <2>1
  <2> HIDE DEF G
  <2>3. \A i \in 1..n : G(i) \in Seq(S)  BY <1>2, <2>2
  <2> QED  BY <2>2, <2>3
<1> HIDE DEF n, lens, s
<1>4. FlattenSeq(s) \in Seq(S) /\ LaidOut(FlattenSeq(s), s, lens, n)
  <2>1. \A i \in 1..n : lens[i] = Len(s[i])  BY <1>2
  <2>2. n \in Nat  BY <1>1
  <2> QED  BY ONLY <2>1, <2>2, <1>3, FlattenFacts
<1>5. ASSUME NEW k \in 1..Len(Bytes(v)) PROVE FlattenSeq(s)[k] = m[Bytes(v)[k]]
  <2>1. k \in 1..SumTo(lens, n)  BY <1>1
  <2>2. PICK i \in 1..n : \E j \in 1..lens[i] : k = SumTo(lens, i - 1) + j
    BY ONLY <2>1, <1>1, Locate
  <2>3. PICK j \in 1..lens[i] : k = SumTo(lens, i - 1) + j  BY <2>2
  <2> QED  BY <1>2, <1>4, <2>3 DEF LaidOut
<1> QED  BY <1>1, <1>4, <1>5 DEF s, LaidOut

\* No byte is twice in a view.
Distinct(v) ==
  \A j, k \in 1..Len(Bytes(v)) : Bytes(v)[j] = Bytes(v)[k] => j = k

-----------------------------------------------------------------------------
(* The cut of a scatter-gather list                                        *)

\* What Slice does with buffer i of v, those before it done.
SliceStep(v, off, n, acc, i) ==
  IF i = 0 THEN [off |-> off, len |-> n, out |-> <<>>]
  ELSE SliceOne(acc[i - 1], v[i])

\* The function that Slice builds.
SliceFcn(v, off, n) ==
  CHOOSE acc : acc = [i \in 0..Len(v) |-> SliceStep(v, off, n, acc, i)]

LEMMA SliceIs ==
  ASSUME NEW v, NEW off, NEW n
  PROVE  Slice(v, off, n) = SliceFcn(v, off, n)[Len(v)]
BY DEF Slice, SliceFcn, SliceStep

\* The recursion of Slice has a solution.
LEMMA SliceDefined ==
  ASSUME NEW v, NEW off, NEW n, Len(v) \in Nat
  PROVE  /\ SliceFcn(v, off, n)[0] = [off |-> off, len |-> n, out |-> <<>>]
         /\ \A i \in 1..Len(v) :
              SliceFcn(v, off, n)[i]
                = SliceOne(SliceFcn(v, off, n)[i - 1], v[i])
<1> DEFINE Sol(k, f) == f = [i \in 0..k |-> SliceStep(v, off, n, f, i)]
           D == {k \in Nat : \E f : Sol(k, f)}
<1>1. 0 \in D
  <2> DEFINE f == [i \in {0} |-> [off |-> off, len |-> n, out |-> <<>>]]
  <2>1. f = [i \in 0..0 |-> SliceStep(v, off, n, f, i)]
    BY DEF SliceStep
  <2> QED  BY <2>1
<1>2. ASSUME NEW k \in Nat, k \in D PROVE k + 1 \in D
  <2>1. PICK f : f = [i \in 0..k |-> SliceStep(v, off, n, f, i)]
    BY <1>2
  <2> DEFINE g == [i \in 0..(k + 1) |-> SliceStep(v, off, n, f, i)]
  <2>2. \A i \in 0..k : g[i] = f[i]
    BY <2>1
  <2>3. ASSUME NEW i \in 0..(k + 1)
        PROVE  SliceStep(v, off, n, f, i) = SliceStep(v, off, n, g, i)
    <3>1. i # 0 => i - 1 \in 0..k  OBVIOUS
    <3> HIDE DEF g
    <3> QED  BY <2>2, <3>1 DEF SliceStep
  <2>4. g = [i \in 0..(k + 1) |-> SliceStep(v, off, n, g, i)]
    BY <2>3
  <2> HIDE DEF g
  <2>5. \E h : h = [i \in 0..(k + 1) |-> SliceStep(v, off, n, h, i)]
    BY <2>4
  <2> QED  BY <2>5
<1>3. Len(v) \in D
  <2> HIDE DEF D
  <2> QED  BY <1>1, <1>2, SetInduction
<1>4. \E f : f = [i \in 0..Len(v) |-> SliceStep(v, off, n, f, i)]
  BY <1>3
<1> DEFINE f == SliceFcn(v, off, n)
<1>5. f = [i \in 0..Len(v) |-> SliceStep(v, off, n, f, i)]
  BY <1>4 DEF SliceFcn
<1> HIDE DEF f
<1>6. \A i \in 0..Len(v) : f[i] = SliceStep(v, off, n, f, i)
  BY <1>5
<1> QED  BY <1>6 DEF SliceStep, f

\* A cut of n bytes from byte off, of which t bytes of the list are behind it:
\* what is left to skip, and what is left to take.
ToSkip(off, t) == IF t <= off THEN off - t ELSE 0
ToTake(off, n, t) ==
  IF t <= off THEN n ELSE IF t >= off + n THEN 0 ELSE off + n - t

\* The state of that cut.
CutAt(acc, off, n, t) ==
  \E o : acc = [off |-> ToSkip(off, t), len |-> ToTake(off, n, t), out |-> o]

LEMMA MinTwo ==
  ASSUME NEW a \in Int, NEW b \in Int
  PROVE  Min({a, b}) = IF a <= b THEN a ELSE b
<1> DEFINE m == IF a <= b THEN a ELSE b
<1>1. m \in {a, b} /\ \A x \in {a, b} : m <= x  OBVIOUS
<1>2. \A y \in {a, b} : (\A x \in {a, b} : y <= x) => y = m  OBVIOUS
<1> QED  BY <1>1, <1>2 DEF Min

\* One buffer of l bytes more.
LEMMA SliceOneFacts ==
  ASSUME NEW off \in Nat, NEW n \in Nat \ {0}, NEW t \in Nat, NEW iov,
         NEW l \in Nat, iov.len = l, NEW acc, CutAt(acc, off, n, t)
  PROVE  CutAt(SliceOne(acc, iov), off, n, t + l)
<1>1. PICK out : acc = [off |-> ToSkip(off, t), len |-> ToTake(off, n, t),
                        out |-> out]
  BY DEF CutAt
<1>2. acc.off = ToSkip(off, t) /\ acc.len = ToTake(off, n, t) /\ acc.out = out
  BY <1>1
<1>3. acc.off \in Nat /\ acc.len \in Nat
  BY <1>2 DEF ToSkip, ToTake
<1>4. CASE acc.len = 0
  <2>1. t >= off + n  BY <1>2, <1>4 DEF ToTake
  <2>2. ToSkip(off, t + l) = ToSkip(off, t)
        /\ ToTake(off, n, t + l) = ToTake(off, n, t)
    BY <2>1 DEF ToSkip, ToTake
  <2>3. SliceOne(acc, iov) = acc  BY <1>4 DEF SliceOne
  <2> QED  BY <1>1, <2>2, <2>3 DEF CutAt
<1>5. CASE acc.len # 0 /\ acc.off >= l
  <2>1. SliceOne(acc, iov) = [acc EXCEPT !.off = @ - l]
    BY <1>5 DEF SliceOne
  <2>2. [acc EXCEPT !.off = @ - l]
          = [off |-> ToSkip(off, t) - l, len |-> ToTake(off, n, t),
             out |-> out]
    BY <1>1
  <2>3. ToSkip(off, t + l) = ToSkip(off, t) - l
        /\ ToTake(off, n, t + l) = ToTake(off, n, t)
    BY <1>2, <1>5 DEF ToSkip, ToTake
  <2> QED  BY <2>1, <2>2, <2>3 DEF CutAt
<1>6. CASE acc.len # 0 /\ acc.off < l
  <2> DEFINE take == Min({l - acc.off, acc.len})
             piece == Append(acc.out, [iov EXCEPT !.base = @ + acc.off,
                                                  !.len = take])
  <2>1. take = IF l - acc.off <= acc.len THEN l - acc.off ELSE acc.len
    BY <1>3, MinTwo
  <2>2. ~(acc.off >= l)  BY <1>3, <1>6
  <2>3. SliceOne(acc, iov) = [off |-> 0, len |-> acc.len - take, out |-> piece]
    BY ONLY <1>6, <2>2, iov.len = l DEF SliceOne
  <2> HIDE DEF take, piece
  <2>4. ToSkip(off, t + l) = 0 /\ ToTake(off, n, t + l) = acc.len - take
    BY <1>2, <1>6, <2>1 DEF ToSkip, ToTake
  <2> QED  BY ONLY <2>3, <2>4 DEF CutAt
<1>7. acc.off >= l \/ acc.off < l  BY <1>3
<1> QED  BY ONLY <1>4, <1>5, <1>6, <1>7

\* A cut that the list has the bytes for is complete.

-----------------------------------------------------------------------------
(* What a cut takes                                                        *)

\* One buffer more at the end of a list.
LEMMA BytesAppend ==
  ASSUME NEW out \in Seq(Iov), NEW e \in Iov
  PROVE  /\ Append(out, e) \in Seq(Iov)
         /\ Len(Bytes(Append(out, e))) = Len(Bytes(out)) + e.len
         /\ \A k \in 1..Len(Bytes(out)) : Bytes(Append(out, e))[k] = Bytes(out)[k]
         /\ \A j \in 1..e.len :
              Bytes(Append(out, e))[Len(Bytes(out)) + j]
                = <<e.buf, e.base + j - 1>>
<1> DEFINE w == Append(out, e)
           n == Len(out)
           f == Lens(out)
           g == Lens(w)
<1>1. /\ w \in Seq(Iov) /\ n \in Nat /\ Len(w) = n + 1 /\ w[n + 1] = e
      /\ \A i \in 1..n : w[i] = out[i] /\ i \in 1..(n + 1)
  OBVIOUS
<1> HIDE DEF w
<1>2. /\ \A i \in 1..n : f[i] = g[i] /\ g[i] = w[i].len
      /\ g[n + 1] = e.len
  BY <1>1 DEF Lens
<1>3. /\ \A i \in 1..n : f[i] \in Nat
      /\ Len(Bytes(out)) = SumTo(f, n)
      /\ \A i \in 1..n : \A j \in 1..f[i] :
           Bytes(out)[SumTo(f, i - 1) + j] = <<out[i].buf, out[i].base + j - 1>>
  BY BytesFacts
<1>4. /\ Len(Bytes(w)) = SumTo(g, n + 1)
      /\ \A i \in 1..(n + 1) : \A j \in 1..g[i] :
           Bytes(w)[SumTo(g, i - 1) + j] = <<w[i].buf, w[i].base + j - 1>>
  BY <1>1, BytesFacts
<1> HIDE DEF f, g, n
<1>5. ASSUME NEW m \in 0..n PROVE SumTo(g, m) = SumTo(f, m)
  <2>1. m \in Nat /\ \A i \in 1..m : f[i] = g[i]  BY <1>1, <1>2
  <2> QED  BY <2>1, SumFacts
<1>6. SumTo(g, n + 1) = SumTo(f, n) + e.len
  <2>1. SumTo(g, n + 1) = SumTo(g, n) + g[n + 1]  BY <1>1, SumFacts
  <2>2. n \in 0..n  BY <1>1
  <2> QED  BY <1>2, <1>5, <2>1, <2>2
<1>7. ASSUME NEW k \in 1..Len(Bytes(out)) PROVE Bytes(w)[k] = Bytes(out)[k]
  <2>0. k \in 1..SumTo(f, n)  BY <1>3
  <2>1. PICK i \in 1..n : \E j \in 1..f[i] : k = SumTo(f, i - 1) + j
    <3>1. n \in Nat /\ \A i \in 1..n : f[i] \in Nat  BY <1>1, <1>3
    <3>2. \E i \in 1..n : \E j \in 1..f[i] : k = SumTo(f, i - 1) + j
      BY ONLY <2>0, <3>1, Locate
    <3> QED  BY ONLY <3>2
  <2>2. PICK j \in 1..f[i] : k = SumTo(f, i - 1) + j  BY <2>1
  <2>3. i - 1 \in 0..n /\ i \in 1..(n + 1)  BY <1>1
  <2>4. SumTo(g, i - 1) = SumTo(f, i - 1)  BY <1>5, <2>3
  <2>5. Bytes(out)[SumTo(f, i - 1) + j] = <<out[i].buf, out[i].base + j - 1>>
    BY <1>3
  <2>6. Bytes(w)[SumTo(g, i - 1) + j] = <<w[i].buf, w[i].base + j - 1>>
    BY <1>2, <1>4, <2>3
  <2> QED  BY <1>1, <2>2, <2>4, <2>5, <2>6
<1>8. ASSUME NEW j \in 1..e.len
      PROVE  Bytes(w)[Len(Bytes(out)) + j] = <<e.buf, e.base + j - 1>>
  <2> DEFINE u == n + 1
  <2>1. u \in 1..(n + 1) /\ u - 1 = n /\ n \in 0..n /\ w[u] = e /\ j \in 1..g[u]
    BY <1>1, <1>2
  <2> HIDE DEF u
  <2>2. Bytes(w)[SumTo(g, u - 1) + j] = <<w[u].buf, w[u].base + j - 1>>
    BY <1>4, <2>1
  <2> QED  BY <1>3, <1>5, <2>1, <2>2
<1> QED  BY <1>1, <1>3, <1>4, <1>6, <1>7, <1>8 DEF w

\* out has c bytes of v, from byte off on.
TakenOut(out, v, off, c) ==
  /\ out \in Seq(Iov) /\ Len(Bytes(out)) = c
  /\ \A j \in 1..c : Bytes(out)[j] = Bytes(v)[off + j]

\* What one buffer adds to what was taken is the next bytes of the view.
LEMMA SliceOneTakes ==
  ASSUME NEW v \in Seq(Iov), NEW off \in Nat, NEW n \in Nat \ {0},
         NEW i \in 1..Len(v), NEW t, t = SumTo(Lens(v), i - 1),
         NEW acc, CutAt(acc, off, n, t),
         TakenOut(acc.out, v, off, n - ToTake(off, n, t))
  PROVE  TakenOut(SliceOne(acc, v[i]).out, v, off,
                  n - ToTake(off, n, t + Lens(v)[i]))
<1> DEFINE iov == v[i]
           l == Lens(v)[i]
<1>1. /\ iov \in Iov /\ l \in Nat /\ t \in Nat
      /\ \A j \in 1..l : Bytes(v)[t + j] = <<iov.buf, iov.base + j - 1>>
  <2>1. i - 1 \in 0..Len(v) /\ v[i] \in Iov  BY BytesFacts
  <2> QED  BY <2>1, BytesFacts
<1>2. iov.len = l /\ iov.buf \in Nat /\ iov.base \in Nat
  BY <1>1 DEF Lens, Iov
<1> HIDE DEF iov, l
<1>3. PICK out : acc = [off |-> ToSkip(off, t), len |-> ToTake(off, n, t),
                        out |-> out]
  BY DEF CutAt
<1>4. acc.off = ToSkip(off, t) /\ acc.len = ToTake(off, n, t) /\ acc.out = out
  BY <1>3
<1>5. acc.off \in Nat /\ acc.len \in Nat
  BY <1>1, <1>4 DEF ToSkip, ToTake
<1>6. CASE acc.len = 0
  <2>1. t >= off + n  BY <1>1, <1>4, <1>6 DEF ToTake
  <2>2. ToTake(off, n, t + l) = ToTake(off, n, t)
    BY <1>1, <2>1 DEF ToTake
  <2>3. SliceOne(acc, iov) = acc  BY <1>6 DEF SliceOne
  <2> QED  BY <2>2, <2>3 DEF iov, l
<1>7. CASE acc.len # 0 /\ acc.off >= l
  <2>1. SliceOne(acc, iov) = [acc EXCEPT !.off = @ - l]
    BY <1>2, <1>7 DEF SliceOne
  <2>2. [acc EXCEPT !.off = @ - l].out = acc.out
    BY <1>3
  <2>3. ToTake(off, n, t + l) = ToTake(off, n, t)
    BY <1>1, <1>4, <1>7 DEF ToSkip, ToTake
  <2> QED  BY <2>1, <2>2, <2>3 DEF iov, l
<1>8. CASE acc.len # 0 /\ acc.off < l
  <2> DEFINE take == Min({l - acc.off, acc.len})
             e == [iov EXCEPT !.base = @ + acc.off, !.len = take]
             c == n - acc.len
  <2>0. acc.off \in 0..(l - 1) /\ acc.len \in Nat \ {0}
    BY <1>1, <1>5, <1>8
  <2>1. take = IF l - acc.off <= acc.len THEN l - acc.off ELSE acc.len
    <3>1. l \in Nat /\ acc.off \in Nat /\ acc.len \in Nat  BY <1>1, <1>5
    <3>2. l - acc.off \in Int /\ acc.len \in Int  BY ONLY <3>1
    <3> QED  BY ONLY <3>2, MinTwo
  <2>2. ~(acc.off >= l)  BY <1>1, <1>5, <1>8
  <2>3. SliceOne(acc, iov).out = Append(acc.out, e)
    BY ONLY <1>2, <1>8, <2>2 DEF SliceOne
  <2> HIDE DEF take
  <2>4. take \in Nat /\ take <= acc.len /\ take <= l - acc.off
    BY ONLY <1>1, <2>0, <2>1
  <2>5. /\ e \in Iov /\ e.len = take /\ e.buf = iov.buf
        /\ e.base = iov.base + acc.off
    <3> DEFINE o == iov.base + acc.off
    <3>1. o \in Nat  BY <1>2, <1>5
    <3>2. e = [iov EXCEPT !.base = o, !.len = take]  OBVIOUS
    <3> HIDE DEF o, e
    <3>3. /\ [iov EXCEPT !.base = o, !.len = take] \in Iov
          /\ [iov EXCEPT !.base = o, !.len = take].len = take
          /\ [iov EXCEPT !.base = o, !.len = take].base = o
          /\ [iov EXCEPT !.base = o, !.len = take].buf = iov.buf
      BY ONLY <1>1, <2>4, <3>1 DEF Iov
    <3> QED  BY <3>2, <3>3 DEF o
  <2> HIDE DEF e
  <2>6. t + acc.off = off + c /\ n - ToTake(off, n, t + l) = c + take
        /\ c \in Nat
    <3>1. acc.off = ToSkip(off, t) /\ acc.len = ToTake(off, n, t)
      BY <1>4
    <3>2. CASE t <= off
      BY ONLY <1>1, <2>0, <2>1, <3>1, <3>2, off \in Nat, n \in Nat DEF ToSkip, ToTake, c
    <3>3. CASE ~(t <= off)
      <4> DEFINE b == acc.len
      <4>1. acc.off = 0  BY <3>1, <3>3 DEF ToSkip
      <4>2. ~(t >= off + n) /\ b = off + n - t
        BY <1>1, <2>0, <3>1, <3>3 DEF ToTake
      <4>3. take = IF l <= b THEN l ELSE b  BY <1>1, <2>1, <4>1
      <4>4. ToTake(off, n, t + l) = IF t + l >= off + n THEN 0 ELSE off + n - (t + l)
        BY <1>1, <3>3 DEF ToTake
      <4>7. c = n - b  OBVIOUS
      <4> HIDE DEF b, c
      <4>5. CASE l <= b
        BY ONLY <1>1, <3>3, <4>1, <4>2, <4>3, <4>4, <4>5, <4>7, off \in Nat, n \in Nat
      <4>6. CASE ~(l <= b)
        BY ONLY <1>1, <3>3, <4>1, <4>2, <4>3, <4>4, <4>6, <4>7, off \in Nat, n \in Nat
      <4> QED  BY ONLY <4>5, <4>6
    <3> QED  BY <3>2, <3>3
  <2> HIDE DEF c
  <2>7. TakenOut(acc.out, v, off, c)  BY <1>4 DEF c
  <2>8. /\ acc.out \in Seq(Iov) /\ Len(Bytes(acc.out)) = c
        /\ \A j \in 1..c : Bytes(acc.out)[j] = Bytes(v)[off + j]
    BY <2>7 DEF TakenOut
  <2> DEFINE w == Append(acc.out, e)
  <2>9. /\ w \in Seq(Iov) /\ Len(Bytes(w)) = c + take
        /\ \A k \in 1..c : Bytes(w)[k] = Bytes(acc.out)[k]
        /\ \A j \in 1..take : Bytes(w)[c + j] = <<e.buf, e.base + j - 1>>
    BY <2>5, <2>8, BytesAppend
  <2> HIDE DEF w
  <2>10. ASSUME NEW k \in 1..(c + take) PROVE Bytes(w)[k] = Bytes(v)[off + k]
    <3>1. CASE k <= c
      <4>1. k \in 1..c  BY <2>6, <3>1
      <4> QED  BY <2>8, <2>9, <4>1
    <3>2. CASE ~(k <= c)
      <4> DEFINE j == k - c
                 q == acc.off + j
      <4>1. /\ j \in 1..take /\ c + j = k /\ q \in 1..l
            /\ off + k = t + q /\ iov.base + acc.off + j - 1 = iov.base + q - 1
        <5>1. j \in 1..take /\ c + j = k  BY <2>4, <2>6, <3>2
        <5> HIDE DEF j
        <5>2. q \in 1..l
          <6> DEFINE o == acc.off
          <6>1. o \in Nat /\ l \in Nat /\ take \in Nat /\ take <= l - o
            BY ONLY <1>1, <1>5, <2>4
          <6>2. j \in 1..take  BY ONLY <5>1
          <6> HIDE DEF o
          <6>3. o + j \in 1..l  BY ONLY <6>1, <6>2
          <6> QED  BY <6>3 DEF o
        <5>3. off + k = t + q
          <6> DEFINE o == acc.off
          <6>1. o \in Int /\ t + o = off + c  BY <2>0, <2>6
          <6> HIDE DEF o
          <6>2. off + k = t + (o + j)
            BY ONLY <1>1, <2>4, <2>6, <5>1, <6>1, off \in Nat
          <6> QED  BY <6>2 DEF o
        <5>4. iov.base + acc.off + j - 1 = iov.base + q - 1
          BY ONLY <1>2, <2>0, <2>4, <5>1
        <5> QED  BY <5>1, <5>2, <5>3, <5>4
      <4> HIDE DEF j, q
      <4>2. Bytes(w)[c + j] = <<iov.buf, iov.base + acc.off + j - 1>>
        BY <2>5, <2>9, <4>1
      <4>3. Bytes(v)[t + q] = <<iov.buf, iov.base + q - 1>>
        BY <1>1, <4>1
      <4> QED  BY <4>1, <4>2, <4>3
    <3> QED  BY <3>1, <3>2
  <2>11. TakenOut(w, v, off, c + take)
    BY <2>9, <2>10 DEF TakenOut
  <2> QED  BY <2>3, <2>6, <2>11 DEF w, iov, l
<1>9. acc.off >= l \/ acc.off < l  BY <1>1, <1>5
<1> QED  BY ONLY <1>6, <1>7, <1>8, <1>9

\* A cut that the list has the bytes for takes just those.
LEMMA SliceFacts ==
  ASSUME NEW v \in Seq(Iov), NEW off \in Nat, NEW n \in Nat \ {0},
         off + n <= Len(Bytes(v))
  PROVE  Slice(v, off, n).len = 0 /\ TakenOut(Slice(v, off, n).out, v, off, n)
<1> DEFINE f == SliceFcn(v, off, n)
           lens == Lens(v)
           At(i) == /\ CutAt(f[i], off, n, SumTo(lens, i))
                    /\ TakenOut(f[i].out, v, off, n - ToTake(off, n, SumTo(lens, i)))
           D == {i \in Nat : i <= Len(v) => At(i)}
<1>1. /\ Len(v) \in Nat
      /\ \A m \in 0..Len(v) : SumTo(lens, m) \in Nat
      /\ \A i \in 1..Len(v) : lens[i] \in Nat /\ v[i].len = lens[i]
      /\ off + n <= SumTo(lens, Len(v))
  BY BytesFacts DEF Lens
<1>2. /\ f[0] = [off |-> off, len |-> n, out |-> <<>>]
      /\ \A i \in 1..Len(v) : f[i] = SliceOne(f[i - 1], v[i])
  BY <1>1, SliceDefined
<1> HIDE DEF f, At, lens
<1>3. 0 \in D
  <2>1. SumTo(lens, 0) = 0  BY SumFacts
  <2>2. ToSkip(off, 0) = off /\ ToTake(off, n, 0) = n /\ n - n = 0
    BY DEF ToSkip, ToTake
  <2>3. TakenOut(<<>>, v, off, 0)
    <3>1. <<>> \in Seq(Iov) /\ Len(<<>>) = 0  OBVIOUS
    <3>2. Len(Bytes(<<>>)) = SumTo(Lens(<<>>), 0)  BY <3>1, BytesFacts
    <3>3. SumTo(Lens(<<>>), 0) = 0  BY SumFacts
    <3> QED  BY <3>1, <3>2, <3>3 DEF TakenOut
  <2>4. f[0].out = <<>>  BY <1>2
  <2>5. At(0)  BY <1>2, <2>1, <2>2, <2>3, <2>4 DEF At, CutAt
  <2> QED  BY <2>5
<1>4. ASSUME NEW i \in Nat, i \in D PROVE i + 1 \in D
  <2> SUFFICES ASSUME i + 1 <= Len(v) PROVE At(i + 1)
    OBVIOUS
  <2> DEFINE u == i + 1
  <2>1. u \in 1..Len(v) /\ i <= Len(v) /\ i \in 0..Len(v) /\ u - 1 = i
    BY <1>1
  <2>2. At(i)  BY <1>4, <2>1
  <2> DEFINE t   == SumTo(lens, i)
             acc == f[i]
  <2>3. CutAt(acc, off, n, t) /\ TakenOut(acc.out, v, off, n - ToTake(off, n, t))
    BY <2>2 DEF At
  <2>4. t \in Nat /\ lens[u] \in Nat /\ v[u].len = lens[u]  BY <1>1, <2>1
  <2>5. SumTo(lens, u) = t + lens[u]  BY SumFacts
  <2> HIDE DEF u
  <2>6. f[u] = SliceOne(acc, v[u])  BY <1>2, <2>1
  <2>7. t = SumTo(Lens(v), u - 1)  BY <2>1 DEF lens
  <2> HIDE DEF t, acc
  <2>8. CutAt(SliceOne(acc, v[u]), off, n, t + lens[u])
    BY ONLY off \in Nat, n \in Nat \ {0}, <2>3, <2>4, SliceOneFacts
  <2>9. TakenOut(SliceOne(acc, v[u]).out, v, off, n - ToTake(off, n, t + Lens(v)[u]))
    BY ONLY v \in Seq(Iov), off \in Nat, n \in Nat \ {0}, <2>1, <2>3, <2>7, SliceOneTakes
  <2> QED  BY <2>5, <2>6, <2>8, <2>9 DEF At, u, lens
<1>5. At(Len(v))
  <2>1. Len(v) \in D
    <3> HIDE DEF D
    <3> QED  BY <1>1, <1>3, <1>4, SetInduction
  <2> QED  BY <1>1, <2>1
<1>6. ToTake(off, n, SumTo(lens, Len(v))) = 0
  <2>1. SumTo(lens, Len(v)) \in Nat  BY <1>1
  <2> QED  BY <1>1, <2>1 DEF ToTake
<1>7. f[Len(v)].len = 0 /\ TakenOut(f[Len(v)].out, v, off, n)
  BY <1>5, <1>6 DEF At, CutAt
<1> QED  BY <1>7, SliceIs DEF f

-----------------------------------------------------------------------------
(* The list of a request                                                   *)

\* The list of a request names every byte of its memory once.
LEMMA ListFacts ==
  ASSUME NEW N \in Nat, NEW v \in Lists(N)
  PROVE  v \in Seq(Iov) /\ Distinct(v) /\ Len(Bytes(v)) = N
<1> DEFINE Cut(k, f) == [i \in 1..k |-> [buf |-> i, base |-> 0, len |-> f[i]]]
           Of(k) == {Cut(k, f) : f \in {g \in [1..k -> 0..N] : SumTo(g, k) = N}}
<1>1. PICK k \in 1..MaxIovs : v \in Of(k)
  <2>1. v \in UNION {Of(k) : k \in 1..MaxIovs}  BY Zenon DEF Lists
  <2> HIDE DEF Of
  <2> QED  BY <2>1
<1>2. PICK f \in [1..k -> 0..N] : SumTo(f, k) = N /\ v = Cut(k, f)
  <2> HIDE DEF Cut
  <2> QED  BY <1>1
<1>3. k \in Nat  BY SplitAssumption
<1>4. ASSUME NEW i \in 1..k
      PROVE  /\ v[i] \in Iov /\ v[i].buf = i /\ v[i].base = 0 /\ v[i].len = f[i]
  <2>1. i \in Nat /\ f[i] \in Nat  BY <1>3
  <2> DEFINE x == f[i]
  <2>2. v[i] = [buf |-> i, base |-> 0, len |-> x]  BY <1>2
  <2>3. x \in Nat  BY <2>1
  <2> HIDE DEF x
  <2> QED  BY <2>1, <2>2, <2>3 DEF Iov, x
<1>5. v \in Seq(Iov) /\ Len(v) = k
  <2>1. v = [i \in 1..k |-> v[i]]  BY <1>2
  <2> HIDE DEF Cut
  <2>2. v \in [1..k -> Iov]  BY <1>4, <2>1
  <2> QED  BY <1>3, <2>2
<1> DEFINE lens == Lens(v)
           B == Bytes(v)
<1>6. \A i \in 1..k : lens[i] = f[i] /\ lens[i] \in Nat
  BY <1>3, <1>4, <1>5 DEF Lens
<1>7. SumTo(lens, k) = N
  <2> HIDE DEF lens
  <2>1. \A i \in 1..k : f[i] = lens[i]  BY <1>6
  <2> QED  BY <1>2, <1>3, <2>1, SumFacts
<1>8. /\ Len(B) = N
      /\ \A i \in 1..k : \A j \in 1..lens[i] :
           B[SumTo(lens, i - 1) + j] = <<v[i].buf, v[i].base + j - 1>>
  BY <1>5, <1>7, BytesFacts
<1> HIDE DEF lens, B
<1>9. ASSUME NEW p \in 1..N
      PROVE  \E i \in 1..k : \E j \in 1..lens[i] :
               p = SumTo(lens, i - 1) + j /\ B[p] = <<i, j - 1>>
  <2>1. p \in 1..SumTo(lens, k)  BY <1>7
  <2>2. PICK i \in 1..k : \E j \in 1..lens[i] : p = SumTo(lens, i - 1) + j
    BY ONLY <1>3, <1>6, <2>1, Locate
  <2>3. PICK j \in 1..lens[i] : p = SumTo(lens, i - 1) + j  BY <2>2
  <2>4. B[p] = <<v[i].buf, v[i].base + j - 1>>  BY <1>8, <2>3
  <2>5. v[i].buf = i /\ v[i].base + j - 1 = j - 1  BY <1>4
  <2> QED  BY <2>3, <2>4, <2>5
<1>10. ASSUME NEW p \in 1..N, NEW q \in 1..N, B[p] = B[q] PROVE p = q
  <2>1. PICK i \in 1..k : \E j \in 1..lens[i] :
               p = SumTo(lens, i - 1) + j /\ B[p] = <<i, j - 1>>
    BY <1>9
  <2>2. PICK j \in 1..lens[i] : p = SumTo(lens, i - 1) + j /\ B[p] = <<i, j - 1>>
    BY <2>1
  <2>3. PICK r \in 1..k : \E s \in 1..lens[r] :
               q = SumTo(lens, r - 1) + s /\ B[q] = <<r, s - 1>>
    BY <1>9
  <2>4. PICK s \in 1..lens[r] : q = SumTo(lens, r - 1) + s /\ B[q] = <<r, s - 1>>
    BY <2>3
  <2>5. <<i, j - 1>> = <<r, s - 1>>  BY <1>10, <2>2, <2>4
  <2>6. i = r /\ j - 1 = s - 1  BY <2>5
  <2>7. j = s  BY <2>6
  <2> QED  BY <2>2, <2>4, <2>6, <2>7
<1>11. Distinct(v)  BY <1>8, <1>10 DEF Distinct, B
<1> QED  BY <1>5, <1>8, <1>11 DEF B

-----------------------------------------------------------------------------
(* Where a strip goes                                                      *)

\* The sizes of the layout are positive.
LEMMA SplitSizes ==
  /\ NDisks \in Nat /\ NDisks - 1 \in Nat \ {0}
  /\ StripBlocks \in Nat \ {0} /\ NStripes \in Nat \ {0}
  /\ StripeBlocks \in Nat \ {0} /\ BlockLen \in Nat \ {0}
<1>1. /\ NDisks \in Nat /\ NDisks >= 3 /\ StripBlocks \in Nat \ {0}
      /\ NStripes \in Nat \ {0} /\ BlockLen \in Nat \ {0}
  BY LayoutAssumption, SplitAssumption
<1>2. \A a, b \in Nat \ {0} : a * b \in Nat \ {0}
  OBVIOUS
<1>3. NDisks - 1 \in Nat \ {0}  BY <1>1
<1> QED  BY <1>1, <1>2, <1>3 DEF StripeBlocks

\* A block is its place in its stripe.
LEMMA BlockPlace ==
  ASSUME NEW b \in Blocks
  PROVE  /\ StripeIdx(b) \in Stripes
         /\ StripeOffset(b) \in 0..(StripeBlocks - 1)
         /\ b = StripeIdx(b) * StripeBlocks + StripeOffset(b)
<1>1. b \in Nat /\ b \in 0..(NStripes * StripeBlocks - 1)
  BY SplitSizes DEF Blocks
<1> QED  BY <1>1, SplitSizes, DivMod, DivBelow
       DEF StripeIdx, StripeOffset, Stripes

\* A strip s that carries blocks of the request of n blocks from b on, from its
\* block k on, stays in the request and in one strip of the stripe, and goes
\* where its first block goes.
StripAt(b, n, s, k) ==
  LET c == StripeOffset(b) + k IN
  /\ k \in Nat /\ s.blocks \in 1..StripBlocks
  /\ (c % StripBlocks) + s.blocks <= StripBlocks
  /\ k + s.blocks <= n
  /\ s.disk = DataDisk(c \div StripBlocks, ParityDisk(StripeIdx(b)))
  /\ s.row = Row(StripeIdx(b), c % StripBlocks)

\* Then each of its blocks is where the layout says.
LEMMA StripPlaced ==
  ASSUME first \in Blocks, len \in 1..(StripeBlocks - StripeOffset(first)),
         NEW s, NEW k, StripAt(first, len, s, k),
         NEW b \in (first + k) .. (first + k + s.blocks - 1)
  PROVE  /\ s.disk = DiskOf(b)
         /\ s.row + (b - first - k) = Row(StripeIdx(b), OffsetIn(b))
<1> DEFINE t == StripeIdx(first)
           o == StripeOffset(first)
           c == o + k
           d == b - first - k
           n == s.blocks
<1>1. /\ k \in Nat /\ n \in 1..StripBlocks
      /\ (c % StripBlocks) + n <= StripBlocks
      /\ k + n <= len
      /\ s.disk = DataDisk(c \div StripBlocks, ParityDisk(t))
      /\ s.row = Row(t, c % StripBlocks)
  BY DEF StripAt
<1>2. /\ t \in Nat /\ o \in 0..(StripeBlocks - 1)
      /\ first = t * StripeBlocks + o /\ first \in Nat
  BY BlockPlace, SplitSizes DEF Stripes, Blocks
<1>3. d \in 0..(n - 1) /\ b = first + k + d
  BY <1>1, <1>2
<1>4. c + d \in 0..(StripeBlocks - 1) /\ c \in Nat
  BY <1>1, <1>2, <1>3, SplitSizes
<1> HIDE DEF t, o, d, n
<1>5. b = t * StripeBlocks + (c + d)
  <2>1. t * StripeBlocks \in Nat  BY <1>2, SplitSizes
  <2> QED  BY <1>1, <1>2, <1>3, <2>1
<1> HIDE DEF c
<1>6. StripeIdx(b) = t /\ StripeOffset(b) = c + d
  BY <1>2, <1>4, <1>5, SplitSizes, DivModUnique DEF StripeIdx, StripeOffset
<1> DEFINE q == c \div StripBlocks
           m == c % StripBlocks
<1>7. q \in Nat /\ m \in 0..(StripBlocks - 1) /\ c = q * StripBlocks + m
  BY <1>4, SplitSizes, DivMod
<1>8. s.disk = DataDisk(q, ParityDisk(t)) /\ s.row = Row(t, m)
      /\ m + n <= StripBlocks
  BY <1>1
<1> HIDE DEF q, m
<1>9. m + d \in 0..(StripBlocks - 1) /\ c + d = q * StripBlocks + (m + d)
  <2>1. q * StripBlocks \in Nat  BY <1>7, SplitSizes
  <2> QED  BY <1>1, <1>3, <1>7, <1>8, <2>1, SplitSizes
<1>10. (c + d) \div StripBlocks = q /\ (c + d) % StripBlocks = m + d
  <2>1. StripBlocks \in Nat \ {0}  BY SplitSizes
  <2> QED  BY ONLY <1>7, <1>9, <2>1, DivModUnique
<1>11. s.disk = DiskOf(b)
  BY <1>6, <1>8, <1>10 DEF DiskOf
<1>12. Row(StripeIdx(b), OffsetIn(b)) = s.row + d
  <2>1. t * StripBlocks \in Nat  BY <1>2, SplitSizes
  <2> QED  BY <1>3, <1>6, <1>7, <1>8, <1>10, <2>1 DEF Row, OffsetIn
<1> QED  BY <1>11, <1>12 DEF d

-----------------------------------------------------------------------------
(* The loop                                                                *)

\* Before, of any sequence of strips.
BeforeOf(cut, i) == SumTo([j \in 1..(i - 1) |-> cut[j].blocks], i - 1)

\* Its progress: what is cut of the request is what the strips carry.
Progress ==
  /\ first \in Blocks /\ len \in 1..(StripeBlocks - StripeOffset(first))
  /\ iovs \in Lists(len * BlockLen)
  /\ remain \in 0..len
  /\ cursor = StripeOffset(first) + (len - remain)
  /\ bytesCut = (len - remain) * BlockLen
  /\ panic = FALSE
  /\ \E S : strips \in Seq(S)
  /\ BeforeOf(strips, Len(strips) + 1) = len - remain
  /\ remain # 0 /\ Len(strips) # 0 => cursor % StripBlocks = 0

\* Strip s, the i-th, carries blocks of the request from its block k on, with
\* their bytes; every strip but the first begins a strip of its disk.
CutRight(b, n, v, s, i, k) ==
  /\ StripAt(b, n, s, k)
  /\ TakenOut(s.iovs, v, k * BlockLen, s.blocks * BlockLen)
  /\ i # 1 => (StripeOffset(b) + k) % StripBlocks = 0

SplitInv ==
  /\ Progress
  /\ \A i \in 1..Len(strips) :
       CutRight(first, len, iovs, strips[i], i, BeforeOf(strips, i))

LEMMA SplitInit == Init => SplitInv
<1> SUFFICES ASSUME Init PROVE SplitInv
  OBVIOUS
<1>1. strips = <<>> /\ <<>> \in Seq({}) /\ Len(<<>>) = 0
  BY DEF Init
<1>2. BeforeOf(strips, Len(strips) + 1) = 0
  <2>1. BeforeOf(strips, 1) = SumTo([j \in 1..0 |-> strips[j].blocks], 0)
    BY DEF BeforeOf
  <2> QED  BY <1>1, <2>1, SumFacts
<1>3. len \in Nat \ {0} /\ StripeOffset(first) \in Nat
  BY BlockPlace, SplitSizes DEF Init
<1>4. 0 * BlockLen = 0  BY SplitSizes
<1>5. Progress  BY <1>1, <1>2, <1>3, <1>4 DEF Init, Progress
<1> QED  BY <1>1, <1>5 DEF SplitInv

\* The blocks of the next strip, and where it begins.
LEMMA TakeFacts ==
  ASSUME Progress, remain # 0
  PROVE  /\ Take \in 1..StripBlocks /\ Take <= remain
         /\ (cursor % StripBlocks) + Take <= StripBlocks
         /\ cursor \in 0..(StripeBlocks - 1)
         /\ Take = remain \/ (cursor + Take) % StripBlocks = 0
<1>1. /\ len \in Nat /\ remain \in Nat \ {0} /\ remain <= len
      /\ StripeOffset(first) \in Nat
      /\ cursor = StripeOffset(first) + (len - remain)
      /\ len <= StripeBlocks - StripeOffset(first)
  BY BlockPlace, SplitSizes DEF Progress
<1>2. cursor \in 0..(StripeBlocks - 1) /\ cursor \in Nat
  BY <1>1, SplitSizes
<1>3. cursor % StripBlocks \in 0..(StripBlocks - 1)
  BY <1>2, SplitSizes, DivMod
<1> DEFINE rest == StripBlocks - (cursor % StripBlocks)
<1>4. rest \in 1..StripBlocks /\ rest + (cursor % StripBlocks) = StripBlocks
  BY <1>3, SplitSizes
<1>5. Take = Min({remain, rest})  BY DEF Take
<1> HIDE DEF rest
<1>6. Take = IF remain <= rest THEN remain ELSE rest
  BY <1>1, <1>4, <1>5, MinTwo
<1>7. Take = remain \/ (cursor + Take) % StripBlocks = 0
  <2> DEFINE q == cursor \div StripBlocks
             m == cursor % StripBlocks
  <2>1. q \in Nat /\ cursor = q * StripBlocks + m  BY <1>2, SplitSizes, DivMod
  <2>2. m + rest = StripBlocks /\ m \in Nat  BY <1>3, <1>4
  <2>3. CASE Take = rest
    <3> HIDE DEF q, m
    <3>1. (q + 1) * StripBlocks = q * StripBlocks + StripBlocks
          /\ q * StripBlocks \in Nat
      BY <2>1, SplitSizes
    <3>2. cursor + Take = (q + 1) * StripBlocks + 0
      BY <1>4, <2>1, <2>2, <2>3, <3>1, SplitSizes
    <3>3. 0 \in 0..(StripBlocks - 1) /\ q + 1 \in Nat  BY <2>1, SplitSizes
    <3> QED  BY <3>2, <3>3, SplitSizes, DivModUnique
  <2> QED  BY <1>6, <2>3
<1> QED  BY <1>1, <1>2, <1>3, <1>4, <1>6, <1>7, SplitSizes

\* The blocks before strip i are those of the strips before it.
LEMMA BeforeSame ==
  ASSUME NEW old, NEW new, NEW i \in Nat \ {0},
         \A j \in 1..(i - 1) : new[j].blocks = old[j].blocks
  PROVE  BeforeOf(new, i) = BeforeOf(old, i)
<1>1. [j \in 1..(i - 1) |-> new[j].blocks]
        = [j \in 1..(i - 1) |-> old[j].blocks]
  OBVIOUS
<1> QED  BY <1>1 DEF BeforeOf

\* One strip more adds its blocks.
LEMMA BeforeNext ==
  ASSUME NEW cut, NEW i \in Nat \ {0}
  PROVE  BeforeOf(cut, i + 1) = BeforeOf(cut, i) + cut[i].blocks
<1> DEFINE f == [j \in 1..(i - 1) |-> cut[j].blocks]
           g == [j \in 1..i |-> cut[j].blocks]
<1>1. i - 1 \in Nat /\ i - 1 + 1 = i /\ i + 1 - 1 = i  OBVIOUS
<1>2. BeforeOf(cut, i) = SumTo(f, i - 1) /\ BeforeOf(cut, i + 1) = SumTo(g, i)
  BY <1>1 DEF BeforeOf
<1>3. \A j \in 1..(i - 1) : f[j] = g[j]  OBVIOUS
<1>4. g[i] = cut[i].blocks  OBVIOUS
<1> HIDE DEF f, g
<1>5. SumTo(g, i) = SumTo(g, i - 1) + g[i]
  BY <1>1, SumFacts
<1>6. SumTo(f, i - 1) = SumTo(g, i - 1)
  BY <1>3, <1>1, SumFacts
<1> QED  BY <1>2, <1>4, <1>5, <1>6

\* A take carries the next blocks, and what it cuts off goes where they go.
LEMMA SplitStep == SplitInv /\ NextStrip => SplitInv'
<1> SUFFICES ASSUME SplitInv, NextStrip PROVE SplitInv'
  OBVIOUS
<1> DEFINE n == Take * BlockLen
           s == [disk |-> NextDisk, row |-> NextRow, blocks |-> Take,
                 iovs |-> Slice(iovs, bytesCut, n).out]
<1>1. Progress /\ remain # 0  BY DEF SplitInv, NextStrip
<1>2. /\ len \in Nat /\ remain \in Nat /\ remain <= len
      /\ bytesCut = (len - remain) * BlockLen
      /\ iovs \in Lists(len * BlockLen)
      /\ cursor = StripeOffset(first) + (len - remain)
      /\ BeforeOf(strips, Len(strips) + 1) = len - remain
      /\ len - remain \in Nat
  BY <1>1, BlockPlace, SplitSizes DEF Progress
<1>3. /\ Take \in 1..StripBlocks /\ Take <= remain
      /\ (cursor % StripBlocks) + Take <= StripBlocks
      /\ cursor \in 0..(StripeBlocks - 1) /\ Take \in Nat \ {0}
      /\ Take = remain \/ (cursor + Take) % StripBlocks = 0
  BY <1>1, TakeFacts
<1>4. n \in Nat \ {0} /\ bytesCut \in Nat /\ len * BlockLen \in Nat
      /\ bytesCut + n = (len - (remain - Take)) * BlockLen
      /\ bytesCut + n <= len * BlockLen
  BY <1>2, <1>3, SplitSizes
<1>5. /\ Slice(iovs, bytesCut, n).len = 0
      /\ TakenOut(Slice(iovs, bytesCut, n).out, iovs, bytesCut, n)
  <2>1. iovs \in Seq(Iov) /\ Len(Bytes(iovs)) = len * BlockLen
    BY <1>2, <1>4, ListFacts
  <2> HIDE DEF n
  <2> QED  BY <1>4, <2>1, SliceFacts
<1>6. /\ strips' = Append(strips, s)
      /\ cursor' = cursor + Take
      /\ remain' = remain - Take
      /\ bytesCut' = bytesCut + n
      /\ panic' = panic
      /\ first' = first /\ len' = len /\ iovs' = iovs
  BY <1>4, <1>5 DEF NextStrip
<1>7. /\ s.blocks = Take /\ s.disk = NextDisk /\ s.row = NextRow
      /\ s.iovs = Slice(iovs, bytesCut, n).out
  OBVIOUS
<1> HIDE DEF n, s
<1>8. PICK S : strips \in Seq(S)  BY <1>1 DEF Progress
<1>9. /\ Len(strips) \in Nat /\ Len(strips') = Len(strips) + 1
      /\ \A i \in 1..Len(strips) : strips'[i] = strips[i]
      /\ strips'[Len(strips) + 1] = s
      /\ strips' \in Seq(S \cup {s})
  BY <1>6, <1>8
<1>10. \A i \in 1..(Len(strips) + 1) :
         BeforeOf(strips', i) = BeforeOf(strips, i)
  <2>1. TAKE i \in 1..(Len(strips) + 1)
  <2>2. i \in Nat \ {0} /\ \A j \in 1..(i - 1) : j \in 1..Len(strips)
    BY <1>9
  <2>3. \A j \in 1..(i - 1) : strips'[j].blocks = strips[j].blocks
    BY <1>9, <2>2
  <2> QED  BY <2>2, <2>3, BeforeSame
<1> DEFINE L == Len(strips) + 1
<1>11. L \in Nat \ {0} /\ L \in 1..L /\ Len(strips') = L
       /\ BeforeOf(strips', L) = BeforeOf(strips, L)
       /\ BeforeOf(strips, L) = len - remain
       /\ strips'[L] = s
  BY <1>2, <1>9, <1>10
<1>12. BeforeOf(strips', L + 1) = len' - remain'
  <2> HIDE DEF L
  <2>1. BeforeOf(strips', L + 1) = BeforeOf(strips', L) + strips'[L].blocks
    BY <1>11, BeforeNext
  <2> QED  BY <1>2, <1>3, <1>6, <1>7, <1>11, <2>1
<1>13. Progress'
  <2>1. remain' \in 0..len /\ cursor' = StripeOffset(first) + (len - remain')
    BY <1>1, <1>2, <1>3, <1>6, BlockPlace DEF Progress
  <2>2. BeforeOf(strips', Len(strips') + 1) = len' - remain'
    BY <1>11, <1>12
  <2>3. /\ first' \in Blocks
        /\ len' \in 1..(StripeBlocks - StripeOffset(first'))
        /\ iovs' \in Lists(len' * BlockLen) /\ panic' = FALSE
        /\ remain' \in 0..len'
        /\ cursor' = StripeOffset(first') + (len' - remain')
        /\ bytesCut' = (len' - remain') * BlockLen
    BY <1>1, <1>2, <1>4, <1>6, <2>1 DEF Progress
  <2>4. \E T : strips' \in Seq(T)  BY <1>9
  <2>5. remain' # 0 => cursor' % StripBlocks = 0
    BY <1>2, <1>3, <1>6
  <2> QED  BY <2>2, <2>3, <2>4, <2>5 DEF Progress
<1>14. CutRight(first, len, iovs, s, L, len - remain)
  <2>1. StripAt(first, len, s, len - remain)
    BY <1>2, <1>3, <1>7 DEF StripAt, NextDisk, NextRow, Stripe
  <2>2. TakenOut(s.iovs, iovs, (len - remain) * BlockLen, s.blocks * BlockLen)
    BY <1>2, <1>5, <1>7 DEF n
  <2>3. L # 1 => (StripeOffset(first) + (len - remain)) % StripBlocks = 0
    BY <1>1, <1>2, <1>9 DEF Progress
  <2> QED  BY <2>1, <2>2, <2>3 DEF CutRight
<1>15. ASSUME NEW i \in 1..L
       PROVE  CutRight(first', len', iovs', strips'[i], i, BeforeOf(strips', i))
  <2>1. CASE i = L
    BY <1>6, <1>11, <1>14, <2>1
  <2>2. CASE i # L
    <3>1. i \in 1..Len(strips) /\ i \in 1..L  BY <1>9, <2>2
    <3>2. CutRight(first, len, iovs, strips[i], i, BeforeOf(strips, i))
      BY <3>1 DEF SplitInv
    <3> QED  BY <1>6, <1>9, <1>10, <3>1, <3>2
  <2> QED  BY <2>1, <2>2
<1> QED  BY <1>11, <1>13, <1>15 DEF SplitInv

LEMMA SplitKept == SplitInv /\ [Next]_vars => SplitInv'
<1>1. SplitInv /\ UNCHANGED vars => SplitInv'
  BY DEF SplitInv, Progress, vars
<1> QED  BY <1>1, SplitStep DEF Next

\* The invariant of the loop is that of its result.
LEMMA SplitPlaces == SplitInv => Placed
<1> SUFFICES ASSUME SplitInv PROVE Placed
  OBVIOUS
<1>1. /\ first \in Blocks /\ len \in 1..(StripeBlocks - StripeOffset(first))
      /\ panic = FALSE
      /\ BeforeOf(strips, Len(strips) + 1) = len - remain
  BY DEF SplitInv, Progress
<1>2. DOMAIN strips = 1..Len(strips)
  BY DEF SplitInv, Progress
<1>3. ASSUME NEW i \in DOMAIN strips, NEW b \in BlocksOf(i)
      PROVE  /\ strips[i].disk = DiskOf(b)
             /\ strips[i].row + (b - first - Before(i))
                  = Row(StripeIdx(b), OffsetIn(b))
  <2> DEFINE s == strips[i]
             k == Before(i)
  <2>1. StripAt(first, len, s, k)
    BY <1>2 DEF SplitInv, CutRight, Before, BeforeOf
  <2>2. b \in (first + k) .. (first + k + s.blocks - 1)
    BY DEF BlocksOf
  <2> HIDE DEF s, k
  <2>3. /\ s.disk = DiskOf(b)
        /\ s.row + (b - first - k) = Row(StripeIdx(b), OffsetIn(b))
    BY <1>1, <2>1, <2>2, StripPlaced
  <2> QED  BY <2>3 DEF s, k
<1>4. Before(Len(strips) + 1) = len - remain
  BY <1>1 DEF Before, BeforeOf
<1> QED  BY <1>1, <1>3, <1>4 DEF Placed

\* The invariant of the loop gives its types.
LEMMA SplitTypes == SplitInv => TypeOK
<1> SUFFICES ASSUME SplitInv PROVE TypeOK
  OBVIOUS
<1>1. /\ first \in Blocks /\ len \in 1..(StripeBlocks - StripeOffset(first))
      /\ remain \in 0..len /\ panic = FALSE
      /\ cursor = StripeOffset(first) + (len - remain)
      /\ bytesCut = (len - remain) * BlockLen
      /\ StripeIdx(first) \in Stripes
      /\ StripeOffset(first) \in 0..(StripeBlocks - 1)
  BY BlockPlace DEF SplitInv, Progress
<1>2. len \in 1..StripeBlocks /\ cursor \in 0..StripeBlocks
  BY <1>1, SplitSizes
<1>3. bytesCut \in 0..(len * BlockLen)
  <2>1. \A a, b, c \in Nat :
          a <= b => a * c \in Nat /\ b * c \in Nat /\ a * c <= b * c
    OBVIOUS
  <2>2. len - remain \in Nat /\ len \in Nat /\ len - remain <= len
    BY <1>1, <1>2
  <2> QED  BY <1>1, <2>1, <2>2, SplitSizes
<1>4. ASSUME NEW i \in DOMAIN strips
      PROVE  /\ strips[i].disk \in Disks /\ strips[i].row \in Rows
             /\ strips[i].blocks \in 1..StripBlocks
  <2> DEFINE s == strips[i]
             k == BeforeOf(strips, i)
             t == StripeIdx(first)
             c == StripeOffset(first) + k
  <2>1. StripAt(first, len, s, k)
    <3>1. DOMAIN strips = 1..Len(strips)  BY DEF SplitInv, Progress
    <3> QED  BY <3>1 DEF SplitInv, CutRight
  <2> HIDE DEF s, k
  <2>2. /\ k \in Nat /\ s.blocks \in 1..StripBlocks /\ k + s.blocks <= len
        /\ s.disk = DataDisk(c \div StripBlocks, ParityDisk(t))
        /\ s.row = Row(t, c % StripBlocks)
    BY <2>1 DEF StripAt
  <2>3. c \in 0..((NDisks - 1) * StripBlocks - 1) /\ c \in Nat
    BY <1>1, <2>2, SplitSizes DEF StripeBlocks
  <2> HIDE DEF c, t
  <2>4. /\ c \div StripBlocks \in 0..(NDisks - 1 - 1)
        /\ c % StripBlocks \in 0..(StripBlocks - 1)
    BY <2>3, SplitSizes, DivMod, DivBelow
  <2>5. s.disk \in Disks
    BY <2>2, <2>4, SplitSizes DEF DataDisk, Disks
  <2>6. t \in 0..(NStripes - 1)
    BY <1>1 DEF t, Stripes
  <2>7. s.row \in Rows
    BY <2>2, <2>4, <2>6, SplitSizes, PlaceBelow DEF Row, Rows
  <2> QED  BY <2>2, <2>5, <2>7 DEF s
<1> QED  BY <1>1, <1>2, <1>3, <1>4 DEF TypeOK

-----------------------------------------------------------------------------
(* The loops of StripIo: each has a solution, step by step.                *)

\* The loops step by step: each recursive function has a solution.
LEMMA XorIntoLoop ==
  ASSUME NEW dst, NEW pieces, Len(pieces) \in Nat
  PROVE  \E acc :
           /\ acc[0] = [pos |-> 0, dst |-> dst]
           /\ \A i \in 1..Len(pieces) : acc[i] = XorPiece(acc[i - 1], pieces[i])
           /\ XorInto(dst, pieces) = acc[Len(pieces)].dst
<1> DEFINE At(acc, i) == IF i = 0 THEN [pos |-> 0, dst |-> dst]
                         ELSE XorPiece(acc[i - 1], pieces[i])
           D == {k \in Nat : \E f : f = [i \in 0..k |-> At(f, i)]}
<1>1. 0 \in D
  <2> DEFINE f == [i \in {0} |-> [pos |-> 0, dst |-> dst]]
  <2>1. f = [i \in 0..0 |-> At(f, i)]  OBVIOUS
  <2> QED  BY <2>1
<1>2. ASSUME NEW k \in Nat, k \in D PROVE k + 1 \in D
  <2>1. PICK f : f = [i \in 0..k |-> At(f, i)]  BY <1>2
  <2> DEFINE g == [i \in 0..(k + 1) |-> At(f, i)]
  <2>2. \A i \in 0..k : g[i] = f[i]  BY <2>1
  <2>3. ASSUME NEW i \in 0..(k + 1) PROVE At(f, i) = At(g, i)
    <3>1. i # 0 => i - 1 \in 0..k  OBVIOUS
    <3> HIDE DEF g
    <3> QED  BY <2>2, <3>1
  <2> HIDE DEF At
  <2>4. g = [i \in 0..(k + 1) |-> At(g, i)]  BY <2>3
  <2> HIDE DEF g
  <2> QED  BY <2>4
<1>3. Len(pieces) \in D
  <2> HIDE DEF D
  <2> QED  BY <1>1, <1>2, SetInduction
<1> DEFINE h == CHOOSE acc : acc = [i \in 0..Len(pieces) |-> At(acc, i)]
<1>4. h = [i \in 0..Len(pieces) |-> At(h, i)]
  <2> HIDE DEF At
  <2> QED  BY <1>3
<1>5. XorInto(dst, pieces) = h[Len(pieces)].dst
  BY DEF XorInto
<1> HIDE DEF h
<1>6. h[0] = [pos |-> 0, dst |-> dst] /\ \A i \in 1..Len(pieces) : h[i] = At(h, i)
  BY <1>4
<1> QED  BY <1>5, <1>6

LEMMA XorAllLoop ==
  ASSUME NEW dst, NEW views, Len(views) \in Nat
  PROVE  \E acc :
           /\ acc[0] = dst
           /\ \A i \in 1..Len(views) : acc[i] = XorInto(acc[i - 1], views[i])
           /\ XorAll(dst, views) = acc[Len(views)]
<1> DEFINE At(acc, i) == IF i = 0 THEN dst
                         ELSE XorInto(acc[i - 1], views[i])
           D == {k \in Nat : \E f : f = [i \in 0..k |-> At(f, i)]}
<1>1. 0 \in D
  <2> DEFINE f == [i \in {0} |-> dst]
  <2>1. f = [i \in 0..0 |-> At(f, i)]  OBVIOUS
  <2> QED  BY <2>1
<1>2. ASSUME NEW k \in Nat, k \in D PROVE k + 1 \in D
  <2>1. PICK f : f = [i \in 0..k |-> At(f, i)]  BY <1>2
  <2> DEFINE g == [i \in 0..(k + 1) |-> At(f, i)]
  <2>2. \A i \in 0..k : g[i] = f[i]  BY <2>1
  <2>3. ASSUME NEW i \in 0..(k + 1) PROVE At(f, i) = At(g, i)
    <3>1. i # 0 => i - 1 \in 0..k  OBVIOUS
    <3> HIDE DEF g
    <3> QED  BY <2>2, <3>1
  <2> HIDE DEF At
  <2>4. g = [i \in 0..(k + 1) |-> At(g, i)]  BY <2>3
  <2> HIDE DEF g
  <2> QED  BY <2>4
<1>3. Len(views) \in D
  <2> HIDE DEF D
  <2> QED  BY <1>1, <1>2, SetInduction
<1> DEFINE h == CHOOSE acc : acc = [i \in 0..Len(views) |-> At(acc, i)]
<1>4. h = [i \in 0..Len(views) |-> At(h, i)]
  <2> HIDE DEF At
  <2> QED  BY <1>3
<1>5. XorAll(dst, views) = h[Len(views)]
  BY DEF XorAll
<1> HIDE DEF h
<1>6. h[0] = dst /\ \A i \in 1..Len(views) : h[i] = At(h, i)
  BY <1>4
<1> QED  BY <1>5, <1>6

LEMMA CopyLoop ==
  ASSUME NEW m, NEW v, NEW data, Len(v) \in Nat
  PROVE  \E acc :
           /\ acc[0] = [pos |-> 0, mem |-> m]
           /\ \A i \in 1..Len(v) : acc[i] = CopyPiece(data, acc[i - 1], v[i])
           /\ CopyFromSlice(m, v, data) = acc[Len(v)].mem
<1> DEFINE At(acc, i) == IF i = 0 THEN [pos |-> 0, mem |-> m]
                         ELSE CopyPiece(data, acc[i - 1], v[i])
           D == {k \in Nat : \E f : f = [i \in 0..k |-> At(f, i)]}
<1>1. 0 \in D
  <2> DEFINE f == [i \in {0} |-> [pos |-> 0, mem |-> m]]
  <2>1. f = [i \in 0..0 |-> At(f, i)]  OBVIOUS
  <2> QED  BY <2>1
<1>2. ASSUME NEW k \in Nat, k \in D PROVE k + 1 \in D
  <2>1. PICK f : f = [i \in 0..k |-> At(f, i)]  BY <1>2
  <2> DEFINE g == [i \in 0..(k + 1) |-> At(f, i)]
  <2>2. \A i \in 0..k : g[i] = f[i]  BY <2>1
  <2>3. ASSUME NEW i \in 0..(k + 1) PROVE At(f, i) = At(g, i)
    <3>1. i # 0 => i - 1 \in 0..k  OBVIOUS
    <3> HIDE DEF g
    <3> QED  BY <2>2, <3>1
  <2> HIDE DEF At
  <2>4. g = [i \in 0..(k + 1) |-> At(g, i)]  BY <2>3
  <2> HIDE DEF g
  <2> QED  BY <2>4
<1>3. Len(v) \in D
  <2> HIDE DEF D
  <2> QED  BY <1>1, <1>2, SetInduction
<1> DEFINE h == CHOOSE acc : acc = [i \in 0..Len(v) |-> At(acc, i)]
<1>4. h = [i \in 0..Len(v) |-> At(h, i)]
  <2> HIDE DEF At
  <2> QED  BY <1>3
<1>5. CopyFromSlice(m, v, data) = h[Len(v)].mem
  BY DEF CopyFromSlice
<1> HIDE DEF h
<1>6. h[0] = [pos |-> 0, mem |-> m] /\ \A i \in 1..Len(v) : h[i] = At(h, i)
  BY <1>4
<1> QED  BY <1>5, <1>6

LEMMA ReadAllLoop ==
  ASSUME NEW lost, Len(strips) \in Nat
  PROVE  \E acc :
           /\ acc[0] = mem
           /\ \A i \in 1..Len(strips) : acc[i] = IF i = lost THEN acc[i - 1] ELSE ReadInto(acc[i - 1], i)
           /\ ReadAll(lost) = acc[Len(strips)]
<1> DEFINE At(acc, i) == IF i = 0 THEN mem
                         ELSE IF i = lost THEN acc[i - 1] ELSE ReadInto(acc[i - 1], i)
           D == {k \in Nat : \E f : f = [i \in 0..k |-> At(f, i)]}
<1>1. 0 \in D
  <2> DEFINE f == [i \in {0} |-> mem]
  <2>1. f = [i \in 0..0 |-> At(f, i)]  OBVIOUS
  <2> QED  BY <2>1
<1>2. ASSUME NEW k \in Nat, k \in D PROVE k + 1 \in D
  <2>1. PICK f : f = [i \in 0..k |-> At(f, i)]  BY <1>2
  <2> DEFINE g == [i \in 0..(k + 1) |-> At(f, i)]
  <2>2. \A i \in 0..k : g[i] = f[i]  BY <2>1
  <2>3. ASSUME NEW i \in 0..(k + 1) PROVE At(f, i) = At(g, i)
    <3>1. i # 0 => i - 1 \in 0..k  OBVIOUS
    <3> HIDE DEF g
    <3> QED  BY <2>2, <3>1
  <2> HIDE DEF At
  <2>4. g = [i \in 0..(k + 1) |-> At(g, i)]  BY <2>3
  <2> HIDE DEF g
  <2> QED  BY <2>4
<1>3. Len(strips) \in D
  <2> HIDE DEF D
  <2> QED  BY <1>1, <1>2, SetInduction
<1> DEFINE h == CHOOSE acc : acc = [i \in 0..Len(strips) |-> At(acc, i)]
<1>4. h = [i \in 0..Len(strips) |-> At(h, i)]
  <2> HIDE DEF At
  <2> QED  BY <1>3
<1>5. ReadAll(lost) = h[Len(strips)]
  BY DEF ReadAll
<1> HIDE DEF h
<1>6. h[0] = mem /\ \A i \in 1..Len(strips) : h[i] = At(h, i)
  BY <1>4
<1> QED  BY <1>5, <1>6

\* The old parity added to a buffer of zeroes.
OldParitySum(lost) ==
  XorInto(DmaNewZeroed(StripBytes), <<OldIo(lost, Len(strips) + 1)>>)

LEMMA NewParityLoop ==
  ASSUME NEW lost, Len(strips) \in Nat
  PROVE  \E acc :
           /\ acc[0] = OldParitySum(lost)
           /\ \A i \in 1..Len(strips) : acc[i] = AddStrip(lost, acc[i - 1], i)
           /\ NewParity(lost) = acc[Len(strips)]
<1> DEFINE At(acc, i) == IF i = 0 THEN OldParitySum(lost)
                         ELSE AddStrip(lost, acc[i - 1], i)
           D == {k \in Nat : \E f : f = [i \in 0..k |-> At(f, i)]}
<1>1. 0 \in D
  <2> DEFINE f == [i \in {0} |-> OldParitySum(lost)]
  <2>1. f = [i \in 0..0 |-> At(f, i)]  OBVIOUS
  <2> QED  BY <2>1
<1>2. ASSUME NEW k \in Nat, k \in D PROVE k + 1 \in D
  <2>1. PICK f : f = [i \in 0..k |-> At(f, i)]  BY <1>2
  <2> DEFINE g == [i \in 0..(k + 1) |-> At(f, i)]
  <2>2. \A i \in 0..k : g[i] = f[i]  BY <2>1
  <2>3. ASSUME NEW i \in 0..(k + 1) PROVE At(f, i) = At(g, i)
    <3>1. i # 0 => i - 1 \in 0..k  OBVIOUS
    <3> HIDE DEF g
    <3> QED  BY <2>2, <3>1
  <2> HIDE DEF At
  <2>4. g = [i \in 0..(k + 1) |-> At(g, i)]  BY <2>3
  <2> HIDE DEF g
  <2> QED  BY <2>4
<1>3. Len(strips) \in D
  <2> HIDE DEF D
  <2> QED  BY <1>1, <1>2, SetInduction
<1> DEFINE h == CHOOSE acc : acc = [i \in 0..Len(strips) |-> At(acc, i)]
<1>4. h = [i \in 0..Len(strips) |-> At(h, i)]
  <2> HIDE DEF At
  <2> QED  BY <1>3
<1>5. NewParity(lost) = h[Len(strips)]
  BY DEF NewParity, OldParitySum
<1> HIDE DEF h
<1>6. h[0] = OldParitySum(lost) /\ \A i \in 1..Len(strips) : h[i] = At(h, i)
  BY <1>4
<1> QED  BY <1>5, <1>6

-----------------------------------------------------------------------------
(* The sums of parity                                                      *)

\* A buffer with the first n bytes of F added to it.
Added(dst, F, n) ==
  [p \in DOMAIN dst |-> IF p <= n THEN Sym(dst[p], F[p]) ELSE dst[p]]

\* A piece of l bytes, those of F from byte t on.
PieceOf(piece, l, F, t) ==
  /\ l \in Nat /\ Len(piece) = l /\ DOMAIN piece = 1..l
  /\ \A j \in 1..l : piece[j] = F[t + j]

\* Pieces that make up F.
PiecesOf(pieces, lens, F) ==
  /\ Len(pieces) \in Nat
  /\ \A i \in 1..Len(pieces) :
       PieceOf(pieces[i], lens[i], F, SumTo(lens, i - 1))

\* One piece more is added.
LEMMA XorPieceFacts ==
  ASSUME NEW S, NEW dst \in Seq(S), NEW F, NEW t \in Nat,
         NEW l \in Nat, NEW piece, PieceOf(piece, l, F, t)
  PROVE  XorPiece([pos |-> t, dst |-> Added(dst, F, t)], piece)
           = [pos |-> t + l, dst |-> Added(dst, F, t + l)]
<1> DEFINE acc == [pos |-> t, dst |-> Added(dst, F, t)]
           new == [p \in DOMAIN Added(dst, F, t) |->
                     IF p - t \in DOMAIN piece
                     THEN Sym(Added(dst, F, t)[p], piece[p - t])
                     ELSE Added(dst, F, t)[p]]
<1>0. /\ Len(piece) = l /\ DOMAIN piece = 1..l
      /\ \A j \in 1..l : piece[j] = F[t + j]
      /\ DOMAIN dst \subseteq Nat \ {0}
  BY DEF PieceOf
<1>1. XorPiece(acc, piece) = [pos |-> t + l, dst |-> new]
  BY <1>0 DEF XorPiece
<1>2. DOMAIN Added(dst, F, t) = DOMAIN dst
      /\ DOMAIN Added(dst, F, t + l) = DOMAIN dst
  BY DEF Added
<1>3. ASSUME NEW p \in DOMAIN dst PROVE new[p] = Added(dst, F, t + l)[p]
  <2>1. /\ p \in Nat \ {0}
        /\ new[p] = IF p - t \in 1..l THEN Sym(Added(dst, F, t)[p], piece[p - t])
                    ELSE Added(dst, F, t)[p]
    BY <1>0, <1>2
  <2>2. /\ Added(dst, F, t)[p] = IF p <= t THEN Sym(dst[p], F[p]) ELSE dst[p]
        /\ Added(dst, F, t + l)[p] = IF p <= t + l THEN Sym(dst[p], F[p]) ELSE dst[p]
    BY DEF Added
  <2> HIDE DEF new
  <2>3. CASE p <= t
    <3>1. ~(p - t \in 1..l) /\ p <= t + l  BY <2>1, <2>3
    <3> QED  BY <2>1, <2>2, <2>3, <3>1
  <2>4. CASE ~(p <= t) /\ p <= t + l
    <3>1. p - t \in 1..l /\ t + (p - t) = p  BY <2>1, <2>4
    <3>2. piece[p - t] = F[p]  BY <1>0, <3>1
    <3> QED  BY <2>1, <2>2, <2>4, <3>1, <3>2
  <2>5. CASE ~(p <= t) /\ ~(p <= t + l)
    <3>1. ~(p - t \in 1..l)  BY <2>1, <2>5
    <3> QED  BY <2>1, <2>2, <2>5, <3>1
  <2> QED  BY <2>3, <2>4, <2>5
<1>4. new = Added(dst, F, t + l)
  <2> DEFINE f == Added(dst, F, t + l)
  <2>1. f = [p \in DOMAIN dst |-> f[p]]  BY DEF Added
  <2>2. new = [p \in DOMAIN dst |-> new[p]]  BY <1>2
  <2> HIDE DEF new, f
  <2> QED  BY <2>1, <2>2, <1>3 DEF f
<1> QED  BY <1>1, <1>4

\* xor adds the pieces as if they were one: F.
LEMMA XorIntoFacts ==
  ASSUME NEW S, NEW dst \in Seq(S), NEW pieces, NEW lens, NEW F,
         PiecesOf(pieces, lens, F)
  PROVE  XorInto(dst, pieces) = Added(dst, F, SumTo(lens, Len(pieces)))
<1> DEFINE n == Len(pieces)
<1>1. PICK acc : /\ acc[0] = [pos |-> 0, dst |-> dst]
                 /\ \A i \in 1..n : acc[i] = XorPiece(acc[i - 1], pieces[i])
                 /\ XorInto(dst, pieces) = acc[n].dst
  BY XorIntoLoop DEF PiecesOf
<1> DEFINE Sofar(t) == [pos |-> t, dst |-> Added(dst, F, t)]
           D == {i \in Nat : i <= n => acc[i] = Sofar(SumTo(lens, i))}
<1>2. /\ n \in Nat /\ \A i \in 0..n : SumTo(lens, i) \in Nat
      /\ \A i \in 1..n : PieceOf(pieces[i], lens[i], F, SumTo(lens, i - 1))
      /\ \A i \in 1..n : lens[i] \in Nat
  <2>1. /\ n \in Nat /\ \A i \in 1..n : lens[i] \in Nat
        /\ \A i \in 1..n : PieceOf(pieces[i], lens[i], F, SumTo(lens, i - 1))
    BY DEF PiecesOf, PieceOf
  <2> HIDE DEF n
  <2> QED  BY <2>1, SumNat
<1>3. 0 \in D
  <2>1. SumTo(lens, 0) = 0  BY SumFacts
  <2>3. Added(dst, F, 0) = dst
    <3>1. \A p \in DOMAIN dst : ~(p <= 0)  OBVIOUS
    <3>2. dst = [p \in DOMAIN dst |-> dst[p]]  OBVIOUS
    <3> QED  BY <3>1, <3>2 DEF Added
  <2> QED  BY <1>1, <2>1, <2>3
<1>4. ASSUME NEW i \in Nat, i \in D PROVE i + 1 \in D
  <2> SUFFICES ASSUME i + 1 <= n PROVE acc[i + 1] = Sofar(SumTo(lens, i + 1))
    OBVIOUS
  <2>1. i \in 0..n /\ i + 1 \in 1..n /\ i + 1 - 1 = i  OBVIOUS
  <2> DEFINE t == SumTo(lens, i)
             l == lens[i + 1]
             piece == pieces[i + 1]
  <2>2. acc[i] = Sofar(t)  BY <1>4, <2>1
  <2>3. acc[i + 1] = XorPiece(acc[i], piece)  BY <1>1, <2>1
  <2>4. t \in Nat /\ l \in Nat /\ PieceOf(piece, l, F, t)
    BY <1>2, <2>1
  <2>5. SumTo(lens, i + 1) = t + l  BY SumFacts
  <2> HIDE DEF t, l, piece
  <2>6. XorPiece(Sofar(t), piece) = Sofar(t + l)
    BY <2>4, XorPieceFacts
  <2> QED  BY <2>2, <2>3, <2>5, <2>6
<1>5. n \in D
  <2> HIDE DEF D
  <2> QED  BY <1>3, <1>4, SetInduction
<1> QED  BY <1>1, <1>5

\* One buffer.
LEMMA XorIntoOne ==
  ASSUME NEW S, NEW T, NEW dst \in Seq(S), NEW b \in Seq(T)
  PROVE  XorInto(dst, <<b>>) = Added(dst, b, Len(b))
<1> DEFINE pieces == <<b>>
           lens == <<Len(b)>>
<1>1. Len(pieces) = 1
      /\ Len(b) \in Nat /\ DOMAIN b = 1..Len(b)
      /\ pieces[1] = b /\ lens[1] = Len(b)
  OBVIOUS
<1> HIDE DEF pieces, lens
<1>2. SumTo(lens, 0) = 0 /\ SumTo(lens, 0 + 1) = SumTo(lens, 0) + lens[0 + 1]
  BY SumFacts
<1>3. SumTo(lens, 1) = Len(b)  BY <1>1, <1>2
<1>4. ASSUME NEW i \in 1..Len(pieces), NEW j \in 1..lens[i]
      PROVE  pieces[i][j] = b[SumTo(lens, i - 1) + j]
  <2>1. i = 1 /\ i - 1 = 0  BY <1>1
  <2> QED  BY <1>1, <1>2, <2>1
<1>5. PiecesOf(pieces, lens, b)
  BY <1>1, <1>4 DEF PiecesOf, PieceOf
<1>6. XorInto(dst, pieces) = Added(dst, b, SumTo(lens, Len(pieces)))
  BY <1>5, XorIntoFacts
<1> QED  BY <1>1, <1>3, <1>6 DEF pieces

\* A view.
LEMMA XorIntoView ==
  ASSUME NEW S, NEW dst \in Seq(S), NEW v \in Seq(Iov), NEW m
  PROVE  XorInto(dst, Pieces(m, v))
           = Added(dst, [k \in 1..Len(Bytes(v)) |-> m[Bytes(v)[k]]], Len(Bytes(v)))
<1> DEFINE pieces == Pieces(m, v)
           lens == Lens(v)
           N == Len(Bytes(v))
           F == [k \in 1..N |-> m[Bytes(v)[k]]]
           T == {m[x] : x \in Cell}
<1>1. /\ Len(pieces) = Len(v)
      /\ \A i \in 1..Len(v) : pieces[i] \in Seq(T) /\ Len(pieces[i]) = lens[i]
      /\ \A i \in 1..Len(v) : \A j \in 1..lens[i] :
           pieces[i][j] = m[Bytes(v)[SumTo(lens, i - 1) + j]]
  <2>1. BytesIn(m, T)  BY DEF BytesIn
  <2> HIDE DEF T, pieces
  <2>2. PiecesHold(Pieces(m, v), v, m, T)
    BY ONLY v \in Seq(Iov), <2>1, PiecesFacts
  <2>3. PiecesHold(pieces, v, m, T)  BY <2>2 DEF pieces
  <2> QED  BY ONLY <2>3 DEF PiecesHold, lens
<1>2. /\ Len(v) \in Nat /\ N = SumTo(lens, Len(v))
      /\ \A i \in 1..Len(v) : lens[i] \in Nat
  BY BytesFacts
<1> HIDE DEF pieces, lens, T
<1>3. ASSUME NEW i \in 1..Len(v), NEW j \in 1..lens[i]
      PROVE  pieces[i][j] = F[SumTo(lens, i - 1) + j]
  <2>1. SumTo(lens, i - 1) + j \in 1..N
    BY ONLY i \in 1..Len(v), j \in 1..lens[i], <1>2, PartPlace
  <2> QED  BY <1>1, <2>1
<1> HIDE DEF N, F
<1>5. PiecesOf(pieces, lens, F)
  BY <1>1, <1>2, <1>3 DEF PiecesOf, PieceOf
<1>6. XorInto(dst, pieces) = Added(dst, F, SumTo(lens, Len(pieces)))
  BY <1>5, XorIntoFacts
<1> QED  BY <1>1, <1>2, <1>6 DEF pieces, F, N

-----------------------------------------------------------------------------
(* A part of a buffer or of a strip replaced                               *)

Spliced(old, a, data) ==
  [p \in 1..Len(old) |->
     IF p - a \in 1..Len(data) THEN data[p - a] ELSE old[p]]

\* A part of a sequence replaced, byte by byte.
LEMMA SpliceFacts ==
  ASSUME NEW S, NEW old \in Seq(S), NEW data \in Seq(S), NEW a \in Nat,
         a + Len(data) <= Len(old)
  PROVE  SubSeq(old, 1, a) \o data \o SubSeq(old, a + Len(data) + 1, Len(old))
           = Spliced(old, a, data)
<1> DEFINE N == Len(old)
           n == Len(data)
           u == SubSeq(old, 1, a)
           w == SubSeq(old, a + n + 1, N)
<1>1. N \in Nat /\ n \in Nat /\ a + n <= N  OBVIOUS
<1>2. u \in Seq(S) /\ Len(u) = a /\ \A p \in 1..a : u[p] = old[p]
  BY <1>1
<1>3. w \in Seq(S) /\ Len(w) = N - (a + n)
      /\ \A p \in 1..(N - (a + n)) : w[p] = old[a + n + p]
  <2> DEFINE b == a + n + 1
  <2>1. b \in 1..(N + 1) /\ b = a + n + 1  BY <1>1
  <2> HIDE DEF b
  <2>2. SubSeq(old, b, N) \in Seq(S) /\ Len(SubSeq(old, b, N)) = N - b + 1
        /\ \A p \in 1..(N - b + 1) : SubSeq(old, b, N)[p] = old[b + p - 1]
    BY <2>1
  <2>3. N - b + 1 = N - (a + n)  BY <1>1, <2>1
  <2>4. \A p \in 1..(N - (a + n)) : b + p - 1 = a + n + p  BY <1>1, <2>1
  <2> QED  BY <2>2, <2>3, <2>4 DEF b
<1> HIDE DEF u, w, N, n
<1>4. data \in Seq(S) /\ Len(data) = n  BY DEF n
<1>5. u \o data \in Seq(S) /\ Joined(u \o data, u, data)
  BY ONLY <1>2, <1>4, ConcatFacts
<1> DEFINE x == u \o data
<1>6. /\ x \in Seq(S) /\ Len(x) = a + n
      /\ \A p \in 1..a : x[p] = u[p]
      /\ \A p \in 1..n : x[a + p] = data[p]
  BY <1>2, <1>4, <1>5 DEF Joined
<1> HIDE DEF x
<1> DEFINE y == x \o w
<1>70. y \in Seq(S) /\ Joined(y, x, w)
  BY ONLY <1>3, <1>6, ConcatFacts
<1>7. /\ y \in Seq(S) /\ Len(y) = a + n + (N - (a + n))
      /\ \A p \in 1..(a + n) : y[p] = x[p]
      /\ \A p \in 1..(N - (a + n)) : y[a + n + p] = w[p]
  <2> HIDE DEF y
  <2> QED  BY <1>3, <1>6, <1>70 DEF Joined
<1>8. y \in Seq(S) /\ Len(y) = N  BY <1>1, <1>7
<1>9. ASSUME NEW p \in 1..N PROVE y[p] = Spliced(old, a, data)[p]
  <2>0. Spliced(old, a, data)[p] = IF p - a \in 1..n THEN data[p - a] ELSE old[p]
    BY DEF Spliced, N, n
  <2>1. CASE p <= a
    <3>1. p \in 1..a /\ p \in 1..(a + n) /\ ~(p - a \in 1..n)  BY <1>1, <2>1
    <3>2. y[p] = x[p]  BY <1>7, <3>1
    <3>3. x[p] = old[p]  BY <1>2, <1>6, <3>1
    <3> QED  BY <2>0, <3>1, <3>2, <3>3
  <2>2. CASE ~(p <= a) /\ p <= a + n
    <3>1. p - a \in 1..n /\ a + (p - a) = p /\ p \in 1..(a + n)  BY <1>1, <2>2
    <3>2. y[p] = x[p]  BY <1>7, <3>1
    <3>3. x[a + (p - a)] = data[p - a]  BY <1>6, <3>1
    <3> QED  BY <2>0, <3>1, <3>2, <3>3
  <2>3. CASE ~(p <= a + n)
    <3> DEFINE q == p - (a + n)
    <3>1. q \in 1..(N - (a + n)) /\ a + n + q = p /\ ~(p - a \in 1..n)
      BY <1>1, <2>3
    <3> HIDE DEF q
    <3>2. y[a + n + q] = w[q]  BY <1>7, <3>1
    <3>3. w[q] = old[a + n + q]  BY <1>3, <3>1
    <3> QED  BY <2>0, <3>1, <3>2, <3>3
  <2>4. p <= a + n \/ ~(p <= a + n)  OBVIOUS
  <2> QED  BY <2>1, <2>2, <2>3, <2>4
<1> HIDE DEF y
<1>10. y = [p \in 1..N |-> y[p]]  BY <1>8
<1>11. Spliced(old, a, data) = [p \in 1..N |-> Spliced(old, a, data)[p]]
  BY DEF Spliced, N
<1>12. y = Spliced(old, a, data)  BY <1>9, <1>10, <1>11
<1> QED  BY <1>12 DEF y, x, u, w, n, N

-----------------------------------------------------------------------------
(* Data copied or read into memory                                         *)

\* The place of a byte in a view.
PlaceIn(v, x) == CHOOSE k \in DOMAIN Bytes(v) : Bytes(v)[k] = x

\* Memory m with the first t bytes of data in those of a view.
Copied(m, v, data, t) ==
  [x \in DOMAIN m |-> IF \E k \in 1..t : Bytes(v)[k] = x
                      THEN data[PlaceIn(v, x)] ELSE m[x]]

\* A byte of a view without repetitions has one place in it.
LEMMA PlaceFacts ==
  ASSUME NEW v \in Seq(Iov), Distinct(v), NEW k \in 1..Len(Bytes(v))
  PROVE  PlaceIn(v, Bytes(v)[k]) = k
<1>1. DOMAIN Bytes(v) = 1..Len(Bytes(v))  BY BytesFacts
<1> QED  BY <1>1 DEF PlaceIn, Distinct

\* One piece more of the data is copied.
LEMMA CopyPieceFacts ==
  ASSUME NEW v \in Seq(Iov), Distinct(v), NEW m, DOMAIN m \subseteq Cell,
         NEW data, NEW i \in 1..Len(v)
  PROVE  CopyPiece(data, [pos |-> SumTo(Lens(v), i - 1),
                          mem |-> Copied(m, v, data, SumTo(Lens(v), i - 1))],
                   v[i])
           = [pos |-> SumTo(Lens(v), i),
              mem |-> Copied(m, v, data, SumTo(Lens(v), i))]
<1> DEFINE lens == Lens(v)
           t == SumTo(lens, i - 1)
           B == Bytes(v)
           iov == v[i]
           l == iov.len
           old == Copied(m, v, data, t)
           Mine(x) == x[1] = iov.buf /\ x[2] - iov.base \in 0..(l - 1)
           new == [x \in DOMAIN old |->
                     IF Mine(x) THEN data[t + x[2] - iov.base + 1] ELSE old[x]]
<1>1. /\ Len(v) \in Nat /\ \A q \in 1..Len(v) : lens[q] \in Nat
      /\ B \in Seq(Cell)
      /\ \A j \in 1..lens[i] : B[t + j] = <<iov.buf, iov.base + j - 1>>
      /\ Len(B) = SumTo(lens, Len(v))
  BY BytesFacts
<1>2. iov \in Iov /\ l = lens[i] /\ l \in Nat
  <2>1. iov \in Iov  OBVIOUS
  <2>2. lens[i] = v[i].len  BY <1>1 DEF Lens
  <2> QED  BY <2>1, <2>2, <1>1
<1>3. iov.buf \in Nat /\ iov.base \in Nat  BY <1>2 DEF Iov
<1>4. t \in Nat /\ SumTo(lens, i) = t + l /\ t + l <= Len(B) /\ Len(B) \in Nat
  <2>1. i - 1 \in Nat /\ i - 1 + 1 = i /\ i - 1 \in 0..Len(v) /\ i \in 0..Len(v)
        /\ Len(v) \in 0..Len(v) /\ i <= Len(v)
    BY <1>1
  <2>2. \A q \in 0..Len(v) : SumTo(lens, q) \in Nat
    BY BytesFacts
  <2>3. SumTo(lens, i) = t + lens[i]  BY <2>1, SumFacts
  <2>4. \A a, b \in 0..Len(v) : a <= b => SumTo(lens, a) <= SumTo(lens, b)
    BY ONLY <1>1, SumMono
  <2>5. SumTo(lens, i) <= SumTo(lens, Len(v))  BY <2>1, <2>4
  <2> QED  BY <1>1, <1>2, <2>1, <2>2, <2>3, <2>5
<1>5. CopyPiece(data, [pos |-> t, mem |-> old], iov) = [pos |-> t + l, mem |-> new]
  BY DEF CopyPiece
<1>6. DOMAIN old = DOMAIN m  BY DEF Copied
<1>7. \A j, k \in 1..Len(B) : B[j] = B[k] => j = k
  BY DEF Distinct
<1>8. \A k \in 1..Len(B) : PlaceIn(v, B[k]) = k
  BY PlaceFacts
<1> HIDE DEF B, lens, t, l, iov
<1>9. ASSUME NEW x \in DOMAIN m
      PROVE  new[x] = Copied(m, v, data, t + l)[x]
  <2>0. /\ old[x] = IF \E k \in 1..t : B[k] = x THEN data[PlaceIn(v, x)] ELSE m[x]
        /\ Copied(m, v, data, t + l)[x]
             = IF \E k \in 1..(t + l) : B[k] = x THEN data[PlaceIn(v, x)] ELSE m[x]
    BY DEF Copied, B
  <2>1. new[x] = IF Mine(x) THEN data[t + x[2] - iov.base + 1] ELSE old[x]
    BY <1>6
  <2> HIDE DEF new, old
  <2>2. x \in Cell  OBVIOUS
  <2>3. x = <<x[1], x[2]>> /\ x[1] \in Nat /\ x[2] \in Nat
    BY <2>2 DEF Cell
  <2>4. CASE Mine(x)
    <3> DEFINE j == x[2] - iov.base + 1
    <3>1. /\ j \in 1..l /\ iov.base + j - 1 = x[2]
          /\ t + x[2] - iov.base + 1 = t + j
          /\ t + j \in 1..Len(B) /\ t + j \in 1..(t + l)
      <4> DEFINE d == x[2] - iov.base
      <4>1. d \in 0..(l - 1)  BY <2>4
      <4>2. d \in Int /\ x[2] = iov.base + d  BY <1>3, <2>3
      <4>3. t + x[2] - iov.base + 1 = t + (d + 1)  BY <1>3, <1>4, <2>3
      <4> HIDE DEF d
      <4>4. d + 1 \in 1..l  BY ONLY <1>2, <4>1, <4>2
      <4>5. iov.base + (d + 1) - 1 = x[2]  BY ONLY <1>3, <4>2
      <4>6. t \in Nat /\ l \in Nat /\ Len(B) \in Nat /\ t + l <= Len(B)
        BY ONLY <1>2, <1>4
      <4>7. t + (d + 1) \in 1..(t + l)  BY ONLY <4>4, <4>6
      <4>8. t + (d + 1) \in 1..Len(B)  BY ONLY <4>6, <4>7
      <4> QED  BY <4>3, <4>4, <4>5, <4>7, <4>8 DEF d
    <3> HIDE DEF j
    <3>2. B[t + j] = x  BY <1>1, <1>2, <2>3, <2>4, <3>1
    <3>3. PlaceIn(v, x) = t + j  BY <1>8, <3>1, <3>2
    <3> QED  BY <2>0, <2>1, <2>4, <3>1, <3>2, <3>3
  <2>5. CASE ~Mine(x)
    <3>1. ASSUME NEW k \in 1..(t + l), B[k] = x PROVE k \in 1..t
      <4>1. CASE k <= t  BY <4>1, <1>4
      <4>2. CASE ~(k <= t)
        <5> DEFINE j == k - t
        <5>1. j \in 1..l /\ t + j = k  BY <1>2, <1>4, <4>2
        <5> HIDE DEF j
        <5>2. x = <<iov.buf, iov.base + j - 1>>  BY <1>1, <1>2, <3>1, <5>1
        <5>3. x[1] = iov.buf /\ x[2] = iov.base + j - 1  BY <5>2
        <5>4. x[2] - iov.base \in 0..(l - 1)  BY <1>2, <1>3, <5>1, <5>3
        <5> QED  BY <2>5, <5>3, <5>4
      <4> QED  BY <4>1, <4>2
    <3>2. 1..t \subseteq 1..(t + l)  BY <1>2, <1>4
    <3>3. (\E k \in 1..t : B[k] = x) <=> (\E k \in 1..(t + l) : B[k] = x)
      BY <3>1, <3>2
    <3> QED  BY <2>0, <2>1, <2>5, <3>3
  <2> QED  BY <2>4, <2>5
<1>10. new = Copied(m, v, data, t + l)
  <2> DEFINE f == Copied(m, v, data, t + l)
  <2>1. f = [x \in DOMAIN m |-> f[x]]  BY DEF Copied
  <2>2. new = [x \in DOMAIN m |-> new[x]]  BY <1>6
  <2> HIDE DEF new, f
  <2> QED  BY <2>1, <2>2, <1>9 DEF f
<1> HIDE DEF old, new
<1> QED  BY <1>4, <1>5, <1>10 DEF old, t, lens, iov

\* copy_from_slice puts byte k of the data in byte k of the view.
LEMMA CopyFacts ==
  ASSUME NEW v \in Seq(Iov), Distinct(v), NEW m, DOMAIN m \subseteq Cell,
         m = [x \in DOMAIN m |-> m[x]], NEW data
  PROVE  CopyFromSlice(m, v, data) = Copied(m, v, data, Len(Bytes(v)))
<1> DEFINE n == Len(v)
           lens == Lens(v)
           Sofar(t) == [pos |-> t, mem |-> Copied(m, v, data, t)]
<1>1. n \in Nat /\ Len(Bytes(v)) = SumTo(lens, n)
  BY BytesFacts
<1>2. PICK acc : /\ acc[0] = [pos |-> 0, mem |-> m]
                 /\ \A i \in 1..n : acc[i] = CopyPiece(data, acc[i - 1], v[i])
                 /\ CopyFromSlice(m, v, data) = acc[n].mem
  BY <1>1, CopyLoop
<1> DEFINE D == {i \in Nat : i <= n => acc[i] = Sofar(SumTo(lens, i))}
<1>3. 0 \in D
  <2>1. SumTo(lens, 0) = 0  BY SumFacts
  <2>2. Copied(m, v, data, 0) = m
    <3>1. \A x \in DOMAIN m : ~ \E k \in 1..0 : Bytes(v)[k] = x  OBVIOUS
    <3> QED  BY <3>1 DEF Copied
  <2> QED  BY <1>2, <2>1, <2>2
<1>4. ASSUME NEW i \in Nat, i \in D PROVE i + 1 \in D
  <2> SUFFICES ASSUME i + 1 <= n PROVE acc[i + 1] = Sofar(SumTo(lens, i + 1))
    OBVIOUS
  <2> DEFINE u == i + 1
  <2>1. u \in 1..n /\ u - 1 = i /\ i <= n  BY <1>1
  <2>2. acc[i] = Sofar(SumTo(lens, i))  BY <1>4, <2>1
  <2> HIDE DEF u
  <2>3. acc[u] = CopyPiece(data, acc[i], v[u])  BY <1>2, <2>1
  <2>4. CopyPiece(data, Sofar(SumTo(lens, u - 1)), v[u]) = Sofar(SumTo(lens, u))
    BY <2>1, CopyPieceFacts
  <2>5. acc[u] = Sofar(SumTo(lens, u))
    BY <2>1, <2>2, <2>3, <2>4
  <2> QED  BY <2>5 DEF u
<1>5. n \in D
  <2> HIDE DEF D
  <2> QED  BY <1>1, <1>3, <1>4, SetInduction
<1> QED  BY <1>1, <1>2, <1>5

-----------------------------------------------------------------------------
(* What StripIo adds                                                       *)

\* What moves bytes leaves the strips as they were cut.
LEMMA ReadCutsNothing == ASSUME NEW lost, Read(lost) PROVE UNCHANGED vars
BY Zenon DEF Read

LEMMA FullCutsNothing == WriteFull => UNCHANGED vars
BY Zenon DEF WriteFull

LEMMA PartialCutsNothing ==
  ASSUME NEW lost, WritePartial(lost) PROVE UNCHANGED vars
BY Zenon DEF WritePartial

\* The steps that move bytes leave the cut alone.
LEMMA StripSteps == [StripNext]_allVars => [Next]_vars
<1>1. NextStrip => Next  BY DEF Next
<1>2. UNCHANGED allVars => UNCHANGED vars  BY DEF allVars
<1> QED
  BY Zenon, <1>1, <1>2, ReadCutsNothing, FullCutsNothing, PartialCutsNothing
     DEF StripNext

(* For every layout, block size, request and scatter-gather list: no take  *)
(* of split_strips runs short of data, and each of its strips goes to the  *)
(* disk and the row of its blocks (raid5.rs:46-76, lib.rs:596-658).        *)
THEOREM StripsPlaced == StripSpec => []Placed
<1>1. StripInit => SplitInv  BY SplitInit DEF StripInit
<1>2. SplitInv /\ [StripNext]_allVars => SplitInv'
  BY SplitKept, StripSteps
<1> QED  BY <1>1, <1>2, SplitPlaces, PTL DEF StripSpec

\* The types of the loop: its strips are strips of the array, and its cut never
\* leaves the request.
THEOREM SplitTypeCorrect == StripSpec => []TypeOK
<1>1. StripInit => SplitInv  BY SplitInit DEF StripInit
<1>2. SplitInv /\ [StripNext]_allVars => SplitInv'
  BY SplitKept, StripSteps
<1> QED  BY <1>1, <1>2, SplitTypes, PTL DEF StripSpec

-----------------------------------------------------------------------------
(* A request that is cut                                                   *)

CutDone == SplitInv /\ remain = 0

\* The first block of strip i in its disk's strip.
Head0(i) == (StripeOffset(first) + BeforeOf(strips, i)) % StripBlocks

\* The blocks before a strip are the sum of those of the strips before it.
LEMMA CutSums ==
  ASSUME CutDone
  PROVE  \E f :
           /\ Len(strips) \in Nat /\ DOMAIN strips = 1..Len(strips)
           /\ \A i \in 1..Len(strips) : f[i] = strips[i].blocks /\ f[i] \in Nat
           /\ \A i \in 1..Len(strips) : BeforeOf(strips, i) = SumTo(f, i - 1)
           /\ SumTo(f, Len(strips)) = len
<1> DEFINE n == Len(strips)
           f == [i \in 1..n |-> strips[i].blocks]
<1>1. n \in Nat /\ DOMAIN strips = 1..n /\ len \in Nat
      /\ BeforeOf(strips, n + 1) = len
  <2>1. PICK S : strips \in Seq(S)  BY DEF CutDone, SplitInv, Progress
  <2>2. n \in Nat /\ DOMAIN strips = 1..n  BY <2>1
  <2>3. len \in Nat /\ BeforeOf(strips, n + 1) = len - remain
    BY BlockPlace, SplitSizes DEF CutDone, SplitInv, Progress
  <2> QED  BY <2>2, <2>3 DEF CutDone
<1>2. \A i \in 1..n : f[i] = strips[i].blocks /\ f[i] \in Nat
  BY SplitSizes DEF CutDone, SplitInv, CutRight, StripAt
<1>3. ASSUME NEW i \in 1..(n + 1) PROVE BeforeOf(strips, i) = SumTo(f, i - 1)
  <2> DEFINE g == [j \in 1..(i - 1) |-> strips[j].blocks]
  <2>1. i - 1 \in Nat /\ \A j \in 1..(i - 1) : f[j] = g[j]
    BY <1>1
  <2>2. BeforeOf(strips, i) = SumTo(g, i - 1)  BY DEF BeforeOf
  <2> HIDE DEF f, g
  <2> QED  BY <2>1, <2>2, SumFacts
<1>4. SumTo(f, n) = len
  <2>1. n + 1 \in 1..(n + 1) /\ n + 1 - 1 = n  BY <1>1
  <2> HIDE DEF f, n
  <2> QED  BY <1>1, <1>3, <2>1
<1>5. \A i \in 1..n : i \in 1..(n + 1)  BY <1>1
<1> HIDE DEF f
<1> QED  BY <1>1, <1>2, <1>3, <1>4, <1>5

\* The parity disk of a block's stripe is a disk.
LEMMA ParityPlace ==
  ASSUME NEW b \in Blocks
  PROVE  ParityDisk(StripeIdx(b)) \in 0..(NDisks - 1)
<1> DEFINE t == StripeIdx(b)
<1>1. t \in Nat
  <2>1. t \in 0..(NStripes - 1)  BY BlockPlace DEF Stripes
  <2> QED  BY <2>1, SplitSizes
<1>2. NDisks \in Nat \ {0}  BY LayoutAssumption
<1> HIDE DEF t
<1>3. t % NDisks \in 0..(NDisks - 1)  BY <1>1, <1>2, DivMod
<1> QED  BY <1>3 DEF ParityDisk, t

\* What strip i is.
LEMMA CutFacts ==
  ASSUME CutDone, NEW i \in 1..Len(strips)
  PROVE  /\ BeforeOf(strips, i) \in Nat /\ strips[i].blocks \in 1..StripBlocks
         /\ BeforeOf(strips, i) + strips[i].blocks <= len
         /\ Head0(i) \in 0..(StripBlocks - 1)
         /\ Head0(i) + strips[i].blocks <= StripBlocks
         /\ Start(i) = Head0(i) * BlockLen
         /\ strips[i].disk = DataDisk((StripeOffset(first) + BeforeOf(strips, i))
                                        \div StripBlocks, Parity)
         /\ strips[i].disk \in DataDisks
         /\ i # 1 => Head0(i) = 0
         /\ TakenOut(strips[i].iovs, iovs, BeforeOf(strips, i) * BlockLen, Size(i))
<1> DEFINE s == strips[i]
           k == BeforeOf(strips, i)
           o == StripeOffset(first)
           t == StripeIdx(first)
           c == o + k
<1>1. CutRight(first, len, iovs, s, i, k)
  BY DEF CutDone, SplitInv
<1>2. /\ o \in 0..(StripeBlocks - 1) /\ t \in Stripes
      /\ len \in 1..(StripeBlocks - o)
  BY BlockPlace DEF CutDone, SplitInv, Progress
<1> HIDE DEF s, k
<1>3. /\ k \in Nat /\ s.blocks \in 1..StripBlocks
      /\ (c % StripBlocks) + s.blocks <= StripBlocks /\ k + s.blocks <= len
      /\ s.disk = DataDisk(c \div StripBlocks, ParityDisk(t))
      /\ s.row = Row(t, c % StripBlocks)
      /\ i # 1 => c % StripBlocks = 0
      /\ TakenOut(s.iovs, iovs, k * BlockLen, s.blocks * BlockLen)
  BY <1>1 DEF CutRight, StripAt
<1>4. c \in 0..((NDisks - 1) * StripBlocks - 1) /\ c \in Nat
  <2>1. s.blocks \in Nat \ {0} /\ len \in Nat /\ StripeBlocks \in Nat
        /\ o \in Nat /\ o + len <= StripeBlocks
    <3>1. o \in 0..(StripeBlocks - 1) /\ len \in 1..(StripeBlocks - o)
      BY <1>2
    <3> HIDE DEF o
    <3>2. o \in Nat /\ len \in Nat /\ o + len <= StripeBlocks
      BY ONLY <3>1, SplitSizes
    <3>3. s.blocks \in Nat \ {0}  BY <1>3, SplitSizes
    <3> QED  BY <3>2, <3>3, SplitSizes
  <2> HIDE DEF o
  <2>2. c \in 0..(StripeBlocks - 1) /\ c \in Nat
    BY <1>3, <2>1
  <2> HIDE DEF c
  <2> QED  BY <2>2 DEF StripeBlocks
<1>5. /\ c % StripBlocks \in 0..(StripBlocks - 1)
      /\ c \div StripBlocks \in 0..(NDisks - 1 - 1)
  <2> HIDE DEF c
  <2> QED  BY <1>4, SplitSizes, DivMod, DivBelow
<1>6. Parity = ParityDisk(t)  BY DEF Parity, Stripe
<1>7. s.disk \in DataDisks
  <2> DEFINE q == c \div StripBlocks
             p == ParityDisk(t)
  <2>1. q \in 0..(NDisks - 1 - 1) /\ s.disk = DataDisk(q, p)  BY <1>3, <1>5
  <2>2. p \in 0..(NDisks - 1)
    BY ParityPlace DEF CutDone, SplitInv, Progress
  <2> HIDE DEF q, p
  <2>3. DataDisk(q, p) \in 0..(NDisks - 1) /\ DataDisk(q, p) # p
    BY <2>1, <2>2, SplitSizes DEF DataDisk
  <2> QED  BY <1>6, <2>1, <2>3 DEF DataDisks, Disks, p
<1>8. Start(i) = (c % StripBlocks) * BlockLen
  <2>1. s.row - Row(t, 0) = c % StripBlocks
    <3>1. t * StripBlocks \in Nat  BY <1>2, SplitSizes DEF Stripes
    <3> HIDE DEF c, t
    <3> QED  BY <1>3, <1>5, <3>1 DEF Row
  <2> QED  BY <2>1 DEF Start, s, Stripe
<1> HIDE DEF c
<1> QED  BY <1>3, <1>5, <1>6, <1>7, <1>8 DEF s, k, c, Head0, Size

\* Every block of the request is in a strip.
LEMMA BlockCut ==
  ASSUME CutDone, NEW b \in 0..(len - 1)
  PROVE  \E i \in 1..Len(strips) : \E q \in 0..(strips[i].blocks - 1) :
           b = BeforeOf(strips, i) + q
<1> DEFINE n == Len(strips)
<1>1. PICK f : /\ n \in Nat /\ DOMAIN strips = 1..n
               /\ \A i \in 1..n : f[i] = strips[i].blocks /\ f[i] \in Nat
               /\ \A i \in 1..n : BeforeOf(strips, i) = SumTo(f, i - 1)
               /\ SumTo(f, n) = len
  BY CutSums
<1>2. b \in Nat /\ b + 1 \in 1..SumTo(f, n)
  <2>1. len \in Nat
    BY BlockPlace, SplitSizes DEF CutDone, SplitInv, Progress
  <2>2. b + 1 \in 1..len /\ b \in Nat  BY <2>1
  <2> HIDE DEF n
  <2> QED  BY <1>1, <2>2
<1> HIDE DEF n
<1>3. PICK i \in 1..n : \E j \in 1..f[i] : b + 1 = SumTo(f, i - 1) + j
  BY ONLY <1>1, <1>2, Locate
<1>4. PICK j \in 1..f[i] : b + 1 = SumTo(f, i - 1) + j  BY <1>3
<1>5. BeforeOf(strips, i) \in Nat  BY CutFacts DEF n
<1>6. b = BeforeOf(strips, i) + (j - 1) /\ j - 1 \in 0..(strips[i].blocks - 1)
  <2> DEFINE k == BeforeOf(strips, i)
             q == strips[i].blocks
  <2>1. k \in Nat /\ b + 1 = k + j /\ j \in 1..q /\ q \in Nat
    BY <1>1, <1>4, <1>5
  <2> HIDE DEF k, q
  <2>2. b = k + (j - 1) /\ j - 1 \in 0..(q - 1)  BY ONLY <1>2, <2>1
  <2> QED  BY <2>2 DEF k, q
<1> QED  BY <1>6 DEF n

\* No two strips are on the same disk.
LEMMA OwnDisks ==
  ASSUME CutDone, NEW i \in 1..Len(strips), NEW j \in 1..Len(strips),
         strips[i].disk = strips[j].disk
  PROVE  i = j
<1> DEFINE n == Len(strips)
           o == StripeOffset(first)
           Quot(x) == (o + BeforeOf(strips, x)) \div StripBlocks
<1>1. PICK f : /\ n \in Nat /\ DOMAIN strips = 1..n
               /\ \A x \in 1..n : f[x] = strips[x].blocks /\ f[x] \in Nat
               /\ \A x \in 1..n : BeforeOf(strips, x) = SumTo(f, x - 1)
               /\ SumTo(f, n) = len
  BY CutSums
<1>2. o \in Nat
  BY BlockPlace, SplitSizes DEF CutDone, SplitInv, Progress
<1>3. ASSUME NEW x \in 1..n, NEW y \in 1..n, x < y PROVE Quot(x) < Quot(y)
  <2> DEFINE a == BeforeOf(strips, x)
             b == BeforeOf(strips, y)
  <2>1. /\ a \in Nat /\ b \in Nat /\ f[x] \in 1..StripBlocks
        /\ a = SumTo(f, x - 1) /\ b = SumTo(f, y - 1)
        /\ (o + b) % StripBlocks = 0
    <3>1. a \in Nat /\ strips[x].blocks \in 1..StripBlocks
      BY CutFacts
    <3>2. b \in Nat /\ (y # 1 => Head0(y) = 0)
      BY CutFacts
    <3>3. y # 1  BY <1>1, <1>3
    <3>4. f[x] = strips[x].blocks /\ a = SumTo(f, x - 1) /\ b = SumTo(f, y - 1)
      BY <1>1
    <3>5. (o + b) % StripBlocks = 0  BY <3>2, <3>3 DEF Head0
    <3> QED  BY <3>1, <3>2, <3>4, <3>5
  <2>2. a + f[x] <= b
    <3>1. x - 1 \in Nat /\ x - 1 + 1 = x /\ x \in 0..n /\ y - 1 \in 0..n
          /\ x <= y - 1
      BY <1>1, <1>3
    <3>2. SumTo(f, x) = a + f[x]  BY <2>1, <3>1, SumFacts
    <3> HIDE DEF n
    <3>3. \A u, w \in 0..n : u <= w => SumTo(f, u) <= SumTo(f, w)
      BY ONLY <1>1, SumMono
    <3>4. SumTo(f, x) <= SumTo(f, y - 1)  BY <3>1, <3>3
    <3> QED  BY <2>1, <3>2, <3>4
  <2> DEFINE c == o + a
             d == o + b
             q == c \div StripBlocks
             r == d \div StripBlocks
             m == c % StripBlocks
  <2> HIDE DEF a, b
  <2>3. c \in Nat /\ d \in Nat /\ c < d
    <3>1. f[x] \in Nat \ {0}  BY <1>1, <2>1, SplitSizes
    <3>2. a \in Nat /\ b \in Nat  BY <2>1
    <3> HIDE DEF o
    <3>3. o + a \in Nat /\ o + b \in Nat /\ o + a < o + b
      BY ONLY <1>2, <2>2, <3>1, <3>2
    <3> QED  BY <3>3
  <2> HIDE DEF c, d
  <2>4. /\ q \in Nat /\ m \in Nat /\ c = q * StripBlocks + m
        /\ r \in Nat /\ d = r * StripBlocks + (d % StripBlocks)
    <3>1. StripBlocks \in Nat \ {0}  BY SplitSizes
    <3>2. /\ c \div StripBlocks \in Nat /\ c % StripBlocks \in Nat
          /\ c = (c \div StripBlocks) * StripBlocks + (c % StripBlocks)
      <4>1. c \in Nat  BY <2>3
      <4>2. /\ c \div StripBlocks \in Nat
            /\ c % StripBlocks \in 0..(StripBlocks - 1)
            /\ c = (c \div StripBlocks) * StripBlocks + (c % StripBlocks)
        BY ONLY <3>1, <4>1, DivMod
      <4>3. c % StripBlocks \in Nat  BY ONLY <3>1, <4>2
      <4> QED  BY ONLY <4>2, <4>3
    <3>3. /\ d \div StripBlocks \in Nat
          /\ d = (d \div StripBlocks) * StripBlocks + (d % StripBlocks)
      <4>1. d \in Nat  BY <2>3
      <4> HIDE DEF r
      <4> QED  BY ONLY <3>1, <4>1, DivMod
    <3> QED  BY <3>2, <3>3
  <2>5. d % StripBlocks = 0  BY <2>1 DEF d, b
  <2> HIDE DEF q, r, m
  <2>6. q < r
    <3>1. SUFFICES ASSUME r <= q PROVE FALSE
      BY <2>4
    <3>2. \A u, w, z \in Nat : u <= w => u * z <= w * z /\ u * z \in Nat /\ w * z \in Nat
      OBVIOUS
    <3>3. r * StripBlocks <= q * StripBlocks /\ r * StripBlocks \in Nat
          /\ q * StripBlocks \in Nat
      BY <2>4, <3>1, <3>2, SplitSizes
    <3> QED  BY <2>3, <2>4, <2>5, <3>3
  <2> QED  BY <2>6 DEF q, r, c, d, a, b
<1>4. ASSUME NEW x \in 1..n
      PROVE  Quot(x) \in Nat /\ strips[x].disk = DataDisk(Quot(x), Parity)
  <2> DEFINE c == o + BeforeOf(strips, x)
  <2>1. c \in Nat  BY <1>2, CutFacts
  <2> HIDE DEF c
  <2>2. c \div StripBlocks \in Nat  BY <2>1, SplitSizes, DivMod
  <2> QED  BY <2>2, CutFacts DEF c
<1>5. Parity \in Nat
  <2>1. Parity \in 0..(NDisks - 1)
    BY ParityPlace DEF CutDone, SplitInv, Progress, Parity, Stripe
  <2> QED  BY <2>1, SplitSizes
<1>6. \A a, b \in Nat : DataDisk(a, Parity) = DataDisk(b, Parity) => a = b
  BY <1>5 DEF DataDisk
<1>7. Quot(i) = Quot(j)  BY <1>4, <1>6
<1>8. Quot(i) \in Nat  BY <1>4
<1> HIDE DEF Quot
<1> QED  BY <1>1, <1>3, <1>7, <1>8

\* The bytes of the request before strip i.
Base(i) == BeforeOf(strips, i) * BlockLen

\* The bytes of strip i are those of the request from its first on.
LEMMA StripBytesFacts ==
  ASSUME CutDone, NEW i \in 1..Len(strips)
  PROVE  /\ strips[i].iovs \in Seq(Iov)
         /\ Len(Bytes(strips[i].iovs)) = Size(i) /\ Size(i) \in Nat
         /\ Base(i) \in Nat /\ Base(i) + Size(i) <= len * BlockLen
         /\ len * BlockLen \in Nat
         /\ Start(i) \in Nat /\ Start(i) + Size(i) <= StripBytes
         /\ StripBytes \in Nat
         /\ \A j \in 1..Size(i) :
              /\ Bytes(strips[i].iovs)[j] = Bytes(iovs)[Base(i) + j]
              /\ Base(i) + j \in 1..(len * BlockLen)
         /\ Distinct(strips[i].iovs)
<1> DEFINE v == strips[i].iovs
           k == BeforeOf(strips, i)
           l == strips[i].blocks
           h == Head0(i)
           n == Size(i)
           N == len * BlockLen
<1>1. /\ k \in Nat /\ l \in 1..StripBlocks /\ k + l <= len
      /\ h \in 0..(StripBlocks - 1) /\ h + l <= StripBlocks
      /\ Start(i) = h * BlockLen
      /\ TakenOut(v, iovs, k * BlockLen, n)
  BY CutFacts
<1>2. n = l * BlockLen  BY DEF Size
<1>3. len \in Nat /\ iovs \in Lists(N)
  BY BlockPlace, SplitSizes DEF CutDone, SplitInv, Progress
<1> HIDE DEF v, k, l, h, n
<1>4. \A a, b, c, d \in Nat :
        a + b <= c => a * d + b * d <= c * d /\ a * d \in Nat /\ b * d \in Nat
                      /\ c * d \in Nat
  <2>1. ASSUME NEW a \in Nat, NEW b \in Nat, NEW c \in Nat, NEW d \in Nat,
               a + b <= c
        PROVE  a * d + b * d <= c * d /\ a * d \in Nat /\ b * d \in Nat
               /\ c * d \in Nat
    <3>1. a * d + b * d = (a + b) * d  OBVIOUS
    <3>2. \A u, w, z \in Nat : u <= w => u * z <= w * z  OBVIOUS
    <3>3. (a + b) * d <= c * d  BY <2>1, <3>2
    <3>4. \A u, w \in Nat : u * w \in Nat  OBVIOUS
    <3> QED  BY <3>1, <3>3, <3>4
  <2> QED  BY <2>1
<1>5. l \in Nat /\ h \in Nat /\ BlockLen \in Nat /\ StripBlocks \in Nat
  BY <1>1, SplitSizes
<1>6. k * BlockLen + n <= N /\ k * BlockLen \in Nat /\ n \in Nat /\ N \in Nat
  BY <1>1, <1>2, <1>3, <1>4, <1>5
<1>7. h * BlockLen + n <= StripBytes /\ h * BlockLen \in Nat /\ StripBytes \in Nat
  BY <1>1, <1>2, <1>4, <1>5 DEF StripBytes
<1> HIDE DEF N
<1>8. iovs \in Seq(Iov) /\ Distinct(iovs) /\ Len(Bytes(iovs)) = N
  BY <1>3, <1>6, ListFacts
<1> DEFINE off == k * BlockLen
<1>9. off \in Nat /\ off + n <= N  BY <1>6
<1>10. TakenOut(v, iovs, off, n)  BY <1>1
<1>11. Base(i) = off  BY DEF Base, k
<1> HIDE DEF off
<1>12. /\ v \in Seq(Iov) /\ Len(Bytes(v)) = n
       /\ \A j \in 1..n : Bytes(v)[j] = Bytes(iovs)[off + j]
  BY <1>10 DEF TakenOut
<1>13. ASSUME NEW j \in 1..n PROVE off + j \in 1..N
  BY <1>6, <1>9
<1>14. Distinct(v)
  <2>1. ASSUME NEW p \in 1..n, NEW q \in 1..n, Bytes(v)[p] = Bytes(v)[q]
        PROVE  p = q
    <3>1. Bytes(iovs)[off + p] = Bytes(iovs)[off + q]  BY <1>12, <2>1
    <3>2. off + p \in 1..N /\ off + q \in 1..N  BY <1>13
    <3>3. off + p = off + q  BY <1>8, <3>1, <3>2 DEF Distinct
    <3> QED  BY <1>9, <3>3
  <2> QED  BY <1>12, <2>1 DEF Distinct
<1>15. /\ Start(i) \in Nat /\ Start(i) + n <= StripBytes /\ StripBytes \in Nat
  BY <1>1, <1>7
<1> QED  BY <1>6, <1>9, <1>11, <1>12, <1>13, <1>14, <1>15 DEF v, n, N

\* Byte j of strip i is a byte of its disk, where the layout says.
LEMMA BytePlace ==
  ASSUME CutDone, NEW i \in 1..Len(strips), NEW j \in 1..Size(i)
  PROVE  /\ DiskOf(BlockOfByte(Base(i) + j)) = strips[i].disk
         /\ PlaceOf(Base(i) + j) = Start(i) + j
<1> DEFINE s == strips[i]
           k == BeforeOf(strips, i)
           l == s.blocks
           h == Head0(i)
           q == (j - 1) \div BlockLen
           m == (j - 1) % BlockLen
           b == first + (k + q)
           t == StripeIdx(first)
           o == StripeOffset(first)
<1>1. /\ k \in Nat /\ l \in 1..StripBlocks /\ k + l <= len
      /\ h \in 0..(StripBlocks - 1)
      /\ Start(i) = h * BlockLen
  BY CutFacts
<1>2. /\ first \in Blocks /\ len \in 1..(StripeBlocks - StripeOffset(first))
      /\ StripAt(first, len, s, k)
  BY DEF CutDone, SplitInv, Progress, CutRight
<1>3. l \in Nat /\ BlockLen \in Nat \ {0} /\ h \in Nat /\ StripBlocks \in Nat
  BY <1>1, SplitSizes
<1>4. j \in 1..(l * BlockLen)  BY DEF Size
<1> HIDE DEF l, h
<1>5. j - 1 \in Nat /\ j - 1 \in 0..(l * BlockLen - 1)
  <2>1. l * BlockLen \in Nat  BY <1>3
  <2> DEFINE z == l * BlockLen
  <2>2. j \in 1..z /\ z \in Nat  BY <1>4, <2>1
  <2> HIDE DEF z
  <2>3. j - 1 \in Nat /\ j - 1 \in 0..(z - 1)  BY <2>2
  <2> QED  BY <2>3 DEF z
<1> DEFINE a == j - 1
<1> HIDE DEF a
<1>6. /\ q \in Nat /\ m \in 0..(BlockLen - 1) /\ a = q * BlockLen + m
      /\ q \in 0..(l - 1)
  <2>1. a \in Nat /\ a \in 0..(l * BlockLen - 1)  BY <1>5 DEF a
  <2>2. /\ a \div BlockLen \in Nat /\ a % BlockLen \in 0..(BlockLen - 1)
        /\ a = (a \div BlockLen) * BlockLen + (a % BlockLen)
    BY ONLY <1>3, <2>1, DivMod
  <2>3. a \div BlockLen \in 0..(l - 1)  BY ONLY <1>3, <2>1, DivBelow
  <2> QED  BY <2>2, <2>3 DEF a
<1> HIDE DEF q, m
<1>7. (Base(i) + j) - 1 = (k + q) * BlockLen + m /\ k + q \in Nat
  <2> HIDE DEF k
  <2>1. (k + q) * BlockLen = k * BlockLen + q * BlockLen
        /\ k * BlockLen \in Nat /\ q * BlockLen \in Nat
    BY <1>1, <1>3, <1>6
  <2>2. Base(i) = k * BlockLen  BY DEF Base, k
  <2>3. j = a + 1 /\ a \in Nat /\ m \in Nat  BY <1>3, <1>5, <1>6 DEF a
  <2> DEFINE x == k * BlockLen
             u == q * BlockLen
             w == (k + q) * BlockLen
             z == Base(i)
  <2>4. w = x + u /\ x \in Nat /\ u \in Nat /\ z = x  BY <2>1, <2>2
  <2>5. a = u + m  BY <1>6
  <2> HIDE DEF x, u, w, z
  <2>6. (z + j) - 1 = w + m  BY ONLY <2>3, <2>4, <2>5
  <2>7. k + q \in Nat  BY ONLY <1>1, <1>6
  <2> QED  BY <2>6, <2>7 DEF w, z
<1> DEFINE p == Base(i) + j
           y == k + q
<1>8. (p - 1) \div BlockLen = y /\ (p - 1) % BlockLen = m
  <2>1. p - 1 = y * BlockLen + m /\ y \in Nat
    BY ONLY <1>7
  <2> HIDE DEF p, y
  <2>2. (y * BlockLen + m) \div BlockLen = y /\ (y * BlockLen + m) % BlockLen = m
    BY ONLY <1>3, <1>6, <2>1, DivModUnique
  <2> QED  BY <2>1, <2>2
<1> HIDE DEF p
<1>9. BlockOfByte(p) = b
  <2> HIDE DEF y
  <2>1. BlockOfByte(p) = first + y  BY <1>8 DEF BlockOfByte
  <2> QED  BY <2>1 DEF y
<1>10. first \in Nat /\ b \in (first + k) .. (first + k + s.blocks - 1)
       /\ b - first - k = q
  <2>1. first \in Nat  BY <1>2 DEF Blocks
  <2> HIDE DEF k
  <2>2. /\ first + (k + q) \in (first + k) .. (first + k + l - 1)
        /\ (first + (k + q)) - first - k = q
    BY ONLY <1>1, <1>3, <1>6, <2>1
  <2> HIDE DEF s
  <2>3. b = first + (k + q) /\ l = s.blocks  BY DEF l
  <2> HIDE DEF b
  <2> QED  BY ONLY <2>1, <2>2, <2>3
<1> HIDE DEF s, k, b, y
<1>11. /\ s.disk = DiskOf(b)
       /\ s.row + (b - first - k) = Row(StripeIdx(b), OffsetIn(b))
  BY <1>2, <1>10, StripPlaced
<1>12. OffsetIn(b) = h + q
  <2>1. /\ t \in Nat /\ o \in 0..(StripeBlocks - 1)
        /\ first = t * StripeBlocks + o
    BY <1>2, BlockPlace, SplitSizes DEF Stripes
  <2>2. o \in Nat /\ len \in Nat /\ o + len <= StripeBlocks
    <3> HIDE DEF o
    <3> QED  BY <1>2, <2>1, SplitSizes DEF o
  <2> DEFINE x == o + (k + q)
  <2>3. x \in 0..(StripeBlocks - 1) /\ x \in Nat
    <3> HIDE DEF o
    <3>1. k + q < len  BY ONLY <1>1, <1>3, <1>6, <2>2
    <3> QED  BY ONLY <1>7, <2>2, <3>1, SplitSizes
  <2>4. b = t * StripeBlocks + x
    <3>1. t * StripeBlocks \in Nat  BY <2>1, SplitSizes
    <3> HIDE DEF t, o
    <3> QED  BY ONLY <1>7, <2>1, <2>2, <3>1 DEF b, x
  <2> HIDE DEF t, o, x
  <2>5. StripeIdx(b) = t /\ StripeOffset(b) = x
    BY <2>1, <2>3, <2>4, SplitSizes, DivModUnique DEF StripeIdx, StripeOffset
  <2>6. s.row = Row(t, h)
    BY <1>2 DEF StripAt, t, h, s, k, Head0
  <2>7. Row(t, h) + q = Row(t, OffsetIn(b))  BY <1>10, <1>11, <2>5, <2>6
  <2>8. OffsetIn(b) \in Nat /\ t * StripBlocks \in Nat
    <3>1. x % StripBlocks \in 0..(StripBlocks - 1)
      BY <2>3, SplitSizes, DivMod
    <3> QED  BY <2>1, <2>5, <3>1, SplitSizes DEF OffsetIn
  <2> QED  BY <1>3, <1>6, <2>7, <2>8 DEF Row
<1>13. PlaceOf(p) = (h + q) * BlockLen + m + 1
  <2> HIDE DEF h
  <2> QED  BY <1>8, <1>9, <1>12 DEF PlaceOf
<1>14. (h + q) * BlockLen + m + 1 = h * BlockLen + j
  <2>1. (h + q) * BlockLen = h * BlockLen + q * BlockLen
        /\ h * BlockLen \in Nat /\ q * BlockLen \in Nat
    BY ONLY <1>3, <1>6
  <2>2. j = a + 1 /\ a \in Nat /\ m \in Nat  BY <1>3, <1>5, <1>6 DEF a
  <2> DEFINE x == h * BlockLen
             u == q * BlockLen
             w == (h + q) * BlockLen
  <2>3. w = x + u /\ x \in Nat /\ u \in Nat  BY <2>1
  <2>4. a = u + m  BY <1>6
  <2> HIDE DEF x, u, w
  <2>5. w + m + 1 = x + j  BY ONLY <2>2, <2>3, <2>4
  <2> QED  BY <2>5 DEF x, w
<1> QED  BY <1>1, <1>9, <1>11, <1>13, <1>14 DEF s, p

\* Every byte of the request is in a strip.
LEMMA ByteCut ==
  ASSUME CutDone, NEW p \in 1..(len * BlockLen)
  PROVE  \E i \in 1..Len(strips) : \E j \in 1..Size(i) : p = Base(i) + j
<1> DEFINE b == (p - 1) \div BlockLen
           m == (p - 1) % BlockLen
           a == p - 1
<1>1. len \in Nat /\ BlockLen \in Nat \ {0}
  BY BlockPlace, SplitSizes DEF CutDone, SplitInv, Progress
<1>2. len * BlockLen \in Nat  BY <1>1
<1>3. a \in Nat /\ a \in 0..(len * BlockLen - 1) /\ p = a + 1
  <2> DEFINE z == len * BlockLen
  <2>1. p \in 1..z /\ z \in Nat  BY <1>2
  <2> HIDE DEF z
  <2>2. a \in Nat /\ a \in 0..(z - 1) /\ p = a + 1  BY <2>1
  <2> QED  BY <2>2 DEF z
<1> HIDE DEF a
<1>4. /\ a \div BlockLen \in Nat /\ a % BlockLen \in 0..(BlockLen - 1)
      /\ a = (a \div BlockLen) * BlockLen + (a % BlockLen)
  BY ONLY <1>1, <1>3, DivMod
<1>5. a \div BlockLen \in 0..(len - 1)  BY ONLY <1>1, <1>3, DivBelow
<1>6. b \in 0..(len - 1) /\ m \in 0..(BlockLen - 1) /\ a = b * BlockLen + m
  BY <1>4, <1>5 DEF a
<1> HIDE DEF b, m
<1>7. PICK i \in 1..Len(strips) : \E q \in 0..(strips[i].blocks - 1) :
             b = BeforeOf(strips, i) + q
  BY <1>6, BlockCut
<1>8. PICK q \in 0..(strips[i].blocks - 1) : b = BeforeOf(strips, i) + q
  BY <1>7
<1> DEFINE k == BeforeOf(strips, i)
           l == strips[i].blocks
           j == q * BlockLen + m + 1
<1>9. k \in Nat /\ l \in Nat /\ q \in 0..(l - 1) /\ q \in Nat /\ b = k + q
  BY <1>8, CutFacts, SplitSizes
<1> HIDE DEF k, l
<1>10. q * BlockLen + m \in 0..(l * BlockLen - 1)
  BY ONLY <1>1, <1>6, <1>9, PlaceBelow
<1>11. j \in 1..(l * BlockLen)
  <2>1. l * BlockLen \in Nat  BY <1>1, <1>9
  <2> DEFINE z == l * BlockLen
             y == q * BlockLen + m
  <2>2. z \in Nat /\ y \in 0..(z - 1)  BY <1>10, <2>1
  <2> HIDE DEF z, y
  <2>3. y + 1 \in 1..z  BY <2>2
  <2> QED  BY <2>3 DEF z, y
<1>12. k * BlockLen + j = p
  <2>1. (k + q) * BlockLen = k * BlockLen + q * BlockLen
        /\ k * BlockLen \in Nat /\ q * BlockLen \in Nat /\ m \in Nat
    BY ONLY <1>1, <1>6, <1>9
  <2> QED  BY ONLY <1>3, <1>6, <1>9, <2>1
<1> HIDE DEF j
<1>13. j \in 1..Size(i) /\ p = Base(i) + j
  BY <1>11, <1>12 DEF Size, Base, k, l
<1> QED  BY <1>13

-----------------------------------------------------------------------------
(* Many buffers added up                                                   *)

\* xor adds F to a buffer of n bytes.
Adds(view, F, n) ==
  \A S : \A dst \in [1..n -> S] :
    XorInto(dst, view) = [p \in 1..n |-> Sym(dst[p], F[p])]

\* A buffer adds its bytes.
LEMMA OneAdds ==
  ASSUME NEW n \in Nat, NEW T, NEW b \in Seq(T), Len(b) = n
  PROVE  Adds(<<b>>, b, n)
<1> SUFFICES ASSUME NEW S, NEW dst \in [1..n -> S]
             PROVE  XorInto(dst, <<b>>) = [p \in 1..n |-> Sym(dst[p], b[p])]
  BY DEF Adds
<1>1. dst \in Seq(S)  OBVIOUS
<1>2. XorInto(dst, <<b>>) = Added(dst, b, n)  BY <1>1, XorIntoOne
<1> QED  BY <1>2 DEF Added

\* A view adds the bytes of memory it names.
LEMMA ViewAdds ==
  ASSUME NEW v \in Seq(Iov), NEW m, NEW F,
         \A k \in 1..Len(Bytes(v)) : F[k] = m[Bytes(v)[k]]
  PROVE  Adds(Pieces(m, v), F, Len(Bytes(v)))
<1> DEFINE n == Len(Bytes(v))
           G == [k \in 1..n |-> m[Bytes(v)[k]]]
<1>1. n \in Nat  BY BytesFacts
<1> SUFFICES ASSUME NEW S, NEW dst \in [1..n -> S]
             PROVE  XorInto(dst, Pieces(m, v)) = [p \in 1..n |-> Sym(dst[p], F[p])]
  BY DEF Adds
<1>2. dst \in Seq(S)
  <2> HIDE DEF n
  <2> QED  BY <1>1
<1>3. XorInto(dst, Pieces(m, v)) = Added(dst, G, n)  BY <1>2, XorIntoView
<1>4. \A p \in 1..n : G[p] = F[p]  OBVIOUS
<1> HIDE DEF n, G
<1>5. Added(dst, G, n) = [p \in 1..n |-> Sym(dst[p], G[p])]  BY DEF Added
<1> QED  BY <1>3, <1>4, <1>5

\* The bytes 1..n of the buffers f[d], d \in K, added up.
SumOf(f, K, n) == [p \in 1..n |-> Xor([d \in K |-> f[d][p]], K)]

\* The views add f[d], for each of the distinct d = g[1], g[2], ...
Summands(views, f, g, n) ==
  /\ Len(views) \in Nat
  /\ \A q \in 1..Len(views) : Adds(views[q], f[g[q]], n)
  /\ \A q, r \in 1..Len(views) : g[q] = g[r] => q = r

\* A loop of xor over a buffer of zeros adds up what the views add.
LEMMA XorAllFacts ==
  ASSUME NEW n \in Nat, NEW views, NEW f, NEW g, Summands(views, f, g, n)
  PROVE  XorAll(DmaNewZeroed(n), views)
           = SumOf(f, {g[q] : q \in 1..Len(views)}, n)
<1> DEFINE m == Len(views)
           K == {g[q] : q \in 1..m}
           Upto(q) == {g[x] : x \in 1..q}
           Col(p) == [d \in K |-> f[d][p]]
           Sofar(q) == [p \in 1..n |-> Xor(Col(p), Upto(q))]
<1>0. /\ m \in Nat
      /\ \A q \in 1..m : Adds(views[q], f[g[q]], n)
      /\ \A q, r \in 1..m : g[q] = g[r] => q = r
  BY DEF Summands
<1>1. PICK acc : /\ acc[0] = DmaNewZeroed(n)
                 /\ \A q \in 1..m : acc[q] = XorInto(acc[q - 1], views[q])
                 /\ XorAll(DmaNewZeroed(n), views) = acc[m]
  BY <1>0, XorAllLoop
<1> DEFINE D == {q \in Nat : q <= m => /\ acc[q] = Sofar(q)
                                       /\ IsFiniteSet(Upto(q))}
<1>2. 0 \in D
  <2>1. Upto(0) = {}  OBVIOUS
  <2>2. IsFiniteSet(Upto(0))  BY <2>1, FS_EmptySet
  <2>3. ASSUME NEW p \in 1..n PROVE Xor(Col(p), Upto(0)) = {}
    BY <2>1, XorEmpty
  <2>4. Sofar(0) = [p \in 1..n |-> {}]  BY <2>3
  <2> HIDE DEF Upto, Sofar
  <2> QED  BY <1>1, <2>2, <2>4 DEF DmaNewZeroed
<1>3. ASSUME NEW q \in Nat, q \in D PROVE q + 1 \in D
  <2> SUFFICES ASSUME q + 1 <= m
               PROVE  acc[q + 1] = Sofar(q + 1) /\ IsFiniteSet(Upto(q + 1))
    OBVIOUS
  <2> DEFINE u == q + 1
             d == g[u]
  <2>1. /\ u \in 1..m /\ u - 1 = q /\ 1..u = 1..q \cup {u}
        /\ u \notin 1..q /\ 1..q \subseteq 1..m
    OBVIOUS
  <2>2. acc[q] = Sofar(q) /\ IsFiniteSet(Upto(q))  BY <1>3
  <2> HIDE DEF u
  <2>3. Upto(u) = Upto(q) \cup {d} /\ d \notin Upto(q) /\ d \in K
    BY <1>0, <2>1
  <2>4. IsFiniteSet(Upto(u))
    <3>1. IsFiniteSet(Upto(q))  BY <2>2
    <3> HIDE DEF Upto, d
    <3>2. IsFiniteSet(Upto(q) \cup {d})  BY ONLY <3>1, FS_AddElement
    <3> QED  BY <2>3, <3>2
  <2>5. acc[u] = XorInto(acc[q], views[u])  BY <1>1, <2>1
  <2>6. Adds(views[u], f[d], n)  BY <1>0, <2>1
  <2> DEFINE old == acc[q]
             S == {old[p] : p \in 1..n}
  <2> HIDE DEF Upto, d, K
  <2>7. old \in [1..n -> S]  BY <2>2
  <2> HIDE DEF S, old
  <2>8. XorInto(old, views[u]) = [p \in 1..n |-> Sym(old[p], f[d][p])]
    BY <2>6, <2>7 DEF Adds
  <2>9. ASSUME NEW p \in 1..n
        PROVE  Sym(old[p], f[d][p]) = Xor(Col(p), Upto(u))
    <3>1. old[p] = Xor(Col(p), Upto(q))  BY <2>2 DEF old
    <3>2. Col(p)[d] = f[d][p]  BY <2>3
    <3> HIDE DEF Col
    <3>3. Xor(Col(p), Upto(q) \cup {d}) = Sym(Xor(Col(p), Upto(q)), Col(p)[d])
      BY <2>2, <2>3, XorAdd
    <3> QED  BY <2>3, <3>1, <3>2, <3>3
  <2>10. acc[u] = Sofar(u)
    <3> HIDE DEF Col
    <3> QED  BY <2>5, <2>8, <2>9 DEF old
  <2> HIDE DEF Sofar
  <2> QED  BY <2>4, <2>10 DEF u
<1>4. acc[m] = Sofar(m)
  <2> HIDE DEF D
  <2>1. m \in D  BY <1>0, <1>2, <1>3, SetInduction
  <2> HIDE DEF Sofar, Upto
  <2> QED  BY <1>0, <2>1 DEF D
<1> QED  BY <1>1, <1>4 DEF SumOf

-----------------------------------------------------------------------------
(* What a strip holds on the disks                                         *)

DiskShape ==
  \A d \in Disks : \E S : disk[d] \in Seq(S) /\ Len(disk[d]) = StripBytes

\* A part of a sequence, byte by byte.
LEMMA PartFacts ==
  ASSUME NEW S, NEW old \in Seq(S), NEW a \in Nat, NEW n \in Nat,
         a + n <= Len(old)
  PROVE  /\ SubSeq(old, a + 1, a + n) \in Seq(S)
         /\ Len(SubSeq(old, a + 1, a + n)) = n
         /\ \A j \in 1..n : SubSeq(old, a + 1, a + n)[j] = old[a + j]
<1> DEFINE b == a + 1
           c == a + n
<1>1. b \in 1..(Len(old) + 1) /\ c \in 0..Len(old) /\ b <= c + 1
      /\ c - b + 1 = n /\ c \in Nat /\ b \in Nat
      /\ \A j \in 1..n : b + j - 1 = a + j
  OBVIOUS
<1> HIDE DEF b, c
<1>2. /\ SubSeq(old, b, c) \in Seq(S) /\ Len(SubSeq(old, b, c)) = c - b + 1
      /\ \A j \in 1..(c - b + 1) : SubSeq(old, b, c)[j] = old[b + j - 1]
  BY <1>1
<1> QED  BY <1>1, <1>2 DEF b, c

\* What a lower bdev reads of a strip, byte by byte.
LEMMA HeldFacts ==
  ASSUME DiskShape, NEW d \in Disks, NEW a \in Nat, NEW n \in Nat,
         StripBytes \in Nat, a + n <= StripBytes
  PROVE  \E S : /\ Held(d, a, n) \in Seq(S) /\ Len(Held(d, a, n)) = n
                /\ \A j \in 1..n : Held(d, a, n)[j] = disk[d][a + j]
<1>1. PICK S : disk[d] \in Seq(S) /\ Len(disk[d]) = StripBytes
  BY DEF DiskShape
<1> DEFINE old == disk[d]
<1>2. old \in Seq(S) /\ a + n <= Len(old)  BY <1>1
<1>3. Held(d, a, n) = SubSeq(old, a + 1, a + n)  BY DEF Held
<1> HIDE DEF old
<1>4. /\ SubSeq(old, a + 1, a + n) \in Seq(S)
      /\ Len(SubSeq(old, a + 1, a + n)) = n
      /\ \A j \in 1..n : SubSeq(old, a + 1, a + n)[j] = old[a + j]
  BY ONLY <1>2, a \in Nat, n \in Nat, PartFacts
<1> QED  BY <1>3, <1>4 DEF old

\* What was read of strip i's disk, or recovered.
IsOld(b, i) ==
  /\ \E S : b \in Seq(S)
  /\ Len(b) = Size(i)
  /\ \A j \in 1..Size(i) : b[j] = disk[strips[i].disk][Start(i) + j]

LEMMA OnDiskFacts ==
  ASSUME CutDone, DiskShape, NEW i \in 1..Len(strips)
  PROVE  IsOld(OnDisk(i), i)
<1> DEFINE d == strips[i].disk
           a == Start(i)
           n == Size(i)
<1>1. a \in Nat /\ n \in Nat /\ StripBytes \in Nat /\ a + n <= StripBytes
  BY StripBytesFacts
<1>2. d \in Disks  BY CutFacts DEF DataDisks
<1>3. OnDisk(i) = Held(d, a, n)  BY DEF OnDisk
<1> HIDE DEF d, a, n
<1>4. PICK S : /\ Held(d, a, n) \in Seq(S) /\ Len(Held(d, a, n)) = n
               /\ \A j \in 1..n : Held(d, a, n)[j] = disk[d][a + j]
  BY <1>1, <1>2, HeldFacts
<1> QED  BY <1>3, <1>4 DEF IsOld, d, a, n

\* The disks are finitely many.
LEMMA DisksFinite ==
  /\ IsFiniteSet(Disks) /\ Cardinality(Disks) = NDisks
  /\ IsFiniteSet(DataDisks)
<1>1. 0 \in Int /\ NDisks - 1 \in Int /\ NDisks \in Nat /\ NDisks >= 3
  BY LayoutAssumption
<1>2. IsFiniteSet(0..(NDisks - 1))
      /\ Cardinality(0..(NDisks - 1)) = IF 0 > NDisks - 1 THEN 0 ELSE (NDisks - 1) - 0 + 1
  BY ONLY <1>1, FS_Interval
<1>3. IsFiniteSet(Disks) /\ Cardinality(Disks) = NDisks  BY <1>1, <1>2 DEF Disks
<1>4. IsFiniteSet(DataDisks)  BY <1>3, FS_Subset DEF DataDisks
<1> QED  BY <1>3, <1>4

\* The disks but one, in order.
LEMMA OtherDisks ==
  ASSUME NEW d \in Disks
  PROVE  /\ {DataDisk(k - 1, d) : k \in 1..(NDisks - 1)} = Disks \ {d}
         /\ \A j, k \in 1..(NDisks - 1) :
              DataDisk(j - 1, d) = DataDisk(k - 1, d) => j = k
<1>1. NDisks \in Nat /\ NDisks >= 3 /\ d \in 0..(NDisks - 1)
  BY LayoutAssumption DEF Disks
<1>2. ASSUME NEW k \in 1..(NDisks - 1) PROVE DataDisk(k - 1, d) \in Disks \ {d}
  BY <1>1 DEF DataDisk, Disks
<1>3. ASSUME NEW e \in Disks \ {d}
      PROVE  \E k \in 1..(NDisks - 1) : DataDisk(k - 1, d) = e
  <2>1. e \in 0..(NDisks - 1) /\ e # d  BY DEF Disks
  <2>2. CASE e < d
    <3>1. e + 1 \in 1..(NDisks - 1) /\ DataDisk((e + 1) - 1, d) = e
      BY <1>1, <2>1, <2>2 DEF DataDisk
    <3> QED  BY <3>1
  <2>3. CASE ~(e < d)
    <3>1. e \in 1..(NDisks - 1) /\ DataDisk(e - 1, d) = e
      BY <1>1, <2>1, <2>3 DEF DataDisk
    <3> QED  BY <3>1
  <2> QED  BY <2>2, <2>3
<1>4. ASSUME NEW j \in 1..(NDisks - 1), NEW k \in 1..(NDisks - 1),
             DataDisk(j - 1, d) = DataDisk(k - 1, d)
      PROVE  j = k
  BY <1>1, <1>4 DEF DataDisk
<1> QED  BY <1>2, <1>3, <1>4

\* The parity of the stripe as it was.
LEMMA StoredFacts ==
  /\ Parity \in Disks => IsFiniteSet(Disks)
  /\ \A d \in Disks : \E S : Stored[d] \in Seq(S) /\ Len(Stored[d]) = StripBytes
  /\ \A p \in 1..StripBytes : Parity \in Disks =>
       Stored[Parity][p] = Xor([d \in Disks |-> Stored[d][p]], Disks \ {Parity})
<1> DEFINE Byte(d, p) == IF d = Parity
                         THEN Xor([e \in DataDisks |-> Old(e, p)], DataDisks)
                         ELSE Old(d, p)
<1>1. Stored = [d \in Disks |-> [p \in 1..StripBytes |-> Byte(d, p)]]
  BY DEF Stored
<1>2. StripBytes \in Nat
  BY SplitSizes DEF StripBytes
<1>3. ASSUME NEW d \in Disks
      PROVE  \E S : Stored[d] \in Seq(S) /\ Len(Stored[d]) = StripBytes
  <2> DEFINE S == {Byte(d, p) : p \in 1..StripBytes}
             a == [p \in 1..StripBytes |-> Byte(d, p)]
  <2> HIDE DEF Byte
  <2>1. Stored[d] = a  BY <1>1
  <2>2. a \in Seq(S) /\ Len(a) = StripBytes  BY <1>2
  <2> HIDE DEF a, S
  <2> QED  BY <2>1, <2>2
<1>4. ASSUME NEW p \in 1..StripBytes, Parity \in Disks
      PROVE  Stored[Parity][p]
               = Xor([d \in Disks |-> Stored[d][p]], Disks \ {Parity})
  <2> DEFINE f == [e \in DataDisks |-> Old(e, p)]
             h == [d \in Disks |-> Stored[d][p]]
  <2>1. Stored[Parity][p] = Xor(f, DataDisks)  BY <1>1, <1>4
  <2>2. ASSUME NEW d \in DataDisks PROVE f[d] = h[d]
    <3>1. d \in Disks /\ d # Parity  BY DEF DataDisks
    <3>2. Stored[d][p] = Old(d, p)  BY <1>1, <3>1
    <3> QED  BY <3>1, <3>2
  <2> HIDE DEF f, h
  <2>3. Xor(f, DataDisks) = Xor(h, DataDisks)  BY <2>2, XorSame
  <2> QED  BY <2>1, <2>3 DEF DataDisks, h
<1> QED  BY <1>3, <1>4, DisksFinite

LEMMA ParityIsDisk == CutDone => Parity \in Disks
BY ParityPlace DEF CutDone, SplitInv, Progress, Parity, Stripe, Disks

\* What is reconstructed of a disk is what it holds.
LEMMA ReconstructFacts ==
  ASSUME Parity \in Disks, disk = Stored, NEW dd \in Disks,
         NEW a \in Nat, NEW n \in Nat, StripBytes \in Nat, a + n <= StripBytes
  PROVE  \E S : /\ Reconstruct(dd, a, n) \in Seq(S)
                /\ Len(Reconstruct(dd, a, n)) = n
                /\ \A j \in 1..n : Reconstruct(dd, a, n)[j] = disk[dd][a + j]
<1> DEFINE m == NDisks - 1
           views == [k \in 1..m |-> <<Held(DataDisk(k - 1, dd), a, n)>>]
           f == [d \in Disks |-> Held(d, a, n)]
           g == [k \in 1..m |-> DataDisk(k - 1, dd)]
           K == {g[q] : q \in 1..Len(views)}
           R == Reconstruct(dd, a, n)
<1>1. m \in Nat  BY SplitSizes
<1>2. DiskShape  BY StoredFacts DEF DiskShape
<1>3. R = XorAll(DmaNewZeroed(n), views)
  BY DEF Reconstruct
<1> HIDE DEF m, R
<1>4. Len(views) = m  BY <1>1
<1>5. /\ {DataDisk(k - 1, dd) : k \in 1..m} = Disks \ {dd}
      /\ \A j, k \in 1..m : DataDisk(j - 1, dd) = DataDisk(k - 1, dd) => j = k
  BY OtherDisks DEF m
<1>6. \A j, k \in 1..m : g[j] = g[k] => j = k  BY <1>5
<1>7. K = Disks \ {dd}  BY <1>4, <1>5
<1>8. ASSUME NEW q \in 1..m PROVE Adds(views[q], f[g[q]], n)
  <2> DEFINE d == DataDisk(q - 1, dd)
             b == Held(d, a, n)
  <2>1. d \in Disks  BY <1>5
  <2>2. views[q] = <<b>> /\ f[g[q]] = b  BY <2>1
  <2> HIDE DEF d, views, f, g
  <2>3. PICK T : b \in Seq(T) /\ Len(b) = n
    BY <1>2, <2>1, HeldFacts
  <2> HIDE DEF b
  <2>4. Adds(<<b>>, b, n)  BY ONLY n \in Nat, <2>3, OneAdds
  <2> QED  BY <2>2, <2>4
<1> HIDE DEF views, f, g, K
<1>9. R = [p \in 1..n |-> Xor([d \in K |-> f[d][p]], K)]
  <2>1. Summands(views, f, g, n)  BY <1>1, <1>4, <1>6, <1>8 DEF Summands
  <2>2. XorAll(DmaNewZeroed(n), views) = SumOf(f, {g[q] : q \in 1..Len(views)}, n)
    BY ONLY n \in Nat, <2>1, XorAllFacts
  <2> QED  BY <1>3, <2>2 DEF SumOf, K
<1>10. ASSUME NEW j \in 1..n
       PROVE  Xor([d \in K |-> f[d][j]], K) = disk[dd][a + j]
  <2> DEFINE p == a + j
             h == [d \in Disks |-> disk[d][p]]
             c == [d \in K |-> f[d][j]]
  <2>1. p \in 1..StripBytes  OBVIOUS
  <2>2. h[Parity] = Xor(h, Disks \ {Parity})
    BY <2>1, StoredFacts
  <2>3. ASSUME NEW d \in K PROVE c[d] = h[d]
    <3>1. d \in Disks  BY <1>7
    <3>2. f[d] = Held(d, a, n)  BY <3>1 DEF f
    <3>3. Held(d, a, n)[j] = disk[d][a + j]
      BY <1>2, <3>1, HeldFacts
    <3> QED  BY <3>1, <3>2, <3>3
  <2>4. h[dd] = disk[dd][p]  OBVIOUS
  <2> HIDE DEF h, c, p
  <2>5. Xor(c, K) = Xor(h, K)  BY <2>3, XorSame
  <2>6. Xor(h, Disks \ {dd}) = h[dd]
    BY ONLY dd \in Disks, Parity \in Disks, <2>2, DisksFinite, XorRecover
  <2> QED  BY <1>7, <2>4, <2>5, <2>6 DEF c, p
<1>11. \A j \in 1..n : R[j] = disk[dd][a + j]
  BY <1>9, <1>10
<1> DEFINE S == {R[p] : p \in 1..n}
<1>12. R \in [1..n -> S]  BY <1>9
<1> HIDE DEF S
<1>13. R \in Seq(S) /\ Len(R) = n  BY <1>12
<1> QED  BY <1>11, <1>13 DEF R

\* What is recovered of a strip is what its disk holds.
LEMMA StripRecovered ==
  ASSUME CutDone, disk = Stored, NEW i \in 1..Len(strips)
  PROVE  IsOld(Reconstruct(strips[i].disk, Start(i), Size(i)), i)
<1> DEFINE d == strips[i].disk
           a == Start(i)
           n == Size(i)
           R == Reconstruct(d, a, n)
<1>1. a \in Nat /\ n \in Nat /\ StripBytes \in Nat /\ a + n <= StripBytes
  BY StripBytesFacts
<1>2. d \in Disks  BY CutFacts DEF DataDisks
<1>3. Parity \in Disks  BY ParityIsDisk
<1> HIDE DEF d, a, n
<1>4. PICK S : R \in Seq(S) /\ Len(R) = n /\ \A j \in 1..n : R[j] = disk[d][a + j]
  BY <1>1, <1>2, <1>3, ReconstructFacts
<1> QED  BY <1>4 DEF IsOld, d, a, n

\* The old data of a strip, and the old parity.
LEMMA OldIoFacts ==
  ASSUME CutDone, disk = Stored, NEW lost
  PROVE  /\ \A i \in 1..Len(strips) : IsOld(OldIo(lost, i), i)
         /\ \E S : OldIo(lost, Len(strips) + 1) \in Seq(S)
         /\ Len(OldIo(lost, Len(strips) + 1)) = StripBytes
         /\ \A p \in 1..StripBytes :
              OldIo(lost, Len(strips) + 1)[p] = disk[Parity][p]
<1>1. DOMAIN strips = 1..Len(strips) /\ Len(strips) \in Nat  BY CutSums
<1>2. DiskShape  BY StoredFacts DEF DiskShape
<1>3. ASSUME NEW i \in 1..Len(strips) PROVE IsOld(OldIo(lost, i), i)
  <2>1. OldIo(lost, i) = IF i = lost
                         THEN Reconstruct(strips[i].disk, Start(i), Size(i))
                         ELSE OnDisk(i)
    BY <1>1 DEF OldIo
  <2> QED  BY <1>2, <2>1, StripRecovered, OnDiskFacts
<1> DEFINE b == OldIo(lost, Len(strips) + 1)
           r == Reconstruct(Parity, 0, StripBytes)
           h == Held(Parity, 0, StripBytes)
           IsParity(x) == /\ \E S : x \in Seq(S)
                          /\ Len(x) = StripBytes
                          /\ \A p \in 1..StripBytes : x[p] = disk[Parity][p]
<1>4. Parity \in Disks /\ StripBytes \in Nat /\ 0 \in Nat
      /\ 0 + StripBytes <= StripBytes /\ \A p \in 1..StripBytes : 0 + p = p
  BY ParityIsDisk, SplitSizes DEF StripBytes
<1>5. IsParity(r)
  <2>1. PICK S : /\ r \in Seq(S) /\ Len(r) = StripBytes
                 /\ \A p \in 1..StripBytes : r[p] = disk[Parity][0 + p]
    BY <1>4, ReconstructFacts
  <2> QED  BY <1>4, <2>1
<1>6. IsParity(h)
  <2>1. PICK S : /\ h \in Seq(S) /\ Len(h) = StripBytes
                 /\ \A p \in 1..StripBytes : h[p] = disk[Parity][0 + p]
    BY <1>2, <1>4, HeldFacts
  <2> QED  BY <1>4, <2>1
<1>7. b = r \/ b = h  BY <1>1 DEF OldIo
<1> HIDE DEF b, r, h
<1>8. IsParity(b)  BY <1>5, <1>6, <1>7
<1> QED  BY <1>3, <1>8 DEF b

-----------------------------------------------------------------------------
(* Reads                                                                   *)

\* A memory of the request.
IsMem(m) == DOMAIN m = Memory(iovs) /\ m = [x \in DOMAIN m |-> m[x]]

\* Strip i's memory holds what its disk holds.
Got(m, i) ==
  \A j \in 1..Size(i) :
    m[Bytes(strips[i].iovs)[j]] = disk[strips[i].disk][Start(i) + j]

\* new is m but for strip i's memory.
Keeps(new, m, i) ==
  \A x \in DOMAIN m :
    (\A j \in 1..Size(i) : x # Bytes(strips[i].iovs)[j]) => new[x] = m[x]

Fills(new, m, i) == IsMem(new) /\ Got(new, i) /\ Keeps(new, m, i)

\* The bytes of the request.
LEMMA RequestFacts ==
  ASSUME CutDone
  PROVE  /\ len * BlockLen \in Nat
         /\ iovs \in Seq(Iov) /\ Distinct(iovs)
         /\ Len(Bytes(iovs)) = len * BlockLen /\ Bytes(iovs) \in Seq(Cell)
<1> DEFINE n == len * BlockLen
<1>1. iovs \in Lists(n)  BY DEF CutDone, SplitInv, Progress
<1>2. n \in Nat
  <2>1. len \in Nat /\ BlockLen \in Nat
    BY BlockPlace, SplitSizes DEF CutDone, SplitInv, Progress
  <2> QED  BY <2>1
<1> HIDE DEF n
<1>3. iovs \in Seq(Iov) /\ Distinct(iovs) /\ Len(Bytes(iovs)) = n
  BY ONLY <1>1, <1>2, ListFacts
<1>4. Bytes(iovs) \in Seq(Cell)  BY <1>3, BytesFacts
<1> QED  BY <1>2, <1>3, <1>4 DEF n

\* The request's memory is made of bytes of its buffers.
LEMMA MemoryCells == CutDone => Memory(iovs) \subseteq Cell
<1> SUFFICES ASSUME CutDone PROVE Memory(iovs) \subseteq Cell
  OBVIOUS
<1> DEFINE B == Bytes(iovs)
<1>1. B \in Seq(Cell)  BY RequestFacts
<1> HIDE DEF B
<1>2. Range(B) \subseteq Cell  BY <1>1 DEF Range
<1> QED  BY <1>2 DEF Memory, B

\* The bytes of a strip are bytes of the request's memory.
LEMMA StripMemory ==
  ASSUME CutDone, NEW i \in 1..Len(strips), NEW j \in 1..Size(i)
  PROVE  Bytes(strips[i].iovs)[j] \in Memory(iovs)
<1> DEFINE B == Bytes(iovs)
           n == len * BlockLen
           p == Base(i) + j
<1>1. n \in Nat /\ B \in Seq(Cell) /\ Len(B) = n  BY RequestFacts
<1>2. p \in 1..n /\ Bytes(strips[i].iovs)[j] = B[p]
  BY StripBytesFacts
<1> HIDE DEF B, n, p
<1>3. B[p] \in Range(B)  BY <1>1, <1>2 DEF Range
<1> QED  BY <1>2, <1>3 DEF Memory, B

\* No byte of the request is in two strips.
LEMMA StripsApart ==
  ASSUME CutDone, NEW i \in 1..Len(strips), NEW r \in 1..Len(strips), i # r,
         NEW j \in 1..Size(i), NEW l \in 1..Size(r)
  PROVE  Bytes(strips[i].iovs)[j] # Bytes(strips[r].iovs)[l]
<1> DEFINE n == len * BlockLen
           p == Base(i) + j
           q == Base(r) + l
<1>1. /\ n \in Nat /\ p \in 1..n /\ q \in 1..n
      /\ Bytes(strips[i].iovs)[j] = Bytes(iovs)[p]
      /\ Bytes(strips[r].iovs)[l] = Bytes(iovs)[q]
  BY StripBytesFacts
<1>2. DiskOf(BlockOfByte(p)) = strips[i].disk  BY BytePlace
<1>3. DiskOf(BlockOfByte(q)) = strips[r].disk  BY BytePlace
<1>4. Distinct(iovs) /\ Len(Bytes(iovs)) = n  BY RequestFacts
<1> HIDE DEF n, p, q
<1>5. p # q
  <2> SUFFICES ASSUME p = q PROVE FALSE
    OBVIOUS
  <2>1. strips[i].disk = strips[r].disk  BY <1>2, <1>3
  <2> QED  BY <2>1, OwnDisks
<1> QED  BY <1>1, <1>4, <1>5 DEF Distinct

\* What fills a strip leaves the others.
LEMMA FillKeeps ==
  ASSUME CutDone, NEW m, IsMem(m), NEW new,
         NEW i \in 1..Len(strips), Fills(new, m, i),
         NEW r \in 1..Len(strips), r # i, Got(m, r)
  PROVE  Got(new, r)
<1>1. ASSUME NEW l \in 1..Size(r)
      PROVE  new[Bytes(strips[r].iovs)[l]] = m[Bytes(strips[r].iovs)[l]]
  <2> DEFINE x == Bytes(strips[r].iovs)[l]
  <2>1. x \in DOMAIN m  BY StripMemory DEF IsMem
  <2>2. \A j \in 1..Size(i) : x # Bytes(strips[i].iovs)[j]
    BY StripsApart
  <2> HIDE DEF x
  <2>3. new[x] = m[x]  BY <2>1, <2>2 DEF Fills, Keeps
  <2> QED  BY <2>3 DEF x
<1> QED  BY <1>1 DEF Got

\* A lower bdev's read fills the strip's memory and no other.
LEMMA ReadIntoFills ==
  ASSUME CutDone, DiskShape, NEW m, IsMem(m), NEW i \in 1..Len(strips)
  PROVE  Fills(ReadInto(m, i), m, i)
<1> DEFINE v == strips[i].iovs
           n == Size(i)
           B == Bytes(v)
           d == strips[i].disk
           At(x) == CHOOSE k \in DOMAIN B : B[k] = x
           data == OnDisk(i)
           new == ReadInto(m, i)
<1>1. v \in Seq(Iov) /\ Len(B) = n /\ n \in Nat /\ Distinct(v)
  BY StripBytesFacts
<1>2. B \in Seq(Cell)  BY <1>1, BytesFacts
<1>3. new = [x \in DOMAIN m |-> IF x \in Range(B) THEN data[At(x)] ELSE m[x]]
  BY DEF ReadInto
<1>4. \A j \in 1..n : B[j] \in DOMAIN m  BY StripMemory DEF IsMem
<1>5. \A j \in 1..n : data[j] = disk[d][Start(i) + j]
  BY OnDiskFacts DEF IsOld
<1>6. \A j, k \in 1..n : B[j] = B[k] => j = k  BY <1>1 DEF Distinct
<1> HIDE DEF B, n, data, new, d
<1>7. DOMAIN B = 1..n /\ Range(B) = {B[j] : j \in 1..n}
  BY <1>1, <1>2 DEF Range
<1>8. ASSUME NEW j \in 1..n PROVE At(B[j]) = j
  BY <1>6, <1>7
<1>9. ASSUME NEW j \in 1..n PROVE new[B[j]] = data[j]
  <2>1. B[j] \in Range(B)  BY <1>7
  <2> HIDE DEF At
  <2> QED  BY <1>3, <1>4, <1>8, <2>1
<1>10. ASSUME NEW x \in DOMAIN m, \A j \in 1..n : x # B[j]
       PROVE  new[x] = m[x]
  <2>1. x \notin Range(B)  BY <1>7, <1>10
  <2> HIDE DEF At
  <2> QED  BY <1>3, <2>1
<1>11. DOMAIN new = DOMAIN m /\ new = [x \in DOMAIN new |-> new[x]]
  <2> HIDE DEF At
  <2> QED  BY <1>3
<1>12. IsMem(new)  BY <1>11 DEF IsMem
<1>13. Got(new, i)  BY <1>5, <1>9 DEF Got, B, n, d
<1>14. Keeps(new, m, i)  BY <1>10 DEF Keeps, B, n
<1> QED  BY <1>12, <1>13, <1>14 DEF Fills, new

\* So does the copy of recovered data.
LEMMA CopyFills ==
  ASSUME CutDone, NEW m, IsMem(m), NEW i \in 1..Len(strips), NEW data,
         \A j \in 1..Size(i) : data[j] = disk[strips[i].disk][Start(i) + j]
  PROVE  Fills(CopyFromSlice(m, strips[i].iovs, data), m, i)
<1> DEFINE v == strips[i].iovs
           n == Size(i)
           B == Bytes(v)
           new == CopyFromSlice(m, v, data)
<1>1. v \in Seq(Iov) /\ Len(B) = n /\ n \in Nat /\ Distinct(v)
  BY StripBytesFacts
<1>2. DOMAIN m \subseteq Cell  BY MemoryCells DEF IsMem
<1>3. new = Copied(m, v, data, Len(B))
  <2>1. m = [x \in DOMAIN m |-> m[x]]  BY DEF IsMem
  <2> QED  BY ONLY <1>1, <1>2, <2>1, CopyFacts
<1>4. new = [x \in DOMAIN m |-> IF \E k \in 1..n : B[k] = x
                                THEN data[PlaceIn(v, x)] ELSE m[x]]
  BY <1>1, <1>3 DEF Copied
<1>5. ASSUME NEW j \in 1..n PROVE PlaceIn(v, B[j]) = j
  BY <1>1, PlaceFacts
<1>6. \A j \in 1..n : B[j] \in DOMAIN m  BY StripMemory DEF IsMem
<1> HIDE DEF B, n, new
<1>7. ASSUME NEW j \in 1..n PROVE new[B[j]] = data[j]
  BY <1>4, <1>5, <1>6
<1>8. ASSUME NEW x \in DOMAIN m, \A j \in 1..n : x # B[j]
      PROVE  new[x] = m[x]
  BY <1>4, <1>8
<1>9. IsMem(new)  BY <1>4 DEF IsMem
<1>10. Got(new, i)  BY <1>7 DEF Got, B, n
<1>11. Keeps(new, m, i)  BY <1>8 DEF Keeps, B, n
<1> QED  BY <1>9, <1>10, <1>11 DEF Fills, new

\* After the loop every strip that is not lost has been read.
LEMMA ReadAllFacts ==
  ASSUME CutDone, DiskShape, IsMem(mem), NEW lost
  PROVE  /\ IsMem(ReadAll(lost))
         /\ \A i \in 1..Len(strips) : i # lost => Got(ReadAll(lost), i)
<1> DEFINE n == Len(strips)
<1>1. n \in Nat  BY CutSums
<1>2. PICK acc : /\ acc[0] = mem
                 /\ \A i \in 1..n : acc[i] = IF i = lost THEN acc[i - 1]
                                             ELSE ReadInto(acc[i - 1], i)
                 /\ ReadAll(lost) = acc[n]
  BY <1>1, ReadAllLoop
<1> DEFINE At(q) == /\ IsMem(acc[q])
                    /\ \A i \in 1..q : i # lost => Got(acc[q], i)
           D == {q \in Nat : q <= n => At(q)}
<1>3. 0 \in D  BY <1>2
<1>4. ASSUME NEW q \in Nat, q \in D PROVE q + 1 \in D
  <2> SUFFICES ASSUME q + 1 <= n PROVE At(q + 1)
    OBVIOUS
  <2> DEFINE u == q + 1
  <2>1. /\ u \in 1..n /\ u - 1 = q /\ q \in 0..n
        /\ \A i \in 1..u : i = u \/ (i \in 1..q /\ i # u)
        /\ 1..q \subseteq 1..n
    BY <1>1
  <2>2. At(q)  BY <1>1, <1>4
  <2> HIDE DEF u
  <2>3. CASE u = lost
    <3>1. acc[u] = acc[q]  BY <1>2, <2>1, <2>3
    <3>2. IsMem(acc[u])  BY <2>2, <3>1
    <3>3. \A i \in 1..u : i # lost => Got(acc[u], i)
      BY <2>1, <2>2, <2>3, <3>1
    <3> QED  BY <3>2, <3>3 DEF u
  <2>4. CASE u # lost
    <3> DEFINE m == acc[q]
    <3>1. acc[u] = ReadInto(m, u)  BY <1>2, <2>1, <2>4
    <3>2. IsMem(m)  BY <2>2
    <3> HIDE DEF m
    <3>3. Fills(acc[u], m, u)  BY <2>1, <3>1, <3>2, ReadIntoFills
    <3>4. ASSUME NEW i \in 1..q, i # u, i # lost PROVE Got(acc[u], i)
      <4>1. Got(m, i)  BY <2>2, <3>4 DEF m
      <4>2. i \in 1..n  BY <2>1
      <4> QED  BY <2>1, <3>2, <3>3, <3>4, <4>1, <4>2, FillKeeps
    <3>5. IsMem(acc[u]) /\ Got(acc[u], u)  BY <3>3 DEF Fills
    <3>6. \A i \in 1..u : i # lost => Got(acc[u], i)
      BY <2>1, <3>4, <3>5
    <3> QED  BY <3>5, <3>6 DEF u
  <2> QED  BY <2>3, <2>4
<1>5. At(n)
  <2>1. n \in D
    <3> HIDE DEF D
    <3> QED  BY <1>1, <1>3, <1>4, SetInduction
  <2> QED  BY <1>1, <2>1
<1> QED  BY <1>2, <1>5

\* After a read every strip's memory holds what its disk holds, that of a lost
\* disk included.
LEMMA ReadGets ==
  ASSUME CutDone, disk = Stored, IsMem(mem),
         NEW lost \in 0..Len(strips), Read(lost)
  PROVE  IsMem(mem') /\ \A i \in 1..Len(strips) : Got(mem', i)
<1> DEFINE n == Len(strips)
           m == ReadAll(lost)
<1>1. n \in Nat  BY CutSums
<1>2. DiskShape  BY StoredFacts DEF DiskShape
<1>3. IsMem(m) /\ \A i \in 1..n : i # lost => Got(m, i)
  BY <1>2, ReadAllFacts
<1>4. mem' = IF lost = 0 THEN m
             ELSE CopyFromSlice(m, strips[lost].iovs,
                                Reconstruct(strips[lost].disk, Start(lost),
                                            Size(lost)))
  BY DEF Read
<1> HIDE DEF m
<1>5. CASE lost = 0
  <2>1. \A i \in 1..n : i # lost  BY <1>1, <1>5
  <2> QED  BY <1>3, <1>4, <1>5, <2>1
<1>6. CASE lost # 0
  <2>1. lost \in 1..n  BY <1>1, <1>6
  <2> DEFINE data == Reconstruct(strips[lost].disk, Start(lost), Size(lost))
             new == CopyFromSlice(m, strips[lost].iovs, data)
  <2>2. \A j \in 1..Size(lost) :
          data[j] = disk[strips[lost].disk][Start(lost) + j]
    BY <2>1, StripRecovered DEF IsOld
  <2>3. mem' = new  BY <1>4, <1>6
  <2> HIDE DEF data
  <2>4. Fills(new, m, lost)  BY <1>3, <2>1, <2>2, CopyFills
  <2> HIDE DEF new
  <2>5. ASSUME NEW i \in 1..n PROVE Got(new, i)
    <3>1. CASE i = lost  BY <2>4, <3>1 DEF Fills
    <3>2. CASE i # lost
      <4>1. Got(m, i)  BY <1>3, <3>2
      <4> QED  BY <1>3, <2>1, <2>4, <3>2, <4>1, FillKeeps
    <3> QED  BY <3>1, <3>2
  <2>6. IsMem(new)  BY <2>4 DEF Fills
  <2> QED  BY <2>3, <2>5, <2>6
<1> QED  BY <1>5, <1>6

\* That is what a read promises.
LEMMA GotRestores ==
  ASSUME CutDone, disk = Stored, NEW m, \A i \in 1..Len(strips) : Got(m, i)
  PROVE  \A k \in 1..(len * BlockLen) :
           m[Bytes(iovs)[k]] = Stored[DiskOf(BlockOfByte(k))][PlaceOf(k)]
<1> SUFFICES ASSUME NEW p \in 1..(len * BlockLen)
             PROVE  m[Bytes(iovs)[p]] = Stored[DiskOf(BlockOfByte(p))][PlaceOf(p)]
  OBVIOUS
<1>1. PICK i \in 1..Len(strips) : \E j \in 1..Size(i) : p = Base(i) + j
  BY ByteCut
<1>2. PICK j \in 1..Size(i) : p = Base(i) + j  BY <1>1
<1>3. /\ DiskOf(BlockOfByte(p)) = strips[i].disk
      /\ PlaceOf(p) = Start(i) + j
  BY <1>2, BytePlace
<1>4. Bytes(strips[i].iovs)[j] = Bytes(iovs)[p]
  BY <1>2, StripBytesFacts
<1>5. m[Bytes(strips[i].iovs)[j]] = disk[strips[i].disk][Start(i) + j]
  BY DEF Got
<1> QED  BY <1>3, <1>4, <1>5

-----------------------------------------------------------------------------
(* Writes                                                                  *)

\* new is old with n bytes of data after byte a.
Patched(new, old, a, n, data) ==
  /\ \E U : new \in Seq(U)
  /\ Len(new) = Len(old)
  /\ \A p \in 1..Len(old) :
       new[p] = IF p - a \in 1..n THEN data[p - a] ELSE old[p]

\* Start, data and rest of a buffer put together.
LEMMA PatchIs ==
  ASSUME NEW S, NEW old \in Seq(S), NEW T, NEW data \in Seq(T), NEW a \in Nat,
         NEW n \in Nat, Len(data) = n, a + n <= Len(old), NEW new,
         new = SubSeq(old, 1, a) \o data \o SubSeq(old, a + n + 1, Len(old))
  PROVE  Patched(new, old, a, n, data)
<1> DEFINE U == S \cup T
           N == Len(old)
<1>1. old \in Seq(U) /\ data \in Seq(U) /\ N \in Nat
  OBVIOUS
<1> HIDE DEF U
<1>2. new = Spliced(old, a, data)
  <2>1. SubSeq(old, 1, a) \o data \o SubSeq(old, a + Len(data) + 1, Len(old))
          = Spliced(old, a, data)
    BY ONLY a \in Nat, Len(data) = n, a + n <= Len(old), <1>1, SpliceFacts
  <2> QED  BY <2>1
<1>3. new = [p \in 1..N |-> IF p - a \in 1..n THEN data[p - a] ELSE old[p]]
  BY <1>2 DEF Spliced
<1> DEFINE R == {new[p] : p \in 1..N}
<1>4. new \in Seq(R) /\ Len(new) = N
  <2>1. new \in [1..N -> R]
    BY <1>3
  <2>2. N \in Nat  BY <1>1
  <2> HIDE DEF R, N
  <2> QED  BY ONLY <2>1, <2>2
<1>5. \A p \in 1..N : new[p] = IF p - a \in 1..n THEN data[p - a] ELSE old[p]
  BY <1>3
<1> QED  BY <1>4, <1>5 DEF Patched

\* new is old with the n bytes of F added after byte a.
Summed(new, old, a, n, F) ==
  /\ \E U : new \in Seq(U)
  /\ Len(new) = Len(old)
  /\ \A p \in 1..Len(old) :
       new[p] = IF p - a \in 1..n THEN Sym(old[p], F[p - a]) ELSE old[p]

\* xor on a part of a buffer.
LEMMA XorAtFacts ==
  ASSUME NEW S, NEW dst \in Seq(S), NEW a \in Nat, NEW n \in Nat,
         a + n <= Len(dst), NEW pieces, NEW F, Adds(pieces, F, n)
  PROVE  Summed(XorAt(dst, a, n, pieces), dst, a, n, F)
<1> DEFINE part == SubSeq(dst, a + 1, a + n)
           x == XorInto(part, pieces)
           R == {x[p] : p \in 1..n}
           new == XorAt(dst, a, n, pieces)
<1>1. /\ part \in Seq(S) /\ Len(part) = n
      /\ \A j \in 1..n : part[j] = dst[a + j]
  BY PartFacts
<1>2. new = SubSeq(dst, 1, a) \o x \o SubSeq(dst, a + n + 1, Len(dst))
  BY DEF XorAt
<1> HIDE DEF part
<1>3. part \in [1..n -> S]  BY <1>1
<1>4. x = [p \in 1..n |-> Sym(part[p], F[p])]  BY <1>3 DEF Adds
<1> HIDE DEF x, new
<1>5. x \in Seq(R) /\ Len(x) = n
  <2>1. x \in [1..n -> R]  BY <1>4
  <2> HIDE DEF R
  <2> QED  BY <2>1
<1> HIDE DEF R
<1>6. Patched(new, dst, a, n, x)
  BY ONLY a \in Nat, n \in Nat, a + n <= Len(dst), dst \in Seq(S), <1>2, <1>5,
     PatchIs
<1>7. ASSUME NEW p \in 1..Len(dst), p - a \in 1..n
      PROVE  x[p - a] = Sym(dst[p], F[p - a])
  <2>1. x[p - a] = Sym(part[p - a], F[p - a])  BY <1>4, <1>7
  <2>2. part[p - a] = dst[a + (p - a)] /\ a + (p - a) = p  BY <1>1, <1>7
  <2> QED  BY <2>1, <2>2
<1> QED  BY <1>6, <1>7 DEF new, Patched, Summed

\* A lower bdev's write replaces the bytes of the strip.
LEMMA PutFacts ==
  ASSUME CutDone, NEW i \in 1..Len(strips), NEW S, NEW old \in Seq(S),
         Len(old) = StripBytes, NEW T, NEW data \in Seq(T), Len(data) = Size(i)
  PROVE  Patched(Put(old, i, data), old, Start(i), Size(i), data)
<1> DEFINE a == Start(i)
           n == Size(i)
           new == Put(old, i, data)
<1>1. a \in Nat /\ n \in Nat /\ a + n <= Len(old)
  BY StripBytesFacts
<1>2. new = SubSeq(old, 1, a) \o data \o SubSeq(old, a + n + 1, Len(old))
  BY DEF Put
<1> HIDE DEF a, n, new
<1>3. Len(data) = n  BY DEF n
<1>4. Patched(new, old, a, n, data)
  BY ONLY <1>1, <1>2, <1>3, old \in Seq(S), data \in Seq(T), PatchIs
<1> QED  BY <1>4 DEF a, n, new

\* One summand changes.
LEMMA XorChange ==
  ASSUME NEW D, IsFiniteSet(D), NEW d \in D, NEW f, NEW g,
         \A e \in D \ {d} : f[e] = g[e]
  PROVE  Xor(g, D) = Sym(Sym(Xor(f, D), f[d]), g[d])
<1> DEFINE E == D \ {d}
           X == Xor(f, E)
<1>1. IsFiniteSet(E) /\ d \notin E /\ D = E \cup {d}  BY FS_Subset
<1>2. \A e \in E : g[e] = f[e]  OBVIOUS
<1> HIDE DEF E
<1>3. Xor(f, E \cup {d}) = Sym(X, f[d])  BY <1>1, XorAdd
<1>4. Xor(g, E \cup {d}) = Sym(Xor(g, E), g[d])  BY <1>1, XorAdd
<1>5. Xor(g, E) = X  BY <1>2, XorSame
<1>6. \A A, B, C : Sym(Sym(Sym(A, B), B), C) = Sym(A, C)
  BY DEF Sym
<1> HIDE DEF X
<1> QED  BY <1>1, <1>3, <1>4, <1>5, <1>6

\* A disk gets what strip i holds.
Sends(new, i) ==
  \A p \in 1..StripBytes :
    new[p] = IF p - Start(i) \in 1..Size(i)
             THEN mem[Bytes(strips[i].iovs)[p - Start(i)]]
             ELSE disk[strips[i].disk][p]

\* Every disk gets what the strip it is the disk of holds.
AllSent(new) ==
  \A d \in DataDisks :
    /\ \A i \in 1..Len(strips) : strips[i].disk = d => Sends(new[d], i)
    /\ (\A i \in 1..Len(strips) : strips[i].disk # d) =>
         \A p \in 1..StripBytes : new[d][p] = disk[d][p]

\* What a view gathers.
LEMMA GatheredFacts ==
  ASSUME CutDone, NEW i \in 1..Len(strips)
  PROVE  /\ \E T : Gathered(i) \in Seq(T)
         /\ Len(Gathered(i)) = Size(i)
         /\ \A j \in 1..Size(i) : Gathered(i)[j] = mem[Bytes(strips[i].iovs)[j]]
<1> DEFINE v == strips[i].iovs
           S == {mem[x] : x \in Cell}
<1>1. v \in Seq(Iov) /\ Len(Bytes(v)) = Size(i)  BY StripBytesFacts
<1>2. \A x \in Cell : mem[x] \in S  OBVIOUS
<1> HIDE DEF S
<1>3. /\ FlattenSeq(Pieces(mem, v)) \in Seq(S)
      /\ Len(FlattenSeq(Pieces(mem, v))) = Len(Bytes(v))
      /\ \A k \in 1..Len(Bytes(v)) :
           FlattenSeq(Pieces(mem, v))[k] = mem[Bytes(v)[k]]
  BY ONLY <1>1, <1>2, GatherFacts
<1>4. Gathered(i) = FlattenSeq(Pieces(mem, v))  BY DEF Gathered
<1> QED  BY <1>1, <1>3, <1>4

\* A disk on which a strip is put gets it.
LEMMA PutSends ==
  ASSUME CutDone, DiskShape, NEW i \in 1..Len(strips)
  PROVE  LET new == Put(disk[strips[i].disk], i, Gathered(i)) IN
         Sends(new, i) /\ Len(new) = StripBytes /\ \E U : new \in Seq(U)
<1> DEFINE old == disk[strips[i].disk]
           data == Gathered(i)
           new == Put(old, i, data)
<1>1. strips[i].disk \in Disks  BY CutFacts DEF DataDisks
<1>2. PICK S : old \in Seq(S) /\ Len(old) = StripBytes
  BY <1>1 DEF DiskShape
<1>3. PICK T : data \in Seq(T)  BY GatheredFacts
<1>4. /\ Len(data) = Size(i)
      /\ \A j \in 1..Size(i) : data[j] = mem[Bytes(strips[i].iovs)[j]]
  BY GatheredFacts
<1> HIDE DEF old, data
<1>5. Patched(new, old, Start(i), Size(i), data)
  BY <1>2, <1>3, <1>4, PutFacts
<1>6. Sends(new, i)  BY <1>2, <1>4, <1>5 DEF Sends, Patched, old
<1> QED  BY <1>2, <1>5, <1>6 DEF Patched, old, data

\* What is sent is what a write promises of the data.
LEMMA SentWritten ==
  ASSUME CutDone, disk = Stored, NEW new, AllSent(new),
         NEW d \in DataDisks, NEW p \in 1..StripBytes
  PROVE  new[d][p] =
           LET mine == {k \in 1..(len * BlockLen) :
                          DiskOf(BlockOfByte(k)) = d /\ PlaceOf(k) = p}
           IN IF mine = {} THEN Stored[d][p]
              ELSE UNION {mem[Bytes(iovs)[k]] : k \in mine}
<1> DEFINE mine == {k \in 1..(len * BlockLen) :
                      DiskOf(BlockOfByte(k)) = d /\ PlaceOf(k) = p}
<1>1. ASSUME NEW k \in mine
      PROVE  \E i \in 1..Len(strips) : \E j \in 1..Size(i) :
               /\ k = Base(i) + j /\ strips[i].disk = d /\ p = Start(i) + j
  <2>1. k \in 1..(len * BlockLen)  OBVIOUS
  <2>2. PICK i \in 1..Len(strips) : \E j \in 1..Size(i) : k = Base(i) + j
    BY <2>1, ByteCut
  <2>3. PICK j \in 1..Size(i) : k = Base(i) + j  BY <2>2
  <2>4. /\ DiskOf(BlockOfByte(k)) = strips[i].disk
        /\ PlaceOf(k) = Start(i) + j
    BY <2>3, BytePlace
  <2> QED  BY <2>3, <2>4
<1>2. ASSUME NEW i \in 1..Len(strips), NEW j \in 1..Size(i),
             strips[i].disk = d, p = Start(i) + j
      PROVE  mine = {Base(i) + j}
  <2>1. Base(i) + j \in mine
    <3>1. Base(i) + j \in 1..(len * BlockLen)  BY StripBytesFacts
    <3> QED  BY <1>2, <3>1, BytePlace
  <2>2. ASSUME NEW k \in mine PROVE k = Base(i) + j
    <3> HIDE DEF mine
    <3>1. PICK r \in 1..Len(strips) : \E l \in 1..Size(r) :
             k = Base(r) + l /\ strips[r].disk = d /\ p = Start(r) + l
      BY <1>1
    <3>2. PICK l \in 1..Size(r) :
             k = Base(r) + l /\ strips[r].disk = d /\ p = Start(r) + l
      BY <3>1
    <3>3. r = i  BY <1>2, <3>2, OwnDisks
    <3>4. Start(i) \in Nat /\ Size(i) \in Nat  BY StripBytesFacts
    <3>5. l = j  BY <1>2, <3>2, <3>3, <3>4
    <3> QED  BY <3>2, <3>3, <3>5
  <2> HIDE DEF mine
  <2> QED  BY <2>1, <2>2
<1> HIDE DEF mine
<1>3. CASE \E i \in 1..Len(strips) : strips[i].disk = d /\ p - Start(i) \in 1..Size(i)
  <2>1. PICK i \in 1..Len(strips) :
           strips[i].disk = d /\ p - Start(i) \in 1..Size(i)
    BY <1>3
  <2> DEFINE j == p - Start(i)
  <2>2. j \in 1..Size(i) /\ p = Start(i) + j
    <3>1. Start(i) \in Nat /\ StripBytes \in Nat  BY StripBytesFacts
    <3> QED  BY <2>1, <3>1
  <2>3. new[d][p] = mem[Bytes(strips[i].iovs)[j]]
    BY <2>1 DEF AllSent, Sends
  <2> HIDE DEF j
  <2>4. mine = {Base(i) + j}  BY <1>2, <2>1, <2>2
  <2>5. Bytes(strips[i].iovs)[j] = Bytes(iovs)[Base(i) + j]
    BY <2>2, StripBytesFacts
  <2>6. UNION {mem[Bytes(iovs)[k]] : k \in mine} = mem[Bytes(iovs)[Base(i) + j]]
    BY <2>4
  <2> QED  BY <2>3, <2>4, <2>5, <2>6 DEF mine
<1>4. CASE ~ \E i \in 1..Len(strips) : strips[i].disk = d /\ p - Start(i) \in 1..Size(i)
  <2>1. mine = {}
    <3>1. SUFFICES ASSUME NEW k \in mine PROVE FALSE
      OBVIOUS
    <3>2. PICK i \in 1..Len(strips) : \E j \in 1..Size(i) :
             k = Base(i) + j /\ strips[i].disk = d /\ p = Start(i) + j
      BY <1>1
    <3>3. PICK j \in 1..Size(i) : strips[i].disk = d /\ p = Start(i) + j
      BY <3>2
    <3>4. Start(i) \in Nat /\ Size(i) \in Nat  BY StripBytesFacts
    <3>5. p - Start(i) = j  BY <3>3, <3>4
    <3> QED  BY <1>4, <3>3, <3>5
  <2>2. new[d][p] = disk[d][p]
    <3>1. CASE \A i \in 1..Len(strips) : strips[i].disk # d
      BY <3>1 DEF AllSent
    <3>2. CASE ~ \A i \in 1..Len(strips) : strips[i].disk # d
      <4>1. PICK i \in 1..Len(strips) : strips[i].disk = d  BY <3>2
      <4> QED  BY <1>4, <4>1 DEF AllSent, Sends
    <3> QED  BY <3>1, <3>2
  <2> QED  BY <2>1, <2>2 DEF mine
<1> QED  BY <1>3, <1>4

\* x is a parity strip with the old and the new bytes of strip i added to it.
StripAdded(x, sum, i, new) ==
  /\ \E U : x \in Seq(U)
  /\ Len(x) = StripBytes
  /\ \A p \in 1..StripBytes :
       x[p] = Sym(Sym(sum[p], disk[strips[i].disk][p]), new[p])

\* One strip of a partial write.
LEMMA AddStripFacts ==
  ASSUME CutDone, disk = Stored, NEW lost, NEW i \in 1..Len(strips),
         NEW S, NEW sum \in Seq(S), Len(sum) = StripBytes,
         NEW new, Sends(new, i)
  PROVE  StripAdded(AddStrip(lost, sum, i), sum, i, new)
<1> DEFINE a == Start(i)
           n == Size(i)
           d == strips[i].disk
           v == strips[i].iovs
           old == OldIo(lost, i)
           x == XorAt(sum, a, n, <<old>>)
           F == [j \in 1..n |-> mem[Bytes(v)[j]]]
           y == XorAt(x, a, n, Pieces(mem, v))
<1>1. /\ a \in Nat /\ n \in Nat /\ a + n <= StripBytes /\ StripBytes \in Nat
      /\ v \in Seq(Iov) /\ Len(Bytes(v)) = n
  BY StripBytesFacts
<1>2. IsOld(old, i)  BY OldIoFacts
<1>3. PICK T : old \in Seq(T)  BY <1>2 DEF IsOld
<1>4. Len(old) = n /\ \A j \in 1..n : old[j] = disk[d][a + j]
  BY <1>2 DEF IsOld
<1>5. AddStrip(lost, sum, i) = y  BY DEF AddStrip
<1> HIDE DEF a, n, d, old, x, y
<1>6. Adds(<<old>>, old, n)  BY ONLY <1>1, <1>3, <1>4, OneAdds
<1>7. Adds(Pieces(mem, v), F, n)
  <2>1. \A k \in 1..Len(Bytes(v)) : F[k] = mem[Bytes(v)[k]]  BY <1>1
  <2> HIDE DEF F
  <2>2. Adds(Pieces(mem, v), F, Len(Bytes(v)))
    BY ONLY <1>1, <2>1, ViewAdds
  <2> QED  BY <1>1, <2>2
<1>8. \A j \in 1..n : F[j] = mem[Bytes(v)[j]]  OBVIOUS
<1> HIDE DEF F, v
<1> DEFINE z == <<old>>
           w == Pieces(mem, v)
<1> HIDE DEF z, w
<1>9. Summed(x, sum, a, n, old)
  <2>1. Adds(z, old, n) /\ a + n <= Len(sum)  BY <1>1, <1>6 DEF z
  <2>2. Summed(XorAt(sum, a, n, z), sum, a, n, old)
    BY ONLY <1>1, <2>1, sum \in Seq(S), XorAtFacts
  <2> QED  BY <2>2 DEF x, z
<1>10. PICK U : x \in Seq(U)  BY <1>9 DEF Summed
<1>11. Len(x) = StripBytes  BY <1>9 DEF Summed
<1>12. Summed(y, x, a, n, F)
  <2>1. Adds(w, F, n) /\ a + n <= Len(x)  BY <1>1, <1>7, <1>11 DEF w
  <2>2. Summed(XorAt(x, a, n, w), x, a, n, F)
    BY ONLY <1>1, <1>10, <2>1, XorAtFacts
  <2> QED  BY <2>2 DEF y, w
<1>13. ASSUME NEW p \in 1..StripBytes
       PROVE  y[p] = Sym(Sym(sum[p], disk[d][p]), new[p])
  <2>1. x[p] = IF p - a \in 1..n THEN Sym(sum[p], old[p - a]) ELSE sum[p]
    BY <1>9 DEF Summed
  <2>2. y[p] = IF p - a \in 1..n THEN Sym(x[p], F[p - a]) ELSE x[p]
    BY <1>11, <1>12 DEF Summed
  <2>3. new[p] = IF p - a \in 1..n THEN mem[Bytes(v)[p - a]] ELSE disk[d][p]
    BY DEF Sends, a, n, v, d
  <2>4. CASE p - a \in 1..n
    <3>1. a + (p - a) = p  BY <1>1
    <3>2. old[p - a] = disk[d][p]  BY <1>4, <2>4, <3>1
    <3>3. F[p - a] = new[p]  BY <1>8, <2>3, <2>4
    <3> QED  BY <2>1, <2>2, <2>4, <3>2, <3>3
  <2>5. CASE p - a \notin 1..n
    <3>1. \A A, B : Sym(Sym(A, B), B) = A  BY DEF Sym
    <3> QED  BY <2>1, <2>2, <2>3, <2>5, <3>1
  <2> QED  BY <2>4, <2>5
<1>14. (\E V : y \in Seq(V)) /\ Len(y) = StripBytes
  BY <1>11, <1>12 DEF Summed
<1> QED  BY <1>5, <1>13, <1>14 DEF d, StripAdded

\* The parity of a partial write is that of the data afterwards.
LEMMA NewParityFacts ==
  ASSUME CutDone, disk = Stored, NEW lost, NEW new, AllSent(new)
  PROVE  /\ Len(NewParity(lost)) = StripBytes /\ \E U : NewParity(lost) \in Seq(U)
         /\ \A p \in 1..StripBytes :
              NewParity(lost)[p] = Xor([d \in DataDisks |-> new[d][p]], DataDisks)
<1> DEFINE n == Len(strips)
           Sent(q) == {strips[r].disk : r \in 1..q}
           Line(q, p) == [d \in DataDisks |->
                            IF d \in Sent(q) THEN new[d][p] ELSE disk[d][p]]
<1>1. n \in Nat  BY CutSums
<1>2. PICK acc : /\ acc[0] = OldParitySum(lost)
                 /\ \A i \in 1..n : acc[i] = AddStrip(lost, acc[i - 1], i)
                 /\ NewParity(lost) = acc[n]
  BY <1>1, NewParityLoop
<1>4. Parity \in Disks /\ StripBytes \in Nat /\ IsFiniteSet(DataDisks)
  BY ParityIsDisk, DisksFinite, SplitSizes DEF StripBytes
<1> DEFINE At(q) == /\ \E U : acc[q] \in Seq(U)
                    /\ Len(acc[q]) = StripBytes
                    /\ \A p \in 1..StripBytes : acc[q][p] = Xor(Line(q, p), DataDisks)
           D == {q \in Nat : q <= n => At(q)}
<1>5. 0 \in D
  <2> DEFINE zero == DmaNewZeroed(StripBytes)
             old == OldIo(lost, n + 1)
  <2>1. PICK T : old \in Seq(T) /\ Len(old) = StripBytes
    BY OldIoFacts
  <2>0. \A p \in 1..StripBytes : old[p] = Stored[Parity][p]
    BY OldIoFacts
  <2>2. zero \in [1..StripBytes -> {{}}] /\ \A p \in 1..StripBytes : zero[p] = {}
    BY DEF DmaNewZeroed
  <2> HIDE DEF zero, old
  <2>3. Adds(<<old>>, old, StripBytes)  BY ONLY <1>4, <2>1, OneAdds
  <2>4. XorInto(zero, <<old>>) = [p \in 1..StripBytes |-> Sym(zero[p], old[p])]
    BY <2>2, <2>3 DEF Adds
  <2>5. \A p \in 1..StripBytes : Sym(zero[p], old[p]) = old[p]
    BY <2>2 DEF Sym
  <2>6. acc[0] = [p \in 1..StripBytes |-> old[p]]
    BY <1>2, <2>4, <2>5 DEF zero, old, OldParitySum
  <2> DEFINE R == {old[p] : p \in 1..StripBytes}
  <2>7. acc[0] \in Seq(R) /\ Len(acc[0]) = StripBytes
    <3>1. acc[0] \in [1..StripBytes -> R]  BY <2>6
    <3> HIDE DEF R
    <3> QED  BY ONLY <1>4, <3>1
  <2>8. ASSUME NEW p \in 1..StripBytes
        PROVE  acc[0][p] = Xor(Line(0, p), DataDisks)
    <3> DEFINE f == [d \in Disks |-> disk[d][p]]
               g == Line(0, p)
    <3>1. acc[0][p] = Xor(f, DataDisks)
      <4>1. Stored[Parity][p] = Xor([d \in Disks |-> Stored[d][p]], Disks \ {Parity})
        BY <1>4, StoredFacts
      <4> QED  BY <2>0, <2>6, <4>1 DEF DataDisks
    <3>2. \A d \in DataDisks : f[d] = g[d]  BY DEF DataDisks
    <3> HIDE DEF f, g
    <3>3. Xor(f, DataDisks) = Xor(g, DataDisks)  BY <3>2, XorSame
    <3> QED  BY <3>1, <3>3 DEF g
  <2> HIDE DEF Line
  <2> QED  BY <2>7, <2>8
<1>6. ASSUME NEW q \in Nat, q \in D PROVE q + 1 \in D
  <2> SUFFICES ASSUME q + 1 <= n PROVE At(q + 1)
    OBVIOUS
  <2> DEFINE u == q + 1
             d == strips[u].disk
  <2>1. /\ u \in 1..n /\ u - 1 = q /\ 1..u = 1..q \cup {u}
        /\ u \notin 1..q /\ 1..q \subseteq 1..n
    BY <1>1
  <2>2. At(q)  BY <1>1, <1>6
  <2> HIDE DEF u
  <2>3. d \in DataDisks  BY <2>1, CutFacts
  <2>4. Sends(new[d], u)  BY <2>1, <2>3 DEF AllSent
  <2>5. Sent(u) = Sent(q) \cup {d}  BY <2>1
  <2>6. d \notin Sent(q)
    <3>1. ASSUME NEW r \in 1..q PROVE strips[r].disk # d
      <4>1. r \in 1..n /\ r # u  BY <2>1
      <4> QED  BY <2>1, <4>1, OwnDisks
    <3> QED  BY <3>1
  <2>7. acc[u] = AddStrip(lost, acc[q], u)  BY <1>2, <2>1
  <2> HIDE DEF d
  <2> DEFINE old == acc[q]
             b == new[d]
  <2>8. PICK U : old \in Seq(U)  BY <2>2
  <2>9. Len(old) = StripBytes  BY <2>2
  <2> HIDE DEF old, b
  <2>10. StripAdded(AddStrip(lost, old, u), old, u, b)
    BY <2>1, <2>4, <2>8, <2>9, AddStripFacts DEF b
  <2>11. ASSUME NEW p \in 1..StripBytes
         PROVE  acc[u][p] = Xor(Line(u, p), DataDisks)
    <3> DEFINE f == Line(q, p)
               g == Line(u, p)
    <3>1. \A e \in DataDisks \ {d} : f[e] = g[e]  BY <2>5
    <3>2. f[d] = disk[d][p] /\ g[d] = b[p]
      BY <2>3, <2>5, <2>6 DEF b
    <3>3. old[p] = Xor(f, DataDisks)  BY <2>2 DEF old
    <3> HIDE DEF f, g
    <3>4. Xor(g, DataDisks) = Sym(Sym(Xor(f, DataDisks), f[d]), g[d])
      BY <1>4, <2>3, <3>1, XorChange
    <3>5. acc[u][p] = Sym(Sym(old[p], disk[d][p]), b[p])
      BY <2>7, <2>10 DEF StripAdded, old, d
    <3> QED  BY <3>2, <3>3, <3>4, <3>5 DEF g
  <2> HIDE DEF Line
  <2> QED  BY <2>7, <2>10, <2>11 DEF StripAdded, u, old
<1>7. At(n)
  <2>1. n \in D
    <3> HIDE DEF D
    <3> QED  BY <1>1, <1>5, <1>6, SetInduction
  <2> HIDE DEF At
  <2> QED  BY <1>1, <2>1
<1>8. ASSUME NEW p \in 1..StripBytes
      PROVE  NewParity(lost)[p] = Xor([d \in DataDisks |-> new[d][p]], DataDisks)
  <2> DEFINE f == Line(n, p)
             g == [d \in DataDisks |-> new[d][p]]
  <2>1. ASSUME NEW d \in DataDisks PROVE f[d] = g[d]
    <3>1. CASE d \in Sent(n)  BY <3>1
    <3>2. CASE d \notin Sent(n)
      <4>1. \A i \in 1..n : strips[i].disk # d  BY <3>2
      <4>2. new[d][p] = disk[d][p]  BY <4>1 DEF AllSent
      <4> QED  BY <3>2, <4>2
    <3> QED  BY <3>1, <3>2
  <2>2. NewParity(lost)[p] = Xor(f, DataDisks)  BY <1>2, <1>7
  <2> HIDE DEF f, g
  <2>3. Xor(f, DataDisks) = Xor(g, DataDisks)  BY <2>1, XorSame
  <2> QED  BY <2>2, <2>3 DEF g
<1> QED
  <2> HIDE DEF Line
  <2> QED  BY <1>2, <1>7, <1>8

\* The whole of a stripe.
Full == CutDone /\ StripeOffset(first) = 0 /\ len = StripeBlocks

\* A full stripe is cut into its strips, in order.
LEMMA FullCut ==
  ASSUME Full
  PROVE  /\ Len(strips) = NDisks - 1
         /\ \A i \in 1..Len(strips) :
              /\ Start(i) = 0 /\ Size(i) = StripBytes
              /\ strips[i].disk = DataDisk(i - 1, Parity)
<1> DEFINE n == Len(strips)
           S == StripBlocks
<1>1. PICK f : /\ n \in Nat /\ DOMAIN strips = 1..n
               /\ \A i \in 1..n : f[i] = strips[i].blocks /\ f[i] \in Nat
               /\ \A i \in 1..n : BeforeOf(strips, i) = SumTo(f, i - 1)
               /\ SumTo(f, n) = len
  BY CutSums DEF Full
<1>2. CutDone /\ StripeOffset(first) = 0 /\ len = (NDisks - 1) * S
  BY DEF Full, StripeBlocks
<1>3. S \in Nat \ {0} /\ NDisks - 1 \in Nat /\ BlockLen \in Nat
  BY SplitSizes
<1>4. ASSUME NEW i \in 1..n
      PROVE  SumTo(f, i - 1) \in Nat /\ SumTo(f, i - 1) % S = 0
             /\ f[i] \in 1..S
  <2>1. /\ BeforeOf(strips, i) \in Nat /\ strips[i].blocks \in 1..StripBlocks
        /\ (i # 1 => Head0(i) = 0)
    BY <1>2, CutFacts
  <2>2. BeforeOf(strips, i) = SumTo(f, i - 1) /\ f[i] = strips[i].blocks
    BY <1>1
  <2>3. CASE i = 1
    <3>1. i - 1 = 0 /\ SumTo(f, 0) = 0  BY <2>3, SumFacts
    <3>2. 0 % S = 0  BY <1>3
    <3> QED  BY <2>1, <2>2, <3>1, <3>2
  <2>4. CASE i # 1
    <3> DEFINE k == SumTo(f, i - 1)
    <3>1. Head0(i) = (0 + k) % S /\ k \in Nat  BY <1>2, <2>1, <2>2 DEF Head0
    <3> HIDE DEF k
    <3>2. k % S = 0  BY <2>1, <2>4, <3>1
    <3> QED  BY <2>1, <2>2, <3>1, <3>2 DEF k
  <2> QED  BY <2>3, <2>4
<1>5. ASSUME NEW i \in 1..n PROVE SumTo(f, i) % S = 0
  <2>1. CASE i = n
    <3> DEFINE m == NDisks - 1
    <3>1. m \in Nat /\ 0 \in 0..(S - 1)  BY <1>3
    <3> HIDE DEF m
    <3>2. (m * S + 0) % S = 0  BY ONLY <1>3, <3>1, DivModUnique
    <3>3. m * S + 0 = m * S
      <4>1. m * S \in Nat  BY <1>3, <3>1
      <4> QED  BY <4>1
    <3> QED  BY <1>1, <1>2, <2>1, <3>2, <3>3 DEF m
  <2>2. CASE i # n
    <3> DEFINE j == i + 1
    <3>0. n \in Nat  BY <1>1
    <3> HIDE DEF n
    <3>1. j \in 1..n /\ j - 1 = i  BY ONLY <2>2, <3>0, i \in 1..n
    <3> HIDE DEF j
    <3>2. SumTo(f, j - 1) % S = 0  BY <1>4, <3>1
    <3> QED  BY <3>1, <3>2
  <2> QED  BY <2>1, <2>2
<1>6. ASSUME NEW i \in 1..n PROVE f[i] = S
  <2> DEFINE k == SumTo(f, i - 1)
             q == k \div S
  <2>1. k \in Nat /\ k % S = 0 /\ f[i] \in 1..S  BY <1>4
  <2>2. SumTo(f, i) = k + f[i]
    <3>1. i - 1 \in Nat /\ (i - 1) + 1 = i  BY <1>1
    <3> QED  BY <3>1, SumFacts
  <2> HIDE DEF k
  <2>3. q \in Nat /\ k = q * S + (k % S)  BY ONLY <1>3, <2>1, DivMod
  <2> HIDE DEF q
  <2>4. CASE f[i] # S
    <3>1. f[i] \in 0..(S - 1) /\ f[i] # 0  BY <1>3, <2>1, <2>4
    <3>2. (q * S + f[i]) % S = f[i]  BY ONLY <1>3, <2>3, <3>1, DivModUnique
    <3>3. q * S \in Nat  BY <1>3, <2>3
    <3>4. k = q * S  BY <2>1, <2>3, <3>3
    <3> QED  BY <1>5, <2>2, <3>1, <3>2, <3>4
  <2> QED  BY <2>4
<1> DEFINE D == {m \in Nat : m <= n => SumTo(f, m) = m * S}
<1>7. n \in D /\ Nat \subseteq D
  <2>1. 0 \in D  BY <1>3, SumFacts
  <2>2. ASSUME NEW m \in Nat, m \in D PROVE m + 1 \in D
    <3> SUFFICES ASSUME m + 1 <= n PROVE SumTo(f, m + 1) = (m + 1) * S
      OBVIOUS
    <3>1. m + 1 \in 1..n /\ SumTo(f, m) = m * S  BY <1>1, <2>2
    <3>2. SumTo(f, m + 1) = SumTo(f, m) + f[m + 1]  BY SumFacts
    <3>3. f[m + 1] = S  BY <1>6, <3>1
    <3>4. (m + 1) * S = m * S + S  BY <1>3
    <3> QED  BY <3>1, <3>2, <3>3, <3>4
  <2> HIDE DEF D
  <2>3. Nat \subseteq D  BY <2>1, <2>2, SetInduction
  <2> QED  BY <1>1, <2>3
<1>8. n = NDisks - 1
  <2>1. n * S = (NDisks - 1) * S  BY <1>1, <1>2, <1>7
  <2> DEFINE m == NDisks - 1
  <2>2. m \in Nat  BY <1>3
  <2> HIDE DEF m, n, S
  <2>3. (n * S + 0) \div S = n /\ (m * S + 0) \div S = m
    <3>1. 0 \in 0..(S - 1)  BY <1>3
    <3> QED  BY ONLY <1>1, <1>3, <2>2, <3>1, DivModUnique
  <2>4. n * S = m * S  BY <2>1 DEF m
  <2> QED  BY <2>3, <2>4 DEF m
<1>9. ASSUME NEW i \in 1..n
      PROVE  /\ Start(i) = 0 /\ Size(i) = StripBytes
             /\ strips[i].disk = DataDisk(i - 1, Parity)
  <2> DEFINE k == i - 1
  <2>1. k \in Nat /\ k <= n  BY <1>1
  <2>2. BeforeOf(strips, i) = k * S  BY <1>1, <1>7, <2>1
  <2>3. /\ Start(i) = Head0(i) * BlockLen
        /\ strips[i].disk = DataDisk((0 + BeforeOf(strips, i)) \div S, Parity)
    BY <1>2, CutFacts
  <2> HIDE DEF k
  <2>4. (0 + k * S) \div S = k /\ (0 + k * S) % S = 0
    <3>1. 0 \in 0..(S - 1)  BY <1>3
    <3> HIDE DEF S
    <3>2. (k * S + 0) \div S = k /\ (k * S + 0) % S = 0
      BY ONLY <1>3, <2>1, <3>1, DivModUnique
    <3>3. k * S \in Nat  BY <1>3, <2>1
    <3> DEFINE x == k * S
    <3>4. 0 + x = x + 0  BY <3>3
    <3> QED  BY <3>2, <3>4
  <2>5. Head0(i) = 0  BY <1>2, <2>2, <2>4 DEF Head0
  <2>6. Start(i) = 0  BY <1>3, <2>3, <2>5
  <2>7. Size(i) = StripBytes  BY <1>1, <1>6 DEF Size, StripBytes
  <2>8. strips[i].disk = DataDisk(k, Parity)  BY <2>2, <2>3, <2>4
  <2> QED  BY <2>6, <2>7, <2>8 DEF k
<1> QED  BY <1>8, <1>9

\* The strip that a disk but the parity's takes is its own.
LEMMA FullStrip ==
  ASSUME Full, NEW d \in DataDisks
  PROVE  /\ 1 + Cardinality({e \in DataDisks : e < d}) \in 1..Len(strips)
         /\ strips[1 + Cardinality({e \in DataDisks : e < d})].disk = d
<1> DEFINE E == {e \in DataDisks : e < d}
           c == Cardinality(E)
<1>1. NDisks \in Nat /\ Parity \in 0..(NDisks - 1) /\ d \in 0..(NDisks - 1)
      /\ d # Parity
  BY ParityIsDisk, SplitSizes DEF Full, DataDisks, Disks
<1>2. IsFiniteSet(0..(d - 1)) /\ Cardinality(0..(d - 1)) = d
  <2>1. 0 \in Int /\ d - 1 \in Int /\ d \in Nat  BY <1>1
  <2>2. IsFiniteSet(0..(d - 1)) /\ Cardinality(0..(d - 1))
          = IF 0 > d - 1 THEN 0 ELSE ((d - 1) - 0) + 1
    BY ONLY <2>1, FS_Interval
  <2> QED  BY <2>1, <2>2
<1>3. c + 1 \in 1..(NDisks - 1) /\ DataDisk(c, Parity) = d /\ c \in Nat
  <2>1. CASE d < Parity
    <3>1. E = 0..(d - 1)  BY <1>1, <2>1 DEF DataDisks, Disks
    <3>2. c = d  BY <1>2, <3>1
    <3> HIDE DEF c
    <3> QED  BY <1>1, <2>1, <3>2 DEF DataDisk
  <2>2. CASE ~(d < Parity)
    <3>1. E = (0..(d - 1)) \ {Parity} /\ Parity \in 0..(d - 1)
      BY <1>1, <2>2 DEF DataDisks, Disks
    <3> DEFINE W == 0..(d - 1)
    <3> HIDE DEF W
    <3>2. Cardinality(W \ {Parity}) = Cardinality(W) - 1
      BY <1>2, <3>1, FS_RemoveElement DEF W
    <3>3. c = d - 1  BY <1>2, <3>1, <3>2 DEF W
    <3> HIDE DEF c
    <3> QED  BY <1>1, <2>2, <3>3 DEF DataDisk
  <2> QED  BY <2>1, <2>2
<1> HIDE DEF c
<1>4. 1 + c \in 1..Len(strips) /\ (1 + c) - 1 = c  BY <1>3, FullCut
<1>5. strips[1 + c].disk = d
  <2> DEFINE i == 1 + c
  <2>1. i \in 1..Len(strips) /\ i - 1 = c  BY <1>4
  <2> HIDE DEF i
  <2>2. strips[i].disk = DataDisk(i - 1, Parity)  BY <2>1, FullCut
  <2> QED  BY <1>3, <2>1, <2>2 DEF i
<1> QED  BY <1>4, <1>5 DEF c

\* The parity of a full stripe is that of its data.
LEMMA FullParity ==
  ASSUME Full, NEW new, AllSent(new)
  PROVE  /\ Len(NewParityFull) = StripBytes
         /\ \A p \in 1..StripBytes :
              NewParityFull[p] = Xor([d \in DataDisks |-> new[d][p]], DataDisks)
<1> DEFINE m == Len(strips)
           n == StripBytes
           views == [i \in DOMAIN strips |-> Pieces(mem, strips[i].iovs)]
           g == [i \in 1..m |-> strips[i].disk]
           K == {g[q] : q \in 1..Len(views)}
<1>1. m \in Nat /\ DOMAIN strips = 1..m /\ CutDone /\ n \in Nat
  BY CutSums, SplitSizes DEF Full, StripBytes
<1>2. views = [i \in 1..m |-> Pieces(mem, strips[i].iovs)] /\ Len(views) = m
  BY <1>1
<1>3. NewParityFull = XorAll(DmaNewZeroed(n), views)  BY DEF NewParityFull
<1>4. ASSUME NEW i \in 1..m PROVE Adds(views[i], new[g[i]], n)
  <2> DEFINE v == strips[i].iovs
             F == new[strips[i].disk]
  <2>1. v \in Seq(Iov) /\ Len(Bytes(v)) = n /\ Start(i) = 0 /\ Size(i) = n
    BY <1>1, StripBytesFacts, FullCut
  <2>2. strips[i].disk \in DataDisks  BY <1>1, CutFacts
  <2>3. Sends(F, i)  BY <1>1, <2>2 DEF AllSent
  <2>4. ASSUME NEW k \in 1..n PROVE F[k] = mem[Bytes(v)[k]]
    <3>1. k - 0 \in 1..n /\ k - 0 = k  BY <1>1
    <3> HIDE DEF F
    <3>2. F[k] = IF k - Start(i) \in 1..Size(i)
                 THEN mem[Bytes(v)[k - Start(i)]] ELSE disk[strips[i].disk][k]
      BY <2>3 DEF Sends
    <3> QED  BY <2>1, <3>1, <3>2
  <2>5. views[i] = Pieces(mem, v) /\ new[g[i]] = F  BY <1>2
  <2>6. \A k \in 1..Len(Bytes(v)) : F[k] = mem[Bytes(v)[k]]  BY <2>1, <2>4
  <2> HIDE DEF v, F, views, g
  <2>7. Adds(Pieces(mem, v), F, Len(Bytes(v)))
    BY ONLY <2>1, <2>6, ViewAdds
  <2> QED  BY <2>1, <2>5, <2>7
<1>5. \A q, r \in 1..m : g[q] = g[r] => q = r
  BY <1>1, OwnDisks
<1>6. K = DataDisks
  <2>1. K \subseteq DataDisks  BY <1>1, <1>2, CutFacts
  <2>2. ASSUME NEW d \in DataDisks PROVE \E i \in 1..m : g[i] = d
    BY FullStrip
  <2> HIDE DEF views
  <2>3. DataDisks \subseteq K  BY <1>2, <2>2
  <2> QED  BY <2>1, <2>3
<1> HIDE DEF views, g, n, m
<1>7. Summands(views, new, g, n)  BY <1>1, <1>2, <1>4, <1>5 DEF Summands
<1>8. XorAll(DmaNewZeroed(n), views) = SumOf(new, {g[q] : q \in 1..Len(views)}, n)
  BY ONLY <1>1, <1>7, XorAllFacts
<1>9. NewParityFull = [p \in 1..n |-> Xor([d \in DataDisks |-> new[d][p]], DataDisks)]
  BY <1>3, <1>6, <1>8 DEF SumOf
<1> QED  BY <1>1, <1>9 DEF n

\* What a write has done: each disk has its data, and parity is their sum.
Wrote(new) ==
  /\ AllSent(new)
  /\ \A d \in Disks : Len(new[d]) = StripBytes
  /\ \A p \in 1..StripBytes :
       new[Parity][p] = Xor([d \in DataDisks |-> new[d][p]], DataDisks)

\* A full-stripe write does what a write must.
LEMMA FullWrites ==
  ASSUME CutDone, disk = Stored, WriteFull
  PROVE  Wrote(disk')
<1> DEFINE Mine(d) == 1 + Cardinality({e \in DataDisks : e < d})
           new == [d \in Disks |-> IF d = Parity THEN NewParityFull
                                   ELSE Put(disk[d], Mine(d), Gathered(Mine(d)))]
<1>1. disk' = new  BY DEF WriteFull
<1>2. Full  BY DEF WriteFull, Full
<1>3. DiskShape  BY StoredFacts DEF DiskShape
<1>4. Parity \in Disks  BY ParityIsDisk
<1>5. ASSUME NEW d \in DataDisks
      PROVE  /\ Mine(d) \in 1..Len(strips) /\ strips[Mine(d)].disk = d
             /\ Sends(new[d], Mine(d)) /\ Len(new[d]) = StripBytes
  <2> DEFINE i == Mine(d)
  <2>1. i \in 1..Len(strips) /\ strips[i].disk = d  BY <1>2, FullStrip
  <2>2. new[d] = Put(disk[d], i, Gathered(i))  BY DEF DataDisks
  <2> HIDE DEF i, new
  <2>3. Sends(Put(disk[strips[i].disk], i, Gathered(i)), i)
        /\ Len(Put(disk[strips[i].disk], i, Gathered(i))) = StripBytes
    BY <1>3, <2>1, PutSends
  <2> QED  BY <2>1, <2>2, <2>3 DEF i
<1>6. new[Parity] = NewParityFull  BY <1>4
<1> HIDE DEF Mine, new
<1>7. AllSent(new)
  <2>1. ASSUME NEW d \in DataDisks, NEW i \in 1..Len(strips), strips[i].disk = d
        PROVE  Sends(new[d], i)
    <3>1. i = Mine(d)  BY <1>5, <2>1, OwnDisks
    <3> QED  BY <1>5, <3>1
  <2>2. \A d \in DataDisks : \E i \in 1..Len(strips) : strips[i].disk = d
    BY <1>5
  <2> QED  BY <2>1, <2>2 DEF AllSent
<1>8. /\ Len(NewParityFull) = StripBytes
      /\ \A p \in 1..StripBytes :
           NewParityFull[p] = Xor([d \in DataDisks |-> new[d][p]], DataDisks)
  BY <1>2, <1>7, FullParity
<1>9. \A d \in Disks : Len(new[d]) = StripBytes
  BY <1>5, <1>6, <1>8 DEF DataDisks
<1> QED  BY <1>1, <1>6, <1>7, <1>8, <1>9 DEF Wrote

\* So does a partial write.
LEMMA PartialWrites ==
  ASSUME CutDone, disk = Stored, NEW lost, WritePartial(lost)
  PROVE  Wrote(disk')
<1> DEFINE Mine(d) == CHOOSE i \in DOMAIN strips : strips[i].disk = d
           new == [d \in Disks |->
                     IF d = Parity THEN NewParity(lost)
                     ELSE IF \E i \in DOMAIN strips : strips[i].disk = d
                          THEN Put(disk[d], Mine(d), Gathered(Mine(d)))
                          ELSE disk[d]]
<1>1. disk' = new  BY DEF WritePartial
<1>2. DiskShape  BY StoredFacts DEF DiskShape
<1>3. Parity \in Disks  BY ParityIsDisk
<1>4. DOMAIN strips = 1..Len(strips)  BY CutSums
<1>5. ASSUME NEW i \in 1..Len(strips)
      PROVE  Sends(new[strips[i].disk], i) /\ Len(new[strips[i].disk]) = StripBytes
  <2> DEFINE d == strips[i].disk
  <2>1. d \in Disks /\ d # Parity  BY CutFacts DEF DataDisks
  <2>2. Mine(d) = i
    <3>1. \A r \in DOMAIN strips : strips[r].disk = d => r = i
      BY <1>4, OwnDisks
    <3>2. i \in DOMAIN strips /\ strips[i].disk = d  BY <1>4
    <3> QED  BY <3>1, <3>2
  <2>3. new[d] = Put(disk[d], i, Gathered(i))  BY <1>4, <2>1, <2>2
  <2> HIDE DEF new
  <2>4. Sends(Put(disk[strips[i].disk], i, Gathered(i)), i)
        /\ Len(Put(disk[strips[i].disk], i, Gathered(i))) = StripBytes
    BY <1>2, PutSends
  <2> QED  BY <2>3, <2>4
<1>6. ASSUME NEW d \in DataDisks, \A i \in 1..Len(strips) : strips[i].disk # d
      PROVE  new[d] = disk[d] /\ Len(disk[d]) = StripBytes
  BY <1>2, <1>4, <1>6 DEF DataDisks, DiskShape
<1>7. new[Parity] = NewParity(lost)  BY <1>3
<1> HIDE DEF new
<1>8. AllSent(new)  BY <1>5, <1>6 DEF AllSent
<1>9. /\ Len(NewParity(lost)) = StripBytes
      /\ \A p \in 1..StripBytes :
           NewParity(lost)[p] = Xor([d \in DataDisks |-> new[d][p]], DataDisks)
  BY <1>8, NewParityFacts
<1>10. \A d \in Disks : Len(new[d]) = StripBytes
  BY <1>5, <1>6, <1>7, <1>9 DEF DataDisks
<1> QED  BY <1>1, <1>7, <1>8, <1>9, <1>10 DEF Wrote

-----------------------------------------------------------------------------
(* The bytes of a request                                                  *)

\* Nothing is moved before the request is cut, and then once.
BytesInv ==
  /\ SplitInv
  /\ op \in {"none", "read", "write"}
  /\ op # "none" => remain = 0
  /\ op = "none" => disk = Stored
  /\ IsMem(mem)
  /\ \A d \in Disks : Len(disk[d]) = StripBytes
  /\ Restored /\ Written

LEMMA BytesStart == StripInit => BytesInv
<1> SUFFICES ASSUME StripInit PROVE BytesInv
  OBVIOUS
<1>1. SplitInv  BY SplitInit DEF StripInit
<1>2. op = "none" /\ disk = Stored  BY DEF StripInit
<1>3. IsMem(mem)
  <2> DEFINE F(x) == {<<"mem", x[1], x[2]>>}
  <2>1. mem = [x \in Memory(iovs) |-> F(x)]  BY DEF StripInit
  <2> HIDE DEF F
  <2> QED  BY <2>1 DEF IsMem
<1>4. \A d \in Disks : Len(disk[d]) = StripBytes  BY <1>2, StoredFacts
<1> QED  BY <1>1, <1>2, <1>3, <1>4 DEF BytesInv, Restored, Written

\* The layout of a request that does not change.
LEMMA SameRequest ==
  ASSUME first' = first, len' = len, iovs' = iovs
  PROVE  /\ Stored' = Stored /\ Parity' = Parity /\ DataDisks' = DataDisks
         /\ Memory(iovs)' = Memory(iovs) /\ StripBytes' = StripBytes
<1>1. Parity' = Parity  BY DEF Parity, Stripe
<1>2. DataDisks' = DataDisks  BY <1>1 DEF DataDisks
<1>3. Stored' = Stored  BY <1>1, <1>2 DEF Stored
<1> QED  BY <1>1, <1>2, <1>3

\* What a write promises, of any request, memory and disks.
WrittenIn(b, n, v, m, old, new, D, par) ==
  /\ \A d \in D, p \in 1..StripBytes :
       new[d][p] =
         LET mine == {k \in 1..(n * BlockLen) :
               /\ DiskOf(b + ((k - 1) \div BlockLen)) = d
               /\ OffsetIn(b + ((k - 1) \div BlockLen)) * BlockLen
                    + ((k - 1) % BlockLen) + 1 = p}
         IN IF mine = {} THEN old[d][p] ELSE UNION {m[Bytes(v)[k]] : k \in mine}
  /\ \A p \in 1..StripBytes : new[par][p] = Xor([d \in D |-> new[d][p]], D)

\* The promise of a write, before and after a step.
LEMMA WrittenIs ==
  Written <=> (op = "write" => WrittenIn(first, len, iovs, mem, Stored, disk,
                                         DataDisks, Parity))
BY DEF Written, WrittenIn, BlockOfByte, PlaceOf

LEMMA WrittenNext ==
  Written' <=> (op' = "write" => WrittenIn(first', len', iovs', mem', Stored',
                                           disk', DataDisks', Parity'))
BY DEF Written, WrittenIn, BlockOfByte, PlaceOf

\* Every step keeps the invariant: one cut more, a read, or a write.
LEMMA BytesKept == BytesInv /\ [StripNext]_allVars => BytesInv'
<1> SUFFICES ASSUME BytesInv, [StripNext]_allVars PROVE BytesInv'
  OBVIOUS
<1>1. SplitInv'  BY SplitKept, StripSteps DEF BytesInv
<1>2. CASE UNCHANGED allVars
  <2>1. first' = first /\ len' = len /\ iovs' = iovs
    BY <1>2 DEF allVars, vars
  <2>2. /\ Stored' = Stored /\ Parity' = Parity /\ DataDisks' = DataDisks
        /\ Memory(iovs)' = Memory(iovs)
    BY <2>1, SameRequest
  <2>3. /\ op' = op /\ mem' = mem /\ disk' = disk /\ remain' = remain
    BY <1>2 DEF allVars, vars
  <2>4. Restored'
    BY <2>1, <2>2, <2>3 DEF BytesInv, Restored, BlockOfByte, PlaceOf
  <2>5. Written'
    BY <2>1, <2>2, <2>3, WrittenIs, WrittenNext DEF BytesInv
  <2> QED  BY <1>1, <2>2, <2>3, <2>4, <2>5 DEF BytesInv, IsMem
<1>3. CASE NextStrip /\ UNCHANGED <<op, mem, disk>>
  <2>1. first' = first /\ len' = len /\ iovs' = iovs /\ remain # 0
    BY <1>3 DEF NextStrip
  <2>2. Stored' = Stored /\ Memory(iovs)' = Memory(iovs)
    BY <2>1, SameRequest
  <2>3. op = "none" /\ op' = op /\ mem' = mem /\ disk' = disk
    BY <1>3, <2>1 DEF BytesInv
  <2> QED  BY <1>1, <2>2, <2>3 DEF BytesInv, IsMem, Restored, Written
<1>4. ASSUME NEW lost \in 0..Len(strips), Read(lost) PROVE BytesInv'
  <2>1. UNCHANGED vars  BY <1>4, ReadCutsNothing
  <2>2. first' = first /\ len' = len /\ iovs' = iovs /\ remain' = remain
    BY <2>1 DEF vars
  <2>3. /\ remain = 0 /\ op = "none" /\ op' = "read" /\ disk' = disk
    BY <1>4 DEF Read
  <2>4. CutDone /\ disk = Stored /\ IsMem(mem)
    BY <2>3 DEF BytesInv, CutDone
  <2>5. IsMem(mem') /\ \A i \in 1..Len(strips) : Got(mem', i)
    BY <1>4, <2>4, ReadGets
  <2>6. \A k \in 1..(len * BlockLen) :
          mem'[Bytes(iovs)[k]] = Stored[DiskOf(BlockOfByte(k))][PlaceOf(k)]
    BY <2>4, <2>5, GotRestores
  <2>7. Stored' = Stored /\ Memory(iovs)' = Memory(iovs)
    BY <2>2, SameRequest
  <2>8. Restored'
    BY <2>2, <2>6, <2>7 DEF Restored, BlockOfByte, PlaceOf
  <2>9. Written'  BY <2>3 DEF Written
  <2>10. IsMem(mem)'  BY <2>5, <2>7 DEF IsMem
  <2> QED  BY <1>1, <2>2, <2>3, <2>8, <2>9, <2>10 DEF BytesInv
<1>5. ASSUME NEW lost, WriteFull \/ WritePartial(lost) PROVE BytesInv'
  <2>1. UNCHANGED vars  BY <1>5, FullCutsNothing, PartialCutsNothing
  <2>2. first' = first /\ len' = len /\ iovs' = iovs /\ remain' = remain
    BY <2>1 DEF vars
  <2>3. /\ remain = 0 /\ op = "none" /\ op' = "write" /\ mem' = mem
    BY <1>5 DEF WriteFull, WritePartial
  <2>4. CutDone /\ disk = Stored /\ IsMem(mem)
    BY <2>3 DEF BytesInv, CutDone
  <2>5. Wrote(disk')  BY <1>5, <2>4, FullWrites, PartialWrites
  <2>6. AllSent(disk')  BY <2>5 DEF Wrote
  <2>7. \A d \in DataDisks, p \in 1..StripBytes :
          disk'[d][p] =
            LET mine == {k \in 1..(len * BlockLen) :
                           DiskOf(BlockOfByte(k)) = d /\ PlaceOf(k) = p}
            IN IF mine = {} THEN Stored[d][p]
               ELSE UNION {mem[Bytes(iovs)[k]] : k \in mine}
    BY <2>4, <2>6, SentWritten
  <2>8. /\ Stored' = Stored /\ Parity' = Parity /\ DataDisks' = DataDisks
        /\ Memory(iovs)' = Memory(iovs)
    BY <2>2, SameRequest
  <2>9. \A p \in 1..StripBytes :
          disk'[Parity][p] = Xor([d \in DataDisks |-> disk'[d][p]], DataDisks)
    BY <2>5 DEF Wrote
  <2>10. Written'
    <3>1. WrittenIn(first, len, iovs, mem, Stored, disk', DataDisks, Parity)
      BY <2>7, <2>9 DEF WrittenIn, BlockOfByte, PlaceOf
    <3> QED  BY <2>2, <2>3, <2>8, <3>1, WrittenNext
  <2>11. Restored'  BY <2>3 DEF Restored
  <2>12. IsMem(mem)'  BY <2>3, <2>4, <2>8 DEF IsMem
  <2>13. \A d \in Disks : Len(disk'[d]) = StripBytes  BY <2>5 DEF Wrote
  <2> QED  BY <1>1, <2>2, <2>3, <2>10, <2>11, <2>12, <2>13 DEF BytesInv
<1> QED  BY <1>2, <1>3, <1>4, <1>5 DEF StripNext

\* The invariant gives the types.
LEMMA BytesTypes == BytesInv => StripTypeOK
<1> SUFFICES ASSUME BytesInv PROVE StripTypeOK
  OBVIOUS
<1>1. SizesMatch
  <2> SUFFICES ASSUME remain = 0, NEW i \in DOMAIN strips
               PROVE  /\ Len(Gathered(i)) = Size(i)
                      /\ Start(i) + Size(i) <= StripBytes
                      /\ StripeOffset(first) = 0 /\ len = StripeBlocks =>
                           Size(i) = StripBytes
    BY DEF SizesMatch
  <2>1. CutDone  BY DEF BytesInv, CutDone
  <2>2. i \in 1..Len(strips)  BY <2>1, CutSums
  <2>3. Len(Gathered(i)) = Size(i) /\ Start(i) + Size(i) <= StripBytes
    BY <2>1, <2>2, GatheredFacts, StripBytesFacts
  <2>4. ASSUME StripeOffset(first) = 0, len = StripeBlocks
        PROVE  Size(i) = StripBytes
    BY <2>1, <2>2, <2>4, FullCut DEF Full
  <2> QED  BY <2>3, <2>4
<1> QED  BY <1>1, SplitTypes DEF BytesInv, StripTypeOK, IsMem

(* For every layout, block size, request and scatter-gather list: what is  *)
(* handed to xor and to copy_from_slice has the size they assert, and the  *)
(* sums and copies keep the size of every buffer, strip and memory they go *)
(* to (raid5.rs:749-758, lib.rs:469-489).                                  *)
THEOREM StripTypeCorrect == StripSpec => []StripTypeOK
<1> QED  BY BytesStart, BytesKept, BytesTypes, PTL DEF StripSpec

(* A read leaves in every byte of the request, however its buffers are     *)
(* cut, the byte of its own block; what a lost disk held is recovered from *)
(* the others, and no strip reaches into the memory of another             *)
(* (lib.rs:469-489, raid5.rs:284-312).                                     *)
THEOREM ReadsRestore == StripSpec => []Restored
<1>1. BytesInv => Restored  BY DEF BytesInv
<1> QED  BY <1>1, BytesStart, BytesKept, PTL DEF StripSpec

(* A write, of a full stripe or of a part of one, leaves every byte of the *)
(* request on its own disk and row, changes no other byte of data, and the *)
(* parity of every byte is the sum of the data there, also when old data   *)
(* or the old parity is lost and recovered (raid5.rs:432-558, 624-676).    *)
THEOREM WritesKeepParity == StripSpec => []Written
<1>1. BytesInv => Written  BY DEF BytesInv
<1> QED  BY <1>1, BytesStart, BytesKept, PTL DEF StripSpec

=============================================================================
