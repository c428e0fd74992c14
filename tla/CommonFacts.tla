---------------------------- MODULE CommonFacts -----------------------------
(***************************************************************************)
(* What Append, Tail and a push to the front do to the elements of a       *)
(* sequence, and to their being distinct; how a sequence is regrouped.     *)
(* Induction over the natural numbers, stated about sets of numbers: the   *)
(* library's induction theorems take an operator as parameter, and its     *)
(* theorem on minimal elements (WFMin) does not.                           *)
(* Quotients and remainders. The exclusive or of blocks.                   *)
(***************************************************************************)
EXTENDS BlockXor, SequenceTheorems, FiniteSetTheorems, WellFoundedInduction,
        TLAPS

\* A push to the back adds one element.
LEMMA AppendFacts ==
  ASSUME NEW S, NEW s \in Seq(S), NEW x \in S
  PROVE  /\ Append(s, x) \in Seq(S)
         /\ Range(Append(s, x)) = Range(s) \cup {x}
         /\ IsInjective(s) /\ x \notin Range(s) => IsInjective(Append(s, x))
<1> DEFINE t == Append(s, x)
<1>1. /\ t \in Seq(S) /\ Len(t) = Len(s) + 1 /\ Len(s) \in Nat
      /\ DOMAIN t = 1..(Len(s) + 1) /\ DOMAIN s = 1..Len(s)
      /\ t[Len(s) + 1] = x
      /\ \A i \in 1..Len(s) : t[i] = s[i]
  OBVIOUS
<1> HIDE DEF t
<1>2. ASSUME NEW y \in Range(t) PROVE y \in Range(s) \cup {x}
  <2>1. PICK i \in 1..(Len(s) + 1) : y = t[i]  BY <1>1 DEF Range
  <2>2. CASE i = Len(s) + 1  BY <2>1, <2>2, <1>1
  <2>3. CASE i \in 1..Len(s)  BY <2>1, <2>3, <1>1 DEF Range
  <2> QED  BY <2>2, <2>3, <1>1
<1>3. ASSUME NEW y \in Range(s) PROVE y \in Range(t)
  <2>1. PICK i \in 1..Len(s) : y = s[i]  BY <1>1 DEF Range
  <2>2. i \in DOMAIN t /\ t[i] = y  BY <2>1, <1>1
  <2> QED  BY <2>2 DEF Range
<1>4. x \in Range(t)
  <2>1. Len(s) + 1 \in DOMAIN t  BY <1>1
  <2> QED  BY <2>1, <1>1 DEF Range
<1>5. ASSUME IsInjective(s), x \notin Range(s),
             NEW i \in DOMAIN t, NEW j \in DOMAIN t, t[i] = t[j]
      PROVE  i = j
  <2>1. \A k \in 1..Len(s) : s[k] # x  BY <1>5, <1>1 DEF Range
  <2>2. CASE i \in 1..Len(s) /\ j \in 1..Len(s)
    BY <2>2, <1>5, <1>1 DEF IsInjective
  <2>3. CASE i = Len(s) + 1 /\ j \in 1..Len(s)  BY <2>3, <2>1, <1>5, <1>1
  <2>4. CASE i \in 1..Len(s) /\ j = Len(s) + 1  BY <2>4, <2>1, <1>5, <1>1
  <2>5. CASE i = Len(s) + 1 /\ j = Len(s) + 1  BY <2>5
  <2> QED  BY <2>2, <2>3, <2>4, <2>5, <1>1
<1>6. IsInjective(s) /\ x \notin Range(s) => IsInjective(t)
  BY <1>5 DEF IsInjective
<1>7. Range(t) = Range(s) \cup {x}  BY <1>2, <1>3, <1>4
<1> QED  BY <1>1, <1>6, <1>7 DEF t

\* A pop from the front takes one element away.
LEMMA TailFacts ==
  ASSUME NEW S, NEW s \in Seq(S), s # <<>>
  PROVE  /\ Head(s) \in S /\ Tail(s) \in Seq(S)
         /\ Range(s) = {Head(s)} \cup Range(Tail(s))
         /\ IsInjective(s) => IsInjective(Tail(s)) /\ Head(s) \notin Range(Tail(s))
<1> DEFINE t == Tail(s)
           h == Head(s)
<1>1. /\ t \in Seq(S) /\ Len(t) = Len(s) - 1 /\ Len(s) \in Nat \ {0}
      /\ DOMAIN t = 1..(Len(s) - 1) /\ DOMAIN s = 1..Len(s)
      /\ h = s[1] /\ h \in S
      /\ \A i \in 1..(Len(s) - 1) : t[i] = s[i + 1]
  BY HeadTailProperties, EmptySeq, LenProperties
<1> HIDE DEF t, h
<1>2. ASSUME NEW y \in Range(s) PROVE y \in {h} \cup Range(t)
  <2>1. PICK i \in 1..Len(s) : y = s[i]  BY <1>1 DEF Range
  <2>2. CASE i = 1  BY <2>1, <2>2, <1>1
  <2>3. CASE i # 1
    <3>1. i - 1 \in DOMAIN t /\ t[i - 1] = y  BY <2>1, <2>3, <1>1
    <3> QED  BY <3>1 DEF Range
  <2> QED  BY <2>2, <2>3
<1>3. ASSUME NEW y \in Range(t) PROVE y \in Range(s)
  <2>1. PICK i \in 1..(Len(s) - 1) : y = t[i]  BY <1>1 DEF Range
  <2>2. i + 1 \in DOMAIN s /\ s[i + 1] = y  BY <2>1, <1>1
  <2> QED  BY <2>2 DEF Range
<1>4. h \in Range(s)
  <2>1. 1 \in DOMAIN s  BY <1>1
  <2> QED  BY <2>1, <1>1 DEF Range
<1>5. ASSUME IsInjective(s) PROVE IsInjective(t) /\ h \notin Range(t)
  <2>1. ASSUME NEW i \in DOMAIN t, NEW j \in DOMAIN t, t[i] = t[j]
        PROVE  i = j
    <3>1. i + 1 \in DOMAIN s /\ j + 1 \in DOMAIN s /\ s[i + 1] = s[j + 1]
      BY <2>1, <1>1
    <3>2. i + 1 = j + 1  BY <3>1, <1>5 DEF IsInjective
    <3> QED  BY <3>2, <1>1
  <2>2. ASSUME NEW i \in DOMAIN t, t[i] = h PROVE FALSE
    <3>1. i + 1 \in DOMAIN s /\ 1 \in DOMAIN s /\ s[i + 1] = s[1]
      BY <2>2, <1>1
    <3>2. i + 1 = 1  BY <3>1, <1>5 DEF IsInjective
    <3> QED  BY <3>2, <1>1
  <2> QED  BY <2>1, <2>2 DEF IsInjective, Range
<1>6. Range(s) = {h} \cup Range(t)  BY <1>2, <1>3, <1>4
<1> QED  BY <1>1, <1>5, <1>6 DEF t, h

\* A push to the front adds one element, which a pop takes away.
LEMMA PushFacts ==
  ASSUME NEW S, NEW s \in Seq(S), NEW x \in S
  PROVE  /\ <<x>> \o s \in Seq(S)
         /\ <<x>> \o s # <<>>
         /\ Head(<<x>> \o s) = x
         /\ Tail(<<x>> \o s) = s
         /\ Range(<<x>> \o s) = {x} \cup Range(s)
         /\ IsInjective(s) /\ x \notin Range(s) => IsInjective(<<x>> \o s)
<1> DEFINE t == <<x>> \o s
<1>1. /\ t \in Seq(S) /\ t # <<>> /\ Head(t) = x /\ Len(t) = Len(s) + 1
      /\ Len(s) \in Nat
      /\ DOMAIN t = 1..(Len(s) + 1) /\ DOMAIN s = 1..Len(s)
      /\ t[1] = x
      /\ \A i \in 1..Len(s) : t[i + 1] = s[i]
  OBVIOUS
<1>2. Tail(t) = s
  <2>1. /\ Tail(t) \in Seq(S) /\ Len(Tail(t)) = Len(s)
        /\ \A i \in 1..Len(s) : Tail(t)[i] = s[i]
    BY <1>1, HeadTailProperties
  <2> QED  BY <2>1, SeqEqual
<1> HIDE DEF t
<1>3. Range(t) = {x} \cup Range(s)  BY <1>1, <1>2, TailFacts
<1>4. ASSUME IsInjective(s), x \notin Range(s),
             NEW i \in DOMAIN t, NEW j \in DOMAIN t, t[i] = t[j]
      PROVE  i = j
  <2>1. \A k \in 1..Len(s) : s[k] # x  BY <1>4, <1>1 DEF Range
  <2>2. \A k \in DOMAIN t : k # 1 => k - 1 \in 1..Len(s) /\ t[k] = s[k - 1]
    <3>1. TAKE k \in DOMAIN t
    <3>2. HAVE k # 1
    <3>3. k - 1 \in 1..Len(s) /\ k = (k - 1) + 1  BY <3>2, <1>1
    <3> QED  BY <3>3, <1>1
  <2>3. CASE i = 1 \/ j = 1  BY <2>1, <2>2, <2>3, <1>4, <1>1
  <2>4. CASE i # 1 /\ j # 1
    <3>1. s[i - 1] = s[j - 1] /\ i - 1 \in DOMAIN s /\ j - 1 \in DOMAIN s
      BY <2>2, <2>4, <1>4, <1>1
    <3>2. i - 1 = j - 1  BY <3>1, <1>4 DEF IsInjective
    <3> QED  BY <3>2, <1>1
  <2> QED  BY <2>3, <2>4
<1>5. IsInjective(s) /\ x \notin Range(s) => IsInjective(t)
  BY <1>4 DEF IsInjective
<1> QED  BY <1>1, <1>2, <1>3, <1>5 DEF t

\* The empty sequence has no elements.
LEMMA EmptyFacts == Range(<<>>) = {} /\ IsInjective(<<>>)
BY DEF Range, IsInjective

\* Pushes to the two ends commute.
LEMMA PushAppend ==
  ASSUME NEW S, NEW s \in Seq(S), NEW h \in S, NEW x \in S
  PROVE  Append(<<h>> \o s, x) = <<h>> \o Append(s, x)
OBVIOUS

\* Pushing back what was popped.
LEMMA HeadBack ==
  ASSUME NEW S, NEW s \in Seq(S), s # <<>>
  PROVE  <<Head(s)>> \o Tail(s) = s
<1>1. /\ Tail(s) \in Seq(S) /\ Head(s) \in S
      /\ Len(Tail(s)) = Len(s) - 1 /\ Len(s) \in Nat \ {0}
      /\ Head(s) = s[1] /\ \A i \in 1..(Len(s) - 1) : Tail(s)[i] = s[i + 1]
  OBVIOUS
<1> QED  BY <1>1

\* An append to the last of two adjoining sequences.
LEMMA ConcatAppend ==
  ASSUME NEW S, NEW u \in Seq(S), NEW v \in Seq(S), NEW x \in S
  PROVE  u \o Append(v, x) = Append(u \o v, x)
<1>1. <<x>> \in Seq(S) /\ u \o v \in Seq(S)  BY ConcatProperties
<1>2. u \o (v \o <<x>>) = (u \o v) \o <<x>>  BY <1>1, ConcatAssociative
<1> QED  BY <1>1, <1>2, AppendIsConcat

-----------------------------------------------------------------------------
(* Natural numbers                                                         *)

\* A nonempty set of natural numbers has a least element.
LEMMA LeastElement ==
  ASSUME NEW S, S \subseteq Nat, S # {}
  PROVE  \E n \in S : \A m \in S : ~(m < n)
<1> DEFINE R == OpToRel(<, Nat)
<1>1. IsWellFoundedOn(R, Nat)  BY NatLessThanWellFounded
<1>2. \A x, y \in Nat : x < y => <<x, y>> \in R
  BY DEF OpToRel
<1> HIDE DEF R
<1>3. \E x \in S : \A y \in S : ~ (<<y, x>> \in R)
  BY <1>1, WFMin
<1> QED  BY <1>2, <1>3

\* A set with 0 and the successors of its elements has all of Nat.
LEMMA SetInduction ==
  ASSUME NEW S, 0 \in S, \A n \in Nat : n \in S => n + 1 \in S
  PROVE  Nat \subseteq S
<1> SUFFICES ASSUME NEW k \in Nat, k \notin S PROVE FALSE
  OBVIOUS
<1> DEFINE T == Nat \ S
<1>1. PICK n \in T : \A m \in T : ~(m < n)
  BY LeastElement
<1>2. n # 0 /\ n \in Nat OBVIOUS
<1>3. n - 1 \in Nat /\ n - 1 < n /\ n - 1 + 1 = n BY <1>2
<1>4. n - 1 \in S BY <1>1, <1>3
<1> QED BY <1>3, <1>4

\* Quotient and remainder.
LEMMA DivMod ==
  ASSUME NEW a \in Nat, NEW n \in Nat \ {0}
  PROVE  /\ a \div n \in Nat /\ a % n \in 0..(n - 1)
         /\ a = (a \div n) * n + (a % n)
<1>1. a % n \in 0..(n - 1)
  OBVIOUS
<1>2. a \div n \in Int
  OBVIOUS
<1>3. a = (a \div n) * n + (a % n)
  OBVIOUS
<1>4. a \div n >= 0
  OBVIOUS
<1> QED  BY <1>1, <1>2, <1>3, <1>4

\* They are determined by the number.
LEMMA DivModUnique ==
  ASSUME NEW n \in Nat \ {0}, NEW q \in Nat, NEW m \in 0..(n - 1)
  PROVE  (q * n + m) \div n = q /\ (q * n + m) % n = m
  OBVIOUS

\* Which of k parts of size n a number is in.
LEMMA DivBelow ==
  ASSUME NEW k \in Nat, NEW n \in Nat \ {0}, NEW a \in 0..(k * n - 1)
  PROVE  a \div n \in 0..(k - 1)
  OBVIOUS

\* A place in one of k parts of size n.
LEMMA PlaceBelow ==
  ASSUME NEW k \in Nat, NEW n \in Nat \ {0},
         NEW q \in 0..(k - 1), NEW m \in 0..(n - 1)
  PROVE  q * n + m \in 0..(k * n - 1)
  OBVIOUS

-----------------------------------------------------------------------------
(* The XOR of blocks.                                                      *)

LEMMA SymFacts ==
  ASSUME NEW A, NEW B, NEW C
  PROVE  /\ Sym(A, B) = Sym(B, A) /\ Sym(A, A) = {}
         /\ Sym(A, {}) = A /\ Sym({}, A) = A
         /\ Sym(A, B) = {} => A = B
         /\ Sym(Sym(A, B), Sym(A, C)) = Sym(B, C)
BY DEF Sym

LEMMA XorMember ==
  ASSUME NEW S, IsFiniteSet(S), NEW f, NEW v
  PROVE  v \in Xor(f, S) <=> Cardinality({d \in S : v \in f[d]}) % 2 = 1
<1> DEFINE T == {d \in S : v \in f[d]}
<1>1. ASSUME Cardinality(T) % 2 = 1 PROVE \E d \in S : v \in f[d]
  <2>1. Cardinality({}) = 0 /\ ~(0 % 2 = 1)  BY FS_EmptySet
  <2>2. T # {}
    <3> HIDE DEF T
    <3> QED  BY <1>1, <2>1
  <2> QED  BY <2>2
<1> QED  BY <1>1 DEF Xor

LEMMA XorUnion ==
  ASSUME NEW S, NEW T, IsFiniteSet(S), IsFiniteSet(T), S \cap T = {}, NEW f
  PROVE  Xor(f, S \cup T) = Sym(Xor(f, S), Xor(f, T))
<1>1. IsFiniteSet(S \cup T)  BY FS_Union
<1>2. ASSUME NEW v
      PROVE  v \in Xor(f, S \cup T) <=> v \in Sym(Xor(f, S), Xor(f, T))
  <2> DEFINE A == {d \in S : v \in f[d]}
             B == {d \in T : v \in f[d]}
             C == {d \in S \cup T : v \in f[d]}
  <2>1. IsFiniteSet(A) /\ IsFiniteSet(B)  BY FS_Subset
  <2>2. C = A \cup B /\ A \cap B = {}  OBVIOUS
  <2>3. /\ Cardinality(A) \in Nat /\ Cardinality(B) \in Nat
        /\ Cardinality(C) = Cardinality(A) + Cardinality(B)
    <3>1. Cardinality(A \cap B) = 0  BY <2>2, FS_EmptySet
    <3>2. Cardinality(A) \in Nat /\ Cardinality(B) \in Nat
      BY <2>1, FS_CardinalityType
    <3>3. Cardinality(A \cup B)
            = Cardinality(A) + Cardinality(B) - Cardinality(A \cap B)
      BY <2>1, FS_Union
    <3> HIDE DEF A, B, C
    <3> QED  BY <3>1, <3>2, <3>3, <2>2
  <2>4. \A m, n \in Nat : (m + n) % 2 = 1
                            <=> ((m % 2 = 1) /\ ~(n % 2 = 1))
                                  \/ ((n % 2 = 1) /\ ~(m % 2 = 1))
    OBVIOUS
  <2>5. /\ v \in Xor(f, S) <=> Cardinality(A) % 2 = 1
        /\ v \in Xor(f, T) <=> Cardinality(B) % 2 = 1
        /\ v \in Xor(f, S \cup T) <=> Cardinality(C) % 2 = 1
    BY <1>1, XorMember
  <2> HIDE DEF A, B, C
  <2>6. Cardinality(C) % 2 = 1
          <=> ((Cardinality(A) % 2 = 1) /\ ~(Cardinality(B) % 2 = 1))
                \/ ((Cardinality(B) % 2 = 1) /\ ~(Cardinality(A) % 2 = 1))
    BY <2>3, <2>4
  <2> QED  BY <2>5, <2>6 DEF Sym
<1> QED  BY <1>2

LEMMA XorSame ==
  ASSUME NEW S, NEW f, NEW g, \A d \in S : f[d] = g[d]
  PROVE  Xor(f, S) = Xor(g, S)
<1>1. \A v : {d \in S : v \in f[d]} = {d \in S : v \in g[d]}  OBVIOUS
<1>2. UNION {f[d] : d \in S} = UNION {g[d] : d \in S}  OBVIOUS
<1> QED  BY <1>1, <1>2 DEF Xor

LEMMA XorEmpty == ASSUME NEW f PROVE Xor(f, {}) = {}
BY DEF Xor

LEMMA XorOne ==
  ASSUME NEW f, NEW d
  PROVE  Xor(f, {d}) = f[d]
<1>1. ASSUME NEW v PROVE v \in Xor(f, {d}) <=> v \in f[d]
  <2>1. v \in Xor(f, {d})
          <=> Cardinality({e \in {d} : v \in f[e]}) % 2 = 1
    <3>1. IsFiniteSet({d})  BY FS_Singleton
    <3> QED  BY <3>1, XorMember
  <2>2. CASE v \in f[d]
    <3>1. {e \in {d} : v \in f[e]} = {d}  BY <2>2
    <3>2. Cardinality({d}) = 1  BY FS_Singleton
    <3> QED  BY <2>1, <3>1, <3>2, <2>2
  <2>3. CASE v \notin f[d]
    <3>1. {e \in {d} : v \in f[e]} = {}  BY <2>3
    <3>2. Cardinality({}) = 0  BY FS_EmptySet
    <3> QED  BY <2>1, <3>1, <3>2, <2>3
  <2> QED  BY <2>2, <2>3
<1> QED  BY <1>1

LEMMA XorAdd ==
  ASSUME NEW S, IsFiniteSet(S), NEW d, d \notin S, NEW f
  PROVE  Xor(f, S \cup {d}) = Sym(Xor(f, S), f[d])
<1>1. IsFiniteSet({d})  BY FS_Singleton
<1>2. Xor(f, S \cup {d}) = Sym(Xor(f, S), Xor(f, {d}))
  BY <1>1, XorUnion
<1> QED  BY <1>2, XorOne

LEMMA XorPair ==
  ASSUME NEW A, NEW B
  PROVE  Xor(<<A, B>>, 1..2) = Sym(A, B)
<1> DEFINE f == <<A, B>>
<1>1. f[1] = A /\ f[2] = B  OBVIOUS
<1>2. 1..2 = {1} \cup {2}  OBVIOUS
<1> HIDE DEF f
<1>3. Xor(f, {1} \cup {2}) = Sym(Xor(f, {1}), f[2])
  <2>1. IsFiniteSet({1})  BY FS_Singleton
  <2>2. 2 \notin {1}  OBVIOUS
  <2> QED  BY <2>1, <2>2, XorAdd
<1> QED  BY <1>1, <1>2, <1>3, XorOne DEF f

\* In a row whose parity is right each block is the XOR of the others.
LEMMA XorRecover ==
  ASSUME NEW D, IsFiniteSet(D),
         NEW f, NEW p \in D, f[p] = Xor(f, D \ {p}), NEW d \in D
  PROVE  Xor(f, D \ {d}) = f[d]
<1>1. \A e \in D : Xor(f, D) = Sym(Xor(f, D \ {e}), f[e])
  <2>1. TAKE e \in D
  <2>2. D = (D \ {e}) \cup {e} /\ e \notin D \ {e}  OBVIOUS
  <2>3. IsFiniteSet(D \ {e})  BY FS_Subset
  <2>4. Xor(f, (D \ {e}) \cup {e}) = Sym(Xor(f, D \ {e}), f[e])
    BY <2>2, <2>3, XorAdd
  <2> QED  BY <2>2, <2>4
<1>2. Xor(f, D) = {}
  <2>1. Sym(f[p], f[p]) = {}  BY SymFacts
  <2> QED  BY <1>1, <2>1
<1>3. Sym(Xor(f, D \ {d}), f[d]) = {}  BY <1>1, <1>2
<1> DEFINE A == Xor(f, D \ {d})
           B == f[d]
<1> HIDE DEF A, B
<1>4. Sym(A, B) = {} => A = B  BY DEF Sym
<1> QED  BY <1>3, <1>4 DEF A, B

\* Taking the old data out of the parity and putting the new data in gives
\* the parity of the row with the new data.
LEMMA XorUpdate ==
  ASSUME NEW D, IsFiniteSet(D),
         NEW f, NEW g, NEW p \in D, NEW T \in SUBSET (D \ {p}),
         f[p] = Xor(f, D \ {p}),
         \A d \in D \ (T \cup {p}) : g[d] = f[d]
  PROVE  Sym(Xor(f, T \cup {p}), Xor(g, T)) = Xor(g, D \ {p})
<1> DEFINE R == D \ (T \cup {p})
<1>1. IsFiniteSet(T) /\ IsFiniteSet(R) /\ T \cap R = {} /\ p \notin T
      /\ D \ {p} = T \cup R
  BY FS_Subset
<1> HIDE DEF R
<1>2. \A h : Xor(h, D \ {p}) = Sym(Xor(h, T), Xor(h, R))
  BY <1>1, XorUnion
<1>3. Xor(f, T \cup {p}) = Sym(Xor(f, T), f[p])  BY <1>1, XorAdd
<1>4. Xor(g, R) = Xor(f, R)  BY XorSame DEF R
<1> DEFINE A == Xor(f, T)
           B == Xor(f, R)
           C == Xor(g, T)
<1>5. Xor(f, T \cup {p}) = Sym(A, Sym(A, B))  BY <1>2, <1>3
<1>6. Xor(g, D \ {p}) = Sym(C, B)  BY <1>2, <1>4
<1> HIDE DEF A, B, C
<1>7. Sym(Sym(A, Sym(A, B)), C) = Sym(C, B)  BY DEF Sym
<1> QED  BY <1>5, <1>6, <1>7 DEF C

=============================================================================
