--------------------------------- MODULE Sums ---------------------------------
(***************************************************************************)
(* What MapThenSumSet of the community modules adds up to, for any finite  *)
(* set of natural numbers: the theorems about amounts rest on it.  The     *)
(* induction is over the least counterexample, as a set of numbers.        *)
(***************************************************************************)
EXTENDS Integers, Sequences, FiniteSets, FiniteSetsExt, FiniteSetTheorems,
        WellFoundedInduction, TLAPS

Below == {ss \in Nat \X Nat : ss[1] < ss[2]}

LEMMA BelowWF == IsWellFoundedOn(Below, Nat)
BY NatLessThanWellFounded DEF OpToRel, Below

\* A set of numbers has a least one.
LEMMA LeastNat ==
  ASSUME NEW S, S \subseteq Nat, S # {}
  PROVE  \E x \in S : \A y \in S : x <= y
<1>1. PICK x \in S : \A y \in S : <<y, x>> \notin Below
  BY BelowWF, WFMin
<1>2. ASSUME NEW y \in S
      PROVE  x <= y
  <2>1. <<y, x>> \in Nat \X Nat /\ <<y, x>> \notin Below
    BY <1>1
  <2>2. ~ (y < x) /\ x \in Nat /\ y \in Nat
    BY <2>1 DEF Below
  <2> QED
    BY <2>2
<1> QED
  BY <1>2

\* Of sets of parts of a finite set one has the fewest elements.
LEMMA LeastPart ==
  ASSUME NEW S, IsFiniteSet(S), NEW T, T \subseteq SUBSET S, T # {}
  PROVE  \E s \in T : \A t \in T : Cardinality(s) <= Cardinality(t)
<1> DEFINE C == {Cardinality(t) : t \in T}
<1>1. \A t \in T : Cardinality(t) \in Nat
  BY FS_Subset, FS_CardinalityType
<1>2. C \subseteq Nat /\ C # {}
  BY <1>1
<1>3. PICK n \in C : \A k \in C : n <= k
  BY <1>2, LeastNat
<1> QED
  BY <1>3

\* One element fewer.
LEMMA PartWithout ==
  ASSUME NEW S, IsFiniteSet(S), NEW s \in SUBSET S, NEW x \in s
  PROVE  /\ s \ {x} \in SUBSET S /\ IsFiniteSet(s \ {x})
         /\ Cardinality(s) \in Nat /\ Cardinality(s \ {x}) = Cardinality(s) - 1
         /\ Cardinality(s \ {x}) \in Nat
<1>1. IsFiniteSet(s)
  BY FS_Subset
<1> QED
  BY <1>1, FS_RemoveElement, FS_CardinalityType

-----------------------------------------------------------------------------
(* The sum as a recursive function over the parts of a set *)

Picked(s) == CHOOSE x \in s : TRUE
SumBody(v, g, s) == IF s = {} THEN 0 ELSE v[Picked(s)] + g[s \ {Picked(s)}]
SumFcn(v, S) == CHOOSE g : g = [s \in SUBSET S |-> SumBody(v, g, s)]
SumOf(v, S) == MapThenSumSet(LAMBDA e : v[e], S)

LEMMA SumDef ==
  ASSUME NEW S, NEW v
  PROVE  SumOf(v, S) = SumFcn(v, S)[S]
BY DEF SumOf, MapThenSumSet, MapThenFoldSet, SumFcn, SumBody, Picked

LEMMA PickedIn ==
  ASSUME NEW s, s # {}
  PROVE  Picked(s) \in s
BY DEF Picked

\* The function exists.
LEMMA SumExists ==
  ASSUME NEW S, IsFiniteSet(S), NEW v, \A e \in S : v[e] \in Nat
  PROVE  \E g : g = [s \in SUBSET S |-> SumBody(v, g, s)]
<1> DEFINE UpTo(g, n) == \A s \in SUBSET S : Cardinality(s) <= n => g[s] = SumBody(v, g, s)
           Good == {n \in Nat : \E g \in [SUBSET S -> Nat] : UpTo(g, n)}
<1>1. \A s \in SUBSET S : Cardinality(s) \in Nat /\ (Cardinality(s) = 0 => s = {})
  BY FS_Subset, FS_CardinalityType, FS_EmptySet
<1>2. 0 \in Good
  <2> DEFINE g == [s \in SUBSET S |-> 0]
  <2>1. g \in [SUBSET S -> Nat]
    OBVIOUS
  <2>2. UpTo(g, 0)
    BY <1>1 DEF SumBody
  <2> QED
    BY <2>1, <2>2
<1>3. ASSUME NEW n \in Nat, n \in Good
      PROVE  n + 1 \in Good
  <2>1. PICK g \in [SUBSET S -> Nat] : UpTo(g, n)
    BY <1>3
  <2> DEFINE h == [s \in SUBSET S |-> IF Cardinality(s) <= n THEN g[s] ELSE SumBody(v, g, s)]
  <2>2. ASSUME NEW s \in SUBSET S, s # {}
        PROVE  /\ Picked(s) \in s /\ s \ {Picked(s)} \in SUBSET S
               /\ Cardinality(s) \in Nat
               /\ Cardinality(s \ {Picked(s)}) = Cardinality(s) - 1
    BY <2>2, PickedIn, PartWithout
  <2>3. \A s \in SUBSET S : SumBody(v, g, s) \in Nat
    <3> SUFFICES ASSUME NEW s \in SUBSET S, s # {} PROVE v[Picked(s)] + g[s \ {Picked(s)}] \in Nat
      BY DEF SumBody
    <3>1. v[Picked(s)] \in Nat /\ g[s \ {Picked(s)}] \in Nat
      BY <2>2
    <3> QED
      BY <3>1
  <2>4. h \in [SUBSET S -> Nat]
    BY <2>3
  <2>5. ASSUME NEW s \in SUBSET S, Cardinality(s) <= n + 1
        PROVE  h[s] = SumBody(v, h, s)
    <3>1. SumBody(v, h, s) = SumBody(v, g, s)
      <4>1. CASE s = {}
        BY <4>1 DEF SumBody
      <4>2. CASE s # {}
        <5>1. Cardinality(s \ {Picked(s)}) <= n /\ s \ {Picked(s)} \in SUBSET S
          BY <2>2, <2>5, <4>2
        <5>2. h[s \ {Picked(s)}] = g[s \ {Picked(s)}]
          BY <5>1
        <5> QED
          BY <5>2 DEF SumBody
      <4> QED
        BY <4>1, <4>2
    <3>2. h[s] = SumBody(v, g, s)
      BY <2>1
    <3> QED
      BY <3>1, <3>2
  <2>6. UpTo(h, n + 1)
    BY <2>5
  <2> HIDE DEF h, UpTo
  <2>7. n + 1 \in Nat /\ \E f \in [SUBSET S -> Nat] : UpTo(f, n + 1)
    BY <2>4, <2>6
  <2> QED
    BY <2>7
<1>4. Good = Nat
  <2>0. Good \subseteq Nat
    OBVIOUS
  <2> HIDE DEF Good
  <2> SUFFICES ASSUME Nat \ Good # {} PROVE FALSE
    BY <2>0
  <2>1. PICK n \in Nat \ Good : \A k \in Nat \ Good : n <= k
    BY LeastNat
  <2>2. n # 0 /\ n - 1 \in Nat /\ n - 1 \notin Nat \ Good
    BY <1>2, <2>1
  <2>3. n - 1 \in Good
    BY <2>2
  <2>4. (n - 1) + 1 \in Good
    BY <1>3, <2>2, <2>3
  <2> QED
    BY <2>1, <2>4
<1>5. Cardinality(S) \in Good
  BY <1>1, <1>4
<1>6. PICK g \in [SUBSET S -> Nat] : UpTo(g, Cardinality(S))
  BY <1>5
<1>7. \A s \in SUBSET S : g[s] = SumBody(v, g, s)
  BY <1>6, FS_Subset
<1> QED
  BY <1>7

LEMMA SumEquation ==
  ASSUME NEW S, IsFiniteSet(S), NEW v, \A e \in S : v[e] \in Nat
  PROVE  /\ DOMAIN SumFcn(v, S) = SUBSET S
         /\ \A s \in SUBSET S : SumFcn(v, S)[s] = SumBody(v, SumFcn(v, S), s)
<1>1. SumFcn(v, S) = [s \in SUBSET S |-> SumBody(v, SumFcn(v, S), s)]
  BY SumExists DEF SumFcn
<1> QED
  BY <1>1

\* Its values are numbers.
LEMMA SumValues ==
  ASSUME NEW S, IsFiniteSet(S), NEW v, \A e \in S : v[e] \in Nat, NEW s \in SUBSET S
  PROVE  SumFcn(v, S)[s] \in Nat
<1> DEFINE g == SumFcn(v, S)
           Bad == {t \in SUBSET S : g[t] \notin Nat}
<1>1. SUFFICES ASSUME Bad # {} PROVE FALSE
  OBVIOUS
<1>2. PICK t \in Bad : \A u \in Bad : Cardinality(t) <= Cardinality(u)
  BY <1>1, LeastPart
<1>3. g[t] = SumBody(v, g, t)
  BY SumEquation
<1>4. t # {}
  BY <1>3 DEF SumBody
<1>5. t \in SUBSET S /\ Picked(t) \in t
  BY <1>4, PickedIn
<1>6. /\ t \ {Picked(t)} \in SUBSET S
      /\ ~ (Cardinality(t) <= Cardinality(t \ {Picked(t)}))
  <2>1. /\ t \ {Picked(t)} \in SUBSET S /\ Cardinality(t) \in Nat
        /\ Cardinality(t \ {Picked(t)}) = Cardinality(t) - 1
    BY <1>5, PartWithout
  <2> QED
    BY <2>1
<1>7. g[t \ {Picked(t)}] \in Nat
  BY <1>2, <1>6
<1>8. g[t] \in Nat
  BY <1>3, <1>4, <1>5, <1>7 DEF SumBody
<1> QED
  BY <1>8

\* A sum of natural numbers is one.
LEMMA SumNat ==
  ASSUME NEW S, IsFiniteSet(S), NEW v, \A e \in S : v[e] \in Nat
  PROVE  SumOf(v, S) \in Nat
BY SumDef, SumValues

-----------------------------------------------------------------------------
(* What a sum does when its set changes *)

\* Two functions that agree on a set have one sum over each part of it.
LEMMA SumAgree ==
  ASSUME NEW S, IsFiniteSet(S), NEW v, \A e \in S : v[e] \in Nat,
         NEW T, T \subseteq S, NEW w, \A e \in T : w[e] = v[e]
  PROVE  SumFcn(w, T)[T] = SumFcn(v, S)[T]
<1> DEFINE f == SumFcn(w, T)
           g == SumFcn(v, S)
           Bad == {t \in SUBSET T : f[t] # g[t]}
<1>0. IsFiniteSet(T) /\ \A e \in T : w[e] \in Nat
  BY FS_Subset
<1>1. /\ \A s \in SUBSET T : f[s] = SumBody(w, f, s)
      /\ \A s \in SUBSET S : g[s] = SumBody(v, g, s)
  BY <1>0, SumEquation
<1> HIDE DEF f, g
<1>2. SUFFICES ASSUME Bad # {} PROVE FALSE
  BY DEF f, g
<1>3. PICK t \in Bad : \A u \in Bad : Cardinality(t) <= Cardinality(u)
  BY <1>0, <1>2, LeastPart
<1>4. t \in SUBSET T /\ t \in SUBSET S /\ f[t] # g[t]
  BY <1>3
<1>5. t # {}
  BY <1>1, <1>4 DEF SumBody
<1>6. Picked(t) \in t
  BY <1>5, PickedIn
<1>7. /\ t \ {Picked(t)} \in SUBSET T /\ Cardinality(t) \in Nat
      /\ Cardinality(t \ {Picked(t)}) = Cardinality(t) - 1
  BY <1>0, <1>4, <1>6, PartWithout
<1>8. t \ {Picked(t)} \notin Bad
  BY <1>3, <1>7
<1>9. f[t \ {Picked(t)}] = g[t \ {Picked(t)}]
  BY <1>7, <1>8
<1> QED
  BY <1>1, <1>4, <1>5, <1>6, <1>9 DEF SumBody

\* The order in which the elements are picked does not matter.
LEMMA SumAny ==
  ASSUME NEW S, IsFiniteSet(S), NEW v, \A e \in S : v[e] \in Nat,
         NEW s \in SUBSET S, NEW x \in s
  PROVE  SumFcn(v, S)[s] = v[x] + SumFcn(v, S)[s \ {x}]
<1> DEFINE g == SumFcn(v, S)
           Bad == {t \in SUBSET S : \E z \in t : g[t] # v[z] + g[t \ {z}]}
<1>1. \A t \in SUBSET S : g[t] = SumBody(v, g, t) /\ g[t] \in Nat
  BY SumEquation, SumValues
<1> HIDE DEF g
<1>2. SUFFICES ASSUME Bad # {} PROVE FALSE
  BY DEF g
<1>3. PICK t \in Bad : \A u \in Bad : Cardinality(t) <= Cardinality(u)
  BY <1>2, LeastPart
<1>4. PICK z \in t : g[t] # v[z] + g[t \ {z}]
  BY <1>3
<1> DEFINE y == Picked(t)
<1>5. y \in t /\ g[t] = v[y] + g[t \ {y}]
  BY <1>1, <1>3, <1>4, PickedIn DEF SumBody
<1> HIDE DEF y
<1>6. y # z
  BY <1>4, <1>5
<1>7. ASSUME NEW a \in t, NEW b \in t \ {a}
      PROVE  g[t \ {a}] = v[b] + g[(t \ {a}) \ {b}]
  <2>1. /\ t \ {a} \in SUBSET S /\ Cardinality(t) \in Nat
        /\ Cardinality(t \ {a}) = Cardinality(t) - 1
    BY <1>3, PartWithout
  <2>2. t \ {a} \notin Bad
    BY <1>3, <2>1
  <2> QED
    BY <2>1, <2>2
<1>8. g[t \ {y}] = v[z] + g[(t \ {y}) \ {z}] /\ g[t \ {z}] = v[y] + g[(t \ {z}) \ {y}]
  BY <1>4, <1>5, <1>6, <1>7
<1>9. (t \ {y}) \ {z} = (t \ {z}) \ {y} /\ (t \ {y}) \ {z} \in SUBSET S
  BY <1>3
<1>10. v[y] \in Nat /\ v[z] \in Nat /\ g[(t \ {y}) \ {z}] \in Nat
  BY <1>1, <1>3, <1>4, <1>5, <1>9
<1>11. PICK r \in Nat : g[t \ {y}] = v[z] + r /\ g[t \ {z}] = v[y] + r
  BY <1>8, <1>9, <1>10
<1>12. v[y] + g[t \ {y}] = v[z] + g[t \ {z}]
  BY <1>10, <1>11
<1> QED
  BY <1>4, <1>5, <1>12

\* Nothing adds up to nothing.
LEMMA SumEmpty ==
  ASSUME NEW v
  PROVE  SumOf(v, {}) = 0
<1>1. IsFiniteSet({}) /\ \A e \in {} : v[e] \in Nat
  BY FS_EmptySet
<1>2. \A s \in SUBSET {} : SumFcn(v, {})[s] = SumBody(v, SumFcn(v, {}), s)
  BY <1>1, SumEquation
<1> QED
  BY <1>2, SumDef DEF SumBody

\* Functions that agree have one sum.
LEMMA SumSame ==
  ASSUME NEW S, IsFiniteSet(S), NEW v, NEW w, \A e \in S : v[e] \in Nat /\ w[e] = v[e]
  PROVE  SumOf(w, S) = SumOf(v, S)
BY SumAgree, SumDef

\* An element adds its value.
LEMMA SumWithout ==
  ASSUME NEW S, IsFiniteSet(S), NEW v, \A e \in S : v[e] \in Nat, NEW x \in S
  PROVE  /\ SumOf(v, S) = v[x] + SumOf(v, S \ {x})
         /\ SumOf(v, S \ {x}) \in Nat /\ v[x] \in Nat
<1>1. SumFcn(v, S)[S] = v[x] + SumFcn(v, S)[S \ {x}]
  BY SumAny
<1>2. SumFcn(v, S \ {x})[S \ {x}] = SumFcn(v, S)[S \ {x}]
  BY SumAgree
<1>3. IsFiniteSet(S \ {x}) /\ \A e \in S \ {x} : v[e] \in Nat
  BY FS_Subset
<1> QED
  BY <1>1, <1>2, <1>3, SumDef, SumNat

\* A new element adds its value.
LEMMA SumWith ==
  ASSUME NEW S, IsFiniteSet(S), NEW v, NEW x, x \notin S, \A e \in S \cup {x} : v[e] \in Nat
  PROVE  SumOf(v, S \cup {x}) = v[x] + SumOf(v, S)
<1>1. IsFiniteSet(S \cup {x}) /\ (S \cup {x}) \ {x} = S
  BY FS_AddElement
<1> QED
  BY <1>1, SumWithout

-----------------------------------------------------------------------------
(* Loops: a function of 0..n that each step computes from the one before *)

\* A property of the numbers to n that every step carries on holds of them all.
LEMMA UpToN ==
  ASSUME NEW n \in Nat, NEW Good, 0 \in Good,
         \A i \in 1..n : i - 1 \in Good => i \in Good
  PROVE  \A i \in 0..n : i \in Good
<1> DEFINE Bad == {i \in 0..n : i \notin Good}
<1>1. SUFFICES ASSUME Bad # {} PROVE FALSE
  OBVIOUS
<1>2. Bad \subseteq Nat
  OBVIOUS
<1>3. PICK i \in Bad : \A k \in Bad : i <= k
  BY <1>1, <1>2, LeastNat
<1>4. i # 0 /\ i \in 1..n /\ i - 1 \in 0..n /\ i - 1 \notin Bad
  BY <1>3
<1> QED
  BY <1>3, <1>4

IsLoop(f, n, a, F) == f[0] = a /\ \A i \in 1..n : f[i] = F[<<i, f[i - 1]>>]

\* A loop over 0..n has a result.
LEMMA LoopExists ==
  ASSUME NEW n \in Nat, NEW D, NEW a \in D, NEW F \in [(1..n) \X D -> D]
  PROVE  \E f \in [0..n -> D] : IsLoop(f, n, a, F)
<1> DEFINE UpTo(f, k) == f[0] = a /\ \A i \in 1..n : i <= k => f[i] = F[<<i, f[i - 1]>>]
           Good == {k \in 0..n : \E f \in [0..n -> D] : UpTo(f, k)}
<1>1. 0 \in Good
  <2> DEFINE f == [i \in 0..n |-> a]
  <2>1. f \in [0..n -> D] /\ UpTo(f, 0)
    OBVIOUS
  <2> QED
    BY <2>1
<1>2. ASSUME NEW k \in 1..n, k - 1 \in Good
      PROVE  k \in Good
  <2>1. PICK f \in [0..n -> D] : UpTo(f, k - 1)
    BY <1>2
  <2> DEFINE g == [f EXCEPT ![k] = F[<<k, f[k - 1]>>]]
  <2>2. g \in [0..n -> D]
    <3>1. k - 1 \in 0..n /\ f[k - 1] \in D
      BY <2>1
    <3>2. F[<<k, f[k - 1]>>] \in D
      BY <3>1
    <3> QED
      BY <2>1, <3>2
  <2>3. ASSUME NEW i \in 1..n, i <= k
        PROVE  g[i] = F[<<i, g[i - 1]>>]
    <3>0. k \in 0..n /\ i - 1 \in 0..n /\ i - 1 # k
      BY <2>3
    <3>1. CASE i = k
      BY <2>1, <3>0, <3>1
    <3>2. CASE i # k
      BY <2>1, <2>3, <3>0, <3>2
    <3> QED
      BY <3>1, <3>2
  <2>4. g[0] = a
    BY <2>1
  <2>5. UpTo(g, k)
    BY <2>3, <2>4
  <2> HIDE DEF g, UpTo
  <2> QED
    BY <2>2, <2>5
<1> HIDE DEF Good
<1>3. n \in Good
  BY <1>1, <1>2, UpToN
<1>4. PICK f \in [0..n -> D] : UpTo(f, n)
  BY <1>3 DEF Good
<1> QED
  BY <1>4 DEF IsLoop

\* What a sequence adds up to when one more is appended.
LEMMA SumAppend ==
  ASSUME NEW s \in Seq(Nat), NEW x \in Nat
  PROVE  SumOf(Append(s, x), DOMAIN Append(s, x)) = SumOf(s, DOMAIN s) + x
<1> DEFINE t == Append(s, x)
           n == Len(s) + 1
<1>1. /\ DOMAIN s = 1..Len(s) /\ DOMAIN t = (1..Len(s)) \cup {n} /\ n \notin 1..Len(s)
      /\ t[n] = x /\ \A i \in 1..Len(s) : t[i] = s[i] /\ s[i] \in Nat
  OBVIOUS
<1>2. IsFiniteSet(1..Len(s))
  BY FS_Interval
<1> HIDE DEF t, n
<1>3. SumOf(t, (1..Len(s)) \cup {n}) = t[n] + SumOf(t, 1..Len(s))
  BY <1>1, <1>2, SumWith
<1>4. SumOf(t, 1..Len(s)) = SumOf(s, 1..Len(s)) /\ SumOf(s, 1..Len(s)) \in Nat
  BY <1>1, <1>2, SumSame, SumNat
<1>5. SumOf(t, DOMAIN t) = SumOf(s, DOMAIN s) + x
  BY <1>1, <1>3, <1>4
<1> QED
  BY <1>5 DEF t

-----------------------------------------------------------------------------
(* Bounds *)

\* A part of what is added up is at most the whole.
LEMMA SumAtLeast ==
  ASSUME NEW S, IsFiniteSet(S), NEW v, \A e \in S : v[e] \in Nat, NEW x \in S
  PROVE  v[x] <= SumOf(v, S)
<1>1. /\ SumOf(v, S) = v[x] + SumOf(v, S \ {x})
      /\ SumOf(v, S \ {x}) \in Nat /\ v[x] \in Nat
  BY SumWithout
<1> QED
  BY <1>1

\* One value changed.
LEMMA SumChanged ==
  ASSUME NEW S, IsFiniteSet(S), NEW v, NEW w, NEW x \in S,
         \A e \in S : v[e] \in Nat /\ w[e] \in Nat, \A e \in S \ {x} : w[e] = v[e]
  PROVE  SumOf(w, S) + v[x] = SumOf(v, S) + w[x]
<1>1. /\ SumOf(v, S) = v[x] + SumOf(v, S \ {x})
      /\ SumOf(v, S \ {x}) \in Nat /\ v[x] \in Nat
  BY SumWithout
<1>2. SumOf(w, S) = w[x] + SumOf(w, S \ {x}) /\ w[x] \in Nat
  BY SumWithout
<1>3. SumOf(w, S \ {x}) = SumOf(v, S \ {x})
  BY FS_Subset, SumSame
<1> QED
  BY <1>1, <1>2, <1>3

\* Of numbers of which none is more than m.
LEMMA SumBounded ==
  ASSUME NEW S, IsFiniteSet(S), NEW v, NEW m \in Nat, \A e \in S : v[e] \in 0..m
  PROVE  SumOf(v, S) <= m * Cardinality(S)
<1> DEFINE Bad == {t \in SUBSET S : ~ (SumOf(v, t) <= m * Cardinality(t))}
<1>1. SUFFICES ASSUME Bad # {} PROVE FALSE
  OBVIOUS
<1>2. PICK t \in Bad : \A u \in Bad : Cardinality(t) <= Cardinality(u)
  BY <1>1, LeastPart
<1>3. IsFiniteSet(t) /\ \A e \in t : v[e] \in Nat
  BY <1>2, FS_Subset
<1>4. t # {}
  <2> SUFFICES ASSUME t = {} PROVE FALSE
    OBVIOUS
  <2>1. SumOf(v, t) = 0 /\ Cardinality(t) = 0
    BY SumEmpty, FS_EmptySet
  <2> QED
    BY <1>2, <2>1
<1>5. PICK x \in t : TRUE
  BY <1>4
<1>6. /\ t \ {x} \in SUBSET S /\ Cardinality(t) \in Nat
      /\ Cardinality(t \ {x}) = Cardinality(t) - 1 /\ Cardinality(t \ {x}) \in Nat
  BY <1>2, PartWithout
<1>7. t \ {x} \notin Bad
  BY <1>2, <1>6
<1>8. SumOf(v, t \ {x}) <= m * Cardinality(t \ {x})
  BY <1>6, <1>7
<1>9. /\ SumOf(v, t) = v[x] + SumOf(v, t \ {x})
      /\ SumOf(v, t \ {x}) \in Nat /\ v[x] \in Nat /\ v[x] <= m
  <2>1. v[x] \in 0..m
    BY <1>2
  <2> QED
    BY <1>3, <2>1, SumWithout
<1>10. m * Cardinality(t) = m + m * Cardinality(t \ {x})
  <2>1. \A c \in Nat : c # 0 => m * c = m + m * (c - 1)
    OBVIOUS
  <2>2. Cardinality(t) # 0
    BY <1>6
  <2> QED
    BY <1>6, <2>1, <2>2
<1>11. m * Cardinality(t \ {x}) \in Nat
  BY <1>6
<1> QED
  BY <1>2, <1>8, <1>9, <1>10, <1>11

\* A finite set of numbers has a greatest.
LEMMA MaxIs ==
  ASSUME NEW S, IsFiniteSet(S), S \subseteq Nat, NEW x \in S
  PROVE  Max(S) \in S /\ x <= Max(S)
<1> DEFINE Topped(t) == \E y \in t : \A z \in t : y >= z
           Bad == {t \in SUBSET S : t # {} /\ ~Topped(t)}
<1>1. Bad = {}
  <2> SUFFICES ASSUME Bad # {} PROVE FALSE
    OBVIOUS
  <2>1. PICK t \in Bad : \A u \in Bad : Cardinality(t) <= Cardinality(u)
    BY LeastPart
  <2>2. PICK y \in t : TRUE
    BY <2>1
  <2>3. /\ t \ {y} \in SUBSET S /\ Cardinality(t) \in Nat
        /\ Cardinality(t \ {y}) = Cardinality(t) - 1
    BY <2>1, PartWithout
  <2>4. t \ {y} \notin Bad
    <3>1. ~ (Cardinality(t) <= Cardinality(t \ {y}))
      BY <2>3
    <3> HIDE DEF Bad
    <3> QED
      BY <2>1, <3>1
  <2>5. t \ {y} = {} \/ Topped(t \ {y})
    BY <2>3, <2>4
  <2>6. t \subseteq Nat /\ ~Topped(t)
    BY <2>1
  <2>7. CASE t \ {y} = {}
    BY <2>2, <2>6, <2>7
  <2>8. CASE Topped(t \ {y})
    <3>1. PICK w \in t \ {y} : \A z \in t \ {y} : w >= z
      BY <2>8
    <3>2. (\A z \in t : w >= z) \/ (\A z \in t : y >= z)
      BY <2>2, <2>6, <3>1
    <3> QED
      BY <2>2, <2>6, <3>1, <3>2
  <2> QED
    BY <2>5, <2>7, <2>8
<1>2. Topped(S)
  BY <1>1
<1>3. Max(S) \in S /\ \A z \in S : Max(S) >= z
  BY <1>2 DEF Max
<1> QED
  BY <1>3

=============================================================================
