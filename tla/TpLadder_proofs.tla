--------------------------- MODULE TpLadder_proofs ---------------------------
(***************************************************************************)
(* The amounts of a ladder for any orders, sizes and distributions.        *)
(*                                                                         *)
(* LadderExact (IInv): the amount sent is not inductive by itself: after n *)
(* tiers it is n times the base and one more for each of the first n that  *)
(* got a contract of the remainder, and after all tiers that is the target *)
(* by the division theorem.                                                *)
(*                                                                         *)
(* PlanExact: what is left goes down to nothing, tier by tier, and the     *)
(* tiers add up to what has gone (RemainingIs, AllocateIs).                *)
(*                                                                         *)
(* Covered and TypeOK (AmountInv): the position, the resting tiers and the *)
(* fills are one book; what a plan that is only scaled has sent is at most *)
(* its target's part of the tiers before; and while nobody else moves, the *)
(* gap between the position and what covers it is what P0-3 read, less     *)
(* what has been sent.                                                     *)
(***************************************************************************)
EXTENDS TpLadder, Sums, TLAPS

Base(o) == target[o] \div EvenTiers(o)
Rest(o) == target[o] % EvenTiers(o)

\* What the first n tiers of an even ladder hand out.
Handed(o, n) == n * Base(o) + Least(n, Rest(o))

Shape ==
  /\ DOMAIN want = Orders
  /\ pc \in [Orders -> Phase] /\ even \in [Orders -> BOOLEAN]
  /\ DOMAIN target = Orders /\ DOMAIN next = Orders /\ DOMAIN sent = Orders

\* Before the plan is made nothing is sent.
Fresh(o) ==
  pc[o] \in {"idle", "read", "plan"} => ~even[o] /\ next[o] = 1 /\ sent[o] = 0

\* While an even ladder is sent, the tiers sent so far add up.
AddsUp(o) ==
  even[o] =>
    /\ target[o] \in Nat \ {0}
    /\ next[o] \in 1..(EvenTiers(o) + 1) /\ sent[o] = Handed(o, next[o] - 1)
    /\ pc[o] \in {"place", "done"}
    /\ pc[o] = "done" => next[o] = EvenTiers(o) + 1

IInv ==
  /\ Shape
  /\ \A o \in Orders : /\ Len(want[o]) \in Nat \ {0}
                       /\ Fresh(o) /\ AddsUp(o)

-----------------------------------------------------------------------------
(* TpSlCalculator: what a plan adds up to *)

LEMMA ShareNat ==
  ASSUME NEW total \in Nat, NEW percent \in Nat
  PROVE  Share(total, percent) \in Nat
<1>1. 2 * total * percent + 100 \in Nat
  OBVIOUS
<1> QED
  BY <1>1 DEF Share

LEMMA NumTpsNat ==
  ASSUME NEW total \in Nat, NEW d \in Seq(Nat), d # << >>
  PROVE  NumTps(total, d) \in 1..Len(d)
BY DEF NumTps

\* What is left goes from the whole down to nothing.
LEMMA RemainingIs ==
  ASSUME NEW total \in Nat, NEW d \in Seq(Nat), d # << >>
  PROVE  LET n == NumTps(total, d)
             left == Remaining(total, d)
         IN  /\ left \in [0..n -> 0..total] /\ left[0] = total /\ left[n] = 0
             /\ \A i \in 1..n : left[i] <= left[i - 1]
<1> DEFINE n == NumTps(total, d)
           body(g, i) == IF i = 0 THEN total
                         ELSE IF i = n THEN 0
                         ELSE g[i - 1] - Least(Share(total, d[i]), g[i - 1])
           F == [p \in (1..n) \X (0..total) |->
                   IF p[1] = n THEN 0 ELSE p[2] - Least(Share(total, d[p[1]]), p[2])]
<1>1. n \in Nat /\ n >= 1 /\ \A i \in 1..n : d[i] \in Nat
  <2>1. n \in 1..Len(d) /\ Len(d) \in Nat
    BY NumTpsNat
  <2> HIDE DEF n
  <2>2. \A i \in 1..n : i \in 1..Len(d)
    BY <2>1
  <2> QED
    BY <2>1, <2>2
<1>2. \A i \in 1..n : Share(total, d[i]) \in Nat
  BY <1>1, ShareNat
<1> HIDE DEF n
<1>3. ASSUME NEW i \in 1..n, NEW x \in 0..total
      PROVE  /\ F[<<i, x>>] \in 0..total /\ F[<<i, x>>] <= x
             /\ F[<<i, x>>] = IF i = n THEN 0 ELSE x - Least(Share(total, d[i]), x)
  <2>1. F[<<i, x>>] = IF i = n THEN 0 ELSE x - Least(Share(total, d[i]), x)
    OBVIOUS
  <2> QED
    BY <1>2, <2>1 DEF Least
<1> HIDE DEF F
<1>4. PICK f \in [0..n -> 0..total] : IsLoop(f, n, total, F)
  <2>1. total \in 0..total /\ n \in Nat
    BY <1>1
  <2>2. F \in [(1..n) \X (0..total) -> 0..total]
    <3>1. \A p \in (1..n) \X (0..total) :
            (IF p[1] = n THEN 0 ELSE p[2] - Least(Share(total, d[p[1]]), p[2])) \in 0..total
      BY <1>2 DEF Least
    <3> QED
      BY <3>1 DEF F
  <2> QED
    BY <2>1, <2>2, LoopExists
<1>5. f = [i \in 0..n |-> body(f, i)]
  <2>1. ASSUME NEW i \in 0..n
        PROVE  f[i] = body(f, i)
    <3>1. CASE i = 0
      BY <1>4, <3>1 DEF IsLoop
    <3>2. CASE i # 0
      <4>1. i \in 1..n /\ i - 1 \in 0..n
        BY <1>1, <3>2
      <4>2. f[i] = F[<<i, f[i - 1]>>] /\ f[i - 1] \in 0..total
        BY <1>4, <4>1 DEF IsLoop
      <4> QED
        BY <1>3, <3>2, <4>1, <4>2
    <3> QED
      BY <3>1, <3>2
  <2> QED
    BY <2>1
<1> DEFINE left == Remaining(total, d)
<1>6. left = CHOOSE g : g = [i \in 0..n |-> body(g, i)]
  BY DEF Remaining, n
<1>7. left = [i \in 0..n |-> body(left, i)]
  BY <1>5, <1>6
<1> HIDE DEF left
<1>8. left[0] = total /\ left[n] = 0
  BY <1>1, <1>7
<1> DEFINE Good == {i \in 0..n : left[i] \in 0..total}
<1>9. ASSUME NEW i \in 1..n, left[i - 1] \in 0..total
      PROVE  left[i] \in 0..total /\ left[i] <= left[i - 1]
  <2>0. i \in 0..n /\ i # 0
    BY <1>1
  <2>1. left[i] = IF i = n THEN 0 ELSE left[i - 1] - Least(Share(total, d[i]), left[i - 1])
    BY <1>7, <2>0
  <2>2. left[i] = F[<<i, left[i - 1]>>]
    BY <1>3, <1>9, <2>1
  <2> QED
    BY <1>3, <1>9, <2>2
<1>10. 0 \in Good /\ \A i \in 1..n : i - 1 \in Good => i \in Good
  BY <1>1, <1>8, <1>9
<1> HIDE DEF Good
<1>11. \A i \in 0..n : i \in Good
  BY <1>1, <1>10, UpToN
<1>12. \A i \in 0..n : left[i] \in 0..total
  BY <1>11 DEF Good
<1>13. left \in [0..n -> 0..total]
  BY <1>7, <1>12
<1>14. \A i \in 1..n : left[i] <= left[i - 1]
  <2> SUFFICES ASSUME NEW i \in 1..n PROVE left[i] <= left[i - 1]
    OBVIOUS
  <2>1. i - 1 \in 0..n
    BY <1>1
  <2> QED
    BY <1>9, <1>12, <2>1
<1> QED
  BY <1>8, <1>13, <1>14 DEF left, n

\* The tiers of a plan: none is empty, they add up to the whole amount.
LEMMA AllocateIs ==
  ASSUME NEW total \in Nat, NEW d \in Seq(Nat), d # << >>
  PROVE  /\ Allocate(total, d) \in Seq(Nat \ {0})
         /\ SumFunction(Allocate(total, d)) = total
         /\ Len(Allocate(total, d)) <= total
<1> DEFINE n == NumTps(total, d)
           left == Remaining(total, d)
           D == Seq(Nat \ {0})
           body(g, i) == IF i = 0 THEN << >>
                         ELSE IF left[i - 1] - left[i] <= 0 THEN g[i - 1]
                         ELSE Append(g[i - 1], left[i - 1] - left[i])
           F == [p \in (1..n) \X D |->
                   IF left[p[1] - 1] - left[p[1]] <= 0 THEN p[2]
                   ELSE Append(p[2], left[p[1] - 1] - left[p[1]])]
<1>1. n \in Nat /\ n >= 1
  BY NumTpsNat
<1>2. /\ left \in [0..n -> 0..total] /\ left[0] = total /\ left[n] = 0
      /\ \A i \in 1..n : left[i] <= left[i - 1]
  BY RemainingIs
<1> HIDE DEF n, left
<1>3. ASSUME NEW i \in 1..n
      PROVE  left[i] \in Nat /\ left[i - 1] \in Nat /\ left[i] <= left[i - 1]
  <2>1. i \in 0..n /\ i - 1 \in 0..n
    BY <1>1
  <2> QED
    BY <1>2, <2>1
<1>4. F \in [(1..n) \X D -> D]
  <2>1. ASSUME NEW i \in 1..n, NEW x \in D
        PROVE  (IF left[i - 1] - left[i] <= 0 THEN x
                ELSE Append(x, left[i - 1] - left[i])) \in D
    BY <1>3
  <2> QED
    BY <2>1
<1>5. ASSUME NEW i \in 1..n, NEW x \in D
      PROVE  F[<<i, x>>] = IF left[i - 1] - left[i] <= 0 THEN x
                           ELSE Append(x, left[i - 1] - left[i])
  OBVIOUS
<1> HIDE DEF F
<1>6. PICK f \in [0..n -> D] : IsLoop(f, n, << >>, F)
  <2>1. << >> \in D
    OBVIOUS
  <2> HIDE DEF D
  <2> QED
    BY <1>1, <1>4, <2>1, LoopExists
<1> HIDE DEF D
<1>7. f = [i \in 0..n |-> body(f, i)]
  <2>1. ASSUME NEW i \in 0..n
        PROVE  f[i] = body(f, i)
    <3>1. CASE i = 0
      BY <1>6, <3>1 DEF IsLoop
    <3>2. CASE i # 0
      <4>1. i \in 1..n /\ i - 1 \in 0..n
        BY <1>1, <3>2
      <4>2. f[i] = F[<<i, f[i - 1]>>] /\ f[i - 1] \in D
        BY <1>6, <4>1 DEF IsLoop
      <4> QED
        BY <1>5, <3>2, <4>1, <4>2
    <3> QED
      BY <3>1, <3>2
  <2> QED
    BY <2>1
<1> DEFINE tpOrders == CHOOSE g : g = [i \in 0..n |-> body(g, i)]
<1>8. tpOrders = [i \in 0..n |-> body(tpOrders, i)]
  BY <1>7
<1>9. Allocate(total, d) = tpOrders[n]
  BY DEF Allocate, n, left
<1> HIDE DEF tpOrders
<1> DEFINE Good == {i \in 0..n : /\ tpOrders[i] \in Seq(Nat \ {0})
                                 /\ SumFunction(tpOrders[i]) = total - left[i]
                                 /\ Len(tpOrders[i]) <= total - left[i]}
<1>10. 0 \in Good
  <2>1. tpOrders[0] = << >> /\ 0 \in 0..n
    BY <1>1, <1>8
  <2>2. SumFunction(<< >>) = 0
    <3>1. DOMAIN << >> = {}
      OBVIOUS
    <3> QED
      BY <3>1, SumEmpty DEF SumFunction, SumFunctionOnSet, FoldFunctionOnSet, SumOf,
                            MapThenSumSet, MapThenFoldSet
  <2>3. << >> \in Seq(Nat \ {0}) /\ Len(<< >>) = 0 /\ total - left[0] = 0
    BY <1>2
  <2>4. /\ SumFunction(tpOrders[0]) = total - left[0]
        /\ Len(tpOrders[0]) <= total - left[0] /\ tpOrders[0] \in Seq(Nat \ {0})
    BY <2>1, <2>2, <2>3
  <2> QED
    BY <2>1, <2>4
<1>11. ASSUME NEW i \in 1..n, i - 1 \in Good
       PROVE  i \in Good
  <2> DEFINE s == tpOrders[i - 1]
             x == left[i - 1] - left[i]
  <2>1. /\ s \in Seq(Nat \ {0}) /\ SumFunction(s) = total - left[i - 1]
        /\ Len(s) <= total - left[i - 1] /\ i \in 0..n /\ i # 0
    BY <1>1, <1>11
  <2>2. tpOrders[i] = IF x <= 0 THEN s ELSE Append(s, x)
    BY <1>8, <2>1
  <2>3. left[i] \in Nat /\ left[i - 1] \in Nat /\ x \in Nat
    BY <1>3
  <2> HIDE DEF s
  <2>4. CASE x = 0
    BY <2>1, <2>2, <2>3, <2>4
  <2>5. CASE x > 0
    <3>1. s \in Seq(Nat)
      BY <2>1
    <3>2. SumFunction(Append(s, x)) = SumFunction(s) + x
      BY <2>3, <3>1, SumAppend DEF SumFunction, SumFunctionOnSet, FoldFunctionOnSet, SumOf,
                            MapThenSumSet, MapThenFoldSet
    <3>3. Append(s, x) \in Seq(Nat \ {0}) /\ Len(Append(s, x)) = Len(s) + 1 /\ Len(s) \in Nat
      BY <2>1, <2>3, <2>5
    <3>4. tpOrders[i] = Append(s, x)
      BY <2>2, <2>3, <2>5
    <3>5. /\ SumFunction(s) + x = total - left[i]
          /\ Len(s) + 1 <= total - left[i]
      <4>1. (total - left[i - 1]) + x = total - left[i]
        BY <2>3
      <4>2. left[i] + 1 <= left[i - 1]
        BY <2>3, <2>5
      <4>3. \A k \in Nat : k <= total - left[i - 1] => k + 1 <= total - left[i]
        BY <2>3, <4>2
      <4> HIDE DEF x
      <4> QED
        BY <2>1, <3>3, <4>1, <4>3
    <3>6. /\ SumFunction(tpOrders[i]) = total - left[i]
          /\ Len(tpOrders[i]) <= total - left[i] /\ tpOrders[i] \in Seq(Nat \ {0})
      BY <3>2, <3>3, <3>4, <3>5
    <3> QED
      BY <2>1, <3>6
  <2> QED
    BY <2>3, <2>4, <2>5
<1> HIDE DEF Good
<1>12. n \in Good
  <2>1. \A i \in 1..n : i - 1 \in Good => i \in Good
    BY <1>11
  <2>2. \A i \in 0..n : i \in Good
    BY <1>1, <1>10, <2>1, UpToN
  <2> QED
    BY <1>1, <2>2
<1> QED
  BY <1>1, <1>2, <1>9, <1>12 DEF Good

\* A plan for any amount there is to take has a tier.
LEMMA PlansHaveTiers ==
  ASSUME NEW s \in Nat \ {0}, NEW d \in Distributions
  PROVE  /\ Allocate(s, d) \in Seq(Nat \ {0}) /\ SumFunction(Allocate(s, d)) = s
         /\ Len(Allocate(s, d)) \in 1..s
<1>1. d \in Seq(Nat) /\ d # << >>
  BY DistributionAssumption
<1>2. /\ Allocate(s, d) \in Seq(Nat \ {0}) /\ SumFunction(Allocate(s, d)) = s
      /\ Len(Allocate(s, d)) <= s
  BY <1>1, AllocateIs
<1>3. Allocate(s, d) # << >>
  <2>1. DOMAIN << >> = {}
    OBVIOUS
  <2>2. SumFunction(<< >>) = 0
    BY <2>1, SumEmpty DEF SumFunction, SumFunctionOnSet, FoldFunctionOnSet, SumOf,
                          MapThenSumSet, MapThenFoldSet
  <2> QED
    BY <1>2, <2>2
<1> QED
  BY <1>2, <1>3

-----------------------------------------------------------------------------
(* Arithmetic of an even ladder *)

\* A remainder is a natural number.
LEMMA InNat ==
  ASSUME NEW k \in Nat \ {0}, NEW r \in 0..(k - 1)
  PROVE  r \in Nat
OBVIOUS

\* Quotient and remainder put the whole together again.
LEMMA Division ==
  ASSUME NEW t \in Nat, NEW k \in Nat \ {0}
  PROVE  /\ t \div k \in Nat /\ t % k \in 0..(k - 1)
         /\ t = k * (t \div k) + (t % k)
OBVIOUS

\* One tier more hands out the base and its part of the remainder.
LEMMA OneMore ==
  ASSUME NEW b \in Nat, NEW r \in Nat, NEW i \in Nat \ {0}
  PROVE  i * b + Least(i, r)
           = (i - 1) * b + Least(i - 1, r) + (b + (IF i <= r THEN 1 ELSE 0))
<1>1. i * b = (i - 1) * b + b
  OBVIOUS
<1>2. Least(i, r) = Least(i - 1, r) + (IF i <= r THEN 1 ELSE 0)
  BY DEF Least
<1>3. (i - 1) * b \in Nat /\ Least(i - 1, r) \in Nat
  BY DEF Least
<1>4. QED
  BY <1>1, <1>2, <1>3

\* Handed out tier by tier, the amounts never exceed the whole.
LEMMA PartOfWhole ==
  ASSUME NEW b \in Nat, NEW k \in Nat \ {0}, NEW r \in 0..(k - 1), NEW n \in 0..k
  PROVE  n * b + Least(n, r) <= k * b + r
<1>1. n * b <= k * b
  OBVIOUS
<1>2. n * b \in Nat /\ k * b \in Nat /\ Least(n, r) <= r /\ Least(n, r) \in Nat
  BY DEF Least
<1>3. QED
  BY <1>1, <1>2

\* A ladder that adds up keeps LadderExact.
LEMMA Exact ==
  ASSUME IInv
  PROVE  LadderExact
<1>1. SUFFICES ASSUME NEW o \in Orders, even[o]
               PROVE  /\ sent[o] <= target[o]
                      /\ pc[o] = "done" => sent[o] = target[o]
                      /\ pc[o] = "place" /\ next[o] <= Count(o) => Amount(o, next[o]) >= 1
  BY DEF LadderExact
<1>2. /\ target[o] \in Nat \ {0} /\ next[o] \in 1..(EvenTiers(o) + 1)
      /\ sent[o] = Handed(o, next[o] - 1)
      /\ pc[o] = "done" => next[o] = EvenTiers(o) + 1
      /\ Len(want[o]) \in Nat \ {0}
  BY <1>1 DEF IInv, AddsUp
<1>3. EvenTiers(o) \in Nat \ {0} /\ EvenTiers(o) <= target[o]
  BY <1>2 DEF EvenTiers, Tiers, Least
<1>4. /\ Base(o) \in Nat /\ Rest(o) \in 0..(EvenTiers(o) - 1)
      /\ target[o] = EvenTiers(o) * Base(o) + Rest(o)
  BY <1>2, <1>3, Division DEF Base, Rest
<1>5. sent[o] <= target[o]
  <2>1. next[o] - 1 \in 0..EvenTiers(o)
    BY <1>2, <1>3
  <2>2. QED
    BY <1>2, <1>3, <1>4, <2>1, PartOfWhole DEF Handed
<1>6. pc[o] = "done" => sent[o] = target[o]
  <2>1. Least(EvenTiers(o), Rest(o)) = Rest(o)
    BY <1>3, <1>4 DEF Least
  <2>2. QED
    BY <1>2, <1>3, <1>4, <2>1 DEF Handed
<1>7. Amount(o, next[o]) >= 1
  <2>1. Base(o) >= 1
    BY <1>2, <1>3, <1>4
  <2>2. Amount(o, next[o]) = Base(o) + (IF next[o] <= Rest(o) THEN 1 ELSE 0)
    BY <1>1 DEF Amount, EvenAmount, Base, Rest
  <2>3. QED
    BY <1>4, <2>1, <2>2
<1>8. QED
  BY <1>5, <1>6, <1>7

-----------------------------------------------------------------------------
(* The invariant holds at first and is kept by every step *)

LEMMA IInvInit == Init => IInv
<1>1. SUFFICES ASSUME Init
               PROVE  IInv
  OBVIOUS
<1>2. Shape
  BY <1>1 DEF Init, Shape, Phase
<1>3. ASSUME NEW o \in Orders
      PROVE  Len(want[o]) \in Nat \ {0}
  <2>1. PICK d \in [Orders -> Distributions] :
              want = [p \in Orders |-> Allocate(asked[p], d[p])]
    BY <1>1 DEF Init
  <2>2. asked[o] \in Nat \ {0} /\ d[o] \in Distributions
    BY <1>1, <2>1, SizeAssumption DEF Init
  <2>3. want[o] = Allocate(asked[o], d[o])
    BY <2>1
  <2>4. QED
    BY <2>2, <2>3, PlansHaveTiers
<1>4. \A o \in Orders : Fresh(o) /\ AddsUp(o)
  BY <1>1 DEF Init, Fresh, AddsUp
<1>5. QED
  BY <1>2, <1>3, <1>4 DEF IInv

\* A step that leaves the progress of an order alone keeps its part.
LEMMA Untouched ==
  ASSUME NEW o \in Orders, Len(want[o]) \in Nat \ {0}, Fresh(o), AddsUp(o),
         want' = want, pc'[o] = pc[o], even'[o] = even[o], target'[o] = target[o],
         next'[o] = next[o], sent'[o] = sent[o]
  PROVE  Len(want'[o]) \in Nat \ {0} /\ Fresh(o)' /\ AddsUp(o)'
BY DEF Fresh, AddsUp, Handed, Base, Rest, EvenTiers, Tiers, Least

\* A step before the plan is made, whatever it changes for its order.
LEMMA StillFresh ==
  ASSUME NEW o \in Orders, Len(want[o]) \in Nat \ {0}, Fresh(o),
         pc[o] \in {"idle", "read", "plan"}, want' = want, even'[o] = even[o],
         next'[o] = next[o], sent'[o] = sent[o]
  PROVE  Len(want'[o]) \in Nat \ {0} /\ Fresh(o)' /\ AddsUp(o)'
BY DEF Fresh, AddsUp

LEMMA IInvNext == IInv /\ [Next]_vars => IInv'
<1>1. SUFFICES ASSUME IInv, [Next]_vars
               PROVE  IInv'
  OBVIOUS
<1>2. Shape /\ \A o \in Orders : Len(want[o]) \in Nat \ {0} /\ Fresh(o) /\ AddsUp(o)
  BY <1>1 DEF IInv
<1>3. ASSUME NEW o \in Orders, Fill(o)
      PROVE  IInv'
  <2>1. Shape'
    BY <1>2, <1>3 DEF Fill, Shape, plan, Phase
  <2>2. ASSUME NEW p \in Orders
        PROVE  Len(want'[p]) \in Nat \ {0} /\ Fresh(p)' /\ AddsUp(p)'
    <3>1. CASE p = o
      BY <1>2, <1>3, <3>1, StillFresh DEF Fill, plan, Shape
    <3>2. CASE p # o
      BY <1>2, <1>3, <3>2, Untouched DEF Fill, plan, Shape
    <3>3. QED
      BY <3>1, <3>2
  <2>3. QED
    BY <2>1, <2>2 DEF IInv
<1>4. ASSUME NEW o \in Orders, ReadExposure(o)
      PROVE  IInv'
  <2>1. /\ pc[o] = "read" /\ want' = want /\ even' = even /\ target' = target
        /\ next' = next /\ sent' = sent
        /\ \E ph \in Phase : pc' = [pc EXCEPT ![o] = ph]
    BY <1>4 DEF ReadExposure, plan, Phase
  <2>2. Shape'
    BY <1>2, <2>1 DEF Shape
  <2>3. ASSUME NEW p \in Orders
        PROVE  Len(want'[p]) \in Nat \ {0} /\ Fresh(p)' /\ AddsUp(p)'
    <3>1. CASE p = o
      BY <1>2, <2>1, <3>1, StillFresh
    <3>2. CASE p # o
      BY <1>2, <2>1, <3>2, Untouched DEF Shape
    <3>3. QED
      BY <3>1, <3>2
  <2>4. QED
    BY <2>2, <2>3 DEF IInv
<1>5. ASSUME NEW o \in Orders, MakePlan(o)
      PROVE  IInv'
  <2>1. Shape'
    BY <1>2, <1>5 DEF MakePlan, Shape, plan, Phase
  <2>2. ASSUME NEW p \in Orders
        PROVE  Len(want'[p]) \in Nat \ {0} /\ Fresh(p)' /\ AddsUp(p)'
    <3>1. CASE p = o
      <4>1. /\ pc[o] = "plan" /\ pc'[o] = "place" /\ next'[o] = 1 /\ sent'[o] = 0
            /\ want' = want
        BY <1>2, <1>5 DEF MakePlan, Shape, Fresh, plan
      <4>2. even'[o] => target'[o] \in Nat \ {0}
        BY <1>2, <1>5 DEF MakePlan, Shape
      <4>3. ASSUME even'[o]
            PROVE  AddsUp(o)'
        <5>1. EvenTiers(o)' \in Nat \ {0} /\ EvenTiers(o)' <= target'[o]
          BY <1>2, <4>1, <4>2, <4>3 DEF EvenTiers, Tiers, Least
        <5>2. Base(o)' \in Nat /\ Rest(o)' \in Nat
          <6>1. Base(o)' \in Nat /\ Rest(o)' \in 0..(EvenTiers(o)' - 1)
            BY <4>2, <4>3, <5>1, Division DEF Base, Rest
          <6>2. QED
            BY <5>1, <6>1, InNat
        <5>3. Handed(o, next[o] - 1)' = 0
          BY <4>1, <5>2 DEF Handed, Least
        <5>4. QED
          BY <4>1, <4>2, <4>3, <5>1, <5>3 DEF AddsUp
      <4>4. Fresh(o)' /\ (~even'[o] => AddsUp(o)') /\ Len(want'[o]) \in Nat \ {0}
        BY <1>2, <4>1 DEF Fresh, AddsUp
      <4>5. QED
        BY <3>1, <4>3, <4>4
    <3>2. CASE p # o
      BY <1>2, <1>5, <3>2, Untouched DEF MakePlan, plan, Shape
    <3>3. QED
      BY <3>1, <3>2
  <2>3. QED
    BY <2>1, <2>2 DEF IInv
<1>6. ASSUME NEW o \in Orders, SendTier(o)
      PROVE  IInv'
  <2>1. Shape'
    BY <1>2, <1>6 DEF SendTier, Shape, plan
  <2>2. ASSUME NEW p \in Orders
        PROVE  Len(want'[p]) \in Nat \ {0} /\ Fresh(p)' /\ AddsUp(p)'
    <3>1. CASE p = o
      <4>1. /\ pc[o] = "place" /\ pc' = pc /\ want' = want /\ even' = even
            /\ target' = target /\ next[o] <= Count(o)
            /\ next'[o] = next[o] + 1 /\ sent'[o] = sent[o] + Amount(o, next[o])
        BY <1>2, <1>6 DEF SendTier, Shape, plan
      <4>2. ASSUME even[o]
            PROVE  AddsUp(o)'
        <5>1. /\ target[o] \in Nat \ {0} /\ next[o] \in Nat \ {0}
              /\ next[o] <= EvenTiers(o) /\ sent[o] = Handed(o, next[o] - 1)
          BY <1>2, <4>1, <4>2 DEF AddsUp, Count, EvenTiers, Tiers, Least
        <5>2. EvenTiers(o) \in Nat \ {0}
          BY <1>2, <5>1 DEF EvenTiers, Tiers, Least
        <5>3. Base(o) \in Nat /\ Rest(o) \in Nat
          <6>1. Base(o) \in Nat /\ Rest(o) \in 0..(EvenTiers(o) - 1)
            BY <5>1, <5>2, Division DEF Base, Rest
          <6>2. QED
            BY <5>2, <6>1, InNat
        <5>4. Amount(o, next[o]) = Base(o) + (IF next[o] <= Rest(o) THEN 1 ELSE 0)
          BY <4>2 DEF Amount, EvenAmount, Base, Rest
        <5>5. Handed(o, next[o]) = Handed(o, next[o] - 1) + Amount(o, next[o])
          <6>1. next[o] * Base(o) + Least(next[o], Rest(o))
                  = (next[o] - 1) * Base(o) + Least(next[o] - 1, Rest(o))
                    + (Base(o) + (IF next[o] <= Rest(o) THEN 1 ELSE 0))
            BY <5>1, <5>3, OneMore
          <6>2. QED
            BY <5>4, <6>1 DEF Handed
        <5>6. /\ EvenTiers(o)' = EvenTiers(o) /\ Base(o)' = Base(o) /\ Rest(o)' = Rest(o)
          BY <4>1 DEF EvenTiers, Base, Rest, Tiers
        <5>7. Handed(o, next[o] - 1)' = Handed(o, next[o])
          BY <4>1, <5>1, <5>6 DEF Handed
        <5>8. QED
          BY <4>1, <5>1, <5>2, <5>5, <5>6, <5>7 DEF AddsUp
      <4>3. Fresh(o)' /\ (~even[o] => AddsUp(o)') /\ Len(want'[o]) \in Nat \ {0}
        BY <1>2, <4>1 DEF Fresh, AddsUp
      <4>4. QED
        BY <3>1, <4>2, <4>3
    <3>2. CASE p # o
      BY <1>2, <1>6, <3>2, Untouched DEF SendTier, plan, Shape
    <3>3. QED
      BY <3>1, <3>2
  <2>3. QED
    BY <2>1, <2>2 DEF IInv
<1>7. ASSUME NEW o \in Orders, Finish(o)
      PROVE  IInv'
  <2>1. Shape'
    BY <1>2, <1>7 DEF Finish, Shape, plan, Phase
  <2>2. ASSUME NEW p \in Orders
        PROVE  Len(want'[p]) \in Nat \ {0} /\ Fresh(p)' /\ AddsUp(p)'
    <3>1. CASE p = o
      <4>1. /\ pc[o] = "place" /\ pc'[o] = "done" /\ want' = want /\ even' = even
            /\ target' = target /\ next' = next /\ sent' = sent /\ next[o] > Count(o)
        BY <1>2, <1>7 DEF Finish, Shape, plan
      <4>2. ASSUME even[o]
            PROVE  AddsUp(o)'
        <5>1. /\ target[o] \in Nat \ {0} /\ next[o] \in 1..(EvenTiers(o) + 1)
              /\ next[o] > EvenTiers(o) /\ sent[o] = Handed(o, next[o] - 1)
          BY <1>2, <4>1, <4>2 DEF AddsUp, Count
        <5>2. EvenTiers(o) \in Nat \ {0}
          BY <1>2, <5>1 DEF EvenTiers, Tiers, Least
        <5>3. /\ EvenTiers(o)' = EvenTiers(o)
              /\ Handed(o, next[o] - 1)' = Handed(o, next[o] - 1)
          BY <4>1 DEF EvenTiers, Handed, Base, Rest, Tiers
        <5>4. QED
          BY <4>1, <5>1, <5>2, <5>3 DEF AddsUp
      <4>3. Fresh(o)' /\ (~even[o] => AddsUp(o)') /\ Len(want'[o]) \in Nat \ {0}
        BY <1>2, <4>1 DEF Fresh, AddsUp
      <4>4. QED
        BY <3>1, <4>2, <4>3
    <3>2. CASE p # o
      BY <1>2, <1>7, <3>2, Untouched DEF Finish, plan, Shape
    <3>3. QED
      BY <3>1, <3>2
  <2>3. QED
    BY <2>1, <2>2 DEF IInv
<1>8. CASE plan' = plan /\ work' = work
  <2>1. want' = want /\ pc' = pc /\ even' = even /\ target' = target
        /\ next' = next /\ sent' = sent
    BY <1>8 DEF plan, work
  <2>2. Shape'
    BY <1>2, <2>1 DEF Shape
  <2>3. QED
    BY <1>2, <2>1, <2>2, Untouched DEF IInv
<1>9. (\E t \in tps : TpFills(t)) \/ StopOut \/ vars' = vars => plan' = plan /\ work' = work
  BY DEF TpFills, StopOut, vars
<1>10. QED
  BY <1>1, <1>3, <1>4, <1>5, <1>6, <1>7, <1>8, <1>9 DEF Next, Protect

-----------------------------------------------------------------------------
\* P0-4: an even ladder hands out exactly the exposure it was made for, and no
\* tier is empty, for any orders, sizes, distributions and failures.
THEOREM LadderAddsUp == Spec => []LadderExact
<1>1. Init => IInv
  BY IInvInit
<1>2. IInv /\ [Next]_vars => IInv'
  BY IInvNext
<1>3. IInv => LadderExact
  BY Exact
<1>4. QED
  BY <1>1, <1>2, <1>3, PTL DEF Spec

\* The plan of TpSlCalculator gives away the amount it is made for, in tiers of
\* at least one contract, for any amount and any distribution.
THEOREM PlanAddsUp == Spec => []PlanExact
<1> DEFINE Asked == asked \in [Orders -> Sizes]
<1>1. Init => Asked
  BY DEF Init
<1>2. Asked /\ [Next]_vars => Asked'
  <2>1. [Next]_vars => asked' = asked
    BY DEF Next, Protect, Fill, ReadExposure, MakePlan, SendTier, Finish, TpFills, StopOut,
           vars, plan
  <2> QED
    BY <2>1
<1>3. Asked => PlanExact
  <2> SUFFICES ASSUME Asked, NEW o \in Orders, NEW s \in 1..asked[o], NEW d \in Distributions
               PROVE  /\ SumFunction(Allocate(s, d)) = s
                      /\ \A i \in DOMAIN Allocate(s, d) : Allocate(s, d)[i] >= 1
    BY DEF PlanExact
  <2>1. s \in Nat \ {0}
    BY SizeAssumption
  <2>2. Allocate(s, d) \in Seq(Nat \ {0}) /\ SumFunction(Allocate(s, d)) = s
    BY <2>1, PlansHaveTiers
  <2> QED
    BY <2>2
<1> QED
  BY <1>1, <1>2, <1>3, PTL DEF Spec

-----------------------------------------------------------------------------
(* The amounts on the exchange: what the books must say for TypeOK, and    *)
(* what a calm environment keeps for Covered.                              *)

TierType == [o : Orders, i : Nat, size : Nat \ {0}, left : Nat \ {0}]

\* What is left of a set of tiers, and what they were sent with.
Lefts(S) == SumFunction([t \in S |-> t.left])
Wholes(S) == SumFunction([t \in S |-> t.size])

Filled == SumFunction(filled)

\* No tier is there twice; none rests beyond what the foreign order leaves of
\* the position; what was sold is gone from the position.
Book ==
  /\ IsFiniteSet(tps) /\ tps \subseteq TierType
  /\ \A t \in tps : t.left <= t.size /\ t.i < next[t.o] /\ t.size <= Bound
  /\ \A s, t \in tps : s.o = t.o /\ s.i = t.i => s = t
  /\ Lefts(tps) = 0 \/ Lefts(tps) + foreign <= position
  /\ position <= Filled
  /\ position + Wholes(tps) <= Filled + Lefts(tps)

Sorts ==
  /\ asked \in [Orders -> Sizes] /\ want \in [Orders -> Seq(Nat \ {0})]
  /\ foreign \in Foreigns /\ calm \in Calms
  /\ filled \in [Orders -> 0..MaxFill] /\ position \in Nat
  /\ sawPos \in [Orders -> Unread..Bound]
  /\ sawPend \in [Orders -> Unread..(Bound + Max(Foreigns))]
  /\ target \in [Orders -> 0..Bound] /\ next \in [Orders -> Nat \ {0}]
  /\ sent \in [Orders -> Nat]
  /\ failed \in [Orders -> BOOLEAN] /\ skipped \in [Orders -> BOOLEAN]

\* The plans, made once.
Planned ==
  \A o \in Orders :
    /\ want[o] \in Seq(Nat \ {0}) /\ Total(o) = asked[o] /\ Tiers(o) \in 1..asked[o]

\* What the first n tiers were planned to be.
Part(o, n) == SumFunctionOnSet(want[o], 1..n)

\* A plan that is only scaled never sends more than its target.
Scales(o) ==
  /\ pc[o] = "idle" => filled[o] = 0 /\ sawPos[o] = Unread /\ sawPend[o] = Unread
  /\ pc[o] = "plan" => sawPos[o] # Unread /\ sawPend[o] # Unread
  /\ pc[o] \in {"place", "done"} /\ ~even[o] =>
      /\ next[o] \in 1..(Tiers(o) + 1)
      /\ sent[o] * Total(o) <= target[o] * Part(o, next[o] - 1)

\* What is left of the position to be covered.
Gap == position - foreign - Lefts(tps)

\* With one order at work at a time, what it read is still so.
InCalm(o) ==
  /\ Busy(o) => \A p \in Orders \ {o} : ~Busy(p)
  /\ pc[o] = "read" => sawPos[o] = Unread /\ sawPend[o] = Unread
  /\ pc[o] = "plan" => position = 0 \/ Gap = sawPos[o] - sawPend[o]
  /\ pc[o] = "place" => \/ position = 0
                        \/ (Gap = target[o] - sent[o] /\ even[o])
                        \/ (Gap <= 0 /\ ~even[o])

CalmInv ==
  calm =>
    /\ \A t \in tps : t.left = t.size
    /\ \A o \in Orders : InCalm(o)
    /\ (\A o \in Orders : ~Busy(o)) => position = 0 \/ Gap <= 0

-----------------------------------------------------------------------------
(* Sums over the tiers *)

LEMMA Summed ==
  /\ \A f : SumFunction(f) = SumOf(f, DOMAIN f)
  /\ \A f, S : SumFunctionOnSet(f, S) = SumOf(f, S)
BY DEF SumFunction, SumFunctionOnSet, FoldFunctionOnSet, SumOf, MapThenSumSet, MapThenFoldSet

LEMMA TierFacts ==
  ASSUME NEW t \in TierType
  PROVE  /\ t.o \in Orders /\ t.i \in Nat /\ t.size \in Nat \ {0} /\ t.left \in Nat \ {0}
BY DEF TierType

LEMMA LeftsNat ==
  ASSUME NEW S, IsFiniteSet(S), S \subseteq TierType
  PROVE  Lefts(S) \in Nat /\ Wholes(S) \in Nat
<1> DEFINE v == [t \in S |-> t.left]
           w == [t \in S |-> t.size]
<1>1. \A e \in S : v[e] \in Nat /\ w[e] \in Nat
  BY TierFacts
<1>2. Lefts(S) = SumOf(v, S) /\ Wholes(S) = SumOf(w, S)
  BY Summed DEF Lefts, Wholes
<1> HIDE DEF v, w
<1> QED
  BY <1>1, <1>2, SumNat

LEMMA LeftsWith ==
  ASSUME NEW S, IsFiniteSet(S), NEW x, x \notin S, S \cup {x} \subseteq TierType
  PROVE  /\ Lefts(S \cup {x}) = Lefts(S) + x.left
         /\ Wholes(S \cup {x}) = Wholes(S) + x.size
<1> DEFINE T == S \cup {x}
           v == [t \in S |-> t.left]
           w == [t \in S |-> t.size]
           vv == [t \in T |-> t.left]
           ww == [t \in T |-> t.size]
<1>1. /\ \A e \in S : v[e] \in Nat /\ vv[e] = v[e] /\ w[e] \in Nat /\ ww[e] = w[e]
      /\ \A e \in T : vv[e] \in Nat /\ ww[e] \in Nat
      /\ vv[x] = x.left /\ ww[x] = x.size
  BY TierFacts
<1>2. /\ Lefts(S) = SumOf(v, S) /\ Wholes(S) = SumOf(w, S)
      /\ Lefts(T) = SumOf(vv, S \cup {x}) /\ Wholes(T) = SumOf(ww, S \cup {x})
  BY Summed DEF Lefts, Wholes
<1> HIDE DEF v, w, vv, ww
<1>3. /\ SumOf(vv, S \cup {x}) = vv[x] + SumOf(vv, S)
      /\ SumOf(ww, S \cup {x}) = ww[x] + SumOf(ww, S)
  BY <1>1, SumWith
<1>4. SumOf(vv, S) = SumOf(v, S) /\ SumOf(ww, S) = SumOf(w, S)
  BY <1>1, SumSame
<1>5. Lefts(S) \in Nat /\ Wholes(S) \in Nat /\ x.left \in Nat /\ x.size \in Nat
  BY LeftsNat, TierFacts
<1> QED
  BY <1>1, <1>2, <1>3, <1>4, <1>5

LEMMA LeftsWithout ==
  ASSUME NEW S, IsFiniteSet(S), S \subseteq TierType, NEW x \in S
  PROVE  /\ IsFiniteSet(S \ {x})
         /\ Lefts(S \ {x}) \in Nat /\ Wholes(S \ {x}) \in Nat
         /\ x.left \in Nat \ {0} /\ x.size \in Nat \ {0}
         /\ Lefts(S) = Lefts(S \ {x}) + x.left
         /\ Wholes(S) = Wholes(S \ {x}) + x.size
<1>1. IsFiniteSet(S \ {x}) /\ (S \ {x}) \cup {x} = S /\ x \notin S \ {x}
  BY FS_Subset
<1> QED
  BY <1>1, LeftsWith, LeftsNat, TierFacts

\* Where nothing is partly filled, both sums are one.
LEMMA LeftsWhole ==
  ASSUME NEW S, IsFiniteSet(S), S \subseteq TierType, \A t \in S : t.left = t.size
  PROVE  Wholes(S) = Lefts(S)
<1> DEFINE v == [t \in S |-> t.left]
           w == [t \in S |-> t.size]
<1>1. v = w
  OBVIOUS
<1> QED
  BY <1>1 DEF Lefts, Wholes

LEMMA LeftsNone == Lefts({}) = 0 /\ Wholes({}) = 0
<1> DEFINE v == [t \in {} |-> t.left]
           w == [t \in {} |-> t.size]
<1>1. Lefts({}) = SumOf(v, {}) /\ Wholes({}) = SumOf(w, {})
  BY Summed DEF Lefts, Wholes
<1> HIDE DEF v, w
<1> QED
  BY <1>1, SumEmpty

LEMMA RestingIs == Resting = Lefts(tps) /\ Pending = Wholes(tps) + foreign
BY DEF Resting, Pending, Lefts, Wholes

-----------------------------------------------------------------------------
(* Numbers *)

LEMMA BoundNat ==
  /\ Bound \in Nat /\ Filled = SumOf(filled, DOMAIN filled)
  /\ Orders # {} => MaxFill <= Bound
<1>1. Cardinality(Orders) \in Nat /\ (Orders # {} => Cardinality(Orders) # 0)
  BY FiniteAssumption, FS_CardinalityType, FS_EmptySet
<1>2. MaxFill \in Nat
  BY SwitchAssumption
<1>3. \A m, c \in Nat : m * c \in Nat /\ (c # 0 => m <= m * c)
  OBVIOUS
<1> QED
  BY <1>1, <1>2, <1>3, Summed DEF Bound, Filled

LEMMA FilledIs ==
  ASSUME filled \in [Orders -> 0..MaxFill]
  PROVE  Filled \in Nat /\ Filled <= Bound
<1>1. \A o \in Orders : filled[o] \in Nat /\ filled[o] \in 0..MaxFill
  BY SwitchAssumption
<1>2. Filled = SumOf(filled, Orders) /\ MaxFill \in Nat /\ IsFiniteSet(Orders)
  BY BoundNat, SwitchAssumption, FiniteAssumption
<1> QED
  BY <1>1, <1>2, SumNat, SumBounded DEF Bound

\* An order that is filled adds its amount.
LEMMA FilledAdds ==
  ASSUME filled \in [Orders -> 0..MaxFill], NEW o \in Orders, filled[o] = 0,
         NEW q \in 0..MaxFill, filled' = [filled EXCEPT ![o] = q]
  PROVE  filled' \in [Orders -> 0..MaxFill] /\ (Filled)' = Filled + q
<1>1. \A p \in Orders : filled[p] \in Nat
  BY SwitchAssumption
<1>2. filled' \in [Orders -> 0..MaxFill] /\ filled'[o] = q /\ q \in Nat
  BY SwitchAssumption
<1>3. \A p \in Orders : filled'[p] \in Nat
  BY <1>2, SwitchAssumption
<1>4. \A p \in Orders \ {o} : filled'[p] = filled[p]
  OBVIOUS
<1>5. SumOf(filled', Orders) + filled[o] = SumOf(filled, Orders) + filled'[o]
  <2>1. \A p \in Orders : filled[p] \in Nat /\ filled'[p] \in Nat
    BY <1>1, <1>3
  <2>2. IsFiniteSet(Orders)
    BY FiniteAssumption
  <2> DEFINE w == filled'
  <2>3. /\ \A p \in Orders : filled[p] \in Nat /\ w[p] \in Nat
        /\ \A p \in Orders \ {o} : w[p] = filled[p]
    BY <1>4, <2>1
  <2> HIDE DEF w
  <2>4. SumOf(w, Orders) + filled[o] = SumOf(filled, Orders) + w[o]
    BY <2>2, <2>3, SumChanged
  <2> QED
    BY <2>4 DEF w
<1>6. Filled = SumOf(filled, Orders) /\ (Filled)' = SumOf(filled', Orders)
  BY <1>2, Summed DEF Filled
<1>7. SumOf(filled, Orders) \in Nat /\ SumOf(filled', Orders) \in Nat
  BY <1>1, <1>3, FiniteAssumption, SumNat
<1> QED
  BY <1>2, <1>5, <1>6, <1>7

\* The larger of a number and nothing.
LEMMA MaxZero ==
  ASSUME NEW x \in Int
  PROVE  Max({0, x}) = IF x > 0 THEN x ELSE 0
<1> DEFINE m == IF x > 0 THEN x ELSE 0
<1>1. m \in {0, x} /\ \A y \in {0, x} : m >= y
  OBVIOUS
<1>2. \A k \in {0, x} : (\A y \in {0, x} : k >= y) => k = m
  OBVIOUS
<1>3. Max({0, x}) \in {0, x} /\ \A y \in {0, x} : Max({0, x}) >= y
  <2>1. Max({0, x}) = CHOOSE k \in {0, x} : \A y \in {0, x} : k >= y
    BY DEF Max
  <2> HIDE DEF m
  <2> QED
    BY <1>1, <2>1
<1> QED
  BY <1>2, <1>3

\* The parts of a plan add up tier by tier, and never to more than the whole.
LEMMA PartIs ==
  ASSUME NEW o \in Orders, want[o] \in Seq(Nat \ {0})
  PROVE  /\ Tiers(o) \in Nat /\ Part(o, 0) = 0 /\ Part(o, Tiers(o)) = Total(o)
         /\ \A n \in 0..Tiers(o) : Part(o, n) \in Nat
         /\ \A i \in 1..Tiers(o) : /\ want[o][i] \in Nat \ {0}
                                   /\ Part(o, i) = Part(o, i - 1) + want[o][i]
<1> DEFINE v == want[o]
           n == Tiers(o)
<1>1. n \in Nat /\ DOMAIN v = 1..n /\ \A i \in 1..n : v[i] \in Nat \ {0}
  BY DEF Tiers
<1>2. \A k : Part(o, k) = SumOf(v, 1..k)
  BY Summed DEF Part
<1>3. Total(o) = SumOf(v, 1..n)
  BY <1>1, Summed DEF Total
<1> HIDE DEF n, v
<1>4. ASSUME NEW k \in 0..n
      PROVE  IsFiniteSet(1..k) /\ \A i \in 1..k : v[i] \in Nat
  <2>1. k \in Nat /\ \A i \in 1..k : i \in 1..n
    BY <1>1
  <2>2. k \in Int /\ 1 \in Int
    BY <2>1
  <2>3. IsFiniteSet(1..k)
    BY <2>2, FS_Interval
  <2> QED
    BY <1>1, <2>1, <2>3
<1>5. \A k \in 0..n : Part(o, k) \in Nat
  BY <1>2, <1>4, SumNat
<1>6. ASSUME NEW i \in 1..n
      PROVE  Part(o, i) = Part(o, i - 1) + v[i]
  <2>1. i - 1 \in 0..n /\ i \in 0..n /\ 1..i = (1..(i - 1)) \cup {i} /\ i \notin 1..(i - 1)
    BY <1>1
  <2>2. IsFiniteSet(1..(i - 1)) /\ \A j \in (1..(i - 1)) \cup {i} : v[j] \in Nat
    BY <1>4, <2>1
  <2>3. SumOf(v, (1..(i - 1)) \cup {i}) = v[i] + SumOf(v, 1..(i - 1))
    BY <2>1, <2>2, SumWith
  <2>4. Part(o, i) = v[i] + Part(o, i - 1)
    BY <1>2, <2>1, <2>3
  <2> QED
    BY <1>1, <1>5, <2>1, <2>4
<1>7. Part(o, 0) = 0
  <2>1. 1..0 = {}
    OBVIOUS
  <2> QED
    BY <1>2, <2>1, SumEmpty
<1> QED
  BY <1>1, <1>2, <1>3, <1>5, <1>6, <1>7 DEF n, v

LEMMA PartOfTotal ==
  ASSUME NEW o \in Orders, want[o] \in Seq(Nat \ {0}), NEW k \in 0..Tiers(o)
  PROVE  Part(o, k) <= Total(o)
<1> DEFINE n == Tiers(o)
           Good == {j \in 0..n : Part(o, n - j) <= Total(o)}
<1>1. /\ n \in Nat /\ Part(o, n) = Total(o) /\ Total(o) \in Nat
      /\ \A j \in 0..n : Part(o, j) \in Nat
      /\ \A i \in 1..n : want[o][i] \in Nat /\ Part(o, i) = Part(o, i - 1) + want[o][i]
  BY PartIs
<1> HIDE DEF n
<1>2. 0 \in Good
  BY <1>1
<1>3. ASSUME NEW j \in 1..n, j - 1 \in Good
      PROVE  j \in Good
  <2> DEFINE i == n - (j - 1)
  <2>1. i \in 1..n /\ i - 1 = n - j /\ n - j \in 0..n /\ j \in 0..n
    BY <1>1
  <2>2. Part(o, i) <= Total(o)
    BY <1>3
  <2>3. Part(o, i) = Part(o, n - j) + want[o][i] /\ Part(o, n - j) \in Nat /\ want[o][i] \in Nat
    BY <1>1, <2>1
  <2> HIDE DEF i
  <2> QED
    BY SMTT(20), <1>1, <2>1, <2>2, <2>3
<1> HIDE DEF Good
<1>4. \A j \in 0..n : j \in Good
  BY <1>1, <1>2, <1>3, UpToN
<1>5. n - k \in 0..n /\ n - (n - k) = k
  BY <1>1 DEF n
<1> QED
  BY <1>4, <1>5 DEF Good
-----------------------------------------------------------------------------
(* The books, change by change *)

\* A step of the exchange: the orders' own records stay.
OnlyExchange == plan' = plan /\ filled' = filled /\ work' = work

LEMMA UnmovedIs ==
  ASSUME OnlyExchange
  PROVE  /\ asked' = asked /\ want' = want /\ foreign' = foreign /\ calm' = calm
         /\ filled' = filled /\ pc' = pc /\ sawPos' = sawPos /\ sawPend' = sawPend
         /\ target' = target /\ even' = even /\ next' = next /\ sent' = sent
         /\ failed' = failed /\ skipped' = skipped
BY DEF OnlyExchange, plan, work

LEMMA BookNumbers ==
  ASSUME Book, Sorts
  PROVE  /\ Lefts(tps) \in Nat /\ Wholes(tps) \in Nat /\ position \in Nat /\ foreign \in Nat
         /\ Filled \in Nat /\ Filled <= Bound /\ Bound \in Nat
BY LeftsNat, FilledIs, BoundNat, SizeAssumption DEF Book, Sorts

\* No tier comes or goes; the position grows by what is filled.
LEMMA BookFills ==
  ASSUME Book, Sorts, NEW q \in Nat, tps' = tps, foreign' = foreign,
         \A p \in Orders : next'[p] \in Nat /\ next[p] <= next'[p],
         position' = position + q, (Filled)' = Filled + q
  PROVE  Book'
<1>1. /\ Lefts(tps) \in Nat /\ Wholes(tps) \in Nat /\ position \in Nat /\ foreign \in Nat
      /\ Filled \in Nat
  BY BookNumbers
<1>2. ASSUME NEW t \in tps
      PROVE  t.i < next'[t.o]
  <2>1. t.o \in Orders /\ t.i \in Nat /\ t.i < next[t.o] /\ next[t.o] \in Nat
    BY TierFacts DEF Book, Sorts
  <2> QED
    BY <2>1
<1>3. Bound' = Bound
  BY DEF Bound
<1> QED
  BY <1>1, <1>2, <1>3 DEF Book

LEMMA TiersStay ==
  ASSUME Book, Sorts, tps' = tps, foreign' = foreign, position' = position, filled' = filled,
         \A p \in Orders : next'[p] \in Nat /\ next[p] <= next'[p]
  PROVE  Book'
<1>1. Filled' = Filled /\ Filled \in Nat /\ position \in Nat
  BY BookNumbers DEF Filled
<1>2. position' = position + 0 /\ Filled' = Filled + 0
  BY <1>1
<1> QED
  BY <1>2, BookFills

\* A tier comes: there is room for it, and it is the next of its order.
LEMMA TierComes ==
  ASSUME Book, Sorts, NEW x \in TierType, x.left = x.size, x.i = next[x.o],
         Lefts(tps) + foreign + x.left <= position, tps' = tps \cup {x},
         foreign' = foreign, position' = position, filled' = filled,
         next' = [next EXCEPT ![x.o] = @ + 1]
  PROVE  Book' /\ Lefts(tps') = Lefts(tps) + x.left
<1>1. /\ Lefts(tps) \in Nat /\ Wholes(tps) \in Nat /\ position \in Nat /\ foreign \in Nat
      /\ Filled \in Nat /\ Filled <= Bound /\ Bound \in Nat
  BY BookNumbers
<1>2. x.o \in Orders /\ x.i \in Nat /\ x.size \in Nat \ {0} /\ x.left \in Nat \ {0}
  BY TierFacts
<1>3. ASSUME NEW t \in tps
      PROVE  /\ t.o \in Orders /\ t.i \in Nat /\ t.i < next[t.o] /\ t.i < next'[t.o]
             /\ t.left <= t.size /\ t.size <= Bound /\ ~(t.o = x.o /\ t.i = x.i)
  <2>1. /\ t.o \in Orders /\ t.i \in Nat /\ t.i < next[t.o] /\ next[t.o] \in Nat
        /\ t.left <= t.size /\ t.size <= Bound
    BY TierFacts DEF Book, Sorts
  <2>2. next'[t.o] = IF t.o = x.o THEN next[t.o] + 1 ELSE next[t.o]
    BY <2>1 DEF Sorts
  <2> QED
    BY <2>1, <2>2
<1>4. x \notin tps
  BY <1>3
<1>5. IsFiniteSet(tps) /\ tps \cup {x} \subseteq TierType
  BY DEF Book
<1>6. Lefts(tps') = Lefts(tps) + x.left /\ Wholes(tps') = Wholes(tps) + x.size
  BY <1>4, <1>5, LeftsWith
<1>7. IsFiniteSet(tps') /\ tps' \subseteq TierType
  BY <1>5, FS_AddElement
<1>8. \A t \in tps' : t.left <= t.size /\ t.i < next'[t.o] /\ t.size <= Bound
  <2>1. next'[x.o] = next[x.o] + 1 /\ x.i < next'[x.o] /\ x.size <= Bound
    <3>1. next \in [Orders -> Nat \ {0}]
      BY DEF Sorts
    <3>2. x.size <= Bound
      <4>1. position <= Filled
        BY DEF Book
      <4> QED
        BY <1>1, <1>2, <4>1
    <3> QED
      BY <1>2, <3>1, <3>2
  <2> QED
    BY <1>2, <1>3, <2>1
<1>9. \A s, t \in tps' : s.o = t.o /\ s.i = t.i => s = t
  BY <1>3 DEF Book
<1>10. /\ Lefts(tps') + foreign' <= position' /\ position' <= Filled'
       /\ position' + Wholes(tps') <= Filled' + Lefts(tps')
  <2>1. Filled' = Filled
    BY DEF Filled
  <2>2. position <= Filled /\ position + Wholes(tps) <= Filled + Lefts(tps)
    BY DEF Book
  <2> QED
    BY <1>1, <1>2, <1>6, <2>1, <2>2
<1> QED
  BY <1>6, <1>7, <1>8, <1>9, <1>10 DEF Book, Bound

\* A tier is filled and gone, or filled in part and cut down.
LEMMA TierSold ==
  ASSUME Book, Sorts, NEW t \in tps, NEW q \in 1..t.left, OnlyExchange,
         position' = position - q,
         tps' = (tps \ {t}) \cup (IF q = t.left THEN {} ELSE {[t EXCEPT !.left = @ - q]})
  PROVE  Book' /\ Lefts(tps') = Lefts(tps) - q /\ Lefts(tps) + foreign <= position
<1>1. /\ Lefts(tps) \in Nat /\ Wholes(tps) \in Nat /\ position \in Nat /\ foreign \in Nat
      /\ Filled \in Nat /\ Filled <= Bound /\ Bound \in Nat
  BY BookNumbers
<1> DEFINE S == tps \ {t}
           x == [t EXCEPT !.left = @ - q]
<1>2. /\ IsFiniteSet(S) /\ Lefts(S) \in Nat /\ Wholes(S) \in Nat
      /\ t.left \in Nat \ {0} /\ t.size \in Nat \ {0}
      /\ Lefts(tps) = Lefts(S) + t.left /\ Wholes(tps) = Wholes(S) + t.size
  BY LeftsWithout DEF Book
<1>3. q \in Nat \ {0} /\ q <= t.left
  BY <1>2
<1>4. Lefts(tps) + foreign <= position
  BY <1>1, <1>2 DEF Book
<1>5. S \subseteq TierType /\ t \in TierType
  BY DEF Book
<1>6. Filled' = Filled /\ Bound' = Bound /\ foreign' = foreign /\ next' = next
  BY UnmovedIs DEF Filled, Bound
<1>7. /\ position <= Filled /\ position + Wholes(tps) <= Filled + Lefts(tps)
      /\ t.left <= t.size /\ t.i < next[t.o] /\ t.size <= Bound
  BY DEF Book
<1>8. CASE q = t.left
  <2>1. tps' = S
    BY <1>8
  <2>2. Lefts(tps') = Lefts(tps) - q /\ Wholes(tps') = Wholes(tps) - t.size
    BY <1>2, <1>8, <2>1
  <2>3. /\ Lefts(tps') + foreign <= position' /\ position' <= Filled
        /\ position' + Wholes(tps') <= Filled + Lefts(tps')
    BY <1>1, <1>2, <1>3, <1>4, <1>7, <1>8, <2>2
  <2>4. /\ IsFiniteSet(tps') /\ tps' \subseteq TierType
        /\ \A s \in tps' : s.left <= s.size /\ s.i < next[s.o] /\ s.size <= Bound
        /\ \A s, u \in tps' : s.o = u.o /\ s.i = u.i => s = u
    BY <1>2, <1>5, <2>1 DEF Book
  <2> QED
    BY <1>4, <1>6, <2>2, <2>3, <2>4 DEF Book
<1>9. CASE q # t.left
  <2>1. tps' = S \cup {x}
    BY <1>9
  <2>2. x \in TierType /\ x.o = t.o /\ x.i = t.i /\ x.size = t.size /\ x.left = t.left - q
    <3>1. t.left - q \in Nat \ {0}
      BY <1>2, <1>3, <1>9
    <3> QED
      BY <1>5, <3>1 DEF TierType
  <2> HIDE DEF x
  <2>3. \A s \in S : ~(s.o = t.o /\ s.i = t.i)
    BY DEF Book
  <2>4. x \notin S
    BY <2>2, <2>3
  <2>5. Lefts(tps') = Lefts(S) + x.left /\ Wholes(tps') = Wholes(S) + x.size
    <3>1. S \cup {x} \subseteq TierType
      BY <1>5, <2>2
    <3> HIDE DEF S
    <3> QED
      BY <1>2, <2>1, <2>4, <3>1, LeftsWith
  <2>6. Lefts(tps') = Lefts(tps) - q /\ Wholes(tps') = Wholes(tps)
    BY <1>2, <1>3, <2>2, <2>5
  <2>7. /\ Lefts(tps') + foreign <= position' /\ position' <= Filled
        /\ position' + Wholes(tps') <= Filled + Lefts(tps')
    BY <1>1, <1>2, <1>3, <1>4, <1>7, <2>6
  <2>8. IsFiniteSet(tps') /\ tps' \subseteq TierType
    <3>1. S \cup {x} \subseteq TierType
      BY <1>5, <2>2
    <3> HIDE DEF S
    <3>2. IsFiniteSet(S \cup {x})
      BY <1>2, FS_AddElement
    <3> QED
      BY <2>1, <3>1, <3>2
  <2>9. \A s \in tps' : s.left <= s.size /\ s.i < next[s.o] /\ s.size <= Bound
    <3>1. x.left <= x.size /\ x.i < next[x.o] /\ x.size <= Bound
      BY <1>2, <1>3, <1>7, <2>2
    <3> QED
      BY <2>1, <3>1 DEF Book
  <2>10. \A s, u \in tps' : s.o = u.o /\ s.i = u.i => s = u
    BY <2>1, <2>2, <2>3 DEF Book
  <2> QED
    BY <1>4, <1>6, <2>6, <2>7, <2>8, <2>9, <2>10 DEF Book
<1> QED
  BY <1>8, <1>9

\* The position is closed and every tier with it.
LEMMA AllGone ==
  ASSUME Book, Sorts, OnlyExchange, position' = 0, tps' = {}
  PROVE  Book'
<1>1. Filled \in Nat /\ Filled' = Filled
  BY BookNumbers, UnmovedIs DEF Filled
<1>2. Lefts(tps') = 0 /\ Wholes(tps') = 0
  BY LeftsNone
<1>3. IsFiniteSet(tps')
  BY FS_EmptySet
<1> QED
  BY <1>1, <1>2, <1>3 DEF Book
-----------------------------------------------------------------------------
(* What a tier is *)

LEMMA EvenSend ==
  ASSUME IInv, NEW o \in Orders, even[o], pc[o] = "place", next[o] <= Count(o)
  PROVE  Amount(o, next[o]) \in Nat \ {0} /\ sent[o] + Amount(o, next[o]) <= target[o]
<1>1. /\ target[o] \in Nat \ {0} /\ next[o] \in Nat \ {0} /\ sent[o] = Handed(o, next[o] - 1)
      /\ Len(want[o]) \in Nat \ {0} /\ next[o] <= EvenTiers(o)
  BY DEF IInv, AddsUp, Count, EvenTiers, Tiers, Least
<1>2. EvenTiers(o) \in Nat \ {0} /\ EvenTiers(o) <= target[o]
  BY <1>1 DEF EvenTiers, Tiers, Least
<1>3. /\ Base(o) \in Nat /\ Rest(o) \in 0..(EvenTiers(o) - 1)
      /\ target[o] = EvenTiers(o) * Base(o) + Rest(o)
  BY <1>1, <1>2, Division DEF Base, Rest
<1>4. Rest(o) \in Nat
  BY <1>2, <1>3, InNat
<1>5. Amount(o, next[o]) = Base(o) + (IF next[o] <= Rest(o) THEN 1 ELSE 0)
  BY DEF Amount, EvenAmount, Base, Rest
<1>6. Base(o) # 0
  BY <1>2, <1>3
<1>7. next[o] * Base(o) + Least(next[o], Rest(o))
        = (next[o] - 1) * Base(o) + Least(next[o] - 1, Rest(o))
          + (Base(o) + (IF next[o] <= Rest(o) THEN 1 ELSE 0))
  BY <1>1, <1>3, <1>4, OneMore
<1>8. sent[o] + Amount(o, next[o]) = next[o] * Base(o) + Least(next[o], Rest(o))
  BY <1>1, <1>5, <1>7 DEF Handed
<1>9. next[o] * Base(o) + Least(next[o], Rest(o)) <= EvenTiers(o) * Base(o) + Rest(o)
  <2>1. next[o] \in 0..EvenTiers(o)
    BY <1>1, <1>2
  <2> QED
    BY <1>2, <1>3, <2>1, PartOfWhole
<1> QED
  BY <1>3, <1>4, <1>5, <1>6, <1>8, <1>9

LEMMA EvenDone ==
  ASSUME IInv, NEW o \in Orders, even[o], next[o] > Count(o)
  PROVE  sent[o] = target[o]
<1>1. /\ target[o] \in Nat \ {0} /\ next[o] \in 1..(EvenTiers(o) + 1)
      /\ sent[o] = Handed(o, next[o] - 1) /\ Len(want[o]) \in Nat \ {0}
      /\ next[o] > EvenTiers(o)
  BY DEF IInv, AddsUp, Count
<1>2. EvenTiers(o) \in Nat \ {0}
  BY <1>1 DEF EvenTiers, Tiers, Least
<1>3. /\ Base(o) \in Nat /\ Rest(o) \in 0..(EvenTiers(o) - 1)
      /\ target[o] = EvenTiers(o) * Base(o) + Rest(o)
  BY <1>1, <1>2, Division DEF Base, Rest
<1>4. next[o] - 1 = EvenTiers(o) /\ Least(EvenTiers(o), Rest(o)) = Rest(o)
  BY SMTT(20), <1>1, <1>2, <1>3 DEF Least
<1> QED
  BY <1>1, <1>3, <1>4 DEF Handed

\* A share rounded down, times the whole, is no more than what was shared.
LEMMA RoundedDown ==
  ASSUME NEW x \in Nat, NEW k \in Nat \ {0}
  PROVE  x \div k \in Nat /\ (x \div k) * k <= x
<1>1. x \div k \in Nat /\ x % k \in Nat /\ x = k * (x \div k) + (x % k)
  BY Division, InNat
<1> QED
  BY <1>1

LEMMA Distribute ==
  ASSUME NEW a \in Nat, NEW b \in Nat, NEW k \in Nat
  PROVE  (a + b) * k = a * k + b * k /\ k * (a + b) = k * a + k * b
OBVIOUS

LEMMA Products ==
  ASSUME NEW a \in Nat, NEW b \in Nat
  PROVE  a * b \in Nat /\ \A c \in Nat : b <= c => a * b <= a * c
OBVIOUS

LEMMA ScaledSend ==
  ASSUME Sorts, Planned, NEW o \in Orders, Scales(o), ~even[o], pc[o] = "place",
         next[o] <= Count(o)
  PROVE  /\ Amount(o, next[o]) \in Nat /\ next[o] + 1 \in 1..(Tiers(o) + 1)
         /\ (sent[o] + Amount(o, next[o])) * Total(o) <= target[o] * Part(o, next[o])
<1> DEFINE i == next[o]
           T == Total(o)
           a == Amount(o, next[o])
<1>1. /\ i \in 1..Tiers(o) /\ T \in Nat \ {0} /\ target[o] \in Nat /\ sent[o] \in Nat
      /\ sent[o] * T <= target[o] * Part(o, i - 1) /\ Tiers(o) \in Nat
      /\ want[o] \in Seq(Nat \ {0})
  <2>1. asked[o] \in Nat \ {0} /\ Total(o) = asked[o] /\ Tiers(o) \in 1..asked[o]
    BY SizeAssumption DEF Sorts, Planned
  <2> QED
    BY <2>1, BoundNat DEF Sorts, Planned, Scales, Count
<1>2. /\ Part(o, i - 1) \in Nat /\ want[o][i] \in Nat \ {0}
      /\ Part(o, i) = Part(o, i - 1) + want[o][i]
  <2>1. i - 1 \in 0..Tiers(o)
    BY <1>1
  <2> QED
    BY <1>1, <2>1, PartIs
<1>3. a = (want[o][i] * target[o]) \div T
  BY DEF Amount, Scaled
<1>4. want[o][i] * target[o] \in Nat
  BY <1>1, <1>2, Products
<1>5. a \in Nat /\ a * T <= want[o][i] * target[o]
  BY <1>1, <1>3, <1>4, RoundedDown
<1> HIDE DEF a, i, T
<1>6. (sent[o] + a) * T = sent[o] * T + a * T
  BY <1>1, <1>5, Distribute
<1>7. target[o] * (Part(o, i - 1) + want[o][i]) = target[o] * Part(o, i - 1) + target[o] * want[o][i]
  BY <1>1, <1>2, Distribute
<1>8. target[o] * want[o][i] = want[o][i] * target[o]
  BY <1>1, <1>2
<1>9. (sent[o] + a) * T <= target[o] * Part(o, i)
  <2>1. \A u, v, w, z \in Int : u <= w /\ v <= z => u + v <= w + z
    OBVIOUS
  <2>2. sent[o] * T \in Nat
    BY <1>1, Products
  <2>3. a * T \in Nat
    BY <1>1, <1>5, Products
  <2>4. target[o] * Part(o, i - 1) \in Nat
    BY <1>1, <1>2, Products
  <2> QED
    BY SMTT(20), <1>1, <1>2, <1>4, <1>5, <1>6, <1>7, <1>8, <2>1, <2>2, <2>3, <2>4
<1>10. i + 1 \in 1..(Tiers(o) + 1)
  BY <1>1
<1> QED
  BY <1>5, <1>9, <1>10 DEF a, i, T

\* What is only scaled stays within its target.
LEMMA ScaledWithin ==
  ASSUME Sorts, Planned, NEW o \in Orders, Scales(o), ~even[o], pc[o] \in {"place", "done"}
  PROVE  sent[o] <= target[o]
<1> DEFINE P == Part(o, next[o] - 1)
           T == Total(o)
<1>1. /\ T \in Nat \ {0} /\ target[o] \in Nat /\ sent[o] \in Nat /\ Tiers(o) \in Nat
      /\ next[o] - 1 \in 0..Tiers(o) /\ sent[o] * T <= target[o] * P
      /\ want[o] \in Seq(Nat \ {0})
  <2>1. asked[o] \in Nat \ {0} /\ Total(o) = asked[o] /\ Tiers(o) \in 1..asked[o]
    BY SizeAssumption DEF Sorts, Planned
  <2> QED
    BY <2>1, BoundNat DEF Sorts, Planned, Scales
<1>2. P \in Nat /\ P <= T
  BY <1>1, PartIs, PartOfTotal
<1> HIDE DEF P, T
<1>3. target[o] * P <= target[o] * T
  BY <1>1, <1>2, Products
<1>4. sent[o] * T <= target[o] * T
  <2>1. sent[o] * T \in Nat /\ target[o] * P \in Nat /\ target[o] * T \in Nat
    BY <1>1, <1>2, Products
  <2> QED
    BY <1>1, <1>3, <2>1
<1>5. \A x, y \in Nat, k \in Nat \ {0} : x * k <= y * k => x <= y
  OBVIOUS
<1> QED
  BY <1>1, <1>4, <1>5
-----------------------------------------------------------------------------
(* The amounts, action by action *)

AmountInv ==
  /\ IInv /\ Sorts /\ Planned /\ Book /\ (\A o \in Orders : Scales(o)) /\ CalmInv

LEMMA PlanStays ==
  ASSUME Planned, plan' = plan
  PROVE  /\ Planned' /\ asked' = asked /\ want' = want /\ foreign' = foreign /\ calm' = calm
         /\ \A o \in Orders : (Tiers(o))' = Tiers(o) /\ (Total(o))' = Total(o)
         /\ \A o, n : (Part(o, n))' = SumFunctionOnSet(want[o], 1..n)
BY DEF Planned, plan, Tiers, Total, Part

\* An order whose records stay keeps its part.
LEMMA ScalesStay ==
  ASSUME NEW p \in Orders, Scales(p), want' = want, filled'[p] = filled[p], pc'[p] = pc[p],
         sawPos'[p] = sawPos[p], sawPend'[p] = sawPend[p], even'[p] = even[p],
         next'[p] = next[p], sent'[p] = sent[p], target'[p] = target[p]
  PROVE  (Scales(p))'
<1>1. /\ (Tiers(p))' = Tiers(p) /\ (Total(p))' = Total(p)
      /\ (Part(p, next[p] - 1))' = Part(p, next[p] - 1)
  BY DEF Tiers, Total, Part
<1> QED
  BY <1>1 DEF Scales

LEMMA AmountFill ==
  ASSUME AmountInv, NEW o \in Orders, Fill(o)
  PROVE  Sorts' /\ Book' /\ (\A p \in Orders : (Scales(p))') /\ CalmInv'
<1>1. PICK q \in 1..Least(Total(o), MaxFill) :
            filled' = [filled EXCEPT ![o] = q] /\ position' = position + q
  BY DEF Fill
<1>2. /\ pc[o] = "idle" /\ pc' = [pc EXCEPT ![o] = "read"] /\ plan' = plan
      /\ tps' = tps /\ sawPos' = sawPos /\ sawPend' = sawPend /\ target' = target
      /\ even' = even /\ next' = next /\ sent' = sent /\ failed' = failed /\ skipped' = skipped
      /\ asked' = asked /\ want' = want /\ foreign' = foreign /\ calm' = calm
      /\ (calm => \A p \in Orders : ~Busy(p))
  BY DEF Fill, plan
<1>3. q \in Nat /\ q \in 0..MaxFill
  <2>1. Total(o) \in Nat /\ MaxFill \in Nat
    BY SizeAssumption, SwitchAssumption DEF AmountInv, Planned, Sorts
  <2> QED
    BY <2>1 DEF Least
<1>4. filled[o] = 0 /\ sawPos[o] = Unread /\ sawPend[o] = Unread
  BY <1>2 DEF AmountInv, Scales
<1>5. filled' \in [Orders -> 0..MaxFill] /\ Filled' = Filled + q
  BY <1>1, <1>3, <1>4, FilledAdds DEF AmountInv, Sorts
<1>6. Book'
  <2>1. \A p \in Orders : next'[p] \in Nat /\ next[p] <= next'[p]
    BY <1>2 DEF AmountInv, Sorts
  <2> QED
    BY <1>1, <1>2, <1>3, <1>5, <2>1, BookFills DEF AmountInv
<1>7. Sorts'
  <2>1. position' \in Nat
    BY <1>1, <1>3 DEF AmountInv, Sorts
  <2> QED
    BY <1>2, <1>5, <2>1 DEF AmountInv, Sorts, Bound
<1>8. pc \in [Orders -> Phase]
  BY DEF AmountInv, IInv, Shape
<1>9. ASSUME NEW p \in Orders
      PROVE  (Scales(p))'
  <2>1. CASE p = o
    <3>1. pc'[p] = "read"
      BY <1>2, <1>8, <2>1
    <3> QED
      BY <3>1 DEF Scales
  <2>2. CASE p # o
    <3>1. filled'[p] = filled[p] /\ pc'[p] = pc[p]
      BY <1>1, <1>2, <1>8, <2>2 DEF AmountInv, Sorts
    <3> QED
      BY <1>2, <3>1, ScalesStay DEF AmountInv
  <2> QED
    BY <2>1, <2>2
<1>10. ASSUME calm
       PROVE  CalmInv'
  <2>1. pc'[o] = "read" /\ \A p \in Orders \ {o} : pc'[p] = pc[p] /\ pc[p] \in {"idle", "done"}
    BY <1>2, <1>8, <1>10 DEF Busy
  <2>2. (Busy(o))' /\ \A p \in Orders \ {o} : ~(Busy(p))'
    BY <2>1 DEF Busy
  <2>3. \A p \in Orders : (InCalm(p))'
    BY <1>2, <1>4, <2>1, <2>2 DEF InCalm
  <2> QED
    BY <1>2, <1>10, <2>2, <2>3 DEF AmountInv, CalmInv
<1> QED
  BY <1>2, <1>6, <1>7, <1>9, <1>10 DEF CalmInv

LEMMA AmountRead ==
  ASSUME AmountInv, NEW o \in Orders, ReadExposure(o)
  PROVE  Sorts' /\ Book' /\ (\A p \in Orders : (Scales(p))') /\ CalmInv'
<1>1. PICK a \in PosAnswers(o), b \in PendAnswers :
        /\ \/ /\ sawPos[o] = Unread /\ sawPend[o] = Unread
              /\ sawPos' = [sawPos EXCEPT ![o] = a] /\ sawPend' = [sawPend EXCEPT ![o] = b]
           \/ /\ ~calm /\ sawPos[o] = Unread
              /\ sawPos' = [sawPos EXCEPT ![o] = a] /\ UNCHANGED sawPend
           \/ /\ ~calm /\ sawPend[o] = Unread
              /\ sawPend' = [sawPend EXCEPT ![o] = b] /\ UNCHANGED sawPos
        /\ pc' = [pc EXCEPT ![o] = IF Unread \in {sawPos'[o], sawPend'[o]}
                                   THEN "read" ELSE "plan"]
  BY DEF ReadExposure
<1>2. /\ pc[o] = "read" /\ filled' = filled /\ position' = position /\ plan' = plan
      /\ tps' = tps /\ target' = target
      /\ even' = even /\ next' = next /\ sent' = sent /\ failed' = failed /\ skipped' = skipped
      /\ asked' = asked /\ want' = want /\ foreign' = foreign /\ calm' = calm
  BY DEF ReadExposure, plan
<1>3. /\ Lefts(tps) \in Nat /\ Wholes(tps) \in Nat /\ position \in Nat /\ foreign \in Nat
      /\ Filled \in Nat /\ Filled <= Bound /\ Bound \in Nat /\ position <= Filled
      /\ position + Wholes(tps) <= Filled + Lefts(tps)
      /\ Lefts(tps) = 0 \/ Lefts(tps) + foreign <= position
  BY BookNumbers DEF AmountInv, Book
<1>4. foreign <= Max(Foreigns) /\ Max(Foreigns) \in Nat
  BY MaxIs, FiniteAssumption, SizeAssumption DEF AmountInv, Sorts
<1>5. a \in 0..Bound
  <2>1. filled[o] \in 0..MaxFill /\ MaxFill <= Bound /\ MaxFill \in Nat
    BY BoundNat, SwitchAssumption DEF AmountInv, Sorts
  <2> QED
    BY <1>3, <2>1 DEF PosAnswers
<1>6. b \in 0..(Bound + Max(Foreigns))
  <2>1. Pending = Wholes(tps) + foreign
    BY RestingIs
  <2> QED
    BY <1>3, <1>4, <2>1 DEF PendAnswers
<1>7. Book'
  <2>1. \A p \in Orders : next'[p] \in Nat /\ next[p] <= next'[p]
    BY <1>2 DEF AmountInv, Sorts
  <2> QED
    BY <1>2, <2>1, TiersStay DEF AmountInv
<1>8. /\ sawPos' \in [Orders -> Unread..Bound]
      /\ sawPend' \in [Orders -> Unread..(Bound + Max(Foreigns))]
      /\ \A p \in Orders \ {o} : sawPos'[p] = sawPos[p] /\ sawPend'[p] = sawPend[p]
  <2>1. a \in Unread..Bound /\ b \in Unread..(Bound + Max(Foreigns))
    BY <1>3, <1>4, <1>5, <1>6 DEF Unread
  <2> QED
    BY <1>1, <2>1 DEF AmountInv, Sorts
<1>9. Sorts'
  BY <1>2, <1>8 DEF AmountInv, Sorts, Bound
<1>10. pc \in [Orders -> Phase]
  BY DEF AmountInv, IInv, Shape
<1>11. /\ pc'[o] \in {"read", "plan"} /\ \A p \in Orders \ {o} : pc'[p] = pc[p]
       /\ pc'[o] = "plan" => sawPos'[o] # Unread /\ sawPend'[o] # Unread
  BY <1>1, <1>10
<1>12. ASSUME NEW p \in Orders
       PROVE  (Scales(p))'
  <2>1. CASE p = o
    BY <1>11, <2>1 DEF Scales
  <2>2. CASE p # o
    BY <1>2, <1>8, <1>11, <2>2, ScalesStay DEF AmountInv
  <2> QED
    BY <2>1, <2>2
<1>13. ASSUME calm
       PROVE  CalmInv'
  <2>1. /\ \A t \in tps : t.left = t.size
        /\ \A p \in Orders : InCalm(p)
        /\ Busy(o) /\ \A p \in Orders \ {o} : ~Busy(p)
    BY <1>2, <1>13 DEF AmountInv, CalmInv, InCalm, Busy
  <2>2. sawPos'[o] = a /\ sawPend'[o] = b /\ pc'[o] = "plan"
    <3>1. sawPos' = [sawPos EXCEPT ![o] = a] /\ sawPend' = [sawPend EXCEPT ![o] = b]
      BY <1>1, <1>2, <1>13, <2>1
    <3>2. sawPos'[o] = a /\ sawPend'[o] = b
      BY <3>1 DEF AmountInv, Sorts
    <3>3. a # Unread /\ b # Unread
      BY <1>3, <1>4, <1>5, <1>6 DEF Unread
    <3> QED
      BY <1>1, <1>10, <3>2, <3>3
  <2>3. position = 0 \/ a = position
    BY <1>13 DEF PosAnswers, Fails
  <2>4. b = Lefts(tps) + foreign
    <3>1. Wholes(tps) = Lefts(tps)
      BY <2>1, LeftsWhole DEF AmountInv, Book
    <3>2. Pending = Wholes(tps) + foreign
      BY RestingIs
    <3> QED
      BY <1>13, <3>1, <3>2 DEF PendAnswers, Fails
  <2>5. (Busy(o))' /\ \A p \in Orders \ {o} : ~(Busy(p))' /\ pc'[p] \in {"idle", "done"}
    BY <1>10, <1>11, <2>1, <2>2 DEF Busy
  <2>6. position' = 0 \/ Gap' = sawPos'[o] - sawPend'[o]
    BY <1>2, <1>3, <2>2, <2>3, <2>4 DEF Gap
  <2>7. \A p \in Orders : (InCalm(p))'
    BY <2>2, <2>5, <2>6 DEF InCalm
  <2> QED
    BY <1>2, <2>1, <2>5, <2>7 DEF CalmInv
<1> QED
  BY <1>2, <1>7, <1>9, <1>12, <1>13 DEF CalmInv

LEMMA CalmPlan ==
  ASSUME NEW o \in Orders, InCalm(o), pc[o] = "plan"
  PROVE  position = 0 \/ Gap = sawPos[o] - sawPend[o]
BY DEF InCalm

LEMMA CalmPlace ==
  ASSUME NEW o \in Orders, InCalm(o), pc[o] = "place"
  PROVE  \/ position = 0
         \/ (Gap = target[o] - sent[o] /\ even[o])
         \/ (Gap <= 0 /\ ~even[o])
BY DEF InCalm

LEMMA AmountPlan ==
  ASSUME AmountInv, NEW o \in Orders, MakePlan(o)
  PROVE  Sorts' /\ Book' /\ (\A p \in Orders : (Scales(p))') /\ CalmInv'
<1>1. /\ pc[o] = "plan" /\ pc' = [pc EXCEPT ![o] = "place"] /\ plan' = plan
      /\ filled' = filled /\ position' = position /\ tps' = tps /\ sawPos' = sawPos
      /\ sawPend' = sawPend /\ next' = next /\ sent' = sent /\ failed' = failed
      /\ asked' = asked /\ want' = want /\ foreign' = foreign /\ calm' = calm
  BY DEF MakePlan, plan
<1>2. PICK tg, e, k :
        /\ target' = [target EXCEPT ![o] = tg] /\ even' = [even EXCEPT ![o] = e]
        /\ skipped' = [skipped EXCEPT ![o] = k] /\ k \in BOOLEAN
        /\ \/ tg = Available(o) /\ Available(o) \in Nat \ {0} /\ e = TRUE
           \/ tg = filled[o] /\ Available(o) = 0 /\ e = FALSE
  <2>1. CASE Available(o) \in Nat \ {0} /\ skipped' = skipped
             /\ target' = [target EXCEPT ![o] = Available(o)]
             /\ even' = [even EXCEPT ![o] = TRUE]
    <3>1. skipped' = [skipped EXCEPT ![o] = skipped[o]] /\ skipped[o] \in BOOLEAN
      BY <2>1 DEF AmountInv, Sorts
    <3> QED
      BY <2>1, <3>1
  <2>2. CASE Available(o) = 0 /\ skipped' = [skipped EXCEPT ![o] = TRUE]
             /\ target' = [target EXCEPT ![o] = filled[o]]
             /\ even' = [even EXCEPT ![o] = FALSE]
    BY <2>2
  <2> QED
    BY <2>1, <2>2 DEF MakePlan
<1>3. /\ sawPos[o] \in 0..Bound /\ sawPend[o] \in Nat /\ Bound \in Nat
      /\ filled[o] \in 0..Bound
  <2>1. sawPos[o] # Unread /\ sawPend[o] # Unread
    BY <1>1 DEF AmountInv, Scales
  <2>2. /\ sawPos[o] \in Unread..Bound /\ sawPend[o] \in Unread..(Bound + Max(Foreigns))
        /\ filled[o] \in 0..MaxFill
    BY DEF AmountInv, Sorts
  <2>3. /\ Bound \in Nat /\ Max(Foreigns) \in Nat /\ MaxFill <= Bound /\ MaxFill \in Nat
    BY BoundNat, MaxIs, FiniteAssumption, SizeAssumption, SwitchAssumption DEF AmountInv, Sorts
  <2> QED
    BY <2>1, <2>2, <2>3 DEF Unread
<1>4. Available(o) = IF sawPos[o] - sawPend[o] > 0 THEN sawPos[o] - sawPend[o] ELSE 0
  <2>1. sawPos[o] - sawPend[o] \in Int
    BY <1>3
  <2> QED
    BY <2>1, MaxZero DEF Available
<1>5. tg \in 0..Bound
  BY <1>2, <1>3, <1>4
<1>6. Book'
  <2>1. \A p \in Orders : next'[p] \in Nat /\ next[p] <= next'[p]
    BY <1>1 DEF AmountInv, Sorts
  <2> QED
    BY <1>1, <2>1, TiersStay DEF AmountInv
<1>7. Sorts'
  <2>1. target' \in [Orders -> 0..Bound] /\ skipped' \in [Orders -> BOOLEAN]
    BY <1>2, <1>5 DEF AmountInv, Sorts
  <2> QED
    BY <1>1, <2>1 DEF AmountInv, Sorts, Bound
<1>8. pc \in [Orders -> Phase] /\ even \in [Orders -> BOOLEAN] /\ target \in [Orders -> 0..Bound]
  BY DEF AmountInv, IInv, Shape, Sorts
<1>9. /\ pc'[o] = "place" /\ target'[o] = tg /\ even'[o] = e /\ next'[o] = 1 /\ sent'[o] = 0
      /\ \A p \in Orders \ {o} : pc'[p] = pc[p] /\ target'[p] = target[p] /\ even'[p] = even[p]
  BY <1>1, <1>2, <1>8 DEF AmountInv, IInv, Fresh
<1>10. ASSUME NEW p \in Orders
       PROVE  (Scales(p))'
  <2>1. CASE p = o
    <3>1. Tiers(o)' = Tiers(o) /\ Total(o)' = Total(o) /\ Part(o, 0)' = Part(o, 0)
      BY <1>1 DEF Tiers, Total, Part
    <3>2. Part(o, 0) = 0 /\ Tiers(o) \in Nat
      BY PartIs DEF AmountInv, Planned
    <3>3. Total(o) \in Nat
      BY SizeAssumption DEF AmountInv, Planned, Sorts
    <3>4. next'[o] \in 1..(Tiers(o)' + 1)
      BY <1>9, <3>1, <3>2
    <3>5. (Part(o, next[o] - 1))' = 0
      BY <1>9, <3>1, <3>2
    <3>6. sent'[o] * Total(o)' <= target'[o] * (Part(o, next[o] - 1))'
      BY <1>3, <1>5, <1>9, <3>1, <3>3, <3>5
    <3> QED
      BY <1>9, <2>1, <3>4, <3>6 DEF Scales
  <2>2. CASE p # o
    BY <1>1, <1>9, <2>2, ScalesStay DEF AmountInv
  <2> QED
    BY <2>1, <2>2
<1>11. ASSUME calm
       PROVE  CalmInv'
  <2>1. /\ InCalm(o) /\ \A t \in tps : t.left = t.size
        /\ \A p \in Orders \ {o} : ~Busy(p)
    BY <1>1, <1>11 DEF AmountInv, CalmInv, InCalm, Busy
  <2>2. (Busy(o))' /\ \A p \in Orders \ {o} : ~(Busy(p))' /\ pc'[p] \in {"idle", "done"}
    BY <1>8, <1>9, <2>1 DEF Busy
  <2>3. Gap' = Gap /\ (position = 0 \/ Gap = sawPos[o] - sawPend[o])
    <3>1. position = 0 \/ Gap = sawPos[o] - sawPend[o]
      BY <1>1, <2>1, CalmPlan
    <3> QED
      BY <1>1, <3>1 DEF Gap
  <2>4. \/ position' = 0
        \/ Gap' = target'[o] - sent'[o] /\ even'[o]
        \/ Gap' <= 0 /\ ~even'[o]
    BY <1>1, <1>2, <1>3, <1>4, <1>9, <2>3
  <2>5. \A p \in Orders : (InCalm(p))'
    BY <1>9, <2>2, <2>4 DEF InCalm
  <2> QED
    BY <1>1, <2>1, <2>2, <2>5 DEF AmountInv, CalmInv
<1> QED
  BY <1>1, <1>6, <1>7, <1>10, <1>11 DEF CalmInv

LEMMA AmountSend ==
  ASSUME AmountInv, NEW o \in Orders, SendTier(o)
  PROVE  Sorts' /\ Book' /\ (\A p \in Orders : (Scales(p))') /\ CalmInv'
<1> DEFINE i == next[o]
           a == Amount(o, i)
           x == [o |-> o, i |-> i, size |-> a, left |-> a]
<1>1. /\ pc[o] = "place" /\ i <= Count(o) /\ plan' = plan /\ pc' = pc
      /\ filled' = filled /\ position' = position /\ sawPos' = sawPos
      /\ sawPend' = sawPend /\ target' = target /\ even' = even /\ skipped' = skipped
      /\ asked' = asked /\ want' = want /\ foreign' = foreign /\ calm' = calm
      /\ sent' = [sent EXCEPT ![o] = @ + a] /\ next' = [next EXCEPT ![o] = @ + 1]
  BY DEF SendTier, plan
<1>2. \/ Accepts(o, i) /\ tps' = tps \cup {x} /\ failed' = failed
      \/ (~Accepts(o, i) \/ Fails("place")) /\ failed' = [failed EXCEPT ![o] = TRUE] /\ tps' = tps
  BY DEF SendTier
<1>3. a \in Nat /\ i \in Nat \ {0} /\ sent[o] \in Nat
  <2>1. CASE even[o]
    BY <1>1, <2>1, EvenSend DEF AmountInv, Sorts
  <2>2. CASE ~even[o]
    BY <1>1, <2>2, ScaledSend DEF AmountInv, Sorts
  <2> QED
    BY <2>1, <2>2
<1>4. pc \in [Orders -> Phase] /\ even \in [Orders -> BOOLEAN]
  BY DEF AmountInv, IInv, Shape
<1> HIDE DEF a, i
<1>5. /\ sent'[o] = sent[o] + a /\ next'[o] = i + 1
      /\ sent' \in [Orders -> Nat] /\ next' \in [Orders -> Nat \ {0}]
      /\ \A p \in Orders \ {o} : sent'[p] = sent[p] /\ next'[p] = next[p]
  <2>1. next[o] + 1 \in Nat \ {0} /\ sent[o] + a \in Nat
    BY <1>3 DEF i
  <2> QED
    BY <1>1, <2>1 DEF i, AmountInv, Sorts
<1>6. /\ Lefts(tps) \in Nat /\ position \in Nat /\ foreign \in Nat
  BY BookNumbers DEF AmountInv
<1>7. ASSUME Accepts(o, i), tps' = tps \cup {x}
      PROVE  /\ Book' /\ Lefts(tps') = Lefts(tps) + a
             /\ a # 0 /\ Lefts(tps) + foreign + a <= position
             /\ \A t \in tps' : t \in tps \/ t.left = t.size
  <2>1. a # 0 /\ Lefts(tps) + foreign + a <= position
    BY <1>3, <1>7, RestingIs DEF Accepts, a
  <2>2. x \in TierType /\ x.left = x.size /\ x.i = next[x.o] /\ x.o = o /\ x.left = a
    BY <1>3, <2>1 DEF TierType, i
  <2> HIDE DEF x
  <2>3. Book' /\ Lefts(tps') = Lefts(tps) + a
    BY <1>1, <1>7, <2>1, <2>2, TierComes DEF AmountInv
  <2> QED
    BY <1>7, <2>1, <2>2, <2>3
<1>8. ASSUME tps' = tps
      PROVE  Book'
  <2>1. \A p \in Orders : next'[p] \in Nat /\ next[p] <= next'[p]
    <3>1. \A p \in Orders : next'[p] = next[p] \/ next'[p] = next[p] + 1
      BY <1>5 DEF i
    <3>2. \A p \in Orders : next[p] \in Nat /\ next'[p] \in Nat
      BY <1>5 DEF AmountInv, Sorts
    <3> QED
      BY <3>1, <3>2
  <2> QED
    BY <1>1, <1>8, <2>1, TiersStay DEF AmountInv
<1>9. Book'
  BY <1>2, <1>7, <1>8
<1>10. Sorts'
  <2>1. failed' \in [Orders -> BOOLEAN]
    BY <1>2 DEF AmountInv, Sorts
  <2> QED
    BY <1>1, <1>5, <2>1 DEF AmountInv, Sorts, Bound
<1>11. ASSUME NEW p \in Orders
       PROVE  (Scales(p))'
  <2>1. CASE p = o
    <3>1. CASE even[o]
      BY <1>1, <2>1, <3>1 DEF Scales
    <3>2. CASE ~even[o]
      <4>1. /\ i + 1 \in 1..(Tiers(o) + 1)
            /\ (sent[o] + a) * Total(o) <= target[o] * Part(o, i)
        BY <1>1, <3>2, ScaledSend DEF AmountInv, a, i
      <4>2. /\ Tiers(o)' = Tiers(o) /\ Total(o)' = Total(o) /\ Part(o, next'[o] - 1) = Part(o, i)
            /\ (Part(o, next[o] - 1))' = Part(o, i)
        <5>1. next'[o] - 1 = i
          BY <1>3, <1>5
        <5> QED
          BY <1>1, <5>1 DEF Tiers, Total, Part
      <4>3. next'[o] \in 1..(Tiers(o)' + 1)
        BY <1>5, <4>1, <4>2
      <4>4. sent'[o] * Total(o)' <= target'[o] * (Part(o, next[o] - 1))'
        BY <1>1, <1>5, <4>1, <4>2
      <4> QED
        BY <1>1, <2>1, <4>3, <4>4 DEF Scales
    <3> QED
      BY <3>1, <3>2
  <2>2. CASE p # o
    BY <1>1, <1>5, <2>2, ScalesStay DEF AmountInv
  <2> QED
    BY <2>1, <2>2
<1>12. ASSUME calm
       PROVE  CalmInv'
  <2>1. /\ InCalm(o) /\ \A t \in tps : t.left = t.size
        /\ Busy(o) /\ \A p \in Orders \ {o} : ~Busy(p)
    BY <1>1, <1>12 DEF AmountInv, CalmInv, InCalm, Busy
  <2>2. (Busy(o))' /\ \A p \in Orders \ {o} : ~(Busy(p))' /\ pc'[p] \in {"idle", "done"}
    BY <1>1, <1>4, <2>1 DEF Busy, Phase
  <2>3. ~Fails("place")
    BY <1>12 DEF Fails
  <2>4. \/ position = 0
        \/ (Gap = target[o] - sent[o] /\ even[o])
        \/ (Gap <= 0 /\ ~even[o])
    BY <1>1, <2>1, CalmPlace
  <2>5. CASE position = 0
    <3>1. position' = 0
      BY <1>1, <2>5
    <3>2. \A p \in Orders : (InCalm(p))'
      BY <1>1, <2>2, <3>1 DEF InCalm
    <3>3. \A t \in tps' : t.left = t.size
      BY <1>2, <1>7, <2>1
    <3> QED
      BY <1>1, <2>2, <3>2, <3>3 DEF CalmInv
  <2>6. CASE Gap = target[o] - sent[o] /\ even[o]
    <3>1. a \in Nat \ {0} /\ sent[o] + a <= target[o]
      BY <1>1, <2>6, EvenSend DEF AmountInv, a, i
    <3>2. target[o] \in Nat
      BY BoundNat DEF AmountInv, Sorts
    <3>3. Lefts(tps) + foreign + a <= position
      BY <1>3, <1>6, <2>6, <3>1, <3>2 DEF Gap
    <3>4. Accepts(o, i)
      BY <2>6, <3>1, <3>3, RestingIs DEF Accepts, Whole, a
    <3>5. Lefts(tps') = Lefts(tps) + a /\ \A t \in tps' : t.left = t.size
      BY <1>2, <1>7, <2>1, <2>3, <3>4
    <3>6. Gap' = target'[o] - sent'[o] /\ even'[o]
      BY <1>1, <1>3, <1>5, <1>6, <2>6, <3>1, <3>2, <3>5 DEF Gap
    <3>7. \A p \in Orders : (InCalm(p))'
      BY <1>1, <2>2, <3>6 DEF InCalm
    <3> QED
      BY <1>1, <2>2, <3>5, <3>7 DEF CalmInv
  <2>7. CASE Gap <= 0 /\ ~even[o]
    <3>1. tps' = tps
      <4>1. ASSUME Accepts(o, i), tps' = tps \cup {x}
            PROVE  FALSE
        BY <1>3, <1>6, <1>7, <2>7, <4>1 DEF Gap
      <4> QED
        BY <1>2, <4>1
    <3>2. Gap' <= 0 /\ ~even'[o]
      BY <1>1, <2>7, <3>1 DEF Gap
    <3>3. \A p \in Orders : (InCalm(p))'
      BY <1>1, <2>2, <3>2 DEF InCalm
    <3> QED
      BY <1>1, <2>1, <2>2, <3>1, <3>3 DEF CalmInv
  <2> QED
    BY <2>4, <2>5, <2>6, <2>7
<1> QED
  BY <1>1, <1>9, <1>10, <1>11, <1>12 DEF CalmInv

LEMMA AmountFinish ==
  ASSUME AmountInv, NEW o \in Orders, Finish(o)
  PROVE  Sorts' /\ Book' /\ (\A p \in Orders : (Scales(p))') /\ CalmInv'
<1>1. /\ pc[o] = "place" /\ next[o] > Count(o) /\ plan' = plan
      /\ pc' = [pc EXCEPT ![o] = "done"] /\ tps' = tps
      /\ filled' = filled /\ position' = position /\ sawPos' = sawPos
      /\ sawPend' = sawPend /\ target' = target /\ even' = even /\ skipped' = skipped
      /\ asked' = asked /\ want' = want /\ foreign' = foreign /\ calm' = calm
      /\ sent' = sent /\ next' = next /\ failed' = failed
  BY DEF Finish, plan
<1>2. pc \in [Orders -> Phase]
  BY DEF AmountInv, IInv, Shape
<1>3. Book'
  <2>1. \A p \in Orders : next'[p] \in Nat /\ next[p] <= next'[p]
    BY <1>1 DEF AmountInv, Sorts
  <2> QED
    BY <1>1, <2>1, TiersStay DEF AmountInv
<1>4. Sorts'
  BY <1>1 DEF AmountInv, Sorts, Bound
<1>5. pc'[o] = "done" /\ \A p \in Orders \ {o} : pc'[p] = pc[p]
  BY <1>1, <1>2
<1>6. ASSUME NEW p \in Orders
      PROVE  (Scales(p))'
  <2>1. CASE p = o
    <3>1. /\ Tiers(o)' = Tiers(o) /\ Total(o)' = Total(o)
          /\ (Part(o, next[o] - 1))' = Part(o, next[o] - 1)
      BY <1>1 DEF Tiers, Total, Part
    <3> QED
      BY <1>1, <1>5, <2>1, <3>1 DEF AmountInv, Scales
  <2>2. CASE p # o
    BY <1>1, <1>5, <2>2, ScalesStay DEF AmountInv
  <2> QED
    BY <2>1, <2>2
<1>7. ASSUME calm
      PROVE  CalmInv'
  <2>1. /\ \A t \in tps : t.left = t.size
        /\ InCalm(o)
        /\ \A p \in Orders \ {o} : ~Busy(p)
    BY <1>1, <1>7 DEF AmountInv, CalmInv, InCalm, Busy
  <2>2. \A p \in Orders : ~(Busy(p))' /\ pc'[p] \in {"idle", "done"}
    BY <1>2, <1>5, <2>1 DEF Busy
  <2>3. \/ position = 0
        \/ (Gap = target[o] - sent[o] /\ even[o])
        \/ (Gap <= 0 /\ ~even[o])
    BY <1>1, <2>1, CalmPlace
  <2>4. even[o] => sent[o] = target[o] /\ target[o] \in Nat
    BY <1>1, EvenDone, BoundNat DEF AmountInv, Sorts
  <2>5. position' = 0 \/ Gap' <= 0
    <3>1. Gap' = Gap
      BY <1>1 DEF Gap
    <3> QED
      BY <1>1, <2>3, <2>4, <3>1
  <2>6. \A p \in Orders : (InCalm(p))'
    BY <2>2 DEF InCalm
  <2> QED
    BY <1>1, <2>1, <2>5, <2>6 DEF CalmInv
<1> QED
  BY <1>1, <1>3, <1>4, <1>6, <1>7 DEF CalmInv

\* The exchange moves the position and the tiers together.
LEMMA AmountExchange ==
  ASSUME AmountInv, OnlyExchange, Book', position' \in Nat,
         calm => /\ \A t \in tps' : t.left = t.size
                 /\ position' = 0 \/ (position # 0 /\ Gap' = Gap)
  PROVE  Sorts' /\ Book' /\ (\A p \in Orders : (Scales(p))') /\ CalmInv'
<1>1. /\ asked' = asked /\ want' = want /\ foreign' = foreign /\ calm' = calm
      /\ filled' = filled /\ pc' = pc /\ sawPos' = sawPos /\ sawPend' = sawPend
      /\ target' = target /\ even' = even /\ next' = next /\ sent' = sent
      /\ failed' = failed /\ skipped' = skipped
  BY UnmovedIs
<1>2. Sorts'
  BY <1>1 DEF AmountInv, Sorts, Bound
<1>3. \A p \in Orders : (Scales(p))'
  BY <1>1, ScalesStay DEF AmountInv
<1>4. ASSUME calm
      PROVE  CalmInv'
  <2>1. position' = 0 \/ (position # 0 /\ Gap' = Gap)
    BY <1>4
  <2>2. \A p \in Orders : (Busy(p))' = Busy(p)
    BY <1>1 DEF Busy
  <2>3. ASSUME NEW p \in Orders
        PROVE  (InCalm(p))'
    <3>1. InCalm(p)
      BY <1>4 DEF AmountInv, CalmInv
    <3>2. pc[p] = "plan" => position = 0 \/ Gap = sawPos[p] - sawPend[p]
      BY <3>1, CalmPlan
    <3>3. pc[p] = "place" => \/ position = 0
                             \/ Gap = target[p] - sent[p] /\ even[p]
                             \/ Gap <= 0 /\ ~even[p]
      BY <3>1, CalmPlace
    <3>4. /\ Busy(p) => \A r \in Orders \ {p} : ~Busy(r)
          /\ pc[p] = "read" => sawPos[p] = Unread /\ sawPend[p] = Unread
      BY <3>1 DEF InCalm
    <3>5. pc'[p] = "plan" => position' = 0 \/ Gap' = sawPos'[p] - sawPend'[p]
      BY <1>1, <2>1, <3>2
    <3>6. pc'[p] = "place" => \/ position' = 0
                              \/ Gap' = target'[p] - sent'[p] /\ even'[p]
                              \/ Gap' <= 0 /\ ~even'[p]
      BY <1>1, <2>1, <3>3
    <3> QED
      BY <1>1, <2>2, <3>4, <3>5, <3>6 DEF InCalm
  <2>4. (\A p \in Orders : ~Busy(p)) => position' = 0 \/ Gap' <= 0
    BY <1>4, <2>1 DEF AmountInv, CalmInv
  <2> QED
    BY <1>4, <2>2, <2>3, <2>4 DEF CalmInv
<1> QED
  BY <1>1, <1>2, <1>3, <1>4 DEF CalmInv

LEMMA AmountSold ==
  ASSUME AmountInv, NEW t \in tps, TpFills(t)
  PROVE  Sorts' /\ Book' /\ (\A p \in Orders : (Scales(p))') /\ CalmInv'
<1>1. PICK q \in 1..t.left :
        /\ q = t.left \/ ~calm
        /\ position' = position - q
        /\ tps' = (tps \ {t}) \cup (IF q = t.left THEN {} ELSE {[t EXCEPT !.left = @ - q]})
  BY DEF TpFills
<1>2. OnlyExchange
  BY DEF TpFills, OnlyExchange
<1>3. /\ Lefts(tps) \in Nat /\ position \in Nat /\ foreign \in Nat
      /\ t.left \in Nat \ {0} /\ t.left <= Lefts(tps)
  <2>1. /\ t.left \in Nat \ {0} /\ Lefts(tps \ {t}) \in Nat
        /\ Lefts(tps) = Lefts(tps \ {t}) + t.left
    BY LeftsWithout DEF AmountInv, Book
  <2>2. Lefts(tps) \in Nat /\ position \in Nat /\ foreign \in Nat
    BY BookNumbers DEF AmountInv
  <2> QED
    BY <2>1, <2>2
<1>4. Book' /\ Lefts(tps') = Lefts(tps) - q /\ Lefts(tps) + foreign <= position
  BY <1>1, <1>2, TierSold DEF AmountInv
<1>5. position' \in Nat /\ position # 0
  BY <1>1, <1>3, <1>4
<1>6. ASSUME calm
      PROVE  (\A s \in tps' : s.left = s.size) /\ Gap' = Gap
  <2>1. \A s \in tps' : s \in tps
    BY <1>1, <1>6
  <2>2. Gap' = Gap
    BY <1>1, <1>2, <1>3, <1>4, UnmovedIs DEF Gap
  <2> QED
    BY <1>6, <2>1, <2>2 DEF AmountInv, CalmInv
<1> QED
  BY <1>2, <1>4, <1>5, <1>6, AmountExchange

LEMMA AmountStop ==
  ASSUME AmountInv, StopOut
  PROVE  Sorts' /\ Book' /\ (\A p \in Orders : (Scales(p))') /\ CalmInv'
<1>1. OnlyExchange /\ position' = 0 /\ tps' = {}
  BY DEF StopOut, OnlyExchange
<1>2. Book'
  BY <1>1, AllGone DEF AmountInv
<1>3. position' \in Nat /\ \A t \in tps' : t.left = t.size
  BY <1>1
<1>4. calm => /\ \A t \in tps' : t.left = t.size
              /\ position' = 0 \/ (position # 0 /\ Gap' = Gap)
  BY <1>1, <1>3
<1> QED
  BY <1>1, <1>2, <1>3, <1>4, AmountExchange

LEMMA AmountInvInit == Init => AmountInv
<1> SUFFICES ASSUME Init
             PROVE  AmountInv
  OBVIOUS
<1>1. IInv
  BY IInvInit
<1>2. Filled \in Nat /\ Bound \in Nat /\ Lefts(tps) = 0 /\ Wholes(tps) = 0
  <2>1. filled \in [Orders -> 0..MaxFill]
    BY SwitchAssumption DEF Init
  <2> QED
    BY <2>1, FilledIs, BoundNat, LeftsNone DEF Init
<1>3. Planned
  <2> SUFFICES ASSUME NEW o \in Orders
               PROVE  /\ want[o] \in Seq(Nat \ {0}) /\ Total(o) = asked[o]
                      /\ Tiers(o) \in 1..asked[o]
    BY DEF Planned
  <2>1. PICK d \in [Orders -> Distributions] :
              want = [p \in Orders |-> Allocate(asked[p], d[p])]
    BY DEF Init
  <2>2. asked[o] \in Nat \ {0} /\ d[o] \in Distributions
    BY <2>1, SizeAssumption DEF Init
  <2>3. want[o] = Allocate(asked[o], d[o])
    BY <2>1
  <2> QED
    BY <2>2, <2>3, PlansHaveTiers DEF Total, Tiers
<1>4. want \in [Orders -> Seq(Nat \ {0})]
  <2>1. PICK d \in [Orders -> Distributions] :
              want = [p \in Orders |-> Allocate(asked[p], d[p])]
    BY DEF Init
  <2> QED
    BY <1>3, <2>1 DEF Planned
<1>5. Sorts
  <2>1. Max(Foreigns) \in Nat
    BY MaxIs, FiniteAssumption, SizeAssumption DEF Init
  <2>2. Unread \in Unread..Bound /\ Unread \in Unread..(Bound + Max(Foreigns))
    BY <1>2, <2>1 DEF Unread
  <2> QED
    BY <1>2, <1>4, <2>2, SwitchAssumption DEF Init, Sorts
<1>8. Book
  <2>1. IsFiniteSet({})
    BY FS_EmptySet
  <2> QED
    BY <1>2, <2>1 DEF Init, Book
<1>6. \A o \in Orders : Scales(o)
  BY DEF Init, Scales
<1>7. CalmInv
  BY DEF Init, CalmInv, InCalm, Busy
<1> QED
  BY <1>1, <1>3, <1>5, <1>6, <1>7, <1>8 DEF AmountInv

LEMMA AmountInvNext == AmountInv /\ [Next]_vars => AmountInv'
<1> SUFFICES ASSUME AmountInv, [Next]_vars
             PROVE  AmountInv'
  OBVIOUS
<1>1. IInv'
  BY IInvNext DEF AmountInv
<1>2. Planned'
  <2>1. plan' = plan
    BY DEF Next, Protect, Fill, ReadExposure, MakePlan, SendTier, Finish, TpFills, StopOut, vars
  <2> QED
    BY <2>1, PlanStays DEF AmountInv
<1>3. CASE vars' = vars
  <2>1. tps' = tps /\ position' = position /\ OnlyExchange
    BY <1>3 DEF vars, OnlyExchange
  <2>2. /\ foreign' = foreign /\ filled' = filled
        /\ \A p \in Orders : next'[p] \in Nat /\ next[p] <= next'[p]
    BY <2>1, UnmovedIs DEF AmountInv, Sorts
  <2>3. Book'
    BY <2>1, <2>2, TiersStay DEF AmountInv
  <2>4. calm => /\ \A t \in tps' : t.left = t.size
                /\ position' = 0 \/ (position # 0 /\ Gap' = Gap)
    BY <2>1, <2>2 DEF AmountInv, CalmInv, Gap
  <2>5. position' \in Nat
    BY <2>1 DEF AmountInv, Sorts
  <2>6. Sorts' /\ (\A p \in Orders : (Scales(p))') /\ CalmInv'
    BY <2>1, <2>3, <2>4, <2>5, AmountExchange
  <2> QED
    BY <1>1, <1>2, <2>3, <2>6 DEF AmountInv
<1>4. CASE Next
  <2>1. Sorts' /\ Book' /\ (\A p \in Orders : (Scales(p))') /\ CalmInv'
    BY <1>4, AmountFill, AmountRead, AmountPlan, AmountSend, AmountFinish, AmountSold, AmountStop
       DEF Next, Protect
  <2> QED
    BY <1>1, <1>2, <2>1 DEF AmountInv
<1> QED
  BY <1>3, <1>4

\* What Covered says of these amounts.
LEMMA AmountCovers ==
  ASSUME AmountInv
  PROVE  Covered
<1> SUFFICES ASSUME calm, \A o \in Orders : ~Busy(o)
             PROVE  Resting = Max({0, position - foreign})
  BY DEF Covered
<1>1. /\ Lefts(tps) \in Nat /\ position \in Nat /\ foreign \in Nat
      /\ Lefts(tps) = 0 \/ Lefts(tps) + foreign <= position
      /\ Resting = Lefts(tps)
  BY BookNumbers, RestingIs DEF AmountInv, Book
<1>2. position = 0 \/ position - foreign - Lefts(tps) <= 0
  BY DEF AmountInv, CalmInv, Gap
<1>3. Max({0, position - foreign}) = IF position - foreign > 0 THEN position - foreign ELSE 0
  <2>1. position - foreign \in Int
    BY <1>1
  <2> QED
    BY <2>1, MaxZero
<1> QED
  BY <1>1, <1>2, <1>3

LEMMA AmountTypes ==
  ASSUME AmountInv
  PROVE  TypeOK
<1>1. /\ asked \in [Orders -> Sizes] /\ DOMAIN want = Orders
      /\ foreign \in Foreigns /\ calm \in Calms /\ filled \in [Orders -> 0..MaxFill]
      /\ sawPos \in [Orders -> Unread..Bound]
      /\ sawPend \in [Orders -> Unread..(Bound + Max(Foreigns))]
      /\ target \in [Orders -> 0..Bound] /\ next \in [Orders -> Nat \ {0}]
      /\ sent \in [Orders -> Nat]
      /\ failed \in [Orders -> BOOLEAN] /\ skipped \in [Orders -> BOOLEAN]
      /\ pc \in [Orders -> Phase] /\ even \in [Orders -> BOOLEAN]
  BY DEF AmountInv, Sorts, IInv, Shape
<1>2. ASSUME NEW o \in Orders
      PROVE  /\ asked[o] \in Nat \ {0} /\ asked[o] <= Max(Sizes) /\ Max(Sizes) \in Nat
             /\ want[o] \in Seq(Nat \ {0}) /\ Total(o) = asked[o] /\ Tiers(o) \in 1..asked[o]
  <2>1. asked[o] \in Sizes /\ IsFiniteSet(Sizes) /\ Sizes \subseteq Nat
    BY <1>1, SizeAssumption, FiniteAssumption
  <2>2. Max(Sizes) \in Sizes /\ asked[o] <= Max(Sizes)
    BY <2>1, MaxIs
  <2> QED
    BY <2>1, <2>2, SizeAssumption DEF AmountInv, Planned
<1>3. ASSUME NEW o \in Orders
      PROVE  want[o] \in Seq(1..Max(Sizes))
  <2>1. ASSUME NEW i \in 1..Tiers(o)
        PROVE  want[o][i] \in 1..Max(Sizes)
    <3> DEFINE v == want[o]
               S == 1..Tiers(o)
    <3>1. DOMAIN v = S /\ IsFiniteSet(S) /\ \A j \in S : v[j] \in Nat \ {0}
      <4>1. Tiers(o) \in Nat /\ Tiers(o) = Len(want[o])
        BY <1>2 DEF Tiers
      <4>2. IsFiniteSet(1..Tiers(o))
        <5>1. Tiers(o) \in Int /\ 1 \in Int
          BY <4>1
        <5> QED
          BY <5>1, FS_Interval
      <4> QED
        BY <1>2, <4>1, <4>2
    <3>2. Total(o) = SumOf(v, S)
      BY <3>1, Summed DEF Total
    <3> HIDE DEF v, S
    <3>3. v[i] <= SumOf(v, S)
      <4>1. i \in S /\ \A j \in S : v[j] \in Nat
        BY <3>1 DEF S
      <4> QED
        BY <3>1, <4>1, SumAtLeast
    <3>4. v[i] \in Nat \ {0}
      BY <3>1 DEF S
    <3> QED
      BY <1>2, <3>2, <3>3, <3>4 DEF v
  <2>2. Tiers(o) = Len(want[o])
    BY DEF Tiers
  <2> QED
    BY <1>2, <2>1, <2>2
<1>4. want \in [Orders -> Seq(1..Max(Sizes))]
  <2>1. want \in [Orders -> Seq(Nat \ {0})]
    BY DEF AmountInv, Sorts
  <2> QED
    BY <1>3, <2>1
<1>5. position \in 0..Bound /\ tps \subseteq Rests
  <2>1. position \in Nat /\ Filled \in Nat /\ Filled <= Bound /\ position <= Filled /\ Bound \in Nat
    BY BookNumbers DEF AmountInv, Book
  <2>2. ASSUME NEW t \in tps
        PROVE  t \in Rests
    <3>1. t \in TierType /\ t.left <= t.size /\ t.size <= Bound
      BY DEF AmountInv, Book
    <3>2. t.o \in Orders /\ t.i \in Nat /\ t.size \in 1..Bound /\ t.left \in 1..Bound
      BY <2>1, <3>1, TierFacts
    <3>3. t = [o |-> t.o, i |-> t.i, size |-> t.size, left |-> t.left]
      BY <3>1 DEF TierType
    <3> QED
      BY <3>2, <3>3 DEF Rests
  <2> QED
    BY <2>1, <2>2
<1>6. ASSUME NEW o \in Orders
      PROVE  next[o] \in 1..(Max(Sizes) + 1) /\ sent[o] \in 0..Bound
  <2>1. /\ Bound \in Nat /\ target[o] \in 0..Bound /\ sent[o] \in Nat /\ Max(Sizes) \in Nat
        /\ Tiers(o) \in Nat /\ Tiers(o) <= Max(Sizes) /\ next[o] \in Nat
    BY <1>1, <1>2, BoundNat
  <2>2. CASE even[o]
    <3>1. next[o] \in 1..(EvenTiers(o) + 1)
      BY <2>2 DEF AmountInv, IInv, AddsUp
    <3>2. EvenTiers(o) \in Nat /\ EvenTiers(o) <= Tiers(o)
      BY <2>1 DEF EvenTiers, Least
    <3>3. sent[o] <= target[o]
      BY <2>2, Exact DEF AmountInv, LadderExact
    <3> QED
      BY <2>1, <3>1, <3>2, <3>3
  <2>3. CASE ~even[o] /\ pc[o] \in {"place", "done"}
    <3>1. next[o] \in 1..(Tiers(o) + 1)
      BY <2>3 DEF AmountInv, Scales
    <3>2. sent[o] <= target[o]
      BY <2>3, ScaledWithin DEF AmountInv
    <3> QED
      BY <2>1, <3>1, <3>2
  <2>4. CASE pc[o] \in {"idle", "read", "plan"}
    <3>1. next[o] = 1 /\ sent[o] = 0
      BY <2>4 DEF AmountInv, IInv, Fresh
    <3> QED
      BY <2>1, <3>1
  <2> QED
    BY <1>1, <2>2, <2>3, <2>4 DEF Phase
<1>7. /\ next \in [Orders -> 1..Max(Sizes) + 1] /\ sent \in [Orders -> 0..Bound]
  BY <1>1, <1>6
<1> QED
  BY <1>1, <1>4, <1>5, <1>7 DEF TypeOK

-----------------------------------------------------------------------------
\* P0-3 and P0-4 lose no contract: with a quiet environment, the tiers that rest
\* once every fill is answered cover what the foreign order leaves of the position.
THEOREM LadderCovers == Spec => []Covered
<1>1. Init => AmountInv
  BY AmountInvInit
<1>2. AmountInv /\ [Next]_vars => AmountInv'
  BY AmountInvNext
<1>3. AmountInv => Covered
  BY AmountCovers
<1> QED
  BY <1>1, <1>2, <1>3, PTL DEF Spec

\* Type correctness, with the bounds: no order sends, plans or reads more than
\* all orders together can be filled with, and no tier exceeds it.
THEOREM LadderTypes == Spec => []TypeOK
<1>1. Init => AmountInv
  BY AmountInvInit
<1>2. AmountInv /\ [Next]_vars => AmountInv'
  BY AmountInvNext
<1>3. AmountInv => TypeOK
  BY AmountTypes
<1> QED
  BY <1>1, <1>2, <1>3, PTL DEF Spec

=============================================================================
