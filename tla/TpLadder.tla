------------------------------- MODULE TpLadder -------------------------------
(***************************************************************************)
(* The amounts of the take-profit ladder.  TpSlCalculator splits the       *)
(* requested amount of an entry order over its targets before it is sent;  *)
(* ProtectionPipeline.placeProtections cuts that plan down when the order  *)
(* is filled: to the filled amount (P0-2), to the net exposure the         *)
(* exchange reports (P0-3) and to whole contracts (P0-4), and sends the    *)
(* tiers one by one as reduce-only orders.  Several entry orders share one *)
(* position per symbol, so the ladder of one is measured against the       *)
(* ladders of the others.  EntryOrder decides whether this runs at all     *)
(* (its PlaceTps); here it is how much is sent.  Amounts are whole         *)
(* contracts; the position is long.                                        *)
(***************************************************************************)
EXTENDS Integers, Sequences, FiniteSetsExt, Functions

CONSTANTS
  Orders,        \* entry orders on one symbol
  Sizes,         \* requested amounts
  Distributions, \* tpDistribution in percent, sequences that sum to 100
  Foreigns,      \* amounts of a resting sell order of somebody else
  Calms,         \* BOOLEANs calm may take: does the environment keep quiet?
  Faults,        \* calls that may fail, see FaultKinds
  MaxFill        \* bound of the filled amounts

\* positions, openOrders : the query fails and returns an empty list
\* place : the exchange refuses a tier
FaultKinds == {"positions", "openOrders", "place"}

ASSUME SizeAssumption == Sizes \subseteq Nat \ {0} /\ Foreigns \subseteq Nat
ASSUME FiniteAssumption ==
  IsFiniteSet(Orders) /\ IsFiniteSet(Sizes) /\ IsFiniteSet(Foreigns)
ASSUME DistributionAssumption ==
  \A d \in Distributions : d \in Seq(Nat) /\ d # << >>
ASSUME SwitchAssumption ==
  /\ Calms \subseteq BOOLEAN /\ Faults \subseteq FaultKinds /\ MaxFill \in Nat

VARIABLES
  asked,     \* requested amount of each order
  want,      \* tpOrders of each order, planned on the requested amount
  foreign,   \* the foreign sell order, constant
  calm,      \* constant: fills come one at a time, both queries of P0-3 see
             \* one moment, tiers are filled whole and no call fails
  filled,    \* filled amount of each order, 0 before the fill
  position,  \* net position on the exchange
  tps,       \* resting tiers: order, index, original size, what is left
  pc,        \* progress of placeProtections for each order
  sawPos, sawPend,  \* what P0-3 read: position, pending amount
  target,    \* amount the ladder is made for
  even,      \* P0-4 divided the target into whole contracts
  next,      \* next tier to send
  sent,      \* amount sent to the exchange so far (history)
  failed, skipped   \* tpFailed and tpSkippedDueToExposure

plan == <<asked, want, foreign, calm>>
work == <<pc, sawPos, sawPend, target, even, next, sent, failed, skipped>>
vars == <<plan, filled, position, tps, work>>

-----------------------------------------------------------------------------
(* TpSlCalculator *)

Least(a, b) == IF a < b THEN a ELSE b

\* Math.round(total * percent).
Share(total, percent) == (2 * total * percent + 100) \div 200

\* One tier only when the smallest share is less than a contract.
NumTps(total, d) ==
  IF \E i \in DOMAIN d : total * d[i] < 100 THEN 1 ELSE Len(d)

\* Mutant: a share is not capped by what is left.
RemainingUncapped(total, d) ==
  LET n == NumTps(total, d)
      left[i \in 0..n] ==
        IF i = 0 THEN total
        ELSE IF i = n THEN 0
        ELSE left[i - 1] - Share(total, d[i])
  IN  left

\* What is left after the first i tiers; the last one takes the rest.
Remaining(total, d) ==
  LET n == NumTps(total, d)
      left[i \in 0..n] ==
        IF i = 0 THEN total
        ELSE IF i = n THEN 0
        ELSE left[i - 1] - Least(Share(total, d[i]), left[i - 1])
  IN  left

\* Tier by tier; those without an amount are left out of tpOrders.
Allocate(total, d) ==
  LET n == NumTps(total, d)
      left == Remaining(total, d)
      tpOrders[i \in 0..n] ==
        IF i = 0 THEN << >>
        ELSE IF left[i - 1] - left[i] <= 0 THEN tpOrders[i - 1]
        ELSE Append(tpOrders[i - 1], left[i - 1] - left[i])
  IN  tpOrders[n]

Total(o) == SumFunction(want[o])
Tiers(o) == Len(want[o])

-----------------------------------------------------------------------------
Phase == {"idle", "read", "plan", "place", "done"}

\* Nothing read yet.
Unread == -1

Bound   == MaxFill * Cardinality(Orders)
Rests   == [o : Orders, i : Nat, size : 1..Bound, left : 1..Bound]

TypeOK ==
  /\ asked \in [Orders -> Sizes] /\ want \in [Orders -> Seq(1..Max(Sizes))]
  /\ foreign \in Foreigns /\ calm \in Calms
  /\ filled \in [Orders -> 0..MaxFill] /\ position \in 0..Bound
  /\ tps \subseteq Rests
  /\ pc \in [Orders -> Phase]
  /\ sawPos \in [Orders -> Unread..Bound]
  /\ sawPend \in [Orders -> Unread..(Bound + Max(Foreigns))]
  /\ target \in [Orders -> 0..Bound]
  /\ even \in [Orders -> BOOLEAN] /\ next \in [Orders -> 1..Max(Sizes) + 1]
  /\ sent \in [Orders -> 0..Bound]
  /\ failed \in [Orders -> BOOLEAN] /\ skipped \in [Orders -> BOOLEAN]

Init ==
  /\ asked \in [Orders -> Sizes]
  /\ \E d \in [Orders -> Distributions] :
       want = [o \in Orders |-> Allocate(asked[o], d[o])]
  /\ foreign \in Foreigns /\ calm \in Calms
  /\ filled = [o \in Orders |-> 0] /\ position = 0 /\ tps = {}
  /\ pc = [o \in Orders |-> "idle"]
  /\ sawPos = [o \in Orders |-> Unread] /\ sawPend = [o \in Orders |-> Unread]
  /\ target = [o \in Orders |-> 0] /\ even = [o \in Orders |-> FALSE]
  /\ next = [o \in Orders |-> 1] /\ sent = [o \in Orders |-> 0]
  /\ failed = [o \in Orders |-> FALSE] /\ skipped = [o \in Orders |-> FALSE]

-----------------------------------------------------------------------------
(* placeProtections *)

Busy(o) == pc[o] \notin {"idle", "done"}

Fails(call) == ~calm /\ call \in Faults

\* The entry order is filled, wholly or in part, and its claim is won.
Fill(o) ==
  /\ pc[o] = "idle"
  /\ ~calm \/ \A p \in Orders : ~Busy(p)
  /\ \E q \in 1..Least(Total(o), MaxFill) :
       /\ filled' = [filled EXCEPT ![o] = q]
       /\ position' = position + q
  /\ pc' = [pc EXCEPT ![o] = "read"]
  /\ UNCHANGED <<plan, tps, sawPos, sawPend, target, even, next, sent, failed, skipped>>

\* getOpenOrders reports the size of an order, not what is left of it.
Pending == SumFunction([t \in tps |-> t.size]) + foreign
Resting == SumFunction([t \in tps |-> t.left])

\* Without a position in the answer the filled amount stands for it; a flat
\* position is answered as zero or left out.
PosAnswers(o) == {position} \cup
  (IF position = 0 \/ Fails("positions") THEN {filled[o]} ELSE {})
PendAnswers   == {Pending} \cup (IF Fails("openOrders") THEN {0} ELSE {})

\* Both queries are sent at once; together they see one moment or two.
ReadExposure(o) ==
  /\ pc[o] = "read"
  /\ \E a \in PosAnswers(o), b \in PendAnswers :
       /\ \/ /\ sawPos[o] = Unread /\ sawPend[o] = Unread
             /\ sawPos' = [sawPos EXCEPT ![o] = a] /\ sawPend' = [sawPend EXCEPT ![o] = b]
          \/ /\ ~calm /\ sawPos[o] = Unread
             /\ sawPos' = [sawPos EXCEPT ![o] = a] /\ UNCHANGED sawPend
          \/ /\ ~calm /\ sawPend[o] = Unread
             /\ sawPend' = [sawPend EXCEPT ![o] = b] /\ UNCHANGED sawPos
       /\ pc' = [pc EXCEPT ![o] = IF Unread \in {sawPos'[o], sawPend'[o]}
                                  THEN "read" ELSE "plan"]
  /\ UNCHANGED <<plan, filled, position, tps, target, even, next, sent, failed, skipped>>

\* The net exposure, P0-3.
Available(o) == Max({0, sawPos[o] - sawPend[o]})

\* P0-2, P0-3 and P0-4.  Without exposure the plan is marked as skipped, and
\* P0-4, which works on the exposure, leaves it as P0-2 made it.
MakePlan(o) ==
  /\ pc[o] = "plan"
  /\ \/ /\ Available(o) \in Nat \ {0}
        /\ target' = [target EXCEPT ![o] = Available(o)]
        /\ even' = [even EXCEPT ![o] = TRUE] /\ UNCHANGED skipped
     \/ /\ Available(o) = 0
        /\ target' = [target EXCEPT ![o] = filled[o]]
        /\ even' = [even EXCEPT ![o] = FALSE]
        /\ skipped' = [skipped EXCEPT ![o] = TRUE]
  /\ pc' = [pc EXCEPT ![o] = "place"]
  /\ UNCHANGED <<plan, filled, position, tps, sawPos, sawPend, next, sent, failed>>

\* Tiers of an even ladder, and their amounts.
EvenTiers(o) == Least(Tiers(o), target[o])

\* Mutants: the remainder is not handed out, or to every tier.
EvenAmountFloor(o, i) == target[o] \div EvenTiers(o)
EvenAmountCeil(o, i)  == target[o] \div EvenTiers(o) + 1

EvenAmount(o, i) ==
  target[o] \div EvenTiers(o) + (IF i <= target[o] % EvenTiers(o) THEN 1 ELSE 0)

\* A plan that is only scaled keeps its shape and may be fractional.
Scaled(o, i) == want[o][i] * target[o]

Count(o)     == IF even[o] THEN EvenTiers(o) ELSE Tiers(o)
Amount(o, i) == IF even[o] THEN EvenAmount(o, i) ELSE Scaled(o, i) \div Total(o)
Whole(o, i)  == even[o] \/ (Scaled(o, i) % Total(o) = 0)

\* The exchange refuses fractions and what exceeds the position.
Accepts(o, i) ==
  /\ Whole(o, i) /\ Amount(o, i) > 0
  /\ Resting + foreign + Amount(o, i) <= position

SendTier(o) ==
  LET i == next[o] IN
  /\ pc[o] = "place" /\ i <= Count(o)
  /\ \/ /\ Accepts(o, i)
        /\ tps' = tps \cup {[o |-> o, i |-> i, size |-> Amount(o, i), left |-> Amount(o, i)]}
        /\ UNCHANGED failed
     \/ /\ ~Accepts(o, i) \/ Fails("place")
        /\ failed' = [failed EXCEPT ![o] = TRUE] /\ UNCHANGED tps
  /\ sent' = [sent EXCEPT ![o] = @ + Amount(o, i)]
  /\ next' = [next EXCEPT ![o] = @ + 1]
  /\ UNCHANGED <<plan, filled, position, pc, sawPos, sawPend, target, even, skipped>>

\* tpPlaced is ~failed /\ ~skipped.
Finish(o) ==
  /\ pc[o] = "place" /\ next[o] > Count(o)
  /\ pc' = [pc EXCEPT ![o] = "done"]
  /\ UNCHANGED <<plan, filled, position, tps, sawPos, sawPend, target, even, next, sent,
                 failed, skipped>>

-----------------------------------------------------------------------------
(* The exchange *)

\* A tier is filled, wholly or in part.
TpFills(t) ==
  /\ \E q \in 1..t.left :
       /\ q = t.left \/ ~calm
       /\ position' = position - q
       /\ tps' = (tps \ {t}) \cup (IF q = t.left THEN {} ELSE {[t EXCEPT !.left = @ - q]})
  /\ UNCHANGED <<plan, filled, work>>

\* The stop loss closes the position, and with it its reduce-only orders.
StopOut ==
  /\ position > 0
  /\ position' = 0 /\ tps' = {}
  /\ UNCHANGED <<plan, filled, work>>

Protect(o) == ReadExposure(o) \/ MakePlan(o) \/ SendTier(o) \/ Finish(o)

Next ==
  \/ \E o \in Orders : Fill(o) \/ Protect(o)
  \/ \E t \in tps : TpFills(t)
  \/ StopOut

Spec == Init /\ [][Next]_vars

-----------------------------------------------------------------------------
(* Properties *)

\* The plan made before an order is sent gives away the requested amount, no
\* more and no less, in tiers the exchange can take, whatever the rounding of
\* the shares does; and so would the plan for any smaller amount.
PlanExact ==
  (\A o \in Orders : pc[o] = "idle") =>
    \A o \in Orders : \A s \in 1..asked[o] : \A d \in Distributions :
      LET tiers == Allocate(s, d)
      IN  SumFunction(tiers) = s /\ \A i \in DOMAIN tiers : tiers[i] >= 1

\* An even ladder hands out exactly the exposure it was made for, in tiers of
\* at least one contract, whatever happens on the exchange meanwhile.
LadderExact ==
  \A o \in Orders :
    even[o] => /\ sent[o] <= target[o]
               /\ pc[o] = "done" => sent[o] = target[o]
               /\ pc[o] = "place" /\ next[o] <= Count(o) => Amount(o, next[o]) >= 1

\* In a calm environment, once every fill has been answered, the resting tiers cover what the
\* foreign order leaves of the position: P0-3 and P0-4 lose no contract.
Covered ==
  calm /\ (\A o \in Orders : ~Busy(o)) => Resting = Max({0, position - foreign})

\* P0-3: without net exposure no tier is sent.
SkippedNotSent == \A o \in Orders : skipped[o] => next[o] = 1

=============================================================================
