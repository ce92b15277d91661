------------------------- MODULE PositionWatch_proofs -------------------------
(***************************************************************************)
(* ClosedLiveExcused for any number of orders, checks, closes and failed   *)
(* calls.  It is not inductive: it rests on what each handler remembers of *)
(* the position between two of its steps.  A check past its verifications  *)
(* has every live order excused; a close knows that its amount is enough   *)
(* for what its orders still hold, and after the sale that they hold       *)
(* nothing; and an order whose fill is booked is never filled again.       *)
(***************************************************************************)
EXTENDS PositionWatch, FiniteSetTheorems, TLAPS

Live == {o \in Orders : own[o] = 1}

\* The fill of the order is in the books.
Begun(o) == stage[o] \in {"saved", "done"}

OrderGood(o) ==
  /\ stage[o] \in {"new", "resting"} => own[o] = 0
  /\ row[o] \in {"OPEN", "PROTECTED"} => Begun(o)
  /\ row[o] = "CLOSED" => Begun(o) \/ o \in excused
  /\ o \in tps \cup tpEvents => Begun(o)
  /\ own[o] = 1 /\ row[o] = "CLOSED" => o \in excused

CheckGood(c) ==
  /\ \A o \in check[c].found : Begun(o)
  /\ check[c].pc \in Looked => Live \subseteq excused

\* What the orders of a close still hold.
Held(k) == {o \in closer[k].scope : own[o] = 1}

CloserGood(k) ==
  /\ \A o \in closer[k].scope : Begun(o)
  /\ closer[k].tracked \subseteq closer[k].scope
  /\ closer[k].pc \in {"strip", "send"} => Cardinality(Held(k)) <= closer[k].amount
  /\ closer[k].pc \in {"sweep", "record"} => Held(k) = {}

Core ==
  /\ \A o \in Orders : OrderGood(o)
  /\ \A c \in Checks : CheckGood(c)
  /\ \A k \in Closers : CloserGood(k)


-----------------------------------------------------------------------------
(* Types *)

Stages == {"new", "resting", "filled", "saved", "done"}
Rows == {"NONE", "PENDING", "OPEN", "PROTECTED", "CLOSED"}
CheckPcs == {"idle", "deferred", "verify1", "verify2"} \cup Looked
CheckType == [found : SUBSET Orders, pc : CheckPcs]
WatchType == [absent : 0..Confirmed, missing : 0..Confirmations]
CloserPcs == {"idle", "cancel", "size", "strip", "send", "sweep", "record"}
CloserType ==
  [scope : SUBSET Orders, tracked : SUBSET Orders,
   amount : 0..Cardinality(Orders), pc : CloserPcs]

Types ==
  /\ stage \in [Orders -> Stages] /\ row \in [Orders -> Rows]
  /\ left \in [Orders -> -1..1] /\ own \in [Orders -> 0..1]
  /\ sl \in 0..Cardinality(Orders)
  /\ tps \subseteq Orders /\ tpEvents \subseteq Orders /\ opens \subseteq Orders
  /\ opening \in BOOLEAN /\ inflight \in BOOLEAN /\ cooled \in BOOLEAN
  /\ check \in [Checks -> CheckType] /\ watch \in [Orders -> WatchType]
  /\ closer \in [Closers -> CloserType]
  /\ faults \in 0..MaxFaults /\ excused \subseteq Orders

LEMMA TypesAre == TypeOK <=> Types
BY DEF TypeOK, Types, Stages, Rows, CheckPcs, CheckType, WatchType, CloserPcs, CloserType

\* Part of the orders is not more than all of them.
LEMMA Counts ==
  /\ Cardinality(Orders) \in Nat
  /\ \A S : S \subseteq Orders =>
       IsFiniteSet(S) /\ Cardinality(S) \in 0..Cardinality(Orders)
<1>1. ASSUME NEW S, S \subseteq Orders
      PROVE  IsFiniteSet(S) /\ Cardinality(S) \in 0..Cardinality(Orders)
  <2>1. IsFiniteSet(S) /\ Cardinality(S) <= Cardinality(Orders)
    BY <1>1, FS_Subset, BoundsAssumption
  <2> QED
    BY <2>1, FS_CardinalityType, BoundsAssumption
<1> QED
  BY <1>1, FS_CardinalityType, BoundsAssumption

LEMMA PositionNat == Position \in 0..Cardinality(Orders)
BY Counts DEF Position

\* Without a position no order holds a contract, and the other way round.
LEMMA NoPosition ==
  /\ Position = 0 => \A o \in Orders : own[o] # 1
  /\ Position > 0 => \E o \in Orders : own[o] = 1
<1> DEFINE H == {o \in Orders : own[o] = 1}
<1>1. IsFiniteSet(H) /\ Cardinality(H) \in Nat
  BY Counts
<1>2. Cardinality(H) = 0 <=> H = {}
  BY <1>1, FS_EmptySet
<1> QED
  BY <1>1, <1>2 DEF Position

LEMMA CheckPc ==
  ASSUME check \in [Checks -> CheckType], NEW c \in Checks, NEW p \in CheckPcs
  PROVE  /\ [check EXCEPT ![c].pc = p] \in [Checks -> CheckType]
         /\ [check EXCEPT ![c].pc = p][c] = [check[c] EXCEPT !.pc = p]
         /\ \A d \in Checks \ {c} : [check EXCEPT ![c].pc = p][d] = check[d]
         /\ check[c].found \subseteq Orders
         /\ [check[c] EXCEPT !.pc = p].pc = p
         /\ [check[c] EXCEPT !.pc = p].found = check[c].found
BY DEF CheckType

LEMMA WatchSet ==
  ASSUME watch \in [Orders -> WatchType], NEW o \in Orders, NEW w \in WatchType
  PROVE  [watch EXCEPT ![o] = w] \in [Orders -> WatchType]
OBVIOUS

LEMMA FreshWatch == Fresh \in WatchType
BY BoundsAssumption DEF Fresh, WatchType

LEMMA IdleCloser == Idle \in CloserType
BY Counts, SMT DEF Idle, CloserType, CloserPcs

LEMMA CloserSet ==
  ASSUME closer \in [Closers -> CloserType], NEW k \in Closers, NEW x \in CloserType
  PROVE  [closer EXCEPT ![k] = x] \in [Closers -> CloserType]
OBVIOUS

LEMMA CloserPc ==
  ASSUME closer \in [Closers -> CloserType], NEW k \in Closers, NEW p \in CloserPcs
  PROVE  /\ [closer[k] EXCEPT !.pc = p] \in CloserType
         /\ [closer EXCEPT ![k].pc = p] \in [Closers -> CloserType]
BY DEF CloserType

LEMMA SoldTyped ==
  ASSUME NEW mine, NEW n, NEW f \in Sold(mine, n)
  PROVE  f \in [Orders -> 0..1]
BY DEF Sold

LEMMA InitTypes == Init => Types
<1> SUFFICES ASSUME Init PROVE Types
  OBVIOUS
<1>1. [pc |-> "idle", found |-> {}] \in CheckType
  BY DEF CheckType, CheckPcs
<1>2. opening \in BOOLEAN /\ inflight \in BOOLEAN /\ cooled \in BOOLEAN
  BY Zenon DEF Init
<1>3. sl \in 0..Cardinality(Orders)
  BY Counts DEF Init
<1>4. check \in [Checks -> CheckType] /\ watch \in [Orders -> WatchType]
      /\ closer \in [Closers -> CloserType]
  BY <1>1, FreshWatch, IdleCloser DEF Init
<1> QED
  BY <1>2, <1>3, <1>4, BoundsAssumption DEF Init, Types, Stages, Rows

LEMMA EnterTypes ==
  ASSUME Types, NEW c \in Checks, Enter(c)
  PROVE  check' \in [Checks -> CheckType] /\ inflight' \in BOOLEAN
<1>1. PICK p \in CheckPcs : check' = [check EXCEPT ![c].pc = p]
  <2>1. CASE inflight
    BY <2>1 DEF Enter, CheckPcs
  <2>2. CASE ~inflight
    <3>1. (IF cooled THEN "idle" ELSE IF opening THEN "deferred" ELSE "verify1") \in CheckPcs
      BY DEF CheckPcs
    <3> QED
      BY <2>2, <3>1 DEF Enter
  <2> QED
    BY <2>1, <2>2
<1>2. inflight' \in BOOLEAN
  BY DEF Enter
<1> QED
  BY <1>1, <1>2, CheckPc DEF Types

LEMMA PassTypes ==
  ASSUME Types, NEW c \in Checks, NEW p \in CheckPcs, Abort(c) \/ Pass(c, p)
  PROVE  check' \in [Checks -> CheckType] /\ inflight' \in BOOLEAN /\ cooled' \in BOOLEAN
<1>1. "idle" \in CheckPcs
  BY DEF CheckPcs
<1>2. check \in [Checks -> CheckType] /\ inflight \in BOOLEAN /\ cooled \in BOOLEAN
  BY DEF Types
<1>3. check' \in [Checks -> CheckType]
  BY <1>1, <1>2, CheckPc DEF Abort, Pass
<1> QED
  BY <1>2, <1>3 DEF Abort, Pass

LEMMA BeginTypes ==
  ASSUME Types, NEW k \in Closers, NEW o \in Orders, BeginClose(k, o)
  PROVE  left' \in [Orders -> -1..1] /\ closer' \in [Closers -> CloserType]
<1> DEFINE scope == Scope(o)
           rest  == [p \in Orders |-> IF p \in scope /\ left[p] = -1 THEN 1 ELSE left[p]]
           paid  == {p \in scope : rest[p] > 0}
<1>1. rest \in [Orders -> -1..1] /\ scope \subseteq Orders
  BY DEF Types, Scope, Active
<1>2. paid \subseteq Orders
  BY <1>1
<1>3. /\ left' = rest
      /\ \/ closer' = [closer EXCEPT ![k] = [pc |-> "cancel", scope |-> scope, amount |-> 0,
                                             tracked |-> paid]]
         \/ closer' = [closer EXCEPT ![k].pc = "send", ![k].amount = Position]
  BY DEF BeginClose
<1> HIDE DEF rest, scope, paid
<1>4. [pc |-> "cancel", scope |-> scope, amount |-> 0, tracked |-> paid] \in CloserType
  BY <1>1, <1>2, Counts, SMT DEF CloserType, CloserPcs
<1>5. [closer EXCEPT ![k].pc = "send", ![k].amount = Position] \in [Closers -> CloserType]
  BY PositionNat DEF Types, CloserType, CloserPcs
<1>6. closer \in [Closers -> CloserType]
  BY DEF Types
<1> QED
  BY <1>1, <1>3, <1>4, <1>5, <1>6, CloserSet

LEMMA FailTypes ==
  ASSUME Types, Fail \/ UNCHANGED faults
  PROVE  faults' \in 0..MaxFaults
BY BoundsAssumption DEF Types, Fail

LEMMA StopTypes ==
  ASSUME Types, NEW n \in 0..Cardinality(Orders), StopMoved(n) \/ StopRefused
  PROVE  sl' \in 0..Cardinality(Orders) /\ faults' \in 0..MaxFaults
<1>1. faults' \in 0..MaxFaults
  BY FailTypes DEF StopMoved, StopRefused
<1>2. sl' \in 0..Cardinality(Orders)
  BY Counts DEF StopMoved, StopRefused, Types
<1> QED
  BY <1>1, <1>2

LEMMA GoneTypes ==
  ASSUME Types, SeenGone
  PROVE  faults' \in 0..MaxFaults
BY FailTypes DEF SeenGone

LEMMA OrderTypes ==
  ASSUME Types, NEW o \in Orders,
         BeginOpen(o) \/ EndOpen(o) \/ Fill(o) \/ SaveFilled(o) \/ Protect(o)
           \/ CancelPending(o) \/ HandleCancel(o)
  PROVE  Types'
<1>1. CASE BeginOpen(o)
  BY <1>1 DEF Types, Stages, Rows, rows, exchange, router, BeginOpen
<1>2. CASE EndOpen(o)
  BY <1>2 DEF Types, Stages, Rows, rows, exchange, router, EndOpen
<1>3. CASE Fill(o)
  <2>1. excused' \subseteq Orders
    BY <1>3 DEF Fill, Types
  <2> QED
    BY <1>3, <2>1 DEF Types, Stages, Rows, rows, exchange, router, Fill
<1>4. CASE SaveFilled(o)
  BY <1>4 DEF Types, Stages, Rows, rows, exchange, router, SaveFilled
<1>5. CASE Protect(o)
  <2>1. faults' \in 0..MaxFaults
    BY <1>5, FailTypes DEF Protect
  <2>2. sl' \in 0..Cardinality(Orders) /\ tps' \subseteq Orders
    BY <1>5, PositionNat DEF Protect, Types
  <2>3. row' \in [Orders -> Rows] /\ stage' \in [Orders -> Stages]
    BY <1>5 DEF Protect, Types, Rows, Stages
  <2> QED
    BY <1>5, <2>1, <2>2, <2>3 DEF Types, router, Protect
<1>6. CASE CancelPending(o)
  <2>1. left' \in [Orders -> -1..1]
    BY <1>6 DEF Types, CancelPending, Lesser
  <2> QED
    BY <1>6, <2>1 DEF Types, Stages, Rows, rows, exchange, router, CancelPending
<1>7. CASE HandleCancel(o)
  <2>1. faults' \in 0..MaxFaults
    BY <1>7, FailTypes DEF HandleCancel
  <2>2. excused' \subseteq Orders /\ stage' \in [Orders -> Stages]
    BY <1>7 DEF HandleCancel, Types, Stages
  <2> QED
    BY <1>7, <2>1, <2>2 DEF Types, Rows, rows, exchange, router, HandleCancel
<1> QED
  BY <1>1, <1>2, <1>3, <1>4, <1>5, <1>6, <1>7

LEMMA ExchangeTypes ==
  ASSUME Types,
         (\E o \in Orders : TpFill(o) \/ WsTpFill(o)) \/ SlFire \/ ManualClose \/ Tidy
  PROVE  Types'
<1>1. ASSUME NEW o \in Orders, TpFill(o)
      PROVE  Types'
  <2>1. own' \in [Orders -> 0..1]
    BY <1>1, SoldTyped DEF TpFill
  <2> QED
    BY <1>1, <2>1 DEF Types, rows, router, TpFill
<1>2. ASSUME NEW o \in Orders, WsTpFill(o)
      PROVE  Types'
  <2>1. left' \in [Orders -> -1..1]
    BY <1>2 DEF Types, WsTpFill, Payers
  <2>2. /\ sl' \in 0..Cardinality(Orders) /\ faults' \in 0..MaxFaults
        /\ tps' \subseteq Orders /\ row' \in [Orders -> Rows]
    <3>1. CASE Position > 0
      BY <1>2, <3>1, StopTypes, PositionNat DEF WsTpFill, Types
    <3>2. CASE ~ (Position > 0)
      BY <1>2, <3>2, Counts DEF WsTpFill, Types, Rows
    <3> QED
      BY <3>1, <3>2
  <2> QED
    BY <1>2, <2>1, <2>2 DEF Types, router, WsTpFill
<1>3. CASE SlFire
  <2>1. own' \in [Orders -> 0..1] /\ sl' \in 0..Cardinality(Orders)
    BY <1>3, SoldTyped, Counts DEF SlFire
  <2> QED
    BY <1>3, <2>1 DEF Types, rows, router, SlFire
<1>4. CASE ManualClose
  BY <1>4 DEF Types, rows, router, ManualClose
<1>5. CASE Tidy
  BY <1>5, Counts DEF Types, rows, router, Tidy
<1> QED
  BY <1>1, <1>2, <1>3, <1>4, <1>5

LEMMA RouterTypes ==
  ASSUME Types,
         (\E c \in Checks : ZeroEvent(c) \/ RunCheck(c)) \/ OpenEvent \/ CooldownEnds
  PROVE  Types'
<1>0. {"idle", "verify1", "verify2", "guard", "read", "cancel", "save"} \subseteq CheckPcs
  BY DEF CheckPcs, Looked
<1>1. ASSUME NEW c \in Checks, ZeroEvent(c) \/ Deferred(c)
      PROVE  Types'
  <2>1. check' \in [Checks -> CheckType] /\ inflight' \in BOOLEAN
    BY <1>1, EnterTypes DEF ZeroEvent, Deferred
  <2> QED
    BY <1>1, <2>1 DEF Types, rows, exchange, ZeroEvent, Deferred
<1>2. ASSUME NEW c \in Checks, Verify1(c) \/ Verify2(c)
      PROVE  Types'
  <2>1. PICK from \in CheckPcs, to \in CheckPcs : Verify(c, from, to)
    BY <1>0, <1>2 DEF Verify1, Verify2
  <2>2. check' \in [Checks -> CheckType] /\ inflight' \in BOOLEAN /\ cooled' \in BOOLEAN
    BY <2>1, PassTypes DEF Verify
  <2>3. faults' \in 0..MaxFaults
    BY <2>1, GoneTypes DEF Verify, Types
  <2>4. excused' \subseteq Orders
    BY <2>1 DEF Verify, Types
  <2> QED
    BY <2>1, <2>2, <2>3, <2>4 DEF Types, rows, exchange, Verify
<1>3. ASSUME NEW c \in Checks, Guard(c)
      PROVE  Types'
  <2>1. check' \in [Checks -> CheckType] /\ inflight' \in BOOLEAN /\ cooled' \in BOOLEAN
    BY <1>0, <1>3, PassTypes DEF Guard
  <2>2. faults' \in 0..MaxFaults
    BY <1>3, FailTypes DEF Guard
  <2> QED
    BY <1>3, <2>1, <2>2 DEF Types, rows, exchange, Guard
<1>4. ASSUME NEW c \in Checks, ReadActive(c)
      PROVE  Types'
  <2>1. [pc |-> "cancel", found |-> Active] \in CheckType
    BY <1>0 DEF CheckType, Active
  <2> QED
    BY <1>4, <2>1 DEF Types, rows, exchange, ReadActive
<1>5. ASSUME NEW c \in Checks, CancelFound(c)
      PROVE  Types'
  <2>1. check' \in [Checks -> CheckType]
    BY <1>0, <1>5, CheckPc DEF CancelFound, Types
  <2>2. sl' \in 0..Cardinality(Orders) /\ tps' \subseteq Orders
    BY <1>5, Counts DEF CancelFound, Types
  <2> QED
    BY <1>5, <2>1, <2>2 DEF Types, rows, CancelFound
<1>6. ASSUME NEW c \in Checks, SaveClosed(c)
      PROVE  Types'
  <2>0. check[c] \in CheckType /\ check \in [Checks -> CheckType]
    BY DEF Types
  <2>1. PICK o \in check[c].found :
              /\ row' = [row EXCEPT ![o] = "CLOSED"]
              /\ left' = [left EXCEPT ![o] = Lesser(@, 0)]
              /\ check' = [check EXCEPT ![c].found = @ \ {o}]
    BY <1>6 DEF SaveClosed
  <2>2. o \in Orders
    BY <2>0, <2>1 DEF CheckType
  <2>3. check' \in [Checks -> CheckType]
    BY <2>0, <2>1 DEF CheckType
  <2>4. left' \in [Orders -> -1..1] /\ row' \in [Orders -> Rows]
    BY <2>1, <2>2 DEF Types, Lesser, Rows
  <2> QED
    BY <1>6, <2>3, <2>4 DEF Types, exchange, SaveClosed
<1>7. ASSUME NEW c \in Checks, EndCheck(c)
      PROVE  Types'
  <2>1. check' \in [Checks -> CheckType]
    BY <1>0, <1>7, CheckPc DEF EndCheck, Types
  <2> QED
    BY <1>7, <2>1 DEF Types, rows, exchange, EndCheck
<1>8. CASE OpenEvent
  BY <1>8 DEF Types, rows, exchange, OpenEvent
<1>9. CASE CooldownEnds
  BY <1>9 DEF Types, rows, exchange, CooldownEnds
<1> QED
  BY <1>1, <1>2, <1>3, <1>4, <1>5, <1>6, <1>7, <1>8, <1>9 DEF RunCheck

\* The sale of a close.
LEMMA SellTyped ==
  ASSUME NEW k \in Closers, Sell(k)
  PROVE  own' \in [Orders -> 0..1]
BY SoldTyped DEF Sell

\* What one transaction of a close writes.
LEMMA RecordTypes ==
  ASSUME Types, NEW k \in Closers, CloseRecord(k)
  PROVE  row' \in [Orders -> Rows] /\ left' \in [Orders -> -1..1]
<1>1. PICK paid :
            /\ row' = [o \in Orders |-> IF o \in paid THEN "CLOSED" ELSE row[o]]
            /\ left' = [o \in Orders |-> IF o \in paid THEN 0 ELSE left[o]]
  BY DEF CloseRecord
<1>2. row \in [Orders -> Rows] /\ left \in [Orders -> -1..1] /\ "CLOSED" \in Rows
  BY DEF Types, Rows
<1> QED
  BY <1>1, <1>2

LEMMA CloserTypes ==
  ASSUME Types, NEW k \in Closers,
         Close(k) \/ \E o \in Orders : RequestClose(k, o)
  PROVE  Types'
<1>0. /\ closer \in [Closers -> CloserType] /\ closer[k] \in CloserType
      /\ {"idle", "cancel", "size", "strip", "send", "sweep", "record"} \subseteq CloserPcs
  BY DEF Types, CloserPcs
<1>1. ASSUME NEW o \in Orders, RequestClose(k, o)
      PROVE  Types'
  BY <1>1, BeginTypes DEF Types, exchange, router, RequestClose
<1>2. CASE CloseCancel(k)
  BY <1>0, <1>2, CloserPc DEF Types, rows, router, CloseCancel
<1>3. CASE CloseSize(k)
  <2> DEFINE n == Lesser(Cardinality(closer[k].scope), Position)
  <2>1. n \in 0..Cardinality(Orders)
    <3>1. Cardinality(closer[k].scope) \in 0..Cardinality(Orders)
      BY <1>0, Counts DEF CloserType
    <3> QED
      BY <3>1, PositionNat DEF Lesser
  <2> HIDE DEF n
  <2>2. [closer[k] EXCEPT !.pc = "strip", !.amount = n] \in CloserType
    BY <1>0, <2>1 DEF CloserType, CloserPcs
  <2>3. closer' = [closer EXCEPT ![k] = Idle]
          \/ closer' = [closer EXCEPT ![k] = [closer[k] EXCEPT !.pc = "strip", !.amount = n]]
    BY <1>0, <1>3 DEF CloseSize, n
  <2>4. closer' \in [Closers -> CloserType]
    BY <1>0, <2>2, <2>3, IdleCloser, CloserSet
  <2> QED
    BY <1>3, <2>4 DEF Types, rows, exchange, router, CloseSize
<1>4. CASE CloseStrip(k)
  <2>1. closer' \in [Closers -> CloserType]
    BY <1>0, <1>4, CloserPc DEF CloseStrip
  <2>2. faults' \in 0..MaxFaults
    BY <1>4, FailTypes DEF CloseStrip
  <2>3. sl' \in 0..Cardinality(Orders) /\ tps' \subseteq Orders
    BY <1>4, Counts DEF CloseStrip, Types
  <2> QED
    BY <1>4, <2>1, <2>2, <2>3 DEF Types, rows, router, CloseStrip
<1>5. CASE CloseSend(k)
  <2>1. closer' \in [Closers -> CloserType]
    BY <1>0, <1>5, CloserPc, CloserSet, IdleCloser DEF CloseSend
  <2>2. faults' \in 0..MaxFaults
    BY <1>5, FailTypes, GoneTypes DEF CloseSend
  <2>3. own' \in [Orders -> 0..1]
    BY <1>5, SellTyped DEF CloseSend, Types
  <2> QED
    BY <1>5, <2>1, <2>2, <2>3 DEF Types, rows, router, CloseSend
<1>6. CASE CloseSweep(k)
  BY <1>0, <1>6, CloserPc, Counts DEF Types, rows, router, CloseSweep
<1>7. CASE CloseRecord(k)
  <2>1. closer' \in [Closers -> CloserType]
    BY <1>0, <1>7, CloserSet, IdleCloser DEF CloseRecord
  <2> QED
    BY <1>7, <2>1, RecordTypes DEF Types, exchange, router, CloseRecord
<1> QED
  BY <1>1, <1>2, <1>3, <1>4, <1>5, <1>6, <1>7 DEF Close

LEMMA UpdateTypes ==
  ASSUME Types, NEW o \in Orders, UpdateSl(o)
  PROVE  Types'
<1>1. 1 \in 0..Cardinality(Orders)
  <2>1. {o} \subseteq Orders /\ Cardinality({o}) = 1
    BY FS_Singleton
  <2> QED
    BY <2>1, Counts
<1>2. sl' \in 0..Cardinality(Orders) /\ faults' \in 0..MaxFaults
  BY <1>1, StopTypes DEF UpdateSl
<1>3. left' \in [Orders -> -1..1] /\ closer' \in [Closers -> CloserType]
  BY BeginTypes DEF UpdateSl, BreakevenClose, Types
<1> QED
  BY <1>2, <1>3 DEF UpdateSl, Types, router

LEMMA ScanTypes ==
  ASSUME Types, NEW o \in Orders, Scan(o)
  PROVE  Types'
<1>0. watch \in [Orders -> WatchType] /\ watch[o] \in WatchType
  BY DEF Types
<1>1. CASE ScanGone(o)
  BY <1>0, <1>1, WatchSet, FreshWatch DEF Types, rows, exchange, router, ScanGone
<1>2. CASE ScanAbsent(o)
  <2>1. faults' \in 0..MaxFaults
    BY <1>2, GoneTypes DEF ScanAbsent
  <2>2. excused' \subseteq Orders
    BY <1>2 DEF ScanAbsent, Types
  <2>3. CASE row[o] = "PENDING" \/ watch[o].absent < Confirmed
    <3> DEFINE n == IF row[o] = "PENDING" THEN 0 ELSE watch[o].absent + 1
    <3>1. n \in 0..Confirmed
      BY <1>0, <2>3, BoundsAssumption DEF WatchType
    <3>2. watch' = [watch EXCEPT ![o].absent = n] /\ UNCHANGED <<row, sl, tps>>
      BY <1>0, <1>2, <2>3 DEF ScanAbsent
    <3> HIDE DEF n
    <3>3. watch' \in [Orders -> WatchType]
      BY <1>0, <3>1, <3>2 DEF WatchType
    <3> QED
      BY <1>2, <2>1, <2>2, <3>2, <3>3 DEF Types, rows, router, ScanAbsent
  <2>4. CASE ~ (row[o] = "PENDING" \/ watch[o].absent < Confirmed)
    <3>1. watch' \in [Orders -> WatchType]
      BY <1>0, <1>2, <2>4, WatchSet, FreshWatch DEF ScanAbsent
    <3>2. /\ sl' \in 0..Cardinality(Orders) /\ tps' \subseteq Orders
          /\ row' \in [Orders -> Rows]
      BY <1>2, <2>4, Counts DEF ScanAbsent, Types, Rows
    <3> QED
      BY <1>2, <2>1, <2>2, <3>1, <3>2 DEF Types, rows, router, ScanAbsent
  <2> QED
    BY <2>3, <2>4
<1>3. CASE ScanCovered(o)
  BY <1>0, <1>3, WatchSet, FreshWatch DEF Types, rows, exchange, router, ScanCovered
<1>4. CASE ScanMissing(o)
  <2>1. watch[o].missing + 1 \in 0..Confirmations /\ 0 \in 0..Confirmed
    BY <1>0, <1>4, BoundsAssumption DEF ScanMissing, WatchType
  <2>2. [absent |-> 0, missing |-> watch[o].missing + 1] \in WatchType
    BY <2>1 DEF WatchType
  <2>3. watch' \in [Orders -> WatchType]
    BY <1>0, <1>4, <2>2, WatchSet DEF ScanMissing
  <2> QED
    BY <1>4, <2>3 DEF Types, rows, exchange, router, ScanMissing
<1>5. CASE ScanReplace(o)
  <2>1. watch' \in [Orders -> WatchType]
    BY <1>0, <1>5, WatchSet, FreshWatch DEF ScanReplace
  <2> QED
    BY <1>5, <2>1, PositionNat DEF Types, Stages, router, ScanReplace
<1>6. ASSUME NEW k \in Closers, ScanClose(o, k)
      PROVE  Types'
  <2>1. watch' \in [Orders -> WatchType]
    BY <1>0, <1>6, WatchSet, FreshWatch DEF ScanClose
  <2>2. faults' \in 0..MaxFaults
    BY <1>6, BoundsAssumption DEF ScanClose, Types
  <2> QED
    BY <1>6, <2>1, <2>2, BeginTypes DEF Types, exchange, router, ScanClose
<1> QED
  BY <1>1, <1>2, <1>3, <1>4, <1>5, <1>6 DEF Scan

LEMMA StepTypes == Types /\ [Next]_vars => Types'
<1> SUFFICES ASSUME Types, [Next]_vars PROVE Types'
  OBVIOUS
<1>1. CASE Next
  BY <1>1, OrderTypes, ExchangeTypes, RouterTypes, CloserTypes, UpdateTypes, ScanTypes
  DEF Next, Program, Environment, Handle
<1>2. CASE vars' = vars
  BY <1>2 DEF Types, vars, rows, exchange, router
<1> QED
  BY <1>1, <1>2

-----------------------------------------------------------------------------
(* The frame: what a step leaves of the invariant as it was *)

\* No fill is forgotten; a contract comes only with a fill that is not booked
\* yet, and is excused when a check no longer looks.
Moved(o) ==
  /\ Begun(o) => Begun(o)'
  /\ own'[o] = 1 =>
       \/ own[o] = 1
       \/ /\ ~Begun(o)
          /\ (\E c \in Checks : check[c].pc \in Looked) => o \in excused'

\* A step that at most takes from what the order has.
Still(o) ==
  /\ stage'[o] = stage[o] /\ row'[o] = row[o]
  /\ own'[o] = 1 => own[o] = 1
  /\ o \in tps' \cup tpEvents' => o \in tps \cup tpEvents

LEMMA StillGood ==
  ASSUME Types, Types', NEW o \in Orders, OrderGood(o), Still(o), excused \subseteq excused'
  PROVE  OrderGood(o)' /\ Moved(o)
<1>1. own'[o] \in 0..1 /\ own[o] \in 0..1
  BY DEF Types
<1>2. Begun(o)' <=> Begun(o)
  BY DEF Still, Begun
<1>3. stage'[o] \in {"new", "resting"} => own'[o] = 0
  BY <1>1 DEF OrderGood, Still
<1>4. OrderGood(o)'
  BY <1>2, <1>3 DEF OrderGood, Still
<1> QED
  BY <1>2, <1>4 DEF Still, Moved

LEMMA CheckKept ==
  ASSUME Types, Core, excused \subseteq excused', \A o \in Orders : Moved(o),
         NEW c \in Checks, check'[c] = check[c]
  PROVE  CheckGood(c)'
<1>1. CheckGood(c) /\ check[c].found \subseteq Orders
  BY DEF Core, Types, CheckType
<1>2. \A o \in check[c].found : Begun(o)'
  BY <1>1 DEF CheckGood, Moved
<1>3. ASSUME check[c].pc \in Looked, NEW o \in Orders, own'[o] = 1
      PROVE  o \in excused'
  BY <1>1, <1>3 DEF CheckGood, Moved, Live
<1> QED
  BY <1>2, <1>3 DEF CheckGood, Live

\* Of what the orders of a close held no more is left.
LEMMA HeldLess ==
  ASSUME Types, NEW k \in Closers, CloserGood(k), \A o \in Orders : Moved(o),
         closer'[k].scope = closer[k].scope
  PROVE  /\ Held(k)' \subseteq Held(k) /\ Held(k) \subseteq Orders
         /\ Cardinality(Held(k)') \in Nat /\ Cardinality(Held(k)) \in Nat
         /\ Cardinality(Held(k)') <= Cardinality(Held(k))
         /\ \A o \in closer[k].scope : Begun(o)'
<1>1. closer[k].scope \subseteq Orders
  BY DEF Types, CloserType
<1>2. \A o \in closer[k].scope : Begun(o)' /\ (own'[o] = 1 => own[o] = 1)
  BY <1>1 DEF CloserGood, Moved
<1>3. Held(k)' \subseteq Held(k) /\ Held(k) \subseteq Orders
  BY <1>1, <1>2 DEF Held
<1>4. IsFiniteSet(Held(k))
  BY <1>3, Counts
<1> QED
  BY <1>2, <1>3, <1>4, FS_Subset, FS_CardinalityType

LEMMA CloserKept ==
  ASSUME Types, Core, \A o \in Orders : Moved(o),
         NEW k \in Closers, closer'[k] = closer[k]
  PROVE  CloserGood(k)'
<1>1. CloserGood(k) /\ closer[k].amount \in Nat
  BY Counts DEF Core, Types, CloserType
<1>2. /\ Held(k)' \subseteq Held(k)
      /\ Cardinality(Held(k)') \in Nat /\ Cardinality(Held(k)) \in Nat
      /\ Cardinality(Held(k)') <= Cardinality(Held(k))
      /\ \A o \in closer[k].scope : Begun(o)'
  BY <1>1, HeldLess
<1> HIDE DEF Held
<1>3. closer[k].pc \in {"strip", "send"} => Cardinality(Held(k)') <= closer[k].amount
  BY <1>1, <1>2 DEF CloserGood
<1> QED
  BY <1>1, <1>2, <1>3 DEF CloserGood

LEMMA Frame ==
  ASSUME Types, Types', Core, excused \subseteq excused',
         \A o \in Orders : Still(o) \/ (OrderGood(o)' /\ Moved(o)),
         \A c \in Checks : check'[c] = check[c] \/ CheckGood(c)',
         \A k \in Closers : closer'[k] = closer[k] \/ CloserGood(k)'
  PROVE  Core'
<1>1. \A o \in Orders : OrderGood(o)' /\ Moved(o)
  BY StillGood DEF Core
<1>2. \A c \in Checks : CheckGood(c)'
  BY <1>1, CheckKept
<1>3. \A k \in Closers : CloserGood(k)'
  BY <1>1, CloserKept
<1> QED
  BY <1>1, <1>2, <1>3 DEF Core

\* A step of the orders alone.
LEMMA OrdersOnly ==
  ASSUME Types, Types', Core, excused \subseteq excused', check' = check, closer' = closer,
         \A o \in Orders : Still(o) \/ (OrderGood(o)' /\ Moved(o))
  PROVE  Core'
BY Frame

-----------------------------------------------------------------------------
(* The orders and the exchange *)

\* A sale takes, and gives nobody a contract.
LEMMA SoldLess ==
  ASSUME Types, NEW mine, NEW n, NEW f \in Sold(mine, n), NEW o \in Orders, f[o] = 1
  PROVE  own[o] = 1
<1>1. f[o] <= own[o] /\ own[o] \in 0..1
  BY DEF Sold, Types
<1> QED
  BY <1>1

\* A step whose only changes of the orders are what it does to one of them.
LEMMA OneOrder ==
  ASSUME Types, Types', Core, excused \subseteq excused', check' = check, closer' = closer,
         NEW o \in Orders, OrderGood(o)', Moved(o),
         \A p \in Orders \ {o} : Still(p)
  PROVE  Core'
BY OrdersOnly

LEMMA OrderSteps ==
  ASSUME Types, Types', Core, NEW o \in Orders,
         BeginOpen(o) \/ EndOpen(o) \/ Fill(o) \/ SaveFilled(o) \/ Protect(o)
           \/ CancelPending(o) \/ HandleCancel(o)
  PROVE  Core'
<1>0. OrderGood(o) /\ stage \in [Orders -> Stages] /\ row \in [Orders -> Rows]
      /\ own \in [Orders -> 0..1]
  BY DEF Core, Types
<1>1. CASE BeginOpen(o)
  <2>1. OrderGood(o)' /\ Moved(o)
    BY <1>0, <1>1 DEF BeginOpen, OrderGood, Moved, Begun, exchange
  <2>2. \A p \in Orders \ {o} : Still(p)
    BY <1>0, <1>1 DEF BeginOpen, Still, exchange
  <2> QED
    BY <1>1, <2>1, <2>2, OneOrder DEF BeginOpen
<1>2. CASE EndOpen(o)
  <2>1. \A p \in Orders : Still(p)
    BY <1>2 DEF EndOpen, Still, rows, exchange
  <2> QED
    BY <1>2, <2>1, OrdersOnly DEF EndOpen
<1>3. CASE Fill(o)
  <2>1. /\ stage[o] = "resting" /\ stage' = [stage EXCEPT ![o] = "filled"]
        /\ own' = [own EXCEPT ![o] = 1] /\ row' = row /\ tps' = tps /\ tpEvents' = tpEvents
        /\ check' = check /\ closer' = closer /\ excused \subseteq excused'
        /\ (\E c \in Checks : check[c].pc \in Looked) => o \in excused'
    BY <1>3 DEF Fill, router
  <2>2. OrderGood(o)'
    BY <1>0, <2>1 DEF OrderGood, Begun
  <2>3. Moved(o)
    BY <1>0, <2>1 DEF Moved, Begun
  <2>4. \A p \in Orders \ {o} : Still(p)
    BY <1>0, <2>1 DEF Still
  <2> QED
    BY <2>1, <2>2, <2>3, <2>4, OneOrder
<1>4. CASE SaveFilled(o)
  <2>1. OrderGood(o)' /\ Moved(o)
    BY <1>0, <1>4 DEF SaveFilled, OrderGood, Moved, Begun, exchange
  <2>2. \A p \in Orders \ {o} : Still(p)
    BY <1>0, <1>4 DEF SaveFilled, Still, exchange
  <2> QED
    BY <1>4, <2>1, <2>2, OneOrder DEF SaveFilled, router
<1>5. CASE Protect(o)
  <2>1. /\ stage[o] = "saved" /\ stage' = [stage EXCEPT ![o] = "done"]
        /\ own' = own /\ tpEvents' = tpEvents /\ tps' \subseteq tps \cup {o}
        /\ check' = check /\ closer' = closer /\ excused' = excused
        /\ row' \in {row, [row EXCEPT ![o] = IF @ = "OPEN" THEN "PROTECTED" ELSE @]}
    BY <1>5 DEF Protect, router
  <2>2. OrderGood(o)' /\ Moved(o)
    BY <1>0, <2>1 DEF OrderGood, Moved, Begun
  <2>3. \A p \in Orders \ {o} : Still(p)
    BY <1>0, <2>1 DEF Still
  <2> QED
    BY <2>1, <2>2, <2>3, OneOrder
<1>6. CASE CancelPending(o)
  <2>1. OrderGood(o)' /\ Moved(o)
    BY <1>0, <1>6 DEF CancelPending, OrderGood, Moved, Begun, exchange
  <2>2. \A p \in Orders \ {o} : Still(p)
    BY <1>0, <1>6 DEF CancelPending, Still, exchange
  <2> QED
    BY <1>6, <2>1, <2>2, OneOrder DEF CancelPending, router
<1>7. CASE HandleCancel(o)
  <2>1. OrderGood(o)' /\ Moved(o)
    <3>1. CASE stage[o] = "resting" /\ stage' = [stage EXCEPT ![o] = "done"] /\ excused' = excused
      BY <1>0, <1>7, <3>1 DEF HandleCancel, OrderGood, Moved, Begun, exchange
    <3>2. CASE stage' = stage /\ excused' = excused \cup {o}
      BY <1>0, <1>7, <3>2 DEF HandleCancel, OrderGood, Moved, Begun, exchange
    <3> QED
      BY <1>7, <3>1, <3>2 DEF HandleCancel
  <2>2. \A p \in Orders \ {o} : Still(p)
    BY <1>0, <1>7 DEF HandleCancel, Still, exchange
  <2>3. excused \subseteq excused' /\ check' = check /\ closer' = closer
    BY <1>7 DEF HandleCancel, router
  <2> QED
    BY <2>1, <2>2, <2>3, OneOrder
<1> QED
  BY <1>1, <1>2, <1>3, <1>4, <1>5, <1>6, <1>7

LEMMA ExchangeSteps ==
  ASSUME Types, Types', Core,
         (\E o \in Orders : TpFill(o) \/ WsTpFill(o)) \/ SlFire \/ ManualClose \/ Tidy
  PROVE  Core'
<1>1. ASSUME NEW o \in Orders, TpFill(o)
      PROVE  Core'
  <2>1. PICK f \in Sold({o}, 1) : own' = f
    BY <1>1 DEF TpFill
  <2>2. \A p \in Orders : Still(p)
    BY <1>1, <2>1, SoldLess DEF TpFill, Still, rows
  <2> QED
    BY <1>1, <2>2, OrdersOnly DEF TpFill, router
<1>2. ASSUME NEW o \in Orders, WsTpFill(o)
      PROVE  Core'
  <2>1. /\ o \in tpEvents /\ tpEvents' = tpEvents \ {o} /\ tps' \subseteq tps
        /\ stage' = stage /\ own' = own /\ check' = check /\ closer' = closer
        /\ excused' = excused
        /\ \/ row' = row
           \/ row' = [row EXCEPT ![o] = "CLOSED"] /\ ~ (Position > 0)
    BY <1>2 DEF WsTpFill, router, Types
  <2>2. OrderGood(o) /\ row \in [Orders -> Rows]
    BY DEF Core, Types
  <2>3. \A p \in Orders \ {o} : Still(p)
    BY <2>1, <2>2 DEF Still
  <2>4. CASE row' = row
    <3>1. Still(o)
      BY <2>1, <2>4 DEF Still
    <3> QED
      BY <2>1, <2>3, <3>1, OrdersOnly
  <2>5. CASE row' = [row EXCEPT ![o] = "CLOSED"] /\ ~ (Position > 0)
    <3>1. own[o] # 1
      BY <2>5, NoPosition, PositionNat
    <3>2. OrderGood(o)' /\ Moved(o)
      BY <2>1, <2>2, <2>5, <3>1 DEF OrderGood, Moved, Begun
    <3> QED
      BY <2>1, <2>3, <3>2, OneOrder
  <2> QED
    BY <2>1, <2>4, <2>5
<1>3. CASE SlFire
  <2>1. PICK f \in Sold({}, sl) : own' = f
    BY <1>3 DEF SlFire
  <2>2. \A p \in Orders : Still(p)
    BY <1>3, <2>1, SoldLess DEF SlFire, Still, rows
  <2> QED
    BY <1>3, <2>2, OrdersOnly DEF SlFire, router
<1>4. CASE ManualClose
  <2>1. \A p \in Orders : Still(p)
    BY <1>4 DEF ManualClose, Still, rows
  <2> QED
    BY <1>4, <2>1, OrdersOnly DEF ManualClose, router
<1>5. CASE Tidy
  <2>1. \A p \in Orders : Still(p)
    BY <1>5 DEF Tidy, Still, rows
  <2> QED
    BY <1>5, <2>1, OrdersOnly DEF Tidy, router
<1> QED
  BY <1>1, <1>2, <1>3, <1>4, <1>5

-----------------------------------------------------------------------------
(* checkPositionClosed *)

\* A step of one check that leaves the orders as they are.
LEMMA CheckStep ==
  ASSUME Types, Types', Core, excused \subseteq excused', closer' = closer,
         UNCHANGED rows, UNCHANGED own, tps' \cup tpEvents' \subseteq tps \cup tpEvents,
         NEW c \in Checks, CheckGood(c)', \A d \in Checks \ {c} : check'[d] = check[d]
  PROVE  Core'
<1>1. \A o \in Orders : Still(o)
  BY DEF Still, rows
<1> QED
  BY <1>1, Frame

\* On the way to its verifications, or out of them, a check claims nothing.
LEMMA Unlooking ==
  ASSUME Types, Core, UNCHANGED rows, NEW c \in Checks, NEW p \in CheckPcs \ Looked,
         check' = [check EXCEPT ![c].pc = p]
  PROVE  CheckGood(c)' /\ \A d \in Checks \ {c} : check'[d] = check[d]
<1>1. check \in [Checks -> CheckType]
  BY DEF Types
<1>2. /\ check'[c] = [check[c] EXCEPT !.pc = p]
      /\ \A d \in Checks \ {c} : check'[d] = check[d]
      /\ check'[c].pc = p /\ check'[c].found = check[c].found
  BY <1>1, CheckPc
<1>3. CheckGood(c)
  BY DEF Core
<1> QED
  BY <1>2, <1>3 DEF CheckGood, Begun, rows

\* From one of its later stages to the next.
LEMMA Looking ==
  ASSUME Types, Core, UNCHANGED rows, UNCHANGED own, excused \subseteq excused',
         NEW c \in Checks, NEW p \in CheckPcs,
         check[c].pc \in Looked \/ Live \subseteq excused',
         check' = [check EXCEPT ![c].pc = p]
  PROVE  CheckGood(c)' /\ \A d \in Checks \ {c} : check'[d] = check[d]
<1>1. check \in [Checks -> CheckType]
  BY DEF Types
<1>2. /\ check'[c] = [check[c] EXCEPT !.pc = p]
      /\ \A d \in Checks \ {c} : check'[d] = check[d]
      /\ check'[c].pc = p /\ check'[c].found = check[c].found
  BY <1>1, CheckPc
<1>3. CheckGood(c)
  BY DEF Core
<1>4. Live \subseteq excused'
  BY <1>3 DEF CheckGood
<1> QED
  BY <1>2, <1>3, <1>4 DEF CheckGood, Begun, rows, Live

LEMMA EnterKeeps ==
  ASSUME Types, Types', Core, NEW c \in Checks, ZeroEvent(c) \/ Deferred(c)
  PROVE  Core'
<1>1. PICK p \in {"idle", "deferred", "verify1"} : check' = [check EXCEPT ![c].pc = p]
  <2>1. Enter(c)
    BY DEF ZeroEvent, Deferred
  <2>2. CASE inflight
    BY <2>1, <2>2 DEF Enter
  <2>3. CASE ~inflight
    <3>1. (IF cooled THEN "idle" ELSE IF opening THEN "deferred" ELSE "verify1")
            \in {"idle", "deferred", "verify1"}
      OBVIOUS
    <3> QED
      BY <2>1, <2>3, <3>1 DEF Enter
  <2> QED
    BY <2>2, <2>3
<1>2. p \in CheckPcs \ Looked
  BY DEF CheckPcs, Looked
<1>3. /\ UNCHANGED rows /\ UNCHANGED own /\ UNCHANGED <<tps, tpEvents>>
      /\ closer' = closer /\ excused' = excused
  BY DEF ZeroEvent, Deferred, exchange
<1>4. CheckGood(c)' /\ \A d \in Checks \ {c} : check'[d] = check[d]
  BY <1>1, <1>2, <1>3, Unlooking
<1> QED
  BY <1>3, <1>4, CheckStep

LEMMA VerifyKeeps ==
  ASSUME Types, Types', Core, NEW c \in Checks, Verify1(c) \/ Verify2(c)
  PROVE  Core'
<1>1. PICK from \in CheckPcs, to \in {"verify2", "guard"} : Verify(c, from, to)
  BY DEF Verify1, Verify2, CheckPcs, Looked
<1>2. /\ UNCHANGED rows /\ UNCHANGED own /\ UNCHANGED <<tps, tpEvents>>
      /\ closer' = closer /\ excused \subseteq excused'
  BY <1>1 DEF Verify, exchange
<1>3. CASE Abort(c)
  <2>1. "idle" \in CheckPcs \ Looked
    BY DEF CheckPcs, Looked
  <2>2. check' = [check EXCEPT ![c].pc = "idle"]
    BY <1>3 DEF Abort
  <2> QED
    BY <1>2, <2>1, <2>2, Unlooking, CheckStep
<1>4. CASE Pass(c, to) /\ excused' = excused \cup {o \in Orders : to \in Looked /\ own[o] > 0}
  <2>1. check' = [check EXCEPT ![c].pc = to] /\ to \in CheckPcs
    BY <1>4 DEF Pass, CheckPcs, Looked
  <2>2. CASE to \in Looked
    <3>1. Live \subseteq excused'
      BY <1>4, <2>2 DEF Live
    <3> QED
      BY <1>2, <2>1, <3>1, Looking, CheckStep
  <2>3. CASE to \notin Looked
    BY <1>2, <2>1, <2>3, Unlooking, CheckStep
  <2> QED
    BY <2>2, <2>3
<1> QED
  BY <1>1, <1>3, <1>4 DEF Verify

LEMMA LaterKeeps ==
  ASSUME Types, Types', Core, NEW c \in Checks,
         Guard(c) \/ ReadActive(c) \/ CancelFound(c) \/ EndCheck(c)
  PROVE  Core'
<1>0. /\ UNCHANGED rows /\ UNCHANGED own /\ tps' \subseteq tps /\ tpEvents' = tpEvents
      /\ closer' = closer /\ excused' = excused
  BY DEF Guard, ReadActive, CancelFound, EndCheck, exchange, Types
<1>1. CASE Guard(c)
  <2>1. check[c].pc \in Looked
    BY <1>1 DEF Guard, Looked
  <2>2. PICK p \in {"idle", "read"} : check' = [check EXCEPT ![c].pc = p]
    BY <1>1 DEF Guard, Abort, Pass
  <2>3. p \in CheckPcs
    BY DEF CheckPcs, Looked
  <2> QED
    BY <1>0, <2>1, <2>2, <2>3, Looking, CheckStep
<1>2. CASE ReadActive(c)
  <2>1. /\ check' = [check EXCEPT ![c] = [pc |-> "cancel", found |-> Active]]
        /\ check[c].pc \in Looked /\ CheckGood(c)
    BY <1>2 DEF ReadActive, Looked, Core
  <2>2. check'[c] = [pc |-> "cancel", found |-> Active]
        /\ \A d \in Checks \ {c} : check'[d] = check[d]
    BY <2>1 DEF Types
  <2>3. \A o \in Active : Begun(o)
    BY DEF Active, Core, OrderGood
  <2>4. CheckGood(c)'
    BY <1>0, <2>1, <2>2, <2>3 DEF CheckGood, Begun, rows, Live
  <2> QED
    BY <1>0, <2>2, <2>4, CheckStep
<1>3. CASE CancelFound(c)
  <2>1. check[c].pc \in Looked /\ check' = [check EXCEPT ![c].pc = "save"]
        /\ "save" \in CheckPcs
    BY <1>3 DEF CancelFound, Looked, CheckPcs
  <2> QED
    BY <1>0, <2>1, Looking, CheckStep
<1>4. CASE EndCheck(c)
  <2>1. check' = [check EXCEPT ![c].pc = "idle"] /\ "idle" \in CheckPcs \ Looked
    BY <1>4 DEF EndCheck, Looked, CheckPcs
  <2> QED
    BY <1>0, <2>1, Unlooking, CheckStep
<1> QED
  BY <1>1, <1>2, <1>3, <1>4

LEMMA SaveKeeps ==
  ASSUME Types, Types', Core, NEW c \in Checks, SaveClosed(c)
  PROVE  Core'
<1>0. check[c] \in CheckType /\ check \in [Checks -> CheckType] /\ CheckGood(c)
  BY DEF Types, Core
<1>1. PICK o \in check[c].found :
            /\ row' = [row EXCEPT ![o] = "CLOSED"]
            /\ check' = [check EXCEPT ![c].found = @ \ {o}]
  BY DEF SaveClosed
<1>2. /\ o \in Orders /\ Begun(o) /\ OrderGood(o) /\ Live \subseteq excused
      /\ row \in [Orders -> Rows]
  BY <1>0, <1>1 DEF CheckType, CheckGood, SaveClosed, Looked, Core, Types
<1>3. /\ stage' = stage /\ own' = own /\ tps' = tps /\ tpEvents' = tpEvents
      /\ closer' = closer /\ excused' = excused
  BY DEF SaveClosed, exchange
<1>4. OrderGood(o)' /\ Moved(o)
  BY <1>1, <1>2, <1>3 DEF OrderGood, Moved, Begun, Live
<1>5. \A p \in Orders \ {o} : Still(p)
  BY <1>1, <1>2, <1>3 DEF Still
<1>6. check'[c].pc = check[c].pc /\ check'[c].found = check[c].found \ {o}
      /\ \A d \in Checks \ {c} : check'[d] = check[d]
  BY <1>0, <1>1 DEF CheckType
<1>7. CheckGood(c)'
  BY <1>0, <1>3, <1>6 DEF CheckGood, Begun, Live
<1> QED
  BY <1>3, <1>4, <1>5, <1>6, <1>7, Frame

LEMMA RouterSteps ==
  ASSUME Types, Types', Core,
         (\E c \in Checks : ZeroEvent(c) \/ RunCheck(c)) \/ OpenEvent \/ CooldownEnds
  PROVE  Core'
<1>1. CASE OpenEvent \/ CooldownEnds
  <2>1. \A o \in Orders : Still(o)
    BY <1>1 DEF OpenEvent, CooldownEnds, Still, rows, exchange
  <2> QED
    BY <1>1, <2>1, OrdersOnly DEF OpenEvent, CooldownEnds
<1> QED
  BY <1>1, EnterKeeps, VerifyKeeps, LaterKeeps, SaveKeeps DEF RunCheck

-----------------------------------------------------------------------------
(* handleClose *)

\* A step of one close that at most takes from the orders.
LEMMA CloseStep ==
  ASSUME Types, Types', Core, excused' = excused, check' = check,
         \A o \in Orders : Still(o),
         NEW k \in Closers, CloserGood(k)', \A j \in Closers \ {k} : closer'[j] = closer[j]
  PROVE  Core'
BY Frame

\* What part of the orders holds is no more than what its part has, nor than
\* the position.
LEMMA HeldCounts ==
  ASSUME NEW S, S \subseteq Orders
  PROVE  LET held == {o \in S : own[o] = 1}
         IN  /\ IsFiniteSet(held) /\ Cardinality(held) \in Nat
             /\ Cardinality(S) \in Nat /\ Cardinality(held) <= Cardinality(S)
             /\ Cardinality(held) <= Position
<1> DEFINE held == {o \in S : own[o] = 1}
           live == {o \in Orders : own[o] = 1}
<1>1. IsFiniteSet(S) /\ IsFiniteSet(live) /\ IsFiniteSet(held)
      /\ held \subseteq S /\ held \subseteq live
  BY Counts
<1>2. Cardinality(held) <= Cardinality(S) /\ Cardinality(held) <= Cardinality(live)
  BY <1>1, FS_Subset
<1> QED
  BY <1>1, <1>2, FS_CardinalityType DEF Position

LEMMA IdleGood ==
  ASSUME NEW k \in Closers, closer'[k] = Idle
  PROVE  CloserGood(k)'
BY DEF Idle, CloserGood, Held

LEMMA BeginGood ==
  ASSUME Types, Types', Core, NEW k \in Closers, NEW o \in Orders, BeginClose(k, o),
         stage' = stage, own' = own
  PROVE  CloserGood(k)' /\ \A j \in Closers \ {k} : closer'[j] = closer[j]
<1> DEFINE scope == Scope(o)
           part == {p \in scope : left'[p] > 0}
<1>0. /\ scope \subseteq Orders /\ \A p \in scope : Begun(p)
      /\ closer \in [Closers -> CloserType] /\ closer[k] \in CloserType
  BY DEF Scope, Active, Core, OrderGood, Types
<1>1. \/ closer' = [closer EXCEPT ![k] = [pc |-> "cancel", scope |-> scope, amount |-> 0,
                                          tracked |-> part]]
      \/ closer' = [closer EXCEPT ![k].pc = "send", ![k].amount = Position]
  BY DEF BeginClose
<1> HIDE DEF scope
<1>2. CASE closer' = [closer EXCEPT ![k] = [pc |-> "cancel", scope |-> scope, amount |-> 0,
                                            tracked |-> part]]
  <2>1. /\ closer'[k] = [pc |-> "cancel", scope |-> scope, amount |-> 0, tracked |-> part]
        /\ \A j \in Closers \ {k} : closer'[j] = closer[j]
    BY <1>0, <1>2
  <2>2. /\ closer'[k].pc = "cancel" /\ closer'[k].scope = scope
        /\ closer'[k].tracked \subseteq scope
    BY <2>1
  <2> QED
    BY <1>0, <2>1, <2>2 DEF CloserGood, Begun
<1>3. CASE closer' = [closer EXCEPT ![k].pc = "send", ![k].amount = Position]
  <2>1. /\ closer'[k].pc = "send" /\ closer'[k].amount = Position
        /\ closer'[k].scope = closer[k].scope /\ closer'[k].tracked = closer[k].tracked
        /\ \A j \in Closers \ {k} : closer'[j] = closer[j]
    BY <1>0, <1>3 DEF CloserType
  <2>2. closer[k].scope \subseteq Orders /\ CloserGood(k)
    BY <1>0 DEF CloserType, Core
  <2>3. Held(k)' = {p \in closer[k].scope : own[p] = 1}
    BY <2>1 DEF Held
  <2>4. Cardinality(Held(k)') <= Position
    BY <2>2, <2>3, HeldCounts
  <2> QED
    BY <2>1, <2>2, <2>4 DEF CloserGood, Begun
<1> QED
  BY <1>1, <1>2, <1>3

\* The amount of a close is enough for all its orders still hold.
LEMMA SizeGood ==
  ASSUME Types, Types', Core, NEW k \in Closers, CloseSize(k)
  PROVE  CloserGood(k)'
<1> DEFINE n == Lesser(Cardinality(closer[k].scope), Position)
<1>0. /\ closer \in [Closers -> CloserType] /\ closer[k] \in CloserType
      /\ closer[k].scope \subseteq Orders /\ CloserGood(k) /\ stage' = stage /\ own' = own
  BY DEF Types, CloserType, Core, CloseSize, rows, exchange
<1>1. CASE closer' = [closer EXCEPT ![k] = Idle]
  BY <1>0, <1>1, IdleGood
<1>2. CASE closer' = [closer EXCEPT ![k] = [closer[k] EXCEPT !.pc = "strip", !.amount = n]]
  <2>1. /\ closer'[k].pc = "strip" /\ closer'[k].amount = n
        /\ closer'[k].scope = closer[k].scope /\ closer'[k].tracked = closer[k].tracked
    BY <1>0, <1>2 DEF CloserType
  <2>2. Held(k)' = {p \in closer[k].scope : own[p] = 1}
    BY <1>0, <2>1 DEF Held
  <2>3. Cardinality(Held(k)') <= n
    <3>1. /\ Cardinality(Held(k)') <= Cardinality(closer[k].scope)
          /\ Cardinality(Held(k)') <= Position
      BY <1>0, <2>2, HeldCounts
    <3> QED
      BY <3>1 DEF Lesser
  <2> QED
    BY <1>0, <2>1, <2>3 DEF CloserGood, Begun
<1> QED
  BY <1>0, <1>1, <1>2 DEF CloseSize

\* A sale of at least what some orders hold, theirs first, takes it all.
LEMMA SoldOut ==
  ASSUME Types, NEW mine, mine \subseteq Orders, NEW n \in Nat, NEW f \in Sold(mine, n),
         Cardinality({o \in mine : own[o] = 1}) <= n
  PROVE  \A o \in mine : f[o] # 1
<1> DEFINE gone == {o \in Orders : own[o] = 1 /\ f[o] = 0}
           held == {o \in mine : own[o] = 1}
<1>1. /\ Cardinality(gone) = Lesser(n, Position)
      /\ held \subseteq gone \/ gone \subseteq held
      /\ \A o \in Orders : f[o] <= own[o]
  BY DEF Sold
<1>2. /\ IsFiniteSet(held) /\ Cardinality(held) \in Nat /\ Cardinality(held) <= Position
      /\ Position \in Nat
  BY HeldCounts, PositionNat
<1>3. Cardinality(held) <= Cardinality(gone)
  BY <1>1, <1>2 DEF Lesser
<1>4. held \subseteq gone
  <2> SUFFICES ASSUME gone \subseteq held, gone # held PROVE FALSE
    BY <1>1
  <2>1. gone \in SUBSET held /\ Cardinality(gone) <= Cardinality(held)
        /\ (Cardinality(gone) = Cardinality(held) => gone = held)
    BY <1>2, FS_Subset
  <2>2. Cardinality(gone) \in Nat
    BY Counts
  <2> QED
    BY <1>2, <1>3, <2>1, <2>2
<1>5. ASSUME NEW o \in mine, f[o] = 1
      PROVE  FALSE
  <2>1. own[o] = 1
    BY <1>5, SoldLess
  <2>2. f[o] = 0
    BY <1>4, <2>1
  <2> QED
    BY <1>5, <2>2
<1> QED
  BY <1>5

LEMMA SendGood ==
  ASSUME Types, Types', Core, NEW k \in Closers, CloseSend(k)
  PROVE  CloserGood(k)' /\ \A o \in Orders : Still(o)
<1>0. /\ closer \in [Closers -> CloserType] /\ closer[k] \in CloserType
      /\ closer[k].scope \subseteq Orders /\ closer[k].amount \in Nat
      /\ CloserGood(k) /\ stage' = stage /\ row' = row
      /\ UNCHANGED <<tps, tpEvents>> /\ closer[k].pc = "send"
  BY Counts DEF Types, CloserType, Core, CloseSend, rows
<1>1. CASE UNCHANGED own /\ closer' = [closer EXCEPT ![k] = Idle]
  <2>1. closer'[k] = Idle
    BY <1>0, <1>1
  <2> QED
    BY <1>0, <1>1, <2>1, IdleGood DEF Still
<1>2. CASE Sell(k) /\ closer' = [closer EXCEPT ![k] =
                        IF @.scope = {} THEN Idle ELSE [@ EXCEPT !.pc = "sweep"]]
  <2>1. PICK f \in Sold(closer[k].scope, closer[k].amount) : own' = f
    BY <1>2 DEF Sell
  <2>2. \A o \in Orders : Still(o)
    BY <1>0, <2>1, SoldLess DEF Still
  <2>3. \A o \in closer[k].scope : own'[o] # 1
    BY <1>0, <2>1, SoldOut DEF CloserGood, Held
  <2>4. CASE closer'[k] = Idle
    BY <2>2, <2>4, IdleGood
  <2>5. CASE closer'[k] = [closer[k] EXCEPT !.pc = "sweep"]
    <3>1. /\ closer'[k].pc = "sweep" /\ closer'[k].scope = closer[k].scope
          /\ closer'[k].tracked = closer[k].tracked
      BY <1>0, <2>5 DEF CloserType
    <3> QED
      BY <1>0, <2>2, <2>3, <3>1 DEF CloserGood, Held, Begun
  <2> QED
    BY <1>0, <1>2, <2>4, <2>5
<1> QED
  BY <1>1, <1>2 DEF CloseSend

LEMMA CloserSteps ==
  ASSUME Types, Types', Core, NEW k \in Closers,
         Close(k) \/ \E o \in Orders : RequestClose(k, o)
  PROVE  Core'
<1>0. /\ closer \in [Closers -> CloserType] /\ closer[k] \in CloserType
      /\ CloserGood(k) /\ closer[k].scope \subseteq Orders
  BY DEF Types, Core, CloserType
<1>1. ASSUME NEW o \in Orders, RequestClose(k, o)
      PROVE  Core'
  <2>1. \A p \in Orders : Still(p)
    BY <1>1 DEF RequestClose, Still, exchange
  <2>2. CloserGood(k)' /\ \A j \in Closers \ {k} : closer'[j] = closer[j]
    BY <1>1, BeginGood DEF RequestClose, exchange
  <2> QED
    BY <1>1, <2>1, <2>2, CloseStep DEF RequestClose, router
<1>2. CASE CloseCancel(k) \/ CloseStrip(k) \/ CloseSweep(k)
  <2>1. PICK p \in {"size", "send", "record"} :
              /\ closer' = [closer EXCEPT ![k].pc = p]
              /\ p = "send" => closer[k].pc = "strip"
              /\ p = "record" => closer[k].pc = "sweep"
    BY <1>2 DEF CloseCancel, CloseStrip, CloseSweep
  <2>2. /\ closer'[k].pc = p /\ closer'[k].scope = closer[k].scope
        /\ closer'[k].tracked = closer[k].tracked /\ closer'[k].amount = closer[k].amount
        /\ \A j \in Closers \ {k} : closer'[j] = closer[j]
    BY <1>0, <2>1 DEF CloserType
  <2>3. /\ UNCHANGED rows /\ own' = own /\ tps' \subseteq tps /\ tpEvents' = tpEvents
        /\ check' = check /\ excused' = excused
    BY <1>2 DEF CloseCancel, CloseStrip, CloseSweep, router
  <2>4. \A o \in Orders : Still(o)
    BY <2>3 DEF Still, rows
  <2>5. Held(k)' = Held(k) /\ \A o \in closer[k].scope : Begun(o)'
    BY <1>0, <2>2, <2>3 DEF Held, CloserGood, Begun, rows
  <2>6. CloserGood(k)'
    BY <1>0, <2>1, <2>2, <2>5 DEF CloserGood
  <2> QED
    BY <2>2, <2>3, <2>4, <2>6, CloseStep
<1>3. CASE CloseSize(k)
  <2>1. \A o \in Orders : Still(o)
    BY <1>3 DEF CloseSize, Still, rows, exchange
  <2>2. \A j \in Closers \ {k} : closer'[j] = closer[j]
    BY <1>0, <1>3 DEF CloseSize
  <2> QED
    BY <1>3, <2>1, <2>2, SizeGood, CloseStep DEF CloseSize, router
<1>4. CASE CloseSend(k)
  <2>1. \A j \in Closers \ {k} : closer'[j] = closer[j]
    BY <1>0, <1>4 DEF CloseSend
  <2> QED
    BY <1>4, <2>1, SendGood, CloseStep DEF CloseSend, router
<1>5. CASE CloseRecord(k)
  <2>1. PICK paid \in SUBSET closer[k].tracked :
              row' = [o \in Orders |-> IF o \in paid THEN "CLOSED" ELSE row[o]]
    BY <1>5 DEF CloseRecord
  <2>2. /\ stage' = stage /\ own' = own /\ UNCHANGED <<tps, tpEvents>> /\ check' = check
        /\ excused' = excused /\ closer' = [closer EXCEPT ![k] = Idle]
        /\ closer[k].pc = "record"
    BY <1>5 DEF CloseRecord, exchange, router
  <2>3. closer'[k] = Idle /\ \A j \in Closers \ {k} : closer'[j] = closer[j]
    BY <1>0, <2>2
  <2>4. ASSUME NEW o \in Orders
        PROVE  Still(o) \/ (OrderGood(o)' /\ Moved(o))
    <3>1. CASE o \in paid
      <4>1. Begun(o) /\ own[o] # 1 /\ OrderGood(o)
        BY <1>0, <2>2, <3>1 DEF CloserGood, Held, Core
      <4>2. row'[o] = "CLOSED"
        BY <2>1, <3>1
      <4> QED
        BY <2>2, <4>1, <4>2 DEF OrderGood, Moved, Begun
    <3>2. CASE o \notin paid
      BY <2>1, <2>2, <3>2 DEF Still
    <3> QED
      BY <3>1, <3>2
  <2>5. CloserGood(k)'
    BY <2>3, IdleGood
  <2> QED
    BY <2>2, <2>3, <2>4, <2>5, Frame
<1> QED
  BY <1>1, <1>2, <1>3, <1>4, <1>5 DEF Close

-----------------------------------------------------------------------------
(* UpdateOrderService and NoStopLossMonitor *)

LEMMA UpdateSteps ==
  ASSUME Types, Types', Core, NEW o \in Orders, UpdateSl(o)
  PROVE  Core'
<1>1. /\ UNCHANGED <<stage, row, own, tps, tpEvents>> /\ check' = check /\ excused' = excused
      /\ closer' = closer \/ \E k \in Closers : BeginClose(k, o)
  BY DEF UpdateSl, BreakevenClose, router
<1>2. \A p \in Orders : Still(p)
  BY <1>1 DEF Still
<1>3. CASE closer' = closer
  BY <1>1, <1>2, <1>3, OrdersOnly
<1>4. ASSUME NEW k \in Closers, BeginClose(k, o)
      PROVE  Core'
  BY <1>1, <1>2, <1>4, BeginGood, CloseStep
<1> QED
  BY <1>1, <1>3, <1>4

LEMMA ScanSteps ==
  ASSUME Types, Types', Core, NEW o \in Orders, Scan(o)
  PROVE  Core'
<1>0. OrderGood(o) /\ stage \in [Orders -> Stages] /\ row \in [Orders -> Rows]
      /\ own \in [Orders -> 0..1]
  BY DEF Core, Types
<1>1. CASE ScanGone(o) \/ ScanCovered(o) \/ ScanMissing(o)
  <2>1. \A p \in Orders : Still(p)
    BY <1>1 DEF ScanGone, ScanCovered, ScanMissing, Still, rows, exchange
  <2> QED
    BY <1>1, <2>1, OrdersOnly DEF ScanGone, ScanCovered, ScanMissing, router
<1>2. CASE ScanAbsent(o)
  <2>1. /\ stage' = stage /\ own' = own /\ tps' \subseteq tps /\ tpEvents' = tpEvents
        /\ check' = check /\ closer' = closer
        /\ excused' = IF Position > 0 THEN excused \cup {o} ELSE excused
        /\ \/ row' = row
           \/ row' = [row EXCEPT ![o] = "CLOSED"] /\ row[o] # "PENDING" /\ Watched(o)
    BY <1>2 DEF ScanAbsent, router, Types
  <2>2. excused \subseteq excused' /\ (Position > 0 => o \in excused')
    BY <2>1
  <2>3. \A p \in Orders \ {o} : Still(p)
    BY <1>0, <2>1 DEF Still
  <2>4. CASE row' = row
    <3>1. Still(o)
      BY <2>1, <2>4 DEF Still
    <3> QED
      BY <2>1, <2>2, <2>3, <3>1, OrdersOnly
  <2>5. CASE row' = [row EXCEPT ![o] = "CLOSED"] /\ row[o] # "PENDING" /\ Watched(o)
    <3>1. Begun(o)
      BY <1>0, <2>5 DEF Watched, OrderGood
    <3>2. own[o] = 1 => o \in excused'
      BY <2>2, NoPosition, PositionNat
    <3>3. OrderGood(o)' /\ Moved(o)
      BY <1>0, <2>1, <2>5, <3>1, <3>2 DEF OrderGood, Moved, Begun
    <3> QED
      BY <2>1, <2>2, <2>3, <3>3, OneOrder
  <2> QED
    BY <2>1, <2>4, <2>5
<1>3. CASE ScanReplace(o)
  <2>1. OrderGood(o)' /\ Moved(o)
    BY <1>0, <1>3 DEF ScanReplace, OrderGood, Moved, Begun
  <2>2. \A p \in Orders \ {o} : Still(p)
    BY <1>0, <1>3 DEF ScanReplace, Still
  <2> QED
    BY <1>3, <2>1, <2>2, OneOrder DEF ScanReplace, router
<1>4. ASSUME NEW k \in Closers, ScanClose(o, k)
      PROVE  Core'
  <2>1. \A p \in Orders : Still(p)
    BY <1>4 DEF ScanClose, Still, exchange
  <2>2. CloserGood(k)' /\ \A j \in Closers \ {k} : closer'[j] = closer[j]
    BY <1>4, BeginGood DEF ScanClose, exchange
  <2> QED
    BY <1>4, <2>1, <2>2, CloseStep DEF ScanClose, router
<1> QED
  BY <1>1, <1>2, <1>3, <1>4 DEF Scan

-----------------------------------------------------------------------------

LEMMA InitCore == Init => Core
<1> SUFFICES ASSUME Init PROVE Core
  OBVIOUS
<1>1. \A o \in Orders : OrderGood(o)
  BY DEF Init, OrderGood
<1>2. \A c \in Checks : CheckGood(c)
  BY DEF Init, CheckGood, Looked
<1>3. \A k \in Closers : CloserGood(k)
  BY DEF Init, Idle, CloserGood, Held
<1> QED
  BY <1>1, <1>2, <1>3 DEF Core

LEMMA StepCore == Types /\ Types' /\ Core /\ [Next]_vars => Core'
<1> SUFFICES ASSUME Types, Types', Core, [Next]_vars PROVE Core'
  OBVIOUS
<1>1. CASE Next
  BY <1>1, OrderSteps, ExchangeSteps, RouterSteps, CloserSteps, UpdateSteps, ScanSteps
  DEF Next, Program, Environment, Handle
<1>2. CASE vars' = vars
  <2>1. \A o \in Orders : Still(o)
    BY <1>2 DEF vars, rows, exchange, Still
  <2> QED
    BY <1>2, <2>1, OrdersOnly DEF vars, router
<1> QED
  BY <1>1, <1>2

\* The types of the position watch, for any number of orders, checks and closes.
THEOREM WatchTypeCorrect == Spec => []TypeOK
<1>1. Types => TypeOK
  BY TypesAre
<1> QED
  BY <1>1, InitTypes, StepTypes, PTL DEF Spec

\* Nobody ends the row of an order whose contract is still in the position,
\* but for the three known ways, whatever the bounds: with any number of
\* orders, duplicated checks, overlapping closes and failed calls.
THEOREM NobodyClosesLive == Spec => []ClosedLiveExcused
<1>1. Init => Types /\ Core
  BY InitTypes, InitCore
<1>2. (Types /\ Core) /\ [Next]_vars => (Types /\ Core)'
  BY StepTypes, StepCore
<1>3. Core => ClosedLiveExcused
  BY DEF Core, OrderGood, ClosedLiveExcused
<1> QED
  BY <1>1, <1>2, <1>3, PTL DEF Spec

=============================================================================
