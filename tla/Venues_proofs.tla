---------------------------- MODULE Venues_proofs ----------------------------
(***************************************************************************)
(* Theorems of the venues other than Gate perpetuals: the virtual exchange *)
(* for any number of ticks and restarts, and the groups of Gate TradFi for *)
(* any number of legs with any volumes.                                    *)
(***************************************************************************)
EXTENDS VirtualVenue, CfdLegs, Sums, TLAPS

-----------------------------------------------------------------------------
(* VirtualVenue: one inductive invariant for what a fill does to order,    *)
(* position, trade and the row of the entry                                *)

FillType ==
  [pc : {"idle", "matched", "read", "after"}, order : Book \cup {"none"}, read : Nat]
TickerType == [price : Nat, todo : SUBSET Book, fill : FillType]
OrderStatuses == {"none", "open", "filled", "cancelled"}

VenueTypes ==
  /\ status \in [Book -> OrderStatuses] /\ traded \in [Book -> Nat] /\ size \in Nat
  /\ ticker \in TickerType /\ call \in FillType

\* A fill at work is that of an order; calls never match a stop.
FillsNamed ==
  /\ ticker.fill.pc # "idle" => ticker.fill.order \in Book
  /\ call.pc # "idle" => call.order \in Book \ Stops
  /\ ticker.fill.pc = "after" => traded[ticker.fill.order] > 0

\* An order that is open, or not placed yet, has not traded.
OpenUntraded == \A o \in Book : status[o] \in {"none", "open"} => traded[o] = 0

\* Protections are placed for a row that is open.
ProtectionsLater == ownRow = "INIT" => \A o \in Stops \cup {"tp"} : status[o] = "none"

\* Only an order that was placed is cancelled.
CancelsPlaced == \A o \in canceller \cap Book : status[o] # "none"

\* A protection that filled under an open row is still to be handled, unless
\* it was matched as it was placed.
StillHandled ==
  ~cut /\ ownRow = "OPEN" => \A o \in Stops \cup {"tp"} : traded[o] > 0 =>
    \/ o \in silent
    \/ ticker.fill.pc = "after" /\ ticker.fill.order = o
    \/ call.pc = "after" /\ call.order = o

\* A stop counts as saved only while the id that was saved is its own.
SavedStops ==
  /\ \A o \in saved : o \in Book /\ traded[o] > 0
  /\ ticker.fill.pc = "after" /\ ticker.fill.order \in saved \cap Stops
       => stopId = ticker.fill.order

OtherClosed == otherRow = "CLOSED" => \E o \in Stops : traded[o] > 0 /\ o \notin saved

VenueInv ==
  /\ VenueTypes /\ FillsNamed /\ OpenUntraded /\ PositionIsTrades /\ TradedIsFilled
  /\ ProtectionsLater /\ CancelsPlaced /\ StillHandled /\ SavedStops /\ OtherClosed

LEMMA BookNames ==
  /\ Stops \subseteq Reducing /\ Reducing \subseteq Book
  /\ Book = {"entry", "add", "tp", "close", "sl", "sl2"}
  /\ Reducing = {"tp", "close", "sl", "sl2"} /\ Stops = {"sl", "sl2"}
  /\ "none" \notin Book
BY DEF Book, Reducing, Stops

LEMMA LeastOfTwo ==
  ASSUME NEW a \in Nat, NEW b \in Nat
  PROVE  Min({a, b}) = IF a <= b THEN a ELSE b
<1> DEFINE m == IF a <= b THEN a ELSE b
<1>1. m \in {a, b} /\ \A y \in {a, b} : m <= y
  OBVIOUS
<1>2. \A x \in {a, b} : (\A y \in {a, b} : x <= y) => x = m
  OBVIOUS
<1> QED
  BY <1>1, <1>2 DEF Min

\* What a fill closes: never more than the position that was read.
LEMMA ClosedAmount ==
  ASSUME NEW o \in Book, NEW read \in Nat, o \in Reducing => read > 0
  PROVE  /\ Closed(o, read) \in Nat /\ Closed(o, read) > 0
         /\ o \in Reducing => Closed(o, read) <= read
         /\ Closed(o, read) <= AmountOf(o)
         /\ o \notin Reducing => Closed(o, read) = AmountOf(o)
<1>1. AmountOf(o) \in Nat /\ AmountOf(o) > 0
  BY DEF AmountOf
<1> QED
  BY <1>1, LeastOfTwo DEF Closed

LEMMA RestingType ==
  /\ Resting \in FillType /\ Resting.pc = "idle" /\ Quiet \in TickerType
  /\ Quiet.fill = Resting
<1>1. 0 \in Nat
  OBVIOUS
<1>2. Resting \in FillType /\ Resting.pc = "idle"
  BY <1>1, Zenon DEF Resting, FillType
<1> QED
  BY <1>1, <1>2, Zenon DEF Quiet, TickerType

LEMMA VenueInvInit == VirtualInit => VenueInv
<1> SUFFICES ASSUME VirtualInit PROVE VenueInv
  OBVIOUS
<1> USE RestingType, BookNames DEF VirtualInit
<1>1. VenueTypes
  BY DEF VenueTypes, OrderStatuses
<1>2. FillsNamed /\ OpenUntraded /\ PositionIsTrades /\ TradedIsFilled
  BY DEF FillsNamed, OpenUntraded, PositionIsTrades, TradedIsFilled
<1>3. ProtectionsLater /\ CancelsPlaced /\ StillHandled /\ SavedStops /\ OtherClosed
  BY DEF ProtectionsLater, CancelsPlaced, StillHandled, SavedStops, OtherClosed
<1> QED
  BY <1>1, <1>2, <1>3 DEF VenueInv

\* The transaction of a fill, when it makes one.
LEMMA Transacted ==
  ASSUME VenueInv, NEW fill \in FillType, fill.order \in Book, Transact(fill),
         Fillable(fill.order, fill.read)
  PROVE  /\ status' \in [Book -> OrderStatuses] /\ traded' \in [Book -> Nat]
         /\ size' \in Nat /\ PositionIsTrades' /\ status[fill.order] = "open"
         /\ traded[fill.order] = 0 /\ traded'[fill.order] > 0
         /\ status'[fill.order] = "filled"
         /\ \A o \in Book \ {fill.order} :
              status'[o] = status[o] /\ traded'[o] = traded[o]
<1> USE BookNames DEF VenueInv, VenueTypes
<1> DEFINE o == fill.order
           amount == Closed(o, fill.read)
<1>1. /\ status' = [status EXCEPT ![o] = "filled"]
      /\ traded' = [traded EXCEPT ![o] = amount]
      /\ size' = IF o \in Reducing THEN fill.read - amount ELSE fill.read + amount
      /\ overlap' = (overlap \/ size # fill.read)
  BY DEF Transact
<1>2. fill.read \in Nat /\ o \in Book /\ status[o] = "open" /\ (o \in Reducing => fill.read > 0)
  BY DEF FillType, Fillable
<1>3. amount \in Nat /\ amount > 0 /\ (o \in Reducing => amount <= fill.read)
  BY <1>2, ClosedAmount
<1>4. traded[o] = 0
  BY <1>2 DEF OpenUntraded
<1>5. PositionIsTrades'
  <2> HIDE DEF amount
  <2> SUFFICES ASSUME ~overlap'
               PROVE  size' = traded'["entry"] + traded'["add"]
                        - (traded'["tp"] + traded'["close"] + traded'["sl"] + traded'["sl2"])
    BY DEF PositionIsTrades
  <2>1. size = fill.read /\ ~overlap
    BY <1>1
  <2>2. size = traded["entry"] + traded["add"]
                - (traded["tp"] + traded["close"] + traded["sl"] + traded["sl2"])
    BY <2>1 DEF PositionIsTrades
  <2>3. \A b \in Book : traded'[b] = IF b = o THEN amount ELSE traded[b]
    BY <1>1
  <2>4. \A b \in Book : traded[b] \in Nat
    OBVIOUS
  <2> QED
    BY <1>1, <1>2, <1>3, <1>4, <2>1, <2>2, <2>3, <2>4
<1> QED
  BY <1>1, <1>2, <1>3, <1>4, <1>5 DEF OrderStatuses

\* An order may be placed, or cancelled while it is open.
PlacedOrCancelled(o) ==
  \/ status'[o] = status[o]
  \/ status[o] = "open" /\ status'[o] = "cancelled"
  \/ status[o] = "none" /\ status'[o] = "open" /\ (o \in Stops \cup {"tp"} => ownRow = "OPEN")

\* Steps that fill nothing and end no fill.
LEMMA NothingFills ==
  ASSUME VenueInv, UNCHANGED <<traded, size, ownRow, otherRow, stopId, histories>>,
         status' \in [Book -> OrderStatuses], \A o \in Book : PlacedOrCancelled(o),
         ticker' \in TickerType, call' \in FillType,
         ticker'.fill.pc # "idle" => ticker'.fill.order \in Book,
         call'.pc # "idle" => call'.order \in Book \ Stops,
         "after" \in {ticker.fill.pc, ticker'.fill.pc} => ticker'.fill = ticker.fill,
         "after" \in {call.pc, call'.pc} => call' = call,
         \A o \in canceller' \cap Book : o \in canceller \/ status[o] = "open"
  PROVE  VenueInv'
<1> USE BookNames DEF VenueInv, histories
<1>1. VenueTypes' /\ FillsNamed' /\ PositionIsTrades'
  BY DEF VenueTypes, FillsNamed, PositionIsTrades
<1>2. OpenUntraded' /\ TradedIsFilled' /\ CancelsPlaced'
  BY DEF VenueTypes, OpenUntraded, TradedIsFilled, CancelsPlaced, PlacedOrCancelled
<1>3. ProtectionsLater' /\ StillHandled' /\ SavedStops' /\ OtherClosed'
  BY DEF ProtectionsLater, StillHandled, SavedStops, OtherClosed, PlacedOrCancelled
<1> QED
  BY <1>1, <1>2, <1>3

\* A transaction that fills its order, whoever made it.
LEMMA OrderFills ==
  ASSUME VenueInv, NEW fill \in FillType, fill.order \in Book, Transact(fill),
         Fillable(fill.order, fill.read),
         UNCHANGED <<business, canceller, stale, silent, cut, otherRow>>,
         ticker' \in TickerType, call' \in FillType,
         \/ /\ call' = call /\ ticker.fill = fill /\ ticker.fill.pc = "read"
            /\ ticker'.fill.pc = "after" /\ ticker'.fill.order = fill.order
         \/ /\ ticker' = ticker /\ call = fill /\ call.pc = "read"
            /\ call'.pc = "after" /\ call'.order = fill.order
  PROVE  VenueInv'
<1> USE BookNames DEF VenueInv, business
<1> DEFINE o == fill.order
<1>1. /\ status' \in [Book -> OrderStatuses] /\ traded' \in [Book -> Nat]
      /\ size' \in Nat /\ PositionIsTrades' /\ status[o] = "open"
      /\ traded[o] = 0 /\ traded'[o] > 0 /\ status'[o] = "filled"
      /\ \A b \in Book \ {o} : status'[b] = status[b] /\ traded'[b] = traded[b]
  BY Transacted
<1>2. saved' = IF stopId = o THEN saved \cup {o} ELSE saved
  BY DEF Transact
<1>3. VenueTypes'
  BY <1>1 DEF VenueTypes
<1>4. FillsNamed'
  BY <1>1 DEF FillsNamed, VenueTypes, TickerType
<1>5. OpenUntraded' /\ TradedIsFilled'
  BY <1>1 DEF OpenUntraded, TradedIsFilled
<1>6. ProtectionsLater' /\ CancelsPlaced' /\ StillHandled'
  BY <1>1 DEF ProtectionsLater, CancelsPlaced, StillHandled
<1>7. o \notin saved
  BY <1>1 DEF SavedStops
<1>8. SavedStops'
  BY <1>1, <1>2, <1>7 DEF SavedStops, FillsNamed
<1>9. OtherClosed'
  BY <1>1, <1>2 DEF OtherClosed
<1> QED
  BY <1>1, <1>3, <1>4, <1>5, <1>6, <1>8, <1>9

LEMMA FillEdits ==
  ASSUME NEW fill \in FillType
  PROVE  /\ [fill EXCEPT !.pc = "after"] \in FillType
         /\ [fill EXCEPT !.pc = "after"].pc = "after"
         /\ [fill EXCEPT !.pc = "after"].order = fill.order
         /\ size \in Nat => /\ ReadPosition(fill) \in FillType
                            /\ ReadPosition(fill).pc = "read"
                            /\ ReadPosition(fill).order = fill.order
BY DEF FillType, ReadPosition

LEMMA TickerEdits ==
  ASSUME ticker \in TickerType, NEW f \in FillType
  PROVE  /\ [ticker EXCEPT !.fill = f] \in TickerType
         /\ [ticker EXCEPT !.fill = f].fill = f
BY DEF TickerType

LEMMA TickTransactKeeps ==
  ASSUME VenueInv, TickTransact
  PROVE  VenueInv'
<1> DEFINE fill == ticker.fill
           next == IF Fillable(fill.order, fill.read)
                   THEN [fill EXCEPT !.pc = "after"] ELSE Resting
<1>1. /\ fill \in FillType /\ ticker \in TickerType /\ call \in FillType /\ fill.pc = "read"
      /\ fill.order \in Book /\ Transact(fill)
      /\ ticker' = [ticker EXCEPT !.fill = next]
      /\ UNCHANGED <<last, call, canceller, business, stale, silent, cut, bounds>>
  BY DEF VenueInv, VenueTypes, TickerType, FillsNamed, TickTransact
<1>2. next \in FillType /\ ticker' \in TickerType /\ ticker'.fill = next
  BY <1>1, FillEdits, TickerEdits, RestingType
<1>3. CASE Fillable(fill.order, fill.read)
  <2>1. next.pc = "after" /\ next.order = fill.order
    BY <1>1, <1>3, FillEdits
  <2> QED
    BY <1>1, <1>2, <1>3, <2>1, OrderFills DEF business
<1>4. CASE ~Fillable(fill.order, fill.read)
  <2>1. ticker'.fill = Resting
    BY <1>2, <1>4
  <2>2. /\ UNCHANGED <<traded, size, ownRow, otherRow, stopId, histories>>
        /\ status' = IF status[fill.order] = "open"
                     THEN [status EXCEPT ![fill.order] = "cancelled"] ELSE status
    BY <1>1, <1>4 DEF Transact, business, histories
  <2>3. status' \in [Book -> OrderStatuses] /\ \A o \in Book : PlacedOrCancelled(o)
    BY <1>1, <2>2 DEF VenueInv, VenueTypes, OrderStatuses, PlacedOrCancelled
  <2> QED
    BY <1>1, <1>2, <2>1, <2>2, <2>3, NothingFills, RestingType
       DEF VenueInv, FillsNamed
<1> QED
  BY <1>3, <1>4

LEMMA CallTransactKeeps ==
  ASSUME VenueInv, CallTransact
  PROVE  VenueInv'
<1> DEFINE next == IF Fillable(call.order, call.read)
                   THEN [call EXCEPT !.pc = "after"] ELSE Resting
<1>1. /\ ticker \in TickerType /\ call \in FillType /\ call.pc = "read"
      /\ call.order \in Book \ Stops /\ Transact(call) /\ call' = next
      /\ UNCHANGED <<last, ticker, canceller, business, stale, silent, cut, bounds>>
  BY DEF VenueInv, VenueTypes, FillsNamed, CallTransact
<1>2. next \in FillType
  BY <1>1, FillEdits, RestingType
<1>3. CASE Fillable(call.order, call.read)
  <2>1. next.pc = "after" /\ next.order = call.order
    BY <1>1, <1>3, FillEdits
  <2> QED
    BY <1>1, <1>2, <1>3, <2>1, OrderFills DEF business
<1>4. CASE ~Fillable(call.order, call.read)
  <2>1. call' = Resting
    BY <1>1, <1>4
  <2>2. /\ UNCHANGED <<traded, size, ownRow, otherRow, stopId, histories>>
        /\ status' = IF status[call.order] = "open"
                     THEN [status EXCEPT ![call.order] = "cancelled"] ELSE status
    BY <1>1, <1>4 DEF Transact, business, histories
  <2>3. status' \in [Book -> OrderStatuses] /\ \A o \in Book : PlacedOrCancelled(o)
    BY <1>1, <2>2 DEF VenueInv, VenueTypes, OrderStatuses, PlacedOrCancelled
  <2> QED
    BY <1>1, <1>2, <2>1, <2>2, <2>3, NothingFills, RestingType
       DEF VenueInv, FillsNamed
<1> QED
  BY <1>3, <1>4

\* What follows a fill cancels open orders only.
LEMMA AfterFillStep ==
  ASSUME VenueInv, NEW o, AfterFill(o)
  PROVE  /\ status' \in [Book -> OrderStatuses]
         /\ \A b \in Book : \/ status'[b] = status[b]
                            \/ status[b] = "open" /\ status'[b] = "cancelled"
BY DEF VenueInv, VenueTypes, OrderStatuses, AfterFill

\* The callback of a tick's fill: the row of the entry is closed, and one of
\* another instance only by a stop that was not saved.
LEMMA TickAfterKeeps ==
  ASSUME VenueInv, TickAfter
  PROVE  VenueInv'
<1> USE BookNames DEF VenueInv
<1> DEFINE o == ticker.fill.order
<1>1. /\ ticker \in TickerType /\ call \in FillType /\ ticker.fill.pc = "after" /\ o \in Book
      /\ traded[o] > 0 /\ AfterFill(o) /\ HandleFill(o)
      /\ ticker' = [ticker EXCEPT !.fill = Resting]
      /\ UNCHANGED <<traded, size, last, call, canceller, stopId, histories, bounds>>
  BY DEF VenueTypes, FillsNamed, TickAfter
<1>2. ticker' \in TickerType /\ ticker'.fill.pc = "idle" /\ ticker'.fill = Resting
  BY <1>1, TickerEdits, RestingType
<1>3. /\ status' \in [Book -> OrderStatuses]
      /\ \A b \in Book : \/ status'[b] = status[b]
                         \/ status[b] = "open" /\ status'[b] = "cancelled"
  BY <1>1, AfterFillStep
<1>4. /\ ownRow' \in {ownRow, "CLOSED"}
      /\ o \in Stops \cup {"tp"} => ownRow' # "OPEN"
      /\ otherRow' = otherRow \/ (o \in Stops /\ stopId # o)
  BY <1>1 DEF HandleFill
<1>5. VenueTypes' /\ FillsNamed' /\ PositionIsTrades'
  BY <1>1, <1>2, <1>3 DEF VenueTypes, FillsNamed, PositionIsTrades, histories
<1>6. OpenUntraded' /\ TradedIsFilled' /\ CancelsPlaced'
  BY <1>1, <1>3 DEF VenueTypes, OpenUntraded, TradedIsFilled, CancelsPlaced, histories
<1>7. ProtectionsLater' /\ StillHandled'
  BY <1>1, <1>2, <1>3, <1>4 DEF ProtectionsLater, StillHandled, histories
<1>8. SavedStops'
  BY <1>1, <1>2 DEF SavedStops, histories
<1>9. OtherClosed'
  <2>1. CASE otherRow' = otherRow
    BY <1>1, <2>1 DEF OtherClosed, histories
  <2>2. CASE o \in Stops /\ stopId # o
    BY <1>1, <2>2 DEF OtherClosed, SavedStops, histories
  <2> QED
    BY <1>4, <2>1, <2>2
<1> QED
  BY <1>5, <1>6, <1>7, <1>8, <1>9

\* A fill made by a call is done without a callback.
LEMMA CallAfterKeeps ==
  ASSUME VenueInv, CallAfter
  PROVE  VenueInv'
<1> USE BookNames DEF VenueInv
<1>1. /\ call.pc = "after" /\ AfterFill(call.order) /\ call' = Resting
      /\ silent' = silent \cup {call.order}
      /\ UNCHANGED <<traded, size, ticker, canceller, ownRow, otherRow, stopId, overlap,
                    stale, saved, cut>>
  BY DEF CallAfter
<1>2. /\ status' \in [Book -> OrderStatuses]
      /\ \A b \in Book : \/ status'[b] = status[b]
                         \/ status[b] = "open" /\ status'[b] = "cancelled"
  BY <1>1, AfterFillStep
<1>3. VenueTypes' /\ FillsNamed' /\ PositionIsTrades'
  BY <1>1, <1>2, RestingType DEF VenueTypes, FillsNamed, PositionIsTrades
<1>4. OpenUntraded' /\ TradedIsFilled' /\ CancelsPlaced'
  BY <1>1, <1>2 DEF VenueTypes, OpenUntraded, TradedIsFilled, CancelsPlaced
<1>5. ProtectionsLater' /\ StillHandled' /\ SavedStops' /\ OtherClosed'
  BY <1>1, <1>2 DEF ProtectionsLater, StillHandled, SavedStops, OtherClosed
<1> QED
  BY <1>3, <1>4, <1>5

\* The write of a cancel: an order it had not seen ended is stale.
LEMMA CancelKeeps ==
  ASSUME VenueInv, NEW o \in Book, CancelWrite(o)
  PROVE  VenueInv'
<1> USE BookNames DEF VenueInv
<1>1. /\ o \in canceller /\ canceller' = canceller \ {o} /\ status[o] # "none"
      /\ stale' = IF status[o] # "open" THEN stale \cup {o} ELSE stale
      /\ status' = [status EXCEPT ![o] = "cancelled"]
      /\ UNCHANGED <<traded, size, ticker, call, ownRow, otherRow, stopId, overlap, silent,
                    saved, cut>>
  BY DEF CancelWrite, CancelsPlaced
<1>2. VenueTypes' /\ FillsNamed' /\ PositionIsTrades'
  BY <1>1 DEF VenueTypes, OrderStatuses, FillsNamed, PositionIsTrades
<1>3. OpenUntraded' /\ TradedIsFilled' /\ CancelsPlaced'
  BY <1>1 DEF VenueTypes, OpenUntraded, TradedIsFilled, CancelsPlaced
<1>4. ProtectionsLater'
  BY <1>1 DEF ProtectionsLater, VenueTypes
<1>5. StillHandled' /\ SavedStops' /\ OtherClosed'
  BY <1>1 DEF StillHandled, SavedStops, OtherClosed
<1> QED
  BY <1>2, <1>3, <1>4, <1>5

\* The id of a stop is saved; a fill whose callback is on its way was not.
LEMMA SaveKeeps ==
  ASSUME VenueInv, NEW o \in Stops, SaveStop(o)
  PROVE  VenueInv'
<1> USE BookNames DEF VenueInv
<1>1. /\ saved' = IF ticker.fill.pc = "after" THEN saved \ {ticker.fill.order} ELSE saved
      /\ UNCHANGED <<venue, ticker, call, canceller, ownRow, otherRow, overlap, stale,
                    silent, cut>>
  BY DEF SaveStop
<1>2. VenueTypes' /\ FillsNamed' /\ PositionIsTrades' /\ OpenUntraded' /\ TradedIsFilled'
  BY <1>1 DEF VenueTypes, FillsNamed, PositionIsTrades, OpenUntraded, TradedIsFilled, venue
<1>3. ProtectionsLater' /\ CancelsPlaced' /\ StillHandled' /\ SavedStops' /\ OtherClosed'
  BY <1>1 DEF ProtectionsLater, CancelsPlaced, StillHandled, SavedStops, OtherClosed, venue
<1> QED
  BY <1>2, <1>3

\* Before the row opens none of its protections is placed.
LEMMA RowKeeps ==
  ASSUME VenueInv, RowOpens
  PROVE  VenueInv'
<1> USE BookNames DEF VenueInv
<1>1. /\ ownRow = "INIT" /\ ownRow' = "OPEN"
      /\ UNCHANGED <<venue, ticker, call, canceller, otherRow, stopId, histories>>
  BY DEF RowOpens
<1>2. VenueTypes' /\ FillsNamed' /\ PositionIsTrades' /\ OpenUntraded' /\ TradedIsFilled'
  BY <1>1 DEF VenueTypes, FillsNamed, PositionIsTrades, OpenUntraded, TradedIsFilled,
              venue, histories
<1>3. \A o \in Stops \cup {"tp"} : traded[o] = 0
  BY <1>1 DEF ProtectionsLater, OpenUntraded
<1>4. ProtectionsLater' /\ CancelsPlaced' /\ StillHandled' /\ SavedStops' /\ OtherClosed'
  BY <1>1, <1>3 DEF ProtectionsLater, CancelsPlaced, StillHandled, SavedStops, OtherClosed,
                    venue, histories
<1> QED
  BY <1>2, <1>4

\* A restart forgets the fills at work.
LEMMA VirtualCrashKeeps ==
  ASSUME VenueInv, VirtualCrash
  PROVE  VenueInv'
<1> USE BookNames, RestingType DEF VenueInv
<1>1. /\ cut' = (cut \/ "after" \in {ticker.fill.pc, call.pc})
      /\ ticker' = Quiet /\ call' = Resting /\ canceller' = {}
      /\ UNCHANGED <<venue, ownRow, otherRow, stopId, overlap, stale, silent, saved>>
  BY DEF VirtualCrash
<1>2. VenueTypes' /\ FillsNamed' /\ PositionIsTrades' /\ OpenUntraded' /\ TradedIsFilled'
  BY <1>1 DEF VenueTypes, FillsNamed, PositionIsTrades, OpenUntraded, TradedIsFilled, venue
<1>3. ProtectionsLater' /\ CancelsPlaced' /\ StillHandled' /\ SavedStops' /\ OtherClosed'
  BY <1>1 DEF ProtectionsLater, CancelsPlaced, StillHandled, SavedStops, OtherClosed, venue
<1> QED
  BY <1>2, <1>3

LEMMA TickActs ==
  ASSUME VenueInv, Tick \/ TickRead \/ TickDone \/ Age
  PROVE  VenueInv'
<1> USE BookNames, RestingType DEF business, venue
<1>1. /\ ticker \in TickerType /\ call \in FillType /\ size \in Nat
      /\ status \in [Book -> OrderStatuses]
      /\ ticker.fill.pc # "idle" => ticker.fill.order \in Book
      /\ call.pc # "idle" => call.order \in Book \ Stops
      /\ \A o \in Book : status' = status => PlacedOrCancelled(o)
  BY DEF VenueInv, VenueTypes, FillsNamed, PlacedOrCancelled
<1>2. CASE Tick
  <2>1. PICK price \in Prices :
          ticker' = [Quiet EXCEPT !.price = price, !.todo = ListedOf(price)]
    BY <1>2 DEF Tick
  <2>2. ticker' \in TickerType /\ ticker'.fill = Resting
    <3>1. price \in Nat /\ ListedOf(price) \in SUBSET Book /\ Quiet \in TickerType
      BY DEF Prices, ListedOf
    <3>2. ticker' \in TickerType
      BY <2>1, <3>1, Zenon DEF TickerType
    <3> QED
      BY <2>1, <3>1, <3>2 DEF TickerType
  <2>3. ticker = Quiet /\ UNCHANGED <<venue, call, canceller, business, histories>>
    BY <1>2 DEF Tick
  <2> QED
    BY <1>1, <2>2, <2>3, NothingFills
<1>3. CASE TickRead
  <2>1. PICK o \in ticker.todo :
          ticker' = [ticker EXCEPT !.todo = ticker.todo \ {o},
                       !.fill = ReadPosition([Resting EXCEPT !.order = o])]
    BY <1>3 DEF TickRead
  <2> DEFINE begun == [Resting EXCEPT !.order = o]
  <2>2. o \in Book
    BY <1>1, <2>1 DEF TickerType
  <2>3. begun \in FillType /\ begun.order = o
    BY <2>2 DEF FillType
  <2>4. /\ ReadPosition(begun) \in FillType /\ ReadPosition(begun).pc = "read"
        /\ ReadPosition(begun).order = o
    BY <1>1, <2>3, FillEdits
  <2> HIDE DEF begun
  <2>5. ticker' \in TickerType /\ ticker'.fill = ReadPosition(begun)
    BY <1>1, <2>1, <2>4 DEF TickerType, begun
  <2>6. ticker.fill.pc = "idle" /\ UNCHANGED <<venue, call, canceller, business, histories>>
    BY <1>3 DEF TickRead
  <2> QED
    BY <1>1, <2>2, <2>4, <2>5, <2>6, NothingFills
<1>4. CASE TickDone \/ Age
  <2>1. /\ ticker' = ticker \/ (ticker.fill = Resting /\ ticker' = Quiet)
        /\ UNCHANGED <<venue, call, canceller, business, histories>>
    BY <1>4 DEF TickDone, Age
  <2> QED
    BY <1>1, <2>1, NothingFills
<1> QED
  BY <1>2, <1>3, <1>4

\* The fill of an order that was just placed.
Matched(o) == [Resting EXCEPT !.pc = "matched", !.order = o]

LEMMA MatchedFill ==
  ASSUME NEW o \in Book
  PROVE  Matched(o) \in FillType /\ Matched(o).pc = "matched" /\ Matched(o).order = o
BY RestingType DEF FillType, Matched

LEMMA CallActs ==
  ASSUME VenueInv,
         \/ PlaceMarket \/ ClosePosition \/ CallRead
         \/ \E o \in {"entry", "tp"} : PlaceResting(o)
  PROVE  VenueInv'
<1> USE BookNames, RestingType DEF business
<1>1. /\ ticker \in TickerType /\ call \in FillType /\ size \in Nat
      /\ status \in [Book -> OrderStatuses]
      /\ ticker.fill.pc # "idle" => ticker.fill.order \in Book
      /\ call.pc # "idle" => call.order \in Book \ Stops
  BY DEF VenueInv, VenueTypes, FillsNamed
<1>2. CASE CallRead
  <2>1. /\ call.pc = "matched" /\ call' = ReadPosition(call)
        /\ UNCHANGED <<venue, ticker, canceller, business, histories>>
    BY <1>2 DEF CallRead
  <2>2. call' \in FillType /\ call'.pc = "read" /\ call'.order = call.order
    BY <1>1, <2>1, FillEdits
  <2>3. \A o \in Book : PlacedOrCancelled(o)
    BY <2>1 DEF PlacedOrCancelled, venue
  <2> QED
    BY <1>1, <2>1, <2>2, <2>3, NothingFills DEF venue
<1>3. ASSUME NEW o \in Book \ Stops, call = Resting, status[o] = "none", Opened(o),
             o = "tp" => ownRow = "OPEN",
             call' \in {call, Matched(o)},
             UNCHANGED <<traded, size, ticker, canceller, business, histories>>
      PROVE  VenueInv'
  <2>1. /\ status' \in [Book -> OrderStatuses]
        /\ \A b \in Book : PlacedOrCancelled(b)
    BY <1>1, <1>3 DEF Opened, OrderStatuses, PlacedOrCancelled
  <2>2. /\ call' \in FillType /\ call'.pc \in {"idle", "matched"}
        /\ call'.pc # "idle" => call'.order = o
    BY <1>1, <1>3, MatchedFill
  <2>3. "after" \notin {call.pc, call'.pc} /\ o \in Book \ Stops
    BY <1>3, <2>2
  <2>4. UNCHANGED <<traded, size, ticker, canceller, ownRow, otherRow, stopId, histories>>
    BY <1>3
  <2> QED
    BY <1>1, <2>1, <2>2, <2>3, <2>4, NothingFills
<1>4. CASE PlaceMarket
  BY <1>3, <1>4 DEF PlaceMarket, Matched
<1>5. CASE ClosePosition
  BY <1>3, <1>5 DEF ClosePosition, Matched
<1>6. CASE \E o \in {"entry", "tp"} : PlaceResting(o)
  BY <1>3, <1>6 DEF PlaceResting, Matched
<1> QED
  BY <1>2, <1>4, <1>5, <1>6

LEMMA OrderActs ==
  ASSUME VenueInv,
         \/ WaitLook \/ WaitRegister
         \/ \E o \in Book : CancelRead(o)
         \/ \E o \in Stops : UpdateStop(o)
  PROVE  VenueInv'
<1> USE BookNames DEF business, venue
<1>1. /\ ticker \in TickerType /\ call \in FillType
      /\ status \in [Book -> OrderStatuses]
      /\ ticker.fill.pc # "idle" => ticker.fill.order \in Book
      /\ call.pc # "idle" => call.order \in Book \ Stops
      /\ \A o \in Book : status' = status => PlacedOrCancelled(o)
  BY DEF VenueInv, VenueTypes, FillsNamed, PlacedOrCancelled
<1>2. CASE WaitLook \/ WaitRegister
  BY <1>1, <1>2, NothingFills DEF WaitLook, WaitRegister
<1>3. ASSUME NEW o \in Book, CancelRead(o)
      PROVE  VenueInv'
  BY <1>1, <1>3, NothingFills DEF CancelRead
<1>4. ASSUME NEW o \in Stops, UpdateStop(o)
      PROVE  VenueInv'
  <2>1. /\ status' \in [Book -> OrderStatuses]
        /\ \A b \in Book : PlacedOrCancelled(b)
    BY <1>1, <1>4 DEF UpdateStop, OrderStatuses, PlacedOrCancelled
  <2>2. UNCHANGED <<traded, size, ticker, call, canceller, business, histories>>
    BY <1>4 DEF UpdateStop
  <2> QED
    BY <1>1, <2>1, <2>2, NothingFills
<1> QED
  BY <1>2, <1>3, <1>4

LEMMA VenueInvNext == VenueInv /\ [VirtualNext]_virtualVars => VenueInv'
<1> SUFFICES ASSUME VenueInv, [VirtualNext]_virtualVars PROVE VenueInv'
  OBVIOUS
<1>1. CASE \/ Tick \/ TickRead \/ TickTransact \/ TickAfter \/ TickDone \/ Age
  BY <1>1, TickActs, TickTransactKeeps, TickAfterKeeps
<1>2. CASE \/ PlaceMarket \/ ClosePosition \/ CallRead \/ CallTransact \/ CallAfter
           \/ \E o \in {"entry", "tp"} : PlaceResting(o)
  BY <1>2, CallActs, CallTransactKeeps, CallAfterKeeps
<1>3. CASE WaitLook \/ WaitRegister \/ RowOpens \/ VirtualCrash
  BY <1>3, OrderActs, RowKeeps, VirtualCrashKeeps
<1>4. CASE \E o \in Book : CancelRead(o) \/ CancelWrite(o)
  BY <1>4, OrderActs, CancelKeeps
<1>5. CASE \E o \in Stops : UpdateStop(o) \/ SaveStop(o)
  BY <1>5, OrderActs, SaveKeeps
<1>6. CASE UNCHANGED virtualVars
  <2>1. UNCHANGED <<venue, ticker, call, canceller, business, histories>>
    BY <1>6 DEF virtualVars
  <2>2. /\ ticker \in TickerType /\ call \in FillType /\ status \in [Book -> OrderStatuses]
        /\ ticker.fill.pc # "idle" => ticker.fill.order \in Book
        /\ call.pc # "idle" => call.order \in Book \ Stops
        /\ \A o \in Book : PlacedOrCancelled(o)
    BY <2>1 DEF VenueInv, VenueTypes, FillsNamed, PlacedOrCancelled, venue
  <2> QED
    BY <2>1, <2>2, NothingFills DEF venue, business
<1> QED
  BY <1>1, <1>2, <1>3, <1>4, <1>5, <1>6 DEF VirtualNext

LEMMA VenueInvAlways == VirtualSpec => []VenueInv
BY VenueInvInit, VenueInvNext, PTL DEF VirtualSpec

\* The position is the sum of the trades for any number of ticks and restarts,
\* while no fill was computed from a position another one has changed
\* (VirtualMatchingEngine.fillOrder reads the position before its transaction).
THEOREM PositionAddsUp == VirtualSpec => []PositionIsTrades
BY VenueInvAlways, PTL DEF VenueInv

\* Trades and filled orders are the same, but for a cancel that wrote without
\* looking again (markOrderFilled has the condition, cancelOrder has not).
THEOREM TradesAreFills == VirtualSpec => []TradedIsFilled
BY VenueInvAlways, PTL DEF VenueInv

\* A protection that filled ends the row of its entry and no row of another
\* instance (VirtualExchangeFillHandler).
THEOREM ProtectionEnds == VirtualSpec => []ProtectionEndsRow
<1>1. VenueInv => ProtectionEndsRow
  <2> SUFFICES ASSUME VenueInv PROVE ProtectionEndsRow
    OBVIOUS
  <2>1. Resting.pc = "idle" /\ Reducing \ {"close"} = Stops \cup {"tp"}
    BY RestingType, BookNames
  <2> QED
    BY <2>1 DEF VenueInv, StillHandled, OtherClosed, ProtectionEndsRow
<1> QED
  BY <1>1, VenueInvAlways, PTL

-----------------------------------------------------------------------------
(* CfdLegs: legs at the exchange, behind FailedClean and ProtectedBacked *)

OpenerSteps == {"new", "place", "rollback", "undo", "fail", "failed", "protect", "save",
                "wait", "done", "dead"}
OpenerType == [pc : OpenerSteps, leg : Legs, match : [Legs -> Positions \cup {Nobody}]]

LegTypes ==
  /\ kind \in {"Market", "Trigger"} /\ lots \in [Positions -> Nat]
  /\ opener \in OpenerType
  /\ order \in [Legs -> {"none", "live", "filled", "cancelled"}]
  /\ qty \in [Positions -> Nat] /\ sl \in [Positions -> {"none", "ours", "moved"}]
  /\ \A p \in Positions : qty[p] <= lots[p]

\* Only a filled leg has a position, and only a position a stop loss; a Trigger
\* leg brings its own.
LegFacts ==
  \A l \in Legs :
    /\ qty[l] > 0 => order[l] = "filled"
    /\ order[l] \in {"none", "live"} => sl[l] = "none"
    /\ kind = "Trigger" /\ order[l] = "filled" => sl[l] # "none"

\* Legs are placed one after the other.
InTurn ==
  /\ At("new") => \A l \in Legs : order[l] = "none"
  /\ At("place") => \A l \in Legs : Leg <= l => order[l] = "none"

\* The rollback has dealt with this leg.
Undone(l) == opener.pc \in {"undo", "fail", "failed"} /\ (At("undo") => l < Leg)

\* What the rollback has dealt with does not work, unless it escaped; a Market
\* leg without a match has escaped already, a matched one is filled.
RolledBack ==
  \A l \in Legs :
    /\ Undone(l) /\ Working(l) => Escaped(l)
    /\ At("undo") /\ kind = "Market" /\ opener.match[l] = Nobody /\ Working(l)
         => Escaped(l)
    /\ opener.match[l] = l => order[l] = "filled"

\* A step of the open that still has to see to the stop loss of this leg.
StillToCome(l) ==
  opener.pc \in {"place", "rollback", "undo"} \/ (At("protect") /\ Leg <= l)

\* A leg that works and has no stop loss is excused, whatever its row says.
BareExcused ==
  \A l \in Legs : Working(l) /\ sl[l] = "none" =>
    kind = "Trigger" \/ l \in unset \/ Escaped(l) \/ StillToCome(l)

LegInv == LegTypes /\ LegFacts /\ InTurn /\ RolledBack /\ BareExcused

LEMMA LegNumbers ==
  /\ LegCount \in Nat \ {0} /\ Legs \subseteq Nat \ {0} /\ 1 \in Legs /\ IsFiniteSet(Legs)
  /\ Positions = 0..LegCount /\ Legs \subseteq Positions /\ Old \notin Legs
  /\ Nobody \notin Positions
  /\ \A l \in Legs : l <= LegCount /\ (l < LegCount => l + 1 \in Legs)
BY CfdAssumption, FS_Interval DEF Legs, Positions, Old, Nobody

LEMMA LegInvInit == CfdInit => LegInv
<1> SUFFICES ASSUME CfdInit PROVE LegInv
  OBVIOUS
<1> USE LegNumbers, CfdAssumption
<1>1. opener = [pc |-> "new", leg |-> 1, match |-> NoMatch] /\ opener \in OpenerType
  BY DEF CfdInit, OpenerType, OpenerSteps, NoMatch
<1>2. LegTypes
  BY <1>1 DEF CfdInit, LegTypes
<1>3. \A l \in Legs : ~Working(l) /\ order[l] = "none" /\ sl[l] = "none"
  BY DEF CfdInit, Working, Old
<1>4. LegFacts /\ InTurn /\ BareExcused
  BY <1>3 DEF LegFacts, InTurn, BareExcused, Working
<1>5. \A l \in Legs : opener.match[l] = Nobody /\ l # Nobody
  BY <1>1 DEF NoMatch
<1>6. RolledBack
  BY <1>1, <1>3, <1>5 DEF RolledBack
<1> QED
  BY <1>2, <1>4, <1>6 DEF LegInv

\* What the market may do to the legs without a new one: fill and cancel, take
\* volume away, move a stop loss.
MarketMoves ==
  /\ order' \in [Legs -> {"none", "live", "filled", "cancelled"}]
  /\ qty' \in [Positions -> Nat] /\ sl' \in [Positions -> {"none", "ours", "moved"}]
  /\ \A l \in Legs :
       \/ order'[l] = order[l]
       \/ order[l] = "live" /\ order'[l] = "cancelled"
       \/ order[l] = "live" /\ order'[l] = "filled" /\ sl'[l] = ProtectionOf(l)
  /\ \A p \in Positions :
       \/ qty'[p] <= qty[p]
       \/ qty'[p] = lots[p] /\ p \in Legs /\ order[p] = "live" /\ order'[p] = "filled"
  /\ \A l \in Legs :
       \/ sl'[l] = sl[l] \/ (order[l] = "filled" /\ sl'[l] # "none")
       \/ order[l] = "live" /\ order'[l] = "filled"

LEMMA NothingMoves == LegTypes /\ UNCHANGED market => MarketMoves
<1> SUFFICES ASSUME LegTypes, UNCHANGED market PROVE MarketMoves
  OBVIOUS
<1>1. \A p \in Positions : qty[p] \in Nat
  BY DEF LegTypes
<1> QED
  BY <1>1 DEF LegTypes, market, MarketMoves

\* Legs that work worked before, and what escaped the rollback stays so.
LEMMA StillEscaped ==
  ASSUME LegInv, MarketMoves, UNCHANGED fixed, opener'.match = opener.match,
         lost \subseteq lost', refused \subseteq refused', late \subseteq late',
         NEW l \in Legs, Working(l)'
  PROVE  Working(l) /\ (Escaped(l) => Escaped(l)')
<1> USE LegNumbers DEF LegInv, LegTypes, fixed
<1>1. qty[l] \in Nat /\ qty'[l] \in Nat /\ lots[l] \in Nat
  BY DEF MarketMoves
<1>2. Working(l)
  BY <1>1 DEF Working, MarketMoves, LegFacts
<1>3. ASSUME qty[l] \in 1..(lots[l] - 1)
      PROVE  qty'[l] \in 1..(lots[l] - 1)
  <2>1. order[l] = "filled" /\ order'[l] = "filled" /\ qty'[l] > 0
    BY <1>1, <1>3 DEF LegFacts, MarketMoves, Working
  <2>2. qty'[l] <= qty[l]
    BY <2>1 DEF MarketMoves
  <2> QED
    BY <1>1, <1>3, <2>1, <2>2
<1> QED
  BY <1>2, <1>3 DEF Escaped

LEMMA FactsKept ==
  ASSUME LegInv, MarketMoves, UNCHANGED fixed
  PROVE  LegFacts' /\ \A p \in Positions : qty'[p] <= lots'[p]
<1> USE LegNumbers DEF LegInv, LegTypes, fixed
<1>1. \A p \in Positions : qty[p] \in Nat /\ qty'[p] \in Nat /\ lots[p] \in Nat
  BY DEF MarketMoves
<1>2. \A p \in Positions : qty'[p] <= lots'[p]
  <2> SUFFICES ASSUME NEW p \in Positions PROVE qty'[p] <= lots[p]
    OBVIOUS
  <2>1. qty'[p] <= qty[p] \/ qty'[p] = lots[p]
    BY DEF MarketMoves
  <2> QED
    BY <1>1, <2>1
<1>3. ASSUME NEW l \in Legs
      PROVE  /\ qty'[l] > 0 => order'[l] = "filled"
             /\ order'[l] \in {"none", "live"} => sl'[l] = "none"
             /\ kind' = "Trigger" /\ order'[l] = "filled" => sl'[l] # "none"
  <2>1. \/ order'[l] = order[l] \/ (order[l] = "live" /\ order'[l] = "cancelled")
        \/ order[l] = "live" /\ order'[l] = "filled" /\ sl'[l] = ProtectionOf(l)
    BY DEF MarketMoves
  <2>2. qty'[l] <= qty[l] \/ order'[l] = "filled"
    BY DEF MarketMoves
  <2>3. \/ sl'[l] = sl[l] \/ (order[l] = "filled" /\ sl'[l] # "none")
        \/ order[l] = "live" /\ order'[l] = "filled"
    BY DEF MarketMoves
  <2>4. /\ qty[l] > 0 => order[l] = "filled"
        /\ order[l] \in {"none", "live"} => sl[l] = "none"
        /\ kind = "Trigger" /\ order[l] = "filled" => sl[l] # "none"
    BY DEF LegFacts
  <2>5. qty'[l] > 0 => order'[l] = "filled"
    BY <1>1, <2>1, <2>2, <2>4
  <2>6. order'[l] \in {"none", "live"} => sl'[l] = "none"
    BY <2>1, <2>3, <2>4
  <2>7. kind = "Trigger" /\ order'[l] = "filled" => sl'[l] # "none"
    BY <2>1, <2>3, <2>4 DEF ProtectionOf
  <2> QED
    BY <2>5, <2>6, <2>7
<1> QED
  BY <1>2, <1>3 DEF LegFacts

\* A step of the market, of the open, or of both, that places no leg and makes
\* no list: what leaves the open's hands has escaped, or does not work.
LEMMA OpenGoesOn ==
  ASSUME LegInv, MarketMoves, UNCHANGED fixed, opener' \in OpenerType,
         opener'.match = opener.match,
         lost \subseteq lost', refused \subseteq refused', late \subseteq late',
         unset \subseteq unset',
         At("new")' => At("new"),
         At("place")' => At("new") \/ (At("place") /\ Leg' = Leg),
         At("undo")' => At("undo"),
         \A l \in Legs : Undone(l)' /\ Working(l)' => Undone(l) \/ Escaped(l)',
         \A l \in Legs : StillToCome(l) /\ Working(l)' /\ sl'[l] = "none" =>
           kind = "Trigger" \/ l \in unset' \/ Escaped(l)' \/ StillToCome(l)'
  PROVE  LegInv'
<1> USE LegNumbers DEF LegInv
<1>1. LegTypes' /\ LegFacts'
  BY FactsKept DEF LegTypes, MarketMoves, fixed
<1>2. InTurn'
  <2>1. \A l \in Legs : order[l] = "none" => order'[l] = "none"
    BY DEF MarketMoves
  <2>2. CASE At("new")'
    BY <2>1, <2>2 DEF InTurn
  <2>3. CASE At("place")' /\ At("new")
    BY <2>1, <2>3 DEF InTurn
  <2>4. CASE At("place")' /\ At("place") /\ Leg' = Leg
    BY <2>1, <2>4 DEF InTurn
  <2> QED
    BY <2>2, <2>3, <2>4 DEF InTurn
<1>3. RolledBack'
  <2> SUFFICES ASSUME NEW l \in Legs
               PROVE  /\ Undone(l)' /\ Working(l)' => Escaped(l)'
                      /\ At("undo")' /\ kind' = "Market" /\ opener'.match[l] = Nobody
                           /\ Working(l)' => Escaped(l)'
                      /\ opener'.match[l] = l => order'[l] = "filled"
    BY DEF RolledBack
  <2>1. Working(l)' => Working(l) /\ (Escaped(l) => Escaped(l)')
    BY StillEscaped
  <2>2. order[l] = "filled" => order'[l] = "filled"
    BY DEF MarketMoves
  <2> QED
    BY <2>1, <2>2 DEF RolledBack, fixed
<1>4. BareExcused'
  <2> SUFFICES ASSUME NEW l \in Legs, Working(l)', sl'[l] = "none"
               PROVE  kind = "Trigger" \/ l \in unset' \/ Escaped(l)' \/ StillToCome(l)'
    BY DEF BareExcused, fixed
  <2>1. Working(l) /\ (Escaped(l) => Escaped(l)')
    BY StillEscaped
  <2>2. sl[l] = "none"
    BY DEF LegFacts, MarketMoves
  <2> QED
    BY <2>1, <2>2 DEF BareExcused
<1> QED
  BY <1>1, <1>2, <1>3, <1>4

LEMMA GoToStep ==
  ASSUME opener \in OpenerType, NEW pc \in OpenerSteps, NEW l \in Legs, GoTo(pc, l)
  PROVE  /\ opener' \in OpenerType /\ opener'.pc = pc /\ opener'.leg = l
         /\ opener'.match = opener.match
BY DEF GoTo, OpenerType

\* A step of the market alone.
LEMMA MarketAlone ==
  ASSUME LegInv, MarketMoves, UNCHANGED <<fixed, opener, lost, refused, late, unset>>
  PROVE  LegInv'
<1>1. \A l \in Legs : (Undone(l)' => Undone(l)) /\ (StillToCome(l) => StillToCome(l)')
  BY DEF Undone, StillToCome, At, Leg
<1> QED
  BY <1>1, OpenGoesOn DEF LegInv, LegTypes, At, Leg

\* The volume the monitor closes is not more than there is.
LEMMA AmountNat ==
  ASSUME LegInv, NEW p \in Positions
  PROVE  Amount(p) \in Nat /\ Amount(p) <= qty[p]
<1> USE LegNumbers DEF LegInv, LegTypes
<1>1. Active \subseteq Legs /\ IsFiniteSet(Active)
  BY FS_Subset DEF Active
<1>2. \A k \in Active : lots[k] \in Nat
  BY <1>1
<1>3. Tracked = SumOf(lots, Active)
  BY DEF Tracked, SumOf, MapThenSumSet, MapThenFoldSet
<1>4. Tracked \in Nat /\ qty[p] \in Nat /\ qty[p] <= qty[p]
  <2>1. qty[p] \in Nat
    OBVIOUS
  <2>2. Tracked \in Nat
    BY <1>1, <1>2, <1>3, SumNat
  <2> QED
    BY <2>1, <2>2
<1> HIDE DEF LegInv
<1>5. Min({Tracked, qty[p]}) = IF Tracked <= qty[p] THEN Tracked ELSE qty[p]
  BY <1>4, LeastOfTwo
<1>6. Amount(p) \in {qty[p], Tracked} /\ (Amount(p) = qty[p] \/ Amount(p) <= qty[p])
  BY <1>4, <1>5 DEF Amount
<1> QED
  BY <1>4, <1>6

LEMMA CancelMoves ==
  ASSUME LegInv, order' \in [Legs -> {"none", "live", "filled", "cancelled"}],
         \A l \in Legs : \/ order'[l] = order[l]
                         \/ order[l] = "live" /\ order'[l] = "cancelled",
         qty' \in [Positions -> Nat], \A p \in Positions : qty'[p] <= qty[p],
         sl' = sl
  PROVE  MarketMoves
BY DEF LegInv, LegTypes, MarketMoves

LEMMA AutoCloseMoves ==
  ASSUME LegInv, NEW l \in Legs, AutoClose(l)
  PROVE  MarketMoves
<1> USE LegNumbers DEF LegInv, LegTypes
<1>1. UNCHANGED <<fixed, opener, sl, lost, refused, late, unset>>
  BY DEF AutoClose, causes
<1>2. /\ qty \in [Positions -> Nat] /\ \A p \in Positions : qty[p] \in Nat /\ qty[p] <= qty[p]
      /\ order \in [Legs -> {"none", "live", "filled", "cancelled"}]
  OBVIOUS
<1>3. CASE \E p \in Live : /\ qty' = [qty EXCEPT ![p] = @ - Amount(p)]
                           /\ order' = [k \in Legs |->
                                IF k \in Active /\ Known(k) /\ order[k] = "live"
                                THEN "cancelled" ELSE order[k]]
  <2>1. PICK p \in Live : qty' = [qty EXCEPT ![p] = qty[p] - Amount(p)]
    BY <1>3
  <2>2. p \in Positions /\ Amount(p) \in Nat /\ Amount(p) <= qty[p]
    BY AmountNat DEF Live
  <2>3. qty' \in [Positions -> Nat] /\ \A q \in Positions : qty'[q] <= qty[q]
    <3>1. qty[p] - Amount(p) \in Nat /\ qty[p] - Amount(p) <= qty[p]
      BY <1>2, <2>2
    <3> HIDE DEF LegInv
    <3> QED
      BY <1>2, <2>1, <2>2, <3>1
  <2>4. /\ order' \in [Legs -> {"none", "live", "filled", "cancelled"}]
        /\ \A k \in Legs : \/ order'[k] = order[k]
                           \/ order[k] = "live" /\ order'[k] = "cancelled"
    BY <1>2, <1>3
  <2> QED
    BY <1>1, <2>3, <2>4, CancelMoves
<1>4. CASE \E k \in Legs : /\ order[k] = "live" /\ UNCHANGED qty
                           /\ order' = [order EXCEPT ![k] = "cancelled"]
  <2>1. PICK k \in Legs : order[k] = "live" /\ order' = [order EXCEPT ![k] = "cancelled"]
    BY <1>4
  <2>2. /\ order' \in [Legs -> {"none", "live", "filled", "cancelled"}]
        /\ \A j \in Legs : \/ order'[j] = order[j]
                           \/ order[j] = "live" /\ order'[j] = "cancelled"
    BY <1>2, <2>1
  <2> QED
    BY <1>1, <1>2, <1>4, <2>2, CancelMoves
<1> QED
  BY <1>3, <1>4 DEF AutoClose

LEMMA MarketActsMove ==
  ASSUME LegInv,
         \/ UpdateStopLoss
         \/ \E l \in Legs : FillLeg(l) \/ Withdraw(l) \/ AutoClose(l)
         \/ \E p \in Positions : EndPosition(p)
  PROVE  MarketMoves
<1> USE LegNumbers
<1>0. /\ lots \in [Positions -> Nat] /\ qty \in [Positions -> Nat]
      /\ order \in [Legs -> {"none", "live", "filled", "cancelled"}]
      /\ sl \in [Positions -> {"none", "ours", "moved"}]
      /\ \A p \in Positions : qty[p] \in Nat
  BY DEF LegInv, LegTypes
<1>1. CASE UpdateStopLoss
  <2>1. PICK S \in SUBSET Live : sl' = [p \in Positions |-> IF p \in S THEN "moved" ELSE sl[p]]
    BY <1>1 DEF UpdateStopLoss
  <2>2. \A l \in Legs : l \in S => order[l] = "filled"
    BY DEF LegInv, LegFacts, Live
  <2>3. UNCHANGED <<fixed, opener, order, qty, lost, refused, late, unset>>
    BY <1>1 DEF UpdateStopLoss, causes
  <2> QED
    BY <1>0, <2>1, <2>2, <2>3 DEF MarketMoves
<1>2. ASSUME NEW l \in Legs, FillLeg(l)
      PROVE  MarketMoves
  <2>1. /\ order[l] = "live" /\ order' = [order EXCEPT ![l] = "filled"]
        /\ qty' = [qty EXCEPT ![l] = lots[l]]
        /\ sl' = [sl EXCEPT ![l] = ProtectionOf(l)]
        /\ UNCHANGED <<fixed, opener, lost, refused, late, unset>>
    BY <1>2 DEF FillLeg, causes
  <2>2. ProtectionOf(l) \in {"none", "ours", "moved"} /\ lots[l] \in Nat
    BY <1>0 DEF ProtectionOf
  <2>3. /\ \A k \in Legs : k # l => order'[k] = order[k] /\ sl'[k] = sl[k]
        /\ order'[l] = "filled" /\ qty'[l] = lots[l] /\ sl'[l] = ProtectionOf(l)
        /\ \A p \in Positions : p # l => qty'[p] = qty[p]
        /\ order' \in [Legs -> {"none", "live", "filled", "cancelled"}]
        /\ qty' \in [Positions -> Nat] /\ sl' \in [Positions -> {"none", "ours", "moved"}]
    BY <1>0, <2>1, <2>2
  <2>4. \A k \in Legs :
          \/ order'[k] = order[k]
          \/ order[k] = "live" /\ order'[k] = "filled" /\ sl'[k] = ProtectionOf(k)
    BY <2>1, <2>3
  <2>5. \A p \in Positions :
          \/ qty'[p] <= qty[p]
          \/ qty'[p] = lots[p] /\ p \in Legs /\ order[p] = "live" /\ order'[p] = "filled"
    <3> SUFFICES ASSUME NEW p \in Positions, p # l PROVE qty'[p] <= qty[p]
      BY <2>1, <2>3
    <3>1. qty'[p] = qty[p] /\ qty[p] \in Nat
      BY <1>0, <2>3
    <3> QED
      BY <3>1
  <2>6. \A k \in Legs : sl'[k] = sl[k] \/ (order[k] = "live" /\ order'[k] = "filled")
    BY <2>1, <2>3
  <2> QED
    BY <2>3, <2>4, <2>5, <2>6 DEF MarketMoves
<1>3. ASSUME NEW l \in Legs, Withdraw(l)
      PROVE  MarketMoves
  <2>1. /\ order[l] = "live" /\ order' = [order EXCEPT ![l] = "cancelled"]
        /\ UNCHANGED <<fixed, opener, qty, sl, lost, refused, late, unset>>
    BY <1>3 DEF Withdraw, causes
  <2>2. /\ order' \in [Legs -> {"none", "live", "filled", "cancelled"}]
        /\ \A k \in Legs : \/ order'[k] = order[k]
                           \/ order[k] = "live" /\ order'[k] = "cancelled"
        /\ \A p \in Positions : qty'[p] <= qty[p]
    BY <1>0, <2>1
  <2> QED
    BY <1>0, <2>1, <2>2, CancelMoves
<1>4. ASSUME NEW p \in Positions, EndPosition(p)
      PROVE  MarketMoves
  <2>1. /\ qty' = [qty EXCEPT ![p] = 0]
        /\ UNCHANGED <<fixed, opener, order, sl, lost, refused, late, unset>>
    BY <1>4 DEF EndPosition, causes
  <2>2. qty' \in [Positions -> Nat] /\ \A q \in Positions : qty'[q] <= qty[q]
    BY <1>0, <2>1
  <2> QED
    BY <1>0, <2>1, <2>2 DEF MarketMoves
<1> QED
  BY <1>1, <1>2, <1>3, <1>4, AutoCloseMoves

LEMMA MarketActs ==
  ASSUME LegInv,
         \/ UpdateStopLoss
         \/ \E l \in Legs : FillLeg(l) \/ Withdraw(l) \/ AutoClose(l)
         \/ \E p \in Positions : EndPosition(p)
  PROVE  LegInv'
<1>1. UNCHANGED <<fixed, opener, lost, refused, late, unset>>
  BY DEF UpdateStopLoss, FillLeg, Withdraw, AutoClose, EndPosition, causes
<1> QED
  BY <1>1, MarketActsMove, MarketAlone

\* A step of the open that leaves the exchange as it is, and what it leaves.
LEMMA OpenerAlone ==
  ASSUME LegInv, UNCHANGED <<fixed, market, lost, refused, late>>, unset \subseteq unset',
         NEW pc \in OpenerSteps, NEW l \in Legs,
         opener' \in OpenerType, opener'.pc = pc, opener'.leg = l,
         opener'.match = opener.match,
         pc = "new" => At("new"),
         pc = "place" => At("new") \/ (At("place") /\ l = Leg),
         pc = "undo" => At("undo"),
         pc \in {"fail", "failed"} => At("new") \/ At("fail") \/ At("failed"),
         At("undo") => pc \notin {"fail", "failed"} /\ (pc = "undo" => l = Leg),
         \A k \in Legs : StillToCome(k) /\ Working(k) /\ sl[k] = "none" =>
           kind = "Trigger" \/ k \in unset' \/ StillToCome(k)'
  PROVE  LegInv'
<1>1. LegTypes /\ MarketMoves
  BY NothingMoves DEF LegInv
<1>2. \A k \in Legs : (Working(k)' <=> Working(k)) /\ sl'[k] = sl[k]
  BY DEF Working, market
<1>3. \A k \in Legs : Undone(k)' /\ Working(k)' => Undone(k) \/ Escaped(k)'
  <2> SUFFICES ASSUME NEW k \in Legs, Undone(k)', Working(k) PROVE Undone(k)
    BY <1>2
  <2>1. CASE At("new")
    BY <2>1, <1>1 DEF LegInv, LegFacts, InTurn, Working, LegTypes
  <2>2. CASE ~At("new")
    BY <2>2 DEF Undone, At, Leg
  <2> QED
    BY <2>1, <2>2
<1>4. \A k \in Legs : StillToCome(k) /\ Working(k)' /\ sl'[k] = "none" =>
        kind = "Trigger" \/ k \in unset' \/ Escaped(k)' \/ StillToCome(k)'
  BY <1>2
<1> QED
  BY <1>1, <1>3, <1>4, OpenGoesOn DEF At, Leg

LEMMA OpenerActs ==
  ASSUME LegInv,
         \/ OpenGroup \/ FailGroup \/ SaveLeg \/ WaitEnds \/ WaitTimesOut
         \/ Reload \/ Restart
  PROVE  LegInv'
<1> USE LegNumbers DEF OpenerSteps
<1>1. opener \in OpenerType /\ Leg \in Legs /\ opener.pc \in OpenerSteps
  BY DEF LegInv, LegTypes, OpenerType, Leg
<1>2. CASE OpenGroup
  <2>1. PICK pc \in {"place", "fail"} : GoTo(pc, 1)
    BY <1>2 DEF OpenGroup
  <2>2. At("new") /\ UNCHANGED <<fixed, market, lost, refused, late, unset>>
    BY <1>2 DEF OpenGroup, causes
  <2>3. /\ opener' \in OpenerType /\ opener'.pc = pc /\ opener'.leg = 1
        /\ opener'.match = opener.match
    BY <1>1, <2>1, GoToStep
  <2>4. \A k \in Legs : ~StillToCome(k)
    BY <2>2 DEF StillToCome, At
  <2> QED
    BY <2>2, <2>3, <2>4, OpenerAlone DEF At
<1>3. CASE FailGroup
  <2>1. At("fail") /\ UNCHANGED <<fixed, market, lost, refused, late, unset>>
    BY <1>3 DEF FailGroup, causes
  <2>2. /\ opener' \in OpenerType /\ opener'.pc = "failed" /\ opener'.leg = 1
        /\ opener'.match = opener.match
    BY <1>1, <1>3, GoToStep DEF FailGroup
  <2>3. \A k \in Legs : ~StillToCome(k)
    BY <2>1 DEF StillToCome, At
  <2> QED
    BY <2>1, <2>2, <2>3, OpenerAlone DEF At
<1>4. ASSUME NEW pc \in {"save", "wait", "done"}, NEW l \in Legs, GoTo(pc, l),
             opener.pc \in {"save", "wait"},
             UNCHANGED <<fixed, market, lost, refused, late, unset>>
      PROVE  LegInv'
  <2>1. /\ opener' \in OpenerType /\ opener'.pc = pc /\ opener'.leg = l
        /\ opener'.match = opener.match
    BY <1>1, <1>4, GoToStep
  <2>2. \A k \in Legs : ~StillToCome(k)
    BY <1>4 DEF StillToCome, At
  <2> QED
    BY <1>4, <2>1, <2>2, OpenerAlone DEF At
<1>5. CASE SaveLeg
  BY <1>1, <1>4, <1>5 DEF SaveLeg, At, causes
<1>6. CASE WaitEnds \/ WaitTimesOut
  <2>1. /\ opener.pc = "wait" /\ UNCHANGED <<fixed, market, lost, refused, late, unset>>
        /\ NextLeg
    BY <1>6 DEF WaitEnds, WaitTimesOut, At, causes
  <2>2. Leg < LegCount => Leg + 1 \in Legs
    BY <1>1
  <2> QED
    BY <1>4, <2>1, <2>2 DEF NextLeg
<1>7. CASE Reload \/ Restart
  <2>1. /\ opener' \in OpenerType /\ opener'.leg = Leg /\ opener'.match = opener.match
        /\ opener'.pc \in {opener.pc, "dead"}
    BY <1>1, <1>7 DEF Reload, Restart, OpenerType, Leg
  <2>2. UNCHANGED <<fixed, market, lost, refused, late>> /\ unset \subseteq unset'
    BY <1>7 DEF Reload, Restart, Again
  <2>3. ASSUME NEW k \in Legs, StillToCome(k), Working(k), sl[k] = "none",
               kind # "Trigger"
        PROVE  k \in unset' \/ StillToCome(k)'
    <3>1. CASE Reload
      <4>1. opener' = opener
        BY <1>1, <2>3, <3>1 DEF Reload, OpenerType
      <4> QED
        BY <2>3, <4>1 DEF StillToCome, At, Leg
    <3>2. CASE Restart
      <4>1. kind = "Market" /\ order[k] # "none"
        BY <2>3 DEF LegInv, LegTypes, LegFacts, Working
      <4> QED
        BY <2>3, <3>2, <4>1 DEF Restart
    <3> QED
      BY <1>7, <3>1, <3>2
  <2> QED
    BY <1>1, <2>1, <2>2, <2>3, OpenerAlone DEF At
<1> QED
  BY <1>2, <1>3, <1>5, <1>6, <1>7

LEMMA ThenLegStep ==
  ASSUME opener \in OpenerType, NEW pc \in OpenerSteps, NEW end \in OpenerSteps,
         ThenLeg(pc, end)
  PROVE  /\ opener' \in OpenerType /\ opener'.match = opener.match
         /\ \/ Leg < LegCount /\ opener'.pc = pc /\ opener'.leg = Leg + 1
            \/ ~(Leg < LegCount) /\ opener'.pc = end
         /\ Leg \in Legs /\ \A l \in Legs : l <= Leg \/ Leg < LegCount
<1> USE LegNumbers
<1>1. Leg \in Legs /\ (Leg < LegCount => Leg + 1 \in Legs)
  BY DEF OpenerType, Leg
<1>2. \A l \in Legs : l <= Leg \/ Leg < LegCount
  BY <1>1 DEF Legs
<1> QED
  BY <1>1, <1>2, GoToStep DEF ThenLeg

LEMMA ProtectKeeps ==
  ASSUME LegInv, Protect
  PROVE  LegInv'
<1> USE LegNumbers DEF OpenerSteps
<1>1. /\ opener \in OpenerType /\ LegTypes
      /\ sl \in [Positions -> {"none", "ours", "moved"}] /\ qty \in [Positions -> Nat]
      /\ order \in [Legs -> {"none", "live", "filled", "cancelled"}]
  BY DEF LegInv, LegTypes
<1>2. At("protect") /\ UNCHANGED <<fixed, order, qty, lost, refused, late>>
  BY DEF Protect
<1>3. /\ opener' \in OpenerType /\ opener'.match = opener.match /\ Leg \in Legs
      /\ opener'.pc \in {"protect", "save"}
      /\ \A l \in Legs : Leg < l => opener'.pc = "protect" /\ opener'.leg = Leg + 1
  BY <1>1, ThenLegStep DEF Protect, Legs
<1>4. /\ sl' \in [Positions -> {"none", "ours", "moved"}] /\ unset \subseteq unset'
      /\ \A l \in Legs : sl'[l] = sl[l] \/ (order[l] = "filled" /\ sl'[l] = "ours")
      /\ Working(Leg) => kind = "Trigger" \/ Leg \in unset' \/ sl'[Leg] = "ours"
  <2>1. CASE UNCHANGED sl
    BY <1>1, <1>2, <1>3, <2>1 DEF Protect, Working
  <2>2. CASE /\ order[Leg] = "filled" /\ UNCHANGED unset
             /\ sl' = [sl EXCEPT ![Leg] = "ours"]
    BY <1>1, <1>3, <2>2
  <2>3. CASE /\ order[Leg] = "filled" /\ UNCHANGED unset /\ UNCHANGED sl
             /\ ~(qty[Leg] > 0)
    BY <1>1, <1>3, <2>3 DEF Working
  <2> QED
    BY <2>1, <2>2, <2>3 DEF Protect
<1>5. MarketMoves
  <2>1. \A p \in Positions : qty'[p] <= qty[p]
    BY <1>1, <1>2
  <2> QED
    BY <1>1, <1>2, <1>4, <2>1 DEF MarketMoves
<1>6. ASSUME NEW l \in Legs, StillToCome(l), Working(l)', sl'[l] = "none"
      PROVE  kind = "Trigger" \/ l \in unset' \/ StillToCome(l)'
  <2>1. Leg <= l /\ Working(l)
    BY <1>2, <1>6 DEF StillToCome, At, Working
  <2>2. CASE l = Leg
    BY <1>4, <1>6, <2>1, <2>2
  <2>3. CASE Leg < l
    <3>1. Leg \in Nat /\ l \in Nat
      BY <1>3
    <3>2. Leg + 1 <= l
      BY <2>3, <3>1
    <3> QED
      BY <1>3, <2>3, <3>2 DEF StillToCome, At, Leg
  <2> QED
    BY <1>3, <2>1, <2>2, <2>3
<1>7. \A l \in Legs : ~Undone(l)'
  BY <1>3 DEF Undone, At
<1> QED
  BY <1>2, <1>3, <1>4, <1>5, <1>6, <1>7, OpenGoesOn DEF At

LEMMA UndoMoves ==
  ASSUME LegInv, UndoLeg
  PROVE  MarketMoves
<1> USE LegNumbers
<1> DEFINE p == opener.match[Leg]
<1>1. /\ Leg \in Legs /\ qty \in [Positions -> Nat] /\ p \in Positions \cup {Nobody}
      /\ order \in [Legs -> {"none", "live", "filled", "cancelled"}]
  BY DEF LegInv, LegTypes, OpenerType, Leg
<1>2. /\ order' \in [Legs -> {"none", "live", "filled", "cancelled"}]
      /\ \A l \in Legs : order'[l] = order[l] \/ (order[l] = "live" /\ order'[l] = "cancelled")
      /\ qty' \in [Positions -> Nat] /\ \A q \in Positions : qty'[q] <= qty[q]
  <2>0. \A q \in Positions : qty[q] \in Nat /\ qty[q] <= qty[q] /\ 0 <= qty[q]
    BY <1>1
  <2>1. CASE p # Nobody /\ qty' = [qty EXCEPT ![p] = 0] /\ UNCHANGED order
    BY <1>1, <2>0, <2>1
  <2>2. CASE order[Leg] = "live" /\ order' = [order EXCEPT ![Leg] = "cancelled"]
             /\ UNCHANGED qty
    BY <1>1, <2>0, <2>2
  <2>3. CASE UNCHANGED <<order, qty>>
    BY <1>1, <2>0, <2>3
  <2> QED
    BY <2>1, <2>2, <2>3 DEF UndoLeg
<1>3. sl' = sl
  BY DEF UndoLeg
<1> QED
  BY <1>2, <1>3, CancelMoves

\* The leg whose turn it was has been dealt with.
LEMMA UndoLegKeeps ==
  ASSUME LegInv, UndoLeg
  PROVE  LegInv'
<1> USE LegNumbers DEF OpenerSteps
<1> DEFINE p == opener.match[Leg]
<1>1. /\ opener \in OpenerType /\ LegTypes /\ Leg \in Legs
      /\ qty \in [Positions -> Nat] /\ p \in Positions \cup {Nobody}
      /\ order \in [Legs -> {"none", "live", "filled", "cancelled"}]
  BY DEF LegInv, LegTypes, OpenerType, Leg
<1>2. At("undo") /\ UNCHANGED <<fixed, sl, lost, late, unset>> /\ refused \subseteq refused'
  BY DEF UndoLeg
<1>3. /\ opener' \in OpenerType /\ opener'.match = opener.match
      /\ \/ Leg < LegCount /\ opener'.pc = "undo" /\ opener'.leg = Leg + 1
         \/ opener'.pc = "fail" /\ \A l \in Legs : l <= Leg
  BY <1>1, ThenLegStep DEF UndoLeg
<1>5. MarketMoves
  BY UndoMoves
<1>6. ASSUME NEW l \in Legs, Working(l)'
      PROVE  Working(l) /\ (Escaped(l) => Escaped(l)')
  BY <1>2, <1>3, <1>5, <1>6, StillEscaped
<1>7. ASSUME NEW l \in Legs, l = Leg, Working(l)'
      PROVE  Escaped(l)'
  <2>1. CASE p # Nobody /\ qty' = [qty EXCEPT ![p] = 0] /\ UNCHANGED order
    <3>1. CASE p = l
      <4>1. order[l] = "filled"
        BY <1>7, <3>1 DEF LegInv, RolledBack
      <4>2. qty'[l] = 0
        BY <1>1, <2>1, <3>1
      <4> QED
        BY <1>7, <2>1, <4>1, <4>2 DEF Working
    <3>2. CASE p # l
      BY <1>3, <1>7, <2>1, <3>2 DEF Escaped
    <3> QED
      BY <3>1, <3>2
  <2>2. CASE order[l] = "live" /\ order' = [order EXCEPT ![l] = "cancelled"]
             /\ UNCHANGED qty
    <3>1. ~(qty[l] > 0) /\ order'[l] = "cancelled"
      BY <1>1, <2>2 DEF LegInv, LegFacts
    <3> QED
      BY <1>7, <2>2, <3>1 DEF Working
  <2>3. CASE l \in refused'
    BY <2>3 DEF Escaped
  <2>4. CASE p = Nobody /\ kind = "Market"
    BY <1>2, <1>6, <1>7, <2>4 DEF LegInv, RolledBack
  <2>5. CASE p = Nobody /\ l \notin Placed
    <3>1. order[l] = "none" \/ l \in lost
      BY <2>5 DEF Placed
    <3>2. order[l] # "none"
      BY <1>6, <1>7 DEF LegInv, LegFacts, Working
    <3> QED
      BY <1>2, <3>1, <3>2 DEF Escaped
  <2> QED
    BY <1>7, <2>1, <2>2, <2>3, <2>4, <2>5 DEF UndoLeg
<1>8. ASSUME NEW l \in Legs, Working(l)', Undone(l)'
      PROVE  Escaped(l)'
  <2>1. CASE l < Leg
    BY <1>2, <1>6, <1>8, <2>1 DEF Undone, At, LegInv, RolledBack
  <2>2. CASE l = Leg
    BY <1>7, <1>8, <2>2
  <2>3. CASE Leg < l
    <3>0. l \in Nat /\ Leg \in Nat
      BY <1>1
    <3>1. ~(l < Leg + 1) /\ ~(l <= Leg)
      BY <2>3, <3>0
    <3>2. opener'.pc = "undo" => l < opener'.leg
      BY <1>8 DEF Undone, At, Leg
    <3> QED
      BY <1>3, <2>3, <3>1, <3>2
  <2>4. l \in Nat /\ Leg \in Nat
    BY <1>1
  <2> QED
    BY <2>1, <2>2, <2>3, <2>4
<1>9. ASSUME NEW l \in Legs, Working(l)'
      PROVE  Escaped(l)' \/ StillToCome(l)'
  BY <1>3, <1>8, <1>9 DEF StillToCome, Undone, At
<1> QED
  BY <1>2, <1>3, <1>5, <1>8, <1>9, OpenGoesOn DEF At

\* A leg is placed, or refused: it had no order, no position and no stop loss.
LEMMA Placing ==
  ASSUME LegInv, At("place"), UNCHANGED <<fixed, qty, sl, refused, late, unset>>,
         order' = order \/ order' = [order EXCEPT ![Leg] = "live"],
         opener' \in OpenerType, opener'.match = opener.match,
         \/ opener'.pc = "place" /\ opener'.leg = Leg + 1
         \/ opener'.pc = "protect" /\ opener'.leg = 1
         \/ opener'.pc = "rollback"
  PROVE  LegInv'
<1> USE LegNumbers
<1>1. /\ order \in [Legs -> {"none", "live", "filled", "cancelled"}]
      /\ LegTypes /\ Leg \in Legs /\ order[Leg] = "none"
  <2>1. LegTypes /\ opener \in OpenerType
    BY DEF LegInv, LegTypes
  <2>2. Leg \in Legs
    BY <2>1 DEF OpenerType, Leg
  <2>3. Leg \in Nat
    BY <2>2
  <2>4. Leg <= Leg
    BY <2>3
  <2> QED
    BY <2>1, <2>2, <2>4 DEF LegInv, LegTypes, InTurn
<1>2. /\ order' \in [Legs -> {"none", "live", "filled", "cancelled"}]
      /\ order'[Leg] \in {"none", "live"}
      /\ \A l \in Legs : l # Leg => order'[l] = order[l]
  BY <1>1
<1>3. LegTypes'
  BY <1>1, <1>2 DEF LegTypes, fixed
<1>4. LegFacts'
  BY <1>1, <1>2 DEF LegInv, LegFacts, fixed
<1>5. InTurn'
  <2> SUFFICES ASSUME opener'.pc = "place", NEW l \in Legs, opener'.leg <= l
               PROVE  order'[l] = "none"
    BY DEF InTurn, At, Leg
  <2>1. l \in Nat /\ Leg \in Nat /\ Leg + 1 <= l
    BY <1>1
  <2>2. l # Leg /\ Leg <= l
    BY <2>1
  <2> QED
    BY <1>2, <2>2 DEF LegInv, InTurn
<1>6. RolledBack'
  BY <1>1, <1>2 DEF LegInv, RolledBack, Undone, At
<1>7. \A l \in Legs : 1 <= l
  BY DEF Legs
<1>8. BareExcused'
  BY <1>7 DEF BareExcused, StillToCome, At, Leg
<1> QED
  BY <1>3, <1>4, <1>5, <1>6, <1>8 DEF LegInv

LEMMA PlaceActs ==
  ASSUME LegInv, PlaceLeg \/ PlaceFails
  PROVE  LegInv'
<1> USE LegNumbers DEF OpenerSteps
<1>1. opener \in OpenerType
  BY DEF LegInv, LegTypes
<1>2. CASE PlaceLeg
  <2>1. Leg \in Legs /\ (Leg < LegCount => Leg + 1 \in Legs)
    BY <1>1 DEF OpenerType, Leg
  <2>2. /\ opener' \in OpenerType /\ opener'.match = opener.match
        /\ \/ opener'.pc = "place" /\ opener'.leg = Leg + 1
           \/ opener'.pc = "protect" /\ opener'.leg = 1
    BY <1>1, <1>2, <2>1, GoToStep DEF PlaceLeg, ThenLeg
  <2> QED
    BY <1>2, <2>2, Placing DEF PlaceLeg, causes
<1>3. CASE PlaceFails
  <2>1. opener' \in OpenerType /\ opener'.match = opener.match /\ opener'.pc = "rollback"
    BY <1>1, <1>3, GoToStep DEF PlaceFails
  <2> QED
    BY <1>3, <2>1, Placing DEF PlaceFails
<1> QED
  BY <1>2, <1>3

\* A Market leg that works and finds no position of its volume has filled in
\* part, fills too late or has no list.
LEMMA ListMatchesKeeps ==
  ASSUME LegInv, ListMatches
  PROVE  LegInv'
<1> USE LegNumbers
<1>1. /\ LegTypes /\ qty \in [Positions -> Nat] /\ lots \in [Positions -> Nat]
      /\ order \in [Legs -> {"none", "live", "filled", "cancelled"}]
      /\ \A p \in Positions : qty[p] <= lots[p]
  BY DEF LegInv, LegTypes
<1>2. /\ UNCHANGED <<fixed, market, lost, unset>>
      /\ late' = {l \in Placed : kind = "Market" /\ order[l] = "live"}
  BY DEF ListMatches
<1>3. PICK m \in [Legs -> Positions \cup {Nobody}] :
        /\ opener' = [pc |-> "undo", leg |-> 1, match |-> m]
        /\ \A l \in Legs : m[l] # Nobody => m[l] \in Live
        /\ \A l \in Placed : kind = "Market" /\ m[l] = Nobody =>
             l \in refused' \/ \A p \in Live : qty[p] # lots[l]
  <2>1. NoMatch \in [Legs -> Positions \cup {Nobody}] /\ \A l \in Legs : NoMatch[l] = Nobody
    BY DEF NoMatch
  <2>2. Placed \subseteq Legs
    BY DEF Placed
  <2>3. PICK m \in [Legs -> Positions \cup {Nobody}] :
          /\ \A l \in Legs :
               IF l \in Placed /\ kind = "Market"
               THEN IF \E p \in Live : qty[p] = lots[l]
                    THEN m[l] \in Live /\ qty[m[l]] = lots[l]
                    ELSE m[l] = Nobody
               ELSE m[l] = Nobody
          /\ \/ opener' = [pc |-> "undo", leg |-> 1, match |-> m]
             \/ /\ opener' = [pc |-> "undo", leg |-> 1, match |-> NoMatch]
                /\ refused' = Placed
    BY DEF ListMatches
  <2>4. \A l \in Legs : m[l] # Nobody => m[l] \in Live
    BY <2>3
  <2>5. \A l \in Placed : kind = "Market" /\ m[l] = Nobody =>
          \A p \in Live : qty[p] # lots[l]
    BY <2>2, <2>3, LegNumbers DEF Live
  <2>6. CASE opener' = [pc |-> "undo", leg |-> 1, match |-> m]
    BY <2>4, <2>5, <2>6
  <2>7. CASE opener' = [pc |-> "undo", leg |-> 1, match |-> NoMatch] /\ refused' = Placed
    BY <2>1, <2>7
  <2> QED
    BY <2>3, <2>6, <2>7
<1>4. opener' \in OpenerType /\ At("undo")' /\ opener'.leg = 1 /\ opener'.match = m
  BY <1>3 DEF OpenerType, OpenerSteps, At
<1>5. LegTypes' /\ LegFacts'
  BY <1>1, <1>2, <1>4 DEF LegInv, LegTypes, LegFacts, market, fixed
<1>6. InTurn' /\ BareExcused'
  BY <1>4 DEF InTurn, BareExcused, StillToCome, At
<1>7. \A l \in Legs : ~Undone(l)'
  BY <1>4 DEF Undone, At, Leg, Legs
<1>8. ASSUME NEW l \in Legs, m[l] = l
      PROVE  order'[l] = "filled"
  BY <1>2, <1>3, <1>8 DEF LegInv, LegFacts, Live, market
<1>9. ASSUME NEW l \in Legs, kind = "Market", m[l] = Nobody, Working(l)
      PROVE  Escaped(l)'
  <2>1. order[l] \in {"live", "filled"}
    BY <1>1, <1>9 DEF LegInv, LegFacts, Working
  <2>2. CASE l \notin Placed
    BY <1>2, <2>1, <2>2 DEF Placed, Escaped
  <2>3. CASE l \in Placed /\ order[l] = "live"
    BY <1>2, <1>9, <2>3 DEF Escaped
  <2>4. CASE l \in Placed /\ qty[l] > 0
    <3>1. CASE l \in refused'
      BY <3>1 DEF Escaped
    <3>2. CASE qty[l] # lots[l]
      <4>1. qty[l] \in Nat /\ lots[l] \in Nat /\ qty[l] <= lots[l]
        BY <1>1
      <4>2. qty[l] \in 1..(lots[l] - 1)
        BY <2>4, <3>2, <4>1
      <4> QED
        BY <1>2, <4>2 DEF Escaped, market, fixed
    <3> QED
      BY <1>3, <1>9, <2>4, <3>1, <3>2 DEF Live
  <2> QED
    BY <1>9, <2>2, <2>3, <2>4 DEF Working
<1>10. RolledBack'
  BY <1>2, <1>4, <1>7, <1>8, <1>9 DEF RolledBack, Working, market, fixed
<1> QED
  BY <1>5, <1>6, <1>10 DEF LegInv

LEMMA BookkeepingActs ==
  ASSUME LegInv,
         \/ Poll \/ ReconcileOpenOrders \/ PositionsReconciled \/ ReconcileOrderHistory
         \/ UNCHANGED cfdVars \/ \E l \in Legs : WatchAbsent(l)
         \/ \E p \in Positions : PositionClosed(p) \/ ReconcilePosition(p)
  PROVE  LegInv'
<1>1. UNCHANGED <<fixed, opener, market, lost, refused, late, unset>>
  BY DEF Poll, ReconcileOpenOrders, PositionsReconciled, ReconcileOrderHistory, WatchAbsent,
         PositionClosed, ReconcilePosition, cfdVars, causes
<1>2. MarketMoves
  BY <1>1, NothingMoves DEF LegInv
<1> QED
  BY <1>1, <1>2, MarketAlone

LEMMA LegInvNext == LegInv /\ [CfdNext]_cfdVars => LegInv'
<1> SUFFICES ASSUME LegInv, [CfdNext]_cfdVars PROVE LegInv'
  OBVIOUS
<1>1. CASE Opening
  BY <1>1, OpenerActs, PlaceActs, ListMatchesKeeps, UndoLegKeeps, ProtectKeeps DEF Opening
<1>2. CASE \/ UpdateStopLoss
           \/ \E l \in Legs : FillLeg(l) \/ Withdraw(l) \/ AutoClose(l)
           \/ \E p \in Positions : EndPosition(p)
  BY <1>2, MarketActs
<1>3. CASE Reload \/ Restart
  BY <1>3, OpenerActs
<1>4. CASE \/ Poll \/ ReconcileOpenOrders \/ PositionsReconciled \/ ReconcileOrderHistory
           \/ UNCHANGED cfdVars \/ \E l \in Legs : WatchAbsent(l)
           \/ \E p \in Positions : PositionClosed(p) \/ ReconcilePosition(p)
  BY <1>4, BookkeepingActs
<1> QED
  BY <1>1, <1>2, <1>3, <1>4 DEF CfdNext

LEMMA LegInvAlways == CfdSpec => []LegInv
BY LegInvInit, LegInvNext, PTL DEF CfdSpec

\* After placeOrder rolled back, a leg that still works at the exchange escaped
\* for one of the named reasons, for any number of legs and restarts.
THEOREM RollbackLeavesNothing == CfdSpec => []FailedClean
<1>1. LegInv => FailedClean
  <2> SUFFICES ASSUME LegInv, At("fail") \/ At("failed"), NEW l \in Legs, Working(l)
               PROVE  Escaped(l)
    BY DEF FailedClean
  <2>1. Undone(l)
    BY DEF Undone, At
  <2> QED
    BY <2>1 DEF LegInv, RolledBack
<1> QED
  BY <1>1, LegInvAlways, PTL

\* A live position whose row is PROTECTED has a stop loss, unless setting it
\* failed, was cut short or is still to come, or the leg escaped a rollback.
THEOREM ProtectedHasStop == CfdSpec => []ProtectedBacked
<1>1. LegInv => ProtectedBacked
  <2> SUFFICES ASSUME LegInv, NEW l \in Legs, qty[l] > 0, sl[l] = "none"
               PROVE  \/ l \in unset \/ Escaped(l)
                      \/ opener.pc \in {"place", "rollback", "undo"}
                      \/ At("protect") /\ Leg <= l
    BY DEF ProtectedBacked
  <2>1. kind # "Trigger"
    BY DEF LegInv, LegFacts
  <2> QED
    BY <2>1 DEF LegInv, BareExcused, Working, StillToCome
<1> QED
  BY <1>1, LegInvAlways, PTL

-----------------------------------------------------------------------------
(* CfdLegs: the rows, behind ClosedGone *)

Begun == {"OPEN", "PROTECTED", "CLOSED"}

RowTypes ==
  /\ legRow \in [Legs -> {"NONE", "FAILED", "CLOSED"} \cup Closable]
  /\ legPos \in [Legs -> Positions \cup {Nobody}]
  /\ snapshot \subseteq Positions /\ closures \subseteq Positions
  /\ recon \in [step : {"idle", "orders", "positions", "history"}, todo : [Positions -> Nat]]

\* A leg is bound to its own position or known to be bound to another.
BoundWell == \A l \in Legs : legPos[l] \notin {Nobody, l} => l \in mislinked

\* A position that was ever listed came from a filled order, and one whose
\* close is under way is gone.
SeenFilled ==
  /\ \A l \in Legs : l \in snapshot \cup closures \/ recon.todo[l] > 0 => order[l] = "filled"
  /\ \A p \in closures : qty[p] = 0

\* Only a leg bound to another's position gets a row ahead of its order.
RowAhead ==
  \A l \in Legs : order[l] \in {"none", "live"} /\ legRow[l] \in Begun => l \in mislinked

RowInv == RowTypes /\ BoundWell /\ SeenFilled /\ RowAhead /\ ClosedGone

LEMMA LeastIn ==
  ASSUME NEW S, S \subseteq Legs
  PROVE  Least(S) \in S \/ (Least(S) = Nobody /\ S = {})
<1>1. CASE S = {}
  BY <1>1 DEF Least
<1>2. CASE S # {}
  <2>1. S \subseteq Nat
    BY LegNumbers
  <2>2. \E x \in S : \A y \in S : x <= y
    BY <1>2, <2>1, LeastNat
  <2>3. Min(S) \in S
    BY <2>2 DEF Min
  <2> QED
    BY <1>2, <2>3 DEF Least
<1> QED
  BY <1>1, <1>2

LEMMA LegOfIs ==
  ASSUME NEW p
  PROVE  LegOf(p) = Nobody \/ (LegOf(p) \in Legs /\ legPos[LegOf(p)] = p)
BY LeastIn DEF LegOf

LEMMA RowInvInit == CfdInit => RowInv
<1> SUFFICES ASSUME CfdInit PROVE RowInv
  OBVIOUS
<1> USE LegNumbers
<1>1. Nothing \in [Positions -> Nat] /\ \A p \in Positions : ~(Nothing[p] > 0)
  BY DEF Nothing
<1>2. recon = [step |-> "idle", todo |-> Nothing]
  BY DEF CfdInit
<1>3. RowTypes
  BY <1>1, <1>2 DEF CfdInit, RowTypes
<1>4. BoundWell /\ SeenFilled /\ RowAhead /\ ClosedGone
  BY <1>1, <1>2 DEF CfdInit, BoundWell, SeenFilled, RowAhead, ClosedGone, Begun
<1> QED
  BY <1>3, <1>4 DEF RowInv

\* What every step does to the market: what is filled is not filled again.
SlightMoves ==
  /\ qty' \in [Positions -> Nat]
  /\ \A l \in Legs : order[l] = "filled" => order'[l] = "filled"
  /\ \A l \in Legs : order'[l] \in {"none", "live"} => order[l] \in {"none", "live"}
  /\ \A p \in Positions : qty'[p] <= qty[p] \/ (p \in Legs /\ order[p] = "live")

Seen(l) == l \in snapshot \cup closures \/ recon.todo[l] > 0

\* A leg that fills under a row that went ahead is bound to another's position.
LEMMA RowStep ==
  ASSUME LegInv, RowInv, UNCHANGED fixed, SlightMoves, RowTypes',
         misclosed \subseteq misclosed', mislinked \subseteq mislinked',
         \A l \in Legs : legPos'[l] \in {legPos[l], l} \/ l \in mislinked',
         \A l \in Legs : Seen(l)' => Seen(l) \/ qty[l] > 0,
         \A p \in closures' : p \in closures \/ qty'[p] = 0,
         \A l \in Legs : legRow'[l] \in Begun =>
           legRow[l] \in Begun \/ order'[l] \notin {"none", "live"} \/ l \in mislinked',
         \A l \in Legs : legRow'[l] = "CLOSED" =>
           legRow[l] = "CLOSED" \/ ~Working(l)' \/ l \in misclosed' \cup mislinked'
  PROVE  RowInv'
<1> USE LegNumbers DEF RowInv
<1>1. \A p \in Positions : qty[p] \in Nat /\ qty'[p] \in Nat
  BY DEF SlightMoves, LegInv, LegTypes
<1>2. BoundWell'
  BY DEF BoundWell
<1>3. ASSUME NEW l \in Legs, Seen(l)'
      PROVE  order'[l] = "filled"
  BY <1>3 DEF SlightMoves, SeenFilled, Seen, LegInv, LegFacts
<1>4. ASSUME NEW p \in closures'
      PROVE  qty'[p] = 0
  <2> SUFFICES ASSUME p \in closures PROVE qty'[p] = 0
    BY <1>4
  <2>1. p \in Positions /\ qty[p] = 0
    BY DEF RowTypes, SeenFilled
  <2>2. p \in Legs => order[p] # "live"
    BY DEF SeenFilled
  <2>3. qty'[p] <= qty[p]
    BY <2>1, <2>2 DEF SlightMoves
  <2> QED
    BY <1>1, <2>1, <2>3
<1>5. SeenFilled'
  BY <1>3, <1>4 DEF SeenFilled, Seen
<1>6. RowAhead'
  BY DEF RowAhead, SlightMoves
<1>7. ASSUME NEW l \in Legs, legRow[l] = "CLOSED", Working(l)'
      PROVE  l \in misclosed' \cup mislinked'
  <2>1. CASE order[l] \in {"none", "live"}
    BY <1>7, <2>1 DEF RowAhead, Begun
  <2>2. CASE order[l] \notin {"none", "live"}
    <3>1. qty'[l] <= qty[l] /\ order'[l] # "live"
      BY <2>2 DEF SlightMoves
    <3>2. qty[l] > 0
      BY <1>1, <1>7, <3>1 DEF Working
    <3> QED
      BY <1>7, <3>2 DEF ClosedGone, Working
  <2> QED
    BY <2>1, <2>2
<1>8. ClosedGone'
  BY <1>7 DEF ClosedGone
<1> QED
  BY <1>2, <1>5, <1>6, <1>8

LEMMA RowsStay ==
  ASSUME LegInv, RowInv, SlightMoves,
         UNCHANGED <<fixed, legRow, legPos, poller, recon, misclosed, mislinked>>
  PROVE  RowInv'
<1>1. RowTypes' /\ \A l \in Legs : Seen(l)' => Seen(l)
  BY DEF RowInv, RowTypes, Seen, poller
<1> QED
  BY <1>1, RowStep DEF poller

LEMMA MarketSlight == LegInv /\ MarketMoves => SlightMoves
BY LegNumbers DEF MarketMoves, SlightMoves

LEMMA NothingSlight == LegInv /\ UNCHANGED market => SlightMoves
BY MarketSlight, NothingMoves DEF LegInv

LEMMA RowsLeft ==
  ASSUME LegInv, RowInv,
         \/ PlaceLeg \/ PlaceFails \/ ListMatches \/ UndoLeg \/ Protect \/ SaveLeg
         \/ WaitTimesOut \/ UpdateStopLoss \/ UNCHANGED cfdVars
         \/ \E l \in Legs : FillLeg(l) \/ Withdraw(l)
         \/ \E p \in Positions : EndPosition(p)
  PROVE  RowInv'
<1>1. UNCHANGED <<fixed, legRow, legPos, poller, recon, misclosed, mislinked>>
  BY DEF PlaceLeg, PlaceFails, ListMatches, UndoLeg, Protect, SaveLeg, WaitTimesOut,
         UpdateStopLoss, FillLeg, Withdraw, EndPosition, cfdVars, causes, legRows
<1>2. CASE PlaceLeg \/ PlaceFails
  <2>1. /\ UNCHANGED qty /\ order[Leg] = "none"
        /\ order' = order \/ order' = [order EXCEPT ![Leg] = "live"]
    <3>1. Leg \in Legs /\ Leg \in Nat /\ At("place")
      BY <1>2, LegNumbers DEF LegInv, LegTypes, OpenerType, Leg, PlaceLeg, PlaceFails
    <3>2. Leg <= Leg
      BY <3>1
    <3> QED
      BY <1>2, <3>1, <3>2 DEF LegInv, InTurn, PlaceLeg, PlaceFails
  <2>2. \A p \in Positions : qty[p] \in Nat /\ qty[p] <= qty[p]
    <3>1. \A p \in Positions : qty[p] \in Nat
      BY DEF LegInv, LegTypes
    <3> QED
      BY <3>1
  <2>3. SlightMoves
    BY <2>1, <2>2 DEF SlightMoves, LegInv, LegTypes
  <2> QED
    BY <1>1, <2>3, RowsStay
<1>3. CASE ListMatches \/ SaveLeg \/ WaitTimesOut \/ UNCHANGED cfdVars
  BY <1>1, <1>3, NothingSlight, RowsStay DEF ListMatches, SaveLeg, WaitTimesOut, cfdVars
<1>4. CASE Protect
  <2>1. \A p \in Positions : qty[p] \in Nat
    BY DEF LegInv, LegTypes
  <2>2. UNCHANGED <<order, qty>> /\ \A p \in Positions : qty[p] <= qty[p]
    BY <1>4, <2>1 DEF Protect
  <2>3. SlightMoves
    BY <2>2 DEF SlightMoves, LegInv, LegTypes
  <2> QED
    BY <1>1, <2>3, RowsStay
<1>5. CASE UndoLeg
  BY <1>1, <1>5, UndoMoves, MarketSlight, RowsStay
<1>6. CASE \/ UpdateStopLoss \/ \E l \in Legs : FillLeg(l) \/ Withdraw(l)
           \/ \E p \in Positions : EndPosition(p)
  BY <1>1, <1>6, MarketActsMove, MarketSlight, RowsStay
<1> QED
  BY <1>2, <1>3, <1>4, <1>5, <1>6

\* The open writes rows at its start, at its failure and at the end of a wait.
LEMMA RowsOfOpen ==
  ASSUME LegInv, RowInv, OpenGroup \/ FailGroup \/ WaitEnds
  PROVE  RowInv'
<1>1. UNCHANGED <<fixed, market, legPos, poller, recon, misclosed, mislinked>>
  BY DEF OpenGroup, FailGroup, WaitEnds, causes
<1>2. /\ legRow' \in [Legs -> {"NONE", "FAILED", "CLOSED"} \cup Closable]
      /\ \A l \in Legs : \/ legRow'[l] = legRow[l] \/ legRow'[l] \in {"INIT", "FAILED"}
                         \/ legRow'[l] = "PROTECTED" /\ order[l] \in {"filled", "cancelled"}
  <2>1. legRow \in [Legs -> {"NONE", "FAILED", "CLOSED"} \cup Closable]
    BY DEF RowInv, RowTypes
  <2>2. CASE OpenGroup
    BY <2>1, <2>2 DEF OpenGroup, Closable, Upgradable
  <2>3. CASE FailGroup
    BY <2>1, <2>3 DEF FailGroup
  <2>4. CASE WaitEnds
    <3>1. /\ order[Leg] \in {"filled", "cancelled"}
          /\ legRow' \in {legRow, [legRow EXCEPT ![Leg] = "PROTECTED"]}
      BY <2>4 DEF WaitEnds
    <3> QED
      BY <2>1, <3>1 DEF Closable
  <2> QED
    BY <2>2, <2>3, <2>4
<1>3. RowTypes' /\ \A l \in Legs : Seen(l)' => Seen(l)
  BY <1>1, <1>2 DEF RowInv, RowTypes, Seen, poller
<1>4. SlightMoves
  BY <1>1, NothingSlight
<1>5. /\ \A l \in Legs : legRow'[l] \in Begun =>
           legRow[l] \in Begun \/ order'[l] \notin {"none", "live"} \/ l \in mislinked'
      /\ \A l \in Legs : legRow'[l] = "CLOSED" => legRow[l] = "CLOSED"
  BY <1>1, <1>2 DEF Begun, market
<1> QED
  BY <1>1, <1>3, <1>4, <1>5, RowStep DEF poller

\* The poller and a restart: what is listed is live, what left the list is gone.
LEMMA RowsOfPoller ==
  ASSUME LegInv, RowInv, Poll \/ Restart \/ Reload
  PROVE  RowInv'
<1> USE LegNumbers
<1>1. UNCHANGED <<fixed, market, legRow, legPos, misclosed, mislinked>>
  BY DEF Poll, Restart, Reload, Again, causes, legRows
<1>2. Live \subseteq Positions /\ \A p \in Positions \ Live : qty[p] = 0
  BY DEF Live, LegInv, LegTypes
<1>3. CASE Poll
  <2>1. /\ snapshot' = Live /\ closures' = closures \cup (snapshot \ Live)
        /\ UNCHANGED recon
    BY <1>3 DEF Poll
  <2>2. snapshot \subseteq Positions
    BY DEF RowInv, RowTypes
  <2>3. RowTypes'
    BY <1>1, <1>2, <2>1 DEF RowInv, RowTypes
  <2>4. \A l \in Legs : Seen(l)' => Seen(l) \/ qty[l] > 0
    BY <2>1 DEF Seen, Live
  <2>5. \A p \in closures' : p \in closures \/ qty'[p] = 0
    BY <1>1, <1>2, <2>1, <2>2 DEF market
  <2> QED
    BY <1>1, <2>3, <2>4, <2>5, NothingSlight, RowStep
<1>4. CASE Restart \/ Reload
  <2>1. /\ snapshot' = {} /\ closures' = {}
        /\ recon' = [step |-> "orders", todo |-> Nothing]
    BY <1>4 DEF Restart, Reload, Again, Reconcile
  <2>2. Nothing \in [Positions -> Nat] /\ \A p \in Positions : ~(Nothing[p] > 0)
    BY DEF Nothing
  <2>3. RowTypes' /\ \A l \in Legs : ~Seen(l)'
    BY <1>1, <2>1, <2>2 DEF RowInv, RowTypes, Seen
  <2> QED
    BY <1>1, <2>1, <2>3, NothingSlight, RowStep
<1> QED
  BY <1>3, <1>4

\* The close of a position closes the row of the leg bound to it.
LEMMA RowsOfClosed ==
  ASSUME LegInv, RowInv, NEW p \in Positions, PositionClosed(p)
  PROVE  RowInv'
<1> USE LegNumbers
<1>1. /\ UNCHANGED <<fixed, market, legPos, snapshot, recon, misclosed, mislinked>>
      /\ p \in closures /\ closures' = closures \ {p}
  BY DEF PositionClosed, causes
<1>2. PICK l \in Legs \cup {Nobody} :
        /\ l # Nobody => legPos[l] = p
        /\ IF l # Nobody THEN CloseRow(l) ELSE UNCHANGED <<legRow, legStatus>>
  BY LegOfIs DEF PositionClosed
<1>3. /\ legRow' \in [Legs -> {"NONE", "FAILED", "CLOSED"} \cup Closable]
      /\ \A k \in Legs : legRow'[k] = legRow[k] \/ (k = l /\ k # Nobody)
  BY <1>2 DEF RowInv, RowTypes, CloseRow
<1>4. ASSUME NEW k \in Legs, k = l
      PROVE  k \in mislinked \/ (order[k] = "filled" /\ ~Working(k))
  <2>1. CASE p = k
    BY <1>1, <2>1 DEF RowInv, SeenFilled, Working
  <2>2. CASE p # k
    BY <1>2, <1>4, <2>2 DEF RowInv, BoundWell
  <2> QED
    BY <2>1, <2>2
<1>5. RowTypes' /\ \A k \in Legs : Seen(k)' => Seen(k)
  BY <1>1, <1>3 DEF RowInv, RowTypes, Seen
<1>6. \A k \in Legs : (Working(k)' <=> Working(k)) /\ order'[k] = order[k]
  BY <1>1 DEF Working, market
<1>7. /\ \A k \in Legs : legRow'[k] \in Begun =>
           legRow[k] \in Begun \/ order'[k] \notin {"none", "live"} \/ k \in mislinked'
      /\ \A k \in Legs : legRow'[k] = "CLOSED" =>
           legRow[k] = "CLOSED" \/ ~Working(k)' \/ k \in misclosed' \cup mislinked'
  BY <1>1, <1>3, <1>4, <1>6
<1> QED
  BY <1>1, <1>5, <1>7, NothingSlight, RowStep

\* The reconciliation marks rows of live orders, and closes those of ended ones.
LEMMA RowsOfOrders ==
  ASSUME LegInv, RowInv,
         ReconcileOpenOrders \/ PositionsReconciled \/ ReconcileOrderHistory
  PROVE  RowInv'
<1> USE LegNumbers
<1>1. UNCHANGED <<fixed, market, legPos, poller, mislinked>> /\ misclosed \subseteq misclosed'
  BY DEF ReconcileOpenOrders, PositionsReconciled, ReconcileOrderHistory, causes, legRows
<1>2. /\ recon' \in [step : {"idle", "orders", "positions", "history"},
                     todo : [Positions -> Nat]]
      /\ \A l \in Legs : recon'.todo[l] > 0 => qty[l] > 0
  <2>1. Nothing \in [Positions -> Nat] /\ \A p \in Positions : ~(Nothing[p] > 0)
    BY DEF Nothing
  <2>2. qty \in [Positions -> Nat]
    BY DEF LegInv, LegTypes
  <2>3. \/ recon' = [step |-> "positions", todo |-> qty]
        \/ \E x \in {"idle", "history"} : recon' = [step |-> x, todo |-> Nothing]
    BY DEF ReconcileOpenOrders, PositionsReconciled, ReconcileOrderHistory, Reconcile
  <2> QED
    BY <2>1, <2>2, <2>3
<1>3. /\ legRow' \in [Legs -> {"NONE", "FAILED", "CLOSED"} \cup Closable]
      /\ \A l \in Legs : \/ legRow'[l] = legRow[l] \/ legRow'[l] = "PENDING"
                         \/ /\ order[l] \in {"filled", "cancelled"}
                            /\ qty[l] > 0 => l \in misclosed'
  <2>1. legRow \in [Legs -> {"NONE", "FAILED", "CLOSED"} \cup Closable]
    BY DEF RowInv, RowTypes
  <2>2. CASE ReconcileOpenOrders
    BY <2>1, <2>2 DEF ReconcileOpenOrders, Closable, Upgradable
  <2>3. CASE PositionsReconciled
    BY <2>1, <2>3 DEF PositionsReconciled, legRows
  <2>4. CASE ReconcileOrderHistory
    BY <2>1, <2>4 DEF ReconcileOrderHistory, InHistory
  <2> QED
    BY <2>2, <2>3, <2>4
<1>4. RowTypes' /\ \A l \in Legs : Seen(l)' => Seen(l) \/ qty[l] > 0
  BY <1>1, <1>2, <1>3 DEF RowInv, RowTypes, Seen, poller
<1>5. \A l \in Legs : (Working(l)' <=> Working(l)) /\ order'[l] = order[l]
  BY <1>1 DEF Working, market
<1>6. /\ \A l \in Legs : legRow'[l] \in Begun =>
           legRow[l] \in Begun \/ order'[l] \notin {"none", "live"} \/ l \in mislinked'
      /\ \A l \in Legs : legRow'[l] = "CLOSED" =>
           legRow[l] = "CLOSED" \/ ~Working(l)' \/ l \in misclosed' \cup mislinked'
  BY <1>3, <1>5 DEF Begun, Working
<1> QED
  BY <1>1, <1>4, <1>6, NothingSlight, RowStep DEF poller

\* A listed position is bound to its own leg or the leg is noted.
LEMMA RowsOfPosition ==
  ASSUME LegInv, RowInv, NEW p \in Positions, ReconcilePosition(p)
  PROVE  RowInv'
<1> USE LegNumbers
<1>1. /\ UNCHANGED <<fixed, market, poller, misclosed>> /\ recon.todo[p] > 0
      /\ recon' = [step |-> "positions", todo |-> [recon.todo EXCEPT ![p] = 0]]
  BY DEF ReconcilePosition, Reconcile
<1>2. \/ UNCHANGED <<legRow, legPos, mislinked>>
      \/ \E l \in Legs :
           /\ legRow' \in {legRow, [legRow EXCEPT ![l] = Target(p)]}
           /\ legPos' = [legPos EXCEPT ![l] = p]
           /\ mislinked' = IF p = l THEN mislinked ELSE mislinked \cup {l}
  <2> DEFINE l == IF LegOf(p) # Nobody THEN LegOf(p) ELSE Alike(recon.todo[p])
  <2>1. Alike(recon.todo[p]) \in Legs \cup {Nobody}
    BY LeastIn DEF Alike
  <2>2. l \in Legs \cup {Nobody}
    BY <2>1, LegOfIs
  <2>3. CASE l = Nobody
    BY <2>3 DEF ReconcilePosition
  <2>4. CASE l # Nobody
    BY <2>2, <2>4 DEF ReconcilePosition
  <2> QED
    BY <2>3, <2>4
<1>3. Target(p) \in {"OPEN", "PROTECTED"}
  BY DEF Target
<1>4. /\ recon' \in [step : {"idle", "orders", "positions", "history"},
                     todo : [Positions -> Nat]]
      /\ \A l \in Legs : recon'.todo[l] > 0 => recon.todo[l] > 0
  <2>1. recon.todo \in [Positions -> Nat]
    BY DEF RowInv, RowTypes
  <2>2. [recon.todo EXCEPT ![p] = 0] \in [Positions -> Nat]
    BY <2>1
  <2>3. \A l \in Legs : [recon.todo EXCEPT ![p] = 0][l] > 0 => recon.todo[l] > 0
    BY <2>1
  <2> QED
    BY <1>1, <2>2, <2>3
<1>5. \A l \in Legs : (Working(l)' <=> Working(l)) /\ order'[l] = order[l]
  BY <1>1 DEF Working, market
<1>6. \A l \in Legs : Seen(l)' => Seen(l)
  BY <1>1, <1>4 DEF Seen, poller
<1>7. CASE UNCHANGED <<legRow, legPos, mislinked>>
  <2>1. RowTypes'
    BY <1>1, <1>4, <1>7 DEF RowInv, RowTypes, poller
  <2> QED
    BY <1>1, <1>6, <1>7, <2>1, NothingSlight, RowStep DEF poller
<1>8. ASSUME NEW l \in Legs, legRow' \in {legRow, [legRow EXCEPT ![l] = Target(p)]},
             legPos' = [legPos EXCEPT ![l] = p],
             mislinked' = IF p = l THEN mislinked ELSE mislinked \cup {l}
      PROVE  RowInv'
  <2>1. RowTypes'
    BY <1>1, <1>3, <1>4, <1>8 DEF RowInv, RowTypes, poller, Closable, Upgradable
  <2>2. order[l] = "filled" \/ l \in mislinked'
    BY <1>1, <1>8 DEF RowInv, SeenFilled
  <2>3. \A k \in Legs : legPos'[k] \in {legPos[k], k} \/ k \in mislinked'
    BY <1>8 DEF RowInv, RowTypes
  <2>4. \A k \in Legs : \/ legRow'[k] = legRow[k]
                        \/ k = l /\ legRow'[k] # "CLOSED"
    BY <1>3, <1>8 DEF RowInv, RowTypes
  <2>5. mislinked \subseteq mislinked'
    BY <1>8
  <2>6. /\ \A k \in Legs : legRow'[k] \in Begun =>
             legRow[k] \in Begun \/ order'[k] \notin {"none", "live"} \/ k \in mislinked'
        /\ \A k \in Legs : legRow'[k] = "CLOSED" => legRow[k] = "CLOSED"
    BY <1>5, <2>2, <2>4
  <2> QED
    BY <1>1, <1>6, <2>1, <2>3, <2>5, <2>6, NothingSlight, RowStep DEF poller
<1> QED
  BY <1>2, <1>7, <1>8

\* The monitor closes rows only where no position is left, or cancels an entry
\* whose row waits.
LEMMA RowsOfMonitor ==
  ASSUME LegInv, RowInv, NEW l \in Legs, WatchAbsent(l) \/ AutoClose(l)
  PROVE  RowInv'
<1> USE LegNumbers
<1>1. UNCHANGED <<fixed, legPos, poller, recon, misclosed, mislinked>>
  BY DEF WatchAbsent, AutoClose, causes
<1>2. legRow \in [Legs -> {"NONE", "FAILED", "CLOSED"} \cup Closable]
  BY DEF RowInv, RowTypes
<1>3. \A k \in Legs : Seen(k)' => Seen(k)
  BY <1>1 DEF Seen, poller
<1>4. CASE WatchAbsent(l)
  <2>1. /\ UNCHANGED market /\ Live = {} /\ legRow[l] \in {"OPEN", "PROTECTED"}
        /\ legRow' \in {legRow, [legRow EXCEPT ![l] = "CLOSED"]}
    BY <1>4 DEF WatchAbsent, Watched, WatchedStatuses, Confirm
  <2>2. RowTypes'
    BY <1>1, <1>2, <2>1 DEF RowInv, RowTypes, poller
  <2>3. \A k \in Legs : legRow'[k] = legRow[k] \/ (k = l /\ legRow[l] \in Begun)
    BY <1>2, <2>1 DEF Begun
  <2>4. l \in mislinked \/ ~Working(l)'
    <3>1. ~(qty[l] > 0)
      BY <2>1 DEF Live
    <3>2. order[l] = "live" => l \in mislinked
      BY <2>1 DEF RowInv, RowAhead, Begun
    <3> QED
      BY <2>1, <3>1, <3>2 DEF Working, market
  <2> QED
    BY <1>1, <1>3, <2>1, <2>2, <2>3, <2>4, NothingSlight, RowStep DEF poller
<1>5. CASE AutoClose(l)
  <2>1. MarketMoves
    BY <1>5, AutoCloseMoves
  <2>2. SlightMoves
    BY <2>1, MarketSlight
  <2>3. CASE UNCHANGED legRow
    BY <1>1, <2>2, <2>3, RowsStay
  <2>4. ASSUME NEW k \in Legs, order[k] = "live", UNCHANGED qty,
               order' = [order EXCEPT ![k] = "cancelled"],
               legRow' = [legRow EXCEPT ![k] = "CLOSED"]
        PROVE  RowInv'
    <3>1. RowTypes'
      BY <1>1, <1>2, <2>4 DEF RowInv, RowTypes, poller
    <3>2. order'[k] = "cancelled" /\ ~(qty'[k] > 0)
      BY <2>4 DEF LegInv, LegTypes, LegFacts
    <3>3. \A j \in Legs : j # k => legRow'[j] = legRow[j]
      BY <1>2, <2>4
    <3>4. ~Working(k)'
      BY <3>2 DEF Working
    <3> QED
      BY <1>1, <1>3, <2>2, <3>1, <3>2, <3>3, <3>4, RowStep DEF poller
  <2> QED
    BY <1>5, <2>3, <2>4 DEF AutoClose
<1> QED
  BY <1>4, <1>5

LEMMA RowInvNext == LegInv /\ RowInv /\ [CfdNext]_cfdVars => RowInv'
<1> SUFFICES ASSUME LegInv, RowInv, [CfdNext]_cfdVars PROVE RowInv'
  OBVIOUS
<1>1. CASE Opening
  BY <1>1, RowsLeft, RowsOfOpen DEF Opening
<1>2. CASE \/ UpdateStopLoss \/ UNCHANGED cfdVars
           \/ \E l \in Legs : FillLeg(l) \/ Withdraw(l)
           \/ \E p \in Positions : EndPosition(p)
  BY <1>2, RowsLeft
<1>3. CASE \/ Poll \/ Restart \/ Reload \/ ReconcileOpenOrders \/ PositionsReconciled
           \/ ReconcileOrderHistory
  BY <1>3, RowsOfPoller, RowsOfOrders
<1>4. CASE \/ \E l \in Legs : WatchAbsent(l) \/ AutoClose(l)
           \/ \E p \in Positions : PositionClosed(p) \/ ReconcilePosition(p)
  BY <1>4, RowsOfMonitor, RowsOfClosed, RowsOfPosition
<1> QED
  BY <1>1, <1>2, <1>3, <1>4 DEF CfdNext

\* A CLOSED row has nothing left at the exchange but for the two confusions of
\* the startup reconciliation, whatever poller, monitor and open do.
THEOREM ClosedIsGone == CfdSpec => []ClosedGone
<1>1. CfdSpec => [](LegInv /\ RowInv)
  BY LegInvInit, LegInvNext, RowInvInit, RowInvNext, PTL DEF CfdSpec
<1> QED
  BY <1>1, PTL DEF RowInv

-----------------------------------------------------------------------------
(* VirtualVenue: every variable has the values the code can give it.  What *)
(* bounds the position is what was ever bought: reads may be stale, but    *)
(* none is above the trades of the two entries.                            *)

Held == traded["entry"] + traded["add"]

HeldBounds ==
  /\ \A o \in Book : traded[o] <= AmountOf(o)
  /\ size <= Held /\ ticker.fill.read <= Held /\ call.read <= Held

VenueValues ==
  /\ last \in {0} \cup Prices
  /\ canceller \subseteq Book /\ stale \subseteq Book /\ silent \subseteq Book
  /\ saved \subseteq Book
  /\ waiter \in {"none", "looked", "waiting", "answered", "lost"}
  /\ ownRow \in {"INIT", "OPEN", "CLOSED"} /\ otherRow \in {"OPEN", "CLOSED"}
  /\ stopId \in Stops \cup {"none"} /\ overlap \in BOOLEAN /\ cut \in BOOLEAN

LEMMA VenueValuesInit == VirtualInit => VenueValues /\ HeldBounds
<1> SUFFICES ASSUME VirtualInit PROVE VenueValues /\ HeldBounds
  OBVIOUS
<1>1. VenueValues
  BY DEF VirtualInit, VenueValues
<1>2. HeldBounds
  BY BookNames DEF VirtualInit, HeldBounds, Held, AmountOf, Quiet, Resting
<1> QED
  BY <1>1, <1>2

\* Steps that trade nothing: a fill reads the position, goes on or ends.
LEMMA HeldStays ==
  ASSUME VenueInv, HeldBounds, UNCHANGED <<traded, size>>,
         ticker'.fill.read \in {0, ticker.fill.read, size},
         call'.read \in {0, call.read, size}
  PROVE  HeldBounds'
<1>1. size \in Nat /\ traded["entry"] \in Nat /\ traded["add"] \in Nat
  BY BookNames DEF VenueInv, VenueTypes
<1> QED
  BY <1>1 DEF HeldBounds, Held

\* A transaction: an entry adds its amount to what was read, and is held from
\* then on.
LEMMA HeldGrows ==
  ASSUME VenueInv, HeldBounds, NEW fill \in FillType, fill.order \in Book,
         Transact(fill), Fillable(fill.order, fill.read), fill.read <= Held,
         ticker'.fill.read = ticker.fill.read, call'.read = call.read
  PROVE  HeldBounds'
<1> DEFINE o == fill.order
           amount == Closed(o, fill.read)
<1>1. /\ traded' = [traded EXCEPT ![o] = amount]
      /\ size' = IF o \in Reducing THEN fill.read - amount ELSE fill.read + amount
  BY DEF Transact
<1>2. /\ fill.read \in Nat /\ (o \in Reducing => fill.read > 0) /\ traded[o] = 0
      /\ ticker.fill.read \in Nat /\ call.read \in Nat
  BY DEF FillType, Fillable, VenueInv, VenueTypes, OpenUntraded, TickerType
<1>3. /\ amount \in Nat /\ amount <= AmountOf(o) /\ amount > 0
      /\ o \in Reducing => amount <= fill.read
  BY <1>2, ClosedAmount
<1>4. /\ traded["entry"] \in Nat /\ traded["add"] \in Nat
      /\ DOMAIN traded = Book
  BY BookNames DEF VenueInv, VenueTypes
<1> HIDE DEF amount
<1>5. \A b \in Book : traded'[b] = IF b = o THEN amount ELSE traded[b]
  BY <1>1, <1>4
<1>6. \A b \in Book : traded'[b] <= AmountOf(b)
  BY <1>3, <1>5 DEF HeldBounds
<1>7. CASE o \in Reducing
  <2>1. traded'["entry"] = traded["entry"] /\ traded'["add"] = traded["add"]
    BY <1>5, <1>7, BookNames
  <2>2. size' <= Held
    BY <1>1, <1>2, <1>3, <1>4, <1>7 DEF Held
  <2> QED
    BY <1>6, <2>1, <2>2 DEF HeldBounds, Held
<1>8. CASE o \notin Reducing
  <2>1. o \in {"entry", "add"}
    BY <1>8, BookNames
  <2>2. traded'["entry"] + traded'["add"] = traded["entry"] + traded["add"] + amount
    BY <1>2, <1>3, <1>4, <1>5, <2>1, BookNames
  <2>3. size' = fill.read + amount
    BY <1>1, <1>8
  <2> QED
    BY <1>2, <1>3, <1>4, <1>6, <2>2, <2>3 DEF HeldBounds, Held
<1> QED
  BY <1>7, <1>8

LEMMA TransactHeld ==
  ASSUME VenueInv, HeldBounds, TickTransact \/ CallTransact
  PROVE  HeldBounds'
<1>1. /\ ticker \in TickerType /\ ticker.fill \in FillType /\ call \in FillType
      /\ Resting.read = 0
  BY DEF VenueInv, VenueTypes, TickerType, Resting
<1>2. CASE TickTransact
  <2> DEFINE fill == ticker.fill
             next == IF Fillable(fill.order, fill.read)
                     THEN [fill EXCEPT !.pc = "after"] ELSE Resting
  <2>1. /\ fill.order \in Book /\ Transact(fill) /\ call' = call
        /\ ticker' = [ticker EXCEPT !.fill = next]
    BY <1>2 DEF TickTransact, VenueInv, FillsNamed
  <2>2. next \in FillType
    BY <1>1, FillEdits, RestingType
  <2>3. ticker'.fill = next
    BY <1>1, <2>1, <2>2, TickerEdits
  <2>4. CASE Fillable(fill.order, fill.read)
    <3>1. next.read = fill.read
      BY <1>1, <2>4 DEF FillType
    <3> QED
      BY <1>1, <2>1, <2>3, <2>4, <3>1, HeldGrows DEF HeldBounds
  <2>5. CASE ~Fillable(fill.order, fill.read)
    BY <1>1, <2>1, <2>3, <2>5, HeldStays DEF Transact
  <2> QED
    BY <2>4, <2>5
<1>3. CASE CallTransact
  <2>1. /\ call.order \in Book /\ Transact(call) /\ ticker' = ticker
        /\ call' = IF Fillable(call.order, call.read) THEN [call EXCEPT !.pc = "after"]
                                                      ELSE Resting
    BY <1>3 DEF CallTransact, VenueInv, FillsNamed
  <2>2. CASE Fillable(call.order, call.read)
    <3>1. call'.read = call.read
      BY <1>1, <2>1, <2>2 DEF FillType
    <3> QED
      BY <1>1, <2>1, <2>2, <3>1, HeldGrows DEF HeldBounds
  <2>3. CASE ~Fillable(call.order, call.read)
    BY <1>1, <2>1, <2>3, HeldStays DEF Transact
  <2> QED
    BY <2>2, <2>3
<1> QED
  BY <1>2, <1>3

LEMMA HeldBoundsNext ==
  ASSUME VenueInv, HeldBounds, [VirtualNext]_virtualVars
  PROVE  HeldBounds'
<1> USE DEF business, venue, histories, bounds
<1>1. /\ ticker \in TickerType /\ ticker.fill \in FillType /\ call \in FillType
      /\ Resting.read = 0 /\ Quiet.fill = Resting
  BY RestingType DEF VenueInv, VenueTypes, TickerType, Resting
<1>2. CASE TickTransact \/ CallTransact
  BY <1>2, TransactHeld
<1>3. CASE Tick
  <2>1. ticker'.fill.read = 0
    BY <1>1, <1>3 DEF Tick, Quiet
  <2> QED
    BY <1>3, <2>1, HeldStays DEF Tick
<1>4. CASE TickRead
  <2>1. ticker'.fill.read = size
    BY <1>1, <1>4 DEF TickRead, TickerType, ReadPosition, Resting
  <2> QED
    BY <1>4, <2>1, HeldStays DEF TickRead
<1>5. CASE TickAfter
  <2>1. ticker'.fill = Resting
    BY <1>1, <1>5 DEF TickAfter, TickerType
  <2> QED
    BY <1>1, <1>5, <2>1, HeldStays DEF TickAfter
<1>6. CASE TickDone \/ Age
  BY <1>1, <1>6, HeldStays DEF TickDone, Age
<1>7. ASSUME NEW o \in Book, call' \in {call, Matched(o)},
             UNCHANGED <<traded, size, ticker>>
      PROVE  HeldBounds'
  <2>1. Matched(o).read = 0
    BY DEF Matched, Resting
  <2> QED
    BY <1>7, <2>1, HeldStays
<1>8. CASE PlaceMarket \/ ClosePosition \/ \E o \in {"entry", "tp"} : PlaceResting(o)
  BY <1>7, <1>8, BookNames DEF PlaceMarket, ClosePosition, PlaceResting, Matched
<1>9. CASE CallRead
  <2>1. call'.read = size
    BY <1>1, <1>9 DEF CallRead, FillType, ReadPosition
  <2> QED
    BY <1>9, <2>1, HeldStays DEF CallRead
<1>10. CASE CallAfter \/ VirtualCrash
  BY <1>1, <1>10, HeldStays DEF CallAfter, VirtualCrash
<1>11. CASE WaitLook \/ WaitRegister \/ RowOpens
  BY <1>11, HeldStays DEF WaitLook, WaitRegister, RowOpens
<1>12. CASE \/ \E o \in Book : CancelRead(o) \/ CancelWrite(o)
            \/ \E o \in Stops : UpdateStop(o) \/ SaveStop(o)
  BY <1>12, HeldStays DEF CancelRead, CancelWrite, UpdateStop, SaveStop
<1>13. CASE UNCHANGED virtualVars
  BY <1>13, HeldStays DEF virtualVars
<1> QED
  BY <1>2, <1>3, <1>4, <1>5, <1>6, <1>8, <1>9, <1>10, <1>11, <1>12, <1>13 DEF VirtualNext

LEMMA VenueValuesNext ==
  ASSUME VenueInv, VenueValues, [VirtualNext]_virtualVars
  PROVE  VenueValues'
<1> USE BookNames DEF business, venue, histories, bounds
<1>1. /\ ticker.fill.pc # "idle" => ticker.fill.order \in Book
      /\ call.pc # "idle" => call.order \in Book
  BY DEF VenueInv, FillsNamed
<1>2. CASE TickTransact \/ CallTransact
  <2>1. PICK fill \in {ticker.fill, call} :
          /\ fill.order \in Book /\ Transact(fill)
          /\ UNCHANGED <<last, canceller, business, stale, silent, cut>>
    BY <1>1, <1>2 DEF TickTransact, CallTransact
  <2>2. /\ saved' \in {saved, saved \cup {fill.order}}
        /\ overlap' = overlap \/ overlap' = (overlap \/ size # fill.read)
    BY <2>1 DEF Transact
  <2>3. overlap' \in BOOLEAN
    BY <2>2, Zenon DEF VenueValues
  <2> QED
    BY <2>1, <2>2, <2>3 DEF VenueValues
<1>3. CASE Tick \/ TickRead \/ TickDone \/ Age
  BY <1>3 DEF Tick, TickRead, TickDone, Age, VenueValues
<1>4. CASE TickAfter
  BY <1>4 DEF TickAfter, AfterFill, HandleFill, VenueValues
<1>5. CASE PlaceMarket \/ ClosePosition \/ CallRead \/ \E o \in {"entry", "tp"} : PlaceResting(o)
  BY <1>5 DEF PlaceMarket, ClosePosition, CallRead, PlaceResting, VenueValues
<1>6. CASE CallAfter
  BY <1>1, <1>6 DEF CallAfter, AfterFill, VenueValues
<1>7. CASE WaitLook \/ WaitRegister \/ RowOpens
  BY <1>7 DEF WaitLook, WaitRegister, RowOpens, VenueValues
<1>8. CASE VirtualCrash
  <2>1. cut' \in BOOLEAN
    BY <1>8, Zenon DEF VirtualCrash, VenueValues
  <2> QED
    BY <1>8, <2>1 DEF VirtualCrash, VenueValues
<1>9. CASE \E o \in Book : CancelRead(o) \/ CancelWrite(o)
  BY <1>9 DEF CancelRead, CancelWrite, VenueValues
<1>10. CASE \E o \in Stops : UpdateStop(o) \/ SaveStop(o)
  BY <1>10 DEF UpdateStop, SaveStop, VenueValues
<1>11. CASE UNCHANGED virtualVars
  BY <1>11 DEF virtualVars, VenueValues
<1> QED
  BY <1>2, <1>3, <1>4, <1>5, <1>6, <1>7, <1>8, <1>9, <1>10, <1>11 DEF VirtualNext

LEMMA VenueTyped == VenueInv /\ HeldBounds /\ VenueValues => VirtualTypeOK
<1> SUFFICES ASSUME VenueInv, HeldBounds, VenueValues PROVE VirtualTypeOK
  OBVIOUS
<1>1. \A o \in Book : traded[o] \in Nat /\ traded[o] <= AmountOf(o)
  BY DEF VenueInv, VenueTypes, HeldBounds
<1>2. traded["entry"] \in 0..2 /\ traded["add"] \in 0..1
  BY <1>1, BookNames DEF AmountOf
<1>3. Held \in 0..3
  BY <1>2 DEF Held
<1>4. traded \in [Book -> 0..2] /\ size \in 0..3
  <2>1. \A o \in Book : traded[o] \in 0..2
    BY <1>1 DEF AmountOf
  <2> QED
    BY <1>3, <2>1 DEF VenueInv, VenueTypes, HeldBounds
<1>5. ASSUME NEW f \in {ticker.fill, call}
      PROVE  /\ f.pc \in {"idle", "matched", "read", "after"}
             /\ f.order \in Book \cup {"none"} /\ f.read \in 0..3
  <2>1. f \in FillType /\ f.read <= Held
    BY <1>5 DEF VenueInv, VenueTypes, TickerType, HeldBounds
  <2> QED
    BY <1>3, <2>1 DEF FillType
<1>6. ticker.todo \subseteq Book
  BY DEF VenueInv, VenueTypes, TickerType
<1> QED
  BY <1>4, <1>5, <1>6 DEF VirtualTypeOK, VenueInv, VenueTypes, VenueValues, OrderStatuses

\* Every variable of the virtual exchange has the values the code can give it:
\* however stale the positions that fills were computed from, the position is
\* never above the two entries that were bought, and never below nothing.
THEOREM VirtualTyped == VirtualSpec => []VirtualTypeOK
<1>1. VirtualSpec => [](VenueInv /\ HeldBounds /\ VenueValues)
  BY VenueInvInit, VenueInvNext, VenueValuesInit, HeldBoundsNext, VenueValuesNext,
     PTL DEF VirtualSpec
<1> QED
  BY <1>1, VenueTyped, PTL

-----------------------------------------------------------------------------
(* CfdLegs: every variable has the values the code can give it.  A volume  *)
(* the reconciliation has listed is at most that of the leg, though the    *)
(* position may have shrunk or ended since.                                *)

GroupValues ==
  /\ named \in BOOLEAN /\ lots \in Books
  /\ legStatus \in [Legs -> {"pending", "open", "closed"}]
  /\ group \in {"none", "pending", "filled", "failed"}
  /\ cfdCrashes \in 0..CfdCrashes

ListedWithin == \A p \in Positions : recon.todo[p] <= lots[p]

LegSets ==
  /\ linked \subseteq Legs /\ absent \subseteq Legs
  /\ lost \subseteq Legs /\ refused \subseteq Legs /\ late \subseteq Legs
  /\ unset \subseteq Legs /\ misclosed \subseteq Legs /\ mislinked \subseteq Legs

CfdValues == GroupValues /\ ListedWithin /\ LegSets

LEMMA CfdValuesInit == CfdInit => CfdValues
<1> SUFFICES ASSUME CfdInit PROVE CfdValues
  OBVIOUS
<1>1. GroupValues /\ LegSets
  BY CfdAssumption DEF CfdInit, GroupValues, LegSets
<1>2. lots \in [Positions -> Nat]
  BY CfdAssumption DEF CfdInit, Positions, Legs, Old
<1>3. ListedWithin
  BY <1>2 DEF CfdInit, ListedWithin, Nothing
<1> QED
  BY <1>1, <1>3 DEF CfdValues

\* Steps of the open: the leg it is at is one of the group.
LEMMA OpenValues ==
  ASSUME LegInv, CfdValues, Opening
  PROVE  CfdValues'
<1> USE DEF CfdValues, fixed, market, legRows, poller, causes
<1>1. Leg \in Legs
  BY DEF LegInv, LegTypes, OpenerType, Leg
<1>2. Placed \subseteq Legs
  BY DEF Placed
<1>3. UNCHANGED <<fixed, recon, absent, cfdCrashes>>
  BY DEF Opening, OpenGroup, PlaceLeg, PlaceFails, ListMatches, UndoLeg, FailGroup,
         Protect, SaveLeg, WaitEnds, WaitTimesOut
<1>4. ListedWithin'
  BY <1>3 DEF ListedWithin
<1>5. CASE OpenGroup \/ PlaceLeg \/ PlaceFails
  <2>1. GroupValues'
    BY <1>3, <1>5 DEF OpenGroup, PlaceLeg, PlaceFails, GroupValues
  <2>2. LegSets'
    BY <1>1, <1>3, <1>5 DEF OpenGroup, PlaceLeg, PlaceFails, LegSets
  <2> QED
    BY <1>4, <2>1, <2>2
<1>6. CASE ListMatches
  <2>1. /\ UNCHANGED <<legRows, lost, unset, misclosed, mislinked>>
        /\ refused' \in {refused, Placed} /\ late' \subseteq Placed
    BY <1>6 DEF ListMatches
  <2> QED
    BY <1>2, <1>3, <1>4, <2>1 DEF GroupValues, LegSets
<1>7. CASE UndoLeg
  <2>1. /\ UNCHANGED <<legRows, lost, late, unset, misclosed, mislinked>>
        /\ refused' \in {refused, refused \cup {Leg}}
    BY <1>7 DEF UndoLeg
  <2> QED
    BY <1>1, <1>3, <1>4, <2>1 DEF GroupValues, LegSets
<1>8. CASE FailGroup \/ SaveLeg
  BY <1>1, <1>3, <1>4, <1>8 DEF FailGroup, SaveLeg, GroupValues, LegSets
<1>9. CASE Protect
  <2>1. /\ UNCHANGED <<legRows, lost, refused, late, misclosed, mislinked>>
        /\ unset' \in {unset, unset \cup {Leg}}
    BY <1>9 DEF Protect
  <2> QED
    BY <1>1, <1>3, <1>4, <2>1 DEF GroupValues, LegSets
<1>10. CASE WaitEnds \/ WaitTimesOut
  <2>1. /\ UNCHANGED <<linked, causes>> /\ group' \in {group, "filled"}
        /\ legStatus' \in {legStatus, [legStatus EXCEPT ![Leg] = "open"]}
    BY <1>10 DEF WaitEnds, WaitTimesOut, NextLeg
  <2> QED
    BY <1>1, <1>3, <1>4, <2>1 DEF GroupValues, LegSets
<1> QED
  BY <1>5, <1>6, <1>7, <1>8, <1>9, <1>10 DEF Opening

\* The reconciliation, the poller and the restarts.
LEMMA ReconcileValues ==
  ASSUME LegInv, RowInv, CfdValues,
         \/ Poll \/ Restart \/ Reload \/ ReconcileOpenOrders \/ PositionsReconciled
         \/ ReconcileOrderHistory
         \/ \E p \in Positions : PositionClosed(p) \/ ReconcilePosition(p)
  PROVE  CfdValues'
<1> USE LegNumbers DEF CfdValues, fixed, market, legRows, poller, causes
<1>1. /\ lots \in [Positions -> Nat] /\ qty \in [Positions -> Nat]
      /\ \A p \in Positions : qty[p] <= lots[p]
      /\ recon.todo \in [Positions -> Nat]
  BY DEF LegInv, LegTypes, RowInv, RowTypes
<1>2. CASE Poll
  BY <1>2 DEF Poll, GroupValues, ListedWithin, LegSets
<1>3. \A p \in Positions : Nothing[p] = 0 /\ 0 <= lots[p]
  BY <1>1 DEF Nothing
<1>4. CASE Restart \/ Reload
  <2>1. /\ UNCHANGED <<fixed, legRows, lost, refused, late, misclosed, mislinked>>
        /\ cfdCrashes < CfdCrashes /\ cfdCrashes' = cfdCrashes + 1
        /\ recon'.todo = Nothing
    BY <1>4 DEF Restart, Reload, Again, Reconcile
  <2>2. absent' \in {absent, {}} /\ unset' \subseteq unset \cup Legs
    BY <1>4 DEF Restart, Reload
  <2>3. cfdCrashes' \in 0..CfdCrashes
    BY <2>1, CfdAssumption DEF GroupValues
  <2> QED
    BY <1>3, <2>1, <2>2, <2>3 DEF GroupValues, ListedWithin, LegSets
<1>5. CASE ReconcileOpenOrders \/ PositionsReconciled
  <2>1. /\ UNCHANGED <<fixed, linked, legStatus, group, absent, causes, cfdCrashes>>
        /\ recon'.todo \in {Nothing, qty}
    BY <1>5 DEF ReconcileOpenOrders, PositionsReconciled, Reconcile
  <2> QED
    BY <1>1, <1>3, <2>1 DEF GroupValues, ListedWithin, LegSets
<1>6. CASE ReconcileOrderHistory
  <2>1. PICK ended \in SUBSET Legs :
          /\ legStatus' = [l \in Legs |-> IF l \in ended THEN "closed" ELSE legStatus[l]]
          /\ misclosed' = misclosed \cup {l \in ended : qty[l] > 0}
    BY <1>6 DEF ReconcileOrderHistory
  <2>2. /\ UNCHANGED <<fixed, linked, group, absent, lost, refused, late, unset,
                       mislinked, cfdCrashes>>
        /\ recon'.todo = Nothing
    BY <1>6 DEF ReconcileOrderHistory, Reconcile
  <2> QED
    BY <1>3, <2>1, <2>2 DEF GroupValues, ListedWithin, LegSets
<1>7. ASSUME NEW p \in Positions, PositionClosed(p)
      PROVE  CfdValues'
  <2>1. /\ UNCHANGED <<fixed, linked, group, recon, absent, causes, cfdCrashes>>
        /\ legStatus' \in {legStatus} \cup {[legStatus EXCEPT ![l] = "closed"] : l \in Legs}
    BY <1>7, LegOfIs DEF PositionClosed, CloseRow
  <2> QED
    BY <2>1 DEF GroupValues, ListedWithin, LegSets
<1>8. ASSUME NEW p \in Positions, ReconcilePosition(p)
      PROVE  CfdValues'
  <2> DEFINE l == IF LegOf(p) # Nobody THEN LegOf(p) ELSE Alike(recon.todo[p])
  <2>1. l \in Legs \cup {Nobody}
    BY LegOfIs, LeastIn DEF Alike
  <2>2. /\ UNCHANGED <<fixed, linked, group, absent, lost, refused, late, unset,
                       misclosed, cfdCrashes>>
        /\ recon'.todo = [recon.todo EXCEPT ![p] = 0]
        /\ IF l = Nobody THEN UNCHANGED <<legStatus, mislinked>>
           ELSE /\ legStatus' = [legStatus EXCEPT ![l] = "open"]
                /\ mislinked' = IF p = l THEN mislinked ELSE mislinked \cup {l}
    BY <1>8 DEF ReconcilePosition, Reconcile
  <2> HIDE DEF l
  <2>3. ListedWithin'
    <3>1. lots' = lots /\ Positions' = Positions
      BY <2>2 DEF Positions, Legs
    <3>2. \A q \in Positions : recon'.todo[q] \in {0, recon.todo[q]}
      BY <1>1, <2>2
    <3>3. \A q \in Positions : recon.todo[q] <= lots[q] /\ 0 <= lots[q]
      BY <1>1 DEF ListedWithin
    <3>4. \A q \in Positions : recon'.todo[q] <= lots'[q]
      BY <3>1, <3>2, <3>3
    <3> QED
      BY <3>1, <3>4 DEF ListedWithin
  <2>4. GroupValues' /\ LegSets'
    BY <2>1, <2>2 DEF GroupValues, LegSets
  <2> QED
    BY <2>3, <2>4
<1> QED
  BY <1>2, <1>4, <1>5, <1>6, <1>7, <1>8

LEMMA CfdValuesNext ==
  ASSUME LegInv, RowInv, CfdValues, [CfdNext]_cfdVars
  PROVE  CfdValues'
<1> USE DEF CfdValues, fixed, market, legRows, poller, causes
<1>1. CASE Opening
  BY <1>1, OpenValues
<1>2. CASE \/ Poll \/ Restart \/ Reload \/ ReconcileOpenOrders \/ PositionsReconciled
           \/ ReconcileOrderHistory
           \/ \E p \in Positions : PositionClosed(p) \/ ReconcilePosition(p)
  BY <1>2, ReconcileValues
<1>3. CASE \/ UpdateStopLoss \/ \E l \in Legs : FillLeg(l) \/ Withdraw(l)
           \/ \E p \in Positions : EndPosition(p)
  BY <1>3 DEF UpdateStopLoss, FillLeg, Withdraw, EndPosition, GroupValues, ListedWithin,
              LegSets
<1>4. ASSUME NEW l \in Legs, WatchAbsent(l) \/ AutoClose(l)
      PROVE  CfdValues'
  <2>1. /\ UNCHANGED <<fixed, linked, legStatus, group, recon, causes, cfdCrashes>>
        /\ absent' \subseteq absent \cup {l}
    BY <1>4 DEF WatchAbsent, AutoClose, Confirm
  <2> QED
    BY <2>1 DEF GroupValues, ListedWithin, LegSets
<1>5. CASE UNCHANGED cfdVars
  BY <1>5 DEF cfdVars, GroupValues, ListedWithin, LegSets
<1> QED
  BY <1>1, <1>2, <1>3, <1>4, <1>5 DEF CfdNext

LEMMA CfdTypes == LegInv /\ RowInv /\ CfdValues => CfdTypeOK
<1> SUFFICES ASSUME LegInv, RowInv, CfdValues PROVE CfdTypeOK
  OBVIOUS
<1>1. opener \in [leg : Legs, match : [Legs -> Positions \cup {Nobody}],
        pc : {"new", "place", "rollback", "undo", "fail", "failed", "protect",
              "save", "wait", "done", "dead"}]
  BY DEF LegInv, LegTypes, OpenerType, OpenerSteps
<1>2. \A p \in Positions : {qty[p], recon.todo[p]} \subseteq 0..lots[p]
  BY DEF LegInv, LegTypes, RowInv, RowTypes, CfdValues, ListedWithin
<1>3. recon.step \in {"idle", "orders", "positions", "history"}
  BY DEF RowInv, RowTypes
<1> QED
  BY <1>1, <1>2, <1>3
     DEF CfdTypeOK, LegInv, LegTypes, RowInv, RowTypes, CfdValues, GroupValues, LegSets

\* Every variable of a group of CFD legs has the values the code can give it,
\* for any number of legs, volumes and restarts: no position and no listed
\* volume is above that of its leg.
THEOREM CfdTyped == CfdSpec => []CfdTypeOK
<1>1. CfdSpec => [](LegInv /\ RowInv /\ CfdValues)
  BY LegInvInit, LegInvNext, RowInvInit, RowInvNext, CfdValuesInit, CfdValuesNext,
     PTL DEF CfdSpec
<1> QED
  BY <1>1, CfdTypes, PTL

=============================================================================
