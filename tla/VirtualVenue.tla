----------------------------- MODULE VirtualVenue -----------------------------
(***************************************************************************)
(* The virtual Gate exchange on one symbol, with a long entry, its take    *)
(* profit and stop loss, a further market entry and a close.  Ticks are    *)
(* matched one after the other; calls of the executor match on their own   *)
(* beside them.  A fill reads the position, computes the next one and      *)
(* writes order, position and trade in one transaction.                    *)
(***************************************************************************)
EXTENDS Integers, FiniteSets, FiniteSetsExt

CONSTANTS
  TickCount,     \* bound of the ticks
  VirtualCrashes \* bound of restarts

VARIABLES
  status,    \* VirtualOrder.status
  traded,    \* amount of each order's VirtualTrade
  size,      \* VirtualPosition.size
  last,      \* the hub's latest price; 0 when there is none or it is stale
  ticker,    \* processTick: its price, the orders listed, the fill at work
  call,      \* placeOrder or closePosition: its order, the fill at work
  canceller, \* orders a cancel has read as open
  waiter,    \* waitForOrderFill of the entry
  ownRow, otherRow, \* the Order of the entry; one of another instance
  stopId,    \* activeStopLossId of ownRow
  overlap, stale, silent, cut, \* history: what went wrong
  saved,     \* history: stops that filled with their id saved
  ticks, virtualCrashes

venue == <<status, traded, size>>
business == <<waiter, ownRow, otherRow, stopId>>
histories == <<overlap, stale, silent, saved, cut>>
bounds == <<ticks, virtualCrashes>>
virtualVars == <<venue, last, ticker, call, canceller, business, histories, bounds>>

Stops == {"sl", "sl2"}
Reducing == Stops \cup {"tp", "close"}
Book == Reducing \cup {"entry", "add"}
Prices == 1..3
AmountOf(o) == IF o \in {"entry", "sl", "sl2"} THEN 2 ELSE 1

\* shouldFillLimit and shouldTriggerProtection: the entry rests at 2, the take
\* profit at 3, the stop at 1, its replacement at 2; a market order has no
\* price and never matches a tick.
Reached(o, price) ==
  \/ /\ o \in {"entry", "sl2"} /\ price <= 2
  \/ /\ o = "tp" /\ price = 3
  \/ /\ o = "sl" /\ price = 1

Resting == [pc |-> "idle", order |-> "none", read |-> 0]
Quiet == [price |-> 0, todo |-> {}, fill |-> Resting]

VirtualInit ==
  /\ status = [o \in Book |-> "none"] /\ traded = [o \in Book |-> 0] /\ size = 0
  /\ last = 0 /\ ticker = Quiet /\ call = Resting /\ canceller = {}
  /\ waiter = "none" /\ ownRow = "INIT" /\ otherRow = "OPEN" /\ stopId = "none"
  /\ overlap = FALSE /\ stale = {} /\ silent = {} /\ saved = {} /\ cut = FALSE
  /\ ticks = 0 /\ virtualCrashes = 0

-----------------------------------------------------------------------------
(* VirtualMatchingEngine.fillOrder, in three steps: the position is read,  *)
(* the transaction is made, and what follows a fill is done                *)

ReadPosition(fill) == [fill EXCEPT !.pc = "read", !.read = size]

\* A reduce-only order closes at most the position that was read.
Closed(o, read) == IF o \in Reducing THEN Min({read, AmountOf(o)}) ELSE AmountOf(o)

\* Mutant: an order no longer open is filled again.
FillableAny(o, read) == o \in Reducing => read > 0

\* markOrderFilled has the condition that the order is still open; without a
\* position to reduce the order is cancelled, under the same condition.
Fillable(o, read) == status[o] = "open" /\ (o \in Reducing => read > 0)

\* The position is written as computed from the earlier read.
Transact(fill) ==
  LET o == fill.order
      amount == Closed(o, fill.read)
  IN  IF Fillable(o, fill.read)
      THEN /\ status' = [status EXCEPT ![o] = "filled"]
           /\ traded' = [traded EXCEPT ![o] = amount]
           /\ size' = IF o \in Reducing THEN fill.read - amount ELSE fill.read + amount
           /\ overlap' = (overlap \/ size # fill.read)
           /\ saved' = IF stopId = o THEN saved \cup {o} ELSE saved
      ELSE /\ status' = IF status[o] = "open" THEN [status EXCEPT ![o] = "cancelled"]
                                              ELSE status
           /\ UNCHANGED <<traded, size, overlap, saved>>

\* Mutant: stale reduce-only orders are cancelled without a look at their status.
AfterFillBlind(o) ==
  /\ waiter' = IF o = "entry" /\ waiter = "waiting" THEN "answered" ELSE waiter
  /\ status' = [b \in Book |->
       IF b \in Reducing /\ status[b] # "none" /\ size = 0 THEN "cancelled"
       ELSE status[b]]

\* resolveFillListener, then cancelStaleReduceOnlyOrders.
AfterFill(o) ==
  /\ waiter' = IF o = "entry" /\ waiter = "waiting" THEN "answered" ELSE waiter
  /\ status' = [b \in Book |->
       IF b \in Reducing /\ status[b] = "open" /\ size = 0 THEN "cancelled"
       ELSE status[b]]

\* Mutant: the rows of symbol and side are closed whatever stop id was saved.
HandleFillBySide(o) ==
  /\ ownRow' = IF o \in Reducing \ {"close"} THEN "CLOSED" ELSE ownRow
  /\ otherRow' = IF o \in Stops THEN "CLOSED" ELSE otherRow

\* VirtualExchangeFillHandler: the text of a take profit names its order; that
\* of a position-level stop names symbol and side, and closes the rows that
\* saved its id or, if none did, every active row of that symbol and side.
\* The text of a close names nothing.
HandleFill(o) ==
  CASE o = "tp"  -> ownRow' = "CLOSED" /\ UNCHANGED otherRow
    [] o \in Stops /\ stopId = o -> ownRow' = "CLOSED" /\ UNCHANGED otherRow
    [] o \in Stops /\ stopId # o ->
         /\ ownRow' = IF ownRow = "OPEN" THEN "CLOSED" ELSE ownRow
         /\ otherRow' = "CLOSED"
    [] OTHER -> UNCHANGED <<ownRow, otherRow>>

-----------------------------------------------------------------------------
(* Ticks: enqueueTick and processTick *)

\* A price comes in while the queue is empty; the open orders are listed.
ListedOf(price) == {o \in Book : status[o] = "open" /\ Reached(o, price)}

Tick ==
  /\ ticker = Quiet /\ ticks < TickCount /\ ticks' = ticks + 1
  /\ \E price \in Prices :
       /\ last' = price
       /\ ticker' = [Quiet EXCEPT !.price = price, !.todo = ListedOf(price)]
  /\ UNCHANGED <<venue, call, canceller, business, histories, virtualCrashes>>

TickRead ==
  /\ ticker.fill.pc = "idle"
  /\ \E o \in ticker.todo :
       ticker' = [ticker EXCEPT !.todo = @ \ {o},
         !.fill = ReadPosition([Resting EXCEPT !.order = o])]
  /\ UNCHANGED <<venue, last, call, canceller, business, histories, bounds>>

TickTransact ==
  /\ ticker.fill.pc = "read" /\ Transact(ticker.fill)
  /\ ticker' = [ticker EXCEPT !.fill =
       IF Fillable(@.order, @.read) THEN [@ EXCEPT !.pc = "after"] ELSE Resting]
  /\ UNCHANGED <<last, call, canceller, business, stale, silent, cut, bounds>>

TickAfter ==
  /\ ticker.fill.pc = "after" /\ AfterFill(ticker.fill.order)
  /\ HandleFill(ticker.fill.order)
  /\ ticker' = [ticker EXCEPT !.fill = Resting]
  /\ UNCHANGED <<traded, size, last, call, canceller, stopId, histories, bounds>>

TickDone ==
  /\ ticker.price > 0 /\ ticker.todo = {} /\ ticker.fill = Resting /\ ticker' = Quiet
  /\ UNCHANGED <<venue, last, call, canceller, business, histories, bounds>>

\* The tick grows older than maxTickAgeMs.
Age ==
  /\ last > 0 /\ last' = 0
  /\ UNCHANGED <<venue, ticker, call, canceller, business, histories, bounds>>

-----------------------------------------------------------------------------
(* Calls *)

Opened(o) == status' = [status EXCEPT ![o] = "open"]

\* placeOrder of a limit order: created open, and matched at once when the
\* latest price reaches it.
PlaceResting(o) ==
  /\ call = Resting /\ status[o] = "none" /\ Opened(o)
  /\ o = "tp" => ownRow = "OPEN"
  /\ call' = IF last > 0 /\ Reached(o, last)
             THEN [Resting EXCEPT !.pc = "matched", !.order = o] ELSE call
  /\ UNCHANGED <<traded, size, last, ticker, canceller, business, histories, bounds>>

\* placeOrder of a market order: created open before the price is asked for;
\* without a fresh one it throws and the order stays.
PlaceMarket ==
  /\ call = Resting /\ status["add"] = "none" /\ Opened("add")
  /\ call' = IF last > 0 THEN [Resting EXCEPT !.pc = "matched", !.order = "add"]
                         ELSE call
  /\ UNCHANGED <<traded, size, last, ticker, canceller, business, histories, bounds>>

\* closePosition: nothing to do without a position, an error without a price.
ClosePosition ==
  /\ call = Resting /\ status["close"] = "none" /\ size > 0 /\ last > 0
  /\ Opened("close")
  /\ call' = [Resting EXCEPT !.pc = "matched", !.order = "close"]
  /\ UNCHANGED <<traded, size, last, ticker, canceller, business, histories, bounds>>

CallRead ==
  /\ call.pc = "matched" /\ call' = ReadPosition(call)
  /\ UNCHANGED <<venue, last, ticker, canceller, business, histories, bounds>>

CallTransact ==
  /\ call.pc = "read" /\ Transact(call)
  /\ call' = IF Fillable(call.order, call.read) THEN [call EXCEPT !.pc = "after"]
                                                ELSE Resting
  /\ UNCHANGED <<last, ticker, canceller, business, stale, silent, cut, bounds>>

\* A limit order matched at once has no callback.
CallAfter ==
  /\ call.pc = "after" /\ AfterFill(call.order) /\ call' = Resting
  /\ silent' = silent \cup {call.order}
  /\ UNCHANGED <<traded, size, last, ticker, canceller, ownRow, otherRow, stopId,
                 overlap, stale, saved, cut, bounds>>

\* cancelOrder and cancelPriceOrder write without a condition what they read
\* before.  Bound: one cancel at a time.
CancelRead(o) ==
  /\ o \in {"entry", "tp", "sl"} /\ status[o] = "open"
  /\ canceller = {} /\ canceller' = {o}
  /\ UNCHANGED <<venue, last, ticker, call, business, histories, bounds>>

\* Mutant: a cancel wakes nobody.
CancelWriteSilent(o) ==
  /\ o \in canceller /\ canceller' = canceller \ {o}
  /\ stale' = IF status[o] # "open" THEN stale \cup {o} ELSE stale
  /\ status' = [status EXCEPT ![o] = "cancelled"]
  /\ UNCHANGED <<traded, size, last, ticker, call, business, overlap, silent, saved,
                 cut, bounds>>

\* The write; whoever waits for the order is woken.
CancelWrite(o) ==
  /\ o \in canceller /\ canceller' = canceller \ {o}
  /\ stale' = IF status[o] # "open" THEN stale \cup {o} ELSE stale
  /\ status' = [status EXCEPT ![o] = "cancelled"]
  /\ waiter' = IF o = "entry" /\ waiter = "waiting" THEN "answered" ELSE waiter
  /\ UNCHANGED <<traded, size, last, ticker, call, ownRow, otherRow, stopId, overlap,
                 silent, saved, cut, bounds>>

\* updateStopLoss: the old stop is cancelled, the new one created, and its id
\* saved by the caller afterwards.
UpdateStop(o) ==
  /\ ownRow = "OPEN" /\ status[o] = "none" /\ size > 0
  /\ o = "sl2" => status["sl"] # "none"
  /\ status' = [b \in Book |-> IF b = o THEN "open"
                               ELSE IF b \in Stops /\ status[b] = "open"
                               THEN "cancelled" ELSE status[b]]
  /\ UNCHANGED <<traded, size, last, ticker, call, canceller, business, histories, bounds>>

SaveStop(o) ==
  /\ o \in Stops /\ status[o] # "none" /\ stopId # o /\ (o = "sl" => stopId = "none")
  /\ stopId' = o
  /\ saved' = IF ticker.fill.pc = "after" THEN saved \ {ticker.fill.order} ELSE saved
  /\ UNCHANGED <<venue, last, ticker, call, canceller, waiter, ownRow, otherRow,
                 overlap, stale, silent, cut, bounds>>

\* waitForOrderFill looks at the order, then registers; what ended in between
\* is not noticed.  A cancelled order is waited for as well.
WaitLook ==
  /\ waiter = "none" /\ status["entry"] # "none"
  /\ waiter' = IF status["entry"] = "filled" THEN "answered" ELSE "looked"
  /\ UNCHANGED <<venue, last, ticker, call, canceller, ownRow, otherRow, stopId,
                 histories, bounds>>

WaitRegister ==
  /\ waiter = "looked" /\ waiter' = "waiting"
  /\ UNCHANGED <<venue, last, ticker, call, canceller, ownRow, otherRow, stopId,
                 histories, bounds>>

\* The executor, answered, takes the entry for filled.
RowOpens ==
  /\ waiter = "answered" /\ ownRow = "INIT" /\ ownRow' = "OPEN"
  /\ UNCHANGED <<venue, last, ticker, call, canceller, waiter, otherRow, stopId,
                 histories, bounds>>

\* Ticks, calls and waiters are memory, everything else is in the database.
VirtualCrash ==
  /\ virtualCrashes < VirtualCrashes /\ virtualCrashes' = virtualCrashes + 1
  /\ cut' = (cut \/ "after" \in {ticker.fill.pc, call.pc})
  /\ ticker' = Quiet /\ call' = Resting /\ canceller' = {} /\ last' = 0
  /\ waiter' = IF waiter = "answered" THEN waiter ELSE "lost"
  /\ UNCHANGED <<venue, ownRow, otherRow, stopId, overlap, stale, silent, saved, ticks>>

-----------------------------------------------------------------------------

VirtualNext ==
  \/ Tick \/ TickRead \/ TickTransact \/ TickAfter \/ TickDone \/ Age
  \/ PlaceMarket \/ ClosePosition \/ CallRead \/ CallTransact \/ CallAfter
  \/ WaitLook \/ WaitRegister \/ RowOpens \/ VirtualCrash
  \/ \E o \in {"entry", "tp"} : PlaceResting(o)
  \/ \E o \in Book : CancelRead(o) \/ CancelWrite(o)
  \/ \E o \in Stops : UpdateStop(o) \/ SaveStop(o)

VirtualSpec == VirtualInit /\ [][VirtualNext]_virtualVars

TickGoesOn == TickRead \/ TickTransact \/ TickAfter \/ TickDone
CallGoesOn == CallRead \/ CallTransact \/ CallAfter

\* The queue of ticks goes on, and so does a call that has begun to match.
VirtualFairness == WF_virtualVars(TickGoesOn) /\ WF_virtualVars(CallGoesOn)

-----------------------------------------------------------------------------
(* Properties *)

\* Every variable has the values the code can give it.
VirtualTypeOK ==
  /\ status \in [Book -> {"none", "open", "filled", "cancelled"}]
  /\ traded \in [Book -> 0..2] /\ size \in 0..3 /\ last \in {0} \cup Prices
  /\ ticker.todo \cup canceller \cup stale \cup silent \cup saved \subseteq Book
  /\ \A f \in {ticker.fill, call} :
       /\ f.pc \in {"idle", "matched", "read", "after"}
       /\ f.order \in Book \cup {"none"} /\ f.read \in 0..3
  /\ waiter \in {"none", "looked", "waiting", "answered", "lost"}
  /\ ownRow \in {"INIT", "OPEN", "CLOSED"} /\ otherRow \in {"OPEN", "CLOSED"}
  /\ stopId \in Stops \cup {"none"} /\ {overlap, cut} \subseteq BOOLEAN

\* The position is the sum of the trades, unless a fill was computed from a
\* position that another one changed before its transaction.
PositionIsTrades ==
  overlap \/ size = traded["entry"] + traded["add"]
                      - (traded["tp"] + traded["close"] + traded["sl"] + traded["sl2"])

\* An order that traded is filled, and a filled one has traded, except where a
\* cancel wrote over a fill it had not seen.
TradedIsFilled ==
  \A o \in Book \ stale : traded[o] > 0 <=> status[o] = "filled"

\* A take profit or a stop that filled has ended the row of its entry, once
\* nothing is at work, except where it was matched as it was placed, the row
\* was not open yet, or a restart came between the fill and its callback; and
\* a stop whose id was saved by its callback ended no row of another instance.
ProtectionEndsRow ==
  /\ (ticker.fill = Resting /\ call = Resting /\ ~cut /\ ownRow = "OPEN") =>
        \A o \in Reducing \ {"close"} : traded[o] > 0 => o \in silent
  /\ otherRow = "CLOSED" => \E o \in Stops : traded[o] > 0 /\ o \notin saved

\* A tick that has listed the entry answers whoever waits for its fill,
\* whether the entry is filled, filled by the call that placed it, or
\* cancelled meanwhile; only a restart loses the waiter.
ListedAnswered ==
  ("entry" \in ticker.todo /\ status["entry"] = "open" /\ waiter = "waiting") ~>
    waiter # "waiting"

=============================================================================
