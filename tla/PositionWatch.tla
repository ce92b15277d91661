----------------------------- MODULE PositionWatch -----------------------------
(***************************************************************************)
(* What becomes of a position after its entry orders: one symbol of one    *)
(* Gate perpetuals instance on which several entry orders, one per         *)
(* strategy, share the net position, its one position-level stop loss and  *)
(* each its own take-profit ladder.  Acting on it at the same time:        *)
(*   GateIOWSEventRouter.checkPositionClosed, run for each position event; *)
(*   NoStopLossMonitor, a scan every five seconds;                         *)
(*   ClosePositionService.handleClose, for a signal, the soft stop loss,   *)
(*   the monitor or a user; UpdateOrderService; PendingEntryService;       *)
(*   the fill handler of GateIOOrderPersistenceHandler for take profits.   *)
(* EntryOrder has the way of an order up to its ladder; here that is       *)
(* Fill, SaveFilled and Protect.  Every order is long and of one contract, *)
(* with one take-profit tier; a close is for the whole tracked amount.     *)
(***************************************************************************)
EXTENDS Integers, FiniteSets

CONSTANTS
  Orders,        \* entry orders on the symbol, numbered as they are created
  Checks,        \* runs of checkPositionClosed that can be under way
  Closers,       \* runs of handleClose that can be under way
  Confirmations, \* MISSING_SL_CONFIRMATIONS (3 in the code)
  Confirmed,     \* scans after which an absent position counts as gone
  MaxFaults      \* bound of the calls that fail

ASSUME BoundsAssumption ==
  /\ Orders \subseteq Nat /\ IsFiniteSet(Orders)
  /\ Confirmations \in Nat /\ Confirmed \in Nat /\ MaxFaults \in Nat

VARIABLES
  stage,    \* new, resting, filled, saved or done: an entry order
  row,      \* lifecycleStatus of its row; CLOSED is for FAILED too
  left,     \* remainingSize of its StrategyPosition, -1: no such row
  own,      \* what it put into the position and is still there
  sl,       \* amount of the position-level stop loss, 0: there is none
  tps,      \* orders whose take-profit tier rests on the exchange
  tpEvents, \* take-profit fills the websocket has not told yet
  opens,    \* orders inside handleOpen's try block
  opening,  \* pendingOpenSymbols has the symbol
  inflight, \* closeCleanupInFlight has the symbol
  cooled,   \* recentCloseCleanupAt is younger than the cooldown
  check,    \* each checkPositionClosed: where it is, what it found
  watch,    \* NoStopLossMonitor's entry of each order
  closer,   \* each handleClose: where it is, scope, tracked part, amount
  faults,   \* calls that failed so far
  excused   \* history: orders whose row may be wrong for a known reason

exchange == <<own, sl, tps>>
rows     == <<stage, row, left>>
router   == <<opens, opening, inflight, cooled, check>>
vars == <<rows, exchange, tpEvents, router, watch, closer, faults, excused>>

Position == Cardinality({o \in Orders : own[o] = 1})
Active   == {o \in Orders : row[o] \in {"OPEN", "PROTECTED"}}
Lesser(a, b) == IF a < b THEN a ELSE b

\* The position after n contracts of it were sold, those of mine first.
Sold(mine, n) ==
  {f \in [Orders -> 0..1] :
     LET gone == {o \in Orders : own[o] = 1 /\ f[o] = 0}
         held == {o \in mine : own[o] = 1}
     IN  /\ \A o \in Orders : f[o] <= own[o]
         /\ Cardinality(gone) = Lesser(n, Position)
         /\ held \subseteq gone \/ gone \subseteq held}

Fail == faults < MaxFaults /\ faults' = faults + 1

\* getPosition and getPositions find none, which is also their answer when
\* the call fails.
SeenGone == (Position = 0 /\ UNCHANGED faults) \/ Fail

\* updateStopLoss: the stops there are are cancelled, one of n contracts is
\* placed.
StopMoved(n) == sl' = n /\ UNCHANGED faults

\* Its failure: the old stop is restored, or that fails too.
StopRefused == Fail /\ sl' \in {sl, 0}

Fresh == [absent |-> 0, missing |-> 0]
Idle  == [pc |-> "idle", scope |-> {}, tracked |-> {}, amount |-> 0]

Init ==
  /\ stage = [o \in Orders |-> "new"]
  /\ row = [o \in Orders |-> "NONE"]
  /\ left = [o \in Orders |-> -1]
  /\ own = [o \in Orders |-> 0]
  /\ sl = 0 /\ tps = {} /\ tpEvents = {}
  /\ opens = {} /\ opening = FALSE
  /\ inflight = FALSE /\ cooled = FALSE
  /\ check = [c \in Checks |-> [pc |-> "idle", found |-> {}]]
  /\ watch = [o \in Orders |-> Fresh]
  /\ closer = [k \in Closers |-> Idle]
  /\ faults = 0 /\ excused = {}

-----------------------------------------------------------------------------
(* Entry orders: what EntryOrder has in detail *)

\* handleOpen marks the symbol and creates the order; the mark is one entry
\* of a set, however many opens there are.
BeginOpen(o) ==
  /\ stage[o] = "new" /\ \A p \in Orders : p < o => stage[p] # "new"
  /\ stage' = [stage EXCEPT ![o] = "resting"]
  /\ row' = [row EXCEPT ![o] = "PENDING"]
  /\ opens' = opens \cup {o} /\ opening' = TRUE
  /\ UNCHANGED <<left, exchange, tpEvents, inflight, cooled, check, watch,
                 closer, faults, excused>>

\* The finally block: the first open to end removes the mark of all.
EndOpen(o) ==
  /\ o \in opens
  /\ opens' = opens \ {o} /\ opening' = FALSE
  /\ UNCHANGED <<rows, exchange, tpEvents, inflight, cooled, check, watch,
                 closer, faults, excused>>

\* Past its second verification a check no longer looks at the position.
Looked == {"guard", "read", "cancel", "save"}

Fill(o) ==
  /\ stage[o] = "resting"
  /\ stage' = [stage EXCEPT ![o] = "filled"]
  /\ own' = [own EXCEPT ![o] = 1]
  /\ excused' = IF \E c \in Checks : check[c].pc \in Looked
                THEN excused \cup {o} ELSE excused
  /\ UNCHANGED <<row, left, sl, tps, tpEvents, router, watch, closer, faults>>

\* The fill handler writes OPEN whatever the row says.
SaveFilled(o) ==
  /\ stage[o] = "filled"
  /\ stage' = [stage EXCEPT ![o] = "saved"]
  /\ row' = [row EXCEPT ![o] = "OPEN"]
  /\ UNCHANGED <<left, exchange, tpEvents, router, watch, closer, faults,
                 excused>>

\* placeProtections: one stop loss for the whole position, the order's tier.
Protect(o) ==
  /\ stage[o] = "saved"
  /\ \/ /\ stage' = [stage EXCEPT ![o] = "done"]
        /\ IF Position > 0
           THEN /\ sl' = Position /\ tps' = tps \cup {o}
                /\ row' = [row EXCEPT ![o] = IF @ = "OPEN" THEN "PROTECTED" ELSE @]
           ELSE UNCHANGED <<sl, tps, row>>
        /\ UNCHANGED faults
     \/ /\ Fail
        /\ stage' = [stage EXCEPT ![o] = "done"]
        /\ UNCHANGED <<sl, tps, row>>
  /\ UNCHANGED <<left, own, tpEvents, router, watch, closer, excused>>

-----------------------------------------------------------------------------
(* The exchange *)

TpFill(o) ==
  /\ o \in tps /\ Position > 0
  /\ tps' = tps \ {o} /\ tpEvents' = tpEvents \cup {o}
  /\ \E f \in Sold({o}, 1) : own' = f
  /\ UNCHANGED <<rows, sl, router, watch, closer, faults, excused>>

SlFire ==
  /\ sl > 0 /\ Position > 0
  /\ sl' = 0
  /\ \E f \in Sold({}, sl) : own' = f
  /\ UNCHANGED <<rows, tps, tpEvents, router, watch, closer, faults, excused>>

ManualClose ==
  /\ Position > 0
  /\ own' = [o \in Orders |-> 0]
  /\ UNCHANGED <<rows, sl, tps, tpEvents, router, watch, closer, faults, excused>>

\* The exchange drops what can only reduce a position that is gone.
Tidy ==
  /\ Position = 0 /\ (sl > 0 \/ tps # {})
  /\ sl' = 0 /\ tps' = {}
  /\ UNCHANGED <<rows, own, tpEvents, router, watch, closer, faults, excused>>

\* Mutant: a StrategyPosition with nothing left pays all the same.
PayersAll == Orders

\* The StrategyPosition rows a take-profit fill may be booked to.
Payers == {p \in Orders : left[p] > 0}

\* handleOrderFilled of a take profit: the first StrategyPosition of the
\* symbol that has something left pays, the stop loss moves to breakeven (or
\* fails to), and if the position is gone everything is cancelled.
WsTpFill(o) ==
  /\ o \in tpEvents
  /\ tpEvents' = tpEvents \ {o}
  /\ \/ Payers = {} /\ UNCHANGED left
     \/ \E p \in Payers : left' = [left EXCEPT ![p] = @ - 1]
  /\ IF Position > 0
     THEN (StopMoved(Position) \/ StopRefused) /\ UNCHANGED <<tps, row>>
     ELSE /\ sl' = 0 /\ tps' = {} /\ UNCHANGED faults
          /\ row' = [row EXCEPT ![o] = "CLOSED"]
  /\ UNCHANGED <<stage, own, router, watch, closer, excused>>

-----------------------------------------------------------------------------
(* GateIOWSEventRouter.checkPositionClosed *)

\* The guards at its head.  The finally block removes the in-flight mark on
\* every way out, also when another run set it.
Enter(c) ==
  IF inflight
  THEN check' = [check EXCEPT ![c].pc = "idle"] /\ inflight' = FALSE
  ELSE /\ inflight' = ~(cooled \/ opening)
       /\ check' = [check EXCEPT ![c].pc = IF cooled THEN "idle"
                      ELSE IF opening THEN "deferred" ELSE "verify1"]

\* An event of size 0: the position is gone, or an open changes the leverage.
ZeroEvent(c) ==
  /\ check[c].pc = "idle"
  /\ Position = 0 \/ opens # {}
  /\ Enter(c)
  /\ UNCHANGED <<rows, exchange, tpEvents, opens, opening, cooled, watch,
                 closer, faults, excused>>

\* The timer of a check an open deferred.
Deferred(c) ==
  /\ check[c].pc = "deferred"
  /\ Enter(c)
  /\ UNCHANGED <<rows, exchange, tpEvents, opens, opening, cooled, watch,
                 closer, faults, excused>>

\* Any other event ends the cooldown, and the in-flight mark with it.
OpenEvent ==
  /\ Position > 0
  /\ cooled' = FALSE /\ inflight' = FALSE
  /\ UNCHANGED <<rows, exchange, tpEvents, opens, opening, check, watch,
                 closer, faults, excused>>

CooldownEnds ==
  /\ cooled /\ cooled' = FALSE
  /\ UNCHANGED <<rows, exchange, tpEvents, opens, opening, inflight, check,
                 watch, closer, faults, excused>>

\* Found open: the run ends, and with it the cooldown and the in-flight mark.
Abort(c) ==
  /\ check' = [check EXCEPT ![c].pc = "idle"]
  /\ cooled' = FALSE /\ inflight' = FALSE

Pass(c, pc) ==
  check' = [check EXCEPT ![c].pc = pc] /\ UNCHANGED <<cooled, inflight>>

\* Mutant: a position seen open again does not end the run.
VerifyIgnored(c, from, to) ==
  /\ check[c].pc = from
  /\ Pass(c, to)
  /\ UNCHANGED <<faults, excused>>
  /\ UNCHANGED <<rows, exchange, tpEvents, opens, opening, watch, closer>>

\* One look at the position; what is seen wrongly the last time is excused.
Verify(c, from, to) ==
  /\ check[c].pc = from
  /\ \/ Position > 0 /\ Abort(c) /\ UNCHANGED <<faults, excused>>
     \/ /\ SeenGone /\ Pass(c, to)
        /\ excused' = excused \cup {o \in Orders : to \in Looked /\ own[o] > 0}
  /\ UNCHANGED <<rows, exchange, tpEvents, opens, opening, watch, closer>>

Verify1(c) == Verify(c, "verify1", "verify2")
Verify2(c) == Verify(c, "verify2", "guard")

\* Protection orders among the open orders say the position is not closed.
Guard(c) ==
  /\ check[c].pc = "guard"
  /\ \/ /\ IF tps # {} THEN Abort(c) ELSE Pass(c, "read")
        /\ UNCHANGED faults
     \/ Fail /\ Pass(c, "read")
  /\ UNCHANGED <<rows, exchange, tpEvents, opens, opening, watch, closer, excused>>

ReadActive(c) ==
  /\ check[c].pc = "read"
  /\ check' = [check EXCEPT ![c] = [pc |-> "cancel", found |-> Active]]
  /\ UNCHANGED <<rows, exchange, tpEvents, opens, opening, inflight, cooled,
                 watch, closer, faults, excused>>

\* pipeline.cancelProtections of the side, if it has tracked orders.
CancelFound(c) ==
  /\ check[c].pc = "cancel"
  /\ check' = [check EXCEPT ![c].pc = "save"]
  /\ IF check[c].found = {} THEN UNCHANGED <<sl, tps>> ELSE sl' = 0 /\ tps' = {}
  /\ UNCHANGED <<rows, own, tpEvents, opens, opening, inflight, cooled, watch,
                 closer, faults, excused>>

\* The rows are saved one by one, from the copies read before.
SaveClosed(c) ==
  /\ check[c].pc = "save"
  /\ \E o \in check[c].found :
       /\ row' = [row EXCEPT ![o] = "CLOSED"]
       /\ left' = [left EXCEPT ![o] = Lesser(@, 0)]
       /\ check' = [check EXCEPT ![c].found = @ \ {o}]
  /\ UNCHANGED <<stage, exchange, tpEvents, opens, opening, inflight, cooled,
                 watch, closer, faults, excused>>

EndCheck(c) ==
  /\ check[c].pc = "save" /\ check[c].found = {}
  /\ check' = [check EXCEPT ![c].pc = "idle"]
  /\ cooled' = TRUE /\ inflight' = FALSE
  /\ UNCHANGED <<rows, exchange, tpEvents, opens, opening, watch, closer,
                 faults, excused>>

-----------------------------------------------------------------------------
(* ClosePositionService.handleClose *)

\* CloseScopeResolver: the order asked for; when it is no longer active every
\* active order of the instance (its last resort, and all of them share it).
Scope(o) == IF o \in Active THEN {o} ELSE Active

\* The StrategyPosition rows of the scope are created where they are missing.
\* Without an active order the position of a recently closed one is sold
\* whole.
BeginClose(k, o) ==
  /\ closer[k].pc = "idle" /\ row[o] # "NONE"
  /\ LET scope == Scope(o)
         rest  == [p \in Orders |-> IF p \in scope /\ left[p] = -1
                                   THEN 1 ELSE left[p]]
     IN  /\ left' = rest
         /\ \/ /\ scope # {}
               /\ closer' = [closer EXCEPT ![k] =
                    [pc |-> "cancel", scope |-> scope, amount |-> 0,
                     tracked |-> {p \in scope : rest[p] > 0}]]
            \/ /\ scope = {} /\ Position > 0
               /\ \E p \in Orders : row[p] = "CLOSED"
               /\ closer' = [closer EXCEPT ![k].pc = "send",
                                           ![k].amount = Position]

\* A close signal, one of the position page, or the soft stop loss, whose
\* record is triggered once but ended by nothing else: it may ask for an
\* order closed long ago.
RequestClose(k, o) ==
  /\ BeginClose(k, o)
  /\ UNCHANGED <<stage, row, exchange, tpEvents, router, watch, faults, excused>>

\* Scoped cancellation: it matches every reduce-only take profit of the side.
CloseCancel(k) ==
  /\ closer[k].pc = "cancel"
  /\ closer' = [closer EXCEPT ![k].pc = "size"]
  /\ tps' = {}
  /\ UNCHANGED <<rows, own, sl, tpEvents, router, watch, faults, excused>>

CloseSize(k) ==
  /\ closer[k].pc = "size"
  /\ closer' = [closer EXCEPT ![k] =
       IF Position = 0 THEN Idle
       ELSE [@ EXCEPT !.pc = "strip",
                      !.amount = Lesser(Cardinality(closer[k].scope), Position)]]
  /\ UNCHANGED <<rows, exchange, tpEvents, router, watch, faults, excused>>

\* ProtectionManager.cancelProtections for each order of the scope: the one
\* stop loss of the position is cancelled with them.
CloseStrip(k) ==
  /\ closer[k].pc = "strip"
  /\ closer' = [closer EXCEPT ![k].pc = "send"]
  /\ \/ sl' = 0 /\ tps' = tps \ closer[k].scope /\ UNCHANGED faults
     \/ Fail /\ UNCHANGED <<sl, tps>>
  /\ UNCHANGED <<rows, own, tpEvents, router, watch, excused>>

\* closePosition looks at the position again and sends a reduce-only order.
Sell(k) ==
  Position > 0 /\ \E f \in Sold(closer[k].scope, closer[k].amount) : own' = f

CloseSend(k) ==
  /\ closer[k].pc = "send"
  /\ \/ /\ Sell(k)
        /\ closer' = [closer EXCEPT ![k] =
             IF @.scope = {} THEN Idle ELSE [@ EXCEPT !.pc = "sweep"]]
        /\ UNCHANGED faults
     \/ SeenGone /\ closer' = [closer EXCEPT ![k] = Idle] /\ UNCHANGED own
  /\ UNCHANGED <<rows, sl, tps, tpEvents, router, watch, excused>>

CloseSweep(k) ==
  /\ closer[k].pc = "sweep"
  /\ closer' = [closer EXCEPT ![k].pc = "record"]
  /\ IF Position = 0 THEN sl' = 0 /\ tps' = {} ELSE UNCHANGED <<sl, tps>>
  /\ UNCHANGED <<rows, own, tpEvents, router, watch, faults, excused>>

\* Mutant: the amount is spread over every active order of the symbol.
CloseRecordWide(k) ==
  /\ closer[k].pc = "record"
  /\ closer' = [closer EXCEPT ![k] = Idle]
  /\ \E paid \in SUBSET Active :
       /\ Cardinality(paid) = Lesser(closer[k].amount, Cardinality(Active))
       /\ row' = [o \in Orders |-> IF o \in paid THEN "CLOSED" ELSE row[o]]
       /\ left' = [o \in Orders |-> IF o \in paid THEN 0 ELSE left[o]]
  /\ UNCHANGED <<stage, exchange, tpEvents, router, watch, faults, excused>>

\* One transaction spreads the amount over the tracked orders of the scope.
CloseRecord(k) ==
  /\ closer[k].pc = "record"
  /\ closer' = [closer EXCEPT ![k] = Idle]
  /\ \E paid \in SUBSET closer[k].tracked :
       /\ Cardinality(paid) =
            Lesser(closer[k].amount, Cardinality(closer[k].tracked))
       /\ row' = [o \in Orders |-> IF o \in paid THEN "CLOSED" ELSE row[o]]
       /\ left' = [o \in Orders |-> IF o \in paid THEN 0 ELSE left[o]]
  /\ UNCHANGED <<stage, exchange, tpEvents, router, watch, faults, excused>>

-----------------------------------------------------------------------------
(* UpdateOrderService and PendingEntryService *)

\* A breakeven stop that was refused: the position is closed instead.
BreakevenClose(o) == \E k \in Closers : BeginClose(k, o)

\* A new stop price: the new stop has the amount of the order it is for.
UpdateSl(o) ==
  /\ o \in Active /\ Position > 0
  /\ \/ StopMoved(1) /\ UNCHANGED <<left, closer>>
     \/ StopRefused /\ (UNCHANGED <<left, closer>> \/ BreakevenClose(o))
  /\ UNCHANGED <<stage, row, own, tps, tpEvents, router, watch, excused>>

\* A close or breakeven before the fill: the entry is cancelled, and only an
\* accepted cancel touches the row.
CancelPending(o) ==
  /\ Position = 0 /\ Active = {} /\ row[o] = "PENDING" /\ stage[o] = "resting"
  /\ stage' = [stage EXCEPT ![o] = "done"]
  /\ row' = [row EXCEPT ![o] = "CLOSED"]
  /\ left' = [left EXCEPT ![o] = Lesser(@, 0)]
  /\ UNCHANGED <<exchange, tpEvents, router, watch, closer, faults, excused>>

\* A cancel signal: the row is ended whether or not the exchange cancelled.
HandleCancel(o) ==
  /\ row[o] = "PENDING" /\ row' = [row EXCEPT ![o] = "CLOSED"]
  /\ \/ /\ stage[o] = "resting"
        /\ stage' = [stage EXCEPT ![o] = "done"]
        /\ UNCHANGED <<faults, excused>>
     \/ /\ IF stage[o] = "resting" THEN Fail ELSE UNCHANGED faults
        /\ excused' = excused \cup {o}
        /\ UNCHANGED stage
  /\ UNCHANGED <<left, exchange, tpEvents, router, watch, closer>>

-----------------------------------------------------------------------------
(* NoStopLossMonitor *)

Watched(o) == row[o] \in {"PENDING", "OPEN", "PROTECTED"}

\* An order found closed is no longer watched.
ScanGone(o) ==
  /\ row[o] = "CLOSED" /\ watch[o] # Fresh
  /\ watch' = [watch EXCEPT ![o] = Fresh]
  /\ UNCHANGED <<rows, exchange, tpEvents, router, closer, faults, excused>>

\* No other order of the symbol is left to need the protections.
Orphan(o) == \A p \in Orders \ {o} : ~Watched(p)

\* No position: noted, and when it is still so after CONFIRM_MS the row is
\* closed, and orphaned protections are cancelled.
ScanAbsent(o) ==
  /\ Watched(o) /\ SeenGone
  /\ excused' = IF Position > 0 THEN excused \cup {o} ELSE excused
  /\ IF row[o] = "PENDING" \/ watch[o].absent < Confirmed
     THEN /\ watch' = [watch EXCEPT ![o].absent =
                         IF row[o] = "PENDING" THEN 0 ELSE @ + 1]
          /\ UNCHANGED <<row, sl, tps>>
     ELSE /\ watch' = [watch EXCEPT ![o] = Fresh]
          /\ row' = [row EXCEPT ![o] = "CLOSED"]
          /\ IF Orphan(o) THEN sl' = 0 /\ tps' = tps \ {o}
             ELSE UNCHANGED <<sl, tps>>
  /\ UNCHANGED <<stage, left, own, tpEvents, router, closer>>

\* A position with a stop loss: all counting starts over.
ScanCovered(o) ==
  /\ Watched(o) /\ Position > 0 /\ sl > 0
  /\ watch' = [watch EXCEPT ![o] = Fresh]
  /\ UNCHANGED <<rows, exchange, tpEvents, router, closer, faults, excused>>

\* Mutant: every scan starts the grace period over.
ScanMissingForever(o) ==
  /\ Watched(o) /\ Position > 0 /\ sl = 0
  /\ watch[o].missing < Confirmations
  /\ watch' = [watch EXCEPT ![o] = Fresh]
  /\ UNCHANGED <<rows, exchange, tpEvents, router, closer, faults, excused>>

\* Without one: the grace period, then the confirmations.
ScanMissing(o) ==
  /\ Watched(o) /\ Position > 0 /\ sl = 0
  /\ watch[o].missing < Confirmations
  /\ watch' = [watch EXCEPT ![o] = [absent |-> 0, missing |-> @.missing + 1]]
  /\ UNCHANGED <<rows, exchange, tpEvents, router, closer, faults, excused>>

Unprotected(o) ==
  Watched(o) /\ Position > 0 /\ sl = 0 /\ watch[o].missing = Confirmations

\* A plan that is still pending is placed again, by the pipeline.
ScanReplace(o) ==
  /\ Unprotected(o) /\ stage[o] = "saved"
  /\ stage' = [stage EXCEPT ![o] = "done"]
  /\ sl' = Position /\ tps' = tps \cup {o}
  /\ watch' = [watch EXCEPT ![o] = Fresh]
  /\ UNCHANGED <<row, left, own, tpEvents, router, closer, faults, excused>>

\* Otherwise the order is closed.  The entry is deleted when handleClose is
\* done; a scan before that may start another close.
ScanClose(o, k) ==
  /\ Unprotected(o)
  /\ stage[o] # "saved" \/ faults < MaxFaults
  /\ BeginClose(k, o)
  /\ faults' = IF stage[o] = "saved" THEN faults + 1 ELSE faults
  /\ watch' \in {watch, [watch EXCEPT ![o] = Fresh]}
  /\ UNCHANGED <<stage, row, exchange, tpEvents, router, excused>>

Scan(o) ==
  \/ ScanGone(o) \/ ScanAbsent(o) \/ ScanCovered(o) \/ ScanMissing(o)
  \/ ScanReplace(o) \/ \E k \in Closers : ScanClose(o, k)

-----------------------------------------------------------------------------

Close(k) ==
  CloseCancel(k) \/ CloseSize(k) \/ CloseStrip(k) \/ CloseSend(k)
    \/ CloseSweep(k) \/ CloseRecord(k)

RunCheck(c) ==
  Deferred(c) \/ Verify1(c) \/ Verify2(c) \/ Guard(c) \/ ReadActive(c)
    \/ CancelFound(c) \/ SaveClosed(c) \/ EndCheck(c)

\* The handlers of an order, each run a bounded number of times.
Handle(o) == SaveFilled(o) \/ Protect(o) \/ EndOpen(o) \/ WsTpFill(o)

Program ==
  \/ \E o \in Orders : Handle(o) \/ Scan(o)
  \/ \E c \in Checks : RunCheck(c)
  \/ \E k \in Closers : Close(k)

Environment ==
  \/ \E o \in Orders : BeginOpen(o) \/ Fill(o) \/ TpFill(o) \/ UpdateSl(o)
                         \/ CancelPending(o) \/ HandleCancel(o)
  \/ \E o \in Orders, k \in Closers : RequestClose(k, o)
  \/ \E c \in Checks : ZeroEvent(c)
  \/ OpenEvent \/ CooldownEnds \/ SlFire \/ ManualClose \/ Tidy

Next == Program \/ Environment

Spec == Init /\ [][Next]_vars

\* The program's own steps are timers and promises that do resolve, and the
\* scan runs every five seconds; fills, events, signals and the exchange's
\* own tidying owe nothing.
FairSpec ==
  /\ Spec
  /\ \A o \in Orders : WF_vars(Handle(o)) /\ WF_vars(Scan(o))
  /\ \A c \in Checks : WF_vars(RunCheck(c))
  /\ \A k \in Closers : WF_vars(Close(k))

-----------------------------------------------------------------------------
(* Properties *)

TypeOK ==
  /\ stage \in [Orders -> {"new", "resting", "filled", "saved", "done"}]
  /\ row \in [Orders -> {"NONE", "PENDING", "OPEN", "PROTECTED", "CLOSED"}]
  /\ left \in [Orders -> -1..1] /\ own \in [Orders -> 0..1]
  /\ sl \in 0..Cardinality(Orders)
  /\ tps \subseteq Orders /\ tpEvents \subseteq Orders /\ opens \subseteq Orders
  /\ opening \in BOOLEAN /\ inflight \in BOOLEAN /\ cooled \in BOOLEAN
  /\ check \in [Checks -> [found : SUBSET Orders,
       pc : {"idle", "deferred", "verify1", "verify2"} \cup Looked]]
  /\ watch \in [Orders -> [absent : 0..Confirmed, missing : 0..Confirmations]]
  /\ closer \in [Closers -> [scope : SUBSET Orders, tracked : SUBSET Orders,
       amount : 0..Cardinality(Orders),
       pc : {"idle", "cancel", "size", "strip", "send", "sweep", "record"}]]
  /\ faults \in 0..MaxFaults /\ excused \subseteq Orders

\* Nobody ends the row of an order whose contract is still in the position,
\* however events, duplicated checks, opens that lift each other's mark,
\* scans and closes interleave, but for three known ways: it was filled
\* after a check had verified for the second time, a query failed and was
\* read as an empty answer, or a cancel signal met an order already filled.
ClosedLiveExcused ==
  \A o \in Orders : own[o] = 1 /\ row[o] = "CLOSED" => o \in excused

\* A position that is gone for good does not stay in the books: every row
\* gets closed, by an event or, when the event was lost, by the monitor.
NoPhantom == []<>(Position > 0 \/ Active = {})

\* An order of an open position without a stop loss does not stay so: the
\* position gets a stop, the order's part is sold or its row is ended.  A
\* close of one order strips the stop of all, so this is the monitor's doing.
NakedResolved ==
  []<>(sl > 0 \/ \A o \in Orders : o \in Active => own[o] = 0)

\* With its scans alone the monitor ends both.
MonitorResolves == NoPhantom /\ NakedResolved

=============================================================================
