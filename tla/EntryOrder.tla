------------------------------ MODULE EntryOrder ------------------------------
(***************************************************************************)
(* The life of an entry order on the Gate perpetual exchange, from the     *)
(* Order row that OpenPositionService.handleOpen creates to the moment its *)
(* take-profit ladder has been placed or refused.                          *)
(*                                                                         *)
(* Four actors work on the same rows and share no lock:                    *)
(*   rest   the promise chain of handleOpen / handlePostFill               *)
(*   ws     GateIOOrderPersistenceHandler, run for a "finished" push       *)
(*   boot   StartupRecoveryService.recoverMonitors after a restart         *)
(*   sync   StartupRecoveryService.reconcilePendingOrders on a reconnect   *)
(* What keeps them apart is the conditional UPDATE that claims the         *)
(* PendingProtection row.  One step below is what the event loop runs      *)
(* between two awaits; the database and the exchange answer at any later   *)
(* time, in any order.                                                     *)
(***************************************************************************)
EXTENDS Naturals

CONSTANTS
  Orders,      \* the entry orders handleOpen is called for
  Modes,       \* how the take-profits are carried, see ModeKinds
  Sides,       \* "buy", "sell"
  Acks,        \* order statuses a createOrder response may carry
  Faults,      \* the failures the environment may produce, see FaultKinds
  MaxCrashes,  \* bound on process crashes
  MaxDrops     \* bound on websocket disconnects

\* FULL  : stop and single take-profit are attached to the entry order
\* MULTI : stop attached, several take-profits placed after the fill
\* NOSL  : no stop loss, take-profits placed after the fill
ModeKinds == {"FULL", "MULTI", "NOSL"}

\* createPlan, migratePlan, destroyPlan : that PendingProtection query throws
\* lostReply : createOrder reaches the exchange but the HTTP call throws
\* getOrder  : the REST status query throws
\* fillTimeout : a market order is still open when its fill wait expires
FaultKinds == {"createPlan", "migratePlan", "destroyPlan", "lostReply",
               "getOrder", "fillTimeout"}

ASSUME ModesAssumption  == Modes \subseteq ModeKinds
ASSUME SidesAssumption  == Sides \subseteq {"buy", "sell"}
ASSUME AcksAssumption   == Acks \subseteq {"open", "filled", "cancelled"}
ASSUME FaultsAssumption == Faults \subseteq FaultKinds
ASSUME BoundsAssumption == MaxCrashes \in Nat /\ MaxDrops \in Nat

VARIABLES
  mode,      \* chosen when the order is planned, constant afterwards
  side,
  db,        \* the Order row: lifecycleStatus, status, exchangeOrderId saved?
  ppClient,  \* PendingProtection row keyed by the client order text
  ppReal,    \* PendingProtection row keyed by the exchange order id
  ex,        \* the entry order on the exchange
  ack,       \* the order status carried by the createOrder response
  chan,      \* pushes on the private websocket, not yet delivered
  listen,    \* owner of the fillListeners entry of the order
  pc,        \* what each actor does next for the order
  mem,       \* what each actor keeps in memory about the order
  runs,      \* how many times a take-profit ladder was sent (history)
  ladder,    \* a ladder was placed without an error (history)
  up, wired, conn, resync, crashes, drops

rowVars  == <<db, ppClient, ppReal>>
exVars   == <<ex, ack, chan>>
actVars  == <<listen, pc, mem>>
histVars == <<runs, ladder>>
sysVars  == <<up, wired, conn, resync, crashes, drops>>
vars == <<mode, side, rowVars, exVars, actVars, histVars, sysVars>>

-----------------------------------------------------------------------------
Actors == {"rest", "ws", "boot", "sync"}

Lifecycle == {"NONE", "INIT", "PENDING", "OPEN", "PROTECTED", "CLOSED",
              "FAILED", "RISK_UNPROTECTED"}
\* The WHERE clause of every conditional upgrade of lifecycleStatus.
Upgradable == {"INIT", "PENDING", "OPEN"}
RowStatus  == {"new", "open", "finished", "filled", "cancelled", "failed"}
PlanStatus == {"none", "PENDING", "CLAIMED"}
\* "filled" : terminal with a fill, "cancelled" : terminal without any.
ExStatus   == {"none", "open", "partial", "filled", "cancelled"}
Push       == {"partial", "finished"}

Labels == {"idle", "init", "planned", "acked", "migrating", "migrated",
           "rejected", "failing", "register", "precheck", "wait", "expired", "guard",
           "reject", "apply", "done", "dead", "off", "find", "save",
           "lookup", "adopt", "adopted", "cas", "findCancelled",
           "saveClosed", "scan", "claim", "placing", "placed", "orch"}

Memory == [prev : Lifecycle, claimed : {"yes", "no", "unset"},
           tp : {"placed", "missing"}]

ModeTypes == mode \in [Orders -> Modes] /\ side \in [Orders -> Sides]
RowTypes ==
  /\ db \in [Orders -> [life : Lifecycle, st : RowStatus, xid : BOOLEAN]]
  /\ ppClient \in [Orders -> PlanStatus]
  /\ ppReal \in [Orders -> PlanStatus]
ExTypes ==
  /\ ex \in [Orders -> ExStatus]
  /\ ack \in [Orders -> ExStatus]
  /\ chan \in [Orders -> SUBSET Push]
ActTypes ==
  /\ listen \in [Orders -> {"none", "rest", "boot"}]
  /\ pc \in [Orders -> [Actors -> Labels]]
  /\ mem \in [Orders -> [Actors -> Memory]]
HistTypes == runs \in [Orders -> Nat] /\ ladder \in [Orders -> BOOLEAN]
SysTypes ==
  /\ up \in BOOLEAN /\ wired \in BOOLEAN /\ conn \in BOOLEAN /\ resync \in BOOLEAN
  /\ crashes \in 0..MaxCrashes /\ drops \in 0..MaxDrops

TypeOK ==
  ModeTypes /\ RowTypes /\ ExTypes /\ ActTypes /\ HistTypes /\ SysTypes

Fresh == [prev |-> "NONE", claimed |-> "unset", tp |-> "missing"]

Init ==
  /\ mode \in [Orders -> Modes]
  /\ side \in [Orders -> Sides]
  /\ db = [o \in Orders |-> [life |-> "NONE", st |-> "new", xid |-> FALSE]]
  /\ ppClient = [o \in Orders |-> "none"]
  /\ ppReal = [o \in Orders |-> "none"]
  /\ ex = [o \in Orders |-> "none"]
  /\ ack = [o \in Orders |-> "none"]
  /\ chan = [o \in Orders |-> {}]
  /\ listen = [o \in Orders |-> "none"]
  /\ pc = [o \in Orders |-> [a \in Actors |-> IF a = "rest" THEN "idle" ELSE "off"]]
  /\ mem = [o \in Orders |-> [a \in Actors |-> Fresh]]
  /\ runs = [o \in Orders |-> 0]
  /\ ladder = [o \in Orders |-> FALSE]
  /\ up = TRUE /\ wired = TRUE /\ conn = TRUE /\ resync = FALSE
  /\ crashes = 0 /\ drops = 0

-----------------------------------------------------------------------------
(* Helpers *)

Move(o, a, from, to) ==
  /\ pc[o][a] = from
  /\ pc' = [pc EXCEPT ![o][a] = to]

SetLife(o, life) == db' = [db EXCEPT ![o].life = life]

\* Orchestrated protection skips the pipeline when the entry carries both legs.
PostFill(o) == IF mode[o] = "FULL" THEN "orch" ELSE "claim"

\* PostFill with a FULL entry reports both legs placed without a claim.
Entering(o, life) ==
  [prev |-> life, claimed |-> "unset",
   tp |-> IF mode[o] = "FULL" THEN "placed" ELSE "missing"]

\* Where a resolved or rejected waitForOrderFill promise continues.
OnFilled(a)    == IF a = "rest" THEN "guard" ELSE "save"
OnCancelled(a) == IF a = "rest" THEN "reject" ELSE "off"

\* The pcs of o once the listener of o, if any, has been called.
Resolved(o, filled) ==
  IF listen[o] = "none" THEN pc[o]
  ELSE [pc[o] EXCEPT ![listen[o]] =
          IF filled THEN OnFilled(listen[o]) ELSE OnCancelled(listen[o])]

\* slPlaced as the pipeline and the orchestrator return it.
SlPlaced(o, a) == mode[o] # "NOSL" /\ mem[o][a].claimed # "no"
Outcome(o, a)  == IF SlPlaced(o, a) /\ mem[o][a].tp = "placed" THEN "PROTECTED" ELSE "OPEN"

PushIf(o, what) == chan' = [chan EXCEPT ![o] = IF conn THEN @ \cup {what} ELSE @]

-----------------------------------------------------------------------------
(* rest: handleOpen and GateIOExchange.placeOrder *)

\* Order.create with lifecycleStatus INIT.  The channel is subscribed before
\* TradeExecutor.initialize, so a signal may arrive while it still recovers.
CreateOrder(o) ==
  /\ up
  /\ Move(o, "rest", "idle", "init")
  /\ db' = [db EXCEPT ![o] = [life |-> "INIT", st |-> "new", xid |-> FALSE]]
  /\ UNCHANGED <<mode, side, ppClient, ppReal, exVars, listen, mem, histVars, sysVars>>

\* The row is written under the client text before the order is sent; a
\* failure is logged and the order is sent all the same.
PersistPlan(o) ==
  /\ Move(o, "rest", "init", "planned")
  /\ \/ /\ mode[o] # "FULL"
        /\ ppClient' = [ppClient EXCEPT ![o] = "PENDING"]
     \/ /\ mode[o] = "FULL" \/ "createPlan" \in Faults
        /\ UNCHANGED ppClient
  /\ UNCHANGED <<mode, side, db, ppReal, exVars, listen, mem, histVars, sysVars>>

\* createOrder accepted; the response carries the status of that moment.
\* With a lost reply the caller sees an exception instead.
SubmitOrder(o) ==
  /\ pc[o]["rest"] = "planned"
  /\ \E s \in Acks :
       /\ ex' = [ex EXCEPT ![o] = s]
       /\ ack' = [ack EXCEPT ![o] = s]
       /\ IF s = "open" THEN UNCHANGED chan ELSE PushIf(o, "finished")
  /\ \/ Move(o, "rest", "planned", IF mode[o] = "FULL" THEN "migrated" ELSE "acked")
     \/ "lostReply" \in Faults /\ Move(o, "rest", "planned", "rejected")
  /\ UNCHANGED <<mode, side, rowVars, listen, mem, histVars, sysVars>>

RejectOrder(o) ==
  /\ Move(o, "rest", "planned", "rejected")
  /\ UNCHANGED <<mode, side, rowVars, exVars, listen, mem, histVars, sysVars>>

\* cleanupPendingProtection, then the catch block of handleOpen.
CleanupPlan(o) ==
  /\ Move(o, "rest", "rejected", "failing")
  /\ \/ ppClient' = [ppClient EXCEPT ![o] = "none"]
     \/ "destroyPlan" \in Faults /\ UNCHANGED ppClient
  /\ UNCHANGED <<mode, side, db, ppReal, exVars, listen, mem, histVars, sysVars>>

SaveFailed(o) ==
  /\ Move(o, "rest", "failing", "done")
  /\ db' = [db EXCEPT ![o].life = "FAILED", ![o].st = "failed"]
  /\ UNCHANGED <<mode, side, ppClient, ppReal, exVars, listen, mem, histVars, sysVars>>

\* Mutant: the client row is taken for the migrated one.
MigrateNothing(o) ==
  /\ Move(o, "rest", "acked", "migrating")
  /\ UNCHANGED <<mode, side, rowVars, exVars, listen, mem, histVars, sysVars>>

\* Migration to the real id, in two writes; an exception skips the rest.
MigrateCreate(o) ==
  /\ \/ /\ Move(o, "rest", "acked", "migrating")
        /\ ppReal' = [ppReal EXCEPT ![o] = IF @ = "none" THEN "PENDING" ELSE @]
     \/ /\ "migratePlan" \in Faults
        /\ Move(o, "rest", "acked", "migrated")
        /\ UNCHANGED ppReal
  /\ UNCHANGED <<mode, side, db, ppClient, exVars, listen, mem, histVars, sysVars>>

\* Mutant: the client row is left behind.
MigrateKeep(o) ==
  /\ Move(o, "rest", "migrating", "migrated")
  /\ UNCHANGED <<mode, side, rowVars, exVars, listen, mem, histVars, sysVars>>

MigrateDestroy(o) ==
  /\ Move(o, "rest", "migrating", "migrated")
  /\ \/ ppClient' = [ppClient EXCEPT ![o] = "none"]
     \/ "destroyPlan" \in Faults /\ UNCHANGED ppClient
  /\ UNCHANGED <<mode, side, db, ppReal, exVars, listen, mem, histVars, sysVars>>

\* orderRecord.save() with the exchange id and status.  "finished" counts as
\* filled; placeOrder reports the requested size when nothing was filled, so
\* the zero-fill test that follows never stops a finished order.
SaveOrder(o) ==
  LET life == IF ack[o] = "open" THEN "PENDING" ELSE "OPEN" IN
  /\ pc[o]["rest"] = "migrated"
  /\ db' = [db EXCEPT ![o] = [life |-> life, xid |-> TRUE,
              st |-> IF ack[o] = "open" THEN "open" ELSE "finished"]]
  /\ mem' = [mem EXCEPT ![o]["rest"] = Entering(o, life)]
  /\ Move(o, "rest", "migrated",
          IF ack[o] = "open" THEN "register" ELSE PostFill(o))
  /\ UNCHANGED <<mode, side, ppClient, ppReal, exVars, listen, histVars, sysVars>>

\* handlePostFill after a wait: the conditional UPDATE that gives way to a
\* websocket handler that has already moved the row.  It writes status and
\* fill data, not lifecycleStatus, which changes in memory only.
PostFillGuard(o) ==
  /\ IF db[o].life \in {"INIT", "PENDING"}
     THEN /\ Move(o, "rest", "guard", PostFill(o))
          /\ db' = [db EXCEPT ![o].st = "finished"]
     ELSE /\ Move(o, "rest", "guard", "done")
          /\ UNCHANGED db
  /\ UNCHANGED <<mode, side, ppClient, ppReal, exVars, listen, mem, histVars, sysVars>>

\* Mutant: an UPDATE by id only.
PostFillRejectAny(o) ==
  /\ Move(o, "rest", "reject", "done")
  /\ SetLife(o, "RISK_UNPROTECTED")
  /\ UNCHANGED <<mode, side, ppClient, ppReal, exVars, listen, mem, histVars, sysVars>>

\* The wait ended with a cancelled order.
PostFillReject(o) ==
  /\ Move(o, "rest", "reject", "done")
  /\ SetLife(o, IF db[o].life = "PENDING" THEN "RISK_UNPROTECTED" ELSE db[o].life)
  /\ UNCHANGED <<mode, side, ppClient, ppReal, exVars, listen, mem, histVars, sysVars>>

\* Mutant: an UPDATE by id only.
ApplyLifecycleAny(o) ==
  /\ Move(o, "rest", "apply", "done")
  /\ SetLife(o, Outcome(o, "rest"))
  /\ UNCHANGED <<mode, side, ppClient, ppReal, exVars, listen, mem, histVars, sysVars>>

\* applyLifecycleStatus after the orchestrator.
ApplyLifecycle(o) ==
  LET new == IF mode[o] = "NOSL"
             THEN IF mem[o]["rest"].tp = "placed" THEN "PROTECTED" ELSE "OPEN"
             ELSE Outcome(o, "rest") IN
  /\ Move(o, "rest", "apply", "done")
  /\ SetLife(o, IF db[o].life \in Upgradable THEN new ELSE db[o].life)
  /\ UNCHANGED <<mode, side, ppClient, ppReal, exVars, listen, mem, histVars, sysVars>>

-----------------------------------------------------------------------------
(* waitForOrderFill, for the rest and boot actors *)

\* The listener is registered first, then one REST status query is made.
RegisterListener(o, a) ==
  /\ Move(o, a, "register", "precheck")
  /\ listen' = [listen EXCEPT ![o] = a]
  /\ UNCHANGED <<mode, side, rowVars, exVars, mem, histVars, sysVars>>

\* The query resolves the wait on a finished order with a fill.  The filled
\* amount is |size| - left with the sign of left kept, so a cancelled sell
\* order (left = size < 0) counts as filled.
PrecheckFilled(o) ==
  ex[o] = "filled" \/ (ex[o] = "cancelled" /\ side[o] = "sell")

Precheck(o, a) ==
  /\ \/ /\ PrecheckFilled(o)
        /\ Move(o, a, "precheck", OnFilled(a))
        /\ listen' = [listen EXCEPT ![o] = "none"]
     \/ /\ ~PrecheckFilled(o) \/ "getOrder" \in Faults
        /\ Move(o, a, "precheck", "wait")
        /\ UNCHANGED listen
  /\ UNCHANGED <<mode, side, rowVars, exVars, mem, histVars, sysVars>>

\* The timer of a market order: the wait is settled, then one more query.
ExpireWait(o, a) ==
  /\ "fillTimeout" \in Faults
  /\ Move(o, a, "wait", "expired")
  /\ listen' = [listen EXCEPT ![o] = "none"]
  /\ UNCHANGED <<mode, side, rowVars, exVars, mem, histVars, sysVars>>

FinalQuery(o, a) ==
  /\ \/ PrecheckFilled(o) /\ Move(o, a, "expired", OnFilled(a))
     \/ /\ ~PrecheckFilled(o) \/ "getOrder" \in Faults
        /\ Move(o, a, "expired", OnCancelled(a))
  /\ UNCHANGED <<mode, side, rowVars, exVars, listen, mem, histVars, sysVars>>

-----------------------------------------------------------------------------
(* ProtectionPipeline.placeProtections and PostFillOrchestrator.run *)

\* Where the pipeline returns to: the websocket handler calls it directly.
AfterPipeline(a, claimed) ==
  IF a # "ws" THEN "orch" ELSE IF claimed THEN "cas" ELSE "off"

\* Mutant: WHERE orderId = :orderId, without the status.
ClaimAnyStatus(o, a) ==
  /\ Move(o, a, "claim", "placing")
  /\ ppReal' = [ppReal EXCEPT ![o] = "CLAIMED"]
  /\ mem' = [mem EXCEPT ![o][a].claimed = "yes"]
  /\ UNCHANGED <<mode, side, db, ppClient, exVars, listen, histVars, sysVars>>

Claim(o, a) ==
  /\ \/ /\ ppReal[o] = "PENDING"
        /\ ppReal' = [ppReal EXCEPT ![o] = "CLAIMED"]
        /\ Move(o, a, "claim", "placing")
        /\ mem' = [mem EXCEPT ![o][a].claimed = "yes"]
     \/ /\ ppReal[o] # "PENDING"
        /\ Move(o, a, "claim", AfterPipeline(a, FALSE))
        /\ mem' = [mem EXCEPT ![o][a].claimed = "no"]
        /\ UNCHANGED ppReal
  /\ UNCHANGED <<mode, side, db, ppClient, exVars, listen, histVars, sysVars>>

\* Mutant: a failed tier is logged and forgotten.
PlaceTpsAnyway(o, a) ==
  /\ Move(o, a, "placing", "placed")
  /\ runs' = [runs EXCEPT ![o] = @ + 1]
  /\ mem' = [mem EXCEPT ![o][a].tp = "placed"]
  /\ \E ok \in BOOLEAN : ladder' = [ladder EXCEPT ![o] = @ \/ ok]
  /\ UNCHANGED <<mode, side, rowVars, exVars, listen, sysVars>>

\* All tiers sent; tpPlaced only if no tier failed and none was skipped.
PlaceTps(o, a) ==
  /\ Move(o, a, "placing", "placed")
  /\ runs' = [runs EXCEPT ![o] = @ + 1]
  /\ \E tp \in {"placed", "missing"} :
       /\ mem' = [mem EXCEPT ![o][a].tp = tp]
       /\ ladder' = [ladder EXCEPT ![o] = @ \/ tp = "placed"]
  /\ UNCHANGED <<mode, side, rowVars, exVars, listen, sysVars>>

\* Mutant: set COMPLETED and not destroyed.
MarkKept(o, a) ==
  /\ Move(o, a, "placed", AfterPipeline(a, TRUE))
  /\ ppReal' = [ppReal EXCEPT ![o] = "COMPLETED"]
  /\ UNCHANGED <<mode, side, db, ppClient, exVars, listen, mem, histVars, sysVars>>

\* _markCompleted: the row is set COMPLETED and destroyed.
MarkCompleted(o, a) ==
  /\ Move(o, a, "placed", AfterPipeline(a, TRUE))
  /\ ppReal' = [ppReal EXCEPT ![o] = "none"]
  /\ UNCHANGED <<mode, side, db, ppClient, exVars, listen, mem, histVars, sysVars>>

\* The orchestrator reloads after a lost claim; otherwise it saves, and
\* save() writes lifecycleStatus only when it differs from the value last
\* read or written by this object, without looking at the row.
OrchSave(o, a) ==
  LET to == Outcome(o, a)
      dirty == mem[o][a].claimed # "no" /\ to # mem[o][a].prev IN
  /\ Move(o, a, "orch", IF a = "rest" THEN "apply" ELSE "off")
  /\ IF dirty THEN SetLife(o, to) ELSE UNCHANGED db
  /\ UNCHANGED <<mode, side, ppClient, ppReal, exVars, listen, mem, histVars, sysVars>>

-----------------------------------------------------------------------------
(* ws: handleWsOrderUpdate and GateIOOrderPersistenceHandler *)

Take(o, what) == chan' = [chan EXCEPT ![o] = @ \ {what}]

\* A partial fill resolves the listener and is not persisted.
DeliverPartial(o) ==
  /\ "partial" \in chan[o]
  /\ Take(o, "partial")
  /\ pc' = [pc EXCEPT ![o] = Resolved(o, TRUE)]
  /\ listen' = [listen EXCEPT ![o] = "none"]
  /\ UNCHANGED <<mode, side, rowVars, ex, ack, mem, histVars, sysVars>>

\* A finished order resolves the listener and starts the handler, which runs
\* on its own.
DeliverFinished(o) ==
  LET filled == ex[o] = "filled" IN
  /\ chan[o] = {"finished"}
  /\ Take(o, "finished")
  /\ pc' = [pc EXCEPT ![o] = [Resolved(o, filled) EXCEPT
               !["ws"] = IF filled THEN "find" ELSE "findCancelled"]]
  /\ listen' = [listen EXCEPT ![o] = "none"]
  /\ UNCHANGED <<mode, side, rowVars, ex, ack, mem, histVars, sysVars>>

\* findDbOrder looks for the exchange id: the text t-entry-<id> names no
\* order, so an update that overtakes SaveOrder is dropped.
WsFind(o) ==
  /\ Move(o, "ws", "find", IF db[o].xid THEN "save" ELSE "off")
  /\ mem' = [mem EXCEPT ![o]["ws"] = Entering(o, db[o].life)]
  /\ UNCHANGED <<mode, side, rowVars, exVars, listen, histVars, sysVars>>

\* dbOrder.save() by id, decided on the row as WsFind read it.
WsSaveOpen(o) ==
  /\ Move(o, "ws", "save", "lookup")
  /\ IF mem[o]["ws"].prev = "OPEN" THEN UNCHANGED db
     ELSE db' = [db EXCEPT ![o].life = "OPEN", ![o].st = "filled"]
  /\ UNCHANGED <<mode, side, ppClient, ppReal, exVars, listen, mem, histVars, sysVars>>

WsProceed == IF wired THEN "claim" ELSE "off"

WsLookup(o) ==
  /\ Move(o, "ws", "lookup", IF ppReal[o] # "none" THEN WsProceed
                             ELSE IF ppClient[o] # "none" THEN "adopt" ELSE "off")
  /\ UNCHANGED <<mode, side, rowVars, exVars, listen, mem, histVars, sysVars>>

\* migratePendingProtection; when it throws, the client row is kept and the
\* claim is tried all the same.
WsAdopt(o) ==
  /\ \/ /\ Move(o, "ws", "adopt", "adopted")
        /\ ppReal' = [ppReal EXCEPT ![o] = IF @ = "none" THEN ppClient[o] ELSE @]
     \/ /\ "migratePlan" \in Faults
        /\ Move(o, "ws", "adopt", WsProceed)
        /\ UNCHANGED ppReal
  /\ UNCHANGED <<mode, side, db, ppClient, exVars, listen, mem, histVars, sysVars>>

WsDropClient(o) ==
  /\ Move(o, "ws", "adopted", WsProceed)
  /\ \/ ppClient' = [ppClient EXCEPT ![o] = "none"]
     \/ "destroyPlan" \in Faults /\ UNCHANGED ppClient
  /\ UNCHANGED <<mode, side, db, ppReal, exVars, listen, mem, histVars, sysVars>>

\* The handler upgrades the row only from a state below PROTECTED, and only
\* if the result differs from what it holds in memory (OPEN).
WsCas(o) ==
  /\ Move(o, "ws", "cas", "off")
  /\ IF Outcome(o, "ws") = "PROTECTED" /\ db[o].life \in Upgradable
     THEN SetLife(o, "PROTECTED") ELSE UNCHANGED db
  /\ UNCHANGED <<mode, side, ppClient, ppReal, exVars, listen, mem, histVars, sysVars>>

WsFindCancelled(o) ==
  /\ Move(o, "ws", "findCancelled", IF db[o].xid THEN "saveClosed" ELSE "off")
  /\ UNCHANGED <<mode, side, rowVars, exVars, listen, mem, histVars, sysVars>>

WsSaveClosed(o) ==
  /\ Move(o, "ws", "saveClosed", "off")
  /\ db' = [db EXCEPT ![o].life = "CLOSED", ![o].st = "cancelled"]
  /\ UNCHANGED <<mode, side, ppClient, ppReal, exVars, listen, mem, histVars, sysVars>>

-----------------------------------------------------------------------------
(* boot and sync: StartupRecoveryService *)

\* The pcs and memories once actor a has fetched the rows in set.
Fetched(a, set) ==
  /\ pc' = [o \in Orders |-> IF o \in set THEN [pc[o] EXCEPT ![a] = "scan"] ELSE pc[o]]
  /\ mem' = [o \in Orders |-> IF o \in set
             THEN [mem[o] EXCEPT ![a] = Entering(o, db[o].life)] ELSE mem[o]]

\* recoverMonitors takes every row with status open.
Restart ==
  /\ ~up
  /\ up' = TRUE /\ conn' = TRUE
  /\ Fetched("boot", {o \in Orders : db[o].st = "open"})
  /\ UNCHANGED <<mode, side, rowVars, exVars, listen, histVars, wired, resync, crashes, drops>>

\* TradeExecutor.initialize wires the pipelines once recoverMonitors returns.
\* The model lets it happen as soon as every row has been queried.
Wire ==
  /\ up /\ ~wired
  /\ \A o \in Orders : pc[o]["boot"] # "scan"
  /\ wired' = TRUE
  /\ UNCHANGED <<mode, side, rowVars, exVars, actVars, histVars, up, conn, resync, crashes, drops>>

\* wsConnected starts reconcilePendingOrders; one pass at a time here.
ReconcileScan ==
  /\ resync
  /\ \A o \in Orders : pc[o]["sync"] = "off"
  /\ resync' = FALSE
  /\ Fetched("sync", {o \in Orders : db[o].st = "open" /\ db[o].life = "PENDING"})
  /\ UNCHANGED <<mode, side, rowVars, exVars, listen, histVars, up, wired, conn, crashes, drops>>

\* getOrder.  Gate reports a cancelled order as finished too, and both
\* callers take finished for filled.  An open order is watched again after
\* a restart and left alone on a reconnect.
Query(o, a) ==
  /\ \/ /\ ex[o] \in {"filled", "cancelled"}
        /\ Move(o, a, "scan", "save")
     \/ /\ ex[o] \in {"open", "partial"}
        /\ Move(o, a, "scan", IF a = "boot" THEN "register" ELSE "off")
     \/ /\ "getOrder" \in Faults
        /\ Move(o, a, "scan", "off")
  /\ UNCHANGED <<mode, side, rowVars, exVars, listen, mem, histVars, sysVars>>

\* A cancelled order that Gate no longer knows: 404.
QueryGone(o, a) ==
  /\ ex[o] = "cancelled"
  /\ Move(o, a, "scan", "off")
  /\ IF a = "boot" THEN db' = [db EXCEPT ![o].life = "CLOSED", ![o].st = "cancelled"]
     ELSE UNCHANGED db
  /\ UNCHANGED <<mode, side, ppClient, ppReal, exVars, listen, mem, histVars, sysVars>>

\* order.save() with OPEN and filled; lifecycleStatus is written when it
\* differs from the row as fetched.
RecSave(o, a) ==
  /\ Move(o, a, "save", PostFill(o))
  /\ db' = [db EXCEPT ![o].st = "filled",
              ![o].life = IF mem[o][a].prev = "OPEN" THEN @ ELSE "OPEN"]
  /\ mem' = [mem EXCEPT ![o][a] = Entering(o, "OPEN")]
  /\ UNCHANGED <<mode, side, ppClient, ppReal, exVars, listen, histVars, sysVars>>

-----------------------------------------------------------------------------
(* The process, the connection and the exchange *)

\* Everything in memory is lost; rows and orders stay.
Crash ==
  /\ up /\ crashes < MaxCrashes
  /\ crashes' = crashes + 1
  /\ up' = FALSE /\ wired' = FALSE /\ conn' = FALSE /\ resync' = FALSE
  /\ pc' = [o \in Orders |-> [a \in Actors |->
              IF a # "rest" THEN "off"
              ELSE IF pc[o][a] \in {"idle", "done"} THEN pc[o][a] ELSE "dead"]]
  /\ mem' = [o \in Orders |-> [a \in Actors |-> Fresh]]
  /\ listen' = [o \in Orders |-> "none"]
  /\ chan' = [o \in Orders |-> {}]
  /\ UNCHANGED <<mode, side, rowVars, ex, ack, histVars, drops>>

\* Pushes sent while the connection is down are never repeated.
Disconnect ==
  /\ conn /\ drops < MaxDrops
  /\ drops' = drops + 1
  /\ conn' = FALSE
  /\ chan' = [o \in Orders |-> {}]
  /\ UNCHANGED <<mode, side, rowVars, ex, ack, actVars, histVars, up, wired, resync, crashes>>

\* Mutant: the reconnect only subscribes again.
ReconnectOnly ==
  /\ up /\ ~conn
  /\ conn' = TRUE
  /\ UNCHANGED <<mode, side, rowVars, exVars, actVars, histVars, up, wired, resync, crashes, drops>>

Reconnect ==
  /\ up /\ ~conn
  /\ conn' = TRUE
  /\ resync' = wired
  /\ UNCHANGED <<mode, side, rowVars, exVars, actVars, histVars, up, wired, crashes, drops>>

Match(o) ==
  /\ \/ /\ ex[o] = "open"
        /\ ex' = [ex EXCEPT ![o] = "partial"]
        /\ PushIf(o, "partial")
     \/ /\ ex[o] \in {"open", "partial"}
        /\ ex' = [ex EXCEPT ![o] = "filled"]
        /\ PushIf(o, "finished")
  /\ UNCHANGED <<mode, side, rowVars, ack, actVars, histVars, sysVars>>

\* Cancelled without a fill; the rest of a partial fill being cancelled is
\* the second disjunct of Match.
CancelEntry(o) ==
  /\ ex[o] = "open"
  /\ ex' = [ex EXCEPT ![o] = "cancelled"]
  /\ PushIf(o, "finished")
  /\ UNCHANGED <<mode, side, rowVars, ack, actVars, histVars, sysVars>>

-----------------------------------------------------------------------------
Rest(o) ==
  \/ CreateOrder(o) \/ PersistPlan(o) \/ SubmitOrder(o) \/ RejectOrder(o)
  \/ CleanupPlan(o) \/ SaveFailed(o) \/ MigrateCreate(o) \/ MigrateDestroy(o)
  \/ SaveOrder(o) \/ PostFillGuard(o) \/ PostFillReject(o) \/ ApplyLifecycle(o)

Waiting(o, a) ==
  RegisterListener(o, a) \/ Precheck(o, a) \/ ExpireWait(o, a) \/ FinalQuery(o, a)

Protecting(o, a) == Claim(o, a) \/ PlaceTps(o, a) \/ MarkCompleted(o, a)

Handler(o) ==
  \/ WsFind(o) \/ WsSaveOpen(o) \/ WsLookup(o) \/ WsAdopt(o)
  \/ WsDropClient(o) \/ WsCas(o) \/ WsFindCancelled(o) \/ WsSaveClosed(o)

Delivery(o) == DeliverPartial(o) \/ DeliverFinished(o)

Recovering(o, a) == Query(o, a) \/ QueryGone(o, a) \/ RecSave(o, a)

\* The steps the event loop takes on its own for one order.
Code(o) ==
  \/ Rest(o) \/ Handler(o)
  \/ \E a \in {"rest", "boot"} : Waiting(o, a)
  \/ \E a \in Actors : Protecting(o, a)
  \/ \E a \in {"rest", "boot", "sync"} : OrchSave(o, a)
  \/ \E a \in {"boot", "sync"} : Recovering(o, a)

System == Restart \/ Wire \/ ReconcileScan \/ Crash \/ Disconnect \/ Reconnect

Next ==
  \/ \E o \in Orders : Code(o) \/ Delivery(o) \/ Match(o) \/ CancelEntry(o)
  \/ System

Spec == Init /\ [][Next]_vars

\* Node runs every promise that is due, deliveries included, and the client
\* reconnects; no order has to be matched and nothing has to fail.
Fairness ==
  /\ \A o \in Orders : WF_vars(Code(o)) /\ WF_vars(Delivery(o))
  /\ WF_vars(Restart) /\ WF_vars(Wire)
  /\ WF_vars(ReconcileScan) /\ WF_vars(Reconnect)

FairSpec == Spec /\ Fairness

-----------------------------------------------------------------------------
(* Properties *)

Holds(o, a) == pc[o][a] \in {"placing", "placed"}

\* The conditional UPDATE of claimProtection lets one handler through: two
\* never place take-profits of one order at a time, and while one does the
\* plan row says CLAIMED, so nobody else finds it PENDING.
ClaimExclusive ==
  \A o \in Orders : \A a, b \in Actors :
    Holds(o, a) => /\ ppReal[o] = "CLAIMED"
                   /\ Holds(o, b) => a = b

\* Across handlers, restarts and reconnects a take-profit ladder is sent to
\* the exchange at most once per entry order.
LadderOnce == \A o \in Orders : runs[o] <= 1

\* PROTECTED is written only when the take-profits are really on the
\* exchange, unless the entry order carries both legs itself.
ProtectedHasLadder ==
  \A o \in Orders : db[o].life = "PROTECTED" /\ mode[o] # "FULL" => ladder[o]

\* What the comment in handlePostFill promises of the REST path: it never
\* takes an order back from PROTECTED, whatever it last read.
RestNeverDowngrades ==
  [][\A o \in Orders :
       (db[o].life = "PROTECTED" /\ db'[o].life \in Upgradable)
          => pc'[o]["rest"] = pc[o]["rest"]]_vars

\* A resting buy order that is cancelled is CLOSED for good as long as process
\* and websocket stay up: neither the fill wait of the REST path nor its late
\* answer revives the row.  (A sell order and the reconcile on a reconnect take
\* a cancellation for a fill, see ProtectedMeansFilled.)
ClosedStaysClosed ==
  [][\A o \in Orders :
       (/\ side[o] = "buy" /\ ack[o] = "open" /\ drops = 0 /\ crashes = 0
        /\ db[o].life = "CLOSED")
          => db'[o].life = "CLOSED"]_vars

\* An order is PROTECTED only if some of it was filled.
ProtectedMeansFilled ==
  \A o \in Orders : db[o].life = "PROTECTED" => ex[o] \in {"partial", "filled"}

\* A filled entry whose exchange id is saved gets its ladder attempted, even
\* if the fill is pushed while the websocket is down: the wait, the handler
\* or the reconcile on reconnect takes care of it.
FillHandled ==
  \A o \in Orders :
    (db[o].xid /\ ex[o] = "filled" /\ mode[o] # "FULL") ~> (runs[o] >= 1)

\* The detailed handlers implement the plan of ProtectionPlan.
Phase(o) ==
  IF runs[o] > 0 THEN "settled"
  ELSE IF ppReal[o] = "CLAIMED" THEN "claimed"
  ELSE IF ppReal[o] = "PENDING" \/ ppClient[o] # "none" THEN "planned"
  ELSE "none"

Plan == INSTANCE ProtectionPlan WITH
          phase <- [o \in Orders |-> Phase(o)],
          live  <- [o \in Orders |-> ex[o] # "none"],
          sent  <- runs

\* No plan of an accepted order is lost and none is sent twice.
PlanSpec == Plan!Spec

-----------------------------------------------------------------------------
(* The inductive invariant behind LadderOnce, ClaimExclusive and PlanSpec,  *)
(* for runs without the fault destroyPlan                                   *)

\* The REST labels up to SaveOrder: nobody else knows the exchange id yet.
Unsaved == {"idle", "init", "planned", "rejected", "failing", "acked",
            "migrating", "migrated"}

\* Nothing exists before the plan is written and the order is sent.
Untouched(o) ==
  pc[o]["rest"] \in {"idle", "init", "planned"} =>
    /\ ex[o] = "none" /\ chan[o] = {}
    /\ ppReal[o] = "none"
    /\ pc[o]["rest"] # "planned" => ppClient[o] = "none"

\* Without the exchange id in the row no handler gets past its lookup.
Hidden(o) ==
  /\ pc[o]["rest"] \in Unsaved => ~db[o].xid
  /\ ~db[o].xid =>
       /\ pc[o]["rest"] \in Unsaved \cup {"done", "dead"}
       /\ pc[o]["ws"] \in {"off", "find", "findCancelled"}
       /\ pc[o]["boot"] = "off" /\ pc[o]["sync"] = "off"
       /\ db[o].st \in {"new", "failed"}
       /\ listen[o] = "none" /\ runs[o] = 0 /\ ppReal[o] # "CLAIMED"

\* A listener belongs to an actor that waits for it; nothing that is in
\* memory survives a crash.
ListenerWaits(o) ==
  /\ \A a \in Actors : listen[o] = a => pc[o][a] \in {"precheck", "wait"}
  /\ ~up => /\ ~conn /\ ~resync /\ chan[o] = {} /\ listen[o] = "none"
            /\ \A a \in Actors : pc[o][a] \in {"idle", "done", "dead", "off"}

\* The finished push is taken once, by the websocket handler.
PushedOnce(o) ==
  /\ "finished" \in chan[o] => ex[o] \in {"filled", "cancelled"}
  /\ pc[o]["ws"] # "off" => /\ ex[o] \in {"filled", "cancelled"}
                            /\ "finished" \notin chan[o]

\* The migration by the REST path ends with one row, under either key.
Migrated(o) ==
  /\ pc[o]["rest"] = "acked" => ppReal[o] = "none"
  /\ pc[o]["rest"] = "migrating" => ppReal[o] = "PENDING"
  /\ pc[o]["rest"] = "migrated" => (ppClient[o] = "none" \/ ppReal[o] = "none")

\* A client row that survives the migration is still the whole plan, or it
\* has been adopted and no push is left that could adopt it again.
Leftover(o) ==
  /\ ppClient[o] # "CLAIMED"
  /\ (db[o].xid /\ ppClient[o] # "none") =>
       \/ ppReal[o] = "none" /\ runs[o] = 0 /\ pc[o]["ws"] # "adopted"
       \/ /\ ppReal[o] # "none" \/ runs[o] > 0
          /\ ex[o] \in {"filled", "cancelled"} /\ "finished" \notin chan[o]
          /\ pc[o]["ws"] \notin {"find", "save", "lookup", "adopt"}

\* What the conditional UPDATE buys: a claim is exclusive and not repeated.
Claimed(o) ==
  /\ \A a, b \in Actors :
       Holds(o, a) => ppReal[o] = "CLAIMED" /\ (Holds(o, b) => a = b)
  /\ \A a \in Actors : pc[o][a] = "placing" => runs[o] = 0
  /\ \A a \in Actors : pc[o][a] = "placed" => runs[o] > 0
  /\ ppReal[o] = "PENDING" => runs[o] = 0
  /\ runs[o] <= 1

\* A row under the exchange id, like the id itself, means an accepted order;
\* a rejected call means none, unless its reply was lost.
Accepted(o) ==
  /\ ppReal[o] # "none" => ex[o] # "none"
  /\ db[o].xid => ex[o] # "none"
  /\ pc[o]["rest"] \in {"acked", "migrating", "migrated"} => ex[o] # "none"
  /\ pc[o]["rest"] = "rejected" => ex[o] = "none" \/ "lostReply" \in Faults

Planned(o) ==
  /\ Untouched(o) /\ Hidden(o) /\ ListenerWaits(o) /\ PushedOnce(o)
  /\ Migrated(o) /\ Leftover(o) /\ Claimed(o) /\ Accepted(o)

PlanInv == \A o \in Orders : Planned(o)

=============================================================================
