-------------------------- MODULE EntryOrder_proofs --------------------------
(***************************************************************************)
(* Theorems of EntryOrder, for any set of orders, any bounds and, unless a *)
(* theorem says otherwise, any faults.                                     *)
(***************************************************************************)
EXTENDS EntryOrder, TLAPS

PcType == [Orders -> [Actors -> Labels]]

-----------------------------------------------------------------------------
(* Types *)

LEMMA MoveType ==
  ASSUME ActTypes, NEW o \in Orders, NEW a \in Actors, NEW from, NEW to,
         Move(o, a, from, to), to \in Labels
  PROVE  pc' \in PcType
BY DEF ActTypes, Move, PcType

LEMMA MemType ==
  ASSUME ActTypes, NEW o \in Orders, NEW a \in Actors, NEW m \in Memory
  PROVE  [mem EXCEPT ![o][a] = m] \in [Orders -> [Actors -> Memory]]
BY DEF ActTypes

LEMMA EnteringType ==
  ASSUME NEW o \in Orders, NEW life \in Lifecycle
  PROVE  Entering(o, life) \in Memory
BY DEF Entering, Memory

LEMMA FreshType == Fresh \in Memory
BY DEF Fresh, Memory, Lifecycle

LEMMA TypeInit == Init => TypeOK
<1> SUFFICES ASSUME Init PROVE TypeOK
  OBVIOUS
<1> USE DEF Init
<1>1. ModeTypes /\ RowTypes
  BY DEF ModeTypes, RowTypes, Lifecycle, RowStatus, PlanStatus
<1>2. ExTypes
  BY DEF ExTypes, ExStatus
<1>3. ActTypes
  BY FreshType DEF ActTypes, Actors, Labels
<1>4. HistTypes
  BY DEF HistTypes
<1>5. crashes \in 0..MaxCrashes /\ drops \in 0..MaxDrops
  BY BoundsAssumption
<1>6. SysTypes
  BY <1>5 DEF SysTypes
<1> QED
  BY <1>1, <1>2, <1>3, <1>4, <1>6 DEF TypeOK

\* The REST path keeps the types.
LEMMA RestTypes ==
  ASSUME TypeOK, NEW o \in Orders, Rest(o)
  PROVE  TypeOK'
<1> "rest" \in Actors
  BY DEF Actors
<1> USE DEF TypeOK, rowVars, exVars, actVars, histVars, sysVars
<1>1. CASE CreateOrder(o)
  <2>1. RowTypes'
    BY <1>1 DEF CreateOrder, RowTypes, Lifecycle, RowStatus
  <2>2. pc' \in PcType
    BY <1>1, MoveType DEF CreateOrder, Labels
  <2> QED
    BY <1>1, <2>1, <2>2 DEF CreateOrder, ModeTypes, ExTypes, ActTypes, HistTypes, SysTypes, PcType
<1>2. CASE PersistPlan(o)
  <2>1. RowTypes'
    BY <1>2 DEF PersistPlan, RowTypes, PlanStatus
  <2>2. pc' \in PcType
    BY <1>2, MoveType DEF PersistPlan, Labels
  <2> QED
    BY <1>2, <2>1, <2>2 DEF PersistPlan, ModeTypes, ExTypes, ActTypes, HistTypes, SysTypes, PcType
<1>3. CASE SubmitOrder(o)
  <2>1. ExTypes'
    BY <1>3, AcksAssumption DEF SubmitOrder, ExTypes, ExStatus, PushIf, Push
  <2>2. pc' \in PcType
    BY <1>3, MoveType DEF SubmitOrder, Labels
  <2> QED
    BY <1>3, <2>1, <2>2 DEF SubmitOrder, ModeTypes, RowTypes, ActTypes, HistTypes, SysTypes, PcType
<1>4. CASE RejectOrder(o)
  <2>1. pc' \in PcType
    BY <1>4, MoveType DEF RejectOrder, Labels
  <2> QED
    BY <1>4, <2>1 DEF RejectOrder, ModeTypes, RowTypes, ExTypes, ActTypes, HistTypes, SysTypes, PcType
<1>5. CASE CleanupPlan(o)
  <2>1. RowTypes'
    BY <1>5 DEF CleanupPlan, RowTypes, PlanStatus
  <2>2. pc' \in PcType
    BY <1>5, MoveType DEF CleanupPlan, Labels
  <2> QED
    BY <1>5, <2>1, <2>2 DEF CleanupPlan, ModeTypes, ExTypes, ActTypes, HistTypes, SysTypes, PcType
<1>6. CASE SaveFailed(o)
  <2>1. RowTypes'
    BY <1>6 DEF SaveFailed, RowTypes, Lifecycle, RowStatus
  <2>2. pc' \in PcType
    BY <1>6, MoveType DEF SaveFailed, Labels
  <2> QED
    BY <1>6, <2>1, <2>2 DEF SaveFailed, ModeTypes, ExTypes, ActTypes, HistTypes, SysTypes, PcType
<1>7. CASE MigrateCreate(o)
  <2>1. RowTypes'
    BY <1>7 DEF MigrateCreate, RowTypes, PlanStatus
  <2>2. pc' \in PcType
    BY <1>7, MoveType DEF MigrateCreate, Labels
  <2> QED
    BY <1>7, <2>1, <2>2 DEF MigrateCreate, ModeTypes, ExTypes, ActTypes, HistTypes, SysTypes, PcType
<1>8. CASE MigrateDestroy(o)
  <2>1. RowTypes'
    BY <1>8 DEF MigrateDestroy, RowTypes, PlanStatus
  <2>2. pc' \in PcType
    BY <1>8, MoveType DEF MigrateDestroy, Labels
  <2> QED
    BY <1>8, <2>1, <2>2 DEF MigrateDestroy, ModeTypes, ExTypes, ActTypes, HistTypes, SysTypes, PcType
<1>9. CASE SaveOrder(o)
  <2>1. RowTypes'
    BY <1>9 DEF SaveOrder, RowTypes, Lifecycle, RowStatus
  <2>2. pc' \in PcType
    BY <1>9, MoveType DEF SaveOrder, Labels, PostFill
  <2>3. mem' \in [Orders -> [Actors -> Memory]]
    BY <1>9, MemType, EnteringType DEF SaveOrder, Lifecycle
  <2> QED
    BY <1>9, <2>1, <2>2, <2>3 DEF SaveOrder, ModeTypes, ExTypes, ActTypes, HistTypes, SysTypes, PcType
<1>10. CASE PostFillGuard(o)
  <2>1. RowTypes'
    BY <1>10 DEF PostFillGuard, RowTypes, RowStatus
  <2>2. pc' \in PcType
    BY <1>10, MoveType DEF PostFillGuard, Labels, PostFill
  <2> QED
    BY <1>10, <2>1, <2>2 DEF PostFillGuard, ModeTypes, ExTypes, ActTypes, HistTypes, SysTypes, PcType
<1>11. CASE PostFillReject(o)
  <2>1. RowTypes'
    BY <1>11 DEF PostFillReject, RowTypes, Lifecycle, SetLife
  <2>2. pc' \in PcType
    BY <1>11, MoveType DEF PostFillReject, Labels
  <2> QED
    BY <1>11, <2>1, <2>2 DEF PostFillReject, ModeTypes, ExTypes, ActTypes, HistTypes, SysTypes, PcType
<1>12. CASE ApplyLifecycle(o)
  <2>1. RowTypes'
    BY <1>12 DEF ApplyLifecycle, RowTypes, Lifecycle, SetLife, Outcome
  <2>2. pc' \in PcType
    BY <1>12, MoveType DEF ApplyLifecycle, Labels
  <2> QED
    BY <1>12, <2>1, <2>2 DEF ApplyLifecycle, ModeTypes, ExTypes, ActTypes, HistTypes, SysTypes, PcType
<1> QED
  BY <1>1, <1>2, <1>3, <1>4, <1>5, <1>6, <1>7, <1>8, <1>9, <1>10, <1>11, <1>12 DEF Rest

\* So does waitForOrderFill.
LEMMA WaitTypes ==
  ASSUME TypeOK, NEW o \in Orders, NEW a \in {"rest", "boot"}, Waiting(o, a)
  PROVE  TypeOK'
<1> a \in Actors
  BY DEF Actors
<1> USE DEF TypeOK, rowVars, exVars, actVars, histVars, sysVars
<1>1. CASE RegisterListener(o, a)
  <2>1. listen' \in [Orders -> {"none", "rest", "boot"}]
    BY <1>1 DEF RegisterListener, ActTypes
  <2>2. pc' \in PcType
    BY <1>1, MoveType DEF RegisterListener, Labels
  <2> QED
    BY <1>1, <2>1, <2>2 DEF RegisterListener, ModeTypes, RowTypes, ExTypes, ActTypes, HistTypes, SysTypes, PcType
<1>2. CASE Precheck(o, a)
  <2>1. listen' \in [Orders -> {"none", "rest", "boot"}]
    BY <1>2 DEF Precheck, ActTypes
  <2>2. pc' \in PcType
    BY <1>2, MoveType DEF Precheck, Labels, OnFilled
  <2> QED
    BY <1>2, <2>1, <2>2 DEF Precheck, ModeTypes, RowTypes, ExTypes, ActTypes, HistTypes, SysTypes, PcType
<1>3. CASE ExpireWait(o, a)
  <2>1. listen' \in [Orders -> {"none", "rest", "boot"}]
    BY <1>3 DEF ExpireWait, ActTypes
  <2>2. pc' \in PcType
    BY <1>3, MoveType DEF ExpireWait, Labels
  <2> QED
    BY <1>3, <2>1, <2>2 DEF ExpireWait, ModeTypes, RowTypes, ExTypes, ActTypes, HistTypes, SysTypes, PcType
<1>4. CASE FinalQuery(o, a)
  <2>1. pc' \in PcType
    BY <1>4, MoveType DEF FinalQuery, Labels, OnFilled, OnCancelled
  <2> QED
    BY <1>4, <2>1 DEF FinalQuery, ModeTypes, RowTypes, ExTypes, ActTypes, HistTypes, SysTypes, PcType
<1> QED
  BY <1>1, <1>2, <1>3, <1>4 DEF Waiting

LEMMA MemoType ==
  ASSUME ActTypes, NEW o \in Orders, NEW a \in Actors
  PROVE  /\ \A c \in {"yes", "no"} :
              [mem EXCEPT ![o][a].claimed = c] \in [Orders -> [Actors -> Memory]]
         /\ \A t \in {"placed", "missing"} :
              [mem EXCEPT ![o][a].tp = t] \in [Orders -> [Actors -> Memory]]
<1>1. \A m \in Memory, c \in {"yes", "no"} : [m EXCEPT !.claimed = c] \in Memory
  BY DEF Memory
<1>2. \A m \in Memory, t \in {"placed", "missing"} : [m EXCEPT !.tp = t] \in Memory
  BY DEF Memory
<1> QED
  BY <1>1, <1>2 DEF ActTypes

\* So does the protection pipeline.
LEMMA PipelineTypes ==
  ASSUME TypeOK, NEW o \in Orders, NEW a \in Actors, Protecting(o, a)
  PROVE  TypeOK'
<1> USE DEF TypeOK, rowVars, exVars, actVars, histVars, sysVars
<1>1. CASE Claim(o, a)
  <2>1. RowTypes'
    BY <1>1 DEF Claim, RowTypes, PlanStatus
  <2>2. pc' \in PcType
    BY <1>1, MoveType DEF Claim, Labels, AfterPipeline
  <2>3. /\ [mem EXCEPT ![o][a].claimed = "yes"] \in [Orders -> [Actors -> Memory]]
        /\ [mem EXCEPT ![o][a].claimed = "no"] \in [Orders -> [Actors -> Memory]]
    BY MemoType
  <2>4. mem' \in [Orders -> [Actors -> Memory]]
    BY <1>1, <2>3, Zenon DEF Claim
  <2> QED
    BY <1>1, <2>1, <2>2, <2>4 DEF Claim, ModeTypes, ExTypes, ActTypes, HistTypes, SysTypes, PcType
<1>2. CASE PlaceTps(o, a)
  <2>1. HistTypes'
    BY <1>2 DEF PlaceTps, HistTypes
  <2>2. pc' \in PcType
    BY <1>2, MoveType DEF PlaceTps, Labels
  <2>3. \A tp \in {"placed", "missing"} :
          [mem EXCEPT ![o][a].tp = tp] \in [Orders -> [Actors -> Memory]]
    BY MemoType
  <2>4. mem' \in [Orders -> [Actors -> Memory]]
    BY <1>2, <2>3, Zenon DEF PlaceTps
  <2> QED
    BY <1>2, <2>1, <2>2, <2>4 DEF PlaceTps, ModeTypes, RowTypes, ExTypes, ActTypes, SysTypes, PcType
<1>3. CASE MarkCompleted(o, a)
  <2>1. RowTypes'
    BY <1>3 DEF MarkCompleted, RowTypes, PlanStatus
  <2>2. pc' \in PcType
    BY <1>3, MoveType DEF MarkCompleted, Labels, AfterPipeline
  <2> QED
    BY <1>3, <2>1, <2>2 DEF MarkCompleted, ModeTypes, ExTypes, ActTypes, HistTypes, SysTypes, PcType
<1> QED
  BY <1>1, <1>2, <1>3 DEF Protecting

\* The orchestrator's save.
LEMMA OrchTypes ==
  ASSUME TypeOK, NEW o \in Orders, NEW a \in Actors, OrchSave(o, a)
  PROVE  TypeOK'
<1> USE DEF TypeOK, rowVars, exVars, actVars, histVars, sysVars
<1>1. RowTypes'
  BY DEF OrchSave, RowTypes, Lifecycle, SetLife, Outcome
<1>2. pc' \in PcType
  BY MoveType DEF OrchSave, Labels
<1> QED
  BY <1>1, <1>2 DEF OrchSave, ModeTypes, ExTypes, ActTypes, HistTypes, SysTypes, PcType

\* The websocket handler.
LEMMA HandlerTypes ==
  ASSUME TypeOK, NEW o \in Orders, Handler(o)
  PROVE  TypeOK'
<1> "ws" \in Actors
  BY DEF Actors
<1> USE DEF TypeOK, rowVars, exVars, actVars, histVars, sysVars
<1>1. CASE WsFind(o)
  <2>1. pc' \in PcType
    BY <1>1, MoveType DEF WsFind, Labels
  <2>2. db[o].life \in Lifecycle
    BY <1>1 DEF WsFind, RowTypes
  <2>3. mem' \in [Orders -> [Actors -> Memory]]
    BY <1>1, <2>2, MemType, EnteringType DEF WsFind
  <2> QED
    BY <1>1, <2>1, <2>2, <2>3 DEF WsFind, ModeTypes, RowTypes, ExTypes, ActTypes, HistTypes, SysTypes, PcType
<1>2. CASE WsSaveOpen(o)
  <2>1. RowTypes'
    BY <1>2 DEF WsSaveOpen, RowTypes, Lifecycle, RowStatus
  <2>2. pc' \in PcType
    BY <1>2, MoveType DEF WsSaveOpen, Labels
  <2> QED
    BY <1>2, <2>1, <2>2 DEF WsSaveOpen, ModeTypes, ExTypes, ActTypes, HistTypes, SysTypes, PcType
<1>3. CASE WsLookup(o)
  <2>1. pc' \in PcType
    BY <1>3, MoveType DEF WsLookup, Labels, WsProceed
  <2> QED
    BY <1>3, <2>1 DEF WsLookup, ModeTypes, RowTypes, ExTypes, ActTypes, HistTypes, SysTypes, PcType
<1>4. CASE WsAdopt(o)
  <2>1. RowTypes'
    BY <1>4 DEF WsAdopt, RowTypes, PlanStatus
  <2>2. pc' \in PcType
    BY <1>4, MoveType DEF WsAdopt, Labels, WsProceed
  <2> QED
    BY <1>4, <2>1, <2>2 DEF WsAdopt, ModeTypes, ExTypes, ActTypes, HistTypes, SysTypes, PcType
<1>5. CASE WsDropClient(o)
  <2>1. RowTypes'
    BY <1>5 DEF WsDropClient, RowTypes, PlanStatus
  <2>2. pc' \in PcType
    BY <1>5, MoveType DEF WsDropClient, Labels, WsProceed
  <2> QED
    BY <1>5, <2>1, <2>2 DEF WsDropClient, ModeTypes, ExTypes, ActTypes, HistTypes, SysTypes, PcType
<1>6. CASE WsCas(o)
  <2>1. RowTypes'
    BY <1>6 DEF WsCas, RowTypes, Lifecycle, SetLife
  <2>2. pc' \in PcType
    BY <1>6, MoveType DEF WsCas, Labels
  <2> QED
    BY <1>6, <2>1, <2>2 DEF WsCas, ModeTypes, ExTypes, ActTypes, HistTypes, SysTypes, PcType
<1>7. CASE WsFindCancelled(o)
  <2>1. pc' \in PcType
    BY <1>7, MoveType DEF WsFindCancelled, Labels
  <2> QED
    BY <1>7, <2>1 DEF WsFindCancelled, ModeTypes, RowTypes, ExTypes, ActTypes, HistTypes, SysTypes, PcType
<1>8. CASE WsSaveClosed(o)
  <2>1. RowTypes'
    BY <1>8 DEF WsSaveClosed, RowTypes, Lifecycle, RowStatus
  <2>2. pc' \in PcType
    BY <1>8, MoveType DEF WsSaveClosed, Labels
  <2> QED
    BY <1>8, <2>1, <2>2 DEF WsSaveClosed, ModeTypes, ExTypes, ActTypes, HistTypes, SysTypes, PcType
<1> QED
  BY <1>1, <1>2, <1>3, <1>4, <1>5, <1>6, <1>7, <1>8 DEF Handler

\* Recovery and reconcile.
LEMMA RecoveryTypes ==
  ASSUME TypeOK, NEW o \in Orders, NEW a \in {"boot", "sync"}, Recovering(o, a)
  PROVE  TypeOK'
<1> a \in Actors
  BY DEF Actors
<1> USE DEF TypeOK, rowVars, exVars, actVars, histVars, sysVars
<1>1. CASE Query(o, a)
  <2>1. pc' \in PcType
    BY <1>1, MoveType DEF Query, Labels
  <2> QED
    BY <1>1, <2>1 DEF Query, ModeTypes, RowTypes, ExTypes, ActTypes, HistTypes, SysTypes, PcType
<1>2. CASE QueryGone(o, a)
  <2>1. RowTypes'
    BY <1>2 DEF QueryGone, RowTypes, Lifecycle, RowStatus
  <2>2. pc' \in PcType
    BY <1>2, MoveType DEF QueryGone, Labels
  <2> QED
    BY <1>2, <2>1, <2>2 DEF QueryGone, ModeTypes, ExTypes, ActTypes, HistTypes, SysTypes, PcType
<1>3. CASE RecSave(o, a)
  <2>1. RowTypes'
    BY <1>3 DEF RecSave, RowTypes, Lifecycle, RowStatus
  <2>2. pc' \in PcType
    BY <1>3, MoveType DEF RecSave, Labels, PostFill
  <2>3. mem' \in [Orders -> [Actors -> Memory]]
    BY <1>3, MemType, EnteringType DEF RecSave, Lifecycle
  <2> QED
    BY <1>3, <2>1, <2>2, <2>3 DEF RecSave, ModeTypes, ExTypes, ActTypes, HistTypes, SysTypes, PcType
<1> QED
  BY <1>1, <1>2, <1>3 DEF Recovering

LEMMA ResolvedType ==
  ASSUME ActTypes, NEW o \in Orders, NEW filled
  PROVE  Resolved(o, filled) \in [Actors -> Labels]
BY DEF ActTypes, Resolved, OnFilled, OnCancelled, Actors, Labels

\* Pushes and the exchange.
LEMMA ExchangeTypes ==
  ASSUME TypeOK, NEW o \in Orders, Delivery(o) \/ Match(o) \/ CancelEntry(o)
  PROVE  TypeOK'
<1> USE DEF TypeOK, rowVars, exVars, actVars, histVars, sysVars
<1>1. CASE DeliverPartial(o)
  <2>1. ExTypes'
    BY <1>1 DEF DeliverPartial, ExTypes, Take
  <2>2. pc' \in PcType
    BY <1>1, ResolvedType DEF DeliverPartial, ActTypes, PcType
  <2>3. listen' \in [Orders -> {"none", "rest", "boot"}]
    BY <1>1 DEF DeliverPartial, ActTypes
  <2> QED
    BY <1>1, <2>1, <2>2, <2>3 DEF DeliverPartial, ModeTypes, RowTypes, ActTypes, HistTypes, SysTypes, PcType
<1>2. CASE DeliverFinished(o)
  <2>1. ExTypes'
    BY <1>2 DEF DeliverFinished, ExTypes, Take
  <2>2. pc' \in PcType
    BY <1>2, ResolvedType DEF DeliverFinished, ActTypes, PcType, Labels
  <2>3. listen' \in [Orders -> {"none", "rest", "boot"}]
    BY <1>2 DEF DeliverFinished, ActTypes
  <2> QED
    BY <1>2, <2>1, <2>2, <2>3 DEF DeliverFinished, ModeTypes, RowTypes, ActTypes, HistTypes, SysTypes, PcType
<1>3. CASE Match(o)
  <2>1. ExTypes'
    BY <1>3 DEF Match, ExTypes, ExStatus, PushIf, Push
  <2> QED
    BY <1>3, <2>1 DEF Match, ModeTypes, RowTypes, ActTypes, HistTypes, SysTypes
<1>4. CASE CancelEntry(o)
  <2>1. ExTypes'
    BY <1>4 DEF CancelEntry, ExTypes, ExStatus, PushIf, Push
  <2> QED
    BY <1>4, <2>1 DEF CancelEntry, ModeTypes, RowTypes, ActTypes, HistTypes, SysTypes
<1> QED
  BY <1>1, <1>2, <1>3, <1>4 DEF Delivery

LEMMA FetchedType ==
  ASSUME RowTypes, ActTypes, NEW a \in Actors, NEW set, Fetched(a, set)
  PROVE  pc' \in PcType /\ mem' \in [Orders -> [Actors -> Memory]]
<1>1. pc' \in PcType
  BY DEF ActTypes, Fetched, PcType, Labels
<1>2. \A o \in Orders : Entering(o, db[o].life) \in Memory
  BY EnteringType DEF RowTypes
<1>3. mem' \in [Orders -> [Actors -> Memory]]
  BY <1>2 DEF ActTypes, Fetched
<1> QED
  BY <1>1, <1>3

\* The process and its connection.
LEMMA SystemTypes ==
  ASSUME TypeOK, System
  PROVE  TypeOK'
<1> USE DEF TypeOK, rowVars, exVars, actVars, histVars, sysVars
<1> "boot" \in Actors /\ "sync" \in Actors
  BY DEF Actors
<1>1. CASE Restart
  <2>1. pc' \in PcType /\ mem' \in [Orders -> [Actors -> Memory]]
    BY <1>1, FetchedType DEF Restart
  <2> QED
    BY <1>1, <2>1 DEF Restart, ModeTypes, RowTypes, ExTypes, ActTypes, HistTypes, SysTypes, PcType
<1>2. CASE Wire
  BY <1>2 DEF Wire, ModeTypes, RowTypes, ExTypes, ActTypes, HistTypes, SysTypes
<1>3. CASE ReconcileScan
  <2>1. pc' \in PcType /\ mem' \in [Orders -> [Actors -> Memory]]
    BY <1>3, FetchedType DEF ReconcileScan
  <2> QED
    BY <1>3, <2>1 DEF ReconcileScan, ModeTypes, RowTypes, ExTypes, ActTypes, HistTypes, SysTypes, PcType
<1>4. CASE Crash
  <2>1. pc' \in PcType
    BY <1>4 DEF Crash, ActTypes, PcType, Labels
  <2>2. mem' \in [Orders -> [Actors -> Memory]]
    BY <1>4, FreshType DEF Crash
  <2>3. ActTypes'
    BY <1>4, <2>1, <2>2 DEF Crash, ActTypes, PcType
  <2>4. crashes' \in 0..MaxCrashes
    BY <1>4, BoundsAssumption DEF Crash, SysTypes
  <2>5. SysTypes'
    BY <1>4, <2>4 DEF Crash, SysTypes
  <2> QED
    BY <1>4, <2>3, <2>5 DEF Crash, ModeTypes, RowTypes, ExTypes, HistTypes
<1>5. CASE Disconnect
  <2>1. drops' \in 0..MaxDrops
    BY <1>5, BoundsAssumption DEF Disconnect, SysTypes
  <2>2. SysTypes'
    BY <1>5, <2>1 DEF Disconnect, SysTypes
  <2> QED
    BY <1>5, <2>2 DEF Disconnect, ModeTypes, RowTypes, ExTypes, ActTypes, HistTypes
<1>6. CASE Reconnect
  BY <1>6 DEF Reconnect, ModeTypes, RowTypes, ExTypes, ActTypes, HistTypes, SysTypes
<1> QED
  BY <1>1, <1>2, <1>3, <1>4, <1>5, <1>6 DEF System

LEMMA TypeStep == TypeOK /\ [Next]_vars => TypeOK'
<1> SUFFICES ASSUME TypeOK, [Next]_vars PROVE TypeOK'
  OBVIOUS
<1>1. ASSUME NEW o \in Orders, Code(o) PROVE TypeOK'
  <2> {"rest", "boot", "sync"} \subseteq Actors
    BY DEF Actors
  <2> QED
    BY <1>1, RestTypes, HandlerTypes, WaitTypes, PipelineTypes, OrchTypes,
       RecoveryTypes DEF Code
<1>2. CASE Next
  BY <1>1, <1>2, ExchangeTypes, SystemTypes DEF Next
<1>3. CASE UNCHANGED vars
  BY <1>3 DEF vars, rowVars, exVars, actVars, histVars, sysVars, TypeOK,
     ModeTypes, RowTypes, ExTypes, ActTypes, HistTypes, SysTypes
<1> QED
  BY <1>2, <1>3

\* Every variable keeps its type: what the handlers of handleOpen, the
\* websocket, the recovery and the reconcile write fits the Order row, the
\* PendingProtection table and the memory the others read.
THEOREM TypeCorrect == Spec => []TypeOK
BY TypeInit, TypeStep, PTL DEF Spec

-----------------------------------------------------------------------------
(* The plan is claimed by one handler and sent once *)

\* What a step leaves alone when it is about another order.
Same(p) ==
  /\ db'[p] = db[p] /\ ppClient'[p] = ppClient[p] /\ ppReal'[p] = ppReal[p]
  /\ ex'[p] = ex[p] /\ chan'[p] = chan[p] /\ listen'[p] = listen[p]
  /\ pc'[p] = pc[p] /\ runs'[p] = runs[p]
  /\ mem'[p] = mem[p] /\ ack'[p] = ack[p] /\ ladder'[p] = ladder[p]
  /\ mode' = mode /\ side' = side /\ crashes' = crashes /\ drops' = drops
  /\ up' = up /\ conn' = conn /\ resync' = resync

LEMMA Frame ==
  ASSUME NEW p \in Orders, Planned(p), Same(p)
  PROVE  Planned(p)'
BY DEF Planned, Same, Untouched, Hidden, ListenerWaits, PushedOnce, Migrated,
   Leftover, Claimed, Accepted, Holds

\* Every step of the REST path keeps Planned: the plan is written once, and
\* migrated at most once before the exchange id is saved.
LEMMA RestPlanned ==
  ASSUME TypeOK, NEW o \in Orders, Planned(o), Rest(o),
         "destroyPlan" \notin Faults
  PROVE  Planned(o)'
<1> USE DEF TypeOK, Move, RowTypes, ExTypes, ActTypes, HistTypes, rowVars, exVars, actVars, histVars, sysVars
<1> USE AcksAssumption DEF Planned, Actors, Unsaved
<1>1. CASE CreateOrder(o)
  BY <1>1 DEF CreateOrder, Untouched, Hidden, ListenerWaits, PushedOnce, Migrated, Leftover, Claimed, Accepted, Holds
<1>2. CASE PersistPlan(o)
  BY <1>2 DEF PersistPlan, Untouched, Hidden, ListenerWaits, PushedOnce, Migrated, Leftover, Claimed, Accepted, Holds
<1>3. CASE SubmitOrder(o)
  <2>1. Untouched(o)'
    BY <1>3 DEF SubmitOrder, PushIf, Untouched
  <2>2. Hidden(o)'
    BY <1>3 DEF SubmitOrder, PushIf, Hidden, Untouched
  <2>3. ListenerWaits(o)'
    BY <1>3 DEF SubmitOrder, PushIf, ListenerWaits
  <2>4. PushedOnce(o)'
    BY <1>3 DEF SubmitOrder, PushIf, PushedOnce, Untouched
  <2>5. Migrated(o)'
    BY <1>3 DEF SubmitOrder, PushIf, Migrated, Untouched
  <2>6. Leftover(o)'
    BY <1>3 DEF SubmitOrder, PushIf, Leftover, Hidden
  <2>7. Claimed(o)'
    BY <1>3 DEF SubmitOrder, PushIf, Claimed, Untouched, Holds
  <2>8. Accepted(o)'
    BY <1>3 DEF SubmitOrder, PushIf, Accepted, Untouched
  <2> QED
    BY <2>1, <2>2, <2>3, <2>4, <2>5, <2>6, <2>7, <2>8
<1>4. CASE RejectOrder(o)
  BY <1>4 DEF RejectOrder, Untouched, Hidden, ListenerWaits, PushedOnce, Migrated, Leftover, Claimed, Accepted, Holds
<1>5. CASE CleanupPlan(o)
  BY <1>5 DEF CleanupPlan, Untouched, Hidden, ListenerWaits, PushedOnce, Migrated, Leftover, Claimed, Accepted, Holds
<1>6. CASE SaveFailed(o)
  BY <1>6 DEF SaveFailed, Untouched, Hidden, ListenerWaits, PushedOnce, Migrated, Leftover, Claimed, Accepted, Holds
<1>7. CASE MigrateCreate(o)
  <2>1. Untouched(o)'
    BY <1>7 DEF MigrateCreate, Untouched
  <2>2. Hidden(o)'
    BY <1>7 DEF MigrateCreate, Hidden
  <2>3. ListenerWaits(o)'
    BY <1>7 DEF MigrateCreate, ListenerWaits
  <2>4. PushedOnce(o)'
    BY <1>7 DEF MigrateCreate, PushedOnce
  <2>5. Migrated(o)'
    BY <1>7 DEF MigrateCreate, Migrated, Hidden
  <2>6. Leftover(o)'
    BY <1>7 DEF MigrateCreate, Leftover, Hidden
  <2>7. Claimed(o)'
    BY <1>7 DEF MigrateCreate, Claimed, Hidden, Holds
  <2>8. Accepted(o)'
    BY <1>7 DEF MigrateCreate, Accepted
  <2> QED
    BY <2>1, <2>2, <2>3, <2>4, <2>5, <2>6, <2>7, <2>8
<1>8. CASE MigrateDestroy(o)
  <2>1. Untouched(o)'
    BY <1>8 DEF MigrateDestroy, Untouched
  <2>2. Hidden(o)'
    BY <1>8 DEF MigrateDestroy, Hidden
  <2>3. ListenerWaits(o)'
    BY <1>8 DEF MigrateDestroy, ListenerWaits
  <2>4. PushedOnce(o)'
    BY <1>8 DEF MigrateDestroy, PushedOnce
  <2>5. Migrated(o)'
    BY <1>8 DEF MigrateDestroy, Migrated
  <2>6. Leftover(o)'
    BY <1>8 DEF MigrateDestroy, Leftover, Hidden
  <2>7. Claimed(o)'
    BY <1>8 DEF MigrateDestroy, Claimed, Holds
  <2>8. Accepted(o)'
    BY <1>8 DEF MigrateDestroy, Accepted
  <2> QED
    BY <2>1, <2>2, <2>3, <2>4, <2>5, <2>6, <2>7, <2>8
<1>9. CASE SaveOrder(o)
  <2>1. Untouched(o)'
    BY <1>9 DEF SaveOrder, PostFill, Untouched
  <2>2. Hidden(o)'
    BY <1>9 DEF SaveOrder, PostFill, Hidden
  <2>3. ListenerWaits(o)'
    BY <1>9 DEF SaveOrder, PostFill, ListenerWaits, Hidden
  <2>4. PushedOnce(o)'
    BY <1>9 DEF SaveOrder, PostFill, PushedOnce
  <2>5. Migrated(o)'
    BY <1>9 DEF SaveOrder, PostFill, Migrated
  <2>6. Leftover(o)'
    BY <1>9 DEF SaveOrder, PostFill, Leftover, Hidden, Migrated
  <2>7. Claimed(o)'
    BY <1>9 DEF SaveOrder, PostFill, Claimed, Hidden, Holds
  <2>8. Accepted(o)'
    BY <1>9 DEF SaveOrder, PostFill, Accepted
  <2> QED
    BY <2>1, <2>2, <2>3, <2>4, <2>5, <2>6, <2>7, <2>8
<1>10. CASE PostFillGuard(o)
  <2>a. db'[o].xid = db[o].xid
    BY <1>10 DEF PostFillGuard, PostFill
  <2>1. Untouched(o)'
    BY <1>10, <2>a DEF PostFillGuard, PostFill, Untouched
  <2>2. Hidden(o)'
    BY <1>10, <2>a DEF PostFillGuard, PostFill, Hidden
  <2>3. ListenerWaits(o)'
    BY <1>10, <2>a DEF PostFillGuard, PostFill, ListenerWaits
  <2>4. PushedOnce(o)'
    BY <1>10, <2>a DEF PostFillGuard, PostFill, PushedOnce
  <2>5. Migrated(o)'
    BY <1>10, <2>a DEF PostFillGuard, PostFill, Migrated
  <2>6. Leftover(o)'
    BY <1>10, <2>a DEF PostFillGuard, PostFill, Leftover
  <2>7. Claimed(o)'
    BY <1>10, <2>a DEF PostFillGuard, PostFill, Claimed, Holds
  <2>8. Accepted(o)'
    BY <1>10, <2>a DEF PostFillGuard, PostFill, Accepted
  <2> QED
    BY <2>1, <2>2, <2>3, <2>4, <2>5, <2>6, <2>7, <2>8
<1>11. CASE PostFillReject(o)
  BY <1>11 DEF PostFillReject, SetLife, Untouched, Hidden, ListenerWaits, PushedOnce, Migrated, Leftover, Claimed, Accepted, Holds
<1>12. CASE ApplyLifecycle(o)
  BY <1>12 DEF ApplyLifecycle, SetLife, Untouched, Hidden, ListenerWaits, PushedOnce, Migrated, Leftover, Claimed, Accepted, Holds
<1> QED
  BY <1>1, <1>2, <1>3, <1>4, <1>5, <1>6, <1>7, <1>8, <1>9, <1>10, <1>11, <1>12 DEF Rest

\* So does the wait for the fill.
LEMMA WaitPlanned ==
  ASSUME TypeOK, NEW o \in Orders, Planned(o), NEW a \in {"rest", "boot"}, Waiting(o, a),
         "destroyPlan" \notin Faults
  PROVE  Planned(o)'
<1> USE DEF TypeOK, Move, RowTypes, ExTypes, ActTypes, HistTypes, rowVars, exVars, actVars, histVars, sysVars
<1> USE AcksAssumption DEF Planned, Actors, Unsaved
<1>1. CASE RegisterListener(o, a)
  BY <1>1 DEF RegisterListener, Untouched, Hidden, ListenerWaits, PushedOnce, Migrated, Leftover, Claimed, Accepted, Holds
<1>2. CASE Precheck(o, a)
  BY <1>2 DEF Precheck, OnFilled, Untouched, Hidden, ListenerWaits, PushedOnce, Migrated, Leftover, Claimed, Accepted, Holds
<1>3. CASE ExpireWait(o, a)
  BY <1>3 DEF ExpireWait, Untouched, Hidden, ListenerWaits, PushedOnce, Migrated, Leftover, Claimed, Accepted, Holds
<1>4. CASE FinalQuery(o, a)
  BY <1>4 DEF FinalQuery, OnFilled, OnCancelled, Untouched, Hidden, ListenerWaits, PushedOnce, Migrated, Leftover, Claimed, Accepted, Holds
<1> QED
  BY <1>1, <1>2, <1>3, <1>4 DEF Waiting

\* The claim is exclusive, and what it guards happens once.
LEMMA PipelinePlanned ==
  ASSUME TypeOK, NEW o \in Orders, Planned(o), NEW a \in Actors, Protecting(o, a),
         "destroyPlan" \notin Faults
  PROVE  Planned(o)'
<1> USE DEF TypeOK, Move, RowTypes, ExTypes, ActTypes, HistTypes, rowVars, exVars, actVars, histVars, sysVars
<1> USE AcksAssumption DEF Planned, Actors, Unsaved
<1>1. CASE Claim(o, a)
  BY <1>1 DEF Claim, AfterPipeline, Untouched, Hidden, ListenerWaits, PushedOnce, Migrated, Leftover, Claimed, Accepted, Holds
<1>2. CASE PlaceTps(o, a)
  BY <1>2 DEF PlaceTps, Untouched, Hidden, ListenerWaits, PushedOnce, Migrated, Leftover, Claimed, Accepted, Holds
<1>3. CASE MarkCompleted(o, a)
  BY <1>3 DEF MarkCompleted, AfterPipeline, Untouched, Hidden, ListenerWaits, PushedOnce, Migrated, Leftover, Claimed, Accepted, Holds
<1> QED
  BY <1>1, <1>2, <1>3 DEF Protecting

\* The orchestrator touches the Order row only.
LEMMA OrchPlanned ==
  ASSUME TypeOK, NEW o \in Orders, Planned(o), NEW a \in {"rest", "boot", "sync"}, OrchSave(o, a),
         "destroyPlan" \notin Faults
  PROVE  Planned(o)'
<1> USE DEF TypeOK, Move, RowTypes, ExTypes, ActTypes, HistTypes, rowVars, exVars, actVars, histVars, sysVars
<1> USE AcksAssumption DEF Planned, Actors, Unsaved
<1>1. CASE OrchSave(o, a)
  <2>a. db'[o].xid = db[o].xid /\ db'[o].st = db[o].st
    BY <1>1 DEF OrchSave, SetLife
  <2>1. Untouched(o)'
    BY <1>1, <2>a DEF OrchSave, SetLife, Untouched
  <2>2. Hidden(o)'
    BY <1>1, <2>a DEF OrchSave, SetLife, Hidden
  <2>3. ListenerWaits(o)'
    BY <1>1, <2>a DEF OrchSave, SetLife, ListenerWaits
  <2>4. PushedOnce(o)'
    BY <1>1, <2>a DEF OrchSave, SetLife, PushedOnce
  <2>5. Migrated(o)'
    BY <1>1, <2>a DEF OrchSave, SetLife, Migrated
  <2>6. Leftover(o)'
    BY <1>1, <2>a DEF OrchSave, SetLife, Leftover
  <2>7. Claimed(o)'
    BY <1>1, <2>a DEF OrchSave, SetLife, Claimed, Holds
  <2>8. Accepted(o)'
    BY <1>1, <2>a DEF OrchSave, SetLife, Accepted
  <2> QED
    BY <2>1, <2>2, <2>3, <2>4, <2>5, <2>6, <2>7, <2>8
<1> QED
  BY <1>1 DEF OrchSave

\* The websocket handler adopts a client row only if it is the whole plan.
LEMMA HandlerPlanned ==
  ASSUME TypeOK, NEW o \in Orders, Planned(o), Handler(o),
         "destroyPlan" \notin Faults
  PROVE  Planned(o)'
<1> USE DEF TypeOK, Move, RowTypes, ExTypes, ActTypes, HistTypes, rowVars, exVars, actVars, histVars, sysVars
<1> USE AcksAssumption DEF Planned, Actors, Unsaved
<1>1. CASE WsFind(o)
  BY <1>1 DEF WsFind, Untouched, Hidden, ListenerWaits, PushedOnce, Migrated, Leftover, Claimed, Accepted, Holds
<1>2. CASE WsSaveOpen(o)
  <2>a. db'[o].xid = db[o].xid
    BY <1>2 DEF WsSaveOpen
  <2>1. Untouched(o)'
    BY <1>2, <2>a DEF WsSaveOpen, Untouched
  <2>2. Hidden(o)'
    BY <1>2, <2>a DEF WsSaveOpen, Hidden
  <2>3. ListenerWaits(o)'
    BY <1>2, <2>a DEF WsSaveOpen, ListenerWaits
  <2>4. PushedOnce(o)'
    BY <1>2, <2>a DEF WsSaveOpen, PushedOnce
  <2>5. Migrated(o)'
    BY <1>2, <2>a DEF WsSaveOpen, Migrated
  <2>6. Leftover(o)'
    BY <1>2, <2>a DEF WsSaveOpen, Leftover
  <2>7. Claimed(o)'
    BY <1>2, <2>a DEF WsSaveOpen, Claimed, Holds
  <2>8. Accepted(o)'
    BY <1>2, <2>a DEF WsSaveOpen, Accepted
  <2> QED
    BY <2>1, <2>2, <2>3, <2>4, <2>5, <2>6, <2>7, <2>8
<1>3. CASE WsLookup(o)
  BY <1>3 DEF WsLookup, WsProceed, Untouched, Hidden, ListenerWaits, PushedOnce, Migrated, Leftover, Claimed, Accepted, Holds
<1>4. CASE WsAdopt(o)
  BY <1>4 DEF WsAdopt, WsProceed, Untouched, Hidden, ListenerWaits, PushedOnce, Migrated, Leftover, Claimed, Accepted, Holds
<1>5. CASE WsDropClient(o)
  BY <1>5 DEF WsDropClient, WsProceed, Untouched, Hidden, ListenerWaits, PushedOnce, Migrated, Leftover, Claimed, Accepted, Holds
<1>6. CASE WsCas(o)
  <2>a. db'[o].xid = db[o].xid
    BY <1>6 DEF WsCas, SetLife
  <2>1. Untouched(o)'
    BY <1>6, <2>a DEF WsCas, SetLife, Untouched
  <2>2. Hidden(o)'
    BY <1>6, <2>a DEF WsCas, SetLife, Hidden
  <2>3. ListenerWaits(o)'
    BY <1>6, <2>a DEF WsCas, SetLife, ListenerWaits
  <2>4. PushedOnce(o)'
    BY <1>6, <2>a DEF WsCas, SetLife, PushedOnce
  <2>5. Migrated(o)'
    BY <1>6, <2>a DEF WsCas, SetLife, Migrated
  <2>6. Leftover(o)'
    BY <1>6, <2>a DEF WsCas, SetLife, Leftover
  <2>7. Claimed(o)'
    BY <1>6, <2>a DEF WsCas, SetLife, Claimed, Holds
  <2>8. Accepted(o)'
    BY <1>6, <2>a DEF WsCas, SetLife, Accepted
  <2> QED
    BY <2>1, <2>2, <2>3, <2>4, <2>5, <2>6, <2>7, <2>8
<1>7. CASE WsFindCancelled(o)
  BY <1>7 DEF WsFindCancelled, Untouched, Hidden, ListenerWaits, PushedOnce, Migrated, Leftover, Claimed, Accepted, Holds
<1>8. CASE WsSaveClosed(o)
  BY <1>8 DEF WsSaveClosed, Untouched, Hidden, ListenerWaits, PushedOnce, Migrated, Leftover, Claimed, Accepted, Holds
<1> QED
  BY <1>1, <1>2, <1>3, <1>4, <1>5, <1>6, <1>7, <1>8 DEF Handler

\* Recovery and reconcile go through the same claim.
LEMMA RecoveryPlanned ==
  ASSUME TypeOK, NEW o \in Orders, Planned(o), NEW a \in {"boot", "sync"}, Recovering(o, a),
         "destroyPlan" \notin Faults
  PROVE  Planned(o)'
<1> USE DEF TypeOK, Move, RowTypes, ExTypes, ActTypes, HistTypes, rowVars, exVars, actVars, histVars, sysVars
<1> USE AcksAssumption DEF Planned, Actors, Unsaved
<1>1. CASE Query(o, a)
  BY <1>1 DEF Query, Untouched, Hidden, ListenerWaits, PushedOnce, Migrated, Leftover, Claimed, Accepted, Holds
<1>2. CASE QueryGone(o, a)
  <2>a. db'[o].xid = db[o].xid
    BY <1>2 DEF QueryGone
  <2>1. Untouched(o)'
    BY <1>2, <2>a DEF QueryGone, Untouched
  <2>2. Hidden(o)'
    BY <1>2, <2>a DEF QueryGone, Hidden
  <2>3. ListenerWaits(o)'
    BY <1>2, <2>a DEF QueryGone, ListenerWaits
  <2>4. PushedOnce(o)'
    BY <1>2, <2>a DEF QueryGone, PushedOnce
  <2>5. Migrated(o)'
    BY <1>2, <2>a DEF QueryGone, Migrated
  <2>6. Leftover(o)'
    BY <1>2, <2>a DEF QueryGone, Leftover
  <2>7. Claimed(o)'
    BY <1>2, <2>a DEF QueryGone, Claimed, Holds
  <2>8. Accepted(o)'
    BY <1>2, <2>a DEF QueryGone, Accepted
  <2> QED
    BY <2>1, <2>2, <2>3, <2>4, <2>5, <2>6, <2>7, <2>8
<1>3. CASE RecSave(o, a)
  <2>a. db'[o].xid = db[o].xid
    BY <1>3 DEF RecSave, PostFill
  <2>1. Untouched(o)'
    BY <1>3, <2>a DEF RecSave, PostFill, Untouched
  <2>2. Hidden(o)'
    BY <1>3, <2>a DEF RecSave, PostFill, Hidden
  <2>3. ListenerWaits(o)'
    BY <1>3, <2>a DEF RecSave, PostFill, ListenerWaits
  <2>4. PushedOnce(o)'
    BY <1>3, <2>a DEF RecSave, PostFill, PushedOnce
  <2>5. Migrated(o)'
    BY <1>3, <2>a DEF RecSave, PostFill, Migrated
  <2>6. Leftover(o)'
    BY <1>3, <2>a DEF RecSave, PostFill, Leftover
  <2>7. Claimed(o)'
    BY <1>3, <2>a DEF RecSave, PostFill, Claimed, Holds
  <2>8. Accepted(o)'
    BY <1>3, <2>a DEF RecSave, PostFill, Accepted
  <2> QED
    BY <2>1, <2>2, <2>3, <2>4, <2>5, <2>6, <2>7, <2>8
<1> QED
  BY <1>1, <1>2, <1>3 DEF Recovering

\* The finished push is produced and consumed once.
LEMMA ExchangePlanned ==
  ASSUME TypeOK, NEW o \in Orders, Planned(o), Delivery(o) \/ Match(o) \/ CancelEntry(o),
         "destroyPlan" \notin Faults
  PROVE  Planned(o)'
<1> USE DEF TypeOK, Move, RowTypes, ExTypes, ActTypes, HistTypes, rowVars, exVars, actVars, histVars, sysVars
<1> USE AcksAssumption DEF Planned, Actors, Unsaved
<1>1. CASE DeliverPartial(o)
  BY <1>1 DEF DeliverPartial, Take, Resolved, OnFilled, Untouched, Hidden, ListenerWaits, PushedOnce, Migrated, Leftover, Claimed, Accepted, Holds
<1>2. CASE DeliverFinished(o)
  BY <1>2 DEF DeliverFinished, Take, Resolved, OnFilled, OnCancelled, Untouched, Hidden, ListenerWaits, PushedOnce, Migrated, Leftover, Claimed, Accepted, Holds
<1>3. CASE Match(o)
  BY <1>3 DEF Match, PushIf, Untouched, Hidden, ListenerWaits, PushedOnce, Migrated, Leftover, Claimed, Accepted, Holds
<1>4. CASE CancelEntry(o)
  BY <1>4 DEF CancelEntry, PushIf, Untouched, Hidden, ListenerWaits, PushedOnce, Migrated, Leftover, Claimed, Accepted, Holds
<1> QED
  BY <1>1, <1>2, <1>3, <1>4 DEF Delivery

\* A crash leaves a claimed row claimed.
LEMMA SystemPlanned ==
  ASSUME TypeOK, NEW o \in Orders, Planned(o), System,
         "destroyPlan" \notin Faults
  PROVE  Planned(o)'
<1> USE DEF TypeOK, Move, RowTypes, ExTypes, ActTypes, HistTypes, rowVars, exVars, actVars, histVars, sysVars
<1> USE AcksAssumption DEF Planned, Actors, Unsaved
<1>1. CASE Restart
  BY <1>1 DEF Restart, Fetched, Untouched, Hidden, ListenerWaits, PushedOnce, Migrated, Leftover, Claimed, Accepted, Holds
<1>2. CASE Wire
  BY <1>2 DEF Wire, Untouched, Hidden, ListenerWaits, PushedOnce, Migrated, Leftover, Claimed, Accepted, Holds
<1>3. CASE ReconcileScan
  BY <1>3 DEF ReconcileScan, Fetched, Untouched, Hidden, ListenerWaits, PushedOnce, Migrated, Leftover, Claimed, Accepted, Holds
<1>4. CASE Crash
  BY <1>4 DEF Crash, Untouched, Hidden, ListenerWaits, PushedOnce, Migrated, Leftover, Claimed, Accepted, Holds
<1>5. CASE Disconnect
  BY <1>5 DEF Disconnect, Untouched, Hidden, ListenerWaits, PushedOnce, Migrated, Leftover, Claimed, Accepted, Holds
<1>6. CASE Reconnect
  BY <1>6 DEF Reconnect, Untouched, Hidden, ListenerWaits, PushedOnce, Migrated, Leftover, Claimed, Accepted, Holds
<1> QED
  BY <1>1, <1>2, <1>3, <1>4, <1>5, <1>6 DEF System

LEMMA OtherRest ==
  ASSUME TypeOK, NEW o \in Orders, NEW p \in Orders, p # o,
         Rest(o)
  PROVE  Same(p)
<1> USE DEF TypeOK, Same, Move, RowTypes, ExTypes, ActTypes, HistTypes, rowVars, exVars, actVars, histVars, sysVars, SetLife
<1>1. CASE CreateOrder(o)
  BY <1>1 DEF CreateOrder, PushIf
<1>2. CASE PersistPlan(o)
  BY <1>2 DEF PersistPlan, PushIf
<1>3. CASE SubmitOrder(o)
  BY <1>3 DEF SubmitOrder, PushIf
<1>4. CASE RejectOrder(o)
  BY <1>4 DEF RejectOrder, PushIf
<1>5. CASE CleanupPlan(o)
  BY <1>5 DEF CleanupPlan, PushIf
<1>6. CASE SaveFailed(o)
  BY <1>6 DEF SaveFailed, PushIf
<1>7. CASE MigrateCreate(o)
  BY <1>7 DEF MigrateCreate, PushIf
<1>8. CASE MigrateDestroy(o)
  BY <1>8 DEF MigrateDestroy, PushIf
<1>9. CASE SaveOrder(o)
  BY <1>9 DEF SaveOrder, PushIf
<1>10. CASE PostFillGuard(o)
  BY <1>10 DEF PostFillGuard, PushIf
<1>11. CASE PostFillReject(o)
  BY <1>11 DEF PostFillReject, PushIf
<1>12. CASE ApplyLifecycle(o)
  BY <1>12 DEF ApplyLifecycle, PushIf
<1> QED
  BY <1>1, <1>2, <1>3, <1>4, <1>5, <1>6, <1>7, <1>8, <1>9, <1>10, <1>11, <1>12 DEF Rest

LEMMA OtherHandler ==
  ASSUME TypeOK, NEW o \in Orders, NEW p \in Orders, p # o,
         Handler(o) \/ Delivery(o) \/ Match(o) \/ CancelEntry(o)
  PROVE  Same(p)
<1> USE DEF TypeOK, Same, Move, RowTypes, ExTypes, ActTypes, HistTypes, rowVars, exVars, actVars, histVars, sysVars, SetLife
<1>1. CASE WsFind(o)
  BY <1>1 DEF WsFind, PushIf, Take
<1>2. CASE WsSaveOpen(o)
  BY <1>2 DEF WsSaveOpen, PushIf, Take
<1>3. CASE WsLookup(o)
  BY <1>3 DEF WsLookup, PushIf, Take
<1>4. CASE WsAdopt(o)
  BY <1>4 DEF WsAdopt, PushIf, Take
<1>5. CASE WsDropClient(o)
  BY <1>5 DEF WsDropClient, PushIf, Take
<1>6. CASE WsCas(o)
  BY <1>6 DEF WsCas, PushIf, Take
<1>7. CASE WsFindCancelled(o)
  BY <1>7 DEF WsFindCancelled, PushIf, Take
<1>8. CASE WsSaveClosed(o)
  BY <1>8 DEF WsSaveClosed, PushIf, Take
<1>9. CASE DeliverPartial(o)
  BY <1>9 DEF DeliverPartial, PushIf, Take
<1>10. CASE DeliverFinished(o)
  BY <1>10 DEF DeliverFinished, PushIf, Take
<1>11. CASE Match(o)
  BY <1>11 DEF Match, PushIf, Take
<1>12. CASE CancelEntry(o)
  BY <1>12 DEF CancelEntry, PushIf, Take
<1> QED
  BY <1>1, <1>2, <1>3, <1>4, <1>5, <1>6, <1>7, <1>8, <1>9, <1>10, <1>11, <1>12 DEF Handler, Delivery

LEMMA OtherActor ==
  ASSUME TypeOK, NEW o \in Orders, NEW p \in Orders, p # o,
         NEW a \in Actors, Waiting(o, a) \/ Protecting(o, a) \/ OrchSave(o, a) \/ Recovering(o, a)
  PROVE  Same(p)
<1> USE DEF TypeOK, Same, Move, RowTypes, ExTypes, ActTypes, HistTypes, rowVars, exVars, actVars, histVars, sysVars, SetLife
<1>1. CASE RegisterListener(o, a)
  BY <1>1 DEF RegisterListener
<1>2. CASE Precheck(o, a)
  BY <1>2 DEF Precheck
<1>3. CASE ExpireWait(o, a)
  BY <1>3 DEF ExpireWait
<1>4. CASE FinalQuery(o, a)
  BY <1>4 DEF FinalQuery
<1>5. CASE Claim(o, a)
  BY <1>5 DEF Claim
<1>6. CASE PlaceTps(o, a)
  BY <1>6 DEF PlaceTps
<1>7. CASE MarkCompleted(o, a)
  BY <1>7 DEF MarkCompleted
<1>8. CASE OrchSave(o, a)
  BY <1>8 DEF OrchSave
<1>9. CASE Query(o, a)
  BY <1>9 DEF Query
<1>10. CASE QueryGone(o, a)
  BY <1>10 DEF QueryGone
<1>11. CASE RecSave(o, a)
  BY <1>11 DEF RecSave
<1> QED
  BY <1>1, <1>2, <1>3, <1>4, <1>5, <1>6, <1>7, <1>8, <1>9, <1>10, <1>11 DEF Waiting, Protecting, Recovering

LEMMA OtherOrders ==
  ASSUME TypeOK, NEW o \in Orders, NEW p \in Orders, p # o,
         Code(o) \/ Delivery(o) \/ Match(o) \/ CancelEntry(o)
  PROVE  Same(p)
BY OtherRest, OtherHandler, OtherActor DEF Code, Actors

LEMMA OwnOrder ==
  ASSUME TypeOK, NEW o \in Orders, Planned(o), "destroyPlan" \notin Faults,
         Code(o) \/ Delivery(o) \/ Match(o) \/ CancelEntry(o)
  PROVE  Planned(o)'
BY RestPlanned, WaitPlanned, PipelinePlanned, OrchPlanned, HandlerPlanned,
   RecoveryPlanned, ExchangePlanned DEF Code

LEMMA PlanInit == Init => PlanInv
<1> SUFFICES ASSUME Init, NEW o \in Orders PROVE Planned(o)
  BY DEF PlanInv
<1>1. /\ pc[o] = [a \in Actors |-> IF a = "rest" THEN "idle" ELSE "off"]
      /\ db[o] = [life |-> "NONE", st |-> "new", xid |-> FALSE]
      /\ ppClient[o] = "none" /\ ppReal[o] = "none" /\ ex[o] = "none"
      /\ chan[o] = {} /\ listen[o] = "none" /\ runs[o] = 0 /\ up = TRUE
  BY DEF Init
<1>2. ~db[o].xid /\ db[o].st = "new" /\ up
  BY <1>1
<1>3. \A a \in Actors : pc[o][a] = IF a = "rest" THEN "idle" ELSE "off"
  BY <1>1
<1> QED
  BY <1>1, <1>2, <1>3 DEF Planned, Untouched, Hidden, ListenerWaits, PushedOnce,
     Migrated, Leftover, Claimed, Accepted, Holds, Actors, Unsaved

LEMMA PlanStep ==
  ASSUME "destroyPlan" \notin Faults
  PROVE  TypeOK /\ PlanInv /\ [Next]_vars => PlanInv'
<1> SUFFICES ASSUME TypeOK, PlanInv, [Next]_vars, NEW p \in Orders
             PROVE  Planned(p)'
  BY DEF PlanInv
<1>0. Planned(p)
  BY DEF PlanInv
<1>1. ASSUME NEW o \in Orders,
             Code(o) \/ Delivery(o) \/ Match(o) \/ CancelEntry(o)
      PROVE  Planned(p)'
  <2>1. CASE p = o
    BY <1>0, <1>1, <2>1, OwnOrder
  <2>2. CASE p # o
    BY <1>0, <1>1, <2>2, OtherOrders, Frame
  <2> QED
    BY <2>1, <2>2
<1>2. CASE System
  BY <1>0, <1>2, SystemPlanned
<1>3. CASE UNCHANGED vars
  <2>1. Same(p)
    BY <1>3 DEF vars, rowVars, exVars, actVars, histVars, sysVars, Same
  <2> QED
    BY <1>0, <2>1, Frame
<1> QED
  BY <1>1, <1>2, <1>3 DEF Next

\* The inductive invariant, as long as a row that was to be destroyed is
\* destroyed.
THEOREM PlanInvariant ==
  ASSUME "destroyPlan" \notin Faults
  PROVE  Spec => [](TypeOK /\ PlanInv)
BY TypeInit, TypeStep, PlanInit, PlanStep, PTL DEF Spec

\* claimProtection lets one handler through, with any orders, crashes and
\* disconnects.
THEOREM ClaimIsExclusive ==
  ASSUME "destroyPlan" \notin Faults
  PROVE  Spec => []ClaimExclusive
<1>1. PlanInv => ClaimExclusive
  BY DEF PlanInv, Planned, Claimed, ClaimExclusive
<1> QED
  BY <1>1, PlanInvariant, PTL

\* One entry order never gets a second take-profit ladder.
THEOREM LadderSentOnce ==
  ASSUME "destroyPlan" \notin Faults
  PROVE  Spec => []LadderOnce
<1>1. PlanInv => LadderOnce
  BY DEF PlanInv, Planned, Claimed, LadderOnce
<1> QED
  BY <1>1, PlanInvariant, PTL

-----------------------------------------------------------------------------
(* The handlers implement the plan of ProtectionPlan *)

\* One order takes one step of the plan, or none.
PlanMove(o) ==
  \/ Phase(o)' = Phase(o) /\ (ex'[o] = "none" <=> ex[o] = "none") /\ runs'[o] = runs[o]
  \/ /\ Phase(o) = "none" /\ Phase(o)' = "planned"
     /\ ex'[o] = ex[o] /\ runs'[o] = runs[o]
  \/ /\ Phase(o) = "planned" /\ Phase(o)' = "none" /\ ex[o] = "none"
     /\ ex'[o] = ex[o] /\ runs'[o] = runs[o]
  \/ /\ Phase(o)' = Phase(o) /\ ex[o] = "none" /\ ex'[o] # "none"
     /\ runs'[o] = runs[o]
  \/ /\ Phase(o) = "planned" /\ Phase(o)' = "claimed" /\ ex[o] # "none"
     /\ ex'[o] = ex[o] /\ runs'[o] = runs[o]
  \/ /\ Phase(o) = "claimed" /\ Phase(o)' = "settled"
     /\ ex'[o] = ex[o] /\ runs'[o] = runs[o] + 1

LEMMA RestMoves ==
  ASSUME TypeOK, NEW o \in Orders, Planned(o), "destroyPlan" \notin Faults,
         "lostReply" \notin Faults, Rest(o)
  PROVE  PlanMove(o)
<1> USE AcksAssumption DEF TypeOK, RowTypes, ExTypes, HistTypes, ActTypes, PlanStatus, PlanMove, Phase, Move, rowVars, exVars, actVars, histVars, sysVars
<1>1. CASE CreateOrder(o)
  BY <1>1 DEF CreateOrder
<1>2. CASE PersistPlan(o)
  BY <1>2 DEF PersistPlan, Planned, Untouched
<1>3. CASE SubmitOrder(o)
  BY <1>3 DEF SubmitOrder, Planned, Untouched, PushIf
<1>4. CASE RejectOrder(o)
  BY <1>4 DEF RejectOrder
<1>5. CASE CleanupPlan(o)
  BY <1>5 DEF CleanupPlan, Planned, Accepted, Hidden, Unsaved
<1>6. CASE SaveFailed(o)
  BY <1>6 DEF SaveFailed
<1>7. CASE MigrateCreate(o)
  BY <1>7 DEF MigrateCreate, Planned, Hidden, Unsaved, Leftover
<1>8. CASE MigrateDestroy(o)
  BY <1>8 DEF MigrateDestroy, Planned, Migrated
<1>9. CASE SaveOrder(o)
  BY <1>9 DEF SaveOrder
<1>10. CASE PostFillGuard(o)
  BY <1>10 DEF PostFillGuard
<1>11. CASE PostFillReject(o)
  BY <1>11 DEF PostFillReject
<1>12. CASE ApplyLifecycle(o)
  BY <1>12 DEF ApplyLifecycle
<1> QED
  BY <1>1, <1>2, <1>3, <1>4, <1>5, <1>6, <1>7, <1>8, <1>9, <1>10, <1>11, <1>12 DEF Rest

LEMMA ActorMoves ==
  ASSUME TypeOK, NEW o \in Orders, Planned(o), "destroyPlan" \notin Faults,
         "lostReply" \notin Faults, NEW a \in Actors,
         Waiting(o, a) \/ Protecting(o, a) \/ OrchSave(o, a) \/ Recovering(o, a)
  PROVE  PlanMove(o)
<1> USE AcksAssumption DEF TypeOK, RowTypes, ExTypes, HistTypes, ActTypes, PlanStatus, PlanMove, Phase, Move, rowVars, exVars, actVars, histVars, sysVars
<1>1. CASE RegisterListener(o, a)
  BY <1>1 DEF RegisterListener
<1>2. CASE Precheck(o, a)
  BY <1>2 DEF Precheck
<1>3. CASE ExpireWait(o, a)
  BY <1>3 DEF ExpireWait
<1>4. CASE FinalQuery(o, a)
  BY <1>4 DEF FinalQuery
<1>5. CASE Claim(o, a)
  BY <1>5 DEF Claim, Planned, Claimed, Accepted
<1>6. CASE PlaceTps(o, a)
  <2>1. ppReal[o] = "CLAIMED" /\ runs[o] = 0 /\ ppReal' = ppReal /\ ex' = ex
    BY <1>6 DEF PlaceTps, Planned, Claimed, Holds
  <2>2. runs'[o] = 1
    BY <1>6, <2>1 DEF PlaceTps
  <2>a. ~(runs[o] > 0) /\ runs'[o] > 0
    BY <2>1, <2>2
  <2>3. Phase(o) = "claimed"
    BY <2>1, <2>a
  <2>4. Phase(o)' = "settled"
    BY <2>a
  <2> QED
    BY <2>1, <2>2, <2>3, <2>4
<1>7. CASE MarkCompleted(o, a)
  BY <1>7 DEF MarkCompleted, Planned, Claimed
<1>8. CASE OrchSave(o, a)
  BY <1>8 DEF OrchSave
<1>9. CASE Query(o, a)
  BY <1>9 DEF Query
<1>10. CASE QueryGone(o, a)
  BY <1>10 DEF QueryGone
<1>11. CASE RecSave(o, a)
  BY <1>11 DEF RecSave
<1> QED
  BY <1>1, <1>2, <1>3, <1>4, <1>5, <1>6, <1>7, <1>8, <1>9, <1>10, <1>11 DEF Waiting, Protecting, Recovering

LEMMA HandlerMoves ==
  ASSUME TypeOK, NEW o \in Orders, Planned(o), "destroyPlan" \notin Faults,
         "lostReply" \notin Faults, Handler(o) \/ Delivery(o) \/ Match(o) \/ CancelEntry(o)
  PROVE  PlanMove(o)
<1> USE AcksAssumption DEF TypeOK, RowTypes, ExTypes, HistTypes, ActTypes, PlanStatus, PlanMove, Phase, Move, rowVars, exVars, actVars, histVars, sysVars
<1>1. CASE WsFind(o)
  BY <1>1 DEF WsFind
<1>2. CASE WsSaveOpen(o)
  BY <1>2 DEF WsSaveOpen
<1>3. CASE WsLookup(o)
  BY <1>3 DEF WsLookup
<1>4. CASE WsAdopt(o)
  BY <1>4 DEF WsAdopt, Planned, Leftover
<1>5. CASE WsDropClient(o)
  BY <1>5 DEF WsDropClient, Planned, Leftover, Hidden
<1>6. CASE WsCas(o)
  BY <1>6 DEF WsCas
<1>7. CASE WsFindCancelled(o)
  BY <1>7 DEF WsFindCancelled
<1>8. CASE WsSaveClosed(o)
  BY <1>8 DEF WsSaveClosed
<1>9. CASE DeliverPartial(o)
  BY <1>9 DEF DeliverPartial
<1>10. CASE DeliverFinished(o)
  BY <1>10 DEF DeliverFinished
<1>11. CASE Match(o)
  BY <1>11 DEF Match, PushIf
<1>12. CASE CancelEntry(o)
  BY <1>12 DEF CancelEntry, PushIf
<1> QED
  BY <1>1, <1>2, <1>3, <1>4, <1>5, <1>6, <1>7, <1>8, <1>9, <1>10, <1>11, <1>12 DEF Handler, Delivery

\* What PlanMove says of one order is a step of ProtectionPlan.
LEMMA PlanLift ==
  ASSUME TypeOK, TypeOK', NEW o \in Orders, PlanMove(o),
         \A p \in Orders : p # o => Same(p)
  PROVE  [Plan!Next]_(Plan!vars)
<1> DEFINE ph == [p \in Orders |-> Phase(p)]
           lv == [p \in Orders |-> ex[p] # "none"]
<1>1. \A p \in Orders : p # o => /\ Phase(p)' = Phase(p) /\ ex'[p] = ex[p]
                                 /\ runs'[p] = runs[p]
  BY DEF Same, Phase
<1>2. /\ ph' = [ph EXCEPT ![o] = Phase(o)']
      /\ lv' = [lv EXCEPT ![o] = ex'[o] # "none"]
      /\ runs' = [runs EXCEPT ![o] = runs'[o]]
  <2>1. ph' = [ph EXCEPT ![o] = Phase(o)']
    BY <1>1
  <2>2. lv' = [lv EXCEPT ![o] = ex'[o] # "none"]
    BY <1>1
  <2>3. runs' = [runs EXCEPT ![o] = runs'[o]]
    BY <1>1 DEF TypeOK, HistTypes
  <2> QED
    BY <2>1, <2>2, <2>3
<1>3. \A p \in Orders : /\ ph[p] = Phase(p) /\ (lv[p] <=> ex[p] # "none")
  OBVIOUS
<1>4. ph \in [Orders -> {"none", "planned", "claimed", "settled"}]
  BY DEF Phase
<1> USE DEF Plan!Next, Plan!Plan, Plan!Withdraw, Plan!Accept, Plan!Claim,
        Plan!Send, Plan!Step, Plan!vars
<1>5. CASE Phase(o)' = Phase(o) /\ (ex'[o] = "none" <=> ex[o] = "none") /\ runs'[o] = runs[o]
  <2>a. \A p \in Orders : Phase(p)' = Phase(p)
    BY <1>1, <1>5
  <2>b. ph' = ph
    BY <2>a, Zenon
  <2>c. runs' = runs
    BY <1>2, <1>5 DEF TypeOK, HistTypes
  <2>1. ph' = ph /\ runs' = runs
    BY <2>b, <2>c
  <2>2. lv' = lv
    BY <1>1, <1>5
  <2> QED
    BY <2>1, <2>2
<1>6. CASE /\ Phase(o) = "none" /\ Phase(o)' = "planned"
           /\ ex'[o] = ex[o] /\ runs'[o] = runs[o]
  <2>1. lv' = lv /\ runs' = runs
    BY <1>1, <1>2, <1>6 DEF TypeOK, HistTypes
  <2> QED
    BY <1>2, <1>3, <1>6, <2>1
<1>7. CASE /\ Phase(o) = "planned" /\ Phase(o)' = "none" /\ ex[o] = "none"
           /\ ex'[o] = ex[o] /\ runs'[o] = runs[o]
  <2>1. lv' = lv /\ runs' = runs
    BY <1>1, <1>2, <1>7 DEF TypeOK, HistTypes
  <2> QED
    BY <1>2, <1>3, <1>7, <2>1
<1>8. CASE /\ Phase(o)' = Phase(o) /\ ex[o] = "none" /\ ex'[o] # "none"
           /\ runs'[o] = runs[o]
  <2>a. \A p \in Orders : Phase(p)' = Phase(p)
    BY <1>1, <1>8
  <2>b. ph' = ph
    BY <2>a, Zenon
  <2>c. runs' = runs
    BY <1>2, <1>8 DEF TypeOK, HistTypes
  <2>1. ph' = ph /\ runs' = runs
    BY <2>b, <2>c
  <2>2. ~lv[o] /\ lv' = [lv EXCEPT ![o] = TRUE]
    BY <1>2, <1>3, <1>8
  <2> QED
    BY <2>1, <2>2
<1>9. CASE /\ Phase(o) = "planned" /\ Phase(o)' = "claimed" /\ ex[o] # "none"
           /\ ex'[o] = ex[o] /\ runs'[o] = runs[o]
  <2>1. lv' = lv /\ runs' = runs
    BY <1>1, <1>2, <1>9 DEF TypeOK, HistTypes
  <2> QED
    BY <1>2, <1>3, <1>9, <2>1
<1>10. CASE /\ Phase(o) = "claimed" /\ Phase(o)' = "settled"
            /\ ex'[o] = ex[o] /\ runs'[o] = runs[o] + 1
  <2>1. lv' = lv
    BY <1>1, <1>10
  <2>2. runs' = [runs EXCEPT ![o] = runs[o] + 1]
    BY <1>2, <1>10
  <2> QED
    BY <1>2, <1>3, <1>10, <2>1, <2>2
<1> QED
  BY <1>5, <1>6, <1>7, <1>8, <1>9, <1>10 DEF PlanMove

LEMMA PlanRefineInit == Init => Plan!Init
<1> SUFFICES ASSUME Init PROVE Plan!Init
  OBVIOUS
<1>1. ASSUME NEW o \in Orders PROVE Phase(o) = "none" /\ ex[o] = "none"
  <2>1. ppClient[o] = "none" /\ ppReal[o] = "none" /\ ex[o] = "none" /\ runs[o] = 0
    BY DEF Init
  <2>2. ~(runs[o] > 0)
    BY <2>1
  <2> QED
    BY <2>1, <2>2 DEF Phase
<1> QED
  BY <1>1 DEF Init, Plan!Init

LEMMA PlanRefineStep ==
  ASSUME "destroyPlan" \notin Faults, "lostReply" \notin Faults
  PROVE  TypeOK /\ PlanInv /\ [Next]_vars => [Plan!Next]_(Plan!vars)
<1> SUFFICES ASSUME TypeOK, PlanInv, [Next]_vars PROVE [Plan!Next]_(Plan!vars)
  OBVIOUS
<1>1. TypeOK'
  BY TypeStep
<1>2. ASSUME NEW o \in Orders,
             Code(o) \/ Delivery(o) \/ Match(o) \/ CancelEntry(o)
      PROVE  [Plan!Next]_(Plan!vars)
  <2>1. PlanMove(o)
    BY <1>2, RestMoves, ActorMoves, HandlerMoves DEF Code, Actors, PlanInv
  <2>2. \A p \in Orders : p # o => Same(p)
    BY <1>2, OtherOrders
  <2> QED
    BY <1>1, <2>1, <2>2, PlanLift
<1>3. CASE System \/ UNCHANGED vars
  <2>1. UNCHANGED <<ppClient, ppReal, ex, runs>>
    BY <1>3 DEF System, Restart, Wire, ReconcileScan, Crash, Disconnect, Reconnect,
       vars, rowVars, exVars, histVars
  <2> QED
    BY <2>1 DEF Plan!vars, Phase
<1> QED
  BY <1>2, <1>3 DEF Next

\* The Order handlers, the websocket and both recoveries implement the
\* claim-once plan: no plan of an accepted order is dropped and no ladder is
\* sent twice, as long as no row survives its destroy and no reply of
\* createOrder is lost.
THEOREM PlanImplemented ==
  ASSUME "destroyPlan" \notin Faults, "lostReply" \notin Faults
  PROVE  Spec => PlanSpec
BY PlanInvariant, PlanRefineInit, PlanRefineStep, PTL DEF Spec, PlanSpec, Plan!Spec

\* What ProtectionPlan says of the ladders: one if the plan is settled, none before.
Settled ==
  /\ runs \in [Orders -> Nat]
  /\ \A o \in Orders : runs[o] = IF Phase(o) = "settled" THEN 1 ELSE 0

LEMMA SettledStep == Settled /\ [Plan!Next]_(Plan!vars) => Settled'
<1> SUFFICES ASSUME Settled, [Plan!Next]_(Plan!vars) PROVE Settled'
  OBVIOUS
<1> DEFINE ph == [p \in Orders |-> Phase(p)]
<1>1. \A p \in Orders : ph[p] = Phase(p) /\ ph'[p] = Phase(p)'
  OBVIOUS
<1>2. CASE UNCHANGED Plan!vars
  <2>1. ph' = ph /\ runs' = runs
    BY <1>2 DEF Plan!vars
  <2> QED
    BY <2>1, <1>1 DEF Settled
<1>3. ASSUME NEW o \in Orders,
             \/ Plan!Plan(o) \/ Plan!Withdraw(o) \/ Plan!Accept(o)
             \/ Plan!Claim(o)
      PROVE  Settled'
  <2>1. runs' = runs
    BY <1>3 DEF Plan!Plan, Plan!Withdraw, Plan!Accept, Plan!Claim
  <2>2. \/ ph' = ph
        \/ \E to \in {"none", "planned", "claimed"} :
             ph[o] \in {"none", "planned"} /\ ph' = [ph EXCEPT ![o] = to]
    BY <1>3 DEF Plan!Plan, Plan!Withdraw, Plan!Accept, Plan!Claim, Plan!Step
  <2>3. \A p \in Orders : (ph'[p] = "settled") <=> (ph[p] = "settled")
    BY <2>2
  <2> QED
    BY <1>1, <2>1, <2>3 DEF Settled
<1>4. ASSUME NEW o \in Orders, Plan!Send(o) PROVE Settled'
  <2>1. /\ ph[o] = "claimed" /\ ph' = [ph EXCEPT ![o] = "settled"]
        /\ runs' = [runs EXCEPT ![o] = @ + 1]
    BY <1>4 DEF Plan!Send, Plan!Step
  <2>2. runs[o] = 0
    BY <1>1, <2>1 DEF Settled
  <2>3. \A p \in Orders : runs'[p] = IF ph'[p] = "settled" THEN 1 ELSE 0
    <3>1. /\ runs \in [Orders -> Nat] /\ DOMAIN ph = Orders
          /\ \A p \in Orders : runs[p] = IF ph[p] = "settled" THEN 1 ELSE 0
      BY <1>1 DEF Settled
    <3> HIDE DEF ph
    <3> QED
      BY <2>1, <2>2, <3>1
  <2>4. runs' \in [Orders -> Nat]
    BY <2>1, <2>2 DEF Settled
  <2> QED
    BY <1>1, <2>3, <2>4 DEF Settled
<1> QED
  BY <1>2, <1>3, <1>4 DEF Plan!Next

\* The abstract plan is enough: whatever handlers implement the table as
\* ProtectionPlan has it, they send the ladder of an order once.
THEOREM PlanSendsOnce == PlanSpec => []LadderOnce
<1>1. Plan!Init => Settled
  <2> SUFFICES ASSUME Plan!Init PROVE Settled
    OBVIOUS
  <2> DEFINE ph == [p \in Orders |-> Phase(p)]
  <2>1. ph = [p \in Orders |-> "none"] /\ runs = [p \in Orders |-> 0]
    BY DEF Plan!Init
  <2>2. \A p \in Orders : Phase(p) = ph[p] /\ ph[p] = "none"
    BY <2>1
  <2> QED
    BY <2>1, <2>2 DEF Settled
<1>2. Settled => LadderOnce
  <2> SUFFICES ASSUME Settled, NEW o \in Orders PROVE runs[o] <= 1
    BY DEF LadderOnce
  <2>1. runs[o] = 0 \/ runs[o] = 1
    BY DEF Settled
  <2> QED
    BY <2>1
<1> QED
  BY <1>1, <1>2, SettledStep, PTL DEF PlanSpec, Plan!Spec

-----------------------------------------------------------------------------
(* What the row may say: PROTECTED, and CLOSED for good *)

\* Nobody remembers or writes a ladder that is not on the exchange.
Sent(o) ==
  mode[o] # "FULL" =>
    /\ \A a \in Actors : mem[o][a].tp = "placed" => ladder[o]
    /\ db[o].life = "PROTECTED" => ladder[o]

\* Until the exchange id is saved the order is that of the REST path alone.
Secret(o) ==
  /\ pc[o]["rest"] \in Unsaved => ~db[o].xid
  /\ ~db[o].xid =>
       /\ pc[o]["rest"] \in Unsaved \cup {"done", "dead"}
       /\ pc[o]["ws"] \in {"off", "find", "findCancelled"}
       /\ pc[o]["boot"] = "off" /\ pc[o]["sync"] = "off"
       /\ db[o].st \in {"new", "failed"} /\ listen[o] = "none"
       /\ db[o].life \in {"NONE", "INIT", "FAILED"}
  /\ pc[o]["rest"] \in {"idle", "init", "planned"} => ex[o] = "none" /\ chan[o] = {}

\* What a push says is final, and the handler works on what it was told.
Pushed(o) ==
  /\ "finished" \in chan[o] => ex[o] \in {"filled", "cancelled"}
  /\ "partial" \in chan[o] => ex[o] \in {"partial", "filled"}
  /\ pc[o]["ws"] \in {"findCancelled", "saveClosed"} => ex[o] = "cancelled"
  /\ pc[o]["ws"] \notin {"off", "findCancelled", "saveClosed"} => ex[o] = "filled"

\* The REST path goes on after its wait only with a fill, for a buy order.
WentOn(o) ==
  /\ side[o] = "buy" /\ ack[o] = "open"
  /\ pc[o]["rest"] \in {"guard", "claim", "placing", "placed", "orch", "apply"}
  => ex[o] \in {"partial", "filled"}

\* While process and connection stay up nobody recovers anything, and a row is
\* CLOSED for a cancelled order.
Calm(o) ==
  crashes = 0 /\ drops = 0 =>
    /\ up /\ conn /\ ~resync /\ pc[o]["boot"] = "off" /\ pc[o]["sync"] = "off"
    /\ listen[o] # "boot"
    /\ db[o].life = "CLOSED" => ex[o] = "cancelled"

Truthful(o) == Sent(o) /\ Secret(o) /\ Pushed(o) /\ WentOn(o) /\ Calm(o)
RowInv == \A o \in Orders : Truthful(o)

\* The REST path writes PROTECTED for a ladder that was placed.
LEMMA RestTruthful ==
  ASSUME TypeOK, NEW o \in Orders, Truthful(o), Rest(o)
  PROVE  Truthful(o)'
<1> USE DEF TypeOK, Move, RowTypes, ExTypes, ActTypes, HistTypes, rowVars, exVars, actVars, histVars, sysVars
<1> USE DEF Truthful, Actors, Unsaved
<1> USE AcksAssumption
<1>1. CASE CreateOrder(o)
  BY <1>1 DEF CreateOrder, Sent, Secret, Pushed, WentOn, Calm
<1>2. CASE PersistPlan(o)
  BY <1>2 DEF PersistPlan, Sent, Secret, Pushed, WentOn, Calm
<1>3. CASE SubmitOrder(o)
  BY <1>3 DEF SubmitOrder, PushIf, Sent, Secret, Pushed, WentOn, Calm
<1>4. CASE RejectOrder(o)
  BY <1>4 DEF RejectOrder, Sent, Secret, Pushed, WentOn, Calm
<1>5. CASE CleanupPlan(o)
  BY <1>5 DEF CleanupPlan, Sent, Secret, Pushed, WentOn, Calm
<1>6. CASE SaveFailed(o)
  BY <1>6 DEF SaveFailed, Sent, Secret, Pushed, WentOn, Calm
<1>7. CASE MigrateCreate(o)
  BY <1>7 DEF MigrateCreate, Sent, Secret, Pushed, WentOn, Calm
<1>8. CASE MigrateDestroy(o)
  BY <1>8 DEF MigrateDestroy, Sent, Secret, Pushed, WentOn, Calm
<1>9. CASE SaveOrder(o)
  BY <1>9 DEF SaveOrder, Entering, PostFill, Sent, Secret, Pushed, WentOn, Calm
<1>10. CASE PostFillGuard(o)
  BY <1>10 DEF PostFillGuard, PostFill, Sent, Secret, Pushed, WentOn, Calm
<1>11. CASE PostFillReject(o)
  BY <1>11 DEF PostFillReject, SetLife, Sent, Secret, Pushed, WentOn, Calm
<1>12. CASE ApplyLifecycle(o)
  BY <1>12 DEF ApplyLifecycle, SetLife, Outcome, Sent, Secret, Pushed, WentOn, Calm
<1> QED
  BY <1>1, <1>2, <1>3, <1>4, <1>5, <1>6, <1>7, <1>8, <1>9, <1>10, <1>11, <1>12 DEF Rest

\* A wait ends with a fill only if there is one, for a buy order.
LEMMA WaitTruthful ==
  ASSUME TypeOK, NEW o \in Orders, Truthful(o), NEW a \in {"rest", "boot"},
         Waiting(o, a)
  PROVE  Truthful(o)'
<1> USE DEF TypeOK, Move, RowTypes, ExTypes, ActTypes, HistTypes, rowVars, exVars, actVars, histVars, sysVars
<1> USE DEF Truthful, Actors, Unsaved
<1>1. CASE RegisterListener(o, a)
  BY <1>1 DEF RegisterListener, Sent, Secret, Pushed, WentOn, Calm
<1>2. CASE Precheck(o, a)
  BY <1>2 DEF Precheck, OnFilled, PrecheckFilled, Sent, Secret, Pushed, WentOn, Calm
<1>3. CASE ExpireWait(o, a)
  BY <1>3 DEF ExpireWait, Sent, Secret, Pushed, WentOn, Calm
<1>4. CASE FinalQuery(o, a)
  BY <1>4 DEF FinalQuery, OnFilled, OnCancelled, PrecheckFilled, Sent, Secret, Pushed, WentOn, Calm
<1> QED
  BY <1>1, <1>2, <1>3, <1>4 DEF Waiting

\* A claim changes what its actor remembers of the claim, nothing else.
LEMMA ClaimMemory ==
  ASSUME TypeOK, NEW o \in Orders, NEW a \in Actors, Claim(o, a)
  PROVE  /\ \A b \in Actors : mem'[o][b].tp = mem[o][b].tp /\ (b # a => mem'[o][b] = mem[o][b])
         /\ mem'[o][a].claimed = IF pc'[o][a] = "placing" THEN "yes" ELSE "no"
<1>1. /\ mem \in [Orders -> [Actors -> Memory]] /\ pc[o] \in [Actors -> Labels]
      /\ pc \in [Orders -> [Actors -> Labels]]
  BY DEF TypeOK, ActTypes
<1>2. \A m \in Memory : \A c \in {"yes", "no"} :
        [m EXCEPT !.claimed = c].tp = m.tp /\ [m EXCEPT !.claimed = c].claimed = c
  BY DEF Memory
<1>3. \/ /\ mem' = [mem EXCEPT ![o][a].claimed = "yes"] /\ pc'[o][a] = "placing"
      \/ /\ mem' = [mem EXCEPT ![o][a].claimed = "no"] /\ pc'[o][a] # "placing"
  BY <1>1 DEF Claim, Move, AfterPipeline
<1>4. PICK c \in {"yes", "no"} :
        /\ mem' = [mem EXCEPT ![o][a] = [mem[o][a] EXCEPT !.claimed = c]]
        /\ c = IF pc'[o][a] = "placing" THEN "yes" ELSE "no"
  BY <1>3
<1>5. /\ mem'[o][a] = [mem[o][a] EXCEPT !.claimed = c]
      /\ \A b \in Actors : b # a => mem'[o][b] = mem[o][b]
  BY <1>1, <1>4
<1> QED
  BY <1>1, <1>2, <1>4, <1>5

\* The pipeline remembers a ladder exactly when it placed one.
LEMMA PipelineTruthful ==
  ASSUME TypeOK, NEW o \in Orders, Truthful(o), NEW a \in Actors,
         Protecting(o, a)
  PROVE  Truthful(o)'
<1> USE DEF TypeOK, Move, RowTypes, ExTypes, ActTypes, HistTypes, rowVars, exVars, actVars, histVars, sysVars
<1> USE DEF Truthful, Actors, Unsaved
<1>1. CASE Claim(o, a)
  <2>a. \A b \in Actors : mem'[o][b].tp = mem[o][b].tp
    BY <1>1, ClaimMemory
  <2>1. Sent(o)'
    BY <1>1, <2>a DEF Claim, AfterPipeline, Sent
  <2>2. Secret(o)'
    BY <1>1, <2>a DEF Claim, AfterPipeline, Secret
  <2>3. Pushed(o)'
    BY <1>1, <2>a DEF Claim, AfterPipeline, Pushed
  <2>4. WentOn(o)'
    BY <1>1, <2>a DEF Claim, AfterPipeline, WentOn
  <2>5. Calm(o)'
    BY <1>1, <2>a DEF Claim, AfterPipeline, Calm
  <2> QED
    BY <2>1, <2>2, <2>3, <2>4, <2>5
<1>2. CASE PlaceTps(o, a)
  BY <1>2 DEF PlaceTps, Sent, Secret, Pushed, WentOn, Calm
<1>3. CASE MarkCompleted(o, a)
  BY <1>3 DEF MarkCompleted, AfterPipeline, Sent, Secret, Pushed, WentOn, Calm
<1> QED
  BY <1>1, <1>2, <1>3 DEF Protecting

\* The orchestrator saves what the pipeline returned.
LEMMA OrchTruthful ==
  ASSUME TypeOK, NEW o \in Orders, Truthful(o), NEW a \in {"rest", "boot", "sync"},
         OrchSave(o, a)
  PROVE  Truthful(o)'
<1> USE DEF TypeOK, Move, RowTypes, ExTypes, ActTypes, HistTypes, rowVars, exVars, actVars, histVars, sysVars
<1> USE DEF Truthful, Actors, Unsaved
<1>1. CASE OrchSave(o, a)
  <2>a. /\ db'[o].xid = db[o].xid /\ db'[o].st = db[o].st
        /\ db'[o].life = db[o].life \/ db'[o].life \in {"OPEN", Outcome(o, a)}
    BY <1>1 DEF OrchSave, SetLife, Outcome
  <2>1. Sent(o)'
    BY <1>1, <2>a DEF OrchSave, SetLife, Outcome, Sent
  <2>2. Secret(o)'
    BY <1>1, <2>a DEF OrchSave, SetLife, Outcome, Secret
  <2>3. Pushed(o)'
    BY <1>1, <2>a DEF OrchSave, SetLife, Outcome, Pushed
  <2>4. WentOn(o)'
    BY <1>1, <2>a DEF OrchSave, SetLife, Outcome, WentOn
  <2>5. Calm(o)'
    BY <1>1, <2>a DEF OrchSave, SetLife, Outcome, Calm
  <2> QED
    BY <2>1, <2>2, <2>3, <2>4, <2>5
<1> QED
  BY <1>1 DEF OrchSave

\* The websocket handler closes the rows of cancelled orders only.
LEMMA HandlerTruthful ==
  ASSUME TypeOK, NEW o \in Orders, Truthful(o), Handler(o)
  PROVE  Truthful(o)'
<1> USE DEF TypeOK, Move, RowTypes, ExTypes, ActTypes, HistTypes, rowVars, exVars, actVars, histVars, sysVars
<1> USE DEF Truthful, Actors, Unsaved
<1>1. CASE WsFind(o)
  BY <1>1 DEF WsFind, Entering, Sent, Secret, Pushed, WentOn, Calm
<1>2. CASE WsSaveOpen(o)
  <2>a. /\ db'[o].xid = db[o].xid /\ db'[o].st \in {db[o].st, "filled"}
        /\ db'[o].life \in {db[o].life, "OPEN"}
    BY <1>2 DEF WsSaveOpen
  <2>1. Sent(o)'
    BY <1>2, <2>a DEF WsSaveOpen, Sent
  <2>2. Secret(o)'
    BY <1>2, <2>a DEF WsSaveOpen, Secret
  <2>3. Pushed(o)'
    BY <1>2, <2>a DEF WsSaveOpen, Pushed
  <2>4. WentOn(o)'
    BY <1>2, <2>a DEF WsSaveOpen, WentOn
  <2>5. Calm(o)'
    BY <1>2, <2>a DEF WsSaveOpen, Calm
  <2> QED
    BY <2>1, <2>2, <2>3, <2>4, <2>5
<1>3. CASE WsLookup(o)
  BY <1>3 DEF WsLookup, WsProceed, Sent, Secret, Pushed, WentOn, Calm
<1>4. CASE WsAdopt(o)
  BY <1>4 DEF WsAdopt, WsProceed, Sent, Secret, Pushed, WentOn, Calm
<1>5. CASE WsDropClient(o)
  BY <1>5 DEF WsDropClient, WsProceed, Sent, Secret, Pushed, WentOn, Calm
<1>6. CASE WsCas(o)
  <2>a. /\ db'[o].xid = db[o].xid /\ db'[o].st = db[o].st
        /\ db'[o].life = db[o].life
             \/ (db'[o].life = "PROTECTED" /\ mem[o]["ws"].tp = "placed"
                 /\ db[o].life # "CLOSED")
    BY <1>6 DEF WsCas, SetLife, Outcome, Upgradable
  <2>1. Sent(o)'
    BY <1>6, <2>a DEF WsCas, SetLife, Outcome, Sent
  <2>2. Secret(o)'
    BY <1>6, <2>a DEF WsCas, SetLife, Outcome, Secret
  <2>3. Pushed(o)'
    BY <1>6, <2>a DEF WsCas, SetLife, Outcome, Pushed
  <2>4. WentOn(o)'
    BY <1>6, <2>a DEF WsCas, SetLife, Outcome, WentOn
  <2>5. Calm(o)'
    BY <1>6, <2>a DEF WsCas, SetLife, Outcome, Calm
  <2> QED
    BY <2>1, <2>2, <2>3, <2>4, <2>5
<1>7. CASE WsFindCancelled(o)
  BY <1>7 DEF WsFindCancelled, Sent, Secret, Pushed, WentOn, Calm
<1>8. CASE WsSaveClosed(o)
  BY <1>8 DEF WsSaveClosed, Sent, Secret, Pushed, WentOn, Calm
<1> QED
  BY <1>1, <1>2, <1>3, <1>4, <1>5, <1>6, <1>7, <1>8 DEF Handler

\* The recoveries run only after a crash or a disconnect.
LEMMA RecoveryTruthful ==
  ASSUME TypeOK, NEW o \in Orders, Truthful(o), NEW a \in {"boot", "sync"},
         Recovering(o, a)
  PROVE  Truthful(o)'
<1> USE DEF TypeOK, Move, RowTypes, ExTypes, ActTypes, HistTypes, rowVars, exVars, actVars, histVars, sysVars
<1> USE DEF Truthful, Actors, Unsaved
<1>1. CASE Query(o, a)
  BY <1>1 DEF Query, Sent, Secret, Pushed, WentOn, Calm
<1>2. CASE QueryGone(o, a)
  <2>a. /\ db'[o].xid = db[o].xid /\ db'[o].st \in {db[o].st, "cancelled"}
        /\ db'[o].life \in {db[o].life, "CLOSED"}
    BY <1>2 DEF QueryGone
  <2>1. Sent(o)'
    BY <1>2, <2>a DEF QueryGone, Sent
  <2>2. Secret(o)'
    BY <1>2, <2>a DEF QueryGone, Secret
  <2>3. Pushed(o)'
    BY <1>2, <2>a DEF QueryGone, Pushed
  <2>4. WentOn(o)'
    BY <1>2, <2>a DEF QueryGone, WentOn
  <2>5. Calm(o)'
    BY <1>2, <2>a DEF QueryGone, Calm
  <2> QED
    BY <2>1, <2>2, <2>3, <2>4, <2>5
<1>3. CASE RecSave(o, a)
  BY <1>3 DEF RecSave, Entering, PostFill, Sent, Secret, Pushed, WentOn, Calm
<1> QED
  BY <1>1, <1>2, <1>3 DEF Recovering

\* A push is sent when its order fills or ends.
LEMMA ExchangeTruthful ==
  ASSUME TypeOK, NEW o \in Orders, Truthful(o), Delivery(o) \/ Match(o) \/ CancelEntry(o)
  PROVE  Truthful(o)'
<1> USE DEF TypeOK, Move, RowTypes, ExTypes, ActTypes, HistTypes, rowVars, exVars, actVars, histVars, sysVars
<1> USE DEF Truthful, Actors, Unsaved
<1>1. CASE DeliverPartial(o)
  BY <1>1 DEF DeliverPartial, Take, Resolved, OnFilled, Sent, Secret, Pushed, WentOn, Calm
<1>2. CASE DeliverFinished(o)
  BY <1>2 DEF DeliverFinished, Take, Resolved, OnFilled, OnCancelled, Sent, Secret, Pushed, WentOn, Calm
<1>3. CASE Match(o)
  BY <1>3 DEF Match, PushIf, Sent, Secret, Pushed, WentOn, Calm
<1>4. CASE CancelEntry(o)
  BY <1>4 DEF CancelEntry, PushIf, Sent, Secret, Pushed, WentOn, Calm
<1> QED
  BY <1>1, <1>2, <1>3, <1>4 DEF Delivery

\* Crashes, disconnects and reconnects.
LEMMA SystemTruthful ==
  ASSUME TypeOK, NEW o \in Orders, Truthful(o), System
  PROVE  Truthful(o)'
<1> USE DEF TypeOK, Move, RowTypes, ExTypes, ActTypes, HistTypes, rowVars, exVars, actVars, histVars, sysVars
<1> USE DEF Truthful, Actors, Unsaved
<1> USE BoundsAssumption DEF SysTypes
<1>1. CASE Restart
  BY <1>1 DEF Restart, Fetched, Entering, Sent, Secret, Pushed, WentOn, Calm
<1>2. CASE Wire
  BY <1>2 DEF Wire, Sent, Secret, Pushed, WentOn, Calm
<1>3. CASE ReconcileScan
  BY <1>3 DEF ReconcileScan, Fetched, Entering, Sent, Secret, Pushed, WentOn, Calm
<1>4. CASE Crash
  BY <1>4 DEF Crash, Fresh, Sent, Secret, Pushed, WentOn, Calm
<1>5. CASE Disconnect
  BY <1>5 DEF Disconnect, Sent, Secret, Pushed, WentOn, Calm
<1>6. CASE Reconnect
  BY <1>6 DEF Reconnect, Sent, Secret, Pushed, WentOn, Calm
<1> QED
  BY <1>1, <1>2, <1>3, <1>4, <1>5, <1>6 DEF System

LEMMA TruthFrame ==
  ASSUME NEW p \in Orders, Truthful(p), Same(p)
  PROVE  Truthful(p)'
BY DEF Truthful, Same, Sent, Secret, Pushed, WentOn, Calm

LEMMA TruthInit == Init => RowInv
<1> SUFFICES ASSUME Init, NEW o \in Orders PROVE Truthful(o)
  BY DEF RowInv
<1>1. /\ pc[o] = [a \in Actors |-> IF a = "rest" THEN "idle" ELSE "off"]
      /\ db[o] = [life |-> "NONE", st |-> "new", xid |-> FALSE]
      /\ ex[o] = "none" /\ chan[o] = {} /\ listen[o] = "none"
      /\ mem[o] = [a \in Actors |-> Fresh]
      /\ up = TRUE /\ conn = TRUE /\ resync = FALSE
  BY DEF Init
<1>2. ~db[o].xid /\ db[o].st = "new" /\ db[o].life = "NONE" /\ up /\ conn /\ ~resync
  BY <1>1
<1>3. \A a \in Actors : /\ pc[o][a] = IF a = "rest" THEN "idle" ELSE "off"
                        /\ mem[o][a].tp = "missing"
  BY <1>1 DEF Fresh
<1> QED
  BY <1>1, <1>2, <1>3 DEF Truthful, Sent, Secret, Pushed, WentOn, Calm, Actors, Unsaved

LEMMA TruthStep == TypeOK /\ RowInv /\ [Next]_vars => RowInv'
<1> SUFFICES ASSUME TypeOK, RowInv, [Next]_vars, NEW p \in Orders
             PROVE  Truthful(p)'
  BY DEF RowInv
<1>0. Truthful(p)
  BY DEF RowInv
<1>1. ASSUME NEW o \in Orders,
             Code(o) \/ Delivery(o) \/ Match(o) \/ CancelEntry(o)
      PROVE  Truthful(p)'
  <2>1. CASE p = o
    BY <1>0, <1>1, <2>1, RestTruthful, WaitTruthful, PipelineTruthful, OrchTruthful,
       HandlerTruthful, RecoveryTruthful, ExchangeTruthful DEF Code
  <2>2. CASE p # o
    BY <1>0, <1>1, <2>2, OtherOrders, TruthFrame
  <2> QED
    BY <2>1, <2>2
<1>2. CASE System
  BY <1>0, <1>2, SystemTruthful
<1>3. CASE UNCHANGED vars
  <2>1. Same(p)
    BY <1>3 DEF vars, rowVars, exVars, actVars, histVars, sysVars, Same
  <2> QED
    BY <1>0, <2>1, TruthFrame
<1> QED
  BY <1>1, <1>2, <1>3 DEF Next

LEMMA RowInvariant == Spec => [](TypeOK /\ RowInv)
BY TypeInit, TypeStep, TruthInit, TruthStep, PTL DEF Spec

\* PROTECTED is written only for a ladder that stands on the exchange, with any
\* orders, crashes, disconnects and faults (applyLifecycleStatus, the save of
\* the orchestrator and the upgrade of the websocket handler).
THEOREM ProtectedIsBacked == Spec => []ProtectedHasLadder
<1>1. RowInv => ProtectedHasLadder
  BY DEF RowInv, Truthful, Sent, ProtectedHasLadder
<1> QED
  BY <1>1, RowInvariant, PTL

\* A step about the order leaves it CLOSED.
LEMMA ClosedKept ==
  ASSUME TypeOK, NEW o \in Orders, Truthful(o), side[o] = "buy", ack[o] = "open",
         drops = 0, crashes = 0, db[o].life = "CLOSED",
         Code(o) \/ Delivery(o) \/ Match(o) \/ CancelEntry(o)
  PROVE  db'[o].life = "CLOSED"
<1>1. /\ db[o].xid /\ pc[o]["rest"] \notin Unsaved /\ ex[o] = "cancelled"
      /\ pc[o]["boot"] = "off" /\ pc[o]["sync"] = "off"
      /\ pc[o]["ws"] \in {"off", "findCancelled", "saveClosed"}
      /\ pc[o]["rest"] \notin {"guard", "claim", "placing", "placed", "orch", "apply"}
  BY DEF Truthful, Secret, Pushed, WentOn, Calm
<1>2. db \in [Orders -> [life : Lifecycle, st : RowStatus, xid : BOOLEAN]]
  BY DEF TypeOK, RowTypes
<1>3. CASE Rest(o)
  BY <1>1, <1>2, <1>3 DEF Rest, CreateOrder, PersistPlan, SubmitOrder, RejectOrder, CleanupPlan,
     SaveFailed, MigrateCreate, MigrateDestroy, SaveOrder, PostFillGuard, PostFillReject,
     ApplyLifecycle, SetLife, Move, Unsaved
<1>4. CASE Handler(o)
  BY <1>1, <1>2, <1>4 DEF Handler, WsFind, WsSaveOpen, WsLookup, WsAdopt, WsDropClient, WsCas,
     WsFindCancelled, WsSaveClosed, SetLife, Move, rowVars
<1>5. CASE \/ \E a \in {"rest", "boot"} : Waiting(o, a)
           \/ \E a \in Actors : Protecting(o, a)
           \/ Delivery(o) \/ Match(o) \/ CancelEntry(o)
  BY <1>1, <1>5 DEF Waiting, RegisterListener, Precheck, ExpireWait, FinalQuery, Protecting,
     Claim, PlaceTps, MarkCompleted, Delivery, DeliverPartial, DeliverFinished, Match,
     CancelEntry, rowVars
<1>6. CASE \/ \E a \in {"rest", "boot", "sync"} : OrchSave(o, a)
           \/ \E a \in {"boot", "sync"} : Recovering(o, a)
  BY <1>1, <1>6 DEF OrchSave, Recovering, Query, QueryGone, RecSave, Move
<1> QED
  BY <1>3, <1>4, <1>5, <1>6 DEF Code

\* Neither the late answer of the fill wait nor the pipeline revives the row of
\* a buy order that was cancelled while resting, as long as process and
\* websocket stay up.
THEOREM ClosedForGood == Spec => ClosedStaysClosed
<1>1. ASSUME TypeOK, RowInv, [Next]_vars, NEW p \in Orders, side[p] = "buy",
             ack[p] = "open", drops = 0, crashes = 0, db[p].life = "CLOSED"
      PROVE  db'[p].life = "CLOSED"
  <2>1. ASSUME NEW o \in Orders,
               Code(o) \/ Delivery(o) \/ Match(o) \/ CancelEntry(o)
        PROVE  db'[p].life = "CLOSED"
    <3>1. CASE p = o
      BY <1>1, <2>1, <3>1, ClosedKept DEF RowInv
    <3>2. CASE p # o
      BY <1>1, <2>1, <3>2, OtherOrders DEF Same
    <3> QED
      BY <3>1, <3>2
  <2>2. CASE System \/ UNCHANGED vars
    <3>1. db' = db
      BY <2>2 DEF System, Restart, Wire, ReconcileScan, Crash, Disconnect, Reconnect, vars,
         rowVars
    <3> QED
      BY <1>1, <3>1
  <2> QED
    BY <1>1, <2>1, <2>2 DEF Next
<1>2. TypeOK /\ RowInv /\ [Next]_vars =>
        [\A o \in Orders :
           (/\ side[o] = "buy" /\ ack[o] = "open" /\ drops = 0 /\ crashes = 0
            /\ db[o].life = "CLOSED")
              => db'[o].life = "CLOSED"]_vars
  BY <1>1
<1> QED
  BY <1>2, RowInvariant, PTL DEF Spec, ClosedStaysClosed

-----------------------------------------------------------------------------
(* The REST path never takes a row back from PROTECTED *)

\* Before its own pipeline the REST path has claimed nothing; a FULL entry
\* brings its ladder and claims nothing at all.
RestFresh(o) ==
  /\ pc[o]["rest"] \in {"register", "precheck", "wait", "expired", "guard", "reject", "claim"}
       => mem[o]["rest"].claimed = "unset"
  /\ mode[o] = "FULL" =>
       /\ pc[o]["rest"] \notin {"claim", "placing", "placed"}
       /\ pc[o]["rest"] \in {"register", "precheck", "wait", "expired", "guard", "reject",
                              "orch"}
            => mem[o]["rest"].tp = "placed"

\* What it claimed is the one ladder of the order.
RestClaimed(o) ==
  /\ pc[o]["rest"] \in {"placing", "placed"} => mem[o]["rest"].claimed = "yes"
  /\ mode[o] # "FULL" /\ pc[o]["rest"] = "orch" => mem[o]["rest"].claimed # "unset"
  /\ mode[o] = "FULL" /\ pc[o]["rest"] = "orch" => mem[o]["rest"].claimed = "unset"
  /\ pc[o]["rest"] \in {"placed", "orch"} /\ mem[o]["rest"].claimed = "yes" =>
       runs[o] > 0 /\ (ladder[o] => mem[o]["rest"].tp = "placed")
  /\ ladder[o] => runs[o] > 0

\* Without a stop loss only the last step of the REST path writes PROTECTED.
RestLast(o) ==
  mode[o] = "NOSL" /\ db[o].life = "PROTECTED" => pc[o]["rest"] \in {"done", "dead"}

RestOwns(o) == RestFresh(o) /\ RestClaimed(o) /\ RestLast(o)
OwnInv == \A o \in Orders : RestOwns(o)

\* The REST path's own steps.
LEMMA RestOwned ==
  ASSUME TypeOK, NEW o \in Orders, RestOwns(o), Planned(o), Truthful(o),
         Rest(o)
  PROVE  RestOwns(o)'
<1> USE DEF TypeOK, Move, RowTypes, ExTypes, ActTypes, HistTypes, rowVars, exVars, actVars, histVars, sysVars
<1> USE DEF RestOwns, Actors, Unsaved
<1>1. CASE CreateOrder(o)
  BY <1>1 DEF CreateOrder, RestFresh, RestClaimed, RestLast
<1>2. CASE PersistPlan(o)
  BY <1>2 DEF PersistPlan, RestFresh, RestClaimed, RestLast
<1>3. CASE SubmitOrder(o)
  BY <1>3 DEF SubmitOrder, PushIf, RestFresh, RestClaimed, RestLast
<1>4. CASE RejectOrder(o)
  BY <1>4 DEF RejectOrder, RestFresh, RestClaimed, RestLast
<1>5. CASE CleanupPlan(o)
  BY <1>5 DEF CleanupPlan, RestFresh, RestClaimed, RestLast
<1>6. CASE SaveFailed(o)
  BY <1>6 DEF SaveFailed, RestFresh, RestClaimed, RestLast
<1>7. CASE MigrateCreate(o)
  BY <1>7 DEF MigrateCreate, RestFresh, RestClaimed, RestLast
<1>8. CASE MigrateDestroy(o)
  BY <1>8 DEF MigrateDestroy, RestFresh, RestClaimed, RestLast
<1>9. CASE SaveOrder(o)
  BY <1>9 DEF SaveOrder, Entering, PostFill, RestFresh, RestClaimed, RestLast
<1>10. CASE PostFillGuard(o)
  BY <1>10 DEF PostFillGuard, PostFill, RestFresh, RestClaimed, RestLast
<1>11. CASE PostFillReject(o)
  BY <1>11 DEF PostFillReject, SetLife, RestFresh, RestClaimed, RestLast
<1>12. CASE ApplyLifecycle(o)
  BY <1>12 DEF ApplyLifecycle, SetLife, Outcome, RestFresh, RestClaimed, RestLast
<1> QED
  BY <1>1, <1>2, <1>3, <1>4, <1>5, <1>6, <1>7, <1>8, <1>9, <1>10, <1>11, <1>12 DEF Rest

\* The wait changes no memory.
LEMMA WaitOwned ==
  ASSUME TypeOK, NEW o \in Orders, RestOwns(o), Planned(o), Truthful(o),
         NEW a \in {"rest", "boot"}, Waiting(o, a)
  PROVE  RestOwns(o)'
<1> USE DEF TypeOK, Move, RowTypes, ExTypes, ActTypes, HistTypes, rowVars, exVars, actVars, histVars, sysVars
<1> USE DEF RestOwns, Actors, Unsaved
<1>1. CASE RegisterListener(o, a)
  BY <1>1 DEF RegisterListener, RestFresh, RestClaimed, RestLast
<1>2. CASE Precheck(o, a)
  BY <1>2 DEF Precheck, OnFilled, RestFresh, RestClaimed, RestLast
<1>3. CASE ExpireWait(o, a)
  BY <1>3 DEF ExpireWait, RestFresh, RestClaimed, RestLast
<1>4. CASE FinalQuery(o, a)
  BY <1>4 DEF FinalQuery, OnFilled, OnCancelled, RestFresh, RestClaimed, RestLast
<1> QED
  BY <1>1, <1>2, <1>3, <1>4 DEF Waiting

\* Whoever places the ladder is the only one to do so.
LEMMA PipelineOwned ==
  ASSUME TypeOK, NEW o \in Orders, RestOwns(o), Planned(o), Truthful(o),
         NEW a \in Actors, Protecting(o, a)
  PROVE  RestOwns(o)'
<1> USE DEF TypeOK, Move, RowTypes, ExTypes, ActTypes, HistTypes, rowVars, exVars, actVars, histVars, sysVars
<1> USE DEF RestOwns, Actors, Unsaved
<1> USE DEF Planned, Claimed, Holds
<1>1. CASE Claim(o, a)
  <2>1. /\ mem'[o]["rest"].tp = mem[o]["rest"].tp
        /\ a # "rest" => mem'[o]["rest"] = mem[o]["rest"]
        /\ a = "rest" => mem'[o]["rest"].claimed = IF pc'[o]["rest"] = "placing" THEN "yes"
                                                   ELSE "no"
    BY <1>1, ClaimMemory
  <2>2. /\ pc'[o]["rest"] = IF a # "rest" THEN pc[o]["rest"]
                            ELSE IF ppReal[o] = "PENDING" THEN "placing" ELSE "orch"
        /\ a = "rest" => pc[o]["rest"] = "claim"
        /\ UNCHANGED <<mode, db, runs, ladder>>
    BY <1>1 DEF Claim, AfterPipeline
  <2>3. RestFresh(o)'
    BY <2>1, <2>2 DEF RestFresh
  <2>4. RestClaimed(o)'
    BY <2>1, <2>2 DEF RestFresh, RestClaimed
  <2>5. RestLast(o)'
    BY <2>2 DEF RestLast
  <2> QED
    BY <2>3, <2>4, <2>5
<1>2. CASE PlaceTps(o, a)
  BY <1>2 DEF PlaceTps, RestFresh, RestClaimed, RestLast
<1>3. CASE MarkCompleted(o, a)
  BY <1>3 DEF MarkCompleted, AfterPipeline, RestFresh, RestClaimed, RestLast
<1> QED
  BY <1>1, <1>2, <1>3 DEF Protecting

\* The orchestrator's save, by any of its callers.
LEMMA OrchOwned ==
  ASSUME TypeOK, NEW o \in Orders, RestOwns(o), Planned(o), Truthful(o),
         NEW a \in {"rest", "boot", "sync"}, OrchSave(o, a)
  PROVE  RestOwns(o)'
<1> USE DEF TypeOK, Move, RowTypes, ExTypes, ActTypes, HistTypes, rowVars, exVars, actVars, histVars, sysVars
<1> USE DEF RestOwns, Actors, Unsaved
<1>1. CASE OrchSave(o, a)
  BY <1>1 DEF OrchSave, SetLife, Outcome, SlPlaced, RestFresh, RestClaimed, RestLast
<1> QED
  BY <1>1 DEF OrchSave

\* The websocket handler.
LEMMA HandlerOwned ==
  ASSUME TypeOK, NEW o \in Orders, RestOwns(o), Planned(o), Truthful(o),
         Handler(o)
  PROVE  RestOwns(o)'
<1> USE DEF TypeOK, Move, RowTypes, ExTypes, ActTypes, HistTypes, rowVars, exVars, actVars, histVars, sysVars
<1> USE DEF RestOwns, Actors, Unsaved
<1>1. CASE WsFind(o)
  BY <1>1 DEF WsFind, Entering, RestFresh, RestClaimed, RestLast
<1>2. CASE WsSaveOpen(o)
  BY <1>2 DEF WsSaveOpen, RestFresh, RestClaimed, RestLast
<1>3. CASE WsLookup(o)
  BY <1>3 DEF WsLookup, WsProceed, RestFresh, RestClaimed, RestLast
<1>4. CASE WsAdopt(o)
  BY <1>4 DEF WsAdopt, WsProceed, RestFresh, RestClaimed, RestLast
<1>5. CASE WsDropClient(o)
  BY <1>5 DEF WsDropClient, WsProceed, RestFresh, RestClaimed, RestLast
<1>6. CASE WsCas(o)
  BY <1>6 DEF WsCas, SetLife, Outcome, SlPlaced, RestFresh, RestClaimed, RestLast
<1>7. CASE WsFindCancelled(o)
  BY <1>7 DEF WsFindCancelled, RestFresh, RestClaimed, RestLast
<1>8. CASE WsSaveClosed(o)
  BY <1>8 DEF WsSaveClosed, RestFresh, RestClaimed, RestLast
<1> QED
  BY <1>1, <1>2, <1>3, <1>4, <1>5, <1>6, <1>7, <1>8 DEF Handler

\* The recoveries.
LEMMA RecoveryOwned ==
  ASSUME TypeOK, NEW o \in Orders, RestOwns(o), Planned(o), Truthful(o),
         NEW a \in {"boot", "sync"}, Recovering(o, a)
  PROVE  RestOwns(o)'
<1> USE DEF TypeOK, Move, RowTypes, ExTypes, ActTypes, HistTypes, rowVars, exVars, actVars, histVars, sysVars
<1> USE DEF RestOwns, Actors, Unsaved
<1>1. CASE Query(o, a)
  BY <1>1 DEF Query, RestFresh, RestClaimed, RestLast
<1>2. CASE QueryGone(o, a)
  BY <1>2 DEF QueryGone, RestFresh, RestClaimed, RestLast
<1>3. CASE RecSave(o, a)
  BY <1>3 DEF RecSave, Entering, PostFill, RestFresh, RestClaimed, RestLast
<1> QED
  BY <1>1, <1>2, <1>3 DEF Recovering

\* A delivery wakes the REST path only while it waits.
LEMMA ExchangeOwned ==
  ASSUME TypeOK, NEW o \in Orders, RestOwns(o), Planned(o), Truthful(o),
         Delivery(o) \/ Match(o) \/ CancelEntry(o)
  PROVE  RestOwns(o)'
<1> USE DEF TypeOK, Move, RowTypes, ExTypes, ActTypes, HistTypes, rowVars, exVars, actVars, histVars, sysVars
<1> USE DEF RestOwns, Actors, Unsaved
<1> USE DEF Planned, ListenerWaits
<1>1. CASE DeliverPartial(o)
  BY <1>1 DEF DeliverPartial, Take, Resolved, OnFilled, RestFresh, RestClaimed, RestLast
<1>2. CASE DeliverFinished(o)
  BY <1>2 DEF DeliverFinished, Take, Resolved, OnFilled, OnCancelled, RestFresh, RestClaimed, RestLast
<1>3. CASE Match(o)
  BY <1>3 DEF Match, PushIf, RestFresh, RestClaimed, RestLast
<1>4. CASE CancelEntry(o)
  BY <1>4 DEF CancelEntry, PushIf, RestFresh, RestClaimed, RestLast
<1> QED
  BY <1>1, <1>2, <1>3, <1>4 DEF Delivery

\* A crash ends the REST path.
LEMMA SystemOwned ==
  ASSUME TypeOK, NEW o \in Orders, RestOwns(o), Planned(o), Truthful(o),
         System
  PROVE  RestOwns(o)'
<1> USE DEF TypeOK, Move, RowTypes, ExTypes, ActTypes, HistTypes, rowVars, exVars, actVars, histVars, sysVars
<1> USE DEF RestOwns, Actors, Unsaved
<1>1. CASE Restart
  BY <1>1 DEF Restart, Fetched, Entering, RestFresh, RestClaimed, RestLast
<1>2. CASE Wire
  BY <1>2 DEF Wire, RestFresh, RestClaimed, RestLast
<1>3. CASE ReconcileScan
  BY <1>3 DEF ReconcileScan, Fetched, Entering, RestFresh, RestClaimed, RestLast
<1>4. CASE Crash
  BY <1>4 DEF Crash, Fresh, RestFresh, RestClaimed, RestLast
<1>5. CASE Disconnect
  BY <1>5 DEF Disconnect, RestFresh, RestClaimed, RestLast
<1>6. CASE Reconnect
  BY <1>6 DEF Reconnect, RestFresh, RestClaimed, RestLast
<1> QED
  BY <1>1, <1>2, <1>3, <1>4, <1>5, <1>6 DEF System

LEMMA OwnFrame ==
  ASSUME NEW p \in Orders, RestOwns(p), Same(p)
  PROVE  RestOwns(p)'
BY DEF RestOwns, Same, RestFresh, RestClaimed, RestLast

LEMMA OwnInit == Init => OwnInv
<1> SUFFICES ASSUME Init, NEW o \in Orders PROVE RestOwns(o)
  BY DEF OwnInv
<1>1. pc[o]["rest"] = "idle" /\ ~ladder[o] /\ db[o].life = "NONE"
  BY DEF Init, Actors
<1> QED
  BY <1>1 DEF RestOwns, RestFresh, RestClaimed, RestLast

LEMMA OwnStep == TypeOK /\ PlanInv /\ RowInv /\ OwnInv /\ [Next]_vars => OwnInv'
<1> SUFFICES ASSUME TypeOK, PlanInv, RowInv, OwnInv, [Next]_vars, NEW p \in Orders
             PROVE  RestOwns(p)'
  BY DEF OwnInv
<1>0. RestOwns(p) /\ Planned(p) /\ Truthful(p)
  BY DEF OwnInv, PlanInv, RowInv
<1>1. ASSUME NEW o \in Orders,
             Code(o) \/ Delivery(o) \/ Match(o) \/ CancelEntry(o)
      PROVE  RestOwns(p)'
  <2>1. CASE p = o
    BY <1>0, <1>1, <2>1, RestOwned, WaitOwned, PipelineOwned, OrchOwned,
       HandlerOwned, RecoveryOwned, ExchangeOwned DEF Code
  <2>2. CASE p # o
    BY <1>0, <1>1, <2>2, OtherOrders, OwnFrame
  <2> QED
    BY <2>1, <2>2
<1>2. CASE System
  BY <1>0, <1>2, SystemOwned
<1>3. CASE UNCHANGED vars
  <2>1. Same(p)
    BY <1>3 DEF vars, rowVars, exVars, actVars, histVars, sysVars, Same
  <2> QED
    BY <1>0, <2>1, OwnFrame
<1> QED
  BY <1>1, <1>2, <1>3 DEF Next

\* The one step of the REST path that could: the save of the orchestrator.  It
\* is dirty only after a claim of its own, and then PROTECTED is its own word.
LEMMA OrchNoDowngrade ==
  ASSUME TypeOK, NEW o \in Orders, RestOwns(o), Truthful(o), OrchSave(o, "rest"),
         db[o].life = "PROTECTED"
  PROVE  db'[o].life = "PROTECTED"
<1> DEFINE m == mem[o]["rest"]
<1>1. /\ pc[o]["rest"] = "orch" /\ mode[o] \in ModeKinds
      /\ db \in [Orders -> [life : Lifecycle, st : RowStatus, xid : BOOLEAN]]
      /\ m.claimed \in {"yes", "no", "unset"}
  BY ModesAssumption DEF TypeOK, OrchSave, Move, ModeTypes, RowTypes, ActTypes, Memory, Actors
<1>2. mode[o] # "NOSL"
  BY <1>1 DEF RestOwns, RestLast
<1>3. ASSUME m.claimed # "no"
      PROVE  m.tp = "placed"
  BY <1>1, <1>2, <1>3 DEF RestOwns, RestFresh, RestClaimed, Truthful, Sent
<1>4. CASE m.claimed = "no"
  BY <1>4 DEF OrchSave
<1>5. CASE m.claimed # "no"
  <2>1. Outcome(o, "rest") = "PROTECTED"
    BY <1>2, <1>3, <1>5 DEF Outcome, SlPlaced
  <2> QED
    BY <1>1, <2>1 DEF OrchSave, SetLife
<1> QED
  BY <1>4, <1>5

\* What a step about the order does to a PROTECTED row, if it is one of REST.
LEMMA RestKeepsProtected ==
  ASSUME TypeOK, NEW o \in Orders, RestOwns(o), Truthful(o), db[o].life = "PROTECTED",
         Code(o) \/ Delivery(o) \/ Match(o) \/ CancelEntry(o)
  PROVE  db'[o].life = "PROTECTED" \/ pc'[o]["rest"] = pc[o]["rest"]
<1>1. /\ db[o].xid /\ pc[o]["rest"] \notin Unsaved
      /\ db \in [Orders -> [life : Lifecycle, st : RowStatus, xid : BOOLEAN]]
      /\ pc \in [Orders -> [Actors -> Labels]]
  BY DEF Truthful, Secret, TypeOK, RowTypes, ActTypes
<1>2. CASE Rest(o)
  BY <1>1, <1>2 DEF Rest, CreateOrder, PersistPlan, SubmitOrder, RejectOrder, CleanupPlan,
     SaveFailed, MigrateCreate, MigrateDestroy, SaveOrder, PostFillGuard, PostFillReject,
     ApplyLifecycle, SetLife, Move, Unsaved, Upgradable
<1>3. CASE \/ \E a \in {"rest", "boot"} : Waiting(o, a)
           \/ \E a \in Actors : Protecting(o, a)
           \/ Delivery(o) \/ Match(o) \/ CancelEntry(o)
  BY <1>3 DEF Waiting, RegisterListener, Precheck, ExpireWait, FinalQuery, Protecting,
     Claim, PlaceTps, MarkCompleted, Delivery, DeliverPartial, DeliverFinished, Match,
     CancelEntry, rowVars
<1>4. CASE OrchSave(o, "rest")
  BY <1>4, OrchNoDowngrade
<1>5. CASE \/ Handler(o) \/ \E a \in {"boot", "sync"} : OrchSave(o, a) \/ Recovering(o, a)
  BY <1>1, <1>5 DEF Handler, WsFind, WsSaveOpen, WsLookup, WsAdopt, WsDropClient, WsCas,
     WsFindCancelled, WsSaveClosed, OrchSave, Recovering, Query, QueryGone, RecSave, Move, Actors
<1> QED
  BY <1>2, <1>3, <1>4, <1>5 DEF Code

\* handlePostFill keeps what its comment says: whatever it read last, a step of
\* the REST path never takes PROTECTED back, as long as a plan that was to be
\* destroyed is destroyed.
THEOREM RestLeavesProtected ==
  ASSUME "destroyPlan" \notin Faults
  PROVE  Spec => RestNeverDowngrades
<1>1. ASSUME TypeOK, OwnInv, RowInv, [Next]_vars, NEW p \in Orders,
             db[p].life = "PROTECTED", db'[p].life \in Upgradable
      PROVE  pc'[p]["rest"] = pc[p]["rest"]
  <2>0. db'[p].life # "PROTECTED"
    BY <1>1 DEF Upgradable
  <2>1. ASSUME NEW o \in Orders,
               Code(o) \/ Delivery(o) \/ Match(o) \/ CancelEntry(o)
        PROVE  pc'[p]["rest"] = pc[p]["rest"]
    <3>1. CASE p = o
      BY <1>1, <2>0, <2>1, <3>1, RestKeepsProtected DEF RowInv, OwnInv
    <3>2. CASE p # o
      BY <1>1, <2>1, <3>2, OtherOrders DEF Same
    <3> QED
      BY <3>1, <3>2
  <2>2. CASE System \/ UNCHANGED vars
    <3>1. db' = db
      BY <2>2 DEF System, Restart, Wire, ReconcileScan, Crash, Disconnect, Reconnect, vars,
         rowVars
    <3> QED
      BY <1>1, <2>0, <3>1
  <2> QED
    BY <1>1, <2>1, <2>2 DEF Next
<1>2. TypeOK /\ OwnInv /\ RowInv /\ [Next]_vars =>
        [\A o \in Orders :
           (db[o].life = "PROTECTED" /\ db'[o].life \in Upgradable)
              => pc'[o]["rest"] = pc[o]["rest"]]_vars
  BY <1>1
<1>3. Spec => [](TypeOK /\ PlanInv /\ RowInv /\ OwnInv)
  BY TypeInit, TypeStep, PlanInit, PlanStep, TruthInit, TruthStep, OwnInit, OwnStep, PTL
     DEF Spec
<1> QED
  BY <1>2, <1>3, PTL DEF Spec, RestNeverDowngrades

=============================================================================
