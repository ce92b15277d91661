------------------------------- MODULE CfdLegs -------------------------------
(***************************************************************************)
(* A group of legs on Gate TradFi (CFD): handleCfdOpen writes the rows and *)
(* submits the legs, placeOrder rolls back what it placed when one fails,  *)
(* the pollers and the startup reconciliation follow orders and positions, *)
(* and NoStopLossMonitor watches the rows.  A filled leg is a position of  *)
(* its own with the number of its order; position 0 is an older one of the *)
(* same symbol.                                                            *)
(***************************************************************************)
EXTENDS Integers, FiniteSets, FiniteSetsExt

CONSTANTS
  LegCount,    \* legs of the group, numbered from 1 in the order of the plan
  Books,       \* volumes of the older position (0: there is none) and the legs
  Groups,      \* the groups: Market or Trigger orders, and whether the id that
               \* createOrder gives is that of the order
  CfdCrashes   \* bound of restarts

ASSUME CfdAssumption ==
  /\ LegCount \in Nat \ {0} /\ Books \subseteq [0..LegCount -> Nat]
  /\ Groups \subseteq {"Market", "Trigger"} \X BOOLEAN /\ CfdCrashes \in Nat

VARIABLES
  kind, named, lots,  \* Market or Trigger; is createOrder's id the order's
  opener,    \* handleCfdOpen and placeOrder: where, at which leg, the matches
  order,     \* the leg's order at the exchange
  qty, sl,   \* open volume and stop loss of each position
  legRow,    \* lifecycleStatus of each leg's Order
  linked,    \* legs whose exchangeOrderId is saved
  legPos, legStatus, group, \* CfdLeg.positionId, CfdLeg.status, CfdLegGroup
  snapshot, closures,       \* CfdPositionPoller: last list, closes under way
  recon,     \* reconcileOnStartup: the step, and the positions it has listed
  absent,    \* monitor entries whose position was absent once
  lost, refused, late, unset, misclosed, mislinked, \* history: what failed
  cfdCrashes

market == <<order, qty, sl>>
legRows == <<legRow, linked, legPos, legStatus, group>>
poller == <<snapshot, closures>>
causes == <<lost, refused, late, unset, misclosed, mislinked>>
fixed  == <<kind, named, lots>>
cfdVars == <<fixed, opener, market, legRows, poller, recon, absent,
             causes, cfdCrashes>>

Legs == 1..LegCount
Old == 0
Positions == {Old} \cup Legs
Nobody == -1
Upgradable == {"INIT", "PENDING", "OPEN"}
Closable == Upgradable \cup {"PROTECTED"}
WatchedStatuses == {"PENDING", "OPEN", "PROTECTED"}

Live == {p \in Positions : qty[p] > 0}
\* The instance is registered once its reconciliation has ended.
Up == recon.step = "idle"
Working(l) == order[l] = "live" \/ qty[l] > 0
Nothing == [p \in Positions |-> 0]
NoMatch == [l \in Legs |-> Nobody]

CfdInit ==
  /\ \E g \in Groups : kind = g[1] /\ named = g[2]
  /\ lots \in Books
  /\ opener = [pc |-> "new", leg |-> 1, match |-> NoMatch]
  /\ order = [l \in Legs |-> "none"]
  /\ qty = [p \in Positions |-> IF p = Old THEN lots[Old] ELSE 0]
  /\ sl = [p \in Positions |-> "none"]
  /\ legRow = [l \in Legs |-> "NONE"] /\ linked = {}
  /\ legPos = [l \in Legs |-> Nobody]
  /\ legStatus = [l \in Legs |-> "pending"] /\ group = "none"
  /\ snapshot = {} /\ closures = {}
  /\ recon = [step |-> "idle", todo |-> Nothing] /\ absent = {}
  /\ lost = {} /\ refused = {} /\ late = {} /\ unset = {}
  /\ misclosed = {} /\ mislinked = {} /\ cfdCrashes = 0

-----------------------------------------------------------------------------
(* handleCfdOpen and GateCFDExchange.placeOrder *)

At(pc) == opener.pc = pc
Leg == opener.leg
GoTo(pc, l) == opener' = [opener EXCEPT !.pc = pc, !.leg = l]
ThenLeg(pc, end) ==
  IF Leg < LegCount THEN GoTo(pc, Leg + 1) ELSE GoTo(end, 1)

\* The rows are written, then the session is asked for: a closed market
\* throws, a ticker that cannot be read lets the order pass.
OpenGroup ==
  /\ At("new") /\ Up
  /\ legRow' = [l \in Legs |-> "INIT"] /\ group' = "pending"
  /\ GoTo("place", 1) \/ GoTo("fail", 1)
  /\ UNCHANGED <<fixed, market, linked, legPos, legStatus, poller,
                 recon, absent, causes, cfdCrashes>>

PlaceLeg ==
  /\ At("place")
  /\ order' = [order EXCEPT ![Leg] = "live"]
  /\ ThenLeg("place", "protect")
  /\ UNCHANGED <<fixed, qty, sl, legRows, poller, recon, absent, causes, cfdCrashes>>

\* createOrder throws: the exchange refused, or took the leg and its answer
\* was lost.
PlaceFails ==
  /\ At("place") /\ GoTo("rollback", 1)
  /\ \/ UNCHANGED <<order, lost>>
     \/ /\ order' = [order EXCEPT ![Leg] = "live"]
        /\ lost' = lost \cup {Leg}
  /\ UNCHANGED <<fixed, qty, sl, legRows, poller, recon, absent,
                 refused, late, unset, misclosed, mislinked, cfdCrashes>>

\* Mutant: a leg is remembered only once the next one was placed.
PlacedShort == {l \in Legs : l + 1 \in Legs /\ order[l + 1] # "none"} \ lost

\* placedOrders: the legs createOrder answered for.
Placed == {l \in Legs : order[l] # "none"} \ lost

\* Market legs: the positions are listed once, and each leg takes the first of
\* its volume; the list is not shortened.  No list, no match.
ListMatches ==
  /\ At("rollback")
  /\ \E m \in [Legs -> Positions \cup {Nobody}] :
       /\ \A l \in Legs :
            IF l \in Placed /\ kind = "Market"
            THEN IF \E p \in Live : qty[p] = lots[l]
                 THEN m[l] \in Live /\ qty[m[l]] = lots[l]
                 ELSE m[l] = Nobody
            ELSE m[l] = Nobody
       /\ \A l, k \in Legs :
            {l, k} \subseteq Placed /\ lots[l] = lots[k] => m[l] = m[k]
       /\ \/ opener' = [pc |-> "undo", leg |-> 1, match |-> m] /\ UNCHANGED refused
          \/ /\ kind = "Market"
             /\ opener' = [pc |-> "undo", leg |-> 1, match |-> NoMatch]
             /\ refused' = Placed
  /\ late' = {l \in Placed : kind = "Market" /\ order[l] = "live"}
  /\ UNCHANGED <<fixed, market, legRows, poller, recon, absent, lost,
                 unset, misclosed, mislinked, cfdCrashes>>

\* A call that fails is only logged.  A Trigger leg is cancelled by the id
\* createOrder gave; a filled order is not.
UndoLeg ==
  /\ At("undo") /\ ThenLeg("undo", "fail")
  /\ LET p == opener.match[Leg]
     IN  \/ p # Nobody /\ qty' = [qty EXCEPT ![p] = 0] /\ UNCHANGED <<order, refused>>
         \/ /\ kind = "Trigger" /\ Leg \in Placed /\ named /\ order[Leg] = "live"
            /\ order' = [order EXCEPT ![Leg] = "cancelled"]
            /\ UNCHANGED <<qty, refused>>
         \/ /\ p # Nobody \/ (kind = "Trigger" /\ Leg \in Placed)
            /\ refused' = refused \cup {Leg} /\ UNCHANGED <<order, qty>>
         \/ /\ p = Nobody /\ (kind = "Market" \/ Leg \notin Placed)
            /\ UNCHANGED <<order, qty, refused>>
  /\ UNCHANGED <<fixed, sl, legRows, poller, recon, absent, lost, late,
                 unset, misclosed, mislinked, cfdCrashes>>

FailGroup ==
  /\ At("fail") /\ GoTo("failed", 1) /\ group' = "failed"
  /\ legRow' = [l \in Legs |->
       IF legRow[l] \in {"INIT", "PENDING"} THEN "FAILED" ELSE legRow[l]]
  /\ UNCHANGED <<fixed, market, linked, legPos, legStatus, poller,
                 recon, absent, causes, cfdCrashes>>

\* A Trigger leg carries its protections; those of a Market leg are set on the
\* position once the order log shows the fill.  No fill in time, or a failed
\* call, is only logged.
Protect ==
  /\ At("protect") /\ ThenLeg("protect", "save")
  /\ \/ kind = "Trigger" /\ UNCHANGED <<sl, unset>>
     \/ /\ kind = "Market" /\ order[Leg] = "filled" /\ UNCHANGED unset
        /\ sl' = IF qty[Leg] > 0 THEN [sl EXCEPT ![Leg] = "ours"] ELSE sl
     \/ kind = "Market" /\ unset' = unset \cup {Leg} /\ UNCHANGED sl
  /\ UNCHANGED <<fixed, order, qty, legRows, poller, recon, absent,
                 lost, refused, late, misclosed, mislinked, cfdCrashes>>

SaveLeg ==
  /\ At("save") /\ GoTo("wait", Leg) /\ linked' = linked \cup {Leg}
  /\ UNCHANGED <<fixed, market, legRow, legPos, legStatus, group,
                 poller, recon, absent, causes, cfdCrashes>>

\* After the last leg the group counts as filled, whatever the waits found.
NextLeg ==
  IF Leg < LegCount THEN GoTo("save", Leg + 1) /\ UNCHANGED group
  ELSE GoTo("done", 1) /\ group' = "filled"

\* CfdOrderPoller finds the order under its number and settles on every final
\* state, a cancelled one too; what it settled on is not looked at.
WaitEnds ==
  /\ At("wait") /\ named /\ order[Leg] \in {"filled", "cancelled"} /\ NextLeg
  /\ IF legRow[Leg] \in {"INIT", "PENDING"}
     THEN /\ legRow' = [legRow EXCEPT ![Leg] = "PROTECTED"]
          /\ legStatus' = [legStatus EXCEPT ![Leg] = "open"]
     ELSE UNCHANGED <<legRow, legStatus>>
  /\ UNCHANGED <<fixed, market, linked, legPos, poller, recon,
                 absent, causes, cfdCrashes>>

\* Only the wait of a Market leg ends by time; the row keeps its status.
WaitTimesOut ==
  /\ At("wait") /\ kind = "Market" /\ NextLeg
  /\ UNCHANGED <<fixed, market, legRow, linked, legPos, legStatus, poller, recon,
                 absent, causes, cfdCrashes>>

-----------------------------------------------------------------------------
(* The exchange *)

\* Mutant: a Trigger leg is sent without protections.
ProtectionOfBare(l) == "none"

\* The protections a leg is filled with.
ProtectionOf(l) == IF kind = "Trigger" THEN "ours" ELSE "none"

FillLeg(l) ==
  /\ order[l] = "live"
  /\ order' = [order EXCEPT ![l] = "filled"]
  /\ qty' = [qty EXCEPT ![l] = lots[l]]
  /\ sl' = [sl EXCEPT ![l] = ProtectionOf(l)]
  /\ UNCHANGED <<fixed, opener, legRows, poller, recon, absent, causes,
                 cfdCrashes>>

\* A user cancels a resting order.
Withdraw(l) ==
  /\ order[l] = "live" /\ kind = "Trigger"
  /\ order' = [order EXCEPT ![l] = "cancelled"]
  /\ UNCHANGED <<fixed, opener, qty, sl, legRows, poller, recon,
                 absent, causes, cfdCrashes>>

\* Take profit, stop loss, liquidation or a user ends a position.
EndPosition(p) ==
  /\ qty[p] > 0 /\ qty' = [qty EXCEPT ![p] = 0]
  /\ UNCHANGED <<fixed, opener, order, sl, legRows, poller, recon,
                 absent, causes, cfdCrashes>>

\* updateStopLoss goes through every position of the symbol and may fail on
\* the way.
UpdateStopLoss ==
  /\ At("done") /\ Up
  /\ \E S \in SUBSET Live \ {{}} :
       sl' = [p \in Positions |-> IF p \in S THEN "moved" ELSE sl[p]]
  /\ UNCHANGED <<fixed, opener, order, qty, legRows, poller, recon,
                 absent, causes, cfdCrashes>>

-----------------------------------------------------------------------------
(* CfdPositionPoller and CfdPersistenceHandler *)

Least(S) == IF S = {} THEN Nobody ELSE Min(S)
LegOf(p) == Least({l \in Legs : legPos[l] = p})

\* Mutant: a list that cannot be read is taken for an empty one.
PollUnread ==
  /\ snapshot' \in {Live, {}} /\ snapshot' # snapshot
  /\ closures' = closures \cup (snapshot \ snapshot')
  /\ UNCHANGED <<fixed, opener, market, legRows, recon, absent, causes,
                 cfdCrashes>>

\* A new position is announced; it has no leg yet, for positionId is only
\* written by the reconciliation.
Poll ==
  /\ snapshot # Live /\ snapshot' = Live
  /\ closures' = closures \cup (snapshot \ Live)
  /\ UNCHANGED <<fixed, opener, market, legRows, recon, absent, causes,
                 cfdCrashes>>

CloseRow(l) ==
  /\ legRow' = IF legRow[l] \in Closable THEN [legRow EXCEPT ![l] = "CLOSED"]
                                         ELSE legRow
  /\ legStatus' = [legStatus EXCEPT ![l] = "closed"]

\* After its query of the history.
PositionClosed(p) ==
  /\ p \in closures /\ closures' = closures \ {p}
  /\ IF LegOf(p) # Nobody THEN CloseRow(LegOf(p)) ELSE UNCHANGED <<legRow, legStatus>>
  /\ UNCHANGED <<fixed, opener, market, linked, legPos, group, snapshot,
                 recon, absent, causes, cfdCrashes>>

Reconcile(step, todo) == recon' = [step |-> step, todo |-> todo]
Known(l) == named /\ l \in linked

\* Listed orders; an error of any step ends the reconciliation.
ReconcileOpenOrders ==
  /\ recon.step = "orders"
  /\ \/ Reconcile("idle", Nothing) /\ UNCHANGED legRow
     \/ /\ Reconcile("positions", qty)
        /\ legRow' = [l \in Legs |->
             IF Known(l) /\ order[l] = "live" /\ legRow[l] = "INIT" THEN "PENDING"
             ELSE legRow[l]]
  /\ UNCHANGED <<fixed, opener, market, linked, legPos, legStatus,
                 group, poller, absent, causes, cfdCrashes>>

\* findLegByFuzzyMatch: the first leg not closed with the position's volume;
\* the prices of the legs are the same.
Alike(volume) ==
  Least({l \in Legs : /\ legStatus[l] \in {"pending", "open"}
                      /\ legRow[l] # "NONE" /\ lots[l] = volume})

\* A position without protections counts as protected; one with others not.
Target(p) == IF sl[p] = "moved" THEN "OPEN" ELSE "PROTECTED"

\* A position that ended since it was listed is matched like the others: its
\* volume is that of the list.
ReconcilePosition(p) ==
  /\ recon.step = "positions" /\ recon.todo[p] > 0
  /\ Reconcile("positions", [recon.todo EXCEPT ![p] = 0])
  /\ LET l == IF LegOf(p) # Nobody THEN LegOf(p) ELSE Alike(recon.todo[p])
     IN  IF l = Nobody THEN UNCHANGED <<legRow, legPos, legStatus, mislinked>>
         ELSE /\ legRow' = IF legRow[l] \in Upgradable
                           THEN [legRow EXCEPT ![l] = Target(p)] ELSE legRow
              /\ legPos' = [legPos EXCEPT ![l] = p]
              /\ legStatus' = [legStatus EXCEPT ![l] = "open"]
              /\ mislinked' = IF p = l THEN mislinked ELSE mislinked \cup {l}
  /\ UNCHANGED <<fixed, opener, market, linked, group, poller, absent,
                 lost, refused, late, unset, misclosed, cfdCrashes>>

PositionsReconciled ==
  /\ recon.step = "positions" /\ recon.todo = Nothing /\ Reconcile("history", Nothing)
  /\ UNCHANGED <<fixed, opener, market, legRows, poller, absent, causes,
                 cfdCrashes>>

\* The history holds filled orders too: their rows are closed, whether or not
\* the position is live.
InHistory(l) == Known(l) /\ order[l] \in {"filled", "cancelled"}

ReconcileOrderHistory ==
  /\ recon.step = "history" /\ Reconcile("idle", Nothing)
  /\ LET ended == {l \in Legs : InHistory(l) /\ legRow[l] \in Closable}
     IN  /\ legRow' = [l \in Legs |-> IF l \in ended THEN "CLOSED" ELSE legRow[l]]
         /\ legStatus' = [l \in Legs |-> IF l \in ended THEN "closed"
                                                        ELSE legStatus[l]]
         /\ misclosed' = misclosed \cup {l \in ended : qty[l] > 0}
  /\ UNCHANGED <<fixed, opener, market, linked, legPos, group, poller,
                 absent, lost, refused, late, unset, mislinked, cfdCrashes>>

Again ==
  /\ cfdCrashes < CfdCrashes /\ cfdCrashes' = cfdCrashes + 1
  /\ Reconcile("orders", Nothing) /\ snapshot' = {} /\ closures' = {}
  /\ UNCHANGED <<fixed, market, legRows, lost, refused, late, misclosed,
                 mislinked>>

\* Everything in memory is gone, the open that was under way too.
Restart ==
  /\ Again /\ absent' = {}
  /\ opener' = [opener EXCEPT !.pc = IF @ \in {"new", "done", "failed"} THEN @
                                     ELSE "dead"]
  /\ unset' = unset \cup {l \in Legs : kind = "Market" /\ order[l] # "none"
                                         /\ sl[l] = "none"}

\* The instance is stopped and made anew after a change of its settings: an
\* open goes on with the old object, but what waits at its stopped poller
\* without a time limit waits for ever.
Reload ==
  /\ Again /\ Up /\ UNCHANGED <<absent, unset>>
  /\ opener' = [opener EXCEPT !.pc = IF @ = "wait" /\ kind = "Trigger" THEN "dead"
                                     ELSE @]

-----------------------------------------------------------------------------
(* NoStopLossMonitor, per row; the position it sees is that of the symbol *)

Watched(l) == legRow[l] \in WatchedStatuses

\* Mutant: the first absence is forgotten at once.
ConfirmNever(l) == absent' = absent /\ UNCHANGED legRow

\* A second absence, after the confirmation time, closes the row.
Confirm(l) ==
  IF l \in absent
  THEN legRow' = [legRow EXCEPT ![l] = "CLOSED"] /\ absent' = absent \ {l}
  ELSE absent' = absent \cup {l} /\ UNCHANGED legRow

WatchAbsent(l) ==
  /\ Up /\ Watched(l) /\ Live = {} /\ legRow[l] # "PENDING" /\ Confirm(l)
  /\ UNCHANGED <<fixed, opener, market, linked, legPos, legStatus,
                 group, poller, recon, causes, cfdCrashes>>

\* A stop loss of a position is no price order: it is missing to the monitor,
\* which closes after its confirmations.  handleClose cancels the resting
\* orders of the active rows and closes at most the first position listed; no
\* row is written.  Without an active row but with a closed one it closes that
\* position whole; without both it cancels an entry still waiting.
Active == {l \in Legs : legRow[l] \in {"OPEN", "PROTECTED"}}
Tracked == MapThenSumSet(LAMBDA k : lots[k], Active)

Amount(p) == IF Active = {} THEN qty[p] ELSE Min({Tracked, qty[p]})

AutoClose(l) ==
  /\ Up /\ Watched(l) /\ Live # {} /\ absent' = absent \ {l}
  /\ \/ /\ Active # {} \/ \E k \in Legs : legRow[k] = "CLOSED"
        /\ \E p \in Live : qty' = [qty EXCEPT ![p] = @ - Amount(p)]
        /\ order' = [k \in Legs |->
             IF k \in Active /\ Known(k) /\ order[k] = "live" THEN "cancelled"
             ELSE order[k]]
        /\ UNCHANGED legRow
     \/ /\ Active = {} /\ \A k \in Legs : legRow[k] # "CLOSED"
        /\ \E k \in Legs :
             /\ legRow[k] \in {"INIT", "PENDING"} /\ Known(k) /\ order[k] = "live"
             /\ order' = [order EXCEPT ![k] = "cancelled"]
             /\ legRow' = [legRow EXCEPT ![k] = "CLOSED"]
        /\ UNCHANGED qty
  /\ UNCHANGED <<fixed, opener, sl, linked, legPos, legStatus, group,
                 poller, recon, causes, cfdCrashes>>

-----------------------------------------------------------------------------

Opening ==
  \/ OpenGroup \/ PlaceLeg \/ PlaceFails \/ ListMatches \/ UndoLeg \/ FailGroup
  \/ Protect \/ SaveLeg \/ WaitEnds \/ WaitTimesOut

CfdNext ==
  \/ Opening \/ UpdateStopLoss \/ Poll \/ Restart \/ Reload
  \/ ReconcileOpenOrders \/ PositionsReconciled \/ ReconcileOrderHistory
  \/ \E l \in Legs : FillLeg(l) \/ Withdraw(l) \/ WatchAbsent(l) \/ AutoClose(l)
  \/ \E p \in Positions :
       EndPosition(p) \/ PositionClosed(p) \/ ReconcilePosition(p)

CfdSpec == CfdInit /\ [][CfdNext]_cfdVars

Reconciling ==
  \/ ReconcileOpenOrders \/ PositionsReconciled \/ ReconcileOrderHistory
  \/ \E p \in Positions : ReconcilePosition(p)

\* The reconciliation goes on and the monitor comes to each row; the exchange
\* owes nothing.
CfdFairness ==
  /\ WF_cfdVars(Reconciling)
  /\ \A l \in Legs : WF_cfdVars(WatchAbsent(l) \/ AutoClose(l))

-----------------------------------------------------------------------------
(* Properties *)

\* Every variable has the values the code can give it.
CfdTypeOK ==
  /\ kind \in {"Market", "Trigger"} /\ named \in BOOLEAN /\ lots \in Books
  /\ opener \in [leg : Legs, match : [Legs -> Positions \cup {Nobody}],
       pc : {"new", "place", "rollback", "undo", "fail", "failed", "protect",
             "save", "wait", "done", "dead"}]
  /\ order \in [Legs -> {"none", "live", "filled", "cancelled"}]
  /\ \A p \in Positions : {qty[p], recon.todo[p]} \subseteq 0..lots[p]
  /\ sl \in [Positions -> {"none", "ours", "moved"}]
  /\ legRow \in [Legs -> {"NONE", "FAILED", "CLOSED"} \cup Closable]
  /\ legPos \in [Legs -> Positions \cup {Nobody}]
  /\ legStatus \in [Legs -> {"pending", "open", "closed"}]
  /\ group \in {"none", "pending", "filled", "failed"}
  /\ \A S \in {linked, absent, lost, refused, late, unset, misclosed,
              mislinked} : S \subseteq Legs
  /\ snapshot \cup closures \subseteq Positions
  /\ recon.step \in {"idle", "orders", "positions", "history"}
  /\ cfdCrashes \in 0..CfdCrashes

\* What a rollback may leave: the answer of the leg was lost, a call of the
\* rollback failed, the leg filled after the list, or it had no longer its
\* volume, or a position of the same volume was closed in its place.
Escaped(l) ==
  \/ l \in lost \cup refused \cup late \/ qty[l] \in 1..(lots[l] - 1)
  \/ opener.match[l] \notin {l, Nobody}

\* After a rollback no other leg works at the exchange.
FailedClean ==
  At("fail") \/ At("failed") => \A l \in Legs : Working(l) => Escaped(l)

\* The live position of a PROTECTED row has a stop loss, except where setting
\* it failed, came too late, was cut by a restart or is still to come, and
\* where the leg escaped the rollback.
ProtectedBacked ==
  \A l \in Legs :
    legRow[l] = "PROTECTED" /\ qty[l] > 0 /\ sl[l] = "none" =>
      \/ l \in unset \/ Escaped(l) \/ opener.pc \in {"place", "rollback", "undo"}
      \/ At("protect") /\ Leg <= l

\* A CLOSED row has nothing left at the exchange, except where the startup
\* took a filled order for a closed position or bound a leg to a position of
\* the same volume.
ClosedGone ==
  \A l \in Legs :
    legRow[l] = "CLOSED" /\ Working(l) => l \in misclosed \cup mislinked

\* An active row does not stay active: its position ends, by the monitor if by
\* nothing else, and the row is closed.
ActiveEnds == \A l \in Legs : l \in Active ~> l \notin Active

=============================================================================
