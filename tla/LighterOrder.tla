----------------------------- MODULE LighterOrder -----------------------------
(***************************************************************************)
(* Entry orders on a Lighter instance: placeOrder keeps the protection     *)
(* plan, LighterNonceManager signs and sends one transaction after the     *)
(* other and journals each, LighterStateReconciler matches events with     *)
(* waiters and journal rows and decides on start whether trading is safe,  *)
(* LighterOrderPersistenceHandler answers fills.  An order is one          *)
(* transaction; its client order index is that of its business key.        *)
(***************************************************************************)
EXTENDS Integers, Sequences, FiniteSets

CONSTANTS
  Txs,        \* transactions, numbered as placed, each the order it places
  MaxFills,   \* bound of orders that fill
  MaxFaults,  \* bound of lost or unreadable answers and lost events
  MaxCrashes  \* bound of restarts

ASSUME LighterAssumption ==
  /\ Txs \subseteq Nat /\ IsFiniteSet(Txs)
  /\ MaxFills \in Nat /\ MaxFaults \in Nat /\ MaxCrashes \in Nat

VARIABLES
  caller,   \* each placeOrder and the handleOpen around it
  plan,     \* PendingProtection of the order
  row,      \* lifecycleStatus; linked once exchangeOrderId is saved
  queue,    \* submissions of the nonce manager, the first is at work
  step,     \* where submitNow is
  next,     \* nextNonceValue, None when it is undefined
  journal,  \* LighterTxJournal rows: status and nonce
  wire,     \* transactions sent and not yet at the exchange
  expect,   \* the nonce the exchange takes next
  fate,     \* what the exchange made of each: none, taken, nonce, refused
  book,     \* the order of a taken one: none, open or filled
  events,   \* order events on their way, one per channel
  txEvents, \* taken transactions whose event is on its way
  handlers, \* fill handlers before their claim
  placing,  \* orders whose plan a handler holds, and has placed
  ladder,   \* how often the protections of each order were placed
  safe,     \* safeToTrade
  past,     \* history: transactions of earlier sessions
  misread,  \* history: transactions an error answer was taken for
  faults, crashes

chain  == <<wire, expect, fate, book>>
fills  == <<events, handlers, placing, ladder>>
sender == <<queue, step, next>>
past_  == <<past, misread, faults, crashes>>
lighterVars ==
  <<caller, plan, row, sender, journal, chain, fills, txEvents, safe, past_>>

None == -1
NoRow == [status |-> "none", nonce |-> None]
Undecided == {"SENT", "ACCEPTED", "UNKNOWN"}
Linked == {"PENDING", "OPEN", "PROTECTED"}

\* Bound of the nonces: no transaction is sent twice.
Nonces == 0..Cardinality(Txs)

Current == Head(queue)
Fault == faults < MaxFaults /\ faults' = faults + 1

LighterInit ==
  /\ caller = [t \in Txs |-> "new"] /\ plan = [t \in Txs |-> "none"]
  /\ row = [t \in Txs |-> "INIT"]
  /\ queue = <<>> /\ step = "idle" /\ next = None
  /\ journal = [t \in Txs |-> NoRow]
  /\ wire = {} /\ expect = 0
  /\ fate = [t \in Txs |-> "none"] /\ book = [t \in Txs |-> "none"]
  /\ events = [t \in Txs |-> 0] /\ txEvents = {}
  /\ handlers = [t \in Txs |-> 0] /\ placing = {} /\ ladder = [t \in Txs |-> 0]
  /\ safe = FALSE /\ past = {} /\ misread = {} /\ faults = 0 /\ crashes = 0

-----------------------------------------------------------------------------
(* LighterExchange.placeOrder, and the part of handleOpen around it *)

\* The plan is kept before the order is submitted.
PlaceOrder(t) ==
  /\ caller[t] = "new" /\ safe /\ \A u \in Txs : u < t => caller[u] # "new"
  /\ caller' = [caller EXCEPT ![t] = "queued"]
  /\ plan' = [plan EXCEPT ![t] = "PENDING"]
  /\ queue' = Append(queue, t)
  /\ UNCHANGED <<row, step, next, journal, chain, fills, txEvents, safe, past_>>

\* An error of the submission: the plan is destroyed, the row is FAILED.
Thrown(t) ==
  /\ caller' = [caller EXCEPT ![t] = "failed"]
  /\ plan' = [plan EXCEPT ![t] = "none"]
  /\ row' = [row EXCEPT ![t] = "FAILED"]

\* handleOpen links the row to the order, whatever has happened meanwhile.
SaveOrder(t) ==
  /\ caller[t] = "accepted"
  /\ caller' = [caller EXCEPT ![t] = "saved"]
  /\ row' = [row EXCEPT ![t] = "PENDING"]
  /\ UNCHANGED <<plan, sender, journal, chain, fills, txEvents, safe, past_>>

\* waitForFill looks at nothing that came before it.
WaitForFill(t) ==
  /\ caller[t] = "saved"
  /\ caller' = [caller EXCEPT ![t] = "waiting"]
  /\ UNCHANGED <<plan, row, sender, journal, chain, fills, txEvents, safe, past_>>

-----------------------------------------------------------------------------
(* LighterNonceManager *)

\* Mutant: the submission after a finished one is taken for begun.
DequeueBusy == queue' = Tail(queue) /\ UNCHANGED step

\* The submission is over and the next one may start.
Dequeue == queue' = Tail(queue) /\ step' = "idle"

\* allocateNonce asks for the nonce only when it has none.  A failure is
\* outside the try block.
Allocate ==
  /\ step = "idle" /\ queue # <<>>
  /\ \/ /\ next' = IF next = None THEN expect ELSE next
        /\ journal' = [journal EXCEPT ![Current] =
                         [status |-> "CREATED", nonce |-> next']]
        /\ step' = "created"
        /\ UNCHANGED <<queue, caller, plan, row, faults>>
     \/ Fault /\ Dequeue /\ Thrown(Current) /\ UNCHANGED <<next, journal>>
  /\ UNCHANGED <<chain, fills, txEvents, safe, past, misread, crashes>>

\* The nonce is used up once the transaction is signed.
Sign ==
  /\ step = "created"
  /\ \/ /\ next' = next + 1 /\ step' = "signed"
        /\ journal' = [journal EXCEPT ![Current].status = "SIGNED"]
        /\ UNCHANGED <<queue, caller, plan, row, faults>>
     \/ /\ Fault /\ Dequeue /\ Thrown(Current)
        /\ journal' = [journal EXCEPT ![Current].status = "REJECTED"]
        /\ UNCHANGED next
  /\ UNCHANGED <<chain, fills, txEvents, safe, past, misread, crashes>>

\* Mutant: the row is written when the answer is there.
SendUnwritten ==
  /\ step = "signed" /\ step' = "sent"
  /\ wire' = wire \cup {Current}
  /\ UNCHANGED <<caller, plan, row, queue, next, journal, expect, fate, book,
                 fills, txEvents, safe, past_>>

\* The row says SENT before the transaction leaves.
Send ==
  /\ step = "signed" /\ step' = "sent"
  /\ journal' = [journal EXCEPT ![Current].status = "SENT"]
  /\ wire' = wire \cup {Current}
  /\ UNCHANGED <<caller, plan, row, queue, next, expect, fate, book, fills,
                 txEvents, safe, past_>>

Accepted ==
  /\ fate[Current] = "taken"
  /\ journal' = [journal EXCEPT ![Current].status = "ACCEPTED"]
  /\ caller' = [caller EXCEPT ![Current] = "accepted"]
  /\ UNCHANGED <<next, plan, row, misread, faults>>

\* A refusal for its nonce makes the manager ask for the right one, which may
\* fail; any other refusal leaves the nonce of the refused one used up.
Rejected ==
  /\ fate[Current] \in {"nonce", "refused"}
  /\ journal' = [journal EXCEPT ![Current].status = "REJECTED"]
  /\ Thrown(Current)
  /\ \/ /\ next' = IF fate[Current] = "nonce" THEN expect ELSE next
        /\ UNCHANGED faults
     \/ fate[Current] = "nonce" /\ Fault /\ UNCHANGED next
  /\ UNCHANGED misread

\* The status is no reason to throw: an error page of a gateway reads as a
\* refusal, whatever the exchange did or will do.
Misread ==
  /\ Fault /\ misread' = misread \cup {Current}
  /\ journal' = [journal EXCEPT ![Current].status = "REJECTED"]
  /\ Thrown(Current)
  /\ UNCHANGED next

\* Mutant: a timeout after signing is taken for a rejection.
TimedOutRejected ==
  /\ Fault
  /\ journal' = [journal EXCEPT ![Current].status = "REJECTED"]
  /\ Thrown(Current)
  /\ UNCHANGED <<next, misread>>

\* No answer: a signed transaction may or may not have been taken.
TimedOut ==
  /\ Fault
  /\ journal' = [journal EXCEPT ![Current].status = "UNKNOWN"]
  /\ Thrown(Current)
  /\ UNCHANGED <<next, misread>>

\* The instance of the row is that of Allocate: what events wrote into the
\* row meanwhile is overwritten.
Answer ==
  /\ step = "sent" /\ Dequeue
  /\ Accepted \/ Rejected \/ Misread \/ TimedOut
  /\ UNCHANGED <<chain, fills, txEvents, safe, past, crashes>>

-----------------------------------------------------------------------------
(* The exchange *)

Take(t) ==
  /\ t \in wire /\ wire' = wire \ {t}
  /\ IF journal[t].nonce = expect
     THEN /\ expect' = expect + 1
          /\ fate' = [fate EXCEPT ![t] = "taken"]
          /\ book' = [book EXCEPT ![t] = "open"]
          /\ txEvents' = txEvents \cup {t}
     ELSE /\ fate' = [fate EXCEPT ![t] = "nonce"]
          /\ UNCHANGED <<expect, book, txEvents>>
  /\ UNCHANGED <<caller, plan, row, sender, journal, fills, safe, past_>>

\* Refused for its content (margin, size): the nonce stays free.
Refuse(t) ==
  /\ t \in wire /\ wire' = wire \ {t}
  /\ fate' = [fate EXCEPT ![t] = "refused"]
  /\ UNCHANGED <<caller, plan, row, sender, journal, expect, book, fills,
                 txEvents, safe, past_>>

Lose(t) ==
  /\ t \in wire /\ Fault /\ wire' = wire \ {t}
  /\ UNCHANGED <<caller, plan, row, sender, journal, expect, fate, book, fills,
                 txEvents, safe, past, misread, crashes>>

\* Both subscribed channels carry the order.
Fill(t) ==
  /\ book[t] = "open" /\ Cardinality({u \in Txs : book[u] = "filled"}) < MaxFills
  /\ book' = [book EXCEPT ![t] = "filled"]
  /\ events' = [events EXCEPT ![t] = 2]
  /\ UNCHANGED <<caller, plan, row, sender, journal, wire, expect, fate,
                 handlers, placing, ladder, txEvents, safe, past_>>

LoseEvents(t) ==
  /\ events[t] > 0 /\ Fault
  /\ events' = [events EXCEPT ![t] = 0]
  /\ UNCHANGED <<caller, plan, row, sender, journal, chain, handlers, placing,
                 ladder, txEvents, safe, past, misread, crashes>>

-----------------------------------------------------------------------------
(* LighterStateReconciler and LighterOrderPersistenceHandler *)

\* A terminal order event ends the row its client order index finds.
Finalized(t) ==
  IF journal[t].status \in Undecided
  THEN [journal EXCEPT ![t].status = "CONFIRMED"] ELSE journal

\* The event resolves the waiter, if there is one by now, and the handler
\* saves OPEN over whatever the row of the order says, if it finds it by now.
OrderEvent(t) ==
  /\ events[t] > 0
  /\ events' = [events EXCEPT ![t] = @ - 1]
  /\ journal' = Finalized(t)
  /\ caller' = [caller EXCEPT ![t] = IF @ = "waiting" THEN "postfill" ELSE @]
  /\ IF row[t] \in Linked
     THEN /\ row' = [row EXCEPT ![t] = "OPEN"]
          /\ handlers' = [handlers EXCEPT ![t] = @ + 1]
     ELSE UNCHANGED <<row, handlers>>
  /\ UNCHANGED <<plan, sender, chain, placing, ladder, txEvents, safe, past_>>

\* A transaction event names a nonce; the first undecided row with that nonce
\* is confirmed, of whatever submission it is.
TxEvent(t) ==
  /\ t \in txEvents /\ txEvents' = txEvents \ {t}
  /\ LET found == {u \in Txs : /\ journal[u].status \in Undecided
                               /\ journal[u].nonce = journal[t].nonce}
     IN  IF found = {} THEN UNCHANGED journal
         ELSE \E u \in found :
                journal' = [journal EXCEPT ![u].status = "CONFIRMED"]
  /\ UNCHANGED <<caller, plan, row, sender, chain, fills, safe, past_>>

\* The REST chain raises the row only.
PostFill(t) ==
  /\ caller[t] = "postfill"
  /\ caller' = [caller EXCEPT ![t] = "done"]
  /\ row' = [row EXCEPT ![t] = IF @ = "PENDING" THEN "OPEN" ELSE @]
  /\ handlers' = [handlers EXCEPT ![t] = @ + 1]
  /\ UNCHANGED <<plan, sender, journal, chain, events, placing, ladder,
                 txEvents, safe, past_>>

\* Mutant: the claim does not ask for a pending plan.
ClaimAny(t) ==
  /\ handlers[t] > 0
  /\ handlers' = [handlers EXCEPT ![t] = @ - 1]
  /\ plan' = [plan EXCEPT ![t] = "CLAIMED"] /\ placing' = placing \cup {t}
  /\ UNCHANGED <<caller, row, sender, journal, chain, events, ladder, txEvents,
                 safe, past_>>

\* placeProtections: one conditional update decides who places.
Claim(t) ==
  /\ handlers[t] > 0
  /\ handlers' = [handlers EXCEPT ![t] = @ - 1]
  /\ IF plan[t] = "PENDING"
     THEN plan' = [plan EXCEPT ![t] = "CLAIMED"] /\ placing' = placing \cup {t}
     ELSE UNCHANGED <<plan, placing>>
  /\ UNCHANGED <<caller, row, sender, journal, chain, events, ladder, txEvents,
                 safe, past_>>

Place(t) ==
  /\ t \in placing /\ placing' = placing \ {t}
  /\ ladder' = [ladder EXCEPT ![t] = @ + 1]
  /\ plan' = [plan EXCEPT ![t] = "COMPLETED"]
  /\ row' = [row EXCEPT ![t] = "PROTECTED"]
  /\ UNCHANGED <<caller, sender, journal, chain, events, handlers, txEvents,
                 safe, past_>>

\* Mutant: only rows a fill handler has seen are looked at.
MonitorOpenOnly(t) ==
  /\ book[t] = "filled" /\ row[t] = "OPEN" /\ plan[t] = "PENDING"
  /\ handlers' = [handlers EXCEPT ![t] = IF @ = 0 THEN 1 ELSE @]
  /\ UNCHANGED <<caller, plan, row, sender, journal, chain, events, placing,
                 ladder, txEvents, safe, past_>>

\* NoStopLossMonitor finds a position without a stop and a pending plan.
Monitor(t) ==
  /\ book[t] = "filled" /\ row[t] \in Linked /\ plan[t] = "PENDING"
  /\ handlers' = [handlers EXCEPT ![t] = IF @ = 0 THEN 1 ELSE @]
  /\ UNCHANGED <<caller, plan, row, sender, journal, chain, events, placing,
                 ladder, txEvents, safe, past_>>

-----------------------------------------------------------------------------
(* Restart *)

Crash ==
  /\ crashes < MaxCrashes /\ crashes' = crashes + 1
  /\ caller' = [t \in Txs |-> IF caller[t] = "new" THEN "new" ELSE "done"]
  /\ past' = {t \in Txs : caller[t] # "new"}
  /\ queue' = <<>> /\ step' = "idle" /\ next' = None
  /\ events' = [t \in Txs |-> 0] /\ txEvents' = {}
  /\ handlers' = [t \in Txs |-> 0] /\ placing' = {}
  /\ safe' = FALSE
  /\ UNCHANGED <<plan, row, journal, chain, ladder, misread, faults>>

\* stop: nothing under way is stopped.
Stop ==
  /\ safe /\ safe' = FALSE
  /\ UNCHANGED <<caller, plan, row, sender, journal, chain, fills, txEvents, past_>>

\* Mutant: a row still SENT is taken for one that never left.
LookedAtSentOmitted == {t \in Txs : journal[t].status \in {"ACCEPTED", "UNKNOWN"}}

\* The rows reconcileStartup asks about.
LookedAt == {t \in Txs : journal[t].status \in Undecided}

\* What a lookup makes of a row: an error body has a code, which reads as a
\* rejection; only a failed call leaves the row as it is.
Looked(t) ==
  {journal[t].status, "REJECTED"}
    \cup (IF fate[t] = "taken" THEN {"CONFIRMED"} ELSE {})

\* start: every undecided row is looked up; trading is safe if none is left.
Start ==
  /\ ~safe
  /\ \E found \in [LookedAt -> {"SENT", "ACCEPTED", "UNKNOWN", "CONFIRMED", "REJECTED"}] :
       /\ \A t \in LookedAt : found[t] \in Looked(t)
       /\ journal' = [t \in Txs |->
            IF t \in LookedAt THEN [journal[t] EXCEPT !.status = found[t]]
            ELSE journal[t]]
       /\ misread' = misread \cup
            {t \in LookedAt : /\ found[t] = "REJECTED"
                              /\ fate[t] = "taken" \/ t \in wire}
       /\ safe' = (\A t \in LookedAt : found[t] \notin Undecided)
  /\ UNCHANGED <<caller, plan, row, sender, chain, fills, txEvents, past,
                 faults, crashes>>

-----------------------------------------------------------------------------

Submit == Allocate \/ Sign \/ Send \/ Answer

LighterNext ==
  \/ \E t \in Txs :
       \/ PlaceOrder(t) \/ SaveOrder(t) \/ WaitForFill(t)
       \/ Take(t) \/ Refuse(t) \/ Lose(t) \/ Fill(t) \/ LoseEvents(t)
       \/ OrderEvent(t) \/ TxEvent(t) \/ PostFill(t)
       \/ Claim(t) \/ Place(t) \/ Monitor(t)
  \/ Submit \/ Crash \/ Stop \/ Start

LighterSpec == LighterInit /\ [][LighterNext]_lighterVars

\* Promises resolve and the monitor scans; the network owes nothing.
LighterFairness ==
  \A t \in Txs : WF_lighterVars(Claim(t)) /\ WF_lighterVars(Monitor(t))

-----------------------------------------------------------------------------
(* Properties *)

\* Every variable has the values the code can give it.
LighterTypeOK ==
  /\ caller \in [Txs -> {"new", "queued", "accepted", "saved", "waiting",
                         "postfill", "done", "failed"}]
  /\ plan \in [Txs -> {"none", "PENDING", "CLAIMED", "COMPLETED"}]
  /\ row \in [Txs -> {"INIT", "FAILED"} \cup Linked]
  /\ queue \in Seq(Txs) /\ step \in {"idle", "created", "signed", "sent"}
  /\ step # "idle" => queue # <<>>
  /\ next \in {None} \cup Nonces
  /\ journal \in [Txs -> [nonce : {None} \cup Nonces,
       status : {"none", "CREATED", "SIGNED", "CONFIRMED", "REJECTED"}
                  \cup Undecided]]
  /\ wire \subseteq Txs /\ expect \in Nonces
  /\ fate \in [Txs -> {"none", "taken", "nonce", "refused"}]
  /\ book \in [Txs -> {"none", "open", "filled"}]
  /\ events \in [Txs -> 0..2] /\ txEvents \subseteq Txs
  /\ handlers \in [Txs -> 0..4] /\ placing \subseteq Txs
  /\ ladder \in [Txs -> Nat] /\ safe \in BOOLEAN
  /\ past \subseteq Txs /\ misread \subseteq Txs
  /\ faults \in 0..MaxFaults /\ crashes \in 0..MaxCrashes

\* What has left, or was taken, is in the journal as more than signed, so that
\* a restart asks about it.
WriteAhead ==
  \A t \in Txs : t \in wire \/ fate[t] = "taken"
                   => journal[t].status \notin {"none", "CREATED", "SIGNED"}

\* The journal is true, however answers, events and restarts interleave:
\* CONFIRMED was taken, unless its nonce was used a second time; REJECTED was
\* not, unless an error answer was misread.
JournalTrue ==
  \A t \in Txs :
    /\ journal[t].status = "CONFIRMED" =>
         \E u \in Txs : /\ journal[u].nonce = journal[t].nonce
                        /\ fate[u] = "taken"
    /\ journal[t].status = "REJECTED" /\ fate[t] = "taken" => t \in misread

\* While trading is allowed no transaction of an earlier session is undecided.
SafeDecided ==
  safe => \A t \in past : journal[t].status \notin Undecided

\* Two channels, the waiter and the monitor answer one fill; the protections
\* are placed once.
PlacedOnce == \A t \in Txs : ladder[t] <= 1

\* Lighter keeps its plans in the table of the Gate orders, and its handlers
\* implement the same plan: it is withdrawn only while the row is not linked to
\* an order, a handler claims it only afterwards, and it is sent once.
PhaseOf(status) ==
  CASE status = "none" -> "none" [] status = "PENDING" -> "planned"
    [] status = "CLAIMED" -> "claimed" [] status = "COMPLETED" -> "settled"

LighterPlan == INSTANCE ProtectionPlan WITH
                 Orders <- Txs,
                 phase  <- [t \in Txs |-> PhaseOf(plan[t])],
                 live   <- [t \in Txs |-> row[t] \in Linked],
                 sent   <- ladder

LighterPlanSpec == LighterPlan!Spec

\* A fill whose events came before the row was linked, or not at all, is still
\* answered: the monitor finds the plan.
FillAnswered ==
  \A t \in Txs :
    (book[t] = "filled" /\ row[t] \in Linked /\ plan[t] = "PENDING")
      ~> plan[t] # "PENDING"

=============================================================================
