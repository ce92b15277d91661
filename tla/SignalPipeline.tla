---------------------------- MODULE SignalPipeline ----------------------------
(***************************************************************************)
(* From a message on the Redis channel to the orders it opens:             *)
(* handleChannelMessage, processStrategiesForParser, executeRouteForStrategy *)
(* and the three filters that should keep a repeated signal from being     *)
(* traded twice:                                                           *)
(*   1. IdempotencyService        message content seen within the TTL      *)
(*   2. StrategyDeduplicationService   same strategy already live          *)
(*   3. OrderPreCheck.checkDuplicate   same order already live             *)
(* The routes of a channel are grouped by parser; groups and, inside a     *)
(* group, routes run in parallel, and so do messages: nothing waits for    *)
(* the previous message.  One step is what runs between two awaits.        *)
(***************************************************************************)
EXTENDS Integers, FiniteSets

CONSTANTS
  Deliveries,     \* deliveries of messages by the subscriber
  Channels, Contents,
  Groups,         \* parser groups of a channel
  Routes,
  GroupOf,        \* [Routes -> Groups]
  MaxStrategies,  \* most strategies a parser finds in one message
  TTL,            \* KEY_TTL_MS in clock ticks
  MaxTime,        \* bound on the clock
  Overlap,        \* BOOLEAN: a message may arrive while another is handled
  Trading,        \* values of config.enableTrading to explore
  Faults          \* queries that may throw, see FaultKinds

\* lookup : IdempotencyKey.findOne    writeKey : IdempotencyKey.create
\* create : Strategy.create           save : the last strategy.save
\* execute : tradeExecutor.execute throws and no order is left behind
\* lostReply : it throws although the order is on the exchange
FaultKinds == {"lookup", "writeKey", "create", "save", "execute", "lostReply"}

ASSUME GroupAssumption == GroupOf \in [Routes -> Groups]
ASSUME BoundAssumption == /\ MaxStrategies \in Nat \ {0}
                          /\ TTL \in Nat /\ MaxTime \in Nat
ASSUME SwitchAssumption == /\ Overlap \in BOOLEAN /\ Trading \subseteq BOOLEAN
                           /\ Faults \subseteq FaultKinds

VARIABLES
  msg,       \* channel and content of every delivery, constant
  trading,   \* config.enableTrading, constant
  now,       \* the clock
  keys,      \* rows of idempotency_keys
  pc,        \* what each parser group does for a delivery
  todo,      \* strategies of the delivery still to be handled, the current one included
  strat,     \* status of the row of the current strategy
  route,     \* progress and result of each route for the current strategy
  orders,    \* Order rows opened: signal, route, delivery, lifecycle
  skipped,   \* groups that dropped a delivery as a duplicate (history)
  keyed,     \* deliveries with an executed strategy, and when (history)
  traded     \* deliveries that opened an order, and when (history)

flow == <<pc, todo, strat, route>>
hist == <<skipped, keyed, traded>>
vars == <<msg, trading, now, keys, flow, orders, hist>>

-----------------------------------------------------------------------------
GroupPc == {"waiting", "check", "next", "routes", "save", "done"}
Result  == {"executed", "simulated", "skipped", "filtered", "failed", "error"}
RoutePc == {"idle", "start", "dedup", "precheck", "open"} \cup Result
Status  == {"none", "pending", "processed", "failed", "filtered"}
Life    == {"PENDING", "OPEN", "CLOSED"}

RoutesOf(g) == {r \in Routes : GroupOf[r] = g}
Moments == [d : Deliveries, at : 0..MaxTime]

TypeOK ==
  /\ msg \in [Deliveries -> [ch : Channels, ct : Contents]]
  /\ trading \in Trading /\ now \in 0..MaxTime
  /\ keys \subseteq [ch : Channels, ct : Contents, seen : 0..MaxTime]
  /\ pc \in [Deliveries -> [Groups -> GroupPc]]
  /\ todo \in [Deliveries -> [Groups -> 0..MaxStrategies]]
  /\ strat \in [Deliveries -> [Groups -> Status]]
  /\ route \in [Deliveries -> [Routes -> RoutePc]]
  /\ orders \subseteq [d : Deliveries, k : 1..MaxStrategies, r : Routes, life : Life]
  /\ skipped \subseteq Moments /\ keyed \subseteq Moments /\ traded \subseteq Moments

Init ==
  /\ msg \in [Deliveries -> [ch : Channels, ct : Contents]]
  /\ trading \in Trading /\ now = 0 /\ keys = {}
  /\ pc = [d \in Deliveries |-> [g \in Groups |-> "waiting"]]
  /\ todo = [d \in Deliveries |-> [g \in Groups |-> 0]]
  /\ strat = [d \in Deliveries |-> [g \in Groups |-> "none"]]
  /\ route = [d \in Deliveries |-> [r \in Routes |-> "idle"]]
  /\ orders = {} /\ skipped = {} /\ keyed = {} /\ traded = {}

-----------------------------------------------------------------------------
(* The message and its idempotency key *)

Move(d, g, from, to) ==
  /\ pc[d][g] = from
  /\ pc' = [pc EXCEPT ![d][g] = to]

Idle(d) == \A g \in Groups : pc[d][g] \in {"waiting", "done"}

\* handleChannelMessage starts every parser group; a parser that fails or
\* finds no strategy ends its group.
Receive(d) ==
  /\ \A g \in Groups : pc[d][g] = "waiting"
  /\ Overlap \/ \A e \in Deliveries : Idle(e)
  /\ \E n \in [Groups -> 0..MaxStrategies] :
       /\ todo' = [todo EXCEPT ![d] = n]
       /\ pc' = [pc EXCEPT ![d] =
                   [g \in Groups |-> IF n[g] = 0 THEN "done" ELSE "check"]]
  /\ UNCHANGED <<msg, trading, now, keys, strat, route, orders, hist>>

Same(d, k) == k.ch = msg[d].ch /\ k.ct = msg[d].ct

\* Mutant: any row counts, however old.
SeenEver(d) == \E k \in keys : Same(d, k)

\* Mutant: the row must be younger than the TTL.
SeenYounger(d) == \E k \in keys : Same(d, k) /\ k.seen > now - TTL

\* The rows checkMessage looks for: not older than the TTL.
Seen(d) == \E k \in keys : Same(d, k) /\ k.seen >= now - TTL

\* A query that throws rejects the whole group.
CheckMessage(d, g) ==
  /\ \/ Seen(d) /\ Move(d, g, "check", "done")
        /\ skipped' = skipped \cup {[d |-> d, at |-> now]}
     \/ ~Seen(d) /\ Move(d, g, "check", "next") /\ UNCHANGED skipped
     \/ "lookup" \in Faults /\ Move(d, g, "check", "done") /\ UNCHANGED skipped
  /\ UNCHANGED <<msg, trading, now, keys, todo, strat, route, orders, keyed, traded>>

\* Strategy.create; when it throws the remaining strategies are given up.
CreateStrategy(d, g) ==
  /\ \/ /\ Move(d, g, "next", "routes")
        /\ strat' = [strat EXCEPT ![d][g] = "pending"]
        /\ route' = [route EXCEPT ![d] =
                       [r \in Routes |-> IF r \in RoutesOf(g) THEN "start" ELSE @[r]]]
     \/ "create" \in Faults /\ Move(d, g, "next", "done") /\ UNCHANGED <<strat, route>>
  /\ UNCHANGED <<msg, trading, now, keys, todo, orders, hist>>

\* The table carries UNIQUE on channelId and on contentHash, each alone.
Conflict(d) == \E k \in keys : k.ch = msg[d].ch \/ k.ct = msg[d].ct

\* An executed or simulated route makes the strategy executed.
Executed(d, g) == \E r \in RoutesOf(g) : route[d][r] \in {"executed", "simulated"}

\* writeKey: a unique violation and any other error are swallowed.
InsertKey(d) ==
  \/ ~Conflict(d) /\ keys' = keys \cup {[ch |-> msg[d].ch, ct |-> msg[d].ct, seen |-> now]}
  \/ (Conflict(d) \/ "writeKey" \in Faults) /\ UNCHANGED keys

\* Mutant: the key is written whatever became of the routes.
WriteKeyAlways(d, g) ==
  /\ Move(d, g, "routes", "save")
  /\ \A r \in RoutesOf(g) : route[d][r] \in Result
  /\ InsertKey(d)
  /\ keyed' = IF Executed(d, g) THEN keyed \cup {[d |-> d, at |-> now]} ELSE keyed
  /\ UNCHANGED <<msg, trading, now, todo, strat, route, orders, skipped, traded>>

\* Mutant: the group waits for a trade, not for a result.
WaitForTrade(d, g) ==
  /\ Move(d, g, "routes", "save")
  /\ Executed(d, g)
  /\ InsertKey(d) /\ keyed' = keyed \cup {[d |-> d, at |-> now]}
  /\ UNCHANGED <<msg, trading, now, todo, strat, route, orders, skipped, traded>>

\* Promise.all of the routes, then the key if one of them executed.
WriteKey(d, g) ==
  /\ Move(d, g, "routes", "save")
  /\ \A r \in RoutesOf(g) : route[d][r] \in Result
  /\ IF Executed(d, g)
     THEN InsertKey(d) /\ keyed' = keyed \cup {[d |-> d, at |-> now]}
     ELSE UNCHANGED <<keys, keyed>>
  /\ UNCHANGED <<msg, trading, now, todo, strat, route, orders, skipped, traded>>

\* Mutant: the status of the strategy is the result of a route.
FinalResult(d, g) == IF Executed(d, g) THEN "executed" ELSE "failed"

Final(d, g) ==
  IF Executed(d, g) THEN "processed"
  ELSE IF \E r \in RoutesOf(g) : route[d][r] \in {"failed", "error"} THEN "failed"
  ELSE "filtered"

\* The last save of the strategy, which may fail silently; then the next.
SaveStrategy(d, g) ==
  /\ Move(d, g, "save", IF todo[d][g] > 1 THEN "next" ELSE "done")
  /\ todo' = [todo EXCEPT ![d][g] = @ - 1]
  /\ \/ strat' = [strat EXCEPT ![d][g] = Final(d, g)]
     \/ "save" \in Faults /\ UNCHANGED strat
  /\ UNCHANGED <<msg, trading, now, keys, route, orders, hist>>

-----------------------------------------------------------------------------
(* One route of one strategy *)

Step(d, r, from, to) ==
  /\ route[d][r] = from
  /\ route' = [route EXCEPT ![d][r] = to]

Group(r) == GroupOf[r]

\* The exchange may be missing; AI, supported symbols and entry selection
\* may filter the strategy.
StartRoute(d, r) ==
  /\ \/ \E res \in {"error", "filtered"} : Step(d, r, "start", res)
     \/ trading /\ Step(d, r, "start", "dedup")
     \/ ~trading /\ Step(d, r, "start", "simulated")
  /\ UNCHANGED <<msg, trading, now, keys, pc, todo, strat, orders, hist>>

\* What both filters call the same strategy: same content, same place in it.
Twin(d, r, o) ==
  /\ o.r = r /\ o.life = "OPEN"
  /\ msg[o.d].ct = msg[d].ct /\ o.k = todo[d][Group(r)]

\* Order.initialTp holds the first target, the query asks for the JSON list
\* of all of them (or for none, while TpSlCalculator always finds one).
InitialTp == "first target"
AskedTp   == {"list of targets", "no target"}

Duplicate(d, r) == \E o \in orders : Twin(d, r, o) /\ InitialTp \in AskedTp

\* A duplicate saves the shared strategy row as filtered at once.
DedupCheck(d, r) ==
  /\ Step(d, r, "dedup", IF Duplicate(d, r) THEN "filtered" ELSE "precheck")
  /\ strat' = IF Duplicate(d, r) THEN [strat EXCEPT ![d][Group(r)] = "filtered"] ELSE strat
  /\ UNCHANGED <<msg, trading, now, keys, pc, todo, orders, hist>>

\* handleOpen up to its duplicate check: signal validation may return null;
\* a duplicate returns skipped_duplicate, which counts as executed.  A twin
\* escapes the check when the new order is of another type (market or limit),
\* when an open order at another price is looked at first, and when the
\* check throws.
PreCheck(d, r) ==
  /\ \/ \E res \in {"skipped", "open"} : Step(d, r, "precheck", res)
     \/ (\E o \in orders : Twin(d, r, o)) /\ Step(d, r, "precheck", "executed")
     \/ "execute" \in Faults /\ Step(d, r, "precheck", "failed")
  /\ UNCHANGED <<msg, trading, now, keys, pc, todo, strat, orders, hist>>

\* Order.create and the order on the exchange.
OpenOrder(d, r) ==
  LET row == [d |-> d, k |-> todo[d][Group(r)], r |-> r, life |-> "PENDING"] IN
  /\ \/ /\ \/ Step(d, r, "open", "executed")
           \/ "lostReply" \in Faults /\ Step(d, r, "open", "failed")
        /\ orders' = orders \cup {row}
        /\ traded' = traded \cup {[d |-> d, at |-> now]}
     \/ /\ "execute" \in Faults /\ Step(d, r, "open", "failed")
        /\ UNCHANGED <<orders, traded>>
  /\ UNCHANGED <<msg, trading, now, keys, pc, todo, strat, skipped, keyed>>

-----------------------------------------------------------------------------
(* The clock, the cleanup timer and the orders *)

Tick ==
  /\ now < MaxTime
  /\ now' = now + 1
  /\ UNCHANGED <<msg, trading, keys, flow, orders, hist>>

Expired == {k \in keys : k.seen < now - TTL}

CleanupExpiredKeys ==
  /\ Expired # {}
  /\ keys' = keys \ Expired
  /\ UNCHANGED <<msg, trading, now, flow, orders, hist>>

\* The order is filled, and closed later: see EntryOrder.
Progress(o) ==
  /\ \/ o.life = "PENDING" /\ orders' = (orders \ {o}) \cup {[o EXCEPT !.life = "OPEN"]}
     \/ o.life = "OPEN" /\ orders' = (orders \ {o}) \cup {[o EXCEPT !.life = "CLOSED"]}
  /\ UNCHANGED <<msg, trading, now, keys, flow, hist>>

-----------------------------------------------------------------------------
Processing(d, g) ==
  CheckMessage(d, g) \/ CreateStrategy(d, g) \/ WriteKey(d, g) \/ SaveStrategy(d, g)

Executing(d, r) ==
  \/ StartRoute(d, r) \/ DedupCheck(d, r)
  \/ PreCheck(d, r) \/ OpenOrder(d, r)

Next ==
  \/ \E d \in Deliveries :
       \/ Receive(d)
       \/ \E g \in Groups : Processing(d, g)
       \/ \E r \in Routes : Executing(d, r)
  \/ \E o \in orders : Progress(o)
  \/ Tick \/ CleanupExpiredKeys

Spec == Init /\ [][Next]_vars

\* Every awaited promise is settled; messages need not arrive and time need
\* not pass.
Fairness ==
  \A d \in Deliveries :
    /\ \A g \in Groups : WF_vars(Processing(d, g))
    /\ \A r \in Routes : WF_vars(Executing(d, r))

FairSpec == Spec /\ Fairness

-----------------------------------------------------------------------------
(* Properties *)

SameMessage(d, e) == msg[d] = msg[e]
Within(t, u) == u - t \in 0..TTL

\* A message is dropped as a duplicate only if another delivery of the same
\* content on the same channel was executed, and not longer ago than the key
\* lives: a signal of which every route failed, was filtered or skipped must
\* be tried again when it is repeated, and so must one that is repeated late.
DroppedMeansTraded ==
  \A s \in skipped : \E k \in keyed :
    k.d # s.d /\ SameMessage(k.d, s.d) /\ Within(k.at, s.at)

\* What the key is for: two deliveries of one message are never both traded
\* within the life of the key (60 seconds).
WindowDedup ==
  \A s, t \in traded :
    SameMessage(s.d, t.d) /\ Within(s.at, t.at) => s.d = t.d

\* What the key does when messages come one after the other, every insert
\* works and no other message shares its columns: a delivery of a message
\* that was traded before is traded only after a key of that message has
\* outlived its TTL.  It need not be the key of the earlier trade: a row that
\* has expired and is not cleaned up yet keeps the next one out.
RepeatOutlivesKey ==
  \A s, t \in traded :
    SameMessage(s.d, t.d) /\ s.d # t.d /\ s.at <= t.at
      => \E e \in keyed : SameMessage(e.d, s.d) /\ e.at + TTL < t.at

\* Every message comes to an end in every parser group, whatever its routes
\* do, and no strategy is left pending.
Settles ==
  \A d \in Deliveries : \A g \in Groups :
    pc[d][g] = "check" ~> (pc[d][g] = "done" /\ strat[d][g] # "pending")

=============================================================================
