------------------------ MODULE SignalPipeline_proofs -------------------------
(***************************************************************************)
(* Theorems about the signal pipeline, for any number of deliveries,       *)
(* channels, routes and strategies and any lifetime of the key.            *)
(*   NothingLost, for any interleaving of overlapping messages: the        *)
(* invariant ties every row of idempotency_keys to the execution it was    *)
(* written for, and says that a delivery whose group is still about to     *)
(* look for a key has not executed anything itself: with one parser group  *)
(* per channel, the key it finds is another delivery's.                    *)
(*   RepeatsWaitForKey, for messages that come one after the other: every  *)
(* trade is about to write its key, has a row of its message in the table, *)
(* or had one for the whole TTL; and a delivery past its check has met no  *)
(* row that is still good.                                                 *)
(***************************************************************************)
EXTENDS SignalPipeline, TLAPS

\* Every row was written for an executed strategy of the same message, at
\* the time it carries.
KeysExplained ==
  \A k \in keys : \E e \in keyed : Same(e.d, k) /\ e.at = k.seen

\* Executions lie in the past, and their groups are past the check.
KeyedPast ==
  \A e \in keyed : /\ e.at <= now
                   /\ \A g \in Groups : pc[e.d][g] \notin {"waiting", "check"}

\* A group that works has a strategy in hand ...
InHand ==
  \A d \in Deliveries : \A g \in Groups :
    pc[d][g] \notin {"waiting", "done"} => todo[d][g] >= 1

\* ... and a route works only while its group waits for it (Promise.all).
AwaitedRoute ==
  \A d \in Deliveries : \A r \in Routes :
    route[d][r] \in {"start", "dedup", "precheck", "open"} => pc[d][Group(r)] = "routes"

Awaited == InHand /\ AwaitedRoute

TInv == TypeOK /\ Awaited

IInv == TypeOK /\ KeysExplained /\ KeyedPast /\ DroppedMeansTraded

\* All routes of a channel use the same parser.
OneParser == \A g, h \in Groups : g = h

-----------------------------------------------------------------------------
(* Types *)

\* What an assignment to one entry of a table does.
LEMMA Update ==
  ASSUME NEW S, NEW T, NEW V, NEW f \in [S -> [T -> V]],
         NEW s \in S, NEW t \in T, NEW v \in V
  PROVE  LET h == [f EXCEPT ![s][t] = v] IN
         /\ h \in [S -> [T -> V]]
         /\ \A a \in S : \A b \in T :
              h[a][b] = IF a = s /\ b = t THEN v ELSE f[a][b]
<1> DEFINE row == [f[s] EXCEPT ![t] = v]
           h == [f EXCEPT ![s] = row]
<1>1. row \in [T -> V] /\ \A b \in T : row[b] = IF b = t THEN v ELSE f[s][b]
  OBVIOUS
<1> HIDE DEF row
<1>2. h \in [S -> [T -> V]] /\ h[s] = row /\ \A a \in S : a # s => h[a] = f[a]
  BY <1>1
<1>3. h = [f EXCEPT ![s][t] = v]
  BY DEF row
<1> HIDE DEF h
<1> QED
  BY <1>1, <1>2, <1>3

LEMMA Moved ==
  ASSUME TypeOK, NEW d \in Deliveries, NEW g \in Groups,
         NEW from, NEW to \in GroupPc, Move(d, g, from, to)
  PROVE  /\ pc[d][g] = from
         /\ pc' \in [Deliveries -> [Groups -> GroupPc]]
         /\ \A e \in Deliveries : \A q \in Groups :
              pc'[e][q] = IF e = d /\ q = g THEN to ELSE pc[e][q]
<1>1. pc \in [Deliveries -> [Groups -> GroupPc]]
  BY DEF TypeOK
<1>2. pc[d][g] = from /\ pc' = [pc EXCEPT ![d][g] = to]
  BY DEF Move
<1> QED
  BY <1>1, <1>2, Update

LEMMA Stepped ==
  ASSUME TypeOK, NEW d \in Deliveries, NEW r \in Routes,
         NEW from, NEW to \in RoutePc, Step(d, r, from, to)
  PROVE  /\ route[d][r] = from
         /\ route' \in [Deliveries -> [Routes -> RoutePc]]
         /\ \A e \in Deliveries : \A q \in Routes :
              route'[e][q] = IF e = d /\ q = r THEN to ELSE route[e][q]
<1>1. route \in [Deliveries -> [Routes -> RoutePc]]
  BY DEF TypeOK
<1>2. route[d][r] = from /\ route' = [route EXCEPT ![d][r] = to]
  BY DEF Step
<1> QED
  BY <1>1, <1>2, Update

LEMMA TInvInit == Init => TInv
  BY BoundAssumption, GroupAssumption
     DEF Init, TInv, TypeOK, Awaited, InHand, AwaitedRoute, Group, GroupPc, RoutePc, Status, Moments

\* Each step keeps the types and leaves no route working unawaited.
LEMMA TInvNext == TInv /\ [Next]_vars => TInv'
<1> SUFFICES ASSUME TInv, [Next]_vars PROVE TInv'
  OBVIOUS
<1> USE BoundAssumption, GroupAssumption DEF TInv, Group
<1>1. ASSUME NEW d \in Deliveries, Receive(d) PROVE TInv'
  <2>1. PICK n \in [Groups -> 0..MaxStrategies] :
          /\ todo' = [todo EXCEPT ![d] = n]
          /\ pc' = [pc EXCEPT ![d] =
                      [g \in Groups |-> IF n[g] = 0 THEN "done" ELSE "check"]]
    BY <1>1 DEF Receive
  <2>2. TypeOK'
    BY <1>1, <2>1 DEF Receive, TypeOK, hist, GroupPc
  <2>3. Awaited'
    BY <1>1, <2>1 DEF Receive, TypeOK, Awaited, InHand, AwaitedRoute
  <2> QED
    BY <2>2, <2>3
<1>2. ASSUME NEW d \in Deliveries, NEW g \in Groups, CheckMessage(d, g) PROVE TInv'
  <2>1. PICK to \in {"next", "done"} : Move(d, g, "check", to)
    BY <1>2 DEF CheckMessage
  <2>2. /\ pc[d][g] = "check" /\ pc' \in [Deliveries -> [Groups -> GroupPc]]
        /\ \A e \in Deliveries : \A q \in Groups :
              pc'[e][q] = IF e = d /\ q = g THEN to ELSE pc[e][q]
    BY <2>1, Moved DEF GroupPc
  <2>3. skipped' \subseteq Moments
    BY <1>2 DEF CheckMessage, TypeOK, Moments
  <2>4. TypeOK'
    BY <1>2, <2>2, <2>3 DEF CheckMessage, TypeOK
  <2>5. UNCHANGED <<todo, route>>
    BY <1>2 DEF CheckMessage
  <2>6. InHand'
    BY <2>2, <2>5 DEF Awaited, InHand
  <2>7. AwaitedRoute'
    BY <2>2, <2>5 DEF Awaited, AwaitedRoute
  <2> QED
    BY <2>4, <2>6, <2>7 DEF Awaited
<1>3. ASSUME NEW d \in Deliveries, NEW g \in Groups, CreateStrategy(d, g) PROVE TInv'
  <2>1. UNCHANGED <<msg, trading, now, keys, todo, orders, hist>>
    BY <1>3 DEF CreateStrategy
  <2>2. CASE Move(d, g, "next", "done") /\ UNCHANGED <<strat, route>>
    <3>1. /\ pc[d][g] = "next" /\ pc' \in [Deliveries -> [Groups -> GroupPc]]
          /\ \A e \in Deliveries : \A q \in Groups :
               pc'[e][q] = IF e = d /\ q = g THEN "done" ELSE pc[e][q]
      BY <2>2, Moved DEF GroupPc
    <3> QED
      BY <2>1, <2>2, <3>1 DEF TypeOK, Awaited, InHand, AwaitedRoute, hist
  <2>3. CASE /\ Move(d, g, "next", "routes")
             /\ strat' = [strat EXCEPT ![d][g] = "pending"]
             /\ route' = [route EXCEPT ![d] =
                            [r \in Routes |-> IF r \in RoutesOf(g) THEN "start" ELSE @[r]]]
    <3>1. /\ pc[d][g] = "next" /\ pc' \in [Deliveries -> [Groups -> GroupPc]]
          /\ \A e \in Deliveries : \A q \in Groups :
               pc'[e][q] = IF e = d /\ q = g THEN "routes" ELSE pc[e][q]
      BY <2>3, Moved DEF GroupPc
    <3>2. strat' \in [Deliveries -> [Groups -> Status]]
      <4>1. strat \in [Deliveries -> [Groups -> Status]] /\ "pending" \in Status
        BY DEF TypeOK, Status
      <4> QED
        BY <2>3, <4>1, Update
    <3>3. /\ route' \in [Deliveries -> [Routes -> RoutePc]]
          /\ \A e \in Deliveries : \A q \in Routes :
               route'[e][q] = IF e = d /\ GroupOf[q] = g THEN "start" ELSE route[e][q]
      <4>1. route \in [Deliveries -> [Routes -> RoutePc]] /\ "start" \in RoutePc
        BY DEF TypeOK, RoutePc
      <4>2. route' = [route EXCEPT ![d] =
                        [r \in Routes |-> IF GroupOf[r] = g THEN "start" ELSE route[d][r]]]
        BY <2>3, <4>1 DEF RoutesOf
      <4> QED
        BY <4>1, <4>2
    <3>4. TypeOK'
      BY <2>1, <3>1, <3>2, <3>3 DEF TypeOK, hist
    <3>5. InHand'
      BY <2>1, <3>1 DEF Awaited, InHand
    <3>6. AwaitedRoute'
      BY <3>1, <3>3 DEF Awaited, AwaitedRoute
    <3> QED
      BY <3>4, <3>5, <3>6 DEF Awaited
  <2> QED
    BY <1>3, <2>2, <2>3 DEF CreateStrategy
<1>4. ASSUME NEW d \in Deliveries, NEW g \in Groups, WriteKey(d, g) PROVE TInv'
  <2>1. keys' \subseteq [ch : Channels, ct : Contents, seen : 0..MaxTime]
    <3>1. [ch |-> msg[d].ch, ct |-> msg[d].ct, seen |-> now]
            \in [ch : Channels, ct : Contents, seen : 0..MaxTime]
      BY DEF TypeOK
    <3>2. keys' \subseteq keys \cup {[ch |-> msg[d].ch, ct |-> msg[d].ct, seen |-> now]}
      BY <1>4 DEF WriteKey, InsertKey
    <3> QED
      BY <3>1, <3>2 DEF TypeOK
  <2>2. keyed' \subseteq Moments
    BY <1>4 DEF WriteKey, TypeOK, Moments
  <2>3. /\ pc[d][g] = "routes" /\ pc' \in [Deliveries -> [Groups -> GroupPc]]
        /\ \A e \in Deliveries : \A q \in Groups :
             pc'[e][q] = IF e = d /\ q = g THEN "save" ELSE pc[e][q]
    BY <1>4, Moved DEF WriteKey, GroupPc
  <2>4. UNCHANGED <<msg, trading, now, todo, strat, route, orders, skipped, traded>>
    BY <1>4 DEF WriteKey
  <2>5. TypeOK'
    BY <2>1, <2>2, <2>3, <2>4 DEF TypeOK
  <2>6. \A r \in Routes : GroupOf[r] = g => route[d][r] \in Result
    BY <1>4 DEF WriteKey, RoutesOf
  <2>7. Awaited'
    BY <2>3, <2>4, <2>6 DEF Awaited, InHand, AwaitedRoute, Result
  <2> QED
    BY <2>5, <2>7
<1>5. ASSUME NEW d \in Deliveries, NEW g \in Groups, SaveStrategy(d, g) PROVE TInv'
  <2> DEFINE to == IF todo[d][g] > 1 THEN "next" ELSE "done"
  <2>1. Move(d, g, "save", to) /\ to \in GroupPc
    BY <1>5 DEF SaveStrategy, GroupPc
  <2> HIDE DEF to
  <2>2. /\ pc[d][g] = "save" /\ pc' \in [Deliveries -> [Groups -> GroupPc]]
        /\ \A e \in Deliveries : \A q \in Groups :
             pc'[e][q] = IF e = d /\ q = g THEN to ELSE pc[e][q]
    BY <2>1, Moved
  <2>3. todo[d][g] \in 1..MaxStrategies
    <3>1. todo[d][g] \in 0..MaxStrategies
      BY DEF TypeOK
    <3>2. todo[d][g] >= 1
      BY <2>2 DEF Awaited, InHand
    <3> QED
      BY <3>1, <3>2
  <2>4. /\ todo' \in [Deliveries -> [Groups -> 0..MaxStrategies]]
        /\ \A e \in Deliveries : \A q \in Groups :
             todo'[e][q] = IF e = d /\ q = g THEN todo[d][g] - 1 ELSE todo[e][q]
    <3>1. /\ todo \in [Deliveries -> [Groups -> 0..MaxStrategies]]
          /\ todo[d][g] - 1 \in 0..MaxStrategies
          /\ todo' = [todo EXCEPT ![d][g] = todo[d][g] - 1]
      BY <1>5, <2>3 DEF SaveStrategy, TypeOK
    <3> QED
      BY <3>1, Update
  <2>5. strat' \in [Deliveries -> [Groups -> Status]]
    <3>1. strat \in [Deliveries -> [Groups -> Status]] /\ Final(d, g) \in Status
      BY DEF TypeOK, Final, Status
    <3>2. CASE strat' = strat
      BY <3>1, <3>2
    <3>3. CASE strat' = [strat EXCEPT ![d][g] = Final(d, g)]
      BY <3>1, <3>3, Update
    <3> QED
      BY <1>5, <3>2, <3>3 DEF SaveStrategy
  <2>6. UNCHANGED <<msg, trading, now, keys, route, orders, hist>>
    BY <1>5 DEF SaveStrategy
  <2>7. TypeOK'
    BY <2>2, <2>4, <2>5, <2>6 DEF TypeOK, hist
  <2>8. Awaited'
    <3>1. pc'[d][g] \notin {"waiting", "done"} => todo'[d][g] >= 1
      BY <2>2, <2>3, <2>4 DEF to
    <3>2. InHand'
      BY <2>2, <2>4, <3>1 DEF Awaited, InHand
    <3>3. AwaitedRoute'
      BY <2>2, <2>6 DEF Awaited, AwaitedRoute
    <3> QED
      BY <3>2, <3>3 DEF Awaited
  <2> QED
    BY <2>7, <2>8
<1>6. ASSUME NEW d \in Deliveries, NEW r \in Routes, StartRoute(d, r) PROVE TInv'
  <2>1. PICK to \in RoutePc : Step(d, r, "start", to)
    BY <1>6 DEF StartRoute, RoutePc, Result
  <2>2. UNCHANGED <<msg, trading, now, keys, pc, todo, strat, orders, hist>>
    BY <1>6 DEF StartRoute
  <2> QED
    BY <2>1, <2>2, Stepped DEF TypeOK, Awaited, InHand, AwaitedRoute, hist
<1>7. ASSUME NEW d \in Deliveries, NEW r \in Routes, DedupCheck(d, r) PROVE TInv'
  <2>1. PICK to \in RoutePc : Step(d, r, "dedup", to)
    BY <1>7 DEF DedupCheck, RoutePc, Result
  <2>2. UNCHANGED <<msg, trading, now, keys, pc, todo, orders, hist>>
    BY <1>7 DEF DedupCheck
  <2>3. strat' \in [Deliveries -> [Groups -> Status]]
    <3>1. /\ strat \in [Deliveries -> [Groups -> Status]] /\ "filtered" \in Status
          /\ GroupOf[r] \in Groups
      BY DEF TypeOK, Status
    <3>2. CASE strat' = strat
      BY <3>1, <3>2
    <3>3. CASE strat' = [strat EXCEPT ![d][GroupOf[r]] = "filtered"]
      BY <3>1, <3>3, Update
    <3> QED
      BY <1>7, <3>2, <3>3 DEF DedupCheck
  <2>4. /\ route[d][r] = "dedup" /\ route' \in [Deliveries -> [Routes -> RoutePc]]
        /\ \A e \in Deliveries : \A q \in Routes :
             route'[e][q] = IF e = d /\ q = r THEN to ELSE route[e][q]
    BY <2>1, Stepped
  <2> QED
    <3>1. TypeOK'
      BY <2>2, <2>3, <2>4 DEF TypeOK, hist
    <3>2. InHand'
      BY <2>2 DEF Awaited, InHand
    <3>3. AwaitedRoute'
      BY <2>2, <2>4 DEF Awaited, AwaitedRoute
    <3> QED
      BY <3>1, <3>2, <3>3 DEF Awaited
<1>8. ASSUME NEW d \in Deliveries, NEW r \in Routes, PreCheck(d, r) PROVE TInv'
  <2>1. PICK to \in RoutePc : Step(d, r, "precheck", to)
    BY <1>8 DEF PreCheck, RoutePc, Result
  <2>2. UNCHANGED <<msg, trading, now, keys, pc, todo, strat, orders, hist>>
    BY <1>8 DEF PreCheck
  <2> QED
    BY <2>1, <2>2, Stepped DEF TypeOK, Awaited, InHand, AwaitedRoute, hist
<1>9. ASSUME NEW d \in Deliveries, NEW r \in Routes, OpenOrder(d, r) PROVE TInv'
  <2>1. PICK to \in Result : Step(d, r, "open", to)
    BY <1>9 DEF OpenOrder, Result
  <2>2. /\ route[d][r] = "open" /\ route' \in [Deliveries -> [Routes -> RoutePc]]
        /\ \A e \in Deliveries : \A q \in Routes :
             route'[e][q] = IF e = d /\ q = r THEN to ELSE route[e][q]
    <3>1. to \in RoutePc
      BY DEF RoutePc
    <3> QED
      BY <2>1, <3>1, Stepped
  <2>3. UNCHANGED <<msg, trading, now, keys, pc, todo, strat, skipped, keyed>>
    BY <1>9 DEF OpenOrder
  <2>4. todo[d][GroupOf[r]] \in 1..MaxStrategies
    BY <2>2 DEF TypeOK, Awaited, InHand, AwaitedRoute
  <2>5. orders' \subseteq [d : Deliveries, k : 1..MaxStrategies, r : Routes, life : Life]
    BY <1>9, <2>4 DEF OpenOrder, TypeOK, Life
  <2>6. traded' \subseteq Moments
    BY <1>9 DEF OpenOrder, TypeOK, Moments
  <2>7. TypeOK'
    BY <2>2, <2>3, <2>5, <2>6 DEF TypeOK
  <2>8. Awaited'
    BY <2>2, <2>3 DEF Awaited, InHand, AwaitedRoute, Result
  <2> QED
    BY <2>7, <2>8
<1>10. CASE Tick
  BY <1>10 DEF Tick, flow, hist, TypeOK, Awaited, InHand, AwaitedRoute
<1>11. CASE CleanupExpiredKeys
  BY <1>11 DEF CleanupExpiredKeys, Expired, flow, hist, TypeOK, Awaited, InHand, AwaitedRoute
<1>12. ASSUME NEW o \in orders, Progress(o) PROVE TInv'
  <2>1. \A l \in Life : [o EXCEPT !.life = l]
                          \in [d : Deliveries, k : 1..MaxStrategies, r : Routes, life : Life]
    BY DEF TypeOK
  <2>2. orders' \subseteq [d : Deliveries, k : 1..MaxStrategies, r : Routes, life : Life]
    BY <1>12, <2>1 DEF Progress, TypeOK, Life
  <2> QED
    BY <1>12, <2>2 DEF Progress, flow, hist, TypeOK, Awaited, InHand, AwaitedRoute
<1>13. CASE UNCHANGED vars
  BY <1>13 DEF vars, flow, hist, TypeOK, Awaited, InHand, AwaitedRoute
<1> QED
  BY <1>1, <1>2, <1>3, <1>4, <1>5, <1>6, <1>7, <1>8, <1>9, <1>10, <1>11, <1>12, <1>13
     DEF Next, Processing, Executing

\* The variables stay in their types: no step of a message, a route, a timer
\* or the clock leaves them.  An order is recorded for a strategy the message
\* has, because a route runs only while its group waits for it.
THEOREM TypeCorrect == Spec => []TypeOK
<1>1. TInv => TypeOK
  BY DEF TInv
<1> QED
  BY <1>1, TInvInit, TInvNext, PTL DEF Spec

-----------------------------------------------------------------------------
(* Dropping *)

\* The steps that leave keys, history, clock and the groups' progress past
\* the check alone.
LEMMA Stutter ==
  ASSUME IInv, TypeOK', UNCHANGED <<msg, keys, skipped, keyed>>, now' >= now,
         \A d \in Deliveries : \A g \in Groups :
            pc'[d][g] \in {"waiting", "check"} => pc[d][g] = pc'[d][g]
  PROVE  IInv'
<1>1. KeysExplained'
  BY DEF IInv, KeysExplained, Same
<1>2. KeyedPast'
  <2> SUFFICES ASSUME NEW e \in keyed
               PROVE  e.at <= now' /\ \A g \in Groups : pc'[e.d][g] \notin {"waiting", "check"}
    BY DEF KeyedPast
  <2>1. e.d \in Deliveries /\ e.at \in Int /\ now \in Int /\ now' \in Int
    BY DEF IInv, TypeOK, Moments
  <2> QED
    BY <2>1 DEF IInv, KeyedPast
<1>3. DroppedMeansTraded'
  BY DEF IInv, DroppedMeansTraded, SameMessage
<1> QED
  BY <1>1, <1>2, <1>3 DEF IInv

LEMMA IInvInit == Init => IInv
  BY TInvInit DEF Init, IInv, TInv, KeysExplained, KeyedPast, DroppedMeansTraded

\* A row found by the check was written for an executed strategy of the same
\* message; that strategy was not the delivery's own.
LEMMA DropJustified ==
  ASSUME IInv, NEW d \in Deliveries, NEW g \in Groups, pc[d][g] = "check", Seen(d)
  PROVE  \E e \in keyed : e.d # d /\ SameMessage(e.d, d) /\ Within(e.at, now)
<1>1. PICK k \in keys : Same(d, k) /\ k.seen >= now - TTL
  BY DEF Seen
<1>2. PICK e \in keyed : Same(e.d, k) /\ e.at = k.seen
  BY DEF IInv, KeysExplained
<1>3. e.d # d /\ e.at <= now
  BY DEF IInv, KeyedPast
<1>4. SameMessage(e.d, d)
  <2>1. e.d \in Deliveries
    BY DEF IInv, TypeOK, Moments
  <2>2. msg[e.d] \in [ch : Channels, ct : Contents] /\ msg[d] \in [ch : Channels, ct : Contents]
    BY <2>1 DEF IInv, TypeOK
  <2>3. \A m \in [ch : Channels, ct : Contents] : m = [ch |-> m.ch, ct |-> m.ct]
    OBVIOUS
  <2>4. msg[e.d].ch = msg[d].ch /\ msg[e.d].ct = msg[d].ct
    BY <1>1, <1>2 DEF Same
  <2> QED
    BY <2>2, <2>3, <2>4 DEF SameMessage
<1>5. Within(e.at, now)
  <2>1. e.at \in Int /\ now \in Int
    BY DEF IInv, TypeOK, Moments
  <2> QED
    BY <1>1, <1>2, <1>3, <2>1, BoundAssumption DEF Within
<1> QED
  BY <1>3, <1>4, <1>5

LEMMA IInvNext == OneParser /\ IInv /\ TypeOK' /\ [Next]_vars => IInv'
<1> SUFFICES ASSUME OneParser, IInv, TypeOK', [Next]_vars PROVE IInv'
  OBVIOUS
<1>0. TypeOK
  BY DEF IInv
<1>1. ASSUME NEW d \in Deliveries, Receive(d) PROVE IInv'
  <2>1. UNCHANGED <<msg, now, keys, skipped, keyed>>
    BY <1>1 DEF Receive, hist
  <2>2. PICK n \in [Groups -> 0..MaxStrategies] :
          pc' = [pc EXCEPT ![d] = [g \in Groups |-> IF n[g] = 0 THEN "done" ELSE "check"]]
    BY <1>1 DEF Receive
  <2>3. \A g \in Groups : pc[d][g] = "waiting"
    BY <1>1 DEF Receive
  <2>4. \A e \in keyed : e.d \in Deliveries /\ \A g \in Groups : e.d # d
    BY <2>3 DEF IInv, KeyedPast, TypeOK, Moments
  <2>5. KeyedPast'
    BY <1>0, <2>1, <2>2, <2>4 DEF IInv, KeyedPast, TypeOK
  <2>6. KeysExplained'
    BY <2>1 DEF IInv, KeysExplained, Same
  <2>7. DroppedMeansTraded'
    BY <2>1 DEF IInv, DroppedMeansTraded, SameMessage
  <2> QED
    BY <2>5, <2>6, <2>7 DEF IInv
<1>2. ASSUME NEW d \in Deliveries, NEW g \in Groups, CheckMessage(d, g) PROVE IInv'
  <2>1. UNCHANGED <<msg, now, keys, keyed>>
    BY <1>2 DEF CheckMessage
  <2>2. PICK to \in {"next", "done"} : Move(d, g, "check", to)
    BY <1>2 DEF CheckMessage
  <2>3. /\ pc[d][g] = "check"
        /\ \A e \in Deliveries : \A q \in Groups :
             pc'[e][q] = IF e = d /\ q = g THEN to ELSE pc[e][q]
    BY <1>0, <2>2, Moved DEF GroupPc
  <2>4. KeysExplained'
    BY <2>1 DEF IInv, KeysExplained, Same
  <2>5. KeyedPast'
    <3> SUFFICES ASSUME NEW e \in keyed
                 PROVE  e.at <= now' /\ \A q \in Groups : pc'[e.d][q] \notin {"waiting", "check"}
      BY <2>1 DEF KeyedPast
    <3>1. e.d \in Deliveries
      BY <1>0 DEF TypeOK, Moments
    <3> QED
      BY <2>1, <2>3, <3>1 DEF IInv, KeyedPast
  <2>6. DroppedMeansTraded'
    <3>1. CASE skipped' = skipped
      BY <3>1, <2>1 DEF IInv, DroppedMeansTraded, SameMessage
    <3>2. CASE Seen(d) /\ skipped' = skipped \cup {[d |-> d, at |-> now]}
      <4>1. PICK k \in keyed : k.d # d /\ SameMessage(k.d, d) /\ Within(k.at, now)
        BY <2>3, <3>2, DropJustified
      <4>2. ASSUME NEW s \in skipped'
            PROVE  \E e \in keyed : e.d # s.d /\ SameMessage(e.d, s.d) /\ Within(e.at, s.at)
        BY <3>2, <4>1, <4>2 DEF IInv, DroppedMeansTraded
      <4> QED
        BY <2>1, <4>2 DEF DroppedMeansTraded, SameMessage
    <3> QED
      BY <1>2, <3>1, <3>2 DEF CheckMessage
  <2> QED
    BY <2>4, <2>5, <2>6 DEF IInv
<1>3. ASSUME NEW d \in Deliveries, NEW g \in Groups, CreateStrategy(d, g) PROVE IInv'
  <2>1. PICK to \in {"routes", "done"} : Move(d, g, "next", to)
    BY <1>3 DEF CreateStrategy
  <2>2. \A e \in Deliveries : \A q \in Groups :
          pc'[e][q] = IF e = d /\ q = g THEN to ELSE pc[e][q]
    BY <1>0, <2>1, Moved DEF GroupPc
  <2>3. UNCHANGED <<msg, now, keys, skipped, keyed>> /\ now \in Int
    BY <1>0, <1>3 DEF CreateStrategy, hist, TypeOK
  <2> QED
    BY <2>2, <2>3, Stutter
<1>4. ASSUME NEW d \in Deliveries, NEW g \in Groups, WriteKey(d, g) PROVE IInv'
  <2>1. UNCHANGED <<msg, now, skipped>> /\ now \in Int
    BY <1>0, <1>4 DEF WriteKey, TypeOK
  <2>2. /\ pc[d][g] = "routes"
        /\ \A e \in Deliveries : \A q \in Groups :
             pc'[e][q] = IF e = d /\ q = g THEN "save" ELSE pc[e][q]
    BY <1>0, <1>4, Moved DEF WriteKey, GroupPc
  <2> DEFINE here == [d |-> d, at |-> now]
             key == [ch |-> msg[d].ch, ct |-> msg[d].ct, seen |-> now]
  <2>3. \/ keys' = keys /\ keyed' = keyed
        \/ keys' \subseteq keys \cup {key} /\ keyed' = keyed \cup {here}
    BY <1>4 DEF WriteKey, InsertKey
  <2>4. KeysExplained'
    <3> SUFFICES ASSUME NEW k \in keys'
                 PROVE  \E e \in keyed' : Same(e.d, k) /\ e.at = k.seen
      BY <2>1 DEF KeysExplained, Same
    <3>1. CASE k \in keys
      BY <2>3, <3>1 DEF IInv, KeysExplained
    <3>2. CASE k \notin keys
      <4>1. k = key /\ here \in keyed'
        BY <2>3, <3>2
      <4> QED
        BY <4>1 DEF Same
    <3> QED
      BY <3>1, <3>2
  <2>5. KeyedPast'
    <3> SUFFICES ASSUME NEW e \in keyed'
                 PROVE  e.at <= now /\ \A q \in Groups : pc'[e.d][q] \notin {"waiting", "check"}
      BY <2>1 DEF KeyedPast
    <3>1. CASE e \in keyed
      <4>1. e.d \in Deliveries
        BY <1>0, <3>1 DEF TypeOK, Moments
      <4> QED
        BY <2>2, <3>1, <4>1 DEF IInv, KeyedPast
    <3>2. CASE e = here
      BY <2>1, <2>2, <3>2 DEF OneParser
    <3> QED
      BY <2>3, <3>1, <3>2
  <2>6. DroppedMeansTraded'
    <3>1. keyed \subseteq keyed'
      BY <2>3
    <3> QED
      BY <2>1, <3>1 DEF IInv, DroppedMeansTraded, SameMessage
  <2> QED
    BY <2>4, <2>5, <2>6 DEF IInv
<1>5. ASSUME NEW d \in Deliveries, NEW g \in Groups, SaveStrategy(d, g) PROVE IInv'
  <2> DEFINE to == IF todo[d][g] > 1 THEN "next" ELSE "done"
  <2>1. Move(d, g, "save", to) /\ to \in GroupPc /\ to \notin {"waiting", "check"}
    BY <1>5 DEF SaveStrategy, GroupPc
  <2> HIDE DEF to
  <2>2. \A e \in Deliveries : \A q \in Groups :
          pc'[e][q] = IF e = d /\ q = g THEN to ELSE pc[e][q]
    BY <1>0, <2>1, Moved
  <2>3. UNCHANGED <<msg, now, keys, skipped, keyed>> /\ now \in Int
    BY <1>0, <1>5 DEF SaveStrategy, hist, TypeOK
  <2> QED
    BY <2>1, <2>2, <2>3, Stutter
<1>6. ASSUME NEW d \in Deliveries, NEW r \in Routes, Executing(d, r) PROVE IInv'
  <2>1. UNCHANGED <<msg, now, keys, pc, skipped, keyed>> /\ now \in Int
    BY <1>0, <1>6 DEF Executing, StartRoute, DedupCheck, PreCheck, OpenOrder, hist, TypeOK
  <2> QED
    BY <2>1, Stutter
<1>7. CASE Tick
  <2>1. UNCHANGED <<msg, keys, pc, skipped, keyed>> /\ now' >= now
    BY <1>0, <1>7 DEF Tick, flow, hist, TypeOK
  <2> QED
    BY <2>1, Stutter
<1>8. CASE CleanupExpiredKeys
  <2>1. UNCHANGED <<msg, now, pc, skipped, keyed>> /\ keys' \subseteq keys
    BY <1>8 DEF CleanupExpiredKeys, flow, hist
  <2>2. KeysExplained'
    BY <2>1 DEF IInv, KeysExplained, Same
  <2>3. KeyedPast' /\ DroppedMeansTraded'
    BY <2>1 DEF IInv, KeyedPast, DroppedMeansTraded, SameMessage
  <2> QED
    BY <2>2, <2>3 DEF IInv
<1>9. ASSUME NEW o \in orders, Progress(o) PROVE IInv'
  <2>1. UNCHANGED <<msg, now, keys, pc, skipped, keyed>> /\ now \in Int
    BY <1>0, <1>9 DEF Progress, flow, hist, TypeOK
  <2> QED
    BY <2>1, Stutter
<1>10. CASE UNCHANGED vars
  <2>1. UNCHANGED <<msg, now, keys, pc, skipped, keyed>> /\ now \in Int
    BY <1>0, <1>10 DEF vars, flow, hist, TypeOK
  <2> QED
    BY <2>1, Stutter
<1> QED
  BY <1>1, <1>2, <1>3, <1>4, <1>5, <1>6, <1>7, <1>8, <1>9, <1>10 DEF Next, Processing

\* Where one parser serves the channel, a message is dropped as a duplicate
\* only if another delivery of it was executed within the life of the key,
\* whatever else overlaps, fails or is late: the idempotency filter never
\* loses a signal nobody traded.
THEOREM NothingLost == ASSUME OneParser PROVE Spec => []DroppedMeansTraded
<1>1. IInv => DroppedMeansTraded
  BY DEF IInv
<1>2. TInv /\ TInv' /\ IInv /\ [Next]_vars => IInv'
  BY IInvNext DEF TInv
<1> QED
  BY <1>1, <1>2, TInvInit, TInvNext, IInvInit, PTL DEF Spec

-----------------------------------------------------------------------------
(* Repeats *)

\* No message shares the channel or the content of another one.
Unclashing ==
  \A d, e \in Deliveries :
    msg[d].ch = msg[e].ch \/ msg[d].ct = msg[e].ct => SameMessage(d, e)

\* Messages come one after the other and every insert of a key works.
Orderly == OneParser /\ ~Overlap /\ Faults \cap {"writeKey", "lostReply"} = {}

Active(d, g) == pc[d][g] \notin {"waiting", "done"}

\* One delivery is handled at a time.
OneAtATime ==
  \A d, e \in Deliveries : \A g, h \in Groups : Active(d, g) /\ Active(e, h) => d = e

\* A key of the message of d has outlived its TTL.
Lapsed(d) == \E e \in keyed : SameMessage(e.d, d) /\ e.at + TTL < now

\* A route of d has opened its order and its group waits for the others.
InFlight(d) == \E r \in Routes : route[d][r] = "executed" /\ pc[d][Group(r)] = "routes"

\* A trade is about to write its key, or there is a row for its message, or
\* there was one for long enough.
Kept ==
  \A s \in traded :
    s.at <= now /\ (InFlight(s.d) \/ (\E k \in keys : Same(s.d, k)) \/ Lapsed(s.d))

\* A delivery past its check met no row that is still good.
Cleared ==
  \A d \in Deliveries : \A g \in Groups :
    pc[d][g] \in {"next", "routes", "save"} =>
      \A s \in traded : SameMessage(s.d, d) /\ s.d # d => Lapsed(d)

RepeatInv == Unclashing /\ OneAtATime /\ Kept /\ Cleared /\ RepeatOutlivesKey

\* The message of a delivery is its channel and its content.
LEMMA MessageIs ==
  ASSUME TypeOK, NEW d \in Deliveries, NEW e \in Deliveries,
         msg[d].ch = msg[e].ch, msg[d].ct = msg[e].ct
  PROVE  SameMessage(d, e)
<1>1. msg[d] \in [ch : Channels, ct : Contents] /\ msg[e] \in [ch : Channels, ct : Contents]
  BY DEF TypeOK
<1>2. \A m \in [ch : Channels, ct : Contents] : m = [ch |-> m.ch, ct |-> m.ct]
  OBVIOUS
<1> QED
  BY <1>1, <1>2 DEF SameMessage

\* A row past its TTL was written for an execution that long ago.
LEMMA OldRow ==
  ASSUME TypeOK, KeysExplained, NEW d \in Deliveries,
         NEW k \in keys, Same(d, k), k.seen < now - TTL
  PROVE  Lapsed(d)
<1>1. PICK e \in keyed : Same(e.d, k) /\ e.at = k.seen
  BY DEF KeysExplained
<1>2. e.d \in Deliveries /\ e.at \in Int /\ now \in Int /\ TTL \in Int
  BY BoundAssumption DEF TypeOK, Moments
<1>3. SameMessage(e.d, d)
  BY <1>1, <1>2, MessageIs DEF Same
<1>4. e.at + TTL < now
  BY <1>1, <1>2
<1> QED
  BY <1>3, <1>4 DEF Lapsed

\* An execution leaves a row of its message in the table.
LEMMA RowLeft ==
  ASSUME TypeOK, KeysExplained, Unclashing, "writeKey" \notin Faults,
         NEW d \in Deliveries, InsertKey(d), UNCHANGED msg
  PROVE  keys \subseteq keys' /\ \E k \in keys' : Same(d, k)
<1>1. CASE ~Conflict(d)
  <2> DEFINE key == [ch |-> msg[d].ch, ct |-> msg[d].ct, seen |-> now]
  <2>1. keys' = keys \cup {key}
    BY <1>1 DEF InsertKey
  <2>2. Same(d, key)
    BY DEF Same
  <2> QED
    BY <2>1, <2>2
<1>2. CASE Conflict(d)
  <2>1. keys' = keys
    BY <1>2 DEF InsertKey
  <2>2. PICK k \in keys : k.ch = msg[d].ch \/ k.ct = msg[d].ct
    BY <1>2 DEF Conflict
  <2>3. PICK e \in keyed : Same(e.d, k)
    BY DEF KeysExplained
  <2>4. e.d \in Deliveries
    BY DEF TypeOK, Moments
  <2>5. SameMessage(e.d, d)
    BY <2>2, <2>3, <2>4 DEF Same, Unclashing
  <2>6. Same(d, k)
    BY <2>3, <2>5 DEF Same, SameMessage
  <2> QED
    BY <2>1, <2>6
<1> QED
  BY <1>1, <1>2

\* A key that has lapsed has lapsed for good.
LEMMA StillLapsed ==
  ASSUME TypeOK, TypeOK', UNCHANGED msg, now' >= now, keyed \subseteq keyed',
         NEW d \in Deliveries, Lapsed(d)
  PROVE  Lapsed(d)'
<1>1. PICK e \in keyed : SameMessage(e.d, d) /\ e.at + TTL < now
  BY DEF Lapsed
<1>2. e.at \in Int /\ now \in Int /\ now' \in Int /\ TTL \in Int
  BY BoundAssumption DEF TypeOK, Moments
<1>3. e.at + TTL < now'
  BY <1>1, <1>2
<1>4. SameMessage(e.d, d)'
  BY <1>1 DEF SameMessage
<1> QED
  BY <1>1, <1>3, <1>4 DEF Lapsed

\* What a step must do for the facts about trades to survive it when it
\* trades nothing: every trade keeps its row or its claim to one, and no
\* delivery passes its check.
LEMMA RepeatStays ==
  ASSUME RepeatInv, TypeOK, TypeOK', UNCHANGED <<msg, traded>>, now' >= now,
         keyed \subseteq keyed',
         OneAtATime',
         \A s \in traded : InFlight(s.d) => InFlight(s.d)' \/ \E k \in keys' : Same(s.d, k),
         \A s \in traded : (\E k \in keys : Same(s.d, k)) =>
            (\E k \in keys' : Same(s.d, k)) \/ Lapsed(s.d),
         \A d \in Deliveries : \A g \in Groups :
            pc'[d][g] \in {"next", "routes", "save"} =>
              \/ pc[d][g] \in {"next", "routes", "save"}
              \/ \A s \in traded : SameMessage(s.d, d) /\ s.d # d => Lapsed(d)
  PROVE  RepeatInv'
<1>1. \A d \in Deliveries : Lapsed(d) => Lapsed(d)'
  BY StillLapsed
<1>2. \A s \in traded : s.d \in Deliveries /\ s.at \in Int
  BY DEF TypeOK, Moments
<1>3. Kept'
  <2> SUFFICES ASSUME NEW s \in traded
               PROVE  /\ s.at <= now'
                      /\ InFlight(s.d)' \/ (\E k \in keys' : Same(s.d, k)) \/ Lapsed(s.d)'
    BY DEF Kept, Same
  <2>1. now \in Int /\ now' \in Int
    BY DEF TypeOK
  <2>2. s.at <= now /\ (InFlight(s.d) \/ (\E k \in keys : Same(s.d, k)) \/ Lapsed(s.d))
    BY DEF RepeatInv, Kept
  <2> QED
    BY <1>1, <1>2, <2>1, <2>2
<1>4. Cleared'
  <2> SUFFICES ASSUME NEW d \in Deliveries, NEW g \in Groups,
                      pc'[d][g] \in {"next", "routes", "save"},
                      NEW s \in traded, SameMessage(s.d, d), s.d # d
               PROVE  Lapsed(d)'
    BY DEF Cleared, SameMessage
  <2>1. Lapsed(d)
    BY DEF RepeatInv, Cleared
  <2> QED
    BY <1>1, <2>1
<1>5. RepeatOutlivesKey'
  BY DEF RepeatInv, RepeatOutlivesKey, SameMessage
<1>6. Unclashing'
  BY DEF RepeatInv, Unclashing, SameMessage
<1> QED
  BY <1>3, <1>4, <1>5, <1>6 DEF RepeatInv

\* A delivery at work is the only one at work.
LEMMA OneActive ==
  ASSUME OneAtATime, NEW d \in Deliveries, NEW g \in Groups, Active(d, g),
         \A e \in Deliveries : \A h \in Groups :
           pc'[e][h] \notin {"waiting", "done"} => e = d \/ Active(e, h)
  PROVE  OneAtATime'
BY DEF OneAtATime, Active

LEMMA RepeatInit == Init /\ Unclashing => RepeatInv
BY DEF Init, RepeatInv, OneAtATime, Active, Kept, Cleared, RepeatOutlivesKey

\* The check lets a delivery pass only if no row of its message is good.
LEMMA CheckClears ==
  ASSUME RepeatInv, TypeOK, KeysExplained,
         NEW d \in Deliveries, NEW g \in Groups, pc[d][g] = "check", ~Seen(d),
         NEW s \in traded, SameMessage(s.d, d), s.d # d
  PROVE  Lapsed(d)
<1>1. s.d \in Deliveries
  BY DEF TypeOK, Moments
<1>2. ~InFlight(s.d)
  <2>1. SUFFICES ASSUME NEW r \in Routes, pc[s.d][Group(r)] = "routes" PROVE FALSE
    BY DEF InFlight
  <2>2. Group(r) \in Groups
    BY GroupAssumption DEF Group
  <2> QED
    BY <1>1, <2>1, <2>2 DEF RepeatInv, OneAtATime, Active
<1>3. CASE Lapsed(s.d)
  BY <1>3 DEF Lapsed, SameMessage
<1>4. ASSUME NEW k \in keys, Same(s.d, k) PROVE Lapsed(d)
  <2>1. Same(d, k)
    BY <1>4 DEF Same, SameMessage
  <2>2. k.seen \in Int /\ now \in Int /\ TTL \in Int
    BY BoundAssumption DEF TypeOK
  <2>3. k.seen < now - TTL
    BY <2>1, <2>2 DEF Seen
  <2> QED
    BY <2>1, <2>3, OldRow
<1> QED
  BY <1>2, <1>3, <1>4 DEF RepeatInv, Kept

\* The step that trades.
LEMMA TradeKeeps ==
  ASSUME Orderly, RepeatInv, TInv, TypeOK',
         NEW d \in Deliveries, NEW r \in Routes, OpenOrder(d, r)
  PROVE  RepeatInv'
<1>0. TypeOK
  BY DEF TInv
<1> DEFINE here == [d |-> d, at |-> now]
<1>1. UNCHANGED <<msg, now, keys, pc, keyed>>
  BY DEF OpenOrder
<1>2. /\ route[d][r] = "open"
      /\ \A e \in Deliveries : \A q \in Routes :
           route[e][q] = "executed" => route'[e][q] = "executed"
      /\ \/ traded' = traded
         \/ traded' = traded \cup {here} /\ route'[d][r] = "executed"
  <2>1. "executed" \in RoutePc /\ "failed" \in RoutePc /\ "lostReply" \notin Faults
    BY DEF RoutePc, Result, Orderly
  <2>2. CASE Step(d, r, "open", "executed") /\ traded' = traded \cup {here}
    BY <1>0, <2>1, <2>2, Stepped
  <2>3. CASE Step(d, r, "open", "failed") /\ traded' = traded
    BY <1>0, <2>1, <2>3, Stepped
  <2> QED
    BY <2>1, <2>2, <2>3 DEF OpenOrder
<1>3. OneAtATime'
  BY <1>1 DEF RepeatInv, OneAtATime, Active
<1>4. \A e \in Deliveries : InFlight(e) => InFlight(e)'
  BY <1>1, <1>2 DEF InFlight
<1>5. traded \subseteq Moments
  BY <1>0 DEF TypeOK
<1>6. CASE traded' = traded
  BY <1>0, <1>1, <1>3, <1>4, <1>5, <1>6, RepeatStays DEF Moments, TypeOK
<1>7. CASE traded' = traded \cup {here} /\ route'[d][r] = "executed"
  <2>1. pc[d][Group(r)] = "routes" /\ Group(r) \in Groups
    BY <1>2, GroupAssumption DEF TInv, Awaited, AwaitedRoute, Group
  <2>2. \A s \in traded : SameMessage(s.d, d) /\ s.d # d => Lapsed(d)
    BY <2>1 DEF RepeatInv, Cleared
  <2>3. now \in Int /\ here.d = d /\ here.at = now
    BY <1>0 DEF TypeOK
  <2>4. \A e \in Deliveries : Lapsed(e) => Lapsed(e)'
    BY <1>1 DEF Lapsed, SameMessage
  <2>5. Kept'
    <3> SUFFICES ASSUME NEW s \in traded'
                 PROVE  /\ s.at <= now
                        /\ InFlight(s.d)' \/ (\E k \in keys : Same(s.d, k)) \/ Lapsed(s.d)'
      BY <1>1 DEF Kept, Same
    <3>1. CASE s \in traded
      BY <1>4, <1>5, <2>4, <3>1 DEF RepeatInv, Kept, Moments
    <3>2. CASE s = here
      <4>1. InFlight(d)'
        BY <1>1, <1>7, <2>1 DEF InFlight
      <4> QED
        BY <2>3, <3>2, <4>1
    <3> QED
      BY <1>7, <3>1, <3>2
  <2>6. Cleared'
    <3> SUFFICES ASSUME NEW e \in Deliveries, NEW g \in Groups,
                        pc[e][g] \in {"next", "routes", "save"},
                        NEW s \in traded', SameMessage(s.d, e), s.d # e
                 PROVE  Lapsed(e)'
      BY <1>1 DEF Cleared, SameMessage
    <3>1. e = d
      BY <2>1 DEF RepeatInv, OneAtATime, Active
    <3>2. s \in traded
      BY <1>7, <2>3, <3>1
    <3> QED
      BY <2>2, <2>4, <3>1, <3>2
  <2>7. RepeatOutlivesKey'
    <3> SUFFICES ASSUME NEW s \in traded', NEW t \in traded',
                        SameMessage(s.d, t.d), s.d # t.d, s.at <= t.at
                 PROVE  \E e \in keyed : SameMessage(e.d, s.d) /\ e.at + TTL < t.at
      BY <1>1 DEF RepeatOutlivesKey, SameMessage
    <3>1. CASE s \in traded /\ t \in traded
      BY <3>1 DEF RepeatInv, RepeatOutlivesKey
    <3>2. CASE s \in traded /\ t = here
      BY <2>2, <2>3, <3>2 DEF Lapsed, SameMessage
    <3>3. CASE s = here /\ t \in traded
      <4>1. t.at = now
        BY <1>5, <2>3, <3>3 DEF RepeatInv, Kept, Moments
      <4>2. SameMessage(t.d, d) /\ t.d # d
        BY <2>3, <3>3 DEF SameMessage
      <4> QED
        BY <2>2, <2>3, <3>3, <4>1, <4>2 DEF Lapsed
    <3>4. CASE s = here /\ t = here
      BY <3>4
    <3> QED
      BY <1>7, <3>1, <3>2, <3>3, <3>4
  <2>8. Unclashing'
    BY <1>1 DEF RepeatInv, Unclashing, SameMessage
  <2> QED
    BY <1>3, <2>5, <2>6, <2>7, <2>8 DEF RepeatInv
<1> QED
  BY <1>2, <1>6, <1>7

\* Every other step of a delivery, of the clock, of the cleanup and of an order.
LEMMA RepeatNext ==
  Orderly /\ RepeatInv /\ TInv /\ TypeOK' /\ IInv /\ [Next]_vars => RepeatInv'
<1> SUFFICES ASSUME Orderly, RepeatInv, TInv, TypeOK', IInv, [Next]_vars PROVE RepeatInv'
  OBVIOUS
<1>0. TypeOK /\ KeysExplained /\ now \in Int
  BY DEF IInv, TypeOK
<1>1. ASSUME NEW d \in Deliveries, Receive(d) PROVE RepeatInv'
  <2>1. UNCHANGED <<msg, now, keys, route, keyed, traded>>
    BY <1>1 DEF Receive, hist
  <2>2. PICK n \in [Groups -> 0..MaxStrategies] :
          pc' = [pc EXCEPT ![d] = [g \in Groups |-> IF n[g] = 0 THEN "done" ELSE "check"]]
    BY <1>1 DEF Receive
  <2>3. \A e \in Deliveries : \A g \in Groups : pc[e][g] \in {"waiting", "done"}
    BY <1>1 DEF Receive, Idle, Orderly
  <2>4. \A e \in Deliveries : \A g \in Groups :
          pc'[e][g] = IF e # d THEN pc[e][g] ELSE IF n[g] = 0 THEN "done" ELSE "check"
    BY <1>0, <2>2 DEF TypeOK
  <2>5. OneAtATime'
    BY <2>3, <2>4 DEF OneAtATime, Active
  <2>6. \A s \in traded : ~InFlight(s.d)
    <3> SUFFICES ASSUME NEW s \in traded, NEW r \in Routes PROVE pc[s.d][Group(r)] # "routes"
      BY DEF InFlight
    <3>1. s.d \in Deliveries /\ Group(r) \in Groups
      BY <1>0, GroupAssumption DEF TypeOK, Moments, Group
    <3> QED
      BY <2>3, <3>1
  <2>7. \A e \in Deliveries : \A g \in Groups : pc'[e][g] \notin {"next", "routes", "save"}
    BY <2>3, <2>4
  <2> QED
    BY <1>0, <2>1, <2>5, <2>6, <2>7, RepeatStays DEF Same
<1>2. ASSUME NEW d \in Deliveries, NEW g \in Groups, CheckMessage(d, g) PROVE RepeatInv'
  <2>1. UNCHANGED <<msg, now, keys, route, keyed, traded>>
    BY <1>2 DEF CheckMessage
  <2>2. PICK to \in {"next", "done"} : Move(d, g, "check", to) /\ (to = "next" => ~Seen(d))
    BY <1>2 DEF CheckMessage
  <2>3. /\ pc[d][g] = "check"
        /\ \A e \in Deliveries : \A q \in Groups :
             pc'[e][q] = IF e = d /\ q = g THEN to ELSE pc[e][q]
    BY <1>0, <2>2, Moved DEF GroupPc
  <2>4. OneAtATime'
    BY <2>3, OneActive DEF RepeatInv, Active
  <2>5. ASSUME NEW s \in traded, InFlight(s.d)
        PROVE  InFlight(s.d)'
    <3>1. PICK r \in Routes : route[s.d][r] = "executed" /\ pc[s.d][Group(r)] = "routes"
      BY <2>5 DEF InFlight
    <3>2. s.d \in Deliveries /\ Group(r) \in Groups
      BY <1>0, GroupAssumption DEF TypeOK, Moments, Group
    <3>3. pc'[s.d][Group(r)] = "routes"
      BY <2>3, <3>1, <3>2
    <3> QED
      BY <2>1, <3>1, <3>3 DEF InFlight
  <2>6. ASSUME NEW e \in Deliveries, NEW q \in Groups, pc'[e][q] \in {"next", "routes", "save"}
        PROVE  \/ pc[e][q] \in {"next", "routes", "save"}
               \/ \A s \in traded : SameMessage(s.d, e) /\ s.d # e => Lapsed(e)
    BY <1>0, <2>2, <2>3, <2>6, CheckClears
  <2> QED
    BY <1>0, <2>1, <2>4, <2>5, <2>6, RepeatStays DEF Same
<1>3. ASSUME NEW d \in Deliveries, NEW g \in Groups, CreateStrategy(d, g) PROVE RepeatInv'
  <2>1. UNCHANGED <<msg, now, keys, keyed, traded>>
    BY <1>3 DEF CreateStrategy, hist
  <2>2. PICK to \in {"routes", "done"} : Move(d, g, "next", to)
    BY <1>3 DEF CreateStrategy
  <2>3. /\ pc[d][g] = "next"
        /\ \A e \in Deliveries : \A q \in Groups :
             pc'[e][q] = IF e = d /\ q = g THEN to ELSE pc[e][q]
    BY <1>0, <2>2, Moved DEF GroupPc
  <2>4. OneAtATime'
    BY <2>3, OneActive DEF RepeatInv, Active
  <2>5. \A e \in Deliveries : \A q \in Routes : e # d => route'[e][q] = route[e][q]
    BY <1>0, <1>3 DEF CreateStrategy, TypeOK
  <2>6. \A s \in traded : InFlight(s.d) => InFlight(s.d)'
    <3> SUFFICES ASSUME NEW s \in traded, NEW r \in Routes,
                        route[s.d][r] = "executed", pc[s.d][Group(r)] = "routes"
                 PROVE  route'[s.d][r] = "executed" /\ pc'[s.d][Group(r)] = "routes"
      BY DEF InFlight
    <3>1. s.d \in Deliveries /\ Group(r) \in Groups
      BY <1>0, GroupAssumption DEF TypeOK, Moments, Group
    <3>2. s.d # d
      BY <2>3, <3>1 DEF Orderly, OneParser
    <3> QED
      BY <2>3, <2>5, <3>1, <3>2
  <2>7. \A e \in Deliveries : \A q \in Groups :
          pc'[e][q] \in {"next", "routes", "save"} => pc[e][q] \in {"next", "routes", "save"}
    BY <2>3
  <2> QED
    BY <1>0, <2>1, <2>4, <2>6, <2>7, RepeatStays DEF Same
<1>4. ASSUME NEW d \in Deliveries, NEW g \in Groups, WriteKey(d, g) PROVE RepeatInv'
  <2>1. UNCHANGED <<msg, now, route, traded>> /\ keyed \subseteq keyed'
    BY <1>4 DEF WriteKey
  <2>2. /\ pc[d][g] = "routes"
        /\ \A e \in Deliveries : \A q \in Groups :
             pc'[e][q] = IF e = d /\ q = g THEN "save" ELSE pc[e][q]
    BY <1>0, <1>4, Moved DEF WriteKey, GroupPc
  <2>3. OneAtATime'
    BY <2>2, OneActive DEF RepeatInv, Active
  <2>4. keys \subseteq keys' /\ (Executed(d, g) => \E k \in keys' : Same(d, k))
    BY <1>0, <1>4, <2>1, RowLeft DEF WriteKey, RepeatInv, Orderly
  <2>5. ASSUME NEW s \in traded, InFlight(s.d)
        PROVE  InFlight(s.d)' \/ \E k \in keys' : Same(s.d, k)
    <3>1. PICK r \in Routes : route[s.d][r] = "executed" /\ pc[s.d][Group(r)] = "routes"
      BY <2>5 DEF InFlight
    <3>2. s.d \in Deliveries /\ Group(r) \in Groups
      BY <1>0, GroupAssumption DEF TypeOK, Moments, Group
    <3>3. CASE s.d # d
      BY <2>1, <2>2, <3>1, <3>2, <3>3 DEF InFlight
    <3>4. CASE s.d = d
      <4>1. Group(r) = g
        BY <3>2 DEF Orderly, OneParser
      <4>2. Executed(d, g)
        BY <3>1, <3>4, <4>1 DEF Executed, RoutesOf, Group
      <4> QED
        BY <2>4, <3>4, <4>2
    <3> QED
      BY <3>3, <3>4
  <2>6. \A e \in Deliveries : \A q \in Groups :
          pc'[e][q] \in {"next", "routes", "save"} => pc[e][q] \in {"next", "routes", "save"}
    BY <2>2
  <2> QED
    BY <1>0, <2>1, <2>3, <2>4, <2>5, <2>6, RepeatStays
<1>5. ASSUME NEW d \in Deliveries, NEW g \in Groups, SaveStrategy(d, g) PROVE RepeatInv'
  <2>1. UNCHANGED <<msg, now, keys, route, keyed, traded>>
    BY <1>5 DEF SaveStrategy, hist
  <2>2. PICK to \in {"next", "done"} : Move(d, g, "save", to)
    BY <1>5 DEF SaveStrategy
  <2>3. /\ pc[d][g] = "save"
        /\ \A e \in Deliveries : \A q \in Groups :
             pc'[e][q] = IF e = d /\ q = g THEN to ELSE pc[e][q]
    BY <1>0, <2>2, Moved DEF GroupPc
  <2>4. OneAtATime'
    BY <2>3, OneActive DEF RepeatInv, Active
  <2>5. ASSUME NEW s \in traded, InFlight(s.d)
        PROVE  InFlight(s.d)'
    <3>1. PICK r \in Routes : route[s.d][r] = "executed" /\ pc[s.d][Group(r)] = "routes"
      BY <2>5 DEF InFlight
    <3>2. s.d \in Deliveries /\ Group(r) \in Groups
      BY <1>0, GroupAssumption DEF TypeOK, Moments, Group
    <3>3. pc'[s.d][Group(r)] = "routes"
      BY <2>3, <3>1, <3>2
    <3> QED
      BY <2>1, <3>1, <3>3 DEF InFlight
  <2>6. \A e \in Deliveries : \A q \in Groups :
          pc'[e][q] \in {"next", "routes", "save"} => pc[e][q] \in {"next", "routes", "save"}
    BY <2>3
  <2> QED
    BY <1>0, <2>1, <2>4, <2>5, <2>6, RepeatStays DEF Same
<1>6. ASSUME NEW d \in Deliveries, NEW r \in Routes,
             StartRoute(d, r) \/ DedupCheck(d, r) \/ PreCheck(d, r)
      PROVE  RepeatInv'
  <2>1. UNCHANGED <<msg, now, keys, pc, keyed, traded>>
    BY <1>6 DEF StartRoute, DedupCheck, PreCheck, hist
  <2>2. PICK from \in {"start", "dedup", "precheck"}, to \in RoutePc : Step(d, r, from, to)
    <3>1. {"error", "filtered", "dedup", "simulated", "precheck", "skipped", "open",
           "executed", "failed"} \subseteq RoutePc
      BY DEF RoutePc, Result
    <3> QED
      BY <1>6, <3>1 DEF StartRoute, DedupCheck, PreCheck
  <2>3. \A e \in Deliveries : \A q \in Routes :
          route[e][q] = "executed" => route'[e][q] = "executed"
    BY <1>0, <2>2, Stepped
  <2>4. OneAtATime'
    BY <2>1 DEF RepeatInv, OneAtATime, Active
  <2>5. \A s \in traded : InFlight(s.d) => InFlight(s.d)'
    BY <1>0, <2>1, <2>3 DEF InFlight, TypeOK, Moments
  <2> QED
    BY <1>0, <2>1, <2>4, <2>5, RepeatStays DEF Same
<1>7. ASSUME NEW d \in Deliveries, NEW r \in Routes, OpenOrder(d, r) PROVE RepeatInv'
  BY <1>7, TradeKeeps
<1>8. CASE Tick
  <2>1. UNCHANGED <<msg, keys, pc, route, keyed, traded>> /\ now' >= now
    BY <1>0, <1>8 DEF Tick, flow, hist
  <2>2. OneAtATime'
    BY <2>1 DEF RepeatInv, OneAtATime, Active
  <2>3. \A s \in traded : InFlight(s.d) => InFlight(s.d)'
    BY <2>1 DEF InFlight
  <2> QED
    BY <1>0, <2>1, <2>2, <2>3, RepeatStays DEF Same
<1>9. CASE CleanupExpiredKeys
  <2>1. UNCHANGED <<msg, now, pc, route, keyed, traded>> /\ keys' = keys \ Expired
    BY <1>9 DEF CleanupExpiredKeys, flow, hist
  <2>2. OneAtATime'
    BY <2>1 DEF RepeatInv, OneAtATime, Active
  <2>3. \A s \in traded : InFlight(s.d) => InFlight(s.d)'
    BY <2>1 DEF InFlight
  <2>4. ASSUME NEW s \in traded, NEW k \in keys, Same(s.d, k)
        PROVE  (\E j \in keys' : Same(s.d, j)) \/ Lapsed(s.d)
    <3>1. s.d \in Deliveries
      BY <1>0 DEF TypeOK, Moments
    <3>2. CASE k \in Expired
      BY <1>0, <2>4, <3>1, <3>2, OldRow DEF Expired
    <3> QED
      BY <2>1, <2>4, <3>2
  <2> QED
    BY <1>0, <2>1, <2>2, <2>3, <2>4, RepeatStays
<1>10. CASE (\E o \in orders : Progress(o)) \/ UNCHANGED vars
  <2>1. UNCHANGED <<msg, now, keys, pc, route, keyed, traded>>
    BY <1>10 DEF Progress, vars, flow, hist
  <2>2. OneAtATime'
    BY <2>1 DEF RepeatInv, OneAtATime, Active
  <2>3. \A s \in traded : InFlight(s.d) => InFlight(s.d)'
    BY <2>1 DEF InFlight
  <2> QED
    BY <1>0, <2>1, <2>2, <2>3, RepeatStays DEF Same
<1> QED
  BY <1>1, <1>2, <1>3, <1>4, <1>5, <1>6, <1>7, <1>8, <1>9, <1>10 DEF Next, Processing, Executing

\* Where messages come one after the other, every key insert works and no
\* two messages share a channel or a content, a message is traded twice only
\* after a key of it has outlived its TTL, for any lifetime of the key, any
\* number of strategies and routes, whatever lookups, creates and executions
\* fail.
THEOREM RepeatsWaitForKey ==
  ASSUME Orderly
  PROVE  Spec /\ Unclashing => []RepeatOutlivesKey
<1>1. RepeatInv => RepeatOutlivesKey
  BY DEF RepeatInv
<1>2. TInv /\ TInv' /\ IInv /\ [Next]_vars => IInv'
  BY IInvNext DEF TInv, Orderly
<1>3. TInv /\ TInv' /\ IInv /\ RepeatInv /\ [Next]_vars => RepeatInv'
  BY RepeatNext DEF TInv
<1> QED
  BY <1>1, <1>2, <1>3, TInvInit, TInvNext, IInvInit, RepeatInit, PTL DEF Spec

=============================================================================
