--------------------------- MODULE InstanceRegistry ---------------------------
(***************************************************************************)
(* One exchange instance, Gate or Lighter: ExchangeInstanceManager starts, *)
(* replaces and removes its exchange objects, each with the private stream *)
(* of GateIOWebSocket or LighterWsStateClient; TradeExecutor wires the     *)
(* objects it finds when the process starts.  An entry order placed        *)
(* through the instance fills whenever the exchange likes.                 *)
(***************************************************************************)
EXTENDS Integers, FiniteSets

CONSTANTS
  Updates,    \* numbered requests that create, change or delete the instance
  LinkFaults  \* bound of connections and tokens that fail

ASSUME RegistryAssumption ==
  Updates \subseteq Nat \ {0} /\ IsFiniteSet(Updates) /\ LinkFaults \in Nat

VARIABLES
  brand,     \* "gate" or "lighter"
  dbRow,      \* ExchangeInstance.status, or gone
  entry,      \* the object in the map of exchanges, NoObject without one
  made,       \* objects made so far
  conn,       \* the stream of each object
  should,     \* shouldReconnect of each
  setup,      \* initialize and each handleUpdate: where it is, its object
  wired,      \* objects with a pipeline and a reconcile on reconnect
  rest,       \* the entry order: none, resting, filled, handled
  waitsOn,    \* the object whose fill listener the open chain waits on
  joining,    \* objects whose subscriptions the exchange has not taken up
  asking,     \* objects that are to reconcile the pending orders
  crossed, failed, ghosts, missed, \* history: what went wrong
  linkFaults

registry == <<brand, dbRow, entry, made>>
entryOrder   == <<rest, waitsOn, wired>>
mishaps == <<crossed, failed, ghosts, missed>>
registryVars == <<registry, conn, should, joining, asking, setup, entryOrder,
                  mishaps, linkFaults>>

NoObject == 0
Boot == 0  \* the start of the process; updates are numbered from 1
Tasks == Updates \cup {Boot}
\* Each task makes one object at most.
Objects == 1..Cardinality(Tasks)

\* A socket that is open or will be: nobody has closed it for good.
Alive(o) == conn[o] # "off"
Busy == {t \in Tasks : setup[t].pc \notin {"idle", "done", "wired"}}

RegistryInit ==
  /\ brand \in {"gate", "lighter"} /\ dbRow \in {"active", "inactive"}
  /\ entry = NoObject /\ made = 0
  /\ conn = [o \in Objects |-> "off"] /\ should = [o \in Objects |-> FALSE]
  /\ joining = {} /\ asking = {}
  /\ setup = [t \in Tasks |-> [pc |-> IF t = Boot THEN "read" ELSE "idle",
                               object |-> NoObject]]
  /\ wired = {} /\ rest = "none" /\ waitsOn = NoObject
  /\ crossed = FALSE /\ failed = {} /\ ghosts = {} /\ missed = {} /\ linkFaults = 0

LinkFault == linkFaults < LinkFaults /\ linkFaults' = linkFaults + 1
AtTask(t, pc) == setup[t].pc = pc
TaskTo(t, pc) == setup' = [setup EXCEPT ![t].pc = pc]
Conn(o, state) == conn' = [conn EXCEPT ![o] = state]

-----------------------------------------------------------------------------
(* ExchangeInstanceManager *)

\* disconnect: the stream of Lighter that waits for its token connects all the
\* same when it comes.
Disconnect(o) ==
  /\ should' = [should EXCEPT ![o] = FALSE]
  /\ joining' = joining \ {o}
  /\ IF conn[o] = "token"
     THEN ghosts' = ghosts \cup {o} /\ UNCHANGED conn
     ELSE Conn(o, "off") /\ UNCHANGED ghosts

\* Mutant: the object is taken out of the map and not stopped.
UnregisterOnly == entry' = NoObject /\ UNCHANGED <<conn, should, joining, ghosts>>

\* unregisterExchange: stop, then delete.
Unregister ==
  /\ entry' = NoObject
  /\ IF entry = NoObject THEN UNCHANGED <<conn, should, joining, ghosts>>
                         ELSE Disconnect(entry)

\* The routes write the row, then call handleUpdate, which unregisters first.
HandleUpdate(u, row) ==
  /\ AtTask(u, "idle") /\ dbRow # "gone"
  /\ \A v \in Updates : v < u => ~AtTask(v, "idle")
  /\ dbRow' = row /\ Unregister
  /\ TaskTo(u, IF row = "gone" THEN "done" ELSE "read")
  /\ crossed' = (crossed \/ Busy # {})
  /\ UNCHANGED <<brand, made, asking, entryOrder, failed, missed, linkFaults>>

\* The row is read; an active one gets an object, whose start begins with the
\* time of the server or a check of the signer.
MakeObject(t) ==
  /\ AtTask(t, "read")
  /\ IF dbRow # "active" THEN TaskTo(t, "done") /\ UNCHANGED made
     ELSE /\ made' = made + 1
          /\ setup' = [setup EXCEPT ![t] = [pc |-> "start", object |-> made + 1]]
  /\ UNCHANGED <<brand, dbRow, entry, conn, should, joining, asking, entryOrder, mishaps,
                 linkFaults>>

Register(t) == entry' = setup[t].object

\* GateIOExchange.start resolves while its stream connects; LighterExchange
\* is registered once its stream was up and its transactions are reconciled.
StartObject(t) ==
  /\ AtTask(t, "start")
  /\ should' = [should EXCEPT ![setup[t].object] = TRUE]
  /\ IF brand = "gate"
     THEN Conn(setup[t].object, "dialing") /\ Register(t) /\ TaskTo(t, "done")
     ELSE /\ Conn(setup[t].object, "token") /\ TaskTo(t, "connect")
          /\ UNCHANGED entry
  /\ UNCHANGED <<brand, dbRow, made, joining, asking, entryOrder, mishaps, linkFaults>>

StartEnds(t) ==
  /\ AtTask(t, "linked") /\ Register(t) /\ TaskTo(t, "done")
  /\ UNCHANGED <<brand, dbRow, made, conn, should, joining, asking, entryOrder, mishaps,
                 linkFaults>>

\* reconcileStartup throws: the stream is disconnected, the error logged.
StartFails(t) ==
  /\ AtTask(t, "linked") /\ LinkFault /\ Disconnect(setup[t].object)
  /\ TaskTo(t, "done")
  /\ UNCHANGED <<registry, asking, entryOrder, crossed, failed, missed>>

\* wireProtectionPipelines, once, over the objects registered at that time.
Wire ==
  /\ AtTask(Boot, "done") /\ TaskTo(Boot, "wired")
  /\ wired' = {entry} \ {NoObject}
  /\ UNCHANGED <<registry, conn, should, joining, asking, rest, waitsOn, mishaps,
                 linkFaults>>

-----------------------------------------------------------------------------
(* The streams *)

\* Mutant: only a stream that was up is connected again.
RetryIfUp(o) == IF should[o] /\ conn[o] = "up" THEN "backoff" ELSE "off"

\* onClose and scheduleReconnect.
Retry(o) == IF should[o] THEN "backoff" ELSE "off"

\* Whoever awaits the first connect of this object.
Awaiting(o) == {t \in Tasks : AtTask(t, "connect") /\ setup[t].object = o}
Awaited(o, pc) ==
  setup' = [t \in Tasks |-> IF t \in Awaiting(o) THEN [setup[t] EXCEPT !.pc = pc]
                                                ELSE setup[t]]

\* An attempt fails.  The first connect of LighterExchange.start throws, and
\* the next attempt is scheduled all the same.
Fails(o) ==
  /\ LinkFault /\ Conn(o, Retry(o)) /\ Awaited(o, "done")
  /\ failed' = IF Awaiting(o) # {} THEN failed \cup {o} ELSE failed
  /\ UNCHANGED <<joining, asking>>

StreamStep ==
  UNCHANGED <<registry, should, waitsOn, wired, crossed, ghosts>>

\* The auth token of LighterWsStateClient.connect comes, then the handshake is
\* made; either may fail.
Connecting(o) ==
  /\ \/ conn[o] = "token" /\ Conn(o, "dialing")
     \/ conn[o] = "dialing" /\ Conn(o, "login")
  /\ StreamStep /\ UNCHANGED <<joining, asking, setup, rest, failed, missed, linkFaults>>

\* The login, or the token of the subscription, is refused.
ConnectFails(o) ==
  /\ conn[o] \in {"token", "dialing", "login"} /\ Fails(o)
  /\ StreamStep /\ UNCHANGED <<rest, missed>>

\* Logged in, 'connected' is emitted, on which a wired object asks for the
\* orders that are pending, and the channels are subscribed.
LogIn(o) ==
  /\ conn[o] = "login" /\ Conn(o, "up") /\ Awaited(o, "linked")
  /\ joining' = joining \cup {o}
  /\ asking' = IF o \in wired THEN asking \cup {o} ELSE asking
  /\ StreamStep /\ UNCHANGED <<rest, failed, missed, linkFaults>>

\* The exchange takes up the subscriptions.
Subscribed(o) ==
  /\ o \in joining /\ joining' = joining \ {o}
  /\ StreamStep /\ UNCHANGED <<conn, asking, setup, rest, failed, missed, linkFaults>>

\* reconcilePendingOrders asks the exchange for the order.  An answer of before
\* the subscription misses a fill in between; a failed query is logged.
AskPending(o) ==
  /\ o \in asking /\ asking' = asking \ {o}
  /\ \/ /\ rest' = IF rest = "filled" THEN "handled" ELSE rest
        /\ missed' = IF rest = "resting" /\ (o \in joining \/ conn[o] # "up")
                     THEN missed \cup {o} ELSE missed \ {o}
        /\ UNCHANGED linkFaults
     \/ LinkFault /\ missed' = missed \cup {o} /\ UNCHANGED rest
  /\ StreamStep /\ UNCHANGED <<conn, joining, setup, failed>>

\* The link goes: with a close, or without one.  LighterExchange.start has its
\* connect resolved by the token that comes after the close.
Drop(o) ==
  /\ conn[o] \in {"login", "up"} /\ LinkFault /\ joining' = joining \ {o}
  /\ \/ Conn(o, Retry(o)) /\ Awaited(o, "linked")
     \/ conn[o] = "up" /\ Conn(o, "deaf") /\ UNCHANGED setup
  /\ StreamStep /\ UNCHANGED <<asking, rest, failed, missed>>

\* Only LighterWsStateClient watches for silence.
Watchdog(o) ==
  /\ brand = "lighter" /\ conn[o] = "deaf" /\ should[o] /\ Conn(o, "backoff")
  /\ StreamStep
  /\ UNCHANGED <<joining, asking, setup, rest, failed, missed, linkFaults>>

Reconnect(o) ==
  /\ conn[o] = "backoff" /\ Conn(o, IF brand = "gate" THEN "dialing" ELSE "token")
  /\ StreamStep
  /\ UNCHANGED <<joining, asking, setup, rest, failed, missed, linkFaults>>

-----------------------------------------------------------------------------
(* The order *)

OrderStep == UNCHANGED <<registry, conn, should, joining, asking, setup, wired,
                         crossed, failed, ghosts, linkFaults>>

\* An order placed through the instance; the open chain asks for its status
\* once and waits on the object.
PlaceEntry ==
  /\ rest = "none" /\ entry # NoObject /\ AtTask(Boot, "wired")
  /\ rest' = "resting" /\ waitsOn' = entry
  /\ missed' = IF entry \in joining THEN missed \cup {entry} ELSE missed
  /\ OrderStep

\* The fill is pushed on every stream that is subscribed: the listener of the
\* chain answers it on its own object, the handlers where a pipeline is wired.
EntryFills ==
  /\ rest = "resting"
  /\ rest' = IF \E o \in Objects \ joining : conn[o] = "up" /\ o \in wired \cup {waitsOn}
             THEN "handled" ELSE "filled"
  /\ OrderStep /\ UNCHANGED <<waitsOn, missed>>

-----------------------------------------------------------------------------

RegistryNext ==
  \/ \E u \in Updates, row \in {"active", "inactive", "gone"} : HandleUpdate(u, row)
  \/ \E t \in Tasks :
       MakeObject(t) \/ StartObject(t) \/ StartFails(t) \/ StartEnds(t)
  \/ Wire \/ PlaceEntry \/ EntryFills
  \/ \E o \in Objects :
       \/ Connecting(o) \/ ConnectFails(o) \/ LogIn(o) \/ Subscribed(o)
       \/ AskPending(o) \/ Drop(o) \/ Watchdog(o) \/ Reconnect(o)

RegistrySpec == RegistryInit /\ [][RegistryNext]_registryVars

\* Timers fire, handshakes and queries end; the bounded failures are the
\* network's.
RegistryFairness ==
  \A o \in Objects :
    /\ WF_registryVars(Connecting(o)) /\ WF_registryVars(LogIn(o))
    /\ WF_registryVars(AskPending(o)) /\ WF_registryVars(Watchdog(o))
    /\ WF_registryVars(Reconnect(o))

-----------------------------------------------------------------------------
(* Properties *)

\* Every variable has the values the code can give it.
RegistryTypeOK ==
  /\ brand \in {"gate", "lighter"} /\ dbRow \in {"active", "inactive", "gone"}
  /\ entry \in {NoObject} \cup Objects /\ made \in 0..Cardinality(Tasks)
  /\ conn \in [Objects -> {"off", "token", "dialing", "login", "up", "deaf", "backoff"}]
  /\ should \in [Objects -> BOOLEAN]
  /\ setup \in [Tasks -> [pc : {"idle", "read", "start", "connect", "linked", "done",
                                "wired"},
                          object : {NoObject} \cup Objects]]
  /\ rest \in {"none", "resting", "filled", "handled"}
  /\ waitsOn \in {NoObject} \cup Objects /\ crossed \in BOOLEAN
  /\ wired \cup joining \cup asking \cup failed \cup ghosts \cup missed \subseteq Objects

\* No stream of a replaced or removed object lives on beside the registered
\* one, where it would handle every event a second time; except that of a
\* Lighter object whose start failed, or that was stopped while it waited for
\* its token, and where updates crossed.  An instance switched off or deleted
\* has no registered object.
OneStream ==
  crossed \/
    /\ \A o \in Objects : Alive(o) =>
         \/ o = entry \/ o \in failed \cup ghosts
         \/ \E t \in Busy : setup[t].object = o
    /\ entry # NoObject => dbRow = "active"

\* A fill is answered, however often the stream of the instance fails, unless
\* the instance was changed after the process started (the new object is not
\* wired), its last reconcile failed, or was made before the subscriptions were
\* taken up, or the stream of Gate is dead without a close.
FillSeen ==
  rest = "filled" ~>
    (rest = "handled" \/ entry \notin wired \/ entry \in missed
      \/ (brand = "gate" /\ conn[entry] = "deaf"))

=============================================================================
