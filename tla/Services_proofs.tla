---------------------------- MODULE Services_proofs ----------------------------
(***************************************************************************)
(* Theorems of the services around the venues: the market data of one Gate *)
(* contract, for any set of listeners and any bounds; the private stream   *)
(* of an exchange instance, for any number of updates and failures; the    *)
(* rows of a backtest, for any number of restarts; the subscriptions of    *)
(* the TradFi socket, for any markets.  At the end, the services side by   *)
(* side: each keeps its specification, and every variable its values.      *)
(***************************************************************************)
EXTENDS MCServices, LighterOrder_proofs, Venues_proofs, FiniteSetTheorems, TLAPS

-----------------------------------------------------------------------------
(* GateFeed: the inductive invariant behind PriceNeverOlder *)

Sockets == Connected \cup {"none", "connecting", "closed"}

FeedType ==
  [id : Nat, gen : Nat, polling : BOOLEAN, timer : BOOLEAN,
   socket : Sockets, floor : Nat, reconnect : BOOLEAN]

PollType == [feed : Nat \ {0}, gen : Nat, since : Nat]

FeedTypes ==
  /\ feed \in FeedType /\ polls \subseteq PollType
  /\ latest \in Nat /\ quote \in Nat /\ feedsMade \in Nat
  /\ latest <= quote /\ feed.floor <= quote

\* Only a stream connects or polls.
NoStreamIdle == feed.id = 0 => feed = NoFeed

\* While the socket is connected nothing polls, and the hub shows no price
\* newer than the last one of the socket.
SocketLeads ==
  feed.socket \in Connected => ~feed.polling /\ latest <= feed.floor

\* The request that still counts: there is one at most, none while the timer
\* runs or the stream does not poll, and it was made after whatever is shown.
OneRequest ==
  /\ feed.timer => feed.polling
  /\ \A r \in polls : IsActive(r) =>
       /\ feed.polling /\ ~feed.timer
       /\ latest <= r.since
       /\ \A s \in polls : IsActive(s) => s = r

\* Requests know the streams and generations made so far.
RequestsKnown ==
  /\ feed.id <= feedsMade
  /\ \A r \in polls : /\ r.feed <= feedsMade /\ r.since <= quote
                      /\ r.feed = feed.id => r.gen <= feed.gen

FeedInv == FeedTypes /\ NoStreamIdle /\ SocketLeads /\ OneRequest /\ RequestsKnown

LEMMA SocketNames ==
  {"none", "connecting", "closed", "open", "mute", "refused"} \subseteq Sockets
BY DEF Sockets, Connected

LEMMA NoFeedType == NoFeed \in FeedType
<1>1. 0 \in Nat
  OBVIOUS
<1> QED
  BY <1>1, SocketNames, Zenon DEF NoFeed, FeedType

LEMMA StopPollingType ==
  ASSUME NEW f \in FeedType
  PROVE  StopPolling(f) \in FeedType
<1>1. f.gen + 1 \in Nat
  BY DEF FeedType
<1> QED
  BY <1>1, Zenon DEF StopPolling, FeedType

LEMMA StartPollingType ==
  ASSUME NEW f \in FeedType
  PROVE  StartPolling(f) \in FeedType
<1>1. f.gen + 1 \in Nat
  BY DEF FeedType
<1>2. [f EXCEPT !.polling = TRUE, !.gen = f.gen + 1] \in FeedType
  BY <1>1, Zenon DEF FeedType
<1> QED
  BY <1>2, Zenon DEF StartPolling

LEMMA FeedInvInit == GateFeedInit => FeedInv
<1> SUFFICES ASSUME GateFeedInit PROVE FeedInv
  OBVIOUS
<1>1. FeedTypes
  BY NoFeedType DEF GateFeedInit, FeedTypes, NoFeed
<1>2. NoStreamIdle /\ SocketLeads /\ OneRequest /\ RequestsKnown
  BY DEF GateFeedInit, NoStreamIdle, SocketLeads, OneRequest, RequestsKnown, NoFeed,
         Connected
<1> QED
  BY <1>1, <1>2 DEF FeedInv

\* Nothing the invariant speaks of, but for a feed that is the same.
LEMMA FeedSame ==
  ASSUME FeedInv, UNCHANGED <<feed, polls, latest, quote, feedsMade>>
  PROVE  FeedInv'
BY DEF FeedInv, FeedTypes, NoStreamIdle, SocketLeads, OneRequest, RequestsKnown, IsActive

\* The stream EnsureStream makes.
FirstOf(i) == [NoFeed EXCEPT !.id = i, !.gen = 1, !.socket = "connecting"]

\* A new stream has a number no request knows.
LEMMA NewStream ==
  ASSUME FeedInv, feedsMade' = feedsMade + 1, feed' = FirstOf(feedsMade + 1),
         UNCHANGED <<polls, latest, quote>>
  PROVE  FeedInv'
<1> USE DEF FeedInv
<1> DEFINE new == [id |-> feedsMade + 1, gen |-> 1, polling |-> FALSE, timer |-> FALSE,
                   socket |-> "connecting", floor |-> 0, reconnect |-> FALSE]
<1>1. feedsMade + 1 \in Nat /\ 1 \in Nat /\ 0 \in Nat /\ "connecting" \in Sockets
  BY SocketNames DEF FeedTypes
<1>2. new \in FeedType
  BY <1>1, Zenon DEF FeedType
<1>3. feed' = new
  BY Zenon DEF NoFeed, FirstOf
<1>4. /\ new.id = feedsMade + 1 /\ new.floor = 0 /\ new.socket = "connecting"
      /\ ~new.timer
  BY Zenon
<1> HIDE DEF new
<1>5. FeedTypes' /\ SocketLeads' /\ NoStreamIdle'
  BY <1>2, <1>3, <1>4 DEF SocketLeads, NoStreamIdle, FeedTypes, Connected
<1>6. ~\E r \in polls' : r.feed = feed'.id
  BY <1>3, <1>4 DEF FeedTypes, PollType, RequestsKnown
<1>7. OneRequest' /\ RequestsKnown'
  BY <1>3, <1>4, <1>6 DEF FeedTypes, PollType, OneRequest, RequestsKnown, IsActive
<1> QED
  BY <1>5, <1>7

\* Without a stream no request counts.
LEMMA StreamGone ==
  ASSUME FeedInv, latest' = 0, feed' = NoFeed, UNCHANGED <<polls, quote, feedsMade>>
  PROVE  FeedInv'
<1> USE DEF FeedInv
<1>1. FeedTypes'
  BY NoFeedType DEF FeedTypes, NoFeed
<1>2. NoStreamIdle' /\ SocketLeads' /\ OneRequest' /\ RequestsKnown'
  BY DEF FeedTypes, PollType, NoStreamIdle, SocketLeads, OneRequest, RequestsKnown,
         IsActive, NoFeed, Connected
<1> QED
  BY <1>1, <1>2

LEMMA HubKeeps ==
  ASSUME FeedInv, NEW l \in Listeners, HubStart \/ Subscribe(l) \/ Unsubscribe(l)
  PROVE  FeedInv' /\ (latest' = latest \/ latest' = 0)
BY FeedSame, NewStream, StreamGone
   DEF HubStart, Subscribe, Unsubscribe, EnsureStream, feedBounds, FirstOf

\* A request that is answered or fails leaves the timer of a stream that polls.
LEMMA RequestEnds ==
  ASSUME FeedInv, NEW r \in polls, polls' = polls \ {r}, Scheduled(r),
         latest' \in Nat, latest' <= quote, latest' = latest \/ IsActive(r),
         UNCHANGED <<quote, feedsMade>>
  PROVE  FeedInv'
<1> USE DEF FeedInv, IsActive
<1>1. CASE ~IsActive(r)
  <2>1. feed' = feed /\ latest' = latest
    BY <1>1 DEF Scheduled
  <2> QED
    BY <2>1 DEF FeedTypes, NoStreamIdle, SocketLeads, OneRequest, RequestsKnown
<1>2. CASE IsActive(r)
  <2>1. feed.polling /\ feed' = [feed EXCEPT !.timer = TRUE]
    BY <1>2 DEF Scheduled, OneRequest
  <2>2. feed' \in FeedType
    BY <2>1, Zenon DEF FeedTypes, FeedType
  <2>3. FeedTypes'
    BY <2>1, <2>2 DEF FeedTypes, FeedType
  <2>4. SocketLeads' /\ NoStreamIdle'
    BY <2>1 DEF FeedTypes, FeedType, SocketLeads, NoStreamIdle, NoFeed
  <2>5. ~\E s \in polls' : IsActive(s)'
    BY <1>2, <2>1 DEF FeedTypes, FeedType, OneRequest
  <2>6. OneRequest' /\ RequestsKnown'
    BY <2>1, <2>5 DEF FeedTypes, FeedType, OneRequest, RequestsKnown
  <2> QED
    BY <2>3, <2>4, <2>6
<1> QED
  BY <1>1, <1>2

LEMMA AnswerKeeps ==
  ASSUME FeedInv, NEW r \in polls, PollAnswer(r) \/ PollFails(r)
  PROVE  FeedInv' /\ latest' >= latest
<1> USE DEF FeedInv, feedBounds
<1>1. /\ polls' = polls \ {r} /\ Scheduled(r) /\ UNCHANGED <<quote, feedsMade>>
  BY DEF PollAnswer, PollFails
<1>2. /\ latest' \in Nat /\ latest' <= quote /\ latest' >= latest
      /\ latest' = latest \/ IsActive(r)
  BY DEF PollAnswer, PollFails, FeedTypes, PollType, OneRequest
<1> QED
  BY <1>1, <1>2, RequestEnds

\* A stream of whom no request counts sends one.
LEMMA RequestSent ==
  ASSUME FeedInv, feed' \in FeedType, feed'.floor = feed.floor,
         feed'.id = feed.id, feed'.gen >= feed.gen,
         feed'.polling, ~feed'.timer, feed'.socket \notin Connected,
         feed.id # 0, feed'.gen # feed.gen \/ ~\E s \in polls : IsActive(s),
         polls' = polls \cup {Request(feed')},
         UNCHANGED <<latest, quote, feedsMade>>
  PROVE  FeedInv'
<1> USE DEF FeedInv, FeedTypes
<1>1. Request(feed') = [feed |-> feed.id, gen |-> feed'.gen, since |-> quote]
  BY DEF Request
<1>2. Request(feed') \in PollType
  BY <1>1 DEF PollType, FeedType
<1>3. \A s \in polls' : IsActive(s)' => s = Request(feed')
  BY <1>1 DEF IsActive, RequestsKnown, PollType, FeedType
<1>4. FeedTypes' /\ NoStreamIdle' /\ SocketLeads'
  BY <1>2 DEF NoStreamIdle, SocketLeads
<1>5. OneRequest'
  BY <1>1, <1>3 DEF OneRequest
<1>6. RequestsKnown'
  BY <1>1 DEF RequestsKnown, PollType, FeedType
<1> QED
  BY <1>4, <1>5, <1>6

\* The timer asks for the next price.
LEMMA DueKeeps ==
  ASSUME FeedInv, PollDue
  PROVE  FeedInv' /\ latest' = latest
<1> USE DEF FeedInv, FeedTypes
<1>1. /\ feed.timer /\ feed' = [feed EXCEPT !.timer = FALSE]
      /\ polls' = polls \cup {Request(feed)}
      /\ UNCHANGED <<latest, quote, feedsMade>>
  BY DEF PollDue, feedBounds
<1>2. feed' \in FeedType
  BY <1>1, Zenon DEF FeedType
<1>3. feed.polling /\ feed.id # 0 /\ ~\E s \in polls : IsActive(s)
  BY <1>1 DEF OneRequest, NoStreamIdle, NoFeed
<1>4. /\ feed'.id = feed.id /\ feed'.gen = feed.gen /\ feed'.polling = feed.polling
      /\ ~feed'.timer /\ feed'.socket = feed.socket /\ feed'.floor = feed.floor
  BY <1>1 DEF FeedType
<1>5. Request(feed) = Request(feed') /\ feed.socket \notin Connected
  BY <1>1, <1>3, <1>4 DEF Request, SocketLeads
<1>6. /\ feed'.gen >= feed.gen /\ polls' = polls \cup {Request(feed')}
      /\ UNCHANGED <<latest, quote, feedsMade>>
  BY <1>1, <1>4, <1>5 DEF FeedType
<1> QED
  BY <1>2, <1>3, <1>4, <1>5, <1>6, RequestSent

\* A connection that fails or breaks hands over to polling.
LEMMA FallBackKeeps ==
  ASSUME FeedInv, feed.socket # "none", FallBack, UNCHANGED <<latest, quote, feedsMade>>
  PROVE  FeedInv'
<1> USE DEF FeedInv, FeedTypes
<1> DEFINE f == StartPolling(feed)
<1>1. f \in FeedType /\ feed' = [f EXCEPT !.socket = "closed", !.reconnect = TRUE]
  BY StartPollingType DEF FallBack
<1>2. feed' \in FeedType
  BY <1>1, SocketNames, Zenon DEF FeedType
<1>3. /\ feed'.id = f.id /\ feed'.gen = f.gen /\ feed'.polling = f.polling
      /\ feed'.timer = f.timer /\ feed'.floor = f.floor /\ feed'.socket = "closed"
  BY <1>1 DEF FeedType
<1>4. feed.id # 0 /\ "closed" \notin Connected
  BY DEF NoStreamIdle, NoFeed, Connected
<1>5. CASE feed.polling
  <2>1. f = feed /\ polls' = polls
    BY <1>5 DEF StartPolling, FallBack
  <2> QED
    BY <1>2, <1>3, <1>4, <2>1
       DEF NoStreamIdle, SocketLeads, OneRequest, RequestsKnown, IsActive
<1>6. CASE ~feed.polling
  <2>1. /\ f.id = feed.id /\ f.gen = feed.gen + 1 /\ f.polling /\ f.timer = feed.timer
        /\ f.floor = feed.floor
    BY <1>6 DEF StartPolling, FeedType
  <2>2. ~feed.timer /\ polls' = polls \cup {Request(f)} /\ Request(f) = Request(feed')
    BY <1>3, <1>6 DEF FallBack, OneRequest, Request
  <2> QED
    BY <1>2, <1>3, <1>4, <2>1, <2>2, RequestSent DEF FeedType
<1> QED
  BY <1>5, <1>6

\* The socket opens: whatever polling asked for does not count any more.
LEMMA OpensKeeps ==
  ASSUME FeedInv, SocketOpens
  PROVE  FeedInv' /\ latest' = latest
<1> USE DEF FeedInv, FeedTypes
<1> DEFINE f == IF feed.polling THEN StopPolling(feed) ELSE feed
<1>1. /\ feed.socket = "connecting" /\ feed' = [f EXCEPT !.socket = "open", !.floor = quote]
      /\ UNCHANGED <<polls, latest, quote, feedsMade>>
  BY DEF SocketOpens, feedBounds
<1>2. f \in FeedType
  BY StopPollingType
<1>3. feed' \in FeedType
  BY <1>1, <1>2, SocketNames, Zenon DEF FeedType
<1>4. /\ f.id = feed.id /\ ~f.polling /\ ~f.timer
      /\ f.gen = IF feed.polling THEN feed.gen + 1 ELSE feed.gen
  BY DEF StopPolling, OneRequest, FeedType
<1>5. /\ feed'.id = feed.id /\ feed'.gen = f.gen /\ ~feed'.polling /\ ~feed'.timer
      /\ feed'.floor = quote /\ feed'.socket = "open"
  BY <1>1, <1>2, <1>4 DEF FeedType
<1>6. feed.id # 0 /\ ~\E s \in polls : IsActive(s)'
  BY <1>1, <1>4, <1>5
     DEF NoStreamIdle, NoFeed, IsActive, OneRequest, RequestsKnown, PollType, FeedType
<1>7. FeedTypes' /\ NoStreamIdle' /\ SocketLeads' /\ OneRequest'
  BY <1>1, <1>3, <1>5, <1>6 DEF NoStreamIdle, SocketLeads, OneRequest, FeedType
<1>8. RequestsKnown'
  BY <1>1, <1>4, <1>5 DEF RequestsKnown, PollType, FeedType
<1> QED
  BY <1>1, <1>7, <1>8

\* The other steps of the socket change no polling.
LEMMA SocketKeeps ==
  ASSUME FeedInv, feed' \in FeedType, feed.socket # "none",
         feed'.id = feed.id, feed'.gen = feed.gen,
         feed'.polling = feed.polling, feed'.timer = feed.timer,
         feed'.floor <= quote,
         feed'.socket \in Connected => ~feed.polling /\ latest' <= feed'.floor,
         latest' \in Nat, latest' <= quote, latest' = latest \/ ~feed.polling,
         UNCHANGED <<polls, quote, feedsMade>>
  PROVE  FeedInv'
<1> USE DEF FeedInv, FeedTypes
<1>1. FeedTypes' /\ SocketLeads'
  BY DEF SocketLeads
<1>2. NoStreamIdle' /\ RequestsKnown'
  BY DEF NoStreamIdle, NoFeed, RequestsKnown
<1>3. OneRequest'
  BY DEF OneRequest, IsActive
<1> QED
  BY <1>1, <1>2, <1>3

LEMMA FaultKeeps ==
  ASSUME FeedInv, NEW fault \in {"mute", "refused"}, SocketFault(fault)
  PROVE  FeedInv' /\ latest' = latest
<1> USE DEF FeedInv, FeedTypes
<1>1. /\ feed.socket = "open" /\ feed' = [feed EXCEPT !.socket = fault]
      /\ UNCHANGED <<polls, latest, quote, feedsMade>>
  BY DEF SocketFault
<1>2. feed' \in FeedType
  BY <1>1, SocketNames, Zenon DEF FeedType
<1>3. /\ feed'.id = feed.id /\ feed'.gen = feed.gen /\ feed'.polling = feed.polling
      /\ feed'.timer = feed.timer /\ feed'.floor = feed.floor
  BY <1>1 DEF FeedType
<1> QED
  BY <1>1, <1>2, <1>3, SocketKeeps DEF SocketLeads, Connected

LEMMA ReconnectKeeps ==
  ASSUME FeedInv, ReconnectDue
  PROVE  FeedInv' /\ latest' = latest
<1> USE DEF FeedInv, FeedTypes
<1>1. /\ feed.reconnect
      /\ feed' = [feed EXCEPT !.reconnect = FALSE, !.socket = "connecting"]
      /\ UNCHANGED <<polls, latest, quote, feedsMade>>
  BY DEF ReconnectDue, feedBounds
<1>2. feed' \in FeedType
  BY <1>1, SocketNames, Zenon DEF FeedType
<1>3. /\ feed'.id = feed.id /\ feed'.gen = feed.gen /\ feed'.polling = feed.polling
      /\ feed'.timer = feed.timer /\ feed'.floor = feed.floor
      /\ feed'.socket = "connecting"
  BY <1>1 DEF FeedType
<1>4. feed.id # 0
  BY <1>1 DEF NoStreamIdle, NoFeed
<1>5. FeedTypes' /\ SocketLeads' /\ NoStreamIdle'
  BY <1>1, <1>2, <1>3, <1>4 DEF SocketLeads, NoStreamIdle, Connected
<1>6. OneRequest' /\ RequestsKnown'
  BY <1>1, <1>3 DEF OneRequest, RequestsKnown, IsActive
<1> QED
  BY <1>1, <1>5, <1>6

\* An update is not older than the last one, and so than what is shown.
LEMMA UpdateKeeps ==
  ASSUME FeedInv, Update
  PROVE  FeedInv' /\ latest' >= latest
<1> USE DEF FeedInv, FeedTypes
<1>1. PICK price \in feed.floor..quote :
        latest' = price /\ feed' = [feed EXCEPT !.floor = price]
  BY DEF Update
<1>2. /\ feed.socket = "open" /\ UNCHANGED <<polls, quote, feedsMade>>
  BY DEF Update, feedBounds
<1>3. price \in Nat /\ feed.floor <= price /\ price <= quote
  BY <1>1 DEF FeedType
<1>4. feed' \in FeedType
  BY <1>1, <1>3, Zenon DEF FeedType
<1>5. /\ feed'.id = feed.id /\ feed'.gen = feed.gen /\ feed'.polling = feed.polling
      /\ feed'.timer = feed.timer /\ feed'.floor = price
  BY <1>1 DEF FeedType
<1>6. ~feed.polling /\ latest <= feed.floor
  BY <1>2 DEF SocketLeads, Connected
<1> QED
  BY <1>1, <1>2, <1>3, <1>4, <1>5, <1>6, SocketKeeps DEF FeedType

LEMMA QuoteKeeps ==
  ASSUME FeedInv, QuoteMoves
  PROVE  FeedInv' /\ latest' = latest
BY DEF QuoteMoves, feedBounds, FeedInv, FeedTypes, FeedType, PollType, NoStreamIdle,
       SocketLeads, OneRequest, RequestsKnown, IsActive

\* Every step keeps the invariant, and shows nothing older.
LEMMA FeedInvNext ==
  FeedInv /\ [GateFeedNext]_gateFeedVars
    => FeedInv' /\ (latest # 0 /\ latest' # 0 => latest' >= latest)
<1> SUFFICES ASSUME FeedInv, [GateFeedNext]_gateFeedVars
             PROVE  FeedInv' /\ (latest # 0 /\ latest' # 0 => latest' >= latest)
  OBVIOUS
<1> USE DEF feedBounds
<1>1. latest \in Nat
  BY DEF FeedInv, FeedTypes
<1>2. ASSUME NEW l \in Listeners, Subscribe(l) \/ Unsubscribe(l)
      PROVE  FeedInv' /\ (latest' = latest \/ latest' = 0)
  BY <1>2, HubKeeps
<1>3. CASE HubStart
  BY <1>1, <1>3, FeedSame, NewStream DEF HubStart, EnsureStream, FirstOf
<1>4. CASE PollDue
  BY <1>1, <1>4, DueKeeps
<1>5. CASE SocketOpens
  BY <1>1, <1>5, OpensKeeps
<1>6. CASE ConnectionFails \/ SocketCloses \/ MuteSocketBreaks
  BY <1>1, <1>6, FallBackKeeps DEF ConnectionFails, SocketCloses, MuteSocketBreaks
<1>7. CASE ReconnectDue
  BY <1>1, <1>7, ReconnectKeeps
<1>8. CASE Update
  BY <1>1, <1>8, UpdateKeeps
<1>9. CASE QuoteMoves
  BY <1>1, <1>9, QuoteKeeps
<1>10. CASE \E r \in polls : PollAnswer(r) \/ PollFails(r)
  BY <1>1, <1>10, AnswerKeeps
<1>11. CASE \E fault \in {"mute", "refused"} : SocketFault(fault)
  BY <1>1, <1>11, FaultKeeps
<1>12. CASE UNCHANGED gateFeedVars
  BY <1>1, <1>12, FeedSame DEF gateFeedVars
<1> QED
  BY <1>1, <1>2, <1>3, <1>4, <1>5, <1>6, <1>7, <1>8, <1>9, <1>10, <1>11, <1>12
     DEF GateFeedNext

\* A price the hub shows is never replaced by an older one (the generations of
\* GateMarketDataStream's polling, and its socket taking over from it).
THEOREM HubNeverOlder == GateFeedSpec => PriceNeverOlder
<1>1. FeedInv /\ [GateFeedNext]_gateFeedVars
        => [latest # 0 /\ latest' # 0 => latest' >= latest]_gateFeedVars
  BY FeedInvNext
<1> QED
  BY <1>1, FeedInvInit, FeedInvNext, PTL DEF GateFeedSpec, PriceNeverOlder

-----------------------------------------------------------------------------
(* InstanceRegistry: the inductive invariant behind OneStream *)

\* Each object was made by one task, so there are names for all of them.
Makers == {t \in Tasks : setup[t].object # NoObject}
Counted == made = Cardinality(Makers)

\* A task has no object before it makes one, and one of its own from then on
\* until it is done.
TaskObjects == \A t \in Tasks :
  /\ setup[t].pc \in {"idle", "read"} => setup[t].object = NoObject
  /\ setup[t].pc \in {"start", "connect", "linked"} => setup[t].object # NoObject

\* While nothing crosses, one task at most is at work, for an active instance
\* without a registered object.
Alone == crossed \/ \A t \in Busy :
  /\ entry = NoObject /\ Busy = {t}
  /\ setup[t].pc # "read" => dbRow = "active"

RegistryCore == Counted /\ TaskObjects /\ Alone /\ OneStream
RegistryInv == RegistryTypeOK /\ RegistryCore

Steps == {"idle", "read", "start", "connect", "linked", "done", "wired"}
SetupType == [Tasks -> [pc : Steps, object : {NoObject} \cup Objects]]
Links == {"off", "token", "dialing", "login", "up", "deaf", "backoff"}

LEMMA TasksFinite ==
  /\ IsFiniteSet(Tasks) /\ Cardinality(Tasks) \in Nat /\ NoObject \notin Objects
  /\ Boot \in Tasks /\ Busy \subseteq Tasks
<1>1. IsFiniteSet(Tasks)
  <2>1. IsFiniteSet(Updates)
    BY RegistryAssumption
  <2>2. IsFiniteSet(Updates \cup {Boot})
    BY <2>1, FS_AddElement, Zenon
  <2> QED
    BY <2>2 DEF Tasks
<1> QED
  BY <1>1, FS_CardinalityType DEF Objects, NoObject, Tasks, Busy

\* A step of one task.
LEMMA TaskStep ==
  ASSUME setup \in SetupType, NEW t \in Tasks, NEW pc \in Steps, TaskTo(t, pc)
  PROVE  /\ setup' \in SetupType
         /\ setup'[t].pc = pc /\ setup'[t].object = setup[t].object
         /\ \A s \in Tasks : s # t => setup'[s] = setup[s]
BY DEF TaskTo, SetupType

LEMMA AwaitedStep ==
  ASSUME setup \in SetupType, NEW o \in Objects, NEW pc \in Steps, Awaited(o, pc)
  PROVE  /\ setup' \in SetupType
         /\ \A t \in Tasks :
              /\ setup'[t].object = setup[t].object
              /\ setup'[t].pc = IF t \in Awaiting(o) THEN pc ELSE setup[t].pc
BY DEF Awaited, SetupType

LEMMA ConnStep ==
  ASSUME conn \in [Objects -> Links], NEW o \in Objects, NEW state \in Links,
         Conn(o, state)
  PROVE  /\ conn' \in [Objects -> Links] /\ conn'[o] = state
         /\ \A p \in Objects : p # o => conn'[p] = conn[p]
BY DEF Conn

LEMMA RetryLink ==
  ASSUME NEW o \in Objects
  PROVE  Retry(o) \in Links
BY DEF Retry, Links

LEMMA ShouldStep ==
  ASSUME should \in [Objects -> BOOLEAN], NEW o \in Objects, NEW b \in BOOLEAN
  PROVE  [should EXCEPT ![o] = b] \in [Objects -> BOOLEAN]
OBVIOUS

\* Stopping an object closes its stream, unless the token is on its way.
LEMMA DisconnectStep ==
  ASSUME RegistryTypeOK, NEW o \in Objects, Disconnect(o)
  PROVE  /\ conn' \in [Objects -> Links] /\ should' \in [Objects -> BOOLEAN]
         /\ joining' \subseteq Objects /\ ghosts' \subseteq Objects /\ ghosts \subseteq ghosts'
         /\ \A p \in Objects : Alive(p)' => Alive(p) /\ (p = o => o \in ghosts')
<1>1. conn \in [Objects -> Links] /\ should \in [Objects -> BOOLEAN]
  BY DEF RegistryTypeOK, Links
<1>2. should' \in [Objects -> BOOLEAN]
  BY <1>1, ShouldStep, Zenon DEF Disconnect
<1>3. CASE conn[o] = "token"
  BY <1>1, <1>2, <1>3 DEF RegistryTypeOK, Disconnect, Alive
<1>4. CASE conn[o] # "token"
  <2>1. Conn(o, "off") /\ ghosts' = ghosts
    BY <1>4 DEF Disconnect
  <2>2. "off" \in Links
    BY DEF Links
  <2> QED
    BY <1>1, <1>2, <2>1, <2>2, ConnStep DEF RegistryTypeOK, Disconnect, Alive
<1> QED
  BY <1>3, <1>4

\* What the tasks have made is not touched by who is at which step.
LEMMA SameMakers ==
  ASSUME Counted, made' = made, \A t \in Tasks : setup'[t].object = setup[t].object
  PROVE  Counted'
<1>1. Makers' = Makers
  BY DEF Makers, Tasks
<1> QED
  BY <1>1 DEF Counted

\* A step of the streams opens none for good, and a task that ends without an
\* object leaves one that failed.
LEMMA StreamKeeps ==
  ASSUME RegistryInv, UNCHANGED <<registry, crossed>>,
         failed \subseteq failed', ghosts \subseteq ghosts',
         \A o \in Objects : Alive(o)' => Alive(o),
         \A t \in Tasks :
           /\ setup'[t].object = setup[t].object
           /\ \/ setup'[t].pc = setup[t].pc
              \/ setup[t].pc = "connect" /\ setup'[t].pc = "linked"
              \/ /\ setup[t].pc = "connect" /\ setup'[t].pc = "done"
                 /\ setup[t].object \in failed'
  PROVE  RegistryCore'
<1> USE DEF RegistryInv, RegistryCore, registry
<1>1. Counted'
  BY SameMakers
<1>2. TaskObjects'
  BY DEF TaskObjects, Tasks
<1>3. Busy' \subseteq Busy
  BY DEF Busy, Tasks
<1>4. Alone'
  <2> SUFFICES ASSUME ~crossed, NEW t \in Busy'
               PROVE  /\ entry = NoObject /\ Busy' = {t}
                      /\ setup'[t].pc # "read" => dbRow = "active"
    BY DEF Alone
  <2>1. t \in Busy /\ entry = NoObject /\ Busy = {t}
    BY <1>3 DEF Alone
  <2> QED
    BY <1>3, <2>1 DEF Alone, Busy
<1>5. OneStream'
  <2> SUFFICES ASSUME ~crossed, NEW o \in Objects, Alive(o)'
               PROVE  \/ o = entry \/ o \in failed' \cup ghosts'
                      \/ \E t \in Busy' : setup'[t].object = o
    BY DEF OneStream
  <2>1. CASE o = entry \/ o \in failed \cup ghosts
    BY <2>1
  <2>2. ASSUME NEW t \in Busy, setup[t].object = o
        PROVE  o \in failed' \/ \E s \in Busy' : setup'[s].object = o
    BY <2>2 DEF Busy
  <2> QED
    BY <2>1, <2>2 DEF OneStream
<1> QED
  BY <1>1, <1>2, <1>4, <1>5

LEMMA RegistryInvInit == RegistryInit => RegistryInv
<1> SUFFICES ASSUME RegistryInit PROVE RegistryInv
  OBVIOUS
<1> USE TasksFinite DEF RegistryInit
<1>1. \A t \in Tasks : setup[t] = [pc |-> IF t = Boot THEN "read" ELSE "idle",
                                   object |-> NoObject]
  OBVIOUS
<1>2. RegistryTypeOK
  <2>1. setup \in SetupType
    BY DEF SetupType, Steps
  <2>2. should \in [Objects -> BOOLEAN] /\ crossed \in BOOLEAN
    BY Zenon
  <2>3. /\ brand \in {"gate", "lighter"} /\ dbRow \in {"active", "inactive", "gone"}
        /\ entry \in {NoObject} \cup Objects /\ made \in 0..Cardinality(Tasks)
        /\ rest \in {"none", "resting", "filled", "handled"}
        /\ waitsOn \in {NoObject} \cup Objects
    OBVIOUS
  <2>4. /\ conn \in [Objects -> Links]
        /\ wired \cup joining \cup asking \cup failed \cup ghosts \cup missed \subseteq Objects
    BY DEF Links
  <2> QED
    BY <2>1, <2>2, <2>3, <2>4, Zenon DEF RegistryTypeOK, SetupType, Steps, Links
<1>3. Counted
  <2>1. Makers = {}
    BY <1>1 DEF Makers
  <2> QED
    BY <2>1, FS_EmptySet DEF Counted
<1>4. Busy = {Boot}
  BY <1>1 DEF Busy
<1>5. TaskObjects /\ Alone /\ OneStream
  BY <1>1, <1>4 DEF TaskObjects, Alone, OneStream, Alive
<1> QED
  BY <1>2, <1>3, <1>5 DEF RegistryInv, RegistryCore

\* Unless updates cross, an update finds nothing at work and leaves no object.
LEMMA UpdateStep ==
  ASSUME RegistryInv, NEW u \in Updates, NEW written \in {"active", "inactive", "gone"},
         HandleUpdate(u, written)
  PROVE  RegistryInv'
<1> USE TasksFinite DEF RegistryInv, RegistryCore
<1> DEFINE pc == IF written = "gone" THEN "done" ELSE "read"
<1>1. /\ setup \in SetupType /\ u \in Tasks /\ setup[u].pc = "idle" /\ pc \in Steps
      /\ TaskTo(u, pc)
  BY DEF RegistryTypeOK, HandleUpdate, AtTask, SetupType, Steps, Tasks
<1>2. /\ setup' \in SetupType /\ setup'[u].pc = pc /\ setup'[u].object = setup[u].object
      /\ \A t \in Tasks : t # u => setup'[t] = setup[t]
  BY <1>1, TaskStep, Zenon
<1>3. /\ conn' \in [Objects -> Links] /\ should' \in [Objects -> BOOLEAN]
      /\ joining' \subseteq Objects /\ ghosts' \subseteq Objects /\ ghosts \subseteq ghosts'
      /\ \A p \in Objects : Alive(p)' => Alive(p) /\ (p = entry => p \in ghosts')
  <2>1. CASE entry = NoObject
    <3>1. UNCHANGED <<conn, should, joining, ghosts>>
      BY <2>1 DEF HandleUpdate, Unregister
    <3> QED
      BY <2>1, <3>1 DEF RegistryTypeOK, Links, Alive
  <2>2. CASE entry # NoObject
    <3>1. entry \in Objects /\ Disconnect(entry)
      BY <2>2 DEF RegistryTypeOK, HandleUpdate, Unregister
    <3> QED
      BY <3>1, DisconnectStep
  <2> QED
    BY <2>1, <2>2
<1>4. /\ entry' = NoObject /\ dbRow' = written /\ made' = made
      /\ crossed' = (crossed \/ Busy # {})
      /\ UNCHANGED <<brand, asking, wired, rest, waitsOn, failed, missed>>
  BY DEF HandleUpdate, Unregister, entryOrder
<1>5. RegistryTypeOK'
  <2>1. crossed' \in BOOLEAN
    BY <1>4, Zenon DEF RegistryTypeOK
  <2> QED
    BY <1>2, <1>3, <1>4, <2>1 DEF RegistryTypeOK, Links, SetupType, Steps
<1>6. Counted'
  BY <1>2, <1>4, SameMakers
<1>7. TaskObjects'
  BY <1>1, <1>2 DEF TaskObjects
<1>8. CASE ~crossed'
  <2>1. Busy = {} /\ Busy' \subseteq {u}
    BY <1>2, <1>4, <1>8 DEF Busy
  <2>2. Alone'
    BY <1>2, <1>4, <2>1 DEF Alone, Busy
  <2>3. OneStream'
    BY <1>3, <1>4, <2>1, <1>8 DEF OneStream
  <2> QED
    BY <1>5, <1>6, <1>7, <2>2, <2>3
<1>9. CASE crossed'
  BY <1>5, <1>6, <1>7, <1>9 DEF Alone, OneStream
<1> QED
  BY <1>8, <1>9

\* A task that keeps its object at work goes on excusing the stream.
LEMMA StillExcused ==
  ASSUME OneStream, UNCHANGED <<conn, dbRow, entry, crossed, failed, ghosts>>,
         \A s \in Busy : setup[s].object # NoObject
           => s \in Busy' /\ setup'[s].object = setup[s].object
  PROVE  OneStream'
<1> SUFFICES ASSUME ~crossed, NEW o \in Objects, Alive(o),
                    NEW s \in Busy, setup[s].object = o
             PROVE  \E t \in Busy' : setup'[t].object = o
  BY DEF OneStream, Alive
<1> QED
  BY TasksFinite

\* A task that makes an object is the only one with it.
LEMMA MakeStep ==
  ASSUME RegistryInv, NEW t \in Tasks, MakeObject(t)
  PROVE  RegistryInv'
<1> USE TasksFinite DEF RegistryInv, RegistryCore
<1>1. /\ setup \in SetupType /\ setup[t].pc = "read" /\ setup[t].object = NoObject
      /\ UNCHANGED <<brand, dbRow, entry, conn, should, joining, asking, rest, waitsOn,
                    wired, crossed, failed, ghosts, missed>>
  BY DEF RegistryTypeOK, MakeObject, AtTask, SetupType, Steps, TaskObjects, entryOrder,
         mishaps
<1>2. CASE dbRow # "active"
  <2>1. TaskTo(t, "done") /\ made' = made /\ "done" \in Steps
    BY <1>2 DEF MakeObject, Steps
  <2>2. /\ setup' \in SetupType /\ setup'[t].pc = "done"
        /\ setup'[t].object = setup[t].object
        /\ \A s \in Tasks : s # t => setup'[s] = setup[s]
    BY <1>1, <2>1, TaskStep, Zenon
  <2>3. RegistryTypeOK'
    BY <1>1, <2>1, <2>2 DEF RegistryTypeOK, SetupType, Steps
  <2>4. Counted'
    BY <2>1, <2>2, SameMakers
  <2>5. TaskObjects'
    BY <2>2 DEF TaskObjects
  <2>6. Busy' = Busy \ {t} /\ t \in Busy
    BY <1>1, <2>2 DEF Busy
  <2>7. Alone'
    BY <1>1, <2>2, <2>6 DEF Alone
  <2>8. OneStream'
    BY <1>1, <2>2, <2>6, StillExcused
  <2> QED
    BY <2>3, <2>4, <2>5, <2>7, <2>8
<1>3. CASE dbRow = "active"
  <2>1. made' = made + 1 /\ setup' = [setup EXCEPT ![t] = [pc |-> "start", object |-> made + 1]]
    BY <1>3 DEF MakeObject
  <2>2. Makers \subseteq Tasks /\ t \notin Makers /\ IsFiniteSet(Makers)
    BY <1>1, FS_Subset DEF Makers
  <2>3. /\ Cardinality(Makers \cup {t}) = made + 1 /\ made \in Nat
        /\ Cardinality(Makers \cup {t}) <= Cardinality(Tasks)
    BY <2>2, FS_AddElement, FS_CardinalityType, FS_Subset DEF Counted
  <2>4. made + 1 \in Objects
    BY <2>3 DEF Objects
  <2>5. /\ setup' \in SetupType /\ setup'[t].pc = "start" /\ setup'[t].object = made + 1
        /\ \A s \in Tasks : s # t => setup'[s] = setup[s]
    <3>1. [pc |-> "start", object |-> made + 1] \in
            [pc : Steps, object : {NoObject} \cup Objects]
      BY <2>4, Zenon DEF Steps
    <3> QED
      BY <1>1, <2>1, <3>1 DEF SetupType
  <2>6. RegistryTypeOK'
    BY <1>1, <2>1, <2>3, <2>5 DEF RegistryTypeOK, SetupType, Steps
  <2>7. Makers' = Makers \cup {t}
    BY <2>4, <2>5 DEF Makers
  <2>8. Counted'
    BY <2>1, <2>3, <2>7 DEF Counted
  <2>9. TaskObjects'
    BY <2>4, <2>5 DEF TaskObjects
  <2>10. Busy' = Busy /\ t \in Busy
    BY <1>1, <2>5 DEF Busy
  <2>11. Alone'
    BY <1>1, <1>3, <2>5, <2>10 DEF Alone
  <2>12. OneStream'
    BY <1>1, <2>4, <2>5, <2>10, StillExcused
  <2> QED
    BY <2>6, <2>8, <2>9, <2>11, <2>12
<1> QED
  BY <1>2, <1>3

\* A task that is alone registers its object, and nothing else is registered.
LEMMA Registers ==
  ASSUME RegistryInv, NEW t \in Tasks, setup[t].pc \in {"start", "linked"},
         setup'[t].pc = "done", setup'[t].object = setup[t].object,
         \A s \in Tasks : s # t => setup'[s] = setup[s],
         entry' = setup[t].object, UNCHANGED <<dbRow, made, crossed, failed, ghosts>>,
         \A p \in Objects : p # setup[t].object /\ Alive(p)' => Alive(p)
  PROVE  RegistryCore'
<1> USE TasksFinite DEF RegistryInv, RegistryCore
<1>1. Counted'
  BY SameMakers
<1>2. TaskObjects'
  BY DEF TaskObjects
<1>3. t \in Busy /\ Busy' = Busy \ {t}
  BY DEF Busy
<1>4. Alone'
  BY <1>3 DEF Alone
<1>5. OneStream'
  BY <1>3 DEF OneStream, Alone
<1> QED
  BY <1>1, <1>2, <1>4, <1>5

LEMMA StartStep ==
  ASSUME RegistryInv, NEW t \in Tasks, StartObject(t) \/ StartEnds(t)
  PROVE  RegistryInv'
<1> USE TasksFinite DEF RegistryInv, RegistryCore
<1> DEFINE o == setup[t].object
<1>1. /\ setup \in SetupType /\ conn \in [Objects -> Links]
      /\ should \in [Objects -> BOOLEAN] /\ setup[t].pc \in {"start", "linked"}
      /\ o \in Objects /\ {"connect", "done"} \subseteq Steps
      /\ {"token", "dialing"} \subseteq Links
  BY DEF RegistryTypeOK, StartObject, StartEnds, AtTask, SetupType, Steps, Links,
         TaskObjects
<1>2. /\ UNCHANGED <<brand, dbRow, made, joining, asking, wired, rest, waitsOn, crossed,
                    failed, ghosts, missed>>
  BY DEF StartObject, StartEnds, entryOrder, mishaps
<1>3. should' \in [Objects -> BOOLEAN]
  BY <1>1, ShouldStep, Zenon DEF StartObject, StartEnds
<1>4. CASE Register(t) /\ TaskTo(t, "done")
             /\ (Conn(o, "dialing") \/ UNCHANGED conn)
  <2>1. /\ setup' \in SetupType /\ setup'[t].pc = "done" /\ setup'[t].object = o
        /\ \A s \in Tasks : s # t => setup'[s] = setup[s]
    BY <1>1, <1>4, TaskStep
  <2>2. /\ conn' \in [Objects -> Links]
        /\ \A p \in Objects : p # o /\ Alive(p)' => Alive(p)
    BY <1>1, <1>4, ConnStep DEF Alive
  <2>3. entry' = o
    BY <1>4 DEF Register
  <2>4. RegistryCore'
    BY <1>1, <1>2, <2>1, <2>2, <2>3, Registers
  <2>5. RegistryTypeOK'
    BY <1>1, <1>2, <1>3, <2>1, <2>2, <2>3
       DEF RegistryTypeOK, SetupType, Steps, Links
  <2> QED
    BY <2>4, <2>5
<1>5. CASE TaskTo(t, "connect") /\ Conn(o, "token") /\ entry' = entry
  <2>1. /\ setup' \in SetupType /\ setup'[t].pc = "connect" /\ setup'[t].object = o
        /\ \A s \in Tasks : s # t => setup'[s] = setup[s]
    BY <1>1, <1>5, TaskStep
  <2>2. /\ conn' \in [Objects -> Links]
        /\ \A p \in Objects : p # o /\ Alive(p)' => Alive(p)
    BY <1>1, <1>5, ConnStep DEF Alive
  <2>3. RegistryTypeOK'
    BY <1>1, <1>2, <1>3, <1>5, <2>1, <2>2
       DEF RegistryTypeOK, SetupType, Steps, Links
  <2>4. Counted'
    BY <1>2, <2>1, SameMakers
  <2>5. TaskObjects' /\ Busy' = Busy /\ t \in Busy
    BY <1>1, <2>1 DEF TaskObjects, Busy
  <2>6. Alone'
    BY <1>1, <1>2, <1>5, <2>1, <2>5 DEF Alone
  <2>7. OneStream'
    <3> SUFFICES ASSUME ~crossed, NEW p \in Objects, Alive(p)'
                 PROVE  \/ p = entry \/ p \in failed \cup ghosts
                        \/ \E s \in Busy : setup'[s].object = p
      BY <1>2, <1>5, <2>5 DEF OneStream
    <3> QED
      BY <2>1, <2>2, <2>5 DEF OneStream
  <2> QED
    BY <2>3, <2>4, <2>5, <2>6, <2>7
<1> QED
  BY <1>4, <1>5 DEF StartObject, StartEnds

\* A start that fails stops its own object.
LEMMA FailStep ==
  ASSUME RegistryInv, NEW t \in Tasks, StartFails(t)
  PROVE  RegistryInv'
<1> USE TasksFinite DEF RegistryInv, RegistryCore
<1> DEFINE o == setup[t].object
<1>1. /\ setup \in SetupType /\ setup[t].pc = "linked" /\ o \in Objects
      /\ "done" \in Steps /\ TaskTo(t, "done") /\ Disconnect(o)
  BY DEF RegistryTypeOK, StartFails, AtTask, SetupType, Steps, TaskObjects
<1>2. UNCHANGED <<brand, dbRow, entry, made, asking, wired, rest, waitsOn, crossed, failed,
                  missed>>
  BY DEF StartFails, registry, entryOrder
<1>3. /\ setup' \in SetupType /\ setup'[t].pc = "done" /\ setup'[t].object = o
      /\ \A s \in Tasks : s # t => setup'[s] = setup[s]
  BY <1>1, TaskStep
<1>4. /\ conn' \in [Objects -> Links] /\ should' \in [Objects -> BOOLEAN]
      /\ joining' \subseteq Objects /\ ghosts' \subseteq Objects /\ ghosts \subseteq ghosts'
      /\ \A p \in Objects : Alive(p)' => Alive(p) /\ (p = o => o \in ghosts')
  BY <1>1, DisconnectStep
<1>5. RegistryTypeOK'
  BY <1>2, <1>3, <1>4 DEF RegistryTypeOK, SetupType, Steps, Links
<1>6. Counted'
  BY <1>2, <1>3, SameMakers
<1>7. TaskObjects' /\ Busy' = Busy \ {t} /\ t \in Busy
  BY <1>1, <1>3 DEF TaskObjects, Busy
<1>8. Alone'
  BY <1>2, <1>3, <1>7 DEF Alone
<1>9. OneStream'
  <2> SUFFICES ASSUME ~crossed, NEW p \in Objects, Alive(p)'
               PROVE  \/ p = entry \/ p \in failed \cup ghosts'
                      \/ \E s \in Busy' : setup'[s].object = p
    BY <1>2 DEF OneStream
  <2> QED
    BY <1>3, <1>4, <1>7 DEF OneStream
<1> QED
  BY <1>5, <1>6, <1>7, <1>8, <1>9

\* The pipelines are wired once.
LEMMA WireStep ==
  ASSUME RegistryInv, Wire
  PROVE  RegistryInv'
<1> USE TasksFinite DEF RegistryInv, RegistryCore
<1>1. /\ setup \in SetupType /\ setup[Boot].pc = "done" /\ TaskTo(Boot, "wired")
      /\ "wired" \in Steps /\ wired' = {entry} \ {NoObject}
      /\ UNCHANGED <<brand, dbRow, entry, made, conn, should, joining, asking, rest,
                    waitsOn, crossed, failed, ghosts, missed>>
  BY DEF RegistryTypeOK, Wire, AtTask, SetupType, Steps, registry, mishaps
<1>2. /\ setup' \in SetupType /\ setup'[Boot].pc = "wired"
      /\ setup'[Boot].object = setup[Boot].object
      /\ \A s \in Tasks : s # Boot => setup'[s] = setup[s]
  BY <1>1, TaskStep
<1>3. RegistryTypeOK'
  BY <1>1, <1>2 DEF RegistryTypeOK, SetupType, Steps
<1>4. Counted'
  BY <1>1, <1>2, SameMakers
<1>5. TaskObjects' /\ Busy' = Busy
  BY <1>1, <1>2 DEF TaskObjects, Busy
<1>6. Alone'
  BY <1>1, <1>2, <1>5 DEF Alone, Busy
<1>7. OneStream'
  BY <1>1, <1>2, <1>5, StillExcused DEF Busy
<1> QED
  BY <1>3, <1>4, <1>5, <1>6, <1>7

\* The order on the exchange changes nothing the invariant speaks of.
LEMMA OrderKeeps ==
  ASSUME RegistryInv, PlaceEntry \/ EntryFills
  PROVE  RegistryInv'
<1> USE TasksFinite DEF RegistryInv
<1>1. UNCHANGED <<registry, conn, should, joining, asking, setup, wired, crossed, failed,
                  ghosts>>
  BY DEF PlaceEntry, EntryFills, OrderStep
<1>2. RegistryTypeOK'
  BY <1>1 DEF RegistryTypeOK, PlaceEntry, EntryFills, registry
<1>3. RegistryCore'
  BY <1>1, StreamKeeps DEF registry, Alive
<1> QED
  BY <1>2, <1>3

\* A step of a stream that is up, or will be.
LEMMA LinkMoves ==
  ASSUME RegistryInv, NEW o \in Objects, conn[o] # "off",
         NEW state \in Links, Conn(o, state), UNCHANGED <<registry, should, crossed>>,
         joining' \subseteq Objects, asking' \subseteq Objects,
         failed' \subseteq Objects, failed \subseteq failed',
         UNCHANGED <<waitsOn, wired, ghosts, rest, missed>>,
         \/ UNCHANGED setup
         \/ Awaited(o, "linked")
         \/ Awaited(o, "done") /\ (Awaiting(o) # {} => o \in failed')
  PROVE  RegistryInv'
<1> USE DEF RegistryInv
<1>1. conn \in [Objects -> Links] /\ setup \in SetupType /\ {"linked", "done"} \subseteq Steps
  BY DEF RegistryTypeOK, Links, SetupType, Steps
<1>2. /\ conn' \in [Objects -> Links]
      /\ \A p \in Objects : Alive(p)' => Alive(p)
  BY <1>1, ConnStep DEF Alive
<1>3. /\ setup' \in SetupType
      /\ \A t \in Tasks :
           /\ setup'[t].object = setup[t].object
           /\ \/ setup'[t].pc = setup[t].pc
              \/ setup[t].pc = "connect" /\ setup'[t].pc = "linked"
              \/ /\ setup[t].pc = "connect" /\ setup'[t].pc = "done"
                 /\ setup[t].object \in failed'
  <2>1. CASE UNCHANGED setup
    BY <1>1, <2>1
  <2>2. CASE Awaited(o, "linked")
    BY <1>1, <2>2, AwaitedStep DEF Awaiting, AtTask
  <2>3. CASE Awaited(o, "done") /\ (Awaiting(o) # {} => o \in failed')
    BY <1>1, <2>3, AwaitedStep DEF Awaiting, AtTask
  <2> QED
    BY <2>1, <2>2, <2>3
<1>4. RegistryTypeOK'
  BY <1>2, <1>3 DEF RegistryTypeOK, registry, SetupType, Steps, Links
<1>5. RegistryCore'
  BY <1>2, <1>3, StreamKeeps
<1> QED
  BY <1>4, <1>5

LEMMA StreamActs ==
  ASSUME RegistryInv, NEW o \in Objects,
         \/ Connecting(o) \/ ConnectFails(o) \/ LogIn(o) \/ Drop(o) \/ Watchdog(o)
         \/ Reconnect(o)
  PROVE  RegistryInv'
<1> USE DEF StreamStep
<1>1. /\ joining \subseteq Objects /\ asking \subseteq Objects /\ failed \subseteq Objects
      /\ {"dialing", "login", "up", "deaf", "backoff", "token"} \subseteq Links
      /\ Retry(o) \in Links
  BY RetryLink DEF RegistryInv, RegistryTypeOK, Links
<1>2. CASE Connecting(o)
  BY <1>1, <1>2, LinkMoves DEF Connecting
<1>3. CASE ConnectFails(o)
  BY <1>1, <1>3, LinkMoves DEF ConnectFails, Fails
<1>4. CASE LogIn(o)
  <2>1. joining' \subseteq Objects /\ asking' \subseteq Objects
    BY <1>1, <1>4 DEF LogIn
  <2> QED
    BY <1>1, <1>4, <2>1, LinkMoves DEF LogIn
<1>5. CASE Drop(o)
  <2>1. /\ joining' \subseteq Objects /\ asking' = asking /\ failed' = failed
        /\ conn[o] # "off" /\ UNCHANGED <<rest, missed>>
    BY <1>1, <1>5 DEF Drop
  <2>2. CASE Conn(o, Retry(o)) /\ Awaited(o, "linked")
    BY <1>1, <1>5, <2>1, <2>2, LinkMoves DEF Drop
  <2>3. CASE Conn(o, "deaf") /\ UNCHANGED setup
    BY <1>1, <1>5, <2>1, <2>3, LinkMoves DEF Drop
  <2> QED
    BY <1>5, <2>2, <2>3 DEF Drop
<1>6. CASE Watchdog(o)
  BY <1>1, <1>6, LinkMoves DEF Watchdog
<1>7. CASE Reconnect(o)
  BY <1>1, <1>7, LinkMoves DEF Reconnect
<1> QED
  BY <1>2, <1>3, <1>4, <1>5, <1>6, <1>7

\* What the exchange answers to a subscription or a query.
LEMMA AnswerActs ==
  ASSUME RegistryInv, NEW o \in Objects, Subscribed(o) \/ AskPending(o)
  PROVE  RegistryInv'
<1> USE DEF RegistryInv
<1>1. /\ UNCHANGED <<registry, should, waitsOn, wired, crossed, ghosts, conn, setup, failed>>
      /\ joining' \subseteq Objects /\ asking' \subseteq Objects /\ missed' \subseteq Objects
      /\ rest' \in {"none", "resting", "filled", "handled"}
  BY DEF Subscribed, AskPending, StreamStep, RegistryTypeOK
<1>2. RegistryTypeOK'
  BY <1>1 DEF RegistryTypeOK, registry
<1>3. RegistryCore'
  BY <1>1, StreamKeeps DEF Alive
<1> QED
  BY <1>2, <1>3

LEMMA RegistryInvNext == RegistryInv /\ [RegistryNext]_registryVars => RegistryInv'
<1> SUFFICES ASSUME RegistryInv, [RegistryNext]_registryVars PROVE RegistryInv'
  OBVIOUS
<1>1. CASE \E u \in Updates, written \in {"active", "inactive", "gone"} : HandleUpdate(u, written)
  BY <1>1, UpdateStep
<1>2. ASSUME NEW t \in Tasks,
             MakeObject(t) \/ StartObject(t) \/ StartFails(t) \/ StartEnds(t)
      PROVE  RegistryInv'
  BY <1>2, MakeStep, StartStep, FailStep
<1>3. CASE Wire \/ PlaceEntry \/ EntryFills
  BY <1>3, WireStep, OrderKeeps
<1>4. ASSUME NEW o \in Objects,
             \/ Connecting(o) \/ ConnectFails(o) \/ LogIn(o) \/ Subscribed(o)
             \/ AskPending(o) \/ Drop(o) \/ Watchdog(o) \/ Reconnect(o)
      PROVE  RegistryInv'
  BY <1>4, StreamActs, AnswerActs
<1>5. CASE UNCHANGED registryVars
  <2>1. RegistryTypeOK'
    BY <1>5 DEF RegistryInv, RegistryTypeOK, registryVars, registry, entryOrder, mishaps
  <2>2. RegistryCore'
    BY <1>5, StreamKeeps DEF registryVars, registry, mishaps, Alive
  <2> QED
    BY <2>1, <2>2 DEF RegistryInv
<1> QED
  BY <1>1, <1>2, <1>3, <1>4, <1>5 DEF RegistryNext

\* Every variable of the registry keeps its type; no task makes a second object,
\* so there are never more of them than tasks (ExchangeInstanceManager).
THEOREM RegistryTyped == RegistrySpec => []RegistryTypeOK
BY RegistryInvInit, RegistryInvNext, PTL DEF RegistrySpec, RegistryInv

\* One private stream for an instance, for any number of updates, failed
\* connections and failed starts (unregisterExchange before every new start).
THEOREM OneStreamAlways == RegistrySpec => []OneStream
<1>1. RegistryInv => OneStream
  BY DEF RegistryInv, RegistryCore
<1> QED
  BY <1>1, RegistryInvInit, RegistryInvNext, PTL DEF RegistrySpec

-----------------------------------------------------------------------------
(* BacktestRuns: RunInv adds to RowsAccounted what it rests on: a result is *)
(* written once, a run is at work until its one finalizeRun is over, and   *)
(* nothing is imported of it before.                                       *)


\* The result is written once, after the phases that precede it, and who
\* imports it has read it whole.
ResultOnce ==
  /\ child \in {"none", "lost", "setup", "fetch", "replay"}
       => outcome = "none" /\ file = "none"
  /\ child = "export" \/ file # "none" => outcome \in Ended
  /\ finalizer \in {"import", "save"} \/ Asked("reimport", "import") => outcome \in Ended
  /\ rows # "none" => rows = outcome
  /\ run \in Ended => run = outcome

\* A run is made, spawned, followed and finalized, in this order and once.
Fresh ==
  run = "none" =>
    child = "none" /\ creator = "idle" /\ ~managed /\ finalizer = "idle"

Finalizing == finalizer \in {"find", "import", "save", "fail"}

RunOnce ==
  /\ creator = "made" => child = "none" /\ ~managed /\ finalizer = "idle"
  /\ creator = "spawned" => managed
  /\ managed => finalizer = "idle" /\ child # "none"
  /\ pidSaved \/ recovery = "kill" => child \notin {"none", "lost"}
  /\ managed \/ creator # "idle" \/ Finalizing => run \notin Ended

\* What is imported while a run is at work, and what of a run that is gone.
ImportOnce ==
  loose = {} =>
    /\ managed \/ finalizer \in {"find", "import", "fail"} => rows = "none"
    /\ finalizer = "save" => rows = outcome \/ Asked("delete", "row") \/ run = "gone"
    /\ run = "gone" => /\ rows = "none" /\ finalizer # "import"
                       /\ ~Asked("reimport", "import")

RunInv == BacktestTypeOK /\ ResultOnce /\ Fresh /\ RunOnce /\ ImportOnce /\ RowsAccounted

-----------------------------------------------------------------------------
(* Types *)

LEMMA InitTypeOK == BacktestInit => BacktestTypeOK
<1> SUFFICES ASSUME BacktestInit PROVE BacktestTypeOK
  OBVIOUS
<1>1. /\ pidSaved \in BOOLEAN /\ asked \in BOOLEAN
      /\ managed \in BOOLEAN /\ stopping \in BOOLEAN
  BY Zenon DEF BacktestInit
<1> QED
  BY <1>1, BacktestCrashesAssumption
  DEF BacktestInit, BacktestTypeOK, Requests, Ended, Ongoing

LEMMA StepTypeOK == BacktestTypeOK /\ [BacktestNext]_backtestVars => BacktestTypeOK'
<1> SUFFICES ASSUME BacktestTypeOK, [BacktestNext]_backtestVars
             PROVE  BacktestTypeOK'
  OBVIOUS
<1> USE BacktestCrashesAssumption
    DEF BacktestTypeOK, Asked, Requests, Ended, Ongoing, childVars, manager
<1>1. CASE CreateRun
  BY <1>1 DEF CreateRun
<1>2. CASE SpawnChild
  BY <1>2 DEF SpawnChild
<1>3. CASE SpawnFails
  BY <1>3 DEF SpawnFails, Write
<1>4. CASE SpawnSaved
  BY <1>4 DEF SpawnSaved, Write
<1>5. CASE PollProgress
  BY <1>5 DEF PollProgress, Write, PhaseStatus
<1>6. CASE ChildRuns
  BY <1>6 DEF ChildRuns, Advance, ChildStep
<1>7. CASE Export
  BY <1>7 DEF Export, ChildStep
<1>8. CASE Exported
  BY <1>8 DEF Exported, ChildStep
<1>9. CASE ChildFails
  BY <1>9 DEF ChildFails, ChildStep
<1>10. CASE OnExit
  <2>1. managed' \in BOOLEAN
    BY <1>10, Zenon DEF OnExit
  <2> QED
    BY <1>10, <2>1 DEF OnExit
<1>11. CASE FindRun
  BY <1>11 DEF FindRun, FinalizeStep, FoundRun
<1>12. CASE ImportResult
  BY <1>12 DEF ImportResult, FinalizeStep
<1>13. CASE SaveThrows
  BY <1>13 DEF SaveThrows
<1>14. CASE SaveResult
  BY <1>14 DEF SaveResult, FinalizeStep, Write
<1>15. CASE StopFound
  BY <1>15 DEF StopFound, AskTo
<1>16. CASE StopRun
  <2>1. stopping' \in BOOLEAN /\ asked' \in BOOLEAN
    BY <1>16, Zenon DEF StopRun, Terminate
  <2> QED
    BY <1>16, <2>1 DEF StopRun, AskTo, Terminate, StopPc
<1>17. CASE DeleteRun
  <2>1. stopping' \in BOOLEAN /\ asked' \in BOOLEAN
    BY <1>17, Zenon DEF DeleteRun, Terminate
  <2> QED
    BY <1>17, <2>1 DEF DeleteRun, AskTo, Terminate, StopPc
<1>18. CASE DeleteData
  BY <1>18 DEF DeleteData, AskTo
<1>19. CASE DestroyRun
  BY <1>19 DEF DestroyRun, AskTo
<1>20. CASE RemoveFiles
  BY <1>20 DEF RemoveFiles, AskTo
<1>21. ASSUME NEW r \in {"stop", "delete"}, StopReturns(r) PROVE BacktestTypeOK'
  BY <1>21 DEF StopReturns, AskTo
<1>22. CASE Reimport
  BY <1>22 DEF Reimport, AskTo
<1>23. CASE Reimported
  BY <1>23 DEF Reimported, AskTo
<1>24. CASE ServerCrash
  <2>1. managed' \in BOOLEAN /\ stopping' \in BOOLEAN
    BY <1>24, Zenon DEF ServerCrash
  <2> QED
    BY <1>24, <2>1 DEF ServerCrash
<1>25. CASE RecoverFind
  BY <1>25 DEF RecoverFind, Recovery, RecoveryStep
<1>26. CASE RecoverKill
  BY <1>26 DEF RecoverKill, Recovery, RecoveryStep
<1>27. CASE RecoverMark
  BY <1>27 DEF RecoverMark, Recovery, RecoveryStep, Write
<1>28. CASE UNCHANGED backtestVars
  BY <1>28 DEF backtestVars
<1> QED
  BY <1>1, <1>2, <1>3, <1>4, <1>5, <1>6, <1>7, <1>8, <1>9, <1>10, <1>11, <1>12, <1>13, <1>14, <1>15, <1>16, <1>17, <1>18, <1>19, <1>20, <1>21, <1>22, <1>23, <1>24, <1>25, <1>26, <1>27, <1>28 DEF BacktestNext

-----------------------------------------------------------------------------
(* The invariant *)

LEMMA InitRunInv == BacktestInit => RunInv
BY InitTypeOK
DEF BacktestInit, RunInv, ResultOnce, Fresh, RunOnce, Finalizing, ImportOnce,
    RowsAccounted, Asked, Requests, Ended, Ongoing

LEMMA StepRunInv == RunInv /\ [BacktestNext]_backtestVars => RunInv'
<1> SUFFICES ASSUME RunInv, [BacktestNext]_backtestVars
             PROVE  RunInv'
  OBVIOUS
<1>0. BacktestTypeOK'
  BY StepTypeOK DEF RunInv
<1> USE DEF RunInv, BacktestTypeOK, ResultOnce, Fresh, RunOnce, Finalizing, ImportOnce,
            RowsAccounted, Asked, Requests, Ended, Ongoing, childVars, manager
<1>1. CASE CreateRun
  BY <1>0, <1>1 DEF CreateRun
<1>2. CASE SpawnChild
  BY <1>0, <1>2 DEF SpawnChild
<1>3. CASE SpawnFails
  BY <1>0, <1>3 DEF SpawnFails, Write
<1>4. CASE SpawnSaved
  BY <1>0, <1>4 DEF SpawnSaved, Write
<1>5. CASE PollProgress
  BY <1>0, <1>5 DEF PollProgress, Write, PhaseStatus
<1>6. CASE ChildRuns
  BY <1>0, <1>6 DEF ChildRuns, Advance, ChildStep
<1>7. CASE Export
  BY <1>0, <1>7 DEF Export, ChildStep
<1>8. CASE Exported
  BY <1>0, <1>8 DEF Exported, ChildStep
<1>9. CASE ChildFails
  BY <1>0, <1>9 DEF ChildFails, ChildStep
<1>10. CASE OnExit
  <2>1. ~managed'
    BY <1>10, Zenon DEF OnExit
  <2>2. ResultOnce'
    BY <2>1, <1>0, <1>10 DEF OnExit
  <2>3. Fresh'
    BY <2>1, <1>0, <1>10 DEF OnExit
  <2>4. RunOnce'
    BY <2>1, <1>0, <1>10 DEF OnExit
  <2>5. ImportOnce'
    BY <2>1, <1>0, <1>10 DEF OnExit
  <2>6. RowsAccounted'
    BY <2>1, <1>0, <1>10 DEF OnExit
  <2> HIDE DEF BacktestTypeOK, ResultOnce, Fresh, RunOnce, ImportOnce, RowsAccounted
  <2> QED
    BY <1>0, <2>2, <2>3, <2>4, <2>5, <2>6
<1>11. CASE FindRun
  BY <1>0, <1>11 DEF FindRun, FinalizeStep, FoundRun
<1>12. CASE ImportResult
  BY <1>0, <1>12 DEF ImportResult, FinalizeStep
<1>13. CASE SaveThrows
  BY <1>0, <1>13 DEF SaveThrows
<1>14. CASE SaveResult
  BY <1>0, <1>14 DEF SaveResult, FinalizeStep, Write
<1>15. CASE StopFound
  BY <1>0, <1>15 DEF StopFound, AskTo
<1>16. CASE StopRun
  BY <1>0, <1>16 DEF StopRun, AskTo, Terminate, StopPc
<1>17. CASE DeleteRun
  BY <1>0, <1>17 DEF DeleteRun, AskTo, Terminate, StopPc
<1>18. CASE DeleteData
  BY <1>0, <1>18 DEF DeleteData, AskTo
<1>19. CASE DestroyRun
  BY <1>0, <1>19 DEF DestroyRun, AskTo
<1>20. CASE RemoveFiles
  BY <1>0, <1>20 DEF RemoveFiles, AskTo
<1>21. ASSUME NEW r \in {"stop", "delete"}, StopReturns(r) PROVE RunInv'
  BY <1>0, <1>21 DEF StopReturns, AskTo
<1>22. CASE Reimport
  BY <1>0, <1>22 DEF Reimport, AskTo
<1>23. CASE Reimported
  BY <1>0, <1>23 DEF Reimported, AskTo
<1>24. CASE ServerCrash
  <2>1. ~managed'
    BY <1>24, Zenon DEF ServerCrash
  <2>2. ResultOnce'
    BY <2>1, <1>0, <1>24 DEF ServerCrash
  <2>3. Fresh'
    BY <2>1, <1>0, <1>24 DEF ServerCrash
  <2>4. RunOnce'
    BY <2>1, <1>0, <1>24 DEF ServerCrash
  <2>5. ImportOnce'
    BY <2>1, <1>0, <1>24 DEF ServerCrash
  <2>6. RowsAccounted'
    BY <2>1, <1>0, <1>24 DEF ServerCrash
  <2> HIDE DEF BacktestTypeOK, ResultOnce, Fresh, RunOnce, ImportOnce, RowsAccounted
  <2> QED
    BY <1>0, <2>2, <2>3, <2>4, <2>5, <2>6
<1>25. CASE RecoverFind
  BY <1>0, <1>25 DEF RecoverFind, Recovery, RecoveryStep
<1>26. CASE RecoverKill
  BY <1>0, <1>26 DEF RecoverKill, Recovery, RecoveryStep
<1>27. CASE RecoverMark
  BY <1>0, <1>27 DEF RecoverMark, Recovery, RecoveryStep, Write
<1>28. CASE UNCHANGED backtestVars
  BY <1>0, <1>28 DEF backtestVars
<1> QED
  BY <1>1, <1>2, <1>3, <1>4, <1>5, <1>6, <1>7, <1>8, <1>9, <1>10, <1>11, <1>12, <1>13, <1>14, <1>15, <1>16, <1>17, <1>18, <1>19, <1>20, <1>21, <1>22, <1>23, <1>24, <1>25, <1>26, <1>27, <1>28 DEF BacktestNext

-----------------------------------------------------------------------------
(* Theorems *)

\* Every variable of a backtest keeps its type.
THEOREM TypeCorrect == BacktestSpec => []BacktestTypeOK
BY InitTypeOK, StepTypeOK, PTL DEF BacktestSpec

\* The imported rows agree with the status of the run, whatever the child, the
\* requests and the restarts do, outside the windows that loose names.
THEOREM RowsAgree == BacktestSpec => []RowsAccounted
<1>1. RunInv => RowsAccounted
  BY DEF RunInv
<1> QED
  BY <1>1, InitRunInv, StepRunInv, PTL DEF BacktestSpec

-----------------------------------------------------------------------------
(* TradFiFeed: the commands on their way make the exchange's subscriptions *)
(* those of the stream                                                     *)

CommandType == [kind : {"subscribe", "unsubscribe"}, market : Markets]

\* IsFiniteSet: markets are watched one at a time, whatever their number.
TradFiTypes ==
  /\ TradFiTypeOK /\ IsFiniteSet(wanted)
  /\ kept \in [Markets -> Nat] /\ hubTick \in [Markets -> Nat] /\ quotes \in [Markets -> Nat]

\* The i-th command on its way is the last one about its market.
LastWord(i) ==
  \A j \in 1..Len(commands) : j > i => commands[j].market # commands[i].market

\* No command about m is on its way.
Unmentioned(m) == \A i \in 1..Len(commands) : commands[i].market # m

\* The last command about a market says whether it is wanted; where there is
\* none the exchange has been told.
Agreed ==
  LineUp =>
    /\ \A i \in 1..Len(commands) :
         LastWord(i) => (commands[i].kind = "subscribe" <=> commands[i].market \in wanted)
    /\ \A m \in Markets : Unmentioned(m) =>
         (m \in serving => m \in wanted) /\ (m \in wanted => m \in serving \cup declined)

TradFiInv == TradFiTypes /\ Agreed

LEMMA TradFiInvInit == TradFiInit => TradFiInv
<1> SUFFICES ASSUME TradFiInit PROVE TradFiInv
  OBVIOUS
<1> USE DEF TradFiInit
<1>1. IsFiniteSet(wanted)
  BY FS_EmptySet
<1>2. \A m \in Markets : kept[m] = 0 /\ hubTick[m] = 0 /\ quotes[m] = 1
  OBVIOUS
<1>3. TradFiTypeOK
  <2>1. commands \in Seq([kind : {"subscribe", "unsubscribe"}, market : Markets])
    OBVIOUS
  <2>2. \A m \in Markets : /\ quotes[m] \in 1..MaxQuote /\ kept[m] \in 0..quotes[m]
                           /\ hubTick[m] \in 0..kept[m]
    BY <1>2, TradFiAssumption
  <2> QED
    BY <2>1, <2>2 DEF TradFiTypeOK
<1>4. kept \in [Markets -> Nat] /\ hubTick \in [Markets -> Nat] /\ quotes \in [Markets -> Nat]
  OBVIOUS
<1> QED
  BY <1>1, <1>3, <1>4 DEF TradFiInv, TradFiTypes, Agreed, LineUp

\* A command is added to what is on its way; its market is wanted as it says.
LEMMA CommandSent ==
  ASSUME TradFiInv, NEW m \in Markets, NEW k \in {"subscribe", "unsubscribe"},
         SendCommand(k, m), UNCHANGED <<line, serving, declined>>,
         wanted' = IF k = "subscribe" THEN wanted \cup {m} ELSE wanted \ {m}
  PROVE  commands' \in Seq(CommandType) /\ Agreed'
<1>1. commands \in Seq(CommandType) /\ Len(commands) \in Nat
  BY DEF TradFiInv, TradFiTypes, TradFiTypeOK, CommandType
<1>2. CASE ~LineUp
  BY <1>1, <1>2 DEF SendCommand, Agreed, LineUp
<1>3. CASE LineUp
  <2>1. /\ commands' = Append(commands, Command(k, m))
        /\ Command(k, m) \in CommandType /\ Command(k, m).kind = k /\ Command(k, m).market = m
    BY <1>3 DEF SendCommand, Command, CommandType
  <2>2. /\ commands' \in Seq(CommandType) /\ Len(commands') = Len(commands) + 1
        /\ commands'[Len(commands) + 1] = Command(k, m)
        /\ \A i \in 1..Len(commands) : commands'[i] = commands[i]
    BY <1>1, <2>1
  <2>3. ASSUME NEW i \in 1..Len(commands'), LastWord(i)'
        PROVE  (commands[i].kind = "subscribe" <=> commands[i].market \in wanted)'
    <3>1. CASE i = Len(commands) + 1
      BY <2>1, <2>2, <3>1
    <3>2. CASE i \in 1..Len(commands)
      <4>1. Len(commands) + 1 \in 1..Len(commands') /\ Len(commands) + 1 > i
        BY <1>1, <2>2, <3>2
      <4>2. commands[i].market # m
        BY <2>1, <2>2, <2>3, <3>2, <4>1 DEF LastWord
      <4>3. \A j \in 1..Len(commands) : j \in 1..Len(commands')
        BY <1>1, <2>2
      <4>4. LastWord(i)
        BY <2>2, <2>3, <3>2, <4>3 DEF LastWord
      <4>5. commands[i].kind = "subscribe" <=> commands[i].market \in wanted
        BY <1>3, <3>2, <4>4 DEF TradFiInv, Agreed
      <4> QED
        BY <2>2, <3>2, <4>2, <4>5
    <3> QED
      BY <1>1, <2>2, <3>1, <3>2
  <2>4. ASSUME NEW p \in Markets, Unmentioned(p)'
        PROVE  (p \in serving => p \in wanted') /\ (p \in wanted' => p \in serving \cup declined)
    <3>1. p # m
      BY <1>1, <2>1, <2>2, <2>4 DEF Unmentioned
    <3>2. Unmentioned(p)
      BY <1>1, <2>2, <2>4 DEF Unmentioned
    <3> QED
      BY <1>3, <3>1, <3>2 DEF TradFiInv, Agreed
  <2> QED
    BY <2>2, <2>3, <2>4 DEF Agreed
<1> QED
  BY <1>2, <1>3

\* The exchange reads the first command, and either does what it says or
\* declines a subscription.
LEMMA CommandRead ==
  ASSUME TradFiInv, LineUp, commands # <<>>, commands' = Tail(commands),
         UNCHANGED <<line, wanted>>,
         \A m \in Markets : m # Head(commands).market =>
           (m \in serving' <=> m \in serving) /\ (m \in declined' <=> m \in declined),
         IF Head(commands).kind = "subscribe"
         THEN Head(commands).market \in serving' \cup declined'
         ELSE Head(commands).market \notin serving'
  PROVE  commands' \in Seq(CommandType) /\ Agreed'
<1> DEFINE c == Head(commands)
<1>1. commands \in Seq(CommandType) /\ Len(commands) \in Nat /\ Len(commands) >= 1
  BY DEF TradFiInv, TradFiTypes, TradFiTypeOK, CommandType
<1>2. /\ commands' \in Seq(CommandType) /\ Len(commands') = Len(commands) - 1
      /\ \A i \in 1..Len(commands') : commands'[i] = commands[i + 1]
      /\ commands[1] = c /\ c \in CommandType
  BY <1>1
<1>3. \A i \in 1..Len(commands) : i > 1 => i - 1 \in 1..Len(commands') /\ (i - 1) + 1 = i
  BY <1>1, <1>2
<1>4. \A i \in 1..Len(commands') : i + 1 \in 1..Len(commands) /\ i + 1 > 1
  BY <1>1, <1>2
<1>5. Agreed /\ 1 \in 1..Len(commands)
  BY <1>1 DEF TradFiInv
<1>6. ASSUME NEW i \in 1..Len(commands'), LastWord(i)'
      PROVE  (commands[i].kind = "subscribe" <=> commands[i].market \in wanted)'
  <2>1. LastWord(i + 1)
    <3> SUFFICES ASSUME NEW j \in 1..Len(commands), j > i + 1
                 PROVE  commands[j].market # commands[i + 1].market
      BY DEF LastWord
    <3>1. j - 1 \in 1..Len(commands') /\ j - 1 > i /\ commands'[j - 1] = commands[j]
      BY <1>2, <1>3
    <3> QED
      BY <1>2, <1>6, <3>1 DEF LastWord
  <2> QED
    BY <1>2, <1>4, <1>5, <2>1 DEF Agreed
<1>7. ASSUME NEW m \in Markets, Unmentioned(m)'
      PROVE  (m \in serving' => m \in wanted) /\ (m \in wanted => m \in serving' \cup declined')
  <2>1. \A j \in 1..Len(commands) : j > 1 => commands[j].market # m
    BY <1>2, <1>3, <1>7 DEF Unmentioned
  <2>2. CASE m # c.market
    <3>1. Unmentioned(m)
      BY <1>1, <1>2, <2>1, <2>2 DEF Unmentioned
    <3> QED
      BY <1>5, <2>2, <3>1 DEF Agreed
  <2>3. CASE m = c.market
    <3>1. LastWord(1)
      BY <1>2, <2>1, <2>3 DEF LastWord
    <3>2. c.kind = "subscribe" <=> m \in wanted
      BY <1>2, <1>5, <2>3, <3>1 DEF Agreed
    <3> QED
      BY <2>3, <3>2
  <2> QED
    BY <2>2, <2>3
<1> QED
  BY <1>2, <1>6, <1>7 DEF Agreed

\* A new socket is told of every market wanted, once.
LEMMA LineOpensKeeps == ASSUME TradFiInv, LineOpens PROVE TradFiInv'
<1>1. /\ line' = "open" /\ serving' = {} /\ declined' = {}
      /\ UNCHANGED <<streaming, again, wanted, watched, kept, hubTick, quotes>>
  BY DEF LineOpens, prices
<1>2. PICK sending \in SetToSeqs(wanted) :
        commands' = [i \in DOMAIN sending |-> Command("subscribe", sending[i])]
  BY DEF LineOpens
<1> DEFINE n == Cardinality(wanted)
<1>3. n \in Nat /\ wanted \subseteq Markets
  BY FS_CardinalityType DEF TradFiInv, TradFiTypes, TradFiTypeOK
<1>4. /\ sending \in [1..n -> wanted]
      /\ \A i, j \in 1..n : i # j => sending[i] # sending[j]
  BY <1>2 DEF SetToSeqs
<1>5. \A i \in 1..n : sending[i] \in wanted /\ sending[i] \in Markets
  BY <1>3, <1>4
<1>6. \A i \in 1..n : Command("subscribe", sending[i]) \in CommandType
  BY <1>5 DEF Command, CommandType
<1>7. commands' = [i \in 1..n |-> Command("subscribe", sending[i])]
  BY <1>2, <1>4
<1>8. commands' \in Seq(CommandType) /\ Len(commands') = n
  BY <1>3, <1>6, <1>7
<1>9. \A m \in wanted : \E i \in 1..n : sending[i] = m
  <2>1. IsFiniteSet(wanted)
    BY DEF TradFiInv, TradFiTypes
  <2>2. sending \in Injection(1..n, wanted)
    BY <1>4 DEF Injection, IsInjective
  <2>3. IsFiniteSet(1..n) /\ Cardinality(1..n) = n
    BY <1>3, FS_Interval
  <2>4. sending \in Surjection(1..n, wanted)
    BY <2>1, <2>2, <2>3, FS_Injection
  <2> QED
    BY <2>4 DEF Surjection
<1>10. \A i \in 1..n : commands'[i].kind = "subscribe" /\ commands'[i].market = sending[i]
  BY <1>7 DEF Command
<1>11. Agreed'
  BY <1>1, <1>3, <1>5, <1>8, <1>9, <1>10 DEF Agreed, Unmentioned
<1> QED
  BY <1>1, <1>8, <1>11 DEF TradFiInv, TradFiTypes, TradFiTypeOK, CommandType

\* A step that leaves commands and subscriptions alone, or has no open socket.
LEMMA LineQuiet ==
  ASSUME TradFiInv, UNCHANGED wanted,
         \/ UNCHANGED <<commands, serving, declined>> /\ (LineUp' => LineUp)
         \/ line' \in {"connecting", "closed"}
  PROVE  Agreed'
BY DEF TradFiInv, Agreed, LineUp, LastWord, Unmentioned

\* The socket goes through its states, and the exchange reads commands.
LEMMA LineKeeps ==
  ASSUME TradFiInv,
         \/ LineFails \/ LineCloses \/ LineMute \/ MuteLineBreaks \/ LineAgain
         \/ Serve \/ Decline
  PROVE  TradFiInv'
<1> USE DEF TradFiInv, TradFiTypes, TradFiTypeOK, prices
<1>1. CASE LineFails \/ LineCloses \/ LineMute \/ MuteLineBreaks \/ LineAgain
  <2>1. /\ line' \in {"connecting", "closed", "mute"} /\ again' \in BOOLEAN
        /\ commands' = commands \/ commands' = <<>>
        /\ UNCHANGED <<streaming, wanted, serving, declined, watched, kept, hubTick, quotes>>
    BY <1>1 DEF LineFails, LineCloses, LineMute, MuteLineBreaks, LineAgain, LineDown
  <2>2. Agreed'
    <3>1. \/ line' \in {"connecting", "closed"}
          \/ line' = "mute" /\ LineUp /\ UNCHANGED commands
      BY <1>1 DEF LineFails, LineCloses, LineMute, MuteLineBreaks, LineAgain, LineDown, LineUp
    <3> QED
      BY <2>1, <3>1, LineQuiet
  <2>3. commands' \in Seq([kind : {"subscribe", "unsubscribe"}, market : Markets])
    <3>1. \A S : <<>> \in Seq(S)
      OBVIOUS
    <3> QED
      BY <2>1, <3>1, Zenon
  <2> QED
    BY <2>1, <2>2, <2>3
<1>2. CASE Serve \/ Decline
  <2> DEFINE c == Head(commands)
  <2>1. /\ line = "open" /\ LineUp /\ commands # <<>> /\ commands' = Tail(commands)
        /\ UNCHANGED <<streaming, line, again, wanted, watched, kept, hubTick, quotes>>
    BY <1>2 DEF Serve, Decline, LineUp
  <2>2. c \in CommandType
    <3>1. commands \in Seq(CommandType)
      BY DEF CommandType
    <3> HIDE DEF TradFiInv
    <3> QED
      BY <2>1, <3>1
  <2>3. /\ serving' \cup declined' \subseteq Markets
        /\ IF c.kind = "subscribe" THEN c.market \in serving' \cup declined'
                                   ELSE c.market \notin serving'
        /\ \A m \in Markets : m # c.market =>
             (m \in serving' <=> m \in serving) /\ (m \in declined' <=> m \in declined)
    BY <1>2, <2>2 DEF Serve, Decline, Served, CommandType
  <2>4. commands' \in Seq(CommandType) /\ Agreed'
    BY <2>1, <2>3, CommandRead
  <2> QED
    BY <2>1, <2>3, <2>4 DEF CommandType
<1> QED
  BY <1>1, <1>2

\* Adapters come and go; the stream keeps a tick for each market.
LEMMA AdapterKeeps ==
  ASSUME TradFiInv, NEW m \in Markets, Watch(m) \/ Unwatch(m)
  PROVE  TradFiInv'
<1>1. /\ streaming' \in BOOLEAN /\ line' \in {line, "connecting"}
      /\ watched' \subseteq Markets
      /\ UNCHANGED <<again, serving, declined, kept, quotes>>
      /\ wanted' = wanted \cup {m} \/ wanted' = wanted \ {m}
  BY DEF Watch, Unwatch, TradFiInv, TradFiTypes, TradFiTypeOK
<1>2. IsFiniteSet(wanted') /\ wanted' \subseteq Markets
  <2>1. IsFiniteSet(wanted \cup {m}) /\ IsFiniteSet(wanted \ {m})
    BY FS_AddElement, FS_RemoveElement DEF TradFiInv, TradFiTypes
  <2> QED
    BY <1>1, <2>1 DEF TradFiInv, TradFiTypes, TradFiTypeOK
<1>3. /\ hubTick' \in [Markets -> Nat]
      /\ \A p \in Markets : hubTick'[p] \in 0..kept[p]
  <2>1. \A p \in Markets : kept[p] \in Nat /\ hubTick[p] \in 0..kept[p]
    BY DEF TradFiInv, TradFiTypes, TradFiTypeOK
  <2>2. hubTick' \in {hubTick, [hubTick EXCEPT ![m] = kept[m]], [hubTick EXCEPT ![m] = 0]}
    BY DEF Watch, Unwatch
  <2> QED
    BY <2>1, <2>2 DEF TradFiInv, TradFiTypes
<1>4. commands' \in Seq(CommandType) /\ Agreed'
  <2>1. CASE Watch(m) /\ ~streaming
    BY <2>1 DEF Watch, Agreed, LineUp, TradFiInv, TradFiTypes, TradFiTypeOK, CommandType
  <2>2. CASE Watch(m) /\ streaming
    BY <2>2, CommandSent DEF Watch
  <2>3. CASE Unwatch(m)
    BY <2>3, CommandSent DEF Unwatch
  <2> QED
    BY <2>1, <2>2, <2>3
<1> QED
  BY <1>1, <1>2, <1>3, <1>4 DEF TradFiInv, TradFiTypes, TradFiTypeOK, CommandType

\* Prices move and are pushed.
LEMMA PricesKeep ==
  ASSUME TradFiInv, NEW m \in Markets, TradFiTick(m) \/ TradFiMoves(m)
  PROVE  TradFiInv'
<1>1. UNCHANGED <<streaming, line, again, commands, serving, declined, wanted, watched>>
  BY DEF TradFiTick, TradFiMoves, lineVars
<1>2. Agreed'
  BY <1>1, LineQuiet DEF LineUp
<1>3. \A p \in Markets : /\ quotes[p] \in 1..MaxQuote /\ kept[p] \in 0..quotes[p]
                         /\ hubTick[p] \in 0..kept[p]
  BY DEF TradFiInv, TradFiTypes, TradFiTypeOK
<1>4. /\ kept' \in [Markets -> Nat] /\ hubTick' \in [Markets -> Nat]
      /\ quotes' \in [Markets -> Nat]
      /\ \A p \in Markets : /\ quotes'[p] \in 1..MaxQuote /\ kept'[p] \in 0..quotes'[p]
                            /\ hubTick'[p] \in 0..kept'[p]
  <2>1. CASE TradFiMoves(m)
    BY <1>3, <2>1, TradFiAssumption DEF TradFiMoves, TradFiInv, TradFiTypes
  <2>2. CASE TradFiTick(m)
    <3>1. /\ UNCHANGED quotes /\ kept' \in {kept, [kept EXCEPT ![m] = quotes[m]]}
          /\ hubTick' \in {hubTick, [hubTick EXCEPT ![m] = quotes[m]]}
          /\ hubTick' = hubTick \/ kept' = [kept EXCEPT ![m] = quotes[m]]
      BY <2>2 DEF TradFiTick
    <3>2. \A p \in Markets : /\ kept'[p] \in {kept[p], quotes[p]}
                             /\ hubTick'[p] \in {hubTick[p], quotes[p]}
                             /\ hubTick'[p] = hubTick[p] \/ kept'[p] = quotes[p]
      BY <3>1 DEF TradFiInv, TradFiTypes
    <3> QED
      BY <1>3, <3>1, <3>2 DEF TradFiInv, TradFiTypes
  <2> QED
    BY <2>1, <2>2
<1> QED
  BY <1>1, <1>2, <1>4 DEF TradFiInv, TradFiTypes, TradFiTypeOK

LEMMA TradFiInvNext == TradFiInv /\ [TradFiNext]_tradFiVars => TradFiInv'
<1> SUFFICES ASSUME TradFiInv, [TradFiNext]_tradFiVars PROVE TradFiInv'
  OBVIOUS
<1>1. CASE UNCHANGED tradFiVars
  BY <1>1, LineQuiet
     DEF tradFiVars, lineVars, prices, TradFiInv, TradFiTypes, TradFiTypeOK, LineUp
<1> QED
  BY <1>1, LineOpensKeeps, LineKeeps, AdapterKeeps, PricesKeep DEF TradFiNext

\* Every command of an open socket read, the exchange serves what the stream
\* wants, for any markets, bounds and faults (GateTradFiMarketDataStream).
THEOREM SubscriptionsAgree == TradFiSpec => []ServedAsWanted
<1>1. TradFiInv => ServedAsWanted
  BY DEF TradFiInv, TradFiTypes, TradFiTypeOK, Agreed, ServedAsWanted, LineUp, Unmentioned
<1> QED
  BY <1>1, TradFiInvInit, TradFiInvNext, PTL DEF TradFiSpec

-----------------------------------------------------------------------------
(* Every variable has the values the code can give it, service by service *)

\* What GateFeedTypeOK says beyond FeedInv.
FeedBounded ==
  /\ hubRuns \in BOOLEAN /\ listening \subseteq Listeners
  /\ feedsMade \in 0..MaxFeeds /\ quote \in 1..MaxPrice
  /\ \A r \in polls : r.since >= 1

LEMMA FeedNumbers ==
  MaxPrice \in Nat /\ MaxPrice >= 1 /\ MaxFeeds \in Nat /\ MaxFeeds >= 1
BY FeedAssumption

LEMMA FeedBoundedInit == GateFeedInit => FeedBounded
<1> SUFFICES ASSUME GateFeedInit PROVE FeedBounded
  OBVIOUS
<1>1. 1 \in 1..MaxPrice /\ 0 \in 0..MaxFeeds
  BY FeedNumbers
<1> QED
  BY <1>1 DEF GateFeedInit, FeedBounded

LEMMA FeedBoundedNext ==
  FeedInv /\ FeedBounded /\ [GateFeedNext]_gateFeedVars => FeedBounded'
<1> SUFFICES ASSUME FeedInv, FeedBounded, [GateFeedNext]_gateFeedVars PROVE FeedBounded'
  OBVIOUS
<1>1. /\ hubRuns' \in BOOLEAN /\ listening' \subseteq Listeners
      /\ quote' = quote \/ (quote < MaxPrice /\ quote' = quote + 1)
  BY DEF FeedBounded, GateFeedNext, gateFeedVars, HubStart, Subscribe,
     Unsubscribe, PollAnswer, PollFails, PollDue, SocketOpens, ConnectionFails,
     SocketCloses, MuteSocketBreaks, ReconnectDue, SocketFault, Update, QuoteMoves
<1>2. feedsMade' = feedsMade \/ (feedsMade < MaxFeeds /\ feedsMade' = feedsMade + 1)
  BY DEF GateFeedNext, gateFeedVars, feedBounds, HubStart, Subscribe, EnsureStream,
     Unsubscribe, PollAnswer, PollFails, PollDue, SocketOpens, ConnectionFails,
     SocketCloses, MuteSocketBreaks, ReconnectDue, SocketFault, Update, QuoteMoves
<1>3. \A r \in polls' : r \in polls \/ r.since = quote
  BY DEF GateFeedNext, gateFeedVars, HubStart, Subscribe, Request, FallBack,
     Unsubscribe, PollAnswer, PollFails, PollDue, SocketOpens, ConnectionFails,
     SocketCloses, MuteSocketBreaks, ReconnectDue, SocketFault, Update, QuoteMoves
<1> QED
  BY <1>1, <1>2, <1>3, FeedNumbers DEF FeedBounded

LEMMA FeedTyped == FeedInv /\ FeedBounded => GateFeedTypeOK
<1> SUFFICES ASSUME FeedInv, FeedBounded PROVE GateFeedTypeOK
  OBVIOUS
<1> USE DEF FeedInv, FeedTypes, FeedBounded
<1>1. /\ feed.id \in Nat /\ feed.gen \in Nat /\ feed.floor \in Nat
      /\ {feed.polling, feed.timer, feed.reconnect} \subseteq BOOLEAN
      /\ feed.socket \in Sockets
  BY DEF FeedType
<1>2. \A r \in polls : r.feed \in Nat \ {0} /\ r.gen \in Nat /\ r.since \in Nat
  BY DEF PollType
<1>3. /\ feed.id \in 0..MaxFeeds /\ feed.floor \in 0..quote /\ latest \in 0..quote
      /\ \A r \in polls : r.feed \in 1..feedsMade /\ r.since \in 1..quote
  BY <1>1, <1>2, FeedNumbers DEF RequestsKnown
<1> QED
  BY <1>1, <1>2, <1>3 DEF GateFeedTypeOK, Sockets

\* Every variable of the market data of a contract has the values the code can
\* give it: no listener, request or stream knows a price not quoted yet.
THEOREM FeedsTyped == GateFeedSpec => []GateFeedTypeOK
BY FeedInvInit, FeedInvNext, FeedBoundedInit, FeedBoundedNext, FeedTyped, PTL DEF GateFeedSpec

\* Every variable of the TradFi stream has the values the code can give it: the
\* hub's tick is never ahead of the adapter's, nor that of the quotes.
THEOREM TradFiTyped == TradFiSpec => []TradFiTypeOK
<1>1. TradFiInv => TradFiTypeOK
  BY DEF TradFiInv, TradFiTypes
<1> QED
  BY <1>1, TradFiInvInit, TradFiInvNext, PTL DEF TradFiSpec

-----------------------------------------------------------------------------
(* The services side by side: what is proved of one holds beside the others *)

LEMMA ServicesStart ==
  ServicesInit => /\ LighterInit /\ CfdInit /\ VirtualInit /\ RegistryInit
                  /\ BacktestInit /\ GateFeedInit /\ TradFiInit
BY DEF ServicesInit

LEMMA ServicesStep ==
  [ServicesNext]_servicesVars =>
    /\ [LighterNext]_lighterVars /\ [CfdNext]_cfdVars /\ [VirtualNext]_virtualVars
    /\ [RegistryNext]_registryVars /\ [BacktestNext]_backtestVars
    /\ [GateFeedNext]_gateFeedVars /\ [TradFiNext]_tradFiVars
BY DEF ServicesNext, servicesVars, LighterAtWork, CfdAtWork, VirtualAtWork,
       RegistryAtWork, BacktestAtWork, GateFeedAtWork, TradFiAtWork

\* The composition implements each service: a step is one of a service's own or
\* leaves its variables alone, so that every theorem about a service holds here.
THEOREM ServicesImplementEach ==
  ServicesSpec => /\ LighterSpec /\ CfdSpec /\ VirtualSpec /\ RegistrySpec
                  /\ BacktestSpec /\ GateFeedSpec /\ TradFiSpec
BY ServicesStart, ServicesStep, PTL
   DEF ServicesSpec, LighterSpec, CfdSpec, VirtualSpec, RegistrySpec, BacktestSpec,
       GateFeedSpec, TradFiSpec

\* Every variable of every service keeps its values, whichever of them is at
\* work, for all the constants.
THEOREM ServicesTyped == ServicesSpec => []ServicesTypeOK
<1>1. /\ LighterTypeOK /\ CfdTypeOK /\ VirtualTypeOK /\ RegistryTypeOK
      /\ BacktestTypeOK /\ GateFeedTypeOK /\ TradFiTypeOK
      => ServicesTypeOK
  BY DEF ServicesTypeOK
<1> QED
  BY <1>1, ServicesImplementEach, LighterTyped, CfdTyped, VirtualTyped, RegistryTyped,
     TypeCorrect, FeedsTyped, TradFiTyped, PTL

=============================================================================
