------------------------------- MODULE GateFeed -------------------------------
(***************************************************************************)
(* The price of one Gate contract: MarketDataHub with its listeners, and   *)
(* the GateMarketDataStream it makes for them, which reads a websocket and *)
(* polls over HTTP while the websocket is down.  A stream is replaced, not *)
(* restarted; the answer to a poll may come after its stream is gone.      *)
(***************************************************************************)
EXTENDS Integers, FiniteSets

CONSTANTS
  Listeners,  \* subscribers of the symbol
  MaxPrice,   \* bound of the changes of the price, which are its versions
  MaxFeeds,   \* bound of the streams made
  FeedFaults  \* bound of requests that fail, sockets that close, fall mute
              \* or are refused

ASSUME FeedAssumption == {MaxPrice, MaxFeeds} \subseteq Nat \ {0} /\ FeedFaults \in Nat

VARIABLES
  hubRuns,    \* MarketDataHub.running
  listening,  \* subscribers of the symbol
  feed,       \* the stream of the symbol, or NoFeed
  polls,      \* requests of fetchTicker that are not answered
  latest,      \* latestTicks of the symbol; 0 when it has none
  quote,      \* the exchange's price
  feedsMade, feedFaults

feedBounds == <<feedsMade, feedFaults>>
gateFeedVars == <<hubRuns, listening, feed, polls, latest, quote, feedBounds>>

\* id 0 is no stream.  socket: connecting, open, and of the open ones mute
\* (the peer is gone, nothing says so) and refused (no ticker was granted).
\* floor: the last price the socket gave.
NoFeed == [id |-> 0, gen |-> 0, polling |-> FALSE, timer |-> FALSE,
           socket |-> "none", floor |-> 0, reconnect |-> FALSE]
Connected == {"open", "mute", "refused"}

GateFeedInit ==
  /\ hubRuns = FALSE /\ listening = {} /\ feed = NoFeed /\ polls = {} /\ latest = 0
  /\ quote = 1 /\ feedsMade = 0 /\ feedFaults = 0

-----------------------------------------------------------------------------
(* The hub *)

\* ensureStream: a new stream connects; start makes generation 1.
EnsureStream ==
  IF feed # NoFeed THEN UNCHANGED <<feed, feedsMade>>
  ELSE /\ feedsMade < MaxFeeds /\ feedsMade' = feedsMade + 1
       /\ feed' = [NoFeed EXCEPT !.id = feedsMade + 1, !.gen = 1, !.socket = "connecting"]

HubStart ==
  /\ ~hubRuns /\ hubRuns' = TRUE
  /\ IF listening = {} THEN UNCHANGED <<feed, feedsMade>> ELSE EnsureStream
  /\ UNCHANGED <<listening, polls, latest, quote, feedFaults>>

Subscribe(l) ==
  /\ l \notin listening /\ listening' = listening \cup {l}
  /\ IF hubRuns THEN EnsureStream ELSE UNCHANGED <<feed, feedsMade>>
  /\ UNCHANGED <<hubRuns, polls, latest, quote, feedFaults>>

\* The last listener takes the latest price and the stream with it: stop
\* clears the timers and the socket and leaves a request on its way.
Unsubscribe(l) ==
  /\ l \in listening /\ listening' = listening \ {l}
  /\ IF listening = {l} THEN latest' = 0 /\ feed' = NoFeed ELSE UNCHANGED <<latest, feed>>
  /\ UNCHANGED <<hubRuns, polls, quote, feedBounds>>

-----------------------------------------------------------------------------
(* Polling *)

Request(f) == [feed |-> f.id, gen |-> f.gen, since |-> quote]

\* startPolling: nothing for a stream that polls; else a generation of its
\* own and the first request.
StartPolling(f) == IF f.polling THEN f ELSE [f EXCEPT !.polling = TRUE, !.gen = @ + 1]

\* Mutant: the generation stays, so a request on its way stays good.
StopPollingOnly(f) == [f EXCEPT !.polling = FALSE, !.timer = FALSE]

\* stopPolling: whatever the old generation asked for is not wanted any more.
StopPolling(f) == [f EXCEPT !.polling = FALSE, !.timer = FALSE, !.gen = @ + 1]

\* isActive(generation).
IsActive(r) == feed.id = r.feed /\ feed.gen = r.gen

\* After a request the next one is scheduled, when the stream still polls.
Scheduled(r) == feed' = IF IsActive(r) /\ feed.polling
                        THEN [feed EXCEPT !.timer = TRUE] ELSE feed

\* The answer has a price the contract had after the request.
PollAnswer(r) ==
  /\ r \in polls /\ polls' = polls \ {r}
  /\ \E price \in r.since..quote : latest' = IF IsActive(r) THEN price ELSE latest
  /\ Scheduled(r)
  /\ UNCHANGED <<hubRuns, listening, quote, feedBounds>>

\* An error, or an answer without a positive price: no tick.
PollFails(r) ==
  /\ r \in polls /\ polls' = polls \ {r} /\ Scheduled(r)
  /\ feedFaults < FeedFaults /\ feedFaults' = feedFaults + 1
  /\ UNCHANGED <<hubRuns, listening, latest, quote, feedsMade>>

PollDue ==
  /\ feed.timer /\ feed' = [feed EXCEPT !.timer = FALSE]
  /\ polls' = polls \cup {Request(feed)}
  /\ UNCHANGED <<hubRuns, listening, latest, quote, feedBounds>>

-----------------------------------------------------------------------------
(* The websocket *)

\* onWSOpen: polling stops, the ticker is subscribed.
SocketOpens ==
  /\ feed.socket = "connecting"
  /\ feed' = [(IF feed.polling THEN StopPolling(feed) ELSE feed)
                EXCEPT !.socket = "open", !.floor = quote]
  /\ UNCHANGED <<hubRuns, listening, polls, latest, quote, feedBounds>>

\* onWSClose: polling takes over and the connection is tried again later.
FallBack ==
  /\ feed' = [StartPolling(feed) EXCEPT !.socket = "closed", !.reconnect = TRUE]
  /\ polls' = IF feed.polling THEN polls ELSE polls \cup {Request(StartPolling(feed))}

ConnectionFails ==
  /\ feed.socket = "connecting" /\ FallBack
  /\ UNCHANGED <<hubRuns, listening, latest, quote, feedBounds>>

SocketCloses ==
  /\ feed.socket \in {"open", "refused"} /\ FallBack
  /\ feedFaults < FeedFaults /\ feedFaults' = feedFaults + 1
  /\ UNCHANGED <<hubRuns, listening, latest, quote, feedsMade>>

\* The pings stay without an acknowledgement until the connection breaks.
MuteSocketBreaks ==
  /\ feed.socket = "mute" /\ FallBack
  /\ UNCHANGED <<hubRuns, listening, latest, quote, feedBounds>>

SocketFault(kind) ==
  /\ feed.socket = "open" /\ feed' = [feed EXCEPT !.socket = kind]
  /\ feedFaults < FeedFaults /\ feedFaults' = feedFaults + 1
  /\ UNCHANGED <<hubRuns, listening, polls, latest, quote, feedsMade>>

\* connectWS, when the reconnect timer is due; polling goes on meanwhile.
ReconnectDue ==
  /\ feed.reconnect /\ feed' = [feed EXCEPT !.reconnect = FALSE, !.socket = "connecting"]
  /\ UNCHANGED <<hubRuns, listening, polls, latest, quote, feedBounds>>

\* Updates come in their order, each with a price not older than the last.
Update ==
  /\ feed.socket = "open"
  /\ \E price \in feed.floor..quote :
       latest' = price /\ feed' = [feed EXCEPT !.floor = price]
  /\ UNCHANGED <<hubRuns, listening, polls, quote, feedBounds>>

QuoteMoves ==
  /\ quote < MaxPrice /\ quote' = quote + 1
  /\ UNCHANGED <<hubRuns, listening, feed, polls, latest, feedBounds>>

-----------------------------------------------------------------------------

GateFeedNext ==
  \/ HubStart \/ PollDue \/ SocketOpens \/ ConnectionFails \/ SocketCloses
  \/ MuteSocketBreaks \/ ReconnectDue \/ Update \/ QuoteMoves
  \/ \E l \in Listeners : Subscribe(l) \/ Unsubscribe(l)
  \/ \E r \in polls : PollAnswer(r) \/ PollFails(r)
  \/ \E kind \in {"mute", "refused"} : SocketFault(kind)

GateFeedSpec == GateFeedInit /\ [][GateFeedNext]_gateFeedVars

ConnectionEnds == SocketOpens \/ ConnectionFails
PollEnds == \E r \in polls : PollAnswer(r) \/ PollFails(r)
NewestUpdate == Update /\ latest' = quote

\* Timers fire, a connection attempt and a request end, an open socket brings
\* the price.  No attempt to connect must succeed.
GateFeedFairness ==
  /\ WF_gateFeedVars(PollDue) /\ WF_gateFeedVars(ReconnectDue)
  /\ WF_gateFeedVars(ConnectionEnds) /\ WF_gateFeedVars(MuteSocketBreaks)
  /\ WF_gateFeedVars(PollEnds) /\ WF_gateFeedVars(NewestUpdate)

-----------------------------------------------------------------------------
(* Properties *)

\* Every variable has the values the code can give it.
GateFeedTypeOK ==
  /\ hubRuns \in BOOLEAN /\ listening \subseteq Listeners
  /\ feed.id \in 0..MaxFeeds /\ feed.gen \in Nat /\ feed.floor \in 0..quote
  /\ {feed.polling, feed.timer, feed.reconnect} \subseteq BOOLEAN
  /\ feed.socket \in Connected \cup {"none", "connecting", "closed"}
  /\ \A r \in polls : r.feed \in 1..feedsMade /\ r.gen \in Nat /\ r.since \in 1..quote
  /\ latest \in 0..quote /\ quote \in 1..MaxPrice

\* The hub never shows a price older than the one it shows, whichever of the
\* two sources brings it, whatever stream asked for it and however late.
PriceNeverOlder == [][latest # 0 /\ latest' # 0 => latest' >= latest]_gateFeedVars

\* A hub with a listener comes to show the price the contract ends at, also
\* when no websocket can be opened, unless the exchange refuses the ticker.
FeedFollows ==
  (hubRuns /\ listening # {} /\ quote = MaxPrice) ~>
    (latest = MaxPrice \/ listening = {} \/ feed.socket = "refused")

=============================================================================
