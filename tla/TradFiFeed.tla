------------------------------ MODULE TradFiFeed ------------------------------
(***************************************************************************)
(* The prices of the TradFi contracts: the virtual TradFi hub, an adapter  *)
(* for each contract it watches, and the one GateTradFiMarketDataStream    *)
(* they share, whose websocket carries every subscription.                 *)
(***************************************************************************)
EXTENDS Integers, SequencesExt

CONSTANTS
  Markets,     \* contracts
  MaxQuote,    \* bound of the changes of a price, which are its versions
  MaxCommands, \* bound of the commands on their way
  LineFaults   \* bound of connections refused, sockets lost, subscriptions declined

ASSUME TradFiAssumption == MaxQuote \in Nat \ {0} /\ {MaxCommands, LineFaults} \subseteq Nat

VARIABLES
  streaming, \* GateTradFiMarketDataStream.running
  line,      \* its websocket
  again,     \* its reconnect timer is set
  wanted,    \* subscribedSymbols
  commands,  \* commands sent on this socket that the exchange has not read
  serving,   \* markets the exchange serves on this socket
  declined,  \* markets it declined on this socket
  watched,   \* markets whose adapter listens
  kept,      \* latestTicks of the shared stream; 0 when it has none
  hubTick,   \* latestTicks of the hub; 0 when it has none
  quotes,    \* the exchange's prices
  lineFaults

prices == <<kept, hubTick, quotes>>
lineVars == <<line, again, commands, serving, declined>>
tradFiVars == <<streaming, lineVars, wanted, watched, prices, lineFaults>>

TradFiInit ==
  /\ streaming = FALSE /\ line = "none" /\ again = FALSE /\ wanted = {}
  /\ commands = <<>> /\ serving = {} /\ declined = {} /\ watched = {}
  /\ kept = [m \in Markets |-> 0] /\ hubTick = kept /\ quotes = [m \in Markets |-> 1]
  /\ lineFaults = 0

\* A socket that broke without a sign is still wsConnected.
LineUp == line \in {"open", "mute"}

-----------------------------------------------------------------------------
(* Adapters *)

Command(kind, m) == [kind |-> kind, market |-> m]
SendCommand(kind, m) ==
  IF LineUp THEN /\ Len(commands) < MaxCommands
                 /\ commands' = Append(commands, Command(kind, m))
            ELSE UNCHANGED commands

\* subscribe: the first one starts the stream; later ones are sent at once, or
\* when the socket opens.  The adapter hands on the tick the stream has kept.
Watch(m) ==
  /\ m \notin watched /\ watched' = watched \cup {m} /\ wanted' = wanted \cup {m}
  /\ streaming' = TRUE
  /\ IF streaming THEN SendCommand("subscribe", m) /\ UNCHANGED line
                  ELSE line' = "connecting" /\ UNCHANGED commands
  /\ hubTick' = IF kept[m] > 0 THEN [hubTick EXCEPT ![m] = kept[m]] ELSE hubTick
  /\ UNCHANGED <<again, serving, declined, kept, quotes, lineFaults>>

\* The hub drops its tick, the adapter its listener and the subscription; the
\* stream keeps the last tick.
Unwatch(m) ==
  /\ m \in watched /\ watched' = watched \ {m} /\ wanted' = wanted \ {m}
  /\ hubTick' = [hubTick EXCEPT ![m] = 0]
  /\ SendCommand("unsubscribe", m)
  /\ UNCHANGED <<streaming, line, again, serving, declined, kept, quotes, lineFaults>>

-----------------------------------------------------------------------------
(* The shared websocket *)

\* Mutant: a socket that was opened again has no subscriptions.
LineOpensBare ==
  /\ line = "connecting" /\ line' = "open"
  /\ commands' = <<>> /\ serving' = {} /\ declined' = {}
  /\ UNCHANGED <<streaming, again, wanted, watched, prices, lineFaults>>

\* onWSOpen: every market wanted is subscribed, in any order.
LineOpens ==
  /\ line = "connecting" /\ line' = "open"
  /\ \E order \in SetToSeqs(wanted) :
       commands' = [i \in DOMAIN order |-> Command("subscribe", order[i])]
  /\ serving' = {} /\ declined' = {}
  /\ UNCHANGED <<streaming, again, wanted, watched, prices, lineFaults>>

\* onWSClose: a reconnect is scheduled; what was on its way is lost.
LineDown == line' = "closed" /\ again' = TRUE /\ commands' = <<>>

LineFails ==
  /\ line = "connecting" /\ LineDown /\ lineFaults < LineFaults /\ lineFaults' = lineFaults + 1
  /\ UNCHANGED <<streaming, wanted, serving, declined, watched, prices>>

LineCloses ==
  /\ line = "open" /\ LineDown /\ lineFaults < LineFaults /\ lineFaults' = lineFaults + 1
  /\ UNCHANGED <<streaming, wanted, serving, declined, watched, prices>>

\* The peer is gone; only the unanswered pings end the connection.
LineMute ==
  /\ line = "open" /\ line' = "mute"
  /\ lineFaults < LineFaults /\ lineFaults' = lineFaults + 1
  /\ UNCHANGED <<streaming, again, commands, serving, declined, wanted, watched, prices>>

MuteLineBreaks ==
  /\ line = "mute" /\ LineDown
  /\ UNCHANGED <<streaming, wanted, serving, declined, watched, prices, lineFaults>>

LineAgain ==
  /\ again /\ again' = FALSE /\ line' = "connecting"
  /\ UNCHANGED <<streaming, wanted, commands, serving, declined, watched, prices, lineFaults>>

\* The exchange reads a command.
Served(set, c) ==
  IF c.kind = "subscribe" THEN set \cup {c.market} ELSE set \ {c.market}

Serve ==
  /\ line = "open" /\ commands # <<>> /\ commands' = Tail(commands)
  /\ serving' = Served(serving, Head(commands))
  /\ declined' = declined \ {Head(commands).market}
  /\ UNCHANGED <<streaming, line, again, wanted, watched, prices, lineFaults>>

\* The exchange declines a subscription, which is logged.
Decline ==
  /\ line = "open" /\ commands # <<>> /\ commands' = Tail(commands)
  /\ Head(commands).kind = "subscribe"
  /\ declined' = declined \cup ({Head(commands).market} \ serving)
  /\ lineFaults < LineFaults /\ lineFaults' = lineFaults + 1
  /\ UNCHANGED <<streaming, line, again, wanted, serving, watched, prices>>

\* handleTickers: a tick of a market not wanted is ignored, another is kept
\* and handed to the adapter.
TradFiTick(m) ==
  /\ line = "open" /\ m \in serving
  /\ IF m \in wanted
     THEN /\ kept' = [kept EXCEPT ![m] = quotes[m]]
          /\ hubTick' = IF m \in watched THEN [hubTick EXCEPT ![m] = quotes[m]] ELSE hubTick
     ELSE UNCHANGED <<kept, hubTick>>
  /\ UNCHANGED <<streaming, lineVars, wanted, watched, quotes, lineFaults>>

TradFiMoves(m) ==
  /\ quotes[m] < MaxQuote /\ quotes' = [quotes EXCEPT ![m] = @ + 1]
  /\ UNCHANGED <<streaming, lineVars, wanted, watched, kept, hubTick, lineFaults>>

-----------------------------------------------------------------------------

TradFiNext ==
  \/ LineOpens \/ LineFails \/ LineCloses \/ LineMute \/ MuteLineBreaks \/ LineAgain
  \/ Serve \/ Decline
  \/ \E m \in Markets : Watch(m) \/ Unwatch(m) \/ TradFiTick(m) \/ TradFiMoves(m)

TradFiSpec == TradFiInit /\ [][TradFiNext]_tradFiVars

\* Timers fire, attempts to connect end, the exchange reads what it is sent
\* and pushes what it serves.
TradFiFairness ==
  /\ WF_tradFiVars(LineAgain) /\ WF_tradFiVars(MuteLineBreaks)
  /\ WF_tradFiVars(LineOpens \/ LineFails)
  /\ WF_tradFiVars(Serve \/ Decline)
  /\ \A m \in Markets : WF_tradFiVars(TradFiTick(m))

-----------------------------------------------------------------------------
(* Properties *)

\* Every variable has the values the code can give it.
TradFiTypeOK ==
  /\ streaming \in BOOLEAN /\ again \in BOOLEAN
  /\ line \in {"none", "connecting", "open", "mute", "closed"}
  /\ wanted \cup serving \cup declined \cup watched \subseteq Markets
  /\ commands \in Seq([kind : {"subscribe", "unsubscribe"}, market : Markets])
  /\ \A m \in Markets : /\ quotes[m] \in 1..MaxQuote /\ kept[m] \in 0..quotes[m]
                        /\ hubTick[m] \in 0..kept[m]

\* Once the exchange has read every command of an open socket it serves what
\* the stream wants and nothing else, but for what it declined: however watching,
\* commands on their way and new sockets interleave, none is lost or left over.
ServedAsWanted ==
  line = "open" /\ commands = <<>> =>
    serving \subseteq wanted /\ wanted \subseteq serving \cup declined

\* A watched market comes to show the price it ends at, unless the exchange
\* declined it or nobody watches it any more.
TradFiFollows ==
  \A m \in Markets :
    (m \in watched /\ quotes[m] = MaxQuote) ~>
      (hubTick[m] = MaxQuote \/ m \notin watched \/ m \in declined)

=============================================================================
