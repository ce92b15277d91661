------------------------------ MODULE MCServices ------------------------------
(***************************************************************************)
(* The services of the other venues, the registry and the backtests, side  *)
(* by side: they share no state, so a behaviour is one of them at work     *)
(* while the others stay as they start.                                    *)
(***************************************************************************)
EXTENDS LighterOrder, CfdLegs, VirtualVenue, InstanceRegistry, BacktestRuns,
        GateFeed, TradFiFeed

\* At work: "lighter", "cfd", "virtual", "registry", "backtest", "gatefeed", "tradfi".
CONSTANT Services

VARIABLE service

Volumes(old, first, second) ==
  [p \in 0..2 |-> CASE p = 0 -> old [] p = 1 -> first [] p = 2 -> second]
SafeVolumes == {Volumes(1, 1, 1), Volumes(0, 1, 2)}
LiveVolumes == {Volumes(0, 1, 1)}
SafeGroups == {"Market", "Trigger"} \X BOOLEAN
LiveGroups == {<<"Market", FALSE>>, <<"Trigger", TRUE>>}

ServicesInit ==
  /\ service \in Services
  /\ LighterInit /\ CfdInit /\ VirtualInit /\ RegistryInit /\ BacktestInit
  /\ GateFeedInit /\ TradFiInit
  \* An older position matters where a leg is matched by its volume.
  /\ lots[Old] > 0 => ~named
  \* What is not at work has one initial state.
  /\ service # "cfd" => /\ ~named /\ kind = "Market"
                        /\ lots = CHOOSE b \in Books : TRUE
  /\ service # "registry" => brand = "gate" /\ dbRow = "active"

LighterAtWork ==
  service = "lighter" /\ LighterNext
  /\ UNCHANGED <<cfdVars, virtualVars, registryVars, backtestVars,
                 gateFeedVars, tradFiVars>>
CfdAtWork ==
  service = "cfd" /\ CfdNext
  /\ UNCHANGED <<lighterVars, virtualVars, registryVars, backtestVars,
                 gateFeedVars, tradFiVars>>
VirtualAtWork ==
  service = "virtual" /\ VirtualNext
  /\ UNCHANGED <<lighterVars, cfdVars, registryVars, backtestVars,
                 gateFeedVars, tradFiVars>>
RegistryAtWork ==
  service = "registry" /\ RegistryNext
  /\ UNCHANGED <<lighterVars, cfdVars, virtualVars, backtestVars,
                 gateFeedVars, tradFiVars>>
BacktestAtWork ==
  service = "backtest" /\ BacktestNext
  /\ UNCHANGED <<lighterVars, cfdVars, virtualVars, registryVars,
                 gateFeedVars, tradFiVars>>
GateFeedAtWork ==
  service = "gatefeed" /\ GateFeedNext
  /\ UNCHANGED <<lighterVars, cfdVars, virtualVars, registryVars,
                 backtestVars, tradFiVars>>
TradFiAtWork ==
  service = "tradfi" /\ TradFiNext
  /\ UNCHANGED <<lighterVars, cfdVars, virtualVars, registryVars,
                 backtestVars, gateFeedVars>>

ServicesNext ==
  /\ \/ LighterAtWork \/ CfdAtWork \/ VirtualAtWork \/ RegistryAtWork
     \/ BacktestAtWork \/ GateFeedAtWork \/ TradFiAtWork
  /\ UNCHANGED service

servicesVars ==
  <<lighterVars, cfdVars, virtualVars, registryVars, backtestVars, gateFeedVars,
    tradFiVars, service>>

ServicesSpec == ServicesInit /\ [][ServicesNext]_servicesVars
ServicesFairSpec == ServicesSpec /\ LighterFairness /\ CfdFairness
                      /\ VirtualFairness /\ RegistryFairness
                      /\ GateFeedFairness /\ TradFiFairness

\* Every variable of the service at work has the values the code can give it.
ServicesTypeOK ==
  /\ service = "lighter" => LighterTypeOK
  /\ service = "cfd" => CfdTypeOK
  /\ service = "virtual" => VirtualTypeOK
  /\ service = "registry" => RegistryTypeOK
  /\ service = "backtest" => BacktestTypeOK
  /\ service = "gatefeed" => GateFeedTypeOK
  /\ service = "tradfi" => TradFiTypeOK

\* Whoever listens to a price comes to see where it ends, over the websocket,
\* by polling, and after every reconnect, on both kinds of stream.
PricesFollow == FeedFollows /\ TradFiFollows

=============================================================================
