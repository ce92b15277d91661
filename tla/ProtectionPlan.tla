--------------------------- MODULE ProtectionPlan ---------------------------
(***************************************************************************)
(* What the PendingProtection table promises about an entry order, however *)
(* many handlers look at it: the plan for its take-profits is withdrawn    *)
(* only while the exchange does not have the order, is claimed by one      *)
(* handler, and is sent to the exchange at most once.                      *)
(***************************************************************************)
EXTENDS Naturals

CONSTANT Orders

VARIABLES
  phase,  \* "none", "planned", "claimed", "settled"
  live,   \* the exchange has accepted the order
  sent    \* ladders sent to the exchange

vars == <<phase, live, sent>>

Init ==
  /\ phase = [o \in Orders |-> "none"]
  /\ live = [o \in Orders |-> FALSE]
  /\ sent = [o \in Orders |-> 0]

Step(o, from, to) ==
  /\ phase[o] = from
  /\ phase' = [phase EXCEPT ![o] = to]

\* A plan may also be written late, from the memory of the submitter.
Plan(o) == Step(o, "none", "planned") /\ UNCHANGED <<live, sent>>

Withdraw(o) ==
  /\ ~live[o]
  /\ Step(o, "planned", "none")
  /\ UNCHANGED <<live, sent>>

Accept(o) ==
  /\ ~live[o]
  /\ live' = [live EXCEPT ![o] = TRUE]
  /\ UNCHANGED <<phase, sent>>

Claim(o) == live[o] /\ Step(o, "planned", "claimed") /\ UNCHANGED <<live, sent>>

Send(o) ==
  /\ Step(o, "claimed", "settled")
  /\ sent' = [sent EXCEPT ![o] = @ + 1]
  /\ UNCHANGED live

Next == \E o \in Orders : Plan(o) \/ Withdraw(o) \/ Accept(o) \/ Claim(o) \/ Send(o)

Spec == Init /\ [][Next]_vars

=============================================================================
