--------------------------- MODULE MCSignalPipeline ---------------------------
(* Instances of SignalPipeline for TLC. *)
EXTENDS SignalPipeline, TLC

CONSTANT g1

\* All routes use one parser.
OneGroup  == [r \in Routes |-> g1]

\* Identifiers that only name things.
Symmetry == Permutations(Deliveries) \cup Permutations(Contents)

=============================================================================
