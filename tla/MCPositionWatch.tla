--------------------------- MODULE MCPositionWatch ---------------------------
(* Instances of PositionWatch for TLC. *)
EXTENDS PositionWatch, TLC

\* Identifiers that only name things; orders are numbered.
Symmetry == Permutations(Checks) \cup Permutations(Closers)

=============================================================================
