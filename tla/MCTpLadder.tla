------------------------------ MODULE MCTpLadder ------------------------------
(* Instances of TpLadder for TLC. *)
EXTENDS TpLadder, TLC

\* Distributions in percent: two targets, and six targets whose rounded shares
\* add up to more than the amount, nine contracts for one.
Uneven == {<<60, 40>>, <<17, 17, 17, 17, 17, 15>>}
Even   == {<<100>>, <<50, 50>>}

Symmetry == Permutations(Orders)

=============================================================================
