--------------------------- MODULE MCRiskControl ----------------------------
(* Instances of RiskControl for TLC. *)
EXTENDS RiskControl, TLC

MCMaxOpen == [d \in Directions |-> 2]

\* No limit of its own.
MCMaxOpenWide == [d \in Directions |-> Cardinality(Trades)]

Symmetry == Permutations(Trades)

=============================================================================
