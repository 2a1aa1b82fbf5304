---------------------------- MODULE MCVerifierNode ----------------------------
(* Instances of VerifierNode for TLC. *)
EXTENDS VerifierNode

CONSTANTS s1, s2, g1

\* The first and the last transaction carry the same chain signature.
MCTransactions == 1 .. N
MCSignature == [t \in MCTransactions |-> IF t \in {1, N} THEN s1 ELSE s2]

\* Bound of the run with liveness: one publication, or two of which one has no
\* event; in that case no stops, and at most two calls of saveTxDb at a time.
OneOrEventless ==
    IF eventless = {} THEN submitted <= 1 ELSE crashes = 0 /\ Cardinality(writes) <= 2

===============================================================================
