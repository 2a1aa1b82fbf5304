---------------------------- MODULE MCRustVerifier ----------------------------
(* Instances of RustVerifier for TLC. *)
EXTENDS RustVerifier

CONSTANT s1

\* All publications carry one chain signature: it is unused as long as those before
\* are missing from the answers.  The last points to the one before it, which is on
\* its page or on an earlier one.
MCSignature == [t \in Transactions |-> s1]
MCPointer == [t \in Transactions |-> IF t = N THEN N - 1 ELSE 0]

===============================================================================
