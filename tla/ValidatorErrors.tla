--------------------------- MODULE ValidatorErrors ---------------------------
(***************************************************************************)
(* What a check of one momoka transaction can return, reduced to the       *)
(* classes the verifier node tells apart.                                  *)
(***************************************************************************)

\* "ok"        the publication is proved.
\* "rejected"  one of the errors that blame the publication.
\* "sigUsed"   CHAIN_SIGNATURE_ALREADY_USED.
\* "nodeError" an error of the network or of the archive node, returned by the
\*             checker together with the publication it was checking.
\* "unknown"   UNKNOWN as processPublication's catch reports it: the check
\*             timed out or threw, and no publication comes with it.
Verdict == {"ok", "rejected", "sigUsed", "nodeError", "unknown"}

\* The errors the watcher gives a second chance.
ShouldRetry(v) == v \in {"nodeError", "unknown"}

\* A verdict about the publication itself.
Settled(v) == v \in {"ok", "rejected"}

\* Whether the TxValidatedResult built from the verdict holds a publication,
\* and with it the chain signature that saveTxDb records as used.
HasPublication(v) == v # "unknown"

==============================================================================
