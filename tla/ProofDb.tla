------------------------------- MODULE ProofDb -------------------------------
(***************************************************************************)
(* The LevelDB of a verifier node: one record per checked transaction, the *)
(* set of chain signatures that were used, the cursor the watcher reached  *)
(* and the count of checked transactions.                                  *)
(*                                                                         *)
(* saveTxDb is called without await.  What is left to do of such a call is *)
(* an element of writes: first the signature is put, then the record; each *)
(* put is an atomic step of its own and different calls interleave freely. *)
(* Two calls for one transaction that save the same verdict and are at the *)
(* same put are one element.  Only two checks of one publication at a time *)
(* make such calls, and that takes a batch that was given up.              *)
(***************************************************************************)
EXTENDS Naturals, FiniteSets, ValidatorErrors

CONSTANTS
    Transactions,   \* the ids of the momoka transactions
    Signatures,     \* chain signatures
    Signature       \* the chain signature each publication carries

ASSUME SignatureAssumption == Signature \in [Transactions -> Signatures]

VARIABLES
    record,         \* what tx:<id> holds
    usedSignatures, \* the signatures <s> for which tx_signature:<s> exists
    savedCursor,    \* cursor, 0 when the key is missing (null)
    savedTotal,     \* tx:totalCheckedCount, 0 when the key is missing
    writes          \* the running saveTxDb calls

store == <<record, usedSignatures, savedCursor, savedTotal>>

NotChecked == "none"

Write == [tx : Transactions, verdict : Verdict, next : {"signature", "record"}]

StoreInit ==
    /\ record = [t \in Transactions |-> NotChecked]
    /\ usedSignatures = {}
    /\ savedCursor = 0
    /\ savedTotal = 0
    /\ writes = {}

HasSignatureBeenUsedBefore(t) == Signature[t] \in usedSignatures

\* Wrong: only a proved publication uses its signature up.
SaveTxOfProved(t, v) ==
    [tx |-> t, verdict |-> v, next |-> IF v = "ok" THEN "signature" ELSE "record"]

\* The call saveTxDb(t, result): only a result that holds a publication has a
\* signature to save.
SaveTx(t, v) ==
    [tx |-> t, verdict |-> v,
     next |-> IF HasPublication(v) THEN "signature" ELSE "record"]

\* The first await of saveTxDb returns.
PutSignature(w) ==
    /\ w.next = "signature"
    /\ usedSignatures' = usedSignatures \cup {Signature[w.tx]}
    /\ writes' = (writes \ {w}) \cup {[w EXCEPT !.next = "record"]}
    /\ UNCHANGED <<record, savedCursor, savedTotal>>

\* The second await returns: the call is over.
PutRecord(w) ==
    /\ w.next = "record"
    /\ record' = [record EXCEPT ![w.tx] = w.verdict]
    /\ writes' = writes \ {w}
    /\ UNCHANGED <<usedSignatures, savedCursor, savedTotal>>

\* The end of an iteration of the watcher: the puts in S, of the cursor and of
\* the count, succeed.  saveTotalCheckedCountDb adds what it is given to what
\* the key held.
SaveProgress(S, cursor, checked) ==
    /\ savedCursor' = IF "cursor" \in S THEN cursor ELSE savedCursor
    /\ savedTotal' = IF "total" \in S THEN savedTotal + checked ELSE savedTotal
    /\ UNCHANGED <<record, usedSignatures, writes>>

Pending(t) == \E w \in writes : w.tx = t

==============================================================================
