-------------------------- MODULE VerifierNodeProofs --------------------------
(***************************************************************************)
(* Theorems about VerifierNode, for any number of transactions, pages,     *)
(* concurrency and crashes.                                                *)
(***************************************************************************)
EXTENDS VerifierNode, FiniteSetTheorems, TLAPS

\* What a batch leaves to be written is a call of saveTxDb.
LEMMA SaveTxType ==
    ASSUME NEW t \in Transactions, NEW v \in Verdict
    PROVE  SaveTx(t, v) \in Write
  BY DEF SaveTx, Write

LEMMA VerdictsFinite ==
    ASSUME NEW S \in SUBSET Transactions
    PROVE  Cardinality(S) \in Nat
<1>1. IsFiniteSet(Transactions)
  BY NumberAssumption, FS_Interval
<1>2. QED
  BY <1>1, FS_Subset, FS_CardinalityType

\* The part of the state a pass works on.
BatchTypeOK ==
    /\ record \in [Transactions -> Verdict \cup {NotChecked}]
    /\ usedSignatures \subseteq Signatures
    /\ writes \subseteq Write
    /\ check \in [Pass -> [Transactions -> Stage]]
    /\ threw \subseteq Strays

\* The passes are different from each other.
LEMMA PassesDiffer ==
    /\ "main" \in Pass /\ "retry" \in Pass /\ "main" # "retry"
    /\ \A g \in Strays : g \in Pass /\ g # "main" /\ g # "retry"
  BY BatchAssumption DEF Pass

\* Whichever way a check ends, the stages stay stages.
LEMMA EndCheckType ==
    ASSUME BatchTypeOK, NEW p \in Pass, NEW t \in Transactions,
           NEW v \in Verdict, EndCheck(p, t, v)
    PROVE  check' \in [Pass -> [Transactions -> Stage]] /\ threw' \subseteq Strays
<1>1. CASE Move(p, t, "absent") \/ Move(p, t, v)
  BY <1>1 DEF Move, BatchTypeOK, Stage
<1>2. ASSUME NEW g \in Strays \ threw, Abandon(t, g)
      PROVE  check' \in [Pass -> [Transactions -> Stage]] /\ threw' \subseteq Strays
  BY <1>2 DEF Abandon, NoBatch, BatchTypeOK, Stage
<1>3. QED
  BY <1>1, <1>2 DEF EndCheck

\* Reporting a verdict keeps the types.
LEMMA ReportType ==
    ASSUME BatchTypeOK, NEW p \in Pass, NEW t \in Transactions,
           NEW v \in Verdict, Report(p, t, v)
    PROVE  /\ writes' \subseteq Write
           /\ check' \in [Pass -> [Transactions -> Stage]]
           /\ threw' \subseteq Strays
<1>0. "unknown" \in Verdict
  BY DEF Verdict
<1>1. SaveTx(t, v) \in Write /\ SaveTx(t, "unknown") \in Write
  BY <1>0, SaveTxType
<1>2. writes' \subseteq Write
  BY <1>1 DEF Report, BatchTypeOK
<1>3. EndCheck(p, t, v) \/ EndCheck(p, t, "unknown")
  BY DEF Report
<1>4. QED
  BY <1>0, <1>2, <1>3, EndCheckType

LEMMA CheckStepType ==
    ASSUME BatchTypeOK, NEW p \in Pass, NEW t \in Transactions, CheckStep(p, t)
    PROVE  /\ writes' \subseteq Write
           /\ check' \in [Pass -> [Transactions -> Stage]]
           /\ threw' \subseteq Strays
           /\ UNCHANGED store
<1>1. CASE StartCheck(p, t)
  BY <1>1 DEF StartCheck, Move, BatchTypeOK, Stage, Running
<1>2. CASE ReadCache(p, t)
  <2>1. CASE record[t] = NotChecked
    BY <1>2, <2>1 DEF ReadCache, Move, BatchTypeOK, Stage, Running
  <2>2. CASE record[t] # NotChecked
    BY <1>2, <2>2, ReportType DEF ReadCache, BatchTypeOK
  <2>3. QED
    BY <2>1, <2>2
<1>3. CASE ReadSignature(p, t)
  <2>1. "sigUsed" \in Verdict
    BY DEF Verdict
  <2>2. CASE HasSignatureBeenUsedBefore(t)
    BY <1>3, <2>1, <2>2, ReportType DEF ReadSignature
  <2>3. CASE ~HasSignatureBeenUsedBefore(t)
    BY <1>3, <2>3 DEF ReadSignature, Move, BatchTypeOK, Stage, Running
  <2>4. QED
    BY <2>2, <2>3
<1>4. CASE FinishCheck(p, t)
  <2>1. PICK v \in {"ok", "rejected", "nodeError"} : Report(p, t, v)
    BY <1>4 DEF FinishCheck
  <2>2. v \in Verdict
    BY DEF Verdict
  <2>3. QED
    BY <1>4, <2>1, <2>2, ReportType DEF FinishCheck
<1>5. CASE TimeOut(p, t)
  <2>1. SaveTx(t, "unknown") \in Write /\ "unknown" \in Verdict
    BY SaveTxType DEF Verdict
  <2>2. check' \in [Pass -> [Transactions -> Stage]] /\ threw' \subseteq Strays
    BY <1>5, <2>1, EndCheckType DEF TimeOut
  <2>3. QED
    BY <1>5, <2>1, <2>2 DEF TimeOut, BatchTypeOK
<1>6. QED
  BY <1>1, <1>2, <1>3, <1>4, <1>5 DEF CheckStep

LEMMA WriteStepType ==
    ASSUME BatchTypeOK, NEW w \in writes, WriteStep(w)
    PROVE  BatchTypeOK' /\ UNCHANGED <<savedCursor, savedTotal, passes>>
<1> USE DEF passes
<1>0. w \in Write /\ Signature[w.tx] \in Signatures
  BY SignatureAssumption DEF BatchTypeOK, Write
<1>1. CASE PutSignature(w)
  <2>1. [w EXCEPT !.next = "record"] \in Write
    BY <1>0 DEF Write
  <2>2. QED
    BY <1>0, <1>1, <2>1 DEF PutSignature, WriteStep, BatchTypeOK
<1>2. CASE PutRecord(w)
  <2>1. w.tx \in Transactions /\ w.verdict \in Verdict
    BY <1>0 DEF Write
  <2>2. QED
    BY <1>2, <2>1 DEF PutRecord, WriteStep, BatchTypeOK
<1>3. QED
  BY <1>1, <1>2 DEF WriteStep


-------------------------------------------------------------------------------
(* Type correctness *)

\* Every variable of a node keeps its type.
THEOREM TypeCorrect == Spec => []TypeOK
<1>1. Init => TypeOK
  BY NumberAssumption, BatchAssumption, SMTT(30) DEF Init, BatchInit, StoreInit, TypeOK, NoBatch, Stage, Fate
<1>2. TypeOK /\ [Next]_vars => TypeOK'
  <2> SUFFICES ASSUME TypeOK, [Next]_vars PROVE TypeOK'
    OBVIOUS
  <2> USE DEF store, bundlr, passes, watcher, retry, history
  <2>0. BatchTypeOK
    BY DEF TypeOK, BatchTypeOK
  <2>1. CASE Submit
    BY <2>1, NumberAssumption DEF Submit, TypeOK
  <2>2. ASSUME NEW resync \in ResyncModes, Boot(resync) PROVE TypeOK'
    BY <2>2, NumberAssumption DEF Boot, TypeOK, Mark, Fate
  <2>3. CASE Crash
    BY <2>3, NumberAssumption DEF Crash, TypeOK, NoBatch, Stage
  <2>4. CASE FetchPage
    BY <2>4, NumberAssumption DEF FetchPage, TypeOK
  <2>5. CASE FetchNothing
    BY <2>5, NumberAssumption DEF FetchNothing, TypeOK
  <2>6. CASE FetchFails
    BY <2>6, NumberAssumption DEF FetchFails, Restart, TypeOK
  <2>7. CASE BulkLoaded
    BY <2>7, NumberAssumption DEF BulkLoaded, StartBatch, Mark, TypeOK, Fate, Stage, Pass
  <2>8. CASE BulkFails
    BY <2>8, NumberAssumption DEF BulkFails, Restart, TypeOK
  <2>9. CASE MainCheck
    <3>1. PICK t \in Batch : CheckStep("main", t) /\
             IF check'["main"][t] \in Verdict THEN Mark({t}, "processed") ELSE UNCHANGED fate
      BY <2>9 DEF MainCheck
    <3>2. t \in Transactions
      BY NumberAssumption DEF Batch, TypeOK
    <3>3. "main" \in Pass
      BY DEF Pass
    <3>4. writes' \subseteq Write /\ check' \in [Pass -> [Transactions -> Stage]]
             /\ threw' \subseteq Strays /\ UNCHANGED store
      BY <2>0, <3>1, <3>2, <3>3, CheckStepType
    <3>5. fate' \in [Transactions -> Fate]
      BY <3>1 DEF Mark, Fate, TypeOK
    <3>6. UNCHANGED <<bundlr, watcher, retry, bootCursor, retried, abandoned, crashes>>
      BY <2>9 DEF MainCheck
    <3>7. QED
      BY <3>4, <3>5, <3>6 DEF TypeOK
  <2>10. CASE ProcessTransactions
    <3>1. Cardinality(Members("main") \ ToRetry("main")) \in Nat
      BY VerdictsFinite DEF Members
    <3>2. delayed' \subseteq SUBSET Transactions
      BY <2>10 DEF ProcessTransactions, TypeOK, ToRetry, Members
    <3>3. check' \in [Pass -> [Transactions -> Stage]]
      BY <2>10 DEF ProcessTransactions, EndBatch, NoBatch, TypeOK, Stage
    <3>4. totalChecked' \in Nat /\ endCursor' \in 0 .. N
      BY <2>10, <3>1, NumberAssumption DEF ProcessTransactions, TypeOK
    <3>5. /\ saves' = {"cursor", "total"} /\ pc' = "save"
          /\ UNCHANGED <<store, writes, threw, bundlr, page, queue, retryPc, retryTxs, history>>
      BY <2>10 DEF ProcessTransactions, EndBatch
    <3>6. QED
      BY <3>2, <3>3, <3>4, <3>5 DEF TypeOK
  <2>11. CASE SaveCursorOrCount
    BY <2>11, NumberAssumption DEF SaveCursorOrCount, SaveProgress, Restart, TypeOK
  <2>12. CASE SaveFails
    BY <2>12, NumberAssumption DEF SaveFails, SaveProgress, Restart, TypeOK
  <2>13. CASE SaveTxWrites
    <3>1. PICK w \in writes : WriteStep(w)
      BY <2>13 DEF SaveTxWrites
    <3>2. BatchTypeOK' /\ UNCHANGED <<savedCursor, savedTotal, passes>>
      BY <2>0, <3>1, WriteStepType
    <3>3. QED
      BY <2>13, <3>2 DEF SaveTxWrites, BatchTypeOK, TypeOK
  <2>14. CASE RetryDelayOver
    BY <2>14 DEF RetryDelayOver, TypeOK
  <2>15. CASE RetryDequeue
    BY <2>15 DEF RetryDequeue, TypeOK
  <2>16. CASE RetryBulkLoaded
    BY <2>16, NumberAssumption DEF RetryBulkLoaded, StartBatch, Mark, TypeOK, Fate, Stage, Pass
  <2>17. CASE RetryBulkFails
    BY <2>17 DEF RetryBulkFails, TypeOK
  <2>18. CASE RetryCheck
    <3>1. PICK t \in retryTxs : CheckStep("retry", t)
      BY <2>18 DEF RetryCheck
    <3>2. t \in Transactions /\ "retry" \in Pass
      BY DEF TypeOK, Pass
    <3>3. writes' \subseteq Write /\ check' \in [Pass -> [Transactions -> Stage]]
             /\ threw' \subseteq Strays /\ UNCHANGED store
      BY <2>0, <3>1, <3>2, CheckStepType
    <3>4. QED
      BY <2>18, <3>3 DEF RetryCheck, TypeOK
  <2>19. CASE RetryDone
    BY <2>19 DEF RetryDone, EndBatch, NoBatch, Members, TypeOK, Stage
  <2>20. CASE LogThrows
    <3>1. PICK t \in Batch : CheckStep("main", t) /\ Mark({t}, "processed")
      BY <2>20 DEF LogThrows
    <3>2. t \in Transactions /\ "main" \in Pass
      BY NumberAssumption DEF Batch, TypeOK, Pass
    <3>3. writes' \subseteq Write /\ check' \in [Pass -> [Transactions -> Stage]]
             /\ threw' \subseteq Strays /\ UNCHANGED store
      BY <2>0, <3>1, <3>2, CheckStepType
    <3>4. fate' \in [Transactions -> Fate]
      BY <3>1 DEF Mark, Fate, TypeOK
    <3>5. abandoned' \subseteq Transactions
      BY <2>20 DEF LogThrows, Begun, TypeOK
    <3>6. page' \in [next : 0 .. N, pulls : Nat] /\ pc' = "fetch"
      BY <2>20, NumberAssumption DEF LogThrows, Restart, TypeOK
    <3>7. QED
      BY <2>20, <3>3, <3>4, <3>5, <3>6 DEF LogThrows, TypeOK
  <2>21. CASE StrayCheck
    <3>1. PICK g \in Strays, t \in Transactions : CheckStep(g, t) /\
             IF check'[g][t] = "absent" THEN Mark({t}, "processed") ELSE UNCHANGED fate
      BY <2>21 DEF StrayCheck
    <3>2. writes' \subseteq Write /\ check' \in [Pass -> [Transactions -> Stage]]
             /\ threw' \subseteq Strays /\ UNCHANGED store
      BY <2>0, <3>1, PassesDiffer, CheckStepType
    <3>3. fate' \in [Transactions -> Fate]
      BY <3>1 DEF Mark, Fate, TypeOK
    <3>4. QED
      BY <2>21, <3>2, <3>3 DEF StrayCheck, TypeOK
  <2>22. CASE UNCHANGED vars
    BY <2>22 DEF vars, TypeOK
  <2>23. QED
    BY <2>1, <2>2, <2>3, <2>4, <2>5, <2>6, <2>7, <2>8, <2>9, <2>10, <2>11, <2>12,
       <2>13, <2>14, <2>15, <2>16, <2>17, <2>18, <2>19, <2>20, <2>21, <2>22 DEF Next
<1>3. QED
  BY <1>1, <1>2, PTL DEF Spec


-------------------------------------------------------------------------------
(* Safety of the cursor and of the signatures *)

\* A step of a check that leaves its batch together: one of the retry queue, or
\* one of the watcher's batch whose log line does not throw.
Goes(p, t) ==
    /\ CheckStep(p, t)
    /\ p = "retry" \/ (p = "main" /\ check'["main"][t] # "absent")

LEMMA EndCheckGoes ==
    ASSUME BatchTypeOK, NEW p \in {"main", "retry"}, NEW t \in Transactions,
           NEW v \in Verdict, EndCheck(p, t, v),
           p = "main" => check'["main"][t] # "absent"
    PROVE  Move(p, t, v) /\ ~(p = "main" /\ t \in eventless)
<1>1. p \notin Strays
  BY BatchAssumption
<1>2. ASSUME NEW g \in Strays, Abandon(t, g) PROVE check'["main"][t] = "absent"
  BY <1>2, PassesDiffer DEF Abandon, NoBatch, BatchTypeOK
<1>3. QED
  BY <1>1, <1>2 DEF EndCheck

\* What a step of a check does: it moves one publication of one pass on, and
\* saves something only when the check is over.  The calls of saveTxDb it makes
\* have their first put before them if they have a signature to put.
LEMMA CheckStepEffect ==
    ASSUME BatchTypeOK, NEW p \in Pass, NEW t \in Transactions, Goes(p, t)
    PROVE  /\ check[p][t] \in {"queued"} \cup Running
           /\ check'[p][t] \in Running \cup Verdict
           /\ \A q \in Pass : \A u \in Transactions :
                 <<q, u>> # <<p, t>> => check'[q][u] = check[q][u]
           /\ check'[p][t] \in Verdict => ~(p = "main" /\ t \in eventless)
           /\ UNCHANGED threw
           /\ \/ writes' = writes
              \/ \E v \in Verdict :
                    \/ writes' = writes \cup {SaveTx(t, v)}
                    \/ writes' = writes \cup {SaveTx(t, v), SaveTx(t, "unknown")}
<1> USE DEF BatchTypeOK, Move, Stage, Goes
<1>0. "unknown" \in Verdict /\ "sigUsed" \in Verdict
  BY DEF Verdict
<1>1. ASSUME NEW v \in Verdict, Report(p, t, v), check[p][t] \in Running
      PROVE  /\ check'[p][t] \in Verdict
             /\ ~(p = "main" /\ t \in eventless)
             /\ UNCHANGED threw
             /\ \A q \in Pass : \A u \in Transactions :
                   <<q, u>> # <<p, t>> => check'[q][u] = check[q][u]
             /\ \/ writes' = writes \cup {SaveTx(t, v)}
                \/ writes' = writes \cup {SaveTx(t, v), SaveTx(t, "unknown")}
  <2>1. Move(p, t, v) \/ Move(p, t, "unknown")
    BY <1>0, <1>1, EndCheckGoes DEF Report
  <2>2. ~(p = "main" /\ t \in eventless)
    BY <1>0, <1>1, EndCheckGoes DEF Report
  <2>3. QED
    BY <1>0, <1>1, <2>1, <2>2 DEF Report
<1>2. CASE StartCheck(p, t)
  BY <1>2 DEF StartCheck, Running, Verdict
<1>3. CASE ReadCache(p, t)
  <2>1. CASE record[t] = NotChecked
    BY <1>3, <2>1 DEF ReadCache, Running, Verdict
  <2>2. CASE record[t] # NotChecked
    <3>1. record[t] \in Verdict /\ Report(p, t, record[t]) /\ check[p][t] \in Running
      BY <1>3, <2>2 DEF ReadCache, Running
    <3>2. QED
      BY <1>1, <3>1
  <2>3. QED
    BY <2>1, <2>2
<1>4. CASE ReadSignature(p, t)
  <2>1. CASE HasSignatureBeenUsedBefore(t)
    <3>1. Report(p, t, "sigUsed") /\ check[p][t] \in Running
      BY <1>4, <2>1 DEF ReadSignature, Running
    <3>2. QED
      BY <1>0, <1>1, <3>1
  <2>2. CASE ~HasSignatureBeenUsedBefore(t)
    BY <1>4, <2>2 DEF ReadSignature, Running, Verdict
  <2>3. QED
    BY <2>1, <2>2
<1>5. CASE FinishCheck(p, t)
  <2>1. PICK v \in {"ok", "rejected", "nodeError"} : Report(p, t, v)
    BY <1>5 DEF FinishCheck
  <2>2. v \in Verdict /\ check[p][t] \in Running
    BY <1>5 DEF FinishCheck, Running, Verdict
  <2>3. QED
    BY <1>1, <2>1, <2>2
<1>6. CASE TimeOut(p, t)
  <2>1. Move(p, t, "unknown") /\ ~(p = "main" /\ t \in eventless)
    BY <1>0, <1>6, EndCheckGoes DEF TimeOut
  <2>2. QED
    BY <1>0, <1>6, <2>1 DEF TimeOut
<1>7. QED
  BY <1>2, <1>3, <1>4, <1>5, <1>6 DEF CheckStep, Goes

\* The two steps of the loops that are a step of one check.
LEMMA MainCheckEffect ==
    ASSUME TypeOK, MainCheck
    PROVE  \E t \in Transactions :
              /\ t \in Batch /\ "main" \in Pass
              /\ BatchTypeOK /\ Goes("main", t) /\ UNCHANGED store
              /\ IF check'["main"][t] \in Verdict THEN Mark({t}, "processed")
                                                  ELSE UNCHANGED fate
<1>1. BatchTypeOK /\ "main" \in Pass
  BY DEF TypeOK, BatchTypeOK, Pass
<1>2. Batch \subseteq Transactions
  BY NumberAssumption DEF Batch, TypeOK
<1>3. PICK t \in Batch : CheckStep("main", t) /\ check'["main"][t] # "absent" /\
         IF check'["main"][t] \in Verdict THEN Mark({t}, "processed") ELSE UNCHANGED fate
  BY DEF MainCheck
<1>4. UNCHANGED store
  BY <1>1, <1>2, <1>3, CheckStepType
<1>5. QED
  BY <1>1, <1>2, <1>3, <1>4 DEF Goes

LEMMA RetryCheckEffect ==
    ASSUME TypeOK, RetryCheck
    PROVE  \E t \in retryTxs :
              /\ t \in Transactions /\ "retry" \in Pass
              /\ BatchTypeOK /\ Goes("retry", t) /\ UNCHANGED store
<1>1. BatchTypeOK /\ "retry" \in Pass /\ retryTxs \subseteq Transactions
  BY DEF TypeOK, BatchTypeOK, Pass
<1>2. PICK t \in retryTxs : CheckStep("retry", t)
  BY DEF RetryCheck
<1>3. UNCHANGED store
  BY <1>1, <1>2, CheckStepType
<1>4. QED
  BY <1>1, <1>2, <1>3 DEF Goes

\* A step of a check that is over: what it saves, and that it goes on or ends
\* with a call of EndCheck.
LEMMA CheckStepShape ==
    ASSUME BatchTypeOK, NEW p \in Pass, NEW t \in Transactions, CheckStep(p, t)
    PROVE  /\ check[p][t] \in {"queued"} \cup Running
           /\ \/ writes' = writes /\ \E s \in Running : Move(p, t, s)
              \/ /\ check[p][t] \in Running
                 /\ \E v, r \in Verdict :
                       /\ EndCheck(p, t, r)
                       /\ \/ writes' = writes \cup {SaveTx(t, v)}
                          \/ writes' = writes \cup {SaveTx(t, v), SaveTx(t, "unknown")}
<1>0. "unknown" \in Verdict /\ "sigUsed" \in Verdict
  BY DEF Verdict
<1>1. ASSUME NEW v \in Verdict, Report(p, t, v)
      PROVE  \E x, r \in Verdict :
                /\ EndCheck(p, t, r)
                /\ \/ writes' = writes \cup {SaveTx(t, x)}
                   \/ writes' = writes \cup {SaveTx(t, x), SaveTx(t, "unknown")}
  BY <1>0, <1>1 DEF Report
<1>2. CASE StartCheck(p, t)
  BY <1>2 DEF StartCheck, Running
<1>3. CASE ReadCache(p, t)
  <2>1. CASE record[t] = NotChecked
    BY <1>3, <2>1 DEF ReadCache, Running
  <2>2. CASE record[t] # NotChecked
    <3>1. record[t] \in Verdict /\ Report(p, t, record[t]) /\ check[p][t] \in Running
      BY <1>3, <2>2 DEF ReadCache, Running, BatchTypeOK
    <3>2. QED
      BY <1>1, <3>1
  <2>3. QED
    BY <2>1, <2>2
<1>4. CASE ReadSignature(p, t)
  <2>1. CASE HasSignatureBeenUsedBefore(t)
    <3>1. Report(p, t, "sigUsed") /\ check[p][t] \in Running
      BY <1>4, <2>1 DEF ReadSignature, Running
    <3>2. QED
      BY <1>0, <1>1, <3>1
  <2>2. CASE ~HasSignatureBeenUsedBefore(t)
    BY <1>4, <2>2 DEF ReadSignature, Running
  <2>3. QED
    BY <2>1, <2>2
<1>5. CASE FinishCheck(p, t)
  <2>1. PICK v \in {"ok", "rejected", "nodeError"} : Report(p, t, v)
    BY <1>5 DEF FinishCheck
  <2>2. v \in Verdict /\ check[p][t] \in Running
    BY <1>5 DEF FinishCheck, Running, Verdict
  <2>3. QED
    BY <1>1, <2>1, <2>2
<1>6. CASE TimeOut(p, t)
  BY <1>0, <1>6 DEF TimeOut
<1>7. QED
  BY <1>2, <1>3, <1>4, <1>5, <1>6 DEF CheckStep

\* A batch throws after the check of t: its other checks under way are strays.
LEMMA LogThrowsEffect ==
    ASSUME TypeOK, LogThrows
    PROVE  \E t \in Transactions, g \in Strays :
              /\ t \in Batch /\ t \in eventless /\ g \notin threw
              /\ Abandon(t, g) /\ UNCHANGED store
              /\ check["main"][t] \in Running
              /\ \E v \in Verdict : \/ writes' = writes \cup {SaveTx(t, v)}
                                    \/ writes' = writes \cup {SaveTx(t, v), SaveTx(t, "unknown")}
              /\ Mark({t}, "processed")
<1>1. BatchTypeOK /\ "main" \in Pass /\ Batch \subseteq Transactions
  BY NumberAssumption DEF TypeOK, BatchTypeOK, Pass, Batch
<1>2. PICK t \in Batch :
         CheckStep("main", t) /\ check'["main"][t] = "absent" /\ Mark({t}, "processed")
  BY DEF LogThrows
<1>3. UNCHANGED store
  BY <1>1, <1>2, CheckStepType
<1>4. ASSUME NEW s \in Stage, s # "absent", Move("main", t, s) PROVE FALSE
  BY <1>1, <1>2, <1>4 DEF Move, BatchTypeOK
<1>5. \A s \in Running \cup Verdict : s \in Stage /\ s # "absent"
  BY DEF Stage, Running, Verdict
<1>6. PICK v \in Verdict, r \in Verdict :
         /\ check["main"][t] \in Running
         /\ EndCheck("main", t, r)
         /\ \/ writes' = writes \cup {SaveTx(t, v)}
            \/ writes' = writes \cup {SaveTx(t, v), SaveTx(t, "unknown")}
  BY <1>1, <1>2, <1>4, <1>5, CheckStepShape
<1>7. PICK g \in Strays \ threw : t \in eventless /\ Abandon(t, g)
  BY <1>4, <1>5, <1>6, PassesDiffer DEF EndCheck
<1>8. QED
  BY <1>1, <1>2, <1>3, <1>6, <1>7

\* A stray goes on, or saves its result and is gone.
LEMMA StrayEffect ==
    ASSUME TypeOK, StrayCheck
    PROVE  \E t \in Transactions, g \in Strays :
              /\ check[g][t] \in {"queued"} \cup Running
              /\ \A q \in Pass : \A u \in Transactions :
                    <<q, u>> # <<g, t>> => check'[q][u] = check[q][u]
              /\ UNCHANGED store /\ UNCHANGED threw
              /\ \/ writes' = writes /\ check'[g][t] \in Running /\ UNCHANGED fate
                 \/ /\ \E v \in Verdict :
                          \/ writes' = writes \cup {SaveTx(t, v)}
                          \/ writes' = writes \cup {SaveTx(t, v), SaveTx(t, "unknown")}
                    /\ check'[g][t] = "absent" /\ Mark({t}, "processed")
<1>1. BatchTypeOK
  BY DEF TypeOK, BatchTypeOK
<1>2. PICK g \in Strays, t \in Transactions : CheckStep(g, t) /\
         IF check'[g][t] = "absent" THEN Mark({t}, "processed") ELSE UNCHANGED fate
  BY DEF StrayCheck
<1>3. g \in Pass /\ g # "main" /\ g # "retry"
  BY PassesDiffer
<1>4. UNCHANGED store /\ check[g][t] \in {"queued"} \cup Running
  BY <1>1, <1>2, <1>3, CheckStepType, CheckStepShape
<1>5. ASSUME NEW s, Move(g, t, s)
      PROVE  /\ check'[g][t] = s /\ UNCHANGED threw
             /\ \A q \in Pass : \A u \in Transactions :
                   <<q, u>> # <<g, t>> => check'[q][u] = check[q][u]
  BY <1>1, <1>3, <1>5 DEF Move, BatchTypeOK
<1>6. CASE writes' = writes /\ \E s \in Running : Move(g, t, s)
  BY <1>2, <1>4, <1>5, <1>6 DEF Running
<1>7. ASSUME NEW v \in Verdict, NEW r \in Verdict, EndCheck(g, t, r),
             \/ writes' = writes \cup {SaveTx(t, v)}
             \/ writes' = writes \cup {SaveTx(t, v), SaveTx(t, "unknown")}
      PROVE  /\ Move(g, t, "absent")
             /\ \E x \in Verdict : \/ writes' = writes \cup {SaveTx(t, x)}
                                   \/ writes' = writes \cup {SaveTx(t, x), SaveTx(t, "unknown")}
  BY <1>3, <1>7 DEF EndCheck
<1>8. CASE \E v, r \in Verdict :
              /\ EndCheck(g, t, r)
              /\ \/ writes' = writes \cup {SaveTx(t, v)}
                 \/ writes' = writes \cup {SaveTx(t, v), SaveTx(t, "unknown")}
  BY <1>2, <1>4, <1>5, <1>7, <1>8
<1>9. QED
  BY <1>1, <1>2, <1>3, <1>6, <1>8, CheckStepShape

\* The first part of the inductive invariant.
CursorInv == WatcherInv /\ FateInv /\ CursorBehindChecks

LEMMA WatcherInvStep ==
    ASSUME TypeOK, WatcherInv, [Next]_vars
    PROVE  WatcherInv'
<1> USE DEF store, bundlr, passes, watcher, retry, history
<1>1. CASE Submit \/ FetchFails \/ FetchNothing \/ BulkFails
  BY <1>1 DEF Submit, FetchFails, FetchNothing, BulkFails, Restart, WatcherInv, Members, Batch, TypeOK
<1>2. ASSUME NEW resync \in ResyncModes, Boot(resync) PROVE WatcherInv'
  BY <1>2, NumberAssumption DEF Boot, WatcherInv, Members, Batch, TypeOK
<1>3. CASE Crash
  BY <1>3, PassesDiffer DEF Crash, WatcherInv, Members, NoBatch
<1>4. CASE FetchPage
  BY <1>4, NumberAssumption DEF FetchPage, WatcherInv, Members, Batch, TypeOK
<1>5. CASE BulkLoaded
  BY <1>5 DEF BulkLoaded, StartBatch, WatcherInv, Members, Batch, TypeOK, Pass
<1>6. CASE MainCheck \/ RetryCheck
  <2>1. /\ Members("main")' = Members("main")
        /\ Members("retry")' = Members("retry")
        /\ \A g \in Strays : Members(g)' = Members(g)
        /\ pc = "down" => writes' = {}
    <3>1. PICK p \in Pass, t \in Transactions :
             /\ BatchTypeOK /\ Goes(p, t)
             /\ p = "main" => pc = "check"
             /\ p = "retry" => retryPc = "check"
      BY <1>6, MainCheckEffect, RetryCheckEffect DEF MainCheck, RetryCheck
    <3>2. \A q \in Pass : \A u \in Transactions :
             check'[q][u] = "absent" <=> check[q][u] = "absent"
      BY <3>1, CheckStepEffect DEF Running, Verdict
    <3>3. QED
      BY <3>1, <3>2, PassesDiffer DEF Members, Goes, WatcherInv
  <2>2. UNCHANGED <<pc, endCursor, page, retryTxs, retryPc, delayed, queue>>
    BY <1>6 DEF MainCheck, RetryCheck
  <2>3. QED
    BY <2>1, <2>2 DEF WatcherInv, Batch
<1>7. CASE ProcessTransactions
  BY <1>7 DEF ProcessTransactions, EndBatch, NoBatch, WatcherInv, Members, Batch, TypeOK, Pass
<1>8. CASE SaveCursorOrCount \/ SaveFails
  BY <1>8 DEF SaveCursorOrCount, SaveFails, SaveProgress, Restart, WatcherInv, Members, Batch, TypeOK
<1>9. CASE SaveTxWrites
  BY <1>9 DEF SaveTxWrites, WriteStep, PutSignature, PutRecord, WatcherInv, Members, Batch
<1>10. CASE RetryDelayOver
  BY <1>10 DEF RetryDelayOver, WatcherInv, Members, Batch
<1>11. CASE RetryDequeue
  BY <1>11 DEF RetryDequeue, WatcherInv, Members, Batch
<1>12. CASE RetryBulkLoaded
  BY <1>12, PassesDiffer DEF RetryBulkLoaded, StartBatch, WatcherInv, Members, Batch, TypeOK, Pass
<1>13. CASE RetryBulkFails
  BY <1>13 DEF RetryBulkFails, WatcherInv, Members, Batch
<1>14. CASE RetryDone
  BY <1>14, PassesDiffer DEF RetryDone, EndBatch, NoBatch, WatcherInv, Members, Batch, TypeOK, Pass
<1>15. CASE UNCHANGED vars
  BY <1>15 DEF vars, WatcherInv, Members, Batch
<1>16. CASE LogThrows
  <2>1. PICK t \in Transactions, g \in Strays : Abandon(t, g)
    BY <1>16, LogThrowsEffect
  <2>2. /\ \A u \in Transactions : check'["main"][u] = "absent"
        /\ check'["retry"] = check["retry"]
    BY <2>1, PassesDiffer DEF Abandon, NoBatch, TypeOK
  <2>3. Members("main")' = {} /\ Members("retry")' = Members("retry")
    BY <2>2 DEF Members
  <2>4. /\ pc' = "fetch" /\ page'.next = endCursor
        /\ UNCHANGED <<endCursor, retryTxs, retryPc>>
    BY <1>16 DEF LogThrows, Restart
  <2>5. QED
    BY <2>3, <2>4, NumberAssumption DEF WatcherInv, TypeOK
<1>17. CASE StrayCheck
  <2>1. PICK t \in Transactions, g \in Strays :
           /\ check[g][t] \in {"queued"} \cup Running
           /\ \A q \in Pass : \A u \in Transactions :
                 <<q, u>> # <<g, t>> => check'[q][u] = check[q][u]
    BY <1>17, StrayEffect
  <2>2. Members("main")' = Members("main") /\ Members("retry")' = Members("retry")
    BY <2>1, PassesDiffer DEF Members
  <2>3. pc # "down"
    BY <2>1 DEF WatcherInv, Members, Running
  <2>4. UNCHANGED <<pc, endCursor, page, retryTxs, retryPc>>
    BY <1>17 DEF StrayCheck
  <2>5. QED
    BY <2>2, <2>3, <2>4 DEF WatcherInv, Batch
<1>18. QED
  BY <1>1, <1>2, <1>3, <1>4, <1>5, <1>6, <1>7, <1>8, <1>9, <1>10, <1>11, <1>12,
     <1>13, <1>14, <1>15, <1>16, <1>17 DEF Next


LEMMA FateInvStep ==
    ASSUME TypeOK, FateInv, [Next]_vars
    PROVE  FateInv'
<1> USE DEF store, bundlr, passes, watcher, retry, history
<1>1. CASE Submit \/ FetchFails \/ FetchNothing \/ BulkFails \/ Crash \/ FetchPage \/ ProcessTransactions
  BY <1>1 DEF Submit, FetchFails, FetchNothing, BulkFails, Crash, FetchPage,
     ProcessTransactions, Restart, FateInv, Batch
<1>2. ASSUME NEW resync \in ResyncModes, Boot(resync) PROVE FateInv'
  BY <1>2 DEF Boot, FateInv
<1>3. CASE BulkLoaded
  <2>1. PICK lost : StartBatch("main", Batch \ lost) /\ Mark(lost, "dropped")
    BY <1>3 DEF BulkLoaded
  <2>2. Batch' = Batch /\ Batch \subseteq Transactions
    BY <1>3, NumberAssumption DEF BulkLoaded, Batch, TypeOK
  <2>3. ASSUME NEW t \in Batch,
               check'["main"][t] = "absent" \/ check'["main"][t] \in Verdict
        PROVE  fate'[t] # "waiting"
    <3>1. check'["main"][t] = IF t \in Batch \ lost THEN "queued" ELSE "absent"
      BY <2>1, <2>2 DEF StartBatch, TypeOK, Pass
    <3>2. t \in lost
      BY <2>3, <3>1 DEF Verdict
    <3>3. QED
      BY <2>1, <2>2, <3>2 DEF Mark
  <2>4. QED
    BY <2>2, <2>3 DEF FateInv
<1>4. CASE MainCheck
  <2>1. PICK t \in Transactions :
              /\ t \in Batch /\ "main" \in Pass
              /\ BatchTypeOK /\ Goes("main", t)
              /\ IF check'["main"][t] \in Verdict THEN Mark({t}, "processed")
                                                  ELSE UNCHANGED fate
    BY <1>4, MainCheckEffect
  <2>2. /\ check'["main"][t] \in Running \cup Verdict
        /\ \A u \in Transactions : u # t => check'["main"][u] = check["main"][u]
    BY <2>1, CheckStepEffect
  <2>3. Batch' = Batch /\ Batch \subseteq Transactions /\ pc = "check"
    BY <1>4, NumberAssumption DEF MainCheck, Batch, TypeOK
  <2>4. ASSUME NEW u \in Batch,
               check'["main"][u] = "absent" \/ check'["main"][u] \in Verdict
        PROVE  fate'[u] # "waiting"
    <3>1. CASE u = t
      BY <2>1, <2>2, <2>4, <3>1 DEF Mark, Running, Verdict
    <3>2. CASE u # t
      <4>1. fate[u] # "waiting" /\ u \in Transactions
        BY <2>2, <2>3, <2>4, <3>2 DEF FateInv
      <4>2. QED
        BY <2>1, <3>2, <4>1 DEF Mark
    <3>3. QED
      BY <3>1, <3>2
  <2>5. QED
    BY <2>3, <2>4 DEF FateInv
<1>5. CASE RetryCheck
  <2>1. PICK t \in retryTxs :
           t \in Transactions /\ "retry" \in Pass /\ BatchTypeOK /\ Goes("retry", t)
    BY <1>5, RetryCheckEffect
  <2>2. \A u \in Transactions : check'["main"][u] = check["main"][u]
    BY <2>1, CheckStepEffect DEF Pass
  <2>3. Batch \subseteq Transactions
    BY NumberAssumption DEF Batch, TypeOK
  <2>4. QED
    BY <1>5, <2>2, <2>3 DEF RetryCheck, FateInv, Batch
<1>6. CASE SaveCursorOrCount \/ SaveFails
  BY <1>6 DEF SaveCursorOrCount, SaveFails, Restart, FateInv
<1>7. CASE SaveTxWrites \/ RetryDelayOver \/ RetryDequeue \/ RetryBulkFails
  BY <1>7 DEF SaveTxWrites, WriteStep, RetryDelayOver, RetryDequeue, RetryBulkFails, FateInv, Batch
<1>8. CASE RetryBulkLoaded
  <2>1. PICK lost : StartBatch("retry", retryTxs \ lost) /\ Mark(lost, "givenUp")
    BY <1>8 DEF RetryBulkLoaded
  <2>2. Batch' = Batch /\ Batch \subseteq Transactions /\ pc' = pc
    BY <1>8, NumberAssumption DEF RetryBulkLoaded, Batch, TypeOK
  <2>3. check'["main"] = check["main"]
    BY <2>1 DEF StartBatch, TypeOK, Pass
  <2>4. \A t \in Transactions : fate'[t] \in {fate[t], "givenUp"}
    BY <2>1 DEF Mark
  <2>5. QED
    BY <2>2, <2>3, <2>4 DEF FateInv
<1>9. CASE RetryDone
  <2>1. check'["main"] = check["main"] /\ UNCHANGED <<pc, endCursor, page, fate>>
    BY <1>9 DEF RetryDone, EndBatch, TypeOK, Pass
  <2>2. QED
    BY <2>1 DEF FateInv, Batch
<1>10. CASE UNCHANGED vars
  BY <1>10 DEF vars, FateInv, Batch
<1>11. CASE LogThrows
  BY <1>11 DEF LogThrows, Restart, FateInv
<1>12. CASE StrayCheck
  <2>1. PICK t \in Transactions, g \in Strays :
           /\ \A q \in Pass : \A u \in Transactions :
                 <<q, u>> # <<g, t>> => check'[q][u] = check[q][u]
           /\ UNCHANGED fate \/ Mark({t}, "processed")
    BY <1>12, StrayEffect
  <2>2. \A u \in Transactions : /\ check'["main"][u] = check["main"][u]
                                /\ fate'[u] \in {fate[u], "processed"}
    BY <2>1, PassesDiffer DEF Mark
  <2>3. Batch' = Batch /\ Batch \subseteq Transactions /\ pc' = pc
    BY <1>12, NumberAssumption DEF StrayCheck, Batch, TypeOK
  <2>4. QED
    BY <2>2, <2>3 DEF FateInv
<1>13. QED
  BY <1>1, <1>2, <1>3, <1>4, <1>5, <1>6, <1>7, <1>8, <1>9, <1>10, <1>11, <1>12 DEF Next

\* A transaction that is not waiting any more never waits again.
LEMMA FateStable ==
    ASSUME TypeOK, [Next]_vars, NEW t \in Transactions, fate[t] # "waiting"
    PROVE  fate'[t] # "waiting"
<1> USE DEF store, bundlr, passes, watcher, retry, history
<1>1. CASE UNCHANGED fate
  BY <1>1
<1>2. ASSUME NEW S, NEW f \in {"processed", "dropped", "skipped", "givenUp"}, Mark(S, f)
      PROVE  fate'[t] # "waiting"
  BY <1>2 DEF Mark
<1>3. \/ UNCHANGED fate
      \/ \E S : \E f \in {"processed", "dropped", "skipped", "givenUp"} : Mark(S, f)
  <2>1. CASE BulkLoaded
    BY <2>1 DEF BulkLoaded
  <2>2. CASE RetryBulkLoaded
    BY <2>2 DEF RetryBulkLoaded
  <2>3. CASE MainCheck
    BY <2>3 DEF MainCheck
  <2>4. ASSUME NEW resync \in ResyncModes, Boot(resync)
        PROVE  \E S : \E f \in {"processed", "dropped", "skipped", "givenUp"} : Mark(S, f)
    BY <2>4 DEF Boot
  <2>5. CASE LogThrows \/ StrayCheck
    BY <2>5 DEF LogThrows, StrayCheck
  <2>6. QED
    BY <2>1, <2>2, <2>3, <2>4, <2>5 DEF Next, vars, Submit, Crash, FetchPage, FetchNothing,
       FetchFails, BulkFails, ProcessTransactions, SaveCursorOrCount, SaveFails,
       SaveTxWrites, RetryDelayOver, RetryDequeue, RetryBulkFails, RetryCheck, RetryDone
<1>4. QED
  BY <1>1, <1>2, <1>3


LEMMA CursorBehindChecksStep ==
    ASSUME TypeOK, CursorInv, [Next]_vars
    PROVE  CursorBehindChecks'
<1> USE DEF store, bundlr, passes, watcher, retry, history
<1> SUFFICES ASSUME NEW t \in Transactions,
                    t <= savedCursor' \/ (pc' # "down" /\ t <= endCursor')
             PROVE  fate'[t] # "waiting"
  BY DEF CursorBehindChecks
<1>1. CASE t <= savedCursor \/ (pc # "down" /\ t <= endCursor)
  BY <1>1, FateStable DEF CursorInv, CursorBehindChecks
<1>2. ASSUME NEW resync \in ResyncModes, Boot(resync) PROVE fate'[t] # "waiting"
  <2>1. savedCursor' = savedCursor
    BY <1>2 DEF Boot
  <2>2. CASE t <= endCursor'
    <3>1. t \in 1 .. endCursor'
      BY <1>2, <2>2, NumberAssumption DEF Boot, TypeOK
    <3>2. QED
      BY <1>2, <3>1 DEF Boot, Mark
  <2>3. QED
    BY <1>1, <2>1, <2>2
<1>3. CASE ProcessTransactions
  <2>1. CASE t \in Batch
    <3>1. check["main"][t] = "absent" \/ check["main"][t] \in Verdict
      BY <1>3 DEF ProcessTransactions, BatchDone, Members
    <3>2. QED
      BY <1>3, <2>1, <3>1 DEF ProcessTransactions, CursorInv, FateInv
  <2>2. CASE t \notin Batch
    <3>1. savedCursor' = savedCursor /\ endCursor' = page.next /\ pc # "down"
      BY <1>3 DEF ProcessTransactions
    <3>2. t <= savedCursor \/ t <= endCursor
      BY <2>2, <3>1, NumberAssumption DEF Batch, TypeOK
    <3>3. QED
      BY <1>1, <3>1, <3>2
  <2>3. QED
    BY <2>1, <2>2
<1>4. CASE SaveCursorOrCount \/ SaveFails
  <2>1. pc # "down" /\ endCursor' = endCursor /\ savedCursor' \in {savedCursor, endCursor}
    BY <1>4 DEF SaveCursorOrCount, SaveFails, SaveProgress
  <2>2. QED
    BY <1>1, <2>1
<1>5. CASE SaveTxWrites
  BY <1>1, <1>5 DEF SaveTxWrites, WriteStep, PutSignature, PutRecord
<1>6. CASE MainCheck \/ RetryCheck
  <2>1. UNCHANGED <<savedCursor, pc, endCursor>>
    BY <1>6, MainCheckEffect, RetryCheckEffect DEF MainCheck, RetryCheck
  <2>2. QED
    BY <1>1, <2>1
<1>7. CASE Crash
  BY <1>1, <1>7 DEF Crash
<1>8. CASE UNCHANGED savedCursor /\ UNCHANGED endCursor /\ (pc = "down" <=> pc' = "down")
  BY <1>1, <1>8
<1>9. CASE LogThrows \/ StrayCheck
  <2>1. UNCHANGED <<savedCursor, endCursor>> /\ (pc' # "down" => pc # "down" \/ StrayCheck)
    BY <1>9, LogThrowsEffect, StrayEffect DEF LogThrows, StrayCheck
  <2>2. StrayCheck => UNCHANGED pc
    BY DEF StrayCheck
  <2>3. QED
    BY <1>1, <2>1, <2>2
<1>10. QED
  BY <1>2, <1>3, <1>4, <1>5, <1>6, <1>7, <1>8, <1>9 DEF Next, vars, Submit, FetchPage, FetchNothing,
     FetchFails, BulkFails, BulkLoaded, RetryDelayOver, RetryDequeue, RetryBulkLoaded,
     RetryBulkFails, RetryDone, Restart

\* The saved cursor, and the one in memory, are never ahead of the transactions
\* that were dealt with, however often the process stops and wherever it goes on.
THEOREM CursorSafe == Spec => []CursorBehindChecks
<1>1. Init => CursorInv
  BY NumberAssumption, PassesDiffer DEF Init, BatchInit, StoreInit, NoBatch, CursorInv, WatcherInv, FateInv,
     CursorBehindChecks, Members, Batch, Pass
<1>2. TypeOK /\ CursorInv /\ [Next]_vars => CursorInv'
  BY WatcherInvStep, FateInvStep, CursorBehindChecksStep DEF CursorInv
<1>3. CursorInv => CursorBehindChecks
  BY DEF CursorInv
<1>4. QED
  BY TypeCorrect, <1>1, <1>2, <1>3, PTL DEF Spec

\* The second part: signatures and records.
SignatureInv == SignatureFirst /\ RecordImpliesSignature

LEMMA SignatureInvStep ==
    ASSUME TypeOK, SignatureInv, [Next]_vars
    PROVE  SignatureInv'
<1> USE DEF store, bundlr, passes, watcher, retry, history, HasSignatureBeenUsedBefore
<1>1. CASE MainCheck \/ RetryCheck \/ LogThrows \/ StrayCheck
  <2>1. PICK t \in Transactions :
           \/ writes' = writes
           \/ \E v \in Verdict : \/ writes' = writes \cup {SaveTx(t, v)}
                                 \/ writes' = writes \cup {SaveTx(t, v), SaveTx(t, "unknown")}
    <3>1. CASE MainCheck
      BY <3>1, MainCheckEffect, CheckStepEffect
    <3>2. CASE RetryCheck
      BY <3>2, RetryCheckEffect, CheckStepEffect
    <3>3. CASE LogThrows
      BY <3>3, LogThrowsEffect
    <3>4. CASE StrayCheck
      BY <3>4, StrayEffect
    <3>5. QED
      BY <1>1, <3>1, <3>2, <3>3, <3>4
  <2>2. UNCHANGED store
    BY <1>1, MainCheckEffect, RetryCheckEffect, LogThrowsEffect, StrayEffect
  <2>3. \A w \in writes' \ writes : w.next = "record" => ~HasPublication(w.verdict)
    <3>1. \A v \in Verdict : SaveTx(t, v).next = "record" => ~HasPublication(SaveTx(t, v).verdict)
      BY DEF SaveTx
    <3>2. "unknown" \in Verdict
      BY DEF Verdict
    <3>3. QED
      BY <2>1, <3>1, <3>2
  <2>4. QED
    BY <2>2, <2>3 DEF SignatureInv, SignatureFirst, RecordImpliesSignature
<1>2. CASE SaveTxWrites
  <2>1. PICK w \in writes : WriteStep(w)
    BY <1>2 DEF SaveTxWrites
  <2>2. w \in Write
    BY DEF TypeOK
  <2>3. CASE PutSignature(w)
    <3>1. [w EXCEPT !.next = "record"].tx = w.tx
      BY <2>2 DEF Write
    <3>2. QED
      BY <2>3, <3>1 DEF PutSignature, SignatureInv, SignatureFirst, RecordImpliesSignature
  <2>4. CASE PutRecord(w)
    <3>1. \A t \in Transactions : record'[t] = IF t = w.tx THEN w.verdict ELSE record[t]
      BY <2>2, <2>4 DEF PutRecord, TypeOK, Write
    <3>2. QED
      BY <2>4, <3>1 DEF PutRecord, SignatureInv, SignatureFirst, RecordImpliesSignature
  <2>5. QED
    BY <2>1, <2>3, <2>4 DEF WriteStep
<1>3. CASE Crash
  BY <1>3 DEF Crash, SignatureInv, SignatureFirst, RecordImpliesSignature
<1>4. CASE UNCHANGED <<record, usedSignatures, writes>>
  BY <1>4 DEF SignatureInv, SignatureFirst, RecordImpliesSignature
<1>5. QED
  BY <1>1, <1>2, <1>3, <1>4 DEF Next, vars, Submit, Boot, FetchPage, FetchNothing,
     FetchFails, BulkLoaded, BulkFails, ProcessTransactions, SaveCursorOrCount, SaveFails,
     SaveProgress, RetryDelayOver, RetryDequeue, RetryBulkLoaded, RetryBulkFails, RetryDone

\* A record with a publication is only ever found next to its used signature.
THEOREM SignatureSafe == Spec => []RecordImpliesSignature
<1>1. Init => SignatureInv
  BY DEF Init, BatchInit, StoreInit, SignatureInv, SignatureFirst, RecordImpliesSignature
<1>2. TypeOK /\ SignatureInv /\ [Next]_vars => SignatureInv'
  BY SignatureInvStep
<1>3. SignatureInv => RecordImpliesSignature
  BY DEF SignatureInv
<1>4. QED
  BY TypeCorrect, <1>1, <1>2, <1>3, PTL DEF Spec


-------------------------------------------------------------------------------
(* The strays of batches that threw *)

\* Who waits for a retry after a step.
LEMMA InRetryStep ==
    ASSUME TypeOK, WatcherInv, [Next]_vars
    PROVE  \/ InRetry' = InRetry
           \/ Crash
           \/ ProcessTransactions /\ InRetry' = InRetry \cup ToRetry("main")
           \/ RetryDone /\ InRetry' \subseteq InRetry /\ InRetry \subseteq InRetry' \cup retryTxs
  <1>0. queue \in Seq(SUBSET Transactions) /\ retryTxs \subseteq Transactions
    BY DEF TypeOK
  <1>1. CASE ProcessTransactions
    <2>1. /\ UNCHANGED <<queue, retryTxs>>
          /\ delayed' = IF ToRetry("main") = {} THEN delayed ELSE delayed \cup {ToRetry("main")}
      BY <1>1 DEF ProcessTransactions
    <2>2. ToRetry("main") \subseteq Transactions
      BY DEF ToRetry, Members
    <2> QED
      BY <1>1, <2>1, <2>2 DEF InRetry
  <1>2. CASE RetryDelayOver
    <2>1. PICK b \in delayed : delayed' = delayed \ {b} /\ queue' = Append(queue, b)
      BY <1>2 DEF RetryDelayOver
    <2>2. retryTxs' = retryTxs
      BY <1>2 DEF RetryDelayOver
    <2>3. b \in SUBSET Transactions
      BY DEF TypeOK
    <2>4. /\ Len(queue') = Len(queue) + 1 /\ Len(queue) \in Nat
          /\ \A i \in 1 .. Len(queue) : queue'[i] = queue[i]
          /\ queue'[Len(queue) + 1] = b
      BY <1>0, <2>1, <2>3
    <2>5. \A t \in Transactions :
             (\E i \in 1 .. Len(queue') : t \in queue'[i])
                <=> t \in b \/ \E i \in 1 .. Len(queue) : t \in queue[i]
      BY <2>4
    <2>6. \A t \in Transactions : (\E c \in delayed : t \in c)
                <=> t \in b \/ \E c \in delayed' : t \in c
      BY <2>1
    <2> QED
      BY <2>2, <2>5, <2>6 DEF InRetry
  <1>3. CASE RetryDequeue
    <2>1. /\ queue # <<>> /\ retryTxs' = Head(queue) /\ queue' = Tail(queue)
          /\ delayed' = delayed /\ retryTxs = {}
      BY <1>3 DEF RetryDequeue, WatcherInv
    <2>2. /\ Len(queue) \in Nat /\ Len(queue) >= 1 /\ retryTxs' = queue[1]
          /\ Len(queue') = Len(queue) - 1
          /\ \A i \in 1 .. Len(queue') : queue'[i] = queue[i + 1]
      BY <1>0, <2>1
    <2>3. ASSUME NEW t \in Transactions
          PROVE  (t \in retryTxs' \/ \E i \in 1 .. Len(queue') : t \in queue'[i])
                    <=> \E i \in 1 .. Len(queue) : t \in queue[i]
      <3>1. ASSUME NEW i \in 1 .. Len(queue), t \in queue[i], i # 1
            PROVE  \E j \in 1 .. Len(queue') : t \in queue'[j]
        <4>1. i - 1 \in 1 .. Len(queue') /\ (i - 1) + 1 = i
          BY <2>2, <3>1
        <4> QED
          BY <2>2, <3>1, <4>1
      <3>2. ASSUME NEW i \in 1 .. Len(queue'), t \in queue'[i]
            PROVE  \E j \in 1 .. Len(queue) : t \in queue[j]
        <4>1. i + 1 \in 1 .. Len(queue)
          BY <2>2
        <4> QED
          BY <2>2, <3>2, <4>1
      <3>3. 1 \in 1 .. Len(queue)
        BY <2>2
      <3> QED
        BY <2>2, <3>1, <3>2, <3>3
    <2> QED
      BY <2>1, <2>3 DEF InRetry
  <1>4. CASE RetryBulkFails
    BY <1>0, <1>4 DEF RetryBulkFails, InRetry
  <1>5. CASE RetryDone
    BY <1>0, <1>5 DEF RetryDone, InRetry
  <1>6. CASE UNCHANGED <<delayed, queue, retryTxs>>
    BY <1>6 DEF InRetry
  <1> QED
    BY <1>1, <1>2, <1>3, <1>4, <1>5, <1>6 DEF Next, vars, retry, Submit, Boot, FetchPage,
       FetchNothing, FetchFails, BulkFails, BulkLoaded, MainCheck, LogThrows, StrayCheck,
       SaveCursorOrCount, SaveFails, SaveTxWrites, RetryBulkLoaded, RetryCheck

LEMMA StrayInvStep ==
    ASSUME TypeOK, WatcherInv, StrayInv, [Next]_vars
    PROVE  StrayInv'
<1> USE DEF store, bundlr, passes, watcher, retry, history
<1>0. eventless' = eventless /\ eventless \subseteq Transactions
  <2>1. eventless' = eventless
    BY DEF Next, vars, Submit, Boot, Crash, FetchPage, FetchNothing, FetchFails, BulkLoaded,
       BulkFails, MainCheck, LogThrows, StrayCheck, ProcessTransactions, SaveCursorOrCount,
       SaveFails, SaveTxWrites, RetryDelayOver, RetryDequeue, RetryBulkLoaded, RetryBulkFails,
       RetryCheck, RetryDone
  <2>2. QED
    BY <2>1, BatchAssumption DEF TypeOK
<1>1. InRetry' \cap eventless' = {}
  <2>1. CASE Crash
    BY <2>1 DEF Crash, InRetry
  <2>2. CASE ~Crash
    <3>1. InRetry' \subseteq InRetry \cup ToRetry("main")
      BY <2>2, InRetryStep
    <3>2. ToRetry("main") \cap eventless = {}
      BY DEF ToRetry, Members, ShouldRetry, StrayInv, Verdict
    <3>3. QED
      BY <1>0, <3>1, <3>2 DEF StrayInv
  <2>3. QED
    BY <2>1, <2>2
<1>2. SUFFICES /\ \A g \in Strays : \A u \in Transactions :
                     check'[g][u] # "absent" => u \in abandoned' /\ g \in threw'
               /\ \A t \in eventless : check'["main"][t] \notin Verdict
  BY <1>0, <1>1 DEF StrayInv, Members
<1>3. /\ \A g \in Strays : \A u \in Transactions :
            check[g][u] # "absent" => u \in abandoned /\ g \in threw
      /\ \A t \in eventless : check["main"][t] \notin Verdict
  BY DEF StrayInv, Members
<1>4. CASE Crash
  BY <1>0, <1>4, PassesDiffer DEF Crash, NoBatch, Verdict
<1>5. CASE MainCheck
  <2>1. PICK t \in Transactions : BatchTypeOK /\ Goes("main", t)
    BY <1>5, MainCheckEffect
  <2>2. /\ UNCHANGED threw
        /\ \A u \in Transactions : u # t => check'["main"][u] = check["main"][u]
        /\ \A g \in Strays : \A u \in Transactions : check'[g][u] = check[g][u]
        /\ check'["main"][t] \in Verdict => t \notin eventless
    BY <2>1, CheckStepEffect, PassesDiffer
  <2>3. UNCHANGED abandoned
    BY <1>5 DEF MainCheck
  <2>4. QED
    BY <1>0, <1>3, <2>2, <2>3
<1>6. CASE RetryCheck
  <2>1. PICK t \in Transactions : BatchTypeOK /\ Goes("retry", t)
    BY <1>6, RetryCheckEffect
  <2>2. /\ UNCHANGED threw
        /\ \A u \in Transactions : check'["main"][u] = check["main"][u]
        /\ \A g \in Strays : \A u \in Transactions : check'[g][u] = check[g][u]
    BY <2>1, CheckStepEffect, PassesDiffer
  <2>3. UNCHANGED abandoned
    BY <1>6 DEF RetryCheck
  <2>4. QED
    BY <1>0, <1>3, <2>2, <2>3
<1>7. CASE LogThrows
  <2>1. PICK t \in Transactions, g \in Strays : Abandon(t, g)
    BY <1>7, LogThrowsEffect
  <2>2. /\ \A u \in Transactions : check'["main"][u] = "absent"
        /\ \A u \in Transactions : check'[g][u] # "absent" => check["main"][u] \in Running
        /\ \A h \in Strays : h # g => check'[h] = check[h]
        /\ threw' = threw \cup {g}
    BY <2>1, PassesDiffer DEF Abandon, NoBatch, TypeOK
  <2>3. \A u \in Transactions : check["main"][u] \in Running => u \in abandoned'
    BY <1>7 DEF LogThrows, Begun, Running
  <2>4. abandoned \subseteq abandoned'
    BY <1>7 DEF LogThrows
  <2>5. QED
    BY <1>0, <1>3, <2>2, <2>3, <2>4 DEF Verdict
<1>8. CASE StrayCheck
  <2>1. PICK t \in Transactions, g \in Strays :
           /\ check[g][t] \in {"queued"} \cup Running
           /\ \A q \in Pass : \A u \in Transactions :
                 <<q, u>> # <<g, t>> => check'[q][u] = check[q][u]
           /\ UNCHANGED threw
    BY <1>8, StrayEffect
  <2>2. /\ \A u \in Transactions : check'["main"][u] = check["main"][u]
        /\ \A h \in Strays : \A u \in Transactions : <<h, u>> # <<g, t>> => check'[h][u] = check[h][u]
    BY <2>1, PassesDiffer
  <2>3. check[g][t] # "absent"
    BY <2>1 DEF Running
  <2>4. UNCHANGED abandoned
    BY <1>8 DEF StrayCheck
  <2>5. QED
    BY <1>0, <1>3, <2>1, <2>2, <2>3, <2>4
<1>9. CASE BulkLoaded
  <2>1. /\ \A u \in Transactions : check'["main"][u] \in {"absent", "queued"}
        /\ \A g \in Strays : check'[g] = check[g]
        /\ UNCHANGED <<threw, abandoned>>
    BY <1>9, PassesDiffer DEF BulkLoaded, StartBatch, TypeOK
  <2>2. QED
    BY <1>0, <1>3, <2>1 DEF Verdict
<1>10. CASE ProcessTransactions
  <2>1. /\ \A u \in Transactions : check'["main"][u] = "absent"
        /\ \A g \in Strays : check'[g] = check[g]
        /\ UNCHANGED <<threw, abandoned>>
    BY <1>10, PassesDiffer DEF ProcessTransactions, EndBatch, NoBatch, TypeOK
  <2>2. QED
    BY <1>0, <1>3, <2>1 DEF Verdict
<1>11. CASE RetryBulkLoaded \/ RetryDone
  <2>1. /\ check'["main"] = check["main"]
        /\ \A g \in Strays : check'[g] = check[g]
        /\ UNCHANGED <<threw, abandoned>>
    BY <1>11, PassesDiffer DEF RetryBulkLoaded, StartBatch, RetryDone, EndBatch, TypeOK
  <2>2. QED
    BY <1>3, <2>1
<1>12. CASE UNCHANGED <<check, threw, abandoned>>
  BY <1>3, <1>12
<1>13. QED
  BY <1>4, <1>5, <1>6, <1>7, <1>8, <1>9, <1>10, <1>11, <1>12 DEF Next, vars, Submit, Boot,
     FetchPage, FetchNothing, FetchFails, BulkFails, SaveCursorOrCount, SaveFails,
     SaveTxWrites, WriteStep, RetryDelayOver, RetryDequeue, RetryBulkFails

LEMMA InitInvariants ==
    ASSUME Init
    PROVE  /\ WatcherInv /\ StrayInv
           /\ writes = {} /\ delayed = {} /\ queue = <<>> /\ retryTxs = {} /\ InRetry = {}
           /\ pc = "down" /\ retryPc = "idle"
           /\ \A p \in Pass : \A t \in Transactions : check[p][t] = "absent"
<1>1. \A p \in Pass : \A t \in Transactions : check[p][t] = "absent"
  BY DEF Init, BatchInit, NoBatch
<1>2. /\ writes = {} /\ delayed = {} /\ queue = <<>> /\ retryTxs = {} /\ InRetry = {}
      /\ pc = "down" /\ retryPc = "idle"
  BY DEF Init, BatchInit, StoreInit, InRetry
<1>3. \A p \in Pass : Members(p) = {}
  BY <1>1 DEF Members
<1>4. WatcherInv
  BY <1>2, <1>3, PassesDiffer DEF WatcherInv
<1>5. StrayInv
  <2>1. eventless \subseteq Transactions
    BY BatchAssumption DEF Init, BatchInit
  <2>2. QED
    BY <1>1, <1>2, <1>3, <2>1, PassesDiffer DEF StrayInv, Verdict
<1>6. QED
  BY <1>1, <1>2, <1>4, <1>5

\* A stray is a check that was under way in a batch that threw since the process
\* was started; and what comes to the retry queue was submitted with its event.
THEOREM StraysSafe == Spec => [](WatcherInv /\ StrayInv)
<1>1. Init => WatcherInv /\ StrayInv
  BY InitInvariants
<1>2. TypeOK /\ WatcherInv /\ StrayInv /\ [Next]_vars => WatcherInv' /\ StrayInv'
  BY WatcherInvStep, StrayInvStep
<1>3. QED
  BY TypeCorrect, <1>1, <1>2, PTL DEF Spec

-------------------------------------------------------------------------------
(* The node implements the verdict log, if the stream callback never throws *)

\* The effect of a step of a check, with what justifies the verdict it saves.
QuietEffect(p, t) ==
    \/ /\ writes' = writes
       /\ check'[p][t] \in Running
       /\ p = "main" /\ check'[p][t] \in {"signature", "checking"} =>
             \/ check[p][t] = "signature"
             \/ check[p][t] = "cache" /\ record[t] = NotChecked
       /\ p = "retry" => check'[p][t] = "checking" \/ check[p][t] \in {"cache", "signature"}
    \/ \E v \in Verdict :
       /\ writes' = writes \cup {SaveTx(t, v)}
       /\ check'[p][t] = v
       /\ \/ v = "unknown"
          \/ v = record[t] /\ check[p][t] = "cache"
          \/ v = "sigUsed" /\ check[p][t] = "signature"
          \/ v \in {"ok", "rejected", "nodeError"} /\ check[p][t] = "checking"

LEMMA QuietCheckStep ==
    ASSUME BatchTypeOK, ~StreamMayThrow,
           NEW p \in Pass, NEW t \in Transactions, Goes(p, t)
    PROVE  QuietEffect(p, t)
<1> USE DEF BatchTypeOK, Move, Stage, QuietEffect, Goes
<1>0. "unknown" \in Verdict /\ "sigUsed" \in Verdict /\ "ok" \in Verdict
      /\ "rejected" \in Verdict /\ "nodeError" \in Verdict
  BY DEF Verdict
<1>1. ASSUME NEW v \in Verdict, Report(p, t, v)
      PROVE  writes' = writes \cup {SaveTx(t, v)} /\ check'[p][t] = v
  <2>1. Move(p, t, v)
    BY <1>1, EndCheckGoes DEF Report
  <2>2. QED
    BY <1>1, <2>1 DEF Report
<1>2. CASE StartCheck(p, t)
  BY <1>2 DEF StartCheck, Running, Pass
<1>3. CASE ReadCache(p, t)
  <2>1. CASE record[t] = NotChecked
    BY <1>3, <2>1 DEF ReadCache, Running
  <2>2. CASE record[t] # NotChecked
    <3>1. record[t] \in Verdict /\ Report(p, t, record[t]) /\ check[p][t] = "cache"
      BY <1>3, <2>2 DEF ReadCache
    <3>2. QED
      BY <1>1, <3>1
  <2>3. QED
    BY <2>1, <2>2
<1>4. CASE ReadSignature(p, t)
  <2>1. CASE HasSignatureBeenUsedBefore(t)
    BY <1>0, <1>1, <1>4, <2>1 DEF ReadSignature
  <2>2. CASE ~HasSignatureBeenUsedBefore(t)
    BY <1>4, <2>2 DEF ReadSignature, Running
  <2>3. QED
    BY <2>1, <2>2
<1>5. CASE FinishCheck(p, t)
  <2>1. PICK v \in {"ok", "rejected", "nodeError"} : Report(p, t, v)
    BY <1>5 DEF FinishCheck
  <2>2. v \in Verdict /\ check[p][t] = "checking"
    BY <1>0, <1>5 DEF FinishCheck
  <2>3. QED
    BY <1>1, <2>1, <2>2
<1>6. CASE TimeOut(p, t)
  <2>1. Move(p, t, "unknown")
    BY <1>0, <1>6, EndCheckGoes DEF TimeOut
  <2>2. QED
    BY <1>0, <1>6, <2>1 DEF TimeOut
<1>7. QED
  BY <1>2, <1>3, <1>4, <1>5, <1>6 DEF CheckStep

\* A batch that throws and the strays it leaves touch nothing but transactions
\* that are no longer checked by one batch alone.
LEMMA AsideSteps ==
    ASSUME TypeOK, WatcherInv, StrayInv, LogThrows \/ StrayCheck
    PROVE  /\ UNCHANGED store
           /\ UNCHANGED <<submitted, endCursor, retry, retried, bootCursor, crashes>>
           /\ abandoned \subseteq abandoned'
           /\ writes \subseteq writes'
           /\ \A w \in writes' : w \in writes \/ w.tx \in abandoned'
           /\ \A u \in Transactions :
                 /\ check'["retry"][u] = check["retry"][u]
                 /\ \/ check'["main"][u] = check["main"][u]
                    \/ /\ check'["main"][u] = "absent" /\ pc' = "fetch"
                       /\ u \in abandoned' \/ check["main"][u] = "queued"
                 /\ \/ fate'[u] = fate[u]
                    \/ /\ u \in abandoned' /\ fate'[u] = "processed"
                       /\ \E w \in writes' : w.tx = u
           /\ pc # "down" /\ pc' # "down"
           /\ pc' = "check" => UNCHANGED <<pc, page>>
<1> USE DEF store, bundlr, passes, watcher, retry, history
<1>0. \A t \in Transactions : \A v \in Verdict : SaveTx(t, v).tx = t
  BY DEF SaveTx
<1>a. "unknown" \in Verdict
  BY DEF Verdict
<1>1. CASE LogThrows
  <2>1. PICK t \in Transactions, g \in Strays :
           /\ Abandon(t, g) /\ UNCHANGED store
           /\ check["main"][t] \in Running
           /\ \E v \in Verdict : \/ writes' = writes \cup {SaveTx(t, v)}
                                 \/ writes' = writes \cup {SaveTx(t, v), SaveTx(t, "unknown")}
           /\ Mark({t}, "processed")
    BY <1>1, LogThrowsEffect
  <2>2. /\ \A u \in Transactions : check'["main"][u] = "absent"
        /\ \A u \in Transactions : check'["retry"][u] = check["retry"][u]
    BY <2>1, PassesDiffer DEF Abandon, NoBatch, TypeOK
  <2>3. /\ abandoned' = abandoned \cup Begun /\ pc = "check" /\ pc' = "fetch"
        /\ UNCHANGED <<submitted, endCursor, retry, retried, bootCursor, crashes>>
    BY <1>1 DEF LogThrows, Restart
  <2>4. \A u \in Transactions :
           u \in abandoned' \/ check["main"][u] = "queued" \/ check["main"][u] = "absent"
    BY <2>3 DEF Begun
  <2>5. t \in abandoned'
    BY <2>1, <2>4 DEF Running
  <2>6. /\ writes \subseteq writes' /\ \A w \in writes' : w \in writes \/ w.tx = t
        /\ \E w \in writes' : w.tx = t
    BY <1>0, <1>a, <2>1
  <2>7. \A u \in Transactions : fate'[u] = fate[u] \/ (u = t /\ fate'[u] = "processed")
    BY <2>1 DEF Mark
  <2>8. QED
    BY <2>1, <2>2, <2>3, <2>4, <2>5, <2>6, <2>7
<1>2. CASE StrayCheck
  <2>1. PICK t \in Transactions, g \in Strays :
           /\ check[g][t] \in {"queued"} \cup Running
           /\ \A q \in Pass : \A u \in Transactions :
                 <<q, u>> # <<g, t>> => check'[q][u] = check[q][u]
           /\ UNCHANGED store
           /\ \/ writes' = writes /\ UNCHANGED fate
              \/ /\ \E v \in Verdict :
                       \/ writes' = writes \cup {SaveTx(t, v)}
                       \/ writes' = writes \cup {SaveTx(t, v), SaveTx(t, "unknown")}
                 /\ Mark({t}, "processed")
    BY <1>2, StrayEffect
  <2>2. \A u \in Transactions : /\ check'["main"][u] = check["main"][u]
                                /\ check'["retry"][u] = check["retry"][u]
    BY <2>1, PassesDiffer
  <2>3. t \in abandoned /\ pc # "down"
    BY <2>1 DEF StrayInv, WatcherInv, Members, Running
  <2>4. UNCHANGED <<submitted, watcher, retry, retried, bootCursor, abandoned, crashes>>
    BY <1>2 DEF StrayCheck
  <2>5. /\ writes \subseteq writes' /\ \A w \in writes' : w \in writes \/ w.tx = t
    BY <1>0, <1>a, <2>1
  <2>6. \A u \in Transactions :
           fate'[u] = fate[u] \/ (u = t /\ fate'[u] = "processed" /\ \E w \in writes' : w.tx = t)
    BY <1>0, <1>a, <2>1 DEF Mark
  <2>7. QED
    BY <2>1, <2>2, <2>3, <2>4, <2>5, <2>6
<1>3. QED
  BY <1>1, <1>2

\* Where a transaction of the watcher's batch and one of the retries can be.
LEMMA Apart ==
    ASSUME TypeOK, WatcherInv, PlaceInv
    PROVE  /\ \A t \in Batch : ~(t <= endCursor) /\ t \in Transactions
           /\ \A t \in Batch \cap Sole : check["main"][t] \notin Verdict => ~Pending(t)
           /\ \A t \in Members("main") : t \in Batch
           /\ \A t \in retryTxs : t \in Transactions /\ t <= endCursor
           /\ \A b \in delayed : \A t \in b : t \in Transactions /\ t <= endCursor
           /\ \A i \in 1 .. Len(queue) : \A t \in queue[i] : t \in Transactions /\ t <= endCursor
<1>1. \A t \in Batch : ~(t <= endCursor) /\ t \in Transactions
  BY NumberAssumption DEF Batch, TypeOK
<1>2. \A t \in Batch \cap Sole : check["main"][t] \notin Verdict => ~Pending(t)
  BY <1>1 DEF PlaceInv, Pending, Checked
<1>3. \A t \in Members("main") : t \in Batch
  BY DEF WatcherInv
<1>4. \A t \in InRetry : t \in Transactions /\ t <= endCursor
  BY DEF PlaceInv, InRetry
<1>5. \A t \in retryTxs : t \in InRetry
  BY DEF InRetry, TypeOK
<1>6. \A b \in delayed : \A t \in b : t \in InRetry
  BY DEF InRetry, TypeOK
<1>7. \A i \in 1 .. Len(queue) : \A t \in queue[i] : t \in InRetry
  <2>1. \A i \in 1 .. Len(queue) : queue[i] \subseteq Transactions
    BY DEF TypeOK
  <2>2. QED
    BY <2>1 DEF InRetry
<1>8. QED
  BY <1>1, <1>2, <1>3, <1>4, <1>5, <1>6, <1>7


\* What the two invariants below speak about.
places == <<record, writes, check, endCursor, delayed, queue, retryTxs, abandoned>>

LEMMA OtherSteps ==
    ASSUME [Next]_vars,
           ~ \E resync \in ResyncModes : Boot(resync), ~Crash, ~BulkLoaded, ~MainCheck,
           ~ProcessTransactions, ~SaveTxWrites, ~LogThrows, ~StrayCheck, ~RetryDelayOver, ~RetryDequeue,
           ~RetryBulkLoaded, ~RetryBulkFails, ~RetryCheck, ~RetryDone
    PROVE  UNCHANGED places
  BY DEF Next, vars, places, store, bundlr, passes, watcher, retry, history, Submit, FetchPage, FetchNothing,
     FetchFails, BulkFails, Restart, SaveCursorOrCount, SaveFails, SaveProgress

\* A saved check adds one write, of a transaction that had none if it is checked
\* by one batch alone.
LEMMA UniqueWrites ==
    ASSUME TypeOK, PlaceInv, NEW t \in Transactions, t \in Sole => ~Pending(t),
           NEW v \in Verdict, writes' = writes \cup {SaveTx(t, v)}
    PROVE  /\ \A a, b \in writes' : a.tx = b.tx /\ a.tx \in Sole => a = b
           /\ \A u \in Transactions : u # t => (Pending(u)' <=> Pending(u))
<1>1. SaveTx(t, v).tx = t
  BY DEF SaveTx
<1>2. t \in Sole => \A a \in writes : a.tx # t
  BY DEF Pending
<1>3. QED
  BY <1>1, <1>2 DEF PlaceInv, Pending

LEMMA PlaceInvStep ==
    ASSUME TypeOK, WatcherInv, StrayInv, PlaceInv, VerdictInv, ~StreamMayThrow, [Next]_vars
    PROVE  PlaceInv'
<1> USE DEF store, bundlr, passes, watcher, retry, history, Sole
<1>1. CASE Crash
  <2>1. writes' = {} /\ delayed' = {} /\ queue' = <<>> /\ retryTxs' = {}
    BY <1>1 DEF Crash
  <2>2. QED
    BY <2>1 DEF PlaceInv, InRetry
<1>2. ASSUME NEW resync \in ResyncModes, Boot(resync) PROVE PlaceInv'
  <2>1. writes' = {} /\ delayed' = {} /\ queue' = <<>> /\ retryTxs' = {}
    BY <1>2 DEF Boot, WatcherInv
  <2>2. QED
    BY <2>1 DEF PlaceInv, InRetry
<1>3. CASE BulkLoaded
  <2>1. Members("main") = {}
    BY <1>3 DEF BulkLoaded, WatcherInv
  <2>2. \A w \in writes : w.tx \in Sole => w.tx <= endCursor
    <3>1. \A w \in writes : w.tx \in Transactions
      BY DEF TypeOK, Write
    <3>2. \A t \in Transactions : check["main"][t] \notin Verdict
      BY <2>1 DEF Members, Verdict
    <3>3. QED
      BY <3>1, <3>2 DEF PlaceInv, Checked
  <2>3. QED
    BY <1>3, <2>2 DEF BulkLoaded, PlaceInv, Checked, InRetry
<1>4. CASE MainCheck
  <2>1. PICK t \in Transactions : t \in Batch /\ "main" \in Pass /\ BatchTypeOK /\ Goes("main", t)
    BY <1>4, MainCheckEffect
  <2>2. t \in Sole => ~Pending(t)
    BY <2>1, Apart, CheckStepEffect DEF Running, Verdict
  <2>3. /\ QuietEffect("main", t)
        /\ \A u \in Transactions : u # t => check'["main"][u] = check["main"][u]
        /\ check["main"][t] \notin Verdict
    BY <2>1, QuietCheckStep, CheckStepEffect DEF Running, Verdict
  <2>4. UNCHANGED <<endCursor, delayed, queue, retryTxs, abandoned>>
    BY <1>4 DEF MainCheck
  <2>5. \A w \in writes : w.tx \in Sole => Checked(w.tx)'
    <3>1. \A w \in writes : w.tx \in Sole => Checked(w.tx) /\ w.tx # t
      BY <2>2 DEF PlaceInv, Pending, TypeOK, Write
    <3>2. QED
      BY <2>3, <2>4, <3>1 DEF Checked
  <2>6. CASE writes' = writes
    BY <2>4, <2>5, <2>6 DEF PlaceInv, InRetry
  <2>7. ASSUME NEW v \in Verdict, writes' = writes \cup {SaveTx(t, v)}, check'["main"][t] = v
        PROVE  PlaceInv'
    <3>1. Checked(SaveTx(t, v).tx)'
      BY <2>7 DEF SaveTx, Checked
    <3>2. \A w \in writes' : w.tx \in Sole => Checked(w.tx)'
      BY <2>5, <2>7, <3>1
    <3>3. \A a, b \in writes' : a.tx = b.tx /\ a.tx \in Sole => a = b
      BY <2>2, <2>7, UniqueWrites
    <3>4. QED
      BY <2>4, <3>2, <3>3 DEF PlaceInv, InRetry
  <2>8. QED
    BY <2>3, <2>6, <2>7 DEF QuietEffect
<1>5. CASE RetryCheck
  <2>1. PICK t \in retryTxs :
           t \in Transactions /\ "retry" \in Pass /\ BatchTypeOK /\ Goes("retry", t)
    BY <1>5, RetryCheckEffect
  <2>2. check["retry"][t] \notin Verdict /\ (t \in Sole => ~Pending(t)) /\ t <= endCursor
    BY <2>1, Apart, CheckStepEffect DEF Running, Verdict, VerdictInv, RetryVerdicts, Due
  <2>3. /\ QuietEffect("retry", t)
        /\ \A u \in Transactions : check'["main"][u] = check["main"][u]
    BY <2>1, QuietCheckStep, CheckStepEffect DEF Pass
  <2>4. UNCHANGED <<endCursor, delayed, queue, retryTxs, abandoned>>
    BY <1>5 DEF RetryCheck
  <2>5. \A w \in writes : w.tx \in Sole => Checked(w.tx)'
    <3>1. \A w \in writes : w.tx \in Sole => Checked(w.tx)
      BY DEF PlaceInv
    <3>2. QED
      BY <2>3, <2>4, <3>1 DEF Checked
  <2>6. CASE writes' = writes
    BY <2>4, <2>5, <2>6 DEF PlaceInv, InRetry
  <2>7. ASSUME NEW v \in Verdict, writes' = writes \cup {SaveTx(t, v)}
        PROVE  PlaceInv'
    <3>1. Checked(SaveTx(t, v).tx)'
      BY <2>2, <2>4 DEF SaveTx, Checked
    <3>2. \A w \in writes' : w.tx \in Sole => Checked(w.tx)'
      BY <2>5, <2>7, <3>1
    <3>3. \A a, b \in writes' : a.tx = b.tx /\ a.tx \in Sole => a = b
      BY <2>2, <2>1, <2>7, UniqueWrites
    <3>4. QED
      BY <2>4, <3>2, <3>3 DEF PlaceInv, InRetry
  <2>8. QED
    BY <2>3, <2>6, <2>7 DEF QuietEffect
<1>6. CASE ProcessTransactions
  <2> DEFINE new == ToRetry("main")
  <2>1. /\ endCursor' = page.next /\ endCursor <= page.next
        /\ UNCHANGED <<writes, queue, retryTxs, abandoned>>
        /\ \A b \in delayed' : b \in delayed \/ b = new
    BY <1>6 DEF ProcessTransactions, WatcherInv
  <2>2. \A t \in new : t \in Batch /\ t \in Transactions
    BY Apart DEF ToRetry
  <2>3. \A t \in Batch : t <= page.next /\ ~(t <= endCursor)
    BY NumberAssumption DEF Batch, TypeOK
  <2>4. \A t \in Transactions : t <= endCursor => t <= page.next
    BY <2>1, NumberAssumption DEF TypeOK
  <2>5. \A w \in writes : w.tx \in Sole => w.tx <= page.next
    <3>1. \A w \in writes : w.tx \in Sole => Checked(w.tx) /\ w.tx \in Transactions
      BY DEF PlaceInv
    <3>2. \A t \in Transactions : check["main"][t] \in Verdict => t \in Members("main")
      BY DEF Members, Verdict
    <3>3. QED
      BY <2>3, <2>4, <3>1, <3>2, Apart DEF Checked
  <2>6. \A w \in writes' : w.tx \in Sole => Checked(w.tx)'
    BY <2>1, <2>5 DEF Checked
  <2>7. \A t \in InRetry' : t <= endCursor'
    <3>1. \A t \in InRetry' : t \in Transactions /\ (t \in InRetry \/ t \in new)
      BY <2>1 DEF InRetry
    <3>2. \A t \in InRetry : t <= endCursor
      BY DEF PlaceInv
    <3>3. QED
      BY <2>1, <2>2, <2>3, <2>4, <3>1, <3>2
  <2>8. /\ \A b \in delayed \cup {retryTxs} : b \cap new = {}
        /\ \A i \in 1 .. Len(queue) : new \cap queue[i] = {}
    BY <2>2, <2>3, Apart
  <2>9. /\ \A b, c \in delayed' : b = c \/ b \cap c = {}
        /\ \A b \in delayed' : b \cap retryTxs' = {}
    BY <2>1, <2>8 DEF PlaceInv
  <2>10. \A b \in delayed' \cup {retryTxs'} : \A i \in 1 .. Len(queue') : b \cap queue'[i] = {}
    BY <2>1, <2>8 DEF PlaceInv
  <2>11. QED
    BY <2>1, <2>6, <2>7, <2>9, <2>10 DEF PlaceInv
<1>7. CASE SaveTxWrites
  <2>1. PICK w \in writes : WriteStep(w)
    BY <1>7 DEF SaveTxWrites
  <2>2. UNCHANGED <<endCursor, check, delayed, queue, retryTxs, abandoned>>
    BY <1>7 DEF SaveTxWrites, WriteStep
  <2>3. writes' \subseteq (writes \ {w}) \cup {[w EXCEPT !.next = "record"]}
    BY <2>1 DEF WriteStep, PutSignature, PutRecord
  <2>4. [w EXCEPT !.next = "record"].tx = w.tx
    <3>1. w \in Write
      BY DEF TypeOK
    <3>2. QED
      BY <3>1 DEF Write
  <2>5. \A v \in writes' : \E u \in writes : v.tx = u.tx /\ (v = u \/ u = w)
    BY <2>3, <2>4
  <2>6. \A w1 \in writes' : w1.tx \in Sole => Checked(w1.tx)'
    BY <2>2, <2>5 DEF PlaceInv, Checked
  <2>7. \A a, b \in writes' : a.tx = b.tx /\ a.tx \in Sole => a = b
    BY <2>3, <2>4 DEF PlaceInv
  <2>8. QED
    BY <2>2, <2>6, <2>7 DEF PlaceInv, InRetry
<1>8. CASE RetryDelayOver
  <2>1. PICK b \in delayed : delayed' = delayed \ {b} /\ queue' = Append(queue, b)
    BY <1>8 DEF RetryDelayOver
  <2>2. UNCHANGED <<writes, endCursor, check, retryTxs, abandoned>>
    BY <1>8 DEF RetryDelayOver
  <2>3. queue \in Seq(SUBSET Transactions) /\ b \in SUBSET Transactions
    BY DEF TypeOK
  <2>4. /\ Len(queue') = Len(queue) + 1 /\ Len(queue) \in Nat
        /\ \A i \in 1 .. Len(queue) : queue'[i] = queue[i]
        /\ queue'[Len(queue) + 1] = b
    BY <2>1, <2>3
  <2>5. \A i \in 1 .. Len(queue') : (i \in 1 .. Len(queue) /\ queue'[i] = queue[i])
                                       \/ (i = Len(queue) + 1 /\ queue'[i] = b)
    BY <2>4
  <2>6. InRetry' \subseteq InRetry
    BY <2>1, <2>2, <2>5 DEF InRetry
  <2>7. /\ \A c \in delayed : c = b \/ c \cap b = {}
        /\ b \cap retryTxs = {}
        /\ \A i \in 1 .. Len(queue) : b \cap queue[i] = {}
    BY DEF PlaceInv
  <2>8. \A c \in delayed' \cup {retryTxs'} : \A i \in 1 .. Len(queue') : c \cap queue'[i] = {}
    BY <2>1, <2>2, <2>5, <2>7 DEF PlaceInv
  <2>9. \A i, j \in 1 .. Len(queue') : i # j => queue'[i] \cap queue'[j] = {}
    BY <2>5, <2>7 DEF PlaceInv
  <2>10. QED
    BY <2>1, <2>2, <2>6, <2>8, <2>9 DEF PlaceInv, Checked
<1>9. CASE RetryDequeue
  <2>1. /\ queue # <<>> /\ retryTxs' = Head(queue) /\ queue' = Tail(queue)
        /\ UNCHANGED <<writes, endCursor, check, delayed, abandoned>>
    BY <1>9 DEF RetryDequeue
  <2>2. queue \in Seq(SUBSET Transactions)
    BY DEF TypeOK
  <2>3. /\ Len(queue) \in Nat /\ 1 \in 1 .. Len(queue) /\ retryTxs' = queue[1]
        /\ Len(queue') = Len(queue) - 1
        /\ \A i \in 1 .. Len(queue') : queue'[i] = queue[i + 1] /\ i + 1 \in 1 .. Len(queue) /\ i + 1 # 1
    BY <2>1, <2>2
  <2>4. InRetry' \subseteq InRetry
    BY <2>1, <2>3 DEF InRetry
  <2>5. ASSUME NEW i \in 1 .. Len(queue'), NEW j \in 1 .. Len(queue'), i # j
        PROVE  queue'[i] \cap queue'[j] = {}
    <3>1. queue[i + 1] \cap queue[j + 1] = {}
      <4>1. i + 1 \in 1 .. Len(queue) /\ j + 1 \in 1 .. Len(queue) /\ i + 1 # j + 1
        BY <2>3, <2>5
      <4>2. QED
        BY <4>1 DEF PlaceInv
    <3>2. QED
      BY <2>3, <3>1
  <2>6. \A i \in 1 .. Len(queue') : retryTxs' \cap queue'[i] = {}
    BY <2>3 DEF PlaceInv
  <2>7. \A b \in delayed : b \cap retryTxs' = {} /\ \A i \in 1 .. Len(queue') : b \cap queue'[i] = {}
    BY <2>3 DEF PlaceInv
  <2>8. \A b, c \in delayed : b = c \/ b \cap c = {}
    BY DEF PlaceInv
  <2>9. QED
    BY <2>1, <2>4, <2>5, <2>6, <2>7, <2>8 DEF PlaceInv, Checked
<1>10. CASE RetryBulkLoaded
  <2>1. /\ check'["main"] = check["main"]
        /\ UNCHANGED <<writes, endCursor, delayed, queue, retryTxs, abandoned>>
    BY <1>10 DEF RetryBulkLoaded, StartBatch, TypeOK, Pass
  <2>2. QED
    BY <2>1 DEF PlaceInv, Checked, InRetry
<1>11. CASE RetryBulkFails
  <2>1. /\ delayed' = delayed \cup {retryTxs} /\ retryTxs' = {}
        /\ UNCHANGED <<writes, endCursor, check, queue, abandoned>>
    BY <1>11 DEF RetryBulkFails
  <2>2. InRetry' \subseteq InRetry
    BY <2>1 DEF InRetry
  <2>3. QED
    BY <2>1, <2>2 DEF PlaceInv, Checked
<1>12. CASE RetryDone
  <2>1. /\ check'["main"] = check["main"] /\ retryTxs' = {}
        /\ UNCHANGED <<writes, endCursor, delayed, queue, abandoned>>
    BY <1>12 DEF RetryDone, EndBatch, TypeOK, Pass
  <2>2. InRetry' \subseteq InRetry
    BY <2>1 DEF InRetry
  <2>3. QED
    BY <2>1, <2>2 DEF PlaceInv, Checked
<1>13. CASE UNCHANGED places
  BY <1>13 DEF places, PlaceInv, Checked, InRetry
<1>14. CASE LogThrows \/ StrayCheck
  <2>1. /\ UNCHANGED <<endCursor, delayed, queue, retryTxs>>
        /\ abandoned \subseteq abandoned'
        /\ \A w \in writes' : w \in writes \/ w.tx \in abandoned'
        /\ \A u \in Transactions : \/ check'["main"][u] = check["main"][u]
                                   \/ u \in abandoned' \/ check["main"][u] = "queued"
    BY <1>14, AsideSteps
  <2>2. \A w \in writes' : w.tx \in Sole' => w \in writes /\ w.tx \in Sole
    BY <2>1
  <2>3. \A w \in writes' : w.tx \in Sole' => Checked(w.tx)'
    BY <2>1, <2>2 DEF PlaceInv, Checked, Verdict
  <2>4. \A v, w \in writes' : v.tx = w.tx /\ v.tx \in Sole' => v = w
    BY <2>2 DEF PlaceInv
  <2>5. QED
    BY <2>1, <2>3, <2>4 DEF PlaceInv, InRetry
<1>15. QED
  BY <1>1, <1>2, <1>3, <1>4, <1>5, <1>6, <1>7, <1>8, <1>9, <1>10, <1>11, <1>12, <1>13, <1>14,
     OtherSteps

\* A step that saves nothing and leaves the records alone.
LEMMA SameVerdicts ==
    ASSUME record' = record, writes' = writes, abandoned \subseteq abandoned'
    PROVE  /\ \A t : (Pending(t)' <=> Pending(t)) /\ (Due(t)' <=> Due(t))
                     /\ (Doubtful(t)' <=> Doubtful(t))
           /\ WriteVerdicts => WriteVerdicts'
  BY DEF Pending, Due, Doubtful, WriteVerdicts

\* A saved check changes the prospects of its transaction only.
LEMMA SavedVerdict ==
    ASSUME TypeOK, PlaceInv, WriteVerdicts, NEW t \in Transactions, NEW v \in Verdict,
           record' = record, writes' = writes \cup {SaveTx(t, v)}, abandoned' = abandoned,
           \/ t \in abandoned
           \/ record[t] \in {NotChecked, v} \/ v = "unknown"
           \/ ShouldRetry(record[t]) /\ v # "sigUsed"
    PROVE  /\ \A u : u # t => (Due(u)' <=> Due(u)) /\ (Doubtful(u)' <=> Doubtful(u))
           /\ ShouldRetry(v) => Doubtful(t)'
           /\ WriteVerdicts'
<1>1. SaveTx(t, v).tx = t /\ SaveTx(t, v).verdict = v
  BY DEF SaveTx
<1>2. \A u : u # t => (Pending(u)' <=> Pending(u))
  BY <1>1 DEF Pending
<1>3. QED
  BY <1>1, <1>2 DEF Due, Doubtful, WriteVerdicts

\* A put of a saveTxDb changes the prospects of its transaction only, and a
\* transaction in doubt stays in doubt, if it is checked by one batch alone.
LEMMA PutVerdict ==
    ASSUME TypeOK, PlaceInv, WriteVerdicts, NEW w \in writes, WriteStep(w),
           abandoned' = abandoned
    PROVE  /\ \A t \in Transactions : t # w.tx => (Due(t)' <=> Due(t))
           /\ \A t \in Transactions : t # w.tx => record'[t] = record[t]
           /\ \A t \in Sole : Doubtful(t) => Doubtful(t)'
           /\ WriteVerdicts'
<1>1. /\ w \in Write /\ w.tx \in Transactions
      /\ w.tx \in Sole => \A u \in writes : u.tx = w.tx => u = w
  BY DEF TypeOK, Write, PlaceInv
<1>2. CASE PutSignature(w)
  <2> DEFINE n == [w EXCEPT !.next = "record"]
  <2>1. n.tx = w.tx /\ n.verdict = w.verdict
    BY <1>1 DEF Write
  <2>2. record' = record /\ writes' = (writes \ {w}) \cup {n}
    BY <1>2 DEF PutSignature
  <2> HIDE DEF n
  <2>3. \A t : Pending(t)' <=> Pending(t)
    BY <2>1, <2>2 DEF Pending
  <2>4. QED
    BY <2>1, <2>2, <2>3 DEF Due, Doubtful, WriteVerdicts
<1>3. CASE PutRecord(w)
  <2>1. writes' = writes \ {w} /\ record' = [record EXCEPT ![w.tx] = w.verdict]
    BY <1>3 DEF PutRecord
  <2>2. record'[w.tx] = w.verdict /\ \A t \in Transactions : t # w.tx => record'[t] = record[t]
    BY <1>1, <2>1 DEF TypeOK
  <2>3. /\ w.tx \in Sole => ~Pending(w.tx)'
        /\ \A t : t # w.tx => (Pending(t)' <=> Pending(t))
    BY <1>1, <2>1 DEF Pending
  <2>4. w.tx \in Sole /\ Doubtful(w.tx) => ShouldRetry(w.verdict)
    BY <1>1 DEF Doubtful, Pending
  <2>5. \A t \in Sole : Doubtful(t) => Doubtful(t)'
    BY <2>1, <2>2, <2>3, <2>4 DEF Doubtful, Sole
  <2>6. WriteVerdicts'
    <3>1. \A u \in writes' : /\ u \in writes /\ u.tx \in Transactions
                             /\ u.tx \in abandoned \/ u.tx # w.tx
      BY <1>1, <2>1 DEF TypeOK, Write, Sole
    <3>2. QED
      BY <2>2, <3>1 DEF WriteVerdicts
  <2>7. QED
    BY <2>2, <2>3, <2>5, <2>6 DEF Due
<1>4. QED
  BY <1>2, <1>3 DEF WriteStep

LEMMA VerdictInvStep ==
    ASSUME TypeOK, WatcherInv, StrayInv, PlaceInv, VerdictInv, ~StreamMayThrow, [Next]_vars
    PROVE  VerdictInv'
<1> USE DEF store, bundlr, passes, watcher, retry, history, VerdictInv, Sole
<1>0. \A v \in Verdict : v \notin {"absent", "queued", "cache", "signature", "checking"}
  BY DEF Verdict
<1>a. ASSUME NEW p \in Pass, check' = [check EXCEPT ![p] = NoBatch]
      PROVE  /\ \A t \in Transactions : check'[p][t] = "absent"
             /\ \A q \in Pass : q # p => check'[q] = check[q]
  BY <1>a DEF TypeOK, NoBatch
<1>1. CASE Crash
  <2>1. /\ writes' = {} /\ delayed' = {} /\ queue' = <<>> /\ retryTxs' = {}
        /\ \A p \in Pass : \A t \in Transactions : check'[p][t] = "absent"
    BY <1>1 DEF Crash, NoBatch
  <2>2. QED
    BY <1>0, <2>1 DEF MainVerdicts, RetryVerdicts, WriteVerdicts, Pass
<1>2. ASSUME NEW resync \in ResyncModes, Boot(resync) PROVE VerdictInv'
  <2>1. /\ record' = record /\ writes' = writes
        /\ UNCHANGED <<check, delayed, queue, retryTxs, abandoned>>
    BY <1>2 DEF Boot
  <2>2. QED
    BY <2>1, SameVerdicts DEF MainVerdicts, RetryVerdicts
<1>3. CASE BulkLoaded
  <2>1. record' = record /\ writes' = writes /\ UNCHANGED <<delayed, queue, retryTxs, abandoned>>
    BY <1>3 DEF BulkLoaded
  <2>2. /\ \A t \in Transactions : check'["main"][t] \in {"absent", "queued"}
        /\ check'["retry"] = check["retry"]
    BY <1>3 DEF BulkLoaded, StartBatch, TypeOK, Pass
  <2>3. MainVerdicts'
    BY <1>0, <2>2 DEF MainVerdicts
  <2>4. QED
    BY <2>1, <2>2, <2>3, SameVerdicts DEF RetryVerdicts
<1>4. CASE MainCheck
  <2>1. PICK t \in Transactions : t \in Batch /\ "main" \in Pass /\ BatchTypeOK /\ Goes("main", t)
    BY <1>4, MainCheckEffect
  <2>2. check["main"][t] \notin Verdict
    BY <2>1, CheckStepEffect DEF Running, Verdict
  <2>3. /\ QuietEffect("main", t)
        /\ \A u \in Transactions : u # t => check'["main"][u] = check["main"][u]
        /\ \A u \in Transactions : check'["retry"][u] = check["retry"][u]
    BY <2>1, QuietCheckStep, CheckStepEffect DEF Pass
  <2>4. UNCHANGED <<record, delayed, queue, retryTxs, abandoned>>
    BY <1>4, MainCheckEffect DEF MainCheck
  <2>5. /\ t \notin retryTxs
        /\ \A b \in delayed : t \notin b
        /\ \A i \in 1 .. Len(queue) : t \notin queue[i]
    BY <2>1, Apart
  <2>6. retryTxs \subseteq Transactions
    BY DEF TypeOK
  <2>7. ASSUME writes' = writes,
               check'["main"][t] \in Running,
               check'["main"][t] \in {"signature", "checking"} =>
                  check["main"][t] = "signature" \/ record[t] = NotChecked
        PROVE  VerdictInv'
    <3>1. MainVerdicts'
      BY <1>0, <2>3, <2>4, <2>7, SameVerdicts DEF MainVerdicts, Running
    <3>2. RetryVerdicts'
      BY <2>3, <2>4, <2>6, <2>7, SameVerdicts DEF RetryVerdicts
    <3>3. QED
      BY <2>4, <2>7, <3>1, <3>2, SameVerdicts
  <2>8. ASSUME NEW v \in Verdict, writes' = writes \cup {SaveTx(t, v)}, check'["main"][t] = v,
               \/ v = "unknown"
               \/ v = record[t]
               \/ check["main"][t] \in {"signature", "checking"}
        PROVE  VerdictInv'
    <3>1. t \in abandoned \/ record[t] \in {NotChecked, v} \/ v = "unknown"
      BY <2>8 DEF MainVerdicts
    <3>2. /\ \A u : u # t => (Due(u)' <=> Due(u)) /\ (Doubtful(u)' <=> Doubtful(u))
          /\ ShouldRetry(v) => Doubtful(t)'
          /\ WriteVerdicts'
      BY <2>4, <2>8, <3>1, SavedVerdict
    <3>3. MainVerdicts'
      BY <1>0, <2>3, <2>4, <2>8, <3>2 DEF MainVerdicts
    <3>4. RetryVerdicts'
      BY <2>3, <2>4, <2>5, <2>6, <3>2 DEF RetryVerdicts
    <3>5. QED
      BY <3>2, <3>3, <3>4
  <2>9. QED
    BY <2>3, <2>7, <2>8 DEF QuietEffect
<1>5. CASE RetryCheck
  <2>1. PICK t \in retryTxs :
           t \in Transactions /\ "retry" \in Pass /\ BatchTypeOK /\ Goes("retry", t)
    BY <1>5, RetryCheckEffect
  <2>2. /\ check["retry"][t] \notin Verdict /\ t <= endCursor
        /\ t \in Sole => Due(t)
    BY <2>1, Apart, CheckStepEffect DEF Running, Verdict, RetryVerdicts, Due
  <2>3. /\ QuietEffect("retry", t)
        /\ \A u \in Transactions : u # t => check'["retry"][u] = check["retry"][u]
        /\ \A u \in Transactions : check'["main"][u] = check["main"][u]
        /\ check["retry"][t] \notin {"cache", "signature"}
    BY <2>1, QuietCheckStep, CheckStepEffect DEF Pass, RetryVerdicts
  <2>4. UNCHANGED <<record, delayed, queue, retryTxs, abandoned>>
    BY <1>5, RetryCheckEffect DEF RetryCheck
  <2>5. /\ check["main"][t] \notin Verdict
        /\ \A b \in delayed : t \notin b
        /\ \A i \in 1 .. Len(queue) : t \notin queue[i]
    <3>1. check["main"][t] \in Verdict => t \in Members("main")
      BY <2>1 DEF Members, Verdict
    <3>2. QED
      BY <2>1, <2>2, <3>1, Apart DEF PlaceInv
  <2>6. retryTxs \subseteq Transactions
    BY DEF TypeOK
  <2>7. ASSUME writes' = writes, check'["retry"][t] = "checking" PROVE VerdictInv'
    <3>1. MainVerdicts'
      BY <2>3, <2>4, <2>7, SameVerdicts DEF MainVerdicts
    <3>2. RetryVerdicts'
      BY <2>2, <2>3, <2>4, <2>6, <2>7, SameVerdicts DEF RetryVerdicts
    <3>3. QED
      BY <2>4, <2>7, <3>1, <3>2, SameVerdicts
  <2>8. ASSUME NEW v \in Verdict, writes' = writes \cup {SaveTx(t, v)}, check'["retry"][t] = v,
               v \in {"ok", "rejected", "nodeError", "unknown"}
        PROVE  VerdictInv'
    <3>1. t \in abandoned \/ (ShouldRetry(record[t]) /\ v # "sigUsed")
      BY <2>1, <2>2, <2>8 DEF Due
    <3>2. /\ \A u : u # t => (Due(u)' <=> Due(u)) /\ (Doubtful(u)' <=> Doubtful(u))
          /\ WriteVerdicts'
      <4>1. /\ WriteVerdicts /\ t \in Transactions /\ record' = record
            /\ abandoned' = abandoned /\ writes' = writes \cup {SaveTx(t, v)}
        BY <2>1, <2>4, <2>8
      <4>2. QED
        BY <3>1, <4>1, SavedVerdict
    <3>3. MainVerdicts'
      BY <2>3, <2>4, <2>5, <3>2 DEF MainVerdicts
    <3>4. RetryVerdicts'
      BY <1>0, <2>3, <2>4, <2>5, <2>6, <2>8, <3>2 DEF RetryVerdicts
    <3>5. QED
      BY <3>2, <3>3, <3>4
  <2>9. QED
    BY <2>3, <2>7, <2>8 DEF QuietEffect
<1>6. CASE ProcessTransactions
  <2>1. /\ record' = record /\ writes' = writes /\ UNCHANGED <<queue, retryTxs, abandoned>>
        /\ \A b \in delayed' : b \in delayed \/ b = ToRetry("main")
    BY <1>6 DEF ProcessTransactions
  <2>2. /\ \A t \in Transactions : check'["main"][t] = "absent"
        /\ check'["retry"] = check["retry"]
    <3>1. check' = [check EXCEPT !["main"] = NoBatch]
      BY <1>6 DEF ProcessTransactions, EndBatch
    <3>2. QED
      BY <1>a, <3>1, PassesDiffer
  <2>3. \A t \in ToRetry("main") \cap Sole : Doubtful(t)
    BY <1>6 DEF ProcessTransactions, ToRetry, BatchDone, Members, MainVerdicts
  <2>4. MainVerdicts'
    BY <1>0, <2>2 DEF MainVerdicts
  <2>5. RetryVerdicts'
    BY <2>1, <2>2, <2>3, SameVerdicts DEF RetryVerdicts
  <2>6. QED
    BY <2>1, <2>4, <2>5, SameVerdicts
<1>7. CASE SaveTxWrites
  <2>1. PICK w \in writes : WriteStep(w)
    BY <1>7 DEF SaveTxWrites
  <2>2. UNCHANGED <<check, delayed, queue, retryTxs, abandoned>>
    BY <1>7 DEF SaveTxWrites, WriteStep
  <2>3. /\ w.tx \in Transactions /\ Pending(w.tx) /\ ~Due(w.tx)
    BY DEF TypeOK, Write, Pending, Due
  <2>4. w.tx \in Sole => check["main"][w.tx] \notin {"signature", "checking"}
    <3>1. check["main"][w.tx] \in {"signature", "checking"} => w.tx \in Members("main")
      BY <2>3 DEF Members
    <3>2. QED
      BY <2>3, <3>1, <1>0, Apart
  <2>5. MainVerdicts'
    BY <2>1, <2>2, <2>4, PutVerdict DEF MainVerdicts
  <2>6. RetryVerdicts'
    <3>1. /\ \A b \in delayed : \A t \in b : t \in Transactions
          /\ \A i \in 1 .. Len(queue) : \A t \in queue[i] : t \in Transactions
          /\ \A t \in retryTxs : t \in Transactions
      BY Apart
    <3>2. /\ \A t \in Transactions : Due(t) => Due(t)'
          /\ \A t \in Sole : Doubtful(t) => Doubtful(t)'
      BY <2>1, <2>2, <2>3, PutVerdict
    <3>3. QED
      BY <2>2, <3>1, <3>2 DEF RetryVerdicts
  <2>7. QED
    BY <2>1, <2>2, <2>5, <2>6, PutVerdict
<1>8. CASE RetryDelayOver
  <2>1. PICK b \in delayed : /\ \A t \in b : ~Pending(t)
                             /\ delayed' = delayed \ {b} /\ queue' = Append(queue, b)
    BY <1>8 DEF RetryDelayOver
  <2>2. record' = record /\ writes' = writes /\ UNCHANGED <<check, retryTxs, abandoned>>
    BY <1>8 DEF RetryDelayOver
  <2>3. queue \in Seq(SUBSET Transactions) /\ b \in SUBSET Transactions
    BY DEF TypeOK
  <2>4. \A i \in 1 .. Len(queue') : (i \in 1 .. Len(queue) /\ queue'[i] = queue[i]) \/ queue'[i] = b
    BY <2>1, <2>3
  <2>5. \A t \in b \cap Sole : Due(t)
    BY <2>1 DEF RetryVerdicts, Doubtful, Due, Pending
  <2>6. RetryVerdicts'
    BY <2>1, <2>2, <2>4, <2>5, SameVerdicts DEF RetryVerdicts
  <2>7. QED
    BY <2>2, <2>6, SameVerdicts DEF MainVerdicts
<1>9. CASE RetryDequeue
  <2>1. /\ queue # <<>> /\ retryTxs' = Head(queue) /\ queue' = Tail(queue)
        /\ record' = record /\ writes' = writes /\ UNCHANGED <<check, delayed, abandoned>>
    BY <1>9 DEF RetryDequeue
  <2>2. queue \in Seq(SUBSET Transactions)
    BY DEF TypeOK
  <2>3. /\ 1 \in 1 .. Len(queue) /\ retryTxs' = queue[1]
        /\ \A i \in 1 .. Len(queue') : queue'[i] = queue[i + 1] /\ i + 1 \in 1 .. Len(queue)
    BY <2>1, <2>2
  <2>4. RetryVerdicts'
    BY <2>1, <2>3, SameVerdicts DEF RetryVerdicts
  <2>5. QED
    BY <2>1, <2>4, SameVerdicts DEF MainVerdicts
<1>10. CASE RetryBulkLoaded
  <2>1. record' = record /\ writes' = writes /\ UNCHANGED <<delayed, queue, retryTxs, abandoned>>
    BY <1>10 DEF RetryBulkLoaded
  <2>2. /\ \A t \in Transactions : check'["retry"][t] \in {"absent", "queued"}
        /\ check'["main"] = check["main"]
    BY <1>10 DEF RetryBulkLoaded, StartBatch, TypeOK, Pass
  <2>3. \A t \in retryTxs \cap Sole : Due(t)
    <3>1. Members("retry") = {}
      BY <1>10 DEF RetryBulkLoaded, WatcherInv
    <3>2. \A t \in retryTxs : check["retry"][t] \notin Verdict
      BY <1>0, <3>1, Apart DEF Members
    <3>3. QED
      BY <3>2 DEF RetryVerdicts
  <2>4. RetryVerdicts'
    BY <2>1, <2>2, <2>3, SameVerdicts DEF RetryVerdicts
  <2>5. QED
    BY <2>1, <2>2, <2>4, SameVerdicts DEF MainVerdicts
<1>11. CASE RetryBulkFails
  <2>1. /\ delayed' = delayed \cup {retryTxs} /\ retryTxs' = {}
        /\ record' = record /\ writes' = writes /\ UNCHANGED <<check, queue, abandoned>>
    BY <1>11 DEF RetryBulkFails
  <2>2. \A t \in retryTxs \cap Sole : Doubtful(t)
    <3>1. Members("retry") = {}
      BY <1>11 DEF RetryBulkFails, WatcherInv
    <3>2. \A t \in retryTxs : check["retry"][t] \notin Verdict
      BY <1>0, <3>1, Apart DEF Members
    <3>3. QED
      BY <3>2 DEF RetryVerdicts, Due, Doubtful
  <2>3. RetryVerdicts'
    BY <2>1, <2>2, SameVerdicts DEF RetryVerdicts
  <2>4. QED
    BY <2>1, <2>3, SameVerdicts DEF MainVerdicts
<1>12. CASE RetryDone
  <2>1. /\ retryTxs' = {} /\ record' = record /\ writes' = writes
        /\ UNCHANGED <<delayed, queue, abandoned>>
    BY <1>12 DEF RetryDone
  <2>2. /\ \A t \in Transactions : check'["retry"][t] = "absent"
        /\ check'["main"] = check["main"]
    <3>1. check' = [check EXCEPT !["retry"] = NoBatch]
      BY <1>12 DEF RetryDone, EndBatch
    <3>2. QED
      BY <1>a, <3>1, PassesDiffer
  <2>3. RetryVerdicts'
    BY <2>1, <2>2, SameVerdicts DEF RetryVerdicts
  <2>4. QED
    BY <2>1, <2>2, <2>3, SameVerdicts DEF MainVerdicts
<1>13. CASE UNCHANGED places
  BY <1>13, SameVerdicts DEF places, MainVerdicts, RetryVerdicts
<1>14. CASE LogThrows \/ StrayCheck
  <2>1. /\ UNCHANGED <<record, delayed, queue, retryTxs>>
        /\ abandoned \subseteq abandoned' /\ writes \subseteq writes'
        /\ \A w \in writes' : w \in writes \/ w.tx \in abandoned'
        /\ \A u \in Transactions :
              /\ check'["retry"][u] = check["retry"][u]
              /\ check'["main"][u] \in {check["main"][u], "absent"}
    BY <1>14, AsideSteps
  <2>2. \A t \in Sole' : /\ t \in Sole /\ (Due(t)' <=> Due(t))
                         /\ Doubtful(t) => Doubtful(t)'
    BY <2>1 DEF Due, Doubtful, Pending
  <2>3. MainVerdicts'
    BY <1>0, <2>1, <2>2 DEF MainVerdicts
  <2>4. RetryVerdicts'
    BY <2>1, <2>2 DEF RetryVerdicts
  <2>5. WriteVerdicts'
    BY <2>1 DEF WriteVerdicts
  <2>6. QED
    BY <2>3, <2>4, <2>5
<1>15. QED
  BY <1>1, <1>2, <1>3, <1>4, <1>5, <1>6, <1>7, <1>8, <1>9, <1>10, <1>11, <1>12, <1>13, <1>14,
     OtherSteps

\* The third part of the inductive invariant.
LogInv == WatcherInv /\ StrayInv /\ PlaceInv /\ VerdictInv

LEMMA LogInvariant ==
    ASSUME ~StreamMayThrow
    PROVE  Spec => []LogInv
<1>1. Init => LogInv
  <2> SUFFICES ASSUME Init PROVE LogInv
    OBVIOUS
  <2>1. PlaceInv
    BY InitInvariants DEF PlaceInv
  <2>2. VerdictInv
    BY InitInvariants, PassesDiffer DEF VerdictInv, MainVerdicts, RetryVerdicts, WriteVerdicts,
       Verdict, Sole
  <2>3. QED
    BY <2>1, <2>2, InitInvariants DEF LogInv
<1>2. TypeOK /\ LogInv /\ [Next]_vars => LogInv'
  BY WatcherInvStep, StrayInvStep, PlaceInvStep, VerdictInvStep DEF LogInv
<1>3. QED
  BY TypeCorrect, <1>1, <1>2, PTL DEF Spec

\* Only the second put of saveTxDb changes a record.
LEMMA RecordChange ==
    ASSUME TypeOK, [Next]_vars
    PROVE  \/ record' = record
           \/ /\ abandoned' = abandoned
              /\ \E w \in writes : record' = [record EXCEPT ![w.tx] = w.verdict]
<1> USE DEF store, bundlr, passes, watcher, retry, history
<1>1. CASE MainCheck \/ RetryCheck \/ LogThrows \/ StrayCheck
  BY <1>1, MainCheckEffect, RetryCheckEffect, LogThrowsEffect, StrayEffect
<1>2. CASE SaveTxWrites
  BY <1>2 DEF SaveTxWrites, WriteStep, PutSignature, PutRecord
<1>3. CASE \E resync \in ResyncModes : Boot(resync)
  BY <1>3 DEF Boot
<1>4. QED
  BY <1>1, <1>2, <1>3 DEF Next, vars, Submit, Crash, FetchPage, FetchNothing, FetchFails,
     BulkLoaded, BulkFails, ProcessTransactions, SaveCursorOrCount, SaveFails, SaveProgress,
     RetryDelayOver, RetryDequeue, RetryBulkLoaded, RetryBulkFails, RetryDone

\* Checks are abandoned by a batch that throws, and forgotten when the process stops.
LEMMA AbandonedChange ==
    ASSUME TypeOK, [Next]_vars
    PROVE  \/ abandoned' = abandoned
           \/ abandoned' = {}
           \/ abandoned \subseteq abandoned' /\ abandoned' \subseteq Transactions
<1> USE DEF store, bundlr, passes, watcher, retry, history
<1>1. CASE LogThrows
  BY <1>1 DEF LogThrows, Begun, TypeOK
<1>2. CASE \E resync \in ResyncModes : Boot(resync)
  BY <1>2 DEF Boot
<1>3. QED
  BY <1>1, <1>2 DEF Next, vars, Submit, Crash, FetchPage, FetchNothing, FetchFails,
     BulkLoaded, BulkFails, MainCheck, StrayCheck, ProcessTransactions, SaveCursorOrCount,
     SaveFails, SaveTxWrites, RetryDelayOver, RetryDequeue, RetryBulkLoaded, RetryBulkFails,
     RetryCheck, RetryDone

\* The verdicts a node keeps in its database, across crashes, retries, batches that
\* throw while they are checked and saves in any order, are those of the verdict log.
THEOREM LogRefinement ==
    ASSUME ~StreamMayThrow
    PROVE  Spec => ImplementsVerdictLog
<1>1. Init => Log!Init
  BY DEF Init, BatchInit, StoreInit, NotChecked, Log!Init
<1>2. TypeOK /\ [Next]_vars /\ record' = record => [Log!Next]_<<record, abandoned>>
  BY AbandonedChange DEF Log!Next, Log!GiveUp, Log!Stop
<1>3. TypeOK /\ LogInv /\ [Next]_vars /\ record' # record => Log!Next
  <2> SUFFICES ASSUME TypeOK, LogInv, [Next]_vars, record' # record PROVE Log!Next
    OBVIOUS
  <2>1. PICK w \in writes : /\ record' = [record EXCEPT ![w.tx] = w.verdict]
                           /\ abandoned' = abandoned
    BY RecordChange
  <2>2. w.tx \in Transactions /\ w.verdict \in Verdict /\ "unknown" \in Verdict \ {"sigUsed"}
    BY DEF TypeOK, Write, Verdict
  <2>3. Log!Become(w.tx, w.verdict)
    BY <2>1 DEF Log!Become
  <2>4. record[w.tx] # w.verdict
    BY <2>1, <2>2 DEF TypeOK
  <2>5. record[w.tx] = "none" \/ record[w.tx] \in Verdict
    BY <2>2 DEF TypeOK, NotChecked
  <2>6. CASE record[w.tx] = "none"
    BY <2>2, <2>3, <2>6 DEF Log!Next, Log!Decide, Log!Verdict, Verdict
  <2>7. CASE ShouldRetry(record[w.tx]) /\ w.verdict # "sigUsed"
    BY <2>2, <2>3, <2>7 DEF Log!Next, Log!Reconsider, Log!Verdict, Verdict,
       Log!ShouldRetry, ShouldRetry
  <2>8. CASE w.verdict = "unknown" /\ (Settled(record[w.tx]) \/ record[w.tx] = "sigUsed")
    BY <2>2, <2>3, <2>8 DEF Log!Next, Log!Doubt, Log!Settled, Settled
  <2>9. CASE w.tx \in abandoned
    BY <2>2, <2>3, <2>9 DEF Log!Next, Log!Overrule, Log!Verdict, Verdict
  <2>10. \/ w.tx \in abandoned
         \/ record[w.tx] \in {NotChecked, w.verdict}
         \/ w.verdict = "unknown"
         \/ ShouldRetry(record[w.tx]) /\ w.verdict # "sigUsed"
    BY DEF LogInv, VerdictInv, WriteVerdicts
  <2>11. record[w.tx] \in Verdict =>
            ShouldRetry(record[w.tx]) \/ Settled(record[w.tx]) \/ record[w.tx] = "sigUsed"
    BY DEF Verdict, ShouldRetry, Settled
  <2>12. QED
    BY <2>4, <2>5, <2>6, <2>7, <2>8, <2>9, <2>10, <2>11 DEF NotChecked
<1>4. TypeOK /\ LogInv /\ [Next]_vars => [Log!Next]_<<record, abandoned>>
  BY <1>2, <1>3
<1>5. QED
  BY TypeCorrect, LogInvariant, <1>1, <1>4, PTL DEF Spec, ImplementsVerdictLog, Log!Spec

-------------------------------------------------------------------------------
(* The cursor that is saved, and the signature test *)

\* What keeps the two cursors in order: none of them is ahead of what Bundlr
\* lists, and the saved one not ahead of the one the watcher holds.
CursorOrder ==
    /\ savedCursor <= submitted /\ endCursor <= submitted /\ page.next <= submitted
    /\ pc # "down" => savedCursor <= endCursor

\* Whatever fails or stops, and whichever way the node is started again, the
\* cursor in the database never goes back (verifier.watcher.ts:199-207 and
\* :253-256): no resync goes over a transaction an earlier save left behind.
CursorNeverGoesBack == [][savedCursor' >= savedCursor]_vars

LEMMA CursorOrderStep ==
    ASSUME TypeOK, WatcherInv, CursorOrder, [Next]_vars
    PROVE  CursorOrder' /\ savedCursor' >= savedCursor
<1> USE NumberAssumption DEF store, bundlr, passes, watcher, retry, history
<1>1. CASE Submit
  BY <1>1 DEF Submit, CursorOrder, TypeOK
<1>2. ASSUME NEW resync \in ResyncModes, Boot(resync)
      PROVE  CursorOrder' /\ savedCursor' >= savedCursor
  BY <1>2 DEF Boot, CursorOrder, TypeOK
<1>3. CASE Crash
  BY <1>3 DEF Crash, CursorOrder, TypeOK
<1>4. CASE FetchPage
  BY <1>4 DEF FetchPage, CursorOrder, TypeOK
<1>5. CASE FetchNothing \/ FetchFails \/ BulkFails
  BY <1>5 DEF FetchNothing, FetchFails, BulkFails, Restart, CursorOrder, TypeOK
<1>6. CASE BulkLoaded
  BY <1>6 DEF BulkLoaded, CursorOrder, TypeOK
<1>7. CASE MainCheck
  <2>1. UNCHANGED <<savedCursor, submitted, pc, endCursor, page>>
    BY <1>7, MainCheckEffect DEF MainCheck
  <2>2. QED
    BY <2>1 DEF CursorOrder, TypeOK
<1>8. CASE ProcessTransactions
  BY <1>8 DEF ProcessTransactions, WatcherInv, CursorOrder, TypeOK
<1>9. CASE SaveCursorOrCount
  BY <1>9 DEF SaveCursorOrCount, SaveProgress, Restart, CursorOrder, TypeOK
<1>10. CASE SaveFails
  BY <1>10 DEF SaveFails, SaveProgress, Restart, CursorOrder, TypeOK
<1>11. CASE SaveTxWrites
  BY <1>11 DEF SaveTxWrites, WriteStep, PutSignature, PutRecord, CursorOrder, TypeOK
<1>12. CASE RetryCheck
  <2>1. UNCHANGED <<savedCursor, submitted, pc, endCursor, page>>
    BY <1>12, RetryCheckEffect DEF RetryCheck
  <2>2. QED
    BY <2>1 DEF CursorOrder, TypeOK
<1>13. CASE RetryDelayOver \/ RetryDequeue \/ RetryBulkLoaded \/ RetryBulkFails \/ RetryDone
  BY <1>13 DEF RetryDelayOver, RetryDequeue, RetryBulkLoaded, RetryBulkFails, RetryDone,
     CursorOrder, TypeOK
<1>14. CASE UNCHANGED vars
  BY <1>14 DEF vars, CursorOrder, TypeOK
<1>15. CASE LogThrows
  <2>1. UNCHANGED <<savedCursor, submitted, endCursor>> /\ pc = "check" /\ page'.next = endCursor
    BY <1>15, LogThrowsEffect DEF LogThrows, Restart
  <2>2. QED
    BY <2>1 DEF CursorOrder, TypeOK
<1>16. CASE StrayCheck
  <2>1. UNCHANGED <<savedCursor, submitted, pc, endCursor, page>>
    BY <1>16, StrayEffect DEF StrayCheck
  <2>2. QED
    BY <2>1 DEF CursorOrder, TypeOK
<1>17. QED
  BY <1>1, <1>2, <1>3, <1>4, <1>5, <1>6, <1>7, <1>8, <1>9, <1>10, <1>11, <1>12,
     <1>13, <1>14, <1>15, <1>16 DEF Next

\* The saved cursor only moves forward.
THEOREM CursorMonotone == Spec => CursorNeverGoesBack
<1>1. Init => WatcherInv /\ CursorOrder
  BY InitInvariants DEF Init, BatchInit, StoreInit, CursorOrder
<1>2. TypeOK /\ WatcherInv /\ CursorOrder /\ [Next]_vars
        => WatcherInv' /\ CursorOrder' /\ savedCursor' >= savedCursor
  BY WatcherInvStep, CursorOrderStep
<1>3. QED
  BY TypeCorrect, <1>1, <1>2, PTL DEF Spec, CursorNeverGoesBack

\* A publication passes the signature test of its check only while no record
\* holds a publication with that signature (da-proof-checker.ts:98-107).  Two
\* publications with one signature are therefore accepted only when one passed
\* the test before the record of the other was written, or was checked by a
\* retry, which makes no such test.
SignatureTestIsSound ==
    [][\A p \in Pass : \A t, u \in Transactions :
          /\ check[p][t] = "signature" /\ check'[p][t] = "checking"
          /\ Signature[u] = Signature[t] /\ record[u] # NotChecked
          => ~HasPublication(record[u])]_vars

LEMMA SignatureTestStep ==
    ASSUME TypeOK, StrayInv, RecordImpliesSignature, [Next]_vars,
           NEW p \in Pass, NEW t \in Transactions,
           check[p][t] = "signature", check'[p][t] = "checking"
    PROVE  ~HasSignatureBeenUsedBefore(t)
<1> USE DEF store, bundlr, passes, watcher, retry, history
<1>0. BatchTypeOK
  BY DEF TypeOK, BatchTypeOK
<1>a. ASSUME NEW q \in Pass, NEW u \in Transactions, NEW v \in Verdict, EndCheck(q, u, v)
      PROVE  FALSE
  <2>1. ASSUME NEW s \in Verdict \cup {"absent"}, Move(q, u, s) PROVE FALSE
    BY <2>1, <1>0 DEF Move, BatchTypeOK, Verdict
  <2>2. ASSUME NEW g \in Strays \ threw, Abandon(u, g) PROVE FALSE
    <3>1. check'[p] = check[p] \/ p = "main" \/ p = g
      BY <2>2, PassesDiffer, <1>0 DEF Abandon, BatchTypeOK
    <3>2. check'["main"][t] = "absent"
      BY <2>2, PassesDiffer, <1>0 DEF Abandon, NoBatch, BatchTypeOK
    <3>3. p = g => check[p][t] = "absent"
      BY DEF StrayInv, Members
    <3>4. QED
      BY <3>1, <3>2, <3>3
  <2>3. QED
    BY <1>a, <2>1, <2>2 DEF EndCheck
<1>b. ASSUME NEW q \in Pass, NEW u \in Transactions, CheckStep(q, u)
      PROVE  ~HasSignatureBeenUsedBefore(t)
  <2>1. \A v \in Verdict : ~Report(q, u, v)
    BY <1>a DEF Report, Verdict
  <2>2. PICK s \in Running : Move(q, u, s)
    BY <1>0, <1>a, <1>b, CheckStepShape
  <2>3. q = p /\ u = t
    BY <1>0, <2>2 DEF Move, BatchTypeOK
  <2>4. CASE ReadSignature(p, t)
    BY <2>1, <2>3, <2>4 DEF ReadSignature, Verdict
  <2>5. CASE StartCheck(p, t) \/ ReadCache(p, t) \/ FinishCheck(p, t)
    BY <2>5 DEF StartCheck, ReadCache, FinishCheck
  <2>6. CASE TimeOut(p, t)
    BY <1>a, <2>6 DEF TimeOut, Verdict
  <2>7. QED
    BY <1>b, <2>3, <2>4, <2>5, <2>6 DEF CheckStep
<1>1. CASE MainCheck \/ RetryCheck \/ LogThrows \/ StrayCheck
  <2>1. PICK q \in Pass, u \in Transactions : CheckStep(q, u)
    <3>1. Batch \subseteq Transactions /\ retryTxs \subseteq Transactions
      BY NumberAssumption DEF Batch, TypeOK
    <3>2. QED
      BY <1>1, <3>1, PassesDiffer DEF MainCheck, RetryCheck, LogThrows, StrayCheck
  <2>2. QED
    BY <1>b, <2>1
<1>2. CASE check' = check
  BY <1>2
<1>3. CASE Crash
  BY <1>3 DEF Crash, NoBatch
<1>4. CASE BulkLoaded \/ RetryBulkLoaded
  <2>1. PICK q \in Pass, txs \in SUBSET Transactions : StartBatch(q, txs)
    <3>1. Batch \subseteq Transactions /\ retryTxs \subseteq Transactions
      BY NumberAssumption DEF Batch, TypeOK
    <3>2. QED
      BY <1>4, <3>1 DEF BulkLoaded, RetryBulkLoaded, Pass
  <2>2. check'[p] = check[p] \/ check'[p][t] \in {"queued", "absent"}
    BY <2>1 DEF StartBatch, TypeOK
  <2>3. QED
    BY <2>2
<1>5. CASE ProcessTransactions \/ RetryDone
  <2>1. PICK q \in Pass : EndBatch(q)
    BY <1>5 DEF ProcessTransactions, RetryDone, Pass
  <2>2. check'[p] = check[p] \/ check'[p][t] = "absent"
    BY <2>1 DEF EndBatch, NoBatch, TypeOK
  <2>3. QED
    BY <2>2
<1>6. CASE SaveTxWrites
  BY <1>6 DEF SaveTxWrites, WriteStep
<1>7. CASE \E resync \in ResyncModes : Boot(resync)
  BY <1>7 DEF Boot
<1>8. CASE \/ Submit \/ FetchPage \/ FetchNothing \/ FetchFails \/ BulkFails
           \/ RetryDelayOver \/ RetryDequeue \/ RetryBulkFails \/ UNCHANGED vars
  BY <1>2, <1>8 DEF Submit, FetchPage, FetchNothing, FetchFails, BulkFails,
     RetryDelayOver, RetryDequeue, RetryBulkFails, vars
<1>9. CASE SaveCursorOrCount \/ SaveFails
  BY <1>2, <1>9 DEF SaveCursorOrCount, SaveFails
<1>10. QED
  BY <1>1, <1>3, <1>4, <1>5, <1>6, <1>7, <1>8, <1>9 DEF Next

\* The signature test never lets a recorded signature pass, even when a crash
\* came between the two puts of saveTxDb.
THEOREM SignatureTestSound == Spec => SignatureTestIsSound
<1>1. TypeOK /\ StrayInv /\ RecordImpliesSignature /\ [Next]_vars =>
         \A p \in Pass : \A t, u \in Transactions :
          /\ check[p][t] = "signature" /\ check'[p][t] = "checking"
          /\ Signature[u] = Signature[t] /\ record[u] # NotChecked
          => ~HasPublication(record[u])
  BY SignatureTestStep DEF RecordImpliesSignature, HasSignatureBeenUsedBefore
<1>2. QED
  BY TypeCorrect, StraysSafe, SignatureSafe, <1>1, PTL DEF Spec, SignatureTestIsSound

===============================================================================
