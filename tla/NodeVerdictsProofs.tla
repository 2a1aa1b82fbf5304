-------------------------- MODULE NodeVerdictsProofs --------------------------
(***************************************************************************)
(* Proofs about the verdicts of VerifierNode that hold of any stream       *)
(* callback, throwing ones included: what is processed has a record unless *)
(* the process stopped, what failed of the network is retried, and nothing *)
(* is rejected for its own signature.                                      *)
(***************************************************************************)
EXTENDS VerifierNodeProofs

-------------------------------------------------------------------------------
(* The steps *)

\* What a step of a check saves, and why; a callback that throws adds UNKNOWN.
Effect(p, t) ==
    \/ /\ writes' = writes /\ check'[p][t] \in Running
       /\ check'[p][t] \in {"signature", "checking"} =>
             \/ p = "retry"
             \/ check[p][t] = "signature"
             \/ check[p][t] = "cache" /\ record[t] = NotChecked
       /\ p = "retry" => check'[p][t] = "checking" \/ check[p][t] \in {"cache", "signature"}
    \/ \E v \in Verdict :
       /\ \/ writes' = writes \cup {SaveTx(t, v)} /\ check'[p][t] = v
          \/ writes' = writes \cup {SaveTx(t, v), SaveTx(t, "unknown")}
             /\ check'[p][t] = "unknown"
       /\ \/ v = "unknown"
          \/ v = record[t] /\ check[p][t] = "cache"
          \/ v = "sigUsed" /\ check[p][t] = "signature" /\ HasSignatureBeenUsedBefore(t)
          \/ v \in {"ok", "rejected", "nodeError"} /\ check[p][t] = "checking"

LEMMA CheckStepReason ==
    ASSUME BatchTypeOK, NEW p \in Pass, NEW t \in Transactions, Goes(p, t)
    PROVE  Effect(p, t)
  <1> USE DEF BatchTypeOK, Move, Stage, Effect, Goes
  <1>0. "unknown" \in Verdict /\ "sigUsed" \in Verdict /\ "ok" \in Verdict
        /\ "rejected" \in Verdict /\ "nodeError" \in Verdict
    BY DEF Verdict
  <1>1. ASSUME NEW v \in Verdict, Report(p, t, v)
        PROVE  \/ writes' = writes \cup {SaveTx(t, v)} /\ check'[p][t] = v
               \/ writes' = writes \cup {SaveTx(t, v), SaveTx(t, "unknown")}
                  /\ check'[p][t] = "unknown"
    <2>1. \A r \in Verdict : EndCheck(p, t, r) => check'[p][t] = r
      BY EndCheckGoes
    <2> QED
      BY <1>0, <1>1, <2>1 DEF Report
  <1>2. CASE StartCheck(p, t)
    BY <1>2 DEF StartCheck, Running, Pass
  <1>3. CASE ReadCache(p, t)
    <2>1. CASE record[t] = NotChecked
      BY <1>3, <2>1 DEF ReadCache, Running
    <2>2. CASE record[t] # NotChecked
      <3>1. record[t] \in Verdict /\ Report(p, t, record[t]) /\ check[p][t] = "cache"
        BY <1>3, <2>2 DEF ReadCache
      <3> QED
        BY <1>1, <3>1
    <2> QED
      BY <2>1, <2>2
  <1>4. CASE ReadSignature(p, t)
    <2>1. CASE HasSignatureBeenUsedBefore(t)
      BY <1>0, <1>1, <1>4, <2>1 DEF ReadSignature
    <2>2. CASE ~HasSignatureBeenUsedBefore(t)
      BY <1>4, <2>2 DEF ReadSignature, Running
    <2> QED
      BY <2>1, <2>2
  <1>5. CASE FinishCheck(p, t)
    <2>1. PICK v \in {"ok", "rejected", "nodeError"} : Report(p, t, v)
      BY <1>5 DEF FinishCheck
    <2>2. v \in Verdict /\ check[p][t] = "checking"
      BY <1>0, <1>5 DEF FinishCheck
    <2> QED
      BY <1>1, <2>1, <2>2
  <1>6. CASE TimeOut(p, t)
    <2>1. Move(p, t, "unknown")
      BY <1>0, <1>6, EndCheckGoes DEF TimeOut
    <2> QED
      BY <1>0, <1>6, <2>1 DEF TimeOut
  <1> QED
    BY <1>2, <1>3, <1>4, <1>5, <1>6 DEF CheckStep

\* Whose fate a step changes.
LEMMA FateStep ==
    ASSUME TypeOK, WatcherInv, StrayInv, [Next]_vars,
           NEW t \in Transactions, fate'[t] # fate[t]
    PROVE  \/ MainCheck /\ t \in Batch /\ fate'[t] = "processed" /\ check'["main"][t] \in Verdict
           \/ BulkLoaded /\ t \in Batch /\ fate'[t] = "dropped"
           \/ RetryBulkLoaded /\ t \in retryTxs /\ fate'[t] = "givenUp"
           \/ fate[t] = "waiting" /\ fate'[t] = "skipped"
           \/ /\ LogThrows \/ StrayCheck
              /\ t \in abandoned' /\ fate'[t] = "processed" /\ \E w \in writes' : w.tx = t
  <1> USE DEF store, bundlr, passes, watcher, retry, history
  <1>1. CASE MainCheck
    <2>1. PICK u \in Batch : IF check'["main"][u] \in Verdict THEN Mark({u}, "processed")
                                                              ELSE UNCHANGED fate
      BY <1>1 DEF MainCheck
    <2> QED
      BY <1>1, <2>1 DEF Mark
  <1>2. CASE BulkLoaded
    <2>1. PICK lost \in Dropped(Batch) : Mark(lost, "dropped")
      BY <1>2 DEF BulkLoaded
    <2>2. lost \subseteq Batch
      BY DEF Dropped
    <2> QED
      BY <1>2, <2>1, <2>2 DEF Mark
  <1>3. CASE RetryBulkLoaded
    <2>1. PICK lost \in Dropped(retryTxs) : Mark(lost, "givenUp")
      BY <1>3 DEF RetryBulkLoaded
    <2>2. lost \subseteq retryTxs
      BY DEF Dropped
    <2> QED
      BY <1>3, <2>1, <2>2 DEF Mark
  <1>4. ASSUME NEW resync \in ResyncModes, Boot(resync)
        PROVE  fate[t] = "waiting" /\ fate'[t] = "skipped"
    BY <1>4 DEF Boot, Mark
  <1>5. CASE UNCHANGED fate
    BY <1>5
  <1>6. CASE LogThrows \/ StrayCheck
    BY <1>6, AsideSteps
  <1> QED
    BY <1>1, <1>2, <1>3, <1>4, <1>5, <1>6 DEF Next, vars, Submit, Crash, FetchPage, FetchNothing,
       FetchFails, BulkFails, ProcessTransactions, SaveCursorOrCount, SaveFails, SaveTxWrites,
       RetryDelayOver, RetryDequeue, RetryBulkFails, RetryCheck, RetryDone

\* What a step of one of the two loops' checks does to the store and the rest.
LEMMA CheckEffect ==
    ASSUME TypeOK, MainCheck \/ RetryCheck
    PROVE  \E p \in Pass, t \in Transactions :
              /\ BatchTypeOK /\ Effect(p, t) /\ UNCHANGED store
              /\ check[p][t] \in {"queued"} \cup Running
              /\ \A q \in Pass : \A u \in Transactions :
                    <<q, u>> # <<p, t>> => check'[q][u] = check[q][u]
              /\ \/ /\ MainCheck /\ p = "main" /\ t \in Batch
                    /\ IF check'["main"][t] \in Verdict THEN Mark({t}, "processed")
                                                        ELSE UNCHANGED fate
                 \/ RetryCheck /\ p = "retry" /\ t \in retryTxs /\ UNCHANGED fate
              /\ UNCHANGED <<bundlr, watcher, retry, bootCursor, retried, abandoned, crashes>>
  <1> USE DEF store, bundlr, passes, watcher, retry, history
  <1>1. CASE MainCheck
    <2>1. PICK t \in Transactions :
             /\ t \in Batch /\ "main" \in Pass
             /\ BatchTypeOK /\ Goes("main", t) /\ UNCHANGED store
             /\ IF check'["main"][t] \in Verdict THEN Mark({t}, "processed")
                                                 ELSE UNCHANGED fate
      BY <1>1, MainCheckEffect
    <2>2. Effect("main", t) /\ UNCHANGED store
      BY <2>1, CheckStepReason
    <2>3. /\ check["main"][t] \in {"queued"} \cup Running
          /\ \A q \in Pass : \A u \in Transactions :
                <<q, u>> # <<"main", t>> => check'[q][u] = check[q][u]
      BY <2>1, CheckStepEffect
    <2>4. UNCHANGED <<bundlr, watcher, retry, bootCursor, retried, abandoned, crashes>>
      BY <1>1 DEF MainCheck
    <2> QED
      BY <1>1, <2>1, <2>2, <2>3, <2>4
  <1>2. CASE RetryCheck
    <2>1. PICK t \in retryTxs :
              t \in Transactions /\ "retry" \in Pass /\ BatchTypeOK /\ Goes("retry", t)
              /\ UNCHANGED store
      BY <1>2, RetryCheckEffect
    <2>2. Effect("retry", t) /\ UNCHANGED store
      BY <2>1, CheckStepReason
    <2>3. /\ check["retry"][t] \in {"queued"} \cup Running
          /\ \A q \in Pass : \A u \in Transactions :
                <<q, u>> # <<"retry", t>> => check'[q][u] = check[q][u]
      BY <2>1, CheckStepEffect
    <2>4. UNCHANGED <<bundlr, watcher, retry, history>>
      BY <1>2 DEF RetryCheck
    <2> QED
      BY <1>2, <2>1, <2>2, <2>3, <2>4
  <1> QED
    BY <1>1, <1>2

\* What a step of one of the running calls of saveTxDb does.
LEMMA WriteEffect ==
    ASSUME TypeOK, SaveTxWrites
    PROVE  \E w \in writes :
              /\ w \in Write
              /\ UNCHANGED <<savedCursor, savedTotal, passes, bundlr, watcher, retry, history>>
              /\ \/ /\ writes' = (writes \ {w}) \cup {[w EXCEPT !.next = "record"]}
                    /\ [w EXCEPT !.next = "record"].tx = w.tx
                    /\ [w EXCEPT !.next = "record"].verdict = w.verdict
                    /\ usedSignatures' = usedSignatures \cup {Signature[w.tx]}
                    /\ record' = record
                 \/ /\ writes' = writes \ {w} /\ usedSignatures' = usedSignatures
                    /\ \A t \in Transactions :
                          record'[t] = IF t = w.tx THEN w.verdict ELSE record[t]
  <1> USE DEF store, bundlr, passes, watcher, retry, history
  <1>1. PICK w \in writes : WriteStep(w)
    BY DEF SaveTxWrites
  <1>2. w \in Write
    BY DEF TypeOK
  <1>3. UNCHANGED <<passes, bundlr, watcher, retry, history>>
    BY <1>1 DEF SaveTxWrites, WriteStep
  <1>4. /\ [w EXCEPT !.next = "record"].tx = w.tx
        /\ [w EXCEPT !.next = "record"].verdict = w.verdict
    BY <1>2 DEF Write
  <1>5. CASE PutSignature(w)
    BY <1>2, <1>3, <1>4, <1>5 DEF PutSignature
  <1>6. CASE PutRecord(w)
    <2>1. \A t \in Transactions : record'[t] = IF t = w.tx THEN w.verdict ELSE record[t]
      BY <1>2, <1>6 DEF PutRecord, TypeOK, Write
    <2> QED
      BY <1>2, <1>3, <1>6, <2>1 DEF PutRecord
  <1> QED
    BY <1>1, <1>5, <1>6 DEF WriteStep

\* What waits for its retry lies at or before the cursor.
Behind == \A t \in InRetry : t <= endCursor

LEMMA BehindStep ==
    ASSUME TypeOK, WatcherInv, StrayInv, Behind, [Next]_vars
    PROVE  Behind'
  <1> USE DEF store, bundlr, passes, watcher, retry, history
  <1>1. CASE Crash \/ \E resync \in ResyncModes : Boot(resync)
    <2>1. delayed' = {} /\ queue' = <<>> /\ retryTxs' = {}
      BY <1>1 DEF Crash, Boot, WatcherInv
    <2>2. InRetry' = {}
      BY <2>1 DEF InRetry
    <2> QED
      BY <2>2 DEF Behind
  <1>2. CASE ProcessTransactions
    <2>1. endCursor' = page.next /\ endCursor <= page.next /\ ~Crash
      BY <1>2 DEF ProcessTransactions, WatcherInv, Crash
    <2>2. InRetry' \subseteq InRetry \cup ToRetry("main")
      BY <2>1, InRetryStep
    <2>3. \A t \in ToRetry("main") : t <= page.next
      BY DEF ToRetry, Members, WatcherInv, Batch
    <2>4. \A t \in InRetry : t \in Nat /\ t <= page.next
      BY <2>1, NumberAssumption DEF InRetry, TypeOK, Behind
    <2> QED
      BY <2>1, <2>2, <2>3, <2>4 DEF Behind
  <1>3. CASE LogThrows \/ StrayCheck
    <2>1. endCursor' = endCursor /\ UNCHANGED retry
      BY <1>3, AsideSteps
    <2>2. InRetry' = InRetry
      BY <2>1 DEF InRetry
    <2> QED
      BY <2>1, <2>2 DEF Behind
  <1>4. CASE endCursor' = endCursor /\ ~Crash /\ ~ProcessTransactions
    <2>1. InRetry' \subseteq InRetry
      BY <1>4, InRetryStep
    <2> QED
      BY <1>4, <2>1 DEF Behind
  <1> QED
    BY <1>1, <1>2, <1>3, <1>4 DEF Next, vars, Submit, Boot, FetchPage, FetchNothing,
       FetchFails, BulkLoaded, BulkFails, MainCheck, SaveCursorOrCount, SaveFails, SaveTxWrites,
       RetryDelayOver, RetryDequeue, RetryBulkLoaded, RetryBulkFails, RetryCheck, RetryDone,
       Crash, ProcessTransactions

LEMMA AlwaysBehind == Spec => []Behind
  <1>1. Init => Behind
    BY InitInvariants DEF Behind
  <1> QED
    BY TypeCorrect, StraysSafe, <1>1, BehindStep, PTL DEF Spec

-------------------------------------------------------------------------------
(* Verdicts are lost by crashes only *)

LEMMA LostVerdictsStep ==
    ASSUME TypeOK, WatcherInv, StrayInv, OnlyACrashLosesVerdicts, [Next]_vars
    PROVE  OnlyACrashLosesVerdicts'
  <1> USE DEF store, bundlr, passes, watcher, retry, history
  <1> SUFFICES ASSUME NEW t \in Transactions, fate'[t] = "processed", crashes' = 0
               PROVE  record'[t] # NotChecked \/ \E w \in writes' : w.tx = t
    BY DEF OnlyACrashLosesVerdicts, Pending
  <1>1. ~Crash
    BY DEF Crash, TypeOK
  <1>2. crashes = 0
    BY <1>1 DEF Next, vars, Submit, Boot, FetchPage, FetchNothing,
       FetchFails, BulkLoaded, BulkFails, MainCheck, LogThrows, StrayCheck, ProcessTransactions,
       SaveCursorOrCount, SaveFails, SaveTxWrites, RetryDelayOver, RetryDequeue, RetryBulkLoaded, RetryBulkFails,
       RetryCheck, RetryDone
  <1>3. CASE MainCheck \/ RetryCheck
    <2>1. PICK p \in Pass, u \in Transactions :
              /\ Effect(p, u) /\ UNCHANGED store
              /\ \/ /\ p = "main"
                    /\ IF check'["main"][u] \in Verdict THEN Mark({u}, "processed")
                                                        ELSE UNCHANGED fate
                 \/ p = "retry" /\ UNCHANGED fate
      BY <1>3, CheckEffect
    <2>2. writes \subseteq writes'
      BY <2>1 DEF Effect
    <2>3. CASE fate[t] = "processed"
      BY <1>2, <2>1, <2>2, <2>3 DEF OnlyACrashLosesVerdicts, Pending
    <2>4. CASE fate[t] # "processed"
      <3>1. p = "main" /\ t = u /\ check'["main"][u] \in Verdict
        BY <2>1, <2>4 DEF Mark
      <3>2. PICK v \in Verdict : SaveTx(u, v) \in writes'
        BY <2>1, <3>1 DEF Effect, Running, Verdict
      <3>3. SaveTx(u, v).tx = u
        BY DEF SaveTx
      <3> QED
        BY <3>1, <3>2, <3>3
    <2> QED
      BY <2>3, <2>4
  <1>4. fate[t] = "processed" \/ MainCheck \/ LogThrows \/ StrayCheck
    BY FateStep
  <1>5. CASE SaveTxWrites
    <2>1. PICK w \in writes :
              /\ w \in Write
              /\ \/ /\ writes' = (writes \ {w}) \cup {[w EXCEPT !.next = "record"]}
                    /\ [w EXCEPT !.next = "record"].tx = w.tx
                    /\ record' = record
                 \/ /\ writes' = writes \ {w}
                    /\ record'[t] = IF t = w.tx THEN w.verdict ELSE record[t]
      BY <1>5, WriteEffect
    <2>2. w.verdict # NotChecked
      BY <2>1 DEF Write, Verdict, NotChecked
    <2>3. fate[t] = "processed"
      BY <1>5 DEF SaveTxWrites
    <2> QED
      BY <1>2, <2>1, <2>2, <2>3 DEF OnlyACrashLosesVerdicts, Pending
  <1>6. CASE UNCHANGED <<record, writes>> /\ ~MainCheck /\ ~LogThrows /\ ~StrayCheck
    BY <1>2, <1>4, <1>6 DEF OnlyACrashLosesVerdicts, Pending
  <1>7. CASE LogThrows \/ StrayCheck
    <2>1. /\ record' = record /\ writes \subseteq writes'
          /\ fate'[t] = fate[t] \/ \E w \in writes' : w.tx = t
      BY <1>7, AsideSteps
    <2> QED
      BY <1>2, <2>1 DEF OnlyACrashLosesVerdicts, Pending
  <1> QED
    BY <1>1, <1>3, <1>5, <1>6, <1>7 DEF Next, vars, Submit, Boot, FetchPage, FetchNothing,
       FetchFails, BulkLoaded, BulkFails, ProcessTransactions, SaveCursorOrCount,
       SaveFails, SaveProgress, RetryDelayOver, RetryDequeue, RetryBulkLoaded, RetryBulkFails,
       RetryDone

\* Nothing waits for a call of saveTxDb, and yet, as long as the process did not
\* stop, every processed transaction has its record or a call about to put it.
THEOREM VerdictsKept == Spec => []OnlyACrashLosesVerdicts
  <1>1. Init => OnlyACrashLosesVerdicts
    BY DEF Init, OnlyACrashLosesVerdicts
  <1> QED
    BY TypeCorrect, StraysSafe, <1>1, LostVerdictsStep, PTL DEF Spec

-------------------------------------------------------------------------------
(* Nothing is rejected for its own signature *)

\* Transactions with a verdict, saved or about to be, and those with another one
\* of their signature among these.
Seen(t) == record[t] # NotChecked \/ Pending(t)
Other(t) == \E u \in Transactions \ {t} : Signature[u] = Signature[t] /\ Seen(u)

\* What holds until the process stops for the first time.
FirstRun ==
    /\ pc = "down" => endCursor = 0
    /\ \A t \in Sole : Seen(t) => Checked(t)
    /\ \A t \in Transactions : check["retry"][t] \notin {"cache", "signature"}
    /\ \A w \in writes : w.tx \in Sole /\ w.verdict = "sigUsed" => Other(w.tx)
    /\ \A t \in Sole : record[t] = "sigUsed" => Other(t)
    /\ \A s \in usedSignatures : \E u \in Transactions : Signature[u] = s /\ Seen(u)

CauseInv == crashes = 0 => FirstRun

\* Nothing but a crash raises the number of crashes.
LEMMA NoCrash ==
    ASSUME TypeOK, [Next]_vars, crashes' = 0
    PROVE  crashes = 0 /\ ~Crash
  <1> USE DEF store, bundlr, passes, watcher, retry, history
  <1>1. ~Crash
    BY DEF Crash, TypeOK
  <1> QED
    BY <1>1 DEF Next, vars, Submit, Boot, FetchPage, FetchNothing,
       FetchFails, BulkLoaded, BulkFails, MainCheck, LogThrows, StrayCheck, ProcessTransactions,
       SaveCursorOrCount, SaveFails, SaveTxWrites, RetryDelayOver, RetryDequeue, RetryBulkLoaded,
       RetryBulkFails, RetryCheck, RetryDone

\* A verdict is never taken back, by no step of a check and by no other one.
LEMMA SeenGrows ==
    ASSUME record' = record, writes \subseteq writes'
    PROVE  /\ \A t \in Transactions : Seen(t) => Seen(t)'
           /\ \A t \in Transactions : Other(t) => Other(t)'
  BY DEF Seen, Other, Pending

LEMMA SoleShrinks ==
    ASSUME abandoned \subseteq abandoned'
    PROVE  Sole' \subseteq Sole
  BY DEF Sole

\* The step of a check in the watcher's batch or in the retry.
LEMMA MainCause ==
    ASSUME TypeOK, WatcherInv, Behind, FirstRun, MainCheck \/ RetryCheck
    PROVE  FirstRun'
  <1> USE DEF store, bundlr, passes, watcher, retry, history
  <1>1. PICK p \in Pass, u \in Transactions :
              /\ Effect(p, u) /\ UNCHANGED store
              /\ check[p][u] \in {"queued"} \cup Running
              /\ \A q \in Pass : \A x \in Transactions :
                    <<q, x>> # <<p, u>> => check'[q][x] = check[q][x]
              /\ \/ MainCheck /\ p = "main" /\ u \in Batch
                 \/ RetryCheck /\ p = "retry" /\ u \in retryTxs
              /\ UNCHANGED <<bundlr, watcher, retry, bootCursor, retried, abandoned, crashes>>
    BY CheckEffect
  <1>2. \A v \in Verdict : SaveTx(u, v).tx = u /\ SaveTx(u, v).verdict = v
    BY DEF SaveTx
  <1>3. /\ \A t \in Transactions : Seen(t) => Seen(t)'
        /\ \A t \in Transactions : Other(t) => Other(t)'
    BY <1>1, SeenGrows DEF Effect
  <1>4. check[p][u] \notin Verdict /\ "unknown" \in Verdict /\ Sole' = Sole
    BY <1>1 DEF Running, Verdict, Sole
  <1>5. \A t \in Sole' : Seen(t)' => Checked(t)'
    <2>1. SUFFICES ASSUME NEW t \in Sole, Seen(t)' PROVE Checked(t)'
      BY <1>4
    <2>2. CASE Seen(t)
      <3>1. Checked(t)
        BY <2>2 DEF FirstRun
      <3> QED
        BY <1>1, <1>4, <3>1, PassesDiffer DEF Checked, Sole
    <2>3. CASE ~Seen(t)
      <3>1. t = u /\ writes' # writes
        BY <1>1, <1>2, <1>4, <2>1, <2>3 DEF Effect, Seen, Pending
      <3>2. CASE p = "main"
        BY <1>1, <3>1, <3>2 DEF Effect, Checked, Verdict
      <3>3. CASE p = "retry"
        BY <1>1, <3>1, <3>3, PassesDiffer DEF Checked, Behind, InRetry
      <3> QED
        BY <1>1, <3>2, <3>3
    <2> QED
      BY <2>2, <2>3
  <1>6. \A t \in Transactions : check'["retry"][t] \notin {"cache", "signature"}
    BY <1>1, PassesDiffer DEF Effect, FirstRun, Verdict
  <1>7. \A w \in writes' : w.tx \in Sole' /\ w.verdict = "sigUsed" => Other(w.tx)'
    <2>1. \A w \in writes : w.tx \in Sole' /\ w.verdict = "sigUsed" => Other(w.tx)'
      BY <1>3, <1>4 DEF FirstRun, TypeOK, Write
    <2>2. ASSUME NEW v \in Verdict, v = "sigUsed", u \in Sole,
                 \/ v = record[u] /\ check[p][u] = "cache"
                 \/ v = "sigUsed" /\ check[p][u] = "signature" /\ HasSignatureBeenUsedBefore(u)
          PROVE  Other(u)'
      <3>1. p = "main"
        BY <1>1, <2>2 DEF FirstRun
      <3>2. CASE v = record[u]
        BY <1>3, <2>2, <3>2 DEF FirstRun
      <3>3. CASE HasSignatureBeenUsedBefore(u)
        <4>1. PICK x \in Transactions : Signature[x] = Signature[u] /\ Seen(x)
          BY <3>3 DEF HasSignatureBeenUsedBefore, FirstRun
        <4>2. ~(u <= endCursor)
          BY <1>1, <3>1, PassesDiffer, NumberAssumption DEF Batch, TypeOK
        <4>3. ~Seen(u)
          BY <1>4, <2>2, <3>1, <4>2 DEF FirstRun, Checked
        <4>4. Other(u)
          BY <4>1, <4>3 DEF Other
        <4> QED
          BY <1>3, <4>4
      <3> QED
        BY <2>2, <3>2, <3>3
    <2>3. CASE writes' = writes
      BY <2>1, <2>3
    <2>4. ASSUME NEW v \in Verdict,
                 \/ writes' = writes \cup {SaveTx(u, v)}
                 \/ writes' = writes \cup {SaveTx(u, v), SaveTx(u, "unknown")},
                 \/ v = "unknown"
                 \/ v = record[u] /\ check[p][u] = "cache"
                 \/ v = "sigUsed" /\ check[p][u] = "signature" /\ HasSignatureBeenUsedBefore(u)
                 \/ v \in {"ok", "rejected", "nodeError"}
          PROVE  \A w \in writes' : w.tx \in Sole' /\ w.verdict = "sigUsed" => Other(w.tx)'
      <3>1. v = "sigUsed" /\ u \in Sole => Other(u)'
        BY <2>2, <2>4
      <3>2. \A w \in writes' : w \in writes \/ (w.tx = u /\ w.verdict \in {v, "unknown"})
        BY <1>2, <1>4, <2>4
      <3> QED
        BY <1>4, <2>1, <3>1, <3>2
    <2> QED
      BY <1>1, <2>3, <2>4 DEF Effect
  <1>8. \A t \in Sole' : record'[t] = "sigUsed" => Other(t)'
    BY <1>1, <1>3, <1>4 DEF FirstRun, Sole
  <1>9. \A s \in usedSignatures' : \E x \in Transactions : Signature[x] = s /\ Seen(x)'
    BY <1>1, <1>3 DEF FirstRun
  <1>10. pc' = "down" => endCursor' = 0
    BY <1>1 DEF FirstRun
  <1> QED
    BY <1>5, <1>6, <1>7, <1>8, <1>9, <1>10 DEF FirstRun, Seen, Other, Pending, Checked

LEMMA WriteCause ==
    ASSUME TypeOK, WatcherInv, FirstRun, SaveTxWrites
    PROVE  FirstRun'
  <1> USE DEF store, bundlr, passes, watcher, retry, history
  <1>1. PICK w \in writes :
              /\ w \in Write
              /\ UNCHANGED <<savedCursor, savedTotal, passes, bundlr, watcher, retry, history>>
              /\ \/ /\ writes' = (writes \ {w}) \cup {[w EXCEPT !.next = "record"]}
                    /\ [w EXCEPT !.next = "record"].tx = w.tx
                    /\ [w EXCEPT !.next = "record"].verdict = w.verdict
                    /\ usedSignatures' = usedSignatures \cup {Signature[w.tx]}
                    /\ record' = record
                 \/ /\ writes' = writes \ {w} /\ usedSignatures' = usedSignatures
                    /\ \A t \in Transactions :
                          record'[t] = IF t = w.tx THEN w.verdict ELSE record[t]
    BY WriteEffect
  <1>2. /\ w.tx \in Transactions /\ Seen(w.tx) /\ w.verdict # NotChecked
        /\ w.tx \in Sole /\ w.verdict = "sigUsed" => Other(w.tx)
    BY <1>1 DEF Write, FirstRun, Seen, Pending, Verdict, NotChecked
  <1>3. \A t \in Transactions : Seen(t)' <=> Seen(t)
    <2>1. \A v \in writes' : \E x \in writes : v.tx = x.tx
      BY <1>1
    <2>2. \A x \in writes : x = w \/ x \in writes'
      BY <1>1
    <2>3. \A t \in Transactions : Seen(t)' => Seen(t)
      BY <1>1, <1>2, <2>1 DEF Seen, Pending
    <2>4. \A t \in Transactions : Seen(t) => Seen(t)'
      BY <1>1, <1>2, <2>2 DEF Seen, Pending
    <2> QED
      BY <2>3, <2>4
  <1>4. (\A t \in Transactions : Other(t)' <=> Other(t)) /\ Sole' = Sole
    BY <1>1, <1>3 DEF Other, Sole
  <1>5. \A v \in writes' : v.tx \in Sole' /\ v.verdict = "sigUsed" => Other(v.tx)'
    <2>1. \A v \in writes' : \E x \in writes : v.tx = x.tx /\ v.verdict = x.verdict
      BY <1>1
    <2>2. \A x \in writes : /\ x.tx \in Transactions
                            /\ x.tx \in Sole /\ x.verdict = "sigUsed" => Other(x.tx)
      BY DEF FirstRun, TypeOK, Write
    <2> QED
      BY <1>4, <2>1, <2>2
  <1>6. \A t \in Sole' : record'[t] = "sigUsed" => Other(t)'
    BY <1>1, <1>2, <1>4 DEF FirstRun, Sole
  <1>7. \A s \in usedSignatures' : \E u \in Transactions : Signature[u] = s /\ Seen(u)'
    <2>1. \A s \in usedSignatures' : s \in usedSignatures \/ s = Signature[w.tx]
      BY <1>1
    <2> QED
      BY <1>2, <1>3, <2>1 DEF FirstRun
  <1>8. /\ pc' = "down" => endCursor' = 0
        /\ \A t \in Sole' : Seen(t)' => Checked(t)'
        /\ \A t \in Transactions : check'["retry"][t] \notin {"cache", "signature"}
    BY <1>1, <1>3, <1>4 DEF FirstRun, Checked, Sole
  <1> QED
    BY <1>5, <1>6, <1>7, <1>8 DEF FirstRun, Seen, Other, Pending, Checked

\* The parts of FirstRun about the store, at a step that adds no save of a
\* transaction checked by one batch alone.
LEMMA StoreCause ==
    ASSUME TypeOK, FirstRun, abandoned \subseteq abandoned',
           UNCHANGED <<record, usedSignatures>>, writes \subseteq writes',
           \A w \in writes' : w \in writes \/ w.tx \in abandoned'
    PROVE  /\ \A w \in writes' : w.tx \in Sole' /\ w.verdict = "sigUsed" => Other(w.tx)'
           /\ \A t \in Sole' : record'[t] = "sigUsed" => Other(t)'
           /\ \A s \in usedSignatures' : \E u \in Transactions : Signature[u] = s /\ Seen(u)'
           /\ \A t \in Sole' : Seen(t)' => t \in Sole /\ Checked(t)
  <1>1. /\ \A t \in Transactions : Seen(t) => Seen(t)'
        /\ \A t \in Transactions : Other(t) => Other(t)'
    BY SeenGrows
  <1>2. Sole' \subseteq Sole /\ Sole \subseteq Transactions
    BY SoleShrinks DEF Sole
  <1>3. \A w \in writes' : w.tx \in Sole' => w \in writes /\ w.tx \in Transactions
    BY <1>2 DEF Sole
  <1>4. \A t \in Sole' : Seen(t)' => Seen(t)
    BY <1>3 DEF Seen, Pending
  <1> QED
    BY <1>1, <1>2, <1>3, <1>4 DEF FirstRun

\* What the steps that end or begin something do to the rest of FirstRun.
LEMMA LoopCause ==
    ASSUME TypeOK, WatcherInv, StrayInv, FirstRun, [Next]_vars, ~Crash,
           ~MainCheck, ~RetryCheck, ~SaveTxWrites
    PROVE  /\ UNCHANGED <<record, usedSignatures>> /\ abandoned \subseteq abandoned'
           /\ writes \subseteq writes' /\ \A w \in writes' : w \in writes \/ w.tx \in abandoned'
           /\ pc' = "down" => endCursor' = 0
           /\ \A t \in Sole' : Checked(t) => Checked(t)'
           /\ \A t \in Transactions : check'["retry"][t] \notin {"cache", "signature"}
  <1> USE DEF store, bundlr, passes, watcher, retry, history
  <1>1. CASE LogThrows \/ StrayCheck
    <2>1. /\ UNCHANGED <<record, usedSignatures, endCursor>> /\ abandoned \subseteq abandoned'
          /\ writes \subseteq writes' /\ \A w \in writes' : w \in writes \/ w.tx \in abandoned'
          /\ pc' # "down"
          /\ \A t \in Transactions : check'["retry"][t] = check["retry"][t]
      BY <1>1, AsideSteps
    <2>2. \A t \in Sole' : check["main"][t] \in Verdict => check'["main"][t] = check["main"][t]
      BY <1>1, AsideSteps DEF Sole, Verdict
    <2> QED
      BY <2>1, <2>2 DEF FirstRun, Checked
  <1>2. CASE ~LogThrows /\ ~StrayCheck
    <2>1. UNCHANGED <<record, usedSignatures, writes, abandoned>>
      BY <1>2 DEF Next, vars, Submit, Boot, FetchPage, FetchNothing,
         FetchFails, BulkLoaded, BulkFails, ProcessTransactions, SaveCursorOrCount,
         SaveFails, SaveProgress, RetryDelayOver, RetryDequeue, RetryBulkLoaded, RetryBulkFails,
         RetryDone
    <2>2. \A t \in Sole' : t \in Transactions /\ t \in Nat
      BY NumberAssumption DEF Sole
    <2>3. CASE \E resync \in ResyncModes : Boot(resync)
      <3>1. pc = "down" /\ endCursor = 0 /\ pc' # "down" /\ check' = check
        BY <2>3 DEF Boot, FirstRun
      <3>2. \A t \in Transactions : ~(t <= endCursor)
        BY <3>1, NumberAssumption
      <3> QED
        BY <2>1, <2>2, <3>1, <3>2 DEF FirstRun, Checked
    <2>4. CASE BulkLoaded
      <3>1. PICK lost \in Dropped(Batch) : StartBatch("main", Batch \ lost)
        BY <2>4 DEF BulkLoaded
      <3>2. check'["retry"] = check["retry"]
        BY <3>1, PassesDiffer DEF StartBatch, TypeOK
      <3>3. \A t \in Transactions : check["main"][t] \notin Verdict
        BY <2>4 DEF BulkLoaded, WatcherInv, Members, Verdict
      <3>4. pc' = "check" /\ endCursor' = endCursor
        BY <2>4 DEF BulkLoaded
      <3> QED
        BY <2>1, <2>2, <3>2, <3>3, <3>4 DEF FirstRun, Checked
    <2>5. CASE ProcessTransactions
      <3>1. check'["retry"] = check["retry"]
        BY <2>5, PassesDiffer DEF ProcessTransactions, EndBatch, TypeOK
      <3>2. pc' = "save" /\ endCursor' = page.next /\ endCursor <= page.next
        BY <2>5 DEF ProcessTransactions, WatcherInv
      <3>3. \A t \in Transactions : check["main"][t] \in Verdict => t <= page.next
        <4>1. \A t \in Transactions : check["main"][t] \in Verdict => t \in Batch
          BY DEF WatcherInv, Members, Verdict
        <4> QED
          BY <4>1 DEF Batch
      <3>4. \A t \in Transactions : t <= endCursor => t <= page.next
        BY <3>2, NumberAssumption DEF TypeOK
      <3> QED
        BY <2>1, <2>2, <3>1, <3>2, <3>3, <3>4 DEF FirstRun, Checked
    <2>6. CASE RetryBulkLoaded
      <3>1. /\ \A t \in Transactions : check'["retry"][t] \in {"queued", "absent"}
            /\ check'["main"] = check["main"]
        BY <2>6, PassesDiffer DEF RetryBulkLoaded, StartBatch, TypeOK
      <3>2. UNCHANGED <<pc, endCursor>>
        BY <2>6 DEF RetryBulkLoaded
      <3> QED
        BY <2>1, <3>1, <3>2 DEF FirstRun, Checked
    <2>7. CASE RetryDone
      <3>1. /\ \A t \in Transactions : check'["retry"][t] = "absent"
            /\ check'["main"] = check["main"]
        BY <2>7, PassesDiffer DEF RetryDone, EndBatch, NoBatch, TypeOK
      <3>2. UNCHANGED <<pc, endCursor>>
        BY <2>7 DEF RetryDone
      <3> QED
        BY <2>1, <3>1, <3>2 DEF FirstRun, Checked
    <2>8. CASE UNCHANGED <<endCursor, check>> /\ (pc' = "down" => pc = "down")
      BY <2>1, <2>8 DEF FirstRun, Checked
    <2> QED
      BY <1>2, <2>3, <2>4, <2>5, <2>6, <2>7, <2>8 DEF Next, vars, Submit, FetchPage,
         FetchNothing, FetchFails, BulkFails, Restart, SaveCursorOrCount, SaveFails,
         RetryDelayOver, RetryDequeue, RetryBulkFails
  <1> QED
    BY <1>1, <1>2

LEMMA CauseInvStep ==
    ASSUME TypeOK, WatcherInv, StrayInv, Behind, CauseInv, [Next]_vars
    PROVE  CauseInv'
  <1> SUFFICES ASSUME crashes' = 0 PROVE FirstRun'
    BY DEF CauseInv
  <1>1. FirstRun /\ ~Crash
    BY NoCrash DEF CauseInv
  <1>2. CASE MainCheck \/ RetryCheck
    BY <1>1, <1>2, MainCause
  <1>3. CASE SaveTxWrites
    BY <1>1, <1>3, WriteCause
  <1>4. CASE ~(MainCheck \/ RetryCheck \/ SaveTxWrites)
    <2>1. /\ UNCHANGED <<record, usedSignatures>> /\ abandoned \subseteq abandoned'
          /\ writes \subseteq writes' /\ \A w \in writes' : w \in writes \/ w.tx \in abandoned'
          /\ pc' = "down" => endCursor' = 0
          /\ \A t \in Sole' : Checked(t) => Checked(t)'
          /\ \A t \in Transactions : check'["retry"][t] \notin {"cache", "signature"}
      BY <1>1, <1>4, LoopCause
    <2>2. /\ \A w \in writes' : w.tx \in Sole' /\ w.verdict = "sigUsed" => Other(w.tx)'
          /\ \A t \in Sole' : record'[t] = "sigUsed" => Other(t)'
          /\ \A s \in usedSignatures' : \E u \in Transactions : Signature[u] = s /\ Seen(u)'
          /\ \A t \in Sole' : Seen(t)' => t \in Sole /\ Checked(t)
      BY <1>1, <2>1, StoreCause
    <2> QED
      BY <2>1, <2>2 DEF FirstRun, Seen, Other, Pending, Checked
  <1> QED
    BY <1>2, <1>3, <1>4

\* Until the process stops for the first time, what one batch alone checked and
\* rejected for its chain signature shares it with another transaction that has a
\* verdict: a check never meets the signature its own verdict has put, a retry does
\* not look at all.
THEOREM RejectedForAnotherOnly == Spec => []RejectedForAnother
  <1>1. Init => CauseInv
    <2>1. SUFFICES ASSUME Init PROVE FirstRun
      BY DEF CauseInv
    <2>2. /\ writes = {} /\ usedSignatures = {} /\ record = [t \in Transactions |-> NotChecked]
          /\ pc = "down" /\ endCursor = 0
      BY <2>1 DEF Init, BatchInit, StoreInit
    <2>3. \A t \in Transactions : record[t] # "sigUsed" /\ ~Seen(t)
      BY <2>2 DEF Seen, Pending, NotChecked
    <2>4. \A t \in Transactions : check["retry"][t] = "absent"
      BY <2>1, InitInvariants, PassesDiffer
    <2> QED
      BY <2>2, <2>3, <2>4 DEF FirstRun, Sole
  <1>2. TypeOK /\ WatcherInv /\ StrayInv /\ Behind /\ CauseInv /\ [Next]_vars => CauseInv'
    BY CauseInvStep
  <1>3. CauseInv => RejectedForAnother
    BY DEF CauseInv, FirstRun, RejectedForAnother, Other, Seen, Sole
  <1> QED
    BY TypeCorrect, StraysSafe, AlwaysBehind, <1>1, <1>2, <1>3, PTL DEF Spec

-------------------------------------------------------------------------------
(* What failed of the network is retried *)

\* Neither the record of t nor a call about to put it says that t is retried.
Final(t) ==
    /\ ~ShouldRetry(record[t])
    /\ \A w \in writes : w.tx = t => ~ShouldRetry(w.verdict)

\* t had, or waits for, its second chance.
Given(t) == t \in InRetry \/ t \in retried

\* The two passes keep apart, and a check under way has no record yet.
PassInv ==
    /\ \A w \in writes : w.tx \in Sole => Checked(w.tx)
    /\ \A t \in Transactions : check["retry"][t] \notin {"cache", "signature"}
    /\ \A t \in Sole :
          check["main"][t] \in {"signature", "checking"} => record[t] = NotChecked

\* What is dropped is not processed.
LeftOutInv ==
    /\ pc = "check" =>
          \A t \in Batch \cap Sole : check["main"][t] = "absent" => fate[t] # "processed"
    /\ retryPc = "check" =>
          \A t \in retryTxs \cap Sole : check["retry"][t] = "absent" => fate[t] # "processed"

\* A verdict the watcher takes for final stays so until a retry.
SettledInv ==
    /\ \A t \in Sole :
          check["main"][t] \in Verdict /\ ~ShouldRetry(check["main"][t]) => Final(t)
    /\ pc # "down" => \A t \in Sole :
          bootCursor < t /\ t <= endCursor /\ fate[t] = "processed" /\ ~Given(t) => Final(t)

ChanceInv == Behind /\ PassInv /\ LeftOutInv /\ SettledInv

\* Where the transactions of the two passes lie.
LEMMA PassesApart ==
    ASSUME TypeOK, WatcherInv, Behind, PassInv
    PROVE  /\ \A t \in Batch : t \in Transactions /\ ~(t <= endCursor) /\ t <= page.next
           /\ \A t \in Transactions : check["main"][t] # "absent" => t \in Batch
           /\ \A t \in retryTxs : t \in InRetry /\ t \in Transactions /\ t <= endCursor
           /\ \A w \in writes : w.tx \in Transactions
           /\ \A t \in Batch \cap Sole : check["main"][t] \notin Verdict => ~Pending(t)
           /\ Sole \subseteq Transactions
  <1>1. \A t \in Batch : t \in Transactions /\ ~(t <= endCursor) /\ t <= page.next
    BY NumberAssumption DEF Batch, TypeOK
  <1>2. \A t \in Transactions : check["main"][t] # "absent" => t \in Batch
    BY DEF WatcherInv, Members
  <1>3. \A t \in retryTxs : t \in InRetry /\ t \in Transactions /\ t <= endCursor
    BY DEF InRetry, TypeOK, Behind
  <1>4. \A w \in writes : w.tx \in Transactions
    BY DEF TypeOK, Write
  <1> QED
    BY <1>1, <1>2, <1>3, <1>4 DEF PassInv, Pending, Checked, Sole

LEMMA CheckPasses ==
    ASSUME TypeOK, WatcherInv, Behind, PassInv, MainCheck \/ RetryCheck
    PROVE  PassInv'
  <1> USE DEF store, bundlr, passes, watcher, retry, history
  <1>1. PICK p \in Pass, u \in Transactions :
              /\ Effect(p, u) /\ UNCHANGED store
              /\ check[p][u] \in {"queued"} \cup Running
              /\ \A q \in Pass : \A x \in Transactions :
                    <<q, x>> # <<p, u>> => check'[q][x] = check[q][x]
              /\ \/ MainCheck /\ p = "main" /\ u \in Batch
                 \/ RetryCheck /\ p = "retry" /\ u \in retryTxs
              /\ UNCHANGED <<bundlr, watcher, retry, bootCursor, retried, abandoned, crashes>>
    BY CheckEffect
  <1>2. "main" \in Pass /\ "retry" \in Pass /\ "main" # "retry"
    BY DEF Pass
  <1>3. check[p][u] \notin Verdict
    BY <1>1 DEF Running, Verdict
  <1>4. \A w \in writes' : w.tx \in Sole' => Checked(w.tx)'
    <2>1. \A w \in writes : w.tx \in Sole' => Checked(w.tx)'
      BY <1>1, <1>2, <1>3, PassesApart DEF PassInv, Checked, Sole
    <2>2. writes' # writes => Checked(u)'
      <3>1. CASE p = "main"
        BY <1>1, <3>1 DEF Effect, Checked, Verdict
      <3>2. CASE p = "retry"
        BY <1>1, <1>2, <3>2, PassesApart DEF Checked
      <3> QED
        BY <1>1, <3>1, <3>2
    <2>3. \A w \in writes' : w \in writes \/ w.tx = u
      BY <1>1 DEF Effect, SaveTx
    <2> QED
      BY <2>1, <2>2, <2>3
  <1>5. \A t \in Transactions : check'["retry"][t] \notin {"cache", "signature"}
    BY <1>1, <1>2 DEF Effect, PassInv, Verdict
  <1>6. \A t \in Sole' :
            check'["main"][t] \in {"signature", "checking"} => record'[t] = NotChecked
    BY <1>1, <1>2 DEF Effect, PassInv, Verdict, Sole
  <1> QED
    BY <1>4, <1>5, <1>6 DEF PassInv, Checked

LEMMA WritePasses ==
    ASSUME TypeOK, WatcherInv, Behind, PassInv, SaveTxWrites
    PROVE  PassInv'
  <1> USE DEF store, bundlr, passes, watcher, retry, history
  <1>1. PICK w \in writes :
              /\ w \in Write
              /\ UNCHANGED <<savedCursor, savedTotal, passes, bundlr, watcher, retry, history>>
              /\ \/ /\ writes' = (writes \ {w}) \cup {[w EXCEPT !.next = "record"]}
                    /\ [w EXCEPT !.next = "record"].tx = w.tx
                    /\ record' = record
                 \/ /\ writes' = writes \ {w}
                    /\ \A t \in Transactions :
                          record'[t] = IF t = w.tx THEN w.verdict ELSE record[t]
    BY WriteEffect
  <1>2. \A v \in writes' : v.tx \in Sole' => Checked(v.tx)'
    <2>1. \A v \in writes' : \E x \in writes : v.tx = x.tx
      BY <1>1
    <2> QED
      BY <1>1, <2>1 DEF PassInv, Checked, Sole
  <1>3. w.tx \in Sole => check["main"][w.tx] \notin {"signature", "checking"}
    <2>1. w.tx \in Transactions /\ Pending(w.tx)
      BY <1>1 DEF Write, Pending
    <2> QED
      BY <2>1, PassesApart DEF Verdict
  <1> QED
    BY <1>1, <1>2, <1>3 DEF PassInv, Sole

LEMMA LoopPasses ==
    ASSUME TypeOK, WatcherInv, StrayInv, Behind, PassInv, [Next]_vars,
           ~MainCheck, ~RetryCheck, ~SaveTxWrites
    PROVE  PassInv'
  <1> USE DEF store, bundlr, passes, watcher, retry, history
  <1>0. "main" \in Pass /\ "retry" \in Pass /\ "main" # "retry"
    BY DEF Pass
  <1>1. CASE Crash
    <2>1. /\ writes' = {}
          /\ \A t \in Transactions : check'["main"][t] = "absent" /\ check'["retry"][t] = "absent"
      BY <1>0, <1>1 DEF Crash, NoBatch
    <2> QED
      BY <2>1 DEF PassInv, Sole
  <1>2. ASSUME NEW resync \in ResyncModes, Boot(resync) PROVE PassInv'
    <2>1. writes' = {} /\ check' = check /\ record' = record /\ Sole' = Sole
      BY <1>2 DEF Boot, WatcherInv, Sole
    <2> QED
      BY <2>1 DEF PassInv
  <1>3. CASE BulkLoaded
    <2>1. /\ \A t \in Transactions : check'["main"][t] \in {"queued", "absent"}
          /\ check'["retry"] = check["retry"]
      BY <1>0, <1>3 DEF BulkLoaded, StartBatch, TypeOK
    <2>2. \A t \in Transactions : check["main"][t] \notin Verdict
      BY <1>3 DEF BulkLoaded, WatcherInv, Members, Verdict
    <2>3. UNCHANGED <<writes, record, endCursor>> /\ Sole' = Sole
      BY <1>3 DEF BulkLoaded, Sole
    <2>4. \A w \in writes : w.tx \in Sole => w.tx <= endCursor
      BY <2>2, PassesApart DEF PassInv, Checked
    <2> QED
      BY <2>1, <2>3, <2>4, PassesApart DEF PassInv, Checked
  <1>4. CASE ProcessTransactions
    <2>1. /\ \A t \in Transactions : check'["main"][t] = "absent"
          /\ check'["retry"] = check["retry"]
      BY <1>0, <1>4 DEF ProcessTransactions, EndBatch, NoBatch, TypeOK
    <2>2. /\ endCursor' = page.next /\ endCursor <= page.next
          /\ UNCHANGED <<writes, record>> /\ Sole' = Sole
      BY <1>4 DEF ProcessTransactions, WatcherInv, Sole
    <2>3. \A t \in Transactions : t <= endCursor => t <= page.next
      BY <2>2, NumberAssumption DEF TypeOK
    <2>4. \A w \in writes : w.tx \in Sole => w.tx <= page.next
      BY <2>3, PassesApart DEF PassInv, Checked, Verdict
    <2> QED
      BY <2>1, <2>2, <2>4, PassesApart DEF PassInv, Checked
  <1>5. CASE RetryBulkLoaded
    <2>1. /\ \A t \in Transactions : check'["retry"][t] \in {"queued", "absent"}
          /\ check'["main"] = check["main"]
      BY <1>0, <1>5 DEF RetryBulkLoaded, StartBatch, TypeOK
    <2>2. UNCHANGED <<writes, record, endCursor>> /\ Sole' = Sole
      BY <1>5 DEF RetryBulkLoaded, Sole
    <2> QED
      BY <2>1, <2>2 DEF PassInv, Checked
  <1>6. CASE RetryDone
    <2>1. /\ \A t \in Transactions : check'["retry"][t] = "absent"
          /\ check'["main"] = check["main"]
      BY <1>0, <1>6 DEF RetryDone, EndBatch, NoBatch, TypeOK
    <2>2. UNCHANGED <<writes, record, endCursor>> /\ Sole' = Sole
      BY <1>6 DEF RetryDone, Sole
    <2> QED
      BY <2>1, <2>2 DEF PassInv, Checked
  <1>7. CASE LogThrows \/ StrayCheck
    <2>1. /\ UNCHANGED <<record, endCursor>>
          /\ Sole' \subseteq Sole
          /\ \A w \in writes' : w.tx \in Sole' => w \in writes
          /\ \A t \in Transactions : check'["retry"][t] = check["retry"][t]
      BY <1>7, AsideSteps, SoleShrinks DEF Sole
    <2>2. \A t \in Sole' : \/ check'["main"][t] = check["main"][t]
                           \/ check'["main"][t] = "absent" /\ check["main"][t] = "queued"
      BY <1>7, AsideSteps DEF Sole
    <2> QED
      BY <2>1, <2>2 DEF PassInv, Checked, Verdict
  <1>8. CASE UNCHANGED <<writes, record, endCursor, check, abandoned>>
    BY <1>8 DEF PassInv, Checked, Sole
  <1> QED
    BY <1>1, <1>2, <1>3, <1>4, <1>5, <1>6, <1>7, <1>8 DEF Next, vars, Submit, FetchPage,
       FetchNothing, FetchFails, BulkFails, SaveCursorOrCount, SaveFails, SaveProgress,
       RetryDelayOver, RetryDequeue, RetryBulkFails

LEMMA LeftOutStep ==
    ASSUME TypeOK, WatcherInv, StrayInv, Behind, PassInv, LeftOutInv, [Next]_vars
    PROVE  LeftOutInv'
  <1> USE DEF store, bundlr, passes, watcher, retry, history
  <1>0. "main" \in Pass /\ "retry" \in Pass /\ "main" # "retry"
    BY DEF Pass
  <1>1. CASE Crash \/ \E resync \in ResyncModes : Boot(resync)
    <2>1. pc' # "check" /\ retryPc' # "check"
      BY <1>1 DEF Crash, Boot, WatcherInv
    <2> QED
      BY <2>1 DEF LeftOutInv
  <1>2. CASE BulkLoaded
    <2>1. PICK lost \in Dropped(Batch) : StartBatch("main", Batch \ lost) /\ Mark(lost, "dropped")
      BY <1>2 DEF BulkLoaded
    <2>2. \A t \in Transactions : t \in Batch /\ check'["main"][t] = "absent" => t \in lost
      BY <1>0, <2>1 DEF StartBatch, TypeOK
    <2>3. /\ check'["retry"] = check["retry"] /\ Batch' = Batch /\ Sole' = Sole
          /\ UNCHANGED <<retryPc, retryTxs>>
      BY <1>0, <1>2, <2>1 DEF BulkLoaded, StartBatch, TypeOK, Batch, Sole
    <2>4. \A t \in Transactions : fate'[t] = IF t \in lost THEN "dropped" ELSE fate[t]
      BY <2>1 DEF Mark
    <2>5. \A t \in Batch' : check'["main"][t] = "absent" => fate'[t] # "processed"
      BY <2>2, <2>3, <2>4, PassesApart
    <2>6. retryPc' = "check" =>
             \A t \in retryTxs' \cap Sole' : check'["retry"][t] = "absent" => fate'[t] # "processed"
      BY <2>3, <2>4, PassesApart DEF LeftOutInv
    <2> QED
      BY <2>5, <2>6 DEF LeftOutInv
  <1>3. CASE RetryBulkLoaded
    <2>1. PICK lost \in Dropped(retryTxs) :
             StartBatch("retry", retryTxs \ lost) /\ Mark(lost, "givenUp")
      BY <1>3 DEF RetryBulkLoaded
    <2>2. \A t \in Transactions : t \in retryTxs /\ check'["retry"][t] = "absent" => t \in lost
      BY <1>0, <2>1 DEF StartBatch, TypeOK
    <2>3. /\ check'["main"] = check["main"] /\ Batch' = Batch /\ Sole' = Sole
          /\ UNCHANGED <<pc, retryTxs>>
      BY <1>0, <1>3, <2>1 DEF RetryBulkLoaded, StartBatch, TypeOK, Batch, Sole
    <2>4. \A t \in Transactions : fate'[t] = IF t \in lost THEN "givenUp" ELSE fate[t]
      BY <2>1 DEF Mark
    <2>5. \A t \in retryTxs' : check'["retry"][t] = "absent" => fate'[t] # "processed"
      BY <2>2, <2>3, <2>4, PassesApart
    <2>6. pc' = "check" =>
             \A t \in Batch' \cap Sole' : check'["main"][t] = "absent" => fate'[t] # "processed"
      BY <2>3, <2>4, PassesApart DEF LeftOutInv
    <2> QED
      BY <2>5, <2>6 DEF LeftOutInv
  <1>4. CASE MainCheck \/ RetryCheck
    <2>1. PICK p \in Pass, u \in Transactions :
              /\ Effect(p, u)
              /\ check[p][u] \in {"queued"} \cup Running
              /\ \A q \in Pass : \A x \in Transactions :
                    <<q, x>> # <<p, u>> => check'[q][x] = check[q][x]
              /\ \/ /\ p = "main" /\ u \in Batch
                    /\ IF check'["main"][u] \in Verdict THEN Mark({u}, "processed")
                                                        ELSE UNCHANGED fate
                 \/ p = "retry" /\ UNCHANGED fate
              /\ UNCHANGED <<bundlr, watcher, retry, bootCursor, retried, abandoned, crashes>>
      BY <1>4, CheckEffect
    <2>2. check'[p][u] # "absent"
      BY <2>1 DEF Effect, Running, Verdict
    <2>3. Batch' = Batch /\ Sole' = Sole
      BY <2>1 DEF Batch, Sole
    <2>4. \A t \in Transactions : fate'[t] = fate[t] \/ (p = "main" /\ t = u)
      BY <2>1 DEF Mark
    <2>5. pc' = "check" =>
             \A t \in Batch' \cap Sole' : check'["main"][t] = "absent" => fate'[t] # "processed"
      BY <1>0, <2>1, <2>2, <2>3, <2>4, PassesApart DEF LeftOutInv
    <2>6. retryPc' = "check" =>
             \A t \in retryTxs' \cap Sole' : check'["retry"][t] = "absent" => fate'[t] # "processed"
      <3>1. SUFFICES ASSUME retryPc' = "check", NEW t \in retryTxs' \cap Sole',
                            check'["retry"][t] = "absent"
                     PROVE  fate'[t] # "processed"
        OBVIOUS
      <3>2. /\ t \in retryTxs \cap Sole /\ retryPc = "check"
            /\ t \in Transactions /\ t <= endCursor
        BY <2>1, <2>3, <3>1, PassesApart
      <3>3. ~(p = "main" /\ t = u)
        BY <2>1, <3>2, PassesApart
      <3>4. fate'[t] = fate[t] /\ check["retry"][t] = "absent"
        BY <1>0, <2>1, <2>2, <2>4, <3>1, <3>2, <3>3
      <3> QED
        BY <3>2, <3>4 DEF LeftOutInv
    <2> QED
      BY <2>5, <2>6 DEF LeftOutInv
  <1>5. CASE ProcessTransactions
    <2>1. /\ check'["retry"] = check["retry"] /\ pc' = "save"
          /\ UNCHANGED <<retryPc, retryTxs, fate>> /\ Sole' = Sole
      BY <1>0, <1>5 DEF ProcessTransactions, EndBatch, TypeOK, Sole
    <2> QED
      BY <2>1 DEF LeftOutInv
  <1>6. CASE RetryDone
    <2>1. /\ check'["main"] = check["main"] /\ retryPc' = "idle"
          /\ UNCHANGED <<pc, endCursor, page, fate>> /\ Sole' = Sole
      BY <1>0, <1>6 DEF RetryDone, EndBatch, TypeOK, Sole
    <2> QED
      BY <2>1 DEF LeftOutInv, Batch
  <1>7. CASE /\ UNCHANGED <<check, fate, abandoned>>
             /\ pc' = "check" => UNCHANGED <<pc, endCursor, page>>
             /\ retryPc' = "check" => UNCHANGED <<retryPc, retryTxs>>
    BY <1>7 DEF LeftOutInv, Batch, Sole
  <1>8. CASE LogThrows \/ StrayCheck
    <2>1. /\ UNCHANGED <<endCursor, retryPc, retryTxs>> /\ Sole' \subseteq Sole
          /\ \A t \in Sole' : fate'[t] = fate[t]
          /\ \A t \in Transactions : check'["retry"][t] = check["retry"][t]
          /\ pc' = "check" => UNCHANGED <<pc, page>>
      BY <1>8, AsideSteps, SoleShrinks DEF Sole
    <2>2. pc' = "check" => \A t \in Sole' : check'["main"][t] = check["main"][t]
      BY <1>8, AsideSteps DEF Sole
    <2>3. pc' = "check" => Batch' = Batch
      BY <2>1 DEF Batch
    <2> QED
      BY <2>1, <2>2, <2>3, PassesApart DEF LeftOutInv
  <1> QED
    BY <1>1, <1>2, <1>3, <1>4, <1>5, <1>6, <1>7, <1>8 DEF Next, vars, Submit, FetchPage, FetchNothing,
       FetchFails, BulkFails, Restart, SaveCursorOrCount, SaveFails, SaveTxWrites, WriteStep,
       RetryDelayOver, RetryDequeue, RetryBulkFails

\* A check of u leaves the verdict of every other transaction as final as it was.
LEMMA OthersFinal ==
    ASSUME TypeOK, NEW p \in Pass, NEW u \in Transactions, Effect(p, u), UNCHANGED store,
           NEW t \in Transactions, t # u, Final(t)
    PROVE  Final(t)'
  <1>1. \A w \in writes' : w \in writes \/ w.tx = u
    BY DEF Effect, SaveTx
  <1> QED
    BY <1>1 DEF Final, store

LEMMA CheckSettled ==
    ASSUME TypeOK, WatcherInv, Behind, PassInv, SettledInv, MainCheck \/ RetryCheck
    PROVE  SettledInv'
  <1> USE DEF store, bundlr, passes, watcher, retry, history
  <1>1. PICK p \in Pass, u \in Transactions :
              /\ Effect(p, u) /\ UNCHANGED store
              /\ check[p][u] \in {"queued"} \cup Running
              /\ \A q \in Pass : \A x \in Transactions :
                    <<q, x>> # <<p, u>> => check'[q][x] = check[q][x]
              /\ \/ /\ p = "main" /\ u \in Batch
                    /\ IF check'["main"][u] \in Verdict THEN Mark({u}, "processed")
                                                        ELSE UNCHANGED fate
                 \/ p = "retry" /\ u \in retryTxs /\ UNCHANGED fate
              /\ UNCHANGED <<bundlr, watcher, retry, bootCursor, retried, abandoned, crashes>>
    BY CheckEffect
  <1>2. "main" \in Pass /\ "retry" \in Pass /\ "main" # "retry"
    BY DEF Pass
  <1>3. check[p][u] \notin Verdict
    BY <1>1 DEF Running, Verdict
  <1>a. Sole' = Sole /\ Sole \subseteq Transactions
    BY <1>1 DEF Sole
  <1>4. ASSUME p = "main", u \in Sole, check'["main"][u] \in Verdict,
               ~ShouldRetry(check'["main"][u])
        PROVE  Final(u)'
    <2>1. ~Pending(u)
      BY <1>1, <1>2, <1>3, <1>4, PassesApart
    <2>2. PICK v \in Verdict :
             /\ writes' = writes \cup {SaveTx(u, v)} /\ check'["main"][u] = v
             /\ \/ v = "unknown"
                \/ v = record[u] /\ check["main"][u] = "cache"
                \/ check["main"][u] \in {"signature", "checking"}
      BY <1>1, <1>4 DEF Effect, Running, Verdict, ShouldRetry
    <2>3. ~ShouldRetry(record[u])
      BY <1>4, <2>2 DEF PassInv, ShouldRetry, NotChecked
    <2>4. SaveTx(u, v).verdict = v
      BY DEF SaveTx
    <2>5. \A w \in writes' : w.tx = u => ~ShouldRetry(w.verdict)
      BY <1>4, <2>1, <2>2, <2>4 DEF Pending
    <2> QED
      BY <1>1, <2>3, <2>5 DEF Final
  <1>5. ASSUME NEW t \in Sole, check'["main"][t] \in Verdict, ~ShouldRetry(check'["main"][t])
        PROVE  Final(t)'
    <2>1. CASE p = "main" /\ t = u
      BY <1>4, <1>5, <2>1
    <2>2. CASE ~(p = "main" /\ t = u)
      <3>1. check["main"][t] = check'["main"][t] /\ Final(t)
        BY <1>1, <1>2, <1>5, <1>a, <2>2 DEF SettledInv
      <3>2. ~(t <= endCursor)
        BY <1>5, <1>a, <3>1, PassesApart DEF Verdict
      <3>3. t # u
        BY <1>1, <2>2, <3>2, PassesApart
      <3> QED
        BY <1>1, <1>a, <3>1, <3>3, OthersFinal
    <2> QED
      BY <2>1, <2>2
  <1>6. ASSUME pc' # "down", NEW t \in Sole, bootCursor' < t, t <= endCursor',
               fate'[t] = "processed", ~Given(t)'
        PROVE  Final(t)'
    <2>1. ~Given(t) /\ bootCursor < t /\ t <= endCursor /\ pc # "down"
      BY <1>1, <1>6 DEF Given, InRetry
    <2>2. t # u
      BY <1>1, <2>1, PassesApart DEF Given
    <2>3. fate[t] = "processed"
      BY <1>1, <1>6, <1>a, <2>2 DEF Mark
    <2>4. Final(t)
      BY <2>1, <2>3 DEF SettledInv
    <2> QED
      BY <1>1, <1>a, <2>2, <2>4, OthersFinal
  <1> QED
    BY <1>5, <1>6, <1>a DEF SettledInv, Final, Given

LEMMA WriteSettled ==
    ASSUME TypeOK, SettledInv, SaveTxWrites
    PROVE  SettledInv'
  <1> USE DEF store, bundlr, passes, watcher, retry, history
  <1>1. PICK w \in writes :
              /\ w \in Write
              /\ UNCHANGED <<savedCursor, savedTotal, passes, bundlr, watcher, retry, history>>
              /\ \/ /\ writes' = (writes \ {w}) \cup {[w EXCEPT !.next = "record"]}
                    /\ [w EXCEPT !.next = "record"].tx = w.tx
                    /\ [w EXCEPT !.next = "record"].verdict = w.verdict
                    /\ record' = record
                 \/ /\ writes' = writes \ {w}
                    /\ \A t \in Transactions :
                          record'[t] = IF t = w.tx THEN w.verdict ELSE record[t]
    BY WriteEffect
  <1>2. ASSUME NEW t \in Transactions, Final(t) PROVE Final(t)'
    <2>1. \A v \in writes' : \E x \in writes : v.tx = x.tx /\ v.verdict = x.verdict
      BY <1>1
    <2>2. record'[t] = record[t] \/ (t = w.tx /\ record'[t] = w.verdict)
      BY <1>1
    <2> QED
      BY <1>2, <2>1, <2>2 DEF Final
  <1>3. /\ \A t \in Transactions : Given(t)' <=> Given(t)
        /\ Sole' = Sole /\ Sole \subseteq Transactions
    BY <1>1 DEF Given, InRetry, Sole
  <1>4. \A t \in Sole' :
            check'["main"][t] \in Verdict /\ ~ShouldRetry(check'["main"][t]) => Final(t)'
    BY <1>1, <1>2, <1>3 DEF SettledInv
  <1>5. pc' # "down" => \A t \in Sole' :
            bootCursor' < t /\ t <= endCursor' /\ fate'[t] = "processed" /\ ~Given(t)' => Final(t)'
    BY <1>1, <1>2, <1>3 DEF SettledInv
  <1> QED
    BY <1>4, <1>5 DEF SettledInv, Final, Given

LEMMA LoopSettled ==
    ASSUME TypeOK, WatcherInv, StrayInv, Behind, PassInv, LeftOutInv, SettledInv, [Next]_vars,
           ~MainCheck, ~RetryCheck, ~SaveTxWrites
    PROVE  SettledInv'
  <1> USE DEF store, bundlr, passes, watcher, retry, history
  <1>0. "main" \in Pass /\ "retry" \in Pass /\ "main" # "retry"
    BY DEF Pass
  <1>1. CASE Crash
    <2>1. pc' = "down" /\ \A t \in Transactions : check'["main"][t] = "absent"
      BY <1>0, <1>1 DEF Crash, NoBatch
    <2> QED
      BY <2>1 DEF SettledInv, Verdict, Sole
  <1>2. ASSUME NEW resync \in ResyncModes, Boot(resync) PROVE SettledInv'
    <2>1. /\ UNCHANGED <<record, writes, check>> /\ bootCursor' = endCursor'
          /\ endCursor' \in Nat /\ Sole' = Sole
      BY <1>2 DEF Boot, TypeOK, Sole
    <2>2. \A t \in Transactions : ~(bootCursor' < t /\ t <= endCursor')
      BY <2>1, NumberAssumption
    <2>3. \A t \in Sole' :
             check'["main"][t] \in Verdict /\ ~ShouldRetry(check'["main"][t]) => Final(t)'
      BY <2>1 DEF SettledInv, Final
    <2> QED
      BY <2>2, <2>3 DEF SettledInv, Final, Sole
  <1>3. ASSUME ~Crash, ~ \E resync \in ResyncModes : Boot(resync), ~LogThrows, ~StrayCheck
        PROVE  SettledInv'
    <2>1. /\ UNCHANGED <<record, writes, bootCursor, abandoned>>
          /\ pc' # "down" => pc # "down"
      BY <1>3 DEF Next, vars, Submit, FetchPage, FetchNothing, FetchFails, BulkLoaded, BulkFails,
         Restart, ProcessTransactions, SaveCursorOrCount, SaveFails, SaveProgress,
         RetryDelayOver, RetryDequeue, RetryBulkLoaded, RetryBulkFails, RetryDone
    <2>2. (\A t \in Transactions : Final(t)' <=> Final(t)) /\ Sole' = Sole
      BY <2>1 DEF Final, Sole
    <2>a. Sole \subseteq Transactions
      BY DEF Sole
    <2>3. \A t \in Transactions : check'["main"][t] \in Verdict => check'["main"][t] = check["main"][t]
      <3>1. CASE BulkLoaded
        BY <1>0, <3>1 DEF BulkLoaded, StartBatch, TypeOK, Verdict
      <3>2. CASE ProcessTransactions
        BY <1>0, <3>2 DEF ProcessTransactions, EndBatch, NoBatch, TypeOK, Verdict
      <3>3. CASE RetryBulkLoaded \/ RetryDone
        BY <1>0, <3>3 DEF RetryBulkLoaded, StartBatch, RetryDone, EndBatch, TypeOK
      <3>4. CASE UNCHANGED check
        BY <3>4
      <3> QED
        BY <1>3, <3>1, <3>2, <3>3, <3>4 DEF Next, vars, Submit, FetchPage, FetchNothing,
           FetchFails, BulkFails, SaveCursorOrCount, SaveFails, RetryDelayOver, RetryDequeue,
           RetryBulkFails
    <2>4. \A t \in Transactions : fate'[t] = "processed" => fate[t] = "processed"
      BY <1>3, FateStep
    <2>5. ASSUME pc' # "down", NEW t \in Sole, bootCursor' < t, t <= endCursor',
                 fate'[t] = "processed", ~Given(t)'
          PROVE  Final(t)
      <3>1. pc # "down" /\ bootCursor < t /\ fate[t] = "processed"
        BY <2>1, <2>4, <2>5, <2>a
      <3>2. CASE ProcessTransactions
        <4>1. /\ InRetry' = InRetry \cup ToRetry("main") /\ retried' = retried
              /\ endCursor' = page.next /\ pc = "check"
          <5>1. ~RetryDone /\ InRetry' # InRetry => InRetry' = InRetry \cup ToRetry("main")
            BY <1>3, InRetryStep
          <5>2. ~RetryDone
            BY <3>2 DEF ProcessTransactions, RetryDone, WatcherInv
          <5>3. \/ InRetry' = InRetry \cup ToRetry("main")
                \/ InRetry' = InRetry
            BY <5>1, <5>2
          <5>4. ToRetry("main") \subseteq InRetry'
            <6>1. /\ delayed' = IF ToRetry("main") = {} THEN delayed ELSE delayed \cup {ToRetry("main")}
              BY <3>2 DEF ProcessTransactions
            <6>2. ToRetry("main") \subseteq Transactions
              BY DEF ToRetry, Members
            <6> QED
              BY <6>1, <6>2 DEF InRetry
          <5> QED
            BY <3>2, <5>3, <5>4 DEF ProcessTransactions
        <4>2. ~Given(t) /\ t \notin ToRetry("main")
          BY <2>5, <4>1 DEF Given
        <4>3. CASE t <= endCursor
          BY <3>1, <4>2, <4>3 DEF SettledInv
        <4>4. CASE ~(t <= endCursor)
          <5>1. t \in Batch
            BY <2>5, <2>a, <4>1, <4>4, NumberAssumption DEF Batch, TypeOK
          <5>2. check["main"][t] # "absent"
            BY <3>1, <4>1, <5>1 DEF LeftOutInv
          <5>3. check["main"][t] \in Verdict
            BY <2>a, <3>2, <5>2 DEF ProcessTransactions, BatchDone, Members
          <5>4. ~ShouldRetry(check["main"][t])
            BY <2>a, <4>2, <5>2 DEF ToRetry, Members
          <5> QED
            BY <5>3, <5>4 DEF SettledInv
        <4> QED
          BY <4>3, <4>4
      <3>3. CASE RetryDone
        <4>1. /\ retried' = retried \cup Members("retry") /\ retryPc = "check"
              /\ endCursor' = endCursor
          BY <3>3 DEF RetryDone
        <4>2. InRetry \subseteq InRetry' \cup retryTxs
          <5>1. ~ProcessTransactions
            BY <3>3 DEF ProcessTransactions, RetryDone, WatcherInv
          <5> QED
            BY <1>3, <5>1, InRetryStep
        <4>3. t \notin retryTxs
          <5>1. ASSUME t \in retryTxs PROVE FALSE
            <6>1. check["retry"][t] # "absent"
              BY <3>1, <4>1, <5>1 DEF LeftOutInv
            <6>2. t \in Members("retry")
              BY <2>a, <6>1 DEF Members
            <6> QED
              BY <2>5, <4>1, <6>2 DEF Given
          <5> QED
            BY <5>1
        <4>4. ~Given(t)
          BY <2>5, <4>1, <4>2, <4>3 DEF Given
        <4> QED
          BY <2>5, <3>1, <4>1, <4>4 DEF SettledInv
      <3>4. CASE ~ProcessTransactions /\ ~RetryDone
        <4>1. InRetry' = InRetry
          BY <1>3, <3>4, InRetryStep
        <4>2. retried' = retried /\ endCursor' = endCursor
          BY <1>3, <3>4 DEF Next, vars, Submit, FetchPage, FetchNothing, FetchFails, BulkLoaded,
             BulkFails, SaveCursorOrCount, SaveFails, RetryDelayOver, RetryDequeue,
             RetryBulkLoaded, RetryBulkFails
        <4>3. ~Given(t)
          BY <2>5, <4>1, <4>2 DEF Given
        <4> QED
          BY <2>5, <3>1, <4>2, <4>3 DEF SettledInv
      <3> QED
        BY <3>2, <3>3, <3>4
    <2>6. \A t \in Sole' :
             check'["main"][t] \in Verdict /\ ~ShouldRetry(check'["main"][t]) => Final(t)'
      BY <2>2, <2>3, <2>a DEF SettledInv
    <2> QED
      BY <2>2, <2>5, <2>6, <2>a DEF SettledInv, Final, Given
  <1>4. CASE LogThrows \/ StrayCheck
    <2>1. /\ UNCHANGED <<record, endCursor, bootCursor>> /\ pc # "down"
          /\ Sole' \subseteq Sole /\ Sole \subseteq Transactions
          /\ writes \subseteq writes' /\ \A w \in writes' : w.tx \in Sole' => w \in writes
          /\ \A t \in Sole' : fate'[t] = fate[t]
      BY <1>4, AsideSteps, SoleShrinks DEF Sole
    <2>2. \A t \in Sole' : check'["main"][t] \in Verdict => check'["main"][t] = check["main"][t]
      BY <1>4, AsideSteps DEF Sole, Verdict
    <2>3. \A t \in Sole' : Final(t) => Final(t)'
      BY <2>1 DEF Final
    <2>4. \A t \in Transactions : Given(t)' <=> Given(t)
      <3>1. UNCHANGED retry /\ retried' = retried
        BY <1>4, AsideSteps
      <3> QED
        BY <3>1 DEF Given, InRetry
    <2>5. \A t \in Sole' :
             check'["main"][t] \in Verdict /\ ~ShouldRetry(check'["main"][t]) => Final(t)'
      BY <2>1, <2>2, <2>3 DEF SettledInv
    <2>6. \A t \in Sole' :
             bootCursor' < t /\ t <= endCursor' /\ fate'[t] = "processed" /\ ~Given(t)' => Final(t)'
      BY <2>1, <2>3, <2>4 DEF SettledInv
    <2> QED
      BY <2>5, <2>6 DEF SettledInv, Final, Given
  <1> QED
    BY <1>1, <1>2, <1>3, <1>4

LEMMA ChanceInvStep ==
    ASSUME TypeOK, WatcherInv, StrayInv, ChanceInv, [Next]_vars
    PROVE  ChanceInv'
  <1>0. Behind'
    BY BehindStep DEF ChanceInv
  <1>1. PassInv'
    BY CheckPasses, WritePasses, LoopPasses DEF ChanceInv
  <1>2. LeftOutInv'
    BY LeftOutStep DEF ChanceInv
  <1>3. SettledInv'
    BY CheckSettled, WriteSettled, LoopSettled DEF ChanceInv
  <1> QED
    BY <1>0, <1>1, <1>2, <1>3 DEF ChanceInv

\* No network failure since the process was started is forgotten before it had
\* its retry, wherever the checks, the saves and the two loops stand, but for the
\* transactions that a batch that threw was checking: those it may forget.
THEOREM FailuresRetried == Spec => []RetriableIsRetried
  <1>1. Init => ChanceInv
    <2>1. SUFFICES ASSUME Init PROVE ChanceInv
      OBVIOUS
    <2>2. InRetry = {} /\ writes = {} /\ pc = "down" /\ retryPc = "idle"
      BY <2>1, InitInvariants
    <2>3. \A t \in Transactions : check["main"][t] = "absent" /\ check["retry"][t] = "absent"
      BY <2>1, InitInvariants, PassesDiffer
    <2> QED
      BY <2>2, <2>3 DEF ChanceInv, Behind, PassInv, LeftOutInv, SettledInv, Verdict, Sole
  <1>2. TypeOK /\ WatcherInv /\ StrayInv /\ ChanceInv /\ [Next]_vars => ChanceInv'
    BY ChanceInvStep
  <1>3. ChanceInv => RetriableIsRetried
    BY DEF ChanceInv, SettledInv, RetriableIsRetried, Final, Given, Sole
  <1> QED
    BY TypeCorrect, StraysSafe, <1>1, <1>2, <1>3, PTL DEF Spec

===============================================================================
