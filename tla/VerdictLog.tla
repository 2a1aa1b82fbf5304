------------------------------ MODULE VerdictLog ------------------------------
(***************************************************************************)
(* What a verifier node promises about its verdicts, whatever happens to   *)
(* the process: a transaction gets a first verdict; a verdict that was due *)
(* to the network is replaced by another one, but by then the transaction  *)
(* is no longer a candidate for CHAIN_SIGNATURE_ALREADY_USED; any other    *)
(* verdict is never turned into its opposite, only put in doubt again      *)
(* ("unknown") and decided anew.  A transaction that is checked twice at   *)
(* once, because a batch was given up while it was checked, has no such    *)
(* promise until the process is started again: the later save wins.        *)
(***************************************************************************)
EXTENDS ValidatorErrors

CONSTANT Transactions

VARIABLES verdict, twice

Init ==
    /\ verdict = [t \in Transactions |-> "none"]
    /\ twice = {}

Become(t, v) ==
    /\ verdict' = [verdict EXCEPT ![t] = v]
    /\ UNCHANGED twice

Decide(t) ==
    /\ verdict[t] = "none"
    /\ \E v \in Verdict : Become(t, v)

Reconsider(t) ==
    /\ ShouldRetry(verdict[t])
    /\ \E v \in Verdict \ {"sigUsed"} : Become(t, v)

Doubt(t) ==
    /\ Settled(verdict[t]) \/ verdict[t] = "sigUsed"
    /\ Become(t, "unknown")

Overrule(t) ==
    /\ t \in twice
    /\ \E v \in Verdict : Become(t, v)

GiveUp == twice \subseteq twice' /\ twice' \subseteq Transactions /\ UNCHANGED verdict

Stop == twice' = {} /\ UNCHANGED verdict

Next ==
    \/ \E t \in Transactions : Decide(t) \/ Reconsider(t) \/ Doubt(t) \/ Overrule(t)
    \/ GiveUp
    \/ Stop

Spec == Init /\ [][Next]_<<verdict, twice>>

===============================================================================
