----------------------------- MODULE RequestPool -----------------------------
(***************************************************************************)
(* What a pool of workers promises to whoever makes requests of it: a      *)
(* request is served at once when fewer are than there are workers, else   *)
(* it waits; and when one is answered, exactly one of those that wait      *)
(* takes its place.  Which one is not promised: it need not be the one     *)
(* that has waited longest.                                                *)
(***************************************************************************)
EXTENDS Naturals, FiniteSets

CONSTANTS Workers, Requests

VARIABLES
    waiting,        \* requests no worker serves yet
    running,        \* requests being served
    answered,       \* requests that were answered
    up              \* the process runs

Init == waiting = {} /\ running = {} /\ answered = {} /\ up = TRUE

HasRoom == Cardinality(running) < Cardinality(Workers)

Accept(r) ==
    /\ up
    /\ r \notin waiting \cup running \cup answered
    /\ \/ HasRoom /\ running' = running \cup {r} /\ UNCHANGED waiting
       \/ ~HasRoom /\ waiting' = waiting \cup {r} /\ UNCHANGED running
    /\ UNCHANGED <<answered, up>>

Answer(r) ==
    /\ up
    /\ r \in running
    /\ answered' = answered \cup {r}
    /\ \/ /\ waiting = {}
          /\ running' = running \ {r} /\ UNCHANGED waiting
       \/ \E q \in waiting :
          /\ running' = (running \ {r}) \cup {q}
          /\ waiting' = waiting \ {q}
    /\ UNCHANGED up

Stop == up /\ up' = FALSE /\ UNCHANGED <<waiting, running, answered>>

Next == (\E r \in Requests : Accept(r) \/ Answer(r)) \/ Stop

Spec == Init /\ [][Next]_<<waiting, running, answered, up>>

===============================================================================
