------------------------------- MODULE MCIngest -------------------------------
(* Instances of Ingest for TLC. *)
EXTENDS Ingest

Sound == [t \in Publications |-> "none"]

\* Nothing is wrong, or one publication has one defect.
MCOneDefect == {[Sound EXCEPT ![t] = d] : t \in Publications, d \in Defect}

===============================================================================
