---------------------------- MODULE MCProofChecker ----------------------------
(* Instances of ProofChecker for TLC. *)
EXTENDS ProofChecker

CONSTANTS post, comment, mirror

\* A mirror of a comment on a post.
MCPointer == [t \in Publications |->
    CASE t = post -> NoPointer
      [] t = comment -> post
      [] OTHER -> comment]

\* Nothing is wrong, or one of the publications in P has one of the errors in E.
OneDefectOf(P, E) ==
    {[t \in Publications |-> {}]} \cup
    UNION {{[t \in Publications |-> IF t = u THEN {e} ELSE {}] : e \in E \cap Blame(u)}
           : u \in P}

\* Every error of a post and of a publication with a pointer.
MCOneDefect == OneDefectOf({post, comment}, UNION {Blame(t) : t \in Publications})

\* Two errors of a publication, in one stage and in two, before and after the check of
\* the pointer; or one of it and one of its pointer.
MCOrdered == {"TIMESTAMP_PROOF_INVALID_TYPE", "TIMESTAMP_PROOF_INVALID_DA_ID", "EVENT_MISMATCH"}
MCTwoDefects ==
    UNION {{[t \in Publications |-> IF t = u THEN {d, e} ELSE {}]
            : d, e \in MCOrdered} : u \in {post, comment}} \cup
    {[t \in Publications |->
        CASE t = comment -> {d} [] t = post -> {e} [] OTHER -> {}]
      : d, e \in {"TIMESTAMP_PROOF_INVALID_TYPE", "EVENT_MISMATCH"}}

MCDefects == MCOneDefect \cup MCTwoDefects

\* The second test of a stage before the check of the pointer, and the last stage.
MCFewDefects == OneDefectOf(Publications, {"TIMESTAMP_PROOF_INVALID_TYPE", "EVENT_MISMATCH"})

===============================================================================
