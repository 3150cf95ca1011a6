------------------------------ MODULE ExpBuffer ------------------------------
(***************************************************************************)
(* What the experience buffer between explorer and trainer promises: full  *)
(* batches of experiences that were written before, each handed out at     *)
(* most as often as it may be used, and no batch after the end.  It does   *)
(* not promise that every experience is handed out.                        *)
(***************************************************************************)
EXTENDS Integers, FiniteSets

CONSTANTS Experiences, BatchSize, MaxLimit

VARIABLES
    limit,   \* how often an experience may be handed out
    written, \* experiences the buffer has taken
    taken,   \* experience -> how often it was handed out
    over     \* the reader was told that there is no more

vars == <<limit, written, taken, over>>

Init ==
    /\ limit \in 1 .. MaxLimit
    /\ written = {}
    /\ taken = [e \in Experiences |-> 0]
    /\ over = FALSE

Write ==
    /\ written' \in SUBSET Experiences /\ written \subseteq written'
    /\ UNCHANGED <<limit, taken, over>>

\* A full batch, in which an experience may stand more than once.
Read ==
    /\ ~over
    /\ \E batch \in [1 .. BatchSize -> written] :
        taken' = [e \in Experiences |->
                     taken[e] + Cardinality({n \in 1 .. BatchSize : batch[n] = e})]
    /\ \A e \in Experiences : taken'[e] <= limit
    /\ UNCHANGED <<limit, written, over>>

\* Experiences may still be written, and are not read any more.
End ==
    /\ over' = TRUE
    /\ UNCHANGED <<limit, written, taken>>

Next == Write \/ Read \/ End

Spec == Init /\ [][Next]_vars
=============================================================================
