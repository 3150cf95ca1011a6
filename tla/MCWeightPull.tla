---------------------------- MODULE MCWeightPull ----------------------------
(* WeightPull on a small instance. *)
EXTENDS WeightPull

CONSTANTS x, y

MCExplorers == {x, y}

Common == [style |-> "fixed", method |-> "memory", members |-> {x}, launch |-> "both",
           explorer_interval |-> 2, trainer_interval |-> 2, offset |-> 0, save_interval |-> 2]

\* Both loops in one job; two explorers that are started on their own; an explorer that
\* asks less often than the trainer publishes, and one a whole interval ahead of it.
MCSettings ==
    {[Common EXCEPT !.style = st, !.method = m, !.offset = o] :
        st \in Styles, m \in {"memory", "checkpoint"}, o \in {0, 1}}
    \cup {[Common EXCEPT !.style = st, !.launch = "trainer first", !.members = {x, y}] :
        st \in {"fixed", "explorer_driven", "fully_async"}}
    \cup {[Common EXCEPT !.style = "explorer_driven", !.launch = "apart", !.members = {x, y}],
          [Common EXCEPT !.explorer_interval = 3], [Common EXCEPT !.offset = 2]}

===============================================================================
