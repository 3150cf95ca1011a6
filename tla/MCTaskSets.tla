------------------------------ MODULE MCTaskSets ------------------------------
(* TaskSets on a small instance. *)
EXTENDS TaskSets

\* Every order an epoch of the scheduler can have: each task set as often as it is long.
OrdersOf(sizes) ==
    {o \in [1 .. SumFunction(sizes) -> DOMAIN sizes] :
        \A t \in DOMAIN sizes : Times(o, t) = sizes[t]}

\* One of S for each epoch; the scheduler prepares an epoch after the last and reads no
\* batch from it, so that one may be any.
PerEpoch(S) == {f \in [0 .. Epochs -> S] : f[Epochs] = f[0]}

\* Two task sets of two samples and one: a batch can straddle epochs of either and of both.
TwoSets(style, kind) ==
    {[style |-> style, sizes |-> <<2, 1>>, kinds |-> <<kind, "fixed">>, plan |-> p,
      picks |-> <<q, [e \in 0 .. Epochs |-> <<0>>]>>] :
        p \in PerEpoch(OrdersOf(<<2, 1>>)),
        q \in IF kind = "fixed" THEN {[e \in 0 .. Epochs |-> f] : f \in OrdersOfSamples(2)}
                                ELSE PerEpoch(OrdersOfSamples(2))}

OneSet(style, kind) ==
    {[style |-> style, sizes |-> <<3>>, kinds |-> <<kind>>,
      plan |-> [e \in 0 .. Epochs |-> <<1, 1, 1>>],
      picks |-> <<[e \in 0 .. Epochs |-> <<0, 1, 2>>]>>]}

MCSetups ==
    UNION {OneSet(st, "plain") : st \in {"stepwise", "watched"}}
    \cup TwoSets("stepwise", "shuffled") \cup TwoSets("watched", "fixed")
===============================================================================
