------------------------------ MODULE MCProxy ------------------------------
EXTENDS Proxy, TLC
CONSTANTS m1, m2, r1, r2
MCModels == {m1, m2}
MCRequests == {r1, r2}
MCStreaming == {r2}

\* Versions change while requests and models fail, and while the database
\* fails; or the database fails under two feedbacks that overlap, with and
\* without row locks.
MCScenarios ==
    {[locks |-> FALSE, failing |-> {"requests", "models"}, feedbacks |-> 2, versions |-> 1],
     [locks |-> TRUE, failing |-> {"database"}, feedbacks |-> 1, versions |-> 1]}
    \cup [locks : BOOLEAN, failing : {{"requests", "database"}}, feedbacks : {2}, versions : {0}]
=============================================================================
