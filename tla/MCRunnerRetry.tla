---------------------------- MODULE MCRunnerRetry ----------------------------
(* RunnerRetry on a small instance. *)
EXTENDS RunnerRetry

Sizes(runs, retries, tasks) ==
    [mode : {"sequential", "asynchronous"}, history : BOOLEAN, partial : BOOLEAN,
     repeat_times : {runs}, retry_times : {retries}, tasks : {tasks}]

\* An attempt abandoned before the next one and before the next sub task; partial results.
MCSetups == Sizes(1, 1, 2) \cup Sizes(2, 1, 1) \cup Sizes(2, 0, 2)
===============================================================================
