------------------------------ MODULE MCExpQueue ------------------------------
(* ExpQueue on a small instance. *)
EXTENDS ExpQueue

CONSTANTS e1, e2

MCWriters == {e1, e2}
MCItemVersions == {<<1, 0>>, <<0, 1>>}
===============================================================================
