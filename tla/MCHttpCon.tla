------------------------------ MODULE MCHttpCon ------------------------------
(* Instances of the response life cycle for TLC.  The connections are         *)
(* interchangeable, and so are the evaluation threads.                        *)
EXTENDS HttpCon

Keep(by) == [by |-> by, close |-> FALSE]
Close(by) == [by |-> by, close |-> TRUE]

\* Everything but an evaluated request that asks to close its connection.
Usual     == {Keep("eval"), Keep("page"), Keep("bad"), Close("page")}
KeepAlive == {Keep("eval"), Keep("page"), Keep("bad")}
EvalOnly  == {Keep("eval")}
EvalClose == {Keep("eval"), Close("eval")}

Symmetry == Permutations(Conns) \cup Permutations(EvalThreads)
=============================================================================
