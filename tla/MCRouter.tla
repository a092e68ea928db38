------------------------------- MODULE MCRouter -------------------------------
(* Small instance of Router: two HTTP threads, two models, room for one.      *)
EXTENDS Router

CONSTANTS m1, m2, c1, c2

MCModel == {m1, m2}
MCCaller == {c1, c2}
===============================================================================
