------------------------------ MODULE MCPrompts ------------------------------
(* Small instances of Prompts: two turns, in a session each or in the same. *)
EXTENDS Prompts

CONSTANTS t1, t2, s1, s2

MCLayouts == {[t \in Turns |-> IF t = t1 THEN s1 ELSE s2], [t \in Turns |-> s1]}
===============================================================================
