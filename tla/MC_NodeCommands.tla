--------------------------- MODULE MC_NodeCommands ---------------------------
(* A node with a builtin and a custom driver, and the commands of its       *)
(* operator.                                                                *)
EXTENDS NodeCommands

CONSTANTS s1, s2, v1, v2

Order(verb, names, force) == [verb |-> verb, names |-> names, force |-> force]

MCMenu == {Order("drain", {s1}, FALSE), Order("recycle", {s1, s2}, FALSE),
           Order("update", {s1, s2}, TRUE), Order("restart", {s1, s2}, FALSE)}
=============================================================================
