------------------------------ MODULE MCConfig ------------------------------
(* Values for the constants of Config: two ids that differ in both bytes,  *)
(* and files that give everything, an id alone, a flag alone, nothing.     *)
EXTENDS Config

MCIds == {<<1, 3>>, <<2, 4>>}
Full(i) == [a \in 2 .. 7 |-> CASE a = 2 -> i[1] [] a = 3 -> i[2] [] OTHER -> 0]
MCHostFiles == {Full(<<1, 3>>), [a \in {SD} |-> 1], [a \in {2, 3} |-> IF a = 2 THEN 2 ELSE 4], <<>>}
=============================================================================
