------------------------------ MODULE MCRunner ------------------------------
(* Small instances of Runner for TLC.                                      *)
EXTENDS Runner

CONSTANTS a, b, ghost

TwoSpecs == {a, b}
OneSpec == {a}
Chain == [s \in {a, b} |-> IF s = b THEN {a} ELSE {}]
Free == [s \in {a} |-> {}]
Dangling == [s \in {a, b} |-> IF s = b THEN {ghost} ELSE {}]
OnlyNone == {None}
AnyTarget == {None, a, b}
=============================================================================
