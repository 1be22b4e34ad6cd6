------------------------------ MODULE MCIntake ------------------------------
(***************************************************************************)
(* One node and a client thread of each of two signers.                    *)
(***************************************************************************)
EXTENDS Intake

CONSTANTS a, b, small, large, t1, t2

MCSize == [c \in {small, large} |-> IF c = small THEN 2 ELSE 3]
MCSigner == [t \in {t1, t2} |-> IF t = t2 THEN b ELSE a]
=============================================================================
