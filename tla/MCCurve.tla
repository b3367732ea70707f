------------------------------- MODULE MCCurve -------------------------------
(* The curve over a small field: a caller of the group, a caller of the       *)
(* multiplications, or the contexts of ecmult_gen; the others stand still.   *)
EXTENDS Ecmult

VARIABLE part

CurveInit == part \in {"points", "products", "contexts"} /\ GroupInit /\ GenInit

CurveNext ==
  /\ UNCHANGED part
  /\ \/ part = "points" /\ GroupNext /\ UNCHANGED genVars
     \/ part = "products" /\ (SetXo \/ Multiply \/ MultiplyConst) /\ UNCHANGED genVars
     \/ part = "contexts" /\ GenNext /\ UNCHANGED groupVars

CurveSpec == CurveInit /\ [][CurveNext]_<<part, groupVars, genVars>>

Sums    == {0, 1, 2, 25, 30}
Factors == {1, 5}
Edges   == {0, 1, 15, 16, 22, 30}
===============================================================================
