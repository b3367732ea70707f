------------------------------- MODULE MCLimbs -------------------------------
(* The arithmetic under the curve: a caller of the field, a caller of the    *)
(* scalars, or one of the addition chains runs; the others stand still.      *)
EXTENDS FieldLimbs, ScalarLimbs, AddChains

VARIABLE part

FieldIdle  == reg = [r \in Regs |-> fe_clear] /\ live = Regs /\ last = <<"none">> /\ calls = 0
ScalarIdle == sreg = [r \in SRegs |-> NoLimbs] /\ slast = <<"none">> /\ scalls = 0
ChainIdle  == chain = "inv" /\ row = 1 /\ power = (1 :> {0})

LimbsInit ==
  \/ part = "field" /\ FieldInit /\ ScalarIdle /\ ChainIdle
  \/ part = "scalar" /\ FieldIdle /\ ScalarInit /\ ChainIdle
  \/ part = "chain" /\ FieldIdle /\ ScalarIdle /\ ChainInit

LimbsNext ==
  /\ UNCHANGED part
  /\ \/ part = "field" /\ FieldNext /\ UNCHANGED <<scalarVars, chainVars>>
     \/ part = "scalar" /\ ScalarNext /\ UNCHANGED <<fieldVars, chainVars>>
     \/ part = "chain" /\ Step /\ UNCHANGED <<fieldVars, scalarVars>>

LimbsSpec == LimbsInit /\ [][LimbsNext]_<<part, fieldVars, scalarVars, chainVars>>

Edge  == {0, P - 1, P, 2^Bits - 1, 12345}
Small == {3}
SEdge == {0, 1, Order \div 2, Order - 1, Order, SBase^SL - 1, 366}

\* the last call is for the properties of steps only
NoLast == <<part, reg, live, calls, sreg, scalls, chain, row, power>>
===============================================================================
