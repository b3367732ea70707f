------------------------------ MODULE ScalarLow ------------------------------
(***************************************************************************)
(* The reference representation of a scalar (scalar_low_impl.h), with      *)
(* which the library's exhaustive tests run: one number below the order.   *)
(* The last call and what it returned are part of the state.  scalar_low   *)
(* denies every overflow of set_b32 (its tests overflow always); here the  *)
(* flag says whether the string was n or more.                             *)
(***************************************************************************)
EXTENDS Integers

CONSTANTS EXHAUSTIVE_TEST_ORDER, SRegs, SInputs, SBits, Shifts

VARIABLES num, slast

lowVars == <<num, slast>>

Init == num \in [SRegs -> 0 .. EXHAUSTIVE_TEST_ORDER - 1] /\ slast = <<"none">>

Put(r, v, call) == num' = [num EXCEPT ![r] = v] /\ slast' = call

low_set_b32(v) == v % EXHAUSTIVE_TEST_ORDER
low_add(a, b)  == (a + b) % EXHAUSTIVE_TEST_ORDER
low_negate(a)  == IF a = 0 THEN 0 ELSE EXHAUSTIVE_TEST_ORDER - a
low_mul(a, b)  == (a * b) % EXHAUSTIVE_TEST_ORDER

Set(r, v) ==
  Put(r, low_set_b32(v), <<"set", r, v, IF v >= EXHAUSTIVE_TEST_ORDER THEN 1 ELSE 0>>)
Add(r, a, b) ==
  LET s == low_add(num[a], num[b])
  IN  Put(r, s, <<"add", r, a, b, IF s < num[b] THEN 1 ELSE 0>>)
CaddBit(r, bit, flag) ==
  Put(r, IF flag THEN num[r] + 2^bit ELSE num[r], <<"cadd_bit", r, bit, flag>>)
Negate(r, a) == Put(r, low_negate(num[a]), <<"negate", r, a>>)
CondNegate(r, flag) ==
  Put(r, IF flag THEN low_negate(num[r]) ELSE num[r],
      <<"cond_negate", r, flag, IF flag THEN -1 ELSE 1>>)
ShrInt(r, n) == Put(r, num[r] \div 2^n, <<"shr", r, n, num[r] % 2^n>>)
Mul(r, a, b) == Put(r, low_mul(num[a], num[b]), <<"mul", r, a, b>>)

Next == \E r \in SRegs :
  \/ \E v \in SInputs \union {0} : Set(r, v)
  \/ \E bit \in SBits, flag \in BOOLEAN : CaddBit(r, bit, flag)
  \/ \E flag \in BOOLEAN : CondNegate(r, flag)
  \/ \E n \in Shifts : ShrInt(r, n)
  \/ \E a \in SRegs : Negate(r, a) \/ \E b \in SRegs : Add(r, a, b) \/ Mul(r, a, b)

Spec == Init /\ [][Next]_lowVars
===============================================================================
