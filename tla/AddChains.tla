------------------------------ MODULE AddChains ------------------------------
(***************************************************************************)
(* The three addition chains of libsecp256k1 at their real size: fe_sqrt   *)
(* and fe_inv (field_impl.h), scalar_inverse (scalar_impl.h).  They raise  *)
(* an element to a fixed power by squarings and multiplications, so that   *)
(* it is enough to follow the exponent of every variable.  An exponent is  *)
(* the set of its one bits: a squaring shifts it, a product adds.          *)
(*                                                                         *)
(* A row <<d, s, k, f>> is: d = s, squared k times, times f.  Variable n   *)
(* stands for xn of the code, 1 for the argument, 0 for t and the result;  *)
(* f = None: no product.  t of scalar_inverse is x127 itself, which no     *)
(* other row reads again.                                                  *)
(***************************************************************************)
EXTENDS Integers, Sequences, TLC

CONSTANT None

\* Sum of two numbers given by their bits.
Plus[S \in SUBSET Nat, R \in SUBSET Nat] ==
  IF S \intersect R = {} THEN S \union R
  ELSE Plus[(S \ R) \union (R \ S), {b + 1 : b \in S \intersect R}]

Squared(S, k) == {b + k : b \in S}
Ones(k) == 0 .. k - 1                       \* 2^k - 1
Bit(v) == {i \in 0 .. 15 : (v \div 2^i) % 2 = 1}

---------------------------------------------------------------------------
(* The chains. *)

\* 1, [2], 3, 6, 9, 11, [22], 44, 88, 176, 220, [223]
FieldBlocks ==
  << <<2, 1, 1, 1>>, <<3, 2, 1, 1>>, <<6, 3, 3, 3>>, <<9, 6, 3, 3>>, <<11, 9, 2, 2>>,
     <<22, 11, 11, 11>>, <<44, 22, 22, 22>>, <<88, 44, 44, 44>>, <<176, 88, 88, 88>>,
     <<220, 176, 44, 44>>, <<223, 220, 3, 3>> >>

fe_sqrt == FieldBlocks \o << <<0, 223, 23, 22>>, <<0, 0, 6, 2>>, <<0, 0, 2, None>> >>

fe_inv == FieldBlocks \o << <<0, 223, 23, 22>>, <<0, 0, 5, 1>>, <<0, 0, 3, 2>>, <<0, 0, 2, 1>> >>

ScalarBlocks ==
  << <<2, 1, 1, 1>>, <<3, 2, 1, 1>>, <<4, 3, 1, 1>>, <<6, 4, 2, 2>>, <<7, 6, 1, 1>>,
     <<8, 7, 1, 1>>, <<15, 8, 7, 7>>, <<30, 15, 15, 15>>, <<60, 30, 30, 30>>,
     <<120, 60, 60, 60>>, <<127, 120, 7, 7>> >>

\* The lower half of the order, block by block: squarings and block length.
ScalarTail ==
  << <<2, 1>>, <<4, 3>>, <<2, 1>>, <<2, 1>>, <<2, 1>>, <<4, 3>>, <<3, 2>>, <<4, 3>>,
     <<5, 3>>, <<4, 2>>, <<2, 1>>, <<2, 1>>, <<5, 4>>, <<2, 1>>, <<3, 1>>, <<4, 1>>,
     <<2, 1>>, <<10, 3>>, <<4, 3>>, <<9, 8>>, <<2, 1>>, <<3, 1>>, <<3, 1>>, <<5, 4>>,
     <<2, 1>>, <<5, 2>>, <<4, 2>>, <<2, 1>>, <<8, 2>>, <<3, 2>>, <<3, 1>>, <<6, 1>>,
     <<8, 6>> >>

TailSwapped(i) ==
  <<0, IF i = 1 THEN 127 ELSE 0>> \o ScalarTail[CASE i = 18 -> 19 [] i = 19 -> 18 [] OTHER -> i]
TailRow(i) == <<0, IF i = 1 THEN 127 ELSE 0>> \o ScalarTail[i]

scalar_inverse == ScalarBlocks \o [i \in 1 .. Len(ScalarTail) |-> TailRow(i)]

Chains == [sqrt |-> fe_sqrt, inv |-> fe_inv, scalar |-> scalar_inverse]

---------------------------------------------------------------------------
(* What they are to compute: p = 2^256 - 2^32 - 977, and the order of the  *)
(* group by its 16-bit pieces.                                             *)

OrderPieces ==
  << 16705, 53302, 24204, 49106,  \* 0x4141, 0xD036, 0x5E8C, 0xBFD2
     41019, 44872, 56550, 47790,  \* 0xA03B, 0xAF48, 0xDCE6, 0xBAAE
     65534, 65535, 65535, 65535, 65535, 65535, 65535, 65535 >>

Power(c) ==
  CASE c = "inv"  -> Ones(256) \ ({32} \union Bit(978))     \* p - 2
    [] c = "sqrt" -> Ones(254) \ ({30} \union Bit(243))     \* (p + 1) / 4
    [] c = "scalar" ->                                      \* n - 2
         UNION {Squared(Bit(OrderPieces[i] - (IF i = 1 THEN 2 ELSE 0)), 16 * (i - 1)) : i \in 1 .. 16}

---------------------------------------------------------------------------
VARIABLES chain, row, power   \* the chain, its next row, the exponents so far

chainVars == <<chain, row, power>>

ChainInit == chain \in DOMAIN Chains /\ row = 1 /\ power = (1 :> {0})

Step ==
  /\ row <= Len(Chains[chain])
  /\ LET r == Chains[chain][row]
         e == Squared(power[r[2]], r[3])
     IN  power' = (r[1] :> (IF r[4] = None THEN e ELSE Plus[e, power[r[4]]])) @@ power
  /\ row' = row + 1
  /\ UNCHANGED chain

\* Each block variable xn holds the argument to the power 2^n - 1, as the
\* comments at the head of the chains say, and the chain ends with the power that
\* makes it an inverse (Fermat) or a square root: p - 2, n - 2 or (p + 1) / 4.
PowerExact ==
  /\ \A n \in DOMAIN power \ {0} : power[n] = Ones(n)
  /\ row > Len(Chains[chain]) => power[0] = Power(chain)
===============================================================================
