----------------------------- MODULE ResidueField -----------------------------
(***************************************************************************)
(* What a caller of the field expects: registers that hold residues modulo *)
(* Modulus, and calls that compute with them.  The last call is part of    *)
(* the state, so that an implementation must do what it was called for.    *)
(***************************************************************************)
EXTENDS Integers

CONSTANTS Modulus, Regs, Inputs, Ints

VARIABLES res, live, last

rvars == <<res, live, last>>

Init == res \in [Regs -> 0 .. Modulus - 1] /\ live = Regs /\ last = <<"none">>

Put(r, v, call) ==
  /\ res' = [res EXCEPT ![r] = v % Modulus]
  /\ live' = live \union {r}
  /\ last' = call

\* A call succeeds with the residue it names, or, reading a string that is no
\* residue, fails and leaves its register unusable.
Next == \E r \in Regs, a \in Regs :
  \/ \E k \in Ints \union Inputs \union {0} : k < Modulus /\ Put(r, k, <<"set", r, k>>)
  \/ /\ \E v \in Inputs : v >= Modulus
     /\ last' = <<"overflow", r>> /\ live' = live \ {r}
     /\ \A s \in Regs \ {r} : res'[s] = res[s]
  \/ Put(r, res[r], <<"same", r>>)
  \/ Put(r, - res[a], <<"negate", r, a>>)
  \/ \E k \in Ints : Put(r, res[r] * k, <<"mul_int", r, k>>)
  \/ Put(r, res[r] + res[a], <<"add", r, a>>)
  \/ \E b \in Regs : Put(r, res[a] * res[b], <<"mul", r, a, b>>)
  \/ Put(r, res[a], <<"move", r, a>>)

Spec == Init /\ [][Next]_rvars
===============================================================================
