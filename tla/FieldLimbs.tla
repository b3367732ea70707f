------------------------------ MODULE FieldLimbs ------------------------------
(***************************************************************************)
(* The field of libsecp256k1 in limbs (field_10x26_impl.h).  An element is *)
(* L limbs of B bits, the last one of T bits, kept in words of W bits that *)
(* may hold more than B bits: the magnitude says how much more.  The       *)
(* modulus is p = 2^(B*(L-1)+T) - C1*2^B - C0, so that what overflows the  *)
(* top limb is folded back into the two lowest ones.  In the code L = 10,  *)
(* B = 26, T = 22, C1 = 0x40, C0 = 0x3D1, W = 32 and products accumulate   *)
(* in A = 64 bits; every operation below is written for any such sizes.    *)
(*                                                                         *)
(* The state is a few elements that a caller computes with.  A call is     *)
(* enabled where its VERIFY_CHECKs hold: these are what the library asks   *)
(* of its callers, and magnitude and normalized, which only the checking   *)
(* build stores, are kept here for them.                                   *)
(***************************************************************************)
EXTENDS Integers, FiniteSetsExt

CONSTANTS L, B, T, C0, C1,  \* the shape of an element and of the modulus
          W, A,             \* width of a word and of the accumulators
          MulMag,           \* largest magnitude of a factor (8)
          MaxMag,           \* largest magnitude of an element (32)
          SW,               \* width of a word of the storage form (32)
          Byte, Chunk,      \* width of a byte (8), of the pieces it is cut in (2)
          Regs,             \* the elements of the caller
          Inputs,           \* the byte strings a caller reads, as numbers
          Ints,             \* small integers: set_int, mul_int
          MaxCalls          \* bound on the calls of a behaviour

ASSUME SizesAssumption ==
  /\ L \in Nat /\ L >= 4 /\ T \in 1 .. B /\ B < W /\ W <= A
  /\ C0 \in 1 .. 2^B - 1 /\ C1 \in 0 .. 2^B - 1 /\ 2 * MaxMag * (2^B - 1) < 2^W /\ 2 * MaxMag <= 2^T

Limb == 0 .. L - 1
Top  == L - 1
Bits == B * Top + T
M    == 2^B - 1
P    == 2^Bits - C1 * 2^B - C0

Word(x) == x % 2^W
Acc(x)  == x % 2^A

\* The limbs of the modulus: 0x3FFFC2F, 0x3FFFFBF, 0x3FFFFFF, ..., 0x03FFFFF.
PLimb == [i \in Limb |-> CASE i = 0 -> M - C0 + 1 [] i = 1 -> M - C1
                           [] i = Top -> 2^T - 1 [] OTHER -> M]

\* The number that limbs stand for.
Val(n) ==
  LET v[i \in 0 .. L] == IF i = 0 THEN 0 ELSE v[i - 1] + n[i - 1] * 2^(B * (i - 1))
  IN  v[L]

---------------------------------------------------------------------------
(* Normalisation. *)

\* x times 2^Bits, folded into the two lowest limbs.
FoldTop(t, x) == [t EXCEPT ![0] = Word(@ + x * C0), ![1] = Word(@ + x * C1)]

\* The carry from limb to limb, up to the top one, which is left as it is.
Carry(t) ==
  LET s[i \in Limb] == IF i = 0 THEN t[0] ELSE Word(t[i] + s[i - 1] \div 2^B)
  IN  [i \in Limb |-> IF i = Top THEN s[i] ELSE s[i] % 2^B]

\* The first pass of every normalisation.
FirstPass(n) == Carry(FoldTop([n EXCEPT ![Top] = @ % 2^T], n[Top] \div 2^T))

\* A normal form in Bits bits that is p or more.
AtLeastP(t) ==
  /\ t[Top] = 2^T - 1
  /\ \A i \in 2 .. Top - 1 : t[i] = M
  /\ t[1] + C1 + (t[0] + C0) \div 2^B > M

fe(n, magnitude, normalized) == [n |-> n, magnitude |-> magnitude, normalized |-> normalized]

fe_verify(a) ==
  LET m == IF a.normalized THEN 1 ELSE 2 * a.magnitude
  IN  /\ \A i \in Limb : a.n[i] \in 0 .. m * (IF i = Top THEN 2^T - 1 ELSE M)
      /\ a.magnitude \in 0 .. MaxMag
      /\ a.normalized => a.magnitude <= 1 /\ ~ AtLeastP(a.n)

fe_normalize_weak(a) == fe(FirstPass(a.n), 1, a.normalized)

Mask(t) == [t EXCEPT ![Top] = @ % 2^T]

\* The final reduction is computed always, with x = 0 or 1.
NormalizeNoTest(a) ==
  LET t == FirstPass(a.n) IN fe(Mask(Carry(FoldTop(t, t[Top] \div 2^T))), 1, TRUE)
fe_normalize(a) ==
  LET t == FirstPass(a.n)
      x == IF AtLeastP(t) THEN 1 ELSE t[Top] \div 2^T
  IN  fe(Mask(Carry(FoldTop(t, x))), 1, TRUE)

\* The variable-time form skips it where it changes nothing.
NormalizeVarNoMask(a) ==
  LET t == FirstPass(a.n)
  IN  fe(IF t[Top] \div 2^T # 0 \/ AtLeastP(t) THEN Carry(FoldTop(t, 1)) ELSE t, 1, TRUE)
fe_normalize_var(a) ==
  LET t == FirstPass(a.n)
  IN  IF t[Top] \div 2^T # 0 \/ AtLeastP(t)
        THEN fe(Mask(Carry(FoldTop(t, 1))), 1, TRUE)
        ELSE fe(t, 1, TRUE)

\* After the first pass zero is either 0 or p.
ZeroOnlyRaw(a) == \A i \in Limb : FirstPass(a.n)[i] = 0
fe_normalizes_to_zero(a) ==
  LET t == FirstPass(a.n) IN t = PLimb \/ \A i \in Limb : t[i] = 0

\* The lowest limb settles most cases before the others are read.
fe_normalizes_to_zero_var(a) ==
  LET t0 == Word(a.n[0] + (a.n[Top] \div 2^T) * C0) % 2^B
      t  == FirstPass(a.n)
  IN  /\ t0 = 0 \/ t0 = PLimb[0]
      /\ t = PLimb \/ \A i \in Limb : t[i] = 0

---------------------------------------------------------------------------
(* Setting, testing and converting. *)

Zero == [i \in Limb |-> 0]

fe_set_int(k) == fe([Zero EXCEPT ![0] = k], 1, TRUE)
fe_clear      == fe(Zero, 0, TRUE)
fe_is_zero(a) == \A i \in Limb : a.n[i] = 0
fe_is_odd(a)  == a.n[0] % 2 = 1

\* The sign of a - b: the highest limb in which they differ decides.
fe_cmp_var(a, b) ==
  LET D == {i \in Limb : a.n[i] # b.n[i]}
  IN  IF D = {} THEN 0 ELSE IF a.n[Max(D)] > b.n[Max(D)] THEN 1 ELSE -1

\* Big-endian byte strings and the pieces of Chunk bits that they are cut in.
NBytes     == Bits \div Byte
Bytes(v)   == [k \in 0 .. NBytes - 1 |-> (v \div 2^(Byte * (NBytes - 1 - k))) % 2^Byte]
Pieces     == (0 .. NBytes - 1) \X (0 .. Byte \div Chunk - 1)
PieceLimb(q)  == (Byte * q[1] + Chunk * q[2]) \div B
PieceShift(q) == (Byte * q[1] + Chunk * q[2]) % B

\* The limbs of a byte string; the call fails where they are p or more.
FromBytes(s) ==
  [l \in Limb |-> MapThenSumSet(
     LAMBDA q : ((s[NBytes - 1 - q[1]] \div 2^(Chunk * q[2])) % 2^Chunk) * 2^PieceShift(q),
     {q \in Pieces : PieceLimb(q) = l})]

fe_get_b32(a) ==
  [k \in 0 .. NBytes - 1 |-> MapThenSumSet(
     LAMBDA q : ((a.n[PieceLimb(q)] \div 2^PieceShift(q)) % 2^Chunk) * 2^(Chunk * q[2]),
     {q \in Pieces : q[1] = NBytes - 1 - k})]

\* The packed form: bit j of word w is bit SW*w+j of the number.
BitOf(a, k)      == (a.n[k \div B] \div 2^(k % B)) % 2
fe_to_storage(a) ==
  [w \in 0 .. Bits \div SW - 1 |->
     MapThenSumSet(LAMBDA j : BitOf(a, SW * w + j) * 2^j, 0 .. SW - 1)]
LimbBits(l) == IF l = Top THEN T ELSE B
fe_from_storage(s) ==
  fe([l \in Limb |-> MapThenSumSet(
        LAMBDA j : ((s[(B * l + j) \div SW] \div 2^((B * l + j) % SW)) % 2) * 2^j,
        0 .. LimbBits(l) - 1)], 1, TRUE)

---------------------------------------------------------------------------
(* Arithmetic. *)

\* 2(m+1)p - a, limb by limb.
fe_negate(a, m) == fe([i \in Limb |-> Word(PLimb[i] * 2 * (m + 1) - a.n[i])], m + 1, FALSE)

fe_mul_int(a, k) == fe([i \in Limb |-> Word(a.n[i] * k)], a.magnitude * k, FALSE)

fe_add(r, a) == fe([i \in Limb |-> Word(r.n[i] + a.n[i])], r.magnitude + a.magnitude, FALSE)

\* 2^Bits = C1*2^B + C0 (mod p), shifted to a multiple of 2^B.
R0 == C0 * 2^(B - T)
R1 == C1 * 2^(B - T)

\* Column k of the schoolbook product.
Column(a, b, k) ==
  Acc(MapThenSumSet(LAMBDA i : a[i] * b[k - i], {i \in Limb : k - i \in Limb}))

\* The same column of a square: a product of different limbs is taken once,
\* with one factor doubled in a word.
SqrColumn(a, k) ==
  Acc(MapThenSumSet(LAMBDA i : IF 2 * i = k THEN a[i] * a[i] ELSE Word(a[i] * 2) * a[k - i],
                    {i \in Limb : k - i \in Limb /\ 2 * i <= k}))

\* d = p9 is what the columns above the top start from; its low bits are t9.
MulStart(p) ==
  [t |-> [Zero EXCEPT ![Top] = p[Top] % 2^B], c |-> 0, d |-> p[Top] \div 2^B]

\* One limb t_k of the result: column L+k, whose low bits u fold into column k.
MulStepNoR1(m, p, k) ==
  LET d == Acc(m.d + p[L + k])  u == d % 2^B  c == Acc(m.c + p[k] + u * R0)
  IN  [t |-> [m.t EXCEPT ![k] = c % 2^B], c |-> c \div 2^B, d |-> d \div 2^B]
MulStep(m, p, k) ==
  LET d == Acc(m.d + p[L + k])
      u == d % 2^B
      c == Acc(m.c + p[k] + u * R0)
  IN  [t |-> [m.t EXCEPT ![k] = c % 2^B], c |-> Acc(c \div 2^B + u * R1), d |-> d \div 2^B]

\* The top limb keeps T bits; the rest folds into limbs 0 and 1 and carries
\* into limb 2, which keeps the carry.
MulTail(m) ==
  LET c  == Acc(m.c + m.d * R0 + m.t[Top])
      cc == Acc(c \div 2^T + m.d * R1 * 2^(B - T))
      d0 == Acc(cc * C0 + m.t[0])
      d1 == Acc(d0 \div 2^B + cc * C1 + m.t[1])
      d2 == d1 \div 2^B + m.t[2]
  IN  [m.t EXCEPT ![Top] = c % 2^T, ![0] = d0 % 2^B, ![1] = d1 % 2^B, ![2] = Word(d2)]

Reduced(p) ==
  LET s[k \in 0 .. Top] == IF k = 0 THEN MulStart(p) ELSE MulStep(s[k - 1], p, k - 1)
  IN  MulTail(s[Top])

\* a column above the last one is empty
fe_mul_inner(a, b) == Reduced([k \in 0 .. 2 * L - 1 |-> Column(a, b, k)])
fe_sqr_inner(a)    == Reduced([k \in 0 .. 2 * L - 1 |-> SqrColumn(a, k)])

fe_mul(a, b) == fe(fe_mul_inner(a.n, b.n), 1, FALSE)
fe_sqr(a)    == fe(fe_sqr_inner(a.n), 1, FALSE)

fe_cmov(r, a, flag) ==
  fe(IF flag THEN a.n ELSE r.n, Max({r.magnitude, a.magnitude}), r.normalized /\ a.normalized)

fe_equal(a, b) == fe_normalizes_to_zero(fe_add(fe_negate(a, 1), b))

---------------------------------------------------------------------------
(* The calls. *)

VARIABLES reg,    \* the elements of the caller
          live,   \* those that hold a result: a failed set_b32 leaves none
          last,   \* the last call
          calls   \* how many were made

fieldVars == <<reg, live, last, calls>>

\* The caller has read some elements already.
FieldInit ==
  /\ reg \in [Regs -> {fe_clear} \union
                    {fe(FromBytes(Bytes(v)), 1, TRUE) : v \in {i \in Inputs : i < P}}]
  /\ live = Regs
  /\ last = <<"none">>
  /\ calls = 0

\* The call sets r to v.
Set(r, v, call) ==
  /\ calls < MaxCalls
  /\ reg' = [reg EXCEPT ![r] = v]
  /\ live' = live \union {r}
  /\ last' = call
  /\ calls' = calls + 1

SetInt(r, k) == Set(r, fe_set_int(k), <<"set", r, k>>)
Clear(r)     == Set(r, fe_clear, <<"set", r, 0>>)

\* A string of p or more leaves its limbs and the old magnitude behind.
fe_set_b32(r, v) ==
  LET n == FromBytes(Bytes(v))
  IN  \/ ~ AtLeastP(n) /\ Set(r, fe(n, 1, TRUE), <<"set", r, v>>)
      \/ /\ AtLeastP(n) /\ calls < MaxCalls
         /\ reg' = [reg EXCEPT ![r].n = n]
         /\ live' = live \ {r}
         /\ last' = <<"overflow", r>>
         /\ calls' = calls + 1

NormalizeWeak(r) == r \in live /\ Set(r, fe_normalize_weak(reg[r]), <<"same", r>>)
Normalize(r)     == r \in live /\ Set(r, fe_normalize(reg[r]), <<"same", r>>)
NormalizeVar(r)  == r \in live /\ Set(r, fe_normalize_var(reg[r]), <<"same", r>>)

Negate(r, a, m) ==
  /\ a \in live /\ reg[a].magnitude <= m /\ m < MaxMag
  /\ Set(r, fe_negate(reg[a], m), <<"negate", r, a>>)

MulInt(r, k) ==
  /\ r \in live /\ reg[r].magnitude * k <= MaxMag
  /\ Set(r, fe_mul_int(reg[r], k), <<"mul_int", r, k>>)

Add(r, a) ==
  /\ {r, a} \subseteq live /\ reg[r].magnitude + reg[a].magnitude <= MaxMag
  /\ Set(r, fe_add(reg[r], reg[a]), <<"add", r, a>>)

Mul(r, a, b) ==
  /\ r # b /\ {a, b} \subseteq live /\ reg[a].magnitude <= MulMag /\ reg[b].magnitude <= MulMag
  /\ Set(r, fe_mul(reg[a], reg[b]), <<"mul", r, a, b>>)

Sqr(r, a) ==
  /\ a \in live /\ reg[a].magnitude <= MulMag
  /\ Set(r, fe_sqr(reg[a]), <<"mul", r, a, a>>)

Cmov(r, a, flag) ==
  /\ {r, a} \subseteq live
  /\ Set(r, fe_cmov(reg[r], reg[a], flag), <<"move", r, IF flag THEN a ELSE r>>)

FieldNext == \E r \in Regs :
  \/ \E k \in Ints : SetInt(r, k) \/ MulInt(r, k)
  \/ Clear(r)
  \/ \E v \in Inputs : fe_set_b32(r, v)
  \/ NormalizeWeak(r) \/ Normalize(r) \/ NormalizeVar(r)
  \/ \E a \in Regs :
       \/ \E m \in 1 .. MaxMag - 1 : Negate(r, a, m)
       \/ Add(r, a) \/ Sqr(r, a)
       \/ \E b \in Regs : Mul(r, a, b)
       \/ \E flag \in BOOLEAN : Cmov(r, a, flag)

---------------------------------------------------------------------------
(* What the library promises. *)

\* The library's own check of an element (fe_verify): every limb is within the
\* bound of its magnitude, and a normalized element is below p.  It is to hold
\* after every call that the VERIFY_CHECKs of its callee allow.
FeVerify == \A r \in live : fe_verify(reg[r])

\* Both normalisations give the limbs of the residue, and the weak one an
\* element of magnitude 1 with the same residue, for every element a caller
\* can reach, whatever its magnitude: no word overflows on the way.
NormalForm ==
  \A r \in live :
    LET a == reg[r] IN
    /\ Val(fe_normalize(a).n) = Val(a.n) % P
    /\ fe_normalize_var(a) = fe_normalize(a)
    /\ Val(fe_normalize_weak(a).n) % P = Val(a.n) % P
    /\ fe_normalize_weak(a).n[Top] < 2^(T + 1)

\* What is read from an element is that of its residue, for every element a
\* caller can reach: the tests for zero and for equality, which do not normalise
\* their operand, and of a normalized one the order, the parity, the bytes and
\* the storage form, from both of which it comes back.
ReadsAgree ==
  \A r, s \in live :
    LET a == reg[r]  b == reg[s] IN
    /\ fe_normalizes_to_zero(a) <=> Val(a.n) % P = 0
    /\ fe_normalizes_to_zero_var(a) <=> Val(a.n) % P = 0
    /\ a.magnitude <= 1 /\ b.magnitude < MaxMag - 1
         => (fe_equal(a, b) <=> Val(a.n) % P = Val(b.n) % P)
    /\ a.normalized /\ b.normalized
         => /\ fe_cmp_var(a, b) = (IF Val(a.n) > Val(b.n) THEN 1
                                   ELSE IF Val(a.n) < Val(b.n) THEN -1 ELSE 0)
            /\ fe_is_zero(a) <=> Val(a.n) % P = 0
            /\ fe_is_odd(a) <=> (Val(a.n) % P) % 2 = 1
    /\ a.normalized => /\ fe_get_b32(a) = Bytes(Val(a.n))
                       /\ FromBytes(fe_get_b32(a)) = a.n
                       /\ fe_from_storage(fe_to_storage(a)).n = a.n

\* The calls compute in the integers modulo p: see ResidueField.
Residue == [r \in Regs |-> Val(reg[r].n) % P]
F == INSTANCE ResidueField WITH Modulus <- P, res <- Residue

\* Seen as residues, every call does what the field of p elements does, or
\* nothing: no carry, fold or accumulator loses anything.
ImplementsField == F!Spec
===============================================================================
