----------------------------- MODULE ScalarLimbs -----------------------------
(***************************************************************************)
(* The integers modulo the group order in limbs (scalar_8x32_impl.h).  A   *)
(* scalar is SL limbs of SB bits, always below the order                   *)
(* n = 2^(SL*SB) - N_C, where N_C has SH = SL/2 + 1 limbs and the highest  *)
(* of them is 1.  In the code SL = 8, SB = 32 and SH = 5.  A product of    *)
(* two scalars is accumulated column by column in three words and folded   *)
(* three times with 2^(SL*SB) = N_C (mod n).                               *)
(***************************************************************************)
EXTENDS Integers, Sequences, SequencesExt

CONSTANTS SL, SB,        \* limbs of a scalar and bits of a limb
          N_C,           \* the complement of the order
          SRegs,         \* the scalars of the caller
          SInputs,       \* the byte strings a caller reads, as numbers
          SBits,         \* the bits that cadd_bit adds
          Shifts,        \* the shifts of shr_int
          MaxSCalls      \* bound on the calls of a behaviour

SH    == SL \div 2 + 1
SLimb == 0 .. SL - 1
SBase == 2^SB
Order == SBase^SL - N_C

ASSUME ScalarSizes ==
  /\ SL \in Nat /\ SL >= 4 /\ SL % 2 = 0 /\ SB \in Nat /\ SB >= 2
  /\ N_C \div SBase^(SH - 1) = 1

LimbsOf(v, k) == [i \in 0 .. k - 1 |-> (v \div SBase^i) % SBase]
N    == LimbsOf(Order, SL)
NC   == LimbsOf(N_C, SH)
N_H  == LimbsOf(Order \div 2, SL)

\* The number that k limbs stand for.
SVal(d, k) ==
  LET v[i \in 0 .. k] == IF i = 0 THEN 0 ELSE v[i - 1] + d[i - 1] * SBase^(i - 1)
  IN  v[k]

---------------------------------------------------------------------------
(* Comparison and reduction. *)

\* A comparison from the top limb down with two flags; in the limbs of Skip,
\* which are all ones in b, a larger limb is not looked for.
Above(d, b, Skip) ==
  LET f[i \in SLimb] ==   \* flags <<yes, no>> after limbs i + 1 and above
        IF i = SL - 1 THEN <<FALSE, FALSE>>
        ELSE LET g == f[i + 1]
                 no == g[2] \/ (d[i + 1] < b[i + 1] /\ ~ g[1])
                 yes == g[1] \/ (d[i + 1] > b[i + 1] /\ ~ no /\ i + 1 \notin Skip)
             IN  <<yes, no>>
  IN  f[0]   \* before the lowest limb

\* 1 when the limbs are n or more.
CheckOverflowStrict(d) ==
  LET g == Above(d, N, SH .. SL - 1) IN IF g[1] \/ (d[0] > N[0] /\ ~ g[2]) THEN 1 ELSE 0
scalar_check_overflow(d) ==
  LET g == Above(d, N, SH .. SL - 1) IN IF g[1] \/ (d[0] >= N[0] /\ ~ g[2]) THEN 1 ELSE 0

scalar_is_high(d) ==
  LET g == Above(d, N_H, SH - 1 .. SL - 2) IN g[1] \/ (d[0] > N_H[0] /\ ~ g[2])

\* Limbwise sum of x and y with the carry; what leaves the top limb is in .c.
Summed(x, y) ==
  LET t[i \in SLimb] == x[i] + y[i] + (IF i = 0 THEN 0 ELSE t[i - 1] \div SBase)
  IN  [d |-> [i \in SLimb |-> t[i] % SBase], c |-> t[SL - 1] \div SBase]

NoLimbs == [i \in SLimb |-> 0]

\* Subtract n where overflow is 1, by adding N_C and dropping the carry.
scalar_reduce(d, overflow) ==
  Summed(d, [i \in SLimb |-> IF i < SH THEN overflow * NC[i] ELSE 0]).d

---------------------------------------------------------------------------
(* Small operations; a result is the scalar d and the value returned. *)

AddIgnoresCarry(a, b) ==
  LET s == Summed(a, b)
      o == scalar_check_overflow(s.d)
  IN  [d |-> scalar_reduce(s.d, o), ret |-> o]
scalar_add(a, b) ==
  LET s == Summed(a, b)
      o == s.c + scalar_check_overflow(s.d)
  IN  [d |-> scalar_reduce(s.d, o), ret |-> o]

\* bit SL*SB and above is nowhere: that is how flag = 0 adds nothing
scalar_cadd_bit(r, bit, flag) ==
  LET b == IF flag THEN bit ELSE bit + SL * SB
  IN  Summed(r, [i \in SLimb |-> IF b \div SB = i THEN 2^(b % SB) ELSE 0]).d

scalar_is_zero(a) == \A i \in SLimb : a[i] = 0
scalar_is_one(a)  == a[0] = 1 /\ \A i \in SLimb \ {0} : a[i] = 0
scalar_is_even(a) == a[0] % 2 = 0
scalar_eq(a, b)   == \A i \in SLimb : a[i] = b[i]

\* ~a + n + 1, forced to zero for zero.
scalar_negate(a) ==
  IF scalar_is_zero(a) THEN NoLimbs
  ELSE Summed([i \in SLimb |-> SBase - 1 - a[i]],
              [i \in SLimb |-> IF i = 0 THEN N[0] + 1 ELSE N[i]]).d

\* The same under a mask, and -1 or 1.
scalar_cond_negate(r, flag) ==
  LET x == [i \in SLimb |-> IF flag THEN SBase - 1 - r[i] ELSE r[i]]
      y == [i \in SLimb |-> IF ~ flag THEN 0 ELSE IF i = 0 THEN N[0] + 1 ELSE N[i]]
  IN  [d |-> IF scalar_is_zero(r) THEN NoLimbs ELSE Summed(x, y).d, ret |-> IF flag THEN -1 ELSE 1]

scalar_set_int(v) == LimbsOf(v, SL)
scalar_clear == NoLimbs

\* A byte string is read limb by limb and reduced once.
scalar_set_b32(v) ==
  LET d == LimbsOf(v, SL)
      o == scalar_check_overflow(d)
  IN  [d |-> scalar_reduce(d, o), ret |-> o]
scalar_get_b32(a) == SVal(a, SL)

\* count bits from offset: within a limb, or over two
scalar_get_bits(a, offset, count) == (a[offset \div SB] \div 2^(offset % SB)) % 2^count
scalar_get_bits_var(a, offset, count) ==
  IF (offset + count - 1) \div SB = offset \div SB
    THEN scalar_get_bits(a, offset, count)
    ELSE (a[offset \div SB] \div 2^(offset % SB)
            + a[offset \div SB + 1] * 2^(SB - (offset % SB))) % 2^count

scalar_shr_int(r, n) ==
  [d |-> [i \in SLimb |-> (r[i] \div 2^n
            + (IF i = SL - 1 THEN 0 ELSE r[i + 1] * 2^(SB - n))) % SBase],
   ret |-> r[0] % 2^n]

---------------------------------------------------------------------------
(* The accumulator <<c0, c1, c2>> and its macros. *)

w(x) == x % SBase
one(b) == IF b THEN 1 ELSE 0

muladd(c, a, b) ==
  LET tl == (a * b) % SBase
      c0 == w(c[1] + tl)
      th == (a * b) \div SBase + one(c0 < tl)
      c1 == w(c[2] + th)
  IN  <<c0, c1, w(c[3] + one(c1 < th))>>

\* as long as c1 does not overflow
muladd_fast(c, a, b) ==
  LET tl == (a * b) % SBase
      c0 == w(c[1] + tl)
      th == (a * b) \div SBase + one(c0 < tl)
  IN  <<c0, w(c[2] + th), c[3]>>

\* adds 2*a*b: the doubled high word, and its carry from below, may overflow twice
MulAdd2Once(c, a, b) ==
  LET th == (a * b) \div SBase   tl == (a * b) % SBase
      tl2 == w(tl + tl)   c0 == w(c[1] + tl2)
      th2 == w(w(th + th) + one(tl2 < tl) + one(c0 < tl2))   c1 == w(c[2] + th2)
  IN  <<c0, c1, w(c[3] + one(w(th + th) < th) + one(c1 < th2))>>
muladd2(c, a, b) ==
  LET th  == (a * b) \div SBase
      tl  == (a * b) % SBase
      tl2 == w(tl + tl)
      thx == w(w(th + th) + one(tl2 < tl))
      c0  == w(c[1] + tl2)
      th2 == w(thx + one(c0 < tl2))
      c1  == w(c[2] + th2)
  IN  <<c0, c1, w(c[3] + one(w(th + th) < th) + one(c0 < tl2 /\ th2 = 0) + one(c1 < th2))>>

sumadd(c, a) ==
  LET c0 == w(c[1] + a)
      c1 == w(c[2] + one(c0 < a))
  IN  <<c0, c1, w(c[3] + one(c1 < one(c0 < a)))>>
sumadd_fast(c, a) ==
  LET c0 == w(c[1] + a) IN <<c0, w(c[2] + one(c0 < a)), c[3]>>

\* What is left after the lowest word has been taken.
extract(c)      == <<c[2], c[3], 0>>
extract_fast(c) == <<c[2], 0, c[3]>>

---------------------------------------------------------------------------
(* Products.  Columns are summed in the accumulator one after the other;   *)
(* the lowest word of each is a limb of the result, and the rest carries.  *)

\* The pairs <<i, j>> with i + j = k, i below Li and j below Lj, j upwards.
Pairs(k, Li, Lj) ==
  SelectSeq([j \in 1 .. Lj |-> <<k - (j - 1), j - 1>>], LAMBDA q : q[1] \in 0 .. Li - 1)

\* Column k of a product is summed into c; the first and the last are a single product.
MulColumn(c, a, b, k) ==
  IF k \in {0, 2 * SL - 2}
    THEN muladd_fast(c, a[k \div 2], b[k \div 2])
    ELSE FoldLeft(LAMBDA x, q : muladd(x, a[q[2]], b[q[1]]), c, Pairs(k, SL, SL))

\* The square takes the pairs of different limbs once, doubled, then the middle.
SqrColumn512(c, a, k) ==
  LET q == SelectSeq(Pairs(k, SL, SL), LAMBDA ij : ij[2] < ij[1])
      x == FoldLeft(LAMBDA y, ij : muladd2(y, a[ij[2]], a[ij[1]]), c, q)
  IN  IF k \in {0, 2 * SL - 2} THEN muladd_fast(c, a[k \div 2], a[k \div 2])
      ELSE IF k % 2 = 0 THEN muladd(x, a[k \div 2], a[k \div 2]) ELSE x

\* Columns 0 to end after one another, from accumulator c0: a column's lowest
\* word is out, the last one's carry is the top limb.
Columns(Column(_, _), c0, end) ==
  LET go[k \in Nat, c \in Seq(Nat), out \in Seq(Nat)] ==
        IF k > end THEN Append(out, c[1])
        ELSE LET x == Column(c, k)
             IN  go[k + 1, IF k \in {0, end} THEN extract_fast(x) ELSE extract(x),
                    Append(out, x[1])]
      limbs == go[0, c0, <<>>]
  IN  [i \in 0 .. end + 1 |-> limbs[i + 1]]

scalar_mul_512(a, b) == Columns(LAMBDA c, k : MulColumn(c, a, b, k), <<0, 0, 0>>, 2 * SL - 2)
scalar_sqr_512(a)    == Columns(LAMBDA c, k : SqrColumn512(c, a, k), <<0, 0, 0>>, 2 * SL - 2)

\* Column k of lo + hi * N_C, where hi has h limbs: the limb of lo, the
\* products with the lower limbs of N_C, the limb of hi under its top limb 1.
\* The accumulator starts from limb 0 of lo.
FoldColumn(c, lo, hi, h, k) ==
  LET s == CASE k = 0 \/ k >= SL -> c
             [] k = 1 -> sumadd_fast(c, lo[1])
             [] OTHER -> sumadd(c, lo[k])
      m == FoldLeft(LAMBDA x, q : muladd(x, hi[q[1]], NC[q[2]]), s, Pairs(k, h, SH - 1))
      t == k - (SH - 1)
  IN  IF k = 0 THEN muladd_fast(c, hi[0], NC[0])
      ELSE IF t \in 0 .. h - 1 THEN sumadd(m, hi[t]) ELSE m

\* 2*SL limbs to SL + SH: m = l[0..SL-1] + l[SL..] * N_C.
Reduce385(l) ==
  LET n   == [i \in SLimb |-> l[SL + i]]
      end == SL + SH - 2
  IN  Columns(LAMBDA c, k : IF k = end THEN sumadd_fast(c, n[SL - 1])
                            ELSE FoldColumn(c, l, n, SL, k), <<l[0], 0, 0>>, end)

\* SL + SH limbs to SL + 1: p = m[0..SL-1] + m[SL..] * N_C.
Reduce258(m) ==
  LET hi  == [i \in 0 .. SH - 1 |-> m[SL + i]]
      end == SL - 1
      p   == Columns(LAMBDA c, k :
               IF k = end THEN sumadd_fast(muladd_fast(sumadd_fast(c, m[end]),
                                             hi[SH - 1], NC[SH - 2]), hi[SH - 2])
               ELSE FoldColumn(c, m, hi, SH, k), <<m[0], 0, 0>>, end)
  IN  [p EXCEPT ![SL] = w(@ + hi[SH - 1])]

\* SL + 1 limbs, the last at most 2, to SL, and the last reduction.
Reduce256(p) ==
  LET s == Summed(p, [i \in SLimb |-> IF i < SH THEN NC[i] * p[SL] ELSE 0])
  IN  scalar_reduce(s.d, s.c + scalar_check_overflow(s.d))

scalar_reduce_512(l) == Reduce256(Reduce258(Reduce385(l)))

scalar_mul(a, b) == scalar_reduce_512(scalar_mul_512(a, b))
scalar_sqr(a)    == scalar_reduce_512(scalar_sqr_512(a))

---------------------------------------------------------------------------
(* The calls. *)

VARIABLES sreg, slast, scalls

scalarVars == <<sreg, slast, scalls>>

ScalarInit ==
  /\ sreg \in [SRegs -> {scalar_set_b32(v).d : v \in SInputs}]
  /\ slast = <<"none">>
  /\ scalls = 0

SSet(r, d, call) ==
  /\ scalls < MaxSCalls
  /\ sreg' = [sreg EXCEPT ![r] = d]
  /\ slast' = call
  /\ scalls' = scalls + 1

SSetInt(r, v) == v < SBase /\ SSet(r, scalar_set_int(v), <<"set", r, v, 0>>)
SClear(r) == SSet(r, scalar_clear, <<"set", r, 0, 0>>)
SSetB32(r, v) == LET x == scalar_set_b32(v) IN SSet(r, x.d, <<"set", r, v, x.ret>>)
SAdd(r, a, b) ==
  LET x == scalar_add(sreg[a], sreg[b]) IN SSet(r, x.d, <<"add", r, a, b, x.ret>>)
SCaddBit(r, bit, flag) ==
  /\ flag => SVal(sreg[r], SL) + 2^bit < Order      \* the VERIFY_CHECKs at its end
  /\ SSet(r, scalar_cadd_bit(sreg[r], bit, flag), <<"cadd_bit", r, bit, flag>>)
SNegate(r, a) == SSet(r, scalar_negate(sreg[a]), <<"negate", r, a>>)
SCondNegate(r, flag) ==
  LET x == scalar_cond_negate(sreg[r], flag) IN SSet(r, x.d, <<"cond_negate", r, flag, x.ret>>)
SShrInt(r, n) == LET x == scalar_shr_int(sreg[r], n) IN SSet(r, x.d, <<"shr", r, n, x.ret>>)
SMul(r, a, b) == SSet(r, scalar_mul(sreg[a], sreg[b]), <<"mul", r, a, b>>)
SSqr(r, a)    == SSet(r, scalar_sqr(sreg[a]), <<"mul", r, a, a>>)

ScalarNext == \E r \in SRegs :
  \/ \E v \in SInputs : SSetB32(r, v) \/ SSetInt(r, v)
  \/ SClear(r)
  \/ \E bit \in SBits, flag \in BOOLEAN : SCaddBit(r, bit, flag)
  \/ \E flag \in BOOLEAN : SCondNegate(r, flag)
  \/ \E n \in Shifts : SShrInt(r, n)
  \/ \E a \in SRegs :
       \/ SNegate(r, a) \/ SSqr(r, a)
       \/ \E b \in SRegs : SAdd(r, a, b) \/ SMul(r, a, b)

---------------------------------------------------------------------------
(* What the library promises. *)

\* The double-width product and square are exact: no macro that leaves out a
\* carry, and no doubled word, loses one; and the folds that follow keep the
\* bounds that the code checks: one bit after the first, at most 2 after the
\* second.
ProductExact ==
  \A r, s \in SRegs :
    LET a == sreg[r]  b == sreg[s]
        l == scalar_mul_512(a, b)  m == Reduce385(l)  p == Reduce258(m)
    IN  /\ SVal(l, 2 * SL) = SVal(a, SL) * SVal(b, SL)
        /\ r = s => scalar_sqr_512(a) = l
        /\ SVal(m, SL + SH) % Order = SVal(l, 2 * SL) % Order /\ m[SL + SH - 1] <= 1
        /\ SVal(p, SL + 1) % Order = SVal(l, 2 * SL) % Order /\ p[SL] <= 2

\* The tests and the bit windows read the number that the limbs stand for,
\* with all the comparisons that the code leaves out because of the shape of n.
ScalarTests ==
  \A r, s \in SRegs :
    LET a == sreg[r]  v == SVal(a, SL) IN
    /\ v < Order
    /\ scalar_is_high(a) <=> v > Order \div 2
    /\ scalar_is_zero(a) <=> v = 0
    /\ scalar_is_one(a) <=> v = 1
    /\ scalar_is_even(a) <=> v % 2 = 0
    /\ scalar_eq(a, sreg[s]) <=> v = SVal(sreg[s], SL)
    /\ \A offset \in 0 .. SL * SB - 1 : \A count \in 1 .. SB :
         offset + count <= SL * SB
           => scalar_get_bits_var(a, offset, count) = (v \div 2^offset) % 2^count

S == INSTANCE ScalarLow
       WITH EXHAUSTIVE_TEST_ORDER <- Order, num <- [r \in SRegs |-> scalar_get_b32(sreg[r])]

\* Every call does, and returns, what the library's reference representation
\* (one machine integer modulo a small order) does and returns.
ImplementsLow == S!Spec
===============================================================================
