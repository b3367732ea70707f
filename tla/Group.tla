--------------------------------- MODULE Group ---------------------------------
(***************************************************************************)
(* The curve y^2 = x^3 + 7 of libsecp256k1 (group_impl.h): affine points,  *)
(* Jacobian points (X/Z^2, Y/Z^3) and the formulas that add them.  A field *)
(* element is here its value and its magnitude, <<v, m>>; FieldLimbs shows *)
(* that the limbs compute the value as long as the magnitudes stay within  *)
(* what the library's VERIFY_CHECKs allow.  A call outside them gives the  *)
(* magnitude Broken, which no later call takes away, so that the           *)
(* magnitudes written in the comments of the code are checked here.        *)
(*                                                                         *)
(* The state is a caller's accumulator and, for the properties only, the   *)
(* multiple of the generator that it is meant to hold.                     *)
(***************************************************************************)
EXTENDS Integers, Sequences, FiniteSets

CONSTANTS FieldP,       \* the field prime, 3 modulo 4
          GX, GY,       \* the generator
          N,            \* the order of the curve
          CURVE_B,      \* 7
          Others,       \* the multiples of the generator a caller adds
          Scales        \* field values, not 0: denominators, factors

ASSUME CurveAssumption ==
  /\ FieldP % 4 = 3 /\ GX \in 0 .. FieldP - 1 /\ GY \in 1 .. FieldP - 1
  /\ (GY * GY) % FieldP = (GX * GX * GX + CURVE_B) % FieldP
  /\ Others \subseteq 0 .. N - 1 /\ Scales \subseteq 1 .. FieldP - 1

---------------------------------------------------------------------------
(* Field elements with their magnitudes. *)

MaxFactor == 8     \* fe_mul, fe_sqr
MaxFe     == 32    \* any element
Broken    == MaxFe + 1

fe(v, m) == <<v % FieldP, IF m > MaxFe THEN Broken ELSE m>>

set_int(v) == fe(v, 1)
mul(a, b)  == fe(a[1] * b[1], IF a[2] > MaxFactor \/ b[2] > MaxFactor THEN Broken ELSE 1)
sqr(a)     == mul(a, a)
negate(a, m) == fe(FieldP - a[1], IF a[2] > m THEN Broken ELSE m + 1)
plus(a, b) == fe(a[1] + b[1], a[2] + b[2])
mul_int(a, k) == fe(a[1] * k, a[2] * k)
normalize(a) == fe(a[1], IF a[2] > MaxFe THEN Broken ELSE 1)
cmov(r, a, flag) == fe(IF flag THEN a[1] ELSE r[1], IF a[2] > r[2] THEN a[2] ELSE r[2])
to_zero(a) == a[1] = 0 /\ a[2] # Broken
equal(a, b) == to_zero(plus(negate(a, 1), b))

\* The powers that the addition chains of fe_inv and fe_sqrt compute (AddChains).
Powers(e) ==
  LET pow[v \in 0 .. FieldP - 1, k \in 0 .. e] ==
        IF k = 0 THEN 1 ELSE (v * pow[v, k - 1]) % FieldP
  IN  [v \in 0 .. FieldP - 1 |-> pow[v, e]]
Inverses == Powers(FieldP - 2)
Roots    == Powers((FieldP + 1) \div 4)

Factor(a)  == IF a[2] > MaxFactor THEN Broken ELSE 1

inv(a)  == fe(Inverses[a[1]], Factor(a))
RootOf(a, r) == [root |-> r, ok |-> equal(sqr(r), a)]
sqrt(a) == RootOf(a, fe(Roots[a[1]], Factor(a)))
is_quad_var(a) == sqrt(a).ok

InvAllShifted(a) ==
  LET len == Len(a)
      r[i \in 1 .. len] == IF i = 1 THEN a[1] ELSE mul(r[i - 1], a[i])
      u[i \in 1 .. len] == IF i = len THEN inv(r[len]) ELSE mul(u[i + 1], a[i])
  IN  [i \in 1 .. len |-> IF i = 1 THEN u[1] ELSE mul(r[i - 1], u[i])]

\* The inverses of a sequence of elements, for the price of one inversion.
inv_all_var(a) ==
  LET len == Len(a)
      r[i \in 1 .. len] == IF i = 1 THEN a[1] ELSE mul(r[i - 1], a[i])
      u[i \in 1 .. len] == IF i = len THEN inv(r[len]) ELSE mul(u[i + 1], a[i + 1])
  IN  [i \in 1 .. len |-> IF i = 1 THEN u[1] ELSE mul(r[i - 1], u[i])]

---------------------------------------------------------------------------
(* Points. *)

ge(x, y, infinity)     == [x |-> x, y |-> y, infinity |-> infinity]
gej(x, y, z, infinity) == [x |-> x, y |-> y, z |-> z, infinity |-> infinity]

Fe  == (0 .. FieldP - 1) \X (0 .. Broken)
Gej == [x : Fe, y : Fe, z : Fe, infinity : BOOLEAN]

const_g == ge(set_int(GX), set_int(GY), FALSE)
ge_neg(a)  == [a EXCEPT !.y = negate(normalize(@), 1)]
gej_neg(a) == [a EXCEPT !.y = negate(normalize(@), 1)]
gej_set_infinity == gej(fe(0, 0), fe(0, 0), fe(0, 0), TRUE)
gej_clear        == gej(fe(0, 0), fe(0, 0), fe(0, 0), FALSE)
gej_set_ge(a)    == gej(a.x, a.y, set_int(1), a.infinity)

set_gej_zinv(a, zi) ==
  LET zi2 == sqr(zi)
      zi3 == mul(zi2, zi)
  IN  ge(mul(a.x, zi2), mul(a.y, zi3), a.infinity)

\* set_gej works on the coordinates of infinity too; set_gej_var leaves the
\* result's as they were, and sets only the flag.
set_gej(a)        == set_gej_zinv(a, inv(a.z))
set_gej_var(r, a) == IF a.infinity THEN [r EXCEPT !.infinity = TRUE] ELSE set_gej_zinv(a, inv(a.z))

\* A sequence of points at once: the infinities have no part in the inversion.
set_all_gej_var(r, a) ==
  LET finite == SelectSeq(a, LAMBDA p : ~p.infinity)
      azi    == inv_all_var([i \in 1 .. Len(finite) |-> finite[i].z])
      count(i) == Cardinality({j \in 1 .. i : ~a[j].infinity})
  IN  [i \in 1 .. Len(a) |-> IF a[i].infinity THEN [r[i] EXCEPT !.infinity = TRUE]
                                              ELSE set_gej_zinv(a[i], azi[count(i)])]

\* A table whose z-ratios zr[i] = a[i].z / a[i-1].z are known: backwards from
\* the last point, made affine, or brought to the z of the last point.
set_table_gej_var(a, zr) ==
  LET len == Len(a)
      zi[i \in 1 .. len] == IF i = len THEN inv(a[len].z) ELSE mul(zi[i + 1], zr[i + 1])
  IN  [i \in 1 .. len |-> set_gej_zinv(a[i], zi[i])]

globalz_set_table_gej(a, zr) ==
  LET len == Len(a)
      zs[i \in 1 .. len - 1] == IF i = len - 1 THEN zr[len] ELSE mul(zs[i + 1], zr[i + 1])
  IN  [globalz |-> a[len].z,
       pre |-> [i \in 1 .. len |-> IF i = len THEN ge(a[i].x, a[i].y, FALSE)
                                              ELSE set_gej_zinv(a[i], zs[i])]]

WithY(x, y)  == [ge |-> ge(x, y.root, FALSE), ok |-> y.ok]
set_xquad(x) == WithY(x, sqrt(plus(set_int(CURVE_B), mul(x, sqr(x)))))

WithParity(q, odd) ==
  LET y == normalize(q.ge.y)
  IN  IF ~q.ok THEN q ELSE [q EXCEPT !.ge.y = IF (y[1] % 2 = 1) # odd THEN negate(y, 1) ELSE y]
set_xo_var(x, odd) == WithParity(set_xquad(x), odd)

gej_eq_x_var(x, a) == equal(mul(sqr(a.z), x), normalize(a.x))

gej_is_valid_var(a) ==
  /\ ~a.infinity
  /\ LET x3 == mul(sqr(a.x), a.x)
         z2 == sqr(a.z)
         z6 == mul_int(mul(sqr(z2), z2), CURVE_B)
     IN  equal(sqr(a.y), normalize(plus(x3, z6)))

ge_is_valid_var(a) ==
  /\ ~a.infinity
  /\ equal(sqr(a.y), normalize(plus(mul(sqr(a.x), a.x), set_int(CURVE_B))))

gej_has_quad_y_var(a) == ~a.infinity /\ is_quad_var(mul(a.y, a.z))

ge_to_storage(a)   == <<normalize(a.x)[1], normalize(a.y)[1]>>
ge_from_storage(s) == ge(set_int(s[1]), set_int(s[2]), FALSE)
---------------------------------------------------------------------------
(* Addition.  The result goes where the first operand was, as at every call  *)
(* whose result can be infinity: of that result only the flag is then set,   *)
(* and the old coordinates stay below it.                                    *)

\* t1 is 3X^2, t2 its square, t3 is 2XY^2 and t4 is 8Y^4.
Tangent(t1, t2, t3, t4, z) ==
  gej(plus(negate(mul_int(t3, 4), 4), t2),
      plus(mul(t1, plus(mul_int(t3, 6), negate(t2, 1))), negate(t4, 2)), z, FALSE)

double_var(a) ==
  LET t1 == mul_int(sqr(a.x), 3)
      y2 == mul_int(sqr(a.y), 2)
  IN  IF a.infinity THEN a
      ELSE Tangent(t1, sqr(t1), mul(y2, a.x), mul_int(sqr(y2), 2), mul_int(mul(a.z, a.y), 2))

\* For a caller that knows it has no infinity: one is recorded as an operand out of bounds.
double_nonzero(a) == IF a.infinity THEN [a EXCEPT !.x = fe(0, Broken)] ELSE double_var(a)

\* x and y of the sum, over a common denominator: h and i are the differences of
\* the x and of the y, s1 is Y1, t is X1 h^2.
ChordX(t, h3, i) == plus(negate(plus(mul_int(t, 2), h3), 3), sqr(i))
ChordY(x, t, s1, h3, i) == plus(mul(plus(negate(x, 5), t), i), negate(mul(h3, s1), 1))
Chord(t, s1, h3, i, z) ==
  LET x == ChordX(t, h3, i) IN gej(x, ChordY(x, t, s1, h3, i), z, FALSE)

\* The two points have the same x: the same point, or opposite ones.
SameX(a, i) == IF to_zero(i) THEN double_var(a) ELSE [a EXCEPT !.infinity = TRUE]

SumOf(a, u1, s1, h, i, z) ==
  IF to_zero(h) THEN SameX(a, i) ELSE Chord(mul(u1, sqr(h)), s1, mul(h, sqr(h)), i, z)

gej_add_var(a, b) ==
  LET z22 == sqr(b.z)
      z12 == sqr(a.z)
      u1  == mul(a.x, z22)
      s1  == mul(mul(a.y, z22), b.z)
      h   == plus(negate(u1, 1), mul(b.x, z12))
      i   == plus(negate(s1, 1), mul(mul(b.y, z12), a.z))
  IN  IF a.infinity THEN b
      ELSE IF b.infinity THEN a
      ELSE SumOf(a, u1, s1, h, i, mul(a.z, mul(h, b.z)))

\* The differences when the second point has denominator 1, az being the first's.
DiffX(a, az, b) == plus(negate(normalize(a.x), 1), mul(b.x, sqr(az)))
DiffY(a, az, b) == plus(negate(normalize(a.y), 1), mul(mul(b.y, sqr(az)), az))

gej_add_ge_var(a, b) ==
  LET h == DiffX(a, a.z, b)
  IN  IF a.infinity THEN gej_set_ge(b)
      ELSE IF b.infinity THEN a
      ELSE SumOf(a, normalize(a.x), normalize(a.y), h, DiffY(a, a.z, b), mul(a.z, h))

\* What gej_add_ge_var tells through rzr: the new z over the old one.
add_ge_rzr(a, b) ==
  LET h == DiffX(a, a.z, b)
  IN  IF b.infinity THEN set_int(1)
      ELSE IF ~to_zero(h) THEN h
      ELSE IF to_zero(DiffY(a, a.z, b)) THEN mul_int(normalize(a.y), 2)
      ELSE set_int(0)

\* b stands for (b.x, b.y, 1/bzinv): both denominators are scaled by bzinv, and
\* the factor is left out of the result's.
gej_add_zinv_var(a, b, bzinv) ==
  LET az == mul(a.z, bzinv)
      h  == DiffX(a, az, b)
      scaled == set_gej_zinv(b, bzinv)
  IN  IF b.infinity THEN a
      ELSE IF a.infinity THEN gej_set_ge(scaled)
      ELSE SumOf(a, normalize(a.x), normalize(a.y), h, DiffY(a, az, b), mul(a.z, h))

AddGeNoDegenerate(m, rr) == FALSE

\* R/M is 0/0: opposite y, and x that differ by a cube root of one.
Degenerate(m, rr) == to_zero(m) /\ to_zero(rr)

\* The branch-free addition of an affine point other than infinity, from its end:
\* the point, or b when a is infinity; x; the slope R/M, or the other one.
UnifiedPoint(a, b, x, z, q, rr_alt, n) ==
  LET y == normalize(negate(plus(mul(plus(mul_int(x, 2), q), rr_alt), n), 3))
  IN  gej(cmov(mul_int(x, 4), b.x, a.infinity), cmov(mul_int(y, 4), b.y, a.infinity),
          cmov(mul_int(z, 2), set_int(1), a.infinity), to_zero(z) /\ ~a.infinity)

UnifiedX(a, b, t, m, rr_alt, m_alt, degenerate) ==
  LET q == negate(mul(sqr(m_alt), t), 1)
      n == cmov(sqr(sqr(m_alt)), m, degenerate)
  IN  UnifiedPoint(a, b, normalize(plus(sqr(rr_alt), q)), mul(a.z, m_alt), q, rr_alt, n)

UnifiedSlope(a, b, u1, u2, s1, t, m, rr) ==
  LET degenerate == Degenerate(m, rr)
      rr_alt == cmov(mul_int(s1, 2), rr, ~degenerate)
      m_alt  == cmov(plus(negate(u2, 1), u1), m, ~degenerate)
  IN  UnifiedX(a, b, t, m, rr_alt, m_alt, degenerate)

gej_add_ge(a, b) ==
  LET zz == sqr(a.z)
      u1 == normalize(a.x)
      u2 == mul(b.x, zz)
      s1 == normalize(a.y)
      s2 == mul(mul(b.y, zz), a.z)
      t  == plus(u1, u2)
      rr == plus(sqr(t), mul(u1, negate(u2, 1)))
  IN  UnifiedSlope(a, b, u1, u2, s1, t, plus(s1, s2), rr)

gej_rescale(r, s) ==
  LET zz == sqr(s)
  IN  [r EXCEPT !.x = mul(@, zz), !.y = mul(mul(@, zz), s), !.z = mul(@, s)]
---------------------------------------------------------------------------
(* The reference: the affine group law by chords and tangents, infinity     *)
(* being <<>>, and the multiples of the generator.                          *)

Mod(x) == x % FieldP
Third(p, q, slope) ==
  LET x == Mod(slope * slope - p[1] - q[1]) IN <<x, Mod(slope * (p[1] - x) - p[2])>>
ChordTangent(p, q) ==
  IF p = <<>> THEN q
  ELSE IF q = <<>> THEN p
  ELSE IF p = q THEN Third(p, q, Mod(3 * p[1] * p[1] * Inverses[Mod(2 * p[2])]))
  ELSE IF p[1] = q[1] THEN <<>>
  ELSE Third(p, q, Mod((q[2] - p[2]) * Inverses[Mod(q[1] - p[1])]))

Multiple ==
  LET m[k \in 0 .. N - 1] == IF k = 0 THEN <<>> ELSE ChordTangent(m[k - 1], <<GX, GY>>)
  IN  [k \in 0 .. N - 1 |-> m[k]]

\* The point that coordinates stand for.
Affine(a) == IF a.infinity THEN <<>> ELSE <<a.x[1], a.y[1]>>
Point(a)  ==
  LET zi == Inverses[a.z[1]]
  IN  IF a.infinity THEN <<>> ELSE <<Mod(a.x[1] * zi * zi), Mod(Mod(a.y[1] * zi * zi) * zi)>>

\* k times the generator as a caller's affine point, and over the denominator z.
ge_of(k)     == IF k = 0 THEN ge(fe(0, 0), fe(0, 0), TRUE) ELSE ge_from_storage(Multiple[k])
gej_of(k, z) == gej_rescale(gej_set_ge(ge_of(k)), set_int(z))

---------------------------------------------------------------------------
(* A caller's accumulator: any sequence of calls, with any points. *)

VARIABLES acc, dlog

groupVars == <<acc, dlog>>

GroupInit == acc = gej_set_infinity /\ dlog = 0

To(p, k) == acc' = p /\ dlog' = k % N

DoubleVar == To(double_var(acc), 2 * dlog)
AddVar    == \E k \in Others, z \in Scales : To(gej_add_var(acc, gej_of(k, z)), dlog + k)
AddGeVar  == \E k \in Others : To(gej_add_ge_var(acc, ge_of(k)), dlog + k)
AddGe     == \E k \in Others \ {0} : To(gej_add_ge(acc, ge_of(k)), dlog + k)
AddZinvVar == \E k \in Others, z \in Scales :
                To(gej_add_zinv_var(acc, set_gej_zinv(gej_set_ge(ge_of(k)), inv(set_int(z))),
                                    set_int(z)), dlog + k)
Neg     == To(gej_neg(acc), N - dlog)
Rescale == \E s \in Scales : To(gej_rescale(acc, set_int(s)), dlog)
SetGej  == To(gej_set_ge(set_gej(acc)), dlog)
SetInfinity == To(gej_set_infinity, 0)
\* The point with this x and an odd or even y, when there is one.
SetXo == \E x \in 0 .. FieldP - 1, odd \in BOOLEAN :
           LET q == set_xo_var(set_int(x), odd)
           IN  /\ q.ok
               /\ To(gej_set_ge(q.ge), CHOOSE k \in 1 .. N - 1 :
                       Multiple[k][1] = x /\ (Multiple[k][2] % 2 = 1) = odd)

GroupNext == DoubleVar \/ AddVar \/ AddGeVar \/ AddGe \/ AddZinvVar \/ Neg \/ Rescale
             \/ SetGej \/ SetInfinity \/ SetXo
---------------------------------------------------------------------------
(* Whatever the calls and whatever the points, infinity with any coordinates *)
(* below it, equal and opposite points and the points that share a y         *)
(* included, the accumulator is the sum: the formulas of double_var,         *)
(* add_var, add_ge_var, add_zinv_var, add_ge, neg and rescale agree with     *)
(* the group law in every case they distinguish, and no call of them takes a *)
(* field element beyond the magnitude that the VERIFY_CHECKs of fe_mul,      *)
(* fe_negate and fe_add allow.                                               *)
GroupLaw ==
  /\ Point(acc) = Multiple[dlog]
  /\ \A c \in {acc.x, acc.y, acc.z} : c[2] # Broken

\* The tests on a Jacobian point say what they say of the affine one
\* (gej_is_valid_var, gej_eq_x_var for every x, gej_has_quad_y_var), and
\* converting several points at once, with infinities among them, gives each its
\* own affine point, as does converting one (ge_set_all_gej_var with its shared
\* inversion, ge_set_gej, ge_set_gej_var, the storage form).
PointReads ==
  /\ gej_is_valid_var(acc) <=> dlog # 0
  /\ ~acc.infinity =>
       /\ \A x \in 0 .. FieldP - 1 : gej_eq_x_var(set_int(x), acc) <=> x = Multiple[dlog][1]
       /\ gej_has_quad_y_var(acc) <=> \E r \in 1 .. FieldP - 1 : Mod(r * r) = Multiple[dlog][2]
  /\ LET many == <<acc, gej_set_infinity, double_var(acc), acc, gej_neg(acc)>>
         r    == [i \in 1 .. 5 |-> const_g]
         all  == set_all_gej_var(r, many)
     IN  \A i \in 1 .. 5 : Affine(all[i]) = Point(many[i])
  /\ Affine(set_gej(acc)) = Point(acc)
  /\ Affine(set_gej_var(const_g, acc)) = Point(acc)
  /\ ~acc.infinity => /\ ge_is_valid_var(set_gej(acc))
                      /\ ge_to_storage(set_gej(acc)) = Point(acc)
                      /\ Affine(ge_from_storage(Point(acc))) = Point(acc)
===============================================================================
