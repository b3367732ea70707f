-------------------------------- MODULE Ecmult --------------------------------
(***************************************************************************)
(* Multiplication by a scalar (ecmult_impl.h, ecmult_const_impl.h,         *)
(* ecmult_gen_impl.h): na*A + ng*G by signed windows over tables of odd    *)
(* multiples, q*A without branches on q, and k*G from a table blinded by a *)
(* point nobody knows the multiple of, behind the context's own blinding.  *)
(* A scalar is a residue modulo N (ScalarLimbs), NBits of them wide, 256   *)
(* in the code; the endomorphism is not compiled and not modelled.         *)
(***************************************************************************)
EXTENDS Group, FiniteSetsExt

CONSTANTS NBits,              \* width of a scalar (256)
          WINDOW_A, WINDOW_G, \* widths of the windows (5 and 16)
          GenBits, GenCount,  \* ecmult_gen: bits of a window (4), windows (64)
          NumsX,              \* x of the point of unknown multiple
          Scalars,            \* the scalars a caller multiplies by
          Ctxs,               \* ecmult_gen contexts
          MaxBlinds           \* bound on the calls of ecmult_gen_blind

ASSUME WindowAssumption ==
  /\ 2^(NBits - 1) <= N /\ N < 2^NBits /\ N % 2 = 1
  /\ WINDOW_A \in 3 .. NBits /\ WINDOW_G \in 2 .. NBits /\ GenBits * GenCount >= NBits
  /\ Scalars \subseteq 0 .. N - 1

TableSize(w) == 2^(w - 2)

get_bits(s, i, count) == (s \div 2^i) % 2^count
is_high(s)            == s > N \div 2
scalar_negate(s)      == (N - s) % N

---------------------------------------------------------------------------
(* Signed windows. *)

\* A window's bits and what the window below it borrowed.
WindowWord(s, bit, now, carry) == get_bits(s, bit, now) + carry

\* wnaf[i], i = 0 .. NBits - 1, and the number of digits up to the last set.
ecmult_wnaf(a, w) ==
  LET negative == get_bits(a, NBits - 1, 1) = 1
      s    == IF negative THEN scalar_negate(a) ELSE a
      sign == IF negative THEN -1 ELSE 1
      go[bit \in Nat, carry \in {0, 1}, set \in Nat, out \in Seq(Int)] ==
        IF bit >= NBits THEN [wnaf |-> out, bits |-> set, carry |-> carry]
        ELSE IF get_bits(s, bit, 1) = carry THEN go[bit + 1, carry, set, out]
        ELSE LET now  == IF w > NBits - bit THEN NBits - bit ELSE w
                 word == WindowWord(s, bit, now, carry)
                 up   == get_bits(word, w - 1, 1)
             IN  go[bit + now, up, bit + 1, [out EXCEPT ![bit + 1] = sign * (word - up * 2^w)]]
  IN  go[0, 0, 0, [i \in 1 .. NBits |-> 0]]

NegOneSkewed(s) == TRUE

\* Adding two to minus one would overflow.
NotNegOne(s) == scalar_negate(s) # 1

ConstSize(w) == (NBits + w - 1) \div w

\* Odd digits of w bits, none of them 0, of s plus a skew of 1 or 2.
wnaf_const(s, w) ==
  LET flip == is_high(s)
      bit  == IF flip # (s % 2 = 1) THEN 1 ELSE 0
      moved == IF NotNegOne(s) THEN s + 2^bit ELSE s
      start == IF flip THEN scalar_negate(moved) ELSE moved
      sign  == (IF flip THEN -1 ELSE 1) * (IF NotNegOne(s) THEN 1 ELSE -1)
      go[rest \in Nat, u_last \in Int, out \in Seq(Int)] ==
        LET u    == rest % 2^w
            even == u % 2 = 0
            dir  == IF u_last > 0 THEN 1 ELSE -1
            next == IF even THEN u + dir ELSE u
            digit == IF even THEN u_last - dir * 2^w ELSE u_last
        IN  IF Len(out) * w >= NBits
            THEN [wnaf |-> Append(out, u_last * sign), skew |-> 2^bit, rest |-> rest]
            ELSE go[rest \div 2^w, next, Append(out, digit * sign)]
  IN  go[start \div 2^w, start % 2^w, <<>>]

---------------------------------------------------------------------------
(* Tables of odd multiples. *)

\* prej[i] and zr[i] for 1, 3, ..., 2n-1 times a, on the isomorphism where 2a
\* is affine; only the last z is corrected, the others are never read.
OddTable(n, prej, d) ==
  [prej |-> [i \in 1 .. n |-> IF i = n THEN [prej[n] EXCEPT !.z = mul(@, d.z)] ELSE prej[i]],
   zr   |-> [i \in 1 .. n |-> IF i = 1 THEN d.z ELSE add_ge_rzr(prej[i - 1], ge(d.x, d.y, FALSE))]]
OddMultiples(n, a, d) ==
  LET a_ge == set_gej_zinv(a, d.z)
      prej[i \in 1 .. n] == IF i = 1 THEN gej(a_ge.x, a_ge.y, a.z, FALSE)
                                     ELSE gej_add_ge_var(prej[i - 1], ge(d.x, d.y, FALSE))
  IN  OddTable(n, prej, d)
odd_multiples_table(n, a) == OddMultiples(n, a, double_var(a))

Globalz(t) == globalz_set_table_gej(t.prej, t.zr)
Stored(t)  == LET prea == set_table_gej_var(t.prej, t.zr)
              IN  [i \in DOMAIN prea |-> ge_to_storage(prea[i])]

table_globalz_windowa(a) == Globalz(odd_multiples_table(TableSize(WINDOW_A), a))
table_storage_var(n, a)  == Stored(odd_multiples_table(n, a))

Abs(n) == IF n > 0 THEN n ELSE -n

TABLE_GET_GE(pre, n) == IF n > 0 THEN pre[(n + 1) \div 2] ELSE ge_neg(pre[(Abs(n) + 1) \div 2])
TABLE_GET_GE_STORAGE(pre, n) ==
  LET r == ge_from_storage(pre[(Abs(n) + 1) \div 2]) IN IF n > 0 THEN r ELSE ge_neg(r)

\* Without a branch: every entry is moved, the right one stays, and the magnitude is the
\* largest of them.
Selected(coords, here) == fe(coords[here][1], Max({coords[m][2] : m \in DOMAIN coords}))
CONST_TABLE_GET_GE(pre, n) ==
  LET idx_n == Abs(n) \div 2 + 1
      y     == Selected([m \in DOMAIN pre |-> pre[m].y], idx_n)
  IN  ge(Selected([m \in DOMAIN pre |-> pre[m].x], idx_n), cmov(y, negate(y, 1), n # Abs(n)), FALSE)

\* The table of the generator that the verification context keeps.
pre_g == table_storage_var(TableSize(WINDOW_G), gej_set_ge(const_g))
---------------------------------------------------------------------------
(* The multiplications. *)

Digit(naf, i) == IF i <= naf.bits THEN naf.wnaf[i] ELSE 0

\* One bit of ecmult: double, then add the digit of na and that of ng.  The
\* table of a has denominator Z, that of the generator denominator 1.
AddDigitA(r, pre_a, n) == IF n = 0 THEN r ELSE gej_add_ge_var(r, TABLE_GET_GE(pre_a, n))
AddDigitG(r, Z, n)     == IF n = 0 THEN r
                          ELSE gej_add_zinv_var(r, TABLE_GET_GE_STORAGE(pre_g, n), Z)
EcmultBit(r, table, n_a, n_g) ==
  AddDigitG(AddDigitA(double_var(r), table.pre, n_a), table.globalz, n_g)

EcmultEnd(r, globalz) == IF r.infinity THEN r ELSE [r EXCEPT !.z = mul(@, globalz)]
EcmultLoop(table, naf_a, naf_g) ==
  LET bits == IF naf_g.bits > naf_a.bits THEN naf_g.bits ELSE naf_a.bits
      go[i \in Nat, r \in Gej] ==
        IF i = 0 THEN r ELSE go[i - 1, EcmultBit(r, table, Digit(naf_a, i), Digit(naf_g, i))]
  IN  EcmultEnd(go[bits, gej_set_infinity], table.globalz)

ecmult(a, na, ng) ==
  EcmultLoop(table_globalz_windowa(a), ecmult_wnaf(na, WINDOW_A), ecmult_wnaf(ng, WINDOW_G))

Doubled(p, times) ==
  LET d[j \in Nat, r \in Gej] == IF j = 0 THEN r ELSE d[j - 1, double_var(r)] IN d[times, p]
DoubledNonzero(p, times) ==
  LET d[j \in Nat, r \in Gej] == IF j = 0 THEN r ELSE d[j - 1, double_nonzero(r)] IN d[times, p]

ConstLoop(a, w, naf, table) ==
  LET size  == ConstSize(w)
      pre_a == [i \in DOMAIN table.pre |-> [table.pre[i] EXCEPT !.y = normalize(@)]]
      go[i \in Nat, r \in Gej] ==
        IF i = 0 THEN r
        ELSE go[i - 1, gej_add_ge(DoubledNonzero(r, w), CONST_TABLE_GET_GE(pre_a, naf.wnaf[i]))]
      r == go[size, gej_set_ge(CONST_TABLE_GET_GE(pre_a, naf.wnaf[size + 1]))]
      twice == set_gej(double_var(gej_set_ge(a)))
      correction == ge_from_storage(ge_to_storage(IF naf.skew = 2 THEN twice ELSE a))
  IN  gej_add_ge([r EXCEPT !.z = mul(@, table.globalz)], ge_neg(correction))

\* a is affine and not infinity.
ecmult_const(a, scalar) ==
  ConstLoop(a, WINDOW_A - 1, wnaf_const(scalar, WINDOW_A - 1), table_globalz_windowa(gej_set_ge(a)))

\* The table of ecmult_gen: prec[j][i] = i * 2^(GenBits*j) * G + nums_j, where
\* the nums_j are multiples of the unknown point and add up to 0.
LastNums(j) == j = GenCount - 2

PrecFrom(nums) ==
  LET gbase[j \in 0 .. GenCount] == IF j = 0 THEN gej_set_ge(const_g) ELSE Doubled(gbase[j - 1], GenBits)
      numsbase[j \in 0 .. GenCount] ==
        IF j = 0 THEN nums
        ELSE LET twice == double_var(numsbase[j - 1])
             IN  IF LastNums(j - 1) THEN gej_add_var(gej_neg(twice), nums) ELSE twice
      row(j) == LET p[i \in 1 .. 2^GenBits] ==
                      IF i = 1 THEN numsbase[j] ELSE gej_add_var(p[i - 1], gbase[j])
                IN  [i \in 1 .. 2^GenBits |-> p[i]]
      affine(j) == set_all_gej_var([i \in 1 .. 2^GenBits |-> const_g], row(j))
  IN  [j \in 0 .. GenCount - 1 |-> [i \in 1 .. 2^GenBits |-> ge_to_storage(affine(j)[i])]]

prec == PrecFrom(gej_add_ge_var(gej_set_ge(set_xo_var(set_int(NumsX), FALSE).ge), const_g))

\* k*G as initial + (k + blind)*G.
ecmult_gen(ctx, gn) ==
  LET gnb == (gn + ctx.blind) % N
      go[j \in Nat, r \in Gej] ==
        IF j = GenCount THEN r
        ELSE go[j + 1, gej_add_ge(r, ge_from_storage(prec[j][get_bits(gnb, j * GenBits, GenBits) + 1]))]
  IN  go[0, ctx.initial]

BlindKeeps(b) == b

\* What blind becomes once initial is b*G.
NewBlind(b) == scalar_negate(b)

\* s and b are what the generator drew, neither of them 0.
gen_blind(ctx, reset, s, b) ==
  LET from == IF reset THEN [ctx EXCEPT !.initial = gej_neg(gej_set_ge(const_g)), !.blind = 1]
                       ELSE ctx
      scaled == [from EXCEPT !.initial = gej_rescale(@, s)]
  IN  [scaled EXCEPT !.initial = ecmult_gen(scaled, b), !.blind = NewBlind(b)]

---------------------------------------------------------------------------
(* The contexts of ecmult_gen: built, blinded again, cloned, cleared. *)

VARIABLES gen, blinds

genVars == <<gen, blinds>>

NoCtx == [built |-> FALSE, initial |-> gej_clear, blind |-> 0]
GenInit == gen = [c \in Ctxs |-> NoCtx] /\ blinds = 0

\* The values rfc6979 gives; those out of range or 0 are drawn again.
Drawn(c, reset) ==
  /\ blinds < MaxBlinds
  /\ blinds' = blinds + 1
  /\ \E s \in Scales, b \in Scalars \ {0} :
       gen' = [gen EXCEPT ![c] = gen_blind([@ EXCEPT !.built = TRUE], reset, set_int(s), b)]

GenBuild(c) == ~gen[c].built /\ Drawn(c, TRUE)
GenBlind(c, seeded) == gen[c].built /\ Drawn(c, ~seeded)
GenClone(dst, src) ==
  /\ ~gen[dst].built
  /\ gen' = [gen EXCEPT ![dst] = IF gen[src].built THEN gen[src] ELSE [@ EXCEPT !.built = FALSE]]
  /\ UNCHANGED blinds
GenClear(c) == gen' = [gen EXCEPT ![c] = NoCtx] /\ UNCHANGED blinds

GenNext == \E c \in Ctxs : \/ GenBuild(c)
                           \/ \E seeded \in BOOLEAN : GenBlind(c, seeded)
                           \/ \E d \in Ctxs : GenClone(c, d)
                           \/ GenClear(c)

---------------------------------------------------------------------------
(* A caller of the multiplications: the accumulator becomes the result. *)

Multiply == ~acc.infinity /\ \E na, ng \in Scalars : To(ecmult(acc, na, ng), na * dlog + ng)
MultiplyConst == ~acc.infinity /\ \E q \in Scalars : To(ecmult_const(set_gej(acc), q), q * dlog)

Exact(r, k) == Point(r) = Multiple[k] /\ \A f \in {r.x, r.y, r.z} : f[2] # Broken

\* Every context, blinded or not, cloned or rebuilt, gives the same multiples
\* of the generator: blind and initial of ecmult_gen stay opposite through
\* ecmult_gen_blind, whose own product uses the old pair.
GenExact == \A c \in Ctxs : gen[c].built =>
              \A k \in 0 .. N - 1 : Exact(ecmult_gen(gen[c], k), k)

\* The digits of ecmult_wnaf add up to the scalar, are odd and less than half a
\* window, have w - 1 zeros between two of them, and no carry is left over.
WnafForm(w) ==
  LET naf == ecmult_wnaf(dlog, w)
      sum[i \in 0 .. NBits] == IF i = 0 THEN 0 ELSE sum[i - 1] + naf.wnaf[i] * 2^(i - 1)
      set == {i \in 1 .. NBits : naf.wnaf[i] # 0}
  IN  /\ sum[NBits] % N = dlog /\ naf.carry = 0
      /\ \A i \in set : naf.wnaf[i] % 2 = 1 /\ Abs(naf.wnaf[i]) < 2^(w - 1) /\ i <= naf.bits
      /\ \A i, j \in set : i < j => j - i >= w

\* The digits of wnaf_const are all odd, within the table, and add up to the
\* scalar and its skew, for every scalar and minus one too; nothing is left.
ConstForm(w) ==
  LET naf == wnaf_const(dlog, w)
      sum[i \in 0 .. Len(naf.wnaf)] == IF i = 0 THEN 0 ELSE sum[i - 1] + naf.wnaf[i] * 2^(w * (i - 1))
  IN  /\ sum[Len(naf.wnaf)] % N = (dlog + naf.skew) % N
      /\ Len(naf.wnaf) = ConstSize(w) + 1 /\ naf.rest = 0
      /\ \A i \in 1 .. Len(naf.wnaf) : naf.wnaf[i] % 2 = 1 /\ Abs(naf.wnaf[i]) < 2^w

\* Both recodings of a scalar into signed digits, with and without branches on it,
\* have the form that the multiplications and their tables rely on, for every
\* scalar (ecmult_wnaf, wnaf_const).
Recodings == (\A w \in {WINDOW_A, WINDOW_G} : WnafForm(w)) /\ ConstForm(WINDOW_A - 1)
===============================================================================
