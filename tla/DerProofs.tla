------------------------------- MODULE DerProofs -------------------------------
(***************************************************************************)
(* The DER parser of libsecp256k1, for every input: it reads inside the    *)
(* input, accepts exactly the encodings of two integers, and gives their   *)
(* scalars; and what the writer writes is read back.                       *)
(***************************************************************************)
EXTENDS Der, WellFoundedInduction, SequenceTheorems, TLAPS

Strings == Seq(0 .. Full)

---------------------------------------------------------------------------
(* Least and greatest elements, in place of induction.                     *)

\* A nonempty set of natural numbers has a least element.
LEMMA LeastOf ==
  ASSUME NEW T \in SUBSET Nat, T # {}
  PROVE  \E n \in T : \A m \in T : n <= m
<1> DEFINE R == {ss \in Nat \X Nat : ss[1] < ss[2]}
<1>1. IsWellFoundedOn(R, Nat)
  BY NatLessThanWellFounded DEF OpToRel
<1>2. PICK n \in T : \A m \in T : <<m, n>> \notin R
  <2> HIDE DEF R
  <2> QED BY <1>1, WFMin, ZenonT(40)
<1>3. ASSUME NEW m \in T PROVE n <= m
  <2>1. <<m, n>> \notin R
    BY <1>2
  <2>2. <<m, n>> \in Nat \X Nat /\ <<m, n>>[1] = m /\ <<m, n>>[2] = n
    OBVIOUS
  <2>3. ~(m < n)
    BY <2>1, <2>2
  <2> QED BY <2>3
<1> QED BY <1>3

\* What Min of the community modules gives for a set of octets.
LEMMA MinOf ==
  ASSUME NEW T \in SUBSET Nat, T # {}
  PROVE  Min(T) \in T
BY LeastOf, ZenonT(40) DEF Min

\* What Max gives for a set of counts.
LEMMA MaxOf ==
  ASSUME NEW n \in Nat, NEW T \in SUBSET (0 .. n), T # {}
  PROVE  Max(T) \in T /\ \A k \in T : k <= Max(T)
<1> DEFINE U == {n - k : k \in T}
<1>1. U \in SUBSET Nat /\ U # {}
  <2>1. PICK k \in T : TRUE
    BY ZenonT(40)
  <2>2. n - k \in U
    BY <2>1
  <2> QED BY <2>2
<1>2. PICK u \in U : \A v \in U : u <= v
  <2> HIDE DEF U
  <2> QED BY <1>1, LeastOf
<1>3. PICK k \in T : u = n - k
  OBVIOUS
<1>4. \A j \in T : k >= j
  BY <1>2, <1>3
<1> QED BY <1>4 DEF Max

---------------------------------------------------------------------------

\* A byte that is read is a byte.
LEMMA AtByte ==
  ASSUME NEW sig \in Strings, NEW at \in Nat
  PROVE  At(sig, at) \in 0 .. Full
<1>1. Half \in Nat /\ Half > 0
  BY DerAssumption
<1>2. 0 \in 0 .. Full
  BY <1>1 DEF Full, Base
<1>3. at < Len(sig) => sig[at + 1] \in 0 .. Full
  <2> SUFFICES ASSUME at < Len(sig) PROVE sig[at + 1] \in 0 .. Full
    OBVIOUS
  <2>1. at + 1 \in 1 .. Len(sig)
    BY LenProperties DEF Strings
  <2> QED BY <2>1, ElementOfSeq, ZenonT(40) DEF Strings
<1> QED BY <1>2, <1>3 DEF At

\* A size that is an int is returned as it is.
LEMMA IntKept ==
  ASSUME NEW n \in Nat
  PROVE  AsInt(n) \in Int /\ (n <= IntMax => AsInt(n) = n)
<1>1. IntMax \in Nat
  BY DerAssumption
<1>2. PICK d : d = 2 * (IntMax + 1)
  BY Zenon
<1>3. d \in Nat /\ d > 0 /\ IntMax < d
  BY <1>1, <1>2
<1>4. n % d \in Int /\ (n < d => n % d = n)
  BY <1>3
<1>5. AsInt(n) = IF n % d <= IntMax THEN n % d ELSE (n % d) - d
  BY <1>2, Zenon DEF AsInt
<1> QED BY <1>1, <1>3, <1>4, <1>5

\* What a length read at an offset says about the rest of the input.
LengthRead(sig, at, l) ==
  /\ l.seen \in Int /\ l.seen < Len(sig) /\ l.len \in Int
  /\ l.len >= 0 => l.at \in Nat /\ at < l.at /\ l.at <= Len(sig)

\* The long form reads its octets only, and ends before the end.
LEMMA LongFormReads ==
  ASSUME NEW sig \in Strings, NEW first \in Nat, NEW count \in Nat,
         count > 0, first + count <= Len(sig)
  PROVE  LET l == LongForm(sig, first, count)
         IN  /\ LengthRead(sig, first, l)
<1> DEFINE end    == first + count
           ret(j) == ValueOf(SubSeq(sig, first + 1, first + j))
           beyond == {j \in 1 .. count : ret(j) \notin 0 .. Len(sig) - end}
<1>1. CASE beyond # {}
  <2>1. Min(beyond) \in 1 .. count
    <3>1. beyond \in SUBSET Nat /\ beyond \in SUBSET (1 .. count)
      OBVIOUS
    <3> HIDE DEF beyond
    <3> QED BY <1>1, <3>1, MinOf, ZenonT(40)
  <2>2. LongForm(sig, first, count) = Failed(first + Min(beyond) - 1, first + Min(beyond) - 1)
    BY <1>1 DEF LongForm
  <2> HIDE DEF beyond
  <2> QED BY <2>1, <2>2 DEF Failed, LengthRead, Strings
<1>2. CASE beyond = {}
  <2>1. ret(count) \in 0 .. Len(sig) - end
    <3>1. count \in 1 .. count
      OBVIOUS
    <3> HIDE DEF ret, end
    <3> QED BY <1>2, <3>1
  <2>2. LongForm(sig, first, count) = IF ret(count) < Half THEN Failed(end, end - 1)
                                      ELSE [len |-> AsInt(ret(count)), at |-> end, seen |-> end - 1]
    BY <1>2 DEF LongForm
  <2>3. Half \in Nat /\ Len(sig) \in Nat /\ AsInt(ret(count)) \in Int
    <3>1. ret(count) \in Nat
      BY <2>1
    <3>2. AsInt(ret(count)) \in Int
      BY <3>1, IntKept, Zenon
    <3> QED BY <3>2, DerAssumption, LenProperties DEF Strings
  <2> HIDE DEF ret
  <2>4. CASE ret(count) < Half
    BY <2>1, <2>2, <2>3, <2>4 DEF Failed, LengthRead
  <2>5. CASE ~(ret(count) < Half)
    BY <2>1, <2>2, <2>3, <2>5 DEF LengthRead
  <2> QED BY <2>4, <2>5
<1> QED BY <1>1, <1>2

\* der_read_len reads inside the input, and ends inside it.
LEMMA ReadLenReads ==
  ASSUME NEW sig \in Strings, NEW at \in Nat
  PROVE  LengthRead(sig, at, der_read_len(sig, at))
<1> DEFINE b1   == At(sig, at)
           left == b1 - Half
<1>1. /\ Half \in Nat /\ Half > 0 /\ SizeT \in Nat /\ Len(sig) \in Nat
      /\ b1 \in 0 .. Full /\ b1 \in Int
  <2>1. Half \in Nat /\ Half > 0 /\ SizeT \in Nat /\ Len(sig) \in Nat
    BY DerAssumption, LenProperties DEF Strings
  <2>2. b1 \in 0 .. Full
    BY AtByte
  <2> HIDE DEF b1
  <2> QED BY <2>1, <2>2
<1> HIDE DEF b1
<1>2. CASE at >= Len(sig)
  BY <1>1, <1>2 DEF der_read_len, Failed, LengthRead
<1>3. CASE at < Len(sig) /\ b1 < Half /\ b1 # Full
  <2>1. der_read_len(sig, at) = [len |-> b1, at |-> at + 1, seen |-> at]
    BY <1>1, <1>3 DEF der_read_len, b1
  <2> QED BY <1>1, <1>3, <2>1 DEF LengthRead
<1>4. CASE at < Len(sig) /\ (b1 = Full \/ (~(b1 < Half) /\ (b1 = Half \/ left > Len(sig) - (at + 1))))
  <2>1. der_read_len(sig, at) = Failed(at + 1, at)
    BY <1>1, <1>4 DEF der_read_len, b1
  <2> QED BY <1>1, <1>4, <2>1 DEF LengthRead, Failed
<1>5. CASE /\ at < Len(sig) /\ b1 # Full /\ ~(b1 < Half) /\ b1 # Half
           /\ ~(left > Len(sig) - (at + 1))
  <2>1. left \in Nat /\ left > 0 /\ (at + 1) + left <= Len(sig)
    BY <1>1, <1>5
  <2>2. CASE At(sig, at + 1) = 0 \/ left > SizeT
    <3>1. der_read_len(sig, at) = Failed(at + 1, at + 1)
      BY <1>1, <1>5, <2>2 DEF der_read_len, b1
    <3> QED BY <1>1, <2>1, <3>1 DEF LengthRead, Failed
  <2>3. CASE ~(At(sig, at + 1) = 0 \/ left > SizeT)
    <3>1. der_read_len(sig, at) = LongForm(sig, at + 1, left)
      BY <1>1, <1>5, <2>3 DEF der_read_len, b1
    <3>2. LengthRead(sig, at + 1, LongForm(sig, at + 1, left))
      BY <2>1, LongFormReads
    <3> QED BY <1>1, <3>1, <3>2 DEF LengthRead
  <2> QED BY <2>2, <2>3
<1> QED BY <1>1, <1>2, <1>3, <1>4, <1>5

\* What an integer read at an offset says about the rest of the input.
IntegerRead(sig, n) ==
  /\ n.seen \in Int /\ n.seen < Len(sig)
  /\ n.ok => n.at \in Nat /\ n.at <= Len(sig) /\ n.r \in 0 .. GroupOrder - 1

\* The zeros in front are counted inside the contents, and there is a byte after
\* them unless all are zeros.
LEMMA IntegerAtReads ==
  ASSUME NEW sig \in Strings, NEW at \in Nat, NEW len \in Nat,
         len > 0, at + len <= Len(sig)
  PROVE  IntegerRead(sig, IntegerAt(sig, at, len))
<1> DEFINE runs   == {n \in 0 .. len : \A i \in 1 .. n : At(sig, at + i - 1) = 0}
           zeros  == Max(runs)
           digits == SubSeq(sig, at + zeros + 1, at + len)
           copied == At(sig, at) < Half /\ len - zeros <= Bytes
<1>1. Len(sig) \in Nat /\ GroupOrder \in Nat \ {0} /\ Bytes \in Nat
  BY DerAssumption, LenProperties DEF Strings
<1>2. zeros \in runs
  <2>1. 0 \in runs
    OBVIOUS
  <2>2. runs \in SUBSET (0 .. len)
    OBVIOUS
  <2> HIDE DEF runs
  <2> QED BY <2>1, <2>2, MaxOf, ZenonT(40)
<1>3. zeros \in 0 .. len /\ \A i \in 1 .. zeros : At(sig, at + i - 1) = 0
  BY <1>2
<1>4. ~copied => zeros < len
  <2> SUFFICES ASSUME zeros = len PROVE copied
    BY <1>3
  <2>1. 1 \in 1 .. zeros /\ at + 1 - 1 = at
    BY <1>3
  <2>2. At(sig, at) = 0
    BY <1>3, <2>1
  <2>3. 0 < Half
    BY DerAssumption
  <2> HIDE DEF zeros
  <2> QED BY <1>1, <2>2, <2>3
<1>5. IntegerAt(sig, at, len) =
        [ok |-> TRUE, at |-> at + len,
         r |-> IF copied /\ ValueOf(digits) \in 0 .. GroupOrder - 1 THEN ValueOf(digits) ELSE 0,
         seen |-> IF copied THEN at + len - 1 ELSE at + zeros]
  BY DEF IntegerAt
<1> HIDE DEF zeros, digits, copied
<1> QED BY <1>1, <1>3, <1>4, <1>5 DEF IntegerRead

\* der_parse_integer reads inside the input, and ends inside it.
LEMMA ParseIntegerReads ==
  ASSUME NEW sig \in Strings, NEW at \in Nat, at <= Len(sig)
  PROVE  IntegerRead(sig, der_parse_integer(sig, at))
<1> DEFINE l    == der_read_len(sig, at + 1)
           seen == Highest(at, l.seen)
           p    == Padded(sig, l.at, l.len)
           n    == IntegerAt(sig, l.at, l.len)
<1>1. Len(sig) \in Nat /\ LengthRead(sig, at + 1, l)
  BY ReadLenReads, LenProperties DEF Strings
<1> HIDE DEF l
<1>2. CASE at = Len(sig) \/ At(sig, at) # IntTag
  BY <1>1, <1>2 DEF der_parse_integer, IntegerAfter, NoInteger, IntegerRead
<1>3. CASE at < Len(sig) /\ At(sig, at) = IntTag
  <2>1. seen \in Int /\ seen < Len(sig)
    BY <1>1, <1>3 DEF LengthRead, Highest
  <2> HIDE DEF seen
  <2>2. CASE l.len <= 0 \/ l.at + l.len > Len(sig)
    <3>1. der_parse_integer(sig, at) = NoInteger(seen)
      BY <1>3, <2>2 DEF der_parse_integer, IntegerAfter, l, seen
    <3> QED BY <2>1, <3>1 DEF NoInteger, IntegerRead
  <2>3. CASE ~(l.len <= 0 \/ l.at + l.len > Len(sig))
    <3>1. l.len \in Nat /\ l.len > 0 /\ l.at \in Nat /\ l.at + l.len <= Len(sig)
      BY <1>1, <2>3 DEF LengthRead
    <3>2. IntegerRead(sig, n) /\ n.ok
      BY <3>1, IntegerAtReads, ZenonT(40) DEF IntegerAt
    <3>3. p.seen \in Int /\ p.seen < Len(sig)
      BY <1>1, <3>1 DEF Padded
    <3>4. Highest(seen, p.seen) \in Int /\ Highest(seen, p.seen) < Len(sig)
      BY <1>1, <2>1, <3>3 DEF Highest
    <3>5. CASE p.bad
      <4>1. der_parse_integer(sig, at) = NoInteger(Highest(seen, p.seen))
        BY <1>3, <2>3, <3>5 DEF der_parse_integer, IntegerAfter, l, seen
      <4> QED BY <3>4, <4>1 DEF NoInteger, IntegerRead
    <3>6. CASE ~p.bad
      <4>1. der_parse_integer(sig, at) = [n EXCEPT !.seen = Highest(Highest(seen, p.seen), @)]
        BY <1>3, <2>3, <3>6 DEF der_parse_integer, IntegerAfter, l, seen
      <4>2. DOMAIN n = {"ok", "at", "r", "seen"}
        BY DEF IntegerAt
      <4> HIDE DEF n, p
      <4>3. LET m == der_parse_integer(sig, at)
            IN  /\ m.ok = n.ok /\ m.at = n.at /\ m.r = n.r
                /\ m.seen = Highest(Highest(seen, p.seen), n.seen)
        BY <4>1, <4>2
      <4> QED BY <1>1, <3>2, <3>4, <4>3 DEF IntegerRead, Highest
    <3> QED BY <3>5, <3>6
  <2> QED BY <2>2, <2>3
<1> QED BY <1>1, <1>2, <1>3

\* Every read of ecdsa_sig_parse is inside the input, and what it gives are
\* scalars, for every string of bytes.
LEMMA SigParseReads ==
  ASSUME NEW sig \in Strings
  PROVE  LET p == ecdsa_sig_parse(sig)
         IN  /\ p.seen \in Int /\ p.seen < Len(sig)
             /\ p.r \in 0 .. GroupOrder - 1 /\ p.s \in 0 .. GroupOrder - 1
<1> DEFINE l == der_read_len(sig, 1)
           r == der_parse_integer(sig, l.at)
           s == der_parse_integer(sig, r.at)
           seen  == Highest(0, l.seen)
           seen2 == Highest(seen, r.seen)
           seen3 == Highest(seen2, s.seen)
<1>1. Len(sig) \in Nat /\ 0 \in 0 .. GroupOrder - 1 /\ LengthRead(sig, 1, l)
  BY ReadLenReads, DerAssumption, LenProperties DEF Strings
<1>2. CASE sig = <<>> \/ At(sig, 0) # SeqTag
  <2>1. sig = <<>> => Len(sig) = 0
    BY EmptySeq
  <2>2. sig # <<>> => Len(sig) > 0
    BY EmptySeq, <1>1 DEF Strings
  <2> QED BY <1>1, <1>2, <2>1, <2>2 DEF ecdsa_sig_parse, NoSignature
<1>3. CASE sig # <<>> /\ At(sig, 0) = SeqTag
  <2>1. Len(sig) > 0
    BY EmptySeq, <1>1, <1>3 DEF Strings
  <2>2. seen \in Int /\ seen < Len(sig)
    BY <1>1, <2>1 DEF LengthRead, Highest
  <2>3. CASE l.len < 0 \/ l.at + l.len # Len(sig)
    <3>1. ecdsa_sig_parse(sig) = NoSignature(seen)
      BY <1>3, <2>3 DEF ecdsa_sig_parse, AfterLength
    <3> HIDE DEF seen
    <3> QED BY <1>1, <2>2, <3>1 DEF NoSignature
  <2>4. CASE ~(l.len < 0 \/ l.at + l.len # Len(sig))
    <3>1. l.at \in Nat /\ l.at <= Len(sig)
      BY <1>1, <2>4 DEF LengthRead
    <3> HIDE DEF l
    <3>2. IntegerRead(sig, r)
      BY <3>1, ParseIntegerReads
    <3>3. seen2 \in Int /\ seen2 < Len(sig)
      <4> HIDE DEF r, seen
      <4> QED BY <1>1, <2>2, <3>2 DEF IntegerRead, Highest
    <3>4. CASE ~r.ok
      <4>1. ecdsa_sig_parse(sig) = NoSignature(seen2)
        BY <1>3, <2>4, <3>4 DEF ecdsa_sig_parse, AfterLength, AfterR, l
      <4> HIDE DEF seen2
      <4> QED BY <1>1, <3>3, <4>1 DEF NoSignature
    <3>5. CASE r.ok
      <4>1. IntegerRead(sig, s)
        <5> HIDE DEF r
        <5>1. r.at \in Nat /\ r.at <= Len(sig)
          BY <3>2, <3>5 DEF IntegerRead
        <5> QED BY <5>1, ParseIntegerReads
      <4>2. seen3 \in Int /\ seen3 < Len(sig)
        <5> HIDE DEF s, seen2
        <5> QED BY <1>1, <3>3, <4>1 DEF IntegerRead, Highest
      <4>3. ecdsa_sig_parse(sig) = IF ~s.ok \/ s.at # Len(sig) THEN NoSignature(seen3)
                                   ELSE [ok |-> TRUE, r |-> r.r, s |-> s.r, seen |-> seen3]
        BY <1>3, <2>4, <3>5 DEF ecdsa_sig_parse, AfterLength, AfterR, AfterS, l
      <4> HIDE DEF r, s, seen3
      <4> QED BY <1>1, <3>2, <3>5, <4>1, <4>2, <4>3 DEF NoSignature, IntegerRead
    <3> QED BY <3>4, <3>5
  <2> QED BY <2>3, <2>4
<1> QED BY <1>2, <1>3

---------------------------------------------------------------------------
(* Numbers and their bytes.                                                *)

\* A set of naturals with 0 and with the successor of each of its members has them all.
LEMMA CountUp ==
  ASSUME NEW S, 0 \in S, \A n \in Nat : n \in S => n + 1 \in S
  PROVE  \A n \in Nat : n \in S
<1> SUFFICES ASSUME Nat \ S # {} PROVE FALSE
  OBVIOUS
<1>1. PICK m \in Nat \ S : \A n \in Nat \ S : m <= n
  BY LeastOf, Zenon
<1>2. m # 0 /\ m - 1 \in Nat
  BY <1>1
<1>3. m - 1 \in S
  BY <1>1, <1>2
<1>4. (m - 1) + 1 = m
  BY <1>1
<1> QED BY <1>1, <1>2, <1>3, <1>4

\* The equation of Horner.
LEMMA HornerIs ==
  ASSUME NEW b, Len(b) \in Nat
  PROVE  /\ Horner(b)[0] = 0
         /\ \A k \in 1 .. Len(b) : Horner(b)[k] = Horner(b)[k - 1] * Base + b[k]
<1> DEFINE Is(f, n) == f = [k \in 0 .. n |-> IF k = 0 THEN 0 ELSE f[k - 1] * Base + b[k]]
           S == {n \in Nat : \E f : Is(f, n)}
<1>1. 0 \in S
  <2>1. Is([k \in 0 .. 0 |-> 0], 0)
    OBVIOUS
  <2> QED BY <2>1, Zenon
<1>2. ASSUME NEW n \in Nat, n \in S PROVE n + 1 \in S
  <2>1. PICK f : Is(f, n)
    BY <1>2, Zenon
  <2> DEFINE g == [k \in 0 .. n + 1 |-> IF k <= n THEN f[k] ELSE f[n] * Base + b[n + 1]]
  <2>2. ASSUME NEW k \in 0 .. n + 1
        PROVE  g[k] = IF k = 0 THEN 0 ELSE g[k - 1] * Base + b[k]
    <3>1. CASE k <= n
      <4>1. g[k] = f[k] /\ k \in 0 .. n
        BY <3>1
      <4>2. k # 0 => g[k - 1] = f[k - 1]
        BY <3>1
      <4>3. f[k] = IF k = 0 THEN 0 ELSE f[k - 1] * Base + b[k]
        BY <2>1, <4>1, Zenon
      <4> HIDE DEF g
      <4> QED BY <4>1, <4>2, <4>3, Zenon
    <3>2. CASE k = n + 1
      <4>1. g[k] = f[n] * Base + b[k] /\ k # 0
        BY <3>2
      <4>2. g[k - 1] = f[n]
        BY <3>2
      <4> HIDE DEF g
      <4> QED BY <4>1, <4>2, Zenon
    <3> QED BY <3>1, <3>2
  <2>3. g = [k \in 0 .. n + 1 |-> g[k]]
    BY Zenon
  <2>4. Is(g, n + 1)
    <3> HIDE DEF g
    <3> QED BY <2>2, <2>3, Zenon
  <2>5. n + 1 \in Nat
    OBVIOUS
  <2> HIDE DEF g, Is
  <2> QED BY <2>4, <2>5, Zenon
<1>3. Len(b) \in S
  <2> HIDE DEF S
  <2> QED BY <1>1, <1>2, CountUp
<1>4. Is(Horner(b), Len(b))
  BY <1>3, Zenon DEF Horner
<1>5. ASSUME NEW k \in 0 .. Len(b)
      PROVE  Horner(b)[k] = IF k = 0 THEN 0 ELSE Horner(b)[k - 1] * Base + b[k]
  BY <1>4, Zenon
<1>6. /\ 0 \in 0 .. Len(b)
      /\ \A k \in 1 .. Len(b) : k \in 0 .. Len(b) /\ k # 0
  OBVIOUS
<1> QED BY <1>5, <1>6, Zenon

\* The equation of Shifts.
LEMMA ShiftsIs ==
  ASSUME NEW x, NEW B \in Nat
  PROVE  /\ Shifts(x, B)[0] = x
         /\ \A k \in 1 .. B : Shifts(x, B)[k] = Shifts(x, B)[k - 1] \div Base
<1> DEFINE Is(f, n) == f = [k \in 0 .. n |-> IF k = 0 THEN x ELSE f[k - 1] \div Base]
           S == {n \in Nat : \E f : Is(f, n)}
<1>1. 0 \in S
  <2>1. Is([k \in 0 .. 0 |-> x], 0)
    OBVIOUS
  <2> QED BY <2>1, Zenon
<1>2. ASSUME NEW n \in Nat, n \in S PROVE n + 1 \in S
  <2>1. PICK f : Is(f, n)
    BY <1>2, Zenon
  <2> DEFINE g == [k \in 0 .. n + 1 |-> IF k <= n THEN f[k] ELSE f[n] \div Base]
  <2>2. ASSUME NEW k \in 0 .. n + 1
        PROVE  g[k] = IF k = 0 THEN x ELSE g[k - 1] \div Base
    <3>1. CASE k <= n
      <4>1. g[k] = f[k] /\ k \in 0 .. n
        BY <3>1
      <4>2. k # 0 => g[k - 1] = f[k - 1]
        BY <3>1
      <4>3. f[k] = IF k = 0 THEN x ELSE f[k - 1] \div Base
        BY <2>1, <4>1, Zenon
      <4> HIDE DEF g
      <4> QED BY <4>1, <4>2, <4>3, Zenon
    <3>2. CASE k = n + 1
      <4>1. g[k] = f[n] \div Base /\ k # 0
        BY <3>2
      <4>2. g[k - 1] = f[n]
        BY <3>2
      <4> HIDE DEF g
      <4> QED BY <4>1, <4>2, Zenon
    <3> QED BY <3>1, <3>2
  <2>3. g = [k \in 0 .. n + 1 |-> g[k]]
    BY Zenon
  <2>4. Is(g, n + 1)
    <3> HIDE DEF g
    <3> QED BY <2>2, <2>3, Zenon
  <2>5. n + 1 \in Nat
    OBVIOUS
  <2> HIDE DEF g, Is
  <2> QED BY <2>4, <2>5, Zenon
<1>4. B \in S
  <2> HIDE DEF S
  <2> QED BY <1>1, <1>2, CountUp
<1>5. Is(Shifts(x, B), B)
  BY <1>4, Zenon DEF Shifts
<1>6. ASSUME NEW k \in 0 .. B
      PROVE  Shifts(x, B)[k] = IF k = 0 THEN x ELSE Shifts(x, B)[k - 1] \div Base
  BY <1>5, Zenon
<1>7. /\ 0 \in 0 .. B
      /\ \A k \in 1 .. B : k \in 0 .. B /\ k # 0
  OBVIOUS
<1> QED BY <1>6, <1>7, Zenon

\* Division by a positive number.
LEMMA Division ==
  ASSUME NEW x \in Nat, NEW d \in Nat, d > 0
  PROVE  x \div d \in Nat /\ x % d \in 0 .. d - 1 /\ x = (x \div d) * d + (x % d)
OBVIOUS

\* Quotient and remainder are the only ones.
LEMMA DivisionIs ==
  ASSUME NEW q \in Nat, NEW d \in Nat, d > 0, NEW c \in 0 .. d - 1
  PROVE  (q * d + c) \div d = q /\ (q * d + c) % d = c
OBVIOUS

\* Division keeps the order.
LEMMA DivisionOrder ==
  ASSUME NEW x \in Nat, NEW y \in Nat, x <= y, NEW d \in Nat, d > 0
  PROVE  x \div d <= y \div d
OBVIOUS

Scalars == 0 .. GroupOrder - 1

\* The constants as numbers.
LEMMA Sizes ==
  /\ Half \in Nat /\ Half > 0 /\ Bytes \in Nat /\ Bytes > 0 /\ GroupOrder \in Nat /\ GroupOrder > 0
  /\ Base \in Nat /\ Base > 0 /\ Full = Base - 1 /\ Full >= Half /\ 0 \in 0 .. Full
  /\ 4 + 2 * (Bytes + 1) < Half
<1>1. /\ Half \in Nat /\ Half > 0 /\ Bytes \in Nat /\ Bytes > 0 /\ GroupOrder \in Nat /\ GroupOrder > 0
      /\ 4 + 2 * (Bytes + 1) < Half
  BY DerAssumption
<1> QED BY <1>1 DEF Base, Full

\* The shifted numbers are natural numbers, in the order of the numbers.
LEMMA ShiftsOrder ==
  ASSUME NEW x \in Nat, NEW y \in Nat, x <= y, NEW B \in Nat
  PROVE  \A k \in 0 .. B : /\ Shifts(x, B)[k] \in Nat /\ Shifts(y, B)[k] \in Nat
                           /\ Shifts(x, B)[k] <= Shifts(y, B)[k]
<1> DEFINE P(k) == /\ Shifts(x, B)[k] \in Nat /\ Shifts(y, B)[k] \in Nat
                   /\ Shifts(x, B)[k] <= Shifts(y, B)[k]
           S == {k \in Nat : k <= B => P(k)}
<1>1. 0 \in S
  <2>1. P(0)
    BY ShiftsIs
  <2> HIDE DEF P
  <2> QED BY <2>1
<1>2. ASSUME NEW k \in Nat, k \in S PROVE k + 1 \in S
  <2> SUFFICES ASSUME k + 1 <= B PROVE P(k + 1)
    OBVIOUS
  <2>1. k <= B /\ k + 1 \in 1 .. B /\ (k + 1) - 1 = k
    OBVIOUS
  <2>2. P(k)
    <3> HIDE DEF P
    <3> QED BY <1>2, <2>1
  <2>3. /\ Shifts(x, B)[k + 1] = Shifts(x, B)[k] \div Base
        /\ Shifts(y, B)[k + 1] = Shifts(y, B)[k] \div Base
    <3>1. /\ \A j \in 1 .. B : Shifts(x, B)[j] = Shifts(x, B)[j - 1] \div Base
          /\ \A j \in 1 .. B : Shifts(y, B)[j] = Shifts(y, B)[j - 1] \div Base
      BY ShiftsIs
    <3> QED BY <2>1, <3>1, Zenon
  <2>4. /\ Shifts(x, B)[k] \div Base \in Nat /\ Shifts(y, B)[k] \div Base \in Nat
        /\ Shifts(x, B)[k] \div Base <= Shifts(y, B)[k] \div Base
    BY <2>2, Sizes, Division, DivisionOrder
  <2> QED BY <2>3, <2>4
<1>3. \A k \in Nat : k \in S
  <2> HIDE DEF S
  <2> QED BY <1>1, <1>2, CountUp
<1>4. \A k \in 0 .. B : k \in Nat /\ k <= B
  OBVIOUS
<1> HIDE DEF P
<1> QED BY <1>3, <1>4 DEF P

\* What is below a number that fits, fits.
LEMMA FitsBelow ==
  ASSUME NEW x \in Nat, NEW y \in Nat, x <= y, NEW B \in Nat, Fits(y, B)
  PROVE  Fits(x, B)
<1>1. B \in 0 .. B
  OBVIOUS
<1>2. Shifts(x, B)[B] \in Nat /\ Shifts(x, B)[B] <= Shifts(y, B)[B]
  BY <1>1, ShiftsOrder
<1> QED BY <1>2 DEF Fits

\* The last k bytes of a number.
Digits(n, B, k) == [i \in 1 .. k |-> Shifts(n, B)[k - i] % Base]

\* They are bytes.
LEMMA DigitsIs ==
  ASSUME NEW n \in Nat, NEW B \in Nat, NEW k \in 0 .. B
  PROVE  /\ Digits(n, B, k) \in Strings /\ Len(Digits(n, B, k)) = k
         /\ \A i \in 1 .. k : Digits(n, B, k)[i] = Shifts(n, B)[k - i] % Base
<1>1. ASSUME NEW i \in 1 .. k PROVE Shifts(n, B)[k - i] % Base \in 0 .. Full
  <2>1. n <= n /\ k - i \in 0 .. B
    OBVIOUS
  <2>2. Shifts(n, B)[k - i] \in Nat
    BY <2>1, ShiftsOrder
  <2> QED BY <2>2, Sizes, Division
<1>2. PICK g : g = Digits(n, B, k)
  BY Zenon
<1>3. g = [i \in 1 .. k |-> Shifts(n, B)[k - i] % Base]
  BY <1>2, Zenon DEF Digits
<1>4. g \in [1 .. k -> 0 .. Full]
  BY <1>1, <1>3, Zenon
<1>5. g \in Seq(0 .. Full) /\ Len(g) = k /\ \A i \in 1 .. k : g[i] = Shifts(n, B)[k - i] % Base
  BY <1>3, <1>4
<1> QED BY <1>2, <1>5, Zenon DEF Strings

\* When they are all it has, their value is the number.
LEMMA DigitsValue ==
  ASSUME NEW n \in Nat, NEW B \in Nat, NEW k \in 0 .. B, Shifts(n, B)[k] = 0
  PROVE  ValueOf(Digits(n, B, k)) = n
<1> DEFINE D == Digits(n, B, k)
           H == Horner(D)
           S == {j \in Nat : j <= k => H[j] = Shifts(n, B)[k - j]}
<1>0. k \in Nat /\ k <= B /\ Len(D) = k /\ \A i \in 1 .. k : D[i] = Shifts(n, B)[k - i] % Base
  BY DigitsIs
<1> HIDE DEF D
<1>1. H[0] = 0 /\ \A j \in 1 .. k : H[j] = H[j - 1] * Base + D[j]
  <2>1. Len(D) \in Nat
    BY <1>0
  <2> QED BY <1>0, <2>1, HornerIs
<1> HIDE DEF H
<1>2. 0 \in S
  BY <1>0, <1>1
<1>3. ASSUME NEW j \in Nat, j \in S PROVE j + 1 \in S
  <2> SUFFICES ASSUME j + 1 <= k PROVE H[j + 1] = Shifts(n, B)[k - (j + 1)]
    OBVIOUS
  <2>1. /\ j + 1 \in 1 .. k /\ (j + 1) - 1 = j /\ j <= k
        /\ k - j \in 1 .. B /\ (k - j) - 1 = k - (j + 1) /\ k - (j + 1) \in 0 .. B /\ n <= n
    BY <1>0
  <2>2. PICK m : m = Shifts(n, B)[k - (j + 1)]
    BY Zenon
  <2>3. H[j] = m \div Base
    <3>0. \A i \in 1 .. B : Shifts(n, B)[i] = Shifts(n, B)[i - 1] \div Base
      BY ShiftsIs
    <3>1. Shifts(n, B)[k - j] = Shifts(n, B)[(k - j) - 1] \div Base
      BY <2>1, <3>0, Zenon
    <3>2. H[j] = Shifts(n, B)[k - j]
      BY <1>3, <2>1
    <3> QED BY <2>1, <2>2, <3>1, <3>2, Zenon
  <2>4. D[j + 1] = m % Base
    BY <1>0, <2>1, <2>2, Zenon
  <2>5. m \in Nat
    BY <2>1, <2>2, ShiftsOrder
  <2>6. H[j + 1] = H[j] * Base + D[j + 1]
    <3>1. H[j + 1] = H[(j + 1) - 1] * Base + D[j + 1]
      BY <1>1, <2>1, Zenon
    <3> QED BY <3>1, <2>1, Zenon
  <2>7. m = (m \div Base) * Base + (m % Base)
    BY <2>5, Sizes, Division
  <2> QED BY <2>2, <2>3, <2>4, <2>6, <2>7, Zenon
<1>4. k \in S
  <2> HIDE DEF S
  <2> QED BY <1>0, <1>2, <1>3, CountUp, ZenonT(40)
<1>5. H[k] = Shifts(n, B)[0]
  BY <1>0, <1>4
<1>6. Shifts(n, B)[0] = n
  BY ShiftsIs
<1> QED BY <1>0, <1>5, <1>6, Zenon DEF ValueOf, H, D

\* The value does not depend on zeros in front.
LEMMA SuffixValue ==
  ASSUME NEW s \in Strings, NEW t \in Strings, NEW z \in Nat, Len(t) + z = Len(s),
         \A i \in 1 .. z : s[i] = 0,
         \A k \in 1 .. Len(t) : t[k] = s[z + k]
  PROVE  ValueOf(t) = ValueOf(s)
<1> DEFINE P == {k \in Nat : k <= z => Horner(s)[k] = 0}
           Q == {k \in Nat : k <= Len(t) => Horner(t)[k] = Horner(s)[z + k]}
<1>1. Len(s) \in Nat /\ Len(t) \in Nat
  BY LenProperties DEF Strings
<1>2. /\ Horner(s)[0] = 0
      /\ \A k \in 1 .. Len(s) : Horner(s)[k] = Horner(s)[k - 1] * Base + s[k]
  BY <1>1, HornerIs
<1>3. /\ Horner(t)[0] = 0
      /\ \A k \in 1 .. Len(t) : Horner(t)[k] = Horner(t)[k - 1] * Base + t[k]
  BY <1>1, HornerIs
<1>4. \A k \in Nat : k \in P
  <2>1. 0 \in P
    BY <1>2
  <2>2. ASSUME NEW k \in Nat, k \in P PROVE k + 1 \in P
    <3> SUFFICES ASSUME k + 1 <= z PROVE Horner(s)[k + 1] = 0
      OBVIOUS
    <3>1. k + 1 \in 1 .. Len(s) /\ (k + 1) - 1 = k /\ k + 1 \in 1 .. z /\ k <= z
      BY <1>1
    <3>2. Horner(s)[k + 1] = Horner(s)[k] * Base + s[k + 1]
      <4>1. Horner(s)[k + 1] = Horner(s)[(k + 1) - 1] * Base + s[k + 1]
        BY <1>2, <3>1, Zenon
      <4> QED BY <3>1, <4>1, Zenon
    <3>3. Horner(s)[k] = 0 /\ s[k + 1] = 0
      BY <2>2, <3>1
    <3> QED BY <3>2, <3>3, Sizes
  <2> HIDE DEF P
  <2> QED BY <2>1, <2>2, CountUp
<1>5. \A k \in Nat : k \in Q
  <2>1. 0 \in Q
    <3>1. Horner(s)[z] = 0
      BY <1>4
    <3> QED BY <1>3, <3>1
  <2>2. ASSUME NEW k \in Nat, k \in Q PROVE k + 1 \in Q
    <3> SUFFICES ASSUME k + 1 <= Len(t) PROVE Horner(t)[k + 1] = Horner(s)[z + (k + 1)]
      OBVIOUS
    <3>1. /\ k + 1 \in 1 .. Len(t) /\ (k + 1) - 1 = k /\ k <= Len(t)
          /\ z + (k + 1) \in 1 .. Len(s) /\ (z + (k + 1)) - 1 = z + k
      BY <1>1
    <3>2. Horner(t)[k + 1] = Horner(t)[k] * Base + t[k + 1]
      <4>1. Horner(t)[k + 1] = Horner(t)[(k + 1) - 1] * Base + t[k + 1]
        BY <1>3, <3>1, Zenon
      <4> QED BY <3>1, <4>1, Zenon
    <3>3. Horner(s)[z + (k + 1)] = Horner(s)[z + k] * Base + s[z + (k + 1)]
      <4>1. Horner(s)[z + (k + 1)] = Horner(s)[(z + (k + 1)) - 1] * Base + s[z + (k + 1)]
        BY <1>2, <3>1, Zenon
      <4> QED BY <3>1, <4>1, Zenon
    <3>4. Horner(t)[k] = Horner(s)[z + k] /\ t[k + 1] = s[z + (k + 1)]
      BY <2>2, <3>1
    <3> QED BY <3>2, <3>3, <3>4, Zenon
  <2> HIDE DEF Q
  <2> QED BY <2>1, <2>2, CountUp
<1>6. Horner(t)[Len(t)] = Horner(s)[z + Len(t)] /\ z + Len(t) = Len(s)
  BY <1>1, <1>5
<1> QED BY <1>6, Zenon DEF ValueOf

\* The bytes of a number are the only string, of their length, with its value.
LEMMA DigitsOnly ==
  ASSUME NEW t \in Strings, NEW B \in Nat, Len(t) <= B
  PROVE  /\ ValueOf(t) \in Nat
         /\ \A j \in 0 .. Len(t) : Shifts(ValueOf(t), B)[j] = Horner(t)[Len(t) - j]
         /\ t = Digits(ValueOf(t), B, Len(t))
<1> DEFINE H == Horner(t)
           n == ValueOf(t)
           N == Len(t)
<1>1. N \in Nat /\ \A i \in 1 .. N : t[i] \in 0 .. Full
  BY LenProperties, ElementOfSeq, ZenonT(40) DEF Strings
<1>2. H[0] = 0 /\ \A k \in 1 .. N : H[k] = H[k - 1] * Base + t[k]
  BY <1>1, HornerIs
<1>3. n = H[N]
  BY DEF ValueOf
<1> HIDE DEF H, n
<1>4. ASSUME NEW k \in 0 .. N PROVE H[k] \in Nat
  <2> DEFINE S == {i \in Nat : i <= N => H[i] \in Nat}
  <2>1. 0 \in S
    BY <1>2
  <2>2. ASSUME NEW i \in Nat, i \in S PROVE i + 1 \in S
    <3> SUFFICES ASSUME i + 1 <= N PROVE H[i + 1] \in Nat
      OBVIOUS
    <3>1. i + 1 \in 1 .. N /\ (i + 1) - 1 = i /\ i <= N
      BY <1>1
    <3>2. H[i + 1] = H[(i + 1) - 1] * Base + t[i + 1] /\ t[i + 1] \in 0 .. Full
      BY <1>1, <1>2, <3>1, Zenon
    <3>3. H[i] \in Nat
      BY <2>2, <3>1
    <3>4. H[i + 1] = H[i] * Base + t[i + 1]
      BY <3>1, <3>2, Zenon
    <3> QED BY <3>2, <3>3, <3>4, Sizes
  <2>3. \A i \in Nat : i \in S
    <3> HIDE DEF S
    <3> QED BY <2>1, <2>2, CountUp
  <2> QED BY <1>1, <2>3
<1>5. ASSUME NEW k \in 1 .. N PROVE H[k] \div Base = H[k - 1] /\ H[k] % Base = t[k]
  <2>1. k - 1 \in 0 .. N
    BY <1>1
  <2>2. H[k - 1] \in Nat /\ t[k] \in 0 .. Base - 1 /\ H[k] = H[k - 1] * Base + t[k]
    BY <1>1, <1>2, <1>4, <2>1, Sizes
  <2>3. (H[k - 1] * Base + t[k]) \div Base = H[k - 1] /\ (H[k - 1] * Base + t[k]) % Base = t[k]
    BY <2>2, Sizes, DivisionIs, ZenonT(40)
  <2> QED BY <2>2, <2>3, Zenon
<1>6. ASSUME NEW j \in 0 .. N PROVE Shifts(n, B)[j] = H[N - j]
  <2> DEFINE S == {i \in Nat : i <= N => Shifts(n, B)[i] = H[N - i]}
  <2>1. 0 \in S
    <3>1. Shifts(n, B)[0] = n
      BY ShiftsIs
    <3> QED BY <1>1, <1>3, <3>1
  <2>2. ASSUME NEW i \in Nat, i \in S PROVE i + 1 \in S
    <3> SUFFICES ASSUME i + 1 <= N PROVE Shifts(n, B)[i + 1] = H[N - (i + 1)]
      OBVIOUS
    <3>1. i + 1 \in 1 .. B /\ (i + 1) - 1 = i /\ i <= N /\ N - i \in 1 .. N /\ (N - i) - 1 = N - (i + 1)
      BY <1>1
    <3>2. \A k \in 1 .. B : Shifts(n, B)[k] = Shifts(n, B)[k - 1] \div Base
      BY ShiftsIs
    <3>3. Shifts(n, B)[i + 1] = Shifts(n, B)[i] \div Base
      <4>1. Shifts(n, B)[i + 1] = Shifts(n, B)[(i + 1) - 1] \div Base
        BY <3>1, <3>2, Zenon
      <4> QED BY <3>1, <4>1, Zenon
    <3>4. Shifts(n, B)[i] = H[N - i]
      BY <2>2, <3>1
    <3>5. H[N - i] \div Base = H[(N - i) - 1]
      BY <1>5, <3>1, Zenon
    <3> QED BY <3>1, <3>3, <3>4, <3>5, Zenon
  <2>3. \A i \in Nat : i \in S
    <3> HIDE DEF S
    <3> QED BY <2>1, <2>2, CountUp
  <2> QED BY <1>1, <2>3
<1>7. n \in Nat
  BY <1>1, <1>3, <1>4
<1>8. t = Digits(n, B, N)
  <2>1. N \in 0 .. B
    BY <1>1
  <2>2. /\ Digits(n, B, N) \in Strings /\ Len(Digits(n, B, N)) = N
        /\ \A i \in 1 .. N : Digits(n, B, N)[i] = Shifts(n, B)[N - i] % Base
    BY <1>7, <2>1, DigitsIs, SMTT(40)
  <2>3. ASSUME NEW i \in 1 .. N PROVE t[i] = Digits(n, B, N)[i]
    <3>1. N - i \in 0 .. N /\ N - (N - i) = i
      BY <1>1
    <3>2. Shifts(n, B)[N - i] = H[N - (N - i)]
      BY <1>6, <3>1, Zenon
    <3>3. H[i] % Base = t[i]
      BY <1>5
    <3> QED BY <2>2, <3>1, <3>2, <3>3, Zenon
  <2> QED BY <2>2, <2>3, SeqEqual DEF Strings
<1> QED BY <1>6, <1>7, <1>8, Zenon DEF H, n

\* The 33 bytes that Shortest cuts.
Long(n) == <<0>> \o get_b32(n)

\* It is a string of bytes with that value.
LEMMA LongIs ==
  ASSUME NEW n \in Scalars
  PROVE  /\ Long(n) \in Strings /\ Len(Long(n)) = Bytes + 1 /\ Long(n)[1] = 0
         /\ ValueOf(Long(n)) = n
<1>1. n \in Nat /\ GroupOrder - 1 \in Nat /\ n <= GroupOrder - 1 /\ Bytes \in 0 .. Bytes /\ Bytes \in Nat
  BY Sizes DEF Scalars
<1>2. Shifts(n, Bytes)[Bytes] = 0
  <2>1. Fits(GroupOrder - 1, Bytes)
    BY DerAssumption
  <2> QED BY <1>1, <2>1, FitsBelow DEF Fits
<1>3. PICK g : g = get_b32(n)
  BY Zenon
<1>4. g = Digits(n, Bytes, Bytes)
  BY <1>3, Zenon DEF get_b32, Digits
<1>5. g \in Seq(0 .. Full) /\ Len(g) = Bytes /\ ValueOf(g) = n
  BY <1>1, <1>2, <1>4, DigitsIs, DigitsValue, ZenonT(40) DEF Strings
<1>6. <<0>> \in Seq(0 .. Full) /\ Len(<<0>>) = 1 /\ <<0>>[1] = 0
  BY Sizes
<1>7. PICK w : w = <<0>> \o g
  BY Zenon
<1>8. /\ w \in Seq(0 .. Full) /\ Len(w) = 1 + Bytes /\ w[1] = 0
      /\ \A k \in 1 .. Bytes : w[1 + k] = g[k]
  BY <1>1, <1>5, <1>6, <1>7, ConcatProperties
<1>9. ValueOf(g) = ValueOf(w)
  <2>1. /\ w \in Strings /\ g \in Strings /\ 1 \in Nat /\ Len(g) + 1 = Len(w)
        /\ \A k \in 1 .. Len(g) : g[k] = w[1 + k]
        /\ \A i \in 1 .. 1 : w[i] = 0
    BY <1>1, <1>5, <1>8 DEF Strings
  <2> QED BY <2>1, SuffixValue
<1>10. Long(n) = w
  BY <1>3, <1>7, Zenon DEF Long
<1> QED BY <1>1, <1>5, <1>8, <1>9, <1>10 DEF Strings

\* What Shortest keeps: a nonempty string that is not negative and has no zero too many,
\* and whose value, however many of its zeros are left out, is the number.
ShortFor(n, c) ==
  /\ c \in Strings /\ Len(c) \in 1 .. Bytes + 1
  /\ c[1] < Half /\ (Len(c) = Bytes + 1 => c[1] = 0)
  /\ Len(c) > 1 => ~(c[1] = 0 /\ c[2] < Half)
  /\ \A t \in Strings : \A z \in 0 .. Len(c) :
       /\ Len(t) + z = Len(c)
       /\ \A i \in 1 .. z : c[i] = 0
       /\ \A k \in 1 .. Len(t) : t[k] = c[z + k]
       => ValueOf(t) = n

\* Shortest gives one.
LEMMA ShortestIs ==
  ASSUME NEW n \in Scalars
  PROVE  ShortFor(n, Shortest(n))
<1> DEFINE all == Long(n)
           runs == {k \in 0 .. Bytes : \A i \in 1 .. k : all[i] = 0 /\ all[i + 1] < Half}
           skip == Max(runs)
           c == SubSeq(all, skip + 1, Bytes + 1)
<1>1. Shortest(n) = c
  BY DEF Shortest, Long
<1>2. all \in Strings /\ Len(all) = Bytes + 1 /\ all[1] = 0 /\ ValueOf(all) = n
  BY LongIs
<1>3. \A i \in 1 .. Bytes + 1 : all[i] \in 0 .. Full
  <2>1. all \in Seq(0 .. Full)
    BY <1>2 DEF Strings
  <2> HIDE DEF all
  <2> QED BY <1>2, <2>1, ElementOfSeq, ZenonT(40)
<1> HIDE DEF all
<1>4. skip \in runs /\ \A k \in runs : k <= skip
  <2>1. 0 \in runs /\ runs \in SUBSET (0 .. Bytes)
    BY Sizes
  <2> HIDE DEF runs
  <2> QED BY <2>1, MaxOf, Sizes
<1>5. skip \in 0 .. Bytes /\ \A i \in 1 .. skip : all[i] = 0 /\ all[i + 1] < Half
  BY <1>4
<1>6. ASSUME skip < Bytes, all[skip + 1] = 0, all[skip + 2] < Half PROVE FALSE
  <2>1. skip + 1 \in 0 .. Bytes /\ (skip + 1) + 1 = skip + 2
    BY <1>5, <1>6, Sizes
  <2> HIDE DEF skip
  <2>2. \A i \in 1 .. skip + 1 : i \in 1 .. skip \/ i = skip + 1
    BY <1>5
  <2>3. \A i \in 1 .. skip + 1 : all[i] = 0 /\ all[i + 1] < Half
    BY <1>5, <1>6, <2>1, <2>2, Zenon
  <2>4. skip + 1 \in runs
    BY <2>1, <2>3, Zenon
  <2> HIDE DEF runs
  <2>5. skip + 1 <= skip
    BY <1>4, <2>4 DEF skip
  <2> QED BY <1>5, <2>5
<1> HIDE DEF skip
<1>7. /\ c \in Strings /\ Len(c) = Bytes + 1 - skip
      /\ \A i \in 1 .. Len(c) : c[i] = all[skip + i]
  <2>1. all \in Seq(0 .. Full) /\ skip + 1 \in Int /\ Bytes + 1 \in Int
        /\ skip + 1 <= (Bytes + 1) + 1 /\ \A i \in skip + 1 .. Bytes + 1 : all[i] \in 0 .. Full
        /\ skip + 1 \in 1 .. Len(all) + 1 /\ Bytes + 1 \in skip .. Len(all)
    BY <1>2, <1>3, <1>5, Sizes DEF Strings
  <2> QED BY <2>1, SubSeqProperties, Sizes, <1>5, <1>2 DEF Strings
<1> HIDE DEF c
<1>8. /\ Len(c) \in 1 .. Bytes + 1 /\ c[1] = all[skip + 1] /\ (Len(c) > 1 => c[2] = all[skip + 2])
      /\ (Len(c) > 1 <=> skip < Bytes) /\ (Len(c) = Bytes + 1 <=> skip = 0)
  BY <1>5, <1>7, Sizes
<1>9. c[1] < Half /\ (Len(c) = Bytes + 1 => c[1] = 0)
  <2>1. CASE skip = 0
    BY <1>2, <1>8, <2>1, Sizes
  <2>2. CASE skip # 0
    <3>1. skip \in 1 .. skip
      BY <1>5, <2>2
    <3>2. all[skip + 1] < Half
      BY <1>5, <3>1
    <3> QED BY <1>8, <2>2, <3>2
  <2> QED BY <2>1, <2>2
<1>10. Len(c) > 1 => ~(c[1] = 0 /\ c[2] < Half)
  BY <1>6, <1>8
<1>11. ASSUME NEW t \in Strings, NEW z \in 0 .. Len(c), Len(t) + z = Len(c),
              \A i \in 1 .. z : c[i] = 0, \A k \in 1 .. Len(t) : t[k] = c[z + k]
       PROVE  ValueOf(t) = n
  <2>0. Len(t) \in Nat
    BY LenProperties DEF Strings
  <2>1. skip + z \in Nat /\ Len(t) + (skip + z) = Len(all)
    BY <1>2, <1>5, <1>7, <1>8, <1>11, <2>0, Sizes
  <2>2. ASSUME NEW i \in 1 .. skip + z PROVE all[i] = 0
    <3>1. CASE i <= skip
      BY <1>5, <3>1
    <3>2. CASE i > skip
      <4>1. i - skip \in 1 .. z /\ i - skip \in 1 .. Len(c) /\ skip + (i - skip) = i
        BY <1>5, <1>8, <3>2
      <4>2. c[i - skip] = 0 /\ c[i - skip] = all[skip + (i - skip)]
        BY <1>7, <1>11, <4>1
      <4> QED BY <4>1, <4>2
    <3> QED BY <1>5, <1>8, <3>1, <3>2
  <2>3. ASSUME NEW k \in 1 .. Len(t) PROVE t[k] = all[(skip + z) + k]
    <3>1. z + k \in 1 .. Len(c) /\ skip + (z + k) = (skip + z) + k
      BY <1>5, <1>8, <1>11, <2>0
    <3>2. t[k] = c[z + k] /\ c[z + k] = all[skip + (z + k)]
      BY <1>7, <1>11, <3>1
    <3> QED BY <3>1, <3>2
  <2>4. ValueOf(t) = ValueOf(all)
    BY <1>2, <2>1, <2>2, <2>3, SuffixValue, ZenonT(40)
  <2> QED BY <1>2, <2>4
<1>12. ShortFor(n, c)
  BY <1>7, <1>8, <1>9, <1>10, <1>11, Zenon DEF ShortFor
<1> QED BY <1>1, <1>12 DEF c

---------------------------------------------------------------------------
(* What sig_serialize writes is read back.                                 *)

\* sig has, from the offset at, an integer with the contents c.
HasInteger(sig, at, c) ==
  /\ at + 2 + Len(c) <= Len(sig) /\ At(sig, at) = IntTag /\ At(sig, at + 1) = Len(c)
  /\ \A i \in 1 .. Len(c) : sig[at + 2 + i] = c[i]

\* der_parse_integer finds the number n between the offsets at and end.
Reads(sig, at, n, end) ==
  LET m == der_parse_integer(sig, at)
  IN  m.ok /\ m.r = n /\ m.at = end

\* It does where sig_serialize has put one.
LEMMA ReadBack ==
  ASSUME NEW sig \in Strings, NEW at \in Nat, NEW n \in Scalars, NEW c, ShortFor(n, c),
         HasInteger(sig, at, c)
  PROVE  Reads(sig, at, n, at + 2 + Len(c))
<1>0. /\ at + 2 + Len(c) <= Len(sig) /\ At(sig, at) = IntTag /\ At(sig, at + 1) = Len(c)
      /\ \A i \in 1 .. Len(c) : sig[at + 2 + i] = c[i]
  BY DEF HasInteger
<1> DEFINE len == Len(c)
           l == der_read_len(sig, at + 1)
           p == Padded(sig, at + 2, len)
           i == IntegerAt(sig, at + 2, len)
<1>1. /\ len \in Nat /\ len > 0 /\ len <= Bytes + 1 /\ len < Half /\ Len(sig) \in Nat
      /\ c \in Strings /\ at + 1 < Len(sig) /\ at < Len(sig) /\ len # Full
  <2>1. len \in 1 .. Bytes + 1 /\ c \in Strings
    BY DEF ShortFor
  <2>2. Len(sig) \in Nat
    BY LenProperties DEF Strings
  <2> HIDE DEF len
  <2> QED BY <1>0, <2>1, <2>2, Sizes DEF len
<1>2. l = [len |-> len, at |-> at + 2, seen |-> at + 1]
  <2>1. l = [len |-> len, at |-> (at + 1) + 1, seen |-> at + 1]
    BY <1>0, <1>1 DEF der_read_len
  <2> QED BY <2>1
<1>3. ASSUME NEW k \in 1 .. len PROVE At(sig, at + 2 + k - 1) = c[k]
  <2>1. at + 2 + k - 1 < Len(sig) /\ (at + 2 + k - 1) + 1 = at + 2 + k
    BY <1>0, <1>1
  <2>2. At(sig, at + 2 + k - 1) = sig[at + 2 + k]
    BY <2>1 DEF At
  <2> QED BY <1>0, <2>2
<1>4. At(sig, at + 2) = c[1] /\ (len > 1 => At(sig, (at + 2) + 1) = c[2])
  <2>1. 1 \in 1 .. len /\ at + 2 + 1 - 1 = at + 2 /\ (len > 1 => 2 \in 1 .. len)
        /\ at + 2 + 2 - 1 = (at + 2) + 1
    BY <1>1
  <2> HIDE DEF len
  <2> QED BY <1>3, <2>1
<1>5. \A k \in 1 .. len : c[k] \in 0 .. Full
  BY <1>1, ElementOfSeq, ZenonT(40) DEF Strings
<1>6. ~p.bad
  <2>1. c[1] < Half /\ (len > 1 => ~(c[1] = 0 /\ c[2] < Half)) /\ c[1] # Full
    <3>1. c[1] < Half /\ (len > 1 => ~(c[1] = 0 /\ c[2] < Half))
      BY DEF ShortFor
    <3>2. 1 \in 1 .. len
      BY <1>1
    <3>3. c[1] \in 0 .. Full
      BY <1>5, <3>2
    <3> QED BY <3>1, <3>3, Sizes
  <2> DEFINE bad  == len > 1 /\ \/ At(sig, at + 2) = 0 /\ At(sig, (at + 2) + 1) < Half
                                \/ At(sig, at + 2) = Full /\ At(sig, (at + 2) + 1) >= Half
             seen == IF len > 1 /\ At(sig, at + 2) \in {0, Full} THEN (at + 2) + 1 ELSE at + 2
  <2>2. p = [bad |-> bad, seen |-> seen]
    BY Zenon DEF Padded
  <2>3. ~bad
    <3> HIDE DEF len
    <3> QED BY <1>4, <2>1, Zenon
  <2> HIDE DEF bad, seen, p
  <2>4. [bad |-> bad, seen |-> seen].bad = bad
    BY Zenon
  <2> QED BY <2>2, <2>3, <2>4, Zenon
<1>7. i.r = n /\ i.at = at + 2 + len /\ i.ok /\ DOMAIN i = {"ok", "at", "r", "seen"}
  <2> DEFINE runs   == {z \in 0 .. len : \A k \in 1 .. z : At(sig, (at + 2) + k - 1) = 0}
             zeros  == Max(runs)
             digits == SubSeq(sig, (at + 2) + zeros + 1, (at + 2) + len)
             copied == At(sig, at + 2) < Half /\ len - zeros <= Bytes
  <2>1. zeros \in runs /\ \A z \in runs : z <= zeros
    <3>1. 0 \in runs /\ runs \in SUBSET (0 .. len)
      BY <1>1
    <3> HIDE DEF runs, len
    <3> QED BY <1>1, <3>1, MaxOf, ZenonT(40)
  <2>2. /\ zeros \in 0 .. len
        /\ \A k \in 1 .. zeros : At(sig, (at + 2) + k - 1) = 0
    BY <2>1
  <2>3. c[1] = 0 => zeros >= 1
    <3> SUFFICES ASSUME c[1] = 0 PROVE 1 \in runs
      <4> HIDE DEF runs, zeros
      <4> QED BY <2>1, <2>2
    <3>1. \A k \in 1 .. 1 : k = 1 /\ (at + 2) + k - 1 = at + 2
      OBVIOUS
    <3>2. \A k \in 1 .. 1 : At(sig, (at + 2) + k - 1) = 0
      BY <1>4, <3>1
    <3>3. 1 \in 0 .. len
      BY <1>1
    <3> QED BY <3>2, <3>3
  <2> HIDE DEF zeros
  <2>4. copied
    <3>1. c[1] < Half /\ (len = Bytes + 1 => c[1] = 0)
      BY DEF ShortFor
    <3> HIDE DEF len
    <3> QED BY <1>1, <1>4, <2>2, <2>3, <3>1, Sizes
  <2>5. /\ digits \in Strings /\ Len(digits) = len - zeros
        /\ \A k \in 1 .. Len(digits) : digits[k] = sig[(at + 2) + zeros + k]
    <3>1. /\ (at + 2) + zeros + 1 \in 1 .. Len(sig) + 1
          /\ (at + 2) + len \in (at + 2) + zeros + 1 - 1 .. Len(sig)
          /\ (at + 2) + zeros + 1 \in Int /\ (at + 2) + len \in Int
          /\ \A j \in (at + 2) + zeros + 1 .. (at + 2) + len : j \in 1 .. Len(sig)
      <4> HIDE DEF len
      <4> QED BY <1>0, <1>1, <2>2 DEF len
    <3>2. \A j \in (at + 2) + zeros + 1 .. (at + 2) + len : sig[j] \in 0 .. Full
      BY <3>1, ElementOfSeq, Zenon DEF Strings
    <3> QED BY <1>1, <2>2, <3>1, <3>2, SubSeqProperties DEF Strings
  <2> HIDE DEF digits
  <2>6. ValueOf(digits) = n
    <3>1. \A k \in 1 .. zeros : c[k] = 0
      <4> TAKE k \in 1 .. zeros
      <4>1. k \in 1 .. len /\ (at + 2) + k - 1 = at + 2 + k - 1
        BY <1>1, <2>2
      <4> QED BY <1>3, <2>2, <4>1
    <3>2. \A k \in 1 .. Len(digits) : digits[k] = c[zeros + k]
      <4> TAKE k \in 1 .. Len(digits)
      <4>1. zeros + k \in 1 .. len /\ (at + 2) + zeros + k = at + 2 + (zeros + k)
        BY <1>1, <2>2, <2>5
      <4>2. digits[k] = sig[(at + 2) + zeros + k] /\ sig[at + 2 + (zeros + k)] = c[zeros + k]
        BY <1>0, <2>5, <4>1
      <4> QED BY <4>1, <4>2
    <3>3. Len(digits) + zeros = Len(c) /\ zeros \in 0 .. Len(c)
      BY <1>1, <2>2, <2>5
    <3> QED BY <2>5, <3>1, <3>2, <3>3, Zenon DEF ShortFor
  <2>7. i = [ok |-> TRUE, at |-> (at + 2) + len,
             r |-> IF copied /\ ValueOf(digits) \in 0 .. GroupOrder - 1 THEN ValueOf(digits) ELSE 0,
             seen |-> IF copied THEN (at + 2) + len - 1 ELSE (at + 2) + zeros]
    BY Zenon DEF IntegerAt, zeros, digits
  <2> HIDE DEF i, copied, len, runs
  <2> QED BY <2>4, <2>6, <2>7 DEF Scalars
<1>8. ~(l.len <= 0 \/ l.at + l.len > Len(sig)) /\ l.at = at + 2 /\ l.len = len
  BY <1>0, <1>1, <1>2
<1> HIDE DEF l, p, i
<1>9. der_parse_integer(sig, at) = IntegerAfter(sig, at, l)
  BY <1>0, <1>1 DEF der_parse_integer, l
<1>10. Padded(sig, l.at, l.len) = p /\ IntegerAt(sig, l.at, l.len) = i
  BY <1>8, Zenon DEF p, i
<1>11. IntegerAfter(sig, at, l) = [i EXCEPT !.seen = Highest(Highest(Highest(at, l.seen), p.seen), @)]
  BY <1>6, <1>8, <1>10, Zenon DEF IntegerAfter
<1> QED BY <1>7, <1>9, <1>11 DEF Reads

\* Two strings put together.
LEMMA Joined ==
  ASSUME NEW S, NEW x \in Seq(S), NEW y \in Seq(S)
  PROVE  /\ x \o y \in Seq(S) /\ Len(x \o y) = Len(x) + Len(y)
         /\ \A i \in 1 .. Len(x) : (x \o y)[i] = x[i]
         /\ \A i \in 1 .. Len(y) : (x \o y)[Len(x) + i] = y[i]
BY ConcatProperties

\* What sig_serialize writes.
Written(rp, sp) ==
  <<SeqTag, 4 + Len(sp) + Len(rp), IntTag, Len(rp)>> \o rp \o <<IntTag, Len(sp)>> \o sp

\* Where the parts are in it.
HasParts(w, rp, sp) ==
  /\ w \in Strings /\ Len(w) = 6 + Len(sp) + Len(rp)
  /\ w[1] = SeqTag /\ w[2] = 4 + Len(sp) + Len(rp) /\ w[3] = IntTag /\ w[4] = Len(rp)
  /\ \A i \in 1 .. Len(rp) : w[4 + i] = rp[i]
  /\ w[5 + Len(rp)] = IntTag /\ w[6 + Len(rp)] = Len(sp)
  /\ \A i \in 1 .. Len(sp) : w[6 + Len(rp) + i] = sp[i]

\* What is written has these parts.
LEMMA WrittenIs ==
  ASSUME NEW r, NEW s, NEW rp, NEW sp, ShortFor(r, rp), ShortFor(s, sp)
  PROVE  HasParts(Written(rp, sp), rp, sp)
<1> DEFINE S == 0 .. Full
           a == <<SeqTag, 4 + Len(sp) + Len(rp), IntTag, Len(rp)>>
           b == <<IntTag, Len(sp)>>
<1>1. /\ rp \in Seq(S) /\ sp \in Seq(S) /\ Len(rp) \in Nat /\ Len(sp) \in Nat
      /\ Len(rp) > 0 /\ Len(sp) > 0 /\ Len(rp) \in S /\ Len(sp) \in S /\ 4 + Len(sp) + Len(rp) \in S
  <2>1. /\ Len(rp) \in 1 .. Bytes + 1 /\ rp \in Seq(S)
        /\ Len(sp) \in 1 .. Bytes + 1 /\ sp \in Seq(S)
    BY DEF ShortFor, Strings
  <2> QED BY <2>1, Sizes
<1>2. SeqTag \in S /\ IntTag \in S
  BY DerAssumption
<1> HIDE DEF S
<1>3. a \in Seq(S) /\ Len(a) = 4 /\ b \in Seq(S) /\ Len(b) = 2
  BY <1>1, <1>2
<1>4. /\ a[1] = SeqTag /\ a[2] = 4 + Len(sp) + Len(rp) /\ a[3] = IntTag /\ a[4] = Len(rp)
      /\ b[1] = IntTag /\ b[2] = Len(sp)
  OBVIOUS
<1> HIDE DEF a, b
<1>u. PICK u : u = a \o rp
  BY Zenon
<1>v. PICK v : v = u \o b
  BY Zenon
<1>w. PICK w : w = v \o sp
  BY Zenon
<1>5. Written(rp, sp) = w
  BY <1>u, <1>v, <1>w, Zenon DEF Written, a, b
<1>6. /\ u \in Seq(S) /\ Len(u) = Len(a) + Len(rp) /\ \A i \in 1 .. Len(a) : u[i] = a[i]
      /\ \A i \in 1 .. Len(rp) : u[Len(a) + i] = rp[i]
  <2>1. a \in Seq(S) /\ rp \in Seq(S)
    BY <1>1, <1>3, Zenon
  <2> QED BY <2>1, <1>u, Joined
<1>7. /\ v \in Seq(S) /\ Len(v) = Len(u) + Len(b) /\ \A i \in 1 .. Len(u) : v[i] = u[i]
      /\ \A i \in 1 .. Len(b) : v[Len(u) + i] = b[i]
  <2>1. u \in Seq(S) /\ b \in Seq(S)
    BY <1>3, <1>6, Zenon
  <2> QED BY <2>1, <1>v, Joined
<1>8. /\ w \in Seq(S) /\ Len(w) = Len(v) + Len(sp) /\ \A i \in 1 .. Len(v) : w[i] = v[i]
      /\ \A i \in 1 .. Len(sp) : w[Len(v) + i] = sp[i]
  <2>1. v \in Seq(S) /\ sp \in Seq(S)
    BY <1>1, <1>7, Zenon
  <2> QED BY <2>1, <1>w, Joined
<1>9. /\ \A i \in 1 .. 4 : w[i] = a[i]
      /\ \A i \in 1 .. Len(rp) : w[4 + i] = rp[i]
      /\ w[5 + Len(rp)] = b[1] /\ w[6 + Len(rp)] = b[2]
      /\ Len(w) = 6 + Len(sp) + Len(rp) /\ \A i \in 1 .. Len(sp) : w[6 + Len(rp) + i] = sp[i]
  <2>1. Len(u) = 4 + Len(rp) /\ Len(v) = 6 + Len(rp) /\ Len(w) = 6 + Len(sp) + Len(rp)
    BY <1>1, <1>3, <1>6, <1>7, <1>8
  <2>2. ASSUME NEW i \in 1 .. 4 + Len(rp) PROVE w[i] = u[i]
    <3>1. i \in 1 .. Len(u) /\ i \in 1 .. Len(v)
      BY <1>1, <2>1
    <3> QED BY <1>7, <1>8, <3>1, Zenon
  <2>3. ASSUME NEW i \in 1 .. 4 PROVE w[i] = a[i]
    <3>1. i \in 1 .. Len(a) /\ i \in 1 .. 4 + Len(rp)
      BY <1>1, <1>3
    <3> QED BY <1>6, <2>2, <3>1, Zenon
  <2>4. ASSUME NEW i \in 1 .. Len(rp) PROVE w[4 + i] = rp[i]
    <3>1. 4 + i \in 1 .. 4 + Len(rp) /\ Len(a) + i = 4 + i
      BY <1>1, <1>3
    <3> QED BY <1>6, <2>2, <3>1, Zenon
  <2>5. ASSUME NEW i \in 1 .. 2 PROVE w[4 + Len(rp) + i] = b[i]
    <3>1. i \in 1 .. Len(b) /\ Len(u) + i = 4 + Len(rp) + i /\ Len(u) + i \in 1 .. Len(v)
      BY <1>1, <1>3, <2>1
    <3> QED BY <1>7, <1>8, <3>1, Zenon
  <2>6. w[4 + Len(rp) + 1] = b[1] /\ w[4 + Len(rp) + 2] = b[2]
    BY <2>5
  <2>7. 4 + Len(rp) + 1 = 5 + Len(rp) /\ 4 + Len(rp) + 2 = 6 + Len(rp)
    BY <1>1
  <2>8. ASSUME NEW i \in 1 .. Len(sp) PROVE w[6 + Len(rp) + i] = sp[i]
    BY <1>8, <2>1
  <2> QED BY <2>1, <2>3, <2>4, <2>6, <2>7, <2>8, ZenonT(40)
<1>10. w[1] = a[1] /\ w[2] = a[2] /\ w[3] = a[3] /\ w[4] = a[4]
  BY <1>9
<1> QED BY <1>4, <1>5, <1>8, <1>9, <1>10, Zenon DEF HasParts, Strings, S

\* What is written is read back.
LEMMA WrittenReadBack ==
  ASSUME NEW r \in Scalars, NEW s \in Scalars, NEW rp, NEW sp, ShortFor(r, rp), ShortFor(s, sp)
  PROVE  LET p == ecdsa_sig_parse(Written(rp, sp))
         IN  p.ok /\ p.r = r /\ p.s = s
<1>1. PICK w : w = Written(rp, sp)
  BY Zenon
<1>2. /\ w \in Strings /\ Len(w) = 6 + Len(sp) + Len(rp)
      /\ w[1] = SeqTag /\ w[2] = 4 + Len(sp) + Len(rp) /\ w[3] = IntTag /\ w[4] = Len(rp)
      /\ \A i \in 1 .. Len(rp) : w[4 + i] = rp[i]
      /\ w[5 + Len(rp)] = IntTag /\ w[6 + Len(rp)] = Len(sp)
      /\ \A i \in 1 .. Len(sp) : w[6 + Len(rp) + i] = sp[i]
  <2>1. HasParts(Written(rp, sp), rp, sp)
    BY WrittenIs
  <2> QED BY <1>1, <2>1, Zenon DEF HasParts
<1>3. PICK x, y : x = Len(rp) /\ y = Len(sp)
  BY Zenon
<1>4. x \in Nat /\ y \in Nat /\ x > 0 /\ y > 0 /\ x <= Bytes + 1 /\ y <= Bytes + 1
  BY <1>3, Sizes DEF ShortFor
<1>5. /\ At(w, 0) = SeqTag /\ At(w, 1) = 4 + y + x /\ At(w, 2) = IntTag /\ At(w, 3) = x
      /\ At(w, 4 + x) = IntTag /\ At(w, 5 + x) = y
  <2>1. Len(w) = 6 + y + x /\ w[5 + x] = IntTag /\ w[6 + x] = y /\ w[2] = 4 + y + x /\ w[4] = x
    BY <1>2, <1>3, Zenon
  <2>2. (4 + x) + 1 = 5 + x /\ (5 + x) + 1 = 6 + x /\ 4 + x < Len(w) /\ 5 + x < Len(w) /\ 3 < Len(w)
    BY <1>4, <2>1
  <2> QED BY <1>2, <1>4, <2>1, <2>2, SMTT(40) DEF At
<1>6. der_read_len(w, 1) = [len |-> 4 + y + x, at |-> 2, seen |-> 1]
  <2>1. Len(w) = 6 + y + x /\ 4 + y + x < Half /\ 4 + y + x # Full
    BY <1>2, <1>3, <1>4, Sizes, SMTT(40)
  <2> QED BY <1>4, <1>5, <2>1 DEF der_read_len
<1>7. PICK a : a = der_parse_integer(w, 2)
  BY Zenon
<1>8. a.ok /\ a.r = r /\ a.at = 4 + x
  <2>1. /\ 2 \in Nat /\ 2 + 2 + Len(rp) <= Len(w) /\ At(w, 2 + 1) = Len(rp)
        /\ \A i \in 1 .. Len(rp) : 2 + 2 + i = 4 + i
    BY <1>2, <1>3, <1>4, <1>5
  <2>2. \A i \in 1 .. Len(rp) : w[2 + 2 + i] = rp[i]
    BY <1>2, <2>1, Zenon
  <2>3. HasInteger(w, 2, rp)
    BY <1>5, <2>1, <2>2, Zenon DEF HasInteger
  <2>4. a.ok /\ a.r = r /\ a.at = 2 + 2 + Len(rp)
    <3>1. Reads(w, 2, r, 2 + 2 + Len(rp))
      BY <1>2, <2>1, <2>3, ReadBack
    <3> QED BY <1>7, <3>1, Zenon DEF Reads
  <2> QED BY <1>3, <1>4, <2>4
<1>9. PICK b : b = der_parse_integer(w, a.at)
  BY Zenon
<1>10. b.ok /\ b.r = s /\ b.at = Len(w)
  <2>1. /\ 4 + x \in Nat /\ (4 + x) + 2 + Len(sp) <= Len(w) /\ (4 + x) + 1 = 5 + x
        /\ (4 + x) + 2 + Len(sp) = Len(w)
        /\ \A i \in 1 .. Len(sp) : (4 + x) + 2 + i = 6 + Len(rp) + i
    BY <1>2, <1>3, <1>4
  <2>2. \A i \in 1 .. Len(sp) : w[(4 + x) + 2 + i] = sp[i]
    BY <1>2, <2>1, Zenon
  <2>3. At(w, 4 + x) = IntTag /\ At(w, (4 + x) + 1) = Len(sp)
    BY <1>3, <1>5, <2>1, Zenon
  <2>4. b = der_parse_integer(w, 4 + x)
    BY <1>8, <1>9, Zenon
  <2>5. HasInteger(w, 4 + x, sp)
    BY <2>1, <2>2, <2>3, Zenon DEF HasInteger
  <2>6. b.ok /\ b.r = s /\ b.at = (4 + x) + 2 + Len(sp)
    <3>1. Reads(w, 4 + x, s, (4 + x) + 2 + Len(sp))
      BY <1>2, <2>1, <2>5, ReadBack
    <3> QED BY <2>4, <3>1, Zenon DEF Reads
  <2> QED BY <2>1, <2>6, Zenon
<1>11. PICK l : l = [len |-> 4 + y + x, at |-> 2, seen |-> 1]
  BY Zenon
<1>12. ~(l.len < 0 \/ l.at + l.len # Len(w)) /\ l.at = 2 /\ w # <<>>
  <2>1. Len(w) = 6 + y + x
    BY <1>2, <1>3, Zenon
  <2>2. w # <<>>
    BY <1>4, <2>1
  <2> QED BY <1>4, <1>11, <2>1, <2>2
<1>13. ecdsa_sig_parse(w) = AfterLength(w, l)
  BY <1>5, <1>6, <1>11, <1>12, Zenon DEF ecdsa_sig_parse
<1>14. PICK v : v = Highest(0, l.seen)
  BY Zenon
<1>15. AfterLength(w, l) = AfterR(w, a, v)
  BY <1>7, <1>12, <1>14, Zenon DEF AfterLength
<1>16. PICK q : q = Highest(v, a.seen)
  BY Zenon
<1>17. AfterR(w, a, v) = AfterS(w, a, b, q)
  BY <1>8, <1>9, <1>16, Zenon DEF AfterR
<1>18. AfterS(w, a, b, q) = [ok |-> TRUE, r |-> a.r, s |-> b.r, seen |-> Highest(q, b.seen)]
  BY <1>10, Zenon DEF AfterS
<1>19. ecdsa_sig_parse(w) = [ok |-> TRUE, r |-> r, s |-> s, seen |-> Highest(q, b.seen)]
  BY <1>8, <1>10, <1>13, <1>15, <1>17, <1>18, ZenonT(40)
<1> QED BY <1>1, <1>19

\* What sig_serialize gives.
LEMMA SerializeIs ==
  ASSUME NEW r, NEW s, NEW size
  PROVE  LET e == ecdsa_sig_serialize(r, s, size)
             need == 6 + Len(Shortest(s)) + Len(Shortest(r))
         IN  /\ e.size = need
             /\ e.ok = ~(size < need)
             /\ e.ok => e.sig = Written(Shortest(r), Shortest(s))
<1> DEFINE need == 6 + Len(Shortest(s)) + Len(Shortest(r))
<1>1. CASE size < need
  <2>1. ecdsa_sig_serialize(r, s, size) = [ok |-> FALSE, size |-> need, sig |-> <<>>]
    BY <1>1, Zenon DEF ecdsa_sig_serialize
  <2> HIDE DEF need
  <2>2. LET e == ecdsa_sig_serialize(r, s, size)
        IN  e.size = need /\ e.ok = FALSE
    BY <2>1
  <2> QED BY <1>1, <2>2, Zenon DEF need
<1>2. CASE ~(size < need)
  <2>1. ecdsa_sig_serialize(r, s, size) =
          [ok |-> TRUE, size |-> need, sig |-> Written(Shortest(r), Shortest(s))]
    BY <1>2, Zenon DEF ecdsa_sig_serialize, Written
  <2> HIDE DEF need
  <2>2. LET e == ecdsa_sig_serialize(r, s, size)
        IN  e.size = need /\ e.ok = TRUE /\ e.sig = Written(Shortest(r), Shortest(s))
    BY <2>1
  <2> QED BY <1>2, <2>2, Zenon DEF need
<1> QED BY <1>1, <1>2

---------------------------------------------------------------------------
(* Length octets.                                                          *)

\* When nothing is left of a number, nothing is left of it later.
LEMMA ShiftsZero ==
  ASSUME NEW n \in Nat, NEW B \in Nat, NEW i \in 0 .. B, Shifts(n, B)[i] = 0
  PROVE  \A j \in i .. B : Shifts(n, B)[j] = 0
<1> DEFINE S == {k \in Nat : i + k <= B => Shifts(n, B)[i + k] = 0}
<1>1. 0 \in S
  OBVIOUS
<1>2. ASSUME NEW k \in Nat, k \in S PROVE k + 1 \in S
  <2> SUFFICES ASSUME i + (k + 1) <= B PROVE Shifts(n, B)[i + (k + 1)] = 0
    OBVIOUS
  <2>1. i + (k + 1) \in 1 .. B /\ (i + (k + 1)) - 1 = i + k /\ i + k <= B
    OBVIOUS
  <2>2. \A j \in 1 .. B : Shifts(n, B)[j] = Shifts(n, B)[j - 1] \div Base
    BY ShiftsIs
  <2>3. Shifts(n, B)[i + (k + 1)] = Shifts(n, B)[i + k] \div Base
    <3>1. Shifts(n, B)[i + (k + 1)] = Shifts(n, B)[(i + (k + 1)) - 1] \div Base
      BY <2>1, <2>2, Zenon
    <3> QED BY <2>1, <3>1, Zenon
  <2>4. Shifts(n, B)[i + k] = 0
    BY <1>2, <2>1
  <2>5. 0 \div Base = 0
    BY Sizes
  <2> QED BY <2>3, <2>4, <2>5, Zenon
<1>3. \A k \in Nat : k \in S
  <2> HIDE DEF S
  <2> QED BY <1>1, <1>2, CountUp
<1>4. ASSUME NEW j \in i .. B PROVE Shifts(n, B)[j] = 0
  <2>1. j - i \in Nat /\ i + (j - i) = j /\ j <= B
    OBVIOUS
  <2> QED BY <1>3, <2>1
<1> QED BY <1>4

\* The constants of the length octets.
LEMMA SizeTIs == SizeT \in Nat /\ SizeT > 0 /\ SizeT + 1 < Half /\ MaxEdits \in Nat
BY DerAssumption

\* A number that is not in the short form has a first octet.
LEMMA OctetsAre ==
  ASSUME NEW n \in Nat, n >= Half, NEW k \in 1 .. SizeT,
         Shifts(n, SizeT)[k] = 0, Shifts(n, SizeT)[k - 1] # 0
  PROVE  LengthOctets(n) = <<Half + k>> \o Digits(n, SizeT, k)
<1> DEFINE d == Shifts(n, SizeT)
           c == CHOOSE j \in 1 .. SizeT : d[j] = 0 /\ d[j - 1] # 0
<1>1. c \in 1 .. SizeT /\ d[c] = 0 /\ d[c - 1] # 0
  BY Zenon
<1>2. ASSUME NEW i \in 1 .. SizeT, NEW j \in 1 .. SizeT, i < j, d[i] = 0, d[j - 1] # 0
      PROVE  FALSE
  <2>1. i \in 0 .. SizeT /\ j - 1 \in i .. SizeT
    BY <1>2, SizeTIs
  <2> QED BY <1>2, <2>1, ShiftsZero, SizeTIs
<1> HIDE DEF c
<1>3. c = k
  <2>1. ~(c < k) /\ ~(k < c)
    BY <1>1, <1>2
  <2> QED BY <1>1, <2>1, SizeTIs
<1>4. ~(n < Half)
  BY Sizes
<1>5. LengthOctets(n) = <<Half + c>> \o [i \in 1 .. c |-> d[c - i] % Base]
  BY <1>4, Zenon DEF LengthOctets, c
<1> QED BY <1>3, <1>5, Zenon DEF Digits

\* A string without a zero in front, of a size that a size_t has, is the octets of its
\* value.
LEMMA OctetsOf ==
  ASSUME NEW t \in Strings, Len(t) \in 1 .. SizeT, t[1] # 0, ValueOf(t) >= Half
  PROVE  LengthOctets(ValueOf(t)) = <<Half + Len(t)>> \o t
<1>1. PICK n, k : n = ValueOf(t) /\ k = Len(t)
  BY Zenon
<1>2. k \in 1 .. SizeT /\ k <= SizeT /\ SizeT \in Nat /\ k \in 0 .. k /\ k - 1 \in 0 .. k /\ k - k = 0
      /\ k - (k - 1) = 1 /\ 1 \in 1 .. k /\ k \in Nat /\ 1 - 1 = 0
  BY <1>1, SizeTIs
<1>3. /\ n \in Nat
      /\ \A j \in 0 .. k : Shifts(n, SizeT)[j] = Horner(t)[k - j]
      /\ t = Digits(n, SizeT, k)
  BY <1>1, <1>2, DigitsOnly
<1>4. Horner(t)[0] = 0 /\ \A j \in 1 .. k : Horner(t)[j] = Horner(t)[j - 1] * Base + t[j]
  BY <1>1, <1>2, HornerIs
<1>5. Horner(t)[1] = t[1]
  <2>1. Horner(t)[1] = Horner(t)[0] * Base + t[1]
    BY <1>2, <1>4, Zenon
  <2>2. t[1] \in 0 .. Full
    BY <1>1, <1>2, ElementOfSeq, ZenonT(40) DEF Strings
  <2> QED BY <1>4, <2>1, <2>2, Sizes
<1>6. Shifts(n, SizeT)[k] = 0 /\ Shifts(n, SizeT)[k - 1] # 0
  <2>1. Shifts(n, SizeT)[k] = Horner(t)[k - k] /\ Shifts(n, SizeT)[k - 1] = Horner(t)[k - (k - 1)]
    BY <1>2, <1>3, Zenon
  <2> QED BY <1>2, <1>4, <1>5, <2>1, Zenon
<1>7. LengthOctets(n) = <<Half + k>> \o Digits(n, SizeT, k)
  BY <1>1, <1>2, <1>3, <1>6, OctetsAre
<1> QED BY <1>1, <1>3, <1>7, Zenon

\* And every number that fits into a size_t has such octets.
LEMMA OctetsBack ==
  ASSUME NEW n \in Nat, n >= Half, Fits(n, SizeT)
  PROVE  \E t \in Strings : /\ Len(t) \in 1 .. SizeT /\ t[1] # 0 /\ ValueOf(t) = n
                            /\ LengthOctets(n) = <<Half + Len(t)>> \o t
<1> DEFINE d == Shifts(n, SizeT)
           Z == {j \in 0 .. SizeT : d[j] = 0}
<1>1. Z \in SUBSET Nat /\ SizeT \in Z
  BY SizeTIs DEF Fits
<1>2. PICK k \in Z : \A j \in Z : k <= j
  <2> HIDE DEF Z
  <2> QED BY <1>1, LeastOf
<1>3. k # 0
  <2>1. d[0] = n
    BY SizeTIs, ShiftsIs
  <2> QED BY <1>2, <2>1, Sizes
<1>4. /\ k \in 1 .. SizeT /\ k \in 0 .. SizeT /\ k - 1 \in 0 .. SizeT /\ d[k] = 0 /\ d[k - 1] # 0
      /\ 1 \in 1 .. k
  <2>1. k \in 1 .. SizeT /\ k \in 0 .. SizeT /\ k - 1 \in 0 .. SizeT /\ d[k] = 0 /\ 1 \in 1 .. k
    BY <1>2, <1>3, SizeTIs
  <2>2. k - 1 \notin Z
    BY <1>2, <2>1
  <2> QED BY <2>1, <2>2
<1>5. PICK t : t = Digits(n, SizeT, k)
  BY Zenon
<1>6. t \in Strings /\ Len(t) = k /\ t[1] = d[k - 1] % Base /\ ValueOf(t) = n
  BY <1>4, <1>5, SizeTIs, DigitsIs, DigitsValue, ZenonT(40)
<1>7. t[1] # 0
  <2>1. d[k - 1] \in Nat
    BY <1>4, SizeTIs, ShiftsOrder
  <2>2. d[k] = d[k - 1] \div Base
    <3>1. \A j \in 1 .. SizeT : d[j] = d[j - 1] \div Base
      BY SizeTIs, ShiftsIs
    <3> QED BY <1>4, <3>1, Zenon
  <2>3. d[k - 1] = (d[k - 1] \div Base) * Base + (d[k - 1] % Base) /\ d[k - 1] % Base \in 0 .. Base - 1
    BY <2>1, Sizes, Division, ZenonT(40)
  <2>4. d[k - 1] = 0 * Base + (d[k - 1] % Base)
    BY <1>4, <2>2, <2>3, Zenon
  <2>5. PICK a, b : a = d[k - 1] % Base /\ b = d[k - 1]
    BY Zenon
  <2>6. b = 0 * Base + a /\ b # 0 /\ a \in 0 .. Base - 1
    BY <1>4, <2>3, <2>4, <2>5, Zenon
  <2>7. a # 0
    BY <2>6, Sizes
  <2> QED BY <1>6, <2>5, <2>7, Zenon
<1>8. LengthOctets(n) = <<Half + k>> \o t
  BY <1>4, <1>5, OctetsAre
<1> QED BY <1>4, <1>6, <1>7, <1>8, ZenonT(40)

---------------------------------------------------------------------------
(* Strings inside strings.                                                 *)

\* t is in sig, from the offset at.
HasAt(sig, at, t) == at + Len(t) <= Len(sig) /\ \A i \in 1 .. Len(t) : sig[at + i] = t[i]

\* The value grows with every byte, and only the bytes so far count.
LEMMA HornerGrows ==
  ASSUME NEW t \in Strings, NEW k \in 0 .. Len(t)
  PROVE  Horner(t)[k] \in Nat /\ Horner(t)[k] <= ValueOf(t)
<1> DEFINE H == Horner(t)
           N == Len(t)
           S == {j \in Nat : k + j <= N => H[k] <= H[k + j]}
<1>1. N \in Nat /\ \A i \in 1 .. N : t[i] \in 0 .. Full
  BY LenProperties, ElementOfSeq, ZenonT(40) DEF Strings
<1>2. \A i \in 1 .. N : H[i] = H[i - 1] * Base + t[i]
  BY <1>1, HornerIs
<1>3. ASSUME NEW i \in 0 .. N PROVE H[i] \in Nat
  <2>1. N - i \in 0 .. N /\ N - (N - i) = i /\ N <= N
    BY <1>1
  <2>2. Shifts(ValueOf(t), N)[N - i] = H[N - (N - i)] /\ ValueOf(t) \in Nat
    BY <1>1, <2>1, DigitsOnly
  <2>3. Shifts(ValueOf(t), N)[N - i] \in Nat
    BY <1>1, <2>1, <2>2, ShiftsOrder
  <2> QED BY <2>1, <2>2, <2>3, Zenon
<1> HIDE DEF H
<1>4. 0 \in S
  BY <1>1, <1>3
<1>5. ASSUME NEW j \in Nat, j \in S PROVE j + 1 \in S
  <2> SUFFICES ASSUME k + (j + 1) <= N PROVE H[k] <= H[k + (j + 1)]
    OBVIOUS
  <2>1. /\ k + (j + 1) \in 1 .. N /\ (k + (j + 1)) - 1 = k + j /\ k + j <= N
        /\ k + j \in 0 .. N /\ k + (j + 1) \in 0 .. N
    BY <1>1
  <2>2. H[k + (j + 1)] = H[k + j] * Base + t[k + (j + 1)]
    <3>1. H[k + (j + 1)] = H[(k + (j + 1)) - 1] * Base + t[k + (j + 1)]
      BY <1>2, <2>1, Zenon
    <3> QED BY <2>1, <3>1, Zenon
  <2>3. H[k] <= H[k + j]
    BY <1>5, <2>1
  <2>4. PICK a, b, c : a = H[k] /\ b = H[k + j] /\ c = t[k + (j + 1)]
    BY Zenon
  <2>5. a \in Nat /\ b \in Nat /\ c \in Nat /\ a <= b
    BY <1>1, <1>3, <2>1, <2>3, <2>4
  <2>6. a <= b * Base + c
    BY <2>5, Sizes
  <2> QED BY <2>2, <2>4, <2>6, Zenon
<1>6. \A j \in Nat : j \in S
  <2> HIDE DEF S
  <2> QED BY <1>4, <1>5, CountUp
<1>7. N - k \in Nat /\ k + (N - k) = N /\ k + (N - k) <= N
  BY <1>1
<1>8. H[k] <= H[N]
  <2>1. N - k \in S
    BY <1>6, <1>7, Zenon
  <2>2. H[k] <= H[k + (N - k)]
    BY <1>7, <2>1, Zenon
  <2> QED BY <1>7, <2>2, Zenon
<1> QED BY <1>3, <1>8 DEF ValueOf, H

\* The value of a prefix is what Horner has there.
LEMMA HornerPrefix ==
  ASSUME NEW s \in Strings, NEW t \in Strings, Len(s) <= Len(t),
         \A i \in 1 .. Len(s) : s[i] = t[i]
  PROVE  ValueOf(s) = Horner(t)[Len(s)]
<1> DEFINE N == Len(s)
           S == {k \in Nat : k <= N => Horner(s)[k] = Horner(t)[k]}
<1>1. N \in Nat /\ Len(t) \in Nat
  BY LenProperties DEF Strings
<1>2. Horner(s)[0] = 0 /\ \A i \in 1 .. N : Horner(s)[i] = Horner(s)[i - 1] * Base + s[i]
  BY <1>1, HornerIs
<1>3. Horner(t)[0] = 0 /\ \A i \in 1 .. Len(t) : Horner(t)[i] = Horner(t)[i - 1] * Base + t[i]
  BY <1>1, HornerIs
<1>4. 0 \in S
  BY <1>2, <1>3
<1>5. ASSUME NEW k \in Nat, k \in S PROVE k + 1 \in S
  <2> SUFFICES ASSUME k + 1 <= N PROVE Horner(s)[k + 1] = Horner(t)[k + 1]
    OBVIOUS
  <2>1. k + 1 \in 1 .. N /\ k + 1 \in 1 .. Len(t) /\ (k + 1) - 1 = k /\ k <= N
    BY <1>1
  <2>2. /\ Horner(s)[k + 1] = Horner(s)[(k + 1) - 1] * Base + s[k + 1]
        /\ Horner(t)[k + 1] = Horner(t)[(k + 1) - 1] * Base + t[k + 1] /\ s[k + 1] = t[k + 1]
    BY <1>2, <1>3, <2>1, Zenon
  <2>3. Horner(s)[k] = Horner(t)[k]
    BY <1>5, <2>1
  <2> QED BY <2>1, <2>2, <2>3, Zenon
<1>6. N \in S
  <2> HIDE DEF S
  <2> QED BY <1>1, <1>4, <1>5, CountUp
<1> QED BY <1>1, <1>6 DEF ValueOf

\* A part of a string of bytes.
LEMMA PartOf ==
  ASSUME NEW sig \in Strings, NEW at \in Nat, NEW n \in Nat, at + n <= Len(sig)
  PROVE  /\ SubSeq(sig, at + 1, at + n) \in Strings /\ Len(SubSeq(sig, at + 1, at + n)) = n
         /\ \A i \in 1 .. n : SubSeq(sig, at + 1, at + n)[i] = sig[at + i]
         /\ HasAt(sig, at, SubSeq(sig, at + 1, at + n))
<1>1. Len(sig) \in Nat /\ \A j \in 1 .. Len(sig) : sig[j] \in 0 .. Full
  BY LenProperties, ElementOfSeq, ZenonT(40) DEF Strings
<1>2. at + 1 \in Int /\ at + n \in Int /\ \A i \in at + 1 .. at + n : i \in 1 .. Len(sig)
  BY <1>1
<1>3. PICK w : w = SubSeq(sig, at + 1, at + n)
  BY Zenon
<1>4. \A i \in at + 1 .. at + n : sig[i] \in 0 .. Full
  BY <1>1, <1>2, Zenon
<1>5. /\ w \in Seq(0 .. Full)
      /\ Len(w) = IF at + 1 <= at + n THEN (at + n) - (at + 1) + 1 ELSE 0
      /\ \A i \in 1 .. (at + n) - (at + 1) + 1 : w[i] = sig[(at + 1) + i - 1]
  BY <1>2, <1>3, <1>4, SubSeqProperties
<1>6. Len(w) = n /\ \A i \in 1 .. n : w[i] = sig[at + i]
  <2>1. Len(w) = n /\ (at + n) - (at + 1) + 1 = n /\ \A i \in 1 .. n : (at + 1) + i - 1 = at + i
    BY <1>5
  <2> QED BY <1>5, <2>1, Zenon
<1> QED BY <1>3, <1>5, <1>6 DEF HasAt, Strings

\* What is at an offset is the part there.
LEMMA HasAtIs ==
  ASSUME NEW sig \in Strings, NEW at \in Nat, NEW t \in Strings, HasAt(sig, at, t)
  PROVE  SubSeq(sig, at + 1, at + Len(t)) = t
<1>1. Len(t) \in Nat /\ at + Len(t) <= Len(sig)
  BY LenProperties DEF Strings, HasAt
<1>2. PICK w : w = SubSeq(sig, at + 1, at + Len(t))
  BY Zenon
<1>3. w \in Strings /\ Len(w) = Len(t) /\ \A i \in 1 .. Len(t) : w[i] = sig[at + i]
  BY <1>1, <1>2, PartOf, ZenonT(40)
<1>4. \A i \in 1 .. Len(t) : w[i] = t[i]
  BY <1>3, Zenon DEF HasAt
<1> QED BY <1>2, <1>3, <1>4, SeqEqual, ZenonT(40) DEF Strings

\* Two strings one after the other.
LEMMA HasBoth ==
  ASSUME NEW sig \in Strings, NEW at \in Nat, NEW x \in Strings, NEW y \in Strings
  PROVE  /\ x \o y \in Strings /\ Len(x \o y) = Len(x) + Len(y)
         /\ HasAt(sig, at, x \o y) <=> HasAt(sig, at, x) /\ HasAt(sig, at + Len(x), y)
<1>1. Len(x) \in Nat /\ Len(y) \in Nat /\ Len(sig) \in Nat
  BY LenProperties DEF Strings
<1>2. PICK w : w = x \o y
  BY Zenon
<1>3. /\ w \in Strings /\ Len(w) = Len(x) + Len(y)
      /\ \A i \in 1 .. Len(x) : w[i] = x[i]
      /\ \A i \in 1 .. Len(y) : w[Len(x) + i] = y[i]
  BY <1>2, Joined DEF Strings
<1>4. ASSUME HasAt(sig, at, w) PROVE HasAt(sig, at, x) /\ HasAt(sig, at + Len(x), y)
  <2>0. at + Len(w) <= Len(sig) /\ \A i \in 1 .. Len(w) : sig[at + i] = w[i]
    BY <1>4, Zenon DEF HasAt
  <2>1. at + Len(x) <= Len(sig) /\ (at + Len(x)) + Len(y) <= Len(sig)
    BY <1>1, <1>3, <2>0
  <2>2. ASSUME NEW i \in 1 .. Len(x) PROVE sig[at + i] = x[i]
    <3>1. i \in 1 .. Len(w)
      BY <1>1, <1>3
    <3> QED BY <1>3, <2>0, <3>1, Zenon
  <2>3. ASSUME NEW i \in 1 .. Len(y) PROVE sig[(at + Len(x)) + i] = y[i]
    <3>1. Len(x) + i \in 1 .. Len(w) /\ at + (Len(x) + i) = (at + Len(x)) + i
      BY <1>1, <1>3
    <3>2. sig[at + (Len(x) + i)] = w[Len(x) + i] /\ w[Len(x) + i] = y[i]
      BY <1>3, <2>0, <3>1, Zenon
    <3> QED BY <3>1, <3>2, Zenon
  <2> QED BY <2>1, <2>2, <2>3, Zenon DEF HasAt
<1>5. ASSUME HasAt(sig, at, x), HasAt(sig, at + Len(x), y) PROVE HasAt(sig, at, w)
  <2>0. /\ (at + Len(x)) + Len(y) <= Len(sig) /\ \A i \in 1 .. Len(x) : sig[at + i] = x[i]
        /\ \A i \in 1 .. Len(y) : sig[(at + Len(x)) + i] = y[i]
    BY <1>5, Zenon DEF HasAt
  <2>1. at + Len(w) <= Len(sig)
    BY <1>1, <1>3, <2>0
  <2>2. ASSUME NEW i \in 1 .. Len(w) PROVE sig[at + i] = w[i]
    <3>1. CASE i <= Len(x)
      <4>1. i \in 1 .. Len(x)
        BY <1>1, <1>3, <3>1
      <4> QED BY <1>3, <2>0, <4>1, Zenon
    <3>2. CASE i > Len(x)
      <4>1. i - Len(x) \in 1 .. Len(y) /\ (at + Len(x)) + (i - Len(x)) = at + i /\ Len(x) + (i - Len(x)) = i
        BY <1>1, <1>3, <3>2
      <4>2. sig[(at + Len(x)) + (i - Len(x))] = y[i - Len(x)] /\ w[Len(x) + (i - Len(x))] = y[i - Len(x)]
        BY <1>3, <2>0, <4>1, Zenon
      <4> QED BY <4>1, <4>2, Zenon
    <3> QED BY <1>1, <1>3, <3>1, <3>2
  <2> QED BY <2>1, <2>2, Zenon DEF HasAt
<1> QED BY <1>2, <1>3, <1>4, <1>5, Zenon

\* The loop over the octets stops early only for a number that is beyond the end at last.
LEMMA LongFormExact ==
  ASSUME NEW sig \in Strings, NEW first \in Nat, NEW count \in Nat, count > 0,
         first + count <= Len(sig), Len(sig) <= IntMax,
         NEW v, v = ValueOf(SubSeq(sig, first + 1, first + count))
  PROVE  LET l == LongForm(sig, first, count)
         IN  IF v <= Len(sig) - (first + count) /\ v >= Half
             THEN l.len = v /\ l.at = first + count ELSE l.len = -1
<1> DEFINE t == SubSeq(sig, first + 1, first + count)
           end    == first + count
           ret(j) == ValueOf(SubSeq(sig, first + 1, first + j))
           beyond == {j \in 1 .. count : ret(j) \notin 0 .. Len(sig) - end}
<1>1. Len(sig) \in Nat /\ end \in Nat /\ Len(sig) - end \in Nat
  BY LenProperties DEF Strings
<1>2. t \in Strings /\ Len(t) = count /\ \A i \in 1 .. count : t[i] = sig[first + i]
  BY PartOf, ZenonT(40)
<1> HIDE DEF t
<1>3. ASSUME NEW j \in 1 .. count PROVE ret(j) \in Nat /\ ret(j) <= v
  <2>1. PICK u : u = SubSeq(sig, first + 1, first + j)
    BY Zenon
  <2>2. j \in Nat /\ first + j <= Len(sig) /\ j \in 0 .. Len(t) /\ j <= Len(t)
    BY <1>1, <1>2
  <2>3. u \in Strings /\ Len(u) = j /\ \A i \in 1 .. j : u[i] = sig[first + i]
    BY <2>1, <2>2, PartOf, ZenonT(40)
  <2>4. \A i \in 1 .. Len(u) : u[i] = t[i]
    <3>1. \A i \in 1 .. j : i \in 1 .. count
      OBVIOUS
    <3> QED BY <1>2, <2>3, <3>1, Zenon
  <2>5. ValueOf(u) = Horner(t)[Len(u)]
    BY <1>2, <2>2, <2>3, <2>4, HornerPrefix, SMTT(40)
  <2>6. Horner(t)[j] \in Nat /\ Horner(t)[j] <= ValueOf(t)
    BY <1>2, <2>2, HornerGrows
  <2>7. v = ValueOf(t)
    BY Zenon DEF t
  <2> QED BY <2>1, <2>3, <2>5, <2>6, <2>7, Zenon
<1>4. ret(count) = v /\ count \in 1 .. count
  OBVIOUS
<1>5. v \in Nat
  BY <1>3, <1>4, Zenon
<1> HIDE DEF ret
<1>6. CASE v <= Len(sig) - end
  <2>1. beyond = {}
    <3>1. ASSUME NEW j \in 1 .. count PROVE ret(j) \in 0 .. Len(sig) - end
      BY <1>1, <1>3, <1>5, <1>6
    <3> QED BY <3>1, Zenon
  <2>2. LongForm(sig, first, count) = IF ret(count) < Half THEN Failed(end, end - 1)
                                      ELSE [len |-> AsInt(ret(count)), at |-> end, seen |-> end - 1]
    <3>1. beyond = {}
      BY <2>1
    <3> QED BY <3>1, Zenon DEF LongForm, ret
  <2>3. LongForm(sig, first, count) = IF v < Half THEN Failed(end, end - 1)
                                      ELSE [len |-> v, at |-> end, seen |-> end - 1]
    <3>1. v <= IntMax
      BY <1>1, <1>5, <1>6, DerAssumption
    <3>2. AsInt(v) = v
      BY <1>5, <3>1, IntKept, Zenon
    <3> QED BY <1>4, <2>2, <3>2, Zenon
  <2> HIDE DEF end, beyond
  <2> QED BY <1>1, <1>5, <1>6, <2>3, Sizes DEF Failed, end
<1>7. CASE ~(v <= Len(sig) - end)
  <2>1. beyond # {}
    <3>1. ret(count) \notin 0 .. Len(sig) - end
      BY <1>1, <1>4, <1>5, <1>7
    <3> QED BY <1>4, <3>1, Zenon
  <2>2. LongForm(sig, first, count) = Failed(first + Min(beyond) - 1, first + Min(beyond) - 1)
    BY <2>1, Zenon DEF LongForm, ret
  <2> HIDE DEF beyond
  <2> QED BY <1>7, <2>2 DEF Failed
<1> QED BY <1>6, <1>7

\* The length octets of a number that fits into a size_t are bytes.
LEMMA OctetsString ==
  ASSUME NEW n \in Nat, Fits(n, SizeT)
  PROVE  LengthOctets(n) \in Strings /\ Len(LengthOctets(n)) \in Nat /\ Len(LengthOctets(n)) > 0
<1>1. CASE n < Half
  <2>1. LengthOctets(n) = <<n>>
    BY <1>1, Zenon DEF LengthOctets
  <2>2. <<n>> \in Seq(0 .. Full) /\ Len(<<n>>) = 1
    BY <1>1, Sizes
  <2> QED BY <2>1, <2>2 DEF Strings
<1>2. CASE n >= Half
  <2>1. PICK t \in Strings : /\ Len(t) \in 1 .. SizeT
                             /\ LengthOctets(n) = <<Half + Len(t)>> \o t
    BY <1>2, OctetsBack, ZenonT(40)
  <2>2. Half + Len(t) \in 0 .. Full
    BY <2>1, SizeTIs, Sizes DEF Base
  <2>3. <<Half + Len(t)>> \in Seq(0 .. Full) /\ Len(<<Half + Len(t)>>) = 1
    BY <2>2
  <2>4. PICK h : h = <<Half + Len(t)>>
    BY Zenon
  <2>5. h \in Strings /\ Len(h) = 1
    BY <2>3, <2>4 DEF Strings
  <2>6. h \o t \in Strings /\ Len(h \o t) = 1 + Len(t)
    <3>1. h \in Seq(0 .. Full) /\ t \in Seq(0 .. Full)
      BY <2>5 DEF Strings
    <3>2. h \o t \in Seq(0 .. Full) /\ Len(h \o t) = Len(h) + Len(t)
      BY <3>1, Joined
    <3> QED BY <2>5, <3>2, Zenon DEF Strings
  <2>7. LengthOctets(n) = h \o t
    BY <2>1, <2>4, Zenon
  <2>8. 1 + Len(t) \in Nat /\ 1 + Len(t) > 0
    BY <2>1, SizeTIs
  <2> QED BY <2>6, <2>7, <2>8, Zenon
<1> QED BY <1>1, <1>2, Sizes

\* The first octet and those after it.
LEMMA OctetsAt ==
  ASSUME NEW sig \in Strings, NEW at \in Nat, NEW b \in 0 .. Full, NEW t \in Strings
  PROVE  /\ <<b>> \o t \in Strings /\ Len(<<b>> \o t) = 1 + Len(t)
         /\ HasAt(sig, at, <<b>> \o t) <=> at < Len(sig) /\ At(sig, at) = b /\ HasAt(sig, at + 1, t)
<1>1. PICK h : h = <<b>>
  BY Zenon
<1>2. h \in Strings /\ Len(h) = 1 /\ h[1] = b
  BY <1>1 DEF Strings
<1>3. Len(sig) \in Nat
  BY LenProperties DEF Strings
<1>4. HasAt(sig, at, h) <=> at < Len(sig) /\ At(sig, at) = b
  <2>1. HasAt(sig, at, h) <=> at + 1 <= Len(sig) /\ sig[at + 1] = b
    BY <1>2 DEF HasAt
  <2>2. at + 1 <= Len(sig) <=> at < Len(sig)
    BY <1>3
  <2> QED BY <2>1, <2>2, Zenon DEF At
<1>5. /\ h \o t \in Strings /\ Len(h \o t) = 1 + Len(t)
      /\ HasAt(sig, at, h \o t) <=> HasAt(sig, at, h) /\ HasAt(sig, at + 1, t)
  <2>1. /\ h \o t \in Strings /\ Len(h \o t) = Len(h) + Len(t)
        /\ HasAt(sig, at, h \o t) <=> HasAt(sig, at, h) /\ HasAt(sig, at + Len(h), t)
    BY <1>2, HasBoth, ZenonT(40)
  <2> QED BY <1>2, <2>1, Zenon
<1> QED BY <1>1, <1>4, <1>5, Zenon

---------------------------------------------------------------------------
(* der_read_len accepts exactly the shortest length octets.                *)

\* What der_read_len gives for the length of the long form.
LEMMA ReadLenLong ==
  ASSUME NEW sig \in Strings, NEW at \in Nat, at < Len(sig),
         At(sig, at) # Full, At(sig, at) > Half, At(sig, at) - Half <= Len(sig) - (at + 1),
         At(sig, at + 1) # 0, At(sig, at) - Half <= SizeT
  PROVE  der_read_len(sig, at) = LongForm(sig, at + 1, At(sig, at) - Half)
<1>1. Len(sig) \in Nat /\ At(sig, at) \in 0 .. Full
  BY LenProperties, AtByte DEF Strings
<1>2. PICK b : b = At(sig, at)
  BY Zenon
<1>3. /\ ~(at >= Len(sig)) /\ b # Full /\ ~(b < Half) /\ ~(b = Half \/ b - Half > Len(sig) - (at + 1))
      /\ ~(At(sig, at + 1) = 0 \/ b - Half > SizeT)
  BY <1>1, <1>2, Sizes, SizeTIs
<1> QED BY <1>2, <1>3, Zenon DEF der_read_len

\* der_read_len gives a length only where its octets are.
LEMMA ReadLenSound ==
  ASSUME NEW sig \in Strings, NEW at \in Nat, Fits(Len(sig), SizeT), Len(sig) <= IntMax,
         der_read_len(sig, at).len >= 0
  PROVE  LET l == der_read_len(sig, at)
         IN  /\ l.len \in Nat /\ Fits(l.len, SizeT)
             /\ HasAt(sig, at, LengthOctets(l.len)) /\ l.at = at + Len(LengthOctets(l.len))
<1> DEFINE b1   == At(sig, at)
           left == b1 - Half
           l    == der_read_len(sig, at)
<1>1. Len(sig) \in Nat /\ b1 \in 0 .. Full /\ b1 \in Int
  <2>1. b1 \in 0 .. Full
    BY AtByte
  <2> HIDE DEF b1
  <2> QED BY <2>1, LenProperties DEF Strings
<1>2. /\ at < Len(sig) /\ b1 # Full
      /\ b1 < Half \/ (b1 > Half /\ left <= Len(sig) - (at + 1) /\ At(sig, at + 1) # 0 /\ left <= SizeT)
  <2>1. ASSUME l = Failed(at, -1) \/ l = Failed(at + 1, at) \/ l = Failed(at + 1, at + 1) PROVE FALSE
    <3> HIDE DEF l
    <3>1. l.len = -1
      BY <2>1 DEF Failed
    <3> QED BY <3>1 DEF l
  <2>2. /\ ~(at >= Len(sig)) /\ b1 # Full
        /\ ~(b1 < Half) => ~(b1 = Half \/ left > Len(sig) - (at + 1))
                           /\ ~(At(sig, at + 1) = 0 \/ left > SizeT)
    BY <2>1, Zenon DEF der_read_len
  <2> HIDE DEF b1, l
  <2> QED BY <1>1, <2>2, Sizes, SizeTIs
<1>3. CASE b1 < Half
  <2>1. b1 \in Nat /\ b1 <= Base /\ Half < Base
    BY <1>1, Sizes DEF Base
  <2>2. l = [len |-> b1, at |-> at + 1, seen |-> at]
    <3>1. ~(at >= Len(sig))
      BY <1>1, <1>2
    <3> QED BY <1>2, <1>3, <3>1, Zenon DEF der_read_len
  <2>3. LengthOctets(b1) = <<b1>>
    BY <1>3, Zenon DEF LengthOctets
  <2>4. HasAt(sig, at, <<b1>>) /\ Len(<<b1>>) = 1
    <3>1. b1 = sig[at + 1]
      BY <1>2 DEF At
    <3> HIDE DEF b1
    <3> QED BY <1>1, <1>2, <3>1 DEF HasAt
  <2>5. Fits(b1, SizeT)
    <3>1. Fits(Base + MaxEdits, SizeT)
      BY DerAssumption DEF IsSize
    <3>2. Base + MaxEdits \in Nat /\ b1 <= Base + MaxEdits
      BY <2>1, SizeTIs, Sizes
    <3> QED BY <2>1, <3>1, <3>2, FitsBelow, SizeTIs
  <2> HIDE DEF b1, l
  <2>6. l.len = b1 /\ l.at = at + 1
    BY <2>2
  <2> QED BY <2>1, <2>3, <2>4, <2>5, <2>6, ZenonT(40) DEF l
<1>4. CASE ~(b1 < Half)
  <2>1. /\ left \in Nat /\ left > 0 /\ (at + 1) + left <= Len(sig) /\ at + 1 \in Nat /\ left \in 1 .. SizeT
        /\ 1 \in 1 .. left /\ b1 = Half + left
    <3> HIDE DEF b1
    <3> QED BY <1>1, <1>2, <1>4, Sizes, SizeTIs, SMTT(40)
  <2>2. l = LongForm(sig, at + 1, left)
    BY <1>2, <1>4, ReadLenLong
  <2>3. PICK t : t = SubSeq(sig, (at + 1) + 1, (at + 1) + left)
    BY Zenon
  <2>4. /\ t \in Strings /\ Len(t) = left /\ \A i \in 1 .. left : t[i] = sig[(at + 1) + i]
        /\ HasAt(sig, at + 1, t)
    BY <2>1, <2>3, PartOf, ZenonT(40)
  <2>5. PICK v : v = ValueOf(t)
    BY Zenon
  <2> HIDE DEF b1, l, left
  <2>6. IF v <= Len(sig) - ((at + 1) + left) /\ v >= Half
        THEN l.len = v /\ l.at = (at + 1) + left ELSE l.len = -1
    BY <2>1, <2>2, <2>3, <2>5, LongFormExact
  <2>7. l.len >= 0
    BY DEF l
  <2>8. v <= Len(sig) - ((at + 1) + left) /\ v >= Half /\ l.len = v /\ l.at = (at + 1) + left
    BY <2>6, <2>7
  <2>9. t[1] # 0
    <3>1. t[1] = sig[(at + 1) + 1] /\ at + 1 < Len(sig)
      BY <1>1, <2>1, <2>4
    <3>2. At(sig, at + 1) = sig[(at + 1) + 1]
      BY <3>1, Zenon DEF At
    <3>3. At(sig, at + 1) # 0
      BY <1>2, <1>4
    <3> QED BY <3>1, <3>2, <3>3, Zenon
  <2>10. LengthOctets(v) = <<Half + left>> \o t
    BY <2>1, <2>4, <2>5, <2>8, <2>9, OctetsOf, ZenonT(40)
  <2>11. v \in Nat /\ v <= Len(sig)
    <3>1. ValueOf(t) \in Nat
      BY <2>1, <2>4, DigitsOnly
    <3> QED BY <1>1, <2>1, <2>5, <2>8, <3>1
  <2>12. Fits(v, SizeT)
    BY <1>1, <2>11, FitsBelow, SizeTIs
  <2>13. HasAt(sig, at, <<b1>> \o t) /\ Len(<<b1>> \o t) = 1 + left
    BY <1>1, <1>2, <2>4, OctetsAt DEF b1
  <2>14. at + (1 + left) = (at + 1) + left
    BY <2>1
  <2> QED BY <2>1, <2>8, <2>10, <2>11, <2>12, <2>13, <2>14, ZenonT(40) DEF l
<1> QED BY <1>3, <1>4

\* der_read_len gives every length whose octets and content are there.
LEMMA ReadLenComplete ==
  ASSUME NEW sig \in Strings, NEW at \in Nat, Fits(Len(sig), SizeT), Len(sig) <= IntMax, NEW n \in Nat,
         HasAt(sig, at, LengthOctets(n)), at + Len(LengthOctets(n)) + n <= Len(sig), n <= Len(sig)
  PROVE  der_read_len(sig, at).len = n
<1> DEFINE b1   == At(sig, at)
           left == b1 - Half
           l    == der_read_len(sig, at)
<1>1. Len(sig) \in Nat
  BY LenProperties DEF Strings
<1>2. CASE n < Half
  <2>1. LengthOctets(n) = <<n>>
    BY <1>2, Zenon DEF LengthOctets
  <2>2. HasAt(sig, at, <<n>>) /\ Len(<<n>>) = 1
    BY <2>1
  <2>3. at < Len(sig) /\ sig[at + 1] = n
    BY <1>1, <2>2 DEF HasAt
  <2>4. ~(at >= Len(sig)) /\ b1 = n /\ b1 # Full
    BY <1>1, <1>2, <2>3, Sizes DEF At
  <2>5. l = [len |-> b1, at |-> at + 1, seen |-> at]
    BY <1>2, <2>4, Zenon DEF der_read_len
  <2> HIDE DEF b1
  <2> QED BY <2>4, <2>5
<1>3. CASE ~(n < Half)
  <2>0. n >= Half /\ Fits(n, SizeT)
    BY <1>1, <1>3, Sizes, FitsBelow, SizeTIs
  <2>1. PICK t \in Strings : /\ Len(t) \in 1 .. SizeT /\ t[1] # 0 /\ ValueOf(t) = n
                             /\ LengthOctets(n) = <<Half + Len(t)>> \o t
    BY <2>0, OctetsBack, ZenonT(40)
  <2>2. PICK k : k = Len(t)
    BY Zenon
  <2>3. /\ k \in Nat /\ k > 0 /\ k <= SizeT /\ Half + k \in 0 .. Full /\ Half + k # Full /\ Half + k > Half
        /\ (Half + k) - Half = k /\ 1 \in 1 .. k
    BY <2>1, <2>2, SizeTIs, Sizes DEF Base
  <2>4. HasAt(sig, at, <<Half + k>> \o t)
    BY <2>1, <2>2, Zenon
  <2>5. /\ at < Len(sig) /\ b1 = Half + k /\ HasAt(sig, at + 1, t)
        /\ Len(<<Half + k>> \o t) = 1 + k
    BY <2>2, <2>3, <2>4, OctetsAt
  <2> HIDE DEF b1
  <2>6. at + 1 + k <= Len(sig) /\ sig[(at + 1) + 1] = t[1] /\ (at + 1) + k <= Len(sig) /\ at + 1 < Len(sig)
    <3>1. (at + 1) + k <= Len(sig) /\ \A i \in 1 .. k : sig[(at + 1) + i] = t[i]
      BY <2>2, <2>5, Zenon DEF HasAt
    <3> QED BY <1>1, <2>3, <3>1
  <2>7. At(sig, at + 1) # 0
    BY <2>1, <2>6, Zenon DEF At
  <2>8. left = k /\ left <= Len(sig) - (at + 1) /\ b1 # Full /\ b1 > Half /\ left <= SizeT
    BY <1>1, <2>3, <2>5, <2>6
  <2>9. l = LongForm(sig, at + 1, k)
    <3>1. l = LongForm(sig, at + 1, left)
      BY <2>5, <2>7, <2>8, ReadLenLong DEF b1
    <3> QED BY <2>8, <3>1, Zenon
  <2>10. SubSeq(sig, (at + 1) + 1, (at + 1) + k) = t
    BY <2>2, <2>5, HasAtIs
  <2>11. n <= Len(sig) - ((at + 1) + k)
    <3>1. at + (1 + k) + n <= Len(sig)
      BY <2>1, <2>2, <2>5, Zenon
    <3> QED BY <1>1, <2>3, <3>1
  <2>12. n = ValueOf(SubSeq(sig, (at + 1) + 1, (at + 1) + k))
    BY <2>1, <2>10, Zenon
  <2>13. at + 1 \in Nat
    OBVIOUS
  <2> HIDE DEF l, left
  <2>14. IF n <= Len(sig) - ((at + 1) + k) /\ n >= Half
         THEN l.len = n /\ l.at = (at + 1) + k ELSE l.len = -1
    BY <2>3, <2>6, <2>9, <2>12, <2>13, LongFormExact, SMTT(40)
  <2> QED BY <2>0, <2>11, <2>14, ZenonT(40) DEF l
<1> QED BY <1>2, <1>3

---------------------------------------------------------------------------
(* der_parse_integer accepts exactly the shortest integers.                *)

\* The parts of an encoding with o length octets.
TlvParts(sig, at, tag, c, o) ==
  /\ o \in Nat /\ o > 0 /\ Len(c) \in Nat
  /\ Tlv(tag, c) \in Strings /\ Len(Tlv(tag, c)) = 1 + o + Len(c)
  /\ HasAt(sig, at, Tlv(tag, c)) <=>
       /\ at < Len(sig) /\ At(sig, at) = tag
       /\ HasAt(sig, at + 1, LengthOctets(Len(c))) /\ HasAt(sig, at + 1 + o, c)

\* A tag, the length and the content.
LEMMA TlvIs ==
  ASSUME NEW tag \in 0 .. Full, NEW c \in Strings, Fits(Len(c), SizeT),
         NEW sig \in Strings, NEW at \in Nat, NEW o, o = Len(LengthOctets(Len(c)))
  PROVE  TlvParts(sig, at, tag, c, o)
<1>1. Len(c) \in Nat
  BY LenProperties DEF Strings
<1>2. PICK t : t = LengthOctets(Len(c))
  BY Zenon
<1>3. t \in Strings /\ Len(t) = o /\ o \in Nat /\ o > 0
  <2>1. t \in Strings /\ Len(t) \in Nat /\ Len(t) > 0
    BY <1>1, <1>2, OctetsString
  <2> QED BY <1>2, <2>1, Zenon
<1>4. PICK h : h = <<tag>> \o t
  BY Zenon
<1>5. /\ h \in Strings /\ Len(h) = 1 + o
      /\ HasAt(sig, at, h) <=> at < Len(sig) /\ At(sig, at) = tag /\ HasAt(sig, at + 1, t)
  <2>1. /\ h \in Strings /\ Len(h) = 1 + Len(t)
        /\ HasAt(sig, at, h) <=> at < Len(sig) /\ At(sig, at) = tag /\ HasAt(sig, at + 1, t)
    BY <1>3, <1>4, OctetsAt
  <2> QED BY <1>3, <2>1, Zenon
<1>6. /\ h \o c \in Strings /\ Len(h \o c) = (1 + o) + Len(c)
      /\ HasAt(sig, at, h \o c) <=> HasAt(sig, at, h) /\ HasAt(sig, at + (1 + o), c)
  <2>1. /\ h \o c \in Strings /\ Len(h \o c) = Len(h) + Len(c)
        /\ HasAt(sig, at, h \o c) <=> HasAt(sig, at, h) /\ HasAt(sig, at + Len(h), c)
    BY <1>5, HasBoth, ZenonT(40)
  <2> QED BY <1>5, <2>1, Zenon
<1>7. Tlv(tag, c) = h \o c
  BY <1>2, <1>4, Zenon DEF Tlv
<1>8. at + (1 + o) = at + 1 + o
  BY <1>3
<1> QED BY <1>1, <1>2, <1>3, <1>5, <1>6, <1>7, <1>8, Zenon DEF TlvParts

\* What the bytes at an offset are.
LEMMA BytesAt ==
  ASSUME NEW sig \in Strings, NEW at \in Nat, NEW c \in Strings, HasAt(sig, at, c)
  PROVE  \A k \in 1 .. Len(c) : At(sig, at + k - 1) = c[k] /\ c[k] \in 0 .. Full
<1>1. /\ Len(sig) \in Nat /\ Len(c) \in Nat /\ at + Len(c) <= Len(sig)
      /\ \A i \in 1 .. Len(c) : sig[at + i] = c[i]
  BY LenProperties, Zenon DEF Strings, HasAt
<1>2. \A k \in 1 .. Len(c) : c[k] \in 0 .. Full
  BY ElementOfSeq, ZenonT(40) DEF Strings
<1>3. ASSUME NEW k \in 1 .. Len(c) PROVE At(sig, at + k - 1) = c[k]
  <2>1. at + k - 1 < Len(sig) /\ (at + k - 1) + 1 = at + k
    BY <1>1
  <2> QED BY <1>1, <2>1, Zenon DEF At
<1> QED BY <1>2, <1>3

\* The padding test tells the shortest two's complement from the others.
LEMMA PaddedExact ==
  ASSUME NEW sig \in Strings, NEW at \in Nat, NEW c \in Strings, HasAt(sig, at, c), Len(c) > 0
  PROVE  Padded(sig, at, Len(c)).bad <=> ~IntegerContent(c)
<1> DEFINE len == Len(c)
           bad  == len > 1 /\ \/ At(sig, at) = 0 /\ At(sig, at + 1) < Half
                              \/ At(sig, at) = Full /\ At(sig, at + 1) >= Half
           seen == IF len > 1 /\ At(sig, at) \in {0, Full} THEN at + 1 ELSE at
<1>1. len \in Nat /\ c # <<>> /\ 1 \in 1 .. len /\ (len > 1 => 2 \in 1 .. len)
      /\ at + 1 - 1 = at /\ at + 2 - 1 = at + 1
  BY LenProperties, EmptySeq DEF Strings
<1>2. At(sig, at) = c[1] /\ (len > 1 => At(sig, at + 1) = c[2])
  <2>1. \A k \in 1 .. len : At(sig, at + k - 1) = c[k]
    BY BytesAt
  <2>2. At(sig, at + 1 - 1) = c[1] /\ (len > 1 => At(sig, at + 2 - 1) = c[2])
    BY <1>1, <2>1, Zenon
  <2> QED BY <1>1, <2>2, Zenon
<1>3. Padded(sig, at, len) = [bad |-> bad, seen |-> seen]
  BY Zenon DEF Padded
<1>4. bad <=> ~IntegerContent(c)
  BY <1>1, <1>2, Zenon DEF IntegerContent
<1> HIDE DEF bad, seen
<1>5. [bad |-> bad, seen |-> seen].bad = bad
  BY Zenon
<1> QED BY <1>3, <1>4, <1>5, Zenon

\* The leading zero of the shortest two's complement is the only one.
LEMMA OneZero ==
  ASSUME NEW sig \in Strings, NEW at \in Nat, NEW c \in Strings, HasAt(sig, at, c), Len(c) > 0,
         IntegerContent(c)
  PROVE  Max({n \in 0 .. Len(c) : \A i \in 1 .. n : At(sig, at + i - 1) = 0})
           = IF c[1] = 0 THEN 1 ELSE 0
<1> DEFINE runs  == {n \in 0 .. Len(c) : \A i \in 1 .. n : At(sig, at + i - 1) = 0}
           zeros == Max(runs)
<1>1. Len(c) \in Nat /\ 1 \in 1 .. Len(c) /\ (Len(c) > 1 => 2 \in 1 .. Len(c))
  BY LenProperties DEF Strings
<1>2. \A k \in 1 .. Len(c) : At(sig, at + k - 1) = c[k] /\ c[k] \in 0 .. Full
  BY BytesAt
<1>3. zeros \in runs /\ \A n \in runs : n <= zeros
  <2>1. 0 \in runs /\ runs \in SUBSET (0 .. Len(c))
    BY <1>1
  <2> HIDE DEF runs
  <2> QED BY <1>1, <2>1, MaxOf, SMTT(40)
<1>4. zeros \in 0 .. Len(c) /\ \A i \in 1 .. zeros : At(sig, at + i - 1) = 0
  BY <1>3
<1>5. ASSUME zeros >= 1 PROVE c[1] = 0
  <2>1. 1 \in 1 .. zeros
    <3> HIDE DEF zeros
    <3> QED BY <1>4, <1>5
  <2> HIDE DEF zeros
  <2> QED BY <1>1, <1>2, <1>4, <2>1, Zenon
<1>6. ASSUME zeros >= 2 PROVE FALSE
  <2> HIDE DEF zeros
  <2>1. 2 \in 1 .. zeros /\ zeros >= 1 /\ Len(c) > 1
    BY <1>1, <1>4, <1>6
  <2>2. c[2] = 0 /\ c[1] = 0
    BY <1>1, <1>2, <1>4, <1>5, <2>1, Zenon
  <2>3. ~(c[2] < Half)
    BY <2>1, <2>2, Zenon DEF IntegerContent
  <2> QED BY <2>2, <2>3, Sizes
<1>7. ASSUME c[1] = 0 PROVE 1 \in runs
  <2>1. ASSUME NEW i \in 1 .. 1 PROVE At(sig, at + i - 1) = 0
    <3>1. i = 1
      OBVIOUS
    <3>2. At(sig, at + i - 1) = c[i]
      BY <1>1, <1>2, <3>1, Zenon
    <3> QED BY <1>7, <3>1, <3>2, Zenon
  <2>2. 1 \in 0 .. Len(c)
    BY <1>1
  <2> QED BY <2>1, <2>2, Zenon
<1> HIDE DEF runs
<1>8. zeros \in Nat /\ (c[1] = 0 => 1 <= zeros)
  <2>1. c[1] = 0 => 1 <= zeros
    BY <1>3, <1>7, Zenon
  <2> HIDE DEF zeros
  <2> QED BY <1>1, <1>4, <2>1
<1>9. zeros = IF c[1] = 0 THEN 1 ELSE 0
  <2> HIDE DEF zeros
  <2> QED BY <1>5, <1>6, <1>8
<1> QED BY <1>9, Zenon DEF runs

\* der_parse_integer gives the scalar of the content.
LEMMA IntegerExact ==
  ASSUME NEW sig \in Strings, NEW at \in Nat, NEW c \in Strings, HasAt(sig, at, c), Len(c) > 0,
         IntegerContent(c)
  PROVE  LET m == IntegerAt(sig, at, Len(c))
         IN  m.ok /\ m.r = ScalarOf(c) /\ m.at = at + Len(c)
<1> DEFINE zeros == Max({n \in 0 .. Len(c) : \A i \in 1 .. n : At(sig, at + i - 1) = 0})
           digits == SubSeq(sig, at + zeros + 1, at + Len(c))
           copied == At(sig, at) < Half /\ Len(c) - zeros <= Bytes
           unsigned == IF c[1] = 0 THEN Tail(c) ELSE c
           value  == IF copied /\ ValueOf(digits) \in 0 .. GroupOrder - 1 THEN ValueOf(digits) ELSE 0
           seen   == IF copied THEN at + Len(c) - 1 ELSE at + zeros
<1>1. Len(c) \in Nat /\ 1 \in 1 .. Len(c) /\ c # <<>> /\ at + 1 - 1 = at /\ at + 1 \in Nat
  BY LenProperties, EmptySeq DEF Strings
<1>2. At(sig, at) = c[1]
  <2>1. At(sig, at + 1 - 1) = c[1]
    BY <1>1, BytesAt
  <2> QED BY <1>1, <2>1, Zenon
<1>3. zeros = IF c[1] = 0 THEN 1 ELSE 0
  BY OneZero
<1> HIDE DEF zeros
<1>4. unsigned \in Strings /\ Len(unsigned) = Len(c) - zeros /\ HasAt(sig, at + zeros, unsigned)
  <2>1. CASE c[1] = 0
    <3>1. PICK t : t = Tail(c)
      BY Zenon
    <3>2. t \in Strings /\ Len(t) = Len(c) - 1 /\ \A i \in 1 .. Len(t) : t[i] = c[i + 1]
      BY <1>1, <3>1, HeadTailProperties DEF Strings
    <3>3. at + Len(c) <= Len(sig) /\ \A i \in 1 .. Len(c) : sig[at + i] = c[i]
      BY Zenon DEF HasAt
    <3>4. (at + 1) + Len(t) <= Len(sig)
      BY <1>1, <3>2, <3>3
    <3>5. ASSUME NEW i \in 1 .. Len(t) PROVE sig[(at + 1) + i] = t[i]
      <4>1. i + 1 \in 1 .. Len(c) /\ at + (i + 1) = (at + 1) + i
        BY <1>1, <3>2
      <4>2. sig[at + (i + 1)] = c[i + 1]
        BY <3>3, <4>1, Zenon
      <4> QED BY <3>2, <4>1, <4>2, Zenon
    <3>6. HasAt(sig, at + 1, t)
      BY <3>4, <3>5, Zenon DEF HasAt
    <3> QED BY <1>3, <2>1, <3>1, <3>2, <3>6, ZenonT(40)
  <2>2. CASE c[1] # 0
    <3>1. at + 0 = at /\ Len(c) - 0 = Len(c)
      BY <1>1
    <3> QED BY <1>3, <2>2, <3>1, Zenon
  <2> QED BY <2>1, <2>2
<1>5. zeros \in Nat /\ zeros <= Len(c) /\ at + zeros \in Nat
  BY <1>1, <1>3
<1> HIDE DEF unsigned
<1>6. digits = unsigned
  <2>1. SubSeq(sig, (at + zeros) + 1, (at + zeros) + Len(unsigned)) = unsigned
    BY <1>4, <1>5, HasAtIs
  <2>2. (at + zeros) + Len(unsigned) = at + Len(c)
    BY <1>1, <1>4, <1>5, SMTT(40)
  <2> QED BY <2>1, <2>2, Zenon
<1>7. ValueOf(unsigned) \in Nat
  <2>1. Len(unsigned) \in Nat /\ Len(unsigned) <= Len(unsigned)
    BY <1>1, <1>4, <1>5
  <2> QED BY <1>4, <2>1, DigitsOnly
<1>8. PICK v : v = ValueOf(unsigned)
  BY Zenon
<1>9. v \in 0 .. GroupOrder - 1 <=> v < GroupOrder
  BY <1>7, <1>8, Sizes
<1>10. value = ScalarOf(c)
  <2>1. copied <=> c[1] < Half /\ Len(unsigned) <= Bytes
    BY <1>2, <1>4, Zenon
  <2>2. ScalarOf(c) = IF c[1] < Half /\ Len(unsigned) <= Bytes /\ v < GroupOrder THEN v ELSE 0
    BY <1>8, Zenon DEF ScalarOf, unsigned
  <2> HIDE DEF digits, copied
  <2>3. value = IF copied /\ v < GroupOrder THEN v ELSE 0
    BY <1>6, <1>8, <1>9, Zenon
  <2> HIDE DEF value
  <2> QED BY <2>1, <2>2, <2>3, Zenon
<1>11. IntegerAt(sig, at, Len(c)) = [ok |-> TRUE, at |-> at + Len(c), r |-> value, seen |-> seen]
  BY Zenon DEF IntegerAt, zeros
<1> HIDE DEF value, seen
<1>12. PICK m : m = IntegerAt(sig, at, Len(c))
  BY Zenon
<1>13. m.ok /\ m.r = value /\ m.at = at + Len(c)
  BY <1>11, <1>12
<1> QED BY <1>10, <1>12, <1>13, Zenon

\* Tags are bytes.
LEMMA Tags == SeqTag \in 0 .. Full /\ IntTag \in 0 .. Full
<1>1. {SeqTag, IntTag} \cup Noise \subseteq 0 .. Full
  BY DerAssumption, Zenon
<1> QED BY <1>1, Zenon

\* der_parse_integer gives the integer with the contents c, and the offset after it.
Gives(sig, at, c) ==
  LET m == der_parse_integer(sig, at)
  IN  m.ok /\ m.r = ScalarOf(c) /\ m.at = at + Len(Tlv(IntTag, c))

\* There is an integer with the contents c.
IntegerIn(sig, at, c) == IntegerContent(c) /\ HasAt(sig, at, Tlv(IntTag, c))

\* What follows the length decides.
LEMMA AfterLengthExact ==
  ASSUME NEW sig \in Strings, NEW at \in Nat, NEW l, NEW c \in Strings, Len(c) > 0,
         HasAt(sig, l.at, c), l.len = Len(c), l.at \in Nat
  PROVE  LET m == IntegerAfter(sig, at, l)
         IN  /\ m.ok <=> IntegerContent(c)
             /\ m.ok => m.r = ScalarOf(c) /\ m.at = l.at + Len(c)
<1> DEFINE seen  == Highest(at, l.seen)
           p     == Padded(sig, l.at, l.len)
           seen2 == Highest(seen, p.seen)
           n     == IntegerAt(sig, l.at, l.len)
           m     == IntegerAfter(sig, at, l)
<1>1. Len(c) \in Nat /\ l.at + Len(c) <= Len(sig) /\ Len(sig) \in Nat
  BY LenProperties, Zenon DEF Strings, HasAt
<1>2. ~(l.len <= 0 \/ l.at + l.len > Len(sig))
  BY <1>1
<1>3. p.bad <=> ~IntegerContent(c)
  <2>1. Padded(sig, l.at, Len(c)).bad <=> ~IntegerContent(c)
    BY PaddedExact
  <2> QED BY <2>1, Zenon
<1>4. CASE p.bad
  <2>1. m = NoInteger(seen2)
    BY <1>2, <1>4, Zenon DEF IntegerAfter
  <2>2. NoInteger(seen2).ok = FALSE
    <3> HIDE DEF seen2
    <3> QED BY DEF NoInteger
  <2> QED BY <1>3, <1>4, <2>1, <2>2, Zenon
<1>5. CASE ~p.bad
  <2>1. IntegerContent(c)
    BY <1>3, <1>5
  <2>2. m = [n EXCEPT !.seen = Highest(seen2, @)]
    BY <1>2, <1>5, Zenon DEF IntegerAfter
  <2>3. n.ok /\ n.r = ScalarOf(c) /\ n.at = l.at + Len(c)
    <3>1. LET i == IntegerAt(sig, l.at, Len(c))
          IN  i.ok /\ i.r = ScalarOf(c) /\ i.at = l.at + Len(c)
      BY <2>1, IntegerExact
    <3> QED BY <3>1, Zenon
  <2> HIDE DEF n, seen2, m
  <2>4. m.ok = n.ok /\ m.r = n.r /\ m.at = n.at
    BY <2>2
  <2> QED BY <2>1, <2>3, <2>4, Zenon DEF m
<1> QED BY <1>4, <1>5

\* Whatever der_parse_integer accepts is the encoding of an integer.
LEMMA ParseIntegerSound ==
  ASSUME NEW sig \in Strings, NEW at \in Nat, at <= Len(sig), Fits(Len(sig), SizeT), Len(sig) <= IntMax,
         der_parse_integer(sig, at).ok
  PROVE  \E c \in Strings : IntegerIn(sig, at, c) /\ Gives(sig, at, c) /\ Fits(Len(c), SizeT)
<1> DEFINE m == der_parse_integer(sig, at)
           l == der_read_len(sig, at + 1)
<1>1. Len(sig) \in Nat /\ at + 1 \in Nat
  BY LenProperties DEF Strings
<1>2. at # Len(sig) /\ At(sig, at) = IntTag /\ m = IntegerAfter(sig, at, l)
  <2>1. ASSUME NEW v, m = NoInteger(v) PROVE FALSE
    <3> HIDE DEF m
    <3>1. ~m.ok
      BY <2>1 DEF NoInteger
    <3> QED BY <3>1 DEF m
  <2> QED BY <2>1, Zenon DEF der_parse_integer
<1>3. ~(l.len <= 0 \/ l.at + l.len > Len(sig))
  <2>1. ASSUME NEW v, m = NoInteger(v) PROVE FALSE
    <3> HIDE DEF m
    <3>1. ~m.ok
      BY <2>1 DEF NoInteger
    <3> QED BY <3>1 DEF m
  <2> HIDE DEF m
  <2> QED BY <1>2, <2>1, ZenonT(40) DEF IntegerAfter
<1>4. l.len \in Int /\ l.at \in Nat
  <2>1. LengthRead(sig, at + 1, l)
    BY <1>1, ReadLenReads
  <2> HIDE DEF l
  <2> QED BY <1>3, <2>1 DEF LengthRead
<1> HIDE DEF m, l
<1>5. l.len >= 0 /\ l.len > 0 /\ l.len \in Nat /\ l.at + l.len <= Len(sig)
  BY <1>1, <1>3, <1>4
<1>6. /\ Fits(l.len, SizeT) /\ HasAt(sig, at + 1, LengthOctets(l.len))
      /\ l.at = (at + 1) + Len(LengthOctets(l.len))
  <2>1. LET k == der_read_len(sig, at + 1)
        IN  /\ k.len \in Nat /\ Fits(k.len, SizeT)
            /\ HasAt(sig, at + 1, LengthOctets(k.len)) /\ k.at = (at + 1) + Len(LengthOctets(k.len))
    BY <1>1, <1>5, ReadLenSound DEF l
  <2> QED BY <2>1, Zenon DEF l
<1>7. PICK c : c = SubSeq(sig, l.at + 1, l.at + l.len)
  BY Zenon
<1>8. c \in Strings /\ Len(c) = l.len /\ HasAt(sig, l.at, c)
  BY <1>4, <1>5, <1>7, PartOf, ZenonT(40)
<1>9. Len(c) > 0 /\ Fits(Len(c), SizeT)
  BY <1>5, <1>6, <1>8, Zenon
<1>10. /\ m.ok <=> IntegerContent(c)
       /\ m.ok => m.r = ScalarOf(c) /\ m.at = l.at + Len(c)
  <2>1. LET i == IntegerAfter(sig, at, l)
        IN  /\ i.ok <=> IntegerContent(c)
            /\ i.ok => i.r = ScalarOf(c) /\ i.at = l.at + Len(c)
    BY <1>4, <1>8, <1>9, AfterLengthExact
  <2> QED BY <1>2, <2>1, Zenon
<1>11. m.ok
  BY DEF m
<1>12. PICK o : o = Len(LengthOctets(Len(c)))
  BY Zenon
<1>13. IntTag \in 0 .. Full
  BY Tags
<1>14. /\ o \in Nat /\ Len(c) \in Nat /\ Len(Tlv(IntTag, c)) = 1 + o + Len(c)
       /\ HasAt(sig, at, Tlv(IntTag, c)) <=>
            /\ at < Len(sig) /\ At(sig, at) = IntTag
            /\ HasAt(sig, at + 1, LengthOctets(Len(c))) /\ HasAt(sig, at + 1 + o, c)
  <2>1. TlvParts(sig, at, IntTag, c, o)
    BY <1>8, <1>9, <1>12, <1>13, TlvIs
  <2> QED BY <2>1, Zenon DEF TlvParts
<1>15. at < Len(sig) /\ l.at = at + 1 + o
  <2>1. at < Len(sig)
    BY <1>1, <1>2
  <2> QED BY <1>6, <1>8, <1>12, <2>1, ZenonT(40)
<1>16. HasAt(sig, at, Tlv(IntTag, c))
  BY <1>2, <1>6, <1>8, <1>14, <1>15, ZenonT(40)
<1>17. l.at + Len(c) = at + Len(Tlv(IntTag, c))
  BY <1>14, <1>15
<1>18. IntegerIn(sig, at, c) /\ Gives(sig, at, c)
  BY <1>10, <1>11, <1>16, <1>17, Zenon DEF IntegerIn, Gives, m
<1> QED BY <1>8, <1>9, <1>18, Zenon

\* der_parse_integer accepts every encoding of an integer.
LEMMA ParseIntegerComplete ==
  ASSUME NEW sig \in Strings, NEW at \in Nat, Fits(Len(sig), SizeT), Len(sig) <= IntMax, NEW c \in Strings,
         Fits(Len(c), SizeT), IntegerIn(sig, at, c)
  PROVE  Gives(sig, at, c)
<1> DEFINE m == der_parse_integer(sig, at)
           l == der_read_len(sig, at + 1)
<1>1. Len(sig) \in Nat /\ at + 1 \in Nat
  BY LenProperties DEF Strings
<1>2. PICK o : o = Len(LengthOctets(Len(c)))
  BY Zenon
<1>3. IntTag \in 0 .. Full
  BY Tags
<1>4. /\ o \in Nat /\ Len(c) \in Nat /\ Len(Tlv(IntTag, c)) = 1 + o + Len(c)
      /\ HasAt(sig, at, Tlv(IntTag, c)) <=>
           /\ at < Len(sig) /\ At(sig, at) = IntTag
           /\ HasAt(sig, at + 1, LengthOctets(Len(c))) /\ HasAt(sig, at + 1 + o, c)
  <2>1. TlvParts(sig, at, IntTag, c, o)
    BY <1>2, <1>3, TlvIs
  <2> QED BY <2>1, Zenon DEF TlvParts
<1>5. /\ at < Len(sig) /\ At(sig, at) = IntTag
      /\ HasAt(sig, at + 1, LengthOctets(Len(c))) /\ HasAt(sig, at + 1 + o, c)
  BY <1>4, Zenon DEF IntegerIn
<1>6. Len(c) > 0
  <2>1. c # <<>>
    BY Zenon DEF IntegerIn, IntegerContent
  <2> QED BY <1>4, <2>1, EmptySeq DEF Strings
<1>7. (at + 1) + o + Len(c) <= Len(sig) /\ Len(c) <= Len(sig)
  <2>1. (at + 1 + o) + Len(c) <= Len(sig)
    BY <1>5, Zenon DEF HasAt
  <2> QED BY <1>1, <1>4, <2>1
<1>8. l.len = Len(c)
  <2>1. (at + 1) + Len(LengthOctets(Len(c))) + Len(c) <= Len(sig)
    BY <1>2, <1>7, ZenonT(40)
  <2>2. der_read_len(sig, at + 1).len = Len(c)
    BY <1>1, <1>4, <1>5, <1>7, <2>1, ReadLenComplete, SMTT(40)
  <2> QED BY <2>2, Zenon
<1>9. l.at = at + 1 + o
  <2>1. l.len >= 0
    BY <1>4, <1>8
  <2>2. LET k == der_read_len(sig, at + 1)
        IN  k.at = (at + 1) + Len(LengthOctets(k.len))
    BY <1>1, <2>1, ReadLenSound
  <2> QED BY <1>2, <1>8, <2>2, ZenonT(40)
<1> HIDE DEF m, l
<1>10. l.at \in Nat /\ HasAt(sig, l.at, c)
  <2>1. at + 1 + o \in Nat
    BY <1>4
  <2> QED BY <1>5, <1>9, <2>1, Zenon
<1>11. m = IntegerAfter(sig, at, l)
  <2>1. at # Len(sig)
    BY <1>1, <1>5
  <2> QED BY <1>5, <2>1, Zenon DEF der_parse_integer, m, l
<1>12. m.ok /\ m.r = ScalarOf(c) /\ m.at = l.at + Len(c)
  <2>1. LET i == IntegerAfter(sig, at, l)
        IN  /\ i.ok <=> IntegerContent(c)
            /\ i.ok => i.r = ScalarOf(c) /\ i.at = l.at + Len(c)
    BY <1>6, <1>8, <1>10, AfterLengthExact, SMTT(40)
  <2> QED BY <1>11, <2>1, ZenonT(40) DEF IntegerIn
<1>13. l.at + Len(c) = at + Len(Tlv(IntTag, c))
  BY <1>4, <1>9
<1> QED BY <1>12, <1>13, Zenon DEF Gives, m

---------------------------------------------------------------------------
(* ecdsa_sig_parse accepts exactly two integers in a sequence.             *)

\* sig is the encoding of the integers with the contents x and y.
Encodes(sig, x, y) ==
  /\ x \in Strings /\ y \in Strings /\ IntegerContent(x) /\ IntegerContent(y)
  /\ Len(x) <= Len(sig) /\ Len(y) <= Len(sig)
  /\ Len(Tlv(IntTag, x)) + Len(Tlv(IntTag, y)) <= Len(sig)
  /\ sig = Tlv(SeqTag, Tlv(IntTag, x) \o Tlv(IntTag, y))

\* Every test of ecdsa_sig_parse has passed for the length l and the integers r and s.
Passes(sig, l, r, s) ==
  /\ sig # <<>> /\ At(sig, 0) = SeqTag /\ l = der_read_len(sig, 1)
  /\ ~(l.len < 0) /\ l.at + l.len = Len(sig)
  /\ r = der_parse_integer(sig, l.at) /\ r.ok
  /\ s = der_parse_integer(sig, r.at) /\ s.ok /\ s.at = Len(sig)

\* What ecdsa_sig_parse gives when a test fails, and when none does.
LEMMA ParseCases ==
  ASSUME NEW sig
  PROVE  LET p == ecdsa_sig_parse(sig)
         IN  \/ ~p.ok /\ p.ok = FALSE /\ p.r = 0 /\ p.s = 0
             \/ \E l, r, s : Passes(sig, l, r, s) /\ p.ok = TRUE /\ p.r = r.r /\ p.s = s.r
<1> DEFINE p == ecdsa_sig_parse(sig)
<1>1. ASSUME NEW v, p = NoSignature(v) PROVE p.ok = FALSE /\ p.r = 0 /\ p.s = 0
  <2> HIDE DEF p
  <2> QED BY <1>1 DEF NoSignature
<1>2. PICK l : l = der_read_len(sig, 1)
  BY Zenon
<1>3. PICK r : r = der_parse_integer(sig, l.at)
  BY Zenon
<1>4. PICK s : s = der_parse_integer(sig, r.at)
  BY Zenon
<1>5. CASE sig = <<>> \/ At(sig, 0) # SeqTag
  <2>1. p = NoSignature(-1) \/ p = NoSignature(0)
    BY <1>5, Zenon DEF ecdsa_sig_parse
  <2> QED BY <1>1, <2>1, Zenon
<1>6. CASE ~(sig = <<>> \/ At(sig, 0) # SeqTag)
  <2>1. p = AfterLength(sig, l)
    BY <1>2, <1>6, Zenon DEF ecdsa_sig_parse
  <2>2. CASE l.len < 0 \/ l.at + l.len # Len(sig)
    <3>1. p = NoSignature(Highest(0, l.seen))
      BY <2>1, <2>2, Zenon DEF AfterLength
    <3> QED BY <1>1, <3>1, Zenon
  <2>3. CASE ~(l.len < 0 \/ l.at + l.len # Len(sig))
    <3>1. PICK v : v = Highest(0, l.seen)
      BY Zenon
    <3>2. p = AfterR(sig, r, v)
      BY <1>3, <2>1, <2>3, <3>1, Zenon DEF AfterLength
    <3>3. CASE ~r.ok
      <4>1. p = NoSignature(Highest(v, r.seen))
        BY <3>2, <3>3, Zenon DEF AfterR
      <4> QED BY <1>1, <4>1, Zenon
    <3>4. CASE r.ok
      <4>1. PICK w : w = Highest(v, r.seen)
        BY Zenon
      <4>2. p = AfterS(sig, r, s, w)
        BY <1>4, <3>2, <3>4, <4>1, ZenonT(40) DEF AfterR
      <4>3. CASE ~s.ok \/ s.at # Len(sig)
        <5>1. p = NoSignature(Highest(w, s.seen))
          BY <4>2, <4>3, Zenon DEF AfterS
        <5> QED BY <1>1, <5>1, Zenon
      <4>4. CASE ~(~s.ok \/ s.at # Len(sig))
        <5>1. p = [ok |-> TRUE, r |-> r.r, s |-> s.r, seen |-> Highest(w, s.seen)]
          BY <4>2, <4>4, ZenonT(40) DEF AfterS
        <5>2. p.ok = TRUE /\ p.r = r.r /\ p.s = s.r
          <6> HIDE DEF p
          <6> QED BY <5>1
        <5>3. Passes(sig, l, r, s)
          BY <1>2, <1>3, <1>4, <1>6, <2>3, <3>4, <4>4, ZenonT(40) DEF Passes
        <5> QED BY <5>2, <5>3, Zenon
      <4> QED BY <4>3, <4>4, Zenon
    <3> QED BY <3>3, <3>4, Zenon
  <2> QED BY <2>2, <2>3, Zenon
<1> QED BY <1>5, <1>6, Zenon

\* There is one way to pass.
LEMMA PassesOnce ==
  ASSUME NEW sig, NEW l, NEW r, NEW s, Passes(sig, l, r, s)
  PROVE  LET p == ecdsa_sig_parse(sig)
         IN  p.ok = TRUE /\ p.r = r.r /\ p.s = s.r
<1>1. PICK w : w = Highest(Highest(0, l.seen), r.seen)
  BY Zenon
<1>2. ecdsa_sig_parse(sig) = AfterS(sig, r, s, w)
  BY <1>1, Zenon DEF Passes, ecdsa_sig_parse, AfterLength, AfterR
<1>3. ecdsa_sig_parse(sig) = [ok |-> TRUE, r |-> r.r, s |-> s.r, seen |-> Highest(w, s.seen)]
  BY <1>2, Zenon DEF Passes, AfterS
<1> QED BY <1>3

\* The parts of an encoding.
Parts(sig, x, y, o) ==
  /\ {o, Len(x), Len(y), Len(Tlv(IntTag, x)), Len(Tlv(IntTag, y)), Len(sig)} \subseteq Nat
  /\ Fits(Len(x), SizeT) /\ Fits(Len(y), SizeT)
  /\ Len(sig) = 1 + o + (Len(Tlv(IntTag, x)) + Len(Tlv(IntTag, y)))
  /\ o = Len(LengthOctets(Len(Tlv(IntTag, x)) + Len(Tlv(IntTag, y))))
  /\ sig # <<>> /\ At(sig, 0) = SeqTag
  /\ HasAt(sig, 1, LengthOctets(Len(Tlv(IntTag, x)) + Len(Tlv(IntTag, y))))
  /\ HasAt(sig, 1 + o, Tlv(IntTag, x))
  /\ HasAt(sig, 1 + o + Len(Tlv(IntTag, x)), Tlv(IntTag, y))

\* An encoding has these parts.
LEMMA EncodesParts ==
  ASSUME NEW sig \in Strings, Fits(Len(sig), SizeT), NEW x, NEW y, Encodes(sig, x, y)
  PROVE  \E o : Parts(sig, x, y, o)
<1>1. PICK tx, ty, n : tx = Tlv(IntTag, x) /\ ty = Tlv(IntTag, y) /\ n = Len(tx) + Len(ty)
  BY Zenon
<1>2. /\ x \in Strings /\ y \in Strings /\ Len(x) <= Len(sig) /\ Len(y) <= Len(sig)
      /\ n <= Len(sig) /\ sig = Tlv(SeqTag, tx \o ty)
  BY <1>1, Zenon DEF Encodes
<1>3. Len(x) \in Nat /\ Len(y) \in Nat /\ Len(sig) \in Nat /\ SizeT \in Nat /\ 0 \in Nat
  BY <1>2, LenProperties, SizeTIs DEF Strings
<1>4. Fits(Len(x), SizeT) /\ Fits(Len(y), SizeT)
  BY <1>2, <1>3, FitsBelow
<1>5. tx \in Strings /\ ty \in Strings /\ Len(tx) \in Nat /\ Len(ty) \in Nat
  <2>1. PICK ox, oy : ox = Len(LengthOctets(Len(x))) /\ oy = Len(LengthOctets(Len(y)))
    BY Zenon
  <2>2. TlvParts(sig, 0, IntTag, x, ox) /\ TlvParts(sig, 0, IntTag, y, oy)
    BY <1>2, <1>3, <1>4, <2>1, Tags, TlvIs, SMTT(40)
  <2>3. tx \in Strings /\ ty \in Strings
    BY <1>1, <2>2, Zenon DEF TlvParts
  <2> QED BY <2>3, LenProperties DEF Strings
<1>6. tx \o ty \in Strings /\ Len(tx \o ty) = n
  <2>1. tx \o ty \in Strings /\ Len(tx \o ty) = Len(tx) + Len(ty)
    BY <1>3, <1>5, HasBoth
  <2> QED BY <1>1, <2>1, Zenon
<1>7. n \in Nat /\ Fits(n, SizeT)
  <2>1. n \in Nat
    BY <1>1, <1>5
  <2> QED BY <1>2, <1>3, <2>1, FitsBelow, SMTT(40)
<1>8. PICK c : c = tx \o ty
  BY Zenon
<1>9. PICK o : o = Len(LengthOctets(n))
  BY Zenon
<1>10. TlvParts(sig, 0, SeqTag, c, o)
  <2>1. c \in Strings /\ Fits(Len(c), SizeT) /\ o = Len(LengthOctets(Len(c)))
    BY <1>6, <1>7, <1>8, <1>9, ZenonT(40)
  <2> QED BY <1>3, <2>1, Tags, TlvIs
<1>11. HasAt(sig, 0, sig)
  BY <1>3 DEF HasAt
<1>12. /\ o \in Nat /\ Len(sig) = 1 + o + n /\ 0 < Len(sig) /\ At(sig, 0) = SeqTag
       /\ HasAt(sig, 0 + 1, LengthOctets(n)) /\ HasAt(sig, 0 + 1 + o, c)
  BY <1>2, <1>6, <1>8, <1>10, <1>11, ZenonT(40) DEF TlvParts
<1>13. 0 + 1 = 1 /\ 0 + 1 + o = 1 + o /\ 1 + o \in Nat /\ sig # <<>>
  BY <1>12, EmptySeq
<1>14. HasAt(sig, 1 + o, c) /\ HasAt(sig, 1, LengthOctets(n))
  BY <1>12, <1>13, Zenon
<1>15. HasAt(sig, 1 + o, tx) /\ HasAt(sig, 1 + o + Len(tx), ty)
  <2>1. HasAt(sig, 1 + o, tx \o ty) <=> HasAt(sig, 1 + o, tx) /\ HasAt(sig, (1 + o) + Len(tx), ty)
    BY <1>5, <1>13, HasBoth, SMTT(40)
  <2> QED BY <1>8, <1>14, <2>1, ZenonT(40)
<1>16. {o, Len(x), Len(y), Len(tx), Len(ty), Len(sig)} \subseteq Nat
  BY <1>3, <1>5, <1>12
<1>17. Parts(sig, x, y, o)
  BY <1>1, <1>4, <1>9, <1>12, <1>13, <1>14, <1>15, <1>16, ZenonT(40) DEF Parts
<1> QED BY <1>17, Zenon

\* ecdsa_sig_parse accepts every encoding of two integers.
LEMMA SigParseComplete ==
  ASSUME NEW sig \in Strings, Fits(Len(sig), SizeT), Len(sig) <= IntMax,
         NEW x, NEW y, Encodes(sig, x, y)
  PROVE  LET p == ecdsa_sig_parse(sig)
         IN  p.ok = TRUE /\ p.r = ScalarOf(x) /\ p.s = ScalarOf(y)
<1>1. PICK o : Parts(sig, x, y, o)
  BY EncodesParts
<1>2. PICK tx, ty, n : tx = Len(Tlv(IntTag, x)) /\ ty = Len(Tlv(IntTag, y)) /\ n = tx + ty
  BY Zenon
<1>3. /\ {o, Len(x), Len(y), tx, ty, Len(sig)} \subseteq Nat
      /\ Fits(Len(x), SizeT) /\ Fits(Len(y), SizeT)
      /\ Len(sig) = 1 + o + n /\ o = Len(LengthOctets(n))
      /\ sig # <<>> /\ At(sig, 0) = SeqTag /\ HasAt(sig, 1, LengthOctets(n))
      /\ HasAt(sig, 1 + o, Tlv(IntTag, x)) /\ HasAt(sig, 1 + o + tx, Tlv(IntTag, y))
  BY <1>1, <1>2, ZenonT(40) DEF Parts
<1>4. /\ n \in Nat /\ 1 \in Nat /\ 1 + o \in Nat /\ 1 + o + tx \in Nat /\ n <= Len(sig)
      /\ 1 + o + n <= Len(sig) /\ 1 + o + tx + ty = Len(sig)
  BY <1>2, <1>3, SMTT(40)
<1>5. PICK l : l = der_read_len(sig, 1)
  BY Zenon
<1>6. l.len = n
  <2>1. 1 + Len(LengthOctets(n)) + n <= Len(sig)
    BY <1>3, <1>4, Zenon
  <2> QED BY <1>3, <1>4, <1>5, <2>1, ReadLenComplete, SMTT(40)
<1>7. l.at = 1 + o
  <2>1. l.len >= 0
    BY <1>4, <1>6, SMTT(40)
  <2>2. LET k == der_read_len(sig, 1)
        IN  k.at = 1 + Len(LengthOctets(k.len))
    BY <1>4, <1>5, <2>1, ReadLenSound
  <2> QED BY <1>3, <1>5, <1>6, <2>2, ZenonT(40)
<1>8. x \in Strings /\ y \in Strings /\ IntegerIn(sig, 1 + o, x) /\ IntegerIn(sig, 1 + o + tx, y)
  BY <1>3, Zenon DEF Encodes, IntegerIn
<1>9. PICK r : r = der_parse_integer(sig, l.at)
  BY Zenon
<1>10. r.ok /\ r.r = ScalarOf(x) /\ r.at = 1 + o + tx
  <2>1. Gives(sig, 1 + o, x)
    BY <1>3, <1>4, <1>8, ParseIntegerComplete, SMTT(40)
  <2> QED BY <1>2, <1>7, <1>9, <2>1, ZenonT(40) DEF Gives
<1>11. PICK s : s = der_parse_integer(sig, r.at)
  BY Zenon
<1>12. s.ok /\ s.r = ScalarOf(y) /\ s.at = Len(sig)
  <2>1. Gives(sig, 1 + o + tx, y)
    BY <1>3, <1>4, <1>8, ParseIntegerComplete, SMTT(40)
  <2>2. s.ok /\ s.r = ScalarOf(y) /\ s.at = 1 + o + tx + ty
    BY <1>2, <1>10, <1>11, <2>1, Zenon DEF Gives
  <2> QED BY <1>4, <2>2, ZenonT(40)
<1>13. ~(l.len < 0) /\ l.at + l.len = Len(sig)
  BY <1>3, <1>4, <1>6, <1>7, SMTT(40)
<1>14. Passes(sig, l, r, s)
  BY <1>3, <1>5, <1>9, <1>10, <1>11, <1>12, <1>13, ZenonT(40) DEF Passes
<1>15. LET p == ecdsa_sig_parse(sig) IN p.ok = TRUE /\ p.r = r.r /\ p.s = s.r
  BY <1>14, PassesOnce, ZenonT(40)
<1> QED BY <1>10, <1>12, <1>15, ZenonT(40)

\* A string that is at the start and as long is the whole.
LEMMA WholeIs ==
  ASSUME NEW sig \in Strings, NEW t \in Strings, HasAt(sig, 0, t), Len(t) = Len(sig)
  PROVE  sig = t
<1>1. Len(t) \in Nat
  BY LenProperties DEF Strings
<1>2. \A i \in 1 .. Len(t) : sig[0 + i] = t[i]
  BY Zenon DEF HasAt
<1>3. ASSUME NEW i \in 1 .. Len(sig) PROVE sig[i] = t[i]
  <2>1. 0 + i = i /\ i \in 1 .. Len(t)
    BY <1>1
  <2> QED BY <1>2, <2>1, Zenon
<1> QED BY <1>3, SeqEqual DEF Strings

\* Whatever ecdsa_sig_parse accepts is the encoding of two integers, whose scalars it gives.
LEMMA SigParseSound ==
  ASSUME NEW sig \in Strings, Fits(Len(sig), SizeT), Len(sig) <= IntMax, ecdsa_sig_parse(sig).ok
  PROVE  \E x, y : Encodes(sig, x, y)
<1>1. PICK l, r, s : Passes(sig, l, r, s)
  BY ParseCases, Zenon
<1>2. /\ sig # <<>> /\ At(sig, 0) = SeqTag /\ l = der_read_len(sig, 1)
      /\ ~(l.len < 0) /\ l.at + l.len = Len(sig)
      /\ r = der_parse_integer(sig, l.at) /\ r.ok
      /\ s = der_parse_integer(sig, r.at) /\ s.ok /\ s.at = Len(sig)
  BY <1>1, Zenon DEF Passes
<1>3. Len(sig) \in Nat /\ 0 < Len(sig) /\ 0 \in Nat /\ 1 \in Nat
  BY <1>2, LenProperties, EmptySeq DEF Strings
<1>4. l.len \in Int
  <2>1. LengthRead(sig, 1, l)
    BY <1>2, <1>3, ReadLenReads, SMTT(40)
  <2> QED BY <2>1, Zenon DEF LengthRead
<1>5. l.len >= 0
  BY <1>2, <1>4
<1>6. PICK n, o : n = l.len /\ o = Len(LengthOctets(n))
  BY Zenon
<1>7. n \in Nat /\ Fits(n, SizeT) /\ HasAt(sig, 1, LengthOctets(n)) /\ l.at = 1 + o
  <2>1. LET k == der_read_len(sig, 1)
        IN  /\ k.len \in Nat /\ Fits(k.len, SizeT)
            /\ HasAt(sig, 1, LengthOctets(k.len)) /\ k.at = 1 + Len(LengthOctets(k.len))
    BY <1>2, <1>3, <1>5, ReadLenSound, SMTT(40)
  <2> QED BY <1>2, <1>6, <2>1, ZenonT(40)
<1>8. o \in Nat
  BY <1>6, <1>7, OctetsString
<1>9. PICK a : a = 1 + o
  BY ZenonT(40)
<1>10. a \in Nat /\ a <= Len(sig) /\ l.at = a /\ a + n = Len(sig)
  BY <1>2, <1>3, <1>6, <1>7, <1>8, <1>9, SMTT(40)
<1>11. PICK x \in Strings : IntegerIn(sig, a, x) /\ Gives(sig, a, x) /\ Fits(Len(x), SizeT)
  <2>1. der_parse_integer(sig, a).ok
    BY <1>2, <1>10, Zenon
  <2> QED BY <1>10, <2>1, ParseIntegerSound
<1>12. PICK tx, ox : tx = Tlv(IntTag, x) /\ ox = Len(LengthOctets(Len(x)))
  BY Zenon
<1>13. /\ tx \in Strings /\ Len(tx) = 1 + ox + Len(x) /\ ox \in Nat /\ Len(x) \in Nat
       /\ HasAt(sig, a, tx) /\ IntegerContent(x)
  <2>1. TlvParts(sig, a, IntTag, x, ox)
    BY <1>10, <1>11, <1>12, Tags, TlvIs, SMTT(40)
  <2> QED BY <1>11, <1>12, <2>1, ZenonT(40) DEF TlvParts, IntegerIn
<1>14. PICK b : b = a + Len(tx)
  BY Zenon
<1>15. b \in Nat /\ b <= Len(sig) /\ r.at = b /\ Len(tx) \in Nat
  <2>1. r.at = b
    BY <1>2, <1>10, <1>11, <1>12, <1>14, ZenonT(40) DEF Gives
  <2>2. b <= Len(sig)
    BY <1>13, <1>14, ZenonT(40) DEF HasAt
  <2> QED BY <1>10, <1>13, <1>14, <2>1, <2>2, SMTT(40)
<1>16. PICK y \in Strings : IntegerIn(sig, b, y) /\ Gives(sig, b, y) /\ Fits(Len(y), SizeT)
  <2>1. der_parse_integer(sig, b).ok
    BY <1>2, <1>15, Zenon
  <2> QED BY <1>15, <2>1, ParseIntegerSound
<1>17. PICK ty, oy : ty = Tlv(IntTag, y) /\ oy = Len(LengthOctets(Len(y)))
  BY Zenon
<1>18. /\ ty \in Strings /\ Len(ty) = 1 + oy + Len(y) /\ oy \in Nat /\ Len(y) \in Nat
       /\ HasAt(sig, b, ty) /\ IntegerContent(y)
  <2>1. TlvParts(sig, b, IntTag, y, oy)
    BY <1>15, <1>16, <1>17, Tags, TlvIs, SMTT(40)
  <2> QED BY <1>16, <1>17, <2>1, ZenonT(40) DEF TlvParts, IntegerIn
<1>19. b + Len(ty) = Len(sig)
  BY <1>2, <1>15, <1>16, <1>17, ZenonT(40) DEF Gives
<1>20. /\ n = Len(tx) + Len(ty) /\ Len(x) <= Len(sig) /\ Len(y) <= Len(sig)
       /\ Len(tx) + Len(ty) <= Len(sig)
  BY <1>3, <1>7, <1>10, <1>13, <1>14, <1>18, <1>19, SMTT(40)
<1>21. PICK c : c = tx \o ty
  BY Zenon
<1>22. c \in Strings /\ Len(c) = n /\ HasAt(sig, a, c)
  <2>1. a \in Nat /\ tx \in Strings /\ ty \in Strings /\ HasAt(sig, a, tx) /\ HasAt(sig, a + Len(tx), ty)
    BY <1>10, <1>13, <1>14, <1>18, ZenonT(40)
  <2>2. tx \o ty \in Strings /\ Len(tx \o ty) = Len(tx) + Len(ty)
    BY <2>1, HasBoth
  <2>3. HasAt(sig, a, tx \o ty)
    BY <2>1, HasBoth
  <2> QED BY <1>20, <1>21, <2>2, <2>3, Zenon
<1>23. TlvParts(sig, 0, SeqTag, c, o)
  <2>1. Fits(Len(c), SizeT) /\ o = Len(LengthOctets(Len(c)))
    BY <1>6, <1>7, <1>22, ZenonT(40)
  <2> QED BY <1>3, <1>22, <2>1, Tags, TlvIs, SMTT(40)
<1>24. 0 + 1 = 1 /\ 0 + 1 + o = a /\ 1 + o + n = Len(sig)
  BY <1>8, <1>9, <1>10
<1>25. PICK w : w = Tlv(SeqTag, c)
  BY Zenon
<1>26. w \in Strings /\ Len(w) = Len(sig) /\ HasAt(sig, 0, w)
  BY <1>2, <1>3, <1>7, <1>22, <1>23, <1>24, <1>25, ZenonT(40) DEF TlvParts
<1>27. sig = w
  BY <1>26, WholeIs
<1>28. Encodes(sig, x, y)
  BY <1>12, <1>13, <1>17, <1>18, <1>20, <1>21, <1>25, <1>27, ZenonT(40) DEF Encodes
<1> QED BY <1>28, Zenon

---------------------------------------------------------------------------
(* The encodings are what Readings gives.                                  *)

\* The contents at the end of a string are some of its bytes.
LEMMA LastContentsAre ==
  ASSUME NEW sig \in Strings, Fits(Len(sig), SizeT), NEW c \in LastContents(sig)
  PROVE  /\ c \in Strings /\ IntegerContent(c) /\ Len(c) <= Len(sig)
         /\ Len(Tlv(IntTag, c)) \in Nat /\ Len(Tlv(IntTag, c)) <= Len(sig)
<1>1. /\ c \in {SubSeq(sig, i, Len(sig)) : i \in 1 .. Len(sig)}
      /\ IntegerContent(c) /\ EndsWith(sig, Tlv(IntTag, c))
  BY Zenon DEF LastContents
<1>2. PICK i \in 1 .. Len(sig) : c = SubSeq(sig, i, Len(sig))
  BY <1>1, Zenon
<1>3. Len(sig) \in Nat /\ SizeT \in Nat
  BY LenProperties, SizeTIs DEF Strings
<1>4. PICK a, n : a = i - 1 /\ n = Len(sig) - (i - 1)
  BY Zenon
<1>5. a \in Nat /\ n \in Nat /\ a + n <= Len(sig) /\ a + 1 = i /\ a + n = Len(sig) /\ n <= Len(sig)
  BY <1>2, <1>3, <1>4
<1>6. c \in Strings /\ Len(c) = n
  <2>1. SubSeq(sig, a + 1, a + n) \in Strings /\ Len(SubSeq(sig, a + 1, a + n)) = n
    BY <1>5, PartOf, ZenonT(40)
  <2> QED BY <1>2, <1>5, <2>1, ZenonT(40)
<1>7. Fits(n, SizeT)
  BY <1>3, <1>5, FitsBelow
<1>8. PICK o : o = Len(LengthOctets(Len(c)))
  BY Zenon
<1>9. TlvParts(sig, 0, IntTag, c, o)
  <2>1. Fits(Len(c), SizeT) /\ 0 \in Nat
    BY <1>6, <1>7
  <2> QED BY <1>6, <1>8, <2>1, Tags, TlvIs
<1>10. Tlv(IntTag, c) \in Strings
  BY <1>9, Zenon DEF TlvParts
<1>11. Len(Tlv(IntTag, c)) \in Nat /\ Len(Tlv(IntTag, c)) <= Len(sig)
  <2>1. Len(Tlv(IntTag, c)) <= Len(sig)
    BY <1>1, Zenon DEF EndsWith
  <2> QED BY <1>10, <2>1, LenProperties DEF Strings
<1> QED BY <1>1, <1>5, <1>6, <1>11, Zenon

\* What Readings gives are encodings.
LEMMA ReadingsSound ==
  ASSUME NEW sig \in Strings, Fits(Len(sig), SizeT), NEW xy \in Readings(sig)
  PROVE  Encodes(sig, xy[1], xy[2])
<1>1. /\ xy \in UNION {LastContents(Without(sig, y)) \X {y} : y \in LastContents(sig)}
      /\ sig = Tlv(SeqTag, Tlv(IntTag, xy[1]) \o Tlv(IntTag, xy[2]))
  BY Zenon DEF Readings
<1>2. PICK y \in LastContents(sig) : xy \in LastContents(Without(sig, y)) \X {y}
  BY <1>1, Zenon
<1>3. PICK S : S = LastContents(Without(sig, y))
  BY Zenon
<1>4. PICK x : x = xy[1]
  BY Zenon
<1>5. x \in LastContents(Without(sig, y)) /\ xy[2] = y
  <2>1. xy[1] \in S /\ xy[2] = y
    BY <1>2, <1>3
  <2> QED BY <1>3, <1>4, <2>1, ZenonT(40)
<1>6. Len(sig) \in Nat /\ SizeT \in Nat /\ 0 \in Nat
  BY LenProperties, SizeTIs DEF Strings
<1>7. /\ y \in Strings /\ IntegerContent(y) /\ Len(y) <= Len(sig)
      /\ Len(Tlv(IntTag, y)) \in Nat /\ Len(Tlv(IntTag, y)) <= Len(sig)
  BY LastContentsAre
<1>8. PICK n : n = Len(sig) - Len(Tlv(IntTag, y))
  BY Zenon
<1>9. n \in Nat /\ n <= Len(sig) /\ 0 + n <= Len(sig) /\ 0 + 1 = 1 /\ 0 + n = n
  BY <1>6, <1>7, <1>8
<1>10. PICK w : w = Without(sig, y)
  BY Zenon
<1>11. w \in Strings /\ Len(w) = n
  <2>1. SubSeq(sig, 0 + 1, 0 + n) \in Strings /\ Len(SubSeq(sig, 0 + 1, 0 + n)) = n
    BY <1>6, <1>9, PartOf, ZenonT(40)
  <2> QED BY <1>8, <1>9, <1>10, <2>1, ZenonT(40) DEF Without
<1>12. Fits(Len(w), SizeT) /\ x \in LastContents(w)
  <2>1. Fits(n, SizeT)
    BY <1>6, <1>9, FitsBelow
  <2> QED BY <1>5, <1>10, <1>11, <2>1, Zenon
<1>13. /\ x \in Strings /\ IntegerContent(x) /\ Len(x) <= Len(w)
       /\ Len(Tlv(IntTag, x)) \in Nat /\ Len(Tlv(IntTag, x)) <= Len(w)
  BY <1>11, <1>12, LastContentsAre
<1>14. Len(x) \in Nat
  BY <1>13, LenProperties DEF Strings
<1>15. Len(x) <= Len(sig) /\ Len(Tlv(IntTag, x)) + Len(Tlv(IntTag, y)) <= Len(sig)
  BY <1>6, <1>7, <1>8, <1>9, <1>11, <1>13, <1>14
<1> QED BY <1>1, <1>4, <1>5, <1>7, <1>13, <1>15, ZenonT(40) DEF Encodes

\* An integer at the end of a string is one of its last contents.
LEMMA LastContentIs ==
  ASSUME NEW p \in Strings, NEW c \in Strings, Fits(Len(c), SizeT), IntegerContent(c),
         NEW sig, sig = p \o Tlv(IntTag, c)
  PROVE  c \in LastContents(sig) /\ Without(sig, c) = p
<1>1. PICK t, o : t = Tlv(IntTag, c) /\ o = Len(LengthOctets(Len(c)))
  BY Zenon
<1>2. t \in Strings
  <2>1. TlvParts(p, 0, IntTag, c, o)
    BY <1>1, Tags, TlvIs
  <2> QED BY <1>1, <2>1, ZenonT(40) DEF TlvParts
<1>3. sig \in Strings /\ Len(sig) = Len(p) + Len(t)
  <2>1. p \o t \in Strings /\ Len(p \o t) = Len(p) + Len(t)
    BY <1>2, HasBoth
  <2> QED BY <1>1, <2>1, Zenon
<1>4. Len(p) \in Nat /\ Len(t) \in Nat /\ Len(c) \in Nat /\ Len(sig) \in Nat /\ 0 \in Nat
  BY <1>2, <1>3, LenProperties, SMTT(40) DEF Strings
<1>5. HasAt(sig, 0, p) /\ HasAt(sig, 0 + Len(p), t)
  <2>1. HasAt(sig, 0, sig)
    BY <1>4 DEF HasAt
  <2>2. HasAt(sig, 0, p \o t)
    BY <1>1, <2>1, ZenonT(40)
  <2> QED BY <1>2, <1>3, <1>4, <2>2, HasBoth, SMTT(40)
<1>6. TlvParts(sig, 0 + Len(p), IntTag, c, o)
  <2>1. 0 + Len(p) \in Nat
    BY <1>4
  <2> QED BY <1>1, <1>3, <2>1, Tags, TlvIs, SMTT(40)
<1>7. o \in Nat /\ Len(t) = 1 + o + Len(c) /\ HasAt(sig, 0 + Len(p) + 1 + o, c)
  BY <1>1, <1>5, <1>6, Zenon DEF TlvParts
<1>8. PICK a : a = 0 + Len(p) + 1 + o
  BY Zenon
<1>9. Len(c) > 0
  <2>1. c # <<>>
    BY Zenon DEF IntegerContent
  <2> QED BY <1>4, <2>1, EmptySeq DEF Strings
<1>10. /\ a \in Nat /\ a + Len(c) = Len(sig) /\ a + 1 \in 1 .. Len(sig) /\ 0 + 1 = 1
       /\ Len(sig) - Len(t) = 0 + Len(p)
  BY <1>3, <1>4, <1>7, <1>8, <1>9, SMTT(40)
<1>11. SubSeq(sig, a + 1, a + Len(c)) = c
  BY <1>3, <1>7, <1>8, <1>10, HasAtIs, ZenonT(40)
<1>12. SubSeq(sig, 0 + 1, 0 + Len(p)) = p
  BY <1>3, <1>4, <1>5, HasAtIs
<1>13. c \in {SubSeq(sig, i, Len(sig)) : i \in 1 .. Len(sig)}
  BY <1>10, <1>11, Zenon
<1>14. EndsWith(sig, t)
  <2>1. /\ Len(sig) - Len(t) + 1 = (0 + Len(p)) + 1 /\ (0 + Len(p)) + Len(t) = Len(sig)
        /\ 0 + Len(p) \in Nat /\ Len(t) <= Len(sig)
    BY <1>3, <1>4
  <2>2. SubSeq(sig, (0 + Len(p)) + 1, (0 + Len(p)) + Len(t)) = t
    BY <1>2, <1>3, <1>5, <2>1, HasAtIs, ZenonT(40)
  <2> QED BY <2>1, <2>2, Zenon DEF EndsWith
<1> QED BY <1>1, <1>10, <1>12, <1>13, <1>14, ZenonT(40) DEF LastContents, Without

\* Every encoding is among the readings.
LEMMA ReadingsComplete ==
  ASSUME NEW sig \in Strings, Fits(Len(sig), SizeT), NEW x, NEW y, Encodes(sig, x, y)
  PROVE  <<x, y>> \in Readings(sig)
<1>1. PICK tx, ty : tx = Tlv(IntTag, x) /\ ty = Tlv(IntTag, y)
  BY Zenon
<1>2. /\ x \in Strings /\ y \in Strings /\ IntegerContent(x) /\ IntegerContent(y)
      /\ Len(x) <= Len(sig) /\ Len(y) <= Len(sig) /\ Len(tx) + Len(ty) <= Len(sig)
      /\ sig = Tlv(SeqTag, tx \o ty)
  BY <1>1, Zenon DEF Encodes
<1>3. Len(x) \in Nat /\ Len(y) \in Nat /\ Len(sig) \in Nat /\ SizeT \in Nat /\ 0 \in Nat
  BY <1>2, LenProperties, SizeTIs DEF Strings
<1>4. Fits(Len(x), SizeT) /\ Fits(Len(y), SizeT)
  BY <1>2, <1>3, FitsBelow
<1>5. tx \in Strings /\ ty \in Strings
  <2>1. PICK ox, oy : ox = Len(LengthOctets(Len(x))) /\ oy = Len(LengthOctets(Len(y)))
    BY Zenon
  <2>2. TlvParts(sig, 0, IntTag, x, ox) /\ TlvParts(sig, 0, IntTag, y, oy)
    BY <1>2, <1>3, <1>4, <2>1, Tags, TlvIs, SMTT(40)
  <2> QED BY <1>1, <2>2, ZenonT(40) DEF TlvParts
<1>6. Len(tx \o ty) \in Nat /\ Fits(Len(tx \o ty), SizeT)
  <2>1. Len(tx \o ty) = Len(tx) + Len(ty) /\ Len(tx) \in Nat /\ Len(ty) \in Nat
    BY <1>3, <1>5, HasBoth, LenProperties, SMTT(40) DEF Strings
  <2>2. Len(tx \o ty) \in Nat /\ Len(tx \o ty) <= Len(sig)
    BY <1>2, <2>1
  <2> QED BY <1>3, <2>2, FitsBelow, SMTT(40)
<1>7. PICK h : h = <<SeqTag>> \o LengthOctets(Len(tx \o ty))
  BY Zenon
<1>8. h \in Strings
  <2>1. LengthOctets(Len(tx \o ty)) \in Strings
    BY <1>6, OctetsString
  <2> QED BY <1>3, <1>7, <2>1, Tags, OctetsAt, SMTT(40)
<1>9. sig = (h \o tx) \o ty
  <2>1. sig = h \o (tx \o ty)
    BY <1>2, <1>7, Zenon DEF Tlv
  <2>2. (h \o tx) \o ty = h \o (tx \o ty)
    BY <1>5, <1>8, ConcatAssociative, SMTT(40) DEF Strings
  <2> QED BY <2>1, <2>2, Zenon
<1>10. h \o tx \in Strings
  BY <1>3, <1>5, <1>8, HasBoth
<1>11. PICK q : q = h \o tx
  BY Zenon
<1>12. y \in LastContents(sig) /\ Without(sig, y) = q
  <2>1. q \in Strings /\ sig = q \o Tlv(IntTag, y)
    BY <1>1, <1>9, <1>10, <1>11, Zenon
  <2> QED BY <1>2, <1>4, <2>1, LastContentIs, ZenonT(40)
<1>13. x \in LastContents(q)
  <2>1. q = h \o Tlv(IntTag, x)
    BY <1>1, <1>11, Zenon
  <2> QED BY <1>2, <1>4, <1>8, <2>1, LastContentIs, ZenonT(40)
<1>14. x \in LastContents(Without(sig, y))
  BY <1>12, <1>13, Zenon
<1>15. PICK xy : xy = <<x, y>>
  BY Zenon
<1>16. xy \in LastContents(Without(sig, y)) \X {y} /\ xy[1] = x /\ xy[2] = y
  <2>1. PICK S : S = LastContents(Without(sig, y))
    BY Zenon
  <2>2. xy \in S \X {y} /\ xy[1] = x /\ xy[2] = y
    BY <1>14, <1>15, <2>1
  <2> QED BY <2>1, <2>2, Zenon
<1>17. xy \in UNION {LastContents(Without(sig, z)) \X {z} : z \in LastContents(sig)}
  BY <1>12, <1>16, Zenon
<1>18. sig = Tlv(SeqTag, Tlv(IntTag, xy[1]) \o Tlv(IntTag, xy[2]))
  BY <1>1, <1>2, <1>16, Zenon
<1> QED BY <1>15, <1>17, <1>18, Zenon DEF Readings

---------------------------------------------------------------------------
(* The invariant of the caller's object and buffer.                        *)

\* The buffer is a string of bytes and the object holds two scalars.
Typed == buffer \in Strings /\ obj \in Scalars \X Scalars

\* The size of the buffer, with the changes that are left, fits into a size_t.
Room ==
  /\ edits \in Nat /\ edits <= MaxEdits
  /\ IsSize(Len(buffer) + (MaxEdits - edits))

\* After a parse, what ecdsa_sig_parse gives for the buffer as it is.
ParsedLast ==
  last.call = "parse" =>
    LET p == ecdsa_sig_parse(buffer)
    IN  last.ok = p.ok /\ last.size = p.seen /\ obj = <<p.r, p.s>>

\* After a serialization, what sig_serialize gives for the object as it is.
SerializedLast ==
  last.call = "serialize" =>
    /\ last.size = 6 + Len(Shortest(obj[2])) + Len(Shortest(obj[1]))
    /\ last.ok => buffer = Written(Shortest(obj[1]), Shortest(obj[2]))

DerInv == Typed /\ Room /\ ParsedLast /\ SerializedLast

\* What is below a size is a size.
LEMMA SizeBelow ==
  ASSUME NEW x \in Nat, NEW y \in Nat, x <= y, IsSize(y)
  PROVE  IsSize(x)
<1>1. Fits(x, SizeT)
  BY FitsBelow, SizeTIs DEF IsSize
<1>2. x <= IntMax
  BY DerAssumption DEF IsSize
<1> QED BY <1>1, <1>2 DEF IsSize

\* What the assumption says of sizes.
LEMMA RoomAtFirst ==
  /\ MaxEdits \in Nat /\ SizeT \in Nat /\ Base \in Nat /\ IsSize(Base + MaxEdits)
  /\ \A w \in Wholes : w \in Strings /\ IsSize(Len(w) + MaxEdits)
<1>1. MaxEdits \in Nat /\ SizeT \in Nat /\ Base \in Nat
  BY DerAssumption, Sizes, SizeTIs
<1>2. \A n \in {Len(w) : w \in Wholes} \cup {Base} : IsSize(n + MaxEdits)
  BY DerAssumption, Zenon
<1>3. Wholes \subseteq Seq(0 .. Full)
  BY DerAssumption, Zenon
<1> QED BY <1>1, <1>2, <1>3, ZenonT(40) DEF Strings

\* A buffer of at most 0x100 bytes leaves room for every change.
LEMMA RoomBelow ==
  ASSUME NEW n \in Nat, n <= Base, NEW e \in Nat, e <= MaxEdits
  PROVE  IsSize(n + (MaxEdits - e))
<1>1. n + (MaxEdits - e) \in Nat /\ Base + MaxEdits \in Nat /\ n + (MaxEdits - e) <= Base + MaxEdits
  BY RoomAtFirst
<1> QED BY <1>1, RoomAtFirst, SizeBelow, SMTT(40)

\* The caller starts with bytes and scalars.
LEMMA InitInv == DerInit => DerInv
<1> SUFFICES ASSUME DerInit PROVE DerInv
  OBVIOUS
<1>1. edits = 0 /\ last.call = "none"
  BY DEF DerInit
<1>2. <<>> \in Strings /\ Len(<<>>) = 0 /\ 0 \in Scalars /\ Given \subseteq Scalars \X Scalars
  BY Sizes, DerAssumption DEF Strings, Scalars
<1>3. edits \in Nat /\ edits <= MaxEdits /\ MaxEdits - 0 = MaxEdits /\ 0 \in Nat /\ 0 <= Base /\ 0 <= MaxEdits
  BY <1>1, RoomAtFirst, SMTT(40)
<1>4. CASE obj \in Given /\ buffer = <<>>
  <2>1. Typed
    BY <1>2, <1>4, Zenon DEF Typed
  <2>2. IsSize(0 + (MaxEdits - 0))
    BY <1>3, RoomBelow
  <2>3. Room
    BY <1>1, <1>2, <1>3, <1>4, <2>2, ZenonT(40) DEF Room
  <2> QED BY <1>1, <2>1, <2>3 DEF DerInv, ParsedLast, SerializedLast
<1>5. CASE obj = <<0, 0>> /\ buffer \in Wholes
  <2>1. buffer \in Strings /\ IsSize(Len(buffer) + MaxEdits)
    BY <1>5, RoomAtFirst, Zenon
  <2>2. obj \in Scalars \X Scalars
    BY <1>2, <1>5
  <2>3. Typed /\ Room
    BY <1>1, <1>3, <2>1, <2>2, ZenonT(40) DEF Typed, Room
  <2> QED BY <1>1, <2>3 DEF DerInv, ParsedLast, SerializedLast
<1> QED BY <1>4, <1>5 DEF DerInit

\* A change of the buffer leaves a string of bytes, longer by at most one.
LEMMA EditStrings ==
  ASSUME buffer \in Strings, Edit
  PROVE  buffer' \in Strings /\ Len(buffer') <= Len(buffer) + 1
<1>1. PICK i \in 1 .. Len(buffer) :
        buffer' \in {Changed(i, b) : b \in Noise} \cup {Inserted(i, b) : b \in Noise}
                    \cup {Removed(i)}
  BY DEF Edit
<1>2. buffer \in Seq(0 .. Full) /\ Len(buffer) \in Nat /\ \A b \in Noise : b \in 0 .. Full
  BY DerAssumption, LenProperties, SMTT(40) DEF Strings
<1> DEFINE u == SubSeq(buffer, 1, i - 1)
           v == SubSeq(buffer, i, Len(buffer))
           w == SubSeq(buffer, i + 1, Len(buffer))
<1>3. /\ u \in Seq(0 .. Full) /\ v \in Seq(0 .. Full) /\ w \in Seq(0 .. Full)
      /\ Len(u) = i - 1 /\ Len(v) = Len(buffer) - i + 1 /\ Len(w) = Len(buffer) - i
  <2>1. \A j \in 1 .. Len(buffer) : buffer[j] \in 0 .. Full
    BY <1>2, ElementOfSeq, ZenonT(40)
  <2>2. /\ \A j \in 1 .. i - 1 : j \in 1 .. Len(buffer)
        /\ \A j \in i .. Len(buffer) : j \in 1 .. Len(buffer)
        /\ \A j \in i + 1 .. Len(buffer) : j \in 1 .. Len(buffer)
        /\ i \in Int /\ i - 1 \in Int /\ i + 1 \in Int /\ Len(buffer) \in Int /\ 1 \in Int
    BY <1>2
  <2>3. /\ u \in Seq(0 .. Full) /\ Len(u) = IF 1 <= i - 1 THEN (i - 1) - 1 + 1 ELSE 0
    BY <2>1, <2>2, SubSeqProperties
  <2>4. /\ v \in Seq(0 .. Full) /\ Len(v) = IF i <= Len(buffer) THEN Len(buffer) - i + 1 ELSE 0
    BY <2>1, <2>2, SubSeqProperties
  <2>5. /\ w \in Seq(0 .. Full)
        /\ Len(w) = IF i + 1 <= Len(buffer) THEN Len(buffer) - (i + 1) + 1 ELSE 0
    BY <2>1, <2>2, SubSeqProperties
  <2> HIDE DEF u, v, w
  <2> QED BY <1>1, <1>2, <2>3, <2>4, <2>5, SMTT(40)
<1> HIDE DEF u, v, w
<1> DEFINE Good == buffer' \in Seq(0 .. Full) /\ Len(buffer') <= Len(buffer) + 1
<1>4. ASSUME NEW b \in Noise, buffer' = Changed(i, b) PROVE Good
  <2>1. b \in 0 .. Full
    BY <1>2
  <2>2. buffer' \in Seq(0 .. Full) /\ Len(buffer') = Len(buffer)
    BY <1>2, <1>4, <2>1, ExceptSeq, SMTT(40) DEF Changed
  <2> QED BY <1>2, <2>2
<1>5. ASSUME NEW b \in Noise, buffer' = Inserted(i, b) PROVE Good
  <2>1. buffer' = (u \o <<b>>) \o v
    BY <1>5, Zenon DEF Inserted, u, v
  <2>2. <<b>> \in Seq(0 .. Full) /\ Len(<<b>>) = 1
    BY <1>2
  <2>3. u \o <<b>> \in Seq(0 .. Full) /\ Len(u \o <<b>>) = Len(u) + Len(<<b>>)
    BY <1>3, <2>2, Joined, SMTT(40)
  <2>4. buffer' \in Seq(0 .. Full) /\ Len(buffer') = Len(u \o <<b>>) + Len(v)
    BY <1>3, <2>1, <2>3, Joined, ZenonT(40)
  <2> QED BY <1>1, <1>2, <1>3, <2>2, <2>3, <2>4, SMTT(40)
<1>6. ASSUME buffer' = Removed(i) PROVE Good
  <2>1. buffer' = u \o w
    BY <1>6, Zenon DEF Removed, u, w
  <2>2. buffer' \in Seq(0 .. Full) /\ Len(buffer') = Len(u) + Len(w)
    BY <1>3, <2>1, Joined, ZenonT(40)
  <2> QED BY <1>1, <1>2, <1>3, <2>2
<1> QED BY <1>1, <1>4, <1>5, <1>6, ZenonT(40) DEF Strings

\* A change of the buffer takes one from the changes that are left.
LEMMA EditInv ==
  ASSUME DerInv, Edit
  PROVE  DerInv'
<1>1. buffer' \in Strings /\ Len(buffer') <= Len(buffer) + 1 /\ buffer \in Strings
  BY EditStrings DEF DerInv, Typed
<1>2. obj' = obj /\ last'.call = "none" /\ edits' = edits + 1 /\ edits < MaxEdits
  BY DEF Edit
<1>3. Len(buffer) \in Nat /\ Len(buffer') \in Nat
  BY <1>1, LenProperties DEF Strings
<1>4. edits \in Nat /\ IsSize(Len(buffer) + (MaxEdits - edits))
  BY Zenon DEF DerInv, Room
<1>5. PICK x, y : x = Len(buffer') + (MaxEdits - edits') /\ y = Len(buffer) + (MaxEdits - edits)
  BY Zenon
<1>6. x \in Nat /\ y \in Nat /\ x <= y /\ edits' \in Nat /\ edits' <= MaxEdits
  BY <1>1, <1>2, <1>3, <1>4, <1>5, RoomAtFirst, SMTT(40)
<1>7. IsSize(x)
  BY <1>4, <1>5, <1>6, SizeBelow, RoomAtFirst, SMTT(40)
<1>8. Room'
  BY <1>5, <1>6, <1>7, ZenonT(40) DEF Room
<1>9. Typed'
  BY <1>1, <1>2, ZenonT(40) DEF DerInv, Typed
<1> QED BY <1>2, <1>8, <1>9 DEF DerInv, ParsedLast, SerializedLast

\* A parse leaves the buffer, and its results in the object.
LEMMA ParseInv ==
  ASSUME DerInv, signature_parse_der
  PROVE  DerInv'
<1>1. PICK p : p = ecdsa_sig_parse(buffer)
  BY Zenon
<1>2. p.r \in Scalars /\ p.s \in Scalars
  BY <1>1, SigParseReads DEF DerInv, Typed, Scalars
<1>3. buffer' = buffer /\ edits' = edits /\ ParseGives(p)
  BY <1>1 DEF signature_parse_der
<1>4. obj' = <<p.r, p.s>> /\ last' = [call |-> "parse", ok |-> p.ok, size |-> p.seen]
  BY <1>3, Zenon DEF ParseGives
<1>5. PICK k : k = p.ok
  BY Zenon
<1>6. last'.call = "parse" /\ last'.ok = k /\ last'.size = p.seen
  BY <1>4, <1>5, SMTT(40)
<1>7. Typed'
  BY <1>2, <1>3, <1>4 DEF DerInv, Typed
<1>8. Room'
  BY <1>3, Zenon DEF DerInv, Room
<1>9. ParsedLast'
  BY <1>1, <1>3, <1>4, <1>5, <1>6, ZenonT(40) DEF ParsedLast
<1> QED BY <1>6, <1>7, <1>8, <1>9, SMTT(40) DEF DerInv, SerializedLast

\* What is written is a short string of bytes.
LEMMA SerializeInv ==
  ASSUME DerInv, NEW size, signature_serialize_der(size)
  PROVE  DerInv'
<1>1. PICK r \in Scalars, s \in Scalars : obj = <<r, s>> /\ obj[1] = r /\ obj[2] = s
  BY DEF DerInv, Typed
<1>2. PICK e : e = ecdsa_sig_serialize(r, s, size)
  BY Zenon
<1>3. /\ e.size = 6 + Len(Shortest(s)) + Len(Shortest(r))
      /\ e.ok => e.sig = Written(Shortest(r), Shortest(s))
  BY <1>2, SerializeIs
<1>4. SerializeGives(e) /\ obj' = obj /\ edits' = edits
  BY <1>1, <1>2, ZenonT(40) DEF signature_serialize_der
<1>5. /\ buffer' = (IF e.ok THEN e.sig ELSE buffer)
      /\ last'.call = "serialize" /\ last'.ok = e.ok /\ last'.size = e.size
  BY <1>4 DEF SerializeGives
<1>6. PICK w : w = Written(Shortest(r), Shortest(s))
  BY Zenon
<1>7. w \in Strings /\ Len(w) \in Nat /\ Len(w) <= Base
  <2>1. PICK rp, sp : rp = Shortest(r) /\ sp = Shortest(s)
    BY Zenon
  <2>2. ShortFor(r, rp) /\ ShortFor(s, sp)
    BY <2>1, ShortestIs
  <2>3. HasParts(Written(rp, sp), rp, sp)
    BY <2>2, WrittenIs
  <2>4. w \in Strings /\ Len(w) = 6 + Len(sp) + Len(rp)
    BY <1>6, <2>1, <2>3, ZenonT(40) DEF HasParts
  <2>5. Len(rp) \in 1 .. Bytes + 1 /\ Len(sp) \in 1 .. Bytes + 1
    BY <2>2 DEF ShortFor
  <2>6. Len(w) \in Nat /\ Len(w) <= Half + Half
    BY <2>4, <2>5, Sizes
  <2> QED BY <2>4, <2>6, Sizes DEF Base
<1>8. Typed'
  BY <1>3, <1>4, <1>5, <1>6, <1>7, ZenonT(40) DEF DerInv, Typed
<1>9. Room'
  <2>1. edits \in Nat /\ edits <= MaxEdits /\ IsSize(Len(buffer) + (MaxEdits - edits))
    BY Zenon DEF DerInv, Room
  <2>2. IsSize(Len(w) + (MaxEdits - edits))
    BY <1>7, <2>1, RoomBelow, SMTT(40)
  <2>3. buffer' = w \/ buffer' = buffer
    BY <1>3, <1>5, <1>6, ZenonT(40)
  <2> QED BY <1>4, <2>1, <2>2, <2>3, ZenonT(40) DEF Room
<1>10. SerializedLast'
  <2>1. obj'[1] = r /\ obj'[2] = s
    BY <1>1, <1>4
  <2>2. last'.ok => buffer' = Written(Shortest(r), Shortest(s))
    BY <1>3, <1>5, Zenon
  <2>3. last'.size = 6 + Len(Shortest(s)) + Len(Shortest(r))
    BY <1>3, <1>5, ZenonT(40)
  <2> QED BY <2>1, <2>2, <2>3, ZenonT(40) DEF SerializedLast
<1>11. ParsedLast'
  BY <1>5 DEF ParsedLast
<1> QED BY <1>8, <1>9, <1>10, <1>11, SMTT(40) DEF DerInv

\* The buffer always holds bytes, as many as an int counts, the object two scalars,
\* and the last call has left there what ecdsa_sig_parse or ecdsa_sig_serialize gives.
THEOREM DerInvariant == DerSpec => []DerInv
<1>1. ASSUME DerInv, UNCHANGED derVars PROVE DerInv'
  BY <1>1 DEF derVars, DerInv, Typed, Room, ParsedLast, SerializedLast
<1>2. DerInv /\ [DerNext]_derVars => DerInv'
  BY <1>1, EditInv, ParseInv, SerializeInv DEF DerNext
<1> QED BY <1>2, InitInv, PTL DEF DerSpec

\* Every read of the parser is inside the input, for all inputs and all sequences
\* of calls and changes of the buffer (der_read_len, der_parse_integer and
\* ecdsa_sig_parse test before they read).
THEOREM ParserReadsInside == DerSpec => []ReadsInside
<1>1. DerInv => ReadsInside
  <2> SUFFICES ASSUME DerInv, last.call = "parse"
               PROVE  last.size < Len(buffer)
    BY DEF ReadsInside
  <2>1. ecdsa_sig_parse(buffer).seen < Len(buffer)
    BY SigParseReads DEF DerInv, Typed
  <2> QED BY <2>1 DEF DerInv, ParsedLast
<1> QED BY <1>1, DerInvariant, PTL

\* The object a caller has holds scalars, whatever the input of signature_parse_der
\* was: a number that is too large, too long or negative was replaced by 0.
THEOREM ParserGivesScalars ==
  DerSpec => [](obj \in (0 .. GroupOrder - 1) \X (0 .. GroupOrder - 1))
<1>1. DerInv => obj \in (0 .. GroupOrder - 1) \X (0 .. GroupOrder - 1)
  BY DEF DerInv, Typed, Scalars
<1> QED BY <1>1, DerInvariant, PTL

\* secp256k1_ecdsa_signature_parse_der accepts exactly the DER encodings of two
\* integers, for every input whose size is an int: the shortest length octets, the shortest two's complement,
\* nothing after them.  It gives their scalars, and zeros when it fails.
THEOREM ParseExactCorrect == DerSpec => []ParseExact
<1>1. ASSUME DerInv, last.call = "parse"
      PROVE  LET all == Readings(buffer)
             IN  /\ last.ok = (all # {})
                 /\ \A xy \in all : obj = <<ScalarOf(xy[1]), ScalarOf(xy[2])>>
                 /\ ~last.ok => obj = <<0, 0>>
  <2>1. PICK p : p = ecdsa_sig_parse(buffer)
    BY Zenon
  <2>2. buffer \in Strings /\ last.ok = p.ok /\ obj = <<p.r, p.s>>
    BY <1>1, <2>1, ZenonT(40) DEF DerInv, Typed, ParsedLast
  <2>3. Fits(Len(buffer), SizeT) /\ Len(buffer) <= IntMax
    <3>1. edits \in Nat /\ edits <= MaxEdits /\ IsSize(Len(buffer) + (MaxEdits - edits))
      BY <1>1, ZenonT(40) DEF DerInv, Room
    <3>2. Len(buffer) \in Nat
      BY <2>2, LenProperties DEF Strings
    <3>3. PICK y : y = Len(buffer) + (MaxEdits - edits)
      BY Zenon
    <3>4. y \in Nat /\ Len(buffer) <= y
      BY <3>1, <3>2, <3>3, RoomAtFirst, SMTT(40)
    <3>5. IsSize(Len(buffer))
      BY <3>1, <3>2, <3>3, <3>4, SizeBelow, ZenonT(40)
    <3> QED BY <3>5 DEF IsSize
  <2>4. ASSUME NEW xy \in Readings(buffer)
        PROVE  p.ok = TRUE /\ obj = <<ScalarOf(xy[1]), ScalarOf(xy[2])>>
    <3>1. Encodes(buffer, xy[1], xy[2])
      BY <2>2, <2>3, ReadingsSound, SMTT(40)
    <3>2. LET q == ecdsa_sig_parse(buffer)
          IN  q.ok = TRUE /\ q.r = ScalarOf(xy[1]) /\ q.s = ScalarOf(xy[2])
      BY <2>2, <2>3, <3>1, SigParseComplete, ZenonT(40)
    <3> QED BY <2>1, <2>2, <3>2, ZenonT(40)
  <2>5. ASSUME p.ok PROVE Readings(buffer) # {} /\ p.ok = TRUE
    <3>1. PICK x, y : Encodes(buffer, x, y)
      BY <2>1, <2>2, <2>3, <2>5, SigParseSound
    <3>2. <<x, y>> \in Readings(buffer)
      BY <2>2, <2>3, <3>1, ReadingsComplete
    <3> QED BY <2>4, <3>2, Zenon
  <2>6. ASSUME ~p.ok PROVE p.ok = FALSE /\ obj = <<0, 0>> /\ Readings(buffer) = {}
    <3>1. p.ok = FALSE /\ p.r = 0 /\ p.s = 0
      BY <2>1, <2>6, ParseCases, ZenonT(40)
    <3>2. Readings(buffer) = {}
      BY <2>4, <2>6, Zenon
    <3> QED BY <2>2, <3>1, <3>2, ZenonT(40)
  <2> QED BY <2>2, <2>4, <2>5, <2>6, ZenonT(40)
<1>2. DerInv => ParseExact
  BY <1>1, ZenonT(40) DEF ParseExact
<1> QED BY <1>2, DerInvariant, PTL

\* Whatever sig_serialize writes for two scalars, sig_parse reads back as the same
\* two, and a caller whose buffer is too small is told the size that is enough.
THEOREM SerializeExactCorrect == DerSpec => []SerializeExact
<1>1. ASSUME DerInv PROVE SerializeExact
  <2> SUFFICES ASSUME last.call = "serialize"
               PROVE  LET e == ecdsa_sig_serialize(obj[1], obj[2], last.size)
                          p == ecdsa_sig_parse(e.sig)
                      IN  /\ e.ok /\ Len(e.sig) = last.size /\ (last.ok => buffer = e.sig)
                          /\ p.ok /\ <<p.r, p.s>> = obj
    BY Zenon DEF SerializeExact
  <2>1. PICK r \in Scalars, s \in Scalars : obj = <<r, s>> /\ obj[1] = r /\ obj[2] = s
    BY <1>1 DEF DerInv, Typed
  <2>2. PICK rp, sp : rp = Shortest(r) /\ sp = Shortest(s)
    BY Zenon
  <2>3. ShortFor(r, rp) /\ ShortFor(s, sp)
    BY <2>2, ShortestIs
  <2>4. PICK w : w = Written(rp, sp)
    BY Zenon
  <2>5. last.size = 6 + Len(sp) + Len(rp) /\ (last.ok => buffer = w)
    BY <1>1, <2>1, <2>2, <2>4, ZenonT(40) DEF DerInv, SerializedLast
  <2>6. PICK e : e = ecdsa_sig_serialize(r, s, last.size)
    BY Zenon
  <2>7. e.ok = ~(last.size < 6 + Len(sp) + Len(rp)) /\ (e.ok => e.sig = w)
    BY <2>2, <2>4, <2>6, SerializeIs, SMTT(40)
  <2>8. ~(last.size < 6 + Len(sp) + Len(rp))
    <3>1. Len(sp) \in Nat /\ Len(rp) \in Nat
      BY <2>3, Sizes DEF ShortFor
    <3> QED BY <2>5, <3>1, SMTT(40)
  <2>9. e.ok /\ e.sig = w
    BY <2>7, <2>8, Zenon
  <2>10. Len(w) = last.size
    <3>1. HasParts(w, rp, sp)
      BY <2>3, <2>4, WrittenIs, SMTT(40)
    <3> QED BY <2>5, <3>1, ZenonT(40) DEF HasParts
  <2>11. ecdsa_sig_parse(w).ok /\ ecdsa_sig_parse(w).r = r /\ ecdsa_sig_parse(w).s = s
    BY <2>3, <2>4, WrittenReadBack, SMTT(40)
  <2> QED BY <2>1, <2>5, <2>6, <2>9, <2>10, <2>11, ZenonT(40)
<1>2. DerInv => SerializeExact
  BY <1>1
<1> QED BY <1>2, DerInvariant, PTL
===============================================================================
