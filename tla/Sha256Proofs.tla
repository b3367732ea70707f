----------------------------- MODULE Sha256Proofs -----------------------------
(***************************************************************************)
(* The seed of the nonce generator tells its arguments apart, for all of   *)
(* them: the sizes that are left out are different, so that the length of  *)
(* the seed says which were, and then each has its place.                  *)
(***************************************************************************)
EXTENDS Sha256, SequenceTheorems, TLAPS

\* Strings of n bytes; nothing depends on how large a byte is.
Bytestrings(n) == {s \in Seq(Nat) : Len(s) = n}

\* What secp256k1_nonce_function_rfc6979 can be given.
AllArgs ==
  [key : Bytestrings(OutLen), msg : Bytestrings(OutLen),
   data : Bytestrings(OutLen) \cup {<<>>}, algo : Bytestrings(OutLen \div 2) \cup {<<>>}]

LEMMA Sizes == OutLen \in Nat /\ OutLen \div 2 \in Nat /\ 0 < OutLen \div 2 /\ OutLen \div 2 < OutLen
BY WidthAssumption DEF OutLen

\* Where the elements of two strings put together are.
Joined(a, b) ==
  /\ Len(a \o b) = Len(a) + Len(b) /\ Len(a) \in Nat /\ Len(b) \in Nat
  /\ \A i \in 1 .. Len(a) : (a \o b)[i] = a[i]
  /\ \A i \in 1 .. Len(b) : (a \o b)[Len(a) + i] = b[i]

LEMMA ConcatAt ==
  ASSUME NEW S, NEW a \in Seq(S), NEW b \in Seq(S)
  PROVE  a \o b \in Seq(S) /\ Joined(a, b)
<1>1. /\ a \o b \in Seq(S) /\ Len(a \o b) = Len(a) + Len(b) /\ Len(a) \in Nat /\ Len(b) \in Nat
      /\ \A j \in 1 .. Len(a) + Len(b) : (a \o b)[j] = IF j <= Len(a) THEN a[j] ELSE b[j - Len(a)]
  BY ConcatProperties, LenProperties, Zenon
<1>2. ASSUME NEW i \in 1 .. Len(a) PROVE (a \o b)[i] = a[i]
  <2>1. i \in 1 .. Len(a) + Len(b) /\ i <= Len(a)
    BY <1>1
  <2> QED BY <1>1, <2>1, Zenon
<1>3. ASSUME NEW i \in 1 .. Len(b) PROVE (a \o b)[Len(a) + i] = b[i]
  <2>1. Len(a) + i \in 1 .. Len(a) + Len(b) /\ ~(Len(a) + i <= Len(a)) /\ (Len(a) + i) - Len(a) = i
    BY <1>1
  <2> QED BY <1>1, <2>1, Zenon
<1> QED BY <1>1, <1>2, <1>3 DEF Joined

\* Two strings put together can be taken apart where the first one ends.
LEMMA TakenApart ==
  ASSUME NEW S, NEW a \in Seq(S), NEW b \in Seq(S), NEW c \in Seq(S), NEW d \in Seq(S)
  PROVE  Len(a) = Len(c) /\ a \o b = c \o d => a = c /\ b = d
<1>1. Joined(a, b) /\ Joined(c, d)
  BY ConcatAt
<1> HAVE Len(a) = Len(c) /\ a \o b = c \o d
<1>2. Len(b) = Len(d)
  BY <1>1 DEF Joined
<1>3. \A i \in 1 .. Len(a) : a[i] = c[i]
  BY <1>1, Zenon DEF Joined
<1>4. \A i \in 1 .. Len(b) : b[i] = d[i]
  BY <1>1, <1>2, Zenon DEF Joined
<1> QED BY <1>2, <1>3, <1>4, SeqEqual, Zenon

\* Arguments of the generator that give the same seed are the same.
LEMMA SeedTellsArgumentsApart ==
  ASSUME NEW x \in AllArgs, NEW y \in AllArgs, keydata(x) = keydata(y)
  PROVE  x = y
<1> DEFINE h == OutLen \div 2
<1>1. h \in Nat /\ OutLen \in Nat /\ 0 < h /\ h < OutLen
  BY Sizes
<1> HIDE DEF h
<1>2. \A z \in AllArgs : /\ z.key \in Seq(Nat) /\ z.msg \in Seq(Nat)
                         /\ z.data \in Seq(Nat) /\ z.algo \in Seq(Nat)
                         /\ Len(z.key) = OutLen /\ Len(z.msg) = OutLen
                         /\ ((z.data = <<>> /\ Len(z.data) = 0) \/ Len(z.data) = OutLen)
                         /\ ((z.algo = <<>> /\ Len(z.algo) = 0) \/ Len(z.algo) = h)
  BY EmptySeq DEF AllArgs, Bytestrings, h
<1>3. \A z \in AllArgs : /\ z.key \o z.msg \in Seq(Nat)
                         /\ z.key \o z.msg \o z.data \in Seq(Nat)
                         /\ Len(z.key \o z.msg) = 2 * OutLen
                         /\ Len(z.key \o z.msg \o z.data) = 2 * OutLen + Len(z.data)
                         /\ Len(keydata(z)) = 2 * OutLen + Len(z.data) + Len(z.algo)
  <2> SUFFICES ASSUME NEW z \in AllArgs
               PROVE  /\ z.key \o z.msg \in Seq(Nat)
                      /\ z.key \o z.msg \o z.data \in Seq(Nat)
                      /\ Len(z.key \o z.msg) = 2 * OutLen
                      /\ Len(z.key \o z.msg \o z.data) = 2 * OutLen + Len(z.data)
                      /\ Len(keydata(z)) = 2 * OutLen + Len(z.data) + Len(z.algo)
    OBVIOUS
  <2> DEFINE a == z.key \o z.msg
             b == a \o z.data
  <2>1. a \in Seq(Nat) /\ Len(a) = Len(z.key) + Len(z.msg)
    <3>1. z.key \in Seq(Nat) /\ z.msg \in Seq(Nat)
      BY <1>2
    <3>2. a \in Seq(Nat) /\ Joined(z.key, z.msg)
      BY <3>1, ConcatAt, Zenon
    <3> QED BY <3>2, Zenon DEF Joined
  <2>2. b \in Seq(Nat) /\ Len(b) = Len(a) + Len(z.data)
    <3>1. z.data \in Seq(Nat)
      BY <1>2
    <3> HIDE DEF a
    <3> QED BY <2>1, <3>1, ConcatAt, Zenon DEF Joined
  <2>3. Len(b \o z.algo) = Len(b) + Len(z.algo)
    <3>1. z.algo \in Seq(Nat)
      BY <1>2
    <3> HIDE DEF b
    <3> QED BY <2>2, <3>1, ConcatAt, Zenon DEF Joined
  <2>4. keydata(z) = b \o z.algo
    BY DEF keydata
  <2>5. Len(z.key) = OutLen /\ Len(z.msg) = OutLen
    BY <1>2
  <2>6. Len(a) = 2 * OutLen /\ Len(b) = 2 * OutLen + Len(z.data)
    <3>1. OutLen + OutLen = 2 * OutLen
      BY <1>1
    <3> HIDE DEF a, b
    <3> QED BY <2>1, <2>2, <2>5, <3>1, Zenon
  <2>7. Len(keydata(z)) = 2 * OutLen + Len(z.data) + Len(z.algo)
    <3> HIDE DEF a, b
    <3> QED BY <2>3, <2>4, <2>6
  <2> QED BY <2>1, <2>2, <2>6, <2>7, Zenon
\* The sizes that are left out: 0, h, OutLen or OutLen + h, all different.
<1>4. Len(x.data) = Len(y.data) /\ Len(x.algo) = Len(y.algo)
  <2>1. Len(x.data) + Len(x.algo) = Len(y.data) + Len(y.algo)
    <3>1. /\ Len(x.data) \in Nat /\ Len(x.algo) \in Nat
          /\ Len(y.data) \in Nat /\ Len(y.algo) \in Nat
      BY <1>2, LenProperties
    <3>2. 2 * OutLen + Len(x.data) + Len(x.algo) = 2 * OutLen + Len(y.data) + Len(y.algo)
      BY <1>3
    <3> DEFINE p == Len(x.data)
               q == Len(x.algo)
               r == Len(y.data)
               t == Len(y.algo)
    <3>3. /\ p \in Nat /\ q \in Nat /\ r \in Nat /\ t \in Nat
          /\ 2 * OutLen + p + q = 2 * OutLen + r + t
      BY <3>1, <3>2
    <3> HIDE DEF p, q, r, t
    <3>4. p + q = r + t
      BY <1>1, <3>3
    <3> QED BY <3>4 DEF p, q, r, t
  <2>2. /\ Len(x.data) \in {0, OutLen} /\ Len(y.data) \in {0, OutLen}
        /\ Len(x.algo) \in {0, h} /\ Len(y.algo) \in {0, h}
    BY <1>2, Zenon
  <2> DEFINE p == Len(x.data)
             q == Len(x.algo)
             r == Len(y.data)
             t == Len(y.algo)
  <2>3. /\ p + q = r + t
        /\ p \in {0, OutLen} /\ r \in {0, OutLen} /\ q \in {0, h} /\ t \in {0, h}
    BY <2>1, <2>2
  <2> HIDE DEF p, q, r, t
  <2>4. p = r /\ q = t
    BY <1>1, <2>3
  <2> QED BY <2>4 DEF p, q, r, t
<1>5. x.key \o x.msg \o x.data = y.key \o y.msg \o y.data /\ x.algo = y.algo
  <2> DEFINE a == x.key \o x.msg \o x.data
             c == y.key \o y.msg \o y.data
  <2>1. /\ a \in Seq(Nat) /\ c \in Seq(Nat) /\ Len(a) = Len(c)
        /\ x.algo \in Seq(Nat) /\ y.algo \in Seq(Nat)
    BY <1>2, <1>3, <1>4, Zenon
  <2>2. a \o x.algo = c \o y.algo
    BY DEF keydata
  <2> HIDE DEF a, c
  <2>3. a = c /\ x.algo = y.algo
    BY <2>1, <2>2, TakenApart, Zenon
  <2> QED BY <2>3 DEF a, c
<1>6. x.key \o x.msg = y.key \o y.msg /\ x.data = y.data
  <2> DEFINE a == x.key \o x.msg
             c == y.key \o y.msg
  <2>1. /\ a \in Seq(Nat) /\ c \in Seq(Nat) /\ Len(a) = Len(c)
        /\ x.data \in Seq(Nat) /\ y.data \in Seq(Nat) /\ a \o x.data = c \o y.data
    BY <1>2, <1>3, <1>5
  <2> HIDE DEF a, c
  <2>2. a = c /\ x.data = y.data
    BY <2>1, TakenApart
  <2> QED BY <2>2 DEF a, c
<1>7. x.key = y.key /\ x.msg = y.msg
  <2>1. /\ x.key \in Seq(Nat) /\ y.key \in Seq(Nat) /\ Len(x.key) = Len(y.key)
        /\ x.msg \in Seq(Nat) /\ y.msg \in Seq(Nat)
    BY <1>2
  <2> QED BY <1>6, <2>1, TakenApart
<1> QED BY <1>5, <1>6, <1>7 DEF AllArgs

---------------------------------------------------------------------------

\* The arguments of the model are among them.
LEMMA FillIsString ==
  ASSUME NEW n \in Nat, NEW b \in Nat
  PROVE  Fill(n, b) \in Bytestrings(n)
<1>1. Fill(n, b) \in [1 .. n -> Nat]
  BY DEF Fill
<1>2. Fill(n, b) \in Seq(Nat) /\ Len(Fill(n, b)) = n
  <2> HIDE DEF Fill
  <2> QED BY <1>1, IsASeq
<1> QED BY <1>2 DEF Bytestrings

LEMMA ArgsAreArgs == Args \subseteq AllArgs
<1>1. \A n \in Nat : {Fill(n, 1), Fill(n, 2)} \subseteq Bytestrings(n)
  BY FillIsString
<1> QED BY <1>1, Sizes DEF Args, AllArgs

\* A generator keeps the arguments it was made with.
GivenArgs == kind = "rng" => given \in Args

LEMMA GivenArgsInductive ==
  /\ HashInit => GivenArgs
  /\ GivenArgs /\ [HashNext]_hashVars => GivenArgs'
<1>1. HashInit => GivenArgs
  BY DEF HashInit, GivenArgs
<1>2. ASSUME GivenArgs, [HashNext]_hashVars PROVE GivenArgs'
  <2>1. ASSUME NEW n \in Writes, Write(n) \/ MacWrite(n) PROVE GivenArgs'
    BY <1>2, <2>1 DEF Write, MacWrite, GivenArgs
  <2>2. CASE Reuse
    BY <1>2, <2>2 DEF Reuse, GivenArgs
  <2>3. ASSUME NEW n \in {OutLen, OutLen + 1}, Generate(n) PROVE GivenArgs'
    BY <1>2, <2>3 DEF Generate, GivenArgs
  <2>4. CASE Finish
    BY <2>4 DEF Finish, GivenArgs
  <2>5. CASE UNCHANGED hashVars
    BY <1>2, <2>5 DEF hashVars, GivenArgs
  <2> QED BY <1>2, <2>1, <2>2, <2>3, <2>4, <2>5 DEF HashNext
<1> QED BY <1>1, <1>2

\* "it is not possible for different argument mixtures to emulate each other"
\* (nonce_function_rfc6979): for strings of any content and for words of any
\* width, other arguments give another seed.
THEOREM SeedsDiffer == \A x, y \in AllArgs : keydata(x) = keydata(y) => x = y
BY SeedTellsArgumentsApart

\* So a generator in use was seeded by no other arguments than its own.
THEOREM NoEmulationCorrect == HashSpec => []NoEmulation
<1>1. GivenArgs => NoEmulation
  BY SeedTellsArgumentsApart, ArgsAreArgs DEF GivenArgs, NoEmulation
<1> QED BY <1>1, GivenArgsInductive, PTL DEF HashSpec

===============================================================================
