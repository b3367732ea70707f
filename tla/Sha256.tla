-------------------------------- MODULE Sha256 --------------------------------
(***************************************************************************)
(* SHA-256, HMAC and the rfc6979 generator of libsecp256k1 (hash_impl.h),  *)
(* and the nonce function built on them (secp256k1.c).  The shape is that  *)
(* of the code: 64 rounds over 8 registers and 16 words, a block of 16     *)
(* words, a digest of 8, a length of 2.  The widths are parameters: the    *)
(* code has words of 4 bytes of 8 bits.  With them go the rotations, the   *)
(* round constants and the initial registers, which have 32 bits there.    *)
(***************************************************************************)
EXTENDS Integers, Sequences, SequencesExt

CONSTANTS ByteLog,     \* log2 of the bits of a byte (3 in the code)
          WordBytes,   \* bytes of a word (4)
          K,           \* the 64 round constants
          IV,          \* the 8 initial registers
          Rot,         \* the rotations of Sigma0, Sigma1, sigma0 and sigma1
          OPad, IPad,  \* 0x5c and 0x36
          Garbage,     \* what an uninitialised byte holds
          Writes,      \* sizes of the pieces callers write
          KeySizes,    \* sizes of the HMAC keys
          MaxBytes,    \* bound on the bytes of a message
          MaxDraws     \* bound on the nonces drawn from a generator

ByteBits == 2 ^ ByteLog
WordBits == WordBytes * ByteBits
Byte     == 0 .. 2 ^ ByteBits - 1
Word     == 0 .. 2 ^ WordBits - 1
BlkLen   == 16 * WordBytes
OutLen   == 8 * WordBytes
SizeLen  == 2 * WordBytes

ASSUME WidthAssumption ==
  /\ ByteLog \in Nat /\ WordBytes \in Nat \ {0}
  /\ K \in [0 .. 63 -> Word] /\ IV \in [0 .. 7 -> Word]
  /\ {OPad, IPad, Garbage} \subseteq Byte /\ OPad # IPad
  /\ MaxBytes + 2 * BlkLen < 2 ^ (2 * WordBits - ByteLog)

---------------------------------------------------------------------------
(* The macros, tabulated: @@ makes TLC compute a function once and for all. *)

Tabulated(f) == f @@ <<>>

\* The words whose bits are those of f on the bits of x and y.
BitByBit(f) ==
  LET go[x, y \in Word, i \in 0 .. WordBits] ==
        IF i = WordBits THEN 0
        ELSE f[(x \div 2 ^ i) % 2, (y \div 2 ^ i) % 2] * 2 ^ i + go[x, y, i + 1]
  IN  Tabulated([x, y \in Word |-> go[x, y, 0]])

AndOf == BitByBit([a, b \in 0 .. 1 |-> a * b])
OrOf  == BitByBit([a, b \in 0 .. 1 |-> a + b - a * b])
XorOf == BitByBit([a, b \in 0 .. 1 |-> (a + b) % 2])

Ch  == Tabulated([x, y, z \in Word |-> XorOf[z, AndOf[x, XorOf[y, z]]]])
Maj == Tabulated([x, y, z \in Word |-> OrOf[AndOf[x, y], AndOf[z, OrOf[x, y]]]])

ShiftRight(x, n) == x \div 2 ^ n
\* The two shifts have no bit in common: | is +.
Rotated(x, n)    == ShiftRight(x, n) + ((x * 2 ^ (WordBits - n)) % 2 ^ WordBits)

BigSigma(r) ==
  Tabulated([x \in Word |-> XorOf[XorOf[Rotated(x, r[1]), Rotated(x, r[2])], Rotated(x, r[3])]])
SmallSigma(r) ==
  Tabulated([x \in Word |-> XorOf[XorOf[Rotated(x, r[1]), Rotated(x, r[2])], ShiftRight(x, r[3])]])

Sigma0 == BigSigma(Rot.Sigma0)
Sigma1 == BigSigma(Rot.Sigma1)
sigma0 == SmallSigma(Rot.sigma0)
sigma1 == SmallSigma(Rot.sigma1)

Plus(x, y) == (x + y) % 2 ^ WordBits

---------------------------------------------------------------------------
(* One block: the registers and the schedule are updated in place.         *)

\* The result in S of steps 0 to 63, from v0.  Halving keeps TLC's stack low.
InTurn(S, step, v0) ==
  LET go[a, b \in 0 .. 64, v \in S] ==
        IF b = a + 1 THEN step[v, a] ELSE go[(a + b) \div 2, b, go[a, (a + b) \div 2, v]]
  IN  go[0, 64, v0]

\* The register that is the macro's parameter j (0 is a) in round t.
Register(t, j) == (j - t) % 8

Summed(r, t, t1, t2) == [r EXCEPT ![Register(t, 3)] = Plus(@, t1), ![Register(t, 7)] = Plus(t1, t2)]
Round(r, t, w) ==
  LET a(j) == r[Register(t, j)]
  IN  Summed(r, t, (a(7) + Sigma1[a(4)] + Ch[a(4), a(5), a(6)] + K[t] + w) % 2 ^ WordBits,
                   (Sigma0[a(0)] + Maj[a(0), a(1), a(2)]) % 2 ^ WordBits)

Schedule(w, chunk, t) ==
  IF t < 16 THEN [w EXCEPT ![t] = chunk[t]]
  ELSE [w EXCEPT ![t % 16] =
          (@ + sigma1[w[(t + 14) % 16]] + w[(t + 9) % 16] + sigma0[w[(t + 1) % 16]]) % 2 ^ WordBits]

\* Big endian: BE32 on words read from, or written to, memory.
BE32(bytes) ==
  LET upto[i \in 0 .. WordBytes] == IF i = 0 THEN 0 ELSE upto[i - 1] * 2 ^ ByteBits + bytes[i]
  IN  upto[WordBytes]
BytesOf(n)  == [i \in 1 .. WordBytes |-> (n \div 2 ^ (ByteBits * (WordBytes - i))) % 2 ^ ByteBits]
Output(s)   == [i \in 1 .. OutLen |-> BytesOf(s[(i - 1) \div WordBytes])[1 + ((i - 1) % WordBytes)]]
WordsOf(buf) == [t \in 0 .. 15 |-> BE32(SubSeq(buf, t * WordBytes + 1, (t + 1) * WordBytes))]

\* The registers and the schedule, through the 64 rounds.
Rows == [0 .. 7 -> Word] \X [0 .. 15 -> Word]
RoundWith(r, t, w) == <<Round(r, t, w[t % 16]), w>>
Rounds(chunk) == [v \in Rows, t \in 0 .. 63 |-> RoundWith(v[1], t, Schedule(v[2], chunk, t))]
Added(s, r)   == [i \in 0 .. 7 |-> Plus(s[i], r[i])]

transform(s, buf) ==
  Added(s, InTurn(Rows, Rounds(WordsOf(buf)), <<s, [t \in 0 .. 15 |-> 0]>>)[1])

---------------------------------------------------------------------------
(* The object: registers, a buffer of one block, the bytes written.        *)

Buffers == [1 .. BlkLen -> Byte]
Hashes  == [s : [0 .. 7 -> Word], buf : Buffers, bytes : Nat]
sha256_initialize(buf) == [s |-> IV, buf |-> buf, bytes |-> 0]

\* memcpy to the buffer at offset at.
Copied(buf, at, data) ==
  SubSeq(buf, 1, at) \o data \o SubSeq(buf, at + Len(data) + 1, BlkLen)

Filled(h, full) == [h EXCEPT !.s = transform(@, full), !.buf = full]

\* The loop of sha256_write, at bytes into the buffer and with rest to go.
Absorbed[h \in Hashes, at \in Nat, rest \in Seq(Byte)] ==
  IF at + Len(rest) < BlkLen THEN [h EXCEPT !.buf = Copied(@, at, rest)]
  ELSE Absorbed[Filled(h, Copied(h.buf, at, SubSeq(rest, 1, BlkLen - at))), 0,
                SubSeq(rest, BlkLen - at + 1, Len(rest))]

sha256_write(hash, data) ==
  Absorbed[[hash EXCEPT !.bytes = @ + Len(data)], hash.bytes % BlkLen, data]

\* Several writes, one after the other.
Written[hash \in Hashes, pieces \in Seq(Seq(Byte))] ==
  IF pieces = <<>> THEN hash ELSE Written[sha256_write(hash, Head(pieces)), Tail(pieces)]

\* The first byte of the padding has its highest bit set.
pad == [i \in 1 .. BlkLen |-> IF i = 1 THEN 2 ^ (ByteBits - 1) ELSE 0]
SizeDesc(bytes) ==
  BytesOf(bytes \div 2 ^ (WordBits - ByteLog)) \o BytesOf((bytes * ByteBits) % 2 ^ WordBits)

\* Padding that counts the byte after the message twice.
PadLong(bytes) == 1 + ((2 * BlkLen - SizeLen - (bytes % BlkLen)) % BlkLen)

\* 1 + ((119 - (bytes % 64)) % 64)
PadLen(bytes) == 1 + ((2 * BlkLen - 1 - SizeLen - (bytes % BlkLen)) % BlkLen)

Finalized(done) == [out |-> Output(done.s), hash |-> [done EXCEPT !.s = [i \in 0 .. 7 |-> 0]]]

sha256_finalize(hash) ==
  Finalized(Written[hash, <<SubSeq(pad, 1, PadLen(hash.bytes)), SizeDesc(hash.bytes)>>])

---------------------------------------------------------------------------
(* HMAC.  Objects on the stack start with whatever was there.              *)

Stack == [i \in 1 .. BlkLen |-> Garbage]
Sha(data) == sha256_finalize(sha256_write(sha256_initialize(Stack), data)).out
Fill(n, b) == [i \in 1 .. n |-> b]
Masked(bytes, b) == [i \in DOMAIN bytes |-> XorOf[bytes[i], b]]

RKey(key) ==
  IF Len(key) <= BlkLen THEN key \o Fill(BlkLen - Len(key), 0)
  ELSE Sha(key) \o Fill(BlkLen - OutLen, 0)

Begun(block) == sha256_write(sha256_initialize(Stack), block)
Keyed(block) == [outer |-> Begun(block), inner |-> Begun(Masked(block, XorOf[OPad, IPad]))]

hmac_sha256_initialize(key) == Keyed(Masked(RKey(key), OPad))

hmac_sha256_write(hmac, data) == [hmac EXCEPT !.inner = sha256_write(@, data)]

hmac_sha256_finalize(hmac) ==
  sha256_finalize(sha256_write(hmac.outer, sha256_finalize(hmac.inner).out)).out

Macs == [outer : Hashes, inner : Hashes]

\* A key, then writes, then the end.
MacOf[mac \in Macs, pieces \in Seq(Seq(Byte))] ==
  IF pieces = <<>> THEN hmac_sha256_finalize(mac)
  ELSE MacOf[hmac_sha256_write(mac, Head(pieces)), Tail(pieces)]
Hmac(key, pieces) == MacOf[hmac_sha256_initialize(key), pieces]

---------------------------------------------------------------------------
(* The generator of RFC 6979: two strings and a flag.                      *)

Generators == [k : Seq(Byte), v : Seq(Byte), retry : BOOLEAN]

\* 3.2.d and e, or f and g, with sep being zero[] or one[].
WithKey(rng, k) == [rng EXCEPT !.k = k, !.v = Hmac(k, <<rng.v>>)]
Rekey(rng, sep, key) == WithKey(rng, Hmac(rng.k, <<rng.v, <<sep>>, key>>))

rfc6979_initialize(key) ==
  Rekey(Rekey([k |-> Fill(OutLen, 0), v |-> Fill(OutLen, 1), retry |-> FALSE], 0, key), 1, key)

\* A generator that never sees that it is asked again.
GenerateNoRetry(rng) == rng

\* 3.2.h, when the caller did not accept what came before.
Again(rng) == IF rng.retry THEN Rekey(rng, 0, <<>>) ELSE rng

\* The loop: V becomes its HMAC, up to left bytes of it are given.
Generated[r \in Generators, left \in Int, out \in Seq(Byte)] ==
  IF left <= 0 THEN [out |-> out, rng |-> [r EXCEPT !.retry = TRUE]]
  ELSE LET gives(v) == Generated[[r EXCEPT !.v = v], left - OutLen,
                                 out \o SubSeq(v, 1, IF left > OutLen THEN OutLen ELSE left)]
       IN  gives(Hmac(r.k, <<r.v>>))

rfc6979_generate(rng, outlen) == Generated[Again(rng), outlen, <<>>]

rfc6979_finalize(rng) == [k |-> Fill(OutLen, 0), v |-> Fill(OutLen, 0), retry |-> FALSE]

\* The algorithm copied to offset 64 whether or not there is data.
KeydataOverlaps(a) ==
  a.key \o a.msg \o a.algo \o SubSeq(a.data, Len(a.algo) + 1, Len(a.data))

\* data and algo are <<>> where the caller passes NULL.
keydata(a) == a.key \o a.msg \o a.data \o a.algo

\* The draw after n others that are not used.
Drawing[rng \in Generators, n \in Nat] ==
  LET drawn(r) == IF n = 0 THEN r.out ELSE Drawing[r.rng, n - 1]
  IN  drawn(rfc6979_generate(rng, OutLen))

nonce_function_rfc6979(a, counter) == Drawing[rfc6979_initialize(keydata(a)), counter]

---------------------------------------------------------------------------
(* What callers do: write a message in pieces to a digest or to a MAC, or  *)
(* draw from a generator.  The message is one fixed string, cut anywhere.  *)

VARIABLES kind,   \* "sha", "hmac" or "rng"
          hash, mac, rng,
          given,  \* the HMAC key, or the arguments of the nonce function
          fed,    \* how many bytes of the message have been written
          draws   \* what the generator gave

hashVars == <<kind, hash, mac, rng, given, fed, draws>>

Message(n) == [i \in 1 .. n |-> (i * i + (i \div 3)) % 2 ^ ByteBits]
Piece(n)   == SubSeq(Message(fed + n), fed + 1, fed + n)

Args == LET of(n) == {Fill(n, 1), Fill(n, 2)}
        IN  [key : of(OutLen), msg : of(OutLen),
             data : of(OutLen) \cup {<<>>}, algo : {Fill(OutLen \div 2, 2), <<>>}]

HashInit ==
  /\ fed = 0 /\ draws = <<>>
  /\ \/ /\ kind = "sha" /\ hash = sha256_initialize(Stack)
        /\ mac = <<>> /\ rng = <<>> /\ given = <<>>
     \/ /\ kind = "hmac" /\ given \in {Message(n) : n \in KeySizes}
        /\ mac = hmac_sha256_initialize(given) /\ hash = <<>> /\ rng = <<>>
     \/ /\ kind = "rng" /\ given \in Args
        /\ rng = rfc6979_initialize(keydata(given)) /\ hash = <<>> /\ mac = <<>>

Write(n) ==
  /\ kind = "sha" /\ fed + n <= MaxBytes
  /\ hash' = sha256_write(hash, Piece(n))
  /\ fed' = fed + n
  /\ UNCHANGED <<kind, mac, rng, given, draws>>

MacWrite(n) ==
  /\ kind = "hmac" /\ fed + n <= BlkLen
  /\ mac' = hmac_sha256_write(mac, Piece(n))
  /\ fed' = fed + n
  /\ UNCHANGED <<kind, hash, rng, given, draws>>

\* A digest is read, and the object used again (its buffer as it was left).
Reuse ==
  /\ kind = "sha" /\ fed > 0
  /\ hash' = sha256_initialize(sha256_finalize(hash).hash.buf)
  /\ fed' = 0
  /\ UNCHANGED <<kind, mac, rng, given, draws>>

Got(r) == rng' = r.rng /\ draws' = Append(draws, r.out)

Generate(n) ==
  /\ kind = "rng" /\ rng # <<>> /\ Len(draws) < MaxDraws
  /\ Got(rfc6979_generate(rng, n))
  /\ UNCHANGED <<kind, hash, mac, given, fed>>

Finish ==
  /\ kind = "rng" /\ draws # <<>>
  /\ kind' = "wiped" /\ rng' = rfc6979_finalize(rng)
  /\ UNCHANGED <<hash, mac, given, fed, draws>>

HashNext ==
  \/ \E n \in Writes : Write(n) \/ MacWrite(n)
  \/ Reuse
  \/ \E n \in {OutLen, OutLen + 1} : Generate(n)
  \/ Finish

HashSpec == HashInit /\ [][HashNext]_hashVars

---------------------------------------------------------------------------
(* The standards, FIPS 180-4, RFC 2104 and RFC 6979, in their own terms.   *)

\* W_t is element t + 1.
FipsNext(W, t) == (sigma1[W[t - 1]] + W[t - 6] + sigma0[W[t - 14]] + W[t - 15]) % 2 ^ WordBits
FipsSchedule(m) ==
  InTurn(Seq(Word), [W \in Seq(Word), t \in 0 .. 63 |->
                       Append(W, IF t < 16 THEN m[t] ELSE FipsNext(W, t))], <<>>)

\* v is <<a, b, c, d, e, f, g, h>>; in each round they move one place.
FipsMoved(v, t1, t2) == <<Plus(t1, t2), v[1], v[2], v[3], Plus(v[4], t1), v[5], v[6], v[7]>>
FipsRounds(W) ==
  [v \in Seq(Word), t \in 0 .. 63 |->
     FipsMoved(v, (v[8] + Sigma1[v[5]] + Ch[v[5], v[6], v[7]] + K[t] + W[t + 1]) % 2 ^ WordBits,
                  (Sigma0[v[1]] + Maj[v[1], v[2], v[3]]) % 2 ^ WordBits)]
FipsCompress(s, m) ==
  LET added(end) == [i \in 0 .. 7 |-> Plus(s[i], end[i + 1])]
  IN  added(InTurn(Seq(Word), FipsRounds(FipsSchedule(m)), [i \in 1 .. 8 |-> s[i - 1]]))

\* The bytes of a number, most significant first.
BigEndian(n, len) == [i \in 1 .. len |-> (n \div 2 ^ (ByteBits * (len - i))) % 2 ^ ByteBits]

\* The message, a one, the fewest zeros, the length in bits.
FipsPadded(data) ==
  LET blocks == CHOOSE b \in 1 .. 1 + ((Len(data) + SizeLen + 1) \div BlkLen) :
                  /\ b * BlkLen >= Len(data) + 1 + SizeLen
                  /\ (b - 1) * BlkLen < Len(data) + 1 + SizeLen
      zeros  == blocks * BlkLen - Len(data) - 1 - SizeLen
  IN  data \o <<2 ^ (ByteBits - 1)>> \o Fill(zeros, 0) \o BigEndian(Len(data) * ByteBits, SizeLen)

FipsBlocks[s \in [0 .. 7 -> Word], blocks \in Seq(Byte)] ==
  IF blocks = <<>> THEN s
  ELSE FipsBlocks[FipsCompress(s, WordsOf(SubSeq(blocks, 1, BlkLen))),
                  SubSeq(blocks, BlkLen + 1, Len(blocks))]
FipsSha(data) ==
  LET joined(end) == [i \in 1 .. OutLen |->
                        BigEndian(end[(i - 1) \div WordBytes], WordBytes)[1 + ((i - 1) % WordBytes)]]
  IN  joined(FipsBlocks[IV, FipsPadded(data)])

\* H(key xor opad, H(key xor ipad, text)), the key filled up to a block.
RfcFull(key) == [i \in 1 .. BlkLen |-> IF i <= Len(key) THEN key[i] ELSE 0]
RfcTwice[k \in Seq(Byte), text \in Seq(Byte)] ==
  FipsSha(Masked(k, OPad) \o FipsSha(Masked(k, IPad) \o text))
RfcHmac(key, text) == RfcTwice[RfcFull(IF Len(key) > BlkLen THEN FipsSha(key) ELSE key), text]

\* kv is <<K, V>>: K becomes the HMAC of V and the text, then V that of V.
RfcWith(k, v) == <<k, RfcHmac(k, v)>>
RfcRefresh(kv, text) == RfcWith(RfcHmac(kv[1], kv[2] \o text), kv[2])

\* A failed attempt refreshes K and V (3.2.h.3).
RfcAttempts[kv \in Seq(Seq(Byte)), T \in Seq(Byte), sizes \in Seq(Nat)] ==
  LET longer(v) == RfcAttempts[<<kv[1], v>>, T \o v, sizes]
  IN  IF sizes = <<>> THEN <<>>
      ELSE IF Len(T) < Head(sizes) THEN longer(RfcHmac(kv[1], kv[2]))
      ELSE <<SubSeq(T, 1, Head(sizes))>> \o RfcAttempts[RfcRefresh(kv, <<0>>), <<>>, Tail(sizes)]
RfcDraws(key, sizes) ==
  RfcAttempts[RfcRefresh(RfcRefresh(<<Fill(OutLen, 0), Fill(OutLen, 1)>>, <<0>> \o key), <<1>> \o key),
              <<>>, sizes]

---------------------------------------------------------------------------
(* sha256_write cuts its input into blocks by the low bits of a counter,   *)
(* finalize fills the last one or two, and the unrolled rounds rename      *)
(* registers and keep sixteen words of schedule in place: the digest is    *)
(* SHA-256 of the concatenation, however it was cut and whatever the       *)
(* buffer held before, and a MAC is HMAC of it, for keys shorter than, as  *)
(* long as and longer than a block.                                        *)
DigestsExact ==
  /\ kind = "sha" => sha256_finalize(hash).out = FipsSha(Message(fed))
  /\ kind = "hmac" => hmac_sha256_finalize(mac) = RfcHmac(given, Message(fed))

(* The generator gives what RFC 6979 gives: it refreshes K and V between   *)
(* two calls, not between the pieces of one.  A signer that asks for       *)
(* counter c gets draw c + 1 of the sequence.                              *)
DrawsExact ==
  kind = "rng" =>
    /\ draws = RfcDraws(keydata(given), [i \in DOMAIN draws |-> Len(draws[i])])
    /\ (\A i \in DOMAIN draws : Len(draws[i]) = OutLen) =>
         \A i \in DOMAIN draws : nonce_function_rfc6979(given, i - 1) = draws[i]

(* "it is not possible for different argument mixtures to emulate each     *)
(* other" (nonce_function_rfc6979): other arguments seed another generator.*)
NoEmulation == kind = "rng" => \A a \in Args : keydata(a) = keydata(given) => a = given
===============================================================================
