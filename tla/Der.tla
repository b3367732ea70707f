---------------------------------- MODULE Der ----------------------------------
(***************************************************************************)
(* The DER form of a signature in libsecp256k1 (ecdsa_impl.h, and          *)
(* secp256k1_ecdsa_signature_parse_der and _serialize_der of secp256k1.c). *)
(* Half is 0x80, so that a byte is below 2 * Half; a scalar has Bytes      *)
(* bytes (32).  A pointer into the input is an offset; what a function     *)
(* reads through it is recorded, to be compared with the end.              *)
(***************************************************************************)
EXTENDS Integers, Sequences, FiniteSetsExt

CONSTANTS Half,        \* 0x80
          SeqTag,      \* 0x30
          IntTag,      \* 0x02
          Bytes,       \* bytes of a scalar
          SizeT,       \* bytes of a size_t
          IntMax,      \* the largest int
          GroupOrder,  \* scalars are below it
          Given,       \* signatures that callers serialize
          Noise,       \* bytes that get into an encoding
          Wholes,      \* other inputs
          MaxEdits     \* bound on the bytes changed

Base == 2 * Half
Full == Base - 1

\* The number after each of the first bytes.
Horner(bytes) ==
  LET h[k \in 0 .. Len(bytes)] == IF k = 0 THEN 0 ELSE h[k - 1] * Base + bytes[k]
  IN  h
ValueOf(bytes) == Horner(bytes)[Len(bytes)]

\* The number without its last bytes, for each count of them.
Shifts(n, bytes) ==
  LET d[k \in 0 .. bytes] == IF k = 0 THEN n ELSE d[k - 1] \div Base
  IN  d
Fits(n, bytes) == Shifts(n, bytes)[bytes] = 0
IsSize(n) == Fits(n, SizeT) /\ n <= IntMax
get_b32(n) == [i \in 1 .. Bytes |-> Shifts(n, Bytes)[Bytes - i] % Base]

\* A scalar fits into its bytes, the size of an input into a size_t and into an int, and
\* the content of a signature is shorter than 0x80.
ASSUME DerAssumption ==
  /\ {Half, Bytes, SizeT, GroupOrder} \subseteq Nat \ {0} /\ {MaxEdits, IntMax} \subseteq Nat
  /\ {SeqTag, IntTag} \cup Noise \subseteq 0 .. Full
  /\ Fits(GroupOrder - 1, Bytes) /\ 4 + 2 * (Bytes + 1) < Half /\ SizeT + 1 < Half
  /\ Given \subseteq (0 .. GroupOrder - 1) \X (0 .. GroupOrder - 1)
  /\ Wholes \subseteq Seq(0 .. Full)
  /\ \A n \in {Len(w) : w \in Wholes} \cup {Base} : IsSize(n + MaxEdits)

---------------------------------------------------------------------------
(* Reading.  at is the offset of the next byte of sig, seen the highest    *)
(* offset read so far, len is -1 for an error.                             *)

At(sig, at) == IF at < Len(sig) THEN sig[at + 1] ELSE 0
Highest(a, b) == IF a > b THEN a ELSE b
Failed(at, seen) == [len |-> -1, at |-> at, seen |-> seen]

\* The int that a function returns for a size_t: what is too large wraps around.
AsInt(n) == LET low == n % (2 * (IntMax + 1)) IN IF low <= IntMax THEN low ELSE low - 2 * (IntMax + 1)

\* The octets of a long form, from the first.  After each of them the loop tests
\* that the number so far, with the octets that are left, is still inside the
\* input: that is, at most what comes after the octets.
LongForm(sig, first, count) ==
  LET end    == first + count
      ret(j) == ValueOf(SubSeq(sig, first + 1, first + j))
      beyond == {j \in 1 .. count : ret(j) \notin 0 .. Len(sig) - end}
      stop(j) == Failed(first + j - 1, first + j - 1)
  IN  IF beyond # {} THEN stop(Min(beyond))
      ELSE IF ret(count) < Half THEN Failed(end, end - 1)
      ELSE [len |-> AsInt(ret(count)), at |-> end, seen |-> end - 1]

der_read_len(sig, at) ==
  LET b1 == At(sig, at)
      left == b1 - Half
  IN  IF at >= Len(sig) THEN Failed(at, -1)
      ELSE IF b1 = Full THEN Failed(at + 1, at)
      ELSE IF b1 < Half THEN [len |-> b1, at |-> at + 1, seen |-> at]
      ELSE IF b1 = Half \/ left > Len(sig) - (at + 1) THEN Failed(at + 1, at)
      ELSE IF At(sig, at + 1) = 0 \/ left > SizeT THEN Failed(at + 1, at + 1)
      ELSE LongForm(sig, at + 1, left)

\* The padding test without the length test in front of it.
PaddedNoLength(sig, at, len) ==
  [bad  |-> \/ At(sig, at) = 0 /\ At(sig, at + 1) < Half
            \/ At(sig, at) = Full /\ At(sig, at + 1) >= Half,
   seen |-> IF At(sig, at) \in {0, Full} THEN at + 1 ELSE at]

\* A padding test that forgets negative numbers.
PaddedZeroOnly(sig, at, len) ==
  [bad  |-> len > 1 /\ At(sig, at) = 0 /\ At(sig, at + 1) < Half,
   seen |-> IF len > 1 /\ At(sig, at) = 0 THEN at + 1 ELSE at]

\* Excessive 0x00 or 0xFF padding.
Padded(sig, at, len) ==
  [bad  |-> len > 1 /\ \/ At(sig, at) = 0 /\ At(sig, at + 1) < Half
                       \/ At(sig, at) = Full /\ At(sig, at + 1) >= Half,
   seen |-> IF len > 1 /\ At(sig, at) \in {0, Full} THEN at + 1 ELSE at]

NoInteger(seen) == [ok |-> FALSE, r |-> 0, at |-> 0, seen |-> seen]

\* Leading zeros are skipped; a negative number, one too long or one too large is 0.
IntegerAt(sig, at, len) ==
  LET zeros == Max({n \in 0 .. len : \A i \in 1 .. n : At(sig, at + i - 1) = 0})
      left  == len - zeros
      digits == SubSeq(sig, at + zeros + 1, at + len)
      copied == At(sig, at) < Half /\ left <= Bytes
  IN  [ok |-> TRUE, at |-> at + len,
       r |-> IF copied /\ ValueOf(digits) \in 0 .. GroupOrder - 1 THEN ValueOf(digits) ELSE 0,
       seen |-> IF copied THEN at + len - 1 ELSE at + zeros]

\* The length is l, and what was read before it is at most at.
IntegerAfter(sig, at, l) ==
  LET seen  == Highest(at, l.seen)
      p     == Padded(sig, l.at, l.len)
      seen2 == Highest(seen, p.seen)
      n     == IntegerAt(sig, l.at, l.len)
  IN  IF l.len <= 0 \/ l.at + l.len > Len(sig) THEN NoInteger(seen)
      ELSE IF p.bad THEN NoInteger(seen2)
      ELSE [n EXCEPT !.seen = Highest(seen2, @)]

der_parse_integer(sig, at) ==
  IF at = Len(sig) THEN NoInteger(-1)
  ELSE IF At(sig, at) # IntTag THEN NoInteger(at)
  ELSE IntegerAfter(sig, at, der_read_len(sig, at + 1))

NoSignature(seen) == [ok |-> FALSE, r |-> 0, s |-> 0, seen |-> seen]

\* After the second integer, after the first, and after the length of the whole.
AfterS(sig, r, s, seen) ==
  LET seen3 == Highest(seen, s.seen)
  IN  IF ~s.ok \/ s.at # Len(sig) THEN NoSignature(seen3)
      ELSE [ok |-> TRUE, r |-> r.r, s |-> s.r, seen |-> seen3]
AfterR(sig, r, seen) ==
  LET seen2 == Highest(seen, r.seen)
  IN  IF ~r.ok THEN NoSignature(seen2) ELSE AfterS(sig, r, der_parse_integer(sig, r.at), seen2)
AfterLength(sig, l) ==
  LET seen == Highest(0, l.seen)
  IN  IF l.len < 0 \/ l.at + l.len # Len(sig) THEN NoSignature(seen)
      ELSE AfterR(sig, der_parse_integer(sig, l.at), seen)

ecdsa_sig_parse(sig) ==
  IF sig = <<>> THEN NoSignature(-1)
  ELSE IF At(sig, 0) # SeqTag THEN NoSignature(0)
  ELSE AfterLength(sig, der_read_len(sig, 1))

---------------------------------------------------------------------------
(* Writing. *)

\* Numbers whose first byte is 0x80 written as negative ones.
ShortestSigned(n) ==
  LET all  == <<0>> \o get_b32(n)
      skip == Max({k \in 0 .. Bytes : \A i \in 1 .. k : all[i] = 0 /\ all[i + 1] <= Half})
  IN  SubSeq(all, skip + 1, Bytes + 1)

\* The 33 bytes of n without the zeros that are not needed.
Shortest(n) ==
  LET all  == <<0>> \o get_b32(n)
      skip == Max({k \in 0 .. Bytes : \A i \in 1 .. k : all[i] = 0 /\ all[i + 1] < Half})
  IN  SubSeq(all, skip + 1, Bytes + 1)

\* size is the room of the caller, and then what is needed.
ecdsa_sig_serialize(r, s, size) ==
  LET rp == Shortest(r)
      sp == Shortest(s)
      need == 6 + Len(sp) + Len(rp)
  IN  IF size < need THEN [ok |-> FALSE, size |-> need, sig |-> <<>>]
      ELSE [ok |-> TRUE, size |-> need,
            sig |-> <<SeqTag, 4 + Len(sp) + Len(rp), IntTag, Len(rp)>> \o rp
                    \o <<IntTag, Len(sp)>> \o sp]

---------------------------------------------------------------------------
(* A caller's signature object and buffer.  In between, bytes of the       *)
(* buffer may change, get lost or be added.                                *)

VARIABLES obj,     \* the signature: two scalars
          buffer,  \* the encoding
          last,    \* what was done last, and what it returned
          edits

derVars == <<obj, buffer, last, edits>>

DerInit ==
  /\ \/ obj \in Given /\ buffer = <<>>
     \/ obj = <<0, 0>> /\ buffer \in Wholes
  /\ edits = 0
  /\ last = [call |-> "none", ok |-> TRUE, size |-> 0]

SerializeGives(e) ==
  /\ buffer' = IF e.ok THEN e.sig ELSE buffer
  /\ last' = [call |-> "serialize", ok |-> e.ok, size |-> e.size]

signature_serialize_der(size) ==
  /\ last.call # "serialize"
  /\ SerializeGives(ecdsa_sig_serialize(obj[1], obj[2], size))
  /\ UNCHANGED <<obj, edits>>

\* On failure the object is filled with zeros.
ParseGives(p) ==
  /\ obj' = <<p.r, p.s>>
  /\ last' = [call |-> "parse", ok |-> p.ok, size |-> p.seen]

signature_parse_der ==
  /\ last.call # "parse"
  /\ ParseGives(ecdsa_sig_parse(buffer))
  /\ UNCHANGED <<buffer, edits>>

Changed(i, b) == [buffer EXCEPT ![i] = b]
Inserted(i, b) == SubSeq(buffer, 1, i - 1) \o <<b>> \o SubSeq(buffer, i, Len(buffer))
Removed(i) == SubSeq(buffer, 1, i - 1) \o SubSeq(buffer, i + 1, Len(buffer))

Edit ==
  /\ edits < MaxEdits /\ last.call # "parse"
  /\ \E i \in 1 .. Len(buffer) :
       buffer' \in {Changed(i, b) : b \in Noise} \cup {Inserted(i, b) : b \in Noise}
                   \cup {Removed(i)}
  /\ edits' = edits + 1
  /\ last' = [call |-> "none", ok |-> TRUE, size |-> 0]
  /\ UNCHANGED obj

DerNext ==
  \/ Edit
  \/ signature_parse_der
  \/ \E size \in {0, 8, 8 + 2 * Bytes} : signature_serialize_der(size)

DerSpec == DerInit /\ [][DerNext]_derVars

---------------------------------------------------------------------------
(* X.690: the shortest length octets, the shortest two's complement.       *)

LengthOctets(n) ==
  IF n < Half THEN <<n>>
  ELSE LET d == Shifts(n, SizeT)
           k == CHOOSE k \in 1 .. SizeT : d[k] = 0 /\ d[k - 1] # 0
       IN  <<Half + k>> \o [i \in 1 .. k |-> d[k - i] % Base]

Tlv(tag, content) == <<tag>> \o LengthOctets(Len(content)) \o content

IntegerContent(c) ==
  /\ c # <<>>
  /\ Len(c) > 1 => ~(c[1] = 0 /\ c[2] < Half) /\ ~(c[1] = Full /\ c[2] >= Half)

\* Signatures take what is not a scalar for 0.
ScalarOf(c) ==
  LET unsigned == IF c[1] = 0 THEN Tail(c) ELSE c
  IN  IF c[1] < Half /\ Len(unsigned) <= Bytes /\ ValueOf(unsigned) < GroupOrder
      THEN ValueOf(unsigned) ELSE 0

EndsWith(sig, t) ==
  Len(t) <= Len(sig) /\ SubSeq(sig, Len(sig) - Len(t) + 1, Len(sig)) = t

\* The contents an integer at the end of sig can have.
LastContents(sig) ==
  {c \in {SubSeq(sig, i, Len(sig)) : i \in 1 .. Len(sig)} :
     IntegerContent(c) /\ EndsWith(sig, Tlv(IntTag, c))}

Without(sig, c) == SubSeq(sig, 1, Len(sig) - Len(Tlv(IntTag, c)))

\* Every way to read sig as a sequence of two integers.
Readings(sig) ==
  {xy \in UNION {LastContents(Without(sig, y)) \X {y} : y \in LastContents(sig)} :
     sig = Tlv(SeqTag, Tlv(IntTag, xy[1]) \o Tlv(IntTag, xy[2]))}

(* The parser takes exactly the DER encodings of two integers, the         *)
(* shortest ones and with nothing after them, and gives their values.      *)
ParseExact ==
  last.call = "parse" =>
    LET all == Readings(buffer)
    IN  /\ last.ok = (all # {})
        /\ \A xy \in all : obj = <<ScalarOf(xy[1]), ScalarOf(xy[2])>>
        /\ ~last.ok => obj = <<0, 0>>

(* The checks come before the reads they protect: no byte at or after      *)
(* sigend is read, however the input ends.                                 *)
ReadsInside == last.call = "parse" => last.size < Len(buffer)

(* What is written is read back as the same two scalars, and a caller      *)
(* whose buffer is too small is told the size that is enough.              *)
SerializeExact ==
  last.call = "serialize" =>
    LET gives(p) == p.ok /\ <<p.r, p.s>> = obj
        fits(e)  == /\ e.ok /\ Len(e.sig) = last.size /\ (last.ok => buffer = e.sig)
                    /\ gives(ecdsa_sig_parse(e.sig))
    IN  fits(ecdsa_sig_serialize(obj[1], obj[2], last.size))
===============================================================================
