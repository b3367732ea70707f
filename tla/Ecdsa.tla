--------------------------------- MODULE Ecdsa ---------------------------------
(***************************************************************************)
(* Keys and signatures of libsecp256k1 as its callers see them             *)
(* (secp256k1.c, eckey_impl.h, ecdsa_impl.h, modules/recovery, and ext.h,  *)
(* which the Go package calls).  A 32-byte string is the number it stands  *)
(* for, below Bytes32, of which some are not below the order or the field  *)
(* prime.  A public key object is the stored point, <<0, 0>> being the     *)
(* object filled with zeros.  The rfc6979 generator may give any number.   *)
(***************************************************************************)
EXTENDS Ecmult

CONSTANTS Bytes32,      \* one more than the largest 32-byte number
          Keys,         \* the secret keys callers have, valid or not
          Tweaks,       \* the tweaks they apply
          Msgs,         \* the message hashes they sign
          Draws,        \* what the nonce function gives
          MaxTweaks,    \* bound on the tweaks of a key
          MaxTries      \* bound on the nonces of a signature

ASSUME BytesAssumption ==
  /\ N < FieldP /\ FieldP < Bytes32 /\ Bytes32 <= 2 * N
  /\ Keys \cup Tweaks \cup Msgs \cup Draws \subseteq 0 .. Bytes32 - 1

Number == 0 .. Bytes32 - 1

overflow(b)  == b >= N
set_b32(b)   == IF overflow(b) THEN b - N ELSE b
valid_key(b) == ~overflow(b) /\ set_b32(b) # 0

\* s to the power N - 2 (AddChains).
ScalarInverses ==
  LET pow[s \in 0 .. N - 1, k \in 0 .. N - 2] == IF k = 0 THEN 1 ELSE (s * pow[s, k - 1]) % N
  IN  [s \in 0 .. N - 1 |-> pow[s, N - 2]]

---------------------------------------------------------------------------
(* Keys. *)

NoKey == <<0, 0>>
Zeros == [ok |-> FALSE, key |-> NoKey]

pubkey_loads(pub) == pub[1] # 0       \* else the illegal callback is called
pubkey_save(q)    == ge_to_storage(q)
Saved(q)  == [ok |-> TRUE, key |-> pubkey_save(q)]
SavedJ(p) == IF p.infinity THEN Zeros ELSE Saved(set_gej(p))

seckey_verify(sec) == valid_key(sec)

pubkey_create(ctx, sec) ==
  IF valid_key(sec) THEN Saved(set_gej(ecmult_gen(ctx, set_b32(sec)))) ELSE Zeros

\* An encoding is its size, its first byte and the numbers that follow.
eckey_pubkey_parse(e) ==
  LET xy == ge(set_int(e.x), set_int(e.y), FALSE)
      bad == [ok |-> FALSE, ge |-> xy]
  IN  IF e.size = 33 /\ e.tag \in {2, 3}
      THEN IF e.x < FieldP THEN set_xo_var(set_int(e.x), e.tag = 3) ELSE bad
      ELSE IF e.size = 65 /\ e.tag \in {4, 6, 7} /\ e.x < FieldP /\ e.y < FieldP
              /\ (e.tag \in {6, 7} => (e.y % 2 = 1) = (e.tag = 7))
      THEN [ok |-> ge_is_valid_var(xy), ge |-> xy]
      ELSE bad

SerializeNoParity(q, compressed) ==
  [size |-> IF compressed THEN 33 ELSE 65, tag |-> IF compressed THEN 2 ELSE 4,
   x |-> q.x[1], y |-> IF compressed THEN 0 ELSE q.y[1]]

eckey_pubkey_serialize(q, compressed) ==
  [size |-> IF compressed THEN 33 ELSE 65,
   tag  |-> IF ~compressed THEN 4 ELSE IF q.y[1] % 2 = 1 THEN 3 ELSE 2,
   x    |-> q.x[1],
   y    |-> IF compressed THEN 0 ELSE q.y[1]]

pubkey_parse(e) == LET q == eckey_pubkey_parse(e) IN IF q.ok THEN Saved(q.ge) ELSE Zeros

\* Of an object with x = 0 nothing is written.
pubkey_serialize(pub, compressed) == eckey_pubkey_serialize(ge_from_storage(pub), compressed)

TweakAddKeepsZero(key, tweak) == [ok |-> TRUE, key |-> (key + tweak) % N]

eckey_privkey_tweak_add(key, tweak) ==
  LET k == (key + tweak) % N IN [ok |-> k # 0, key |-> k]
eckey_privkey_tweak_mul(key, tweak) ==
  [ok |-> tweak # 0, key |-> IF tweak = 0 THEN key ELSE (key * tweak) % N]

eckey_pubkey_tweak_add(q, tweak) == SavedJ(ecmult(gej_set_ge(q), 1, tweak))
eckey_pubkey_tweak_mul(q, tweak) ==
  IF tweak = 0 THEN Zeros ELSE Saved(set_gej(ecmult(gej_set_ge(q), tweak, 0)))

\* The key is overwritten with zeros when the call fails.
TweakedSec(r, tweak) == IF ~overflow(tweak) /\ r.ok THEN r ELSE [ok |-> FALSE, key |-> 0]
ec_privkey_tweak_add(key, tweak) ==
  TweakedSec(eckey_privkey_tweak_add(set_b32(key), set_b32(tweak)), tweak)
ec_privkey_tweak_mul(key, tweak) ==
  TweakedSec(eckey_privkey_tweak_mul(set_b32(key), set_b32(tweak)), tweak)

ec_pubkey_tweak_add(key, tweak) ==
  IF overflow(tweak) \/ ~pubkey_loads(key) THEN Zeros
  ELSE eckey_pubkey_tweak_add(ge_from_storage(key), set_b32(tweak))
ec_pubkey_tweak_mul(key, tweak) ==
  IF overflow(tweak) \/ ~pubkey_loads(key) THEN Zeros
  ELSE eckey_pubkey_tweak_mul(ge_from_storage(key), set_b32(tweak))

pubkey_combine(pubs) ==
  LET sum[i \in Nat, r \in Gej] ==
        IF i > Len(pubs) THEN r ELSE sum[i + 1, gej_add_ge(r, ge_from_storage(pubs[i]))]
  IN  SavedJ(sum[1, gej_set_infinity])
---------------------------------------------------------------------------
(* Signatures. *)

NoSig == [r |-> 0, s |-> 0, recid |-> 0]

\* The recovery id says which x, below or above the order, and which y the
\* nonce's point had; the other y when s is negated to be the low one.
SignForgetsFlip(recid, flipped) == recid
Flip(recid, flipped) == IF ~flipped THEN recid ELSE IF recid % 2 = 1 THEN recid - 1 ELSE recid + 1

SignatureAt(r, sec, msg, nonce) ==
  LET sigr == set_b32(r.x[1])
      s    == (ScalarInverses[nonce] * ((sigr * sec + msg) % N)) % N
      recid == (IF overflow(r.x[1]) THEN 2 ELSE 0) + (r.y[1] % 2)
  IN  [ok |-> s # 0,
       sig |-> [r |-> sigr, s |-> IF is_high(s) THEN scalar_negate(s) ELSE s,
                recid |-> Flip(recid, is_high(s))]]

ecdsa_sig_sign(ctx, sec, msg, nonce) ==
  SignatureAt(set_gej(ecmult_gen(ctx, nonce)), sec, msg, nonce)

VerifyFirstOnly(sigr, pr) == gej_eq_x_var(set_int(sigr), pr)

\* The x of pr modulo the order is sigr: x is sigr, or sigr + N if below p.
SameXModN(sigr, pr) ==
  \/ gej_eq_x_var(set_int(sigr), pr)
  \/ sigr < FieldP - N /\ gej_eq_x_var(plus(set_int(sigr), set_int(N)), pr)
FiniteWithX(sigr, pr) == ~pr.infinity /\ SameXModN(sigr, pr)

ecdsa_sig_verify(sigr, sigs, pub, msg) ==
  /\ sigr # 0 /\ sigs # 0
  /\ LET sn == ScalarInverses[sigs]
     IN  FiniteWithX(sigr, ecmult(gej_set_ge(pub), (sn * sigr) % N, (sn * msg) % N))

\* High s is not accepted: a caller normalizes first.
ecdsa_verify(sig, msg, pub) ==
  /\ ~is_high(sig.s) /\ pubkey_loads(pub)
  /\ ecdsa_sig_verify(sig.r, sig.s, ge_from_storage(pub), set_b32(msg))

SecondAlways(sigr) == TRUE

\* sigr + N is the x of a point only if it is below p.
HasSecond(sigr) == sigr < FieldP - N

SavedVar(qj) == IF qj.infinity THEN Zeros ELSE Saved(set_gej_var(const_g, qj))

ecdsa_sig_recover(sigr, sigs, msg, recid) ==
  LET second == recid >= 2
      fx == IF second THEN plus(set_int(sigr), set_int(N)) ELSE set_int(sigr)
      x  == set_xo_var(fx, recid % 2 = 1)
      rn == ScalarInverses[sigr]
  IN  IF sigr = 0 \/ sigs = 0 \/ (second /\ ~HasSecond(sigr)) \/ ~x.ok THEN Zeros
      ELSE SavedVar(ecmult(gej_set_ge(x.ge), (rn * sigs) % N, scalar_negate((rn * msg) % N)))

ecdsa_recover(sig, msg) == ecdsa_sig_recover(sig.r, sig.s, set_b32(msg), sig.recid)

signature_normalize(sig) == [sig EXCEPT !.s = IF is_high(@) THEN scalar_negate(@) ELSE @]

\* Both halves below the order, or the object is filled with zeros.
parse_compact(r, s, recid) ==
  IF overflow(r) \/ overflow(s) THEN [ok |-> FALSE, sig |-> NoSig]
  ELSE [ok |-> TRUE, sig |-> [r |-> set_b32(r), s |-> set_b32(s), recid |-> recid]]

serialize_compact(sig)     == <<sig.r, sig.s, sig.recid>>
signature_convert(recsig)  == [recsig EXCEPT !.recid = 0]

---------------------------------------------------------------------------
(* What the Go package calls. *)

Encoded(pub, compressed) ==
  IF pub.ok THEN [ok |-> TRUE, enc |-> pubkey_serialize(pub.key, compressed)] ELSE [ok |-> FALSE]

ext_ecdsa_recover(r, s, recid, msg) ==
  LET sig == parse_compact(r, s, recid)
  IN  IF sig.ok THEN Encoded(ecdsa_recover(sig.sig, msg), FALSE) ELSE [ok |-> FALSE]

ext_ecdsa_verify(r, s, msg, e) ==
  LET sig == parse_compact(r, s, 0)
      pub == pubkey_parse(e)
  IN  sig.ok /\ pub.ok /\ ecdsa_verify(sig.sig, msg, pub.key)

ext_reencode_pubkey(outlen, e) == Encoded(pubkey_parse(e), outlen = 33)

\* The coordinates are taken as they are given, without the test of the curve.
ext_scalar_mul(point, scalar) ==
  IF ~valid_key(scalar) THEN [ok |-> FALSE, point |-> point]
  ELSE [ok |-> TRUE, point |-> ge_to_storage(set_gej(ecmult_const(ge_from_storage(point), set_b32(scalar))))]
---------------------------------------------------------------------------
(* A program with a context: it makes a key pair, tweaks both halves by the  *)
(* same list, each at its own pace, signs, and reads other signatures.       *)

VARIABLES vctx,              \* contexts with the table for verification
          sec, pub, made,    \* the two halves, and whether they have been made
          plan,              \* the tweaks, <<tweak, "add" or "mul">>
          privAt, pubAt,     \* how many of them each half has had
          privOk, pubOk,     \* no call on that half has failed
          call,              \* the signing call under way
          sig, signer        \* a signature, and <<key, msg>> if the program made it

keyVars == <<sec, pub, made, plan, privAt, pubAt, privOk, pubOk>>
sigVars == <<call, sig, signer>>
apiVars == <<vctx, keyVars, sigVars, genVars>>

NoCall == <<>>

ApiInit ==
  /\ GenInit /\ vctx = {}
  /\ sec = 0 /\ pub = NoKey /\ made = FALSE /\ privAt = 0 /\ pubAt = 0
  /\ privOk = TRUE /\ pubOk = TRUE
  /\ plan \in UNION {[1 .. n -> Tweaks \X {"add", "mul"}] : n \in 0 .. MaxTweaks}
  /\ call = NoCall /\ sig = NoSig /\ signer = <<>>

ContextCreate(c, sign, verify) ==
  /\ ~gen[c].built /\ c \notin vctx
  /\ IF sign THEN GenBuild(c) ELSE UNCHANGED genVars
  /\ vctx' = IF verify THEN vctx \cup {c} ELSE vctx
  /\ UNCHANGED <<keyVars, sigVars>>
ContextClone(dst, src) ==
  /\ GenClone(dst, src) /\ dst \notin vctx
  /\ vctx' = IF src \in vctx THEN vctx \cup {dst} ELSE vctx
  /\ UNCHANGED <<keyVars, sigVars>>
ContextDestroy(c) == GenClear(c) /\ vctx' = vctx \ {c} /\ UNCHANGED <<keyVars, sigVars>>
ContextRandomize(c, seeded) == GenBlind(c, seeded) /\ UNCHANGED <<vctx, keyVars, sigVars>>

\* Called without the table it needs, a function calls the illegal callback and
\* does nothing, which the default one does not survive.
PubBecomes(r) == pub' = r.key /\ pubOk' = r.ok

PubkeyCreate(c, k) ==
  /\ ~made /\ gen[c].built
  /\ sec' = k /\ made' = TRUE
  /\ PubBecomes(pubkey_create(gen[c], k)) /\ privOk' = pubOk'
  /\ UNCHANGED <<vctx, genVars, plan, privAt, pubAt, sigVars>>

PrivTweak ==
  /\ made /\ privOk /\ privAt < Len(plan)
  /\ LET t == plan[privAt + 1]
         r == IF t[2] = "add" THEN ec_privkey_tweak_add(sec, t[1])
                             ELSE ec_privkey_tweak_mul(sec, t[1])
     IN  sec' = r.key /\ privOk' = r.ok
  /\ privAt' = privAt + 1
  /\ UNCHANGED <<vctx, genVars, pub, made, plan, pubAt, pubOk, sigVars>>
PubTweak(c) ==
  /\ c \in vctx /\ made /\ pubOk /\ pubAt < Len(plan)
  /\ LET t == plan[pubAt + 1]
     IN  PubBecomes(IF t[2] = "add" THEN ec_pubkey_tweak_add(pub, t[1])
                                    ELSE ec_pubkey_tweak_mul(pub, t[1]))
  /\ pubAt' = pubAt + 1
  /\ UNCHANGED <<vctx, genVars, sec, made, plan, privAt, privOk, sigVars>>

\* ecdsa_sign and ecdsa_sign_recoverable: the key is checked, then nonces are
\* drawn until one gives a signature or the nonce function fails.
Sign(c, m) ==
  /\ made /\ gen[c].built /\ call = NoCall
  /\ IF valid_key(sec) THEN call' = <<c, m, 0>> /\ UNCHANGED <<sig, signer>>
                       ELSE sig' = NoSig /\ signer' = <<>> /\ UNCHANGED call
  /\ UNCHANGED <<vctx, keyVars, genVars>>
Tried(d, r) ==
  IF ~overflow(d) /\ set_b32(d) # 0 /\ r.ok
  THEN sig' = r.sig /\ signer' = <<set_b32(sec), call[2]>> /\ call' = NoCall
  ELSE call[3] < MaxTries /\ call' = [call EXCEPT ![3] = @ + 1] /\ UNCHANGED <<sig, signer>>
SignTry(d) ==
  /\ call # NoCall
  /\ Tried(d, ecdsa_sig_sign(gen[call[1]], set_b32(sec), set_b32(call[2]), set_b32(d)))
  /\ UNCHANGED <<vctx, keyVars, genVars>>
SignFails ==
  /\ call # NoCall
  /\ call' = NoCall /\ sig' = NoSig /\ signer' = <<>>
  /\ UNCHANGED <<vctx, keyVars, genVars>>

PubkeyParse ==
  /\ call = NoCall /\ ~made
  /\ \E x, y \in Number, tag \in {2, 3, 4} :
       pub' = pubkey_parse([size |-> IF tag = 4 THEN 65 ELSE 33, tag |-> tag, x |-> x, y |-> y]).key
  /\ UNCHANGED <<vctx, genVars, sec, made, plan, privAt, pubAt, privOk, pubOk, sigVars>>
ParseCompact ==
  /\ call = NoCall /\ sig = NoSig
  /\ \E r, s \in Number : sig' = parse_compact(r, s, 0).sig
  /\ UNCHANGED <<vctx, keyVars, genVars, call, signer>>
Normalize ==
  /\ call = NoCall /\ sig' = signature_normalize(sig)
  /\ UNCHANGED <<vctx, keyVars, genVars, call, signer>>
\* One thread: nothing else happens during a call.
ContextNext == call = NoCall /\ \E c \in Ctxs :
  \/ \E sign, verify \in BOOLEAN : ContextCreate(c, sign, verify)
  \/ \E d \in Ctxs : ContextClone(c, d)
  \/ ContextDestroy(c)
  \/ \E seeded \in BOOLEAN : ContextRandomize(c, seeded)
KeyNext == call = NoCall /\ (PrivTweak \/ \E c \in Ctxs : PubTweak(c) \/ \E k \in Keys : PubkeyCreate(c, k))
SignNext == (\E c \in Ctxs, m \in Msgs : Sign(c, m)) \/ (\E d \in Draws : SignTry(d)) \/ SignFails
\* A key or a signature is read; nothing relates the two.
ReadNext == (pub = NoKey /\ (ParseCompact \/ Normalize)) \/ (sig = NoSig /\ PubkeyParse)

---------------------------------------------------------------------------

\* Tweaking the secret key and the public key by the same list keeps them a key
\* pair, and a list that one of them refuses the other refuses at the same
\* place: ec_privkey_tweak_add and _mul against ec_pubkey_tweak_add and _mul,
\* sums that vanish, tweaks of 0 and tweaks above the order included.
KeyPairKept ==
  made /\ privAt = pubAt => /\ privOk <=> pubOk
                            /\ IF privOk THEN pub = Multiple[set_b32(sec)] ELSE pub = NoKey

Encodes(r, q) == r.ok /\ pubkey_parse(r.enc) = [ok |-> TRUE, key |-> q]

\* A signature that sign_recoverable returned has a low s, verifies under the
\* signer's key through every entry point, and recovers to that key and no
\* other, whatever nonces were thrown away before and whatever the context's
\* blinding was.
SignedVerifies ==
  signer # <<>> /\ call = NoCall =>
    LET q == Multiple[signer[1]]
        c == serialize_compact(sig)
    IN  /\ ~is_high(sig.s)
        /\ ecdsa_verify(signature_convert(sig), signer[2], q)
        /\ ext_ecdsa_verify(c[1], c[2], signer[2], pubkey_serialize(q, TRUE))
        /\ Encodes(ext_ecdsa_recover(c[1], c[2], c[3], signer[2]), q)

\* What ecdsa_verify decides with Jacobian coordinates and two comparisons is
\* the equation of ECDSA: r is the x of (m/s)G + (r/s)Q modulo the order.
VerifyExact ==
  signer = <<>> =>
    \A k \in Keys, m \in Msgs :
      seckey_verify(k) =>
        LET point == (ScalarInverses[sig.s] * (set_b32(m) + sig.r * k)) % N
        IN  ecdsa_verify(sig, m, Multiple[k]) <=>
              sig.r # 0 /\ sig.s # 0 /\ 2 * sig.s < N /\ point # 0 /\ Multiple[point][1] % N = sig.r

\* For a signature with low s the keys that the four recovery ids give are the
\* keys under which it verifies.
RecoverExact ==
  signer = <<>> /\ ~is_high(sig.s) =>
    \A m \in Msgs :
      LET found == {ecdsa_recover([sig EXCEPT !.recid = i], m) : i \in 0 .. 3}
      IN  {r.key : r \in {x \in found : x.ok}}
            = {Multiple[k] : k \in {j \in 1 .. N - 1 : ecdsa_verify(sig, m, Multiple[j])}}

\* A public key survives its encodings, and only they are read: a compressed
\* key, an uncompressed one or a hybrid one with the right parity, coordinates
\* below the prime and on the curve (eckey_pubkey_parse, _serialize, reencode).
EncodingsExact ==
  pub # NoKey /\ ~made =>
    /\ \A compressed \in BOOLEAN : pubkey_parse(pubkey_serialize(pub, compressed)).key = pub
    /\ \A tag \in 0 .. 7, size \in {33, 65}, y \in Number, up \in {0, FieldP} :
         LET e == [size |-> size, tag |-> tag, x |-> pub[1] + up, y |-> y]
             r == ext_reencode_pubkey(65, e)
         IN  e.x \in Number =>
               /\ r.ok <=> /\ up = 0
                           /\ \/ size = 33 /\ tag \in {2, 3}
                              \/ size = 65 /\ tag \in {4, 6 + (y % 2)} /\ y \in {pub[2], FieldP - pub[2]}
               /\ r.ok => r.enc.x = pub[1] /\ r.enc.y \in {pub[2], FieldP - pub[2]}
                          /\ (size = 33 => r.enc.y % 2 = tag % 2) /\ (size = 65 => r.enc.y = y)

SameProduct(r, u, q) == r.ok = u.ok /\ (r.ok => r.point = u.key /\ r.point = q)

\* Multiplying a key by a scalar gives the same point with and without
\* branches on the scalar, and adding keys up gives their sum even when part of
\* it vanishes (ext_scalar_mul, ec_pubkey_tweak_mul, ec_pubkey_combine).
PointCalls ==
  pub # NoKey /\ ~made =>
    LET k == CHOOSE j \in 1 .. N - 1 : Multiple[j] = pub
    IN  /\ \A t \in Number :
             SameProduct(ext_scalar_mul(pub, t), ec_pubkey_tweak_mul(pub, t), Multiple[(k * t) % N])
        /\ \A i, j \in {a \in Keys : valid_key(a)} :
             LET r == pubkey_combine(<<pub, Multiple[i], Multiple[j]>>)
                 sum == (k + i + j) % N
             IN  IF sum = 0 THEN r = Zeros ELSE r = [ok |-> TRUE, key |-> Multiple[sum]]
===============================================================================
