------------------------------- MODULE MCEcdsa -------------------------------
(* The library as its callers see it.  One program makes keys and tweaks      *)
(* them, one signs, one reads keys and signatures, one hashes and draws       *)
(* nonces, one encodes signatures; the state of the others stands still.     *)
EXTENDS Ecdsa, Sha256, Der

VARIABLE part

ApiParts == {"keys", "sign", "read"}
NoApi  == /\ GenInit /\ vctx = {} /\ sec = 0 /\ pub = NoKey /\ made = FALSE /\ plan = <<>>
          /\ privAt = 0 /\ pubAt = 0 /\ privOk = TRUE /\ pubOk = TRUE
          /\ call = <<"none">> /\ sig = NoSig /\ signer = <<"none">>
NoHash == kind = "none" /\ hash = 0 /\ mac = 0 /\ rng = 0 /\ given = 0 /\ fed = 0 /\ draws = 0
NoDer  == obj = <<0, 0>> /\ buffer = <<>> /\ edits = 0 /\ last = [call |-> "none"]

CallersInit ==
  /\ GroupInit
  /\ \/ /\ part \in ApiParts /\ (part # "keys" => plan = <<>>)
        /\ ApiInit /\ NoHash /\ NoDer
     \/ part = "hash" /\ NoApi /\ HashInit /\ NoDer
     \/ part = "der" /\ NoApi /\ NoHash /\ DerInit

CallersNext ==
  /\ UNCHANGED <<part, groupVars>>
  /\ \/ /\ UNCHANGED <<hashVars, derVars>>
        /\ \/ part \in {"keys", "sign"} /\ (ContextNext \/ KeyNext)
           \/ part = "sign" /\ SignNext
           \/ part = "read" /\ ReadNext
     \/ part = "hash" /\ HashNext /\ UNCHANGED <<apiVars, derVars>>
     \/ part = "der" /\ DerNext /\ UNCHANGED <<apiVars, hashVars>>

CallersSpec == CallersInit /\ [][CallersNext]_<<part, groupVars, apiVars, hashVars, derVars>>

Sums    == {0}
Factors == {5}
Blinds  == {7}
SomeKeys   == {0, 1, 12, 30, 31}
SomeTweaks == {0, 1, 30, 31}
SomeMsgs   == {0, 3, 33}

Rots == [Sigma0 |-> <<1, 2, 3>>, Sigma1 |-> <<2, 3, 1>>,
         sigma0 |-> <<1, 3, 2>>, sigma1 |-> <<3, 2, 1>>]
Ks   == [t \in 0 .. 63 |-> (t * t * 5 + t * 3 + 7 + (t \div 5)) % 16]
Ivs  == [i \in 0 .. 7 |-> (i * 7 + 6 + (i \div 3)) % 16]
Cuts    == {0, 1, 3, 5, 31, 32, 33}
MacKeys == {0, 16, 31, 32, 33}

\* One byte of an encoding has 5 bits: 16 is 0x80, 31 is 0xFF.
Signatures == {<<1, 15>>, <<16, 0>>, <<999, 512>>}
SomeBytes  == {0, 1, 2, 16, 17, 31}
\* Long forms: the sequence, and an integer of 17 bytes in it; and what does not last.
LongInteger == <<12, 17, 23, 2, 17, 17>> \o [i \in 1 .. 17 |-> 1] \o <<2, 1, 5>>
LongInputs  == {LongInteger, <<12, 18, 1, 0, 2, 1>>, <<12, 19, 1, 0, 0>>, <<12, 17>>}
===============================================================================
