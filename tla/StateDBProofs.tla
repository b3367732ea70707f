--------------------------- MODULE StateDBProofs ---------------------------
(***************************************************************************)
(* What holds of StateDB for every set of addresses, amounts and codes.    *)
(* The structural invariants hold for every sequence of calls, failed      *)
(* commits included.  That RevertToSnapshot restores what the snapshot saw *)
(* holds for the calls that can be undone (Undoable): it follows from a    *)
(* history of the state before each journal entry (Trail).                 *)
(***************************************************************************)
EXTENDS StateDB, SequenceTheorems, TLAPS

\* A well-typed state in which every dirty object is live.
Sound(s) == s \in State /\ s.dirty \subseteq s.live

----------------------------------------------------------------------------
(* The operators on State keep it sound. *)

\* A new object is an object.
LEMMA NewObject == newStateObject \in Object
  BY DEF newStateObject, Object

\* setStateObj.
LEMMA PutSound ==
    ASSUME NEW s, Sound(s), NEW a \in Addrs, NEW o \in Object
    PROVE  Sound(Put(s, a, o)) /\ Put(s, a, o).obj[a] = o /\ a \in Put(s, a, o).live
  BY ZenonT(60) DEF Sound, State, Put

\* An object read from the tree is an object.
LEMMA FromDataObject ==
    ASSUME NEW d \in Account
    PROVE  FromData(d) \in Object
  BY Zenon DEF FromData, Account, newStateObject, Object

\* GetStateObj; an account that exists is live afterwards.
LEMMA LoadSound ==
    ASSUME NEW s, Sound(s), NEW a \in Addrs
    PROVE  Sound(Load(s, a)) /\ (Exists(s, a) => a \in Load(s, a).live)
<1>1. CASE a \in s.live
  BY <1>1 DEF Load
<1>2. CASE a \notin s.live /\ a \in s.cached
  BY <1>2 DEF Load, Sound, State
<1>3. CASE a \notin s.live /\ a \notin s.cached /\ s.tree[a] # None
  <2>1. s.tree[a] \in Account
    BY <1>3 DEF Sound, State
  <2> QED
    BY <1>3, <2>1, FromDataObject, PutSound DEF Load
<1>4. CASE a \notin s.live /\ a \notin s.cached /\ s.tree[a] = None
  BY <1>4 DEF Load, Exists
<1> QED
  BY <1>1, <1>2, <1>3, <1>4

\* The fields of the object of an address have their types.
LEMMA ObjectFields ==
    ASSUME NEW s, Sound(s), NEW a \in Addrs
    PROVE  /\ s.obj[a] \in Object
           /\ s.obj[a].nonce \in Nat /\ s.obj[a].bal \in Int
           /\ s.obj[a].code \in Codes \cup {NoCode} /\ s.obj[a].hash \in Codes \cup {NoCode, Zero}
           /\ s.obj[a].suicided \in BOOLEAN /\ s.obj[a].deleted \in BOOLEAN
<1>1. s.obj[a] \in Object
  BY DEF Sound, State
<1> QED
  BY <1>1 DEF Object

\* The setters of a live object, which mark it dirty.
LEMMA SettersSound ==
    ASSUME NEW s, Sound(s), NEW a \in Addrs, a \in s.live
    PROVE  /\ \A n \in Nat : Sound(SetNonceOf(s, a, n))
           /\ \A v \in Int : Sound(SetBalanceOf(s, a, v))
           /\ \A v \in Int : Sound(AddBalanceOf(s, a, v))
           /\ \A v \in Int : Sound(SubBalanceOf(s, a, v))
           /\ \A c \in Codes \cup {NoCode} : Sound(SetCodeOf(s, a, c))
           /\ \A b \in BOOLEAN, v \in Int : Sound(SetBalanceOf(MarkSuicided(s, a, b), a, v))
<1>0. s.obj[a] \in Object /\ s.obj[a].bal \in Int
  BY ObjectFields
<1>1. \A n \in Nat : Sound(SetNonceOf(s, a, n))
  BY <1>0, ZenonT(60) DEF Sound, State, Object, SetNonceOf
<1>2. \A v \in Int : Sound(SetBalanceOf(s, a, v))
  BY <1>0, ZenonT(60) DEF Sound, State, Object, SetBalanceOf
<1>3. \A v \in Int : Sound(AddBalanceOf(s, a, v)) /\ Sound(SubBalanceOf(s, a, v))
  <2>1. \A v \in Int : s.obj[a].bal + v \in Int /\ s.obj[a].bal - v \in Int
    BY <1>0
  <2> QED
    BY <1>2, <2>1 DEF AddBalanceOf, SubBalanceOf
<1>4. \A c \in Codes \cup {NoCode} : Sound(SetCodeOf(s, a, c))
  BY <1>0, ZenonT(60) DEF Sound, State, Object, SetCodeOf
<1>5. \A b \in BOOLEAN, v \in Int : Sound(SetBalanceOf(MarkSuicided(s, a, b), a, v))
  BY <1>0, ZenonT(60) DEF Sound, State, Object, SetBalanceOf, MarkSuicided
<1> QED
  BY <1>1, <1>2, <1>3, <1>4, <1>5
----------------------------------------------------------------------------
(* The journal entries. *)

\* What the fields of an entry are, by its kind.
LEMMA EntryFields ==
    ASSUME NEW e \in Entry
    PROVE  /\ e.op \in {"log", "create", "reset", "suicide", "balance", "gas", "nonce", "code"}
           /\ e.op = "log" => e.tx \in Txs
           /\ e.op # "log" => e.a \in Addrs
           /\ e.op = "reset" => e.prev \in Object
           /\ e.op = "suicide" => e.prev \in BOOLEAN /\ e.bal \in Int
           /\ e.op \in {"balance", "gas"} => e.amount \in Int
           /\ e.op = "nonce" => e.prev \in Nat
           /\ e.op = "code" => e.prev \in Codes \cup {NoCode}
  BY DEF Entry

\* Undoing an entry, unless it is a log that is not there.
LEMMA UndoSound ==
    ASSUME NEW s, Sound(s), NEW e \in Entry, e.op = "log" => s.logs[e.tx] # 0
    PROVE  Sound(Undo(s, e))
<1>1. CASE e.op = "log"
  <2>1. e.tx \in Txs /\ s.logs \in [Txs -> Nat] /\ s.logs[e.tx] # 0 /\ s.logSize \in Int
    BY <1>1, EntryFields DEF Sound, State
  <2>2. s.logs[e.tx] - 1 \in Nat /\ s.logSize - 1 \in Int
    BY <2>1
  <2> QED
    BY <1>1, <2>1, <2>2, Zenon DEF Undo, Sound, State
<1>2. CASE e.op = "create"
  BY <1>2, EntryFields, Zenon DEF Undo, UndoCreate, Sound, State
<1>3. CASE e.op = "reset"
  BY <1>3, EntryFields, PutSound DEF Undo
<1>4. CASE e.op \in {"suicide", "balance", "gas", "nonce", "code"}
  <2> DEFINE q == Load(s, e.a)
  <2>1. e.a \in Addrs /\ Sound(q)
    BY <1>4, EntryFields, LoadSound
  <2>2. CASE ~Exists(s, e.a)
    BY <1>4, <2>2 DEF Undo
  <2>3. CASE Exists(s, e.a)
    <3>1. e.a \in q.live
      BY <2>1, <2>3, LoadSound
    <3> HIDE DEF q
    <3>2. /\ \A n \in Nat : Sound(SetNonceOf(q, e.a, n))
          /\ \A v \in Int : Sound(AddBalanceOf(q, e.a, v)) /\ Sound(SubBalanceOf(q, e.a, v))
          /\ \A c \in Codes \cup {NoCode} : Sound(SetCodeOf(q, e.a, c))
          /\ \A b \in BOOLEAN, v \in Int : Sound(SetBalanceOf(MarkSuicided(q, e.a, b), e.a, v))
      BY <2>1, <3>1, SettersSound
    <3>3. Undo(s, e) = CASE e.op = "suicide" -> SetBalanceOf(MarkSuicided(q, e.a, e.prev), e.a, e.bal)
                          [] e.op = "balance" -> SubBalanceOf(q, e.a, e.amount)
                          [] e.op = "gas" -> AddBalanceOf(q, e.a, e.amount)
                          [] e.op = "nonce" -> SetNonceOf(q, e.a, e.prev)
                          [] e.op = "code" -> SetCodeOf(q, e.a, e.prev)
      BY <1>4, <2>3 DEF Undo, q
    <3> QED
      BY <1>4, <3>2, <3>3, EntryFields
  <2> QED
    BY <2>2, <2>3
<1> QED
  BY <1>1, <1>2, <1>3, <1>4, EntryFields
\* journal.append never loses a slot of the array.
LEMMA AppendFacts ==
    ASSUME entries \in Seq(Entry), len \in 0..Len(entries), NEW es \in Seq(Entry), JournalAppend(es)
    PROVE  /\ entries' \in Seq(Entry) /\ len' \in 0..Len(entries')
           /\ Len(entries') >= Len(entries)
<1> DEFINE p == SubSeq(entries, 1, len)
           q == SubSeq(entries, len + Len(es) + 1, Len(entries))
<1>1. p \in Seq(Entry) /\ Len(p) = len
  BY SubSeqProperties
<1>2. /\ q \in Seq(Entry)
      /\ Len(q) = IF len + Len(es) + 1 <= Len(entries) THEN Len(entries) - len - Len(es) ELSE 0
  BY SubSeqProperties
<1>3. entries' = (p \o es) \o q /\ len' = len + Len(es)
  BY DEF JournalAppend
<1> HIDE DEF p, q
<1>4. p \o es \in Seq(Entry) /\ Len(p \o es) = len + Len(es)
  BY <1>1, ConcatProperties, Zenon
<1>5. entries' \in Seq(Entry) /\ Len(entries') = len + Len(es) + Len(q)
  BY <1>2, <1>3, <1>4, ConcatProperties, ZenonT(40)
<1>6. Len(es) \in Nat /\ Len(q) \in Nat /\ Len(entries) \in Nat /\ len \in Nat
  BY <1>2
<1>7. Len(entries') \in Nat /\ Len(entries') >= Len(entries)
  <2>1. CASE len + Len(es) + 1 <= Len(entries)
    <3>1. Len(q) = Len(entries) - len - Len(es)
      BY <1>2, <2>1
    <3> QED
      BY <1>5, <1>6, <3>1
  <2>2. CASE ~(len + Len(es) + 1 <= Len(entries))
    BY <1>5, <1>6, <2>2
  <2> QED
    BY <2>1, <2>2
<1>8. len' \in 0..Len(entries')
  BY <1>3, <1>5, <1>6
<1> QED
  BY <1>5, <1>7, <1>8

\* Trim keeps every slot that a revision points to.
LEMMA TrimFacts ==
    ASSUME NEW es \in Seq(Entry), NEW n \in 0..Len(es), NEW revs,
           \A i \in 1..Len(revs) : revs[i].journalIndex <= Len(es)
    PROVE  /\ Trim(es, n, revs) \in Seq(Entry) /\ n <= Len(Trim(es, n, revs))
           /\ \A i \in 1..Len(revs) : revs[i].journalIndex <= Len(Trim(es, n, revs))
<1>1. SubSeq(es, 1, n) \in Seq(Entry) /\ Len(SubSeq(es, 1, n)) = n
  BY SubSeqProperties
<1> QED
  BY <1>1 DEF Trim

\* journal.delete leaves the slots before the deleted one alone.
LEMMA DeleteFacts ==
    ASSUME NEW es \in Seq(Entry), NEW n \in 0..Len(es), NEW k \in 1..n
    PROVE  /\ Delete(es, k, n) \in Seq(Entry) /\ Len(Delete(es, k, n)) = Len(es)
           /\ \A i \in 1..(k - 1) : Delete(es, k, n)[i] = es[i]
  BY DEF Delete
----------------------------------------------------------------------------
(* The inductive invariant. *)

\* Where the two loops over the journal are.
LoopsInside ==
    /\ pc = "revert" => arg < Len(revision) /\ cur <= len
    /\ pc = "refund" => cur >= 1

Inv ==
    /\ TypeOK /\ Sound(st) /\ LoopsInside
    /\ RevisionsStack /\ RevertFindsLive /\ NeverBroken /\ RefundComplete

\* The fields of a revision.
LEMMA RevisionFields ==
    ASSUME TypeOK, NEW i \in 1..Len(revision)
    PROVE  revision[i].id \in Nat /\ revision[i].journalIndex \in Nat
<1>1. revision[i] \in Revision
  BY ElementOfSeq DEF TypeOK
<1> QED
  BY <1>1 DEF Revision

\* What a call that is not a loop over the journal can disturb.
LEMMA ChangeInv ==
    ASSUME Inv, NEW s, Sound(s), NEW es \in Seq(Entry), pc = "idle", Change(s, es)
    PROVE  Inv'
<1> USE DEF Inv
<1>1. entries' \in Seq(Entry) /\ len' \in 0..Len(entries') /\ Len(entries') >= Len(entries)
  BY AppendFacts DEF TypeOK, Change
<1>2. st' = s /\ UNCHANGED <<revision, nextRevisionId, txHash, pc, cur, arg, panicked>>
  BY DEF Change, revVars, loopVars
<1>3. TypeOK'
  BY <1>1, <1>2 DEF TypeOK, Sound
<1>4. Sound(st)'
  BY <1>2
<1>5. RevisionsStack'
  <2>1. Len(entries) \in Nat /\ Len(entries') \in Nat
    BY <1>1 DEF TypeOK
  <2>2. \A i \in 1..Len(revision) : revision[i].journalIndex \in Nat
    BY RevisionFields
  <2> QED
    BY <1>1, <1>2, <2>1, <2>2 DEF RevisionsStack
<1> QED
  BY <1>2, <1>3, <1>4, <1>5 DEF LoopsInside, RevertFindsLive, NeverBroken, RefundComplete

\* A panic that is none of those excluded.
LEMMA PanicInv ==
    ASSUME Inv, NEW w \in {"storage", "log", "commit", "code"}, PanicIn(w)
    PROVE  Inv'
<1> USE DEF Inv, PanicIn, journalVars, revVars, loopVars
<1>1. TypeOK'
  BY DEF TypeOK, Panics
<1>2. Sound(st)' /\ LoopsInside' /\ RevisionsStack' /\ RefundComplete'
  BY DEF LoopsInside, RevisionsStack, RefundComplete
<1>3. RevertFindsLive' /\ NeverBroken'
  BY DEF RevertFindsLive, NeverBroken
<1> QED
  BY <1>1, <1>2, <1>3

\* FindRevision finds the outstanding revision of an id.
LEMMA FindsRevision ==
    ASSUME Inv, NEW id \in 0..(Len(revision) - 1)
    PROVE  FindRevision(id) = id + 1 /\ revision[id + 1].id = id
<1> DEFINE hits == {i \in 1..Len(revision) : revision[i].id >= id}
<1>0. Len(revision) \in Nat
  BY DEF Inv, TypeOK
<1>1. \A i \in 1..Len(revision) : revision[i].id = i - 1
  BY DEF Inv, RevisionsStack
<1>2. id + 1 \in hits /\ \A y \in hits : id + 1 <= y
  BY <1>0, <1>1
<1>3. Min(hits) = id + 1
  <2>1. Min(hits) \in hits /\ \A y \in hits : Min(hits) <= y
    BY <1>2 DEF Min
  <2>2. Min(hits) <= id + 1 /\ id + 1 <= Min(hits)
    BY <1>2, <2>1
  <2>3. Min(hits) \in Int /\ id + 1 \in Int
    BY <1>0, <2>1
  <2> HIDE DEF hits
  <2> QED
    BY <2>2, <2>3
<1> QED
  BY <1>0, <1>1, <1>2, <1>3 DEF FindRevision
----------------------------------------------------------------------------
(* One step per call. *)

\* GetOrNewStateObj; the object is live.
LEMMA GetOrNewSound ==
    ASSUME Sound(st), NEW a \in Addrs
    PROVE  Sound(GetOrNew(st, a)) /\ a \in GetOrNew(st, a).live
  BY LoadSound, PutSound, NewObject DEF GetOrNew

\* The entries a call appends are a sequence of entries.
LEMMA CallEntries ==
    ASSUME NEW a \in Addrs, NEW e \in Entry
    PROVE  /\ CreateEntry(a) \in Seq(Entry) /\ <<e>> \in Seq(Entry)
           /\ NewEntries(st, a) \o <<e>> \in Seq(Entry)
<1>1. [op |-> "create", a |-> a] \in Entry
  BY DEF Entry
<1>2. CreateEntry(a) \in Seq(Entry) /\ <<e>> \in Seq(Entry)
  BY <1>1 DEF CreateEntry
<1>3. NewEntries(st, a) \in Seq(Entry)
  BY <1>2 DEF NewEntries
<1> QED
  BY <1>2, <1>3, ConcatProperties

\* CreateAccount preserves the invariant.
LEMMA CreateAccountInv ==
    ASSUME Inv, NEW a \in Addrs, CreateAccount(a)
    PROVE  Inv'
<1> DEFINE s == Load(st, a)
           prev == s.obj[a]
           e == [op |-> "reset", a |-> a, prev |-> prev]
<1>1. Sound(s) /\ prev \in Object /\ prev.bal \in Int /\ Sound(st) /\ pc = "idle"
  BY LoadSound, ObjectFields DEF Inv, CreateAccount, Idle
<1>2. CASE Exists(st, a)
  <2> DEFINE r == Put(s, a, newStateObject)
  <2>1. Sound(r) /\ a \in r.live
    BY <1>1, PutSound, NewObject
  <2>2. Sound(SetBalanceOf(r, a, prev.bal))
    BY <1>1, <2>1, SettersSound
  <2>3. e \in Entry
    BY <1>1 DEF Entry
  <2>4. <<e>> \in Seq(Entry)
    BY <2>3
  <2>5. Change(SetBalanceOf(r, a, prev.bal), <<e>>)
    BY <1>2 DEF CreateAccount
  <2> QED
    BY <1>1, <2>2, <2>4, <2>5, ChangeInv, Zenon
<1>3. CASE ~Exists(st, a)
  <2>1. Sound(Put(st, a, newStateObject))
    BY <1>1, PutSound, NewObject
  <2>2. [op |-> "create", a |-> a] \in Entry
    BY DEF Entry
  <2>3. CreateEntry(a) \in Seq(Entry)
    BY <2>2 DEF CreateEntry
  <2>4. Change(Put(st, a, newStateObject), CreateEntry(a))
    BY <1>3 DEF CreateAccount
  <2> QED
    BY <1>1, <2>1, <2>3, <2>4, ChangeInv
<1> QED
  BY <1>2, <1>3

\* SetNonce preserves the invariant.
LEMMA SetNonceInv ==
    ASSUME Inv, NEW a \in Addrs, NEW n \in Nonces, SetNonce(a, n)
    PROVE  Inv'
<1> DEFINE s == GetOrNew(st, a)
           e == [op |-> "nonce", a |-> a, prev |-> s.obj[a].nonce]
<1>1. Sound(s) /\ a \in s.live /\ pc = "idle" /\ n \in Nat
  BY GetOrNewSound, StateAssumption DEF Inv, SetNonce, Idle
<1>2. s.obj[a].nonce \in Nat
  BY <1>1, ObjectFields
<1>3. Sound(SetNonceOf(s, a, n))
  BY <1>1, SettersSound
<1>4. e \in Entry
  BY <1>2 DEF Entry
<1>5. NewEntries(st, a) \o <<e>> \in Seq(Entry)
  BY <1>4, CallEntries
<1>6. Change(SetNonceOf(s, a, n), NewEntries(st, a) \o <<e>>)
  BY DEF SetNonce
<1> QED
  BY <1>1, <1>3, <1>5, <1>6, ChangeInv, Zenon

\* AddBalance preserves the invariant.
LEMMA AddBalanceInv ==
    ASSUME Inv, NEW a \in Addrs, NEW v \in Amounts, AddBalance(a, v)
    PROVE  Inv'
<1> DEFINE s == GetOrNew(st, a)
           e == [op |-> "balance", a |-> a, amount |-> v]
<1>1. Sound(s) /\ a \in s.live /\ pc = "idle" /\ v \in Int
  BY GetOrNewSound, StateAssumption DEF Inv, AddBalance, Idle
<1>2. Sound(AddBalanceOf(s, a, v))
  BY <1>1, SettersSound
<1>3. e \in Entry
  BY <1>1 DEF Entry
<1>4. NewEntries(st, a) \o <<e>> \in Seq(Entry)
  BY <1>3, CallEntries
<1>5. Change(AddBalanceOf(s, a, v), NewEntries(st, a) \o <<e>>)
  BY DEF AddBalance
<1> QED
  BY <1>1, <1>2, <1>4, <1>5, ChangeInv, Zenon

\* SubBalance preserves the invariant.
LEMMA SubBalanceInv ==
    ASSUME Inv, NEW a \in Addrs, NEW v \in Amounts, SubBalance(a, v)
    PROVE  Inv'
<1> DEFINE s == GetOrNew(st, a)
           e == [op |-> "balance", a |-> a, amount |-> -v]
<1>1. Sound(s) /\ a \in s.live /\ pc = "idle" /\ -v \in Int
  BY GetOrNewSound, StateAssumption DEF Inv, SubBalance, Idle
<1>2. Sound(SubBalanceOf(s, a, -v))
  BY <1>1, SettersSound
<1>3. e \in Entry
  BY <1>1 DEF Entry
<1>4. NewEntries(st, a) \o <<e>> \in Seq(Entry)
  BY <1>3, CallEntries
<1>5. Change(SubBalanceOf(s, a, -v), NewEntries(st, a) \o <<e>>)
  BY DEF SubBalance
<1> QED
  BY <1>1, <1>2, <1>4, <1>5, ChangeInv, Zenon
\* ChargeGas preserves the invariant.
LEMMA ChargeGasInv ==
    ASSUME Inv, NEW a \in Addrs, NEW v \in Amounts, ChargeGas(a, v)
    PROVE  Inv'
<1> DEFINE s == Load(st, a)
           e == [op |-> "gas", a |-> a, amount |-> v]
<1>1. Sound(s) /\ a \in s.live /\ pc = "idle" /\ v \in Int
  BY LoadSound, StateAssumption DEF Inv, ChargeGas, Idle
<1>2. Sound(SubBalanceOf(s, a, v))
  BY <1>1, SettersSound
<1>3. e \in Entry
  BY <1>1 DEF Entry
<1>4. <<e>> \in Seq(Entry)
  BY <1>3
<1>5. Change(SubBalanceOf(s, a, v), <<e>>)
  BY DEF ChargeGas
<1> QED
  BY <1>1, <1>2, <1>4, <1>5, ChangeInv, Zenon

\* SetCode preserves the invariant.
LEMMA SetCodeInv ==
    ASSUME Inv, NEW a \in Addrs, NEW c \in Codes, SetCode(a, c)
    PROVE  Inv'
<1> DEFINE s == GetOrNew(st, a)
           e == [op |-> "code", a |-> a, prev |-> s.obj[a].code]
<1>1. Sound(s) /\ a \in s.live /\ pc = "idle"
  BY GetOrNewSound DEF Inv, SetCode, Idle
<1>2. s.obj[a].code \in Codes \cup {NoCode}
  BY <1>1, ObjectFields
<1>3. Sound(SetCodeOf(s, a, c))
  BY <1>1, SettersSound
<1>4. e \in Entry
  BY <1>2 DEF Entry
<1>5. NewEntries(st, a) \o <<e>> \in Seq(Entry)
  BY <1>4, CallEntries
<1>6. Change(SetCodeOf(s, a, c), NewEntries(st, a) \o <<e>>)
  BY DEF SetCode
<1> QED
  BY <1>1, <1>3, <1>5, <1>6, ChangeInv, Zenon

\* Suicide preserves the invariant.
LEMMA SuicideInv ==
    ASSUME Inv, NEW a \in Addrs, Suicide(a)
    PROVE  Inv'
<1> DEFINE s == Load(st, a)
           e == [op |-> "suicide", a |-> a, prev |-> s.obj[a].suicided, bal |-> s.obj[a].bal]
           r == SetBalanceOf(MarkSuicided(s, a, TRUE), a, 0)
<1>1. Sound(s) /\ a \in s.live /\ pc = "idle"
  BY LoadSound DEF Inv, Suicide, Idle
<1>2. s.obj[a].suicided \in BOOLEAN /\ s.obj[a].bal \in Int
  BY <1>1, ObjectFields
<1>3. Sound(r)
  <2>1. \A b \in BOOLEAN, v \in Int : Sound(SetBalanceOf(MarkSuicided(s, a, b), a, v))
    BY <1>1, SettersSound
  <2>2. TRUE \in BOOLEAN /\ 0 \in Int
    OBVIOUS
  <2> QED
    BY <2>1, <2>2, Zenon
<1>4. e \in Entry
  BY <1>2 DEF Entry
<1>5. <<e>> \in Seq(Entry)
  BY <1>4
<1>6. Change(r, <<e>>)
  BY ZenonT(60) DEF Suicide
<1> QED
  BY <1>1, <1>3, <1>5, <1>6, ChangeInv, ZenonT(40)

\* AddLog preserves the invariant.
LEMMA AddLogInv ==
    ASSUME Inv, AddLog
    PROVE  Inv'
<1> DEFINE r == [st EXCEPT !.logs[txHash] = @ + 1, !.logSize = @ + 1]
           e == [op |-> "log", tx |-> txHash]
<1>1. pc = "idle" /\ txHash \in Txs /\ Sound(st)
  BY DEF Inv, AddLog, Idle, TypeOK
<1>2. st.logs \in [Txs -> Nat] /\ st.logs[txHash] + 1 \in Nat /\ st.logSize + 1 \in Int
  BY <1>1 DEF Sound, State
<1>3. Sound(r)
  BY <1>1, <1>2, Zenon DEF Sound, State
<1>4. e \in Entry
  BY <1>1 DEF Entry
<1>5. <<e>> \in Seq(Entry)
  BY <1>4
<1>6. Change(r, <<e>>)
  BY DEF AddLog
<1> QED
  BY <1>1, <1>3, <1>5, <1>6, ChangeInv, Zenon

\* Get preserves the invariant.
LEMMA GetInv ==
    ASSUME Inv, NEW a \in Addrs, Get(a)
    PROVE  Inv'
<1>1. pc = "idle" /\ Sound(Load(st, a)) /\ <<>> \in Seq(Entry)
  BY LoadSound DEF Inv, Get, Idle
<1> QED
  BY <1>1, ChangeInv, Zenon DEF Get

\* IntermediateRoot preserves the invariant.
LEMMA IntermediateRootInv ==
    ASSUME Inv, NEW D \in SUBSET Addrs, IntermediateRoot(D)
    PROVE  Inv'
<1>1. pc = "idle" /\ Sound(st) /\ <<>> \in Seq(Entry) /\ st.dirty \subseteq st.live
  BY DEF Inv, IntermediateRoot, Idle, Sound
<1>2. Flushed(st, D) \in [Addrs -> Account \cup {None}]
  <2>1. \A a \in Addrs : Data(st.obj[a]) \in Account
    BY <1>1, ObjectFields DEF Data, Account
  <2>2. \A a \in Addrs : st.tree[a] \in Account \cup {None}
    BY <1>1 DEF Sound, State
  <2> QED
    BY <2>1, <2>2 DEF Flushed
<1>3. Sound([st EXCEPT !.tree = Flushed(st, D)])
  BY <1>1, <1>2 DEF Sound, State
<1>4. Change([st EXCEPT !.tree = Flushed(st, D)], <<>>)
  BY <1>1 DEF IntermediateRoot
<1> QED
  BY <1>1, <1>3, <1>4, ChangeInv, Zenon

\* Prepare preserves the invariant.
LEMMA PrepareInv ==
    ASSUME Inv, NEW t \in Txs, Prepare(t)
    PROVE  Inv'
<1> USE DEF Inv, Prepare, journalVars, revVars, loopVars
<1>1. TypeOK'
  BY DEF TypeOK
<1> QED
  BY <1>1 DEF LoopsInside, RevisionsStack, RevertFindsLive, NeverBroken, RefundComplete
\* Snapshot preserves the invariant.
LEMMA SnapshotInv ==
    ASSUME Inv, Snapshot
    PROVE  Inv'
<1> USE DEF Inv, Snapshot
<1> DEFINE r == [id |-> nextRevisionId, journalIndex |-> len]
<1>1. UNCHANGED <<st, entries, len, txHash, pc, cur, arg, panicked>>
  BY DEF journalVars, loopVars
<1>2. pc = "idle" /\ panicked = None
  BY DEF Idle
<1>3. r \in Revision /\ revision \in Seq(Revision) /\ len <= Len(entries) /\ nextRevisionId = Len(revision)
  BY DEF Revision, TypeOK, RevisionsStack
<1>4. /\ revision' = Append(revision, r) /\ revision' \in Seq(Revision)
      /\ Len(revision') = Len(revision) + 1
      /\ \A i \in 1..Len(revision) : revision'[i] = revision[i]
      /\ revision'[Len(revision) + 1] = r
  BY <1>3, AppendProperties
<1>5. TypeOK'
  BY <1>1, <1>4, SMTT(40) DEF TypeOK
<1>6. RevisionsStack'
  <2>1. nextRevisionId' = Len(revision')
    BY <1>3, <1>4
  <2>2. Len(revision) \in Nat
    BY <1>3
  <2>3. ASSUME NEW i \in 1..Len(revision')
        PROVE  revision'[i].id = i - 1 /\ revision'[i].journalIndex <= Len(entries')
    <3>1. CASE i \in 1..Len(revision)
      BY <1>1, <1>4, <3>1 DEF RevisionsStack
    <3>2. CASE i = Len(revision) + 1
      BY <1>1, <1>3, <1>4, <2>2, <3>2
    <3> QED
      BY <1>4, <2>2, <3>1, <3>2
  <2> QED
    BY <2>1, <2>3 DEF RevisionsStack
<1>7. RevertFindsLive' /\ NeverBroken'
  BY <1>1, <1>2, StateAssumption DEF RevertFindsLive, NeverBroken, Panics
<1>8. LoopsInside' /\ RefundComplete'
  BY <1>1, <1>2 DEF LoopsInside, RefundComplete
<1> QED
  BY <1>1, <1>5, <1>6, <1>7, <1>8

\* RevertToSnapshot preserves the invariant.
LEMMA RevertToSnapshotInv ==
    ASSUME Inv, NEW id \in 0..MaxRevs, RevertToSnapshot(id)
    PROVE  Inv'
<1> USE DEF Inv
<1>1. UNCHANGED <<st, entries, len, revision, nextRevisionId, txHash>> /\ pc = "idle" /\ panicked = None
  BY DEF RevertToSnapshot, Idle, journalVars, revVars
<1>2. id \in Nat /\ arg' = id /\ len \in Nat /\ Len(revision) \in Nat /\ nextRevisionId = Len(revision)
  BY StateAssumption DEF RevertToSnapshot, TypeOK, RevisionsStack
<1>3. CASE revision = <<>> \/ revision[FindRevision(id)].id # id
  <2>1. panicked' = "revert" /\ UNCHANGED <<pc, cur>>
    BY <1>3 DEF RevertToSnapshot
  <2>2. id \notin 0..(Len(revision) - 1)
    BY <1>2, <1>3, FindsRevision
  <2>3. TypeOK'
    BY <1>1, <1>2, <2>1 DEF TypeOK, Panics
  <2> QED
    BY <1>1, <1>2, <2>1, <2>2, <2>3 DEF LoopsInside, RevisionsStack, RevertFindsLive, NeverBroken, RefundComplete
<1>4. CASE ~(revision = <<>> \/ revision[FindRevision(id)].id # id)
  <2>1. pc' = "revert" /\ cur' = len /\ UNCHANGED panicked
    BY <1>4 DEF RevertToSnapshot
  <2>2. id < Len(revision)
    <3> DEFINE hits == {i \in 1..Len(revision) : revision[i].id >= id}
    <3>0. 1 \in 1..Len(revision)
      BY <1>2, <1>4 DEF TypeOK
    <3>1. CASE hits = {}
      BY <1>2, <1>4, <3>0, <3>1 DEF FindRevision, RevisionsStack
    <3>2. CASE hits # {}
      <4>1. PICK i \in hits : TRUE
        BY <3>2
      <4> QED
        BY <1>2, <4>1 DEF RevisionsStack
    <3> QED
      BY <3>1, <3>2
  <2>3. TypeOK'
    BY <1>1, <1>2, <2>1 DEF TypeOK
  <2> QED
    BY <1>1, <1>2, <2>1, <2>2, <2>3, StateAssumption
    DEF LoopsInside, RevisionsStack, RevertFindsLive, NeverBroken, RefundComplete, Panics
<1> QED
  BY <1>3, <1>4, SMTT(40)
\* The revision a revert that is running goes back to.
LEMMA RevertTarget ==
    ASSUME Inv, pc = "revert"
    PROVE  /\ arg \in 0..(Len(revision) - 1) /\ Len(revision) \in Nat
           /\ revision[FindRevision(arg)].journalIndex \in 0..Len(entries)
<1>1. arg \in 0..(Len(revision) - 1) /\ Len(revision) \in Nat /\ Len(entries) \in Nat
  BY DEF Inv, LoopsInside, TypeOK
<1>2. FindRevision(arg) = arg + 1 /\ arg + 1 \in 1..Len(revision)
  BY <1>1, FindsRevision
<1>3. revision[arg + 1].journalIndex \in Nat
  BY <1>2, RevisionFields DEF Inv
<1>4. revision[arg + 1].journalIndex <= Len(entries)
  BY <1>2 DEF Inv, RevisionsStack
<1> QED
  BY <1>1, <1>2, <1>3, <1>4

\* RevertStep preserves the invariant.
LEMMA RevertStepInv ==
    ASSUME Inv, RevertStep
    PROVE  Inv'
<1>1. CASE NoLogs(entries[cur])
  BY <1>1, PanicInv DEF RevertStep
<1>2. CASE ~NoLogs(entries[cur])
  <2> USE DEF Inv
  <2>1. /\ st' = Undo(st, entries[cur]) /\ cur' = cur - 1 /\ pc = "revert" /\ panicked = None
        /\ UNCHANGED <<entries, len, revision, nextRevisionId, txHash, pc, arg, panicked>>
    BY <1>2, SMTT(40) DEF RevertStep, journalVars, revVars
  <2>2. cur \in 1..len /\ len \in Nat /\ entries \in Seq(Entry) /\ len <= Len(entries)
    <3>1. cur > revision[FindRevision(arg)].journalIndex
      BY DEF RevertStep
    <3>2. revision[FindRevision(arg)].journalIndex \in Nat
      BY <2>1, RevertTarget
    <3> QED
      BY <2>1, <3>1, <3>2 DEF TypeOK, LoopsInside
  <2>3. entries[cur] \in Entry
    BY <2>2, ElementOfSeq
  <2>4. Sound(st')
    BY <1>2, <2>1, <2>3, UndoSound DEF NoLogs
  <2>5. TypeOK'
    BY <2>1, <2>2, <2>4 DEF TypeOK, Sound
  <2> QED
    BY <2>1, <2>2, <2>4, <2>5
    DEF LoopsInside, RevisionsStack, RevertFindsLive, NeverBroken, RefundComplete
<1> QED
  BY <1>1, <1>2

\* RevertDone preserves the invariant.
LEMMA RevertDoneInv ==
    ASSUME Inv, RevertDone
    PROVE  Inv'
<1> DEFINE n == revision[FindRevision(arg)].journalIndex
<1>1. pc = "revert" /\ panicked = None
  BY DEF RevertDone
<1>2. arg \in 0..(Len(revision) - 1) /\ Len(revision) \in Nat /\ n \in 0..Len(entries)
  BY <1>1, RevertTarget
<1>3. entries \in Seq(Entry) /\ revision \in Seq(Revision) /\ Len(entries) \in Nat
  BY DEF Inv, TypeOK
<1>4. /\ len' = n /\ revision' = SubSeq(revision, 1, arg) /\ entries' = Trim(entries, n, revision')
      /\ nextRevisionId' = arg /\ pc' = "idle" /\ cur' = 0 /\ arg' = 0
      /\ UNCHANGED <<st, txHash, panicked>>
  BY <1>2, <1>3 DEF RevertDone
<1> HIDE DEF n
<1>5. /\ revision' \in Seq(Revision) /\ Len(revision') = arg
      /\ \A i \in 1..Len(revision') : revision'[i] = revision[i]
  BY <1>2, <1>3, <1>4, SubSeqProperties
<1>6. \A i \in 1..Len(revision') : revision'[i].id = i - 1 /\ revision'[i].journalIndex <= Len(entries)
  BY <1>2, <1>5 DEF Inv, RevisionsStack
<1>7. /\ entries' \in Seq(Entry) /\ n <= Len(entries')
      /\ \A i \in 1..Len(revision') : revision'[i].journalIndex <= Len(entries')
  BY <1>2, <1>3, <1>4, <1>6, TrimFacts, ZenonT(40)
<1>8. TypeOK'
  BY <1>2, <1>4, <1>5, <1>7 DEF Inv, TypeOK
<1>9. RevisionsStack'
  BY <1>4, <1>5, <1>6, <1>7 DEF RevisionsStack
<1> QED
  BY <1>1, <1>4, <1>8, <1>9, StateAssumption, SMTT(40)
  DEF Inv, LoopsInside, RevertFindsLive, NeverBroken, RefundComplete, Panics

\* CommitStart preserves the invariant.
LEMMA CommitStartInv ==
    ASSUME Inv, CommitStart
    PROVE  Inv'
<1> USE DEF Inv, CommitStart, Idle, journalVars, revVars
<1>1. TypeOK'
  BY DEF TypeOK
<1> QED
  BY <1>1, StateAssumption
  DEF LoopsInside, RevisionsStack, RevertFindsLive, NeverBroken, RefundComplete, Panics

\* RefundStep preserves the invariant.
LEMMA RefundStepInv ==
    ASSUME Inv, RefundStep
    PROVE  Inv'
<1> USE DEF Inv
<1>1. /\ pc = "refund" /\ panicked = None /\ cur <= len /\ cur >= 1
      /\ UNCHANGED <<revision, nextRevisionId, txHash, pc, arg, panicked>>
  BY DEF RefundStep, LoopsInside, revVars
<1>2. cur \in 1..len /\ len \in 0..Len(entries) /\ entries \in Seq(Entry) /\ Len(entries) \in Nat
  BY <1>1, SMTT(40) DEF TypeOK
<1>3. CASE entries[cur].op = "gas"
  <2>1. st' = Undo(st, entries[cur]) /\ entries' = Delete(entries, cur, len) /\ len' = len - 1 /\ cur' = cur
    BY <1>3 DEF RefundStep
  <2>2. entries[cur] \in Entry
    BY <1>2, ElementOfSeq
  <2>3. Sound(st')
    BY <1>3, <2>1, <2>2, UndoSound
  <2>4. /\ entries' \in Seq(Entry) /\ Len(entries') = Len(entries)
        /\ \A i \in 1..(cur - 1) : entries'[i] = entries[i]
    BY <1>2, <2>1, DeleteFacts, SMTT(40)
  <2>5. TypeOK'
    BY <1>1, <1>2, <2>1, <2>3, <2>4, SMTT(40) DEF TypeOK, Sound
  <2>6. RefundComplete'
    BY <1>1, <1>2, <2>1, <2>4 DEF RefundComplete
  <2> QED
    BY <1>1, <2>1, <2>3, <2>4, <2>5, <2>6, SMTT(40) DEF LoopsInside, RevisionsStack, RevertFindsLive, NeverBroken
<1>4. CASE entries[cur].op # "gas"
  <2>1. cur' = cur + 1 /\ UNCHANGED <<st, entries, len>>
    BY <1>4 DEF RefundStep, journalVars
  <2>2. TypeOK'
    BY <1>1, <2>1 DEF TypeOK
  <2>3. RefundComplete'
    BY <1>1, <1>2, <1>4, <2>1 DEF RefundComplete
  <2> QED
    BY <1>1, <1>2, <2>1, <2>2, <2>3, SMTT(40) DEF LoopsInside, RevisionsStack, RevertFindsLive, NeverBroken
<1> QED
  BY <1>3, <1>4
\* The loop of Commit.
LEMMA DeletedSound ==
    ASSUME Sound(st), NEW D
    PROVE  Sound(Deleted(D))
<1>1. \A a \in Addrs : st.obj[a] \in Object /\ [st.obj[a] EXCEPT !.deleted = TRUE] \in Object
  BY ObjectFields, ZenonT(40) DEF Object
<1>2. \A a \in Addrs : (IF a \in D THEN None ELSE st.tree[a]) \in Account \cup {None}
  BY DEF Sound, State
<1> QED
  BY <1>1, <1>2, ZenonT(60) DEF Deleted, Sound, State

\* reset.
LEMMA AfterResetSound ==
    ASSUME Sound(st), NEW E
    PROVE  Sound(AfterReset(E))
<1>1. Sound(Deleted(Doomed))
  BY DeletedSound
<1>2. \A a \in Addrs : Deleted(Doomed).obj[a] \in Object
  BY <1>1, ObjectFields
<1> QED
  BY <1>1, <1>2, NewObject, ZenonT(60) DEF AfterReset, Sound, State

\* CommitFails preserves the invariant.
LEMMA CommitFailsInv ==
    ASSUME Inv, NEW D, CommitFails(D)
    PROVE  Inv'
<1> USE DEF Inv
<1>1. /\ panicked = None /\ st' = Deleted(D) /\ entries' = Trim(entries, len, revision)
      /\ pc' = "idle" /\ cur' = 0
      /\ UNCHANGED <<len, revision, nextRevisionId, txHash, arg, panicked>>
  BY DEF CommitFails, Committing, revVars
<1>2. Sound(st')
  BY <1>1, DeletedSound
<1>3. \A i \in 1..Len(revision) : revision[i].journalIndex <= Len(entries)
  BY DEF RevisionsStack
<1>4. /\ entries' \in Seq(Entry) /\ len <= Len(entries')
      /\ \A i \in 1..Len(revision) : revision[i].journalIndex <= Len(entries')
  BY <1>1, <1>3, TrimFacts, SMTT(40) DEF TypeOK
<1>5. TypeOK'
  BY <1>1, <1>2, <1>4, SMTT(40) DEF TypeOK, Sound
<1>6. RevisionsStack'
  BY <1>1, <1>4 DEF RevisionsStack
<1> QED
  BY <1>1, <1>2, <1>5, <1>6, StateAssumption
  DEF LoopsInside, RevertFindsLive, NeverBroken, RefundComplete, Panics

\* CommitDone preserves the invariant.
LEMMA CommitDoneInv ==
    ASSUME Inv, NEW E, CommitDone(E)
    PROVE  Inv'
<1> USE DEF Inv
<1>1. /\ panicked = None /\ st' = AfterReset(E) /\ entries' = <<>> /\ len' = 0
      /\ revision' = <<>> /\ nextRevisionId' = 0 /\ pc' = "idle" /\ cur' = 0
      /\ UNCHANGED <<txHash, arg, panicked>>
  BY DEF CommitDone, Committing
<1>2. Sound(st')
  BY <1>1, AfterResetSound
<1>3. TypeOK'
  BY <1>1, <1>2 DEF TypeOK, Sound
<1>4. RevisionsStack'
  BY <1>1 DEF RevisionsStack
<1> QED
  BY <1>1, <1>2, <1>3, <1>4, StateAssumption
  DEF LoopsInside, RevertFindsLive, NeverBroken, RefundComplete, Panics

----------------------------------------------------------------------------
\* The invariant holds initially.
LEMMA InitInv == Init => Inv
<1> SUFFICES ASSUME Init PROVE Inv
  BY SMTT(40)
<1> USE DEF Init
<1>1. Sound(st)
  BY NewObject, SMTT(40) DEF Sound, State
<1>2. TypeOK
  BY <1>1, SMTT(40) DEF TypeOK, Sound
<1> QED
  BY <1>1, <1>2, StateAssumption
  DEF Inv, LoopsInside, RevisionsStack, RevertFindsLive, NeverBroken, RefundComplete, Panics

\* Every step preserves the invariant.
LEMMA NextInv == Inv /\ [Next]_vars => Inv'
<1> SUFFICES ASSUME Inv, [Next]_vars PROVE Inv'
  BY SMTT(40)
<1>1. CASE UNCHANGED vars
  BY <1>1, SMTT(40) DEF vars, journalVars, revVars, loopVars, Inv, TypeOK, LoopsInside, RevisionsStack,
              RevertFindsLive, NeverBroken, RefundComplete
<1>2. CASE \E a \in Addrs : Call(a)
  <2> PICK a \in Addrs : Call(a)
    BY <1>2
  <2>1. CASE SetState(a) \/ LoadPanics(a)
    BY <2>1, PanicInv DEF SetState, LoadPanics
  <2>2. CASE Get(a) \/ CreateAccount(a) \/ Suicide(a)
    BY <2>2, GetInv, CreateAccountInv, SuicideInv
  <2>3. CASE \E n \in Nonces : SetNonce(a, n)
    BY <2>3, SetNonceInv
  <2>4. CASE \E v \in Amounts : AddBalance(a, v) \/ SubBalance(a, v) \/ ChargeGas(a, v)
    BY <2>4, AddBalanceInv, SubBalanceInv, ChargeGasInv
  <2>5. CASE \E c \in Codes : SetCode(a, c)
    BY <2>5, SetCodeInv
  <2> QED
    BY <2>1, <2>2, <2>3, <2>4, <2>5 DEF Call
<1>3. CASE \E t \in Txs : Prepare(t)
  BY <1>3, PrepareInv
<1>4. CASE AddLog \/ Snapshot \/ RevertStep \/ RevertDone \/ CommitStart \/ RefundStep
  BY <1>4, AddLogInv, SnapshotInv, RevertStepInv, RevertDoneInv, CommitStartInv, RefundStepInv
<1>5. CASE \E D \in SUBSET Addrs : IntermediateRoot(D)
  BY <1>5, IntermediateRootInv
<1>6. CASE \E id \in 0..MaxRevs : RevertToSnapshot(id)
  BY <1>6, RevertToSnapshotInv
<1>7. CASE CommitPanics
  BY <1>7, PanicInv DEF CommitPanics
<1>8. CASE \E D \in SUBSET Addrs : CommitFails(D)
  BY <1>8, CommitFailsInv
<1>9. CASE \E E \in SUBSET Addrs : CommitDone(E)
  BY <1>9, CommitDoneInv
<1> QED
  BY <1>1, <1>2, <1>3, <1>4, <1>5, <1>6, <1>7, <1>8, <1>9 DEF Next

\* Whatever sequence of calls is made of a StateDB, its types hold and Inv does.
THEOREM StateDBInv == Spec => []Inv
  BY InitInv, NextInv, PTL DEF Spec

\* Revision ids are the positions of a stack and every index they hold can be
\* sliced to (Snapshot, RevertToSnapshot, clearJournal).
THEOREM RevisionsStackCorrect == Spec => []RevisionsStack
<1>1. Inv => RevisionsStack
  BY DEF Inv
<1> QED
  BY <1>1, StateDBInv, PTL

\* RevertToSnapshot never panics on an id that is outstanding.
THEOREM RevertFindsLiveCorrect == Spec => []RevertFindsLive
<1>1. Inv => RevertFindsLive
  BY DEF Inv
<1> QED
  BY <1>1, StateDBInv, PTL

\* IntermediateRoot never meets a dirty address without a live object, and no
\* revert slices the journal beyond its array.
THEOREM NeverBrokenCorrect == Spec => []NeverBroken
<1>1. Inv => NeverBroken
  BY DEF Inv
<1> QED
  BY <1>1, StateDBInv, PTL

\* refundGas leaves no gas entry behind.
THEOREM RefundCompleteCorrect == Spec => []RefundComplete
<1>1. Inv => RefundComplete
  BY DEF Inv
<1> QED
  BY <1>1, StateDBInv, PTL

----------------------------------------------------------------------------
(* What a revert restores.  A state is looked at one address at a time. *)

\* The object that GetStateObj gives for an address, and whether it gives one.
Present(s, a) == a \in s.live \/ a \in s.cached \/ s.tree[a] # None
Seen(s, a) == IF a \in s.live \/ a \in s.cached THEN s.obj[a] ELSE FromData(s.tree[a])

\* A state without deleted objects and negative balances.
Fine(s) ==
    /\ Sound(s)
    /\ \A a \in Addrs : /\ ~s.obj[a].deleted /\ s.obj[a].bal >= 0
                        /\ s.tree[a] # None => s.tree[a].bal >= 0

\* t has the object o for a, and is like s at every other address.
Sets(s, t, a, o) ==
    /\ t.logs = s.logs /\ t.tree = s.tree
    /\ a \in t.live /\ t.obj[a] = o
    /\ \A b \in Addrs \ {a} : /\ t.obj[b] = s.obj[b]
                              /\ b \in t.live <=> b \in s.live
                              /\ b \in t.cached <=> b \in s.cached

\* What the rest of the program sees of a state.
Now(s) == [view |-> Visible(s), logs |-> s.logs]

\* w has the accounts of v as they are in v, up to the code hash, and its logs.
Keeps(w, v) ==
    /\ \A a \in DOMAIN v.view : a \in DOMAIN w.view /\ SameAccount(w.view[a], v.view[a])
    /\ w.logs = v.logs

\* Objects that agree up to the code hash agree in the other fields.
LEMMA SameIs ==
    ASSUME NEW o \in Object, NEW p \in Object
    PROVE  SameAccount(o, p) <=> /\ o.nonce = p.nonce /\ o.bal = p.bal /\ o.code = p.code
                                 /\ o.suicided = p.suicided /\ o.deleted = p.deleted
<1>1. /\ o = [nonce |-> o.nonce, bal |-> o.bal, code |-> o.code, hash |-> o.hash,
              suicided |-> o.suicided, deleted |-> o.deleted]
      /\ p = [nonce |-> p.nonce, bal |-> p.bal, code |-> p.code, hash |-> p.hash,
              suicided |-> p.suicided, deleted |-> p.deleted]
  BY DEF Object
<1>2. /\ [o EXCEPT !.hash = Zero] = [nonce |-> o.nonce, bal |-> o.bal, code |-> o.code, hash |-> Zero,
              suicided |-> o.suicided, deleted |-> o.deleted]
      /\ [p EXCEPT !.hash = Zero] = [nonce |-> p.nonce, bal |-> p.bal, code |-> p.code, hash |-> Zero,
              suicided |-> p.suicided, deleted |-> p.deleted]
  BY DEF Object
<1> QED BY <1>2 DEF SameAccount

\* Agreement is an equivalence.
LEMMA SameEquivalence ==
    /\ \A o : SameAccount(o, o)
    /\ \A o, p : SameAccount(o, p) => SameAccount(p, o)
    /\ \A o, p, q : SameAccount(o, p) /\ SameAccount(p, q) => SameAccount(o, q)
BY Zenon DEF SameAccount

\* Keeps is reflexive and transitive.
LEMMA KeepsOrder ==
    /\ \A w : Keeps(w, w)
    /\ \A w, v, u : Keeps(w, v) /\ Keeps(v, u) => Keeps(w, u)
BY SameEquivalence, ZenonT(40) DEF Keeps

\* The fields of a state.
LEMMA StateFields ==
    ASSUME NEW s \in State
    PROVE  /\ DOMAIN s = {"obj", "live", "cached", "dirty", "tree", "logs", "logSize"}
           /\ s.obj \in [Addrs -> Object] /\ s.live \in SUBSET Addrs /\ s.cached \in SUBSET Addrs
           /\ s.tree \in [Addrs -> Account \cup {None}] /\ s.logs \in [Txs -> Nat]
           /\ s.logSize \in Int
BY DEF State

\* What Visible is, one address at a time.
LEMMA VisibleIs ==
    ASSUME NEW s, Fine(s)
    PROVE  /\ \A a \in Addrs : Exists(s, a) <=> Present(s, a)
           /\ \A a \in Addrs : Present(s, a) => Load(s, a).obj[a] = Seen(s, a)
           /\ \A a \in Addrs : a \in DOMAIN Visible(s) <=> Present(s, a)
           /\ \A a \in Addrs : Present(s, a) => Visible(s)[a] = Seen(s, a)
           /\ DOMAIN Visible(s) \subseteq Addrs
<1>1. \A a \in Addrs : Exists(s, a) <=> Present(s, a)
  BY ZenonT(40) DEF Fine, Exists, Present
<1>2. ASSUME NEW a \in Addrs, Present(s, a) PROVE Load(s, a).obj[a] = Seen(s, a)
  <2>0. s \in State
    BY DEF Fine, Sound
  <2>1. CASE a \in s.live
    BY <2>1, Zenon DEF Load, Seen
  <2>2. CASE a \notin s.live /\ a \in s.cached
    <3>1. Load(s, a) = [s EXCEPT !.live = @ \cup {a}]
      BY <2>2, Zenon DEF Load
    <3>2. Load(s, a).obj = s.obj
      BY <2>0, <3>1, StateFields
    <3> QED BY <2>2, <3>2, Zenon DEF Seen
  <2>3. CASE a \notin s.live /\ a \notin s.cached
    <3>1. s.tree[a] # None /\ s.tree[a] \in Account
      BY <1>2, <2>0, <2>3, StateFields, Zenon DEF Present
    <3>2. Load(s, a) = Put(s, a, FromData(s.tree[a]))
      BY <2>3, <3>1, Zenon DEF Load
    <3>3. FromData(s.tree[a]) \in Object /\ Sound(s)
      BY <3>1, FromDataObject, Zenon DEF Fine
    <3>4. Put(s, a, FromData(s.tree[a])).obj[a] = FromData(s.tree[a])
      BY <3>3, PutSound, Zenon
    <3> QED BY <2>3, <3>2, <3>4, Zenon DEF Seen
  <2> QED BY <2>1, <2>2, <2>3
<1>3. DOMAIN Visible(s) = {x \in Addrs : Exists(s, x)}
  BY Zenon DEF Visible
<1>4. \A a \in {x \in Addrs : Exists(s, x)} : Visible(s)[a] = Load(s, a).obj[a]
  BY Zenon DEF Visible
<1> QED BY <1>1, <1>2, <1>3, <1>4, Zenon

\* Load changes nothing that is seen, and makes the object live.
LEMMA LoadIs ==
    ASSUME NEW s, Fine(s), NEW a \in Addrs, Present(s, a)
    PROVE  Sets(s, Load(s, a), a, Seen(s, a)) /\ Sound(Load(s, a))
<1>0. s \in State /\ Sound(s) /\ Exists(s, a)
  BY VisibleIs, Zenon DEF Fine, Sound
<1>1. Sound(Load(s, a)) /\ a \in Load(s, a).live
  BY <1>0, LoadSound, Zenon
<1>2. Load(s, a).obj[a] = Seen(s, a)
  BY VisibleIs, ZenonT(40)
<1>3. /\ Load(s, a).logs = s.logs /\ Load(s, a).tree = s.tree
      /\ \A b \in Addrs \ {a} : /\ Load(s, a).obj[b] = s.obj[b]
                                /\ b \in Load(s, a).live <=> b \in s.live
                                /\ b \in Load(s, a).cached <=> b \in s.cached
  <2>1. CASE a \in s.live
    BY <2>1, Zenon DEF Load
  <2>2. CASE a \notin s.live /\ a \in s.cached
    <3>1. Load(s, a) = [s EXCEPT !.live = @ \cup {a}]
      BY <2>2, Zenon DEF Load
    <3> QED BY <1>0, <3>1, StateFields
  <2>3. CASE a \notin s.live /\ a \notin s.cached
    <3>1. Load(s, a) = Put(s, a, FromData(s.tree[a]))
      BY <2>3, Zenon DEF Load, Present
    <3> QED BY <1>0, <3>1, StateFields DEF Put
  <2> QED BY <2>1, <2>2, <2>3
<1> QED BY <1>1, <1>2, <1>3, Zenon DEF Sets

\* Writing an object keeps the state fine when the object is.
LEMMA SetsFine ==
    ASSUME NEW s, Fine(s), NEW t, Sound(t), NEW a \in Addrs, NEW o, Sets(s, t, a, o),
           ~o.deleted, o.bal >= 0
    PROVE  Fine(t)
BY Zenon DEF Sets, Fine

\* What is seen after an object is written.
LEMMA SetsSeen ==
    ASSUME NEW s, NEW t, NEW a \in Addrs, NEW o, Sets(s, t, a, o)
    PROVE  /\ Present(t, a) /\ Seen(t, a) = o
           /\ \A b \in Addrs \ {a} : /\ Present(t, b) <=> Present(s, b)
                                     /\ Seen(t, b) = Seen(s, b)
BY Zenon DEF Sets, Present, Seen

\* The object that was written.
LEMMA SetsGives ==
    ASSUME NEW s, NEW t, NEW a \in Addrs, NEW o, Sets(s, t, a, o)
    PROVE  Present(t, a) /\ Seen(t, a) = o /\ t.obj[a] = o
BY Zenon DEF Sets, Present, Seen

\* Two writes at one address.
LEMMA SetsTwice ==
    ASSUME NEW s, NEW t, NEW u, NEW a \in Addrs, NEW o, NEW p, Sets(s, t, a, o), Sets(t, u, a, p)
    PROVE  Sets(s, u, a, p)
BY Zenon DEF Sets

\* The object seen is an object, without a negative balance and not deleted.
LEMMA SeenObject ==
    ASSUME NEW s, Fine(s), NEW a \in Addrs, Present(s, a)
    PROVE  Seen(s, a) \in Object /\ ~Seen(s, a).deleted /\ Seen(s, a).bal >= 0
<1>0. s \in State
  BY Zenon DEF Fine, Sound
<1>1. CASE a \in s.live \/ a \in s.cached
  BY <1>0, <1>1, StateFields, Zenon DEF Seen, Fine
<1>2. CASE ~(a \in s.live \/ a \in s.cached)
  <2>1. PICK d \in Account : d = s.tree[a] /\ d.bal >= 0
    BY <1>0, <1>2, StateFields, ZenonT(40) DEF Present, Fine
  <2>2. FromData(d) \in Object
    BY <2>1, FromDataObject, Zenon
  <2>3. FromData(d).deleted = FALSE /\ FromData(d).bal = d.bal
    BY DEF FromData, newStateObject
  <2>4. Seen(s, a) = FromData(d)
    BY <1>2, <2>1, Zenon DEF Seen
  <2> QED BY <2>1, <2>2, <2>3, <2>4, Zenon
<1> QED BY <1>1, <1>2, Zenon

\* The setters of a live object, as writes of an object.
LEMMA SettersSet ==
    ASSUME NEW s \in State, NEW a \in Addrs, a \in s.live
    PROVE  /\ \A n : Sets(s, SetNonceOf(s, a, n), a, [s.obj[a] EXCEPT !.nonce = n])
           /\ \A v : Sets(s, SetBalanceOf(s, a, v), a, [s.obj[a] EXCEPT !.bal = v])
           /\ \A c : Sets(s, SetCodeOf(s, a, c), a, [s.obj[a] EXCEPT !.code = c, !.hash = c])
           /\ \A b : Sets(s, MarkSuicided(s, a, b), a, [s.obj[a] EXCEPT !.suicided = b])
<1>1. \A n : Sets(s, SetNonceOf(s, a, n), a, [s.obj[a] EXCEPT !.nonce = n])
  BY StateFields DEF Sets, SetNonceOf
<1>2. \A v : Sets(s, SetBalanceOf(s, a, v), a, [s.obj[a] EXCEPT !.bal = v])
  BY StateFields DEF Sets, SetBalanceOf
<1>3. \A c : Sets(s, SetCodeOf(s, a, c), a, [s.obj[a] EXCEPT !.code = c, !.hash = c])
  BY StateFields, ZenonT(40) DEF Sets, SetCodeOf
<1>4. \A b : Sets(s, MarkSuicided(s, a, b), a, [s.obj[a] EXCEPT !.suicided = b])
  BY StateFields DEF Sets, MarkSuicided
<1> QED BY <1>1, <1>2, <1>3, <1>4, Zenon

\* setStateObj as a write.
LEMMA PutSets ==
    ASSUME NEW s \in State, NEW a \in Addrs, NEW o
    PROVE  Sets(s, Put(s, a, o), a, o)
BY StateFields DEF Sets, Put

\* What undoing an entry does to the object of its address.
LEMMA UndoSets ==
    ASSUME NEW s, Fine(s), NEW e \in Entry, NEW a \in Addrs, e.op # "log" => e.a = a,
           Present(s, a), NEW o, o = Seen(s, a)
    PROVE  /\ e.op = "suicide" =>
                Sets(s, Undo(s, e), a, [[o EXCEPT !.suicided = e.prev] EXCEPT !.bal = e.bal])
           /\ e.op = "balance" =>
                Sets(s, Undo(s, e), a, IF o.bal = 0 THEN o ELSE [o EXCEPT !.bal = o.bal - e.amount])
           /\ e.op = "gas" => Sets(s, Undo(s, e), a, [o EXCEPT !.bal = o.bal + e.amount])
           /\ e.op = "nonce" => Sets(s, Undo(s, e), a, [o EXCEPT !.nonce = e.prev])
           /\ e.op = "code" => Sets(s, Undo(s, e), a, [o EXCEPT !.code = e.prev, !.hash = e.prev])
           /\ e.op = "reset" => Sets(s, Undo(s, e), a, e.prev)
           /\ e.op # "log" => Sound(Undo(s, e))
<1>0. s \in State /\ Sound(s) /\ Exists(s, a)
  BY VisibleIs, Zenon DEF Fine, Sound
<1>1. PICK q : q = Load(s, a)
  OBVIOUS
<1>2. Sets(s, q, a, o) /\ Sound(q) /\ q \in State /\ a \in q.live /\ q.obj[a] = o
  BY <1>1, LoadIs, ZenonT(40) DEF Sets, Sound
<1>3. /\ \A n : Sets(q, SetNonceOf(q, a, n), a, [o EXCEPT !.nonce = n])
      /\ \A v : Sets(q, SetBalanceOf(q, a, v), a, [o EXCEPT !.bal = v])
      /\ \A c : Sets(q, SetCodeOf(q, a, c), a, [o EXCEPT !.code = c, !.hash = c])
      /\ \A b : Sets(q, MarkSuicided(q, a, b), a, [o EXCEPT !.suicided = b])
  BY <1>2, SettersSet, Zenon
<1>t. \A u, p : Sets(q, u, a, p) => Sets(s, u, a, p)
  BY <1>2, Zenon DEF Sets
<1>4. ASSUME e.op = "suicide"
      PROVE  Sets(s, Undo(s, e), a, [[o EXCEPT !.suicided = e.prev] EXCEPT !.bal = e.bal])
  <2>1. e.prev \in BOOLEAN /\ e.bal \in Int
    BY <1>4, EntryFields
  <2>2. Undo(s, e) = SetBalanceOf(MarkSuicided(q, a, e.prev), a, e.bal)
    BY <1>0, <1>1, <1>4 DEF Undo
  <2>3. PICK m : m = MarkSuicided(q, a, e.prev)
    OBVIOUS
  <2>4. Sets(q, m, a, [o EXCEPT !.suicided = e.prev]) /\ m \in State
    <3>1. [q.obj[a] EXCEPT !.suicided = e.prev] \in Object
      BY <1>2, <2>1, ObjectFields, ZenonT(40) DEF Object
    <3>2. m \in State
      BY <1>2, <2>3, <3>1, ZenonT(60) DEF MarkSuicided, State
    <3> QED BY <1>3, <2>3, <3>2, Zenon
  <2>5. a \in m.live /\ m.obj[a] = [o EXCEPT !.suicided = e.prev]
    BY <2>4, Zenon DEF Sets
  <2>6. Sets(m, SetBalanceOf(m, a, e.bal), a, [m.obj[a] EXCEPT !.bal = e.bal])
    BY <2>4, <2>5, SettersSet, Zenon
  <2>7. Sets(s, SetBalanceOf(m, a, e.bal), a, [m.obj[a] EXCEPT !.bal = e.bal])
    <3>1. Sets(q, SetBalanceOf(m, a, e.bal), a, [m.obj[a] EXCEPT !.bal = e.bal])
      BY <2>4, <2>6, Zenon DEF Sets
    <3> QED BY <1>t, <3>1, Zenon
  <2> QED BY <2>2, <2>3, <2>5, <2>7, Zenon
<1>5. ASSUME e.op = "balance"
      PROVE  Sets(s, Undo(s, e), a, IF o.bal = 0 THEN o ELSE [o EXCEPT !.bal = o.bal - e.amount])
  <2>1. Undo(s, e) = SubBalanceOf(q, a, e.amount)
    BY <1>0, <1>1, <1>5 DEF Undo
  <2>2. Undo(s, e) = IF o.bal = 0 THEN q ELSE SetBalanceOf(q, a, o.bal - e.amount)
    BY <1>2, <2>1, Zenon DEF SubBalanceOf
  <2>3. CASE o.bal = 0
    BY <1>2, <2>2, <2>3, Zenon
  <2>4. CASE o.bal # 0
    <3>1. Sets(q, SetBalanceOf(q, a, o.bal - e.amount), a, [o EXCEPT !.bal = o.bal - e.amount])
      BY <1>3, Zenon
    <3>2. Sets(s, SetBalanceOf(q, a, o.bal - e.amount), a, [o EXCEPT !.bal = o.bal - e.amount])
      BY <1>t, <3>1, Zenon
    <3> QED BY <2>2, <2>4, <3>2, Zenon
  <2> QED BY <2>3, <2>4
<1>6. ASSUME e.op = "gas"
      PROVE  Sets(s, Undo(s, e), a, [o EXCEPT !.bal = o.bal + e.amount])
  <2>1. Undo(s, e) = SetBalanceOf(q, a, o.bal + e.amount)
    BY <1>0, <1>1, <1>2, <1>6 DEF Undo, AddBalanceOf
  <2>2. Sets(q, SetBalanceOf(q, a, o.bal + e.amount), a, [o EXCEPT !.bal = o.bal + e.amount])
    BY <1>3, Zenon
  <2>3. Sets(s, SetBalanceOf(q, a, o.bal + e.amount), a, [o EXCEPT !.bal = o.bal + e.amount])
    BY <1>t, <2>2, Zenon
  <2> QED BY <2>1, <2>3, Zenon
<1>7. ASSUME e.op = "nonce"
      PROVE  Sets(s, Undo(s, e), a, [o EXCEPT !.nonce = e.prev])
  <2>1. Undo(s, e) = SetNonceOf(q, a, e.prev)
    BY <1>0, <1>1, <1>7 DEF Undo
  <2>2. Sets(s, SetNonceOf(q, a, e.prev), a, [o EXCEPT !.nonce = e.prev])
    BY <1>t, <1>3, Zenon
  <2> QED BY <2>1, <2>2, Zenon
<1>8. ASSUME e.op = "code"
      PROVE  Sets(s, Undo(s, e), a, [o EXCEPT !.code = e.prev, !.hash = e.prev])
  <2>1. Undo(s, e) = SetCodeOf(q, a, e.prev)
    BY <1>0, <1>1, <1>8 DEF Undo
  <2>2. Sets(s, SetCodeOf(q, a, e.prev), a, [o EXCEPT !.code = e.prev, !.hash = e.prev])
    BY <1>t, <1>3, Zenon
  <2> QED BY <2>1, <2>2, Zenon
<1>9. ASSUME e.op = "reset"
      PROVE  Sets(s, Undo(s, e), a, e.prev)
  <2>1. Undo(s, e) = Put(s, a, e.prev)
    BY <1>9, SMTT(40) DEF Undo
  <2> QED BY <1>0, <2>1, PutSets, Zenon
<1>10. e.op # "log" => Sound(Undo(s, e))
  BY <1>0, UndoSound
<1> QED BY <1>4, <1>5, <1>6, <1>7, <1>8, <1>9, <1>10, Zenon

----------------------------------------------------------------------------
(* What an entry takes back. *)

\* Undoing e takes any state with the accounts of w to one with the accounts of v.
Undoes(e, w, v) ==
    \A s : Fine(s) /\ Keeps(Now(s), w) => Fine(Undo(s, e)) /\ Keeps(Now(Undo(s, e)), v)

\* Keeps between states, one address at a time.
LEMMA NowKeeps ==
    ASSUME NEW s, Fine(s), NEW t, Fine(t)
    PROVE  Keeps(Now(t), Now(s)) <=>
             /\ t.logs = s.logs
             /\ \A a \in Addrs : Present(s, a) =>
                    Present(t, a) /\ SameAccount(Seen(t, a), Seen(s, a))
<1>1. /\ Now(s).view = Visible(s) /\ Now(s).logs = s.logs
      /\ Now(t).view = Visible(t) /\ Now(t).logs = t.logs
  BY DEF Now
<1>2. /\ \A a \in Addrs : a \in DOMAIN Visible(s) <=> Present(s, a)
      /\ \A a \in Addrs : Present(s, a) => Visible(s)[a] = Seen(s, a)
      /\ \A a \in Addrs : a \in DOMAIN Visible(t) <=> Present(t, a)
      /\ \A a \in Addrs : Present(t, a) => Visible(t)[a] = Seen(t, a)
      /\ DOMAIN Visible(s) \subseteq Addrs
  BY VisibleIs, Zenon
<1> QED BY <1>1, <1>2, Zenon DEF Keeps

\* An entry that gives the object of its address back undoes the write of that object.
LEMMA UndoesWrite ==
    ASSUME NEW s0, Fine(s0), NEW s1, Fine(s1), NEW a \in Addrs, NEW o, Sets(s0, s1, a, o), NEW e,
           \A s : Fine(s) /\ Present(s, a) /\ SameAccount(Seen(s, a), o) =>
              \E u : /\ Sets(s, Undo(s, e), a, u) /\ Fine(Undo(s, e))
                     /\ SameAccount(u, Seen(s0, a))
    PROVE  Undoes(e, Now(s1), Now(s0))
<1> SUFFICES ASSUME NEW s, Fine(s), Keeps(Now(s), Now(s1))
             PROVE  Fine(Undo(s, e)) /\ Keeps(Now(Undo(s, e)), Now(s0))
  BY Zenon DEF Undoes
<1>1. /\ s.logs = s1.logs
      /\ \A b \in Addrs : Present(s1, b) => Present(s, b) /\ SameAccount(Seen(s, b), Seen(s1, b))
  BY NowKeeps, Zenon
<1>2. /\ Present(s1, a) /\ Seen(s1, a) = o
      /\ \A b \in Addrs \ {a} : (Present(s1, b) <=> Present(s0, b)) /\ Seen(s1, b) = Seen(s0, b)
  BY SetsSeen, ZenonT(40)
<1>3. PICK t : t = Undo(s, e)
  OBVIOUS
<1>4. PICK u : Sets(s, t, a, u) /\ Fine(t) /\ SameAccount(u, Seen(s0, a))
  BY <1>1, <1>2, <1>3, Zenon
<1>5. /\ Present(t, a) /\ Seen(t, a) = u
      /\ \A b \in Addrs \ {a} : (Present(t, b) <=> Present(s, b)) /\ Seen(t, b) = Seen(s, b)
  BY <1>4, SetsSeen, ZenonT(40)
<1>6. t.logs = s0.logs
  BY <1>1, <1>4, Zenon DEF Sets
<1>7. ASSUME NEW b \in Addrs, Present(s0, b)
      PROVE  Present(t, b) /\ SameAccount(Seen(t, b), Seen(s0, b))
  <2>1. CASE b = a
    BY <1>4, <1>5, <2>1, Zenon
  <2>2. CASE b # a
    BY <1>1, <1>2, <1>5, <1>7, <2>2, Zenon
  <2> QED BY <2>1, <2>2
<1>8. Keeps(Now(t), Now(s0))
  BY <1>4, <1>6, <1>7, NowKeeps, Zenon
<1> QED BY <1>3, <1>4, <1>8, Zenon

\* e is the entry of a setter or of createStateObj that turns the object o into o1.
GivesBack(e, o, o1) ==
    \/ e.op = "reset" /\ e.prev = o
    \/ /\ e.op = "suicide" /\ e.prev = o.suicided /\ e.bal = o.bal
       /\ o1 = [[o EXCEPT !.suicided = TRUE] EXCEPT !.bal = 0]
    \/ e.op = "balance" /\ e.amount >= 0 /\ o1 = [o EXCEPT !.bal = o.bal + e.amount]
    \/ /\ e.op = "gas" /\ e.amount >= 0 /\ o.bal >= e.amount
       /\ o1 = IF o.bal = 0 THEN o ELSE [o EXCEPT !.bal = o.bal - e.amount]
    \/ e.op = "nonce" /\ e.prev = o.nonce /\ \E n : o1 = [o EXCEPT !.nonce = n]
    \/ e.op = "code" /\ e.prev = o.code /\ \E c : o1 = [o EXCEPT !.code = c, !.hash = c]

\* The entries that the setters and createStateObj leave undo them.
LEMMA UndoesObject ==
    ASSUME NEW s0, Fine(s0), NEW s1, Fine(s1), NEW a \in Addrs, Present(s0, a),
           NEW o, o = Seen(s0, a), NEW o1 \in Object, Sets(s0, s1, a, o1),
           NEW e \in Entry, e.op # "log", e.a = a,
           GivesBack(e, o, o1)
    PROVE  Undoes(e, Now(s1), Now(s0))
<1>0. o \in Object /\ ~o.deleted /\ o.bal >= 0
  BY SeenObject, Zenon
<1>1. ASSUME NEW s, Fine(s), Present(s, a), SameAccount(Seen(s, a), o1)
      PROVE  \E u : Sets(s, Undo(s, e), a, u) /\ Fine(Undo(s, e)) /\ SameAccount(u, o)
  <2>1. PICK p : p = Seen(s, a)
    OBVIOUS
  <2>2. p \in Object /\ ~p.deleted /\ p.bal >= 0
    BY <1>1, <2>1, SeenObject, Zenon
  <2>3. /\ p.nonce = o1.nonce /\ p.bal = o1.bal /\ p.code = o1.code
        /\ p.suicided = o1.suicided /\ p.deleted = o1.deleted
    BY <1>1, <2>1, <2>2, SameIs, ZenonT(40)
  <2>4. PICK t : t = Undo(s, e)
    OBVIOUS
  <2>5. /\ e.op = "suicide" => Sets(s, t, a, [[p EXCEPT !.suicided = e.prev] EXCEPT !.bal = e.bal])
        /\ e.op = "balance" => Sets(s, t, a, IF p.bal = 0 THEN p ELSE [p EXCEPT !.bal = p.bal - e.amount])
        /\ e.op = "gas" => Sets(s, t, a, [p EXCEPT !.bal = p.bal + e.amount])
        /\ e.op = "nonce" => Sets(s, t, a, [p EXCEPT !.nonce = e.prev])
        /\ e.op = "code" => Sets(s, t, a, [p EXCEPT !.code = e.prev, !.hash = e.prev])
        /\ e.op = "reset" => Sets(s, t, a, e.prev)
        /\ Sound(t)
    BY <1>1, <2>1, <2>4, UndoSets, Zenon
  <2>6. \A u \in Object : Sets(s, t, a, u) /\ SameAccount(u, o) => Fine(t)
    <3> SUFFICES ASSUME NEW u \in Object, Sets(s, t, a, u), SameAccount(u, o) PROVE Fine(t)
      OBVIOUS
    <3>1. u.bal = o.bal /\ u.deleted = o.deleted
      BY <1>0, SameIs, Zenon
    <3> QED BY <1>0, <1>1, <2>5, <3>1, SetsFine, ZenonT(40)
  <2>7. \E u \in Object : Sets(s, t, a, u) /\ SameAccount(u, o)
    <3>1. CASE e.op = "reset" /\ e.prev = o
      BY <1>0, <2>5, <3>1, SameEquivalence, Zenon
    <3>2. CASE /\ e.op = "suicide" /\ e.prev = o.suicided /\ e.bal = o.bal
               /\ o1 = [[o EXCEPT !.suicided = TRUE] EXCEPT !.bal = 0]
      <4>1. PICK u : u = [[p EXCEPT !.suicided = e.prev] EXCEPT !.bal = e.bal]
        OBVIOUS
      <4>2. /\ u \in Object /\ u.nonce = o.nonce /\ u.bal = o.bal /\ u.code = o.code
            /\ u.suicided = o.suicided /\ u.deleted = o.deleted
        BY <1>0, <2>2, <2>3, <3>2, <4>1, ZenonT(40) DEF Object
      <4>3. SameAccount(u, o)
        BY <1>0, <4>2, SameIs, Zenon
      <4> QED BY <2>5, <3>2, <4>1, <4>2, <4>3, ZenonT(40)
    <3>3. CASE e.op = "balance" /\ e.amount >= 0 /\ o1 = [o EXCEPT !.bal = o.bal + e.amount]
      <4>0. e.amount \in Int
        BY <3>3, EntryFields
      <4>1. PICK u : u = IF p.bal = 0 THEN p ELSE [p EXCEPT !.bal = p.bal - e.amount]
        BY Zenon
      <4>2. /\ u \in Object /\ u.nonce = o.nonce /\ u.bal = o.bal /\ u.code = o.code
            /\ u.suicided = o.suicided /\ u.deleted = o.deleted
        BY <1>0, <2>2, <2>3, <3>3, <4>0, <4>1, SMTT(40) DEF Object
      <4>3. SameAccount(u, o)
        BY <1>0, <4>2, SameIs, Zenon
      <4> QED BY <2>5, <3>3, <4>1, <4>2, <4>3, ZenonT(40)
    <3>4. CASE /\ e.op = "gas" /\ e.amount >= 0 /\ o.bal >= e.amount
               /\ o1 = IF o.bal = 0 THEN o ELSE [o EXCEPT !.bal = o.bal - e.amount]
      <4>0. e.amount \in Int
        BY <3>4, EntryFields
      <4>1. PICK u : u = [p EXCEPT !.bal = p.bal + e.amount]
        BY Zenon
      <4>2. /\ u \in Object /\ u.nonce = o.nonce /\ u.bal = o.bal /\ u.code = o.code
            /\ u.suicided = o.suicided /\ u.deleted = o.deleted
        BY <1>0, <2>2, <2>3, <3>4, <4>0, <4>1, SMTT(40) DEF Object
      <4>3. SameAccount(u, o)
        BY <1>0, <4>2, SameIs, Zenon
      <4> QED BY <2>5, <3>4, <4>1, <4>2, <4>3, ZenonT(40)
    <3>5. CASE e.op = "nonce" /\ e.prev = o.nonce /\ \E n : o1 = [o EXCEPT !.nonce = n]
      <4>1. PICK u : u = [p EXCEPT !.nonce = e.prev]
        BY Zenon
      <4>2. /\ u \in Object /\ u.nonce = o.nonce /\ u.bal = o.bal /\ u.code = o.code
            /\ u.suicided = o.suicided /\ u.deleted = o.deleted
        BY <1>0, <2>2, <2>3, <3>5, <4>1, SMTT(40) DEF Object
      <4>3. SameAccount(u, o)
        BY <1>0, <4>2, SameIs, Zenon
      <4> QED BY <2>5, <3>5, <4>1, <4>2, <4>3, ZenonT(40)
    <3>6. CASE e.op = "code" /\ e.prev = o.code /\ \E c : o1 = [o EXCEPT !.code = c, !.hash = c]
      <4>1. PICK u : u = [p EXCEPT !.code = e.prev, !.hash = e.prev]
        OBVIOUS
      <4>2. /\ u \in Object /\ u.nonce = o.nonce /\ u.bal = o.bal /\ u.code = o.code
            /\ u.suicided = o.suicided /\ u.deleted = o.deleted
        BY <1>0, <2>2, <2>3, <3>6, <4>1, ZenonT(40) DEF Object
      <4>3. SameAccount(u, o)
        BY <1>0, <4>2, SameIs, Zenon
      <4> QED BY <2>5, <3>6, <4>1, <4>2, <4>3, ZenonT(40)
    <3> QED BY <3>1, <3>2, <3>3, <3>4, <3>5, <3>6, ZenonT(40) DEF GivesBack
  <2> QED BY <2>4, <2>6, <2>7, Zenon
<1> QED BY <1>1, UndoesWrite, Zenon

\* createObjectChange takes the new object back: the account did not exist.
LEMMA UndoesCreate ==
    ASSUME NEW s0, Fine(s0), NEW s1, Fine(s1), NEW a \in Addrs, ~Present(s0, a),
           NEW o, Sets(s0, s1, a, o), NEW e \in Entry, e.op = "create", e.a = a
    PROVE  Undoes(e, Now(s1), Now(s0))
<1> SUFFICES ASSUME NEW s, Fine(s), Keeps(Now(s), Now(s1))
             PROVE  Fine(Undo(s, e)) /\ Keeps(Now(Undo(s, e)), Now(s0))
  BY Zenon DEF Undoes
<1>0. s \in State /\ Sound(s)
  BY Zenon DEF Fine, Sound
<1>1. PICK t : t = Undo(s, e)
  OBVIOUS
<1>2. t = [s EXCEPT !.live = @ \ {a}, !.dirty = @ \ {a}]
  BY <1>1 DEF Undo, UndoCreate
<1>3. /\ t.obj = s.obj /\ t.live = s.live \ {a} /\ t.cached = s.cached
      /\ t.tree = s.tree /\ t.logs = s.logs
  BY <1>0, <1>2, StateFields, SMTT(40)
<1>4. Sound(t)
  BY <1>0, <1>1, UndoSound
<1>5. Fine(t)
  BY <1>3, <1>4, Zenon DEF Fine
<1>6. /\ s.logs = s1.logs
      /\ \A b \in Addrs : Present(s1, b) => Present(s, b) /\ SameAccount(Seen(s, b), Seen(s1, b))
  BY NowKeeps, Zenon
<1>7. \A b \in Addrs \ {a} : (Present(s1, b) <=> Present(s0, b)) /\ Seen(s1, b) = Seen(s0, b)
  BY SetsSeen, ZenonT(40)
<1>8. \A b \in Addrs \ {a} : (Present(t, b) <=> Present(s, b)) /\ Seen(t, b) = Seen(s, b)
  BY <1>3, Zenon DEF Present, Seen
<1>9. t.logs = s0.logs
  BY <1>3, <1>6, Zenon DEF Sets
<1>10. \A b \in Addrs : Present(s0, b) => Present(t, b) /\ SameAccount(Seen(t, b), Seen(s0, b))
  BY <1>6, <1>7, <1>8, Zenon
<1>11. Keeps(Now(t), Now(s0))
  BY <1>5, <1>9, <1>10, NowKeeps, Zenon
<1> QED BY <1>1, <1>5, <1>11, Zenon

\* One log more, and one less again.
LEMMA OneMore ==
    ASSUME NEW l \in [Txs -> Nat], NEW x \in Txs, NEW m, m = [l EXCEPT ![x] = @ + 1]
    PROVE  m[x] # 0 /\ [m EXCEPT ![x] = @ - 1] = l
<1>1. DOMAIN m = Txs /\ m[x] = l[x] + 1 /\ \A y \in Txs \ {x} : m[y] = l[y]
  OBVIOUS
<1>2. l[x] \in Nat
  OBVIOUS
<1>3. PICK k : k = [m EXCEPT ![x] = @ - 1]
  BY Zenon
<1>4. DOMAIN k = Txs /\ k[x] = m[x] - 1 /\ \A y \in Txs \ {x} : k[y] = m[y]
  BY <1>1, <1>3
<1>5. k[x] = l[x] /\ m[x] # 0
  BY <1>1, <1>2, <1>4
<1>6. k = l
  <2>1. k = [y \in Txs |-> k[y]] /\ l = [y \in Txs |-> l[y]]
    BY <1>3, <1>1
  <2> QED BY <1>1, <1>4, <1>5, <2>1
<1> QED BY <1>3, <1>5, <1>6

\* logChange takes the log back.
LEMMA UndoesLog ==
    ASSUME NEW s0, Fine(s0), NEW s1, Fine(s1), NEW x \in Txs,
           s1 = [s0 EXCEPT !.logs[x] = @ + 1, !.logSize = @ + 1],
           NEW e \in Entry, e.op = "log", e.tx = x
    PROVE  Undoes(e, Now(s1), Now(s0))
<1> SUFFICES ASSUME NEW s, Fine(s), Keeps(Now(s), Now(s1))
             PROVE  Fine(Undo(s, e)) /\ Keeps(Now(Undo(s, e)), Now(s0))
  BY Zenon DEF Undoes
<1>0. s \in State /\ Sound(s) /\ s0 \in State
  BY Zenon DEF Fine, Sound
<1>1. PICK t : t = Undo(s, e)
  OBVIOUS
<1>2. t = [s EXCEPT !.logs[x] = @ - 1, !.logSize = @ - 1]
  BY <1>1 DEF Undo
<1>3. /\ t.obj = s.obj /\ t.live = s.live /\ t.cached = s.cached /\ t.tree = s.tree
      /\ t.logs = [s.logs EXCEPT ![x] = @ - 1]
  BY <1>0, <1>2, StateFields
<1>4. /\ s1.obj = s0.obj /\ s1.live = s0.live /\ s1.cached = s0.cached /\ s1.tree = s0.tree
      /\ s1.logs = [s0.logs EXCEPT ![x] = @ + 1]
  BY <1>0, StateFields
<1>5. /\ s.logs = s1.logs
      /\ \A b \in Addrs : Present(s1, b) => Present(s, b) /\ SameAccount(Seen(s, b), Seen(s1, b))
  BY NowKeeps, Zenon
<1>6. s0.logs \in [Txs -> Nat]
  BY <1>0, StateFields
<1>7. s.logs[x] # 0 /\ t.logs = s0.logs
  <2>1. PICK l \in [Txs -> Nat] : l = s0.logs
    BY <1>6
  <2>2. PICK m : m = [l EXCEPT ![x] = @ + 1]
    BY Zenon
  <2>3. m[x] # 0 /\ [m EXCEPT ![x] = @ - 1] = l
    BY <2>2, OneMore, ZenonT(40)
  <2>4. s.logs = m
    BY ONLY <1>4, <1>5, <2>1, <2>2, Zenon
  <2>5. t.logs = [m EXCEPT ![x] = @ - 1]
    BY ONLY <1>3, <2>4, Zenon
  <2> QED BY ONLY <2>1, <2>3, <2>4, <2>5, Zenon
<1>8. Sound(t)
  BY <1>0, <1>1, <1>7, UndoSound
<1>9. Fine(t)
  BY <1>3, <1>8, ZenonT(40) DEF Fine
<1>10. /\ \A b \in Addrs : (Present(s1, b) <=> Present(s0, b)) /\ Seen(s1, b) = Seen(s0, b)
       /\ \A b \in Addrs : (Present(t, b) <=> Present(s, b)) /\ Seen(t, b) = Seen(s, b)
  BY ONLY <1>3, <1>4, Zenon DEF Present, Seen
<1>11. \A b \in Addrs : Present(s0, b) => Present(t, b) /\ SameAccount(Seen(t, b), Seen(s0, b))
  BY <1>5, <1>10, Zenon
<1>12. Keeps(Now(t), Now(s0))
  BY <1>7, <1>9, <1>11, NowKeeps, Zenon
<1> QED BY <1>1, <1>9, <1>12, Zenon

----------------------------------------------------------------------------
(* The accounts along the journal. *)

\* W is the state before and after each entry: the loop has come to W[n], undoing
\* an entry goes one state back, and each revision points to what was saved for it.
Trail(W, n) ==
    /\ Keeps(Now(st), W[n])
    /\ \A j \in 1..len : Undoes(entries[j], W[j], W[j - 1])
    /\ \A i \in 1..Len(revision) : Keeps(W[revision[i].journalIndex], saved[i])

History ==
    /\ Fine(st)
    /\ \A j \in 1..Len(entries) : entries[j].op = "gas" => entries[j].amount >= 0
    /\ Len(saved) = Len(revision) /\ \E S : saved \in Seq(S)
    /\ pc # "refund" =>
         /\ \A i \in 1..Len(revision) : revision[i].journalIndex <= len
         /\ \A i, j \in 1..Len(revision) : i <= j => revision[i].journalIndex <= revision[j].journalIndex
         /\ \E W : Trail(W, IF pc = "revert" THEN cur ELSE len)
    /\ pc = "revert" => cur >= revision[arg + 1].journalIndex

\* An entry that undoes a change undoes it from any state that keeps more, and to
\* any that keeps less.
LEMMA UndoesWeaker ==
    ASSUME NEW e, NEW w, NEW v, Undoes(e, w, v)
    PROVE  /\ \A x : Keeps(x, w) => Undoes(e, x, v)
           /\ \A y : Keeps(v, y) => Undoes(e, w, y)
BY KeepsOrder, Zenon DEF Undoes

\* The slots of the journal after an append.
LEMMA AppendSlots ==
    ASSUME entries \in Seq(Entry), len \in 0..Len(entries), NEW es \in Seq(Entry), JournalAppend(es)
    PROVE  /\ len' = len + Len(es)
           /\ \A j \in 1..len : entries'[j] = entries[j]
           /\ \A k \in 1..Len(es) : entries'[len + k] = es[k]
           /\ \A j \in 1..Len(entries') : j > len + Len(es) =>
                  j \in 1..Len(entries) /\ entries'[j] = entries[j]
<1> DEFINE p == SubSeq(entries, 1, len)
           q == SubSeq(entries, len + Len(es) + 1, Len(entries))
<1>1. /\ p \in Seq(Entry) /\ Len(p) = len
      /\ \A i \in 1..Len(p) : p[i] = entries[1 + i - 1]
  BY SubSeqProperties
<1>2. /\ q \in Seq(Entry)
      /\ Len(q) = IF len + Len(es) + 1 <= Len(entries) THEN Len(entries) - len - Len(es) ELSE 0
      /\ \A i \in 1..Len(q) : q[i] = entries[len + Len(es) + 1 + i - 1]
  BY SubSeqProperties
<1>3. entries' = (p \o es) \o q /\ len' = len + Len(es)
  BY DEF JournalAppend
<1> HIDE DEF p, q
<1>4. /\ p \o es \in Seq(Entry) /\ Len(p \o es) = len + Len(es)
      /\ \A i \in 1..(len + Len(es)) : (p \o es)[i] = IF i <= len THEN p[i] ELSE es[i - len]
  BY <1>1, ConcatProperties, Zenon
<1>5. /\ entries' \in Seq(Entry) /\ Len(entries') = len + Len(es) + Len(q)
      /\ \A i \in 1..Len(entries') :
            entries'[i] = IF i <= len + Len(es) THEN (p \o es)[i] ELSE q[i - (len + Len(es))]
  <2>1. PICK r \in Seq(Entry) : r = p \o es /\ Len(r) = len + Len(es)
    BY <1>4, Zenon
  <2>2. /\ r \o q \in Seq(Entry) /\ Len(r \o q) = Len(r) + Len(q)
        /\ \A i \in 1..(Len(r) + Len(q)) : (r \o q)[i] = IF i <= Len(r) THEN r[i] ELSE q[i - Len(r)]
    BY <1>2, ConcatProperties, Zenon
  <2>3. entries' = r \o q
    BY <1>3, <2>1, ZenonT(40)
  <2> QED BY <2>1, <2>2, <2>3, Zenon
<1>6. Len(es) \in Nat /\ Len(q) \in Nat /\ Len(entries) \in Nat /\ len \in Nat
  BY <1>2
<1>7. ASSUME NEW j \in 1..len PROVE entries'[j] = entries[j]
  <2>1. j \in 1..Len(entries') /\ j <= len + Len(es) /\ j \in 1..(len + Len(es)) /\ j <= len
    BY <1>5, <1>6, SMTT(40)
  <2>2. entries'[j] = p[j] /\ j \in 1..Len(p)
    BY <1>1, <1>4, <1>5, <2>1
  <2>3. 1 + j - 1 = j
    OBVIOUS
  <2> QED BY <1>1, <2>2, <2>3, SMTT(40)
<1>8. ASSUME NEW k \in 1..Len(es) PROVE entries'[len + k] = es[k]
  <2>1. len + k \in 1..Len(entries') /\ len + k \in 1..(len + Len(es)) /\ ~(len + k <= len)
        /\ len + k <= len + Len(es) /\ len + k - len = k
    BY <1>5, <1>6
  <2>2. entries'[len + k] = (p \o es)[len + k]
    BY <1>5, <2>1, ZenonT(40)
  <2>3. (p \o es)[len + k] = es[len + k - len]
    BY <1>4, <2>1, SMTT(40)
  <2> QED BY <2>1, <2>2, <2>3, SMTT(40)
<1>9. ASSUME NEW j \in 1..Len(entries'), j > len + Len(es)
      PROVE  j \in 1..Len(entries) /\ entries'[j] = entries[j]
  <2>1. PICK i : i = j - (len + Len(es))
    OBVIOUS
  <2>2. i \in 1..Len(q) /\ ~(j <= len + Len(es)) /\ len + Len(es) + 1 + i - 1 = j
    BY <1>5, <1>6, <1>9, <2>1
  <2>3. Len(q) = Len(entries) - len - Len(es)
    BY <1>2, <1>6, <2>2, SMTT(40)
  <2>4. j \in 1..Len(entries)
    BY <1>5, <1>6, <1>9, <2>1, <2>2, <2>3, SMTT(40)
  <2>5. entries'[j] = q[i]
    BY <1>5, <2>1, <2>2, SMTT(40)
  <2> QED BY <1>2, <2>2, <2>4, <2>5, SMTT(40)
<1> QED BY <1>3, <1>7, <1>8, <1>9, ZenonT(40)

\* When no loop runs the last state of the trail can be the present one.
LEMMA Refresh ==
    ASSUME Inv, History, pc = "idle"
    PROVE  \E W : W[len] = Now(st) /\ Trail(W, len)
<1>1. PICK W : Trail(W, len)
  BY Zenon DEF History
<1>2. len \in Nat /\ Len(revision) \in Nat
  BY DEF Inv, TypeOK
<1>3. \A i \in 1..Len(revision) : revision[i].journalIndex \in 0..len
  BY <1>2, RevisionFields DEF Inv, History
<1>4. PICK X : X = [j \in 0..len |-> IF j = len THEN Now(st) ELSE W[j]]
  BY Zenon
<1>5. len \in 0..len /\ \A j \in 1..len : j \in 0..len /\ j - 1 \in 0..len /\ j - 1 # len
  BY <1>2
<1>6. X[len] = Now(st) /\ \A j \in 0..len : j # len => X[j] = W[j]
  BY <1>4, <1>5, Zenon
<1>7. \A j \in 0..len : Keeps(X[j], W[j])
  BY <1>1, <1>6, KeepsOrder, Zenon DEF Trail
<1>8. ASSUME NEW j \in 1..len PROVE Undoes(entries[j], X[j], X[j - 1])
  <2>1. Undoes(entries[j], W[j], W[j - 1])
    BY <1>1, Zenon DEF Trail
  <2>2. X[j - 1] = W[j - 1] /\ Keeps(X[j], W[j])
    BY <1>5, <1>6, <1>7, Zenon
  <2> QED BY <2>1, <2>2, UndoesWeaker, Zenon
<1>9. ASSUME NEW i \in 1..Len(revision) PROVE Keeps(X[revision[i].journalIndex], saved[i])
  BY <1>1, <1>3, <1>7, KeepsOrder, ZenonT(40) DEF Trail
<1>10. Keeps(Now(st), X[len])
  BY <1>6, KeepsOrder, ZenonT(40)
<1> QED BY <1>6, <1>8, <1>9, <1>10, Zenon DEF Trail

\* A call that goes from Now(st) along V and leaves an entry for each step.
LEMMA ChangeHistory ==
    ASSUME Inv, History, pc = "idle", NEW s, Fine(s), NEW es \in Seq(Entry), Change(s, es),
           \A k \in 1..Len(es) : es[k].op = "gas" => es[k].amount >= 0,
           NEW V, V[0] = Now(st), Keeps(Now(s), V[Len(es)]),
           \A k \in 1..Len(es) : Undoes(es[k], V[k], V[k - 1])
    PROVE  History'
<1>0. /\ entries \in Seq(Entry) /\ len \in 0..Len(entries) /\ len \in Nat /\ Len(es) \in Nat
      /\ Len(entries) \in Nat /\ Len(revision) \in Nat
  BY SMTT(40) DEF Inv, TypeOK
<1>1. /\ st' = s /\ pc' = "idle" /\ cur' = cur /\ arg' = arg /\ JournalAppend(es)
      /\ revision' = revision /\ saved' = saved
  BY SMTT(40) DEF Change, revVars, loopVars
<1>2. /\ len' = len + Len(es)
      /\ \A j \in 1..len : entries'[j] = entries[j]
      /\ \A k \in 1..Len(es) : entries'[len + k] = es[k]
      /\ \A j \in 1..Len(entries') : j > len + Len(es) =>
             j \in 1..Len(entries) /\ entries'[j] = entries[j]
  BY <1>0, <1>1, AppendSlots, SMTT(40)
<1>3. \A j \in 1..Len(entries') :
         \/ j \in 1..len \/ (\E k \in 1..Len(es) : j = len + k) \/ j > len + Len(es)
  <2>1. TAKE j \in 1..Len(entries')
  <2>2. CASE j <= len
    BY <1>0, <2>2
  <2>3. CASE j > len /\ j <= len + Len(es)
    <3>1. j - len \in 1..Len(es) /\ j = len + (j - len)
      BY <1>0, <2>3
    <3> QED BY <3>1, ZenonT(40)
  <2> QED BY <1>0, <2>2, <2>3
<1>4. \A j \in 1..Len(entries') : entries'[j].op = "gas" => entries'[j].amount >= 0
  <2>1. TAKE j \in 1..Len(entries')
  <2>2. CASE j \in 1..len
    <3>1. j \in 1..Len(entries)
      BY <1>0, <2>2
    <3> QED BY <1>2, <2>2, <3>1, ZenonT(40) DEF History
  <2>3. CASE \E k \in 1..Len(es) : j = len + k
    BY <1>2, <2>3, Zenon
  <2>4. CASE j > len + Len(es)
    BY <1>2, <2>4, ZenonT(40) DEF History
  <2> QED BY <1>3, <2>2, <2>3, <2>4, ZenonT(40)
<1>5. \A i \in 1..Len(revision) : revision[i].journalIndex \in 0..len
  BY <1>0, RevisionFields, SMTT(40) DEF Inv, History
<1>6. PICK W : W[len] = Now(st) /\ Trail(W, len)
  BY Refresh
<1>7. PICK X : X = [j \in 0..(len + Len(es)) |-> IF j <= len THEN W[j] ELSE V[j - len]]
  BY Zenon
<1>8. \A j \in 0..len : X[j] = W[j]
  <2>1. \A j \in 0..len : j \in 0..(len + Len(es)) /\ j <= len
    BY <1>0, SMTT(40)
  <2> QED BY <1>7, <2>1, ZenonT(40)
<1>9. \A k \in 0..Len(es) : X[len + k] = V[k]
  <2>1. TAKE k \in 0..Len(es)
  <2>2. CASE k = 0
    BY <1>0, <1>6, <1>8, <2>2, SMTT(40)
  <2>3. CASE k # 0
    <3>1. len + k \in 0..(len + Len(es)) /\ ~(len + k <= len) /\ (len + k) - len = k
      BY <1>0, <2>3
    <3>2. X[len + k] = V[(len + k) - len]
      BY <1>7, <3>1, ZenonT(40)
    <3> QED BY <3>1, <3>2, SMTT(40)
  <2> QED BY <2>2, <2>3, SMTT(40)
<1>10. ASSUME NEW j \in 1..(len + Len(es)) PROVE Undoes(entries'[j], X[j], X[j - 1])
  <2>1. CASE j <= len
    <3>1. j \in 1..len /\ j \in 0..len /\ j - 1 \in 0..len
      BY <1>0, <2>1
    <3> QED BY <1>2, <1>6, <1>8, <3>1, ZenonT(40) DEF Trail
  <2>2. CASE ~(j <= len)
    <3>1. PICK k : k = j - len
      BY SMTT(40)
    <3>2. k \in 1..Len(es) /\ k \in 0..Len(es) /\ k - 1 \in 0..Len(es) /\ j = len + k /\ j - 1 = len + (k - 1)
      BY <1>0, <2>2, <3>1
    <3>3. X[j] = V[k] /\ X[j - 1] = V[k - 1] /\ entries'[j] = es[k]
      BY <1>2, <1>9, <3>2, ZenonT(40)
    <3> QED BY <3>2, <3>3, ZenonT(40)
  <2> QED BY <2>1, <2>2
<1>11. \A i \in 1..Len(revision) : Keeps(X[revision[i].journalIndex], saved[i])
  BY <1>5, <1>6, <1>8, Zenon DEF Trail
<1>12. Keeps(Now(s), X[len + Len(es)])
  <2>1. Len(es) \in 0..Len(es)
    BY <1>0
  <2> QED BY <1>9, <2>1, ZenonT(40)
<1>13. Trail(X, len)'
  <2>1. /\ Keeps(Now(st'), X[len'])
        /\ \A j \in 1..len' : Undoes(entries'[j], X[j], X[j - 1])
        /\ \A i \in 1..Len(revision') : Keeps(X[revision'[i].journalIndex], saved'[i])
    BY <1>1, <1>2, <1>10, <1>11, <1>12, ZenonT(40)
  <2> QED BY <2>1, Zenon DEF Trail, Now, Visible, Keeps, Undoes
<1>14. \A i \in 1..Len(revision) : revision[i].journalIndex <= len + Len(es)
  BY <1>0, <1>5, SMTT(40)
<1>15. Fine(st')
  BY <1>1, SMTT(40)
<1>16. (pc # "refund" =>
         /\ \A i \in 1..Len(revision) : revision[i].journalIndex <= len
         /\ \A i, j \in 1..Len(revision) : i <= j => revision[i].journalIndex <= revision[j].journalIndex
         /\ \E Y : Trail(Y, IF pc = "revert" THEN cur ELSE len))'
  <2>1. \A i, j \in 1..Len(revision) : i <= j => revision[i].journalIndex <= revision[j].journalIndex
    BY ZenonT(40) DEF History
  <2>2. (IF pc' = "revert" THEN cur' ELSE len') = len'
    BY <1>1
  <2> QED BY <1>1, <1>2, <1>13, <1>14, <2>1, <2>2, SMTT(40)
<1> QED BY <1>1, <1>4, <1>15, <1>16, SMTT(40) DEF History

\* A call that leaves no entry and changes nothing that is seen.
LEMMA ChangeNone ==
    ASSUME Inv, History, pc = "idle", NEW s, Fine(s), Change(s, <<>>), Keeps(Now(s), Now(st))
    PROVE  History'
<1>1. PICK V : V = [k \in {0} |-> Now(st)]
  BY Zenon
<1>2. V[0] = Now(st)
  BY <1>1
<1>3. <<>> \in Seq(Entry) /\ Len(<<>>) = 0 /\ 1..0 = {}
  OBVIOUS
<1>4. PICK es : es = <<>>
  OBVIOUS
<1>5. /\ es \in Seq(Entry) /\ Change(s, es) /\ Keeps(Now(s), V[Len(es)])
      /\ \A k \in 1..Len(es) : es[k].op = "gas" => es[k].amount >= 0
      /\ \A k \in 1..Len(es) : Undoes(es[k], V[k], V[k - 1])
  BY <1>2, <1>3, <1>4
<1> HIDE DEF History, Inv
<1> QED BY <1>2, <1>5, ChangeHistory, Zenon

\* A call that leaves one entry.
LEMMA ChangeOne ==
    ASSUME Inv, History, pc = "idle", NEW s, Fine(s), NEW e \in Entry, Change(s, <<e>>),
           e.op = "gas" => e.amount >= 0, Undoes(e, Now(s), Now(st))
    PROVE  History'
<1>1. PICK V : V = [k \in 0..1 |-> IF k = 0 THEN Now(st) ELSE Now(s)]
  BY Zenon
<1>2. V[0] = Now(st) /\ V[1] = Now(s)
  BY <1>1
<1>3. PICK es : es = <<e>>
  OBVIOUS
<1>4. es \in Seq(Entry) /\ Len(es) = 1 /\ es[1] = e /\ \A k \in 1..1 : k = 1 /\ k - 1 = 0
  BY <1>3
<1>5. Keeps(Now(s), V[1])
  BY <1>2, KeepsOrder, Zenon
<1>6. Undoes(es[1], V[1], V[0])
  BY <1>2, <1>4, Zenon
<1>7. /\ \A k \in 1..Len(es) : es[k].op = "gas" => es[k].amount >= 0
      /\ \A k \in 1..Len(es) : Undoes(es[k], V[k], V[k - 1])
  BY <1>4, <1>6, Zenon
<1>8. Change(s, es)
  BY <1>3
<1> QED BY <1>2, <1>4, <1>5, <1>7, <1>8, ChangeHistory, ZenonT(40)

\* A call that creates an object, and leaves an entry of its own.
LEMMA ChangeTwo ==
    ASSUME Inv, History, pc = "idle", NEW s, Fine(s), NEW d \in Entry, NEW e \in Entry,
           Change(s, <<d, e>>), d.op = "create", e.op = "gas" => e.amount >= 0,
           NEW m, Undoes(d, Now(m), Now(st)), Undoes(e, Now(s), Now(m))
    PROVE  History'
<1>1. PICK V : V = [k \in 0..2 |-> IF k = 0 THEN Now(st) ELSE IF k = 1 THEN Now(m) ELSE Now(s)]
  BY Zenon
<1>2. V[0] = Now(st) /\ V[1] = Now(m) /\ V[2] = Now(s)
  BY <1>1
<1>3. PICK es : es = <<d, e>>
  OBVIOUS
<1>4. /\ es \in Seq(Entry) /\ Len(es) = 2 /\ es[1] = d /\ es[2] = e
      /\ \A k \in 1..2 : (k = 1 /\ k - 1 = 0) \/ (k = 2 /\ k - 1 = 1)
  BY <1>3
<1>5. Keeps(Now(s), V[2])
  BY <1>2, KeepsOrder, Zenon
<1>6. Undoes(es[1], V[1], V[0]) /\ Undoes(es[2], V[2], V[1])
  BY <1>2, <1>4, Zenon
<1>7. \A k \in 1..Len(es) : Undoes(es[k], V[k], V[k - 1])
  BY <1>4, <1>6, ZenonT(40)
<1>8. \A k \in 1..Len(es) : es[k].op = "gas" => es[k].amount >= 0
  BY <1>4
<1>9. Change(s, es)
  BY <1>3
<1> QED BY <1>2, <1>4, <1>5, <1>7, <1>8, <1>9, ChangeHistory, ZenonT(40)

\* Two entries, one after the other.
LEMMA TwoEntries ==
    ASSUME NEW d \in Entry, NEW e \in Entry
    PROVE  <<d>> \o <<e>> = <<d, e>>
<1>1. <<d>> \in Seq(Entry) /\ <<e>> \in Seq(Entry) /\ <<d, e>> \in Seq(Entry)
  OBVIOUS
<1>2. PICK c : c = <<d>> \o <<e>>
  BY Zenon
<1>3. Len(<<d>>) = 1 /\ Len(<<e>>) = 1 /\ Len(<<d, e>>) = 2
  OBVIOUS
<1>4. c \in Seq(Entry) /\ Len(c) = 2 /\ c[1] = d /\ c[2] = e
  <2>1. /\ c \in Seq(Entry) /\ Len(c) = Len(<<d>>) + Len(<<e>>)
        /\ \A i \in 1..(Len(<<d>>) + Len(<<e>>)) :
               c[i] = IF i <= Len(<<d>>) THEN <<d>>[i] ELSE <<e>>[i - Len(<<d>>)]
    BY <1>1, <1>2, ConcatProperties, ZenonT(40)
  <2> QED BY <1>3, <2>1
<1>5. \A i \in 1..Len(c) : c[i] = <<d, e>>[i]
  <2>1. \A i \in 1..Len(c) : i = 1 \/ i = 2
    BY <1>4
  <2> QED BY <1>4, <2>1
<1>6. c = <<d, e>>
  BY <1>1, <1>3, <1>4, <1>5, SeqEqual, SMTT(40)
<1> QED BY <1>2, <1>6, Zenon

\* The new object.
LEMMA NewFine == ~newStateObject.deleted /\ newStateObject.bal >= 0
BY DEF newStateObject

\* What is seen after Load.
LEMMA LoadFine ==
    ASSUME NEW s, Fine(s), NEW a \in Addrs
    PROVE  Fine(Load(s, a)) /\ Keeps(Now(Load(s, a)), Now(s))
<1>1. CASE Present(s, a)
  <2>1. PICK q, o : q = Load(s, a) /\ o = Seen(s, a)
    OBVIOUS
  <2>2. Sets(s, q, a, o) /\ Sound(q) /\ ~o.deleted /\ o.bal >= 0
    BY <1>1, <2>1, LoadIs, SeenObject, ZenonT(40)
  <2>3. Fine(q)
    BY <2>2, SetsFine, Zenon
  <2>4. /\ Present(q, a) /\ Seen(q, a) = o
        /\ \A b \in Addrs \ {a} : (Present(q, b) <=> Present(s, b)) /\ Seen(q, b) = Seen(s, b)
    BY <2>2, SetsSeen, ZenonT(40)
  <2>5. q.logs = s.logs
    BY <2>2, Zenon DEF Sets
  <2>6. \A b \in Addrs : Present(s, b) => Present(q, b) /\ SameAccount(Seen(q, b), Seen(s, b))
    <3>1. SameAccount(o, o) /\ \A b \in Addrs : SameAccount(Seen(s, b), Seen(s, b))
      BY SameEquivalence, Zenon
    <3>2. TAKE b \in Addrs
    <3>3. CASE b = a
      BY <2>1, <2>4, <3>1, <3>3
    <3>4. CASE b # a
      BY <2>4, <3>1, <3>4
    <3> QED BY <3>3, <3>4
  <2>7. Keeps(Now(q), Now(s))
    BY <2>3, <2>5, <2>6, NowKeeps, Zenon
  <2> QED BY <2>1, <2>3, <2>7, ZenonT(40)
<1>2. CASE ~Present(s, a)
  <2>1. Load(s, a) = s
    BY <1>2, Zenon DEF Load, Present
  <2> QED BY <2>1, KeepsOrder, Zenon
<1> QED BY <1>1, <1>2

\* Load gives the object that is seen.
LEMMA LoadGives ==
    ASSUME NEW s, Fine(s), NEW a \in Addrs, Present(s, a)
    PROVE  LET l == Load(s, a) IN Present(l, a) /\ Seen(l, a) = Seen(s, a) /\ l.obj[a] = Seen(s, a)
<1>1. PICK q, o : q = Load(s, a) /\ o = Seen(s, a)
  BY Zenon
<1>2. Sets(s, q, a, o)
  BY <1>1, LoadIs, Zenon
<1>3. Present(q, a) /\ Seen(q, a) = o /\ q.obj[a] = o
  BY <1>2, SetsGives, ZenonT(40)
<1> QED BY <1>1, <1>3

\* setStateObj sets the object that is seen.
LEMMA PutGives ==
    ASSUME NEW s \in State, NEW a \in Addrs, NEW o
    PROVE  LET p == Put(s, a, o) IN Present(p, a) /\ Seen(p, a) = o /\ p.obj[a] = o
<1>1. PICK p : p = Put(s, a, o)
  BY Zenon
<1>2. a \in p.live /\ p.obj[a] = o
  BY <1>1, StateFields, SMTT(40) DEF Put
<1> QED BY <1>1, <1>2 DEF Present, Seen

\* A call that gets or makes an object and then changes it.
LEMMA GetOrNewHistory ==
    ASSUME Inv, History, pc = "idle", NEW a \in Addrs, NEW q, q = GetOrNew(st, a),
           NEW o, o = q.obj[a], NEW o1 \in Object, ~o1.deleted, o1.bal >= 0,
           NEW s, Sound(s), Sets(q, s, a, o1),
           NEW e \in Entry, e.op # "log", e.a = a, Change(s, NewEntries(st, a) \o <<e>>),
           GivesBack(e, o, o1), e.op # "gas"
    PROVE  History'
<1>0. Fine(st) /\ st \in State /\ Sound(st)
  BY DEF History, Fine, Sound
<1>1. Exists(st, a) <=> Present(st, a)
  BY <1>0, VisibleIs, Zenon
<1>3. ASSUME Fine(q), Present(q, a), Seen(q, a) = o PROVE Fine(s) /\ Undoes(e, Now(s), Now(q))
  <2>1. Fine(s)
    BY <1>3, SetsFine, Zenon
  <2>2. Undoes(e, Now(s), Now(q))
    BY <1>3, <2>1, UndoesObject, ZenonT(40)
  <2> QED BY <2>1, <2>2, Zenon
<1>4. CASE Exists(st, a)
  <2>1. q = Load(st, a) /\ NewEntries(st, a) = <<>>
    BY <1>4, Zenon DEF GetOrNew, NewEntries
  <2>2. Fine(q) /\ Keeps(Now(q), Now(st)) /\ Sets(st, q, a, Seen(st, a))
    <3>1. PICK l : l = Load(st, a)
      OBVIOUS
    <3>2. Fine(l) /\ Keeps(Now(l), Now(st)) /\ Sets(st, l, a, Seen(st, a))
      BY <1>0, <1>1, <1>4, <3>1, LoadFine, LoadIs, ZenonT(40)
    <3> QED BY <2>1, <3>1, <3>2, ZenonT(40)
  <2>3. Present(q, a) /\ Seen(q, a) = o
    <3>1. LET l == Load(st, a) IN Present(l, a) /\ Seen(l, a) = Seen(st, a) /\ l.obj[a] = Seen(st, a)
      BY <1>0, <1>1, <1>4, LoadGives, ZenonT(40)
    <3> QED BY <2>1, <3>1
  <2>4. Fine(s) /\ Undoes(e, Now(s), Now(q))
    BY <1>3, <2>2, <2>3, ZenonT(40)
  <2>5. Undoes(e, Now(s), Now(st))
    BY <2>2, <2>4, UndoesWeaker, ZenonT(40)
  <2>6. <<>> \o <<e>> = <<e>>
    BY CallEntries, SMTT(40)
  <2>7. Change(s, <<e>>)
    BY <2>1, <2>6
  <2> QED BY <2>4, <2>5, <2>7, ChangeOne, ZenonT(40)
<1>5. CASE ~Exists(st, a)
  <2>1. q = Put(st, a, newStateObject) /\ NewEntries(st, a) = CreateEntry(a)
    BY <1>5, ZenonT(40) DEF GetOrNew, NewEntries
  <2>2. Sets(st, q, a, newStateObject) /\ Sound(q)
    <3>1. Sets(st, Put(st, a, newStateObject), a, newStateObject)
      BY <1>0, PutSets, SMTT(40)
    <3>2. Sound(Put(st, a, newStateObject))
      BY <1>0, PutSound, NewObject, SMTT(40)
    <3> QED BY <2>1, <3>1, <3>2, SMTT(40)
  <2>3. Fine(q)
    BY <1>0, <2>2, NewFine, SetsFine, ZenonT(40)
  <2>4. Present(q, a) /\ Seen(q, a) = o
    <3>1. LET p == Put(st, a, newStateObject) IN
          Present(p, a) /\ Seen(p, a) = newStateObject /\ p.obj[a] = newStateObject
      BY <1>0, PutGives
    <3> QED BY <2>1, <3>1, SMTT(40)
  <2>5. Fine(s) /\ Undoes(e, Now(s), Now(q))
    BY <1>3, <2>3, <2>4, Zenon
  <2>6. PICK d : d = [op |-> "create", a |-> a]
    BY ZenonT(40)
  <2>7. d \in Entry /\ d.op = "create" /\ d.a = a
    BY <2>6 DEF Entry
  <2>8. Undoes(d, Now(q), Now(st))
    BY <1>0, <1>1, <1>5, <2>2, <2>3, <2>7, UndoesCreate, ZenonT(40)
  <2>9. CreateEntry(a) \o <<e>> = <<d, e>>
    BY <2>6, <2>7, TwoEntries, SMTT(40) DEF CreateEntry
  <2>10. Change(s, <<d, e>>)
    BY <2>1, <2>9, ZenonT(40)
  <2> QED BY <2>5, <2>7, <2>8, <2>10, ChangeTwo, ZenonT(40)
<1> QED BY <1>4, <1>5, SMTT(40)

----------------------------------------------------------------------------
(* One step per call. *)

\* The object that GetOrNewStateObj gives.
LEMMA GetOrNewIs ==
    ASSUME Fine(st), NEW a \in Addrs, NEW q, q = GetOrNew(st, a), NEW o, o = q.obj[a]
    PROVE  /\ Sound(q) /\ q \in State /\ a \in q.live
           /\ o \in Object /\ ~o.deleted /\ o.bal >= 0
           /\ o.nonce \in Nat /\ o.bal \in Int /\ o.code \in Codes \cup {NoCode}
<1>1. Sound(st) /\ st \in State
  BY SMTT(40) DEF Fine, Sound
<1>2. Sound(q) /\ q \in State /\ a \in q.live
  BY <1>1, GetOrNewSound, SMTT(40) DEF Sound
<1>3. o \in Object
  BY <1>2, ObjectFields, SMTT(40)
<1>4. ~o.deleted /\ o.bal >= 0
  <2>1. CASE Exists(st, a)
    <3>1. q = Load(st, a)
      BY <2>1, ZenonT(40) DEF GetOrNew
    <3>2. Fine(Load(st, a))
      BY LoadFine, SMTT(40)
    <3> QED BY <3>1, <3>2 DEF Fine
  <2>2. CASE ~Exists(st, a)
    <3>1. q = Put(st, a, newStateObject)
      BY <2>2, ZenonT(40) DEF GetOrNew
    <3>2. Put(st, a, newStateObject).obj[a] = newStateObject
      BY <1>1, PutSound, NewObject
    <3> QED BY <3>1, <3>2, NewFine
  <2> QED BY <2>1, <2>2, SMTT(40)
<1> QED BY <1>2, <1>3, <1>4, SMTT(40) DEF Object

\* SetNonce.
LEMMA SetNonceHistory ==
    ASSUME Inv, History, NEW a \in Addrs, NEW n \in Nonces, SetNonce(a, n)
    PROVE  History'
<1>1. PICK q : q = GetOrNew(st, a)
  OBVIOUS
<1>2. PICK o : o = q.obj[a]
  OBVIOUS
<1>3. /\ Sound(q) /\ q \in State /\ a \in q.live /\ pc = "idle" /\ n \in Nat
      /\ o \in Object /\ ~o.deleted /\ o.bal >= 0 /\ o.nonce \in Nat
  BY <1>1, <1>2, GetOrNewIs, StateAssumption, ZenonT(40) DEF History, SetNonce, Idle
<1>4. PICK e : e = [op |-> "nonce", a |-> a, prev |-> o.nonce]
  BY ZenonT(40)
<1>5. e \in Entry /\ e.op = "nonce" /\ e.op # "log" /\ e.op # "gas" /\ e.a = a /\ e.prev = o.nonce
  BY <1>3, <1>4, SMTT(40) DEF Entry
<1>6. PICK s : s = SetNonceOf(q, a, n)
  OBVIOUS
<1>7. PICK o1 : o1 = [o EXCEPT !.nonce = n]
  BY Zenon
<1>8. o1 \in Object /\ o1.deleted = o.deleted /\ o1.bal = o.bal
  BY <1>3, <1>7 DEF Object
<1>9. Sound(s) /\ Sets(q, s, a, o1)
  BY <1>2, <1>3, <1>6, <1>7, SettersSound, SettersSet, ZenonT(40)
<1>10. GivesBack(e, o, o1)
  BY <1>5, <1>7, ZenonT(40) DEF GivesBack
<1>11. Change(s, NewEntries(st, a) \o <<e>>)
  BY <1>1, <1>2, <1>4, <1>6, SMTT(40) DEF SetNonce
<1>12. ~o1.deleted /\ o1.bal >= 0
  BY <1>3, <1>8
<1> QED BY <1>1, <1>2, <1>3, <1>5, <1>8, <1>9, <1>10, <1>11, <1>12, GetOrNewHistory, ZenonT(40)

\* AddBalance.
LEMMA AddBalanceHistory ==
    ASSUME Inv, History, NEW a \in Addrs, NEW v \in Amounts, AddBalance(a, v)
    PROVE  History'
<1>1. PICK q : q = GetOrNew(st, a)
  OBVIOUS
<1>2. PICK o : o = q.obj[a]
  OBVIOUS
<1>3. /\ Sound(q) /\ q \in State /\ a \in q.live /\ pc = "idle" /\ v \in Nat
      /\ o \in Object /\ ~o.deleted /\ o.bal >= 0 /\ o.bal \in Int
  BY <1>1, <1>2, GetOrNewIs, StateAssumption, SMTT(40) DEF History, AddBalance, Idle
<1>4. PICK e : e = [op |-> "balance", a |-> a, amount |-> v]
  BY ZenonT(40)
<1>5. e \in Entry /\ e.op = "balance" /\ e.op # "log" /\ e.op # "gas" /\ e.a = a /\ e.amount = v
  BY <1>3, <1>4, SMTT(40) DEF Entry
<1>6. PICK s : s = SetBalanceOf(q, a, o.bal + v)
  OBVIOUS
<1>7. PICK o1 : o1 = [o EXCEPT !.bal = o.bal + v]
  BY Zenon
<1>8. o1 \in Object /\ o1.deleted = o.deleted /\ o1.bal >= 0
  BY <1>3, <1>7 DEF Object
<1>9. Sound(s) /\ Sets(q, s, a, o1)
  <2>1. PICK b \in Int : b = o.bal + v
    BY <1>3
  <2>2. Sound(SetBalanceOf(q, a, b)) /\ Sets(q, SetBalanceOf(q, a, b), a, [q.obj[a] EXCEPT !.bal = b])
    BY <1>3, SettersSound, SettersSet, ZenonT(40)
  <2> QED BY <1>2, <1>6, <1>7, <2>1, <2>2, SMTT(40)
<1>10. GivesBack(e, o, o1)
  <2>1. e.amount >= 0
    BY <1>3, <1>5, SMTT(40)
  <2> QED BY <1>5, <1>7, <2>1, ZenonT(40) DEF GivesBack
<1>11. Change(s, NewEntries(st, a) \o <<e>>)
  BY <1>1, <1>2, <1>4, <1>6, SMTT(40) DEF AddBalance, AddBalanceOf
<1>12. ~o1.deleted
  BY <1>3, <1>8
<1> QED BY <1>1, <1>2, <1>3, <1>5, <1>8, <1>9, <1>10, <1>11, <1>12, GetOrNewHistory, ZenonT(40)

\* SetCode.
LEMMA SetCodeHistory ==
    ASSUME Inv, History, NEW a \in Addrs, NEW c \in Codes, SetCode(a, c)
    PROVE  History'
<1>1. PICK q : q = GetOrNew(st, a)
  OBVIOUS
<1>2. PICK o : o = q.obj[a]
  OBVIOUS
<1>3. /\ Sound(q) /\ q \in State /\ a \in q.live /\ pc = "idle"
      /\ o \in Object /\ ~o.deleted /\ o.bal >= 0 /\ o.code \in Codes \cup {NoCode}
  BY <1>1, <1>2, GetOrNewIs DEF History, SetCode, Idle
<1>4. PICK e : e = [op |-> "code", a |-> a, prev |-> o.code]
  BY ZenonT(40)
<1>5. e \in Entry /\ e.op = "code" /\ e.op # "log" /\ e.op # "gas" /\ e.a = a /\ e.prev = o.code
  BY <1>3, <1>4, SMTT(40) DEF Entry
<1>6. PICK s : s = SetCodeOf(q, a, c)
  OBVIOUS
<1>7. PICK o1 : o1 = [o EXCEPT !.code = c, !.hash = c]
  OBVIOUS
<1>8. o1 \in Object /\ o1.deleted = o.deleted /\ o1.bal = o.bal
  BY <1>3, <1>7, Zenon DEF Object
<1>9. Sound(s) /\ Sets(q, s, a, o1)
  BY <1>2, <1>3, <1>6, <1>7, SettersSound, SettersSet, ZenonT(40)
<1>10. GivesBack(e, o, o1)
  BY <1>5, <1>7, ZenonT(40) DEF GivesBack
<1>11. Change(s, NewEntries(st, a) \o <<e>>)
  BY <1>1, <1>2, <1>4, <1>6, SMTT(40) DEF SetCode
<1>12. ~o1.deleted /\ o1.bal >= 0
  BY <1>3, <1>8, SMTT(40)
<1> QED BY <1>1, <1>2, <1>3, <1>5, <1>8, <1>9, <1>10, <1>11, <1>12, GetOrNewHistory, ZenonT(40)

\* CreateAccount: a new object over one that exists, or a first one.
LEMMA CreateAccountHistory ==
    ASSUME Inv, History, NEW a \in Addrs, CreateAccount(a)
    PROVE  History'
<1>0. Fine(st) /\ Sound(st) /\ st \in State /\ pc = "idle"
  BY DEF History, Fine, Sound, CreateAccount, Idle
<1>1. Exists(st, a) <=> Present(st, a)
  BY <1>0, VisibleIs, Zenon
<1>2. CASE Exists(st, a)
  <2>1. PICK q : q = Load(st, a)
    OBVIOUS
  <2>2. PICK o : o = Seen(st, a)
    OBVIOUS
  <2>3. Sets(st, q, a, o) /\ Sound(q) /\ q.obj[a] = o
    BY <1>0, <1>1, <1>2, <2>1, <2>2, LoadIs, ZenonT(40) DEF Sets
  <2>4. o \in Object /\ ~o.deleted /\ o.bal >= 0 /\ o.bal \in Int
    <3>1. o \in Object /\ ~o.deleted /\ o.bal >= 0
      BY <1>0, <1>1, <1>2, <2>2, SeenObject, ZenonT(40)
    <3> QED BY <3>1 DEF Object
  <2>5. PICK r : r = Put(q, a, newStateObject)
    BY SMTT(40)
  <2>6. Sets(q, r, a, newStateObject) /\ Sound(r) /\ r \in State /\ a \in r.live /\ r.obj[a] = newStateObject
    BY <2>3, <2>5, PutSets, PutSound, NewObject, SMTT(40) DEF Sound
  <2>7. PICK s : s = SetBalanceOf(r, a, o.bal)
    OBVIOUS
  <2>8. PICK o1 : o1 = [newStateObject EXCEPT !.bal = o.bal]
    BY Zenon
  <2>9. Sound(s) /\ Sets(r, s, a, o1)
    BY <2>4, <2>6, <2>7, <2>8, SettersSound, SettersSet, ZenonT(40)
  <2>10. Sets(st, s, a, o1)
    BY <2>3, <2>6, <2>9, ZenonT(40) DEF Sets
  <2>11. o1 \in Object /\ ~o1.deleted /\ o1.bal >= 0
    BY <2>4, <2>8, Zenon DEF newStateObject, Object
  <2>12. Fine(s)
    BY <1>0, <2>9, <2>10, <2>11, SetsFine, ZenonT(40)
  <2>13. PICK e : e = [op |-> "reset", a |-> a, prev |-> o]
    BY ZenonT(40)
  <2>14. e \in Entry /\ e.op = "reset" /\ e.op # "log" /\ e.op # "gas" /\ e.a = a /\ e.prev = o
    BY <2>4, <2>13 DEF Entry
  <2>15. GivesBack(e, o, o1)
    BY <2>14, Zenon DEF GivesBack
  <2>16. Undoes(e, Now(s), Now(st))
    BY <1>0, <1>1, <1>2, <2>2, <2>10, <2>11, <2>12, <2>14, <2>15, UndoesObject, ZenonT(40)
  <2>17. Change(s, <<e>>)
    BY <1>2, <2>1, <2>3, <2>5, <2>7, <2>13, SMTT(40) DEF CreateAccount
  <2> QED BY <1>0, <2>12, <2>14, <2>16, <2>17, ChangeOne, ZenonT(40)
<1>3. CASE ~Exists(st, a)
  <2>1. PICK s : s = Put(st, a, newStateObject)
    BY SMTT(40)
  <2>2. Sets(st, s, a, newStateObject) /\ Sound(s)
    BY <1>0, <2>1, PutSets, PutSound, NewObject, SMTT(40)
  <2>3. Fine(s)
    BY <1>0, <2>2, NewFine, SetsFine, ZenonT(40)
  <2>4. PICK e : e = [op |-> "create", a |-> a]
    BY ZenonT(40)
  <2>5. e \in Entry /\ e.op = "create" /\ e.op # "gas" /\ e.a = a
    BY <2>4 DEF Entry
  <2>6. Undoes(e, Now(s), Now(st))
    BY <1>0, <1>1, <1>3, <2>2, <2>3, <2>5, UndoesCreate, ZenonT(40)
  <2>7. Change(s, <<e>>)
    BY <1>3, <2>1, <2>4, SMTT(40) DEF CreateAccount, CreateEntry
  <2> QED BY <1>0, <2>3, <2>5, <2>6, <2>7, ChangeOne, ZenonT(40)
<1> QED BY <1>2, <1>3, SMTT(40)

\* ChargeGas: the balance covers the amount.
LEMMA ChargeGasHistory ==
    ASSUME Inv, History, NEW a \in Addrs, NEW v \in Amounts, ChargeGas(a, v)
    PROVE  History'
<1>0. Fine(st) /\ Sound(st) /\ st \in State /\ pc = "idle" /\ Exists(st, a) /\ v \in Nat
  BY StateAssumption DEF History, Fine, Sound, ChargeGas, Idle
<1>1. Present(st, a)
  BY <1>0, VisibleIs, ZenonT(40)
<1>2. PICK q : q = Load(st, a)
  OBVIOUS
<1>3. PICK o : o = Seen(st, a)
  BY SMTT(40)
<1>4. Sets(st, q, a, o) /\ Sound(q) /\ q \in State /\ q.obj[a] = o /\ a \in q.live
  <2>1. Sets(st, q, a, o) /\ Sound(q)
    BY <1>0, <1>1, <1>2, <1>3, LoadIs, ZenonT(40)
  <2> QED BY <2>1 DEF Sets, Sound
<1>5. o \in Object /\ ~o.deleted /\ o.bal >= 0 /\ o.bal \in Int
  <2>1. o \in Object /\ ~o.deleted /\ o.bal >= 0
    BY <1>0, <1>1, <1>3, SeenObject, ZenonT(40)
  <2> QED BY <2>1 DEF Object
<1>6. o.bal >= v
  BY <1>2, <1>4 DEF ChargeGas
<1>7. PICK s : s = SubBalanceOf(q, a, v)
  OBVIOUS
<1>8. PICK o1 : o1 = IF o.bal = 0 THEN o ELSE [o EXCEPT !.bal = o.bal - v]
  BY Zenon
<1>9. Sound(s) /\ Sets(st, s, a, o1)
  <2>1. Sound(s)
    BY <1>0, <1>4, <1>7, SettersSound, SMTT(40)
  <2>2. CASE o.bal = 0
    <3>1. s = q /\ o1 = o
      BY <1>4, <1>7, <1>8, <2>2, SMTT(40) DEF SubBalanceOf
    <3> QED BY <1>4, <2>1, <3>1
  <2>3. CASE o.bal # 0
    <3>1. s = SetBalanceOf(q, a, o.bal - v) /\ o1 = [o EXCEPT !.bal = o.bal - v]
      BY <1>4, <1>7, <1>8, <2>3, SMTT(40) DEF SubBalanceOf
    <3>2. Sets(q, s, a, o1)
      BY <1>4, <3>1, SettersSet, ZenonT(40)
    <3> QED BY <1>4, <2>1, <3>2, ZenonT(40) DEF Sets
  <2> QED BY <2>2, <2>3, SMTT(40)
<1>10. o1 \in Object /\ ~o1.deleted /\ o1.bal >= 0
  BY <1>0, <1>5, <1>6, <1>8, SMTT(40) DEF Object
<1>11. Fine(s)
  BY <1>0, <1>9, <1>10, SetsFine, ZenonT(40)
<1>12. PICK e : e = [op |-> "gas", a |-> a, amount |-> v]
  BY ZenonT(40)
<1>13. e \in Entry /\ e.op = "gas" /\ e.op # "log" /\ e.a = a /\ e.amount = v /\ e.amount >= 0
  BY <1>0, <1>12 DEF Entry
<1>14. GivesBack(e, o, o1)
  BY <1>6, <1>8, <1>13, ZenonT(40) DEF GivesBack
<1>15. Undoes(e, Now(s), Now(st))
  BY <1>0, <1>1, <1>3, <1>9, <1>10, <1>11, <1>13, <1>14, UndoesObject, ZenonT(40)
<1>16. Change(s, <<e>>)
  BY <1>2, <1>7, <1>12 DEF ChargeGas
<1> QED BY <1>0, <1>11, <1>13, <1>15, <1>16, ChangeOne, ZenonT(40)

\* Suicide.
LEMMA SuicideHistory ==
    ASSUME Inv, History, NEW a \in Addrs, Suicide(a)
    PROVE  History'
<1>0. Fine(st) /\ Sound(st) /\ st \in State /\ pc = "idle" /\ Exists(st, a)
  BY DEF History, Fine, Sound, Suicide, Idle
<1>1. Present(st, a)
  BY <1>0, VisibleIs, ZenonT(40)
<1>2. PICK q : q = Load(st, a)
  OBVIOUS
<1>3. PICK o : o = Seen(st, a)
  OBVIOUS
<1>4. Sets(st, q, a, o) /\ Sound(q) /\ q \in State /\ q.obj[a] = o /\ a \in q.live
  <2>1. Sets(st, q, a, o) /\ Sound(q)
    BY <1>0, <1>1, <1>2, <1>3, LoadIs, ZenonT(40)
  <2> QED BY <2>1 DEF Sets, Sound
<1>5. o \in Object /\ ~o.deleted /\ o.bal \in Int /\ o.suicided \in BOOLEAN
  <2>1. o \in Object /\ ~o.deleted /\ o.bal >= 0
    BY <1>0, <1>1, <1>3, SeenObject, ZenonT(40)
  <2> QED BY <2>1 DEF Object
<1>6. PICK m : m = MarkSuicided(q, a, TRUE)
  BY Zenon
<1>7. Sets(q, m, a, [o EXCEPT !.suicided = TRUE]) /\ m \in State
  <2>1. Sets(q, m, a, [o EXCEPT !.suicided = TRUE])
    BY <1>4, <1>6, SettersSet, ZenonT(40)
  <2>2. [q.obj[a] EXCEPT !.suicided = TRUE] \in Object
    BY <1>4, <1>5, Zenon DEF Object
  <2>3. m \in State
    BY <1>4, <1>6, <2>2, ZenonT(60) DEF MarkSuicided, State
  <2> QED BY <2>1, <2>3
<1>8. a \in m.live /\ m.obj[a] = [o EXCEPT !.suicided = TRUE]
  BY <1>7 DEF Sets
<1>9. PICK s : s = SetBalanceOf(m, a, 0)
  OBVIOUS
<1>10. PICK o1 : o1 = [[o EXCEPT !.suicided = TRUE] EXCEPT !.bal = 0]
  OBVIOUS
<1>11. Sets(m, s, a, o1)
  BY <1>7, <1>8, <1>9, <1>10, SettersSet, ZenonT(40)
<1>12. Sets(st, s, a, o1)
  BY <1>4, <1>7, <1>11, ZenonT(40) DEF Sets
<1>13. Sound(s)
  <2>1. TRUE \in BOOLEAN /\ 0 \in Int
    OBVIOUS
  <2> QED BY <1>4, <1>6, <1>9, <2>1, SettersSound, ZenonT(40)
<1>14. o1 \in Object /\ ~o1.deleted /\ o1.bal >= 0
  <2>1. o1 \in Object /\ o1.deleted = o.deleted /\ o1.bal = 0
    <3>1. PICK b \in BOOLEAN : o1 = [[o EXCEPT !.suicided = b] EXCEPT !.bal = 0]
      BY <1>10, Zenon
    <3>2. o \in Object
      BY <1>5
    <3>3. PICK p : p = [o EXCEPT !.suicided = b]
      BY Zenon
    <3>4. p \in Object /\ p.deleted = o.deleted
      BY <3>2, <3>3 DEF Object
    <3>5. o1 = [p EXCEPT !.bal = 0]
      BY <3>1, <3>3
    <3>6. o1 \in Object /\ o1.deleted = p.deleted /\ o1.bal = 0
      BY <3>4, <3>5, SMTT(40) DEF Object
    <3> QED BY <3>4, <3>6
  <2>2. o1.bal >= 0
    BY <2>1
  <2> QED BY <1>5, <2>1, <2>2, SMTT(40)
<1>15. Fine(s)
  BY <1>0, <1>12, <1>13, <1>14, SetsFine, ZenonT(40)
<1>16. PICK e : e = [op |-> "suicide", a |-> a, prev |-> o.suicided, bal |-> o.bal]
  BY ZenonT(40)
<1>17. /\ e \in Entry /\ e.op = "suicide" /\ e.op # "log" /\ e.op # "gas" /\ e.a = a
       /\ e.prev = o.suicided /\ e.bal = o.bal
  BY <1>5, <1>16 DEF Entry
<1>18. GivesBack(e, o, o1)
  BY <1>10, <1>17, Zenon DEF GivesBack
<1>19. Undoes(e, Now(s), Now(st))
  BY <1>0, <1>1, <1>3, <1>12, <1>14, <1>15, <1>17, <1>18, UndoesObject, ZenonT(40)
<1>20. Change(s, <<e>>)
  <2>1. Change(SetBalanceOf(MarkSuicided(Load(st, a), a, TRUE), a, 0),
               <<[op |-> "suicide", a |-> a, prev |-> Load(st, a).obj[a].suicided,
                  bal |-> Load(st, a).obj[a].bal]>>)
    BY ZenonT(60) DEF Suicide
  <2> QED BY <1>2, <1>4, <1>6, <1>9, <1>16, <2>1, ZenonT(40)
<1> QED BY <1>0, <1>15, <1>17, <1>19, <1>20, ChangeOne, ZenonT(40)

\* AddLog.
LEMMA AddLogHistory ==
    ASSUME Inv, History, AddLog
    PROVE  History'
<1>1. pc = "idle" /\ txHash \in Txs /\ Fine(st) /\ Sound(st) /\ st \in State
  BY DEF Inv, AddLog, Idle, TypeOK, History, Fine, Sound
<1>2. PICK x \in Txs : x = txHash
  BY <1>1
<1>3. PICK s : s = [st EXCEPT !.logs[x] = @ + 1, !.logSize = @ + 1]
  OBVIOUS
<1>4. st.logs \in [Txs -> Nat] /\ st.logs[x] + 1 \in Nat /\ st.logSize + 1 \in Int
  BY <1>1 DEF Sound, State
<1>5. Sound(s)
  BY <1>1, <1>3, <1>4, ZenonT(40) DEF Sound, State
<1>6. s.obj = st.obj /\ s.tree = st.tree
  BY <1>1, <1>3, StateFields
<1>7. Fine(s)
  BY <1>1, <1>5, <1>6, ZenonT(40) DEF Fine
<1>8. PICK e : e = [op |-> "log", tx |-> x]
  BY ZenonT(40)
<1>9. e \in Entry /\ e.op = "log" /\ e.op # "gas" /\ e.tx = x
  BY <1>8 DEF Entry
<1>10. Undoes(e, Now(s), Now(st))
  BY <1>1, <1>3, <1>7, <1>9, UndoesLog, ZenonT(40)
<1>11. Change(s, <<e>>)
  BY <1>2, <1>3, <1>8 DEF AddLog
<1> QED BY <1>1, <1>7, <1>9, <1>10, <1>11, ChangeOne, ZenonT(40)

\* Get.
LEMMA GetHistory ==
    ASSUME Inv, History, NEW a \in Addrs, Get(a)
    PROVE  History'
<1>1. pc = "idle" /\ Fine(st) /\ Change(Load(st, a), <<>>)
  BY DEF History, Get, Idle
<1>2. Fine(Load(st, a)) /\ Keeps(Now(Load(st, a)), Now(st))
  BY <1>1, LoadFine
<1> QED BY <1>1, <1>2, ChangeNone, ZenonT(40)

\* IntermediateRoot: what goes into the tree is the data of live objects.
LEMMA IntermediateRootHistory ==
    ASSUME Inv, History, NEW D \in SUBSET Addrs, IntermediateRoot(D)
    PROVE  History'
<1>1. /\ pc = "idle" /\ Fine(st) /\ Sound(st) /\ st \in State
      /\ st.dirty \subseteq st.live /\ D \subseteq st.dirty
  BY DEF History, Fine, IntermediateRoot, Idle, Sound
<1>2. Change([st EXCEPT !.tree = Flushed(st, D)], <<>>)
  BY <1>1 DEF IntermediateRoot
<1>3. PICK s : s = [st EXCEPT !.tree = Flushed(st, D)]
  BY Zenon
<1>4. /\ s.obj = st.obj /\ s.live = st.live /\ s.cached = st.cached /\ s.dirty = st.dirty
      /\ s.logs = st.logs /\ s.tree = Flushed(st, D)
  BY <1>1, <1>3 DEF State
<1>5. \A a \in Addrs : s.tree[a] = IF a \in D THEN Data(st.obj[a]) ELSE st.tree[a]
  BY <1>4, ZenonT(40) DEF Flushed
<1>6. \A a \in Addrs : Data(st.obj[a]) \in Account /\ Data(st.obj[a]).bal = st.obj[a].bal
  BY <1>1, ObjectFields DEF Data, Account
<1>7. Sound(s)
  <2>1. \A a \in Addrs : st.tree[a] \in Account \cup {None}
    BY <1>1, SMTT(40) DEF State
  <2>2. Flushed(st, D) \in [Addrs -> Account \cup {None}]
    BY <1>6, <2>1 DEF Flushed
  <2> QED BY <1>1, <1>3, <2>2, SMTT(40) DEF Sound, State
<1>8. Fine(s)
  <2>1. \A a \in Addrs : s.tree[a] # None => s.tree[a].bal >= 0
    BY <1>1, <1>5, <1>6, ZenonT(40) DEF Fine
  <2> QED BY <1>1, <1>4, <1>7, <2>1, ZenonT(40) DEF Fine
<1>9. \A a \in Addrs : (Present(s, a) <=> Present(st, a)) /\ Seen(s, a) = Seen(st, a)
  BY <1>1, <1>4, <1>5, ZenonT(40) DEF Present, Seen
<1>10. Keeps(Now(s), Now(st))
  <2>1. \A a \in Addrs : SameAccount(Seen(st, a), Seen(st, a))
    BY SameEquivalence, ZenonT(40)
  <2>2. \A a \in Addrs : Present(st, a) => Present(s, a) /\ SameAccount(Seen(s, a), Seen(st, a))
    BY <1>9, <2>1, SMTT(40)
  <2> QED BY <1>1, <1>4, <1>8, <2>2, NowKeeps, ZenonT(40)
<1> QED BY <1>1, <1>2, <1>3, <1>8, <1>10, ChangeNone, SMTT(40)

\* A step that leaves the state, the journal, the revisions and the loop alone.
LEMMA FrameHistory ==
    ASSUME History, UNCHANGED <<st, entries, len, revision, saved, pc, cur, arg>>
    PROVE  History'
<1>1. CASE pc = "refund"
  BY <1>1, ZenonT(40) DEF History
<1>2. CASE pc # "refund"
  <2>1. PICK W : Trail(W, IF pc = "revert" THEN cur ELSE len)
    BY <1>2 DEF History
  <2>2. Trail(W, IF pc = "revert" THEN cur ELSE len)'
    BY <2>1, ZenonT(40) DEF Trail, Undoes, Keeps, Now, Visible
  <2>3. (\E X : Trail(X, IF pc = "revert" THEN cur ELSE len))'
    BY <2>2
  <2> QED BY <1>2, <2>3, SMTT(40) DEF History
<1> QED BY <1>1, <1>2

\* A call that panics.
LEMMA PanicHistory ==
    ASSUME History, NEW w, PanicIn(w)
    PROVE  History'
BY FrameHistory DEF PanicIn, journalVars, revVars, loopVars

\* RevertToSnapshot starts at the end of the journal.
LEMMA RevertToSnapshotHistory ==
    ASSUME Inv, History, Inv', NEW id \in 0..MaxRevs, RevertToSnapshot(id)
    PROVE  History'
<1>1. pc = "idle" /\ UNCHANGED <<st, entries, len, revision, saved>>
  BY DEF RevertToSnapshot, Idle, journalVars, revVars
<1>2. /\ Fine(st)
      /\ \A j \in 1..Len(entries) : entries[j].op = "gas" => entries[j].amount >= 0
      /\ Len(saved) = Len(revision) /\ \E S : saved \in Seq(S)
      /\ \A i \in 1..Len(revision) : revision[i].journalIndex <= len
      /\ \A i, j \in 1..Len(revision) : i <= j => revision[i].journalIndex <= revision[j].journalIndex
      /\ \E W : Trail(W, len)
  BY <1>1 DEF History
<1>3. PICK W : Trail(W, len)
  BY <1>2
<1>4. Trail(W, len)'
  BY <1>1, <1>3, ZenonT(40) DEF Trail, Undoes, Keeps, Now, Visible
<1>5. CASE pc' = "revert"
  <2>1. cur' = len
    <3>1. pc' # pc
      BY <1>1, <1>5
    <3> QED BY <3>1 DEF RevertToSnapshot
  <2>2. arg' \in Nat /\ arg' < Len(revision) /\ Len(revision) \in Nat /\ len \in Nat
    BY <1>1, <1>5 DEF Inv, LoopsInside, TypeOK
  <2>3. PICK k : k = arg'
    BY SMTT(40)
  <2>4. cur' >= revision'[arg' + 1].journalIndex
    <3>1. k \in Nat /\ k < Len(revision)
      BY <2>2, <2>3
    <3>2. k + 1 \in 1..Len(revision)
      BY <2>2, <3>1, SMTT(40)
    <3>3. revision[k + 1].journalIndex \in Nat /\ revision[k + 1].journalIndex <= len
      BY <1>2, <3>2, RevisionFields, SMTT(40) DEF Inv
    <3>4. len >= revision[k + 1].journalIndex
      BY <2>2, <3>3, SMTT(40)
    <3> QED BY <1>1, <2>1, <2>3, <3>4, SMTT(40)
  <2>5. (\E X : Trail(X, IF pc = "revert" THEN cur ELSE len))'
    BY <1>1, <1>4, <1>5, <2>1, SMTT(40)
  <2> QED BY <1>1, <1>2, <1>5, <2>4, <2>5 DEF History
<1>6. CASE pc' = "idle"
  <2>1. (\E X : Trail(X, IF pc = "revert" THEN cur ELSE len))'
    BY <1>1, <1>4, <1>6, SMTT(40)
  <2> QED BY <1>1, <1>2, <1>6, <2>1, SMTT(40) DEF History
<1>7. pc' = "revert" \/ pc' = "idle"
  BY <1>1, SMTT(40) DEF RevertToSnapshot
<1> QED BY <1>5, <1>6, <1>7

\* CommitStart.
LEMMA CommitStartHistory ==
    ASSUME History, CommitStart
    PROVE  History'
<1>1. pc = "idle" /\ pc' = "refund" /\ UNCHANGED <<st, entries, len, revision, saved>>
  BY SMTT(40) DEF CommitStart, Idle, journalVars, revVars
<1> QED BY <1>1, SMTT(40) DEF History

\* Snapshot records what is visible at the end of the journal.
LEMMA SnapshotHistory ==
    ASSUME Inv, History, Snapshot
    PROVE  History'
<1>1. pc = "idle" /\ UNCHANGED <<st, entries, len, pc, cur, arg>>
  BY DEF Snapshot, Idle, journalVars, loopVars
<1>2. PICK r, v : /\ r = [id |-> nextRevisionId, journalIndex |-> len]
                  /\ v = [view |-> Visible(st), root |-> Flushed(st, st.dirty), logs |-> st.logs]
  BY ZenonT(40)
<1>3. revision' = Append(revision, r) /\ saved' = Append(saved, v)
  BY <1>2, SMTT(40) DEF Snapshot
<1>4. PICK S : saved \in Seq(S)
  BY SMTT(40) DEF History
<1>5. /\ revision \in Seq(Revision) /\ Len(saved) = Len(revision) /\ Len(revision) \in Nat
      /\ len \in Nat /\ r \in Revision /\ r.journalIndex = len
  BY <1>2 DEF History, Inv, TypeOK, Revision
<1>6. saved \in Seq(S \cup {v})
  BY <1>4, SMTT(40)
<1>7. /\ Len(revision') = Len(revision) + 1
      /\ \A i \in 1..Len(revision) : revision'[i] = revision[i]
      /\ revision'[Len(revision) + 1] = r
  BY <1>3, <1>5, AppendProperties, SMTT(40)
<1>8. /\ saved' \in Seq(S \cup {v}) /\ Len(saved') = Len(revision) + 1
      /\ \A i \in 1..Len(revision) : saved'[i] = saved[i]
      /\ saved'[Len(revision) + 1] = v
  BY <1>3, <1>5, <1>6, AppendProperties, SMTT(40)
<1>9. PICK W : W[len] = Now(st) /\ Trail(W, len)
  BY <1>1, Refresh
<1>10. Keeps(Now(st), v)
  <2>1. v.view = Now(st).view /\ v.logs = Now(st).logs
    BY <1>2 DEF Now
  <2>2. Keeps(Now(st), Now(st))
    BY KeepsOrder
  <2> QED BY <2>1, <2>2, ZenonT(40) DEF Keeps
<1>11. \A i \in 1..(Len(revision) + 1) : i \in 1..Len(revision) \/ i = Len(revision) + 1
  BY <1>5
<1>12. \A i \in 1..Len(revision') : Keeps(W[revision'[i].journalIndex], saved'[i])
  <2>1. TAKE i \in 1..Len(revision')
  <2>2. CASE i \in 1..Len(revision)
    BY <1>7, <1>8, <1>9, <2>2, ZenonT(40) DEF Trail
  <2>3. CASE i = Len(revision) + 1
    BY <1>5, <1>7, <1>8, <1>9, <1>10, <2>3, ZenonT(40)
  <2> QED BY <1>7, <1>11, <2>2, <2>3, ZenonT(40)
<1>13. Trail(W, len)'
  BY <1>1, <1>9, <1>12, ZenonT(40) DEF Trail, Undoes, Keeps, Now, Visible
<1>14. \A i \in 1..Len(revision) : revision[i].journalIndex \in Nat /\ revision[i].journalIndex <= len
  BY <1>1, RevisionFields, Zenon DEF Inv, History
<1>15. /\ \A i \in 1..Len(revision') : revision'[i].journalIndex <= len
       /\ \A i, j \in 1..Len(revision') : i <= j => revision'[i].journalIndex <= revision'[j].journalIndex
  <2>1. \A i, j \in 1..Len(revision) : i <= j => revision[i].journalIndex <= revision[j].journalIndex
    BY <1>1, ZenonT(40) DEF History
  <2>2. \A i \in 1..Len(revision') : revision'[i].journalIndex <= len
    BY <1>5, <1>7, <1>11, <1>14
  <2>3. ASSUME NEW i \in 1..Len(revision'), NEW j \in 1..Len(revision'), i <= j
        PROVE  revision'[i].journalIndex <= revision'[j].journalIndex
    <3>1. CASE j \in 1..Len(revision)
      <4>1. i \in 1..Len(revision)
        BY <1>5, <1>7, <2>3, <3>1, SMTT(40)
      <4> QED BY <1>7, <2>1, <2>3, <3>1, <4>1, SMTT(40)
    <3>2. CASE j = Len(revision) + 1
      BY <1>5, <1>7, <2>2, <3>2, SMTT(40)
    <3> QED BY <1>7, <1>11, <3>1, <3>2, Zenon
  <2> QED BY <2>2, <2>3
<1>16. (\E X : Trail(X, IF pc = "revert" THEN cur ELSE len))'
  BY <1>1, <1>13, SMTT(40)
<1>17. /\ Fine(st) /\ \A j \in 1..Len(entries) : entries[j].op = "gas" => entries[j].amount >= 0
  BY SMTT(40) DEF History
<1> QED BY <1>1, <1>7, <1>8, <1>15, <1>16, <1>17, SMTT(40) DEF History

\* What a revert that is running has come to.
LEMMA Reverting ==
    ASSUME Inv, History, pc = "revert"
    PROVE  /\ FindRevision(arg) = arg + 1 /\ arg + 1 \in 1..Len(revision) /\ arg \in Nat
           /\ revision[arg + 1].journalIndex \in 0..len
           /\ revision[arg + 1].journalIndex <= cur /\ cur \in 0..len /\ len \in Nat
           /\ \E W : Trail(W, cur)
<1>1. /\ arg \in 0..(Len(revision) - 1) /\ Len(revision) \in Nat /\ len \in Nat /\ cur \in Nat
      /\ cur <= len /\ arg \in Nat
  BY RevertTarget, SMTT(40) DEF Inv, TypeOK, LoopsInside
<1>2. FindRevision(arg) = arg + 1 /\ arg + 1 \in 1..Len(revision)
  BY <1>1, FindsRevision, SMTT(40)
<1>3. revision[arg + 1].journalIndex \in Nat
  BY <1>2, RevisionFields, SMTT(40) DEF Inv
<1>4. /\ revision[arg + 1].journalIndex <= len /\ cur >= revision[arg + 1].journalIndex
      /\ \E W : Trail(W, cur)
  BY <1>2 DEF History
<1> QED BY <1>1, <1>2, <1>3, <1>4, SMTT(40)

\* RevertStep goes one state back along the trail.
LEMMA RevertStepHistory ==
    ASSUME Inv, History, RevertStep
    PROVE  History'
<1>1. CASE NoLogs(entries[cur])
  BY <1>1, PanicHistory, SMTT(40) DEF RevertStep
<1>2. CASE ~NoLogs(entries[cur])
  <2>1. /\ st' = Undo(st, entries[cur]) /\ cur' = cur - 1 /\ pc = "revert"
        /\ UNCHANGED <<entries, len, revision, saved, pc, arg>>
        /\ cur > revision[FindRevision(arg)].journalIndex
    BY <1>2, SMTT(40) DEF RevertStep, journalVars, revVars
  <2>2. PICK n \in Nat : n = revision[arg + 1].journalIndex /\ cur > n
    BY <2>1, Reverting, SMTT(40)
  <2>3. cur \in 1..len /\ cur - 1 >= n /\ len \in Nat
    BY <2>1, <2>2, Reverting, SMTT(40)
  <2>4. PICK W : Trail(W, cur)
    BY <2>1, Reverting, SMTT(40)
  <2>5. PICK e : e = entries[cur]
    BY SMTT(40)
  <2>6. Undoes(e, W[cur], W[cur - 1]) /\ Keeps(Now(st), W[cur]) /\ Fine(st)
    BY <2>3, <2>4, <2>5, SMTT(40) DEF Trail, History
  <2>7. PICK t : t = Undo(st, e)
    OBVIOUS
  <2>8. Fine(t) /\ Keeps(Now(t), W[cur - 1])
    BY <2>6, <2>7, ZenonT(40) DEF Undoes
  <2>9. st' = t
    BY <2>1, <2>5, <2>7, SMTT(40)
  <2>10. Fine(st') /\ Keeps(Now(st'), W[cur'])
    BY <2>1, <2>8, <2>9, SMTT(40)
  <2>11. Trail(W, cur)'
    BY <2>1, <2>4, <2>10, ZenonT(40) DEF Trail, Undoes, Keeps, Now, Visible
  <2>12. (\E X : Trail(X, IF pc = "revert" THEN cur ELSE len))'
    BY <2>1, <2>11, Zenon
  <2>13. cur' >= revision'[arg' + 1].journalIndex
    BY <2>1, <2>2, <2>3, Zenon
  <2> QED BY <2>1, <2>10, <2>12, <2>13, SMTT(40) DEF History
<1> QED BY <1>1, <1>2, SMTT(40)

\* The slots that Trim keeps.
LEMMA TrimSlots ==
    ASSUME NEW es \in Seq(Entry), NEW n \in 0..Len(es), NEW revs
    PROVE  /\ \A j \in 1..Len(Trim(es, n, revs)) : j \in 1..Len(es) /\ Trim(es, n, revs)[j] = es[j]
           /\ \A j \in 1..n : Trim(es, n, revs)[j] = es[j]
<1>1. /\ Len(SubSeq(es, 1, n)) = n
      /\ \A j \in 1..Len(SubSeq(es, 1, n)) : SubSeq(es, 1, n)[j] = es[1 + j - 1]
  BY SubSeqProperties
<1>2. \A j \in 1..n : SubSeq(es, 1, n)[j] = es[j] /\ j \in 1..Len(es)
  BY <1>1
<1> QED BY <1>1, <1>2, Zenon DEF Trim

\* RevertDone: the loop is at the index of the revision it goes back to.
LEMMA RevertDoneHistory ==
    ASSUME Inv, History, RevertDone
    PROVE  History'
<1>1. pc = "revert" /\ entries \in Seq(Entry) /\ revision \in Seq(Revision) /\ len \in 0..Len(entries)
  BY DEF RevertDone, Inv, TypeOK
<1>2. PICK n : n = revision[FindRevision(arg)].journalIndex
  BY SMTT(40)
<1>3. /\ n = revision[arg + 1].journalIndex /\ n \in 0..len /\ n <= cur /\ cur \in 0..len
      /\ arg + 1 \in 1..Len(revision) /\ arg \in Nat /\ len \in Nat
  BY <1>1, <1>2, Reverting, SMTT(40)
<1>4. n \in 0..Len(entries) /\ Len(entries) \in Nat /\ Len(revision) \in Nat
  BY <1>1, <1>3, SMTT(40)
<1>5. /\ cur <= n /\ len' = n /\ revision' = SubSeq(revision, 1, arg) /\ saved' = SubSeq(saved, 1, arg)
      /\ entries' = Trim(entries, n, revision') /\ pc' = "idle" /\ st' = st
  BY <1>2, <1>4, SMTT(40) DEF RevertDone
<1>6. cur = n
  BY <1>3, <1>5, SMTT(40)
<1>7. /\ Len(revision') = arg /\ \A i \in 1..arg : revision'[i] = revision[i]
  <2>1. \A i \in 1..arg : 1 + i - 1 = i
    BY <1>3, SMTT(40)
  <2> QED BY <1>1, <1>3, <1>4, <1>5, <2>1, SubSeqProperties, SMTT(40)
<1>8. PICK S : saved \in Seq(S) /\ Len(saved) = Len(revision)
  BY SMTT(40) DEF History
<1>9. /\ saved' \in Seq(S) /\ Len(saved') = arg /\ \A i \in 1..arg : saved'[i] = saved[i]
  <2>1. \A i \in 1..arg : 1 + i - 1 = i
    BY <1>3
  <2> QED BY <1>3, <1>4, <1>5, <1>8, <2>1, SubSeqProperties, SMTT(40)
<1>10. /\ \A j \in 1..Len(entries') : j \in 1..Len(entries) /\ entries'[j] = entries[j]
       /\ \A j \in 1..n : entries'[j] = entries[j]
  BY <1>1, <1>4, <1>5, TrimSlots, SMTT(40)
<1>11. PICK W : Trail(W, n)
  BY <1>1, <1>6, Reverting, SMTT(40)
<1>12. \A i \in 1..arg : i \in 1..Len(revision) /\ i <= arg + 1
  BY <1>3, <1>4, SMTT(40)
<1>13. \A j \in 1..n : j \in 1..len
  BY <1>3
<1>14. /\ Keeps(Now(st), W[n])
       /\ \A j \in 1..n : Undoes(entries'[j], W[j], W[j - 1])
       /\ \A i \in 1..arg : Keeps(W[revision'[i].journalIndex], saved'[i])
  BY <1>7, <1>9, <1>10, <1>11, <1>12, <1>13, ZenonT(40) DEF Trail
<1>15. Trail(W, len)'
  BY <1>5, <1>7, <1>14, ZenonT(40) DEF Trail, Undoes, Keeps, Now, Visible
<1>16. (\E X : Trail(X, IF pc = "revert" THEN cur ELSE len))'
  BY <1>5, <1>15, SMTT(40)
<1>17. \A i, j \in 1..Len(revision) : i <= j => revision[i].journalIndex <= revision[j].journalIndex
  BY <1>1 DEF History
<1>18. /\ \A i \in 1..Len(revision') : revision'[i].journalIndex <= len'
       /\ \A i, j \in 1..Len(revision') : i <= j => revision'[i].journalIndex <= revision'[j].journalIndex
  BY <1>3, <1>5, <1>7, <1>12, <1>17, ZenonT(40)
<1>19. \A j \in 1..Len(entries') : entries'[j].op = "gas" => entries'[j].amount >= 0
  BY <1>10, Zenon DEF History
<1>20. Fine(st') /\ Len(saved') = Len(revision') /\ \E T : saved' \in Seq(T)
  BY <1>5, <1>7, <1>9, ZenonT(40) DEF History
<1> QED BY <1>5, <1>16, <1>18, <1>19, <1>20, Zenon DEF History

\* Undoing a gas entry leaves no negative balance.
LEMMA RefundFine ==
    ASSUME NEW s, Fine(s), NEW e \in Entry, e.op = "gas", e.amount >= 0
    PROVE  Fine(Undo(s, e))
<1>0. e.op # "log" /\ e.a \in Addrs /\ e.amount \in Int
  BY EntryFields
<1>1. PICK a \in Addrs : a = e.a
  BY <1>0
<1>2. Exists(s, a) <=> Present(s, a)
  BY VisibleIs, ZenonT(40)
<1>3. CASE ~Exists(s, a)
  <2>1. Undo(s, e) = s
    BY <1>1, <1>3, SMTT(40) DEF Undo
  <2> QED BY <2>1
<1>4. CASE Exists(s, a)
  <2>1. PICK o : o = Seen(s, a)
    OBVIOUS
  <2>2. o \in Object /\ ~o.deleted /\ o.bal >= 0
    BY <1>2, <1>4, <2>1, SeenObject, ZenonT(40)
  <2>3. PICK t : t = Undo(s, e)
    OBVIOUS
  <2>4. Sets(s, t, a, [o EXCEPT !.bal = o.bal + e.amount]) /\ Sound(t)
    BY <1>0, <1>1, <1>2, <1>4, <2>1, <2>3, UndoSets, ZenonT(40)
  <2>5. PICK u : u = [o EXCEPT !.bal = o.bal + e.amount]
    BY Zenon
  <2>6. u.deleted = o.deleted /\ u.bal >= 0
    BY <1>0, <2>2, <2>5, SMTT(40) DEF Object
  <2>7. ~u.deleted
    BY <2>2, <2>6
  <2>8. Fine(t)
    BY <2>4, <2>5, <2>6, <2>7, SetsFine, ZenonT(40)
  <2> QED BY <2>3, <2>8
<1> QED BY <1>3, <1>4, SMTT(40)

\* RefundStep.
LEMMA RefundStepHistory ==
    ASSUME Inv, History, RefundStep
    PROVE  History'
<1>1. pc = "refund" /\ pc' = "refund" /\ UNCHANGED <<revision, saved>>
  BY SMTT(40) DEF RefundStep, revVars
<1>2. cur \in 1..len /\ len \in 0..Len(entries) /\ entries \in Seq(Entry) /\ Len(entries) \in Nat
  BY <1>1, SMTT(40) DEF RefundStep, Inv, TypeOK, LoopsInside
<1>3. CASE entries[cur].op = "gas"
  <2>1. st' = Undo(st, entries[cur]) /\ entries' = Delete(entries, cur, len)
    BY <1>3, SMTT(40) DEF RefundStep
  <2>2. entries[cur] \in Entry /\ cur \in 1..Len(entries)
    BY <1>2, ElementOfSeq, SMTT(40)
  <2>3. Fine(st')
    BY <1>3, <2>1, <2>2, RefundFine, SMTT(40) DEF History
  <2>4. Len(entries') = Len(entries)
    BY <1>2, <2>1, DeleteFacts, SMTT(40)
  <2>5. \A j \in 1..Len(entries) : \E k \in 1..Len(entries) : entries'[j] = entries[k]
    <3>1. TAKE j \in 1..Len(entries)
    <3>2. entries'[j] = IF cur <= j /\ j < len THEN entries[j + 1] ELSE entries[j]
      BY <2>1 DEF Delete
    <3>3. j < len => j + 1 \in 1..Len(entries)
      BY <1>2
    <3> QED BY <3>2, <3>3, SMTT(40)
  <2>6. \A j \in 1..Len(entries') : entries'[j].op = "gas" => entries'[j].amount >= 0
    BY <2>4, <2>5, ZenonT(40) DEF History
  <2> QED BY <1>1, <2>3, <2>6, SMTT(40) DEF History
<1>4. CASE entries[cur].op # "gas"
  <2>1. UNCHANGED <<st, entries, len>>
    BY <1>4 DEF RefundStep, journalVars
  <2> QED BY <1>1, <2>1, SMTT(40) DEF History
<1> QED BY <1>3, <1>4, SMTT(40)

\* The state after a commit has no deleted object: the cache gives them up.
LEMMA AfterResetFine ==
    ASSUME Fine(st), NEW E
    PROVE  Fine(AfterReset(E))
<1>0. st \in State /\ Sound(st)
  BY DEF Fine, Sound
<1>1. PICK d : d = Deleted(Doomed)
  BY SMTT(40)
<1>2. d \in State
  BY <1>0, <1>1, DeletedSound DEF Sound
<1>3. /\ d.obj = [a \in Addrs |-> IF a \in Doomed THEN [st.obj[a] EXCEPT !.deleted = TRUE] ELSE st.obj[a]]
      /\ d.tree = [a \in Addrs |-> IF a \in Doomed THEN None ELSE st.tree[a]]
      /\ d.cached = st.cached \ Doomed
  <2> HIDE DEF Doomed
  <2> QED BY <1>0, <1>1, StateFields, SMTT(40) DEF Deleted
<1>4. PICK s : s = AfterReset(E)
  OBVIOUS
<1>5. s = [d EXCEPT !.live = {}, !.dirty = {}, !.cached = @ \ E,
               !.obj = [a \in Addrs |-> IF a \in d.cached \ E THEN d.obj[a] ELSE newStateObject]]
  BY <1>1, <1>4 DEF AfterReset
<1>6. /\ s.obj = [a \in Addrs |-> IF a \in d.cached \ E THEN d.obj[a] ELSE newStateObject]
      /\ s.tree = d.tree
  BY <1>2, <1>5, StateFields, SMTT(40)
<1>7. Sound(s)
  BY <1>0, <1>4, AfterResetSound
<1>8. ASSUME NEW a \in Addrs
      PROVE  ~s.obj[a].deleted /\ s.obj[a].bal >= 0 /\ (s.tree[a] # None => s.tree[a].bal >= 0)
  <2>1. s.obj[a] = newStateObject \/ (a \notin Doomed /\ s.obj[a] = d.obj[a])
    BY <1>3, <1>6, ZenonT(40)
  <2>2. a \notin Doomed => d.obj[a] = st.obj[a]
    BY <1>3, Zenon
  <2>3. s.tree[a] = None \/ s.tree[a] = st.tree[a]
    BY <1>3, <1>6, ZenonT(40)
  <2> QED BY <2>1, <2>2, <2>3, NewFine, ZenonT(40) DEF Fine
<1>9. Fine(s)
  BY <1>7, <1>8, Zenon DEF Fine
<1> QED BY <1>4, <1>9, SMTT(40)

\* CommitDone: the journal, the revisions and the trail start again.
LEMMA CommitDoneHistory ==
    ASSUME History, NEW E, CommitDone(E)
    PROVE  History'
<1>1. /\ st' = AfterReset(E) /\ entries' = <<>> /\ len' = 0
      /\ revision' = <<>> /\ saved' = <<>> /\ pc' = "idle"
  BY DEF CommitDone
<1>2. Fine(st')
  BY <1>1, AfterResetFine DEF History
<1>3. PICK v : v = Now(st')
  OBVIOUS
<1>4. PICK W : W = [j \in {0} |-> v]
  BY Zenon
<1>5. W[0] = v
  BY <1>4
<1>6. Keeps(Now(st'), W[0])
  BY <1>3, <1>5, KeepsOrder, ZenonT(40)
<1>7. Trail(W, len)'
  <2>1. 1..len' = {} /\ 1..Len(revision') = {}
    BY <1>1
  <2>2. Keeps(Now(st'), W[len'])
    BY <1>1, <1>6, ZenonT(40)
  <2> QED BY <2>1, <2>2, ZenonT(40) DEF Trail, Undoes, Keeps, Now, Visible
<1>8. (\E X : Trail(X, IF pc = "revert" THEN cur ELSE len))'
  BY <1>1, <1>7, SMTT(40)
<1>9. \E T : saved' \in Seq(T)
  <2>1. <<>> \in Seq({})
    BY SMTT(40)
  <2> QED BY <1>1, <2>1
<1> QED BY <1>1, <1>2, <1>8, <1>9 DEF History

\* The trail of an empty journal.
LEMMA InitHistory == Init => History
<1> SUFFICES ASSUME Init PROVE History
  OBVIOUS
<1>1. /\ entries = <<>> /\ len = 0 /\ revision = <<>> /\ saved = <<>> /\ pc = "idle"
      /\ Sound(st) /\ st.obj = [a \in Addrs |-> newStateObject] /\ st.tree = [a \in Addrs |-> None]
  BY InitInv DEF Init, Inv
<1>2. Fine(st)
  BY <1>1, NewFine, Zenon DEF Fine
<1>3. PICK W : W = [j \in {0} |-> Now(st)]
  BY Zenon
<1>4. W[0] = Now(st)
  BY <1>3
<1>5. Keeps(Now(st), W[0])
  BY <1>4, KeepsOrder, ZenonT(40)
<1>6. Trail(W, len)
  BY <1>1, <1>5, SMTT(40) DEF Trail
<1>7. \E X : Trail(X, IF pc = "revert" THEN cur ELSE len)
  BY <1>1, <1>6, SMTT(40)
<1>8. \E T : saved \in Seq(T)
  <2>1. <<>> \in Seq({})
    BY SMTT(40)
  <2> QED BY <1>1, <2>1, SMTT(40)
<1> QED BY <1>1, <1>2, <1>7, <1>8, SMTT(40) DEF History

\* SubBalance is not undone, and a failed Commit leaves revisions of a journal that
\* refundGas has shortened.
Undoable == {"SubBalance", "CommitFails"} \cap Ops = {}

\* Every step keeps the history.
LEMMA NextHistory == Undoable => (Inv /\ History /\ [Next]_vars => History')
<1> SUFFICES ASSUME Undoable, Inv, History, [Next]_vars PROVE History'
  OBVIOUS
<1>0. Inv'
  BY NextInv, SMTT(40)
<1>1. CASE UNCHANGED vars
  BY <1>1, FrameHistory, SMTT(40) DEF vars, journalVars, revVars, loopVars
<1>2. CASE \E a \in Addrs : Call(a)
  <2> PICK a \in Addrs : Call(a)
    BY <1>2
  <2>1. CASE SetState(a) \/ LoadPanics(a)
    BY <2>1, PanicHistory, SMTT(40) DEF SetState, LoadPanics
  <2>2. CASE Get(a) \/ CreateAccount(a) \/ Suicide(a)
    BY <2>2, GetHistory, CreateAccountHistory, SuicideHistory, SMTT(40)
  <2>3. CASE \E n \in Nonces : SetNonce(a, n)
    BY <2>3, SetNonceHistory, SMTT(40)
  <2>4. CASE \E v \in Amounts : AddBalance(a, v) \/ SubBalance(a, v) \/ ChargeGas(a, v)
    <3>1. \A v \in Amounts : ~SubBalance(a, v)
      BY SMTT(40) DEF Undoable, SubBalance, Idle
    <3> QED BY <2>4, <3>1, AddBalanceHistory, ChargeGasHistory, SMTT(40)
  <2>5. CASE \E c \in Codes : SetCode(a, c)
    BY <2>5, SetCodeHistory
  <2> QED BY <2>1, <2>2, <2>3, <2>4, <2>5, SMTT(40) DEF Call
<1>3. CASE \E t \in Txs : Prepare(t)
  BY <1>3, FrameHistory DEF Prepare, journalVars, revVars, loopVars
<1>4. CASE AddLog \/ Snapshot \/ RevertStep \/ RevertDone \/ CommitStart \/ RefundStep
  BY <1>4, AddLogHistory, SnapshotHistory, RevertStepHistory, RevertDoneHistory, CommitStartHistory,
     RefundStepHistory, SMTT(40)
<1>5. CASE \E D \in SUBSET Addrs : IntermediateRoot(D)
  BY <1>5, IntermediateRootHistory, SMTT(40)
<1>6. CASE \E id \in 0..MaxRevs : RevertToSnapshot(id)
  BY <1>0, <1>6, RevertToSnapshotHistory, SMTT(40)
<1>7. CASE CommitPanics
  BY <1>7, PanicHistory, SMTT(40) DEF CommitPanics
<1>8. CASE \E D \in SUBSET Addrs : CommitFails(D)
  BY <1>8 DEF Undoable, CommitFails
<1>9. CASE \E E \in SUBSET Addrs : CommitDone(E)
  BY <1>9, CommitDoneHistory, SMTT(40)
<1> QED BY <1>1, <1>2, <1>3, <1>4, <1>5, <1>6, <1>7, <1>8, <1>9, SMTT(40) DEF Next

\* Only RevertDone ends a revert.
LEMMA RevertedIs ==
    ASSUME Inv, [Next]_vars, Reverted
    PROVE  RevertDone
<1>1. pc = "revert" /\ pc' # pc
  BY DEF Reverted
<1>2. ~UNCHANGED vars
  BY <1>1 DEF vars, loopVars
<1>3. \A a \in Addrs : ~Call(a)
  BY <1>1, ZenonT(40) DEF Call, Get, CreateAccount, Suicide, SetState, LoadPanics, SetNonce, AddBalance,
              SubBalance, ChargeGas, SetCode, Idle
<1>4. ~RevertStep
  BY <1>1 DEF RevertStep, PanicIn, loopVars
<1>5. /\ \A t \in Txs : ~Prepare(t)
      /\ ~AddLog /\ ~Snapshot /\ ~CommitStart /\ ~RefundStep /\ ~CommitPanics
      /\ \A D \in SUBSET Addrs : ~IntermediateRoot(D) /\ ~CommitFails(D)
      /\ \A id \in 0..MaxRevs : ~RevertToSnapshot(id)
      /\ \A E \in SUBSET Addrs : ~CommitDone(E)
  BY <1>1 DEF Prepare, AddLog, Snapshot, CommitStart, RefundStep, CommitPanics, Committing,
              IntermediateRoot, CommitFails, RevertToSnapshot, CommitDone, Idle
<1> QED BY <1>2, <1>3, <1>4, <1>5, SMTT(40) DEF Next

\* A revert that ends has come back to what was saved.
LEMMA RevertedKeeps ==
    ASSUME Inv, History, [Next]_vars, Reverted
    PROVE  /\ LET v == saved[arg + 1].view  w == Visible(st') IN
                \A a \in DOMAIN v : a \in DOMAIN w /\ SameAccount(w[a], v[a])
           /\ st'.logs = saved[arg + 1].logs
<1>1. RevertDone /\ pc = "revert"
  BY RevertedIs DEF Reverted
<1>2. PICK n : n = revision[FindRevision(arg)].journalIndex
  OBVIOUS
<1>3. /\ n = revision[arg + 1].journalIndex /\ n \in 0..len /\ n <= cur /\ cur \in 0..len
      /\ arg + 1 \in 1..Len(revision) /\ len \in Nat
  BY <1>1, <1>2, Reverting, ZenonT(40)
<1>4. cur <= n
  BY <1>1, <1>2, SMTT(40) DEF RevertDone
<1>5. cur = n
  BY <1>3, <1>4, SMTT(40)
<1>6. PICK W : Trail(W, n)
  BY <1>1, <1>5, Reverting, SMTT(40)
<1>7. Keeps(Now(st), saved[arg + 1])
  BY <1>3, <1>6, KeepsOrder, ZenonT(40) DEF Trail
<1>8. st' = st
  BY <1>1 DEF RevertDone, PanicIn
<1> QED BY <1>7, <1>8, ZenonT(40) DEF Keeps, Now, Visible

\* The states along the journal can be told at every point of an execution.
THEOREM HistoryInv == Undoable => (Spec => []History)
<1> SUFFICES ASSUME Undoable PROVE Spec => []History
  OBVIOUS
<1>1. Inv /\ History /\ [Next]_vars => History'
  BY NextHistory
<1> QED BY <1>1, InitHistory, StateDBInv, PTL DEF Spec

\* RevertToSnapshot gives every account that existed at the snapshot back, up to its
\* code hash, and the logs, whatever calls were made in between.
THEOREM RevertRestoresCorrect == Undoable => (Spec => RevertRestores)
<1> SUFFICES ASSUME Undoable PROVE Spec => RevertRestores
  BY SMTT(40)
<1>1. Inv /\ History /\ [Next]_vars =>
        [Reverted =>
           /\ LET v == saved[arg + 1].view  w == Visible(st') IN
                \A a \in DOMAIN v : a \in DOMAIN w /\ SameAccount(w[a], v[a])
           /\ st'.logs = saved[arg + 1].logs]_vars
  BY RevertedKeeps
<1>2. Spec => []History
  BY HistoryInv
<1> QED BY <1>1, <1>2, StateDBInv, PTL DEF Spec, RevertRestores
=============================================================================
