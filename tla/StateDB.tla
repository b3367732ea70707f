------------------------------ MODULE StateDB ------------------------------
(***************************************************************************)
(* The world state (package core/state): the live state objects, the cache *)
(* behind them, the bucket tree under both, the journal of undo entries    *)
(* and the stack of revisions that Snapshot and RevertToSnapshot keep.     *)
(* One action is one call, except that the two loops that walk the journal *)
(* (journal.revert and refundGas) take one action per entry.  No other     *)
(* call can run in between: the StateDB belongs to one goroutine.          *)
(*                                                                         *)
(* A hash is represented by what it is the hash of; the hash of no code is *)
(* NoCode, and the zero hash of a new account is Zero.  GetCode finds no   *)
(* code (Commit would store it, and Commit panics first) or panics.        *)
(***************************************************************************)
EXTENDS Integers, Sequences, FiniteSets, FiniteSetsExt

CONSTANTS
    Addrs,      \* addresses
    Txs,        \* transaction hashes (Prepare)
    Codes,      \* contract codes
    Amounts,    \* amounts a caller passes
    Nonces,     \* nonces a caller passes
    Ops,        \* the calls that are made
    MaxLen,     \* bound: journal entries
    MaxRevs,    \* bound: outstanding revisions
    MaxBal,     \* bound: balance of an account
    MaxLogs,    \* bound: logs
    None, NoCode, Zero

\* What can panic.
Panics == {"storage", "root", "revert", "log", "slice", "commit", "code"}

ASSUME StateAssumption ==
    /\ Amounts \subseteq Nat /\ Nonces \subseteq Nat
    /\ MaxLen \in Nat /\ MaxRevs \in Nat /\ MaxBal \in Nat /\ MaxLogs \in Nat
    /\ NoCode # Zero /\ {NoCode, Zero} \cap Codes = {}
    /\ None \notin Panics

VARIABLES
    st,             \* the accounts and logs: see State
    entries,        \* journal.entries: the backing array, stale slots included
    len,            \* journal.entries: its length
    revision,       \* StateDB.revision
    nextRevisionId, \* StateDB.nextRevisionId
    txHash,         \* the transaction Prepare announced
    pc,             \* "idle", or the journal loop that is running
    cur,            \* its position in the journal
    arg,            \* the revision id RevertToSnapshot was called with
    panicked,       \* what panicked, or None
    saved           \* history: what the state was at each revision

journalVars == <<entries, len>>
revVars == <<revision, nextRevisionId, saved>>
loopVars == <<pc, cur, arg>>
vars == <<st, journalVars, revVars, txHash, loopVars, panicked>>

Object == [nonce : Nat, bal : Int, code : Codes \cup {NoCode},
           hash : Codes \cup {NoCode, Zero}, suicided : BOOLEAN, deleted : BOOLEAN]
Account == [nonce : Nat, bal : Int, hash : Codes \cup {NoCode, Zero}]

\* obj[a] is the object of a in stateObjects (live) or in cacheStateObj (cached):
\* when a is in both it is the same object.  tree is the bucket tree in memory.
State == [obj : [Addrs -> Object], live : SUBSET Addrs, cached : SUBSET Addrs,
          dirty : SUBSET Addrs, tree : [Addrs -> Account \cup {None}],
          logs : [Txs -> Nat], logSize : Int]

Entry ==
    [op : {"create"}, a : Addrs]
    \cup [op : {"reset"}, a : Addrs, prev : Object]
    \cup [op : {"suicide"}, a : Addrs, prev : BOOLEAN, bal : Int]
    \cup [op : {"balance", "gas"}, a : Addrs, amount : Int]
    \cup [op : {"nonce"}, a : Addrs, prev : Nat]
    \cup [op : {"code"}, a : Addrs, prev : Codes \cup {NoCode}]
    \cup [op : {"log"}, tx : Txs]

Revision == [id : Nat, journalIndex : Nat]

newStateObject == [nonce |-> 0, bal |-> 0, code |-> NoCode, hash |-> Zero,
                   suicided |-> FALSE, deleted |-> FALSE]

Init ==
    /\ st = [obj |-> [a \in Addrs |-> newStateObject], live |-> {}, cached |-> {},
             dirty |-> {}, tree |-> [a \in Addrs |-> None],
             logs |-> [t \in Txs |-> 0], logSize |-> 0]
    /\ entries = <<>> /\ len = 0
    /\ revision = <<>> /\ nextRevisionId = 0 /\ saved = <<>>
    /\ txHash = None
    /\ pc = "idle" /\ cur = 0 /\ arg = 0
    /\ panicked = None

----------------------------------------------------------------------------
(* Operators on State: the state objects' own methods. *)

\* setStateObj
Put(s, a, o) == [s EXCEPT !.obj[a] = o, !.live = @ \cup {a}, !.cached = @ \cup {a}]

\* The account tree data of an object, and the object made from it.
Data(o) == [nonce |-> o.nonce, bal |-> o.bal, hash |-> o.hash]
FromData(d) == [newStateObject EXCEPT !.nonce = d.nonce, !.bal = d.bal, !.hash = d.hash]

\* GetStateObj(a) is not nil.
Exists(s, a) ==
    IF a \in s.live THEN ~s.obj[a].deleted ELSE a \in s.cached \/ s.tree[a] # None

\* What GetStateObj(a) does to the maps: fetch from the cache, then the tree.
Load(s, a) ==
    IF a \in s.live THEN s
    ELSE IF a \in s.cached THEN [s EXCEPT !.live = @ \cup {a}]
    ELSE IF s.tree[a] # None THEN Put(s, a, FromData(s.tree[a]))
    ELSE s

\* The setters, with their onDirty callback; SubBalance skips a zero balance.
SetNonceOf(s, a, n) == [s EXCEPT !.obj[a].nonce = n, !.dirty = @ \cup {a}]
SetBalanceOf(s, a, v) == [s EXCEPT !.obj[a].bal = v, !.dirty = @ \cup {a}]
AddBalanceOf(s, a, v) == SetBalanceOf(s, a, s.obj[a].bal + v)
SubBalanceOf(s, a, v) == IF s.obj[a].bal = 0 THEN s ELSE SetBalanceOf(s, a, s.obj[a].bal - v)
SetCodeOf(s, a, c) == [s EXCEPT !.obj[a].code = c, !.obj[a].hash = c, !.dirty = @ \cup {a}]
MarkSuicided(s, a, b) == [s EXCEPT !.obj[a].suicided = b]
empty(o) == o.nonce = 0 /\ o.bal = 0 /\ o.hash = NoCode
----------------------------------------------------------------------------
(* The journal. *)

\* journal.append of the entries es: they overwrite the stale slots after len.
JournalAppend(es) ==
    /\ len + Len(es) <= MaxLen
    /\ entries' = SubSeq(entries, 1, len) \o es \o SubSeq(entries, len + Len(es) + 1, Len(entries))
    /\ len' = len + Len(es)

\* createObjectChange.undo leaves the cache alone.
UndoCreateLive(s, a) == [s EXCEPT !.live = @ \ {a}]
UndoCreate(s, a) == [s EXCEPT !.live = @ \ {a}, !.dirty = @ \ {a}]

\* The undo methods of the journal entries.
Undo(s, e) ==
    CASE e.op = "log" -> [s EXCEPT !.logs[e.tx] = @ - 1, !.logSize = @ - 1]
      [] e.op = "create" -> UndoCreate(s, e.a)
      [] e.op = "reset" -> Put(s, e.a, e.prev)
      [] e.op \in {"suicide", "balance", "gas", "nonce", "code"} ->
            LET q == Load(s, e.a) IN
            IF ~Exists(s, e.a) THEN s
            ELSE CASE e.op = "suicide" -> SetBalanceOf(MarkSuicided(q, e.a, e.prev), e.a, e.bal)
                   [] e.op = "balance" -> SubBalanceOf(q, e.a, e.amount)
                   [] e.op = "gas" -> AddBalanceOf(q, e.a, e.amount)
                   [] e.op = "nonce" -> SetNonceOf(q, e.a, e.prev)
                   [] e.op = "code" -> SetCodeOf(q, e.a, e.prev)

----------------------------------------------------------------------------
(* The calls of a transaction's execution. *)
Idle(op) == pc = "idle" /\ panicked = None /\ op \in Ops

\* A call that changes the state to s and leaves the undo entries es.
Change(s, es) ==
    /\ st' = s
    /\ JournalAppend(es)
    /\ UNCHANGED <<revVars, txHash, loopVars, panicked>>

PanicIn(where) ==
    /\ panicked' = where
    /\ UNCHANGED <<st, journalVars, revVars, txHash, loopVars>>

\* createStateObj(a) when GetStateObj(a) is nil, and GetOrNewStateObj.
CreateEntry(a) == <<[op |-> "create", a |-> a]>>
GetOrNew(s, a) == IF Exists(s, a) THEN Load(s, a) ELSE Put(s, a, newStateObject)
NewEntries(s, a) == IF Exists(s, a) THEN <<>> ELSE CreateEntry(a)

Prepare(t) ==
    /\ Idle("Prepare")
    /\ txHash' = t
    /\ UNCHANGED <<st, journalVars, revVars, loopVars, panicked>>

\* GetNonce, GetBalance, GetCode, GetCodeHash, Exist, Empty, HasSuicided.
Get(a) ==
    /\ Idle("Get")
    /\ Change(Load(st, a), <<>>)

\* An account that only the tree has: the cache of codes is asked with a slice as the
\* key, which panics where the runtime hashes the key of a lookup in an empty map too.
LoadPanics(a) ==
    /\ \E op \in {"Get", "CreateAccount", "SetNonce", "AddBalance", "SubBalance", "ChargeGas",
                 "SetCode", "Suicide", "SetState"} : Idle(op)
    /\ a \notin st.live \cup st.cached /\ st.tree[a] # None
    /\ PanicIn("code")

\* A new object over an old one takes its balance along; a first one is not dirty.
CreateAccount(a) ==
    LET prev == Load(st, a).obj[a] IN
    /\ Idle("CreateAccount")
    /\ IF Exists(st, a)
       THEN Change(SetBalanceOf(Put(Load(st, a), a, newStateObject), a, prev.bal),
                   <<[op |-> "reset", a |-> a, prev |-> prev]>>)
       ELSE Change(Put(st, a, newStateObject), CreateEntry(a))

SetNonce(a, n) ==
    LET s == GetOrNew(st, a) IN
    /\ Idle("SetNonce")
    /\ Change(SetNonceOf(s, a, n),
              NewEntries(st, a) \o <<[op |-> "nonce", a |-> a, prev |-> s.obj[a].nonce]>>)

AddBalance(a, v) ==
    LET s == GetOrNew(st, a) IN
    /\ Idle("AddBalance") /\ s.obj[a].bal + v <= MaxBal
    /\ Change(AddBalanceOf(s, a, v),
              NewEntries(st, a) \o <<[op |-> "balance", a |-> a, amount |-> v]>>)

\* amount.Mul(amount, -1) negates the caller's amount before it is subtracted.
SubBalance(a, v) ==
    LET s == GetOrNew(st, a) IN
    /\ Idle("SubBalance") /\ s.obj[a].bal + v <= MaxBal
    /\ Change(SubBalanceOf(s, a, -v),
              NewEntries(st, a) \o <<[op |-> "balance", a |-> a, amount |-> -v]>>)

\* buyGas, the only caller, has checked that the balance covers the amount.
ChargeGas(a, v) ==
    LET s == Load(st, a) IN
    /\ Idle("ChargeGas") /\ Exists(st, a) /\ s.obj[a].bal >= v
    /\ Change(SubBalanceOf(s, a, v), <<[op |-> "gas", a |-> a, amount |-> v]>>)

SetCode(a, c) ==
    LET s == GetOrNew(st, a) IN
    /\ Idle("SetCode")
    /\ Change(SetCodeOf(s, a, c),
              NewEntries(st, a) \o <<[op |-> "code", a |-> a, prev |-> s.obj[a].code]>>)

\* Mutant: the balance is recorded once it is cleared.
SuicideLate(a) ==
    LET s == Load(st, a) IN
    /\ Idle("Suicide") /\ Exists(st, a)
    /\ Change(SetBalanceOf(MarkSuicided(s, a, TRUE), a, 0),
              <<[op |-> "suicide", a |-> a, prev |-> s.obj[a].suicided, bal |-> 0]>>)

Suicide(a) ==
    LET s == Load(st, a) IN
    /\ Idle("Suicide") /\ Exists(st, a)
    /\ Change(SetBalanceOf(MarkSuicided(s, a, TRUE), a, 0),
              <<[op |-> "suicide", a |-> a, prev |-> s.obj[a].suicided, bal |-> s.obj[a].bal]>>)

AddLog ==
    /\ Idle("AddLog") /\ txHash # None /\ st.logSize < MaxLogs
    /\ Change([st EXCEPT !.logs[txHash] = @ + 1, !.logSize = @ + 1],
              <<[op |-> "log", tx |-> txHash]>>)

\* GetState of a slot that is not cached, and so every SetState, calls the
\* object's bucket tree, which nothing ever opens.
SetState(a) ==
    /\ Idle("SetState")
    /\ PanicIn("storage")

\* The dirty objects' data goes into the tree; there is no way to take it back.
\* bmt.Prepare stops at an error of the database, with D written.
Flushed(s, D) == [a \in Addrs |-> IF a \in D THEN Data(s.obj[a]) ELSE s.tree[a]]

IntermediateRoot(D) ==
    /\ Idle("IntermediateRoot") /\ D \subseteq st.dirty
    /\ IF st.dirty \subseteq st.live
       THEN Change([st EXCEPT !.tree = Flushed(st, D)], <<>>)
       ELSE PanicIn("root")
----------------------------------------------------------------------------
(* Revisions. *)

\* What the rest of the program sees: the accounts that exist.
Visible(s) == [a \in {x \in Addrs : Exists(s, x)} |-> Load(s, a).obj[a]]

Snapshot ==
    /\ Idle("Snapshot") /\ Len(revision) < MaxRevs
    /\ nextRevisionId' = nextRevisionId + 1
    /\ revision' = Append(revision, [id |-> nextRevisionId, journalIndex |-> len])
    /\ saved' = Append(saved, [view |-> Visible(st), root |-> Flushed(st, st.dirty),
                               logs |-> st.logs])
    /\ UNCHANGED <<st, journalVars, txHash, loopVars, panicked>>

\* Mutant: strictly above.
FindAbove(id) ==
    LET hits == {i \in 1..Len(revision) : revision[i].id > id} IN
    IF hits = {} THEN 1 ELSE Min(hits)

\* The first revision at or above the id; the first of all when there is none.
FindRevision(id) ==
    LET hits == {i \in 1..Len(revision) : revision[i].id >= id} IN
    IF hits = {} THEN 1 ELSE Min(hits)

RevertToSnapshot(id) ==
    /\ Idle("RevertToSnapshot")
    /\ IF revision = <<>> \/ revision[FindRevision(id)].id # id
       THEN /\ panicked' = "revert"
            /\ arg' = id
            /\ UNCHANGED <<pc, cur>>
       ELSE /\ pc' = "revert" /\ arg' = id /\ cur' = len
            /\ UNCHANGED panicked
    /\ UNCHANGED <<st, journalVars, revVars, txHash>>

\* logChange.undo slices the list of logs, which is empty.
NoLogs(e) == e.op = "log" /\ st.logs[e.tx] = 0

\* journal.revert: undo the last entry that is not undone yet.
RevertStep ==
    /\ pc = "revert" /\ panicked = None
    /\ cur > revision[FindRevision(arg)].journalIndex
    /\ IF NoLogs(entries[cur])
       THEN PanicIn("log")
       ELSE /\ st' = Undo(st, entries[cur])
            /\ cur' = cur - 1
            /\ UNCHANGED <<journalVars, revVars, txHash, pc, arg, panicked>>

\* The slots after the length n are dropped once no revision points beyond it.
Trim(es, n, revs) ==
    IF \A i \in 1..Len(revs) : revs[i].journalIndex <= n THEN SubSeq(es, 1, n) ELSE es

\* Mutant: the next id is not reset.
RevertKeepsNextId ==
    LET n == revision[FindRevision(arg)].journalIndex IN
    /\ pc = "revert" /\ panicked = None /\ cur <= n
    /\ IF n > Len(entries)
       THEN PanicIn("slice")
       ELSE /\ len' = n
            /\ revision' = SubSeq(revision, 1, arg)
            /\ entries' = Trim(entries, n, revision')
            /\ saved' = SubSeq(saved, 1, arg)
            /\ pc' = "idle" /\ cur' = 0 /\ arg' = 0
            /\ UNCHANGED <<st, txHash, panicked, nextRevisionId>>

\* The slice entries[:snapshot] and the two resets.
RevertDone ==
    LET n == revision[FindRevision(arg)].journalIndex IN
    /\ pc = "revert" /\ panicked = None /\ cur <= n
    /\ IF n > Len(entries)
       THEN PanicIn("slice")
       ELSE /\ len' = n
            /\ revision' = SubSeq(revision, 1, arg)
            /\ entries' = Trim(entries, n, revision')
            /\ saved' = SubSeq(saved, 1, arg)
            /\ nextRevisionId' = arg
            /\ pc' = "idle" /\ cur' = 0 /\ arg' = 0
            /\ UNCHANGED <<st, txHash, panicked>>

----------------------------------------------------------------------------
(* Commit *)
CommitStart ==
    /\ Idle("Commit")
    /\ pc' = "refund" /\ cur' = 1
    /\ UNCHANGED <<st, journalVars, revVars, txHash, arg, panicked>>

\* journal.delete(i): the tail moves down one slot, the last slot goes stale.
Delete(es, i, n) == [j \in 1..Len(es) |-> IF i <= j /\ j < n THEN es[j + 1] ELSE es[j]]

\* Mutant: the loop moves on over the entry that took the deleted one's place.
RefundSkips ==
    /\ pc = "refund" /\ panicked = None /\ cur <= len
    /\ IF entries[cur].op = "gas"
       THEN /\ st' = Undo(st, entries[cur])
            /\ entries' = Delete(entries, cur, len)
            /\ len' = len - 1
       ELSE UNCHANGED <<st, journalVars>>
    /\ cur' = cur + 1
    /\ UNCHANGED <<revVars, txHash, pc, arg, panicked>>

\* refundGas: undo and delete the gas entries, first to last.
RefundStep ==
    /\ pc = "refund" /\ panicked = None /\ cur <= len
    /\ IF entries[cur].op = "gas"
       THEN /\ st' = Undo(st, entries[cur])
            /\ entries' = Delete(entries, cur, len)
            /\ len' = len - 1
            /\ UNCHANGED cur
       ELSE /\ cur' = cur + 1
            /\ UNCHANGED <<st, journalVars>>
    /\ UNCHANGED <<revVars, txHash, pc, arg, panicked>>

Committing == pc = "refund" /\ panicked = None /\ cur > len

\* The objects that Commit deletes, and the dirty ones that it keeps.
Doomed == {a \in st.live : st.obj[a].suicided \/ (a \in st.dirty /\ empty(st.obj[a]))}
Survivors == (st.live \cap st.dirty) \ Doomed

\* The loop over stateObjects, with D already written to the tree.
Deleted(D) ==
    [st EXCEPT !.obj = [a \in Addrs |-> IF a \in Doomed THEN [st.obj[a] EXCEPT !.deleted = TRUE]
                                        ELSE st.obj[a]],
               !.tree = [a \in Addrs |-> IF a \in D THEN None ELSE st.tree[a]],
               !.cached = @ \ Doomed,
               !.dirty = @ \ st.live]

\* stateObject.Commit calls the tree of the object, which is nil.
CommitPanics ==
    /\ Committing /\ Survivors # {}
    /\ PanicIn("commit")

\* bmt.Prepare or bmt.Commit returns an error of the database.
CommitFails(D) ==
    /\ Committing /\ Survivors = {} /\ D \subseteq Doomed /\ "CommitFails" \in Ops
    /\ st' = Deleted(D)
    /\ entries' = Trim(entries, len, revision)
    /\ pc' = "idle" /\ cur' = 0
    /\ UNCHANGED <<len, revVars, txHash, arg, panicked>>

\* reset, with the cache entries E too old to keep.
AfterReset(E) ==
    LET s == Deleted(Doomed) IN
    [s EXCEPT !.live = {}, !.dirty = {}, !.cached = @ \ E,
              !.obj = [a \in Addrs |-> IF a \in s.cached \ E THEN s.obj[a] ELSE newStateObject]]

\* Commit succeeds and clears the journal.
CommitDone(E) ==
    /\ Committing /\ Survivors = {}
    /\ st' = AfterReset(E)
    /\ entries' = <<>> /\ len' = 0
    /\ revision' = <<>> /\ nextRevisionId' = 0 /\ saved' = <<>>
    /\ pc' = "idle" /\ cur' = 0
    /\ UNCHANGED <<txHash, arg, panicked>>

----------------------------------------------------------------------------
Call(a) ==
    \/ Get(a) \/ CreateAccount(a) \/ Suicide(a) \/ SetState(a) \/ LoadPanics(a)
    \/ \E n \in Nonces : SetNonce(a, n)
    \/ \E v \in Amounts : AddBalance(a, v) \/ SubBalance(a, v) \/ ChargeGas(a, v)
    \/ \E c \in Codes : SetCode(a, c)

Next ==
    \/ \E a \in Addrs : Call(a)
    \/ \E t \in Txs : Prepare(t)
    \/ AddLog \/ Snapshot
    \/ \E D \in SUBSET Addrs : IntermediateRoot(D)
    \/ \E id \in 0..MaxRevs : RevertToSnapshot(id)
    \/ RevertStep \/ RevertDone
    \/ CommitStart \/ RefundStep \/ CommitPanics
    \/ \E D \in SUBSET Addrs : CommitFails(D)
    \/ \E E \in SUBSET Addrs : CommitDone(E)

Spec == Init /\ [][Next]_vars

----------------------------------------------------------------------------
TypeOK ==
    /\ st \in State
    /\ entries \in Seq(Entry) /\ len \in 0..Len(entries)
    /\ revision \in Seq(Revision) /\ nextRevisionId \in Nat
    /\ txHash \in Txs \cup {None}
    /\ pc \in {"idle", "revert", "refund"} /\ cur \in Nat /\ arg \in Nat
    /\ panicked \in Panics \cup {None}

\* Revision ids are stack positions and every index can be sliced to, also
\* after refundGas has shortened the journal and Commit has failed
\* (statedb.go:443-476).
RevisionsStack ==
    /\ nextRevisionId = Len(revision)
    /\ \A i \in 1..Len(revision) : /\ revision[i].id = i - 1
                                   /\ revision[i].journalIndex <= Len(entries)

\* RevertToSnapshot panics only for an id that is not outstanding.
RevertFindsLive == panicked = "revert" => arg \notin 0..(nextRevisionId - 1)

\* IntermediateRoot finds every dirty object, and a revert never slices the
\* journal beyond its array (statedb.go:366, journal.go:33).
NeverBroken == panicked \notin {"root", "slice"}

\* refundGas leaves no gas entry behind its position, so none in the journal when
\* it is done, although it deletes from the list it walks (statedb.go:419-428).
RefundComplete == pc = "refund" => \A i \in 1..(cur - 1) : i <= len => entries[i].op # "gas"

\* The last step ended a RevertToSnapshot.
Reverted == pc = "revert" /\ pc' = "idle"

\* Two objects agree up to the code hash.
SameAccount(o, p) == [o EXCEPT !.hash = Zero] = [p EXCEPT !.hash = Zero]

\* A revert gives every account that existed at the snapshot back as it was,
\* up to the code hash, and takes back the logs that were added since then, of
\* every transaction (statedb.go:442-470, journal.go:91-178).
RevertRestores ==
    [][Reverted =>
         /\ LET v == saved[arg + 1].view  w == Visible(st') IN
              \A a \in DOMAIN v : a \in DOMAIN w /\ SameAccount(w[a], v[a])
         /\ st'.logs = saved[arg + 1].logs]_vars

\* The state root that IntermediateRoot gives after a revert is the one it would
\* have given at the snapshot.
RootRestored == [][Reverted => Flushed(st', st'.dirty) = saved[arg + 1].root]_vars
=============================================================================
