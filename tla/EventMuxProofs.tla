--------------------------- MODULE EventMuxProofs ---------------------------
(***************************************************************************)
(* The inductive invariant of the event hub, for any number of goroutines  *)
(* and types and any channel size.                                         *)
(*                                                                         *)
(* No part of it is inductive alone: that find cannot miss a subscription  *)
(* rests on who holds which lock (Locked, Token), on the prefix of         *)
(* sendCases that a send goes through (Sending), on every subscription     *)
(* going once through the msgBox into sendCases (Listed), on what find can *)
(* read from the unlocked array (Scanned), and on where a subscription is  *)
(* while its Unsubscribe runs (Present); Inv joins them.                   *)
(***************************************************************************)
EXTENDS EventMux, TLAPS

\* Who is in TypeMux.mu: a writer from Lock on, alone once it is inside, and an
\* Unsubscribe as a reader until it returns.
Locked ==
    /\ \A p \in Procs :
        /\ pc[p] \in {"subscribe", "add", "stop", "close", "closeFeed"} => wr = p
        /\ pc[p] \in {"add", "close", "closeFeed"} => readers = {}
    /\ \A s \in Subs : pc[s] \in {"del", "find", "remove", "removeSelect"} => s \in readers

\* Who holds the token of a feed: a sender from sendLock to unlock, unless it came
\* through the closed channel, and Stop while it closes the feed.
Token ==
    /\ \A p \in Posters :
        /\ pc[p] \in {"sendLock", "merge", "try", "select", "unlock"} => typ[p] \in Types
        /\ pc[p] \in {"try", "select", "unlock"} => sendLock[typ[p]] = p
        /\ pc[p] = "merge" => sendLock[typ[p]] = p \/ closed[typ[p]]
        /\ pc[p] \in {"try", "select"} => pos[p] > 0
    /\ \A p \in Stoppers : pc[p] = "closeFeed" => typ[p] \in Types /\ sendLock[typ[p]] = p
    /\ \A t \in Types : sendLock[t] = Closed <=> closed[t]

\* The slice `cases' of a feed is a prefix of sendCases, and empty unless a sender is
\* going through it.
Sending ==
    \A t \in Types :
        /\ act[t] <= Len(sendCases[t])
        /\ act[t] > 0 => \E p \in Posters :
            sendLock[t] = p /\ typ[p] = t /\ pc[p] \in {"try", "select"}

\* s is still to be added to the feed of type t.
Fresh(s, t) == pc[s] \in {"idle", "subscribe"} \/ (pc[s] = "add" /\ t \in todo[s])

\* No entry twice.
Once(c) == \A i, j \in 1..Len(c) : c[i] = c[j] => i = j

\* A subscription goes once into the msgBox and from there once into sendCases.
Listed ==
    \A t \in Types :
        /\ Once(msgBox[t]) /\ Once(sendCases[t])
        /\ \A s \in Subs :
            /\ Found(msgBox[t], s) => s \notin joined[t]
            /\ Found(sendCases[t], s) => s \in joined[t]
            /\ Fresh(s, t) => ~Found(msgBox[t], s) /\ s \notin joined[t]

\* The array that find scans holds subscriptions of its type only, and does not get
\* shorter during a scan.
Scanned ==
    /\ \A t \in Types :
        /\ nsubs[t] <= Len(subs[t])
        /\ \A i \in 1..Len(subs[t]) : t \in Wants[subs[t][i]]
    /\ \A s \in Subs :
        /\ pc[s] = "add" => todo[s] \subseteq Wants[s]
        /\ pc[s] \in {"find", "remove", "removeSelect"} => typ[s] \in Types \ todo[s]
        /\ pc[s] = "find" => pos[s] > 0 /\ len[s] <= Len(subs[typ[s]])
        /\ pc[s] \in {"remove", "removeSelect"} => typ[s] \in Wants[s]

\* s has not been taken out of the feed of type t, in a running process or a dead one.
Stays(s, t) ==
    /\ t \in Wants[s] /\ ~chClosed[s]
    /\ \/ pc[s] = "live"
       \/ pc[s] = "add" /\ t \notin todo[s]
       \/ pc[s] \in {"del", "find", "remove", "removeSelect"} /\ t \in todo[s]
       \/ pc[s] \in {"find", "remove", "removeSelect"} /\ typ[s] = t

\* Until then it is in one of the lists, and in sendCases once remove has not found it
\* in the msgBox.
Present ==
    /\ \A t \in Types, s \in Subs : ~closed[t] /\ Stays(s, t) =>
        Found(msgBox[t], s) \/ Found(sendCases[t], s)
    /\ \A s \in Subs : pc[s] = "removeSelect" => ~Found(msgBox[typ[s]], s)

\* Before Stop is called nothing is closed and nobody has panicked.
Quiet ==
    (\A p \in Stoppers : pc[p] = "idle") =>
        /\ ~stopped /\ ~panicked
        /\ \A s \in Subs : ~chClosed[s]
        /\ \A t \in Types : ~closed[t]

Inv == TypeOK /\ Locked /\ Token /\ Sending /\ Listed /\ Scanned /\ Present /\ Quiet

----------------------------------------------------------------------------
(* Which entries the lists have after each operation. *)

\* The entries of a list.
LEMMA SeqEntries ==
    ASSUME NEW S, NEW c \in Seq(S)
    PROVE  Len(c) \in Nat /\ DOMAIN c = 1..Len(c) /\ \A i \in 1..Len(c) : c[i] \in S
OBVIOUS

\* The entries of two lists, one after the other.
LEMMA ConcatParts ==
    ASSUME NEW S, NEW a \in Seq(S), NEW b \in Seq(S)
    PROVE  /\ a \o b \in Seq(S) /\ Len(a \o b) = Len(a) + Len(b)
           /\ \A j \in 1..(Len(a) + Len(b)) :
                (a \o b)[j] = IF j <= Len(a) THEN a[j] ELSE b[j - Len(a)]
OBVIOUS

\* Lists with the same entries are the same.
LEMMA SameEntries ==
    ASSUME NEW S, NEW a \in Seq(S), NEW b \in Seq(S), Len(a) = Len(b),
           \A j \in 1..Len(a) : a[j] = b[j]
    PROVE  a = b
OBVIOUS

\* caseList.del takes out one entry and closes the gap.
LEMMA DelAt ==
    ASSUME NEW S, NEW c \in Seq(S), NEW i \in 1..Len(c)
    PROVE  /\ Del(c, i) \in Seq(S) /\ Len(Del(c, i)) = Len(c) - 1
           /\ \A j \in 1..(Len(c) - 1) : Del(c, i)[j] = IF j < i THEN c[j] ELSE c[j + 1]
<1> DEFINE a == SubSeq(c, 1, i - 1)
           b == SubSeq(c, i + 1, Len(c))
<1>0. Len(c) \in Nat /\ i \in Nat
  BY SeqEntries
<1>1. a \in Seq(S) /\ Len(a) = i - 1 /\ \A j \in 1..(i - 1) : a[j] = c[j]
  BY <1>0
<1>2. b \in Seq(S) /\ Len(b) = Len(c) - i /\ \A j \in 1..(Len(c) - i) : b[j] = c[i + j]
  BY <1>0
<1>3. Del(c, i) = a \o b
  BY Zenon DEF Del
<1> HIDE DEF a, b
<1>4. /\ a \o b \in Seq(S) /\ Len(a \o b) = Len(a) + Len(b)
      /\ \A j \in 1..(Len(a) + Len(b)) :
            (a \o b)[j] = IF j <= Len(a) THEN a[j] ELSE b[j - Len(a)]
  BY <1>1, <1>2, ConcatParts, Zenon
<1>5. ASSUME NEW j \in 1..(Len(c) - 1)
      PROVE  (a \o b)[j] = IF j < i THEN c[j] ELSE c[j + 1]
  <2>1. CASE j < i
    BY <2>1, <1>0, <1>1, <1>2, <1>4
  <2>2. CASE ~(j < i)
    <3>1. (a \o b)[j] = b[j - (i - 1)] /\ j - (i - 1) \in 1..(Len(c) - i)
      BY <2>2, <1>0, <1>1, <1>2, <1>4
    <3>2. b[j - (i - 1)] = c[i + (j - (i - 1))]
      BY <3>1, <1>2, Zenon
    <3> QED BY <3>1, <3>2, <2>2, <1>0
  <2> QED BY <2>1, <2>2, Zenon
<1> QED BY <1>0, <1>1, <1>2, <1>3, <1>4, <1>5

\* caseList.find gives an index of the case.
LEMMA FindAt ==
    ASSUME NEW c, NEW s, Found(c, s)
    PROVE  Find(c, s) \in 1..Len(c) /\ c[Find(c, s)] = s
BY Zenon DEF Found, Find

\* A case that is taken out is gone, and it alone: from the list, and from the prefix
\* that a send is going through.
LEMMA DelEntries ==
    ASSUME NEW S, NEW c \in Seq(S), NEW i \in 1..Len(c), Once(c)
    PROVE  /\ Once(Del(c, i))
           /\ \A s : Found(Del(c, i), s) <=> Found(c, s) /\ s # c[i]
           /\ \A n \in 0..Len(c) :
                {Del(c, i)[j] : j \in 1..(IF i <= n THEN n - 1 ELSE n)}
                    = {c[j] : j \in 1..n} \ {c[i]}
<1> DEFINE d == Del(c, i)
<1>0. Len(c) \in Nat /\ i \in Nat /\ i >= 1 /\ i <= Len(c)
  BY SeqEntries
<1>1. /\ Len(d) = Len(c) - 1
      /\ \A j \in 1..(Len(c) - 1) : d[j] = IF j < i THEN c[j] ELSE c[j + 1]
  BY DelAt, Zenon
<1> HIDE DEF d
<1>2. Once(d)
  BY <1>0, <1>1 DEF Once
\* Where an entry of d was, and where an entry of c is.
<1>3. \A j \in 1..Len(d) : \E k \in 1..Len(c) :
        k # i /\ d[j] = c[k] /\ (j < i => k = j) /\ (~(j < i) => k = j + 1)
  <2> SUFFICES ASSUME NEW j \in 1..Len(d)
               PROVE  \E k \in 1..Len(c) :
                        k # i /\ d[j] = c[k] /\ (j < i => k = j) /\ (~(j < i) => k = j + 1)
    BY Zenon
  <2>1. CASE j < i
    BY <2>1, <1>0, <1>1
  <2>2. CASE ~(j < i)
    <3>1. j + 1 \in 1..Len(c) /\ j + 1 # i /\ d[j] = c[j + 1]
      BY <2>2, <1>0, <1>1
    <3> QED BY <3>1, <2>2, Zenon
  <2> QED BY <2>1, <2>2, Zenon
<1>4. \A k \in 1..Len(c) : k # i => \E j \in 1..Len(d) :
        d[j] = c[k] /\ (k < i => j = k) /\ (~(k < i) => j = k - 1)
  <2> SUFFICES ASSUME NEW k \in 1..Len(c), k # i
               PROVE  \E j \in 1..Len(d) :
                        d[j] = c[k] /\ (k < i => j = k) /\ (~(k < i) => j = k - 1)
    BY Zenon
  <2>1. CASE k < i
    BY <2>1, <1>0, <1>1
  <2>2. CASE ~(k < i)
    <3>1. k - 1 \in 1..Len(d) /\ ~(k - 1 < i) /\ d[k - 1] = c[(k - 1) + 1]
      BY <2>2, <1>0, <1>1
    <3> QED BY <3>1, <2>2
  <2> QED BY <2>1, <2>2, Zenon
<1>5. ASSUME NEW s PROVE Found(d, s) <=> Found(c, s) /\ s # c[i]
  <2>1. ASSUME Found(d, s) PROVE Found(c, s) /\ s # c[i]
    BY <2>1, <1>3, Zenon DEF Found, Once
  <2>2. ASSUME Found(c, s), s # c[i] PROVE Found(d, s)
    BY <2>2, <1>4, Zenon DEF Found
  <2> QED BY <2>1, <2>2, Zenon
<1>6. ASSUME NEW n \in 0..Len(c)
      PROVE  {d[j] : j \in 1..(IF i <= n THEN n - 1 ELSE n)} = {c[j] : j \in 1..n} \ {c[i]}
  <2> DEFINE m == IF i <= n THEN n - 1 ELSE n
  <2>0. n \in Nat /\ n <= Len(c) /\ m \in Nat /\ m <= Len(d)
    BY <1>0, <1>1
  <2>1. ASSUME NEW j \in 1..m PROVE d[j] \in {c[k] : k \in 1..n} \ {c[i]}
    <3>1. PICK k \in 1..Len(c) : k # i /\ d[j] = c[k] /\ (j < i => k = j) /\ (~(j < i) => k = j + 1)
      BY <1>3, <2>0
    <3>2. k \in 1..n
      BY <3>1, <2>0, <1>0
    <3>3. c[k] # c[i]
      BY <3>1, Zenon DEF Once
    <3> QED BY <3>1, <3>2, <3>3, Zenon
  <2>2. ASSUME NEW k \in 1..n, c[k] # c[i] PROVE c[k] \in {d[j] : j \in 1..m}
    <3>0. k \in 1..Len(c) /\ k # i
      BY <2>2, <2>0
    <3>1. PICK j \in 1..Len(d) : d[j] = c[k] /\ (k < i => j = k) /\ (~(k < i) => j = k - 1)
      BY <1>4, <3>0, Zenon
    <3>2. j \in 1..m
      BY <3>0, <3>1, <2>0, <1>0
    <3> QED BY <3>1, <3>2, Zenon
  <2> HIDE DEF m
  <2>3. {d[j] : j \in 1..m} = {c[j] : j \in 1..n} \ {c[i]}
    BY <2>1, <2>2, Zenon
  <2> QED BY <2>3, Zenon DEF m
<1> QED BY <1>2, <1>5, <1>6, Zenon DEF d

\* caseList.deactivate moves the case behind the prefix and loses none.
LEMMA SwapEntries ==
    ASSUME NEW S, NEW c \in Seq(S), NEW n \in 1..Len(c), NEW i \in 1..n
    PROVE  /\ Swap(c, i, n) \in Seq(S) /\ Len(Swap(c, i, n)) = Len(c)
           /\ Once(c) => Once(Swap(c, i, n))
           /\ \A s : Found(Swap(c, i, n), s) <=> Found(c, s)
           /\ Once(c) =>
                {Swap(c, i, n)[j] : j \in 1..(n - 1)} = {c[j] : j \in 1..n} \ {c[i]}
<1> DEFINE d == Swap(c, i, n)
<1>0. Len(c) \in Nat /\ n \in Nat /\ i \in 1..Len(c) /\ n <= Len(c) /\ i \in Nat /\ i <= n
  BY SeqEntries
<1>1. d \in Seq(S) /\ Len(d) = Len(c)
  BY <1>0 DEF Swap
<1>2. \A j \in 1..Len(c) : d[j] = IF j = i THEN c[n] ELSE IF j = n THEN c[i] ELSE c[j]
  BY <1>0 DEF Swap
<1> HIDE DEF d
<1>3. Once(c) => Once(d)
  BY <1>0, <1>1, <1>2, Zenon DEF Once
<1>4. ASSUME NEW s PROVE Found(d, s) <=> Found(c, s)
  <2>1. \A j \in 1..Len(c) : \E k \in 1..Len(c) : d[j] = c[k]
    BY <1>0, <1>2, Zenon
  <2>2. \A j \in 1..Len(c) : \E k \in 1..Len(c) : c[j] = d[k]
    BY <1>0, <1>2, Zenon
  <2> QED BY <1>1, <2>1, <2>2, ZenonT(40) DEF Found
<1>5. ASSUME Once(c) PROVE {d[j] : j \in 1..(n - 1)} = {c[j] : j \in 1..n} \ {c[i]}
  <2>1. ASSUME NEW j \in 1..(n - 1) PROVE d[j] \in {c[k] : k \in 1..n} \ {c[i]}
    <3>1. j \in 1..Len(c) /\ j # n /\ j \in 1..n /\ n \in 1..n
      BY <1>0
    <3>2. CASE j = i
      BY <3>1, <3>2, <1>0, <1>2, <1>5, Zenon DEF Once
    <3>3. CASE j # i
      BY <3>1, <3>3, <1>0, <1>2, <1>5, Zenon DEF Once
    <3> QED BY <3>2, <3>3, Zenon
  <2>2. ASSUME NEW k \in 1..n, c[k] # c[i] PROVE c[k] \in {d[j] : j \in 1..(n - 1)}
    <3>1. k # i /\ k \in 1..Len(c)
      BY <2>2, <1>0
    <3>2. CASE k = n
      <4>1. i \in 1..(n - 1) /\ d[i] = c[n]
        BY <3>1, <3>2, <1>0, <1>2
      <4> QED BY <4>1, <3>2, Zenon
    <3>3. CASE k # n
      <4>1. k \in 1..(n - 1) /\ d[k] = c[k]
        BY <3>1, <3>3, <1>0, <1>2
      <4> QED BY <4>1, Zenon
    <3> QED BY <3>2, <3>3, Zenon
  <2> QED BY <2>1, <2>2, Zenon
<1> QED BY <1>1, <1>3, <1>4, <1>5, Zenon DEF d

\* Taking over the msgBox: the two lists one after the other.
LEMMA ConcatEntries ==
    ASSUME NEW S, NEW a \in Seq(S), NEW b \in Seq(S)
    PROVE  /\ a \o b \in Seq(S) /\ Len(a \o b) = Len(a) + Len(b)
           /\ \A s : Found(a \o b, s) <=> Found(a, s) \/ Found(b, s)
           /\ Once(a) /\ Once(b) /\ (\A s \in S : ~(Found(a, s) /\ Found(b, s))) => Once(a \o b)
<1> DEFINE d == a \o b
<1>0. Len(a) \in Nat /\ Len(b) \in Nat
  BY SeqEntries, Zenon
<1>1. /\ d \in Seq(S) /\ Len(d) = Len(a) + Len(b)
      /\ \A j \in 1..(Len(a) + Len(b)) : d[j] = IF j <= Len(a) THEN a[j] ELSE b[j - Len(a)]
  BY ConcatParts, Zenon
<1> HIDE DEF d
<1>2. \A j \in 1..Len(a) : j \in 1..Len(d) /\ d[j] = a[j]
  BY <1>0, <1>1
<1>3. \A j \in 1..Len(b) : j + Len(a) \in 1..Len(d) /\ d[j + Len(a)] = b[j]
  <2> SUFFICES ASSUME NEW j \in 1..Len(b)
               PROVE  j + Len(a) \in 1..Len(d) /\ d[j + Len(a)] = b[j]
    BY Zenon
  <2>1. j + Len(a) \in 1..(Len(a) + Len(b)) /\ ~(j + Len(a) <= Len(a)) /\ (j + Len(a)) - Len(a) = j
    BY <1>0
  <2> QED BY <2>1, <1>1, Zenon
<1>4. \A j \in 1..Len(d) : \/ j \in 1..Len(a) /\ d[j] = a[j]
                           \/ j - Len(a) \in 1..Len(b) /\ d[j] = b[j - Len(a)]
  BY <1>0, <1>1
<1>5. ASSUME NEW s PROVE Found(d, s) <=> Found(a, s) \/ Found(b, s)
  <2>1. ASSUME Found(d, s) PROVE Found(a, s) \/ Found(b, s)
    BY <2>1, <1>4, Zenon DEF Found
  <2>2. ASSUME Found(a, s) PROVE Found(d, s)
    BY <2>2, <1>2, Zenon DEF Found
  <2>3. ASSUME Found(b, s) PROVE Found(d, s)
    <3>1. PICK j \in 1..Len(b) : b[j] = s
      BY <2>3, Zenon DEF Found
    <3>2. j + Len(a) \in 1..Len(d) /\ d[j + Len(a)] = s
      BY <3>1, <1>3, Zenon
    <3> QED BY <3>2, Zenon DEF Found
  <2> QED BY <2>1, <2>2, <2>3, Zenon
<1>6. ASSUME Once(a), Once(b), \A s \in S : ~(Found(a, s) /\ Found(b, s)) PROVE Once(d)
  <2> SUFFICES ASSUME NEW i \in 1..Len(d), NEW j \in 1..Len(d), d[i] = d[j] PROVE i = j
    BY Zenon DEF Once
  <2>1. ASSUME NEW x \in 1..Len(a), NEW y \in 1..Len(b) PROVE a[x] # b[y]
    <3>1. Found(a, a[x]) /\ Found(b, b[y]) /\ a[x] \in S
      BY DEF Found
    <3> QED BY <3>1, <1>6, Zenon
  <2>2. CASE i \in 1..Len(a) /\ d[i] = a[i] /\ j \in 1..Len(a) /\ d[j] = a[j]
    BY <2>2, <1>6, Zenon DEF Once
  <2>3. CASE /\ i - Len(a) \in 1..Len(b) /\ d[i] = b[i - Len(a)]
             /\ j - Len(a) \in 1..Len(b) /\ d[j] = b[j - Len(a)]
    <3>1. i - Len(a) = j - Len(a)
      BY <2>3, <1>6, Zenon DEF Once
    <3> QED BY <3>1, <1>0
  <2> QED BY <2>1, <2>2, <2>3, <1>4, Zenon
<1> QED BY <1>1, <1>5, <1>6, Zenon DEF d

\* feed.add: the new entry is the last one.
LEMMA AppendEntries ==
    ASSUME NEW S, NEW c \in Seq(S), NEW e \in S
    PROVE  /\ Append(c, e) \in Seq(S) /\ Len(Append(c, e)) = Len(c) + 1
           /\ \A s : Found(Append(c, e), s) <=> Found(c, s) \/ s = e
           /\ Once(c) /\ ~Found(c, e) => Once(Append(c, e))
<1> DEFINE d == Append(c, e)
<1>1. /\ Len(c) \in Nat /\ d \in Seq(S) /\ Len(d) = Len(c) + 1
      /\ \A j \in 1..Len(c) : d[j] = c[j]
      /\ d[Len(c) + 1] = e
  OBVIOUS
<1> HIDE DEF d
<1>2. \A j \in 1..Len(d) : j \in 1..Len(c) \/ j = Len(c) + 1
  BY <1>1
<1>3. \A j \in 1..Len(c) : j \in 1..Len(d)
  BY <1>1
<1>4. Len(c) + 1 \in 1..Len(d)
  BY <1>1
<1>5. \A s : Found(d, s) <=> Found(c, s) \/ s = e
  BY <1>1, <1>2, <1>3, <1>4, Zenon DEF Found
<1>6. ASSUME Once(c), ~Found(c, e) PROVE Once(d)
  BY <1>1, <1>2, <1>6, Zenon DEF Found, Once
<1> QED BY <1>1, <1>5, <1>6, Zenon DEF d

\* A function on 1..n is a sequence.
LEMMA FunctionIsSeq ==
    ASSUME NEW S, NEW n \in Nat, NEW f \in [1..n -> S]
    PROVE  f \in Seq(S) /\ Len(f) = n
<1>1. f \in Seq(S)
  OBVIOUS
<1>2. DOMAIN f = 1..n /\ DOMAIN f = 1..Len(f) /\ Len(f) \in Nat
  BY <1>1, SeqEntries, Zenon
<1> QED BY <1>1, <1>2

\* feed.del moves entries inside the array.
LEMMA ShiftEntries ==
    ASSUME NEW S, NEW a \in Seq(S), NEW n \in 0..Len(a), NEW i \in Nat, i > 0
    PROVE  /\ Shift(a, i, n) \in Seq(S) /\ Len(Shift(a, i, n)) = Len(a)
           /\ \A j \in 1..Len(a) : \E k \in 1..Len(a) : Shift(a, i, n)[j] = a[k]
<1>0. Len(a) \in Nat
  BY SeqEntries, Zenon
<1>1. \A j \in 1..Len(a) : \E k \in 1..Len(a) :
        k = (IF i <= j /\ j < n THEN j + 1 ELSE j)
  BY <1>0
<1>2. \A j \in 1..Len(a) : \E k \in 1..Len(a) : Shift(a, i, n)[j] = a[k]
  <2> SUFFICES ASSUME NEW j \in 1..Len(a) PROVE \E k \in 1..Len(a) : Shift(a, i, n)[j] = a[k]
    BY Zenon
  <2>1. PICK k \in 1..Len(a) : k = (IF i <= j /\ j < n THEN j + 1 ELSE j)
    BY <1>1, Zenon
  <2>2. Shift(a, i, n)[j] = a[k]
    BY <2>1, Zenon DEF Shift
  <2> QED BY <2>2, Zenon
<1>3. Shift(a, i, n) \in [1..Len(a) -> S]
  <2>1. \A k \in 1..Len(a) : a[k] \in S
    OBVIOUS
  <2>2. \A j \in 1..Len(a) : (IF i <= j /\ j < n THEN a[j + 1] ELSE a[j]) \in S
    BY <1>0, <2>1
  <2> QED BY <2>2, Zenon DEF Shift
<1> QED BY <1>0, <1>2, <1>3, FunctionIsSeq, Zenon

\* feed.add keeps the live part of the array and puts the new entry behind it.
LEMMA ArrayEntries ==
    ASSUME NEW S, NEW a \in Seq(S), NEW n \in 0..Len(a), NEW e \in S
    PROVE  /\ Append(SubSeq(a, 1, n), e) \in Seq(S) /\ Len(Append(SubSeq(a, 1, n), e)) = n + 1
           /\ \A j \in 1..(n + 1) : \/ Append(SubSeq(a, 1, n), e)[j] = e
                                    \/ \E k \in 1..Len(a) : Append(SubSeq(a, 1, n), e)[j] = a[k]
<1> DEFINE b == SubSeq(a, 1, n)
<1>0. Len(a) \in Nat /\ n \in Nat /\ n <= Len(a)
  BY SeqEntries
<1>1. b \in Seq(S) /\ Len(b) = n /\ \A j \in 1..n : b[j] = a[j] /\ j \in 1..Len(a)
  BY <1>0
<1> HIDE DEF b
<1>2. /\ Append(b, e) \in Seq(S) /\ Len(Append(b, e)) = n + 1
      /\ \A j \in 1..n : Append(b, e)[j] = b[j]
      /\ Append(b, e)[n + 1] = e
  BY <1>1
<1>3. \A j \in 1..(n + 1) : j \in 1..n \/ j = n + 1
  BY <1>0
<1>4. \A j \in 1..(n + 1) : Append(b, e)[j] = e \/ \E k \in 1..Len(a) : Append(b, e)[j] = a[k]
  BY <1>1, <1>2, <1>3, Zenon
<1> QED BY <1>2, <1>4, Zenon DEF b

\* An entry that the live part of the array has is at an index of the array.
LEMMA LiveEntries ==
    ASSUME NEW S, NEW a \in Seq(S), NEW n \in 0..Len(a), NEW s, Found(SubSeq(a, 1, n), s)
    PROVE  Find(SubSeq(a, 1, n), s) \in 1..n /\ n > 0
<1>1. Len(a) \in Nat /\ n \in Nat /\ Len(SubSeq(a, 1, n)) = n
  BY SeqEntries
<1>2. Find(SubSeq(a, 1, n), s) \in 1..n
  BY <1>1, FindAt, Zenon
<1> QED BY <1>1, <1>2

\* The elements of a sequence.
LEMMA FoundRange ==
    ASSUME NEW S, NEW c \in Seq(S), NEW x
    PROVE  x \in Range(c) <=> Found(c, x)
BY DEF Range, Found

\* An empty list.
LEMMA EmptyList ==
    /\ Once(<<>>) /\ \A x : ~Found(<<>>, x)
BY DEF Once, Found

\* Received and buffered events, when one more is buffered and when one is received.
LEMMA GotEvents ==
    ASSUME NEW S, NEW r \in Seq(S), NEW c \in Seq(S)
    PROVE  /\ \A e \in S : r \o Append(c, e) = Append(r \o c, e)
           /\ c # <<>> => Append(r, Head(c)) \o Tail(c) = r \o c
<1>0. Len(r) \in Nat /\ Len(c) \in Nat
  BY SeqEntries, Zenon
<1>1. /\ r \o c \in Seq(S) /\ Len(r \o c) = Len(r) + Len(c)
      /\ \A j \in 1..(Len(r) + Len(c)) : (r \o c)[j] = IF j <= Len(r) THEN r[j] ELSE c[j - Len(r)]
  BY ConcatParts, Zenon
<1>2. ASSUME NEW e \in S PROVE r \o Append(c, e) = Append(r \o c, e)
  <2> DEFINE d == Append(c, e)
             f == r \o c
  <2>1. /\ d \in Seq(S) /\ Len(d) = Len(c) + 1 /\ d[Len(c) + 1] = e
        /\ \A j \in 1..Len(c) : d[j] = c[j]
    OBVIOUS
  <2> HIDE DEF d
  <2>2. /\ r \o d \in Seq(S) /\ Len(r \o d) = Len(r) + Len(d)
        /\ \A j \in 1..(Len(r) + Len(d)) : (r \o d)[j] = IF j <= Len(r) THEN r[j] ELSE d[j - Len(r)]
    BY <2>1, ConcatParts, Zenon
  <2> HIDE DEF f
  <2>3. /\ Append(f, e) \in Seq(S) /\ Len(Append(f, e)) = Len(r) + Len(c) + 1
        /\ Append(f, e)[Len(r) + Len(c) + 1] = e
        /\ \A j \in 1..(Len(r) + Len(c)) : Append(f, e)[j] = f[j]
    BY <1>1 DEF f
  <2>4. ASSUME NEW j \in 1..Len(r \o d) PROVE (r \o d)[j] = Append(f, e)[j]
    <3>0. j \in 1..(Len(r) + Len(c) + 1) /\ j \in Nat
      BY <1>0, <2>1, <2>2
    <3>1. CASE j <= Len(r)
      BY <1>0, <1>1, <2>1, <2>2, <2>3, <3>0, <3>1 DEF f
    <3>2. CASE j > Len(r) /\ j <= Len(r) + Len(c)
      <4>1. j - Len(r) \in 1..Len(c) /\ j \in 1..(Len(r) + Len(c)) /\ j \in 1..(Len(r) + Len(d))
        BY <1>0, <2>1, <3>0, <3>2
      <4> QED BY <1>0, <1>1, <2>1, <2>2, <2>3, <3>0, <3>2, <4>1, Zenon DEF f
    <3>3. CASE j = Len(r) + Len(c) + 1
      <4>1. j - Len(r) = Len(c) + 1 /\ j \in 1..(Len(r) + Len(d)) /\ ~(j <= Len(r))
        BY <1>0, <2>1, <3>0, <3>3
      <4> QED BY <2>1, <2>2, <2>3, <3>3, <4>1, Zenon
    <3>4. j <= Len(r) \/ (j > Len(r) /\ j <= Len(r) + Len(c)) \/ j = Len(r) + Len(c) + 1
      BY <1>0, <3>0
    <3> QED BY <3>1, <3>2, <3>3, <3>4, Zenon
  <2>5. Len(r \o d) = Len(Append(f, e))
    BY <1>0, <2>1, <2>2, <2>3
  <2>6. r \o d = Append(f, e)
    BY <2>2, <2>3, <2>4, <2>5, SameEntries, Zenon
  <2> QED BY <2>6, Zenon DEF d, f
<1>3. ASSUME c # <<>> PROVE Append(r, Head(c)) \o Tail(c) = r \o c
  <2> DEFINE a == Append(r, Head(c))
             b == Tail(c)
  <2>1. /\ Head(c) \in S /\ Head(c) = c[1] /\ b \in Seq(S) /\ Len(b) = Len(c) - 1 /\ Len(c) > 0
        /\ \A j \in 1..(Len(c) - 1) : b[j] = c[j + 1]
    BY <1>0, <1>3
  <2>2. /\ a \in Seq(S) /\ Len(a) = Len(r) + 1 /\ a[Len(r) + 1] = c[1]
        /\ \A j \in 1..Len(r) : a[j] = r[j]
    BY <2>1
  <2> HIDE DEF a, b
  <2>3. /\ a \o b \in Seq(S) /\ Len(a \o b) = Len(a) + Len(b)
        /\ \A j \in 1..(Len(a) + Len(b)) : (a \o b)[j] = IF j <= Len(a) THEN a[j] ELSE b[j - Len(a)]
    BY <2>1, <2>2, ConcatParts, Zenon
  <2>4. ASSUME NEW j \in 1..Len(a \o b) PROVE (a \o b)[j] = (r \o c)[j]
    <3>0. j \in 1..(Len(r) + Len(c)) /\ j \in Nat /\ j \in 1..(Len(a) + Len(b))
      BY <1>0, <2>1, <2>2, <2>3
    <3>1. CASE j <= Len(r)
      BY <1>0, <1>1, <2>2, <2>3, <3>0, <3>1
    <3>2. CASE j = Len(r) + 1
      <4>1. j <= Len(a) /\ ~(j <= Len(r)) /\ j - Len(r) = 1
        BY <1>0, <2>2, <3>2
      <4> QED BY <1>1, <2>2, <2>3, <3>0, <3>2, <4>1, Zenon
    <3>3. CASE j > Len(r) + 1
      <4>1. /\ ~(j <= Len(a)) /\ ~(j <= Len(r)) /\ j - Len(a) \in 1..(Len(c) - 1)
            /\ (j - Len(a)) + 1 = j - Len(r)
        BY <1>0, <2>2, <3>0, <3>3
      <4>2. b[j - Len(a)] = c[(j - Len(a)) + 1]
        BY <2>1, <4>1, Zenon
      <4> QED BY <1>1, <2>3, <3>0, <4>1, <4>2, Zenon
    <3> QED BY <1>0, <3>0, <3>1, <3>2, <3>3
  <2>5. Len(a \o b) = Len(r \o c)
    BY <1>0, <1>1, <2>1, <2>2, <2>3
  <2>6. a \o b = r \o c
    BY <1>1, <2>3, <2>4, <2>5, SameEntries, Zenon
  <2> QED BY <2>6, Zenon DEF a, b
<1> QED BY <1>2, <1>3, Zenon

\* A function that changes at one argument.
LEMMA ExceptAt ==
    ASSUME NEW A, NEW f, f = [x \in A |-> f[x]], NEW g, g = [x \in A |-> g[x]],
           NEW a \in A, NEW v, g[a] = v, \A x \in A : x # a => g[x] = f[x]
    PROVE  g = [f EXCEPT ![a] = v]
BY Zenon

----------------------------------------------------------------------------
(* Every action keeps the types. *)

\* Subscribing and receiving.
LEMMA TypeSubscribe ==
    ASSUME Inv, NEW s \in Subs, SubStep(s) \/ Receive(s)
    PROVE  TypeOK'
<1> USE DEF Inv, TypeOK, Labels, Procs, At, Goto, muxVars, feedVars, subVars, localVars, histVars
<1>1. CASE SubscribeLock(s)
  BY <1>1, Zenon DEF SubscribeLock
<1>2. CASE SubscribeEnter(s)
  <2>0. Wants[s] \subseteq Types
    BY EventAssumption, Zenon
  <2>1. CASE stopped
    BY <1>2, <2>1, Zenon DEF SubscribeEnter
  <2>2. CASE ~stopped
    BY <1>2, <2>0, <2>2, Zenon DEF SubscribeEnter
  <2> QED BY <2>1, <2>2, Zenon
<1>3. CASE SubscribeUnlock(s)
  BY <1>3, Zenon DEF SubscribeUnlock
<1>4. ASSUME NEW t \in Types, SubscribeAdd(s, t) PROVE TypeOK'
  <2>1. nsubs[t] \in 0..Len(subs[t])
    BY DEF Scanned
  <2>2. Append(SubSeq(subs[t], 1, nsubs[t]), s) \in Seq(Subs) /\ Append(msgBox[t], s) \in Seq(Subs)
    BY <2>1, ArrayEntries, AppendEntries
  <2>3. /\ subs' = [subs EXCEPT ![t] = Append(SubSeq(subs[t], 1, nsubs[t]), s)]
        /\ msgBox' = [msgBox EXCEPT ![t] = Append(msgBox[t], s)]
        /\ nsubs' = [nsubs EXCEPT ![t] = nsubs[t] + 1]
    BY <1>4, Zenon DEF SubscribeAdd
  <2>5. subs' \in [Types -> Seq(Subs)]
    BY <2>2, <2>3, Zenon
  <2>6. msgBox' \in [Types -> Seq(Subs)]
    BY <2>2, <2>3, Zenon
  <2>7. nsubs' \in [Types -> Nat]
    BY <2>3
  <2>4. feeds' \subseteq Types /\ todo' \in [Procs -> SUBSET Types]
    BY <1>4, Zenon DEF SubscribeAdd
  <2> QED BY <1>4, <2>4, <2>5, <2>6, <2>7, Zenon DEF SubscribeAdd
<1>5. CASE Receive(s)
  <2>1. chan[s] \in Seq(Types \X Nat) /\ chan[s] # <<>>
    BY <1>5, Zenon DEF Receive
  <2>2. Tail(chan[s]) \in Seq(Types \X Nat) /\ Append(recvd[s], Head(chan[s])) \in Seq(Types \X Nat)
    <3>1. recvd[s] \in Seq(Types \X Nat)
      BY Zenon
    <3> HIDE DEF Inv, TypeOK
    <3> QED BY <2>1, <3>1
  <2> QED BY <1>5, <2>2, Zenon DEF Receive
<1> QED BY <1>1, <1>2, <1>3, <1>4, <1>5, Zenon DEF SubStep

\* Unsubscribing.
LEMMA TypeDel ==
    ASSUME Inv, NEW s \in Subs, DelStep(s)
    PROVE  TypeOK'
<1> USE DEF Inv, TypeOK, Labels, Procs, At, Goto, muxVars, feedVars, subVars, localVars, histVars
<1>1. CASE DelRLock(s)
  BY <1>1, Zenon DEF DelRLock
<1>2. CASE FindStep(s)
  <2>1. pc' \in [Procs -> Labels]
    BY <1>2, ZenonT(40) DEF FindStep
  <2>2. pos' \in [Procs -> Nat]
    <3>1. pos' = pos \/ pos' = [pos EXCEPT ![s] = pos[s] + 1]
      BY <1>2, Zenon DEF FindStep
    <3>2. pos \in [Procs -> Nat] /\ s \in Procs /\ pos[s] + 1 \in Nat
      OBVIOUS
    <3> HIDE DEF Inv, TypeOK, Procs
    <3> QED BY <3>1, <3>2, Zenon
  <2> QED BY <1>2, <2>1, <2>2, Zenon DEF FindStep
<1>3. CASE RemoveLocked(s)
  <2> DEFINE t == typ[s]
             live == SubSeq(subs[t], 1, nsubs[t])
  <2>1. t \in Types /\ nsubs[t] \in 0..Len(subs[t])
    BY <1>3 DEF RemoveLocked, Scanned
  <2>2. Found(live, s) => /\ Shift(subs[t], Find(live, s), nsubs[t]) \in Seq(Subs)
                          /\ nsubs[t] - 1 \in Nat
    <3>0. subs[t] \in Seq(Subs) /\ nsubs[t] \in Nat
      BY <2>1, Zenon
    <3>1. Found(live, s) => Find(live, s) \in 1..nsubs[t] /\ nsubs[t] > 0
      BY <2>1, <3>0, LiveEntries, Zenon
    <3>2. Find(live, s) \in 1..nsubs[t] =>
            Shift(subs[t], Find(live, s), nsubs[t]) \in Seq(Subs)
      BY <2>1, ShiftEntries
    <3> QED BY <3>0, <3>1, <3>2
  <2>3. Found(msgBox[t], s) => Del(msgBox[t], Find(msgBox[t], s)) \in Seq(Subs)
    BY <2>1, FindAt, DelAt, Zenon
  <2> HIDE DEF live
  <2>4. /\ subs' \in [Types -> Seq(Subs)] /\ nsubs' \in [Types -> Nat]
    <3>1. CASE Found(live, s)
      <4>1. /\ subs' = [subs EXCEPT ![t] = Shift(subs[t], Find(live, s), nsubs[t])]
            /\ nsubs' = [nsubs EXCEPT ![t] = nsubs[t] - 1]
        BY <3>1, <1>3, Zenon DEF RemoveLocked, live
      <4>2. subs' \in [Types -> Seq(Subs)]
        BY <3>1, <4>1, <2>1, <2>2, Zenon
      <4>3. nsubs' \in [Types -> Nat]
        BY <3>1, <4>1, <2>1, <2>2, Zenon
      <4> QED BY <4>2, <4>3, Zenon
    <3>2. CASE ~Found(live, s)
      BY <3>2, <1>3, Zenon DEF RemoveLocked, live
    <3> QED BY <3>1, <3>2, Zenon
  <2>5. msgBox' \in [Types -> Seq(Subs)]
    BY <1>3, <2>1, <2>3, Zenon DEF RemoveLocked
  <2> QED BY <1>3, <2>4, <2>5, Zenon DEF RemoveLocked
<1>4. CASE RemoveUnderSendLock(s)
  <2>1. typ[s] \in Types
    BY <1>4, Zenon DEF RemoveUnderSendLock, Scanned
  <2>2. Found(sendCases[typ[s]], s) =>
            Del(sendCases[typ[s]], Find(sendCases[typ[s]], s)) \in Seq(Subs)
    BY <2>1, FindAt, DelAt, Zenon
  <2> QED BY <1>4, <2>1, <2>2, Zenon DEF RemoveUnderSendLock, Panic
<1>5. CASE RemoveAfterClose(s)
  BY <1>5, Zenon DEF RemoveAfterClose, Panic
<1>6. CASE DelRUnlock(s)
  BY <1>6, Zenon DEF DelRUnlock
<1>7. ASSUME NEW t \in Types, FindStart(s, t) PROVE TypeOK'
  BY <1>7, Zenon DEF FindStart
<1> QED BY <1>1, <1>2, <1>3, <1>4, <1>5, <1>6, <1>7, Zenon DEF DelStep

\* The case that a sender tries next, or that reflect.Select chose, is one of the slice.
LEMMA CaseIndex ==
    ASSUME Inv, NEW p \in Posters
    PROVE  /\ TrySend(p) => typ[p] \in Types /\ pos[p] \in 1..act[typ[p]]
           /\ \A i \in 1..Cardinality(Subs) :
                SelectSend(p, i) => typ[p] \in Types /\ i \in 1..act[typ[p]]
<1>1. ASSUME TrySend(p) PROVE typ[p] \in Types /\ pos[p] \in 1..act[typ[p]]
  <2>1. typ[p] \in Types /\ pos[p] \in Nat /\ pos[p] > 0 /\ pos[p] <= act[typ[p]]
    BY <1>1, Zenon DEF TrySend, At, Inv, Token, TypeOK, Procs
  <2>2. act[typ[p]] \in Nat
    BY <2>1, Zenon DEF Inv, TypeOK
  <2> QED BY <2>1, <2>2
<1>2. ASSUME NEW i \in 1..Cardinality(Subs), SelectSend(p, i)
      PROVE  typ[p] \in Types /\ i \in 1..act[typ[p]]
  <2>1. typ[p] \in Types /\ act[typ[p]] \in Nat
    BY <1>2, Zenon DEF SelectSend, At, Inv, Token, TypeOK
  <2>2. i <= act[typ[p]]
    BY <1>2, Zenon DEF SelectSend
  <2> QED BY <2>1, <2>2
<1> QED BY <1>1, <1>2, Zenon

\* What a delivery does to the lists.
LEMMA DeliverDoes ==
    ASSUME Inv, NEW t \in Types, NEW i \in 1..act[t], Deliver(t, i)
    PROVE  /\ i \in 1..Len(sendCases[t]) /\ act[t] \in 1..Len(sendCases[t])
           /\ sendCases[t][i] \in Subs
           /\ sendCases' = [sendCases EXCEPT ![t] = Swap(sendCases[t], i, act[t])]
           /\ Swap(sendCases[t], i, act[t]) \in Seq(Subs)
           /\ act' = [act EXCEPT ![t] = act[t] - 1] /\ act[t] - 1 \in Nat
           /\ chan' = [chan EXCEPT ![sendCases[t][i]] =
                            Append(chan[sendCases[t][i]], <<t, posted[t]>>)]
           /\ chan' \in [Subs -> Seq(Types \X Nat)]
<1>1. /\ sendCases[t] \in Seq(Subs) /\ act[t] \in Nat /\ act[t] <= Len(sendCases[t])
      /\ Len(sendCases[t]) \in Nat
  BY SeqEntries, Zenon DEF Inv, TypeOK, Sending
<1>2. i \in 1..Len(sendCases[t]) /\ act[t] \in 1..Len(sendCases[t]) /\ act[t] - 1 \in Nat
  BY <1>1
<1>3. sendCases[t][i] \in Subs
  BY <1>1, <1>2, SeqEntries, Zenon
<1>4. Swap(sendCases[t], i, act[t]) \in Seq(Subs)
  BY <1>1, <1>2, SwapEntries, Zenon
<1>5. /\ sendCases' = [sendCases EXCEPT ![t] = Swap(sendCases[t], i, act[t])]
      /\ act' = [act EXCEPT ![t] = act[t] - 1]
      /\ chan' = [chan EXCEPT ![sendCases[t][i]] =
                      Append(chan[sendCases[t][i]], <<t, posted[t]>>)]
  BY Zenon DEF Deliver, Inv, TypeOK
<1>6. chan \in [Subs -> Seq(Types \X Nat)] /\ <<t, posted[t]>> \in Types \X Nat
  BY Zenon DEF Inv, TypeOK
<1>7. chan' \in [Subs -> Seq(Types \X Nat)]
  BY <1>3, <1>5, <1>6
<1> QED BY <1>2, <1>3, <1>4, <1>5, <1>7, Zenon

\* What the hand-over of a subscription to a sender does to the lists.
LEMMA HandOver ==
    ASSUME Inv, NEW p \in Posters, NEW s \in Subs, SelectRemove(p, s),
           Found(sendCases[typ[p]], s)
    PROVE  LET t == typ[p]
               i == Find(sendCases[t], s)
           IN  /\ t \in Types /\ typ[s] = t /\ p # s
               /\ pc[p] = "select" /\ pc[s] = "removeSelect"
               /\ sendCases[t] \in Seq(Subs) /\ i \in 1..Len(sendCases[t]) /\ sendCases[t][i] = s
               /\ act[t] \in 0..Len(sendCases[t])
               /\ Del(sendCases[t], i) \in Seq(Subs)
               /\ sendCases' = [sendCases EXCEPT ![t] = Del(sendCases[t], i)]
               /\ (IF i <= act[t] THEN act[t] - 1 ELSE act[t]) \in Nat
               /\ act' = [act EXCEPT ![t] = IF i <= act[t] THEN act[t] - 1 ELSE act[t]]
               /\ pc' = [pc EXCEPT ![p] = "try", ![s] = "del"]
               /\ UNCHANGED <<muxVars, subs, nsubs, msgBox, sendLock, fmu, closed, subVars,
                              localVars, panicked, histVars>>
<1> DEFINE t == typ[p]
           i == Find(sendCases[t], s)
<1>1. pc[p] = "select" /\ pc[s] = "removeSelect" /\ typ[s] = t /\ p # s
  BY EventAssumption, Zenon DEF SelectRemove, At
<1>2. t \in Types
  BY <1>1, Zenon DEF Inv, Token
<1>3. /\ sendCases[t] \in Seq(Subs) /\ act[t] \in Nat /\ act[t] <= Len(sendCases[t])
      /\ Len(sendCases[t]) \in Nat
  BY <1>2, SeqEntries DEF Inv, TypeOK, Sending
<1>4. i \in 1..Len(sendCases[t]) /\ sendCases[t][i] = s
  BY FindAt, Zenon
<1>5. Del(sendCases[t], i) \in Seq(Subs)
  BY <1>3, <1>4, DelAt, Zenon
<1>6. /\ sendCases' = [sendCases EXCEPT ![t] = Del(sendCases[t], i)]
      /\ act' = [act EXCEPT ![t] = IF i <= act[t] THEN act[t] - 1 ELSE act[t]]
      /\ pc' = [pc EXCEPT ![p] = "try", ![s] = "del"]
      /\ UNCHANGED <<muxVars, subs, nsubs, msgBox, sendLock, fmu, closed, subVars,
                     localVars, panicked, histVars>>
  BY Zenon DEF SelectRemove
<1> HIDE DEF t, i
<1>7. act[t] \in 0..Len(sendCases[t]) /\ (IF i <= act[t] THEN act[t] - 1 ELSE act[t]) \in Nat
  BY <1>3, <1>4
<1>8. /\ t \in Types /\ typ[s] = t /\ p # s
      /\ pc[p] = "select" /\ pc[s] = "removeSelect"
      /\ sendCases[t] \in Seq(Subs) /\ i \in 1..Len(sendCases[t]) /\ sendCases[t][i] = s
      /\ act[t] \in 0..Len(sendCases[t])
      /\ Del(sendCases[t], i) \in Seq(Subs)
      /\ (IF i <= act[t] THEN act[t] - 1 ELSE act[t]) \in Nat
  BY <1>1, <1>2, <1>3, <1>4, <1>5, <1>7, Zenon
<1> QED BY <1>6, <1>8, Zenon DEF t, i

\* A delivery, in types.
LEMMA DeliverTypes ==
    ASSUME Inv, NEW t \in Types, NEW i \in 1..act[t], Deliver(t, i)
    PROVE  /\ sendCases' \in [Types -> Seq(Subs)] /\ act' \in [Types -> Nat]
           /\ chan' \in [Subs -> Seq(Types \X Nat)]
<1>1. sendCases \in [Types -> Seq(Subs)] /\ act \in [Types -> Nat]
  BY Zenon DEF Inv, TypeOK
<1>2. sendCases' \in [Types -> Seq(Subs)]
  BY <1>1, DeliverDoes, ZenonT(40)
<1>3. act' \in [Types -> Nat]
  BY <1>1, DeliverDoes, ZenonT(40)
<1> QED BY <1>2, <1>3, DeliverDoes, Zenon

\* The hand-over of a subscription, in types.
LEMMA HandOverTypes ==
    ASSUME Inv, NEW p \in Posters, NEW s \in Subs, SelectRemove(p, s),
           Found(sendCases[typ[p]], s)
    PROVE  sendCases' \in [Types -> Seq(Subs)] /\ act' \in [Types -> Nat]
<1>1. sendCases \in [Types -> Seq(Subs)] /\ act \in [Types -> Nat]
  BY Zenon DEF Inv, TypeOK
<1>2. \E t \in Types : \E c \in Seq(Subs), n \in Nat :
        sendCases' = [sendCases EXCEPT ![t] = c] /\ act' = [act EXCEPT ![t] = n]
  BY HandOver
<1>3. PICK t \in Types, c \in Seq(Subs), n \in Nat :
        sendCases' = [sendCases EXCEPT ![t] = c] /\ act' = [act EXCEPT ![t] = n]
  BY <1>2, Zenon
<1>4. sendCases' \in [Types -> Seq(Subs)]
  BY <1>1, <1>3, Zenon
<1>5. act' \in [Types -> Nat]
  BY <1>1, <1>3, Zenon
<1> QED BY <1>4, <1>5, Zenon

\* Posting and sending.
LEMMA TypeSend ==
    ASSUME Inv, NEW p \in Posters, SendStep(p) \/ \E t \in Types : Post(p, t)
    PROVE  TypeOK'
<1> USE DEF Inv, TypeOK, Labels, Procs, At, Goto, muxVars, feedVars, subVars, localVars, histVars
<1>1. CASE SendLock(p)
  BY <1>1, Zenon DEF SendLock
<1>2. CASE SendMerge(p)
  <2> DEFINE t == typ[p]
  <2>1. t \in Types
    BY <1>2, Zenon DEF SendMerge, Token
  <2>2. CASE closed[t]
    BY <1>2, <2>1, <2>2, ZenonT(40) DEF SendMerge
  <2>3. CASE ~closed[t]
    <3>1. sendCases[t] \o msgBox[t] \in Seq(Subs) /\ <<>> \in Seq(Subs)
      BY <2>1, ConcatEntries
    <3>2. sendCases' \in [Types -> Seq(Subs)]
      BY <1>2, <2>1, <2>3, <3>1, Zenon DEF SendMerge
    <3>3. msgBox' \in [Types -> Seq(Subs)]
      BY <1>2, <2>1, <2>3, <3>1, Zenon DEF SendMerge
    <3>4. Len(sendCases'[t]) \in Nat
      BY <2>1, <3>2, SeqEntries, Zenon
    <3>5. act' \in [Types -> Nat]
      BY <1>2, <2>1, <2>3, <3>4, ZenonT(40) DEF SendMerge
    <3>6. Range(msgBox[t]) \subseteq Subs
      BY <2>1 DEF Range
    <3>7. /\ posted' = [posted EXCEPT ![t] = posted[t] + 1]
          /\ joined' = [joined EXCEPT ![t] = joined[t] \cup Range(msgBox[t])]
          /\ pos' = [pos EXCEPT ![p] = 1]
      BY <1>2, <2>3, Zenon DEF SendMerge
    <3>8. joined' \in [Types -> SUBSET Subs]
      BY <2>1, <3>6, <3>7, Zenon
    <3>9. posted' \in [Types -> Nat] /\ pos' \in [Procs -> Nat]
      BY <2>1, <3>7
    <3> QED BY <1>2, <2>3, <3>2, <3>3, <3>5, <3>8, <3>9, Zenon DEF SendMerge
  <2> QED BY <2>2, <2>3, Zenon
<1>3. CASE TrySend(p)
  <2>1. typ[p] \in Types /\ pos[p] \in 1..act[typ[p]] /\ pos[p] \in Nat
    BY <1>3, CaseIndex, Zenon
  <2> DEFINE s == sendCases[typ[p]][pos[p]]
  <2>2. CASE chClosed[s]
    BY <1>3, <2>2, Zenon DEF TrySend, Panic
  <2>3. CASE ~chClosed[s] /\ HasRoom(s)
    <3>1. Deliver(typ[p], pos[p])
      BY <1>3, <2>3, Zenon DEF TrySend
    <3>2. /\ sendCases' \in [Types -> Seq(Subs)] /\ act' \in [Types -> Nat]
          /\ chan' \in [Subs -> Seq(Types \X Nat)]
      BY <2>1, <3>1, DeliverTypes, Zenon
    <3> QED BY <1>3, <2>3, <3>2, Zenon DEF TrySend
  <2>4. CASE ~chClosed[s] /\ ~HasRoom(s)
    <3>1. pos' = [pos EXCEPT ![p] = pos[p] + 1]
      BY <1>3, <2>4, Zenon DEF TrySend
    <3>2. pos' \in [Procs -> Nat]
      BY <3>1, <2>1
    <3> QED BY <1>3, <2>4, <3>2, Zenon DEF TrySend
  <2> QED BY <2>2, <2>3, <2>4, Zenon
<1>4. CASE TryDone(p)
  BY <1>4, Zenon DEF TryDone
<1>5. CASE SendUnlock(p)
  BY <1>5, Zenon DEF SendUnlock
<1>6. ASSUME NEW i \in 1..Cardinality(Subs), SelectSend(p, i) PROVE TypeOK'
  <2>1. typ[p] \in Types /\ i \in 1..act[typ[p]]
    BY <1>6, CaseIndex, Zenon
  <2> DEFINE s == sendCases[typ[p]][i]
  <2>2. CASE chClosed[s]
    BY <1>6, <2>2, Zenon DEF SelectSend, Panic
  <2>3. CASE ~chClosed[s]
    <3>1. Deliver(typ[p], i)
      BY <1>6, <2>3, Zenon DEF SelectSend
    <3>2. /\ sendCases' \in [Types -> Seq(Subs)] /\ act' \in [Types -> Nat]
          /\ chan' \in [Subs -> Seq(Types \X Nat)]
      BY <2>1, <3>1, DeliverTypes, Zenon
    <3> QED BY <1>6, <2>3, <3>2, Zenon DEF SelectSend
  <2> QED BY <2>2, <2>3, Zenon
<1>7. ASSUME NEW s \in Subs, SelectRemove(p, s) PROVE TypeOK'
  <2>1. CASE Found(sendCases[typ[p]], s)
    <3>1. sendCases' \in [Types -> Seq(Subs)] /\ act' \in [Types -> Nat]
      BY <1>7, <2>1, HandOverTypes, Zenon
    <3>2. pc' = [pc EXCEPT ![p] = "try", ![s] = "del"]
      BY <1>7, <2>1, HandOver, Zenon
    <3> QED BY <1>7, <2>1, <3>1, <3>2, Zenon DEF SelectRemove
  <2>2. CASE ~Found(sendCases[typ[p]], s)
    BY <1>7, <2>2, Zenon DEF SelectRemove, Panic
  <2> QED BY <2>1, <2>2, Zenon
<1>8. ASSUME NEW t \in Types, Post(p, t) PROVE TypeOK'
  <2>1. left' \in [Posters -> Nat]
    BY <1>8 DEF Post
  <2>2. readers' \subseteq Procs
    BY <1>8 DEF Post
  <2>3. CASE stopped \/ t \notin feeds
    BY <1>8, <2>1, <2>2, <2>3, Zenon DEF Post
  <2>4. CASE ~stopped /\ t \in feeds
    <3>1. typ' = [typ EXCEPT ![p] = t] /\ pc' = [pc EXCEPT ![p] = "sendLock"]
      BY <1>8, <2>4, Zenon DEF Post
    <3>2. typ' \in [Procs -> Types \cup {None}]
      BY <3>1, Zenon
    <3> QED BY <1>8, <2>1, <2>2, <2>4, <3>1, <3>2, Zenon DEF Post
  <2> QED BY <2>3, <2>4, Zenon
<1> QED BY <1>1, <1>2, <1>3, <1>4, <1>5, <1>6, <1>7, <1>8, Zenon DEF SendStep

\* Stopping.
LEMMA TypeStop ==
    ASSUME Inv, NEW p \in Stoppers, StopStep(p)
    PROVE  TypeOK'
<1> USE DEF Inv, TypeOK, Labels, Procs, At, Goto, muxVars, feedVars, subVars, localVars, histVars
<1>1. CASE StopLock(p)
  BY <1>1, Zenon DEF StopLock
<1>2. CASE StopEnter(p)
  <2>1. CASE stopped
    BY <1>2, <2>1, Zenon DEF StopEnter
  <2>2. CASE ~stopped
    <3>1. todo' = [todo EXCEPT ![p] = feeds]
      BY <1>2, <2>2, Zenon DEF StopEnter
    <3>2. todo' \in [Procs -> SUBSET Types]
      BY <3>1, Zenon
    <3> QED BY <1>2, <2>2, <3>2, Zenon DEF StopEnter
  <2> QED BY <2>1, <2>2, Zenon
<1>3. CASE CloseFeed(p)
  <2>1. <<>> \in Seq(Subs)
    OBVIOUS
  <2> QED BY <1>3, <2>1, Zenon DEF CloseFeed
<1>4. CASE StopUnlock(p)
  BY <1>4, Zenon DEF StopUnlock
<1>5. ASSUME NEW t \in Types, CloseLock(p, t) PROVE TypeOK'
  BY <1>5, Zenon DEF CloseLock
<1> QED BY <1>1, <1>2, <1>3, <1>4, <1>5, Zenon DEF StopStep

----------------------------------------------------------------------------
(* Who holds the locks. *)

\* A subscriber takes TypeMux.mu only when it is free, and gives it back.
LEMMA LockedSub ==
    ASSUME Inv, NEW s \in Subs, SubStep(s) \/ Receive(s) \/ DelStep(s)
    PROVE  Locked'
<1>0. pc \in [Procs -> Labels] /\ s \in Procs /\ Subs \subseteq Procs /\ None \notin Procs
  BY EventAssumption, Zenon DEF Inv, TypeOK, Procs
<1> USE <1>0 DEF Inv, Locked, At, Goto, muxVars
<1>1. CASE SubscribeLock(s)
  BY <1>1, Zenon DEF SubscribeLock, CanLock
<1>2. CASE SubscribeEnter(s)
  BY <1>2, Zenon DEF SubscribeEnter, ReadersGone
<1>3. CASE SubscribeUnlock(s)
  BY <1>3, Zenon DEF SubscribeUnlock
<1>4. ASSUME NEW t \in Types, SubscribeAdd(s, t) PROVE Locked'
  BY <1>4, Zenon DEF SubscribeAdd
<1>5. CASE Receive(s)
  BY <1>5, Zenon DEF Receive
<1>6. CASE DelRLock(s)
  BY <1>6, Zenon DEF DelRLock, CanRLock
<1>7. CASE FindStep(s)
  <2>1. /\ UNCHANGED muxVars /\ pc[s] = "find"
        /\ pc' = pc \/ pc' = [pc EXCEPT ![s] = "del"] \/ pc' = [pc EXCEPT ![s] = "remove"]
    BY <1>7, Zenon DEF FindStep
  <2> QED BY <2>1, Zenon
<1>8. CASE RemoveLocked(s)
  <2>1. /\ UNCHANGED muxVars /\ pc[s] = "remove"
        /\ pc' = [pc EXCEPT ![s] = "del"] \/ pc' = [pc EXCEPT ![s] = "removeSelect"]
    BY <1>8, Zenon DEF RemoveLocked
  <2> QED BY <2>1, Zenon
<1>9. CASE RemoveUnderSendLock(s)
  BY <1>9, Zenon DEF RemoveUnderSendLock, Panic
<1>10. CASE RemoveAfterClose(s)
  BY <1>10, Zenon DEF RemoveAfterClose, Panic
<1>11. CASE DelRUnlock(s)
  BY <1>11, Zenon DEF DelRUnlock
<1>12. ASSUME NEW t \in Types, FindStart(s, t) PROVE Locked'
  BY <1>12, Zenon DEF FindStart
<1> QED BY <1>1, <1>2, <1>3, <1>4, <1>5, <1>6, <1>7, <1>8, <1>9, <1>10, <1>11, <1>12, Zenon
           DEF SubStep, DelStep

\* So does a stopper; a Post after Stop keeps its read lock.
LEMMA LockedOther ==
    ASSUME Inv, NEW p \in Posters \cup Stoppers,
           \/ p \in Posters /\ (SendStep(p) \/ \E t \in Types : Post(p, t))
           \/ p \in Stoppers /\ StopStep(p)
    PROVE  Locked'
<1>0. /\ pc \in [Procs -> Labels] /\ p \in Procs /\ Subs \subseteq Procs /\ None \notin Procs
      /\ p \notin Subs
  BY EventAssumption, Zenon DEF Inv, TypeOK, Procs
<1> USE <1>0 DEF Inv, Locked, At, Goto, muxVars
<1>1. CASE SendLock(p)
  BY <1>1, Zenon DEF SendLock
<1>2. CASE SendMerge(p)
  <2>1. /\ UNCHANGED muxVars /\ pc[p] = "merge"
        /\ pc' = [pc EXCEPT ![p] = "idle"] \/ pc' = [pc EXCEPT ![p] = "try"]
    BY <1>2, Zenon DEF SendMerge
  <2> QED BY <2>1, Zenon
<1>3. CASE TrySend(p)
  BY <1>3, Zenon DEF TrySend, Panic
<1>4. CASE TryDone(p)
  <2>1. /\ UNCHANGED muxVars /\ pc[p] = "try"
        /\ pc' = [pc EXCEPT ![p] = "unlock"] \/ pc' = [pc EXCEPT ![p] = "select"]
    BY <1>4, Zenon DEF TryDone
  <2> QED BY <2>1, Zenon
<1>5. CASE SendUnlock(p)
  BY <1>5, Zenon DEF SendUnlock
<1>6. ASSUME NEW i, SelectSend(p, i) PROVE Locked'
  BY <1>6, Zenon DEF SelectSend, Panic
<1>7. ASSUME NEW s \in Subs, SelectRemove(p, s) PROVE Locked'
  <2>1. /\ UNCHANGED muxVars /\ pc[s] = "removeSelect" /\ pc[p] = "select"
        /\ pc' = pc \/ pc' = [pc EXCEPT ![p] = "try", ![s] = "del"]
    BY <1>7, Zenon DEF SelectRemove, Panic
  <2> QED BY <2>1, Zenon
<1>8. ASSUME NEW t \in Types, Post(p, t) PROVE Locked'
  <2>1. /\ wr' = wr /\ wr = None /\ readers \subseteq readers' /\ pc[p] = "idle"
        /\ pc' = pc \/ pc' = [pc EXCEPT ![p] = "sendLock"]
    BY <1>8, Zenon DEF Post, CanRLock
  <2> QED BY <2>1, Zenon
<1>9. CASE StopLock(p)
  BY <1>9, Zenon DEF StopLock, CanLock
<1>10. CASE StopEnter(p)
  BY <1>10, Zenon DEF StopEnter, ReadersGone
<1>11. CASE CloseFeed(p)
  BY <1>11, Zenon DEF CloseFeed
<1>12. CASE StopUnlock(p)
  BY <1>12, Zenon DEF StopUnlock
<1>13. ASSUME NEW t \in Types, CloseLock(p, t) PROVE Locked'
  BY <1>13, Zenon DEF CloseLock
<1> QED BY <1>1, <1>2, <1>3, <1>4, <1>5, <1>6, <1>7, <1>8, <1>9, <1>10, <1>11, <1>12, <1>13
        DEF SendStep, StopStep

----------------------------------------------------------------------------
(* Who holds the token of a feed. *)

\* Subscribing, receiving and unsubscribing leave the other goroutines alone, and
\* every feed's token, closed flag and running send.
LEMMA SubFrame ==
    ASSUME Inv, NEW s \in Subs, SubStep(s) \/ Receive(s) \/ DelStep(s)
    PROVE  /\ \A q \in Procs : q # s => /\ pc'[q] = pc[q] /\ typ'[q] = typ[q]
                                        /\ todo'[q] = todo[q] /\ pos'[q] = pos[q]
           /\ \A q \in Subs : q # s => len'[q] = len[q] /\ chClosed'[q] = chClosed[q]
           /\ UNCHANGED <<sendLock, fmu, closed, act, posted, joined, stopped>>
<1>0. /\ pc \in [Procs -> Labels] /\ typ \in [Procs -> Types \cup {None}]
      /\ todo \in [Procs -> SUBSET Types] /\ pos \in [Procs -> Nat] /\ len \in [Subs -> Nat]
      /\ chClosed \in [Subs -> BOOLEAN]
  BY Zenon DEF Inv, TypeOK
<1> USE <1>0 DEF Goto, muxVars, feedVars, subVars, localVars, histVars, Panic
<1>1. CASE SubscribeLock(s)
  BY <1>1, Zenon DEF SubscribeLock
<1>2. CASE SubscribeEnter(s)
  <2>1. CASE stopped
    BY <1>2, <2>1, Zenon DEF SubscribeEnter
  <2>2. CASE ~stopped
    BY <1>2, <2>2, Zenon DEF SubscribeEnter
  <2> QED BY <2>1, <2>2, Zenon
<1>3. CASE SubscribeUnlock(s)
  BY <1>3, Zenon DEF SubscribeUnlock
<1>4. ASSUME NEW t \in Types, SubscribeAdd(s, t)
      PROVE  /\ UNCHANGED <<pc, typ, pos, len, chClosed>> /\ todo' = [todo EXCEPT ![s] = @ \ {t}]
             /\ UNCHANGED <<sendLock, fmu, closed, act, posted, joined, stopped>>
  BY <1>4, Zenon DEF SubscribeAdd
<1>5. CASE Receive(s)
  BY <1>5, Zenon DEF Receive
<1>6. CASE DelRLock(s)
  BY <1>6, Zenon DEF DelRLock
<1>7. CASE FindStep(s)
  BY <1>7, Zenon DEF FindStep
<1>8. CASE RemoveLocked(s)
  <2>1. /\ UNCHANGED <<sendLock, fmu, closed, act, posted, joined, stopped, typ, todo, pos, len, chClosed>>
        /\ pc' = [pc EXCEPT ![s] = "del"] \/ pc' = [pc EXCEPT ![s] = "removeSelect"]
    BY <1>8, Zenon DEF RemoveLocked
  <2> QED BY <2>1, Zenon
<1>9. CASE RemoveUnderSendLock(s)
  <2>1. /\ UNCHANGED <<sendLock, fmu, closed, act, posted, joined, stopped, typ, todo, pos, len, chClosed>>
        /\ pc' = [pc EXCEPT ![s] = "del"] \/ pc' = pc
    BY <1>9, Zenon DEF RemoveUnderSendLock
  <2> QED BY <2>1, Zenon
<1>10. CASE RemoveAfterClose(s)
  BY <1>10, Zenon DEF RemoveAfterClose
<1>11. CASE DelRUnlock(s)
  BY <1>11, Zenon DEF DelRUnlock
<1>12. ASSUME NEW t \in Types, FindStart(s, t)
       PROVE  /\ \A q \in Procs : q # s => /\ pc'[q] = pc[q] /\ typ'[q] = typ[q]
                                           /\ todo'[q] = todo[q] /\ pos'[q] = pos[q]
              /\ \A q \in Subs : q # s => len'[q] = len[q] /\ chClosed'[q] = chClosed[q]
              /\ UNCHANGED <<sendLock, fmu, closed, act, posted, joined, stopped>>
  BY <1>12, ZenonT(40) DEF FindStart
<1> QED BY <1>1, <1>2, <1>3, <1>4, <1>5, <1>6, <1>7, <1>8, <1>9, <1>10, <1>11, <1>12
           DEF SubStep, DelStep

\* Subscribers do not hold tokens between two steps.
LEMMA TokenSub ==
    ASSUME Inv, NEW s \in Subs, SubStep(s) \/ Receive(s) \/ DelStep(s)
    PROVE  Token'
<1>1. /\ \A q \in Posters \cup Stoppers : pc'[q] = pc[q] /\ typ'[q] = typ[q] /\ pos'[q] = pos[q]
      /\ UNCHANGED <<sendLock, closed>>
  <2>1. \A q \in Posters \cup Stoppers : q \in Procs /\ q # s
    BY EventAssumption, Zenon DEF Procs
  <2> QED BY <2>1, SubFrame, Zenon
<1> QED BY <1>1 DEF Inv, Token

\* Senders take the token and put it back; Stop keeps it for good.
LEMMA TokenOther ==
    ASSUME Inv, NEW p \in Posters \cup Stoppers,
           \/ p \in Posters /\ (SendStep(p) \/ \E t \in Types : Post(p, t))
           \/ p \in Stoppers /\ StopStep(p)
    PROVE  Token'
<1>0. /\ pc \in [Procs -> Labels] /\ p \in Procs /\ Posters \subseteq Procs /\ Stoppers \subseteq Procs
      /\ Subs \subseteq Procs /\ Free \notin Procs /\ Closed \notin Procs /\ Free # Closed
      /\ p \notin Subs /\ Posters \cap Stoppers = {} /\ Posters \cap Subs = {} /\ Stoppers \cap Subs = {}
      /\ typ \in [Procs -> Types \cup {None}] /\ None \notin Types
      /\ sendLock \in [Types -> Procs \cup {Free, Closed}] /\ closed \in [Types -> BOOLEAN]
      /\ pos \in [Procs -> Nat]
  BY EventAssumption, Zenon DEF Inv, TypeOK, Procs, Free, Closed
<1> USE <1>0 DEF Inv, Token, At, Goto, localVars, feedVars
<1>1. CASE SendLock(p) /\ p \in Posters
  BY <1>1 DEF SendLock
<1>2. CASE SendMerge(p) /\ p \in Posters
  <2>1. CASE closed[typ[p]]
    BY <1>2, <2>1 DEF SendMerge
  <2>2. CASE ~closed[typ[p]]
    BY <1>2, <2>2 DEF SendMerge
  <2> QED BY <2>1, <2>2, Zenon
<1>3. CASE TrySend(p) /\ p \in Posters
  <2>1. /\ UNCHANGED <<pc, typ, sendLock, closed>>
        /\ pos' = pos \/ pos' = [pos EXCEPT ![p] = pos[p] + 1]
    BY <1>3, Zenon DEF TrySend, Panic
  <2> QED BY <2>1
<1>4. CASE TryDone(p) /\ p \in Posters
  <2>1. /\ UNCHANGED <<typ, sendLock, closed>> /\ pc[p] = "try"
        /\ pc' = [pc EXCEPT ![p] = "unlock"] \/ pc' = [pc EXCEPT ![p] = "select"]
        /\ pos' = [pos EXCEPT ![p] = 1]
    BY <1>4, Zenon DEF TryDone
  <2> QED BY <2>1
<1>5. CASE SendUnlock(p) /\ p \in Posters
  BY <1>5 DEF SendUnlock
<1>6. ASSUME p \in Posters, NEW i, SelectSend(p, i) PROVE Token'
  <2>1. /\ UNCHANGED <<typ, sendLock, closed>> /\ pc[p] = "select" /\ UNCHANGED pos
        /\ pc' = pc \/ pc' = [pc EXCEPT ![p] = "try"]
    BY <1>6, Zenon DEF SelectSend, Panic
  <2> QED BY <2>1, <1>6
<1>7. ASSUME p \in Posters, NEW s \in Subs, SelectRemove(p, s) PROVE Token'
  <2>1. /\ UNCHANGED <<typ, sendLock, closed>> /\ pc[p] = "select" /\ UNCHANGED pos
        /\ pc' = pc \/ pc' = [pc EXCEPT ![p] = "try", ![s] = "del"]
    BY <1>7, Zenon DEF SelectRemove, Panic
  <2> QED BY <2>1, <1>7
<1>8. ASSUME p \in Posters, NEW t \in Types, Post(p, t) PROVE Token'
  <2>1. /\ UNCHANGED <<sendLock, closed, pos>> /\ pc[p] = "idle"
        /\ \/ UNCHANGED <<pc, typ>>
           \/ pc' = [pc EXCEPT ![p] = "sendLock"] /\ typ' = [typ EXCEPT ![p] = t]
    BY <1>8, Zenon DEF Post
  <2> QED BY <2>1, <1>8
<1>9. CASE StopLock(p) /\ p \in Stoppers
  BY <1>9 DEF StopLock
<1>10. CASE StopEnter(p) /\ p \in Stoppers
  <2>1. /\ UNCHANGED <<typ, sendLock, closed, pos>>
        /\ pc' = [pc EXCEPT ![p] = "gone"] \/ pc' = [pc EXCEPT ![p] = "close"]
    BY <1>10, Zenon DEF StopEnter
  <2> QED BY <2>1, <1>10
<1>11. CASE CloseFeed(p) /\ p \in Stoppers
  BY <1>11 DEF CloseFeed
<1>12. CASE StopUnlock(p) /\ p \in Stoppers
  BY <1>12, ZenonT(40) DEF StopUnlock
<1>13. ASSUME p \in Stoppers, NEW t \in Types, CloseLock(p, t) PROVE Token'
  BY <1>13 DEF CloseLock
<1> QED BY <1>1, <1>2, <1>3, <1>4, <1>5, <1>6, <1>7, <1>8, <1>9, <1>10, <1>11, <1>12, <1>13, Zenon
           DEF SendStep, StopStep

----------------------------------------------------------------------------
(* A send goes through a prefix of sendCases. *)

\* Without a sender in its loop nobody is owed the last event.
LEMMA NoSend ==
    ASSUME Inv, NEW t \in Types,
           ~(sendLock[t] \in Posters /\ typ[sendLock[t]] = t /\ pc[sendLock[t]] \in {"try", "select"})
    PROVE  act[t] = 0
<1>1. act[t] \in Nat /\ ~(act[t] > 0)
  BY Zenon DEF Inv, TypeOK, Sending
<1> QED BY <1>1

\* An Unsubscribe shortens sendCases only while no send goes through it.
LEMMA SendingSub ==
    ASSUME Inv, NEW s \in Subs, SubStep(s) \/ Receive(s) \/ DelStep(s)
    PROVE  Sending'
<1>1. /\ \A q \in Posters : pc'[q] = pc[q] /\ typ'[q] = typ[q]
      /\ UNCHANGED <<sendLock, act>>
  <2>1. \A q \in Posters : q \in Procs /\ q # s
    BY EventAssumption, Zenon DEF Procs
  <2> QED BY <2>1, SubFrame, Zenon
<1>2. CASE UNCHANGED sendCases
  BY <1>1, <1>2 DEF Inv, Sending
<1>3. CASE RemoveUnderSendLock(s) /\ Found(sendCases[typ[s]], s)
  <2> DEFINE t == typ[s]
             c == Del(sendCases[t], Find(sendCases[t], s))
  <2>1. t \in Types /\ sendLock[t] = Free
    BY <1>3, Zenon DEF RemoveUnderSendLock, At, Inv, Scanned
  <2>2. act[t] = 0
    BY <2>1, NoSend, EventAssumption, Zenon DEF Procs
  <2>3. sendCases[t] \in Seq(Subs) /\ sendCases \in [Types -> Seq(Subs)]
    BY <2>1, Zenon DEF Inv, TypeOK
  <2>4. Len(c) \in Nat
    BY <1>3, <2>3, FindAt, DelAt, SeqEntries, Zenon
  <2>5. sendCases' = [sendCases EXCEPT ![t] = c]
    BY <1>3, Zenon DEF RemoveUnderSendLock
  <2>6. /\ sendCases'[t] = c
        /\ \A u \in Types : u # t => sendCases'[u] = sendCases[u]
    BY <2>1, <2>3, <2>5, Zenon
  <2> HIDE DEF t, c
  <2> QED BY <1>1, <2>1, <2>2, <2>4, <2>6 DEF Inv, Sending
<1>4. UNCHANGED sendCases \/ (RemoveUnderSendLock(s) /\ Found(sendCases[typ[s]], s))
  BY ZenonT(40)
     DEF SubStep, DelStep, SubscribeLock, SubscribeEnter, SubscribeUnlock, SubscribeAdd, Receive,
         DelRLock, FindStart, FindStep, RemoveLocked, RemoveUnderSendLock, RemoveAfterClose, DelRUnlock,
         Panic, feedVars
<1> QED BY <1>2, <1>3, <1>4, Zenon

\* A sender shortens the prefix by the case it served or was asked to remove.
LEMMA SendingOther ==
    ASSUME Inv, NEW p \in Posters \cup Stoppers,
           \/ p \in Posters /\ (SendStep(p) \/ \E t \in Types : Post(p, t))
           \/ p \in Stoppers /\ StopStep(p)
    PROVE  Sending'
<1>0. /\ pc \in [Procs -> Labels] /\ p \in Procs /\ Posters \subseteq Procs
      /\ Posters \cap Stoppers = {} /\ Posters \cap Subs = {} /\ Free \notin Procs /\ Closed \notin Procs
      /\ typ \in [Procs -> Types \cup {None}]
      /\ sendLock \in [Types -> Procs \cup {Free, Closed}]
      /\ act \in [Types -> Nat] /\ sendCases \in [Types -> Seq(Subs)]
  BY EventAssumption, Zenon DEF Inv, TypeOK, Procs
<1> USE <1>0 DEF Sending, At, Goto
<1>1. CASE SendLock(p) /\ p \in Posters
  <2> DEFINE t == typ[p]
  <2>1. t \in Types /\ sendLock[t] \in {Free, Closed} /\ pc[p] = "sendLock"
    BY <1>1, Zenon DEF SendLock, Inv, Token
  <2>2. act[t] = 0
    BY <2>1, NoSend, Zenon
  <2>3. /\ UNCHANGED <<typ, act, sendCases>> /\ pc' = [pc EXCEPT ![p] = "merge"]
        /\ \A u \in Types : u # t => sendLock'[u] = sendLock[u]
    BY <1>1, Zenon DEF SendLock, localVars
  <2> HIDE DEF t
  <2>4. ASSUME NEW u \in Types, act[u] > 0
        PROVE  \E q \in Posters : sendLock'[u] = q /\ typ[q] = u /\ pc'[q] \in {"try", "select"}
    <3>1. PICK q \in Posters : sendLock[u] = q /\ typ[q] = u /\ pc[q] \in {"try", "select"}
      BY <2>4, Zenon DEF Inv
    <3>2. pc'[q] \in {"try", "select"} /\ sendLock'[u] = q
      BY <2>1, <2>2, <2>3, <2>4, <3>1, Zenon
    <3> QED BY <3>1, <3>2, Zenon
  <2> QED BY <2>3, <2>4, Zenon DEF Inv
<1>2. CASE SendMerge(p) /\ p \in Posters
  <2>1. CASE closed[typ[p]]
    BY <1>2, <2>1 DEF SendMerge, Inv, Token
  <2>2. CASE ~closed[typ[p]]
    <3> DEFINE t == typ[p]
               c == sendCases[t] \o msgBox[t]
    <3>1. t \in Types /\ sendLock[t] = p /\ msgBox[t] \in Seq(Subs)
      BY <1>2, <2>2 DEF SendMerge, Inv, Token, TypeOK
    <3>2. c \in Seq(Subs) /\ Len(c) \in Nat
      BY <3>1, ConcatEntries, SeqEntries
    <3>3. /\ sendCases' = [sendCases EXCEPT ![t] = c] /\ sendCases'[t] = c
          /\ act' = [act EXCEPT ![t] = Len(sendCases'[t])] /\ pc' = [pc EXCEPT ![p] = "try"]
          /\ UNCHANGED <<typ, sendLock>>
      BY <1>2, <2>2, <3>1, Zenon DEF SendMerge
    <3> HIDE DEF t, c
    <3> QED BY <1>2, <3>1, <3>2, <3>3 DEF t, Inv
  <2> QED BY <2>1, <2>2, Zenon
<1>3. ASSUME NEW t \in Types, NEW i \in 1..act[t], Deliver(t, i), t = typ[p],
             p \in Posters, pc[p] \in {"try", "select"}, UNCHANGED <<typ, sendLock>>,
             pc' = pc \/ pc' = [pc EXCEPT ![p] = "try"]
      PROVE  Sending'
  <2>1. /\ sendCases' = [sendCases EXCEPT ![t] = Swap(sendCases[t], i, act[t])]
        /\ act' = [act EXCEPT ![t] = act[t] - 1] /\ act[t] - 1 \in Nat
        /\ Len(Swap(sendCases[t], i, act[t])) = Len(sendCases[t]) /\ Len(sendCases[t]) \in Nat
    BY <1>3, DeliverDoes, SwapEntries, SeqEntries
  <2>2. sendLock[t] = p
    BY <1>3, Zenon DEF Inv, Token
  <2>3. act'[t] <= Len(sendCases'[t])
    BY <2>1 DEF Inv
  <2>4. \A u \in Types : u # t => act'[u] = act[u] /\ sendCases'[u] = sendCases[u]
    BY <2>1, Zenon
  <2>5. \A q \in Posters : q # p => pc'[q] = pc[q]
    BY <1>3, Zenon
  <2>6. pc'[p] \in {"try", "select"}
    BY <1>3, Zenon
  <2>7. act[t] \in Nat /\ act'[t] = act[t] - 1 /\ act[t] > 0
    BY <2>1
  <2>8. ASSUME NEW u \in Types, u # t, act'[u] > 0
        PROVE  \E q \in Posters : sendLock'[u] = q /\ typ'[q] = u /\ pc'[q] \in {"try", "select"}
    <3>1. PICK q \in Posters : sendLock[u] = q /\ typ[q] = u /\ pc[q] \in {"try", "select"}
      BY <2>4, <2>8, Zenon DEF Inv
    <3> QED BY <1>3, <2>5, <2>8, <3>1, Zenon
  <2>9. \E q \in Posters : sendLock'[t] = q /\ typ'[q] = t /\ pc'[q] \in {"try", "select"}
    BY <1>3, <2>2, <2>6, Zenon
  <2>10. \A u \in Types : act'[u] <= Len(sendCases'[u])
    BY <2>3, <2>4, Zenon DEF Inv
  <2> QED BY <2>8, <2>9, <2>10, Zenon
<1>4. CASE TrySend(p) /\ p \in Posters
  <2>1. typ[p] \in Types /\ pos[p] \in 1..act[typ[p]] /\ pc[p] = "try"
    BY <1>4, CaseIndex, Zenon DEF TrySend
  <2>2. /\ UNCHANGED <<pc, typ, sendLock>>
        /\ UNCHANGED <<act, sendCases>> \/ Deliver(typ[p], pos[p])
    BY <1>4, Zenon DEF TrySend, Panic, feedVars, localVars
  <2>3. CASE UNCHANGED <<act, sendCases>>
    BY <2>2, <2>3, Zenon DEF Inv
  <2> QED BY <1>3, <1>4, <2>1, <2>2, <2>3, Zenon
<1>5. CASE TryDone(p) /\ p \in Posters
  <2>1. /\ UNCHANGED <<typ, sendLock, act, sendCases>> /\ pc[p] = "try"
        /\ \/ pc' = [pc EXCEPT ![p] = "unlock"] /\ act[typ[p]] = 0
           \/ pc' = [pc EXCEPT ![p] = "select"]
    BY <1>5, Zenon DEF TryDone, feedVars
  <2>2. ASSUME NEW u \in Types, act[u] > 0
        PROVE  \E q \in Posters : sendLock[u] = q /\ typ[q] = u /\ pc'[q] \in {"try", "select"}
    <3>1. PICK q \in Posters : sendLock[u] = q /\ typ[q] = u /\ pc[q] \in {"try", "select"}
      BY <2>2, Zenon DEF Inv
    <3>2. pc'[q] \in {"try", "select"}
      BY <2>1, <2>2, <3>1
    <3> QED BY <3>1, <3>2, Zenon
  <2> QED BY <2>1, <2>2, Zenon DEF Inv
<1>6. CASE SendUnlock(p) /\ p \in Posters
  <2>1. sendLock[typ[p]] = p /\ typ[p] \in Types
    BY <1>6, Zenon DEF SendUnlock, Inv, Token
  <2>2. act[typ[p]] = 0
    BY <2>1, <1>6, NoSend, Zenon DEF SendUnlock
  <2> QED BY <1>6, <2>1, <2>2 DEF SendUnlock, Inv
<1>7. ASSUME p \in Posters, NEW i \in 1..Cardinality(Subs), SelectSend(p, i) PROVE Sending'
  <2>1. typ[p] \in Types /\ i \in 1..act[typ[p]] /\ pc[p] = "select"
    BY <1>7, CaseIndex, Zenon DEF SelectSend
  <2>2. /\ UNCHANGED <<typ, sendLock>>
        /\ \/ UNCHANGED <<act, sendCases, pc>>
           \/ Deliver(typ[p], i) /\ pc' = [pc EXCEPT ![p] = "try"]
    BY <1>7, Zenon DEF SelectSend, Panic, feedVars, localVars
  <2>3. CASE UNCHANGED <<act, sendCases, pc>>
    BY <2>2, <2>3, Zenon DEF Inv
  <2> QED BY <1>3, <1>7, <2>1, <2>2, <2>3, Zenon
<1>8. ASSUME p \in Posters, NEW s \in Subs, SelectRemove(p, s) PROVE Sending'
  <2>1. CASE ~Found(sendCases[typ[p]], s)
    BY <1>8, <2>1 DEF SelectRemove, Panic, feedVars, localVars, Inv
  <2>2. CASE Found(sendCases[typ[p]], s)
    <3> DEFINE t == typ[p]
               i == Find(sendCases[t], s)
               n == IF i <= act[t] THEN act[t] - 1 ELSE act[t]
               c == Del(sendCases[t], i)
    <3>1. /\ t \in Types /\ i \in 1..Len(sendCases[t]) /\ act[t] \in 0..Len(sendCases[t])
          /\ sendCases[t] \in Seq(Subs) /\ n \in Nat /\ p # s /\ pc[p] = "select"
          /\ sendCases' = [sendCases EXCEPT ![t] = c]
          /\ act' = [act EXCEPT ![t] = n]
          /\ pc' = [pc EXCEPT ![p] = "try", ![s] = "del"]
          /\ UNCHANGED <<sendLock, typ>>
      BY <1>8, <2>2, HandOver DEF localVars
    <3>2. Len(c) = Len(sendCases[t]) - 1 /\ Len(sendCases[t]) \in Nat
      BY <3>1, DelAt, SeqEntries, Zenon
    <3>3. n <= Len(c)
      BY <3>1, <3>2
    <3>4. sendLock[t] = p
      BY <3>1, <1>8, Zenon DEF Inv, Token
    <3>5. /\ act'[t] <= Len(sendCases'[t])
          /\ \A u \in Types : u # t => act'[u] = act[u] /\ sendCases'[u] = sendCases[u]
      BY <3>1, <3>3, Zenon
    <3>6. pc'[p] = "try" /\ \A q \in Posters : q # p => pc'[q] = pc[q]
      BY <3>1, <1>8, Zenon
    <3>7. typ'[p] = t /\ \A q \in Posters : typ'[q] = typ[q]
      BY <3>1, Zenon
    <3> HIDE DEF t, i, n, c
    <3> QED BY <1>8, <3>1, <3>4, <3>5, <3>6, <3>7 DEF Inv
  <2> QED BY <2>1, <2>2, Zenon
<1>9. ASSUME p \in Posters, NEW t \in Types, Post(p, t) PROVE Sending'
  <2>1. /\ UNCHANGED <<sendLock, act, sendCases>> /\ pc[p] = "idle"
        /\ \/ UNCHANGED <<pc, typ>>
           \/ pc' = [pc EXCEPT ![p] = "sendLock"] /\ typ' = [typ EXCEPT ![p] = t]
    BY <1>9, Zenon DEF Post, feedVars
  <2> QED BY <2>1, <1>9 DEF Inv
<1>10. CASE (StopLock(p) \/ StopEnter(p) \/ StopUnlock(p)) /\ p \in Stoppers
  <2>1. /\ UNCHANGED <<sendLock, act, sendCases>>
        /\ \A q \in Posters : pc'[q] = pc[q] /\ typ'[q] = typ[q]
    BY <1>10, Zenon DEF StopLock, StopEnter, StopUnlock, feedVars, localVars
  <2> QED BY <2>1 DEF Inv
<1>11. CASE CloseFeed(p) /\ p \in Stoppers
  <2>1. sendLock[typ[p]] = p /\ typ[p] \in Types
    BY <1>11, Zenon DEF CloseFeed, Inv, Token
  <2>2. act[typ[p]] = 0
    BY <2>1, <1>11, NoSend, Zenon
  <2> QED BY <1>11, <2>1, <2>2 DEF CloseFeed, Inv, localVars
<1>12. ASSUME p \in Stoppers, NEW t \in Types, CloseLock(p, t) PROVE Sending'
  <2>1. act[t] = 0
    BY <1>12, NoSend, Zenon DEF CloseLock
  <2> QED BY <1>12, <2>1 DEF CloseLock, Inv
<1> QED BY <1>1, <1>2, <1>4, <1>5, <1>6, <1>7, <1>8, <1>9, <1>10, <1>11, <1>12, ZenonT(40)
        DEF SendStep, StopStep

----------------------------------------------------------------------------
(* What the steps do to the lists, told by their entries. *)

\* feed.add
LEMMA AddLists ==
    ASSUME Inv, NEW s \in Subs, NEW t \in Types, SubscribeAdd(s, t)
    PROVE  /\ \A u \in Types : Once(msgBox'[u])
           /\ \A u \in Types, x \in Subs :
                Found(msgBox'[u], x) <=> Found(msgBox[u], x) \/ (u = t /\ x = s)
           /\ UNCHANGED <<sendCases, joined>>
<1>1. /\ msgBox \in [Types -> Seq(Subs)]
      /\ msgBox' = [msgBox EXCEPT ![t] = Append(msgBox[t], s)]
      /\ UNCHANGED <<sendCases, joined>>
  BY Zenon DEF SubscribeAdd, Inv, TypeOK, histVars
<1>2. ~Found(msgBox[t], s) /\ \A u \in Types : Once(msgBox[u])
  BY Zenon DEF SubscribeAdd, At, Inv, Listed, Fresh
<1>3. /\ \A x : Found(Append(msgBox[t], s), x) <=> Found(msgBox[t], x) \/ x = s
      /\ Once(Append(msgBox[t], s))
  BY <1>1, <1>2, AppendEntries, Zenon
<1>4. /\ msgBox'[t] = Append(msgBox[t], s)
      /\ \A u \in Types : u # t => msgBox'[u] = msgBox[u]
  BY <1>1, Zenon
<1> QED BY <1>1, <1>2, <1>3, <1>4, Zenon

\* feed.remove under feed.mu
LEMMA BoxLists ==
    ASSUME Inv, NEW s \in Subs, RemoveLocked(s)
    PROVE  /\ typ[s] \in Types
           /\ \A u \in Types : Once(msgBox'[u])
           /\ \A u \in Types, x \in Subs :
                Found(msgBox'[u], x) <=> Found(msgBox[u], x) /\ ~(u = typ[s] /\ x = s)
           /\ UNCHANGED <<sendCases, joined>>
<1> DEFINE t == typ[s]
<1>1. t \in Types /\ msgBox \in [Types -> Seq(Subs)] /\ UNCHANGED <<sendCases, joined>>
  BY Zenon DEF RemoveLocked, At, Inv, TypeOK, Scanned, histVars
<1>2. \A u \in Types : Once(msgBox[u])
  BY Zenon DEF Inv, Listed
<1>3. CASE ~Found(msgBox[t], s)
  BY <1>1, <1>2, <1>3, Zenon DEF RemoveLocked
<1>4. CASE Found(msgBox[t], s)
  <2> DEFINE i == Find(msgBox[t], s)
  <2>1. i \in 1..Len(msgBox[t]) /\ msgBox[t][i] = s /\ msgBox[t] \in Seq(Subs)
    BY <1>1, <1>4, FindAt, Zenon
  <2>2. Once(Del(msgBox[t], i)) /\ \A x : Found(Del(msgBox[t], i), x) <=> Found(msgBox[t], x) /\ x # s
    BY <1>1, <1>2, <2>1, DelEntries
  <2>3. msgBox' = [msgBox EXCEPT ![t] = Del(msgBox[t], i)]
    BY <1>4, Zenon DEF RemoveLocked
  <2>4. /\ msgBox'[t] = Del(msgBox[t], i)
        /\ \A u \in Types : u # t => msgBox'[u] = msgBox[u]
    BY <1>1, <2>3, Zenon
  <2> HIDE DEF i, t
  <2>5. /\ \A u \in Types : Once(msgBox'[u])
        /\ \A u \in Types, x \in Subs :
             Found(msgBox'[u], x) <=> Found(msgBox[u], x) /\ ~(u = t /\ x = s)
    BY <1>1, <1>2, <2>2, <2>4, Zenon
  <2> QED BY <1>1, <2>5, Zenon DEF t
<1> QED BY <1>3, <1>4, Zenon

\* The same when a case is taken out of sendCases.
LEMMA CaseOut ==
    ASSUME Inv, NEW s \in Subs, NEW t \in Types, Found(sendCases[t], s),
           sendCases' = [sendCases EXCEPT ![t] = Del(sendCases[t], Find(sendCases[t], s))]
    PROVE  /\ \A u \in Types : Once(sendCases'[u])
           /\ \A u \in Types, x \in Subs :
                Found(sendCases'[u], x) <=> Found(sendCases[u], x) /\ ~(u = t /\ x = s)
<1> DEFINE i == Find(sendCases[t], s)
<1>1. sendCases \in [Types -> Seq(Subs)] /\ \A u \in Types : Once(sendCases[u])
  BY Zenon DEF Inv, TypeOK, Listed
<1>2. i \in 1..Len(sendCases[t]) /\ sendCases[t][i] = s /\ sendCases[t] \in Seq(Subs)
  BY <1>1, FindAt, Zenon
<1>3. /\ Once(Del(sendCases[t], i))
      /\ \A x : Found(Del(sendCases[t], i), x) <=> Found(sendCases[t], x) /\ x # s
  BY <1>1, <1>2, DelEntries, Zenon
<1>4. /\ sendCases'[t] = Del(sendCases[t], i)
      /\ \A u \in Types : u # t => sendCases'[u] = sendCases[u]
  BY <1>1, Zenon
<1> HIDE DEF i
<1> QED BY <1>1, <1>3, <1>4, Zenon

\* A delivery reorders sendCases.
LEMMA DeliverLists ==
    ASSUME Inv, NEW t \in Types, NEW i \in 1..act[t], Deliver(t, i)
    PROVE  /\ \A u \in Types : Once(sendCases'[u])
           /\ \A u \in Types, x \in Subs : Found(sendCases'[u], x) <=> Found(sendCases[u], x)
<1> DEFINE c == Swap(sendCases[t], i, act[t])
<1>1. sendCases \in [Types -> Seq(Subs)] /\ \A u \in Types : Once(sendCases[u])
  BY Zenon DEF Inv, TypeOK, Listed
<1>2. act[t] \in 1..Len(sendCases[t]) /\ sendCases' = [sendCases EXCEPT ![t] = c]
  BY DeliverDoes, Zenon
<1>3. Once(c) /\ \A x : Found(c, x) <=> Found(sendCases[t], x)
  BY <1>1, <1>2, SwapEntries, Zenon
<1>4. sendCases'[t] = c /\ \A u \in Types : u # t => sendCases'[u] = sendCases[u]
  BY <1>1, <1>2, Zenon
<1> HIDE DEF c
<1> QED BY <1>1, <1>3, <1>4, Zenon

\* The start of a send.
LEMMA MergeLists ==
    ASSUME Inv, NEW p \in Posters, SendMerge(p), ~closed[typ[p]]
    PROVE  /\ typ[p] \in Types
           /\ \A u \in Types : Once(sendCases'[u]) /\ Once(msgBox'[u])
           /\ \A u \in Types, x \in Subs :
                /\ Found(sendCases'[u], x) <=>
                        Found(sendCases[u], x) \/ (u = typ[p] /\ Found(msgBox[u], x))
                /\ Found(msgBox'[u], x) <=> Found(msgBox[u], x) /\ u # typ[p]
                /\ x \in joined'[u] <=> x \in joined[u] \/ (u = typ[p] /\ Found(msgBox[u], x))
<1> DEFINE t == typ[p]
           c == sendCases[t] \o msgBox[t]
<1>1. /\ t \in Types /\ msgBox \in [Types -> Seq(Subs)] /\ sendCases \in [Types -> Seq(Subs)]
      /\ joined \in [Types -> SUBSET Subs]
  BY Zenon DEF SendMerge, At, Inv, TypeOK, Token
<1>2. \A u \in Types : Once(msgBox[u]) /\ Once(sendCases[u])
  BY Zenon DEF Inv, Listed
<1>3. \A x \in Subs : ~(Found(sendCases[t], x) /\ Found(msgBox[t], x))
  BY <1>1, Zenon DEF Inv, Listed
<1>4. Once(c) /\ \A x : Found(c, x) <=> Found(sendCases[t], x) \/ Found(msgBox[t], x)
  BY <1>1, <1>2, <1>3, ConcatEntries, Zenon
<1>5. /\ sendCases' = [sendCases EXCEPT ![t] = c]
      /\ msgBox' = [msgBox EXCEPT ![t] = <<>>]
      /\ joined' = [joined EXCEPT ![t] = joined[t] \cup Range(msgBox[t])]
  BY Zenon DEF SendMerge
<1>6. \A x : x \in Range(msgBox[t]) <=> Found(msgBox[t], x)
  BY <1>1, FoundRange, Zenon
<1>7. /\ sendCases'[t] = c /\ \A u \in Types : u # t => sendCases'[u] = sendCases[u]
      /\ msgBox'[t] = <<>> /\ \A u \in Types : u # t => msgBox'[u] = msgBox[u]
      /\ joined'[t] = joined[t] \cup Range(msgBox[t])
      /\ \A u \in Types : u # t => joined'[u] = joined[u]
  BY <1>1, <1>5, Zenon
<1> HIDE DEF c, t
<1>8. /\ \A u \in Types : Once(sendCases'[u]) /\ Once(msgBox'[u])
      /\ \A u \in Types, x \in Subs :
                Found(sendCases'[u], x) <=>
                        Found(sendCases[u], x) \/ (u = t /\ Found(msgBox[u], x))
  BY <1>2, <1>4, <1>7, EmptyList, Zenon
<1>9. \A u \in Types, x \in Subs :
                /\ Found(msgBox'[u], x) <=> Found(msgBox[u], x) /\ u # t
                /\ x \in joined'[u] <=> x \in joined[u] \/ (u = t /\ Found(msgBox[u], x))
  BY <1>6, <1>7, EmptyList, Zenon
<1> QED BY <1>1, <1>8, <1>9, Zenon DEF t

\* feed.close
LEMMA CloseLists ==
    ASSUME Inv, NEW p \in Stoppers, CloseFeed(p)
    PROVE  /\ typ[p] \in Types
           /\ \A u \in Types : Once(sendCases'[u])
           /\ \A u \in Types, x \in Subs :
                Found(sendCases'[u], x) <=> Found(sendCases[u], x) /\ u # typ[p]
           /\ UNCHANGED <<msgBox, joined>>
<1> DEFINE t == typ[p]
<1>1. /\ t \in Types /\ sendCases \in [Types -> Seq(Subs)] /\ \A u \in Types : Once(sendCases[u])
      /\ UNCHANGED <<msgBox, joined>>
  BY Zenon DEF CloseFeed, At, Inv, TypeOK, Token, Listed, histVars
<1>2. sendCases'[t] = <<>> /\ \A u \in Types : u # t => sendCases'[u] = sendCases[u]
  BY <1>1, Zenon DEF CloseFeed
<1> HIDE DEF t
<1>3. /\ \A u \in Types : Once(sendCases'[u])
      /\ \A u \in Types, x \in Subs : Found(sendCases'[u], x) <=> Found(sendCases[u], x) /\ u # t
  BY <1>1, <1>2, EmptyList, ZenonT(40)
<1> QED BY <1>1, <1>3, Zenon DEF t

----------------------------------------------------------------------------
(* Where a subscription stands after a step, and where it was before. *)

\* A sender or a stopper leaves the subscribers alone, but for the one that hands its
\* subscription over.
LEMMA OtherFrame ==
    ASSUME Inv, NEW p \in Posters \cup Stoppers,
           \/ p \in Posters /\ (SendStep(p) \/ \E t \in Types : Post(p, t))
           \/ p \in Stoppers /\ StopStep(p)
    PROVE  /\ \A x \in Subs : /\ typ'[x] = typ[x] /\ todo'[x] = todo[x] /\ pos'[x] = pos[x]
                              /\ chClosed[x] => chClosed'[x]
                              /\ pc'[x] = pc[x] \/ (pc[x] = "removeSelect" /\ pc'[x] = "del")
           /\ \A t \in Types : closed[t] => closed'[t]
           /\ UNCHANGED <<len, subs, nsubs, feeds>>
<1>0. /\ pc \in [Procs -> Labels] /\ p \in Procs /\ Subs \subseteq Procs /\ p \notin Subs
      /\ typ \in [Procs -> Types \cup {None}] /\ todo \in [Procs -> SUBSET Types]
      /\ pos \in [Procs -> Nat] /\ closed \in [Types -> BOOLEAN] /\ chClosed \in [Subs -> BOOLEAN]
  BY EventAssumption, Zenon DEF Inv, TypeOK, Procs
<1> USE <1>0 DEF At, Goto, muxVars, feedVars, subVars, localVars, Panic
<1>1. CASE SendLock(p)
  BY <1>1, Zenon DEF SendLock
<1>2. CASE SendMerge(p)
  <2>1. /\ UNCHANGED <<len, subs, nsubs, feeds, todo, chClosed, closed>>
        /\ pc' = [pc EXCEPT ![p] = "idle"] \/ pc' = [pc EXCEPT ![p] = "try"]
        /\ pos' = pos \/ pos' = [pos EXCEPT ![p] = 1]
        /\ typ' = typ \/ typ' = [typ EXCEPT ![p] = None]
    BY <1>2, Zenon DEF SendMerge
  <2> QED BY <2>1, Zenon
<1>3. CASE TrySend(p)
  <2>1. /\ UNCHANGED <<len, subs, nsubs, feeds, todo, chClosed, closed, typ, pc>>
        /\ pos' = pos \/ pos' = [pos EXCEPT ![p] = @ + 1]
    BY <1>3, Zenon DEF TrySend
  <2> QED BY <2>1, Zenon
<1>4. CASE TryDone(p)
  BY <1>4, Zenon DEF TryDone
<1>5. CASE SendUnlock(p)
  BY <1>5, Zenon DEF SendUnlock
<1>6. ASSUME NEW i, SelectSend(p, i)
      PROVE  /\ UNCHANGED <<len, subs, nsubs, feeds, todo, chClosed, closed, typ, pos>>
             /\ \A x \in Subs : pc'[x] = pc[x]
  BY <1>6, Zenon DEF SelectSend
<1>7. ASSUME NEW s \in Subs, SelectRemove(p, s)
      PROVE  /\ UNCHANGED <<len, subs, nsubs, feeds, todo, chClosed, closed, typ, pos>>
             /\ \A x \in Subs : pc'[x] = pc[x] \/ (pc[x] = "removeSelect" /\ pc'[x] = "del")
  <2>1. /\ UNCHANGED <<len, subs, nsubs, feeds, todo, chClosed, closed, typ, pos>>
        /\ pc[s] = "removeSelect"
        /\ pc' = pc \/ pc' = [pc EXCEPT ![p] = "try", ![s] = "del"]
    BY <1>7, Zenon DEF SelectRemove
  <2> QED BY <2>1, Zenon
<1>8. ASSUME NEW t \in Types, Post(p, t)
      PROVE  /\ UNCHANGED <<len, subs, nsubs, feeds, todo, chClosed, closed, pos>>
             /\ \A x \in Subs : pc'[x] = pc[x] /\ typ'[x] = typ[x]
  BY <1>8, Zenon DEF Post
<1>9. CASE StopLock(p)
  BY <1>9, Zenon DEF StopLock
<1>10. CASE StopEnter(p)
  <2>1. /\ UNCHANGED <<len, subs, nsubs, feeds, chClosed, closed, typ, pos>>
        /\ pc' = [pc EXCEPT ![p] = "gone"] \/ pc' = [pc EXCEPT ![p] = "close"]
        /\ todo' = todo \/ todo' = [todo EXCEPT ![p] = feeds]
    BY <1>10, Zenon DEF StopEnter
  <2> QED BY <2>1, Zenon
<1>11. CASE CloseFeed(p)
  BY <1>11, Zenon DEF CloseFeed
<1>12. CASE StopUnlock(p)
  BY <1>12, Zenon DEF StopUnlock
<1>13. ASSUME NEW t \in Types, CloseLock(p, t)
       PROVE  /\ UNCHANGED <<len, subs, nsubs, feeds, chClosed, closed, pos>>
              /\ \A x \in Subs : pc'[x] = pc[x] /\ typ'[x] = typ[x] /\ todo'[x] = todo[x]
  BY <1>13, ZenonT(40) DEF CloseLock
<1> QED BY <1>1, <1>2, <1>3, <1>4, <1>5, <1>6, <1>7, <1>8, <1>9, <1>10, <1>11, <1>12, <1>13
        DEF SendStep, StopStep

\* A step of the subscriber itself.
LEMMA SubBack ==
    ASSUME Inv, NEW s \in Subs, SubStep(s) \/ Receive(s) \/ DelStep(s), NEW t
    PROVE  /\ Fresh(s, t)' => Fresh(s, t)
           /\ Stays(s, t)' => Stays(s, t) \/ SubscribeAdd(s, t)
           /\ pc'[s] = "removeSelect" => \/ pc[s] = "removeSelect" /\ typ'[s] = typ[s]
                                         \/ RemoveLocked(s)
<1>0. /\ pc \in [Procs -> Labels] /\ s \in Procs
      /\ typ \in [Procs -> Types \cup {None}] /\ todo \in [Procs -> SUBSET Types]
      /\ chClosed \in [Subs -> BOOLEAN]
  BY EventAssumption, Zenon DEF Inv, TypeOK, Procs
<1> USE <1>0 DEF At, Goto, muxVars, feedVars, subVars, localVars, Panic, Fresh, Stays
<1>1. CASE SubscribeLock(s)
  BY <1>1, Zenon DEF SubscribeLock
<1>2. CASE SubscribeEnter(s)
  <2>1. CASE stopped
    BY <1>2, <2>1, Zenon DEF SubscribeEnter
  <2>2. CASE ~stopped
    BY <1>2, <2>2, Zenon DEF SubscribeEnter
  <2> QED BY <2>1, <2>2, Zenon
<1>3. CASE SubscribeUnlock(s)
  BY <1>3, Zenon DEF SubscribeUnlock
<1>4. ASSUME NEW u \in Types, SubscribeAdd(s, u)
      PROVE  /\ Fresh(s, t)' => Fresh(s, t)
             /\ Stays(s, t)' => Stays(s, t) \/ u = t
             /\ pc'[s] = pc[s] /\ typ' = typ
  BY <1>4, Zenon DEF SubscribeAdd
<1>5. CASE Receive(s)
  BY <1>5, Zenon DEF Receive
<1>6. CASE DelRLock(s)
  BY <1>6, Zenon DEF DelRLock
<1>7. CASE FindStep(s)
  <2>1. /\ UNCHANGED <<typ, todo, chClosed>> /\ pc[s] = "find"
        /\ pc' = pc \/ pc' = [pc EXCEPT ![s] = "del"] \/ pc' = [pc EXCEPT ![s] = "remove"]
    BY <1>7, Zenon DEF FindStep
  <2> QED BY <2>1, Zenon
<1>8. CASE RemoveLocked(s)
  <2>1. /\ UNCHANGED <<typ, todo, chClosed>> /\ pc[s] = "remove"
        /\ pc' = [pc EXCEPT ![s] = "del"] \/ pc' = [pc EXCEPT ![s] = "removeSelect"]
    BY <1>8, Zenon DEF RemoveLocked
  <2> QED BY <2>1, <1>8, Zenon
<1>9. CASE RemoveUnderSendLock(s)
  <2>1. /\ UNCHANGED <<typ, todo, chClosed>> /\ pc[s] = "removeSelect"
        /\ pc' = [pc EXCEPT ![s] = "del"] \/ pc' = pc
    BY <1>9, Zenon DEF RemoveUnderSendLock
  <2> QED BY <2>1, Zenon
<1>10. CASE RemoveAfterClose(s)
  BY <1>10, Zenon DEF RemoveAfterClose
<1>11. CASE DelRUnlock(s)
  BY <1>11, Zenon DEF DelRUnlock
<1>12. ASSUME NEW u \in Types, FindStart(s, u)
       PROVE  /\ Fresh(s, t)' => Fresh(s, t)
              /\ Stays(s, t)' => Stays(s, t)
              /\ pc'[s] # "removeSelect"
  BY <1>12, Zenon DEF FindStart
<1> QED BY <1>1, <1>2, <1>3, <1>4, <1>5, <1>6, <1>7, <1>8, <1>9, <1>10, <1>11, <1>12, ZenonT(40)
           DEF SubStep, DelStep

\* Any step.
LEMMA StepBack ==
    ASSUME Inv, Next, NEW x \in Subs, NEW t
    PROVE  /\ Fresh(x, t)' => Fresh(x, t)
           /\ Stays(x, t)' => Stays(x, t) \/ SubscribeAdd(x, t)
           /\ pc'[x] = "removeSelect" => \/ pc[x] = "removeSelect" /\ typ'[x] = typ[x]
                                         \/ RemoveLocked(x)
           /\ t \in Types /\ closed[t] => closed'[t]
<1>0. x \in Procs
  BY Zenon DEF Procs
<1>1. ASSUME NEW s \in Subs, SubStep(s) \/ Receive(s) \/ DelStep(s), s # x
      PROVE  /\ Fresh(x, t)' => Fresh(x, t)
             /\ Stays(x, t)' => Stays(x, t)
             /\ pc'[x] = pc[x] /\ typ'[x] = typ[x]
  <2>1. /\ pc'[x] = pc[x] /\ typ'[x] = typ[x] /\ todo'[x] = todo[x] /\ chClosed'[x] = chClosed[x]
    BY <1>0, <1>1, SubFrame, Zenon
  <2> QED BY <2>1, Zenon DEF Fresh, Stays
<1>2. ASSUME NEW s \in Subs, SubStep(s) \/ Receive(s) \/ DelStep(s)
      PROVE  t \in Types /\ closed[t] => closed'[t]
  BY <1>2, SubFrame, Zenon
<1>3. ASSUME NEW p \in Posters \cup Stoppers,
             \/ p \in Posters /\ (SendStep(p) \/ \E u \in Types : Post(p, u))
             \/ p \in Stoppers /\ StopStep(p)
      PROVE  /\ Fresh(x, t)' => Fresh(x, t)
             /\ Stays(x, t)' => Stays(x, t)
             /\ pc'[x] = "removeSelect" => pc[x] = "removeSelect" /\ typ'[x] = typ[x]
             /\ t \in Types /\ closed[t] => closed'[t]
  <2>1. /\ typ'[x] = typ[x] /\ todo'[x] = todo[x]
        /\ chClosed[x] => chClosed'[x]
        /\ pc'[x] = pc[x] \/ (pc[x] = "removeSelect" /\ pc'[x] = "del")
        /\ t \in Types /\ closed[t] => closed'[t]
    BY <1>3, OtherFrame, Zenon
  <2> QED BY <2>1, Zenon DEF Fresh, Stays
<1>4. ASSUME UNCHANGED vars
      PROVE  /\ Fresh(x, t)' => Fresh(x, t)
             /\ Stays(x, t)' => Stays(x, t)
             /\ pc' = pc /\ typ' = typ /\ closed' = closed
  BY <1>4, ZenonT(40) DEF vars, feedVars, localVars, subVars, Fresh, Stays
<1> QED BY <1>1, <1>2, <1>3, <1>4, SubBack, Zenon DEF Next, Finished

----------------------------------------------------------------------------
(* The lists of the feeds. *)

\* s is taken out of the sendCases of t, and is through with that feed.
TakenOut(s, t) ==
    /\ Found(sendCases[t], s)
    /\ sendCases' = [sendCases EXCEPT ![t] = Del(sendCases[t], Find(sendCases[t], s))]
    /\ pc'[s] = "del" /\ t \notin todo'[s]
    /\ UNCHANGED <<msgBox, joined>>

\* The steps that change the lists.
LEMMA ListSteps ==
    ASSUME Inv, Next
    PROVE  \/ UNCHANGED <<msgBox, sendCases, joined>>
           \/ \E s \in Subs, t \in Types : SubscribeAdd(s, t)
           \/ \E s \in Subs : RemoveLocked(s)
           \/ \E s \in Subs, t \in Types : TakenOut(s, t)
           \/ \E t \in Types : \E i \in 1..act[t] : Deliver(t, i) /\ UNCHANGED <<msgBox, joined>>
           \/ \E p \in Posters : SendMerge(p) /\ ~closed[typ[p]]
           \/ \E p \in Stoppers : CloseFeed(p)
<1> USE DEF feedVars, histVars, Panic
<1>0. pc \in [Procs -> Labels] /\ Subs \subseteq Procs /\ Posters \subseteq Procs
  BY Zenon DEF Inv, TypeOK, Procs
<1>1. ASSUME NEW s \in Subs, RemoveUnderSendLock(s)
      PROVE  UNCHANGED <<msgBox, sendCases, joined>> \/ \E t \in Types : TakenOut(s, t)
  <2>1. CASE ~Found(sendCases[typ[s]], s)
    BY <1>1, <2>1, Zenon DEF RemoveUnderSendLock
  <2>2. CASE Found(sendCases[typ[s]], s)
    <3>1. typ[s] \in Types \ todo[s]
      BY <1>1, Zenon DEF RemoveUnderSendLock, At, Inv, Scanned
    <3>2. TakenOut(s, typ[s])
      BY <1>0, <1>1, <2>2, <3>1, Zenon DEF RemoveUnderSendLock, Goto, TakenOut, localVars
    <3> QED BY <3>1, <3>2, Zenon
  <2> QED BY <2>1, <2>2, Zenon
<1>2. ASSUME NEW p \in Posters, NEW s \in Subs, SelectRemove(p, s)
      PROVE  UNCHANGED <<msgBox, sendCases, joined>> \/ \E t \in Types : TakenOut(s, t)
  <2>1. CASE ~Found(sendCases[typ[p]], s)
    BY <1>2, <2>1, Zenon DEF SelectRemove
  <2>2. CASE Found(sendCases[typ[p]], s)
    <3>1. /\ typ[p] \in Types /\ typ[s] = typ[p] /\ pc[s] = "removeSelect" /\ p # s
          /\ sendCases' = [sendCases EXCEPT ![typ[p]] = Del(sendCases[typ[p]], Find(sendCases[typ[p]], s))]
          /\ pc' = [pc EXCEPT ![p] = "try", ![s] = "del"]
          /\ UNCHANGED <<msgBox, todo, joined>>
      BY <1>2, <2>2, HandOver DEF localVars
    <3>2. typ[s] \notin todo[s]
      BY <3>1, Zenon DEF Inv, Scanned
    <3>3. TakenOut(s, typ[p])
      BY <1>0, <2>2, <3>1, <3>2, Zenon DEF TakenOut
    <3> QED BY <3>1, <3>3, Zenon
  <2> QED BY <2>1, <2>2, Zenon
<1>3. ASSUME NEW p \in Posters, TrySend(p)
      PROVE  \/ UNCHANGED <<msgBox, sendCases, joined>>
             \/ \E t \in Types : \E i \in 1..act[t] : Deliver(t, i) /\ UNCHANGED <<msgBox, joined>>
  <2>1. typ[p] \in Types /\ pos[p] \in 1..act[typ[p]]
    BY <1>3, CaseIndex, Zenon
  <2> QED BY <1>3, <2>1, Zenon DEF TrySend
<1>4. ASSUME NEW p \in Posters, NEW i \in 1..Cardinality(Subs), SelectSend(p, i)
      PROVE  \/ UNCHANGED <<msgBox, sendCases, joined>>
             \/ \E t \in Types : \E j \in 1..act[t] : Deliver(t, j) /\ UNCHANGED <<msgBox, joined>>
  <2>1. typ[p] \in Types /\ i \in 1..act[typ[p]]
    BY <1>4, CaseIndex, Zenon
  <2> QED BY <1>4, <2>1, Zenon DEF SelectSend
<1>5. ASSUME NEW p \in Posters, SendStep(p) \/ \E t \in Types : Post(p, t)
      PROVE  \/ UNCHANGED <<msgBox, sendCases, joined>>
             \/ SendMerge(p) /\ ~closed[typ[p]]
             \/ TrySend(p)
             \/ \E i \in 1..Cardinality(Subs) : SelectSend(p, i)
             \/ \E s \in Subs : SelectRemove(p, s)
  BY <1>5, Zenon DEF SendStep, SendLock, SendMerge, TryDone, SendUnlock, Post
<1>6. ASSUME NEW p \in Stoppers, StopStep(p)
      PROVE  UNCHANGED <<msgBox, sendCases, joined>> \/ CloseFeed(p)
  BY <1>6, Zenon DEF StopStep, StopLock, StopEnter, StopUnlock, CloseLock
<1>7. ASSUME NEW s \in Subs, SubStep(s) \/ Receive(s) \/ DelStep(s)
      PROVE  \/ UNCHANGED <<msgBox, sendCases, joined>>
             \/ \E t \in Types : SubscribeAdd(s, t)
             \/ RemoveLocked(s) \/ RemoveUnderSendLock(s)
  BY <1>7, Zenon DEF SubStep, DelStep, SubscribeLock, SubscribeEnter, SubscribeUnlock, Receive,
              DelRLock, FindStart, FindStep, RemoveAfterClose, DelRUnlock
<1>8. ASSUME UNCHANGED vars PROVE UNCHANGED <<msgBox, sendCases, joined>>
  BY <1>8, Zenon DEF vars
<1> QED BY <1>1, <1>2, <1>3, <1>4, <1>5, <1>6, <1>7, <1>8, ZenonT(40) DEF Next, Finished

\* A subscription enters each list once.
LEMMA ListedNext ==
    ASSUME Inv, Next
    PROVE  Listed'
<1>0. Listed /\ \A s \in Subs, t \in Types : Fresh(s, t)' => Fresh(s, t)
  BY StepBack, Zenon DEF Inv
<1>1. ASSUME \A t \in Types : Once(msgBox'[t]) /\ Once(sendCases'[t]),
             \A t \in Types, s \in Subs : /\ Found(msgBox'[t], s) => Found(msgBox[t], s)
                                          /\ Found(sendCases'[t], s) => Found(sendCases[t], s),
             UNCHANGED joined
      PROVE  Listed'
  BY <1>0, <1>1, Zenon DEF Listed
<1>2. CASE UNCHANGED <<msgBox, sendCases, joined>>
  BY <1>0, <1>1, <1>2, Zenon DEF Listed
<1>3. ASSUME NEW s \in Subs, NEW t \in Types, SubscribeAdd(s, t) PROVE Listed'
  <2>1. /\ \A u \in Types : Once(msgBox'[u])
        /\ \A u \in Types, x \in Subs :
             Found(msgBox'[u], x) <=> Found(msgBox[u], x) \/ (u = t /\ x = s)
        /\ UNCHANGED <<sendCases, joined>>
    BY <1>3, AddLists, Zenon
  <2>2. Fresh(s, t) /\ ~Fresh(s, t)'
    BY <1>3, Zenon DEF SubscribeAdd, At, Fresh, Inv, TypeOK, Procs
  <2> QED BY <1>0, <2>1, <2>2, Zenon DEF Listed
<1>4. ASSUME NEW s \in Subs, RemoveLocked(s) PROVE Listed'
  BY <1>0, <1>1, <1>4, BoxLists, Zenon DEF Listed
<1>5. ASSUME NEW s \in Subs, NEW t \in Types, TakenOut(s, t) PROVE Listed'
  BY <1>0, <1>1, <1>5, CaseOut, Zenon DEF Listed, TakenOut
<1>6. ASSUME NEW t \in Types, NEW i \in 1..act[t], Deliver(t, i), UNCHANGED <<msgBox, joined>>
      PROVE  Listed'
  BY <1>0, <1>1, <1>6, DeliverLists, Zenon DEF Listed
<1>7. ASSUME NEW p \in Posters, SendMerge(p), ~closed[typ[p]] PROVE Listed'
  BY <1>0, <1>7, MergeLists, Zenon DEF Listed
<1>8. ASSUME NEW p \in Stoppers, CloseFeed(p) PROVE Listed'
  BY <1>0, <1>1, <1>8, CloseLists, Zenon DEF Listed
<1> QED BY <1>2, <1>3, <1>4, <1>5, <1>6, <1>7, <1>8, ListSteps, Zenon

\* A subscription is lost from the lists by its own remove only.
LEMMA PresentNext ==
    ASSUME Inv, Next
    PROVE  Present'
<1>0. /\ Present
      /\ \A s \in Subs, t \in Types :
            /\ Stays(s, t)' => Stays(s, t) \/ SubscribeAdd(s, t)
            /\ closed[t] => closed'[t]
  BY StepBack, Zenon DEF Inv
<1>1. ASSUME NEW s \in Subs, NEW t \in Types, ~closed'[t], Stays(s, t)'
      PROVE  Found(msgBox'[t], s) \/ Found(sendCases'[t], s)
  <2>1. CASE SubscribeAdd(s, t)
    BY <2>1, AddLists, Zenon
  <2>2. CASE Stays(s, t)
    <3>1. Found(msgBox[t], s) \/ Found(sendCases[t], s)
      BY <1>0, <1>1, <2>2, Zenon DEF Present
    <3>2. CASE UNCHANGED <<msgBox, sendCases, joined>>
      BY <3>1, <3>2, Zenon
    <3>3. ASSUME NEW x \in Subs, NEW u \in Types, SubscribeAdd(x, u)
          PROVE  Found(msgBox'[t], s) \/ Found(sendCases'[t], s)
      BY <3>1, <3>3, AddLists, Zenon
    <3>4. ASSUME NEW x \in Subs, RemoveLocked(x)
          PROVE  Found(msgBox'[t], s) \/ Found(sendCases'[t], s)
      <4>1. CASE x = s /\ t = typ[x] /\ Found(msgBox[t], s)
        <5>1. pc'[s] = "del" /\ todo'[s] = todo[s] /\ t \notin todo[s]
          BY <3>4, <4>1, Zenon
             DEF RemoveLocked, At, Goto, Inv, Scanned, TypeOK, Procs, localVars
        <5> QED BY <1>1, <5>1, Zenon DEF Stays
      <4>2. CASE ~(x = s /\ t = typ[x] /\ Found(msgBox[t], s))
        BY <3>1, <3>4, <4>2, BoxLists, Zenon
      <4> QED BY <4>1, <4>2, Zenon
    <3>5. ASSUME NEW x \in Subs, NEW u \in Types, TakenOut(x, u)
          PROVE  Found(msgBox'[t], s) \/ Found(sendCases'[t], s)
      <4>1. CASE x = s /\ u = t
        BY <1>1, <3>5, <4>1, Zenon DEF TakenOut, Stays
      <4>2. CASE ~(x = s /\ u = t)
        BY <3>1, <3>5, <4>2, CaseOut, Zenon DEF TakenOut
      <4> QED BY <4>1, <4>2, Zenon
    <3>6. ASSUME NEW u \in Types, NEW i \in 1..act[u], Deliver(u, i), UNCHANGED <<msgBox, joined>>
          PROVE  Found(msgBox'[t], s) \/ Found(sendCases'[t], s)
      BY <3>1, <3>6, DeliverLists, Zenon
    <3>7. ASSUME NEW p \in Posters, SendMerge(p), ~closed[typ[p]]
          PROVE  Found(msgBox'[t], s) \/ Found(sendCases'[t], s)
      BY <3>1, <3>7, MergeLists, Zenon
    <3>8. ASSUME NEW p \in Stoppers, CloseFeed(p)
          PROVE  Found(msgBox'[t], s) \/ Found(sendCases'[t], s)
      <4>1. closed'[typ[p]] /\ typ[p] \in Types
        BY <3>8, CloseLists, Zenon DEF CloseFeed, Inv, TypeOK
      <4> QED BY <1>1, <3>1, <3>8, <4>1, CloseLists, Zenon
    <3> QED BY <3>2, <3>3, <3>4, <3>5, <3>6, <3>7, <3>8, ListSteps, Zenon
  <2> QED BY <1>0, <1>1, <2>1, <2>2, Zenon
<1>2. ASSUME NEW s \in Subs, pc'[s] = "removeSelect"
      PROVE  ~Found(msgBox'[typ'[s]], s)
  <2>1. CASE RemoveLocked(s)
    <3>1. typ' = typ
      BY <2>1, Zenon DEF RemoveLocked, localVars
    <3> QED BY <2>1, <3>1, BoxLists, Zenon
  <2>2. CASE pc[s] = "removeSelect" /\ typ'[s] = typ[s]
    <3>0. typ[s] \in Types /\ ~Found(msgBox[typ[s]], s)
      BY <2>2, Zenon DEF Inv, Scanned, Present
    <3>2. CASE UNCHANGED <<msgBox, sendCases, joined>>
      BY <2>2, <3>0, <3>2, ZenonT(40)
    <3>3. ASSUME NEW x \in Subs, NEW u \in Types, SubscribeAdd(x, u)
          PROVE  ~Found(msgBox'[typ'[s]], s)
      <4>1. x # s
        BY <3>3, <2>2, Zenon DEF SubscribeAdd, At
      <4> QED BY <2>2, <3>0, <3>3, <4>1, AddLists
    <3>4. ASSUME NEW x \in Subs, RemoveLocked(x)
          PROVE  ~Found(msgBox'[typ'[s]], s)
      BY <2>2, <3>0, <3>4, BoxLists, Zenon
    <3>5. CASE UNCHANGED msgBox
      BY <2>2, <3>0, <3>5, Zenon
    <3>7. ASSUME NEW p \in Posters, SendMerge(p), ~closed[typ[p]]
          PROVE  ~Found(msgBox'[typ'[s]], s)
      BY <2>2, <3>0, <3>7, MergeLists, Zenon
    <3>8. ASSUME NEW p \in Stoppers, CloseFeed(p)
          PROVE  UNCHANGED msgBox
      BY <3>8, CloseLists, Zenon
    <3> QED BY <3>2, <3>3, <3>4, <3>5, <3>7, <3>8, ListSteps, Zenon DEF TakenOut
  <2> QED BY <1>2, <2>1, <2>2, StepBack, Zenon
<1> QED BY <1>1, <1>2, Zenon DEF Present

----------------------------------------------------------------------------
(* The array that find scans. *)

\* What Scanned says of the subscriber x.
ScannedBy(x) ==
    /\ pc[x] = "add" => todo[x] \subseteq Wants[x]
    /\ pc[x] \in {"find", "remove", "removeSelect"} => typ[x] \in Types \ todo[x]
    /\ pc[x] = "find" => pos[x] > 0 /\ len[x] <= Len(subs[typ[x]])
    /\ pc[x] \in {"remove", "removeSelect"} => typ[x] \in Wants[x]

\* And of the array of the feed of type t.
ScannedArray(t) ==
    /\ nsubs[t] <= Len(subs[t])
    /\ \A i \in 1..Len(subs[t]) : t \in Wants[subs[t][i]]

\* Scanned, array by array and subscriber by subscriber.
LEMMA ScannedParts ==
    Scanned <=> (\A t \in Types : ScannedArray(t)) /\ (\A x \in Subs : ScannedBy(x))
BY Zenon DEF Scanned, ScannedArray, ScannedBy

\* The arrays change in feed.add, which no Unsubscribe runs beside, and in feed.del,
\* which keeps their length.
LEMMA ArrayNext ==
    ASSUME Inv, NEW s \in Subs, SubStep(s) \/ Receive(s) \/ DelStep(s)
    PROVE  /\ \A t \in Types : ScannedArray(t)'
           /\ \/ \A t \in Types : Len(subs'[t]) = Len(subs[t])
              \/ readers = {} /\ UNCHANGED pc
<1>0. /\ subs \in [Types -> Seq(Subs)] /\ nsubs \in [Types -> Nat] /\ s \in Procs
      /\ \A t \in Types : ScannedArray(t)
  BY ScannedParts, Zenon DEF Inv, TypeOK, Procs
<1>1. CASE UNCHANGED <<subs, nsubs>>
  BY <1>0, <1>1, Zenon DEF ScannedArray
<1>2. ASSUME NEW t \in Types, SubscribeAdd(s, t)
      PROVE  /\ \A u \in Types : ScannedArray(u)'
             /\ readers = {} /\ UNCHANGED pc
  <2> DEFINE a == Append(SubSeq(subs[t], 1, nsubs[t]), s)
  <2>1. pc[s] = "add" /\ t \in todo[s] /\ UNCHANGED pc
    BY <1>2, Zenon DEF SubscribeAdd, At
  <2>2. readers = {} /\ t \in Wants[s]
    BY <1>0, <2>1, Zenon DEF Inv, Locked, Scanned
  <2>3. nsubs[t] \in 0..Len(subs[t]) /\ subs[t] \in Seq(Subs) /\ nsubs[t] \in Nat
    BY <1>0 DEF ScannedArray
  <2>4. /\ Len(a) = nsubs[t] + 1
        /\ \A j \in 1..(nsubs[t] + 1) : a[j] = s \/ \E k \in 1..Len(subs[t]) : a[j] = subs[t][k]
    BY <2>3, ArrayEntries
  <2>5. subs' = [subs EXCEPT ![t] = a] /\ nsubs' = [nsubs EXCEPT ![t] = nsubs[t] + 1]
    BY <1>2, Zenon DEF SubscribeAdd
  <2>6. /\ subs'[t] = a /\ nsubs'[t] = nsubs[t] + 1
        /\ \A u \in Types : u # t => subs'[u] = subs[u] /\ nsubs'[u] = nsubs[u]
    BY <1>0, <2>5, Zenon
  <2> HIDE DEF a
  <2>7. ScannedArray(t)'
    BY <1>0, <2>2, <2>3, <2>4, <2>6 DEF ScannedArray
  <2> QED BY <1>0, <2>1, <2>2, <2>6, <2>7, Zenon DEF ScannedArray
<1>3. CASE RemoveLocked(s)
  <2> DEFINE t == typ[s]
             n == nsubs[t]
             live == SubSeq(subs[t], 1, n)
             a == Shift(subs[t], Find(live, s), n)
  <2>1. CASE ~Found(live, s)
    BY <1>1, <1>3, <2>1, Zenon DEF RemoveLocked
  <2>2. CASE Found(live, s)
    <3>1. t \in Types
      BY <1>3, Zenon DEF RemoveLocked, At, Inv, Scanned
    <3>2. n \in 0..Len(subs[t]) /\ subs[t] \in Seq(Subs) /\ n \in Nat
      BY <1>0, <3>1 DEF ScannedArray
    <3>3. Find(live, s) \in 1..n
      BY <2>2, <3>2, LiveEntries, Zenon
    <3>4. /\ Len(a) = Len(subs[t])
          /\ \A j \in 1..Len(subs[t]) : \E k \in 1..Len(subs[t]) : a[j] = subs[t][k]
      <4>1. Find(live, s) \in Nat /\ Find(live, s) > 0
        BY <3>2, <3>3
      <4> QED BY <3>2, <4>1, ShiftEntries
    <3>5. subs' = [subs EXCEPT ![t] = a] /\ nsubs' = [nsubs EXCEPT ![t] = n - 1]
      BY <1>3, <2>2, Zenon DEF RemoveLocked
    <3>6. /\ subs'[t] = a /\ nsubs'[t] = n - 1
          /\ \A u \in Types : u # t => subs'[u] = subs[u] /\ nsubs'[u] = nsubs[u]
      BY <1>0, <3>1, <3>5, Zenon
    <3>7. n - 1 <= Len(subs[t])
      BY <3>2
    <3> HIDE DEF a, t, n
    <3>8. nsubs'[t] <= Len(subs'[t]) /\ \A i \in 1..Len(subs'[t]) : t \in Wants[subs'[t][i]]
      BY <1>0, <3>1, <3>4, <3>6, <3>7, Zenon DEF ScannedArray
    <3>9. \A u \in Types : Len(subs'[u]) = Len(subs[u])
      BY <3>4, <3>6, Zenon
    <3>10. ASSUME NEW u \in Types PROVE ScannedArray(u)'
      BY <1>0, <3>6, <3>8, Zenon DEF ScannedArray
    <3> QED BY <3>9, <3>10, Zenon
  <2> QED BY <2>1, <2>2, Zenon
<1>4. \/ UNCHANGED <<subs, nsubs>>
      \/ \E t \in Types : SubscribeAdd(s, t)
      \/ RemoveLocked(s)
  BY Zenon DEF SubStep, DelStep, SubscribeLock, SubscribeEnter, SubscribeUnlock, Receive,
         DelRLock, FindStart, FindStep, RemoveUnderSendLock, RemoveAfterClose, DelRUnlock,
         Panic, feedVars
<1> QED BY <1>1, <1>2, <1>3, <1>4, Zenon

\* A step of a subscriber: its own scan, and the scans beside it.
LEMMA ScannedSub ==
    ASSUME Inv, NEW s \in Subs, SubStep(s) \/ Receive(s) \/ DelStep(s)
    PROVE  Scanned'
<1>0. /\ pc \in [Procs -> Labels] /\ s \in Procs
      /\ typ \in [Procs -> Types \cup {None}] /\ todo \in [Procs -> SUBSET Types]
      /\ pos \in [Procs -> Nat] /\ len \in [Subs -> Nat]
      /\ subs \in [Types -> Seq(Subs)] /\ nsubs \in [Types -> Nat]
      /\ \A x \in Subs : ScannedBy(x)
      /\ \A t \in Types : ScannedArray(t)
  BY ScannedParts, Zenon DEF Inv, TypeOK, Procs
<1>1. ASSUME NEW x \in Subs, x # s PROVE ScannedBy(x)'
  <2>1. /\ pc'[x] = pc[x] /\ typ'[x] = typ[x] /\ todo'[x] = todo[x] /\ pos'[x] = pos[x]
        /\ len'[x] = len[x]
    BY <1>1, SubFrame, Zenon DEF Procs
  <2>2. pc[x] = "find" => typ[x] \in Types /\ x \in readers
    BY Zenon DEF Inv, Scanned, Locked
  <2>3. pc[x] = "find" => Len(subs'[typ[x]]) = Len(subs[typ[x]])
    BY <2>2, ArrayNext, Zenon
  <2> QED BY <1>0, <2>1, <2>3, Zenon DEF ScannedBy
<1>2. ScannedBy(s)'
  <2> USE <1>0 DEF At, Goto, feedVars, localVars, Panic
  <2>1. CASE SubscribeLock(s)
    BY <2>1, Zenon DEF SubscribeLock, ScannedBy
  <2>2. CASE SubscribeEnter(s)
    <3>1. CASE stopped
      BY <2>2, <3>1, Zenon DEF SubscribeEnter, ScannedBy
    <3>2. CASE ~stopped
      BY <2>2, <3>2, Zenon DEF SubscribeEnter, ScannedBy
    <3> QED BY <3>1, <3>2, Zenon
  <2>3. CASE SubscribeUnlock(s)
    BY <2>3, Zenon DEF SubscribeUnlock, ScannedBy
  <2>4. ASSUME NEW t \in Types, SubscribeAdd(s, t) PROVE ScannedBy(s)'
    BY <2>4, Zenon DEF SubscribeAdd, ScannedBy
  <2>5. CASE Receive(s)
    BY <2>5, Zenon DEF Receive, ScannedBy
  <2>6. CASE DelRLock(s)
    BY <2>6, Zenon DEF DelRLock, ScannedBy
  <2>7. CASE FindStep(s)
    <3>1. UNCHANGED <<typ, todo, len, subs>> /\ pc[s] = "find" /\ pos[s] \in Nat
      BY <2>7, Zenon DEF FindStep
    <3>2. CASE pc' = [pc EXCEPT ![s] = "del"]
      BY <3>1, <3>2, ZenonT(40) DEF ScannedBy
    <3>3. CASE pc' = pc /\ pos' = [pos EXCEPT ![s] = pos[s] + 1]
      BY <3>1, <3>3 DEF ScannedBy
    <3>4. CASE /\ pc' = [pc EXCEPT ![s] = "remove"]
               /\ pos[s] <= len[s] /\ subs[typ[s]][pos[s]] = s
      <4>1. /\ typ[s] \in Types \ todo[s] /\ pos[s] > 0 /\ len[s] <= Len(subs[typ[s]])
            /\ len[s] \in Nat /\ Len(subs[typ[s]]) \in Nat
        BY <3>1, SeqEntries, Zenon DEF ScannedBy
      <4>2. pos[s] \in 1..Len(subs[typ[s]])
        BY <3>1, <3>4, <4>1
      <4>3. typ[s] \in Wants[s]
        BY <3>4, <4>1, <4>2, Zenon DEF ScannedArray
      <4> QED BY <3>1, <3>4, <4>1, <4>3, Zenon DEF ScannedBy
    <3> QED BY <2>7, <3>2, <3>3, <3>4, Zenon DEF FindStep
  <2>8. CASE RemoveLocked(s)
    <3>1. /\ UNCHANGED <<typ, todo>> /\ pc[s] = "remove"
          /\ pc' = [pc EXCEPT ![s] = "del"] \/ pc' = [pc EXCEPT ![s] = "removeSelect"]
      BY <2>8, Zenon DEF RemoveLocked
    <3> QED BY <3>1, Zenon DEF ScannedBy
  <2>9. CASE RemoveUnderSendLock(s)
    <3>1. /\ UNCHANGED <<typ, todo>> /\ pc[s] = "removeSelect"
          /\ pc' = [pc EXCEPT ![s] = "del"] \/ pc' = pc
      BY <2>9, Zenon DEF RemoveUnderSendLock
    <3> QED BY <3>1, Zenon DEF ScannedBy
  <2>10. CASE RemoveAfterClose(s)
    BY <2>10, Zenon DEF RemoveAfterClose, ScannedBy
  <2>11. CASE DelRUnlock(s)
    BY <2>11, Zenon DEF DelRUnlock, ScannedBy
  <2>12. ASSUME NEW t \in Types, FindStart(s, t) PROVE ScannedBy(s)'
    <3>1. /\ typ'[s] = t /\ todo'[s] = todo[s] \ {t} /\ pos'[s] = 1 /\ len'[s] = nsubs[t]
          /\ pc'[s] = "find" /\ UNCHANGED subs
      BY <2>12, Zenon DEF FindStart
    <3> QED BY <3>1 DEF ScannedBy, ScannedArray
  <2> QED BY <2>1, <2>2, <2>3, <2>4, <2>5, <2>6, <2>7, <2>8, <2>9, <2>10, <2>11, <2>12
             DEF SubStep, DelStep
<1>3. \A t \in Types : ScannedArray(t)'
  BY ArrayNext, Zenon
<1>4. \A x \in Subs : ScannedBy(x)'
  BY <1>1, <1>2, Zenon
<1> QED BY <1>3, <1>4, Zenon DEF Scanned, ScannedArray, ScannedBy

\* Senders and stoppers do not touch the arrays.
LEMMA ScannedOther ==
    ASSUME Inv, NEW p \in Posters \cup Stoppers,
           \/ p \in Posters /\ (SendStep(p) \/ \E t \in Types : Post(p, t))
           \/ p \in Stoppers /\ StopStep(p)
    PROVE  Scanned'
<1>1. /\ \A x \in Subs : /\ typ'[x] = typ[x] /\ todo'[x] = todo[x] /\ pos'[x] = pos[x]
                         /\ pc'[x] = pc[x] \/ (pc[x] = "removeSelect" /\ pc'[x] = "del")
      /\ UNCHANGED <<len, subs, nsubs>>
  BY OtherFrame, Zenon
<1> QED BY <1>1, ZenonT(40) DEF Inv, Scanned

----------------------------------------------------------------------------
(* Nothing is closed before Stop is called. *)

\* Whoever panics does so on a closed channel or because a feed is closed: a del(-1)
\* would need a subscription that is in none of the lists.
LEMMA PanicOnlyClosed ==
    ASSUME Inv, Next, ~panicked, panicked'
    PROVE  (\E s \in Subs : chClosed[s]) \/ (\E t \in Types : closed[t])
<1> USE DEF muxVars, feedVars, subVars, localVars, histVars
<1>1. ASSUME NEW s \in Subs, pc[s] = "removeSelect", ~Found(sendCases[typ[s]], s), ~closed[typ[s]]
      PROVE  chClosed[s]
  <2>1. typ[s] \in Types /\ typ[s] \in Wants[s] /\ ~Found(msgBox[typ[s]], s)
    BY <1>1, Zenon DEF Inv, Scanned, Present
  <2>2. ~Stays(s, typ[s])
    BY <1>1, <2>1, Zenon DEF Inv, Present
  <2> QED BY <1>1, <2>1, <2>2, Zenon DEF Stays, Inv, TypeOK
<1>2. ASSUME NEW s \in Subs, RemoveUnderSendLock(s)
      PROVE  (\E x \in Subs : chClosed[x]) \/ (\E t \in Types : closed[t])
  <2>1. pc[s] = "removeSelect" /\ ~Found(sendCases[typ[s]], s)
    BY <1>2, Zenon DEF RemoveUnderSendLock, At
  <2>2. typ[s] \in Types
    BY <2>1, Zenon DEF Inv, Scanned
  <2> QED BY <1>1, <2>1, <2>2, Zenon
<1>3. ASSUME NEW s \in Subs, RemoveAfterClose(s) PROVE \E t \in Types : closed[t]
  <2>1. pc[s] = "removeSelect" /\ sendLock[typ[s]] = Closed
    BY <1>3, Zenon DEF RemoveAfterClose, At
  <2> QED BY <2>1, Zenon DEF Inv, Scanned, Token
<1>4. ASSUME NEW p \in Posters, NEW s \in Subs, SelectRemove(p, s)
      PROVE  (\E x \in Subs : chClosed[x]) \/ (\E t \in Types : closed[t])
  <2>1. pc[s] = "removeSelect" /\ typ[s] = typ[p] /\ ~Found(sendCases[typ[p]], s)
    BY <1>4, Zenon DEF SelectRemove, At
  <2>2. typ[s] \in Types
    BY <2>1, Zenon DEF Inv, Scanned
  <2> QED BY <1>1, <2>1, <2>2, Zenon
<1>5. ASSUME NEW t \in Types, NEW i \in 1..act[t] PROVE sendCases[t][i] \in Subs
  <2>1. /\ sendCases[t] \in Seq(Subs) /\ act[t] \in Nat /\ act[t] <= Len(sendCases[t])
        /\ Len(sendCases[t]) \in Nat
    BY SeqEntries, Zenon DEF Inv, TypeOK, Sending
  <2>2. i \in 1..Len(sendCases[t])
    BY <2>1
  <2> QED BY <2>1, <2>2, SeqEntries, Zenon
<1>6. ASSUME NEW p \in Posters, TrySend(p) PROVE \E s \in Subs : chClosed[s]
  <2>1. typ[p] \in Types /\ pos[p] \in 1..act[typ[p]]
    BY <1>6, CaseIndex, Zenon
  <2>2. chClosed[sendCases[typ[p]][pos[p]]]
    BY <1>6, Zenon DEF TrySend
  <2> QED BY <1>5, <2>1, <2>2, Zenon
<1>7. ASSUME NEW p \in Posters, NEW i \in 1..Cardinality(Subs), SelectSend(p, i)
      PROVE  \E s \in Subs : chClosed[s]
  <2>1. typ[p] \in Types /\ i \in 1..act[typ[p]]
    BY <1>7, CaseIndex, Zenon
  <2>2. chClosed[sendCases[typ[p]][i]]
    BY <1>7, Zenon DEF SelectSend
  <2> QED BY <1>5, <2>1, <2>2, Zenon
<1>8. ASSUME NEW s \in Subs, SubStep(s) \/ Receive(s) \/ DelStep(s)
      PROVE  RemoveUnderSendLock(s) \/ RemoveAfterClose(s)
  BY <1>8, Zenon
     DEF SubStep, DelStep, SubscribeLock, SubscribeEnter, SubscribeUnlock, SubscribeAdd,
              Receive, DelRLock, FindStart, FindStep, RemoveLocked, DelRUnlock
<1>9. ASSUME NEW p \in Posters, SendStep(p) \/ \E t \in Types : Post(p, t)
      PROVE  \/ TrySend(p)
             \/ \E i \in 1..Cardinality(Subs) : SelectSend(p, i)
             \/ \E s \in Subs : SelectRemove(p, s)
  BY <1>9, Zenon DEF SendStep, SendLock, SendMerge, TryDone, SendUnlock, Post
<1>10. ASSUME NEW p \in Stoppers, StopStep(p) PROVE FALSE
  BY <1>10, Zenon DEF StopStep, StopLock, StopEnter, CloseFeed, StopUnlock, CloseLock
<1>11. ~UNCHANGED vars
  BY Zenon DEF vars
<1> QED BY <1>2, <1>3, <1>4, <1>6, <1>7, <1>8, <1>9, <1>10, <1>11 DEF Next, Finished

\* Before Stop is called no step closes anything or panics.
LEMMA QuietNext ==
    ASSUME Inv, Next
    PROVE  Quiet'
<1> SUFFICES ASSUME \A p \in Stoppers : pc'[p] = "idle"
             PROVE  ~stopped' /\ ~panicked' /\ (\A s \in Subs : ~chClosed'[s])
                    /\ (\A t \in Types : ~closed'[t])
  BY Zenon DEF Quiet
<1>0. /\ pc \in [Procs -> Labels] /\ Stoppers \subseteq Procs
      /\ chClosed \in [Subs -> BOOLEAN] /\ panicked' \in BOOLEAN /\ panicked \in BOOLEAN
  <2>1. panicked' \in BOOLEAN
    <3>1. panicked' = panicked \/ panicked' = TRUE
      BY ZenonT(40) DEF Next, SubStep, DelStep, SendStep, StopStep, Finished, vars,
             SubscribeLock, SubscribeEnter, SubscribeUnlock, SubscribeAdd, Receive,
             DelRLock, FindStart, FindStep, RemoveLocked, RemoveUnderSendLock, RemoveAfterClose,
             DelRUnlock, SendLock, SendMerge, TrySend, TryDone, SendUnlock, SelectSend,
             SelectRemove, Post, StopLock, StopEnter, CloseFeed, StopUnlock, CloseLock, Panic
    <3> QED BY <3>1, Zenon DEF Inv, TypeOK
  <2> QED BY <2>1, Zenon DEF Inv, TypeOK, Procs
\* Nobody was in Stop before the step either, and the step is not one of Stop's.
<1>1. ASSUME NEW p \in Stoppers, StopStep(p) PROVE FALSE
  <2>1. pc'[p] # "idle"
    BY <1>0, <1>1, Zenon
       DEF StopStep, StopLock, StopEnter, CloseFeed, StopUnlock, CloseLock, Goto
  <2> QED BY <2>1, Zenon
<1>2. ASSUME NEW p \in Posters, SendStep(p) \/ \E t \in Types : Post(p, t)
      PROVE  /\ \A q \in Stoppers : pc'[q] = pc[q]
             /\ UNCHANGED <<stopped, chClosed, closed>>
  <2>1. \A q \in Stoppers : q # p /\ q \notin Subs
    BY EventAssumption, Zenon
  <2> QED BY <1>0, <1>2, <2>1, Zenon
             DEF SendStep, SendLock, SendMerge, TrySend, TryDone, SendUnlock,
             SelectSend, SelectRemove, Post, Panic, Goto, muxVars, feedVars, subVars
<1>3. ASSUME NEW s \in Subs, SubStep(s) \/ Receive(s) \/ DelStep(s)
      PROVE  /\ \A q \in Stoppers : pc'[q] = pc[q]
             /\ UNCHANGED <<stopped, closed>>
             /\ \/ UNCHANGED chClosed
                \/ stopped
  <2>1. \A q \in Stoppers : q # s /\ q \in Procs
    BY EventAssumption, Zenon DEF Procs
  <2>2. UNCHANGED chClosed \/ stopped
    BY <1>3, Zenon
       DEF SubStep, DelStep, SubscribeLock, SubscribeEnter, SubscribeUnlock, SubscribeAdd,
                Receive, DelRLock, FindStart, FindStep, RemoveLocked, RemoveUnderSendLock,
                RemoveAfterClose, DelRUnlock, Panic, subVars
  <2> QED BY <1>3, <2>1, <2>2, SubFrame, Zenon
<1>4. ASSUME UNCHANGED vars PROVE UNCHANGED <<pc, stopped, chClosed, closed>>
  BY <1>4, Zenon DEF vars, muxVars, subVars, feedVars
<1>5. \A q \in Stoppers : pc[q] = "idle"
  BY <1>1, <1>2, <1>3, <1>4, Zenon DEF Next, Finished
<1>6. ~stopped /\ ~panicked /\ (\A s \in Subs : ~chClosed[s]) /\ (\A t \in Types : ~closed[t])
  BY <1>5, Zenon DEF Inv, Quiet
<1>7. UNCHANGED <<stopped, chClosed, closed>>
  BY <1>1, <1>2, <1>3, <1>4, <1>6, Zenon DEF Next, Finished
<1>8. ~panicked'
  BY <1>0, <1>6, PanicOnlyClosed, Zenon
<1> QED BY <1>6, <1>7, <1>8, Zenon

----------------------------------------------------------------------------
\* The hub before the first call.
LEMMA InitInv == Init => Inv
<1> SUFFICES ASSUME Init PROVE Inv
  BY Zenon
<1>1. TypeOK
  <2>1. <<>> \in Seq(Subs) /\ <<>> \in Seq(Types \X Nat)
    OBVIOUS
  <2> QED BY <2>1, EventAssumption, Zenon DEF Init, TypeOK, Labels
<1>2. Locked
  BY Zenon DEF Init, Locked, Procs
<1>3. Token
  BY Zenon DEF Init, Token, Procs, Free, Closed
<1>4. Sending
  <2>1. act = [t \in Types |-> 0] /\ sendCases = [t \in Types |-> <<>>]
    BY Zenon DEF Init
  <2> QED BY <2>1 DEF Sending
<1>5. Listed
  BY EmptyList, Zenon DEF Init, Listed
<1>6. Scanned
  <2>1. nsubs = [t \in Types |-> 0] /\ subs = [t \in Types |-> <<>>]
    BY Zenon DEF Init
  <2>2. \A s \in Subs : pc[s] = "idle"
    BY Zenon DEF Init, Procs
  <2> QED BY <2>1, <2>2 DEF Scanned
<1>7. Present
  BY Zenon DEF Init, Present, Stays, Procs
<1>8. Quiet
  BY Zenon DEF Init, Quiet
<1> QED BY <1>1, <1>2, <1>3, <1>4, <1>5, <1>6, <1>7, <1>8, Zenon DEF Inv

\* A step of any goroutine keeps the invariant.
LEMMA NextInv == Inv /\ [Next]_vars => Inv'
<1> SUFFICES ASSUME Inv, [Next]_vars PROVE Inv'
  BY Zenon
<1>1. CASE UNCHANGED vars
  <2> USE <1>1 DEF vars, muxVars, feedVars, subVars, localVars, histVars, Inv
  <2>1. TypeOK' /\ Locked' /\ Token' /\ Sending'
    BY Zenon DEF TypeOK, Locked, Token, Sending
  <2>2. Listed'
    BY Zenon DEF Listed, Fresh, Once, Found
  <2>3. Scanned'
    BY Zenon DEF Scanned
  <2>4. Present' /\ Quiet'
    BY Zenon DEF Found, Present, Stays, Quiet
  <2> QED BY <2>1, <2>2, <2>3, <2>4, Zenon
<1>2. CASE Next
  <2>1. Listed' /\ Present' /\ Quiet'
    BY <1>2, ListedNext, PresentNext, QuietNext, Zenon
  <2>2. ASSUME NEW s \in Subs, SubStep(s) \/ Receive(s) \/ DelStep(s) PROVE Inv'
    <3>1. TypeOK'
      BY <2>2, TypeSubscribe, TypeDel, Zenon
    <3>2. Locked' /\ Token' /\ Sending' /\ Scanned'
      BY <2>2, LockedSub, TokenSub, SendingSub, ScannedSub, Zenon
    <3> QED BY <2>1, <3>1, <3>2, Zenon DEF Inv
  <2>3. ASSUME NEW p \in Posters, SendStep(p) \/ \E t \in Types : Post(p, t) PROVE Inv'
    <3>1. TypeOK'
      BY <2>3, TypeSend, Zenon
    <3>2. Locked' /\ Token' /\ Sending' /\ Scanned'
      BY <2>3, LockedOther, TokenOther, SendingOther, ScannedOther, Zenon
    <3> QED BY <2>1, <3>1, <3>2, Zenon DEF Inv
  <2>4. ASSUME NEW p \in Stoppers, StopStep(p) PROVE Inv'
    <3>1. TypeOK'
      BY <2>4, TypeStop, Zenon
    <3>2. Locked' /\ Token' /\ Sending' /\ Scanned'
      BY <2>4, LockedOther, TokenOther, SendingOther, ScannedOther, Zenon
    <3> QED BY <2>1, <3>1, <3>2, Zenon DEF Inv
  <2> QED BY <1>1, <1>2, <2>2, <2>3, <2>4, Zenon DEF Next, Finished
<1> QED BY <1>1, <1>2, Zenon

\* The inductive invariant of the hub, for any number of posters, subscribers, stoppers
\* and types.
THEOREM HubInvariant == Spec => []Inv
<1>1. Init => Inv
  BY InitInv, Zenon
<1>2. Inv /\ [Next]_vars => Inv'
  BY NextInv, Zenon
<1> QED BY <1>1, <1>2, PTL DEF Spec
=============================================================================
