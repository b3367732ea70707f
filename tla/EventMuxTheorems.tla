-------------------------- MODULE EventMuxTheorems --------------------------
(***************************************************************************)
(* What the invariant of the event hub gives: a subscription is registered *)
(* once until its own remove, nobody panics before Stop, and the feeds     *)
(* implement Broadcast, for any number of goroutines and types and any     *)
(* channel size.                                                           *)
(***************************************************************************)
EXTENDS EventMuxProofs, FiniteSetTheorems

\* A set whose elements are all equal.
LEMMA AtMostOne ==
    ASSUME NEW S, \A x, y \in S : x = y
    PROVE  Cardinality(S) <= 1
<1>1. CASE S = {}
  BY <1>1, FS_EmptySet
<1>2. CASE S # {}
  <2>1. PICK x \in S : S = {x}
    BY <1>2, Zenon
  <2> QED BY <2>1, FS_Singleton
<1> QED BY <1>1, <1>2, Zenon

\* feed.remove and feed.send never miss the subscription they look for: it is in one of
\* the two lists of an open feed, once, until its own remove takes it out.
THEOREM RegisteredOnceCorrect == Spec => []RegisteredOnce
<1>1. Inv => RegisteredOnce
  <2> SUFFICES ASSUME Inv PROVE RegisteredOnce
    BY Zenon
  <2>1. ASSUME NEW t \in Types, NEW s \in Subs PROVE Cardinality(Slots(s, t)) <= 1
    <3>0. ~(Found(msgBox[t], s) /\ Found(sendCases[t], s))
      BY Zenon DEF Inv, Listed
    <3>1. Once(msgBox[t]) /\ Once(sendCases[t])
      BY Zenon DEF Inv, Listed
    <3>2. ASSUME NEW x \in Slots(s, t), NEW y \in Slots(s, t) PROVE x = y
      <4>1. ASSUME NEW i \in 1..Len(msgBox[t]), msgBox[t][i] = s PROVE Found(msgBox[t], s)
        BY <4>1, Zenon DEF Found
      <4>2. ASSUME NEW i \in 1..Len(sendCases[t]), sendCases[t][i] = s PROVE Found(sendCases[t], s)
        BY <4>2, Zenon DEF Found
      <4>3. \/ \E i \in 1..Len(msgBox[t]) : msgBox[t][i] = s /\ x = <<"box", i>>
            \/ \E i \in 1..Len(sendCases[t]) : sendCases[t][i] = s /\ x = <<"case", i>>
        BY Zenon DEF Slots
      <4>4. \/ \E i \in 1..Len(msgBox[t]) : msgBox[t][i] = s /\ y = <<"box", i>>
            \/ \E i \in 1..Len(sendCases[t]) : sendCases[t][i] = s /\ y = <<"case", i>>
        BY Zenon DEF Slots
      <4> QED BY <3>0, <3>1, <4>1, <4>2, <4>3, <4>4 DEF Once
    <3> QED BY <3>2, AtMostOne, Zenon
  <2>2. ASSUME NEW t \in Types, ~closed[t], NEW s \in Subs, Kept(s, t) PROVE Slots(s, t) # {}
    <3>1. Stays(s, t)
      BY <2>2, Zenon DEF Kept, Stays, At
    <3>2. Found(msgBox[t], s) \/ Found(sendCases[t], s)
      BY <2>2, <3>1, Zenon DEF Inv, Present
    <3>3. CASE Found(msgBox[t], s)
      <4>1. PICK i \in 1..Len(msgBox[t]) : msgBox[t][i] = s
        BY <3>3, Zenon DEF Found
      <4>2. <<"box", i>> \in Slots(s, t)
        BY <4>1, Zenon DEF Slots
      <4> QED BY <4>2, Zenon
    <3>4. CASE Found(sendCases[t], s)
      <4>1. PICK i \in 1..Len(sendCases[t]) : sendCases[t][i] = s
        BY <3>4, Zenon DEF Found
      <4>2. <<"case", i>> \in Slots(s, t)
        BY <4>1, Zenon DEF Slots
      <4> QED BY <4>2, Zenon
    <3> QED BY <3>2, <3>3, <3>4, Zenon
  <2> QED BY <2>1, <2>2, Zenon DEF RegisteredOnce, Inv
<1> QED BY <1>1, HubInvariant, PTL

\* No del(-1) and no send on a closed channel until somebody calls Stop.
THEOREM NoPanicCorrect == Spec => []NoPanic
<1>1. Inv => NoPanic
  BY Zenon DEF Inv, Quiet, NoPanic
<1> QED BY <1>1, HubInvariant, PTL

----------------------------------------------------------------------------
(* The feeds implement Broadcast. *)

\* The values of the refinement mapping.
LEMMA Mapped ==
    ASSUME TypeOK
    PROVE  /\ Members \in [Types -> SUBSET Subs]
           /\ \A t \in Types : \A x : x \in Members[t] <=> Found(sendCases[t], x)
           /\ Owed = [t \in Types |-> {sendCases[t][i] : i \in 1..act[t]}]
           /\ Got = [s \in Subs |-> recvd[s] \o chan[s]]
<1>1. \A t \in Types : sendCases[t] \in Seq(Subs)
  BY Zenon DEF TypeOK
<1>2. \A t \in Types : \A x : x \in Members[t] <=> Found(sendCases[t], x)
  BY <1>1, FoundRange, Zenon DEF Members
<1>3. \A t \in Types : Members[t] \subseteq Subs
  BY <1>1 DEF Members, Range
<1>4. Members = [t \in Types |-> Members[t]]
  BY Zenon DEF Members
<1>5. Members \in [Types -> SUBSET Subs]
  BY <1>3, <1>4, Zenon
<1> QED BY <1>2, <1>5, Zenon DEF Owed, Got

\* Before anything is posted.
LEMMA InitMapped == Init => B!Init
<1> SUFFICES ASSUME Init PROVE B!Init
  BY Zenon
<1>1. \A t \in Types : sendCases[t] = <<>> /\ act[t] = 0
  BY Zenon DEF Init
<1>2. Members = [t \in Types |-> {}]
  <2>1. \A t \in Types : Range(sendCases[t]) = {}
    BY <1>1 DEF Range
  <2> QED BY <2>1, Zenon DEF Members
<1>3. Owed = [t \in Types |-> {}]
  <2>1. \A t \in Types : {sendCases[t][i] : i \in 1..act[t]} = {}
    BY <1>1
  <2> QED BY <2>1, Zenon DEF Owed
<1>4. Got = [s \in Subs |-> <<>>]
  <2>1. \A s \in Subs : recvd[s] \o chan[s] = <<>>
    <3>1. <<>> \in Seq({}) /\ <<>> \o <<>> = <<>>
      OBVIOUS
    <3> QED BY <3>1, Zenon DEF Init
  <2> QED BY <2>1, Zenon DEF Got
<1> QED BY <1>2, <1>3, <1>4, Zenon DEF Init, B!Init

\* The steps that Broadcast sees.
LEMMA MappedSteps ==
    ASSUME Inv, Next
    PROVE  \/ UNCHANGED <<posted, joined, sendCases, act, chan, recvd>>
           \/ \E s \in Subs : Receive(s)
           \/ \E s \in Subs, t \in Types :
                /\ TakenOut(s, t)
                /\ act' = [act EXCEPT ![t] = IF Find(sendCases[t], s) <= act[t] THEN act[t] - 1
                                                                                ELSE act[t]]
                /\ UNCHANGED <<posted, chan, recvd>>
           \/ \E t \in Types : \E i \in 1..act[t] :
                Deliver(t, i) /\ UNCHANGED <<posted, joined, recvd>>
           \/ \E p \in Posters : SendMerge(p) /\ ~closed[typ[p]]
           \/ \E p \in Stoppers : CloseFeed(p)
<1> USE DEF feedVars, subVars, histVars, Panic
<1>0. /\ pc \in [Procs -> Labels] /\ Subs \subseteq Procs /\ Posters \subseteq Procs
      /\ act \in [Types -> Nat]
  BY Zenon DEF Inv, TypeOK, Procs
<1>1. ASSUME NEW s \in Subs, RemoveUnderSendLock(s)
      PROVE  \/ UNCHANGED <<posted, joined, sendCases, act, chan, recvd>>
             \/ \E t \in Types :
                /\ TakenOut(s, t)
                /\ act' = [act EXCEPT ![t] = IF Find(sendCases[t], s) <= act[t] THEN act[t] - 1
                                                                                ELSE act[t]]
                /\ UNCHANGED <<posted, chan, recvd>>
  <2>1. CASE ~Found(sendCases[typ[s]], s)
    BY <1>1, <2>1, Zenon DEF RemoveUnderSendLock
  <2>2. CASE Found(sendCases[typ[s]], s)
    <3>1. typ[s] \in Types \ todo[s] /\ sendLock[typ[s]] = Free
      BY <1>1, Zenon DEF RemoveUnderSendLock, At, Inv, Scanned
    <3>2. TakenOut(s, typ[s]) /\ UNCHANGED <<act, posted, chan, recvd>>
      BY <1>0, <1>1, <2>2, <3>1, Zenon DEF RemoveUnderSendLock, Goto, TakenOut, localVars
    <3>3. act[typ[s]] = 0
      BY <3>1, NoSend, EventAssumption, Zenon DEF Procs
    <3>4. /\ Find(sendCases[typ[s]], s) \in 1..Len(sendCases[typ[s]])
          /\ Len(sendCases[typ[s]]) \in Nat
      BY <2>2, <3>1, FindAt, SeqEntries DEF Inv, TypeOK
    <3>5. ~(Find(sendCases[typ[s]], s) <= act[typ[s]])
      BY <3>3, <3>4
    <3>6. act' = [act EXCEPT ![typ[s]] = IF Find(sendCases[typ[s]], s) <= act[typ[s]]
                                         THEN act[typ[s]] - 1 ELSE act[typ[s]]]
      BY <1>0, <3>2, <3>5, Zenon
    <3> QED BY <3>1, <3>2, <3>6, Zenon
  <2> QED BY <2>1, <2>2, Zenon
<1>2. ASSUME NEW p \in Posters, NEW s \in Subs, SelectRemove(p, s)
      PROVE  \/ UNCHANGED <<posted, joined, sendCases, act, chan, recvd>>
             \/ \E t \in Types :
                /\ TakenOut(s, t)
                /\ act' = [act EXCEPT ![t] = IF Find(sendCases[t], s) <= act[t] THEN act[t] - 1
                                                                                ELSE act[t]]
                /\ UNCHANGED <<posted, chan, recvd>>
  <2>1. CASE ~Found(sendCases[typ[p]], s)
    BY <1>2, <2>1, Zenon DEF SelectRemove
  <2>2. CASE Found(sendCases[typ[p]], s)
    <3>1. /\ typ[p] \in Types /\ typ[s] = typ[p] /\ pc[s] = "removeSelect" /\ p # s
          /\ sendCases' = [sendCases EXCEPT ![typ[p]] = Del(sendCases[typ[p]], Find(sendCases[typ[p]], s))]
          /\ act' = [act EXCEPT ![typ[p]] = IF Find(sendCases[typ[p]], s) <= act[typ[p]]
                                            THEN act[typ[p]] - 1 ELSE act[typ[p]]]
          /\ pc' = [pc EXCEPT ![p] = "try", ![s] = "del"]
          /\ UNCHANGED <<msgBox, todo, joined, posted, chan, recvd>>
      BY <1>2, <2>2, HandOver DEF localVars
    <3>2. typ[s] \notin todo[s]
      BY <3>1, Zenon DEF Inv, Scanned
    <3>3. TakenOut(s, typ[p])
      BY <1>0, <2>2, <3>1, <3>2 DEF TakenOut
    <3> QED BY <3>1, <3>3, Zenon
  <2> QED BY <2>1, <2>2, Zenon
<1>3. ASSUME NEW p \in Posters, TrySend(p)
      PROVE  \/ UNCHANGED <<posted, joined, sendCases, act, chan, recvd>>
             \/ \E t \in Types : \E i \in 1..act[t] :
                    Deliver(t, i) /\ UNCHANGED <<posted, joined, recvd>>
  <2>1. typ[p] \in Types /\ pos[p] \in 1..act[typ[p]]
    BY <1>3, CaseIndex, Zenon
  <2> QED BY <1>3, <2>1, Zenon DEF TrySend
<1>4. ASSUME NEW p \in Posters, NEW i \in 1..Cardinality(Subs), SelectSend(p, i)
      PROVE  \/ UNCHANGED <<posted, joined, sendCases, act, chan, recvd>>
             \/ \E t \in Types : \E j \in 1..act[t] :
                    Deliver(t, j) /\ UNCHANGED <<posted, joined, recvd>>
  <2>1. typ[p] \in Types /\ i \in 1..act[typ[p]]
    BY <1>4, CaseIndex, Zenon
  <2> QED BY <1>4, <2>1, Zenon DEF SelectSend
<1>5. ASSUME NEW p \in Posters, SendStep(p) \/ \E t \in Types : Post(p, t)
      PROVE  \/ UNCHANGED <<posted, joined, sendCases, act, chan, recvd>>
             \/ SendMerge(p) /\ ~closed[typ[p]]
             \/ TrySend(p)
             \/ \E i \in 1..Cardinality(Subs) : SelectSend(p, i)
             \/ \E s \in Subs : SelectRemove(p, s)
  BY <1>5, Zenon DEF SendStep, SendLock, SendMerge, TryDone, SendUnlock, Post
<1>6. ASSUME NEW p \in Stoppers, StopStep(p)
      PROVE  UNCHANGED <<posted, joined, sendCases, act, chan, recvd>> \/ CloseFeed(p)
  BY <1>6, Zenon DEF StopStep, StopLock, StopEnter, StopUnlock, CloseLock
<1>7. ASSUME NEW s \in Subs, SubStep(s) \/ Receive(s) \/ DelStep(s)
      PROVE  \/ UNCHANGED <<posted, joined, sendCases, act, chan, recvd>>
             \/ Receive(s) \/ RemoveUnderSendLock(s)
  BY <1>7, Zenon
     DEF SubStep, DelStep, SubscribeLock, SubscribeEnter, SubscribeAdd, SubscribeUnlock,
              DelRLock, FindStart, FindStep, RemoveLocked, RemoveAfterClose, DelRUnlock
<1>8. ASSUME UNCHANGED vars PROVE UNCHANGED <<posted, joined, sendCases, act, chan, recvd>>
  BY <1>8, Zenon DEF vars
<1> QED BY <1>1, <1>2, <1>3, <1>4, <1>5, <1>6, <1>7, <1>8 DEF Next, Finished


\* The mapped variables are functions on their index sets.
LEMMA MappedFunctions ==
    /\ Members = [t \in Types |-> Members[t]] /\ Members' = [t \in Types |-> Members'[t]]
    /\ Owed = [t \in Types |-> Owed[t]] /\ Owed' = [t \in Types |-> Owed'[t]]
    /\ Got = [s \in Subs |-> Got[s]] /\ Got' = [s \in Subs |-> Got'[s]]
BY Zenon DEF Members, Owed, Got

\* The mapped variables, one type or subscription at a time.
LEMMA MappedAt ==
    /\ \A t \in Types : /\ Members[t] = Range(sendCases[t]) /\ Members'[t] = Range(sendCases'[t])
                        /\ Owed[t] = {sendCases[t][i] : i \in 1..act[t]}
                        /\ Owed'[t] = {sendCases'[t][i] : i \in 1..act'[t]}
    /\ \A s \in Subs : Got[s] = recvd[s] \o chan[s] /\ Got'[s] = recvd'[s] \o chan'[s]
BY Zenon DEF Members, Owed, Got

\* A feed whose cases a step leaves alone.
LEMMA MappedSame ==
    ASSUME NEW u \in Types, sendCases'[u] = sendCases[u], act'[u] = act[u]
    PROVE  Members'[u] = Members[u] /\ Owed'[u] = Owed[u]
<1>1. Range(sendCases'[u]) = Range(sendCases[u])
  BY Zenon
<1>2. {sendCases'[u][i] : i \in 1..act'[u]} = {sendCases[u][i] : i \in 1..act[u]}
  BY Zenon
<1> QED BY <1>1, <1>2, MappedAt, Zenon

\* The start of a send publishes the next event, for the members and the msgBox.
LEMMA MergePublishes ==
    ASSUME Inv, TypeOK', NEW p \in Posters, SendMerge(p), ~closed[typ[p]]
    PROVE  \E t \in Types : \E J \in SUBSET Subs : B!Publish(t, J)
<1> PICK t \in Types : t = typ[p]
  BY MergeLists, Zenon
<1>0. Range(msgBox[t]) \subseteq Subs
  <2>1. msgBox[t] \in Seq(Subs)
    BY Zenon DEF Inv, TypeOK
  <2> QED BY <2>1 DEF Range
<1> PICK J \in SUBSET Subs : J = Range(msgBox[t])
  BY <1>0, Zenon
<1>1. /\ sendLock[t] = p /\ pc[p] = "merge" /\ UNCHANGED <<chan, recvd>>
      /\ sendCases' = [sendCases EXCEPT ![t] = sendCases[t] \o msgBox[t]]
      /\ act' = [act EXCEPT ![t] = Len(sendCases'[t])]
      /\ posted' = [posted EXCEPT ![t] = posted[t] + 1]
      /\ joined' = [joined EXCEPT ![t] = joined[t] \cup J]
  BY Zenon DEF SendMerge, At, Inv, Token, subVars
<1>2. /\ sendCases \in [Types -> Seq(Subs)] /\ msgBox[t] \in Seq(Subs) /\ act \in [Types -> Nat]
      /\ sendCases'[t] \in Seq(Subs)
  BY Zenon DEF Inv, TypeOK
<1>3. act[t] = 0
  BY <1>1, NoSend, Zenon
<1>4. Owed[t] = {}
  BY <1>3, MappedAt
<1>5. J \cap joined[t] = {}
  <2>1. \A x \in J : Found(msgBox[t], x)
    BY <1>2, FoundRange, Zenon
  <2> QED BY <2>1, Zenon DEF Inv, Listed
<1>6. Members'[t] = Members[t] \cup J
  <2>1. /\ \A x : x \in Range(sendCases'[t]) <=> Found(sendCases'[t], x)
        /\ \A x : x \in Range(sendCases[t]) <=> Found(sendCases[t], x)
        /\ \A x : x \in J <=> Found(msgBox[t], x)
    BY <1>2, FoundRange, Zenon
  <2>2. sendCases'[t] = sendCases[t] \o msgBox[t]
    BY <1>1, <1>2, Zenon
  <2>3. \A x : Found(sendCases'[t], x) <=> Found(sendCases[t], x) \/ Found(msgBox[t], x)
    BY <1>2, <2>2, ConcatEntries
  <2> QED BY <2>1, <2>3, MappedAt
<1>7. Owed'[t] = Members'[t]
  <2>1. act'[t] = Len(sendCases'[t])
    BY <1>1, <1>2, Zenon
  <2>2. DOMAIN sendCases'[t] = 1..Len(sendCases'[t])
    BY <1>2, SeqEntries, Zenon
  <2> QED BY <2>1, <2>2, MappedAt, ZenonT(40) DEF Range
<1>8. \A u \in Types : u # t => Members'[u] = Members[u] /\ Owed'[u] = Owed[u]
  <2>1. \A u \in Types : u # t => sendCases'[u] = sendCases[u] /\ act'[u] = act[u]
    BY <1>1, <1>2, Zenon
  <2> QED BY <2>1, MappedSame, Zenon
<1>9. Members' = [Members EXCEPT ![t] = Members[t] \cup J]
  BY <1>6, <1>8, MappedFunctions, ExceptAt
<1>10. Owed' = [Owed EXCEPT ![t] = Members[t] \cup J]
  BY <1>6, <1>7, <1>8, MappedFunctions, ExceptAt
<1>11. Got' = Got
  BY <1>1, Zenon DEF Got
<1>12. B!Publish(t, J)
  BY <1>1, <1>4, <1>5, <1>9, <1>10, <1>11 DEF B!Publish
<1> QED BY <1>12, Zenon

\* A value put into a channel is a delivery.
LEMMA SendDelivers ==
    ASSUME Inv, NEW t \in Types, NEW i \in 1..act[t], Deliver(t, i),
           UNCHANGED <<posted, joined, recvd>>
    PROVE  \E s \in Subs : B!Deliver(t, s)
<1> DEFINE c == sendCases[t]
           n == act[t]
           e == <<t, posted[t]>>
<1>1. /\ i \in 1..Len(c) /\ n \in 1..Len(c) /\ c[i] \in Subs
      /\ sendCases' = [sendCases EXCEPT ![t] = Swap(c, i, n)]
      /\ Swap(c, i, n) \in Seq(Subs)
      /\ act' = [act EXCEPT ![t] = n - 1] /\ n - 1 \in Nat
      /\ chan' = [chan EXCEPT ![c[i]] = Append(chan[c[i]], e)]
  BY DeliverDoes, Zenon
<1> PICK s \in Subs : s = c[i]
  BY <1>1, Zenon
<1>2. /\ sendCases \in [Types -> Seq(Subs)] /\ c \in Seq(Subs) /\ act \in [Types -> Nat]
      /\ chan \in [Subs -> Seq(Types \X Nat)] /\ recvd \in [Subs -> Seq(Types \X Nat)]
      /\ e \in Types \X Nat /\ Once(c)
  BY Zenon DEF Inv, TypeOK, Listed
<1>3. /\ {Swap(c, i, n)[j] : j \in 1..(n - 1)} = {c[j] : j \in 1..n} \ {c[i]}
      /\ \A x : Found(Swap(c, i, n), x) <=> Found(c, x)
  <2>1. i \in 1..n
    BY Zenon
  <2> HIDE DEF c, n
  <2>2. /\ i \in 1..Len(c) /\ n \in 1..Len(c)
    BY <1>1, Zenon
  <2>3. c \in Seq(Subs) /\ Once(c)
    BY <1>2, Zenon
  <2>4. \A x : Found(Swap(c, i, n), x) <=> Found(c, x)
    BY <2>1, <2>2, <2>3, SwapEntries
  <2>5. {Swap(c, i, n)[j] : j \in 1..(n - 1)} = {c[j] : j \in 1..n} \ {c[i]}
    BY <2>1, <2>2, <2>3, SwapEntries, Zenon
  <2> QED BY <2>4, <2>5, Zenon
<1>4. /\ sendCases'[t] = Swap(c, i, n) /\ act'[t] = n - 1
      /\ \A u \in Types : u # t => sendCases'[u] = sendCases[u] /\ act'[u] = act[u]
  BY <1>1, <1>2, Zenon
<1>5. s \in Owed[t]
  BY MappedAt, Zenon
<1>6. Owed'[t] = Owed[t] \ {s} /\ \A u \in Types : u # t => Owed'[u] = Owed[u]
  <2>1. Owed'[t] = {Swap(c, i, n)[j] : j \in 1..(n - 1)}
    <3> HIDE DEF c, n
    <3> QED BY <1>4, MappedAt
  <2>2. Owed[t] = {c[j] : j \in 1..n}
    BY MappedAt, Zenon
  <2>3. \A u \in Types : u # t => Owed'[u] = Owed[u]
    BY <1>4, MappedSame, Zenon
  <2> HIDE DEF c, n
  <2> QED BY <1>3, <2>1, <2>2, <2>3
<1>7. \A u \in Types : Members'[u] = Members[u]
  <2>1. Range(Swap(c, i, n)) = Range(c)
    <3>1. /\ \A x : x \in Range(Swap(c, i, n)) <=> Found(Swap(c, i, n), x)
          /\ \A x : x \in Range(c) <=> Found(c, x)
      BY <1>1, <1>2, FoundRange, Zenon
    <3> QED BY <1>3, <3>1, Zenon
  <2> QED BY <1>4, <2>1, MappedAt
<1>8. Members' = Members
  BY <1>7, MappedFunctions, Zenon
<1>9. Owed' = [Owed EXCEPT ![t] = Owed[t] \ {s}]
  BY <1>6, MappedFunctions, ExceptAt, Zenon
<1>10. Got'[s] = Append(Got[s], e) /\ \A x \in Subs : x # s => Got'[x] = Got[x]
  <2>1. chan'[s] = Append(chan[s], e) /\ \A x \in Subs : x # s => chan'[x] = chan[x]
    BY <1>1, <1>2, Zenon
  <2>2. recvd[s] \in Seq(Types \X Nat) /\ chan[s] \in Seq(Types \X Nat)
    BY <1>2, Zenon
  <2> HIDE DEF e
  <2>3. recvd[s] \o Append(chan[s], e) = Append(recvd[s] \o chan[s], e)
    BY <1>2, <2>2, GotEvents, ZenonT(40)
  <2>4. Got'[s] = recvd[s] \o Append(chan[s], e) /\ Got[s] = recvd[s] \o chan[s]
    BY <2>1, MappedAt, Zenon
  <2>5. ASSUME NEW x \in Subs, x # s PROVE Got'[x] = Got[x]
    BY <2>1, <2>5, MappedAt, ZenonT(40)
  <2> QED BY <2>3, <2>4, <2>5, Zenon
<1>11. Got' = [Got EXCEPT ![s] = Append(Got[s], e)]
  BY <1>10, MappedFunctions, ExceptAt, Zenon
<1>12. B!Deliver(t, s)
  BY <1>5, <1>8, <1>9, <1>11, Zenon DEF B!Deliver
<1> QED BY <1>12, Zenon

\* A subscription taken out of sendCases leaves.
LEMMA RemoveLeaves ==
    ASSUME Inv, NEW s \in Subs, NEW t \in Types, TakenOut(s, t),
           act' = [act EXCEPT ![t] = IF Find(sendCases[t], s) <= act[t] THEN act[t] - 1 ELSE act[t]],
           UNCHANGED <<posted, chan, recvd>>
    PROVE  B!Leave(t, s)
<1> DEFINE c == sendCases[t]
           i == Find(c, s)
           n == act[t]
           m == IF i <= n THEN n - 1 ELSE n
<1>1. /\ Found(c, s) /\ sendCases' = [sendCases EXCEPT ![t] = Del(c, i)]
      /\ act' = [act EXCEPT ![t] = m] /\ UNCHANGED joined
  BY Zenon DEF TakenOut
<1>2. /\ sendCases \in [Types -> Seq(Subs)] /\ c \in Seq(Subs) /\ act \in [Types -> Nat]
      /\ Once(c) /\ n \in Nat /\ n <= Len(c) /\ Len(c) \in Nat
  BY SeqEntries DEF Inv, TypeOK, Listed, Sending
<1>3. i \in 1..Len(c) /\ c[i] = s
  BY <1>1, FindAt, Zenon
<1>4. /\ \A x : Found(Del(c, i), x) <=> Found(c, x) /\ x # s
      /\ {Del(c, i)[j] : j \in 1..m} = {c[j] : j \in 1..n} \ {s}
      /\ Del(c, i) \in Seq(Subs)
  <2>1. n \in 0..Len(c)
    BY <1>2
  <2> HIDE DEF c, i, n
  <2> QED BY <1>2, <1>3, <2>1, DelAt, DelEntries, Zenon
<1>5. /\ sendCases'[t] = Del(c, i) /\ act'[t] = m
      /\ \A u \in Types : u # t => sendCases'[u] = sendCases[u] /\ act'[u] = act[u]
  BY <1>1, <1>2, Zenon
<1>6. \A u \in Types : u # t => Members'[u] = Members[u] /\ Owed'[u] = Owed[u]
  BY <1>5, MappedSame
<1>7. Owed[t] = {c[j] : j \in 1..n} /\ Members[t] = Range(c)
  BY MappedAt, Zenon
<1> HIDE DEF c, i, n, m
<1>8. Owed'[t] = {Del(c, i)[j] : j \in 1..m} /\ Members'[t] = Range(Del(c, i))
  BY <1>5, MappedAt
<1>9. Owed'[t] = Owed[t] \ {s}
  BY <1>4, <1>7, <1>8, Zenon
<1>10. s \in Members[t] /\ Members'[t] = Members[t] \ {s}
  <2>1. /\ \A x : x \in Range(Del(c, i)) <=> Found(Del(c, i), x)
        /\ \A x : x \in Range(c) <=> Found(c, x)
    BY <1>2, <1>4, FoundRange, Zenon
  <2> QED BY <1>1, <1>4, <1>7, <1>8, <2>1
<1>11. Members' = [Members EXCEPT ![t] = Members[t] \ {s}]
  BY <1>6, <1>10, MappedFunctions, ExceptAt
<1>12. Owed' = [Owed EXCEPT ![t] = Owed[t] \ {s}]
  BY <1>6, <1>9, MappedFunctions, ExceptAt
<1>13. Got' = Got
  BY Zenon DEF Got
<1> QED BY <1>1, <1>10, <1>11, <1>12, <1>13, Zenon DEF B!Leave

\* feed.close ends the membership of everybody, between two events.
LEMMA CloseCloses ==
    ASSUME Inv, NEW p \in Stoppers, CloseFeed(p)
    PROVE  \E t \in Types : B!Close(t)
<1> PICK t \in Types : t = typ[p]
  BY CloseLists, Zenon
<1>1. /\ sendLock[t] = p /\ sendCases' = [sendCases EXCEPT ![t] = <<>>]
      /\ UNCHANGED <<act, chan, recvd, posted, joined>>
  BY Zenon DEF CloseFeed, At, Inv, Token, histVars
<1>2. act[t] = 0
  BY <1>1, NoSend, EventAssumption, Zenon
<1>3. sendCases \in [Types -> Seq(Subs)]
  BY Zenon DEF Inv, TypeOK
<1>4. /\ sendCases'[t] = <<>>
      /\ \A u \in Types : u # t => sendCases'[u] = sendCases[u] /\ act'[u] = act[u]
  BY <1>1, <1>3, Zenon
<1>5. \A u \in Types : u # t => Members'[u] = Members[u] /\ Owed'[u] = Owed[u]
  BY <1>4, MappedSame, Zenon
<1>6. Members'[t] = {}
  <2>1. Range(<<>>) = {}
    BY DEF Range
  <2> QED BY <1>4, <2>1, MappedAt, Zenon
<1>7. Owed[t] = {} /\ Owed'[t] = {}
  BY <1>1, <1>2, MappedAt
<1>8. Members' = [Members EXCEPT ![t] = {}]
  BY <1>5, <1>6, MappedFunctions, ExceptAt, Zenon
<1>9. Owed' = Owed
  BY <1>5, <1>7, MappedFunctions
<1>10. Got' = Got
  BY <1>1, Zenon DEF Got
<1>11. B!Close(t)
  BY <1>1, <1>7, <1>8, <1>9, <1>10, Zenon DEF B!Close
<1> QED BY <1>11, Zenon

\* Receiving moves an event from the channel to the receiver.
LEMMA ReceiveMapped ==
    ASSUME Inv, NEW s \in Subs, Receive(s)
    PROVE  UNCHANGED <<posted, Members, joined, Owed, Got>>
<1>1. /\ chan[s] # <<>> /\ UNCHANGED <<posted, joined, sendCases, act>>
      /\ recvd' = [recvd EXCEPT ![s] = Append(recvd[s], Head(chan[s]))]
      /\ chan' = [chan EXCEPT ![s] = Tail(chan[s])]
  BY Zenon DEF Receive, feedVars, histVars
<1>2. chan \in [Subs -> Seq(Types \X Nat)] /\ recvd \in [Subs -> Seq(Types \X Nat)]
  BY Zenon DEF Inv, TypeOK
<1>3. /\ recvd'[s] = Append(recvd[s], Head(chan[s])) /\ chan'[s] = Tail(chan[s])
      /\ \A x \in Subs : x # s => recvd'[x] = recvd[x] /\ chan'[x] = chan[x]
  BY <1>1, <1>2, Zenon
<1>4. Append(recvd[s], Head(chan[s])) \o Tail(chan[s]) = recvd[s] \o chan[s]
  <2>1. recvd[s] \in Seq(Types \X Nat) /\ chan[s] \in Seq(Types \X Nat)
    BY <1>2, Zenon
  <2> QED BY <1>1, <2>1, GotEvents, Zenon
<1>5. ASSUME NEW x \in Subs PROVE Got'[x] = Got[x]
  <2>1. CASE x = s
    BY <1>3, <1>4, <2>1, MappedAt, Zenon
  <2>2. CASE x # s
    BY <1>3, <2>2, MappedAt, Zenon
  <2> QED BY <2>1, <2>2, Zenon
<1>6. Got' = Got
  BY <1>5, MappedFunctions, Zenon
<1>7. Members' = Members /\ Owed' = Owed
  BY <1>1, Zenon DEF Members, Owed
<1> QED BY <1>1, <1>6, <1>7, Zenon

\* Every step of the hub is a step of Broadcast or leaves what Broadcast sees alone.
LEMMA NextMapped ==
    ASSUME Inv, Inv', [Next]_vars
    PROVE  [B!Next]_(B!vars)
<1> USE DEF B!Next, B!vars
<1>1. CASE UNCHANGED <<posted, joined, sendCases, act, chan, recvd>>
  BY <1>1, Zenon DEF Members, Owed, Got
<1>2. CASE UNCHANGED vars
  BY <1>1, <1>2, Zenon DEF vars, feedVars, subVars, histVars
<1>3. CASE Next
  <2>1. ASSUME NEW s \in Subs, Receive(s) PROVE [B!Next]_(B!vars)
    BY <2>1, ReceiveMapped, Zenon
  <2>2. ASSUME NEW s \in Subs, NEW t \in Types, TakenOut(s, t),
               act' = [act EXCEPT ![t] = IF Find(sendCases[t], s) <= act[t] THEN act[t] - 1
                                                                            ELSE act[t]],
               UNCHANGED <<posted, chan, recvd>>
        PROVE  [B!Next]_(B!vars)
    BY <2>2, RemoveLeaves, Zenon
  <2>3. ASSUME NEW t \in Types, NEW i \in 1..act[t], Deliver(t, i),
               UNCHANGED <<posted, joined, recvd>>
        PROVE  [B!Next]_(B!vars)
    BY <2>3, SendDelivers, Zenon
  <2>4. ASSUME NEW p \in Posters, SendMerge(p), ~closed[typ[p]] PROVE [B!Next]_(B!vars)
    <3>1. TypeOK'
      BY Zenon DEF Inv
    <3> QED BY <2>4, <3>1, MergePublishes, Zenon
  <2>5. ASSUME NEW p \in Stoppers, CloseFeed(p) PROVE [B!Next]_(B!vars)
    BY <2>5, CloseCloses, Zenon
  <2> QED BY <1>1, <1>3, <2>1, <2>2, <2>3, <2>4, <2>5, MappedSteps
<1> QED BY <1>2, <1>3

\* The goroutines, locks and lists of the hub implement the ordered broadcast, for any
\* number of posters, subscribers, stoppers, types and any channel size.
THEOREM ImplementsBroadcastCorrect == Spec => ImplementsBroadcast
<1>1. Init => B!Init
  BY InitMapped, Zenon
<1>2. Inv /\ Inv' /\ [Next]_vars => [B!Next]_(B!vars)
  BY NextMapped, Zenon
<1> QED BY <1>1, <1>2, HubInvariant, PTL DEF Spec, ImplementsBroadcast, B!Spec

----------------------------------------------------------------------------
\* What is proved of Broadcast holds of the hub.
BP == INSTANCE BroadcastProofs WITH members <- Members, owed <- Owed, got <- Got

\* So every subscriber's channel carries the events of a type in the order of the sends,
\* none twice and none missing between two of them, and a send that is through has
\* reached every subscriber that is still in the feed (feed.go:117-172).
THEOREM ChannelsKeepOrder == Spec => [](B!InOrder /\ B!NoGap /\ B!Complete)
<1>1. B!Init => BP!Inv
  BY BP!InitInv, Zenon DEF B!Init, BP!Init
<1>2. BP!Inv /\ [B!Next]_(B!vars) => BP!Inv'
  <2>1. [B!Next]_(B!vars) => [BP!Next]_(BP!vars)
    BY Zenon DEF B!Next, B!Publish, B!Deliver, B!Leave, B!Close, B!vars,
           BP!Next, BP!Publish, BP!Deliver, BP!Leave, BP!Close, BP!vars
  <2> QED BY <2>1, BP!NextInv, Zenon
<1>3. BP!Inv => B!InOrder /\ B!NoGap /\ B!Complete
  BY Zenon
     DEF BP!Inv, BP!InOrder, BP!NoGap, BP!Complete, BP!Has, B!InOrder, B!NoGap, B!Complete, B!Has
<1> QED BY <1>1, <1>2, <1>3, ImplementsBroadcastCorrect, PTL DEF ImplementsBroadcast, B!Spec
=============================================================================
