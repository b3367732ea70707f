-------------------------- MODULE BroadcastProofs --------------------------
(***************************************************************************)
(* InOrder, NoGap and Complete hold of Broadcast for every set of types    *)
(* and subscriptions.  None of them is inductive alone: the strengthening  *)
(* Inv says in addition that nothing above posted[t] was ever given, that  *)
(* a subscription still owed the last event does not have it, and that a   *)
(* member has every event from its first one on.                           *)
(***************************************************************************)
EXTENDS Broadcast, TLAPS

\* Only members are owed an event, of the published ones, and members joined.
Nested ==
    \A t \in Types :
        /\ owed[t] \subseteq members[t] /\ members[t] \subseteq joined[t]
        /\ owed[t] # {} => posted[t] > 0

\* What was given was published, and only to subscriptions that joined.
Published ==
    \A s \in Subs, i \in Nat : i \in 1..Len(got[s]) =>
        /\ s \in joined[got[s][i][1]]
        /\ got[s][i][2] \in 1..posted[got[s][i][1]]

\* Whoever is owed the last event does not have it.
Owing == \A t \in Types : \A s \in owed[t] : ~Has(s, t, posted[t])

\* A member has all events from its first one on, but the one it is owed.
Caught ==
    \A t \in Types, s \in Subs, m, k \in Nat :
        s \in members[t] /\ Has(s, t, m) /\ m <= k /\ k <= posted[t] =>
            Has(s, t, k) \/ (k = posted[t] /\ s \in owed[t])

Inv == TypeOK /\ Nested /\ Published /\ Owing /\ Caught /\ InOrder /\ NoGap /\ Complete

----------------------------------------------------------------------------
\* Appending an event to a sequence of events: the old ones keep their index.
LEMMA AppendEvent ==
    ASSUME NEW S, NEW q \in Seq(S), NEW e \in S
    PROVE  /\ Append(q, e) \in Seq(S)
           /\ Len(Append(q, e)) = Len(q) + 1
           /\ \A i \in 1..Len(q) : Append(q, e)[i] = q[i]
           /\ Append(q, e)[Len(q) + 1] = e
  OBVIOUS

\* Published seen from Has.
LEMMA HasPublished ==
    ASSUME TypeOK, Published, NEW s \in Subs, NEW t \in Types, NEW n, Has(s, t, n)
    PROVE  n \in 1..posted[t] /\ s \in joined[t]
<1>1. PICK i \in 1..Len(got[s]) : got[s][i] = <<t, n>>
  BY DEF Has
<1>2. i \in Nat /\ got[s][i][1] = t /\ got[s][i][2] = n
  BY <1>1 DEF TypeOK
<1> QED
  BY <1>2 DEF Published

\* Has after a delivery: one more event for s0, nothing else changes.
LEMMA DeliverHas ==
    ASSUME TypeOK, NEW t0 \in Types, NEW s0 \in Subs, Deliver(t0, s0),
           NEW s \in Subs, NEW t \in Types, NEW n
    PROVE  Has(s, t, n)' <=> (Has(s, t, n) \/ (s = s0 /\ t = t0 /\ n = posted[t0]))
<1> DEFINE e == <<t0, posted[t0]>>
<1>1. /\ got[s0] \in Seq(Types \X Nat) /\ e \in Types \X Nat
      /\ got'[s0] = Append(got[s0], e)
      /\ \A x \in Subs : x # s0 => got'[x] = got[x]
  BY DEF TypeOK, Deliver
<1>2. CASE s # s0
  BY <1>1, <1>2 DEF Has
<1>3. CASE s = s0
  <2>1. /\ Len(got'[s]) = Len(got[s]) + 1
        /\ \A i \in 1..Len(got[s]) : got'[s][i] = got[s][i]
        /\ got'[s][Len(got[s]) + 1] = e
    BY <1>1, <1>3, AppendEvent
  <2>2. Len(got[s]) \in Nat
    BY <1>1, <1>3
  <2>3. \A i \in 1..Len(got'[s]) : i \in 1..Len(got[s]) \/ i = Len(got[s]) + 1
    BY <2>1, <2>2
  <2>4. ASSUME Has(s, t, n)' PROVE Has(s, t, n) \/ (t = t0 /\ n = posted[t0])
    <3>1. PICK i \in 1..Len(got'[s]) : got'[s][i] = <<t, n>>
      BY <2>4 DEF Has
    <3> QED
      BY <3>1, <2>1, <2>3 DEF Has
  <2>5. ASSUME Has(s, t, n) PROVE Has(s, t, n)'
    <3>1. PICK i \in 1..Len(got[s]) : got[s][i] = <<t, n>>
      BY <2>5 DEF Has
    <3>2. i \in 1..Len(got'[s]) /\ got'[s][i] = <<t, n>>
      BY <3>1, <2>1, <2>2
    <3> QED
      BY <3>2 DEF Has
  <2>6. ASSUME t = t0, n = posted[t0] PROVE Has(s, t, n)'
    <3>1. Len(got[s]) + 1 \in 1..Len(got'[s])
      BY <2>1, <2>2
    <3> QED
      BY <3>1, <2>1, <2>6 DEF Has
  <2> QED
    BY <1>3, <2>4, <2>5, <2>6
<1> QED
  BY <1>2, <1>3
----------------------------------------------------------------------------
\* The initial state satisfies Inv.
LEMMA InitInv == Init => Inv
<1> SUFFICES ASSUME Init PROVE Inv
  OBVIOUS
<1>1. TypeOK
  BY DEF Init, TypeOK
<1>2. \A s \in Subs : got[s] = <<>> /\ Len(got[s]) = 0
  BY DEF Init
<1>3. \A s \in Subs, t \in Types : \A n : ~Has(s, t, n)
  BY <1>2 DEF Has
<1>4. Nested
  BY DEF Init, Nested
<1>5. Published /\ InOrder
  BY <1>2 DEF Published, InOrder
<1>6. Owing /\ Caught /\ NoGap
  BY <1>3 DEF Init, Owing, Caught, NoGap
<1>7. Complete
  BY DEF Init, Complete
<1> QED
  BY <1>1, <1>4, <1>5, <1>6, <1>7 DEF Inv

\* A publication preserves Inv: the numbers move on by one, and nobody has
\* the new number yet.
LEMMA PublishInv ==
    ASSUME Inv, NEW t0 \in Types, NEW J \in SUBSET Subs, Publish(t0, J)
    PROVE  Inv'
<1> USE DEF Inv
<1>1. TypeOK'
  BY DEF TypeOK, Publish
<1>2. Nested'
  BY DEF TypeOK, Nested, Publish
<1>3. \A s \in Subs, t \in Types : \A n : Has(s, t, n)' <=> Has(s, t, n)
  BY DEF Has, Publish
<1>4. /\ posted'[t0] = posted[t0] + 1 /\ posted[t0] \in Nat
      /\ \A t \in Types : t # t0 => /\ posted'[t] = posted[t] /\ owed'[t] = owed[t]
                                     /\ members'[t] = members[t]
      /\ owed'[t0] = members[t0] \cup J /\ members'[t0] = members[t0] \cup J
      /\ \A t \in Types : posted[t] \in Nat /\ joined[t] \subseteq joined'[t]
      /\ owed[t0] = {} /\ J \cap joined[t0] = {} /\ got' = got
  BY DEF TypeOK, Publish
<1>5. Published'
  <2> SUFFICES ASSUME NEW s \in Subs, NEW i \in Nat, i \in 1..Len(got[s])
               PROVE  /\ s \in joined'[got[s][i][1]]
                      /\ got[s][i][2] \in 1..posted'[got[s][i][1]]
    BY <1>4 DEF Published
  <2>1. got[s][i] \in Types \X Nat
    BY DEF TypeOK
  <2> QED
    BY <2>1, <1>4 DEF Published
<1>6. Owing'
  <2> SUFFICES ASSUME NEW t \in Types, NEW s \in owed'[t], Has(s, t, posted[t])'
               PROVE  FALSE
    BY DEF Owing
  <2>1. s \in Subs
    BY <1>1 DEF TypeOK
  <2>2. Has(s, t, posted'[t])
    BY <2>1, <1>4 DEF Has
  <2>3. posted'[t] \in 1..posted[t]
    BY <2>1, <2>2, HasPublished
  <2> QED
    BY <2>2, <2>3, <1>4 DEF Owing
<1>7. Caught'
  <2> SUFFICES ASSUME NEW t \in Types, NEW s \in Subs, NEW m \in Nat, NEW k \in Nat,
                      s \in members'[t], Has(s, t, m), m <= k, k <= posted'[t]
               PROVE  Has(s, t, k) \/ (k = posted'[t] /\ s \in owed'[t])
    BY <1>3 DEF Caught
  <2>1. s \in joined[t]
    BY HasPublished
  <2>2. s \in members[t]
    BY <2>1, <1>4
  <2> QED
    BY <2>2, <1>4 DEF Caught
<1>8. InOrder'
  BY <1>4 DEF InOrder
<1>9. NoGap'
  <2> SUFFICES ASSUME NEW s \in Subs, NEW t \in Types, NEW m \in Nat, NEW n \in Nat, NEW k \in Nat,
                      m >= 1, m < k, k < n, Has(s, t, m), Has(s, t, n)
               PROVE  Has(s, t, k)
    BY <1>3, <1>4 DEF NoGap
  <2>1. n \in 1..posted[t]
    BY HasPublished
  <2>2. m \in 1..posted[t] /\ k \in 1..posted[t]
    BY <2>1, <1>4
  <2> QED
    BY <2>1, <2>2 DEF NoGap
<1>10. Complete'
  <2> SUFFICES ASSUME NEW t \in Types, posted'[t] > 0, NEW s \in members'[t] \ owed'[t]
               PROVE  Has(s, t, posted[t])'
    BY DEF Complete
  <2>1. t # t0
    BY <1>4
  <2>2. Has(s, t, posted[t])
    BY <2>1, <1>4 DEF Complete
  <2> QED
    BY <2>1, <2>2, <1>4 DEF Has
<1> QED
  BY <1>1, <1>2, <1>5, <1>6, <1>7, <1>8, <1>9, <1>10
\* A delivery preserves Inv: the new event has a number above all that its
\* receiver has of the type.
LEMMA DeliverInv ==
    ASSUME Inv, NEW t0 \in Types, NEW s0 \in Subs, Deliver(t0, s0)
    PROVE  Inv'
<1> USE DEF Inv
<1> DEFINE e == <<t0, posted[t0]>>
           q == got[s0]
<1>1. /\ q \in Seq(Types \X Nat) /\ e \in Types \X Nat /\ Len(q) \in Nat
      /\ got' = [got EXCEPT ![s0] = Append(q, e)] /\ got'[s0] = Append(q, e)
      /\ \A s \in Subs : s # s0 => got'[s] = got[s]
      /\ \A t \in Types : posted[t] \in Nat
      /\ posted' = posted /\ members' = members /\ joined' = joined
      /\ owed'[t0] = owed[t0] \ {s0} /\ s0 \in owed[t0]
      /\ \A t \in Types : t # t0 => owed'[t] = owed[t]
      /\ s0 \in members[t0] /\ s0 \in joined[t0]
  BY DEF TypeOK, Deliver, Nested
<1>2. /\ Len(got'[s0]) = Len(q) + 1 /\ Append(q, e) \in Seq(Types \X Nat)
      /\ \A i \in 1..Len(q) : got'[s0][i] = q[i]
      /\ got'[s0][Len(q) + 1] = e
  BY <1>1, AppendEvent
<1>3. TypeOK'
  BY <1>1, <1>2 DEF TypeOK, Deliver
<1>4. Nested'
  BY <1>1 DEF TypeOK, Nested
<1>5. \A s \in Subs, t \in Types : \A n :
         Has(s, t, n)' <=> (Has(s, t, n) \/ (s = s0 /\ t = t0 /\ n = posted[t0]))
  BY DeliverHas
<1>6. ~Has(s0, t0, posted[t0])
  BY <1>1 DEF Owing
<1>7. posted[t0] > 0 /\ \A i \in 1..Len(q) : q[i][1] = t0 => q[i][2] < posted[t0]
  <2>1. posted[t0] > 0
    BY <1>1 DEF Nested
  <2>2. SUFFICES ASSUME NEW i \in 1..Len(q), q[i][1] = t0
                 PROVE  q[i][2] < posted[t0]
    BY <2>1
  <2>3. i \in Nat /\ q[i] \in Types \X Nat
    BY <1>1
  <2>4. q[i][2] \in 1..posted[t0]
    BY <2>2, <2>3 DEF Published
  <2>5. q[i] = <<t0, q[i][2]>>
    BY <2>2, <2>3
  <2>6. q[i][2] # posted[t0]
    BY <2>5, <1>6 DEF Has
  <2> QED
    BY <2>4, <2>6, <1>1
<1>8. Published'
  <2> SUFFICES ASSUME NEW s \in Subs, NEW i \in Nat, i \in 1..Len(got'[s])
               PROVE  /\ s \in joined[got'[s][i][1]]
                      /\ got'[s][i][2] \in 1..posted[got'[s][i][1]]
    BY <1>1 DEF Published
  <2>1. CASE s # s0
    BY <2>1, <1>1 DEF Published
  <2>2. CASE s = s0 /\ i = Len(q) + 1
    BY <2>2, <1>1, <1>2, <1>7
  <2>3. CASE s = s0 /\ i \in 1..Len(q)
    BY <2>3, <1>1, <1>2 DEF Published
  <2> QED
    BY <2>1, <2>2, <2>3, <1>2, <1>1
<1>9. Owing'
  <2> SUFFICES ASSUME NEW t \in Types, NEW s \in owed'[t], Has(s, t, posted[t])'
               PROVE  FALSE
    BY DEF Owing
  <2>1. s \in Subs /\ s \in owed[t] /\ ~(s = s0 /\ t = t0)
    BY <1>1, <1>3 DEF TypeOK
  <2>2. ~Has(s, t, posted[t])
    BY <2>1 DEF Owing
  <2>3. \A n : n = posted[t] => ~Has(s, t, n)'
    BY <2>1, <2>2, <1>5
  <2> QED
    BY <2>3, <1>1 DEF Has
<1>10. Caught'
  <2> SUFFICES ASSUME NEW t \in Types, NEW s \in Subs, NEW m \in Nat, NEW k \in Nat,
                      s \in members[t], Has(s, t, m)', m <= k, k <= posted[t]
               PROVE  Has(s, t, k)' \/ (k = posted[t] /\ s \in owed'[t])
    BY <1>1 DEF Caught
  <2>1. CASE Has(s, t, m)
    <3>1. Has(s, t, k) \/ (k = posted[t] /\ s \in owed[t])
      BY <2>1 DEF Caught
    <3> QED
      BY <3>1, <1>1, <1>5
  <2>2. CASE s = s0 /\ t = t0 /\ m = posted[t0]
    BY <2>2, <1>1, <1>5
  <2> QED
    BY <2>1, <2>2, <1>5
<1>11. InOrder'
  <2> SUFFICES ASSUME NEW s \in Subs, NEW i \in 1..Len(got'[s]), NEW j \in 1..Len(got'[s]),
                      i < j, got'[s][i][1] = got'[s][j][1]
               PROVE  got'[s][i][2] < got'[s][j][2]
    BY DEF InOrder
  <2>1. CASE s # s0
    BY <2>1, <1>1 DEF InOrder
  <2>2. CASE s = s0 /\ j = Len(q) + 1
    <3>1. i \in 1..Len(q) /\ got'[s][i] = q[i] /\ got'[s][j] = e
      BY <2>2, <1>1, <1>2
    <3> QED
      BY <3>1, <1>7
  <2>3. CASE s = s0 /\ j \in 1..Len(q)
    <3>1. i \in 1..Len(q) /\ got'[s][i] = q[i] /\ got'[s][j] = q[j]
      BY <2>3, <1>1, <1>2
    <3> QED
      BY <3>1, <2>3 DEF InOrder
  <2> QED
    BY <2>1, <2>2, <2>3, <1>2, <1>1
<1>12. NoGap'
  <2> SUFFICES ASSUME NEW s \in Subs, NEW t \in Types,
                      NEW m \in 1..posted[t], NEW n \in 1..posted[t], NEW k \in 1..posted[t],
                      m < k, k < n, Has(s, t, m)', Has(s, t, n)'
               PROVE  Has(s, t, k)
    BY <1>1, <1>5 DEF NoGap
  <2>1. Has(s, t, m)
    BY <1>1, <1>5
  <2>2. CASE Has(s, t, n)
    BY <2>1, <2>2 DEF NoGap
  <2>3. CASE s = s0 /\ t = t0 /\ n = posted[t0]
    BY <2>1, <2>3, <1>1 DEF Caught
  <2> QED
    BY <2>2, <2>3, <1>5
<1>13. Complete'
  <2> SUFFICES ASSUME NEW t \in Types, posted[t] > 0, NEW s \in members[t] \ owed'[t]
               PROVE  Has(s, t, posted[t])'
    BY <1>1 DEF Complete
  <2>1. s \in Subs
    BY DEF TypeOK
  <2>2. Has(s, t, posted[t]) \/ (s = s0 /\ t = t0)
    BY <1>1 DEF Complete
  <2>3. \E n : n = posted[t] /\ Has(s, t, n)'
    BY <2>1, <2>2, <1>5
  <2> QED
    BY <2>3, <1>1 DEF Has
<1> QED
  BY <1>3, <1>4, <1>8, <1>9, <1>10, <1>11, <1>12, <1>13
\* Members leave, one of them or all of them between two events: nothing that
\* was given changes, and there are fewer members to speak about.
LEMMA FewerMembersInv ==
    ASSUME Inv,
           TypeOK', UNCHANGED <<posted, joined, got>>,
           \A t \in Types : /\ members'[t] \subseteq members[t]
                            /\ owed'[t] = owed[t] \cap members'[t]
    PROVE  Inv'
<1> USE DEF Inv
<1>1. \A s \in Subs, t \in Types : \A n : Has(s, t, n)' <=> Has(s, t, n)
  BY DEF Has
<1>2. Nested'
  BY DEF Nested
<1>3. Published' /\ InOrder'
  BY DEF Published, InOrder
<1>4. Owing'
  BY DEF Owing, Has
<1>5. Caught'
  BY <1>1 DEF Caught
<1>6. NoGap'
  BY <1>1 DEF NoGap
<1>7. Complete'
  BY DEF Complete, Has
<1> QED
  BY <1>2, <1>3, <1>4, <1>5, <1>6, <1>7

\* Every step of the broadcast preserves Inv.
LEMMA NextInv == Inv /\ [Next]_vars => Inv'
<1> SUFFICES ASSUME Inv, [Next]_vars PROVE Inv'
  OBVIOUS
<1> USE DEF Inv
<1>1. ASSUME NEW t \in Types, NEW J \in SUBSET Subs, Publish(t, J) PROVE Inv'
  BY <1>1, PublishInv
<1>2. ASSUME NEW t \in Types, NEW s \in Subs, Deliver(t, s) PROVE Inv'
  BY <1>2, DeliverInv
<1>3. ASSUME NEW t \in Types, NEW s \in Subs, Leave(t, s) PROVE Inv'
  <2>1. TypeOK'
    BY <1>3 DEF TypeOK, Leave
  <2>2. \A x \in Types : members'[x] \subseteq members[x] /\ owed'[x] = owed[x] \cap members'[x]
    BY <1>3 DEF TypeOK, Nested, Leave
  <2> QED
    BY <1>3, <2>1, <2>2, FewerMembersInv DEF Leave
<1>4. ASSUME NEW t \in Types, Close(t) PROVE Inv'
  <2>1. TypeOK'
    BY <1>4 DEF TypeOK, Close
  <2>2. \A x \in Types : members'[x] \subseteq members[x] /\ owed'[x] = owed[x] \cap members'[x]
    BY <1>4 DEF TypeOK, Nested, Close
  <2> QED
    BY <1>4, <2>1, <2>2, FewerMembersInv DEF Close
<1>5. CASE UNCHANGED vars
  <2>1. TypeOK'
    BY <1>5 DEF TypeOK, vars
  <2> QED
    BY <1>5, <2>1, FewerMembersInv DEF vars, Nested
<1> QED
  BY <1>1, <1>2, <1>3, <1>4, <1>5 DEF Next

\* The broadcast delivers in order, without gaps and completely, for every set
\* of types and subscriptions (feed.send, remove and close).
THEOREM BroadcastCorrect == Spec => [](TypeOK /\ InOrder /\ NoGap /\ Complete)
<1>1. Init => Inv
  BY InitInv
<1>2. Inv /\ [Next]_vars => Inv'
  BY NextInv
<1>3. Inv => TypeOK /\ InOrder /\ NoGap /\ Complete
  BY DEF Inv
<1> QED
  BY <1>1, <1>2, <1>3, PTL DEF Spec
\* Every subscription sees the events of a type in publication order, once.
THEOREM InOrderCorrect == Spec => []InOrder
  BY BroadcastCorrect, PTL

\* No subscription misses an event between two events of a type it was given.
THEOREM NoGapCorrect == Spec => []NoGap
  BY BroadcastCorrect, PTL

\* A member that is not owed the last event has it.
THEOREM CompleteCorrect == Spec => []Complete
  BY BroadcastCorrect, PTL
=============================================================================
