----------------------------- MODULE Broadcast ------------------------------
(***************************************************************************)
(* What the event hub promises, without locks, slices or goroutines: per   *)
(* event type, events are numbered in the order they are published;        *)
(* publishing waits until every member has the previous event; a member    *)
(* gets the published event once; it may leave at any time.                *)
(***************************************************************************)
EXTENDS Naturals, Sequences

CONSTANTS
    Types,      \* event types
    Subs        \* subscriptions

VARIABLES
    posted,     \* number of events published per type
    members,    \* the subscriptions a type sends to
    joined,     \* the subscriptions that have ever been members
    owed,       \* the members the last event has not reached yet
    got         \* what each subscription was given: <<type, number>>

vars == <<posted, members, joined, owed, got>>

TypeOK ==
    /\ posted \in [Types -> Nat]
    /\ members \in [Types -> SUBSET Subs]
    /\ joined \in [Types -> SUBSET Subs]
    /\ owed \in [Types -> SUBSET Subs]
    /\ got \in [Subs -> Seq(Types \X Nat)]

Init ==
    /\ posted = [t \in Types |-> 0]
    /\ members = [t \in Types |-> {}]
    /\ joined = [t \in Types |-> {}]
    /\ owed = [t \in Types |-> {}]
    /\ got = [s \in Subs |-> <<>>]

\* The next event of type t, for the members and the newcomers J.
Publish(t, J) ==
    /\ owed[t] = {}
    /\ J \cap joined[t] = {}
    /\ posted' = [posted EXCEPT ![t] = @ + 1]
    /\ members' = [members EXCEPT ![t] = @ \cup J]
    /\ joined' = [joined EXCEPT ![t] = @ \cup J]
    /\ owed' = [owed EXCEPT ![t] = members[t] \cup J]
    /\ UNCHANGED got

\* The last event reaches a member that is owed it.
Deliver(t, s) ==
    /\ s \in owed[t]
    /\ owed' = [owed EXCEPT ![t] = @ \ {s}]
    /\ got' = [got EXCEPT ![s] = Append(@, <<t, posted[t]>>)]
    /\ UNCHANGED <<posted, members, joined>>

\* A member leaves; it is no longer owed anything.
Leave(t, s) ==
    /\ s \in members[t]
    /\ members' = [members EXCEPT ![t] = @ \ {s}]
    /\ owed' = [owed EXCEPT ![t] = @ \ {s}]
    /\ UNCHANGED <<posted, joined, got>>

\* The type is closed between two events.
Close(t) ==
    /\ owed[t] = {}
    /\ members' = [members EXCEPT ![t] = {}]
    /\ UNCHANGED <<posted, joined, owed, got>>

Next ==
    \E t \in Types :
        \/ \E J \in SUBSET Subs : Publish(t, J)
        \/ \E s \in Subs : Deliver(t, s) \/ Leave(t, s)
        \/ Close(t)

Spec == Init /\ [][Next]_vars

----------------------------------------------------------------------------
\* s was given event number n of type t.
Has(s, t, n) == \E i \in 1..Len(got[s]) : got[s][i] = <<t, n>>

\* Every subscription sees the events of a type in publication order, and none
\* of them twice (feed.send serialises senders and deactivates a served case).
InOrder ==
    \A s \in Subs : \A i, j \in 1..Len(got[s]) :
        i < j /\ got[s][i][1] = got[s][j][1] => got[s][i][2] < got[s][j][2]

\* No subscription misses an event between two events of a type it was given.
NoGap ==
    \A s \in Subs, t \in Types : \A m, n, k \in 1..posted[t] :
        m < k /\ k < n /\ Has(s, t, m) /\ Has(s, t, n) => Has(s, t, k)

\* When no member is owed the last event, every member has it
\* (feed.send returns only after each case was sent to or removed).
Complete ==
    \A t \in Types : posted[t] > 0 =>
        \A s \in members[t] \ owed[t] : Has(s, t, posted[t])
=============================================================================
