------------------------------ MODULE EventMux ------------------------------
(***************************************************************************)
(* The in-process event hub (package event): TypeMux, its feeds, one per   *)
(* event type, and the subscriptions whose buffered channels the feeds     *)
(* send into.  Every goroutine is a process with a program counter:        *)
(* posters call Post, subscribers call Subscribe, receive and Unsubscribe, *)
(* stoppers call Stop.  One action is one stretch of code between two      *)
(* points where another goroutine can be seen: a mutex, a channel          *)
(* operation, or an unsynchronised read.                                   *)
(*                                                                         *)
(* A caseList is a sequence of subscribers: sendCases[t] lists the         *)
(* subscription cases (the removeSub case at index 0 is implicit) and the  *)
(* slice `cases' of a running send is its prefix of length act[t], because *)
(* deactivate swaps inside the array that both slices share.               *)
(***************************************************************************)
EXTENDS Naturals, Sequences, FiniteSets, Functions

CONSTANTS
    Types,      \* event types, one feed each
    Posters,    \* goroutines that call Post
    Subs,       \* subscriptions, each owned by one goroutine
    Stoppers,   \* goroutines that call Stop
    Leavers,    \* subscribers that call Unsubscribe; the others stay
    Wants,      \* the types each subscriber passes to Subscribe
    Cap,        \* CHAN_BUFFER
    MaxPosts,   \* bound: Post calls per poster
    None        \* no goroutine

Procs == Posters \cup Subs \cup Stoppers
Free == "free"          \* the sendLock token is in the channel
Closed == "closed"      \* the sendLock channel is closed

ASSUME EventAssumption ==
    /\ Leavers \subseteq Subs
    /\ Wants \in [Subs -> SUBSET Types]
    /\ Cap \in Nat \ {0}
    /\ MaxPosts \in Nat
    /\ Posters \cap Subs = {}
    /\ Posters \cap Stoppers = {}
    /\ Subs \cap Stoppers = {}
    /\ IsFiniteSet(Subs)
    /\ {None, Free, Closed} \cap Procs = {}
    /\ None \notin Types

VARIABLES
    pc,         \* where each goroutine is
    wr,         \* TypeMux.mu: the goroutine in Lock, waiting or inside, or None
    readers,    \* TypeMux.mu: the goroutines holding RLock
    feeds,      \* TypeMux.feeds: the types that have a feed
    stopped,    \* TypeMux.stopped
    subs,       \* feed.subs: the backing array, stale slots included
    nsubs,      \* feed.subs: its length
    msgBox,     \* feed.msgBox
    sendCases,  \* feed.sendCases without the removeSub case
    act,        \* length of the local slice `cases' of the running send
    sendLock,   \* feed.sendLock: Free, Closed, or the holder of the token
    fmu,        \* feed.mu: its holder, or None
    closed,     \* feed.closed
    chan,       \* muxSub.channel: the buffered events <<type, number>>
    chClosed,   \* muxSub.closed
    typ,        \* the type (feed) a goroutine is working on
    todo,       \* feeds a goroutine still has to visit in its loop
    pos,        \* index of the loop a goroutine is in
    len,        \* length of feed.subs when the scan in find began
    left,       \* Post calls a poster may still make
    panicked,   \* a goroutine has panicked: the process is dead
    posted,     \* history: sends started per type
    joined,     \* history: subscribers that have been in sendCases
    recvd       \* history: the events each subscriber has received

muxVars == <<wr, readers, feeds, stopped>>
feedVars == <<subs, nsubs, msgBox, sendCases, act, sendLock, fmu, closed>>
subVars == <<chan, chClosed, recvd>>
localVars == <<typ, todo, pos, len, left>>
histVars == <<posted, joined>>
vars == <<pc, muxVars, feedVars, subVars, localVars, panicked, histVars>>

Init ==
    /\ pc = [p \in Procs |-> "idle"]
    /\ wr = None /\ readers = {}
    /\ feeds = {} /\ stopped = FALSE
    /\ subs = [t \in Types |-> <<>>]
    /\ nsubs = [t \in Types |-> 0]
    /\ msgBox = [t \in Types |-> <<>>]
    /\ sendCases = [t \in Types |-> <<>>]
    /\ act = [t \in Types |-> 0]
    /\ sendLock = [t \in Types |-> Free]
    /\ fmu = [t \in Types |-> None]
    /\ closed = [t \in Types |-> FALSE]
    /\ chan = [s \in Subs |-> <<>>]
    /\ chClosed = [s \in Subs |-> FALSE]
    /\ typ = [p \in Procs |-> None]
    /\ todo = [p \in Procs |-> {}]
    /\ pos = [p \in Procs |-> 1]
    /\ len = [s \in Subs |-> 0]
    /\ left = [p \in Posters |-> MaxPosts]
    /\ panicked = FALSE
    /\ posted = [t \in Types |-> 0]
    /\ joined = [t \in Types |-> {}]
    /\ recvd = [s \in Subs |-> <<>>]

----------------------------------------------------------------------------
\* Goroutine p of the running process has reached l.
At(p, l) == pc[p] = l /\ ~panicked
Goto(p, l) == pc' = [pc EXCEPT ![p] = l]

\* A panic in any goroutine ends the process; nothing else happens.
Panic ==
    /\ panicked' = TRUE
    /\ UNCHANGED <<pc, muxVars, feedVars, subVars, localVars, histVars>>

\* caseList.find; del of a case that find missed is del(-1).
Found(c, s) == \E i \in 1..Len(c) : c[i] = s
Find(c, s) == CHOOSE i \in 1..Len(c) : c[i] = s
\* Mutant: del drops the last case instead of case i.
DelLast(c, i) == SubSeq(c, 1, Len(c) - 1)

\* caseList.del
Del(c, i) == SubSeq(c, 1, i - 1) \o SubSeq(c, i + 1, Len(c))

\* Mutants: deactivate overwrites case i, or forgets to move it out.
SwapOverwrite(c, i, n) == [c EXCEPT ![i] = c[n]]
SwapNothing(c, i, n) == c

\* caseList.deactivate(i) on the prefix of length n of c.
Swap(c, i, n) == [c EXCEPT ![i] = c[n], ![n] = c[i]]

\* feed.del: shift the tail over index i; the last slot keeps its old value.
Shift(a, i, n) == [j \in 1..Len(a) |-> IF i <= j /\ j < n THEN a[j + 1] ELSE a[j]]

----------------------------------------------------------------------------
(* sync.RWMutex: a writer in Lock stops new readers at once, and enters     *)
(* when the readers that were in have left.                                 *)
CanRLock == wr = None
CanLock == wr = None
ReadersGone == readers = {}

(* TypeMux.Subscribe *)
SubscribeLock(s) ==
    /\ At(s, "idle") /\ CanLock
    /\ wr' = s
    /\ Goto(s, "subscribe")
    /\ UNCHANGED <<readers, feeds, stopped, feedVars, subVars, localVars, panicked, histVars>>

SubscribeEnter(s) ==
    /\ At(s, "subscribe") /\ ReadersGone
    /\ IF stopped
       THEN /\ chClosed' = [chClosed EXCEPT ![s] = TRUE]
            /\ Goto(s, "live")
            /\ wr' = None
            /\ UNCHANGED todo
       ELSE /\ todo' = [todo EXCEPT ![s] = Wants[s]]
            /\ Goto(s, "add")
            /\ UNCHANGED <<chClosed, wr>>
    /\ UNCHANGED <<readers, feeds, stopped, feedVars, chan, recvd, typ, pos, len, left,
                   panicked, histVars>>

\* feed.add for the next type, creating the feed when the type is new.  No type is passed
\* twice to one Subscribe, so that add finds no duplicate.
SubscribeAdd(s, t) ==
    /\ At(s, "add") /\ t \in todo[s]
    /\ fmu[t] = None
    /\ feeds' = feeds \cup {t}
    /\ msgBox' = [msgBox EXCEPT ![t] = Append(@, s)]
    /\ subs' = [subs EXCEPT ![t] = Append(SubSeq(@, 1, nsubs[t]), s)]
    /\ nsubs' = [nsubs EXCEPT ![t] = @ + 1]
    /\ todo' = [todo EXCEPT ![s] = @ \ {t}]
    /\ UNCHANGED <<pc, wr, readers, stopped, sendCases, act, sendLock, fmu, closed,
                   subVars, typ, pos, len, left, panicked, histVars>>

SubscribeUnlock(s) ==
    /\ At(s, "add") /\ todo[s] = {}
    /\ wr' = None
    /\ Goto(s, "live")
    /\ UNCHANGED <<readers, feeds, stopped, feedVars, subVars, localVars, panicked, histVars>>

(* The owner of a subscription receives from Chan(). *)
Receive(s) ==
    /\ At(s, "live") /\ chan[s] # <<>>
    /\ recvd' = [recvd EXCEPT ![s] = Append(@, Head(chan[s]))]
    /\ chan' = [chan EXCEPT ![s] = Tail(@)]
    /\ UNCHANGED <<pc, muxVars, feedVars, chClosed, localVars, panicked, histVars>>

----------------------------------------------------------------------------
(* muxSub.Unsubscribe: TypeMux.del visits every feed under RLock *)
DelRLock(s) ==
    /\ At(s, "live") /\ s \in Leavers /\ CanRLock
    /\ readers' = readers \cup {s}
    /\ todo' = [todo EXCEPT ![s] = feeds]
    /\ Goto(s, "del")
    /\ UNCHANGED <<wr, feeds, stopped, feedVars, subVars, typ, pos, len, left, panicked, histVars>>

\* feed.find: range takes the slice header here; feed.mu is not held.
FindStart(s, t) ==
    /\ At(s, "del") /\ t \in todo[s]
    /\ typ' = [typ EXCEPT ![s] = t]
    /\ todo' = [todo EXCEPT ![s] = @ \ {t}]
    /\ pos' = [pos EXCEPT ![s] = 1]
    /\ len' = [len EXCEPT ![s] = nsubs[t]]
    /\ Goto(s, "find")
    /\ UNCHANGED <<muxVars, feedVars, subVars, left, panicked, histVars>>

\* One iteration of find, reading the array as it is now.
FindStep(s) ==
    LET t == typ[s] IN
    /\ At(s, "find")
    /\ \/ /\ pos[s] > len[s]
          /\ Goto(s, "del")
          /\ UNCHANGED pos
       \/ /\ pos[s] <= len[s] /\ subs[t][pos[s]] = s
          /\ Goto(s, "remove")
          /\ UNCHANGED pos
       \/ /\ pos[s] <= len[s] /\ subs[t][pos[s]] # s
          /\ pos' = [pos EXCEPT ![s] = @ + 1]
          /\ UNCHANGED pc
    /\ UNCHANGED <<muxVars, feedVars, subVars, typ, todo, len, left, panicked, histVars>>

\* feed.remove up to its Unlock: feed.del, then the msgBox.
RemoveLocked(s) ==
    LET t == typ[s]
        live == SubSeq(subs[t], 1, nsubs[t])
    IN
    /\ At(s, "remove") /\ fmu[t] = None
    /\ IF Found(live, s)
       THEN /\ subs' = [subs EXCEPT ![t] = Shift(@, Find(live, s), nsubs[t])]
            /\ nsubs' = [nsubs EXCEPT ![t] = @ - 1]
       ELSE UNCHANGED <<subs, nsubs>>
    /\ IF Found(msgBox[t], s)
       THEN /\ msgBox' = [msgBox EXCEPT ![t] = Del(@, Find(@, s))]
            /\ Goto(s, "del")
       ELSE /\ Goto(s, "removeSelect")
            /\ UNCHANGED msgBox
    /\ UNCHANGED <<muxVars, sendCases, act, sendLock, fmu, closed, subVars, localVars,
                   panicked, histVars>>

\* feed.remove: no send in progress, so take the token, delete, put it back.
RemoveUnderSendLock(s) ==
    LET t == typ[s] IN
    /\ At(s, "removeSelect") /\ sendLock[t] = Free
    /\ IF Found(sendCases[t], s)
       THEN /\ sendCases' = [sendCases EXCEPT ![t] = Del(@, Find(@, s))]
            /\ Goto(s, "del")
            /\ UNCHANGED <<muxVars, subs, nsubs, msgBox, act, sendLock, fmu, closed,
                           subVars, localVars, panicked, histVars>>
       ELSE Panic

\* feed.remove after feed.close: removeSub and sendLock are closed channels,
\* so either arm is ready; the first panics, the second runs del(-1).
RemoveAfterClose(s) ==
    /\ At(s, "removeSelect") /\ sendLock[typ[s]] = Closed
    /\ Panic

DelRUnlock(s) ==
    /\ At(s, "del") /\ todo[s] = {}
    /\ readers' = readers \ {s}
    /\ typ' = [typ EXCEPT ![s] = None]
    /\ pos' = [pos EXCEPT ![s] = 1]
    /\ len' = [len EXCEPT ![s] = 0]
    /\ Goto(s, "gone")
    /\ UNCHANGED <<wr, feeds, stopped, feedVars, subVars, todo, left, panicked, histVars>>

----------------------------------------------------------------------------
(* TypeMux.Post: read stopped and the feed under RLock, then feed.send *)
Post(p, t) ==
    /\ At(p, "idle") /\ left[p] > 0 /\ CanRLock
    /\ left' = [left EXCEPT ![p] = @ - 1]
    /\ IF stopped
       THEN \* return ErrMuxClosed without RUnlock
            /\ readers' = readers \cup {p}
            /\ UNCHANGED <<pc, typ>>
       ELSE /\ UNCHANGED readers
            /\ IF t \in feeds
               THEN Goto(p, "sendLock") /\ typ' = [typ EXCEPT ![p] = t]
               ELSE UNCHANGED <<pc, typ>>
    /\ UNCHANGED <<wr, feeds, stopped, feedVars, subVars, todo, pos, len, panicked, histVars>>

\* <-f.sendLock: the token, or at once when the channel is closed.
SendLock(p) ==
    LET t == typ[p] IN
    /\ At(p, "sendLock") /\ sendLock[t] \in {Free, Closed}
    /\ sendLock' = [sendLock EXCEPT ![t] = IF @ = Free THEN p ELSE @]
    /\ Goto(p, "merge")
    /\ UNCHANGED <<muxVars, subs, nsubs, msgBox, sendCases, act, fmu, closed, subVars,
                   localVars, panicked, histVars>>

\* Under feed.mu: return still holding it when closed, else take over the msgBox.
SendMerge(p) ==
    LET t == typ[p] IN
    /\ At(p, "merge") /\ fmu[t] = None
    /\ IF closed[t]
       THEN /\ fmu' = [fmu EXCEPT ![t] = p]
            /\ Goto(p, "idle")
            /\ typ' = [typ EXCEPT ![p] = None]
            /\ UNCHANGED <<msgBox, sendCases, act, pos, histVars>>
       ELSE /\ sendCases' = [sendCases EXCEPT ![t] = @ \o msgBox[t]]
            /\ msgBox' = [msgBox EXCEPT ![t] = <<>>]
            /\ act' = [act EXCEPT ![t] = Len(sendCases'[t])]
            /\ posted' = [posted EXCEPT ![t] = @ + 1]
            /\ joined' = [joined EXCEPT ![t] = @ \cup Range(msgBox[t])]
            /\ pos' = [pos EXCEPT ![p] = 1]
            /\ Goto(p, "try")
            /\ UNCHANGED <<fmu, typ>>
    /\ UNCHANGED <<muxVars, subs, nsubs, sendLock, closed, subVars, todo, len, left, panicked>>

HasRoom(s) == Len(chan[s]) < Cap

\* A value reaches the channel at index i of cases, which is then deactivated.
Deliver(t, i) ==
    LET s == sendCases[t][i] IN
    /\ chan' = [chan EXCEPT ![s] = Append(@, <<t, posted[t]>>)]
    /\ sendCases' = [sendCases EXCEPT ![t] = Swap(@, i, act[t])]
    /\ act' = [act EXCEPT ![t] = @ - 1]

\* Fast path: TrySend on the next case; sending on a closed channel panics.
TrySend(p) ==
    LET t == typ[p]
        s == sendCases[t][pos[p]]
    IN
    /\ At(p, "try") /\ pos[p] <= act[t]
    /\ \/ chClosed[s] /\ Panic
       \/ /\ ~chClosed[s] /\ HasRoom(s)
          /\ Deliver(t, pos[p])
          /\ UNCHANGED <<pc, muxVars, subs, nsubs, msgBox, sendLock, fmu, closed,
                         chClosed, recvd, localVars, panicked, histVars>>
       \/ /\ ~chClosed[s] /\ ~HasRoom(s)
          /\ pos' = [pos EXCEPT ![p] = @ + 1]
          /\ UNCHANGED <<pc, muxVars, feedVars, subVars, typ, todo, len, left, panicked, histVars>>

TryDone(p) ==
    LET t == typ[p] IN
    /\ At(p, "try") /\ pos[p] > act[t]
    /\ pos' = [pos EXCEPT ![p] = 1]
    /\ Goto(p, IF act[t] = 0 THEN "unlock" ELSE "select")
    /\ UNCHANGED <<muxVars, feedVars, subVars, typ, todo, len, left, panicked, histVars>>

\* reflect.Select chose a send case.
SelectSend(p, i) ==
    LET t == typ[p] IN
    /\ At(p, "select") /\ i <= act[t]
    /\ \/ chClosed[sendCases[t][i]] /\ Panic
       \/ /\ ~chClosed[sendCases[t][i]] /\ HasRoom(sendCases[t][i])
          /\ Deliver(t, i)
          /\ Goto(p, "try")
          /\ UNCHANGED <<muxVars, subs, nsubs, msgBox, sendLock, fmu, closed, chClosed, recvd,
                         localVars, panicked, histVars>>

\* Mutant: the select leaves out the removeSub case.
SelectRemoveNever(p, s) == FALSE

\* reflect.Select chose case 0: a goroutine in feed.remove hands over its
\* subscription on the unbuffered removeSub channel.
SelectRemove(p, s) ==
    LET t == typ[p] IN
    /\ At(p, "select") /\ At(s, "removeSelect") /\ typ[s] = t
    /\ IF Found(sendCases[t], s)
       THEN LET i == Find(sendCases[t], s) IN
            /\ sendCases' = [sendCases EXCEPT ![t] = Del(@, i)]
            /\ act' = [act EXCEPT ![t] = IF i <= @ THEN @ - 1 ELSE @]
            /\ pc' = [pc EXCEPT ![p] = "try", ![s] = "del"]
            /\ UNCHANGED <<muxVars, subs, nsubs, msgBox, sendLock, fmu, closed, subVars,
                           localVars, panicked, histVars>>
       ELSE Panic

SendUnlock(p) ==
    /\ At(p, "unlock")
    /\ sendLock' = [sendLock EXCEPT ![typ[p]] = Free]
    /\ typ' = [typ EXCEPT ![p] = None]
    /\ Goto(p, "idle")
    /\ UNCHANGED <<muxVars, subs, nsubs, msgBox, sendCases, act, fmu, closed, subVars, todo,
                   pos, len, left, panicked, histVars>>

----------------------------------------------------------------------------
(* TypeMux.Stop: close every feed under Lock *)
StopLock(p) ==
    /\ At(p, "idle") /\ CanLock
    /\ wr' = p
    /\ Goto(p, "stop")
    /\ UNCHANGED <<readers, feeds, stopped, feedVars, subVars, localVars, panicked, histVars>>

StopEnter(p) ==
    /\ At(p, "stop") /\ ReadersGone
    /\ IF stopped
       THEN Goto(p, "gone") /\ wr' = None /\ UNCHANGED todo
       ELSE Goto(p, "close") /\ todo' = [todo EXCEPT ![p] = feeds] /\ UNCHANGED wr
    /\ UNCHANGED <<readers, feeds, stopped, feedVars, subVars, typ, pos, len, left,
                   panicked, histVars>>

\* feed.close waits for the token of the running send.
CloseLock(p, t) ==
    /\ At(p, "close") /\ t \in todo[p] /\ sendLock[t] = Free
    /\ sendLock' = [sendLock EXCEPT ![t] = p]
    /\ todo' = [todo EXCEPT ![p] = @ \ {t}]
    /\ typ' = [typ EXCEPT ![p] = t]
    /\ Goto(p, "closeFeed")
    /\ UNCHANGED <<muxVars, subs, nsubs, msgBox, sendCases, act, fmu, closed, subVars, pos,
                   len, left, panicked, histVars>>

CloseFeed(p) ==
    LET t == typ[p]
        live == {subs[t][i] : i \in 1..nsubs[t]}
    IN
    /\ At(p, "closeFeed") /\ fmu[t] = None
    /\ sendCases' = [sendCases EXCEPT ![t] = <<>>]
    /\ chClosed' = [s \in Subs |-> chClosed[s] \/ s \in live]
    /\ closed' = [closed EXCEPT ![t] = TRUE]
    /\ sendLock' = [sendLock EXCEPT ![t] = Closed]
    /\ Goto(p, "close")
    /\ UNCHANGED <<muxVars, subs, nsubs, msgBox, act, fmu, chan, recvd, localVars, panicked,
                   histVars>>

StopUnlock(p) ==
    /\ At(p, "close") /\ todo[p] = {}
    /\ stopped' = TRUE
    /\ wr' = None
    /\ typ' = [typ EXCEPT ![p] = None]
    /\ Goto(p, "gone")
    /\ UNCHANGED <<readers, feeds, feedVars, subVars, todo, pos, len, left, panicked, histVars>>

----------------------------------------------------------------------------
SubStep(s) ==
    \/ SubscribeLock(s) \/ SubscribeEnter(s) \/ SubscribeUnlock(s)
    \/ \E t \in Types : SubscribeAdd(s, t)
DelStep(s) ==
    \/ DelRLock(s) \/ FindStep(s) \/ RemoveLocked(s) \/ RemoveUnderSendLock(s)
    \/ RemoveAfterClose(s) \/ DelRUnlock(s)
    \/ \E t \in Types : FindStart(s, t)
SendStep(p) ==
    \/ SendLock(p) \/ SendMerge(p) \/ TrySend(p) \/ TryDone(p) \/ SendUnlock(p)
    \/ \E i \in 1..Cardinality(Subs) : SelectSend(p, i)
    \/ \E s \in Subs : SelectRemove(p, s)
StopStep(p) ==
    \/ StopLock(p) \/ StopEnter(p) \/ CloseFeed(p) \/ StopUnlock(p)
    \/ \E t \in Types : CloseLock(p, t)

\* Every goroutine has finished and nothing is left to receive.
Finished ==
    /\ \A p \in Posters : At(p, "idle") /\ left[p] = 0
    /\ \A s \in Subs : IF s \in Leavers THEN At(s, "gone") ELSE At(s, "live") /\ chan[s] = <<>>
    /\ \A p \in Stoppers : At(p, "gone")
    /\ UNCHANGED vars

Next ==
    \/ \E s \in Subs : SubStep(s) \/ Receive(s) \/ DelStep(s)
    \/ \E p \in Posters : SendStep(p) \/ \E t \in Types : Post(p, t)
    \/ \E p \in Stoppers : StopStep(p)
    \/ Finished

Spec == Init /\ [][Next]_vars

----------------------------------------------------------------------------
Labels == {"idle", "subscribe", "add", "live", "del", "find", "remove", "removeSelect",
           "gone", "sendLock", "merge", "try", "select", "unlock", "stop", "close", "closeFeed"}

TypeOK ==
    /\ pc \in [Procs -> Labels]
    /\ wr \in Procs \cup {None} /\ readers \subseteq Procs
    /\ feeds \subseteq Types /\ stopped \in BOOLEAN
    /\ subs \in [Types -> Seq(Subs)] /\ nsubs \in [Types -> Nat]
    /\ msgBox \in [Types -> Seq(Subs)] /\ sendCases \in [Types -> Seq(Subs)]
    /\ act \in [Types -> Nat]
    /\ sendLock \in [Types -> Procs \cup {Free, Closed}]
    /\ fmu \in [Types -> Procs \cup {None}] /\ closed \in [Types -> BOOLEAN]
    /\ chan \in [Subs -> Seq(Types \X Nat)] /\ chClosed \in [Subs -> BOOLEAN]
    /\ typ \in [Procs -> Types \cup {None}] /\ todo \in [Procs -> SUBSET Types]
    /\ pos \in [Procs -> Nat] /\ len \in [Subs -> Nat] /\ left \in [Posters -> Nat]
    /\ panicked \in BOOLEAN
    /\ posted \in [Types -> Nat] /\ joined \in [Types -> SUBSET Subs]
    /\ recvd \in [Subs -> Seq(Types \X Nat)]

\* The feeds implement an ordered broadcast: see Broadcast.
Members == [t \in Types |-> Range(sendCases[t])]
Owed == [t \in Types |-> {sendCases[t][i] : i \in 1..act[t]}]
Got == [s \in Subs |-> recvd[s] \o chan[s]]

B == INSTANCE Broadcast WITH members <- Members, owed <- Owed, got <- Got

\* Senders, receivers, leavers and Stop together implement the ordered
\* broadcast (feed.go:117-172, 96-115, 193-208), so that the channels keep what
\* Broadcast promises: order, no repetition, no gap and no event left out.
ImplementsBroadcast == B!Spec

\* The list slots a subscription occupies in the feed of type t.
Slots(s, t) == {<<"box", i>> : i \in {j \in 1..Len(msgBox[t]) : msgBox[t][j] = s}}
               \cup {<<"case", i>> : i \in {j \in 1..Len(sendCases[t]) : sendCases[t][j] = s}}

\* s has not been taken out of the feed of type t.
Kept(s, t) ==
    /\ t \in Wants[s] /\ ~chClosed[s]
    /\ \/ At(s, "live")
       \/ At(s, "add") /\ t \notin todo[s]
       \/ At(s, "del") /\ t \in todo[s]
       \/ pc[s] \in {"find", "remove", "removeSelect"} /\ (typ[s] = t \/ t \in todo[s])

\* A subscription sits in exactly one of msgBox and sendCases, once, until
\* its own remove takes it out; so find in remove and in send cannot miss it
\* (feed.go:108-114, 155-157).  The types of the variables go with it.
RegisteredOnce ==
    /\ TypeOK
    /\ \A t \in Types : ~closed[t] => \A s \in Subs :
        /\ Cardinality(Slots(s, t)) <= 1
        /\ Kept(s, t) => Slots(s, t) # {}

\* Until somebody calls Stop no goroutine panics in the hub: no del(-1), no send
\* on a closed channel.
NoPanic == panicked => \E p \in Stoppers : pc[p] # "idle"

\* When Unsubscribe has returned, no feed sends to the subscription any more
\* (subscription.go:6, "Remove the target channel").
UnsubscribeRemoves == \A s \in Subs, t \in Types : At(s, "gone") => Slots(s, t) = {}

----------------------------------------------------------------------------
(* Fairness.  The Go scheduler runs every runnable goroutine, and mutexes   *)
(* and channels hand over in FIFO order, so a goroutine whose operation is  *)
(* enabled again and again gets through.  Whether to call Post, Subscribe   *)
(* or Stop is the caller's choice and is not fair.  A subscriber either     *)
(* stays and keeps receiving, or is a leaver and in the end unsubscribes.   *)
Fairness ==
    /\ \A p \in Posters : SF_vars(SendStep(p))
    /\ \A s \in Subs :
        /\ SF_vars(SubscribeEnter(s) \/ SubscribeUnlock(s) \/ \E t \in Types : SubscribeAdd(s, t))
        /\ SF_vars(DelStep(s))
        /\ s \notin Leavers => WF_vars(Receive(s))
    /\ \A p \in Stoppers :
        SF_vars(StopEnter(p) \/ CloseFeed(p) \/ StopUnlock(p) \/ \E t \in Types : CloseLock(p, t))

FairSpec == Spec /\ Fairness

\* Every call returns when the subscribers receive or unsubscribe: a Post
\* (event_test.go TestUnsubscribeUnblockPost); an Unsubscribe, which gets out of the
\* hub; and a Subscribe, which needs the write lock, whoever posts or leaves under
\* the read lock (event.go:31-53).
CallsReturn ==
    /\ \A p \in Posters : pc[p] # "idle" ~> pc[p] = "idle"
    /\ \A s \in Leavers : pc[s] = "del" ~> pc[s] = "gone"
    /\ \A s \in Subs : pc[s] = "subscribe" ~> pc[s] = "live"
=============================================================================
