-------------------------- MODULE HeaderPoolProofs --------------------------
(***************************************************************************)
(* ValidateHeaders, for every number of headers and workers.  Why the      *)
(* verdicts are right: errs[i] is written before i is sent to done and is  *)
(* only ever written by a worker that holds i.  Why nothing is in flight   *)
(* when the feeder returns: an index that was handed out is in exactly one *)
(* place, with one worker, once in done, or checked.                       *)
(***************************************************************************)
EXTENDS HeaderPool, SequenceTheorems, FiniteSetTheorems, TLAPS

Holds(w) == worker[w] \in {"validate", "report"}

\* The verdicts, as a function of the index.
Verdicts == [i \in Index |-> Verdict(i)]

\* errs[i] has the verdict from before i is sent to done.
Written ==
    /\ \A w \in Workers : worker[w] = "report" => errs[index[w]] = Verdicts[index[w]]
    /\ \A k \in 1..Len(done) : errs[done[k]] = Verdicts[done[k]]
    /\ \A i \in Index : checked[i] => errs[i] = Verdicts[i]

\* What was sent, and how far the feeder is.
Sent ==
    /\ Len(errorsOut) = IF feeder = "returned" THEN N ELSE out
    /\ \A i \in 1..Len(errorsOut) : errorsOut[i] = Verdicts[i - 1]
    /\ \A i \in Index : i < out => checked[i]
    /\ feeder = "returned" => out = N - 1 /\ checked[out]

\* An index that was handed out is in one place.
OnePlace ==
    /\ inputs = "chan" => in < N
    /\ \A w \in Workers : Holds(w) =>
          /\ index[w] < in /\ ~checked[index[w]]
          /\ \A v \in Workers : Holds(v) /\ index[v] = index[w] => v = w
          /\ \A k \in 1..Len(done) : done[k] # index[w]
    /\ \A k \in 1..Len(done) :
          /\ done[k] < in /\ ~checked[done[k]]
          /\ \A l \in 1..Len(done) : done[l] = done[k] => l = k
    /\ \A i \in Index : checked[i] => i < in

Inv == TypeOK /\ Written /\ Sent /\ OnePlace

\* The verdicts depend on the arguments alone, and each is an error or nil.
LEMMA VerdictsFixed ==
    /\ UNCHANGED args => Verdicts' = Verdicts
    /\ \A i \in Index : Verdicts[i] = Verdict(i) /\ Verdicts[i] \in Errors
<1>1. UNCHANGED args => Verdicts' = Verdicts
  BY DEF args, Verdicts, Verdict, Parent
<1>2. \A i \in Index : Verdicts[i] = Verdict(i)
  BY DEF Verdicts
<1>3. \A i \in Index : Verdict(i) \in Errors
  BY DEF Verdict, validateHeader, Errors
<1> QED
  BY <1>1, <1>2, <1>3

\* Before any worker starts nothing is written, sent or handed out.
LEMMA InitInv == Init => Inv
<1> SUFFICES ASSUME Init PROVE Inv
  OBVIOUS
<1>1. TypeOK
  <2>1. 0 \in Index /\ 0 \in 0..N
    BY PoolAssumption DEF Index
  <2>2. <<>> \in Seq(Index) /\ <<>> \in Seq(Errors \cup {Unset})
    OBVIOUS
  <2> QED
    BY <2>1, <2>2 DEF Init, TypeOK
<1>2. Len(done) = 0 /\ Len(errorsOut) = 0
  BY DEF Init
<1>3. Written /\ Sent /\ OnePlace
  BY <1>2, PoolAssumption DEF Init, Written, Sent, OnePlace, Holds, Index
<1> QED
  BY <1>1, <1>3 DEF Inv

\* Every step keeps the types.
LEMMA TypePreserved == Inv /\ [Next]_vars => TypeOK'
<1> SUFFICES ASSUME Inv, [Next]_vars PROVE TypeOK'
  OBVIOUS
<1>0. TypeOK /\ N \in Nat \ {0}
  BY PoolAssumption DEF Inv
<1>1. ASSUME NEW w \in Workers, WorkerStarts(w) PROVE TypeOK'
  BY <1>0, <1>1 DEF WorkerStarts, TypeOK, args, feederVars
<1>2. ASSUME NEW w \in Workers, Hand(w) PROVE TypeOK'
  <2>1. in \in Index /\ in + 1 \in 0..N
    BY <1>0, <1>2 DEF Hand, Inv, OnePlace, TypeOK, Index
  <2> QED
    BY <1>0, <1>2, <2>1 DEF Hand, TypeOK, args
<1>3. ASSUME NEW w \in Workers, Validate(w) PROVE TypeOK'
  <2>1. Verdict(index[w]) \in Errors
    BY <1>0, VerdictsFixed DEF TypeOK
  <2> QED
    BY <1>0, <1>3, <2>1 DEF Validate, TypeOK, args, feederVars
<1>4. ASSUME NEW w \in Workers, Report(w) PROVE TypeOK'
  BY <1>0, <1>4 DEF Report, TypeOK, args, feederVars
<1>5. ASSUME NEW w \in Workers, WorkerEnds(w) PROVE TypeOK'
  BY <1>0, <1>5 DEF WorkerEnds, TypeOK, args, feederVars
<1>6. CASE Take
  BY <1>0, <1>6 DEF Take, TypeOK, args, workerVars
<1>7. CASE Emit
  <2>1. out' \in Index
    BY <1>0, <1>7 DEF Emit, TypeOK, Index
  <2>2. errorsOut' \in Seq(Errors \cup {Unset})
    BY <1>0, <1>7 DEF Emit, TypeOK
  <2>3. closed' \in BOOLEAN /\ feeder' \in {"select", "emit", "returned"}
    BY <1>0, <1>7 DEF Emit, TypeOK
  <2> QED
    BY <1>0, <1>7, <2>1, <2>2, <2>3 DEF Emit, TypeOK, args, workerVars
<1>8. CASE EmitEnds
  BY <1>0, <1>8 DEF EmitEnds, TypeOK, args, workerVars
<1>9. CASE UNCHANGED vars
  BY <1>0, <1>9 DEF vars, TypeOK, args, workerVars, feederVars
<1> QED
  BY <1>1, <1>2, <1>3, <1>4, <1>5, <1>6, <1>7, <1>8, <1>9 DEF Next

\* Every step keeps what is written: an index moves from a worker to done to
\* checked only with its verdict in errs, and a later write is of the same verdict.
LEMMA WrittenPreserved == Inv /\ TypeOK' /\ [Next]_vars => Written'
<1> SUFFICES ASSUME Inv, TypeOK', [Next]_vars PROVE Written'
  OBVIOUS
<1>0. TypeOK /\ Written /\ OnePlace
  BY DEF Inv
<1>f. UNCHANGED args => Verdicts' = Verdicts
  BY VerdictsFixed
<1>1. ASSUME NEW w \in Workers, WorkerStarts(w) PROVE Written'
  BY <1>0, <1>1, <1>f DEF WorkerStarts, TypeOK, Written, feederVars
<1>2. ASSUME NEW w \in Workers, Hand(w) PROVE Written'
  BY <1>0, <1>2, <1>f DEF Hand, TypeOK, Written
<1>3. ASSUME NEW w \in Workers, Validate(w) PROVE Written'
  <2>1. CASE UNCHANGED <<errs, worker>>
    BY <1>0, <1>3, <2>1, <1>f DEF Validate, Written, feederVars
  <2>2. CASE /\ errs' = [errs EXCEPT ![index[w]] = Verdict(index[w])]
             /\ worker' = [worker EXCEPT ![w] = "report"]
    <3>1. Verdict(index[w]) = Verdicts[index[w]]
      BY <1>0, VerdictsFixed DEF TypeOK
    <3>2. \A i \in Index : errs'[i] = IF i = index[w] THEN Verdicts[i] ELSE errs[i]
      BY <1>0, <2>2, <3>1 DEF TypeOK
    <3>3. \A v \in Workers : worker'[v] = "report" => v = w \/ worker[v] = "report"
      BY <1>0, <2>2 DEF TypeOK
    <3>4. \A k \in 1..Len(done) : done[k] \in Index
      BY <1>0, ElementOfSeq DEF TypeOK
    <3>5. UNCHANGED <<args, done, checked, index>>
      BY <1>3 DEF Validate, feederVars
    <3>6. index[w] \in Index /\ \A v \in Workers : index[v] \in Index
      BY <1>0 DEF TypeOK
    <3> QED
      BY <1>0, <3>2, <3>3, <3>4, <3>5, <3>6, <1>f DEF Written
  <2> QED
    BY <1>3, <2>1, <2>2 DEF Validate
<1>4. ASSUME NEW w \in Workers, Report(w) PROVE Written'
  <2>1. /\ Len(done') = Len(done) + 1 /\ Len(done) \in Nat
        /\ \A k \in 1..Len(done') :
              done'[k] = IF k = Len(done) + 1 THEN index[w] ELSE done[k]
    BY <1>0, <1>4 DEF Report, TypeOK
  <2>2. \A v \in Workers : worker'[v] = "report" => worker[v] = "report"
    BY <1>0, <1>4 DEF Report, TypeOK
  <2>3. UNCHANGED <<args, errs, checked, index>> /\ worker[w] = "report"
    BY <1>4 DEF Report, feederVars
  <2> QED
    BY <1>0, <2>1, <2>2, <2>3, <1>f DEF Written
<1>5. ASSUME NEW w \in Workers, WorkerEnds(w) PROVE Written'
  BY <1>0, <1>5, <1>f DEF WorkerEnds, TypeOK, Written, feederVars
<1>6. CASE Take
  <2>1. /\ Len(done) \in Nat /\ Len(done) > 0 /\ Len(done') = Len(done) - 1
        /\ \A k \in 1..Len(done') : done'[k] = done[k + 1]
        /\ Head(done) = done[1] /\ done[1] \in Index
    BY <1>0, <1>6 DEF Take, TypeOK
  <2>2. \A i \in Index : checked'[i] => i = done[1] \/ checked[i]
    BY <1>0, <1>6, <2>1 DEF Take, TypeOK
  <2>3. UNCHANGED <<args, errs, worker, index>>
    BY <1>6 DEF Take, workerVars
  <2> QED
    BY <1>0, <2>1, <2>2, <2>3, <1>f DEF Written
<1>7. CASE Emit
  BY <1>0, <1>7, <1>f DEF Emit, Written, workerVars
<1>8. CASE EmitEnds
  BY <1>0, <1>8, <1>f DEF EmitEnds, Written, workerVars
<1>9. CASE UNCHANGED vars
  BY <1>0, <1>9, <1>f DEF vars, Written, workerVars, feederVars
<1> QED
  BY <1>1, <1>2, <1>3, <1>4, <1>5, <1>6, <1>7, <1>8, <1>9 DEF Next

\* Only Emit sends, and it sends the verdict of the next header.
LEMMA SentPreserved == Inv /\ TypeOK' /\ [Next]_vars => Sent'
<1> SUFFICES ASSUME Inv, TypeOK', [Next]_vars PROVE Sent'
  OBVIOUS
<1>0. TypeOK /\ Written /\ Sent /\ N \in Nat \ {0}
  BY PoolAssumption DEF Inv
<1>f. UNCHANGED args => Verdicts' = Verdicts
  BY VerdictsFixed
<1>1. ASSUME UNCHANGED <<args, feederVars>> PROVE Sent'
  BY <1>0, <1>1, <1>f DEF Sent, feederVars
<1>2. ASSUME NEW w \in Workers, Hand(w) PROVE Sent'
  BY <1>0, <1>2, <1>f DEF Hand, Sent
<1>3. CASE Take
  <2>1. \A i \in Index : checked[i] => checked'[i]
    BY <1>0, <1>3 DEF Take, TypeOK
  <2>2. UNCHANGED <<args, out, errorsOut>> /\ feeder = "select" /\ feeder' = "emit"
    BY <1>3 DEF Take
  <2> QED
    BY <1>0, <2>1, <2>2, <1>f DEF Sent
<1>4. CASE Emit
  <2>1. /\ Len(errorsOut) = out /\ Len(errorsOut') = out + 1 /\ out \in Nat
        /\ \A i \in 1..(out + 1) :
              errorsOut'[i] = IF i = out + 1 THEN errs[out] ELSE errorsOut[i]
    BY <1>0, <1>4 DEF Emit, Sent, TypeOK, Index
  <2>2. errs[out] = Verdicts[out] /\ out \in Index /\ checked[out]
    BY <1>0, <1>4 DEF Emit, Written, TypeOK
  <2>3. \A i \in 1..Len(errorsOut') : errorsOut'[i] = Verdicts'[i - 1]
    BY <1>0, <1>4, <2>1, <2>2, <1>f DEF Emit, Sent
  <2>4. CASE out = N - 1
    <3>1. feeder' = "returned" /\ out' = out /\ checked' = checked
      BY <1>4, <2>4 DEF Emit
    <3> QED
      BY <1>0, <2>1, <2>2, <2>3, <2>4, <3>1 DEF Sent
  <2>5. CASE out # N - 1
    <3>1. feeder = "emit" /\ feeder' = feeder /\ out' = out + 1 /\ checked' = checked
      BY <1>4, <2>5 DEF Emit
    <3>2. \A i \in Index : i < out + 1 => checked[i]
      BY <1>0, <2>1, <2>2 DEF Sent, Index
    <3> QED
      BY <2>1, <2>3, <3>1, <3>2 DEF Sent
  <2> QED
    BY <2>4, <2>5
<1>5. CASE EmitEnds
  BY <1>0, <1>5, <1>f DEF EmitEnds, Sent
<1>6. ASSUME NEW w \in Workers, WorkerStarts(w) \/ Validate(w) \/ Report(w) \/ WorkerEnds(w)
      PROVE  Sent'
  BY <1>1, <1>6 DEF WorkerStarts, Validate, Report, WorkerEnds, args, feederVars
<1>7. CASE UNCHANGED vars
  BY <1>1, <1>7 DEF vars, args, feederVars
<1> QED
  BY <1>2, <1>3, <1>4, <1>5, <1>6, <1>7 DEF Next

\* An index stays in one place: Hand takes a fresh one, Report moves it from a worker
\* to done, Take from done to checked.
LEMMA OnePlacePreserved == Inv /\ TypeOK' /\ [Next]_vars => OnePlace'
<1> SUFFICES ASSUME Inv, TypeOK', [Next]_vars PROVE OnePlace'
  OBVIOUS
<1>0. TypeOK /\ OnePlace /\ N \in Nat \ {0}
  BY PoolAssumption DEF Inv
<1>1. ASSUME UNCHANGED <<inputs, in, index, done, checked>>,
             \A w \in Workers : Holds(w)' => Holds(w)
      PROVE  OnePlace'
  BY <1>0, <1>1 DEF OnePlace
<1>2. ASSUME NEW w \in Workers, Hand(w) PROVE OnePlace'
  <2>1. in \in Index /\ in' = in + 1 /\ (inputs' = "chan" => in' < N) /\ UNCHANGED <<done, checked>>
    BY <1>0, <1>2 DEF Hand, OnePlace, TypeOK, Index
  <2>2. \A v \in Workers : index'[v] = IF v = w THEN in ELSE index[v]
    BY <1>0, <1>2 DEF Hand, TypeOK
  <2>3. \A v \in Workers : Holds(v)' <=> v = w \/ Holds(v)
    BY <1>0, <1>2 DEF Hand, TypeOK, Holds
  <2>4. \A v \in Workers : index[v] \in Int
    BY <1>0 DEF TypeOK, Index
  <2>5. \A k \in 1..Len(done) : done[k] \in Int /\ done[k] < in /\ done[k] # in
    BY <1>0, ElementOfSeq DEF OnePlace, TypeOK, Index
  <2>6. ~checked[in] /\ in \in Int
    BY <1>0, <2>1 DEF OnePlace, Index
  <2>7. \A v \in Workers : Holds(v) => index[v] < in /\ index[v] # in
    BY <1>0, <2>4, <2>6 DEF OnePlace
  <2>8. \A v \in Workers : Holds(v)' =>
          /\ index'[v] < in' /\ ~checked'[index'[v]]
          /\ \A u \in Workers : Holds(u)' /\ index'[u] = index'[v] => u = v
          /\ \A k \in 1..Len(done') : done'[k] # index'[v]
    BY <1>0, <2>1, <2>2, <2>3, <2>4, <2>5, <2>6, <2>7 DEF OnePlace
  <2>9. \A i \in Index : checked'[i] => i < in'
    BY <1>0, <2>1, <2>6 DEF OnePlace, Index
  <2>10. \A k \in 1..Len(done') :
          /\ done'[k] < in' /\ ~checked'[done'[k]]
          /\ \A l \in 1..Len(done') : done'[l] = done'[k] => l = k
    BY <1>0, <2>1, <2>5, <2>6 DEF OnePlace
  <2> QED
    BY <2>1, <2>8, <2>9, <2>10 DEF OnePlace
<1>3. ASSUME NEW w \in Workers, Report(w) PROVE OnePlace'
  <2>1. /\ Len(done') = Len(done) + 1 /\ Len(done) \in Nat
        /\ \A k \in 1..Len(done') :
              done'[k] = IF k = Len(done) + 1 THEN index[w] ELSE done[k]
    BY <1>0, <1>3 DEF Report, TypeOK
  <2>2. UNCHANGED <<inputs, in, index, checked>> /\ Holds(w)
    BY <1>3 DEF Report, feederVars, Holds
  <2>3. \A v \in Workers : Holds(v)' <=> v # w /\ Holds(v)
    BY <1>0, <1>3 DEF Report, TypeOK, Holds
  <2>4. \A v \in Workers : Holds(v)' =>
          /\ index'[v] < in' /\ ~checked'[index'[v]]
          /\ \A u \in Workers : Holds(u)' /\ index'[u] = index'[v] => u = v
          /\ \A k \in 1..Len(done') : done'[k] # index'[v]
    BY <1>0, <2>1, <2>2, <2>3 DEF OnePlace
  <2>5. \A k \in 1..Len(done') :
          /\ done'[k] < in' /\ ~checked'[done'[k]]
          /\ \A l \in 1..Len(done') : done'[l] = done'[k] => l = k
    BY <1>0, <2>1, <2>2 DEF OnePlace
  <2> QED
    BY <1>0, <2>2, <2>4, <2>5 DEF OnePlace
<1>4. CASE Take
  <2>1. /\ Len(done) \in Nat /\ Len(done) > 0 /\ Len(done') = Len(done) - 1
        /\ \A k \in 1..Len(done') : done'[k] = done[k + 1]
        /\ Head(done) = done[1] /\ done[1] \in Index
    BY <1>0, <1>4 DEF Take, TypeOK
  <2>2. \A i \in Index : checked'[i] <=> i = done[1] \/ checked[i]
    BY <1>0, <1>4, <2>1 DEF Take, TypeOK
  <2>3. UNCHANGED <<inputs, in, index>> /\ \A v \in Workers : Holds(v)' <=> Holds(v)
    BY <1>4 DEF Take, workerVars, Holds
  <2>4. \A v \in Workers : index[v] \in Index
    BY <1>0 DEF TypeOK
  <2>5. \A k \in 1..Len(done) : done[k] \in Index
    BY <1>0, ElementOfSeq DEF TypeOK
  <2>6. \A v \in Workers : Holds(v)' =>
          /\ index'[v] < in' /\ ~checked'[index'[v]]
          /\ \A u \in Workers : Holds(u)' /\ index'[u] = index'[v] => u = v
          /\ \A k \in 1..Len(done') : done'[k] # index'[v]
    BY <1>0, <2>1, <2>2, <2>3, <2>4 DEF OnePlace
  <2>7. \A k \in 1..Len(done') :
          /\ done'[k] < in' /\ ~checked'[done'[k]]
          /\ \A l \in 1..Len(done') : done'[l] = done'[k] => l = k
    BY <1>0, <2>1, <2>2, <2>3, <2>5 DEF OnePlace
  <2>8. \A i \in Index : checked'[i] => i < in'
    BY <1>0, <2>1, <2>2, <2>3 DEF OnePlace
  <2> QED
    BY <1>0, <2>3, <2>6, <2>7, <2>8 DEF OnePlace
<1>5. ASSUME NEW w \in Workers, WorkerStarts(w) \/ Validate(w) \/ WorkerEnds(w) PROVE OnePlace'
  <2>1. UNCHANGED <<inputs, in, index, done, checked>>
    BY <1>5 DEF WorkerStarts, Validate, WorkerEnds, feederVars
  <2>2. \A v \in Workers : Holds(v)' => Holds(v)
    BY <1>0, <1>5 DEF WorkerStarts, Validate, WorkerEnds, TypeOK, Holds
  <2> QED
    BY <1>1, <2>1, <2>2
<1>6. CASE Emit \/ EmitEnds \/ UNCHANGED vars
  BY <1>1, <1>6 DEF Emit, EmitEnds, vars, workerVars, feederVars, Holds
<1> QED
  BY <1>2, <1>3, <1>4, <1>5, <1>6 DEF Next

----------------------------------------------------------------------------
\* ValidateHeaders keeps its inductive invariant.
THEOREM HeaderPoolInv == Spec => []Inv
<1>1. Inv /\ [Next]_vars => Inv'
  BY TypePreserved, WrittenPreserved, SentPreserved, OnePlacePreserved DEF Inv
<1> QED
  BY InitInv, <1>1, PTL DEF Spec

\* For any number of headers and workers, the verdicts come out in the order of the
\* headers and each is the verdict on its own header.
THEOREM VerdictsInOrderCorrect == Spec => []VerdictsInOrder
<1>1. Inv => VerdictsInOrder
  <2> SUFFICES ASSUME Inv, NEW i \in 1..Len(errorsOut)
               PROVE  errorsOut[i] = Verdict(i - 1)
    BY DEF VerdictsInOrder
  <2>1. i - 1 \in Index
    BY PoolAssumption DEF Inv, Sent, TypeOK, Index
  <2> QED
    BY <2>1, VerdictsFixed DEF Inv, Sent
<1> QED
  BY HeaderPoolInv, <1>1, PTL

\* When the feeder returns no worker holds an index and done is empty, so that every
\* worker on the channel sees it closed.
THEOREM NothingInFlightCorrect == Spec => []NothingInFlight
<1>1. Inv => NothingInFlight
  <2> SUFFICES ASSUME Inv, feeder = "returned", NEW w \in Workers
               PROVE  ~Holds(w) /\ done = <<>>
    BY DEF NothingInFlight, Holds
  <2>1. \A i \in Index : checked[i]
    <3>1. \A i \in Index : i \in Int /\ (i < N - 1 \/ i = N - 1)
      BY PoolAssumption DEF Index
    <3> QED
      BY <3>1 DEF Inv, Sent
  <2>2. ~Holds(w)
    BY <2>1 DEF Inv, OnePlace, TypeOK
  <2>3. Len(done) = 0
    <3>1. Len(done) \in Nat /\ (Len(done) > 0 => done[1] \in Index)
      BY DEF Inv, TypeOK
    <3> QED
      BY <2>1, <3>1 DEF Inv, OnePlace
  <2> QED
    BY <2>2, <2>3, EmptySeq DEF Inv, TypeOK
<1> QED
  BY HeaderPoolInv, <1>1, PTL

\* A function that takes no value twice has as many values as arguments.
LEMMA ImageSize ==
    ASSUME NEW S, IsFiniteSet(S), NEW f, f \in [S -> Index],
           \A x, y \in S : f[x] = f[y] => x = y
    PROVE  LET T == {f[x] : x \in S}
           IN  IsFiniteSet(T) /\ Cardinality(T) = Cardinality(S) /\ T \subseteq Index
<1> DEFINE T == {f[x] : x \in S}
<1>1. f \in Surjection(S, T) /\ f \in Injection(S, T)
  BY DEF Surjection, Injection, IsInjective
<1>2. IsFiniteSet(T) /\ Cardinality(T) = Cardinality(S)
  <2> HIDE DEF T
  <2> QED
    BY <1>1, FS_Surjection
<1> QED
  BY <1>2

\* For any number of headers and workers, a worker that has an index to send finds
\* room in done: the indexes in done and with the workers are different headers.
THEOREM RoomToReportCorrect == Spec => []RoomToReport
<1>1. Inv => RoomToReport
  <2> SUFFICES ASSUME Inv PROVE RoomToReport
    OBVIOUS
  <2> DEFINE W == {w \in Workers : worker[w] = "report"}
             held == [w \in W |-> index[w]]
             R == {held[w] : w \in W}
             D == {done[k] : k \in 1..Len(done)}
  <2>1. N \in Nat /\ N > 0 /\ Len(done) \in Nat /\ done \in [1..Len(done) -> Index]
    BY PoolAssumption DEF Inv, TypeOK
  <2>2. IsFiniteSet(Index) /\ Cardinality(Index) = N
    BY <2>1, FS_Interval DEF Index
  <2>3. IsFiniteSet(1..Len(done)) /\ Cardinality(1..Len(done)) = Len(done)
    BY <2>1, FS_Interval
  <2>4. IsFiniteSet(D) /\ Cardinality(D) = Len(done) /\ D \subseteq Index
    <3>1. \A k, l \in 1..Len(done) : done[k] = done[l] => k = l
      BY DEF Inv, OnePlace
    <3> QED
      BY <2>1, <2>3, <3>1, ImageSize
  <2>5. IsFiniteSet(W)
    <3>1. \E n \in Nat : Workers = 1..n
      BY PoolAssumption DEF Workers
    <3>2. IsFiniteSet(Workers)
      BY <3>1, FS_Interval
    <3>3. W \in SUBSET Workers
      OBVIOUS
    <3> HIDE DEF W
    <3> QED
      BY <3>2, <3>3, FS_Subset
  <2>6. IsFiniteSet(R) /\ Cardinality(R) = Cardinality(W) /\ R \subseteq Index
    <3>1. held \in [W -> Index]
      BY DEF Inv, TypeOK
    <3>2. \A v, w \in W : held[v] = held[w] => v = w
      BY DEF Inv, OnePlace, Holds
    <3> HIDE DEF W, held
    <3> QED
      BY <2>5, <3>1, <3>2, ImageSize
  <2>7. D \cap R = {}
    BY DEF Inv, OnePlace, Holds
  <2>8. D \cup R \in SUBSET Index
    BY <2>4, <2>6
  <2> HIDE DEF W, R, D
  <2>9. /\ Cardinality(D) \in Nat /\ Cardinality(R) \in Nat
        /\ Cardinality(D \cup R) = Cardinality(D) + Cardinality(R) - Cardinality(D \cap R)
    BY <2>4, <2>6, FS_Union, FS_CardinalityType
  <2>10. Cardinality(D \cap R) = 0
    BY <2>7, FS_EmptySet
  <2>11. Cardinality(D \cup R) <= N
    BY <2>2, <2>8, FS_Subset
  <2>12. Len(done) + Cardinality(W) <= N
    BY <2>4, <2>6, <2>9, <2>10, <2>11
  <2> QED
    BY <2>12 DEF RoomToReport, W
<1> QED
  BY HeaderPoolInv, <1>1, PTL
=============================================================================
