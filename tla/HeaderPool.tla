----------------------------- MODULE HeaderPool -----------------------------
(***************************************************************************)
(* BlockValidatorImpl.ValidateHeaders (core/executor/validator_block.go):  *)
(* a feeder goroutine hands the indexes of the headers to a pool of        *)
(* workers over the unbuffered channel inputs, takes the indexes back from *)
(* the channel done in whatever order they come, and sends the verdicts to *)
(* the channel errorsOut in the order of the headers.  When the last index *)
(* is handed out the feeder sets the variable inputs to nil; a worker that *)
(* starts only then may range over nil and wait for ever.  The deferred    *)
(* close has its argument from the start: it closes the channel, not nil.  *)
(* No goroutine reads the channel abort, so it has no variable here.       *)
(***************************************************************************)
EXTENDS Integers, Sequences, FiniteSets

CONSTANTS
    N,          \* number of headers
    Procs,      \* runtime.GOMAXPROCS
    Header,     \* the headers there can be
    MaxExtra,   \* maxExtraLength
    NoHeader,   \* a nil header
    Unset       \* an element of errs that is not written yet

ASSUME PoolAssumption ==
    /\ N \in Nat \ {0} /\ Procs \in Nat \ {0} /\ MaxExtra \in Nat
    /\ Header \subseteq [time : Nat, gasUsed : Nat, gasLimit : Nat, height : Nat, extra : Nat]
    /\ NoHeader \notin Header

VARIABLES
    headers,    \* the argument
    stored,     \* what chain.GetHeader returns for the parent of the first one
    inputs,     \* the variable inputs: the channel, or nil
    closed,     \* the channel is closed
    done,       \* the channel done
    errs,       \* the slice errs
    in, out, checked, \* the feeder's locals
    feeder,     \* where the feeder is
    worker,     \* where each worker is
    index,      \* the index each worker has received
    errorsOut,  \* what was sent to errorsOut
    panicked    \* a worker dereferenced a nil header

args == <<headers, stored>>
workerVars == <<worker, index>>
feederVars == <<in, out, checked, feeder, errorsOut>>
vars == <<args, inputs, closed, done, errs, feederVars, workerVars, panicked>>

Index == 0..(N - 1)
Workers == 1..(IF Procs > N THEN N ELSE Procs)
Errors == {"nil", "timestamp", "gasUsed", "height", "extra"}

\* validateHeader, for a parent that is not nil.
validateHeader(parent, header) ==
    IF header.time <= parent.time THEN "timestamp"
    ELSE IF header.gasUsed > header.gasLimit THEN "gasUsed"
    ELSE IF header.height # parent.height + 1 THEN "height"
    ELSE IF header.extra > MaxExtra THEN "extra"
    ELSE "nil"

Parent(i) == IF i = 0 THEN stored ELSE headers[i - 1]
Verdict(i) == validateHeader(Parent(i), headers[i])

Init ==
    /\ headers \in [Index -> Header] /\ stored \in Header \cup {NoHeader}
    /\ inputs = "chan" /\ closed = FALSE
    /\ done = <<>> /\ errs = [i \in Index |-> Unset]
    /\ in = 0 /\ out = 0 /\ checked = [i \in Index |-> FALSE]
    /\ feeder = "select"
    /\ worker = [w \in Workers |-> "new"] /\ index = [w \in Workers |-> 0]
    /\ errorsOut = <<>> /\ panicked = FALSE

----------------------------------------------------------------------------
\* The range clause reads the variable inputs once.  Nothing orders this read and
\* the feeder's write of nil: a late read may still see the channel.
WorkerStarts(w) ==
    /\ ~panicked /\ worker[w] = "new"
    /\ \E seen \in {inputs, "chan"} :
          worker' = [worker EXCEPT ![w] = IF seen = "nil" THEN "leaked" ELSE "receive"]
    /\ UNCHANGED <<args, inputs, closed, done, errs, feederVars, index, panicked>>

\* Mutant of Hand: the feeder does not count what it hands out.
HandAgain(w) ==
    /\ ~panicked /\ feeder = "select" /\ inputs = "chan" /\ worker[w] = "receive"
    /\ index' = [index EXCEPT ![w] = in]
    /\ worker' = [worker EXCEPT ![w] = "validate"]
    /\ in' = in
    /\ inputs' = IF in' = N THEN "nil" ELSE inputs
    /\ UNCHANGED <<args, closed, done, errs, out, checked, feeder, errorsOut, panicked>>

\* inputs <- in meets a receiving worker; after the last index inputs is nil.
Hand(w) ==
    /\ ~panicked /\ feeder = "select" /\ inputs = "chan" /\ worker[w] = "receive"
    /\ index' = [index EXCEPT ![w] = in]
    /\ worker' = [worker EXCEPT ![w] = "validate"]
    /\ in' = in + 1
    /\ inputs' = IF in' = N THEN "nil" ELSE inputs
    /\ UNCHANGED <<args, closed, done, errs, out, checked, feeder, errorsOut, panicked>>

Validate(w) ==
    /\ ~panicked /\ worker[w] = "validate"
    /\ IF Parent(index[w]) = NoHeader
       THEN panicked' = TRUE /\ UNCHANGED <<errs, worker>>
       ELSE /\ errs' = [errs EXCEPT ![index[w]] = Verdict(index[w])]
            /\ worker' = [worker EXCEPT ![w] = "report"]
            /\ UNCHANGED panicked
    /\ UNCHANGED <<args, inputs, closed, done, feederVars, index>>

\* done <- index, unless the buffer is full.
Report(w) ==
    /\ ~panicked /\ worker[w] = "report" /\ Len(done) < N
    /\ done' = Append(done, index[w])
    /\ worker' = [worker EXCEPT ![w] = "receive"]
    /\ UNCHANGED <<args, inputs, closed, errs, feederVars, index, panicked>>

WorkerEnds(w) ==
    /\ ~panicked /\ worker[w] = "receive" /\ closed
    /\ worker' = [worker EXCEPT ![w] = "ended"]
    /\ UNCHANGED <<args, inputs, closed, done, errs, feederVars, index, panicked>>

\* index := <-done; checked[index] = true
Take ==
    /\ ~panicked /\ feeder = "select" /\ done # <<>>
    /\ checked' = [checked EXCEPT ![Head(done)] = TRUE]
    /\ done' = Tail(done)
    /\ feeder' = "emit"
    /\ UNCHANGED <<args, inputs, closed, errs, in, out, errorsOut, workerVars, panicked>>

\* Mutant of Emit: a verdict is sent whether or not its header was checked.
EmitUnchecked ==
    /\ ~panicked /\ feeder = "emit" /\ Len(errorsOut) < N
    /\ errorsOut' = Append(errorsOut, errs[out])
    /\ IF out = N - 1
       THEN feeder' = "returned" /\ closed' = TRUE /\ UNCHANGED out
       ELSE out' = out + 1 /\ UNCHANGED <<feeder, closed>>
    /\ UNCHANGED <<args, inputs, done, errs, in, checked, workerVars, panicked>>

\* Mutant of Emit: the feeder returns one verdict early.
EmitEarly ==
    /\ ~panicked /\ feeder = "emit" /\ checked[out] /\ Len(errorsOut) < N
    /\ errorsOut' = Append(errorsOut, errs[out])
    /\ IF out + 1 \in {N - 1, N}
       THEN feeder' = "returned" /\ closed' = TRUE /\ UNCHANGED out
       ELSE out' = out + 1 /\ UNCHANGED <<feeder, closed>>
    /\ UNCHANGED <<args, inputs, done, errs, in, checked, workerVars, panicked>>

\* Mutant of Emit: one verdict is sent for each index taken.
EmitOnce ==
    /\ ~panicked /\ feeder = "emit" /\ checked[out] /\ Len(errorsOut) < N
    /\ errorsOut' = Append(errorsOut, errs[out])
    /\ IF out = N - 1
       THEN feeder' = "returned" /\ closed' = TRUE /\ UNCHANGED out
       ELSE out' = out + 1 /\ feeder' = "select" /\ UNCHANGED closed
    /\ UNCHANGED <<args, inputs, done, errs, in, checked, workerVars, panicked>>

\* The body of the loop over checked[out]; after the last verdict the deferred
\* close runs.
Emit ==
    /\ ~panicked /\ feeder = "emit" /\ checked[out] /\ Len(errorsOut) < N
    /\ errorsOut' = Append(errorsOut, errs[out])
    /\ IF out = N - 1
       THEN feeder' = "returned" /\ closed' = TRUE /\ UNCHANGED out
       ELSE out' = out + 1 /\ UNCHANGED <<feeder, closed>>
    /\ UNCHANGED <<args, inputs, done, errs, in, checked, workerVars, panicked>>

EmitEnds ==
    /\ ~panicked /\ feeder = "emit" /\ ~checked[out]
    /\ feeder' = "select"
    /\ UNCHANGED <<args, inputs, closed, done, errs, in, out, checked, errorsOut,
                   workerVars, panicked>>

----------------------------------------------------------------------------
WorkerStep(w) == WorkerStarts(w) \/ Validate(w) \/ Report(w) \/ WorkerEnds(w)
FeederStep == (\E w \in Workers : Hand(w)) \/ Take \/ Emit \/ EmitEnds

Next ==
    \/ \E w \in Workers : WorkerStarts(w) \/ Hand(w) \/ Validate(w) \/ Report(w) \/ WorkerEnds(w)
    \/ Take \/ Emit \/ EmitEnds

Spec == Init /\ [][Next]_vars

\* The Go scheduler runs every goroutine that can run.
FairSpec == Spec /\ WF_vars(FeederStep) /\ \A w \in Workers : WF_vars(WorkerStep(w))

----------------------------------------------------------------------------
TypeOK ==
    /\ headers \in [Index -> Header] /\ stored \in Header \cup {NoHeader}
    /\ inputs \in {"chan", "nil"} /\ closed \in BOOLEAN
    /\ done \in Seq(Index) /\ errs \in [Index -> Errors \cup {Unset}]
    /\ in \in 0..N /\ out \in Index /\ checked \in [Index -> BOOLEAN]
    /\ feeder \in {"select", "emit", "returned"}
    /\ worker \in [Workers -> {"new", "receive", "validate", "report", "ended", "leaked"}]
    /\ index \in [Workers -> Index]
    /\ errorsOut \in Seq(Errors \cup {Unset}) /\ panicked \in BOOLEAN

\* The verdicts come out in the order of the headers and each is the verdict on
\* its own header, whatever order the workers finish in (validator_block.go:99-114).
VerdictsInOrder == \A i \in 1..Len(errorsOut) : errorsOut[i] = Verdict(i - 1)

\* The channel done has room for every worker that has an index to send: no index
\* is handed out twice (validator_block.go:73, 88, 101-105).
RoomToReport == Len(done) + Cardinality({w \in Workers : worker[w] = "report"}) <= N

\* No worker is left with an index when the feeder returns, so that closing inputs
\* finds all of them receiving (validator_block.go:94, 109-110).
NothingInFlight == feeder = "returned" =>
    \A w \in Workers : worker[w] \notin {"validate", "report"} /\ done = <<>>

\* Every header gets its verdict: the feeder returns (unless a worker panics).
Finishes == <>(panicked \/ feeder = "returned")
=============================================================================
