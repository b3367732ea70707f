# TLA+ models of tinychain

TLA+ modules for the parts of tinychain that keep state or run concurrently and for
the C library that makes and checks its signatures, the TLC configurations that check
them on small instances, and TLAPS proofs of the properties that matter most for
every size. Paths below are relative to `src/`.

## 1. The system and its parts

A node is a set of services that talk through one in-process event hub. The
consensus engine asks the executor to propose or to apply a block; the executor
runs the transactions on the world state, adds the block to the ledger in memory
and posts the receipts back; the engine compares roots and asks for a commit or
a rollback; the commit goes through one database batch per height. Transactions and
blocks are signed and their senders recovered with libsecp256k1, C code kept in
`core/vm/evm/crypto/secp256k1/` and called through `ext.h`.

| Part | State | Operations | What is hard |
|---|---|---|---|
| Event hub `event/` | feeds per type, case lists, a send token, subscriptions with buffered channels | Subscribe, Unsubscribe, Post, Stop | posts, leavers and Stop interleave under three locks |
| World state `core/state/` | live objects, object cache, journal, revisions, logs | account calls, Snapshot, RevertToSnapshot, IntermediateRoot, Commit | nested reverts, failed commits, two walks over a changing list |
| Bucket tree `core/bmt/` | hash table of buckets, merkle nodes, dirty flags, database | Prepare, Process, Commit, Get, Purge, Init | stale hashes, crash between commit and write, shared keys |
| Block validator `core/executor/validator_block.go` | worker pool, channels | ValidateHeader(s), ValidateBody, ValidateState | results out of order, a shared variable, closing a channel |
| Executor `core/executor/` | snapshot id, receipts cache | propose, apply, commit, rollback | events out of order, a failure between two steps |
| Ledger `core/chain/` | last block, last final block, caches | AddBlock, CommitBlock, Reset, Purge | memory ahead of the disk, restart |
| Batches `db/` | a batch per height | GetBatch, CommitBatch | a failed write |
| Block pool `core/blockpool/` | blocks per height under a lock | add, GetBlock, DelBlock, Clear | a lock taken twice, unsigned subtraction |
| Transaction pool `core/txpool/` | queue and pending lists per account | add, activate, Drop, Pending | check and insertion apart |
| Solo, PoW, DPoS-BFT `consensus/` | process lock, miners, votes | the engine's handlers | quorums, timeouts, abort against found |
| EVM `core/vm/evm/` | call frames, stack, memory, gas | Call, Create and the opcodes | nested snapshots, depth, gas |
| Object cache `common/cache/` | growing hash table, eviction by block number | Get, Add, Delete, Evict, Close | frozen buckets |
| Network `p2p/` | route table, streams | Send, Broadcast, sync of routes | reconnects, short writes |
| Wallet `account/` | unlocked keys under a lock | Lock, Unlock, SignHash | a lock that is kept |
| Field and scalars `field_*`, `scalar_*` | an element in limbs with spare bits, a scalar in limbs | add, multiply, invert, normalise, tests, encodings | carries that are left out, folds, bounds kept by hand |
| Curve `group_impl.h`, `ecmult*_impl.h` | a point with a flag, tables, a blinded context | add, double, multiply, recode, blind | special cases, coordinates below a flag, magnitudes |
| Keys and signatures `secp256k1.c`, `eckey_impl.h`, `ecdsa_impl.h`, `modules/recovery`, `ext.h` | contexts, key and signature objects | create, tweak, combine, sign, verify, recover, encode | cases of probability 2^-127, two halves of a key |
| Hashes and nonces `hash_impl.h` | a digest, a MAC, a generator | write, finalise, generate | cuts of the input, padding, a retry |
| DER `ecdsa_impl.h` | a buffer and an object | parse, serialise | lengths at the end of the input |
| RPC, ABI, node start, helpers | - | - | I/O, encoding, wiring |

What each must get right: the hub delivers each event once, in order, to every
member, and no caller waits for ever; a revert gives back the state of the
snapshot; the root depends on nothing stale and what a root names is on disk; the
verdicts on headers are in order and complete; a block is in the state exactly
when it is in the chain; no quorum counts a vote twice; a transaction is in one
list; a lock is released on every path; the limbs compute in the field and modulo
the order, the formulas in the group; what was signed verifies and recovers to its
signer, and nothing else does.

## 2. Modules

| Module | Models | State and actions |
|---|---|---|
| `EventMux` | `event/event.go`, `feed.go`, `subscription.go` | goroutines with program counters; an action is the code between two points where another goroutine shows: a mutex, a channel operation or an unsynchronised read |
| `Broadcast` | the hub's promise, without locks | publish, deliver, leave, close |
| `StateDB` | `core/state/statedb.go`, `journal.go`, `state_obj.go` | an action is a call; the loops of `journal.revert` and `refundGas` take an action per entry |
| `BucketTree` | `core/bmt/`, the end of `core/executor/commit.go` | an action is a call; a crash loses the batch and the memory, a failed commit the batch alone (`GiveUp`); a map's order is a choice where it shows |
| `HeaderPool` | `ValidateHeaders` | feeder and workers; an action is one channel operation or one validation |
| `FieldLimbs` | `field_10x26_impl.h`, `field_impl.h` | a few elements; an action is a call that its VERIFY_CHECKs allow |
| `ResidueField` | what a caller expects of the field | the same calls on residues |
| `ScalarLimbs` | `scalar_8x32_impl.h` | a few scalars; an action is a call |
| `ScalarLow` | `scalar_low_impl.h`, the library's own reference | the same calls on one number |
| `AddChains` | `fe_sqrt`, `fe_inv`, `scalar_inverse` | a row of squarings and one product an action, at full size |
| `Group` | `group_impl.h` | an accumulator and the multiple it is to hold; an action is a call |
| `Ecmult` | `ecmult_impl.h`, `ecmult_const_impl.h`, `ecmult_gen_impl.h` | the three multiplications as operators, the life of a generator context as actions |
| `Ecdsa` | `secp256k1.c`, `eckey_impl.h`, `ecdsa_impl.h`, `modules/recovery`, `ext.h` | contexts, a key pair, a signature; an action is a public call, an attempt of the signing loop an action of its own |
| `Sha256` | `hash_impl.h`, `nonce_function_rfc6979` | a digest, a MAC or a generator in use |
| `Der` | the DER half of `ecdsa_impl.h` | an object, a buffer that may be changed between calls |
| `MC...` | - | the constants, the views and the compositions of the runs |
| `...Proofs`, `EventMuxTheorems` | - | theorems and proofs |

Go's mutexes and channels, and leveldb's batch, are modelled from how the code uses them.
Data is cut down to what the properties tell apart. A hash is the value that was
hashed, so it has no collisions; but what is hashed is what the code hashes, a
bucket's values without its keys included. A panic is a state: of the hub and of
the header pool a flag that ends the process, of the state the name of the place.

`StateDB` keeps the journal's backing array with its stale slots, because a
revert after a failed commit slices beyond the length again. `EventMux` keeps the
array of `feed.subs` likewise. `StateDB` sees the bucket tree as a map from
addresses to accounts; `BucketTree` is that map in detail.

libsecp256k1 is modelled as `secp256.go` compiles it: limbs of 26 and of 32 bits, the
built-in inverses, no endomorphism, with the recovery module. Its layers are modelled
apart, each on the promise of the one below. `FieldLimbs` and `ScalarLimbs` take the
number and the width of limbs and words as parameters; the runs use limbs of 4 and 3
bits, in words as small as the magnitudes allow. A VERIFY_CHECK, which the build
leaves out, is a guard of the call it stands in: a caller is to respect it, and `Group`
records every operand that does not. `Group` takes a field
element as its residue and its magnitude, which is what `FieldLimbs` establishes, over
the curve y^2 = x^3 + 7 modulo 43 with its 31 points: a prime order below the prime,
the prime 3 modulo 4, as in the code, and twelve numbers between the order and the
prime, which at full size a test does not hit. `Ecdsa` takes the nonce as any number;
an illegal argument, whose callback ends the process, is a guard.
`Sha256` has the 64 rounds and the block of 16 words of the code over words of four
bits. `Der` has bytes of five bits, and lengths that are turned into an int (`AsInt`). A read in `Der` records the highest offset that was
read; the model reads 0 beyond the end and the record shows it.

In `BucketTree` a bucket is its slots: the list `Keys` always holds the keys of the
map and is sorted before it is used. A bucket goes through JSON on its way to the
database: an address is a string of arbitrary bytes, and a key of a map that is not UTF-8
may come back as another one, so `JsonKey` is any function; values are base64 and come
back. A value is compared as bytes, so a nil one equals an empty or an absent one. In
`HeaderPool` the read of `inputs` by a
starting worker races with the feeder's write of nil: it sees either. In `EventMux` a
Subscribe names a set of types: naming one twice, which panics, is an error of its caller
and is left out. In `StateDB` an amount is its value; the `*big.Int` that the journal
keeps of a caller of AddBalance or SubBalance (`statedb.go:265`, `:276`) is not shared
with it as in the code.

## 3. Runs

| Run | Result | Bounds and what they make happen |
|---|---|---|
| `event_race` | passes | 2 posters with 2 posts each, 2 leavers and Stop, buffer 1: leavers and Stop meet a send at every point, the buffer fills |
| `event_live` | passes, deadlock checked | 2 types, one subscriber leaves without receiving, one stays |
| `event_lost` | violation | 3 subscribers, 2 leave at once |
| `state_all` | passes | every call, failing commits; journal of 2, 2 revisions |
| `state_revert` | passes | the calls whose undo is complete; journal of 4, 2 nested revisions, 2 amounts |
| `state_root` | violation | a creation, a root and a revert |
| `headers` | passes | 3 headers of 6 kinds, 2 workers: all orders, late starters, a missing parent |
| `tree` | passes, deadlock checked | 3 buckets under two levels, 2 keys in one bucket, 2 commits, each written or given up, with crashes between any two steps, and JSON that makes one key another |
| `tree_purge` | violation | the same tree |
| `limbs` | passes | field: 4 limbs of 4 bits in words of 7, 2 elements, 3 calls, inputs at the edges of p; scalars: 4 limbs of 3 bits, 2 scalars, 2 calls; the chains at full size |
| `curve` | passes | an accumulator that runs through all 31 points, 5 points to add and 2 factors of coordinates; 6 scalars at the ends and the middle; 2 contexts, 2 blindings |
| `sign` | passes | keys, tweaks and messages at 0, 1, the order and beyond, 2 tweaks, 1 retry; messages of up to 63 bytes (two blocks are 64) in pieces around a block, MAC keys around a block, 2 draws; encodings with 2 bytes changed, inserted or removed, and long forms |

The properties:

- `RegisteredOnce`, `NoPanic`: a subscription is in exactly one case list, once,
  until its own remove takes it out, so that no lookup misses.
- `ImplementsBroadcast`: the hub refines `Broadcast`, with the members the case
  list, the owed ones its active prefix, and what was given the received events and
  the buffer. `InOrder`, `NoGap`, `Complete` are what `Broadcast` promises.
- `CallsReturn`: every Post, Unsubscribe and Subscribe returns.
- `RevisionsStack`, `RevertFindsLive`, `NeverBroken`: revision ids are stack
  positions, every index can be sliced to, no dirty object is missing.
- `RevertRestores`: a revert gives back the accounts that existed, and the logs.
  `RefundComplete`: the refund skips no gas entry of the list it deletes from.
- `VerdictsInOrder`, `RoomToReport`, `NothingInFlight`, `Finishes`.
- `TreeConsistent`, `RootFromScratch`, `Recovered`.
- `FeVerify`, `NormalForm`, `ReadsAgree`: every limb stays within its magnitude, the
  normal form is that of the residue, and what is read is that of the residue.
  `ImplementsField` and `ImplementsLow` are refinements: every call does what
  `ResidueField` and `ScalarLow` do. `ProductExact`, `ScalarTests`: no carry is lost,
  and the comparisons that the code leaves out decide nothing. `PowerExact`: the
  chains end in (p + 1)/4, p - 2 and n - 2.
- `GroupLaw`, `PointReads`: every formula gives the point of the group law, whatever
  stands below an infinity, and no operand exceeds the magnitude its callee allows.
  `Recodings`, `GenExact`: the digits have the form the tables need, and a context
  multiplies rightly whatever its blinding went through.
- `KeyPairKept`, `SignedVerifies`, `VerifyExact`, `RecoverExact`, `EncodingsExact`,
  `PointCalls`: see the comments in `Ecdsa`; the reference is the equation of ECDSA.
- `DigestsExact`, `DrawsExact`, `NoEmulation`: against FIPS 180-4, RFC 2104 and RFC 6979
  written in their own terms.
- `ParseExact`, `ReadsInside`, `SerializeExact`: against the grammar of X.690.

Each of them has a mutant, a plausible slip in the code's place, that breaks it.
`RevertFindsLive` is about an id in the range, `RevertRestores` about the accounts
that existed at the snapshot and leaves out the code hash: see section 6.

The bounds are named in the modules. The hub's hazards need two goroutines in one
feed and a full buffer. A journal of four entries has a snapshot, an entry before
it and two after it, two gas entries included. Three buckets under two levels have
siblings with and without a common parent, and an unused leaf. In the tree's run
one value is enough: a value changes by deletion and insertion, and equal values
are what makes hashes coincide; the empty value is left to the proofs. `state_all` and `tree` use a view without the
history variables, of which their properties do not speak; `limbs` uses one without
the last call: no guard and no invariant of it reads that, and the refinements, which
do, are checked on every step.

In `limbs` `MaxMag` is the largest magnitude that the words have room for, as in the
code. `MulMag` is 1, where the code has 8: larger factors overflow the small
accumulator, so sums of several products of larger magnitudes are not exercised. The
inputs are five field elements and seven scalars, not all of them. In `curve` each
multiple of the generator is added to the five of `Sums`: infinity, the generator, its
double, its negative, and an image of it under the cube roots of one (p is 1 modulo 3,
as in the code), for which the unified addition degenerates. In `sign` seven of
the fifteen x on the curve are above the order, and r = 7 stands for two x. `MaxTries` 1 has a nonce refused and another one taken. The round
constants and rotations of `sign` are made up, since the code's have 32 bits. What
small words cannot show is a constant that is wrong only at full width: the exponents
of the chains are checked at full width; the round constants, the limbs of p and n and
the generator are not.

Fairness. `event_live`: a goroutine whose operation is enabled again and again gets
through, as Go's mutexes and channels queue their waiters (strong fairness on the
steps inside a call); a subscriber that stays keeps receiving; calling Post,
Subscribe or Stop is never fair. `headers`: each goroutine is weakly fair.

## 4. Proofs

- `BroadcastProofs`: `BroadcastCorrect`, `InOrderCorrect`, `NoGapCorrect`,
  `CompleteCorrect`, for any types and subscriptions. The invariant ties the last
  number a subscription was given to the number published and to whether it is
  still owed the event.
- `StateDBProofs`: `StateDBInv` and from it `RevisionsStackCorrect`,
  `RevertFindsLiveCorrect`, `NeverBrokenCorrect` and `RefundCompleteCorrect`, for
  any addresses, codes, amounts and bounds (assumptions: `StateAssumption`). The
  invariant adds to the types that every dirty object is live (`Sound`, why
  IntermediateRoot finds them all) and where the two loops over the journal are
  (`LoopsInside`: a revert's position is inside the journal and its id on the
  revision stack, so that cutting both afterwards keeps the stack in order).
  `HistoryInv` and `RevertRestoresCorrect`: a revert gives back the accounts that
  existed at the snapshot and the logs, under the hypothesis `Undoable`, that neither
  `SubBalance` (whose undo adds a second time) nor a failing commit (which leaves
  revisions of a journal that refundGas has shortened) is among the calls; the theorem
  says nothing of executions with them. It covers `SetState` and `IntermediateRoot`,
  which the run `state_revert` leaves out. The invariant `History` says that there is a
  sequence of views W[0..len] (`Trail`): entry j, undone in any state that keeps W[j],
  gives one that keeps W[j-1]; the present state keeps the last one; the one at a
  revision's journal index keeps what that revision's snapshot saw. "Keeps" speaks only of the
  accounts of the view, since an undone creation leaves its object in the cache. It
  needs journal indexes that grow along the stack, and balances and gas amounts that are
  not negative.
- `HeaderPoolProofs`: `HeaderPoolInv`, `VerdictsInOrderCorrect`,
  `NothingInFlightCorrect`, `RoomToReportCorrect`, for any number of headers (one at
  least) and workers (assumptions: `PoolAssumption`). The invariant says that the verdict is written
  before its index is reported, and that an index handed out is in exactly one
  place: with one worker, once in `done`, or checked. Room to report follows by
  counting: the indexes in `done` and those with reporting workers are different headers.
- `DerProofs`: `DerInvariant`, `ParseExactCorrect`, `SerializeExactCorrect`,
  `ParserReadsInside`, `ParserGivesScalars`, for every input and any sequence of calls and
  changes of the buffer, every size of byte, scalar and size_t and every group order
  (assumptions: `DerAssumption`: a scalar fits into its bytes, the length of a signature is
  a short one, and the size of an input, with the bytes that may be added to it, fits into
  a size_t and into the int that `der_read_len` returns; only `ParserReadsInside` does not
  need the latter: a length that wraps around is refused or still inside).
  The invariant says that the buffer holds bytes and the object two scalars (`Typed`), that the
  size of the buffer fits (`Room`), and that the last call left what the parser or the
  writer gives (`ParsedLast`, `SerializedLast`). Reads stay inside by going up the
  parser: what `LongForm`, `der_read_len`, `IntegerAt`, `der_parse_integer` and
  `ecdsa_sig_parse` return says how much of the input is left. The two
  exactness theorems rest on numbers and their bytes: the value of a string (`Horner`)
  and the bytes of a number (`Shifts`) undo each other (`DigitsValue`, `DigitsOnly`), so
  that the length octets of X.690 are the only ones `der_read_len` takes, and it stops
  early only for a number that is beyond the end at last (`LongFormExact`,
  `ReadLenSound`, `ReadLenComplete`); one level up the padding test leaves exactly the
  shortest two's complement (`PaddedExact`, `IntegerExact`), and on top the two integers
  fill the sequence (`SigParseSound`, `SigParseComplete`). The reference `Readings`
  finds the same pairs from the end of the input (`ReadingsSound`, `ReadingsComplete`).
  `Der` writes out three operations on sequences instead of extending `SequencesExt`, with which
  every proof obligation takes more than twice as long.
- `Sha256Proofs`: `SeedsDiffer` and `NoEmulationCorrect`, for strings of any content and
  words of any width (assumptions: `WidthAssumption`). The optional parts have sizes
  0, h, 2h and 3h in their four mixtures, so the length tells the mixture, and strings
  put together are taken apart where the first one ends.
- `EventMuxProofs`: `HubInvariant`; `EventMuxTheorems`: `RegisteredOnceCorrect`,
  `NoPanicCorrect`, `ImplementsBroadcastCorrect` and, with `BroadcastProofs`,
  `ChannelsKeepOrder`, for any posters and stoppers, any finite set of subscribers, any
  types and any channel size (assumptions: `EventAssumption`). The invariant joins who
  holds each lock and token (`Locked`, `Token`), the prefix of sendCases a send goes
  through (`Sending`), that a subscription goes once through the msgBox into sendCases
  (`Listed`), what the unlocked find can read (`Scanned`), where a subscription is
  while its Unsubscribe runs (`Present`) and that nothing is closed before a Stop
  (`Quiet`). `NoPanic` speaks of executions up to the first Stop.
- `BucketTreeProofs`: `TreeInvariant`, `TreeConsistentCorrect`, `RecoveredCorrect`,
  `RootFromScratchCorrect`, for any capacity and aggregation of two at least, any finite
  set of keys, any values and any `JsonKey` (assumptions: `TreeAssumption`). In a tree begun empty the
  nodes with a hash are those above the buckets with one, and so are the dirty ones
  (`Linked`, `Paths`, `LeafHashes`); what is not touched is hashed and put (`Table`);
  the batch and the database have, under each of their roots, the whole tree and every
  bucket of its table but those that were in a batch given up (`Closed`, with the history
  variable `lost`), which is why a crash between a commit and the write of its batch
  loses no root that is there.

Induction and recursive functions: where a proof needs induction over the naturals it
uses that a set of naturals has a least element. The equation of a recursive function
is never taken from its definition by the SMT backend, which accepts it without a proof
that such a function exists: existence is proved first, and the equation follows from
the CHOOSE.

Only model-checked: liveness and fairness (`CallsReturn`, `Finishes`); the run
`state_root`; the arithmetic of libsecp256k1 and its refinements (`ImplementsField`,
`ImplementsLow`, the limbs, the addition chains, the group, ecmult and ECDSA), which
rests on powers with a variable exponent, opaque to the prover; the digests, which are
recursive functions of their input.

## 5. What the violations show

- `event_lost` (`event/feed.go:174`): `find` scans `feed.subs` without its lock, so
  an Unsubscribe can miss its own entry while another one shifts the array.
- `state_root` (`core/state/statedb.go:370`): IntermediateRoot writes accounts into
  the tree outside the journal; after a revert they stay in every later root.
- `tree_purge` (`core/bmt/bucket.go:41`): a bucket's database key is the hash of
  its values; two buckets with equal values overwrite each other, which shows once
  the cache is dropped.

## 6. Behaviour modelled as it is, without a property

Hub: Unsubscribe after Stop panics; Post on a stopped mux keeps the read lock. No
production code calls Stop.

State: SubBalance negates the caller's amount and adds it, and its undo adds it
again; the undo of a code change does not restore the old hash; the undo of a
creation leaves the object cache; Commit panics for every dirty account that is not
deleted, because no code opens the object's tree; after a failed Commit the refund
has shortened the journal while the revisions keep their indexes, so that a log
entry may be undone twice. AddBalance and SubBalance keep the caller's `*big.Int` in
the journal, so a caller that changes it afterwards changes the undo; `evm.Transfer`
passes one to both. An account that only the tree has is loaded with a lookup of its
code by a slice as the key, which panics where the runtime hashes the key of a lookup in
an empty map too: the model has both outcomes (`Load`, `LoadPanics`). SetBalance, StateBmt, deepCopy and updateRoot have no
callers. `atomic.AddUint32(&s.logSize, -1)` does not compile as written.

Tree: a tree reopened from a root has no bucket slice and panics on the first key;
an emptied bucket does not have the hash of one never used, so the root depends on
the history and not on the content alone; dirty flags of nodes are never cleared, so
a path once dirty is hashed and put again at each commit; the package function Hash
builds a tree of capacity 0 and divides by it; a node is stored with its position
under its hash, which nodes with equal children share. A commit that fails leaves its
batch behind (`executor/commit.go:36`), while the tree in memory takes its buckets for
written: later roots name them, and the database does not have them.

Header pool: a late worker may wait for ever; the channel `abort` is read by
nobody; the first header's parent is found in the header cache only, and a
missing one is dereferenced; an empty list leaves the feeder waiting.

## 7. Not modelled

Parts without a module are listed with the reason in `PROJECT.json`. Some cannot run
as written: the ledger panics on an empty database (`core/chain/blockchain.go:140`
through SetGenesis), every header but the genesis panics when hashed
(`core/types/block.go:80`), the block pool takes its own lock twice
(`core/blockpool/block_pool.go:127`) and so does the ledger's ResetWithGenesis
(`core/chain/blockchain.go:102`), the solo engine sends on a nil channel in Start
(`consensus/solo/engine.go:88`), a miner that finds a nonce leaves only the select and
tries the same nonce for ever (`consensus/pow/worker.go:42`). Each shows in the first
call. Their modules start from these paths and go on
with what the remaining code does once the call returns. Encoding, RPC and
configuration have no state to check.

Of libsecp256k1 the back ends that are not compiled (limbs of 52 and 64 bits, gmp, the
assembler), the endomorphism, the ecdh module, the table generator, the benchmarks and
the Java bindings are left out; so are the masked copies `storage_cmov`, which have no
branch and no arithmetic, and what the library does about time and memory: that no
branch depends on a secret, and that secrets are overwritten.

## 8. Plan

1. `Executor` over a ledger, the batches and the revisions of `StateDB`: the handlers
   with failing writes and rollback events in any order; abstract specification: a
   block is in the state exactly when it is in the chain. Composed with the engines'
   handlers as environment.
2. `ObjectCache`: lookups against growth, eviction and Close; abstract
   specification: a map with eviction.
3. `EvmCalls`: call frames over the revision stack of `StateDB`, with depth, value
   and gas; a failed frame leaves no effect.
4. `BftVotes` (DPoS-BFT votes under loss and reordering), `Mining` (workers, abort and
   the difficulty as arithmetic), `BlockPool`, `TxPool`, `Wallet`, `RouteTable`.
5. Theorems: the invariants of the executor and of the call frames.
