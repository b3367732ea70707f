----------------------------- MODULE BucketTree -----------------------------
(***************************************************************************)
(* The bucket merkle tree (core/bmt) under the world state: a hash table   *)
(* of Cap buckets and, over its buckets, a tree of Aggre children a node.  *)
(* Prepare writes a set of keys to the table, Process brings the hashes of *)
(* the tree up to date along the dirty flags, Commit puts what is dirty    *)
(* into a database batch, which its caller writes or loses in a crash.     *)
(*                                                                         *)
(* A hash is the value that was hashed: Sha is injective, but a bucket     *)
(* hashes only the concatenation of its values.  Keys are numbers, the     *)
(* value of their first four bytes; values are strings of bytes.           *)
(***************************************************************************)
EXTENDS Integers, Sequences, FiniteSets, Folds

CONSTANTS
    Keys, Values,
    JsonKey,        \* what a key is after encoding and decoding as JSON
    Cap, Aggre,     \* Capacity and Aggreation
    Deleted,        \* the nil value of a write set
    MaxCommits      \* bound: commits of a dirty tree

ASSUME TreeAssumption ==
    /\ Keys \subseteq Nat /\ IsFiniteSet(Keys) /\ JsonKey \in [Keys -> Nat]
    /\ Cap \in Nat \ {0, 1} /\ Aggre \in Nat \ {0, 1} /\ MaxCommits \in Nat

VARIABLES
    mode,       \* the tree in memory: "fresh" from Init(nil), "loaded" from Init(root),
                \* either after Purge ("purged", "detached"), or "panicked"
    buckets,    \* the buckets in memory: a partial function of the index
    bucketHash, \* BucketHash
    touched,    \* hashTable.dirty
    dirty,      \* BucketTree.dirty
    H, Children, nodeDirty, \* of the merkle nodes, by position
    batch, disk,\* what the batch and the database hold
    commits,    \* commits so far
    content,    \* history: what the write sets said last
    clean,      \* history: content is what was last written
    lost        \* history: the hashes of the buckets in batches given up

tableVars == <<buckets, bucketHash, touched, dirty>>
nodeVars == <<H, Children, nodeDirty>>
vars == <<mode, tableVars, nodeVars, batch, disk, commits, content, clean, lost>>

----------------------------------------------------------------------------
\* pow
pow[m \in Nat] == IF m = 0 THEN 1 ELSE Aggre * pow[m - 1]

\* The first level with Cap nodes or more.
llevel == CHOOSE l \in 1..Cap : pow[l] >= Cap /\ pow[l - 1] < Cap

Position == UNION {{<<l, i>> : i \in 0..(pow[l] - 1)} : l \in 0..llevel}
Root == <<0, 0>>
Leaf(i) == <<llevel, i>>
isLeaf(p) == p[1] = llevel
getParent(p) == <<p[1] - 1, p[2] \div Aggre>>
Child(p, c) == <<p[1] + 1, p[2] * Aggre + c>>
Branch == 0..(Aggre - 1)
Slot(p) == p[2] % Aggre

NilHash == <<"nil">>
Sha(tag, bytes) == <<tag, bytes>>

getIndex(k) == k % Cap

\* Bucket.computeHash: the values in the order of the keys, without the keys.
computeHash(slots) ==
    LET least(keys) == CHOOSE k \in keys : \A j \in keys : k <= j
    IN Sha("bucket", MapThenFoldSet(LAMBDA a, b : a \o b, <<>>, LAMBDA k : slots[k], least, DOMAIN slots))

NewBucket == [H |-> NilHash, Slots |-> <<>>]
NoDisk == [node |-> <<>>, bucket |-> <<>>, table |-> <<>>]

\* The entries of f, and those of g that f does not have.
Override(f, g) == [x \in DOMAIN f \cup DOMAIN g |-> IF x \in DOMAIN f THEN f[x] ELSE g[x]]

\* A batch or a database with the puts of another batch over it.
Over(puts, db) == [f \in DOMAIN db |-> Override(puts[f], db[f])]

\* Init(nil): new nodes and a new table.
NewTree ==
    /\ mode' = "fresh"
    /\ buckets' = <<>> /\ bucketHash' = [i \in 0..(Cap - 1) |-> NilHash]
    /\ touched' = {} /\ dirty' = FALSE
    /\ H' = [p \in Position |-> NilHash]
    /\ Children' = [p \in Position |-> [c \in Branch |-> NilHash]]
    /\ nodeDirty' = [p \in Position |-> {}]
    /\ content' = <<>> /\ clean' = FALSE

Init ==
    /\ mode = "fresh"
    /\ buckets = <<>> /\ bucketHash = [i \in 0..(Cap - 1) |-> NilHash]
    /\ touched = {} /\ dirty = FALSE
    /\ H = [p \in Position |-> NilHash]
    /\ Children = [p \in Position |-> [c \in Branch |-> NilHash]]
    /\ nodeDirty = [p \in Position |-> {}]
    /\ batch = NoDisk /\ disk = NoDisk /\ commits = 0
    /\ content = <<>> /\ clean = FALSE /\ lost = {}

----------------------------------------------------------------------------
\* The bucket an index has before a put or a get: the cached one, the one the
\* database has under its hash, or a new one.  A loaded table has no database.
Stored(i) == bucketHash[i] # NilHash /\ mode # "detached"
Loads(i) == i \in DOMAIN buckets \/ (Stored(i) => bucketHash[i] \in DOMAIN disk.bucket)
Bucket(i) ==
    IF i \in DOMAIN buckets THEN buckets[i]
    ELSE IF Stored(i) THEN disk.bucket[bucketHash[i]]
    ELSE NewBucket

\* A key without a value and a nil value compare as the empty string.
AsBytes(slots, k) == IF k \in DOMAIN slots /\ slots[k] # Deleted THEN slots[k] ELSE <<>>

\* HashTable.put of the keys of a write set that fall into one bucket: a value that
\* compares equal to the one that is there is not put, nor deleted.
Put(slots, set) ==
    LET new == {k \in DOMAIN set : AsBytes(slots, k) # AsBytes(set, k)}
    IN [k \in (DOMAIN slots \cup new) \ {j \in new : set[j] = Deleted} |->
           IF k \in new THEN set[k] ELSE slots[k]]

\* Mutant of Changed: a deletion does not count.
ChangedByValue(old, new) == \E k \in DOMAIN new : k \notin DOMAIN old \/ old[k] # new[k]

\* Some put changed a value, so that the bucket is dirty.
Changed(old, new) == old # new

InBucket(set, i) == [k \in {j \in DOMAIN set : getIndex(j) = i} |-> set[k]]

\* Prepare: a bucket that cannot be read ends it, with the keys before it put and
\* BucketTree.dirty as it was.
Prepare(set) ==
    /\ mode \in {"fresh", "purged", "detached"}
    /\ LET bad == {k \in DOMAIN set : ~Loads(getIndex(k))}
       IN \E done \in SUBSET DOMAIN set :
            /\ done \cap bad = {} /\ (bad = {} => done = DOMAIN set)
            /\ LET part == [k \in done |-> set[k]]
                   hit == {getIndex(k) : k \in done}
                   after == [i \in hit |-> Put(Bucket(i).Slots, InBucket(part, i))]
               IN /\ buckets' = Override([i \in hit |-> [H |-> Bucket(i).H, Slots |-> after[i]]], buckets)
                  /\ touched' = touched \cup {i \in hit : Changed(Bucket(i).Slots, after[i])}
                  /\ dirty' = (dirty \/ (bad = {} /\ touched' # {}))
                  /\ content' = Put(content, part)
                  /\ clean' = (clean /\ content' = content)
    /\ UNCHANGED <<mode, bucketHash, nodeVars, batch, disk, commits, lost>>

\* A table read from the database has no buckets slice: the first put or get panics.
UseLoaded ==
    /\ mode = "loaded" /\ mode' = "panicked"
    /\ UNCHANGED <<tableVars, nodeVars, batch, disk, commits, content, clean, lost>>

\* get keeps the bucket it reads.
Get(k) ==
    /\ mode \in {"fresh", "purged", "detached"} /\ Loads(getIndex(k)) /\ Stored(getIndex(k))
    /\ buckets' = Override([i \in {getIndex(k)} |-> Bucket(i)], buckets)
    /\ UNCHANGED <<mode, bucketHash, touched, dirty, nodeVars, batch, disk, commits, content, clean, lost>>

\* What get returns.
Value(k) == LET s == Bucket(getIndex(k)).Slots IN IF k \in DOMAIN s THEN s[k] ELSE Deleted

----------------------------------------------------------------------------
\* Mutant of Marked: only the parent of the leaf is marked.
MarkedParent(p) == nodeDirty[p] \cup
    {c \in Branch : ~isLeaf(p) /\ \E i \in touched : Child(p, c) = Leaf(i)}

\* processNodes: the dirty flags on the way from each touched bucket to the root.
Marked(p) == nodeDirty[p] \cup
    {c \in Branch : ~isLeaf(p) /\ \E i \in touched :
        Child(p, c) = <<p[1] + 1, i \div pow[llevel - p[1] - 1]>>}

\* The nodes that computeHash and commitNode reach from the root.
Reached(mark) ==
    LET reached[p \in Position] ==
          p = Root \/ (Slot(p) \in mark[getParent(p)] /\ reached[getParent(p)])
    IN {p \in Position : reached[p]}

\* MerkleNode.computeHash: the dirty children anew, the others as they were.
HashOf(mark, leaf) ==
    LET hash[p \in Position] ==
          IF isLeaf(p) THEN leaf[p[2]]
          ELSE Sha("node", [c \in Branch |-> IF c \in mark[p] THEN hash[Child(p, c)]
                                             ELSE Children[p][c]])
    IN hash

Processed(hashed) ==
    LET mark == [p \in Position |-> Marked(p)]
        leaf == [i \in 0..(pow[llevel] - 1) |-> IF i \in touched THEN hashed[i].H ELSE H[Leaf(i)]]
        hash == HashOf(mark, leaf)
        reached == Reached(mark)
    IN /\ nodeDirty' = mark
       /\ H' = [p \in Position |-> IF p \in reached \/ isLeaf(p) THEN hash[p] ELSE H[p]]
       /\ Children' = [p \in Position |-> [c \in Branch |->
              IF p \in reached /\ c \in mark[p] THEN hash[Child(p, c)] ELSE Children[p][c]]]

\* The buckets after processNodes has hashed the touched ones.
Hashed == [i \in DOMAIN buckets |->
    IF i \in touched THEN [buckets[i] EXCEPT !.H = computeHash(buckets[i].Slots)] ELSE buckets[i]]

\* After Purge the root is not found: Process and Commit return an error.
Process ==
    /\ mode \in {"fresh", "loaded"}
    /\ buckets' = Hashed
    /\ Processed(buckets')
    /\ UNCHANGED <<mode, bucketHash, touched, dirty, batch, disk, commits, content, clean, lost>>

\* Bucket.serialize and deserialize.  A key that is not UTF-8 becomes another one; of
\* keys that become one, any may be the last that is read.
JsonForms(b) ==
    LET keys == DOMAIN b.Slots
    IN {[b EXCEPT !.Slots = s] : s \in
          {s \in [{JsonKey[k] : k \in keys} -> {b.Slots[k] : k \in keys}] :
             \A j \in DOMAIN s : \E k \in keys : JsonKey[k] = j /\ s[j] = b.Slots[k]}}

\* Mutant of Puts: the table is put before it has the new hashes.
PutsTableFirst(last) ==
    [bucket |-> last,
     table |-> [h \in {H'[Root]} |-> bucketHash],
     node |-> [h \in {H'[p] : p \in Reached(nodeDirty')} |->
                  Children'[CHOOSE p \in Reached(nodeDirty') : H'[p] = h]]]

\* What Commit puts into the batch: of touched buckets with one hash, last[hash].
Puts(last) ==
    [bucket |-> last,
     table |-> [h \in {H'[Root]} |-> bucketHash'],
     node |-> [h \in {H'[p] : p \in Reached(nodeDirty')} |->
                  Children'[CHOOSE p \in Reached(nodeDirty') : H'[p] = h]]]

\* Commit: process, then the touched buckets, the table and the dirty nodes go to the
\* batch.  Of touched buckets with one hash any may be put last.
Commit ==
    /\ mode = "fresh" /\ dirty /\ commits < MaxCommits
    /\ buckets' = Hashed
    /\ Processed(buckets')
    /\ bucketHash' = [i \in DOMAIN bucketHash |->
          IF i \in DOMAIN buckets THEN buckets'[i].H ELSE bucketHash[i]]
    /\ \E last \in [{buckets'[i].H : i \in touched} -> UNION {JsonForms(buckets'[i]) : i \in touched}] :
          /\ \A h \in DOMAIN last : last[h].H = h
          /\ batch' = Over(Puts(last), batch)
    /\ touched' = {} /\ dirty' = FALSE /\ commits' = commits + 1
    /\ UNCHANGED <<mode, disk, content, clean, lost>>

\* The caller writes the batch.
Write ==
    /\ batch # NoDisk
    /\ disk' = Over(batch, disk) /\ batch' = NoDisk
    /\ clean' = (mode = "fresh" /\ touched = {} /\ lost = {})
    /\ UNCHANGED <<mode, tableVars, nodeVars, commits, content, lost>>

\* The commit of the block fails, at the latest when it writes: the batch is left under
\* its height, and the process goes on with the tree as it is and another batch.
GiveUp ==
    /\ batch # NoDisk
    /\ batch' = NoDisk /\ lost' = lost \cup DOMAIN batch.bucket
    /\ UNCHANGED <<mode, tableVars, nodeVars, disk, commits, content, clean>>

Purge ==
    /\ mode # "panicked"
    /\ mode' = IF mode \in {"fresh", "purged"} THEN "purged" ELSE "detached"
    /\ buckets' = <<>> /\ touched' = {}
    /\ H' = [p \in Position |-> NilHash]
    /\ Children' = [p \in Position |-> [c \in Branch |-> NilHash]]
    /\ nodeDirty' = [p \in Position |-> {}]
    /\ UNCHANGED <<bucketHash, dirty, batch, disk, commits, content, clean, lost>>

\* Init(root) and walkCreateNode: the nodes are read from the root down; a child the
\* database does not have is made anew.  A node's place is its path from the root; the
\* position stored with it may be that of another node with its hash, which nothing
\* reads before the first put panics.
Load(root) ==
    LET stored(h) == h # NilHash /\ h \in DOMAIN disk.node
        loaded[p \in Position] ==
          IF p = Root THEN root
          ELSE LET parent == loaded[getParent(p)]
                   h == IF stored(parent) THEN disk.node[parent][Slot(p)] ELSE NilHash
               IN IF stored(h) THEN h ELSE NilHash
    IN /\ H' = loaded
       /\ Children' = [p \in Position |->
              IF stored(loaded[p]) THEN disk.node[loaded[p]] ELSE [c \in Branch |-> NilHash]]
       /\ nodeDirty' = [p \in Position |-> {}]
       /\ bucketHash' = disk.table[root]
       /\ buckets' = <<>> /\ touched' = {} /\ dirty' = FALSE
       /\ mode' = "loaded" /\ content' = <<>> /\ clean' = FALSE

\* The process ends, the batch is lost, and the tree is opened again.
Reopen ==
    /\ NewTree \/ \E root \in DOMAIN disk.table : Load(root)
    /\ batch' = NoDisk
    /\ UNCHANGED <<disk, commits, lost>>

WriteSet == UNION {[K -> Values \cup {Deleted}] : K \in SUBSET Keys}

Next ==
    \/ \E set \in WriteSet : Prepare(set)
    \/ \E k \in Keys : Get(k)
    \/ UseLoaded \/ Process \/ Commit \/ Write \/ GiveUp \/ Purge \/ Reopen

Spec == Init /\ [][Next]_vars

----------------------------------------------------------------------------
\* The parts of the state have their types.
TypeOK ==
    /\ mode \in {"fresh", "purged", "loaded", "detached", "panicked"}
    /\ DOMAIN buckets \subseteq 0..(Cap - 1) /\ touched \subseteq DOMAIN buckets
    /\ dirty \in BOOLEAN /\ clean \in BOOLEAN /\ commits \in 0..MaxCommits
    /\ \A p \in Position : nodeDirty[p] \subseteq Branch

\* The hashes the nodes keep of their children are their children's, and a node's
\* own is the one of its children, in a tree built up by Process along the dirty
\* flags (node.go:65-89, tree.go:161-189) and in one read back after a crash
\* (tree.go:104-132).  The types of the variables go with it.
TreeConsistent ==
    /\ TypeOK
    /\ mode \in {"fresh", "loaded"} =>
        \A p \in Position : ~isLeaf(p) =>
            /\ \A c \in Branch : Children[p][c] = H[Child(p, c)]
            /\ H[p] # NilHash => H[p] = Sha("node", Children[p])
            /\ H[p] = NilHash => \A c \in Branch : Children[p][c] = NilHash

\* The tree computed from scratch over the table: a subtree without a bucket that ever
\* had a value has no hash.
Scratch(table, leafHash) ==
    LET hash[p \in Position] ==
          IF isLeaf(p)
          THEN IF p[2] \in DOMAIN table /\ table[p[2]].Slots # <<>>
               THEN computeHash(table[p[2]].Slots) ELSE leafHash[p]
          ELSE LET below == [c \in Branch |-> hash[Child(p, c)]]
               IN IF p # Root /\ \A c \in Branch : below[c] = NilHash
                  THEN NilHash ELSE Sha("node", below)
    IN hash

\* The root that Process returns, having hashed only what is dirty, is the root of the
\* tree computed from scratch over all the buckets (tree.go:147-189, node.go:65-89).
RootFromScratch ==
    [][Process /\ mode = "fresh" => H'[Root] = Scratch(buckets', H')[Root]]_vars

\* Whatever was in the batch when the process ended, the table and the nodes read
\* back from a root agree, also when batches were given up before: each bucket's hash
\* is the one of its leaf, and the database has every bucket but those that were in a
\* batch given up (tree.go:194-225, executor/commit.go:30-39).
Recovered == mode = "loaded" => \A i \in 0..(Cap - 1) :
    /\ bucketHash[i] = H[Leaf(i)]
    /\ bucketHash[i] # NilHash => bucketHash[i] \in DOMAIN disk.bucket \cup lost

\* A tree that only dropped its cache, with everything written, still returns what was
\* put: "Purge release the cache memory to avoid mem peak" (tree.go:256).
PurgedReads == mode = "purged" /\ clean =>
    \A k \in Keys : Value(k) = (IF k \in DOMAIN content THEN content[k] ELSE Deleted)
=============================================================================
