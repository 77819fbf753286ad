------------------------------- MODULE DedupIndex -------------------------------
(* PostgresLSHDedupIndex.check_and_add of learning/near_dedup.py: workers of one  *)
(* dataset version, each in a READ COMMITTED transaction of its own.  A row is    *)
(* rejected if its content, its structure or its lineage is known, or if its      *)
(* fingerprint is close to a known one that shares a band with it.                *)
(*                                                                                *)
(* A fingerprint is the set of its one-bits; LSH_BANDS bands of LSH_BAND_BITS     *)
(* bits make it up.                                                               *)
EXTENDS Integers, FiniteSets

CONSTANTS
    DedupWorkers,
    ContentHashes, Structures, Lineages,  \* the hashes of each kind
    Words,             \* fingerprints
    LSH_BANDS, LSH_BAND_BITS,
    HammingThreshold   \* hamming_threshold

NoHash == "no hash"
Bits == 0..(LSH_BANDS * LSH_BAND_BITS - 1)
BandNumbers == 0..(LSH_BANDS - 1)

ASSUME DedupAssumption ==
    /\ LSH_BANDS \in Nat \ {0} /\ LSH_BAND_BITS \in Nat \ {0}
    /\ HammingThreshold \in Nat
    /\ Words \subseteq SUBSET Bits
    /\ NoHash \notin ContentHashes \union Structures \union Lineages

Kinds == {"exact", "structure", "lineage"}
Rows == [exact : ContentHashes, structure : Structures \union {NoHash}, lineage : Lineages \union {NoHash}, word : Words]

VARIABLES
    accepted,  \* the rows whose transaction committed: what the five tables hold
    check      \* the workers' transactions

dedupVars == <<accepted, check>>

(* Two fingerprints differ in these bits; a band's key is its number and bits.    *)
Differ(v, w) == (v \ w) \union (w \ v)
hamming_distance(v, w) == Cardinality(Differ(v, w))
BandOf(bit) == bit \div LSH_BAND_BITS
Key(word, band) == <<band, {bit \in word : BandOf(bit) = band}>>
band_keys(word) == {Key(word, band) : band \in BandNumbers}

(* near_duplicate: every fingerprint is compared at the largest threshold, and    *)
(* those that share a key below it.                                               *)
Candidates(word) ==
    {r.word : r \in {a \in accepted :
                        \/ HammingThreshold >= LSH_BANDS * LSH_BAND_BITS
                        \/ band_keys(a.word) \cap band_keys(word) # {}}}
IsNear(word) == \E v \in Candidates(word) : hamming_distance(word, v) <= HammingThreshold

--------------------------------------------------------------------------------
NoCheck == [pc |-> "idle"]
DedupInit == accepted = {} /\ check = [w \in DedupWorkers |-> NoCheck]

InPlace(w, place) == check[w].pc = place
GoOn(w, place) == check' = [check EXCEPT ![w].pc = place]

BeginCheck(w) ==
    /\ InPlace(w, "idle")
    /\ \E r \in Rows :
          check' = [check EXCEPT ![w] = [pc |-> "lock", row |-> r, band |-> 0, keys |-> {}, inserted |-> {}]]
    /\ UNCHANGED accepted

(* pg_advisory_xact_lock of each key, in the sorted order, which is the bands'.   *)
\* Mutant: in the order of a set.
InAnyOrder(row, n) == Key(row.word, IF row.structure = NoHash THEN n ELSE LSH_BANDS - 1 - n)
NthKey(row, n) == Key(row.word, n)
HeldByOther(w, key) == \E v \in DedupWorkers \ {w} : check[v].pc # "idle" /\ key \in check[v].keys
\* Mutant: the lock is of the worker's connection, not of the key.
OwnLock(w, key) == TRUE
Free(w, key) == ~HeldByOther(w, key)
LockBand(w) ==
    LET key == NthKey(check[w].row, check[w].band) IN
    /\ InPlace(w, "lock")
    /\ Free(w, key)
    /\ check' = [check EXCEPT ![w].keys = @ \union {key}, ![w].band = @ + 1,
                              ![w].pc = IF check[w].band + 1 = LSH_BANDS THEN "exact" ELSE "lock"]
    /\ UNCHANGED accepted

(* INSERT ... ON CONFLICT DO NOTHING: a conflicting row that is not committed is  *)
(* waited for, one that is makes the candidate a duplicate.                       *)
Following(kind) == CASE kind = "exact" -> "structure" [] kind = "structure" -> "lineage" [] OTHER -> "compare"
InsertedByOther(w, kind, hash) ==
    \E v \in DedupWorkers \ {w} : check[v].pc # "idle" /\ <<kind, hash>> \in check[v].inserted
Known(kind, hash) == \E a \in accepted : a[kind] = hash
InsertHash(w, kind) ==
    LET hash == check[w].row[kind] IN
    /\ InPlace(w, kind)
    /\ hash # NoHash
    /\ ~Known(kind, hash) /\ ~InsertedByOther(w, kind, hash)
    /\ check' = [check EXCEPT ![w].inserted = @ \union {<<kind, hash>>}, ![w].pc = Following(kind)]
    /\ UNCHANGED accepted
SkipHash(w, kind) ==
    /\ InPlace(w, kind)
    /\ check[w].row[kind] = NoHash
    /\ GoOn(w, Following(kind))
    /\ UNCHANGED accepted
RejectKnown(w, kind) ==
    /\ InPlace(w, kind)
    /\ check[w].row[kind] # NoHash
    /\ Known(kind, check[w].row[kind])
    /\ check' = [check EXCEPT ![w] = NoCheck]
    /\ UNCHANGED accepted

CompareRow(w) ==
    /\ InPlace(w, "compare")
    /\ check' = [check EXCEPT ![w] = IF IsNear(check[w].row.word) THEN NoCheck ELSE [@ EXCEPT !.pc = "commit"]]
    /\ UNCHANGED accepted
Commit(w) ==
    /\ InPlace(w, "commit")
    /\ accepted' = accepted \union {check[w].row}
    /\ check' = [check EXCEPT ![w] = NoCheck]

(* A statement that raises, and a connection that is lost, roll back.             *)
Rollback(w) ==
    /\ ~InPlace(w, "idle")
    /\ check' = [check EXCEPT ![w] = NoCheck]
    /\ UNCHANGED accepted

DedupStep(w) ==
    \/ LockBand(w) \/ CompareRow(w) \/ Commit(w)
    \/ \E kind \in Kinds : InsertHash(w, kind) \/ SkipHash(w, kind) \/ RejectKnown(w, kind)
DedupNext == \E w \in DedupWorkers : BeginCheck(w) \/ DedupStep(w) \/ Rollback(w)

DedupSpec == DedupInit /\ [][DedupNext]_dedupVars

--------------------------------------------------------------------------------
(* Types: a transaction's row, the keys it locked and what it inserted.           *)
Checks ==
    {NoCheck} \union
    [pc : {"lock", "exact", "structure", "lineage", "compare", "commit"}, row : Rows, band : 0..LSH_BANDS,
     keys : SUBSET (BandNumbers \X SUBSET Bits), inserted : SUBSET (Kinds \X (ContentHashes \union Structures \union Lineages))]
DedupTypeOK ==
    /\ accepted \subseteq Rows
    /\ check \in [DedupWorkers -> Checks]

(* Two accepted rows share no content, structure or lineage hash, and, where the  *)
(* bands can promise it, their fingerprints are further apart than the threshold, *)
(* however the workers' checks interleave.  At a larger threshold they cannot:         *)
(* two close fingerprints need not share a band, nor then a lock.                 *)
SameHash(a, b) == \E kind \in Kinds : a[kind] = b[kind] /\ a[kind] # NoHash
BandsSuffice == HammingThreshold < LSH_BANDS
NoDuplicates ==
    \A a, b \in accepted :
        a # b => ~SameHash(a, b) /\ (BandsSuffice => hamming_distance(a.word, b.word) > HammingThreshold)

(* The transactions that wait for one another's locks and rows never make a       *)
(* circle: one that has begun can go on.                                          *)
CanStep(w) ==
    \/ InPlace(w, "lock") /\ Free(w, NthKey(check[w].row, check[w].band))
    \/ \E kind \in Kinds : /\ InPlace(w, kind)
                           /\ \/ Known(kind, check[w].row[kind]) \/ check[w].row[kind] = NoHash
                              \/ ~InsertedByOther(w, kind, check[w].row[kind])
    \/ InPlace(w, "compare") \/ InPlace(w, "commit")
NoCircle == (\A w \in DedupWorkers : InPlace(w, "idle")) \/ (\E w \in DedupWorkers : CanStep(w))
================================================================================
