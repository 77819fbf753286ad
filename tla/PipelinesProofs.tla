------------------------- MODULE PipelinesProofs -------------------------
(* Theorems about the data pipelines: each stands by itself, with the invariant   *)
(* of its own component.                                                          *)
EXTENDS DedupIndex, SourceApprovals, CrawlFrontier, Experiments, PipelineRun, EmbeddingTraining,
        ProductionDataset, ProductionDrills, ProductionQualification, QualificationLadder,
        ReviewerGovernance, Pretraining, Workstation, FiniteSetTheorems,
        WellFoundedInduction, TLAPS

------------------------------------------------------------------------------
(* Least and greatest numbers.                                               *)

(* A set of numbers has a least one; one that is bounded has a greatest.          *)
LEMMA LeastNat ==
    ASSUME NEW T, T \subseteq Nat, T # {}
    PROVE  \E n \in T : \A m \in T : n <= m
<1>1. PICK R : R = OpToRel(<, Nat)
  OBVIOUS
<1>2. IsWellFoundedOn(R, Nat)
  BY <1>1, NatLessThanWellFounded
<1>3. PICK n \in T : \A m \in T : ~(<<m, n>> \in R)
  BY <1>2, WFMin
<1>4. \A m, k \in Nat : m < k => <<m, k>> \in R
  BY <1>1 DEF OpToRel
<1>5. n \in Nat /\ \A m \in T : ~(m < n)
  BY <1>3, <1>4
<1>6. \A m \in T : m \in Nat /\ n <= m
  <2> SUFFICES ASSUME NEW m \in T PROVE m \in Nat /\ n <= m
    OBVIOUS
  <2>1. m \in Nat /\ ~(m < n)
    BY <1>5
  <2> QED BY <1>5, <2>1
<1> QED BY <1>3, <1>6

LEMMA GreatestNat ==
    ASSUME NEW bound \in Nat, NEW T, T \subseteq 0..bound, T # {}
    PROVE  \E n \in T : \A m \in T : m <= n
<1>1. PICK S : S = {bound - n : n \in T}
  OBVIOUS
<1>2. S \subseteq Nat /\ S # {}
  <2>1. \A n \in T : n \in Nat /\ n <= bound /\ bound - n \in Nat
    <3> SUFFICES ASSUME NEW n \in T PROVE n \in Nat /\ n <= bound /\ bound - n \in Nat
      OBVIOUS
    <3>1. n \in 0..bound
      OBVIOUS
    <3> QED BY <3>1
  <2> QED BY <1>1, <2>1
<1>3. PICK s \in S : \A r \in S : s <= r
  BY <1>2, LeastNat
<1>4. PICK n \in T : s = bound - n
  BY <1>1, <1>3
<1>5. ASSUME NEW m \in T PROVE m <= n
  <2>1. s <= bound - m
    BY <1>1, <1>3
  <2>2. m \in 0..bound /\ n \in 0..bound
    OBVIOUS
  <2> QED BY <1>4, <2>1, <2>2
<1> QED BY <1>5

------------------------------------------------------------------------------
(* The near-duplicate index: close fingerprints share a band, by the pigeonhole
   principle, and a band's lock is held from the comparison to the commit.*)

(* What a check that has come to `place' has inserted, as far as its row has it.  *)
DoneKinds(place) ==
    CASE place \in {"idle", "lock", "exact"} -> {}
      [] place = "structure" -> {"exact"}
      [] place = "lineage" -> {"exact", "structure"}
      [] OTHER -> Kinds

Active(w) == check[w].pc # "idle"

(* The keys a check has locked, and those it must have locked by now.             *)
LocksHeld ==
    \A w \in DedupWorkers : Active(w) =>
        IF check[w].pc = "lock"
        THEN /\ check[w].band < LSH_BANDS
             /\ \A b \in BandNumbers : b < check[w].band => Key(check[w].row.word, b) \in check[w].keys
        ELSE band_keys(check[w].row.word) \subseteq check[w].keys
LocksExclusive ==
    \A v, w \in DedupWorkers : v # w /\ Active(v) /\ Active(w) => check[v].keys \cap check[w].keys = {}

(* The unique rows a check has inserted: its own, new to the tables, and those    *)
(* its place in the transaction says.                                             *)
InsertsExclusive ==
    \A v, w \in DedupWorkers :
        v # w /\ Active(v) /\ Active(w) => check[v].inserted \cap check[w].inserted = {}
InsertsDone ==
    \A w \in DedupWorkers : Active(w) =>
        \A kind \in DoneKinds(check[w].pc) :
            check[w].row[kind] = NoHash \/ <<kind, check[w].row[kind]>> \in check[w].inserted
InsertsNew ==
    \A w \in DedupWorkers : Active(w) =>
        \A kind \in Kinds : \A a \in accepted : <<kind, a[kind]>> \notin check[w].inserted

(* A row about to be committed is far from every accepted one.                    *)
Far(v, w) == BandsSuffice => hamming_distance(v, w) > HammingThreshold
CommitsFar == \A w \in DedupWorkers : check[w].pc = "commit" => \A a \in accepted : Far(a.word, check[w].row.word)

DedupInv ==
    /\ DedupTypeOK /\ LocksHeld /\ LocksExclusive
    /\ InsertsExclusive /\ InsertsDone /\ InsertsNew
    /\ CommitsFar /\ NoDuplicates

--------------------------------------------------------------------------------
LEMMA BitsFinite == IsFiniteSet(Bits)
BY DedupAssumption, FS_Interval DEF Bits

(* The bits two fingerprints differ in are finitely many, the same both ways.     *)
LEMMA DifferFinite ==
    ASSUME NEW v \in Words, NEW w \in Words
    PROVE  IsFiniteSet(Differ(v, w)) /\ Cardinality(Differ(v, w)) \in Nat /\ Differ(v, w) = Differ(w, v)
<1>1. Differ(v, w) \in SUBSET Bits /\ Differ(v, w) = Differ(w, v)
  BY DedupAssumption DEF Differ
<1>2. IsFiniteSet(Differ(v, w))
  BY <1>1, BitsFinite, FS_Subset
<1> QED BY <1>1, <1>2, FS_CardinalityType

(* Fingerprints that differ in fewer bits than there are bands share a band: the  *)
(* bands in which they differ are at most as many as the bits.                    *)
LEMMA CloseWordsShareBand ==
    ASSUME NEW v \in Words, NEW w \in Words, HammingThreshold < LSH_BANDS,
           hamming_distance(v, w) <= HammingThreshold
    PROVE  band_keys(v) \cap band_keys(w) # {}
<1> SUFFICES ASSUME band_keys(v) \cap band_keys(w) = {} PROVE FALSE
  OBVIOUS
<1> DEFINE bit == [b \in BandNumbers |-> CHOOSE i \in Differ(v, w) : BandOf(i) = b]
<1>1. ASSUME NEW b \in BandNumbers PROVE \E i \in Differ(v, w) : BandOf(i) = b
  <2>1. Key(v, b) # Key(w, b)
    BY DEF band_keys
  <2>2. {i \in v : BandOf(i) = b} # {i \in w : BandOf(i) = b}
    BY <2>1 DEF Key
  <2> QED BY <2>2 DEF Differ
<1>2. \A b \in BandNumbers : bit[b] \in Differ(v, w) /\ BandOf(bit[b]) = b
  BY <1>1
<1>3. bit \in Injection(BandNumbers, Differ(v, w))
  BY <1>2 DEF Injection, IsInjective
<1>4. IsFiniteSet(Differ(v, w)) /\ Cardinality(Differ(v, w)) \in Nat
  BY DifferFinite
<1>5. Cardinality(BandNumbers) <= Cardinality(Differ(v, w))
  BY <1>3, <1>4, FS_Injection
<1>6. Cardinality(BandNumbers) = LSH_BANDS
  BY DedupAssumption, FS_Interval DEF BandNumbers
<1> QED BY <1>4, <1>5, <1>6, DedupAssumption DEF hamming_distance

(* What the comparison does not report is far: a fingerprint close to it would be *)
(* a candidate.                                                                   *)
LEMMA NotNearIsFar ==
    ASSUME NEW word \in Words, accepted \subseteq Rows, ~IsNear(word), NEW a \in accepted
    PROVE  Far(a.word, word)
<1> SUFFICES ASSUME BandsSuffice, hamming_distance(a.word, word) <= HammingThreshold PROVE FALSE
  <2>1. a.word \in Words
    BY DEF Rows
  <2> QED BY <2>1, DifferFinite, DedupAssumption DEF Far, hamming_distance
<1>1. a.word \in Words
  BY DEF Rows
<1>2. hamming_distance(word, a.word) <= HammingThreshold
  BY <1>1, DifferFinite DEF hamming_distance
<1>3. a.word \in Candidates(word)
  <2>1. band_keys(a.word) \cap band_keys(word) # {}
    BY <1>1, CloseWordsShareBand DEF BandsSuffice
  <2> QED BY <2>1 DEF Candidates
<1> QED BY <1>2, <1>3 DEF IsNear

--------------------------------------------------------------------------------
LEMMA BandsCount == LSH_BANDS \in Nat /\ LSH_BANDS > 0 /\ BandNumbers = 0..(LSH_BANDS - 1)
BY DedupAssumption DEF BandNumbers

LEMMA KeyType ==
    ASSUME NEW word \in Words, NEW b \in BandNumbers
    PROVE  Key(word, b) \in BandNumbers \X SUBSET Bits
<1>1. word \subseteq Bits
  BY DedupAssumption
<1> QED BY <1>1 DEF Key

(* What the type invariant says of a check that has begun.                        *)
Begun ==
    [pc : {"lock", "exact", "structure", "lineage", "compare", "commit"}, row : Rows, band : 0..LSH_BANDS,
     keys : SUBSET (BandNumbers \X SUBSET Bits), inserted : SUBSET (Kinds \X (ContentHashes \union Structures \union Lineages))]
LEMMA ActiveIsBegun ==
    ASSUME DedupTypeOK, NEW w \in DedupWorkers, Active(w)
    PROVE  check[w] \in Begun
BY DEF DedupTypeOK, Checks, Begun, Active, NoCheck

(* A check that ends or that never began leaves the others' locks and rows as     *)
(* they were: the invariant holds of what is left.                                *)
LEMMA EndKeeps ==
    ASSUME DedupInv, NEW w \in DedupWorkers, check' = [check EXCEPT ![w] = NoCheck], UNCHANGED accepted
    PROVE  DedupInv'
<1> USE DEF Active, NoCheck
<1>1. DedupTypeOK'
  BY DEF DedupInv, DedupTypeOK, Checks
<1>2. /\ check'[w].pc = "idle" /\ \A v \in DedupWorkers : v # w => check'[v] = check[v]
  BY DEF DedupInv, DedupTypeOK
<1>3. LocksHeld' /\ LocksExclusive'
  BY <1>2 DEF DedupInv, LocksHeld, LocksExclusive
<1>4. InsertsExclusive' /\ InsertsDone' /\ InsertsNew'
  BY <1>2 DEF DedupInv, InsertsExclusive, InsertsDone, InsertsNew
<1>5. CommitsFar' /\ NoDuplicates'
  BY <1>2 DEF DedupInv, CommitsFar, NoDuplicates
<1> QED BY <1>1, <1>3, <1>4, <1>5 DEF DedupInv

LEMMA BeginKeeps ==
    ASSUME DedupInv, NEW w \in DedupWorkers, BeginCheck(w)
    PROVE  DedupInv'
<1>1. PICK r \in Rows : check' = [check EXCEPT ![w] = [pc |-> "lock", row |-> r, band |-> 0, keys |-> {}, inserted |-> {}]]
  BY DEF BeginCheck
<1>2. UNCHANGED accepted
  BY DEF BeginCheck
<1>3. /\ check'[w] = [pc |-> "lock", row |-> r, band |-> 0, keys |-> {}, inserted |-> {}]
      /\ \A v \in DedupWorkers : v # w => check'[v] = check[v]
  BY <1>1 DEF DedupInv, DedupTypeOK
<1>4. DedupTypeOK'
  <2>1. check'[w] \in Checks
    BY <1>3, BandsCount DEF Checks
  <2> QED BY <1>1, <1>2, <1>3, <2>1 DEF DedupInv, DedupTypeOK
<1>5. LocksHeld' /\ LocksExclusive'
  BY <1>3, BandsCount DEF DedupInv, LocksHeld, LocksExclusive, Active
<1>6. InsertsExclusive' /\ InsertsDone' /\ InsertsNew'
  BY <1>2, <1>3 DEF DedupInv, InsertsExclusive, InsertsDone, InsertsNew, Active, DoneKinds
<1>7. CommitsFar' /\ NoDuplicates'
  BY <1>2, <1>3 DEF DedupInv, CommitsFar, NoDuplicates
<1> QED BY <1>4, <1>5, <1>6, <1>7 DEF DedupInv

LEMMA LockKeeps ==
    ASSUME DedupInv, NEW w \in DedupWorkers, LockBand(w)
    PROVE  DedupInv'
<1> DEFINE key == Key(check[w].row.word, check[w].band)
           n == check[w].band
<1>1. /\ check[w].pc = "lock" /\ check[w] \in Begun /\ n \in BandNumbers /\ n + 1 <= LSH_BANDS
      /\ check[w].row.word \in Words
  <2>1. check[w].pc = "lock" /\ check[w] \in Begun
    BY ActiveIsBegun DEF LockBand, InPlace, DedupInv, Active
  <2>2. n < LSH_BANDS /\ n \in 0..LSH_BANDS
    BY <2>1 DEF DedupInv, LocksHeld, Active, Begun
  <2> QED BY <2>1, <2>2, BandsCount DEF Begun, Rows
<1>2. /\ UNCHANGED accepted
      /\ check' = [check EXCEPT ![w] = [check[w] EXCEPT !.keys = @ \union {key}, !.band = n + 1,
                                                       !.pc = IF n + 1 = LSH_BANDS THEN "exact" ELSE "lock"]]
  BY DEF LockBand, NthKey
<1>3. \A v \in DedupWorkers : v # w /\ Active(v) => key \notin check[v].keys
  BY DEF LockBand, Free, HeldByOther, NthKey, Active
<1>4. /\ check'[w].pc = (IF n + 1 = LSH_BANDS THEN "exact" ELSE "lock")
      /\ check'[w].row = check[w].row /\ check'[w].inserted = check[w].inserted
      /\ check'[w].keys = check[w].keys \union {key} /\ check'[w].band = n + 1
      /\ check'[w] \in Begun
      /\ \A v \in DedupWorkers : v # w => check'[v] = check[v]
  <2>1. key \in BandNumbers \X SUBSET Bits
    BY <1>1, KeyType
  <2>2. /\ check' = [check EXCEPT ![w] = check'[w]] /\ check \in [DedupWorkers -> Checks]
        /\ check'[w] = [check[w] EXCEPT !.keys = @ \union {key}, !.band = n + 1,
                                         !.pc = IF n + 1 = LSH_BANDS THEN "exact" ELSE "lock"]
    BY <1>2 DEF DedupInv, DedupTypeOK
  <2>3. \A v \in DedupWorkers : v # w => check'[v] = check[v]
    BY <2>2
  <2>4. check'[w] \in Begun
    <3>1. n + 1 \in 0..LSH_BANDS
      BY <1>1, BandsCount
    <3>2. check[w].keys \union {key} \in SUBSET (BandNumbers \X SUBSET Bits)
      BY <1>1, <2>1 DEF Begun
    <3> QED BY <1>1, <2>2, <3>1, <3>2 DEF Begun
  <2> QED BY <1>1, <2>2, <2>3, <2>4 DEF Begun
<1>5. DedupTypeOK'
  BY <1>2, <1>4 DEF DedupInv, DedupTypeOK, Checks, Begun
<1>6. LocksHeld'
  <2>1. \A b \in BandNumbers : b < n + 1 => Key(check[w].row.word, b) \in check'[w].keys
    <3>1. \A b \in BandNumbers : b < n => Key(check[w].row.word, b) \in check[w].keys
      BY <1>1 DEF DedupInv, LocksHeld, Active
    <3>2. \A b \in BandNumbers : b < n + 1 => b < n \/ b = n
      BY <1>1, BandsCount
    <3> QED BY <1>4, <3>1, <3>2
  <2>2. CASE n + 1 = LSH_BANDS
    <3>1. band_keys(check[w].row.word) \subseteq check'[w].keys
      BY <2>1, <2>2, BandsCount DEF band_keys
    <3> QED BY <1>4, <2>2, <3>1 DEF DedupInv, LocksHeld, Active
  <2>3. CASE n + 1 # LSH_BANDS
    BY <1>1, <1>4, <2>1, <2>3, BandsCount DEF DedupInv, LocksHeld, Active
  <2> QED BY <2>2, <2>3
<1>7. LocksExclusive'
  BY <1>1, <1>3, <1>4 DEF DedupInv, LocksExclusive, Active
<1>8. InsertsExclusive' /\ InsertsNew'
  BY <1>1, <1>2, <1>4 DEF DedupInv, InsertsExclusive, InsertsNew, Active
<1>9. InsertsDone'
  BY <1>1, <1>4 DEF DedupInv, InsertsDone, Active, DoneKinds
<1>10. CommitsFar' /\ NoDuplicates'
  BY <1>1, <1>2, <1>4 DEF DedupInv, CommitsFar, NoDuplicates
<1> QED BY <1>5, <1>6, <1>7, <1>8, <1>9, <1>10 DEF DedupInv

LEMMA InsertKeeps ==
    ASSUME DedupInv, NEW w \in DedupWorkers, NEW kind \in Kinds, InsertHash(w, kind)
    PROVE  DedupInv'
<1> DEFINE hash == check[w].row[kind]
<1>1. /\ check[w].pc = kind /\ check[w] \in Begun /\ hash # NoHash
      /\ UNCHANGED accepted
      /\ check' = [check EXCEPT ![w] = [check[w] EXCEPT !.inserted = @ \union {<<kind, hash>>}, !.pc = Following(kind)]]
  BY ActiveIsBegun DEF InsertHash, InPlace, DedupInv, Active, Kinds
<1>2. hash \in ContentHashes \union Structures \union Lineages
  BY <1>1, DedupAssumption DEF Begun, Rows, Kinds
<1>3. Following(kind) \in {"structure", "lineage", "compare"} /\ DoneKinds(Following(kind)) = DoneKinds(kind) \union {kind}
  BY DEF Following, Kinds, DoneKinds
<1>4. /\ check'[w].pc = Following(kind)
      /\ check'[w].row = check[w].row /\ check'[w].keys = check[w].keys
      /\ check'[w].inserted = check[w].inserted \union {<<kind, hash>>}
      /\ check'[w] \in Begun
      /\ \A v \in DedupWorkers : v # w => check'[v] = check[v]
  <2>1. PICK set, place : set = check[w].inserted \union {<<kind, hash>>} /\ place = Following(kind)
    OBVIOUS
  <2>2. /\ check'[w] = [check[w] EXCEPT !.inserted = set, !.pc = place]
        /\ \A v \in DedupWorkers : v # w => check'[v] = check[v]
    BY <1>1, <2>1 DEF DedupInv, DedupTypeOK
  <2>3. set \in SUBSET (Kinds \X (ContentHashes \union Structures \union Lineages))
    BY <1>1, <1>2, <2>1 DEF Begun
  <2>4. place \in {"structure", "lineage", "compare"}
    BY <1>3, <2>1
  <2>5. check[w] \in Begun
    BY <1>1
  <2>6. /\ check'[w] \in Begun /\ check'[w].pc = place /\ check'[w].inserted = set
        /\ check'[w].row = check[w].row /\ check'[w].keys = check[w].keys
    BY <2>2, <2>3, <2>4, <2>5 DEF Begun
  <2> QED BY <2>1, <2>2, <2>6
<1>5. DedupTypeOK'
  BY <1>1, <1>4 DEF DedupInv, DedupTypeOK, Checks, Begun
<1>6. LocksHeld' /\ LocksExclusive'
  BY <1>1, <1>3, <1>4 DEF DedupInv, LocksHeld, LocksExclusive, Active, Kinds
<1>7. InsertsExclusive'
  <2>1. \A v \in DedupWorkers : v # w /\ Active(v) => <<kind, hash>> \notin check[v].inserted
    BY DEF InsertHash, InsertedByOther, Active
  <2> QED BY <1>1, <1>3, <1>4, <2>1 DEF DedupInv, InsertsExclusive, Active, Kinds
<1>8. InsertsNew'
  <2>1. \A a \in accepted : a[kind] # hash
    BY DEF InsertHash, Known
  <2> QED BY <1>1, <1>3, <1>4, <2>1 DEF DedupInv, InsertsNew, Active, Kinds
<1>9. InsertsDone'
  BY <1>1, <1>3, <1>4 DEF DedupInv, InsertsDone, Active, Kinds
<1>10. CommitsFar' /\ NoDuplicates'
  BY <1>1, <1>3, <1>4 DEF DedupInv, CommitsFar, NoDuplicates
<1> QED BY <1>5, <1>6, <1>7, <1>8, <1>9, <1>10 DEF DedupInv

(* A check that goes on to its next place, what it holds unchanged.               *)
LEMMA GoOnKeeps ==
    ASSUME DedupInv, NEW w \in DedupWorkers, UNCHANGED accepted,
           NEW place \in {"structure", "lineage", "compare", "commit"},
           check[w].pc \in {"exact", "structure", "lineage", "compare"},
           check' = [check EXCEPT ![w].pc = place],
           \A kind \in DoneKinds(place) \ DoneKinds(check[w].pc) : check[w].row[kind] = NoHash,
           place = "commit" => \A a \in accepted : Far(a.word, check[w].row.word)
    PROVE  DedupInv'
<1>1. check[w] \in Begun
  BY ActiveIsBegun DEF DedupInv, Active
<1>2. /\ check'[w].pc = place
      /\ check'[w].row = check[w].row /\ check'[w].keys = check[w].keys /\ check'[w].inserted = check[w].inserted
      /\ check'[w] \in Begun
      /\ \A v \in DedupWorkers : v # w => check'[v] = check[v]
  BY <1>1 DEF DedupInv, DedupTypeOK, Begun
<1>3. DedupTypeOK'
  BY <1>2 DEF DedupInv, DedupTypeOK, Checks, Begun
<1>4. LocksHeld' /\ LocksExclusive'
  BY <1>2 DEF DedupInv, LocksHeld, LocksExclusive, Active
<1>5. InsertsExclusive' /\ InsertsNew'
  BY <1>2 DEF DedupInv, InsertsExclusive, InsertsNew, Active
<1>6. InsertsDone'
  BY <1>2 DEF DedupInv, InsertsDone, Active
<1>7. CommitsFar' /\ NoDuplicates'
  BY <1>2 DEF DedupInv, CommitsFar, NoDuplicates, Far, BandsSuffice
<1> QED BY <1>3, <1>4, <1>5, <1>6, <1>7 DEF DedupInv

(* The commit: its row is new in every hash it has, far from the accepted rows,   *)
(* and shares no lock with a row that another check is about to commit.           *)
LEMMA CommitKeeps ==
    ASSUME DedupInv, NEW w \in DedupWorkers, Commit(w)
    PROVE  DedupInv'
<1> DEFINE row == check[w].row
<1>1. /\ check[w].pc = "commit" /\ check[w] \in Begun /\ row \in Rows /\ Active(w)
      /\ accepted' = accepted \union {row}
      /\ check' = [check EXCEPT ![w] = NoCheck]
  BY ActiveIsBegun DEF Commit, InPlace, DedupInv, Active, Begun
<1>2. check'[w] = NoCheck /\ \A v \in DedupWorkers : v # w => check'[v] = check[v]
  BY <1>1 DEF DedupInv, DedupTypeOK
<1>3. DedupTypeOK'
  BY <1>1 DEF DedupInv, DedupTypeOK, Checks
<1>4. LocksHeld' /\ LocksExclusive' /\ InsertsExclusive' /\ InsertsDone'
  BY <1>2 DEF DedupInv, LocksHeld, LocksExclusive, InsertsExclusive, InsertsDone, Active, NoCheck
<1>5. \A kind \in Kinds : row[kind] = NoHash \/ <<kind, row[kind]>> \in check[w].inserted
  BY <1>1 DEF DedupInv, InsertsDone, DoneKinds
<1>6. InsertsNew'
  <2> SUFFICES ASSUME NEW v \in DedupWorkers, v # w, Active(v), NEW kind \in Kinds
               PROVE  <<kind, row[kind]>> \notin check[v].inserted
    <3>1. \A v \in DedupWorkers : v # w /\ Active(v) =>
             \A kind \in Kinds : \A a \in accepted : <<kind, a[kind]>> \notin check[v].inserted
      BY DEF DedupInv, InsertsNew
    <3>2. ASSUME NEW v \in DedupWorkers, Active(v)', NEW kind \in Kinds, NEW a \in accepted'
          PROVE  <<kind, a[kind]>> \notin check'[v].inserted
      <4>1. v # w /\ check'[v] = check[v] /\ Active(v)
        BY <1>2, <3>2 DEF Active, NoCheck
      <4>2. CASE a \in accepted
        BY <3>1, <4>1, <4>2
      <4>3. CASE a = row
        BY <4>1, <4>3
      <4> QED BY <1>1, <4>2, <4>3
    <3> QED BY <3>2 DEF InsertsNew
  <2>1. check[v] \in Begun
    BY ActiveIsBegun DEF DedupInv
  <2>2. CASE row[kind] = NoHash
    BY <2>1, <2>2, DedupAssumption DEF Begun
  <2>3. CASE <<kind, row[kind]>> \in check[w].inserted
    BY <1>1, <2>3 DEF DedupInv, InsertsExclusive
  <2> QED BY <1>5, <2>2, <2>3
<1>7. CommitsFar'
  <2> SUFFICES ASSUME NEW v \in DedupWorkers, v # w, check[v].pc = "commit"
               PROVE  Far(row.word, check[v].row.word)
    BY <1>1, <1>2 DEF DedupInv, CommitsFar, Far, BandsSuffice, NoCheck
  <2>1. check[v] \in Begun /\ check[v].row.word \in Words /\ row.word \in Words
    BY <1>1, ActiveIsBegun DEF DedupInv, Active, Begun, Rows
  <2>2. band_keys(row.word) \subseteq check[w].keys /\ band_keys(check[v].row.word) \subseteq check[v].keys
    BY <1>1 DEF DedupInv, LocksHeld, Active
  <2>3. check[v].keys \cap check[w].keys = {}
    BY <1>1 DEF DedupInv, LocksExclusive, Active
  <2> SUFFICES ASSUME HammingThreshold < LSH_BANDS
               PROVE  hamming_distance(row.word, check[v].row.word) > HammingThreshold
    BY DEF Far, BandsSuffice
  <2>4. ~(hamming_distance(row.word, check[v].row.word) <= HammingThreshold)
    BY <2>1, <2>2, <2>3, CloseWordsShareBand
  <2> QED BY <2>1, <2>4, DifferFinite, DedupAssumption DEF hamming_distance
<1>8. NoDuplicates'
  <2>1. \A a \in accepted : ~SameHash(a, row)
    <3> SUFFICES ASSUME NEW a \in accepted, NEW kind \in Kinds, a[kind] = row[kind], row[kind] # NoHash
                 PROVE  FALSE
      BY DEF SameHash
    <3>1. <<kind, row[kind]>> \in check[w].inserted
      BY <1>5
    <3>2. <<kind, a[kind]>> \notin check[w].inserted
      BY <1>1 DEF DedupInv, InsertsNew
    <3> QED BY <3>1, <3>2
  <2>2. \A a \in accepted : ~SameHash(row, a)
    BY <2>1 DEF SameHash
  <2>3. \A a \in accepted : Far(a.word, row.word)
    BY <1>1 DEF DedupInv, CommitsFar
  <2>4. \A a \in accepted : Far(row.word, a.word)
    <3> SUFFICES ASSUME NEW a \in accepted PROVE Far(row.word, a.word)
      OBVIOUS
    <3>1. a.word \in Words /\ row.word \in Words
      BY <1>1 DEF DedupInv, DedupTypeOK, Rows
    <3> QED BY <2>3, <3>1, DifferFinite DEF Far, hamming_distance
  <2>5. \A a, b \in accepted : a # b => ~SameHash(a, b) /\ Far(a.word, b.word)
    BY DEF DedupInv, NoDuplicates, Far
  <2>6. \A a, b \in accepted' : a # b => ~SameHash(a, b) /\ Far(a.word, b.word)
    BY <1>1, <2>1, <2>2, <2>3, <2>4, <2>5
  <2> QED BY <2>6 DEF NoDuplicates, Far, SameHash, BandsSuffice
<1> QED BY <1>3, <1>4, <1>6, <1>7, <1>8 DEF DedupInv

LEMMA DedupStepKeeps == DedupInv /\ [DedupNext]_dedupVars => DedupInv'
<1> SUFFICES ASSUME DedupInv, [DedupNext]_dedupVars PROVE DedupInv'
  OBVIOUS
<1>1. ASSUME NEW w \in DedupWorkers, BeginCheck(w) PROVE DedupInv'
  BY <1>1, BeginKeeps
<1>2. ASSUME NEW w \in DedupWorkers, LockBand(w) PROVE DedupInv'
  BY <1>2, LockKeeps
<1>3. ASSUME NEW w \in DedupWorkers, NEW kind \in Kinds, InsertHash(w, kind) PROVE DedupInv'
  BY <1>3, InsertKeeps
<1>4. ASSUME NEW w \in DedupWorkers, NEW kind \in Kinds, SkipHash(w, kind) PROVE DedupInv'
  <2>1. /\ Following(kind) \in {"structure", "lineage", "compare"} /\ DoneKinds(Following(kind)) = DoneKinds(kind) \union {kind}
        /\ kind \in {"exact", "structure", "lineage"}
    BY DEF Following, Kinds, DoneKinds
  <2>2. /\ check[w].pc = kind /\ check[w].row[kind] = NoHash /\ UNCHANGED accepted
        /\ check' = [check EXCEPT ![w].pc = Following(kind)]
    BY <1>4 DEF SkipHash, InPlace, GoOn
  <2> QED BY <2>1, <2>2, GoOnKeeps
<1>5. ASSUME NEW w \in DedupWorkers, NEW kind \in Kinds, RejectKnown(w, kind) PROVE DedupInv'
  BY <1>5, EndKeeps DEF RejectKnown
<1>6. ASSUME NEW w \in DedupWorkers, CompareRow(w) PROVE DedupInv'
  <2>1. check[w].pc = "compare" /\ UNCHANGED accepted
    BY <1>6 DEF CompareRow, InPlace
  <2>2. CASE IsNear(check[w].row.word)
    BY <1>6, <2>2, EndKeeps DEF CompareRow
  <2>3. CASE ~IsNear(check[w].row.word)
    <3>1. check[w] \in Begun /\ check[w].row.word \in Words /\ accepted \subseteq Rows
      BY <2>1, ActiveIsBegun DEF DedupInv, DedupTypeOK, Active, Begun, Rows
    <3>2. \A a \in accepted : Far(a.word, check[w].row.word)
      BY <2>3, <3>1, NotNearIsFar
    <3>3. check' = [check EXCEPT ![w].pc = "commit"]
      BY <1>6, <2>3 DEF CompareRow
    <3>4. DoneKinds("commit") \ DoneKinds("compare") = {}
      BY DEF DoneKinds
    <3> QED BY <2>1, <3>2, <3>3, <3>4, GoOnKeeps
  <2> QED BY <2>2, <2>3
<1>7. ASSUME NEW w \in DedupWorkers, Commit(w) PROVE DedupInv'
  BY <1>7, CommitKeeps
<1>8. ASSUME NEW w \in DedupWorkers, Rollback(w) PROVE DedupInv'
  BY <1>8, EndKeeps DEF Rollback
<1>9. CASE UNCHANGED dedupVars
  BY <1>9 DEF dedupVars, DedupInv, DedupTypeOK, LocksHeld, LocksExclusive, InsertsExclusive, InsertsDone,
              InsertsNew, CommitsFar, NoDuplicates, Active, Far, BandsSuffice, SameHash
<1> QED BY <1>1, <1>2, <1>3, <1>4, <1>5, <1>6, <1>7, <1>8, <1>9 DEF DedupNext, DedupStep

LEMMA DedupInitHolds == DedupInit => DedupInv
BY DEF DedupInit, DedupInv, DedupTypeOK, Checks, NoCheck, LocksHeld, LocksExclusive, InsertsExclusive,
       InsertsDone, InsertsNew, CommitsFar, NoDuplicates, Active

(* Accepted rows are never duplicates of one another, whatever the number of      *)
(* workers and the size of the fingerprints, as long as there are more bands than *)
(* the bits two duplicates may differ in.                                         *)
THEOREM DedupSafe == DedupSpec => []NoDuplicates
<1>1. DedupInv => NoDuplicates
  BY DEF DedupInv
<1> QED BY <1>1, DedupInitHolds, DedupStepKeeps, PTL DEF DedupSpec

(* A transaction's state is always of its types.                                  *)
THEOREM DedupTyped == DedupSpec => []DedupTypeOK
<1>1. DedupInv => DedupTypeOK
  BY DEF DedupInv
<1> QED BY <1>1, DedupInitHolds, DedupStepKeeps, PTL DEF DedupSpec

------------------------------------------------------------------------------
(* Waiting for one another: the check that got furthest can always go on.    *)

(* The locks of a check are of bands before the one it is at, and what it has      *)
(* inserted is of the kinds before its place.                                      *)
LocksBehind == \A w \in DedupWorkers : check[w].pc = "lock" => \A key \in check[w].keys : key[1] < check[w].band
InsertsBehind == \A w \in DedupWorkers : Active(w) => \A entry \in check[w].inserted : entry[1] \in DoneKinds(check[w].pc)
OrderInv == DedupInv /\ LocksBehind /\ InsertsBehind

LEMMA OrderStep == OrderInv /\ [DedupNext]_dedupVars => OrderInv'
<1> SUFFICES ASSUME OrderInv, [DedupNext]_dedupVars PROVE OrderInv'
  OBVIOUS
<1>d. DedupInv'
  BY DedupStepKeeps DEF OrderInv
<1>f. check \in [DedupWorkers -> Checks]
  BY DEF OrderInv, DedupInv, DedupTypeOK
<1>g. ASSUME NEW w \in DedupWorkers, NEW new, check' = [check EXCEPT ![w] = new],
             new.pc = "lock" => \A key \in new.keys : key[1] < new.band,
             new.pc # "idle" => \A entry \in new.inserted : entry[1] \in DoneKinds(new.pc)
      PROVE  OrderInv'
  <2>1. check'[w] = new /\ \A v \in DedupWorkers : v # w => check'[v] = check[v]
    BY <1>f, <1>g
  <2>2. LocksBehind'
    BY <1>g, <2>1 DEF OrderInv, LocksBehind
  <2>3. InsertsBehind'
    BY <1>g, <2>1 DEF OrderInv, InsertsBehind, Active
  <2> QED BY <1>d, <2>2, <2>3 DEF OrderInv
<1>n. NoCheck.pc = "idle"
  BY DEF NoCheck
<1>1. CASE UNCHANGED dedupVars
  BY <1>1, <1>d DEF OrderInv, LocksBehind, InsertsBehind, Active, dedupVars
<1>2. ASSUME NEW w \in DedupWorkers, BeginCheck(w) PROVE OrderInv'
  BY <1>2, <1>g DEF BeginCheck
<1>3. ASSUME NEW w \in DedupWorkers, LockBand(w) PROVE OrderInv'
  <2>1. check[w].pc = "lock" /\ check[w] \in Begun /\ check[w].band \in Nat
    BY <1>3, ActiveIsBegun DEF LockBand, InPlace, Active, OrderInv, DedupInv, Begun
  <2>2. PICK key, place, new :
           /\ key = NthKey(check[w].row, check[w].band)
           /\ place = IF check[w].band + 1 = LSH_BANDS THEN "exact" ELSE "lock"
           /\ new = [check[w] EXCEPT !.keys = @ \union {key}, !.band = @ + 1, !.pc = place]
    OBVIOUS
  <2>3. check' = [check EXCEPT ![w] = new]
    BY <1>3, <1>f, <2>2 DEF LockBand
  <2>4. /\ new.keys = check[w].keys \union {key} /\ new.band = check[w].band + 1 /\ new.pc = place
        /\ new.inserted = check[w].inserted
    BY <2>1, <2>2 DEF Begun
  <2>5. key[1] = check[w].band
    BY <2>2 DEF NthKey, Key
  <2>6. ASSUME NEW k \in new.keys, new.pc = "lock" PROVE k[1] < new.band
    <3>1. CASE k \in check[w].keys
      <4>1. k[1] < check[w].band /\ k[1] \in Int
        BY <2>1, <3>1 DEF OrderInv, LocksBehind, Begun, BandNumbers
      <4> QED BY <4>1, <2>1, <2>4
    <3>2. CASE k = key
      BY <2>1, <2>4, <2>5, <3>2
    <3> QED BY <2>4, <2>6, <3>1, <3>2
  <2>7. ASSUME NEW entry \in new.inserted PROVE entry[1] \in DoneKinds(new.pc)
    BY <2>1, <2>4, <2>7 DEF OrderInv, InsertsBehind, Active, DoneKinds
  <2> QED BY <1>g, <2>3, <2>6, <2>7
<1>4. ASSUME NEW w \in DedupWorkers, NEW kind \in Kinds, InsertHash(w, kind) PROVE OrderInv'
  <2>1. check[w].pc = kind /\ check[w] \in Begun
    BY <1>4, ActiveIsBegun DEF InsertHash, InPlace, Active, OrderInv, DedupInv, Begun, Kinds
  <2>2. PICK entry, new : /\ entry = <<kind, check[w].row[kind]>>
                          /\ new = [check[w] EXCEPT !.inserted = @ \union {entry}, !.pc = Following(kind)]
    OBVIOUS
  <2>3. check' = [check EXCEPT ![w] = new]
    BY <1>4, <1>f, <2>2 DEF InsertHash
  <2>4. new.inserted = check[w].inserted \union {entry} /\ new.pc = Following(kind)
    BY <2>1, <2>2 DEF Begun
  <2>5. /\ Following(kind) \in {"structure", "lineage", "compare"}
        /\ DoneKinds(Following(kind)) = DoneKinds(kind) \union {kind}
    BY DEF Following, Kinds, DoneKinds
  <2>6. \A e \in check[w].inserted : e[1] \in DoneKinds(kind)
    BY <2>1 DEF OrderInv, InsertsBehind, Active, Kinds
  <2>7. entry[1] = kind
    BY <2>2
  <2>8. new.pc # "lock" /\ \A e \in new.inserted : e[1] \in DoneKinds(new.pc)
    BY <2>4, <2>5, <2>6, <2>7
  <2> QED BY <1>g, <2>3, <2>8
<1>5. ASSUME NEW w \in DedupWorkers, NEW place, NEW kind \in Kinds \union {"compare"}, check[w].pc = kind,
             place \in {"structure", "lineage", "compare", "commit"},
             DoneKinds(kind) \subseteq DoneKinds(place), check' = [check EXCEPT ![w].pc = place]
      PROVE  OrderInv'
  <2>1. check[w] \in Begun
    BY <1>5, ActiveIsBegun DEF Active, OrderInv, DedupInv, Kinds
  <2>2. PICK new : new = [check[w] EXCEPT !.pc = place]
    OBVIOUS
  <2>3. check' = [check EXCEPT ![w] = new] /\ new.pc = place /\ new.inserted = check[w].inserted
    BY <1>5, <2>1, <2>2 DEF Begun
  <2>4. \A e \in check[w].inserted : e[1] \in DoneKinds(kind)
    BY <1>5 DEF OrderInv, InsertsBehind, Active, Kinds
  <2> QED BY <1>5, <1>g, <2>3, <2>4
<1>6. ASSUME NEW w \in DedupWorkers, NEW kind \in Kinds, SkipHash(w, kind) PROVE OrderInv'
  <2>1. /\ Following(kind) \in {"structure", "lineage", "compare"}
        /\ DoneKinds(kind) \subseteq DoneKinds(Following(kind))
    BY DEF Following, Kinds, DoneKinds
  <2> QED BY <1>5, <1>6, <2>1 DEF SkipHash, InPlace, GoOn
<1>7. ASSUME NEW w \in DedupWorkers, check' = [check EXCEPT ![w] = NoCheck] PROVE OrderInv'
  BY <1>7, <1>g, <1>n
<1>8. ASSUME NEW w \in DedupWorkers, CompareRow(w) PROVE OrderInv'
  <2>1. CASE IsNear(check[w].row.word)
    BY <1>7, <1>8, <2>1 DEF CompareRow
  <2>2. CASE ~IsNear(check[w].row.word)
    <3>1. check' = [check EXCEPT ![w].pc = "commit"] /\ check[w].pc = "compare"
      BY <1>8, <2>2 DEF CompareRow, InPlace
    <3>2. DoneKinds("compare") \subseteq DoneKinds("commit")
      BY DEF DoneKinds
    <3> QED BY <1>5, <3>1, <3>2
  <2> QED BY <2>1, <2>2
<1> QED
  BY <1>1, <1>2, <1>3, <1>4, <1>6, <1>7, <1>8 DEF DedupNext, DedupStep, RejectKnown, Commit, Rollback

(* How far a check is: one that waits waits for one that is further.               *)
HowFar(w) ==
    CASE check[w].pc = "lock" -> check[w].band
      [] check[w].pc = "exact" -> LSH_BANDS
      [] check[w].pc = "structure" -> LSH_BANDS + 1
      [] check[w].pc = "lineage" -> LSH_BANDS + 2
      [] OTHER -> LSH_BANDS + 3

LEMMA FurthestSteps ==
    ASSUME OrderInv, NEW w \in DedupWorkers, Active(w),
           \A v \in DedupWorkers : Active(v) => HowFar(v) <= HowFar(w)
    PROVE  CanStep(w)
<1>1. check[w] \in Begun
  BY ActiveIsBegun DEF OrderInv, DedupInv
<1>b. LSH_BANDS \in Nat
  BY BandsCount
<1>2. CASE check[w].pc = "lock"
  <2>1. check[w].band \in Nat /\ check[w].band < LSH_BANDS /\ HowFar(w) = check[w].band
    BY <1>1, <1>2, <1>b DEF HowFar, Begun, OrderInv, DedupInv, LocksHeld, Active
  <2>2. PICK key : key = NthKey(check[w].row, check[w].band)
    OBVIOUS
  <2>3. key[1] = check[w].band
    BY <2>2 DEF NthKey, Key
  <2>4. ASSUME NEW v \in DedupWorkers, Active(v), key \in check[v].keys PROVE FALSE
    <3>1. HowFar(v) <= check[w].band /\ check[v] \in Begun
      BY <2>1, <2>4, ActiveIsBegun DEF OrderInv, DedupInv
    <3>2. check[v].pc = "lock"
      BY <1>b, <2>1, <3>1 DEF HowFar, Begun
    <3>3. HowFar(v) = check[v].band /\ check[v].band \in Nat /\ check[w].band < check[v].band
      BY <2>3, <2>4, <3>1, <3>2 DEF HowFar, OrderInv, LocksBehind, Begun
    <3> QED BY <2>1, <3>1, <3>3
  <2> QED BY <1>2, <2>2, <2>4 DEF CanStep, InPlace, Free, HeldByOther, Active
<1>3. ASSUME NEW kind \in Kinds, check[w].pc = kind PROVE CanStep(w)
  <2>1. ASSUME NEW v \in DedupWorkers, Active(v), NEW hash, <<kind, hash>> \in check[v].inserted PROVE FALSE
    <3>1. check[v] \in Begun /\ HowFar(v) <= HowFar(w)
      BY <2>1, ActiveIsBegun DEF OrderInv, DedupInv
    <3>2. kind \in DoneKinds(check[v].pc)
      BY <2>1 DEF OrderInv, InsertsBehind
    <3>3. CASE kind = "exact"
      BY <1>3, <1>b, <3>1, <3>2, <3>3 DEF HowFar, DoneKinds, Kinds, Begun
    <3>4. CASE kind = "structure"
      BY <1>3, <1>b, <3>1, <3>2, <3>4 DEF HowFar, DoneKinds, Kinds, Begun
    <3>5. CASE kind = "lineage"
      BY <1>3, <1>b, <3>1, <3>2, <3>5 DEF HowFar, DoneKinds, Kinds, Begun
    <3> QED BY <3>3, <3>4, <3>5 DEF Kinds
  <2>2. ~InsertedByOther(w, kind, check[w].row[kind])
    BY <2>1 DEF InsertedByOther, Active
  <2> QED BY <1>3, <2>2 DEF CanStep, InPlace
<1>4. CASE check[w].pc \in {"compare", "commit"}
  BY <1>4 DEF CanStep, InPlace
<1> QED BY <1>1, <1>2, <1>3, <1>4 DEF Begun, Kinds

(* The checks of the workers never wait for one another in a circle: the one that  *)
(* is furthest can go on.                                                          *)
THEOREM NoCheckIsStuck == DedupSpec => []NoCircle
<1>1. DedupInit => OrderInv
  BY DedupInitHolds DEF OrderInv, LocksBehind, InsertsBehind, DedupInit, Active, NoCheck
<1>2. OrderInv => NoCircle
  <2> SUFFICES ASSUME OrderInv, NEW u \in DedupWorkers, Active(u) PROVE \E w \in DedupWorkers : CanStep(w)
    BY DEF NoCircle, InPlace, Active
  <2>1. PICK T : T = {HowFar(w) : w \in {v \in DedupWorkers : Active(v)}}
    OBVIOUS
  <2>b. LSH_BANDS \in Nat
    BY BandsCount
  <2>2. \A w \in DedupWorkers : Active(w) => HowFar(w) \in 0..(LSH_BANDS + 3)
    <3> SUFFICES ASSUME NEW w \in DedupWorkers, Active(w) PROVE HowFar(w) \in 0..(LSH_BANDS + 3)
      OBVIOUS
    <3>1. check[w] \in Begun
      BY ActiveIsBegun DEF OrderInv, DedupInv
    <3>2. check[w].band \in 0..LSH_BANDS
      BY <3>1 DEF Begun
    <3> QED BY <2>b, <3>2 DEF HowFar
  <2>3. T \subseteq 0..(LSH_BANDS + 3) /\ T # {}
    BY <2>1, <2>2
  <2>4. PICK n \in T : \A m \in T : m <= n
    <3>1. PICK N : N = LSH_BANDS + 3
      OBVIOUS
    <3>2. N \in Nat /\ T \subseteq 0..N
      BY <2>b, <2>3, <3>1
    <3> QED BY <2>3, <3>2, GreatestNat
  <2>5. PICK w \in DedupWorkers : Active(w) /\ n = HowFar(w)
    BY <2>1, <2>4
  <2>6. \A v \in DedupWorkers : Active(v) => HowFar(v) <= HowFar(w)
    BY <2>1, <2>4, <2>5
  <2> QED BY <2>5, <2>6, FurthestSteps
<1> QED BY <1>1, <1>2, OrderStep, PTL DEF DedupSpec

------------------------------------------------------------------------------
(* Approvals of sources.                                                     *)

(* Every approval beside a license is one a person signed; what production        *)
(* verifies, it selected for a use other than evaluation.                         *)
ClerkFields == {"pc", "loaded", "fetched", "source", "selected"}
ApprovalsSigned ==
    /\ DOMAIN legal = Sources
    /\ \A s \in Sources : /\ DOMAIN legal[s] = {"text", "approval"}
                          /\ legal[s].approval \in signed \union {NoApproval}
SelectedForTraining ==
    /\ DOMAIN clerk = Clerks
    /\ \A c \in Clerks :
          /\ DOMAIN clerk[c] = ClerkFields
          /\ clerk[c].pc = "verify" =>
                \A s \in clerk[c].selected : s \in Sources /\ UseOf(clerk[c].loaded[s].contract) # "evaluation_only"
ApprovalInv == ApprovalsSigned /\ SelectedForTraining /\ ApprovedSources

LEMMA ApprovalInitial == ApprovalInit => ApprovalInv
  BY DEF ApprovalInit, ApprovalInv, ApprovalsSigned, SelectedForTraining, ApprovedSources, ClerkFree, ClerkFields

(* A step of a clerk that goes anywhere but to the verification.                  *)
LEMMA ClerkMoves ==
    ASSUME SelectedForTraining, NEW c \in Clerks, NEW new, DOMAIN new = ClerkFields, ClerkGoes(c, new),
           new.pc = "verify" => \A s \in new.selected : s \in Sources /\ UseOf(new.loaded[s].contract) # "evaluation_only"
    PROVE  SelectedForTraining'
  BY DEF SelectedForTraining, ClerkGoes

LEMMA ClerkLeaves == ASSUME SelectedForTraining, NEW c \in Clerks, ClerkEnds(c) PROVE SelectedForTraining'
<1>1. DOMAIN ClerkFree = ClerkFields /\ ClerkFree.pc # "verify" BY DEF ClerkFree, ClerkFields
<1> QED BY <1>1, ClerkMoves DEF ClerkEnds

LEMMA ApprovalStep == ApprovalInv /\ [ApprovalNext]_approvalVars => ApprovalInv'
<1> SUFFICES ASSUME ApprovalInv, [ApprovalNext]_approvalVars PROVE ApprovalInv' OBVIOUS
<1> USE DEF ApprovalInv
<1>u. ASSUME UNCHANGED <<legal, signed>> PROVE ApprovalsSigned' BY <1>u DEF ApprovalsSigned
<1>v. ASSUME UNCHANGED clerk PROVE SelectedForTraining' BY <1>v DEF SelectedForTraining
<1>w. ASSUME UNCHANGED <<collected, signed>> PROVE ApprovedSources' BY <1>w DEF ApprovedSources
<1>m. ASSUME NEW c \in Clerks, ClerkOnly(c), SelectedForTraining' PROVE ApprovalInv'
    BY <1>m, <1>u, <1>w DEF ClerkOnly
<1>d. \A c \in Clerks : DOMAIN clerk[c] = ClerkFields BY DEF SelectedForTraining
<1>1. CASE UNCHANGED approvalVars BY <1>1, <1>u, <1>v, <1>w DEF approvalVars
<1>2. ASSUME NEW s \in Sources, SignApproval(s) PROVE ApprovalInv'
  <2>1. PICK seen \in Reviewable(s) :
            LET approval == [source |-> s, contract |-> seen.contract, revision |-> seen.edition,
                             license |-> seen.edition, use |-> UseOf(seen.contract)]
            IN  /\ signed' = signed \union {approval}
                /\ legal' = [legal EXCEPT ![s] = [text |-> seen.edition, approval |-> approval]]
                /\ UNCHANGED <<registry, upstream, candidates, clerk, sourceEdits, collected>>
      BY <1>2 DEF SignApproval
  <2>2. ApprovalsSigned' BY <2>1 DEF ApprovalsSigned
  <2>3. ApprovedSources' BY <2>1 DEF ApprovedSources
  <2> QED BY <2>1, <2>2, <2>3, <1>v
<1>3. ASSUME NEW s \in Sources, EditLicense(s) PROVE ApprovalInv'
  <2>1. PICK e : legal' = [legal EXCEPT ![s].text = e] BY <1>3 DEF EditLicense
  <2>2. ApprovalsSigned' BY <1>3, <2>1 DEF EditLicense, ApprovalsSigned
  <2> QED BY <2>2, <1>3, <1>v, <1>w DEF EditLicense
<1>4. ASSUME NEW s \in Sources, PublishEdition(s) PROVE ApprovalInv'
    BY <1>4, <1>u, <1>v, <1>w DEF PublishEdition
<1>5. ASSUME NEW s \in Sources, NEW contract \in Contracts, EditContract(s, contract) PROVE ApprovalInv'
    BY <1>5, <1>u, <1>v, <1>w DEF EditContract
<1>6. ASSUME NEW c \in Clerks, MaterializeBegins(c) PROVE ApprovalInv'
  <2> DEFINE new == [ClerkFree EXCEPT !.pc = "fetch", !.loaded = registry]
  <2>1. DOMAIN new = ClerkFields /\ new.pc # "verify" BY DEF ClerkFree, ClerkFields
  <2>2. ClerkGoes(c, new) /\ ClerkOnly(c) BY <1>6 DEF MaterializeBegins
  <2> HIDE DEF new
  <2> QED BY <2>1, <2>2, <1>m, ClerkMoves
<1>7. ASSUME NEW c \in Clerks, FetchEvidence(c) PROVE ApprovalInv'
  <2>1. PICK s \in Sources :
            ClerkGoes(c, [clerk[c] EXCEPT !.fetched = [r \in DOMAIN @ \union {s} |->
              IF r = s THEN [contract |-> clerk[c].loaded[s].request, edition |-> upstream[s]] ELSE @[r]]])
      BY <1>7 DEF FetchEvidence
  <2> DEFINE new == [clerk[c] EXCEPT !.fetched = [r \in DOMAIN @ \union {s} |->
              IF r = s THEN [contract |-> clerk[c].loaded[s].request, edition |-> upstream[s]] ELSE @[r]]]
  <2>2. DOMAIN new = ClerkFields /\ new.pc # "verify"
      BY <1>7, <1>d DEF FetchEvidence, AtClerk, ClerkFields
  <2>3. ClerkGoes(c, new) /\ ClerkOnly(c) BY <1>7, <2>1 DEF FetchEvidence
  <2> HIDE DEF new
  <2> QED BY <2>2, <2>3, <1>m, ClerkMoves
<1>8. ASSUME NEW c \in Clerks, MaterializeEnds(c) PROVE ApprovalInv'
    BY <1>8, <1>u, <1>w, ClerkLeaves DEF MaterializeEnds
<1>9. ASSUME NEW c \in Clerks, ApproveSource(c) PROVE ApprovalInv'
  <2>1. CASE ClerkEnds(c) BY <2>1, <1>9, <1>m, ClerkLeaves DEF ApproveSource
  <2>2. ASSUME NEW entry, ClerkGoes(c, [clerk[c] EXCEPT !.pc = "compare", !.loaded[clerk[c].source] = entry])
        PROVE  ApprovalInv'
    <3> DEFINE new == [clerk[c] EXCEPT !.pc = "compare", !.loaded[clerk[c].source] = entry]
    <3>1. DOMAIN new = ClerkFields /\ new.pc # "verify" BY <1>d DEF ClerkFields
    <3>2. ClerkGoes(c, new) BY <2>2
    <3>3. ClerkOnly(c) BY <1>9 DEF ApproveSource
    <3> HIDE DEF new
    <3> QED BY <3>1, <3>2, <3>3, <1>m, ClerkMoves
  <2> QED BY <1>9, <2>1, <2>2 DEF ApproveSource
<1>10. ASSUME NEW c \in Clerks, WriteCompares(c) PROVE ApprovalInv'
  <2>1. CASE ClerkEnds(c) BY <2>1, <1>10, <1>m, ClerkLeaves DEF WriteCompares
  <2>2. CASE ClerkGoes(c, [clerk[c] EXCEPT !.pc = "replace"])
    <3> DEFINE new == [clerk[c] EXCEPT !.pc = "replace"]
    <3>1. DOMAIN new = ClerkFields /\ new.pc # "verify" BY <1>d DEF ClerkFields
    <3>2. ClerkGoes(c, new) /\ ClerkOnly(c) BY <1>10, <2>2 DEF WriteCompares
    <3> HIDE DEF new
    <3> QED BY <3>1, <3>2, <1>m, ClerkMoves
  <2> QED BY <1>10, <2>1, <2>2 DEF WriteCompares
<1>11. ASSUME NEW c \in Clerks, WriteReplaces(c) PROVE ApprovalInv'
    BY <1>11, <1>u, <1>w, ClerkLeaves DEF WriteReplaces
<1>12. ASSUME NEW c \in Clerks, ProductionVerifies(c) PROVE ApprovalInv'
  <2> DEFINE me == clerk[c]
  <2>1. ASSUME NEW s \in me.selected, EvidenceHolds(s, me.loaded[s])
        PROVE  /\ UseOf(me.loaded[s].contract) # "evaluation_only"
               /\ \E approval \in signed :
                     /\ approval.source = s /\ approval.contract = me.loaded[s].request
                     /\ approval.revision = me.loaded[s].revision /\ approval.license = me.loaded[s].license
                     /\ approval.use = UseOf(me.loaded[s].contract)
    <3>1. s \in Sources /\ UseOf(me.loaded[s].contract) # "evaluation_only"
        BY <1>12, <2>1 DEF SelectedForTraining, ProductionVerifies, AtClerk
    <3>2. legal[s].approval = [source |-> s, contract |-> me.loaded[s].request, revision |-> me.loaded[s].revision,
                               license |-> me.loaded[s].license, use |-> UseOf(me.loaded[s].contract)]
        BY <2>1 DEF EvidenceHolds, Names
    <3>3. legal[s].approval # NoApproval BY <3>2 DEF NoApproval, UseOf
    <3>4. legal[s].approval \in signed BY <3>1, <3>3 DEF ApprovalsSigned
    <3> QED BY <3>1, <3>2, <3>4
  <2>2. CASE \A s \in me.selected : EvidenceHolds(s, me.loaded[s])
    <3>1. collected' = collected \union {[source |-> s, entry |-> me.loaded[s]] : s \in me.selected}
        BY <1>12, <2>2 DEF ProductionVerifies
    <3>2. UNCHANGED signed BY <1>12 DEF ProductionVerifies
    <3> HIDE DEF me
    <3>3. ApprovedSources' BY <3>1, <3>2, <2>1, <2>2 DEF ApprovedSources
    <3> QED BY <3>3, <1>12, <1>u, ClerkLeaves DEF ProductionVerifies
  <2>3. CASE ~ \A s \in me.selected : EvidenceHolds(s, me.loaded[s])
      BY <2>3, <1>12, <1>u, <1>w, ClerkLeaves DEF ProductionVerifies
  <2> QED BY <2>2, <2>3
<1>13. ASSUME NEW c \in Clerks, ClerkDies(c) PROVE ApprovalInv'
    BY <1>13, <1>m, ClerkLeaves DEF ClerkDies
<1>14. ASSUME NEW c \in Clerks, NEW s \in Sources, ApproveLoads(c, s) PROVE ApprovalInv'
  <2> DEFINE new == [ClerkFree EXCEPT !.pc = "approve", !.loaded = registry, !.source = s]
  <2>1. DOMAIN new = ClerkFields /\ new.pc # "verify" BY DEF ClerkFree, ClerkFields
  <2>2. ClerkGoes(c, new) /\ ClerkOnly(c) BY <1>14 DEF ApproveLoads
  <2> HIDE DEF new
  <2> QED BY <2>1, <2>2, <1>m, ClerkMoves
<1>15. ASSUME NEW c \in Clerks, NEW chosen \in SUBSET Sources, ProductionLoads(c, chosen) PROVE ApprovalInv'
  <2> DEFINE new == [ClerkFree EXCEPT !.pc = "verify", !.loaded = registry, !.selected = chosen]
  <2>1. DOMAIN new = ClerkFields /\ new.selected = chosen /\ new.loaded = registry BY DEF ClerkFree, ClerkFields
  <2>2. ClerkGoes(c, new) /\ ClerkOnly(c)
        /\ \A s \in chosen : s \in Sources /\ UseOf(registry[s].contract) # "evaluation_only"
      BY <1>15 DEF ProductionLoads
  <2> HIDE DEF new
  <2> QED BY <2>1, <2>2, <1>m, ClerkMoves
<1> QED
    BY <1>1, <1>2, <1>3, <1>4, <1>5, <1>6, <1>7, <1>8, <1>9, <1>10, <1>11, <1>12, <1>13, <1>14, <1>15
    DEF ApprovalNext

(* ApprovedSources: what production collects a person approved, for every number   *)
(* of sources, contracts, editions and commands that run together and every edit   *)
(* of the files between their steps.                                               *)
THEOREM SourcesApproved == ApprovalSpec => []ApprovedSources
<1>1. ApprovalInv => ApprovedSources BY DEF ApprovalInv
<1> QED BY <1>1, ApprovalInitial, ApprovalStep, PTL DEF ApprovalSpec

------------------------------------------------------------------------------
(* The crawl.                                                                *)

(* A worker's URL is in progress in the frontier and its own, an engine that is   *)
(* down has no workers, and a good page is in the clean shard before it is        *)
(* recorded, under the cycle that wrote it.                                       *)
CrawlTyped ==
    /\ DOMAIN frontier = Urls
    /\ \A u \in Urls : DOMAIN frontier[u] = {"status", "attempts", "depth", "due"}
    /\ DOMAIN crawler = Crawlers
    /\ \A w \in Crawlers : DOMAIN crawler[w] = {"pc", "url", "page"}
    /\ DOMAIN engine = {"up", "fetched"}
    /\ DOMAIN supervisor = {"cycles", "failures", "status"}
    /\ supervisor.cycles \in Nat
ClaimsHeld == \A w \in Crawlers : Holds(w) => crawler[w].url \in Urls /\ frontier[crawler[w].url].status = "in_progress"
ClaimsExclusive == \A v, w \in Crawlers : Holds(v) /\ Holds(w) /\ v # w => crawler[v].url # crawler[w].url
DownIsEmpty == ~engine.up => \A w \in Crawlers : crawler[w].pc = "returned"
WrittenFirst ==
    \A w \in Crawlers : crawler[w].pc = "record" /\ crawler[w].page \in GoodPages => CrawledRow(w) \in shards.clean
RecordedIsClean ==
    \A p \in DOMAIN documents :
        /\ documents[p].cycle \in Nat /\ documents[p].cycle <= supervisor.cycles
        /\ p \in GoodPages /\ documents[p].cycle = supervisor.cycles => documents[p] \in shards.clean
CrawlInv == CrawlTyped /\ ClaimsHeld /\ ClaimsExclusive /\ DownIsEmpty /\ WrittenFirst /\ RecordedIsClean

LEMMA CrawlInitial == CrawlInit => CrawlInv
<1> SUFFICES ASSUME CrawlInit PROVE CrawlInv OBVIOUS
<1>1. CrawlTyped BY DEF CrawlInit, CrawlTyped, NotSeen, Resting
<1>2. ClaimsHeld /\ ClaimsExclusive /\ DownIsEmpty /\ WrittenFirst
    BY DEF CrawlInit, ClaimsHeld, ClaimsExclusive, DownIsEmpty, WrittenFirst, Holds, Resting
<1>3. RecordedIsClean BY DEF CrawlInit, RecordedIsClean
<1> QED BY <1>1, <1>2, <1>3 DEF CrawlInv

(* Steps of one worker that keep what it holds, or let go of it.                  *)
LEMMA CrawlerGoes ==
    ASSUME CrawlInv, NEW w \in Crawlers, NEW place, Then(w, place), UNCHANGED <<documents, shards, supervisor>>,
           engine.up, engine'.up, CrawlTyped',
           crawler[w].pc \notin {"ready", "returned"}, place # "record",
           \A u \in Urls : u # crawler[w].url /\ frontier[u].status = "in_progress" => frontier'[u].status = "in_progress",
           \/ place = "ready"
           \/ frontier'[crawler[w].url].status = "in_progress"
    PROVE  CrawlInv'
<1>1. /\ \A v \in Crawlers : crawler'[v].url = crawler[v].url /\ crawler'[v].page = crawler[v].page
      /\ \A v \in Crawlers : v # w => crawler'[v] = crawler[v]
      /\ crawler'[w].pc = place
    BY DEF CrawlInv, CrawlTyped, Then
<1>3. ClaimsHeld' BY <1>1 DEF CrawlInv, ClaimsHeld, ClaimsExclusive, Holds
<1>4. ClaimsExclusive' BY <1>1 DEF CrawlInv, ClaimsExclusive, Holds
<1>5. DownIsEmpty' BY DEF DownIsEmpty
<1>6. WrittenFirst' BY <1>1 DEF CrawlInv, WrittenFirst, CrawledRow
<1>7. RecordedIsClean' BY DEF CrawlInv, RecordedIsClean
<1> QED BY <1>3, <1>4, <1>5, <1>6, <1>7 DEF CrawlInv

LEMMA WithUrlsKeeps ==
    ASSUME CrawlTyped, NEW new, NEW depth, frontier' = WithUrls(frontier, new, depth)
    PROVE  /\ DOMAIN frontier' = Urls
           /\ \A u \in Urls : DOMAIN frontier'[u] = {"status", "attempts", "depth", "due"}
           /\ \A u \in Urls : frontier[u].status = "in_progress" => frontier'[u] = frontier[u]
  BY DEF CrawlTyped, WithUrls, NotSeen

LEMMA CrawlStep == CrawlInv /\ [CrawlNext]_crawlVars => CrawlInv'
<1> SUFFICES ASSUME CrawlInv, [CrawlNext]_crawlVars PROVE CrawlInv' OBVIOUS
<1>t. CrawlTyped BY DEF CrawlInv
<1>h. ASSUME NEW w \in Crawlers, Holds(w)
      PROVE  crawler[w].url \in Urls /\ frontier[crawler[w].url].status = "in_progress"
    BY <1>h DEF CrawlInv, ClaimsHeld
<1>a. ASSUME NEW w \in Crawlers, NEW place, Then(w, place)
      PROVE  DOMAIN crawler' = Crawlers /\ \A v \in Crawlers : DOMAIN crawler'[v] = {"pc", "url", "page"}
    BY <1>a, <1>t DEF Then, CrawlTyped
<1>1. CASE UNCHANGED crawlVars
    BY <1>1 DEF crawlVars, CrawlInv, CrawlTyped, ClaimsHeld, ClaimsExclusive, DownIsEmpty, WrittenFirst,
       RecordedIsClean, Holds, CrawledRow
<1>2. CASE StartCycle
  <2>1. supervisor.cycles \in Nat /\ supervisor'.cycles = supervisor.cycles + 1
        /\ DOMAIN supervisor' = {"cycles", "failures", "status"}
      BY <1>2 DEF StartCycle, CrawlInv, CrawlTyped
  <2>2. \A w \in Crawlers : crawler'[w].pc = "ready" BY <1>2 DEF StartCycle, Resting
  <2>3. CrawlTyped' BY <1>2, <2>1, <1>t, WithUrlsKeeps DEF StartCycle, CrawlTyped, Resting
  <2>4. ClaimsHeld' /\ ClaimsExclusive' /\ WrittenFirst'
      BY <2>2 DEF ClaimsHeld, ClaimsExclusive, WrittenFirst, Holds
  <2>5. DownIsEmpty' BY <1>2 DEF StartCycle, DownIsEmpty
  <2>6. RecordedIsClean' BY <1>2, <2>1 DEF StartCycle, CrawlInv, RecordedIsClean
  <2> QED BY <2>3, <2>4, <2>5, <2>6 DEF CrawlInv
<1>3. CASE CycleEnds
  <2>1. /\ supervisor'.cycles = supervisor.cycles /\ DOMAIN supervisor' = {"cycles", "failures", "status"}
        /\ DOMAIN engine' = {"up", "fetched"}
        /\ UNCHANGED <<frontier, documents, shards, crawler>>
        /\ \A w \in Crawlers : crawler[w].pc = "returned"
      BY <1>3 DEF CycleEnds, CrawlInv, CrawlTyped
  <2> QED BY <2>1 DEF CrawlInv, CrawlTyped, ClaimsHeld, ClaimsExclusive, DownIsEmpty, WrittenFirst,
             RecordedIsClean, Holds, CrawledRow
<1>4. CASE CycleFails
  <2>1. /\ supervisor'.cycles = supervisor.cycles /\ DOMAIN supervisor' = {"cycles", "failures", "status"}
        /\ DOMAIN engine' = {"up", "fetched"}
        /\ UNCHANGED <<frontier, documents, shards>>
        /\ DOMAIN crawler' = Crawlers
        /\ \A w \in Crawlers : crawler'[w].pc = "returned" /\ DOMAIN crawler'[w] = {"pc", "url", "page"}
      BY <1>4 DEF CycleFails, CrawlInv, CrawlTyped, Resting
  <2> QED BY <2>1 DEF CrawlInv, CrawlTyped, ClaimsHeld, ClaimsExclusive, DownIsEmpty, WrittenFirst,
             RecordedIsClean, Holds
<1>5. ASSUME NEW u \in Urls, BecomesDue(u) PROVE CrawlInv'
  <2>1. /\ DOMAIN frontier' = Urls
        /\ \A v \in Urls : DOMAIN frontier'[v] = {"status", "attempts", "depth", "due"}
        /\ \A v \in Urls : frontier'[v].status = frontier[v].status
        /\ UNCHANGED <<documents, shards, crawler, engine, supervisor>>
      BY <1>5 DEF BecomesDue, CrawlInv, CrawlTyped
  <2> QED BY <2>1 DEF CrawlInv, CrawlTyped, ClaimsHeld, ClaimsExclusive, DownIsEmpty, WrittenFirst,
             RecordedIsClean, Holds, CrawledRow
<1>6. ASSUME NEW w \in Crawlers, ClaimUrl(w) PROVE CrawlInv'
  <2>1. PICK u \in Urls :
            /\ Shallowest(u)
            /\ frontier' = [frontier EXCEPT ![u].status = "in_progress", ![u].attempts = @ + 1]
            /\ crawler' = [crawler EXCEPT ![w] = [pc |-> "fetch", url |-> u, page |-> NoPage]]
      BY <1>6 DEF ClaimUrl
  <2>2. /\ DOMAIN frontier' = Urls
        /\ \A v \in Urls : DOMAIN frontier'[v] = {"status", "attempts", "depth", "due"}
        /\ frontier'[u].status = "in_progress"
        /\ \A v \in Urls : v # u => frontier'[v] = frontier[v]
      BY <2>1 DEF CrawlInv, CrawlTyped
  <2>3. /\ DOMAIN crawler' = Crawlers
        /\ \A v \in Crawlers : DOMAIN crawler'[v] = {"pc", "url", "page"}
        /\ crawler'[w].pc = "fetch" /\ crawler'[w].url = u
        /\ \A v \in Crawlers : v # w => crawler'[v] = crawler[v]
      BY <2>1 DEF CrawlInv, CrawlTyped
  <2>4. UNCHANGED <<documents, shards, engine, supervisor>> /\ engine.up BY <1>6 DEF ClaimUrl, Working
  <2>5. \A v \in Crawlers : Holds(v) => crawler[v].url # u
      BY <1>h, <2>1 DEF Shallowest, Claimable
  <2>6. CrawlTyped' BY <2>2, <2>3, <2>4, <1>t DEF CrawlTyped
  <2>7. ClaimsHeld' BY <2>2, <2>3, <2>5 DEF CrawlInv, ClaimsHeld, Holds
  <2>8. ClaimsExclusive' BY <2>3, <2>5 DEF CrawlInv, ClaimsExclusive, Holds
  <2>9. DownIsEmpty' BY <2>4 DEF DownIsEmpty
  <2>10. WrittenFirst' BY <2>3, <2>4 DEF CrawlInv, WrittenFirst, CrawledRow
  <2>11. RecordedIsClean' BY <2>4 DEF CrawlInv, RecordedIsClean
  <2> QED BY <2>6, <2>7, <2>8, <2>9, <2>10, <2>11 DEF CrawlInv
<1>7. ASSUME NEW w \in Crawlers, WorkerReturns(w) PROVE CrawlInv'
  <2>1. /\ DOMAIN crawler' = Crawlers
        /\ \A v \in Crawlers : DOMAIN crawler'[v] = {"pc", "url", "page"}
        /\ crawler'[w].pc = "returned"
        /\ \A v \in Crawlers : v # w => crawler'[v] = crawler[v]
        /\ UNCHANGED <<frontier, documents, shards, engine, supervisor>> /\ engine.up
      BY <1>7 DEF CrawlInv, CrawlTyped, WorkerReturns, Working, Resting
  <2> QED BY <2>1 DEF CrawlInv, CrawlTyped, ClaimsHeld, ClaimsExclusive, DownIsEmpty, WrittenFirst,
             RecordedIsClean, Holds, CrawledRow
<1>b. ASSUME NEW w \in Crawlers, NEW limit, Holds(w), frontier' = AfterFailure(crawler[w].url, limit)
      PROVE  /\ DOMAIN frontier' = Urls
             /\ \A u \in Urls : DOMAIN frontier'[u] = {"status", "attempts", "depth", "due"}
             /\ \A u \in Urls : u # crawler[w].url => frontier'[u] = frontier[u]
    BY <1>b, <1>h, <1>t DEF AfterFailure, CrawlTyped
<1>8. ASSUME NEW w \in Crawlers, RobotsDisallow(w) PROVE CrawlInv'
  <2>1. Holds(w) /\ engine.up BY <1>8 DEF RobotsDisallow, Working, Holds
  <2>2. /\ frontier' = AfterFailure(crawler[w].url, 0) /\ Then(w, "ready")
        /\ UNCHANGED <<documents, shards, engine, supervisor>>
      BY <1>8 DEF RobotsDisallow
  <2>3. CrawlTyped' BY <1>t, <1>a, <1>b, <2>1, <2>2 DEF CrawlTyped
  <2> QED BY <1>b, <2>1, <2>2, <2>3, CrawlerGoes DEF Holds
<1>9. ASSUME NEW w \in Crawlers, MarkFailed(w) PROVE CrawlInv'
  <2>1. Holds(w) /\ engine.up BY <1>9 DEF MarkFailed, Working, Holds
  <2>2. /\ frontier' = AfterFailure(crawler[w].url, RetryLimit) /\ Then(w, "ready")
        /\ UNCHANGED <<documents, shards, engine, supervisor>>
      BY <1>9 DEF MarkFailed
  <2>3. CrawlTyped' BY <1>t, <1>a, <1>b, <2>1, <2>2 DEF CrawlTyped
  <2> QED BY <1>b, <2>1, <2>2, <2>3, CrawlerGoes DEF Holds
<1>c. ASSUME NEW w \in Crawlers, Holds(w), engine.up, Then(w, "ready"), FetchedNow,
             frontier' = [frontier EXCEPT ![crawler[w].url].status = "done"],
             UNCHANGED <<documents, shards, supervisor>>
      PROVE  CrawlInv'
  <2>1. /\ DOMAIN frontier' = Urls
        /\ \A u \in Urls : DOMAIN frontier'[u] = {"status", "attempts", "depth", "due"}
        /\ \A u \in Urls : u # crawler[w].url => frontier'[u] = frontier[u]
      BY <1>c, <1>h, <1>t DEF CrawlTyped
  <2>2. DOMAIN engine' = {"up", "fetched"} /\ engine'.up = engine.up
      BY <1>c, <1>t DEF CrawlTyped, FetchedNow
  <2>3. CrawlTyped' BY <2>1, <2>2, <1>c, <1>a, <1>t DEF CrawlTyped
  <2> QED BY <2>1, <2>2, <2>3, <1>c, CrawlerGoes DEF Holds
<1>10. ASSUME NEW w \in Crawlers, NotText(w) PROVE CrawlInv'
    BY <1>10, <1>c DEF NotText, Working, Holds
<1>11. ASSUME NEW w \in Crawlers, FetchPage(w) PROVE CrawlInv'
  <2>1. PICK p \in Pages :
          /\ crawler' = [crawler EXCEPT ![w].pc = "record", ![w].page = p]
          /\ shards' = Written([page |-> p, url |-> crawler[w].url, cycle |-> supervisor.cycles])
      BY <1>11 DEF FetchPage
  <2>2. /\ DOMAIN crawler' = Crawlers
        /\ \A v \in Crawlers : DOMAIN crawler'[v] = {"pc", "url", "page"}
        /\ crawler'[w].pc = "record" /\ crawler'[w].url = crawler[w].url /\ crawler'[w].page = p
        /\ \A v \in Crawlers : v # w => crawler'[v] = crawler[v]
      BY <2>1, <1>t DEF CrawlTyped
  <2>3. UNCHANGED <<frontier, documents, engine, supervisor>> /\ engine.up /\ Holds(w)
      BY <1>11 DEF FetchPage, Working, Holds
  <2>4. /\ shards.clean \subseteq shards'.clean
        /\ p \in GoodPages => [page |-> p, url |-> crawler[w].url, cycle |-> supervisor.cycles] \in shards'.clean
      BY <2>1 DEF Written
  <2>5. CrawlTyped' BY <2>2, <2>3, <1>t DEF CrawlTyped
  <2>6. ClaimsHeld' /\ ClaimsExclusive' BY <2>2, <2>3 DEF CrawlInv, ClaimsHeld, ClaimsExclusive, Holds
  <2>7. DownIsEmpty' BY <2>3 DEF DownIsEmpty
  <2>8. WrittenFirst' BY <2>2, <2>3, <2>4 DEF CrawlInv, WrittenFirst, CrawledRow
  <2>9. RecordedIsClean' BY <2>3, <2>4 DEF CrawlInv, RecordedIsClean
  <2> QED BY <2>5, <2>6, <2>7, <2>8, <2>9 DEF CrawlInv
<1>12. ASSUME NEW w \in Crawlers, RecordDocument(w) PROVE CrawlInv'
  <2>1. /\ Then(w, "links") /\ UNCHANGED <<frontier, shards, engine, supervisor>>
        /\ crawler[w].pc = "record" /\ engine.up
      BY <1>12 DEF RecordDocument, Working
  <2>2. /\ \A v \in Crawlers : crawler'[v].url = crawler[v].url /\ crawler'[v].page = crawler[v].page
        /\ \A v \in Crawlers : v # w => crawler'[v] = crawler[v]
        /\ crawler'[w].pc = "links"
      BY <2>1, <1>t DEF CrawlTyped, Then
  <2>3. \A p \in DOMAIN documents' : \/ p \in DOMAIN documents /\ documents'[p] = documents[p]
                                     \/ p = crawler[w].page /\ documents'[p] = CrawledRow(w)
    <3> DEFINE page == crawler[w].page
               row == CrawledRow(w)
    <3>1. documents' = IF page \in DOMAIN documents THEN documents
                       ELSE [p \in DOMAIN documents \union {page} |-> IF p = page THEN row ELSE documents[p]]
        BY <1>12 DEF RecordDocument
    <3> HIDE DEF page, row
    <3>2. \A p \in DOMAIN documents' : \/ p \in DOMAIN documents /\ documents'[p] = documents[p]
                                       \/ p = page /\ documents'[p] = row
        BY <3>1
    <3> QED BY <3>2 DEF page, row
  <2>4. CrawledRow(w).cycle = supervisor.cycles BY DEF CrawledRow
  <2>5. CrawlTyped' BY <2>1, <1>a, <1>t DEF CrawlTyped
  <2>6. ClaimsHeld' /\ ClaimsExclusive' BY <2>1, <2>2 DEF CrawlInv, ClaimsHeld, ClaimsExclusive, Holds
  <2>7. DownIsEmpty' BY <2>1 DEF DownIsEmpty
  <2>8. WrittenFirst' BY <2>1, <2>2 DEF CrawlInv, WrittenFirst, CrawledRow
  <2>9. crawler[w].page \in GoodPages => CrawledRow(w) \in shards.clean BY <2>1 DEF CrawlInv, WrittenFirst
  <2>10. RecordedIsClean' BY <2>1, <2>3, <2>4, <2>9, <1>t DEF CrawlInv, RecordedIsClean, CrawlTyped
  <2> QED BY <2>5, <2>6, <2>7, <2>8, <2>10 DEF CrawlInv
<1>13. ASSUME NEW w \in Crawlers, EnqueueDiscovered(w) PROVE CrawlInv'
  <2>1. Holds(w) /\ engine.up /\ Then(w, "finish") /\ UNCHANGED <<documents, shards, engine, supervisor>>
      BY <1>13 DEF EnqueueDiscovered, Working, Holds
  <2>2. PICK links : frontier' = frontier \/ frontier' = WithUrls(frontier, links, frontier[crawler[w].url].depth + 1)
      BY <1>13 DEF EnqueueDiscovered
  <2>3. /\ DOMAIN frontier' = Urls
        /\ \A u \in Urls : DOMAIN frontier'[u] = {"status", "attempts", "depth", "due"}
        /\ \A u \in Urls : frontier[u].status = "in_progress" => frontier'[u] = frontier[u]
      BY <2>2, <1>t, WithUrlsKeeps DEF CrawlTyped
  <2>4. CrawlTyped' BY <2>1, <2>3, <1>a, <1>t DEF CrawlTyped
  <2> QED BY <2>1, <2>3, <2>4, <1>h, CrawlerGoes DEF Holds
<1>14. ASSUME NEW w \in Crawlers, MarkDone(w) PROVE CrawlInv'
    BY <1>14, <1>c DEF MarkDone, Working, Holds
<1>15. ASSUME NEW w \in Crawlers, StepRaises(w) PROVE CrawlInv'
  <2>1. Holds(w) /\ engine.up /\ Then(w, "failed") /\ UNCHANGED <<frontier, documents, shards, engine, supervisor>>
      BY <1>15 DEF StepRaises, Working, Holds
  <2>2. CrawlTyped' BY <2>1, <1>a, <1>t DEF CrawlTyped
  <2> QED BY <2>1, <2>2, <1>h, CrawlerGoes DEF Holds
<1> QED
    BY <1>1, <1>2, <1>3, <1>4, <1>5, <1>6, <1>7, <1>8, <1>9, <1>10, <1>11, <1>12, <1>13, <1>14, <1>15
    DEF CrawlNext

(* CrawlSound: no two workers hold one URL, and what a cycle recorded as accepted *)
(* its clean shards have, for every number of URLs, pages, workers and cycles and *)
(* wherever a store call raises or the process dies.                              *)
THEOREM CrawlIsSound == CrawlSpec => []CrawlSound
<1>1. CrawlInv => CrawlSound BY DEF CrawlInv, ClaimsExclusive, RecordedIsClean, CrawlSound
<1> QED BY <1>1, CrawlInitial, CrawlStep, PTL DEF CrawlSpec

------------------------------------------------------------------------------
(* The pipeline and the versions it writes.                                  *)

(* Unless a lock was taken from a run that was alive, the run that is at work, or  *)
(* has not released its lock, is the one that wrote the lock; and the files it has *)
(* come to are its own.                                                            *)
RunInputs == FilterFiles \union {"clean"}
RunRecords == [stage : RunStages, input : RunInputs, model : BOOLEAN]
RunTyped ==
    /\ run \in [PipelineRuns -> RunRecords]
    /\ outputs \in [Files -> SUBSET PipelineRuns]
    /\ lock \in [owner : PipelineRuns \union {NoRun}, stale : BOOLEAN]
    /\ overran \in BOOLEAN
Holding == {"purge", "crawl", "filter", "shard", "train", "seal", "ledger", "release"}
HolderWroteLock == \A p \in PipelineRuns : run[p].stage \in Holding => lock.owner = p
CleanNow(r) == r.input = "clean" /\ ~r.model
OwnFiles(p, r) ==
    /\ r.stage \in {"new", "unlink", "open", "purge", "crawl"} => CleanNow(r)
    /\ r.stage = "crawl" => outputs["clean"] = {}
    /\ r.stage \in {"filter", "shard", "train", "seal"} => outputs[r.input] = {p}
    /\ r.stage \in {"filter", "shard", "train"} => ~r.model
    /\ r.stage \in {"shard", "train", "seal"} => outputs["tokenizer"] = {p}
    /\ r.stage \in {"train", "seal"} => outputs["shards"] = {p}
    /\ r.stage = "seal" /\ r.model => outputs["checkpoint"] = {p}
RunsOwnFiles == \A p \in PipelineRuns : OwnFiles(p, run[p])
PipelineInv ==
    /\ RunTyped
    /\ ~overran => HolderWroteLock /\ RunsOwnFiles
    /\ VersionOfOneRun

LEMMA RunFileNames ==
    /\ RunInputs \subseteq Files /\ {"tokenizer", "shards", "checkpoint", "clean"} \subseteq Files
    /\ {"tokenizer", "shards", "checkpoint"} \cap RunInputs = {} /\ "clean" \notin FilterFiles
    /\ NoRun \notin PipelineRuns
  BY PipelineAssumption DEF RunInputs, Files

LEMMA PipelineInitial == PipelineInit => PipelineInv
<1> SUFFICES ASSUME PipelineInit PROVE PipelineInv OBVIOUS
<1>1. RunTyped BY DEF PipelineInit, RunTyped, RunRecords, RunStages, RunInputs, NoLock
<1>2. HolderWroteLock BY DEF PipelineInit, HolderWroteLock, Holding
<1>3. RunsOwnFiles BY DEF PipelineInit, RunsOwnFiles, OwnFiles, CleanNow
<1>4. VersionOfOneRun BY DEF PipelineInit, VersionOfOneRun
<1> QED BY <1>1, <1>2, <1>3, <1>4 DEF PipelineInv

(* A step of a run that goes to the record r and holds the lock afterwards only if *)
(* it wrote it.                                                                    *)
LEMMA RunMoves ==
    ASSUME PipelineInv, RunTyped', NEW p \in PipelineRuns, NEW r, run' = [run EXCEPT ![p] = r], UNCHANGED versions,
           ~overran' => /\ ~overran
                        /\ r.stage \in Holding => lock'.owner = p
                        /\ \A q \in PipelineRuns \ {p} : run[q].stage \in Holding => lock'.owner = q
                        /\ OwnFiles(p, r)'
                        /\ UNCHANGED outputs \/ (run[p].stage \in Holding /\ UNCHANGED lock)
    PROVE  PipelineInv'
<1>1. ASSUME ~overran' PROVE HolderWroteLock'
    BY <1>1 DEF PipelineInv, RunTyped, HolderWroteLock
<1>2. ASSUME ~overran', NEW q \in PipelineRuns PROVE OwnFiles(q, run[q])'
  <2>1. CASE q = p BY <1>2, <2>1 DEF PipelineInv, RunTyped
  <2>2. CASE q # p
    <3>1. run'[q] = run[q] /\ OwnFiles(q, run[q]) BY <1>2, <2>2 DEF PipelineInv, RunTyped, RunsOwnFiles
    <3>2. CASE UNCHANGED outputs BY <3>1, <3>2 DEF OwnFiles
    <3>3. CASE run[p].stage \in Holding /\ UNCHANGED lock
      <4>1. run[q].stage \notin Holding BY <1>2, <2>2, <3>3 DEF PipelineInv, HolderWroteLock
      <4> QED BY <3>1, <4>1 DEF OwnFiles, Holding
    <3> QED BY <1>2, <3>2, <3>3
  <2> QED BY <2>1, <2>2
<1>3. VersionOfOneRun' BY DEF PipelineInv, VersionOfOneRun
<1> QED BY <1>1, <1>2, <1>3 DEF PipelineInv, RunsOwnFiles

LEMMA PipelineStep == PipelineInv /\ [PipelineNext]_pipelineVars => PipelineInv'
<1> SUFFICES ASSUME PipelineInv, [PipelineNext]_pipelineVars PROVE PipelineInv' OBVIOUS
<1>t. RunTyped BY DEF PipelineInv
<1>n. ~overran => HolderWroteLock /\ RunsOwnFiles BY DEF PipelineInv
<1>f. /\ RunInputs \subseteq Files /\ {"tokenizer", "shards", "checkpoint", "clean"} \subseteq Files
      /\ {"tokenizer", "shards", "checkpoint"} \cap RunInputs = {} /\ "clean" \notin FilterFiles
      /\ NoRun \notin PipelineRuns /\ "clean" \in RunInputs
    BY RunFileNames DEF RunInputs
(* A step that changes neither files nor lock, to a place the run is entitled to.  *)
<1>g. ASSUME NEW p \in PipelineRuns, NEW place \in RunStages, Goes(p, place), UNCHANGED <<outputs, lock, versions, overran>>,
             place \in Holding => run[p].stage \in Holding,
             place \in {"open", "unlink", "ended", "dead", "release", "ledger"},
             place \in {"open", "unlink"} => run[p].stage \in {"new", "unlink"}
      PROVE  PipelineInv'
  <2>1. PICK r : r = [run[p] EXCEPT !.stage = place] OBVIOUS
  <2>2. r \in RunRecords /\ r.stage = place /\ r.input = run[p].input /\ r.model = run[p].model
      BY <1>t, <2>1 DEF RunTyped, RunRecords
  <2>3. run' = [run EXCEPT ![p] = r] BY <1>g, <2>1 DEF Goes
  <2>4. RunTyped' BY <1>t, <1>g, <2>2, <2>3 DEF RunTyped
  <2>5. ~overran => OwnFiles(p, r)' BY <1>n, <1>g, <2>2 DEF RunsOwnFiles, OwnFiles, CleanNow
  <2> QED BY <1>n, <1>g, <2>2, <2>3, <2>4, <2>5, RunMoves DEF HolderWroteLock
<1>1. CASE UNCHANGED pipelineVars
    BY <1>1 DEF pipelineVars, PipelineInv, RunTyped, HolderWroteLock, RunsOwnFiles, OwnFiles, CleanNow, VersionOfOneRun
<1>2. CASE LockAges
  <2>1. lock'.owner = lock.owner /\ RunTyped' BY <1>2, <1>t DEF LockAges, RunTyped
  <2> QED BY <1>2, <2>1 DEF LockAges, PipelineInv, HolderWroteLock, RunsOwnFiles, OwnFiles, CleanNow, VersionOfOneRun
<1>3. ASSUME NEW p \in PipelineRuns, LookAtLock(p) PROVE PipelineInv'
  <2>1. PICK place \in {"unlink", "open"} : Goes(p, place) BY <1>3 DEF LookAtLock
  <2> QED BY <1>3, <2>1, <1>g DEF LookAtLock, RunAt, RunStages, Holding
<1>4. ASSUME NEW p \in PipelineRuns, UnlinkedUnder(p), lock' = NoLock, UNCHANGED <<outputs, versions>>,
             NEW place \in {"open", "ended"}, Goes(p, place), place = "open" => run[p].stage = "unlink"
      PROVE  PipelineInv'
  <2>1. PICK r : r = [run[p] EXCEPT !.stage = place] OBVIOUS
  <2>2. r \in RunRecords /\ r.stage = place /\ r.input = run[p].input /\ r.model = run[p].model
      BY <1>t, <2>1 DEF RunTyped, RunRecords, RunStages
  <2>3. run' = [run EXCEPT ![p] = r] BY <1>4, <2>1 DEF Goes
  <2>4. overran' \in BOOLEAN /\ (~overran' => ~overran /\ ~(lock.owner # p /\ Alive(lock.owner)))
      BY <1>4, <1>t DEF UnlinkedUnder, RunTyped
  <2>5. RunTyped' BY <1>t, <1>4, <2>2, <2>3, <2>4 DEF RunTyped, NoLock
  <2>6. ASSUME ~overran' PROVE OwnFiles(p, r)' BY <1>n, <1>4, <2>2, <2>4, <2>6 DEF RunsOwnFiles, OwnFiles, CleanNow
  <2>7. ASSUME ~overran', NEW q \in PipelineRuns \ {p}, run[q].stage \in Holding PROVE FALSE
      BY <1>n, <2>4, <2>7 DEF HolderWroteLock, Alive, Holding
  <2>8. r.stage \notin Holding BY <2>2 DEF Holding
  <2>9. ~overran' => /\ ~overran
                     /\ r.stage \in Holding => lock'.owner = p
                     /\ \A q \in PipelineRuns \ {p} : run[q].stage \in Holding => lock'.owner = q
                     /\ OwnFiles(p, r)'
                     /\ UNCHANGED outputs \/ (run[p].stage \in Holding /\ UNCHANGED lock)
      BY <1>4, <2>4, <2>6, <2>7, <2>8
  <2> QED BY <1>4, <2>3, <2>5, <2>9, RunMoves
<1>5. ASSUME NEW p \in PipelineRuns, UnlinkStale(p) PROVE PipelineInv'
  <2>1. PICK place \in {"ended", "open"} : Goes(p, place) BY <1>5 DEF UnlinkStale
  <2> QED BY <1>5, <2>1, <1>4 DEF UnlinkStale, RunAt
<1>6. ASSUME NEW p \in PipelineRuns, ReleaseLock(p) PROVE PipelineInv'
    BY <1>6, <1>4 DEF ReleaseLock
<1>7. ASSUME NEW p \in PipelineRuns, OpenLock(p) PROVE PipelineInv'
  <2>1. PICK r : r = [run[p] EXCEPT !.stage = "purge"] OBVIOUS
  <2>2. r \in RunRecords /\ r.stage = "purge" /\ r.input = run[p].input /\ r.model = run[p].model
      BY <1>t, <2>1 DEF RunTyped, RunRecords, RunStages
  <2>3. run' = [run EXCEPT ![p] = r] BY <1>7, <2>1 DEF OpenLock, Goes
  <2>4. RunTyped' BY <1>t, <1>7, <2>2, <2>3 DEF OpenLock, RunTyped
  <2>5. ASSUME ~overran PROVE OwnFiles(p, r)' BY <1>n, <1>7, <2>2, <2>5 DEF OpenLock, RunAt, RunsOwnFiles, OwnFiles, CleanNow
  <2>6. ASSUME ~overran, NEW q \in PipelineRuns, run[q].stage \in Holding PROVE FALSE
      BY <1>n, <1>7, <1>f, <2>6 DEF OpenLock, LockIsFree, HolderWroteLock
  <2>7. UNCHANGED <<outputs, versions, overran>> /\ lock'.owner = p BY <1>7 DEF OpenLock
  <2>8. ~overran' => /\ ~overran
                     /\ r.stage \in Holding => lock'.owner = p
                     /\ \A q \in PipelineRuns \ {p} : run[q].stage \in Holding => lock'.owner = q
                     /\ OwnFiles(p, r)'
                     /\ UNCHANGED outputs \/ (run[p].stage \in Holding /\ UNCHANGED lock)
      BY <2>5, <2>6, <2>7
  <2> QED BY <2>3, <2>4, <2>7, <2>8, RunMoves
<1>8. ASSUME NEW p \in PipelineRuns, LockIsHeld(p) PROVE PipelineInv'
    BY <1>8, <1>g DEF LockIsHeld, RunStages, Holding
(* A run at work writes files of its own.                                          *)
<1>w. ASSUME NEW p \in PipelineRuns, NEW r \in RunRecords, run' = [run EXCEPT ![p] = r], UNCHANGED <<lock, versions, overran>>,
             run[p].stage \in Holding, r.stage \in Holding, outputs' \in [Files -> SUBSET PipelineRuns],
             ~overran => OwnFiles(p, r)'
      PROVE  PipelineInv'
  <2>1. RunTyped' BY <1>t, <1>w DEF RunTyped
  <2> QED BY <1>n, <1>w, <2>1, RunMoves DEF HolderWroteLock
<1>9. ASSUME NEW p \in PipelineRuns, PurgeShards(p) PROVE PipelineInv'
  <2>1. PICK r : r = [run[p] EXCEPT !.stage = "crawl"] OBVIOUS
  <2>2. r \in RunRecords /\ r.stage = "crawl" /\ r.input = run[p].input /\ r.model = run[p].model
      BY <1>t, <2>1 DEF RunTyped, RunRecords, RunStages
  <2>3. outputs' \in [Files -> SUBSET PipelineRuns] /\ outputs'["clean"] = {}
      BY <1>9, <1>t, <1>f DEF PurgeShards, ShardsPurged, RunTyped
  <2>4. ASSUME ~overran PROVE OwnFiles(p, r)'
      BY <1>n, <1>9, <2>2, <2>3, <2>4 DEF PurgeShards, RunAt, RunsOwnFiles, OwnFiles, CleanNow
  <2> QED BY <1>9, <1>w, <2>1, <2>2, <2>3, <2>4 DEF PurgeShards, Goes, RunAt, Holding
<1>10. ASSUME NEW p \in PipelineRuns, CrawlPages(p) PROVE PipelineInv'
  <2>1. PICK r : r = [run[p] EXCEPT !.stage = "filter"] OBVIOUS
  <2>2. r \in RunRecords /\ r.stage = "filter" /\ r.input = run[p].input /\ r.model = run[p].model
      BY <1>t, <2>1 DEF RunTyped, RunRecords, RunStages
  <2>3. outputs' \in [Files -> SUBSET PipelineRuns] /\ outputs'["clean"] = outputs["clean"] \union {p}
      BY <1>10, <1>t, <1>f DEF CrawlPages, RunTyped
  <2>4. ASSUME ~overran PROVE OwnFiles(p, r)'
      BY <1>n, <1>10, <2>2, <2>3, <2>4 DEF CrawlPages, RunAt, RunsOwnFiles, OwnFiles, CleanNow
  <2> QED BY <1>10, <1>w, <2>1, <2>2, <2>3, <2>4 DEF CrawlPages, Goes, RunAt, Holding
<1>11. ASSUME NEW p \in PipelineRuns, NEW f \in FilterFiles, Filter(p, f) PROVE PipelineInv'
  <2>1. PICK r : r = [run[p] EXCEPT !.input = f] OBVIOUS
  <2>2. r \in RunRecords /\ r.stage = "filter" /\ r.input = f /\ r.model = run[p].model
      BY <1>t, <1>11, <2>1 DEF Filter, RunAt, RunTyped, RunRecords, RunInputs
  <2>3. run[p].input \in Files /\ f \in Files BY <1>t, <1>f DEF RunTyped, RunRecords, RunInputs
  <2>4. outputs' \in [Files -> SUBSET PipelineRuns] /\ outputs'[f] = outputs[run[p].input]
      BY <1>11, <1>t, <2>3 DEF Filter, Filtered, RunTyped
  <2>5. ASSUME ~overran PROVE OwnFiles(p, r)'
      BY <1>n, <1>11, <2>2, <2>4, <2>5 DEF Filter, RunAt, RunsOwnFiles, OwnFiles
  <2> QED BY <1>11, <1>w, <2>1, <2>2, <2>4, <2>5 DEF Filter, RunAt, Holding
<1>12. ASSUME NEW p \in PipelineRuns, TrainTokenizer(p) PROVE PipelineInv'
  <2>1. PICK r : r = [run[p] EXCEPT !.stage = "shard"] OBVIOUS
  <2>2. r \in RunRecords /\ r.stage = "shard" /\ r.input = run[p].input /\ r.model = run[p].model
      BY <1>t, <2>1 DEF RunTyped, RunRecords, RunStages
  <2>3. run[p].input \in Files /\ run[p].input # "tokenizer" BY <1>t, <1>f DEF RunTyped, RunRecords
  <2>4. /\ outputs' \in [Files -> SUBSET PipelineRuns] /\ outputs'["tokenizer"] = outputs[run[p].input]
        /\ outputs'[run[p].input] = outputs[run[p].input]
      BY <1>12, <1>t, <1>f, <2>3 DEF TrainTokenizer, RunTyped
  <2>5. ASSUME ~overran PROVE OwnFiles(p, r)'
      BY <1>n, <1>12, <2>2, <2>4, <2>5 DEF TrainTokenizer, RunAt, RunsOwnFiles, OwnFiles
  <2> QED BY <1>12, <1>w, <2>1, <2>2, <2>4, <2>5 DEF TrainTokenizer, Goes, RunAt, Holding
<1>13. ASSUME NEW p \in PipelineRuns, BuildShards(p) PROVE PipelineInv'
  <2>0. PICK place \in {"train", "seal"} : Goes(p, place) BY <1>13 DEF BuildShards
  <2>1. PICK r : r = [run[p] EXCEPT !.stage = place] OBVIOUS
  <2>2. r \in RunRecords /\ r.stage = place /\ r.input = run[p].input /\ r.model = run[p].model
      BY <1>t, <2>1 DEF RunTyped, RunRecords, RunStages
  <2>3. run[p].input \in Files /\ run[p].input # "shards" BY <1>t, <1>f DEF RunTyped, RunRecords
  <2>4. /\ outputs' \in [Files -> SUBSET PipelineRuns]
        /\ outputs'["shards"] = outputs[run[p].input] \union outputs["tokenizer"]
        /\ outputs'["tokenizer"] = outputs["tokenizer"]
        /\ outputs'[run[p].input] = outputs[run[p].input]
      BY <1>13, <1>t, <1>f, <2>3 DEF BuildShards, RunTyped
  <2>5. ASSUME ~overran PROVE OwnFiles(p, r)'
      BY <1>n, <1>13, <2>2, <2>4, <2>5 DEF BuildShards, RunAt, RunsOwnFiles, OwnFiles
  <2> QED BY <1>13, <1>w, <2>0, <2>1, <2>2, <2>4, <2>5 DEF BuildShards, Goes, RunAt, Holding
<1>14. ASSUME NEW p \in PipelineRuns, TrainModel(p) PROVE PipelineInv'
  <2>1. PICK r : r = [run[p] EXCEPT !.stage = "seal", !.model = TRUE] OBVIOUS
  <2>2. r \in RunRecords /\ r.stage = "seal" /\ r.input = run[p].input
      BY <1>t, <2>1 DEF RunTyped, RunRecords, RunStages
  <2>3. run[p].input \in Files /\ run[p].input # "checkpoint" BY <1>t, <1>f DEF RunTyped, RunRecords
  <2>4. /\ outputs' \in [Files -> SUBSET PipelineRuns]
        /\ outputs'["checkpoint"] = outputs["checkpoint"] \union outputs["shards"]
        /\ outputs'["shards"] = outputs["shards"] /\ outputs'["tokenizer"] = outputs["tokenizer"]
        /\ outputs'[run[p].input] = outputs[run[p].input]
      BY <1>14, <1>t, <1>f, <2>3 DEF TrainModel, RunTyped
  <2>5. outputs["checkpoint"] \in {{}, outputs["shards"]} BY <1>14 DEF TrainModel, OfTheseShards, NoCheckpoint
  <2>6. ASSUME ~overran PROVE OwnFiles(p, r)'
      BY <1>n, <1>14, <2>2, <2>4, <2>5, <2>6 DEF TrainModel, RunAt, RunsOwnFiles, OwnFiles
  <2> QED BY <1>14, <1>w, <2>1, <2>2, <2>4, <2>6 DEF TrainModel, RunAt, Holding
<1>15. ASSUME NEW p \in PipelineRuns, SealVersion(p) PROVE PipelineInv'
  <2>1. PICK v : v = [run |-> p, rows |-> outputs[run[p].input], tokenizer |-> outputs.tokenizer,
                      shards |-> outputs.shards, model |-> IF run[p].model THEN outputs.checkpoint ELSE NoCheckpoint,
                      alone |-> ~overran]
      OBVIOUS
  <2>2. ASSUME ~overran PROVE v.rows = {p} /\ v.tokenizer = {p} /\ v.shards = {p} /\ v.model \subseteq {p}
      BY <1>n, <1>15, <2>1, <2>2 DEF SealVersion, RunAt, RunsOwnFiles, OwnFiles, NoCheckpoint
  <2>3. v.run = p /\ (v.alone => ~overran) BY <2>1
  <2>4. versions'.manifests = versions.manifests \union {v} \/ versions' = versions
      BY <1>15, <2>1 DEF SealVersion
  <2>5. VersionOfOneRun' BY <2>2, <2>3, <2>4 DEF PipelineInv, VersionOfOneRun
  <2>6. PICK r : r = [run[p] EXCEPT !.stage = "ledger"] OBVIOUS
  <2>7. r \in RunRecords /\ r.stage = "ledger" BY <1>t, <2>6 DEF RunTyped, RunRecords, RunStages
  <2>8. run' = [run EXCEPT ![p] = r] /\ UNCHANGED <<lock, outputs, overran>> BY <1>15, <2>6 DEF SealVersion, Goes
  <2>9. RunTyped' BY <1>t, <2>7, <2>8 DEF RunTyped
  <2>10. ASSUME ~overran PROVE HolderWroteLock' /\ RunsOwnFiles'
    <3>1. HolderWroteLock' BY <1>n, <1>t, <1>15, <2>8, <2>10 DEF SealVersion, RunAt, Holding, HolderWroteLock, RunTyped
    <3>2. ASSUME NEW q \in PipelineRuns PROVE OwnFiles(q, run[q])'
        BY <1>n, <1>t, <2>7, <2>8, <2>10, <3>2 DEF RunTyped, RunsOwnFiles, OwnFiles, CleanNow
    <3> QED BY <3>1, <3>2 DEF RunsOwnFiles
  <2> QED BY <2>5, <2>8, <2>9, <2>10 DEF PipelineInv
<1>16. ASSUME NEW p \in PipelineRuns, AppendLedger(p) PROVE PipelineInv'
  <2>1. PICK r : r = [run[p] EXCEPT !.stage = "release"] OBVIOUS
  <2>2. r \in RunRecords /\ r.stage = "release" BY <1>t, <2>1 DEF RunTyped, RunRecords, RunStages
  <2>3. run' = [run EXCEPT ![p] = r] /\ UNCHANGED <<lock, outputs, overran>> BY <1>16, <2>1 DEF AppendLedger, Goes
  <2>4. RunTyped' BY <1>t, <2>2, <2>3 DEF RunTyped
  <2>5. ASSUME ~overran PROVE HolderWroteLock' /\ RunsOwnFiles'
    <3>1. HolderWroteLock' BY <1>n, <1>t, <1>16, <2>3, <2>5 DEF AppendLedger, RunAt, Holding, HolderWroteLock, RunTyped
    <3>2. ASSUME NEW q \in PipelineRuns PROVE OwnFiles(q, run[q])'
        BY <1>n, <1>t, <2>2, <2>3, <2>5, <3>2 DEF RunTyped, RunsOwnFiles, OwnFiles, CleanNow
    <3> QED BY <3>1, <3>2 DEF RunsOwnFiles
  <2>6. versions'.manifests = versions.manifests \/ versions' = versions BY <1>16 DEF AppendLedger
  <2>7. VersionOfOneRun' BY <2>6 DEF PipelineInv, VersionOfOneRun
  <2> QED BY <2>3, <2>4, <2>5, <2>7 DEF PipelineInv
<1>17. ASSUME NEW p \in PipelineRuns, StageRaises(p) PROVE PipelineInv'
    BY <1>17, <1>g DEF StageRaises, RunAt, RunStages, Holding
<1>18. ASSUME NEW p \in PipelineRuns, PipelineDies(p) PROVE PipelineInv'
    BY <1>18, <1>g DEF PipelineDies, RunStages, Holding
<1> QED
    BY <1>1, <1>2, <1>3, <1>5, <1>6, <1>7, <1>8, <1>9, <1>10, <1>11, <1>12, <1>13, <1>14, <1>15, <1>16, <1>17, <1>18
    DEF PipelineNext

(* VersionOfOneRun: everything a sealed version binds is of one run, for any       *)
(* number of runs started on a directory, together or after one that died there,   *)
(* unless a lock was taken from a run that was alive.                              *)
THEOREM VersionsOfOneRun == PipelineSpec => []VersionOfOneRun
<1>1. PipelineInv => VersionOfOneRun BY DEF PipelineInv
<1> QED BY <1>1, PipelineInitial, PipelineStep, PTL DEF PipelineSpec

------------------------------------------------------------------------------
(* Training the embedding model.                                             *)

(* What a file was written from has seen the dataset the file names only, in both  *)
(* folders and in the run that writes them.                                        *)
CheckpointFiles == {"weights", "manifest", "optimizer", "state"}
OneDatasetInFiles ==
    /\ DOMAIN folder = Folders
    /\ \A d \in Folders : /\ DOMAIN folder[d] = CheckpointFiles
                          /\ \A f \in CheckpointFiles : folder[d][f].of.seen \subseteq {folder[d][f].dataset}
TrainerFields == {"pc", "dataset", "interval", "model", "optimizer", "step", "progress", "measured", "writes"}
OneDatasetInRun ==
    /\ DOMAIN encoder = TrainerFields /\ DOMAIN encoder.model = {"step", "seen"}
    /\ encoder.model.seen \subseteq {encoder.dataset}
EmbeddingInv == OneDatasetInFiles /\ OneDatasetInRun

LEMMA EmbeddingInitial == EmbeddingInit => EmbeddingInv
<1> SUFFICES ASSUME EmbeddingInit PROVE EmbeddingInv OBVIOUS
<1>1. {FilesOf[i] : i \in DOMAIN FilesOf} = CheckpointFiles BY DEF FilesOf, CheckpointFiles
<1> QED BY <1>1 DEF EmbeddingInit, EmbeddingInv, OneDatasetInFiles, OneDatasetInRun, NoTrainer, NoContent, NoWeights, TrainerFields

(* The run goes on with the model's step changed at most, or ends.                 *)
LEMMA NoTrainerSawNothing == NoTrainer.model.seen = {} /\ DOMAIN NoTrainer = TrainerFields /\ DOMAIN NoTrainer.model = {"step", "seen"}
  BY DEF NoTrainer, NoWeights, TrainerFields

LEMMA EmbeddingStep == EmbeddingInv /\ [EmbeddingNext]_embeddingVars => EmbeddingInv'
<1> SUFFICES ASSUME EmbeddingInv, [EmbeddingNext]_embeddingVars PROVE EmbeddingInv' OBVIOUS
<1> USE DEF EmbeddingInv
<1>f. ASSUME UNCHANGED folder PROVE OneDatasetInFiles' BY <1>f DEF OneDatasetInFiles
<1>e. ASSUME encoder' = NoTrainer PROVE OneDatasetInRun' BY <1>e, NoTrainerSawNothing DEF OneDatasetInRun
<1>1. CASE UNCHANGED embeddingVars BY <1>1, <1>f DEF embeddingVars, OneDatasetInRun
<1>2. CASE StartTraining
  <2>1. PICK pairs \in PairSets, interval \in Intervals :
            \/ encoder' = Running(StartScratch(pairs), interval)
            \/ OfThesePairs("latest", pairs) /\ WeightsMatch("latest") /\ encoder' = Running(Resumed(pairs), interval)
      BY <1>2 DEF StartTraining
  <2>2. ASSUME NEW begun, DOMAIN begun = TrainerFields, DOMAIN begun.model = {"step", "seen"},
               begun.model.seen \subseteq {begun.dataset}, encoder' = Running(begun, interval)
        PROVE  OneDatasetInRun'
      BY <2>2 DEF Running, OneDatasetInRun, TrainerFields
  <2>5. OneDatasetInFiles' BY <1>2, <1>f DEF StartTraining
  <2>3. CASE encoder' = Running(StartScratch(pairs), interval)
    <3>1. PICK begun : begun = StartScratch(pairs) OBVIOUS
    <3>2. /\ DOMAIN begun = TrainerFields /\ DOMAIN begun.model = {"step", "seen"}
          /\ begun.model.seen = {pairs} /\ begun.dataset = pairs
        BY <3>1 DEF StartScratch, NoTrainer, NoWeights, TrainerFields
    <3> QED BY <2>3, <2>2, <2>5, <3>1, <3>2
  <2>4. CASE /\ OfThesePairs("latest", pairs) /\ WeightsMatch("latest")
             /\ encoder' = Running(Resumed(pairs), interval)
    <3>1. PICK begun : begun = Resumed(pairs) OBVIOUS
    <3>2. /\ DOMAIN begun = TrainerFields /\ DOMAIN begun.model = {"step", "seen"} /\ begun.dataset = pairs
          /\ begun.model.seen = folder["latest"]["weights"].of.seen \union {pairs}
        BY <3>1 DEF Resumed, NoTrainer, NoWeights, TrainerFields
    <3>3. folder["latest"]["weights"].of.seen \subseteq {pairs}
        BY <2>4 DEF OfThesePairs, WeightsMatch, OneDatasetInFiles, Folders, CheckpointFiles
    <3> QED BY <2>4, <2>2, <2>5, <3>1, <3>2, <3>3
  <2> QED BY <2>1, <2>3, <2>4
<1>3. CASE TakeStep
  <2>1. OneDatasetInRun' BY <1>3 DEF TakeStep, OneDatasetInRun, TrainerFields
  <2> QED BY <1>3, <2>1, <1>f DEF TakeStep
<1>4. CASE ValidateStep
  <2>1. PICK improved \in BOOLEAN :
            encoder' = [encoder EXCEPT !.pc = "save", !.progress = After(improved), !.measured = TRUE,
                            !.writes = Saving("latest") \o (IF improved THEN Saving("best") ELSE <<>>)]
      BY <1>4 DEF ValidateStep
  <2>2. OneDatasetInRun' BY <2>1 DEF OneDatasetInRun, TrainerFields
  <2> QED BY <1>4, <2>2, <1>f DEF ValidateStep
<1>5. CASE SaveOrGoOn
  <2>1. PICK writes : encoder' = [encoder EXCEPT !.pc = "save", !.writes = writes] BY <1>5 DEF SaveOrGoOn
  <2>2. OneDatasetInRun' BY <2>1 DEF OneDatasetInRun, TrainerFields
  <2> QED BY <1>5, <2>2, <1>f DEF SaveOrGoOn
<1>6. CASE WriteNextFile
  <2>1. PICK file : file = Head(encoder.writes) OBVIOUS
  <2>2. PICK content : content = Contents(file[2]) OBVIOUS
  <2>3. folder' = [folder EXCEPT ![file[1]][file[2]] = content] BY <1>6, <2>1, <2>2 DEF WriteNextFile
  <2>4. content.of.seen \subseteq {content.dataset}
      BY <2>2 DEF Contents, OneDatasetInRun, NoWeights
  <2>5. OneDatasetInFiles' BY <2>3, <2>4 DEF OneDatasetInFiles
  <2>6. encoder' = [encoder EXCEPT !.writes = Tail(@)] BY <1>6 DEF WriteNextFile
  <2>7. OneDatasetInRun' BY <2>6 DEF OneDatasetInRun, TrainerFields
  <2> QED BY <2>5, <2>7
<1>7. CASE NextEmbeddingStep
  <2>1. PICK pc : encoder' = [encoder EXCEPT !.pc = pc] BY <1>7 DEF NextEmbeddingStep
  <2>2. OneDatasetInRun' BY <2>1 DEF OneDatasetInRun, TrainerFields
  <2> QED BY <1>7, <2>2, <1>f DEF NextEmbeddingStep
<1>8. CASE WriteEmbeddingReport BY <1>8, <1>e, <1>f DEF WriteEmbeddingReport
<1>9. CASE TrainingDies BY <1>9, <1>e, <1>f DEF TrainingDies
<1> QED BY <1>1, <1>2, <1>3, <1>4, <1>5, <1>6, <1>7, <1>8, <1>9 DEF EmbeddingNext

(* OneDataset: a model learns from one dataset only, whichever files of whichever  *)
(* run a crash left beside each other in latest/, for any number of datasets, runs *)
(* and steps.                                                                      *)
THEOREM EmbeddingLearnsOneDataset == EmbeddingSpec => []OneDataset
<1>1. EmbeddingInv => OneDataset BY DEF EmbeddingInv, OneDatasetInFiles, OneDatasetInRun, OneDataset, CheckpointFiles
<1> QED BY <1>1, EmbeddingInitial, EmbeddingStep, PTL DEF EmbeddingSpec

------------------------------------------------------------------------------
(* The production dataset.                                                   *)

(* The splits in the directory come from one set of rows that was deduplicated and *)
(* freed of the benchmarks, each row where its family goes, whatever died since;   *)
(* those a promoted manifest hashed were also reviewed, and a review stays.        *)
DistinctAndOpen(rows) == rows \cap Protected = {} /\ \A a, b \in rows : ~Near(a, b)
SplitAs(files, kind) == \A row \in files[kind] : Place(row) = kind
GivenIn(files) == files.train \union files.val \union files.test
SplitSoundly(files) ==
    /\ \A split \in Splits : SplitAs(files, split)
    /\ DistinctAndOpen(GivenIn(files))
ReviewedNow(rows) == {row \in rows : Reviewed(row)}
VersionFiles == {"promoted", "queue", "holdout", "final", "train", "val", "test"}
HashNames == {"train", "val", "test", "holdout", "queue"}
DatasetSound ==
    /\ DOMAIN artifacts = VersionFiles
    /\ DistinctAndOpen(artifacts.final)
    /\ SplitSoundly(artifacts)
ManifestSound ==
    datasetManifest.status = "promoted" =>
        GivenIn(datasetManifest.hashes) \cap HighValue \subseteq ReviewedNow(GivenIn(datasetManifest.hashes))
FamiliesWhole(files) ==
    \A family \in Families : Cardinality({split \in Splits : files[split] \cap family # {}}) <= 1
DatasetInv == DatasetSound /\ ManifestSound /\ TrainedIsGoverned

LEMMA DatasetInitial == DatasetInit => DatasetInv
  BY DEF DatasetInit, DatasetInv, DatasetSound, ManifestSound, TrainedIsGoverned, NoFiles, Nothing, VersionFiles,
         DistinctAndOpen, SplitSoundly, SplitAs, GivenIn, Splits

(* A family's rows are all placed where the family is.                             *)
LEMMA FamiliesGoWhole ==
    ASSUME NEW files, \A split \in Splits : SplitAs(files, split)
    PROVE  FamiliesWhole(files)
<1> SUFFICES ASSUME NEW family \in Families
             PROVE  Cardinality({split \in Splits : files[split] \cap family # {}}) <= 1
    BY DEF FamiliesWhole
<1> DEFINE with == {split \in Splits : files[split] \cap family # {}}
<1>1. ASSUME NEW split \in with PROVE split = splitOf[family]
  <2>1. PICK row \in files[split] : row \in family /\ Place(row) = split BY <1>1 DEF SplitAs
  <2>2. FamilyOf(row) = family BY <2>1, DatasetAssumption DEF FamilyOf
  <2> QED BY <2>1, <2>2 DEF Place
<1> SUFFICES Cardinality(with) <= 1 OBVIOUS
<1> HIDE DEF with
<1>2. CASE with = {} BY <1>2, FS_EmptySet
<1>3. CASE with # {}
  <2>1. PICK only : with = {only} BY <1>1, <1>3
  <2>2. Cardinality({only}) = 1 BY FS_Singleton
  <2> QED BY <2>1, <2>2
<1> QED BY <1>2, <1>3

LEMMA DedupedAreApart == ASSUME NEW rows, NEW kept \in Deduplicated(rows) PROVE \A a, b \in kept : ~Near(a, b)
  BY DEF Deduplicated

(* A step that touches neither splits nor final rows.                              *)
LEMMA DatasetStep == DatasetInv /\ [DatasetNext]_datasetVars => DatasetInv'
<1> SUFFICES ASSUME DatasetInv, [DatasetNext]_datasetVars PROVE DatasetInv' OBVIOUS
<1> USE DEF DatasetInv
<1>a. ASSUME UNCHANGED <<artifacts, splitOf>> PROVE DatasetSound'
    BY <1>a DEF DatasetSound, SplitSoundly, SplitAs, Place, FamilyOf, GivenIn
<1>m. ASSUME UNCHANGED datasetManifest, reviewed \subseteq reviewed' PROVE ManifestSound'
    BY <1>m DEF ManifestSound, ReviewedNow, Reviewed, GivenIn
<1>t. ASSUME UNCHANGED trained PROVE TrainedIsGoverned'
    BY <1>t DEF TrainedIsGoverned
<1>1. CASE UNCHANGED datasetVars BY <1>1, <1>a, <1>m, <1>t DEF datasetVars
<1>2. CASE FilterRows BY <1>2, <1>a, <1>m, <1>t DEF FilterRows
<1>3. CASE GateRows
  <2>1. PICK p, h, q : artifacts' = [artifacts EXCEPT !.promoted = p, !.holdout = h, !.queue = q]
      BY <1>3 DEF GateRows
  <2>2. DatasetSound'
      BY <1>3, <2>1 DEF GateRows, DatasetSound, SplitSoundly, SplitAs, Place, FamilyOf, GivenIn, VersionFiles, Splits
  <2> QED BY <1>3, <2>2, <1>m, <1>t DEF GateRows
<1>4. CASE CombineRows
  <2>1. PICK rows \in Deduplicated(artifacts.promoted \union Patches \union reviewed) :
            artifacts' = [artifacts EXCEPT !.final = rows \ Protected]
      BY <1>4 DEF CombineRows
  <2>2. DistinctAndOpen(rows \ Protected) BY <2>1, DedupedAreApart DEF DistinctAndOpen
  <2>3. DatasetSound'
      BY <1>4, <2>1, <2>2 DEF CombineRows, DatasetSound, SplitSoundly, SplitAs, Place, FamilyOf, GivenIn, VersionFiles, Splits
  <2> QED BY <1>4, <2>3, <1>m, <1>t DEF CombineRows
<1>5. CASE SplitRows
  <2>1. PICK tr, val, test :
            /\ tr = {row \in artifacts.final : Place(row) = "train"}
            /\ val = {row \in artifacts.final : Place(row) = "val"}
            /\ test = {row \in artifacts.final : Place(row) = "test"}
      OBVIOUS
  <2>2. artifacts' = [artifacts EXCEPT !.train = tr, !.val = val, !.test = test] /\ UNCHANGED splitOf
      BY <1>5, <2>1 DEF SplitRows
  <2>3. /\ DOMAIN artifacts' = VersionFiles /\ artifacts'.final = artifacts.final
        /\ artifacts'.train = tr /\ artifacts'.val = val /\ artifacts'.test = test
      BY <2>2 DEF DatasetSound, VersionFiles
  <2>4. \A row : Place(row)' = Place(row) BY <2>2 DEF Place, FamilyOf
  <2>5. \A split \in Splits : SplitAs(artifacts, split)' BY <2>1, <2>3, <2>4 DEF SplitAs, Splits
  <2>6. DistinctAndOpen(artifacts.final) /\ GivenIn(artifacts)' \subseteq artifacts.final
      BY <2>1, <2>3 DEF DatasetSound, GivenIn
  <2>7. DistinctAndOpen(GivenIn(artifacts))' BY <2>6 DEF DistinctAndOpen, Near
  <2>8. DatasetSound' BY <2>3, <2>5, <2>6, <2>7 DEF DatasetSound, SplitSoundly
  <2> QED BY <1>5, <2>8, <1>m, <1>t DEF SplitRows
<1>6. CASE CopyHoldout
  <2>1. DatasetSound'
      BY <1>6 DEF CopyHoldout, DatasetSound, SplitSoundly, SplitAs, Place, FamilyOf, GivenIn, VersionFiles, Splits
  <2> QED BY <1>6, <2>1, <1>m, <1>t DEF CopyHoldout
<1>7. CASE SealDataset
  <2>1. ManifestSound'
    <3>1. datasetManifest'.status = "promoted" => Promotable BY <1>7 DEF SealDataset
    <3>2. GivenIn(datasetManifest'.hashes) = InSplits BY <1>7 DEF SealDataset, Hashes, GivenIn, InSplits
    <3>3. UNCHANGED reviewed BY <1>7 DEF SealDataset
    <3> QED BY <3>1, <3>2, <3>3 DEF ManifestSound, Promotable, ReviewedNow, Reviewed, GivenIn
  <2> QED BY <1>7, <2>1, <1>a, <1>t DEF SealDataset
<1>8. CASE BuildDies BY <1>8, <1>a, <1>m, <1>t DEF BuildDies
<1>9. CASE TrainOn
  <2>1. datasetManifest.status = "promoted" /\ datasetManifest.hashes = Hashes BY <1>9 DEF TrainOn, HashesHold
  <2>2. GivenIn(datasetManifest.hashes) = InSplits /\ GivenIn(artifacts) = InSplits
      BY <2>1 DEF Hashes, GivenIn, InSplits
  <2>3. InSplits \cap HighValue \subseteq ReviewedNow(InSplits) BY <2>1, <2>2 DEF ManifestSound
  <2>4. FamiliesWhole(artifacts) BY FamiliesGoWhole DEF DatasetSound, SplitSoundly
  <2>5. /\ trained'.train = artifacts.train /\ trained'.val = artifacts.val /\ trained'.test = artifacts.test
        /\ trained'.sealed.train = artifacts.train /\ trained'.reviewed = ReviewedNow(InSplits)
      BY <1>9, <2>1 DEF TrainOn, Hashes, ReviewedNow
  <2>6. FamiliesWhole(trained')
    <3>1. \A split \in Splits : trained'[split] = artifacts[split] BY <2>5 DEF Splits
    <3>2. \A family \in Families : {split \in Splits : trained'[split] \cap family # {}}
                                   = {split \in Splits : artifacts[split] \cap family # {}}
        BY <3>1
    <3> QED BY <2>4, <3>2 DEF FamiliesWhole
  <2>7. DistinctAndOpen(InSplits) BY <2>2 DEF DatasetSound, SplitSoundly
  <2>8. trained'.train \union trained'.val \union trained'.test = InSplits BY <2>5 DEF InSplits
  <2>9. TrainedIsGoverned'
      BY <2>3, <2>5, <2>6, <2>7, <2>8 DEF TrainedIsGoverned, FamiliesWhole, DistinctAndOpen, Near
  <2> QED BY <1>9, <2>9, <1>a, <1>m DEF TrainOn
<1>10. ASSUME NEW row \in Texts, ApproveRow(row) PROVE DatasetInv'
    BY <1>10, <1>a, <1>m, <1>t DEF ApproveRow
<1> QED BY <1>1, <1>2, <1>3, <1>4, <1>5, <1>6, <1>7, <1>8, <1>9, <1>10 DEF DatasetNext

(* TrainedIsGoverned: what training is given is what a promoted decision measured, *)
(* for any rows, families and crawls, whatever builds died since.                  *)
THEOREM TrainingIsGoverned == DatasetSpec => []TrainedIsGoverned
<1>1. DatasetInv => TrainedIsGoverned BY DEF DatasetInv
<1> QED BY <1>1, DatasetInitial, DatasetStep, PTL DEF DatasetSpec

------------------------------------------------------------------------------
(* Release qualification.                                                    *)

(* Versions only grow, and a file that still has the version it was bound with has *)
(* had it ever since: at the moment all were bound, too.                           *)
FileRecords == [version : Nat, good : BOOLEAN, upstream : Nat, age : Nat]
RunFields == {"pc", "policy", "supplied", "bound", "loaded", "moment", "verdict", "report"}
ReportFields == {"status", "policy", "applied", "bound", "moment", "previous", "intact"}
OneMoment(r) ==
    \A i \in Rungs : /\ r.bound[i].version = r.moment[i].version
                     /\ r.bound[i].good
                     /\ i > 1 => r.bound[i].upstream = r.moment[i - 1].version
BoundSoFar(d) ==
    /\ Len(d.bound) < 5 /\ d.loaded = 0
    /\ \A i \in 1..Len(d.bound) : d.bound[i].version <= chain[i].version
BoundBefore(d) ==
    /\ Len(d.bound) = 5 /\ d.loaded \in 0..4 /\ d.moment \in [1..5 -> FileRecords]
    /\ \A i \in 1..5 : d.bound[i].version <= d.moment[i].version /\ d.moment[i].version <= chain[i].version
    /\ \A i \in 1..d.loaded : d.bound[i].version = d.moment[i].version
ReportedOnce(r) == DOMAIN r = ReportFields /\ (r.status = "passed" => OneMoment(r))
RunSound(d) ==
    /\ DOMAIN d = RunFields /\ d.bound \in Seq(FileRecords)
    /\ d.verdict \in {"blocked", "failed", "passed"}
    /\ d.pc = "bind" => BoundSoFar(d)
    /\ d.pc = "load" => BoundBefore(d)
    /\ d.pc = "decide" /\ d.verdict = "passed" => OneMoment(d)
    /\ d.pc \in {"previous", "write"} => ReportedOnce(d.report)
ChainTyped == chain \in [1..5 -> FileRecords]
RunsSound == DOMAIN qualification = Qualifications /\ \A q \in Qualifications : RunSound(qualification[q])
StoreSound ==
    /\ DOMAIN release = {"reports", "latest"}
    /\ \A q \in DOMAIN release.reports : ReportedOnce(release.reports[q])
ReleaseInv == ChainTyped /\ RunsSound /\ StoreSound

LEMMA FiveRungs == Rungs = 1..5 /\ Len(Ladder) = 5 BY DEF Rungs, Ladder

LEMMA IdleIsSound ==
    ASSUME NEW place \in {"idle", "raised", "returned"}
    PROVE  RunSound([NoQualification EXCEPT !.pc = place])
  BY DEF RunSound, NoQualification, RunFields

LEMMA ReleaseInitial == ReleaseInit => ReleaseInv
<1> SUFFICES ASSUME ReleaseInit PROVE ReleaseInv OBVIOUS
<1>1. ChainTyped BY FiveRungs DEF ReleaseInit, ChainTyped, FileRecords
<1>2. RunSound(NoQualification) BY DEF RunSound, NoQualification, RunFields
<1>3. RunsSound BY <1>2 DEF ReleaseInit, RunsSound
<1>4. StoreSound BY DEF ReleaseInit, StoreSound
<1> QED BY <1>1, <1>3, <1>4 DEF ReleaseInv

(* A run that goes on while the files stay; and the files that grow meanwhile.     *)
LEMMA RunBecomes ==
    ASSUME RunsSound, NEW q \in Qualifications, NEW d, Becomes(q, d), UNCHANGED chain, RunSound(d)
    PROVE  RunsSound'
  BY DEF RunsSound, Becomes, RunSound, BoundSoFar, BoundBefore

LEMMA VersionsAreNumbers ==
    ASSUME NEW s \in Seq(FileRecords), NEW i \in 1..Len(s)
    PROVE  s[i] \in FileRecords /\ s[i].version \in Nat
<1>1. s[i] \in FileRecords OBVIOUS
<1> QED BY <1>1 DEF FileRecords

LEMMA ChainGrows ==
    ASSUME ChainTyped, ChainTyped', RunsSound, UNCHANGED qualification,
           \A i \in 1..5 : chain[i].version <= chain'[i].version
    PROVE  RunsSound'
<1> SUFFICES ASSUME NEW q \in Qualifications PROVE RunSound(qualification[q])' BY DEF RunsSound
<1>d. PICK d : d = qualification[q] OBVIOUS
<1>1. RunSound(d) /\ qualification'[q] = d BY <1>d DEF RunsSound
<1>c. \A i \in 1..5 : chain[i].version \in Nat /\ chain'[i].version \in Nat BY DEF ChainTyped, FileRecords
<1>2. ASSUME BoundSoFar(d), d.bound \in Seq(FileRecords)
      PROVE  \A i \in 1..Len(d.bound) : d.bound[i].version <= chain'[i].version
  <2> SUFFICES ASSUME NEW i \in 1..Len(d.bound) PROVE d.bound[i].version <= chain'[i].version OBVIOUS
  <2>1. i \in 1..5 BY <1>2 DEF BoundSoFar
  <2>2. d.bound[i].version \in Nat BY <1>2, VersionsAreNumbers
  <2>3. d.bound[i].version <= chain[i].version BY <1>2 DEF BoundSoFar
  <2>4. chain[i].version <= chain'[i].version BY <2>1
  <2>5. chain[i].version \in Nat /\ chain'[i].version \in Nat BY <1>c, <2>1
  <2> QED BY <2>2, <2>3, <2>4, <2>5
<1>3. ASSUME BoundBefore(d)
      PROVE  \A i \in 1..5 : d.moment[i].version <= chain'[i].version
  <2>1. \A i \in 1..5 : d.moment[i].version \in Nat BY <1>3 DEF BoundBefore, FileRecords
  <2> QED BY <1>3, <1>c, <2>1 DEF BoundBefore
<1>4. RunSound(d)' BY <1>1, <1>2, <1>3 DEF RunSound, BoundSoFar, BoundBefore
<1> QED BY <1>1, <1>4

LEMMA ReleaseStep == ReleaseInv /\ [ReleaseNext]_releaseVars => ReleaseInv'
<1> SUFFICES ASSUME ReleaseInv, [ReleaseNext]_releaseVars PROVE ReleaseInv' OBVIOUS
<1> USE DEF ReleaseInv
<1>c. ASSUME UNCHANGED chain PROVE ChainTyped' BY <1>c DEF ChainTyped
<1>q. ASSUME UNCHANGED <<chain, qualification>> PROVE RunsSound'
    BY <1>q DEF RunsSound, RunSound, BoundSoFar, BoundBefore
<1>s. ASSUME UNCHANGED release PROVE StoreSound' BY <1>s DEF StoreSound
<1>d. \A q \in Qualifications : RunSound(qualification[q]) BY DEF RunsSound
<1>1. CASE UNCHANGED releaseVars BY <1>1, <1>c, <1>q, <1>s DEF releaseVars
<1>2. ASSUME NEW i \in Rungs, Reproduce(i) PROVE ReleaseInv'
  <2>1. PICK good \in BOOLEAN :
            chain' = [chain EXCEPT ![i] = [version |-> @.version + 1, good |-> good, age |-> 0,
                                         upstream |-> IF i = 1 THEN 0 ELSE chain[i - 1].version]]
      BY <1>2 DEF Reproduce
  <2>2. i \in 1..5 /\ (i # 1 => i - 1 \in 1..5) BY FiveRungs
  <2>3. ChainTyped' BY <2>1, <2>2 DEF ChainTyped, FileRecords
  <2>4. \A j \in 1..5 : chain[j].version <= chain'[j].version BY <2>1, <2>2 DEF ChainTyped, FileRecords
  <2> QED BY <1>2, <2>3, <2>4, <1>s, ChainGrows DEF Reproduce
<1>3. CASE EditPolicy BY <1>3, <1>c, <1>q, <1>s DEF EditPolicy
<1>4. CASE Tick
  <2>1. chain' = [i \in 1..5 |-> [chain[i] EXCEPT !.age = @ + 1]] BY <1>4, FiveRungs DEF Tick
  <2>2. ChainTyped' BY <2>1 DEF ChainTyped, FileRecords
  <2>3. \A j \in 1..5 : chain[j].version <= chain'[j].version BY <2>1 DEF ChainTyped, FileRecords
  <2> QED BY <1>4, <2>2, <2>3, <1>s, ChainGrows DEF Tick
<1>5. ASSUME NEW q \in Qualifications, StartQualification(q) PROVE ReleaseInv'
  <2>1. PICK supplied \in BOOLEAN :
            Becomes(q, [NoQualification EXCEPT !.pc = "bind", !.policy = policy, !.supplied = supplied])
      BY <1>5 DEF StartQualification
  <2>2. PICK d : d = [NoQualification EXCEPT !.pc = "bind", !.policy = policy, !.supplied = supplied] OBVIOUS
  <2>3. RunSound(d) BY <2>2 DEF RunSound, NoQualification, RunFields, BoundSoFar
  <2> QED BY <1>5, <2>1, <2>2, <2>3, <1>c, <1>s, RunBecomes DEF StartQualification
<1>j. ASSUME NEW q \in Qualifications, NEW verdict \in {"blocked", "failed"} PROVE RunSound(Judged(q, verdict))
    BY <1>d DEF RunSound, Judged, RunFields
<1>6. ASSUME NEW q \in Qualifications, BindEvidence(q) PROVE ReleaseInv'
  <2> DEFINE me == qualification[q]
  <2>1. BoundSoFar(me) /\ me.bound \in Seq(FileRecords) BY <1>d, <1>6 DEF RunSound, BindEvidence, At
  <2>2. PICK i : i = Len(me.bound) + 1 OBVIOUS
  <2>3. i \in 1..5 /\ Len(me.bound) \in Nat BY <2>1, <2>2 DEF BoundSoFar
  <2>4. PICK more : more = Append(me.bound, chain[i]) OBVIOUS
  <2>5. chain[i] \in FileRecords BY <2>3 DEF ChainTyped
  <2>6. more \in Seq(FileRecords) /\ Len(more) = i /\ more[i] = chain[i]
        /\ \A j \in 1..Len(me.bound) : more[j] = me.bound[j]
      BY <2>1, <2>2, <2>3, <2>4, <2>5
  <2>7. \A j \in 1..i : more[j].version <= chain[j].version
    <3>1. \A j \in 1..Len(me.bound) : more[j].version <= chain[j].version BY <2>1, <2>6 DEF BoundSoFar
    <3>2. more[i].version <= chain[i].version BY <2>5, <2>6 DEF FileRecords
    <3> QED BY <3>1, <3>2, <2>2, <2>3
  <2>8. RunSound(BindsNext(q))
    <3>1. CASE i < 5
      <4>1. PICK d : d = [me EXCEPT !.bound = more] OBVIOUS
      <4>2. /\ DOMAIN d = RunFields /\ d.bound = more /\ d.loaded = me.loaded /\ d.pc = "bind"
            /\ d.verdict = me.verdict
          BY <4>1, <1>d, <1>6 DEF RunSound, RunFields, BindEvidence, At
      <4>3. BindsNext(q) = d BY <3>1, <4>1, <2>2, <2>4 DEF BindsNext, Ladder
      <4>4. BoundSoFar(d) BY <3>1, <4>2, <2>1, <2>6, <2>7 DEF BoundSoFar
      <4> QED BY <4>2, <4>3, <4>4, <2>6, <1>d DEF RunSound
    <3>2. CASE i = 5
      <4>1. PICK d : d = [[me EXCEPT !.bound = more] EXCEPT !.pc = "load", !.moment = chain] OBVIOUS
      <4>2. /\ DOMAIN d = RunFields /\ d.bound = more /\ d.loaded = me.loaded /\ d.pc = "load"
            /\ d.verdict = me.verdict /\ d.moment = chain
          BY <4>1, <1>d, <1>6 DEF RunSound, RunFields, BindEvidence, At
      <4>3. BindsNext(q) = d BY <3>2, <4>1, <2>2, <2>4 DEF BindsNext, Ladder
      <4>4. \A j \in 1..5 : chain[j].version <= chain[j].version BY DEF ChainTyped, FileRecords
      <4>5. BoundBefore(d) BY <3>2, <4>2, <4>4, <2>1, <2>6, <2>7 DEF BoundBefore, BoundSoFar, ChainTyped
      <4> QED BY <4>2, <4>3, <4>5, <2>6, <1>d DEF RunSound
    <3> QED BY <3>1, <3>2, <2>3
  <2>9. PICK d : d = IF ~me.supplied THEN Judged(q, "blocked")
                     ELSE IF Stale(q) THEN Judged(q, "failed") ELSE BindsNext(q)
      OBVIOUS
  <2>10. RunSound(d) BY <2>8, <2>9, <1>j
  <2> QED BY <1>6, <2>9, <2>10, <1>c, <1>s, RunBecomes DEF BindEvidence
<1>7. ASSUME NEW q \in Qualifications, LoadEvidence(q) PROVE ReleaseInv'
  <2> DEFINE me == qualification[q]
  <2>1. BoundBefore(me) /\ me.bound \in Seq(FileRecords) BY <1>d, <1>7 DEF RunSound, LoadEvidence, At
  <2>2. PICK i : i = me.loaded + 1 OBVIOUS
  <2>3. i \in 1..5 /\ me.loaded \in Nat BY <2>1, <2>2 DEF BoundBefore
  <2>4. PICK seen : seen = [me EXCEPT !.loaded = i, !.bound[i] = chain[i]] OBVIOUS
  <2>5. chain[i] \in FileRecords BY <2>3 DEF ChainTyped
  <2>6. /\ DOMAIN seen = RunFields /\ seen.loaded = i /\ seen.bound = [me.bound EXCEPT ![i] = chain[i]]
        /\ seen.moment = me.moment /\ seen.verdict = me.verdict /\ seen.pc = "load"
      BY <2>4, <1>d, <1>7 DEF RunSound, RunFields, LoadEvidence, At
  <2>7. seen.bound \in Seq(FileRecords) /\ Len(seen.bound) = 5 /\ seen.bound[i] = chain[i]
        /\ \A j \in 1..5 : j # i => seen.bound[j] = me.bound[j]
      BY <2>1, <2>3, <2>5, <2>6 DEF BoundBefore
  <2>8. ASSUME StillBound(q, i)
        PROVE  /\ \A j \in 1..5 : seen.bound[j].version <= me.moment[j].version
               /\ \A j \in 1..i : seen.bound[j].version = me.moment[j].version
    <3>1. chain[i].version = me.bound[i].version BY <2>8 DEF StillBound
    <3>2. \A j \in 1..5 : me.moment[j].version \in Nat /\ me.bound[j].version \in Nat /\ chain[j].version \in Nat
      <4>1. \A j \in 1..5 : me.bound[j].version \in Nat BY <2>1, VersionsAreNumbers DEF BoundBefore
      <4>2. \A j \in 1..5 : me.moment[j].version \in Nat /\ chain[j].version \in Nat
          BY <2>1 DEF BoundBefore, FileRecords, ChainTyped
      <4> QED BY <4>1, <4>2
    <3>3. seen.bound[i].version = me.moment[i].version
      <4>1. me.bound[i].version <= me.moment[i].version /\ me.moment[i].version <= chain[i].version
          BY <2>1, <2>3 DEF BoundBefore
      <4>2. me.moment[i].version = chain[i].version BY <4>1, <3>1, <3>2, <2>3
      <4> QED BY <4>2, <2>7
    <3>4. ASSUME NEW j \in 1..5 PROVE seen.bound[j].version <= me.moment[j].version
      <4>1. CASE j = i BY <4>1, <3>2, <3>3
      <4>2. CASE j # i BY <4>2, <2>1, <2>7 DEF BoundBefore
      <4> QED BY <4>1, <4>2
    <3>5. ASSUME NEW j \in 1..i PROVE seen.bound[j].version = me.moment[j].version
      <4>1. CASE j = i BY <4>1, <3>3
      <4>2. CASE j # i
        <5>1. j \in 1..me.loaded /\ j \in 1..5 BY <4>2, <2>2, <2>3
        <5>2. me.bound[j].version = me.moment[j].version BY <5>1, <2>1 DEF BoundBefore
        <5> QED BY <4>2, <5>1, <5>2, <2>7
      <4> QED BY <4>1, <4>2
    <3> QED BY <3>4, <3>5
  <2>9. PICK d : d = CASE ~StillBound(q, i) -> Judged(q, "failed")
                        [] StillBound(q, i) /\ i < Len(Ladder) -> seen
                        [] OTHER -> [seen EXCEPT !.pc = "decide",
                                        !.verdict = IF Linked(seen.bound) THEN "passed" ELSE "failed"]
      OBVIOUS
  <2>10. Becomes(q, d) /\ UNCHANGED <<chain, policy, release, done>>
      BY <1>7, <2>2, <2>4, <2>9 DEF LoadEvidence
  <2>11. RunSound(d)
    <3>1. CASE ~StillBound(q, i) BY <3>1, <2>9, <1>j
    <3>2. CASE StillBound(q, i) /\ i < 5
      <4>1. d = seen BY <3>2, <2>9, FiveRungs
      <4>2. BoundBefore(seen) BY <3>2, <2>1, <2>3, <2>6, <2>7, <2>8, SMTT(30) DEF BoundBefore
      <4> QED BY <4>1, <4>2, <2>6, <2>7, <1>d DEF RunSound
    <3>3. CASE StillBound(q, i) /\ i = 5
      <4>1. d = [seen EXCEPT !.pc = "decide", !.verdict = IF Linked(seen.bound) THEN "passed" ELSE "failed"]
          BY <3>3, <2>9, FiveRungs
      <4>2. /\ DOMAIN d = RunFields /\ d.bound = seen.bound /\ d.moment = me.moment /\ d.pc = "decide"
            /\ d.verdict \in {"passed", "failed"} /\ (d.verdict = "passed" => Linked(seen.bound))
          BY <4>1, <2>6 DEF RunFields
      <4>3. ASSUME Linked(seen.bound) PROVE OneMoment(d)
        <5>1. \A j \in 1..5 : seen.bound[j].version = me.moment[j].version BY <3>3, <2>8
        <5>2. SUFFICES ASSUME NEW j \in 1..5
                       PROVE  /\ seen.bound[j].version = me.moment[j].version
                              /\ seen.bound[j].good
                              /\ j > 1 => seen.bound[j].upstream = me.moment[j - 1].version
            BY <4>2, FiveRungs DEF OneMoment
        <5>3. j > 1 => j - 1 \in 1..5 OBVIOUS
        <5> QED BY <4>3, <5>1, <5>3, FiveRungs DEF Linked
      <4> QED BY <4>2, <4>3, <2>7 DEF RunSound
    <3> QED BY <3>1, <3>2, <3>3, <2>3
  <2> QED BY <2>10, <2>11, <1>c, <1>s, RunBecomes
<1>8. ASSUME NEW q \in Qualifications, Decides(q) PROVE ReleaseInv'
  <2> DEFINE me == qualification[q]
  <2>1. PICK outcome \in Outcomes : Becomes(q, [me EXCEPT !.pc = "previous", !.report = Report(q, outcome)])
      BY <1>8 DEF Decides
  <2>2. PICK r : r = Report(q, outcome) OBVIOUS
  <2>3. /\ DOMAIN r = ReportFields /\ r.bound = me.bound /\ r.moment = me.moment
        /\ r.status = Worst({me.verdict, outcome})
      BY <2>2 DEF Report, ReportFields
  <2>4. r.status = "passed" => me.verdict = "passed"
      BY <2>3, <1>d DEF Worst, RunSound
  <2>5. me.verdict = "passed" => OneMoment(me) BY <1>d, <1>8 DEF RunSound, Decides, At
  <2>6. ReportedOnce(r) BY <2>3, <2>4, <2>5 DEF ReportedOnce, OneMoment
  <2>7. PICK d : d = [me EXCEPT !.pc = "previous", !.report = r] OBVIOUS
  <2>8. RunSound(d) BY <2>6, <2>7, <1>d DEF RunSound, RunFields
  <2> QED BY <1>8, <2>1, <2>2, <2>7, <2>8, <1>c, <1>s, RunBecomes DEF Decides
<1>9. ASSUME NEW q \in Qualifications, ReadPrevious(q) PROVE ReleaseInv'
  <2> DEFINE me == qualification[q]
             latest == release.latest
  <2>1. CASE Becomes(q, [NoQualification EXCEPT !.pc = "raised"])
      BY <1>9, <2>1, <1>c, <1>s, IdleIsSound, RunBecomes DEF ReadPrevious
  <2>2. CASE Becomes(q, [me EXCEPT !.pc = "write", !.report.previous = latest])
    <3>1. ReportedOnce(me.report) BY <1>d, <1>9 DEF RunSound, ReadPrevious, At
    <3>2. PICK r : r = [me.report EXCEPT !.previous = latest] OBVIOUS
    <3>3. ReportedOnce(r) BY <3>1, <3>2 DEF ReportedOnce, ReportFields, OneMoment
    <3>4. PICK d : d = [me EXCEPT !.pc = "write", !.report = r] OBVIOUS
    <3>5. RunSound(d) BY <3>3, <3>4, <1>d DEF RunSound, RunFields
    <3>6. d = [me EXCEPT !.pc = "write", !.report.previous = latest] BY <3>2, <3>4
    <3> QED BY <1>9, <2>2, <3>5, <3>6, <1>c, <1>s, RunBecomes DEF ReadPrevious
  <2> QED BY <1>9, <2>1, <2>2 DEF ReadPrevious
<1>10. ASSUME NEW q \in Qualifications, PublishDecision(q) PROVE ReleaseInv'
  <2> DEFINE me == qualification[q]
  <2>1. ReportedOnce(me.report) BY <1>d, <1>10 DEF RunSound, PublishDecision, At
  <2>2. PICK reports : reports = [id \in DOMAIN release.reports \union {q} |->
                                    IF id = q THEN me.report ELSE release.reports[id]]
      OBVIOUS
  <2>3. \A id \in DOMAIN reports : ReportedOnce(reports[id]) BY <2>1, <2>2 DEF StoreSound
  <2>4. release' = [release EXCEPT !.reports = reports] BY <1>10, <2>2 DEF PublishDecision
  <2>5. StoreSound' BY <2>3, <2>4 DEF StoreSound, ReportedOnce, OneMoment
  <2>6. PICK d : d = [me EXCEPT !.pc = "pointer"] OBVIOUS
  <2>7. RunSound(d) BY <2>6, <1>d DEF RunSound, RunFields
  <2> QED BY <1>10, <2>5, <2>6, <2>7, <1>c, RunBecomes DEF PublishDecision
<1>11. ASSUME NEW q \in Qualifications, MovePointer(q) PROVE ReleaseInv'
  <2>1. StoreSound' BY <1>11 DEF MovePointer, StoreSound, ReportedOnce, OneMoment
  <2> QED BY <1>11, <2>1, <1>c, IdleIsSound, RunBecomes DEF MovePointer
<1>12. ASSUME NEW q \in Qualifications, QualificationDies(q) PROVE ReleaseInv'
    BY <1>12, <1>c, <1>s, IdleIsSound, RunBecomes DEF QualificationDies
<1>13. ASSUME NEW q \in Qualifications, DamageReport(q) PROVE ReleaseInv'
  <2>1. PICK r : r = [release.reports[q] EXCEPT !.intact = FALSE] OBVIOUS
  <2>2. ReportedOnce(r) BY <1>13, <2>1 DEF DamageReport, StoreSound, ReportedOnce, ReportFields, OneMoment
  <2>3. release' = [release EXCEPT !.reports = [release.reports EXCEPT ![q] = r]]
      BY <1>13, <2>1 DEF DamageReport
  <2>4. StoreSound' BY <2>2, <2>3 DEF StoreSound, ReportedOnce, OneMoment
  <2> QED BY <1>13, <2>4, <1>c, <1>q DEF DamageReport
<1> QED
    BY <1>1, <1>2, <1>3, <1>4, <1>5, <1>6, <1>7, <1>8, <1>9, <1>10, <1>11, <1>12, <1>13 DEF ReleaseNext

(* DecidedOnOneMoment: a passed report speaks of one instant, at which every file  *)
(* it cites was current, passing and built on the one before it, for any number of *)
(* qualifications, reproductions and edits of the policy.                          *)
THEOREM DecisionsAreOfOneMoment == ReleaseSpec => []DecidedOnOneMoment
<1>1. ReleaseInv => DecidedOnOneMoment BY DEF ReleaseInv, StoreSound, ReportedOnce, OneMoment, DecidedOnOneMoment
<1> QED BY <1>1, ReleaseInitial, ReleaseStep, PTL DEF ReleaseSpec

------------------------------------------------------------------------------
(* The qualification ladder.                                                 *)

(* The stage that runs has the inputs of the campaign, its dataset has not changed *)
(* since it began, what it selected it trained on it, and the stage before it is   *)
(* still on record as promoted.                                                    *)
ModelValues == [step : Nat, dataset : Nat, score : Nat]
BoundInputs == [pack : Nat, dataset : Nat]
StageRecords ==
    [target : Nat, promoted : BOOLEAN, selected : ModelValues, reached : Nat, baseline : ModelValues, inputs : BoundInputs]
StageValues ==
    [at : {"down", "resume", "train", "compare", "decide"}, target : Nat, step : Nat, selected : BOOLEAN,
     audit : BOOLEAN, baseline : ModelValues, inputs : BoundInputs]
LadderTyped ==
    /\ dataset \in Nat /\ pack \in [prompts : Nat, sealed : Nat] /\ initial \in ModelValues
    /\ train \in [latest : ModelValues, best : ModelValues]
    /\ campaign \in [bound : BoundInputs, stages : Seq(StageRecords)]
    /\ stage \in StageValues
PriorOnRecord(t) ==
    Earlier(t) # {} => \E i \in DOMAIN campaign.stages : /\ campaign.stages[i].target = Before(t)
                                                         /\ campaign.stages[i].promoted
StageSound ==
    stage.at # "down" =>
        /\ stage.inputs.dataset = dataset
        /\ campaign.stages # <<>> => stage.inputs = campaign.bound
        /\ PriorOnRecord(stage.target)
        /\ stage.selected => train.best.dataset = dataset
        /\ stage.at \in {"compare", "decide"} => stage.selected
LadderInv == LadderTyped /\ StageSound /\ StagesEarned

LEMMA LadderInitial == LadderInit => LadderInv
<1> SUFFICES ASSUME LadderInit PROVE LadderInv OBVIOUS
<1>1. LadderTyped
    BY LadderAssumption DEF LadderInit, LadderTyped, NoModel, NoStage, NoCampaign, ModelValues, BoundInputs, StageValues
<1>2. StageSound BY DEF LadderInit, StageSound, NoStage
<1>3. StagesEarned BY DEF LadderInit, StagesEarned, NoCampaign
<1> QED BY <1>1, <1>2, <1>3 DEF LadderInv

LEMMA NoStageTyped == NoStage \in StageValues /\ NoStage.at = "down"
  BY DEF NoStage, StageValues, ModelValues, NoModel, BoundInputs

(* A stage ends, or goes on with the campaign as it was.                           *)
LEMMA StageEnds ==
    ASSUME LadderInv, StageGoes(NoStage), UNCHANGED <<pack, dataset, initial, train, campaign>>
    PROVE  LadderInv'
<1>1. LadderTyped' BY NoStageTyped DEF LadderInv, LadderTyped, StageGoes
<1>2. StageSound' BY NoStageTyped DEF StageSound, StageGoes
<1>3. StagesEarned' BY DEF LadderInv, StagesEarned, Before, Earlier
<1> QED BY <1>1, <1>2, <1>3 DEF LadderInv

LEMMA StageGoesOn ==
    ASSUME LadderInv, NEW s \in StageValues, StageGoes(s), UNCHANGED <<pack, dataset, initial, campaign>>,
           train' \in [latest : ModelValues, best : ModelValues],
           stage.at # "down", s.inputs = stage.inputs, s.target = stage.target,
           s.selected => train'.best.dataset = dataset,
           s.at \in {"compare", "decide"} => s.selected
    PROVE  LadderInv'
<1>1. LadderTyped' BY DEF LadderInv, LadderTyped, StageGoes
<1>2. StageSound' BY DEF LadderInv, StageSound, StageGoes, PriorOnRecord, Before, Earlier
<1>3. StagesEarned' BY DEF LadderInv, StagesEarned, Before, Earlier
<1> QED BY <1>1, <1>2, <1>3 DEF LadderInv

LEMMA LadderStep == LadderInv /\ [LadderNext]_ladderVars => LadderInv'
<1> SUFFICES ASSUME LadderInv, [LadderNext]_ladderVars PROVE LadderInv' OBVIOUS
<1>t. LadderTyped /\ StageSound /\ StagesEarned BY DEF LadderInv
<1>e. ASSUME UNCHANGED campaign PROVE StagesEarned' BY <1>e, <1>t DEF StagesEarned, Before, Earlier
<1>s. ASSUME UNCHANGED <<dataset, train, campaign, stage>> PROVE StageSound'
    BY <1>s, <1>t DEF StageSound, PriorOnRecord, Before, Earlier
<1>1. CASE UNCHANGED ladderVars
    BY <1>1, <1>t, <1>e, <1>s DEF ladderVars, LadderInv, LadderTyped
<1>2. CASE WritePrompts \/ SealPack
  <2>1. pack' \in [prompts : Nat, sealed : Nat] BY <1>2, <1>t DEF WritePrompts, SealPack, LadderTyped
  <2>2. UNCHANGED <<dataset, initial, train, campaign, stage>> BY <1>2 DEF WritePrompts, SealPack
  <2>3. LadderTyped' BY <1>t, <2>1, <2>2 DEF LadderTyped
  <2> QED BY <2>2, <2>3, <1>e, <1>s DEF LadderInv
<1>3. CASE SwapDataset
  <2>1. LadderTyped' BY <1>3, <1>t DEF SwapDataset, LadderTyped
  <2>2. StageSound' BY <1>3 DEF SwapDataset, StageAt, StageSound
  <2> QED BY <1>3, <2>1, <2>2, <1>e DEF SwapDataset, LadderInv
<1>4. ASSUME NEW t \in Stages, RunStage(t) PROVE LadderInv'
  <2>1. PICK audit \in BOOLEAN :
            StageGoes([NoStage EXCEPT !.at = "resume", !.target = t, !.audit = audit, !.inputs = StageInputs])
      BY <1>4 DEF RunStage
  <2>2. PICK s : s = [NoStage EXCEPT !.at = "resume", !.target = t, !.audit = audit, !.inputs = StageInputs] OBVIOUS
  <2>3. StageInputs \in BoundInputs BY <1>t DEF StageInputs, LadderTyped, BoundInputs
  <2>4. s \in StageValues BY <2>2, <2>3, LadderAssumption DEF NoStage, StageValues, ModelValues, NoModel
  <2>5. s.at = "resume" /\ s.target = t /\ s.inputs = StageInputs /\ ~s.selected BY <2>2 DEF NoStage
  <2>6. stage' = s /\ UNCHANGED <<pack, dataset, initial, train, campaign>>
      BY <1>4, <2>1, <2>2 DEF RunStage, StageGoes
  <2>7. LadderTyped' BY <1>t, <2>4, <2>6 DEF LadderTyped
  <2>8. PriorOnRecord(t) BY <1>4 DEF RunStage, PriorPromoted, RecordsOf, PriorOnRecord
  <2>9. /\ s.inputs.dataset = dataset
        /\ campaign.stages # <<>> => s.inputs = campaign.bound
      BY <1>4, <2>5 DEF RunStage, StageInputs, SameInputs
  <2>10. StageSound' BY <2>5, <2>6, <2>8, <2>9 DEF StageSound, PriorOnRecord, Before, Earlier
  <2> QED BY <2>6, <2>7, <2>10, <1>e DEF LadderInv
<1>5. CASE Resume
  <2>1. CASE StageGoes(NoStage) BY <1>5, <2>1, StageEnds DEF Resume
  <2>2. CASE StageGoes([stage EXCEPT !.at = "train", !.step = train.latest.step])
    <3>1. PICK s : s = [stage EXCEPT !.at = "train", !.step = train.latest.step] OBVIOUS
    <3>2. s \in StageValues /\ s.at = "train" /\ s.inputs = stage.inputs /\ s.target = stage.target
          /\ s.selected = stage.selected
        BY <3>1, <1>t DEF LadderTyped, StageValues, ModelValues
    <3>3. s.selected => train.best.dataset = dataset BY <3>2, <1>t, <1>5 DEF StageSound, Resume, StageAt
    <3> QED BY <1>5, <2>2, <3>1, <3>2, <3>3, <1>t, StageGoesOn DEF Resume, StageAt, LadderTyped
  <2> QED BY <1>5, <2>1, <2>2 DEF Resume
<1>6. CASE TrainStage
  <2>1. PICK score \in PromptScores, improved \in BOOLEAN, early \in BOOLEAN :
          /\ stage.selected \/ improved
          /\ train' = [latest |-> TrainedNow(score), best |-> IF improved THEN TrainedNow(score) ELSE train.best]
          /\ StageGoes([stage EXCEPT !.step = @ + 1, !.selected = TRUE,
                          !.at = IF early \/ stage.step + 1 = stage.target THEN "compare" ELSE "train"])
      BY <1>6 DEF TrainStage
  <2>2. PICK model : model = TrainedNow(score) OBVIOUS
  <2>3. model \in ModelValues /\ model.dataset = dataset
    <3>1. score \in Nat /\ dataset \in Nat BY <1>t, LadderAssumption DEF LadderTyped
    <3>2. stage.step + 1 \in Nat BY <1>t DEF LadderTyped, StageValues
    <3> QED BY <2>2, <3>1, <3>2 DEF TrainedNow, ModelValues
  <2>4. train' \in [latest : ModelValues, best : ModelValues] /\ train'.best.dataset = dataset
      BY <2>1, <2>2, <2>3, <1>t, <1>6 DEF LadderTyped, StageSound, TrainStage, StageAt
  <2>5. PICK at \in {"compare", "train"} : at = IF early \/ stage.step + 1 = stage.target THEN "compare" ELSE "train"
      OBVIOUS
  <2>6. PICK s : s = [stage EXCEPT !.step = @ + 1, !.selected = TRUE, !.at = at] OBVIOUS
  <2>7. s \in StageValues /\ s.inputs = stage.inputs /\ s.target = stage.target /\ s.selected
    <3>1. stage.step + 1 \in Nat /\ stage \in StageValues BY <1>t DEF LadderTyped, StageValues
    <3> QED BY <2>6, <3>1 DEF StageValues
  <2>8. StageGoes(s) BY <2>1, <2>5, <2>6
  <2> QED BY <1>6, <2>4, <2>7, <2>8, StageGoesOn DEF TrainStage, StageAt
<1>7. CASE CompareStage
  <2>1. PICK s : s = [stage EXCEPT !.at = "decide", !.baseline = Baseline(stage.target)] OBVIOUS
  <2>2. Baseline(stage.target) \in ModelValues BY <1>t DEF Baseline, LadderTyped
  <2>3. s \in StageValues /\ s.inputs = stage.inputs /\ s.target = stage.target /\ s.selected = stage.selected
      BY <2>1, <2>2, <1>t DEF LadderTyped, StageValues
  <2>4. stage.selected /\ train.best.dataset = dataset BY <1>7, <1>t DEF CompareStage, StageAt, StageSound
  <2> QED BY <1>7, <2>1, <2>3, <2>4, <1>t, StageGoesOn DEF CompareStage, StageAt, LadderTyped
<1>8. CASE DecideStage
  <2>1. PICK evaluated \in BOOLEAN :
          campaign' = [bound  |-> IF campaign.stages = <<>> THEN stage.inputs ELSE campaign.bound,
                       stages |-> Append(campaign.stages, StageRecord(evaluated))]
      BY <1>8 DEF DecideStage
  <2>2. PICK r : r = StageRecord(evaluated) OBVIOUS
  <2>3. GatesPass \in BOOLEAN BY DEF GatesPass
  <2>4. /\ r \in StageRecords /\ r.target = stage.target /\ r.selected = train.best /\ r.reached = stage.step
        /\ r.inputs = stage.inputs /\ (r.promoted => GatesPass)
      BY <2>2, <2>3, <1>t DEF StageRecord, StageRecords, LadderTyped, StageValues
  <2>5. PICK stages : stages = campaign.stages OBVIOUS
  <2>6. stages \in Seq(StageRecords) /\ Len(stages) \in Nat /\ DOMAIN stages = 1..Len(stages)
      BY <2>5, <1>t DEF LadderTyped
  <2>7. stage.at = "decide" BY <1>8 DEF DecideStage, StageAt
  <2>8. PICK bound : bound = stage.inputs OBVIOUS
  <2>9. campaign' = [bound |-> bound, stages |-> Append(stages, r)]
      BY <2>1, <2>2, <2>5, <2>7, <2>8, <1>t DEF StageSound
  <2>10. PICK more : more = Append(stages, r) OBVIOUS
  <2>11. /\ more \in Seq(StageRecords) /\ Len(more) = Len(stages) + 1 /\ DOMAIN more = 1..(Len(stages) + 1)
         /\ more[Len(stages) + 1] = r
         /\ \A i \in 1..Len(stages) : more[i] = stages[i]
      BY <2>4, <2>6, <2>10
  <2>12. campaign'.stages = more /\ campaign'.bound = bound BY <2>9, <2>10
  <2>13. \A t : Before(t)' = Before(t) /\ Earlier(t)' = Earlier(t) BY DEF Before, Earlier
  <2>14. ASSUME NEW i \in 1..Len(stages)
         PROVE  /\ stages[i].inputs.pack = bound.pack
                /\ stages[i].promoted => /\ stages[i].reached = stages[i].target
                                         /\ stages[i].selected.dataset = bound.dataset
                                         /\ Earlier(stages[i].target) # {} =>
                                              \E j \in 1..(i - 1) : /\ stages[j].target = Before(stages[i].target)
                                                                    /\ stages[j].promoted
    <3>1. bound = campaign.bound BY <2>5, <2>6, <2>7, <2>8, <2>14, <1>t DEF StageSound
    <3> QED BY <3>1, <2>5, <2>6, <1>t DEF StagesEarned
  <2>15. /\ r.inputs.pack = bound.pack
         /\ r.promoted => /\ r.reached = r.target
                          /\ r.selected.dataset = bound.dataset
                          /\ Earlier(r.target) # {} =>
                               \E j \in 1..Len(stages) : /\ stages[j].target = Before(r.target)
                                                         /\ stages[j].promoted
    <3>1. r.promoted => r.reached = r.target BY <2>4 DEF GatesPass, TargetReached
    <3>2. r.selected.dataset = bound.dataset BY <2>4, <2>7, <2>8, <1>t DEF StageSound
    <3>3. PriorOnRecord(r.target) BY <2>4, <2>7, <1>t DEF StageSound
    <3> QED BY <3>1, <3>2, <3>3, <2>4, <2>5, <2>6, <2>8 DEF PriorOnRecord
  <2>16. ASSUME NEW i \in 1..(Len(stages) + 1)
         PROVE  /\ more[i].inputs.pack = bound.pack
                /\ more[i].promoted => /\ more[i].reached = more[i].target
                                       /\ more[i].selected.dataset = bound.dataset
                                       /\ Earlier(more[i].target) # {} =>
                                            \E j \in 1..(i - 1) : /\ more[j].target = Before(more[i].target)
                                                                  /\ more[j].promoted
    <3>1. CASE i = Len(stages) + 1
      <4>1. more[i] = r /\ i - 1 = Len(stages) BY <3>1, <2>6, <2>11
      <4> QED BY <4>1, <2>11, <2>15
    <3>2. CASE i \in 1..Len(stages)
      <4>1. more[i] = stages[i] /\ \A j \in 1..(i - 1) : more[j] = stages[j] BY <3>2, <2>6, <2>11
      <4>2. ASSUME stages[i].promoted, Earlier(stages[i].target) # {}
            PROVE  \E j \in 1..(i - 1) : more[j].target = Before(stages[i].target) /\ more[j].promoted
        <5>1. PICK j \in 1..(i - 1) : stages[j].target = Before(stages[i].target) /\ stages[j].promoted
            BY <3>2, <4>2, <2>14
        <5> QED BY <4>1, <5>1
      <4>3. PICK e : e = stages[i] OBVIOUS
      <4>4. /\ e.inputs.pack = bound.pack
            /\ e.promoted => e.reached = e.target /\ e.selected.dataset = bound.dataset
          BY <3>2, <4>3, <2>14
      <4> QED BY <4>1, <4>2, <4>3, <4>4
    <3> QED BY <3>1, <3>2, <2>6
  <2>17. StagesEarned' BY <2>11, <2>12, <2>13, <2>16 DEF StagesEarned
  <2>18. stage' = NoStage /\ UNCHANGED <<pack, dataset, initial, train>> BY <1>8 DEF DecideStage, StageGoes
  <2>19. campaign' \in [bound : BoundInputs, stages : Seq(StageRecords)]
      BY <2>8, <2>9, <2>10, <2>11, <1>t DEF LadderTyped, StageValues
  <2>20. LadderTyped' BY <2>18, <2>19, <1>t, NoStageTyped DEF LadderTyped
  <2>21. StageSound' BY <2>18, NoStageTyped DEF StageSound
  <2> QED BY <2>17, <2>20, <2>21 DEF LadderInv
<1>9. CASE StageDies BY <1>9, StageEnds DEF StageDies
<1>10. CASE BuildHandoff BY <1>10, <1>t, <1>e, <1>s DEF BuildHandoff, LadderInv, LadderTyped
<1> QED BY <1>1, <1>2, <1>3, <1>4, <1>5, <1>6, <1>7, <1>8, <1>9, <1>10 DEF LadderNext

(* StagesEarned: a promoted stage ran to its target on the dataset of its campaign *)
(* after the stage before it was promoted, for any ladder of stages, whatever      *)
(* died, was swapped or was rebuilt on the way.                                    *)
THEOREM StagesAreEarned == LadderSpec => []StagesEarned
<1>1. LadderInv => StagesEarned BY DEF LadderInv
<1> QED BY <1>1, LadderInitial, LadderStep, PTL DEF LadderSpec

------------------------------------------------------------------------------
(* Governance of the reviewers.                                              *)

(* A report a preflight reads was written by an evaluation with minima of the      *)
(* command line; what the preflight accepts it has scored again by them.           *)
DeskFields == {"pc", "manifest", "roster", "todo", "report"}
ReportedNow ==
    DOMAIN evaluation = Rounds /\ \A r \in Rounds : evaluation[r] = NoEvaluation \/ evaluation[r].minima \in Minima
ReadReports ==
    /\ DOMAIN desk = Desks
    /\ \A d \in Desks : DOMAIN desk[d] = DeskFields /\ (desk[d].pc = "preflight" => desk[d].report.minima \in Minima)
Accepted(a) ==
    /\ a.report.minima \in Minima
    /\ a.loaded = a.hashed =>
          /\ a.report.roster = a.loaded
          /\ RosterReady(a.loaded) /\ DOMAIN a.report.answered = a.loaded.reviewers
          /\ Meets(a.report.answered, a.report.minima)
AcceptedByMinima == \A a \in preflights : Accepted(a)
GovernanceInv == ReportedNow /\ ReadReports /\ AcceptedByMinima

LEMMA GovernanceInitial == GovernanceInit => GovernanceInv
  BY DEF GovernanceInit, GovernanceInv, ReportedNow, ReadReports, AcceptedByMinima, DeskFree, DeskFields

(* A command that goes on to something other than the decision of a preflight.     *)
LEMMA DeskMoves ==
    ASSUME ReadReports, NEW d \in Desks, NEW new, DOMAIN new = DeskFields, DeskGoes(d, new),
           new.pc = "preflight" => new.report.minima \in Minima
    PROVE  ReadReports'
  BY DEF ReadReports, DeskGoes

LEMMA DeskLeaves == ASSUME ReadReports, NEW d \in Desks, DeskEnds(d) PROVE ReadReports'
<1>1. DOMAIN DeskFree = DeskFields /\ DeskFree.pc # "preflight" BY DEF DeskFree, DeskFields
<1> QED BY <1>1, DeskMoves DEF DeskEnds

LEMMA GovernanceStep == GovernanceInv /\ [GovernanceNext]_governanceVars => GovernanceInv'
<1> SUFFICES ASSUME GovernanceInv, [GovernanceNext]_governanceVars PROVE GovernanceInv' OBVIOUS
<1> USE DEF GovernanceInv
<1>e. ASSUME UNCHANGED evaluation PROVE ReportedNow' BY <1>e DEF ReportedNow
<1>d. ASSUME UNCHANGED desk PROVE ReadReports' BY <1>d DEF ReadReports
<1>p. ASSUME UNCHANGED preflights PROVE AcceptedByMinima' BY <1>p DEF AcceptedByMinima
<1>f. \A d \in Desks : DOMAIN desk[d] = DeskFields BY DEF ReadReports
<1>b. ASSUME NEW d \in Desks, NEW pc \in {"bundle", "pack", "finalize", "deliver"}, DeskGoes(d, [DeskFree EXCEPT !.pc = pc])
      PROVE  ReadReports'
  <2>1. PICK new : new = [DeskFree EXCEPT !.pc = pc] OBVIOUS
  <2>2. DOMAIN new = DeskFields /\ new.pc # "preflight" BY <2>1 DEF DeskFree, DeskFields
  <2> QED BY <1>b, <2>1, <2>2, DeskMoves
<1>1. CASE UNCHANGED governanceVars BY <1>1, <1>e, <1>d, <1>p DEF governanceVars
<1>2. CASE EditRoster \/ EditRubric BY <1>2, <1>e, <1>d, <1>p DEF EditRoster, EditRubric
<1>3. ASSUME NEW p \in People, ReturnAnswers(p) PROVE GovernanceInv'
    BY <1>3, <1>e, <1>d, <1>p DEF ReturnAnswers
<1>4. ASSUME NEW d \in Desks, InitializeBundle(d) \/ InitializePack(d) PROVE GovernanceInv'
    BY <1>4, <1>e, <1>b, <1>p DEF InitializeBundle, InitializePack
<1>5. ASSUME NEW d \in Desks, WriteBundleFile(d) \/ WritePackFile(d) PROVE GovernanceInv'
    BY <1>5, <1>e, <1>d, <1>p, DeskLeaves DEF WriteBundleFile, WritePackFile
<1>6. ASSUME NEW d \in Desks, FinalizeReads(d) \/ DeliverBegins(d) PROVE GovernanceInv'
    BY <1>6, <1>e, <1>b, <1>p DEF FinalizeReads, DeliverBegins
<1>7. ASSUME NEW d \in Desks, FinalizeBinds(d) \/ GovernorDies(d) PROVE GovernanceInv'
    BY <1>7, <1>e, <1>p, DeskLeaves DEF FinalizeBinds, GovernorDies
<1>8. ASSUME NEW d \in Desks, DeliverReads(d) PROVE GovernanceInv'
  <2>1. PICK new : new = [DeskFree EXCEPT !.pc = "packages", !.todo = bundle.roster.reviewers] OBVIOUS
  <2>2. DOMAIN new = DeskFields /\ new.pc # "preflight" BY <2>1 DEF DeskFree, DeskFields
  <2>3. DeskGoes(d, new) \/ DeskEnds(d) BY <1>8, <2>1 DEF DeliverReads
  <2> QED BY <1>8, <2>2, <2>3, <1>e, <1>p, DeskMoves, DeskLeaves DEF DeliverReads
<1>9. ASSUME NEW d \in Desks, WritePackage(d) PROVE GovernanceInv'
  <2>1. PICK p : DeskEnds(d) \/ DeskGoes(d, [desk[d] EXCEPT !.todo = @ \ {p}]) BY <1>9 DEF WritePackage
  <2>2. PICK new : new = [desk[d] EXCEPT !.todo = @ \ {p}] OBVIOUS
  <2>3. DOMAIN new = DeskFields /\ new.pc # "preflight" BY <2>2, <1>f, <1>9 DEF WritePackage, AtDesk, DeskFields
  <2> QED BY <1>9, <2>1, <2>2, <2>3, <1>e, <1>p, DeskMoves, DeskLeaves DEF WritePackage
<1>10. ASSUME NEW d \in Desks, EvaluateBinds(d) PROVE GovernanceInv'
  <2>1. PICK new : new = [DeskFree EXCEPT !.pc = "evaluate", !.manifest = bundle.manifest] OBVIOUS
  <2>2. DOMAIN new = DeskFields /\ new.pc # "preflight" BY <2>1 DEF DeskFree, DeskFields
  <2> QED BY <1>10, <2>1, <2>2, <1>e, <1>p, DeskMoves DEF EvaluateBinds
<1>11. ASSUME NEW d \in Desks, EvaluateReports(d) PROVE GovernanceInv'
  <2>1. PICK round \in Rounds, minima \in Minima :
            \/ evaluation' = evaluation
            \/ \E passed, roster, answered :
                  evaluation' = [evaluation EXCEPT ![round] = [passed |-> passed, roster |-> roster,
                                                               answered |-> answered, minima |-> minima]]
      BY <1>11 DEF EvaluateReports
  <2>2. ReportedNow' BY <2>1, <1>e DEF ReportedNow
  <2> QED BY <1>11, <2>2, <1>p, DeskLeaves DEF EvaluateReports
<1>12. ASSUME NEW d \in Desks, NEW r \in Rounds, PreflightReads(d, r) PROVE GovernanceInv'
  <2>1. PICK new : new = [DeskFree EXCEPT !.pc = "preflight", !.roster = bundle.roster, !.report = evaluation[r]]
      OBVIOUS
  <2>2. DOMAIN new = DeskFields /\ new.report = evaluation[r] BY <2>1 DEF DeskFree, DeskFields
  <2>3. evaluation[r].minima \in Minima BY <1>12 DEF PreflightReads, ReportedNow
  <2> QED BY <1>12, <2>1, <2>2, <2>3, <1>e, <1>p, DeskMoves DEF PreflightReads
<1>13. ASSUME NEW d \in Desks, PreflightDecides(d) PROVE GovernanceInv'
  <2> DEFINE me == desk[d]
  <2>1. me.report.minima \in Minima BY <1>13 DEF PreflightDecides, AtDesk, ReadReports
  <2>2. PICK a : a = [loaded |-> me.roster, hashed |-> bundle.roster, report |-> me.report] OBVIOUS
  <2>3. a.loaded = me.roster /\ a.hashed = bundle.roster /\ a.report = me.report BY <2>2
  <2>4. CASE RosterReady(me.roster) /\ Qualifies(me.report, me.roster, bundle.roster)
    <3>1. Accepted(a) BY <2>1, <2>3, <2>4 DEF Accepted, Qualifies, BoundTo
    <3>2. preflights' = preflights \union {a} BY <1>13, <2>2, <2>4 DEF PreflightDecides
    <3>3. AcceptedByMinima' BY <3>1, <3>2 DEF AcceptedByMinima
    <3> QED BY <1>13, <3>3, <1>e, DeskLeaves DEF PreflightDecides
  <2>5. CASE ~(RosterReady(me.roster) /\ Qualifies(me.report, me.roster, bundle.roster))
      BY <1>13, <2>5, <1>e, <1>p, DeskLeaves DEF PreflightDecides
  <2> QED BY <2>4, <2>5
<1> QED
    BY <1>1, <1>2, <1>3, <1>4, <1>5, <1>6, <1>7, <1>8, <1>9, <1>10, <1>11, <1>12, <1>13 DEF GovernanceNext

(* Who reviews met the minima of the evaluation the preflight accepted, and the    *)
(* evaluation was of the roster in force, whatever minima an operator asked for.   *)
THEOREM ReviewersMetMinima == GovernanceSpec => []AcceptedByMinima
<1>1. GovernanceInv => AcceptedByMinima BY DEF GovernanceInv
<1> QED BY <1>1, GovernanceInitial, GovernanceStep, PTL DEF GovernanceSpec

(* QualifiedReviewers: with the minima evaluations have unless the operator asks   *)
(* for others, 0.95 and 0.80, whoever reviews met those.                           *)
THEOREM ReviewersQualified ==
    ASSUME Accuracies = {19}, Kappas = {80}
    PROVE  GovernanceSpec => []QualifiedReviewers
<1>1. \A m \in Minima : m = [correct |-> 19, kappa |-> 80] BY DEF Minima
<1>2. AcceptedByMinima => QualifiedReviewers BY <1>1 DEF AcceptedByMinima, Accepted, QualifiedReviewers
<1> QED BY <1>2, ReviewersMetMinima, PTL

------------------------------------------------------------------------------
(* The workstation.                                                          *)

(* Where a training is: its step is within its target, past every directory there  *)
(* is, and whole and sealed once it has been written.                              *)
StationFields == {"pc", "step", "target", "save"}
Training == {"train", "save", "write", "seal", "prune", "hook", "complete"}
WholeAt(s) == s \in DOMAIN saves /\ saves[s] = "whole"
StationSound ==
    /\ DOMAIN station = StationFields /\ DOMAIN sealed = {"final", "best"} /\ sealed.final \in Nat
    /\ station.pc \in Training \union {"off", "raised"}
    /\ DOMAIN saves \subseteq 1..MaxTrained
    /\ station.pc \in Training =>
          /\ station.step \in 0..MaxTrained /\ station.target \in 0..MaxTrained
          /\ station.step <= station.target
          /\ station.pc = "train" => station.step < station.target
          /\ station.pc # "train" => station.step > 0
          /\ \A s \in DOMAIN saves : s <= station.step
          /\ station.pc \in {"seal", "prune", "complete"} => WholeAt(station.step)
          /\ station.pc = "prune" /\ station.save = "final" => sealed.final = station.step
          /\ station.pc = "complete" => sealed.final = station.step
TunerSound ==
    /\ DOMAIN tuner = {"pc", "base", "step", "target"} /\ DOMAIN tunings = {"dirs", "sealed"}
    /\ tuner.step \in Nat
    /\ tuner.pc \notin {"off", "train"} => tuner.step > 0
    /\ tuner.pc \in {"hook", "complete"} => tuner.step \in DOMAIN tunings.dirs /\ tunings.dirs[tuner.step] = TunedNow
    /\ SealedIsThere
Labelled(z) == z.weights # NoStep => z.label = IF z.tuned # NoStep THEN z.tuned ELSE z.weights
PackagesSound ==
    /\ DOMAIN zips = PackageNames /\ DOMAIN volume = {"packages", "manifest"} /\ DOMAIN volume.packages = PackageNames
    /\ DOMAIN ended = {"training", "tuning"}
    /\ \A n \in PackageNames : Labelled(zips[n]) /\ Labelled(volume.packages[n])
    /\ CompletedIsFinal
WorkstationInv == StationSound /\ TunerSound /\ PackagesSound

LEMMA WorkstationInitial == WorkstationInit => WorkstationInv
<1> SUFFICES ASSUME WorkstationInit PROVE WorkstationInv
  OBVIOUS
<1>1. StationSound
  BY DEF WorkstationInit, StationSound, Off, StationFields, Training, NoStep
<1>2. TunerSound
  BY DEF WorkstationInit, TunerSound, NoTuner, NoTunings, SealedIsThere, NoStep
<1>3. PackagesSound
  BY DEF WorkstationInit, PackagesSound, NoZips, NoZip, Labelled, CompletedIsFinal, PackageNames
<1> QED BY <1>1, <1>2, <1>3 DEF WorkstationInv

(* What an export makes of the directories.                                        *)
LEMMA PackageIsLabelled ==
    ASSUME NEW file
    PROVE  /\ Labelled(Package(file))
           /\ Package(file).weights = IF saves[Exported] = "whole" THEN Exported ELSE NoStep
BY DEF Package, Labelled, NoZip, NoStep

LEMMA LastIsLast ==
    ASSUME WorkstationAssumption, NEW S \in SUBSET (1..MaxTrained), S # {}
    PROVE  LastOf(S) \in S /\ \A s \in S : s <= LastOf(S)
<1>1. MaxTrained \in Nat
  BY DEF WorkstationAssumption
<1>2. PICK N : N = MaxTrained
  OBVIOUS
<1>3. N \in Nat /\ S \subseteq 0..N
  BY <1>1, <1>2
<1>4. \E s \in S : \A r \in S : r <= s
  BY <1>3, GreatestNat
<1> QED BY <1>4 DEF LastOf

(* A step of the training that leaves the packages alone.                          *)
LEMMA StationStep ==
    ASSUME WorkstationInv, StationSound', UNCHANGED <<zips, volume, ended, extracted, tunings, tuner>>
    PROVE  WorkstationInv'
<1>1. TunerSound'
  BY DEF WorkstationInv, TunerSound, TunedNow, SealedIsThere
<1>2. PackagesSound'
  BY DEF WorkstationInv, PackagesSound, CompletedIsFinal, Labelled
<1> QED BY <1>1, <1>2 DEF WorkstationInv

(* An export: packages with their labels, of which some are uploaded.              *)
LEMMA ExportStep ==
    ASSUME WorkstationInv, StationSound', UNCHANGED <<extracted, tunings, tuner>>, NEW names, Uploads(names),
           DOMAIN zips' = PackageNames, \A n \in PackageNames : Labelled(zips'[n]),
           DOMAIN ended' = DOMAIN ended, CompletedIsFinal'
    PROVE  WorkstationInv'
<1>1. TunerSound'
  BY DEF WorkstationInv, TunerSound, TunedNow, SealedIsThere
<1>2. /\ DOMAIN volume' = {"packages", "manifest"} /\ DOMAIN volume'.packages = PackageNames
      /\ \A n \in PackageNames : Labelled(volume'.packages[n])
  <2>1. CASE UNCHANGED volume
    BY <2>1 DEF WorkstationInv, PackagesSound, Labelled
  <2>2. CASE volume' = [packages |-> [n \in PackageNames |-> IF n \in names THEN zips'[n] ELSE volume.packages[n]],
                        manifest |-> sealed.final]
    <3>1. PICK packages : packages = [n \in PackageNames |-> IF n \in names THEN zips'[n] ELSE volume.packages[n]]
      OBVIOUS
    <3>2. volume'.packages = packages /\ DOMAIN volume' = {"packages", "manifest"}
      BY <2>2, <3>1
    <3>3. \A n \in PackageNames : Labelled(packages[n])
      BY <3>1 DEF WorkstationInv, PackagesSound
    <3> QED BY <3>1, <3>2, <3>3
  <2> QED BY <2>1, <2>2 DEF Uploads
<1>3. \A n \in PackageNames : Labelled(zips[n])' /\ Labelled(volume.packages[n])'
  BY <1>2 DEF Labelled
<1> QED BY <1>1, <1>2, <1>3 DEF WorkstationInv, PackagesSound

(* A step of the tuning, and one that changes packages.                            *)
LEMMA TunerPackages ==
    ASSUME WorkstationInv, TunerSound', StationIdle,
           DOMAIN zips' = PackageNames, \A n \in PackageNames : Labelled(zips'[n]),
           DOMAIN volume' = {"packages", "manifest"}, DOMAIN volume'.packages = PackageNames,
           \A n \in PackageNames : Labelled(volume'.packages[n]),
           DOMAIN ended' = DOMAIN ended, CompletedIsFinal'
    PROVE  WorkstationInv'
<1>1. StationSound'
  BY DEF WorkstationInv, StationSound, StationIdle, WholeAt
<1>2. \A n \in PackageNames : Labelled(zips[n])' /\ Labelled(volume.packages[n])'
  BY DEF Labelled
<1> QED BY <1>1, <1>2 DEF WorkstationInv, PackagesSound

LEMMA TunerStep ==
    ASSUME WorkstationInv, TunerSound', StationIdle, UNCHANGED <<zips, volume, ended>>
    PROVE  WorkstationInv'
<1>1. StationSound'
  BY DEF WorkstationInv, StationSound, StationIdle, WholeAt
<1>2. PackagesSound'
  BY DEF WorkstationInv, PackagesSound, CompletedIsFinal, Labelled
<1> QED BY <1>1, <1>2 DEF WorkstationInv

LEMMA WorkstationStep == WorkstationInv /\ [WorkstationNext]_workstationVars => WorkstationInv'
<1> SUFFICES ASSUME WorkstationInv, [WorkstationNext]_workstationVars PROVE WorkstationInv'
  OBVIOUS
<1>a. MaxTrained \in Nat
  BY WorkstationAssumption DEF WorkstationAssumption
<1>s. StationSound
  BY DEF WorkstationInv
<1>1. CASE UNCHANGED workstationVars
  BY <1>1, <1>s, StationStep DEF workstationVars, StationSound, WholeAt
<1>2. ASSUME NEW asked \in Asked, LaunchStation(asked) PROVE WorkstationInv'
  <2>1. DOMAIN Maintained \subseteq DOMAIN saves /\ DOMAIN Maintained \in SUBSET (1..MaxTrained)
    BY <1>s DEF Maintained, Of, LastN, Sizeable, StationSound
  <2>2. PICK from, target : from = ResumesAt(Maintained) /\ target = Target(asked)
    OBVIOUS
  <2>3. from \in 0..MaxTrained /\ \A s \in DOMAIN Maintained : s <= from
    <3>1. CASE DOMAIN Maintained = {}
      BY <1>a, <2>2, <3>1 DEF ResumesAt, NoStep
    <3>2. CASE DOMAIN Maintained # {}
      BY <1>a, <2>1, <2>2, <3>2, LastIsLast, WorkstationAssumption DEF ResumesAt
    <3> QED BY <3>1, <3>2
  <2>4. saves' = Maintained /\ UNCHANGED sealed /\ target <= MaxTrained
    BY <1>2, <2>2 DEF LaunchStation
  <2>5. \/ station' = [Off EXCEPT !.pc = "raised"]
        \/ /\ station' = [Off EXCEPT !.pc = "train", !.step = from, !.target = target]
           /\ from = NoStep \/ ~(from >= target)
    BY <1>2, <2>2 DEF LaunchStation
  <2>6. StationSound'
    <3>1. CASE station' = [Off EXCEPT !.pc = "raised"]
      BY <1>s, <2>1, <2>4, <3>1 DEF StationSound, Off, StationFields, Training
    <3>2. CASE /\ station' = [Off EXCEPT !.pc = "train", !.step = from, !.target = target]
               /\ from = NoStep \/ ~(from >= target)
      <4>1. target \in Nat \ {0}
        <5>1. /\ sealed.final \in Nat /\ asked \in Nat \ {0} /\ Extension \in Nat
          BY <1>s, WorkstationAssumption DEF StationSound, WorkstationAssumption
        <5> QED BY <2>2, <5>1 DEF Target
      <4>2. target \in 0..MaxTrained /\ from < target
        BY <1>a, <2>3, <2>4, <3>2, <4>1 DEF NoStep
      <4> QED BY <1>s, <2>1, <2>3, <2>4, <3>2, <4>2 DEF StationSound, Off, StationFields, Training
    <3> QED BY <2>5, <3>1, <3>2
  <2> QED BY <1>2, <2>6, StationStep DEF LaunchStation, TuningIdle
\* A station that is not at work, or that is stopped, promises nothing.
<1>o. ASSUME station'.pc \in {"off", "raised"}, DOMAIN station' = StationFields, UNCHANGED sealed,
             DOMAIN saves' \subseteq DOMAIN saves
      PROVE  StationSound'
  BY <1>o, <1>s DEF StationSound, Training
<1>f. DOMAIN Off = StationFields /\ Off.pc = "off"
  BY DEF Off, StationFields
\* A place the station goes to, with what it leaves behind there.
<1>g. ASSUME NEW new, station' = new, DOMAIN new = StationFields, DOMAIN sealed' = {"final", "best"}, sealed'.final \in Nat,
             new.pc \in Training, new.step \in 0..MaxTrained, new.target \in 0..MaxTrained, new.step <= new.target,
             new.pc = "train" => new.step < new.target,
             new.pc # "train" => new.step > 0,
             DOMAIN saves' \subseteq DOMAIN saves \union {new.step}, new.step \in DOMAIN saves' => new.step > 0 \/ new.step \in DOMAIN saves,
             station.pc \in Training, station.step <= new.step,
             new.pc \in {"seal", "prune", "complete"} => WholeAt(new.step)',
             new.pc = "prune" /\ new.save = "final" => sealed'.final = new.step,
             new.pc = "complete" => sealed'.final = new.step
      PROVE  StationSound'
  <2>1. DOMAIN saves' \subseteq 1..MaxTrained
    BY <1>a, <1>g, <1>s DEF StationSound
  <2>2. \A s \in DOMAIN saves' : s <= new.step
    <3>1. \A s \in DOMAIN saves : s \in Nat /\ s <= station.step
      BY <1>a, <1>g, <1>s DEF StationSound
    <3>2. station.step \in Nat /\ new.step \in Nat
      BY <1>a, <1>g, <1>s DEF StationSound
    <3>3. \A s \in DOMAIN saves : s <= new.step
      BY <1>g, <3>1, <3>2
    <3> QED BY <1>g, <3>2, <3>3
  <2> QED BY <1>g, <2>1, <2>2 DEF StationSound
<1>t. ASSUME station.pc \in Training
      PROVE  /\ station.step \in 0..MaxTrained /\ station.target \in 0..MaxTrained /\ station.step <= station.target
             /\ station.pc # "train" => station.step > 0
             /\ DOMAIN station = StationFields /\ DOMAIN sealed = {"final", "best"} /\ sealed.final \in Nat
  BY <1>s, <1>t DEF StationSound
\* Where a training goes from the step it is at.
<1>p. ASSUME NEW s, DOMAIN s = StationFields, s.step \in 0..MaxTrained, s.target \in 0..MaxTrained, s.step <= s.target, s.step > 0,
             NEW new \in {SavesAs(s, "best"), AfterBest(s), SavesAs(s, "final"), AfterPeriodic(s)}
      PROVE  /\ DOMAIN new = StationFields /\ new.step = s.step /\ new.target = s.target
             /\ new.pc \in {"train", "save"}
             /\ new.pc = "train" => s.step < s.target
  <2>1. \A reason : /\ DOMAIN SavesAs(s, reason) = StationFields /\ SavesAs(s, reason).step = s.step
                    /\ SavesAs(s, reason).target = s.target /\ SavesAs(s, reason).pc = "save"
    BY <1>p DEF SavesAs, StationFields
  <2>2. PICK on : on = [s EXCEPT !.pc = "train", !.save = "none"]
    OBVIOUS
  <2>3. DOMAIN on = StationFields /\ on.step = s.step /\ on.target = s.target /\ on.pc = "train"
    BY <1>p, <2>2 DEF StationFields
  <2>4. \/ \E reason : new = SavesAs(s, reason)
        \/ new = on /\ s.step < s.target
    BY <1>p, <2>2 DEF AfterBest, AfterPeriodic
  <2> QED BY <2>1, <2>3, <2>4
<1>3. CASE StationTrains
  <2>1. PICK s : s = [station EXCEPT !.step = @ + 1]
    OBVIOUS
  <2>2. station.pc = "train" /\ station.pc \in Training
    BY <1>3 DEF StationTrains, Training
  <2>3. DOMAIN s = StationFields /\ s.step = station.step + 1 /\ s.target = station.target
    BY <1>s, <2>1 DEF StationSound, StationFields
  <2>4. s.step \in 0..MaxTrained /\ s.target \in 0..MaxTrained /\ s.step <= s.target /\ s.step > 0
    BY <1>a, <1>s, <2>2, <2>3 DEF StationSound
  <2>5. PICK new : station' = new /\ new \in {SavesAs(s, "best"), AfterBest(s), SavesAs(s, "final")}
    BY <1>3, <2>1 DEF StationTrains
  <2>6. /\ DOMAIN new = StationFields /\ new.step = s.step /\ new.target = s.target
        /\ new.pc \in {"train", "save"}
        /\ new.pc = "train" => s.step < s.target
    BY <1>p, <2>3, <2>4, <2>5
  <2>x. station.step \in Nat /\ new.step = station.step + 1
    BY <1>a, <1>t, <2>2, <2>3, <2>6
  <2>y. station.step <= new.step /\ new.step > 0
    BY <2>x
  <2>z. UNCHANGED <<saves, sealed>>
    BY <1>3 DEF StationTrains
  <2>7. /\ UNCHANGED <<saves, sealed>> /\ station.step <= new.step /\ station' = new
        /\ DOMAIN sealed' = {"final", "best"} /\ sealed'.final \in Nat
        /\ new.pc \in Training /\ new.pc \notin {"seal", "prune", "complete"}
        /\ new.step \in 0..MaxTrained /\ new.target \in 0..MaxTrained /\ new.step <= new.target
        /\ new.pc = "train" => new.step < new.target
        /\ new.step > 0 /\ DOMAIN saves' \subseteq DOMAIN saves \union {new.step}
    BY <1>t, <2>2, <2>4, <2>5, <2>6, <2>y, <2>z DEF Training
  <2>8. StationSound'
    BY <1>g, <2>2, <2>6, <2>7
  <2> QED BY <1>3, <2>8, StationStep DEF StationTrains, TuningIdle
\* A place that differs in its pc alone.
<1>h. ASSUME NEW pc \in Training \ {"train"}, station' = [station EXCEPT !.pc = pc], station.pc \in Training \ {"train"},
             DOMAIN sealed' = {"final", "best"}, sealed'.final \in Nat, DOMAIN saves' \subseteq DOMAIN saves \union {station.step},
             pc \in {"seal", "prune", "complete"} => WholeAt(station.step)',
             pc = "prune" /\ station.save = "final" => sealed'.final = station.step,
             pc = "complete" => sealed'.final = station.step
      PROVE  StationSound'
  <2>1. PICK new : new = [station EXCEPT !.pc = pc]
    OBVIOUS
  <2>2. DOMAIN new = StationFields /\ new.pc = pc /\ new.step = station.step /\ new.target = station.target /\ new.save = station.save
    BY <1>h, <1>t, <2>1 DEF StationFields
  <2>3. /\ station' = new /\ new.pc \in Training /\ new.pc # "train" /\ new.step \in 0..MaxTrained
        /\ new.target \in 0..MaxTrained /\ new.step <= new.target /\ new.step > 0 /\ station.step <= new.step
    BY <1>h, <1>t, <1>a, <2>1, <2>2
  <2>4. WholeAt(station.step)' => WholeAt(new.step)'
    BY <2>2, <2>3 DEF WholeAt
  <2> QED BY <1>g, <1>h, <2>2, <2>3, <2>4
<1>4. CASE SaveBegins
  <2>1. station.pc = "save" /\ station' = [station EXCEPT !.pc = "write"] /\ UNCHANGED sealed
    BY <1>4 DEF SaveBegins
  <2>2. DOMAIN saves' = DOMAIN saves \union {station.step}
    BY <1>4 DEF SaveBegins, With
  <2>3. StationSound'
    BY <1>h, <1>t, <2>1, <2>2 DEF Training
  <2> QED BY <1>4, <2>3, StationStep DEF SaveBegins, TuningIdle
<1>5. CASE SaveEnds
  <2>1. station.pc = "write" /\ station' = [station EXCEPT !.pc = "seal"] /\ UNCHANGED sealed
    BY <1>5 DEF SaveEnds
  <2>2. DOMAIN saves' = DOMAIN saves \union {station.step} /\ saves'[station.step] = "whole"
    BY <1>5 DEF SaveEnds, With
  <2>3. station'.step = station.step
    BY <1>t, <2>1 DEF Training, StationFields
  <2>4. station.step \in DOMAIN saves' /\ saves'[station.step] = "whole"
    BY <2>2
  <2>5. StationSound'
    BY <1>h, <1>t, <2>1, <2>2, <2>3, <2>4 DEF Training, WholeAt
  <2> QED BY <1>5, <2>5, StationStep DEF SaveEnds, TuningIdle
<1>6. CASE SaveSeals
  <2>1. station.pc = "seal" /\ station' = [station EXCEPT !.pc = "prune"] /\ UNCHANGED saves
    BY <1>6 DEF SaveSeals
  <2>2. station.pc \in Training \ {"train"} /\ WholeAt(station.step) /\ station.step \in Nat
    BY <1>a, <1>s, <1>t, <2>1 DEF Training, StationSound
  <2>3. PICK final : final = IF station.save = "best" THEN sealed.final ELSE station.step
    OBVIOUS
  <2>4. DOMAIN sealed' = {"final", "best"} /\ sealed'.final = final
    BY <1>6, <1>t, <2>2, <2>3 DEF SaveSeals
  <2>5. sealed'.final \in Nat /\ (station.save = "final" => sealed'.final = station.step)
    BY <1>t, <2>2, <2>3, <2>4
  <2>6. WholeAt(station.step)'
    BY <1>t, <2>1, <2>2 DEF WholeAt, StationFields
  <2>7. StationSound'
    BY <1>h, <2>1, <2>2, <2>4, <2>5, <2>6 DEF Training
  <2> QED BY <1>6, <2>7, StationStep DEF SaveSeals, TuningIdle
<1>7. CASE SavePrunes
  <2>1. PICK pc : pc = IF station.save = "final" THEN "complete" ELSE "hook"
    OBVIOUS
  <2>2. station.pc = "prune" /\ station' = [station EXCEPT !.pc = pc] /\ UNCHANGED sealed
    BY <1>7, <2>1 DEF SavePrunes
  <2>3. /\ station.pc \in Training \ {"train"} /\ WholeAt(station.step)
        /\ station.save = "final" => sealed.final = station.step
    BY <1>s, <2>2 DEF Training, StationSound
  <2>4. PICK S : S = LastN(DOMAIN saves, KeptSaves) \union {station.step}
    OBVIOUS
  <2>5. saves' = Of(saves, S) /\ S \subseteq DOMAIN saves /\ station.step \in S
    BY <1>7, <2>3, <2>4 DEF SavePrunes, LastN, WholeAt
  <2>6. DOMAIN saves' = S /\ saves'[station.step] = "whole"
    BY <2>3, <2>5 DEF Of, WholeAt
  <2>7. station'.step = station.step
    BY <1>t, <2>2, <2>3 DEF StationFields
  <2>8. WholeAt(station.step)'
    BY <2>5, <2>6, <2>7 DEF WholeAt
  <2>9. /\ pc \in Training \ {"train"} /\ pc # "prune" /\ pc # "seal"
        /\ pc = "complete" => sealed'.final = station.step
        /\ DOMAIN sealed' = {"final", "best"} /\ sealed'.final \in Nat
        /\ DOMAIN saves' \subseteq DOMAIN saves \union {station.step}
    BY <1>t, <2>1, <2>2, <2>3, <2>5, <2>6 DEF Training
  <2>10. StationSound'
    <3>1. pc \in {"seal", "prune", "complete"} => WholeAt(station.step)'
      BY <2>8
    <3>2. pc = "prune" /\ station.save = "final" => sealed'.final = station.step
      BY <2>9
    <3> QED BY <1>h, <2>2, <2>3, <2>9, <3>1, <3>2
  <2> QED BY <1>7, <2>10, StationStep DEF SavePrunes, TuningIdle
<1>z. \A n \in PackageNames : Labelled(zips[n])
  BY DEF WorkstationInv, PackagesSound
<1>8. CASE StationExports
  <2>1. station.pc = "hook" /\ station.pc \in Training /\ UNCHANGED <<saves, sealed>>
    BY <1>8 DEF StationExports, Training
  <2>2. PICK new : station' = new /\ new \in {AfterBest(station), AfterPeriodic(station)}
    BY <1>8 DEF StationExports
  <2>3. /\ DOMAIN station = StationFields /\ station.step \in 0..MaxTrained /\ station.target \in 0..MaxTrained
        /\ station.step <= station.target /\ station.step > 0
    BY <1>t, <2>1
  <2>4. /\ DOMAIN new = StationFields /\ new.step = station.step /\ new.target = station.target
        /\ new.pc \in {"train", "save"}
        /\ new.pc = "train" => station.step < station.target
    BY <1>p, <2>2, <2>3
  <2>x. station.step <= new.step
    <3>1. station.step \in Nat
      BY <1>a, <2>3
    <3> QED BY <2>4, <3>1
  <2>5. /\ station.step <= new.step /\ DOMAIN sealed' = {"final", "best"} /\ sealed'.final \in Nat
        /\ new.pc \in Training /\ new.pc \notin {"seal", "prune", "complete"}
        /\ new.step \in 0..MaxTrained /\ new.target \in 0..MaxTrained /\ new.step <= new.target
        /\ new.pc = "train" => new.step < new.target
        /\ new.step > 0 /\ DOMAIN saves' \subseteq DOMAIN saves \union {new.step}
    BY <1>t, <2>1, <2>3, <2>4, <2>x DEF Training
  <2>6. StationSound'
    BY <1>g, <2>1, <2>2, <2>4, <2>5
  <2>7. PICK package : package = Package(station.step)
    OBVIOUS
  <2>8. Labelled(package)
    BY <2>7, PackageIsLabelled
  <2>9. zips' = zips \/ zips' = [zips EXCEPT !["latest"] = package]
    BY <1>8, <2>7 DEF StationExports
  <2>10. DOMAIN zips' = PackageNames /\ \A n \in PackageNames : Labelled(zips'[n])
    BY <1>z, <2>8, <2>9 DEF WorkstationInv, PackagesSound
  <2>11. zips'["completed"] = zips["completed"] /\ zips'["sft completed"] = zips["sft completed"] /\ UNCHANGED ended
    BY <1>8, <2>9 DEF StationExports
  <2>12. CompletedIsFinal'
    BY <2>11 DEF WorkstationInv, PackagesSound, CompletedIsFinal
  <2> QED BY <1>8, <2>6, <2>10, <2>11, <2>12, ExportStep DEF StationExports, TuningIdle
<1>9. CASE StationCompletes
  <2>1. station.pc = "complete" /\ station.pc \in Training /\ station' = Off /\ UNCHANGED <<saves, sealed>>
    BY <1>9 DEF StationCompletes, Training
  <2>2. StationSound'
    BY <1>o, <1>f, <2>1
  <2>3. WholeAt(station.step) /\ sealed.final = station.step /\ station.step > 0 /\ station.step \in Nat
    BY <1>a, <1>s, <1>t, <2>1 DEF StationSound
  <2>4. Exported = station.step /\ Exports
    BY <2>3 DEF Exported, Named, Exports, NoStep, WholeAt
  <2>5. PICK package : package = Package(NoStep)
    OBVIOUS
  <2>6. Labelled(package) /\ package.weights = station.step
    BY <2>3, <2>4, <2>5, PackageIsLabelled DEF WholeAt
  <2>7. zips' = [zips EXCEPT !["completed"] = package, !["latest"] = package]
    BY <1>9, <2>4, <2>5 DEF StationCompletes
  <2>8. DOMAIN zips' = PackageNames /\ \A n \in PackageNames : Labelled(zips'[n])
    BY <1>z, <2>6, <2>7 DEF WorkstationInv, PackagesSound
  <2>9. zips'["completed"] = package /\ zips'["sft completed"] = zips["sft completed"]
    BY <2>7 DEF WorkstationInv, PackagesSound, PackageNames
  <2>10. ended'.training = station.step /\ ended'.tuning = ended.tuning /\ DOMAIN ended' = DOMAIN ended
    BY <1>9 DEF StationCompletes, WorkstationInv, PackagesSound
  <2>11. CompletedIsFinal'
    BY <2>6, <2>9, <2>10 DEF WorkstationInv, PackagesSound, CompletedIsFinal
  <2> QED BY <1>9, <2>2, <2>8, <2>10, <2>11, ExportStep DEF StationCompletes, TuningIdle
<1>10. CASE StationInterrupted
  <2>1. PICK new : new = [Off EXCEPT !.pc = "raised"]
    OBVIOUS
  <2>2. DOMAIN new = StationFields /\ new.pc = "raised"
    BY <2>1 DEF Off, StationFields
  <2>3. station' = new /\ UNCHANGED sealed /\ DOMAIN saves' \subseteq DOMAIN saves
    BY <1>10, <2>1 DEF StationInterrupted, Of
  <2>4. StationSound'
    BY <1>o, <2>2, <2>3
  <2> QED BY <1>10, <2>4, StationStep DEF StationInterrupted, TuningIdle
<1>11. CASE EmergencyExport
  <2>1. StationSound'
    BY <1>o, <1>f, <1>11 DEF EmergencyExport
  <2>2. PICK package : package = Package(NoStep)
    OBVIOUS
  <2>3. Labelled(package)
    BY <2>2, PackageIsLabelled
  <2>4. zips' = zips \/ zips' = [zips EXCEPT !["emergency"] = package]
    BY <1>11, <2>2 DEF EmergencyExport
  <2>5. DOMAIN zips' = PackageNames /\ \A n \in PackageNames : Labelled(zips'[n])
    BY <1>z, <2>3, <2>4 DEF WorkstationInv, PackagesSound
  <2>6. zips'["completed"] = zips["completed"] /\ zips'["sft completed"] = zips["sft completed"] /\ UNCHANGED ended
    BY <1>11, <2>4 DEF EmergencyExport
  <2>7. CompletedIsFinal'
    BY <2>6 DEF WorkstationInv, PackagesSound, CompletedIsFinal
  <2> QED BY <1>11, <2>1, <2>5, <2>6, <2>7, ExportStep DEF EmergencyExport, TuningIdle
<1>12. CASE StationDies
  <2>1. StationSound'
    BY <1>o, <1>f, <1>12 DEF StationDies
  <2> QED BY <1>12, <2>1, StationStep DEF StationDies, TuningIdle
<1>13. ASSUME NEW steps \in TuningSteps, TuningBegins(steps) PROVE WorkstationInv'
  <2>1. /\ tuner' = [pc |-> "train", base |-> Located.weights, step |-> NoStep, target |-> steps]
        /\ UNCHANGED <<zips, volume, tunings, ended>> /\ StationIdle
    BY <1>13 DEF TuningBegins
  <2>2. TunerSound'
    BY <2>1 DEF WorkstationInv, TunerSound, SealedIsThere, NoStep
  <2> QED BY <2>1, <2>2, TunerStep
<1>u. TunerSound /\ tuner.step \in Nat
  BY DEF WorkstationInv, TunerSound
<1>14. CASE TunerTrains
  <2>1. PICK t : t = [tuner EXCEPT !.step = @ + 1]
    OBVIOUS
  <2>2. DOMAIN t = {"pc", "base", "step", "target"} /\ t.step = tuner.step + 1
    BY <1>u, <2>1 DEF TunerSound
  <2>3. \E pc \in {"save", "train", "final"} : tuner' = [t EXCEPT !.pc = pc]
    BY <1>14, <2>1 DEF TunerTrains
  <2>4. PICK pc \in {"save", "train", "final"} : tuner' = [t EXCEPT !.pc = pc]
    BY <2>3
  <2>5. PICK new : new = [t EXCEPT !.pc = pc]
    OBVIOUS
  <2>6. DOMAIN new = {"pc", "base", "step", "target"} /\ new.step = tuner.step + 1 /\ new.pc = pc /\ tuner' = new
    BY <2>2, <2>4, <2>5
  <2>7. UNCHANGED <<tunings, zips, volume, ended>> /\ StationIdle
    BY <1>14 DEF TunerTrains
  <2>8. new.step \in Nat /\ new.step > 0
    BY <1>u, <2>6
  <2>9. TunerSound'
    BY <1>u, <2>4, <2>6, <2>7, <2>8 DEF TunerSound, SealedIsThere
  <2> QED BY <2>7, <2>9, TunerStep
<1>15. CASE TunerWrites
  <2>1. PICK pc \in {"seal", "final seal"} : tuner' = [tuner EXCEPT !.pc = pc]
    BY <1>15 DEF TunerWrites
  <2>2. DOMAIN tuner' = {"pc", "base", "step", "target"} /\ tuner'.step = tuner.step /\ tuner'.pc = pc
    BY <1>u, <2>1 DEF TunerSound
  <2>3. tuner.step > 0 /\ UNCHANGED <<zips, volume, ended>> /\ StationIdle
    BY <1>15, <1>u DEF TunerWrites, TunerSound
  <2>4. PICK dirs : dirs = With(tunings.dirs, tuner.step, HalfWritten)
    OBVIOUS
  <2>5. tunings' = [tunings EXCEPT !.dirs = dirs]
    BY <1>15, <2>4 DEF TunerWrites
  <2>6. DOMAIN tunings' = {"dirs", "sealed"} /\ tunings'.dirs = dirs /\ tunings'.sealed = tunings.sealed
    BY <1>u, <2>5 DEF TunerSound
  <2>7. DOMAIN tunings.dirs \subseteq DOMAIN dirs
    BY <2>4 DEF With
  <2>8. SealedIsThere'
    BY <1>u, <2>6, <2>7 DEF TunerSound, SealedIsThere
  <2>9. TunerSound'
    BY <1>u, <2>2, <2>3, <2>6, <2>8 DEF TunerSound
  <2> QED BY <2>3, <2>9, TunerStep
<1>16. CASE TunerSeals
  <2>1. PICK pc \in {"hook", "complete"} : tuner' = [tuner EXCEPT !.pc = pc]
    BY <1>16 DEF TunerSeals
  <2>2. /\ DOMAIN tuner' = {"pc", "base", "step", "target"} /\ tuner'.step = tuner.step /\ tuner'.pc = pc
        /\ tuner'.base = tuner.base
    BY <1>u, <2>1 DEF TunerSound
  <2>3. tuner.step > 0 /\ UNCHANGED <<zips, volume, ended>> /\ StationIdle
    BY <1>16, <1>u DEF TunerSeals, TunerSound
  <2>4. PICK written : written = With(tunings.dirs, tuner.step, TunedNow)
    OBVIOUS
  <2>5. tuner.step \in DOMAIN written /\ written[tuner.step] = TunedNow
    BY <2>4 DEF With
  <2>6. PICK dirs : dirs \in {Of(written, Pruned(written)), written} /\ tunings' = [dirs |-> dirs, sealed |-> tuner.step]
    BY <1>16, <2>4 DEF TunerSeals
  <2>7. tuner.step \in DOMAIN dirs /\ dirs[tuner.step] = TunedNow
    BY <2>5, <2>6 DEF Of, Pruned
  <2>8. DOMAIN tunings' = {"dirs", "sealed"} /\ tunings'.dirs = dirs /\ tunings'.sealed = tuner.step
    BY <2>6
  <2>9. TunedNow' = TunedNow
    BY <2>2 DEF TunedNow
  <2>10. TunerSound'
    BY <1>u, <2>2, <2>3, <2>7, <2>8, <2>9 DEF TunerSound, SealedIsThere
  <2> QED BY <2>3, <2>10, TunerStep
<1>v. ASSUME tuner.pc \in {"hook", "complete"}
      PROVE  /\ Labelled(TunedPackage) /\ tuner.step > 0
             /\ TunedPackage.weights = tuner.base /\ TunedPackage.tuned = tuner.step
  <2>1. tunings.dirs[tuner.step] = TunedNow /\ tuner.step > 0
    BY <1>u, <1>v DEF TunerSound
  <2>2. TunedPackage = [NoZip EXCEPT !.label = tuner.step, !.weights = tuner.base, !.tuned = tuner.step]
    BY <2>1 DEF TunedPackage, TunedNow
  <2>3. TunedPackage.weights = tuner.base /\ TunedPackage.tuned = tuner.step /\ TunedPackage.label = tuner.step
    BY <2>2 DEF NoZip
  <2> QED BY <1>u, <2>1, <2>3 DEF Labelled, NoStep
<1>c. ASSUME NEW name \in PackageNames, CopiesToVolume(name), Labelled(TunedPackage)
      PROVE  /\ DOMAIN volume' = {"packages", "manifest"} /\ DOMAIN volume'.packages = PackageNames
             /\ \A n \in PackageNames : Labelled(volume'.packages[n])
  <2>1. PICK package : package = TunedPackage
    OBVIOUS
  <2>2. PICK packages : packages = [volume.packages EXCEPT ![name] = package]
    OBVIOUS
  <2>3. DOMAIN packages = PackageNames /\ \A n \in PackageNames : Labelled(packages[n])
    BY <1>c, <2>1, <2>2 DEF WorkstationInv, PackagesSound
  <2>4. CASE volume' = volume
    BY <2>4 DEF WorkstationInv, PackagesSound
  <2>5. CASE volume' = [volume EXCEPT !.packages = packages]
    <3>1. DOMAIN volume' = {"packages", "manifest"} /\ volume'.packages = packages
      BY <2>5 DEF WorkstationInv, PackagesSound
    <3> QED BY <2>3, <3>1
  <2> QED BY <1>c, <2>1, <2>2, <2>4, <2>5 DEF CopiesToVolume
<1>17. CASE TunerExports
  <2>1. tuner.pc = "hook" /\ CopiesToVolume("sft latest") /\ UNCHANGED <<tunings, ended>> /\ StationIdle
    BY <1>17 DEF TunerExports
  <2>2. PICK pc \in {"train", "final"} : tuner' = [tuner EXCEPT !.pc = pc]
    BY <1>17 DEF TunerExports
  <2>3. DOMAIN tuner' = {"pc", "base", "step", "target"} /\ tuner'.step = tuner.step /\ tuner'.pc = pc
    BY <1>u, <2>2 DEF TunerSound
  <2>4. Labelled(TunedPackage) /\ tuner.step > 0
    BY <1>v, <2>1
  <2>5. TunerSound'
    BY <1>u, <2>1, <2>3, <2>4 DEF TunerSound, SealedIsThere
  <2>6. PICK package : package = TunedPackage
    OBVIOUS
  <2>7. zips' = [zips EXCEPT !["sft latest"] = package]
    BY <1>17, <2>6 DEF TunerExports
  <2>8. DOMAIN zips' = PackageNames /\ \A n \in PackageNames : Labelled(zips'[n])
    BY <1>z, <2>4, <2>6, <2>7 DEF WorkstationInv, PackagesSound
  <2>9. zips'["completed"] = zips["completed"] /\ zips'["sft completed"] = zips["sft completed"]
    BY <2>7 DEF WorkstationInv, PackagesSound, PackageNames
  <2>10. CompletedIsFinal'
    BY <2>1, <2>9 DEF WorkstationInv, PackagesSound, CompletedIsFinal
  <2>11. "sft latest" \in PackageNames
    BY DEF PackageNames
  <2> QED BY <1>c, <2>1, <2>4, <2>5, <2>8, <2>10, <2>11, TunerPackages
<1>18. CASE TunerCompletes
  <2>1. tuner.pc = "complete" /\ CopiesToVolume("sft completed") /\ UNCHANGED tunings /\ StationIdle /\ tuner' = NoTuner
    BY <1>18 DEF TunerCompletes
  <2>2. /\ Labelled(TunedPackage) /\ TunedPackage.weights = tuner.base /\ TunedPackage.tuned = tuner.step
    BY <1>v, <2>1
  <2>3. TunerSound'
    BY <1>u, <2>1 DEF TunerSound, SealedIsThere, NoTuner, NoStep
  <2>4. PICK package : package = TunedPackage
    OBVIOUS
  <2>5. zips' = [zips EXCEPT !["sft completed"] = package, !["sft latest"] = package]
    BY <1>18, <2>4 DEF TunerCompletes
  <2>6. DOMAIN zips' = PackageNames /\ \A n \in PackageNames : Labelled(zips'[n])
    BY <1>z, <2>2, <2>4, <2>5 DEF WorkstationInv, PackagesSound
  <2>7. zips'["completed"] = zips["completed"] /\ zips'["sft completed"] = package
    BY <2>5 DEF WorkstationInv, PackagesSound, PackageNames
  <2>8. ended'.training = ended.training /\ ended'.tuning = TunedNow /\ DOMAIN ended' = DOMAIN ended
    BY <1>18 DEF TunerCompletes, WorkstationInv, PackagesSound
  <2>9. CompletedIsFinal'
    BY <2>2, <2>4, <2>7, <2>8 DEF WorkstationInv, PackagesSound, CompletedIsFinal, TunedNow
  <2>10. "sft completed" \in PackageNames
    BY DEF PackageNames
  <2> QED BY <1>c, <2>1, <2>2, <2>3, <2>6, <2>8, <2>9, <2>10, TunerPackages
<1>19. CASE TunerDies
  <2>1. tuner' = NoTuner /\ UNCHANGED <<tunings, zips, volume, ended>> /\ StationIdle
    BY <1>19 DEF TunerDies
  <2>2. TunerSound'
    BY <1>u, <2>1 DEF TunerSound, SealedIsThere, NoTuner, NoStep
  <2> QED BY <2>1, <2>2, TunerStep
<1>20. CASE MachineLost
  <2>1. StationSound'
    BY <1>20 DEF MachineLost, StationSound, Off, StationFields, Training, NoStep
  <2>2. TunerSound'
    BY <1>20 DEF MachineLost, TunerSound, NoTuner, NoTunings, SealedIsThere, NoStep
  <2>3. /\ DOMAIN zips' = PackageNames /\ DOMAIN ended' = {"training", "tuning"} /\ UNCHANGED volume
        /\ \A n \in PackageNames : zips'[n] = NoZip
    BY <1>20 DEF MachineLost, NoZips
  <2>4. CompletedIsFinal'
    BY <2>3 DEF CompletedIsFinal, PackageNames
  <2>5. Labelled(NoZip)
    BY DEF Labelled, NoZip
  <2>6. \A n \in PackageNames : Labelled(zips[n])' /\ Labelled(volume.packages[n])'
    BY <2>3, <2>5 DEF WorkstationInv, PackagesSound, Labelled
  <2>7. PackagesSound'
    BY <2>3, <2>4, <2>6 DEF WorkstationInv, PackagesSound
  <2> QED BY <2>1, <2>2, <2>7 DEF WorkstationInv
<1> QED BY <1>1, <1>2, <1>3, <1>4, <1>5, <1>6, <1>7, <1>8, <1>9, <1>10, <1>11, <1>12, <1>13, <1>14, <1>15, <1>16, <1>17,
           <1>18, <1>19, <1>20 DEF WorkstationNext

(* What can be downloaded is what it says it is, whatever was interrupted, pruned  *)
(* and run again, for any number of launches, steps and mishaps: export_clean_     *)
(* checkpoint_to_root, export_clean_sft_package and the loops behind them.         *)
THEOREM PackagesAreAsTrained == WorkstationSpec => []PackagedAsTrained
<1>1. WorkstationInv => PackagedAsTrained
  <2> SUFFICES ASSUME WorkstationInv PROVE PackagedAsTrained
    OBVIOUS
  <2>1. LabelledAsIs
    BY DEF WorkstationInv, PackagesSound, LabelledAsIs, Packages, Labelled
  <2>2. GoesOn
    BY DEF WorkstationInv, StationSound, GoesOn, Training
  <2> QED BY <2>1, <2>2 DEF WorkstationInv, PackagesSound, TunerSound, PackagedAsTrained
<1> QED BY <1>1, WorkstationInitial, WorkstationStep, PTL DEF WorkstationSpec

------------------------------------------------------------------------------
(* Experiments and their arms.                                               *)

(* What is written in the directory of an experiment.                              *)
ManifestWritten(type) ==
    LET m == experiment[type].manifest IN
    m # Unwritten =>
        \E d \in Datasets :
            /\ m.dataset.file = <<"dataset", d>>
            /\ type = "tokenizer_selection" => \A w \in Vocabularies : m.tokenizers[w].file = <<"tokenizer", w, d>>
EvidenceSound(type) ==
    /\ DOMAIN experiment[type].evidence \subseteq ArmsOf(type)
    /\ \A a \in DOMAIN experiment[type].evidence : experiment[type].evidence[a].score \in Scores
(* A comparison that passed is of the whole evidence, which nothing is added to.   *)
Supported(type, c) ==
    c # Unwritten /\ c.status = "passed" =>
        /\ c.choice # {} /\ DOMAIN experiment[type].evidence = ArmsOf(type)
        /\ c.choice = ChoiceOf(type, experiment[type].evidence)
DecisionSound(type) ==
    LET d == experiment[type].decision  p == experiment[type].promotion IN
    /\ Supported(type, experiment[type].comparison)
    /\ d # Unwritten => d.status = d.comparison.status /\ d.choice = d.comparison.choice
                        /\ d.comparison # Unwritten /\ Supported(type, d.comparison)
    /\ p # Unwritten => d # Unwritten /\ p.choice = d.choice /\ (p.status = "promoted" => d.status = "passed")
StudySound(type) ==
    /\ DOMAIN experiment[type] = {"manifest", "evidence", "reports", "comparison", "decision", "promotion"}
    /\ ManifestWritten(type) /\ EvidenceSound(type) /\ DecisionSound(type)
CommandSound(c) ==
    /\ DOMAIN command[c] = {"pc", "type", "reports", "comparison"}
    /\ command[c].pc # "idle" => command[c].type \in Types /\ Supported(command[c].type, command[c].comparison)
    /\ command[c].pc = "decide" => command[c].comparison # Unwritten
AuthorisedSound ==
    progression.status = "authorized" => \A type \in Types : experiment[type].promotion # Unwritten /\ experiment[type].manifest # Unwritten
                                             /\ DOMAIN experiment[type].evidence = ArmsOf(type)
StudyInv ==
    /\ DOMAIN experiment = Types /\ DOMAIN command = Commands
    /\ \A type \in Types : StudySound(type)
    /\ \A c \in Commands : CommandSound(c)
    /\ AuthorisedSound /\ ProgressionEarned

LEMMA StudiesInitial == ExperimentsInit => StudyInv
<1> SUFFICES ASSUME ExperimentsInit PROVE StudyInv
  OBVIOUS
<1>1. ASSUME NEW type \in Types PROVE StudySound(type)
  <2>1. experiment[type] = NoExperiment
    BY DEF ExperimentsInit
  <2>2. ManifestWritten(type) /\ DecisionSound(type)
    BY <2>1 DEF NoExperiment, ManifestWritten, DecisionSound, Supported
  <2>3. EvidenceSound(type)
    BY <2>1 DEF NoExperiment, EvidenceSound
  <2> QED BY <2>1, <2>2, <2>3 DEF StudySound, NoExperiment
<1>2. ASSUME NEW c \in Commands PROVE CommandSound(c)
  BY DEF ExperimentsInit, CommandSound, NoCommand
<1>3. AuthorisedSound /\ ProgressionEarned
  BY DEF ExperimentsInit, AuthorisedSound, ProgressionEarned, Unwritten
<1> QED BY <1>1, <1>2, <1>3 DEF StudyInv, ExperimentsInit

(* Evidence that is whole stays, and so do manifests and promotions.               *)
StudyGoesOn(type) ==
    /\ DOMAIN experiment[type].evidence = ArmsOf(type) => experiment'[type].evidence = experiment[type].evidence
    /\ experiment[type].manifest # Unwritten => experiment'[type].manifest = experiment[type].manifest
    /\ experiment[type].promotion # Unwritten => experiment'[type].promotion = experiment[type].promotion
LEMMA SupportedStays ==
    ASSUME NEW type, StudyGoesOn(type), NEW c, Supported(type, c)
    PROVE  Supported(type, c)'
<1>1. \A items : ChoiceOf(type, items)' = ChoiceOf(type, items)
  BY DEF ChoiceOf, TokenizerChoice, ArchitectureChoice, ScalingChoice
<1>2. ArmsOf(type)' = ArmsOf(type)
  BY DEF ArmsOf
<1> QED BY <1>2 DEF Supported, StudyGoesOn
LEMMA CommandStays ==
    ASSUME NEW c \in Commands, CommandSound(c), command'[c] = command[c], \A type \in Types : StudyGoesOn(type)
    PROVE  CommandSound(c)'
<1>1. DOMAIN command'[c] = DOMAIN command[c] /\ command'[c] = command[c]
  OBVIOUS
<1>2. ASSUME command[c].pc # "idle" PROVE Supported(command[c].type, command[c].comparison)'
  <2>1. PICK t, k : t = command[c].type /\ k = command[c].comparison
    OBVIOUS
  <2>2. Supported(t, k)'
    BY <1>2, <2>1, SupportedStays DEF CommandSound
  <2> QED BY <1>1, <2>1, <2>2 DEF Supported
<1> QED BY <1>1, <1>2 DEF CommandSound

(* The tokenizer that is chosen is a candidate.                                    *)
LEMMA TokenizerArms ==
    /\ ArmsOf("tokenizer_selection") = Vocabularies
    /\ \A items : ChoiceOf("tokenizer_selection", items) = TokenizerChoice(items)
BY Zenon DEF ArmsOf, ChoiceOf
LEMMA CandidateIsChosen ==
    ASSUME NEW items, DOMAIN items = Vocabularies, \A a \in Vocabularies : items[a].score \in Scores
    PROVE  TokenizerChoice(items) \subseteq Vocabularies
<1>1. PICK highest \in Nat : Scores \subseteq 0..highest
  <2>1. Scores \subseteq Nat /\ \E highest \in Scores : \A score \in Scores : score <= highest
    BY ExperimentAssumption
  <2>2. PICK highest \in Scores : \A score \in Scores : score <= highest
    BY <2>1
  <2>3. \A score \in Scores : score \in Nat /\ score \in 0..highest
    BY <2>1, <2>2
  <2> QED BY <2>1, <2>2, <2>3
<1>2. SUFFICES ASSUME Eligible(items) # {} PROVE SmallestOf(NonInferior(items)) \in Vocabularies
  BY DEF TokenizerChoice
<1>3. PICK S : S = {items[a].score : a \in Eligible(items)}
  OBVIOUS
<1>4. Eligible(items) \subseteq Vocabularies
  BY DEF Eligible
<1>5. S \subseteq 0..highest /\ S # {}
  BY <1>1, <1>2, <1>3, <1>4
<1>6. PICK n \in S : \A m \in S : m <= n
  BY <1>5, GreatestNat
<1>7. PICK a \in Eligible(items) : items[a].score = n
  BY <1>3, <1>6
<1>8. a \in NonInferior(items)
  <2>1. ASSUME NEW b \in Eligible(items) PROVE items[b].score - items[a].score <= Gap
    <3>1. items[b].score \in S /\ items[b].score <= n
      BY <1>3, <1>6
    <3>2. items[b].score \in 0..highest /\ n \in 0..highest /\ Gap \in Nat
      BY <1>5, <3>1, ExperimentAssumption
    <3> QED BY <1>7, <3>1, <3>2
  <2> QED BY <1>7, <2>1 DEF NonInferior
<1>9. PICK T : T = NonInferior(items)
  OBVIOUS
<1>10. T \subseteq Vocabularies /\ T \subseteq Nat /\ T # {}
  BY <1>4, <1>8, <1>9, ExperimentAssumption DEF NonInferior
<1>11. \E v \in T : \A w \in T : v <= w
  BY <1>10, LeastNat
<1>12. SmallestOf(T) \in T
  BY <1>11 DEF SmallestOf
<1> QED BY <1>9, <1>10, <1>12


LEMMA ProgressionStays ==
    ASSUME StudyInv, \A type \in Types : StudyGoesOn(type), UNCHANGED progression
    PROVE  AuthorisedSound' /\ ProgressionEarned'
<1> SUFFICES ASSUME progression'.status = "authorized"
             PROVE  AuthorisedSound' /\ ProgressionEarned'
  BY DEF AuthorisedSound, ProgressionEarned
<1>1. ASSUME NEW type \in Types
      PROVE  /\ experiment[type].promotion # Unwritten /\ experiment[type].manifest # Unwritten
             /\ DOMAIN experiment[type].evidence = ArmsOf(type)
             /\ experiment'[type].promotion = experiment[type].promotion
             /\ experiment'[type].manifest = experiment[type].manifest
             /\ experiment'[type].evidence = experiment[type].evidence
  BY DEF StudyInv, AuthorisedSound, StudyGoesOn
<1>2. AuthorisedSound'
  BY <1>1 DEF AuthorisedSound
<1>3. ASSUME NEW type \in Types
      PROVE  LET x == experiment'[type] IN
             /\ DOMAIN x.evidence = ArmsOf(type)
             /\ x.promotion.choice = ChoiceOf(type, x.evidence)
             /\ \A a \in ArmsOf(type) : x.evidence[a].report.sha = progression'.disk[x.evidence[a].report.file]
  BY <1>1 DEF StudyInv, ProgressionEarned
<1>4. "tokenizer_selection" \in Types
  BY DEF Types
<1>5. Chosen' = Chosen
  BY <1>1, <1>4 DEF Chosen
<1>6. ASSUME NEW type \in Types \ {"tokenizer_selection"}
      PROVE  Manifest(type)'.tokenizers["selected"].file = <<"tokenizer", Chosen', Manifest("tokenizer_selection")'.dataset.file[2]>>
  <2>1. Manifest(type)' = Manifest(type) /\ Manifest("tokenizer_selection")' = Manifest("tokenizer_selection")
    BY <1>1, <1>4 DEF Manifest
  <2> QED BY <1>5, <2>1 DEF StudyInv, ProgressionEarned
<1>7. ProgressionEarned'
  BY <1>3, <1>6 DEF ProgressionEarned
<1> QED BY <1>2, <1>7

LEMMA StudyStays ==
    ASSUME NEW type \in Types, StudySound(type), experiment'[type] = experiment[type]
    PROVE  StudySound(type)'
<1>1. StudyGoesOn(type)
  BY DEF StudyGoesOn
<1>2. PICK x : x = experiment[type] /\ x = experiment'[type]
  OBVIOUS
<1>3. DecisionSound(type)'
  <2>1. \A k : Supported(type, k) => Supported(type, k)'
    BY <1>1, SupportedStays
  <2> QED BY <2>1 DEF StudySound, DecisionSound
<1>4. ManifestWritten(type)' /\ EvidenceSound(type)'
  BY DEF StudySound, ManifestWritten, EvidenceSound
<1> QED BY <1>3, <1>4 DEF StudySound

(* One directory goes to new.                                                      *)
LEMMA StudyStep ==
    ASSUME StudyInv, NEW type \in Types, NEW new, experiment' = [experiment EXCEPT ![type] = new], UNCHANGED progression,
           StudyGoesOn(type), StudySound(type)', DOMAIN command' = Commands,
           (\A t \in Types : StudyGoesOn(t)) => \A c \in Commands : CommandSound(c)'
    PROVE  StudyInv'
<1>1. DOMAIN experiment' = Types /\ \A t \in Types \ {type} : experiment'[t] = experiment[t]
  BY DEF StudyInv
<1>2. ASSUME NEW t \in Types PROVE StudyGoesOn(t) /\ StudySound(t)'
  <2>1. CASE t = type
    BY <2>1
  <2>2. CASE t # type
    BY <1>1, <2>2, StudyStays DEF StudyInv, StudyGoesOn
  <2> QED BY <2>1, <2>2
<1>3. AuthorisedSound' /\ ProgressionEarned'
  BY <1>2, ProgressionStays
<1> QED BY <1>1, <1>2, <1>3 DEF StudyInv
LEMMA CommandsStay ==
    ASSUME StudyInv, UNCHANGED command, \A t \in Types : StudyGoesOn(t)
    PROVE  \A c \in Commands : CommandSound(c)'
BY CommandStays DEF StudyInv
(* A command goes to new, and no directory changes.                                *)
LEMMA CommandStep ==
    ASSUME StudyInv, NEW c \in Commands, NEW new, command' = [command EXCEPT ![c] = new], UNCHANGED <<experiment, progression>>,
           CommandSound(c)'
    PROVE  StudyInv'
<1>1. \A t \in Types : StudyGoesOn(t) /\ StudySound(t)'
  BY StudyStays DEF StudyInv, StudyGoesOn
<1>2. ASSUME NEW b \in Commands PROVE CommandSound(b)'
  <2>1. CASE b = c
    BY <2>1
  <2>2. CASE b # c
    BY <1>1, <2>2, CommandStays DEF StudyInv
  <2> QED BY <2>1, <2>2
<1>3. AuthorisedSound' /\ ProgressionEarned'
  BY <1>1, ProgressionStays
<1> QED BY <1>1, <1>2, <1>3 DEF StudyInv

LEMMA CommandEndsSound == ASSUME NEW c \in Commands, command'[c] = NoCommand PROVE CommandSound(c)'
BY DEF CommandSound, NoCommand
LEMMA CommandDiesKeeps == ASSUME StudyInv, NEW c \in Commands, CommandDies(c) PROVE StudyInv'
<1>1. PICK new : new = NoCommand
  OBVIOUS
<1>2. command'[c] = new /\ command' = [command EXCEPT ![c] = new] /\ UNCHANGED <<experiment, progression>>
  BY <1>1 DEF CommandDies, StudyInv
<1>3. CommandSound(c)'
  BY <1>1, <1>2, CommandEndsSound
<1> QED BY <1>2, <1>3, CommandStep

LEMMA PlanKeeps == ASSUME StudyInv, NEW type \in Types, Plan(type) PROVE StudyInv'
<1>0. PICK d \in Datasets, v \in Vocabularies : experiment' = [experiment EXCEPT ![type].manifest =
              [status |-> "planned", dataset |-> BindArtifact(<<"dataset", d>>), tokenizers |-> TokenizersOf(type, d, v)]]
  BY DEF Plan
<1>1. PICK m :
        /\ m = [status |-> "planned", dataset |-> BindArtifact(<<"dataset", d>>), tokenizers |-> TokenizersOf(type, d, v)]
        /\ experiment' = [experiment EXCEPT ![type].manifest = m]
  BY <1>0
<1>2. PICK new : new = [experiment[type] EXCEPT !.manifest = m]
  OBVIOUS
<1>3. experiment[type] = NoExperiment /\ UNCHANGED <<command, progression>>
  BY DEF Plan
<1>4. experiment' = [experiment EXCEPT ![type] = new] /\ experiment'[type] = new
  BY <1>1, <1>2 DEF StudyInv
<1>5. /\ DOMAIN new = {"manifest", "evidence", "reports", "comparison", "decision", "promotion"}
      /\ new.manifest = m /\ new.evidence = <<>> /\ new.comparison = Unwritten /\ new.decision = Unwritten /\ new.promotion = Unwritten
  BY <1>2, <1>3 DEF NoExperiment
<1>6. StudyGoesOn(type)
  BY <1>3, <1>4, <1>5 DEF StudyGoesOn, NoExperiment
<1>7. ManifestWritten(type)'
  <2>1. m.dataset.file = <<"dataset", d>>
    BY <1>1 DEF BindArtifact
  <2>2. ASSUME type = "tokenizer_selection", NEW w \in Vocabularies PROVE m.tokenizers[w].file = <<"tokenizer", w, d>>
    BY <1>1, <2>2 DEF TokenizersOf, BindArtifact
  <2> QED BY <1>4, <1>5, <2>1, <2>2 DEF ManifestWritten
<1>8. StudySound(type)'
  BY <1>4, <1>5, <1>7 DEF StudySound, EvidenceSound, DecisionSound, Supported
<1> QED BY <1>3, <1>4, <1>6, <1>8, StudyStep, CommandsStay DEF StudyInv

LEMMA AdmitArmKeeps == ASSUME StudyInv, NEW type \in Types, NEW arm \in ArmsOf(type), AdmitArm(type, arm) PROVE StudyInv'
<1>0. PICK admitted : admitted = experiment[type].evidence
  OBVIOUS
<1>1. PICK score \in Scores, spread \in Spreads : experiment' = [experiment EXCEPT ![type].evidence =
              [a \in DOMAIN admitted \union {arm} |->
                  IF a = arm THEN [report |-> BindArtifact(<<"report", type, arm>>), score |-> score, spread |-> spread]
                             ELSE admitted[a]]]
  BY <1>0 DEF AdmitArm
<1>2. PICK items : items = [a \in DOMAIN admitted \union {arm} |->
                  IF a = arm THEN [report |-> BindArtifact(<<"report", type, arm>>), score |-> score, spread |-> spread]
                             ELSE admitted[a]]
  OBVIOUS
<1>3. PICK new : new = [experiment[type] EXCEPT !.evidence = items]
  OBVIOUS
<1>4. arm \in ArmsOf(type) /\ arm \notin DOMAIN admitted /\ UNCHANGED <<command, progression>>
  BY <1>0 DEF AdmitArm
<1>5. experiment' = [experiment EXCEPT ![type] = new] /\ experiment'[type] = new
  BY <1>1, <1>2, <1>3 DEF StudyInv
<1>6. StudySound(type)
  BY DEF StudyInv
<1>7. /\ DOMAIN new = DOMAIN experiment[type] /\ new.evidence = items
      /\ new.manifest = experiment[type].manifest /\ new.comparison = experiment[type].comparison
      /\ new.decision = experiment[type].decision /\ new.promotion = experiment[type].promotion
  BY <1>3, <1>6 DEF StudySound
<1>8. DOMAIN experiment[type].evidence # ArmsOf(type)
  BY <1>0, <1>4
<1>9. StudyGoesOn(type)
  BY <1>5, <1>7, <1>8 DEF StudyGoesOn
<1>10. ManifestWritten(type)'
  BY <1>5, <1>6, <1>7 DEF StudySound, ManifestWritten
<1>11. EvidenceSound(type)'
  <2>1. DOMAIN items = DOMAIN admitted \union {arm} /\ \A a \in DOMAIN items : items[a].score \in Scores
    BY <1>0, <1>2, <1>6 DEF StudySound, EvidenceSound
  <2> QED BY <1>0, <1>4, <1>5, <1>6, <1>7, <2>1 DEF StudySound, EvidenceSound
<1>12. DecisionSound(type)'
  <2>1. \A k : Supported(type, k) => Supported(type, k)'
    BY <1>9, SupportedStays
  <2> QED BY <1>5, <1>6, <1>7, <2>1 DEF StudySound, DecisionSound
<1> QED BY <1>4, <1>5, <1>6, <1>7, <1>9, <1>10, <1>11, <1>12, StudyStep, CommandsStay DEF StudyInv, StudySound

(* What a comparison finds.                                                        *)
LEMMA ComparisonIsSupported == ASSUME StudyInv, NEW type \in Types PROVE Supported(type, Comparison(type)) /\ Comparison(type) # Unwritten
<1>1. PICK choice : choice = (IF Admitted(type) THEN ChoiceOf(type, experiment[type].evidence) ELSE {})
  OBVIOUS
<1>2. PICK c : c = [status |-> IF choice = {} THEN "blocked" ELSE "passed", choice |-> choice, reports |-> ArmReports(type)]
  OBVIOUS
<1>3. Comparison(type) = c
  BY <1>1, <1>2 DEF Comparison
<1>4. c.status = (IF choice = {} THEN "blocked" ELSE "passed") /\ c.choice = choice
  BY <1>2
<1>5. Admitted(type) => DOMAIN experiment[type].evidence = ArmsOf(type)
  BY DEF Admitted, Loaded, StudyInv, StudySound, EvidenceSound
<1>6. c # Unwritten
  BY <1>4 DEF Unwritten
<1> QED BY <1>1, <1>3, <1>4, <1>5, <1>6 DEF Supported

LEMMA CompareKeeps == ASSUME StudyInv, NEW c \in Commands, NEW type \in Types, Compare(c, type) PROVE StudyInv'
<1>1. PICK k : k = Comparison(type)
  OBVIOUS
<1>2. PICK new : new = [NoCommand EXCEPT !.pc = "reports", !.type = type, !.reports = ArmReports(type), !.comparison = k]
  OBVIOUS
<1>3. command' = [command EXCEPT ![c] = new] /\ command'[c] = new /\ UNCHANGED <<experiment, progression>>
  BY <1>1, <1>2 DEF Compare, StudyInv
<1>4. DOMAIN new = {"pc", "type", "reports", "comparison"} /\ new.pc = "reports" /\ new.type = type /\ new.comparison = k
  BY <1>2 DEF NoCommand
<1>5. Supported(type, k)'
  BY <1>1, <1>3, ComparisonIsSupported, SupportedStays DEF StudyGoesOn
<1>6. CommandSound(c)'
  BY <1>3, <1>4, <1>5 DEF CommandSound, Supported
<1> QED BY <1>3, <1>6, CommandStep

LEMMA DecideExperimentKeeps == ASSUME StudyInv, NEW c \in Commands, NEW type \in Types, DecideExperiment(c, type) PROVE StudyInv'
<1>1. PICK k : k = experiment[type].comparison
  OBVIOUS
<1>2. PICK new : new = [NoCommand EXCEPT !.pc = "decide", !.type = type, !.comparison = k]
  OBVIOUS
<1>3. command' = [command EXCEPT ![c] = new] /\ command'[c] = new /\ UNCHANGED <<experiment, progression>> /\ k # Unwritten
  BY <1>1, <1>2 DEF DecideExperiment, StudyInv
<1>4. DOMAIN new = {"pc", "type", "reports", "comparison"} /\ new.pc = "decide" /\ new.type = type /\ new.comparison = k
  BY <1>2 DEF NoCommand
<1>5. Supported(type, k)
  BY <1>1 DEF StudyInv, StudySound, DecisionSound
<1>6. Supported(type, k)'
  BY <1>3, <1>5, SupportedStays DEF StudyGoesOn
<1>7. CommandSound(c)'
  BY <1>3, <1>4, <1>6 DEF CommandSound, Supported
<1> QED BY <1>3, <1>7, CommandStep

(* A command writes in a directory, besides its manifest and evidence.             *)
LEMMA WritingStep ==
    ASSUME StudyInv, NEW type \in Types, NEW new, experiment' = [experiment EXCEPT ![type] = new], UNCHANGED progression,
           DOMAIN new = DOMAIN experiment[type], new.manifest = experiment[type].manifest, new.evidence = experiment[type].evidence,
           experiment[type].promotion # Unwritten => new.promotion = experiment[type].promotion,
           DecisionSound(type)', DOMAIN command' = Commands,
           (\A t \in Types : StudyGoesOn(t)) => \A b \in Commands : CommandSound(b)'
    PROVE  StudyInv'
<1>1. experiment'[type] = new
  BY DEF StudyInv
<1>2. StudyGoesOn(type)
  BY <1>1 DEF StudyGoesOn
<1>3. ManifestWritten(type)' /\ EvidenceSound(type)'
  BY <1>1 DEF StudyInv, StudySound, ManifestWritten, EvidenceSound
<1>4. StudySound(type)'
  BY <1>1, <1>3 DEF StudyInv, StudySound
<1> QED BY <1>2, <1>4, StudyStep
LEMMA OthersStay ==
    ASSUME StudyInv, NEW c \in Commands, NEW new, command' = [command EXCEPT ![c] = new], command'[c] = new => CommandSound(c)',
           \A t \in Types : StudyGoesOn(t)
    PROVE  DOMAIN command' = Commands /\ \A b \in Commands : CommandSound(b)'
<1>1. DOMAIN command' = Commands /\ command'[c] = new /\ \A b \in Commands \ {c} : command'[b] = command[b]
  BY DEF StudyInv
<1>2. ASSUME NEW b \in Commands PROVE CommandSound(b)'
  BY <1>1, CommandStays DEF StudyInv
<1> QED BY <1>1, <1>2

LEMMA WriteArmReportsKeeps == ASSUME StudyInv, NEW c \in Commands, WriteArmReports(c) PROVE StudyInv'
<1>1. PICK type : type = command[c].type
  OBVIOUS
<1>2. type \in Types /\ Supported(type, command[c].comparison) /\ DOMAIN command[c] = {"pc", "type", "reports", "comparison"}
  BY <1>1 DEF StudyInv, CommandSound, WriteArmReports
<1>3. PICK new : new = [experiment[type] EXCEPT !.reports = command[c].reports]
  OBVIOUS
<1>4. PICK me : me = [command[c] EXCEPT !.pc = "comparison"]
  OBVIOUS
<1>5. /\ experiment' = [experiment EXCEPT ![type] = new] /\ experiment'[type] = new
      /\ command' = [command EXCEPT ![c] = me] /\ UNCHANGED progression
  BY <1>1, <1>2, <1>3, <1>4 DEF WriteArmReports, StudyInv
<1>6. StudySound(type)
  BY <1>2 DEF StudyInv
<1>7. /\ DOMAIN new = DOMAIN experiment[type] /\ new.evidence = experiment[type].evidence
      /\ new.manifest = experiment[type].manifest /\ new.comparison = experiment[type].comparison
      /\ new.decision = experiment[type].decision /\ new.promotion = experiment[type].promotion
  BY <1>3, <1>6 DEF StudySound
<1>8. StudyGoesOn(type)
  BY <1>5, <1>7 DEF StudyGoesOn
<1>9. DecisionSound(type)'
  <2>1. \A k : Supported(type, k) => Supported(type, k)'
    BY <1>8, SupportedStays
  <2> QED BY <1>5, <1>6, <1>7, <2>1 DEF StudySound, DecisionSound
<1>10. DOMAIN me = DOMAIN command[c] /\ me.type = type /\ me.comparison = command[c].comparison /\ me.pc = "comparison"
  BY <1>1, <1>2, <1>4
<1>11. ASSUME command'[c] = me PROVE CommandSound(c)'
  <2>1. PICK k : k = command[c].comparison
    OBVIOUS
  <2>2. Supported(type, k)'
    BY <1>2, <1>8, <2>1, SupportedStays
  <2> QED BY <1>2, <1>10, <1>11, <2>1, <2>2 DEF CommandSound, Supported
<1>12. DOMAIN command' = Commands
  BY <1>5 DEF StudyInv
<1> QED BY <1>2, <1>5, <1>7, <1>9, <1>11, <1>12, OthersStay, WritingStep

LEMMA CommandEnds ==
    ASSUME StudyInv, NEW c \in Commands, command' = [command EXCEPT ![c] = NoCommand]
    PROVE  DOMAIN command' = Commands /\ ((\A t \in Types : StudyGoesOn(t)) => \A b \in Commands : CommandSound(b)')
<1>1. PICK new : new = NoCommand
  OBVIOUS
<1>2. command'[c] = new => CommandSound(c)'
  BY <1>1, CommandEndsSound
<1>3. DOMAIN command' = Commands
  BY DEF StudyInv
<1> QED BY <1>1, <1>2, <1>3, OthersStay

LEMMA WriteComparisonKeeps == ASSUME StudyInv, NEW c \in Commands, WriteComparison(c) PROVE StudyInv'
<1>1. PICK type, k : type = command[c].type /\ k = command[c].comparison
  OBVIOUS
<1>2. type \in Types /\ Supported(type, k)
  BY <1>1 DEF StudyInv, CommandSound, WriteComparison
<1>3. PICK new : new = [experiment[type] EXCEPT !.comparison = k]
  OBVIOUS
<1>4. /\ experiment' = [experiment EXCEPT ![type] = new] /\ experiment'[type] = new
      /\ command' = [command EXCEPT ![c] = NoCommand] /\ UNCHANGED progression
  BY <1>1, <1>2, <1>3 DEF WriteComparison, StudyInv
<1>5. StudySound(type)
  BY <1>2 DEF StudyInv
<1>6. /\ DOMAIN new = DOMAIN experiment[type] /\ new.evidence = experiment[type].evidence
      /\ new.manifest = experiment[type].manifest /\ new.comparison = k
      /\ new.decision = experiment[type].decision /\ new.promotion = experiment[type].promotion
  BY <1>3, <1>5 DEF StudySound
<1>7. StudyGoesOn(type)
  BY <1>4, <1>6 DEF StudyGoesOn
<1>8. DecisionSound(type)'
  <2>1. \A j : Supported(type, j) => Supported(type, j)'
    BY <1>7, SupportedStays
  <2> QED BY <1>2, <1>4, <1>5, <1>6, <2>1 DEF StudySound, DecisionSound
<1> QED BY <1>2, <1>4, <1>6, <1>8, CommandEnds, WritingStep

LEMMA WriteDecisionKeeps == ASSUME StudyInv, NEW c \in Commands, WriteDecision(c) PROVE StudyInv'
<1>1. PICK type, read : type = command[c].type /\ read = command[c].comparison
  OBVIOUS
<1>2. type \in Types /\ Supported(type, read) /\ read # Unwritten
  BY <1>1 DEF StudyInv, CommandSound, WriteDecision
<1>3. UNCHANGED progression /\ command' = [command EXCEPT ![c] = NoCommand]
  BY DEF WriteDecision
<1>4. CASE experiment[type].decision # Unwritten
  <2>1. PICK none : none = NoCommand
    OBVIOUS
  <2>2. command' = [command EXCEPT ![c] = none] /\ command'[c] = none /\ UNCHANGED experiment
    BY <1>1, <1>3, <1>4, <2>1 DEF WriteDecision, StudyInv
  <2>3. CommandSound(c)'
    BY <2>1, <2>2, CommandEndsSound
  <2> QED BY <1>3, <2>2, <2>3, CommandStep
<1>5. CASE experiment[type].decision = Unwritten
  <2>1. PICK d : d = [status |-> read.status, choice |-> read.choice, comparison |-> read]
    OBVIOUS
  <2>2. PICK new : new = [experiment[type] EXCEPT !.decision = d]
    OBVIOUS
  <2>3. StudySound(type)
    BY <1>2 DEF StudyInv
  <2>4. experiment' = [experiment EXCEPT ![type] = new] /\ experiment'[type] = new
    BY <1>1, <1>2, <1>5, <2>1, <2>2 DEF WriteDecision, StudyInv
  <2>5. /\ DOMAIN new = DOMAIN experiment[type] /\ new.evidence = experiment[type].evidence
        /\ new.manifest = experiment[type].manifest /\ new.comparison = experiment[type].comparison
        /\ new.decision = d /\ new.promotion = experiment[type].promotion
    BY <2>2, <2>3 DEF StudySound
  <2>6. StudyGoesOn(type)
    BY <2>4, <2>5 DEF StudyGoesOn
  <2>7. DecisionSound(type)'
    <3>1. \A j : Supported(type, j) => Supported(type, j)'
      BY <2>6, SupportedStays
    <3>2. d.status = read.status /\ d.choice = read.choice /\ d.comparison = read
      BY <2>1
    <3> QED BY <1>2, <1>5, <2>3, <2>4, <2>5, <3>1, <3>2 DEF StudySound, DecisionSound
  <2> QED BY <1>2, <1>3, <2>4, <2>5, <2>7, CommandEnds, WritingStep
<1> QED BY <1>4, <1>5

LEMMA PromoteExperimentKeeps == ASSUME StudyInv, NEW type \in Types, PromoteExperiment(type) PROVE StudyInv'
<1>1. PICK d : d = experiment[type].decision
  OBVIOUS
<1>2. PICK p : p = [status |-> IF d.status = "passed" THEN "promoted" ELSE "blocked", choice |-> d.choice]
  OBVIOUS
<1>3. PICK new : new = [experiment[type] EXCEPT !.promotion = p]
  OBVIOUS
<1>4. /\ experiment' = [experiment EXCEPT ![type] = new] /\ experiment'[type] = new /\ UNCHANGED <<command, progression>>
      /\ d # Unwritten /\ experiment[type].promotion = Unwritten
  BY <1>1, <1>2, <1>3 DEF PromoteExperiment, StudyInv
<1>5. StudySound(type)
  BY DEF StudyInv
<1>6. /\ DOMAIN new = DOMAIN experiment[type] /\ new.evidence = experiment[type].evidence
      /\ new.manifest = experiment[type].manifest /\ new.comparison = experiment[type].comparison
      /\ new.decision = experiment[type].decision /\ new.promotion = p
  BY <1>3, <1>5 DEF StudySound
<1>7. StudyGoesOn(type)
  BY <1>4, <1>6 DEF StudyGoesOn
<1>8. DecisionSound(type)'
  <2>1. \A j : Supported(type, j) => Supported(type, j)'
    BY <1>7, SupportedStays
  <2>2. p.choice = d.choice /\ (p.status = "promoted" => d.status = "passed")
    BY <1>2
  <2> QED BY <1>1, <1>4, <1>5, <1>6, <2>1, <2>2 DEF StudySound, DecisionSound
<1> QED BY <1>4, <1>6, <1>8, CommandsStay, WritingStep DEF StudyInv

LEMMA AdvanceKeeps == ASSUME StudyInv, Advance PROVE StudyInv'
<1>1. UNCHANGED <<experiment, command>> /\ \A type \in Types : ChainHolds(type)
  BY DEF Advance
<1>2. progression'.status = "authorized" => Authorised /\ progression'.disk = disk
  <2>1. PICK now : now = [status |-> IF Authorised THEN "authorized" ELSE "blocked", disk |-> disk]
    OBVIOUS
  <2>2. now.disk = disk /\ (now.status = "authorized" => Authorised)
    BY <2>1
  <2> QED BY <2>1, <2>2 DEF Advance
<1>3. \A type \in Types : StudyGoesOn(type) /\ StudySound(type)'
  BY <1>1, StudyStays DEF StudyInv, StudyGoesOn
<1>4. \A c \in Commands : CommandSound(c)'
  BY <1>1, <1>3, CommandsStay
<1>5. ASSUME progression'.status = "authorized" PROVE AuthorisedSound' /\ ProgressionEarned'
  <2>1. ASSUME NEW type \in Types
        PROVE  /\ experiment[type].promotion # Unwritten /\ experiment[type].manifest # Unwritten
               /\ DOMAIN experiment[type].evidence = ArmsOf(type)
               /\ experiment[type].promotion.choice # {}
               /\ experiment[type].promotion.choice = ChoiceOf(type, experiment[type].evidence)
               /\ \A a \in ArmsOf(type) : experiment[type].evidence[a].report.sha = disk[experiment[type].evidence[a].report.file]
    <3>1. Promoted(type) /\ ChainHolds(type) /\ StudySound(type)
      BY <1>1, <1>2, <1>5 DEF Authorised, StudyInv
    <3>2. PICK x : x = experiment[type]
      OBVIOUS
    <3>3. x.promotion # Unwritten /\ x.manifest # Unwritten /\ x.reports.arms = ArmsOf(type)
      BY <3>1, <3>2 DEF ChainHolds, ManifestHolds
    <3>4. x.decision # Unwritten /\ x.promotion.choice = x.decision.choice /\ x.decision.status = "passed"
      BY <3>1, <3>2, <3>3 DEF StudySound, DecisionSound, Promoted
    <3>5. x.decision.comparison # Unwritten /\ Supported(type, x.decision.comparison) /\ x.decision.comparison.status = "passed"
          /\ x.decision.choice = x.decision.comparison.choice
      BY <3>1, <3>2, <3>4 DEF StudySound, DecisionSound
    <3>6. DOMAIN x.evidence = ArmsOf(type) /\ x.decision.choice # {} /\ x.decision.choice = ChoiceOf(type, x.evidence)
      BY <3>2, <3>5 DEF Supported
    <3>7. \A a \in ArmsOf(type) : x.evidence[a].report.sha = disk[x.evidence[a].report.file]
      BY <3>1, <3>2, <3>3 DEF ChainHolds, Unchanged
    <3> QED BY <3>2, <3>3, <3>4, <3>6, <3>7
  <2>2. AuthorisedSound'
    BY <1>1, <2>1 DEF AuthorisedSound
  <2>3. "tokenizer_selection" \in Types
    BY DEF Types
  <2>4. Chosen \in Vocabularies
    <3>1. PICK items : items = experiment["tokenizer_selection"].evidence
      OBVIOUS
    <3>2. DOMAIN items = Vocabularies /\ experiment["tokenizer_selection"].promotion.choice = TokenizerChoice(items)
      BY <2>1, <2>3, <3>1, TokenizerArms
    <3>3. \A a \in Vocabularies : items[a].score \in Scores
      BY <2>3, <3>1, <3>2 DEF StudyInv, StudySound, EvidenceSound
    <3>4. TokenizerChoice(items) \subseteq Vocabularies
      BY <3>2, <3>3, CandidateIsChosen
    <3>5. Chosen \in experiment["tokenizer_selection"].promotion.choice
      BY <2>1, <2>3 DEF Chosen
    <3> QED BY <3>2, <3>4, <3>5
  <2>5. ASSUME NEW type \in Types \ {"tokenizer_selection"}
        PROVE  Manifest(type).tokenizers["selected"].file = <<"tokenizer", Chosen, Manifest("tokenizer_selection").dataset.file[2]>>
    <3>1. PICK m : m = Manifest("tokenizer_selection")
      OBVIOUS
    <3>2. PICK d \in Datasets : m.dataset.file = <<"dataset", d>> /\ m.tokenizers[Chosen].file = <<"tokenizer", Chosen, d>>
      BY <2>1, <2>3, <2>4, <3>1 DEF StudyInv, StudySound, ManifestWritten, Manifest
    <3>3. m.dataset.file[2] = d
      BY <3>2
    <3>4. PromotedTokenizer
      BY <1>2, <1>5 DEF Authorised
    <3>5. Manifest(type).tokenizers["selected"] = m.tokenizers[Chosen]
      BY <3>1, <3>4 DEF PromotedTokenizer
    <3> QED BY <3>1, <3>2, <3>3, <3>5
  <2>6. /\ \A type \in Types : Manifest(type)' = Manifest(type)
        /\ Chosen' = Chosen
    BY <1>1 DEF Manifest, Chosen
  <2>7. ProgressionEarned'
    BY <1>1, <1>2, <1>5, <2>1, <2>3, <2>5, <2>6 DEF ProgressionEarned
  <2> QED BY <2>2, <2>7
<1>6. AuthorisedSound' /\ ProgressionEarned'
  BY <1>5 DEF AuthorisedSound, ProgressionEarned
<1> QED BY <1>1, <1>3, <1>4, <1>6 DEF StudyInv

LEMMA FilesDoNotMatter == ASSUME StudyInv, UNCHANGED <<experiment, command, progression>> PROVE StudyInv'
<1>1. \A type \in Types : StudyGoesOn(type) /\ StudySound(type)'
  BY StudyStays DEF StudyInv, StudyGoesOn
<1>2. \A c \in Commands : CommandSound(c)'
  BY <1>1, CommandsStay
<1>3. AuthorisedSound' /\ ProgressionEarned'
  BY <1>1, ProgressionStays
<1> QED BY <1>1, <1>2, <1>3 DEF StudyInv
LEMMA StudyKeeps == ASSUME StudyInv, [ExperimentsNext]_experimentVars PROVE StudyInv'
<1>1. ASSUME ExperimentsNext PROVE StudyInv'
  <2>1. ASSUME NEW f \in ExperimentFiles, EditFile(f) PROVE StudyInv'
    BY <2>1, FilesDoNotMatter DEF EditFile
  <2> QED BY <1>1, <2>1, PlanKeeps, PromoteExperimentKeeps, AdmitArmKeeps, CompareKeeps, DecideExperimentKeeps, WriteArmReportsKeeps,
             WriteComparisonKeeps, WriteDecisionKeeps, CommandDiesKeeps, AdvanceKeeps
          DEF ExperimentsNext
<1>2. ASSUME UNCHANGED experimentVars PROVE StudyInv'
  BY <1>2, FilesDoNotMatter DEF experimentVars
<1> QED BY <1>1, <1>2

(* The 7B experiment is authorised by measurements: what was promoted is what the  *)
(* whole evidence of each campaign supports, of reports that still hash when       *)
(* verify_promotion_chain replays them, and the tokenizer is the one promoted      *)
(* (ablation_runner.py).                                                           *)
THEOREM ProgressionIsEarned == ExperimentsSpec => []ProgressionEarned
<1>1. ExperimentsInit => StudyInv
  BY StudiesInitial
<1>2. StudyInv /\ [ExperimentsNext]_experimentVars => StudyInv'
  BY StudyKeeps
<1>3. StudyInv => ProgressionEarned
  BY DEF StudyInv
<1> QED BY <1>1, <1>2, <1>3, PTL DEF ExperimentsSpec

(* What is measured.  A benchmark or a scorecard that nothing disturbed is of what  *)
(* it names.                                                                        *)
FileShape == {"suite", "checkpoint", "served", "training", "code", "score", "evaluation", "evidence"}
ReportSound(f) ==
    f # NoArtifact /\ f.of.quiet => f.of.weights = f.weights /\ f.of.suite = f.suite
Quiet(e, weights, suite) ==
    e # NoArtifact => DOMAIN e = {"weights", "suite", "quiet"} /\ (e.quiet => e.weights = weights /\ e.suite = suite)
TrainingSound(t) == t # NoArtifact => t.settings \in ArmSettings
EvaluationSound(e) ==
    e # NoArtifact =>
        \A scored \in {e.code, e.score} : scored # NoArtifact /\ scored.weights = e.weights /\ scored.suite = 1 /\ ReportSound(scored)
EvidenceOfArm(e) ==
    /\ e.training.settings \in ArmSettings /\ e.training.settings.policy = "bound"
    /\ e.evaluation # NoArtifact /\ EvaluationSound(e.evaluation) /\ e.evaluation.weights = e.training.weights
ArmsInv ==
    /\ DOMAIN armFiles = FileShape /\ DOMAIN busy = {"training", "code", "score"}
    /\ TrainingSound(busy.training) /\ TrainingSound(armFiles.training)
    /\ Quiet(busy.code, armFiles.checkpoint, armFiles.suite) /\ Quiet(busy.score, armFiles.served, armFiles.suite)
    /\ ReportSound(armFiles.code) /\ ReportSound(armFiles.score)
    /\ EvaluationSound(armFiles.evaluation)
    /\ armFiles.evidence # NoArtifact => EvidenceOfArm(armFiles.evidence)
    /\ ArmsMeasured

LEMMA ArmsInitial == ArmsInit => ArmsInv
BY DEF ArmsInit, ArmsInv, FileShape, TrainingSound, Quiet, ReportSound, EvaluationSound, ArmsMeasured

(* What one goes to.                                                               *)
LEMMA ArmStep ==
    ASSUME ArmsInv, NEW f, NEW b, armFiles' = f, busy' = b, UNCHANGED compared,
           DOMAIN f = FileShape, DOMAIN b = {"training", "code", "score"},
           TrainingSound(b.training), TrainingSound(f.training),
           Quiet(b.code, f.checkpoint, f.suite), Quiet(b.score, f.served, f.suite),
           ReportSound(f.code), ReportSound(f.score), EvaluationSound(f.evaluation),
           f.evidence # NoArtifact => EvidenceOfArm(f.evidence)
    PROVE  ArmsInv'
BY DEF ArmsInv, ArmsMeasured
LEMMA DisturbedIsQuiet ==
    ASSUME NEW e, NEW w, NEW v, Quiet(e, w, v), NEW x, NEW y
    PROVE  Quiet(Disturbed(e), x, y)
<1>1. CASE e = NoArtifact
  BY <1>1 DEF Disturbed, Quiet
<1>2. CASE e # NoArtifact
  <2>1. PICK d : d = [e EXCEPT !.quiet = FALSE]
    OBVIOUS
  <2>2. DOMAIN d = {"weights", "suite", "quiet"} /\ ~d.quiet
    BY <1>2, <2>1 DEF Quiet
  <2> QED BY <1>2, <2>1, <2>2 DEF Disturbed, Quiet
<1> QED BY <1>1, <1>2

LEMMA TrainArmKeeps == ASSUME ArmsInv, NEW settings \in ArmSettings, TrainArm(settings) PROVE ArmsInv'
<1>1. PICK f : f = [armFiles EXCEPT !.checkpoint = trainings + 1]
  OBVIOUS
<1>2. PICK t, code, score : t = [weights |-> trainings + 1, settings |-> settings] /\ code = Disturbed(busy.code) /\ score = Disturbed(busy.score)
  OBVIOUS
<1>3. PICK b : b = [busy EXCEPT !.code = code, !.score = score, !.training = t]
  OBVIOUS
<1>4. DisturbedBoth = [busy EXCEPT !.code = code, !.score = score]
  BY <1>2 DEF DisturbedBoth
<1>5. armFiles' = f /\ busy' = b /\ UNCHANGED compared
  BY <1>1, <1>2, <1>3, <1>4 DEF TrainArm
<1>6. DOMAIN b = {"training", "code", "score"} /\ b.code = code /\ b.score = score /\ b.training = t
  BY <1>3 DEF ArmsInv
<1>7. /\ DOMAIN f = FileShape /\ f.training = armFiles.training /\ f.code = armFiles.code /\ f.score = armFiles.score
      /\ f.evaluation = armFiles.evaluation /\ f.evidence = armFiles.evidence
  BY <1>1 DEF ArmsInv, FileShape
<1>8. Quiet(code, f.checkpoint, f.suite) /\ Quiet(score, f.served, f.suite)
  BY <1>2, DisturbedIsQuiet DEF ArmsInv
<1>9. TrainingSound(t)
  BY <1>2 DEF TrainingSound
<1> QED BY <1>5, <1>6, <1>7, <1>8, <1>9, ArmStep DEF ArmsInv

LEMMA ReportTrainingKeeps == ASSUME ArmsInv, ReportTraining PROVE ArmsInv'
<1>2. PICK g \in {armFiles, [armFiles EXCEPT !.training = busy.training]} : armFiles' = g
  BY DEF ReportTraining
<1>3. PICK none : none = NoArtifact
  OBVIOUS
<1>4. PICK b : b = [busy EXCEPT !.training = none]
  OBVIOUS
<1>5. /\ DOMAIN g = FileShape /\ g.training \in {armFiles.training, busy.training} /\ g.code = armFiles.code /\ g.score = armFiles.score
      /\ g.evaluation = armFiles.evaluation /\ g.evidence = armFiles.evidence /\ g.checkpoint = armFiles.checkpoint
      /\ g.served = armFiles.served /\ g.suite = armFiles.suite
  BY DEF ArmsInv, FileShape
<1>6. DOMAIN b = {"training", "code", "score"} /\ b.code = busy.code /\ b.score = busy.score /\ b.training = none
  BY <1>4 DEF ArmsInv
<1>7. busy' = b /\ UNCHANGED compared
  BY <1>3, <1>4 DEF ReportTraining, Kept
<1>8. TrainingSound(none)
  BY <1>3 DEF TrainingSound
<1>9. TrainingSound(g.training)
  BY <1>5 DEF ArmsInv
<1> QED BY <1>2, <1>5, <1>6, <1>7, <1>8, <1>9, ArmStep DEF ArmsInv

LEMMA ServeArmKeeps == ASSUME ArmsInv, ServeArm PROVE ArmsInv'
<1>1. PICK f : f = [armFiles EXCEPT !.served = armFiles.checkpoint]
  OBVIOUS
<1>2. PICK score : score = Disturbed(busy.score)
  OBVIOUS
<1>3. PICK b : b = [busy EXCEPT !.score = score]
  OBVIOUS
<1>4. armFiles' = f /\ busy' = b /\ UNCHANGED compared
  BY <1>1, <1>2, <1>3 DEF ServeArm, Kept
<1>5. DOMAIN b = {"training", "code", "score"} /\ b.code = busy.code /\ b.score = score /\ b.training = busy.training
  BY <1>3 DEF ArmsInv
<1>6. /\ DOMAIN f = FileShape /\ f.training = armFiles.training /\ f.code = armFiles.code /\ f.score = armFiles.score
      /\ f.evaluation = armFiles.evaluation /\ f.evidence = armFiles.evidence /\ f.checkpoint = armFiles.checkpoint /\ f.suite = armFiles.suite
  BY <1>1 DEF ArmsInv, FileShape
<1>7. Quiet(score, f.served, f.suite)
  BY <1>2, DisturbedIsQuiet DEF ArmsInv
<1> QED BY <1>4, <1>5, <1>6, <1>7, ArmStep DEF ArmsInv

LEMMA EditSuitesKeeps == ASSUME ArmsInv, EditSuites PROVE ArmsInv'
<1>1. PICK f : f = [armFiles EXCEPT !.suite = 3 - @]
  OBVIOUS
<1>2. PICK code, score : code = Disturbed(busy.code) /\ score = Disturbed(busy.score)
  OBVIOUS
<1>3. PICK b : b = [busy EXCEPT !.code = code, !.score = score]
  OBVIOUS
<1>4. armFiles' = f /\ busy' = b /\ UNCHANGED compared
  BY <1>1, <1>2, <1>3 DEF EditSuites, DisturbedBoth
<1>5. DOMAIN b = {"training", "code", "score"} /\ b.code = code /\ b.score = score /\ b.training = busy.training
  BY <1>3 DEF ArmsInv
<1>6. /\ DOMAIN f = FileShape /\ f.training = armFiles.training /\ f.code = armFiles.code /\ f.score = armFiles.score
      /\ f.evaluation = armFiles.evaluation /\ f.evidence = armFiles.evidence
  BY <1>1 DEF ArmsInv, FileShape
<1>7. Quiet(code, f.checkpoint, f.suite) /\ Quiet(score, f.served, f.suite)
  BY <1>2, DisturbedIsQuiet DEF ArmsInv
<1> QED BY <1>4, <1>5, <1>6, <1>7, ArmStep DEF ArmsInv

LEMMA BeginCodeKeeps == ASSUME ArmsInv, BeginCode PROVE ArmsInv'
<1>1. PICK e : e = [weights |-> armFiles.checkpoint, suite |-> armFiles.suite, quiet |-> TRUE]
  OBVIOUS
<1>2. PICK b : b = [busy EXCEPT !.code = e]
  OBVIOUS
<1>3. busy' = b /\ UNCHANGED <<armFiles, compared>>
  BY <1>1, <1>2 DEF BeginCode, Kept
<1>4. DOMAIN b = {"training", "code", "score"} /\ b.code = e /\ b.score = busy.score /\ b.training = busy.training
  BY <1>2 DEF ArmsInv
<1>5. Quiet(e, armFiles.checkpoint, armFiles.suite)
  BY <1>1 DEF Quiet
<1> QED BY <1>3, <1>4, <1>5, ArmStep DEF ArmsInv

LEMMA BeginScoreKeeps == ASSUME ArmsInv, BeginScore PROVE ArmsInv'
<1>1. PICK e : e = [weights |-> armFiles.served, suite |-> armFiles.suite, quiet |-> TRUE]
  OBVIOUS
<1>2. PICK b : b = [busy EXCEPT !.score = e]
  OBVIOUS
<1>3. busy' = b /\ UNCHANGED <<armFiles, compared>>
  BY <1>1, <1>2 DEF BeginScore, Kept
<1>4. DOMAIN b = {"training", "code", "score"} /\ b.code = busy.code /\ b.score = e /\ b.training = busy.training
  BY <1>2 DEF ArmsInv
<1>5. Quiet(e, armFiles.served, armFiles.suite)
  BY <1>1 DEF Quiet
<1> QED BY <1>3, <1>4, <1>5, ArmStep DEF ArmsInv

LEMMA EndCodeKeeps == ASSUME ArmsInv, EndCode PROVE ArmsInv'
<1>1. PICK none : none = NoArtifact
  OBVIOUS
<1>2. PICK scored : scored = [weights |-> armFiles.checkpoint, suite |-> armFiles.suite, of |-> busy.code]
  OBVIOUS
<1>3. PICK f : f = [armFiles EXCEPT !.code = scored]
  OBVIOUS
<1>4. PICK b : b = [busy EXCEPT !.code = none]
  OBVIOUS
<1>5. armFiles' = f /\ busy' = b /\ UNCHANGED compared /\ busy.code # NoArtifact
  BY <1>1, <1>2, <1>3, <1>4 DEF EndCode, Kept
<1>6. DOMAIN b = {"training", "code", "score"} /\ b.code = none /\ b.score = busy.score /\ b.training = busy.training
  BY <1>4 DEF ArmsInv
<1>7. /\ DOMAIN f = FileShape /\ f.training = armFiles.training /\ f.code = scored /\ f.score = armFiles.score
      /\ f.evaluation = armFiles.evaluation /\ f.evidence = armFiles.evidence /\ f.checkpoint = armFiles.checkpoint
      /\ f.served = armFiles.served /\ f.suite = armFiles.suite
  BY <1>3 DEF ArmsInv, FileShape
<1>8. ReportSound(scored)
  BY <1>2, <1>5 DEF ReportSound, ArmsInv, Quiet
<1>9. Quiet(none, f.checkpoint, f.suite)
  BY <1>1 DEF Quiet
<1> QED BY <1>5, <1>6, <1>7, <1>8, <1>9, ArmStep DEF ArmsInv

LEMMA EndScoreKeeps == ASSUME ArmsInv, EndScore PROVE ArmsInv'
<1>1. PICK none : none = NoArtifact
  OBVIOUS
<1>0. PICK answered : answered = Answered
  OBVIOUS
<1>2. PICK scored : scored = [weights |-> busy.score.weights, suite |-> armFiles.suite, of |-> answered]
  OBVIOUS
<1>3. PICK f : f = [armFiles EXCEPT !.score = scored]
  OBVIOUS
<1>4. PICK b : b = [busy EXCEPT !.score = none]
  OBVIOUS
<1>5. armFiles' = f /\ busy' = b /\ UNCHANGED compared /\ busy.score # NoArtifact
  BY <1>0, <1>1, <1>2, <1>3, <1>4 DEF EndScore, Kept
<1>6. DOMAIN b = {"training", "code", "score"} /\ b.code = busy.code /\ b.score = none /\ b.training = busy.training
  BY <1>4 DEF ArmsInv
<1>7. /\ DOMAIN f = FileShape /\ f.training = armFiles.training /\ f.code = armFiles.code /\ f.score = scored
      /\ f.evaluation = armFiles.evaluation /\ f.evidence = armFiles.evidence /\ f.checkpoint = armFiles.checkpoint
      /\ f.served = armFiles.served /\ f.suite = armFiles.suite
  BY <1>3 DEF ArmsInv, FileShape
<1>8. ReportSound(scored)
  <2>1. Quiet(busy.score, armFiles.served, armFiles.suite)
    BY DEF ArmsInv
  <2>2. answered.quiet = busy.score.quiet /\ answered.weights = armFiles.served /\ answered.suite = busy.score.suite
    BY <1>0, <1>5, <2>1 DEF Answered, Quiet
  <2>3. scored.of = answered /\ scored.weights = busy.score.weights /\ scored.suite = armFiles.suite
    BY <1>2
  <2> QED BY <1>5, <2>1, <2>2, <2>3 DEF ReportSound, Quiet
<1>9. Quiet(none, f.served, f.suite)
  BY <1>1 DEF Quiet
<1> QED BY <1>5, <1>6, <1>7, <1>8, <1>9, ArmStep DEF ArmsInv

LEMMA AssembleEvaluationKeeps == ASSUME ArmsInv, AssembleEvaluation PROVE ArmsInv'
<1>1. PICK e : e = [weights |-> armFiles.code.weights, code |-> armFiles.code, score |-> armFiles.score]
  OBVIOUS
<1>2. PICK f : f = [armFiles EXCEPT !.evaluation = e]
  OBVIOUS
<1>3. armFiles' = f /\ UNCHANGED <<busy, compared>>
  BY <1>1, <1>2 DEF AssembleEvaluation, Kept
<1>4. /\ DOMAIN f = FileShape /\ f.training = armFiles.training /\ f.code = armFiles.code /\ f.score = armFiles.score
      /\ f.evaluation = e /\ f.evidence = armFiles.evidence /\ f.checkpoint = armFiles.checkpoint
      /\ f.served = armFiles.served /\ f.suite = armFiles.suite
  BY <1>2 DEF ArmsInv, FileShape
<1>5. EvaluationSound(e)
  <2>1. e.code = armFiles.code /\ e.score = armFiles.score /\ e.weights = armFiles.code.weights
    BY <1>1
  <2> QED BY <2>1 DEF AssembleEvaluation, SameCheckpoint, EvaluationSound, ArmsInv
<1> QED BY <1>3, <1>4, <1>5, ArmStep DEF ArmsInv

LEMMA AdmitReportsKeeps == ASSUME ArmsInv, AdmitReports PROVE ArmsInv'
<1>1. PICK e : e = [training |-> armFiles.training, evaluation |-> armFiles.evaluation]
  OBVIOUS
<1>2. PICK f : f = [armFiles EXCEPT !.evidence = e]
  OBVIOUS
<1>3. armFiles' = f /\ UNCHANGED <<busy, compared>>
  BY <1>1, <1>2 DEF AdmitReports, Kept
<1>4. /\ DOMAIN f = FileShape /\ f.training = armFiles.training /\ f.code = armFiles.code /\ f.score = armFiles.score
      /\ f.evaluation = armFiles.evaluation /\ f.evidence = e /\ f.checkpoint = armFiles.checkpoint
      /\ f.served = armFiles.served /\ f.suite = armFiles.suite
  BY <1>2 DEF ArmsInv, FileShape
<1>5. ArmRequest.policy = "bound"
  BY DEF ArmRequest
<1>6. e.training = armFiles.training /\ e.evaluation = armFiles.evaluation /\ ArtifactsHold(armFiles.training)
  BY <1>1 DEF AdmitReports
<1>7. EvidenceOfArm(e)
  BY <1>5, <1>6 DEF ArtifactsHold, EvidenceOfArm, ArmsInv, TrainingSound
<1> QED BY <1>3, <1>4, <1>7, ArmStep DEF ArmsInv

(* A training of the whole budget took the steps that were requested.              *)
LEMMA StepsOfTheBudget ==
    ASSUME NEW settings \in ArmSettings, WholeBudget(settings)
    PROVE  settings.steps = ArmRequest.steps
<1>1. PICK n \in Int : n = TokenBudget \div TokensPerStep
  BY ExperimentAssumption
<1>2. ArmRequest.steps = n /\ settings.steps \in {n, n - 1}
  BY <1>1 DEF ArmSettings, ArmRequest
<1>3. settings.steps * TokensPerStep = TokenBudget
  BY DEF WholeBudget, Trained
<1>4. ASSUME NEW k \in Int, NEW t \in Nat \ {0}, NEW total \in Nat, k * t = total PROVE total \div t = k
  BY <1>4, SMT
<1>5. settings.steps \in Int
  BY <1>2
<1> QED BY <1>1, <1>2, <1>3, <1>4, <1>5, ExperimentAssumption

LEMMA CompareArmKeeps == ASSUME ArmsInv, CompareArm PROVE ArmsInv'
<1>1. PICK e : e = armFiles.evidence
  OBVIOUS
<1>2. compared' = compared \union {e} /\ UNCHANGED <<armFiles, busy>> /\ EvidenceOfArm(e) /\ WholeBudget(e.training.settings)
  BY <1>1 DEF CompareArm, ArmsInv
<1>3. e.training.settings.steps = ArmRequest.steps /\ e.training.settings.policy = "bound"
  BY <1>2, StepsOfTheBudget DEF EvidenceOfArm
<1>4. ASSUME NEW scored \in {e.evaluation.code, e.evaluation.score}
      PROVE  scored.weights = e.training.weights /\ scored.suite = 1
             /\ (scored.of.quiet => scored.of.weights = scored.weights /\ scored.of.suite = 1)
  BY <1>2 DEF EvidenceOfArm, EvaluationSound, ReportSound
<1>5. ArmRequest' = ArmRequest
  BY DEF ArmRequest
<1>6. ArmsMeasured'
  BY <1>2, <1>3, <1>4, <1>5 DEF ArmsMeasured, ArmsInv
<1> QED BY <1>2, <1>6 DEF ArmsInv

LEMMA ArmsKeep == ASSUME ArmsInv, [ArmsNext]_armVars PROVE ArmsInv'
<1>1. ASSUME ArmsNext PROVE ArmsInv'
  BY <1>1, TrainArmKeeps, ReportTrainingKeeps, ServeArmKeeps, BeginCodeKeeps, EndCodeKeeps, BeginScoreKeeps, EndScoreKeeps,
     AssembleEvaluationKeeps, AdmitReportsKeeps, CompareArmKeeps, EditSuitesKeeps DEF ArmsNext
<1>2. ASSUME UNCHANGED armVars PROVE ArmsInv'
  BY <1>2 DEF armVars, ArmsInv, ArmsMeasured
<1> QED BY <1>1, <1>2

(* A comparison takes the scores of an arm from the checkpoint its training        *)
(* reported, a training of the planned policy and budget.                          *)
THEOREM ArmsAreMeasured == ArmsSpec => []ArmsMeasured
<1>1. ArmsInit => ArmsInv
  BY ArmsInitial
<1>2. ArmsInv /\ [ArmsNext]_armVars => ArmsInv'
  BY ArmsKeep
<1>3. ArmsInv => ArmsMeasured
  BY DEF ArmsInv
<1> QED BY <1>1, <1>2, <1>3, PTL DEF ArmsSpec

(* What authorises the 7B experiment is earned, and each arm it compares measured  *)
(* what it names (ablation_runner.py).                                             *)
THEOREM ExperimentsAreEarned == ExperimentsSpec /\ ArmsSpec => []ExperimentsEarned
<1>1. ProgressionEarned /\ ArmsMeasured => ExperimentsEarned
  BY DEF ExperimentsEarned
<1> QED BY <1>1, ProgressionIsEarned, ArmsAreMeasured, PTL

------------------------------------------------------------------------------
(* The drills against live services.                                         *)

(* What is reported.                                                               *)
ResultStatuses == {"passed", "failed", "blocked"}
ResultSound(r) == r.status \in ResultStatuses /\ (r.status = "passed" => r.so)
ReportsSound ==
    /\ DOMAIN session = {"left", "inject", "results", "report"}
    /\ \E S : session.results \in Seq(S) /\ \A r \in S : ResultSound(r)
    /\ session.report # "none" => session.left = <<>>
    /\ session.report = "passed" => \A i \in DOMAIN session.results : session.results[i].status = "passed"

(* Of the drill c that runs: its locals d, the services v, the job j, the history h. *)
Marks == {"none", "written", "survived", "lost"}
ServicesTyped(v) == v \in [Services -> [held : SUBSET Nat, kept : SUBSET Nat, up : BOOLEAN]]
DrillTyped(d) ==
    /\ DOMAIN d = {"pc", "todo", "offset", "accepted", "replayed", "checks", "failures", "streak", "worst", "cycle", "broken",
                   "status", "mark", "injected"}
    /\ {d.offset, d.accepted, d.replayed, d.streak, d.worst, d.cycle, d.mark} \subseteq Nat
JobTyped(j) ==
    /\ DOMAIN j = {"status", "attempts", "ingress", "sequence", "beats", "verified", "worker"}
    /\ j.sequence \in Nat
PastTyped(h) ==
    /\ DOMAIN h = {"mark", "restarted", "proven", "dark", "blackout", "killed", "sequence", "verified"}
    /\ h.mark \in [Services -> Marks] /\ h.dark \in [Services -> Nat] /\ h.sequence \in Nat
Typed(d, v, j, h) == DrillTyped(d) /\ ServicesTyped(v) /\ JobTyped(j) /\ PastTyped(h)
Begins(d, j, h) ==
    d.pc = "begin" =>
        /\ d = NoDrill /\ j.sequence = 0 /\ j.worker = "none"
        /\ ~h.blackout /\ h.proven = {} /\ h.restarted = {} /\ \A s \in Services : h.mark[s] = "none"
MarkOf(c, s) == IF s = "redis" /\ c = "kubernetes" THEN 1 ELSE MarkKey
LostIsGone(c, v, h) == \A s \in Services : h.mark[s] = "lost" => MarkOf(c, s) \notin v[s].held \union v[s].kept
Numbered(v, j) == v["redis"].held \union v["redis"].kept \subseteq 0..j.sequence
Common(c, d, v, j, h) == Typed(d, v, j, h) /\ Begins(d, j, h) /\ LostIsGone(c, v, h) /\ Numbered(v, j)

LifecycleIs(c, d, j) ==
    c = "lifecycle" =>
        /\ d.pc \in {"begin", "claim", "ingest", "replay", "cancel", "count"}
        /\ d.pc \in {"claim", "ingest"} => j.sequence = 0 /\ d.replayed = 0
        /\ d.pc \in {"replay", "cancel", "count"} => j.sequence = d.accepted + d.replayed
        /\ d.pc = "replay" => d.replayed = 0
        /\ d.pc = "count" => j.status = "cancelled"
StressIs(c, d, j) ==
    c = "stress" =>
        /\ d.pc \in {"begin", "claim", "ingest"}
        /\ d.pc \in {"claim", "ingest"} => j.ingress = 1..d.offset /\ d.offset <= EventCount
ToAsk(todo) == IF todo = <<"postgres", "redis", "minio">> THEN SoakServices
               ELSE IF todo = <<"redis", "minio">> THEN {"redis", "minio"}
               ELSE IF todo = <<"minio">> THEN {"minio"} ELSE {}
SoakTodos == {<<"postgres", "redis", "minio">>, <<"redis", "minio">>, <<"minio">>, <<>>}
(* A service that was away since a cycle began breaks it.                          *)
Noticed(s, d, v, h) ==
    h.dark[s] >= 1 => /\ ~v[s].up
                      /\ d.broken \/ s \in ToAsk(d.todo)
                      /\ d.streak >= h.dark[s] - 1
SoakIs(c, d, v, h) ==
    c = "soak" =>
        /\ d.pc \in {"begin", "cycle"} /\ d.streak <= d.worst
        /\ h.blackout => d.worst >= 2
        /\ d.pc = "cycle" => d.todo \in SoakTodos
        /\ d.pc = "cycle" /\ d.cycle < SoakCycles => \A s \in SoakServices : Noticed(s, d, v, h)
(* Those done before are proven; the mark of the next has been through a restart.   *)
DockerDone(todo, proven) ==
    \/ todo = <<"redis", "minio", "qdrant", "postgres">> /\ proven = {}
    \/ todo = <<"minio", "qdrant", "postgres">> /\ proven = {"redis"}
    \/ todo = <<"qdrant", "postgres">> /\ proven = {"redis", "minio"}
    \/ todo = <<"postgres">> /\ proven = {"redis", "minio", "qdrant"}
DockerIs(c, d, h) ==
    c = "docker" =>
        /\ d.pc \in {"begin", "write", "restart", "poll"}
        /\ d.pc # "begin" => DockerDone(d.todo, h.proven)
        /\ d.pc = "restart" /\ Head(d.todo) # "postgres" => h.mark[Head(d.todo)] \in {"written", "lost"}
        /\ d.pc = "poll" /\ Head(d.todo) # "postgres" => h.mark[Head(d.todo)] \in {"survived", "lost"}
ReadBy(pc) == IF pc = "postgres" THEN {"postgres"} ELSE IF pc = "redis" THEN {"postgres", "redis"}
              ELSE IF pc = "minio" THEN Marked ELSE {}
MarkedBy(pc) == IF pc \in {"claim", "ingest"} THEN {"postgres"} ELSE IF pc = "object" THEN {"postgres", "redis"} ELSE Marked
KubernetesPcs == {"claim", "ingest", "object", "roll", "postgres", "redis", "minio"}
Tested(s, h) == h.mark[s] # "none" /\ (s \in h.restarted => h.mark[s] \in {"survived", "lost"})
KubernetesIs(c, d, h) ==
    c = "kubernetes" =>
        /\ d.pc \in {"begin"} \union KubernetesPcs
        /\ d.pc \in {"claim", "ingest", "object"} => h.restarted = {}
        /\ d.pc \in KubernetesPcs => \A s \in MarkedBy(d.pc) \ ReadBy(d.pc) : Tested(s, h)
        /\ \A s \in ReadBy(d.pc) : s \in h.restarted => d.broken \/ s \in h.proven
LossIs(c, d, j, h) ==
    c = "worker loss" =>
        /\ d.pc \in {"begin", "watch", "watch again", "kill", "killed", "judge"}
        /\ d.pc \in {"killed", "judge"} => h.killed
        /\ d.pc = "judge" => d.status = j.status
(* What the marking counts from is no earlier than the injection.                  *)
LiveIs(c, d, j, h) ==
    c = "live" =>
        /\ d.pc \in {"begin", "watch", "look", "kill", "mark", "collect"}
        /\ d.pc = "kill" => j.verified
        /\ d.pc \in {"kill", "mark"} => ~d.injected
        /\ d.pc = "mark" => h.killed /\ h.verified /\ h.sequence <= j.sequence
        /\ d.injected => h.killed /\ h.verified /\ h.sequence <= d.mark
(* The probes have no locals.                                                      *)
ProbesAre(c, d) == c \in {"none", "probes"} => d.pc = "begin"
Special(c, d, v, j, h) ==
    /\ LifecycleIs(c, d, j) /\ StressIs(c, d, j) /\ SoakIs(c, d, v, h) /\ DockerIs(c, d, h)
    /\ KubernetesIs(c, d, h) /\ LossIs(c, d, j, h) /\ LiveIs(c, d, j, h) /\ ProbesAre(c, d)
DrillIs(c, d, v, j, h) == Common(c, d, v, j, h) /\ Special(c, d, v, j, h)
DrillInv == ReportsSound /\ DrillIs(Current, drill, services, proofJob, past)

(* What a drill begins with suits every drill.                                     *)
LEMMA DrillStarts ==
    ASSUME NEW c, NEW d, NEW v, NEW j, NEW h, Typed(d, v, j, h), Begins(d, j, h), d.pc = "begin", Numbered(v, j)
    PROVE  DrillIs(c, d, v, j, h)
<1>1. LostIsGone(c, v, h)
  BY DEF Begins, LostIsGone
<1>2. LifecycleIs(c, d, j) /\ StressIs(c, d, j) /\ SoakIs(c, d, v, h) /\ DockerIs(c, d, h)
  BY DEF Begins, LifecycleIs, StressIs, SoakIs, DockerIs, NoDrill
<1>3. KubernetesIs(c, d, h) /\ LossIs(c, d, j, h) /\ LiveIs(c, d, j, h) /\ ProbesAre(c, d)
  BY DEF Begins, KubernetesIs, KubernetesPcs, ReadBy, LossIs, LiveIs, ProbesAre, NoDrill
<1> QED BY <1>1, <1>2, <1>3 DEF DrillIs, Common, Special

LEMMA NothingDone ==
    ASSUME NEW v, ServicesTyped(v), \A s \in Services : v[s].held = {} /\ v[s].kept = {}
    PROVE  /\ Typed(NoDrill, v, NoProofJob, NoPast) /\ Begins(NoDrill, NoProofJob, NoPast) /\ NoDrill.pc = "begin"
           /\ Numbered(v, NoProofJob)
<1>1. DrillTyped(NoDrill)
  BY DEF DrillTyped, NoDrill
<1>2. JobTyped(NoProofJob)
  BY DEF JobTyped, NoProofJob
<1>3. PastTyped(NoPast)
  BY DEF PastTyped, NoPast, Marks
<1>4. Begins(NoDrill, NoProofJob, NoPast)
  BY DEF Begins, NoProofJob, NoPast
<1>5. Numbered(v, NoProofJob)
  BY DEF Numbered, Services
<1>6. NoDrill.pc = "begin"
  BY DEF NoDrill
<1> QED BY <1>1, <1>2, <1>3, <1>4, <1>5, <1>6 DEF Typed

(* One drill runs at a time, and what holds of the others does not matter.          *)
LEMMA OneDrill ==
    ASSUME NEW c, NEW d, NEW v, NEW j, NEW h
    PROVE  /\ c = "lifecycle" /\ LifecycleIs(c, d, j) => Special(c, d, v, j, h)
           /\ c = "stress" /\ StressIs(c, d, j) => Special(c, d, v, j, h)
           /\ c = "soak" /\ SoakIs(c, d, v, h) => Special(c, d, v, j, h)
           /\ c = "docker" /\ DockerIs(c, d, h) => Special(c, d, v, j, h)
           /\ c = "kubernetes" /\ KubernetesIs(c, d, h) => Special(c, d, v, j, h)
           /\ c = "worker loss" /\ LossIs(c, d, j, h) => Special(c, d, v, j, h)
           /\ c = "live" /\ LiveIs(c, d, j, h) => Special(c, d, v, j, h)
BY DEF Special, LifecycleIs, StressIs, SoakIs, DockerIs, KubernetesIs, LossIs, LiveIs, ProbesAre

LEMMA DrillStep ==
    ASSUME DrillInv, session' = session, NEW d, NEW v, NEW j, NEW h,
           drill' = d, services' = v, proofJob' = j, past' = h, DrillIs(Current, d, v, j, h)
    PROVE  DrillInv'
<1>1. ReportsSound'
  BY DEF DrillInv, ReportsSound
<1>2. Current' = Current
  BY DEF Current
<1>3. DrillIs(Current, drill, services, proofJob, past)'
  BY <1>2, ZenonT(40) DEF DrillIs, Common, Special, Typed, DrillTyped, ServicesTyped, JobTyped, PastTyped, Begins, LostIsGone, Numbered,
              LifecycleIs, StressIs, SoakIs, DockerIs, KubernetesIs, LossIs, LiveIs, ProbesAre
<1> QED BY <1>1, <1>3 DEF DrillInv

(* What a report adds is so; the next drill begins.                                *)
LEMMA ResultsAdded ==
    ASSUME NEW results, NEW more, NEW S, NEW R, results \in Seq(S), more \in Seq(R), \A r \in S \union R : ResultSound(r)
    PROVE  \E T : results \o more \in Seq(T) /\ \A r \in T : ResultSound(r)
<1>1. PICK T : T = S \union R
  OBVIOUS
<1>2. results \in Seq(T) /\ more \in Seq(T)
  BY <1>1
<1> QED BY <1>1, <1>2

LEMMA SessionGoesOn ==
    ASSUME ReportsSound, session.left # <<>>, NEW R, NEW more, more \in Seq(R), \A r \in R : ResultSound(r),
           session' = [session EXCEPT !.left = Tail(session.left), !.results = session.results \o more]
    PROVE  ReportsSound'
<1>1. session.report = "none"
  BY DEF ReportsSound
<1>2. PICK S : session.results \in Seq(S) /\ \A r \in S : ResultSound(r)
  BY DEF ReportsSound
<1>3. \E T : session.results \o more \in Seq(T) /\ \A r \in T : ResultSound(r)
  BY <1>2, ResultsAdded
<1>4. session'.results = session.results \o more /\ session'.report = "none"
      /\ DOMAIN session' = {"left", "inject", "results", "report"}
  BY <1>1 DEF ReportsSound
<1>5. \E T : session'.results \in Seq(T) /\ \A r \in T : ResultSound(r)
  BY <1>3, <1>4
<1>6. ReportsSound' <=>
         /\ DOMAIN session' = {"left", "inject", "results", "report"}
         /\ \E T : session'.results \in Seq(T) /\ \A r \in T : ResultSound(r)
         /\ session'.report # "none" => session'.left = <<>>
         /\ session'.report = "passed" => \A k \in DOMAIN session'.results : session'.results[k].status = "passed"
  BY DEF ReportsSound, ResultSound, ResultStatuses
<1> QED BY <1>4, <1>5, <1>6

LEMMA DrillEnds ==
    ASSUME DrillInv, Current # "none", NEW status \in ResultStatuses, NEW so, status = "passed" => so, Ends(status, so)
    PROVE  DrillInv'
<1>1. session.left # <<>>
  BY DEF Current
<1>2. PICK r : r = [drill |-> Current, status |-> status, so |-> so]
  OBVIOUS
<1>3. ResultSound(r) /\ <<r>> \in Seq({r})
  BY <1>2 DEF ResultSound
<1>4. session' = [session EXCEPT !.left = Tail(session.left), !.results = Append(session.results, r)]
  BY <1>2 DEF Ends
<1>5. Append(session.results, r) = session.results \o <<r>>
  <2>1. PICK S : session.results \in Seq(S)
    BY DEF DrillInv, ReportsSound
  <2> QED BY <2>1
<1>6. ReportsSound'
  <2>1. PICK R, more : R = {r} /\ more = <<r>>
    OBVIOUS
  <2>2. more \in Seq(R) /\ (\A x \in R : ResultSound(x))
    BY <1>3, <2>1
  <2>3. session' = [session EXCEPT !.left = Tail(session.left), !.results = session.results \o more]
    BY <1>4, <1>5, <2>1
  <2>4. ReportsSound
    BY DEF DrillInv
  <2> QED BY <1>1, <2>2, <2>3, <2>4, SessionGoesOn
<1>7. PICK v : v = [s \in Services |-> [services[s] EXCEPT !.held = {}, !.kept = {}]]
  OBVIOUS
<1>8. ServicesTyped(v) /\ \A s \in Services : v[s].held = {} /\ v[s].kept = {}
  BY <1>7 DEF DrillInv, DrillIs, Common, Typed, ServicesTyped
<1>9. drill' = NoDrill /\ services' = v /\ proofJob' = NoProofJob /\ past' = NoPast
  BY <1>7 DEF Ends
<1>10. PICK c : c = Current'
  OBVIOUS
<1>11. DrillIs(c, NoDrill, v, NoProofJob, NoPast)
  BY <1>8, NothingDone, DrillStarts
<1>12. DrillIs(Current, drill, services, proofJob, past)'
  BY <1>9, <1>10, <1>11, ZenonT(40) DEF DrillIs, Common, Special, Typed, DrillTyped, ServicesTyped, JobTyped, PastTyped, Begins, LostIsGone,
      Numbered, LifecycleIs, StressIs, SoakIs, DockerIs, KubernetesIs, LossIs, LiveIs, ProbesAre
<1> QED BY <1>6, <1>12 DEF DrillInv
LEMMA DrillIsJudged ==
    ASSUME DrillInv, Current # "none", NEW passed, NEW so, passed => so, DrillJudged(passed, so)
    PROVE  DrillInv'
<1>1. PICK status : status = IF passed THEN "passed" ELSE "failed"
  OBVIOUS
<1>2. status \in ResultStatuses /\ (status = "passed" => so) /\ Ends(status, so)
  BY <1>1 DEF ResultStatuses, DrillJudged
<1> QED BY <1>2, DrillEnds

LEMMA RaisingKeeps == ASSUME DrillInv, DrillRaises PROVE DrillInv'
<1>1. Current # "none" /\ (Ends("failed", TRUE) \/ Ends("blocked", TRUE))
  BY DEF DrillRaises
<1>2. {"failed", "blocked"} \subseteq ResultStatuses
  BY DEF ResultStatuses
<1> QED BY <1>1, <1>2, DrillEnds
LEMMA ProbesKeep == ASSUME DrillInv, Probes PROVE DrillInv'
<1>1. session.left # <<>> /\ drill.pc = "begin"
  BY DEF Probes, Current, DrillInv, DrillIs, Special, ProbesAre
<1>2. PICK kubernetes, slurm \in {"passed", "blocked"} :
          session' = [session EXCEPT !.left = Tail(session.left),
                                     !.results = session.results \o
                                         <<[drill |-> "kubernetes cluster", status |-> kubernetes, so |-> TRUE],
                                           [drill |-> "slurm cluster", status |-> slurm, so |-> TRUE],
                                           [drill |-> "multi-node gpu", status |-> "blocked", so |-> TRUE]>>]
  BY DEF Probes
<1>3. PICK r1, r2, r3 : /\ r1 = [drill |-> "kubernetes cluster", status |-> kubernetes, so |-> TRUE]
                        /\ r2 = [drill |-> "slurm cluster", status |-> slurm, so |-> TRUE]
                        /\ r3 = [drill |-> "multi-node gpu", status |-> "blocked", so |-> TRUE]
  OBVIOUS
<1>4. ResultSound(r1) /\ ResultSound(r2) /\ ResultSound(r3)
  BY <1>3 DEF ResultSound, ResultStatuses
<1>5. <<r1, r2, r3>> \in Seq({r1, r2, r3})
  OBVIOUS
<1>6. session' = [session EXCEPT !.left = Tail(session.left), !.results = session.results \o <<r1, r2, r3>>]
  BY <1>2, <1>3
<1>7. ReportsSound'
  <2>1. PICK R, more : R = {r1, r2, r3} /\ more = <<r1, r2, r3>>
    OBVIOUS
  <2>2. more \in Seq(R) /\ (\A x \in R : ResultSound(x))
    BY <1>4, <1>5, <2>1
  <2>3. session' = [session EXCEPT !.left = Tail(session.left), !.results = session.results \o more]
    BY <1>6, <2>1
  <2>4. ReportsSound
    BY DEF DrillInv
  <2> QED BY <1>1, <2>2, <2>3, <2>4, SessionGoesOn
<1>8. PICK c : c = Current'
  OBVIOUS
<1>9. DrillIs(c, drill, services, proofJob, past)
  BY <1>1, DrillStarts DEF DrillInv, DrillIs, Common
<1>10. UNCHANGED <<drill, services, proofJob, past>>
  BY DEF Probes
<1>11. DrillIs(Current, drill, services, proofJob, past)'
  BY <1>8, <1>9, <1>10, ZenonT(40) DEF DrillIs, Common, Special, Typed, DrillTyped, ServicesTyped, JobTyped, PastTyped, Begins, LostIsGone,
      Numbered, LifecycleIs, StressIs, SoakIs, DockerIs, KubernetesIs, LossIs, LiveIs, ProbesAre
<1> QED BY <1>7, <1>11 DEF DrillInv
LEMMA ReportKeeps == ASSUME DrillInv, BuildReport PROVE DrillInv'
<1>1. session.left = <<>> /\ session'.left = <<>> /\ session'.results = session.results
      /\ DOMAIN session' = {"left", "inject", "results", "report"}
  BY DEF BuildReport, DrillInv, ReportsSound
<1>2. session'.report = "passed" => ~Reported("failed") /\ ~Reported("blocked")
  BY DEF BuildReport, DrillInv, ReportsSound
<1>3. PICK S : session.results \in Seq(S) /\ \A r \in S : ResultSound(r)
  BY DEF DrillInv, ReportsSound
<1>4. ASSUME NEW k \in DOMAIN session.results, ~Reported("failed"), ~Reported("blocked") PROVE session.results[k].status = "passed"
  <2>1. ResultSound(session.results[k])
    BY <1>3
  <2> QED BY <1>4, <2>1 DEF ResultSound, ResultStatuses, Reported
<1>5. ReportsSound'
  BY <1>1, <1>2, <1>3, <1>4 DEF ReportsSound, ResultSound, ResultStatuses
<1>6. Current' = Current /\ UNCHANGED <<drill, services, proofJob, past>>
  BY <1>1 DEF Current, BuildReport
<1>7. DrillIs(Current, drill, services, proofJob, past)'
  BY <1>6, ZenonT(40) DEF DrillInv, DrillIs, Common, Special, Typed, DrillTyped, ServicesTyped, JobTyped, PastTyped, Begins, LostIsGone,
      Numbered, LifecycleIs, StressIs, SoakIs, DockerIs, KubernetesIs, LossIs, LiveIs, ProbesAre
<1> QED BY <1>5, <1>7 DEF DrillInv
(* The services of a drill.                                                        *)
LEMMA ServicesMove ==
    ASSUME DrillInv, UNCHANGED <<session, drill, proofJob, past>>, NEW v, services' = v, ServicesTyped(v),
           LostIsGone(Current, v, past), Numbered(v, proofJob), \A s \in Services : ~services[s].up => ~v[s].up
    PROVE  DrillInv'
<1>1. SoakIs(Current, drill, services, past) => SoakIs(Current, drill, v, past)
  BY DEF SoakIs, Noticed, SoakServices, Services
<1>2. DrillIs(Current, drill, v, proofJob, past)
  BY <1>1 DEF DrillInv, DrillIs, Common, Special, Typed
<1> QED BY <1>2, DrillStep
LEMMA DiskKeeps == ASSUME DrillInv, NEW s \in Services, PutsOnDisk(s) PROVE DrillInv'
<1>1. PICK v : v = [services EXCEPT ![s].kept = services[s].held]
  OBVIOUS
<1>2. services' = v /\ UNCHANGED <<session, drill, proofJob, past>>
  BY <1>1 DEF PutsOnDisk
<1>3. ServicesTyped(services) /\ LostIsGone(Current, services, past) /\ Numbered(services, proofJob)
  BY DEF DrillInv, DrillIs, Common, Typed
<1>4. ServicesTyped(v) /\ \A t \in Services : /\ v[t].up = services[t].up /\ v[t].held = services[t].held
                                              /\ v[t].kept \in {services[t].held, services[t].kept}
  BY <1>1, <1>3 DEF ServicesTyped
<1>5. LostIsGone(Current, v, past) /\ Numbered(v, proofJob)
  <2>1. "redis" \in Services
    BY DEF Services
  <2> QED BY <2>1, <1>3, <1>4 DEF LostIsGone, Numbered
<1> QED BY <1>2, <1>4, <1>5, ServicesMove
LEMMA DownKeeps == ASSUME DrillInv, NEW s \in Services, GoesDown(s) PROVE DrillInv'
<1>1. PICK v : v = [services EXCEPT ![s].up = FALSE]
  OBVIOUS
<1>2. services' = v /\ UNCHANGED <<session, drill, proofJob, past>>
  BY <1>1 DEF GoesDown
<1>3. ServicesTyped(services) /\ LostIsGone(Current, services, past) /\ Numbered(services, proofJob)
  BY DEF DrillInv, DrillIs, Common, Typed
<1>4. ServicesTyped(v) /\ \A t \in Services : /\ v[t].held = services[t].held /\ v[t].kept = services[t].kept
                                              /\ ~services[t].up => ~v[t].up
  BY <1>1, <1>3 DEF ServicesTyped
<1>5. LostIsGone(Current, v, past) /\ Numbered(v, proofJob)
  <2>1. "redis" \in Services
    BY DEF Services
  <2> QED BY <2>1, <1>3, <1>4 DEF LostIsGone, Numbered
<1> QED BY <1>2, <1>4, <1>5, ServicesMove

(* What a restart of s leaves of the services v and of the history h.               *)
Restarted(s, restarted, v, h) ==
    /\ ServicesTyped(v) /\ PastTyped(h) /\ LostIsGone(Current, v, h) /\ Numbered(v, proofJob)
    /\ v[s].up /\ \A t \in Services \ {s} : v[t] = services[t]
    /\ h.restarted = IF restarted THEN past.restarted \union {s} ELSE past.restarted
    /\ h.proven = past.proven /\ h.blackout = past.blackout /\ h.killed = past.killed
    /\ h.sequence = past.sequence /\ h.verified = past.verified
    /\ h.dark = [past.dark EXCEPT ![s] = 0]
    /\ \A t \in Services \ {s} : h.mark[t] = past.mark[t]
    /\ past.mark[s] \in {"none", "lost"} => h.mark[s] = past.mark[s]
    /\ past.mark[s] \notin {"none", "lost"} => h.mark[s] \in {"lost", IF restarted THEN "survived" ELSE past.mark[s]}
LEMMA RestartLeaves ==
    ASSUME DrillInv, NEW s \in Services, NEW restarted \in BOOLEAN, AfterRestart(s, restarted)
    PROVE  Restarted(s, restarted, services', past')
<1>1. PICK left \in {services[s].held, services[s].kept} :
        /\ services' = [services EXCEPT ![s] = [held |-> left, kept |-> left, up |-> TRUE]]
        /\ past' = [past EXCEPT !.mark[s] = IF @ \in {"none", "lost"} THEN @ ELSE IF MarkIn(s) \notin left THEN "lost"
                                            ELSE IF restarted THEN "survived" ELSE @,
                                !.restarted = IF restarted THEN @ \union {s} ELSE @,
                                !.dark[s] = 0]
  BY DEF AfterRestart
<1>2. Typed(drill, services, proofJob, past) /\ LostIsGone(Current, services, past) /\ Numbered(services, proofJob)
  BY DEF DrillInv, DrillIs, Common
<1>3. PICK m : m = IF past.mark[s] \in {"none", "lost"} THEN past.mark[s] ELSE IF MarkIn(s) \notin left THEN "lost"
                   ELSE IF restarted THEN "survived" ELSE past.mark[s]
  OBVIOUS
<1>4. PICK gone : gone = IF restarted THEN past.restarted \union {s} ELSE past.restarted
  OBVIOUS
<1>5. past' = [past EXCEPT !.mark[s] = m, !.restarted = gone, !.dark[s] = 0]
  BY <1>1, <1>3, <1>4
<1>6. past.mark \in [Services -> Marks] /\ past.dark \in [Services -> Nat]
  BY <1>2 DEF Typed, PastTyped
<1>7. m \in Marks /\ (past.mark[s] \in {"none", "lost"} => m = past.mark[s])
      /\ (past.mark[s] \notin {"none", "lost"} => m \in {"lost", IF restarted THEN "survived" ELSE past.mark[s]})
      /\ (m = "lost" => past.mark[s] = "lost" \/ MarkIn(s) \notin left)
  BY <1>3, <1>6 DEF Marks
<1>8. PICK v, h : v = services' /\ h = past'
  OBVIOUS
<1>9. /\ DOMAIN h = DOMAIN past /\ h.mark = [past.mark EXCEPT ![s] = m] /\ h.restarted = gone
      /\ h.dark = [past.dark EXCEPT ![s] = 0] /\ h.proven = past.proven /\ h.blackout = past.blackout
      /\ h.killed = past.killed /\ h.sequence = past.sequence /\ h.verified = past.verified
  BY <1>2, <1>5, <1>8 DEF Typed, PastTyped
<1>10. PastTyped(h)
  BY <1>2, <1>6, <1>7, <1>9 DEF Typed, PastTyped
<1>11. services[s].held \subseteq Nat /\ services[s].kept \subseteq Nat
  BY <1>2 DEF Typed, ServicesTyped
<1>12. ServicesTyped(v) /\ v[s] = [held |-> left, kept |-> left, up |-> TRUE] /\ \A t \in Services \ {s} : v[t] = services[t]
  BY <1>1, <1>2, <1>8, <1>11 DEF Typed, ServicesTyped
<1>13. MarkIn(s) = MarkOf(Current, s)
  BY DEF MarkIn, MarkOf
<1>14. LostIsGone(Current, v, h)
  <2> SUFFICES ASSUME NEW t \in Services, h.mark[t] = "lost" PROVE MarkOf(Current, t) \notin v[t].held \union v[t].kept
    BY DEF LostIsGone
  <2>1. CASE t # s
    BY <1>2, <1>6, <1>9, <1>12, <2>1 DEF LostIsGone
  <2>2. CASE t = s
    BY <1>2, <1>6, <1>7, <1>9, <1>12, <1>13, <2>2 DEF LostIsGone
  <2> QED BY <2>1, <2>2
<1>15. Numbered(v, proofJob)
  <2>1. "redis" \in Services
    BY DEF Services
  <2> QED BY <2>1, <1>2, <1>12 DEF Numbered
<1>16. /\ h.mark[s] = m /\ \A t \in Services \ {s} : h.mark[t] = past.mark[t]
  BY <1>6, <1>9
<1>17. Restarted(s, restarted, v, h)
  BY <1>4, <1>7, <1>9, <1>10, <1>12, <1>14, <1>15, <1>16 DEF Restarted
<1> QED BY <1>8, <1>17

LEMMA BackKeeps == ASSUME DrillInv, NEW s \in Services, ComesBack(s) PROVE DrillInv'
<1>1. AfterRestart(s, FALSE) /\ session' = session /\ drill' = drill /\ proofJob' = proofJob
  BY DEF ComesBack
<1>2. PICK v, h : v = services' /\ h = past' /\ Restarted(s, FALSE, v, h)
  BY <1>1, RestartLeaves
<1>3. Typed(drill, services, proofJob, past) /\ Begins(drill, proofJob, past) /\ Special(Current, drill, services, proofJob, past)
  BY DEF DrillInv, DrillIs, Common
<1>4. Typed(drill, v, proofJob, h) /\ LostIsGone(Current, v, h) /\ Numbered(v, proofJob) /\ h.restarted = past.restarted
  BY <1>2, <1>3 DEF Typed, Restarted
<1>5. Begins(drill, proofJob, h)
  <2>1. ASSUME \A t \in Services : past.mark[t] = "none" PROVE \A t \in Services : h.mark[t] = "none"
    BY <1>2, <2>1 DEF Restarted
  <2> QED BY <2>1, <1>2, <1>3, <1>4 DEF Begins, Restarted
<1>6. \A t \in Services : /\ h.dark[t] >= 1 => h.dark[t] = past.dark[t] /\ t # s
                          /\ h.mark[t] \in {past.mark[t], "lost"} /\ (past.mark[t] = "none" => h.mark[t] = "none")
                          /\ (h.mark[t] = "none" => past.mark[t] = "none")
  BY <1>2, <1>3 DEF Restarted, Typed, PastTyped
<1>7. LifecycleIs(Current, drill, proofJob) /\ StressIs(Current, drill, proofJob) /\ LossIs(Current, drill, proofJob, h)
      /\ LiveIs(Current, drill, proofJob, h) /\ ProbesAre(Current, drill)
  BY <1>2, <1>3 DEF Special, LossIs, LiveIs, Restarted
<1>8. SoakIs(Current, drill, v, h)
  <2>1. SoakServices \subseteq Services
    BY DEF SoakServices, Services
  <2>2. \A t \in Services : Noticed(t, drill, services, past) => Noticed(t, drill, v, h)
    BY <1>2, <1>6 DEF Noticed, Restarted
  <2> QED BY <1>2, <1>3, <2>1, <2>2 DEF Special, SoakIs, Restarted
<1>9. DockerIs(Current, drill, h)
  <2>1. ASSUME DockerDone(drill.todo, past.proven), Head(drill.todo) # "postgres" PROVE Head(drill.todo) \in Services
    BY <2>1 DEF DockerDone, Services
  <2> QED BY <1>2, <1>3, <1>6, <2>1 DEF Special, DockerIs, Restarted
<1>10. KubernetesIs(Current, drill, h)
  <2>1. \A t \in Services : Tested(t, past) => Tested(t, h)
    BY <1>4, <1>6 DEF Tested
  <2>2. \A pc : MarkedBy(pc) \subseteq Services
    BY DEF MarkedBy, Services, Marked
  <2> QED BY <1>2, <1>3, <1>4, <2>1, <2>2 DEF Special, KubernetesIs, Restarted
<1>11. DrillIs(Current, drill, v, proofJob, h)
  BY <1>4, <1>5, <1>7, <1>8, <1>9, <1>10 DEF DrillIs, Common, Special
<1> QED BY <1>1, <1>2, <1>11, DrillStep
(* The job of a drill.                                                             *)
LEMMA DrillActs ==
    ASSUME DrillInv, session' = session, NEW d, NEW v, NEW j, NEW h, drill' = d, services' = v, proofJob' = j, past' = h,
           DrillTyped(d), ServicesTyped(v), JobTyped(j), PastTyped(h), d.pc # "begin",
           LostIsGone(Current, v, h), Numbered(v, j), Special(Current, d, v, j, h)
    PROVE  DrillInv'
<1>1. DrillIs(Current, d, v, j, h)
  BY DEF DrillIs, Common, Typed, Begins
<1> QED BY <1>1, DrillStep
LEMMA DrillKnown ==
    ASSUME DrillInv
    PROVE  /\ DrillTyped(drill) /\ ServicesTyped(services) /\ JobTyped(proofJob) /\ PastTyped(past)
           /\ Begins(drill, proofJob, past) /\ LostIsGone(Current, services, past) /\ Numbered(services, proofJob)
           /\ LifecycleIs(Current, drill, proofJob) /\ StressIs(Current, drill, proofJob)
           /\ SoakIs(Current, drill, services, past) /\ DockerIs(Current, drill, past) /\ KubernetesIs(Current, drill, past)
           /\ LossIs(Current, drill, proofJob, past) /\ LiveIs(Current, drill, proofJob, past) /\ ProbesAre(Current, drill)
BY DEF DrillInv, DrillIs, Common, Special, Typed
(* Writing the mark of s.                                                          *)
LEMMA MarkIsWritten ==
    ASSUME DrillInv, NEW s \in Services, NEW v, v = Puts(services, s, MarkKey), NEW h, h = MarksWritten({s})
    PROVE  /\ ServicesTyped(v) /\ PastTyped(h) /\ LostIsGone(Current, v, h) /\ Numbered(v, proofJob)
           /\ h.mark[s] = "written" /\ \A t \in Services \ {s} : h.mark[t] = past.mark[t]
           /\ h.restarted = past.restarted /\ h.proven = past.proven /\ h.killed = past.killed /\ h.dark = past.dark
           /\ h.sequence = past.sequence /\ h.verified = past.verified /\ h.blackout = past.blackout
<1>1. ServicesTyped(services) /\ PastTyped(past) /\ LostIsGone(Current, services, past) /\ Numbered(services, proofJob)
      /\ JobTyped(proofJob)
  BY DrillKnown
<1>2. /\ DOMAIN h = DOMAIN past /\ h.mark = [t \in Services |-> IF t \in {s} THEN "written" ELSE past.mark[t]]
      /\ h.restarted = past.restarted /\ h.proven = past.proven /\ h.killed = past.killed /\ h.dark = past.dark
      /\ h.sequence = past.sequence /\ h.verified = past.verified /\ h.blackout = past.blackout
  BY <1>1 DEF MarksWritten, PastTyped
<1>3. PastTyped(h)
  BY <1>1, <1>2 DEF PastTyped, Marks
<1>4. MarkKey \in Nat
  BY DEF MarkKey
<1>5. PICK r : r = [services[s] EXCEPT !.held = services[s].held \union {MarkKey}]
  OBVIOUS
<1>6. r.held = services[s].held \union {MarkKey} /\ r.kept = services[s].kept /\ r \in [held : SUBSET Nat, kept : SUBSET Nat, up : BOOLEAN]
  BY <1>1, <1>4, <1>5 DEF ServicesTyped
<1>7. v = [services EXCEPT ![s] = r]
  BY <1>5 DEF Puts
<1>8. ServicesTyped(v) /\ v[s] = r /\ \A t \in Services \ {s} : v[t] = services[t]
  BY <1>1, <1>6, <1>7 DEF ServicesTyped
<1>9. LostIsGone(Current, v, h)
  BY <1>1, <1>2, <1>8 DEF LostIsGone
<1>10. Numbered(v, proofJob)
  <2>1. "redis" \in Services /\ MarkKey \in 0..proofJob.sequence
    BY <1>1 DEF Services, MarkKey, JobTyped
  <2> QED BY <1>1, <1>6, <1>8, <2>1 DEF Numbered
<1> QED BY <1>2, <1>3, <1>8, <1>9, <1>10
(* Events that are ingested.                                                       *)
LEMMA EventsAreNumbered ==
    ASSUME DrillInv, NEW batch, IsFiniteSet(batch), Ingested(batch)
    PROVE  /\ Cardinality(Fresh(batch)) \in Nat
           /\ JobTyped(proofJob') /\ ServicesTyped(services') /\ Numbered(services', proofJob')
           /\ proofJob'.sequence = proofJob.sequence + Cardinality(Fresh(batch))
           /\ proofJob'.ingress = proofJob.ingress \union batch
           /\ proofJob'.status = proofJob.status /\ proofJob'.verified = proofJob.verified
           /\ \A s \in Services \ {"redis"} : services'[s] = services[s]
           /\ services'["redis"].kept = services["redis"].kept
           /\ services'["redis"].held \subseteq services["redis"].held \union (Nat \ {0})
<1>1. ServicesTyped(services) /\ Numbered(services, proofJob) /\ JobTyped(proofJob) /\ "redis" \in Services
  BY DrillKnown DEF Services
<1>2. PICK n : n = Cardinality(Fresh(batch))
  OBVIOUS
<1>3. n \in Nat
  BY <1>2, FS_Difference, FS_CardinalityType DEF Fresh
<1>4. PICK q \in Nat : q = proofJob.sequence
  BY <1>1 DEF JobTyped
<1>5. proofJob' = [proofJob EXCEPT !.ingress = proofJob.ingress \union batch, !.sequence = q + n]
  BY <1>2, <1>4 DEF Ingested
<1>6. /\ JobTyped(proofJob') /\ proofJob'.sequence = q + n /\ proofJob'.ingress = proofJob.ingress \union batch
      /\ proofJob'.status = proofJob.status /\ proofJob'.verified = proofJob.verified
  BY <1>1, <1>3, <1>5 DEF JobTyped
<1>7. PICK r : r = [services["redis"] EXCEPT !.held = services["redis"].held \union (q + 1)..(q + n)]
  OBVIOUS
<1>8. services' = [services EXCEPT !["redis"] = r]
  BY <1>2, <1>4, <1>7 DEF Ingested, Published
<1>9. (q + 1)..(q + n) \subseteq Nat \ {0} /\ (q + 1)..(q + n) \subseteq 0..(q + n) /\ 0..q \subseteq 0..(q + n)
  BY <1>3
<1>10. /\ r \in [held : SUBSET Nat, kept : SUBSET Nat, up : BOOLEAN] /\ r.kept = services["redis"].kept
       /\ r.held = services["redis"].held \union (q + 1)..(q + n)
  BY <1>1, <1>7, <1>9 DEF ServicesTyped
<1>11. ServicesTyped(services') /\ services'["redis"] = r /\ \A s \in Services \ {"redis"} : services'[s] = services[s]
  BY <1>1, <1>8, <1>10 DEF ServicesTyped
<1>12. Numbered(services', proofJob')
  BY <1>1, <1>4, <1>6, <1>9, <1>10, <1>11 DEF Numbered
<1> QED BY <1>2, <1>3, <1>4, <1>6, <1>9, <1>10, <1>11, <1>12

LEMMA CreateKeeps == ASSUME DrillInv, CreateProofJob PROVE DrillInv'
<1>1. PICK pc \in {"watch", "claim"} :
        /\ pc = IF Current \in {"worker loss", "live"} THEN "watch" ELSE "claim"
        /\ drill' = [drill EXCEPT !.pc = pc]
  BY DEF CreateProofJob, DrillGoes
<1>2. PICK d, j, v, h : /\ d = [drill EXCEPT !.pc = pc] /\ j = [NoProofJob EXCEPT !.status = "queued"]
                        /\ v = Puts(services, "postgres", MarkKey) /\ h = MarksWritten({"postgres"})
  OBVIOUS
<1>3. session' = session /\ drill' = d /\ services' = v /\ proofJob' = j /\ past' = h
  BY <1>1, <1>2 DEF CreateProofJob
<1>4. drill = NoDrill /\ proofJob.sequence = 0 /\ past.restarted = {} /\ DrillTyped(drill)
  BY DrillKnown DEF Begins, CreateProofJob
<1>5. DrillTyped(d) /\ d.pc = pc /\ d.replayed = 0 /\ d.offset = 0 /\ d.injected = FALSE
  BY <1>2, <1>4 DEF DrillTyped, NoDrill
<1>6. JobTyped(j) /\ j.sequence = 0 /\ j.ingress = {}
  BY <1>2 DEF JobTyped, NoProofJob
<1>7. "postgres" \in Services
  BY DEF Services
<1>8. /\ ServicesTyped(v) /\ PastTyped(h) /\ LostIsGone(Current, v, h) /\ Numbered(v, proofJob)
      /\ h.mark["postgres"] = "written" /\ h.restarted = {}
  BY <1>2, <1>4, <1>7, MarkIsWritten
<1>9. Numbered(v, j)
  BY <1>4, <1>6, <1>8 DEF Numbered
<1>10. Special(Current, d, v, j, h)
  <2>1. Current \in {"lifecycle", "stress"} => LifecycleIs(Current, d, j) /\ StressIs(Current, d, j)
    <3>1. EventCount \in Nat /\ 1..0 = {}
      BY DrillsAssumption
    <3>2. Current \in {"lifecycle", "stress"} => d.pc = "claim"
      BY <1>1, <1>5
    <3>3. Current \in {"lifecycle", "stress"} => LifecycleIs(Current, d, j)
      BY <1>5, <1>6, <3>2 DEF LifecycleIs
    <3> QED BY <1>5, <1>6, <3>1, <3>2, <3>3 DEF StressIs
  <2>2. Current = "kubernetes" => KubernetesIs(Current, d, h)
    BY <1>1, <1>5, <1>8 DEF KubernetesIs, KubernetesPcs, ReadBy, MarkedBy, Tested
  <2>3. Current \in {"worker loss", "live"} => LossIs(Current, d, j, h) /\ LiveIs(Current, d, j, h)
    BY <1>1, <1>5 DEF LossIs, LiveIs
  <2> QED BY <2>1, <2>2, <2>3, OneDrill DEF CreateProofJob, Creating
<1>11. d.pc # "begin"
  BY <1>1, <1>5
<1> QED BY <1>3, <1>5, <1>6, <1>8, <1>9, <1>10, <1>11, DrillActs
LEMMA ClaimKeeps == ASSUME DrillInv, ClaimProofJob PROVE DrillInv'
<1>1. PICK d, j : d = [drill EXCEPT !.pc = "ingest"] /\ j = [proofJob EXCEPT !.status = "running", !.attempts = @ + 1]
  OBVIOUS
<1>2. session' = session /\ drill' = d /\ services' = services /\ proofJob' = j /\ past' = past /\ drill.pc = "claim"
  BY <1>1 DEF ClaimProofJob, DrillGoes
<1>3. DrillTyped(d) /\ d.pc = "ingest" /\ d.replayed = drill.replayed /\ d.offset = drill.offset /\ d.broken = drill.broken
  BY <1>1, DrillKnown DEF DrillTyped
<1>4. JobTyped(j) /\ j.sequence = proofJob.sequence /\ j.ingress = proofJob.ingress
  BY <1>1, DrillKnown DEF JobTyped
<1>5. Numbered(services, j)
  BY <1>4, DrillKnown DEF Numbered
<1>6. LifecycleIs(Current, d, j) /\ StressIs(Current, d, j) /\ ProbesAre(Current, d)
  BY <1>2, <1>3, <1>4, DrillKnown DEF LifecycleIs, StressIs, ProbesAre
<1>7. SoakIs(Current, d, services, past) /\ DockerIs(Current, d, past) /\ LossIs(Current, d, j, past) /\ LiveIs(Current, d, j, past)
  BY <1>2, DrillKnown DEF SoakIs, DockerIs, LossIs, LiveIs
<1>8. KubernetesIs(Current, d, past)
  BY <1>2, <1>3, DrillKnown DEF KubernetesIs, KubernetesPcs, ReadBy, MarkedBy
<1>9. Special(Current, d, services, j, past)
  BY <1>6, <1>7, <1>8 DEF Special
<1> QED BY <1>2, <1>3, <1>4, <1>5, <1>9, DrillKnown, DrillActs
(* The drills that ingest.                                                         *)
LEMMA IngestingKeepsMarks ==
    ASSUME DrillInv, Current # "kubernetes", NEW batch, IsFiniteSet(batch), Ingested(batch)
    PROVE  LostIsGone(Current, services', past)
<1>1. LostIsGone(Current, services, past)
  BY DrillKnown
<1>2. \A s \in Services : MarkOf(Current, s) = 0
  BY DEF MarkOf, MarkKey
<1>3. \A s \in Services \ {"redis"} : services'[s] = services[s]
  BY EventsAreNumbered
<1>4. services'["redis"].held \subseteq services["redis"].held \union (Nat \ {0}) /\ services'["redis"].kept = services["redis"].kept
  BY EventsAreNumbered
<1> QED BY <1>1, <1>2, <1>3, <1>4 DEF LostIsGone
LEMMA OneEvent == IsFiniteSet({1})
BY FS_Singleton
LEMMA LifecycleIngestsKeep == ASSUME DrillInv, LifecycleIngests \/ LifecycleReplays PROVE DrillInv'
<1>1. Ingested({1}) /\ Current = "lifecycle" /\ session' = session /\ past' = past
  BY DEF LifecycleIngests, LifecycleReplays, InDrill
<1>2. PICK n \in Nat : n = Cardinality(Fresh({1}))
  BY <1>1, OneEvent, EventsAreNumbered
<1>3. PICK v, j : v = services' /\ j = proofJob'
  OBVIOUS
<1>4. /\ JobTyped(j) /\ ServicesTyped(v) /\ Numbered(v, j) /\ LostIsGone(Current, v, past)
      /\ j.sequence = proofJob.sequence + n
  BY <1>1, <1>2, <1>3, OneEvent, EventsAreNumbered, IngestingKeepsMarks
<1>5. proofJob.sequence \in Nat /\ LifecycleIs("lifecycle", drill, proofJob) /\ DrillTyped(drill) /\ PastTyped(past)
  BY <1>1, DrillKnown DEF JobTyped
<1>6. CASE LifecycleIngests
  <2>1. PICK d : d = [drill EXCEPT !.pc = "replay", !.accepted = n]
    OBVIOUS
  <2>2. drill' = d /\ drill.pc = "ingest"
    BY <1>2, <1>6, <2>1 DEF LifecycleIngests, InDrill
  <2>3. DrillTyped(d) /\ d.pc = "replay" /\ d.accepted = n /\ d.replayed = drill.replayed
    BY <1>5, <2>1 DEF DrillTyped
  <2>4. LifecycleIs("lifecycle", d, j)
    BY <1>4, <1>5, <2>2, <2>3 DEF LifecycleIs
  <2> QED BY <1>1, <1>3, <1>4, <1>5, <2>2, <2>3, <2>4, OneDrill, DrillActs
<1>7. CASE LifecycleReplays
  <2>1. PICK d : d = [drill EXCEPT !.pc = "cancel", !.replayed = n]
    OBVIOUS
  <2>2. drill' = d /\ drill.pc = "replay"
    BY <1>2, <1>7, <2>1 DEF LifecycleReplays, InDrill
  <2>3. DrillTyped(d) /\ d.pc = "cancel" /\ d.replayed = n /\ d.accepted = drill.accepted /\ drill.accepted \in Nat
    BY <1>5, <2>1 DEF DrillTyped
  <2>4. LifecycleIs("lifecycle", d, j)
    BY <1>4, <1>5, <2>2, <2>3 DEF LifecycleIs
  <2> QED BY <1>1, <1>3, <1>4, <1>5, <2>2, <2>3, <2>4, OneDrill, DrillActs
<1> QED BY <1>6, <1>7
LEMMA LifecycleCancelsKeeps == ASSUME DrillInv, LifecycleCancels PROVE DrillInv'
<1>1. PICK d, j : d = [drill EXCEPT !.pc = "count", !.checks = Cardinality(services["redis"].held)]
                  /\ j = [proofJob EXCEPT !.status = "cancelled"]
  OBVIOUS
<1>2. session' = session /\ drill' = d /\ services' = services /\ proofJob' = j /\ past' = past /\ drill.pc = "cancel"
      /\ Current = "lifecycle"
  BY <1>1 DEF LifecycleCancels, InDrill
<1>3. DrillTyped(d) /\ d.pc = "count" /\ d.accepted = drill.accepted /\ d.replayed = drill.replayed
  BY <1>1, DrillKnown DEF DrillTyped
<1>4. JobTyped(j) /\ j.sequence = proofJob.sequence /\ j.status = "cancelled"
  BY <1>1, DrillKnown DEF JobTyped
<1>5. Numbered(services, j)
  BY <1>4, DrillKnown DEF Numbered
<1>6. LifecycleIs("lifecycle", d, j)
  BY <1>2, <1>3, <1>4, DrillKnown DEF LifecycleIs
<1> QED BY <1>2, <1>3, <1>4, <1>5, <1>6, DrillKnown, OneDrill, DrillActs
LEMMA LifecycleCountsKeeps == ASSUME DrillInv, LifecycleCounts PROVE DrillInv'
<1>1. PICK passed, so :
        /\ passed = (drill.accepted = 1 /\ drill.replayed = 0 /\ drill.checks = 1 /\ MarkKey \in services["postgres"].held)
        /\ so = (proofJob.sequence = 1 /\ proofJob.status = "cancelled" /\ past.mark["postgres"] # "lost")
  OBVIOUS
<1>2. Current = "lifecycle" /\ drill.pc = "count" /\ (DrillJudged(passed, so) \/ Ends("failed", TRUE))
  BY <1>1 DEF LifecycleCounts, InDrill
<1>3. passed => so
  <2>1. SUFFICES ASSUME drill.accepted = 1, drill.replayed = 0, MarkKey \in services["postgres"].held
                 PROVE  proofJob.sequence = 1 /\ proofJob.status = "cancelled" /\ past.mark["postgres"] # "lost"
    BY <1>1
  <2>2. proofJob.sequence = 1 /\ proofJob.status = "cancelled"
    BY <1>2, <2>1, DrillKnown DEF LifecycleIs
  <2>3. "postgres" \in Services /\ MarkOf(Current, "postgres") = MarkKey
    BY DEF Services, MarkOf
  <2>4. LostIsGone(Current, services, past)
    BY DrillKnown
  <2> QED BY <2>1, <2>2, <2>3, <2>4 DEF LostIsGone
<1>4. "failed" \in ResultStatuses
  BY DEF ResultStatuses
<1> QED BY <1>2, <1>3, <1>4, DrillEnds, DrillIsJudged

LEMMA StressIngestsKeeps == ASSUME DrillInv, StressIngests PROVE DrillInv'
<1>1. PICK upTo : upTo = IF drill.offset + BatchSize < EventCount THEN drill.offset + BatchSize ELSE EventCount
  OBVIOUS
<1>2. PICK d, v, j : d = [drill EXCEPT !.offset = upTo] /\ v = services' /\ j = proofJob'
  OBVIOUS
<1>3. session' = session /\ drill' = d /\ past' = past /\ drill.pc = "ingest" /\ Current = "stress" /\ drill.offset < EventCount
  BY <1>1, <1>2 DEF StressIngests, InDrill
<1>4. {EventCount, BatchSize, drill.offset} \subseteq Nat
  BY DrillsAssumption, DrillKnown DEF DrillTyped
<1>5. upTo \in Nat /\ drill.offset <= upTo /\ upTo <= EventCount
  BY <1>1, <1>3, <1>4
<1>6. PICK batch : batch = (drill.offset + 1)..upTo
  OBVIOUS
<1>7. Ingested(batch) /\ IsFiniteSet(batch)
  <2>1. Ingested(batch)
    BY <1>1, <1>6 DEF StressIngests
  <2>2. IsFiniteSet(batch)
    <3>1. drill.offset + 1 \in Int /\ upTo \in Int
      BY <1>4, <1>5
    <3> QED BY <1>6, <3>1, FS_Interval
  <2> QED BY <2>1, <2>2
<1>8. /\ JobTyped(j) /\ ServicesTyped(v) /\ Numbered(v, j) /\ LostIsGone(Current, v, past)
      /\ j.ingress = proofJob.ingress \union batch
  BY <1>2, <1>3, <1>7, EventsAreNumbered, IngestingKeepsMarks
<1>9. DrillTyped(d) /\ d.pc = "ingest" /\ d.offset = upTo
  BY <1>2, <1>3, <1>5, DrillKnown DEF DrillTyped
<1>10. 1..upTo = (1..drill.offset) \union batch
  BY <1>4, <1>5, <1>6
<1>11. proofJob.ingress = 1..drill.offset
  BY <1>3, DrillKnown DEF StressIs
<1>12. StressIs("stress", d, j)
  BY <1>5, <1>8, <1>9, <1>10, <1>11 DEF StressIs
<1>13. PastTyped(past)
  BY DrillKnown
<1> QED BY <1>2, <1>3, <1>8, <1>9, <1>12, <1>13, OneDrill, DrillActs
LEMMA StressJudgesKeeps == ASSUME DrillInv, StressJudges PROVE DrillInv'
<1>1. PICK passed, so : /\ passed = (proofJob.sequence = EventCount /\ TailOf(services["redis"].held) = {EventCount})
                        /\ so = (proofJob.ingress = 1..EventCount /\ EventCount \in services["redis"].held)
  OBVIOUS
<1>2. Current = "stress" /\ drill.pc = "ingest" /\ drill.offset = EventCount /\ DrillJudged(passed, so)
  BY <1>1 DEF StressJudges, InDrill
<1>3. passed => so
  <2>1. proofJob.ingress = 1..EventCount
    BY <1>2, DrillKnown DEF StressIs
  <2>2. TailOf(services["redis"].held) = {EventCount} => EventCount \in services["redis"].held
    BY DEF TailOf
  <2> QED BY <1>1, <2>1, <2>2
<1> QED BY <1>2, <1>3, DrillIsJudged
(* The soak.                                                                       *)
LEMMA SoakKnown ==
    ASSUME DrillInv, Current = "soak"
    PROVE  /\ SoakIs("soak", drill, services, past) /\ {drill.streak, drill.worst, drill.cycle} \subseteq Nat
           /\ \A s \in SoakServices : s \in Services /\ past.dark[s] \in Nat
BY DrillKnown DEF DrillTyped, PastTyped, SoakServices, Services
LEMMA SoakBeginsKeeps == ASSUME DrillInv, SoakBegins PROVE DrillInv'
<1>1. PICK d, h : /\ d = [drill EXCEPT !.pc = "cycle", !.todo = SoakOrder]
                  /\ h = [past EXCEPT !.dark = [s \in Services |-> IF services[s].up THEN 0 ELSE 1]]
  OBVIOUS
<1>2. session' = session /\ drill' = d /\ services' = services /\ proofJob' = proofJob /\ past' = h /\ drill.pc = "begin"
      /\ Current = "soak"
  BY <1>1 DEF SoakBegins, InDrill
<1>3. DrillTyped(d) /\ d.pc = "cycle" /\ d.todo = SoakOrder /\ d.streak = drill.streak /\ d.worst = drill.worst
  BY <1>1, DrillKnown DEF DrillTyped
<1>4. PastTyped(h) /\ h.dark = [s \in Services |-> IF services[s].up THEN 0 ELSE 1] /\ h.mark = past.mark
      /\ h.blackout = past.blackout
  BY <1>1, DrillKnown DEF PastTyped
<1>5. ToAsk(SoakOrder) = SoakServices /\ SoakOrder \in SoakTodos
  BY DEF ToAsk, SoakOrder, SoakTodos
<1>6. SoakIs("soak", d, services, h)
  BY <1>2, <1>3, <1>4, <1>5, SoakKnown DEF SoakIs, Noticed
<1>7. LostIsGone(Current, services, h)
  BY <1>4, DrillKnown DEF LostIsGone
<1> QED BY <1>2, <1>3, <1>4, <1>6, <1>7, DrillKnown, OneDrill, DrillActs
LEMMA SoakAsksKeeps == ASSUME DrillInv, SoakAsks PROVE DrillInv'
<1>1. PICK d : d = drill'
  OBVIOUS
<1>2. session' = session /\ services' = services /\ proofJob' = proofJob /\ past' = past /\ drill.pc = "cycle"
      /\ Current = "soak" /\ drill.todo # <<>>
  BY DEF SoakAsks, InDrill
<1>3. DrillTyped(d) /\ d.pc = "cycle" /\ d.streak = drill.streak /\ d.worst = drill.worst /\ d.cycle = drill.cycle
      /\ IF services[Head(drill.todo)].up THEN d.todo = Tail(drill.todo) /\ d.broken = drill.broken
         ELSE d.todo = <<>> /\ d.broken = TRUE
  <2>1. CASE services[Head(drill.todo)].up
    <3>1. d = [drill EXCEPT !.todo = Tail(drill.todo)]
      BY <1>1, <2>1 DEF SoakAsks
    <3> QED BY <1>2, <2>1, <3>1, DrillKnown DEF DrillTyped
  <2>2. CASE ~services[Head(drill.todo)].up
    <3>1. d = [drill EXCEPT !.todo = <<>>, !.broken = TRUE]
      BY <1>1, <2>2 DEF SoakAsks
    <3> QED BY <1>2, <2>2, <3>1, DrillKnown DEF DrillTyped
  <2> QED BY <2>1, <2>2
<1>4. drill.todo \in SoakTodos
  BY <1>2, DrillKnown DEF SoakIs
<1>5. Tail(drill.todo) \in SoakTodos /\ \A s \in ToAsk(drill.todo) : s = Head(drill.todo) \/ s \in ToAsk(Tail(drill.todo))
  <2>1. CASE drill.todo = <<"postgres", "redis", "minio">>
    <3>1. Head(drill.todo) = "postgres" /\ Tail(drill.todo) = <<"redis", "minio">>
      BY <2>1
    <3>2. ToAsk(drill.todo) = SoakServices /\ ToAsk(<<"redis", "minio">>) = {"redis", "minio"}
      BY <2>1 DEF ToAsk
    <3> QED BY <3>1, <3>2 DEF SoakTodos, SoakServices
  <2>2. CASE drill.todo = <<"redis", "minio">>
    <3>1. Head(drill.todo) = "redis" /\ Tail(drill.todo) = <<"minio">>
      BY <2>2
    <3>2. ToAsk(drill.todo) = {"redis", "minio"} /\ ToAsk(<<"minio">>) = {"minio"}
      BY <2>2 DEF ToAsk
    <3> QED BY <3>1, <3>2 DEF SoakTodos
  <2>3. CASE drill.todo = <<"minio">>
    <3>1. Head(drill.todo) = "minio" /\ Tail(drill.todo) = <<>>
      BY <2>3
    <3>2. ToAsk(drill.todo) = {"minio"}
      BY <2>3 DEF ToAsk
    <3> QED BY <3>1, <3>2 DEF SoakTodos
  <2> QED BY <1>2, <1>4, <2>1, <2>2, <2>3 DEF SoakTodos
<1>6. ASSUME NEW s \in SoakServices, Noticed(s, drill, services, past) PROVE Noticed(s, d, services, past)
  <2>1. past.dark[s] >= 1 => ~services[s].up /\ (drill.broken \/ s \in ToAsk(drill.todo))
    BY <1>6 DEF Noticed
  <2>2. past.dark[s] >= 1 => d.broken \/ s \in ToAsk(d.todo)
    BY <1>3, <1>5, <2>1
  <2> QED BY <1>3, <1>6, <2>2 DEF Noticed
<1>7. d.todo \in SoakTodos
  BY <1>3, <1>5 DEF SoakTodos
<1>8. SoakIs("soak", d, services, past)
  BY <1>2, <1>3, <1>6, <1>7, SoakKnown DEF SoakIs
<1> QED BY <1>1, <1>2, <1>3, <1>8, DrillKnown, OneDrill, DrillActs
LEMMA SoakSleepsKeeps == ASSUME DrillInv, SoakSleeps PROVE DrillInv'
<1>1. session' = session /\ services' = services /\ proofJob' = proofJob /\ drill.pc = "cycle" /\ Current = "soak"
      /\ drill.todo = <<>> /\ drill.cycle < SoakCycles
  BY DEF SoakSleeps, InDrill
<1>2. PICK e : e = SoakCycleEnds(drill)
  OBVIOUS
<1>3. PICK streak, worst : /\ streak = IF drill.broken THEN drill.streak + 1 ELSE 0
                           /\ worst = IF streak > drill.worst THEN streak ELSE drill.worst
  OBVIOUS
<1>4. streak \in Nat /\ worst \in Nat /\ streak <= worst /\ drill.worst <= worst
  BY <1>1, <1>3, SoakKnown
<1>5. DOMAIN e = DOMAIN drill /\ e.streak = streak /\ e.worst = worst /\ e.pc = "cycle" /\ e.cycle = drill.cycle
      /\ {e.offset, e.accepted, e.replayed, e.mark} \subseteq Nat
  <2>1. DrillTyped(drill) /\ drill.streak \in Nat /\ drill.worst \in Nat
    BY DrillKnown DEF DrillTyped
  <2>2. CASE drill.broken
    <3>1. e = [drill EXCEPT !.failures = drill.failures + 1, !.streak = streak, !.worst = worst]
      BY <1>2, <1>3, <2>2 DEF SoakCycleEnds
    <3> QED BY <1>1, <2>1, <3>1 DEF DrillTyped
  <2>3. CASE ~drill.broken
    <3>1. e = [drill EXCEPT !.checks = drill.checks + 1, !.streak = 0]
      BY <1>2, <2>3 DEF SoakCycleEnds
    <3>2. streak = 0 /\ worst = drill.worst
      BY <1>3, <2>1, <2>3
    <3> QED BY <1>1, <2>1, <3>1, <3>2 DEF DrillTyped
  <2> QED BY <2>2, <2>3
<1>6. PICK todo : todo = IF drill.cycle + 1 < SoakCycles THEN SoakOrder ELSE <<>>
  OBVIOUS
<1>7. PICK d : d = [e EXCEPT !.cycle = drill.cycle + 1, !.broken = FALSE, !.todo = todo]
  OBVIOUS
<1>8. drill' = d
  BY <1>2, <1>5, <1>6, <1>7 DEF SoakSleeps
<1>9. DrillTyped(d) /\ d.pc = "cycle" /\ d.streak = streak /\ d.worst = worst /\ d.cycle = drill.cycle + 1 /\ d.todo = todo
  <2>1. DOMAIN drill = {"pc", "todo", "offset", "accepted", "replayed", "checks", "failures", "streak", "worst", "cycle",
                        "broken", "status", "mark", "injected"}
    BY DrillKnown DEF DrillTyped
  <2> QED BY <1>1, <1>4, <1>5, <1>7, <2>1, SoakKnown DEF DrillTyped
<1>10. PICK blackout \in BOOLEAN : blackout = (past.blackout \/ \E s \in SoakServices : DarkNow[s] > 2)
  OBVIOUS
<1>11. PICK h : h = [past EXCEPT !.dark = DarkNow, !.blackout = blackout]
  OBVIOUS
<1>12. past' = h
  BY <1>10, <1>11 DEF SoakSleeps
<1>13. PICK dark : dark = DarkNow
  OBVIOUS
<1>14. dark = [s \in Services |-> IF services[s].up THEN 0 ELSE past.dark[s] + 1]
  BY <1>13 DEF DarkNow
<1>15. PastTyped(h) /\ h.dark = dark /\ h.mark = past.mark /\ h.blackout = blackout
  BY <1>11, <1>13, <1>14, DrillKnown DEF PastTyped
<1>16. ASSUME NEW s \in SoakServices PROVE Noticed(s, drill, services, past)
  BY <1>1, <1>16, SoakKnown DEF SoakIs
<1>17. ToAsk(SoakOrder) = SoakServices /\ SoakOrder \in SoakTodos /\ <<>> \in SoakTodos /\ ToAsk(drill.todo) = {}
  BY <1>1 DEF ToAsk, SoakOrder, SoakTodos
<1>18. ASSUME NEW s \in SoakServices, dark[s] >= 1 PROVE ~services[s].up /\ streak >= dark[s] - 1 /\ (dark[s] > 2 => worst >= 2)
  <2>1. ~services[s].up /\ dark[s] = past.dark[s] + 1 /\ past.dark[s] \in Nat
    BY <1>1, <1>14, <1>18, SoakKnown
  <2>2. past.dark[s] >= 1 => drill.broken /\ drill.streak >= past.dark[s] - 1
    BY <1>16, <1>17 DEF Noticed
  <2>3. drill.streak \in Nat
    BY <1>1, SoakKnown
  <2> QED BY <1>3, <1>4, <2>1, <2>2, <2>3
<1>19. blackout => worst >= 2
  <2>1. past.blackout => drill.worst >= 2
    BY <1>1, SoakKnown DEF SoakIs
  <2>2. ASSUME NEW s \in SoakServices, DarkNow[s] > 2 PROVE worst >= 2
    <3>1. dark[s] \in Nat /\ dark[s] > 2
      BY <1>1, <1>13, <1>14, <2>2, SoakKnown
    <3> QED BY <1>18, <3>1
  <2>3. drill.worst \in Nat
    BY <1>1, SoakKnown
  <2>4. blackout => past.blackout \/ \E s \in SoakServices : DarkNow[s] > 2
    BY <1>10, Zenon
  <2>5. drill.worst >= 2 => worst >= 2
    BY <1>4, <2>3
  <2> QED BY <2>1, <2>2, <2>4, <2>5
<1>20. ASSUME d.cycle < SoakCycles, NEW s \in SoakServices PROVE Noticed(s, d, services, h)
  BY <1>6, <1>9, <1>15, <1>17, <1>18, <1>20 DEF Noticed
<1>21. SoakIs("soak", d, services, h)
  BY <1>4, <1>6, <1>9, <1>15, <1>17, <1>19, <1>20 DEF SoakIs
<1>22. LostIsGone(Current, services, h)
  BY <1>15, DrillKnown DEF LostIsGone
<1> QED BY <1>1, <1>8, <1>9, <1>12, <1>15, <1>21, <1>22, DrillKnown, OneDrill, DrillActs
LEMMA SoakJudgesKeeps == ASSUME DrillInv, SoakJudges PROVE DrillInv'
<1>1. PICK passed, so : /\ passed = (/\ drill.checks > 0 /\ drill.worst <= 1
                                     /\ 100 * drill.checks >= Availability * (drill.checks + drill.failures))
                        /\ so = ~past.blackout
  OBVIOUS
<1>2. Current = "soak" /\ DrillJudged(passed, so)
  BY <1>1 DEF SoakJudges, InDrill
<1>3. passed => so
  <2>1. past.blackout => drill.worst >= 2
    BY <1>2, SoakKnown DEF SoakIs
  <2>2. drill.worst \in Nat /\ (passed => drill.worst <= 1)
    BY <1>1, <1>2, SoakKnown
  <2>3. passed => ~past.blackout
    BY <2>1, <2>2
  <2> QED BY <1>1, <2>3, Zenon
<1> QED BY <1>2, <1>3, DrillIsJudged
(* The restarts of the Docker drill.                                               *)
LEMMA DockerTodo ==
    ASSUME NEW todo, NEW proven, DockerDone(todo, proven)
    PROVE  /\ Head(todo) \in Services
           /\ Head(todo) # "postgres" => DockerDone(Tail(todo), proven \union {Head(todo)})
           /\ Head(todo) = "postgres" => proven = {"redis", "minio", "qdrant"}
<1>1. CASE todo = <<"redis", "minio", "qdrant", "postgres">> /\ proven = {}
  <2>1. Head(todo) = "redis" /\ Tail(todo) = <<"minio", "qdrant", "postgres">>
    BY <1>1
  <2> QED BY <1>1, <2>1 DEF DockerDone, Services
<1>2. CASE todo = <<"minio", "qdrant", "postgres">> /\ proven = {"redis"}
  <2>1. Head(todo) = "minio" /\ Tail(todo) = <<"qdrant", "postgres">>
    BY <1>2
  <2>2. proven \union {"minio"} = {"redis", "minio"}
    BY <1>2
  <2> QED BY <2>1, <2>2 DEF DockerDone, Services
<1>3. CASE todo = <<"qdrant", "postgres">> /\ proven = {"redis", "minio"}
  <2>1. Head(todo) = "qdrant" /\ Tail(todo) = <<"postgres">>
    BY <1>3
  <2>2. proven \union {"qdrant"} = {"redis", "minio", "qdrant"}
    BY <1>3
  <2> QED BY <2>1, <2>2 DEF DockerDone, Services
<1>4. CASE todo = <<"postgres">> /\ proven = {"redis", "minio", "qdrant"}
  BY <1>4 DEF Services
<1> QED BY <1>1, <1>2, <1>3, <1>4 DEF DockerDone
LEMMA DockerBeginsKeeps == ASSUME DrillInv, DockerBegins PROVE DrillInv'
<1>1. PICK d : d = [drill EXCEPT !.pc = "write", !.todo = DockerOrder]
  OBVIOUS
<1>2. session' = session /\ drill' = d /\ services' = services /\ proofJob' = proofJob /\ past' = past /\ drill.pc = "begin"
      /\ Current = "docker"
  BY <1>1 DEF DockerBegins, InDrill
<1>3. DrillTyped(d) /\ d.pc = "write" /\ d.todo = DockerOrder
  BY <1>1, DrillKnown DEF DrillTyped
<1>4. DockerDone(DockerOrder, past.proven)
  BY <1>2, DrillKnown DEF Begins, DockerDone, DockerOrder
<1>5. DockerIs("docker", d, past)
  BY <1>3, <1>4 DEF DockerIs
<1> QED BY <1>2, <1>3, <1>5, DrillKnown, OneDrill, DrillActs
LEMMA DockerWritesKeeps == ASSUME DrillInv, DockerWrites PROVE DrillInv'
<1>1. PICK d, s : d = [drill EXCEPT !.pc = "restart"] /\ s = Head(drill.todo)
  OBVIOUS
<1>2. session' = session /\ drill' = d /\ proofJob' = proofJob /\ drill.pc = "write" /\ Current = "docker"
  BY <1>1 DEF DockerWrites, DrillGoes, InDrill
<1>3. DrillTyped(d) /\ d.pc = "restart" /\ d.todo = drill.todo
  BY <1>1, DrillKnown DEF DrillTyped
<1>4. DockerDone(drill.todo, past.proven) /\ s \in Services
  BY <1>1, <1>2, DrillKnown, DockerTodo DEF DockerIs
<1>5. CASE s = "postgres"
  <2>1. services' = services /\ past' = past
    BY <1>1, <1>5 DEF DockerWrites
  <2>2. DockerIs("docker", d, past)
    BY <1>1, <1>3, <1>4, <1>5 DEF DockerIs
  <2> QED BY <1>2, <1>3, <2>1, <2>2, DrillKnown, OneDrill, DrillActs
<1>6. CASE s # "postgres"
  <2>1. PICK v, h : v = Puts(services, s, MarkKey) /\ h = MarksWritten({s})
    OBVIOUS
  <2>2. services' = v /\ past' = h
    BY <1>1, <1>6, <2>1 DEF DockerWrites
  <2>3. /\ ServicesTyped(v) /\ PastTyped(h) /\ LostIsGone(Current, v, h) /\ Numbered(v, proofJob)
        /\ h.mark[s] = "written" /\ h.proven = past.proven
    BY <1>4, <2>1, MarkIsWritten
  <2>4. DockerIs("docker", d, h)
    BY <1>1, <1>3, <1>4, <2>3 DEF DockerIs
  <2> QED BY <1>2, <1>3, <2>2, <2>3, <2>4, DrillKnown, OneDrill, DrillActs
<1> QED BY <1>5, <1>6
LEMMA DockerRestartsKeeps == ASSUME DrillInv, DockerRestarts PROVE DrillInv'
<1>1. PICK d, s : d = [drill EXCEPT !.pc = "poll"] /\ s = Head(drill.todo)
  OBVIOUS
<1>2. session' = session /\ drill' = d /\ proofJob' = proofJob /\ drill.pc = "restart" /\ Current = "docker"
      /\ AfterRestart(s, TRUE)
  BY <1>1 DEF DockerRestarts, DrillGoes, InDrill
<1>3. DrillTyped(d) /\ d.pc = "poll" /\ d.todo = drill.todo
  BY <1>1, DrillKnown DEF DrillTyped
<1>4. DockerDone(drill.todo, past.proven) /\ s \in Services /\ (s # "postgres" => past.mark[s] \in {"written", "lost"})
  BY <1>1, <1>2, DrillKnown, DockerTodo DEF DockerIs
<1>5. PICK v, h : v = services' /\ h = past' /\ Restarted(s, TRUE, v, h)
  BY <1>2, <1>4, RestartLeaves
<1>6. s # "postgres" => h.mark[s] \in {"survived", "lost"}
  BY <1>4, <1>5 DEF Restarted
<1>7. DockerIs("docker", d, h)
  BY <1>1, <1>3, <1>4, <1>5, <1>6 DEF DockerIs, Restarted
<1>8. ServicesTyped(v) /\ PastTyped(h) /\ LostIsGone(Current, v, h) /\ Numbered(v, proofJob)
  BY <1>5 DEF Restarted
<1> QED BY <1>2, <1>3, <1>5, <1>7, <1>8, DrillKnown, OneDrill, DrillActs

(* A mark that is found is not lost.                                               *)
LEMMA FoundIsSound ==
    ASSUME DrillInv, NEW s \in Services, NEW h, h = Found(s)
    PROVE  /\ PastTyped(h) /\ LostIsGone(Current, services, h)
           /\ h.mark[s] = "none" /\ \A t \in Services \ {s} : h.mark[t] = past.mark[t]
           /\ h.restarted = past.restarted /\ past.proven \subseteq h.proven /\ h.proven \subseteq past.proven \union {s}
           /\ past.mark[s] = "survived" => h.proven = past.proven \union {s}
           /\ Recovered(s) => past.mark[s] # "lost"
<1>1. PastTyped(past) /\ LostIsGone(Current, services, past)
  BY DrillKnown
<1>2. PICK proven : proven = IF past.mark[s] = "survived" THEN past.proven \union {s} ELSE past.proven
  OBVIOUS
<1>3. h = [past EXCEPT !.mark[s] = "none", !.proven = proven]
  BY <1>2 DEF Found
<1>4. DOMAIN h = DOMAIN past /\ h.mark = [past.mark EXCEPT ![s] = "none"] /\ h.proven = proven /\ h.restarted = past.restarted
      /\ h.dark = past.dark /\ h.sequence = past.sequence
  BY <1>1, <1>3 DEF PastTyped
<1>5. h.mark[s] = "none" /\ \A t \in Services \ {s} : h.mark[t] = past.mark[t]
  BY <1>1, <1>4 DEF PastTyped
<1>6. PastTyped(h)
  BY <1>1, <1>4 DEF PastTyped, Marks
<1>7. LostIsGone(Current, services, h)
  BY <1>1, <1>5 DEF LostIsGone
<1>8. Recovered(s) => past.mark[s] # "lost"
  BY <1>1 DEF Recovered, HoldsMark, LostIsGone, MarkIn, MarkOf
<1> QED BY <1>2, <1>4, <1>5, <1>6, <1>7, <1>8
LEMMA DockerFindsKeeps == ASSUME DrillInv, DockerFinds PROVE DrillInv'
<1>1. PICK d, s, h : d = [drill EXCEPT !.pc = "write", !.todo = Tail(drill.todo)] /\ s = Head(drill.todo) /\ h = Found(s)
  OBVIOUS
<1>2. PICK v : v = [services EXCEPT ![s].held = services[s].held \ {MarkKey}]
  OBVIOUS
<1>3. session' = session /\ drill' = d /\ services' = v /\ proofJob' = proofJob /\ past' = h /\ drill.pc = "poll"
      /\ Current = "docker" /\ s # "postgres" /\ Recovered(s)
  BY <1>1, <1>2 DEF DockerFinds, InDrill
<1>4. DrillTyped(d) /\ d.pc = "write" /\ d.todo = Tail(drill.todo)
  BY <1>1, DrillKnown DEF DrillTyped
<1>5. DockerDone(drill.todo, past.proven) /\ s \in Services /\ past.mark[s] \in {"survived", "lost"}
  BY <1>1, <1>3, DrillKnown, DockerTodo DEF DockerIs
<1>6. /\ PastTyped(h) /\ LostIsGone(Current, services, h) /\ h.proven = past.proven \union {s}
  BY <1>1, <1>3, <1>5, FoundIsSound
<1>7. DockerDone(d.todo, h.proven)
  BY <1>1, <1>3, <1>4, <1>5, <1>6, DockerTodo
<1>8. DockerIs("docker", d, h)
  BY <1>4, <1>7 DEF DockerIs
<1>9. ServicesTyped(services) /\ Numbered(services, proofJob)
  BY DrillKnown
<1>10. ServicesTyped(v) /\ \A t \in Services : v[t].held \subseteq services[t].held /\ v[t].kept = services[t].kept
  BY <1>2, <1>5, <1>9 DEF ServicesTyped
<1>11. LostIsGone(Current, v, h)
  BY <1>6, <1>10 DEF LostIsGone
<1>12. Numbered(v, proofJob)
  <2>1. "redis" \in Services
    BY DEF Services
  <2> QED BY <1>9, <1>10, <2>1 DEF Numbered
<1> QED BY <1>3, <1>4, <1>6, <1>8, <1>10, <1>11, <1>12, DrillKnown, OneDrill, DrillActs
LEMMA DockerJudgesKeeps == ASSUME DrillInv, DockerJudges PROVE DrillInv'
<1>1. Current = "docker" /\ drill.pc = "poll" /\ Head(drill.todo) = "postgres"
      /\ DrillJudged(TRUE, past.proven = {"redis", "minio", "qdrant"})
  BY DEF DockerJudges, InDrill
<1>2. past.proven = {"redis", "minio", "qdrant"}
  BY <1>1, DrillKnown, DockerTodo DEF DockerIs
<1> QED BY <1>1, <1>2, DrillIsJudged
(* The restarts of the Kubernetes drill.                                           *)
LEMMA KubernetesStep ==
    ASSUME DrillInv, Current = "kubernetes"
    PROVE  KubernetesIs("kubernetes", drill, past)
BY DrillKnown
LEMMA KubernetesIngestsKeeps == ASSUME DrillInv, KubernetesIngests PROVE DrillInv'
<1>1. PICK d, h, v, j : d = [drill EXCEPT !.pc = "object"] /\ h = MarksWritten({"redis"}) /\ v = services' /\ j = proofJob'
  OBVIOUS
<1>2. session' = session /\ drill' = d /\ past' = h /\ drill.pc = "ingest" /\ Current = "kubernetes" /\ Ingested({1})
  BY <1>1 DEF KubernetesIngests, DrillGoes, InDrill
<1>3. DrillTyped(d) /\ d.pc = "object" /\ d.broken = drill.broken
  BY <1>1, DrillKnown DEF DrillTyped
<1>4. /\ JobTyped(j) /\ ServicesTyped(v) /\ Numbered(v, j)
      /\ \A s \in Services \ {"redis"} : v[s] = services[s]
  BY <1>1, <1>2, OneEvent, EventsAreNumbered
<1>5. "redis" \in Services
  BY DEF Services
<1>6. /\ PastTyped(h) /\ h.mark["redis"] = "written" /\ \A t \in Services \ {"redis"} : h.mark[t] = past.mark[t]
      /\ h.restarted = past.restarted /\ h.proven = past.proven
  BY <1>1, <1>5, MarkIsWritten, ZenonT(40)
<1>7. LostIsGone(Current, v, h)
  <2>1. LostIsGone(Current, services, past)
    BY DrillKnown
  <2> QED BY <1>4, <1>6, <2>1 DEF LostIsGone
<1>8. Tested("postgres", past) /\ past.restarted = {}
  BY <1>2, KubernetesStep DEF KubernetesIs, KubernetesPcs, MarkedBy, ReadBy
<1>9. h.mark["postgres"] # "none" /\ h.restarted = {}
  BY <1>6, <1>8 DEF Tested, Services
<1>10. KubernetesIs("kubernetes", d, h)
  BY <1>3, <1>6, <1>9 DEF KubernetesIs, KubernetesPcs, MarkedBy, ReadBy, Tested
<1> QED BY <1>1, <1>2, <1>3, <1>4, <1>6, <1>7, <1>10, OneDrill, DrillActs
LEMMA KubernetesStoresKeeps == ASSUME DrillInv, KubernetesStores PROVE DrillInv'
<1>1. PICK workloads \in WorkloadLists : drill' = [drill EXCEPT !.pc = "roll", !.todo = workloads]
  BY DEF KubernetesStores
<1>2. PICK d, h, v : d = [drill EXCEPT !.pc = "roll", !.todo = workloads] /\ h = MarksWritten({"minio"})
                     /\ v = Puts(services, "minio", MarkKey)
  OBVIOUS
<1>3. session' = session /\ drill' = d /\ past' = h /\ services' = v /\ proofJob' = proofJob
      /\ drill.pc = "object" /\ Current = "kubernetes"
  BY <1>1, <1>2 DEF KubernetesStores, InDrill
<1>4. DrillTyped(d) /\ d.pc = "roll"
  BY <1>2, DrillKnown DEF DrillTyped
<1>5. "minio" \in Services
  BY DEF Services
<1>6. /\ ServicesTyped(v) /\ PastTyped(h) /\ LostIsGone(Current, v, h) /\ Numbered(v, proofJob)
      /\ h.mark["minio"] = "written" /\ \A t \in Services \ {"minio"} : h.mark[t] = past.mark[t]
      /\ h.restarted = past.restarted
  BY <1>2, <1>5, MarkIsWritten
<1>7. Tested("postgres", past) /\ Tested("redis", past) /\ past.restarted = {}
  BY <1>3, KubernetesStep DEF KubernetesIs, KubernetesPcs, MarkedBy, ReadBy
<1>8. h.mark["postgres"] # "none" /\ h.mark["redis"] # "none" /\ h.restarted = {}
  BY <1>6, <1>7 DEF Tested, Services
<1>9. KubernetesIs("kubernetes", d, h)
  BY <1>4, <1>6, <1>8 DEF KubernetesIs, KubernetesPcs, MarkedBy, ReadBy, Tested, Marked
<1> QED BY <1>3, <1>4, <1>6, <1>9, DrillKnown, OneDrill, DrillActs
LEMMA RollIs ==
    ASSUME NEW d, NEW h, d.pc = "roll"
    PROVE  KubernetesIs("kubernetes", d, h) <=> \A s \in Marked : Tested(s, h)
<1>1. MarkedBy("roll") = Marked /\ ReadBy("roll") = {} /\ "roll" \in KubernetesPcs
  BY DEF MarkedBy, ReadBy, KubernetesPcs
<1> QED BY <1>1 DEF KubernetesIs
LEMMA KubernetesRestartsKeeps == ASSUME DrillInv, KubernetesRestarts PROVE DrillInv'
<1>1. PICK d, s : d = [drill EXCEPT !.todo = Tail(drill.todo)] /\ s = Head(drill.todo)
  OBVIOUS
<1>2. session' = session /\ drill' = d /\ proofJob' = proofJob /\ drill.pc = "roll" /\ Current = "kubernetes"
  BY <1>1 DEF KubernetesRestarts, InDrill
<1>3. DrillTyped(d) /\ d.pc = "roll"
  BY <1>1, <1>2, DrillKnown DEF DrillTyped
<1>4. \A t \in Marked : Tested(t, past)
  BY <1>2, KubernetesStep, RollIs
<1>5. CASE s \in Services
  <2>1. AfterRestart(s, TRUE)
    BY <1>1, <1>5 DEF KubernetesRestarts
  <2>2. PICK v, h : v = services' /\ h = past' /\ Restarted(s, TRUE, v, h)
    BY <1>5, <2>1, RestartLeaves
  <2>3. ASSUME NEW t \in Marked PROVE Tested(t, h)
    <3>1. Tested(t, past) /\ t \in Services
      BY <1>4 DEF Marked, Services
    <3>2. CASE t = s
      BY <2>2, <3>1, <3>2 DEF Tested, Restarted
    <3>3. CASE t # s
      BY <2>2, <3>1, <3>3 DEF Tested, Restarted
    <3> QED BY <3>2, <3>3
  <2>4. ServicesTyped(v) /\ PastTyped(h) /\ LostIsGone(Current, v, h) /\ Numbered(v, proofJob)
    BY <2>2 DEF Restarted
  <2>5. KubernetesIs("kubernetes", d, h)
    BY <1>3, <2>3, RollIs
  <2> QED BY <1>2, <1>3, <2>2, <2>4, <2>5, DrillKnown, OneDrill, DrillActs
<1>6. CASE s \notin Services
  <2>1. services' = services /\ past' = past
    BY <1>1, <1>6 DEF KubernetesRestarts
  <2>2. KubernetesIs("kubernetes", d, past)
    BY <1>3, <1>4, RollIs
  <2> QED BY <1>2, <1>3, <2>1, <2>2, DrillKnown, OneDrill, DrillActs
<1> QED BY <1>5, <1>6
LEMMA KubernetesReadsKeeps == ASSUME DrillInv, KubernetesReads PROVE DrillInv'
<1>1. PICK s \in Marked : /\ s = IF drill.pc = "roll" THEN "postgres" ELSE IF drill.pc = "postgres" THEN "redis" ELSE "minio"
                          /\ drill' = [drill EXCEPT !.pc = s, !.broken = @ \/ ~Recovered(s)] /\ past' = Found(s)
  BY DEF KubernetesReads, Marked
<1>2. PICK broken \in BOOLEAN : broken = (drill.broken \/ ~Recovered(s))
  OBVIOUS
<1>3. PICK d, h : d = [drill EXCEPT !.pc = s, !.broken = broken] /\ h = Found(s)
  OBVIOUS
<1>4. session' = session /\ drill' = d /\ past' = h /\ services' = services /\ proofJob' = proofJob
      /\ drill.pc \in {"roll", "postgres", "redis"} /\ Current = "kubernetes"
  BY <1>1, <1>2, <1>3 DEF KubernetesReads
<1>5. DrillTyped(d) /\ d.pc = s /\ d.broken = broken
  BY <1>3, DrillKnown DEF DrillTyped
<1>6. s \in Services
  BY DEF Marked, Services
<1>7. /\ PastTyped(h) /\ LostIsGone(Current, services, h)
      /\ \A t \in Services \ {s} : h.mark[t] = past.mark[t]
      /\ h.restarted = past.restarted /\ past.proven \subseteq h.proven
      /\ past.mark[s] = "survived" => h.proven = past.proven \union {s}
      /\ Recovered(s) => past.mark[s] # "lost"
  BY <1>3, <1>6, FoundIsSound
<1>8. /\ ReadBy(s) = ReadBy(drill.pc) \union {s} /\ MarkedBy(drill.pc) = Marked /\ MarkedBy(s) = Marked
      /\ s \notin ReadBy(drill.pc) /\ drill.pc \in KubernetesPcs /\ s \in KubernetesPcs
  BY <1>1, <1>4 DEF ReadBy, MarkedBy, KubernetesPcs, Marked
<1>9. /\ \A t \in Marked \ ReadBy(drill.pc) : Tested(t, past)
      /\ \A t \in ReadBy(drill.pc) : t \in past.restarted => drill.broken \/ t \in past.proven
  BY <1>4, <1>8, KubernetesStep DEF KubernetesIs
<1>10. ASSUME s \in past.restarted PROVE broken \/ s \in h.proven
  <2>1. past.mark[s] \in {"survived", "lost"}
    BY <1>8, <1>9, <1>10 DEF Tested
  <2>2. ~Recovered(s) => broken
    BY <1>2
  <2> QED BY <1>7, <2>1, <2>2
<1>11. drill.broken => broken
  BY <1>2
<1>12. \A t \in ReadBy(s) : t \in h.restarted => broken \/ t \in h.proven
  BY <1>7, <1>8, <1>9, <1>10, <1>11
<1>13. ASSUME NEW t \in Marked \ ReadBy(s) PROVE Tested(t, h)
  <2>1. Tested(t, past) /\ t \in Services /\ t # s
    BY <1>8, <1>9 DEF Marked, Services
  <2> QED BY <1>7, <2>1 DEF Tested
<1>14. s \notin {"claim", "ingest", "object"}
  BY DEF Marked
<1>15. KubernetesIs("kubernetes", d, h)
  BY <1>5, <1>8, <1>12, <1>13, <1>14 DEF KubernetesIs
<1>16. s # "begin"
  BY DEF Marked
<1> QED BY <1>4, <1>5, <1>7, <1>15, <1>16, DrillKnown, OneDrill, DrillActs
LEMMA KubernetesJudgesKeeps == ASSUME DrillInv, KubernetesJudges PROVE DrillInv'
<1>1. PICK passed, so : /\ passed = (~drill.broken /\ proofJob.status = "running")
                        /\ so = (Marked \intersect past.restarted \subseteq past.proven)
  OBVIOUS
<1>2. Current = "kubernetes" /\ drill.pc = "minio" /\ DrillJudged(passed, so)
  BY <1>1 DEF KubernetesJudges, InDrill
<1>3. ReadBy("minio") = Marked
  BY DEF ReadBy
<1>4. \A s \in Marked : s \in past.restarted => drill.broken \/ s \in past.proven
  BY <1>2, <1>3, KubernetesStep DEF KubernetesIs
<1>5. passed => ~drill.broken
  BY <1>1, Zenon
<1>6. ~drill.broken => Marked \intersect past.restarted \subseteq past.proven
  BY <1>4
<1>7. passed => so
  BY <1>1, <1>5, <1>6, Zenon
<1> QED BY <1>2, <1>7, DrillIsJudged
(* The cluster reconciles.                                                         *)
LEMMA WatchingKeeps ==
    ASSUME NEW j
    PROVE  \/ Watched(j) = j
           \/ \E status : Watched(j) = [j EXCEPT !.status = status]
           \/ Watched(j) = [j EXCEPT !.status = "queued", !.worker = "none"]
<1>1. CASE j.worker = "finished"
  <2>1. Watched(j) = [j EXCEPT !.status = "succeeded"]
    BY <1>1, Zenon DEF Watched
  <2> QED BY <2>1
<1>2. CASE j.worker = "lost"
  <2>1. Watched(j) = Requeues(j)
    BY <1>2, Zenon DEF Watched
  <2> QED BY <2>1, Zenon DEF Requeues
<1>3. CASE j.worker \in {"running", "dying"}
  <2>1. j.worker # "finished" /\ j.worker # "lost"
    BY <1>3
  <2>2. Watched(j) = [j EXCEPT !.status = "running"]
    BY <1>3, <2>1, Zenon DEF Watched
  <2> QED BY <2>2
<1>4. CASE j.worker \notin {"finished", "lost", "running", "dying"}
  <2>1. j.worker # "finished" /\ j.worker # "lost" /\ j.worker \notin {"running", "dying"}
    BY <1>4
  <2>2. Watched(j) = j
    BY <2>1, Zenon DEF Watched
  <2> QED BY <2>2
<1> QED BY <1>1, <1>2, <1>3, <1>4
LEMMA ReconcilingKeeps ==
    ASSUME NEW j, JobTyped(j), NEW k \in Reconciled(j)
    PROVE  JobTyped(k) /\ k.sequence = j.sequence /\ k.verified = j.verified
<1>1. \/ k = j \/ k = Watched(j)
      \/ k = [j EXCEPT !.status = "provisioning", !.worker = "pending", !.attempts = @ + 1] \/ k = [j EXCEPT !.status = "blocked"]
  BY DEF Reconciled
<1>2. CASE k = [j EXCEPT !.status = "provisioning", !.worker = "pending", !.attempts = @ + 1] \/ k = [j EXCEPT !.status = "blocked"]
  BY <1>2 DEF JobTyped
<1>3. CASE k = Watched(j)
  BY <1>3, WatchingKeeps DEF JobTyped
<1> QED BY <1>1, <1>2, <1>3

(* A step of the job alone.                                                        *)
LEMMA JobMoves ==
    ASSUME DrillInv, session' = session, drill' = drill, services' = services, past' = past, drill.pc # "begin",
           NEW j, proofJob' = j, JobTyped(j), j.sequence = proofJob.sequence, j.ingress = proofJob.ingress \/ Current = "live",
           proofJob.verified => j.verified, j.status = proofJob.status \/ Current = "live"
    PROVE  DrillInv'
<1>1. Numbered(services, j)
  BY DrillKnown DEF Numbered
<1>2. LifecycleIs(Current, drill, j) /\ StressIs(Current, drill, j) /\ LossIs(Current, drill, j, past)
  BY DrillKnown DEF LifecycleIs, StressIs, LossIs
<1>3. LiveIs(Current, drill, j, past)
  BY DrillKnown DEF LiveIs
<1>4. Special(Current, drill, services, j, past)
  BY <1>2, <1>3, DrillKnown DEF Special
<1> QED BY <1>1, <1>4, DrillKnown, DrillActs
LEMMA WorkerMovesKeeps == ASSUME DrillInv, WorkerMoves PROVE DrillInv'
<1>1. PICK to : /\ proofJob.worker \in {"pending", "dying", "running", "lost"}
                /\ proofJob' = [proofJob EXCEPT !.worker = to]
                /\ UNCHANGED <<session, drill, services, past>>
  BY DEF WorkerMoves, Worker
<1>2. PICK j : j = [proofJob EXCEPT !.worker = to]
  OBVIOUS
<1>3. JobTyped(j) /\ j.sequence = proofJob.sequence /\ j.ingress = proofJob.ingress /\ j.verified = proofJob.verified
      /\ j.status = proofJob.status
  BY <1>2, DrillKnown DEF JobTyped
<1>4. drill.pc # "begin"
  BY <1>1, DrillKnown DEF Begins
<1> QED BY <1>1, <1>2, <1>3, <1>4, JobMoves
LEMMA WorkerCommitsKeeps == ASSUME DrillInv, WorkerCommits PROVE DrillInv'
<1>1. PICK j : j = [proofJob EXCEPT !.verified = TRUE]
  OBVIOUS
<1>2. JobTyped(j) /\ j.sequence = proofJob.sequence /\ j.ingress = proofJob.ingress /\ j.verified /\ j.status = proofJob.status
  BY <1>1, DrillKnown DEF JobTyped
<1>3. drill.pc # "begin"
  BY DrillKnown DEF Begins, WorkerCommits
<1> QED BY <1>1, <1>2, <1>3, JobMoves DEF WorkerCommits
LEMMA ControllerKeeps == ASSUME DrillInv, ControllerReconciles PROVE DrillInv'
<1>1. PICK j \in Reconciled(proofJob) : proofJob' = j
  BY DEF ControllerReconciles
<1>2. JobTyped(j) /\ j.sequence = proofJob.sequence /\ j.verified = proofJob.verified
  BY DrillKnown, ReconcilingKeeps
<1> QED BY <1>1, <1>2, JobMoves DEF ControllerReconciles
LEMMA WorkerPostsKeeps == ASSUME DrillInv, WorkerPosts PROVE DrillInv'
<1>1. PICK q \in Nat : q = proofJob.sequence
  BY DrillKnown DEF JobTyped
<1>2. PICK beats : proofJob' = [proofJob EXCEPT !.sequence = q + 1, !.beats = beats]
  BY <1>1 DEF WorkerPosts
<1>3. PICK j : j = [proofJob EXCEPT !.sequence = q + 1, !.beats = beats]
  OBVIOUS
<1>4. JobTyped(j) /\ j.sequence = q + 1 /\ j.verified = proofJob.verified
  BY <1>3, DrillKnown DEF JobTyped
<1>5. PICK r : r = [services["redis"] EXCEPT !.held = services["redis"].held \union (q + 1)..(q + 1)]
  OBVIOUS
<1>6. PICK v : v = [services EXCEPT !["redis"] = r]
  OBVIOUS
<1>7. session' = session /\ drill' = drill /\ services' = v /\ proofJob' = j /\ past' = past /\ Current = "live"
      /\ drill.pc # "begin"
  BY <1>1, <1>2, <1>3, <1>5, <1>6, DrillKnown DEF WorkerPosts, Published, Begins
<1>8. (q + 1)..(q + 1) = {q + 1} /\ q + 1 \in Nat \ {0} /\ q + 1 \in 0..(q + 1) /\ 0..q \subseteq 0..(q + 1)
  OBVIOUS
<1>9. "redis" \in Services
  BY DEF Services
<1>10. ServicesTyped(services) /\ Numbered(services, proofJob) /\ LostIsGone(Current, services, past)
       /\ LiveIs("live", drill, proofJob, past)
  BY <1>7, DrillKnown
<1>11. r \in [held : SUBSET Nat, kept : SUBSET Nat, up : BOOLEAN] /\ r.kept = services["redis"].kept
       /\ r.held = services["redis"].held \union {q + 1}
  BY <1>5, <1>8, <1>9, <1>10 DEF ServicesTyped
<1>12. ServicesTyped(v) /\ v["redis"] = r /\ \A s \in Services \ {"redis"} : v[s] = services[s]
  BY <1>6, <1>9, <1>10, <1>11 DEF ServicesTyped
<1>13. Numbered(v, j)
  BY <1>1, <1>4, <1>8, <1>10, <1>11, <1>12 DEF Numbered
<1>14. MarkOf(Current, "redis") = 0
  BY <1>7 DEF MarkOf, MarkKey
<1>15. LostIsGone(Current, v, past)
  BY <1>8, <1>9, <1>10, <1>11, <1>12, <1>14 DEF LostIsGone
<1>16. LiveIs("live", drill, j, past)
  <2>1. past.sequence \in Nat
    BY DrillKnown DEF PastTyped
  <2> QED BY <1>1, <1>4, <1>10, <2>1 DEF LiveIs
<1> QED BY <1>4, <1>7, <1>12, <1>13, <1>15, <1>16, DrillKnown, OneDrill, DrillActs

(* The drill that loses a worker.                                                  *)
LEMMA LossReconcilesKeeps == ASSUME DrillInv, LossReconciles PROVE DrillInv'
<1>1. PICK j \in Reconciled(proofJob) : proofJob' = j
  BY DEF LossReconciles
<1>2. JobTyped(j) /\ j.sequence = proofJob.sequence
  BY DrillKnown, ReconcilingKeeps
<1>3. PICK pc : /\ pc = CASE drill.pc = "watch" -> "watch again" [] drill.pc = "watch again" -> "kill" [] OTHER -> "judge"
  OBVIOUS
<1>4. PICK d : d = [drill EXCEPT !.status = j.status, !.pc = pc]
  OBVIOUS
<1>5. drill' = d
  <2>1. drill' = [drill EXCEPT !.status = proofJob'.status,
                               !.pc = CASE drill.pc = "watch" -> "watch again" [] drill.pc = "watch again" -> "kill" [] OTHER -> "judge"]
    BY Zenon DEF LossReconciles
  <2> QED BY <1>1, <1>3, <1>4, <2>1, Zenon
<1>6. session' = session /\ services' = services /\ past' = past /\ Current = "worker loss"
      /\ drill.pc \in {"watch", "watch again", "killed"}
  BY Zenon DEF LossReconciles
<1>7. pc \in {"watch again", "kill", "judge"} /\ (pc = "judge" => drill.pc = "killed")
  <2>1. CASE drill.pc = "watch"
    BY <1>3, <2>1, Zenon
  <2>2. CASE drill.pc = "watch again"
    BY <1>3, <2>2, Zenon
  <2>3. CASE drill.pc = "killed"
    <3>1. drill.pc # "watch" /\ drill.pc # "watch again"
      BY <2>3
    <3>2. pc = "judge"
      BY <1>3, <3>1, Zenon
    <3> QED BY <2>3, <3>2
  <2> QED BY <1>6, <2>1, <2>2, <2>3
<1>8. DrillTyped(d) /\ d.pc = pc /\ d.status = j.status
  BY <1>4, DrillKnown DEF DrillTyped
<1>9. LossIs("worker loss", d, j, past)
  BY <1>6, <1>7, <1>8, DrillKnown DEF LossIs
<1>10. Numbered(services, j)
  BY <1>2, DrillKnown DEF Numbered
<1>11. d.pc # "begin"
  BY <1>7, <1>8
<1> QED BY <1>1, <1>2, <1>5, <1>6, <1>8, <1>9, <1>10, <1>11, DrillKnown, OneDrill, DrillActs
LEMMA LossKillsKeeps == ASSUME DrillInv, LossKills PROVE DrillInv'
<1>1. PICK worker : proofJob' = [proofJob EXCEPT !.worker = worker]
  BY DEF LossKills
<1>2. PICK d, j, h : d = [drill EXCEPT !.pc = "killed"] /\ j = [proofJob EXCEPT !.worker = worker] /\ h = [past EXCEPT !.killed = TRUE]
  OBVIOUS
<1>3. session' = session /\ drill' = d /\ services' = services /\ proofJob' = j /\ past' = h /\ Current = "worker loss"
  BY <1>1, <1>2 DEF LossKills, DrillGoes, InDrill
<1>4. DrillTyped(d) /\ d.pc = "killed"
  BY <1>2, DrillKnown DEF DrillTyped
<1>5. JobTyped(j) /\ j.sequence = proofJob.sequence
  BY <1>2, DrillKnown DEF JobTyped
<1>6. PastTyped(h) /\ h.killed /\ h.mark = past.mark
  BY <1>2, DrillKnown DEF PastTyped
<1>7. LossIs("worker loss", d, j, h)
  BY <1>4, <1>6 DEF LossIs
<1>8. Numbered(services, j) /\ LostIsGone(Current, services, h)
  BY <1>5, <1>6, DrillKnown DEF Numbered, LostIsGone
<1> QED BY <1>3, <1>4, <1>5, <1>6, <1>7, <1>8, DrillKnown, OneDrill, DrillActs
LEMMA LossJudgesKeeps == ASSUME DrillInv, LossJudges PROVE DrillInv'
<1>1. PICK passed, so : /\ passed = (drill.status = "queued" /\ proofJob.attempts = 1)
                        /\ so = (past.killed /\ proofJob.status = "queued")
  OBVIOUS
<1>2. Current = "worker loss" /\ drill.pc = "judge" /\ DrillJudged(passed, so)
  BY <1>1 DEF LossJudges, InDrill
<1>3. past.killed /\ drill.status = proofJob.status
  BY <1>2, DrillKnown DEF LossIs
<1>4. passed => so
  <2>1. passed => drill.status = "queued"
    BY <1>1, Zenon
  <2> QED BY <1>1, <1>3, <2>1, Zenon
<1> QED BY <1>2, <1>4, DrillIsJudged
(* The live drill.                                                                 *)
LEMMA LiveKnown ==
    ASSUME DrillInv, Current = "live"
    PROVE  LiveIs("live", drill, proofJob, past) /\ proofJob.sequence \in Nat /\ past.sequence \in Nat /\ drill.mark \in Nat
BY DrillKnown DEF JobTyped, PastTyped, DrillTyped
LEMMA LiveReconcilesKeeps == ASSUME DrillInv, LiveReconciles PROVE DrillInv'
<1>1. PICK j \in Reconciled(proofJob) : proofJob' = j
  BY DEF LiveReconciles
<1>2. JobTyped(j) /\ j.sequence = proofJob.sequence
  BY DrillKnown, ReconcilingKeeps
<1>3. PICK pc \in {"collect", "look", "watch"} :
        drill' = [drill EXCEPT !.status = j.status, !.pc = pc]
  BY <1>1 DEF LiveReconciles
<1>4. PICK d : d = [drill EXCEPT !.status = j.status, !.pc = pc]
  OBVIOUS
<1>5. session' = session /\ services' = services /\ past' = past /\ Current = "live"
  BY DEF LiveReconciles, InDrill
<1>6. DrillTyped(d) /\ d.pc = pc /\ d.injected = drill.injected /\ d.mark = drill.mark
  BY <1>4, DrillKnown DEF DrillTyped
<1>7. LiveIs("live", d, j, past)
  BY <1>5, <1>6, LiveKnown DEF LiveIs
<1>8. Numbered(services, j)
  BY <1>2, DrillKnown DEF Numbered
<1> QED BY <1>1, <1>2, <1>3, <1>4, <1>5, <1>6, <1>7, <1>8, DrillKnown, OneDrill, DrillActs
LEMMA LiveLooksKeeps == ASSUME DrillInv, LiveLooks PROVE DrillInv'
<1>1. PICK pc \in {"kill", "watch"} : /\ drill' = [drill EXCEPT !.pc = pc]
                                      /\ pc = "kill" => proofJob.verified /\ ~drill.injected
  BY DEF LiveLooks, DrillGoes, Ready
<1>2. PICK d : d = [drill EXCEPT !.pc = pc]
  OBVIOUS
<1>3. session' = session /\ services' = services /\ proofJob' = proofJob /\ past' = past /\ Current = "live"
  BY DEF LiveLooks, InDrill
<1>4. DrillTyped(d) /\ d.pc = pc /\ d.injected = drill.injected /\ d.mark = drill.mark
  BY <1>2, DrillKnown DEF DrillTyped
<1>5. LiveIs("live", d, proofJob, past)
  BY <1>1, <1>3, <1>4, LiveKnown DEF LiveIs
<1> QED BY <1>1, <1>2, <1>3, <1>4, <1>5, DrillKnown, OneDrill, DrillActs
LEMMA LiveKillsKeeps == ASSUME DrillInv, LiveKills PROVE DrillInv'
<1>1. PICK worker : proofJob' = [proofJob EXCEPT !.worker = worker]
  BY DEF LiveKills
<1>2. PICK d, j : d = [drill EXCEPT !.pc = "mark"] /\ j = [proofJob EXCEPT !.worker = worker]
  OBVIOUS
<1>3. PICK h : h = [past EXCEPT !.killed = TRUE, !.sequence = proofJob.sequence, !.verified = proofJob.verified]
  OBVIOUS
<1>4. session' = session /\ drill' = d /\ services' = services /\ proofJob' = j /\ past' = h /\ Current = "live"
      /\ drill.pc = "kill"
  BY <1>1, <1>2, <1>3 DEF LiveKills, DrillGoes, InDrill
<1>5. DrillTyped(d) /\ d.pc = "mark" /\ d.injected = drill.injected
  BY <1>2, DrillKnown DEF DrillTyped
<1>6. JobTyped(j) /\ j.sequence = proofJob.sequence
  BY <1>2, DrillKnown DEF JobTyped
<1>7. PastTyped(h) /\ h.killed /\ h.mark = past.mark /\ h.sequence = proofJob.sequence /\ h.verified = proofJob.verified
  BY <1>3, <1>4, LiveKnown, DrillKnown DEF PastTyped
<1>8. LiveIs("live", d, j, h)
  BY <1>4, <1>5, <1>6, <1>7, LiveKnown DEF LiveIs
<1>9. Numbered(services, j) /\ LostIsGone(Current, services, h)
  BY <1>6, <1>7, DrillKnown DEF Numbered, LostIsGone
<1> QED BY <1>4, <1>5, <1>6, <1>7, <1>8, <1>9, DrillKnown, OneDrill, DrillActs
LEMMA LiveMarksKeeps == ASSUME DrillInv, LiveMarks PROVE DrillInv'
<1>1. PICK d : d = [drill EXCEPT !.pc = "watch", !.mark = proofJob.sequence, !.injected = TRUE]
  OBVIOUS
<1>2. session' = session /\ drill' = d /\ services' = services /\ proofJob' = proofJob /\ past' = past /\ Current = "live"
      /\ drill.pc = "mark"
  BY <1>1 DEF LiveMarks, InDrill, InjectionSequence
<1>3. DrillTyped(d) /\ d.pc = "watch" /\ d.mark = proofJob.sequence
  BY <1>1, <1>2, LiveKnown, DrillKnown DEF DrillTyped
<1>4. LiveIs("live", d, proofJob, past)
  BY <1>2, <1>3, LiveKnown DEF LiveIs
<1> QED BY <1>2, <1>3, <1>4, DrillKnown, OneDrill, DrillActs
LEMMA LiveJudgesKeeps == ASSUME DrillInv, LiveJudges PROVE DrillInv'
<1>1. PICK events : events = services["redis"].held
  OBVIOUS
<1>2. PICK passed, so :
        /\ passed = (/\ drill.status = "succeeded" /\ proofJob.attempts > 0 /\ proofJob.verified
                     /\ proofJob.beats \intersect events # {}
                     /\ session.inject => drill.injected /\ \E n \in events : n > drill.mark)
        /\ so = (session.inject => past.killed /\ past.verified /\ proofJob.sequence > past.sequence)
  OBVIOUS
<1>3. Current = "live" /\ DrillJudged(passed, so)
  BY <1>1, <1>2 DEF LiveJudges, InDrill
<1>4. ASSUME session.inject, drill.injected, NEW n \in events, n > drill.mark
      PROVE  past.killed /\ past.verified /\ proofJob.sequence > past.sequence
  <2>1. past.killed /\ past.verified /\ past.sequence <= drill.mark
    BY <1>3, <1>4, LiveKnown DEF LiveIs
  <2>2. n \in 0..proofJob.sequence
    BY <1>1, DrillKnown DEF Numbered
  <2> QED BY <1>3, <1>4, <2>1, <2>2, LiveKnown
<1>5. passed => (session.inject => drill.injected /\ \E n \in events : n > drill.mark)
  BY <1>2, Zenon
<1>6. passed => (session.inject => past.killed /\ past.verified /\ proofJob.sequence > past.sequence)
  BY <1>4, <1>5
<1>7. passed => so
  BY <1>2, <1>6, Zenon
<1> QED BY <1>3, <1>7, DrillIsJudged

LEMMA DrillsBegin == DrillsInit => DrillInv
<1> SUFFICES ASSUME DrillsInit PROVE DrillInv
  OBVIOUS
<1>1. DOMAIN session = {"left", "inject", "results", "report"} /\ session.results = <<>> /\ session.report = "none"
  BY DEF DrillsInit
<1>2. ReportsSound
  <2>1. <<>> \in Seq({})
    OBVIOUS
  <2> QED BY <1>1, <2>1 DEF ReportsSound
<1>3. PICK v : v = Empty
  OBVIOUS
<1>4. ServicesTyped(v) /\ \A s \in Services : v[s].held = {} /\ v[s].kept = {}
  BY <1>3 DEF Empty, ServicesTyped
<1>5. DrillIs(Current, NoDrill, v, NoProofJob, NoPast)
  BY <1>4, NothingDone, DrillStarts
<1> QED BY <1>2, <1>3, <1>5 DEF DrillInv, DrillsInit
LEMMA DrillsStep == DrillInv /\ [DrillsNext]_drillVars => DrillInv'
<1> SUFFICES ASSUME DrillInv, [DrillsNext]_drillVars PROVE DrillInv'
  OBVIOUS
<1>1. CASE UNCHANGED drillVars
  <2>1. UNCHANGED <<session, drill, services, proofJob, past>>
    BY <1>1 DEF drillVars
  <2> QED BY <2>1, DrillStep DEF DrillInv
<1>2. CASE DrillRaises \/ Probes \/ BuildReport \/ \E s \in Services : PutsOnDisk(s) \/ GoesDown(s) \/ ComesBack(s)
  BY <1>2, RaisingKeeps, ProbesKeep, ReportKeeps, DiskKeeps, DownKeeps, BackKeeps
<1>3. CASE \/ CreateProofJob \/ ClaimProofJob \/ LifecycleIngests \/ LifecycleReplays \/ LifecycleCancels \/ LifecycleCounts
           \/ StressIngests \/ StressJudges
  BY <1>3, CreateKeeps, ClaimKeeps, LifecycleIngestsKeep, LifecycleCancelsKeeps, LifecycleCountsKeeps, StressIngestsKeeps,
     StressJudgesKeeps
<1>4. CASE SoakBegins \/ SoakAsks \/ SoakSleeps \/ SoakJudges
  BY <1>4, SoakBeginsKeeps, SoakAsksKeeps, SoakSleepsKeeps, SoakJudgesKeeps
<1>5. CASE DockerBegins \/ DockerWrites \/ DockerRestarts \/ DockerFinds \/ DockerJudges
  BY <1>5, DockerBeginsKeeps, DockerWritesKeeps, DockerRestartsKeeps, DockerFindsKeeps, DockerJudgesKeeps
<1>6. CASE KubernetesIngests \/ KubernetesStores \/ KubernetesRestarts \/ KubernetesReads \/ KubernetesJudges
  BY <1>6, KubernetesIngestsKeeps, KubernetesStoresKeeps, KubernetesRestartsKeeps, KubernetesReadsKeeps, KubernetesJudgesKeeps
<1>7. CASE WorkerMoves \/ WorkerPosts \/ WorkerCommits \/ ControllerReconciles \/ LossReconciles \/ LossKills \/ LossJudges
  BY <1>7, WorkerMovesKeeps, WorkerPostsKeeps, WorkerCommitsKeeps, ControllerKeeps, LossReconcilesKeeps, LossKillsKeeps,
     LossJudgesKeeps
<1>8. CASE LiveReconciles \/ LiveLooks \/ LiveKills \/ LiveMarks \/ LiveJudges
  BY <1>8, LiveReconcilesKeeps, LiveLooksKeeps, LiveKillsKeeps, LiveMarksKeeps, LiveJudgesKeeps
<1> QED BY <1>1, <1>2, <1>3, <1>4, <1>5, <1>6, <1>7, <1>8 DEF DrillsNext
(* What a report of drills says passed was so (training_proofs.py), for any        *)
(* sessions, workloads, batches, cycles and numbers of outages.                     *)
THEOREM DrillsProveWhatTheySay == DrillsSpec => []ProvenIsSo
<1>1. DrillInv => ProvenIsSo
  <2> SUFFICES ASSUME DrillInv PROVE ProvenIsSo
    OBVIOUS
  <2>1. PICK S : session.results \in Seq(S) /\ \A r \in S : ResultSound(r)
    BY DEF DrillInv, ReportsSound
  <2>2. \A k \in DOMAIN session.results : ResultSound(session.results[k])
    BY <2>1
  <2> QED BY <2>2 DEF DrillInv, ReportsSound, ProvenIsSo, ResultSound
<1> QED BY <1>1, DrillsBegin, DrillsStep, PTL DEF DrillsSpec

------------------------------------------------------------------------------
(* The pretraining loop.                                                     *)

(* The stream of micro-batches: a position after k of them, from a base.           *)
Streams(n, s, f) == f = [k \in 0..n |-> IF k = 0 THEN s ELSE Advanced(f[k - 1])]
Position(r, base, k) ==
    /\ DOMAIN r = {"epoch", "offset", "read"}
    /\ r.epoch \in Nat /\ r.offset \in 0..PerEpoch /\ r.epoch * PerEpoch + r.offset = base + k
    /\ r.read = [i \in 1..k |-> base + i]

LEMMA StreamExists ==
    ASSUME NEW n \in Nat, NEW s
    PROVE  \E f : Streams(n, s, f)
<1>1. PICK T : T = {k \in Nat : ~ \E f : Streams(k, s, f)}
  OBVIOUS
<1>2. T = {}
  <2> SUFFICES ASSUME T # {} PROVE FALSE
    OBVIOUS
  <2>1. PICK k \in T : \A m \in T : k <= m
    BY <1>1, LeastNat
  <2>2. k \in Nat /\ ~ \E f : Streams(k, s, f)
    BY <1>1
  <2>3. CASE k = 0
    <3>1. PICK f : f = [j \in 0..0 |-> s]
      OBVIOUS
    <3>2. f = [j \in 0..0 |-> IF j = 0 THEN s ELSE Advanced(f[j - 1])]
      BY <3>1
    <3> QED BY <2>2, <2>3, <3>2 DEF Streams
  <2>4. CASE k # 0
    <3>1. k - 1 \in Nat /\ k - 1 \notin T
      BY <2>1, <2>2, <2>4
    <3>2. PICK f : Streams(k - 1, s, f)
      BY <1>1, <3>1
    <3>3. f = [j \in 0..(k - 1) |-> IF j = 0 THEN s ELSE Advanced(f[j - 1])]
      BY <3>2 DEF Streams
    <3>4. PICK last : last = Advanced(f[k - 1])
      OBVIOUS
    <3>5. PICK g : g = [j \in 0..k |-> IF j = k THEN last ELSE f[j]]
      OBVIOUS
    <3>6. \A j \in 0..k : j # 0 => j - 1 \in 0..k /\ j - 1 # k /\ g[j - 1] = f[j - 1]
      BY <2>2, <3>5
    <3>7. \A j \in 0..k : g[j] = IF j = 0 THEN s ELSE Advanced(g[j - 1])
      <4> SUFFICES ASSUME NEW j \in 0..k PROVE g[j] = IF j = 0 THEN s ELSE Advanced(g[j - 1])
        OBVIOUS
      <4>1. CASE j = k
        <5>1. g[j] = last /\ g[j - 1] = f[k - 1] /\ j # 0
          BY <2>4, <3>5, <3>6, <4>1
        <5> QED BY <3>4, <5>1
      <4>2. CASE j # k
        <5>1. j \in 0..(k - 1) /\ g[j] = f[j]
          BY <2>2, <3>5, <4>2
        <5>2. f[j] = IF j = 0 THEN s ELSE Advanced(f[j - 1])
          BY <3>3, <5>1
        <5>3. j # 0 => g[j - 1] = f[j - 1]
          BY <3>6
        <5> QED BY <5>1, <5>2, <5>3
      <4> QED BY <4>1, <4>2
    <3>8. g = [j \in 0..k |-> IF j = 0 THEN s ELSE Advanced(g[j - 1])]
      <4>1. g = [j \in 0..k |-> g[j]]
        BY <3>5
      <4> QED BY <3>7, <4>1
    <3> QED BY <2>2, <3>8 DEF Streams
  <2> QED BY <2>3, <2>4
<1> QED BY <1>1, <1>2

LEMMA OneBatch ==
    ASSUME NEW c, NEW base \in Nat, NEW k \in Nat, Position(c, base, k)
    PROVE  Position(Advanced(c), base, k + 1)
<1>1. PICK per \in Nat \ {0} : per = PerEpoch
  BY PretrainingAssumption
<1>2. c.epoch \in Nat /\ c.offset \in 0..per /\ c.epoch * per + c.offset = base + k /\ c.read = [i \in 1..k |-> base + i]
  BY <1>1 DEF Position
<1>3. PICK b \in Nat : b = base + k + 1
  OBVIOUS
<1>4. PICK more : more = Append(c.read, b)
  OBVIOUS
<1>5. more = [i \in 1..(k + 1) |-> base + i]
  <2>1. c.read \in Seq(Nat) /\ Len(c.read) = k
    BY <1>2
  <2>2. more \in Seq(Nat) /\ Len(more) = k + 1 /\ \A i \in 1..(k + 1) : more[i] = IF i = k + 1 THEN b ELSE c.read[i]
    BY <1>4, <2>1
  <2>3. \A i \in 1..(k + 1) : more[i] = base + i
    <3> SUFFICES ASSUME NEW i \in 1..(k + 1) PROVE more[i] = base + i
      OBVIOUS
    <3>1. CASE i = k + 1
      BY <1>3, <2>2, <3>1
    <3>2. CASE i # k + 1
      <4>1. i \in 1..k
        BY <3>2
      <4>2. c.read[i] = base + i
        BY <1>2, <4>1
      <4> QED BY <2>2, <3>2, <4>2
    <3> QED BY <3>1, <3>2
  <2>4. DOMAIN more = 1..(k + 1)
    BY <2>2
  <2> QED BY <2>2, <2>3, <2>4
<1>6. CASE c.offset < per
  <2>1. BatchAt(c.epoch, c.offset) = b
    BY <1>1, <1>2, <1>3 DEF BatchAt
  <2>2. Advanced(c) = [c EXCEPT !.offset = c.offset + 1, !.read = more]
    BY <1>1, <1>4, <1>6, <2>1 DEF Advanced
  <2>3. PICK d : d = Advanced(c)
    OBVIOUS
  <2>4. DOMAIN d = {"epoch", "offset", "read"} /\ d.epoch = c.epoch /\ d.offset = c.offset + 1 /\ d.read = more
    BY <2>2, <2>3 DEF Position
  <2>5. c.offset + 1 \in 0..per /\ c.epoch * per + (c.offset + 1) = base + (k + 1)
    <3>1. PICK product \in Nat : product = c.epoch * per
      BY <1>2
    <3>2. c.offset \in Int /\ product + c.offset = base + k
      BY <1>2, <3>1
    <3>3. c.offset + 1 \in 0..per
      BY <1>2, <1>6
    <3>4. product + (c.offset + 1) = base + (k + 1)
      BY <3>2
    <3> QED BY <3>1, <3>3, <3>4
  <2> QED BY <1>1, <1>2, <1>5, <2>3, <2>4, <2>5 DEF Position
<1>7. CASE ~(c.offset < per)
  <2>1. c.offset = per
    BY <1>2, <1>7
  <2>2. (c.epoch + 1) * per = c.epoch * per + per
    BY <1>2
  <2>3. BatchAt(c.epoch + 1, 0) = b
    BY <1>1, <1>2, <1>3, <2>1, <2>2 DEF BatchAt
  <2>4. Advanced(c) = [epoch |-> c.epoch + 1, offset |-> 1, read |-> more]
    BY <1>1, <1>4, <1>7, <2>3 DEF Advanced
  <2>5. (c.epoch + 1) * per + 1 = base + (k + 1)
    BY <1>2, <2>1, <2>2
  <2> QED BY <1>1, <1>2, <1>5, <2>4, <2>5 DEF Position
<1> QED BY <1>6, <1>7

LEMMA StreamInOrder ==
    ASSUME NEW n \in Nat, NEW base \in Nat, NEW s, Position(s, base, 0), NEW f, Streams(n, s, f)
    PROVE  Position(f[n], base, n)
<1>1. f = [k \in 0..n |-> IF k = 0 THEN s ELSE Advanced(f[k - 1])]
  BY DEF Streams
<1>2. PICK T : T = {k \in 0..n : ~Position(f[k], base, k)}
  OBVIOUS
<1>3. T = {}
  <2> SUFFICES ASSUME T # {} PROVE FALSE
    OBVIOUS
  <2>1. T \subseteq Nat
    BY <1>2
  <2>2. PICK k \in T : \A m \in T : k <= m
    BY <2>1, LeastNat
  <2>3. k \in 0..n /\ ~Position(f[k], base, k)
    BY <1>2
  <2>4. k # 0
    BY <1>1, <2>3
  <2>5. k - 1 \in Nat /\ k - 1 \in 0..n /\ k - 1 \notin T /\ k = (k - 1) + 1
    BY <2>2, <2>3, <2>4
  <2>6. Position(f[k - 1], base, k - 1)
    BY <1>2, <2>5
  <2>7. Position(Advanced(f[k - 1]), base, k)
    BY <2>5, <2>6, OneBatch
  <2> QED BY <1>1, <2>3, <2>4, <2>7
<1> QED BY <1>2, <1>3

LEMMA ReadIs ==
    ASSUME trainer.accumulation \in Nat, trainer.epoch \in Nat, trainer.offset \in 0..PerEpoch,
           NEW base \in Nat, base = trainer.epoch * PerEpoch + trainer.offset
    PROVE  Position(Read, base, trainer.accumulation)
<1>1. PICK n, s : n \in Nat /\ n = trainer.accumulation /\ s = [epoch |-> trainer.epoch, offset |-> trainer.offset, read |-> <<>>]
  OBVIOUS
<1>2. PICK f : f = CHOOSE g : g = [k \in 0..n |-> IF k = 0 THEN s ELSE Advanced(g[k - 1])]
  OBVIOUS
<1>3. Read = f[n]
  BY <1>1, <1>2, Zenon DEF Read
<1>4. Streams(n, s, f)
  <2>1. PICK h : Streams(n, s, h)
    BY <1>1, StreamExists
  <2>2. h = [k \in 0..n |-> IF k = 0 THEN s ELSE Advanced(h[k - 1])]
    BY <2>1 DEF Streams
  <2> QED BY <1>2, <2>2, Zenon DEF Streams
<1>5. Position(s, base, 0)
  <2>1. <<>> = [i \in 1..0 |-> base + i]
    OBVIOUS
  <2> QED BY <1>1, <2>1 DEF Position
<1> QED BY <1>1, <1>3, <1>4, <1>5, StreamInOrder
(* A run of the loop: its locals t, the directories dir, the manifests man.          *)
SavePlaces == {"write", "written", "manifest", "prune"}
InTraining(t) == t.at \notin {"down", "done"}
AmidSave(t, reasons) == t.at \in SavePlaces /\ t.save \in reasons
TrainerShape(t) ==
    DOMAIN t = {"at", "accumulation", "step", "model", "epoch", "offset", "best", "selected", "idle", "loss", "save", "next"}
Trains(t) ==
    InTraining(t) =>
        /\ t.accumulation \in Accumulations /\ t.step \in 0..Steps /\ InOrder(t)
        /\ t.epoch \in Nat /\ t.offset \in 0..PerEpoch /\ t.epoch * PerEpoch + t.offset = t.step * t.accumulation
        /\ t.at = "train" => t.step < Steps
NextIs(t) ==
    t.at \in SavePlaces =>
        \/ t.save = "best" /\ t.next = "periodic"
        \/ t.save = "periodic" /\ ((t.next = "train" /\ t.step < Steps) \/ (t.next = "finish" /\ t.step = Steps))
        \/ t.save = "final" /\ t.next \in {"reload", "also best"}
        \/ t.save = "last resort" /\ t.next = "reload"
(* The loop has ended, or is about to be left with its final checkpoint sealed.     *)
Ended(t) ==
    t.at \in {"finish", "also best", "reload", "publish", "report"} \/ AmidSave(t, {"final", "last resort"}) =>
        t.step = Steps \/ Patience > 0
Sealed(t, man) ==
    \/ t.at \in {"also best", "reload", "publish", "report"}
    \/ AmidSave(t, {"last resort"})
    \/ t.at = "prune" /\ t.save = "final"
    => man["final"] # NoFile /\ man["final"].step = t.step
FileSound(c) ==
    /\ c.step \in 0..Steps /\ c.accumulation \in Accumulations /\ c.whole \in BOOLEAN
    /\ c.whole => InOrder(c)
FilesSound(dir, man, sh) ==
    /\ DOMAIN dir \subseteq 0..Steps /\ dir = [s \in DOMAIN dir |-> dir[s]]
    /\ \A s \in DOMAIN dir : FileSound(dir[s]) /\ dir[s].step = s /\ (sh => dir[s].whole)
    /\ man = [name \in {"final", "best"} |-> man[name]]
    /\ \A name \in {"final", "best"} : man[name] # NoFile => FileSound(man[name]) /\ man[name].whole
Beside(t, dir) ==
    /\ InTraining(t) => \A s \in DOMAIN dir : s <= t.step
    /\ t.at \in {"manifest", "prune"} => t.step \in DOMAIN dir /\ dir[t.step].whole
PretrainingIs(t, dir, man, pub, sh) ==
    /\ TrainerShape(t) /\ Trains(t) /\ NextIs(t) /\ Ended(t) /\ Sealed(t, man)
    /\ FilesSound(dir, man, sh) /\ Beside(t, dir)
    /\ t.at = "report" => man["final"] \in pub
PretrainingInv == PretrainingIs(trainer, directory, manifest, published, sharded) /\ ReportedIsTrained

LEMMA PretrainingIsPrimed ==
    ASSUME NEW t, NEW dir, NEW man, NEW pub, NEW sh,
           trainer' = t, directory' = dir, manifest' = man, published' = pub, sharded' = sh, PretrainingIs(t, dir, man, pub, sh)
    PROVE  PretrainingIs(trainer, directory, manifest, published, sharded)'
<1>1. TrainerShape(trainer)' /\ Trains(trainer)' /\ NextIs(trainer)'
  BY DEF PretrainingIs, TrainerShape, Trains, NextIs, InTraining, InOrder, SavePlaces
<1>2. Ended(trainer)' /\ Sealed(trainer, manifest)' /\ Beside(trainer, directory)'
  BY DEF PretrainingIs, Ended, Sealed, Beside, InTraining, AmidSave, NoFile, SavePlaces
<1>3. FilesSound(directory, manifest, sharded)'
  BY DEF PretrainingIs, FilesSound, FileSound, InOrder, NoFile
<1>4. (trainer.at = "report" => manifest["final"] \in published)'
  BY DEF PretrainingIs
<1> QED BY <1>1, <1>2, <1>3, <1>4 DEF PretrainingIs
LEMMA PretrainingStep ==
    ASSUME PretrainingInv, sharded' = sharded, report' = report, NEW t, NEW dir, NEW man, NEW pub,
           trainer' = t, directory' = dir, manifest' = man, published' = pub, published \subseteq pub,
           PretrainingIs(t, dir, man, pub, sharded)
    PROVE  PretrainingInv'
<1>1. ReportedIsTrained'
  BY DEF PretrainingInv, ReportedIsTrained, InOrder, NoFile
<1>2. PretrainingIs(trainer, directory, manifest, published, sharded)'
  BY PretrainingIsPrimed
<1> QED BY <1>1, <1>2 DEF PretrainingInv
LEMMA PretrainingKnown ==
    ASSUME PretrainingInv
    PROVE  /\ TrainerShape(trainer) /\ Trains(trainer) /\ NextIs(trainer) /\ Ended(trainer) /\ Sealed(trainer, manifest)
           /\ FilesSound(directory, manifest, sharded) /\ Beside(trainer, directory)
           /\ trainer.at = "report" => manifest["final"] \in published
BY DEF PretrainingInv, PretrainingIs

(* The process ends, and the files are sound.                                      *)
LEMMA ProcessEnds ==
    ASSUME PretrainingInv, sharded' = sharded, report' = report, manifest' = manifest, published' = published,
           NEW how \in {"down", "done"}, trainer' = Down(how), NEW dir, directory' = dir, FilesSound(dir, manifest, sharded)
    PROVE  PretrainingInv'
<1>1. PICK t : t = Down(how)
  OBVIOUS
<1>2. TrainerShape(t) /\ t.at = how
  BY <1>1 DEF TrainerShape, Down
<1>3. Trains(t) /\ NextIs(t) /\ Ended(t) /\ Sealed(t, manifest) /\ Beside(t, dir)
  BY <1>2 DEF Trains, NextIs, Ended, Sealed, Beside, InTraining, AmidSave, SavePlaces
<1>4. PretrainingIs(t, dir, manifest, published, sharded)
  BY <1>2, <1>3 DEF PretrainingIs
<1> QED BY <1>1, <1>4, PretrainingStep

(* A process that goes on with what it has trained.                                *)
LEMMA TrainingGoesOn ==
    ASSUME PretrainingInv, InTraining(trainer), NEW t, TrainerShape(t), InTraining(t), t.at = "train" => t.step < Steps,
           t.accumulation = trainer.accumulation, t.step = trainer.step, t.model = trainer.model,
           t.epoch = trainer.epoch, t.offset = trainer.offset
    PROVE  Trains(t)
BY PretrainingKnown DEF Trains, InOrder
LEMMA OnlyTheProcess ==
    ASSUME PretrainingInv, InTraining(trainer), sharded' = sharded, report' = report, UNCHANGED <<directory, manifest>>,
           NEW t, trainer' = t, TrainerShape(t), InTraining(t), t.at = "train" => t.step < Steps,
           t.accumulation = trainer.accumulation, t.step = trainer.step, t.model = trainer.model,
           t.epoch = trainer.epoch, t.offset = trainer.offset,
           NextIs(t), Ended(t), Sealed(t, manifest), t.at \notin {"manifest", "prune"},
           NEW pub, published' = pub, published \subseteq pub, t.at = "report" => manifest["final"] \in pub
    PROVE  PretrainingInv'
<1>1. Trains(t)
  BY TrainingGoesOn
<1>2. Beside(t, directory)
  BY PretrainingKnown DEF Beside
<1>3. FilesSound(directory, manifest, sharded)
  BY PretrainingKnown
<1>4. PretrainingIs(t, directory, manifest, pub, sharded)
  BY <1>1, <1>2, <1>3 DEF PretrainingIs
<1> QED BY <1>4, PretrainingStep
(* A launch, and the steps of the loop.                                            *)
LEMMA LatestIs ==
    ASSUME PretrainingInv, DOMAIN directory # {}
    PROVE  Latest \in DOMAIN directory /\ \A r \in DOMAIN directory : r <= Latest
<1>1. PICK T : T = DOMAIN directory
  OBVIOUS
<1>2. T \subseteq 0..Steps /\ T # {} /\ Steps \in Nat
  BY <1>1, PretrainingKnown, PretrainingAssumption DEF FilesSound
<1>3. \E m \in T : \A r \in T : r <= m
  BY <1>2, GreatestNat
<1>4. Latest = CHOOSE s \in T : \A r \in T : r <= s
  BY <1>1 DEF Latest
<1> QED BY <1>1, <1>3, <1>4
LEMMA CursorIs ==
    ASSUME NEW step \in Nat, NEW accumulation \in Nat
    PROVE  /\ Cursor(step, accumulation).epoch \in Nat /\ Cursor(step, accumulation).offset \in 0..PerEpoch
           /\ Cursor(step, accumulation).epoch * PerEpoch + Cursor(step, accumulation).offset = step * accumulation
<1>1. PICK n \in Nat : n = step * accumulation
  OBVIOUS
<1>2. PICK per \in Nat \ {0} : per = PerEpoch
  BY PretrainingAssumption
<1>3. n \div per \in Nat /\ n % per \in 0..(per - 1) /\ n = per * (n \div per) + (n % per)
  <2>1. ASSUME NEW a \in Nat, NEW b \in Nat \ {0} PROVE n \div b \in Nat
    BY <2>1, SMTT(30)
  <2>2. n % per \in 0..(per - 1)
    BY SMTT(30)
  <2>3. n = per * (n \div per) + (n % per)
    BY SMTT(30)
  <2> QED BY <2>1, <2>2, <2>3
<1>4. (n \div per) * per = per * (n \div per)
  BY <1>3
<1>5. Cursor(step, accumulation) = [epoch |-> n \div per, offset |-> n % per]
  BY <1>1, <1>2 DEF Cursor, Completed
<1>6. n % per \in 0..per
  BY <1>3
<1>7. (n \div per) * per + (n % per) = n
  BY <1>3, <1>4
<1> QED BY <1>1, <1>2, <1>3, <1>5, <1>6, <1>7
LEMMA StartIsSound ==
    ASSUME NEW c, NEW accumulation \in Accumulations, c.step \in 0..Steps, c.step < Steps,
           c.model = [i \in 1..(c.step * accumulation) |-> i], NEW t, t = Starts(c, accumulation)
    PROVE  /\ TrainerShape(t) /\ Trains(t) /\ t.at = "train" /\ t.step = c.step
<1>1. accumulation \in Nat /\ c.step \in Nat
  BY PretrainingAssumption
<1>2. PICK u : u = Cursor(c.step, accumulation)
  OBVIOUS
<1>3. u.epoch \in Nat /\ u.offset \in 0..PerEpoch /\ u.epoch * PerEpoch + u.offset = c.step * accumulation
  BY <1>1, <1>2, CursorIs
<1>4. t = [Down("train") EXCEPT !.accumulation = accumulation, !.step = c.step, !.model = c.model, !.epoch = u.epoch,
                                !.offset = u.offset]
  BY <1>2 DEF Starts
<1>5. TrainerShape(t) /\ t.at = "train" /\ t.accumulation = accumulation /\ t.step = c.step /\ t.model = c.model
      /\ t.epoch = u.epoch /\ t.offset = u.offset
  BY <1>4 DEF Down, TrainerShape
<1> QED BY <1>3, <1>5 DEF Trains, InOrder
LEMMA LaunchKeeps == ASSUME PretrainingInv, Launch PROVE PretrainingInv'
<1>1. PICK accumulation, c :
        /\ accumulation \in Accumulations
        /\ trainer' = Starts(c, accumulation)
        /\ c.step \in 0..Steps /\ c.step < Steps /\ c.model = [i \in 1..(c.step * accumulation) |-> i]
        /\ \A s \in DOMAIN directory : s <= c.step
  <2>1. PICK accumulation \in Accumulations :
          IF DOMAIN directory = {}
          THEN Trainer(Starts(Scratch, accumulation))
          ELSE Loadable(directory[Latest], accumulation) /\ Latest < Steps /\ Trainer(Starts(directory[Latest], accumulation))
    BY DEF Launch
  <2>2. accumulation \in Nat /\ Steps \in Nat \ {0}
    BY PretrainingAssumption
  <2>3. CASE DOMAIN directory = {}
    <3>1. trainer' = Starts(Scratch, accumulation)
      BY <2>1, <2>3 DEF Trainer
    <3>2. Scratch.step = 0 /\ Scratch.model = <<>> /\ 0 * accumulation = 0
      BY <2>2 DEF Scratch
    <3>3. <<>> = [i \in 1..0 |-> i]
      OBVIOUS
    <3> QED BY <2>2, <2>3, <3>1, <3>2, <3>3
  <2>4. CASE DOMAIN directory # {}
    <3>1. PICK c : c = directory[Latest]
      OBVIOUS
    <3>2. trainer' = Starts(c, accumulation) /\ c.whole /\ c.accumulation = accumulation /\ Latest < Steps
      BY <2>1, <2>4, <3>1 DEF Trainer, Loadable
    <3>3. Latest \in DOMAIN directory /\ \A r \in DOMAIN directory : r <= Latest
      BY <2>4, LatestIs
    <3>4. FileSound(c) /\ c.step = Latest
      BY <3>1, <3>3, PretrainingKnown DEF FilesSound
    <3> QED BY <3>2, <3>3, <3>4 DEF FileSound, InOrder
  <2> QED BY <2>3, <2>4
<1>2. PICK t : t = Starts(c, accumulation)
  OBVIOUS
<1>3. TrainerShape(t) /\ Trains(t) /\ t.at = "train" /\ t.step = c.step
  BY <1>1, <1>2, StartIsSound
<1>4. NextIs(t) /\ Ended(t) /\ Sealed(t, manifest) /\ Beside(t, directory)
  BY <1>1, <1>3 DEF NextIs, Ended, Sealed, Beside, AmidSave, SavePlaces
<1>5. PretrainingIs(t, directory, manifest, published, sharded)
  BY <1>3, <1>4, PretrainingKnown DEF PretrainingIs
<1> QED BY <1>1, <1>2, <1>5, PretrainingStep DEF Launch

LEMMA NextStepOfSteps ==
    ASSUME NEW step \in Nat, NEW accumulation \in Nat
    PROVE  (step + 1) * accumulation = step * accumulation + accumulation
OBVIOUS
LEMMA StreamsJoin ==
    ASSUME NEW n \in Nat, NEW m \in Nat, NEW x, x = [i \in 1..n |-> i], NEW y, y = [i \in 1..m |-> n + i]
    PROVE  x \o y = [i \in 1..(n + m) |-> i]
<1>1. x \in Seq(Nat) /\ Len(x) = n /\ y \in Seq(Nat) /\ Len(y) = m
  OBVIOUS
<1>2. PICK z : z = x \o y
  OBVIOUS
<1>3. z \in Seq(Nat) /\ Len(z) = n + m /\ \A i \in 1..(n + m) : z[i] = IF i <= n THEN x[i] ELSE y[i - n]
  BY <1>1, <1>2
<1>4. ASSUME NEW i \in 1..(n + m) PROVE z[i] = i
  <2>1. CASE i <= n
    <3>1. i \in 1..n
      BY <2>1
    <3> QED BY <1>3, <2>1, <3>1
  <2>2. CASE ~(i <= n)
    <3>1. i - n \in 1..m /\ n + (i - n) = i
      BY <2>2
    <3>2. y[i - n] = n + (i - n)
      BY <3>1
    <3> QED BY <1>3, <2>2, <3>1, <3>2
  <2> QED BY <2>1, <2>2
<1>5. DOMAIN z = 1..(n + m)
  BY <1>3
<1> QED BY <1>2, <1>3, <1>4, <1>5
LEMMA TrainKeeps == ASSUME PretrainingInv, TrainStep PROVE PretrainingInv'
<1>1. trainer.at = "train" /\ InTraining(trainer)
  BY DEF TrainStep, InTraining
<1>2. /\ trainer.accumulation \in Accumulations /\ trainer.step \in 0..Steps /\ trainer.step < Steps /\ InOrder(trainer)
      /\ trainer.epoch \in Nat /\ trainer.offset \in 0..PerEpoch
      /\ trainer.epoch * PerEpoch + trainer.offset = trainer.step * trainer.accumulation
  BY <1>1, PretrainingKnown DEF Trains
<1>3. PICK acc \in Nat : acc = trainer.accumulation
  BY <1>2, PretrainingAssumption
<1>4. PICK k \in Nat : k = trainer.step
  BY <1>2
<1>5. PICK base \in Nat : base = k * acc
  OBVIOUS
<1>6. Position(Read, base, acc)
  BY <1>2, <1>3, <1>4, <1>5, ReadIs
<1>7. PICK r : r = Read
  OBVIOUS
<1>8. r.epoch \in Nat /\ r.offset \in 0..PerEpoch /\ r.epoch * PerEpoch + r.offset = base + acc
      /\ r.read = [i \in 1..acc |-> base + i]
  BY <1>6, <1>7 DEF Position
<1>9. PICK model : model = trainer.model \o r.read
  OBVIOUS
<1>10. trainer.model = [i \in 1..base |-> i]
  BY <1>2, <1>3, <1>4, <1>5 DEF InOrder
<1>11. model = [i \in 1..(base + acc) |-> i]
  BY <1>8, <1>9, <1>10, StreamsJoin
<1>12. (k + 1) * acc = base + acc
  BY <1>5, NextStepOfSteps
<1>13. PICK t : t = [trainer EXCEPT !.step = k + 1, !.model = model, !.epoch = r.epoch, !.offset = r.offset, !.at = "validate"]
  OBVIOUS
<1>14. trainer' = t
  BY <1>4, <1>7, <1>9, <1>13 DEF TrainStep, Trainer
<1>15. TrainerShape(t) /\ t.at = "validate" /\ t.accumulation = acc /\ t.step = k + 1 /\ t.model = model
       /\ t.epoch = r.epoch /\ t.offset = r.offset
  BY <1>3, <1>13, PretrainingKnown DEF TrainerShape
<1>16. k + 1 \in 0..Steps
  BY <1>2, <1>4, PretrainingAssumption
<1>17. Trains(t)
  BY <1>2, <1>3, <1>8, <1>11, <1>12, <1>15, <1>16 DEF Trains, InOrder
<1>18. Beside(t, directory)
  <2>1. \A s \in DOMAIN directory : s \in Nat /\ s <= k
    BY <1>1, <1>4, PretrainingKnown DEF Beside, FilesSound
  <2> QED BY <1>4, <1>15, <2>1 DEF Beside
<1>19. NextIs(t) /\ Ended(t) /\ Sealed(t, manifest)
  BY <1>15 DEF NextIs, Ended, Sealed, AmidSave, SavePlaces
<1>20. PretrainingIs(t, directory, manifest, published, sharded)
  BY <1>15, <1>17, <1>18, <1>19, PretrainingKnown DEF PretrainingIs
<1> QED BY <1>14, <1>20, PretrainingStep DEF TrainStep
(* Validation and saves.                                                           *)
LEMMA ValidateKeeps == ASSUME PretrainingInv, Validate PROVE PretrainingInv'
<1>1. trainer.at = "validate" /\ InTraining(trainer) /\ UNCHANGED <<sharded, directory, manifest, report, published>>
  BY DEF Validate, InTraining
<1>2. CASE trainer.step % ValidateEvery # 0
  <2>1. PICK t : t = [trainer EXCEPT !.at = "periodic"]
    OBVIOUS
  <2>2. trainer' = t
    BY <1>2, <2>1 DEF Validate, Reaches, Trainer
  <2>3. TrainerShape(t) /\ t.at = "periodic" /\ t.accumulation = trainer.accumulation /\ t.step = trainer.step
        /\ t.model = trainer.model /\ t.epoch = trainer.epoch /\ t.offset = trainer.offset
    BY <2>1, PretrainingKnown DEF TrainerShape
  <2>4. InTraining(t) /\ NextIs(t) /\ Ended(t) /\ Sealed(t, manifest)
    BY <2>3 DEF InTraining, NextIs, Ended, Sealed, AmidSave, SavePlaces
  <2> QED BY <1>1, <2>2, <2>3, <2>4, OnlyTheProcess
<1>3. ASSUME NEW loss \in Losses, loss < trainer.best,
             Trainer([Saves("best", "periodic") EXCEPT !.loss = loss, !.best = loss, !.idle = 0])
      PROVE  PretrainingInv'
  <2>1. PICK t : t = [trainer EXCEPT !.at = "write", !.save = "best", !.next = "periodic", !.loss = loss, !.best = loss, !.idle = 0]
    OBVIOUS
  <2>2. trainer' = t
    BY <1>3, <2>1 DEF Trainer, Saves
  <2>3. TrainerShape(t) /\ t.at = "write" /\ t.accumulation = trainer.accumulation /\ t.step = trainer.step
        /\ t.model = trainer.model /\ t.epoch = trainer.epoch /\ t.offset = trainer.offset
        /\ t.save = "best" /\ t.next = "periodic"
    BY <2>1, PretrainingKnown DEF TrainerShape
  <2>4. InTraining(t) /\ NextIs(t) /\ Ended(t) /\ Sealed(t, manifest)
    BY <2>3 DEF InTraining, NextIs, Ended, Sealed, AmidSave, SavePlaces
  <2> QED BY <1>1, <2>2, <2>3, <2>4, OnlyTheProcess
<1>4. ASSUME NEW loss \in Losses,
             Trainer([trainer EXCEPT !.loss = loss, !.idle = @ + 1,
                                     !.at = IF StopsEarly(trainer.idle + 1) THEN "finish" ELSE "periodic"])
      PROVE  PretrainingInv'
  <2>1. PICK place \in {"finish", "periodic"} : /\ place = IF StopsEarly(trainer.idle + 1) THEN "finish" ELSE "periodic"
                                                /\ place = "finish" => Patience > 0
    BY DEF StopsEarly
  <2>2. PICK t : t = [trainer EXCEPT !.loss = loss, !.idle = @ + 1, !.at = place]
    OBVIOUS
  <2>3. trainer' = t
    BY <1>4, <2>1, <2>2 DEF Trainer
  <2>4. TrainerShape(t) /\ t.at = place /\ t.accumulation = trainer.accumulation /\ t.step = trainer.step
        /\ t.model = trainer.model /\ t.epoch = trainer.epoch /\ t.offset = trainer.offset
    BY <2>2, PretrainingKnown DEF TrainerShape
  <2>5. InTraining(t) /\ NextIs(t) /\ Ended(t) /\ Sealed(t, manifest)
    BY <2>1, <2>4 DEF InTraining, NextIs, Ended, Sealed, AmidSave, SavePlaces
  <2> QED BY <1>1, <2>1, <2>3, <2>4, <2>5, OnlyTheProcess
<1> QED BY <1>2, <1>3, <1>4 DEF Validate
(* The process begins to save, for a reason and with what comes next.               *)
LEMMA SavingBegins ==
    ASSUME PretrainingInv, InTraining(trainer), UNCHANGED <<sharded, directory, manifest, report, published>>,
           NEW t, trainer' = t, TrainerShape(t), t.at = "write", t.accumulation = trainer.accumulation, t.step = trainer.step,
           t.model = trainer.model, t.epoch = trainer.epoch, t.offset = trainer.offset,
           NextIs(t), Ended(t), Sealed(t, manifest)
    PROVE  PretrainingInv'
<1>1. InTraining(t) /\ t.at # "train" /\ t.at \notin {"manifest", "prune"} /\ t.at # "report"
  BY DEF InTraining
<1> QED BY <1>1, OnlyTheProcess
LEMMA PeriodicKeeps == ASSUME PretrainingInv, Periodic PROVE PretrainingInv'
<1>1. trainer.at = "periodic" /\ InTraining(trainer) /\ UNCHANGED <<sharded, directory, manifest, report, published>>
  BY DEF Periodic, InTraining
<1>2. PICK goal : goal = EndOfLoop
  OBVIOUS
<1>3. (goal = "train" /\ trainer.step < Steps) \/ (goal = "finish" /\ trainer.step = Steps)
  <2>1. trainer.step \in 0..Steps
    BY <1>1, PretrainingKnown DEF Trains
  <2> QED BY <1>2, <2>1, PretrainingAssumption DEF EndOfLoop
<1>4. CASE trainer.step % CheckpointEvery = 0
  <2>1. PICK t : t = [trainer EXCEPT !.at = "write", !.save = "periodic", !.next = goal]
    OBVIOUS
  <2>2. trainer' = t
    BY <1>2, <1>4, <2>1 DEF Periodic, Trainer, Saves
  <2>3. TrainerShape(t) /\ t.at = "write" /\ t.accumulation = trainer.accumulation /\ t.step = trainer.step
        /\ t.model = trainer.model /\ t.epoch = trainer.epoch /\ t.offset = trainer.offset
        /\ t.save = "periodic" /\ t.next = goal
    BY <2>1, PretrainingKnown DEF TrainerShape
  <2>4. NextIs(t) /\ Ended(t) /\ Sealed(t, manifest)
    BY <1>3, <2>3 DEF NextIs, Ended, Sealed, AmidSave, SavePlaces
  <2> QED BY <1>1, <2>2, <2>3, <2>4, SavingBegins
<1>5. CASE trainer.step % CheckpointEvery # 0
  <2>1. PICK t : t = [trainer EXCEPT !.at = goal]
    OBVIOUS
  <2>2. trainer' = t
    BY <1>2, <1>5, <2>1 DEF Periodic, Trainer, Reaches
  <2>3. TrainerShape(t) /\ t.at = goal /\ t.accumulation = trainer.accumulation /\ t.step = trainer.step
        /\ t.model = trainer.model /\ t.epoch = trainer.epoch /\ t.offset = trainer.offset
    BY <2>1, PretrainingKnown DEF TrainerShape
  <2>4. InTraining(t) /\ NextIs(t) /\ Ended(t) /\ Sealed(t, manifest)
    BY <1>3, <2>3 DEF InTraining, NextIs, Ended, Sealed, AmidSave, SavePlaces
  <2> QED BY <1>1, <1>3, <2>2, <2>3, <2>4, OnlyTheProcess
<1> QED BY <1>4, <1>5
LEMMA FinishKeeps == ASSUME PretrainingInv, Finish PROVE PretrainingInv'
<1>1. trainer.at = "finish" /\ InTraining(trainer) /\ UNCHANGED <<sharded, directory, manifest, report, published>>
  BY DEF Finish, InTraining
<1>2. PICK goal \in {"reload", "also best"} : goal = IF trainer.selected THEN "reload" ELSE "also best"
  OBVIOUS
<1>3. PICK t : t = [trainer EXCEPT !.at = "write", !.save = "final", !.next = goal]
  OBVIOUS
<1>4. trainer' = t
  BY <1>2, <1>3 DEF Finish, Trainer, Saves
<1>5. TrainerShape(t) /\ t.at = "write" /\ t.accumulation = trainer.accumulation /\ t.step = trainer.step
      /\ t.model = trainer.model /\ t.epoch = trainer.epoch /\ t.offset = trainer.offset
      /\ t.save = "final" /\ t.next = goal
  BY <1>3, PretrainingKnown DEF TrainerShape
<1>6. trainer.step = Steps \/ Patience > 0
  BY <1>1, PretrainingKnown DEF Ended
<1>7. NextIs(t) /\ Ended(t) /\ Sealed(t, manifest)
  BY <1>5, <1>6 DEF NextIs, Ended, Sealed, AmidSave, SavePlaces
<1> QED BY <1>1, <1>4, <1>5, <1>7, SavingBegins
LEMMA AlsoBestKeeps == ASSUME PretrainingInv, AlsoBest PROVE PretrainingInv'
<1>1. trainer.at = "also best" /\ InTraining(trainer) /\ UNCHANGED <<sharded, directory, manifest, report, published>>
  BY DEF AlsoBest, InTraining
<1>2. PICK t : t = [trainer EXCEPT !.at = "write", !.save = "last resort", !.next = "reload", !.best = trainer.loss]
  OBVIOUS
<1>3. trainer' = t
  BY <1>2 DEF AlsoBest, Trainer, Saves
<1>4. TrainerShape(t) /\ t.at = "write" /\ t.accumulation = trainer.accumulation /\ t.step = trainer.step
      /\ t.model = trainer.model /\ t.epoch = trainer.epoch /\ t.offset = trainer.offset
      /\ t.save = "last resort" /\ t.next = "reload"
  BY <1>2, PretrainingKnown DEF TrainerShape
<1>5. (trainer.step = Steps \/ Patience > 0) /\ manifest["final"] # NoFile /\ manifest["final"].step = trainer.step
  BY <1>1, PretrainingKnown DEF Ended, Sealed
<1>6. NextIs(t) /\ Ended(t) /\ Sealed(t, manifest)
  BY <1>4, <1>5 DEF NextIs, Ended, Sealed, AmidSave, SavePlaces
<1> QED BY <1>1, <1>3, <1>4, <1>6, SavingBegins
(* Writing a checkpoint: what the file holds, and the directories with or without it. *)
LEMMA ContentIs ==
    ASSUME PretrainingInv, InTraining(trainer)
    PROVE  /\ FileSound(Content) /\ Content.whole = TRUE /\ Content.step = trainer.step
           /\ FileSound(Torn) /\ Torn.step = trainer.step /\ Content # NoFile
<1>1. trainer.accumulation \in Accumulations /\ trainer.step \in 0..Steps /\ InOrder(trainer)
  BY PretrainingKnown DEF Trains
<1>2. PICK metrics : metrics = Metrics
  OBVIOUS
<1>3. Content = [step |-> trainer.step, model |-> trainer.model, accumulation |-> trainer.accumulation,
                 metrics |-> metrics, whole |-> TRUE]
  BY <1>2 DEF Content
<1>4. Torn = [step |-> trainer.step, model |-> trainer.model, accumulation |-> trainer.accumulation,
              metrics |-> metrics, whole |-> FALSE]
  <2>1. PICK c : c = Content
    OBVIOUS
  <2>2. Torn = [c EXCEPT !.whole = FALSE]
    BY <2>1 DEF Torn
  <2>3. c = [step |-> trainer.step, model |-> trainer.model, accumulation |-> trainer.accumulation,
             metrics |-> metrics, whole |-> TRUE]
    BY <1>3, <2>1
  <2> QED BY <2>2, <2>3
<1>5. FileSound(Content) /\ Content.whole = TRUE /\ Content.step = trainer.step
  BY <1>1, <1>3 DEF FileSound, InOrder
<1>6. FileSound(Torn) /\ Torn.step = trainer.step
  BY <1>1, <1>4 DEF FileSound
<1>7. Content # NoFile
  BY <1>1, <1>5, PretrainingAssumption DEF NoFile
<1> QED BY <1>5, <1>6, <1>7
LEMMA DirectoryWith ==
    ASSUME FilesSound(directory, manifest, sharded), NEW s \in 0..Steps, NEW c, FileSound(c), c.step = s, sharded => c.whole,
           NEW dir, dir = WithDirectory(s, c)
    PROVE  /\ FilesSound(dir, manifest, sharded) /\ DOMAIN dir = DOMAIN directory \union {s} /\ dir[s] = c
           /\ \A r \in DOMAIN directory : r # s => dir[r] = directory[r]
<1>1. dir = [r \in DOMAIN directory \union {s} |-> IF r = s THEN c ELSE directory[r]]
  BY DEF WithDirectory
<1>2. DOMAIN dir = DOMAIN directory \union {s} /\ dir[s] = c /\ \A r \in DOMAIN directory : r # s => dir[r] = directory[r]
  BY <1>1
<1>3. dir = [r \in DOMAIN dir |-> dir[r]]
  BY <1>1
<1>4. \A r \in DOMAIN dir : FileSound(dir[r]) /\ dir[r].step = r /\ (sharded => dir[r].whole)
  BY <1>2 DEF FilesSound
<1> QED BY <1>2, <1>3, <1>4 DEF FilesSound
LEMMA DirectoryWithout ==
    ASSUME FilesSound(directory, manifest, sharded), NEW S, NEW dir, dir = Without(S)
    PROVE  /\ FilesSound(dir, manifest, sharded) /\ DOMAIN dir = DOMAIN directory \ S
           /\ \A r \in DOMAIN directory \ S : dir[r] = directory[r]
<1>1. dir = [r \in DOMAIN directory \ S |-> directory[r]]
  BY DEF Without
<1>2. DOMAIN dir = DOMAIN directory \ S /\ \A r \in DOMAIN directory \ S : dir[r] = directory[r]
  BY <1>1
<1>3. dir = [r \in DOMAIN dir |-> dir[r]]
  BY <1>1
<1>4. \A r \in DOMAIN dir : FileSound(dir[r]) /\ dir[r].step = r /\ (sharded => dir[r].whole)
  BY <1>2 DEF FilesSound
<1> QED BY <1>2, <1>3, <1>4 DEF FilesSound
LEMMA TrainerNotNewer == ASSUME PretrainingInv, InTraining(trainer) PROVE trainer.step <= trainer.step
<1>1. trainer.step \in 0..Steps
  BY PretrainingKnown DEF Trains
<1>2. \A n \in 0..Steps : n <= n
  BY PretrainingAssumption
<1> QED BY <1>1, <1>2
(* A save goes on to its next place, with the directories and manifests it leaves. *)
LEMMA SaveGoesOn ==
    ASSUME PretrainingInv, trainer.at \in SavePlaces, sharded' = sharded, report' = report, published' = published,
           NEW place \in SavePlaces, trainer' = [trainer EXCEPT !.at = place],
           NEW dir, directory' = dir, NEW man, manifest' = man, FilesSound(dir, man, sharded),
           DOMAIN dir \subseteq DOMAIN directory \union {trainer.step},
           place \in {"manifest", "prune"} => trainer.step \in DOMAIN dir /\ dir[trainer.step].whole,
           trainer.save = "last resort" \/ (place = "prune" /\ trainer.save = "final")
              => man["final"] # NoFile /\ man["final"].step = trainer.step
    PROVE  PretrainingInv'
<1>1. InTraining(trainer)
  BY DEF InTraining, SavePlaces
<1>2. PICK t : t = [trainer EXCEPT !.at = place]
  OBVIOUS
<1>3. TrainerShape(t) /\ t.at = place /\ t.accumulation = trainer.accumulation /\ t.step = trainer.step
      /\ t.model = trainer.model /\ t.epoch = trainer.epoch /\ t.offset = trainer.offset
      /\ t.save = trainer.save /\ t.next = trainer.next
  BY <1>2, PretrainingKnown DEF TrainerShape
<1>4. InTraining(t) /\ t.at # "train" /\ t.at # "report"
  BY <1>3 DEF InTraining, SavePlaces
<1>5. Trains(t)
  BY <1>1, <1>3, <1>4, TrainingGoesOn
<1>6. NextIs(t) /\ Ended(t)
  BY <1>3, PretrainingKnown DEF NextIs, Ended, AmidSave, SavePlaces
<1>7. Sealed(t, man)
  BY <1>3 DEF Sealed, AmidSave, SavePlaces
<1>8. Beside(t, dir)
  <2>1. \A s \in DOMAIN directory : s <= trainer.step
    BY <1>1, PretrainingKnown DEF Beside
  <2>2. trainer.step <= trainer.step
    BY <1>1, TrainerNotNewer
  <2>3. \A s \in DOMAIN dir : s <= t.step
    <3> SUFFICES ASSUME NEW s \in DOMAIN dir PROVE s <= trainer.step
      BY <1>3
    <3>2. CASE s \in DOMAIN directory
      BY <2>1, <3>2
    <3>3. CASE s = trainer.step
      BY <2>2, <3>3
    <3> QED BY <3>2, <3>3
  <2>4. t.at \in {"manifest", "prune"} => t.step \in DOMAIN dir /\ dir[t.step].whole
    BY <1>3
  <2> QED BY <2>3, <2>4, Zenon DEF Beside
<1>9. PretrainingIs(t, dir, man, published, sharded)
  BY <1>3, <1>4, <1>5, <1>6, <1>7, <1>8 DEF PretrainingIs
<1> QED BY <1>2, <1>9, PretrainingStep
LEMMA SealedSoFar ==
    ASSUME PretrainingInv, trainer.at \in SavePlaces, trainer.save = "last resort"
    PROVE  manifest["final"] # NoFile /\ manifest["final"].step = trainer.step
BY PretrainingKnown DEF Sealed, AmidSave
LEMMA WriteBeginsKeeps == ASSUME PretrainingInv, WriteBegins PROVE PretrainingInv'
<1>1. trainer.at = "write" /\ InTraining(trainer) /\ trainer' = [trainer EXCEPT !.at = "written"]
      /\ UNCHANGED <<sharded, manifest, report, published>>
  BY DEF WriteBegins, InTraining, Reaches, Trainer
<1>2. trainer.step \in 0..Steps /\ FilesSound(directory, manifest, sharded)
  BY <1>1, PretrainingKnown DEF Trains
<1>3. PICK dir : dir = IF sharded THEN Without({trainer.step}) ELSE WithDirectory(trainer.step, Torn)
  OBVIOUS
<1>4. FilesSound(dir, manifest, sharded) /\ DOMAIN dir \subseteq DOMAIN directory \union {trainer.step}
  <2>1. CASE sharded
    BY <1>2, <1>3, <2>1, DirectoryWithout
  <2>2. CASE ~sharded
    <3>1. FileSound(Torn) /\ Torn.step = trainer.step
      BY <1>1, ContentIs
    <3>2. dir = WithDirectory(trainer.step, Torn)
      BY <1>3, <2>2
    <3>3. PICK c : c = Torn
      OBVIOUS
    <3>4. FilesSound(dir, manifest, sharded) /\ DOMAIN dir = DOMAIN directory \union {trainer.step}
      BY <1>2, <2>2, <3>1, <3>2, <3>3, DirectoryWith
    <3> QED BY <3>4
  <2> QED BY <2>1, <2>2
<1>5. trainer.save = "last resort" => manifest["final"] # NoFile /\ manifest["final"].step = trainer.step
  BY <1>1, SealedSoFar DEF SavePlaces
<1>6. trainer.at \in SavePlaces /\ "written" \in SavePlaces /\ directory' = dir
  BY <1>1, <1>3 DEF SavePlaces, WriteBegins
<1> QED BY <1>1, <1>4, <1>5, <1>6, SaveGoesOn
LEMMA WriteEndsKeeps == ASSUME PretrainingInv, WriteEnds PROVE PretrainingInv'
<1>1. trainer.at = "written" /\ InTraining(trainer) /\ trainer' = [trainer EXCEPT !.at = "manifest"]
      /\ UNCHANGED <<sharded, manifest, report, published>>
  BY DEF WriteEnds, InTraining, Reaches, Trainer
<1>2. trainer.step \in 0..Steps /\ FilesSound(directory, manifest, sharded)
  BY <1>1, PretrainingKnown DEF Trains
<1>3. PICK c : c = Content
  OBVIOUS
<1>4. FileSound(c) /\ c.whole = TRUE /\ c.step = trainer.step
  BY <1>1, <1>3, ContentIs
<1>5. PICK dir : dir = WithDirectory(trainer.step, c)
  OBVIOUS
<1>6. FilesSound(dir, manifest, sharded) /\ DOMAIN dir = DOMAIN directory \union {trainer.step} /\ dir[trainer.step] = c
  BY <1>2, <1>4, <1>5, DirectoryWith
<1>7. trainer.save = "last resort" => manifest["final"] # NoFile /\ manifest["final"].step = trainer.step
  BY <1>1, SealedSoFar DEF SavePlaces
<1>8. trainer.at \in SavePlaces /\ "manifest" \in SavePlaces /\ directory' = dir
  BY <1>1, <1>3, <1>5 DEF SavePlaces, WriteEnds
<1> QED BY <1>1, <1>4, <1>6, <1>7, <1>8, SaveGoesOn
LEMMA WriteFailsKeeps == ASSUME PretrainingInv, WriteFails PROVE PretrainingInv'
<1>1. PICK dir : dir = Without({trainer.step})
  OBVIOUS
<1>2. FilesSound(dir, manifest, sharded)
  BY <1>1, DirectoryWithout, PretrainingKnown
<1> QED BY <1>1, <1>2, ProcessEnds DEF WriteFails, Fails, Trainer
LEMMA SealCheckpointKeeps == ASSUME PretrainingInv, SealCheckpoint PROVE PretrainingInv'
<1>1. trainer.at = "manifest" /\ InTraining(trainer) /\ trainer' = [trainer EXCEPT !.at = "prune"]
      /\ UNCHANGED <<sharded, directory, report, published>>
  BY DEF SealCheckpoint, InTraining, Reaches, Trainer
<1>2. FilesSound(directory, manifest, sharded) /\ trainer.step \in DOMAIN directory /\ directory[trainer.step].whole
  BY <1>1, PretrainingKnown DEF Beside
<1>3. PICK c : c = Content
  OBVIOUS
<1>4. FileSound(c) /\ c.whole = TRUE /\ c.step = trainer.step /\ c # NoFile
  BY <1>1, <1>3, ContentIs
<1>5. PICK name \in {"final", "best"} : /\ name = NameOf(trainer.save)
                                        /\ trainer.save = "final" => name = "final"
                                        /\ trainer.save = "last resort" => name = "best"
  BY DEF NameOf
<1>6. PICK man : man = [manifest EXCEPT ![name] = c]
  OBVIOUS
<1>7. manifest' = man
  BY <1>3, <1>5, <1>6 DEF SealCheckpoint
<1>8. manifest = [n \in {"final", "best"} |-> manifest[n]]
  BY <1>2 DEF FilesSound
<1>9. man[name] = c /\ (\A n \in {"final", "best"} : n # name => man[n] = manifest[n]) /\ man = [n \in {"final", "best"} |-> man[n]]
  BY <1>6, <1>8
<1>10. FilesSound(directory, man, sharded)
  BY <1>2, <1>4, <1>9 DEF FilesSound
<1>11. trainer.save = "last resort" \/ trainer.save = "final" => man["final"] # NoFile /\ man["final"].step = trainer.step
  <2>1. CASE trainer.save = "final"
    BY <1>4, <1>5, <1>9, <2>1
  <2>2. CASE trainer.save = "last resort"
    <3>1. manifest["final"] # NoFile /\ manifest["final"].step = trainer.step
      BY <1>1, <2>2, SealedSoFar DEF SavePlaces
    <3>2. man["final"] = manifest["final"]
      BY <1>5, <1>9, <2>2
    <3> QED BY <3>1, <3>2
  <2> QED BY <2>1, <2>2
<1>12. trainer.at \in SavePlaces /\ "prune" \in SavePlaces /\ directory' = directory
  BY <1>1 DEF SavePlaces
<1> QED BY <1>1, <1>2, <1>7, <1>10, <1>11, <1>12, SaveGoesOn
(* Pruning, the reload, the publication and the report.                            *)
LEMMA PruneSpares ==
    ASSUME PretrainingInv, Prune
    PROVE  /\ trainer.step \in DOMAIN directory' /\ directory'[trainer.step] = directory[trainer.step]
           /\ FilesSound(directory', manifest, sharded) /\ DOMAIN directory' \subseteq DOMAIN directory
           /\ directory[trainer.step].whole
<1>1. trainer.at = "prune" /\ directory' = Without(Old)
  BY DEF Prune
<1>2. trainer.step \in DOMAIN directory /\ directory[trainer.step].whole /\ FilesSound(directory, manifest, sharded)
  BY <1>1, PretrainingKnown DEF Beside
<1>3. PICK old : old = Old
  OBVIOUS
<1>4. trainer.step \notin old
  BY <1>3 DEF Old
<1>5. PICK dir : dir = Without(old)
  OBVIOUS
<1>6. FilesSound(dir, manifest, sharded) /\ DOMAIN dir = DOMAIN directory \ old /\ \A r \in DOMAIN directory \ old : dir[r] = directory[r]
  BY <1>2, <1>5, DirectoryWithout, SMTT(30)
<1>7. directory' = dir
  BY <1>1, <1>3, <1>5
<1>8. trainer.step \in DOMAIN dir /\ dir[trainer.step] = directory[trainer.step] /\ DOMAIN dir \subseteq DOMAIN directory
  BY <1>2, <1>4, <1>6
<1> QED BY <1>2, <1>6, <1>7, <1>8, Zenon
LEMMA PruneKeeps == ASSUME PretrainingInv, Prune PROVE PretrainingInv'
<1>1. trainer.at = "prune" /\ InTraining(trainer) /\ UNCHANGED <<sharded, manifest, report, published>>
  BY DEF Prune, InTraining
<1>2. PICK dir : dir = directory'
  OBVIOUS
<1>3. FilesSound(dir, manifest, sharded) /\ DOMAIN dir \subseteq DOMAIN directory
  BY <1>2, PruneSpares, Zenon
<1>4. PICK selected : selected = (trainer.selected \/ trainer.save = "best")
  OBVIOUS
<1>5. PICK goal : goal = trainer.next
  OBVIOUS
<1>6. PICK t : t = [trainer EXCEPT !.at = goal, !.save = "none", !.next = "none", !.selected = selected]
  OBVIOUS
<1>7. trainer' = t
  BY <1>4, <1>5, <1>6, Zenon DEF Prune, Trainer
<1>8. TrainerShape(t) /\ t.at = goal /\ t.accumulation = trainer.accumulation /\ t.step = trainer.step
      /\ t.model = trainer.model /\ t.epoch = trainer.epoch /\ t.offset = trainer.offset /\ t.save = "none"
  BY <1>6, PretrainingKnown DEF TrainerShape
<1>9. \/ trainer.save = "best" /\ goal = "periodic"
      \/ trainer.save = "periodic" /\ ((goal = "train" /\ trainer.step < Steps) \/ (goal = "finish" /\ trainer.step = Steps))
      \/ trainer.save = "final" /\ goal \in {"reload", "also best"}
      \/ trainer.save = "last resort" /\ goal = "reload"
  BY <1>1, <1>5, PretrainingKnown DEF NextIs, SavePlaces
<1>10. goal \in {"periodic", "train", "finish", "reload", "also best"}
  BY <1>9
<1>11. InTraining(t) /\ NextIs(t) /\ t.at = "train" => t.step < Steps
  BY <1>8, <1>9, <1>10 DEF InTraining, NextIs, SavePlaces
<1>12. InTraining(t) /\ NextIs(t)
  BY <1>8, <1>10 DEF InTraining, NextIs, SavePlaces
<1>13. Trains(t)
  <2>1. t.at = "train" => t.step < Steps
    BY <1>11, <1>12
  <2> QED BY <1>1, <1>8, <1>12, <2>1, TrainingGoesOn
<1>14. Ended(t)
  <2>1. trainer.save \in {"final", "last resort"} => trainer.step = Steps \/ Patience > 0
    BY <1>1, PretrainingKnown DEF Ended, AmidSave, SavePlaces
  <2> QED BY <1>8, <1>9, <2>1 DEF Ended, AmidSave
<1>15. Sealed(t, manifest)
  <2>1. trainer.save \in {"final", "last resort"} => manifest["final"] # NoFile /\ manifest["final"].step = trainer.step
    BY <1>1, PretrainingKnown DEF Sealed, AmidSave, SavePlaces
  <2>2. goal \in {"also best", "reload", "publish", "report"} => trainer.save \in {"final", "last resort"}
    BY <1>9
  <2> QED BY <1>8, <1>10, <2>1, <2>2 DEF Sealed, AmidSave
<1>16. Beside(t, dir)
  <2>1. \A s \in DOMAIN directory : s <= trainer.step
    BY <1>1, PretrainingKnown DEF Beside
  <2>2. \A s \in DOMAIN dir : s <= t.step
    BY <1>3, <1>8, <2>1
  <2>3. t.at \notin {"manifest", "prune"}
    BY <1>8, <1>10
  <2> QED BY <2>2, <2>3 DEF Beside
<1>17. t.at # "report"
  BY <1>8, <1>10
<1>18. PretrainingIs(t, dir, manifest, published, sharded)
  BY <1>3, <1>8, <1>12, <1>13, <1>14, <1>15, <1>16, <1>17 DEF PretrainingIs
<1> QED BY <1>1, <1>2, <1>7, <1>18, PretrainingStep
LEMMA EndsKeeps ==
    ASSUME PretrainingInv, sharded' = sharded, report' = report, manifest' = manifest, published' = published,
           UNCHANGED directory, Fails
    PROVE  PretrainingInv'
BY PretrainingKnown, ProcessEnds DEF Fails, Trainer
LEMMA ReloadKeeps == ASSUME PretrainingInv, Reload PROVE PretrainingInv'
<1>1. trainer.at = "reload" /\ InTraining(trainer) /\ UNCHANGED <<sharded, directory, manifest, report, published>>
  BY DEF Reload, InTraining
<1>2. CASE Reaches("publish")
  <2>1. PICK t : t = [trainer EXCEPT !.at = "publish"]
    OBVIOUS
  <2>2. trainer' = t
    BY <1>2, <2>1 DEF Reaches, Trainer
  <2>3. TrainerShape(t) /\ t.at = "publish" /\ t.accumulation = trainer.accumulation /\ t.step = trainer.step
        /\ t.model = trainer.model /\ t.epoch = trainer.epoch /\ t.offset = trainer.offset
    BY <2>1, PretrainingKnown DEF TrainerShape
  <2>4. (trainer.step = Steps \/ Patience > 0) /\ manifest["final"] # NoFile /\ manifest["final"].step = trainer.step
    BY <1>1, PretrainingKnown DEF Ended, Sealed
  <2>5. InTraining(t) /\ NextIs(t) /\ Ended(t) /\ Sealed(t, manifest)
    BY <2>3, <2>4 DEF InTraining, NextIs, Ended, Sealed, AmidSave, SavePlaces
  <2> QED BY <1>1, <2>2, <2>3, <2>5, OnlyTheProcess
<1>3. CASE Fails
  BY <1>1, <1>3, EndsKeeps
<1> QED BY <1>2, <1>3 DEF Reload
LEMMA PublishKeeps == ASSUME PretrainingInv, Publish PROVE PretrainingInv'
<1>1. trainer.at = "publish" /\ InTraining(trainer) /\ UNCHANGED <<sharded, directory, manifest, report>>
  BY DEF Publish, InTraining
<1>2. CASE published' = published \union {manifest["final"]} /\ Reaches("report")
  <2>1. PICK t : t = [trainer EXCEPT !.at = "report"]
    OBVIOUS
  <2>2. trainer' = t
    BY <1>2, <2>1 DEF Reaches, Trainer
  <2>3. TrainerShape(t) /\ t.at = "report" /\ t.accumulation = trainer.accumulation /\ t.step = trainer.step
        /\ t.model = trainer.model /\ t.epoch = trainer.epoch /\ t.offset = trainer.offset
    BY <2>1, PretrainingKnown DEF TrainerShape
  <2>4. (trainer.step = Steps \/ Patience > 0) /\ manifest["final"] # NoFile /\ manifest["final"].step = trainer.step
    BY <1>1, PretrainingKnown DEF Ended, Sealed
  <2>5. InTraining(t) /\ NextIs(t) /\ Ended(t) /\ Sealed(t, manifest)
    BY <2>3, <2>4 DEF InTraining, NextIs, Ended, Sealed, AmidSave, SavePlaces
  <2>6. PICK pub : pub = published \union {manifest["final"]}
    OBVIOUS
  <2>7. published' = pub /\ published \subseteq pub /\ manifest["final"] \in pub
    BY <1>2, <2>6
  <2> QED BY <1>1, <2>2, <2>3, <2>5, <2>7, OnlyTheProcess
<1>3. CASE published' = published /\ Fails
  BY <1>1, <1>3, EndsKeeps
<1> QED BY <1>2, <1>3 DEF Publish
LEMMA WriteReportKeeps == ASSUME PretrainingInv, WriteReport PROVE PretrainingInv'
<1>1. trainer.at = "report" /\ InTraining(trainer) /\ UNCHANGED <<sharded, directory, manifest, published>> /\ trainer' = Down("done")
  BY DEF WriteReport, InTraining, Trainer
<1>2. PICK final : final = manifest["final"]
  OBVIOUS
<1>3. /\ trainer.step = Steps \/ Patience > 0
      /\ final # NoFile /\ final.step = trainer.step /\ final \in published
  BY <1>1, <1>2, PretrainingKnown DEF Ended, Sealed
<1>4. FileSound(final) /\ final.whole
  BY <1>2, <1>3, PretrainingKnown DEF FilesSound
<1>5. PICK r : r = [step |-> trainer.step, final |-> final, best |-> manifest["best"]]
  OBVIOUS
<1>6. report' = r
  BY <1>2, <1>5 DEF WriteReport
<1>7. /\ r.final \in published /\ r.final.step = r.step /\ InOrder(r.final) /\ r.final.whole
      /\ r.step = Steps \/ Patience > 0
  BY <1>3, <1>4, <1>5 DEF FileSound
<1>8. ReportedIsTrained'
  BY <1>1, <1>6, <1>7 DEF ReportedIsTrained, InOrder
<1>9. PICK t : t = Down("done")
  OBVIOUS
<1>10. TrainerShape(t) /\ t.at = "done"
  BY <1>9 DEF TrainerShape, Down
<1>11. Trains(t) /\ NextIs(t) /\ Ended(t) /\ Sealed(t, manifest) /\ Beside(t, directory)
  BY <1>10 DEF Trains, NextIs, Ended, Sealed, Beside, InTraining, AmidSave, SavePlaces
<1>12. PretrainingIs(t, directory, manifest, published, sharded)
  BY <1>10, <1>11, PretrainingKnown DEF PretrainingIs
<1>13. PretrainingIs(trainer, directory, manifest, published, sharded)'
  BY <1>1, <1>9, <1>12, PretrainingIsPrimed
<1> QED BY <1>8, <1>13 DEF PretrainingInv
LEMMA TrainerDiesKeeps == ASSUME PretrainingInv, TrainerDies PROVE PretrainingInv'
BY EndsKeeps DEF TrainerDies

LEMMA PretrainingStarts == ASSUME PretrainingInit PROVE PretrainingInv
<1>1. TrainerShape(trainer) /\ trainer.at = "down"
  BY DEF PretrainingInit, TrainerShape, Down
<1>2. DOMAIN directory = {} /\ directory = [s \in DOMAIN directory |-> directory[s]]
  BY DEF PretrainingInit
<1>3. manifest = [name \in {"final", "best"} |-> manifest[name]] /\ \A name \in {"final", "best"} : manifest[name] = NoFile
  BY DEF PretrainingInit
<1>4. FilesSound(directory, manifest, sharded)
  BY <1>2, <1>3 DEF FilesSound
<1>5. Trains(trainer) /\ NextIs(trainer) /\ Ended(trainer) /\ Sealed(trainer, manifest) /\ Beside(trainer, directory)
  BY <1>1 DEF Trains, NextIs, Ended, Sealed, Beside, InTraining, AmidSave, SavePlaces
<1>6. ReportedIsTrained
  BY DEF PretrainingInit, ReportedIsTrained
<1> QED BY <1>1, <1>4, <1>5, <1>6 DEF PretrainingInv, PretrainingIs
LEMMA PretrainingGoesOn == ASSUME PretrainingInv, [PretrainingNext]_pretrainingVars PROVE PretrainingInv'
<1>1. CASE UNCHANGED pretrainingVars
  <2>1. UNCHANGED <<sharded, report, trainer, directory, manifest, published>>
    BY <1>1 DEF pretrainingVars
  <2> QED BY <2>1, PretrainingStep DEF PretrainingInv
<1> QED BY <1>1, LaunchKeeps, TrainKeeps, ValidateKeeps, PeriodicKeeps, FinishKeeps, AlsoBestKeeps, WriteBeginsKeeps,
           WriteEndsKeeps, WriteFailsKeeps, SealCheckpointKeeps, PruneKeeps, ReloadKeeps, PublishKeeps, WriteReportKeeps,
           TrainerDiesKeeps DEF PretrainingNext
LEMMA InvIsTrainedInOrder == ASSUME PretrainingInv PROVE TrainedInOrder
<1>1. trainer.at \notin {"down", "done"} => InOrder(trainer)
  BY PretrainingKnown DEF Trains, InTraining
<1>2. ASSUME NEW c \in Checkpoints, c.whole PROVE InOrder(c)
  <2>1. FilesSound(directory, manifest, sharded)
    BY PretrainingKnown
  <2>2. FileSound(c)
    BY <1>2, <2>1 DEF Checkpoints, FilesSound
  <2> QED BY <1>2, <2>2 DEF FileSound
<1>3. ReportedIsTrained
  BY DEF PretrainingInv
<1> QED BY <1>1, <1>2, <1>3 DEF TrainedInOrder, OrderedData

(* TrainedInOrder.  However often the process died and was launched again, with    *)
(* whatever accumulation, the model in training, every whole checkpoint and the    *)
(* reported one were trained on each micro-batch once, in order; a report names a  *)
(* published checkpoint of the step the training really ended at.                  *)
THEOREM DataIsTrainedInOrder == PretrainingSpec => []TrainedInOrder
<1>1. PretrainingInit => PretrainingInv
  BY PretrainingStarts
<1>2. PretrainingInv /\ [PretrainingNext]_pretrainingVars => PretrainingInv'
  BY PretrainingGoesOn
<1>3. PretrainingInv => TrainedInOrder
  BY InvIsTrainedInOrder
<1> QED BY <1>1, <1>2, <1>3, PTL DEF PretrainingSpec

LEMMA WholeStays ==
    ASSUME PretrainingInv, PretrainingNext, NEW s \in Whole
    PROVE  s = trainer.step \/ \E r \in Whole' : r >= s
<1>1. s \in DOMAIN directory /\ directory[s].whole
  BY DEF Whole
<1>2. s \in Nat /\ FilesSound(directory, manifest, sharded)
  BY <1>1, PretrainingKnown, PretrainingAssumption DEF FilesSound
<1>3. ASSUME s # trainer.step, s \in DOMAIN directory', directory'[s] = directory[s]
      PROVE  \E r \in Whole' : r >= s
  BY <1>1, <1>2, <1>3 DEF Whole
<1>4. CASE UNCHANGED directory
  BY <1>1, <1>3, <1>4
<1>5. CASE WriteBegins \/ WriteEnds \/ WriteFails
  <2>1. SUFFICES ASSUME s # trainer.step PROVE s \in DOMAIN directory' /\ directory'[s] = directory[s]
    BY <1>3
  <2>2. ASSUME directory' = Without({trainer.step}) PROVE s \in DOMAIN directory' /\ directory'[s] = directory[s]
    BY <1>1, <2>1, <2>2 DEF Without
  <2>3. ASSUME NEW c, directory' = WithDirectory(trainer.step, c) PROVE s \in DOMAIN directory' /\ directory'[s] = directory[s]
    BY <1>1, <2>1, <2>3 DEF WithDirectory
  <2> QED BY <1>5, <2>2, <2>3 DEF WriteBegins, WriteEnds, WriteFails
<1>6. CASE Prune
  <2>1. trainer.step \in DOMAIN directory' /\ directory'[trainer.step].whole
    BY <1>6, PruneSpares, Zenon
  <2>2. s <= trainer.step
    BY <1>1, <1>6, PretrainingKnown DEF Beside, InTraining, Prune
  <2>3. trainer.step \in 0..Steps
    BY <1>6, PretrainingKnown DEF Trains, InTraining, Prune
  <2>4. trainer.step \in Nat
    BY <2>3, PretrainingAssumption
  <2>5. trainer.step \in Whole'
    BY <2>1 DEF Whole
  <2>6. trainer.step >= s
    BY <1>2, <2>2, <2>4
  <2> QED BY <2>5, <2>6
<1> QED BY <1>4, <1>5, <1>6 DEF PretrainingNext, Launch, TrainStep, Validate, Periodic, Finish, AlsoBest, SealCheckpoint,
                                Reload, Publish, WriteReport, TrainerDies
LEMMA ShardedIsWhole == PretrainingInv => (sharded => Whole = DOMAIN directory)
BY PretrainingKnown DEF Whole, FilesSound

(* ProgressKept.  No save, failed write, pruning or death takes the newest whole   *)
(* checkpoint away, except while that very step is being written again; and with   *)
(* sharded checkpoints every directory a resume can find is whole.                 *)
THEOREM ProgressIsKept == PretrainingSpec => ProgressKept
<1>1. PretrainingInit => PretrainingInv
  BY PretrainingStarts
<1>2. PretrainingInv /\ [PretrainingNext]_pretrainingVars => PretrainingInv'
  BY PretrainingGoesOn
<1>3. PretrainingInv /\ PretrainingInv' /\ [PretrainingNext]_pretrainingVars
        => [/\ \A s \in Whole : s = trainer.step \/ \E r \in Whole' : r >= s
            /\ sharded => Whole' = (DOMAIN directory)']_pretrainingVars
  <2>1. SUFFICES ASSUME PretrainingInv, PretrainingInv', PretrainingNext
                 PROVE  /\ \A s \in Whole : s = trainer.step \/ \E r \in Whole' : r >= s
                        /\ sharded => Whole' = (DOMAIN directory)'
    BY Zenon
  <2>2. \A s \in Whole : s = trainer.step \/ \E r \in Whole' : r >= s
    BY <2>1, WholeStays
  <2>3. sharded' = sharded
    BY <2>1 DEF PretrainingNext, Launch, TrainStep, Validate, Periodic, Finish, AlsoBest, WriteBegins, WriteEnds, WriteFails,
                SealCheckpoint, Prune, Reload, Publish, WriteReport, TrainerDies
  <2>4. (sharded => Whole = DOMAIN directory)'
    <3>1. (PretrainingInv => (sharded => Whole = DOMAIN directory))'
      BY ShardedIsWhole, PTL
    <3> QED BY <2>1, <3>1
  <2> QED BY <2>2, <2>3, <2>4
<1> QED BY <1>1, <1>2, <1>3, PTL DEF PretrainingSpec, ProgressKept
==============================================================================
