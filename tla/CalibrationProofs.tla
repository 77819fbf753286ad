---------------------------- MODULE CalibrationProofs ----------------------------
(* Proofs about the review authority, and about the decisions that rest on it.      *)
(*                                                                                  *)
(* An item is followed through RowSound: decisions are the submitted assignments,   *)
(* no more people hold assignments than there are slots, and the status says        *)
(* whether the slots are filled with decisions.  So an item whose decisions are     *)
(* shown has no assignment left to claim, decide or let expire, and is frozen but   *)
(* for its adjudication.  That is what makes a finalisation that reads item by item *)
(* sound.                                                                           *)
EXTENDS Calibration, TLAPS

\* No more holders than slots.
Slots(row) ==
    /\ \A r, s, t \in Holders(row) : r = s \/ s = t \/ r = t
    /\ ~row.high => \A r, s \in Holders(row) : r = s

Tallied(row) ==
    /\ row.status \in Visible <=> Fills(Deciders(row), row.high)
    /\ row.status \in Terminal /\ row.adjudicator = NoOne =>
           row.status = StatusFromDecisions(row)
    /\ row.adjudicator # NoOne =>
           row.status \in Terminal /\ row.adjudicator \notin Deciders(row)

RowSound(row) ==
    /\ row \in Row
    /\ \A r \in Reviewers : row.decision[r] # "none" <=> row.claim[r] = "submitted"
    /\ row.status \in {"absent", "pending"} => Holders(row) = {}
    /\ Slots(row)
    /\ Tallied(row)

ReviewInv ==
    /\ ReviewTypeOK
    /\ \A i \in Items : RowSound(item[i])

----------------------------------------------------------------------------------
(* Rows.                                                                            *)

LEMMA AbsentSound == RowSound(Absent)
BY DEF RowSound, Absent, Row, Holders, Deciders, Slots, Tallied, Fills, Visible,
       Terminal, NoOne, Decisions

LEMMA EnqueuedSound ==
    ASSUME NEW row, RowSound(row), row.status = "absent", NEW h \in BOOLEAN,
           NEW new, new = [row EXCEPT !.status = "pending", !.high = h]
    PROVE  RowSound(new)
<1>1. Holders(row) = {} /\ Deciders(row) = {}
  BY DEF RowSound, Holders, Deciders, Row
<1>2. new \in Row /\ new.claim = row.claim /\ new.decision = row.decision
      /\ new.adjudicator = row.adjudicator /\ new.status = "pending"
  BY DEF RowSound, Row
<1>3. Holders(new) = {} /\ Deciders(new) = {}
  BY <1>1, <1>2 DEF Holders, Deciders
<1>4. new.adjudicator = NoOne
  BY <1>2 DEF RowSound, Tallied, Terminal
<1>. QED
  BY <1>2, <1>3, <1>4 DEF RowSound, Slots, Tallied, Fills, Visible, Terminal

LEMMA PurgedSound ==
    ASSUME NEW row, RowSound(row)
    PROVE  RowSound(Purged(row))
<1>. DEFINE new == Purged(row)
<1>1. new \in Row /\ new.decision = row.decision /\ new.adjudicator = row.adjudicator
      /\ new.status = row.status /\ new.high = row.high
      /\ \A r \in Reviewers : new.claim[r] = IF row.claim[r] = "expired" THEN "none"
                                             ELSE row.claim[r]
  BY DEF RowSound, Row, Purged
<1>2. Holders(new) \subseteq Holders(row) /\ Deciders(new) = Deciders(row)
  BY <1>1 DEF Holders, Deciders
<1>3. StatusFromDecisions(new) = StatusFromDecisions(row)
  BY <1>1, <1>2 DEF StatusFromDecisions, Said
<1>. HIDE DEF new
<1>4. Tallied(new)
  BY <1>1, <1>2, <1>3 DEF RowSound, Tallied
<1>5. Slots(new)
  BY <1>1, <1>2 DEF RowSound, Slots
<1>6. RowSound(new)
  BY <1>1, <1>2, <1>4, <1>5 DEF RowSound
<1>. QED
  BY <1>6 DEF new

\* An item whose slots are filled with decisions has no other assignment.
LEMMA ShownIsClosed ==
    ASSUME NEW row, RowSound(row), row.status \in Visible
    PROVE  /\ \A r \in Reviewers : row.claim[r] \in {"none", "submitted"}
           /\ Fills(Holders(row), row.high)
           /\ row.status # "absent"
<1>1. Fills(Deciders(row), row.high)
  BY DEF RowSound, Tallied
<1>2. Deciders(row) \subseteq Holders(row)
  BY DEF RowSound, Deciders, Holders
<1>3. Fills(Holders(row), row.high)
  BY <1>1, <1>2 DEF Fills
<1>4. ASSUME NEW r \in Reviewers, row.claim[r] \notin {"none", "submitted"} PROVE FALSE
  <2>1. r \in Holders(row) /\ r \notin Deciders(row)
    BY <1>4 DEF RowSound, Holders, Deciders
  <2>2. PICK s \in Deciders(row), t \in Deciders(row) : row.high => s # t
    BY <1>1 DEF Fills
  <2>. QED
    BY <2>1, <2>2, <1>2 DEF RowSound, Slots, Row
<1>. QED
  BY <1>3, <1>4 DEF Visible, Terminal

LEMMA ShownIsNotPurged ==
    ASSUME NEW row, RowSound(row), row.status \in Visible
    PROVE  Purged(row) = row
<1>1. \A r \in Reviewers : row.claim[r] # "expired"
  BY ShownIsClosed
<1>2. [r \in Reviewers |-> IF row.claim[r] = "expired" THEN "none" ELSE row.claim[r]]
      = row.claim
  BY <1>1 DEF RowSound, Row
<1>. QED
  BY <1>2 DEF RowSound, Row, Purged

LEMMA ClaimedSound ==
    ASSUME NEW row, RowSound(row), row.status # "absent",
           NEW r \in Reviewers, row.claim[r] = "none", ~Fills(Holders(row), row.high),
           NEW new, new = [row EXCEPT !.claim[r] = "live", !.status = "in_review"]
    PROVE  RowSound(new)
<1>1. new \in Row /\ new.decision = row.decision /\ new.adjudicator = row.adjudicator
      /\ new.status = "in_review" /\ new.high = row.high
      /\ \A s \in Reviewers : new.claim[s] = IF s = r THEN "live" ELSE row.claim[s]
  BY DEF RowSound, Row
<1>2. Holders(new) = Holders(row) \cup {r} /\ Deciders(new) = Deciders(row)
  BY <1>1 DEF Holders, Deciders
<1>3. row.status \notin Visible
  BY ShownIsClosed
<1>4. new.adjudicator = NoOne
  BY <1>1, <1>3 DEF RowSound, Tallied, Visible
<1>5. Tallied(new)
  BY <1>1, <1>2, <1>3, <1>4 DEF RowSound, Tallied, Visible, Terminal
<1>6. Slots(new)
  BY <1>1, <1>2 DEF RowSound, Slots, Fills, Row
<1>7. \A s \in Reviewers : new.decision[s] # "none" <=> new.claim[s] = "submitted"
  BY <1>1 DEF RowSound
<1>. QED
  BY <1>1, <1>5, <1>6, <1>7 DEF RowSound

LEMMA DecidedSound ==
    ASSUME NEW row, RowSound(row), NEW r \in Reviewers, row.claim[r] = "live",
           NEW d \in Decisions,
           NEW new, new = [Decided(row, r, d) EXCEPT
                              !.status = StatusFromDecisions(Decided(row, r, d))]
    PROVE  RowSound(new)
<1>0. PICK mid : mid = Decided(row, r, d)
  OBVIOUS
<1>1. mid \in Row /\ mid.adjudicator = row.adjudicator /\ mid.high = row.high
      /\ mid.status = row.status
      /\ (\A s \in Reviewers : mid.claim[s] = (IF s = r THEN "submitted" ELSE row.claim[s]))
      /\ \A s \in Reviewers : mid.decision[s] = IF s = r THEN d ELSE row.decision[s]
  <2>1. mid = [row EXCEPT !.claim = [row.claim EXCEPT ![r] = "submitted"],
                          !.decision = [row.decision EXCEPT ![r] = d]]
    BY <1>0 DEF RowSound, Row, Decided
  <2>2. [row.claim EXCEPT ![r] = "submitted"]
            \in [Reviewers -> {"none", "live", "expired", "submitted"}]
        /\ [row.decision EXCEPT ![r] = d] \in [Reviewers -> Decisions \cup {"none"}]
    BY DEF RowSound, Row
  <2>. QED
    BY <2>1, <2>2 DEF RowSound, Row
<1>2. StatusFromDecisions(mid) \in Visible \cup {"in_review"}
      /\ (StatusFromDecisions(mid) \in Visible <=> Fills(Deciders(mid), mid.high))
  BY DEF StatusFromDecisions, Visible, Terminal
<1>3. new \in Row /\ new.adjudicator = row.adjudicator /\ new.high = row.high
      /\ new.status = StatusFromDecisions(mid)
      /\ new.claim = mid.claim /\ new.decision = mid.decision
  BY <1>0, <1>1, <1>2 DEF Row
<1>4. Holders(new) = Holders(mid) /\ Deciders(new) = Deciders(mid)
      /\ Said(new, "approve") = Said(mid, "approve") /\ Said(new, "reject") = Said(mid, "reject")
  BY <1>3 DEF Holders, Deciders, Said
<1>5. new.high = mid.high
  BY <1>1, <1>3
<1>6. StatusFromDecisions(new) = new.status
  BY <1>3, <1>4, <1>5 DEF StatusFromDecisions
<1>7. row.status \notin Visible
  BY ShownIsClosed
<1>8. new.adjudicator = NoOne
  BY <1>3, <1>7 DEF RowSound, Tallied, Visible
<1>9. Tallied(new)
  BY <1>2, <1>3, <1>4, <1>5, <1>6, <1>8 DEF Tallied
<1>10. Holders(new) = Holders(row)
  <2>1. \A s \in Reviewers : mid.claim[s] # "none" <=> row.claim[s] # "none"
    BY <1>1
  <2>. QED
    BY <2>1, <1>4 DEF Holders
<1>11. Slots(new)
  BY <1>3, <1>10 DEF RowSound, Slots
<1>12. \A s \in Reviewers : new.decision[s] # "none" <=> new.claim[s] = "submitted"
  <2>1. \A s \in Reviewers : mid.decision[s] # "none" <=> mid.claim[s] = "submitted"
    <3>1. d # "none"
      BY DEF Decisions
    <3>. QED
      BY <1>1, <3>1 DEF RowSound
  <2>. QED
    BY <2>1, <1>3
<1>13. new.status \notin {"absent", "pending"}
  BY <1>2, <1>3 DEF Visible, Terminal
<1>. QED
  BY <1>3, <1>9, <1>11, <1>12, <1>13 DEF RowSound

LEMMA AdjudicatedSound ==
    ASSUME NEW row, RowSound(row), row.status = "adjudication_required",
           NEW a \in Adjudicators, a \notin Deciders(row), NEW d \in Decisions,
           NEW new, new = [row EXCEPT !.status = Verdict(d), !.adjudicator = a]
    PROVE  RowSound(new) /\ new.status \in Terminal /\ new.decision = row.decision
<1>1. new \in Row /\ new.decision = row.decision /\ new.adjudicator = a
      /\ new.status = Verdict(d) /\ new.high = row.high /\ new.claim = row.claim
  BY DEF RowSound, Row, Verdict, Visible, Terminal
<1>2. Holders(new) = Holders(row) /\ Deciders(new) = Deciders(row)
  BY <1>1 DEF Holders, Deciders
<1>3. new.status \in Terminal
  BY <1>1 DEF Verdict, Terminal
<1>4. a # NoOne
  BY ReviewAssumption DEF NoOne
<1>5. Tallied(new)
  BY <1>1, <1>2, <1>3, <1>4 DEF RowSound, Tallied, Visible
<1>6. Slots(new)
  BY <1>1, <1>2 DEF RowSound, Slots
<1>7. \A s \in Reviewers : new.decision[s] # "none" <=> new.claim[s] = "submitted"
  BY <1>1 DEF RowSound
<1>. QED
  BY <1>1, <1>3, <1>5, <1>6, <1>7 DEF RowSound, Terminal

LEMMA ExpiredSound ==
    ASSUME NEW row, RowSound(row), NEW r \in Reviewers, row.claim[r] = "live",
           NEW new, new = [row EXCEPT !.claim[r] = "expired"]
    PROVE  RowSound(new)
<1>1. new \in Row /\ new.decision = row.decision /\ new.adjudicator = row.adjudicator
      /\ new.status = row.status /\ new.high = row.high
      /\ \A s \in Reviewers : new.claim[s] = IF s = r THEN "expired" ELSE row.claim[s]
  BY DEF RowSound, Row
<1>2. Holders(new) = Holders(row) /\ Deciders(new) = Deciders(row)
  BY <1>1 DEF Holders, Deciders
<1>3. StatusFromDecisions(new) = StatusFromDecisions(row)
  BY <1>1, <1>2 DEF StatusFromDecisions, Said
<1>4. Tallied(new)
  BY <1>1, <1>2, <1>3 DEF RowSound, Tallied
<1>5. Slots(new)
  BY <1>1, <1>2 DEF RowSound, Slots
<1>6. \A s \in Reviewers : new.decision[s] # "none" <=> new.claim[s] = "submitted"
  BY <1>1 DEF RowSound
<1>. QED
  BY <1>1, <1>2, <1>4, <1>5, <1>6 DEF RowSound

----------------------------------------------------------------------------------
(* Steps of the review authority.                                                   *)

\* What a step does to an item whose decisions are shown.
Kept(old, new) ==
    /\ old.status \in Visible => new.status \in Visible /\ new.decision = old.decision
    /\ old.status \in Terminal => new = old

Onward(old, new) == RowSound(new) /\ Kept(old, new)

LEMMA Unchanged ==
    ASSUME NEW row, RowSound(row)
    PROVE  Onward(row, row)
BY DEF Onward, Kept

LEMMA EnqueueOnward ==
    ASSUME ReviewInv, NEW i \in Items, NEW high \in BOOLEAN, item' = Enqueued(i, high)
    PROVE  item' \in [Items -> Row] /\ \A j \in Items : Onward(item[j], item'[j])
<1>1. item \in [Items -> Row] /\ \A j \in Items : RowSound(item[j])
  BY DEF ReviewInv, ReviewTypeOK
<1>2. CASE item[i].status # "absent"
  BY <1>1, <1>2, Unchanged DEF Enqueued
<1>3. CASE item[i].status = "absent"
  <2>1. PICK new : new = [item[i] EXCEPT !.status = "pending", !.high = high]
    OBVIOUS
  <2>2. RowSound(new)
    BY <1>1, <1>3, <2>1, EnqueuedSound
  <2>3. item' = [item EXCEPT ![i] = new]
    BY <1>1, <1>3, <2>1 DEF Enqueued
  <2>4. Onward(item[i], new)
    BY <1>3, <2>2 DEF Onward, Kept, Visible, Terminal
  <2>. QED
    BY <1>1, <2>2, <2>3, <2>4, Unchanged DEF RowSound
<1>. QED
  BY <1>2, <1>3

LEMMA ClaimOnward ==
    ASSUME ReviewInv, NEW i \in Items, NEW r \in Reviewers, Claim(i, r)
    PROVE  item' \in [Items -> Row] /\ \A j \in Items : Onward(item[j], item'[j])
<1>1. item \in [Items -> Row] /\ \A j \in Items : RowSound(item[j])
  BY DEF ReviewInv, ReviewTypeOK
<1>2. PICK row : row = Purged(item[i])
  OBVIOUS
<1>3. RowSound(row)
  BY <1>1, <1>2, PurgedSound
<1>4. /\ row.status # "absent"
      /\ row.claim[r] = "none"
      /\ ~Fills(Holders(row), row.high)
      /\ item' = [j \in Items |->
                     IF j = i THEN [row EXCEPT !.claim[r] = "live",
                                               !.status = "in_review"]
                     ELSE IF store = "sqlite" THEN Purged(item[j]) ELSE item[j]]
  BY <1>2 DEF Claim
<1>5. PICK new : new = [row EXCEPT !.claim[r] = "live", !.status = "in_review"]
  OBVIOUS
<1>6. RowSound(new)
  BY <1>3, <1>4, <1>5, ClaimedSound
<1>7. item[i].status \notin Visible
  <2>1. row.status \notin Visible
    BY <1>3, <1>4, ShownIsClosed
  <2>2. row.status = item[i].status
    BY <1>1, <1>2 DEF RowSound, Row, Purged
  <2>. QED
    BY <2>1, <2>2
<1>8. Onward(item[i], new)
  BY <1>6, <1>7 DEF Onward, Kept, Visible
<1>9. ASSUME NEW j \in Items PROVE Onward(item[j], Purged(item[j]))
  <2>1. RowSound(item[j]) /\ RowSound(Purged(item[j]))
    BY <1>1, PurgedSound
  <2>2. CASE item[j].status \in Visible
    BY <2>1, <2>2, ShownIsNotPurged, Unchanged
  <2>3. CASE item[j].status \notin Visible
    BY <2>1, <2>3 DEF Onward, Kept, Visible
  <2>. QED
    BY <2>2, <2>3
<1>10. ASSUME NEW j \in Items PROVE Onward(item[j], item'[j])
  <2>1. CASE j = i
    BY <1>4, <1>5, <1>8, <2>1
  <2>2. CASE j # i /\ store = "sqlite"
    BY <1>4, <1>9, <2>2
  <2>3. CASE j # i /\ store # "sqlite"
    BY <1>1, <1>4, <2>3, Unchanged
  <2>. QED
    BY <2>1, <2>2, <2>3
<1>11. item' \in [Items -> Row]
  <2>1. \A j \in Items : item'[j] \in Row
    BY <1>10 DEF Onward, RowSound
  <2>. QED
    BY <1>4, <2>1
<1>. QED
  BY <1>10, <1>11

LEMMA ReviewOnward ==
    ASSUME ReviewInv, [ReviewNext]_review
    PROVE  ReviewInv' /\ \A j \in Items : Kept(item[j], item'[j])
<1>1. store \in Stores /\ item \in [Items -> Row] /\ expiries \in Nat
      /\ \A j \in Items : RowSound(item[j])
  BY DEF ReviewInv, ReviewTypeOK
<1>. SUFFICES store' \in Stores /\ expiries' \in Nat
              /\ item' \in [Items -> Row] /\ \A j \in Items : Onward(item[j], item'[j])
  BY DEF ReviewInv, ReviewTypeOK, Onward
<1>2. ASSUME NEW i \in Items, NEW row, item' = [item EXCEPT ![i] = row],
             Onward(item[i], row)
      PROVE  item' \in [Items -> Row] /\ \A j \in Items : Onward(item[j], item'[j])
  BY <1>1, <1>2, Unchanged DEF Onward, RowSound
<1>3. ASSUME NEW i \in Items, NEW high \in BOOLEAN, Enqueue(i, high)
      PROVE  store' \in Stores /\ expiries' \in Nat
             /\ item' \in [Items -> Row] /\ \A j \in Items : Onward(item[j], item'[j])
  BY <1>1, <1>3, EnqueueOnward DEF Enqueue
<1>4. ASSUME NEW i \in Items, NEW r \in Reviewers, Claim(i, r)
      PROVE  store' \in Stores /\ expiries' \in Nat
             /\ item' \in [Items -> Row] /\ \A j \in Items : Onward(item[j], item'[j])
  BY <1>1, <1>4, ClaimOnward DEF Claim
<1>5. ASSUME NEW i \in Items, NEW r \in Reviewers, NEW d \in Decisions, Decide(i, r, d)
      PROVE  store' \in Stores /\ expiries' \in Nat
             /\ item' \in [Items -> Row] /\ \A j \in Items : Onward(item[j], item'[j])
  <2>1. PICK new : new = [Decided(item[i], r, d) EXCEPT
                             !.status = StatusFromDecisions(Decided(item[i], r, d))]
    OBVIOUS
  <2>2. RowSound(new)
    BY <1>1, <1>5, <2>1, DecidedSound DEF Decide
  <2>3. item[i].status \notin Visible
    BY <1>1, <1>5, ShownIsClosed DEF Decide
  <2>4. Onward(item[i], new)
    BY <2>2, <2>3 DEF Onward, Kept, Visible
  <2>5. item' = [item EXCEPT ![i] = new]
    BY <1>5, <2>1 DEF Decide
  <2>. QED
    BY <1>1, <1>2, <1>5, <2>4, <2>5 DEF Decide
<1>6. ASSUME NEW i \in Items, NEW a \in Adjudicators, NEW d \in Decisions,
             Adjudicate(i, a, d)
      PROVE  store' \in Stores /\ expiries' \in Nat
             /\ item' \in [Items -> Row] /\ \A j \in Items : Onward(item[j], item'[j])
  <2>1. PICK new : new = [item[i] EXCEPT !.status = Verdict(d), !.adjudicator = a]
    OBVIOUS
  <2>2. RowSound(new) /\ new.status \in Terminal /\ new.decision = item[i].decision
    <3>1. item[i].status = "adjudication_required" /\ a \notin Deciders(item[i])
      BY <1>6 DEF Adjudicate
    <3>2. PICK row : row = item[i]
      OBVIOUS
    <3>3. /\ RowSound(row)
          /\ row.status = "adjudication_required"
          /\ a \notin Deciders(row)
          /\ new = [row EXCEPT !.status = Verdict(d), !.adjudicator = a]
      BY <1>1, <2>1, <3>1, <3>2
    <3>4. RowSound(new) /\ new.status \in Terminal /\ new.decision = row.decision
      BY <3>3, AdjudicatedSound, ZenonT(40)
    <3>. QED
      BY <3>2, <3>4
  <2>3. Onward(item[i], new)
    BY <1>6, <2>2 DEF Onward, Kept, Visible, Terminal, Adjudicate
  <2>4. item' = [item EXCEPT ![i] = new]
    BY <1>1, <1>6, <2>1 DEF Adjudicate
  <2>. QED
    BY <1>1, <1>2, <1>6, <2>3, <2>4 DEF Adjudicate
<1>7. ASSUME NEW i \in Items, NEW r \in Reviewers, Expire(i, r)
      PROVE  store' \in Stores /\ expiries' \in Nat
             /\ item' \in [Items -> Row] /\ \A j \in Items : Onward(item[j], item'[j])
  <2>1. PICK new : new = [item[i] EXCEPT !.claim[r] = "expired"]
    OBVIOUS
  <2>2. RowSound(new)
    BY <1>1, <1>7, <2>1, ExpiredSound DEF Expire
  <2>3. item[i].status \notin Visible
    BY <1>1, <1>7, ShownIsClosed DEF Expire
  <2>4. Onward(item[i], new)
    BY <2>2, <2>3 DEF Onward, Kept, Visible
  <2>5. item' = [item EXCEPT ![i] = new]
    BY <1>1, <1>7, <2>1 DEF Expire
  <2>. QED
    <3>1. store' \in Stores /\ expiries' \in Nat
      BY <1>1, <1>7 DEF Expire
    <3>. QED
      BY <1>2, <2>4, <2>5, <3>1
<1>8. CASE UNCHANGED review
  BY <1>1, <1>8, Unchanged DEF review
<1>. QED
  BY <1>3, <1>4, <1>5, <1>6, <1>7, <1>8 DEF ReviewNext

LEMMA ReviewStarts == ReviewInit => ReviewInv
BY AbsentSound DEF ReviewInit, ReviewInv, ReviewTypeOK, RowSound

\* With two deciders, a verdict is theirs alike or that of a third who is neither.
LEMMA PairDecides ==
    ASSUME NEW row, RowSound(row), row.status \in Terminal,
           \E r, s \in Deciders(row) : r # s
    PROVE  TwoPeople(row)
<1>1. CASE row.adjudicator # NoOne
  <2>1. row.adjudicator \notin Deciders(row)
    BY <1>1 DEF RowSound, Tallied
  <2>. QED
    BY <1>1, <2>1 DEF TwoPeople
<1>2. CASE row.adjudicator = NoOne
  <2>1. row.status = StatusFromDecisions(row)
    BY <1>2 DEF RowSound, Tallied
  <2>2. Deciders(row) = Said(row, "approve") \cup Said(row, "reject")
    BY DEF RowSound, Row, Deciders, Said, Decisions
  <2>3. \/ row.status = "approved" /\ Said(row, "reject") = {}
        \/ row.status = "rejected" /\ Said(row, "approve") = {}
    BY <2>1 DEF StatusFromDecisions, Terminal
  <2>4. \E d \in Decisions : row.status = Verdict(d) /\ Said(row, d) = Deciders(row)
    BY <2>2, <2>3 DEF Decisions, Verdict
  <2>. QED
    BY <2>4 DEF TwoPeople
<1>. QED
  BY <1>1, <1>2

LEMMA VerdictsIndependent == ReviewInv => IndependentVerdicts
<1>. SUFFICES ASSUME ReviewInv, NEW i \in Items,
                     item[i].high, item[i].status \in Terminal
              PROVE  TwoPeople(item[i])
  BY DEF IndependentVerdicts
<1>1. PICK row : row = item[i]
  OBVIOUS
<1>2. RowSound(row) /\ row.high /\ row.status \in Terminal
  BY <1>1 DEF ReviewInv
<1>3. \E r, s \in Deciders(row) : r # s
  BY <1>2 DEF RowSound, Tallied, Fills, Visible
<1>. QED
  BY <1>1, <1>2, <1>3, PairDecides

----------------------------------------------------------------------------------
(* The ladder.                                                                      *)

EvidenceRow == [status      : Visible \cup {"absent", "pending", "in_review"},
                decision    : [Reviewers -> Decisions \cup {"none"}],
                adjudicator : Adjudicators \cup {NoOne}]
EvidenceSet == UNION {[S -> EvidenceRow] : S \in SUBSET Items}
WorkRow == [pc : {"fresh", "checked", "sampling", "awaiting_review", "refused"},
            stage : Stage, dev : BOOLEAN, prior : Campaigns \cup {None},
            priorHash : Nat, bound : [Governed -> Nat],
            sample : SUBSET Items, todo : SUBSET Items]
FinalRow == [pc : {"idle", "governance", "replay"}, gates : BOOLEAN, pending : BOOLEAN,
             seen : EvidenceSet \cup {Unread}, at : Items \cup {None}]
DecisionRow == [writes : Nat, status : {"passed", "blocked", "failed"},
                evidence : EvidenceSet \cup {Unread}]

Typed ==
    /\ files \in [Governed -> [version : Nat, valid : BOOLEAN]]
    /\ work \in [Campaigns -> WorkRow]
    /\ final \in [Campaigns -> FinalRow]
    /\ decision \in [Campaigns -> DecisionRow]
    /\ build \in [pc : {"idle", "validated", "written"}, on : Campaigns \cup {None},
                  hash : Nat]
    /\ build.pc # "idle" => build.on \in Campaigns
    /\ promoted \subseteq Campaigns

Manifested(c) == work[c].pc = "awaiting_review"
Settled(S)    == \A i \in S : item[i].status \in Terminal

\* What the replay has read of an item with a verdict is what the authority says.
FinalSound(c) ==
    /\ final[c].pc # "idle" => Manifested(c)
    /\ final[c].at # None => final[c].at \in DOMAIN final[c].seen
    /\ DOMAIN final[c].seen \subseteq Items
    /\ \A i \in DOMAIN final[c].seen :
           final[c].seen[i].status \in Terminal =>
               item[i].status \in Terminal /\ final[c].seen[i] = Evidence(i)

PassedSound(c) ==
    decision[c].status = "passed" =>
        /\ Manifested(c)
        /\ Settled(work[c].sample)
        /\ decision[c].evidence = Now(work[c].sample)
        /\ Adequate(decision[c].evidence, work[c].sample)

\* A run is bound to files as new as those of the stage below it, and no newer than
\* those of now.
AsNew(c, p) == \A f \in Governed : work[p].bound[f] <= work[c].bound[f]

ChainSound(c) ==
    LET p == work[c].prior IN
    /\ \A f \in Governed : work[c].bound[f] <= files[f].version
    /\ p # None =>
           /\ work[c].stage = "calibration_5k" /\ ~work[c].dev
           /\ work[p].stage = "calibration_200" /\ ~work[p].dev
           /\ Manifested(p)
           /\ work[c].pc \in {"checked", "sampling", "awaiting_review"}
           /\ work[c].pc # "checked" => AsNew(c, p)
           /\ final[c].pc = "replay" /\ final[c].gates => work[c].bound = work[p].bound
           /\ decision[c].status = "passed" => work[c].bound = work[p].bound

Reviewed(c) == \A i \in work[c].sample : item[i].status \in Terminal /\ TwoPeople(item[i])

Earned(c) ==
    LET p == work[c].prior IN
    /\ Manifested(c) /\ p # None /\ work[c].bound = work[p].bound
    /\ Reviewed(c) /\ Reviewed(p)

LadderInv ==
    /\ ReviewInv
    /\ Typed
    /\ \A c \in Campaigns : FinalSound(c) /\ PassedSound(c) /\ ChainSound(c)
    /\ \A c \in promoted : Earned(c)

LEMMA LadderStarts == Init => LadderInv
<1>. SUFFICES ASSUME Init PROVE LadderInv
  OBVIOUS
<1>1. ReviewInv
  BY ReviewStarts DEF Init
<1>2. NoWork \in WorkRow /\ Idle \in FinalRow /\ NoDecision \in DecisionRow
  BY DEF NoWork, Idle, NoDecision, WorkRow, FinalRow, DecisionRow, Stage, Unread
<1>3. Typed
  BY <1>2 DEF Init, Typed, NoBuild
<1>4. ASSUME NEW c \in Campaigns PROVE FinalSound(c) /\ PassedSound(c) /\ ChainSound(c)
  BY DEF Init, FinalSound, PassedSound, ChainSound, NoWork, Idle, NoDecision, Unread
<1>5. promoted = {}
  BY DEF Init
<1>. QED
  BY <1>1, <1>3, <1>4, <1>5 DEF LadderInv

----------------------------------------------------------------------------------
(* What reviewers do to evidence that was read.                                     *)

Steady == \A i \in Items : item[i].status \in Terminal => item'[i] = item[i]

LEMMA NowSteady ==
    ASSUME Steady, NEW S \in SUBSET Items, Settled(S)
    PROVE  Settled(S)' /\ Now(S)' = Now(S)
<1>1. \A i \in S : item'[i] = item[i]
  BY DEF Steady, Settled
<1>. QED
  BY <1>1 DEF Settled, Now, Evidence

LEMMA FinalSteady ==
    ASSUME Steady, NEW c \in Campaigns, FinalSound(c), final'[c] = final[c],
           Manifested(c) => Manifested(c)'
    PROVE  FinalSound(c)'
<1>1. ASSUME NEW i \in DOMAIN final[c].seen, final[c].seen[i].status \in Terminal
      PROVE  item'[i] = item[i]
  BY <1>1 DEF FinalSound, Steady
<1>. QED
  BY <1>1 DEF FinalSound, Evidence, Manifested

LEMMA PassedSteady ==
    ASSUME Steady, Typed, NEW c \in Campaigns, PassedSound(c),
           decision'[c] = decision[c], Manifested(c) => work'[c] = work[c]
    PROVE  PassedSound(c)'
<1>. SUFFICES ASSUME decision[c].status = "passed" PROVE PassedSound(c)'
  BY DEF PassedSound
<1>1. /\ Manifested(c) /\ work'[c] = work[c]
      /\ Settled(work[c].sample)
      /\ decision[c].evidence = Now(work[c].sample)
      /\ Adequate(decision[c].evidence, work[c].sample)
  BY DEF PassedSound
<1>2. PICK S \in SUBSET Items : S = work[c].sample
  BY DEF Typed, WorkRow
<1>3. Settled(S)' /\ Now(S)' = Now(S)
  BY <1>1, <1>2, NowSteady
<1>. QED
  BY <1>1, <1>2, <1>3 DEF PassedSound, Manifested

LEMMA EarnedSteady ==
    ASSUME Steady, Typed, NEW c \in Campaigns, Earned(c),
           \A d \in Campaigns : Manifested(d) => work'[d] = work[d],
           Manifested(work[c].prior)
    PROVE  Earned(c)'
<1>1. PICK p \in Campaigns : p = work[c].prior
  BY DEF Typed, WorkRow, Earned
<1>2. work'[c] = work[c] /\ work'[p] = work[p]
  BY <1>1 DEF Earned
<1>3. ASSUME NEW d \in Campaigns, work'[d] = work[d], Reviewed(d) PROVE Reviewed(d)'
  <2>1. \A i \in work[d].sample : item'[i] = item[i]
    BY <1>3 DEF Reviewed, Steady, Typed, WorkRow
  <2>. QED
    BY <1>3, <2>1 DEF Reviewed, TwoPeople, Deciders, Said
<1>4. Reviewed(c)' /\ Reviewed(p)'
  BY <1>1, <1>2, <1>3 DEF Earned
<1>. QED
  BY <1>1, <1>2, <1>4 DEF Earned, Manifested

----------------------------------------------------------------------------------
(* Steps of the ladder.                                                             *)

\* Everything of a campaign but its own run.
Others == UNCHANGED <<files, final, decision, build, promoted>>

\* The work of a run before its manifest, and the manifest, may be replaced by w.
MayBecome(w) ==
    /\ w \in WorkRow
    /\ \A f \in Governed : w.bound[f] <= files[f].version
    /\ w.prior # None =>
           /\ w.stage = "calibration_5k" /\ ~w.dev
           /\ work[w.prior].stage = "calibration_200" /\ ~work[w.prior].dev
           /\ Manifested(w.prior)
           /\ w.pc \in {"checked", "sampling", "awaiting_review"}
           /\ w.pc # "checked" =>
                  \A f \in Governed : work[w.prior].bound[f] <= w.bound[f]

LEMMA WorkMoves ==
    ASSUME LadderInv, ReviewInv', Steady, NEW c \in Campaigns, ~Manifested(c),
           NEW w, MayBecome(w), work' = [work EXCEPT ![c] = w], Others
    PROVE  LadderInv'
<1>1. Typed /\ Typed'
  BY DEF LadderInv, Typed, MayBecome, Others
<1>2. \A d \in Campaigns : Manifested(d) => work'[d] = work[d] /\ Manifested(d)'
  BY <1>1 DEF Typed, Manifested
<1>3. ASSUME NEW d \in Campaigns PROVE FinalSound(d)'
  BY <1>2, FinalSteady DEF LadderInv, Others
<1>4. ASSUME NEW d \in Campaigns PROVE PassedSound(d)'
  BY <1>1, <1>2, PassedSteady DEF LadderInv, Others
<1>5. ASSUME NEW d \in Campaigns, d # c PROVE ChainSound(d)'
  <2>1. work'[d] = work[d] /\ work[d] \in WorkRow
    BY <1>1, <1>5 DEF Typed
  <2>2. CASE work[d].prior = None
    BY <2>1, <2>2 DEF LadderInv, ChainSound, Others
  <2>3. CASE work[d].prior # None
    <3>1. PICK p \in Campaigns : p = work[d].prior
      BY <2>1, <2>3 DEF WorkRow
    <3>2. work'[p] = work[p] /\ Manifested(p)'
      BY <1>2, <2>3, <3>1 DEF LadderInv, ChainSound
    <3>. QED
      BY <2>1, <2>3, <3>1, <3>2 DEF LadderInv, ChainSound, AsNew, Others
  <2>. QED
    BY <2>2, <2>3
<1>6. ChainSound(c)'
  <2>1. work'[c] = w /\ w \in WorkRow /\ final'[c].pc = "idle"
        /\ decision'[c].status # "passed"
    BY <1>1 DEF LadderInv, Typed, FinalRow, FinalSound, PassedSound, MayBecome, Others
  <2>2. CASE w.prior = None
    BY <2>1, <2>2 DEF MayBecome, ChainSound, Others
  <2>3. CASE w.prior # None
    <3>1. PICK p \in Campaigns : p = w.prior
      BY <2>1, <2>3 DEF WorkRow
    <3>2. work'[p] = work[p] /\ Manifested(p)'
      BY <1>2, <2>3, <3>1 DEF MayBecome
    <3>. QED
      BY <2>1, <2>3, <3>1, <3>2 DEF MayBecome, ChainSound, AsNew, Others
  <2>. QED
    BY <2>2, <2>3
<1>7. ASSUME NEW d \in promoted' PROVE Earned(d)'
  <2>1. d \in Campaigns /\ Earned(d) /\ ChainSound(d)
    BY DEF LadderInv, Typed, Others
  <2>2. Manifested(work[d].prior)
    BY <2>1 DEF Earned, ChainSound
  <2>. QED
    BY <1>1, <1>2, <2>1, <2>2, EarnedSteady
<1>. QED
  BY <1>1, <1>3, <1>4, <1>5, <1>6, <1>7 DEF LadderInv

\* Reviews go on, or the governed files change for newer ones.
LEMMA OthersMove ==
    ASSUME LadderInv, ReviewInv', Steady, Typed', promoted' = promoted,
           UNCHANGED <<work, final, decision>>,
           \A f \in Governed : files[f].version <= files'[f].version
    PROVE  LadderInv'
<1>1. Typed
  BY DEF LadderInv
<1>2. \A d \in Campaigns : Manifested(d) => work'[d] = work[d] /\ Manifested(d)'
  BY DEF Manifested
<1>3. ASSUME NEW d \in Campaigns PROVE FinalSound(d)' /\ PassedSound(d)'
  BY <1>1, <1>2, FinalSteady, PassedSteady DEF LadderInv
<1>4. ASSUME NEW d \in Campaigns PROVE ChainSound(d)'
  <2>1. ChainSound(d)
    BY DEF LadderInv
  <2>2. ASSUME NEW f \in Governed PROVE work[d].bound[f] <= files'[f].version
    <3>1. work[d].bound[f] \in Nat /\ files[f].version \in Nat /\ files'[f].version \in Nat
      BY <1>1 DEF Typed, WorkRow
    <3>. QED
      BY <2>1, <3>1 DEF ChainSound
  <2>. QED
    BY <2>1, <2>2 DEF ChainSound, AsNew, Manifested
<1>5. ASSUME NEW d \in promoted' PROVE Earned(d)'
  <2>1. d \in Campaigns /\ Earned(d) /\ ChainSound(d)
    BY DEF LadderInv, Typed
  <2>2. Manifested(work[d].prior)
    BY <2>1 DEF Earned, ChainSound
  <2>. QED
    BY <1>1, <1>2, <2>1, <2>2, EarnedSteady
<1>. QED
  BY <1>3, <1>4, <1>5 DEF LadderInv

\* A finalisation moves on, and perhaps concludes.
LEMMA FinalMoves ==
    ASSUME LadderInv, NEW c \in Campaigns, Manifested(c),
           NEW f \in FinalRow, final' = [final EXCEPT ![c] = f],
           NEW v \in DecisionRow, decision' = [decision EXCEPT ![c] = v],
           UNCHANGED <<review, files, work, build, promoted>>,
           FinalSound(c)', PassedSound(c)',
           work[c].prior # None /\ ((f.pc = "replay" /\ f.gates) \/ v.status = "passed") =>
               work[c].bound = work[work[c].prior].bound
    PROVE  LadderInv'
<1>1. Typed /\ Typed'
  BY DEF LadderInv, Typed
<1>2. ReviewInv' /\ Steady
  BY DEF LadderInv, ReviewInv, ReviewTypeOK, review, Steady
<1>3. ASSUME NEW d \in Campaigns PROVE FinalSound(d)' /\ PassedSound(d)'
  <2>1. CASE d = c
    BY <2>1
  <2>2. CASE d # c
    <3>1. final'[d] = final[d] /\ decision'[d] = decision[d]
      BY <1>1, <2>2 DEF Typed
    <3>. QED
      BY <1>1, <1>2, <3>1, FinalSteady, PassedSteady DEF LadderInv, Manifested
  <2>. QED
    BY <2>1, <2>2
<1>4. ASSUME NEW d \in Campaigns PROVE ChainSound(d)'
  <2>1. ChainSound(d)
    BY DEF LadderInv
  <2>2. CASE d = c
    <3>1. final'[c] = f /\ decision'[c] = v
      BY <1>1 DEF Typed
    <3>. QED
      BY <2>1, <2>2, <3>1 DEF ChainSound, AsNew, Manifested
  <2>3. CASE d # c
    <3>1. final'[d] = final[d] /\ decision'[d] = decision[d]
      BY <1>1, <2>3 DEF Typed
    <3>. QED
      BY <2>1, <3>1 DEF ChainSound, AsNew, Manifested
  <2>. QED
    BY <2>2, <2>3
<1>5. ASSUME NEW d \in promoted' PROVE Earned(d)'
  <2>1. d \in Campaigns /\ Earned(d) /\ ChainSound(d)
    BY DEF LadderInv, Typed
  <2>2. Manifested(work[d].prior)
    BY <2>1 DEF Earned, ChainSound
  <2>. QED
    BY <1>1, <1>2, <2>1, <2>2, EarnedSteady DEF Manifested
<1>. QED
  BY <1>1, <1>2, <1>3, <1>4, <1>5 DEF LadderInv

LEMMA StepReviews ==
    ASSUME LadderInv, ReviewNext \/ UNCHANGED review
    PROVE  ReviewInv' /\ Steady
BY ReviewOnward DEF LadderInv, Kept, Steady, Visible

LEMMA BeginMoves ==
    ASSUME LadderInv, NEW c \in Campaigns, NEW stage \in Stage, NEW dev \in BOOLEAN,
           NEW p \in Campaigns \cup {None}, Begin(c, stage, dev, p)
    PROVE  LadderInv'
<1>1. ReviewInv' /\ Steady
  BY StepReviews DEF Begin
<1>2. Typed
  BY DEF LadderInv
<1>3. PICK w : w = [work[c] EXCEPT !.pc = "checked", !.stage = stage, !.dev = dev,
                                   !.prior = p]
  OBVIOUS
<1>4. work' = [work EXCEPT ![c] = w] /\ Others /\ ~Manifested(c)
  BY <1>2, <1>3 DEF Begin, Others, Manifested, Typed
<1>5. /\ w \in WorkRow /\ w.pc = "checked" /\ w.stage = stage /\ w.dev = dev
      /\ w.prior = p /\ w.bound = work[c].bound
  <2>1. PICK r \in WorkRow : r = work[c]
    BY <1>2 DEF Typed
  <2>2. w = [r EXCEPT !.pc = "checked", !.stage = stage, !.dev = dev, !.prior = p]
    BY <1>3, <2>1
  <2>. QED
    BY <2>1, <2>2 DEF WorkRow
<1>6. p # None => /\ stage = "calibration_5k" /\ ~dev
                  /\ work[p].stage = "calibration_200" /\ ~work[p].dev /\ Manifested(p)
  <2>1. p # None => stage = "calibration_5k" /\ ~dev /\ Stands(p, "calibration_200")
    BY DEF Begin
  <2>2. p # None => PassedSound(p)
    BY DEF LadderInv
  <2>. QED
    BY <2>1, <2>2 DEF Stands, PassedSound
<1>7. \A f \in Governed : w.bound[f] <= files[f].version
  BY <1>5 DEF LadderInv, ChainSound
<1>8. MayBecome(w)
  BY <1>5, <1>6, <1>7 DEF MayBecome
<1>. QED
  BY <1>1, <1>4, <1>8, WorkMoves

LEMMA RefusedMoves ==
    ASSUME LadderInv, NEW c \in Campaigns, Preflight(c) \/ RunDies(c)
    PROVE  LadderInv'
<1>1. ReviewInv' /\ Steady
  BY StepReviews DEF Preflight, RunDies
<1>2. work' = [work EXCEPT ![c] = Refused] /\ Others /\ ~Manifested(c)
  BY DEF Preflight, RunDies, Others, Manifested
<1>3. MayBecome(Refused)
  <2>1. PICK w : w = Refused
    OBVIOUS
  <2>2. w = [pc |-> "refused", stage |-> "calibration_200", dev |-> FALSE, prior |-> None,
             priorHash |-> 0, bound |-> [f \in Governed |-> 0], sample |-> {}, todo |-> {}]
    BY <2>1 DEF Refused, NoWork
  <2>3. w \in WorkRow /\ w.prior = None /\ \A f \in Governed : w.bound[f] = 0
    BY <2>2 DEF WorkRow, Stage
  <2>4. \A f \in Governed : files[f].version \in Nat
    BY DEF LadderInv, Typed
  <2>. QED
    BY <2>1, <2>3, <2>4 DEF MayBecome
<1>. QED
  BY <1>1, <1>2, <1>3, WorkMoves

LEMMA CrawlMoves ==
    ASSUME LadderInv, NEW c \in Campaigns, NEW sample \in SUBSET Items, Crawl(c, sample)
    PROVE  LadderInv'
<1>1. ReviewInv' /\ Steady
  BY StepReviews DEF Crawl
<1>2. Typed /\ ChainSound(c)
  BY DEF LadderInv
<1>3. PICK b : b = [f \in Governed |-> files[f].version]
  OBVIOUS
<1>4. PICK h : h = IF work[c].prior = None THEN 0 ELSE decision[work[c].prior].writes
  OBVIOUS
<1>5. b \in [Governed -> Nat] /\ h \in Nat
  BY <1>2, <1>3, <1>4 DEF Typed, WorkRow, DecisionRow
<1>6. PICK w : w = [work[c] EXCEPT !.pc = "sampling", !.sample = sample, !.todo = sample,
                                   !.priorHash = h, !.bound = b]
  OBVIOUS
<1>7. work' = [work EXCEPT ![c] = w] /\ Others /\ ~Manifested(c)
  BY <1>2, <1>3, <1>4, <1>6 DEF Crawl, Others, Manifested, Typed
<1>8. /\ w \in WorkRow /\ w.pc = "sampling" /\ w.stage = work[c].stage
      /\ w.dev = work[c].dev /\ w.prior = work[c].prior /\ w.bound = b
  <2>1. PICK r \in WorkRow : r = work[c]
    BY <1>2 DEF Typed
  <2>2. w = [r EXCEPT !.pc = "sampling", !.sample = sample, !.todo = sample,
                      !.priorHash = h, !.bound = b]
    BY <1>6, <2>1
  <2>. QED
    BY <1>5, <2>1, <2>2 DEF WorkRow
<1>9. \A f \in Governed : w.bound[f] = files[f].version /\ files[f].version \in Nat
  BY <1>2, <1>3, <1>8 DEF Typed
<1>10. MayBecome(w)
  <2>1. CASE work[c].prior = None
    BY <1>8, <1>9, <2>1 DEF MayBecome
  <2>2. CASE work[c].prior # None
    <3>1. PICK p \in Campaigns : p = work[c].prior
      BY <1>2, <2>2 DEF Typed, WorkRow
    <3>2. ChainSound(p)
      BY DEF LadderInv
    <3>3. \A f \in Governed : work[p].bound[f] <= w.bound[f]
      BY <1>9, <3>2 DEF ChainSound
    <3>. QED
      BY <1>2, <1>8, <1>9, <2>2, <3>1, <3>3 DEF MayBecome, ChainSound
  <2>. QED
    BY <2>1, <2>2
<1>. QED
  BY <1>1, <1>7, <1>10, WorkMoves

LEMMA BindSampleMoves ==
    ASSUME LadderInv, NEW c \in Campaigns, NEW i \in Items, BindSample(c, i)
    PROVE  LadderInv'
<1>1. Enqueue(i, TRUE)
  BY DEF BindSample, Enqueue
<1>2. ReviewNext
  BY <1>1 DEF ReviewNext
<1>3. ReviewInv' /\ Steady
  BY <1>2, StepReviews
<1>4. Typed /\ ChainSound(c)
  BY DEF LadderInv
<1>5. PICK w : w = [work[c] EXCEPT !.todo = @ \ {i}]
  OBVIOUS
<1>6. work' = [work EXCEPT ![c] = w] /\ Others /\ ~Manifested(c) /\ work[c].pc = "sampling"
  BY <1>4, <1>5 DEF BindSample, Others, Manifested, Typed
<1>7. /\ w \in WorkRow /\ w.pc = work[c].pc /\ w.stage = work[c].stage
      /\ w.dev = work[c].dev /\ w.prior = work[c].prior /\ w.bound = work[c].bound
  <2>1. PICK r \in WorkRow : r = work[c]
    BY <1>4 DEF Typed
  <2>2. w = [r EXCEPT !.todo = r.todo \ {i}]
    BY <1>5, <2>1
  <2>. QED
    BY <2>1, <2>2 DEF WorkRow
<1>8. MayBecome(w)
  BY <1>4, <1>6, <1>7 DEF MayBecome, ChainSound, AsNew
<1>. QED
  BY <1>3, <1>6, <1>8, WorkMoves

LEMMA ManifestMoves ==
    ASSUME LadderInv, NEW c \in Campaigns, WriteManifest(c)
    PROVE  LadderInv'
<1>1. ReviewInv' /\ Steady
  BY StepReviews DEF WriteManifest
<1>2. Typed /\ ChainSound(c)
  BY DEF LadderInv
<1>3. PICK b : b = [f \in Governed |->
                       IF f = Registry THEN work[c].bound[f] ELSE files[f].version]
  OBVIOUS
<1>4. /\ b \in [Governed -> Nat]
      /\ \A f \in Governed : work[c].bound[f] <= b[f] /\ b[f] <= files[f].version
  <2>1. \A f \in Governed : /\ work[c].bound[f] \in Nat /\ files[f].version \in Nat
                            /\ work[c].bound[f] <= files[f].version
    BY <1>2 DEF Typed, WorkRow, ChainSound
  <2>. QED
    BY <1>3, <2>1
<1>5. PICK w : w = [work[c] EXCEPT !.pc = "awaiting_review", !.bound = b]
  OBVIOUS
<1>6. work' = [work EXCEPT ![c] = w] /\ Others /\ ~Manifested(c) /\ work[c].pc = "sampling"
  BY <1>2, <1>3, <1>5 DEF WriteManifest, Others, Manifested, Typed
<1>7. /\ w \in WorkRow /\ w.pc = "awaiting_review" /\ w.stage = work[c].stage
      /\ w.dev = work[c].dev /\ w.prior = work[c].prior /\ w.bound = b
  <2>1. PICK r \in WorkRow : r = work[c]
    BY <1>2 DEF Typed
  <2>2. w = [r EXCEPT !.pc = "awaiting_review", !.bound = b]
    BY <1>5, <2>1
  <2>. QED
    BY <1>4, <2>1, <2>2 DEF WorkRow
<1>8. MayBecome(w)
  <2>1. CASE work[c].prior = None
    BY <1>4, <1>7, <2>1 DEF MayBecome
  <2>2. CASE work[c].prior # None
    <3>1. PICK p \in Campaigns : p = work[c].prior
      BY <1>2, <2>2 DEF Typed, WorkRow
    <3>2. \A f \in Governed : /\ work[p].bound[f] \in Nat /\ work[c].bound[f] \in Nat
                              /\ b[f] \in Nat /\ work[p].bound[f] <= work[c].bound[f]
      BY <1>2, <1>4, <1>6, <2>2, <3>1 DEF Typed, WorkRow, ChainSound, AsNew
    <3>3. \A f \in Governed : work[p].bound[f] <= b[f]
      BY <1>4, <3>2
    <3>. QED
      BY <1>2, <1>4, <1>6, <1>7, <2>2, <3>1, <3>3 DEF MayBecome, ChainSound
  <2>. QED
    BY <2>1, <2>2
<1>. QED
  BY <1>1, <1>6, <1>8, WorkMoves

----------------------------------------------------------------------------------
(* Steps of a finalisation.                                                         *)

LEMMA ReplayMoves ==
    ASSUME LadderInv, NEW c \in Campaigns, Manifested(c),
           NEW f \in FinalRow, final' = [final EXCEPT ![c] = f],
           UNCHANGED <<review, files, work, decision, build, promoted>>,
           FinalSound(c)',
           work[c].prior # None /\ f.pc = "replay" /\ f.gates =>
               work[c].bound = work[work[c].prior].bound
    PROVE  LadderInv'
<1>1. ReviewInv' /\ Steady
  BY DEF LadderInv, ReviewInv, ReviewTypeOK, review, Steady
<1>2. Typed /\ PassedSound(c) /\ ChainSound(c)
  BY DEF LadderInv
<1>3. PICK v \in DecisionRow : v = decision[c]
  BY <1>2 DEF Typed
<1>4. decision' = [decision EXCEPT ![c] = v]
  BY <1>2, <1>3 DEF Typed
<1>5. PassedSound(c)'
  BY <1>1, <1>2, PassedSteady
<1>6. work[c].prior # None /\ ((f.pc = "replay" /\ f.gates) \/ v.status = "passed") =>
          work[c].bound = work[work[c].prior].bound
  BY <1>2, <1>3 DEF ChainSound
<1>. QED
  BY <1>4, <1>5, <1>6, FinalMoves

LEMMA CheckGovernanceMoves ==
    ASSUME LadderInv, NEW c \in Campaigns, CheckGovernance(c)
    PROVE  LadderInv'
<1>1. PICK r \in FinalRow : r = final[c]
  BY DEF LadderInv, Typed
<1>2. PICK g \in BOOLEAN : g = GovernanceStands(c)
  BY DEF GovernanceStands
<1>3. PICK f : f = [r EXCEPT !.pc = "governance", !.gates = g]
  OBVIOUS
<1>4. f \in FinalRow /\ f.pc = "governance" /\ f.seen = r.seen /\ f.at = r.at
  BY <1>3 DEF FinalRow
<1>5. final' = [final EXCEPT ![c] = f]
  BY <1>1, <1>2, <1>3 DEF LadderInv, Typed, CheckGovernance
<1>6. final'[c] = f /\ Manifested(c) /\ Manifested(c)'
      /\ UNCHANGED <<review, files, work, decision, build, promoted>>
  BY <1>5 DEF LadderInv, Typed, CheckGovernance, Manifested
<1>7. FinalSound(c)'
  BY <1>1, <1>4, <1>6 DEF LadderInv, FinalSound, Evidence, review
<1>. QED
  BY <1>4, <1>5, <1>6, <1>7, ReplayMoves

\* Versions only grow along the chain, so checks that each found the files as bound
\* found them alike, however far apart they were made.
LEMMA PriorBindsAlike ==
    ASSUME LadderInv, NEW c \in Campaigns, Manifested(c), PriorStands(c)
    PROVE  work[c].bound = work[work[c].prior].bound
<1>1. Typed /\ ChainSound(c)
  BY DEF LadderInv
<1>2. PICK p \in Campaigns : p = work[c].prior
  BY <1>1 DEF Typed, WorkRow, PriorStands
<1>3. p # None /\ Stands(p, "calibration_200")
  BY <1>2 DEF PriorStands
<1>4. ASSUME NEW f \in Governed PROVE work[c].bound[f] = work[p].bound[f]
  <2>1. work[c].bound[f] \in Nat /\ work[p].bound[f] \in Nat /\ files[f].version \in Nat
    BY <1>1 DEF Typed, WorkRow
  <2>2. files[f].version = work[p].bound[f]
    BY <1>3 DEF Stands, GovernanceStands
  <2>3. work[c].bound[f] <= files[f].version /\ work[p].bound[f] <= work[c].bound[f]
    BY <1>1, <1>2, <1>3 DEF ChainSound, AsNew, Manifested
  <2>. QED
    BY <2>1, <2>2, <2>3
<1>5. work[c].bound \in [Governed -> Nat] /\ work[p].bound \in [Governed -> Nat]
  BY <1>1 DEF Typed, WorkRow
<1>. QED
  BY <1>2, <1>4, <1>5

LEMMA CheckPriorMoves ==
    ASSUME LadderInv, NEW c \in Campaigns, CheckPrior(c)
    PROVE  LadderInv'
<1>0. Typed /\ FinalSound(c) /\ ChainSound(c)
  BY DEF LadderInv
<1>1. PICK r \in FinalRow : r = final[c]
  BY <1>0 DEF Typed
<1>2. PICK g \in BOOLEAN :
          g = (r.gates /\ (work[c].stage = "calibration_5k" /\ ~work[c].dev
                              => PriorStands(c)))
  OBVIOUS
<1>3. PICK b \in BOOLEAN : b = \E i \in work[c].sample : item[i].status \notin Terminal
  OBVIOUS
<1>4. PICK f : f = [r EXCEPT !.pc = "replay", !.gates = g, !.pending = b]
  OBVIOUS
<1>5. f \in FinalRow /\ f.pc = "replay" /\ f.gates = g /\ f.seen = r.seen /\ f.at = r.at
  BY <1>4 DEF FinalRow
<1>6. final' = [final EXCEPT ![c] = f]
  BY <1>0, <1>1, <1>2, <1>3, <1>4 DEF Typed, CheckPrior
<1>7. final'[c] = f /\ Manifested(c) /\ Manifested(c)'
      /\ UNCHANGED <<review, files, work, decision, build, promoted>>
  BY <1>0, <1>6 DEF Typed, FinalSound, CheckPrior, Manifested
<1>8. FinalSound(c)'
  BY <1>0, <1>1, <1>5, <1>7 DEF FinalSound, Evidence, review
<1>9. ASSUME work[c].prior # None, g PROVE work[c].bound = work[work[c].prior].bound
  <2>1. PriorStands(c)
    BY <1>0, <1>2, <1>9 DEF ChainSound
  <2>. QED
    BY <1>7, <2>1, PriorBindsAlike
<1>. QED
  BY <1>5, <1>6, <1>7, <1>8, <1>9, ReplayMoves

LEMMA ReplayRowMoves ==
    ASSUME LadderInv, NEW c \in Campaigns, NEW i \in Items, ReplayRow(c, i)
    PROVE  LadderInv'
<1>0. Typed /\ FinalSound(c) /\ ChainSound(c) /\ item[i] \in Row
  BY DEF LadderInv, ReviewInv, ReviewTypeOK
<1>1. PICK r \in FinalRow : r = final[c]
  BY <1>0 DEF Typed
<1>2. PICK e \in EvidenceRow : e = Evidence(i)
  BY <1>0 DEF Evidence, EvidenceRow, Row
<1>3. PICK seen : seen = [j \in DOMAIN r.seen \cup {i} |-> IF j = i THEN e ELSE r.seen[j]]
  OBVIOUS
<1>4. seen \in EvidenceSet /\ DOMAIN seen = DOMAIN r.seen \cup {i}
      /\ seen[i] = e /\ \A j \in DOMAIN r.seen : j # i => seen[j] = r.seen[j]
  <2>1. DOMAIN r.seen \subseteq Items
    BY <1>0, <1>1 DEF FinalSound
  <2>2. \A j \in DOMAIN r.seen : r.seen[j] \in EvidenceRow
    <3>1. CASE r.seen = Unread
      BY <3>1 DEF Unread
    <3>2. CASE r.seen \in EvidenceSet
      <4>1. PICK S \in SUBSET Items : r.seen \in [S -> EvidenceRow]
        BY <3>2 DEF EvidenceSet
      <4>. QED
        BY <4>1
    <3>. QED
      BY <3>1, <3>2 DEF FinalRow
  <2>3. PICK S \in SUBSET Items : S = DOMAIN r.seen \cup {i}
    BY <2>1
  <2>4. seen \in [S -> EvidenceRow]
    BY <1>3, <2>2, <2>3
  <2>. QED
    BY <1>3, <2>3, <2>4 DEF EvidenceSet
<1>5. PICK f : f = [r EXCEPT !.at = i, !.seen = seen]
  OBVIOUS
<1>6. f \in FinalRow /\ f.pc = r.pc /\ f.gates = r.gates /\ f.seen = seen /\ f.at = i
  BY <1>4, <1>5 DEF FinalRow
<1>7. final' = [final EXCEPT ![c] = f]
  BY <1>0, <1>1, <1>2, <1>3, <1>5 DEF Typed, ReplayRow
<1>8. final'[c] = f /\ Manifested(c) /\ Manifested(c)'
      /\ UNCHANGED <<review, files, work, decision, build, promoted>>
  BY <1>0, <1>7 DEF Typed, FinalSound, ReplayRow, Manifested
<1>9. FinalSound(c)'
  <2>1. \A j \in DOMAIN seen : seen[j].status \in Terminal =>
            item[j].status \in Terminal /\ seen[j] = Evidence(j)
    <3>1. e.status = item[i].status
      BY <1>2 DEF Evidence
    <3>. QED
      BY <1>0, <1>1, <1>2, <1>4, <3>1 DEF FinalSound
  <2>. QED
    BY <1>0, <1>1, <1>4, <1>6, <1>8, <2>1 DEF FinalSound, Evidence, review
<1>. QED
  BY <1>0, <1>1, <1>6, <1>7, <1>8, <1>9, ReplayMoves DEF ChainSound

\* Decisions read after the row of an item with a verdict are those it rests on.
LEMMA ReplayDecisionsMoves ==
    ASSUME LadderInv, NEW c \in Campaigns, ReplayDecisions(c)
    PROVE  LadderInv'
<1>0. Typed /\ FinalSound(c) /\ ChainSound(c)
  BY DEF LadderInv
<1>1. PICK r \in FinalRow : r = final[c]
  BY <1>0 DEF Typed
<1>2. PICK i \in DOMAIN r.seen : i = r.at
  BY <1>0, <1>1 DEF FinalSound, ReplayDecisions
<1>3. i \in Items /\ item[i] \in Row
  BY <1>0, <1>1 DEF FinalSound, LadderInv, ReviewInv, ReviewTypeOK
<1>4. PICK S \in SUBSET Items : r.seen \in [S -> EvidenceRow] /\ i \in S
  BY <1>2 DEF FinalRow, EvidenceSet, Unread
<1>5. PICK e : e = [Evidence(i) EXCEPT !.status = r.seen[i].status]
  OBVIOUS
<1>6. e \in EvidenceRow /\ e.status = r.seen[i].status
      /\ e.decision = item[i].decision /\ e.adjudicator = item[i].adjudicator
  <2>1. PICK o \in EvidenceRow : o = r.seen[i]
    BY <1>4
  <2>2. item[i].decision \in [Reviewers -> Decisions \cup {"none"}]
        /\ item[i].adjudicator \in Adjudicators \cup {NoOne}
    BY <1>3 DEF Row
  <2>. QED
    BY <1>5, <2>1, <2>2 DEF EvidenceRow, Evidence
<1>7. PICK seen : seen = [r.seen EXCEPT ![i] = e]
  OBVIOUS
<1>8. seen \in EvidenceSet /\ DOMAIN seen = DOMAIN r.seen
      /\ seen[i] = e /\ \A j \in DOMAIN r.seen : j # i => seen[j] = r.seen[j]
  <2>1. seen \in [S -> EvidenceRow]
    BY <1>4, <1>6, <1>7
  <2>. QED
    BY <1>4, <1>7, <2>1 DEF EvidenceSet
<1>9. PICK f : f = [r EXCEPT !.at = None, !.seen = seen]
  OBVIOUS
<1>10. f \in FinalRow /\ f.pc = r.pc /\ f.gates = r.gates /\ f.seen = seen /\ f.at = None
  BY <1>8, <1>9 DEF FinalRow
<1>11. final' = [final EXCEPT ![c] = f]
  <2>1. final' = [final EXCEPT ![c].at = None, ![c].seen[i] = e]
    BY <1>1, <1>2, <1>5 DEF ReplayDecisions
  <2>2. final' = [final EXCEPT ![c] = [r EXCEPT !.at = None, !.seen = [r.seen EXCEPT ![i] = e]]]
    BY <1>0, <1>1, <2>1 DEF Typed, FinalRow
  <2>. QED
    BY <1>7, <1>9, <2>2
<1>12. final'[c] = f /\ Manifested(c) /\ Manifested(c)'
       /\ UNCHANGED <<review, files, work, decision, build, promoted>>
  BY <1>0, <1>11 DEF Typed, FinalSound, ReplayDecisions, Manifested
<1>13. FinalSound(c)'
  <2>1. \A j \in DOMAIN seen : seen[j].status \in Terminal =>
            item[j].status \in Terminal /\ seen[j] = Evidence(j)
    <3>1. ASSUME e.status \in Terminal
          PROVE  item[i].status \in Terminal /\ e = Evidence(i)
      <4>1. r.seen[i] = Evidence(i) /\ item[i].status \in Terminal
        BY <1>0, <1>1, <1>6, <3>1 DEF FinalSound
      <4>2. e.status = item[i].status
        BY <1>6, <4>1 DEF Evidence
      <4>. QED
        BY <1>6, <4>1, <4>2 DEF EvidenceRow, Evidence
    <3>. QED
      BY <1>0, <1>1, <1>8, <3>1 DEF FinalSound
  <2>. QED
    BY <1>0, <1>1, <1>8, <1>10, <1>12, <2>1 DEF FinalSound, Evidence, review
<1>. QED
  BY <1>0, <1>1, <1>10, <1>11, <1>12, <1>13, ReplayMoves DEF ChainSound

LEMMA FinalDiesMoves ==
    ASSUME LadderInv, NEW c \in Campaigns, FinalDies(c)
    PROVE  LadderInv'
<1>1. Typed /\ FinalSound(c)
  BY DEF LadderInv
<1>2. final' = [final EXCEPT ![c] = Idle] /\ final'[c] = Idle
      /\ Manifested(c) /\ UNCHANGED <<review, files, work, decision, build, promoted>>
  BY <1>1 DEF FinalDies, Typed, FinalSound
<1>3. PICK f : f = Idle
  OBVIOUS
<1>4. f \in FinalRow /\ f.pc = "idle"
  BY <1>3 DEF Idle, FinalRow, Unread
<1>5. FinalSound(c)'
  BY <1>2 DEF FinalSound, Idle, Unread
<1>. QED
  BY <1>2, <1>3, <1>4, <1>5, ReplayMoves

\* Every item read had a verdict: what was read is what the authority says now.
LEMMA SeenIsNow ==
    ASSUME LadderInv, NEW c \in Campaigns, DOMAIN final[c].seen = work[c].sample,
           Adequate(final[c].seen, work[c].sample)
    PROVE  Settled(work[c].sample) /\ final[c].seen = Now(work[c].sample)
<1>1. FinalSound(c) /\ final[c] \in FinalRow /\ work[c] \in WorkRow
  BY DEF LadderInv, Typed
<1>2. PICK s : s = final[c].seen
  OBVIOUS
<1>3. PICK S \in SUBSET Items : S = work[c].sample
  BY <1>1 DEF WorkRow
<1>4. \A i \in S : s[i].status \in Terminal
  BY <1>2, <1>3 DEF Adequate
<1>5. \A i \in S : item[i].status \in Terminal /\ s[i] = Evidence(i)
  BY <1>1, <1>2, <1>3, <1>4 DEF FinalSound
<1>6. s = [i \in DOMAIN s |-> s[i]]
  <2>1. CASE s = Unread
    BY <2>1 DEF Unread
  <2>2. CASE s \in EvidenceSet
    <3>1. PICK T \in SUBSET Items : s \in [T -> EvidenceRow]
      BY <2>2 DEF EvidenceSet
    <3>. QED
      BY <3>1
  <2>. QED
    BY <1>1, <1>2, <2>1, <2>2 DEF FinalRow
<1>7. DOMAIN s = S
  BY <1>2, <1>3
<1>8. s = Now(S)
  BY <1>5, <1>6, <1>7 DEF Now
<1>. QED
  BY <1>2, <1>3, <1>5, <1>8 DEF Settled

LEMMA ConcludeMoves ==
    ASSUME LadderInv, NEW c \in Campaigns, Conclude(c)
    PROVE  LadderInv'
<1>0. Typed /\ FinalSound(c) /\ ChainSound(c)
  BY DEF LadderInv
<1>1. PICK r \in FinalRow : r = final[c]
  BY <1>0 DEF Typed
<1>2. PICK passed \in BOOLEAN : passed = (r.gates /\ Adequate(r.seen, work[c].sample))
  BY <1>1 DEF FinalRow
<1>3. PICK v : v = [writes |-> decision[c].writes + 1,
                    status |-> IF passed THEN "passed" ELSE IF r.pending THEN "blocked"
                               ELSE "failed",
                    evidence |-> IF passed THEN r.seen ELSE Unread]
  OBVIOUS
<1>4. PICK n \in Nat : n = decision[c].writes
  BY <1>0 DEF Typed, DecisionRow
<1>5. v \in DecisionRow /\ (v.status = "passed" => passed /\ v.evidence = r.seen)
  BY <1>3, <1>4 DEF FinalRow, DecisionRow
<1>6. decision' = [decision EXCEPT ![c] = v] /\ final' = [final EXCEPT ![c] = Idle]
      /\ UNCHANGED <<review, files, work, build, promoted>>
      /\ r.pc = "replay" /\ DOMAIN r.seen = work[c].sample
  BY <1>1, <1>2, <1>3 DEF Conclude
<1>7. decision'[c] = v /\ final'[c] = Idle /\ Manifested(c) /\ Manifested(c)'
  BY <1>0, <1>1, <1>6 DEF Typed, FinalSound, Manifested
<1>8. PICK f : f = Idle
  OBVIOUS
<1>9. f \in FinalRow /\ f.pc = "idle"
  BY <1>8 DEF Idle, FinalRow, Unread
<1>10. FinalSound(c)'
  BY <1>7 DEF FinalSound, Idle, Unread
<1>11. PassedSound(c)'
  <2>. SUFFICES ASSUME v.status = "passed" PROVE PassedSound(c)'
    BY <1>7 DEF PassedSound
  <2>1. PICK S : S = work[c].sample
    OBVIOUS
  <2>2. Adequate(r.seen, S) /\ v.evidence = r.seen
    BY <1>2, <1>5, <2>1
  <2>3. Settled(S) /\ r.seen = Now(S)
    BY <1>1, <1>6, <2>1, <2>2, SeenIsNow
  <2>4. Settled(S)' /\ Now(S)' = Now(S) /\ work'[c].sample = S
    BY <1>6, <2>1, <2>3 DEF review, Settled, Now, Evidence
  <2>. QED
    BY <1>7, <2>2, <2>3, <2>4 DEF PassedSound
<1>12. work[c].prior # None /\ v.status = "passed" =>
           work[c].bound = work[work[c].prior].bound
  BY <1>0, <1>1, <1>2, <1>5, <1>6 DEF ChainSound
<1>. QED
  BY <1>5, <1>6, <1>7, <1>8, <1>9, <1>10, <1>11, <1>12, FinalMoves

----------------------------------------------------------------------------------
(* Steps of the build.                                                              *)

LEMMA BuildMoves ==
    ASSUME LadderInv, UNCHANGED <<review, files, work, final, decision, promoted>>,
           Typed'
    PROVE  LadderInv'
<1>1. ReviewInv' /\ Steady
  BY DEF LadderInv, ReviewInv, ReviewTypeOK, review, Steady
<1>2. \A f \in Governed : files[f].version <= files'[f].version
  BY DEF LadderInv, Typed
<1>. QED
  BY <1>1, <1>2, OthersMove

LEMMA BuildBeginsMoves ==
    ASSUME LadderInv, NEW c \in Campaigns, BuildBegins(c)
    PROVE  LadderInv'
<1>1. Typed'
  BY DEF LadderInv, Typed, BuildBegins
<1>. QED
  BY <1>1, BuildMoves DEF BuildBegins

LEMMA BuildWritesMoves ==
    ASSUME LadderInv, BuildWrites
    PROVE  LadderInv'
<1>1. Typed'
  <2>1. build.on \in Campaigns /\ decision[build.on].writes \in Nat
    BY DEF LadderInv, Typed, DecisionRow, BuildWrites
  <2>. QED
    BY <2>1 DEF LadderInv, Typed, BuildWrites
<1>. QED
  BY <1>1, BuildMoves DEF BuildWrites

\* Two people decided each item of a sample that stands.
LEMMA StandsReviewed ==
    ASSUME LadderInv, NEW c \in Campaigns, NEW stage \in Stage, Stands(c, stage)
    PROVE  Reviewed(c) /\ Manifested(c)
<1>1. PassedSound(c) /\ decision[c].status = "passed"
  BY DEF LadderInv, Stands
<1>2. PICK S \in SUBSET Items : S = work[c].sample
  BY DEF LadderInv, Typed, WorkRow
<1>3. \A i \in S : Paired(Now(S)[i])
  BY <1>2 DEF Stands, Adequate
<1>4. ASSUME NEW i \in S PROVE item[i].status \in Terminal /\ TwoPeople(item[i])
  <2>1. PICK row : row = item[i]
    OBVIOUS
  <2>2. RowSound(row) /\ row.status \in Terminal
    BY <1>1, <1>2, <2>1 DEF LadderInv, ReviewInv, PassedSound, Settled
  <2>3. \E r, s \in Deciders(row) : r # s
    <3>1. PICK e : e = Now(S)[i]
      OBVIOUS
    <3>2. e.decision = row.decision
      BY <2>1, <3>1 DEF Now, Evidence
    <3>3. Deciders(e) = Deciders(row)
      BY <3>2 DEF Deciders
    <3>4. Paired(e)
      BY <1>3, <3>1
    <3>. QED
      BY <3>3, <3>4 DEF Paired
  <2>4. TwoPeople(row)
    BY <2>2, <2>3, PairDecides
  <2>. QED
    BY <2>1, <2>2, <2>4
<1>. QED
  BY <1>1, <1>2, <1>4 DEF Reviewed, PassedSound

LEMMA PromoteMoves ==
    ASSUME LadderInv, Promote
    PROVE  LadderInv'
<1>1. Typed
  BY DEF LadderInv
<1>2. PICK c \in Campaigns : c = build.on
  BY <1>1 DEF Typed, Promote
<1>3. Stands(c, "calibration_5k") /\ PriorStands(c)
  BY <1>2 DEF Promote, Advances
<1>4. PICK p \in Campaigns : p = work[c].prior
  BY <1>1, <1>3 DEF PriorStands, Typed, WorkRow
<1>5. p # None /\ Stands(p, "calibration_200")
  BY <1>3, <1>4 DEF PriorStands
<1>6. Reviewed(c) /\ Reviewed(p) /\ Manifested(c)
  BY <1>3, <1>5, StandsReviewed DEF Stage
<1>7. Earned(c)
  BY <1>3, <1>4, <1>5, <1>6, PriorBindsAlike DEF Earned
<1>8. UNCHANGED <<store, item, expiries, files, work, final, decision, build>>
      /\ promoted' = promoted \cup {c}
  BY <1>2 DEF Promote, review
<1>9. ReviewInv' /\ Typed'
  BY <1>1, <1>8 DEF LadderInv, ReviewInv, ReviewTypeOK, Typed
<1>10. ASSUME NEW d \in Campaigns PROVE FinalSound(d)' /\ PassedSound(d)' /\ ChainSound(d)'
  <2>1. FinalSound(d) /\ PassedSound(d) /\ ChainSound(d)
    BY DEF LadderInv
  <2>. QED
    BY <1>8, <2>1 DEF FinalSound, PassedSound, ChainSound, Manifested, Settled, Now,
                      Evidence, AsNew
<1>11. ASSUME NEW d \in promoted' PROVE Earned(d)'
  <2>1. Earned(d)
    BY <1>7, <1>8 DEF LadderInv
  <2>. QED
    BY <1>8, <2>1 DEF Earned, Manifested, Reviewed
<1>. QED
  BY <1>9, <1>10, <1>11 DEF LadderInv

----------------------------------------------------------------------------------
(* The ladder, step by step.                                                        *)

LEMMA EditMoves ==
    ASSUME LadderInv, NEW f \in Governed, NEW valid \in BOOLEAN, Edit(f, valid)
    PROVE  LadderInv'
<1>1. ReviewInv' /\ Steady
  BY StepReviews DEF Edit
<1>2. PICK n \in Nat : n = files[f].version
  BY DEF LadderInv, Typed
<1>3. files' = [files EXCEPT ![f] = [version |-> n + 1, valid |-> valid]]
  BY <1>2 DEF Edit
<1>4. files \in [Governed -> [version : Nat, valid : BOOLEAN]]
  BY DEF LadderInv, Typed
<1>5. files' \in [Governed -> [version : Nat, valid : BOOLEAN]]
  BY <1>2, <1>3, <1>4
<1>6. Typed'
  BY <1>5 DEF Edit, LadderInv, Typed
<1>7. \A g \in Governed : files[g].version <= files'[g].version
  BY <1>2, <1>3, <1>4
<1>. QED
  BY <1>1, <1>6, <1>7, OthersMove DEF Edit

LEMMA ReviewMoves ==
    ASSUME LadderInv, ReviewNext \/ UNCHANGED review, UNCHANGED ladder
    PROVE  LadderInv'
<1>1. ReviewInv' /\ Steady
  BY StepReviews
<1>2. UNCHANGED <<files, work, final, decision, build, promoted>>
  BY DEF ladder
<1>3. Typed' /\ \A f \in Governed : files[f].version <= files'[f].version
  BY <1>2 DEF LadderInv, Typed
<1>. QED
  BY <1>1, <1>2, <1>3, OthersMove

LEMMA LadderStep == LadderInv /\ [Next]_vars => LadderInv'
<1>. SUFFICES ASSUME LadderInv, [Next]_vars PROVE LadderInv'
  OBVIOUS
<1>1. CASE (ReviewNext /\ UNCHANGED ladder) \/ UNCHANGED vars
  BY <1>1, ReviewMoves DEF vars
<1>2. ASSUME NEW c \in Campaigns, CampaignNext(c) PROVE LadderInv'
  BY <1>2, BeginMoves, RefusedMoves, CrawlMoves, BindSampleMoves, ManifestMoves
     DEF CampaignNext
<1>3. ASSUME NEW c \in Campaigns, FinalNext(c) PROVE LadderInv'
  BY <1>3, CheckGovernanceMoves, CheckPriorMoves, ReplayRowMoves, ReplayDecisionsMoves,
     ConcludeMoves, FinalDiesMoves DEF FinalNext
<1>4. ASSUME NEW c \in Campaigns, BuildBegins(c) PROVE LadderInv'
  BY <1>4, BuildBeginsMoves
<1>5. CASE BuildWrites
  BY <1>5, BuildWritesMoves
<1>6. CASE Promote
  BY <1>6, PromoteMoves
<1>7. ASSUME NEW f \in Governed, NEW valid \in BOOLEAN, Edit(f, valid) PROVE LadderInv'
  BY <1>7, EditMoves
<1>. QED
  BY <1>1, <1>2, <1>3, <1>4, <1>5, <1>6, <1>7 DEF Next

----------------------------------------------------------------------------------
(* The bounds of the model.                                                         *)

Bounded(c) ==
    /\ work[c].priorHash <= MaxWrites
    /\ decision[c].writes <= MaxWrites
    /\ final[c].pc # "idle" => decision[c].writes < MaxWrites
    /\ final[c].pc = "idle" => DOMAIN final[c].seen = {}
    /\ DOMAIN final[c].seen \subseteq work[c].sample

BoundInv ==
    /\ edits \in 0..MaxEdits
    /\ \A f \in Governed : files[f].version <= edits
    /\ \A c \in Campaigns : Bounded(c)

LEMMA BoundStarts == Init => BoundInv
BY CalibrationAssumption
   DEF Init, BoundInv, Bounded, NoWork, NoDecision, Idle, Unread

LEMMA CampaignBounded ==
    ASSUME LadderInv, BoundInv, NEW c \in Campaigns, CampaignNext(c)
    PROVE  BoundInv'
<1>1. Typed /\ FinalSound(c) /\ \A d \in Campaigns : Bounded(d)
  BY DEF LadderInv, BoundInv
<1>2. UNCHANGED <<files, edits, final, decision>> /\ \A d \in Campaigns \ {c} : work'[d] = work[d]
  BY <1>1, ZenonT(40) DEF CampaignNext, Begin, Preflight, Crawl, BindSample, WriteManifest, RunDies, Typed
<1>3. work[c].pc # "awaiting_review"
  BY DEF CampaignNext, Begin, Preflight, Crawl, BindSample, WriteManifest, RunDies
<1>4. DOMAIN final[c].seen = {}
  BY <1>1, <1>3 DEF FinalSound, Manifested, Bounded
<1>5. work'[c].priorHash <= MaxWrites
  <2>1. work[c] \in WorkRow /\ work[c].priorHash <= MaxWrites
    BY <1>1 DEF Typed, Bounded
  <2>2. ASSUME NEW stage \in Stage, NEW dev \in BOOLEAN, NEW p \in Campaigns \cup {None},
               Begin(c, stage, dev, p)
        PROVE  work'[c].priorHash = work[c].priorHash
    BY <1>1, <2>2 DEF Begin, Typed, WorkRow
  <2>3. CASE Preflight(c) \/ RunDies(c)
    <3>1. work'[c] = Refused
      BY <1>1, <2>3 DEF Preflight, RunDies, Typed
    <3>2. Refused.priorHash = 0
      BY DEF Refused, NoWork
    <3>. QED
      BY <3>1, <3>2, CalibrationAssumption
  <2>4. ASSUME NEW sample \in SUBSET Items, Crawl(c, sample)
        PROVE  work'[c].priorHash <= MaxWrites
    <3>1. work'[c].priorHash = IF work[c].prior = None THEN 0
                               ELSE decision[work[c].prior].writes
      BY <1>1, <2>4 DEF Crawl, Typed, WorkRow
    <3>2. work[c].prior # None => work[c].prior \in Campaigns
      BY <2>1 DEF WorkRow
    <3>. QED
      BY <1>1, <3>1, <3>2, CalibrationAssumption DEF Bounded
  <2>5. ASSUME NEW i \in Items, BindSample(c, i)
        PROVE  work'[c].priorHash = work[c].priorHash
    BY <1>1, <2>5 DEF BindSample, Typed, WorkRow
  <2>6. CASE WriteManifest(c)
    BY <1>1, <2>1, <2>6 DEF WriteManifest, Typed, WorkRow
  <2>. QED
    BY <2>1, <2>2, <2>3, <2>4, <2>5, <2>6 DEF CampaignNext
<1>6. ASSUME NEW d \in Campaigns PROVE Bounded(d)'
  <2>1. CASE d = c
    BY <1>1, <1>2, <1>4, <1>5, <2>1 DEF Bounded
  <2>2. CASE d # c
    BY <1>1, <1>2, <2>2 DEF Bounded
  <2>. QED
    BY <2>1, <2>2
<1>. QED
  BY <1>2, <1>6 DEF BoundInv

LEMMA FinalBounded ==
    ASSUME LadderInv, BoundInv, NEW c \in Campaigns, FinalNext(c)
    PROVE  BoundInv'
<1>1. Typed /\ FinalSound(c) /\ \A d \in Campaigns : Bounded(d)
  BY DEF LadderInv, BoundInv
<1>2. UNCHANGED <<files, edits, work>>
      /\ \A d \in Campaigns \ {c} : final'[d] = final[d] /\ decision'[d] = decision[d]
  BY <1>1 DEF FinalNext, CheckGovernance, CheckPrior, ReplayRow, ReplayDecisions, Conclude,
              FinalDies, Typed
<1>3. Bounded(c)'
  <2>1. /\ final[c] \in FinalRow /\ final' \in [Campaigns -> FinalRow]
        /\ decision[c].writes \in Nat
    BY <1>1, LadderStep DEF LadderInv, Typed, DecisionRow, Next, vars
  <2>2. CASE CheckGovernance(c)
    <3>1. final'[c].pc = "governance" /\ final'[c].seen = final[c].seen
          /\ decision'[c] = decision[c] /\ decision[c].writes < MaxWrites
      BY <1>1, <2>2 DEF CheckGovernance, Typed, FinalRow
    <3>. QED
      BY <1>1, <1>2, <3>1 DEF Bounded
  <2>3. CASE CheckPrior(c)
    <3>1. final'[c].pc = "replay" /\ final'[c].seen = final[c].seen
          /\ decision'[c] = decision[c] /\ final[c].pc # "idle"
      BY <1>1, <2>3 DEF CheckPrior, Typed, FinalRow
    <3>. QED
      BY <1>1, <1>2, <3>1 DEF Bounded
  <2>4. ASSUME NEW i \in Items, ReplayRow(c, i) PROVE Bounded(c)'
    <3>1. final'[c].pc = "replay" /\ DOMAIN final'[c].seen = DOMAIN final[c].seen \cup {i}
          /\ decision'[c] = decision[c] /\ final[c].pc # "idle" /\ i \in work[c].sample
      BY <1>1, <2>4 DEF ReplayRow, Typed, FinalRow
    <3>. QED
      BY <1>1, <1>2, <3>1 DEF Bounded
  <2>5. CASE ReplayDecisions(c)
    <3>1. final'[c].pc = "replay" /\ DOMAIN final'[c].seen = DOMAIN final[c].seen
          /\ decision'[c] = decision[c] /\ final[c].pc # "idle"
      BY <1>1, <2>5 DEF ReplayDecisions, Typed, FinalRow
    <3>. QED
      BY <1>1, <1>2, <3>1 DEF Bounded
  <2>6. CASE Conclude(c)
    <3>1. final'[c] = Idle /\ decision'[c].writes = decision[c].writes + 1
          /\ final[c].pc # "idle"
      BY <1>1, <2>6 DEF Conclude, Typed
    <3>. QED
      BY <1>1, <1>2, <2>1, <3>1, CalibrationAssumption DEF Bounded, Idle, Unread
  <2>7. CASE FinalDies(c)
    <3>1. final'[c] = Idle /\ decision'[c] = decision[c]
      BY <1>1, <2>7 DEF FinalDies, Typed
    <3>. QED
      BY <1>1, <1>2, <3>1 DEF Bounded, Idle, Unread
  <2>. QED
    BY <2>2, <2>3, <2>4, <2>5, <2>6, <2>7 DEF FinalNext
<1>4. ASSUME NEW d \in Campaigns, d # c PROVE Bounded(d)'
  BY <1>1, <1>2, <1>4 DEF Bounded
<1>. QED
  BY <1>2, <1>3, <1>4 DEF BoundInv

LEMMA BoundStep == LadderInv /\ BoundInv /\ [Next]_vars => BoundInv'
<1>. SUFFICES ASSUME LadderInv, BoundInv, [Next]_vars PROVE BoundInv'
  OBVIOUS
<1>1. CASE UNCHANGED <<files, edits, work, final, decision>>
  BY <1>1 DEF BoundInv, Bounded
<1>2. ASSUME NEW c \in Campaigns, CampaignNext(c) PROVE BoundInv'
  BY <1>2, CampaignBounded
<1>3. ASSUME NEW c \in Campaigns, FinalNext(c) PROVE BoundInv'
  BY <1>3, FinalBounded
<1>4. ASSUME NEW f \in Governed, NEW valid \in BOOLEAN, Edit(f, valid) PROVE BoundInv'
  <2>1. files \in [Governed -> [version : Nat, valid : BOOLEAN]]
    BY DEF LadderInv, Typed
  <2>2. edits' = edits + 1 /\ edits < MaxEdits
        /\ files' = [files EXCEPT ![f] = [version |-> files[f].version + 1, valid |-> valid]]
        /\ UNCHANGED <<work, final, decision>>
    BY <1>4 DEF Edit
  <2>3. edits' \in 0..MaxEdits /\ \A g \in Governed : files'[g].version <= edits'
    BY <2>1, <2>2, CalibrationAssumption DEF BoundInv
  <2>. QED
    BY <2>2, <2>3 DEF BoundInv, Bounded
<1>. QED
  BY <1>1, <1>2, <1>3, <1>4
     DEF Next, vars, ladder, BuildBegins, BuildWrites, Promote

LEMMA LadderHolds == Spec => []LadderInv
<1>1. Init => LadderInv
  BY LadderStarts
<1>2. LadderInv /\ [Next]_vars => LadderInv'
  BY LadderStep
<1>. QED
  BY <1>1, <1>2, PTL DEF Spec

LEMMA ReviewHolds == ReviewSpec => []ReviewInv
<1>1. ReviewInit => ReviewInv
  BY ReviewStarts
<1>2. ReviewInv /\ [ReviewNext]_review => ReviewInv'
  BY ReviewOnward
<1>. QED
  BY <1>1, <1>2, PTL DEF ReviewSpec

----------------------------------------------------------------------------------
(* The theorems.                                                                    *)

\* The rows of the review tables have the values the schema gives them, on either
\* database.
THEOREM ReviewTypeCorrect == ReviewSpec => []ReviewTypeOK
<1>1. ReviewInv => ReviewTypeOK
  BY DEF ReviewInv
<1>. QED
  BY <1>1, ReviewHolds, PTL

\* Files, campaigns, finalisations, decisions and the build have the values the code
\* writes, within the bounds of the model.
THEOREM LadderTypeCorrect == Spec => []LadderTypeOK
<1>1. ASSUME LadderInv, BoundInv PROVE LadderTypeOK
  <2>1. Typed /\ ReviewTypeOK
    BY <1>1 DEF LadderInv, ReviewInv
  <2>2. ASSUME NEW f \in Governed
        PROVE  files[f] \in [version : 0..MaxEdits, valid : BOOLEAN]
    BY <1>1, <2>1, CalibrationAssumption DEF BoundInv, Typed
  <2>3. ASSUME NEW c \in Campaigns
        PROVE  work[c].priorHash \in 0..MaxWrites /\ work[c].bound \in [Governed -> 0..MaxEdits]
    <3>1. work[c] \in WorkRow /\ Bounded(c) /\ ChainSound(c)
      BY <1>1, <2>1 DEF LadderInv, BoundInv, Typed
    <3>2. ASSUME NEW f \in Governed PROVE work[c].bound[f] \in 0..MaxEdits
      <4>1. work[c].bound[f] \in Nat /\ files[f].version \in 0..MaxEdits
        BY <2>2, <3>1 DEF WorkRow
      <4>2. work[c].bound[f] <= files[f].version
        BY <3>1 DEF ChainSound
      <4>. QED
        BY <4>1, <4>2, CalibrationAssumption
    <3>. QED
      BY <3>1, <3>2, CalibrationAssumption DEF WorkRow, Bounded
  <2>4. ASSUME NEW c \in Campaigns
        PROVE  /\ final[c] \in FinalRow /\ decision[c] \in DecisionRow
               /\ decision[c].writes \in 0..MaxWrites
               /\ DOMAIN final[c].seen \subseteq work[c].sample
    BY <1>1, <2>1, CalibrationAssumption DEF BoundInv, Bounded, Typed, DecisionRow
  <2>5. \A c \in Campaigns : work[c] \in WorkRow
    BY <2>1 DEF Typed
  <2>6. \A c \in Campaigns : work[c] \in
           [pc : {"fresh", "checked", "sampling", "awaiting_review", "refused"},
            stage : Stage, dev : BOOLEAN, prior : Campaigns \cup {None},
            priorHash : 0..MaxWrites, bound : [Governed -> 0..MaxEdits],
            sample : SUBSET Items, todo : SUBSET Items]
    BY <2>3, <2>5 DEF WorkRow
  <2>. QED
    BY <1>1, <2>1, <2>2, <2>4, <2>6 DEF LadderTypeOK, BoundInv, Typed, FinalRow, DecisionRow
<1>2. BoundInv /\ LadderInv /\ [Next]_vars => BoundInv'
  BY BoundStep
<1>. QED
  BY <1>1, <1>2, BoundStarts, LadderHolds, PTL DEF Spec

\* No verdict on an item of high value rests on one person, whatever the order of
\* claims, expiries, decisions and adjudications, on either database.
THEOREM VerdictsAreIndependent == ReviewSpec => []IndependentVerdicts
BY VerdictsIndependent, ReviewHolds, PTL

\* Nobody decides an item whose decisions are shown, and a verdict is never changed,
\* on either database: in Postgres, whose claim has no guard on the status, because
\* no slot is left.
THEOREM ShownItemsAreFrozen == ReviewSpec => ShownIsFrozen
<1>1. ReviewInv /\ [ReviewNext]_review =>
          [\A i \in Items :
             /\ item[i].status \in Visible =>
                    item'[i].status \in Visible /\ item'[i].decision = item[i].decision
             /\ item[i].status \in Terminal => item'[i] = item[i]]_review
  BY ReviewOnward DEF Kept
<1>. QED
  BY <1>1, ReviewHolds, PTL DEF ReviewSpec, ShownIsFrozen

\* What a passed decision says of its reviews is, and remains, what the authority
\* says, although it was read item by item while reviewers worked.
THEOREM PassedStaysTrue == Spec => []PassedIsFinal
<1>1. LadderInv => PassedIsFinal
  BY DEF LadderInv, PassedSound, PassedIsFinal
<1>. QED
  BY <1>1, LadderHolds, PTL

\* A stage that passed is bound to the same versions of the governed files as the
\* stage below it, although they are checked at different moments and edited between.
THEOREM OneGovernanceHolds == Spec => []OneGovernance
<1>1. LadderInv => OneGovernance
  BY DEF LadderInv, ChainSound, OneGovernance
<1>. QED
  BY <1>1, LadderHolds, PTL

\* A promoted build rests on a whole ladder, bound to one governance, each item of
\* whose samples has the verdict of two people.
THEOREM PromotionsAreEarned == Spec => []PromotionIsEarned
<1>1. ASSUME LadderInv PROVE PromotionIsEarned
  <2>1. ASSUME NEW c \in promoted
        PROVE  /\ Earned(c) /\ ChainSound(c) /\ work[c].prior # None
    BY <1>1, <2>1 DEF LadderInv, Typed, Earned
  <2>. QED
    BY <2>1 DEF PromotionIsEarned, Earned, Reviewed, ChainSound
<1>. QED
  BY <1>1, LadderHolds, PTL

\* The ladder is sound.
THEOREM LadderSound == Spec => []LadderIsSound
  BY PassedStaysTrue, OneGovernanceHolds, PromotionsAreEarned, PTL DEF LadderIsSound
=============================================================================
