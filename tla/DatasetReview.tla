------------------------------ MODULE DatasetReview ------------------------------
(* The review authority of the dataset: the store of review items that humans      *)
(* claim, decide and adjudicate (learning/dataset_authority.py).  Every operation   *)
(* is one transaction that serialises the writers of an item, so each is one        *)
(* action; what is hard is the order in which people's calls and the expiry of      *)
(* their leases come.                                                               *)
(*                                                                                  *)
(* Abstracted: an item is named by its content and snapshot hashes, its unique key, *)
(* so a decision on other hashes is refused and takes no step; a slot is counted,   *)
(* not numbered; payloads, rationales, the version counter and instants are left    *)
(* out: a lease is live until Expire.                                               *)
EXTENDS Integers, FiniteSets

CONSTANTS
    Items,         \* keys of review items
    Reviewers,     \* subjects with data:review, numbered in the order of their names
    Adjudicators,  \* subjects with data:adjudicate
    Stores,        \* the databases the authority may run on
    MaxExpiries    \* bound: leases that expire

ASSUME ReviewAssumption ==
    /\ Stores \subseteq {"sqlite", "postgres"}
    /\ Reviewers \cup Adjudicators \subseteq Nat \ {0}
    /\ MaxExpiries \in Nat

VARIABLES
    store,     \* the database in use
    item,      \* the rows of an item, its assignments, decisions and adjudication
    expiries   \* history: leases expired

review == <<store, item, expiries>>

Decisions == {"approve", "reject"}
Terminal  == {"approved", "rejected"}
\* The statuses at which everybody is shown everybody's decisions.
Visible   == Terminal \cup {"adjudication_required"}
NoOne     == 0

Row == [status      : Visible \cup {"absent", "pending", "in_review"},
        high        : BOOLEAN,
        claim       : [Reviewers -> {"none", "live", "expired", "submitted"}],
        decision    : [Reviewers -> Decisions \cup {"none"}],
        adjudicator : Adjudicators \cup {NoOne}]

Absent == [status |-> "absent", high |-> FALSE,
           claim |-> [r \in Reviewers |-> "none"],
           decision |-> [r \in Reviewers |-> "none"],
           adjudicator |-> NoOne]

Verdict(d) == IF d = "approve" THEN "approved" ELSE "rejected"

\* Two different members of S if the item is of high value, else one.
Fills(S, high) == \E r, s \in S : high => r # s

Holders(row)  == {r \in Reviewers : row.claim[r] # "none"}
Deciders(row) == {r \in Reviewers : row.decision[r] # "none"}
Said(row, d)  == {r \in Reviewers : row.decision[r] = d}

StatusFromDecisions(row) ==
    IF ~Fills(Deciders(row), row.high) THEN "in_review"
    ELSE IF Said(row, "approve") = {} THEN "rejected"
    ELSE IF Said(row, "reject") = {} THEN "approved"
    ELSE "adjudication_required"

\* The rows of an item without the leases that ran out.
Purged(row) ==
    [row EXCEPT !.claim = [r \in Reviewers |->
        IF row.claim[r] = "expired" THEN "none" ELSE row.claim[r]]]

----------------------------------------------------------------------------------
\* INSERT OR IGNORE: the first request for a key fixes its value.
Enqueued(i, high) ==
    IF item[i].status = "absent"
    THEN [item EXCEPT ![i].status = "pending", ![i].high = high]
    ELSE item

Enqueue(i, high) ==
    /\ item' = Enqueued(i, high)
    /\ UNCHANGED <<store, expiries>>

\* A fault: a claim that does not look for a free slot.
ClaimAnySlot(i, r) ==
    LET row == Purged(item[i]) IN
    /\ row.status \notin Terminal \cup {"absent"}
    /\ row.claim[r] = "none"
    /\ item' = [item EXCEPT ![i] = [row EXCEPT !.claim[r] = "live",
                                              !.status = "in_review"]]
    /\ UNCHANGED <<store, expiries>>

\* A claim that succeeds also deletes expired claims: of every item in SQLite, of
\* its own in Postgres.  One that fails rolls the deletion back.
Claim(i, r) ==
    LET row == Purged(item[i]) IN
    /\ row.status # "absent"
    /\ store = "sqlite" => row.status \notin Terminal
    /\ row.claim[r] = "none"
    /\ ~Fills(Holders(row), row.high)
    /\ item' = [j \in Items |->
                   IF j = i THEN [row EXCEPT !.claim[r] = "live",
                                             !.status = "in_review"]
                   ELSE IF store = "sqlite" THEN Purged(item[j]) ELSE item[j]]
    /\ UNCHANGED <<store, expiries>>

Decided(row, r, d) ==
    [row EXCEPT !.decision[r] = d, !.claim[r] = "submitted"]

Decide(i, r, d) ==
    LET row == Decided(item[i], r, d) IN
    /\ item[i].claim[r] = "live"
    /\ item[i].decision[r] = "none"
    /\ item' = [item EXCEPT ![i] = [row EXCEPT !.status = StatusFromDecisions(row)]]
    /\ UNCHANGED <<store, expiries>>

\* A fault: an adjudicator who decided the item.
AdjudicateOwn(i, a, d) ==
    /\ item[i].status = "adjudication_required"
    /\ item[i].adjudicator = NoOne
    /\ item' = [item EXCEPT ![i].status = Verdict(d), ![i].adjudicator = a]
    /\ UNCHANGED <<store, expiries>>

Adjudicate(i, a, d) ==
    /\ item[i].status = "adjudication_required"
    /\ a \notin Deciders(item[i])
    /\ item[i].adjudicator = NoOne
    /\ item' = [item EXCEPT ![i].status = Verdict(d), ![i].adjudicator = a]
    /\ UNCHANGED <<store, expiries>>

Expire(i, r) ==
    /\ item[i].claim[r] = "live"
    /\ expiries < MaxExpiries
    /\ item' = [item EXCEPT ![i].claim[r] = "expired"]
    /\ expiries' = expiries + 1
    /\ UNCHANGED store

----------------------------------------------------------------------------------
ReviewInit ==
    /\ store \in Stores
    /\ item = [i \in Items |-> Absent]
    /\ expiries = 0

ReviewNext ==
    \/ \E i \in Items, high \in BOOLEAN : Enqueue(i, high)
    \/ \E i \in Items, r \in Reviewers  : Claim(i, r)
    \/ \E i \in Items, r \in Reviewers, d \in Decisions : Decide(i, r, d)
    \/ \E i \in Items, a \in Adjudicators, d \in Decisions : Adjudicate(i, a, d)
    \/ \E i \in Items, r \in Reviewers  : Expire(i, r)

ReviewSpec == ReviewInit /\ [][ReviewNext]_review

----------------------------------------------------------------------------------
\* The rows of the review tables have the values the schema gives them.
ReviewTypeOK ==
    /\ store \in Stores
    /\ item \in [Items -> Row]
    /\ expiries \in Nat

\* Two people decided an item of high value alike, or a third who did not decide it
\* settled what they disagreed on: whatever the order of claims, expiries and
\* decisions, no verdict rests on one person (_status_from_decisions, adjudicate).
TwoPeople(row) ==
    /\ \E r, s \in Deciders(row) : r # s
    /\ \/ \E d \in Decisions : row.status = Verdict(d) /\ Said(row, d) = Deciders(row)
       \/ row.adjudicator # NoOne /\ row.adjudicator \notin Deciders(row)

IndependentVerdicts ==
    \A i \in Items : item[i].high /\ item[i].status \in Terminal => TwoPeople(item[i])

\* Once an item shows its reviewers one another's decisions, nobody decides it any
\* more, and a verdict stands for good: a reviewer never decides after having seen
\* another's decision, not even through a lease taken earlier or a slot freed by an
\* expiry (claim and decide against _terminal_or_visible).
ShownIsFrozen ==
    [][\A i \in Items :
         /\ item[i].status \in Visible =>
                item'[i].status \in Visible /\ item'[i].decision = item[i].decision
         /\ item[i].status \in Terminal => item'[i] = item[i]]_review
==================================================================================
