---------------------------- MODULE Collaboration ----------------------------
(***************************************************************************)
(* Agents talk over a durable message bus and a blackboard of versioned    *)
(* entries.  A negotiation (negotiate) takes a proposal through a peer's   *)
(* review, evidence, a critic and a verifier, revises it while it is       *)
(* refused, and promotes an accepted one into memory.  It publishes and    *)
(* writes between its awaits, so each await is where the messages and      *)
(* writes of clients, other negotiations and a crash come in.              *)
(*                                                                         *)
(* A message is its number; the policy of roles and payloads is that a     *)
(* message it refuses is not published and its caller gets the exception.  *)
(***************************************************************************)
EXTENDS Naturals, Sequences

CONSTANTS
    Talks,        \* negotiations, by correlation id
    MaxRounds,    \* max_revisions
    MaxPosts,     \* bound on messages and writes of clients
    NoEntry        \* no entry

VARIABLES
    bus,        \* agent_messages, in order of insertion
    board,      \* blackboard_entries of the run, by key
    talk,       \* the locals of each negotiation and its await
    memory,     \* episodic memories: talk, proposal and decision promoted
    posts       \* messages and writes of clients so far

collaborationVars == <<bus, board, talk, memory, posts>>

EntryKinds == {"fact", "artifact", "decision", "question", "evidence"}

\* Keys: the artifact and the decision of a talk, the evidence of a message.
ArtifactOf(t) == <<"artifact", t>>
DecisionOf(t) == <<"decision", t>>
EvidenceOf(m) == <<"evidence", m>>
Entry(key)    == IF key \in DOMAIN board THEN board[key] ELSE NoEntry

Silent == [at |-> "idle", current |-> 0, round |-> 0, version |-> 0, peer |-> 0,
           agreed |-> FALSE, evidence |-> 0, critic |-> 0, confident |-> FALSE]

CollaborationInit ==
    /\ bus = <<>>
    /\ board = [key \in {} |-> NoEntry]
    /\ talk = [t \in Talks |-> Silent]
    /\ memory = {}
    /\ posts = 0

-----------------------------------------------------------------------------
(* publish appends to the bus.                                             *)
Message(t, by, kind, ok, refs) == [talk |-> t, by |-> by, kind |-> kind, ok |-> ok, refs |-> refs]
NextMessage == Len(bus) + 1

(* put_blackboard_entry, under its lock: an insert expects no version or   *)
(* 0, an update the present version; an evidence entry is inserted         *)
(* immutable and may not be updated, nor may another become evidence       *)
(* (the table's CHECK, as an update leaves the immutable column alone).    *)
Insertable(key, expected) == Entry(key) = NoEntry /\ expected \in {NoEntry, 0}
BecomesEvidence(key, kind) == kind = "evidence" /\ ~Entry(key).immutable
Updatable(key, kind, expected) ==
    /\ Entry(key) # NoEntry
    /\ ~Entry(key).immutable
    /\ expected = Entry(key).version
    /\ ~BecomesEvidence(key, kind)
MayPut(key, kind, expected) == Insertable(key, expected) \/ Updatable(key, kind, expected)

Put(key, kind, source, verified) ==
    LET new == [kind |-> kind, source |-> source, verified |-> verified,
                version   |-> IF Entry(key) = NoEntry THEN 1 ELSE Entry(key).version + 1,
                immutable |-> IF Entry(key) = NoEntry THEN kind = "evidence"
                                                     ELSE Entry(key).immutable]
    IN  [k \in DOMAIN board \union {key} |-> IF k = key THEN new ELSE board[k]]

-----------------------------------------------------------------------------
(* The steps of negotiate from one await to the next.  What is published   *)
(* before a write that raises stays published.                             *)
To(t, new) == talk' = [talk EXCEPT ![t] = new]
Leave(t, how) == To(t, [talk[t] EXCEPT !.at = how])

Proposes(t, version, new) ==
    /\ bus' = Append(bus, Message(t, "talk", "proposal", FALSE, 0))
    /\ IF MayPut(ArtifactOf(t), "artifact", version)
       THEN /\ board' = Put(ArtifactOf(t), "artifact", NextMessage, FALSE)
            /\ To(t, new)
       ELSE UNCHANGED board /\ Leave(t, "raised")
    /\ UNCHANGED <<memory, posts>>

StartTalk(t) ==
    /\ talk[t].at = "idle"
    /\ Proposes(t, 0, [Silent EXCEPT !.at = "peer", !.current = NextMessage, !.version = 1])

PeerReviews(t) ==
    /\ talk[t].at = "peer"
    /\ \E ok \in BOOLEAN :
          /\ bus' = Append(bus, Message(t, "talk", IF ok THEN "review" ELSE "challenge",
                                        ok, talk[t].current))
          /\ To(t, [talk[t] EXCEPT !.at = "evidence", !.peer = NextMessage, !.agreed = ok])
    /\ UNCHANGED <<board, memory, posts>>

EvidenceAnswers(t) ==
    /\ talk[t].at = "evidence"
    /\ bus' = Append(bus, Message(t, "talk", "evidence", FALSE, talk[t].peer))
    /\ board' = Put(EvidenceOf(NextMessage), "evidence", NextMessage, FALSE)
    /\ To(t, [talk[t] EXCEPT !.at = "critic", !.evidence = NextMessage])
    /\ UNCHANGED <<memory, posts>>

CriticScores(t) ==
    /\ talk[t].at = "critic"
    /\ \E high \in BOOLEAN :
          /\ bus' = Append(bus, Message(t, "talk", "critic", high, talk[t].evidence))
          /\ To(t, [talk[t] EXCEPT !.at = "verifier", !.critic = NextMessage, !.confident = high])
    /\ UNCHANGED <<board, memory, posts>>

(* The verifier's word counts if the peer agreed, the critic is confident  *)
(* and references are given.  A last decision is put on the board, and an  *)
(* accepted one promoted.                                                  *)
\* Mutant: the peer need not agree.
SkipsPeer(t, word) == talk[t].confident /\ word
Agreed(t, word) == talk[t].agreed /\ talk[t].confident /\ word
LastRound(t, accepted) == accepted \/ talk[t].round >= MaxRounds
Concludes(t, accepted) ==
    IF MayPut(DecisionOf(t), "decision", 0)
    THEN /\ board' = Put(DecisionOf(t), "decision", NextMessage, accepted)
         /\ \/ /\ memory' = IF accepted
                            THEN memory \union {[talk |-> t, proposal |-> talk[t].current,
                                                 decision |-> NextMessage]}
                            ELSE memory
               /\ Leave(t, "ended")
            \/ accepted /\ UNCHANGED memory /\ Leave(t, "raised")   \* ingest raises
    ELSE UNCHANGED <<board, memory>> /\ Leave(t, "raised")

VerifierDecides(t) ==
    /\ talk[t].at = "verifier"
    /\ \E word \in BOOLEAN :
          /\ bus' = Append(bus, Message(t, "talk", "decision", Agreed(t, word), talk[t].critic))
          /\ IF LastRound(t, Agreed(t, word))
             THEN Concludes(t, Agreed(t, word))
             ELSE Leave(t, "reviser") /\ UNCHANGED <<board, memory>>
    /\ UNCHANGED posts

Revises(t) ==
    /\ talk[t].at = "reviser"
    /\ Proposes(t, talk[t].version,
                [talk[t] EXCEPT !.at = "peer", !.current = NextMessage,
                                !.round = @ + 1, !.version = @ + 1])

(* A callback raises, or what it returns is refused as a message; or the   *)
(* process dies.                                                           *)
TalkFails(t) ==
    /\ talk[t].at \notin {"idle", "ended", "raised"}
    /\ Leave(t, "raised")
    /\ UNCHANGED <<bus, board, memory, posts>>

-----------------------------------------------------------------------------
(* The endpoints: any message the roles allow, on any correlation id; any  *)
(* entry, with the version it expects.                                     *)
Posts == posts < MaxPosts /\ posts' = posts + 1

PostMessage ==
    /\ Posts
    /\ \E t \in Talks, kind \in {"proposal", "review", "critic", "decision"}, ok \in BOOLEAN :
          bus' = Append(bus, Message(t, "client", kind, ok, 0))
    /\ UNCHANGED <<board, talk, memory>>

KnownKeys == {ArtifactOf(t) : t \in Talks} \union {DecisionOf(t) : t \in Talks}
                \union {EvidenceOf(m) : m \in 1..Len(bus)}
PutEntry ==
    /\ Posts
    /\ \E key \in KnownKeys, kind \in {"artifact", "decision", "evidence"},
          expected \in {NoEntry} \union 0..(MaxPosts + MaxRounds), verified \in BOOLEAN :
          /\ MayPut(key, kind, expected)
          /\ board' = Put(key, kind, 0, verified)
    /\ UNCHANGED <<bus, talk, memory>>

CollaborationNext ==
    \/ \E t \in Talks : \/ StartTalk(t) \/ PeerReviews(t) \/ EvidenceAnswers(t)
                        \/ CriticScores(t) \/ VerifierDecides(t) \/ Revises(t)
                        \/ TalkFails(t)
    \/ PostMessage
    \/ PutEntry

CollaborationSpec == CollaborationInit /\ [][CollaborationNext]_collaborationVars

-----------------------------------------------------------------------------
(* Types of the bus, the board and the negotiations.                         *)
CollaborationTypeOK ==
    /\ \A m \in 1..Len(bus) : bus[m].talk \in Talks /\ bus[m].refs \in 0..m-1
    /\ \A key \in DOMAIN board : /\ board[key].kind \in EntryKinds
                                 /\ board[key].source \in 0..Len(bus)
                                 /\ board[key].version \in Nat \ {0}
    /\ \A t \in Talks : /\ talk[t].round \in 0..MaxRounds
                        /\ {talk[t].current, talk[t].peer, talk[t].evidence, talk[t].critic}
                              \subseteq 0..Len(bus)

LastProposal(t) ==
    CHOOSE m \in 1..Len(bus) :
        /\ bus[m].talk = t /\ bus[m].by = "talk" /\ bus[m].kind = "proposal"
        /\ \A n \in m+1..Len(bus) : ~(bus[n].talk = t /\ bus[n].by = "talk" /\ bus[n].kind = "proposal")

(* Only a verifier-backed accepted negotiation reaches memory: the decision  *)
(* promoted, the critic's score it names, the evidence that score names and  *)
(* the peer's review it answers are one chain about the very proposal that   *)
(* is remembered, the last of its talk; nothing said in an earlier round or  *)
(* by a client on the same correlation id counts.                            *)
PromotedIsJudged ==
    \A promoted \in memory :
        LET decision == bus[promoted.decision]
            critic   == bus[decision.refs]
            evidence == bus[critic.refs]
            peer     == bus[evidence.refs]
        IN  /\ decision.ok /\ critic.ok /\ peer.kind = "review"
            /\ peer.refs = promoted.proposal
            /\ promoted.proposal = LastProposal(promoted.talk)
            /\ {decision.by, critic.by, evidence.by, peer.by} = {"talk"}
=============================================================================
