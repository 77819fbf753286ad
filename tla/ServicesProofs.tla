------------------------- MODULE ServicesProofs -------------------------
(* Theorems about the services: each stands by itself, with the invariant of its  *)
(* own component.                                                                 *)
EXTENDS AgentExecution, CheckpointRegistry, Collaboration, ContextBuilding, JobSpecs,
        VectorSync, FiniteSetTheorems, TLAPS

------------------------------------------------------------------------------
(* The registry of checkpoints.                                              *)

(* What a version is worth when it is committed, marked and pointed to, and what  *)
(* a call knows of it at each of its places.                                      *)
OperationFields == {"pc", "step", "digest", "reloaded", "listed", "passing"}
RegistryTyped ==
    /\ DOMAIN operation = Workspace
    /\ \A o \in Workspace : DOMAIN operation[o] = OperationFields
    /\ versions \in [CheckpointSteps -> [digest : Digests \union {NoDigest}, reloaded : BOOLEAN, promoted : BOOLEAN]]
    /\ IsFiniteSet(evaluations)
    /\ DOMAIN latest = {"step", "digest"}

EnoughPassed(s) == Cardinality(Passing(s)) >= MinimumEvaluations

VersionsEarned ==
    \A s \in CheckpointSteps :
        /\ versions[s] # NoVersion => <<s, versions[s].digest>> \in witnessed
        /\ versions[s].promoted => versions[s].reloaded /\ EnoughPassed(s)

CommitsWitnessed ==
    \A o \in Workspace :
        LET me == operation[o] IN
        /\ me.pc \in {"download", "insert"} => me.step \in CheckpointSteps /\ me.digest \in Digests
        /\ me.pc = "download" => me.reloaded \in BOOLEAN
        /\ me.pc = "insert" => me.reloaded \in BOOLEAN /\ <<me.step, me.digest>> \in witnessed

ReadOf(o) ==
    LET me == operation[o] IN
    /\ me.pc \in {"judge", "mark", "point"} =>
          /\ me.step \in CheckpointSteps
          /\ versions[me.step] # NoVersion
          /\ versions[me.step].reloaded
          /\ versions[me.step].digest = me.digest
    /\ me.pc \in {"mark", "point"} => EnoughPassed(me.step)
    /\ me.pc = "point" => versions[me.step].promoted
PromotionsRead == \A o \in Workspace : ReadOf(o)

PointerEarned ==
    latest # NoPointer => /\ latest.step \in CheckpointSteps
                          /\ versions[latest.step].promoted
                          /\ versions[latest.step].digest = latest.digest

RegistryInv == RegistryTyped /\ VersionsEarned /\ CommitsWitnessed /\ PromotionsRead /\ PointerEarned

LEMMA RegistryInitial == RegistryInit => RegistryInv
  BY FS_EmptySet DEF RegistryInit, RegistryInv, RegistryTyped, VersionsEarned, CommitsWitnessed, PromotionsRead, ReadOf,
     PointerEarned, NoVersion, NoOperation, NoPointer, OperationFields

(* Versions are never withdrawn, and evaluations only added: what was enough      *)
(* stays enough.                                                                  *)
LEMMA EnoughStays ==
    ASSUME NEW s, IsFiniteSet(evaluations'), evaluations \subseteq evaluations', EnoughPassed(s)
    PROVE  EnoughPassed(s)'
<1>1. Passing(s) \subseteq Passing(s)' BY DEF Passing
<1>2. IsFiniteSet(Passing(s)') BY FS_Subset DEF Passing
<1>3. /\ IsFiniteSet(Passing(s))
      /\ Cardinality(Passing(s)) <= Cardinality(Passing(s)')
    BY <1>1, <1>2, FS_Subset
<1>4. Cardinality(Passing(s)) \in Nat /\ Cardinality(Passing(s)') \in Nat /\ MinimumEvaluations \in Nat
    BY <1>2, <1>3, FS_CardinalityType, RegistryAssumption
<1> QED BY <1>3, <1>4 DEF EnoughPassed

LEMMA RegistryStep == RegistryInv /\ [RegistryNext]_registryVars => RegistryInv'
<1> USE DEF RegistryInv
<1> SUFFICES ASSUME RegistryInv, [RegistryNext]_registryVars PROVE RegistryInv' OBVIOUS
<1>f. ASSUME NEW o \in Workspace, NEW new, DOMAIN new = OperationFields, Operate(o, new)
      PROVE  /\ DOMAIN operation' = Workspace
             /\ \A p \in Workspace : DOMAIN operation'[p] = OperationFields
             /\ operation'[o] = new
             /\ \A p \in Workspace : p # o => operation'[p] = operation[p]
    BY <1>f DEF Operate, RegistryTyped
<1>n. DOMAIN NoOperation = OperationFields /\ NoOperation.pc = "idle" BY DEF NoOperation, OperationFields
<1>1. CASE UNCHANGED registryVars
    BY <1>1 DEF registryVars, RegistryTyped, VersionsEarned, CommitsWitnessed, PromotionsRead, ReadOf, PointerEarned,
       EnoughPassed, Passing
\* Steps of a call that change neither the versions nor the evaluations.
<1>k. ASSUME NEW o \in Workspace, NEW new, DOMAIN new = OperationFields, Operate(o, new),
             UNCHANGED <<versions, evaluations, latest>>, witnessed \subseteq witnessed',
             /\ new.pc \in {"download", "insert"} => new.step \in CheckpointSteps /\ new.digest \in Digests
             /\ new.pc = "download" => new.reloaded \in BOOLEAN
             /\ new.pc = "insert" => new.reloaded \in BOOLEAN /\ <<new.step, new.digest>> \in witnessed'
             /\ new.pc \in {"judge", "mark", "point"} =>
                   /\ new.step \in CheckpointSteps
                   /\ versions[new.step] # NoVersion
                   /\ versions[new.step].reloaded
                   /\ versions[new.step].digest = new.digest
             /\ new.pc \in {"mark", "point"} => EnoughPassed(new.step)
             /\ new.pc = "point" => versions[new.step].promoted
      PROVE  RegistryInv'
  <2>1. RegistryTyped' BY <1>k, <1>f DEF RegistryTyped
  <2>2. \A s : EnoughPassed(s)' <=> EnoughPassed(s) BY <1>k DEF EnoughPassed, Passing
  <2>3. VersionsEarned' BY <1>k, <2>2 DEF VersionsEarned
  <2>4. CommitsWitnessed' BY <1>k, <1>f DEF CommitsWitnessed
  <2>5. PromotionsRead' BY <1>k, <1>f, <2>2 DEF PromotionsRead, ReadOf
  <2>6. PointerEarned' BY <1>k DEF PointerEarned
  <2> QED BY <2>1, <2>3, <2>4, <2>5, <2>6
<1>m. ASSUME NEW o \in Workspace, EndOperation(o), UNCHANGED <<versions, evaluations, latest, witnessed>>
      PROVE  RegistryInv'
    BY <1>m, <1>k, <1>n DEF EndOperation, NoOperation
<1>2. ASSUME NEW p \in Paths, NEW d \in Digests, PutObject(p, d) PROVE RegistryInv'
    BY <1>2 DEF PutObject, RegistryTyped, VersionsEarned, CommitsWitnessed, PromotionsRead, ReadOf, PointerEarned,
       EnoughPassed, Passing
<1>3. ASSUME NEW o \in Workspace, NEW p \in Paths, RegisterBegins(o, p) PROVE RegistryInv'
  <2> DEFINE new == [NoOperation EXCEPT !.pc = "register", !.listed = p, !.digest = objects[p]]
  <2>1. DOMAIN new = OperationFields /\ new.pc = "register" BY DEF NoOperation, OperationFields
  <2>2. Operate(o, new) /\ UNCHANGED <<versions, evaluations, latest, witnessed>> BY <1>3 DEF RegisterBegins
  <2> HIDE DEF new
  <2> QED BY <2>1, <2>2, <1>k
<1>4. ASSUME NEW o \in Workspace, RegisterEnds(o) PROVE RegistryInv'
    BY <1>4, <1>m DEF RegisterEnds
<1>5. ASSUME NEW o \in Workspace, NEW s \in CheckpointSteps, NEW d \in Digests, CommitLists(o, s, d)
      PROVE  RegistryInv'
  <2>0. PICK reloaded \in BOOLEAN :
           Operate(o, [NoOperation EXCEPT !.pc = "download", !.step = s, !.digest = d,
                                          !.listed = artifacts, !.reloaded = reloaded])
      BY <1>5 DEF CommitLists
  <2> DEFINE new == [NoOperation EXCEPT !.pc = "download", !.step = s, !.digest = d,
                                        !.listed = artifacts, !.reloaded = reloaded]
  <2>1. DOMAIN new = OperationFields /\ new.pc = "download" /\ new.step = s /\ new.digest = d
        /\ new.reloaded = reloaded
      BY DEF NoOperation, OperationFields
  <2>2. Operate(o, new) /\ UNCHANGED <<versions, evaluations, latest, witnessed>> BY <2>0, <1>5 DEF CommitLists
  <2> HIDE DEF new
  <2> QED BY <2>1, <2>2, <1>k
<1>6. ASSUME NEW o \in Workspace, CommitVerifies(o) PROVE RegistryInv'
  <2> DEFINE me == operation[o]
             new == [me EXCEPT !.pc = "insert"]
  <2>0. DOMAIN me = OperationFields /\ me.pc = "download" BY <1>6 DEF RegistryTyped, CommitVerifies, AtOperation
  <2>1. DOMAIN new = OperationFields /\ new.pc = "insert" /\ new.step = me.step /\ new.digest = me.digest
        /\ new.reloaded = me.reloaded
      BY <2>0 DEF OperationFields
  <2>2. UNCHANGED <<versions, evaluations, latest>> BY <1>6 DEF CommitVerifies
  <2>3. me.step \in CheckpointSteps /\ me.digest \in Digests /\ me.reloaded \in BOOLEAN
      BY <2>0 DEF CommitsWitnessed
  <2>4. CASE FilesVerified(me.listed, me.step, me.digest) /\ Operate(o, new)
             /\ witnessed' = witnessed \union {<<me.step, me.listed[<<me.step, "file">>]>>}
    <3>1. <<new.step, new.digest>> \in witnessed' /\ witnessed \subseteq witnessed'
        BY <2>1, <2>4 DEF FilesVerified
    <3> HIDE DEF new, me
    <3> QED BY <2>1, <2>2, <2>3, <2>4, <3>1, <1>k
  <2>5. CASE EndOperation(o) /\ UNCHANGED witnessed BY <2>5, <2>2, <1>m
  <2> QED BY <1>6, <2>4, <2>5 DEF CommitVerifies
<1>7. ASSUME NEW o \in Workspace, CommitInserts(o) PROVE RegistryInv'
  <2> DEFINE me == operation[o]
  <2>0. /\ me.step \in CheckpointSteps /\ me.digest \in Digests /\ me.reloaded \in BOOLEAN
        /\ <<me.step, me.digest>> \in witnessed
      BY <1>7 DEF CommitInserts, AtOperation, CommitsWitnessed
  <2>1. EndOperation(o) /\ UNCHANGED <<evaluations, latest, witnessed>> BY <1>7 DEF CommitInserts
  <2>2. CASE versions[me.step] = NoVersion
    <3>1. versions' = [versions EXCEPT ![me.step] = [NoVersion EXCEPT !.digest = me.digest, !.reloaded = me.reloaded]]
        BY <2>2, <1>7 DEF CommitInserts, Inserts
    <3>2. /\ versions'[me.step] = [digest |-> me.digest, reloaded |-> me.reloaded, promoted |-> FALSE]
          /\ \A s \in CheckpointSteps : s # me.step => versions'[s] = versions[s]
        BY <2>0, <3>1 DEF NoVersion, RegistryTyped
    <3>3. RegistryTyped' BY <2>0, <2>1, <3>1, <3>2, <1>f, <1>n DEF EndOperation, RegistryTyped, NoVersion
    <3>4. \A s : EnoughPassed(s)' <=> EnoughPassed(s) BY <2>1 DEF EnoughPassed, Passing
    <3>5. VersionsEarned' BY <2>0, <2>1, <3>2, <3>4 DEF VersionsEarned
    <3>0. operation'[o].pc = "idle" /\ \A p \in Workspace : p # o => operation'[p] = operation[p]
        BY <2>1, <1>f, <1>n DEF EndOperation
    <3>6. CommitsWitnessed' BY <2>1, <3>0 DEF CommitsWitnessed
    <3>7. PromotionsRead' BY <3>0, <3>2, <3>4, <2>2 DEF PromotionsRead, ReadOf
    <3>8. PointerEarned' BY <2>1, <2>2, <3>2 DEF PointerEarned, NoVersion
    <3> QED BY <3>3, <3>5, <3>6, <3>7, <3>8
  <2>3. CASE versions[me.step] # NoVersion
      BY <2>1, <2>3, <1>7, <1>m DEF CommitInserts, Inserts
  <2> QED BY <2>2, <2>3
<1>8. ASSUME NEW s \in CheckpointSteps, CommitEvaluation(s) PROVE RegistryInv'
  <2>0. PICK decision, regressed : evaluations' = evaluations \union {[id |-> Cardinality(evaluations), step |-> s,
                                                                      decision |-> decision, regressed |-> regressed]}
      BY <1>8 DEF CommitEvaluation
  <2>1. IsFiniteSet(evaluations') /\ evaluations \subseteq evaluations'
      BY <2>0, FS_AddElement DEF RegistryTyped
  <2>2. UNCHANGED <<versions, latest, operation, witnessed>> BY <1>8 DEF CommitEvaluation
  <2>3. \A t : EnoughPassed(t) => EnoughPassed(t)' BY <2>1, EnoughStays
  <2> QED BY <2>1, <2>2, <2>3 DEF RegistryTyped, VersionsEarned, CommitsWitnessed, PromotionsRead, ReadOf, PointerEarned
<1>9. ASSUME NEW o \in Workspace, NEW s \in CheckpointSteps, PromoteReads(o, s) PROVE RegistryInv'
  <2> DEFINE new == [NoOperation EXCEPT !.pc = "judge", !.step = s, !.digest = versions[s].digest]
  <2>1. DOMAIN new = OperationFields /\ new.pc = "judge" /\ new.step = s /\ new.digest = versions[s].digest
      BY DEF NoOperation, OperationFields
  <2>2. Operate(o, new) /\ UNCHANGED <<versions, evaluations, latest, witnessed>>
        /\ versions[s] # NoVersion /\ versions[s].reloaded
      BY <1>9 DEF PromoteReads
  <2> HIDE DEF new
  <2> QED BY <2>1, <2>2, <1>k
<1>10. ASSUME NEW o \in Workspace, PromoteJudges(o) PROVE RegistryInv'
  <2> DEFINE me == operation[o]
             new == [me EXCEPT !.pc = "mark", !.passing = Passing(me.step)]
  <2>0. DOMAIN me = OperationFields /\ me.pc = "judge" BY <1>10 DEF RegistryTyped, PromoteJudges, AtOperation
  <2>1. DOMAIN new = OperationFields /\ new.pc = "mark" /\ new.step = me.step /\ new.digest = me.digest
      BY <2>0 DEF OperationFields
  <2>2. UNCHANGED <<versions, evaluations, latest, witnessed>> BY <1>10 DEF PromoteJudges
  <2>3. CASE EnoughPassed(me.step) /\ Operate(o, new)
    <3>1. /\ me.step \in CheckpointSteps
          /\ versions[me.step] # NoVersion
          /\ versions[me.step].reloaded
          /\ versions[me.step].digest = me.digest
        BY <2>0 DEF PromotionsRead, ReadOf
    <3> HIDE DEF new, me
    <3> QED BY <2>1, <2>2, <2>3, <3>1, <1>k
  <2>4. CASE EndOperation(o) BY <2>2, <2>4, <1>m
  <2> QED BY <1>10, <2>3, <2>4 DEF PromoteJudges, EnoughPassed
<1>11. ASSUME NEW o \in Workspace, PromoteMarks(o) PROVE RegistryInv'
  <2> DEFINE me == operation[o]
             new == [me EXCEPT !.pc = "point"]
  <2>0. DOMAIN me = OperationFields /\ me.pc = "mark" BY <1>11 DEF RegistryTyped, PromoteMarks, AtOperation
  <2>1. DOMAIN new = OperationFields /\ new.pc = "point" /\ new.step = me.step /\ new.digest = me.digest
      BY <2>0 DEF OperationFields
  <2>2. /\ me.step \in CheckpointSteps /\ EnoughPassed(me.step)
        /\ versions[me.step] # NoVersion
        /\ versions[me.step].reloaded
        /\ versions[me.step].digest = me.digest
      BY <2>0 DEF PromotionsRead, ReadOf
  <2>3. /\ Operate(o, new) /\ UNCHANGED <<evaluations, latest, witnessed>>
        /\ versions' = [versions EXCEPT ![me.step].promoted = TRUE]
      BY <1>11 DEF PromoteMarks
  <2>4. /\ versions'[me.step].promoted = TRUE
        /\ versions'[me.step].digest = versions[me.step].digest
        /\ versions'[me.step].reloaded = versions[me.step].reloaded
        /\ \A s \in CheckpointSteps : s # me.step => versions'[s] = versions[s]
        /\ versions' \in [CheckpointSteps -> [digest : Digests \union {NoDigest}, reloaded : BOOLEAN, promoted : BOOLEAN]]
      BY <2>2, <2>3, ZenonT(40) DEF RegistryTyped
  <2>5. versions'[me.step] # NoVersion BY <2>4 DEF NoVersion
  <2>6. \A s : EnoughPassed(s)' <=> EnoughPassed(s) BY <2>3 DEF EnoughPassed, Passing
  <2>7. /\ DOMAIN operation' = Workspace
        /\ \A p \in Workspace : DOMAIN operation'[p] = OperationFields
        /\ operation'[o] = new
        /\ \A p \in Workspace : p # o => operation'[p] = operation[p]
    <3> HIDE DEF new
    <3> QED BY <2>1, <2>3, <1>f
  <2> HIDE DEF new, me
  <2>8. RegistryTyped' BY <2>3, <2>4, <2>7 DEF RegistryTyped
  <2>9. VersionsEarned' BY <2>2, <2>3, <2>4, <2>5, <2>6 DEF VersionsEarned
  <2>10. CommitsWitnessed' BY <2>1, <2>3, <2>7 DEF CommitsWitnessed
  <2>11. PromotionsRead'
    <3>1. \A s \in CheckpointSteps : versions[s] # NoVersion =>
              /\ versions'[s] # NoVersion
              /\ versions'[s].reloaded = versions[s].reloaded
              /\ versions'[s].digest = versions[s].digest
              /\ versions[s].promoted => versions'[s].promoted
        BY <2>2, <2>4, <2>5
    <3>2. ASSUME NEW p \in Workspace, p # o PROVE ReadOf(p)'
        BY <3>1, <3>2, <2>6, <2>7 DEF PromotionsRead, ReadOf
    <3>3. ReadOf(o)' BY <2>1, <2>2, <2>4, <2>5, <2>6, <2>7, ZenonT(40) DEF ReadOf
    <3> QED BY <3>2, <3>3 DEF PromotionsRead
  <2>12. PointerEarned' BY <2>3, <2>4 DEF PointerEarned
  <2> QED BY <2>8, <2>9, <2>10, <2>11, <2>12
<1>12. ASSUME NEW o \in Workspace, PromotePoints(o) PROVE RegistryInv'
  <2> DEFINE me == operation[o]
  <2>1. /\ me.step \in CheckpointSteps /\ versions[me.step].promoted
        /\ versions[me.step].digest = me.digest
      BY <1>12 DEF PromotePoints, AtOperation, PromotionsRead, ReadOf
  <2>2. /\ latest' = [step |-> me.step, digest |-> me.digest]
        /\ EndOperation(o) /\ UNCHANGED <<versions, evaluations, witnessed>>
      BY <1>12 DEF PromotePoints
  <2>3. /\ DOMAIN operation' = Workspace
        /\ \A p \in Workspace : DOMAIN operation'[p] = OperationFields
        /\ operation'[o] = NoOperation
        /\ \A p \in Workspace : p # o => operation'[p] = operation[p]
      BY <2>2, <1>f, <1>n DEF EndOperation
  <2>4. \A s : EnoughPassed(s)' <=> EnoughPassed(s) BY <2>2 DEF EnoughPassed, Passing
  <2>5. RegistryTyped' BY <2>2, <2>3 DEF RegistryTyped
  <2>6. VersionsEarned' BY <2>2, <2>4 DEF VersionsEarned
  <2>7. CommitsWitnessed' BY <2>2, <2>3 DEF CommitsWitnessed, NoOperation
  <2>8. PromotionsRead' BY <2>2, <2>3, <2>4 DEF PromotionsRead, ReadOf, NoOperation
  <2>9. PointerEarned' BY <2>1, <2>2 DEF PointerEarned
  <2> QED BY <2>5, <2>6, <2>7, <2>8, <2>9
<1>13. ASSUME NextMilestone PROVE RegistryInv'
    BY <1>13 DEF NextMilestone, RegistryTyped, VersionsEarned, CommitsWitnessed, PromotionsRead, ReadOf, PointerEarned,
       EnoughPassed, Passing
<1>14. ASSUME NEW o \in Workspace, OperationDies(o) PROVE RegistryInv'
    BY <1>14, <1>m DEF OperationDies
<1> QED
    BY <1>1, <1>2, <1>3, <1>4, <1>5, <1>6, <1>7, <1>8, <1>9, <1>10, <1>11, <1>12, <1>13, <1>14 DEF RegistryNext

(* PromotionEarned: a promoted checkpoint was verified, reloaded and passed by     *)
(* enough evaluations, and the pointer names one as it stands, for every number    *)
(* of concurrent calls, steps and digests and every minimum of evaluations.        *)
THEOREM PromotionsEarned == RegistrySpec => []PromotionEarned
<1>1. RegistryInv => PromotionEarned
    BY DEF RegistryInv, VersionsEarned, PointerEarned, PromotionEarned, EnoughPassed, NoVersion
<1> QED BY <1>1, RegistryInitial, RegistryStep, PTL DEF RegistrySpec

------------------------------------------------------------------------------
(* Negotiations and failure intelligence.                                    *)

Messages == [talk : Talks, by : {"talk", "client"}, kind : {"proposal", "review", "challenge", "evidence", "critic", "decision"}, ok : BOOLEAN, refs : Nat]
TalkFields == {"at", "current", "round", "version", "peer", "agreed", "evidence", "critic", "confident"}

Proposal(t, m) == bus[m].talk = t /\ bus[m].by = "talk" /\ bus[m].kind = "proposal"
LatestProposal(t, m) ==
    /\ m \in 1..Len(bus) /\ Proposal(t, m)
    /\ \A n \in m+1..Len(bus) : ~Proposal(t, n)

(* What a negotiation's locals say of the bus, as far as the negotiation has come. *)
ProposalKnown(t, me) ==
    me.at \in {"peer", "evidence", "critic", "verifier", "reviser"} => LatestProposal(t, me.current)
PeerKnown(me) ==
    me.at \in {"evidence", "critic", "verifier"} =>
        /\ me.peer \in 1..Len(bus) /\ bus[me.peer].by = "talk" /\ bus[me.peer].refs = me.current
        /\ me.agreed \in BOOLEAN
        /\ me.agreed => bus[me.peer].kind = "review"
EvidenceKnown(me) ==
    me.at \in {"critic", "verifier"} =>
        me.evidence \in 1..Len(bus) /\ bus[me.evidence].by = "talk" /\ bus[me.evidence].refs = me.peer
CriticKnown(me) ==
    me.at = "verifier" =>
        /\ me.critic \in 1..Len(bus) /\ bus[me.critic].by = "talk" /\ bus[me.critic].refs = me.evidence
        /\ me.confident \in BOOLEAN
        /\ me.confident => bus[me.critic].ok
Knows(t, me) == ProposalKnown(t, me) /\ PeerKnown(me) /\ EvidenceKnown(me) /\ CriticKnown(me)

(* What is remembered of a talk, which has ended.                                 *)
Chain(p) ==
    /\ p.decision \in 1..Len(bus) /\ bus[p.decision].refs \in 1..Len(bus)
    /\ bus[bus[p.decision].refs].refs \in 1..Len(bus)
    /\ bus[bus[bus[p.decision].refs].refs].refs \in 1..Len(bus)
    /\ bus[p.decision].ok /\ bus[p.decision].by = "talk"
    /\ bus[bus[p.decision].refs].ok /\ bus[bus[p.decision].refs].by = "talk"
    /\ bus[bus[bus[p.decision].refs].refs].by = "talk"
    /\ LET peer == bus[bus[bus[bus[p.decision].refs].refs].refs]
       IN  peer.by = "talk" /\ peer.kind = "review" /\ peer.refs = p.proposal
Remembered(p) == p.talk \in Talks /\ LatestProposal(p.talk, p.proposal) /\ Chain(p)

TalksTyped ==
    /\ bus \in Seq(Messages)
    /\ DOMAIN talk = Talks
    /\ \A t \in Talks : DOMAIN talk[t] = TalkFields
TalksKnow == \A t \in Talks : Knows(t, talk[t])
MemorySound == \A p \in memory : Remembered(p) /\ talk[p.talk].at = "ended"
CollaborationInv == TalksTyped /\ TalksKnow /\ MemorySound

LEMMA CollaborationInitial == CollaborationInit => CollaborationInv
  BY DEF CollaborationInit, CollaborationInv, TalksTyped, TalksKnow, MemorySound, Knows, ProposalKnown, PeerKnown,
     EvidenceKnown, CriticKnown, Silent, TalkFields

(* Appending a message leaves what is known of the earlier ones, and a proposal   *)
(* the latest of its talk unless the message is another.                          *)
LEMMA Appended ==
    ASSUME bus \in Seq(Messages), NEW msg \in Messages, bus' = Append(bus, msg)
    PROVE  /\ bus' \in Seq(Messages)
           /\ Len(bus) \in Nat /\ Len(bus') = Len(bus) + 1
           /\ bus'[NextMessage] = msg
           /\ \A m \in 1..Len(bus) : bus'[m] = bus[m] /\ m \in 1..Len(bus')
  BY DEF NextMessage

LEMMA ProposalStays ==
    ASSUME bus \in Seq(Messages), NEW msg \in Messages, bus' = Append(bus, msg), NEW t, NEW m,
           ~(msg.talk = t /\ msg.by = "talk" /\ msg.kind = "proposal"), LatestProposal(t, m)
    PROVE  LatestProposal(t, m)'
<1>1. m \in 1..Len(bus) /\ Proposal(t, m) /\ \A n \in m+1..Len(bus) : ~Proposal(t, n) BY DEF LatestProposal
<1>2. m \in 1..Len(bus') /\ Proposal(t, m)' BY <1>1, Appended DEF Proposal
<1>3. ASSUME NEW n \in m+1..Len(bus') PROVE ~Proposal(t, n)'
  <2>1. CASE n = NextMessage BY <2>1, Appended DEF Proposal
  <2>2. CASE n # NextMessage
    <3>1. n \in m+1..Len(bus) /\ n \in 1..Len(bus) BY <2>2, <1>1, <1>3, Appended DEF NextMessage
    <3> QED BY <3>1, <1>1, Appended DEF Proposal
  <2> QED BY <2>1, <2>2
<1> QED BY <1>2, <1>3 DEF LatestProposal

LEMMA KnownStays ==
    ASSUME bus \in Seq(Messages), NEW msg \in Messages, bus' = Append(bus, msg), NEW me
    PROVE  /\ PeerKnown(me) => PeerKnown(me)'
           /\ EvidenceKnown(me) => EvidenceKnown(me)'
           /\ CriticKnown(me) => CriticKnown(me)'
  BY Appended DEF PeerKnown, EvidenceKnown, CriticKnown

LEMMA RememberedStays ==
    ASSUME bus \in Seq(Messages), NEW msg \in Messages, bus' = Append(bus, msg), NEW p, Remembered(p),
           ~(msg.talk = p.talk /\ msg.by = "talk" /\ msg.kind = "proposal")
    PROVE  Remembered(p)'
<1>1. Chain(p)'
  <2>1. \A m \in 1..Len(bus) : bus'[m] = bus[m] /\ m \in 1..Len(bus') BY Appended
  <2> QED BY <2>1, ZenonT(40) DEF Remembered, Chain
<1> QED BY <1>1, ProposalStays DEF Remembered

(* One step of a negotiation: it says something, or nothing, and goes on with new *)
(* locals that know the bus as it is then.                                        *)
LEMMA TalkSpeaks ==
    ASSUME CollaborationInv, NEW t \in Talks, NEW new, NEW msg \in Messages, bus' = Append(bus, msg), To(t, new),
           DOMAIN new = TalkFields, talk[t].at # "ended", Knows(t, new)', memory' = memory,
           \A s \in Talks : s # t => ~(msg.talk = s /\ msg.by = "talk" /\ msg.kind = "proposal")
    PROVE  CollaborationInv'
<1>1. talk'[t] = new /\ \A s \in Talks : s # t => talk'[s] = talk[s]
    BY DEF CollaborationInv, TalksTyped, To
<1>2. TalksTyped' BY <1>1, Appended DEF CollaborationInv, TalksTyped, To
<1>3. TalksKnow'
  <2>1. ASSUME NEW s \in Talks, s # t PROVE Knows(s, talk[s])'
    <3> DEFINE me == talk[s]
    <3>0. talk'[s] = me BY <1>1, <2>1
    <3>1. Knows(s, me) BY DEF CollaborationInv, TalksKnow
    <3> SUFFICES ASSUME NEW mine, Knows(s, mine) PROVE Knows(s, mine)' BY <3>0, <3>1
    <3> QED BY <2>1, KnownStays, ProposalStays DEF Knows, ProposalKnown, CollaborationInv, TalksTyped
  <2> QED BY <2>1, <1>1 DEF TalksKnow
<1>4. MemorySound'
  <2>1. ASSUME NEW p \in memory PROVE Remembered(p)' /\ talk'[p.talk].at = "ended"
    <3>1. Remembered(p) /\ talk[p.talk].at = "ended" /\ p.talk \in Talks /\ p.talk # t
        BY DEF CollaborationInv, MemorySound, Remembered
    <3> QED BY <3>1, <1>1, RememberedStays DEF CollaborationInv, TalksTyped
  <2> QED BY <2>1 DEF MemorySound
<1> QED BY <1>2, <1>3, <1>4 DEF CollaborationInv

LEMMA CollaborationStep == CollaborationInv /\ [CollaborationNext]_collaborationVars => CollaborationInv'
<1> SUFFICES ASSUME CollaborationInv, [CollaborationNext]_collaborationVars PROVE CollaborationInv' OBVIOUS
<1>b. bus \in Seq(Messages) /\ Len(bus) \in Nat BY DEF CollaborationInv, TalksTyped
<1>t. \A t \in Talks : DOMAIN talk[t] = TalkFields /\ Knows(t, talk[t])
    BY DEF CollaborationInv, TalksTyped, TalksKnow
<1>m. ASSUME UNCHANGED bus, NEW p, Remembered(p) PROVE Remembered(p)'
  <2>1. LatestProposal(p.talk, p.proposal)' BY <1>m DEF Remembered, LatestProposal, Proposal
  <2>2. Chain(p)' BY <1>m DEF Remembered, Chain
  <2> QED BY <2>1, <2>2, <1>m DEF Remembered
<1>u. ASSUME UNCHANGED <<bus, talk, memory>> PROVE CollaborationInv'
  <2>1. TalksTyped' BY <1>u DEF CollaborationInv, TalksTyped
  <2>2. TalksKnow'
      BY <1>u, <1>t DEF TalksKnow, Knows, ProposalKnown, PeerKnown, EvidenceKnown, CriticKnown, LatestProposal, Proposal
  <2>3. MemorySound' BY <1>u, <1>m DEF CollaborationInv, MemorySound
  <2> QED BY <2>1, <2>2, <2>3 DEF CollaborationInv
<1>1. CASE UNCHANGED collaborationVars BY <1>1, <1>u DEF collaborationVars
\* A negotiation that raises knows nothing more.
<1>r. ASSUME NEW t \in Talks
      PROVE  \A new : new = [talk[t] EXCEPT !.at = "raised"] => DOMAIN new = TalkFields /\ Knows(t, new)'
    BY <1>t DEF Knows, ProposalKnown, PeerKnown, EvidenceKnown, CriticKnown, TalkFields
<1>p. ASSUME NEW t \in Talks, NEW version, NEW new, DOMAIN new = TalkFields, new.at = "peer", new.current = NextMessage,
             talk[t].at # "ended", Proposes(t, version, new)
      PROVE  CollaborationInv'
  <2>m. PICK msg : msg = Message(t, "talk", "proposal", FALSE, 0) OBVIOUS
  <2>1. msg \in Messages /\ msg.talk = t /\ msg.by = "talk" /\ msg.kind = "proposal" BY <2>m DEF Message, Messages
  <2>2. bus' = Append(bus, msg) /\ memory' = memory BY <1>p, <2>m DEF Proposes
  <2>3. Knows(t, new)'
    <3>1. LatestProposal(t, new.current)' BY <1>b, <1>p, <2>1, <2>2, Appended DEF LatestProposal, Proposal, NextMessage
    <3> QED BY <3>1, <1>p DEF Knows, ProposalKnown, PeerKnown, EvidenceKnown, CriticKnown
  <2>4. CASE To(t, new) BY <1>p, <1>b, <2>1, <2>2, <2>3, <2>4, TalkSpeaks
  <2>5. CASE Leave(t, "raised")
    <3>1. PICK raised : raised = [talk[t] EXCEPT !.at = "raised"] OBVIOUS
    <3>2. DOMAIN raised = TalkFields /\ Knows(t, raised)' BY <3>1, <1>r
    <3> QED BY <1>p, <1>b, <2>1, <2>2, <2>5, <3>1, <3>2, TalkSpeaks DEF Leave
  <2> QED BY <2>4, <2>5, <1>p DEF Proposes
<1>2. ASSUME NEW t \in Talks, StartTalk(t) PROVE CollaborationInv'
  <2>n. PICK new : new = [Silent EXCEPT !.at = "peer", !.current = NextMessage, !.version = 1] OBVIOUS
  <2>1. DOMAIN new = TalkFields /\ new.at = "peer" /\ new.current = NextMessage BY <2>n DEF Silent, TalkFields
  <2>2. Proposes(t, 0, new) /\ talk[t].at # "ended" BY <1>2, <2>n DEF StartTalk
  <2> QED BY <2>1, <2>2, <1>p
<1>3. ASSUME NEW t \in Talks, PeerReviews(t) PROVE CollaborationInv'
  <2>1. PICK ok \in BOOLEAN :
          /\ bus' = Append(bus, Message(t, "talk", IF ok THEN "review" ELSE "challenge", ok, talk[t].current))
          /\ To(t, [talk[t] EXCEPT !.at = "evidence", !.peer = NextMessage, !.agreed = ok])
      BY <1>3 DEF PeerReviews
  <2>m. PICK msg : msg = Message(t, "talk", IF ok THEN "review" ELSE "challenge", ok, talk[t].current) OBVIOUS
  <2>n. PICK new : new = [talk[t] EXCEPT !.at = "evidence", !.peer = NextMessage, !.agreed = ok] OBVIOUS
  <2>2. talk[t].at = "peer" /\ memory' = memory /\ LatestProposal(t, talk[t].current)
      BY <1>3, <1>t DEF PeerReviews, Knows, ProposalKnown
  <2>3. talk[t].current \in Nat BY <1>b, <2>2 DEF LatestProposal
  <2>4. /\ msg \in Messages /\ msg.by = "talk" /\ msg.kind # "proposal" /\ msg.refs = talk[t].current
        /\ ok => msg.kind = "review"
      BY <2>3, <2>m DEF Message, Messages
  <2>5. /\ DOMAIN new = TalkFields /\ new.at = "evidence" /\ new.peer = NextMessage /\ new.agreed = ok
        /\ new.current = talk[t].current
      BY <1>t, <2>n DEF TalkFields
  <2>6. bus' = Append(bus, msg) /\ To(t, new) BY <2>1, <2>m, <2>n
  <2>7. PeerKnown(new)' BY <1>b, <2>4, <2>5, <2>6, Appended DEF PeerKnown, NextMessage
  <2>8. LatestProposal(t, new.current)' BY <1>b, <2>2, <2>4, <2>5, <2>6, ProposalStays
  <2>9. Knows(t, new)' BY <2>5, <2>7, <2>8 DEF Knows, ProposalKnown, EvidenceKnown, CriticKnown
  <2> QED BY <2>2, <2>4, <2>5, <2>6, <2>9, TalkSpeaks
<1>4. ASSUME NEW t \in Talks, EvidenceAnswers(t) PROVE CollaborationInv'
  <2>m. PICK msg : msg = Message(t, "talk", "evidence", FALSE, talk[t].peer) OBVIOUS
  <2>n. PICK new : new = [talk[t] EXCEPT !.at = "critic", !.evidence = NextMessage] OBVIOUS
  <2>2. talk[t].at = "evidence" /\ memory' = memory /\ LatestProposal(t, talk[t].current) /\ PeerKnown(talk[t])
      BY <1>4, <1>t DEF EvidenceAnswers, Knows, ProposalKnown
  <2>3. talk[t].peer \in Nat BY <1>b, <2>2 DEF PeerKnown
  <2>4. msg \in Messages /\ msg.by = "talk" /\ msg.kind # "proposal" /\ msg.refs = talk[t].peer
      BY <2>3, <2>m DEF Message, Messages
  <2>5. /\ DOMAIN new = TalkFields /\ new.at = "critic" /\ new.evidence = NextMessage /\ new.agreed = talk[t].agreed
        /\ new.current = talk[t].current /\ new.peer = talk[t].peer
      BY <1>t, <2>n DEF TalkFields
  <2>6. bus' = Append(bus, msg) /\ To(t, new) BY <1>4, <2>m, <2>n DEF EvidenceAnswers
  <2>7. EvidenceKnown(new)' BY <1>b, <2>4, <2>5, <2>6, Appended DEF EvidenceKnown, NextMessage
  <2>8. LatestProposal(t, new.current)' BY <1>b, <2>2, <2>4, <2>5, <2>6, ProposalStays
  <2>9. PeerKnown(new)
      BY <2>2, <2>5 DEF PeerKnown
  <2>10. PeerKnown(new)' BY <1>b, <2>4, <2>6, <2>9, <2>5, Appended DEF PeerKnown
  <2>11. Knows(t, new)' BY <2>5, <2>7, <2>8, <2>10 DEF Knows, ProposalKnown, CriticKnown
  <2> QED BY <2>2, <2>4, <2>5, <2>6, <2>11, TalkSpeaks
<1>5. ASSUME NEW t \in Talks, CriticScores(t) PROVE CollaborationInv'
  <2>1. PICK high \in BOOLEAN :
          /\ bus' = Append(bus, Message(t, "talk", "critic", high, talk[t].evidence))
          /\ To(t, [talk[t] EXCEPT !.at = "verifier", !.critic = NextMessage, !.confident = high])
      BY <1>5 DEF CriticScores
  <2>m. PICK msg : msg = Message(t, "talk", "critic", high, talk[t].evidence) OBVIOUS
  <2>n. PICK new : new = [talk[t] EXCEPT !.at = "verifier", !.critic = NextMessage, !.confident = high] OBVIOUS
  <2>2. /\ talk[t].at = "critic" /\ memory' = memory /\ LatestProposal(t, talk[t].current)
        /\ PeerKnown(talk[t]) /\ EvidenceKnown(talk[t])
      BY <1>5, <1>t DEF CriticScores, Knows, ProposalKnown
  <2>3. talk[t].evidence \in Nat BY <1>b, <2>2 DEF EvidenceKnown
  <2>4. msg \in Messages /\ msg.by = "talk" /\ msg.kind # "proposal" /\ msg.refs = talk[t].evidence /\ msg.ok = high
      BY <2>3, <2>m DEF Message, Messages
  <2>5. /\ DOMAIN new = TalkFields /\ new.at = "verifier" /\ new.critic = NextMessage /\ new.confident = high
        /\ new.agreed = talk[t].agreed /\ new.current = talk[t].current /\ new.peer = talk[t].peer
        /\ new.evidence = talk[t].evidence
      BY <1>t, <2>n DEF TalkFields
  <2>6. bus' = Append(bus, msg) /\ To(t, new) BY <2>1, <2>m, <2>n
  <2>7. CriticKnown(new)' BY <1>b, <2>4, <2>5, <2>6, Appended DEF CriticKnown, NextMessage
  <2>8. LatestProposal(t, new.current)' BY <1>b, <2>2, <2>4, <2>5, <2>6, ProposalStays
  <2>9. PeerKnown(new) /\ EvidenceKnown(new) BY <2>2, <2>5 DEF PeerKnown, EvidenceKnown
  <2>10. PeerKnown(new)' /\ EvidenceKnown(new)'
      BY <1>b, <2>4, <2>6, <2>9, <2>5, Appended DEF PeerKnown, EvidenceKnown
  <2>11. Knows(t, new)' BY <2>5, <2>7, <2>8, <2>10 DEF Knows, ProposalKnown
  <2> QED BY <2>2, <2>4, <2>5, <2>6, <2>11, TalkSpeaks
<1>6. ASSUME NEW t \in Talks, VerifierDecides(t) PROVE CollaborationInv'
  <2>1. PICK word \in BOOLEAN :
          /\ bus' = Append(bus, Message(t, "talk", "decision", Agreed(t, word), talk[t].critic))
          /\ IF LastRound(t, Agreed(t, word))
             THEN Concludes(t, Agreed(t, word))
             ELSE Leave(t, "reviser") /\ UNCHANGED <<board, memory>>
      BY <1>6 DEF VerifierDecides
  <2>m. PICK msg : msg = Message(t, "talk", "decision", Agreed(t, word), talk[t].critic) OBVIOUS
  <2>2. /\ talk[t].at = "verifier" /\ LatestProposal(t, talk[t].current)
        /\ PeerKnown(talk[t]) /\ EvidenceKnown(talk[t]) /\ CriticKnown(talk[t])
      BY <1>6, <1>t DEF VerifierDecides, Knows, ProposalKnown
  <2>3. talk[t].critic \in Nat /\ Agreed(t, word) \in BOOLEAN BY <1>b, <2>2 DEF CriticKnown, PeerKnown, Agreed
  <2>4. msg \in Messages /\ msg.by = "talk" /\ msg.kind # "proposal" /\ msg.refs = talk[t].critic
        /\ msg.ok = Agreed(t, word)
      BY <2>3, <2>m DEF Message, Messages
  <2>6. bus' = Append(bus, msg) BY <2>1, <2>m
  <2>7. CASE Leave(t, "reviser") /\ memory' = memory
    <3>n. PICK new : new = [talk[t] EXCEPT !.at = "reviser"] OBVIOUS
    <3>1. DOMAIN new = TalkFields /\ new.at = "reviser" /\ new.current = talk[t].current BY <1>t, <3>n DEF TalkFields
    <3>2. To(t, new) BY <2>7, <3>n DEF Leave
    <3>3. LatestProposal(t, new.current)' BY <1>b, <2>2, <2>4, <2>6, <3>1, ProposalStays
    <3>4. Knows(t, new)' BY <3>1, <3>3 DEF Knows, ProposalKnown, PeerKnown, EvidenceKnown, CriticKnown
    <3> QED BY <2>2, <2>4, <2>6, <2>7, <3>1, <3>2, <3>4, TalkSpeaks
  <2>8. CASE Leave(t, "raised") /\ memory' = memory
    <3>n. PICK new : new = [talk[t] EXCEPT !.at = "raised"] OBVIOUS
    <3>1. DOMAIN new = TalkFields /\ Knows(t, new)' BY <3>n, <1>r
    <3> QED BY <2>2, <2>4, <2>6, <2>8, <3>n, <3>1, TalkSpeaks DEF Leave
  <2>e. \A new : new = [talk[t] EXCEPT !.at = "ended"] => DOMAIN new = TalkFields /\ Knows(t, new)' /\ new.at = "ended"
      BY <1>t DEF Knows, ProposalKnown, PeerKnown, EvidenceKnown, CriticKnown, TalkFields
  <2>9. CASE Leave(t, "ended") /\ memory' = memory
    <3>n. PICK new : new = [talk[t] EXCEPT !.at = "ended"] OBVIOUS
    <3>1. DOMAIN new = TalkFields /\ Knows(t, new)' BY <3>n, <2>e
    <3> QED BY <2>2, <2>4, <2>6, <2>9, <3>n, <3>1, TalkSpeaks DEF Leave
  <2>10. CASE /\ Leave(t, "ended") /\ Agreed(t, word)
              /\ memory' = memory \union {[talk |-> t, proposal |-> talk[t].current, decision |-> NextMessage]}
    <3>p. PICK p : p = [talk |-> t, proposal |-> talk[t].current, decision |-> NextMessage] OBVIOUS
    <3>1. talk'[t].at = "ended" /\ \A s \in Talks : s # t => talk'[s] = talk[s]
        BY <2>10, <2>e DEF Leave, To, CollaborationInv, TalksTyped
    <3>2. TalksTyped' BY <1>b, <2>10, <2>4, <2>6, <2>e, Appended DEF CollaborationInv, TalksTyped, Leave, To
    <3>3. TalksKnow'
      <4>1. ASSUME NEW s \in Talks, s # t PROVE Knows(s, talk[s])'
        <5>1. Knows(s, talk[s]) /\ talk'[s] = talk[s] BY <3>1, <4>1, <1>t
        <5> SUFFICES ASSUME NEW mine, Knows(s, mine) PROVE Knows(s, mine)' BY <5>1
        <5> QED BY <1>b, <2>4, <2>6, KnownStays, ProposalStays DEF Knows, ProposalKnown
      <4>2. Knows(t, talk[t])' BY <3>1 DEF Knows, ProposalKnown, PeerKnown, EvidenceKnown, CriticKnown
      <4> QED BY <4>1, <4>2 DEF TalksKnow
    <3>4. Remembered(p)'
      <4>1. LatestProposal(t, p.proposal)'
          BY <3>p, <1>b, <2>2, <2>4, <2>6, ProposalStays
      <4>2. talk[t].agreed /\ talk[t].confident BY <2>10 DEF Agreed
      <4>3. /\ p.talk = t /\ p.proposal = talk[t].current /\ p.decision = NextMessage BY <3>p
      <4>4. Chain(p)'
        <5>0. PICK me : me = talk[t] OBVIOUS
        <5>1. /\ me.peer \in 1..Len(bus) /\ bus[me.peer].by = "talk" /\ bus[me.peer].refs = me.current
              /\ bus[me.peer].kind = "review"
              /\ me.evidence \in 1..Len(bus) /\ bus[me.evidence].by = "talk" /\ bus[me.evidence].refs = me.peer
              /\ me.critic \in 1..Len(bus) /\ bus[me.critic].by = "talk" /\ bus[me.critic].refs = me.evidence
              /\ bus[me.critic].ok
            BY <5>0, <2>2, <4>2 DEF PeerKnown, EvidenceKnown, CriticKnown
        <5>2. /\ bus'[NextMessage] = msg /\ NextMessage \in 1..Len(bus')
              /\ \A m \in 1..Len(bus) : bus'[m] = bus[m] /\ m \in 1..Len(bus')
            BY <1>b, <2>4, <2>6, Appended DEF NextMessage
        <5>3. bus'[p.decision].refs = me.critic /\ bus'[p.decision].ok /\ bus'[p.decision].by = "talk"
            BY <5>0, <5>2, <4>3, <2>4, <2>10
        <5>4. /\ bus'[me.critic] = bus[me.critic] /\ me.critic \in 1..Len(bus')
              /\ bus'[me.evidence] = bus[me.evidence] /\ me.evidence \in 1..Len(bus')
              /\ bus'[me.peer] = bus[me.peer] /\ me.peer \in 1..Len(bus')
            BY <5>1, <5>2
        <5>5. p.decision \in 1..Len(bus') /\ p.proposal = me.current BY <5>0, <5>2, <4>3
        <5>6. /\ bus'[bus'[p.decision].refs] = bus[me.critic]
              /\ bus'[bus'[bus'[p.decision].refs].refs] = bus[me.evidence]
              /\ bus'[bus'[bus'[bus'[p.decision].refs].refs].refs] = bus[me.peer]
            BY <5>1, <5>3, <5>4
        <5> QED BY <5>1, <5>3, <5>4, <5>5, <5>6 DEF Chain
      <4> QED BY <4>1, <4>3, <4>4 DEF Remembered
    <3>5. MemorySound'
      <4>1. ASSUME NEW q \in memory PROVE Remembered(q)' /\ talk'[q.talk].at = "ended"
        <5>1. Remembered(q) /\ talk[q.talk].at = "ended" /\ q.talk \in Talks
            BY DEF CollaborationInv, MemorySound, Remembered
        <5> QED BY <5>1, <3>1, <1>b, <2>4, <2>6, RememberedStays
      <4> QED BY <4>1, <3>1, <3>4, <3>p, <2>10 DEF MemorySound
    <3> QED BY <3>2, <3>3, <3>5 DEF CollaborationInv
  <2> QED BY <2>1, <2>7, <2>8, <2>9, <2>10 DEF Concludes
<1>7. ASSUME NEW t \in Talks, Revises(t) PROVE CollaborationInv'
  <2>n. PICK new : new = [talk[t] EXCEPT !.at = "peer", !.current = NextMessage, !.round = @ + 1, !.version = @ + 1] OBVIOUS
  <2>1. DOMAIN new = TalkFields /\ new.at = "peer" /\ new.current = NextMessage BY <1>t, <2>n DEF TalkFields
  <2>2. Proposes(t, talk[t].version, new) /\ talk[t].at # "ended" BY <1>7, <2>n DEF Revises
  <2> QED BY <2>1, <2>2, <1>p
<1>8. ASSUME NEW t \in Talks, TalkFails(t) PROVE CollaborationInv'
  <2>1. /\ talk[t].at # "ended" /\ UNCHANGED <<bus, memory>>
        /\ talk'[t].at = "raised" /\ \A s \in Talks : s # t => talk'[s] = talk[s]
        /\ DOMAIN talk' = Talks /\ \A s \in Talks : DOMAIN talk'[s] = TalkFields
      BY <1>8, <1>t DEF TalkFails, Leave, To, CollaborationInv, TalksTyped, TalkFields
  <2>2. TalksTyped' BY <2>1 DEF CollaborationInv, TalksTyped
  <2>3. TalksKnow'
      BY <2>1, <1>t, SMTT(30) DEF TalksKnow, Knows, ProposalKnown, PeerKnown, EvidenceKnown, CriticKnown, LatestProposal, Proposal
  <2>4. MemorySound'
      BY <2>1, <1>m DEF CollaborationInv, MemorySound, Remembered
  <2> QED BY <2>2, <2>3, <2>4 DEF CollaborationInv
<1>9. ASSUME PostMessage PROVE CollaborationInv'
  <2>1. PICK t \in Talks, kind \in {"proposal", "review", "critic", "decision"}, ok \in BOOLEAN :
            bus' = Append(bus, Message(t, "client", kind, ok, 0))
      BY <1>9 DEF PostMessage
  <2>m. PICK msg : msg = Message(t, "client", kind, ok, 0) OBVIOUS
  <2>2. msg \in Messages /\ msg.by # "talk" BY <2>m DEF Message, Messages
  <2>3. bus' = Append(bus, msg) /\ UNCHANGED <<talk, memory>> BY <2>1, <2>m, <1>9 DEF PostMessage
  <2>4. TalksTyped' BY <2>2, <2>3, Appended DEF CollaborationInv, TalksTyped
  <2>5. TalksKnow'
    <3>1. ASSUME NEW s \in Talks PROVE Knows(s, talk[s])'
      <4> SUFFICES ASSUME NEW mine, Knows(s, mine) PROVE Knows(s, mine)' BY <1>t, <2>3
      <4> QED BY <1>b, <2>2, <2>3, KnownStays, ProposalStays DEF Knows, ProposalKnown
    <3> QED BY <3>1 DEF TalksKnow
  <2>6. MemorySound' BY <1>b, <2>2, <2>3, RememberedStays DEF CollaborationInv, MemorySound
  <2> QED BY <2>4, <2>5, <2>6 DEF CollaborationInv
<1>10. ASSUME PutEntry PROVE CollaborationInv' BY <1>10, <1>u DEF PutEntry
<1> QED BY <1>1, <1>2, <1>3, <1>4, <1>5, <1>6, <1>7, <1>8, <1>9, <1>10 DEF CollaborationNext

(* The latest proposal is what LastProposal chooses.                              *)
LEMMA LastIsLatest ==
    ASSUME bus \in Seq(Messages), NEW t, NEW m, LatestProposal(t, m)
    PROVE  LastProposal(t) = m
<1>1. m \in 1..Len(bus) /\ Len(bus) \in Nat BY DEF LatestProposal
<1>2. \A k \in 1..Len(bus) : LatestProposal(t, k) => k = m
  <2> SUFFICES ASSUME NEW k \in 1..Len(bus), LatestProposal(t, k), k # m PROVE FALSE OBVIOUS
  <2>1. CASE k < m
    <3>1. m \in k+1..Len(bus) BY <1>1, <2>1
    <3> QED BY <3>1 DEF LatestProposal
  <2>2. CASE m < k
    <3>1. k \in m+1..Len(bus) BY <1>1, <2>2
    <3> QED BY <3>1 DEF LatestProposal
  <2> QED BY <1>1, <2>1, <2>2
<1>3. LastProposal(t) = CHOOSE k \in 1..Len(bus) : LatestProposal(t, k)
  <2>1. \A k \in 1..Len(bus) : LatestProposal(t, k) <=>
          /\ bus[k].talk = t /\ bus[k].by = "talk" /\ bus[k].kind = "proposal"
          /\ \A n \in k+1..Len(bus) : ~(bus[n].talk = t /\ bus[n].by = "talk" /\ bus[n].kind = "proposal")
      BY DEF LatestProposal, Proposal
  <2> QED BY <2>1 DEF LastProposal, LatestProposal, Proposal
<1> QED BY <1>1, <1>2, <1>3

(* PromotedIsJudged: what a negotiation promotes into memory was decided on the    *)
(* chain of review, evidence and score about the last proposal of its talk, for    *)
(* every number of concurrent negotiations, rounds and messages of clients.        *)
THEOREM JudgedBeforePromoted == CollaborationSpec => []PromotedIsJudged
<1>1. CollaborationInv => PromotedIsJudged
  <2> SUFFICES ASSUME CollaborationInv, NEW p \in memory
               PROVE  LET decision == bus[p.decision]
                          critic   == bus[decision.refs]
                          evidence == bus[critic.refs]
                          peer     == bus[evidence.refs]
                      IN  /\ decision.ok /\ critic.ok /\ peer.kind = "review"
                          /\ peer.refs = p.proposal
                          /\ p.proposal = LastProposal(p.talk)
                          /\ {decision.by, critic.by, evidence.by, peer.by} = {"talk"}
      BY DEF PromotedIsJudged
  <2>1. Chain(p) /\ LatestProposal(p.talk, p.proposal) BY DEF CollaborationInv, MemorySound, Remembered
  <2>2. p.proposal = LastProposal(p.talk) BY <2>1, LastIsLatest DEF CollaborationInv, TalksTyped
  <2> QED BY <2>1, <2>2 DEF Chain
<1> QED BY <1>1, CollaborationInitial, CollaborationStep, PTL DEF CollaborationSpec

------------------------------------------------------------------------------
(* The vector index beside its relational rows.                              *)

(* What the points are while a sync that nothing disturbed goes on.               *)
SyncFields == {"pc", "revision", "chunks", "existing", "todo", "reused", "alone"}
SearchFields == {"pc", "revision", "hits", "results"}
PointsAreMap == points = [c \in DOMAIN points |-> points[c]]
SyncTyped ==
    /\ DOMAIN sync = Syncers /\ \A s \in Syncers : DOMAIN sync[s] = SyncFields
    /\ DOMAIN search = SearchFields
    /\ PointsAreMap

Undisturbed(s) == sync[s].pc # "idle" /\ sync[s].alone
AloneListed(s) ==
    /\ \A t \in Syncers : t # s => sync[t].pc = "idle"
    /\ sync[s].revision = activeRevision
    /\ sync[s].pc \in {"list", "scroll", "upsert", "delete"}
    /\ sync[s].pc # "list" => sync[s].chunks = chunkRows
AloneUpserts(s) ==
    LET me == sync[s] IN
    me.pc = "upsert" =>
        /\ me.reused = me.chunks \cap me.existing
        /\ me.todo \subseteq me.chunks \ me.existing
        /\ DOMAIN points = me.existing \union ((me.chunks \ me.existing) \ me.todo)
        /\ \A c \in (me.chunks \ me.existing) \ me.todo : points[c] = me.revision
AloneDeletes(s) ==
    LET me == sync[s] IN
    me.pc = "delete" => /\ DOMAIN points = me.existing \union me.chunks
                        /\ \A c \in me.chunks : points[c] = me.revision
AloneSound == \A s \in Syncers : Undisturbed(s) => AloneListed(s) /\ AloneUpserts(s) /\ AloneDeletes(s)

SyncedSound ==
    synced => /\ points = [c \in chunkRows |-> activeRevision]
              /\ \A s \in Syncers : sync[s].pc = "idle"
HitsAsked == \A hit \in search.results : hit[2] = search.revision
SyncInv == SyncTyped /\ AloneSound /\ SyncedSound /\ HitsAsked

LEMMA SyncInitial == SyncInit => SyncInv
  BY DEF SyncInit, SyncInv, SyncTyped, PointsAreMap, AloneSound, Undisturbed, SyncedSound, HitsAsked, NoSync, NoSearch, SyncFields,
     SearchFields

LEMMA PointsWith ==
    ASSUME NEW S, NEW r, points' = WithPoints(S, r)
    PROVE  /\ PointsAreMap'
           /\ DOMAIN points' = DOMAIN points \union S
           /\ \A c \in S : points'[c] = r
           /\ \A c \in DOMAIN points \ S : points'[c] = points[c]
<1>1. PICK r1 : r1 = [c \in DOMAIN points \union S |-> IF c \in S THEN r ELSE points[c]] OBVIOUS
<1>2. points' = r1 BY <1>1 DEF WithPoints
<1> QED BY <1>1, <1>2 DEF PointsAreMap

(* A step of one sync, alone or not.                                              *)
LEMMA SyncGoes ==
    ASSUME SyncInv, NEW s \in Syncers, NEW new, DOMAIN new = SyncFields, SetSync(s, new),
           sync[s].pc # "idle", UNCHANGED <<activeRevision, chunkRows, search>>,
           PointsAreMap',
           new.pc # "idle" => new.alone = sync[s].alone /\ synced' = synced,
           Undisturbed(s) /\ new.pc # "idle" => (AloneListed(s) /\ AloneUpserts(s) /\ AloneDeletes(s))',
           synced' => \/ synced
                      \/ new.pc = "idle" /\ Undisturbed(s) /\ points' = [c \in chunkRows |-> activeRevision]
    PROVE  SyncInv'
<1>1. /\ sync'[s] = new /\ DOMAIN sync' = Syncers
      /\ \A t \in Syncers : t # s => sync'[t] = sync[t]
      /\ \A t \in Syncers : DOMAIN sync'[t] = SyncFields
    BY DEF SyncInv, SyncTyped, SetSync
<1>2. SyncTyped' BY <1>1 DEF SyncInv, SyncTyped
<1>3. AloneSound'
  <2>1. ASSUME NEW t \in Syncers, Undisturbed(t)', t # s PROVE FALSE
      BY <2>1, <1>1 DEF SyncInv, AloneSound, AloneListed, Undisturbed
  <2>2. ASSUME Undisturbed(s)' PROVE (AloneListed(s) /\ AloneUpserts(s) /\ AloneDeletes(s))'
      BY <2>2, <1>1 DEF Undisturbed
  <2> QED BY <2>1, <2>2 DEF AloneSound
<1>4. ~synced BY DEF SyncInv, SyncedSound
<1>5. SyncedSound' BY <1>1, <1>4 DEF SyncInv, SyncedSound, AloneSound, AloneListed
<1>6. HitsAsked' BY DEF SyncInv, HitsAsked
<1> QED BY <1>2, <1>3, <1>5, <1>6 DEF SyncInv

LEMMA SyncStep == SyncInv /\ [SyncNext]_syncVars => SyncInv'
<1> SUFFICES ASSUME SyncInv, [SyncNext]_syncVars PROVE SyncInv' OBVIOUS
<1>t. /\ DOMAIN sync = Syncers /\ \A s \in Syncers : DOMAIN sync[s] = SyncFields
      /\ PointsAreMap
    BY DEF SyncInv, SyncTyped
<1>a. ASSUME NEW s \in Syncers, Undisturbed(s) PROVE AloneListed(s) /\ AloneUpserts(s) /\ AloneDeletes(s)
    BY <1>a DEF SyncInv, AloneSound
<1>u. ASSUME UNCHANGED <<activeRevision, chunkRows, points, sync, synced>>, SyncTyped', HitsAsked' PROVE SyncInv'
    BY <1>u DEF SyncInv, AloneSound, SyncedSound, Undisturbed, AloneListed, AloneUpserts, AloneDeletes
<1>1. CASE UNCHANGED syncVars
    BY <1>1, <1>u DEF syncVars, SyncInv, SyncTyped, PointsAreMap, HitsAsked
\* Any sync may end without what it did counting.
<1>e. ASSUME NEW s \in Syncers, sync[s].pc # "idle", SetSync(s, NoSync),
             UNCHANGED <<activeRevision, chunkRows, points, synced, search>>
      PROVE  SyncInv'
  <2>1. DOMAIN NoSync = SyncFields /\ NoSync.pc = "idle" BY DEF NoSync, SyncFields
  <2>2. PointsAreMap' BY <1>e, <1>t DEF PointsAreMap
  <2> QED BY <1>e, <2>1, <2>2, SyncGoes
<1>2. CASE CommitRevision
  <2>1. /\ sync' = [s \in Syncers |-> [sync[s] EXCEPT !.alone = SyncAt(s, "idle")]]
        /\ synced' = FALSE /\ UNCHANGED <<points, search>>
      BY <1>2 DEF CommitRevision
  <2>2. \A s \in Syncers : DOMAIN sync'[s] = SyncFields /\ sync'[s].pc = sync[s].pc
                           /\ sync'[s].alone = (sync[s].pc = "idle")
      BY <2>1, <1>t DEF SyncAt, SyncFields
  <2>3. SyncTyped' BY <2>1, <2>2, <1>t DEF SyncInv, SyncTyped, PointsAreMap
  <2>4. AloneSound' BY <2>2 DEF AloneSound, Undisturbed
  <2>5. SyncedSound' /\ HitsAsked' BY <2>1 DEF SyncInv, SyncedSound, HitsAsked
  <2> QED BY <2>3, <2>4, <2>5 DEF SyncInv
<1>3. ASSUME NEW s \in Syncers, BeginSync(s) PROVE SyncInv'
  <2>1. /\ sync' = [t \in Syncers |->
                   IF t = s THEN [NoSync EXCEPT !.pc = "list", !.revision = activeRevision, !.alone = SyncsRunning = {}]
                   ELSE [sync[t] EXCEPT !.alone = @ /\ SyncAt(t, "idle")]]
        /\ synced' = FALSE /\ UNCHANGED <<activeRevision, chunkRows, points, search>> /\ sync[s].pc = "idle"
      BY <1>3 DEF BeginSync, SyncAt
  <2>2. /\ DOMAIN sync'[s] = SyncFields /\ sync'[s].pc = "list" /\ sync'[s].revision = activeRevision
        /\ sync'[s].alone = (SyncsRunning = {})
      BY <2>1 DEF NoSync, SyncFields
  <2>3. \A t \in Syncers : t # s => /\ DOMAIN sync'[t] = SyncFields /\ sync'[t].pc = sync[t].pc
                                    /\ sync'[t].alone = (sync[t].alone /\ sync[t].pc = "idle")
      BY <2>1, <1>t DEF SyncAt, SyncFields
  <2>4. SyncTyped' BY <2>1, <2>2, <2>3 DEF SyncInv, SyncTyped, PointsAreMap
  <2>5. AloneSound'
    <3>1. ASSUME NEW t \in Syncers, t # s, Undisturbed(t)' PROVE FALSE BY <3>1, <2>3 DEF Undisturbed
    <3>2. ASSUME Undisturbed(s)' PROVE (AloneListed(s) /\ AloneUpserts(s) /\ AloneDeletes(s))'
      <4>1. SyncsRunning = {} BY <3>2, <2>2 DEF Undisturbed
      <4>2. \A t \in Syncers : t # s => sync'[t].pc = "idle" BY <4>1, <2>3 DEF SyncsRunning
      <4>3. activeRevision' = activeRevision BY <2>1
      <4>4. AloneListed(s)' BY <4>2, <4>3, <2>2 DEF AloneListed
      <4> QED BY <4>4, <2>2 DEF AloneUpserts, AloneDeletes
    <3> QED BY <3>1, <3>2 DEF AloneSound
  <2>6. SyncedSound' /\ HitsAsked' BY <2>1 DEF SyncInv, SyncedSound, HitsAsked
  <2> QED BY <2>4, <2>5, <2>6 DEF SyncInv
<1>4. ASSUME NEW s \in Syncers, ListChunks(s) PROVE SyncInv'
  <2>1. CASE sync[s].revision # activeRevision BY <2>1, <1>4, <1>e DEF ListChunks, SyncAt
  <2>2. CASE sync[s].revision = activeRevision
    <3>1. PICK new : new = [sync[s] EXCEPT !.pc = "scroll", !.chunks = chunkRows] OBVIOUS
    <3>2. /\ SetSync(s, new) /\ sync[s].pc = "list"
          /\ UNCHANGED <<activeRevision, chunkRows, points, synced, search>>
        BY <1>4, <2>2, <3>1 DEF ListChunks, SyncAt
    <3>3. /\ DOMAIN new = SyncFields /\ new.pc = "scroll" /\ new.chunks = chunkRows /\ new.alone = sync[s].alone
          /\ new.revision = activeRevision
        BY <1>t, <2>2, <3>1 DEF SyncFields
    <3>4. sync'[s] = new /\ \A t \in Syncers : t # s => sync'[t] = sync[t] BY <1>t, <3>2 DEF SetSync
    <3>5. Undisturbed(s) => (AloneListed(s) /\ AloneUpserts(s) /\ AloneDeletes(s))'
        BY <1>a, <3>2, <3>3, <3>4 DEF AloneListed, AloneUpserts, AloneDeletes
    <3>6. PointsAreMap' BY <1>t, <3>2 DEF PointsAreMap
    <3> QED BY <3>2, <3>3, <3>5, <3>6, SyncGoes
  <2> QED BY <2>1, <2>2
<1>5. ASSUME NEW s \in Syncers, Scroll(s) PROVE SyncInv'
    <3>1. PICK new : new = [sync[s] EXCEPT !.pc = "upsert", !.existing = DOMAIN points,
                                           !.todo = sync[s].chunks \ DOMAIN points,
                                           !.reused = sync[s].chunks \cap DOMAIN points]
        OBVIOUS
    <3>2. /\ SetSync(s, new) /\ sync[s].pc = "scroll"
          /\ UNCHANGED <<activeRevision, chunkRows, points, synced, search>>
        BY <1>5, <3>1 DEF Scroll, SyncAt
    <3>3. /\ DOMAIN new = SyncFields /\ new.pc = "upsert" /\ new.chunks = sync[s].chunks /\ new.alone = sync[s].alone
          /\ new.revision = sync[s].revision /\ new.existing = DOMAIN points
          /\ new.todo = sync[s].chunks \ DOMAIN points /\ new.reused = sync[s].chunks \cap DOMAIN points
        BY <1>t, <3>1 DEF SyncFields
    <3>4. sync'[s] = new /\ \A t \in Syncers : t # s => sync'[t] = sync[t] BY <1>t, <3>2 DEF SetSync
    <3>5. Undisturbed(s) => (AloneListed(s) /\ AloneUpserts(s) /\ AloneDeletes(s))'
        BY <1>a, <3>2, <3>3, <3>4 DEF AloneListed, AloneUpserts, AloneDeletes
    <3>6. PointsAreMap' BY <1>t, <3>2 DEF PointsAreMap
    <3> QED BY <3>2, <3>3, <3>5, <3>6, SyncGoes
<1>6. ASSUME NEW s \in Syncers, NEW c \in Chunks, Upsert(s, c) PROVE SyncInv'
    <3>1. PICK new : new = [sync[s] EXCEPT !.todo = @ \ {c}] OBVIOUS
    <3>2. /\ SetSync(s, new) /\ sync[s].pc = "upsert" /\ c \in sync[s].todo
          /\ UNCHANGED <<activeRevision, chunkRows, synced, search>>
          /\ points' = WithPoints({c}, sync[s].revision)
        BY <1>6, <3>1 DEF Upsert, SyncAt
    <3>3. /\ DOMAIN new = SyncFields /\ new.pc = "upsert" /\ new.chunks = sync[s].chunks /\ new.alone = sync[s].alone
          /\ new.revision = sync[s].revision /\ new.existing = sync[s].existing
          /\ new.todo = sync[s].todo \ {c} /\ new.reused = sync[s].reused
        BY <1>t, <3>1, <3>2 DEF SyncFields
    <3>4. sync'[s] = new /\ \A t \in Syncers : t # s => sync'[t] = sync[t] BY <1>t, <3>2 DEF SetSync
    <3>5. /\ PointsAreMap'
          /\ DOMAIN points' = DOMAIN points \union {c}
          /\ points'[c] = sync[s].revision
          /\ \A x \in DOMAIN points \ {c} : points'[x] = points[x]
      <4>1. PICK S : S = {c} OBVIOUS
      <4>2. points' = WithPoints(S, sync[s].revision) BY <3>2, <4>1
      <4>3. /\ PointsAreMap'
            /\ DOMAIN points' = DOMAIN points \union S
            /\ \A x \in S : points'[x] = sync[s].revision
            /\ \A x \in DOMAIN points \ S : points'[x] = points[x]
          BY <4>2, PointsWith
      <4> QED BY <4>1, <4>3
    <3>6. ASSUME Undisturbed(s) PROVE (AloneListed(s) /\ AloneUpserts(s) /\ AloneDeletes(s))'
      <4>1. AloneListed(s)' BY <1>a, <3>2, <3>3, <3>4, <3>6 DEF AloneListed
      <4>2. AloneUpserts(s)'
        <5>1. PICK me : me = sync[s] OBVIOUS
        <5>2. /\ me.reused = me.chunks \cap me.existing
              /\ me.todo \subseteq me.chunks \ me.existing /\ c \in me.todo
              /\ DOMAIN points = me.existing \union ((me.chunks \ me.existing) \ me.todo)
              /\ \A x \in (me.chunks \ me.existing) \ me.todo : points[x] = me.revision
            BY <1>a, <3>2, <3>6, <5>1 DEF AloneUpserts
        <5>3. DOMAIN points' = me.existing \union ((me.chunks \ me.existing) \ (me.todo \ {c})) BY <3>5, <5>2
        <5>4. \A x \in (me.chunks \ me.existing) \ (me.todo \ {c}) : points'[x] = me.revision
            BY <3>5, <5>1, <5>2
        <5>5. new.todo \subseteq new.chunks \ new.existing BY <3>3, <5>1, <5>2
        <5> QED BY <3>3, <3>4, <5>1, <5>2, <5>3, <5>4, <5>5 DEF AloneUpserts
      <4>3. AloneDeletes(s)' BY <3>3, <3>4 DEF AloneDeletes
      <4> QED BY <4>1, <4>2, <4>3
    <3> QED BY <3>2, <3>3, <3>5, <3>6, SyncGoes
<1>7. ASSUME NEW s \in Syncers, Rebind(s) PROVE SyncInv'
    <3>1. PICK new : new = [sync[s] EXCEPT !.pc = "delete"] OBVIOUS
    <3>0. PICK S : S = sync[s].reused \cap DOMAIN points OBVIOUS
    <3>2. /\ SetSync(s, new) /\ sync[s].pc = "upsert" /\ sync[s].todo = {}
          /\ UNCHANGED <<activeRevision, chunkRows, synced, search>>
          /\ points' = WithPoints(S, sync[s].revision)
        BY <1>7, <3>0, <3>1 DEF Rebind, SyncAt, Rebound
    <3>3. /\ DOMAIN new = SyncFields /\ new.pc = "delete" /\ new.chunks = sync[s].chunks /\ new.alone = sync[s].alone
          /\ new.revision = sync[s].revision /\ new.existing = sync[s].existing
        BY <1>t, <3>1, <3>2 DEF SyncFields
    <3>4. sync'[s] = new /\ \A t \in Syncers : t # s => sync'[t] = sync[t] BY <1>t, <3>2 DEF SetSync
    <3>5. /\ PointsAreMap'
          /\ DOMAIN points' = DOMAIN points \union S
          /\ \A x \in S : points'[x] = sync[s].revision
          /\ \A x \in DOMAIN points \ S : points'[x] = points[x]
        BY <3>2, PointsWith
    <3>6. ASSUME Undisturbed(s) PROVE (AloneListed(s) /\ AloneUpserts(s) /\ AloneDeletes(s))'
      <4>1. AloneListed(s)' BY <1>a, <3>2, <3>3, <3>4, <3>6 DEF AloneListed
      <4>2. AloneUpserts(s)' BY <3>3, <3>4 DEF AloneUpserts
      <4>3. AloneDeletes(s)' BY <1>a, <3>0, <3>2, <3>3, <3>4, <3>5, <3>6, ZenonT(40) DEF AloneUpserts, AloneDeletes
      <4> QED BY <4>1, <4>2, <4>3
    <3> QED BY <3>2, <3>3, <3>5, <3>6, SyncGoes
<1>8. ASSUME NEW s \in Syncers, DeleteStale(s) PROVE SyncInv'
    <3>1. /\ SetSync(s, NoSync) /\ sync[s].pc = "delete"
          /\ UNCHANGED <<activeRevision, chunkRows, search>>
          /\ points' = [x \in DOMAIN points \ StalePoints(sync[s]) |-> points[x]]
          /\ synced' => sync[s].alone
        BY <1>8 DEF DeleteStale, SyncAt, Restrict
    <3>2. DOMAIN NoSync = SyncFields /\ NoSync.pc = "idle" BY DEF NoSync, SyncFields
    <3>3. PointsAreMap' BY <3>1 DEF PointsAreMap
    <3>4. ASSUME synced' PROVE Undisturbed(s) /\ points' = [c \in chunkRows |-> activeRevision]
      <4>1. Undisturbed(s) BY <3>1, <3>4 DEF Undisturbed
      <4>2. /\ sync[s].chunks = chunkRows /\ sync[s].revision = activeRevision
            /\ DOMAIN points = sync[s].existing \union sync[s].chunks
            /\ \A c \in sync[s].chunks : points[c] = sync[s].revision
          BY <4>1, <3>1, <1>a DEF AloneListed, AloneDeletes
      <4>3. DOMAIN points \ StalePoints(sync[s]) = chunkRows BY <4>2 DEF StalePoints
      <4> QED BY <4>1, <4>2, <4>3, <3>1
    <3> QED BY <3>1, <3>2, <3>3, <3>4, SyncGoes
<1>9. ASSUME NEW s \in Syncers, SyncRefused(s) PROVE SyncInv' BY <1>9, <1>e DEF SyncRefused
<1>10. CASE CircuitCloses BY <1>10, <1>u DEF CircuitCloses, SyncInv, SyncTyped, PointsAreMap, HitsAsked
<1>11. CASE BeginSearch
  <2>1. DOMAIN search' = SearchFields /\ search'.results = {} /\ UNCHANGED <<activeRevision, chunkRows, points, sync, synced>>
      BY <1>11 DEF BeginSearch, NoSearch, SearchFields
  <2> QED BY <2>1, <1>u DEF SyncInv, SyncTyped, PointsAreMap, HitsAsked
<1>12. CASE Query
  <2>1. /\ DOMAIN search' = SearchFields /\ search'.results = search.results /\ search'.revision = search.revision
        /\ UNCHANGED <<activeRevision, chunkRows, points, sync, synced>>
      BY <1>12 DEF Query, SyncInv, SyncTyped, SearchFields
  <2> QED BY <2>1, <1>u DEF SyncInv, SyncTyped, PointsAreMap, HitsAsked
<1>13. CASE ReadHit
  <2>1. PICK c \in search.hits :
          search' = [search EXCEPT !.hits = @ \ {c},
                                   !.results = IF Confirms(c) THEN @ \union {<<c, activeRevision>>} ELSE @]
      BY <1>13 DEF ReadHit
  <2>2. /\ DOMAIN search' = SearchFields /\ search'.revision = search.revision
        /\ search'.results = IF Confirms(c) THEN search.results \union {<<c, activeRevision>>} ELSE search.results
      BY <2>1 DEF SyncInv, SyncTyped, SearchFields
  <2>3. HitsAsked' BY <2>2 DEF SyncInv, HitsAsked, Confirms
  <2> QED BY <2>2, <2>3, <1>13, <1>u DEF ReadHit, SyncInv, SyncTyped, PointsAreMap
<1>14. CASE EndSearch
  <2>1. DOMAIN search' = SearchFields /\ search'.results = {} /\ UNCHANGED <<activeRevision, chunkRows, points, sync, synced>>
      BY <1>14 DEF EndSearch, NoSearch, SearchFields
  <2> QED BY <2>1, <1>u DEF SyncInv, SyncTyped, PointsAreMap, HitsAsked
<1> QED
    BY <1>1, <1>2, <1>3, <1>4, <1>5, <1>6, <1>7, <1>8, <1>9, <1>10, <1>11, <1>12, <1>13, <1>14 DEF SyncNext

(* IndexRecovers: one undisturbed sync makes the index the active revision,       *)
(* whatever earlier ones left behind, and a search gives chunks of the revision   *)
(* it asked for, for every number of syncs, chunks, revisions and failures.       *)
THEOREM IndexIsRecovered == SyncSpec => []IndexRecovers
<1>1. SyncInv => IndexRecovers BY DEF SyncInv, SyncedSound, HitsAsked, IndexRecovers
<1> QED BY <1>1, SyncInitial, SyncStep, PTL DEF SyncSpec

------------------------------------------------------------------------------
(* Agent runs.                                                               *)

(* Rows, tree and threads.                                                         *)
HandValues == [op : {"none", "apply", "rollback", "undo"}, of : Nat, todo : SUBSET File]
Rows == [run : Actors, status : {"preview", "applied", "rolled_back"}, edits : SUBSET File, before : [File -> Nat]]
PatchTyped ==
    /\ patchRow \in Seq(Rows)
    /\ tree \in [File -> {0} \union Number]
    /\ hand \in [Actors -> HandValues]
    /\ \A p \in Number : patchRow[p].before \in [File -> {0} \union Number]
    /\ \A a \in Actors : IF Busy(a) THEN hand[a].of \in Number /\ hand[a].todo \subseteq patchRow[hand[a].of].edits
                                    ELSE hand[a].todo = {}

(* A patch of the execution; a file's content that the execution has copied, and   *)
(* nobody else changed since, or that is of one of its own patches.                *)
Own(e, v) == v \in Number /\ patchRow[v].run = e
EditsOf(e) == patchRow[state[e].proposal].edits
Kept(e, f, v) == f \in state[e].others \/ tree[f] = v \/ Own(e, v)
Has(e, f) == f \in state[e].others \/ tree[f] = state[e].proposal

StateFields == {"stage", "proposal", "editing", "done", "tries", "evidence", "about", "tested", "others", "late"}
StateTyped(e) ==
    /\ DOMAIN state[e] = StateFields
    /\ state[e].proposal # 0 => Own(e, state[e].proposal)
    /\ \A p \in state[e].late : Own(e, p)
    /\ DOMAIN state[e].evidence = Judges /\ DOMAIN state[e].about = Judges
Going == {"pool", "apply", "applied"}
(* What completed judged the last proposal, which is not replaced any more.        *)
DoneSound(e) ==
    phase[e] \in Going =>
        /\ "edit" \notin state[e].done => state[e].done = {}
        /\ "edit" \in state[e].done => state[e].editing = "staged"
        /\ state[e].editing # "no" => state[e].proposal # 0
        /\ \A t \in Judges : t \in state[e].done => state[e].about[t] = state[e].proposal /\ Needs[t] \subseteq state[e].done
        /\ "verify" \in state[e].done /\ state[e].evidence["verify"] => \A t \in Judges : state[e].evidence[t]
        /\ phase[e] # "pool" => state[e].done = Tasks /\ state[e].evidence["verify"]
StageSound(e) ==
    phase[e] = "pool" =>
        /\ state[e].stage \in [File -> {0} \union Number]
        /\ \A f \in File : Kept(e, f, state[e].stage[f])
        /\ \A f \in File : state[e].proposal # 0 /\ state[e].stage[f] = state[e].proposal => f \in EditsOf(e)
        /\ state[e].editing = "staged" => \A f \in EditsOf(e) : Own(e, state[e].stage[f])
TestSound(e) ==
    phase[e] \in Going /\ "test" \in state[e].done =>
        \A f \in File : IF f \in EditsOf(e) THEN Own(e, state[e].tested[f])
                        ELSE state[e].tested[f] # state[e].proposal /\ Kept(e, f, state[e].tested[f])
WrittenSound(e) ==
    phase[e] \in Going /\ hand[e].op # "undo" /\ state[e].proposal # 0 =>
        /\ \A a \in Actors : hand[a].op = "apply" /\ hand[a].of = state[e].proposal
                             => \A f \in EditsOf(e) \ hand[a].todo : Has(e, f)
        /\ patchRow[state[e].proposal].status = "applied" \/ phase[e] = "applied" => \A f \in EditsOf(e) : Has(e, f)
        /\ phase[e] = "applied" => patchRow[state[e].proposal].status # "preview"
HandSound(e) ==
    /\ phase[e] \notin {"apply", "withdraw"} => hand[e].op = "none"
    /\ phase[e] = "apply" => hand[e].op \in {"none", "apply", "undo"} /\ (Busy(e) => hand[e].of = state[e].proposal)
    /\ phase[e] = "withdraw" => hand[e].op \in {"none", "rollback"}
ExecSound(e) == StateTyped(e) /\ DoneSound(e) /\ StageSound(e) /\ TestSound(e) /\ WrittenSound(e) /\ HandSound(e)
CandidatesSound ==
    /\ DOMAIN failureRow = Failures
    /\ \A x \in Failures : DOMAIN failureRow[x] = {"count", "seen", "status", "link"} /\ failureRow[x].count \in Nat
    /\ \A e \in Execs : unresolved[e] \subseteq Failures /\ resolving[e] \in Failures \union {Nothing}
    /\ Len(candidates) \in Nat
    /\ \A i \in 1..Len(candidates) :
          /\ candidates[i].failure \in Failures /\ failureRow[candidates[i].failure].count >= Threshold
          /\ candidates[i].patch \in Number /\ patchRow[candidates[i].patch].status # "preview"
OfExecs ==
    DOMAIN phase = Execs /\ DOMAIN state = Execs /\ DOMAIN unresolved = Execs /\ DOMAIN resolving = Execs
ExecutionInv ==
    /\ PatchTyped /\ CandidatesSound /\ OfExecs
    /\ \A e \in Execs : ExecSound(e)

LEMMA ExecutionInitial == ExecutionInit => ExecutionInv
<1> SUFFICES ASSUME ExecutionInit PROVE ExecutionInv
  OBVIOUS
<1>0. Len(patchRow) = 0 /\ Number = {} /\ patchRow \in Seq(Rows)
  BY DEF ExecutionInit, PatchInit, Number
<1>1. PatchTyped
  BY <1>0 DEF ExecutionInit, PatchInit, PatchTyped, Free, HandValues, Busy
<1>2. CandidatesSound
  BY DEF ExecutionInit, CandidatesSound
<1>3. ASSUME NEW e \in Execs PROVE ExecSound(e)
  <2>1. PICK new : new = Fresh(Nothing)
    OBVIOUS
  <2>2. state[e] = new /\ phase[e] = "idle" /\ hand[e].op = "none"
    BY <1>3, <2>1 DEF ExecutionInit, PatchInit, Free, Actors
  <2>3. /\ DOMAIN new = StateFields /\ new.proposal = 0 /\ new.late = {}
        /\ DOMAIN new.evidence = Judges /\ DOMAIN new.about = Judges
    BY <2>1 DEF Fresh, StateFields
  <2> QED BY <2>2, <2>3 DEF ExecSound, StateTyped, DoneSound, StageSound, TestSound, WrittenSound, HandSound, Going
<1> QED BY <1>1, <1>2, <1>3 DEF ExecutionInv, OfExecs, ExecutionInit

(* What becomes of the rows: they are appended, and their status goes on.          *)
RowsKept ==
    \A p \in Number :
        /\ p \in Number' /\ patchRow'[p].run = patchRow[p].run /\ patchRow'[p].edits = patchRow[p].edits
        /\ patchRow'[p].before = patchRow[p].before
        /\ patchRow[p].status # "preview" => patchRow'[p].status # "preview"
LEMMA RowAppended ==
    ASSUME patchRow \in Seq(Rows), NEW row \in Rows, patchRow' = Append(patchRow, row)
    PROVE  /\ patchRow' \in Seq(Rows) /\ Number' = Number \union {Len(patchRow) + 1}
           /\ Len(patchRow) + 1 \notin Number /\ Len(patchRow) + 1 # 0
           /\ \A p \in Number : patchRow'[p] = patchRow[p]
           /\ patchRow'[Len(patchRow) + 1] = row
           /\ RowsKept
<1>1. patchRow' \in Seq(Rows) /\ Len(patchRow) \in Nat /\ Len(patchRow') = Len(patchRow) + 1
  OBVIOUS
<1>2. Number' = Number \union {Len(patchRow) + 1} /\ Len(patchRow) + 1 \notin Number
  BY <1>1 DEF Number
<1>3. \A p \in Number : patchRow'[p] = patchRow[p]
  BY <1>1 DEF Number
<1>4. patchRow'[Len(patchRow) + 1] = row
  OBVIOUS
<1>5. RowsKept
  BY <1>2, <1>3 DEF RowsKept
<1>6. Len(patchRow) + 1 # 0
  BY <1>1
<1> QED BY <1>1, <1>2, <1>3, <1>4, <1>5, <1>6

LEMMA RowStatus ==
    ASSUME patchRow \in Seq(Rows), NEW p \in Number, NEW s \in {"applied", "rolled_back"}, SetPatchStatus(p, s)
    PROVE  /\ patchRow' \in Seq(Rows) /\ Number' = Number /\ RowsKept
           /\ \A q \in Number : patchRow'[q].status = IF q = p THEN s ELSE patchRow[q].status
<1>1. patchRow' = [patchRow EXCEPT ![p].status = s] /\ Len(patchRow) \in Nat /\ DOMAIN patchRow = 1..Len(patchRow)
  BY DEF SetPatchStatus
<1>2. PICK row : row = [patchRow[p] EXCEPT !.status = s]
  OBVIOUS
<1>3. patchRow[p] \in Rows
  BY DEF Number
<1>4. row \in Rows /\ row.status = s /\ row.run = patchRow[p].run /\ row.edits = patchRow[p].edits /\ row.before = patchRow[p].before
  BY <1>2, <1>3 DEF Rows
<1>5. patchRow' = [patchRow EXCEPT ![p] = row]
  BY <1>1, <1>2
<1>6. patchRow' \in Seq(Rows) /\ Len(patchRow') = Len(patchRow)
  BY <1>4, <1>5, <1>1 DEF Number
<1>7. \A q \in Number : patchRow'[q] = IF q = p THEN row ELSE patchRow[q]
  BY <1>1, <1>5 DEF Number
<1> QED BY <1>4, <1>6, <1>7 DEF Number, RowsKept

(* An execution whose locals stay, but for what others have written.           *)
SameExec(e, D) ==
    /\ phase'[e] = phase[e] /\ DOMAIN state'[e] = StateFields
    /\ state'[e].stage = state[e].stage /\ state'[e].proposal = state[e].proposal /\ state'[e].editing = state[e].editing
    /\ state'[e].done = state[e].done /\ state'[e].evidence = state[e].evidence /\ state'[e].about = state[e].about
    /\ state'[e].tested = state[e].tested /\ state'[e].late = state[e].late
    /\ state'[e].others = state[e].others \union D
OthersWrote(D) == \A f \in File : tree'[f] = tree[f] \/ f \in D

LEMMA Aside ==
    ASSUME NEW e \in Execs, ExecSound(e), NEW D, SameExec(e, D), RowsKept, OthersWrote(D),
           hand'[e] = hand[e], WrittenSound(e)'
    PROVE  ExecSound(e)'
<1>0. \A v : Own(e, v) => Own(e, v)'
  BY DEF RowsKept, Own
<1>1. StateTyped(e)'
  BY <1>0 DEF ExecSound, StateTyped, SameExec
<1>2. DoneSound(e)'
  BY DEF ExecSound, DoneSound, SameExec
<1>3. \A f \in File : \A v : Kept(e, f, v) => Kept(e, f, v)'
  BY <1>0 DEF Kept, SameExec, OthersWrote
<1>4. state[e].proposal # 0 => EditsOf(e)' = EditsOf(e)
  BY DEF ExecSound, StateTyped, Own, RowsKept, EditsOf, SameExec
<1>5. {0} \union Number \subseteq {0} \union Number'
  BY DEF RowsKept
<1>6. StageSound(e)'
  <2> SUFFICES ASSUME phase'[e] = "pool" PROVE StageSound(e)'
    BY DEF StageSound
  <2>1. phase[e] = "pool" /\ StageSound(e) /\ DoneSound(e) /\ state'[e].stage = state[e].stage
    BY DEF SameExec, ExecSound
  <2>2. state'[e].stage \in [File -> ({0} \union Number)']
    BY <1>5, <2>1 DEF StageSound
  <2>3. \A f \in File : Kept(e, f, state[e].stage[f])'
    BY <1>3, <2>1 DEF StageSound, Kept, Own
  <2>4. \A f \in File : state'[e].proposal # 0 /\ state'[e].stage[f] = state'[e].proposal => f \in EditsOf(e)'
    BY <1>4, <2>1 DEF StageSound, SameExec
  <2>5. state'[e].editing = "staged" => \A f \in EditsOf(e)' : Own(e, state[e].stage[f])'
    BY <1>0, <1>4, <2>1 DEF StageSound, DoneSound, SameExec, Going, Own
  <2> QED BY <2>1, <2>2, <2>3, <2>4, <2>5 DEF StageSound, SameExec
<1>7. TestSound(e)'
  <2> SUFFICES ASSUME phase'[e] \in Going, "test" \in state'[e].done PROVE TestSound(e)'
    BY DEF TestSound
  <2>1. phase[e] \in Going /\ "test" \in state[e].done /\ TestSound(e) /\ DoneSound(e) /\ state'[e].tested = state[e].tested
    BY DEF SameExec, ExecSound
  <2>2. state[e].proposal # 0
    BY <2>1 DEF DoneSound
  <2>3. EditsOf(e)' = EditsOf(e) /\ state'[e].proposal = state[e].proposal
    BY <1>4, <2>2 DEF SameExec
  <2>4. PICK tested : tested = state[e].tested
    OBVIOUS
  <2>5. \A f \in File : Own(e, tested[f]) => Own(e, tested[f])'
    BY <1>0
  <2>6. \A f \in File : Kept(e, f, tested[f]) => Kept(e, f, tested[f])'
    BY <1>3
  <2>7. \A f \in File : IF f \in EditsOf(e) THEN Own(e, tested[f])
                        ELSE tested[f] # state[e].proposal /\ Kept(e, f, tested[f])
    BY <2>1, <2>4 DEF TestSound
  <2>8. state'[e].tested = tested
    BY <2>1, <2>4
  <2> QED BY <2>3, <2>5, <2>6, <2>7, <2>8 DEF TestSound, Own, Kept
<1>8. HandSound(e)'
  BY DEF ExecSound, HandSound, SameExec, Busy
<1> QED BY <1>1, <1>2, <1>6, <1>7, <1>8 DEF ExecSound

HasNext(e, f) == f \in state'[e].others \/ tree'[f] = state'[e].proposal
LEMMA WrittenAside ==
    ASSUME PatchTyped, NEW e \in Execs, ExecSound(e), NEW D, SameExec(e, D), RowsKept, OthersWrote(D), hand'[e] = hand[e],
           \A a \in Actors :
              \/ hand'[a] = hand[a]
              \/ phase[e] \in Going /\ hand[e].op # "undo" /\ hand'[a].op = "apply" /\ hand'[a].of = state[e].proposal
                 => \A f \in EditsOf(e) \ hand'[a].todo : HasNext(e, f),
           state[e].proposal \in Number
           => \/ patchRow'[state[e].proposal].status \in {patchRow[state[e].proposal].status, "rolled_back"}
              \/ phase[e] \in Going /\ hand[e].op # "undo" => \A f \in EditsOf(e) : HasNext(e, f)
    PROVE  WrittenSound(e)'
<1> SUFFICES ASSUME phase'[e] \in Going, hand'[e].op # "undo", state'[e].proposal # 0 PROVE WrittenSound(e)'
  BY DEF WrittenSound
<1>1. /\ phase[e] \in Going /\ hand[e].op # "undo" /\ state[e].proposal # 0 /\ WrittenSound(e)
      /\ state'[e].proposal = state[e].proposal /\ phase'[e] = phase[e] /\ state[e].proposal \in Number
  BY DEF SameExec, ExecSound, StateTyped, Own
<1>2. EditsOf(e)' = EditsOf(e) /\ EditsOf(e) = patchRow[state[e].proposal].edits
  BY <1>1 DEF EditsOf, RowsKept
<1>3. EditsOf(e) \subseteq File
  <2>1. patchRow[state[e].proposal] \in Rows
    BY <1>1 DEF PatchTyped, Number
  <2> QED BY <1>2, <2>1 DEF Rows
<1>4. ASSUME NEW f \in EditsOf(e), Has(e, f) PROVE HasNext(e, f)
  BY <1>1, <1>3, <1>4 DEF Has, HasNext, SameExec, OthersWrote
<1> QED
  BY <1>1, <1>2, <1>4 DEF WrittenSound, RowsKept, Has, HasNext

LEMMA Unmoved ==
    ASSUME PatchTyped, NEW e \in Execs, ExecSound(e), UNCHANGED <<tree, patchRow>>,
           SameExec(e, {}), hand'[e] = hand[e],
           \A a \in Actors : hand'[a] = hand[a] \/ hand'[a].op # "apply" \/ hand'[a].todo = patchRow[hand'[a].of].edits
    PROVE  ExecSound(e)'
<1>1. OthersWrote({}) /\ RowsKept
  BY DEF OthersWrote, RowsKept, Number
<1>2. WrittenSound(e)'
  BY <1>1, WrittenAside DEF EditsOf
<1> QED BY <1>1, <1>2, Aside

(* A step of an execution's own, which leaves files, rows and threads as they are. *)
LEMMA OwnStep ==
    ASSUME ExecutionInv, NEW e \in Execs, UNCHANGED <<tree, patchRow, hand>>, OfExecs', CandidatesSound',
           \A b \in Execs \ {e} : state'[b] = state[b] /\ phase'[b] = phase[b], ExecSound(e)'
    PROVE  ExecutionInv'
<1>1. PatchTyped'
  BY DEF ExecutionInv, PatchTyped, Number, Busy
<1>2. ASSUME NEW b \in Execs \ {e} PROVE ExecSound(b)'
  <2>1. ExecSound(b) /\ SameExec(b, {})
    BY DEF ExecutionInv, ExecSound, StateTyped, SameExec
  <2> QED BY <2>1, Unmoved DEF ExecutionInv
<1> QED BY <1>1, <1>2 DEF ExecutionInv

LEMMA CandidatesStay ==
    ASSUME CandidatesSound, RowsKept, UNCHANGED failureVars PROVE CandidatesSound'
BY DEF CandidatesSound, RowsKept, failureVars
LEMMA RowsStay == UNCHANGED patchRow => RowsKept
BY DEF RowsKept, Number

(* An attempt that is over.                                                        *)
LEMMA OverIsSound ==
    ASSUME NEW e \in Execs, NEW stage, state'[e] = Fresh(stage), hand'[e].op = "none", phase'[e] \notin Going
    PROVE  ExecSound(e)'
<1>1. PICK new : new = Fresh(stage)
  OBVIOUS
<1>2. /\ DOMAIN new = StateFields /\ new.proposal = 0 /\ new.late = {}
      /\ DOMAIN new.evidence = Judges /\ DOMAIN new.about = Judges
  BY <1>1 DEF Fresh, StateFields
<1>3. StateTyped(e)'
  BY <1>1, <1>2 DEF StateTyped
<1>4. HandSound(e)'
  BY DEF HandSound, Going, Busy
<1> QED BY <1>3, <1>4 DEF ExecSound, DoneSound, StageSound, TestSound, WrittenSound, Going

(* A step within the pool that leaves the proposal.                                *)
LEMMA PoolStep ==
    ASSUME ExecutionInv, NEW e \in Execs, phase[e] = "pool", UNCHANGED <<tree, patchRow, hand, phase, failureVars>>,
           NEW new, state' = [state EXCEPT ![e] = new],
           DOMAIN new = StateFields, new.proposal = state[e].proposal, new.others = state[e].others,
           \A p \in new.late : Own(e, p),
           DOMAIN new.evidence = Judges, DOMAIN new.about = Judges,
           DoneSound(e)', StageSound(e)', TestSound(e)'
    PROVE  ExecutionInv'
<1>1. state'[e] = new /\ \A b \in Execs \ {e} : state'[b] = state[b]
  BY DEF ExecutionInv, OfExecs
<1>2. ExecSound(e)
  BY DEF ExecutionInv
<1>3. StateTyped(e)'
  BY <1>1, <1>2 DEF ExecSound, StateTyped, Own, Number
<1>4. WrittenSound(e)'
  BY <1>1, <1>2 DEF ExecSound, WrittenSound, EditsOf, Has, Going
<1>5. HandSound(e)'
  BY <1>2 DEF ExecSound, HandSound
<1>6. ExecSound(e)'
  BY <1>3, <1>4, <1>5 DEF ExecSound
<1>7. CandidatesSound'
  BY CandidatesStay, RowsStay DEF ExecutionInv
<1>8. OfExecs'
  BY DEF ExecutionInv, OfExecs, failureVars
<1> QED BY <1>1, <1>6, <1>7, <1>8, OwnStep

(* What holds of an execution in its pool.                                         *)
LEMMA InPool ==
    ASSUME ExecutionInv, NEW e \in Execs, phase[e] = "pool"
    PROVE  /\ ExecSound(e) /\ DOMAIN state[e] = StateFields /\ phase[e] \in Going /\ hand[e].op = "none"
           /\ DOMAIN state[e].evidence = Judges /\ DOMAIN state[e].about = Judges
           /\ \A p \in state[e].late : Own(e, p)
           /\ state[e].proposal # 0 => Own(e, state[e].proposal) /\ state[e].proposal \in Number
           /\ DoneSound(e) /\ StageSound(e) /\ TestSound(e)
BY DEF ExecutionInv, ExecSound, StateTyped, HandSound, Going, Own

(* The stage takes a patch of the execution.                                       *)
LEMMA StageTakes ==
    ASSUME PatchTyped, NEW e \in Execs, NEW p, Own(e, p), StageSound(e), phase[e] = "pool", NEW stage, stage = Staged(e, p),
           state[e].editing = "staged" => state[e].proposal \in Number
    PROVE  /\ stage \in [File -> {0} \union Number]
           /\ \A f \in File : Kept(e, f, stage[f])
           /\ \A f \in File : state[e].proposal # 0 /\ stage[f] = state[e].proposal => f \in EditsOf(e)
           /\ state[e].editing = "staged" \/ p = state[e].proposal => \A f \in EditsOf(e) : Own(e, stage[f])
<1>1. p \in Number /\ patchRow[p] \in Rows
  BY DEF Own, PatchTyped, Number
<1>2. PICK old : old = state[e].stage
  OBVIOUS
<1>3. /\ old \in [File -> {0} \union Number] /\ \A f \in File : Kept(e, f, old[f])
      /\ \A f \in File : state[e].proposal # 0 /\ old[f] = state[e].proposal => f \in EditsOf(e)
      /\ state[e].editing = "staged" => \A f \in EditsOf(e) : Own(e, old[f])
  BY <1>2 DEF StageSound
<1>4. stage = [f \in File |-> IF f \in patchRow[p].edits THEN p ELSE old[f]]
  BY <1>2 DEF Staged
<1>5. stage \in [File -> {0} \union Number]
  BY <1>1, <1>3, <1>4
<1>6. \A f \in File : Kept(e, f, stage[f])
  BY <1>1, <1>3, <1>4 DEF Kept
<1>7. \A f \in File : state[e].proposal # 0 /\ stage[f] = state[e].proposal => f \in EditsOf(e)
  BY <1>3, <1>4 DEF EditsOf
<1>8. ASSUME NEW f \in EditsOf(e), state[e].editing = "staged" PROVE Own(e, stage[f])
  <2>1. Own(e, old[f])
    BY <1>3, <1>8
  <2>2. CASE f \in File
    BY <1>4, <2>1, <2>2
  <2>3. CASE f \notin File
    <3>1. patchRow[state[e].proposal] \in Rows
      BY <1>8 DEF PatchTyped, Number
    <3> QED BY <1>8, <2>3, <3>1 DEF EditsOf, Rows
  <2> QED BY <2>2, <2>3
<1>9. ASSUME NEW f \in EditsOf(e), p = state[e].proposal PROVE Own(e, stage[f])
  BY <1>1, <1>4, <1>9 DEF EditsOf, Rows
<1> QED BY <1>5, <1>6, <1>7, <1>8, <1>9

LEMMA StageEditKeeps == ASSUME ExecutionInv, NEW e \in Execs, StageEdit(e) PROVE ExecutionInv'
<1>1. phase[e] = "pool" /\ state[e].editing = "previewed" /\ "edit" \notin state[e].done
  BY DEF StageEdit, Runnable
<1>2. PICK stage : stage = Staged(e, state[e].proposal)
  OBVIOUS
<1>3. PICK new : new = [state[e] EXCEPT !.stage = stage, !.editing = "staged"]
  OBVIOUS
<1>4. state' = [state EXCEPT ![e] = new] /\ UNCHANGED <<tree, patchRow, hand, phase, failureVars>>
  BY <1>2, <1>3 DEF StageEdit, patchVars
<1>5. /\ DOMAIN new = StateFields /\ new.stage = stage /\ new.editing = "staged" /\ new.proposal = state[e].proposal
      /\ new.others = state[e].others /\ new.late = state[e].late /\ new.evidence = state[e].evidence
      /\ new.about = state[e].about /\ new.done = state[e].done
  BY <1>1, <1>3, InPool DEF StateFields
<1>6. state'[e] = new
  BY <1>4 DEF ExecutionInv, OfExecs
<1>7. state[e].proposal # 0 /\ Own(e, state[e].proposal) /\ state[e].done = {}
  BY <1>1, InPool DEF DoneSound
<1>8. DoneSound(e)'
  BY <1>1, <1>4, <1>5, <1>6, <1>7 DEF DoneSound
<1>9. TestSound(e)'
  BY <1>5, <1>6, <1>7 DEF TestSound
<1>10. /\ stage \in [File -> {0} \union Number] /\ \A f \in File : Kept(e, f, stage[f])
       /\ \A f \in File : state[e].proposal # 0 /\ stage[f] = state[e].proposal => f \in EditsOf(e)
       /\ \A f \in EditsOf(e) : Own(e, stage[f])
  BY <1>1, <1>2, <1>7, InPool, StageTakes DEF ExecutionInv
<1>11. StageSound(e)'
  BY <1>4, <1>5, <1>6, <1>10 DEF StageSound, Kept, Own, EditsOf, Number
<1> QED BY <1>1, <1>4, <1>5, <1>8, <1>9, <1>11, InPool, PoolStep

LEMMA LateWriteKeeps == ASSUME ExecutionInv, NEW e \in Execs, LateWrite(e) PROVE ExecutionInv'
<1>1. phase[e] = "pool"
  BY DEF LateWrite
<1>2. PICK p \in state[e].late : state' = [state EXCEPT ![e].stage = Staged(e, p), ![e].late = @ \ {p}]
  BY DEF LateWrite
<1>3. PICK stage : stage = Staged(e, p)
  OBVIOUS
<1>4. PICK new : new = [state[e] EXCEPT !.stage = stage, !.late = @ \ {p}]
  OBVIOUS
<1>5. state' = [state EXCEPT ![e] = new] /\ UNCHANGED <<tree, patchRow, hand, phase, failureVars>>
  BY <1>2, <1>3, <1>4 DEF LateWrite, patchVars
<1>6. /\ DOMAIN new = StateFields /\ new.stage = stage /\ new.editing = state[e].editing /\ new.proposal = state[e].proposal
      /\ new.others = state[e].others /\ new.late = state[e].late \ {p} /\ new.evidence = state[e].evidence
      /\ new.about = state[e].about /\ new.done = state[e].done /\ new.tested = state[e].tested
  BY <1>1, <1>4, InPool DEF StateFields
<1>7. state'[e] = new
  BY <1>5 DEF ExecutionInv, OfExecs
<1>8. DoneSound(e)'
  BY <1>1, <1>5, <1>6, <1>7, InPool DEF DoneSound
<1>9. TestSound(e)'
  BY <1>1, <1>5, <1>6, <1>7, InPool DEF TestSound, Own, Kept, EditsOf, Number
<1>10. /\ stage \in [File -> {0} \union Number] /\ \A f \in File : Kept(e, f, stage[f])
       /\ \A f \in File : state[e].proposal # 0 /\ stage[f] = state[e].proposal => f \in EditsOf(e)
       /\ state[e].editing = "staged" => \A f \in EditsOf(e) : Own(e, stage[f])
  <2>1. Own(e, p) /\ (state[e].editing = "staged" => state[e].proposal \in Number) /\ StageSound(e)
    BY <1>1, <1>2, InPool DEF DoneSound
  <2> QED BY <1>1, <1>3, <2>1, StageTakes DEF ExecutionInv
<1>11. StageSound(e)'
  BY <1>5, <1>6, <1>7, <1>10 DEF StageSound, Kept, Own, EditsOf, Number
<1> QED BY <1>1, <1>5, <1>6, <1>8, <1>9, <1>11, InPool, PoolStep

LEMMA EditEndsKeeps == ASSUME ExecutionInv, NEW e \in Execs, EditEnds(e) PROVE ExecutionInv'
<1>1. phase[e] = "pool" /\ state[e].editing = "staged" /\ "edit" \notin state[e].done
  BY DEF EditEnds, Runnable
<1>2. PICK new : new = [state[e] EXCEPT !.done = @ \union {"edit"}]
  OBVIOUS
<1>3. state' = [state EXCEPT ![e] = new] /\ UNCHANGED <<tree, patchRow, hand, phase, failureVars>>
  BY <1>2 DEF EditEnds, patchVars
<1>4. state[e].done = {}
  BY <1>1, InPool DEF DoneSound
<1>5. /\ DOMAIN new = StateFields /\ new.stage = state[e].stage /\ new.editing = state[e].editing /\ new.proposal = state[e].proposal
      /\ new.others = state[e].others /\ new.late = state[e].late /\ new.evidence = state[e].evidence
      /\ new.about = state[e].about /\ new.done = {"edit"} /\ new.tested = state[e].tested
  BY <1>1, <1>2, <1>4, InPool DEF StateFields
<1>6. state'[e] = new
  BY <1>3 DEF ExecutionInv, OfExecs
<1>7. "edit" \notin Judges /\ "verify" # "edit"
  BY DEF Judges
<1>8. DoneSound(e)'
  BY <1>1, <1>3, <1>5, <1>6, <1>7, InPool DEF DoneSound
<1>9. TestSound(e)'
  BY <1>5, <1>6 DEF TestSound
<1>10. StageSound(e)'
  BY <1>1, <1>3, <1>5, <1>6, InPool DEF StageSound, Kept, Own, EditsOf, Number
<1> QED BY <1>1, <1>3, <1>5, <1>8, <1>9, <1>10, InPool, PoolStep

LEMMA NeedsOf ==
    /\ \A t \in Tasks : "edit" \notin Needs[t] => t = "edit" \/ Needs[t] # {}
    /\ \A t \in Judges : Needs[t] # {} /\ t \in Tasks
    /\ Needs["verify"] = Judges \ {"verify"} /\ Needs["summarize"] = {"verify"}
    /\ Judges \subseteq Tasks /\ "verify" \in Judges /\ "edit" \notin Judges
BY DEF Needs, Tasks, Judges

LEMMA JudgeKeeps == ASSUME ExecutionInv, NEW e \in Execs, NEW t \in Judges, Judge(e, t) PROVE ExecutionInv'
<1>1. phase[e] = "pool" /\ t \notin state[e].done /\ Needs[t] \subseteq state[e].done
  BY DEF Judge, Runnable
<1>2. PICK says \in BOOLEAN :
         /\ MaySay(e, t, says)
         /\ state' = [state EXCEPT ![e].evidence[t] = says, ![e].about[t] = state[e].proposal,
                                   ![e].tested = IF t = "test" THEN state[e].stage ELSE @, ![e].done = @ \union {t}]
  BY DEF Judge
<1>3. PICK tested : tested = IF t = "test" THEN state[e].stage ELSE state[e].tested
  OBVIOUS
<1>4. PICK evidence : evidence = [state[e].evidence EXCEPT ![t] = says]
  OBVIOUS
<1>5. PICK about : about = [state[e].about EXCEPT ![t] = state[e].proposal]
  OBVIOUS
<1>6. PICK new : new = [state[e] EXCEPT !.evidence = evidence, !.about = about, !.tested = tested, !.done = @ \union {t}]
  OBVIOUS
<1>7. state' = [state EXCEPT ![e] = new] /\ UNCHANGED <<tree, patchRow, hand, phase, failureVars>>
  <2>1. state' = [state EXCEPT ![e] = [state[e] EXCEPT !.evidence = [@ EXCEPT ![t] = says], !.about = [@ EXCEPT ![t] = state[e].proposal],
                                   !.tested = IF t = "test" THEN state[e].stage ELSE @, !.done = @ \union {t}]]
    BY <1>2
  <2>2. new = [state[e] EXCEPT !.evidence = [@ EXCEPT ![t] = says], !.about = [@ EXCEPT ![t] = state[e].proposal],
                                   !.tested = IF t = "test" THEN state[e].stage ELSE @, !.done = @ \union {t}]
    BY <1>3, <1>4, <1>5, <1>6
  <2> QED BY <2>1, <2>2 DEF Judge, patchVars
<1>8. /\ DOMAIN new = StateFields /\ new.stage = state[e].stage /\ new.editing = state[e].editing /\ new.proposal = state[e].proposal
      /\ new.others = state[e].others /\ new.late = state[e].late /\ new.evidence = evidence
      /\ new.about = about /\ new.done = state[e].done \union {t} /\ new.tested = tested
  BY <1>1, <1>6, InPool DEF StateFields
<1>9. state'[e] = new
  BY <1>7 DEF ExecutionInv, OfExecs
<1>10. /\ DOMAIN evidence = Judges /\ DOMAIN about = Judges /\ about[t] = state[e].proposal /\ evidence[t] = says
       /\ \A u \in Judges \ {t} : evidence[u] = state[e].evidence[u] /\ about[u] = state[e].about[u]
  BY <1>1, <1>4, <1>5, InPool
<1>11. "edit" \in state[e].done /\ state[e].editing = "staged" /\ state[e].proposal # 0
  BY <1>1, InPool, NeedsOf DEF DoneSound
<1>12. \A u \in Judges : u \in new.done => about[u] = state[e].proposal /\ Needs[u] \subseteq new.done
  BY <1>1, <1>8, <1>10, InPool DEF DoneSound
<1>13. "verify" \in new.done /\ evidence["verify"] => \A u \in Judges : evidence[u]
  <2>1. CASE t = "verify"
    <3>1. says = \A j \in Judges \ {"verify"} : state[e].evidence[j]
      BY <1>2, <2>1 DEF MaySay
    <3> QED BY <1>10, <2>1, <3>1
  <2>2. CASE t # "verify"
    <3>1. "verify" \notin state[e].done
      BY <1>1, <2>2, InPool, NeedsOf DEF DoneSound
    <3> QED BY <1>8, <2>2, <3>1
  <2> QED BY <2>1, <2>2
<1>14. DoneSound(e)'
  BY <1>1, <1>7, <1>8, <1>9, <1>11, <1>12, <1>13 DEF DoneSound
<1>15. StageSound(e)'
  BY <1>1, <1>7, <1>8, <1>9, InPool DEF StageSound, Kept, Own, EditsOf, Number
<1>16. "test" \in new.done => \A f \in File : IF f \in EditsOf(e) THEN Own(e, tested[f])
                                              ELSE tested[f] # state[e].proposal /\ Kept(e, f, tested[f])
  <2>1. CASE t = "test"
    BY <1>1, <1>3, <1>11, <2>1, InPool DEF StageSound
  <2>2. CASE t # "test"
    BY <1>1, <1>3, <1>8, <2>2, InPool DEF TestSound
  <2> QED BY <2>1, <2>2
<1>17. TestSound(e)'
  BY <1>7, <1>8, <1>9, <1>16 DEF TestSound, Kept, Own, EditsOf, Number
<1> QED BY <1>1, <1>7, <1>8, <1>10, <1>14, <1>15, <1>17, InPool, PoolStep

LEMMA SummarizeKeeps == ASSUME ExecutionInv, NEW e \in Execs, Summarize(e) PROVE ExecutionInv'
<1>1. phase[e] = "pool" /\ Needs["summarize"] \subseteq state[e].done
  BY DEF Summarize, Runnable
<1>2. PICK new : new = [state[e] EXCEPT !.done = @ \union {"summarize"}]
  OBVIOUS
<1>3. state' = [state EXCEPT ![e] = new] /\ UNCHANGED <<tree, patchRow, hand, phase, failureVars>>
  BY <1>2 DEF Summarize, patchVars
<1>4. /\ DOMAIN new = StateFields /\ new.stage = state[e].stage /\ new.editing = state[e].editing /\ new.proposal = state[e].proposal
      /\ new.others = state[e].others /\ new.late = state[e].late /\ new.evidence = state[e].evidence
      /\ new.about = state[e].about /\ new.done = state[e].done \union {"summarize"} /\ new.tested = state[e].tested
  BY <1>1, <1>2, InPool DEF StateFields
<1>5. state'[e] = new
  BY <1>3 DEF ExecutionInv, OfExecs
<1>6. "edit" \in state[e].done /\ "summarize" \notin Judges
  BY <1>1, InPool, NeedsOf DEF DoneSound, Judges
<1>7. DoneSound(e)'
  <2>1. \A u \in Judges : u \in new.done => new.about[u] = state[e].proposal /\ Needs[u] \subseteq new.done
    BY <1>1, <1>4, <1>6, InPool DEF DoneSound
  <2>2. "verify" \in new.done /\ new.evidence["verify"] => \A u \in Judges : new.evidence[u]
    BY <1>1, <1>4, InPool DEF DoneSound
  <2>3. "edit" \in new.done /\ new.editing = "staged" /\ new.proposal # 0
    BY <1>1, <1>4, <1>6, InPool DEF DoneSound
  <2> QED BY <1>1, <1>3, <1>4, <1>5, <2>1, <2>2, <2>3 DEF DoneSound
<1>8. TestSound(e)'
  BY <1>1, <1>3, <1>4, <1>5, InPool DEF TestSound, Kept, Own, EditsOf, Number
<1>9. StageSound(e)'
  BY <1>1, <1>3, <1>4, <1>5, InPool DEF StageSound, Kept, Own, EditsOf, Number
<1> QED BY <1>1, <1>3, <1>4, <1>7, <1>8, <1>9, InPool, PoolStep

LEMMA TaskFailsKeeps == ASSUME ExecutionInv, NEW e \in Execs, NEW t \in Tasks, TaskFails(e, t) PROVE ExecutionInv'
<1>1. phase[e] = "pool" /\ t \notin state[e].done
  BY DEF TaskFails, Runnable
<1>2. PICK w \in StillWrites(e, t) :
         state' = [state EXCEPT ![e].tries[t] = @ + 1, ![e].editing = IF t = "edit" THEN "no" ELSE @, ![e].late = @ \union w]
  BY DEF TaskFails
<1>3. PICK tries : tries = [state[e].tries EXCEPT ![t] = @ + 1]
  OBVIOUS
<1>4. PICK editing : editing = IF t = "edit" THEN "no" ELSE state[e].editing
  OBVIOUS
<1>5. PICK new : new = [state[e] EXCEPT !.tries = tries, !.editing = editing, !.late = @ \union w]
  OBVIOUS
<1>6. state' = [state EXCEPT ![e] = new] /\ UNCHANGED <<tree, patchRow, hand, phase, failureVars>>
  BY <1>2, <1>3, <1>4, <1>5 DEF TaskFails, patchVars
<1>7. /\ DOMAIN new = StateFields /\ new.stage = state[e].stage /\ new.editing = editing /\ new.proposal = state[e].proposal
      /\ new.others = state[e].others /\ new.late = state[e].late \union w /\ new.evidence = state[e].evidence
      /\ new.about = state[e].about /\ new.done = state[e].done /\ new.tested = state[e].tested
  BY <1>1, <1>5, InPool DEF StateFields
<1>8. state'[e] = new
  BY <1>6 DEF ExecutionInv, OfExecs
<1>9. \A p \in w : Own(e, p)
  <2>1. w = {} \/ (w = {state[e].proposal} /\ state[e].editing = "previewed")
    BY <1>2 DEF StillWrites
  <2> QED BY <1>1, <2>1, InPool DEF DoneSound
<1>10. editing = state[e].editing \/ (editing = "no" /\ "edit" \notin state[e].done)
  BY <1>1, <1>4
<1>11. DoneSound(e)'
  BY <1>1, <1>6, <1>7, <1>8, <1>10, InPool DEF DoneSound
<1>12. TestSound(e)'
  BY <1>1, <1>6, <1>7, <1>8, InPool DEF TestSound, Kept, Own, EditsOf, Number
<1>13. StageSound(e)'
  BY <1>1, <1>6, <1>7, <1>8, <1>10, InPool DEF StageSound, Kept, Own, EditsOf, Number
<1>14. \A p \in new.late : Own(e, p)
  BY <1>1, <1>7, <1>9, InPool
<1> QED BY <1>1, <1>6, <1>7, <1>11, <1>12, <1>13, <1>14, InPool, PoolStep
LEMMA HandsOf == Execs \subseteq Actors /\ Endpoints \subseteq Actors
BY DEF Actors

(* The thread of a takes something else in hand.                                   *)
LEMMA HandTyped ==
    ASSUME PatchTyped, NEW a \in Actors, NEW h \in HandValues, UNCHANGED <<tree, patchRow>>, hand' = [hand EXCEPT ![a] = h],
           IF h.op # "none" THEN h.of \in Number /\ h.todo \subseteq patchRow[h.of].edits ELSE h.todo = {}
    PROVE  /\ PatchTyped' /\ hand'[a] = h /\ \A b \in Actors \ {a} : hand'[b] = hand[b]
<1>1. hand'[a] = h /\ \A b \in Actors \ {a} : hand'[b] = hand[b]
  BY DEF PatchTyped
<1>2. hand' \in [Actors -> HandValues]
  BY DEF PatchTyped
<1>3. Number' = Number
  BY DEF Number
<1>4. ASSUME NEW b \in Actors
      PROVE  IF Busy(b)' THEN hand'[b].of \in Number /\ hand'[b].todo \subseteq patchRow[hand'[b].of].edits ELSE hand'[b].todo = {}
  <2>1. CASE b = a
    BY <1>1, <2>1 DEF Busy
  <2>2. CASE b # a
    BY <1>1, <2>2 DEF Busy, PatchTyped
  <2> QED BY <2>1, <2>2
<1> QED BY <1>1, <1>2, <1>3, <1>4 DEF PatchTyped

LEMMA HandStep ==
    ASSUME ExecutionInv, NEW a \in Actors, NEW h \in HandValues, UNCHANGED <<tree, patchRow>>, hand' = [hand EXCEPT ![a] = h],
           IF h.op # "none" THEN h.of \in Number /\ h.todo \subseteq patchRow[h.of].edits ELSE h.todo = {},
           h.op # "apply" \/ h.todo = patchRow[h.of].edits,
           OfExecs', UNCHANGED failureVars,
           \A b \in Execs \ {a} : SameExec(b, {}),
           a \in Execs => ExecSound(a)'
    PROVE  ExecutionInv'
<1>1. PatchTyped' /\ hand'[a] = h /\ \A b \in Actors \ {a} : hand'[b] = hand[b]
  BY HandTyped DEF ExecutionInv
<1>2. ASSUME NEW b \in Execs \ {a} PROVE ExecSound(b)'
  <2>1. ExecSound(b) /\ SameExec(b, {}) /\ PatchTyped /\ hand'[b] = hand[b]
    BY <1>1, HandsOf DEF ExecutionInv
  <2>2. \A x \in Actors : hand'[x] = hand[x] \/ hand'[x].op # "apply" \/ hand'[x].todo = patchRow[hand'[x].of].edits
    BY <1>1
  <2> QED BY <2>1, <2>2, Unmoved
<1>3. CandidatesSound'
  BY CandidatesStay, RowsStay DEF ExecutionInv
<1> QED BY <1>1, <1>2, <1>3 DEF ExecutionInv

LEMMA SameOthers ==
    ASSUME ExecutionInv, NEW b \in Execs, state'[b] = state[b], phase'[b] = phase[b] PROVE SameExec(b, {})
BY DEF ExecutionInv, ExecSound, StateTyped, SameExec
LEMMA NotesSame ==
    ASSUME ExecutionInv, NEW a, state' = Notes(a), UNCHANGED phase
    PROVE  /\ DOMAIN state' = Execs
           /\ \A b \in Execs \ {a} : SameExec(b, {f \in File : tree'[f] # tree[f]})
           /\ a \in Execs => state'[a] = state[a]
<1>1. PICK D : D = {f \in File : tree'[f] # tree[f]}
  OBVIOUS
<1>2. state' = [b \in Execs |-> IF b = a THEN state[b] ELSE [state[b] EXCEPT !.others = @ \union D]]
  BY <1>1 DEF Notes
<1>3. ASSUME NEW b \in Execs \ {a} PROVE SameExec(b, D)
  <2>1. DOMAIN state[b] = StateFields
    BY DEF ExecutionInv, ExecSound, StateTyped
  <2>2. state'[b] = [state[b] EXCEPT !.others = @ \union D]
    BY <1>2
  <2> QED BY <2>1, <2>2 DEF SameExec, StateFields
<1> QED BY <1>1, <1>2, <1>3

(* The execution is over, or starts anew.                                          *)
LEMMA EndsKeeps ==
    ASSUME ExecutionInv, NEW e \in Execs, UNCHANGED <<tree, patchRow, hand, failureVars>>, hand[e].op = "none",
           NEW stage, state' = [state EXCEPT ![e] = Fresh(stage)],
           NEW p, phase' = [phase EXCEPT ![e] = p], p \notin Going
    PROVE  ExecutionInv'
<1>1. state'[e] = Fresh(stage) /\ phase'[e] = p /\ OfExecs' /\ \A b \in Execs \ {e} : state'[b] = state[b] /\ phase'[b] = phase[b]
  BY DEF ExecutionInv, OfExecs, failureVars
<1>2. ExecSound(e)'
  BY <1>1, OverIsSound
<1>3. CandidatesSound'
  BY CandidatesStay, RowsStay DEF ExecutionInv
<1> QED BY <1>1, <1>2, <1>3, OwnStep

LEMMA StartAttemptKeeps == ASSUME ExecutionInv, NEW e \in Execs, StartAttempt(e) PROVE ExecutionInv'
<1>1. PICK new : new = Fresh(tree)
  OBVIOUS
<1>2. /\ DOMAIN new = StateFields /\ new.proposal = 0 /\ new.late = {} /\ new.done = {} /\ new.editing = "no" /\ new.stage = tree
      /\ DOMAIN new.evidence = Judges /\ DOMAIN new.about = Judges
  BY <1>1 DEF Fresh, StateFields
<1>3. /\ state'[e] = new /\ phase'[e] = "pool" /\ OfExecs' /\ \A b \in Execs \ {e} : state'[b] = state[b] /\ phase'[b] = phase[b]
      /\ UNCHANGED <<tree, patchRow, hand, failureVars>>
  BY <1>1 DEF ExecutionInv, OfExecs, StartAttempt, Goes, failureVars, patchVars
<1>4. hand'[e].op = "none"
  BY <1>3 DEF ExecutionInv, ExecSound, HandSound, StartAttempt
<1>5. StateTyped(e)' /\ HandSound(e)' /\ TestSound(e)' /\ WrittenSound(e)'
  BY <1>2, <1>3, <1>4 DEF StateTyped, HandSound, TestSound, WrittenSound, Busy
<1>6. DoneSound(e)'
  BY <1>2, <1>3 DEF DoneSound
<1>7. StageSound(e)'
  BY <1>2, <1>3 DEF StageSound, Kept, ExecutionInv, PatchTyped, Number
<1>8. CandidatesSound'
  BY <1>3, CandidatesStay, RowsStay DEF ExecutionInv
<1> QED BY <1>3, <1>5, <1>6, <1>7, <1>8, OwnStep DEF ExecSound

(* A patch is previewed: its row is appended.                                      *)
LEMMA PreviewTyped ==
    ASSUME ExecutionInv, NEW a \in Actors, NEW edits \in Edits, Preview(a, edits), UNCHANGED <<tree, hand>>
    PROVE  /\ PatchTyped' /\ RowsKept /\ Number' = Number \union {Len(patchRow) + 1}
           /\ Len(patchRow) + 1 \notin Number /\ Len(patchRow) + 1 # 0
           /\ \A p \in Number : patchRow'[p] = patchRow[p]
           /\ patchRow'[Len(patchRow) + 1].run = a /\ patchRow'[Len(patchRow) + 1].status = "preview"
<1>0. PatchTyped
  BY DEF ExecutionInv
<1>1. PICK row : row = [run |-> a, status |-> "preview", edits |-> edits, before |-> tree]
  OBVIOUS
<1>2. Number \subseteq Nat /\ edits \subseteq File
  BY ExecutionAssumption DEF Number
<1>3. row \in Rows /\ row.before = tree
  <2>1. tree \in [File -> Nat]
    <3>1. tree \in [File -> {0} \union Number] /\ {0} \union Number \subseteq Nat
      BY <1>0, <1>2 DEF PatchTyped
    <3> QED BY <3>1
  <2> QED BY <1>1, <1>2, <2>1 DEF Rows
<1>4. patchRow' = Append(patchRow, row)
  BY <1>1 DEF Preview
<1>5. /\ patchRow' \in Seq(Rows) /\ Number' = Number \union {Len(patchRow) + 1}
      /\ Len(patchRow) + 1 \notin Number /\ Len(patchRow) + 1 # 0
      /\ \A p \in Number : patchRow'[p] = patchRow[p]
      /\ patchRow'[Len(patchRow) + 1] = row
      /\ RowsKept
  BY <1>0, <1>3, <1>4, RowAppended DEF PatchTyped
<1>6. tree \in [File -> {0} \union Number']
  BY <1>0, <1>5 DEF PatchTyped
<1>7. \A p \in Number' : patchRow'[p].before \in [File -> {0} \union Number']
  BY <1>0, <1>3, <1>5, <1>6 DEF PatchTyped
<1>8. \A b \in Actors : IF Busy(b) THEN hand[b].of \in Number' /\ hand[b].todo \subseteq patchRow'[hand[b].of].edits ELSE hand[b].todo = {}
  BY <1>0, <1>5 DEF PatchTyped
<1>9. PatchTyped'
  BY <1>0, <1>5, <1>6, <1>7, <1>8 DEF PatchTyped, Busy
<1> QED BY <1>1, <1>5, <1>9

LEMMA PreviewAside ==
    ASSUME ExecutionInv, NEW b \in Execs, SameExec(b, {}), UNCHANGED <<tree, hand>>, RowsKept,
           \A p \in Number : patchRow'[p] = patchRow[p]
    PROVE  ExecSound(b)'
<1>1. ExecSound(b) /\ OthersWrote({}) /\ PatchTyped
  BY DEF OthersWrote, ExecutionInv
<1>2. WrittenSound(b)'
  BY <1>1, WrittenAside
<1> QED BY <1>1, <1>2, Aside

LEMMA ProposeKeeps == ASSUME ExecutionInv, NEW e \in Execs, Propose(e) PROVE ExecutionInv'
<1>1. phase[e] = "pool" /\ state[e].editing = "no" /\ "edit" \notin state[e].done
  BY DEF Propose, Runnable
<1>2. PICK edits \in Edits : Preview(e, edits)
  BY DEF Propose
<1>3. PICK p : p = Len(patchRow) + 1
  OBVIOUS
<1>4. PICK new : new = [state[e] EXCEPT !.proposal = p, !.editing = "previewed"]
  OBVIOUS
<1>5. state' = [state EXCEPT ![e] = new] /\ UNCHANGED <<tree, hand, phase, failureVars>>
  BY <1>3, <1>4 DEF Propose
<1>6. /\ DOMAIN new = StateFields /\ new.stage = state[e].stage /\ new.editing = "previewed" /\ new.proposal = p
      /\ new.others = state[e].others /\ new.late = state[e].late /\ new.evidence = state[e].evidence
      /\ new.about = state[e].about /\ new.done = state[e].done /\ new.tested = state[e].tested
  BY <1>1, <1>4, InPool DEF StateFields
<1>7. state'[e] = new /\ OfExecs' /\ \A b \in Execs \ {e} : state'[b] = state[b] /\ phase'[b] = phase[b]
  BY <1>5 DEF ExecutionInv, OfExecs, failureVars
<1>8. state[e].done = {}
  BY <1>1, InPool DEF DoneSound
<1>9. /\ PatchTyped' /\ RowsKept /\ Number' = Number \union {p} /\ p \notin Number /\ p # 0
      /\ \A q \in Number : patchRow'[q] = patchRow[q]
      /\ patchRow'[p].run = e /\ patchRow'[p].status = "preview"
  BY <1>2, <1>3, <1>5, PreviewTyped, HandsOf
<1>10. Own(e, p)' /\ \A v : Own(e, v) => Own(e, v)'
  BY <1>9 DEF Own, RowsKept
<1>11. StateTyped(e)'
  BY <1>1, <1>6, <1>7, <1>10, InPool DEF StateTyped
<1>12. DoneSound(e)' /\ TestSound(e)'
  BY <1>1, <1>5, <1>6, <1>7, <1>8, <1>9 DEF DoneSound, TestSound
<1>13. StageSound(e)'
  <2>1. PICK stage : stage = state[e].stage
    OBVIOUS
  <2>2. stage \in [File -> {0} \union Number] /\ \A f \in File : Kept(e, f, stage[f])
    BY <1>1, <2>1, InPool DEF StageSound
  <2>3. stage \in [File -> {0} \union Number'] /\ \A f \in File : stage[f] # p
    BY <1>9, <2>2
  <2>4. \A f \in File : Kept(e, f, stage[f])'
    BY <1>5, <1>6, <1>7, <1>10, <2>2 DEF Kept
  <2> QED BY <1>6, <1>7, <2>1, <2>3, <2>4 DEF StageSound, Kept
<1>14. WrittenSound(e)'
  <2>1. \A a \in Actors : hand[a].op = "apply" => hand[a].of # p
    BY <1>9 DEF ExecutionInv, PatchTyped, Busy
  <2> QED BY <1>1, <1>5, <1>6, <1>7, <1>9, <2>1 DEF WrittenSound
<1>15. HandSound(e)'
  BY <1>1, <1>5, InPool DEF HandSound
<1>16. ASSUME NEW b \in Execs \ {e} PROVE ExecSound(b)'
  BY <1>5, <1>7, <1>9, PreviewAside, SameOthers
<1>17. CandidatesSound'
  BY <1>5, <1>9, CandidatesStay DEF ExecutionInv
<1> QED BY <1>7, <1>9, <1>11, <1>12, <1>13, <1>14, <1>15, <1>16, <1>17 DEF ExecutionInv, ExecSound

LEMMA PoolReturnedKeeps == ASSUME ExecutionInv, NEW e \in Execs, PoolReturned(e) PROVE ExecutionInv'
<1>1. PICK p : p = IF Accepted(e) THEN "apply" ELSE "withdraw"
  OBVIOUS
<1>2. /\ phase[e] = "pool" /\ phase' = [phase EXCEPT ![e] = p]
      /\ UNCHANGED <<tree, patchRow, hand, state, resolving, candidates>>
  BY <1>1 DEF PoolReturned, Goes, patchVars
<1>3. phase'[e] = p /\ \A b \in Execs \ {e} : phase'[b] = phase[b]
  BY <1>2 DEF ExecutionInv, OfExecs
<1>4. PICK X \in SUBSET Failures : Record(e, X)
  BY DEF PoolReturned
<1>5. OfExecs'
  BY <1>2, <1>4 DEF ExecutionInv, OfExecs, Record
<1>6. CandidatesSound'
  <2>0. CandidatesSound /\ OfExecs
    BY DEF ExecutionInv
  <2>1. failureRow' = [x \in Failures |-> IF x \in X THEN Observed(e, x) ELSE failureRow[x]]
    BY <1>4 DEF Record
  <2>2. ASSUME NEW x \in Failures
        PROVE  /\ DOMAIN failureRow'[x] = {"count", "seen", "status", "link"} /\ failureRow'[x].count \in Nat
               /\ failureRow[x].count >= Threshold => failureRow'[x].count >= Threshold
    <3>0. DOMAIN failureRow[x] = {"count", "seen", "status", "link"} /\ failureRow[x].count \in Nat
      BY <2>0 DEF CandidatesSound
    <3>1. CASE x \in X
      <4>1. failureRow'[x] = [failureRow[x] EXCEPT !.count = @ + 1, !.seen = @ \union {state[e].proposal}]
        BY <2>1, <3>1 DEF Observed
      <4> QED BY <3>0, <4>1, ExecutionAssumption
    <3>2. CASE x \notin X
      BY <2>1, <3>0, <3>2
    <3> QED BY <3>1, <3>2
  <2>3. \A b \in Execs : unresolved'[b] \subseteq Failures
    BY <1>4, <2>0 DEF Record, CandidatesSound, OfExecs
  <2>4. patchRow' = patchRow /\ Number' = Number /\ DOMAIN failureRow' = Failures
    BY <1>2, <2>1 DEF Number
  <2> QED BY <1>2, <2>0, <2>2, <2>3, <2>4 DEF CandidatesSound
<1>7. ExecSound(e)'
  <2>1. StateTyped(e)'
    BY <1>2 DEF ExecutionInv, ExecSound, StateTyped, Own, Number
  <2>2. HandSound(e)'
    BY <1>1, <1>2, <1>3, InPool DEF HandSound, Busy
  <2>3. CASE ~Accepted(e)
    BY <1>1, <1>3, <2>1, <2>2, <2>3 DEF ExecSound, DoneSound, StageSound, TestSound, WrittenSound, Going
  <2>4. CASE Accepted(e)
    <3>1. phase'[e] = "apply" /\ state[e].done = Tasks /\ state[e].evidence["verify"]
      BY <1>1, <1>3, <2>4 DEF Accepted
    <3>2. DoneSound(e)'
      BY <1>2, <3>1, InPool DEF DoneSound, Going
    <3>3. TestSound(e)'
      BY <1>2, <3>1, InPool DEF TestSound, Own, Kept, EditsOf, Number
    <3>4. WrittenSound(e)'
      BY <1>2, <3>1, InPool DEF ExecSound, WrittenSound, EditsOf, Has
    <3> QED BY <2>1, <2>2, <3>1, <3>2, <3>3, <3>4 DEF ExecSound, StageSound
  <2> QED BY <2>3, <2>4
<1> QED BY <1>2, <1>3, <1>5, <1>6, <1>7, OwnStep

(* What holds of an execution that applies or has applied its patch.               *)
LEMMA Applies ==
    ASSUME ExecutionInv, NEW e \in Execs, phase[e] \in {"apply", "applied"}
    PROVE  /\ ExecSound(e) /\ phase[e] \in Going /\ state[e].done = Tasks /\ state[e].evidence["verify"]
           /\ state[e].proposal # 0 /\ Own(e, state[e].proposal) /\ state[e].proposal \in Number
           /\ EditsOf(e) = patchRow[state[e].proposal].edits /\ EditsOf(e) \subseteq File
<1>1. ExecSound(e) /\ phase[e] \in Going /\ state[e].done = Tasks /\ state[e].evidence["verify"]
  BY DEF ExecutionInv, ExecSound, DoneSound, Going
<1>2. state[e].proposal # 0
  BY <1>1 DEF ExecSound, DoneSound, Tasks
<1>3. Own(e, state[e].proposal) /\ state[e].proposal \in Number
  BY <1>1, <1>2 DEF ExecSound, StateTyped, Own
<1>4. patchRow[state[e].proposal] \in Rows
  BY <1>3 DEF ExecutionInv, PatchTyped, Number
<1> QED BY <1>1, <1>2, <1>3, <1>4 DEF EditsOf, Rows

LEMMA ApplyAcceptedKeeps == ASSUME ExecutionInv, NEW e \in Execs, ApplyAccepted(e) PROVE ExecutionInv'
<1>0. phase[e] = "apply" /\ hand[e].op = "none" /\ UNCHANGED <<tree, failureVars>> /\ OfExecs
  BY DEF ApplyAccepted, Busy, ExecutionInv, OfExecs
<1>1. ExecSound(e) /\ state[e].proposal \in Number /\ EditsOf(e) = patchRow[state[e].proposal].edits /\ EditsOf(e) \subseteq File
  BY <1>0, Applies
<1>2. CASE BeginApply(e, state[e].proposal) /\ UNCHANGED <<phase, revision, state>>
  <2>1. PICK h : h = [op |-> "apply", of |-> state[e].proposal, todo |-> EditsOf(e)]
    OBVIOUS
  <2>2. hand' = [hand EXCEPT ![e] = h] /\ UNCHANGED <<tree, patchRow, phase, state, failureVars>>
    BY <1>0, <1>1, <1>2, <2>1 DEF BeginApply, Takes
  <2>3. h \in HandValues /\ h.op = "apply" /\ h.of = state[e].proposal /\ h.todo = EditsOf(e)
    BY <1>1, <2>1 DEF HandValues, Number
  <2>4. PatchTyped' /\ hand'[e] = h /\ \A b \in Actors \ {e} : hand'[b] = hand[b]
    BY <1>1, <2>2, <2>3, HandTyped, HandsOf DEF ExecutionInv
  <2>5. ExecSound(e)'
    <3>1. StateTyped(e)' /\ DoneSound(e)'
      BY <1>1, <2>2 DEF ExecSound, StateTyped, DoneSound, Own, Number
    <3>2. StageSound(e)' /\ HandSound(e)'
      BY <1>0, <2>2, <2>3, <2>4 DEF StageSound, HandSound
    <3>3. TestSound(e)'
      BY <1>1, <2>2 DEF ExecSound, TestSound, Own, Kept, EditsOf, Number
    <3>4. WrittenSound(e)'
      BY <1>0, <1>1, <2>2, <2>3, <2>4 DEF ExecSound, WrittenSound, EditsOf, Has
    <3> QED BY <3>1, <3>2, <3>3, <3>4 DEF ExecSound
  <2>6. \A b \in Execs \ {e} : SameExec(b, {})
    BY <2>2, SameOthers
  <2>7. OfExecs'
    BY <1>0, <2>2 DEF OfExecs, failureVars
  <2> QED BY <1>1, <2>2, <2>3, <2>5, <2>6, <2>7, HandStep, HandsOf
<1>3. CASE Mine(e) = "applied" /\ Goes(e, "applied") /\ UNCHANGED <<patchRow, hand, revision, state>>
  <2>1. /\ phase'[e] = "applied" /\ \A b \in Execs \ {e} : phase'[b] = phase[b]
        /\ UNCHANGED <<tree, patchRow, hand, state, failureVars>> /\ OfExecs'
    BY <1>0, <1>3 DEF Goes, OfExecs, failureVars
  <2>2. StateTyped(e)' /\ DoneSound(e)'
    BY <1>0, <1>1, <2>1 DEF ExecSound, StateTyped, DoneSound, Own, Number, Going
  <2>3. StageSound(e)' /\ HandSound(e)'
    BY <1>0, <2>1 DEF StageSound, HandSound, Busy
  <2>4. TestSound(e)'
    BY <1>0, <1>1, <2>1 DEF ExecSound, TestSound, Own, Kept, EditsOf, Number, Going
  <2>5. WrittenSound(e)'
    BY <1>0, <1>1, <1>3, <2>1 DEF ExecSound, WrittenSound, EditsOf, Has, Going, Mine
  <2>6. ExecSound(e)'
    BY <2>2, <2>3, <2>4, <2>5 DEF ExecSound
  <2>7. CandidatesSound'
    BY <2>1, CandidatesStay, RowsStay DEF ExecutionInv
  <2> QED BY <2>1, <2>6, <2>7, OwnStep
<1>4. CASE Ends(e, "raised") /\ UNCHANGED <<patchRow, hand>>
  BY <1>0, <1>4, EndsKeeps DEF Ends, Goes, Going
<1> QED BY <1>2, <1>3, <1>4 DEF ApplyAccepted

LEMMA LeavePreviewKeeps == ASSUME ExecutionInv, NEW e \in Execs, LeavePreview(e) PROVE ExecutionInv'
<1>1. "accepted" \notin Going
  BY DEF Going
<1> QED BY <1>1, EndsKeeps DEF LeavePreview, Ends, Goes, Busy, patchVars

LEMMA Leaves ==
    ASSUME ExecutionInv, NEW e \in Execs, Withdrawn(e)
    PROVE  \E p : \E stage : p \notin Going /\ phase' = [phase EXCEPT ![e] = p] /\ state' = [state EXCEPT ![e] = Fresh(stage)]
<1>1. "again" \notin Going /\ "rejected" \notin Going
  BY DEF Going
<1> QED BY <1>1 DEF Withdrawn, Goes, Ends

LEMMA WithdrawKeeps == ASSUME ExecutionInv, NEW e \in Execs, Withdraw(e) PROVE ExecutionInv'
<1>0. phase[e] = "withdraw" /\ hand[e].op = "none" /\ UNCHANGED <<tree, failureVars>> /\ ExecSound(e)
  BY DEF Withdraw, Busy, ExecutionInv
<1>1. CASE Withdrawn(e) /\ UNCHANGED <<patchRow, hand>>
  BY <1>0, <1>1, Leaves, EndsKeeps
<1>2. CASE state[e].proposal # 0 /\ BeginRollback(e, state[e].proposal) /\ UNCHANGED <<phase, revision, state>>
  <2>0. state[e].proposal \in Number /\ patchRow[state[e].proposal] \in Rows
    <3>1. state[e].proposal \in Number
      BY <1>0, <1>2 DEF ExecSound, StateTyped, Own
    <3> QED BY <3>1 DEF ExecutionInv, PatchTyped, Number
  <2>1. PICK h : h = [op |-> "rollback", of |-> state[e].proposal, todo |-> ToRestore(state[e].proposal)]
    OBVIOUS
  <2>2. hand' = [hand EXCEPT ![e] = h] /\ UNCHANGED <<tree, patchRow, phase, state, failureVars>>
    BY <1>0, <1>2, <2>1 DEF BeginRollback, Takes
  <2>3. h \in HandValues /\ h.op = "rollback" /\ h.of = state[e].proposal /\ h.todo \subseteq patchRow[h.of].edits
    BY <2>0, <2>1 DEF HandValues, Number, ToRestore, Rows
  <2>4. hand'[e] = h
    BY <2>0, <2>2, <2>3, HandTyped, HandsOf DEF ExecutionInv
  <2>5. ExecSound(e)'
    <3>1. StateTyped(e)'
      BY <1>0, <2>2 DEF ExecSound, StateTyped, Own, Number
    <3>2. HandSound(e)'
      BY <1>0, <2>2, <2>3, <2>4 DEF HandSound
    <3> QED BY <1>0, <2>2, <3>1, <3>2 DEF ExecSound, DoneSound, StageSound, TestSound, WrittenSound, Going
  <2>6. \A b \in Execs \ {e} : SameExec(b, {})
    BY <2>2, SameOthers
  <2>7. OfExecs'
    BY <2>2 DEF ExecutionInv, OfExecs, failureVars
  <2> QED BY <2>0, <2>2, <2>3, <2>5, <2>6, <2>7, HandStep, HandsOf
<1> QED BY <1>1, <1>2 DEF Withdraw

(* A thread writes the next file of its patch.                                     *)
LEMMA FileWritten ==
    ASSUME PatchTyped, NEW a \in Actors, WriteFile(a)
    PROVE  \E f \in hand[a].todo : \E v :
              /\ f \in File /\ v \in {0} \union Number /\ Busy(a) /\ hand[a].of \in Number
              /\ hand[a].todo \subseteq patchRow[hand[a].of].edits
              /\ hand[a].op = "apply" => v = hand[a].of
              /\ tree' = [tree EXCEPT ![f] = v]
              /\ hand'[a].op = hand[a].op /\ hand'[a].of = hand[a].of /\ hand'[a].todo = hand[a].todo \ {f}
              /\ \A b \in Actors \ {a} : hand'[b] = hand[b]
              /\ UNCHANGED patchRow /\ PatchTyped'
<1>1. PICK f \in hand[a].todo : /\ tree' = [tree EXCEPT ![f] = IF hand[a].op = "apply" THEN hand[a].of
                                                               ELSE patchRow[hand[a].of].before[f]]
                                /\ hand' = [hand EXCEPT ![a].todo = @ \ {f}] /\ UNCHANGED patchRow
  BY DEF WriteFile
<1>2. PICK v : v = IF hand[a].op = "apply" THEN hand[a].of ELSE patchRow[hand[a].of].before[f]
  OBVIOUS
<1>3. hand[a] \in HandValues /\ Busy(a) /\ hand[a].of \in Number /\ hand[a].todo \subseteq patchRow[hand[a].of].edits
  BY DEF PatchTyped
<1>4. f \in File
  BY <1>1, <1>3 DEF HandValues
<1>5. v \in {0} \union Number
  BY <1>2, <1>3, <1>4 DEF PatchTyped
<1>6. PICK h : h = [hand[a] EXCEPT !.todo = @ \ {f}]
  OBVIOUS
<1>7. h \in HandValues /\ h.op = hand[a].op /\ h.of = hand[a].of /\ h.todo = hand[a].todo \ {f}
  BY <1>3, <1>6 DEF HandValues
<1>8. hand' = [hand EXCEPT ![a] = h]
  BY <1>1, <1>6
<1>9. hand'[a] = h /\ hand' \in [Actors -> HandValues] /\ \A b \in Actors \ {a} : hand'[b] = hand[b]
  BY <1>7, <1>8 DEF PatchTyped
<1>10. tree' = [tree EXCEPT ![f] = v] /\ tree' \in [File -> {0} \union Number] /\ patchRow' = patchRow /\ Number' = Number
  BY <1>1, <1>2, <1>4, <1>5 DEF PatchTyped, Number
<1>11. ASSUME NEW b \in Actors
       PROVE  IF Busy(b)' THEN hand'[b].of \in Number /\ hand'[b].todo \subseteq patchRow[hand'[b].of].edits ELSE hand'[b].todo = {}
  <2>1. CASE b = a
    BY <1>3, <1>7, <1>9, <2>1 DEF Busy
  <2>2. CASE b # a
    BY <1>9, <2>2 DEF Busy, PatchTyped
  <2> QED BY <2>1, <2>2
<1>12. PatchTyped'
  BY <1>9, <1>10, <1>11 DEF PatchTyped
<1> QED BY <1>3, <1>4, <1>5, <1>2, <1>7, <1>9, <1>10, <1>12

LEMMA WriteAside ==
    ASSUME ExecutionInv, NEW a \in Actors, WriteFile(a), NEW b \in Execs \ {a},
           NEW D, D = {f \in File : tree'[f] # tree[f]}, SameExec(b, D)
    PROVE  ExecSound(b)'
<1>0. PatchTyped /\ ExecSound(b) /\ b \in Actors
  BY HandsOf DEF ExecutionInv
<1>1. PICK f \in hand[a].todo : \E v :
              /\ f \in File /\ v \in {0} \union Number /\ Busy(a) /\ hand[a].of \in Number
              /\ hand[a].todo \subseteq patchRow[hand[a].of].edits
              /\ hand[a].op = "apply" => v = hand[a].of
              /\ tree' = [tree EXCEPT ![f] = v]
              /\ hand'[a].op = hand[a].op /\ hand'[a].of = hand[a].of /\ hand'[a].todo = hand[a].todo \ {f}
              /\ \A x \in Actors \ {a} : hand'[x] = hand[x]
              /\ UNCHANGED patchRow /\ PatchTyped'
  BY <1>0, FileWritten
<1>2. OthersWrote(D) /\ RowsKept
  BY <1>1, RowsStay DEF OthersWrote
<1>3. tree \in [File -> {0} \union Number]
  BY <1>0 DEF PatchTyped
<1>4. ASSUME phase[b] \in Going, hand[b].op # "undo", hand'[a].op = "apply", hand'[a].of = state[b].proposal,
             NEW g \in EditsOf(b) \ hand'[a].todo
      PROVE  HasNext(b, g)
  <2>1. state[b].proposal # 0 /\ WrittenSound(b) /\ EditsOf(b) = patchRow[hand[a].of].edits
    BY <1>0, <1>1, <1>4 DEF ExecSound, EditsOf, Number
  <2>2. g \in File
    <3>1. patchRow[hand[a].of] \in Rows
      BY <1>0, <1>1 DEF PatchTyped, Number
    <3> QED BY <1>4, <2>1, <3>1 DEF Rows
  <2>3. CASE g = f
    BY <1>1, <1>3, <1>4, <2>3 DEF HasNext, SameExec
  <2>4. CASE g # f
    <3>1. Has(b, g)
      BY <1>1, <1>4, <2>1, <2>4 DEF WrittenSound
    <3>2. tree'[g] = tree[g]
      BY <1>1, <1>3, <2>2, <2>4
    <3> QED BY <3>1, <3>2 DEF Has, HasNext, SameExec
  <2> QED BY <2>3, <2>4
<1>5. hand'[b] = hand[b] /\ patchRow' = patchRow
  BY <1>0, <1>1
<1>6. \A x \in Actors :
        \/ hand'[x] = hand[x]
        \/ phase[b] \in Going /\ hand[b].op # "undo" /\ hand'[x].op = "apply" /\ hand'[x].of = state[b].proposal
           => \A g \in EditsOf(b) \ hand'[x].todo : HasNext(b, g)
  BY <1>1, <1>4
<1>7. WrittenSound(b)'
  BY <1>0, <1>2, <1>5, <1>6, WrittenAside
<1> QED BY <1>0, <1>2, <1>5, <1>7, Aside

LEMMA WritesTyped == ASSUME PatchTyped, NEW a \in Actors, WriteFile(a) PROVE PatchTyped' /\ UNCHANGED patchRow
BY FileWritten

LEMMA ExecutionWritesKeeps == ASSUME ExecutionInv, NEW e \in Execs, ExecutionWrites(e) PROVE ExecutionInv'
<1>0. PatchTyped /\ ExecSound(e) /\ e \in Actors /\ WriteFile(e) /\ UNCHANGED <<phase, failureVars>> /\ OfExecs
  BY HandsOf DEF ExecutionInv, ExecutionWrites
<1>1. PICK f \in hand[e].todo : \E v :
              /\ f \in File /\ v \in {0} \union Number /\ Busy(e) /\ hand[e].of \in Number
              /\ hand[e].todo \subseteq patchRow[hand[e].of].edits
              /\ hand[e].op = "apply" => v = hand[e].of
              /\ tree' = [tree EXCEPT ![f] = v]
              /\ hand'[e].op = hand[e].op /\ hand'[e].of = hand[e].of /\ hand'[e].todo = hand[e].todo \ {f}
              /\ \A x \in Actors \ {e} : hand'[x] = hand[x]
              /\ UNCHANGED patchRow /\ PatchTyped'
  BY <1>0, FileWritten
<1>2. PICK D : D = {g \in File : tree'[g] # tree[g]}
  OBVIOUS
<1>3. state'[e] = state[e] /\ DOMAIN state' = Execs /\ \A b \in Execs \ {e} : SameExec(b, D)
  BY <1>0, <1>2, NotesSame DEF ExecutionWrites
<1>4. tree \in [File -> {0} \union Number] /\ Number' = Number
  BY <1>0, <1>1 DEF PatchTyped, Number
<1>5. StateTyped(e)' /\ HandSound(e)'
  BY <1>0, <1>1, <1>3 DEF ExecSound, StateTyped, Own, Number, HandSound, Busy
<1>6. phase[e] \in {"apply", "withdraw"}
  BY <1>0, <1>1 DEF ExecSound, HandSound, Busy
<1>7. ASSUME phase[e] = "withdraw" PROVE ExecSound(e)'
  BY <1>0, <1>5, <1>7 DEF ExecSound, DoneSound, StageSound, TestSound, WrittenSound, Going
<1>8. ASSUME phase[e] = "apply" PROVE ExecSound(e)'
  <2>1. hand[e].of = state[e].proposal /\ EditsOf(e) = patchRow[hand[e].of].edits /\ state[e].proposal # 0 /\ phase[e] \in Going
    BY <1>0, <1>1, <1>8, Applies DEF ExecSound, HandSound
  <2>2. DoneSound(e)' /\ StageSound(e)'
    BY <1>0, <1>3, <1>8 DEF ExecSound, DoneSound, StageSound
  <2>3. \A g \in File : g # f => tree'[g] = tree[g]
    BY <1>1, <1>4
  <2>4. TestSound(e)'
    <3>1. PICK tested : tested = state[e].tested
      OBVIOUS
    <3>2. "test" \in state[e].done => \A g \in File : IF g \in EditsOf(e) THEN Own(e, tested[g])
                                                     ELSE tested[g] # state[e].proposal /\ Kept(e, g, tested[g])
      BY <1>0, <2>1, <3>1 DEF ExecSound, TestSound
    <3>3. \A g \in File \ EditsOf(e) : tree'[g] = tree[g]
      BY <1>1, <2>1, <2>3
    <3>4. EditsOf(e)' = EditsOf(e) /\ \A w : Own(e, w)' = Own(e, w)
      BY <1>1, <1>3, <1>4 DEF EditsOf, Own
    <3> QED BY <1>3, <3>1, <3>2, <3>3, <3>4 DEF TestSound, Kept
  <2>5. WrittenSound(e)'
    <3> SUFFICES ASSUME hand[e].op = "apply" PROVE WrittenSound(e)'
      BY <1>1, <1>8, <1>0, <1>3 DEF WrittenSound, ExecSound, HandSound, Busy
    <3>1. tree'[f] = state[e].proposal
      BY <1>1, <1>4, <2>1
    <3>2. ASSUME NEW g \in EditsOf(e), Has(e, g) PROVE Has(e, g)'
      <4>1. g \in File
        BY <3>2, <1>0, <1>8, Applies
      <4> QED BY <1>3, <2>3, <3>1, <3>2, <4>1 DEF Has
    <3>3. EditsOf(e)' = EditsOf(e) /\ Has(e, f)' /\ WrittenSound(e)
      BY <1>0, <1>1, <1>3, <3>1 DEF EditsOf, Has, ExecSound
    <3>4. ASSUME NEW x \in Actors, hand'[x].op = "apply", hand'[x].of = state[e].proposal, NEW g \in EditsOf(e) \ hand'[x].todo
          PROVE  Has(e, g)'
      <4>1. CASE x = e /\ g = f
        BY <3>3, <4>1
      <4>2. CASE x # e \/ g # f
        <5>1. hand[x].op = "apply" /\ hand[x].of = state[e].proposal /\ g \in EditsOf(e) \ hand[x].todo
          BY <1>1, <3>4, <4>2
        <5>2. Has(e, g)
          BY <2>1, <3>3, <5>1 DEF WrittenSound
        <5> QED BY <3>2, <3>4, <5>2
      <4> QED BY <4>1, <4>2
    <3>5. patchRow[state[e].proposal].status = "applied" => \A g \in EditsOf(e) : Has(e, g)'
      BY <2>1, <3>2, <3>3 DEF WrittenSound
    <3> QED BY <1>0, <1>1, <1>3, <1>8, <3>3, <3>4, <3>5 DEF WrittenSound
  <2> QED BY <1>5, <2>2, <2>4, <2>5 DEF ExecSound
<1>9. ExecSound(e)'
  BY <1>6, <1>7, <1>8
<1>10. \A b \in Execs \ {e} : ExecSound(b)'
  BY <1>0, <1>2, <1>3, WriteAside
<1>11. CandidatesSound' /\ OfExecs'
  BY <1>0, <1>1, <1>3, CandidatesStay, RowsStay DEF ExecutionInv, OfExecs, failureVars
<1> QED BY <1>1, <1>9, <1>10, <1>11 DEF ExecutionInv

(* The row of the patch is updated after the last file.                            *)
LEMMA PatchRecorded ==
    ASSUME PatchTyped, NEW a \in Actors, RecordPatch(a)
    PROVE  /\ hand[a].op \in {"apply", "rollback"} /\ hand[a].todo = {} /\ hand[a].of \in Number
           /\ UNCHANGED tree /\ Number' = Number /\ RowsKept /\ PatchTyped'
           /\ \A q \in Number : patchRow'[q].status = IF q = hand[a].of THEN Outcome(hand[a].op) ELSE patchRow[q].status
           /\ hand'[a].op = "none" /\ \A b \in Actors \ {a} : hand'[b] = hand[b]
<1>1. /\ hand[a].op \in {"apply", "rollback"} /\ hand[a].todo = {} /\ UNCHANGED tree
      /\ SetPatchStatus(hand[a].of, Outcome(hand[a].op)) /\ hand' = [hand EXCEPT ![a] = Free]
  BY DEF RecordPatch, Finished, LetsGo
<1>2. hand[a].of \in Number /\ hand \in [Actors -> HandValues]
  BY <1>1 DEF PatchTyped, Busy
<1>3. Outcome(hand[a].op) \in {"applied", "rolled_back"}
  BY DEF Outcome
<1>4. /\ patchRow' \in Seq(Rows) /\ Number' = Number /\ RowsKept
      /\ \A q \in Number : patchRow'[q].status = IF q = hand[a].of THEN Outcome(hand[a].op) ELSE patchRow[q].status
  BY <1>1, <1>2, <1>3, RowStatus DEF PatchTyped
<1>5. Free \in HandValues /\ Free.op = "none" /\ Free.todo = {}
  BY DEF Free, HandValues
<1>6. hand'[a] = Free /\ hand' \in [Actors -> HandValues] /\ \A b \in Actors \ {a} : hand'[b] = hand[b]
  BY <1>1, <1>2, <1>5
<1>7. \A b \in Actors : IF Busy(b)' THEN hand'[b].of \in Number /\ hand'[b].todo \subseteq patchRow'[hand'[b].of].edits
                        ELSE hand'[b].todo = {}
  BY <1>4, <1>5, <1>6 DEF PatchTyped, Busy, RowsKept
<1>8. PatchTyped'
  BY <1>1, <1>4, <1>6, <1>7 DEF PatchTyped, RowsKept
<1> QED BY <1>1, <1>2, <1>4, <1>5, <1>6, <1>8

LEMMA RecordAside ==
    ASSUME ExecutionInv, NEW a \in Actors, RecordPatch(a), NEW b \in Execs \ {a}, SameExec(b, {})
    PROVE  ExecSound(b)'
<1>0. PatchTyped /\ ExecSound(b) /\ b \in Actors
  BY HandsOf DEF ExecutionInv
<1>1. /\ hand[a].op \in {"apply", "rollback"} /\ hand[a].todo = {} /\ hand[a].of \in Number
      /\ UNCHANGED tree /\ Number' = Number /\ RowsKept /\ PatchTyped'
      /\ \A q \in Number : patchRow'[q].status = IF q = hand[a].of THEN Outcome(hand[a].op) ELSE patchRow[q].status
      /\ hand'[a].op = "none" /\ \A x \in Actors \ {a} : hand'[x] = hand[x]
  BY <1>0, PatchRecorded
<1>2. OthersWrote({}) /\ hand'[b] = hand[b]
  BY <1>0, <1>1 DEF OthersWrote
<1>3. ASSUME state[b].proposal \in Number, patchRow'[state[b].proposal].status \notin {patchRow[state[b].proposal].status, "rolled_back"},
             phase[b] \in Going, hand[b].op # "undo", NEW f \in EditsOf(b)
      PROVE  HasNext(b, f)
  <2>1. state[b].proposal = hand[a].of /\ hand[a].op = "apply" /\ state[b].proposal # 0
    BY <1>0, <1>1, <1>3 DEF Outcome, Number
  <2>2. Has(b, f)
    BY <1>0, <1>1, <1>3, <2>1 DEF ExecSound, WrittenSound
  <2> QED BY <1>1, <2>2 DEF Has, HasNext, SameExec
<1>4. WrittenSound(b)'
  <2>1. \A x \in Actors : hand'[x] = hand[x] \/ hand'[x].op # "apply"
    BY <1>1
  <2> QED BY <1>0, <1>1, <1>2, <1>3, <2>1, WrittenAside
<1> QED BY <1>0, <1>1, <1>2, <1>4, Aside

LEMMA ExecutionRecordsKeeps == ASSUME ExecutionInv, NEW e \in Execs, ExecutionRecords(e) PROVE ExecutionInv'
<1>0. PatchTyped /\ ExecSound(e) /\ e \in Actors /\ RecordPatch(e) /\ UNCHANGED failureVars /\ OfExecs
  BY HandsOf DEF ExecutionInv, ExecutionRecords
<1>1. /\ hand[e].op \in {"apply", "rollback"} /\ hand[e].todo = {} /\ hand[e].of \in Number
      /\ UNCHANGED tree /\ Number' = Number /\ RowsKept /\ PatchTyped'
      /\ \A q \in Number : patchRow'[q].status = IF q = hand[e].of THEN Outcome(hand[e].op) ELSE patchRow[q].status
      /\ hand'[e].op = "none" /\ \A b \in Actors \ {e} : hand'[b] = hand[b]
  BY <1>0, PatchRecorded
<1>2. CandidatesSound'
  BY <1>0, <1>1, CandidatesStay DEF ExecutionInv
<1>3. ASSUME phase[e] = "apply" PROVE ExecutionInv'
  <2>1. /\ phase'[e] = "applied" /\ state'[e] = state[e] /\ OfExecs'
        /\ \A b \in Execs \ {e} : state'[b] = state[b] /\ phase'[b] = phase[b]
    BY <1>0, <1>3 DEF ExecutionRecords, Goes, OfExecs, failureVars
  <2>2. hand[e].op = "apply" /\ hand[e].of = state[e].proposal /\ state[e].proposal # 0 /\ state[e].done = Tasks
    BY <1>0, <1>1, <1>3, Applies DEF ExecSound, HandSound, Busy
  <2>3. \A v : Own(e, v) => Own(e, v)'
    BY <1>1 DEF Own, RowsKept
  <2>4. EditsOf(e)' = EditsOf(e)
    BY <1>1, <2>1, <2>2 DEF EditsOf, RowsKept
  <2>5. StateTyped(e)' /\ DoneSound(e)' /\ StageSound(e)' /\ HandSound(e)'
    BY <1>0, <1>1, <1>3, <2>1, <2>3 DEF ExecSound, StateTyped, DoneSound, StageSound, HandSound, Busy, Going
  <2>6. TestSound(e)'
    <3>1. PICK tested : tested = state[e].tested
      OBVIOUS
    <3>2. "test" \in state[e].done => \A g \in File : IF g \in EditsOf(e) THEN Own(e, tested[g])
                                                     ELSE tested[g] # state[e].proposal /\ Kept(e, g, tested[g])
      BY <1>0, <1>3, <3>1 DEF ExecSound, TestSound, Going
    <3>3. \A g : \A v : Kept(e, g, v) => Kept(e, g, v)'
      BY <1>1, <2>1, <2>3 DEF Kept
    <3>4. \A g \in File : Own(e, tested[g]) => Own(e, tested[g])'
      BY <2>3
    <3>5. "test" \in state[e].done => \A g \in File : IF g \in EditsOf(e) THEN Own(e, tested[g])'
                                                     ELSE tested[g] # state[e].proposal /\ Kept(e, g, tested[g])'
      BY <3>2, <3>3, <3>4
    <3> QED BY <2>1, <2>4, <3>1, <3>5 DEF TestSound, Kept, Own
  <2>7. WrittenSound(e)'
    <3>1. \A f \in EditsOf(e) : Has(e, f)
      BY <1>0, <1>1, <1>3, <2>2 DEF ExecSound, WrittenSound, Going
    <3>2. \A f \in EditsOf(e) : Has(e, f)'
      BY <1>1, <2>1, <3>1 DEF Has
    <3>3. patchRow'[state[e].proposal].status # "preview"
      BY <1>1, <2>2 DEF Outcome
    <3> QED BY <2>1, <2>4, <3>2, <3>3 DEF WrittenSound
  <2>8. \A b \in Execs \ {e} : ExecSound(b)'
    BY <1>0, <2>1, RecordAside, SameOthers
  <2> QED BY <1>1, <1>2, <2>1, <2>5, <2>6, <2>7, <2>8 DEF ExecutionInv, ExecSound
<1>4. ASSUME phase[e] # "apply" PROVE ExecutionInv'
  <2>1. Withdrawn(e)
    BY <1>4 DEF ExecutionRecords
  <2>2. PICK p : \E stage : p \notin Going /\ phase' = [phase EXCEPT ![e] = p] /\ state' = [state EXCEPT ![e] = Fresh(stage)]
    BY <2>1, Leaves
  <2>3. PICK stage : state' = [state EXCEPT ![e] = Fresh(stage)]
    BY <2>2
  <2>4. /\ phase'[e] = p /\ state'[e] = Fresh(stage) /\ OfExecs'
        /\ \A b \in Execs \ {e} : state'[b] = state[b] /\ phase'[b] = phase[b]
    BY <1>0, <2>2, <2>3 DEF OfExecs, failureVars
  <2>5. ExecSound(e)'
    BY <1>1, <2>2, <2>4, OverIsSound
  <2>6. \A b \in Execs \ {e} : ExecSound(b)'
    BY <1>0, <2>4, RecordAside, SameOthers
  <2> QED BY <1>1, <1>2, <2>4, <2>5, <2>6 DEF ExecutionInv
<1> QED BY <1>3, <1>4

(* A thread raises, or leaves apply: the undo takes the files written so far.      *)
LEMMA ThreadRaises ==
    ASSUME PatchTyped, NEW a \in Actors, WriteRaises(a) \/ LeaveApply(a)
    PROVE  /\ UNCHANGED <<tree, patchRow>>
           /\ \E h \in HandValues :
                 /\ hand' = [hand EXCEPT ![a] = h] /\ h.op # "apply"
                 /\ IF h.op # "none" THEN h.of \in Number /\ h.todo \subseteq patchRow[h.of].edits ELSE h.todo = {}
                 /\ h.op # "none" => h.op = "undo" /\ hand[a].op = "apply" /\ h.of = hand[a].of
<1>1. Free \in HandValues /\ Free.op = "none" /\ Free.todo = {}
  BY DEF Free, HandValues
<1>2. CASE hand' = [hand EXCEPT ![a] = Free] /\ UNCHANGED <<tree, patchRow>>
  BY <1>1, <1>2
<1>3. CASE hand[a].todo # {} /\ hand[a].op = "apply" /\ Unwritten(a) /\ UNCHANGED <<tree, patchRow>>
  <2>1. hand[a] \in HandValues /\ hand[a].of \in Number /\ patchRow[hand[a].of] \in Rows
    <3>1. hand[a] \in HandValues /\ hand[a].of \in Number
      BY <1>3 DEF PatchTyped, Busy
    <3> QED BY <3>1 DEF PatchTyped, Number
  <2>2. PICK h : h = [op |-> "undo", of |-> hand[a].of, todo |-> patchRow[hand[a].of].edits \ hand[a].todo]
    OBVIOUS
  <2>3. h \in HandValues /\ h.op = "undo" /\ h.of = hand[a].of /\ h.todo \subseteq patchRow[hand[a].of].edits
    BY <2>1, <2>2 DEF HandValues, Rows, Number
  <2>4. hand' = [hand EXCEPT ![a] = h]
    BY <1>3, <2>2 DEF Unwritten, Takes
  <2> QED BY <1>3, <2>1, <2>3, <2>4
<1> QED BY <1>2, <1>3 DEF WriteRaises, LeaveApply, LetsGo

LEMMA ExecutionRaisesKeeps == ASSUME ExecutionInv, NEW e \in Execs, ExecutionRaises(e) PROVE ExecutionInv'
<1>0. PatchTyped /\ ExecSound(e) /\ e \in Actors /\ UNCHANGED failureVars /\ OfExecs /\ UNCHANGED <<tree, patchRow>>
  BY HandsOf, ThreadRaises DEF ExecutionInv, ExecutionRaises
<1>1. PICK h \in HandValues :
         /\ hand' = [hand EXCEPT ![e] = h] /\ h.op # "apply"
         /\ IF h.op # "none" THEN h.of \in Number /\ h.todo \subseteq patchRow[h.of].edits ELSE h.todo = {}
         /\ h.op # "none" => h.op = "undo" /\ hand[e].op = "apply" /\ h.of = hand[e].of
  BY <1>0, ThreadRaises DEF ExecutionRaises
<1>2. hand'[e] = h
  BY <1>0, <1>1 DEF PatchTyped
<1>3. ASSUME h.op = "none" PROVE ExecutionInv'
  <2>1. Ends(e, "raised")
    BY <1>2, <1>3 DEF ExecutionRaises, Busy
  <2>2. /\ phase'[e] = "raised" /\ state'[e] = Fresh(Nothing) /\ OfExecs'
        /\ \A b \in Execs \ {e} : state'[b] = state[b] /\ phase'[b] = phase[b]
    BY <1>0, <2>1 DEF Ends, Goes, OfExecs, failureVars
  <2>3. ExecSound(e)'
    BY <1>2, <1>3, <2>2, OverIsSound DEF Going
  <2>4. \A b \in Execs \ {e} : SameExec(b, {})
    BY <2>2, SameOthers
  <2> QED BY <1>0, <1>1, <1>3, <2>2, <2>3, <2>4, HandStep
<1>4. ASSUME h.op # "none" PROVE ExecutionInv'
  <2>1. UNCHANGED <<phase, state>>
    BY <1>2, <1>4 DEF ExecutionRaises, Busy
  <2>2. phase[e] = "apply" /\ hand[e].of = state[e].proposal
    BY <1>0, <1>1, <1>4 DEF ExecSound, HandSound, Busy
  <2>3. StateTyped(e)' /\ DoneSound(e)' /\ StageSound(e)'
    BY <1>0, <2>1, <2>2 DEF ExecSound, StateTyped, DoneSound, StageSound, Own, Number
  <2>4. TestSound(e)'
    BY <1>0, <2>1 DEF ExecSound, TestSound, Own, Kept, EditsOf, Number
  <2>5. WrittenSound(e)' /\ HandSound(e)'
    BY <1>1, <1>2, <1>4, <2>1, <2>2 DEF WrittenSound, HandSound
  <2>6. \A b \in Execs \ {e} : SameExec(b, {})
    BY <2>1, SameOthers
  <2>7. OfExecs' /\ ExecSound(e)'
    BY <1>0, <2>1, <2>3, <2>4, <2>5 DEF OfExecs, failureVars, ExecSound
  <2> QED BY <1>0, <1>1, <2>6, <2>7, HandStep
<1> QED BY <1>3, <1>4

LEMMA IndexRaisesKeeps == ASSUME ExecutionInv, NEW e \in Execs, IndexRaises(e) PROVE ExecutionInv'
<1>1. "raised" \notin Going /\ hand[e].op = "none"
  BY DEF Going, IndexRaises, ExecutionInv, ExecSound, HandSound
<1> QED BY <1>1, EndsKeeps DEF IndexRaises, Ends, Goes

LEMMA AnswerKeeps == ASSUME ExecutionInv, NEW e \in Execs, Answer(e) PROVE ExecutionInv'
<1>1. "accepted" \notin Going /\ hand[e].op = "none"
  BY DEF Going, Answer, ExecutionInv, ExecSound, HandSound
<1> QED BY <1>1, EndsKeeps DEF Answer, Ends, Goes, patchVars

(* Links and promotions write no files, rows or locals.                            *)
LEMMA OnlyRecords ==
    ASSUME ExecutionInv, UNCHANGED <<patchVars, phase, state>>, DOMAIN unresolved' = Execs, DOMAIN resolving' = Execs, CandidatesSound'
    PROVE  ExecutionInv'
<1>1. UNCHANGED <<tree, patchRow, hand, phase, state>>
  BY DEF patchVars
<1>2. PatchTyped' /\ OfExecs'
  BY <1>1 DEF ExecutionInv, PatchTyped, Number, Busy, OfExecs
<1>3. ASSUME NEW b \in Execs PROVE ExecSound(b)'
  <2>1. ExecSound(b) /\ SameExec(b, {}) /\ hand'[b] = hand[b]
    BY <1>1, SameOthers DEF ExecutionInv
  <2> QED BY <1>1, <2>1, Unmoved DEF ExecutionInv
<1> QED BY <1>2, <1>3 DEF ExecutionInv

LEMMA LinkKeeps == ASSUME ExecutionInv, NEW e \in Execs, Link(e) PROVE ExecutionInv'
<1>1. PICK x \in unresolved[e] :
          /\ failureRow' = [failureRow EXCEPT ![x].status = "verified", ![x].link = state[e].proposal]
          /\ resolving' = [resolving EXCEPT ![e] = x]
          /\ unresolved' = [unresolved EXCEPT ![e] = @ \ {x}]
  BY DEF Link
<1>2. UNCHANGED <<patchVars, phase, state, candidates>> /\ patchRow' = patchRow /\ Number' = Number
  BY DEF Link, patchVars, Number
<1>3. CandidatesSound /\ OfExecs /\ x \in Failures
  BY DEF ExecutionInv, CandidatesSound
<1>4. PICK row : row = [failureRow[x] EXCEPT !.status = "verified", !.link = state[e].proposal]
  OBVIOUS
<1>5. DOMAIN row = DOMAIN failureRow[x] /\ row.count = failureRow[x].count
  BY <1>3, <1>4 DEF CandidatesSound
<1>6. failureRow' = [failureRow EXCEPT ![x] = row]
  BY <1>1, <1>4
<1>7. DOMAIN failureRow' = Failures /\ \A y \in Failures : DOMAIN failureRow'[y] = DOMAIN failureRow[y] /\ failureRow'[y].count = failureRow[y].count
  BY <1>3, <1>5, <1>6 DEF CandidatesSound
<1>8. DOMAIN unresolved' = Execs /\ DOMAIN resolving' = Execs
      /\ \A b \in Execs : unresolved'[b] \subseteq Failures /\ resolving'[b] \in Failures \union {Nothing}
  BY <1>1, <1>3 DEF CandidatesSound, OfExecs
<1>9. CandidatesSound'
  BY <1>2, <1>3, <1>7, <1>8 DEF CandidatesSound
<1> QED BY <1>2, <1>8, <1>9, OnlyRecords

LEMMA PromoteRepairKeeps == ASSUME ExecutionInv, NEW e \in Execs, PromoteRepair(e) PROVE ExecutionInv'
<1>1. /\ phase[e] = "applied" /\ resolving[e] # Nothing /\ resolving' = [resolving EXCEPT ![e] = Nothing]
      /\ UNCHANGED <<patchVars, phase, state, unresolved, failureRow>> /\ patchRow' = patchRow /\ Number' = Number
  BY DEF PromoteRepair, patchVars, Number
<1>2. CandidatesSound /\ OfExecs /\ resolving[e] \in Failures
  BY <1>1 DEF ExecutionInv, CandidatesSound
<1>3. state[e].proposal \in Number /\ patchRow[state[e].proposal].status # "preview"
  <2>1. ExecSound(e) /\ state[e].proposal \in Number /\ state[e].proposal # 0 /\ phase[e] \in Going
    BY <1>1, Applies
  <2>2. hand[e].op = "none"
    BY <1>1, <2>1 DEF ExecSound, HandSound
  <2> QED BY <1>1, <2>1, <2>2 DEF ExecSound, WrittenSound
<1>4. DOMAIN resolving' = Execs /\ \A b \in Execs : resolving'[b] \in Failures \union {Nothing}
  BY <1>1, <1>2 DEF CandidatesSound, OfExecs
<1>5. PICK c : c = [failure |-> resolving[e], patch |-> state[e].proposal]
  OBVIOUS
<1>6. c.failure = resolving[e] /\ c.patch = state[e].proposal
  BY <1>5
<1>7. CandidatesSound'
  <2>1. CASE ~Recurs(resolving[e])
    <3>1. candidates' = candidates
      BY <2>1 DEF PromoteRepair
    <3> QED BY <1>1, <1>2, <1>4, <3>1 DEF CandidatesSound
  <2>2. CASE Recurs(resolving[e])
    <3>1. candidates' = Append(candidates, c) /\ failureRow[resolving[e]].count >= Threshold
      BY <1>5, <2>2 DEF PromoteRepair, Recurs
    <3>2. Len(candidates) \in Nat
      BY <1>2 DEF CandidatesSound
    <3>3. /\ Len(candidates') = Len(candidates) + 1 /\ candidates'[Len(candidates) + 1] = c
          /\ \A i \in 1..Len(candidates) : candidates'[i] = candidates[i]
      BY <3>1, <3>2
    <3> QED BY <1>1, <1>2, <1>3, <1>4, <1>6, <3>1, <3>2, <3>3 DEF CandidatesSound
  <2> QED BY <2>1, <2>2
<1>8. DOMAIN unresolved' = Execs
  BY <1>1, <1>2 DEF OfExecs
<1> QED BY <1>1, <1>4, <1>7, <1>8, OnlyRecords

LEMMA ClientBeginsKeeps == ASSUME ExecutionInv, NEW c \in Endpoints, ClientBegins(c) PROVE ExecutionInv'
<1>0. /\ c \in Actors /\ c \notin Execs /\ UNCHANGED <<tree, phase, state, failureVars>> /\ OfExecs' /\ PatchTyped
      /\ \A b \in Execs : SameExec(b, {})
  BY HandsOf, ExecutionAssumption, SameOthers DEF ClientBegins, ExecutionInv, OfExecs, failureVars
<1>1. ASSUME NEW edits \in Edits, Preview(c, edits), UNCHANGED hand PROVE ExecutionInv'
  <2>1. PatchTyped' /\ RowsKept /\ \A p \in Number : patchRow'[p] = patchRow[p]
    BY <1>0, <1>1, PreviewTyped
  <2>2. \A b \in Execs : ExecSound(b)'
    BY <1>0, <1>1, <2>1, PreviewAside
  <2>3. CandidatesSound'
    BY <1>0, <2>1, CandidatesStay DEF ExecutionInv
  <2> QED BY <1>0, <2>1, <2>2, <2>3 DEF ExecutionInv
<1>2. ASSUME NEW p \in Number, BeginApply(c, p) \/ BeginRollback(c, p) PROVE ExecutionInv'
  <2>1. patchRow[p] \in Rows /\ patchRow[p].edits \subseteq File /\ p \in Nat
    <3>1. patchRow[p] \in Rows
      BY <1>0 DEF PatchTyped, Number
    <3> QED BY <3>1 DEF Number, Rows
  <2>2. CASE BeginApply(c, p)
    <3>1. PICK h : h = [op |-> "apply", of |-> p, todo |-> patchRow[p].edits]
      OBVIOUS
    <3>2. h \in HandValues /\ h.op = "apply" /\ h.of = p /\ h.todo = patchRow[p].edits
      BY <2>1, <3>1 DEF HandValues
    <3>3. hand' = [hand EXCEPT ![c] = h] /\ UNCHANGED <<tree, patchRow>>
      BY <1>0, <2>2, <3>1 DEF BeginApply, Takes
    <3> QED BY <1>0, <1>2, <3>2, <3>3, HandStep
  <2>3. CASE BeginRollback(c, p)
    <3>1. PICK h : h = [op |-> "rollback", of |-> p, todo |-> ToRestore(p)]
      OBVIOUS
    <3>2. h \in HandValues /\ h.op = "rollback" /\ h.of = p /\ h.todo \subseteq patchRow[p].edits
      BY <2>1, <3>1 DEF HandValues, ToRestore
    <3>3. hand' = [hand EXCEPT ![c] = h] /\ UNCHANGED <<tree, patchRow>>
      BY <1>0, <2>3, <3>1 DEF BeginRollback, Takes
    <3> QED BY <1>0, <1>2, <3>2, <3>3, HandStep
  <2> QED BY <1>2, <2>2, <2>3
<1> QED BY <1>1, <1>2 DEF ClientBegins

LEMMA ClientGoesOnKeeps == ASSUME ExecutionInv, NEW c \in Endpoints, ClientGoesOn(c) PROVE ExecutionInv'
<1>0. PICK D : D = {f \in File : tree'[f] # tree[f]}
  OBVIOUS
<1>1. /\ c \in Actors /\ c \notin Execs /\ UNCHANGED <<phase, failureVars>> /\ PatchTyped
      /\ OfExecs' /\ \A b \in Execs : SameExec(b, D)
  BY <1>0, HandsOf, ExecutionAssumption, NotesSame DEF ClientGoesOn, ExecutionInv, OfExecs, failureVars
<1>2. ASSUME WriteFile(c) PROVE ExecutionInv'
  <2>1. PatchTyped' /\ UNCHANGED patchRow
    BY <1>1, <1>2, WritesTyped
  <2>2. \A b \in Execs : ExecSound(b)'
    BY <1>0, <1>1, <1>2, WriteAside
  <2>3. CandidatesSound'
    BY <1>1, <2>1, CandidatesStay, RowsStay DEF ExecutionInv
  <2> QED BY <1>1, <2>1, <2>2, <2>3 DEF ExecutionInv
<1>3. ASSUME RecordPatch(c) PROVE ExecutionInv'
  <2>1. PatchTyped' /\ RowsKept /\ UNCHANGED tree
    BY <1>1, <1>3, PatchRecorded
  <2>2. D = {}
    BY <1>0, <2>1
  <2>3. \A b \in Execs : ExecSound(b)'
    BY <1>1, <1>3, <2>2, RecordAside
  <2>4. CandidatesSound'
    BY <1>1, <2>1, CandidatesStay DEF ExecutionInv
  <2> QED BY <1>1, <2>1, <2>3, <2>4 DEF ExecutionInv
<1>4. ASSUME WriteRaises(c) \/ LeaveApply(c) PROVE ExecutionInv'
  <2>1. UNCHANGED <<tree, patchRow>>
    BY <1>1, <1>4, ThreadRaises
  <2>2. PICK h \in HandValues :
                 /\ hand' = [hand EXCEPT ![c] = h] /\ h.op # "apply"
                 /\ IF h.op # "none" THEN h.of \in Number /\ h.todo \subseteq patchRow[h.of].edits ELSE h.todo = {}
    BY <1>1, <1>4, ThreadRaises
  <2>3. D = {}
    BY <1>0, <2>1
  <2> QED BY <1>1, <2>1, <2>2, <2>3, HandStep
<1> QED BY <1>2, <1>3, <1>4 DEF ClientGoesOn

LEMMA DiesKeeps == ASSUME ExecutionInv, Dies PROVE ExecutionInv'
<1>0. PatchTyped /\ OfExecs
  BY DEF ExecutionInv
<1>1. /\ state' = [b \in Execs |-> Fresh(Nothing)] /\ hand' = [a \in Actors |-> Free]
      /\ phase' = [b \in Execs |-> IF Alive(b) THEN "dead" ELSE phase[b]] /\ UNCHANGED <<tree, patchRow, failureVars>>
  BY DEF Dies
<1>2. Free \in HandValues /\ Free.op = "none" /\ Free.todo = {}
  BY DEF Free, HandValues
<1>3. hand' \in [Actors -> HandValues] /\ \A a \in Actors : hand'[a] = Free
  BY <1>1, <1>2
<1>4. PatchTyped'
  BY <1>0, <1>1, <1>2, <1>3 DEF PatchTyped, Number, Busy
<1>5. ASSUME NEW b \in Execs PROVE ExecSound(b)'
  <2>1. state'[b] = Fresh(Nothing) /\ hand'[b].op = "none"
    BY <1>1, <1>2, <1>3, HandsOf
  <2>2. phase'[b] \notin Going
    BY <1>1 DEF Alive, Going, Ended
  <2> QED BY <2>1, <2>2, OverIsSound
<1>6. CandidatesSound' /\ OfExecs'
  BY <1>0, <1>1, CandidatesStay, RowsStay DEF ExecutionInv, OfExecs, failureVars
<1> QED BY <1>4, <1>5, <1>6 DEF ExecutionInv

LEMMA ExecutesKeeps == ASSUME ExecutionInv, NEW e \in Execs, Executes(e) PROVE ExecutionInv'
BY StartAttemptKeeps, ProposeKeeps, StageEditKeeps, EditEndsKeeps, LateWriteKeeps, JudgeKeeps, SummarizeKeeps, TaskFailsKeeps,
   PoolReturnedKeeps, ApplyAcceptedKeeps, LeavePreviewKeeps, WithdrawKeeps, ExecutionWritesKeeps, ExecutionRecordsKeeps,
   ExecutionRaisesKeeps, IndexRaisesKeeps, LinkKeeps, PromoteRepairKeeps, AnswerKeeps DEF Executes

LEMMA ExecutionStutters == ASSUME ExecutionInv, UNCHANGED executionVars PROVE ExecutionInv'
<1>1. UNCHANGED <<patchVars, phase, state, tree, patchRow, hand, unresolved, resolving, failureRow, candidates>>
  BY DEF executionVars, patchVars, failureVars
<1>2. CandidatesSound' /\ DOMAIN unresolved' = Execs /\ DOMAIN resolving' = Execs
  BY <1>1 DEF ExecutionInv, CandidatesSound, OfExecs, Number
<1> QED BY <1>1, <1>2, OnlyRecords

(* What was judged, tested and earned follows.                                     *)
LEMMA ExecutionMeans == ExecutionInv => AppliedAsJudged
<1> SUFFICES ASSUME ExecutionInv PROVE AppliedAsJudged
  OBVIOUS
<1>1. ASSUME NEW e \in Execs, hand[e].op = "apply", NEW t \in Judges
      PROVE  state[e].evidence[t] /\ state[e].about[t] = hand[e].of
  <2>1. ExecSound(e)
    BY DEF ExecutionInv
  <2>2. phase[e] = "apply" /\ hand[e].of = state[e].proposal
    BY <1>1, <2>1 DEF ExecSound, HandSound, Busy
  <2>3. state[e].done = Tasks /\ state[e].evidence["verify"] /\ phase[e] \in Going
    BY <2>2, Applies
  <2>4. t \in state[e].done /\ "verify" \in state[e].done
    BY <2>3, NeedsOf
  <2> QED BY <2>1, <2>2, <2>3, <2>4 DEF ExecSound, DoneSound
<1>2. ASSUME NEW e \in Execs, phase[e] = "applied", NEW f \in File \ state[e].others
      PROVE  tree[f] = state[e].tested[f] \/ Leftover(e, f)
  <2>1. /\ ExecSound(e) /\ phase[e] \in Going /\ state[e].done = Tasks /\ state[e].proposal # 0 /\ EditsOf(e) \subseteq File
    BY <1>2, Applies
  <2>2. hand[e].op = "none" /\ "test" \in state[e].done
    BY <1>2, <2>1, NeedsOf DEF ExecSound, HandSound, Judges
  <2>3. CASE f \in EditsOf(e)
    <3>1. tree[f] = state[e].proposal
      BY <1>2, <2>1, <2>2, <2>3 DEF ExecSound, WrittenSound, Has
    <3>2. Own(e, state[e].tested[f])
      BY <2>1, <2>2, <2>3 DEF ExecSound, TestSound
    <3> QED BY <3>1, <3>2 DEF Own, Leftover
  <2>4. CASE f \notin EditsOf(e)
    <3>1. state[e].tested[f] # state[e].proposal /\ Kept(e, f, state[e].tested[f])
      BY <2>1, <2>2, <2>4 DEF ExecSound, TestSound
    <3> QED BY <1>2, <3>1 DEF Kept, Own, Leftover
  <2> QED BY <2>3, <2>4
<1>3. CandidateEarned
  BY DEF ExecutionInv, CandidatesSound, CandidateEarned
<1> QED BY <1>1, <1>2, <1>3 DEF AppliedAsJudged, JudgedBeforeApplied, TestedIsApplied

(* The invariant of agent runs beside each other and beside the patch endpoints:   *)
(* nothing is applied that the judges did not accept, what was tested is applied,  *)
(* and only a recurring failure with an applied patch becomes a candidate.         *)
THEOREM AppliedIsJudged == ExecutionSpec => []AppliedAsJudged
<1>1. ExecutionInit => ExecutionInv
  BY ExecutionInitial
<1>2. ExecutionInv /\ [ExecutionNext]_executionVars => ExecutionInv'
  <2> SUFFICES ASSUME ExecutionInv, [ExecutionNext]_executionVars PROVE ExecutionInv'
    OBVIOUS
  <2>1. ASSUME NEW e \in Execs, Executes(e) PROVE ExecutionInv'
    BY <2>1, ExecutesKeeps
  <2>2. ASSUME NEW c \in Endpoints, ClientBegins(c) \/ ClientGoesOn(c) PROVE ExecutionInv'
    BY <2>2, ClientBeginsKeeps, ClientGoesOnKeeps
  <2>3. CASE Dies
    BY <2>3, DiesKeeps
  <2>4. CASE UNCHANGED executionVars
    BY <2>4, ExecutionStutters
  <2> QED BY <2>1, <2>2, <2>3, <2>4 DEF ExecutionNext
<1>3. ExecutionInv => AppliedAsJudged
  BY ExecutionMeans
<1> QED BY <1>1, <1>2, <1>3, PTL DEF ExecutionSpec

------------------------------------------------------------------------------
(* What a job runs.                                                          *)

(* A spec is the product of what its profile and its overrides say.               *)
GoodSpec(s) ==
    /\ s.profile \in Profiles
    /\ s.values \in [Numbers -> Nat]
    /\ s.globalBatch = GlobalBatch(s.values, DataParallel(Profile[s.profile], s.values.nodes))
    /\ s.target = TokensOf(s.values, s.globalBatch)
    /\ s.target >= 1

JobSound(k) ==
    /\ DOMAIN jobRows[k] = {"id", "status", "spec"}
    /\ jobRows[k].status = "none" => jobRows[k] = NoJob
    /\ jobRows[k].status # "none" => GoodSpec(jobRows[k].spec) /\ jobRows[k].spec.profile \in profileRows
    /\ jobRows[k].status \notin {"none", "validating"} => jobRows[k].id \in specFiles
(* What a caller has read and written at each of its places.                       *)
AdmissionSound(a) ==
    LET me == admission[a] IN
    /\ DOMAIN me = {"pc", "gateway", "key", "spec"}
    /\ me.pc # "idle" => me.gateway \in Gateways /\ me.key \in JobKeys /\ GoodSpec(me.spec)
    /\ me.pc = "sync" => me.spec.profile \in Registry[deployed[me.gateway]]
    /\ me.pc = "insert" => me.spec.profile \in profileRows
    /\ me.pc \in {"store", "queue"} => jobRows[me.key].status # "none" /\ jobRows[me.key].spec = me.spec
    /\ me.pc = "queue" => jobRows[me.key].id \in specFiles
AnswersSound ==
    \A it \in answers : it.key \in JobKeys /\ jobRows[it.key].status # "none" /\ jobRows[it.key].spec = it.spec
RegistriesSound ==
    /\ \A g \in Gateways : deployed[g] \in Files /\ RegistryLoads(deployed[g])
    /\ profileRows \subseteq Profiles
    /\ \A p, q \in profileRows : SameVersion(p, q) => p = q
SpecInv ==
    /\ DOMAIN deployed = Gateways /\ DOMAIN jobRows = JobKeys /\ DOMAIN admission = Admissions
    /\ RegistriesSound /\ AnswersSound /\ TrainsAsSpecified
    /\ \A k \in JobKeys : JobSound(k)
    /\ \A a \in Admissions : AdmissionSound(a)

LEMMA SpecsInitial == SpecsInit => SpecInv
BY DEF SpecsInit, SpecInv, RegistriesSound, AnswersSound, TrainsAsSpecified, JobSound, AdmissionSound, NoJob, NoAdmission

(* Rows are only added, and a job keeps its spec.                                   *)
RowsGoOn ==
    /\ profileRows \subseteq profileRows' /\ specFiles \subseteq specFiles'
    /\ \A k \in JobKeys : jobRows[k].status # "none" =>
          /\ jobRows'[k].status # "none" /\ jobRows'[k].spec = jobRows[k].spec /\ jobRows'[k].id = jobRows[k].id
LEMMA StandsBy ==
    ASSUME NEW a \in Admissions, AdmissionSound(a), RowsGoOn, admission'[a] = admission[a],
           admission[a].pc = "sync" => deployed'[admission[a].gateway] = deployed[admission[a].gateway]
    PROVE  AdmissionSound(a)'
BY DEF AdmissionSound, RowsGoOn, GoodSpec
LEMMA AnswersStand == ASSUME AnswersSound, RowsGoOn, UNCHANGED answers PROVE AnswersSound'
BY DEF AnswersSound, RowsGoOn

LEMMA IdleIsSound == ASSUME NEW a, admission'[a] = NoAdmission PROVE AdmissionSound(a)'
BY DEF AdmissionSound, NoAdmission

(* One caller goes to new.                                                          *)
LEMMA AdmissionStep ==
    ASSUME SpecInv, NEW a \in Admissions, NEW new, Admit(a, new), UNCHANGED <<deployed, launched>>, RowsGoOn,
           DOMAIN jobRows' = JobKeys, RegistriesSound', AnswersSound', \A k \in JobKeys : JobSound(k)',
           admission'[a] = new => AdmissionSound(a)'
    PROVE  SpecInv'
<1>1. DOMAIN admission' = Admissions /\ admission'[a] = new /\ \A b \in Admissions \ {a} : admission'[b] = admission[b]
  BY DEF SpecInv, Admit
<1>2. ASSUME NEW b \in Admissions \ {a} PROVE AdmissionSound(b)'
  BY <1>1, StandsBy DEF SpecInv
<1>3. DOMAIN deployed' = Gateways /\ TrainsAsSpecified'
  BY DEF SpecInv, TrainsAsSpecified
<1> QED BY <1>1, <1>2, <1>3 DEF SpecInv

LEMMA RowsStayOn == UNCHANGED <<profileRows, specFiles, jobRows>> => RowsGoOn
BY DEF RowsGoOn
LEMMA JobsStand ==
    ASSUME SpecInv, UNCHANGED jobRows, profileRows \subseteq profileRows', specFiles \subseteq specFiles'
    PROVE  DOMAIN jobRows' = JobKeys /\ \A k \in JobKeys : JobSound(k)'
BY DEF SpecInv, JobSound, GoodSpec
LEMMA RegistriesStand == ASSUME SpecInv, UNCHANGED <<deployed, profileRows>> PROVE RegistriesSound'
BY DEF SpecInv, RegistriesSound

LEMMA SpecOfIsGood ==
    ASSUME NEW name \in Profiles, NEW overrides, Bounded(Profile[name], overrides), NEW spec, spec = SpecOf(name, overrides),
           spec.target >= 1
    PROVE  GoodSpec(spec) /\ spec.profile = name
<1>1. PICK p : p = Profile[name]
  OBVIOUS
<1>2. PICK v : v = [n \in Numbers |-> IF n \in DOMAIN overrides THEN overrides[n] ELSE p[n]]
  OBVIOUS
<1>3. v \in [Numbers -> Nat]
  <2>1. ASSUME NEW n \in Numbers PROVE v[n] \in Nat
    BY <1>1, <1>2, SpecAssumption DEF Bounded
  <2>2. DOMAIN v = Numbers /\ v = [n \in Numbers |-> v[n]]
    BY <1>2
  <2> QED BY <2>1, <2>2
<1>4. PICK batch : batch = GlobalBatch(v, DataParallel(p, v.nodes))
  OBVIOUS
<1>5. spec = [profile |-> name, values |-> v, globalBatch |-> batch, target |-> TokensOf(v, batch)]
  BY <1>1, <1>2, <1>4 DEF SpecOf
<1>6. spec.profile = name /\ spec.values = v /\ spec.globalBatch = batch /\ spec.target = TokensOf(v, batch)
  BY <1>5
<1> QED BY <1>1, <1>3, <1>4, <1>6 DEF GoodSpec

LEMMA ResolvedIsGood ==
    ASSUME NEW file \in Files, NEW posted \in JobRequests, NEW spec \in Resolved[file][posted]
    PROVE  GoodSpec(spec) /\ spec.profile \in Registry[file]
<1>1. PICK p \in Latest(file, posted.profile) :
         Bounded(Profile[p], posted.overrides) /\ spec = SpecOf(p, posted.overrides) /\ spec.target >= 1
  BY DEF Resolved
<1>2. p \in Registry[file]
  BY DEF Latest
<1>3. p \in Profiles
  BY <1>2, SpecAssumption
<1> QED BY <1>1, <1>2, <1>3, SpecOfIsGood

LEMMA CreateBeginsKeeps ==
    ASSUME SpecInv, NEW a \in Admissions, NEW g \in Gateways, NEW k \in JobKeys, NEW posted \in JobRequests, CreateBegins(a, g, k, posted)
    PROVE  SpecInv'
<1>1. PICK spec \in Resolved[deployed[g]][posted] :
          IF jobRows[k] = NoJob THEN Admit(a, [pc |-> "sync", gateway |-> g, key |-> k, spec |-> spec]) /\ UNCHANGED answers
          ELSE SameSpec(jobRows[k], spec) /\ AnswerWith(a, [pc |-> "sync", gateway |-> g, key |-> k, spec |-> spec])
  BY DEF CreateBegins
<1>2. UNCHANGED <<deployed, launched, profileRows, jobRows, specFiles>>
  BY DEF CreateBegins, Outside
<1>3. GoodSpec(spec) /\ spec.profile \in Registry[deployed[g]]
  BY ResolvedIsGood DEF SpecInv, RegistriesSound
<1>4. PICK me : me = [pc |-> "sync", gateway |-> g, key |-> k, spec |-> spec]
  OBVIOUS
<1>5. DOMAIN me = {"pc", "gateway", "key", "spec"} /\ me.pc = "sync" /\ me.gateway = g /\ me.key = k /\ me.spec = spec
  BY <1>4
<1>6. RowsGoOn /\ RegistriesSound' /\ DOMAIN jobRows' = JobKeys /\ \A j \in JobKeys : JobSound(j)'
  BY <1>2, RowsStayOn, JobsStand, RegistriesStand
<1>7. ASSUME jobRows[k] = NoJob PROVE SpecInv'
  <2>1. Admit(a, me) /\ AnswersSound'
    BY <1>1, <1>4, <1>6, <1>7, AnswersStand DEF SpecInv
  <2>2. admission'[a] = me => AdmissionSound(a)'
    BY <1>2, <1>3, <1>5 DEF AdmissionSound, GoodSpec
  <2> QED BY <1>2, <1>6, <2>1, <2>2, AdmissionStep
<1>8. ASSUME jobRows[k] # NoJob PROVE SpecInv'
  <2>1. SameSpec(jobRows[k], spec) /\ AnswerWith(a, me) /\ jobRows[k].status # "none"
    BY <1>1, <1>4, <1>8 DEF SpecInv, JobSound
  <2>2. AnswersSound'
    BY <1>2, <1>5, <2>1 DEF SpecInv, AnswersSound, AnswerWith, SameSpec
  <2>3. Admit(a, NoAdmission)
    BY <2>1 DEF AnswerWith, AdmissionEnds
  <2> QED BY <1>2, <1>6, <2>2, <2>3, AdmissionStep, IdleIsSound
<1> QED BY <1>7, <1>8

LEMMA SyncProfilesKeeps == ASSUME SpecInv, NEW a \in Admissions, SyncProfiles(a) PROVE SpecInv'
<1>1. PICK file : file = deployed[admission[a].gateway]
  OBVIOUS
<1>2. /\ admission[a].pc = "sync" /\ admission[a].gateway \in Gateways /\ AdmissionSound(a)
      /\ admission[a].spec.profile \in Registry[file] /\ file \in Files /\ RegistryLoads(file)
      /\ DOMAIN admission[a] = {"pc", "gateway", "key", "spec"}
  BY <1>1 DEF SpecInv, SyncProfiles, AtAdmission, AdmissionSound, RegistriesSound
<1>3. UNCHANGED <<deployed, launched, jobRows, specFiles, answers>>
  BY DEF SyncProfiles, Outside
<1>4. ASSUME Unchanged(profileRows, file) PROVE SpecInv'
  <2>1. profileRows' = profileRows \union {p \in Registry[file] : ~\E q \in profileRows : SameVersion(p, q)}
    BY <1>1, <1>4 DEF SyncProfiles
  <2>2. PICK me : me = [admission[a] EXCEPT !.pc = "insert"]
    OBVIOUS
  <2>3. /\ DOMAIN me = {"pc", "gateway", "key", "spec"} /\ me.pc = "insert" /\ me.gateway = admission[a].gateway
        /\ me.key = admission[a].key /\ me.spec = admission[a].spec
    BY <1>2, <2>2
  <2>4. Admit(a, me)
    BY <1>1, <1>4, <2>2 DEF SyncProfiles
  <2>5. RegistriesSound'
    <3>1. profileRows' \subseteq Profiles
      BY <1>2, <2>1, SpecAssumption DEF SpecInv, RegistriesSound
    <3>2. ASSUME NEW p \in profileRows', NEW q \in profileRows', SameVersion(p, q) PROVE p = q
      BY <1>2, <1>4, <2>1, <3>2 DEF SpecInv, RegistriesSound, Unchanged, RegistryLoads, SameVersion
    <3> QED BY <1>3, <3>1, <3>2 DEF SpecInv, RegistriesSound, RegistryLoads
  <2>6. admission[a].spec.profile \in profileRows'
    BY <1>2, <1>4, <2>1 DEF Unchanged
  <2>7. RowsGoOn /\ DOMAIN jobRows' = JobKeys /\ (\A j \in JobKeys : JobSound(j)') /\ AnswersSound'
    BY <1>3, <2>1, JobsStand, AnswersStand DEF RowsGoOn, SpecInv
  <2>8. admission'[a] = me => AdmissionSound(a)'
    BY <1>2, <2>3, <2>6 DEF AdmissionSound, GoodSpec
  <2> QED BY <1>3, <2>4, <2>5, <2>7, <2>8, AdmissionStep
<1>5. ASSUME ~Unchanged(profileRows, file) PROVE SpecInv'
  <2>1. Admit(a, NoAdmission) /\ UNCHANGED profileRows
    BY <1>1, <1>5 DEF SyncProfiles, AdmissionEnds
  <2>2. RowsGoOn /\ RegistriesSound' /\ DOMAIN jobRows' = JobKeys /\ (\A j \in JobKeys : JobSound(j)') /\ AnswersSound'
    BY <1>3, <2>1, RowsStayOn, JobsStand, RegistriesStand, AnswersStand DEF SpecInv
  <2> QED BY <1>3, <2>1, <2>2, AdmissionStep, IdleIsSound
<1> QED BY <1>4, <1>5
LEMMA CreateInsertsKeeps == ASSUME SpecInv, NEW a \in Admissions, CreateInserts(a) PROVE SpecInv'
<1>1. PICK me : me = admission[a]
  OBVIOUS
<1>2. PICK k : k = me.key
  OBVIOUS
<1>3. PICK fresh : fresh = [id |-> NextId, status |-> "validating", spec |-> me.spec]
  OBVIOUS
<1>4. PICK row : row = IF jobRows[k] = NoJob THEN fresh ELSE jobRows[k]
  OBVIOUS
<1>5. /\ me.pc = "insert" /\ AdmissionSound(a) /\ DOMAIN me = {"pc", "gateway", "key", "spec"}
      /\ me.gateway \in Gateways /\ k \in JobKeys /\ GoodSpec(me.spec) /\ me.spec.profile \in profileRows
  BY <1>1, <1>2 DEF SpecInv, CreateInserts, AtAdmission, AdmissionSound
<1>6. /\ jobRows' = [jobRows EXCEPT ![k] = row] /\ UNCHANGED <<deployed, launched, profileRows, specFiles, answers>>
      /\ IF SameSpec(row, me.spec)
         THEN Admit(a, [me EXCEPT !.pc = IF jobRows[k] = NoJob THEN "store" ELSE "stray"])
         ELSE AdmissionEnds(a)
  BY <1>1, <1>2, <1>3, <1>4 DEF CreateInserts, Outside
<1>7. DOMAIN jobRows' = JobKeys /\ jobRows'[k] = row /\ \A j \in JobKeys \ {k} : jobRows'[j] = jobRows[j]
  BY <1>5, <1>6 DEF SpecInv
<1>8. /\ DOMAIN fresh = {"id", "status", "spec"} /\ fresh.status = "validating" /\ fresh.spec = me.spec
  BY <1>3
<1>9. JobSound(k) /\ (jobRows[k] = NoJob <=> jobRows[k].status = "none")
  BY <1>5 DEF SpecInv, JobSound, NoJob
<1>10. RowsGoOn
  BY <1>4, <1>6, <1>7, <1>9 DEF RowsGoOn
<1>11. ASSUME NEW j \in JobKeys PROVE JobSound(j)'
  <2>1. CASE j = k
    BY <1>4, <1>5, <1>6, <1>7, <1>8, <1>9, <2>1 DEF JobSound, GoodSpec
  <2>2. CASE j # k
    BY <1>6, <1>7, <2>2 DEF SpecInv, JobSound, GoodSpec
  <2> QED BY <2>1, <2>2
<1>12. RegistriesSound' /\ AnswersSound'
  BY <1>6, <1>10, RegistriesStand, AnswersStand DEF SpecInv
<1>13. ASSUME SameSpec(row, me.spec) PROVE SpecInv'
  <2>1. PICK new : new = [me EXCEPT !.pc = IF jobRows[k] = NoJob THEN "store" ELSE "stray"]
    OBVIOUS
  <2>2. /\ DOMAIN new = {"pc", "gateway", "key", "spec"} /\ new.pc = IF jobRows[k] = NoJob THEN "store" ELSE "stray"
        /\ new.gateway = me.gateway /\ new.key = k /\ new.spec = me.spec
    BY <1>2, <1>5, <2>1
  <2>3. Admit(a, new)
    BY <1>6, <1>13, <2>1
  <2>4. admission'[a] = new => AdmissionSound(a)'
    BY <1>4, <1>5, <1>7, <1>8, <2>2 DEF AdmissionSound, GoodSpec
  <2> QED BY <1>6, <1>7, <1>10, <1>11, <1>12, <2>3, <2>4, AdmissionStep
<1>14. ASSUME ~SameSpec(row, me.spec) PROVE SpecInv'
  <2>1. Admit(a, NoAdmission)
    BY <1>6, <1>14 DEF AdmissionEnds
  <2> QED BY <1>6, <1>7, <1>10, <1>11, <1>12, <2>1, AdmissionStep, IdleIsSound
<1> QED BY <1>13, <1>14

LEMMA StoresSpecKeeps == ASSUME SpecInv, NEW a \in Admissions, StoresSpec(a) PROVE SpecInv'
<1>1. PICK me : me = admission[a]
  OBVIOUS
<1>2. PICK new : new = [me EXCEPT !.pc = "queue"]
  OBVIOUS
<1>3. /\ me.pc = "store" /\ AdmissionSound(a) /\ DOMAIN me = {"pc", "gateway", "key", "spec"}
      /\ me.gateway \in Gateways /\ me.key \in JobKeys /\ GoodSpec(me.spec)
      /\ jobRows[me.key].status # "none" /\ jobRows[me.key].spec = me.spec
  BY <1>1 DEF SpecInv, StoresSpec, AtAdmission, AdmissionSound
<1>4. /\ specFiles' = specFiles \union {jobRows[me.key].id} /\ Admit(a, new)
      /\ UNCHANGED <<deployed, launched, profileRows, jobRows, answers>>
  BY <1>1, <1>2 DEF StoresSpec, Outside
<1>5. /\ DOMAIN new = {"pc", "gateway", "key", "spec"} /\ new.pc = "queue" /\ new.gateway = me.gateway /\ new.key = me.key /\ new.spec = me.spec
  BY <1>2, <1>3
<1>6. RowsGoOn /\ RegistriesSound' /\ AnswersSound' /\ DOMAIN jobRows' = JobKeys /\ \A k \in JobKeys : JobSound(k)'
  BY <1>4, JobsStand, RegistriesStand, AnswersStand DEF SpecInv, RowsGoOn
<1>7. admission'[a] = new => AdmissionSound(a)'
  BY <1>3, <1>4, <1>5 DEF AdmissionSound, GoodSpec
<1> QED BY <1>4, <1>6, <1>7, AdmissionStep

LEMMA StrayIsRefusedKeeps == ASSUME SpecInv, NEW a \in Admissions, StrayIsRefused(a) PROVE SpecInv'
<1>1. Admit(a, NoAdmission) /\ UNCHANGED <<deployed, launched, profileRows, jobRows, specFiles, answers>>
  BY DEF StrayIsRefused, Outside, AdmissionEnds
<1>2. RowsGoOn /\ RegistriesSound' /\ AnswersSound' /\ DOMAIN jobRows' = JobKeys /\ \A k \in JobKeys : JobSound(k)'
  BY <1>1, RowsStayOn, JobsStand, RegistriesStand, AnswersStand DEF SpecInv
<1> QED BY <1>1, <1>2, AdmissionStep, IdleIsSound

(* The status of a job that has its spec stored goes on.                            *)
LEMMA StatusGoesOn ==
    ASSUME SpecInv, NEW k \in JobKeys, jobRows[k].status # "none", jobRows[k].id \in specFiles,
           NEW s, s # "none", jobRows' = [jobRows EXCEPT ![k].status = s], UNCHANGED <<profileRows, specFiles>>
    PROVE  RowsGoOn /\ DOMAIN jobRows' = JobKeys /\ \A j \in JobKeys : JobSound(j)'
<1>1. PICK row : row = [jobRows[k] EXCEPT !.status = s]
  OBVIOUS
<1>2. JobSound(k) /\ DOMAIN jobRows[k] = {"id", "status", "spec"}
  BY DEF SpecInv, JobSound
<1>3. DOMAIN row = {"id", "status", "spec"} /\ row.status = s /\ row.id = jobRows[k].id /\ row.spec = jobRows[k].spec
  BY <1>1, <1>2
<1>4. jobRows' = [jobRows EXCEPT ![k] = row]
  BY <1>1
<1>5. DOMAIN jobRows' = JobKeys /\ jobRows'[k] = row /\ \A j \in JobKeys \ {k} : jobRows'[j] = jobRows[j]
  BY <1>4 DEF SpecInv
<1>6. RowsGoOn
  BY <1>3, <1>5 DEF RowsGoOn
<1>7. ASSUME NEW j \in JobKeys PROVE JobSound(j)'
  <2>1. CASE j = k
    BY <1>2, <1>3, <1>5, <2>1 DEF JobSound, GoodSpec
  <2>2. CASE j # k
    BY <1>5, <2>2 DEF SpecInv, JobSound, GoodSpec
  <2> QED BY <2>1, <2>2
<1> QED BY <1>5, <1>6, <1>7

LEMMA CreateQueuesKeeps == ASSUME SpecInv, NEW a \in Admissions, CreateQueues(a) PROVE SpecInv'
<1>1. PICK me : me = admission[a]
  OBVIOUS
<1>2. /\ me.pc = "queue" /\ me.key \in JobKeys /\ jobRows[me.key].status # "none" /\ jobRows[me.key].spec = me.spec
      /\ jobRows[me.key].id \in specFiles
  BY <1>1 DEF SpecInv, CreateQueues, AtAdmission, AdmissionSound
<1>3. UNCHANGED <<deployed, launched, profileRows, specFiles>>
  BY DEF CreateQueues, Outside
<1>4. ASSUME jobRows[me.key].status = "validating" PROVE SpecInv'
  <2>1. jobRows' = [jobRows EXCEPT ![me.key].status = "queued"] /\ AnswerWith(a, me)
    BY <1>1, <1>4 DEF CreateQueues
  <2>2. RowsGoOn /\ DOMAIN jobRows' = JobKeys /\ \A j \in JobKeys : JobSound(j)'
    BY <1>2, <1>3, <2>1, StatusGoesOn
  <2>3. AnswersSound'
    BY <1>2, <2>1, <2>2 DEF SpecInv, AnswersSound, AnswerWith, RowsGoOn
  <2>4. Admit(a, NoAdmission) /\ RegistriesSound'
    BY <1>3, <2>1, RegistriesStand DEF AnswerWith, AdmissionEnds
  <2> QED BY <1>3, <2>2, <2>3, <2>4, AdmissionStep, IdleIsSound
<1>5. ASSUME jobRows[me.key].status # "validating" PROVE SpecInv'
  <2>1. Admit(a, NoAdmission) /\ UNCHANGED <<jobRows, answers>>
    BY <1>1, <1>5 DEF CreateQueues, AdmissionEnds
  <2>2. RowsGoOn /\ RegistriesSound' /\ AnswersSound' /\ DOMAIN jobRows' = JobKeys /\ \A k \in JobKeys : JobSound(k)'
    BY <1>3, <2>1, RowsStayOn, JobsStand, RegistriesStand, AnswersStand DEF SpecInv
  <2> QED BY <1>3, <2>1, <2>2, AdmissionStep, IdleIsSound
<1> QED BY <1>4, <1>5

(* Products of counts.                                                              *)
LEMMA ProductsCancel == ASSUME NEW n \in Nat \ {0}, NEW x \in Int, NEW y \in Int, n * x = n * y PROVE x = y
OBVIOUS
LEMMA QuotientOf == ASSUME NEW n \in Nat \ {0}, NEW x \in Nat PROVE (n * x) \div n = x
OBVIOUS
LEMMA FactorAtMost == ASSUME NEW n \in Nat \ {0}, NEW x \in Nat PROVE x <= n * x
OBVIOUS
LEMMA ProductsGrow == ASSUME NEW n \in Nat, NEW x \in Nat, NEW y \in Nat, x <= y PROVE n * x <= n * y
OBVIOUS
LEMMA ProductsAreNat == ASSUME NEW n \in Nat, NEW x \in Nat PROVE n * x \in Nat
OBVIOUS

(* What a validated job trains on: with Megatron, the replicas that its topology    *)
(* leaves; otherwise, ranks that give the batch its tokens were computed with.      *)
LEMMA WorkloadIsAsSpecified ==
    ASSUME NEW spec, GoodSpec(spec), NEW row, row.spec = spec, NEW ready, Validates(spec, ready), Builds(spec),
           RunsMegatron(spec) \/ LoopAccepts(spec), NEW w, w = Workload(row)
    PROVE  /\ w.tokens = w.spec.target /\ GlobalBatch(w.spec.values, w.ranks) = w.spec.globalBatch
           /\ w.ranks <= w.spec.values.nodes * AtLeastOne(Profile[w.spec.profile].gpus)
<1>1. PICK p : p = Profile[spec.profile]
  OBVIOUS
<1>2. PICK v : v = spec.values
  OBVIOUS
<1>3. /\ p.gpus \in Nat /\ p.parallel \in Nat \ {0} /\ p.replicas \in Nat \ {0}
      /\ p.scheduler \in {"notebook", "kubernetes", "kubernetes_pytorch", "slurm"}
  BY <1>1, SpecAssumption DEF GoodSpec
<1>4. /\ v.nodes \in Nat /\ v.steps \in Nat /\ v.sequence \in Nat /\ v.batch \in Nat /\ v.accumulation \in Nat
      /\ spec.globalBatch = v.batch * v.accumulation * DataParallel(p, v.nodes)
      /\ spec.target = v.steps * v.sequence * spec.globalBatch /\ spec.target >= 1
  BY <1>1, <1>2 DEF GoodSpec, Numbers, GlobalBatch, TokensOf
<1>5. PICK gpus : gpus = AtLeastOne(p.gpus)
  OBVIOUS
<1>6. gpus \in Nat /\ gpus >= 1 /\ gpus >= p.gpus
  BY <1>3, <1>5 DEF AtLeastOne
<1>7. v.nodes >= 1
  BY <1>1, <1>2, <1>3, <1>4 DEF Validates, NodesFit
<1>8. v.nodes * p.gpus \in Nat /\ v.nodes * p.gpus <= v.nodes * gpus /\ 1 <= v.nodes * gpus
  <2>1. v.nodes * p.gpus \in Nat /\ v.nodes * p.gpus <= v.nodes * gpus
    BY <1>3, <1>4, <1>6, ProductsGrow, ProductsAreNat
  <2>2. v.nodes * 1 <= v.nodes * gpus
    BY <1>4, <1>6, ProductsGrow
  <2>3. v.nodes * gpus \in Nat
    BY <1>4, <1>6, ProductsAreNat
  <2> QED BY <1>4, <1>7, <2>1, <2>2, <2>3
<1>9. PICK ranks : ranks = IF RunsMegatron(spec) THEN Processes(spec) \div p.parallel ELSE LoopRanks(spec)
  OBVIOUS
<1>10. PICK tokens : tokens = IF RunsMegatron(spec) THEN TokensOf(v, spec.globalBatch) ELSE TokensOf(v, GlobalBatch(v, ranks))
  OBVIOUS
<1>11. w.spec = spec /\ w.ranks = ranks /\ w.tokens = tokens
  <2>1. w = [id |-> row.id, spec |-> spec, ranks |-> ranks, tokens |-> tokens]
    BY <1>1, <1>2, <1>9, <1>10 DEF Workload
  <2> QED BY <2>1
<1>12. p.scheduler # "kubernetes" => Processes(spec) = v.nodes * p.gpus
  BY <1>1, <1>2 DEF Processes, DistributedManifest
<1>13. CASE RunsMegatron(spec)
  <2>1. p.scheduler = "slurm" /\ p.strategy = "megatron" /\ p.parallel * p.replicas = v.nodes * p.gpus
    BY <1>1, <1>2, <1>13 DEF RunsMegatron, Builds, TopologyFits
  <2>2. ranks = p.replicas
    BY <1>3, <1>9, <1>12, <1>13, <2>1, QuotientOf
  <2>3. ranks <= v.nodes * gpus
    <3>1. p.replicas <= p.parallel * p.replicas /\ v.nodes * gpus \in Nat
      BY <1>3, <1>4, <1>6, FactorAtMost, ProductsAreNat
    <3> QED BY <1>3, <1>8, <2>1, <2>2, <3>1
  <2>4. DataParallel(p, v.nodes) = p.replicas
    BY <2>1 DEF DataParallel
  <2>5. tokens = spec.target /\ GlobalBatch(v, ranks) = spec.globalBatch
    BY <1>4, <1>10, <1>13, <2>2, <2>4 DEF GlobalBatch, TokensOf
  <2> QED BY <1>1, <1>2, <1>5, <1>11, <2>3, <2>5
<1>14. CASE ~RunsMegatron(spec)
  <2>1. LoopAccepts(spec) /\ ranks = LoopRanks(spec) /\ tokens = TokensOf(v, GlobalBatch(v, ranks))
    BY <1>9, <1>10, <1>14
  <2>2. spec.target = tokens
    BY <1>2, <2>1 DEF LoopAccepts
  <2>3. ranks \in Nat /\ ranks <= v.nodes * gpus
    <3>1. Processes(spec) = 1 \/ Processes(spec) = v.nodes * p.gpus
      <4>1. p.scheduler = "kubernetes" => Processes(spec) = 1
        BY <1>1 DEF Processes, JobManifest
      <4> QED BY <1>12, <4>1
    <3>2. ranks = 1 \/ ranks = v.nodes * p.gpus
      BY <2>1, <3>1 DEF LoopRanks
    <3> QED BY <1>8, <3>2
  <2>4. PICK unit : unit = v.steps * v.sequence
    OBVIOUS
  <2>5. PICK batch : batch = GlobalBatch(v, ranks)
    OBVIOUS
  <2>6. unit \in Nat /\ batch \in Nat /\ spec.globalBatch \in Nat
    <3>1. DataParallel(p, v.nodes) \in Nat
      BY <1>3, <1>4, <1>5, <1>6, ProductsAreNat DEF DataParallel
    <3>2. v.batch * v.accumulation \in Nat
      BY <1>4, ProductsAreNat
    <3> QED BY <1>4, <2>3, <2>4, <2>5, <3>1, <3>2, ProductsAreNat DEF GlobalBatch
  <2>7. unit * batch = unit * spec.globalBatch /\ unit * spec.globalBatch >= 1
    BY <1>4, <2>1, <2>2, <2>4, <2>5 DEF TokensOf
  <2>8. unit # 0
    BY <2>6, <2>7
  <2>9. batch = spec.globalBatch
    BY <2>6, <2>7, <2>8, ProductsCancel
  <2> QED BY <1>1, <1>2, <1>5, <1>11, <2>2, <2>3, <2>5, <2>9
<1> QED BY <1>13, <1>14

LEMMA LaunchJobKeeps == ASSUME SpecInv, NEW k \in JobKeys, NEW ready, LaunchJob(k, ready) PROVE SpecInv'
<1>1. PICK row : row = jobRows[k]
  OBVIOUS
<1>2. PICK begins \in BOOLEAN : begins <=> (RunsMegatron(row.spec) \/ LoopAccepts(row.spec))
  OBVIOUS
<1>3. row.status = "queued" /\ GoodSpec(row.spec) /\ row.id \in specFiles
  BY <1>1 DEF SpecInv, JobSound, LaunchJob
<1>4. UNCHANGED <<deployed, profileRows, specFiles, admission, answers>>
  BY DEF LaunchJob
<1>5. \E s : s # "none" /\ jobRows' = [jobRows EXCEPT ![k].status = s]
  <2>1. CASE Validates(row.spec, ready) /\ Builds(row.spec)
    <3>1. jobRows' = [jobRows EXCEPT ![k].status = IF begins THEN "running" ELSE "failed"]
      BY <1>1, <1>2, <2>1 DEF LaunchJob
    <3> QED BY <3>1
  <2>2. CASE ~(Validates(row.spec, ready) /\ Builds(row.spec))
    <3>1. jobRows' = [jobRows EXCEPT ![k].status = "blocked"]
      BY <1>1, <2>2 DEF LaunchJob
    <3> QED BY <3>1
  <2> QED BY <2>1, <2>2
<1>6. PICK s : s # "none" /\ jobRows' = [jobRows EXCEPT ![k].status = s]
  BY <1>5
<1>7. RowsGoOn /\ DOMAIN jobRows' = JobKeys /\ \A j \in JobKeys : JobSound(j)'
  BY <1>1, <1>3, <1>4, <1>6, StatusGoesOn
<1>8. RegistriesSound' /\ AnswersSound'
  BY <1>4, <1>7, RegistriesStand, AnswersStand DEF SpecInv
<1>9. \A a \in Admissions : AdmissionSound(a)'
  BY <1>4, <1>7, StandsBy DEF SpecInv
<1>10. TrainsAsSpecified'
  <2>1. CASE Validates(row.spec, ready) /\ Builds(row.spec) /\ begins
    <3>1. launched' = launched \union {Workload(row)}
      BY <1>1, <1>2, <2>1 DEF LaunchJob
    <3>2. PICK w : w = Workload(row)
      OBVIOUS
    <3>3. /\ w.tokens = w.spec.target /\ GlobalBatch(w.spec.values, w.ranks) = w.spec.globalBatch
          /\ w.ranks <= w.spec.values.nodes * AtLeastOne(Profile[w.spec.profile].gpus)
      BY <1>2, <1>3, <2>1, <3>2, WorkloadIsAsSpecified
    <3> QED BY <3>1, <3>2, <3>3 DEF SpecInv, TrainsAsSpecified
  <2>2. CASE ~(Validates(row.spec, ready) /\ Builds(row.spec) /\ begins)
    <3>1. launched' = launched
      BY <1>1, <1>2, <2>2 DEF LaunchJob
    <3> QED BY <3>1 DEF SpecInv, TrainsAsSpecified
  <2> QED BY <2>1, <2>2
<1> QED BY <1>4, <1>7, <1>8, <1>9, <1>10 DEF SpecInv

LEMMA DeployKeeps == ASSUME SpecInv, NEW g \in Gateways, NEW file \in Files, Deploy(g, file) PROVE SpecInv'
<1>1. /\ deployed' = [deployed EXCEPT ![g] = file] /\ RegistryLoads(file)
      /\ admission' = [a \in Admissions |-> IF admission[a].gateway = g THEN NoAdmission ELSE admission[a]]
      /\ UNCHANGED <<profileRows, jobRows, specFiles, answers, launched>>
  BY DEF Deploy
<1>2. RowsGoOn /\ AnswersSound' /\ DOMAIN jobRows' = JobKeys /\ \A k \in JobKeys : JobSound(k)'
  BY <1>1, RowsStayOn, JobsStand, AnswersStand DEF SpecInv
<1>3. RegistriesSound'
  BY <1>1 DEF SpecInv, RegistriesSound, RegistryLoads
<1>4. ASSUME NEW a \in Admissions PROVE AdmissionSound(a)'
  <2>1. CASE admission[a].gateway = g
    BY <1>1, <2>1, IdleIsSound
  <2>2. CASE admission[a].gateway # g
    <3>1. admission'[a] = admission[a]
      BY <1>1, <2>2
    <3>2. admission[a].pc = "sync" => deployed'[admission[a].gateway] = deployed[admission[a].gateway]
      BY <1>1, <2>2 DEF SpecInv, AdmissionSound
    <3> QED BY <1>2, <3>1, <3>2, StandsBy DEF SpecInv
  <2> QED BY <2>1, <2>2
<1>5. DOMAIN deployed' = Gateways /\ DOMAIN admission' = Admissions /\ TrainsAsSpecified'
  BY <1>1 DEF SpecInv, TrainsAsSpecified
<1> QED BY <1>2, <1>3, <1>4, <1>5 DEF SpecInv

LEMMA SpecsStutter == ASSUME SpecInv, UNCHANGED specVars PROVE SpecInv'
<1>1. UNCHANGED <<deployed, profileRows, jobRows, specFiles, admission, answers, launched>>
  BY DEF specVars
<1>2. RowsGoOn /\ RegistriesSound' /\ AnswersSound' /\ DOMAIN jobRows' = JobKeys /\ \A k \in JobKeys : JobSound(k)'
  BY <1>1, RowsStayOn, JobsStand, RegistriesStand, AnswersStand DEF SpecInv
<1>3. \A a \in Admissions : AdmissionSound(a)'
  BY <1>1, <1>2, StandsBy DEF SpecInv
<1> QED BY <1>1, <1>2, <1>3 DEF SpecInv, TrainsAsSpecified

(* The invariant of jobs from request to training, for any registries, any number   *)
(* of gateways that run different ones, and calls that race on a key: an answer is  *)
(* the caller's own spec, and what trains consumes what its spec promises.          *)
THEOREM AdmittedIsTrained == SpecsSpec => []AskedIsTrained
<1>1. SpecInv /\ [SpecsNext]_specVars => SpecInv'
  BY CreateBeginsKeeps, SyncProfilesKeeps, CreateInsertsKeeps, StoresSpecKeeps, StrayIsRefusedKeeps, CreateQueuesKeeps,
     LaunchJobKeeps, DeployKeeps, SpecsStutter DEF SpecsNext
<1>2. SpecInv => AskedIsTrained
  BY DEF SpecInv, JobSound, AnswersSound, RegistriesSound, AskedIsTrained, AdmittedAsAsked, NoJob
<1> QED BY SpecsInitial, <1>1, <1>2, PTL DEF SpecsSpec

------------------------------------------------------------------------------
(* The context of a question.                                                *)

(* The chunks of a revision, and the items made of them.                           *)
RowsAt(n) == IF n = 0 THEN {} ELSE rowsOf[n]
ItemsOf(ids, n) == {[id |-> i, revision |-> n] : i \in ids}
Collecting == {"list", "search", "hits", "graph", "memory"}
Searched == {"hits", "graph", "memory", "select", "done"}
ContextShape(c) ==
    /\ DOMAIN c = {"pc", "task", "named", "listed", "of", "searched", "hits", "found", "lexical", "semantic", "graph",
                   "ranked", "selected", "used", "degraded"}
    /\ c.pc \in {"idle", "select", "done"} \union Collecting
    /\ c.named \in 0..Active /\ c.of \in 0..Active
(* What was listed is of one revision, what was found of the one named; they are    *)
(* the same once a search succeeded.                                               *)
Collected(c) ==
    c.pc \in Collecting =>
        /\ IF c.pc = "list" THEN c.graph = {} ELSE c.named <= c.of /\ c.listed = RowsAt(c.of)
        /\ c.lexical \subseteq c.listed /\ c.graph \subseteq c.listed
        /\ c.semantic \subseteq ItemsOf(RowsAt(c.named), c.named)
        /\ c.selected = {} /\ c.used = 0
OneRevision(c) == c.pc \in Searched /\ ~c.degraded /\ c.named # 0 => c.of = c.named
(* An item is a memory, or a chunk of the revision it says.                        *)
ItemSound(c, x) ==
    \/ x.id \in Memories
    \/ x.id \in ChunkIds /\ x.revision \in {c.of, c.named} \ {0} /\ x.id \in rowsOf[x.revision]
Distinct(items) == \A x, y \in items : x.id = y.id => x = y
ItemsTaken(c) ==
    c.pc \in {"select", "done"} =>
        /\ \A x \in c.ranked \union c.selected : ItemSound(c, x)
        /\ Distinct(c.ranked \union c.selected) /\ c.ranked \intersect c.selected = {}
        /\ IsFiniteSet(c.selected)
        /\ IsFiniteSet(TokensIn(c.selected))
        /\ c.pc = "select" => c.used = Cardinality(TokensIn(c.selected))
        /\ Cardinality(c.selected) > 1 => Cardinality(TokensIn(c.selected)) <= ContextBudget
ContextIs(c) == ContextShape(c) /\ Collected(c) /\ OneRevision(c) /\ ItemsTaken(c)
Found(r) == r.task \subseteq {x.id : x \in r.chunks}
ExamIs(e) ==
    /\ DOMAIN e = {"pc", "digest", "approved", "tasks", "todo", "revision", "checks", "degraded", "stale", "misses",
                   "baseline", "results"}
    /\ e.pc = "build" => \E t : context.task = {t}
    /\ IsFiniteSet(e.results) /\ e.misses \in Nat
    /\ Cardinality({r \in e.results : ~Found(r)}) <= e.misses
    /\ \A r \in e.results :
          /\ r.named \in 0..Active
          /\ ~e.degraded /\ r.named # 0 => {x.id : x \in r.chunks} \subseteq rowsOf[r.named]
    /\ e.pc = "passed" => ~e.degraded /\ e.misses <= AllowedMisses
ContextInv ==
    /\ rowsOf \in Seq(SUBSET ChunkIds)
    /\ ContextIs(context) /\ ExamIs(exam)

LEMMA NothingIsFinite == IsFiniteSet({}) /\ Cardinality({}) = 0
BY FS_EmptySet
LEMMA NoTokens == TokensIn({}) = {}
BY DEF TokensIn
LEMMA IdleContextIs == ContextIs(NoContext)
BY NothingIsFinite, NoTokens DEF ContextIs, ContextShape, Collected, OneRevision, ItemsTaken, NoContext, Collecting, Searched, Distinct, Active
LEMMA NoExamIs == ExamIs(NoExam)
<1> {r \in {} : ~Found(r)} = {}
  OBVIOUS
<1> QED BY NothingIsFinite DEF ExamIs, NoExam
LEMMA ContextsInitial == ContextInit => ContextInv
BY IdleContextIs, NoExamIs DEF ContextInit, ContextInv

LEMMA ContextEnds == ContextInv => RetrievedTogether
<1> SUFFICES ASSUME ContextInv PROVE RetrievedTogether
  OBVIOUS
<1>1. BuiltFromIndex
  BY ContextAssumption DEF ContextInv, ContextIs, BuiltFromIndex, ContextAt, ContextFiles, ContextShape, OneRevision, Searched, ItemsTaken, ItemSound, Distinct
<1>2. {r \in exam.results : ~(r.task \subseteq {x.id : x \in r.chunks})} = {r \in exam.results : ~Found(r)}
  BY DEF Found
<1>3. ASSUME exam.pc = "passed" PROVE Cardinality({r \in exam.results : ~Found(r)}) <= AllowedMisses
  <2>1. IsFiniteSet({r \in exam.results : ~Found(r)})
    BY FS_Subset DEF ContextInv, ExamIs
  <2>2. Cardinality({r \in exam.results : ~Found(r)}) \in Nat
    BY <2>1, FS_CardinalityType
  <2> QED BY <1>3, <2>2, ContextAssumption DEF ContextInv, ExamIs
<1>4. PassedTogether
  BY <1>2, <1>3 DEF ContextInv, ExamIs, PassedTogether, ExamAt
<1> QED BY <1>1, <1>4 DEF RetrievedTogether

(* A step of the builder: the context goes to c, on the same rows.                 *)
LEMMA ContextStep ==
    ASSUME ContextInv, NEW c, context' = c, UNCHANGED <<rowsOf, exam>>, ContextIs(c), c.task = context.task
    PROVE  ContextInv'
<1>1. ContextIs(context)'
  BY DEF ContextIs, ContextShape, Collected, OneRevision, ItemsTaken, ItemSound, Active, RowsAt, ItemsOf, TokensIn
<1>2. ExamIs(exam)'
  BY DEF ContextInv, ExamIs, Active, Found
<1> QED BY <1>1, <1>2 DEF ContextInv
LEMMA ExamStep ==
    ASSUME ContextInv, NEW e, exam' = e, UNCHANGED <<rowsOf, context>>, ExamIs(e)
    PROVE  ContextInv'
<1>1. ContextIs(context)'
  BY DEF ContextInv, ContextIs, ContextShape, Collected, OneRevision, ItemsTaken, ItemSound, Active, RowsAt, ItemsOf, TokensIn
<1>2. ExamIs(exam)'
  BY DEF ExamIs, Active, Found
<1> QED BY <1>1, <1>2 DEF ContextInv

LEMMA CommitRowsKeeps == ASSUME ContextInv, CommitRows PROVE ContextInv'
<1>1. PICK rows \in SUBSET ChunkIds : rowsOf' = Append(rowsOf, rows)
  BY DEF CommitRows
<1>2. rowsOf' \in Seq(SUBSET ChunkIds) /\ Active \in Nat /\ Active' = Active + 1 /\ \A n \in 1..Active : rowsOf'[n] = rowsOf[n]
  BY <1>1 DEF ContextInv, Active
<1>3. UNCHANGED <<context, exam>>
  BY DEF CommitRows
<1>4. ContextShape(context)' /\ OneRevision(context)'
  BY <1>2, <1>3 DEF ContextInv, ContextIs, ContextShape, OneRevision
<1>5. RowsAt(context.of)' = RowsAt(context.of) /\ RowsAt(context.named)' = RowsAt(context.named)
  BY <1>2, <1>3 DEF RowsAt, ContextInv, ContextIs, ContextShape
<1>6. Collected(context)'
  BY <1>3, <1>5 DEF Collected, ContextInv, ContextIs, ItemsOf
<1>7. \A x \in context.ranked \union context.selected : ItemSound(context, x) => ItemSound(context, x)'
  BY <1>2, <1>3 DEF ItemSound, ContextInv, ContextIs, ContextShape
<1>8. ItemsTaken(context)'
  BY <1>3, <1>7 DEF ItemsTaken, ContextInv, ContextIs, TokensIn, Distinct
<1>9. ExamIs(exam)'
  <2>1. {r \in exam'.results : ~Found(r)} = {r \in exam.results : ~Found(r)}
    BY <1>3
  <2>2. \A r \in exam.results : r.named \in 0..Active' /\ (r.named # 0 => rowsOf'[r.named] = rowsOf[r.named])
    BY <1>2 DEF ContextInv, ExamIs
  <2> QED BY <1>3, <2>1, <2>2 DEF ContextInv, ExamIs, Found
<1> QED BY <1>2, <1>4, <1>6, <1>8, <1>9 DEF ContextInv, ContextIs

LEMMA BeginIs ==
    ASSUME ContextInv, NEW task, BeginContext(task)
    PROVE  ContextIs(context') /\ context'.task = task
<1>1. PICK c : c = [NoContext EXCEPT !.pc = "list", !.task = task, !.named = Active]
  OBVIOUS
<1>2. Active \in Nat
  BY DEF ContextInv, Active
<1>3. ContextIs(c) /\ c.task = task
  BY <1>1, <1>2, NothingIsFinite, NoTokens
     DEF ContextIs, ContextShape, Collected, OneRevision, ItemsTaken, NoContext, Collecting, Searched, Distinct
<1> QED BY <1>1, <1>3 DEF BeginContext

LEMMA AskContextKeeps == ASSUME ContextInv, AskContext PROVE ContextInv'
<1>1. context.task = {} \/ exam.pc = "idle"
  BY DEF AskContext, ExamAt
<1>2. ContextIs(context') /\ UNCHANGED <<rowsOf, exam>> /\ exam.pc = "idle"
  BY BeginIs DEF AskContext, ExamAt
<1>3. ContextIs(context)'
  BY <1>2 DEF ContextIs, ContextShape, Collected, OneRevision, ItemsTaken, ItemSound, Active, RowsAt, ItemsOf, TokensIn
<1>4. ExamIs(exam)'
  BY <1>2 DEF ContextInv, ExamIs, Active, Found
<1> QED BY <1>2, <1>3, <1>4 DEF ContextInv

LEMMA ListForContextKeeps == ASSUME ContextInv, ListForContext PROVE ContextInv'
<1>1. PICK best : best \subseteq Stored /\
        context' = [context EXCEPT !.pc = "search", !.listed = Stored, !.of = Active, !.lexical = best]
  BY DEF ListForContext, kSubset
<1>2. Stored = RowsAt(Active) /\ Active \in Nat
  BY DEF Stored, RowsAt, Active, ContextInv
<1>3. PICK c : c = [context EXCEPT !.pc = "search", !.listed = Stored, !.of = Active, !.lexical = best]
  OBVIOUS
<1>4. ContextIs(c) /\ c.task = context.task
  <2>1. ContextShape(c)
    BY <1>2, <1>3 DEF ContextInv, ContextIs, ContextShape, Collecting
  <2>2. Collected(c)
    BY <1>1, <1>2, <1>3 DEF ContextInv, ContextIs, ContextShape, Collected, Collecting, ListForContext, ContextAt
  <2>3. OneRevision(c) /\ ItemsTaken(c) /\ c.task = context.task
    BY <1>3 DEF ContextInv, ContextIs, ContextShape, OneRevision, Searched, ItemsTaken
  <2> QED BY <2>1, <2>2, <2>3 DEF ContextIs
<1> QED BY <1>1, <1>3, <1>4, ContextStep DEF ListForContext

LEMMA DegradedIs ==
    ASSUME ContextInv, context.pc \in {"search", "hits"}, NEW c, c = [context EXCEPT !.pc = "graph", !.degraded = TRUE] \/ c = [Degraded EXCEPT !.hits = {}, !.found = {}]
    PROVE  ContextIs(c) /\ c.task = context.task
<1>1. /\ DOMAIN c = DOMAIN context /\ c.pc = "graph" /\ c.degraded
      /\ c.named = context.named /\ c.of = context.of /\ c.listed = context.listed /\ c.lexical = context.lexical
      /\ c.graph = context.graph /\ c.semantic = context.semantic /\ c.selected = context.selected /\ c.used = context.used
      /\ c.task = context.task
  BY DEF Degraded, ContextInv, ContextIs, ContextShape
<1>2. ContextShape(c)
  BY <1>1 DEF ContextInv, ContextIs, ContextShape, Collecting
<1>3. Collected(c)
  BY <1>1 DEF ContextInv, ContextIs, Collected, Collecting
<1>4. OneRevision(c) /\ ItemsTaken(c)
  BY <1>1 DEF OneRevision, ItemsTaken
<1> QED BY <1>1, <1>2, <1>3, <1>4 DEF ContextIs

LEMMA SearchContextKeeps == ASSUME ContextInv, SearchContext PROVE ContextInv'
<1>1. CASE context' = Degraded
  BY <1>1, DegradedIs, ContextStep DEF SearchContext, ContextAt, Degraded
<1>2. CASE context' # Degraded
  <2>1. PICK searched, hits :
           /\ searched = (IF context.named = 0 THEN Active ELSE context.named) /\ searched = Active
           /\ context' = [context EXCEPT !.pc = "hits", !.searched = searched, !.hits = hits]
    BY <1>2 DEF SearchContext
  <2>2. PICK c : c = [context EXCEPT !.pc = "hits", !.searched = searched, !.hits = hits]
    OBVIOUS
  <2>3. ContextShape(c) /\ ItemsTaken(c) /\ c.task = context.task
    BY <2>2 DEF ContextInv, ContextIs, ContextShape, Collecting, ItemsTaken
  <2>4. Collected(c)
    BY <2>2 DEF ContextInv, ContextIs, ContextShape, Collected, Collecting, SearchContext, ContextAt
  <2>5. OneRevision(c)
    <3>1. context.named <= context.of /\ context.named \in 0..Active /\ context.of \in 0..Active
      BY DEF ContextInv, ContextIs, ContextShape, Collected, Collecting, SearchContext, ContextAt
    <3>3. Active \in Nat
      BY DEF ContextInv, Active
    <3>2. c.named = context.named /\ c.of = context.of
      BY <2>2 DEF ContextInv, ContextIs, ContextShape
    <3> QED BY <2>1, <3>1, <3>2, <3>3 DEF OneRevision
  <2> QED BY <2>1, <2>2, <2>3, <2>4, <2>5, ContextStep DEF ContextIs, SearchContext
<1> QED BY <1>1, <1>2

LEMMA ReadSearchHitKeeps == ASSUME ContextInv, ReadSearchHit PROVE ContextInv'
<1>1. PICK hits, found : context' = [context EXCEPT !.hits = hits, !.found = found]
  BY DEF ReadSearchHit
<1>2. PICK c : c = [context EXCEPT !.hits = hits, !.found = found]
  OBVIOUS
<1>3. ContextIs(c) /\ c.task = context.task
  BY <1>2 DEF ContextInv, ContextIs, ContextShape, Collected, Collecting, OneRevision, Searched, ItemsTaken, ReadSearchHit, ContextAt
<1> QED BY <1>1, <1>2, <1>3, ContextStep DEF ReadSearchHit

LEMMA ReadResultKeeps == ASSUME ContextInv, ReadResult PROVE ContextInv'
<1>1. PICK id, found, semantic :
        /\ semantic = (IF OfRevision(id, context.named) THEN context.semantic \union {[id |-> id, revision |-> Active]} ELSE context.semantic)
        /\ context' = [context EXCEPT !.found = found, !.semantic = semantic]
  BY DEF ReadResult
<1>2. PICK c : c = [context EXCEPT !.found = found, !.semantic = semantic]
  OBVIOUS
<1>3. semantic \subseteq ItemsOf(RowsAt(context.named), context.named)
  <2>1. context.semantic \subseteq ItemsOf(RowsAt(context.named), context.named)
    BY DEF ContextInv, ContextIs, Collected, Collecting, ReadResult, ContextAt
  <2>2. ASSUME OfRevision(id, context.named) PROVE id \in RowsAt(context.named) /\ Active = context.named
    BY <2>2 DEF OfRevision, Stored, RowsAt
  <2> QED BY <1>1, <2>1, <2>2 DEF ItemsOf
<1>4. ContextIs(c) /\ c.task = context.task
  <2>1. ContextShape(c) /\ OneRevision(c) /\ ItemsTaken(c) /\ c.task = context.task
    BY <1>2 DEF ContextInv, ContextIs, ContextShape, OneRevision, Searched, ItemsTaken, ReadResult, ContextAt
  <2>2. Collected(c)
    BY <1>2, <1>3 DEF ContextInv, ContextIs, ContextShape, Collected, Collecting, ReadResult, ContextAt
  <2> QED BY <2>1, <2>2 DEF ContextIs
<1> QED BY <1>1, <1>2, <1>4, ContextStep DEF ReadResult

LEMMA EndVectorSearchKeeps == ASSUME ContextInv, EndVectorSearch PROVE ContextInv'
<1>1. CASE context' = [Degraded EXCEPT !.hits = {}, !.found = {}]
  BY <1>1, DegradedIs, ContextStep DEF EndVectorSearch, ContextAt
<1>2. CASE context' = [context EXCEPT !.pc = "graph"]
  <2>1. PICK c : c = [context EXCEPT !.pc = "graph"]
    OBVIOUS
  <2>2. ContextIs(c) /\ c.task = context.task
    BY <2>1 DEF ContextInv, ContextIs, ContextShape, Collected, Collecting, OneRevision, Searched, ItemsTaken, EndVectorSearch, ContextAt
  <2> QED BY <1>2, <2>1, <2>2, ContextStep DEF EndVectorSearch
<1> QED BY <1>1, <1>2 DEF EndVectorSearch

LEMMA FindLinkedKeeps == ASSUME ContextInv, FindLinked PROVE ContextInv'
<1>1. PICK linked : linked \subseteq context.listed /\ context' = [context EXCEPT !.pc = "memory", !.graph = linked]
  BY DEF FindLinked
<1>2. PICK c : c = [context EXCEPT !.pc = "memory", !.graph = linked]
  OBVIOUS
<1>3. ContextIs(c) /\ c.task = context.task
  BY <1>1, <1>2 DEF ContextInv, ContextIs, ContextShape, Collected, Collecting, OneRevision, Searched, ItemsTaken, FindLinked, ContextAt
<1> QED BY <1>1, <1>2, <1>3, ContextStep DEF FindLinked

(* What is fused: one item for an id, each of the revision it says.                *)
LEMMA FusedIsSound ==
    ASSUME ContextInv, context.pc = "memory", NEW memories \in SUBSET Memories, NEW x \in Fused(memories)
    PROVE  ItemSound(context, x)
<1>1. context.lexical \union context.graph \subseteq RowsAt(context.of) /\ context.semantic \subseteq ItemsOf(RowsAt(context.named), context.named)
  BY DEF ContextInv, ContextIs, Collected, Collecting
<1>2. ASSUME NEW n \in {context.of, context.named}, x.id \in RowsAt(n), x.revision = n PROVE ItemSound(context, x)
  BY <1>2 DEF ItemSound, RowsAt, ContextInv, ContextIs, ContextShape, Active
<1>3. ASSUME x \in Listed(context.lexical) \union Listed(context.graph) PROVE ItemSound(context, x)
  BY <1>1, <1>2, <1>3 DEF Listed
<1>4. ASSUME x \in context.semantic PROVE ItemSound(context, x)
  BY <1>1, <1>2, <1>4 DEF ItemsOf
<1>5. ASSUME x \in {[id |-> m, revision |-> context.named] : m \in memories} PROVE ItemSound(context, x)
  BY <1>5 DEF ItemSound
<1> QED BY <1>3, <1>4, <1>5 DEF Fused, NotIn
LEMMA FusedIsDistinct ==
    ASSUME ContextInv, context.pc = "memory", NEW memories \in SUBSET Memories
    PROVE  Distinct(Fused(memories))
<1> SUFFICES ASSUME NEW x \in Fused(memories), NEW y \in Fused(memories), x.id = y.id PROVE x = y
  BY DEF Distinct
<1>1. context.lexical \union context.graph \subseteq RowsAt(context.of) /\ context.semantic \subseteq ItemsOf(RowsAt(context.named), context.named)
  BY DEF ContextInv, ContextIs, Collected, Collecting
<1>2. RowsAt(context.of) \subseteq ChunkIds /\ RowsAt(context.named) \subseteq ChunkIds
  BY DEF RowsAt, ContextInv, ContextIs, ContextShape, Active
<1>3. PICK sem : sem = {z.id : z \in context.semantic}
  OBVIOUS
<1> DEFINE L == Listed(context.lexical)
           S == NotIn(context.semantic, context.lexical)
           G == NotIn(Listed(context.graph), context.lexical \union sem)
           M == {[id |-> m, revision |-> context.named] : m \in memories}
<1>4. Fused(memories) = L \union S \union G \union M
  BY <1>3 DEF Fused
<1>5. \A z \in L : z.id \in context.lexical /\ z = [id |-> z.id, revision |-> context.of]
  BY DEF Listed
<1>6. \A z \in S : z.id \in sem \ context.lexical /\ z.id \in ChunkIds /\ z = [id |-> z.id, revision |-> context.named]
  BY <1>1, <1>2, <1>3 DEF NotIn, ItemsOf
<1>7. \A z \in G : z.id \in context.graph \ (context.lexical \union sem) /\ z = [id |-> z.id, revision |-> context.of]
  BY DEF NotIn, Listed
<1>8. \A z \in M : z.id \in Memories /\ z = [id |-> z.id, revision |-> context.named]
  OBVIOUS
<1>9. context.lexical \union context.graph \union sem \subseteq ChunkIds
  BY <1>1, <1>2, <1>3 DEF ItemsOf
<1> HIDE DEF L, S, G, M
<1> QED BY <1>4, <1>5, <1>6, <1>7, <1>8, <1>9, ContextAssumption

LEMMA FindMemoriesKeeps == ASSUME ContextInv, FindMemories PROVE ContextInv'
<1>1. PICK memories \in SUBSET Memories : context' = [context EXCEPT !.pc = "select", !.ranked = Fused(memories)]
  BY DEF FindMemories
<1>2. PICK items : items = Fused(memories)
  OBVIOUS
<1>3. PICK c : c = [context EXCEPT !.pc = "select", !.ranked = items]
  OBVIOUS
<1>4. context.pc = "memory" /\ Distinct(items) /\ \A x \in items : ItemSound(context, x)
  BY <1>2, FusedIsSound, FusedIsDistinct DEF FindMemories, ContextAt
<1>5. c.selected = {} /\ c.used = 0 /\ c.ranked = items /\ c.of = context.of /\ c.named = context.named
  BY <1>3, <1>4 DEF ContextInv, ContextIs, ContextShape, Collected, Collecting
<1>6. ContextShape(c) /\ Collected(c) /\ OneRevision(c) /\ c.task = context.task
  BY <1>3, <1>4 DEF ContextInv, ContextIs, ContextShape, Collected, Collecting, OneRevision, Searched
<1>7. ItemsTaken(c)
  BY <1>4, <1>5, NothingIsFinite, NoTokens DEF ItemsTaken, ItemSound, Distinct
<1> QED BY <1>1, <1>2, <1>3, <1>6, <1>7, ContextStep DEF FindMemories, ContextIs

(* One more item: its tokens are its own.                                          *)
LEMMA OneMore ==
    ASSUME NEW items, IsFiniteSet(items), IsFiniteSet(TokensIn(items)), NEW x, x \notin items, CostOf[x.id] \in Nat
    PROVE  /\ IsFiniteSet(items \union {x}) /\ Cardinality(items \union {x}) = Cardinality(items) + 1
           /\ IsFiniteSet(TokensIn(items \union {x}))
           /\ Cardinality(TokensIn(items \union {x})) = Cardinality(TokensIn(items)) + CostOf[x.id]
<1> DEFINE mine == {x} \X (1..CostOf[x.id])
<1>1. IsFiniteSet(items \union {x}) /\ Cardinality(items \union {x}) = Cardinality(items) + 1
  BY FS_AddElement
<1>2. IsFiniteSet(mine) /\ Cardinality(mine) = CostOf[x.id]
  <2>1. ASSUME NEW n \in Nat PROVE IsFiniteSet(1..n) /\ Cardinality(1..n) = n
    <3>1. IsFiniteSet(1..n) /\ Cardinality(1..n) = IF 1 > n THEN 0 ELSE n - 1 + 1
      BY FS_Interval
    <3> QED BY <3>1
  <2>2. IsFiniteSet({x}) /\ Cardinality({x}) = 1
    BY FS_Singleton
  <2>3. PICK one, own : one = {x} /\ own = 1..CostOf[x.id]
    OBVIOUS
  <2>4. IsFiniteSet(one \X own) /\ Cardinality(one \X own) = Cardinality(one) * Cardinality(own)
    BY <2>1, <2>2, <2>3, FS_Product
  <2>5. Cardinality(one) = 1 /\ Cardinality(own) = CostOf[x.id]
    BY <2>1, <2>2, <2>3
  <2>6. Cardinality(one) * Cardinality(own) = CostOf[x.id]
    BY <2>5
  <2> QED BY <2>3, <2>4, <2>6
<1>3. TokensIn(items \union {x}) = TokensIn(items) \union mine
  <2>1. \A t : t \in TokensIn(items \union {x}) <=> \E y \in items \union {x} : t \in {y} \X (1..CostOf[y.id])
    BY DEF TokensIn
  <2>2. \A t : t \in TokensIn(items) <=> \E y \in items : t \in {y} \X (1..CostOf[y.id])
    BY DEF TokensIn
  <2>3. \A t : t \in TokensIn(items \union {x}) <=> t \in TokensIn(items) \/ t \in mine
    BY <2>1, <2>2
  <2> HIDE DEF mine
  <2> QED BY <2>3
<1>4. TokensIn(items) \intersect mine = {}
  <2>1. ASSUME NEW t \in TokensIn(items) PROVE t[1] \in items
    BY DEF TokensIn
  <2>2. ASSUME NEW t \in mine PROVE t[1] = x
    OBVIOUS
  <2> HIDE DEF mine
  <2> QED BY <2>1, <2>2
<1>5. Cardinality(TokensIn(items)) \in Nat
  BY FS_CardinalityType
<1> HIDE DEF mine
<1>6. /\ IsFiniteSet(TokensIn(items) \union mine)
      /\ Cardinality(TokensIn(items) \union mine) = Cardinality(TokensIn(items)) + Cardinality(mine) - Cardinality(TokensIn(items) \intersect mine)
  BY <1>2, FS_Union
<1>7. Cardinality(TokensIn(items) \intersect mine) = 0
  BY <1>4, NothingIsFinite
<1>8. Cardinality(TokensIn(items) \union mine) = Cardinality(TokensIn(items)) + CostOf[x.id]
  BY <1>2, <1>5, <1>6, <1>7
<1>9. IsFiniteSet(TokensIn(items \union {x})) /\ Cardinality(TokensIn(items \union {x})) = Cardinality(TokensIn(items)) + CostOf[x.id]
  BY <1>3, <1>6, <1>8, Zenon
<1> QED BY <1>1, <1>9, Zenon

LEMMA SelectNextKeeps == ASSUME ContextInv, SelectNext PROVE ContextInv'
<1>0. PICK x \in context.ranked :
          context' = IF Fits(x)
                     THEN [context EXCEPT !.ranked = @ \ {x}, !.selected = @ \union {x}, !.used = @ + CostOf[x.id]]
                     ELSE [context EXCEPT !.ranked = @ \ {x}]
  BY DEF SelectNext
<1>1. PICK selected, used :
        /\ IF Fits(x) THEN selected = context.selected \union {x} /\ used = context.used + CostOf[x.id]
                      ELSE selected = context.selected /\ used = context.used
        /\ context' = [context EXCEPT !.ranked = @ \ {x}, !.selected = selected, !.used = used]
  <2>1. CASE Fits(x)
    BY <1>0, <2>1
  <2>2. CASE ~Fits(x)
    <3>1. [context EXCEPT !.ranked = @ \ {x}] = [context EXCEPT !.ranked = @ \ {x}, !.selected = context.selected, !.used = context.used]
      BY DEF ContextInv, ContextIs, ContextShape
    <3> QED BY <1>0, <2>2, <3>1
  <2> QED BY <2>1, <2>2
<1>2. PICK c : c = [context EXCEPT !.ranked = @ \ {x}, !.selected = selected, !.used = used]
  OBVIOUS
<1>3. context.pc = "select" /\ ItemsTaken(context) /\ ContextShape(context)
  BY DEF SelectNext, ContextAt, ContextInv, ContextIs
<1>4. /\ DOMAIN c = DOMAIN context /\ c.pc = "select" /\ c.ranked = context.ranked \ {x} /\ c.selected = selected /\ c.used = used
      /\ c.of = context.of /\ c.named = context.named /\ c.degraded = context.degraded /\ c.task = context.task
  BY <1>2, <1>3 DEF ContextShape
<1>5. ContextShape(c) /\ Collected(c) /\ OneRevision(c)
  BY <1>3, <1>4 DEF ContextInv, ContextIs, ContextShape, Collected, Collecting, OneRevision, Searched
<1>6. CostOf[x.id] \in Nat /\ x \notin context.selected
  BY <1>3, ContextAssumption DEF ItemsTaken, ItemSound
<1>7. \A y \in c.ranked \union c.selected : ItemSound(c, y)
  BY <1>1, <1>3, <1>4 DEF ItemsTaken, ItemSound
<1>8. Distinct(c.ranked \union c.selected) /\ c.ranked \intersect c.selected = {}
  BY <1>1, <1>3, <1>4 DEF ItemsTaken, Distinct
<1>9. /\ IsFiniteSet(selected) /\ IsFiniteSet(TokensIn(selected)) /\ used = Cardinality(TokensIn(selected))
      /\ Cardinality(selected) > 1 => used <= ContextBudget
  <2>1. CASE ~Fits(x)
    BY <1>1, <1>3, <2>1 DEF ItemsTaken
  <2>2. CASE Fits(x)
    <3>1. selected = context.selected \union {x} /\ used = context.used + CostOf[x.id]
      BY <1>1, <2>2
    <3>2. IsFiniteSet(context.selected) /\ IsFiniteSet(TokensIn(context.selected)) /\ context.used = Cardinality(TokensIn(context.selected))
      BY <1>3 DEF ItemsTaken
    <3>3. /\ IsFiniteSet(selected) /\ Cardinality(selected) = Cardinality(context.selected) + 1
          /\ IsFiniteSet(TokensIn(selected)) /\ Cardinality(TokensIn(selected)) = Cardinality(TokensIn(context.selected)) + CostOf[x.id]
      BY <1>6, <3>1, <3>2, OneMore
    <3>4. context.selected = {} => Cardinality(selected) = 1
      BY <3>3, NothingIsFinite
    <3> QED BY <2>2, <3>1, <3>2, <3>3, <3>4 DEF Fits
  <2> QED BY <2>1, <2>2
<1>10. ItemsTaken(c)
  BY <1>4, <1>7, <1>8, <1>9 DEF ItemsTaken
<1> QED BY <1>1, <1>2, <1>4, <1>5, <1>10, ContextStep DEF SelectNext, ContextIs

LEMMA ReportContextKeeps == ASSUME ContextInv, ReportContext PROVE ContextInv'
<1>1. PICK c : c = [NoContext EXCEPT !.pc = "done", !.task = context.task, !.named = context.named, !.of = context.of,
                                    !.selected = context.selected, !.degraded = context.degraded]
  OBVIOUS
<1>2. context.pc = "select" /\ ItemsTaken(context) /\ ContextShape(context) /\ OneRevision(context)
  BY DEF ReportContext, ContextAt, ContextInv, ContextIs
<1>3. c.pc = "done" /\ c.task = context.task /\ c.named = context.named /\ c.of = context.of /\ c.selected = context.selected
      /\ c.degraded = context.degraded /\ c.ranked = {}
  BY <1>1 DEF NoContext
<1>4. ContextShape(c)
  BY <1>1, <1>2 DEF NoContext, ContextShape
<1>5. Collected(c) /\ OneRevision(c)
  BY <1>2, <1>3 DEF Collected, OneRevision, Collecting, Searched
<1>6. ItemsTaken(c)
  BY <1>2, <1>3 DEF ItemsTaken, Distinct, ItemSound
<1> QED BY <1>1, <1>3, <1>4, <1>5, <1>6, ContextStep DEF ReportContext, ContextIs

LEMMA AnswerAskedKeeps == ASSUME ContextInv, AnswerAsked PROVE ContextInv'
<1>1. NoContext.task = {}
  BY DEF NoContext
<1> QED BY <1>1, IdleContextIs, ContextStep DEF AnswerAsked, ContextAt

LEMMA NoContextIs == ASSUME ContextInv, UNCHANGED rowsOf, context' = NoContext PROVE ContextIs(context)'
BY IdleContextIs DEF ContextIs, ContextShape, Collected, OneRevision, ItemsTaken, ItemSound, Active, RowsAt, ItemsOf, TokensIn
LEMMA ContextRaisesKeeps == ASSUME ContextInv, ContextRaises PROVE ContextInv'
<1>1. ContextIs(context)'
  BY NoContextIs DEF ContextRaises
<1>2. {r \in {} : ~Found(r)} = {}
  OBVIOUS
<1>3. ExamIs(exam)'
  BY <1>2, NothingIsFinite DEF ContextRaises, ExamIs, NoExam
<1> QED BY <1>1, <1>3 DEF ContextInv, ContextRaises

(* The files of the evaluation are not what is kept.                               *)
LEMMA PackStepKeeps == ASSUME ContextInv, WriteCandidates \/ ApprovePack \/ EditPack PROVE ContextInv'
<1>1. UNCHANGED <<rowsOf, context, exam>>
  BY DEF WriteCandidates, ApprovePack, EditPack
<1> QED BY <1>1, ExamStep, ContextStep DEF ContextInv

(* A step that counts nothing.                                                     *)
SameCounts(e) ==
    /\ DOMAIN e = DOMAIN exam /\ e.results = exam.results /\ e.misses = exam.misses /\ e.degraded = exam.degraded
    /\ e.pc \notin {"build", "passed"}
LEMMA SameCountsIs == ASSUME ContextInv, NEW e, SameCounts(e) PROVE ExamIs(e)
BY DEF SameCounts, ContextInv, ExamIs
LEMMA LoadingKeeps == ASSUME ContextInv, HashPack \/ ReadApproval \/ LoadTasks \/ ForgetExam PROVE ContextInv'
<1>1. ASSUME NEW e, e = [NoExam EXCEPT !.pc = "approval", !.digest = pack.tasks] PROVE ExamIs(e)
  <2>1. {r \in {} : ~Found(r)} = {}
    OBVIOUS
  <2> QED BY <1>1, <2>1, NothingIsFinite DEF ExamIs, NoExam
<1>2. ASSUME NEW e, e = [exam EXCEPT !.pc = "load", !.approved = pack.approved] \/ e = [exam EXCEPT !.pc = "task", !.tasks = pack.tasks, !.todo = pack.tasks]
      PROVE  ExamIs(e)
  <2>1. SameCounts(e)
    BY <1>2 DEF SameCounts, ContextInv, ExamIs
  <2> QED BY <2>1, SameCountsIs
<1>3. UNCHANGED <<rowsOf, context>> /\ ExamIs(exam')
  BY <1>1, <1>2, NoExamIs DEF HashPack, ReadApproval, LoadTasks, ForgetExam
<1> QED BY <1>3, ExamStep

LEMMA TakeTaskKeeps == ASSUME ContextInv, TakeTask PROVE ContextInv'
<1>1. PICK task : BeginContext({task}) /\ exam' = [exam EXCEPT !.pc = "build", !.todo = @ \ {task}]
  BY DEF TakeTask
<1>2. PICK e : e = [exam EXCEPT !.pc = "build", !.todo = @ \ {task}]
  OBVIOUS
<1>3. ContextIs(context') /\ context'.task = {task} /\ UNCHANGED rowsOf
  BY <1>1, BeginIs DEF TakeTask
<1>4. ContextIs(context)'
  BY <1>3 DEF ContextIs, ContextShape, Collected, OneRevision, ItemsTaken, ItemSound, Active, RowsAt, ItemsOf, TokensIn
<1>5. e.results = exam.results /\ e.misses = exam.misses /\ e.degraded = exam.degraded /\ e.pc = "build" /\ DOMAIN e = DOMAIN exam
  BY <1>2 DEF ContextInv, ExamIs
<1>6. ExamIs(exam)'
  BY <1>1, <1>2, <1>3, <1>5 DEF ContextInv, ExamIs, Active, Found
<1> QED BY <1>3, <1>4, <1>6 DEF ContextInv

LEMMA MeasureContextKeeps == ASSUME ContextInv, MeasureContext PROVE ContextInv'
<1>0. PICK measured, r :
        /\ measured = {x \in context.selected : x.id \in ChunkIds}
        /\ r = [task |-> context.task, chunks |-> measured, named |-> context.named]
  OBVIOUS
<1>1. PICK missed \in 0..1 :
        /\ missed = 0 => \E x \in measured : x.id \in context.task
        /\ exam' = [exam EXCEPT !.pc = "baseline", !.misses = @ + missed, !.degraded = @ \/ context.degraded,
                               !.checks = measured, !.results = @ \union {r}]
  BY <1>0 DEF MeasureContext
<1>2. PICK e : e = [exam EXCEPT !.pc = "baseline", !.misses = @ + missed, !.degraded = @ \/ context.degraded,
                               !.checks = measured, !.results = @ \union {r}]
  OBVIOUS
<1>3. PICK t : context.task = {t}
  BY DEF ContextInv, ExamIs, MeasureContext, ExamAt
<1>4. missed = 0 => Found(r)
  BY <1>0, <1>1, <1>3 DEF Found
<1>5. /\ DOMAIN e = DOMAIN exam /\ e.pc = "baseline" /\ e.misses = exam.misses + missed
      /\ e.results = exam.results \union {r}
      /\ ~e.degraded => ~exam.degraded /\ ~context.degraded
  BY <1>2 DEF ContextInv, ExamIs
<1>6. ~context.degraded /\ r.named # 0 => {x.id : x \in r.chunks} \subseteq rowsOf[r.named]
  <2>1. SUFFICES ASSUME ~context.degraded, r.named # 0, NEW x \in r.chunks PROVE x.id \in rowsOf[r.named]
    OBVIOUS
  <2>2. r.named = context.named /\ context.pc = "done" /\ context.of = context.named
    BY <1>0, <2>1 DEF ContextInv, ContextIs, OneRevision, Searched, MeasureContext, ContextAt
  <2>3. x \in context.selected /\ x.id \in ChunkIds
    BY <1>0
  <2>4. ItemSound(context, x)
    BY <2>2, <2>3 DEF ContextInv, ContextIs, ItemsTaken
  <2> QED BY <2>2, <2>3, <2>4, ContextAssumption DEF ItemSound
<1>7. r.named \in 0..Active
  BY <1>0 DEF ContextInv, ContextIs, ContextShape
<1>8. \A q \in e.results : q.named \in 0..Active /\ (~e.degraded /\ q.named # 0 => {x.id : x \in q.chunks} \subseteq rowsOf[q.named])
  BY <1>5, <1>6, <1>7 DEF ContextInv, ExamIs
<1>9. IsFiniteSet(exam.results) /\ IsFiniteSet(e.results) /\ exam.misses \in Nat
  <2>1. IsFiniteSet(exam.results) /\ exam.misses \in Nat
    BY DEF ContextInv, ExamIs
  <2>2. IsFiniteSet(exam.results \union {r})
    BY <2>1, FS_AddElement
  <2> QED BY <1>5, <2>1, <2>2
<1>10. Cardinality({q \in e.results : ~Found(q)}) <= e.misses
  <2>1. PICK bad, worse : bad = {q \in exam.results : ~Found(q)} /\ worse = {q \in e.results : ~Found(q)}
    OBVIOUS
  <2>2. IsFiniteSet(bad) /\ Cardinality(bad) <= exam.misses
    BY <1>9, <2>1, FS_Subset DEF ContextInv, ExamIs
  <2>3. Cardinality(bad) \in Nat
    BY <2>2, FS_CardinalityType
  <2>4. CASE Found(r)
    <3>1. worse = bad
      BY <1>5, <2>1, <2>4
    <3>2. Cardinality(worse) <= e.misses
      BY <1>5, <1>9, <2>2, <2>3, <3>1
    <3> QED BY <2>1, <3>2
  <2>5. CASE ~Found(r)
    <3>1. worse = bad \union {r} /\ missed = 1
      BY <1>4, <1>5, <2>1, <2>5
    <3>2. Cardinality(bad \union {r}) = (IF r \in bad THEN Cardinality(bad) ELSE Cardinality(bad) + 1)
      BY <2>2, FS_AddElement
    <3>3. Cardinality(worse) <= e.misses
      BY <1>5, <1>9, <2>2, <2>3, <3>1, <3>2
    <3> QED BY <2>1, <3>3
  <2> QED BY <2>4, <2>5
<1>11. ExamIs(e)
  <2>1. DOMAIN exam = {"pc", "digest", "approved", "tasks", "todo", "revision", "checks", "degraded", "stale", "misses",
                       "baseline", "results"}
    BY DEF ContextInv, ExamIs
  <2>2. e.pc # "build" /\ e.pc # "passed" /\ e.misses \in Nat
    BY <1>5, <1>9
  <2> QED BY <1>5, <1>8, <1>9, <1>10, <2>1, <2>2 DEF ExamIs
<1> QED BY <1>1, <1>2, <1>11, ExamStep DEF MeasureContext

LEMMA CheckingKeeps == ASSUME ContextInv, ReadProjectAgain \/ CheckChunkAgain \/ NextTask PROVE ContextInv'
<1>1. PICK e : exam' = e /\ UNCHANGED <<rowsOf, context>> /\
        \/ e = [exam EXCEPT !.pc = "check", !.revision = Active]
        \/ e = [exam EXCEPT !.pc = "task"]
        \/ exam.pc = "check" /\ \E checks, stale : e = [exam EXCEPT !.checks = checks, !.stale = stale]
  BY DEF ReadProjectAgain, CheckChunkAgain, NextTask, ExamAt
<1>2. SameCounts(e)
  BY <1>1 DEF SameCounts, ContextInv, ExamIs
<1> QED BY <1>1, <1>2, SameCountsIs, ExamStep

LEMMA MeasureBaselineKeeps == ASSUME ContextInv, MeasureBaseline PROVE ContextInv'
<1>1. PICK baseline : exam' = [exam EXCEPT !.pc = "project", !.baseline = baseline]
  BY DEF MeasureBaseline
<1>2. PICK e : e = [exam EXCEPT !.pc = "project", !.baseline = baseline]
  OBVIOUS
<1>3. SameCounts(e)
  BY <1>2 DEF SameCounts, ContextInv, ExamIs
<1>4. ExamIs(e) /\ e.pc # "build"
  BY <1>3, SameCountsIs DEF SameCounts
<1>5. ExamIs(exam)'
  BY <1>1, <1>2, <1>4 DEF ExamIs, Found, Active, MeasureBaseline
<1> QED BY <1>5, NoContextIs DEF MeasureBaseline, ContextInv

LEMMA ConcludeExamKeeps == ASSUME ContextInv, ConcludeExam PROVE ContextInv'
<1>1. PICK status \in {"failed"} \union {s \in {"passed"} : MayPass} : exam' = [exam EXCEPT !.pc = status, !.revision = 0]
  BY DEF ConcludeExam
<1>2. PICK e : e = [exam EXCEPT !.pc = status, !.revision = 0]
  OBVIOUS
<1>3. /\ DOMAIN e = DOMAIN exam /\ e.pc = status /\ e.results = exam.results /\ e.misses = exam.misses
      /\ e.degraded = exam.degraded
  BY <1>2 DEF ContextInv, ExamIs
<1>4. ExamIs(e)
  BY <1>3 DEF ContextInv, ExamIs, MayPass
<1> QED BY <1>1, <1>2, <1>4, ExamStep DEF ConcludeExam

LEMMA ContextStepKeeps == ASSUME ContextInv, [ContextNext]_contextVars PROVE ContextInv'
<1>1. ASSUME ContextNext PROVE ContextInv'
  BY <1>1, CommitRowsKeeps, AskContextKeeps, ListForContextKeeps, SearchContextKeeps, ReadSearchHitKeeps, ReadResultKeeps,
     EndVectorSearchKeeps, FindLinkedKeeps, FindMemoriesKeeps, SelectNextKeeps, ReportContextKeeps, AnswerAskedKeeps,
     ContextRaisesKeeps, PackStepKeeps, LoadingKeeps, TakeTaskKeeps, MeasureContextKeeps, MeasureBaselineKeeps,
     CheckingKeeps, ConcludeExamKeeps
     DEF ContextNext
<1>2. ASSUME UNCHANGED contextVars PROVE ContextInv'
  BY <1>2, ExamStep DEF ContextInv, contextVars
<1> QED BY <1>1, <1>2

(* A context is made of chunks of the revisions it names and within its budget,    *)
(* and an evaluation that passed judged such contexts (BuiltFromIndex,             *)
(* PassedTogether), whatever is committed between two reads of context_builder.py. *)
THEOREM ContextsAreIndexed == ContextSpec => []RetrievedTogether
<1>1. ContextInit => ContextInv
  BY ContextsInitial
<1>2. ContextInv /\ [ContextNext]_contextVars => ContextInv'
  BY ContextStepKeeps
<1>3. ContextInv => RetrievedTogether
  BY ContextEnds
<1> QED BY <1>1, <1>2, <1>3, PTL DEF ContextSpec
==============================================================================
