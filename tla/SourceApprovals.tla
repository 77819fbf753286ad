---------------------------- MODULE SourceApprovals ----------------------------
(* The source registry and its legal approvals: evidence candidates fetched from   *)
(* upstream, requests, the approval a person signs, the command that enters it in  *)
(* the registry file, and the production run that selects sources and replays the  *)
(* evidence of each.  Commands load the registry file, work on what they loaded    *)
(* and write it back; several may run, any may die, and people edit the files.     *)
(*                                                                                 *)
(* What the registry says of a source (URLs, domains, license, use) is a contract; *)
(* its approved use is evaluation only for some.  Revision and license text of a   *)
(* source are editions of it.  An entry's hash is that of its contract, which is   *)
(* the entry as long as nobody approved it.                                        *)
EXTENDS Integers, FiniteSets

CONSTANTS
    Sources,
    Contracts, EvaluationOnly,
    Clerks,           \* commands that may run together
    MaxEditions,      \* bound: editions of a source
    MaxSourceEdits    \* bound: edits of the registry and of the evidence by hand

ASSUME ApprovalAssumption == EvaluationOnly \subseteq Contracts /\ {MaxEditions, MaxSourceEdits} \subseteq Nat

VARIABLES
    registry,   \* the registry file
    upstream,   \* the edition a source has now
    candidates, \* the evidence candidate directory
    legal,      \* governance/source-approvals/<source>: license.txt and approval.json
    clerk,      \* the commands
    sourceEdits,
    signed,     \* history: the approvals people signed
    collected   \* history: entries production collection was let begin with

approvalVars == <<registry, upstream, candidates, legal, clerk, sourceEdits, signed, collected>>

Editions == 1..MaxEditions
NoEdition == 0
UseOf(contract) == IF contract \in EvaluationOnly THEN "evaluation_only" ELSE "training"
Pending(contract) ==
    [contract |-> contract, status |-> "pending", revision |-> NoEdition, license |-> NoEdition, request |-> contract]
NoApproval == [source |-> NoEdition, contract |-> NoEdition, revision |-> NoEdition, license |-> NoEdition, use |-> "none"]
ClerkFree == [pc |-> "idle", loaded |-> <<>>, fetched |-> <<>>, source |-> NoEdition, selected |-> {}]

ApprovalInit ==
    /\ registry \in [Sources -> {Pending(c) : c \in Contracts}]
    /\ upstream = [s \in Sources |-> 1]
    /\ candidates = <<>>
    /\ legal = [s \in Sources |-> [text |-> NoEdition, approval |-> NoApproval]]
    /\ clerk = [c \in Clerks |-> ClerkFree]
    /\ sourceEdits = 0
    /\ signed = {}
    /\ collected = {}

AtClerk(c, pc) == clerk[c].pc = pc
ClerkGoes(c, new) == clerk' = [clerk EXCEPT ![c] = new]
ClerkEnds(c) == ClerkGoes(c, ClerkFree)
ClerkOnly(c) == UNCHANGED <<registry, upstream, candidates, legal, sourceEdits, signed, collected>>

--------------------------------------------------------------------------------
(* materialize_evidence_candidates: each source is fetched at the edition it has   *)
(* then, into a temporary directory, which replaces a target that is not there.    *)
MaterializeBegins(c) ==
    /\ AtClerk(c, "idle") /\ candidates = <<>>
    /\ ClerkGoes(c, [ClerkFree EXCEPT !.pc = "fetch", !.loaded = registry])
    /\ ClerkOnly(c)
FetchEvidence(c) ==
    LET me == clerk[c] IN
    /\ AtClerk(c, "fetch")
    /\ \E s \in Sources \ DOMAIN me.fetched :
          ClerkGoes(c, [me EXCEPT !.fetched = [r \in DOMAIN @ \union {s} |->
              IF r = s THEN [contract |-> me.loaded[s].request, edition |-> upstream[s]] ELSE @[r]]])
    /\ ClerkOnly(c)
MaterializeEnds(c) ==
    /\ AtClerk(c, "fetch") /\ DOMAIN clerk[c].fetched = Sources
    /\ candidates' = IF candidates = <<>> THEN clerk[c].fetched ELSE candidates
    /\ ClerkEnds(c)
    /\ UNCHANGED <<registry, upstream, legal, sourceEdits, signed, collected>>

(* A person signs approval.json beside the license that was reviewed: the          *)
(* candidate's, or what prepare_approval_requests asks for and is upstream now.    *)
Reviewable(s) ==
    {candidates[r] : r \in DOMAIN candidates \intersect {s}}
    \union (IF registry[s].status = "approved" THEN {}
            ELSE {[contract |-> registry[s].contract, edition |-> upstream[s]]})
SignApproval(s) ==
    \E reviewed \in Reviewable(s) :
        LET approval == [source |-> s, contract |-> reviewed.contract, revision |-> reviewed.edition,
                         license |-> reviewed.edition, use |-> UseOf(reviewed.contract)]
        IN  /\ approval \notin signed
            /\ signed' = signed \union {approval}
            /\ legal' = [legal EXCEPT ![s] = [text |-> reviewed.edition, approval |-> approval]]
            /\ UNCHANGED <<registry, upstream, candidates, clerk, sourceEdits, collected>>

(* Files edited by hand: an entry's contract, the license text; and a new edition. *)
EditContract(s, contract) ==
    /\ sourceEdits < MaxSourceEdits /\ sourceEdits' = sourceEdits + 1
    /\ contract # registry[s].contract
    /\ registry' = [registry EXCEPT ![s] = IF @.status = "pending" THEN Pending(contract)
                                           ELSE [@ EXCEPT !.contract = contract]]
    /\ UNCHANGED <<upstream, candidates, legal, clerk, signed, collected>>
EditLicense(s) ==
    /\ sourceEdits < MaxSourceEdits /\ sourceEdits' = sourceEdits + 1
    /\ \E e \in {NoEdition, upstream[s]} \ {legal[s].text} : legal' = [legal EXCEPT ![s].text = e]
    /\ UNCHANGED <<registry, upstream, candidates, clerk, signed, collected>>
PublishEdition(s) ==
    /\ upstream[s] < MaxEditions
    /\ upstream' = [upstream EXCEPT ![s] = @ + 1]
    /\ UNCHANGED <<registry, candidates, legal, clerk, sourceEdits, signed, collected>>

--------------------------------------------------------------------------------
(* --approve-source --immutable-revision: the approval has to name the entry, the  *)
(* revision, the license, its text and the use.                                    *)
ApproveLoads(c, s) ==
    /\ AtClerk(c, "idle")
    /\ ClerkGoes(c, [ClerkFree EXCEPT !.pc = "approve", !.loaded = registry, !.source = s])
    /\ ClerkOnly(c)
ApprovedEntry(entry, revision, evidence) ==
    [entry EXCEPT !.status = "approved", !.revision = revision, !.license = evidence.text]
\* Mutant: the use is not compared.
NamesRevision(approval, s, request, entry) ==
    approval.contract = request /\ approval.revision = entry.revision /\ approval.license = entry.license
Names(approval, s, request, entry) ==
    approval = [source |-> s, contract |-> request, revision |-> entry.revision, license |-> entry.license,
                use |-> UseOf(entry.contract)]
ApproveSource(c) ==
    LET me == clerk[c]
        s == me.source
        entry(revision) == ApprovedEntry(me.loaded[s], revision, legal[s])
    IN  /\ AtClerk(c, "approve")
        /\ \E revision \in Editions :
              IF /\ me.loaded[s].status = "pending" /\ legal[s].text # NoEdition
                 /\ Names(legal[s].approval, s, me.loaded[s].contract, entry(revision))
              THEN ClerkGoes(c, [me EXCEPT !.pc = "compare", !.loaded[s] = entry(revision)])
              ELSE ClerkEnds(c)
        /\ ClerkOnly(c)

(* write: what the file has approved is compared; then the file is replaced.       *)
Protects(existing, incoming) ==
    \A s \in Sources : existing[s].status = "approved" => incoming[s] = existing[s]
WriteCompares(c) ==
    /\ AtClerk(c, "compare")
    /\ IF Protects(registry, clerk[c].loaded) THEN ClerkGoes(c, [clerk[c] EXCEPT !.pc = "replace"]) ELSE ClerkEnds(c)
    /\ ClerkOnly(c)
WriteReplaces(c) ==
    /\ AtClerk(c, "replace")
    /\ registry' = clerk[c].loaded
    /\ ClerkEnds(c)
    /\ UNCHANGED <<upstream, candidates, legal, sourceEdits, signed, collected>>

(* --production --select-source: no selected source has a blocker, and then the    *)
(* evidence of each is replayed against the entry.                                 *)
ProductionLoads(c, chosen) ==
    /\ AtClerk(c, "idle") /\ chosen # {}
    /\ \A s \in chosen : registry[s].status = "approved" /\ UseOf(registry[s].contract) # "evaluation_only"
    /\ ClerkGoes(c, [ClerkFree EXCEPT !.pc = "verify", !.loaded = registry, !.selected = chosen])
    /\ ClerkOnly(c)
EvidenceHolds(s, entry) ==
    /\ legal[s].text # NoEdition /\ legal[s].text = entry.license
    /\ Names(legal[s].approval, s, entry.request, entry)
ProductionVerifies(c) ==
    LET me == clerk[c] IN
    /\ AtClerk(c, "verify")
    /\ collected' = IF \A s \in me.selected : EvidenceHolds(s, me.loaded[s])
                    THEN collected \union {[source |-> s, entry |-> me.loaded[s]] : s \in me.selected}
                    ELSE collected
    /\ ClerkEnds(c)
    /\ UNCHANGED <<registry, upstream, candidates, legal, sourceEdits, signed>>

ClerkDies(c) == ~AtClerk(c, "idle") /\ ClerkEnds(c) /\ ClerkOnly(c)

ApprovalNext ==
    \/ \E s \in Sources : \/ SignApproval(s) \/ EditLicense(s) \/ PublishEdition(s)
                          \/ \E contract \in Contracts : EditContract(s, contract)
    \/ \E c \in Clerks :
          \/ MaterializeBegins(c) \/ FetchEvidence(c) \/ MaterializeEnds(c)
          \/ ApproveSource(c) \/ WriteCompares(c) \/ WriteReplaces(c) \/ ProductionVerifies(c) \/ ClerkDies(c)
          \/ \E s \in Sources : ApproveLoads(c, s)
          \/ \E chosen \in SUBSET Sources : ProductionLoads(c, chosen)
ApprovalSpec == ApprovalInit /\ [][ApprovalNext]_approvalVars

--------------------------------------------------------------------------------
(* Production collects what a person approved: for each source there is a signed   *)
(* approval of the entry the approval was requested of, of the revision and the    *)
(* license text the entry has and of the use it has now, however the registry, the *)
(* evidence and upstream changed before, between and after the commands' steps.    *)
ApprovedSources ==
    \A it \in collected :
        /\ UseOf(it.entry.contract) # "evaluation_only"
        /\ \E approval \in signed :
              /\ approval.source = it.source /\ approval.contract = it.entry.request
              /\ approval.revision = it.entry.revision /\ approval.license = it.entry.license
              /\ approval.use = UseOf(it.entry.contract)

(* An approval in the registry stays: "refusing to alter previously approved       *)
(* source".  Expected to fail with two clerks: write compares and then replaces.   *)
ApprovalsStay ==
    [][sourceEdits' = sourceEdits =>
         \A s \in Sources : registry[s].status = "approved" => registry'[s] = registry[s]]_approvalVars
================================================================================
