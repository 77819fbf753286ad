---------------------------- MODULE ContextBuilding ----------------------------
(* The context of a question (indexing/context_builder.py): the project is read,   *)
(* its chunks are listed, the vector store is searched and its hits are read       *)
(* again, the call graph and the memory add theirs; what is fused is ranked and    *)
(* taken while the budget lasts.  The evaluation builds one for each task of a     *)
(* governed pack and checks what it got.  Each read is a transaction of its own,   *)
(* and revisions are committed between them.                                       *)
(*                                                                                 *)
(* Abstracted: scores, so that any candidates may come first, in any order (no     *)
(* fused score is zero); one tenant; how often a memory was used, which only moves *)
(* its rank.  VectorSync has the points: a search by revision finds some of the    *)
(* chunks which that revision has.  RagIndex has how it is committed.              *)
EXTENDS Integers, FiniteSets, FiniteSetsExt, Sequences

CONSTANTS
    ChunkIds,        \* ids of chunks, made from their content
    Memories,        \* ids of memory entries
    CostOf,          \* the tokens of each
    ContextBudget,   \* tokens for files: the budget less the reserve
    CandidateLimit,  \* candidate_limit_per_source
    SelectionLimit,  \* max_chunks
    MinTasks,        \* 500: tasks of a governed pack
    AllowedMisses,   \* tasks whose chunk may be missed (Recall@20)
    MaxCommits,      \* bound: revisions committed
    MaxPackEdits     \* bound: edits of the task pack

ASSUME ContextAssumption ==
    /\ ChunkIds \intersect Memories = {}
    /\ CostOf \in [ChunkIds \union Memories -> Nat]
    /\ {ContextBudget, CandidateLimit, SelectionLimit, MinTasks, AllowedMisses, MaxCommits, MaxPackEdits} \subseteq Nat

VARIABLES
    rowsOf,   \* the chunks of each revision committed: the store has the last
    context,  \* the context being built
    pack,     \* the files of the evaluation: tasks, named by their relevant chunk, and approval
    exam      \* the evaluation: what it loaded, where it is, what it counted

contextVars == <<rowsOf, context, pack, exam>>

NoContext == [pc |-> "idle", task |-> {}, named |-> 0, listed |-> {}, of |-> 0, searched |-> 0, hits |-> {}, found |-> {},
              lexical |-> {}, semantic |-> {}, graph |-> {}, ranked |-> {}, selected |-> {}, used |-> 0, degraded |-> FALSE]
NoExam == [pc |-> "idle", digest |-> {}, approved |-> {}, tasks |-> {}, todo |-> {}, revision |-> 0, checks |-> {},
           degraded |-> FALSE, stale |-> FALSE, misses |-> 0, baseline |-> 0, results |-> {}]

ContextInit ==
    /\ rowsOf = <<>>
    /\ context = NoContext
    /\ pack = [tasks |-> {}, approved |-> {}, edits |-> 0]
    /\ exam = NoExam

Active == Len(rowsOf)
Stored == IF Active = 0 THEN {} ELSE rowsOf[Active]
ContextAt(pc) == context.pc = pc
ExamAt(pc) == exam.pc = pc
LesserOf(a, b) == IF a < b THEN a ELSE b

(* commit_index_revision: the chunks and the active revision at once.             *)
CommitRows ==
    /\ Active < MaxCommits
    /\ \E rows \in SUBSET ChunkIds \ {{}} : rowsOf' = Append(rowsOf, rows)
    /\ UNCHANGED <<context, pack, exam>>

--------------------------------------------------------------------------------
(* build.  Any of its reads may raise; only the search is then done without.       *)
BeginContext(task) == context' = [NoContext EXCEPT !.pc = "list", !.task = task, !.named = Active]
AskContext ==
    /\ ContextAt("idle") /\ ExamAt("idle")
    /\ BeginContext({})
    /\ UNCHANGED <<rowsOf, pack, exam>>
ListForContext ==
    /\ ContextAt("list")
    /\ \E best \in kSubset(LesserOf(CandidateLimit, Cardinality(Stored)), Stored) :
          context' = [context EXCEPT !.pc = "search", !.listed = Stored, !.of = Active, !.lexical = best]
    /\ UNCHANGED <<rowsOf, pack, exam>>
Degraded == [context EXCEPT !.pc = "graph", !.degraded = TRUE]
(* search: of the revision named, or of the active one if none was, which must be  *)
(* active still; its own read of every hit, then the builder's.                    *)
SearchContext ==
    LET searched == IF context.named = 0 THEN Active ELSE context.named IN
    /\ ContextAt("search")
    /\ \/ context' = Degraded
       \/ /\ searched # 0 /\ searched = Active
          /\ \E hits \in SUBSET Stored :
                /\ Cardinality(hits) <= CandidateLimit
                /\ context' = [context EXCEPT !.pc = "hits", !.searched = searched, !.hits = hits]
    /\ UNCHANGED <<rowsOf, pack, exam>>
\* Mutant: the row is there, of whatever revision.
Present(id, revision) == id \in Stored
OfRevision(id, revision) == id \in Stored /\ Active = revision
ReadSearchHit ==
    /\ ContextAt("hits")
    /\ \E id \in context.hits :
          context' = [context EXCEPT !.hits = @ \ {id},
                                     !.found = IF OfRevision(id, context.searched) THEN @ \union {id} ELSE @]
    /\ UNCHANGED <<rowsOf, pack, exam>>
ReadResult ==
    /\ ContextAt("hits") /\ context.hits = {}
    /\ \E id \in context.found :
          context' = [context EXCEPT !.found = @ \ {id},
                                     !.semantic = IF OfRevision(id, context.named)
                                                  THEN @ \union {[id |-> id, revision |-> Active]} ELSE @]
    /\ UNCHANGED <<rowsOf, pack, exam>>
EndVectorSearch ==
    /\ ContextAt("hits")
    /\ context' \in {[Degraded EXCEPT !.hits = {}, !.found = {}]}
                    \union (IF context.hits = {} /\ context.found = {} THEN {[context EXCEPT !.pc = "graph"]} ELSE {})
    /\ UNCHANGED <<rowsOf, pack, exam>>
(* graph_candidates: of the chunks listed, those linked to a seed or to the query. *)
FindLinked ==
    /\ ContextAt("graph")
    /\ \E linked \in SUBSET context.listed :
          /\ Cardinality(linked) <= CandidateLimit
          /\ context' = [context EXCEPT !.pc = "memory", !.graph = linked]
    /\ UNCHANGED <<rowsOf, pack, exam>>
(* fuse_candidates: one item for an id, from the first list that has it.  A memory *)
(* has no revision and is given the one of the project.                            *)
Listed(ids) == {[id |-> id, revision |-> context.of] : id \in ids}
NotIn(items, ids) == {x \in items : x.id \notin ids}
Fused(memories) ==
    Listed(context.lexical) \union NotIn(context.semantic, context.lexical)
    \union NotIn(Listed(context.graph), context.lexical \union {x.id : x \in context.semantic})
    \union {[id |-> m, revision |-> context.named] : m \in memories}
FindMemories ==
    /\ ContextAt("memory")
    /\ \E memories \in SUBSET Memories : context' = [context EXCEPT !.pc = "select", !.ranked = Fused(memories)]
    /\ UNCHANGED <<rowsOf, pack, exam>>
(* Best first: what does not fit is passed over, unless it is the first.           *)
Fits(x) == context.selected = {} \/ context.used + CostOf[x.id] <= ContextBudget
SelectNext ==
    /\ ContextAt("select") /\ Cardinality(context.selected) < SelectionLimit
    /\ \E x \in context.ranked :
          context' = IF Fits(x)
                     THEN [context EXCEPT !.ranked = @ \ {x}, !.selected = @ \union {x}, !.used = @ + CostOf[x.id]]
                     ELSE [context EXCEPT !.ranked = @ \ {x}]
    /\ UNCHANGED <<rowsOf, pack, exam>>
ReportContext ==
    /\ ContextAt("select") /\ (context.ranked = {} \/ Cardinality(context.selected) = SelectionLimit)
    /\ context' = [NoContext EXCEPT !.pc = "done", !.task = context.task, !.named = context.named, !.of = context.of,
                                    !.selected = context.selected, !.degraded = context.degraded]
    /\ UNCHANGED <<rowsOf, pack, exam>>
AnswerAsked ==
    /\ ContextAt("done") /\ context.task = {}
    /\ context' = NoContext
    /\ UNCHANGED <<rowsOf, pack, exam>>
ContextRaises ==
    /\ context.pc \in {"list", "memory"} \/ exam.pc \in {"baseline", "project", "check"}
    /\ context' = NoContext
    /\ exam' = NoExam
    /\ UNCHANGED <<rowsOf, pack>>

--------------------------------------------------------------------------------
(* build_rag_evaluation_candidates, the review of its file, and edits of it: what  *)
(* happens to the files after they are loaded does not matter.                     *)
Unloaded == ContextAt("idle") /\ exam.pc \in {"idle", "approval", "load"}
WriteCandidates ==
    /\ Unloaded /\ Active > 0 /\ pack.tasks # Stored
    /\ pack' = [pack EXCEPT !.tasks = Stored]
    /\ UNCHANGED <<rowsOf, context, exam>>
ApprovePack ==
    /\ Unloaded /\ pack.tasks # pack.approved
    /\ pack' = [pack EXCEPT !.approved = pack.tasks]
    /\ UNCHANGED <<rowsOf, context, exam>>
EditPack ==
    /\ Unloaded /\ pack.edits < MaxPackEdits
    /\ \E tasks \in SUBSET ChunkIds \ {pack.tasks} : pack' = [pack EXCEPT !.tasks = tasks, !.edits = @ + 1]
    /\ UNCHANGED <<rowsOf, context, exam>>

(* load_governed_rag_evaluation: the hash of the tasks, the approval, the tasks.   *)
HashPack ==
    /\ ExamAt("idle") /\ ContextAt("idle")
    /\ exam' = [NoExam EXCEPT !.pc = "approval", !.digest = pack.tasks]
    /\ UNCHANGED <<rowsOf, context, pack>>
ReadApproval ==
    /\ ExamAt("approval")
    /\ exam' = IF pack.approved = exam.digest /\ Cardinality(pack.approved) >= MinTasks
               THEN [exam EXCEPT !.pc = "load", !.approved = pack.approved] ELSE NoExam
    /\ UNCHANGED <<rowsOf, context, pack>>
LoadTasks ==
    /\ ExamAt("load")
    /\ exam' = IF Cardinality(pack.tasks) = Cardinality(exam.approved) /\ Cardinality(pack.tasks) >= MinTasks
               THEN [exam EXCEPT !.pc = "task", !.tasks = pack.tasks, !.todo = pack.tasks] ELSE NoExam
    /\ UNCHANGED <<rowsOf, context, pack>>

(* evaluate: for each task a context, the chunks again for the lexical baseline,   *)
(* the project again, and each chunk again.                                        *)
TakeTask ==
    /\ ExamAt("task") /\ ContextAt("idle")
    /\ \E task \in exam.todo : BeginContext({task}) /\ exam' = [exam EXCEPT !.pc = "build", !.todo = @ \ {task}]
    /\ UNCHANGED <<rowsOf, pack>>
MeasureContext ==
    LET chunks == {x \in context.selected : x.id \in ChunkIds} IN
    /\ ExamAt("build") /\ ContextAt("done")
    /\ \E missed \in {n \in 0..1 : n = 0 => \E x \in chunks : x.id \in context.task} :
          exam' = [exam EXCEPT !.pc = "baseline", !.misses = @ + missed, !.degraded = @ \/ context.degraded,
                               !.checks = chunks, !.results = @ \union {[task |-> context.task, chunks |-> chunks,
                                                                         named |-> context.named]}]
    /\ UNCHANGED <<rowsOf, context, pack>>
MeasureBaseline ==
    /\ ExamAt("baseline")
    /\ \E missed \in {n \in 0..1 : n = 0 => context.task \subseteq Stored} :
          exam' = [exam EXCEPT !.pc = "project", !.baseline = @ + missed]
    /\ context' = NoContext
    /\ UNCHANGED <<rowsOf, pack>>
ReadProjectAgain ==
    /\ ExamAt("project")
    /\ exam' = [exam EXCEPT !.pc = "check", !.revision = Active]
    /\ UNCHANGED <<rowsOf, context, pack>>
StaleChunk(id, revision) == id \notin Stored \/ Active # revision
CheckChunkAgain ==
    /\ ExamAt("check")
    /\ \E x \in exam.checks :
          exam' = [exam EXCEPT !.checks = @ \ {x}, !.stale = @ \/ StaleChunk(x.id, exam.revision)]
    /\ UNCHANGED <<rowsOf, context, pack>>
NextTask ==
    /\ ExamAt("check") /\ exam.checks = {} /\ exam.todo # {}
    /\ exam' = [exam EXCEPT !.pc = "task"]
    /\ UNCHANGED <<rowsOf, context, pack>>
(* The other metrics may be met or not; the recall must also be above that of the  *)
(* lexical baseline.                                                               *)
MayPass == exam.misses <= AllowedMisses /\ exam.misses < exam.baseline /\ ~exam.degraded /\ ~exam.stale
ConcludeExam ==
    /\ ExamAt("check") /\ exam.checks = {} /\ exam.todo = {}
    /\ \E status \in {"failed"} \union {s \in {"passed"} : MayPass} : exam' = [exam EXCEPT !.pc = status, !.revision = 0]
    /\ UNCHANGED <<rowsOf, context, pack>>
ForgetExam ==
    /\ exam.pc \in {"passed", "failed"}
    /\ exam' = NoExam
    /\ UNCHANGED <<rowsOf, context, pack>>

ContextNext ==
    \/ CommitRows
    \/ AskContext \/ ListForContext \/ SearchContext \/ ReadSearchHit \/ ReadResult \/ EndVectorSearch
    \/ FindLinked \/ FindMemories \/ SelectNext \/ ReportContext \/ AnswerAsked \/ ContextRaises
    \/ WriteCandidates \/ ApprovePack \/ EditPack
    \/ HashPack \/ ReadApproval \/ LoadTasks \/ TakeTask
    \/ MeasureContext \/ MeasureBaseline \/ ReadProjectAgain \/ CheckChunkAgain \/ NextTask
    \/ ConcludeExam \/ ForgetExam
ContextSpec == ContextInit /\ [][ContextNext]_contextVars

--------------------------------------------------------------------------------
(* A context is of what was indexed: each chunk is of the revision it says, those  *)
(* that were listed are of one revision, and all are of the one that the context   *)
(* names unless it says that it is degraded, whatever was committed between its    *)
(* reads (one that names none may have what the first revision brought meanwhile); *)
(* no chunk is in it twice, and all but a single one are within the budget.        *)
ContextFiles == {x \in context.selected : x.id \in ChunkIds}
TokensIn(items) == UNION {{x} \X (1..CostOf[x.id]) : x \in items}
BuiltFromIndex ==
    ContextAt("done") =>
        /\ \A x \in ContextFiles : x.id \in rowsOf[x.revision] /\ x.revision \in {context.of, context.named}
        /\ ~context.degraded /\ context.named # 0 => \A x \in ContextFiles : x.revision = context.named
        /\ \A x, y \in context.selected : x.id = y.id => x = y
        /\ Cardinality(context.selected) > 1 => Cardinality(TokensIn(context.selected)) <= ContextBudget
(* An evaluation that passed judged such contexts only, and the chunk of each task *)
(* was in its context, but for the misses allowed.                                 *)
PassedTogether ==
    ExamAt("passed") =>
        /\ \A r \in exam.results : r.named # 0 => {x.id : x \in r.chunks} \subseteq rowsOf[r.named]
        /\ Cardinality({r \in exam.results : ~(r.task \subseteq {x.id : x \in r.chunks})}) <= AllowedMisses
RetrievedTogether == BuiltFromIndex /\ PassedTogether

(* Expected to fail: a context is of the revision that it names and that its       *)
(* evidence ids are hashed with ("index revision ... and an immutable report       *)
(* hash", docs/craftly_complete_architecture_manual.md:5493); the tasks evaluated  *)
(* are the ones approved; all of them were evaluated on one revision.              *)
NamesItsRevision == ContextAt("done") => \A x \in ContextFiles : x.revision = context.named
EvaluatedAsGoverned == ExamAt("passed") => exam.tasks = exam.approved
================================================================================
