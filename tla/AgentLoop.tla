------------------------------- MODULE AgentLoop -------------------------------
(* The agentic loop (runtime/agent_loop.py): a model is asked, turn by turn, for a  *)
(* tool call or a patch; either changes a copy of the workspace, and a command      *)
(* verifies it.  A unified diff is applied hunk by hunk, each where its old lines   *)
(* are found nearest.                                                               *)
(*                                                                                  *)
(* Abstracted: the workspace is one source file, a sequence of lines, and its       *)
(* tests, and no line ends with another (a block that is nowhere is also looked for *)
(* inside the joined text); what the command says is open; the model may answer     *)
(* anything, so that the dialogue is left out.                                      *)
EXTENDS Integers, FiniteSets, Sequences, SequencesExt

CONSTANTS
    LineValues,   \* the lines there are
    MaxLines,     \* bound: lines of the file
    MaxNewLines,  \* bound: lines that a hunk puts in
    MaxTurns      \* max_turns

ASSUME LoopAssumption == {MaxLines, MaxNewLines, MaxTurns} \subseteq Nat

VARIABLES
    workspace,  \* the workspace of the task
    sandbox,    \* the copy: its source file and whether its tests are those given
    trial       \* the run: turn, where it is, what it will report, and history

loopVars == <<workspace, sandbox, trial>>

Nowhere == -1
NoRunYet == [file |-> <<>>, tests |-> FALSE]
SomeLines(n) == SeqOf(LineValues, n)

LoopInit ==
    /\ workspace \in [file : SomeLines(MaxLines), tests : {TRUE}]
    /\ sandbox = workspace
    /\ trial = [pc |-> "ask", turn |-> 1, status |-> "max_turns_exceeded", exit |-> Nowhere, patched |-> FALSE,
                ranOn |-> NoRunYet, meant |-> {}, alone |-> {}]

--------------------------------------------------------------------------------
(* apply_patch_hunks: from the last hunk to the first, so that a hunk does not move *)
(* the lines of the next; where the old lines are, nearest to where they should be  *)
(* and rather after than before; a hunk that is nowhere is left out.                *)
Places(text, old) == {c \in 0..Len(text) - Len(old) : SubSeq(text, c + 1, c + Len(old)) = old}
Away(c, from) == IF c < from THEN 2 * (from - c) + 1 ELSE 2 * (c - from)
PlaceOf(text, hunk) ==
    LET places == Places(text, hunk.old) IN
    IF places = {} THEN Nowhere
    ELSE CHOOSE c \in places : \A d \in places : Away(c, hunk.at - 1) <= Away(d, hunk.at - 1)
ApplyHunk(text, hunk) ==
    LET c == PlaceOf(text, hunk) IN
    IF c = Nowhere THEN text
    ELSE SubSeq(text, 1, c) \o hunk.new \o SubSeq(text, c + Len(hunk.old) + 1, Len(text))
Topmost(hunks) == CHOOSE h \in hunks : \A g \in hunks : h.at <= g.at
FromTheEnd(hunks) == CHOOSE h \in hunks : \A g \in hunks : g.at <= h.at
(* Of one hunk or of two: DiffsOf bounds them.                                      *)
ApplyHunks(text, hunks) ==
    LET first == FromTheEnd(hunks)
        others == hunks \ {first}
    IN  IF others = {} THEN ApplyHunk(text, first)
        ELSE ApplyHunk(ApplyHunk(text, first), FromTheEnd(others))

(* The hunks of a diff of a text, and what it means: other lines for some of it,    *)
(* and the lines before, between and after as they are.                             *)
HunksAt(text, i) ==
    {[at |-> i, old |-> SubSeq(text, i, j), new |-> new] : j \in i..Len(text), new \in SomeLines(MaxNewLines)}
HunksOf(text) == UNION {HunksAt(text, i) : i \in 1..Len(text)}
Apart(g, h) == g.at + Len(g.old) <= h.at \/ h.at + Len(h.old) <= g.at
DiffsOf(text) ==
    {hunks \in {{g, h} : g \in HunksOf(text), h \in HunksOf(text)} : \A g, h \in hunks : g = h \/ Apart(g, h)}
LinesBefore(text, hunk) == SubSeq(text, 1, hunk.at - 1)
LinesAfter(text, hunk) == SubSeq(text, hunk.at + Len(hunk.old), Len(text))
LinesBetween(text, g, h) == SubSeq(text, g.at + Len(g.old), h.at - 1)
Meant(text, hunks) ==
    LET g == Topmost(hunks)
        others == hunks \ {g}
        h == Topmost(others)
    IN  IF others = {} THEN LinesBefore(text, g) \o g.new \o LinesAfter(text, g)
        ELSE LinesBefore(text, g) \o g.new \o LinesBetween(text, g, h) \o h.new \o LinesAfter(text, h)

--------------------------------------------------------------------------------
(* run_task: a turn asks the model.  A tool call goes before a patch.  What a tool  *)
(* runs may change the copy in any way; one that is not allowed changes nothing.    *)
LoopAt(pc) == trial.pc = pc
NextTurn(t) == IF t.turn = MaxTurns THEN [t EXCEPT !.pc = "report"] ELSE [t EXCEPT !.pc = "ask", !.turn = @ + 1]
ToolTurn ==
    /\ LoopAt("ask")
    /\ sandbox' \in {sandbox} \union [file : {sandbox.file, workspace.file}, tests : BOOLEAN]
    /\ trial' = NextTurn(trial)
    /\ UNCHANGED workspace
(* apply_patch_to_workspace.  A diff was made of the file as it is in the copy or   *)
(* as it was given.                                                                 *)
Patched(file, meant, alone) ==
    /\ sandbox' = [sandbox EXCEPT !.file = file]
    /\ trial' = [trial EXCEPT !.pc = "verify", !.patched = TRUE, !.meant = meant, !.alone = {alone}]
    /\ UNCHANGED workspace
DiffTurn ==
    /\ LoopAt("ask")
    /\ \E of \in {sandbox.file, workspace.file} : \E hunks \in DiffsOf(of) :
          /\ Len(Meant(of, hunks)) <= MaxLines /\ Len(ApplyHunks(sandbox.file, hunks)) <= MaxLines
          /\ Patched(ApplyHunks(sandbox.file, hunks), IF of = sandbox.file THEN {Meant(of, hunks)} ELSE {},
                     ApplyHunks(workspace.file, hunks))
(* Anything else with code in it, a diff of another file too, replaces a function   *)
(* or the whole file; without any, or with no file to put it in, it is not applied. *)
CodeTurn ==
    /\ LoopAt("ask")
    /\ \E file \in SomeLines(MaxLines) : Patched(file, {}, file)
NotApplied ==
    /\ LoopAt("ask")
    /\ trial' = NextTurn([trial EXCEPT !.patched = TRUE, !.alone = {}, !.meant = {}])
    /\ UNCHANGED <<workspace, sandbox>>
(* Neither: the copy is verified as it is.                                          *)
ExplainTurn ==
    /\ LoopAt("ask")
    /\ trial' = [trial EXCEPT !.pc = "verify", !.meant = {}]
    /\ UNCHANGED <<workspace, sandbox>>
(* The command, which may leave the tests changed by what they run.                 *)
VerifyTurn ==
    /\ LoopAt("verify")
    /\ \E exit \in {0, 1, 124} :
          LET run == [trial EXCEPT !.exit = exit, !.ranOn = sandbox]
          IN  trial' = IF exit = 0 THEN [run EXCEPT !.pc = "report", !.status = "verified_pass"] ELSE NextTurn(run)
    /\ UNCHANGED <<workspace, sandbox>>
AskRaises ==
    /\ LoopAt("ask")
    /\ trial' = [trial EXCEPT !.pc = "raised"]
    /\ UNCHANGED <<workspace, sandbox>>

LoopNext == ToolTurn \/ DiffTurn \/ CodeTurn \/ NotApplied \/ ExplainTurn \/ VerifyTurn \/ AskRaises
LoopSpec == LoopInit /\ [][LoopNext]_loopVars

--------------------------------------------------------------------------------
(* A diff that was made of the file as it is does what it means to, however many    *)
(* lines its hunks take and put in and however often the same lines come again in   *)
(* the file.                                                                        *)
DiffsLand == LoopAt("verify") => \A text \in trial.meant : sandbox.file = text
(* What is reported to have passed is what the command ran on, and it was the last  *)
(* that it said.                                                                    *)
PassedIsRun == LoopAt("report") /\ trial.status = "verified_pass" => trial.exit = 0 /\ trial.ranOn = sandbox
PatchesLand == DiffsLand /\ PassedIsRun

(* Expected to fail.  The patch that is reported with a pass is what passes: of     *)
(* several the last is reported, without those before it and without what a tool    *)
(* did, to the tests too.                                                           *)
PatchIsEnough ==
    LoopAt("report") /\ trial.status = "verified_pass" => trial.alone = {sandbox.file} /\ sandbox.tests
================================================================================
