---------------------------- MODULE RepositoryChunks ----------------------------
(* How a repository becomes chunks (indexing/repository_indexer.py): its files are *)
(* read, their revision is named, each is parsed into symbols or cut into runs of  *)
(* lines, what is too long is cut into overlapping parts, and the calls between    *)
(* symbols are resolved before all of it is committed.  RagIndex has the revisions *)
(* themselves, and the workers.                                                    *)
(*                                                                                 *)
(* A text is a sequence of characters: an end of line, a form feed, any other.     *)
(* What a parser finds in it is any set of symbols; the files of a repository only *)
(* meet in the call graph, where two symbols of one file meet as well: there is    *)
(* one file.                                                                       *)
EXTENDS Integers, FiniteSets, Sequences, Functions

CONSTANTS
    Characters,     \* "x", "n" the end of a line, "f" a form feed
    MaxText,        \* bound: characters of a file
    Languages,      \* "python", "tree" (a Tree-sitter language), "text"
    SymbolNames,    \* names of symbols, and of what they call
    MaxSymbols,     \* bound: symbols of a file
    ChunkLines,     \* max_chunk_lines
    TokenChars,     \* 4: characters taken for a token
    ChunkTokens,    \* max_chunk_tokens
    OverlapTokens,  \* overlap_tokens
    MaxCheckOuts    \* bound: commits checked out meanwhile

ASSUME ChunksAssumption ==
    /\ {MaxText, MaxSymbols, MaxCheckOuts} \subseteq Nat
    /\ {ChunkLines, TokenChars, ChunkTokens} \subseteq Nat \ {0}
    /\ OverlapTokens \in 0..ChunkTokens - 1

VARIABLES
    checkout,   \* the commit in the working directory
    indexing,   \* the run: what it read and where it is
    queue,      \* chunks of the file not bounded yet
    cut,        \* bound_chunk: the chunk under the knife, and where
    chunks,     \* all_chunks
    calls       \* the resolved calls, as pairs of chunk ids

chunkVars == <<checkout, indexing, queue, cut, chunks, calls>>

NoText == <<>>
NoCut == [whole |-> {}, start |-> 0, part |-> 0]
SourceTexts == UNION {[1..n -> Characters] : n \in 0..MaxText}
MaxChars == ChunkTokens * TokenChars
OverlapChars == OverlapTokens * TokenChars
SourceText == indexing.text

ChunksInit ==
    /\ checkout = 1
    /\ indexing = [pc |-> "idle", text |-> NoText, language |-> "text", version |-> 0, revision |-> 0,
                   cancelled |-> FALSE, symbols |-> {}]
    /\ queue = {} /\ cut = NoCut /\ chunks = {} /\ calls = {}

IndexingAt(pc) == indexing.pc = pc
IndexingGoes(pc) == indexing' = [indexing EXCEPT !.pc = pc]
LargerOf(a, b) == IF a > b THEN a ELSE b
SmallerOf(a, b) == IF a < b THEN a ELSE b

(* Lines, counted by the ends of line, or as str.splitlines does.                  *)
EndsOfLine == {i \in DOMAIN SourceText : SourceText[i] = "n"}
Separators == {i \in DOMAIN SourceText : SourceText[i] \in {"n", "f"}}
LineOf(i, separators) == 1 + Cardinality({j \in separators : j < i})
Splitlines == {LineOf(i, Separators) : i \in DOMAIN SourceText}
(* The offsets of lines a to b of splitlines, without the last separator.          *)
OffsetsOf(a, b) ==
    {i \in DOMAIN SourceText : LineOf(i, Separators) \in a..b /\ ~(i \in Separators /\ LineOf(i, Separators) = b)}
FirstOffset(offsets) == CHOOSE i \in offsets : \A j \in offsets : i <= j
(* "\n".join of split lines: a form feed between them is now an end of line.       *)
ContentOf(c) == [i \in 1..c.to - c.from |-> IF SourceText[c.from + i] = "f" /\ c.joined THEN "n" ELSE SourceText[c.from + i]]
Newlines(c, from, to) == Cardinality({i \in from + 1..to : ContentOf(c)[i] = "n"})

--------------------------------------------------------------------------------
(* iter_source_files, one moment for the file; persist_source_snapshot, which may  *)
(* fail; resolve_source_revision asks git when all is read; begin_index_revision.  *)
(* What is checked out before or after all that does not matter.                   *)
CheckOut ==
    /\ checkout <= MaxCheckOuts /\ IndexingAt("snapshot")
    /\ checkout' = checkout + 1
    /\ UNCHANGED <<indexing, queue, cut, chunks, calls>>
ReadSource ==
    /\ IndexingAt("idle")
    /\ \E text \in SourceTexts, language \in Languages :
          indexing' = [indexing EXCEPT !.pc = "snapshot", !.text = text, !.language = language, !.version = checkout]
    /\ UNCHANGED <<checkout, queue, cut, chunks, calls>>
SnapshotSource ==
    /\ IndexingAt("snapshot")
    /\ indexing' \in {[indexing EXCEPT !.pc = "parse", !.revision = checkout], [indexing EXCEPT !.pc = "failed"]}
    /\ UNCHANGED <<checkout, queue, cut, chunks, calls>>
CancelIndexing ==
    /\ ~indexing.cancelled /\ indexing.pc \in {"parse", "bound", "graph"}
    /\ indexing' = [indexing EXCEPT !.cancelled = TRUE]
    /\ UNCHANGED <<checkout, queue, cut, chunks, calls>>

--------------------------------------------------------------------------------
(* chunk_file.  A chunk: its lines, its symbol, the offsets of its content.        *)
Uncut == -1
WholeChunk(first, last, name, from, to, joined, called, parent) ==
    [first |-> first, last |-> last, symbol |-> name, from |-> from, to |-> to, joined |-> joined,
     calls |-> called, parent |-> parent, part |-> Uncut]
NoSymbol == "no symbol"

(* ast numbers lines by their ends, and the content is taken from splitlines.      *)
PythonChunk(first, last, name, called) ==
    LET offsets == OffsetsOf(first, last)
        from == IF offsets = {} THEN 0 ELSE FirstOffset(offsets) - 1
    IN  WholeChunk(first, last, name, from, from + Cardinality(offsets), TRUE, called, NoSymbol)
PythonSymbols ==
    {PythonChunk(first, last, name, called) :
        first \in {LineOf(i, EndsOfLine) : i \in DOMAIN SourceText}, last \in {LineOf(i, EndsOfLine) : i \in DOMAIN SourceText},
        name \in SymbolNames, called \in SUBSET SymbolNames}
(* Tree-sitter gives offsets and rows; a symbol inside another has it as parent.   *)
TreeChunk(from, to, name, called) ==
    WholeChunk(LineOf(from + 1, EndsOfLine), LineOf(to, EndsOfLine), name, from, to, FALSE, called, NoSymbol)
TreeSymbols ==
    {TreeChunk(from, to, name, called) :
        from \in 0..Len(SourceText), to \in 1..Len(SourceText), name \in SymbolNames, called \in SUBSET SymbolNames}
Inside(c, d) == d.from <= c.from /\ c.to <= d.to /\ <<c.from, c.to>> # <<d.from, d.to>>
WithParents(S) ==
    {[c EXCEPT !.parent = IF \E d \in S : Inside(c, d) THEN (CHOOSE d \in S : Inside(c, d)).symbol ELSE NoSymbol] : c \in S}
(* line_chunks: runs of lines; the first symbol a pattern finds in one, if any.    *)
LineChunks(name) ==
    {LET last == SmallerOf(first + ChunkLines - 1, Cardinality(Splitlines))
         offsets == OffsetsOf(first, last)
         from == IF offsets = {} THEN 0 ELSE FirstOffset(offsets) - 1
     IN  WholeChunk(first, last, name, from, from + Cardinality(offsets), TRUE, {}, NoSymbol) :
        first \in {l \in Splitlines : l % ChunkLines = 1 % ChunkLines}}
Parsed ==
    {Range(symbols) : symbols \in [1..MaxSymbols ->
        IF indexing.language = "python" THEN {c \in PythonSymbols : c.first <= c.last /\ c.from < c.to}
        ELSE IF indexing.language = "tree" THEN {c \in TreeSymbols : c.from < c.to} ELSE {}]}
ParseFile ==
    /\ IndexingAt("parse")
    /\ \/ indexing.cancelled /\ IndexingGoes("failed") /\ UNCHANGED queue
       \/ indexing.language = "tree" /\ IndexingGoes("failed") /\ UNCHANGED queue  \* production_mode, no parser
       \/ /\ ~indexing.cancelled
          /\ \E found \in Parsed \union {LineChunks(name) : name \in SymbolNames \union {NoSymbol}} :
                /\ queue' = WithParents(found)
                /\ indexing' = [indexing EXCEPT !.pc = "bound", !.symbols = WithParents(found)]
    /\ UNCHANGED <<checkout, cut, chunks, calls>>

(* bound_chunk.  A chunk within the tokens is kept; another is cut at the last end *)
(* of line before the limit, and the next part begins a little before that.        *)
WithinTokens(c) == LargerOf(1, (c.to - c.from) \div TokenChars) <= ChunkTokens
EndsBefore(c, start, limit) == {i \in start + 1..limit - 1 : ContentOf(c)[i + 1] = "n"}
SegmentEnd(c, start) ==
    LET limit == SmallerOf(c.to - c.from, start + MaxChars) IN
    IF limit < c.to - c.from /\ EndsBefore(c, start, limit) # {}
    THEN CHOOSE i \in EndsBefore(c, start, limit) : \A j \in EndsBefore(c, start, limit) : j <= i
    ELSE limit
\* Mutant: the next part begins after the end of line.
AfterNewline(start, end) == end + 1
NextStart(start, end) == LargerOf(start + 1, end - OverlapChars)
SegmentOf(c, start, end, part) ==
    LET first == c.first + Newlines(c, 0, start) IN
    [c EXCEPT !.first = first, !.last = SmallerOf(c.last, first + Newlines(c, start, end)),
              !.from = c.from + start, !.to = c.from + end, !.part = part]
TakeChunk ==
    /\ IndexingAt("bound") /\ cut = NoCut /\ queue # {}
    /\ LET c == CHOOSE c \in queue : TRUE IN
          /\ queue' = queue \ {c}
          /\ IF WithinTokens(c) THEN chunks' = chunks \union {c} /\ UNCHANGED cut
             ELSE cut' = [NoCut EXCEPT !.whole = {c}] /\ UNCHANGED chunks
    /\ UNCHANGED <<checkout, indexing, calls>>
CutPart ==
    /\ IndexingAt("bound") /\ cut # NoCut
    /\ LET c == CHOOSE c \in cut.whole : TRUE
           end == SegmentEnd(c, cut.start)
       IN  /\ chunks' = chunks \union {SegmentOf(c, cut.start, end, cut.part)}
           /\ cut' = IF end >= c.to - c.from THEN NoCut
                     ELSE [cut EXCEPT !.start = NextStart(cut.start, end), !.part = @ + 1]
    /\ UNCHANGED <<checkout, indexing, queue, calls>>

--------------------------------------------------------------------------------
(* chunk_payload: the id of a chunk is a hash of these.                            *)
ChunkIdentity(c) == <<c.symbol, c.first, c.last, ContentOf(c)>>
(* resolve_interprocedural_graph: a call is of the symbol with that qualified      *)
(* name, or else of that name, if one chunk only has it.                           *)
CandidatesFor(name) ==
    LET exact == {c \in chunks : c.symbol = name /\ c.parent = NoSymbol}
    IN  IF exact # {} THEN exact ELSE {c \in chunks : c.symbol = name}
ResolvedCalls(c) == {name \in c.calls : Cardinality(CandidatesFor(name)) = 1}
ResolveGraph ==
    /\ IndexingAt("bound") /\ queue = {} /\ cut = NoCut
    /\ calls' = UNION {{<<ChunkIdentity(c), ChunkIdentity(CHOOSE d \in CandidatesFor(name) : TRUE)>> :
                           name \in ResolvedCalls(c)} : c \in chunks}
    /\ IndexingGoes("graph")
    /\ UNCHANGED <<checkout, queue, cut, chunks>>
(* commit_index_revision refuses chunks with the same id.                          *)
AllDistinct == \A c, d \in chunks : ChunkIdentity(c) = ChunkIdentity(d) => c = d
CommitChunks ==
    /\ IndexingAt("graph")
    /\ IndexingGoes(IF indexing.cancelled \/ ~AllDistinct THEN "failed" ELSE "ready")
    /\ UNCHANGED <<checkout, queue, cut, chunks, calls>>

ChunksNext ==
    \/ CheckOut \/ ReadSource \/ SnapshotSource \/ CancelIndexing
    \/ ParseFile \/ TakeChunk \/ CutPart \/ ResolveGraph \/ CommitChunks
ChunksSpec == ChunksInit /\ [][ChunksNext]_chunkVars

--------------------------------------------------------------------------------
(* What can be retrieved is the source: every character of every symbol found (or  *)
(* of the file, when none is) is in a chunk of it, however it was cut; a chunk is  *)
(* within the limit; it begins at the line it says and does not reach beyond the   *)
(* last it says.  And a revision that is ready has one chunk for each id, so that  *)
(* a call between its chunks leads to one.                                         *)
PartsOf(s) == {c \in chunks : c.symbol = s.symbol /\ s.from <= c.from /\ c.to <= s.to}
CoversSymbols ==
    indexing.pc \in {"graph", "ready"} =>
        \A s \in indexing.symbols : \A i \in s.from + 1..s.to : \E c \in PartsOf(s) : c.from < i /\ i <= c.to
LinesAreTrue ==
    \A c \in chunks : c.from < c.to =>
        /\ c.first = LineOf(c.from + 1, EndsOfLine)
        /\ \A i \in c.from + 1..c.to : LineOf(i, EndsOfLine) <= c.last
WithinLimit == \A c \in chunks : c.to - c.from < MaxChars + TokenChars
CallsLeadSomewhere == IndexingAt("ready") => \A e \in calls : Cardinality({c \in chunks : ChunkIdentity(c) = e[2]}) = 1
ChunksCover == CoversSymbols /\ LinesAreTrue /\ WithinLimit /\ CallsLeadSomewhere

(* Expected to fail.  A revision is of the commit it names; what was not cancelled *)
(* is indexed, which a text that repeats itself is not (commit_index_revision      *)
(* finds duplicate ids); a symbol that was cut is still called, of which "the      *)
(* graph resolver emits resolved callees"                                          *)
(* (docs/craftly_complete_architecture_manual.md:5472).                            *)
RevisionIsRead == IndexingAt("ready") => indexing.revision = indexing.version
AlwaysIndexed == IndexingAt("graph") => AllDistinct
CutIsStillCalled == IndexingAt("ready") => \A s \in indexing.symbols :
    \A name \in s.calls : Cardinality({d \in indexing.symbols : d.symbol = name}) = 1
        => \E e \in calls : e[2][1] = name
================================================================================
