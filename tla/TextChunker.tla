---------------------------- MODULE TextChunker ----------------------------
(***************************************************************************)
(* FileChunker (libqt/io/filechunker.h): chunkFiles reads file after file,  *)
(* the text of each is cut into chunks of chunkSize, and the client's       *)
(* callback sets startPos for the next one.  One callback moves it to the   *)
(* last sentence or paragraph boundary in the chunk, with the finders of    *)
(* File (libqt/io/file.h) on a text that it knows itself, for chunkFile     *)
(* hands it only the chunk; another sets it to anything, or leaves it.      *)
(*                                                                          *)
(* A character is its class.  Positions count from 0, as in the code.       *)
(***************************************************************************)
EXTENDS Integers, Sequences, FiniteSets

CONSTANTS
    Jobs,        \* lists of files, each with the boundary the callback looks for,
                 \* or "any" for a callback that does as it likes
    ChunkSizes,  \* the chunkSize arguments
    Positions,   \* what the latter sets startPos to
    MaxChunks    \* bound: chunks of one text that it asks for

\* A letter; one of . ! ? ;  one of " ' ) ]  a blank; CR; LF.
Classes == {"letter", "stop", "closing", "blank", "cr", "lf"}

ASSUME JobsAssumption ==
    Jobs \subseteq Seq([text : Seq(Classes), cut : {"sentence", "paragraph", "none", "any"}])
ASSUME SizesAssumption == ChunkSizes \subseteq Int
ASSUME PositionsAssumption == Positions \subseteq Int /\ MaxChunks \in Nat

VARIABLES
    rest,        \* filePaths still to come
    text, cut, chunkSize,   \* the arguments of chunkText
    pc,          \* "open", "call", "first", "callback", "loop", "return", "done"
    startPos,    \* chunk.startPos
    offset,      \* chunk.offset
    data,        \* length of chunk.data
    m_totalChunks,
    result,      \* what chunkText or chunkFile returns
    totalChunks, \* of chunkFiles
    handed       \* history: chunks that the callback was given

chunkVars == <<rest, text, cut, chunkSize, pc, startPos, offset, data, m_totalChunks,
               result, totalChunks, handed>>

MinOf(a, b) == IF a < b THEN a ELSE b

-----------------------------------------------------------------------------
(* File::findSentenceBoundary and findParagraphBoundary                     *)

\* Do the characters of t from position i on belong to the classes of seq.
Reads(t, i, seq) ==
    /\ i + Len(seq) =< Len(t)
    /\ \A k \in DOMAIN seq : t[i + k] \in seq[k]

Space == {"blank", "cr", "lf"}

\* The position that character i makes the loop return, or 0 to go on.
SentenceHit(t, i) ==
    CASE Reads(t, i, <<{"stop"}, Space>>)               -> i + 2
      [] Reads(t, i, <<{"stop"}, {"closing"}, Space>>)  -> i + 3
      [] Reads(t, i, <<{"stop"}>>) /\ i + 1 = Len(t)    -> i + 1
      [] OTHER                                          -> 0

ParagraphHit(t, i) ==
    CASE Reads(t, i, <<{"cr"}, {"lf"}, {"cr"}, {"lf"}>>) -> i + 4
      [] Reads(t, i, <<{"lf"}, {"lf"}>>)                 -> i + 2
      [] Reads(t, i, <<{"lf"}, {"cr"}, {"lf"}>>)         -> i + 3
      [] OTHER                                           -> 0

Hit(kind, t, i) ==
    CASE kind = "sentence"  -> SentenceHit(t, i)
      [] kind = "paragraph" -> ParagraphHit(t, i)
      [] OTHER              -> 0

\* Mutant of FindBoundary: the loop runs upwards.
FindFirstBoundary(kind, t, start, end) ==
    LET from[i \in 0 .. Len(t)] ==
            IF i >= end THEN end
            ELSE IF Hit(kind, t, i) # 0 THEN Hit(kind, t, i) ELSE from[i + 1]
    IN  from[start + 1]

\* for(i = end - 1; i > start; --i) if hit return it;  return end
FindBoundary(kind, t, start, end) ==
    LET from[i \in -1 .. Len(t)] ==
            IF i =< start THEN end
            ELSE IF Hit(kind, t, i) # 0 THEN Hit(kind, t, i) ELSE from[i - 1]
    IN  from[end - 1]

-----------------------------------------------------------------------------
(* FileChunker::chunkText                                                   *)

ChunkInit ==
    /\ rest \in Jobs
    /\ chunkSize \in ChunkSizes
    /\ text = <<>> /\ cut = "none"
    /\ pc = "open"
    /\ startPos = 0 /\ offset = 0 /\ data = 0
    /\ m_totalChunks = 0 /\ result = 0
    /\ totalChunks = 0 /\ handed = 0

listed == <<rest, totalChunks>>
args   == <<text, cut, chunkSize>>

\* chunkFile(): the next file cannot be opened, which gives -1, or is read.
ChunkFile(opened) ==
    /\ pc = "open" /\ rest # <<>>
    /\ rest' = Tail(rest)
    /\ IF opened
       THEN text' = Head(rest).text /\ cut' = Head(rest).cut /\ pc' = "call" /\ UNCHANGED result
       ELSE pc' = "return" /\ result' = -1 /\ UNCHANGED <<text, cut>>
    /\ UNCHANGED <<chunkSize, startPos, offset, data, m_totalChunks, totalChunks, handed>>

\* Mutant of ChunkFiles: failures are counted too.
ChunkFilesAddsAll ==
    /\ \/ pc = "return" /\ totalChunks' = totalChunks + result /\ pc' = "open"
       \/ pc = "open" /\ rest = <<>> /\ pc' = "done" /\ UNCHANGED totalChunks
    /\ UNCHANGED <<rest, args, startPos, offset, data, m_totalChunks, result, handed>>

\* chunkFiles(): the sum of what the files gave, but for the failures.
ChunkFiles ==
    /\ \/ /\ pc = "return"
          /\ totalChunks' = IF result > 0 THEN totalChunks + result ELSE totalChunks
          /\ pc' = "open"
       \/ pc = "open" /\ rest = <<>> /\ pc' = "done" /\ UNCHANGED totalChunks
    /\ UNCHANGED <<rest, args, startPos, offset, data, m_totalChunks, result, handed>>

\* An empty text is no chunk; otherwise the first callback comes before any
\* chunk.
ChunkText ==
    /\ pc = "call"
    /\ IF text = <<>>
       THEN pc' = "return" /\ result' = 0 /\ UNCHANGED <<startPos, offset, data, m_totalChunks>>
       ELSE /\ pc' = "first"
            /\ startPos' = 0 /\ offset' = MinOf(chunkSize, Len(text)) /\ data' = 0
            /\ m_totalChunks' = 0
            /\ UNCHANGED result
    /\ UNCHANGED <<listed, args, handed>>

\* Where the callback leaves startPos.  A client's that uses the finders, on the
\* text, which it must have from elsewhere, moves it past the chunk it got, or
\* back to the boundary in it; any other leaves it anywhere.
Moves ==
    CASE cut = "any"  -> Positions \cup {startPos}
      [] pc = "first" -> {startPos}
      [] OTHER        -> {FindBoundary(cut, text, startPos, startPos + data)}

\* The callback, which may also end the loop.
Callback(go) ==
    /\ pc \in {"first", "callback"}
    /\ go /\ cut = "any" => m_totalChunks < MaxChunks
    /\ \E p \in Moves : startPos' = p
    /\ handed' = IF pc = "first" THEN handed ELSE handed + 1
    /\ IF go THEN pc' = "loop" /\ UNCHANGED result
             ELSE pc' = "return" /\ result' = m_totalChunks
    /\ UNCHANGED <<listed, args, offset, data, m_totalChunks>>

\* The length of text.mid(pos, n), for a position below the end: of a negative
\* one only what reaches into the text.
Mid(pos, n) == IF pos >= 0 THEN n ELSE IF n + pos > 0 THEN n + pos ELSE 0

\* Mutant of Loop: a short chunk ends the loop.
LoopDropsTail ==
    /\ pc = "loop"
    /\ offset' = MinOf(chunkSize, Len(text) - startPos)
    /\ IF offset' < chunkSize
       THEN pc' = "return" /\ result' = m_totalChunks /\ UNCHANGED <<data, m_totalChunks>>
       ELSE /\ data' = Mid(startPos, offset')
            /\ m_totalChunks' = m_totalChunks + 1
            /\ pc' = "callback"
            /\ UNCHANGED result
    /\ UNCHANGED <<listed, args, startPos, handed>>

Loop ==
    /\ pc = "loop"
    /\ offset' = MinOf(chunkSize, Len(text) - startPos)
    /\ IF offset' < 1 \/ startPos >= Len(text)
       THEN pc' = "return" /\ result' = m_totalChunks /\ UNCHANGED <<data, m_totalChunks>>
       ELSE /\ data' = Mid(startPos, offset')
            /\ m_totalChunks' = m_totalChunks + 1
            /\ pc' = "callback"
            /\ UNCHANGED result
    /\ UNCHANGED <<listed, args, startPos, handed>>

ChunkNext ==
    \/ ChunkText \/ Loop \/ ChunkFiles
    \/ \E opened \in BOOLEAN : ChunkFile(opened)
    \/ \E go \in BOOLEAN : Callback(go)

ChunkSpec == ChunkInit /\ [][ChunkNext]_chunkVars

-----------------------------------------------------------------------------
(* Properties                                                               *)

\* What marks a boundary, which is where the mark ends.
Marks(kind) ==
    CASE kind = "sentence"  -> {<<{"stop"}, Space>>, <<{"stop"}, {"closing"}, Space>>}
      [] kind = "paragraph" -> {<<{"lf"}, {"lf"}>>, <<{"lf"}, {"cr"}, {"lf"}>>,
                                <<{"cr"}, {"lf"}, {"cr"}, {"lf"}>>}
      [] OTHER              -> {}

\* The boundaries whose mark starts between positions first and last, the end
\* of a text that ends its last sentence among them.
Boundaries(kind, t, first, last) ==
    {mark[1] + Len(mark[2]) :
        mark \in {im \in (first .. last) \X Marks(kind) : Reads(t, im[1], im[2])}}
    \cup (IF kind = "sentence" /\ Len(t) - 1 \in first .. last /\ t[Len(t)] = "stop"
          THEN {Len(t)} ELSE {})

\* The downward loop, which returns at its first hit, finds the last boundary
\* of the chunk that is not marked at its first character, and the end of the
\* chunk when there is none.
CutIsLastBoundary ==
    [][ pc = "callback" /\ cut # "any" =>
          LET found == Boundaries(cut, text, startPos + 1, startPos + data - 1)
          IN  IF found = {} THEN startPos' = startPos + data
              ELSE startPos' \in found /\ \A b \in found : b =< startPos' ]_chunkVars

\* With a boundary finder, startPos moves forward with every chunk and never past
\* the text, though a boundary may lie up to three characters past the chunk: so
\* the loop ends.  With any callback, also one that leaves startPos, or sets it
\* before or past the text, the loop ends by itself only past the text, whatever
\* the last chunk's size; with a finder exactly at its end.
ForwardToTheEnd ==
    [][ /\ pc = "callback" /\ cut # "any"
           => /\ startPos' > startPos
              /\ startPos' =< startPos + data + 3 /\ startPos' =< Len(text)
        /\ pc = "loop" /\ pc' = "return" /\ chunkSize > 0
           => startPos >= Len(text) /\ (cut # "any" => startPos = Len(text)) ]_chunkVars

\* What chunkFiles() returns is the number of chunks the callback was given, over
\* all files: those that cannot be opened, those it stopped in the middle, those
\* it had repeated, and the callback before the first chunk of each do not blur
\* it.
CountsWhatItGave ==
    pc = "done" => totalChunks = handed
=============================================================================
