----------------------------- MODULE FilesProofs -----------------------------
(***************************************************************************)
(* Safety of JSON::writeFile and of zip() and unZip() among the helpers that *)
(* share the disk, for any number of threads, paths and documents, and of   *)
(* FileChunker's count and cuts, for any files.                             *)
(***************************************************************************)
EXTENDS Files, TextChunker, SequenceTheorems, FiniteSetTheorems, WellFoundedInduction, TLAPS

-----------------------------------------------------------------------------
(* FileChunker                                                              *)

\* The count in progress: chunks handed out are those of the files that are
\* through, and those of the text being cut but the one the callback is about
\* to get.
CountInv ==
    /\ totalChunks \in Nat /\ handed \in Nat /\ m_totalChunks \in Nat /\ result \in Int
    /\ pc \in {"open", "call", "done"} => handed = totalChunks
    /\ pc = "first" => m_totalChunks = 0 /\ handed = totalChunks
    /\ pc = "callback" => handed = totalChunks + (m_totalChunks - 1)
    /\ pc = "loop" => handed = totalChunks + m_totalChunks
    /\ pc = "return" => handed = totalChunks + (IF result > 0 THEN result ELSE 0)

LEMMA CountInit == ChunkInit => CountInv
  BY DEF ChunkInit, CountInv

LEMMA CountStep == CountInv /\ [ChunkNext]_chunkVars => CountInv'
<1> SUFFICES ASSUME CountInv, [ChunkNext]_chunkVars PROVE CountInv'
  OBVIOUS
<1>1. ASSUME ChunkText PROVE CountInv'
  BY <1>1 DEF CountInv, ChunkText, listed, args
<1>2. ASSUME Loop PROVE CountInv'
  BY <1>2 DEF CountInv, Loop, listed, args
<1>3. ASSUME ChunkFiles PROVE CountInv'
  BY <1>3 DEF CountInv, ChunkFiles, args
<1>4. ASSUME NEW opened \in BOOLEAN, ChunkFile(opened) PROVE CountInv'
  BY <1>4 DEF CountInv, ChunkFile
<1>5. ASSUME NEW go \in BOOLEAN, Callback(go) PROVE CountInv'
  BY <1>5 DEF CountInv, Callback, listed, args
<1>6. CASE UNCHANGED chunkVars
  BY <1>6 DEF CountInv, chunkVars
<1> QED
  BY <1>1, <1>2, <1>3, <1>4, <1>5, <1>6 DEF ChunkNext

\* What chunkFiles() returns is the number of chunks that the callback was
\* given, for any list of files, chunk size and callback, wherever it moves
\* startPos and whenever it stops.
THEOREM CountIsRight == ChunkSpec => []CountsWhatItGave
<1>1. CountInv => CountsWhatItGave
  BY DEF CountInv, CountsWhatItGave
<1> QED
  BY <1>1, CountInit, CountStep, PTL DEF ChunkSpec

-----------------------------------------------------------------------------
(* The boundary finders.  What a loop computes takes induction; here it is   *)
(* by a least counterexample.                                               *)

\* A set of natural numbers that is not empty has a least element.
LEMMA LeastNat ==
    ASSUME NEW T, T \subseteq Nat, T # {}
    PROVE  \E x \in T : \A y \in T : x =< y
<1> DEFINE R == OpToRel(<, Nat)
<1>1. IsWellFoundedOn(R, Nat)
  BY NatLessThanWellFounded
<1>2. \A x, y \in Nat : x < y => <<x, y>> \in R
  BY DEF OpToRel
<1> HIDE DEF R
<1>3. PICK x \in T : \A y \in T : ~ (<<y, x>> \in R)
  BY <1>1, WFMin
<1>4. ASSUME NEW y \in T PROVE x =< y
  <2>1. x \in Nat /\ y \in Nat
    OBVIOUS
  <2>2. ~ (y < x)
    BY <1>2, <1>3, <2>1, Zenon
  <2> QED BY <2>1, <2>2
<1> QED BY <1>4

\* A set of integers with a bound above has a greatest one.
LEMMA GreatestInt ==
    ASSUME NEW T, T \subseteq Int, T # {}, NEW b \in Int, \A y \in T : y =< b
    PROVE  \E x \in T : \A y \in T : y =< x
<1> DEFINE D == {b - y : y \in T}
<1>0. \A y \in T : b - y \in Nat
  <2> SUFFICES ASSUME NEW y \in T PROVE b - y \in Nat
    OBVIOUS
  <2>1. y \in Int /\ y =< b
    OBVIOUS
  <2> QED BY <2>1
<1>1. D \subseteq Nat /\ D # {}
  BY <1>0
<1>2. PICK z \in D : \A w \in D : z =< w
  <2> HIDE DEF D
  <2> QED BY <1>1, LeastNat
<1>3. PICK x \in T : z = b - x
  OBVIOUS
<1>4. \A y \in T : y =< x
  BY <1>2, <1>3
<1> QED BY <1>4

\* from[i] is what the loop of the boundary finders, for (; i > start; --i),
\* returns from position i on.
IsLoop(from, hit, n, start, end) ==
    from = [i \in -1 .. n |-> IF i =< start THEN end
                              ELSE IF hit[i] # 0 THEN hit[i] ELSE from[i - 1]]

\* The loop returns v at the last position that counts, or goes through.
LoopGives(v, hit, start, end) ==
    \/ v = end /\ \A i \in start + 1 .. end - 1 : hit[i] = 0
    \/ \E m \in start + 1 .. end - 1 :
          /\ hit[m] # 0 /\ v = hit[m]
          /\ \A i \in m + 1 .. end - 1 : hit[i] = 0

LEMMA LoopDown ==
    ASSUME NEW hit, NEW n \in Nat, NEW start \in Nat, NEW end \in Nat, end =< n, start < end,
           NEW from, IsLoop(from, hit, n, start, end)
    PROVE  LoopGives(from[end - 1], hit, start, end)
<1>0. \A i \in -1 .. n : from[i] = IF i =< start THEN end
                                   ELSE IF hit[i] # 0 THEN hit[i] ELSE from[i - 1]
  BY DEF IsLoop
<1>1. ASSUME NEW m \in start .. end - 1, \A i \in m + 1 .. end - 1 : hit[i] = 0
      PROVE  from[end - 1] = from[m]
  <2> DEFINE T == {i \in m .. end - 1 : from[i] # from[m]}
  <2>0. end - 1 \in m .. end - 1
    OBVIOUS
  <2>1. CASE T = {}
    BY <2>0, <2>1
  <2>2. CASE T # {}
    <3>1. T \subseteq Nat OBVIOUS
    <3>2. PICK x \in T : \A y \in T : x =< y
      <4> HIDE DEF T
      <4> QED BY <2>2, <3>1, LeastNat
    <3>3. x \in m + 1 .. end - 1 /\ hit[x] = 0
      BY <1>1, <3>2
    <3>4. x - 1 \in m .. end - 1 /\ ~ (x =< x - 1)
      BY <3>3
    <3>6. x - 1 \notin T
      BY <3>2, <3>4, Zenon
    <3>5. from[x] = from[x - 1]
      BY <1>0, <3>3
    <3> QED BY <3>2, <3>4, <3>5, <3>6
  <2> QED BY <2>1, <2>2
<1>2. CASE \A i \in start + 1 .. end - 1 : hit[i] = 0
  <2>1. start \in start .. end - 1 /\ start \in -1 .. n
    OBVIOUS
  <2>2. from[end - 1] = from[start]
    BY <1>1, <1>2, <2>1
  <2>3. from[start] = end
    BY <1>0, <2>1
  <2> QED BY <1>2, <2>2, <2>3 DEF LoopGives
<1>3. CASE \E i \in start + 1 .. end - 1 : hit[i] # 0
  <2> DEFINE T == {i \in start + 1 .. end - 1 : hit[i] # 0}
  <2>1. T \subseteq Int /\ T # {} /\ \A y \in T : y =< end
    BY <1>3
  <2>2. PICK m \in T : \A y \in T : y =< m
    <3> HIDE DEF T
    <3>1. end \in Int OBVIOUS
    <3> QED BY <2>1, <3>1, GreatestInt
  <2>3. m \in start + 1 .. end - 1 /\ hit[m] # 0 /\ \A i \in m + 1 .. end - 1 : hit[i] = 0
    BY <2>2
  <2>4. from[m] = hit[m]
    BY <1>0, <2>3
  <2>5. from[end - 1] = from[m]
    <3>1. m \in start .. end - 1 BY <2>3
    <3> QED BY <1>1, <2>3, <3>1
  <2> QED BY <2>3, <2>4, <2>5 DEF LoopGives
<1> QED BY <1>2, <1>3

\* There is such a function: the last position that counts gives its values.
LEMMA LoopDownExists ==
    ASSUME NEW hit, NEW n \in Nat, NEW start \in Nat, NEW end \in Nat
    PROVE  \E from : IsLoop(from, hit, n, start, end)
<1> DEFINE Hits(i) == {j \in start + 1 .. i : hit[j] # 0}
           last(i) == CHOOSE j \in Hits(i) : \A k \in Hits(i) : k =< j
           g == [i \in -1 .. n |-> IF Hits(i) = {} THEN end ELSE hit[last(i)]]
<1>1. ASSUME NEW i \in -1 .. n
      PROVE  g[i] = IF i =< start THEN end ELSE IF hit[i] # 0 THEN hit[i] ELSE g[i - 1]
  <2>1. CASE i =< start
    <3>1. Hits(i) = {} BY <2>1
    <3> QED BY <2>1, <3>1
  <2>2. CASE i > start /\ hit[i] # 0
    <3>1. i \in Hits(i) /\ \A k \in Hits(i) : k =< i
      BY <2>2
    <3>2. \A j \in Hits(i) : (\A k \in Hits(i) : k =< j) => j = i
      BY <3>1
    <3>3. last(i) = i
      <4> HIDE DEF Hits
      <4> QED BY <3>1, <3>2
    <3>4. Hits(i) # {} BY <3>1
    <3>5. g[i] = hit[i]
      <4> HIDE DEF Hits, last
      <4> QED BY <3>3, <3>4
    <3> HIDE DEF g
    <3> QED BY <2>2, <3>5
  <2>3. CASE i > start /\ hit[i] = 0
    <3>1. Hits(i) = Hits(i - 1)
      BY <2>3
    <3>2. last(i) = last(i - 1)
      <4> HIDE DEF Hits
      <4> QED BY <3>1
    <3>3. i - 1 \in -1 .. n
      BY <2>3
    <3>4. g[i] = g[i - 1]
      <4> HIDE DEF Hits, last
      <4> QED BY <3>1, <3>2, <3>3
    <3> HIDE DEF g
    <3> QED BY <2>3, <3>4
  <2> QED BY <2>1, <2>2, <2>3
<1>2. g = [i \in -1 .. n |-> g[i]]
  OBVIOUS
<1> HIDE DEF g
<1>3. IsLoop(g, hit, n, start, end)
  BY <1>1, <1>2 DEF IsLoop
<1> QED BY <1>3

\* What the boundary finders return.
LEMMA FindBoundaryIs ==
    ASSUME NEW kind, NEW t \in Seq(Classes), NEW start \in Nat, NEW end \in Nat,
           start < end, end =< Len(t)
    PROVE  LET found == FindBoundary(kind, t, start, end)
           IN  \/ found = end /\ \A i \in start + 1 .. end - 1 : Hit(kind, t, i) = 0
               \/ \E m \in start + 1 .. end - 1 :
                     /\ Hit(kind, t, m) # 0 /\ found = Hit(kind, t, m)
                     /\ \A i \in m + 1 .. end - 1 : Hit(kind, t, i) = 0
<1> DEFINE n == Len(t)
           hit == [i \in -1 .. n |-> Hit(kind, t, i)]
           from[i \in -1 .. n] == IF i =< start THEN end
                                  ELSE IF Hit(kind, t, i) # 0 THEN Hit(kind, t, i) ELSE from[i - 1]
           Loop2(g) == g = [i \in -1 .. n |-> IF i =< start THEN end
                                  ELSE IF Hit(kind, t, i) # 0 THEN Hit(kind, t, i) ELSE g[i - 1]]
<1>1. FindBoundary(kind, t, start, end) = from[end - 1]
  BY DEF FindBoundary
<1>2. n \in Nat
  OBVIOUS
<1>3. \A i \in -1 .. n : hit[i] = Hit(kind, t, i)
  OBVIOUS
<1> HIDE DEF hit, n
<1>4. \E g : IsLoop(g, hit, n, start, end)
  BY <1>2, LoopDownExists
<1>5. \A f : IsLoop(f, hit, n, start, end) <=> Loop2(f)
  BY <1>3 DEF IsLoop
<1>6. from = CHOOSE f : Loop2(f)
  OBVIOUS
<1> HIDE DEF from, Loop2
<1>7. Loop2(from)
  BY <1>4, <1>5, <1>6
<1>8. IsLoop(from, hit, n, start, end)
  BY <1>5, <1>7
<1>9. end =< n BY DEF n
<1>10. LoopGives(from[end - 1], hit, start, end)
  BY <1>2, <1>8, <1>9, LoopDown
<1>11. ASSUME NEW i \in start + 1 .. end - 1 PROVE hit[i] = Hit(kind, t, i)
  <2>1. i \in -1 .. n BY <1>2, <1>9
  <2> QED BY <1>3, <2>1
<1>12. CASE from[end - 1] = end /\ \A i \in start + 1 .. end - 1 : hit[i] = 0
  BY <1>1, <1>11, <1>12
<1>13. ASSUME NEW m \in start + 1 .. end - 1, hit[m] # 0, from[end - 1] = hit[m],
              \A i \in m + 1 .. end - 1 : hit[i] = 0
       PROVE  /\ Hit(kind, t, m) # 0 /\ FindBoundary(kind, t, start, end) = Hit(kind, t, m)
              /\ \A i \in m + 1 .. end - 1 : Hit(kind, t, i) = 0
  <2>1. hit[m] = Hit(kind, t, m) BY <1>11
  <2>2. ASSUME NEW i \in m + 1 .. end - 1 PROVE Hit(kind, t, i) = 0
    <3>1. i \in start + 1 .. end - 1 OBVIOUS
    <3> QED BY <1>11, <1>13, <3>1
  <2> QED BY <1>1, <1>13, <2>1, <2>2
<1> QED BY <1>10, <1>12, <1>13 DEF LoopGives

Kinds == {"sentence", "paragraph", "none"}

\* What the marks read like, character by character.
LEMMA ReadsMarks ==
    ASSUME NEW t \in Seq(Classes), NEW i \in Nat
    PROVE  /\ Reads(t, i, <<{"stop"}>>)
                 <=> i + 1 =< Len(t) /\ t[i + 1] = "stop"
           /\ Reads(t, i, <<{"stop"}, Space>>)
                 <=> i + 2 =< Len(t) /\ t[i + 1] = "stop" /\ t[i + 2] \in Space
           /\ Reads(t, i, <<{"stop"}, {"closing"}, Space>>)
                 <=> i + 3 =< Len(t) /\ t[i + 1] = "stop" /\ t[i + 2] = "closing" /\ t[i + 3] \in Space
           /\ Reads(t, i, <<{"lf"}, {"lf"}>>)
                 <=> i + 2 =< Len(t) /\ t[i + 1] = "lf" /\ t[i + 2] = "lf"
           /\ Reads(t, i, <<{"lf"}, {"cr"}, {"lf"}>>)
                 <=> i + 3 =< Len(t) /\ t[i + 1] = "lf" /\ t[i + 2] = "cr" /\ t[i + 3] = "lf"
           /\ Reads(t, i, <<{"cr"}, {"lf"}, {"cr"}, {"lf"}>>)
                 <=> /\ i + 4 =< Len(t) /\ t[i + 1] = "cr" /\ t[i + 2] = "lf"
                    /\ t[i + 3] = "cr" /\ t[i + 4] = "lf"
<1>1. Reads(t, i, <<{"stop"}>>)
         <=> i + 1 =< Len(t) /\ t[i + 1] = "stop"
  BY DEF Reads
<1>2. Reads(t, i, <<{"stop"}, Space>>)
         <=> i + 2 =< Len(t) /\ t[i + 1] = "stop" /\ t[i + 2] \in Space
  BY DEF Reads
<1>3. Reads(t, i, <<{"stop"}, {"closing"}, Space>>)
         <=> i + 3 =< Len(t) /\ t[i + 1] = "stop" /\ t[i + 2] = "closing" /\ t[i + 3] \in Space
  BY DEF Reads
<1>4. Reads(t, i, <<{"lf"}, {"lf"}>>)
         <=> i + 2 =< Len(t) /\ t[i + 1] = "lf" /\ t[i + 2] = "lf"
  BY DEF Reads
<1>5. Reads(t, i, <<{"lf"}, {"cr"}, {"lf"}>>)
         <=> i + 3 =< Len(t) /\ t[i + 1] = "lf" /\ t[i + 2] = "cr" /\ t[i + 3] = "lf"
  BY DEF Reads
<1>6. Reads(t, i, <<{"cr"}, {"lf"}, {"cr"}, {"lf"}>>)
         <=> /\ i + 4 =< Len(t) /\ t[i + 1] = "cr" /\ t[i + 2] = "lf"
                    /\ t[i + 3] = "cr" /\ t[i + 4] = "lf"
  BY DEF Reads
<1> QED BY <1>1, <1>2, <1>3, <1>4, <1>5, <1>6

\* A mark at position i ends at b, which is a boundary.
Ends(kind, t, i, b) ==
    \/ \E m \in Marks(kind) : Reads(t, i, m) /\ b = i + Len(m)
    \/ kind = "sentence" /\ i + 1 = Len(t) /\ t[i + 1] = "stop" /\ b = i + 1

\* The same, character by character.
SentenceEnds(t, i, b) ==
    \/ b = i + 2 /\ b =< Len(t) /\ t[i + 1] = "stop" /\ t[i + 2] \in Space
    \/ b = i + 3 /\ b =< Len(t) /\ t[i + 1] = "stop" /\ t[i + 2] = "closing" /\ t[i + 3] \in Space
    \/ b = i + 1 /\ b = Len(t) /\ t[i + 1] = "stop"

ParagraphEnds(t, i, b) ==
    \/ b = i + 4 /\ b =< Len(t) /\ t[i + 1] = "cr" /\ t[i + 2] = "lf" /\ t[i + 3] = "cr"
          /\ t[i + 4] = "lf"
    \/ b = i + 2 /\ b =< Len(t) /\ t[i + 1] = "lf" /\ t[i + 2] = "lf"
    \/ b = i + 3 /\ b =< Len(t) /\ t[i + 1] = "lf" /\ t[i + 2] = "cr" /\ t[i + 3] = "lf"

LEMMA EndsIs ==
    ASSUME NEW t \in Seq(Classes), NEW i \in Nat, NEW b \in Nat
    PROVE  /\ Ends("sentence", t, i, b) <=> SentenceEnds(t, i, b)
           /\ Ends("paragraph", t, i, b) <=> ParagraphEnds(t, i, b)
           /\ ~ Ends("none", t, i, b)
<1>1. /\ Reads(t, i, <<{"stop"}, Space>>)
            <=> i + 2 =< Len(t) /\ t[i + 1] = "stop" /\ t[i + 2] \in Space
      /\ Reads(t, i, <<{"stop"}, {"closing"}, Space>>)
            <=> i + 3 =< Len(t) /\ t[i + 1] = "stop" /\ t[i + 2] = "closing" /\ t[i + 3] \in Space
      /\ Len(<<{"stop"}, Space>>) = 2 /\ Len(<<{"stop"}, {"closing"}, Space>>) = 3
  BY ReadsMarks
<1>2. /\ Reads(t, i, <<{"lf"}, {"lf"}>>)
            <=> i + 2 =< Len(t) /\ t[i + 1] = "lf" /\ t[i + 2] = "lf"
      /\ Reads(t, i, <<{"lf"}, {"cr"}, {"lf"}>>)
            <=> i + 3 =< Len(t) /\ t[i + 1] = "lf" /\ t[i + 2] = "cr" /\ t[i + 3] = "lf"
      /\ Reads(t, i, <<{"cr"}, {"lf"}, {"cr"}, {"lf"}>>)
            <=> /\ i + 4 =< Len(t) /\ t[i + 1] = "cr" /\ t[i + 2] = "lf"
                /\ t[i + 3] = "cr" /\ t[i + 4] = "lf"
      /\ Len(<<{"lf"}, {"lf"}>>) = 2 /\ Len(<<{"lf"}, {"cr"}, {"lf"}>>) = 3
      /\ Len(<<{"cr"}, {"lf"}, {"cr"}, {"lf"}>>) = 4
  BY ReadsMarks
<1>3. Ends("sentence", t, i, b) <=> SentenceEnds(t, i, b)
  <2>1. Marks("sentence") = {<<{"stop"}, Space>>, <<{"stop"}, {"closing"}, Space>>}
    BY DEF Marks
  <2>2. Ends("sentence", t, i, b)
           <=> \/ Reads(t, i, <<{"stop"}, Space>>) /\ b = i + Len(<<{"stop"}, Space>>)
               \/ /\ Reads(t, i, <<{"stop"}, {"closing"}, Space>>)
                  /\ b = i + Len(<<{"stop"}, {"closing"}, Space>>)
               \/ i + 1 = Len(t) /\ t[i + 1] = "stop" /\ b = i + 1
    BY <2>1, Zenon DEF Ends
  <2> QED BY <1>1, <2>2 DEF SentenceEnds
<1>4. Ends("paragraph", t, i, b) <=> ParagraphEnds(t, i, b)
  <2>1. Marks("paragraph") = {<<{"lf"}, {"lf"}>>, <<{"lf"}, {"cr"}, {"lf"}>>,
                              <<{"cr"}, {"lf"}, {"cr"}, {"lf"}>>}
    BY DEF Marks
  <2>2. Ends("paragraph", t, i, b)
           <=> \/ Reads(t, i, <<{"lf"}, {"lf"}>>) /\ b = i + Len(<<{"lf"}, {"lf"}>>)
               \/ Reads(t, i, <<{"lf"}, {"cr"}, {"lf"}>>) /\ b = i + Len(<<{"lf"}, {"cr"}, {"lf"}>>)
               \/ /\ Reads(t, i, <<{"cr"}, {"lf"}, {"cr"}, {"lf"}>>)
                  /\ b = i + Len(<<{"cr"}, {"lf"}, {"cr"}, {"lf"}>>)
    BY <2>1, Zenon DEF Ends
  <2> QED BY <1>2, <2>2 DEF ParagraphEnds
<1>5. ~ Ends("none", t, i, b)
  BY DEF Ends, Marks
<1> QED BY <1>3, <1>4, <1>5

\* The boundaries of a chunk, by the position of their marks.
LEMMA BoundariesAre ==
    ASSUME NEW kind \in Kinds, NEW t \in Seq(Classes), NEW first \in Nat, NEW last \in Nat,
           last < Len(t), NEW b
    PROVE  b \in Boundaries(kind, t, first, last)
              <=> \E i \in first .. last : Ends(kind, t, i, b)
<1> DEFINE MarkEnds == {mark[1] + Len(mark[2]) :
             mark \in {im \in (first .. last) \X Marks(kind) : Reads(t, im[1], im[2])}}
<1>1. b \in MarkEnds <=> \E i \in first .. last : \E m \in Marks(kind) : Reads(t, i, m) /\ b = i + Len(m)
  <2>1. ASSUME NEW i \in first .. last, NEW m \in Marks(kind), Reads(t, i, m), b = i + Len(m)
        PROVE  b \in MarkEnds
    <3>1. /\ <<i, m>> \in {im \in (first .. last) \X Marks(kind) : Reads(t, im[1], im[2])}
          /\ b = <<i, m>>[1] + Len(<<i, m>>[2])
      BY <2>1
    <3> QED BY <3>1, Zenon
  <2>2. ASSUME b \in MarkEnds
        PROVE  \E i \in first .. last : \E m \in Marks(kind) : Reads(t, i, m) /\ b = i + Len(m)
    <3>1. PICK im \in (first .. last) \X Marks(kind) :
              Reads(t, im[1], im[2]) /\ b = im[1] + Len(im[2])
      BY <2>2
    <3>2. im[1] \in first .. last /\ im[2] \in Marks(kind)
      BY <3>1
    <3> QED BY <3>1, <3>2
  <2> QED BY <2>1, <2>2
<1>2. (kind = "sentence" /\ Len(t) - 1 \in first .. last /\ t[Len(t)] = "stop" /\ b = Len(t))
         <=> \E i \in first .. last : kind = "sentence" /\ i + 1 = Len(t) /\ t[i + 1] = "stop" /\ b = i + 1
  OBVIOUS
<1>3. b \in Boundaries(kind, t, first, last)
         <=> \/ b \in MarkEnds
             \/ kind = "sentence" /\ Len(t) - 1 \in first .. last /\ t[Len(t)] = "stop" /\ b = Len(t)
  BY DEF Boundaries
<1> QED
  <2> HIDE DEF MarkEnds
  <2> QED BY <1>1, <1>2, <1>3 DEF Ends

\* A position that makes the loop return is one where a mark starts, and it
\* returns where that mark ends.
LEMMA HitEnds ==
    ASSUME NEW kind \in Kinds, NEW t \in Seq(Classes), NEW i \in Nat
    PROVE  /\ Hit(kind, t, i) \in Nat
           /\ Hit(kind, t, i) # 0 => Ends(kind, t, i, Hit(kind, t, i))
           /\ \A b \in Nat : Ends(kind, t, i, b) => Hit(kind, t, i) = b
<1>1. CASE kind = "sentence"
  <2>1. SentenceHit(t, i) = IF i + 2 =< Len(t) /\ t[i + 1] = "stop" /\ t[i + 2] \in Space THEN i + 2
             ELSE IF i + 3 =< Len(t) /\ t[i + 1] = "stop" /\ t[i + 2] = "closing" /\ t[i + 3] \in Space
             THEN i + 3
             ELSE IF t[i + 1] = "stop" /\ i + 1 = Len(t) THEN i + 1 ELSE 0
    <3>1. /\ Reads(t, i, <<{"stop"}, Space>>)
                <=> i + 2 =< Len(t) /\ t[i + 1] = "stop" /\ t[i + 2] \in Space
          /\ Reads(t, i, <<{"stop"}, {"closing"}, Space>>)
                <=> i + 3 =< Len(t) /\ t[i + 1] = "stop" /\ t[i + 2] = "closing" /\ t[i + 3] \in Space
          /\ Reads(t, i, <<{"stop"}>>) <=> i + 1 =< Len(t) /\ t[i + 1] = "stop"
      BY ReadsMarks
    <3> QED BY <3>1 DEF SentenceHit, Space
  <2>2. /\ SentenceHit(t, i) \in Nat
        /\ SentenceHit(t, i) # 0 => SentenceEnds(t, i, SentenceHit(t, i))
    BY <2>1 DEF SentenceEnds
  <2>3. \A b \in Nat : SentenceEnds(t, i, b) => SentenceHit(t, i) = b
    BY <2>1 DEF SentenceEnds, Space
  <2>4. Hit(kind, t, i) = SentenceHit(t, i)
    BY <1>1 DEF Hit
  <2> QED BY <1>1, <2>2, <2>3, <2>4, EndsIs
<1>2. CASE kind = "paragraph"
  <2>1. ParagraphHit(t, i) =
             IF i + 4 =< Len(t) /\ t[i + 1] = "cr" /\ t[i + 2] = "lf" /\ t[i + 3] = "cr" /\ t[i + 4] = "lf"
             THEN i + 4
             ELSE IF i + 2 =< Len(t) /\ t[i + 1] = "lf" /\ t[i + 2] = "lf" THEN i + 2
             ELSE IF i + 3 =< Len(t) /\ t[i + 1] = "lf" /\ t[i + 2] = "cr" /\ t[i + 3] = "lf"
             THEN i + 3 ELSE 0
    <3>1. /\ Reads(t, i, <<{"lf"}, {"lf"}>>)
                <=> i + 2 =< Len(t) /\ t[i + 1] = "lf" /\ t[i + 2] = "lf"
          /\ Reads(t, i, <<{"lf"}, {"cr"}, {"lf"}>>)
                <=> i + 3 =< Len(t) /\ t[i + 1] = "lf" /\ t[i + 2] = "cr" /\ t[i + 3] = "lf"
          /\ Reads(t, i, <<{"cr"}, {"lf"}, {"cr"}, {"lf"}>>)
                <=> /\ i + 4 =< Len(t) /\ t[i + 1] = "cr" /\ t[i + 2] = "lf"
                    /\ t[i + 3] = "cr" /\ t[i + 4] = "lf"
      BY ReadsMarks
    <3> QED BY <3>1 DEF ParagraphHit
  <2>2. /\ ParagraphHit(t, i) \in Nat
        /\ ParagraphHit(t, i) # 0 => ParagraphEnds(t, i, ParagraphHit(t, i))
    BY <2>1 DEF ParagraphEnds
  <2>3. \A b \in Nat : ParagraphEnds(t, i, b) => ParagraphHit(t, i) = b
    BY <2>1 DEF ParagraphEnds
  <2>4. Hit(kind, t, i) = ParagraphHit(t, i)
    BY <1>2 DEF Hit
  <2> QED BY <1>2, <2>2, <2>3, <2>4, EndsIs
<1>3. CASE kind = "none"
  BY <1>3, EndsIs DEF Hit
<1> QED BY <1>1, <1>2, <1>3 DEF Kinds

\* Marks that start later do not end earlier, and none is longer than four
\* characters or goes past the text.
LEMMA EndsAreOrdered ==
    ASSUME NEW kind \in Kinds, NEW t \in Seq(Classes), NEW i \in Nat, NEW b \in Nat,
           Ends(kind, t, i, b)
    PROVE  /\ i < b /\ b =< i + 4 /\ b =< Len(t)
           /\ \A j, c \in Nat : j > i /\ Ends(kind, t, j, c) => b =< c
<1>1. CASE kind = "sentence"
  <2>1. SentenceEnds(t, i, b) BY <1>1, EndsIs
  <2>2. i < b /\ b =< i + 4 /\ b =< Len(t) BY <2>1 DEF SentenceEnds
  <2>3. ASSUME NEW j \in Nat, NEW c \in Nat, j > i, Ends(kind, t, j, c) PROVE b =< c
    <3>1. SentenceEnds(t, j, c) BY <1>1, <2>3, EndsIs
    <3> QED BY <2>1, <2>3, <3>1 DEF SentenceEnds
  <2> QED BY <2>2, <2>3
<1>2. CASE kind = "paragraph"
  <2>1. ParagraphEnds(t, i, b) BY <1>2, EndsIs
  <2>2. i < b /\ b =< i + 4 /\ b =< Len(t) BY <2>1 DEF ParagraphEnds
  <2>3. ASSUME NEW j \in Nat, NEW c \in Nat, j > i, Ends(kind, t, j, c) PROVE b =< c
    <3>1. ParagraphEnds(t, j, c) BY <1>2, <2>3, EndsIs
    <3> QED BY <2>1, <2>3, <3>1 DEF ParagraphEnds
  <2> QED BY <2>2, <2>3
<1>3. CASE kind = "none"
  BY <1>3, EndsIs
<1> QED BY <1>1, <1>2, <1>3 DEF Kinds
\* What the boundary finders return: the last boundary of the chunk that is not
\* marked at its first character, or the end of the chunk.
LEMMA FoundIsLast ==
    ASSUME NEW kind \in Kinds, NEW t \in Seq(Classes), NEW start \in Nat, NEW end \in Nat,
           start < end, end =< Len(t)
    PROVE  LET found == FindBoundary(kind, t, start, end)
               all == Boundaries(kind, t, start + 1, end - 1)
           IN  /\ found \in Nat
               /\ found > start /\ found =< end + 3 /\ found =< Len(t)
               /\ IF all = {} THEN found = end
                  ELSE found \in all /\ \A b \in all : b =< found
<1> DEFINE found == FindBoundary(kind, t, start, end)
           all == Boundaries(kind, t, start + 1, end - 1)
<1>1. \/ found = end /\ \A i \in start + 1 .. end - 1 : Hit(kind, t, i) = 0
      \/ \E m \in start + 1 .. end - 1 :
            /\ Hit(kind, t, m) # 0 /\ found = Hit(kind, t, m)
            /\ \A i \in m + 1 .. end - 1 : Hit(kind, t, i) = 0
  BY FindBoundaryIs
<1>2. \A b : b \in all <=> \E i \in start + 1 .. end - 1 : Ends(kind, t, i, b)
  <2>1. start + 1 \in Nat /\ end - 1 \in Nat /\ end - 1 < Len(t)
    OBVIOUS
  <2> QED BY <2>1, BoundariesAre
<1>3. \A i \in start + 1 .. end - 1 : i \in Nat
  OBVIOUS
<1>4. \A b \in all : b \in Nat
  <2> SUFFICES ASSUME NEW b \in all PROVE b \in Nat
    OBVIOUS
  <2>1. PICK i \in start + 1 .. end - 1 : Ends(kind, t, i, b)
    BY <1>2
  <2> QED BY <1>3, <2>1 DEF Ends, Marks
<1> HIDE DEF found, all
<1>5. CASE found = end /\ \A i \in start + 1 .. end - 1 : Hit(kind, t, i) = 0
  <2>1. all = {}
    <3> SUFFICES ASSUME NEW b \in all PROVE FALSE
      OBVIOUS
    <3>1. PICK i \in start + 1 .. end - 1 : Ends(kind, t, i, b)
      BY <1>2
    <3>2. b = 0 /\ i < b
      BY <1>3, <1>4, <1>5, <3>1, HitEnds, EndsAreOrdered
    <3> QED BY <1>3, <3>2
  <2> QED BY <1>5, <2>1 DEF found, all
<1>6. ASSUME NEW m \in start + 1 .. end - 1, Hit(kind, t, m) # 0, found = Hit(kind, t, m),
             \A i \in m + 1 .. end - 1 : Hit(kind, t, i) = 0
      PROVE  /\ found \in Nat
             /\ found > start /\ found =< end + 3 /\ found =< Len(t)
             /\ found \in all /\ \A b \in all : b =< found
  <2>1. found \in Nat /\ Ends(kind, t, m, found)
    BY <1>3, <1>6, HitEnds
  <2>2. m < found /\ found =< m + 4 /\ found =< Len(t)
    BY <1>3, <2>1, EndsAreOrdered
  <2>3. found > start /\ found =< end + 3
    BY <2>1, <2>2
  <2>4. found \in all
    BY <1>2, <2>1
  <2>5. ASSUME NEW b \in all PROVE b =< found
    <3>1. PICK i \in start + 1 .. end - 1 : Ends(kind, t, i, b)
      BY <1>2
    <3>2. b \in Nat /\ i \in Nat /\ m \in Nat
      BY <1>3, <1>4
    <3>3. CASE i = m
      <4>1. b = found BY <1>6, <3>1, <3>2, <3>3, HitEnds
      <4> QED BY <3>2, <4>1
    <3>4. CASE i < m
      BY <2>1, <3>1, <3>2, <3>4, EndsAreOrdered
    <3>5. CASE i > m
      <4>1. Hit(kind, t, i) = 0
        BY <1>6, <3>2, <3>5
      <4>2. b = 0 /\ i < b
        BY <3>1, <3>2, <4>1, HitEnds, EndsAreOrdered
      <4> QED BY <3>2, <4>2
    <3> QED BY <3>2, <3>3, <3>4, <3>5
  <2> QED BY <2>1, <2>2, <2>3, <2>4, <2>5
<1>7. CASE \E m \in start + 1 .. end - 1 :
              /\ Hit(kind, t, m) # 0 /\ found = Hit(kind, t, m)
              /\ \A i \in m + 1 .. end - 1 : Hit(kind, t, i) = 0
  <2>1. /\ found \in Nat
        /\ found > start /\ found =< end + 3 /\ found =< Len(t)
        /\ found \in all /\ \A b \in all : b =< found
    BY <1>6, <1>7
  <2>2. all # {} BY <2>1
  <2> QED BY <2>1, <2>2 DEF found, all
<1> QED BY <1>1, <1>5, <1>7

\* Of a boundary finder, the chunk is in the text.
FileJobs == [text : Seq(Classes), cut : Kinds \cup {"any"}]

ChunkInv ==
    /\ rest \in Seq(FileJobs)
    /\ text \in Seq(Classes) /\ cut \in Kinds \cup {"any"}
    /\ chunkSize \in Int /\ startPos \in Int /\ data \in Nat
    /\ cut # "any" =>
        /\ pc \in {"first", "callback", "loop"} => startPos \in 0 .. Len(text)
        /\ pc = "callback" => data > 0 /\ startPos + data =< Len(text)

LEMMA ChunkInvInit == ChunkInit => ChunkInv
<1> SUFFICES ASSUME ChunkInit PROVE ChunkInv
  OBVIOUS
<1>1. rest \in Seq(FileJobs)
  <2>1. FileJobs = [text : Seq(Classes), cut : {"sentence", "paragraph", "none", "any"}]
    BY DEF FileJobs, Kinds
  <2> QED BY <2>1, JobsAssumption DEF ChunkInit
<1>2. text \in Seq(Classes) /\ cut \in Kinds
  BY DEF ChunkInit, Kinds
<1>3. chunkSize \in Int
  BY SizesAssumption DEF ChunkInit
<1> QED
  BY <1>1, <1>2, <1>3 DEF ChunkInit, ChunkInv

\* What a boundary finder does to the position.
LEMMA CallbackMoves ==
    ASSUME ChunkInv, NEW go \in BOOLEAN, Callback(go), pc = "callback", cut # "any"
    PROVE  LET all == Boundaries(cut, text, startPos + 1, startPos + data - 1)
           IN  /\ startPos' \in Nat
               /\ startPos' > startPos /\ startPos' =< startPos + data + 3
               /\ startPos' =< Len(text)
               /\ IF all = {} THEN startPos' = startPos + data
                  ELSE startPos' \in all /\ \A b \in all : b =< startPos'
<1> DEFINE end == startPos + data
<1>1. /\ cut \in Kinds /\ text \in Seq(Classes) /\ startPos \in Nat /\ end \in Nat
      /\ startPos < end /\ end =< Len(text)
  BY DEF ChunkInv
<1>2. startPos' = FindBoundary(cut, text, startPos, end)
  BY DEF Callback, Moves
<1> HIDE DEF end
<1>3. LET all == Boundaries(cut, text, startPos + 1, end - 1)
      IN  /\ startPos' \in Nat
          /\ startPos' > startPos /\ startPos' =< end + 3
          /\ startPos' =< Len(text)
          /\ IF all = {} THEN startPos' = end
             ELSE startPos' \in all /\ \A b \in all : b =< startPos'
  BY <1>1, <1>2, FoundIsLast
<1>4. end - 1 = startPos + data - 1 /\ end + 3 = startPos + data + 3
  BY DEF ChunkInv, end
<1> QED BY <1>3, <1>4 DEF end

LEMMA ChunkInvStep == ChunkInv /\ [ChunkNext]_chunkVars => ChunkInv'
<1> SUFFICES ASSUME ChunkInv, [ChunkNext]_chunkVars PROVE ChunkInv'
  OBVIOUS
<1>1. ASSUME ChunkText PROVE ChunkInv'
  BY <1>1 DEF ChunkInv, ChunkText, listed, args
<1>2. ASSUME Loop PROVE ChunkInv'
  <2>1. /\ UNCHANGED <<rest, text, cut, chunkSize, startPos>> /\ pc' \in {"callback", "return"}
        /\ offset' = MinOf(chunkSize, Len(text) - startPos) /\ pc = "loop"
        /\ \/ pc' = "return" /\ data' = data
           \/ offset' >= 1 /\ startPos < Len(text) /\ data' = Mid(startPos, offset')
    BY <1>2 DEF ChunkInv, Loop, MinOf, listed, args
  <2>2. offset' \in Int /\ offset' =< Len(text) - startPos BY <2>1 DEF ChunkInv, MinOf
  <2>3. data' \in Nat BY <2>1, <2>2 DEF ChunkInv, Mid
  <2>4. cut # "any" /\ pc' = "callback" => data' > 0 /\ startPos + data' =< Len(text)
    BY <2>1, <2>2 DEF ChunkInv, Mid
  <2> QED BY <2>1, <2>3, <2>4 DEF ChunkInv
<1>3. ASSUME ChunkFiles PROVE ChunkInv'
  BY <1>3 DEF ChunkInv, ChunkFiles, args
<1>4. ASSUME NEW opened \in BOOLEAN, ChunkFile(opened) PROVE ChunkInv'
  <2>1. /\ rest' = Tail(rest) /\ rest # <<>> /\ pc' \in {"call", "return"}
        /\ UNCHANGED <<chunkSize, startPos, data>>
        /\ \/ text' = Head(rest).text /\ cut' = Head(rest).cut
           \/ UNCHANGED <<text, cut>>
    BY <1>4 DEF ChunkFile
  <2>2. Head(rest) \in FileJobs /\ Tail(rest) \in Seq(FileJobs)
    BY <2>1 DEF ChunkInv
  <2>3. Head(rest).text \in Seq(Classes) /\ Head(rest).cut \in Kinds \cup {"any"}
    BY <2>2 DEF FileJobs
  <2>4. text' \in Seq(Classes) /\ cut' \in Kinds \cup {"any"}
    BY <2>1, <2>3 DEF ChunkInv
  <2> QED BY <2>1, <2>2, <2>4 DEF ChunkInv
<1>5. ASSUME NEW go \in BOOLEAN, Callback(go) PROVE ChunkInv'
  <2>1. startPos' \in Int /\ (cut # "any" => startPos' \in 0 .. Len(text))
    <3>1. CASE cut = "any"
      BY <1>5, <3>1, PositionsAssumption DEF ChunkInv, Callback, Moves
    <3>2. CASE cut # "any" /\ pc = "first"
      BY <1>5, <3>2 DEF ChunkInv, Callback, Moves
    <3>3. CASE cut # "any" /\ pc = "callback"
      <4>1. startPos' \in Nat /\ startPos' =< Len(text) BY <1>5, <3>3, CallbackMoves
      <4> QED BY <4>1 DEF ChunkInv
    <3> QED BY <1>5, <3>1, <3>2, <3>3 DEF Callback
  <2>2. UNCHANGED <<rest, text, cut, chunkSize, data>> /\ pc' \in {"loop", "return"}
    BY <1>5 DEF Callback, listed, args
  <2> QED BY <2>1, <2>2 DEF ChunkInv
<1>6. CASE UNCHANGED chunkVars
  BY <1>6 DEF ChunkInv, chunkVars
<1> QED
  BY <1>1, <1>2, <1>3, <1>4, <1>5, <1>6 DEF ChunkNext

\* A callback that uses the finders cuts every chunk at its last boundary that is
\* not marked at its first character, or hands it out whole, for any texts and
\* chunk sizes, and whenever it stops.
THEOREM CutsAreLast == ChunkSpec => CutIsLastBoundary
<1> DEFINE A == pc = "callback" /\ cut # "any" =>
          LET found == Boundaries(cut, text, startPos + 1, startPos + data - 1)
          IN  IF found = {} THEN startPos' = startPos + data
              ELSE startPos' \in found /\ \A b \in found : b =< startPos'
<1>1. ChunkInv /\ [ChunkNext]_chunkVars => [A]_chunkVars
  <2> SUFFICES ASSUME ChunkInv, ChunkNext, pc = "callback", cut # "any" PROVE A
    BY DEF A
  <2>1. PICK go \in BOOLEAN : Callback(go)
    BY DEF ChunkNext, ChunkText, Loop, ChunkFiles, ChunkFile
  <2> QED BY <2>1, CallbackMoves
<1> HIDE DEF A
<1>2. ChunkSpec => [][A]_chunkVars
  BY <1>1, ChunkInvInit, ChunkInvStep, PTL DEF ChunkSpec
<1> QED BY <1>2 DEF A, CutIsLastBoundary

\* For any text and chunk size: a callback that uses the finders moves startPos
\* forward with every chunk, by at most three characters past it and never past
\* the text; and whatever the callback does, the loop ends by itself only when
\* startPos is past the text, or with a finder at its end.
THEOREM ChunksGoForward == ChunkSpec => ForwardToTheEnd
<1> DEFINE A == /\ pc = "callback" /\ cut # "any"
                   => /\ startPos' > startPos
                      /\ startPos' =< startPos + data + 3 /\ startPos' =< Len(text)
                /\ pc = "loop" /\ pc' = "return" /\ chunkSize > 0
                   => startPos >= Len(text) /\ (cut # "any" => startPos = Len(text))
<1>1. ChunkInv /\ [ChunkNext]_chunkVars => [A]_chunkVars
  <2> SUFFICES ASSUME ChunkInv, ChunkNext PROVE A
    BY DEF A
  <2>1. ASSUME pc = "callback", cut # "any"
        PROVE  /\ startPos' > startPos
               /\ startPos' =< startPos + data + 3 /\ startPos' =< Len(text)
    <3>1. PICK go \in BOOLEAN : Callback(go)
      BY <2>1 DEF ChunkNext, ChunkText, Loop, ChunkFiles, ChunkFile
    <3> QED BY <2>1, <3>1, CallbackMoves
  <2>2. ASSUME pc = "loop", pc' = "return", chunkSize > 0
        PROVE  startPos >= Len(text) /\ (cut # "any" => startPos = Len(text))
    <3>1. Loop
      BY <2>2 DEF ChunkNext, ChunkText, Callback, ChunkFiles, ChunkFile
    <3>2. MinOf(chunkSize, Len(text) - startPos) < 1 \/ startPos >= Len(text)
      BY <2>2, <3>1 DEF Loop
    <3>3. startPos >= Len(text) BY <2>2, <3>2 DEF MinOf, ChunkInv
    <3> QED BY <2>2, <3>3 DEF ChunkInv
  <2> QED BY <2>1, <2>2
<1> HIDE DEF A
<1>2. ChunkSpec => [][A]_chunkVars
  BY <1>1, ChunkInvInit, ChunkInvStep, PTL DEF ChunkSpec
<1> QED BY <1>2 DEF A, ForwardToTheEnd

-----------------------------------------------------------------------------
(* The disk                                                                 *)

Stages == {"idle", "create", "remove", "trash", "last", "write", "zip"}
AtFile == {"create", "remove", "trash", "last", "write"}

\* A thread's call, as the steps leave it.
IsCall(c) ==
    /\ c = [stage |-> c.stage, path |-> c.path, doc |-> c.doc, linked |-> c.linked,
            alone |-> c.alone, work |-> c.work]
    /\ c.stage \in Stages
    /\ c.linked \in BOOLEAN /\ c.alone \in BOOLEAN
    /\ c.stage \in AtFile => c.path \in Plain
    /\ c.stage = "write" => c.doc \in Docs

DiskType ==
    /\ content = [p \in Plain |-> content[p]]
    /\ kept \in [Plain -> SUBSET Docs]
    /\ call = [t \in Procs |-> call[t]]
    /\ \A t \in Procs : IsCall(call[t])

\* A call that no other has overlapped has its file to itself.
AloneAtFile ==
    \A t, u \in Procs :
        t # u /\ call[t].stage \in AtFile /\ call[t].alone /\ call[u].stage \in AtFile
        => call[u].path # call[t].path

\* A write that has its file to itself, and whose file has not been removed,
\* finds it there and empty.
OpenedEmpty ==
    \A t \in Procs :
        call[t].stage = "write" /\ call[t].alone /\ call[t].linked
        => call[t].path \in present /\ content[call[t].path] = <<>>

\* A kept document is in its file, and no call is left that would empty the
\* file or write to it.
KeptIsSafe ==
    \A p \in Plain : \A d \in kept[p] :
        /\ p \in present
        /\ content[p] = Blocks(d)
        /\ \A t \in Procs : call[t].path = p =>
              call[t].stage # "create" /\ ~ (call[t].stage = "write" /\ call[t].linked)

DiskInv == DiskType /\ AloneAtFile /\ OpenedEmpty /\ KeptIsSafe

LEMMA IdleIsCall == IsCall(Idle) /\ Idle.stage = "idle"
  BY DEF IsCall, Idle, Call, Stages, AtFile

LEMMA DiskInit == FilesInit => DiskInv
<1> SUFFICES ASSUME FilesInit PROVE DiskInv
  OBVIOUS
<1>1. DiskType BY IdleIsCall DEF FilesInit, DiskType
<1>2. AloneAtFile BY IdleIsCall DEF FilesInit, AloneAtFile, AtFile
<1>3. OpenedEmpty BY IdleIsCall DEF FilesInit, OpenedEmpty
<1>4. KeptIsSafe BY DEF FilesInit, KeptIsSafe
<1> QED BY <1>1, <1>2, <1>3, <1>4 DEF DiskInv

\* A whole document on an empty file.
LEMMA WholeDocument ==
    ASSUME NEW d \in Docs
    PROVE  SubSeq(Blocks(d), 1, Len(Blocks(d)))
              \o SubSeq(<<>>, Len(Blocks(d)) + 1, Len(<<>>)) = Blocks(d)
<1> DEFINE S == {Blocks(d)[i] : i \in DOMAIN Blocks(d)}
<1>1. Blocks(d) \in Seq(S)
  BY BlocksAssumption
<1> HIDE DEF S
<1>2. Len(Blocks(d)) \in Nat /\ Len(<<>>) = 0
  BY <1>1
<1>3. SubSeq(Blocks(d), 1, Len(Blocks(d))) = Blocks(d)
  BY <1>1, SubSeqFull
<1>4. SubSeq(<<>>, Len(Blocks(d)) + 1, Len(<<>>)) = <<>>
  BY <1>2, SubSeqEmpty
<1>5. Blocks(d) \o <<>> = Blocks(d)
  BY <1>1, ConcatEmptySeq
<1> QED
  BY <1>3, <1>4, <1>5
\* A call on the disk that changes neither it nor the calls in progress.
LEMMA DiskUnchanged ==
    DiskInv /\ UNCHANGED <<present, content, call, kept>> => DiskInv'
  BY DEF DiskInv, DiskType, AloneAtFile, OpenedEmpty, KeptIsSafe, IsCall

\* What thread t enters does not disturb the others, but they know of it.
LEMMA EntersFacts ==
    ASSUME DiskInv, NEW t \in Procs, NEW s \in AtFile, NEW p \in Plain, NEW d, NEW w,
           s = "write" => d \in Docs,
           call[t].stage = "idle", Enters(t, Call(s, p, d, w))
    PROVE  /\ call' = [u \in Procs |-> call'[u]]
           /\ \A u \in Procs : IsCall(call'[u])
           /\ AloneAtFile'
           /\ \A u \in Procs \ {t} : /\ call'[u].stage = call[u].stage
                                     /\ call'[u].path = call[u].path
                                     /\ call'[u].linked = call[u].linked
                                     /\ call'[u].alone => call[u].alone
                                     /\ call[u].stage \in AtFile /\ call[u].path = p
                                           => ~ call'[u].alone
           /\ call'[t].stage = s /\ call'[t].path = p /\ call'[t].doc = d
<1> DEFINE c == Call(s, p, d, w)
<1>1. call'[t] = [stage |-> s, path |-> p, doc |-> d, linked |-> TRUE, alone |-> On(p) = {},
                  work |-> w]
  BY DEF Enters, Call
<1>2. ASSUME NEW u \in Procs \ {t}
      PROVE  /\ IsCall(call'[u])
             /\ call'[u].stage = call[u].stage
             /\ call'[u].path = call[u].path
             /\ call'[u].linked = call[u].linked
             /\ call'[u].alone => call[u].alone
             /\ u \in On(p) => ~ call'[u].alone
  <2>1. IsCall(call[u]) BY DEF DiskInv, DiskType
  <2>2. call'[u] = IF u \in On(p) THEN [call[u] EXCEPT !.alone = FALSE] ELSE call[u]
    BY DEF Enters, Call
  <2>3. CASE u \in On(p)
    <3>1. call'[u] = [stage |-> call[u].stage, path |-> call[u].path, doc |-> call[u].doc,
                      linked |-> call[u].linked, alone |-> FALSE, work |-> call[u].work]
      BY <2>1, <2>2, <2>3 DEF IsCall
    <3> QED BY <2>1, <3>1 DEF IsCall
  <2>4. CASE u \notin On(p)
    BY <2>1, <2>2, <2>4
  <2> QED BY <2>3, <2>4
<1>3. \A u \in Procs : u \in On(p) <=> call[u].stage \in AtFile /\ call[u].path = p
  BY DEF On, DiskInv, DiskType, IsCall, Stages, AtFile
<1>4. call' = [u \in Procs |-> call'[u]]
  BY DEF Enters
<1>5. IsCall(call'[t])
  BY <1>1 DEF IsCall, Stages, AtFile
<1>6. call'[t].stage = s /\ call'[t].path = p /\ call'[t].doc = d
  BY <1>1
<1>7. ASSUME call'[t].alone, NEW u \in Procs PROVE u \notin On(p)
  <2> DEFINE A == On(p) = {}
  <2>1. call'[t] = [stage |-> s, path |-> p, doc |-> d, linked |-> TRUE, alone |-> A,
                    work |-> w]
    BY <1>1
  <2> HIDE DEF A
  <2>2. call'[t].alone = A
    BY <2>1
  <2>3. A
    BY <2>2, <1>7
  <2> QED
    BY <2>3 DEF A
<1>8. AloneAtFile'
  <2> SUFFICES ASSUME NEW u \in Procs, NEW v \in Procs, u # v, call'[u].stage \in AtFile,
                      call'[u].alone, call'[v].stage \in AtFile
               PROVE  call'[v].path # call'[u].path
    BY DEF AloneAtFile
  <2>1. CASE u = t
    BY <2>1, <1>2, <1>3, <1>6, <1>7
  <2>2. CASE v = t
    BY <2>2, <1>2, <1>3, <1>6
  <2>3. CASE u # t /\ v # t
    BY <2>3, <1>2 DEF DiskInv, AloneAtFile
  <2> QED BY <2>1, <2>2, <2>3
<1>9. \A u \in Procs : IsCall(call'[u])
  BY <1>2, <1>5
<1> QED
  BY <1>2, <1>3, <1>4, <1>6, <1>8, <1>9
\* Thread t is through with its call.
LEMMA ReturnsFacts ==
    ASSUME DiskInv, NEW t \in Procs, Returns(t)
    PROVE  /\ call' = [u \in Procs |-> call'[u]]
           /\ \A u \in Procs : IsCall(call'[u])
           /\ AloneAtFile'
           /\ call'[t].stage = "idle"
           /\ \A u \in Procs \ {t} : call'[u] = call[u]
<1>1. call'[t] = Idle /\ \A u \in Procs \ {t} : call'[u] = call[u]
  BY DEF DiskInv, DiskType, Returns
<1>2. call' = [u \in Procs |-> call'[u]]
  BY DEF DiskInv, DiskType, Returns
<1>3. \A u \in Procs : IsCall(call'[u])
  BY <1>1, IdleIsCall DEF DiskInv, DiskType
<1>4. AloneAtFile'
  BY <1>1, IdleIsCall DEF DiskInv, AloneAtFile, AtFile
<1> QED
  BY <1>1, <1>2, <1>3, <1>4, IdleIsCall

LEMMA CreateStep ==
    ASSUME DiskInv, NEW t \in Procs, NEW p \in Plain, CreateIfNotExists(t, p)
    PROVE  DiskInv'
<1>1. CASE p \in present
  BY <1>1, DiskUnchanged DEF CreateIfNotExists, SameDisk
<1>2. CASE p \notin present
  <2>1. /\ Enters(t, Call("create", p, Idle.doc, <<>>)) /\ call[t].stage = "idle"
        /\ UNCHANGED <<present, content, kept>>
    BY <1>2 DEF CreateIfNotExists, SameDisk, Begins
  <2>2. /\ call' = [u \in Procs |-> call'[u]]
        /\ \A u \in Procs : IsCall(call'[u])
        /\ AloneAtFile'
        /\ \A u \in Procs \ {t} : /\ call'[u].stage = call[u].stage
                                  /\ call'[u].path = call[u].path
                                  /\ call'[u].linked = call[u].linked
                                  /\ call'[u].alone => call[u].alone
        /\ call'[t].stage = "create" /\ call'[t].path = p
    BY <2>1, EntersFacts DEF AtFile
  <2>3. DiskType' BY <2>1, <2>2 DEF DiskInv, DiskType
  <2>4. OpenedEmpty' BY <2>1, <2>2 DEF DiskInv, OpenedEmpty
  <2>5. KeptIsSafe' BY <1>2, <2>1, <2>2 DEF DiskInv, KeptIsSafe
  <2> QED BY <2>2, <2>3, <2>4, <2>5 DEF DiskInv
<1> QED BY <1>1, <1>2

\* The open of createIfNotExists() empties a file that is not kept.
LEMMA CreateOpensStep ==
    ASSUME DiskInv, NEW t \in Procs, CreateOpens(t)
    PROVE  DiskInv'
<1> DEFINE p == call[t].path
<1>1. p \in Plain /\ call[t].stage = "create" /\ Returns(t) /\ kept' = kept
  BY DEF CreateOpens, DiskInv, DiskType, IsCall, AtFile
<1>2. /\ call' = [u \in Procs |-> call'[u]]
      /\ \A u \in Procs : IsCall(call'[u])
      /\ AloneAtFile'
      /\ call'[t].stage = "idle"
      /\ \A u \in Procs \ {t} : call'[u] = call[u]
  BY <1>1, ReturnsFacts
<1>3. \/ UNCHANGED <<present, content>>
      \/ present' = present \cup {p} /\ content' = [content EXCEPT ![p] = <<>>]
  BY DEF CreateOpens, SameDisk, Leaves
<1> HIDE DEF p
<1>4. content' = [q \in Plain |-> content'[q]]
  BY <1>1, <1>3 DEF DiskInv, DiskType
<1>5. \A q \in Plain : content'[q] = content[q] \/ (q = p /\ content'[q] = <<>>)
  BY <1>1, <1>3 DEF DiskInv, DiskType
<1>6. \A q \in Plain : q \in present => q \in present'
  BY <1>3
<1>7. DiskType' BY <1>1, <1>2, <1>4 DEF DiskInv, DiskType
<1>8. OpenedEmpty'
  BY <1>2, <1>5, <1>6 DEF DiskInv, OpenedEmpty, DiskType, IsCall, AtFile
<1>9. KeptIsSafe'
  <2>1. kept[p] = {}
    BY <1>1 DEF DiskInv, KeptIsSafe, p
  <2> QED
    BY <1>1, <1>2, <1>5, <1>6, <2>1 DEF DiskInv, KeptIsSafe
<1> QED BY <1>2, <1>7, <1>8, <1>9 DEF DiskInv

LEMMA RemoveIfExistsStep ==
    ASSUME DiskInv, NEW t \in Procs, NEW p \in Plain, NEW force \in BOOLEAN,
           RemoveIfExists(t, p, force)
    PROVE  DiskInv'
<1>1. CASE p \notin present
  BY <1>1, DiskUnchanged DEF RemoveIfExists, SameDisk
<1>2. CASE p \in present
  <2> DEFINE s == IF force THEN "remove" ELSE "last"
  <2>0. s \in AtFile /\ s \notin {"write", "create"} BY DEF AtFile
  <2>1. /\ Enters(t, Call(s, p, Idle.doc, <<>>)) /\ call[t].stage = "idle"
        /\ UNCHANGED <<present, content, kept>>
    BY <1>2 DEF RemoveIfExists, SameDisk, Begins
  <2> HIDE DEF s
  <2>2. /\ call' = [u \in Procs |-> call'[u]]
        /\ \A u \in Procs : IsCall(call'[u])
        /\ AloneAtFile'
        /\ \A u \in Procs \ {t} : /\ call'[u].stage = call[u].stage
                                  /\ call'[u].path = call[u].path
                                  /\ call'[u].linked = call[u].linked
                                  /\ call'[u].alone => call[u].alone
        /\ call'[t].stage = s /\ call'[t].path = p
    BY <2>0, <2>1, EntersFacts
  <2>3. DiskType' BY <2>1, <2>2 DEF DiskInv, DiskType
  <2>4. OpenedEmpty' BY <2>0, <2>1, <2>2 DEF DiskInv, OpenedEmpty
  <2>5. KeptIsSafe' BY <2>0, <2>1, <2>2 DEF DiskInv, KeptIsSafe
  <2> QED BY <2>2, <2>3, <2>4, <2>5 DEF DiskInv
<1> QED BY <1>1, <1>2
\* Files are removed, and calls on them come to an end or go on without a path.
LEMMA UnlinkStep ==
    ASSUME DiskInv, NEW gone, NEW all, \A q \in Plain : q \in all <=> q \in gone,
           call' = [u \in Procs |-> call'[u]],
           \A u \in Procs : call'[u] = Idle \/ call'[u] = Unlinked(gone, call[u]),
           Unlink(all)
    PROVE  DiskInv'
<1>1. ASSUME NEW u \in Procs, call'[u] # Idle
      PROVE  /\ IsCall(call'[u])
             /\ call'[u].stage = call[u].stage /\ call'[u].path = call[u].path
             /\ call'[u].alone = call[u].alone
             /\ call'[u].linked => call[u].linked
             /\ call'[u].stage = "write" /\ call'[u].path \in gone => ~ call'[u].linked
  <2>1. IsCall(call[u]) BY DEF DiskInv, DiskType
  <2>2. call'[u] = Unlinked(gone, call[u]) BY <1>1
  <2> DEFINE cut1 == call[u].stage = "write" /\ call[u].path \in gone
  <2>3. CASE cut1
    <3>1. call'[u] = [stage |-> call[u].stage, path |-> call[u].path, doc |-> call[u].doc,
                      linked |-> FALSE, alone |-> call[u].alone, work |-> call[u].work]
      BY <2>1, <2>2, <2>3 DEF IsCall, Unlinked
    <3> QED BY <2>1, <3>1 DEF IsCall
  <2>4. CASE ~ cut1
    <3>1. call'[u] = call[u]
      BY <2>1, <2>2, <2>4 DEF IsCall, Unlinked
    <3> QED BY <2>1, <2>4, <3>1
  <2> QED BY <2>3, <2>4
<1>2. /\ present' = present \ all
      /\ content' = [q \in Plain |-> IF q \in all THEN <<>> ELSE content[q]]
      /\ kept' = [q \in Plain |-> IF q \in all THEN {} ELSE kept[q]]
  BY DEF Unlink, Leaves
<1>3. \A u \in Procs : IsCall(call'[u])
  BY <1>1, IdleIsCall
<1>4. DiskType' BY <1>2, <1>3 DEF DiskInv, DiskType
<1>5. AloneAtFile'
  BY <1>1, IdleIsCall DEF DiskInv, AloneAtFile, AtFile
<1>6. OpenedEmpty'
  <2> SUFFICES ASSUME NEW u \in Procs, call'[u].stage = "write", call'[u].alone, call'[u].linked
               PROVE  call'[u].path \in present' /\ content'[call'[u].path] = <<>>
    BY DEF OpenedEmpty
  <2>1. call'[u] # Idle BY IdleIsCall
  <2>2. call[u].path \in present /\ content[call[u].path] = <<>> /\ call[u].path \in Plain
    BY <1>1, <2>1 DEF DiskInv, OpenedEmpty, DiskType, IsCall, AtFile
  <2> QED BY <1>1, <1>2, <2>1, <2>2
<1>7. KeptIsSafe'
  <2> SUFFICES ASSUME NEW q \in Plain, NEW d \in kept'[q]
               PROVE  /\ q \in present'
                      /\ content'[q] = Blocks(d)
                      /\ \A u \in Procs : call'[u].path = q =>
                            call'[u].stage # "create" /\ ~ (call'[u].stage = "write" /\ call'[u].linked)
    BY DEF KeptIsSafe
  <2>1. q \notin all /\ d \in kept[q] BY <1>2
  <2>2. q \in present' /\ content'[q] = Blocks(d)
    BY <1>2, <2>1 DEF DiskInv, KeptIsSafe
  <2>3. ASSUME NEW u \in Procs, call'[u].path = q
        PROVE  call'[u].stage # "create" /\ ~ (call'[u].stage = "write" /\ call'[u].linked)
    BY <1>1, <2>1, <2>3, IdleIsCall DEF DiskInv, KeptIsSafe
  <2> QED BY <2>2, <2>3
<1> QED BY <1>4, <1>5, <1>6, <1>7 DEF DiskInv

LEMMA RemoveStepStep ==
    ASSUME DiskInv, NEW t \in Procs, RemoveStep(t)
    PROVE  DiskInv'
<1> DEFINE c == call[t]
           succ == [remove |-> "trash", trash |-> "last", last |-> "idle"]
<1>1. c.stage \in {"remove", "trash", "last"} /\ IsCall(c)
  BY DEF RemoveStep, DiskInv, DiskType
<1>2. CASE /\ call' = [u \in Procs |-> IF u = t THEN Idle ELSE Unlinked({c.path}, call[u])]
           /\ Unlink({c.path})
  <2>1. /\ call' = [u \in Procs |-> call'[u]]
        /\ \A u \in Procs : call'[u] = Idle \/ call'[u] = Unlinked({c.path}, call[u])
    BY <1>2
  <2> HIDE DEF c
  <2> QED BY <1>2, <2>1, UnlinkStep
<1>3. CASE c.stage = "last" /\ Returns(t) /\ UNCHANGED <<present, content, kept>>
  <2>1. /\ call' = [u \in Procs |-> call'[u]]
        /\ \A u \in Procs : IsCall(call'[u])
        /\ AloneAtFile'
        /\ call'[t].stage = "idle"
        /\ \A u \in Procs \ {t} : call'[u] = call[u]
    BY <1>3, ReturnsFacts
  <2>2. DiskType' BY <1>3, <2>1 DEF DiskInv, DiskType
  <2>3. OpenedEmpty' BY <1>3, <2>1 DEF DiskInv, OpenedEmpty
  <2>4. KeptIsSafe' BY <1>3, <2>1 DEF DiskInv, KeptIsSafe
  <2> QED BY <2>1, <2>2, <2>3, <2>4 DEF DiskInv
<1>4. CASE /\ c.stage # "last" /\ call' = [call EXCEPT ![t].stage = succ[@]]
           /\ UNCHANGED <<present, content, kept>>
  <2>1. succ[c.stage] \in {"trash", "last"}
    BY <1>1, <1>4
  <2>2. call' = [call EXCEPT ![t] = [c EXCEPT !.stage = succ[c.stage]]]
    BY <1>4
  <2> DEFINE s == succ[c.stage]
  <2> HIDE DEF s
  <2>3. call'[t] = [stage |-> s, path |-> c.path, doc |-> c.doc, linked |-> c.linked,
                    alone |-> c.alone, work |-> c.work]
    BY <1>1, <2>2 DEF DiskInv, DiskType, IsCall, s
  <2>4. \A u \in Procs \ {t} : call'[u] = call[u]
    BY <1>4 DEF DiskInv, DiskType
  <2>5. call' = [u \in Procs |-> call'[u]]
    BY <1>4 DEF DiskInv, DiskType
  <2>6. /\ call'[t].stage = s /\ call'[t].path = c.path /\ call'[t].doc = c.doc
        /\ call'[t].linked = c.linked /\ call'[t].alone = c.alone /\ call'[t].work = c.work
    BY <2>3
  <2>7. s \in {"trash", "last"} BY <2>1 DEF s
  <2>8. IsCall(call'[t]) BY <1>1, <2>3, <2>6, <2>7 DEF IsCall, Stages, AtFile
  <2>9. DiskType' BY <1>4, <2>4, <2>5, <2>8 DEF DiskInv, DiskType
  <2>10. AloneAtFile' BY <1>1, <2>4, <2>6 DEF DiskInv, AloneAtFile, AtFile
  <2>11. OpenedEmpty' BY <1>4, <2>4, <2>6, <2>7 DEF DiskInv, OpenedEmpty
  <2>12. KeptIsSafe' BY <1>4, <2>4, <2>6, <2>7 DEF DiskInv, KeptIsSafe
  <2> QED BY <2>9, <2>10, <2>11, <2>12 DEF DiskInv
<1> QED BY <1>2, <1>3, <1>4 DEF RemoveStep, SameDisk

LEMMA RemoveDirStep ==
    ASSUME DiskInv, NEW t \in Procs, NEW d \in Dirs, RemoveDir(t, d)
    PROVE  DiskInv'
<1>1. PICK gone : call' = [u \in Procs |-> Unlinked(gone, call[u])] /\ Unlink(gone)
  BY DEF RemoveDir
<1> QED BY <1>1, UnlinkStep

LEMMA WriteFileStep ==
    ASSUME DiskInv, NEW t \in Procs, NEW p \in Plain, NEW d \in Docs, WriteFile(t, p, d)
    PROVE  DiskInv'
<1>1. CASE UNCHANGED <<present, content, call, kept>>
  BY <1>1, DiskUnchanged
<1>2. CASE /\ Enters(t, Call("write", p, d, <<>>))
           /\ Leaves(present \cup {p}, [content EXCEPT ![p] = <<>>])
           /\ kept' = [kept EXCEPT ![p] = {}]
  <2>1. call[t].stage = "idle"
    BY DEF WriteFile, Begins
  <2>2. /\ call' = [u \in Procs |-> call'[u]]
        /\ \A u \in Procs : IsCall(call'[u])
        /\ AloneAtFile'
        /\ \A u \in Procs \ {t} : /\ call'[u].stage = call[u].stage
                                  /\ call'[u].path = call[u].path
                                  /\ call'[u].linked = call[u].linked
                                  /\ call'[u].alone => call[u].alone
        /\ call'[t].stage = "write" /\ call'[t].path = p
    BY <1>2, <2>1, EntersFacts DEF AtFile
  <2>3. /\ present' = present \cup {p}
        /\ content' = [q \in Plain |-> IF q = p THEN <<>> ELSE content[q]]
        /\ kept' = [q \in Plain |-> IF q = p THEN {} ELSE kept[q]]
    BY <1>2 DEF DiskInv, DiskType, Leaves
  <2>4. DiskType' BY <2>2, <2>3 DEF DiskInv, DiskType
  <2>5. OpenedEmpty'
    BY <2>2, <2>3 DEF DiskInv, OpenedEmpty, DiskType, IsCall, AtFile
  <2>6. KeptIsSafe' BY <2>2, <2>3 DEF DiskInv, KeptIsSafe
  <2> QED BY <2>2, <2>4, <2>5, <2>6 DEF DiskInv
<1> QED BY <1>1, <1>2 DEF WriteFile, SameDisk

\* The write itself: a file that is kept has no writer left, and one that
\* becomes kept was empty and had no other call on it.
LEMMA WriteDataStep ==
    ASSUME DiskInv, NEW t \in Procs, WriteData(t)
    PROVE  DiskInv'
<1> DEFINE p == call[t].path
           d == call[t].doc
<1>1. /\ p \in Plain /\ d \in Docs /\ call[t].stage = "write" /\ Returns(t)
      /\ call[t].alone \in BOOLEAN /\ call[t].linked \in BOOLEAN
  BY DEF WriteData, DiskInv, DiskType, IsCall, AtFile
<1>2. /\ call' = [u \in Procs |-> call'[u]]
      /\ \A u \in Procs : IsCall(call'[u])
      /\ AloneAtFile'
      /\ call'[t].stage = "idle"
      /\ \A u \in Procs \ {t} : call'[u] = call[u]
  BY <1>1, ReturnsFacts
<1>3. PICK n \in 0 .. Len(Blocks(d)) :
          /\ IF call[t].linked
             THEN Leaves(present, [content EXCEPT ![p] =
                      SubSeq(Blocks(d), 1, n) \o SubSeq(@, n + 1, Len(@))])
             ELSE SameDisk
          /\ kept' = IF n = Len(Blocks(d)) /\ call[t].linked /\ call[t].alone
                     THEN [kept EXCEPT ![p] = {d}] ELSE kept
  BY DEF WriteData
<1>4. present' = present
  BY <1>3 DEF Leaves, SameDisk
<1>5. content' = [q \in Plain |-> content'[q]]
  BY <1>1, <1>3 DEF Leaves, SameDisk, DiskInv, DiskType
<1>6. \A q \in Plain : q # p => content'[q] = content[q]
  BY <1>1, <1>3 DEF Leaves, SameDisk, DiskInv, DiskType
<1>7. ~ call[t].linked => content' = content
  BY <1>3 DEF SameDisk
<1>8. ASSUME call[t].linked, call[t].alone, n = Len(Blocks(d))
      PROVE  content'[p] = Blocks(d) /\ p \in present
  <2>1. content[p] = <<>> /\ p \in present
    BY <1>1, <1>8 DEF DiskInv, OpenedEmpty
  <2>2. content' = [content EXCEPT ![p] = SubSeq(Blocks(d), 1, n)
                                             \o SubSeq(content[p], n + 1, Len(content[p]))]
    BY <1>3, <1>8 DEF Leaves
  <2>3. content'[p] = SubSeq(Blocks(d), 1, n) \o SubSeq(content[p], n + 1, Len(content[p]))
    BY <1>1, <2>2 DEF DiskInv, DiskType
  <2> QED BY <1>1, <1>8, <2>1, <2>3, WholeDocument
<1>9. DiskType'
  BY <1>1, <1>2, <1>3, <1>5 DEF DiskInv, DiskType
<1>10. OpenedEmpty'
  <2> SUFFICES ASSUME NEW u \in Procs, call'[u].stage = "write", call'[u].alone, call'[u].linked
               PROVE  call'[u].path \in present' /\ content'[call'[u].path] = <<>>
    BY DEF OpenedEmpty
  <2>1. u # t /\ call'[u] = call[u]
    BY <1>2
  <2>2. call[u].path # p
    BY <1>1, <2>1 DEF DiskInv, AloneAtFile, AtFile
  <2>3. call[u].path \in Plain
    BY <2>1 DEF DiskInv, DiskType, IsCall, AtFile
  <2> QED BY <1>4, <1>6, <2>1, <2>2, <2>3 DEF DiskInv, OpenedEmpty
<1>11. KeptIsSafe'
  <2> SUFFICES ASSUME NEW q \in Plain, NEW e \in kept'[q]
               PROVE  /\ q \in present'
                      /\ content'[q] = Blocks(e)
                      /\ \A u \in Procs : call'[u].path = q =>
                            call'[u].stage # "create" /\ ~ (call'[u].stage = "write" /\ call'[u].linked)
    BY DEF KeptIsSafe
  <2>1. CASE n = Len(Blocks(d)) /\ call[t].linked /\ call[t].alone /\ q = p
    <3>1. e = d
      BY <1>1, <1>3, <2>1 DEF DiskInv, DiskType
    <3>2. \A u \in Procs \ {t} : call[u].path = p =>
              call[u].stage # "create" /\ call[u].stage # "write"
      BY <1>1, <2>1 DEF DiskInv, AloneAtFile, AtFile
    <3> QED BY <1>2, <1>4, <1>8, <2>1, <3>1, <3>2
  <2>2. CASE ~ (n = Len(Blocks(d)) /\ call[t].linked /\ call[t].alone /\ q = p)
    <3>1. e \in kept[q]
      BY <1>1, <1>3, <2>2 DEF DiskInv, DiskType
    <3>2. content'[q] = content[q]
      BY <1>1, <1>6, <1>7, <3>1 DEF DiskInv, KeptIsSafe
    <3> QED BY <1>2, <1>4, <3>1, <3>2 DEF DiskInv, KeptIsSafe
  <2> QED BY <2>1, <2>2
<1> QED BY <1>2, <1>9, <1>10, <1>11 DEF DiskInv

\* zip() and unZip() only read the disk.
LEMMA ZipSteps ==
    ASSUME DiskInv, NEW t \in Procs, ZipOpens(t) \/ ZipAdd(t) \/ ZipCloses(t) \/ UnZip(t)
    PROVE  DiskInv'
<1>1. UNCHANGED <<present, content, kept>>
  BY DEF ZipOpens, ZipAdd, ZipCloses, UnZip, SameDisk
<1>2. /\ call' = [u \in Procs |-> call'[u]]
      /\ \A u \in Procs \ {t} : call'[u] = call[u]
  BY DEF ZipOpens, ZipAdd, Adds, ZipCloses, UnZip, Returns, DiskInv, DiskType
<1>3. call'[t] = call[t] \/ (IsCall(call'[t]) /\ call'[t].stage \in {"idle", "zip"})
  <2>1. ASSUME call' = [call EXCEPT ![t] = Idle]
        PROVE  IsCall(call'[t]) /\ call'[t].stage \in {"idle", "zip"}
    BY <2>1, IdleIsCall DEF DiskInv, DiskType
  <2>2. ASSUME NEW w, call' = [call EXCEPT ![t] = Call("zip", Idle.path, Idle.doc, w)]
        PROVE  IsCall(call'[t]) /\ call'[t].stage \in {"idle", "zip"}
    <3>1. call'[t] = Call("zip", Idle.path, Idle.doc, w)
      BY <2>2 DEF DiskInv, DiskType
    <3> QED BY <3>1 DEF Call, IsCall, Stages, AtFile
  <2>3. ASSUME NEW w, call' = [call EXCEPT ![t].work = w], call[t].stage = "zip"
        PROVE  IsCall(call'[t]) /\ call'[t].stage \in {"idle", "zip"}
    <3>1. IsCall(call[t]) BY DEF DiskInv, DiskType
    <3>2. call'[t] = [call[t] EXCEPT !.work = w]
      BY <2>3 DEF DiskInv, DiskType
    <3>3. call'[t] = [stage |-> call[t].stage, path |-> call[t].path, doc |-> call[t].doc,
                      linked |-> call[t].linked, alone |-> call[t].alone, work |-> w]
      BY <3>1, <3>2 DEF IsCall
    <3> QED BY <2>3, <3>1, <3>3 DEF IsCall, AtFile
  <2> QED BY <2>1, <2>2, <2>3 DEF ZipOpens, ZipAdd, Adds, ZipCloses, UnZip, Returns
<1>4. DiskType' BY <1>1, <1>2, <1>3 DEF DiskInv, DiskType
<1>5. AloneAtFile' BY <1>2, <1>3 DEF DiskInv, AloneAtFile, AtFile
<1>6. OpenedEmpty' BY <1>1, <1>2, <1>3 DEF DiskInv, OpenedEmpty
<1>7. KeptIsSafe' BY <1>1, <1>2, <1>3 DEF DiskInv, KeptIsSafe
<1> QED BY <1>4, <1>5, <1>6, <1>7 DEF DiskInv

LEMMA DiskStep == DiskInv /\ [FilesNext]_diskVars => DiskInv'
<1> SUFFICES ASSUME DiskInv, [FilesNext]_diskVars PROVE DiskInv'
  OBVIOUS
<1>1. CASE UNCHANGED diskVars
  BY <1>1, DiskUnchanged DEF diskVars
<1>2. CASE FilesNext
  BY <1>2, CreateStep, CreateOpensStep, RemoveIfExistsStep, RemoveStepStep, RemoveDirStep,
     WriteFileStep, WriteDataStep, ZipSteps DEF FilesNext
<1> QED BY <1>1, <1>2

\* A document that writeFile() reported as written, with no other call at the
\* file meanwhile, is read back as what it is until another write opens the
\* file or a removal succeeds, however many threads work on the disk and
\* whichever of their calls fail.
THEOREM DocumentsAreKept == FilesSpec => []DocumentKept
<1>1. DiskInv => DocumentKept
  <2> SUFFICES ASSUME DiskInv, NEW p \in Plain, NEW d \in kept[p]
               PROVE  /\ ReadFile(p) = {d}
                      /\ (IF IsObject(d) THEN ReadObject(p) ELSE ReadArray(p)) = {d}
    BY DEF DocumentKept
  <2>1. d \in Docs /\ p \in present /\ content[p] = Blocks(d)
    BY DEF DiskInv, DiskType, KeptIsSafe
  <2>2. ReadFile(p) = {d}
    BY <2>1, BlocksAssumption DEF ReadFile
  <2> QED BY <2>2 DEF ReadObject, ReadArray
<1> QED
  BY <1>1, DiskInit, DiskStep, PTL DEF FilesSpec
-----------------------------------------------------------------------------
(* zip() and unZip() among the calls of other threads                       *)

\* Files that were there when zip() began and have not changed since.
Steady == Plain \cap (zipped.present \ zipped.changed)

\* The entry of file f under name n, as it was when zip() began.
Entry(f, n) == Packed(n, FALSE, zipped.content[f])

\* A sequence of whatever its elements are.
IsSeq(s) == s \in Seq(Range(s))

\* The first k names of a way.
Name(way, k) == [i \in 1 .. k |-> Base(way[i])]

\* An item of the work is at the end of a way from a source, under its names.
WellNamed(w) ==
    /\ w = Item(w.path, w.name, w.top)
    /\ w.top \in BOOLEAN
    /\ \E way \in Followed : w.path = way[Len(way)] /\ w.name = Name(way, Len(way))

\* The ways to those files on which nothing was missed.
Sure == {way \in Followed : /\ way[Len(way)] \in Steady
                            /\ \A i \in 1 .. Len(way) : way[i] \notin zipped.unread}

\* What zip() has still to do takes it along the way: it is at some directory on
\* it, or at the file.
Awaits(work, way) ==
    \E k \in 1 .. Len(way), top \in BOOLEAN : Item(way[k], Name(way, k), top) \in work

\* The entry of the file at the end of a way.
EntryOf(way) == Entry(way[Len(way)], Name(way, Len(way)))

ZipType ==
    /\ zipped = [there |-> zipped.there, present |-> zipped.present, content |-> zipped.content,
                 changed |-> zipped.changed, unread |-> zipped.unread, success |-> zipped.success]
    /\ zipped.success \in BOOLEAN
    /\ present \subseteq Paths
    /\ IsSeq(archive)

\* What is there is in a directory that is there.
Rooted == \A p \in present : In(p) \in present

OneZip == \A t, u \in Procs : call[t].stage = "zip" /\ call[u].stage = "zip" => t = u

\* The entry of a file is as the file was when zip() began, unless it has changed
\* or could not be read.
Right(e, unread) ==
    /\ e = Packed(e.name, e.dir, e.blocks)
    /\ e.dir \in BOOLEAN
    /\ ~ e.dir => \E f \in Plain : /\ e.name \in NamesOf(f)
                                   /\ f \in Steady \ unread => e.blocks = zipped.content[f]

EntriesRight == \A e \in Range(archive) : Right(e, zipped.unread)

\* While zip() runs, files that have not changed are as they were, and each of
\* their names is in the archive or still to come.
Running ==
    \A t \in Procs : call[t].stage = "zip" =>
        /\ ~ zipped.success
        /\ IsSeq(call[t].work)
        /\ \A w \in Range(call[t].work) : WellNamed(w)
        /\ \A f \in Steady : f \in present /\ content[f] = zipped.content[f]
        /\ \A way \in Sure : EntryOf(way) \in Range(archive) \/ Awaits(Range(call[t].work), way)

\* Once zip() has returned true the archive has them all.
Complete == zipped.success => \A way \in Sure : EntryOf(way) \in Range(archive)

ZipInv == ZipType /\ Rooted /\ OneZip /\ EntriesRight /\ Running /\ Complete /\ ZipRoundTrip

\* Sequences by their elements.
LEMMA IsSeqOfElements ==
    ASSUME NEW S, NEW s \in Seq(S)
    PROVE  IsSeq(s)
<1>1. \A i \in 1 .. Len(s) : s[i] \in Range(s)
  BY DEF Range
<1>2. s = [i \in 1 .. Len(s) |-> s[i]] /\ Len(s) \in Nat
  OBVIOUS
<1> DEFINE R == Range(s)
<1>3. \A i \in 1 .. Len(s) : s[i] \in R
  BY <1>1
<1> HIDE DEF R
<1>4. s \in Seq(R)
  BY <1>2, <1>3
<1> QED BY <1>4 DEF IsSeq, R

LEMMA AppendRange ==
    ASSUME NEW s, IsSeq(s), NEW x
    PROVE  IsSeq(Append(s, x)) /\ Range(Append(s, x)) = Range(s) \cup {x}
<1> DEFINE S == Range(s) \cup {x}
<1>1. s \in Seq(S) /\ x \in S
  <2>1. s \in Seq(Range(s)) BY DEF IsSeq
  <2> QED BY <2>1
<1>2. Append(s, x) \in Seq(S)
  <2> HIDE DEF S
  <2> QED BY <1>1
<1>3. IsSeq(Append(s, x))
  <2> HIDE DEF S
  <2> QED BY <1>2, IsSeqOfElements
<1>4. /\ Len(s) \in Nat /\ Len(Append(s, x)) = Len(s) + 1 /\ DOMAIN s = 1 .. Len(s)
      /\ DOMAIN Append(s, x) = 1 .. Len(s) + 1
      /\ Append(s, x)[Len(s) + 1] = x
      /\ \A i \in 1 .. Len(s) : Append(s, x)[i] = s[i]
  <2> HIDE DEF S
  <2> QED BY <1>1
<1>5. Range(Append(s, x)) = Range(s) \cup {x}
  BY <1>4 DEF Range
<1> QED BY <1>3, <1>5

LEMMA TailRange ==
    ASSUME NEW s, IsSeq(s), s # <<>>
    PROVE  /\ IsSeq(Tail(s))
           /\ Head(s) \in Range(s)
           /\ Range(s) = Range(Tail(s)) \cup {Head(s)}
<1> DEFINE S == Range(s)
<1>1. s \in Seq(S)
  BY DEF IsSeq
<1> HIDE DEF S
<1>2. IsSeq(Tail(s))
  <2>1. Tail(s) \in Seq(S) BY <1>1
  <2> QED BY <2>1, IsSeqOfElements
<1>3. /\ Len(s) \in Nat /\ Len(s) > 0 /\ DOMAIN s = 1 .. Len(s)
      /\ DOMAIN Tail(s) = 1 .. Len(s) - 1
      /\ Head(s) = s[1]
      /\ \A i \in 1 .. Len(s) - 1 : Tail(s)[i] = s[i + 1]
  BY <1>1
<1>4. \A i \in 1 .. Len(s) : i = 1 \/ (i - 1 \in 1 .. Len(s) - 1 /\ Tail(s)[i - 1] = s[i])
  BY <1>3
<1>5. \A i \in 1 .. Len(s) - 1 : i + 1 \in 1 .. Len(s)
  BY <1>3
<1>6. Range(s) = Range(Tail(s)) \cup {Head(s)}
  <2>1. \A x \in Range(s) : x \in Range(Tail(s)) \cup {Head(s)}
    <3> SUFFICES ASSUME NEW i \in 1 .. Len(s) PROVE s[i] \in Range(Tail(s)) \cup {Head(s)}
      BY <1>3 DEF Range
    <3>1. CASE i = 1 BY <1>3, <3>1
    <3>2. CASE i # 1
      <4>1. i - 1 \in DOMAIN Tail(s) /\ Tail(s)[i - 1] = s[i] BY <1>3, <1>4, <3>2
      <4> QED BY <4>1 DEF Range
    <3> QED BY <3>1, <3>2
  <2>2. \A x \in Range(Tail(s)) : x \in Range(s)
    BY <1>3, <1>5 DEF Range
  <2>3. Head(s) \in Range(s)
    BY <1>3 DEF Range
  <2> QED BY <2>1, <2>2, <2>3
<1> QED BY <1>2, <1>3, <1>6

LEMMA ConcatRange ==
    ASSUME NEW s, NEW t, IsSeq(s), IsSeq(t)
    PROVE  IsSeq(s \o t) /\ Range(s \o t) = Range(s) \cup Range(t)
<1> DEFINE S == Range(s) \cup Range(t)
<1>1. s \in Seq(S) /\ t \in Seq(S)
  <2>1. s \in Seq(Range(s)) /\ t \in Seq(Range(t)) BY DEF IsSeq
  <2> QED BY <2>1
<1> HIDE DEF S
<1>2. IsSeq(s \o t)
  <2>1. s \o t \in Seq(S) BY <1>1
  <2> QED BY <2>1, IsSeqOfElements
<1>3. /\ Len(s) \in Nat /\ Len(t) \in Nat /\ DOMAIN s = 1 .. Len(s) /\ DOMAIN t = 1 .. Len(t)
      /\ DOMAIN (s \o t) = 1 .. Len(s) + Len(t)
      /\ \A i \in 1 .. Len(s) + Len(t) : (s \o t)[i] = IF i =< Len(s) THEN s[i] ELSE t[i - Len(s)]
  BY <1>1
<1>4. ASSUME NEW i \in DOMAIN (s \o t) PROVE (s \o t)[i] \in Range(s) \cup Range(t)
  <2>1. CASE i =< Len(s)
    <3>1. i \in DOMAIN s /\ (s \o t)[i] = s[i] BY <1>3, <2>1
    <3> QED BY <3>1 DEF Range
  <2>2. CASE i > Len(s)
    <3>1. i - Len(s) \in DOMAIN t /\ (s \o t)[i] = t[i - Len(s)] BY <1>3, <2>2
    <3> QED BY <3>1 DEF Range
  <2> QED BY <1>3, <2>1, <2>2
<1>5. ASSUME NEW i \in DOMAIN s PROVE s[i] \in Range(s \o t)
  <2>1. i \in DOMAIN (s \o t) /\ (s \o t)[i] = s[i] BY <1>3
  <2> QED BY <2>1 DEF Range
<1>6. ASSUME NEW i \in DOMAIN t PROVE t[i] \in Range(s \o t)
  <2>1. i + Len(s) \in DOMAIN (s \o t) /\ (s \o t)[i + Len(s)] = t[i] BY <1>3
  <2> QED BY <2>1 DEF Range
<1>7. Range(s \o t) = Range(s) \cup Range(t)
  <2>1. \A x \in Range(s \o t) : x \in Range(s) \cup Range(t) BY <1>4 DEF Range
  <2>2. \A x \in Range(s) \cup Range(t) : x \in Range(s \o t)
    <3>1. \A x \in Range(s) : \E i \in DOMAIN s : x = s[i] BY DEF Range
    <3>2. \A x \in Range(t) : \E i \in DOMAIN t : x = t[i] BY DEF Range
    <3> QED BY <1>5, <1>6, <3>1, <3>2
  <2> QED BY <2>1, <2>2
<1> QED BY <1>2, <1>7

\* A way is a sequence of paths, each in the one before.
LEMMA WayFacts ==
    ASSUME NEW way \in Ways
    PROVE  /\ Len(way) \in Nat \ {0} /\ Len(way) =< MaxDepth
           /\ DOMAIN way = 1 .. Len(way) /\ way = [i \in 1 .. Len(way) |-> way[i]]
           /\ \A i \in 1 .. Len(way) : way[i] \in Paths
           /\ \A i \in 1 .. Len(way) - 1 : In(way[i + 1]) = way[i] /\ way[i + 1] # way[i]
<1>1. PICK n \in 1 .. MaxDepth : way \in [1 .. n -> Paths]
  BY DEF Ways
<1>2. n \in Nat \ {0} /\ n =< MaxDepth
  BY DepthAssumption
<1>3. way \in Seq(Paths) /\ Len(way) = n
  BY <1>1, <1>2
<1>4. \A i \in 1 .. Len(way) - 1 : In(way[i + 1]) = way[i] /\ way[i + 1] # way[i]
  BY DEF Ways
<1> QED BY <1>1, <1>2, <1>3, <1>4

\* The names of a way from a source are the names of the file at its end.
LEMMA NamesAre ==
    ASSUME NEW f
    PROVE  \A n : n \in NamesOf(f)
              <=> \E way \in Followed : way[Len(way)] = f /\ n = Name(way, Len(way))
<1>1. \A way \in Ways : NameOf(way) = Name(way, Len(way))
  BY WayFacts DEF Name, NameOf
<1> QED BY <1>1 DEF NamesOf, Followed

\* A file that is there can be reached: so are the directories it is in.
LEMMA AllTheWay ==
    ASSUME Rooted, NEW way \in Ways, way[Len(way)] \in present
    PROVE  \A k \in 1 .. Len(way) : way[k] \in present
<1> DEFINE T == {k \in 1 .. Len(way) : way[k] \notin present}
<1>1. Len(way) \in Nat \ {0} /\ \A i \in 1 .. Len(way) - 1 : In(way[i + 1]) = way[i]
  BY WayFacts
<1> SUFFICES ASSUME T # {} PROVE FALSE
  OBVIOUS
<1>2. PICK m \in T : \A k \in T : k =< m
  <2>1. T \subseteq Int /\ Len(way) \in Int /\ \A k \in T : k =< Len(way) BY <1>1
  <2> HIDE DEF T
  <2> QED BY <1>1, <2>1, GreatestInt
<1>3. m \in 1 .. Len(way) - 1 /\ m + 1 \in 1 .. Len(way) /\ m + 1 \notin T
  BY <1>1, <1>2
<1>4. way[m + 1] \in present /\ In(way[m + 1]) = way[m]
  BY <1>1, <1>3
<1> QED BY <1>4 DEF Rooted

\* Nothing is in a file.
LEMMA FilesEndWays ==
    ASSUME NEW way \in Ways, NEW k \in 1 .. Len(way), way[k] \in Plain
    PROVE  k = Len(way)
<1>1. /\ Len(way) \in Nat /\ \A i \in 1 .. Len(way) : way[i] \in Paths
      /\ \A i \in 1 .. Len(way) - 1 : In(way[i + 1]) = way[i] /\ way[i + 1] # way[i]
  BY WayFacts
<1> SUFFICES ASSUME k # Len(way) PROVE FALSE
  OBVIOUS
<1>2. k \in 1 .. Len(way) - 1 /\ k + 1 \in 1 .. Len(way)
  BY <1>1
<1>3. way[k + 1] \in Paths /\ In(way[k + 1]) = way[k] /\ way[k + 1] # way[k]
  BY <1>1, <1>2
<1> QED BY <1>3, PathsAssumption

\* The names of a way, one by one.
LEMMA NameAppend ==
    ASSUME NEW way, NEW k \in Nat
    PROVE  Append(Name(way, k), Base(way[k + 1])) = Name(way, k + 1)
<1> DEFINE s == Name(way, k)
           b == Base(way[k + 1])
           S == {Base(way[i]) : i \in 1 .. k + 1}
           u == Name(way, k + 1)
           v == Append(s, b)
<1>1. s \in Seq(S) /\ b \in S /\ Len(s) = k /\ \A i \in 1 .. k : s[i] = Base(way[i])
  <2>1. \A i \in 1 .. k + 1 : Base(way[i]) \in S OBVIOUS
  <2>2. k + 1 \in 1 .. k + 1 /\ \A i \in 1 .. k : i \in 1 .. k + 1 OBVIOUS
  <2> HIDE DEF S
  <2>3. s = [i \in 1 .. k |-> Base(way[i])] BY DEF Name
  <2>4. \A i \in 1 .. k : s[i] \in S /\ s[i] = Base(way[i]) BY <2>1, <2>2, <2>3
  <2> QED BY <2>1, <2>2, <2>3, <2>4
<1>2. u \in Seq(S) /\ Len(u) = k + 1 /\ \A i \in 1 .. k + 1 : u[i] = Base(way[i])
  <2>1. \A i \in 1 .. k + 1 : Base(way[i]) \in S OBVIOUS
  <2> HIDE DEF S
  <2>2. u = [i \in 1 .. k + 1 |-> Base(way[i])] BY DEF Name
  <2>3. \A i \in 1 .. k + 1 : u[i] \in S /\ u[i] = Base(way[i]) BY <2>1, <2>2
  <2> QED BY <2>2, <2>3
<1> HIDE DEF s, S, u
<1>3. /\ v \in Seq(S) /\ Len(v) = Len(s) + 1
      /\ \A i \in 1 .. Len(s) : v[i] = s[i]
      /\ v[Len(s) + 1] = b
  BY <1>1, AppendProperties
<1> HIDE DEF v
<1>4. \A i \in 1 .. Len(v) : v[i] = u[i]
  BY <1>1, <1>2, <1>3
<1>5. v = u
  BY <1>1, <1>2, <1>3, <1>4, SeqEqual
<1> QED BY <1>5 DEF s, u, v

\* A way that ends at a directory goes on to each path in it.
LEMMA Longer ==
    ASSUME NEW way \in Followed, way[Len(way)] \in Dirs, NEW q \in Paths,
           In(q) = way[Len(way)], q # way[Len(way)], q \notin Hidden
    PROVE  \E on \in Followed : /\ on[Len(on)] = q
                                  /\ Name(on, Len(on)) = Append(Name(way, Len(way)), Base(q))
<1> DEFINE n == Len(way)
           on == [i \in 1 .. n + 1 |-> IF i = n + 1 THEN q ELSE way[i]]
<1>1. way \in Ways /\ way[1] \in Range(Sources) /\ \A i \in 2 .. n : way[i] \notin Hidden
  BY DEF Followed
<1>2. /\ n \in Nat \ {0} /\ n =< MaxDepth
      /\ \A i \in 1 .. n : way[i] \in Paths
      /\ \A i \in 1 .. n - 1 : In(way[i + 1]) = way[i] /\ way[i + 1] # way[i]
  BY <1>1, WayFacts
<1>3. n + 1 \in 1 .. MaxDepth
  BY <1>1, <1>2, DepthAssumption, PathsAssumption
<1> HIDE DEF n
<1>4. on \in [1 .. n + 1 -> Paths] /\ on[n + 1] = q /\ \A i \in 1 .. n : on[i] = way[i]
  BY <1>2
<1> HIDE DEF on
<1>5. Len(on) = n + 1
  BY <1>2, <1>4
<1>6. \A i \in 1 .. Len(on) - 1 : In(on[i + 1]) = on[i] /\ on[i + 1] # on[i]
  <2> SUFFICES ASSUME NEW i \in 1 .. n PROVE In(on[i + 1]) = on[i] /\ on[i + 1] # on[i]
    BY <1>2, <1>5
  <2>1. CASE i = n BY <1>2, <1>4, <2>1 DEF n
  <2>2. CASE i # n
    <3>1. i \in 1 .. n - 1 /\ i + 1 \in 1 .. n BY <1>2, <2>2
    <3> QED BY <1>2, <1>4, <3>1
  <2> QED BY <2>1, <2>2
<1>7. on \in Ways
  BY <1>3, <1>4, <1>6 DEF Ways
<1>8. on \in Followed
  <2>1. \A i \in 2 .. Len(on) : on[i] \notin Hidden BY <1>1, <1>2, <1>4, <1>5
  <2>2. on[1] = way[1] BY <1>2, <1>4
  <2> QED BY <1>1, <1>7, <2>1, <2>2 DEF Followed
<1>9. Name(on, n) = Name(way, n)
  BY <1>2, <1>4 DEF Name
<1>10. Append(Name(on, n), Base(on[n + 1])) = Name(on, n + 1)
  BY <1>2, NameAppend
<1>11. Name(on, n + 1) = Append(Name(way, n), Base(q))
  BY <1>4, <1>9, <1>10
<1> QED BY <1>4, <1>5, <1>8, <1>11 DEF n

\* The community module's listing of a finite set has all of its elements.
LEMMA Listing ==
    ASSUME NEW S, IsFiniteSet(S)
    PROVE  SetToSeq(S) \in Seq(S) /\ S = Range(SetToSeq(S))
<1> DEFINE n == Cardinality(S)
           f == SetToSeq(S)
<1>1. n \in Nat /\ ExistsBijection(1 .. n, S)
  BY FS_CardinalityType
<1>2. PICK b \in [1 .. n -> S] : IsInjective(b)
  BY <1>1 DEF ExistsBijection, Bijection, Injection
<1>3. f \in [1 .. n -> S] /\ IsInjective(f)
  BY <1>2 DEF SetToSeq
<1>4. IsFiniteSet(1 .. n) /\ Cardinality(1 .. n) = n
  BY <1>1, FS_Interval
<1>5. f \in Injection(1 .. n, S)
  BY <1>3 DEF Injection
<1> HIDE DEF f
<1>6. f \in Surjection(1 .. n, S)
  BY <1>4, <1>5, FS_Injection
<1>7. \A x \in S : \E i \in 1 .. n : f[i] = x
  BY <1>6 DEF Surjection
<1> HIDE DEF n
<1>8. f \in Seq(S)
  BY <1>1, <1>3
<1>9. S = Range(f)
  BY <1>3, <1>7 DEF Range
<1> QED BY <1>8, <1>9 DEF f

\* What addDirectory() has to do: all that is in the directory.
LEMMA InDirRange ==
    ASSUME ZipType, NEW item
    PROVE  /\ IsSeq(InDir(item))
           /\ \A w : w \in Range(InDir(item))
                 <=> \E q \in present \ Hidden : In(q) = item.path /\ q # item.path
                                        /\ w = Item(q, Append(item.name, Base(q)), FALSE)
<1> DEFINE S == {q \in present \ Hidden : In(q) = item.path /\ q # item.path}
           entries == SetToSeq(S)
           d == [i \in DOMAIN entries |-> Item(entries[i], Append(item.name, Base(entries[i])), FALSE)]
<1>1. IsFiniteSet(S)
  <2>1. S \subseteq Paths BY DEF ZipType
  <2> QED BY <2>1, PathsAssumption, FS_Subset
<1>2. entries \in Seq(S) /\ S = Range(entries)
  <2> HIDE DEF S
  <2> QED BY <1>1, Listing
<1>3. InDir(item) = d
  BY DEF InDir, Listed
<1> HIDE DEF entries
<1>4. Len(entries) \in Nat /\ DOMAIN entries = 1 .. Len(entries)
  <2> HIDE DEF S
  <2> QED BY <1>2
<1>5. d \in Seq({d[i] : i \in DOMAIN entries})
  <2> DEFINE D == {d[i] : i \in DOMAIN entries}
  <2>1. \A i \in 1 .. Len(entries) : d[i] \in D BY <1>4
  <2>2. d = [i \in 1 .. Len(entries) |-> d[i]] BY <1>4
  <2> HIDE DEF D, d
  <2>3. d \in Seq(D) BY <1>4, <2>1, <2>2
  <2> QED BY <2>3 DEF D
<1>6. IsSeq(d)
  <2> HIDE DEF d
  <2> QED BY <1>5, IsSeqOfElements
<1>7. \A w : w \in Range(d)
          <=> \E q \in Range(entries) : w = Item(q, Append(item.name, Base(q)), FALSE)
  BY DEF Range
<1> HIDE DEF d
<1>8. \A w : w \in Range(d) <=> \E q \in S : w = Item(q, Append(item.name, Base(q)), FALSE)
  <2> HIDE DEF S
  <2> QED BY <1>2, <1>7
<1> QED BY <1>3, <1>6, <1>8

\* Steps that leave zip() alone: they may change the disk, and what they change
\* is noted.
LEMMA ZipFrame ==
    ASSUME ZipInv, UNCHANGED <<archive, unpacked>>,
           \A u \in Procs : /\ call'[u].stage = "zip" <=> call[u].stage = "zip"
                            /\ call[u].stage = "zip" => call'[u].work = call[u].work,
           \/ SameDisk
           \/ \E now \in SUBSET Paths : \E blocks : (\A p \in now : In(p) \in now) /\ Leaves(now, blocks)
    PROVE  ZipInv'
<1>1. CASE SameDisk
  <2>1. UNCHANGED <<present, content, zipped>> BY <1>1 DEF SameDisk
  <2>2. Steady' = Steady /\ Sure' = Sure /\ \A way : EntryOf(way)' = EntryOf(way)
    BY <2>1 DEF Steady, Sure, EntryOf, Entry
  <2>3. ZipType' /\ Rooted' BY <2>1 DEF ZipInv, ZipType, Rooted
  <2>4. OneZip' BY DEF ZipInv, OneZip
  <2>5. EntriesRight' BY <2>1, <2>2 DEF ZipInv, EntriesRight, Right
  <2>6. Running' BY <2>1, <2>2 DEF ZipInv, Running
  <2>7. Complete' BY <2>1, <2>2 DEF ZipInv, Complete
  <2>8. ZipRoundTrip' BY DEF ZipInv, ZipRoundTrip
  <2> QED BY <2>3, <2>4, <2>5, <2>6, <2>7, <2>8 DEF ZipInv
<1>2. ASSUME NEW now \in SUBSET Paths, NEW blocks, \A p \in now : In(p) \in now,
             Leaves(now, blocks)
      PROVE  ZipInv'
  <2> DEFINE new == {p \in Plain : (p \in now) # (p \in present) \/ blocks[p] # content[p]}
  <2>1. /\ present' = now /\ content' = blocks
        /\ \/ zipped' = zipped /\ \A t \in Procs : call[t].stage # "zip"
           \/ zipped' = [zipped EXCEPT !.changed = @ \cup new]
    BY <1>2 DEF Leaves
  <2>2. /\ zipped'.present = zipped.present /\ zipped'.content = zipped.content
        /\ zipped'.success = zipped.success /\ zipped'.unread = zipped.unread
        /\ zipped' = [there |-> zipped'.there, present |-> zipped'.present,
                      content |-> zipped'.content, changed |-> zipped'.changed,
                      unread |-> zipped'.unread, success |-> zipped'.success]
        /\ \/ zipped' = zipped /\ \A t \in Procs : call[t].stage # "zip"
           \/ zipped'.changed = zipped.changed \cup new
    <3> HIDE DEF new
    <3> QED BY <2>1 DEF ZipInv, ZipType
  <2>3. /\ Steady' \subseteq Steady /\ Sure' \subseteq Sure
        /\ \A way : EntryOf(way)' = EntryOf(way)
    BY <2>2 DEF Steady, Sure, EntryOf, Entry
  <2>4. ASSUME NEW t \in Procs, call[t].stage = "zip", NEW f \in Steady'
        PROVE  f \in present' /\ content'[f] = zipped'.content[f]
    <3>1. f \in Plain /\ f \notin new
      BY <2>2, <2>4 DEF Steady
    <3>2. f \in present /\ content[f] = zipped.content[f]
      BY <2>3, <2>4 DEF ZipInv, Running
    <3> QED BY <2>1, <2>2, <3>1, <3>2
  <2> HIDE DEF new
  <2>5. ZipType' /\ Rooted' BY <1>2, <2>1, <2>2 DEF ZipInv, ZipType, Rooted
  <2>6. OneZip' BY DEF ZipInv, OneZip
  <2>7. EntriesRight' BY <2>2, <2>3 DEF ZipInv, EntriesRight, Right
  <2>8. Running' BY <2>2, <2>3, <2>4 DEF ZipInv, Running
  <2>9. Complete' BY <2>2, <2>3 DEF ZipInv, Complete
  <2>10. ZipRoundTrip' BY DEF ZipInv, ZipRoundTrip
  <2> QED BY <2>5, <2>6, <2>7, <2>8, <2>9, <2>10 DEF ZipInv
<1> QED BY <1>1, <1>2

\* The work zip() begins with has all sources.
LEMMA SourcesWork ==
    LET work == [i \in DOMAIN Sources |-> Item(Sources[i], <<Base(Sources[i])>>, TRUE)]
    IN  /\ IsSeq(work)
        /\ \A w : w \in Range(work) <=> \E p \in Range(Sources) : w = Item(p, <<Base(p)>>, TRUE)
<1> DEFINE d == [i \in DOMAIN Sources |-> Item(Sources[i], <<Base(Sources[i])>>, TRUE)]
           D == {d[i] : i \in DOMAIN Sources}
<1>1. Len(Sources) \in Nat /\ DOMAIN Sources = 1 .. Len(Sources)
  BY SourcesAssumption
<1>2. \A i \in 1 .. Len(Sources) : d[i] \in D BY <1>1
<1>3. d = [i \in 1 .. Len(Sources) |-> d[i]] BY <1>1
<1>4. d \in Seq(D)
  <2> HIDE DEF D, d
  <2> QED BY <1>1, <1>2, <1>3
<1>5. IsSeq(d)
  <2> HIDE DEF D, d
  <2> QED BY <1>4, IsSeqOfElements
<1>6. \A w : w \in Range(d) <=> \E p \in Range(Sources) : w = Item(p, <<Base(p)>>, TRUE)
  BY DEF Range
<1> QED BY <1>5, <1>6

\* A source is a way of its own.
LEMMA OneName ==
    ASSUME NEW way PROVE Name(way, 1) = <<Base(way[1])>>
  BY DEF Name

LEMMA SourceWay ==
    ASSUME NEW p \in Range(Sources)
    PROVE  \E way \in Followed : way[Len(way)] = p /\ Name(way, Len(way)) = <<Base(p)>>
<1> DEFINE way == [i \in 1 .. 1 |-> p]
<1>1. p \in Paths
  BY SourcesAssumption DEF Range
<1>2. way[1] = p /\ way \in [1 .. 1 -> Paths] /\ Len(way) = 1
  BY <1>1
<1>3. 1 \in 1 .. MaxDepth
  BY DepthAssumption
<1> HIDE DEF way
<1>4. way \in Ways
  <2>1. way \in UNION {[1 .. n -> Paths] : n \in 1 .. MaxDepth} BY <1>2, <1>3
  <2>2. 1 .. Len(way) - 1 = {} BY <1>2
  <2> QED BY <2>1, <2>2 DEF Ways
<1> QED BY <1>2, <1>4, OneName DEF Followed

LEMMA ZipOpensStep ==
    ASSUME DiskInv, ZipInv, NEW t \in Procs, ZipOpens(t)
    PROVE  ZipInv'
<1> DEFINE work == [i \in DOMAIN Sources |-> Item(Sources[i], <<Base(Sources[i])>>, TRUE)]
<1>1. CASE UNCHANGED <<call, archive, zipped>>
  BY <1>1, ZipFrame DEF ZipOpens, SameDisk
<1>2. CASE /\ call' = [call EXCEPT ![t] = Call("zip", Idle.path, Idle.doc, work)]
           /\ archive' = <<>>
           /\ zipped' = [there |-> TRUE, present |-> present, content |-> content, changed |-> {},
                         unread |-> {}, success |-> FALSE]
  <2>1. UNCHANGED <<present, content, unpacked>> /\ \A u \in Procs : call[u].stage # "zip"
    BY DEF ZipOpens
  <2>2. /\ IsSeq(work)
        /\ \A w : w \in Range(work) <=> \E p \in Range(Sources) : w = Item(p, <<Base(p)>>, TRUE)
    BY SourcesWork
  <2> HIDE DEF work
  <2>3. call'[t] = Call("zip", Idle.path, Idle.doc, work) /\ \A u \in Procs \ {t} : call'[u] = call[u]
    BY <1>2 DEF DiskInv, DiskType
  <2>4. call'[t].work = work
    BY <2>3 DEF Call
  <2>5. /\ zipped'.present = present /\ zipped'.content = content
        /\ zipped'.changed = {} /\ zipped'.success = FALSE
    BY <1>2
  <2>6. Range(archive') = {} /\ IsSeq(archive')
    <3>1. archive' \in Seq({}) BY <1>2
    <3>2. DOMAIN archive' = {} BY <1>2
    <3> QED BY <3>1, <3>2, IsSeqOfElements DEF Range
  <2>7. ZipType' /\ Rooted' BY <1>2, <2>1, <2>5, <2>6 DEF ZipInv, ZipType, Rooted
  <2>8. OneZip' BY <2>1, <2>3 DEF OneZip
  <2>9. EntriesRight' BY <2>6 DEF EntriesRight
  <2>10. Complete' BY <2>5 DEF Complete
  <2>11. ZipRoundTrip' BY <2>1 DEF ZipInv, ZipRoundTrip
  <2>12. ASSUME NEW w \in Range(work) PROVE WellNamed(w)
    <3>1. PICK p \in Range(Sources) : w = Item(p, <<Base(p)>>, TRUE)
      BY <2>2
    <3>2. w.path = p /\ w.name = <<Base(p)>> /\ w.top = TRUE
      BY <3>1 DEF Item
    <3>3. PICK way \in Followed : way[Len(way)] = p /\ Name(way, Len(way)) = <<Base(p)>>
      BY SourceWay
    <3> QED BY <3>1, <3>2, <3>3 DEF WellNamed
  <2>13. ASSUME NEW way \in Followed PROVE Awaits(Range(work), way)
    <3>1. 1 \in 1 .. Len(way) /\ way[1] \in Range(Sources)
      BY WayFacts DEF Followed
    <3>2. Name(way, 1) = <<Base(way[1])>>
      BY OneName
    <3>3. Item(way[1], Name(way, 1), TRUE) \in Range(work)
      BY <2>2, <3>1, <3>2
    <3> QED BY <3>1, <3>3 DEF Awaits
  <2>14. Steady' \subseteq Plain \cap present /\ Sure' \subseteq Followed
    BY <2>5 DEF Steady, Sure
  <2>15. Running'
    <3> SUFFICES ASSUME NEW u \in Procs, call'[u].stage = "zip"
                 PROVE  /\ ~ zipped'.success
                        /\ IsSeq(call'[u].work)
                        /\ \A w \in Range(call'[u].work) : WellNamed(w)
                        /\ \A f \in Steady' : f \in present' /\ content'[f] = zipped'.content[f]
                        /\ \A way \in Sure' : Awaits(Range(call'[u].work), way)
      BY DEF Running
    <3>1. call'[u].work = work
      BY <2>1, <2>3, <2>4
    <3> QED BY <2>1, <2>2, <2>5, <2>12, <2>13, <2>14, <3>1
  <2> QED BY <2>7, <2>8, <2>9, <2>10, <2>11, <2>15 DEF ZipInv
<1> QED BY <1>1, <1>2 DEF ZipOpens

\* zip() is through, or has failed: the archive stays as it is.
LEMMA ZipReturnsStep ==
    ASSUME DiskInv, ZipInv, NEW t \in Procs, call[t].stage = "zip", Returns(t),
           UNCHANGED <<present, content, archive, unpacked>>,
           zipped' = zipped \/ (call[t].work = <<>> /\ zipped' = [zipped EXCEPT !.success = TRUE])
    PROVE  ZipInv'
<1>1. call'[t].stage = "idle" /\ \A u \in Procs \ {t} : call'[u] = call[u]
  BY ReturnsFacts
<1>2. \A u \in Procs : call'[u].stage # "zip"
  BY <1>1 DEF ZipInv, OneZip
<1>3. /\ zipped'.present = zipped.present /\ zipped'.content = zipped.content
      /\ zipped'.changed = zipped.changed /\ zipped'.unread = zipped.unread
      /\ zipped'.success \in BOOLEAN
      /\ zipped' = [there |-> zipped'.there, present |-> zipped'.present,
                    content |-> zipped'.content, changed |-> zipped'.changed,
                    unread |-> zipped'.unread, success |-> zipped'.success]
  BY DEF ZipInv, ZipType
<1>4. Steady' = Steady /\ Sure' = Sure /\ \A way : EntryOf(way)' = EntryOf(way)
  BY <1>3 DEF Steady, Sure, EntryOf, Entry
<1>5. ZipType' /\ Rooted' BY <1>3 DEF ZipInv, ZipType, Rooted
<1>6. OneZip' BY <1>2 DEF OneZip
<1>7. EntriesRight' BY <1>3, <1>4 DEF ZipInv, EntriesRight, Right
<1>8. Running' BY <1>2 DEF Running
<1>9. Complete'
  <2>1. CASE zipped' = zipped
    BY <1>4, <2>1 DEF ZipInv, Complete
  <2>2. CASE call[t].work = <<>>
    <3>1. DOMAIN <<>> = {} OBVIOUS
    <3>2. Range(call[t].work) = {}
      BY <2>2, <3>1 DEF Range
    <3>3. \A way \in Sure : EntryOf(way) \in Range(archive)
      BY <3>2 DEF ZipInv, Running, Awaits
    <3> QED BY <1>4, <3>3 DEF Complete
  <2> QED BY <2>1, <2>2
<1>10. ZipRoundTrip' BY DEF ZipInv, ZipRoundTrip
<1> QED BY <1>5, <1>6, <1>7, <1>8, <1>9, <1>10 DEF ZipInv

\* zip() takes the next item off its work.
LEMMA ZipAddFacts ==
    ASSUME DiskInv, ZipInv, NEW t \in Procs, call[t].stage = "zip", call[t].work # <<>>
    PROVE  LET item == Head(call[t].work)
               rest1 == Tail(call[t].work)
           IN  /\ IsSeq(rest1)
               /\ Range(call[t].work) = Range(rest1) \cup {item}
               /\ WellNamed(item)
               /\ \A w \in Range(rest1) : WellNamed(w)
<1> DEFINE s == call[t].work
<1>1. IsSeq(s) /\ \A w \in Range(s) : WellNamed(w)
  BY DEF ZipInv, Running
<1> HIDE DEF s
<1>2. IsSeq(Tail(s)) /\ Head(s) \in Range(s) /\ Range(s) = Range(Tail(s)) \cup {Head(s)}
  <2>1. s # <<>> BY DEF s
  <2> QED BY <1>1, <2>1, TailRange
<1> QED BY <1>1, <1>2 DEF s

\* The call of zip() with other work.
LEMMA WorkFacts ==
    ASSUME DiskInv, ZipInv, NEW t \in Procs, call[t].stage = "zip", NEW work,
           call' = [call EXCEPT ![t].work = work]
    PROVE  /\ call'[t].stage = "zip" /\ call'[t].work = work
           /\ \A u \in Procs : u # t => call'[u] = call[u] /\ call'[u].stage # "zip"
<1>1. call' = [call EXCEPT ![t] = [call[t] EXCEPT !.work = work]]
  OBVIOUS
<1>2. IsCall(call[t]) /\ call = [u \in Procs |-> call[u]]
  BY DEF DiskInv, DiskType
<1>3. call'[t] = [call[t] EXCEPT !.work = work] /\ \A u \in Procs : u # t => call'[u] = call[u]
  BY <1>1, <1>2
<1>4. call'[t] = [stage |-> call[t].stage, path |-> call[t].path, doc |-> call[t].doc,
                  linked |-> call[t].linked, alone |-> call[t].alone, work |-> work]
  BY <1>2, <1>3 DEF IsCall
<1>5. call'[t].stage = "zip" /\ call'[t].work = work
  BY <1>4
<1> QED BY <1>3, <1>5 DEF ZipInv, OneZip

\* A step of zip() that adds right entries to the archive, and leaves work that
\* adds the files which are not in it.
LEMMA ZipWorkStep ==
    ASSUME DiskInv, ZipInv, NEW t \in Procs, call[t].stage = "zip", NEW work, NEW missed,
           call' = [call EXCEPT ![t].work = work],
           zipped' = [zipped EXCEPT !.unread = @ \cup missed],
           UNCHANGED <<present, content, unpacked>>,
           IsSeq(work), \A w \in Range(work) : WellNamed(w),
           IsSeq(archive'), Range(archive) \subseteq Range(archive'),
           \A e \in Range(archive') : e \in Range(archive) \/ Right(e, zipped.unread \cup missed),
           \A way \in Sure : Awaits(Range(call[t].work), way)
               => \/ EntryOf(way) \in Range(archive') \/ Awaits(Range(work), way)
                  \/ \E i \in 1 .. Len(way) : way[i] \in missed
    PROVE  ZipInv'
<1>1. /\ call'[t].stage = "zip" /\ call'[t].work = work
      /\ \A u \in Procs : u # t => call'[u] = call[u] /\ call'[u].stage # "zip"
  BY WorkFacts
<1>0. /\ zipped'.present = zipped.present /\ zipped'.content = zipped.content
      /\ zipped'.changed = zipped.changed /\ zipped'.unread = zipped.unread \cup missed
      /\ zipped'.success = zipped.success
      /\ zipped' = [there |-> zipped'.there, present |-> zipped'.present,
                    content |-> zipped'.content, changed |-> zipped'.changed,
                    unread |-> zipped'.unread, success |-> zipped'.success]
  BY DEF ZipInv, ZipType
<1>2. /\ Steady' = Steady /\ \A way : EntryOf(way)' = EntryOf(way)
      /\ \A way \in Sure' : way \in Sure /\ \A i \in 1 .. Len(way) : way[i] \notin missed
  BY <1>0 DEF Steady, Sure, EntryOf, Entry
<1>3. /\ ~ zipped.success
      /\ \A f \in Steady : f \in present /\ content[f] = zipped.content[f]
      /\ \A way \in Sure : EntryOf(way) \in Range(archive) \/ Awaits(Range(call[t].work), way)
  BY DEF ZipInv, Running
<1>4. Running'
  <2> SUFFICES ASSUME NEW u \in Procs, call'[u].stage = "zip"
               PROVE  /\ ~ zipped'.success
                      /\ IsSeq(call'[u].work)
                      /\ \A w \in Range(call'[u].work) : WellNamed(w)
                      /\ \A f \in Steady : f \in present' /\ content'[f] = zipped'.content[f]
                      /\ \A way \in Sure' :
                            EntryOf(way) \in Range(archive') \/ Awaits(Range(call'[u].work), way)
    BY <1>2 DEF Running
  <2>1. u = t BY <1>1
  <2>2. ASSUME NEW way \in Sure'
        PROVE  EntryOf(way) \in Range(archive') \/ Awaits(Range(work), way)
    BY <1>2, <1>3
  <2> QED BY <1>0, <1>1, <1>3, <2>1, <2>2
<1>5. ZipType' /\ Rooted' BY <1>0 DEF ZipInv, ZipType, Rooted
<1>6. OneZip' BY <1>1 DEF OneZip
<1>7. EntriesRight'
  <2>1. \A e \in Range(archive') : Right(e, zipped.unread \cup missed)
    BY DEF ZipInv, EntriesRight, Right
  <2> QED BY <1>0, <1>2, <2>1 DEF EntriesRight, Right
<1>8. Complete' BY <1>0, <1>3 DEF Complete
<1>9. ZipRoundTrip' BY DEF ZipInv, ZipRoundTrip
<1> QED BY <1>4, <1>5, <1>6, <1>7, <1>8, <1>9 DEF ZipInv

\* The source is there, and will be added next.
LEMMA ZipAddTopStep ==
    ASSUME DiskInv, ZipInv, NEW t \in Procs, call[t].stage = "zip", call[t].work # <<>>,
           LET item == Head(call[t].work)
           IN  call' = [call EXCEPT ![t].work =
                          <<Item(item.path, item.name, FALSE)>> \o Tail(call[t].work)],
           UNCHANGED <<present, content, archive, zipped, unpacked>>
    PROVE  ZipInv'
<1> DEFINE item == Head(call[t].work)
           rest1 == Tail(call[t].work)
           new == Item(item.path, item.name, FALSE)
           work == <<new>> \o rest1
<1>1. /\ IsSeq(rest1)
      /\ Range(call[t].work) = Range(rest1) \cup {item}
      /\ WellNamed(item)
      /\ \A w \in Range(rest1) : WellNamed(w)
  BY ZipAddFacts
<1>2. call' = [call EXCEPT ![t].work = work]
  OBVIOUS
<1> HIDE DEF item, rest1
<1>3. new.path = item.path /\ new.name = item.name /\ new.top = FALSE
  BY DEF Item
<1>4. WellNamed(new)
  BY <1>1, <1>3 DEF WellNamed
<1> HIDE DEF new
<1>5. IsSeq(<<new>>) /\ Range(<<new>>) = {new}
  <2>1. <<new>> \in Seq({new}) OBVIOUS
  <2>2. IsSeq(<<new>>) BY <2>1, IsSeqOfElements
  <2>3. DOMAIN <<new>> = {1} /\ <<new>>[1] = new OBVIOUS
  <2> QED BY <2>2, <2>3 DEF Range
<1>6. IsSeq(work) /\ Range(work) = {new} \cup Range(rest1)
  BY <1>1, <1>5, ConcatRange
<1> HIDE DEF work
<1>7. \A w \in Range(work) : WellNamed(w)
  BY <1>1, <1>4, <1>6
<1>8. ASSUME NEW way, Awaits(Range(call[t].work), way) PROVE Awaits(Range(work), way)
  <2>1. PICK k \in 1 .. Len(way), top \in BOOLEAN :
            Item(way[k], Name(way, k), top) \in Range(call[t].work)
    BY <1>8 DEF Awaits
  <2>2. CASE Item(way[k], Name(way, k), top) = item
    <3>1. way[k] = item.path /\ Name(way, k) = item.name
      BY <2>2 DEF Item
    <3>2. Item(way[k], Name(way, k), FALSE) \in Range(work)
      BY <1>6, <3>1 DEF new
    <3> QED BY <3>2 DEF Awaits
  <2>3. CASE Item(way[k], Name(way, k), top) \in Range(rest1)
    BY <1>6, <2>3 DEF Awaits
  <2> QED BY <1>1, <2>1, <2>2, <2>3
<1>10. zipped' = [zipped EXCEPT !.unread = @ \cup {}]
  BY DEF ZipInv, ZipType
<1>9. IsSeq(archive)
  BY DEF ZipInv, ZipType
<1>11. \A e \in Range(archive') : e \in Range(archive) OBVIOUS
<1> QED BY <1>2, <1>6, <1>7, <1>8, <1>9, <1>10, <1>11, ZipWorkStep

\* A directory gives way to what is in it: a file that is there is reached
\* through one of its entries.
LEMMA ZipAddDirStep ==
    ASSUME DiskInv, ZipInv, NEW t \in Procs, call[t].stage = "zip", call[t].work # <<>>,
           Head(call[t].work).path \in Dirs,
           call' = [call EXCEPT ![t].work = InDir(Head(call[t].work)) \o Tail(call[t].work)],
           archive' = Append(archive, Packed(Head(call[t].work).name, TRUE, <<>>)),
           zipped' = [zipped EXCEPT !.unread = @ \cup {}],
           UNCHANGED <<present, content, unpacked>>
    PROVE  ZipInv'
<1> DEFINE item == Head(call[t].work)
           rest1 == Tail(call[t].work)
           work == InDir(item) \o rest1
           new == Packed(item.name, TRUE, <<>>)
<1>1. /\ IsSeq(rest1)
      /\ Range(call[t].work) = Range(rest1) \cup {item}
      /\ WellNamed(item)
      /\ \A w \in Range(rest1) : WellNamed(w)
  BY ZipAddFacts
<1>2. /\ item.path \in Dirs /\ call' = [call EXCEPT ![t].work = work]
      /\ archive' = Append(archive, new)
  OBVIOUS
<1> HIDE DEF item, rest1
<1>3. /\ IsSeq(InDir(item))
      /\ \A w : w \in Range(InDir(item))
            <=> \E q \in present \ Hidden : In(q) = item.path /\ q # item.path
                                   /\ w = Item(q, Append(item.name, Base(q)), FALSE)
  BY InDirRange DEF ZipInv
<1>4. IsSeq(work) /\ Range(work) = Range(InDir(item)) \cup Range(rest1)
  BY <1>1, <1>3, ConcatRange
<1> HIDE DEF work
<1>5. ASSUME NEW w \in Range(InDir(item)) PROVE WellNamed(w)
  <2>1. PICK q \in present \ Hidden : In(q) = item.path /\ q # item.path
                             /\ w = Item(q, Append(item.name, Base(q)), FALSE)
    BY <1>3, <1>5
  <2>2. w.path = q /\ w.name = Append(item.name, Base(q)) /\ w.top = FALSE
    BY <2>1 DEF Item
  <2>3. PICK way \in Followed : item.path = way[Len(way)] /\ item.name = Name(way, Len(way))
    BY <1>1 DEF WellNamed
  <2>4. q \in Paths
    BY DEF ZipInv, ZipType
  <2>5. \E on \in Followed : /\ on[Len(on)] = q
                               /\ Name(on, Len(on)) = Append(Name(way, Len(way)), Base(q))
    BY <1>2, <2>1, <2>3, <2>4, Longer
  <2> QED BY <2>1, <2>2, <2>3, <2>5 DEF WellNamed
<1>6. \A w \in Range(work) : WellNamed(w)
  BY <1>1, <1>4, <1>5
<1>7. ASSUME NEW way \in Sure, Awaits(Range(call[t].work), way)
      PROVE  Awaits(Range(work), way)
  <2>1. PICK k \in 1 .. Len(way), top \in BOOLEAN :
            Item(way[k], Name(way, k), top) \in Range(call[t].work)
    BY <1>7 DEF Awaits
  <2>2. CASE Item(way[k], Name(way, k), top) = item
    <3> DEFINE f == way[Len(way)]
    <3>1. way[k] = item.path /\ Name(way, k) = item.name
      BY <2>2 DEF Item
    <3>2. f \in present /\ f \in Plain
      BY DEF ZipInv, Running, Sure, Steady
    <3>3. /\ way \in Ways /\ Rooted
          /\ \A i \in 2 .. Len(way) : way[i] \notin Hidden
      BY DEF Sure, Followed, ZipInv
    <3>4. /\ Len(way) \in Nat
          /\ \A i \in 1 .. Len(way) - 1 : In(way[i + 1]) = way[i] /\ way[i + 1] # way[i]
      BY <3>3, WayFacts
    <3>5. k # Len(way)
      BY <1>2, <3>1, <3>2, PathsAssumption
    <3>6. /\ k \in Nat /\ k \in 1 .. Len(way) - 1
          /\ k + 1 \in 1 .. Len(way) /\ k + 1 \in 2 .. Len(way)
      BY <3>4, <3>5
    <3>7. way[k + 1] \in present \ Hidden
      BY <3>2, <3>3, <3>6, AllTheWay
    <3>8. Append(item.name, Base(way[k + 1])) = Name(way, k + 1)
      BY <3>1, <3>6, NameAppend
    <3>9. Item(way[k + 1], Name(way, k + 1), FALSE) \in Range(work)
      BY <1>3, <1>4, <3>1, <3>4, <3>6, <3>7, <3>8
    <3> QED BY <3>6, <3>9 DEF Awaits
  <2>3. CASE Item(way[k], Name(way, k), top) \in Range(rest1)
    BY <1>4, <2>3 DEF Awaits
  <2> QED BY <1>1, <2>1, <2>2, <2>3
<1>8. Right(new, zipped.unread \cup {})
  <2>1. new.name = item.name /\ new.dir = TRUE /\ new.blocks = <<>>
    BY DEF Packed
  <2> QED BY <2>1 DEF Right
<1> HIDE DEF new
<1>9. IsSeq(archive') /\ Range(archive') = Range(archive) \cup {new}
  <2>1. IsSeq(archive) BY DEF ZipInv, ZipType
  <2>2. archive' = Append(archive, new) BY <1>2
  <2> QED BY <2>1, <2>2, AppendRange
<1>10. \A e \in Range(archive') : e \in Range(archive) \/ Right(e, zipped.unread \cup {})
  BY <1>8, <1>9
<1> QED BY <1>2, <1>4, <1>6, <1>7, <1>9, <1>10, ZipWorkStep

\* A directory that cannot be listed, or a file that cannot be read to its end:
\* what is on the ways through it is missed.
LEMMA ZipMissStep ==
    ASSUME DiskInv, ZipInv, NEW t \in Procs, call[t].stage = "zip", call[t].work # <<>>,
           call' = [call EXCEPT ![t].work = Tail(call[t].work)],
           NEW new, archive' = Append(archive, new),
           zipped' = [zipped EXCEPT !.unread = @ \cup {Head(call[t].work).path}],
           Right(new, zipped.unread \cup {Head(call[t].work).path}),
           UNCHANGED <<present, content, unpacked>>
    PROVE  ZipInv'
<1> DEFINE item == Head(call[t].work)
           rest1 == Tail(call[t].work)
           missed == {item.path}
<1>1. /\ IsSeq(rest1)
      /\ Range(call[t].work) = Range(rest1) \cup {item}
      /\ \A w \in Range(rest1) : WellNamed(w)
  BY ZipAddFacts
<1>2. IsSeq(archive') /\ Range(archive') = Range(archive) \cup {new}
  <2>1. IsSeq(archive) BY DEF ZipInv, ZipType
  <2> QED BY <2>1, AppendRange
<1>3. /\ call' = [call EXCEPT ![t].work = rest1]
      /\ zipped' = [zipped EXCEPT !.unread = @ \cup missed]
  OBVIOUS
<1>4. \A e \in Range(archive') : e \in Range(archive) \/ Right(e, zipped.unread \cup missed)
  BY <1>2
<1> HIDE DEF item, rest1
<1>5. ASSUME NEW way \in Sure, Awaits(Range(call[t].work), way)
      PROVE  Awaits(Range(rest1), way) \/ \E i \in 1 .. Len(way) : way[i] \in missed
  <2>1. PICK k \in 1 .. Len(way), top \in BOOLEAN :
            Item(way[k], Name(way, k), top) \in Range(call[t].work)
    BY <1>5 DEF Awaits
  <2>2. CASE Item(way[k], Name(way, k), top) = item
    BY <2>2 DEF Item
  <2>3. CASE Item(way[k], Name(way, k), top) \in Range(rest1)
    BY <2>3 DEF Awaits
  <2> QED BY <1>1, <2>1, <2>2, <2>3
<1> HIDE DEF missed
<1> QED BY <1>1, <1>2, <1>3, <1>4, <1>5, ZipWorkStep

LEMMA ZipAddFileStep ==
    ASSUME DiskInv, ZipInv, NEW t \in Procs, call[t].stage = "zip", call[t].work # <<>>,
           Head(call[t].work).path \in Plain,
           call' = [call EXCEPT ![t].work = Tail(call[t].work)],
           archive' = Append(archive, Packed(Head(call[t].work).name, FALSE,
                                             content[Head(call[t].work).path])),
           zipped' = [zipped EXCEPT !.unread = @ \cup {}],
           UNCHANGED <<present, content, unpacked>>
    PROVE  ZipInv'
<1> DEFINE item == Head(call[t].work)
           rest1 == Tail(call[t].work)
           p == item.path
           new == Packed(item.name, FALSE, content[p])
<1>1. /\ IsSeq(rest1)
      /\ Range(call[t].work) = Range(rest1) \cup {item}
      /\ WellNamed(item)
      /\ \A w \in Range(rest1) : WellNamed(w)
  BY ZipAddFacts
<1>2. p \in Plain /\ item.name \in NamesOf(p)
  BY <1>1, NamesAre DEF WellNamed
<1>3. call' = [call EXCEPT ![t].work = rest1]
  OBVIOUS
<1>4. IsSeq(archive') /\ Range(archive') = Range(archive) \cup {new}
  <2> HIDE DEF new
  <2>1. archive' = Append(archive, new) BY DEF new
  <2>2. IsSeq(archive) BY DEF ZipInv, ZipType
  <2> QED BY <2>1, <2>2, AppendRange
<1> HIDE DEF item, rest1, p
<1>5. \A f \in Steady : content[f] = zipped.content[f]
  BY DEF ZipInv, Running
<1>6. Right(new, zipped.unread \cup {})
  <2>1. new.name = item.name /\ new.dir = FALSE /\ new.blocks = content[p]
    BY DEF Packed
  <2> QED BY <1>2, <1>5, <2>1 DEF Right
<1>7. p \in Steady => new = Entry(p, item.name)
  BY <1>5 DEF Entry
<1> HIDE DEF new
<1>8. ASSUME NEW way \in Sure, Awaits(Range(call[t].work), way)
      PROVE  EntryOf(way) \in Range(archive') \/ Awaits(Range(rest1), way)
  <2>1. PICK k \in 1 .. Len(way), top \in BOOLEAN :
            Item(way[k], Name(way, k), top) \in Range(call[t].work)
    BY <1>8 DEF Awaits
  <2>2. CASE Item(way[k], Name(way, k), top) = item
    <3>1. way[k] = p /\ Name(way, k) = item.name
      BY <2>2 DEF Item, p
    <3>2. k = Len(way)
      BY <1>2, <3>1, FilesEndWays DEF Sure, Followed
    <3>3. p \in Steady /\ EntryOf(way) = Entry(p, item.name)
      BY <3>1, <3>2 DEF EntryOf, Sure
    <3> QED BY <1>4, <1>7, <3>3
  <2>3. CASE Item(way[k], Name(way, k), top) \in Range(rest1)
    BY <2>3 DEF Awaits
  <2> QED BY <1>1, <2>1, <2>2, <2>3
<1>9. \A e \in Range(archive') : e \in Range(archive) \/ Right(e, zipped.unread \cup {})
  BY <1>4, <1>6
<1> QED BY <1>1, <1>3, <1>4, <1>8, <1>9, ZipWorkStep

LEMMA ZipAddStep ==
    ASSUME DiskInv, ZipInv, NEW t \in Procs, ZipAdd(t)
    PROVE  ZipInv'
<1> DEFINE item == Head(call[t].work)
           p == item.path
<1>1. /\ call[t].stage = "zip" /\ call[t].work # <<>>
      /\ UNCHANGED <<present, content, unpacked>>
  BY DEF ZipAdd
<1>2. CASE Returns(t) /\ UNCHANGED <<archive, zipped>>
  BY <1>1, <1>2, ZipReturnsStep
<1>3. CASE /\ p \in Dirs
           /\ Adds(t, InDir(item) \o Tail(call[t].work), Packed(item.name, TRUE, <<>>), {})
  BY <1>1, <1>3, ZipAddDirStep DEF Adds
<1>4. CASE /\ call' = [call EXCEPT ![t].work =
                          <<Item(p, item.name, FALSE)>> \o Tail(call[t].work)]
           /\ UNCHANGED <<archive, zipped>>
  BY <1>1, <1>4, ZipAddTopStep
<1>5. CASE /\ p \in Plain
           /\ Adds(t, Tail(call[t].work), Packed(item.name, FALSE, content[p]), {})
  BY <1>1, <1>5, ZipAddFileStep DEF Adds
<1>6. WellNamed(item)
  BY <1>1, ZipAddFacts
<1>7. ASSUME NEW new, Right(new, zipped.unread \cup {p}), Adds(t, Tail(call[t].work), new, {p})
      PROVE  ZipInv'
  BY <1>1, <1>7, ZipMissStep DEF Adds
<1>8. CASE Adds(t, Tail(call[t].work), Packed(item.name, TRUE, <<>>), {p})
  <2> DEFINE new == Packed(item.name, TRUE, <<>>)
  <2>1. new.name = item.name /\ new.dir = TRUE /\ new.blocks = <<>> BY DEF Packed
  <2>2. Right(new, zipped.unread \cup {p}) BY <2>1 DEF Right
  <2> QED BY <1>7, <1>8, <2>2
<1>9. ASSUME p \in Plain, NEW blocks,
             Adds(t, Tail(call[t].work), Packed(item.name, FALSE, blocks), {p})
      PROVE  ZipInv'
  <2> DEFINE new == Packed(item.name, FALSE, blocks)
  <2>1. new.name = item.name /\ new.dir = FALSE /\ new.blocks = blocks BY DEF Packed
  <2>2. item.name \in NamesOf(p) BY <1>6, NamesAre DEF WellNamed
  <2>3. Right(new, zipped.unread \cup {p}) BY <1>9, <2>1, <2>2 DEF Right
  <2> QED BY <1>7, <1>9, <2>3
<1> QED BY <1>2, <1>3, <1>4, <1>5, <1>8, <1>9 DEF ZipAdd

LEMMA ZipClosesStep ==
    ASSUME DiskInv, ZipInv, NEW t \in Procs, ZipCloses(t)
    PROVE  ZipInv'
  BY ZipReturnsStep DEF ZipCloses, zipVars

\* The archive has an entry of file f under a name that is its own, and the first
\* file of that name is extracted: none is stuck.
LEMMA FirstIsRight ==
    ASSUME ZipInv, Stuck(archive) = {}, NEW f \in Steady \ zipped.unread, NEW n,
           \A g \in Plain \ {f} : n \notin NamesOf(g), Entry(f, n) \in Range(archive)
    PROVE  Entry(f, n) \in Extracted(archive)
<1>1. Len(archive) \in Nat /\ DOMAIN archive = 1 .. Len(archive)
  <2> DEFINE S == Range(archive)
  <2>1. archive \in Seq(S) BY DEF ZipInv, ZipType, IsSeq
  <2> HIDE DEF S
  <2> QED BY <2>1
<1> DEFINE files == {i \in DOMAIN archive : ~ archive[i].dir}
           T == {i \in files : archive[i].name = n}
<1>2. T \subseteq Nat BY <1>1
<1>3. T # {}
  <2>1. PICK i \in DOMAIN archive : archive[i] = Entry(f, n) BY DEF Range
  <2>2. archive[i].name = n /\ archive[i].dir = FALSE BY <2>1 DEF Entry, Packed
  <2> QED BY <2>1, <2>2
<1>4. PICK k \in T : \A y \in T : k =< y
  <2> HIDE DEF T
  <2> QED BY <1>2, <1>3, LeastNat
<1>5. k \in files /\ k \in DOMAIN archive /\ archive[k].name = n /\ ~ archive[k].dir
  OBVIOUS
<1>6. \A j \in files : j < k => archive[j].name # archive[k].name
  <2> SUFFICES ASSUME NEW j \in files, j < k, archive[j].name = n PROVE FALSE
    BY <1>5
  <2>1. j \in T /\ ~ (k =< j)
    BY <1>1, <1>5
  <2> QED BY <1>4, <2>1
<1>7. Right(archive[k], zipped.unread)
  BY <1>5 DEF ZipInv, EntriesRight, Range
<1>8. archive[k] = Entry(f, n)
  <2>1. archive[k].blocks = zipped.content[f]
    BY <1>5, <1>7 DEF Right
  <2>2. archive[k].dir = FALSE /\ archive[k] = Packed(archive[k].name, archive[k].dir, archive[k].blocks)
    BY <1>5, <1>7 DEF Right
  <2> QED BY <1>5, <2>1, <2>2 DEF Entry
<1> QED BY <1>5, <1>6, <1>8 DEF Extracted

LEMMA UnZipStep ==
    ASSUME DiskInv, ZipInv, NEW t \in Procs, UnZip(t)
    PROVE  ZipInv'
<1>1. UNCHANGED <<present, content, zipped, call, archive>>
  BY DEF UnZip, SameDisk
<1>2. Steady' = Steady /\ Sure' = Sure /\ \A way : EntryOf(way)' = EntryOf(way)
  BY <1>1 DEF Steady, Sure, EntryOf, Entry
<1>3. ZipType' /\ Rooted' BY <1>1 DEF ZipInv, ZipType, Rooted
<1>4. OneZip' BY <1>1 DEF ZipInv, OneZip
<1>5. EntriesRight' BY <1>1, <1>2 DEF ZipInv, EntriesRight, Right
<1>6. Running' BY <1>1, <1>2 DEF ZipInv, Running
<1>7. Complete' BY <1>1, <1>2 DEF ZipInv, Complete
<1>8. ZipRoundTrip'
  <2>1. unpacked'.of = zipped
    BY DEF UnZip
  <2> DEFINE busy == \E u \in Procs : call[u].stage = "zip"
             files == IF busy THEN <<>> ELSE archive
  <2>2. ASSUME unpacked'.success
        PROVE  unpacked'.entries = Extracted(files) /\ Stuck(files) = {}
    <3> HIDE DEF files
    <3>1. ASSUME NEW e, NEW ok, unpacked' = [entries |-> e, success |-> ok, of |-> zipped]
          PROVE  unpacked'.entries = e /\ ok
      BY <2>2, <3>1
    <3>2. CASE unpacked' = [entries |-> {}, success |-> FALSE, of |-> zipped]
      BY <3>1, <3>2
    <3>3. CASE unpacked' = [entries |-> Extracted(files), success |-> Stuck(files) = {}, of |-> zipped]
      <4> DEFINE ok == Stuck(files) = {}
      <4> HIDE DEF ok
      <4>1. unpacked' = [entries |-> Extracted(files), success |-> ok, of |-> zipped] BY <3>3 DEF ok
      <4>2. unpacked'.entries = Extracted(files) /\ ok BY <3>1, <4>1
      <4> QED BY <4>2 DEF ok
    <3>4. ASSUME NEW some, unpacked' = [entries |-> some, success |-> FALSE, of |-> zipped]
          PROVE  FALSE
      BY <3>1, <3>4
    <3> QED BY <3>2, <3>3, <3>4 DEF UnZip, files
  <2>3. zipped.success => files = archive
    <3>1. zipped.success => ~ busy
      BY DEF ZipInv, Running
    <3> QED BY <3>1
  <2> HIDE DEF files
  <2> SUFFICES ASSUME zipped.success, unpacked'.success, NEW way \in Followed,
                      way[Len(way)] \in Plain \cap (zipped.present \ zipped.changed),
                      \A i \in DOMAIN way : way[i] \notin zipped.unread,
                      \A g \in Plain \ {way[Len(way)]} : NameOf(way) \notin NamesOf(g)
               PROVE  Packed(NameOf(way), FALSE, zipped.content[way[Len(way)]]) \in unpacked'.entries
    BY <2>1 DEF ZipRoundTrip
  <2>4. /\ DOMAIN way = 1 .. Len(way) /\ Len(way) \in Nat \ {0}
        /\ NameOf(way) = Name(way, Len(way))
    BY WayFacts DEF Followed, NameOf, Name
  <2>5. way \in Sure
    BY <2>4 DEF Sure, Steady
  <2>6. EntryOf(way) \in Range(archive)
    BY <2>5 DEF ZipInv, Complete
  <2> DEFINE f == way[Len(way)]
  <2>7. f \in Steady \ zipped.unread
    <3>1. Len(way) \in 1 .. Len(way) BY <2>4
    <3> QED BY <2>5, <3>1 DEF Sure
  <2>8. Entry(f, NameOf(way)) \in Range(archive)
    BY <2>4, <2>6 DEF EntryOf
  <2>9. Entry(f, NameOf(way)) \in Extracted(archive)
    <3>1. Stuck(archive) = {} BY <2>2, <2>3
    <3> HIDE DEF f
    <3>2. \A g \in Plain \ {f} : NameOf(way) \notin NamesOf(g) BY DEF f
    <3> QED BY <2>7, <2>8, <3>1, <3>2, FirstIsRight
  <2> QED BY <2>2, <2>3, <2>9 DEF Entry
<1> QED BY <1>3, <1>4, <1>5, <1>6, <1>7, <1>8 DEF ZipInv

\* Entering a call leaves zip() alone.
LEMMA EntersZip ==
    ASSUME DiskInv, NEW t \in Procs, call[t].stage = "idle", NEW s \in AtFile, NEW p \in Plain,
           NEW d, NEW w, Enters(t, Call(s, p, d, w))
    PROVE  \A u \in Procs : /\ call'[u].stage = "zip" <=> call[u].stage = "zip"
                            /\ call[u].stage = "zip" => call'[u].work = call[u].work
<1> SUFFICES ASSUME NEW u \in Procs
             PROVE  /\ call'[u].stage = "zip" <=> call[u].stage = "zip"
                    /\ call[u].stage = "zip" => call'[u].work = call[u].work
  OBVIOUS
<1>1. CASE u = t
  <2>1. call'[t] = [stage |-> s, path |-> p, doc |-> d, linked |-> TRUE, alone |-> On(p) = {},
                    work |-> w]
    BY DEF Enters, Call
  <2>2. call'[t].stage = s BY <2>1
  <2> QED BY <1>1, <2>2 DEF AtFile
<1>2. CASE u # t /\ u \in On(p)
  <2>1. call'[u] = [call[u] EXCEPT !.alone = FALSE] /\ call[u].stage # "zip"
    BY <1>2 DEF Enters, Call, On
  <2>2. IsCall(call[u]) BY DEF DiskInv, DiskType
  <2>3. call'[u].stage = call[u].stage BY <2>1, <2>2 DEF IsCall
  <2> QED BY <2>1, <2>3
<1>3. CASE u # t /\ u \notin On(p)
  BY <1>3 DEF Enters, Call
<1> QED BY <1>1, <1>2, <1>3

\* So does a removal.
LEMMA UnlinkedZip ==
    ASSUME DiskInv, NEW u \in Procs, NEW gone, call'[u] = Unlinked(gone, call[u])
    PROVE  call'[u].stage = call[u].stage /\ call'[u].work = call[u].work
<1>1. IsCall(call[u]) BY DEF DiskInv, DiskType
<1> DEFINE l == call[u].linked /\ ~ (call[u].stage = "write" /\ call[u].path \in gone)
<1>2. call'[u] = [call[u] EXCEPT !.linked = l]
  BY DEF Unlinked
<1> HIDE DEF l
<1> QED BY <1>1, <1>2 DEF IsCall

LEMMA OtherSteps ==
    ASSUME DiskInv, ZipInv, NEW t \in Procs,
           \/ CreateOpens(t) \/ RemoveStep(t) \/ WriteData(t)
           \/ \E d \in Dirs : RemoveDir(t, d)
           \/ \E p \in Plain : CreateIfNotExists(t, p) \/ \E force \in BOOLEAN : RemoveIfExists(t, p, force)
           \/ \E p \in Plain, d \in Docs : WriteFile(t, p, d)
    PROVE  ZipInv'
<1> DEFINE Other == \A u \in Procs : /\ call'[u].stage = "zip" <=> call[u].stage = "zip"
                                     /\ call[u].stage = "zip" => call'[u].work = call[u].work
           Disk == \/ SameDisk
                   \/ \E now \in SUBSET Paths : \E blocks : (\A p \in now : In(p) \in now) /\ Leaves(now, blocks)
<1>0. /\ present \subseteq Paths /\ IsCall(call[t])
      /\ \A p \in present : In(p) \in present
      /\ \A p \in Plain : p \in Paths /\ \A q \in present : In(q) = p => q = p
  BY PathsAssumption DEF ZipInv, ZipType, Rooted, DiskInv, DiskType, Paths
<1>1. ASSUME CreateOpens(t) PROVE ZipInv'
  <2>1. call[t].stage = "create" /\ Returns(t) /\ UNCHANGED <<archive, unpacked>>
    BY <1>1 DEF CreateOpens, zipVars
  <2>2. Other BY <2>1, ReturnsFacts
  <2>3. Disk
    <3>1. call[t].path \in Plain BY <1>0, <2>1 DEF IsCall, AtFile
    <3>2. present \cup {call[t].path} \in SUBSET Paths BY <1>0, <3>1
    <3>3. CASE /\ In(call[t].path) \in present \cup {call[t].path}
               /\ \E blocks : Leaves(present \cup {call[t].path}, blocks)
      <4>1. \A p \in present \cup {call[t].path} : In(p) \in present \cup {call[t].path}
        BY <1>0, <3>3
      <4> QED BY <3>2, <3>3, <4>1
    <3> QED BY <1>1, <3>3 DEF CreateOpens
  <2> QED BY <2>1, <2>2, <2>3, ZipFrame
<1>2. ASSUME RemoveStep(t) PROVE ZipInv'
  <2>1. call[t].stage \in {"remove", "trash", "last"} /\ UNCHANGED <<archive, unpacked>>
    BY <1>2 DEF RemoveStep, zipVars
  <2>2. CASE /\ call' = [u \in Procs |-> IF u = t THEN Idle ELSE Unlinked({call[t].path}, call[u])]
             /\ Unlink({call[t].path})
    <3>1. Other
      BY <2>1, <2>2, UnlinkedZip, IdleIsCall
    <3>2. Disk
      <4>1. call[t].path \in Plain BY <1>0, <2>1 DEF IsCall, AtFile
      <4>2. \A p \in present \ {call[t].path} : In(p) \in present \ {call[t].path}
        BY <1>0, <4>1
      <4>3. present \ {call[t].path} \in SUBSET Paths BY <1>0
      <4> QED BY <2>2, <4>2, <4>3 DEF Unlink
    <3> QED BY <2>1, <3>1, <3>2, ZipFrame
  <2>3. CASE Returns(t) /\ SameDisk
    <3>1. Other BY <2>1, <2>3, ReturnsFacts
    <3> QED BY <2>1, <2>3, <3>1, ZipFrame
  <2>4. CASE /\ call[t].stage # "last" /\ SameDisk
             /\ call' = [call EXCEPT ![t].stage =
                           [remove |-> "trash", trash |-> "last", last |-> "idle"][@]]
    <3>1. call'[t].stage \in {"trash", "last"} /\ \A u \in Procs : u # t => call'[u] = call[u]
      BY <1>0, <2>1, <2>4 DEF DiskInv, DiskType, IsCall
    <3>2. Other BY <2>1, <3>1
    <3> QED BY <2>1, <2>4, <3>2, ZipFrame
  <2> QED BY <1>2, <2>2, <2>3, <2>4 DEF RemoveStep
<1>3. ASSUME WriteData(t) PROVE ZipInv'
  <2>1. call[t].stage = "write" /\ Returns(t) /\ UNCHANGED <<archive, unpacked>>
    BY <1>3 DEF WriteData, zipVars
  <2>2. Other BY <2>1, ReturnsFacts
  <2>3. Disk
    <3>1. SameDisk \/ \E blocks : Leaves(present, blocks)
      BY <1>3 DEF WriteData
    <3> QED BY <1>0, <3>1
  <2> QED BY <2>1, <2>2, <2>3, ZipFrame
<1>4. ASSUME NEW d \in Dirs, RemoveDir(t, d) PROVE ZipInv'
  <2>1. PICK gone : /\ \A q \in present : In(q) \in gone => q \in gone
                    /\ call' = [u \in Procs |-> Unlinked(gone, call[u])]
                    /\ Unlink(gone)
    BY <1>4 DEF RemoveDir
  <2>2. Other BY <2>1, UnlinkedZip
  <2>3. Disk
    <3>1. \A p \in present \ gone : In(p) \in present \ gone BY <1>0, <2>1
    <3>2. present \ gone \in SUBSET Paths BY <1>0
    <3> QED BY <2>1, <3>1, <3>2 DEF Unlink
  <2>4. UNCHANGED <<archive, unpacked>> BY <1>4 DEF RemoveDir, zipVars
  <2> QED BY <2>2, <2>3, <2>4, ZipFrame
<1>5. ASSUME NEW p \in Plain, CreateIfNotExists(t, p) PROVE ZipInv'
  <2>1. /\ call[t].stage = "idle" /\ SameDisk /\ UNCHANGED <<archive, unpacked>>
        /\ call' = call \/ Enters(t, Call("create", p, Idle.doc, <<>>))
    BY <1>5 DEF CreateIfNotExists, Begins, zipVars
  <2>2. Other
    BY <2>1, EntersZip DEF AtFile
  <2> QED BY <2>1, <2>2, ZipFrame
<1>6. ASSUME NEW p \in Plain, NEW force \in BOOLEAN, RemoveIfExists(t, p, force) PROVE ZipInv'
  <2> DEFINE s == IF force THEN "remove" ELSE "last"
  <2>1. /\ call[t].stage = "idle" /\ SameDisk /\ UNCHANGED <<archive, unpacked>>
        /\ call' = call \/ Enters(t, Call(s, p, Idle.doc, <<>>))
    BY <1>6 DEF RemoveIfExists, Begins, zipVars
  <2>2. s \in AtFile BY DEF AtFile
  <2> HIDE DEF s
  <2>3. Other
    BY <2>1, <2>2, EntersZip
  <2> QED BY <2>1, <2>3, ZipFrame
<1>7. ASSUME NEW p \in Plain, NEW d \in Docs, WriteFile(t, p, d) PROVE ZipInv'
  <2>1. /\ call[t].stage = "idle" /\ UNCHANGED <<archive, unpacked>>
        /\ call' = call \/ Enters(t, Call("write", p, d, <<>>))
    BY <1>7 DEF WriteFile, Begins, zipVars
  <2>2. Other
    BY <2>1, EntersZip DEF AtFile
  <2>3. Disk
    <3>1. present \cup {p} \in SUBSET Paths BY <1>0
    <3>2. CASE /\ In(p) \in present \cup {p}
               /\ \E blocks : Leaves(present \cup {p}, blocks)
      <4>1. \A q \in present \cup {p} : In(q) \in present \cup {p}
        BY <1>0, <3>2
      <4> QED BY <3>1, <3>2, <4>1
    <3> QED BY <1>7, <3>2 DEF WriteFile
  <2> QED BY <2>1, <2>2, <2>3, ZipFrame
<1> QED BY <1>1, <1>2, <1>3, <1>4, <1>5, <1>6, <1>7

LEMMA ZipInvInit == FilesInit => ZipInv
<1> SUFFICES ASSUME FilesInit PROVE ZipInv
  OBVIOUS
<1>1. /\ zipped = [there |-> FALSE, present |-> {}, content |-> content, changed |-> {},
                   unread |-> {}, success |-> FALSE]
      /\ Dirs \subseteq present /\ present \subseteq Paths
      /\ archive = <<>> /\ unpacked.of = zipped
      /\ \A t \in Procs : call[t].stage = "idle"
  BY IdleIsCall DEF FilesInit, Paths
<1>2. Range(archive) = {} /\ IsSeq(archive)
  <2>1. archive \in Seq({}) BY <1>1
  <2>2. DOMAIN archive = {} BY <1>1
  <2> QED BY <2>1, <2>2, IsSeqOfElements DEF Range
<1>3. zipped.success = FALSE BY <1>1
<1>4. ZipType /\ Rooted BY <1>1, <1>2, PathsAssumption DEF ZipType, Rooted
<1>5. OneZip BY <1>1 DEF OneZip
<1>6. EntriesRight BY <1>2 DEF EntriesRight
<1>7. Running BY <1>1 DEF Running
<1>8. Complete BY <1>3 DEF Complete
<1>9. ZipRoundTrip BY <1>1, <1>3 DEF ZipRoundTrip
<1> QED BY <1>4, <1>5, <1>6, <1>7, <1>8, <1>9 DEF ZipInv

LEMMA ZipInvStep == DiskInv /\ ZipInv /\ [FilesNext]_diskVars => ZipInv'
<1> SUFFICES ASSUME DiskInv, ZipInv, [FilesNext]_diskVars PROVE ZipInv'
  OBVIOUS
<1>1. CASE UNCHANGED diskVars
  BY <1>1, ZipFrame DEF diskVars, SameDisk
<1>2. CASE FilesNext
  BY <1>2, ZipOpensStep, ZipAddStep, ZipClosesStep, UnZipStep, OtherSteps DEF FilesNext
<1> QED BY <1>1, <1>2

\* After a zip() and an unZip() that both returned true, every file that zip() could
\* come to (hidden ones only if they are sources) and that did not change
\* meanwhile is back, under each name that no other file can have, for any tree
\* of directories, any sources and any number of threads that work on the disk in
\* between, and whichever of their calls fail, unless the file or a directory on
\* the way to it could not be read.
THEOREM ZipGivesBack == FilesSpec => []ZipRoundTrip
<1>1. ZipInv => ZipRoundTrip
  BY DEF ZipInv
<1> QED
  BY <1>1, DiskInit, DiskStep, ZipInvInit, ZipInvStep, PTL DEF FilesSpec
=============================================================================
