------------------------------- MODULE MCFiles -------------------------------
(***************************************************************************)
(* The helpers for files and their contents.  They share nothing but the    *)
(* disk, so a behaviour exercises one part, and the state spaces add up.    *)
(***************************************************************************)
EXTENDS Files, TextChunker, Crc

VARIABLE part

fileVars == <<part, diskVars, chunkVars, crcVars>>

\* A file in a directory of a directory has two names in an archive, another
\* file has one of them, and one is hidden in its directory and a source itself.
MCIn(p)     == CASE p = "d/s/b" -> "d/s" [] p \in {"d/s", "d/.h"} -> "d" [] OTHER -> p
MCBase(p)   == CASE p = "d/s/b" -> "b" [] p = "d/s" -> "s" [] p = "d/.h" -> ".h" [] OTHER -> p
MCBlocks(d) == IF d = "object" THEN <<"o">> ELSE <<"a1", "a2">>
MCIsObject(d) == d = "object"
MCSources   == <<"b", "d", "d/.h", "d/s/b">>
MCSymmetry  == Permutations(Procs)

\* All short texts over the characters that matter for each kind of boundary,
\* two files in a row, and a callback that does as it likes.
MCFileOf(t, kind) == [text |-> t, cut |-> kind]
MCJobs ==
    {<<MCFileOf(t, "sentence")>>  : t \in BoundedSeq({"letter", "stop", "closing", "blank"}, 5)}
    \cup {<<MCFileOf(t, "paragraph")>> : t \in BoundedSeq({"letter", "cr", "lf"}, 6)}
    \cup {<<MCFileOf(t, "none"), MCFileOf(u, "sentence")>> :
             t \in BoundedSeq({"letter"}, 3), u \in BoundedSeq({"letter", "stop", "blank"}, 3)}
    \cup {<<MCFileOf(t, "any"), MCFileOf(u, "none")>> :
             t \in BoundedSeq({"letter"}, 4), u \in BoundedSeq({"letter"}, 2)}

\* Before, in, at the end of and past a text.
MCPositions == {-2, 0, 1, 3, 5}

MCBytes == 0 .. 255

MCInit ==
    /\ part \in {"disk", "chunks", "crc"}
    /\ FilesInit /\ ChunkInit /\ CrcInit
    /\ present = Dirs \/ (part = "disk" /\ present = Dirs \cup Plain)
    /\ part # "chunks" => chunkSize = 1 /\ rest = <<MCFileOf(<<>>, "sentence")>>

MCNext ==
    /\ UNCHANGED part
    /\ \/ part = "disk" /\ FilesNext /\ UNCHANGED <<chunkVars, crcVars>>
       \/ part = "chunks" /\ ChunkNext /\ UNCHANGED <<diskVars, crcVars>>
       \/ part = "crc" /\ CrcNext /\ UNCHANGED <<diskVars, chunkVars>>

MCSpec == MCInit /\ [][MCNext]_fileVars
=============================================================================
