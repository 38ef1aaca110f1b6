-------------------------------- MODULE Files --------------------------------
(***************************************************************************)
(* The file helpers that share a disk: File::createIfNotExists and          *)
(* removeIfExists (libqt/io/file.h), JSON::writeFile and readFile           *)
(* (libqt/encoding/json.h), Zipper (libqt/encoding/zipper.h).               *)
(*                                                                          *)
(* Each is a sequence of system calls with nothing around them: threads     *)
(* interleave between them, and each may fail.  A document is a sequence of *)
(* blocks, and so is a file.  A shorter document written over a longer one  *)
(* leaves the longer one's tail, and the result cannot be parsed.           *)
(***************************************************************************)
EXTENDS Naturals, SequencesExt

CONSTANTS
    Procs,           \* threads or processes
    Plain, Dirs,     \* paths of files and of directories
    In(_),           \* the directory a path is in, or the path itself at the top
    Base(_),         \* fileName() of a path
    Hidden,          \* paths whose name begins with a dot
    Docs, Blocks(_), \* documents, and the blocks of each
    IsObject(_),     \* a document is a JSON object, or else an array
    Sources,         \* srcFiles of zip()
    MaxDepth,        \* bound: no directory is that deep
    MaxFaults,       \* bound: system calls that fail although they could work
    MaxFileCalls     \* bound: calls of all threads

Paths == Plain \cup Dirs

\* The ways down the tree: each path is in the one before it.
Ways == {way \in UNION {[1 .. n -> Paths] : n \in 1 .. MaxDepth} :
            \A i \in 1 .. Len(way) - 1 : In(way[i + 1]) = way[i] /\ way[i + 1] # way[i]}

ASSUME PathsAssumption ==
    /\ Plain \cap Dirs = {} /\ IsFiniteSet(Paths)
    /\ \A p \in Paths : In(p) \in Dirs \cup {p}
ASSUME DepthAssumption ==
    /\ MaxDepth \in Nat \ {0}
    /\ \A way \in Ways : Len(way) = MaxDepth => way[MaxDepth] \in Plain
ASSUME SourcesAssumption == Sources \in Seq(Paths)

\* Documents are sequences of blocks, and the text of a document tells it from
\* all others.
ASSUME BlocksAssumption ==
    /\ \A d \in Docs : Blocks(d) \in Seq({Blocks(d)[i] : i \in DOMAIN Blocks(d)})
    /\ \A d, e \in Docs : Blocks(d) = Blocks(e) => d = e

VARIABLES
    present,         \* paths that exist
    content,         \* blocks of each file
    call,            \* what each thread is at, see Call
    faults, made,    \* failures, calls
    kept,            \* history: the document of each file that was reported as
                     \* written by a call no other overlapped, until the next
                     \* write opens the file or a removal succeeds
    archive,         \* entries of the zip file
    zipped,          \* history: the files when zip() began, those that changed while
                     \* it ran, what it could not read in full, and its result;
                     \* there: the zip file exists
    unpacked         \* what the last unZip() extracted, its result, and zipped of
                     \* that archive

diskVars == <<present, content, call, faults, made, kept, archive, zipped, unpacked>>
zipVars  == <<archive, unpacked>>

\* linked: the open file is still the one at the path; alone: no other call on
\* the path has overlapped this one; work: what zip() still has to add.
Call(stage, p, d, work) == [stage |-> stage, path |-> p, doc |-> d, linked |-> TRUE,
                            alone |-> TRUE, work |-> work]
Idle == Call("idle", CHOOSE p \in Plain : TRUE, CHOOSE d \in Docs : TRUE, <<>>)

FilesInit ==
    /\ \E some \in SUBSET Plain : present = Dirs \cup some
    /\ content = [p \in Plain |-> <<>>]
    /\ call = [t \in Procs |-> Idle]
    /\ faults = 0
    /\ made = 0
    /\ kept = [p \in Plain |-> {}]
    /\ archive = <<>>
    /\ zipped = [there |-> FALSE, present |-> {}, content |-> content, changed |-> {},
                 unread |-> {}, success |-> FALSE]
    /\ unpacked = [entries |-> {}, success |-> FALSE, of |-> zipped]

-----------------------------------------------------------------------------
(* Helpers                                                                  *)

Fails == faults < MaxFaults /\ faults' = faults + 1

Begins(t) ==
    /\ call[t].stage = "idle"
    /\ made < MaxFileCalls
    /\ made' = made + 1

\* The threads that have a call on file p in progress.
On(p) == {u \in Procs : call[u].stage \notin {"idle", "zip"} /\ call[u].path = p}

\* Thread t enters a call that takes more steps.
Enters(t, c) ==
    call' = [u \in Procs |-> IF u = t THEN [c EXCEPT !.alone = On(c.path) = {}]
                             ELSE IF u \in On(c.path) THEN [call[u] EXCEPT !.alone = FALSE]
                             ELSE call[u]]

Returns(t) == call' = [call EXCEPT ![t] = Idle]

\* The disk as a step leaves it; zip() may be under way.
Leaves(now, blocks) ==
    /\ present' = now
    /\ content' = blocks
    /\ zipped' = IF \E t \in Procs : call[t].stage = "zip"
                 THEN [zipped EXCEPT !.changed = @ \cup
                         {p \in Plain : (p \in now) # (p \in present) \/ blocks[p] # content[p]}]
                 ELSE zipped

SameDisk == UNCHANGED <<present, content, zipped>>

-----------------------------------------------------------------------------
(* File                                                                     *)

\* Mutant of CreateIfNotExists: the file is opened without looking.
CreateAnyway(t, p) ==
    /\ Begins(t) /\ In(p) \in present \cup {p}
    /\ Leaves(present \cup {p}, [content EXCEPT ![p] = <<>>])
    /\ UNCHANGED <<call, faults, kept, zipVars>>

\* createIfNotExists(): true if the file is there ...
CreateIfNotExists(t, p) ==
    /\ Begins(t)
    /\ IF p \in present THEN UNCHANGED call ELSE Enters(t, Call("create", p, Idle.doc, <<>>))
    /\ SameDisk
    /\ UNCHANGED <<faults, kept, zipVars>>

\* ... or else open(WriteOnly), which empties a file that came in between.
CreateOpens(t) ==
    LET p == call[t].path
    IN  /\ call[t].stage = "create"
        /\ \/ Fails /\ SameDisk
           \/ /\ In(p) \in present \cup {p}
              /\ Leaves(present \cup {p}, [content EXCEPT ![p] = <<>>])
              /\ UNCHANGED faults
           \/ In(p) \notin present \cup {p} /\ SameDisk /\ UNCHANGED faults
        /\ Returns(t)
        /\ UNCHANGED <<made, kept, zipVars>>

\* What removing the files in gone leaves: open files stay, without a path.
Unlinked(gone, c) == [c EXCEPT !.linked = @ /\ ~ (c.stage = "write" /\ c.path \in gone)]

Unlink(gone) ==
    /\ Leaves(present \ gone, [q \in Plain |-> IF q \in gone THEN <<>> ELSE content[q]])
    /\ kept' = [q \in Plain |-> IF q \in gone THEN {} ELSE kept[q]]

\* removeIfExists() of a file: true if there is none.
RemoveIfExists(t, p, force) ==
    /\ Begins(t)
    /\ IF p \in present THEN Enters(t, Call(IF force THEN "remove" ELSE "last", p, Idle.doc, <<>>))
       ELSE UNCHANGED call
    /\ SameDisk
    /\ UNCHANGED <<faults, kept, zipVars>>

\* remove(), moveToTrash(), and remove() again: the first that works ends the
\* call; of a file that is gone none does.
RemoveStep(t) ==
    LET c == call[t]
        next == [remove |-> "trash", trash |-> "last", last |-> "idle"]
    IN  /\ c.stage \in DOMAIN next
        /\ \/ /\ c.path \in present
              /\ call' = [u \in Procs |-> IF u = t THEN Idle ELSE Unlinked({c.path}, call[u])]
              /\ Unlink({c.path})
              /\ UNCHANGED faults
           \/ /\ IF c.path \in present THEN Fails ELSE UNCHANGED faults
              /\ IF c.stage = "last" THEN Returns(t) ELSE call' = [call EXCEPT ![t].stage = next[@]]
              /\ SameDisk /\ UNCHANGED kept
        /\ UNCHANGED <<made, zipVars>>

\* removeIfExists() of a directory: removeRecursively() removes what it can, and
\* a directory only when nothing is left in it.
RemoveDir(t, d) ==
    /\ Begins(t) /\ d \in present
    /\ \E gone \in SUBSET {q \in present : \E way \in Ways : way[1] = d /\ way[Len(way)] = q} :
          /\ \A q \in present : In(q) \in gone => q \in gone
          /\ IF d \in gone THEN UNCHANGED faults ELSE Fails
          /\ call' = [u \in Procs |-> Unlinked(gone, call[u])]
          /\ Unlink(gone)
    /\ UNCHANGED zipVars

-----------------------------------------------------------------------------
(* JSON                                                                     *)

\* writeFile(): false if the file cannot be opened; opening it empties it.
WriteFile(t, p, d) ==
    /\ Begins(t)
    /\ \/ /\ IF In(p) \in present \cup {p} THEN Fails ELSE UNCHANGED faults
          /\ SameDisk /\ UNCHANGED <<call, kept>>
       \/ /\ In(p) \in present \cup {p}
          /\ Enters(t, Call("write", p, d, <<>>))
          /\ Leaves(present \cup {p}, [content EXCEPT ![p] = <<>>])
          /\ kept' = [kept EXCEPT ![p] = {}]
          /\ UNCHANGED faults
    /\ UNCHANGED zipVars

\* The document goes to the file from its first block on, with the destructor
\* of QFile at the latest; nobody looks how much of it.  The call says true.
WriteData(t) ==
    LET p == call[t].path
        all == Blocks(call[t].doc)
    IN  /\ call[t].stage = "write"
        /\ \E n \in 0 .. Len(all) :
              /\ IF n = Len(all) THEN UNCHANGED faults ELSE Fails
              /\ IF call[t].linked
                 THEN Leaves(present, [content EXCEPT ![p] =
                        SubSeq(all, 1, n) \o SubSeq(@, n + 1, Len(@))])
                 ELSE SameDisk
              /\ kept' = IF n = Len(all) /\ call[t].linked /\ call[t].alone
                         THEN [kept EXCEPT ![p] = {call[t].doc}] ELSE kept
        /\ Returns(t)
        /\ UNCHANGED <<made, zipVars>>

\* readFile(): the document, if there is one in the file and it has the type
\* that is asked for.
ReadFile(p) == {d \in Docs : p \in present /\ content[p] = Blocks(d)}
ReadObject(p) == {d \in ReadFile(p) : IsObject(d)}
ReadArray(p)  == {d \in ReadFile(p) : ~ IsObject(d)}

-----------------------------------------------------------------------------
(* Zipper                                                                   *)

\* top: srcFiles names it, and zip() has not yet asked whether it exists.
Item(p, name, top) == [path |-> p, name |-> name, top |-> top]

\* An entry of the archive: a directory, or a file with its content.
Packed(name, dir, blocks) == [name |-> name, dir |-> dir, blocks |-> blocks]

\* zip() opens, and so empties, the archive.
ZipOpens(t) ==
    /\ \A u \in Procs : call[u].stage # "zip"
    /\ Begins(t)
    /\ \/ Fails /\ UNCHANGED <<call, archive, zipped>>
       \/ /\ call' = [call EXCEPT ![t] = Call("zip", Idle.path, Idle.doc,
                        [i \in DOMAIN Sources |-> Item(Sources[i], <<Base(Sources[i])>>, TRUE)])]
          /\ archive' = <<>>
          /\ zipped' = [there |-> TRUE, present |-> present, content |-> content, changed |-> {},
                        unread |-> {}, success |-> FALSE]
          /\ UNCHANGED faults
    /\ UNCHANGED <<present, content, kept, unpacked>>

\* What entryInfoList() gives: it leaves out what is hidden.
Listed(dir) == SetToSeq({q \in present \ Hidden : In(q) = dir /\ q # dir})

\* Mutant of InDir: the entries of a directory lose its name.
InDirFlat(item) ==
    LET entries == Listed(item.path)
    IN  [i \in DOMAIN entries |-> Item(entries[i], <<Base(entries[i])>>, FALSE)]

\* addDirectory(): what is in the directory now, which is nothing if it is gone,
\* under the directory's name.
InDir(item) ==
    LET entries == Listed(item.path)
    IN  [i \in DOMAIN entries |-> Item(entries[i], Append(item.name, Base(entries[i])), FALSE)]

\* zip() goes on to other work with one more entry, and may have missed something.
Adds(t, work, entry, missed) ==
    /\ call' = [call EXCEPT ![t].work = work]
    /\ archive' = Append(archive, entry)
    /\ zipped' = [zipped EXCEPT !.unread = @ \cup missed]

\* The next source, or the next entry of a directory.  If a source does not
\* exist, or a file cannot be opened, zip() returns false, and the destructor of
\* QZipWriter finishes the archive with what it has.  A directory that cannot be
\* listed looks empty, a file that cannot be read to its end looks shorter, and
\* zip() goes on.
ZipAdd(t) ==
    LET item == Head(call[t].work)
        rest == Tail(call[t].work)
        p == item.path
    IN  /\ call[t].stage = "zip" /\ call[t].work # <<>>
        /\ \/ /\ IF p \in present THEN ~ item.top /\ p \in Plain /\ Fails
                 ELSE (item.top \/ p \in Plain) /\ UNCHANGED faults
              /\ Returns(t)
              /\ UNCHANGED <<archive, zipped>>
           \/ /\ item.top /\ p \in present
              /\ call' = [call EXCEPT ![t].work = <<Item(p, item.name, FALSE)>> \o rest]
              /\ UNCHANGED <<faults, archive, zipped>>
           \/ /\ ~ item.top /\ p \in Dirs
              /\ Adds(t, InDir(item) \o rest, Packed(item.name, TRUE, <<>>), {})
              /\ UNCHANGED faults
           \/ /\ ~ item.top /\ p \in Dirs
              /\ Adds(t, rest, Packed(item.name, TRUE, <<>>), {p})
              /\ Fails
           \/ /\ ~ item.top /\ p \in Plain \cap present
              /\ Adds(t, rest, Packed(item.name, FALSE, content[p]), {})
              /\ UNCHANGED faults
           \/ /\ ~ item.top /\ p \in Plain \cap present
              /\ \E n \in 1 .. Len(content[p]) :
                    Adds(t, rest, Packed(item.name, FALSE, SubSeq(content[p], 1, n - 1)), {p})
              /\ Fails
        /\ UNCHANGED <<present, content, made, kept, unpacked>>

\* close() and the writer's status: SignalZipFinished and the result.
ZipCloses(t) ==
    /\ call[t].stage = "zip" /\ call[t].work = <<>>
    /\ \/ Fails /\ UNCHANGED zipped
       \/ zipped' = [zipped EXCEPT !.success = TRUE] /\ UNCHANGED faults
    /\ Returns(t)
    /\ UNCHANGED <<present, content, made, kept, zipVars>>

\* Files whose name a directory of the archive has: extractAll() makes the
\* directories first, and then cannot open such a file.
Stuck(entries) ==
    {k \in DOMAIN entries : ~ entries[k].dir /\ \E j \in DOMAIN entries :
                                entries[j].dir /\ entries[j].name = entries[k].name}

\* The files that extractAll() writes, in their order, up to the first such.  It
\* looks files up by name, which finds the first.
Extracted(entries) ==
    LET files == {k \in DOMAIN entries : ~ entries[k].dir}
    IN  {entries[k] : k \in {k \in files :
            /\ \A j \in files : j < k => entries[j].name # entries[k].name
            /\ \A j \in Stuck(entries) : k < j}}

\* unZip(): there must be an archive that can be read.  One that is not finished
\* has no directory and extracts nothing, which counts as success.
UnZip(t) ==
    LET files == IF \E u \in Procs : call[u].stage = "zip" THEN <<>> ELSE archive
        Gives(entries, success) ==
            unpacked' = [entries |-> entries, success |-> success, of |-> zipped]
    IN  /\ Begins(t)
        /\ \/ ~ zipped.there /\ Gives({}, FALSE) /\ UNCHANGED faults
           \/ zipped.there /\ Gives(Extracted(files), Stuck(files) = {}) /\ UNCHANGED faults
           \/ /\ zipped.there /\ Fails
              /\ \E some \in SUBSET Extracted(files) : Gives(some, FALSE)
        /\ SameDisk
        /\ UNCHANGED <<call, kept, archive>>

FilesNext ==
    \E t \in Procs :
        \/ CreateOpens(t) \/ RemoveStep(t) \/ WriteData(t)
        \/ ZipOpens(t) \/ ZipAdd(t) \/ ZipCloses(t) \/ UnZip(t)
        \/ \E d \in Dirs : RemoveDir(t, d)
        \/ \E p \in Plain : CreateIfNotExists(t, p) \/ \E force \in BOOLEAN : RemoveIfExists(t, p, force)
        \/ \E p \in Plain, d \in Docs : WriteFile(t, p, d)

FilesSpec == FilesInit /\ [][FilesNext]_diskVars

-----------------------------------------------------------------------------
(* Properties                                                               *)

\* A document that writeFile() reported as written can be read back, as what it
\* is, until another write opens the file or a removal succeeds: a failed
\* write, a failed removal and createIfNotExists() leave it alone.  It takes a
\* call that overlapped the write, or a write that fell short, to lose it.
DocumentKept ==
    \A p \in Plain : \A d \in kept[p] :
        /\ ReadFile(p) = {d}
        /\ (IF IsObject(d) THEN ReadObject(p) ELSE ReadArray(p)) = {d}

\* The ways that zip() goes: from a source, which may be hidden, down through
\* what is not.
Followed == {way \in Ways : way[1] \in Range(Sources) /\ \A i \in 2 .. Len(way) : way[i] \notin Hidden}

\* The name at the end of a way, and the names that path f can have in the archive.
NameOf(way) == [i \in DOMAIN way |-> Base(way[i])]
NamesOf(f) == {NameOf(way) : way \in {w \in Followed : w[Len(w)] = f}}

\* After a zip() and an unZip() that both returned true, every file that zip() could
\* come to and that did not change meanwhile is back, under each of its names,
\* whatever else other threads wrote and removed, unless another file can have
\* the same name in the archive, or the file, or a directory on the way to it,
\* could not be read: neither call tells of that, nor of what is hidden.
ZipRoundTrip ==
    LET zip == unpacked.of
    IN  zip.success /\ unpacked.success =>
        \A way \in Followed :
            LET f == way[Len(way)]
            IN  /\ f \in Plain \cap (zip.present \ zip.changed)
                /\ \A i \in DOMAIN way : way[i] \notin zip.unread
                /\ \A g \in Plain \ {f} : NameOf(way) \notin NamesOf(g)
                => Packed(NameOf(way), FALSE, zip.content[f]) \in unpacked.entries
=============================================================================
