------------------------------ MODULE Uploader ------------------------------
(***************************************************************************)
(* Uploader (libqt/net/uploader.cpp): at most one HTTP upload at a time,    *)
(* all of it in one thread.  What makes it hard is re-entrancy: a signal    *)
(* runs the client's slots inside emit, abort() signals before it returns,  *)
(* and a slot may call upload() or cancel() again.                          *)
(*                                                                          *)
(* stack holds the emissions in progress, innermost last, with the point    *)
(* where the code goes on when the slots return (Return).  Call n of        *)
(* upload() names the QFile, QHttpMultiPart and QNetworkReply it creates n; *)
(* 0 is nullptr.  Objects given to deleteLater() count as gone.             *)
(***************************************************************************)
EXTENDS Naturals, Sequences

CONSTANT MaxUploads    \* bound: number of upload calls

\* An emission, named after where it happens: the refusal of line 36, the bad
\* path of 47-49 and 56-57, the file that does not open of 65-67, the network
\* error of 177, the end of the upload of 160 and 164.
Emissions == {"busy", "path_error", "path_finished", "open_error",
              "open_finished", "net_error", "finished"}

ASSUME UploaderCalls == MaxUploads \in Nat

Uploads == 1 .. MaxUploads

VARIABLES
    m_isUploading,
    m_reply, m_multiPart, m_file,   \* 0 or the call that created the object
    calls,       \* number of upload calls
    reply,       \* each QNetworkReply: "none", "working", "failed" (between
                 \* errorOccurred and finished), "finished"
    wired,       \* replies whose signals are connected to the Uploader
    file,        \* each QFile: "none", "orphan" (no parent), "open", "gone"
    stack,       \* emissions in progress: [at : where, id : reply or 0]
    dead,        \* the destructor is through
    reported,    \* history: signalUploadFinished emitted for each reply
    chained      \* history: uploads started below an emission in Releasing

uploadVars == <<m_isUploading, m_reply, m_multiPart, m_file, calls, reply, wired, file,
          stack, dead, reported, chained>>

\* What releases the current file or upload once the slots have returned: lines
\* 68, 167 and 23.
Releasing == {"open_error", "open_finished", "finished", "destructor"}

UploaderInit ==
    /\ m_isUploading = FALSE
    /\ m_reply = 0 /\ m_multiPart = 0 /\ m_file = 0
    /\ calls = 0
    /\ reply = [r \in Uploads |-> "none"]
    /\ wired = {}
    /\ file = [r \in Uploads |-> "none"]
    /\ stack = <<>>
    /\ dead = FALSE
    /\ reported = [r \in Uploads |-> 0]
    /\ chained = {}

-----------------------------------------------------------------------------
(* Helpers                                                                  *)

Frame(at, id) == [at |-> at, id |-> id]
Top           == stack[Len(stack)]
Below         == SubSeq(stack, 1, Len(stack) - 1)

\* What runs: the event loop, an emission or the destructor.
Where == IF stack = <<>> THEN "loop" ELSE Top.at

\* The client runs: from the event loop, or in one of its slots.
ClientRuns == ~ dead /\ Where \in Emissions \cup {"loop"}

\* Mutant of CleanupReply: the reply stays connected.
CleanupReplyConnected ==
    /\ m_reply' = 0
    /\ m_isUploading' = FALSE
    /\ UNCHANGED wired

\* cleanupReply(): disconnect, deleteLater, forget.
CleanupReply ==
    /\ wired' = wired \ {m_reply}
    /\ m_reply' = 0
    /\ m_isUploading' = FALSE

\* cleanupMultiPart(): m_multiPart is null when line 211 compares it with the
\* file's parent, so a file with a parent goes and one without stays behind.
FilesLeft == [f \in Uploads |->
    IF f = m_multiPart \/ (f = m_file /\ file[f] = "open") THEN "gone" ELSE file[f]]

CleanupMultiPart ==
    /\ file' = FilesLeft
    /\ m_multiPart' = 0
    /\ m_file' = 0

\* Reply r emits finished: onFinished, if connected, reports; s is the stack
\* under it.
EmitFinished(r, s) ==
    /\ reply' = [reply EXCEPT ![r] = "finished"]
    /\ IF r \in wired
       THEN /\ m_isUploading' = FALSE
            /\ stack' = Append(s, Frame("finished", r))
            /\ reported' = [reported EXCEPT ![m_reply] = @ + 1]
       ELSE /\ stack' = s
            /\ UNCHANGED <<m_isUploading, reported>>

\* Reply r emits errorOccurred; finished follows when the slots return.
EmitError(r, s) ==
    /\ reply' = [reply EXCEPT ![r] = "failed"]
    /\ stack' = Append(s, Frame("net_error", r))
    /\ UNCHANGED <<m_isUploading, reported>>

\* QNetworkReply::abort(): errorOccurred and finished at once; inside the slots
\* of errorOccurred only finished; nothing when it has finished.
Abort(r, s) ==
    CASE reply[r] = "working"  -> EmitError(r, s)
      [] reply[r] = "failed"   -> EmitFinished(r, s)
      [] reply[r] = "finished" -> stack' = s /\ UNCHANGED <<reply, m_isUploading, reported>>

-----------------------------------------------------------------------------
(* upload()                                                                 *)

CallUpload ==
    /\ ClientRuns
    /\ calls < MaxUploads
    /\ calls' = calls + 1

\* Mutant of UploadBusy: the clean-up of line 41 comes before the refusal.
UploadBusyCleans ==
    /\ CallUpload
    /\ m_isUploading
    /\ CleanupMultiPart
    /\ stack' = Append(stack, Frame("busy", 0))
    /\ UNCHANGED <<m_isUploading, m_reply, reply, wired, reported, chained, dead>>

\* Refused: one upload at a time.
UploadBusy ==
    /\ CallUpload
    /\ m_isUploading
    /\ stack' = Append(stack, Frame("busy", 0))
    /\ UNCHANGED <<m_isUploading, m_reply, m_multiPart, m_file, reply, wired, file,
                   reported, chained, dead>>

\* The path does not exist or is not a file.
UploadBadPath ==
    /\ CallUpload
    /\ ~ m_isUploading
    /\ CleanupReply /\ CleanupMultiPart
    /\ stack' = Append(stack, Frame("path_error", 0))
    /\ UNCHANGED <<reply, reported, chained, dead>>

\* The file cannot be opened: m_file keeps it during both emissions.
UploadOpenFails ==
    /\ CallUpload
    /\ ~ m_isUploading
    /\ CleanupReply
    /\ m_multiPart' = 0
    /\ m_file' = calls'
    /\ file' = [FilesLeft EXCEPT ![calls'] = "orphan"]
    /\ stack' = Append(stack, Frame("open_error", 0))
    /\ UNCHANGED <<reply, reported, chained, dead>>

\* The upload starts; the file becomes a child of the multipart.
UploadStarts ==
    /\ CallUpload
    /\ ~ m_isUploading
    /\ m_multiPart' = calls' /\ m_file' = calls' /\ m_reply' = calls'
    /\ file' = [FilesLeft EXCEPT ![calls'] = "open"]
    /\ reply' = [reply EXCEPT ![calls'] = "working"]
    /\ wired' = (wired \ {m_reply}) \cup {calls'}
    /\ m_isUploading' = TRUE
    /\ chained' = IF \E i \in DOMAIN stack : stack[i].at \in Releasing
                  THEN chained \cup {calls'} ELSE chained
    /\ UNCHANGED <<stack, reported, dead>>

-----------------------------------------------------------------------------
(* cancel(), the destructor, the network                                    *)

\* Mutant of Cancel: the reply is disconnected before it is aborted.
CancelSilently ==
    /\ ClientRuns
    /\ CleanupReply /\ CleanupMultiPart
    /\ UNCHANGED <<reply, stack, reported, calls, chained, dead>>

Cancel ==
    /\ ClientRuns
    /\ IF m_reply # 0
       THEN /\ Abort(m_reply, stack)
            /\ UNCHANGED <<m_reply, m_multiPart, m_file, wired, file>>
       ELSE /\ CleanupReply /\ CleanupMultiPart
            /\ UNCHANGED <<reply, stack, reported>>
    /\ UNCHANGED <<calls, chained, dead>>

\* ~Uploader(), from the event loop: abort() runs slots, then the clean-up.
Destroy ==
    /\ ~ dead /\ stack = <<>>
    /\ IF m_reply # 0 THEN Abort(m_reply, <<Frame("destructor", 0)>>)
       ELSE stack' = <<Frame("destructor", 0)>> /\ UNCHANGED <<reply, m_isUploading, reported>>
    /\ UNCHANGED <<m_reply, m_multiPart, m_file, calls, wired, file, chained, dead>>

\* The transfer ends, well or badly.  A reply that has been given to
\* deleteLater() is destroyed instead.
NetDone(r) ==
    /\ stack = <<>> /\ reply[r] = "working" /\ r \in wired
    /\ EmitFinished(r, <<>>)
    /\ UNCHANGED <<m_reply, m_multiPart, m_file, calls, wired, file, chained, dead>>

NetFails(r) ==
    /\ stack = <<>> /\ reply[r] = "working" /\ r \in wired
    /\ EmitError(r, <<>>)
    /\ UNCHANGED <<m_reply, m_multiPart, m_file, calls, wired, file, chained, dead>>

-----------------------------------------------------------------------------
(* The slots of the innermost emission return                               *)

\* The next emission of the same call, or its plain return.
GoesOn == [busy |-> <<>>, path_error |-> <<"path_finished">>, path_finished |-> <<>>,
           open_error |-> <<"open_finished">>]

ReturnPlain ==
    /\ Where \in DOMAIN GoesOn
    /\ stack' = Below \o [i \in DOMAIN GoesOn[Top.at] |-> Frame(GoesOn[Top.at][i], 0)]
    /\ UNCHANGED <<m_isUploading, m_reply, m_multiPart, m_file, calls, reply, wired,
                   file, reported, chained, dead>>

\* delete m_file: whatever m_file points to by now.
ReturnOpen ==
    /\ Where = "open_finished"
    /\ file' = [f \in Uploads |-> IF f = m_file THEN "gone" ELSE file[f]]
    /\ m_file' = 0
    /\ stack' = Below
    /\ UNCHANGED <<m_isUploading, m_reply, m_multiPart, calls, reply, wired, reported, chained, dead>>

\* After errorOccurred the reply emits finished, unless a nested abort() did.
ReturnNetError ==
    /\ Where = "net_error"
    /\ IF reply[Top.id] = "failed" THEN EmitFinished(Top.id, Below)
       ELSE stack' = Below /\ UNCHANGED <<reply, m_isUploading, reported>>
    /\ UNCHANGED <<m_reply, m_multiPart, m_file, calls, wired, file, chained, dead>>

\* Mutant of ReturnCleanup: both clean-ups are missing.
ReturnKeepsAll ==
    /\ Where \in {"finished", "destructor"}
    /\ stack' = Below
    /\ dead' = (Where = "destructor")
    /\ UNCHANGED <<m_isUploading, m_reply, m_multiPart, m_file, wired, file, calls,
                   reply, reported, chained>>

\* onFinished ends with both clean-ups, of whatever is current by now; so does
\* the destructor.
ReturnCleanup ==
    /\ Where \in {"finished", "destructor"}
    /\ CleanupReply /\ CleanupMultiPart
    /\ stack' = Below
    /\ dead' = (Where = "destructor")
    /\ UNCHANGED <<calls, reply, reported, chained>>

Return == ReturnPlain \/ ReturnOpen \/ ReturnNetError \/ ReturnCleanup

UploaderNext ==
    \/ UploadBusy \/ UploadBadPath \/ UploadOpenFails \/ UploadStarts
    \/ Cancel \/ Destroy
    \/ \E r \in Uploads : NetDone(r) \/ NetFails(r)
    \/ Return

-----------------------------------------------------------------------------
(* Properties                                                               *)

\* A reply that is still sending has its body: the file behind the multipart
\* outlives the transfer on every path that releases files, unless a slot
\* started the upload while line 68 was waiting to delete m_file.
SendingHasFile ==
    \A r \in Uploads :
        reply[r] = "working" /\ r \in wired /\ r \notin chained => file[r] = "open"

\* Signals reach the Uploader only from the reply it works on: a reply that was
\* replaced, cancelled or cleaned up cannot end its successor (onFinished does
\* not look at its sender), and after the destructor none does.  isUploading()
\* is true exactly while that reply has not finished, also inside slots, so
\* upload() refuses when it must and never for ever.
BusyWithCurrentReply ==
    /\ wired = IF m_reply = 0 THEN {} ELSE {m_reply}
    /\ m_isUploading <=> m_reply # 0 /\ reply[m_reply] \in {"working", "failed"}

\* An upload is reported at most once, and one that is over has been reported,
\* unless a slot started it below an emission whose clean-up takes it for its
\* own: signalUploadFinished, where a client would start the next upload, is
\* one.
EachReportedOnce ==
    \A r \in Uploads :
        /\ reported[r] =< 1
        /\ reply[r] # "none" /\ r # m_reply /\ r \notin chained => reported[r] = 1

\* An upload that failed or was cancelled is reported and everything it held
\* is released, however slots nest cancel() and upload().
FailureIsCleanedUp ==
    \A r \in Uploads :
        (reply[r] = "failed") ~> (reported[r] = 1 /\ r # m_reply /\ file[r] = "gone")
=============================================================================
