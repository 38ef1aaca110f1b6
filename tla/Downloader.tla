----------------------------- MODULE Downloader -----------------------------
(***************************************************************************)
(* Downloader (libqt/net/downloader.cpp): writes an HTTP reply to a file,   *)
(* in one thread.  Download() does not look whether another download is in  *)
(* progress: _file and _reply are overwritten while the older reply stays   *)
(* connected, and the slots use _file and _reply whoever the sender is.     *)
(*                                                                          *)
(* Call n names its QFile and QNetworkReply n; 0 is nullptr.  Every emit is *)
(* the last thing its slot does, so a Download() from a client's slot is a  *)
(* Download() right after it.                                               *)
(***************************************************************************)
EXTENDS Naturals

CONSTANTS
    MaxDownloads,  \* bound: number of Download calls
    Total          \* size of every reply, in chunks

ASSUME DownloaderCalls == MaxDownloads \in Nat
ASSUME DownloaderTotal == Total \in Nat

Downloads == 1 .. MaxDownloads

VARIABLES
    _file, _reply,  \* 0 or the call that created the object
    downloads,   \* number of Download calls
    dfile,       \* each QFile: "none", "open", "unopened", "closed"
    content,     \* chunks of each reply in each file
    dreply,      \* each QNetworkReply: "none", "working", "ended" (all of it has
                 \* arrived), "broken" (with an error), "gone"
    unread,      \* chunks buffered in each reply
    arrived,     \* chunks each reply has received
    dwired,      \* replies whose signals are connected to the slots
    short,       \* history: files that a write or a flush left without some bytes
    verdict,     \* history: what SignalDownloadFinished said of each file
    overlapped,  \* history: Download was called with a download in progress
    fault        \* a slot used a null _file or a deleted _reply

downloadVars == <<_file, _reply, downloads, dfile, content, dreply, unread, arrived, dwired,
                  short, verdict, overlapped, fault>>

DownloaderInit ==
    /\ _file = 0 /\ _reply = 0
    /\ downloads = 0
    /\ dfile = [f \in Downloads |-> "none"]
    /\ content = [f \in Downloads |-> [r \in Downloads |-> 0]]
    /\ dreply = [r \in Downloads |-> "none"]
    /\ unread = [r \in Downloads |-> 0]
    /\ arrived = [r \in Downloads |-> 0]
    /\ dwired = {}
    /\ short = {}
    /\ verdict = [f \in Downloads |-> "none"]
    /\ overlapped = FALSE
    /\ fault = "none"

-----------------------------------------------------------------------------
(* Download()                                                               *)

CallDownload ==
    /\ fault = "none"
    /\ downloads < MaxDownloads
    /\ downloads' = downloads + 1

\* The directory cannot be made: nothing happens, and nothing is signalled.
DownloadNoDir ==
    /\ CallDownload
    /\ UNCHANGED <<_file, _reply, dfile, content, dreply, unread, arrived, dwired,
                   short, verdict, overlapped, fault>>

\* The file cannot be opened: it stays in _file, and nothing is signalled.
DownloadNoFile ==
    /\ CallDownload
    /\ _file' = downloads'
    /\ dfile' = [dfile EXCEPT ![downloads'] = "unopened"]
    /\ overlapped' = (overlapped \/ dwired # {})
    /\ UNCHANGED <<_reply, content, dreply, unread, arrived, dwired, short, verdict, fault>>

\* Mutant of DownloadStarts: an older reply is not replaced.
DownloadKeepsReply ==
    /\ CallDownload
    /\ _file' = downloads' /\ _reply' = IF _reply = 0 THEN downloads' ELSE _reply
    /\ dfile' = [dfile EXCEPT ![downloads'] = "open"]
    /\ dreply' = [dreply EXCEPT ![downloads'] = "working"]
    /\ dwired' = dwired \cup {downloads'}
    /\ overlapped' = (overlapped \/ dwired # {})
    /\ UNCHANGED <<content, unread, arrived, short, verdict, fault>>

\* The file is open and the request is sent; the slots are connected to the new
\* reply, and an older one stays connected.
DownloadStarts ==
    /\ CallDownload
    /\ _file' = downloads' /\ _reply' = downloads'
    /\ dfile' = [dfile EXCEPT ![downloads'] = "open"]
    /\ dreply' = [dreply EXCEPT ![downloads'] = "working"]
    /\ dwired' = dwired \cup {downloads'}
    /\ overlapped' = (overlapped \/ dwired # {})
    /\ UNCHANGED <<content, unread, arrived, short, verdict, fault>>

-----------------------------------------------------------------------------
(* The slots                                                                *)

\* File f keeps n chunks of reply r, of the m it was given: write() and flush()
\* may fail, on a full disk for example, and their results are not looked at.
Keep(f, r, n, m) ==
    /\ content' = [content EXCEPT ![f][r] = n]
    /\ short' = IF n < m THEN short \cup {f} ELSE short

\* A chunk arrives for reply r, which emits readyRead.  _slotReadyRead moves
\* what _reply has buffered to _file; a file that is not open takes nothing.
ReadyRead(r) ==
    /\ fault = "none"
    /\ dreply[r] = "working" /\ arrived[r] < Total
    /\ arrived' = [arrived EXCEPT ![r] = @ + 1]
    /\ LET buffered == [unread EXCEPT ![r] = @ + 1]
       IN  IF r \in dwired /\ _file # 0
           THEN IF dreply[_reply] = "gone"
                THEN fault' = "dangling" /\ unread' = buffered /\ UNCHANGED <<content, short>>
                ELSE /\ unread' = [buffered EXCEPT ![_reply] = 0]
                     /\ IF dfile[_file] = "open"
                        THEN LET had == content[_file][_reply] IN
                             \E n \in 0 .. buffered[_reply] :
                                Keep(_file, _reply, had + n, had + buffered[_reply])
                        ELSE UNCHANGED <<content, short>>
                     /\ UNCHANGED fault
           ELSE unread' = buffered /\ UNCHANGED <<content, short, fault>>
    /\ UNCHANGED <<_file, _reply, downloads, dfile, dreply, dwired, verdict, overlapped>>

\* Mutants of SlotFinished: the error is not looked at, nothing is released.
SlotFinishedOptimist(ended) ==
    /\ _file # 0 /\ ended[_reply] # "gone"
    /\ dfile' = [dfile EXCEPT ![_file] = "closed"]
    /\ _file' = 0
    /\ dwired' = dwired \ {_reply}
    /\ dreply' = [ended EXCEPT ![_reply] = "gone"]
    /\ verdict' = [verdict EXCEPT ![_file] = "success"]
    /\ UNCHANGED <<content, short, fault>>

SlotFinishedKeeps(ended) ==
    /\ _file # 0 /\ ended[_reply] # "gone"
    /\ dfile' = [dfile EXCEPT ![_file] = "closed"]
    /\ dreply' = ended
    /\ verdict' = [verdict EXCEPT ![_file] =
                     IF ended[_reply] = "broken" THEN "failure" ELSE "success"]
    /\ UNCHANGED <<_file, dwired, content, short, fault>>

\* _slotFinished: flush and close the file, disconnect and delete the reply,
\* report.  A flush that fails loses what the file still buffered.
\* A reply that has not ended has no error either.
SlotFinished(ended) ==
    \/ /\ _file = 0
       /\ fault' = "null"
       /\ dreply' = ended
       /\ UNCHANGED <<_file, dfile, content, short, dwired, verdict>>
    \/ /\ _file # 0
       /\ ended[_reply] = "gone"
       /\ fault' = "dangling"
       /\ dreply' = ended
       /\ UNCHANGED <<_file, dfile, content, short, dwired, verdict>>
    \/ /\ _file # 0
       /\ ended[_reply] # "gone"
       /\ LET had == content[_file][_reply] IN
          \E n \in 0 .. had : Keep(_file, _reply, n, had)
       /\ dfile' = [dfile EXCEPT ![_file] = "closed"]
       /\ _file' = 0
       /\ dwired' = dwired \ {_reply}
       /\ dreply' = [ended EXCEPT ![_reply] = "gone"]
       /\ verdict' = [verdict EXCEPT ![_file] =
                        IF ended[_reply] = "broken" THEN "failure" ELSE "success"]
       /\ UNCHANGED fault

\* Reply r ends, well (all of it has arrived) or with an error, and emits
\* finished.
Finished(r, how) ==
    /\ fault = "none"
    /\ dreply[r] = "working" /\ r \in dwired
    /\ how = "ended" => arrived[r] = Total
    /\ SlotFinished([dreply EXCEPT ![r] = how])
    /\ UNCHANGED <<_reply, downloads, unread, arrived, overlapped>>

DownloaderNext ==
    \/ DownloadNoDir \/ DownloadNoFile \/ DownloadStarts
    \/ \E r \in Downloads : ReadyRead(r) \/ \E how \in {"ended", "broken"} : Finished(r, how)


-----------------------------------------------------------------------------
(* Properties                                                               *)

\* No file receives bytes of another download, even when downloads overlap and
\* the slots run for the wrong sender.
NoForeignBytes == \A f, r \in Downloads : f # r => content[f][r] = 0

\* While downloads do not overlap, a file that is reported as a success is closed
\* and holds the whole reply unless a write or a flush to it fell short, although
\* _slotFinished does not read what may be left in the reply; a reply that is
\* over has been reported; and the slots meet no null file and no deleted reply:
\* a call that fails early leaves nothing behind that a later slot would use.
SuccessIsComplete ==
    ~ overlapped =>
        /\ fault = "none"
        /\ \A f \in Downloads :
            /\ verdict[f] = "success" => dfile[f] = "closed"
                                        /\ (f \in short \/ content[f][f] = Total)
            /\ dreply[f] = "gone" => verdict[f] # "none"

\* A file that was reported is not written again and not reported again, even
\* when downloads overlap.
ReportIsFinal ==
    [][\A f \in Downloads : verdict[f] # "none" =>
          content'[f] = content[f] /\ verdict'[f] = verdict[f]]_downloadVars
=============================================================================
