----------------------------- MODULE HttpProofs -----------------------------
(***************************************************************************)
(* Safety of the two HTTP clients, for any number of calls and any size of  *)
(* the replies.                                                             *)
(***************************************************************************)
EXTENDS MCHttp, SequenceTheorems, TLAPS

-----------------------------------------------------------------------------
(* Uploader                                                                 *)

Frames == [at : Emissions \cup {"destructor"}, id : 0 .. MaxUploads]

UploaderType ==
    /\ m_isUploading \in BOOLEAN
    /\ m_reply \in 0 .. MaxUploads
    /\ calls \in 0 .. MaxUploads
    /\ reply \in [Uploads -> {"none", "working", "failed", "finished"}]
    /\ wired \in SUBSET Uploads
    /\ file \in [Uploads -> {"none", "orphan", "open", "gone"}]
    /\ stack \in Seq(Frames)
    /\ reported \in [Uploads -> Nat]
    /\ chained \in SUBSET Uploads
    /\ m_reply # 0 => reply[m_reply] # "none"
    /\ \A r \in Uploads : r > calls => reply[r] = "none"
    /\ \A i \in DOMAIN stack : stack[i].at = "net_error" => stack[i].id \in Uploads

\* A reply that has not finished has not been reported; the current one has as
\* soon as it has finished.
ReportedWhenFinished ==
    \A r \in Uploads :
        /\ reported[r] =< 1
        /\ reply[r] # "finished" => reported[r] = 0
        /\ r = m_reply /\ reply[r] = "finished" => reported[r] = 1

\* The current reply is none that a clean-up waiting in the stack would cut short,
\* except one that was chained.
Spent == m_reply = 0 \/ m_reply \in chained \/ reply[m_reply] = "finished"

ReleasingIsDue ==
    \A i \in DOMAIN stack :
        /\ stack[i].at \in Releasing \ {"destructor"} => Spent
        /\ stack[i].at = "destructor" =>
              /\ i = 1
              /\ Spent \/ (Len(stack) >= 2 /\ stack[2] = Frame("net_error", m_reply)
                           /\ reply[m_reply] = "failed")

UploaderRest ==
    UploaderType /\ BusyWithCurrentReply /\ SendingHasFile /\ EachReportedOnce
        /\ ReportedWhenFinished

UploaderInv == UploaderRest /\ ReleasingIsDue

LEMMA UploaderStarts == UploaderInit => UploaderInv
<1> SUFFICES ASSUME UploaderInit PROVE UploaderInv
  OBVIOUS
<1> USE UploaderCalls DEF Uploads
<1>1. /\ reply \in [Uploads -> {"none", "working", "failed", "finished"}]
      /\ file \in [Uploads -> {"none", "orphan", "open", "gone"}]
      /\ reported \in [Uploads -> Nat]
      /\ \A r \in Uploads : reply[r] = "none" /\ reported[r] = 0
  BY DEF UploaderInit
<1>2. stack \in Seq(Frames) /\ DOMAIN stack = {} BY DEF UploaderInit
<1>3. UploaderType
  <2>1. m_reply \in 0 .. MaxUploads /\ calls \in 0 .. MaxUploads /\ m_reply = 0
    BY DEF UploaderInit
  <2>2. wired \in SUBSET Uploads /\ chained \in SUBSET Uploads BY DEF UploaderInit
  <2>3. m_isUploading \in BOOLEAN BY DEF UploaderInit
  <2>4. QED BY <1>1, <1>2, <2>1, <2>2, <2>3 DEF UploaderType
<1>4. QED
  BY <1>1, <1>2, <1>3 DEF UploaderInit, UploaderInv, UploaderRest, BusyWithCurrentReply, SendingHasFile,
                          EachReportedOnce, ReportedWhenFinished, ReleasingIsDue

\* An emission begins.
LEMMA Push ==
    ASSUME NEW s \in Seq(Frames), NEW f \in Frames
    PROVE  /\ Append(s, f) \in Seq(Frames)
           /\ Len(Append(s, f)) = Len(s) + 1 /\ Len(s) \in Nat
           /\ DOMAIN s = 1 .. Len(s) /\ DOMAIN Append(s, f) = 1 .. Len(s) + 1
           /\ \A i \in 1 .. Len(s) : Append(s, f)[i] = s[i]
           /\ Append(s, f)[Len(s) + 1] = f
  OBVIOUS

\* The innermost emission is over.
LEMMA Pop ==
    ASSUME stack \in Seq(Frames), stack # <<>>
    PROVE  /\ Below \in Seq(Frames)
           /\ Len(stack) \in Nat /\ Len(stack) > 0 /\ Len(Below) = Len(stack) - 1
           /\ DOMAIN stack = 1 .. Len(stack) /\ DOMAIN Below = 1 .. Len(stack) - 1
           /\ \A i \in 1 .. Len(stack) - 1 : Below[i] = stack[i]
           /\ Top = stack[Len(stack)] /\ Top \in Frames
<1>1. Len(stack) \in Nat /\ Len(stack) > 0 /\ DOMAIN stack = 1 .. Len(stack) OBVIOUS
<1>2. 1 \in 1 .. Len(stack) + 1 /\ Len(stack) - 1 \in 1 - 1 .. Len(stack) BY <1>1
<1>3. /\ Below \in Seq(Frames) /\ Len(Below) = Len(stack) - 1
      /\ \A i \in 1 .. Len(stack) - 1 : Below[i] = stack[i]
  BY <1>1, <1>2, SubSeqProperties DEF Below
<1>4. QED BY <1>1, <1>3 DEF Top

LEMMA PlainReturns ==
    ASSUME stack \in Seq(Frames), ReturnPlain
    PROVE  /\ stack # <<>> /\ Top.at \in {"busy", "path_error", "path_finished", "open_error"}
           /\ \/ stack' = Below
              \/ Top.at = "path_error" /\ stack' = Append(Below, Frame("path_finished", 0))
              \/ Top.at = "open_error" /\ stack' = Append(Below, Frame("open_finished", 0))
<1>1. stack # <<>> /\ Top.at \in {"busy", "path_error", "path_finished", "open_error"}
  BY DEF ReturnPlain, Where, GoesOn
<1>2. Below \in Seq(Frames) BY <1>1, Pop
<1>3. CASE Top.at \in {"busy", "path_finished"}
  <2>1. GoesOn[Top.at] = <<>> BY <1>3 DEF GoesOn
  <2>2. stack' = Below \o <<>> BY <2>1 DEF ReturnPlain
  <2>3. QED BY <1>1, <1>2, <2>2
<1>4. CASE Top.at = "path_error"
  <2>1. GoesOn[Top.at] = <<"path_finished">> BY <1>4 DEF GoesOn
  <2>2. stack' = Below \o <<Frame("path_finished", 0)>> BY <2>1 DEF ReturnPlain
  <2>3. QED BY <1>1, <1>2, <1>4, <2>2
<1>5. CASE Top.at = "open_error"
  <2>1. GoesOn[Top.at] = <<"open_finished">> BY <1>5 DEF GoesOn
  <2>2. stack' = Below \o <<Frame("open_finished", 0)>> BY <2>1 DEF ReturnPlain
  <2>3. QED BY <1>1, <1>2, <1>5, <2>2
<1>6. QED BY <1>1, <1>3, <1>4, <1>5

\* What keeps ReleasingIsDue: no clean-up is added to the stack while the current
\* reply still needs it, and a destructor keeps the reply it is aborting.
LEMMA StackPart ==
    ASSUME UploaderInv, stack' \in Seq(Frames),
           \A i \in DOMAIN stack' : \/ i \in DOMAIN stack /\ stack'[i] = stack[i]
                                    \/ stack'[i].at \notin Releasing
                                    \/ stack'[i].at # "destructor" /\ Spent',
           Spent => Spent',
           1 \in DOMAIN stack /\ stack[1].at = "destructor" /\ ~ Spent' =>
              Len(stack') >= 2 /\ stack'[2] = stack[2] /\ m_reply' = m_reply
                /\ reply'[m_reply] = reply[m_reply]
    PROVE  ReleasingIsDue'
<1> USE DEF Frame
<1> SUFFICES ASSUME NEW i \in DOMAIN stack'
             PROVE  /\ stack'[i].at \in Releasing \ {"destructor"} => Spent'
                    /\ stack'[i].at = "destructor" =>
                          /\ i = 1
                          /\ Spent' \/ (Len(stack') >= 2 /\ stack'[2] = Frame("net_error", m_reply')
                                       /\ reply'[m_reply'] = "failed")
  BY DEF ReleasingIsDue
<1>1. CASE i \in DOMAIN stack /\ stack'[i] = stack[i]
  <2>1. stack[i].at \in Releasing \ {"destructor"} => Spent
    BY <1>1 DEF UploaderInv, ReleasingIsDue
  <2>2. stack[i].at = "destructor" =>
           i = 1 /\ (Spent \/ (stack[2] = Frame("net_error", m_reply) /\ reply[m_reply] = "failed"))
    BY <1>1 DEF UploaderInv, ReleasingIsDue
  <2> HIDE DEF Frame
  <2>3. QED BY <1>1, <2>1, <2>2
<1>2. CASE stack'[i].at \notin Releasing BY <1>2 DEF Releasing
<1>3. CASE stack'[i].at # "destructor" /\ Spent' BY <1>3
<1>4. QED BY <1>1, <1>2, <1>3

\* The stack part of UploaderType.
ErrorsTyped(s) ==
    /\ s \in Seq(Frames)
    /\ \A i \in DOMAIN s : s[i].at = "net_error" => s[i].id \in Uploads

LEMMA PushTyped ==
    ASSUME NEW s, ErrorsTyped(s), NEW f \in Frames, f.at = "net_error" => f.id \in Uploads
    PROVE  ErrorsTyped(Append(s, f))
  BY Push DEF ErrorsTyped

LEMMA PopTyped ==
    ASSUME ErrorsTyped(stack), stack # <<>>
    PROVE  ErrorsTyped(Below)
  BY Pop DEF ErrorsTyped

LEMMA StackTyped == UploaderInv => ErrorsTyped(stack)
  BY DEF UploaderInv, UploaderRest, UploaderType, ErrorsTyped

LEMMA FramesTyped ==
    /\ \A at \in Emissions \cup {"destructor"} : Frame(at, 0) \in Frames /\ Frame(at, 0).at = at
    /\ \A at \in Emissions, r \in Uploads :
          Frame(at, r) \in Frames /\ Frame(at, r).at = at /\ Frame(at, r).id = r
  BY UploaderCalls DEF Frame, Frames, Emissions, Uploads

\* Reply r finishes; s is the stack under the emission.
LEMMA FinishRest ==
    ASSUME UploaderInv, NEW r \in Uploads, NEW s, ErrorsTyped(s), EmitFinished(r, s),
           reply[r] \in {"working", "failed"},
           UNCHANGED <<m_reply, calls, wired, file, chained>>
    PROVE  UploaderRest'
<1> USE UploaderCalls DEF Uploads
<1>t. UploaderType BY DEF UploaderInv, UploaderRest
<1>1. /\ reply' = [reply EXCEPT ![r] = "finished"]
      /\ reply' \in [Uploads -> {"none", "working", "failed", "finished"}]
      /\ \A q \in Uploads : reply'[q] = IF q = r THEN "finished" ELSE reply[q]
  BY <1>t DEF EmitFinished, UploaderType
<1>2. r \in wired <=> r = m_reply BY <1>t DEF UploaderInv, UploaderRest, BusyWithCurrentReply
<1>3. CASE r \in wired
  <2>1. /\ m_isUploading' = FALSE /\ stack' = Append(s, Frame("finished", r))
        /\ reported' = [reported EXCEPT ![r] = reported[r] + 1]
        /\ r = m_reply
    BY <1>2, <1>3 DEF EmitFinished
  <2>2. reported[r] = 0 BY DEF UploaderInv, UploaderRest, ReportedWhenFinished
  <2>3. reported' \in [Uploads -> Nat]
        /\ \A q \in Uploads : reported'[q] = IF q = r THEN 1 ELSE reported[q]
    BY <1>t, <2>1, <2>2 DEF UploaderType
  <2>4. "finished" \in Emissions BY DEF Emissions
  <2>5. Frame("finished", r) \in Frames /\ Frame("finished", r).at = "finished"
    BY <2>4, FramesTyped
  <2>6. ErrorsTyped(stack') BY <2>1, <2>5, PushTyped
  <2>7. UploaderType'
    <3>2. m_isUploading' \in BOOLEAN BY <2>1
    <3>3. QED BY <1>t, <1>1, <2>1, <2>3, <2>6, <3>2 DEF UploaderType, ErrorsTyped
  <2>8. BusyWithCurrentReply' /\ SendingHasFile'
    BY <1>t, <1>1, <2>1
    DEF UploaderInv, UploaderRest, BusyWithCurrentReply, SendingHasFile, UploaderType
  <2>9. EachReportedOnce' /\ ReportedWhenFinished'
    BY <1>1, <2>1, <2>3 DEF UploaderInv, UploaderRest, EachReportedOnce, ReportedWhenFinished
  <2>10. QED BY <2>7, <2>8, <2>9 DEF UploaderRest
<1>4. CASE r \notin wired
  <2>1. r # m_reply /\ stack' = s /\ UNCHANGED <<m_isUploading, reported>>
    BY <1>2, <1>4 DEF EmitFinished
  <2>3. UploaderType'
    <3>1. m_isUploading' \in BOOLEAN BY <1>t, <2>1 DEF UploaderType
    <3>2. \A q \in Uploads : q > calls => reply'[q] = "none"
      BY <1>t, <1>1 DEF UploaderType
    <3>3. m_reply # 0 => reply'[m_reply] # "none" BY <1>t, <1>1 DEF UploaderType
    <3>4. ErrorsTyped(stack') BY <2>1
    <3>5. QED BY <1>t, <1>1, <2>1, <3>1, <3>2, <3>3, <3>4 DEF UploaderType, ErrorsTyped
  <2>4. BusyWithCurrentReply' /\ SendingHasFile'
    BY <1>t, <1>1, <1>4, <2>1
    DEF UploaderInv, UploaderRest, BusyWithCurrentReply, SendingHasFile, UploaderType
  <2>5. EachReportedOnce' /\ ReportedWhenFinished'
    BY <1>1, <2>1 DEF UploaderInv, UploaderRest, EachReportedOnce, ReportedWhenFinished
  <2>9. QED BY <2>3, <2>4, <2>5 DEF UploaderRest
<1>5. QED BY <1>3, <1>4

\* The same with an emission that begins or ends: s is the stack or a prefix of it.
LEMMA FinishStep ==
    ASSUME UploaderInv, NEW r \in Uploads, NEW s, ErrorsTyped(s), EmitFinished(r, s),
           reply[r] \in {"working", "failed"},
           Len(s) \in 0 .. Len(stack), \A i \in 1 .. Len(s) : s[i] = stack[i],
           1 \in DOMAIN stack /\ stack[1].at = "destructor" /\ Len(s) < 2 /\ ~ Spent => r = m_reply,
           UNCHANGED <<m_reply, calls, wired, file, chained>>
    PROVE  UploaderInv'
<1> USE UploaderCalls DEF Uploads
<1>t. UploaderType BY DEF UploaderInv, UploaderRest
<1>1. \A q \in Uploads : reply'[q] = IF q = r THEN "finished" ELSE reply[q]
  BY <1>t DEF EmitFinished, UploaderType
<1>2. r \in wired <=> r = m_reply BY <1>t DEF UploaderInv, UploaderRest, BusyWithCurrentReply
<1>r. UploaderRest' BY FinishRest
<1>s. /\ Len(stack) \in Nat /\ DOMAIN stack = 1 .. Len(stack)
      /\ Len(s) \in Nat /\ DOMAIN s = 1 .. Len(s) /\ s \in Seq(Frames)
  BY <1>t DEF UploaderType, ErrorsTyped
<1>3. CASE r \in wired
  <2>1. stack' = Append(s, Frame("finished", r)) /\ r = m_reply
    BY <1>2, <1>3 DEF EmitFinished
  <2>4. "finished" \in Emissions BY DEF Emissions
  <2>6. Frame("finished", r) \in Frames /\ Frame("finished", r).at = "finished"
    BY <2>4, FramesTyped
  <2>5. /\ stack' \in Seq(Frames) /\ DOMAIN stack' = 1 .. Len(s) + 1
        /\ \A i \in 1 .. Len(s) : i \in DOMAIN stack /\ stack'[i] = stack[i]
        /\ stack'[Len(s) + 1] = Frame("finished", r)
    BY <1>s, <2>1, <2>6, Push
  <2>10. Spent' BY <1>1, <2>1 DEF Spent
  <2>11. ReleasingIsDue' BY <1>s, <2>5, <2>6, <2>10, StackPart DEF Releasing
  <2>12. QED BY <1>r, <2>11 DEF UploaderInv
<1>4. CASE r \notin wired
  <2>1. r # m_reply /\ stack' = s BY <1>2, <1>4 DEF EmitFinished
  <2>2. \A i \in DOMAIN stack' : i \in DOMAIN stack /\ stack'[i] = stack[i] BY <1>s, <2>1
  <2>6. m_reply # 0 => reply'[m_reply] = reply[m_reply] BY <1>t, <1>1, <2>1 DEF UploaderType
  <2>7. Spent' <=> Spent BY <2>6 DEF Spent
  <2>8. ReleasingIsDue'
    <3>1. ASSUME 1 \in DOMAIN stack, stack[1].at = "destructor", ~ Spent'
          PROVE  /\ Len(stack') >= 2 /\ stack'[2] = stack[2] /\ m_reply' = m_reply
                 /\ reply'[m_reply] = reply[m_reply]
      <4>1. Len(s) >= 2 BY <1>s, <2>1, <2>7, <3>1
      <4>2. m_reply # 0 BY <2>7, <3>1 DEF Spent
      <4>3. QED BY <1>s, <2>1, <2>2, <2>6, <4>1, <4>2
    <3>2. QED BY <1>s, <2>1, <2>2, <2>7, <3>1, StackPart
  <2>9. QED BY <1>r, <2>8 DEF UploaderInv
<1>5. QED BY <1>3, <1>4

\* The current reply fails: by itself or by abort().
LEMMA ErrorRest ==
    ASSUME UploaderInv, m_reply # 0, NEW s, ErrorsTyped(s), EmitError(m_reply, s),
           reply[m_reply] = "working",
           UNCHANGED <<m_reply, calls, wired, file, chained>>
    PROVE  /\ UploaderRest'
           /\ m_reply \in Uploads
           /\ stack' = Append(s, Frame("net_error", m_reply))
           /\ Frame("net_error", m_reply) \in Frames
           /\ Frame("net_error", m_reply).at = "net_error"
           /\ reply'[m_reply] = "failed"
           /\ Spent => Spent'
<1> USE UploaderCalls DEF Uploads
<1>t. UploaderType BY DEF UploaderInv, UploaderRest
<1>m. m_reply \in Uploads BY <1>t DEF UploaderType
<1>1. /\ reply' \in [Uploads -> {"none", "working", "failed", "finished"}]
      /\ \A q \in Uploads : reply'[q] = IF q = m_reply THEN "failed" ELSE reply[q]
  BY <1>t, <1>m DEF EmitError, UploaderType
<1>2. stack' = Append(s, Frame("net_error", m_reply)) /\ UNCHANGED <<m_isUploading, reported>>
  BY DEF EmitError
<1>3. "net_error" \in Emissions BY DEF Emissions
<1>4. /\ Frame("net_error", m_reply) \in Frames /\ Frame("net_error", m_reply).at = "net_error"
      /\ Frame("net_error", m_reply).id = m_reply
  BY <1>m, <1>3, FramesTyped
<1>5. ErrorsTyped(stack') BY <1>2, <1>4, <1>m, PushTyped
<1>6. UploaderType'
  <2>1. m_isUploading' \in BOOLEAN BY <1>t, <1>2 DEF UploaderType
  <2>2. \A q \in Uploads : q > calls => reply'[q] = "none" BY <1>t, <1>1 DEF UploaderType
  <2>3. reply'[m_reply] # "none" BY <1>m, <1>1
  <2>4. QED BY <1>t, <1>1, <1>2, <1>5, <2>1, <2>2, <2>3 DEF UploaderType, ErrorsTyped
<1>7. BusyWithCurrentReply' /\ SendingHasFile'
  <2>1. m_isUploading BY <1>m DEF UploaderInv, UploaderRest, BusyWithCurrentReply
  <2>2. QED
    BY <1>m, <1>1, <1>2, <2>1 DEF UploaderInv, UploaderRest, BusyWithCurrentReply, SendingHasFile
<1>8. EachReportedOnce' /\ ReportedWhenFinished'
  BY <1>m, <1>1, <1>2 DEF UploaderInv, UploaderRest, EachReportedOnce, ReportedWhenFinished
<1>9. Spent => Spent' BY <1>m, <1>1 DEF Spent
<1>10. QED BY <1>m, <1>1, <1>2, <1>4, <1>6, <1>7, <1>8, <1>9 DEF UploaderRest

LEMMA ErrorStep ==
    ASSUME UploaderInv, m_reply # 0, EmitError(m_reply, stack), reply[m_reply] = "working",
           UNCHANGED <<m_reply, calls, wired, file, chained>>
    PROVE  UploaderInv'
<1>0. ErrorsTyped(stack) BY StackTyped
<1>1. /\ UploaderRest' /\ stack' = Append(stack, Frame("net_error", m_reply))
      /\ Frame("net_error", m_reply) \in Frames
      /\ Frame("net_error", m_reply).at = "net_error"
      /\ Spent => Spent'
  BY <1>0, ErrorRest
<1>2. 1 \in DOMAIN stack /\ stack[1].at = "destructor" => Spent
  BY DEF UploaderInv, ReleasingIsDue
<1>3. /\ stack' \in Seq(Frames) /\ DOMAIN stack' = 1 .. Len(stack) + 1
      /\ DOMAIN stack = 1 .. Len(stack) /\ Len(stack) \in Nat
      /\ \A i \in 1 .. Len(stack) : stack'[i] = stack[i]
      /\ stack'[Len(stack) + 1] = Frame("net_error", m_reply)
  BY <1>0, <1>1, Push DEF ErrorsTyped
<1>4. ReleasingIsDue' BY <1>1, <1>2, <1>3, StackPart DEF Releasing
<1>5. QED BY <1>1, <1>4 DEF UploaderInv

\* cleanupReply() when the current reply, if any, has been reported or was chained.
LEMMA CleanedRest ==
    ASSUME UploaderInv, CleanupReply, ErrorsTyped(stack'),
           m_reply # 0 => reported[m_reply] = 1 \/ m_reply \in chained,
           file' \in [Uploads -> {"none", "orphan", "open", "gone"}],
           calls' \in 0 .. MaxUploads, calls' >= calls,
           UNCHANGED <<reply, reported, chained>>
    PROVE  UploaderRest' /\ Spent'
<1> USE UploaderCalls DEF Uploads
<1>t. UploaderType BY DEF UploaderInv, UploaderRest
<1>1. m_reply' = 0 /\ m_isUploading' = FALSE /\ wired' = {}
  BY DEF UploaderInv, UploaderRest, BusyWithCurrentReply, CleanupReply
<1>2. UploaderType'
  <2>1. m_isUploading' \in BOOLEAN BY <1>1
  <2>2. \A r \in Uploads : r > calls' => reply'[r] = "none"
    BY <1>t DEF UploaderType
  <2>3. QED BY <1>t, <1>1, <2>1, <2>2 DEF UploaderType, ErrorsTyped
<1>3. BusyWithCurrentReply' /\ SendingHasFile' BY <1>1 DEF BusyWithCurrentReply, SendingHasFile
<1>4. EachReportedOnce' /\ ReportedWhenFinished'
  BY <1>t, <1>1 DEF UploaderInv, UploaderRest, EachReportedOnce, ReportedWhenFinished, UploaderType
<1>5. QED BY <1>1, <1>2, <1>3, <1>4 DEF UploaderRest, Spent

\* cleanupMultiPart() leaves files in states of theirs.
LEMMA FilesLeftTyped ==
    ASSUME file \in [Uploads -> {"none", "orphan", "open", "gone"}]
    PROVE  FilesLeft \in [Uploads -> {"none", "orphan", "open", "gone"}]
  BY DEF FilesLeft

\* Steps that leave the replies alone.
LEMMA QuietRest ==
    ASSUME UploaderInv, ErrorsTyped(stack'), SendingHasFile',
           file' \in [Uploads -> {"none", "orphan", "open", "gone"}],
           calls' \in 0 .. MaxUploads, calls' >= calls,
           UNCHANGED <<m_isUploading, m_reply, reply, wired, reported, chained>>
    PROVE  UploaderRest' /\ (Spent' <=> Spent)
<1> USE UploaderCalls DEF Uploads
<1>t. UploaderType BY DEF UploaderInv, UploaderRest
<1>2. UploaderType'
  <2>1. m_isUploading' \in BOOLEAN BY <1>t DEF UploaderType
  <2>2. \A r \in Uploads : r > calls' => reply'[r] = "none"
    BY <1>t DEF UploaderType
  <2>3. QED BY <1>t, <2>1, <2>2 DEF UploaderType, ErrorsTyped
<1>3. BusyWithCurrentReply' BY DEF UploaderInv, UploaderRest, BusyWithCurrentReply
<1>4. EachReportedOnce' /\ ReportedWhenFinished'
  BY DEF UploaderInv, UploaderRest, EachReportedOnce, ReportedWhenFinished
<1>5. QED BY <1>2, <1>3, <1>4 DEF UploaderRest, Spent

\* upload() refuses, or fails before there is a reply.
LEMMA CallSteps ==
    ASSUME UploaderInv, UploadBusy \/ UploadBadPath \/ UploadOpenFails
    PROVE  UploaderInv'
<1> USE UploaderCalls DEF Uploads
<1>t. UploaderType BY DEF UploaderInv, UploaderRest
<1>0. ErrorsTyped(stack) /\ stack \in Seq(Frames) BY StackTyped DEF ErrorsTyped
<1>1. PICK at \in {"busy", "path_error", "open_error"} : stack' = Append(stack, Frame(at, 0))
  BY DEF UploadBusy, UploadBadPath, UploadOpenFails
<1>2. at \in Emissions \cup {"destructor"} /\ at # "net_error" BY DEF Emissions
<1>3. Frame(at, 0) \in Frames /\ Frame(at, 0).at = at BY <1>2, FramesTyped
<1>4. ErrorsTyped(stack') BY <1>0, <1>1, <1>2, <1>3, PushTyped
<1>5. /\ stack' \in Seq(Frames) /\ DOMAIN stack' = 1 .. Len(stack) + 1
      /\ DOMAIN stack = 1 .. Len(stack) /\ Len(stack) \in Nat
      /\ Len(stack') = Len(stack) + 1
      /\ \A i \in 1 .. Len(stack) : stack'[i] = stack[i]
      /\ stack'[Len(stack) + 1] = Frame(at, 0)
  BY <1>0, <1>1, <1>3, Push
<1>6. /\ calls < MaxUploads /\ calls' = calls + 1
      /\ calls' \in 0 .. MaxUploads /\ calls' >= calls /\ calls' \in Uploads
  BY <1>t DEF UploadBusy, UploadBadPath, UploadOpenFails, CallUpload, UploaderType
<1>7. CASE UploadBusy
  <2>1. UNCHANGED <<m_isUploading, m_reply, reply, wired, file, reported, chained>>
    BY <1>7 DEF UploadBusy
  <2>2. SendingHasFile' BY <2>1 DEF UploaderInv, UploaderRest, SendingHasFile
  <2>3. file' \in [Uploads -> {"none", "orphan", "open", "gone"}] BY <1>t, <2>1 DEF UploaderType
  <2>4. UploaderRest' /\ (Spent' <=> Spent) BY <1>4, <1>6, <2>1, <2>2, <2>3, QuietRest
  <2>5. stack' = Append(stack, Frame("busy", 0)) BY <1>7 DEF UploadBusy
  <2>6. stack'[Len(stack) + 1].at = "busy"
    <3>1. "busy" \in Emissions \cup {"destructor"} BY DEF Emissions
    <3>2. Frame("busy", 0) \in Frames /\ Frame("busy", 0).at = "busy" BY <3>1, FramesTyped
    <3>3. QED BY <1>0, <2>5, <3>2, Push
  <2>7. 1 \in DOMAIN stack /\ stack[1].at = "destructor" /\ ~ Spent =>
           Len(stack) >= 2
    BY DEF UploaderInv, ReleasingIsDue
  <2>8. ReleasingIsDue' BY <1>5, <2>1, <2>4, <2>6, <2>7, StackPart DEF Releasing
  <2>9. QED BY <2>4, <2>8 DEF UploaderInv
<1>8. CASE UploadBadPath \/ UploadOpenFails
  <2>1. /\ ~ m_isUploading /\ CleanupReply /\ UNCHANGED <<reply, reported, chained>>
        /\ file' = FilesLeft \/ file' = [FilesLeft EXCEPT ![calls'] = "orphan"]
    BY <1>8 DEF UploadBadPath, UploadOpenFails, CleanupMultiPart
  <2>2. file' \in [Uploads -> {"none", "orphan", "open", "gone"}]
    <3>1. FilesLeft \in [Uploads -> {"none", "orphan", "open", "gone"}]
      BY <1>t, FilesLeftTyped DEF UploaderType
    <3>2. QED BY <2>1, <3>1
  <2>3. m_reply # 0 => reported[m_reply] = 1
    <3>1. m_reply # 0 => m_reply \in Uploads /\ reply[m_reply] = "finished"
      <4>1. m_reply # 0 => reply[m_reply] \notin {"working", "failed"}
        BY <2>1 DEF UploaderInv, UploaderRest, BusyWithCurrentReply
      <4>2. QED BY <1>t, <4>1 DEF UploaderType
    <3>2. QED BY <3>1 DEF UploaderInv, UploaderRest, ReportedWhenFinished
  <2>4. UploaderRest' /\ Spent' BY <1>4, <1>6, <2>1, <2>2, <2>3, CleanedRest
  <2>5. at # "destructor" OBVIOUS
  <2>6. ReleasingIsDue' BY <1>3, <1>5, <2>4, <2>5, StackPart
  <2>7. QED BY <2>4, <2>6 DEF UploaderInv
<1>9. QED BY <1>7, <1>8

LEMMA UploadStartsStep == ASSUME UploaderInv, UploadStarts PROVE UploaderInv'
<1> USE UploaderCalls DEF Uploads
<1>t. UploaderType BY DEF UploaderInv, UploaderRest
<1>1. /\ calls < MaxUploads /\ calls' = calls + 1 /\ calls' \in 0 .. MaxUploads
      /\ calls' \in Uploads /\ calls' > calls
  BY <1>t DEF UploadStarts, CallUpload, UploaderType
<1>2. reply[calls'] = "none" BY <1>t, <1>1 DEF UploaderType
<1>3. /\ m_reply' = calls' /\ m_isUploading' = TRUE
      /\ stack' = stack /\ reported' = reported
      /\ wired' = {calls'}
  BY DEF UploadStarts, UploaderInv, UploaderRest, BusyWithCurrentReply
<1>4. /\ reply' \in [Uploads -> {"none", "working", "failed", "finished"}]
      /\ \A q \in Uploads : reply'[q] = IF q = calls' THEN "working" ELSE reply[q]
  BY <1>t, <1>1 DEF UploadStarts, UploaderType
<1>5. file' \in [Uploads -> {"none", "orphan", "open", "gone"}] /\ file'[calls'] = "open"
  <2>1. FilesLeft \in [Uploads -> {"none", "orphan", "open", "gone"}]
    BY <1>t, FilesLeftTyped DEF UploaderType
  <2>2. QED BY <1>1, <2>1 DEF UploadStarts
<1>6. /\ chained' \in SUBSET Uploads /\ chained \subseteq chained'
      /\ (\E i \in DOMAIN stack : stack[i].at \in Releasing) => calls' \in chained'
  <2>1. chained \in SUBSET Uploads BY <1>t DEF UploaderType
  <2>2. chained' = chained \/ chained' = chained \cup {calls'} BY DEF UploadStarts
  <2>3. (\E i \in DOMAIN stack : stack[i].at \in Releasing) => chained' = chained \cup {calls'}
    BY DEF UploadStarts
  <2> QED BY <1>1, <2>1, <2>2, <2>3
<1>7. m_reply # 0 => m_reply \in Uploads /\ reported[m_reply] = 1 /\ m_reply # calls'
  <2>1. m_reply # 0 => m_reply \in Uploads /\ reply[m_reply] = "finished"
    <3>1. m_reply # 0 => reply[m_reply] \notin {"working", "failed"}
      BY DEF UploadStarts, UploaderInv, UploaderRest, BusyWithCurrentReply
    <3>2. QED BY <1>t, <3>1 DEF UploaderType
  <2>2. QED BY <1>2, <2>1 DEF UploaderInv, UploaderRest, ReportedWhenFinished
<1>8. UploaderType'
  <2>1. m_isUploading' \in BOOLEAN BY <1>3
  <2>2. \A r \in Uploads : r > calls' => reply'[r] = "none" BY <1>t, <1>1, <1>4 DEF UploaderType
  <2>3. wired' \in SUBSET Uploads BY <1>1, <1>3
  <2>4. m_reply' \in 0 .. MaxUploads /\ reply'[m_reply'] # "none" BY <1>1, <1>3, <1>4
  <2>5. /\ stack' \in Seq(Frames)
        /\ \A i \in DOMAIN stack' : stack'[i].at = "net_error" => stack'[i].id \in Uploads
    BY <1>t, <1>3 DEF UploaderType
  <2>6. reported' \in [Uploads -> Nat] BY <1>t, <1>3 DEF UploaderType
  <2>7. QED BY <1>1, <1>4, <1>5, <1>6, <2>1, <2>2, <2>3, <2>4, <2>5, <2>6 DEF UploaderType
<1>9. BusyWithCurrentReply' /\ SendingHasFile'
  BY <1>1, <1>3, <1>4, <1>5 DEF BusyWithCurrentReply, SendingHasFile
<1>10. EachReportedOnce' /\ ReportedWhenFinished'
  BY <1>1, <1>2, <1>3, <1>4, <1>6, <1>7
  DEF UploaderInv, UploaderRest, EachReportedOnce, ReportedWhenFinished
<1>11. ReleasingIsDue'
  <2>1. (\E i \in DOMAIN stack : stack[i].at \in Releasing) => Spent'
    BY <1>3, <1>6 DEF Spent
  <2>2. \A i \in DOMAIN stack : stack[i].at = "destructor" => i = 1
    BY DEF UploaderInv, ReleasingIsDue
  <2>3. "destructor" \in Releasing BY DEF Releasing
  <2>4. QED BY <1>3, <2>1, <2>2, <2>3 DEF ReleasingIsDue
<1>12. QED BY <1>8, <1>9, <1>10, <1>11 DEF UploaderInv, UploaderRest

LEMMA CancelStep == ASSUME UploaderInv, Cancel PROVE UploaderInv'
<1> USE UploaderCalls DEF Uploads
<1>t. UploaderType BY DEF UploaderInv, UploaderRest
<1>0. ErrorsTyped(stack) /\ stack \in Seq(Frames) BY StackTyped DEF ErrorsTyped
<1>s. Len(stack) \in Nat /\ DOMAIN stack = 1 .. Len(stack) BY <1>0
<1>1. CASE m_reply # 0
  <2>1. UNCHANGED <<m_reply, calls, wired, file, chained>> /\ Abort(m_reply, stack)
    BY <1>1 DEF Cancel
  <2>2. m_reply \in Uploads /\ reply[m_reply] \in {"working", "failed", "finished"}
    BY <1>t, <1>1 DEF UploaderType
  <2>3. CASE reply[m_reply] = "working"
    <3>1. EmitError(m_reply, stack) BY <2>1, <2>3 DEF Abort
    <3>2. QED BY <1>1, <2>1, <2>3, <3>1, ErrorStep
  <2>4. CASE reply[m_reply] = "failed"
    <3>1. EmitFinished(m_reply, stack) BY <2>1, <2>4 DEF Abort
    <3>2. QED BY <1>0, <1>s, <2>1, <2>2, <2>4, <3>1, FinishStep
  <2>5. CASE reply[m_reply] = "finished"
    <3>1. stack' = stack /\ UNCHANGED <<reply, m_isUploading, reported>>
      BY <2>1, <2>5 DEF Abort
    <3>2. file' \in [Uploads -> {"none", "orphan", "open", "gone"}]
          /\ calls' \in 0 .. MaxUploads /\ calls' >= calls
      BY <1>t, <2>1 DEF UploaderType
    <3>3. SendingHasFile' BY <2>1, <3>1 DEF UploaderInv, UploaderRest, SendingHasFile
    <3>4. UploaderRest' /\ (Spent' <=> Spent) BY <1>0, <2>1, <3>1, <3>2, <3>3, QuietRest
    <3>5. ReleasingIsDue' BY <2>1, <3>1, <3>4 DEF UploaderInv, ReleasingIsDue
    <3>6. QED BY <3>4, <3>5 DEF UploaderInv
  <2>6. QED BY <2>2, <2>3, <2>4, <2>5
<1>2. CASE m_reply = 0
  <2>1. CleanupReply /\ file' = FilesLeft /\ stack' = stack
        /\ UNCHANGED <<reply, reported, calls, chained>>
    BY <1>2 DEF Cancel, CleanupMultiPart
  <2>2. file' \in [Uploads -> {"none", "orphan", "open", "gone"}]
    BY <1>t, <2>1, FilesLeftTyped DEF UploaderType
  <2>3. calls' \in 0 .. MaxUploads /\ calls' >= calls BY <1>t, <2>1 DEF UploaderType
  <2>4. UploaderRest' /\ Spent' BY <1>0, <1>2, <2>1, <2>2, <2>3, CleanedRest
  <2>5. ReleasingIsDue' BY <1>0, <2>1, <2>4, StackPart
  <2>6. QED BY <2>4, <2>5 DEF UploaderInv
<1>3. QED BY <1>1, <1>2

LEMMA DestroyStep == ASSUME UploaderInv, Destroy PROVE UploaderInv'
<1> USE UploaderCalls DEF Uploads
<1>t. UploaderType BY DEF UploaderInv, UploaderRest
<1> DEFINE d == Frame("destructor", 0)
<1>1. d \in Frames /\ d.at = "destructor" BY FramesTyped
<1> HIDE DEF d
<1>2. /\ <<d>> \in Seq(Frames) /\ Len(<<d>>) = 1 /\ DOMAIN <<d>> = 1 .. 1 /\ <<d>>[1] = d
  BY <1>1
<1>3. ErrorsTyped(<<d>>) BY <1>1, <1>2 DEF ErrorsTyped
<1>4. UNCHANGED <<m_reply, calls, wired, file, chained>> BY DEF Destroy
<1>5. /\ file' \in [Uploads -> {"none", "orphan", "open", "gone"}]
      /\ calls' \in 0 .. MaxUploads /\ calls' >= calls
  BY <1>t, <1>4 DEF UploaderType
<1>6. CASE m_reply = 0 \/ reply[m_reply] = "finished"
  <2>1. stack' = <<d>> /\ UNCHANGED <<reply, m_isUploading, reported>>
    BY <1>6 DEF Destroy, Abort, d
  <2>2. SendingHasFile' BY <1>4, <2>1 DEF UploaderInv, UploaderRest, SendingHasFile
  <2>3. UploaderRest' /\ (Spent' <=> Spent) BY <1>3, <1>4, <1>5, <2>1, <2>2, QuietRest
  <2>4. Spent' BY <1>6, <2>3 DEF Spent
  <2>5. ReleasingIsDue' BY <1>1, <1>2, <2>1, <2>4 DEF ReleasingIsDue
  <2>6. QED BY <2>3, <2>5 DEF UploaderInv
<1>7. CASE m_reply # 0 /\ reply[m_reply] = "working"
  <2>1. EmitError(m_reply, <<d>>) BY <1>7 DEF Destroy, Abort, d
  <2>2. /\ UploaderRest' /\ stack' = Append(<<d>>, Frame("net_error", m_reply))
        /\ Frame("net_error", m_reply) \in Frames
        /\ Frame("net_error", m_reply).at = "net_error"
        /\ reply'[m_reply] = "failed"
    BY <1>3, <1>4, <1>7, <2>1, ErrorRest
  <2>3. /\ Len(stack') = 2 /\ DOMAIN stack' = 1 .. 2 /\ stack'[1] = d
        /\ stack'[2] = Frame("net_error", m_reply)
    BY <1>2, <2>2, Push
  <2>4. \A i \in DOMAIN stack' : i = 1 \/ stack'[i] = Frame("net_error", m_reply) BY <2>3
  <2>5. ReleasingIsDue'
    <3>1. SUFFICES ASSUME NEW i \in DOMAIN stack'
                   PROVE  /\ stack'[i].at \in Releasing \ {"destructor"} => Spent'
                          /\ stack'[i].at = "destructor" =>
                               /\ i = 1
                               /\ Spent' \/ (Len(stack') >= 2
                                             /\ stack'[2] = Frame("net_error", m_reply')
                                             /\ reply'[m_reply'] = "failed")
      BY DEF ReleasingIsDue
    <3>2. CASE i = 1 BY <1>1, <1>4, <2>2, <2>3, <3>2
    <3>3. CASE stack'[i] = Frame("net_error", m_reply) BY <2>2, <3>3 DEF Releasing
    <3>4. QED BY <2>4, <3>2, <3>3
  <2>6. QED BY <2>2, <2>5 DEF UploaderInv
<1>8. CASE m_reply # 0 /\ reply[m_reply] = "failed"
  <2>0. m_reply \in Uploads BY <1>t, <1>8 DEF UploaderType
  <2>1. EmitFinished(m_reply, <<d>>) BY <1>8 DEF Destroy, Abort, d
  <2>2. UploaderRest' BY <1>3, <1>4, <1>8, <2>0, <2>1, FinishRest
  <2>3. Spent' BY <1>t, <1>4, <2>0, <2>1 DEF EmitFinished, Spent, UploaderType
  <2>4. m_reply \in wired BY <1>8 DEF UploaderInv, UploaderRest, BusyWithCurrentReply
  <2>5. stack' = Append(<<d>>, Frame("finished", m_reply)) BY <2>1, <2>4 DEF EmitFinished
  <2>6. Frame("finished", m_reply) \in Frames /\ Frame("finished", m_reply).at = "finished"
    <3>1. "finished" \in Emissions BY DEF Emissions
    <3>2. QED BY <2>0, <3>1, FramesTyped
  <2>7. DOMAIN stack' = 1 .. 2 /\ stack'[1] = d /\ stack'[2] = Frame("finished", m_reply)
    BY <1>2, <2>5, <2>6, Push
  <2>8. ReleasingIsDue' BY <1>1, <2>3, <2>6, <2>7 DEF ReleasingIsDue
  <2>9. QED BY <2>2, <2>8 DEF UploaderInv
<1>9. QED BY <1>t, <1>6, <1>7, <1>8 DEF UploaderType

\* The slots of the innermost emission return.
LEMMA ReturnStep == ASSUME UploaderInv, Return PROVE UploaderInv'
<1> USE UploaderCalls DEF Uploads
<1>t. UploaderType BY DEF UploaderInv, UploaderRest
<1>0. ErrorsTyped(stack) /\ stack \in Seq(Frames) BY StackTyped DEF ErrorsTyped
<1>1. stack # <<>> BY DEF Return, ReturnPlain, ReturnOpen, ReturnNetError, ReturnCleanup, Where, GoesOn
<1>2. /\ Below \in Seq(Frames) /\ DOMAIN Below = 1 .. Len(stack) - 1
      /\ Len(Below) = Len(stack) - 1 /\ Len(stack) \in Nat /\ Len(stack) > 0
      /\ DOMAIN stack = 1 .. Len(stack)
      /\ \A i \in 1 .. Len(stack) - 1 : Below[i] = stack[i]
      /\ Top = stack[Len(stack)] /\ Top \in Frames
  BY <1>0, <1>1, Pop
<1>3. ErrorsTyped(Below) BY <1>0, <1>1, PopTyped
<1>4. Where = Top.at BY <1>1 DEF Where
<1>5. Top.at \in Releasing => Spent \/ (Top.at = "destructor" /\ Len(stack) = 1)
  <2>1. Len(stack) \in DOMAIN stack BY <1>2
  <2>2. QED BY <1>2, <2>1 DEF UploaderInv, ReleasingIsDue
<1>6. 1 \in DOMAIN stack /\ stack[1].at = "destructor" /\ ~ Spent =>
         /\ Len(stack) >= 2 /\ stack[2].at = "net_error" /\ stack[2].id = m_reply
         /\ reply[m_reply] = "failed"
  <2>1. 1 \in DOMAIN stack /\ stack[1].at = "destructor" /\ ~ Spent =>
           Len(stack) >= 2 /\ stack[2] = Frame("net_error", m_reply) /\ reply[m_reply] = "failed"
    BY DEF UploaderInv, ReleasingIsDue
  <2>2. QED BY <2>1 DEF Frame
<1>7. Top.at \in Releasing => Spent
  <2>1. CASE Top.at = "destructor" /\ Len(stack) = 1
    <3>1. 1 \in DOMAIN stack /\ stack[1].at = "destructor" BY <1>2, <2>1
    <3>2. QED BY <1>6, <2>1, <3>1
  <2>2. QED BY <1>5, <2>1
<1>8. CASE ReturnPlain
  <2>1. /\ Top.at \in {"busy", "path_error", "path_finished", "open_error"}
        /\ \/ stack' = Below
           \/ Top.at = "path_error" /\ stack' = Append(Below, Frame("path_finished", 0))
           \/ Top.at = "open_error" /\ stack' = Append(Below, Frame("open_finished", 0))
    BY <1>0, <1>8, PlainReturns
  <2>2. UNCHANGED <<m_isUploading, m_reply, calls, reply, wired, file, reported, chained>>
    BY <1>8 DEF ReturnPlain
  <2>3. /\ Frame("path_finished", 0) \in Frames /\ Frame("path_finished", 0).at = "path_finished"
        /\ Frame("open_finished", 0) \in Frames /\ Frame("open_finished", 0).at = "open_finished"
    <3>1. "path_finished" \in Emissions /\ "open_finished" \in Emissions BY DEF Emissions
    <3>2. QED BY <3>1, FramesTyped
  <2>4. ErrorsTyped(stack') BY <1>3, <2>1, <2>3, PushTyped
  <2>5. SendingHasFile' BY <2>2 DEF UploaderInv, UploaderRest, SendingHasFile
  <2>6. file' \in [Uploads -> {"none", "orphan", "open", "gone"}]
        /\ calls' \in 0 .. MaxUploads /\ calls' >= calls
    BY <1>t, <2>2 DEF UploaderType
  <2>7. UploaderRest' /\ (Spent' <=> Spent) BY <2>2, <2>4, <2>5, <2>6, QuietRest
  <2>8. ~ Spent /\ 1 \in DOMAIN stack /\ stack[1].at = "destructor" => Len(stack) >= 3
    <3>1. Len(stack) = 2 => Top = stack[2] BY <1>2
    <3>2. QED BY <1>2, <1>6, <2>1, <3>1
  <2>9. CASE stack' = Below
    <3>1. ReleasingIsDue' BY <1>2, <2>2, <2>7, <2>8, <2>9, StackPart
    <3>2. QED BY <2>7, <3>1 DEF UploaderInv
  <2>10. ASSUME NEW f \in Frames, stack' = Append(Below, f),
                f.at \notin Releasing \/ (f.at # "destructor" /\ Spent)
         PROVE  UploaderInv'
    <3>1. /\ stack' \in Seq(Frames) /\ Len(stack') = Len(stack)
          /\ DOMAIN stack' = 1 .. Len(stack)
          /\ \A i \in 1 .. Len(stack) - 1 : stack'[i] = stack[i]
          /\ stack'[Len(stack)] = f
      BY <1>2, <2>10, Push
    <3>2. ReleasingIsDue' BY <1>2, <2>2, <2>7, <2>8, <2>10, <3>1, StackPart
    <3>3. QED BY <2>7, <3>2 DEF UploaderInv
  <2>11. CASE Top.at = "path_error" /\ stack' = Append(Below, Frame("path_finished", 0))
    BY <2>3, <2>10, <2>11 DEF Releasing
  <2>12. CASE Top.at = "open_error" /\ stack' = Append(Below, Frame("open_finished", 0))
    <3>1. Spent BY <1>7, <2>12 DEF Releasing
    <3>2. QED BY <2>3, <2>10, <2>12, <3>1
  <2>13. QED BY <2>1, <2>9, <2>11, <2>12
<1>9. CASE ReturnOpen
  <2>1. /\ UNCHANGED <<m_isUploading, m_reply, calls, reply, wired, reported, chained>>
        /\ stack' = Below /\ Top.at = "open_finished"
        /\ file' = [f \in Uploads |-> IF f = m_file THEN "gone" ELSE file[f]]
    BY <1>4, <1>9 DEF ReturnOpen
  <2>2. Spent BY <1>7, <2>1 DEF Releasing
  <2>3. SendingHasFile'
    BY <2>1, <2>2 DEF UploaderInv, UploaderRest, SendingHasFile, BusyWithCurrentReply, Spent
  <2>4. file' \in [Uploads -> {"none", "orphan", "open", "gone"}]
        /\ calls' \in 0 .. MaxUploads /\ calls' >= calls
    BY <1>t, <2>1 DEF UploaderType
  <2>5. UploaderRest' /\ Spent' BY <1>3, <2>1, <2>2, <2>3, <2>4, QuietRest
  <2>6. ReleasingIsDue' BY <1>2, <2>1, <2>5, StackPart
  <2>7. QED BY <2>5, <2>6 DEF UploaderInv
<1>10. CASE ReturnNetError
  <2>1. UNCHANGED <<m_reply, calls, wired, file, chained>> /\ Top.at = "net_error"
    BY <1>4, <1>10 DEF ReturnNetError
  <2>2. Top.id \in Uploads BY <1>t, <1>2, <2>1 DEF UploaderType
  <2>3. ~ Spent /\ 1 \in DOMAIN stack /\ stack[1].at = "destructor" =>
           Len(stack) >= 3 \/ (Top.id = m_reply /\ reply[Top.id] = "failed")
    <3>1. Len(stack) = 2 => Top = stack[2] BY <1>2
    <3>2. QED BY <1>2, <1>6, <3>1
  <2>4. CASE reply[Top.id] = "failed"
    <3>1. EmitFinished(Top.id, Below) BY <1>10, <2>4 DEF ReturnNetError
    <3>2. 1 \in DOMAIN stack /\ stack[1].at = "destructor" /\ Len(Below) < 2 /\ ~ Spent =>
             Top.id = m_reply
      BY <1>2, <2>3
    <3>3. QED BY <1>2, <1>3, <2>1, <2>2, <2>4, <3>1, <3>2, FinishStep
  <2>5. CASE reply[Top.id] # "failed"
    <3>1. stack' = Below /\ UNCHANGED <<reply, m_isUploading, reported>>
      BY <1>10, <2>5 DEF ReturnNetError
    <3>2. SendingHasFile' BY <2>1, <3>1 DEF UploaderInv, UploaderRest, SendingHasFile
    <3>3. file' \in [Uploads -> {"none", "orphan", "open", "gone"}]
          /\ calls' \in 0 .. MaxUploads /\ calls' >= calls
      BY <1>t, <2>1 DEF UploaderType
    <3>4. UploaderRest' /\ (Spent' <=> Spent) BY <1>3, <2>1, <3>1, <3>2, <3>3, QuietRest
    <3>5. ReleasingIsDue' BY <1>2, <2>1, <2>3, <2>5, <3>1, <3>4, StackPart
    <3>6. QED BY <3>4, <3>5 DEF UploaderInv
  <2>6. QED BY <2>4, <2>5
<1>11. CASE ReturnCleanup
  <2>1. /\ Top.at \in {"finished", "destructor"} /\ CleanupReply /\ file' = FilesLeft
        /\ stack' = Below /\ UNCHANGED <<calls, reply, reported, chained>>
    BY <1>4, <1>11 DEF ReturnCleanup, CleanupMultiPart
  <2>2. Spent BY <1>7, <2>1 DEF Releasing
  <2>3. m_reply # 0 => reported[m_reply] = 1 \/ m_reply \in chained
    BY <1>t, <2>2 DEF UploaderInv, UploaderRest, ReportedWhenFinished, Spent, UploaderType
  <2>4. file' \in [Uploads -> {"none", "orphan", "open", "gone"}]
    BY <1>t, <2>1, FilesLeftTyped DEF UploaderType
  <2>5. calls' \in 0 .. MaxUploads /\ calls' >= calls BY <1>t, <2>1 DEF UploaderType
  <2>6. UploaderRest' /\ Spent' BY <1>3, <2>1, <2>3, <2>4, <2>5, CleanedRest
  <2>7. ReleasingIsDue' BY <1>2, <2>1, <2>6, StackPart
  <2>8. QED BY <2>6, <2>7 DEF UploaderInv
<1>12. QED BY <1>8, <1>9, <1>10, <1>11 DEF Return

LEMMA NetSteps ==
    ASSUME UploaderInv, NEW r \in Uploads, NetDone(r) \/ NetFails(r)
    PROVE  UploaderInv'
<1> USE UploaderCalls DEF Uploads
<1>1. stack = <<>> /\ reply[r] = "working" /\ r \in wired
      /\ UNCHANGED <<m_reply, calls, wired, file, chained>>
  BY DEF NetDone, NetFails
<1>2. ErrorsTyped(stack) BY StackTyped
<1>3. r = m_reply /\ m_reply # 0 BY <1>1 DEF UploaderInv, UploaderRest, BusyWithCurrentReply
<1>4. CASE NetDone(r)
  <2>1. EmitFinished(r, stack) BY <1>1, <1>4 DEF NetDone
  <2>2. Len(stack) \in 0 .. Len(stack) BY <1>1
  <2>3. QED BY <1>1, <1>2, <1>3, <2>1, <2>2, FinishStep
<1>5. CASE NetFails(r)
  <2>1. EmitError(m_reply, stack) BY <1>1, <1>3, <1>5 DEF NetFails
  <2>2. QED BY <1>1, <1>3, <2>1, ErrorStep
<1>6. QED BY <1>4, <1>5

LEMMA UploaderStep == UploaderInv /\ [UploaderNext]_uploadVars => UploaderInv'
<1> SUFFICES ASSUME UploaderInv, [UploaderNext]_uploadVars PROVE UploaderInv'
  OBVIOUS
<1>1. CASE UploadBusy \/ UploadBadPath \/ UploadOpenFails BY <1>1, CallSteps
<1>2. CASE UploadStarts BY <1>2, UploadStartsStep
<1>3. CASE Cancel BY <1>3, CancelStep
<1>4. CASE Destroy BY <1>4, DestroyStep
<1>5. ASSUME NEW r \in Uploads, NetDone(r) \/ NetFails(r) PROVE UploaderInv'
  BY <1>5, NetSteps
<1>6. CASE Return BY <1>6, ReturnStep
<1>7. CASE UNCHANGED uploadVars
  BY <1>7 DEF uploadVars, UploaderInv, UploaderRest, UploaderType, BusyWithCurrentReply,
              SendingHasFile, EachReportedOnce, ReportedWhenFinished, ReleasingIsDue, Spent
<1>8. QED BY <1>1, <1>2, <1>3, <1>4, <1>5, <1>6, <1>7 DEF UploaderNext

-----------------------------------------------------------------------------
(* Downloader                                                               *)

DownloaderType ==
    /\ _file \in 0 .. MaxDownloads /\ _reply \in 0 .. MaxDownloads
    /\ downloads \in 0 .. MaxDownloads
    /\ _file =< downloads /\ _reply =< downloads
    /\ dfile \in [Downloads -> {"none", "open", "unopened", "closed"}]
    /\ content \in [Downloads -> [Downloads -> Nat]]
    /\ dreply \in [Downloads -> {"none", "working", "ended", "broken", "gone"}]
    /\ unread \in [Downloads -> Nat]
    /\ arrived \in [Downloads -> Nat]
    /\ dwired \in SUBSET Downloads
    /\ short \in SUBSET Downloads
    /\ verdict \in [Downloads -> {"none", "success", "failure"}]
    /\ overlapped \in BOOLEAN
    /\ fault \in {"none", "null", "dangling"}
    /\ \A r \in dwired : r =< downloads
    /\ dwired # {} => _reply # 0

\* The slots write to an open file only what belongs to it, and a file that was
\* reported is no longer theirs.
FileOfReply ==
    /\ _file # 0 /\ dfile[_file] = "open" => _file = _reply
    /\ \A f \in Downloads : verdict[f] # "none" => f # _file /\ f =< downloads

\* Calls to come have no bytes yet.
Fresh ==
    \A f \in Downloads :
        f > downloads => arrived[f] = 0 /\ unread[f] = 0 /\ content[f][f] = 0
                         /\ dreply[f] = "none"

\* A single download in progress has all that arrived in its file, but for what
\* a write left out.
OneAtATime ==
    ~ overlapped =>
        /\ \A r \in Downloads : dreply[r] = "working" => r \in dwired
        /\ \A r \in dwired :
              /\ r = _reply /\ r = _file /\ dreply[r] = "working" /\ dfile[r] = "open"
              /\ unread[r] = 0 /\ (r \in short \/ content[r][r] = arrived[r])

DownloaderInv ==
    DownloaderType /\ NoForeignBytes /\ FileOfReply /\ Fresh /\ OneAtATime /\ SuccessIsComplete

LEMMA DownloaderStarts == DownloaderInit => DownloaderInv
<1> SUFFICES ASSUME DownloaderInit PROVE DownloaderInv
  OBVIOUS
<1> USE DownloaderCalls, DownloaderTotal DEF Downloads
<1>1. /\ content \in [Downloads -> [Downloads -> Nat]]
      /\ \A f, r \in Downloads : content[f][r] = 0
  BY DEF DownloaderInit
<1>2. DownloaderType
  <2>1. overlapped \in BOOLEAN /\ fault \in {"none", "null", "dangling"} BY DEF DownloaderInit
  <2>2. /\ _file \in 0 .. MaxDownloads /\ _reply \in 0 .. MaxDownloads
        /\ downloads \in 0 .. MaxDownloads /\ _file =< downloads /\ _reply =< downloads
        /\ dwired = {} /\ short = {}
    BY DEF DownloaderInit
  <2>3. /\ dfile \in [Downloads -> {"none", "open", "unopened", "closed"}]
        /\ dreply \in [Downloads -> {"none", "working", "ended", "broken", "gone"}]
        /\ unread \in [Downloads -> Nat] /\ arrived \in [Downloads -> Nat]
        /\ verdict \in [Downloads -> {"none", "success", "failure"}]
    BY DEF DownloaderInit
  <2>4. QED BY <1>1, <2>1, <2>2, <2>3 DEF DownloaderType
<1>3. NoForeignBytes /\ FileOfReply /\ Fresh
  BY <1>1 DEF DownloaderInit, NoForeignBytes, FileOfReply, Fresh
<1>4. OneAtATime /\ SuccessIsComplete BY DEF DownloaderInit, OneAtATime, SuccessIsComplete
<1>5. QED BY <1>2, <1>3, <1>4 DEF DownloaderInv

\* A write or a flush: it changes one entry of one file, and is known to the
\* history when it falls short.
LEMMA KeepStep ==
    ASSUME content \in [Downloads -> [Downloads -> Nat]], short \in SUBSET Downloads, NoForeignBytes,
           NEW f \in Downloads, NEW r \in Downloads, NEW n \in Nat, NEW m \in Nat,
           f # r => n = 0, Keep(f, r, n, m)
    PROVE  /\ content' \in [Downloads -> [Downloads -> Nat]]
           /\ content'[f][r] = n
           /\ \A g \in Downloads : g # f => content'[g] = content[g]
           /\ short' \in SUBSET Downloads /\ short \subseteq short' /\ (n < m => f \in short')
           /\ NoForeignBytes'
<1> DEFINE row == [content[f] EXCEPT ![r] = n]
<1>1. content[f] \in [Downloads -> Nat] OBVIOUS
<1>2. row \in [Downloads -> Nat] /\ row[r] = n /\ \A q \in Downloads : q # r => row[q] = content[f][q]
  BY <1>1
<1>3. content' = [content EXCEPT ![f] = row] BY DEF Keep
<1> HIDE DEF row
<1>4. /\ content' \in [Downloads -> [Downloads -> Nat]] /\ content'[f] = row
      /\ \A g \in Downloads : g # f => content'[g] = content[g]
  BY <1>2, <1>3
<1>5. short' \in SUBSET Downloads /\ short \subseteq short' /\ (n < m => f \in short')
  BY DEF Keep
<1>6. NoForeignBytes'
  <2>1. SUFFICES ASSUME NEW g \in Downloads, NEW q \in Downloads, g # q
                 PROVE  content'[g][q] = 0
    BY DEF NoForeignBytes
  <2>2. content[g][q] = 0 BY <2>1 DEF NoForeignBytes
  <2>3. CASE g = f /\ q = r BY <1>2, <1>4, <2>1, <2>3
  <2>4. CASE g = f /\ q # r BY <1>2, <1>4, <2>2, <2>4
  <2>5. CASE g # f BY <1>4, <2>2, <2>5
  <2>6. QED BY <2>3, <2>4, <2>5
<1>7. QED BY <1>2, <1>4, <1>5, <1>6

\* Download(): a new number, whatever comes of it.
LEMMA NewDownload ==
    ASSUME DownloaderInv, CallDownload
    PROVE  /\ downloads \in Nat /\ downloads' = downloads + 1
           /\ downloads' \in Downloads /\ downloads' \in 0 .. MaxDownloads
           /\ _file =< downloads' /\ _reply =< downloads'
           /\ \A r \in dwired : r =< downloads' /\ r # downloads'
           /\ arrived[downloads'] = 0 /\ unread[downloads'] = 0
           /\ content[downloads'][downloads'] = 0 /\ dreply[downloads'] = "none"
           /\ \A f \in Downloads : f > downloads' => f > downloads /\ f # downloads'
           /\ \A f \in Downloads : verdict[f] # "none" => f < downloads'
           /\ fault = "none"
<1> USE DownloaderCalls DEF Downloads
<1>1. /\ downloads \in Nat /\ downloads' = downloads + 1
      /\ downloads' \in Downloads /\ downloads' \in 0 .. MaxDownloads
  BY DEF DownloaderInv, DownloaderType, CallDownload
<1>2. /\ _file =< downloads' /\ _reply =< downloads'
      /\ \A r \in dwired : r =< downloads' /\ r # downloads'
  BY <1>1 DEF DownloaderInv, DownloaderType
<1>3. /\ arrived[downloads'] = 0 /\ unread[downloads'] = 0
      /\ content[downloads'][downloads'] = 0 /\ dreply[downloads'] = "none"
  BY <1>1 DEF DownloaderInv, Fresh
<1>4. /\ \A f \in Downloads : f > downloads' => f > downloads /\ f # downloads'
      /\ \A f \in Downloads : verdict[f] # "none" => f < downloads'
  BY <1>1 DEF DownloaderInv, FileOfReply
<1>5. QED BY <1>1, <1>2, <1>3, <1>4 DEF CallDownload

LEMMA DownloadSteps ==
    ASSUME DownloaderInv, DownloadNoDir \/ DownloadNoFile \/ DownloadStarts
    PROVE  DownloaderInv' /\ UNCHANGED <<content, verdict>>
<1> USE DownloaderCalls, DownloaderTotal DEF Downloads
<1>t. DownloaderType BY DEF DownloaderInv
<1>c. CallDownload BY DEF DownloadNoDir, DownloadNoFile, DownloadStarts
<1>n. /\ downloads \in Nat /\ downloads' = downloads + 1
      /\ downloads' \in Downloads /\ downloads' \in 0 .. MaxDownloads
      /\ _file =< downloads' /\ _reply =< downloads'
      /\ \A r \in dwired : r =< downloads' /\ r # downloads'
      /\ arrived[downloads'] = 0 /\ unread[downloads'] = 0
      /\ content[downloads'][downloads'] = 0 /\ dreply[downloads'] = "none"
      /\ \A f \in Downloads : f > downloads' => f > downloads /\ f # downloads'
      /\ \A f \in Downloads : verdict[f] # "none" => f < downloads'
  BY <1>c, NewDownload
<1>u. UNCHANGED <<content, unread, arrived, short, verdict, fault>>
  BY DEF DownloadNoDir, DownloadNoFile, DownloadStarts
<1>f. NoForeignBytes' BY <1>u DEF DownloaderInv, NoForeignBytes
<1>k. /\ content' \in [Downloads -> [Downloads -> Nat]]
      /\ unread' \in [Downloads -> Nat] /\ arrived' \in [Downloads -> Nat]
      /\ short' \in SUBSET Downloads
      /\ verdict' \in [Downloads -> {"none", "success", "failure"}]
      /\ fault' \in {"none", "null", "dangling"}
  BY <1>t, <1>u DEF DownloaderType
<1>1. CASE DownloadNoDir
  <2>1. UNCHANGED <<_file, _reply, dfile, dreply, dwired, overlapped>> BY <1>1 DEF DownloadNoDir
  <2>2. DownloaderType'
    <3>1. overlapped' \in BOOLEAN BY <1>t, <2>1 DEF DownloaderType
    <3>2. QED BY <1>t, <1>k, <1>n, <2>1, <3>1 DEF DownloaderType
  <2>3. FileOfReply' /\ Fresh'
    BY <1>n, <1>u, <2>1 DEF DownloaderInv, FileOfReply, Fresh
  <2>4. OneAtATime' /\ SuccessIsComplete'
    BY <1>u, <2>1 DEF DownloaderInv, OneAtATime, SuccessIsComplete
  <2>5. QED BY <1>f, <1>u, <2>2, <2>3, <2>4 DEF DownloaderInv
<1>2. CASE DownloadNoFile
  <2>1. /\ _file' = downloads' /\ overlapped' = (overlapped \/ dwired # {})
        /\ UNCHANGED <<_reply, dreply, dwired>>
    BY <1>2 DEF DownloadNoFile
  <2>2. /\ dfile' \in [Downloads -> {"none", "open", "unopened", "closed"}]
        /\ \A f \in Downloads : dfile'[f] = IF f = downloads' THEN "unopened" ELSE dfile[f]
    BY <1>2, <1>t, <1>n DEF DownloadNoFile, DownloaderType
  <2>3. DownloaderType'
    <3>1. overlapped' \in BOOLEAN BY <1>t, <2>1 DEF DownloaderType
    <3>2. _file' \in 0 .. MaxDownloads /\ _file' =< downloads' BY <1>n, <2>1
    <3>3. QED BY <1>t, <1>k, <1>n, <2>1, <2>2, <3>1, <3>2 DEF DownloaderType
  <2>4. FileOfReply' BY <1>n, <1>u, <2>1, <2>2 DEF DownloaderInv, FileOfReply
  <2>5. Fresh' BY <1>n, <1>u, <2>1 DEF DownloaderInv, Fresh
  <2>6. ~ overlapped' => ~ overlapped /\ dwired = {} BY <2>1
  <2>7. OneAtATime' BY <2>1, <2>6 DEF DownloaderInv, OneAtATime
  <2>8. SuccessIsComplete' BY <1>n, <1>u, <2>1, <2>2, <2>6 DEF DownloaderInv, SuccessIsComplete
  <2>9. QED BY <1>f, <1>u, <2>3, <2>4, <2>5, <2>7, <2>8 DEF DownloaderInv
<1>3. CASE DownloadStarts
  <2>1. /\ _file' = downloads' /\ _reply' = downloads'
        /\ overlapped' = (overlapped \/ dwired # {})
        /\ dwired' = dwired \cup {downloads'}
    BY <1>3 DEF DownloadStarts
  <2>2. /\ dfile' \in [Downloads -> {"none", "open", "unopened", "closed"}]
        /\ \A f \in Downloads : dfile'[f] = IF f = downloads' THEN "open" ELSE dfile[f]
    BY <1>3, <1>t, <1>n DEF DownloadStarts, DownloaderType
  <2>3. /\ dreply' \in [Downloads -> {"none", "working", "ended", "broken", "gone"}]
        /\ \A f \in Downloads : dreply'[f] = IF f = downloads' THEN "working" ELSE dreply[f]
    BY <1>3, <1>t, <1>n DEF DownloadStarts, DownloaderType
  <2>4. DownloaderType'
    <3>1. overlapped' \in BOOLEAN BY <1>t, <2>1 DEF DownloaderType
    <3>2. /\ _file' \in 0 .. MaxDownloads /\ _file' =< downloads'
          /\ _reply' \in 0 .. MaxDownloads /\ _reply' =< downloads' /\ _reply' # 0
      BY <1>n, <2>1
    <3>3. dwired' \in SUBSET Downloads /\ \A r \in dwired' : r =< downloads'
      BY <1>t, <1>n, <2>1 DEF DownloaderType
    <3>4. QED BY <1>k, <1>n, <2>2, <2>3, <3>1, <3>2, <3>3 DEF DownloaderType
  <2>5. FileOfReply' BY <1>n, <1>u, <2>1 DEF DownloaderInv, FileOfReply
  <2>6. Fresh' BY <1>n, <1>u, <2>3 DEF DownloaderInv, Fresh
  <2>7. ~ overlapped' => ~ overlapped /\ dwired = {} BY <2>1
  <2>8. OneAtATime'
    <3>1. SUFFICES ASSUME ~ overlapped' PROVE OneAtATime' BY DEF OneAtATime
    <3>2. dwired' = {downloads'} BY <2>1, <2>7, <3>1
    <3>3. \A r \in Downloads : dreply'[r] = "working" => r \in dwired'
      BY <2>3, <2>7, <3>1, <3>2 DEF DownloaderInv, OneAtATime
    <3>4. QED BY <1>n, <1>u, <2>1, <2>2, <2>3, <3>2, <3>3 DEF OneAtATime
  <2>9. SuccessIsComplete' BY <1>n, <1>u, <2>2, <2>3, <2>7 DEF DownloaderInv, SuccessIsComplete
  <2>10. QED BY <1>f, <1>u, <2>4, <2>5, <2>6, <2>8, <2>9 DEF DownloaderInv
<1>4. QED BY <1>1, <1>2, <1>3

\* _slotReadyRead and the chunk before it.
LEMMA ReadyReadStep ==
    ASSUME DownloaderInv, NEW r \in Downloads, ReadyRead(r)
    PROVE  DownloaderInv'
           /\ \A f \in Downloads : verdict[f] # "none" =>
                 content'[f] = content[f] /\ verdict'[f] = verdict[f]
<1> USE DownloaderCalls, DownloaderTotal DEF Downloads
<1>t. DownloaderType BY DEF DownloaderInv
<1>u. UNCHANGED <<_file, _reply, downloads, dfile, dreply, dwired, verdict, overlapped>>
  BY DEF ReadyRead
<1>r. dreply[r] = "working" /\ r =< downloads
  BY <1>t DEF DownloaderInv, Fresh, ReadyRead, DownloaderType
<1>a. arrived' \in [Downloads -> Nat]
      /\ \A q \in Downloads : arrived'[q] = IF q = r THEN arrived[q] + 1 ELSE arrived[q]
  <2>1. arrived \in [Downloads -> Nat] BY <1>t DEF DownloaderType
  <2>2. arrived' = [arrived EXCEPT ![r] = arrived[r] + 1] BY DEF ReadyRead
  <2>3. QED BY <2>1, <2>2
<1> DEFINE buffered == [unread EXCEPT ![r] = @ + 1]
<1>b. buffered \in [Downloads -> Nat]
      /\ \A q \in Downloads : buffered[q] = IF q = r THEN unread[q] + 1 ELSE unread[q]
  <2>1. unread \in [Downloads -> Nat] BY <1>t DEF DownloaderType
  <2>2. QED BY <2>1
<1> HIDE DEF buffered
<1>1. ASSUME unread' \in [Downloads -> Nat],
             \A q \in Downloads : q > downloads => unread'[q] = 0,
             fault' \in {"none", "null", "dangling"},
             content' \in [Downloads -> [Downloads -> Nat]],
             short' \in SUBSET Downloads, short \subseteq short',
             NoForeignBytes',
             \A f \in Downloads : f # _file \/ f > downloads => content'[f] = content[f],
             ~ overlapped => /\ fault' = "none" /\ unread'[r] = 0
                             /\ r \in short' \/ content'[r][r] = content[r][r] + 1
      PROVE  DownloaderInv'
             /\ \A f \in Downloads : verdict[f] # "none" =>
                   content'[f] = content[f] /\ verdict'[f] = verdict[f]
  <2>1. DownloaderType'
    <3>1. overlapped' \in BOOLEAN BY <1>t, <1>u DEF DownloaderType
    <3>2. QED BY <1>t, <1>u, <1>a, <1>1, <3>1 DEF DownloaderType
  <2>2. FileOfReply' BY <1>u DEF DownloaderInv, FileOfReply
  <2>3. Fresh'
    <3>1. \A q \in Downloads : q > downloads => arrived'[q] = 0
      BY <1>t, <1>r, <1>a DEF DownloaderInv, Fresh, DownloaderType
    <3>2. QED BY <1>u, <1>1, <3>1 DEF DownloaderInv, Fresh
  <2>4. OneAtATime'
    <3>1. SUFFICES ASSUME ~ overlapped PROVE OneAtATime' BY <1>u DEF OneAtATime
    <3>2. /\ \A q \in Downloads : dreply[q] = "working" => q \in dwired
          /\ \A q \in dwired : /\ q = _reply /\ q = _file /\ dreply[q] = "working"
                               /\ dfile[q] = "open"
                               /\ q \in short \/ content[q][q] = arrived[q]
      BY <3>1 DEF DownloaderInv, OneAtATime
    <3>3. r = _reply /\ r = _file /\ (r \in short \/ content[r][r] = arrived[r]) BY <1>r, <3>2
    <3>4. \A q \in dwired : unread'[q] = 0 /\ (q \in short' \/ content'[q][q] = arrived'[q])
      BY <1>1, <1>a, <3>1, <3>2, <3>3
    <3>5. QED BY <1>u, <3>2, <3>4 DEF OneAtATime
  <2>5. \A f \in Downloads : verdict[f] # "none" => f # _file /\ content'[f] = content[f]
    BY <1>1 DEF DownloaderInv, FileOfReply
  <2>6. SuccessIsComplete' BY <1>u, <1>1, <2>5 DEF DownloaderInv, SuccessIsComplete
  <2>7. QED BY <1>u, <1>1, <2>1, <2>2, <2>3, <2>4, <2>5, <2>6 DEF DownloaderInv
<1>o. ~ overlapped => /\ r \in dwired /\ r = _reply /\ r = _file /\ _file # 0
                      /\ dfile[_file] = "open" /\ dreply[_reply] = "working"
                      /\ unread[r] = 0 /\ buffered[r] = 1
  <2>1. ~ overlapped => r \in dwired BY <1>r DEF DownloaderInv, OneAtATime
  <2>2. ~ overlapped => /\ r = _reply /\ r = _file /\ dfile[r] = "open" /\ unread[r] = 0
    BY <2>1 DEF DownloaderInv, OneAtATime
  <2>3. QED BY <1>b, <1>r, <2>1, <2>2
<1>q. \A q \in Downloads : q > downloads => buffered[q] = 0
  BY <1>t, <1>b, <1>r DEF DownloaderInv, Fresh, DownloaderType
<1>k. content \in [Downloads -> [Downloads -> Nat]] /\ fault \in {"none", "null", "dangling"}
      /\ NoForeignBytes /\ fault = "none" /\ short \in SUBSET Downloads
  BY <1>t DEF DownloaderInv, DownloaderType, ReadyRead
<1>2. CASE r \in dwired /\ _file # 0 /\ dreply[_reply] # "gone"
  <2>1. unread' = [buffered EXCEPT ![_reply] = 0] /\ fault' = fault
    BY <1>2 DEF ReadyRead, buffered
  <2>2. _reply \in Downloads /\ _file \in Downloads /\ _file =< downloads
    BY <1>t, <1>2 DEF DownloaderType
  <2>3. unread' \in [Downloads -> Nat]
        /\ \A q \in Downloads : unread'[q] = IF q = _reply THEN 0 ELSE buffered[q]
    BY <1>b, <2>1, <2>2
  <2>4. CASE dfile[_file] = "open"
    <3>1. _file = _reply BY <2>2, <2>4 DEF DownloaderInv, FileOfReply
    <3> DEFINE had == content[_file][_file]
    <3>2. PICK n \in 0 .. buffered[_file] : Keep(_file, _file, had + n, had + buffered[_file])
      BY <1>2, <2>4, <3>1 DEF ReadyRead, buffered
    <3>3. had \in Nat /\ buffered[_file] \in Nat BY <1>b, <1>k, <2>2
    <3> HIDE DEF had
    <3>4. had + n \in Nat /\ had + buffered[_file] \in Nat /\ n \in Nat BY <3>2, <3>3
    <3>5. /\ content' \in [Downloads -> [Downloads -> Nat]] /\ content'[_file][_file] = had + n
          /\ \A g \in Downloads : g # _file => content'[g] = content[g]
          /\ short' \in SUBSET Downloads /\ short \subseteq short'
          /\ had + n < had + buffered[_file] => _file \in short'
          /\ NoForeignBytes'
      BY <1>k, <2>2, <3>2, <3>4, KeepStep
    <3>6. \A f \in Downloads : f # _file \/ f > downloads => content'[f] = content[f]
      BY <1>t, <2>2, <3>5 DEF DownloaderType
    <3>7. ~ overlapped => /\ unread'[r] = 0
                          /\ r \in short' \/ content'[r][r] = content[r][r] + 1
      BY <1>o, <2>3, <3>2, <3>3, <3>5 DEF had
    <3>8. \A q \in Downloads : q > downloads => unread'[q] = 0 BY <1>q, <2>3
    <3>9. QED BY <1>k, <1>1, <2>1, <2>3, <3>5, <3>6, <3>7, <3>8
  <2>5. CASE dfile[_file] # "open"
    <3>1. content' = content /\ short' = short BY <1>2, <2>5 DEF ReadyRead
    <3>2. NoForeignBytes' BY <1>k, <3>1 DEF NoForeignBytes
    <3>3. overlapped BY <1>o, <2>5
    <3>4. \A q \in Downloads : q > downloads => unread'[q] = 0 BY <1>q, <2>3
    <3>5. QED BY <1>k, <1>1, <2>1, <2>3, <3>1, <3>2, <3>3, <3>4
  <2>6. QED BY <2>4, <2>5
<1>3. CASE ~ (r \in dwired /\ _file # 0 /\ dreply[_reply] # "gone")
  <2>1. unread' = buffered /\ content' = content /\ short' = short /\ fault' \in {"none", "dangling"}
    BY <1>3, <1>k DEF ReadyRead, buffered
  <2>2. NoForeignBytes' BY <1>k, <2>1 DEF NoForeignBytes
  <2>3. overlapped BY <1>o, <1>3
  <2>4. QED BY <1>b, <1>k, <1>q, <1>1, <2>1, <2>2, <2>3
<1>4. QED BY <1>2, <1>3

\* A reply ends and _slotFinished runs.
LEMMA FinishedStep ==
    ASSUME DownloaderInv, NEW r \in Downloads, NEW how \in {"ended", "broken"}, Finished(r, how)
    PROVE  DownloaderInv'
           /\ \A f \in Downloads : verdict[f] # "none" =>
                 content'[f] = content[f] /\ verdict'[f] = verdict[f]
<1> USE DownloaderCalls, DownloaderTotal DEF Downloads
<1>t. DownloaderType BY DEF DownloaderInv
<1>u. UNCHANGED <<_reply, downloads, unread, arrived, overlapped>> BY DEF Finished
<1>r. /\ dreply[r] = "working" /\ r \in dwired /\ r =< downloads
      /\ how = "ended" => arrived[r] = Total
      /\ fault = "none"
  BY <1>t DEF Finished, DownloaderType
<1> DEFINE ended == [dreply EXCEPT ![r] = how]
<1>e. /\ ended \in [Downloads -> {"none", "working", "ended", "broken", "gone"}]
      /\ \A q \in Downloads : ended[q] = IF q = r THEN how ELSE dreply[q]
  BY <1>t DEF DownloaderType
<1>s. SlotFinished(ended) BY DEF Finished
<1> HIDE DEF ended
<1>o. ~ overlapped => /\ r = _reply /\ r = _file /\ (r \in short \/ content[r][r] = arrived[r])
                      /\ \A q \in Downloads : dreply[q] = "working" => q = r
                      /\ \A q \in dwired : q = r
  BY <1>r DEF DownloaderInv, OneAtATime
<1>k. /\ unread' \in [Downloads -> Nat] /\ arrived' \in [Downloads -> Nat]
      /\ overlapped' \in BOOLEAN
  <2>1. overlapped' \in BOOLEAN BY <1>t, <1>u DEF DownloaderType
  <2>2. QED BY <1>t, <1>u, <2>1 DEF DownloaderType
<1>1. CASE _file = 0 \/ ended[_reply] = "gone"
  <2>1. /\ fault' \in {"null", "dangling"} /\ dreply' = ended
        /\ UNCHANGED <<_file, dfile, content, short, dwired, verdict>>
    BY <1>1, <1>s DEF SlotFinished
  <2>f. NoForeignBytes' BY <2>1 DEF DownloaderInv, NoForeignBytes
  <2>2. overlapped
    <3>1. how # "gone" OBVIOUS
    <3>2. QED BY <1>1, <1>e, <1>o, <3>1
  <2>3. DownloaderType' BY <1>t, <1>u, <1>k, <1>e, <2>1 DEF DownloaderType
  <2>4. FileOfReply' BY <1>u, <2>1 DEF DownloaderInv, FileOfReply
  <2>5. Fresh' BY <1>t, <1>u, <1>r, <1>e, <2>1 DEF DownloaderInv, Fresh, DownloaderType
  <2>6. OneAtATime' /\ SuccessIsComplete' BY <1>u, <2>2 DEF OneAtATime, SuccessIsComplete
  <2>7. QED BY <1>u, <2>f, <2>1, <2>3, <2>4, <2>5, <2>6 DEF DownloaderInv
<1>2. CASE _file # 0 /\ ended[_reply] # "gone"
  <2>1. /\ dfile' = [dfile EXCEPT ![_file] = "closed"]
        /\ _file' = 0
        /\ dwired' = dwired \ {_reply}
        /\ dreply' = [ended EXCEPT ![_reply] = "gone"]
        /\ verdict' = [verdict EXCEPT ![_file] =
                         IF ended[_reply] = "broken" THEN "failure" ELSE "success"]
        /\ fault' = "none"
    BY <1>2, <1>r, <1>s DEF SlotFinished
  <2>2. _reply \in Downloads /\ _file \in Downloads /\ _file =< downloads /\ _reply =< downloads
    BY <1>t, <1>r, <1>2 DEF DownloaderType
  <2> DEFINE had == content[_file][_reply]
  <2>h. /\ content \in [Downloads -> [Downloads -> Nat]] /\ short \in SUBSET Downloads
        /\ had \in Nat /\ NoForeignBytes /\ (_file # _reply => had = 0)
    BY <1>t, <2>2 DEF DownloaderInv, DownloaderType, NoForeignBytes
  <2>p. PICK n \in 0 .. had : Keep(_file, _reply, n, had) BY <1>2, <1>s DEF SlotFinished
  <2> HIDE DEF had
  <2>m. n \in Nat /\ (_file # _reply => n = 0) BY <2>h, <2>p
  <2>c. /\ content' \in [Downloads -> [Downloads -> Nat]] /\ content'[_file][_reply] = n
        /\ \A g \in Downloads : g # _file => content'[g] = content[g]
        /\ short' \in SUBSET Downloads /\ short \subseteq short' /\ (n < had => _file \in short')
        /\ NoForeignBytes'
    BY <2>2, <2>h, <2>p, <2>m, KeepStep
  <2>3. /\ dfile' \in [Downloads -> {"none", "open", "unopened", "closed"}]
        /\ \A f \in Downloads : dfile'[f] = IF f = _file THEN "closed" ELSE dfile[f]
    BY <1>t, <2>1, <2>2 DEF DownloaderType
  <2>4. /\ dreply' \in [Downloads -> {"none", "working", "ended", "broken", "gone"}]
        /\ \A q \in Downloads : dreply'[q] = IF q = _reply THEN "gone" ELSE ended[q]
    BY <1>e, <2>1, <2>2
  <2>5. /\ verdict' \in [Downloads -> {"none", "success", "failure"}]
        /\ \A f \in Downloads : f # _file => verdict'[f] = verdict[f]
        /\ verdict'[_file] = IF ended[_reply] = "broken" THEN "failure" ELSE "success"
    BY <1>t, <2>1, <2>2 DEF DownloaderType
  <2>6. DownloaderType'
    <3>1. dwired' \in SUBSET Downloads /\ (\A q \in dwired' : q =< downloads') /\ _reply' # 0
      <4>1. dwired \in SUBSET Downloads /\ \A q \in dwired : q =< downloads
        BY <1>t DEF DownloaderType
      <4>2. dwired' \subseteq dwired BY <2>1
      <4>3. _reply' # 0 BY <1>u, <2>2
      <4>4. QED BY <1>u, <4>1, <4>2, <4>3
    <3>2. /\ _file' \in 0 .. MaxDownloads /\ _reply' \in 0 .. MaxDownloads
          /\ downloads' \in 0 .. MaxDownloads /\ _file' =< downloads' /\ _reply' =< downloads'
      BY <1>t, <1>u, <2>1, <2>2 DEF DownloaderType
    <3>3. fault' \in {"none", "null", "dangling"} BY <2>1
    <3>4. QED BY <1>k, <2>c, <2>3, <2>4, <2>5, <3>1, <3>2, <3>3 DEF DownloaderType
  <2>7. \A f \in Downloads : verdict[f] # "none" => f # _file /\ f =< downloads
    BY DEF DownloaderInv, FileOfReply
  <2>8. FileOfReply' BY <1>u, <2>1, <2>2, <2>5, <2>7 DEF FileOfReply
  <2>9. Fresh'
    <3>1. \A q \in Downloads : q > downloads => dreply'[q] = "none"
      <4>1. SUFFICES ASSUME NEW q \in Downloads, q > downloads PROVE dreply'[q] = "none"
        OBVIOUS
      <4>2. downloads \in Nat BY <1>t DEF DownloaderType
      <4>3. q # r /\ q # _reply BY <1>r, <2>2, <4>1, <4>2
      <4>4. dreply[q] = "none" BY <4>1 DEF DownloaderInv, Fresh
      <4>5. QED BY <1>e, <2>4, <4>3, <4>4
    <3>2. \A q \in Downloads : q > downloads => content'[q] = content[q]
      BY <1>t, <2>2, <2>c DEF DownloaderType
    <3>3. QED BY <1>u, <3>1, <3>2 DEF DownloaderInv, Fresh
  <2>10. OneAtATime'
    <3>1. how # "working" OBVIOUS
    <3>2. ~ overlapped => dwired' = {} BY <1>o, <2>1
    <3>3. ~ overlapped => \A q \in Downloads : dreply'[q] # "working"
      BY <1>e, <1>o, <2>4, <3>1
    <3>4. QED BY <1>u, <3>2, <3>3 DEF OneAtATime
  <2>11. SuccessIsComplete'
    <3>1. SUFFICES ASSUME ~ overlapped PROVE SuccessIsComplete' BY <1>u DEF SuccessIsComplete
    <3>2. r = _reply /\ r = _file /\ (r \in short \/ had = arrived[r]) BY <1>o, <3>1 DEF had
    <3>3. ended[_reply] = how BY <1>e, <3>2
    <3>4. verdict'[_file] = "success" => _file \in short' \/ content'[_file][_file] = Total
      <4>1. verdict'[_file] = "success" => arrived[r] = Total BY <1>r, <2>5, <3>3
      <4>2. content'[_file][_file] = n BY <2>c, <3>2
      <4>3. n < had \/ n = had BY <2>h, <2>m, <2>p
      <4>4. n < had => _file \in short' BY <2>c
      <4>5. r \in short => _file \in short' BY <2>c, <3>2
      <4>6. QED BY <3>2, <4>1, <4>2, <4>3, <4>4, <4>5
    <3>5. verdict'[_file] # "none" BY <2>5
    <3>6. /\ \A f \in Downloads : verdict[f] = "success" =>
                dfile[f] = "closed" /\ (f \in short \/ content[f][f] = Total)
          /\ \A f \in Downloads : dreply[f] = "gone" => verdict[f] # "none"
      BY <3>1 DEF DownloaderInv, SuccessIsComplete
    <3>7. \A f \in Downloads : dreply'[f] = "gone" => verdict'[f] # "none"
      BY <1>e, <2>4, <2>5, <3>2, <3>5, <3>6
    <3>8. ASSUME NEW f \in Downloads, verdict'[f] = "success"
          PROVE  dfile'[f] = "closed" /\ (f \in short' \/ content'[f][f] = Total)
      <4>1. CASE f = _file BY <2>3, <3>4, <3>8, <4>1
      <4>2. CASE f # _file BY <2>3, <2>5, <2>c, <3>6, <3>8, <4>2
      <4>3. QED BY <4>1, <4>2
    <3>9. QED BY <2>1, <3>7, <3>8 DEF SuccessIsComplete
  <2>12. QED BY <2>c, <1>u, <2>5, <2>6, <2>7, <2>8, <2>9, <2>10, <2>11 DEF DownloaderInv
<1>3. QED BY <1>1, <1>2

LEMMA DownloaderStep ==
    DownloaderInv /\ [DownloaderNext]_downloadVars =>
        DownloaderInv' /\ \A f \in Downloads : verdict[f] # "none" =>
                              content'[f] = content[f] /\ verdict'[f] = verdict[f]
<1> SUFFICES ASSUME DownloaderInv, [DownloaderNext]_downloadVars
             PROVE  DownloaderInv' /\ \A f \in Downloads : verdict[f] # "none" =>
                                          content'[f] = content[f] /\ verdict'[f] = verdict[f]
  OBVIOUS
<1>1. CASE DownloadNoDir \/ DownloadNoFile \/ DownloadStarts BY <1>1, DownloadSteps
<1>2. CASE \E r \in Downloads : ReadyRead(r) BY <1>2, ReadyReadStep
<1>3. CASE \E r \in Downloads : \E how \in {"ended", "broken"} : Finished(r, how)
  BY <1>3, FinishedStep
<1>4. CASE UNCHANGED downloadVars
  BY <1>4 DEF downloadVars, DownloaderInv, DownloaderType, NoForeignBytes, FileOfReply, Fresh,
              OneAtATime, SuccessIsComplete
<1>5. QED BY <1>1, <1>2, <1>3, <1>4 DEF DownloaderNext

-----------------------------------------------------------------------------
(* Theorems                                                                 *)

LEMMA HttpSafe == HttpSpec => [](UploaderInv /\ DownloaderInv)
<1>1. HttpInit => UploaderInv /\ DownloaderInv
  BY UploaderStarts, DownloaderStarts DEF HttpInit
<1>2. [HttpNext]_httpVars => [UploaderNext]_uploadVars /\ [DownloaderNext]_downloadVars
  BY DEF HttpNext, httpVars
<1>3. UploaderInv /\ DownloaderInv /\ [HttpNext]_httpVars => (UploaderInv /\ DownloaderInv)'
  BY <1>2, UploaderStep, DownloaderStep
<1>4. QED BY <1>1, <1>3, PTL DEF HttpSpec

\* Signals reach the Uploader only from the reply it works on, and isUploading()
\* tells whether that one is unfinished, for any number of calls and however
\* deep the slots nest them.
THEOREM UploaderIsBusyRightly == HttpSpec => []BusyWithCurrentReply
<1>1. UploaderInv => BusyWithCurrentReply BY DEF UploaderInv, UploaderRest
<1>2. QED BY <1>1, HttpSafe, PTL

\* cleanupMultiPart and the delete of line 68 take no file from a reply that is
\* sending, unless it was started below an emission that releases.
THEOREM SendingKeepsFile == HttpSpec => []SendingHasFile
<1>1. UploaderInv => SendingHasFile BY DEF UploaderInv, UploaderRest
<1>2. QED BY <1>1, HttpSafe, PTL

\* No upload is reported twice, and one that is over has been reported unless it
\* was chained.
THEOREM UploadsReportedOnce == HttpSpec => []EachReportedOnce
<1>1. UploaderInv => EachReportedOnce BY DEF UploaderInv, UploaderRest
<1>2. QED BY <1>1, HttpSafe, PTL

\* Whatever overlaps, _slotReadyRead writes to a file only bytes of its own reply.
THEOREM FilesKeepApart == HttpSpec => []NoForeignBytes
<1>1. DownloaderInv => NoForeignBytes BY DEF DownloaderInv
<1>2. QED BY <1>1, HttpSafe, PTL

\* Without overlapping calls, success is reported for a closed file with the whole
\* reply in it, unless a write or a flush to it fell short, and the slots meet no
\* null file and no deleted reply.
THEOREM SuccessSafe == HttpSpec => []SuccessIsComplete
<1>1. DownloaderInv => SuccessIsComplete BY DEF DownloaderInv
<1>2. QED BY <1>1, HttpSafe, PTL

\* _slotFinished is the last to touch a file: no later slot writes to it or
\* reports it again.
THEOREM ReportsAreFinal == HttpSpec => ReportIsFinal
<1>1. DownloaderInv /\ [HttpNext]_httpVars =>
         [\A f \in Downloads : verdict[f] # "none" =>
              content'[f] = content[f] /\ verdict'[f] = verdict[f]]_downloadVars
  <2>1. [HttpNext]_httpVars => [DownloaderNext]_downloadVars BY DEF HttpNext, httpVars
  <2>2. QED BY <2>1, DownloaderStep
<1>2. QED BY <1>1, HttpSafe, PTL DEF HttpSpec, ReportIsFinal
=============================================================================
