---------------------------- MODULE ScreenCapture ----------------------------
(***************************************************************************)
(* ScreenCapture (libqt/util/screencapture.cpp): start() hides the parent   *)
(* window and, after a delay, shows a picture of the screen on top of       *)
(* everything, where the user drags a rectangle.  The widget closes after   *)
(* the first release or on Escape, is deleted by the event loop, and the    *)
(* destructor shows the parent again.                                       *)
(***************************************************************************)
EXTENDS Integers, Sequences

CONSTANTS
    CapturePos,      \* coordinates of the mouse, which may have left the screen
    CaptureRatios,   \* devicePixelRatioF(), in hundredths
    MaxStarts        \* bound: calls of start()

ASSUME CapturePosAssumption   == CapturePos \subseteq Int
ASSUME CaptureRatioAssumption == CaptureRatios \subseteq Nat

VARIABLES
    m_parentWidget,  \* "shown", "hidden", "null" (destroyed, or never given)
    window,          \* "hidden", "shown", "gone"
    closing,         \* close() was called: the event loop will delete the widget
    timers,          \* single-shot timers running
    fullScreenPixmap,    \* "null", "clean", "covered" (the widget is on it)
    isDrawing, originPos, currentPos,
    ratio,
    starts,          \* history: calls of start()
    shots            \* history: what SignalImageCaptured carried

captureVars == <<m_parentWidget, window, closing, timers, fullScreenPixmap, isDrawing,
                 originPos, currentPos, ratio, starts, shots>>
selectVars  == <<isDrawing, originPos, currentPos>>

Points == [x : CapturePos, y : CapturePos]

CaptureInit ==
    /\ m_parentWidget \in {"shown", "null"}
    /\ window = "hidden"
    /\ closing = FALSE
    /\ timers = 0
    /\ fullScreenPixmap = "null"
    /\ isDrawing = FALSE
    /\ \E p \in Points : originPos = p /\ currentPos = p /\ \A q \in Points : p.x =< q.x /\ p.y =< q.y
    /\ ratio \in CaptureRatios
    /\ starts = 0
    /\ shots = <<>>

\* start(): nothing says that the widget is already on its way.
CaptureStart ==
    /\ window # "gone"
    /\ starts < MaxStarts
    /\ starts' = starts + 1
    /\ timers' = timers + 1
    /\ m_parentWidget' = IF m_parentWidget = "null" THEN "null" ELSE "hidden"
    /\ UNCHANGED <<window, closing, fullScreenPixmap, selectVars, ratio, shots>>

\* The timer's lambda: grab the screen as it is, if there is one, and show.
CaptureShow(screen) ==
    /\ timers > 0 /\ window # "gone"
    /\ timers' = timers - 1
    /\ fullScreenPixmap' = CASE ~ screen -> fullScreenPixmap
                             [] screen /\ window = "shown" -> "covered"
                             [] OTHER -> "clean"
    /\ window' = "shown"
    /\ UNCHANGED <<m_parentWidget, closing, selectVars, ratio, starts, shots>>

\* The parent is destroyed meanwhile; QPointer notices.
ParentGone ==
    /\ m_parentWidget' = "null"
    /\ UNCHANGED <<window, closing, timers, fullScreenPixmap, selectVars, ratio, starts, shots>>

\* The left button; other buttons change nothing.
CapturePress(p) ==
    /\ window = "shown"
    /\ originPos' = p /\ currentPos' = p
    /\ isDrawing' = TRUE
    /\ UNCHANGED <<m_parentWidget, window, closing, timers, fullScreenPixmap, ratio, starts, shots>>

CaptureMove(p) ==
    /\ window = "shown"
    /\ isDrawing
    /\ currentPos' = p
    /\ UNCHANGED <<m_parentWidget, window, closing, timers, fullScreenPixmap, isDrawing,
                   originPos, ratio, starts, shots>>

\* One direction of QRect(a, b).normalized(): the last pixel belongs to the
\* rectangle; of a backward one neither end does.
Span(a, b) == IF b < a THEN [from |-> b + 1, width |-> a - b - 1]
                       ELSE [from |-> a, width |-> b - a + 1]

\* int(a * ratio), the product being that of doubles: cut towards zero, and one
\* less when the product is whole but the ratio is no double, 1.15 say, and comes
\* out too small.  Multiples of a quarter are doubles.
Scaled(a) ==
    LET p    == a * ratio
        size == IF p < 0 THEN (-p) \div 100 ELSE p \div 100
        less == IF p % 100 = 0 /\ ratio % 25 # 0 /\ p # 0 THEN size - 1 ELSE size
    IN  IF p < 0 THEN {-size, -less} ELSE {size, less}

\* Mutant of TargetRect: the far corner is scaled instead of the width.
TargetOfCorner(s) == [from : Scaled(s.from), width : Scaled(s.from + s.width + 1)]

\* The part of the pixmap that paintEvent() draws in the selection and the
\* release copies, in device pixels: one of these.
TargetRect(s) == [from : Scaled(s.from), width : Scaled(s.width)]

\* QWidget::close() with WA_DeleteOnClose.
Close == window' = "hidden" /\ closing' = TRUE

\* The release ends at the last move, and closes whatever was selected.
CaptureRelease ==
    LET w == Span(originPos.x, currentPos.x)
        h == Span(originPos.y, currentPos.y)
    IN  /\ window = "shown" /\ isDrawing
        /\ isDrawing' = FALSE
        /\ IF w.width > 5 /\ h.width > 5
           THEN \E x \in TargetRect(w), y \in TargetRect(h) :
                   shots' = Append(shots, [image |-> fullScreenPixmap, x |-> x, y |-> y,
                                           from |-> originPos, to |-> currentPos])
           ELSE shots' = shots
        /\ Close
        /\ UNCHANGED <<m_parentWidget, timers, fullScreenPixmap, originPos, currentPos, ratio, starts>>

CaptureEscape ==
    /\ window = "shown"
    /\ Close
    /\ UNCHANGED <<m_parentWidget, timers, fullScreenPixmap, selectVars, ratio, starts, shots>>

\* Mutant of CaptureDeleted: the destructor leaves the parent as it is.
CaptureDeletedOnly ==
    /\ closing /\ window # "gone"
    /\ window' = "gone"
    /\ timers' = 0
    /\ UNCHANGED <<m_parentWidget, closing, fullScreenPixmap, selectVars, ratio, starts, shots>>

\* The event loop deletes the widget, which may have been shown again by then;
\* its timers go with it.
CaptureDeleted ==
    /\ closing /\ window # "gone"
    /\ window' = "gone"
    /\ timers' = 0
    /\ m_parentWidget' = IF m_parentWidget = "null" THEN "null" ELSE "shown"
    /\ UNCHANGED <<closing, fullScreenPixmap, selectVars, ratio, starts, shots>>

CaptureNext ==
    \/ CaptureStart \/ ParentGone \/ CaptureEscape \/ CaptureRelease \/ CaptureDeleted
    \/ \E screen \in BOOLEAN : CaptureShow(screen)
    \/ \E p \in Points : CapturePress(p) \/ CaptureMove(p)

-----------------------------------------------------------------------------
(* Properties                                                               *)

\* One direction of a picture, to within one device pixel: inside the pixels
\* between the press and the last move, and all of them but the ends of a
\* backward drag.
Covers(rect, a, b) ==
    LET lo == IF a < b THEN a ELSE b
        hi == IF a < b THEN b ELSE a
    IN  /\ (rect.from + 1) * 100 >= lo * ratio
        /\ (rect.from + rect.width - 1) * 100 =< (hi + 1) * ratio
        /\ (rect.width + 1) * 100 >= (hi - lo - 1) * ratio

\* SignalImageCaptured carries the part of the screen the user selected, to
\* within one device pixel, in whichever direction, also from outside the screen,
\* and also at ratios that are no doubles; and it comes at most once per start().
\* Only a second start() can put the widget itself on the picture or yield a
\* second one.
CaptureIsTheSelection ==
    /\ \A i \in DOMAIN shots : Covers(shots[i].x, shots[i].from.x, shots[i].to.x)
                            /\ Covers(shots[i].y, shots[i].from.y, shots[i].to.y)
    /\ Len(shots) =< starts
    /\ \A i \in DOMAIN shots : shots[i].image = "covered" => starts > 1

\* A widget that was closed goes, and then the parent is not left hidden, even
\* if start() is called once more, or a late timer shows the widget again,
\* between close() and the deletion.
ParentComesBack == closing ~> (window = "gone" /\ m_parentWidget # "hidden")
=============================================================================
