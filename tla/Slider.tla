------------------------------- MODULE Slider -------------------------------
(***************************************************************************)
(* Slider (libqt/ui/slider.cpp): a QSlider that reports how far it moved,   *)
(* with sliderOffseted(offset).  A client that adds the offsets up wants to *)
(* know where the slider is.                                                *)
(***************************************************************************)
EXTENDS Integers

CONSTANTS
    SliderMax,       \* maximum(); minimum() is 0
    SliderStep,      \* singleStep()
    MaxSteps,        \* bound: calls of valueInc and valueDec
    MaxTold          \* bound: the sum of the offsets

\* QAbstractSlider keeps steps non-negative; with a step of zero valueInc() moves
\* nothing.
ASSUME SliderStepAssumption == SliderStep \in Nat \ {0}

VARIABLES
    value,           \* value()
    m_iLastPosition,
    m_bMousePressEnabled,
    dragging,        \* QSlider holds its handle pressed
    told,            \* history: initial value plus all offsets reported
    steps,           \* history: valueInc and valueDec that moved
    past             \* history: who else changed the value: "client" (setValue or a
                     \* page of QSlider), "slot" (from inside sliderOffseted)

sliderVars == <<value, m_iLastPosition, m_bMousePressEnabled, dragging, told, steps, past>>

Values == 0 .. SliderMax

SliderInit ==
    /\ value = 0 /\ m_iLastPosition = 0
    /\ m_bMousePressEnabled = TRUE
    /\ dragging = FALSE
    /\ told = 0 /\ steps = 0
    /\ past = {}

\* QSlider: the press takes the handle, or moves a page towards the pointer.
MousePress ==
    /\ m_bMousePressEnabled
    /\ \/ dragging' = TRUE /\ UNCHANGED <<value, past>>
       \/ /\ value' \in Values \ {value}
          /\ past' = past \cup {"client"}
          /\ UNCHANGED dragging
    /\ UNCHANGED <<m_iLastPosition, m_bMousePressEnabled, told, steps>>

MouseRelease ==
    /\ dragging' = FALSE
    /\ UNCHANGED <<value, m_iLastPosition, m_bMousePressEnabled, told, steps, past>>

\* Mutant of MouseMove: the position is remembered where it is reported only.
MouseMoveForgets(to, set) ==
    /\ to = value \/ dragging
    /\ set = to \/ to # m_iLastPosition
    /\ told' = told + (to - m_iLastPosition)
    /\ value' = set
    /\ past' = IF set = to THEN past ELSE past \cup {"slot"}
    /\ UNCHANGED <<m_iLastPosition, m_bMousePressEnabled, dragging, steps>>

\* QSlider drags the handle to a value; Slider reports the change since
\* m_iLastPosition, to slots that may set the value, and takes up what it is
\* then.
MouseMove(to, set) ==
    /\ to = value \/ dragging
    /\ set = to \/ to # m_iLastPosition
    /\ told' = told + (to - m_iLastPosition)
    /\ told' \in -MaxTold .. MaxTold
    /\ value' = set
    /\ m_iLastPosition' = set
    /\ past' = IF set = to THEN past ELSE past \cup {"slot"}
    /\ UNCHANGED <<m_bMousePressEnabled, dragging, steps>>

SetMousePressEnabled ==
    /\ m_bMousePressEnabled' = ~ m_bMousePressEnabled
    /\ UNCHANGED <<value, m_iLastPosition, dragging, told, steps, past>>

\* QSlider::setValue(), called by a client.
SetValue(v) ==
    /\ v # value
    /\ value' = v
    /\ past' = past \cup {"client"}
    /\ UNCHANGED <<m_iLastPosition, m_bMousePressEnabled, dragging, told, steps>>

IsAllowInc == value + SliderStep =< SliderMax
IsAllowDec == value - SliderStep >= 0

\* valueInc() and valueDec(): m_iLastPosition keeps the position before the step.
Step(by) ==
    /\ steps < MaxSteps
    /\ m_iLastPosition' = value
    /\ value' = value + by
    /\ told' = told + (value' - m_iLastPosition')
    /\ steps' = steps + 1
    /\ UNCHANGED <<m_bMousePressEnabled, dragging, past>>

ValueInc == IsAllowInc /\ Step(SliderStep)
ValueDec == IsAllowDec /\ Step(- SliderStep)

SliderNext ==
    \/ MousePress \/ MouseRelease \/ SetMousePressEnabled
    \/ \E v, w \in Values : MouseMove(v, w)
    \/ \E v \in Values : SetValue(v)
    \/ ValueInc \/ ValueDec

-----------------------------------------------------------------------------
(* Properties                                                               *)

\* The offsets add up to the position of the last mouse move, whoever else set
\* the value, unless a slot of the report itself does: its change is taken up
\* unreported.  Each step of valueInc or valueDec may be reported a second time
\* by a later mouse move: if nobody else sets the value, a client is off by
\* whole steps, and by no more than there were.
OffsetsAddUp ==
    LET drift == told - m_iLastPosition
    IN  /\ steps = 0 /\ "slot" \notin past => drift = 0
        /\ past = {} => /\ drift % SliderStep = 0
                        /\ drift \in -(SliderStep * steps) .. SliderStep * steps
=============================================================================
