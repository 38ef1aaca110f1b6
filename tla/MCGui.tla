-------------------------------- MODULE MCGui --------------------------------
(***************************************************************************)
(* The objects that live in an event loop.  They share nothing, so a        *)
(* behaviour exercises one of them, and the state spaces add up.            *)
(***************************************************************************)
EXTENDS TimedQueue, AutoGrid, Slider, ScreenCapture, Dispatcher

VARIABLE object

\* The mouse, left of the screen's origin too; at ratio 1.15 some of these and of
\* their distances scale to whole pixels, which doubles may miss.
MCCapturePos == {-20, -1, 4}

guiVars == <<object, vars, gridVars, sliderVars, captureVars, dispatchVars>>

GuiInit ==
    /\ object \in {"queue", "grid", "slider", "capture", "dispatcher"}
    /\ Init /\ GridInit /\ SliderInit /\ CaptureInit /\ DispatchInit
    /\ object # "capture" => m_parentWidget = "null" /\ \A r \in CaptureRatios : ratio =< r

GuiNext ==
    /\ UNCHANGED object
    /\ \/ object = "queue" /\ Next
          /\ UNCHANGED <<gridVars, sliderVars, captureVars, dispatchVars>>
       \/ object = "grid" /\ GridNext
          /\ UNCHANGED <<vars, sliderVars, captureVars, dispatchVars>>
       \/ object = "slider" /\ SliderNext
          /\ UNCHANGED <<vars, gridVars, captureVars, dispatchVars>>
       \/ object = "capture" /\ CaptureNext
          /\ UNCHANGED <<vars, gridVars, sliderVars, dispatchVars>>
       \/ object = "dispatcher" /\ DispatchNext
          /\ UNCHANGED <<vars, gridVars, sliderVars, captureVars>>

\* Fairness: the event loop deletes what was closed, time passes and events are
\* delivered.  Users, networks and tasks owe nothing.
EventLoop ==
    \/ object = "capture" /\ CaptureDeleted
       /\ UNCHANGED <<object, vars, gridVars, sliderVars, dispatchVars>>
    \/ object = "dispatcher" /\ LoopRuns
       /\ UNCHANGED <<object, vars, gridVars, sliderVars, captureVars>>

GuiSpec == GuiInit /\ [][GuiNext]_guiVars /\ WF_guiVars(EventLoop)
=============================================================================
