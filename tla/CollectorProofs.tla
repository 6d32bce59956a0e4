--------------------------- MODULE CollectorProofs ---------------------------
(* Theorems about Collector, for every set of channels and every bound, and   *)
(* their proofs.                                                              *)
EXTENDS Collector, TLAPS

Pending(s) ==
    \/ rebuild \/ ui = "flagRebuild"
    \/ s # "collector" /\ (reload \/ ui = "flagReload")

\* What was loaded and not yet built from: if the file has moved on since,
\* the writer's request is still standing.
LoadedInv ==
    col \in {"first", "build"} =>
        \A s \in {"collector", "alerts"} : loaded[s] # file[s] => Pending(s)

\* A request made from the panel carries its wake with it.
RebuildWakes ==
    rebuild => woken \/ ui = "wake" \/ col \in {"start", "first", "testRebuild", "dead"}

UiWriting == ui \in {"flagRebuild", "flagReload", "wake"}

AlertsWake ==
    /\ Stale("alerts") /\ "alerts" \notin dropped =>
        \/ UiWriting \/ woken
        \/ col \in {"start", "first", "testRebuild", "clearReload", "load",
                    "build", "reloading", "dead"}
        \/ col = "testReload" /\ reload
    /\ col = "build" /\ loaded["alerts"] # file["alerts"] => UiWriting \/ woken

\* With both flags up and nobody about to send a wake, the pass under way has
\* read them, or will.
GaugeInv ==
    visible /\ registryTab /\ ~woken /\ main # "wake" /\ ui \notin {"checkVisible", "wake"} =>
        /\ col = "readTab" => sawVisible
        /\ col \in {"tick", "chooseWait", "wait"} => on = allowed

SeenInv ==
    /\ visible => "visible" \in seen
    /\ registryTab => "tab" \in seen
    /\ col = "readTab" /\ sawVisible => "visible" \in seen
    /\ col = "tick" /\ on # {} => {"visible", "tab"} \subseteq seen

IndInv ==
    /\ TypeOK
    /\ NoRequestSwallowed
    /\ LoadedInv
    /\ RebuildWakes
    /\ AlertsWake
    /\ GaugeInv
    /\ ShownWakes
    /\ SeenInv

USE DEF asked, flags, pace, local, sampler, history, others, Stale

LEMMA InitIndInv == Init => IndInv
  <1> SUFFICES ASSUME Init PROVE IndInv
    OBVIOUS
  <1>1. TypeOK
    BY DEF Init, TypeOK, FilesTyped, FlagsTyped, StepsTyped, HistoryTyped, Sections,
           ColSteps, UiSteps
  <1>2. \A s : ~Stale(s) \/ s \notin Sections
    BY DEF Init
  <1>3. NoRequestSwallowed /\ LoadedInv /\ AlertsWake
    BY DEF Init, NoRequestSwallowed, UnderWay, Rebuilding, LoadedInv, AlertsWake, Sections
  <1>4. RebuildWakes /\ GaugeInv /\ ShownWakes /\ SeenInv
    BY DEF Init, RebuildWakes, GaugeInv, ShownWakes, SeenInv
  <1> QED
    BY <1>1, <1>3, <1>4 DEF IndInv

LEMMA TypeNext == TypeOK /\ [Next]_vars => TypeOK'
  <1> SUFFICES ASSUME TypeOK, [Next]_vars PROVE TypeOK'
    OBVIOUS
  <1> USE DEF TypeOK, FilesTyped, FlagsTyped, StepsTyped, HistoryTyped
  <1>1. CASE GiveUp
    <2>1. FilesTyped' /\ HistoryTyped'
      BY <1>1 DEF GiveUp, CanFail
    <2>2. FlagsTyped'
      BY <1>1 DEF GiveUp, CanFail
    <2>3. StepsTyped'
      BY <1>1 DEF GiveUp, CanFail, ColSteps, UiSteps
    <2> QED
      BY <2>1, <2>2, <2>3
  <1>2. CASE FirstLoad
    BY <1>2 DEF FirstLoad, ColSteps, UiSteps
  <1>3. CASE FirstMonitor
    BY <1>3 DEF FirstMonitor, ColSteps, UiSteps, Sections
  <1>4. CASE TestRebuild
    <2>1. FilesTyped' /\ HistoryTyped'
      BY <1>4 DEF TestRebuild
    <2>2. FlagsTyped'
      BY <1>4 DEF TestRebuild
    <2>3. StepsTyped'
      BY <1>4 DEF TestRebuild, ColSteps, UiSteps
    <2> QED
      BY <2>1, <2>2, <2>3
  <1>5. CASE ClearReload
    <2>1. FilesTyped' /\ HistoryTyped'
      BY <1>5 DEF ClearReload
    <2>2. FlagsTyped'
      BY <1>5 DEF ClearReload
    <2>3. StepsTyped'
      BY <1>5 DEF ClearReload, ColSteps, UiSteps
    <2> QED
      BY <2>1, <2>2, <2>3
  <1>6. CASE LoadFile
    <2>1. FilesTyped' /\ HistoryTyped'
      <3>1. FilesTyped'
        BY <1>6 DEF LoadFile, CanFail, Sections
      <3>2. (writes \in Nat /\ errors \in Nat /\ seen \subseteq {"visible", "tab"})'
        BY <1>6 DEF LoadFile, CanFail
      <3>3. (dropped \subseteq Sections)'
        BY <1>6 DEF LoadFile, CanFail, Sections
      <3> QED
        BY <3>1, <3>2, <3>3
    <2>2. FlagsTyped'
      BY <1>6 DEF LoadFile, CanFail
    <2>3. StepsTyped'
      BY <1>6 DEF LoadFile, CanFail, ColSteps, UiSteps
    <2> QED
      BY <2>1, <2>2, <2>3
  <1>7. CASE BuildMonitor
    <2>1. FilesTyped' /\ HistoryTyped'
      BY <1>7 DEF BuildMonitor, CanFail, Sections
    <2>2. FlagsTyped'
      BY <1>7 DEF BuildMonitor, CanFail
    <2>3. StepsTyped'
      BY <1>7 DEF BuildMonitor, CanFail, ColSteps, UiSteps
    <2> QED
      BY <2>1, <2>2, <2>3
  <1>8. CASE TestReload
    <2>1. FilesTyped' /\ HistoryTyped'
      BY <1>8 DEF TestReload
    <2>2. FlagsTyped'
      BY <1>8 DEF TestReload
    <2>3. StepsTyped'
      BY <1>8 DEF TestReload, ColSteps, UiSteps
    <2> QED
      BY <2>1, <2>2, <2>3
  <1>9. CASE Reload
    <2>1. FilesTyped' /\ HistoryTyped'
      <3>1. FilesTyped'
        BY <1>9 DEF Reload, CanFail, Sections
      <3>2. (writes \in Nat /\ errors \in Nat /\ seen \subseteq {"visible", "tab"})'
        BY <1>9 DEF Reload, CanFail
      <3>3. (dropped \subseteq Sections)'
        BY <1>9 DEF Reload, CanFail, Sections
      <3> QED
        BY <3>1, <3>2, <3>3
    <2>2. FlagsTyped'
      BY <1>9 DEF Reload, CanFail
    <2>3. StepsTyped'
      BY <1>9 DEF Reload, CanFail, ColSteps, UiSteps
    <2> QED
      BY <2>1, <2>2, <2>3
  <1>10. CASE ReadVisible
    BY <1>10 DEF ReadVisible, ColSteps, UiSteps
  <1>11. CASE SwitchChannels
    BY <1>11 DEF SwitchChannels, ColSteps, UiSteps
  <1>12. CASE Tick
    BY <1>12 DEF Tick, FlagsUp, ColSteps, UiSteps
  <1>13. CASE ChooseWait
    BY <1>13 DEF ChooseWait, ColSteps, UiSteps
  <1>14. CASE WakeEarly
    <2>1. FilesTyped' /\ HistoryTyped'
      BY <1>14 DEF WakeEarly
    <2>2. FlagsTyped'
      BY <1>14 DEF WakeEarly
    <2>3. StepsTyped'
      BY <1>14 DEF WakeEarly, ColSteps, UiSteps
    <2> QED
      BY <2>1, <2>2, <2>3
  <1>15. CASE TimeOut
    BY <1>15 DEF TimeOut, ColSteps, UiSteps
  <1>16. CASE WriteCollector
    BY <1>16 DEF WriteCollector, Write, ColSteps, UiSteps, Sections
  <1>17. CASE WriteAlerts
    BY <1>17 DEF WriteAlerts, Write, ColSteps, UiSteps, Sections
  <1>18. CASE ResetSettings
    BY <1>18 DEF ResetSettings, Write, ColSteps, UiSteps, Sections
  <1>19. CASE RequestRebuild
    BY <1>19 DEF RequestRebuild, ColSteps, UiSteps
  <1>20. CASE RequestReload
    BY <1>20 DEF RequestReload, ColSteps, UiSteps
  <1>21. CASE UiWake
    BY <1>21 DEF UiWake, SendWake, ColSteps, UiSteps
  <1>22. CASE TabSelected
    BY <1>22 DEF TabSelected, SelectTab, ColSteps, UiSteps
  <1>23. CASE CheckVisible
    BY <1>23 DEF CheckVisible, ColSteps, UiSteps
  <1>24. CASE WriteTemplate
    BY <1>24 DEF WriteTemplate, ColSteps, UiSteps, Sections
  <1>25. CASE RequestTemplate
    BY <1>25 DEF RequestTemplate, ColSteps, UiSteps
  <1>26. CASE Shown
    BY <1>26 DEF Shown, ColSteps, UiSteps
  <1>27. CASE ShownWake
    BY <1>27 DEF ShownWake, SendWake, ColSteps, UiSteps
  <1>28. CASE Hidden
    <2>1. FilesTyped' /\ HistoryTyped'
      BY <1>28 DEF Hidden
    <2>2. FlagsTyped'
      BY <1>28 DEF Hidden
    <2>3. StepsTyped'
      BY <1>28 DEF Hidden, ColSteps, UiSteps
    <2> QED
      BY <2>1, <2>2, <2>3
  <1>29. CASE AskedWake
    BY <1>29 DEF AskedWake, SendWake, ColSteps, UiSteps
  <1>30. CASE UNCHANGED vars
    BY <1>30 DEF vars
  <1> QED
    BY <1>1, <1>2, <1>3, <1>4, <1>5, <1>6, <1>7, <1>8, <1>9, <1>10, <1>11, <1>12, <1>13, <1>14, <1>15, <1>16, <1>17, <1>18, <1>19, <1>20, <1>21, <1>22, <1>23, <1>24, <1>25, <1>26, <1>27, <1>28, <1>29, <1>30
    DEF Next, CollectorStep, UiStep, MainStep, TemplateStep

LEMMA NextIndInv == IndInv /\ [Next]_vars => IndInv'
  <1> SUFFICES ASSUME IndInv, [Next]_vars PROVE IndInv'
    OBVIOUS
  <1>0. TypeOK /\ TypeOK'
    BY TypeNext DEF IndInv
  <1> USE DEF IndInv, TypeOK, FilesTyped, FlagsTyped, StepsTyped, HistoryTyped,
             Sections, ColSteps, UiSteps
  <1>1. CASE GiveUp
    <2>1. NoRequestSwallowed' /\ LoadedInv'
      BY <1>1, SMTT(30) DEF GiveUp, CanFail, NoRequestSwallowed, UnderWay, Rebuilding, Reloading,
             LoadedInv, Pending
    <2>2. RebuildWakes' /\ ShownWakes'
      BY <1>1, SMTT(30) DEF GiveUp, CanFail, RebuildWakes, ShownWakes
    <2>3. AlertsWake'
      BY <1>1, SMTT(30) DEF GiveUp, CanFail, AlertsWake, UiWriting, NoRequestSwallowed, UnderWay, Rebuilding,
             Reloading, RebuildWakes
    <2>4. GaugeInv' /\ SeenInv'
      BY <1>1, SMTT(30) DEF GiveUp, CanFail, GaugeInv, SeenInv
    <2> QED
      BY <1>0, <2>1, <2>2, <2>3, <2>4 DEF IndInv
  <1>2. CASE FirstLoad
    BY <1>2, <1>0, SMTT(60) DEF FirstLoad, NoRequestSwallowed, UnderWay, Rebuilding, Reloading,
             LoadedInv, Pending, RebuildWakes, ShownWakes, AlertsWake, UiWriting, GaugeInv,
           SeenInv
  <1>3. CASE FirstMonitor
    BY <1>3, <1>0, SMTT(60) DEF FirstMonitor, NoRequestSwallowed, UnderWay, Rebuilding, Reloading,
             LoadedInv, Pending, RebuildWakes, ShownWakes, AlertsWake, UiWriting, GaugeInv,
           SeenInv
  <1>4. CASE TestRebuild
    <2>1. NoRequestSwallowed' /\ LoadedInv'
      BY <1>4, SMTT(30) DEF TestRebuild, NoRequestSwallowed, UnderWay, Rebuilding, Reloading,
             LoadedInv, Pending
    <2>2. RebuildWakes' /\ ShownWakes'
      BY <1>4, SMTT(30) DEF TestRebuild, RebuildWakes, ShownWakes
    <2>3. AlertsWake'
      BY <1>4, SMTT(30) DEF TestRebuild, AlertsWake, UiWriting, NoRequestSwallowed, UnderWay, Rebuilding,
             Reloading, RebuildWakes
    <2>4. GaugeInv' /\ SeenInv'
      BY <1>4, SMTT(30) DEF TestRebuild, GaugeInv, SeenInv
    <2> QED
      BY <1>0, <2>1, <2>2, <2>3, <2>4 DEF IndInv
  <1>5. CASE ClearReload
    <2>1. NoRequestSwallowed' /\ LoadedInv'
      BY <1>5, SMTT(30) DEF ClearReload, NoRequestSwallowed, UnderWay, Rebuilding, Reloading,
             LoadedInv, Pending
    <2>2. RebuildWakes' /\ ShownWakes'
      BY <1>5, SMTT(30) DEF ClearReload, RebuildWakes, ShownWakes
    <2>3. AlertsWake'
      BY <1>5, SMTT(30) DEF ClearReload, AlertsWake, UiWriting, NoRequestSwallowed, UnderWay, Rebuilding,
             Reloading, RebuildWakes
    <2>4. GaugeInv' /\ SeenInv'
      BY <1>5, SMTT(30) DEF ClearReload, GaugeInv, SeenInv
    <2> QED
      BY <1>0, <2>1, <2>2, <2>3, <2>4 DEF IndInv
  <1>6. CASE LoadFile
    <2>1. NoRequestSwallowed' /\ LoadedInv'
      BY <1>6, SMTT(30) DEF LoadFile, CanFail, NoRequestSwallowed, UnderWay, Rebuilding, Reloading,
             LoadedInv, Pending
    <2>2. RebuildWakes' /\ ShownWakes'
      BY <1>6, SMTT(30) DEF LoadFile, CanFail, RebuildWakes, ShownWakes
    <2>3. AlertsWake'
      BY <1>6, SMTT(30) DEF LoadFile, CanFail, AlertsWake, UiWriting, NoRequestSwallowed, UnderWay, Rebuilding,
             Reloading, RebuildWakes
    <2>4. GaugeInv' /\ SeenInv'
      BY <1>6, SMTT(30) DEF LoadFile, CanFail, GaugeInv, SeenInv
    <2> QED
      BY <1>0, <2>1, <2>2, <2>3, <2>4 DEF IndInv
  <1>7. CASE BuildMonitor
    <2>1. NoRequestSwallowed' /\ LoadedInv'
      BY <1>7, SMTT(30) DEF BuildMonitor, CanFail, NoRequestSwallowed, UnderWay, Rebuilding, Reloading,
             LoadedInv, Pending
    <2>2. RebuildWakes' /\ ShownWakes'
      BY <1>7, SMTT(30) DEF BuildMonitor, CanFail, RebuildWakes, ShownWakes
    <2>3. AlertsWake'
      BY <1>7, SMTT(30) DEF BuildMonitor, CanFail, AlertsWake, UiWriting, NoRequestSwallowed, UnderWay, Rebuilding,
             Reloading, RebuildWakes
    <2>4. GaugeInv' /\ SeenInv'
      BY <1>7, SMTT(30) DEF BuildMonitor, CanFail, GaugeInv, SeenInv
    <2> QED
      BY <1>0, <2>1, <2>2, <2>3, <2>4 DEF IndInv
  <1>8. CASE TestReload
    <2>1. NoRequestSwallowed' /\ LoadedInv'
      BY <1>8, SMTT(30) DEF TestReload, NoRequestSwallowed, UnderWay, Rebuilding, Reloading,
             LoadedInv, Pending
    <2>2. RebuildWakes' /\ ShownWakes'
      BY <1>8, SMTT(30) DEF TestReload, RebuildWakes, ShownWakes
    <2>3. AlertsWake'
      BY <1>8, SMTT(30) DEF TestReload, AlertsWake, UiWriting, NoRequestSwallowed, UnderWay, Rebuilding,
             Reloading, RebuildWakes
    <2>4. GaugeInv' /\ SeenInv'
      BY <1>8, SMTT(30) DEF TestReload, GaugeInv, SeenInv
    <2> QED
      BY <1>0, <2>1, <2>2, <2>3, <2>4 DEF IndInv
  <1>9. CASE Reload
    <2>1. NoRequestSwallowed' /\ LoadedInv'
      BY <1>9, SMTT(30) DEF Reload, CanFail, NoRequestSwallowed, UnderWay, Rebuilding, Reloading,
             LoadedInv, Pending
    <2>2. RebuildWakes' /\ ShownWakes'
      BY <1>9, SMTT(30) DEF Reload, CanFail, RebuildWakes, ShownWakes
    <2>3. AlertsWake'
      BY <1>9, SMTT(30) DEF Reload, CanFail, AlertsWake, UiWriting, NoRequestSwallowed, UnderWay, Rebuilding,
             Reloading, RebuildWakes
    <2>4. GaugeInv' /\ SeenInv'
      BY <1>9, SMTT(30) DEF Reload, CanFail, GaugeInv, SeenInv
    <2> QED
      BY <1>0, <2>1, <2>2, <2>3, <2>4 DEF IndInv
  <1>10. CASE ReadVisible
    BY <1>10, <1>0, SMTT(60) DEF ReadVisible, NoRequestSwallowed, UnderWay, Rebuilding, Reloading,
             LoadedInv, Pending, RebuildWakes, ShownWakes, AlertsWake, UiWriting, GaugeInv,
           SeenInv
  <1>11. CASE SwitchChannels
    BY <1>11, <1>0, SMTT(60) DEF SwitchChannels, NoRequestSwallowed, UnderWay, Rebuilding, Reloading,
             LoadedInv, Pending, RebuildWakes, ShownWakes, AlertsWake, UiWriting, GaugeInv,
           SeenInv
  <1>12. CASE Tick
    BY <1>12, <1>0, SMTT(60) DEF Tick, FlagsUp, NoRequestSwallowed, UnderWay, Rebuilding, Reloading,
             LoadedInv, Pending, RebuildWakes, ShownWakes, AlertsWake, UiWriting, GaugeInv,
           SeenInv
  <1>13. CASE ChooseWait
    BY <1>13, <1>0, SMTT(60) DEF ChooseWait, NoRequestSwallowed, UnderWay, Rebuilding, Reloading,
             LoadedInv, Pending, RebuildWakes, ShownWakes, AlertsWake, UiWriting, GaugeInv,
           SeenInv
  <1>14. CASE WakeEarly
    <2>1. NoRequestSwallowed' /\ LoadedInv'
      BY <1>14, SMTT(30) DEF WakeEarly, NoRequestSwallowed, UnderWay, Rebuilding, Reloading,
             LoadedInv, Pending
    <2>2. RebuildWakes' /\ ShownWakes'
      BY <1>14, SMTT(30) DEF WakeEarly, RebuildWakes, ShownWakes
    <2>3. AlertsWake'
      BY <1>14, SMTT(30) DEF WakeEarly, AlertsWake, UiWriting, NoRequestSwallowed, UnderWay, Rebuilding,
             Reloading, RebuildWakes
    <2>4. GaugeInv' /\ SeenInv'
      BY <1>14, SMTT(30) DEF WakeEarly, GaugeInv, SeenInv
    <2> QED
      BY <1>0, <2>1, <2>2, <2>3, <2>4 DEF IndInv
  <1>15. CASE TimeOut
    BY <1>15, <1>0, SMTT(60) DEF TimeOut, NoRequestSwallowed, UnderWay, Rebuilding, Reloading,
             LoadedInv, Pending, RebuildWakes, ShownWakes, AlertsWake, UiWriting, GaugeInv,
           SeenInv
  <1>16. CASE WriteCollector
    BY <1>16, <1>0, SMTT(60) DEF WriteCollector, Write, NoRequestSwallowed, UnderWay, Rebuilding, Reloading,
             LoadedInv, Pending, RebuildWakes, ShownWakes, AlertsWake, UiWriting, GaugeInv,
           SeenInv
  <1>17. CASE WriteAlerts
    BY <1>17, <1>0, SMTT(60) DEF WriteAlerts, Write, NoRequestSwallowed, UnderWay, Rebuilding, Reloading,
             LoadedInv, Pending, RebuildWakes, ShownWakes, AlertsWake, UiWriting, GaugeInv,
           SeenInv
  <1>18. CASE ResetSettings
    BY <1>18, <1>0, SMTT(60) DEF ResetSettings, Write, NoRequestSwallowed, UnderWay, Rebuilding, Reloading,
             LoadedInv, Pending, RebuildWakes, ShownWakes, AlertsWake, UiWriting, GaugeInv,
           SeenInv
  <1>19. CASE RequestRebuild
    BY <1>19, <1>0, SMTT(60) DEF RequestRebuild, NoRequestSwallowed, UnderWay, Rebuilding, Reloading,
             LoadedInv, Pending, RebuildWakes, ShownWakes, AlertsWake, UiWriting, GaugeInv,
           SeenInv
  <1>20. CASE RequestReload
    BY <1>20, <1>0, SMTT(60) DEF RequestReload, NoRequestSwallowed, UnderWay, Rebuilding, Reloading,
             LoadedInv, Pending, RebuildWakes, ShownWakes, AlertsWake, UiWriting, GaugeInv,
           SeenInv
  <1>21. CASE UiWake
    BY <1>21, <1>0, SMTT(60) DEF UiWake, SendWake, NoRequestSwallowed, UnderWay, Rebuilding, Reloading,
             LoadedInv, Pending, RebuildWakes, ShownWakes, AlertsWake, UiWriting, GaugeInv,
           SeenInv
  <1>22. CASE TabSelected
    BY <1>22, <1>0, SMTT(60) DEF TabSelected, SelectTab, NoRequestSwallowed, UnderWay, Rebuilding, Reloading,
             LoadedInv, Pending, RebuildWakes, ShownWakes, AlertsWake, UiWriting, GaugeInv,
           SeenInv
  <1>23. CASE CheckVisible
    BY <1>23, <1>0, SMTT(60) DEF CheckVisible, NoRequestSwallowed, UnderWay, Rebuilding, Reloading,
             LoadedInv, Pending, RebuildWakes, ShownWakes, AlertsWake, UiWriting, GaugeInv,
           SeenInv
  <1>24. CASE WriteTemplate
    BY <1>24, <1>0, SMTT(60) DEF WriteTemplate, NoRequestSwallowed, UnderWay, Rebuilding, Reloading,
             LoadedInv, Pending, RebuildWakes, ShownWakes, AlertsWake, UiWriting, GaugeInv,
           SeenInv
  <1>25. CASE RequestTemplate
    BY <1>25, <1>0, SMTT(60) DEF RequestTemplate, NoRequestSwallowed, UnderWay, Rebuilding, Reloading,
             LoadedInv, Pending, RebuildWakes, ShownWakes, AlertsWake, UiWriting, GaugeInv,
           SeenInv
  <1>26. CASE Shown
    BY <1>26, <1>0, SMTT(60) DEF Shown, NoRequestSwallowed, UnderWay, Rebuilding, Reloading,
             LoadedInv, Pending, RebuildWakes, ShownWakes, AlertsWake, UiWriting, GaugeInv,
           SeenInv
  <1>27. CASE ShownWake
    BY <1>27, <1>0, SMTT(60) DEF ShownWake, SendWake, NoRequestSwallowed, UnderWay, Rebuilding, Reloading,
             LoadedInv, Pending, RebuildWakes, ShownWakes, AlertsWake, UiWriting, GaugeInv,
           SeenInv
  <1>28. CASE Hidden
    <2>1. NoRequestSwallowed' /\ LoadedInv'
      BY <1>28, SMTT(30) DEF Hidden, NoRequestSwallowed, UnderWay, Rebuilding, Reloading,
             LoadedInv, Pending
    <2>2. RebuildWakes' /\ ShownWakes'
      BY <1>28, SMTT(30) DEF Hidden, RebuildWakes, ShownWakes
    <2>3. AlertsWake'
      BY <1>28, SMTT(30) DEF Hidden, AlertsWake, UiWriting, NoRequestSwallowed, UnderWay, Rebuilding,
             Reloading, RebuildWakes
    <2>4. GaugeInv' /\ SeenInv'
      BY <1>28, SMTT(30) DEF Hidden, GaugeInv, SeenInv
    <2> QED
      BY <1>0, <2>1, <2>2, <2>3, <2>4 DEF IndInv
  <1>29. CASE AskedWake
    BY <1>29, <1>0, SMTT(60) DEF AskedWake, SendWake, NoRequestSwallowed, UnderWay, Rebuilding, Reloading,
             LoadedInv, Pending, RebuildWakes, ShownWakes, AlertsWake, UiWriting, GaugeInv,
           SeenInv
  <1>30. CASE UNCHANGED vars
    BY <1>30, <1>0, SMTT(60) DEF vars, NoRequestSwallowed, UnderWay, Rebuilding, Reloading,
             LoadedInv, Pending, RebuildWakes, ShownWakes, AlertsWake, UiWriting, GaugeInv, SeenInv
  <1> QED
    BY <1>1, <1>2, <1>3, <1>4, <1>5, <1>6, <1>7, <1>8, <1>9, <1>10, <1>11, <1>12, <1>13, <1>14, <1>15, <1>16, <1>17, <1>18, <1>19, <1>20, <1>21, <1>22, <1>23, <1>24, <1>25, <1>26, <1>27, <1>28, <1>29, <1>30
    DEF Next, CollectorStep, UiStep, MainStep, TemplateStep

(* The running Monitor is never left behind a file without a request, a       *)
(* write or a logged error to account for it.                                 *)
THEOREM RequestsKept == Spec => []NoRequestSwallowed
  <1>1. Spec => []IndInv
    BY InitIndInv, NextIndInv, PTL DEF Spec
  <1>2. IndInv => NoRequestSwallowed
    BY DEF IndInv
  <1> QED
    BY <1>1, <1>2, PTL

(* Every variable keeps its type, for any channels and any bounds.            *)
THEOREM TypeCorrect == Spec => []TypeOK
  <1>1. Init => TypeOK
    BY InitIndInv DEF IndInv
  <1> QED
    BY <1>1, TypeNext, PTL DEF Spec

LEMMA IndInvWakes == IndInv => NoWakeMissed
  <1> SUFFICES ASSUME IndInv PROVE NoWakeMissed
    OBVIOUS
  <1>1. ASSUME col = "wait", ~woken, Stale("collector"), "collector" \notin dropped
        PROVE  UiWriting
    BY <1>1 DEF IndInv, NoRequestSwallowed, UnderWay, Rebuilding, Reloading, RebuildWakes,
                UiWriting, Sections
  <1>2. ASSUME col = "wait", ~woken, Stale("alerts"), "alerts" \notin dropped
        PROVE  UiWriting
    BY <1>2 DEF IndInv, AlertsWake
  <1>3. SettingWakes
    BY <1>1, <1>2 DEF SettingWakes, UiWriting
  <1>4. GaugeWakes
    BY DEF IndInv, GaugeInv, GaugeWakes
  <1> QED
    BY <1>3, <1>4 DEF IndInv, NoWakeMissed

(* The thread never sleeps through a setting written from the panel, a panel  *)
(* that came on screen, or a registry tab that was switched to: whichever     *)
(* thread runs between the flag and the wake.                                 *)
THEOREM WakesKept == Spec => []NoWakeMissed
  <1>1. Spec => []IndInv
    BY InitIndInv, NextIndInv, PTL DEF Spec
  <1> QED
    BY <1>1, IndInvWakes, PTL

(* A hidden panel, or another tab, costs at most the sample under way.        *)
THEOREM RegistryQuiet == Spec => RegistryOnlyOnScreen
  <1>1. Spec => []IndInv
    BY InitIndInv, NextIndInv, PTL DEF Spec
  <1>2. IndInv => [Tick /\ on # {} => {"visible", "tab"} \subseteq seen]_vars
    BY DEF IndInv, SeenInv, Tick
  <1> QED
    BY <1>1, <1>2, PTL DEF RegistryOnlyOnScreen
=============================================================================
