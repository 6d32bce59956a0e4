------------------------------ MODULE Collector ------------------------------
(* The collector thread (src/src/metrics.rs) and everything that steers it:  *)
(* the two request flags RELOAD and REBUILD, the shared pace (visible,        *)
(* registry_tab, the wake channel), the store methods that write config.toml  *)
(* under the store's lock, the template job that writes template.toml from a  *)
(* thread of its own, and the host's show and hide paths on the main thread.  *)
(*                                                                            *)
(* A file is abstracted to the version of each section and the set of         *)
(* registry channels (GPU, drives) its [collector] section permits.           *)
(*                                                                            *)
(* Processes and their program counters:                                      *)
(*   col  the collector thread                                                *)
(*   ui   whichever thread is inside the store's lock (one at a time)         *)
(*   main the host's main thread, in its show path                            *)
(*   tpl  the template job (alerttpl.rs), outside the lock                    *)
EXTENDS Naturals

CONSTANTS Channels,     \* the registry channels, zstats' GPU and drives
          MaxWrites,    \* bound on writes to the two files
          MaxErrors     \* bound on failed loads, constructions and reloads

ASSUME BoundsAssumption == MaxWrites \in Nat /\ MaxErrors \in Nat

Sections == {"collector", "alerts", "template"}

VARIABLES
    file,         \* [section -> version] on disk
    permit,       \* channels that the file's [collector] section allows
    rebuild,      \* REBUILD
    reload,       \* RELOAD
    visible,      \* CollectorPace::visible
    registryTab,  \* CollectorPace::registry_tab
    woken,        \* the wake channel holds a message
    col, loaded, loadedPermit, sawVisible, wait,  \* the thread and its locals
    monitor,      \* [section -> version] the running Monitor was made from
    allowed,      \* Monitor::settings().collector's channels
    on,           \* the channels the Monitor is collecting
    ui, main, tpl,
    writes, errors,
    dropped,      \* history: sections whose last request ended in an error
    seen          \* history: pace flags up at some time since the last sample

asked  == <<file, permit, writes>>
flags  == <<rebuild, reload>>
pace   == <<visible, registryTab, woken>>
local  == <<loaded, loadedPermit, sawVisible, wait>>
sampler == <<monitor, allowed, on>>
history == <<errors, dropped, seen>>
others == <<ui, main, tpl>>
vars == <<asked, flags, pace, local, sampler, history, others, col>>

ColSteps == {"start", "first", "testRebuild", "clearReload", "load", "build", "testReload",
             "reloading", "readVisible", "readTab", "tick", "chooseWait", "wait",
             "dead"}
UiSteps  == {"free", "flagRebuild", "flagReload", "wake", "checkVisible"}

FilesTyped ==
    /\ file \in [Sections -> Nat] /\ loaded \in [Sections -> Nat]
    /\ monitor \in [Sections -> Nat]
    /\ permit \subseteq Channels /\ loadedPermit \subseteq Channels
    /\ allowed \subseteq Channels /\ on \subseteq Channels

FlagsTyped ==
    /\ rebuild \in BOOLEAN /\ reload \in BOOLEAN /\ woken \in BOOLEAN
    /\ visible \in BOOLEAN /\ registryTab \in BOOLEAN /\ sawVisible \in BOOLEAN

StepsTyped ==
    /\ col \in ColSteps /\ ui \in UiSteps
    /\ main \in {"idle", "wake"} /\ tpl \in {"idle", "flag"}
    /\ wait \in {"interval", "idle"}

HistoryTyped ==
    /\ writes \in Nat /\ errors \in Nat
    /\ dropped \subseteq Sections /\ seen \subseteq {"visible", "tab"}

TypeOK == FilesTyped /\ FlagsTyped /\ StepsTyped /\ HistoryTyped

Init ==
    /\ file = [s \in Sections |-> 0] /\ loaded = file /\ monitor = file
    /\ permit \in SUBSET Channels /\ loadedPermit = permit /\ allowed = permit
    /\ on = {}
    /\ rebuild = FALSE /\ reload = FALSE
    /\ visible = FALSE /\ registryTab \in BOOLEAN /\ woken = FALSE
    /\ sawVisible = FALSE /\ wait = "idle"
    /\ col = "start" /\ ui = "free" /\ main = "idle" /\ tpl = "idle"
    /\ writes = 0 /\ errors = 0 /\ dropped = {}
    /\ seen = IF registryTab THEN {"tab"} ELSE {}

----------------------------------------------------------------------------
(* The thread's loop. A failing step logs and goes on; only the very first    *)
(* construction ends the thread.                                              *)

CanFail == errors < MaxErrors

\* A message on the wake channel; nobody hears it once the thread returned.
SendWake == woken' = (woken \/ col # "dead")

\* The first load and construction: an error of either ends the thread.
GiveUp ==
    /\ col \in {"start", "first"} /\ CanFail
    /\ errors' = errors + 1
    /\ col' = "dead" /\ woken' = FALSE
    /\ UNCHANGED <<asked, flags, visible, registryTab, local, sampler, dropped,
                   seen, others>>

FirstLoad ==
    /\ col = "start"
    /\ loaded' = file /\ loadedPermit' = permit
    /\ col' = "first"
    /\ UNCHANGED <<asked, flags, pace, sawVisible, wait, sampler, history, others>>

FirstMonitor ==
    /\ col = "first"
    /\ monitor' = [loaded EXCEPT !["template"] = file["template"]]
    /\ allowed' = loadedPermit /\ on' = loadedPermit
    /\ col' = "testRebuild"
    /\ UNCHANGED <<asked, flags, pace, local, history, others>>

TestRebuild ==
    /\ col = "testRebuild"
    /\ rebuild' = FALSE
    /\ col' = IF rebuild THEN "clearReload" ELSE "testReload"
    /\ UNCHANGED <<asked, reload, pace, local, sampler, history, others>>

\* "Rebuild wins over a pending reload": the pending one is discarded first.
ClearReload ==
    /\ col = "clearReload"
    /\ reload' = FALSE
    /\ col' = "load"
    /\ UNCHANGED <<asked, rebuild, pace, local, sampler, history, others>>

\* settings::load; its error leaves the old Monitor running.
LoadFile ==
    /\ col = "load"
    /\ \/ /\ loaded' = file /\ loadedPermit' = permit
          /\ col' = "build"
          /\ UNCHANGED <<errors, dropped>>
       \/ /\ CanFail /\ errors' = errors + 1
          /\ dropped' = Sections
          /\ col' = "readVisible"
          /\ UNCHANGED <<loaded, loadedPermit>>
    /\ UNCHANGED <<asked, flags, pace, sawVisible, wait, sampler, seen, others>>

\* Mutant: the new Monitor samples before its channels are switched.
BuildThenTick ==
    /\ col = "build"
    /\ monitor' = [loaded EXCEPT !["template"] = file["template"]]
    /\ allowed' = loadedPermit /\ on' = loadedPermit /\ dropped' = {}
    /\ col' = "tick"
    /\ UNCHANGED <<asked, flags, pace, local, errors, seen, others>>

\* Mutant: the pending reload is discarded once the Monitor is built.
BuildThenClear ==
    /\ col = "build"
    /\ monitor' = [loaded EXCEPT !["template"] = file["template"]]
    /\ allowed' = loadedPermit /\ on' = loadedPermit /\ dropped' = {}
    /\ reload' = FALSE
    /\ col' = "readVisible"
    /\ UNCHANGED <<asked, rebuild, pace, local, errors, seen, others>>

\* Monitor::with_settings of what was loaded; it reads template.toml itself,
\* and comes up with the file's channels on.
BuildMonitor ==
    /\ col = "build"
    /\ \/ /\ monitor' = [loaded EXCEPT !["template"] = file["template"]]
          /\ allowed' = loadedPermit /\ on' = loadedPermit
          /\ dropped' = {}
          /\ UNCHANGED errors
       \/ /\ CanFail /\ errors' = errors + 1
          /\ dropped' = Sections
          /\ UNCHANGED sampler
    /\ col' = "readVisible"
    /\ UNCHANGED <<asked, flags, pace, local, seen, others>>

TestReload ==
    /\ col = "testReload"
    /\ reload' = FALSE
    /\ col' = IF reload THEN "reloading" ELSE "readVisible"
    /\ UNCHANGED <<asked, rebuild, pace, local, sampler, history, others>>

\* Monitor::reload_settings: [alerts] and the template, rate baselines kept.
Reload ==
    /\ col = "reloading"
    /\ \/ /\ monitor' = [file EXCEPT !["collector"] = monitor["collector"]]
          /\ dropped' = dropped \ {"alerts", "template"}
          /\ UNCHANGED errors
       \/ /\ CanFail /\ errors' = errors + 1
          /\ dropped' = dropped \cup {"alerts", "template"}
          /\ UNCHANGED monitor
    /\ col' = "readVisible"
    /\ UNCHANGED <<asked, flags, pace, local, allowed, on, seen, others>>

\* `visible && registry_tab` is two loads, not one.
ReadVisible ==
    /\ col = "readVisible"
    /\ sawVisible' = visible
    /\ col' = "readTab"
    /\ UNCHANGED <<asked, flags, pace, loaded, loadedPermit, wait, sampler,
                   history, others>>

\* Mutant: the channels are only ever switched on.
SwitchOnOnly ==
    /\ col = "readTab"
    /\ on' = IF sawVisible /\ registryTab THEN allowed ELSE on
    /\ col' = "tick"
    /\ UNCHANGED <<asked, flags, pace, local, monitor, allowed, history, others>>

\* registry_channels: never past the file the running Monitor was made from.
SwitchChannels ==
    /\ col = "readTab"
    /\ on' = IF sawVisible /\ registryTab THEN allowed ELSE {}
    /\ col' = "tick"
    /\ UNCHANGED <<asked, flags, pace, local, monitor, allowed, history, others>>

FlagsUp == {f \in {"visible", "tab"} : IF f = "visible" THEN visible ELSE registryTab}

\* One sample, failed or not, with the channels as they stand.
Tick ==
    /\ col = "tick"
    /\ seen' = FlagsUp
    /\ col' = "chooseWait"
    /\ UNCHANGED <<asked, flags, pace, local, sampler, errors, dropped, others>>

ChooseWait ==
    /\ col = "chooseWait"
    /\ wait' = IF visible THEN "interval" ELSE "idle"
    /\ col' = "wait"
    /\ UNCHANGED <<asked, flags, pace, loaded, loadedPermit, sawVisible, sampler,
                   history, others>>

\* recv_timeout, woken early: the whole backlog is drained.
WakeEarly ==
    /\ col = "wait" /\ woken
    /\ woken' = FALSE
    /\ col' = "testRebuild"
    /\ UNCHANGED <<asked, flags, visible, registryTab, local, sampler, history, others>>

TimeOut ==
    /\ col = "wait" /\ ~woken
    /\ col' = "testRebuild"
    /\ UNCHANGED <<asked, flags, pace, local, sampler, history, others>>

CollectorStep ==
    \/ GiveUp \/ FirstLoad \/ FirstMonitor \/ TestRebuild \/ ClearReload \/ LoadFile \/ BuildMonitor
    \/ TestReload \/ Reload \/ ReadVisible \/ SwitchChannels \/ Tick
    \/ ChooseWait \/ WakeEarly \/ TimeOut

----------------------------------------------------------------------------
(* Inside the store's lock: the settings writes and the tab switch.           *)

Write(sections, channels, next) ==
    /\ ui = "free" /\ writes < MaxWrites
    /\ file' = [s \in Sections |-> IF s \in sections THEN file[s] + 1 ELSE file[s]]
    /\ permit' = channels
    /\ writes' = writes + 1
    /\ ui' = next
    /\ UNCHANGED <<flags, pace, local, sampler, history, main, tpl, col>>

\* apply_setting of a key outside [alerts]
WriteCollector == \E c \in SUBSET Channels : Write({"collector"}, c, "flagRebuild")

\* apply_setting of an alert-* key, remove_alert_override
WriteAlerts == Write({"alerts"}, permit, "flagReload")

\* reset_settings: the builtin file, every channel allowed
ResetSettings == Write({"collector", "alerts"}, Channels, "flagRebuild")

RequestRebuild ==
    /\ ui = "flagRebuild"
    /\ rebuild' = TRUE
    /\ ui' = "wake"
    /\ UNCHANGED <<asked, reload, pace, local, sampler, history, main, tpl, col>>

\* Mutant: the write leaves the thread asleep.
RequestReloadOnly ==
    /\ ui = "flagReload"
    /\ reload' = TRUE
    /\ ui' = "free"
    /\ UNCHANGED <<asked, rebuild, pace, local, sampler, history, main, tpl, col>>

RequestReload ==
    /\ ui = "flagReload"
    /\ reload' = TRUE
    /\ ui' = "wake"
    /\ UNCHANGED <<asked, rebuild, pace, local, sampler, history, main, tpl, col>>

\* pace.wake() at the end of a write, and tab_selected's own send
UiWake ==
    /\ ui = "wake"
    /\ SendWake
    /\ ui' = "free"
    /\ UNCHANGED <<asked, flags, visible, registryTab, local, sampler, history,
                   main, tpl, col>>

\* tab_selected: the swap; only a change *to* a registry tab looks further.
SelectTab(reads) ==
    /\ ui = "free"
    /\ registryTab' = reads
    /\ seen' = IF reads THEN seen \cup {"tab"} ELSE seen
    /\ ui' = IF reads /\ ~registryTab THEN "checkVisible" ELSE "free"
    /\ UNCHANGED <<asked, flags, visible, woken, local, sampler, errors, dropped,
                   main, tpl, col>>

TabSelected == \E reads \in BOOLEAN : SelectTab(reads)

\* Mutant: tab_selected wakes the thread for a hidden panel only.
CheckHidden ==
    /\ ui = "checkVisible"
    /\ ui' = IF visible THEN "free" ELSE "wake"
    /\ UNCHANGED <<asked, flags, pace, local, sampler, history, main, tpl, col>>

CheckVisible ==
    /\ ui = "checkVisible"
    /\ ui' = IF visible THEN "wake" ELSE "free"
    /\ UNCHANGED <<asked, flags, pace, local, sampler, history, main, tpl, col>>

UiStep ==
    \/ WriteCollector \/ WriteAlerts \/ ResetSettings
    \/ RequestRebuild \/ RequestReload \/ UiWake \/ TabSelected \/ CheckVisible

----------------------------------------------------------------------------
(* The template job: the file, then the flag, and no wake.                    *)

WriteTemplate ==
    /\ tpl = "idle" /\ writes < MaxWrites
    /\ file' = [file EXCEPT !["template"] = @ + 1]
    /\ writes' = writes + 1
    /\ tpl' = "flag"
    /\ UNCHANGED <<permit, flags, pace, local, sampler, history, ui, main, col>>

RequestTemplate ==
    /\ tpl = "flag"
    /\ reload' = TRUE
    /\ tpl' = "idle"
    /\ UNCHANGED <<asked, rebuild, pace, local, sampler, history, ui, main, col>>

----------------------------------------------------------------------------
(* The host's main thread.                                                    *)

\* Mutant: a panel shown while the thread idles does not wake it.
ShownQuietly ==
    /\ main = "idle"
    /\ visible' = TRUE /\ seen' = seen \cup {"visible"}
    /\ UNCHANGED <<asked, flags, registryTab, woken, local, sampler, errors,
                   dropped, others, col>>

Shown ==
    /\ main = "idle"
    /\ visible' = TRUE /\ seen' = seen \cup {"visible"}
    /\ main' = "wake"
    /\ UNCHANGED <<asked, flags, registryTab, woken, local, sampler, errors,
                   dropped, ui, tpl, col>>

ShownWake ==
    /\ main = "wake"
    /\ SendWake
    /\ main' = "idle"
    /\ UNCHANGED <<asked, flags, visible, registryTab, local, sampler, history,
                   ui, tpl, col>>

Hidden ==
    /\ main = "idle" /\ visible
    /\ visible' = FALSE
    /\ UNCHANGED <<asked, flags, registryTab, woken, local, sampler, history,
                   others, col>>

\* HostAction::Wake, after a volume was ejected
AskedWake ==
    /\ main = "idle"
    /\ SendWake
    /\ UNCHANGED <<asked, flags, visible, registryTab, local, sampler, history,
                   others, col>>

MainStep == Shown \/ ShownWake \/ Hidden \/ AskedWake
TemplateStep == WriteTemplate \/ RequestTemplate

Next == CollectorStep \/ UiStep \/ TemplateStep \/ MainStep

(* The scheduler runs every runnable thread: a thread that has begun a write  *)
(* or a show finishes it, and recv_timeout returns.                           *)
Fairness ==
    /\ WF_vars(CollectorStep)
    /\ WF_vars(RequestRebuild \/ RequestReload \/ UiWake \/ CheckVisible)
    /\ WF_vars(RequestTemplate)
    /\ WF_vars(ShownWake)

Spec == Init /\ [][Next]_vars
FairSpec == Spec /\ Fairness

----------------------------------------------------------------------------
(* Where a section's newest version can still be on its way to the Monitor.   *)

Rebuilding(s) ==
    \/ rebuild \/ ui = "flagRebuild" \/ col \in {"clearReload", "load"}
    \/ col = "start"
    \/ col \in {"first", "build"} /\ (s = "template" \/ loaded[s] = file[s])

Reloading(s) ==
    s # "collector" /\ (reload \/ col = "reloading" \/ ui = "flagReload")

UnderWay(s) ==
    \/ Rebuilding(s) \/ Reloading(s)
    \/ s = "template" /\ tpl = "flag"

Stale(s) == monitor[s] # file[s]

\* A section on disk that the Monitor does not have yet is still on its way:
\* whatever order the writers and the thread run in, no request is swallowed
\* except by an error that was logged (metrics.rs, the loop's two swaps).
NoRequestSwallowed ==
    \A s \in Sections :
        Stale(s) => UnderWay(s) \/ s \in dropped \/ col = "dead"

\* "Interrupt an idle wait so a just-written setting is picked up on the next
\* loop" (CollectorPace::wake): the thread never sits in its wait, unwoken,
\* while a section written from the panel is stale, unless the write's own
\* wake is still to be sent.
SettingWakes ==
    col = "wait" /\ ~woken =>
        \A s \in {"collector", "alerts"} :
            Stale(s) /\ s \notin dropped => ui \in {"flagRebuild", "flagReload", "wake"}

\* "sample now, and hold the fast cadence" (CollectorPace::shown): a panel on
\* screen never waits out the idle cadence the thread chose while it was hidden.
ShownWakes ==
    col = "wait" /\ ~woken /\ visible /\ wait = "idle" => main = "wake"

\* A registry tab on screen has its channels on whenever the thread is waiting
\* unwoken, so "the GPU gauge is there on the first paint" (tab_selected); the
\* two flags are written by two threads, in any order.
GaugeWakes ==
    col = "wait" /\ ~woken /\ visible /\ registryTab /\ on # allowed =>
        main = "wake" \/ ui \in {"checkVisible", "wake"}

\* The thread never waits out an interval with something due that was asked for
\* by a wake: neither a setting, nor a panel that came up, nor a gauge.
NoWakeMissed == SettingWakes /\ ShownWakes /\ GaugeWakes

\* "Nothing reads those figures while the panel is hidden" (module doc): after
\* the panel or the tab goes, at most the sample already under way reads the
\* registry; no later one does, a freshly built Monitor's included.
RegistryOnlyOnScreen ==
    [][Tick /\ on # {} => {"visible", "tab"} \subseteq seen]_vars

\* Once the writes stop the Monitor is what the files say, whichever of them
\* woke the thread and whichever did not (apply_setting, write_template): all
\* that stays stale is a section whose last request met an error that was logged.
SettingsApplied ==
    <>[](\A s \in Sections : Stale(s) => s \in dropped \/ col = "dead")

\* Whatever fails on the way, a panel left open on a registry tab ends up with
\* what its Monitor's file allows, and one left hidden with no registry reads.
ChannelsSettle ==
    /\ <>[](visible /\ registryTab) => <>[](on = allowed \/ col = "dead")
    /\ <>[](~visible) => <>[](on = {})

\* What was asked for last is what runs: settings and channels alike.
AskedIsRun == SettingsApplied /\ ChannelsSettle
=============================================================================
