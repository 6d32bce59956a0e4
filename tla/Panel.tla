-------------------------------- MODULE Panel --------------------------------
(* What a showing of the panel asks for and what answers it                   *)
(* (src/src/state/mod.rs): the whole-table listings behind the All chips, the *)
(* member table behind an expanded tree, the listening sockets, the history   *)
(* rows, and the show, hide and tab switches that start and drop them.        *)
(*                                                                            *)
(* Every store method is one step, taken under the store's lock; a job runs   *)
(* on a thread of its own and lands in a later step. Hiding and showing are   *)
(* two steps each on the main thread. A press on the panel is handled by the  *)
(* panel's engine thread, so it can land after the hide.                      *)
(*                                                                            *)
(* Clocks are reduced to fresh or not: an answer is fresh as it lands, and at *)
(* any later moment its interval is over (Age).                               *)
EXTENDS Naturals

CONSTANTS Lists,     \* the two All listings: processes, and trees
          Ranges, NoRows,    \* HistoryRange, and no rows read
          Tabs,      \* the tabs a person goes to, of the four kinds below
          MaxJobs    \* bound on the jobs of one kind in flight

Kinds == {"net", "apps", "history", "other"}

ASSUME PanelAssumption ==
    Tabs \subseteq Kinds /\ Tabs # {} /\ NoRows \notin Ranges /\ MaxJobs \in Nat

NoPress == [kind |-> "none"]

Presses ==
    [kind : {"tab"}, to : Tabs] \cup [kind : {"all"}, list : Lists]
        \cup [kind : {"range"}, to : Ranges] \cup [kind : {"app", "quit"}]

VARIABLES
    visible, step, tab,      \* the pace's flag; where main is in show or hide
    press,                   \* a press the engine has not handled
    fullScan, scanJobs,      \* per list: what it shows, and its jobs in flight
    selected,                \* selected_app is held
    table, tableFresh, tableJobs,             \* MemberTable
    listeners, listenersFresh, listenersInflight, listenJobs,
    range, history, historyFresh, loads       \* loads: per range, in flight

scans == <<fullScan, scanJobs>>
tables == <<table, tableFresh, tableJobs>>
net == <<listeners, listenersFresh, listenersInflight, listenJobs>>
rows == <<history, historyFresh, loads>>
vars == <<visible, step, tab, press, scans, selected, tables, net, range, rows>>

ShowTyped ==
    /\ visible \in BOOLEAN /\ step \in {"none", "reveal", "hide"}
    /\ tab \in Tabs /\ press \in Presses \cup {NoPress}
ScanTyped ==
    /\ fullScan \in [Lists -> {"off", "running", "ready", "failed"}]
    /\ scanJobs \in [Lists -> Nat]
TableTyped ==
    /\ selected \in BOOLEAN /\ tableFresh \in BOOLEAN /\ tableJobs \in Nat
    /\ table \in {"off", "running", "ready", "refreshing", "failed"}
NetTyped ==
    /\ listeners \in {"none", "held"} /\ listenJobs \in Nat
    /\ listenersFresh \in BOOLEAN /\ listenersInflight \in BOOLEAN
RowsTyped ==
    /\ range \in Ranges /\ history \in Ranges \cup {NoRows}
    /\ historyFresh \in BOOLEAN /\ loads \in [Ranges -> Nat]

TypeOK == ShowTyped /\ ScanTyped /\ TableTyped /\ NetTyped /\ RowsTyped

\* Launched hidden, on the session's tab, with nothing asked for.
Init ==
    /\ visible = FALSE /\ step = "none" /\ tab \in Tabs /\ press = NoPress
    /\ fullScan = [l \in Lists |-> "off"] /\ scanJobs = [l \in Lists |-> 0]
    /\ selected = FALSE /\ table = "off" /\ tableFresh = FALSE /\ tableJobs = 0
    /\ listeners = "none" /\ listenersFresh = FALSE
    /\ listenersInflight = FALSE /\ listenJobs = 0
    /\ range \in Ranges /\ history = NoRows /\ historyFresh = FALSE
    /\ loads = [r \in Ranges |-> 0]

----------------------------------------------------------------------------
(* The listings behind the All chips.                                         *)

StartScan(l) ==
    /\ scanJobs[l] < MaxJobs
    /\ fullScan' = [fullScan EXCEPT ![l] = "running"]
    /\ scanJobs' = [scanJobs EXCEPT ![l] = @ + 1]

\* "A second click must not spawn a second scan": one that runs is left alone.
ToggleScan(l) ==
    \/ fullScan[l] \in {"off", "failed"} /\ StartScan(l)
    \/ fullScan[l] = "running" /\ UNCHANGED scans
    \/ /\ fullScan[l] = "ready"
       /\ fullScan' = [fullScan EXCEPT ![l] = "off"]
       /\ UNCHANGED scanJobs

\* Mutant: a scan that fails is only logged.
LandOnlyReady(l) ==
    /\ scanJobs[l] > 0
    /\ scanJobs' = [scanJobs EXCEPT ![l] = @ - 1]
    /\ \E landed \in {"ready", "failed"} :
           fullScan' = IF fullScan[l] = "running" /\ landed = "ready"
                       THEN [fullScan EXCEPT ![l] = landed] ELSE fullScan
    /\ UNCHANGED <<visible, step, tab, press, selected, tables, net, range, rows>>

\* It lands only into a scan someone is still waiting for.
LandScan(l) ==
    /\ scanJobs[l] > 0
    /\ scanJobs' = [scanJobs EXCEPT ![l] = @ - 1]
    /\ \E landed \in {"ready", "failed"} :
           fullScan' = IF fullScan[l] = "running"
                       THEN [fullScan EXCEPT ![l] = landed] ELSE fullScan
    /\ UNCHANGED <<visible, step, tab, press, selected, tables, net, range, rows>>

----------------------------------------------------------------------------
(* The member table: fetched when the tick cannot name a tree's members, and  *)
(* again on the process cadence while a tree is held or on screen.            *)

StartTable ==
    /\ tableJobs < MaxJobs
    /\ table' = IF table = "ready" THEN "refreshing" ELSE "running"
    /\ tableJobs' = tableJobs + 1
    /\ UNCHANGED tableFresh

\* ensure_member_table: held while one is in flight or fresh; from nothing it
\* is fetched if the tick's own table is short of members, which the tick says.
EnsureTable ==
    \/ table \in {"off", "running", "refreshing"} /\ UNCHANGED tables
    \/ table \in {"ready", "failed"} /\ tableFresh /\ UNCHANGED tables
    \/ table \in {"ready", "failed"} /\ ~tableFresh /\ StartTable
    \/ table = "off" /\ StartTable

\* ensure_apps_topology: for the held tree, ahead of the visibility gate, and
\* for a tree on screen. A tree that is no longer in the tick asks for nothing.
EnsureTopology(seen, t, held) ==
    \/ (held \/ (seen /\ t = "apps")) /\ EnsureTable
    \/ UNCHANGED tables

LandTable ==
    /\ tableJobs > 0
    /\ tableJobs' = tableJobs - 1
    /\ \/ table = "off" /\ UNCHANGED <<table, tableFresh>>
       \/ table # "off" /\ table' = "ready" /\ tableFresh' = TRUE
       \/ table \in {"ready", "refreshing"} /\ table' = "ready" /\ UNCHANGED tableFresh
       \/ table \in {"running", "failed"} /\ table' = "failed" /\ tableFresh' = TRUE
    /\ UNCHANGED <<visible, step, tab, press, scans, selected, net, range, rows>>

\* A press on a tree's row: collapsing keeps the photograph, expanding drops a
\* failed one.
ToggleApp ==
    /\ selected' = ~selected
    /\ IF selected \/ table # "failed"
       THEN IF selected THEN UNCHANGED tables ELSE EnsureTable
       ELSE /\ UNCHANGED tableFresh
            /\ \/ table' = "off" /\ UNCHANGED tableJobs
               \/ tableJobs < MaxJobs /\ table' = "running" /\ tableJobs' = tableJobs + 1

----------------------------------------------------------------------------
(* The listening sockets: a photograph for a visit, one read at a time.       *)

EnsureListeners ==
    IF listenersInflight \/ listenersFresh THEN UNCHANGED net
    ELSE /\ listenersInflight' = TRUE
         /\ listenJobs' = listenJobs + 1
         /\ UNCHANGED <<listeners, listenersFresh>>

\* Mutant: an answer for a panel that is gone is dropped before it is counted.
LandIfShown ==
    /\ listenJobs > 0
    /\ listenJobs' = listenJobs - 1
    /\ IF tab = "net" /\ visible
       THEN listeners' = "held" /\ listenersFresh' = TRUE /\ listenersInflight' = FALSE
       ELSE UNCHANGED <<listeners, listenersFresh, listenersInflight>>
    /\ UNCHANGED <<visible, step, tab, press, scans, selected, tables, range, rows>>

\* "A late answer must not bring it back for a panel nobody is looking at."
LandListeners ==
    /\ listenJobs > 0
    /\ listenJobs' = listenJobs - 1
    /\ listenersInflight' = FALSE
    /\ IF tab = "net" /\ visible
       THEN listeners' = "held" /\ listenersFresh' = TRUE
       ELSE UNCHANGED <<listeners, listenersFresh>>
    /\ UNCHANGED <<visible, step, tab, press, scans, selected, tables, range, rows>>

----------------------------------------------------------------------------
(* The history rows of one range.                                             *)

LoadHistory(r) ==
    /\ loads[r] < MaxJobs
    /\ loads' = [loads EXCEPT ![r] = @ + 1]

SetRange(r) ==
    IF r = range THEN UNCHANGED <<range, rows>>
    ELSE /\ range' = r /\ history' = NoRows /\ historyFresh' = FALSE
         /\ LoadHistory(r)

\* Mutant: rows land whatever the range is by now.
LandAnyRows(r) ==
    /\ loads[r] > 0
    /\ loads' = [loads EXCEPT ![r] = @ - 1]
    /\ history' = r /\ historyFresh' = TRUE
    /\ UNCHANGED <<visible, step, tab, press, scans, selected, tables, net, range>>

LandHistory(r) ==
    /\ loads[r] > 0
    /\ loads' = [loads EXCEPT ![r] = @ - 1]
    /\ IF r = range THEN history' = r /\ historyFresh' = TRUE
       ELSE UNCHANGED <<history, historyFresh>>
    /\ UNCHANGED <<visible, step, tab, press, scans, selected, tables, net, range>>

----------------------------------------------------------------------------
(* enter_tab: what a visit to the tab asks for.                               *)

EnterTab(t, seen) ==
    /\ IF t = "net" THEN EnsureListeners ELSE UNCHANGED net
    /\ IF t = "history" /\ ~historyFresh
       THEN LoadHistory(range) /\ UNCHANGED <<history, historyFresh>>
       ELSE UNCHANGED rows
    /\ IF t = "apps" THEN EnsureTopology(seen, t, selected) ELSE UNCHANGED tables

\* mark_shown: the pace, and then the shown tab's entry work.
Show ==
    /\ step = "none"
    /\ visible' = TRUE
    /\ step' = "reveal"
    /\ UNCHANGED <<tab, press, scans, selected, tables, net, range, rows>>

EnterShownTab ==
    /\ step = "reveal"
    /\ EnterTab(tab, visible)
    /\ step' = "none"
    /\ UNCHANGED <<visible, tab, press, scans, selected, range>>

\* hide: reset_transient_views, and then the pace.
ResetTransientViews ==
    /\ step = "none" /\ visible
    /\ fullScan' = [l \in Lists |-> "off"]
    /\ table' = "off" /\ selected' = FALSE
    /\ listeners' = "none" /\ listenersFresh' = FALSE
    /\ step' = "hide"
    /\ UNCHANGED <<visible, tab, press, scanJobs, tableFresh, tableJobs,
                   listenersInflight, listenJobs, range, rows>>

Hidden ==
    /\ step = "hide"
    /\ visible' = FALSE
    /\ step' = "none"
    /\ UNCHANGED <<tab, press, scans, selected, tables, net, range, rows>>

----------------------------------------------------------------------------
(* The panel's engine: a press is made on a panel that is up, and handled.    *)

Press ==
    /\ visible /\ press = NoPress
    /\ press' \in Presses
    /\ UNCHANGED <<visible, step, tab, scans, selected, tables, net, range, rows>>

HandleTab ==
    /\ press.kind = "tab"
    /\ tab' = press.to
    /\ IF tab' # tab /\ visible THEN EnterTab(tab', visible)
       ELSE UNCHANGED <<tables, net, rows>>
    /\ UNCHANGED <<scans, selected, range>>

HandleAll ==
    /\ press.kind = "all"
    /\ ToggleScan(press.list)
    /\ UNCHANGED <<tab, selected, tables, net, range, rows>>

HandleApp ==
    /\ press.kind = "app"
    /\ ToggleApp
    /\ UNCHANGED <<tab, scans, net, range, rows>>

HandleRange ==
    /\ press.kind = "range"
    /\ SetRange(press.to)
    /\ UNCHANGED <<tab, scans, selected, tables, net>>

\* Quit on a listener's card: expire_listeners.
HandleQuit ==
    /\ press.kind = "quit"
    /\ listenersFresh' = FALSE
    /\ UNCHANGED <<tab, scans, selected, tables, range, rows,
                   listeners, listenersInflight, listenJobs>>

Handle ==
    /\ HandleTab \/ HandleAll \/ HandleApp \/ HandleRange \/ HandleQuit
    /\ press' = NoPress
    /\ UNCHANGED <<visible, step>>

----------------------------------------------------------------------------
\* A tick: what rides on it, of what is modelled here.
Tick ==
    /\ IF tab = "net" /\ visible THEN EnsureListeners ELSE UNCHANGED net
    /\ EnsureTopology(visible, tab, selected)
    /\ UNCHANGED <<visible, step, tab, press, scans, selected, range, rows>>

Age ==
    /\ \/ tableFresh /\ tableFresh' = FALSE /\ UNCHANGED <<listenersFresh, historyFresh>>
       \/ listenersFresh /\ listenersFresh' = FALSE /\ UNCHANGED <<tableFresh, historyFresh>>
       \/ historyFresh /\ historyFresh' = FALSE /\ UNCHANGED <<tableFresh, listenersFresh>>
    /\ UNCHANGED <<visible, step, tab, press, scans, selected, table, tableJobs, listeners,
                   listenersInflight, listenJobs, range, history, loads>>

Land == LandTable \/ LandListeners

Next ==
    \/ Show \/ EnterShownTab \/ ResetTransientViews \/ Hidden
    \/ Press \/ Handle \/ Tick \/ Age \/ Land
    \/ \E l \in Lists : LandScan(l)
    \/ \E r \in Ranges : LandHistory(r)

(* Threads that have begun go on, presses are handled, and the collector      *)
(* ticks. Nobody is made to show, hide or press.                              *)
Fairness ==
    /\ WF_vars(EnterShownTab \/ Hidden) /\ WF_vars(Handle) /\ WF_vars(Tick)
    /\ WF_vars(LandTable) /\ WF_vars(LandListeners)
    /\ \A l \in Lists : WF_vars(LandScan(l))
    /\ \A r \in Ranges : WF_vars(LandHistory(r))

Spec == Init /\ [][Next]_vars
FairSpec == Spec /\ Fairness

----------------------------------------------------------------------------
\* Nothing on screen waits for an answer no job will bring: a running scan, a
\* table being fetched or refreshed, a socket read marked in flight, whatever
\* was hidden, reset, re-asked and landed in between.
ScanServed == \A l \in Lists : fullScan[l] = "running" => scanJobs[l] > 0
TableServed == table \in {"running", "refreshing"} => tableJobs > 0
ListenersServed == listenersInflight => listenJobs = 1
WaitingIsServed == ScanServed /\ TableServed /\ ListenersServed

\* "Quickly flipping ranges must not let a slow wide read land under a narrower
\* title" (load_history), and a page that shows its loading line is loading.
HistoryMatchesTitle ==
    /\ history \in {range, NoRows}
    /\ visible /\ tab = "history" /\ step = "none" /\ history = NoRows => loads[range] > 0

\* "A second click must not spawn a second scan — they would land in an order
\* nobody controls" (toggle_full_scan).
OneScanAtATime == \A l \in Lists : scanJobs[l] <= 1

\* A panel left on the Network tab goes on getting answers younger than their
\* interval, whatever the visits before it left in flight.
VisitIsAnswered ==
    <>[](visible /\ step = "none" /\ tab = "net") => []<>listenersFresh
=============================================================================
