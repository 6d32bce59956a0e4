----------------------------- MODULE PanelProofs -----------------------------
(* Theorems about Panel, for any lists, ranges and tabs and any number of     *)
(* jobs in flight, and their proofs.                                          *)
EXTENDS Panel, TLAPS

USE DEF scans, tables, net, rows

\* A read is in flight exactly when it is marked so.
OneRead == (listenersInflight => listenJobs = 1) /\ (~listenersInflight => listenJobs = 0)
\* Fresh rows are rows of the range on screen.
FreshRows == historyFresh => history # NoRows

IndInv == TypeOK /\ ScanServed /\ TableServed /\ OneRead /\ FreshRows /\ HistoryMatchesTitle


LEMMA ScanNext ==
  ASSUME ScanTyped, ScanServed, [Next]_vars
  PROVE  ScanTyped' /\ ScanServed'
  <1> USE DEF ScanTyped, ScanServed
  <1>1. ASSUME NEW l \in Lists, LandScan(l) PROVE ScanTyped' /\ ScanServed'
    BY <1>1 DEF LandScan
  <1>2. CASE ResetTransientViews
    BY <1>2 DEF ResetTransientViews
  <1>3. ASSUME HandleAll, press.list \in Lists PROVE ScanTyped' /\ ScanServed'
    BY <1>3 DEF HandleAll, ToggleScan, StartScan
  <1>4. ASSUME HandleAll, press.list \notin Lists PROVE ScanTyped' /\ ScanServed'
    BY <1>4 DEF HandleAll, ToggleScan, StartScan
  <1>5. CASE UNCHANGED scans
    BY <1>5
  <1> QED
    BY <1>1, <1>2, <1>3, <1>4, <1>5
    DEF Next, Land, vars, Show, EnterShownTab, Hidden, Press, Handle, HandleTab, HandleApp,
        HandleRange, HandleQuit, Tick, Age, LandTable, LandListeners, LandHistory

\* Every way a table is asked for keeps its typing and its job.
LEMMA TopologyKept ==
  ASSUME TableTyped, TableServed, NEW seen, NEW t, NEW held,
         EnsureTopology(seen, t, held), selected' = selected
  PROVE  TableTyped' /\ TableServed'
  BY DEF TableTyped, TableServed, EnsureTopology, EnsureTable, StartTable

LEMMA TableNext ==
  ASSUME TableTyped, TableServed, [Next]_vars
  PROVE  TableTyped' /\ TableServed'
  <1>1. CASE LandTable
    <2>1. tableJobs' \in Nat
      BY <1>1 DEF LandTable, TableTyped
    <2>2. tableFresh' \in BOOLEAN /\ selected' \in BOOLEAN
      BY <1>1, Zenon DEF LandTable, TableTyped
    <2>3. table' \in {"off", "ready", "failed"}
      BY <1>1 DEF LandTable, TableTyped
    <2> QED
      BY <2>1, <2>2, <2>3 DEF TableTyped, TableServed
  <1>2. CASE ResetTransientViews
    BY <1>2 DEF ResetTransientViews, TableTyped, TableServed
  <1>3. CASE ToggleApp
    BY <1>3 DEF ToggleApp, EnsureTable, StartTable, TableTyped, TableServed
  <1>4. ASSUME NEW t, NEW seen, EnterTab(t, seen), selected' = selected
        PROVE  TableTyped' /\ TableServed'
    <2>1. CASE t = "apps"
      BY <1>4, <2>1, TopologyKept DEF EnterTab
    <2>2. CASE t # "apps"
      BY <1>4, <2>2 DEF EnterTab, TableTyped, TableServed
    <2> QED
      BY <2>1, <2>2
  <1>5. CASE Tick
    BY <1>5, TopologyKept DEF Tick
  <1>6. CASE Age
    BY <1>6 DEF Age, TableTyped, TableServed
  <1>7. CASE UNCHANGED <<tables, selected>>
    BY <1>7 DEF TableTyped, TableServed
  <1>8. CASE HandleTab
    BY <1>4, <1>7, <1>8 DEF HandleTab
  <1>9. CASE EnterShownTab
    BY <1>4, <1>9 DEF EnterShownTab
  <1> QED
    BY <1>1, <1>2, <1>3, <1>5, <1>6, <1>7, <1>8, <1>9
    DEF Next, Land, vars, Show, Hidden, Press, Handle, HandleAll, HandleApp,
        HandleRange, HandleQuit, LandScan, LandListeners, LandHistory

LEMMA NetNext ==
  ASSUME NetTyped, OneRead, [Next]_vars
  PROVE  NetTyped' /\ OneRead'
  <1>1. CASE EnsureListeners
    <2>1. CASE listenersInflight \/ listenersFresh
      BY <1>1, <2>1 DEF EnsureListeners, NetTyped, OneRead
    <2>2. CASE ~(listenersInflight \/ listenersFresh)
      <3>1. listenJobs' = 1
        BY <1>1, <2>2 DEF EnsureListeners, OneRead
      <3>2. listenersInflight' /\ listenersInflight' \in BOOLEAN
        BY <1>1, <2>2, Zenon DEF EnsureListeners
      <3>3. UNCHANGED <<listeners, listenersFresh>>
        BY <1>1, <2>2 DEF EnsureListeners
      <3> QED
        BY <3>1, <3>2, <3>3 DEF NetTyped, OneRead
    <2> QED
      BY <2>1, <2>2
  <1>2. CASE UNCHANGED net
    BY <1>2 DEF NetTyped, OneRead
  <1>3. ASSUME NEW t, NEW seen, EnterTab(t, seen) PROVE NetTyped' /\ OneRead'
    BY <1>1, <1>2, <1>3 DEF EnterTab
  <1>4. CASE LandListeners
    <2>1. listenJobs' = 0
      BY <1>4 DEF LandListeners, NetTyped, OneRead
    <2>2. ~listenersInflight' /\ listenersInflight' \in BOOLEAN
      BY <1>4, Zenon DEF LandListeners
    <2>3. listeners' \in {"none", "held"}
      BY <1>4 DEF LandListeners, NetTyped
    <2>4. listenersFresh' \in BOOLEAN
      BY <1>4, Zenon DEF LandListeners, NetTyped
    <2> QED
      BY <2>1, <2>2, <2>3, <2>4 DEF NetTyped, OneRead
  <1>5. CASE ResetTransientViews \/ Age \/ HandleQuit
    <2>1. UNCHANGED <<listenersInflight, listenJobs>> /\ listeners' \in {"none", "held"}
      BY <1>5 DEF ResetTransientViews, Age, HandleQuit, NetTyped
    <2>2. listenersFresh' \in BOOLEAN
      BY <1>5, Zenon DEF ResetTransientViews, Age, HandleQuit, NetTyped
    <2> QED
      BY <2>1, <2>2 DEF NetTyped, OneRead
  <1>6. CASE HandleTab
    BY <1>2, <1>3, <1>6 DEF HandleTab
  <1>7. CASE EnterShownTab
    BY <1>3, <1>7 DEF EnterShownTab
  <1>8. CASE Tick
    BY <1>1, <1>2, <1>8 DEF Tick
  <1> QED
    BY <1>2, <1>4, <1>5, <1>6, <1>7, <1>8
    DEF Next, Land, vars, Show, Hidden, Press, Handle, HandleAll, HandleApp, HandleRange,
        LandScan, LandTable, LandHistory

LEMMA ShowNext ==
  ASSUME ShowTyped, [Next]_vars
  PROVE  ShowTyped'
  <1> USE DEF ShowTyped
  <1>1. CASE Show \/ EnterShownTab \/ ResetTransientViews \/ Hidden
    BY <1>1 DEF Show, EnterShownTab, ResetTransientViews, Hidden
  <1>2. CASE Press
    BY <1>2 DEF Press
  <1>3. CASE Handle
    <2>1. CASE HandleTab
      <3>1. press.to \in Tabs
        BY <2>1 DEF HandleTab, Presses, NoPress
      <3> QED
        BY <1>3, <2>1, <3>1 DEF Handle, HandleTab
    <2>2. CASE ~HandleTab
      BY <1>3, <2>2 DEF Handle, HandleAll, HandleApp, HandleRange, HandleQuit
    <2> QED
      BY <2>1, <2>2
  <1>4. CASE UNCHANGED <<visible, step, tab, press>>
    BY <1>4
  <1> QED
    BY <1>1, <1>2, <1>3, <1>4
    DEF Next, Land, vars, Tick, Age, LandScan, LandTable, LandListeners, LandHistory

LEMMA LoadKept ==
  ASSUME RowsTyped, NEW r \in Ranges, LoadHistory(r)
  PROVE  loads' \in [Ranges -> Nat] /\ loads'[r] > 0
  BY DEF RowsTyped, LoadHistory

LEMMA RowsNext ==
  ASSUME ShowTyped, RowsTyped, FreshRows, HistoryMatchesTitle, [Next]_vars
  PROVE  RowsTyped' /\ FreshRows' /\ HistoryMatchesTitle'
  <1> DEFINE Kept == RowsTyped' /\ FreshRows' /\ HistoryMatchesTitle'
  <1> USE DEF RowsTyped, FreshRows, HistoryMatchesTitle
  <1>1. ASSUME NEW r \in Ranges, LandHistory(r) PROVE Kept
    <2>1. loads' \in [Ranges -> Nat]
      BY <1>1 DEF LandHistory
    <2>2. CASE r = range
      <3>1. history' = r /\ historyFresh' \in BOOLEAN /\ UNCHANGED range
        BY <1>1, <2>2, Zenon DEF LandHistory
      <3> QED
        BY <2>1, <2>2, <3>1, PanelAssumption
    <2>3. CASE r # range
      <3>1. loads'[range] = loads[range]
        BY <1>1, <2>3 DEF LandHistory
      <3>2. UNCHANGED <<history, historyFresh, range, visible, tab, step>>
        BY <1>1, <2>3 DEF LandHistory
      <3> QED
        BY <2>1, <3>1, <3>2
    <2> QED
      BY <2>2, <2>3
  <1>2. ASSUME NEW t, NEW seen, EnterTab(t, seen), t' = t, tab' = t, range' = range PROVE Kept
    <2>1. CASE t = "history" /\ ~historyFresh
      BY <1>2, <2>1, LoadKept DEF EnterTab
    <2>2. CASE ~(t = "history" /\ ~historyFresh)
      BY <1>2, <2>2 DEF EnterTab
    <2> QED
      BY <2>1, <2>2
  <1>3. CASE EnterShownTab
    BY <1>2, <1>3 DEF EnterShownTab
  <1>4. CASE Handle
    <2>1. CASE HandleTab
      BY <1>2, <1>4, <2>1 DEF Handle, HandleTab
    <2>2. CASE HandleRange
      <3>1. press.to \in Ranges
        BY <2>2 DEF HandleRange, Presses, NoPress, ShowTyped
      <3>2. CASE press.to = range
        BY <1>4, <2>2, <3>2 DEF Handle, HandleRange, SetRange
      <3>3. CASE press.to # range
        BY <1>4, <2>2, <3>1, <3>3, LoadKept DEF Handle, HandleRange, SetRange
      <3> QED
        BY <3>2, <3>3
    <2>3. CASE ~HandleTab /\ ~HandleRange
      BY <1>4, <2>3 DEF Handle, HandleAll, HandleApp, HandleQuit
    <2> QED
      BY <2>1, <2>2, <2>3
  <1>5. CASE Show \/ ResetTransientViews \/ Hidden
    BY <1>5 DEF Show, ResetTransientViews, Hidden
  <1>6. CASE Age
    <2>1. UNCHANGED <<visible, step, tab, range, history, loads>>
      BY <1>6 DEF Age
    <2>2. ~historyFresh' \/ UNCHANGED historyFresh
      BY <1>6 DEF Age
    <2>3. historyFresh' \in BOOLEAN
      BY <1>6 DEF Age
    <2> QED
      BY <2>1, <2>2, <2>3
  <1>7. CASE UNCHANGED <<visible, step, tab, range, rows>>
    BY <1>7
  <1> QED
    BY <1>1, <1>3, <1>4, <1>5, <1>6, <1>7
    DEF Next, Land, vars, Press, Tick, LandScan, LandTable, LandListeners

LEMMA InitIndInv == Init => IndInv
  <1> SUFFICES ASSUME Init PROVE IndInv
    OBVIOUS
  <1>1. ShowTyped /\ TableTyped /\ NetTyped
    BY DEF Init, ShowTyped, TableTyped, NetTyped
  <1>2. ScanTyped /\ RowsTyped
    BY DEF Init, ScanTyped, RowsTyped
  <1>3. ScanServed /\ TableServed /\ OneRead /\ FreshRows /\ HistoryMatchesTitle
    BY DEF Init, ScanServed, TableServed, OneRead, FreshRows, HistoryMatchesTitle
  <1> QED
    BY <1>1, <1>2, <1>3 DEF IndInv, TypeOK

LEMMA IndNext == IndInv /\ [Next]_vars => IndInv'
  BY ShowNext, ScanNext, TableNext, NetNext, RowsNext DEF IndInv, TypeOK

(* The panel's state keeps its types: no job is counted as landed twice.      *)
THEOREM TypeCorrect == Spec => []TypeOK
  <1>1. IndInv => TypeOK
    BY DEF IndInv
  <1> QED
    BY InitIndInv, IndNext, <1>1, PTL DEF Spec

(* Nothing waits for an answer that no job in flight will bring.              *)
THEOREM Served == Spec => []WaitingIsServed
  <1>1. IndInv => WaitingIsServed
    BY DEF IndInv, WaitingIsServed, OneRead, ListenersServed
  <1> QED
    BY InitIndInv, IndNext, <1>1, PTL DEF Spec

(* The history rows are those of the title, or are being read.                *)
THEOREM RowsUnderTheirTitle == Spec => []HistoryMatchesTitle
  <1>1. IndInv => HistoryMatchesTitle
    BY DEF IndInv
  <1> QED
    BY InitIndInv, IndNext, <1>1, PTL DEF Spec
=============================================================================
