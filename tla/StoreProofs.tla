----------------------------- MODULE StoreProofs -----------------------------
(* Theorems about Store, for any workers, any engines and any number of       *)
(* updates, and their proofs.                                                 *)
EXTENDS Store, TLAPS

USE DEF store, flush, chans, paint, shown, Threads

LEMMA AskTyped == \A ask \in Asks : ask.look \in BOOLEAN /\ ask.fit \in BOOLEAN
  <1>1. \A l, f \in BOOLEAN : Ask(l, f).look = l /\ Ask(l, f).fit = f
    BY DEF Ask
  <1>2. \A ask \in Asks : \E l, f \in BOOLEAN : ask = Ask(l, f)
    BY Zenon DEF Asks
  <1> QED
    BY <1>1, <1>2

LEMMA ChangeTyped ==
  ASSUME TypeOK, NEW t \in Threads, NEW ask \in Asks, NEW row \in BOOLEAN,
         Change(t, ask, row)
  PROVE  /\ version' \in Nat /\ notice' \in BOOLEAN /\ owed' \in BOOLEAN
         /\ pc' \in [Threads -> {"idle", "tell", "look", "fit"}]
         /\ fx' \in [Threads -> FxType]
  <1>1. ask.look \in BOOLEAN /\ ask.fit \in BOOLEAN
    BY AskTyped
  <1>2. version' \in Nat /\ notice' \in BOOLEAN /\ owed' \in BOOLEAN
    BY <1>1 DEF TypeOK, Change
  <1>3. ask \in FxType
    <2>1. \A l, f \in BOOLEAN : Ask(l, f) \in FxType
      BY DEF Ask, FxType
    <2>2. \E l, f \in BOOLEAN : ask = Ask(l, f)
      BY Zenon DEF Asks
    <2> QED
      BY <2>1, <2>2
  <1>4. fx' \in [Threads -> FxType]
    BY <1>3 DEF TypeOK, Change
  <1>5. pc' \in [Threads -> {"idle", "tell", "look", "fit"}]
    BY DEF TypeOK, Change
  <1> QED
    BY <1>2, <1>4, <1>5

LEMMA TypeNext == TypeOK /\ [Next]_vars => TypeOK'
  <1> SUFFICES ASSUME TypeOK, [Next]_vars PROVE TypeOK'
    OBVIOUS
  <1>1. ASSUME NEW t \in Workers, Update(t) PROVE TypeOK'
    BY <1>1, ChangeTyped DEF Update, TypeOK
  <1>2. ASSUME NEW t \in Threads, FlushChanged(t) PROVE TypeOK'
    BY <1>2 DEF FlushChanged, TellAll, TypeOK
  <1>3. ASSUME NEW t \in Threads, FlushLook(t) PROVE TypeOK'
    <2>1. queue' \in Seq(Jobs)
      BY <1>3 DEF FlushLook, TypeOK, Jobs
    <2> QED
      BY <1>3, <2>1 DEF FlushLook, TypeOK
  <1>4. ASSUME NEW t \in Threads, FlushFit(t) PROVE TypeOK'
    <2>1. queue' \in Seq(Jobs)
      BY <1>4 DEF FlushFit, TypeOK, Jobs
    <2>2. NoFx \in FxType
      BY DEF NoFx, Ask, FxType
    <2> QED
      BY <1>4, <2>1, <2>2 DEF FlushFit, TypeOK
  <1>5. ASSUME NEW e \in Engines, Subscribe(e) \/ FirstDraw(e) \/ Recv(e) \/ Close(e)
        PROVE TypeOK'
    BY <1>5 DEF Subscribe, FirstDraw, Recv, Close, TypeOK
  <1>6. ASSUME NEW e \in Engines, Follow(e) \/ Redraw(e) PROVE TypeOK'
    BY <1>6 DEF Follow, Redraw, OnScreen, TypeOK
  <1>7. CASE Reveal \/ HideDone
    BY <1>7 DEF Reveal, HideDone, TypeOK
  <1>8. CASE Announce
    BY <1>8 DEF Announce, TellAll, TypeOK
  <1>9. CASE ShowUpdate
    <2>1. ASSUME NEW ask \in Asks, NEW row \in BOOLEAN, Change(Main, ask, row)
          PROVE  TypeOK'
      BY <1>9, <2>1, ChangeTyped DEF ShowUpdate, TypeOK
    <2>2. CASE UNCHANGED <<store, flush>>
      BY <1>9, <2>2 DEF ShowUpdate, TypeOK
    <2> QED
      BY <1>9, <2>1, <2>2 DEF ShowUpdate, Asks
  <1>10. CASE HideUpdate
    <2>1. Ask(FALSE, FALSE) \in Asks /\ notice \in BOOLEAN
      BY DEF Asks, TypeOK
    <2> QED
      BY <1>10, <2>1, ChangeTyped DEF HideUpdate, TypeOK
  <1>11. CASE RunJob
    <2>1. Head(queue) \in Jobs /\ Tail(queue) \in Seq(Jobs)
      BY <1>11 DEF RunJob, TypeOK
    <2> QED
      BY <1>11, <2>1 DEF RunJob, TypeOK, Jobs
  <1>12. CASE UNCHANGED vars
    BY <1>12 DEF vars, TypeOK
  <1>13. CASE Show
    <2>1. Ask(FALSE, FALSE) \in Asks /\ notice \in BOOLEAN
      BY DEF Asks, TypeOK
    <2> QED
      BY <1>13, <2>1, ChangeTyped DEF Show, TypeOK
  <1> QED
    BY <1>1, <1>2, <1>3, <1>4, <1>5, <1>6, <1>7, <1>8, <1>9, <1>10, <1>11, <1>12, <1>13
    DEF Next, FlushStep, EngineStep

\* A root that is there is in the list of subscribers.
Listed == \A e \in Engines : eng[e] # "gone" => e \in subs

IndInv == TypeOK /\ Listed /\ NoLostWakeUp

LEMMA ListedNext == TypeOK /\ Listed /\ [Next]_vars => Listed'
  <1> SUFFICES ASSUME TypeOK, Listed, [Next]_vars PROVE Listed'
    OBVIOUS
  <1> USE DEF TypeOK, Listed
  <1>1. ASSUME NEW t \in Threads, FlushChanged(t) \/ Announce PROVE Listed'
    BY <1>1 DEF FlushChanged, Announce, TellAll
  <1>2. ASSUME NEW e \in Engines,
               Subscribe(e) \/ FirstDraw(e) \/ Recv(e) \/ Follow(e) \/ Redraw(e) \/ Close(e)
        PROVE  Listed'
    BY <1>2 DEF Subscribe, FirstDraw, Recv, Follow, Redraw, Close
  <1>3. ASSUME UNCHANGED <<eng, subs>> PROVE Listed'
    BY <1>3
  <1> QED
    BY <1>1, <1>2, <1>3
    DEF Next, FlushStep, EngineStep, Update, FlushLook, FlushFit, Show, Reveal, ShowUpdate,
        HideUpdate, HideDone, RunJob, vars

\* An update owes its own telling.
LEMMA ChangeTells ==
  ASSUME TypeOK, NEW t \in Threads, NEW ask \in Asks, NEW row \in BOOLEAN,
         Change(t, ask, row)
  PROVE  Telling'
  BY DEF TypeOK, Change, Telling

\* Everybody listening has a message once all have been told.
LEMMA TellAllTells ==
  ASSUME TypeOK, Listed, TellAll, NEW e \in Engines, eng[e] # "gone"
  PROVE  token'[e]
  BY DEF TypeOK, Listed, TellAll

LEMMA WakeNext == IndInv /\ [Next]_vars => NoLostWakeUp'
  <1> SUFFICES ASSUME TypeOK, Listed, NoLostWakeUp, [Next]_vars,
                      NEW e \in Engines,
                      (eng[e] \in {"waiting", "woke"} /\ OnScreen(e) /\ drawn[e] # version)'
               PROVE  Pending(e)'
    BY DEF IndInv, NoLostWakeUp
  <1>1. ASSUME NEW t \in Workers, Update(t) PROVE Pending(e)'
    BY <1>1, ChangeTells DEF Update, Pending
  <1>2. ASSUME NEW t \in Threads, FlushChanged(t) PROVE Pending(e)'
    BY <1>2, TellAllTells DEF FlushChanged, Pending
  <1>3. ASSUME NEW t \in Threads, FlushLook(t) \/ FlushFit(t) PROVE Pending(e)'
    <2>1. Telling => Telling'
      BY <1>3 DEF FlushLook, FlushFit, Telling, TypeOK
    <2> QED
      BY <1>3, <2>1 DEF FlushLook, FlushFit, NoLostWakeUp, Pending, OnScreen
  <1>4. ASSUME NEW d \in Engines,
               Subscribe(d) \/ FirstDraw(d) \/ Recv(d) \/ Follow(d) \/ Redraw(d) \/ Close(d)
        PROVE  Pending(e)'
    <2>1. Telling' = Telling /\ step' = step /\ visible' = visible /\ version' = version
      BY <1>4 DEF Subscribe, FirstDraw, Recv, Follow, Redraw, Close, Telling
    <2>2. CASE d # e
      BY <1>4, <2>1, <2>2 DEF Subscribe, FirstDraw, Recv, Follow, Redraw, Close, TypeOK,
                             NoLostWakeUp, Pending, OnScreen
    <2>3. CASE d = e
      BY <1>4, <2>1, <2>3 DEF Subscribe, FirstDraw, Recv, Follow, Redraw, Close, TypeOK,
                             NoLostWakeUp, Pending, OnScreen
    <2> QED
      BY <2>2, <2>3
  <1>5. CASE Show
    <2>1. CASE UNCHANGED <<store, flush>>
      BY <1>5, <2>1 DEF Show, MainFree, NoLostWakeUp, Pending, OnScreen, Telling
    <2>2. CASE Change(Main, Ask(FALSE, FALSE), notice)
      <3>1. Ask(FALSE, FALSE) \in Asks /\ notice \in BOOLEAN
        BY DEF Asks, TypeOK
      <3> QED
        BY <2>2, <3>1, ChangeTells DEF Pending
    <2> QED
      BY <1>5, <2>1, <2>2 DEF Show
  <1>6. CASE ShowUpdate
    <2>1. step' = "announce"
      BY <1>6 DEF ShowUpdate
    <2>2. CASE e = Panel
      BY <2>1, <2>2 DEF Pending
    <2>3. ASSUME NEW ask \in Asks, NEW row \in BOOLEAN, Change(Main, ask, row)
          PROVE  Pending(e)'
      BY <2>3, ChangeTells DEF Pending
    <2>4. CASE UNCHANGED <<store, flush>> /\ e # Panel
      BY <1>6, <2>4 DEF ShowUpdate, NoLostWakeUp, Pending, OnScreen, Telling
    <2> QED
      BY <1>6, <2>2, <2>3, <2>4 DEF ShowUpdate, Asks
  <1>7. CASE Announce
    BY <1>7, TellAllTells DEF Announce, Pending
  <1>8. CASE HideUpdate
    <2>1. Ask(FALSE, FALSE) \in Asks /\ notice \in BOOLEAN
      BY DEF Asks, TypeOK
    <2> QED
      BY <1>8, <2>1, ChangeTells DEF HideUpdate, Pending
  <1>9. CASE HideDone
    BY <1>9 DEF HideDone, NoLostWakeUp, Pending, OnScreen, Telling
  <1>10. CASE RunJob \/ UNCHANGED vars
    BY <1>10 DEF RunJob, vars, NoLostWakeUp, Pending, OnScreen, Telling
  <1>11. CASE Reveal
    BY <1>11 DEF Reveal, NoLostWakeUp, Pending, OnScreen, Telling
  <1> QED
    BY <1>1, <1>2, <1>3, <1>4, <1>5, <1>6, <1>7, <1>8, <1>9, <1>10, <1>11
    DEF Next, FlushStep, EngineStep

LEMMA InitIndInv == Init => IndInv
  <1> SUFFICES ASSUME Init PROVE IndInv
    OBVIOUS
  <1>1. NoFx \in FxType
    BY DEF NoFx, Ask, FxType
  <1>2. <<>> \in Seq(Jobs)
    OBVIOUS
  <1>3. fx \in [Threads -> FxType] /\ pc \in [Threads -> {"idle", "tell", "look", "fit"}]
    BY <1>1 DEF Init
  <1>4. TypeOK
    BY <1>2, <1>3 DEF Init, TypeOK
  <1>5. Listed /\ NoLostWakeUp
    BY DEF Init, Listed, NoLostWakeUp
  <1> QED
    BY <1>4, <1>5 DEF IndInv

(* The store's state keeps its types, whatever updates interleave.            *)
THEOREM TypeCorrect == Spec => []TypeOK
  <1>1. Init => TypeOK
    BY InitIndInv DEF IndInv
  <1> QED
    BY <1>1, TypeNext, PTL DEF Spec

(* No window on screen is left painting an old store with no wake-up coming.  *)
THEOREM WakeUpsKept == Spec => []NoLostWakeUp
  <1>1. IndInv /\ [Next]_vars => IndInv'
    BY TypeNext, ListedNext, WakeNext DEF IndInv
  <1>2. IndInv => NoLostWakeUp
    BY DEF IndInv
  <1> QED
    BY InitIndInv, <1>1, <1>2, PTL DEF Spec

----------------------------------------------------------------------------
(* The height.                                                                *)

\* A fit that was asked for stays pending through whatever asks for none.
LEMMA ChangeKeepsFits ==
  ASSUME TypeOK, NEW t \in Threads, NEW ask \in Asks, NEW row \in BOOLEAN,
         Change(t, ask, row), queue' = queue
  PROVE  /\ FitPending => FitPending'
         /\ FitPending' \/ (owed' = (owed \/ notice' # notice))
  <1>1. ASSUME NEW s \in Threads, fx[s].fit, pc[s] # "idle" PROVE FitPending'
    <2>1. fx'[s] = fx[s] /\ pc'[s] = pc[s]
      BY <1>1 DEF Change, TypeOK
    <2> QED
      BY <1>1, <2>1 DEF FitPending
  <1>2. FitPending => FitPending'
    BY <1>1 DEF FitPending
  <1>3. CASE ask.fit
    <2>1. fx'[t].fit /\ pc'[t] # "idle"
      BY <1>3 DEF Change, TypeOK
    <2> QED
      BY <1>2, <2>1 DEF FitPending
  <1>4. CASE ~ask.fit
    BY <1>2, <1>4 DEF Change
  <1> QED
    BY <1>3, <1>4

\* HeightFollowsRow after a step that changes neither the height nor what is owed.
LEMMA HeightStays ==
  ASSUME HeightFollowsRow, FitPending => FitPending',
         fitted' = fitted, notice' = notice, owed' = owed
  PROVE  HeightFollowsRow'
  BY DEF HeightFollowsRow

LEMMA HeightChanges ==
  ASSUME TypeOK, HeightFollowsRow, NEW t \in Threads, NEW ask \in Asks, NEW row \in BOOLEAN,
         Change(t, ask, row), queue' = queue, fitted' \in {fitted, notice}
  PROVE  HeightFollowsRow'
  <1>1. /\ FitPending => FitPending'
        /\ FitPending' \/ (owed' = (owed \/ notice' # notice))
    BY ChangeKeepsFits
  <1>2. notice' # notice => FitPending' \/ owed'
    BY <1>1
  <1>3. notice' = notice /\ fitted' # notice' => FitPending' \/ owed'
    BY <1>1 DEF HeightFollowsRow
  <1> QED
    BY <1>2, <1>3 DEF HeightFollowsRow

LEMMA HeightNext == TypeOK /\ HeightFollowsRow /\ [Next]_vars => HeightFollowsRow'
  <1> SUFFICES ASSUME TypeOK, HeightFollowsRow, [Next]_vars PROVE HeightFollowsRow'
    OBVIOUS
  <1>1. ASSUME NEW t \in Workers, Update(t) PROVE HeightFollowsRow'
    BY <1>1, HeightChanges DEF Update
  <1>2. ASSUME NEW t \in Threads, FlushChanged(t) PROVE HeightFollowsRow'
    <2>1. FitPending => FitPending'
      BY <1>2 DEF FlushChanged, FitPending, TypeOK
    <2> QED
      BY <1>2, <2>1, HeightStays DEF FlushChanged
  <1>3. ASSUME NEW t \in Threads, FlushLook(t) PROVE HeightFollowsRow'
    <2>1. ASSUME NEW s \in Threads, fx[s].fit, pc[s] # "idle" PROVE FitPending'
      BY <1>3, <2>1 DEF FlushLook, FitPending, TypeOK
    <2>2. ASSUME NEW i \in 1..Len(queue), queue[i] = "fit" PROVE FitPending'
      <3>1. i \in 1..Len(queue') /\ queue'[i] = queue[i]
        BY <1>3 DEF FlushLook, TypeOK
      <3> QED
        BY <2>2, <3>1 DEF FitPending
    <2> QED
      BY <1>3, <2>1, <2>2, HeightStays DEF FlushLook, FitPending
  <1>4. ASSUME NEW t \in Threads, FlushFit(t) PROVE HeightFollowsRow'
    <2>1. ASSUME NEW i \in 1..Len(queue), queue[i] = "fit" PROVE FitPending'
      <3>1. i \in 1..Len(queue') /\ queue'[i] = queue[i]
        BY <1>4 DEF FlushFit, TypeOK
      <3> QED
        BY <2>1, <3>1 DEF FitPending
    <2>2. ASSUME fx[t].fit PROVE FitPending'
      <3> DEFINE job == "fit"
      <3>1. queue' = Append(queue, job) /\ queue \in Seq(Jobs) /\ job = "fit"
        BY <1>4, <2>2 DEF FlushFit, TypeOK
      <3> HIDE DEF job
      <3>2. Len(queue') = Len(queue) + 1 /\ queue'[Len(queue) + 1] = job /\ Len(queue) \in Nat
        BY <3>1
      <3> QED
        BY <3>1, <3>2 DEF FitPending
    <2>3. ASSUME NEW s \in Threads, s # t, fx[s].fit, pc[s] # "idle" PROVE FitPending'
      <3>1. fx'[s] = fx[s] /\ pc'[s] = pc[s]
        BY <1>4, <2>3 DEF FlushFit, TypeOK
      <3> QED
        BY <2>3, <3>1 DEF FitPending
    <2>4. FitPending => FitPending'
      BY <2>1, <2>2, <2>3 DEF FitPending
    <2> QED
      BY <1>4, <2>4, HeightStays DEF FlushFit
  <1>5. CASE Show
    <2>1. fitted' = notice /\ queue' = queue
      BY <1>5 DEF Show
    <2>2. CASE UNCHANGED <<store, flush>>
      BY <2>1, <2>2 DEF HeightFollowsRow
    <2>3. CASE Change(Main, Ask(FALSE, FALSE), notice)
      <3>1. Ask(FALSE, FALSE) \in Asks /\ notice \in BOOLEAN
        BY DEF Asks, TypeOK
      <3> QED
        BY <2>1, <2>3, <3>1, HeightChanges
    <2> QED
      BY <1>5, <2>2, <2>3 DEF Show
  <1>6. CASE ShowUpdate
    <2>1. fitted' = fitted /\ queue' = queue
      BY <1>6 DEF ShowUpdate
    <2>2. ASSUME NEW ask \in Asks, NEW row \in BOOLEAN, Change(Main, ask, row)
          PROVE  HeightFollowsRow'
      BY <2>1, <2>2, HeightChanges
    <2>3. CASE UNCHANGED <<store, flush>>
      BY <2>1, <2>3, HeightStays DEF FitPending
    <2> QED
      BY <1>6, <2>2, <2>3 DEF ShowUpdate, Asks
  <1>7. CASE HideUpdate
    <2>1. Ask(FALSE, FALSE) \in Asks /\ notice \in BOOLEAN
      BY DEF Asks, TypeOK
    <2> QED
      BY <1>7, <2>1, HeightChanges DEF HideUpdate
  <1>8. CASE RunJob
    <2>1. UNCHANGED <<store, flush>> /\ queue \in Seq(Jobs) /\ queue # <<>> /\ queue' = Tail(queue)
      BY <1>8 DEF RunJob, TypeOK
    <2>2. CASE Head(queue) # "fit"
      <3>1. ASSUME NEW i \in 1..Len(queue), queue[i] = "fit" PROVE FitPending'
        <4>1. i # 1
          BY <2>1, <2>2, <3>1
        <4>2. i - 1 \in 1..Len(queue') /\ queue'[i - 1] = queue[i]
          BY <2>1, <4>1
        <4> QED
          BY <3>1, <4>2 DEF FitPending
      <3>2. FitPending => FitPending'
        BY <2>1, <3>1 DEF FitPending
      <3> QED
        BY <1>8, <2>1, <2>2, <3>2, HeightStays DEF RunJob
    <2>3. CASE Head(queue) = "fit"
      <3>1. fitted' = notice'
        BY <1>8, <2>1, <2>3 DEF RunJob
      <3> QED
        BY <3>1 DEF HeightFollowsRow
    <2> QED
      BY <2>2, <2>3
  <1>9. ASSUME UNCHANGED <<store, flush, queue, fitted>> PROVE HeightFollowsRow'
    BY <1>9 DEF HeightFollowsRow, FitPending
  <1>10. CASE \/ \E e \in Engines : Subscribe(e) \/ EngineStep(e) \/ Close(e)
              \/ Reveal \/ Announce \/ HideDone \/ UNCHANGED vars
    <2>1. UNCHANGED <<store, flush, queue, fitted>>
      BY <1>10 DEF Subscribe, EngineStep, FirstDraw, Recv, Follow, Redraw, Close, Reveal,
                   Announce, HideDone, vars
    <2> QED
      BY <1>9, <2>1
  <1> QED
    BY <1>1, <1>2, <1>3, <1>4, <1>5, <1>6, <1>7, <1>8, <1>10 DEF Next, FlushStep

(* Once every fit that was asked for has run, the panel's height is the row's, *)
(* for any workers and updates, though fits reach the main queue out of order. *)
THEOREM HeightIsTheRows == Spec => []HeightFollowsRow
  <1>1. Init => TypeOK /\ HeightFollowsRow
    <2>1. Init => HeightFollowsRow
      BY DEF Init, HeightFollowsRow
    <2> QED
      BY <2>1, InitIndInv DEF IndInv
  <1>2. TypeOK /\ HeightFollowsRow /\ [Next]_vars => (TypeOK /\ HeightFollowsRow)'
    BY TypeNext, HeightNext
  <1> QED
    BY <1>1, <1>2, PTL DEF Spec
=============================================================================
