-------------------------------- MODULE Store --------------------------------
(* The store behind its lock (src/src/nsh/store.rs), the engines that follow  *)
(* it (nsh/root.rs) and the host that shows and hides the panel and runs the  *)
(* main queue (nsh/host.rs, nsh/linux.rs).                                    *)
(*                                                                            *)
(* What a store method does is reduced to what it asks for: every method that *)
(* changes what is drawn tells the engines; some dress the tray with a look   *)
(* read now; some fit the panel. The store's content is a version and whether *)
(* the short Overview shows its notice row. Which look the tray wears is read *)
(* by nobody: a job that dresses it is a job in the queue.                    *)
(*                                                                            *)
(* The update itself is atomic, the lock is held; what it asked for is done   *)
(* after the release, step by step (Fx::flush), while other threads update.   *)
EXTENDS Naturals, Sequences

CONSTANTS Workers,      \* the ticks thread, engine threads, store jobs
          Main,         \* the host's main thread
          Engines, Panel,   \* the roots; Panel is the one that can be hidden
          MaxUpdates    \* bound on the updates begun

ASSUME StoreAssumption ==
    Main \notin Workers /\ Panel \in Engines /\ MaxUpdates \in Nat

Threads == Workers \cup {Main}

VARIABLES
    version, notice,      \* the store: its content, and notice::row_shown
    pc, fx,               \* per thread: where its flush is, and its Fx
    subs, token,          \* SUBSCRIBERS, and whether a channel holds its message
    eng, dirty, drawn,    \* per engine: its task, unpainted change, version painted
    visible, step,        \* the pace's flag; where main is in show or hide
    queue, fitted,        \* the main queue; NOTICE_FITTED
    owed                  \* history: notice moved in an update that asked no fit

store == <<version, notice, owed>>
flush == <<pc, fx>>
chans == <<subs, token>>
paint == <<eng, dirty, drawn>>
shown == <<visible, step>>
vars == <<store, flush, chans, paint, shown, queue, fitted>>

\* What updates ask for: a tick, or the switch to Alerts; most methods; the
\* reveal onto Alerts, or Settings' tray choice.
Ask(l, f) == [look |-> l, fit |-> f]
Asks == {Ask(TRUE, TRUE), Ask(FALSE, FALSE), Ask(TRUE, FALSE)}

FxType == [look : BOOLEAN, fit : BOOLEAN]
Jobs == {"wear", "fit"}

TypeOK ==
    /\ version \in Nat /\ notice \in BOOLEAN /\ owed \in BOOLEAN
    /\ pc \in [Threads -> {"idle", "tell", "look", "fit"}]
    /\ fx \in [Threads -> FxType]
    /\ subs \subseteq Engines /\ token \in [Engines -> BOOLEAN]
    /\ eng \in [Engines -> {"gone", "first", "waiting", "woke"}]
    /\ dirty \in [Engines -> BOOLEAN] /\ drawn \in [Engines -> Nat]
    /\ visible \in BOOLEAN /\ step \in {"none", "place", "show", "announce", "hide"}
    /\ queue \in Seq(Jobs) /\ fitted \in BOOLEAN

NoFx == Ask(FALSE, FALSE)

Init ==
    /\ version = 0 /\ notice = FALSE /\ owed = FALSE
    /\ pc = [t \in Threads |-> "idle"] /\ fx = [t \in Threads |-> NoFx]
    /\ subs = {} /\ token = [e \in Engines |-> FALSE]
    /\ eng = [e \in Engines |-> "gone"] /\ dirty = token
    /\ drawn = [e \in Engines |-> 0]
    /\ visible = FALSE /\ step = "none"
    /\ queue = <<>> /\ fitted = FALSE

----------------------------------------------------------------------------
(* store::update: the method under the lock, with what it asked for in Fx.    *)

Change(t, ask, row) ==
    /\ pc[t] = "idle"
    /\ version' = version + 1
    /\ notice' = row
    /\ owed' = (~ask.fit /\ (owed \/ notice' # notice))
    /\ fx' = [fx EXCEPT ![t] = ask]
    /\ pc' = [pc EXCEPT ![t] = "tell"]

Update(t) ==
    /\ version < MaxUpdates
    /\ \E ask \in Asks, row \in BOOLEAN : Change(t, ask, row)
    /\ UNCHANGED <<chans, paint, shown, queue, fitted>>

\* store::changed: try_send to every channel (bounded at one, so a second
\* message is the first), and the closed ones are forgotten.
TellAll ==
    /\ subs' = {e \in subs : eng[e] # "gone"}
    /\ token' = [e \in Engines |-> token[e] \/ (e \in subs /\ eng[e] # "gone")]

FlushChanged(t) ==
    /\ pc[t] = "tell"
    /\ TellAll
    /\ pc' = [pc EXCEPT ![t] = "look"]
    /\ UNCHANGED <<store, fx, paint, shown, queue, fitted>>

FlushLook(t) ==
    /\ pc[t] = "look"
    /\ queue' = IF fx[t].look THEN Append(queue, "wear") ELSE queue
    /\ pc' = [pc EXCEPT ![t] = "fit"]
    /\ UNCHANGED <<store, fx, chans, paint, shown, fitted>>

\* Mutant: a fit is not posted while the panel is hidden.
FlushFitShown(t) ==
    /\ pc[t] = "fit"
    /\ queue' = IF fx[t].fit /\ visible THEN Append(queue, "fit") ELSE queue
    /\ pc' = [pc EXCEPT ![t] = "idle"]
    /\ fx' = [fx EXCEPT ![t] = NoFx]
    /\ UNCHANGED <<store, chans, paint, shown, fitted>>

FlushFit(t) ==
    /\ pc[t] = "fit"
    /\ queue' = IF fx[t].fit THEN Append(queue, "fit") ELSE queue
    /\ pc' = [pc EXCEPT ![t] = "idle"]
    /\ fx' = [fx EXCEPT ![t] = NoFx]
    /\ UNCHANGED <<store, chans, paint, shown, fitted>>

----------------------------------------------------------------------------
(* An engine: its root subscribes as it is made, draws for the first time,    *)
(* and then follows (Live::follow). Closing the window drops the receiver.    *)

OnScreen(e) == e = Panel => visible

Subscribe(e) ==
    /\ eng[e] = "gone" /\ step = "none" /\ pc[Main] = "idle"
    /\ subs' = subs \cup {e} /\ token' = [token EXCEPT ![e] = FALSE]
    /\ eng' = [eng EXCEPT ![e] = "first"]
    /\ UNCHANGED <<store, flush, dirty, drawn, shown, queue, fitted>>

FirstDraw(e) ==
    /\ eng[e] = "first"
    /\ drawn' = [drawn EXCEPT ![e] = version]
    /\ eng' = [eng EXCEPT ![e] = "waiting"]
    /\ UNCHANGED <<store, flush, chans, dirty, shown, queue, fitted>>

Recv(e) ==
    /\ eng[e] = "waiting" /\ token[e]
    /\ token' = [token EXCEPT ![e] = FALSE]
    /\ eng' = [eng EXCEPT ![e] = "woke"]
    /\ UNCHANGED <<store, flush, subs, dirty, drawn, shown, queue, fitted>>

\* store::read(on_screen), and the revision is bumped if it says so.
Follow(e) ==
    /\ eng[e] = "woke"
    /\ dirty' = [dirty EXCEPT ![e] = @ \/ OnScreen(e)]
    /\ eng' = [eng EXCEPT ![e] = "waiting"]
    /\ UNCHANGED <<store, flush, chans, drawn, shown, queue, fitted>>

\* The closures that read the revision run again, over the store as it is now.
Redraw(e) ==
    /\ eng[e] = "waiting" /\ dirty[e]
    /\ drawn' = [drawn EXCEPT ![e] = version]
    /\ dirty' = [dirty EXCEPT ![e] = FALSE]
    /\ UNCHANGED <<store, flush, chans, eng, shown, queue, fitted>>

Close(e) ==
    /\ eng[e] # "gone" /\ step = "none" /\ pc[Main] = "idle"
    /\ eng' = [eng EXCEPT ![e] = "gone"]
    /\ dirty' = [dirty EXCEPT ![e] = FALSE]
    /\ UNCHANGED <<store, flush, chans, drawn, shown, queue, fitted>>

----------------------------------------------------------------------------
(* The main thread: show, hide, and the queue between them.                   *)

MainFree == step = "none" /\ pc[Main] = "idle"

\* show: sized with the row as it stands, and the frame noted in the store if
\* it moved (record_frame).
Show ==
    /\ MainFree /\ version < MaxUpdates
    /\ fitted' = notice
    /\ step' = "place"
    /\ Change(Main, Ask(FALSE, FALSE), notice) \/ UNCHANGED <<store, flush>>
    /\ UNCHANGED <<chans, paint, visible, queue>>

\* mark_shown: the pace first.
Reveal ==
    /\ step = "place" /\ pc[Main] = "idle"
    /\ visible' = TRUE
    /\ step' = "show"
    /\ UNCHANGED <<store, flush, chans, paint, queue, fitted>>

\* The tab's entry work, and Alerts seen if that is the tab: nothing, where
\* what the tab shows is fresh.
ShowUpdate ==
    /\ step = "show"
    /\ \/ \E ask \in {Ask(FALSE, FALSE), Ask(TRUE, FALSE)}, row \in BOOLEAN :
              Change(Main, ask, row)
       \/ UNCHANGED <<store, flush>>
    /\ step' = "announce"
    /\ UNCHANGED <<chans, paint, visible, queue, fitted>>

\* Mutant: the engine is not told again once the panel is up.
AnnounceNothing ==
    /\ step = "announce" /\ pc[Main] = "idle"
    /\ step' = "none"
    /\ UNCHANGED <<store, flush, chans, paint, visible, queue, fitted>>

\* "The panel's engine skipped every change while it was hidden; this one
\* brings it up to date": store::changed at the end of mark_shown.
Announce ==
    /\ step = "announce" /\ pc[Main] = "idle"
    /\ TellAll
    /\ step' = "none"
    /\ UNCHANGED <<store, flush, paint, visible, queue, fitted>>

HideUpdate ==
    /\ MainFree /\ visible /\ version < MaxUpdates
    /\ Change(Main, Ask(FALSE, FALSE), notice)
    /\ step' = "hide"
    /\ UNCHANGED <<chans, paint, visible, queue, fitted>>

HideDone ==
    /\ step = "hide" /\ pc[Main] = "idle"
    /\ visible' = FALSE
    /\ step' = "none"
    /\ UNCHANGED <<store, flush, chans, paint, queue, fitted>>

\* fit_panel reads the store afresh.
RunJob ==
    /\ MainFree /\ queue # <<>>
    /\ queue' = Tail(queue)
    /\ fitted' = IF Head(queue) = "fit" THEN notice ELSE fitted
    /\ UNCHANGED <<store, flush, chans, paint, shown>>

FlushStep(t) == FlushChanged(t) \/ FlushLook(t) \/ FlushFit(t)
EngineStep(e) == FirstDraw(e) \/ Recv(e) \/ Follow(e) \/ Redraw(e)

Next ==
    \/ \E t \in Workers : Update(t)
    \/ \E t \in Threads : FlushStep(t)
    \/ \E e \in Engines : Subscribe(e) \/ EngineStep(e) \/ Close(e)
    \/ Show \/ Reveal \/ ShowUpdate \/ Announce \/ HideUpdate \/ HideDone \/ RunJob

(* Threads that have begun a flush, a show or a hide go on; an engine's loop  *)
(* and the main queue run what is ready, and a frame is drawn for what is     *)
(* dirty however often the loop is woken in between.                          *)
Fairness ==
    /\ \A t \in Threads : WF_vars(FlushStep(t))
    /\ \A e \in Engines : WF_vars(EngineStep(e)) /\ SF_vars(Redraw(e))
    /\ WF_vars(Reveal \/ ShowUpdate \/ Announce \/ HideDone \/ RunJob)

Spec == Init /\ [][Next]_vars
FairSpec == Spec /\ Fairness

----------------------------------------------------------------------------
Telling == \E t \in Threads : pc[t] = "tell"

Pending(e) ==
    \/ token[e] \/ eng[e] = "woke" \/ dirty[e] \/ Telling
    \/ e = Panel /\ step \in {"show", "announce"}

\* A window on screen that paints an older store has a wake-up coming: the
\* one-slot channel never swallows the last change, however sending, waking,
\* hiding, showing and reloading interleave (store::changed, Live::follow).
NoLostWakeUp ==
    \A e \in Engines :
        eng[e] \in {"waiting", "woke"} /\ OnScreen(e) /\ drawn[e] # version => Pending(e)

FitPending ==
    \/ \E t \in Threads : fx[t].fit /\ pc[t] # "idle"
    \/ \E i \in 1..Len(queue) : queue[i] = "fit"

\* "The row and the height must be one answer" (notice.rs): once every fit that
\* was asked for has run, the panel's height is the row's, though the jobs can
\* reach the main queue in another order than their updates.
HeightFollowsRow == fitted # notice => FitPending \/ owed

\* A panel left on screen is painted up to date once the changes stop.
PanelCatchesUp ==
    <>[](visible /\ eng[Panel] # "gone") => <>[](drawn[Panel] = version)
=============================================================================
