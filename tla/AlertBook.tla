------------------------------ MODULE AlertBook ------------------------------
(* Today's alert episodes (src/src/state/alerts.rs) and the file of each day   *)
(* that outlives the process (src/src/alertlog.rs).                           *)
(*                                                                            *)
(* An event is its episode and whether it is critical; a wall clock is its    *)
(* calendar day. A tick brings at most one event: several in one tick are     *)
(* recorded one after the other and saved once. A day file is replaced whole, *)
(* by a rename, or the save fails and the old file stays.                     *)
EXTENDS Naturals, SequencesExt, Lists

CONSTANTS Episodes,     \* (subject, kind) pairs
          MaxAlerts,    \* MAX_ALERTS, and alertlog::KEEP
          LastDay,      \* bound on the days that pass
          MaxReports, MaxRestarts, MaxErrors    \* bounds on events and failures

ASSUME AlertAssumption ==
    /\ MaxAlerts \in Nat \ {0} /\ LastDay \in Nat
    /\ MaxReports \in Nat /\ MaxRestarts \in Nat /\ MaxErrors \in Nat

Days == 0..LastDay
Events == [ep : Episodes, grave : BOOLEAN]
Cards == [seq : Nat, ep : Episodes, grave : BOOLEAN, day : Days,
          live : BOOLEAN, noticed : BOOLEAN]
Rows == [ep : Episodes, grave : BOOLEAN, day : Days, dismissed : BOOLEAN]
NoPress == [seq |-> 0]

CardsOf(d) == {c \in Cards : c.day = d}
RowsOf(d) == {r \in Rows : r.day = d}
Standing == {r \in Rows : ~r.dismissed}

VARIABLES
    alerts, dismissed,    \* the list, newest first, and dismissed_today
    unseen, nextSeq,      \* tray_alert_unseen, and the last id given
    showing,              \* the Alerts tab is on screen
    pressed,              \* a card's dismiss pressed, not yet handled
    day, files,           \* today, and the file of each day
    failed,               \* history: the last save failed
    heard,                \* history: the episodes reported since launch
    acked,                \* history: per day, its episodes that were dismissed
    reports, restarts, errors    \* so far

book == <<alerts, dismissed, unseen, nextSeq>>
record == <<files, failed>>
vars == <<book, showing, pressed, day, record, heard, acked,
          reports, restarts, errors>>

TypeOK ==
    /\ alerts \in Seq(Cards) /\ Len(alerts) <= MaxAlerts
    /\ dismissed \in Seq(Rows) /\ Len(dismissed) <= MaxAlerts
    /\ unseen \in BOOLEAN /\ nextSeq \in Nat /\ showing \in BOOLEAN
    /\ pressed \in [seq : Nat, ep : Episodes] \cup {NoPress}
    /\ day \in Days /\ files \in [Days -> Seq(Rows)] /\ failed \in BOOLEAN
    /\ heard \subseteq Episodes /\ acked \in [Days -> SUBSET Episodes]
    /\ reports \in Nat /\ restarts \in Nat /\ errors \in Nat

Init ==
    /\ alerts = <<>> /\ dismissed = <<>> /\ unseen = FALSE /\ nextSeq = 0
    /\ showing = FALSE /\ pressed = NoPress
    /\ day = 0 /\ files = [d \in Days |-> <<>>] /\ failed = FALSE
    /\ heard = {} /\ acked = [d \in Days |-> {}]
    /\ reports = 0 /\ restarts = 0 /\ errors = 0

----------------------------------------------------------------------------
(* The day's file.                                                            *)

Row(card, gone) == [ep |-> card.ep, grave |-> card.grave, day |-> card.day, dismissed |-> gone]

AsRows(cards) == [i \in DOMAIN cards |-> Row(cards[i], FALSE)]

\* persist_alerts and save_in: the list and then what was dismissed, of `on`
\* only, over whatever that day's file held.
Save(cards, gone, on) ==
    LET share == Only(AsRows(cards) \o gone, RowsOf(on))
    IN  \/ /\ files' = [files EXCEPT ![on] = share] /\ failed' = FALSE
           /\ UNCHANGED errors
        \/ /\ errors < MaxErrors /\ errors' = errors + 1
           /\ failed' = TRUE /\ UNCHANGED files

----------------------------------------------------------------------------
(* record_alert: merged into its episode and moved to the front.              *)

Graver(event, card) == event.grave /\ ~card.grave

\* Mutant: every report of an episode is news.
MergedAnew(card, event, on) ==
    [card EXCEPT !.day = on, !.live = TRUE, !.grave = event.grave, !.noticed = FALSE]

Merged(card, event, on) ==
    [card EXCEPT !.day = on, !.live = TRUE, !.grave = event.grave,
                 !.noticed = @ /\ card.live /\ ~Graver(event, card)]

Opened(event, on, seq) ==
    [seq |-> seq, ep |-> event.ep, grave |-> event.grave, day |-> on,
     live |-> TRUE, noticed |-> FALSE]

\* Mutant: only a card reported in this session is merged into.
RecordedLive(cards, event, on, seq) ==
    LET same == {i \in DOMAIN cards : cards[i].ep = event.ep /\ cards[i].live}
    IN  IF same # {}
        THEN LET i == Min(same) IN <<Merged(cards[i], event, on)>> \o RemoveAt(cards, i)
        ELSE LET all == <<Opened(event, on, seq)>> \o cards
             IN  SubSeq(all, 1, Min({Len(all), MaxAlerts}))

Recorded(cards, event, on, seq) ==
    LET same == {i \in DOMAIN cards : cards[i].ep = event.ep}
    IN  IF same # {}
        THEN LET i == Min(same) IN <<Merged(cards[i], event, on)>> \o RemoveAt(cards, i)
        ELSE LET all == <<Opened(event, on, seq)>> \o cards
             IN  SubSeq(all, 1, Min({Len(all), MaxAlerts}))

Seen(cards) == [i \in DOMAIN cards |-> [cards[i] EXCEPT !.noticed = TRUE]]

----------------------------------------------------------------------------
(* The tick: its event recorded, seen if the tab is up, and saved; then, once *)
(* a minute, the list is held to today's. The event's day is read first, and  *)
(* midnight can pass before the file's is. The save before the pruning and    *)
(* the one after it write the same rows, and are one here.                    *)

\* retain_today: what is left of the list, and of dismissed_today.
Retain(cards, pruning, on) ==
    /\ alerts' = IF pruning THEN Only(cards, CardsOf(on)) ELSE cards
    /\ dismissed' = IF pruning THEN Only(dismissed, RowsOf(on)) ELSE dismissed

\* Mutant: what arrives under the open tab is not counted as seen.
IngestUnseen(event) == Recorded(alerts, event, day, nextSeq + 1)

Ingest(event) ==
    LET cards == Recorded(alerts, event, day, nextSeq + 1)
    IN  IF showing THEN Seen(cards) ELSE cards

Report ==
    /\ reports < MaxReports /\ reports' = reports + 1
    /\ \E event \in Events, pruning \in BOOLEAN, on \in {day, day + 1} \cap Days :
        /\ Retain(Ingest(event), pruning, on)
        /\ Save(alerts', dismissed', on)
        /\ nextSeq' = IF \E i \in DOMAIN alerts : alerts[i].ep = event.ep
                      THEN nextSeq ELSE nextSeq + 1
        /\ heard' = heard \cup {event.ep}
        /\ day' = on
    /\ unseen' = ~showing
    /\ UNCHANGED <<showing, pressed, acked, restarts>>

\* A tick without an event that finds the day turned.
Prune ==
    /\ Retain(alerts, TRUE, day)
    /\ <<alerts', dismissed'>> # <<alerts, dismissed>>
    /\ Save(alerts', dismissed', day)
    /\ UNCHANGED <<unseen, nextSeq, showing, pressed, day, heard, acked, reports, restarts>>

NextDay ==
    /\ day < LastDay
    /\ day' = day + 1
    /\ UNCHANGED <<book, showing, pressed, record, heard, acked, reports, restarts, errors>>

----------------------------------------------------------------------------
(* The Alerts tab, and a card's dismiss: pressed on what is drawn, handled by *)
(* the engine thread later, when the list may have moved under it.            *)

Look ==
    /\ ~showing /\ showing' = TRUE
    /\ alerts' = Seen(alerts) /\ unseen' = FALSE
    /\ UNCHANGED <<dismissed, nextSeq, pressed, day, record, heard, acked,
                   reports, restarts, errors>>

LookAway ==
    /\ showing /\ showing' = FALSE
    /\ UNCHANGED <<book, pressed, day, record, heard, acked, reports, restarts, errors>>

PressDismiss ==
    /\ showing /\ pressed = NoPress
    /\ \E i \in DOMAIN alerts : pressed' = [seq |-> alerts[i].seq, ep |-> alerts[i].ep]
    /\ UNCHANGED <<book, showing, day, record, heard, acked, reports, restarts, errors>>

\* drop_alert: out of the list, into the record.
Drop(i) ==
    LET gone == Append(dismissed, Row(alerts[i], TRUE))
    IN  /\ alerts' = RemoveAt(alerts, i)
        /\ dismissed' = IF Len(gone) > MaxAlerts THEN Tail(gone) ELSE gone
        /\ acked' = [acked EXCEPT ![alerts[i].day] = @ \cup {alerts[i].ep}]

\* Mutant: the card at the front is dropped, wherever the pressed one is.
DismissFront ==
    /\ pressed # NoPress /\ pressed' = NoPress
    /\ \/ /\ alerts # <<>> /\ Drop(1) /\ Save(alerts', dismissed', day)
       \/ /\ alerts = <<>>
          /\ UNCHANGED <<alerts, dismissed, acked, record, errors>>
    /\ UNCHANGED <<unseen, nextSeq, showing, day, heard, reports, restarts>>

\* Mutant: the file is not written for a dismissal.
DismissQuietly ==
    /\ pressed # NoPress /\ pressed' = NoPress
    /\ \/ \E i \in DOMAIN alerts : alerts[i].seq = pressed.seq /\ Drop(i)
       \/ /\ \A i \in DOMAIN alerts : alerts[i].seq # pressed.seq
          /\ UNCHANGED <<alerts, dismissed, acked>>
    /\ UNCHANGED <<unseen, nextSeq, showing, day, record, heard, reports, restarts, errors>>

\* dismiss_alert: by id; a card that has gone meanwhile is nobody's.
Dismiss ==
    /\ pressed # NoPress /\ pressed' = NoPress
    /\ \/ \E i \in DOMAIN alerts :
              alerts[i].seq = pressed.seq /\ Drop(i) /\ Save(alerts', dismissed', day)
       \/ /\ \A i \in DOMAIN alerts : alerts[i].seq # pressed.seq
          /\ UNCHANGED <<alerts, dismissed, acked, record, errors>>
    /\ UNCHANGED <<unseen, nextSeq, showing, day, heard, reports, restarts>>

----------------------------------------------------------------------------
(* Quit or crash, and the next launch: today's file is read back.             *)

\* Mutant: restored cards may act.
AdoptLive(rows) ==
    [i \in DOMAIN rows |-> [seq |-> i, ep |-> rows[i].ep, grave |-> rows[i].grave,
                            day |-> rows[i].day, live |-> TRUE, noticed |-> FALSE]]

Adopt(rows) ==
    [i \in DOMAIN rows |-> [seq |-> i, ep |-> rows[i].ep, grave |-> rows[i].grave,
                            day |-> rows[i].day, live |-> FALSE, noticed |-> FALSE]]

\* load_in: "dismissed ones stay in the file and out of the list".
Restart ==
    /\ restarts < MaxRestarts /\ restarts' = restarts + 1
    /\ LET kept == Only(files[day], Standing)
           rows == SubSeq(kept, 1, Min({Len(kept), MaxAlerts}))
       IN  alerts' = Adopt(rows) /\ nextSeq' = Len(rows)
    /\ dismissed' = <<>> /\ unseen' = FALSE /\ showing' = FALSE
    /\ pressed' = NoPress /\ heard' = {} /\ failed' = FALSE
    /\ UNCHANGED <<day, files, acked, reports, errors>>

Next ==
    \/ Report \/ Prune \/ NextDay
    \/ Look \/ LookAway \/ PressDismiss \/ Dismiss
    \/ Restart

Spec == Init /\ [][Next]_vars

----------------------------------------------------------------------------
Indices(e) == {i \in DOMAIN alerts : alerts[i].ep = e}
Held(e) == Indices(e) # {}
News(e) == \E i \in Indices(e) : alerts[i].live /\ ~alerts[i].noticed

\* A condition has one card, also when it is reported again after a restart
\* restored it, or after its card was dismissed (record_alert, adopt_alerts).
OneCardPerEpisode == \A e \in Episodes : Cardinality(Indices(e)) <= 1

\* "A file is a plain mirror of what the panel shows": what a launch would read
\* is today's share of the list, in its order, unless the last save failed.
TodayIsMirrored ==
    ~failed =>
        Only(files[day], Standing)
            = Only(AsRows(alerts), RowsOf(day))

\* "The buttons appear only once a live report has confirmed the pid during
\* this run": no restored card acts before its subject is reported again.
LiveWasReported == \A i \in DOMAIN alerts : alerts[i].live => alerts[i].ep \in heard

\* What a restart restores is neither doubled by the next report nor acted on
\* before it.
RestoredCardsWait == OneCardPerEpisode /\ LiveWasReported

\* With the Alerts tab on screen nothing is news and the tray's spot is off,
\* whatever lands under it (ingest, see_alerts).
ShownIsSeen == showing => ~unseen /\ \A e \in Episodes : ~News(e)

\* A dismissal takes the card it was pressed on, or none: the list reorders and
\* trims itself between the press and its handling (SeenAlert::seq).
DismissHitsItsCard ==
    [][pressed # NoPress /\ pressed' = NoPress /\ restarts' = restarts =>
           \A e \in Episodes : Held(e) /\ ~Held(e)' => e = pressed.ep]_vars

\* A follow-up of an episode already seen brings the notice row back only when
\* it is graver than what was seen (see_alerts, record_alert).
FollowUpsAreQuiet ==
    [][\A e \in Episodes :
           \A i \in Indices(e) :
               alerts[i].live /\ alerts[i].noticed /\ News(e)' =>
                   ~alerts[i].grave /\ \E j \in Indices(e)' : alerts'[j].grave]_vars

\* "A dismissed card leaves the list but not the day's file" (alertlog.rs).
DismissedStayOnRecord ==
    ~failed =>
        \A e \in acked[day] : \E i \in DOMAIN files[day] : files[day][i].ep = e
=============================================================================
