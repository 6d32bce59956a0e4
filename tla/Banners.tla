------------------------------- MODULE Banners -------------------------------
(* Which alert reports interrupt: the three gates of on_tick                  *)
(* (src/src/state/mod.rs) and the snooze and the hourly ration behind them    *)
(* (src/src/state/alerts.rs), with what the card says of both.                *)
(*                                                                            *)
(* One step of the clock is half an hour. The clock is Instant's: it stands   *)
(* still while the machine sleeps.                                            *)
EXTENDS Integers, SequencesExt, Lists

CONSTANTS Episodes,
          Window, NoisyAfter,     \* NOISY_WINDOW and NOISY_AFTER
          SnoozeChoices,          \* how long a card can be quieted for
          Horizon                 \* bound on the clock

VARIABLES
    now,
    muted,          \* the master switch, off
    snoozed,        \* alert_book.snoozed: until when, 0 for no entry
    sent,           \* alert_book.banner_sent: when, oldest first
    verdict,        \* the `banner` of the last "alert reported" line
    delivered       \* history: every banner of the episode that was let
                    \* through in the last window and since it was resumed

vars == <<now, muted, snoozed, sent, verdict, delivered>>

Verdicts == {"none", "muted", "snoozed", "auto-quieted", "delivered"}

TypeOK ==
    /\ now \in 0..Horizon /\ muted \in BOOLEAN /\ verdict \in Verdicts
    /\ snoozed \in [Episodes -> Nat]
    /\ sent \in [Episodes -> Seq(0..Horizon)]
    /\ delivered \in [Episodes -> Seq(0..Horizon)]

Init ==
    /\ now = 0 /\ muted \in BOOLEAN /\ verdict = "none"
    /\ snoozed = [e \in Episodes |-> 0]
    /\ sent = [e \in Episodes |-> <<>>] /\ delivered = [e \in Episodes |-> <<>>]

\* What is within the window at t.
Fresh(t) == {at \in 0..Horizon : t - at < Window}

Recent(times) == Only(times, Fresh(now))

----------------------------------------------------------------------------
(* What a card says, between two reports.                                     *)

\* snoozed_until: the label stands while the entry is ahead of the clock.
SaysSnoozed(e) == snoozed[e] > now

\* banner_auto_quiet, under the card's `snoozed.is_none()`.
SaysQuiet(e) == ~SaysSnoozed(e) /\ Len(Recent(sent[e])) >= NoisyAfter

----------------------------------------------------------------------------
(* The gates.                                                                 *)

\* banner_snoozed drops what has run out before it looks.
LiveSnoozes == [e \in Episodes |-> IF snoozed[e] > now THEN snoozed[e] ELSE 0]

\* Mutant: a snooze that has run out is looked at before it is dropped.
BannerSnoozedFirst(e) ==
    /\ snoozed' = LiveSnoozes
    /\ verdict' = "snoozed" /\ snoozed[e] # 0

BannerSnoozed(e) ==
    /\ snoozed' = LiveSnoozes
    /\ verdict' = "snoozed" /\ snoozed'[e] # 0

\* Mutant: every episode draws on one ration.
BannerDampedForAll(e) ==
    LET recent == Recent(sent[e])
        all == FoldLeft(LAMBDA n, f : n + Len(Recent(sent[f])), 0, SetToSeq(Episodes))
    IN  /\ sent' = [sent EXCEPT ![e] = IF all >= NoisyAfter THEN recent ELSE Append(recent, now)]
        /\ verdict' = IF all >= NoisyAfter THEN "auto-quieted" ELSE "delivered"

\* Mutant: the ration counts the reports it held back.
BannerDampedCounting(e) ==
    LET recent == Recent(sent[e])
    IN  /\ sent' = [sent EXCEPT ![e] = Append(recent, now)]
        /\ verdict' = IF Len(recent) >= NoisyAfter THEN "auto-quieted" ELSE "delivered"

\* banner_damped drops what has left the window, and records what it permits.
BannerDamped(e) ==
    LET recent == Recent(sent[e])
    IN  /\ sent' = [sent EXCEPT ![e] =
                        IF Len(recent) >= NoisyAfter THEN recent ELSE Append(recent, now)]
        /\ verdict' = IF Len(recent) >= NoisyAfter THEN "auto-quieted" ELSE "delivered"

\* Mutant: the ration is charged before the snooze is asked.
GatesSwapped(e) ==
    \/ muted /\ verdict' = "muted" /\ UNCHANGED <<snoozed, sent>>
    \/ /\ ~muted /\ LiveSnoozes[e] # 0
       /\ sent' = [sent EXCEPT ![e] = Append(Recent(@), now)]
       /\ snoozed' = LiveSnoozes /\ verdict' = "snoozed"
    \/ ~muted /\ LiveSnoozes[e] = 0 /\ snoozed' = LiveSnoozes /\ BannerDamped(e)

\* The switch, the snooze, the ration: a gate that holds a report back leaves
\* the ones behind it unasked.
Gates(e) ==
    \/ muted /\ verdict' = "muted" /\ UNCHANGED <<snoozed, sent>>
    \/ ~muted /\ BannerSnoozed(e) /\ UNCHANGED sent
    \/ ~muted /\ LiveSnoozes[e] = 0 /\ snoozed' = LiveSnoozes /\ BannerDamped(e)

\* A report passes the gates, and goes to the transport (Delivery).
Report(e) ==
    /\ Gates(e)
    /\ delivered' = IF verdict' = "delivered"
                    THEN [delivered EXCEPT ![e] = Append(@, now)] ELSE delivered
    /\ UNCHANGED <<now, muted>>

----------------------------------------------------------------------------
(* The card's row, the switch, and time.                                      *)

SnoozeBanners(e, length) ==
    /\ snoozed' = [snoozed EXCEPT ![e] = now + length]
    /\ UNCHANGED <<now, muted, sent, verdict, delivered>>

\* Mutant: the snooze goes and the ration stays.
ResumeSnoozeOnly(e) ==
    /\ snoozed' = [snoozed EXCEPT ![e] = 0]
    /\ delivered' = [delivered EXCEPT ![e] = <<>>]
    /\ UNCHANGED <<now, muted, sent, verdict>>

\* resume_banners takes the ration back as well.
ResumeBanners(e) ==
    /\ snoozed' = [snoozed EXCEPT ![e] = 0]
    /\ sent' = [sent EXCEPT ![e] = <<>>]
    /\ delivered' = [delivered EXCEPT ![e] = <<>>]
    /\ UNCHANGED <<now, muted, verdict>>

SetNotifications ==
    /\ muted' = ~muted
    /\ UNCHANGED <<now, snoozed, sent, verdict, delivered>>

Tick ==
    /\ now < Horizon /\ now' = now + 1
    /\ delivered' = [e \in Episodes |-> Only(delivered[e], Fresh(now'))]
    /\ UNCHANGED <<muted, snoozed, sent, verdict>>

Next ==
    \/ \E e \in Episodes :
           \/ Report(e) \/ ResumeBanners(e)
           \/ \E length \in SnoozeChoices : SnoozeBanners(e, length)
    \/ SetNotifications \/ Tick

Spec == Init /\ [][Next]_vars

----------------------------------------------------------------------------
(* Properties.                                                                *)

\* What the card says is what the gates do next: "a banner that silently stayed
\* away is indistinguishable from a rule that stopped firing", so the pill and
\* the label must be there whenever one is held back, and only then.
CardTellsTheGates(e) ==
    verdict' = "delivered" <=> ~muted /\ ~SaysSnoozed(e) /\ ~SaysQuiet(e)

\* A report is held back as noisy only after two of this very episode's banners
\* went out within the hour, since the user last resumed it: not for another
\* episode's, and not for one that was snoozed, muted or held back itself.
QuietIsEarned(e) ==
    /\ verdict' = "auto-quieted" => Len(delivered[e]) >= NoisyAfter
    /\ Len(delivered'[e]) <= NoisyAfter

\* Both, of every report.
GatesAreTold == \A e \in Episodes : Report(e) => CardTellsTheGates(e) /\ QuietIsEarned(e)
=============================================================================
