----------------------------- MODULE Sustained ------------------------------
(* The sustained-load watcher (watch.rs, SustainedWatch) over one pid: the    *)
(* watcher keeps nothing that two pids share. A tick hands it the process     *)
(* table, which keeps only the busiest, and the kernel's lifetime CPU counter *)
(* of each; what it announces is taken in the same tick (on_tick).            *)
(*                                                                            *)
(* The pid can change hands between two ticks, which the watcher cannot see.  *)
(* `heard` is a history of the stretch it is timing. One unit of time is one  *)
(* tick: the collector never rests while a machine is awake.                  *)
EXTENDS Integers

CONSTANTS
    Bar,              \* CPU a unit of time that counts as load
    Afters,           \* what sustained_after can be set to
    Grace,            \* SUSTAINED_GRACE
    MaxBurn,          \* a tenant's CPU a unit of time
    Horizon, None

VARIABLES
    now, heirs, burnt,    \* the machine: tenants to come, the counter of this one
    after,                \* prefs::sustained_after
    ticked,               \* the last tick
    stretch,              \* stretches[pid], or None
    notified,             \* whether pid is in notified
    news,                 \* the notice the last tick took, or None
    heard                 \* history: what was burnt, the last loud sample, the banner

machine == <<now, heirs, burnt>>
vars == <<machine, after, ticked, stretch, notified, news, heard>>

Init ==
    /\ now = 0 /\ heirs = 1 /\ burnt = 0 /\ after \in Afters
    /\ ticked = None /\ stretch = None /\ notified = FALSE /\ news = None
    /\ heard = [burnt |-> 0, loud |-> 0, rule |-> after, told |-> FALSE]

----------------------------------------------------------------------------
Opened == [since |-> now, start |-> burnt, seen |-> now, last |-> burnt, quiet |-> None]

Duration(s) == s.seen - s.since

\* average_percent >= bar, without the division.
Averages(s) == Duration(s) > 0 /\ s.last - s.start >= Bar * Duration(s)

\* Worth a banner, a badge and a row of the card.
Qualifies(s) == Duration(s) >= after /\ Averages(s)

\* The counter as the stretch goes on: a sample over the bar ends a quiet spell.
Followed(s) ==
    LET loud == burnt - s.last >= Bar * (now - s.seen)
    IN  [s EXCEPT !.seen = now, !.last = burnt,
                  !.quiet = IF loud THEN None ELSE IF s.quiet = None THEN now ELSE s.quiet]

QuietTooLong(s) == IF s.quiet = None THEN FALSE ELSE now - s.quiet > Grace

\* Mutant: the new stretch inherits the old one's announcement.
ReopenedTold ==
    stretch' = Opened /\ news' = None /\ UNCHANGED notified

Reopened ==
    stretch' = Opened /\ notified' = FALSE /\ news' = None

Announced(s) ==
    /\ stretch' = s
    /\ notified' = (notified \/ Qualifies(s))
    /\ news' = IF Qualifies(s) /\ ~notified THEN s ELSE None

Heard(opened, loud) ==
    heard' = [burnt |-> IF opened THEN 0 ELSE heard.burnt,
              loud |-> IF opened \/ loud THEN now ELSE heard.loud, rule |-> after,
              told |-> ~opened /\ (heard.told \/ news' # None)]

\* record, for a tick whose table holds the pid; the rolling average decides
\* whether a first sight opens a stretch.
RecordListed ==
    IF stretch = None
    THEN /\ UNCHANGED notified /\ news' = None
         /\ \/ stretch' = Opened /\ Heard(TRUE, TRUE)
            \/ stretch' = None /\ UNCHANGED heard
    ELSE IF burnt < stretch.last
    THEN Reopened /\ Heard(TRUE, TRUE)
    ELSE IF QuietTooLong(Followed(stretch))
    THEN Reopened /\ Heard(TRUE, TRUE)
    ELSE Announced(Followed(stretch)) /\ Heard(FALSE, Followed(stretch).quiet = None)

\* prune: a process missing from one table has not gone quiet.
RecordUnlisted ==
    /\ stretch' = IF stretch = None THEN None
                  ELSE IF now - stretch.seen <= Grace THEN stretch ELSE None
    /\ notified' = (notified /\ stretch' # None)
    /\ news' = None /\ UNCHANGED heard

Tick ==
    /\ ticked # now /\ ticked' = now
    /\ RecordListed \/ RecordUnlisted
    /\ UNCHANGED <<machine, after>>

----------------------------------------------------------------------------
Pass ==
    /\ ticked = now /\ now < Horizon /\ now' = now + 1
    /\ \E burn \in 0..MaxBurn :
           burnt' = burnt + burn /\ heard' = [heard EXCEPT !.burnt = @ + burn]
    /\ UNCHANGED <<heirs, after, ticked, stretch, notified, news>>

\* The process ends and another gets its pid, with a counter of its own.
ChangeHands ==
    /\ heirs > 0 /\ heirs' = heirs - 1 /\ burnt' = 0
    /\ UNCHANGED <<now, after, ticked, stretch, notified, news, heard>>

SetAfter ==
    /\ \E a \in Afters \ {after} : after' = a
    /\ UNCHANGED <<machine, ticked, stretch, notified, news, heard>>

Next == Tick \/ Pass \/ ChangeHands \/ SetAfter

Spec == Init /\ [][Next]_vars

----------------------------------------------------------------------------
\* "The badge and the banner can never disagree about who qualifies": what the
\* card shows under the rule of its last sample has had a banner of its own,
\* not one of a load that ended before it or of the pid's last tenant.
CardWasAnnounced ==
    stretch # None /\ heard.rule = after => (Qualifies(stretch) => heard.told)

\* A banner blames no process for more than was burnt under its pid while the
\* stretch ran, whoever held it, and the pid was last over the bar at most two
\* graces and a tick before: one out of the table, one quiet in it.
LoadWasHeld ==
    news # None =>
        /\ Averages(news) /\ news.last - news.start <= heard.burnt
        /\ ticked - heard.loud <= 2 * Grace + 1

WatchIsHonest == CardWasAnnounced /\ LoadWasHeld
=============================================================================
