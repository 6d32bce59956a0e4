------------------------------- MODULE Trend -------------------------------
(* One tree in the hour-window trend (trend.rs) and the banner of a memory    *)
(* creep (state/mod.rs). A ring addresses its slots by the minute of the wall *)
(* clock: a sleep skips minutes, and a clock set back repeats some. The banner*)
(* is paced by the other clock, which stands still while the machine sleeps.  *)
(* The CPU ring and the memory ring are the same ring asked two questions, so *)
(* one stands for both.                                                       *)
(*                                                                            *)
(* `log` is a history of what the rings were handed, minute by minute; the    *)
(* reference answers are read from it, without a ring.                        *)
EXTENDS Integers, FiniteSets, FiniteSetsExt

CONSTANTS
    Slots,            \* SLOTS: the minutes of the window
    Recent,           \* RECENT_MINUTES
    BaselineMin,      \* BASELINE_MIN
    ClimbMin,         \* CLIMB_MIN_MINUTES
    Rearm,            \* CREEP_REARM
    Bar,              \* creep_notify_bytes
    MaxValue, Horizon, MaxSleeps, MaxSetBacks,
    NoData

VARIABLES
    now, wall,        \* Instant and wall clock, in minutes
    sleeps, backs,    \* how often the machine slept and the clock was set back
    reported, tree,   \* the rings, or NoData while there is none
    named,            \* creep_notified: when the tree was last named, or NoData
    log,              \* history: the maximum handed in for each minute
    told              \* history: the head at the last banner; the setbacks then

clocks == <<now, wall, sleeps, backs>>
rings == <<reported, tree>>
vars == <<clocks, rings, named, log, told>>

Minutes == 0..Horizon
Silence == [m \in Minutes |-> NoData]

Init ==
    /\ now = 0 /\ wall = 1 /\ sleeps = 0 /\ backs = 0
    /\ reported = NoData /\ tree = NoData /\ named = NoData
    /\ log = [heard |-> Silence, tree |-> Silence]
    /\ told = [head |-> NoData, backs |-> 0]

----------------------------------------------------------------------------
NewRing(minute, value) ==
    [head |-> minute,
     slots |-> [i \in 0..Slots - 1 |-> IF i = minute % Slots THEN value ELSE NoData]]

MaxOf(old, value) ==
    IF old = NoData THEN value ELSE IF old < value THEN value ELSE old

\* The slots of the minutes after the head, up to this one.
Skipped(ring, minute) ==
    {(ring.head + step) % Slots : step \in 1..Min({minute - ring.head, Slots})}

\* Mutant: only the slot that is written is cleared.
RecordOver(ring, minute, value) ==
    IF minute < ring.head THEN ring
    ELSE [head |-> minute,
          slots |-> [ring.slots EXCEPT ![minute % Slots] =
                        IF minute > ring.head THEN value ELSE MaxOf(@, value)]]

Record(ring, minute, value) ==
    IF minute < ring.head THEN ring
    ELSE LET cleared == [i \in 0..Slots - 1 |->
                            IF i \in Skipped(ring, minute) THEN NoData ELSE ring.slots[i]]
         IN  [head |-> minute,
              slots |-> [cleared EXCEPT ![minute % Slots] = MaxOf(@, value)]]

At(ring, minute) ==
    IF minute > ring.head \/ ring.head - minute >= Slots THEN NoData
    ELSE ring.slots[minute % Slots]

Sampled(ring, value) ==
    IF ring = NoData THEN NewRing(wall, value) ELSE Record(ring, wall, value)

\* A tree silent for the whole window is forgotten.
Retained(ring) ==
    IF ring = NoData THEN NoData
    ELSE IF wall - ring.head >= Slots THEN NoData ELSE ring

Window(heard) == {m \in Minutes : m <= heard.head /\ m > heard.head - Slots}

Total(f, minutes) ==
    LET sum[ms \in SUBSET minutes] ==
            IF ms = {} THEN 0
            ELSE LET m == CHOOSE m \in ms : TRUE IN f[m] + sum[ms \ {m}]
    IN  sum[minutes]

\* rise as a fraction: the recent minutes' sum and count, the earlier ones'.
RiseOver(heard, value, head, minutes) ==
    LET recent == {m \in heard : head - m < Recent}
        base   == heard \ recent
        zeroed == [m \in minutes |-> IF value[m] = NoData THEN 0 ELSE value[m]]
    IN  IF recent = {} \/ Cardinality(base) < BaselineMin THEN NoData
        ELSE <<Total(zeroed, recent), Cardinality(recent),
               Total(zeroed, base), Cardinality(base)>>

Rise(heard, ring) ==
    RiseOver({m \in Window(heard) : At(heard, m) # NoData},
             [m \in Window(heard) |-> At(ring, m)], heard.head, Window(heard))

\* climb, times Recent: the newest minutes against the earliest, if they hold.
ClimbOver(minutes, value) ==
    LET ms    == {m \in minutes : value[m] # NoData}
        early == {m \in ms : Cardinality({k \in ms : k < m}) < Recent}
        late  == {m \in ms : Cardinality({k \in ms : k > m}) < Recent}
    IN  IF Cardinality(ms) < ClimbMin THEN NoData
        ELSE IF \E m \in ms : 10 * Total(value, late) < 9 * Recent * value[m] THEN NoData
        ELSE Total(value, late) - Total(value, early)

Climb(heard, ring) ==
    IF ring = NoData THEN NoData
    ELSE ClimbOver({m \in Window(heard) : At(heard, m) # NoData},
                   [m \in Window(heard) |-> At(ring, m)])

----------------------------------------------------------------------------
\* A reading counts for the minute it is taken in, unless a later one has been
\* heard of already; what has left the hour is let go of, to keep the log small.
Logged(f, value) ==
    IF \E m \in Minutes : m > wall /\ f[m] # NoData THEN f
    ELSE [f EXCEPT ![wall] = MaxOf(@, value)]

Kept(f, hour) == [m \in Minutes |-> IF m \in hour THEN f[m] ELSE NoData]

\* sample, for a tick whose groups hold the tree at `value`, or do not.
Sample(value) ==
    /\ reported' = Sampled(reported, 1)
    /\ tree' = Retained(IF value = NoData THEN tree ELSE Sampled(tree, value))
    /\ LET heard == Logged(log.heard, 1)
           hour  == {m \in Minutes : m + Slots > Max({n \in Minutes : heard[n] # NoData})}
       IN  log' = [heard |-> Kept(heard, hour),
                   tree |-> Kept(IF value = NoData THEN log.tree
                                 ELSE Logged(log.tree, value), hour)]

\* Mutant: re-armed with one minute of that hour still in the ring.
StillNamedShort == IF named = NoData THEN FALSE ELSE now - named < Rearm - 1

\* creep_notified.retain
StillNamed == IF named = NoData THEN FALSE ELSE now - named < Rearm

\* take_memory_creep_notices, in the same tick; it names listed trees only.
TakeCreepNotice(listed) ==
    \E climb \in {Climb(reported', tree')} :
        LET climbs == IF climb = NoData THEN FALSE ELSE climb >= Bar * Recent
            news   == listed /\ climbs /\ ~StillNamed
        IN  /\ named' = IF news THEN now ELSE IF StillNamed THEN named ELSE NoData
            /\ told' = IF news THEN [head |-> wall, backs |-> backs] ELSE told

Tick ==
    /\ \E value \in (0..MaxValue) \cup {NoData} :
           Sample(value) /\ TakeCreepNotice(value # NoData)
    /\ UNCHANGED clocks

Pass ==
    /\ wall < Horizon /\ wall' = wall + 1 /\ now' = now + 1
    /\ UNCHANGED <<sleeps, backs, rings, named, log, told>>

Sleep ==
    /\ sleeps < MaxSleeps /\ sleeps' = sleeps + 1
    /\ \E until \in wall + 1..Horizon : wall' = until
    /\ UNCHANGED <<now, backs, rings, named, log, told>>

SetBack ==
    /\ backs < MaxSetBacks /\ backs' = backs + 1
    /\ \E to \in 0..wall - 1 : wall' = to
    /\ UNCHANGED <<now, sleeps, rings, named, log, told>>

Next == Tick \/ Pass \/ Sleep \/ SetBack

Spec == Init /\ [][Next]_vars

----------------------------------------------------------------------------
Heard == {m \in Minutes : log.heard[m] # NoData}
Hour == {m \in Minutes : m <= Max(Heard) /\ m > Max(Heard) - Slots}

\* What Overview, the card and the banner say is what the hour's minutes were:
\* each at its most, a minute asleep on no side, a tree the table left out at
\* nothing for the CPU and not asked for the memory. No slot leaks from an hour
\* before, and what is read while a clock set back repeats minutes is no reading.
TrendIsTheHour ==
    LET handed == [m \in Hour |-> log.tree[m]]
    IN  reported # NoData /\ tree # NoData =>
            /\ Rise(reported, tree) = RiseOver(Heard \cap Hour, handed, Max(Heard), Hour)
            /\ Climb(reported, tree) = ClimbOver(Heard \cap Hour, handed)

\* A tree is named again only against minutes newer than its last banner ("which
\* is what makes it news again", trend.rs:101), unless the clock was set back.
CreepIsNews ==
    told' # told /\ told.head # NoData /\ told.backs = backs =>
        Window(reported') \subseteq told.head + 1..Horizon
=============================================================================
