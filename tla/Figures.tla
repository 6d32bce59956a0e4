------------------------------- MODULE Figures -------------------------------
(* The figures, each a machine of its own that no other one touches: a        *)
(* behaviour runs one of them, `part`, and leaves the rest off.               *)
EXTENDS Dupes

CONSTANTS
    None, Torn,
    \* Charts
    ChartWindow, CurveWindow, SleepGap, BriefWake, SleepLengths,
    ChartHorizon, ChartSleeps, ChartSets,
    \* Traffic
    Pids, Wait, LongWait, WaitSlack, MinWindow, AgeSlack, MaxBytes, TrafficHorizon,
    \* Sustained
    LoadBar, Afters, Grace, LoadBurn, LoadHorizon,
    \* Trend
    Slots, NewMinutes, BaselineMin, ClimbMin, Rearm, CreepBar, MaxValue,
    TrendHorizon, TrendSleeps, TrendSetBacks,
    \* Growth
    Dirs, Above, Finds, Week, KeepDays, RecordFloor, GrowthFloor, NotifyBytes, MaxRows,
    GrowthHorizon, MaxWalks, MaxErrors,
    \* Awake
    Lengths, Naps, AwakeHorizon, MaxTakes, MaxBack,
    \* Spenders
    Keys, ShortSpan, BurstRatio, BurstFloor, SpenderBurn, MaxLives, SpenderHorizon

\* Bounds and thresholds are numbers, and none is no number and nothing that is
\* measured. The clock of a named creep is re-armed no sooner than the ring has gone
\* round (CREEP_REARM and SLOTS, trend.rs); the two reads of a rate are apart
\* (MIN_WINDOW, traffic.rs). Directories are numbered in the order of their paths: one
\* comes after all that it lies in, which lie in each other. Growth has a floor
\* (GROWTH_FLOOR, diskwatch.rs).
ASSUME FiguresAssumption ==
    /\ Slots \in Nat \ {0} /\ Rearm \in Nat /\ Rearm >= Slots /\ TrendHorizon \in Nat \ {0}
    /\ MaxValue \in Nat
    /\ ChartWindow \in Nat /\ CurveWindow \in Nat /\ SleepGap \in Nat /\ BriefWake \in Nat
    /\ SleepLengths \subseteq Nat /\ Lengths \subseteq Nat /\ Naps \subseteq Nat
    /\ IsFiniteSet(Pids) /\ MinWindow \in Nat \ {0} /\ AgeSlack \in Nat /\ TrafficHorizon \in Nat
    /\ Torn \notin [at : Nat, rows : UNION {[S -> [age : Nat \cup {None}, tenant : Nat, down : Nat,
                                               up : Nat, program : Pids \cup {"named"}]] :
                                           S \in SUBSET Pids}]
    /\ Week \in Nat /\ MaxLives \in Nat
    /\ Dirs \in SUBSET Nat /\ IsFiniteSet(Dirs) /\ Finds \subseteq [Dirs -> Nat]
    /\ Above \in [Dirs -> SUBSET Dirs]
    /\ \A d \in Dirs : \A a \in Above[d] : a < d /\ Above[a] \subseteq Above[d]
    /\ \A d \in Dirs : \A a, b \in Above[d] : a = b \/ a \in Above[b] \/ b \in Above[a]
    /\ GrowthFloor \in Nat \ {0} /\ MaxRows \in Nat /\ GrowthHorizon \in Nat
    /\ LoadBar \in Nat /\ Grace \in Nat /\ LoadBurn \in Nat /\ Afters \subseteq Nat
    /\ None \notin Int
    /\ None \notin [since : Nat, start : Nat, seen : Nat, last : Nat, quiet : Nat \cup {None}]
    /\ None \notin [until : Nat, token : Nat]
    /\ None \notin [head : Nat, slots : [0..Slots - 1 -> Nat \cup {None}]]

VARIABLES
    part,
    up, wall, sleeps, sets, clock, awakeSince, ring, curve, reading, said, priced,
    stretches, missed,
    now, handover, known, baseline, card, readAt, asked,
    tick, heirs, burnt, after, ticked, stretch, notified, news, heard,
    uptime, minute, naps, backs, reported, tree, named, log, told,
    time, files, table, growth, banners, walks, errors, recorded,
    timed, date, held, inForce, takes, back,
    life, spent, lines

charts == <<up, wall, sleeps, sets, clock, awakeSince, ring, curve, reading, said,
            priced, stretches, missed>>
traffic == <<now, handover, known, baseline, card, readAt, asked>>
sustained == <<tick, heirs, burnt, after, ticked, stretch, notified, news, heard>>
trend == <<uptime, minute, naps, backs, reported, tree, named, log, told>>
grown == <<time, files, table, growth, banners, walks, errors, recorded>>
awake == <<timed, date, held, inForce, takes, back>>
spenders == <<life, spent, lines>>
allVars == <<part, charts, traffic, sustained, trend, grown, vars, awake, spenders>>

Charts == INSTANCE Charts WITH
    Window <- ChartWindow, Gap <- SleepGap, Never <- None,
    Horizon <- ChartHorizon, MaxSleeps <- ChartSleeps, MaxSets <- ChartSets

Traffic == INSTANCE Traffic WITH
    Unknown <- None, NoBaseline <- Torn, Horizon <- TrafficHorizon, named <- known

Sustained == INSTANCE Sustained WITH
    Bar <- LoadBar, MaxBurn <- LoadBurn, Horizon <- LoadHorizon, now <- tick

Trend == INSTANCE Trend WITH
    Recent <- NewMinutes, Bar <- CreepBar, Horizon <- TrendHorizon, MaxSleeps <- TrendSleeps,
    MaxSetBacks <- TrendSetBacks, NoData <- None,
    now <- uptime, wall <- minute, sleeps <- naps

Growth == INSTANCE Growth WITH Window <- Week, Horizon <- GrowthHorizon, said <- recorded

Awake == INSTANCE Awake WITH Horizon <- AwakeHorizon

Spenders == INSTANCE Spenders WITH MaxBurn <- SpenderBurn, Horizon <- SpenderHorizon

ChartsOff ==
    /\ up = None /\ wall = None /\ sleeps = None /\ sets = None /\ clock = None
    /\ awakeSince = None /\ ring = None /\ curve = None /\ reading = None
    /\ said = None /\ priced = None /\ stretches = None /\ missed = None
TrafficOff ==
    /\ now = None /\ handover = None /\ known = None /\ baseline = None
    /\ card = None /\ readAt = None /\ asked = None
SustainedOff ==
    /\ tick = None /\ heirs = None /\ burnt = None /\ after = None /\ ticked = None
    /\ stretch = None /\ notified = None /\ news = None /\ heard = None
TrendOff ==
    /\ uptime = None /\ minute = None /\ naps = None /\ backs = None
    /\ reported = None /\ tree = None /\ named = None /\ log = None /\ told = None
GrowthOff ==
    /\ time = None /\ files = None /\ table = None /\ growth = None
    /\ banners = None /\ walks = None /\ errors = None /\ recorded = None
CopiesOff ==
    /\ entry = None /\ file = None /\ outside = None /\ phase = None /\ todo = None
    /\ cand = None /\ groups = None /\ stale = None /\ moving = None /\ freed = None
    /\ binned = {} /\ edits = None
AwakeOff ==
    /\ timed = None /\ date = None /\ held = None /\ inForce = None /\ takes = None
    /\ back = None
SpendersOff == life = None /\ spent = None /\ lines = None

PartsInit ==
    \/ /\ part = "charts" /\ Charts!Init
       /\ TrafficOff /\ SustainedOff /\ TrendOff /\ GrowthOff
       /\ CopiesOff /\ AwakeOff /\ SpendersOff
    \/ /\ part = "traffic" /\ Traffic!Init
       /\ ChartsOff /\ SustainedOff /\ TrendOff /\ GrowthOff
       /\ CopiesOff /\ AwakeOff /\ SpendersOff
    \/ /\ part = "sustained" /\ Sustained!Init
       /\ ChartsOff /\ TrafficOff /\ TrendOff /\ GrowthOff
       /\ CopiesOff /\ AwakeOff /\ SpendersOff
    \/ /\ part = "trend" /\ Trend!Init
       /\ ChartsOff /\ TrafficOff /\ SustainedOff /\ GrowthOff
       /\ CopiesOff /\ AwakeOff /\ SpendersOff
    \/ /\ part = "growth" /\ Growth!Init
       /\ ChartsOff /\ TrafficOff /\ SustainedOff /\ TrendOff
       /\ CopiesOff /\ AwakeOff /\ SpendersOff
    \/ /\ part = "copies" /\ Init
       /\ ChartsOff /\ TrafficOff /\ SustainedOff /\ TrendOff
       /\ GrowthOff /\ AwakeOff /\ SpendersOff
    \/ /\ part = "awake" /\ Awake!Init
       /\ ChartsOff /\ TrafficOff /\ SustainedOff /\ TrendOff
       /\ GrowthOff /\ CopiesOff /\ SpendersOff
    \/ /\ part = "spenders" /\ Spenders!Init
       /\ ChartsOff /\ TrafficOff /\ SustainedOff /\ TrendOff
       /\ GrowthOff /\ CopiesOff /\ AwakeOff

PartsNext ==
    /\ UNCHANGED part
    /\ \/ /\ part = "charts" /\ Charts!Next
          /\ UNCHANGED <<traffic, sustained, trend, grown, vars, awake, spenders>>
       \/ /\ part = "traffic" /\ Traffic!Next
          /\ UNCHANGED <<charts, sustained, trend, grown, vars, awake, spenders>>
       \/ /\ part = "sustained" /\ Sustained!Next
          /\ UNCHANGED <<charts, traffic, trend, grown, vars, awake, spenders>>
       \/ /\ part = "trend" /\ Trend!Next
          /\ UNCHANGED <<charts, traffic, sustained, grown, vars, awake, spenders>>
       \/ /\ part = "growth" /\ Growth!Next
          /\ UNCHANGED <<charts, traffic, sustained, trend, vars, awake, spenders>>
       \/ /\ part = "copies" /\ Next
          /\ UNCHANGED <<charts, traffic, sustained, trend, grown, awake, spenders>>
       \/ /\ part = "awake" /\ Awake!Next
          /\ UNCHANGED <<charts, traffic, sustained, trend, grown, vars, spenders>>
       \/ /\ part = "spenders" /\ Spenders!Next
          /\ UNCHANGED <<charts, traffic, sustained, trend, grown, vars, awake>>

PartsSpec == PartsInit /\ [][PartsNext]_allVars

\* The copies alone.
CopiesSpec == PartsInit /\ part = "copies" /\ [][PartsNext]_allVars

----------------------------------------------------------------------------
\* What is said of a stretch of time holds over sleeps and set clocks: the charts'
\* half hour and ten minutes (Charts), and the hold that the cup promises (Awake), but
\* for the one case that CupIsTrue names, a clock set back under macOS's own timeout.
TimesAreHonest ==
    /\ part = "charts" => Charts!RingIsTheHalfHour /\ Charts!CurveHasNoHoles
    /\ part = "awake" => Awake!CupIsTrue

\* A rate is of one process, over the time between two reads of it, and its ranking
\* is replaced by a later one or by none at all (Traffic); a row of the history is
\* what its processes burnt (Spenders).
RatesAreHonest ==
    /\ [](part = "traffic" => Traffic!RatesAreHonest)
    /\ [][part = "traffic" => Traffic!RankingStands]_allVars
    /\ [](part = "spenders" => Spenders!RankIsTheBurn)

\* A long load is announced once and is the load of its pid (Sustained); the hour's
\* verdicts are those of the minutes that were heard (Trend).
WatchersAreHonest ==
    /\ part = "sustained" => Sustained!WatchIsHonest
    /\ part = "trend" => Trend!TrendIsTheHour

\* No growth is counted in two rows and none past the floor is unsaid (Growth).
RowsAreApart == part = "growth" => Growth!RowsAreApart

\* A creep is named again only for minutes after its last banner (Trend), a directory
\* once a week (Growth).
NewsIsNews ==
    [][/\ part = "trend" => Trend!CreepIsNews
       /\ part = "growth" => Growth!NewsOnceAWeek]_allVars

\* What the moves are said to free is freed, what a group offers can be (Dupes).
OffersAreFreed == part = "copies" => FreedIsFreed
=============================================================================
