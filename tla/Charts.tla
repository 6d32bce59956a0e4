------------------------------- MODULE Charts -------------------------------
(* The half hour behind Overview's lines (series.rs), the ten minutes behind  *)
(* the traffic card's (traffic.rs, CurveBook), and what a tick does to both   *)
(* when the machine slept since the last one (ingest, state/mod.rs).          *)
(*                                                                            *)
(* `up` is Instant, which stands still in a sleep; `wall` is SystemTime,      *)
(* which can also be set back. One ring and one program's curve stand for     *)
(* the others: they never touch each other. A point's `no` is only its name   *)
(* in the histories `said` and `priced`, which no action of the code reads.   *)
EXTENDS Integers, Sequences, FiniteSetsExt, Functions, Lists

CONSTANTS
    Window, CurveWindow,   \* WINDOW and CURVE_WINDOW
    Gap,                   \* a longer difference of the two clocks is a sleep
    BriefWake,             \* a shorter stretch between two sleeps is maintenance
    SleepLengths,
    Never,                 \* no Instant yet
    Horizon, MaxSleeps, MaxSets  \* bounds

VARIABLES
    up, wall, sleeps, sets,   \* the machine
    clock,                    \* chart_clock: both clocks at the last tick
    awakeSince,               \* awake_since: the tick that saw the last sleep
    ring, curve,              \* points, oldest first
    reading,                  \* the traffic read in flight
    said, priced,             \* history: every ring and every traffic reading
    stretches,                \* history: first and last tick between two sleeps
    missed                    \* history: what the clocks differ by, unseen

machine == <<up, wall, sleeps, sets>>
rings == <<ring, curve, clock, awakeSince>>
history == <<said, priced, stretches, missed>>
vars == <<machine, rings, reading, history>>

Idle == [st |-> "idle"]
Asked == [st |-> "asked"]

Init ==
    /\ up = 0 /\ wall = 0 /\ sleeps = 0 /\ sets = 0
    /\ clock = [up |-> Never, wall |-> 0] /\ awakeSince = Never
    /\ ring = <<>> /\ curve = <<>> /\ reading = Idle
    /\ said = <<>> /\ priced = <<>> /\ stretches = <<>> /\ missed = 0

----------------------------------------------------------------------------
(* The rings.                                                                 *)

\* Mutant: one point in the ring is moved past the sleep, the newest is not.
ShiftOlder(points, before, by) ==
    [i \in DOMAIN points |->
        IF points[i].at >= before THEN points[i] ELSE [points[i] EXCEPT !.at = @ - by]]

Shift(points, before, by) ==
    [i \in DOMAIN points |->
        IF points[i].at > before THEN points[i] ELSE [points[i] EXCEPT !.at = @ - by]]

ForgetFrom(points, since) == Only(points, {p \in Range(points) : p.at < since})

Prune(points, now) ==
    LET fresh == {i \in DOMAIN points : now - points[i].at <= Window}
    IN  IF fresh = {} THEN <<>> ELSE SubSeq(points, Min(fresh), Len(points))

Record(points, at, no) == Prune(Append(points, [at |-> at, no |-> no]), at)

\* CurveBook::record for one program: a zero does not start its line, every
\* later sample adds to it, and a line with nothing positive left goes.
RecordCurve(points, at, no, moved) ==
    LET pushed == IF points = <<>> /\ ~moved THEN points
                  ELSE Append(points, [at |-> at, no |-> no, moved |-> moved])
        kept == Only(pushed, {p \in Range(pushed) : at - p.at <= CurveWindow})
    IN  IF \E i \in DOMAIN kept : kept[i].moved THEN kept ELSE <<>>

----------------------------------------------------------------------------
(* Sleeps.                                                                    *)

Ticked == clock.up # Never
Asleep == wall - clock.wall - (up - clock.up)

\* series::slept: not under Gap, and not for a clock that was set back.
Slept == Ticked /\ wall >= clock.wall /\ Asleep > Gap

\* series::brief_wake over the stretch that ended in this sleep.
Stub == awakeSince # Never /\ clock.up - awakeSince < BriefWake

\* What a sleep does to a ring: a maintenance wake's points go, then all that
\* is left of before the sleep moves back by it.
Woken(points) ==
    IF ~Slept THEN points
    ELSE Shift(IF Stub THEN ForgetFrom(points, awakeSince) ELSE points, clock.up, Asleep)

\* The stretches as a reader of the whole history would cut them.
Ticks(s) ==
    IF Slept \/ s = <<>> THEN Append(s, [first |-> up, last |-> up])
    ELSE [s EXCEPT ![Len(s)].last = up]

\* A traffic reading taken between the last tick and a sleep, or still on its
\* way when the sleep is seen: it is not moved back.
Astray(r) == [r EXCEPT !.late = @ \/ Slept]
Mark(r) == IF r.up > clock.up THEN Astray(r) ELSE r

\* ingest's part: the rings are put right for a sleep, the tick's own figure is
\* recorded, and a traffic read may begin (ensure_traffic).
Tick ==
    /\ clock.up # up
    /\ ring' = Record(Woken(ring), up, Len(said) + 1)
    /\ curve' = Woken(curve)
    /\ awakeSince' = IF Slept THEN up ELSE awakeSince
    /\ clock' = [up |-> up, wall |-> wall]
    /\ \/ reading' = IF reading.st = "read" THEN Astray(reading) ELSE reading
       \/ reading.st = "idle" /\ reading' = Asked
    /\ stretches' = Ticks(stretches)
    /\ missed' = IF ~Ticked \/ Slept THEN missed ELSE missed + Asleep
    /\ said' = Append(said, [up |-> up, wall |-> wall, missed |-> missed',
                             in |-> Len(stretches')])
    /\ priced' = [i \in DOMAIN priced |-> Mark(priced[i])]
    /\ UNCHANGED machine

\* zstats::process_traffic returns, on its thread, later than the tick it rode.
ReadEnds ==
    /\ reading.st = "asked" /\ up > clock.up
    /\ \E moved \in BOOLEAN :
           reading' = [st |-> "read", up |-> up, moved |-> moved,
                       late |-> FALSE, in |-> Len(stretches)]
    /\ UNCHANGED <<machine, rings, history>>

\* The answer gets the lock, whatever is on screen by then.
ReadLands ==
    /\ reading.st = "read" /\ reading' = Idle
    /\ priced' = Append(priced,
           [up |-> reading.up, late |-> reading.late, in |-> reading.in])
    /\ curve' = RecordCurve(curve, reading.up, Len(priced'), reading.moved)
    /\ UNCHANGED <<machine, ring, clock, awakeSince, said, stretches, missed>>

----------------------------------------------------------------------------
(* The machine.                                                               *)

Pass ==
    /\ up < Horizon /\ up' = up + 1 /\ wall' = wall + 1
    /\ UNCHANGED <<sleeps, sets, rings, reading, history>>

Sleep ==
    /\ sleeps < MaxSleeps /\ sleeps' = sleeps + 1
    /\ \E k \in SleepLengths : wall' = wall + k
    /\ UNCHANGED <<up, sets, rings, reading, history>>

SetBack ==
    /\ sets < MaxSets /\ sets' = sets + 1 /\ wall > 0 /\ wall' = wall - 1
    /\ UNCHANGED <<up, sleeps, rings, reading, history>>

Next == Tick \/ ReadEnds \/ ReadLands \/ Pass \/ Sleep \/ SetBack

Spec == Init /\ [][Next]_vars

----------------------------------------------------------------------------
\* A stretch that began and ended in a sleep and was over in a moment.
Brief(s) ==
    s > 1 /\ s < Len(stretches) /\ stretches[s].last - stretches[s].first < BriefWake

\* How old a ring reading is by the wall clock, but for what no tick could see.
Age(r) == (clock.wall - r.wall) - (missed - r.missed)

\* "The half hour is wall-clock time" (series.rs): the ring is every reading of
\* the last half hour at its age by the wall clock, without those of maintenance
\* wakes, however ticks, sleeps and set clocks followed each other.
RingIsTheHalfHour ==
    LET shown == {no \in DOMAIN said : ~Brief(said[no].in) /\ Age(said[no]) <= Window}
    IN  /\ {[at |-> clock.up - Age(said[no]), no |-> no] : no \in shown}
               = {ring[i] : i \in DOMAIN ring}
        /\ \A i, j \in DOMAIN ring : i < j => ring[i].no < ring[j].no

InCurve(no) == \E i \in DOMAIN curve : curve[i].no = no

\* "Every program that already has a line gets a point on every sample", and
\* only a maintenance wake's are taken out again: while a moved byte is on the
\* line, no later reading is missing from it, and none of a stub is left.
CurveHasNoHoles ==
    \A no \in DOMAIN priced :
        \/ priced[no].late
        \/ Brief(priced[no].in) /\ ~InCurve(no)
        \/ ~Brief(priced[no].in)
               /\ \A i \in DOMAIN curve : curve[i].moved /\ curve[i].no < no => InCurve(no)
=============================================================================
