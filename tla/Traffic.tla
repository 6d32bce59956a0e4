------------------------------ MODULE Traffic -------------------------------
(* Per-process traffic as a rate: one read at a time on the collector's tick  *)
(* (ensure_traffic), its difference from the baseline (traffic.rs, deltas,    *)
(* by_program) and what an answer or a refusal does to the card               *)
(* (apply_traffic). What a tick does to the curve is in Charts.               *)
(*                                                                            *)
(* The system answers for a process that has sockets with its age, which it   *)
(* may withhold, and with two totals over the sockets open now. A pid changes *)
(* hands once, at a moment no call can see.                                   *)
EXTENDS Integers, FiniteSetsExt

CONSTANTS
    Pids, Unknown, NoBaseline,
    Wait, LongWait,    \* TRAFFIC_REFRESH or TRAFFIC_BACKGROUND, LISTENERS_REFRESH
    WaitSlack,         \* TRAFFIC_SLACK
    MinWindow,         \* MIN_WINDOW
    AgeSlack,          \* AGE_SLACK_SECS
    MaxBytes, Horizon  \* bounds

VARIABLES
    now,               \* Instant
    handover, named,   \* the world: when a pid changes hands, who has a name
    baseline,          \* traffic_baseline
    card,              \* traffic: the view, and the ranking while it is Ready
    readAt,            \* traffic_at
    asked              \* traffic_inflight: when the read was begun

world == <<handover, named>>
vars == <<now, world, baseline, card, readAt, asked>>

View(st) == [st |-> st, rows |-> {}]

Init ==
    /\ now = 0 /\ handover \in [Pids -> 1..Horizon] /\ named \in {{}, Pids}
    /\ baseline = NoBaseline /\ card = View("off") /\ readAt = Unknown
    /\ asked = Unknown

----------------------------------------------------------------------------
(* The difference of two samples.                                             *)

\* Mutant: an age the system would not give is taken for the same process's.
SameUnlessTold(old, new, elapsed) ==
    old = Unknown \/ new = Unknown \/ new - (old + elapsed) \in -AgeSlack .. AgeSlack

SameProcess(old, new, elapsed) ==
    /\ old # Unknown /\ new # Unknown
    /\ new - (old + elapsed) \in -AgeSlack .. AgeSlack

\* Bytes a second, rounded; a fall is no figure.
Rising(old, new, secs) ==
    IF new < old THEN Unknown ELSE (2 * (new - old) + secs) \div (2 * secs)

OrZero(rate) == IF rate = Unknown THEN 0 ELSE rate

Priceable(prev, next) ==
    {p \in DOMAIN prev.rows \cap DOMAIN next.rows :
        SameProcess(prev.rows[p].age, next.rows[p].age, next.at - prev.at)}

\* Diff per pid, a direction that fell counting nothing.
Rate(prev, next, p) ==
    LET secs == next.at - prev.at
    IN  OrZero(Rising(prev.rows[p].down, next.rows[p].down, secs))
            + OrZero(Rising(prev.rows[p].up, next.rows[p].up, secs))

\* Only what moved bytes is in the ranking.
Moved(prev, next) == {p \in Priceable(prev, next) : Rate(prev, next, p) > 0}

\* Then sum by program, an unnamed process being one of its own.
ByProgram(prev, next) ==
    LET moved == Moved(prev, next)
        Of(program) == {p \in moved : next.rows[p].program = program}
    IN  {[program |-> g, pids |-> Of(g),
          rate |-> MapThenSumSet(LAMBDA p : Rate(prev, next, p), Of(g))] :
             g \in {next.rows[p].program : p \in moved}}

----------------------------------------------------------------------------
(* The card.                                                                  *)

OnClock == IF card.st \in {"restricted", "failed"} THEN LongWait ELSE Wait
Due == IF readAt = Unknown THEN TRUE ELSE now - readAt + WaitSlack >= OnClock

EnsureTraffic ==
    /\ asked = Unknown /\ Due /\ asked' = now
    /\ UNCHANGED <<now, world, baseline, card, readAt>>

\* The tables as they stand at a moment, whoever holds the pids by then. Without
\* ages nothing is priced, now or against a later one: the totals do not matter.
Row(p, at, told, down, up) ==
    LET since == IF at >= handover[p] THEN handover[p] ELSE 0
    IN  [age |-> IF told THEN at - since ELSE Unknown, tenant |-> since,
         down |-> down, up |-> up, program |-> IF p \in named THEN "named" ELSE p]   \* CurveKey

Samples(at, told) ==
    UNION {{[at |-> at, rows |-> [p \in listed |-> Row(p, at, told, down[p], up[p])]] :
               down, up \in [listed -> 0..(IF told THEN MaxBytes ELSE 0)]} : listed \in SUBSET Pids}

Priced(sample) ==
    /\ readAt' = sample.at
    /\ IF baseline = NoBaseline
       THEN card' = View("reading") /\ baseline' = sample
       ELSE IF sample.at - baseline.at < MinWindow
       THEN UNCHANGED <<card, baseline>>
       ELSE card' = [st |-> "ready", rows |-> ByProgram(baseline, sample),
                     from |-> baseline, to |-> sample]
            /\ baseline' = sample

\* Mutant: the refusal takes the card and leaves the baseline.
RefusedKept(at) ==
    card' = View("restricted") /\ readAt' = at /\ UNCHANGED baseline

\* "The sentence replaces both": what only our own sockets say is no baseline.
Refused(at) ==
    card' = View("restricted") /\ baseline' = NoBaseline /\ readAt' = at

\* A blip keeps a ranking and what it stands on.
Failed(at) ==
    /\ readAt' = at
    /\ IF card.st = "ready" THEN UNCHANGED <<card, baseline>>
       ELSE card' = View("failed") /\ baseline' = NoBaseline

\* The read was made at some moment since it was asked for, and its answer gets
\* the lock now, whatever is on screen.
ApplyTraffic ==
    /\ asked # Unknown /\ asked' = Unknown
    /\ \E at \in asked..now :
           \/ \E told \in BOOLEAN : \E sample \in Samples(at, told) : Priced(sample)
           \/ Refused(at)
           \/ Failed(at)
    /\ UNCHANGED <<now, world>>

Pass ==
    /\ now < Horizon /\ now' = now + 1
    /\ UNCHANGED <<world, baseline, card, readAt, asked>>

Next == EnsureTraffic \/ ApplyTraffic \/ Pass

Spec == Init /\ [][Next]_vars

----------------------------------------------------------------------------
\* Every rate on the card is of processes that were there at both ends, but for
\* one too young for its age to tell; and a process that moved a byte a second is
\* in it, whatever a sibling of its program lost with a closed socket or a pid
\* that changed hands (the three rules of traffic.rs).
RatesAreHonest ==
    card.st = "ready" =>
        LET old == card.from.rows
            new == card.to.rows
            Surely(p) ==
                /\ old[p].age # Unknown /\ new[p].age # Unknown
                /\ old[p].tenant = new[p].tenant
                /\ \/ new[p].down - old[p].down >= card.to.at - card.from.at
                   \/ new[p].up - old[p].up >= card.to.at - card.from.at
        IN  /\ \A row \in card.rows : \A p \in row.pids :
                   /\ old[p].age # Unknown /\ new[p].age # Unknown
                   /\ old[p].tenant = new[p].tenant \/ old[p].age <= AgeSlack
            /\ \A p \in DOMAIN old \cap DOMAIN new :
                   Surely(p) => \E row \in card.rows :
                       p \in row.pids /\ row.program = new[p].program /\ row.rate > 0

\* A ranking is of two neighbouring answers with no refusal between them, and
\* once it is up only a refusal takes it down: a blip or a late answer does not.
RankingStands ==
    /\ card.st = "ready" => card'.st \in {"ready", "restricted"}
    /\ card'.st = "ready" /\ card' # card =>
           card.st \in {"reading", "ready"} /\ card'.from = baseline
=============================================================================
