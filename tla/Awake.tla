-------------------------------- MODULE Awake ---------------------------------
(* The timed hold that keeps the machine awake (awake.rs): picked from the     *)
(* footer's menu, replaced, ended by hand, by the tick or by the system, which *)
(* on macOS counts the time itself (`timed`) and on Linux leaves it to the     *)
(* tick. The end is a moment of the wall clock, which a sleep moves and which  *)
(* can be set, forward and back; the system's own count goes on regardless of  *)
(* that, and whether a sleep moves it is the system's affair.                  *)
EXTENDS Integers

CONSTANTS
    Lengths,            \* HOLD_MINUTES
    Naps,               \* how long the machine sleeps
    None,
    Horizon, MaxTakes, MaxBack  \* bounds

VARIABLES
    timed,
    date,               \* SystemTime
    held,               \* HELD
    inForce,            \* the assertions or inhibitors the system honours
    takes,
    back                \* history: how far date was set back since the hold was taken

vars == <<timed, date, held, inForce, takes, back>>

Init ==
    /\ timed \in BOOLEAN
    /\ date = 0 /\ held = None /\ inForce = {} /\ takes = 0 /\ back = 0

Released == IF held = None THEN inForce ELSE {a \in inForce : a.id # held.token}

\* Mutant: a hold that is replaced is forgotten, not released.
HoldForAnother(minutes) ==
    /\ takes < MaxTakes /\ takes' = takes + 1
    /\ held' = [until |-> date + minutes, token |-> takes] /\ back' = 0
    /\ inForce' = inForce \cup {[id |-> takes, left |-> minutes]}
    /\ UNCHANGED <<timed, date>>

\* hold_for: the platform may refuse, and then there is none.
HoldFor(minutes) ==
    /\ takes < MaxTakes /\ takes' = takes + 1
    /\ back' = 0
    /\ \/ /\ held' = [until |-> date + minutes, token |-> takes]
          /\ inForce' = Released \cup {[id |-> takes, left |-> minutes]}
       \/ held' = None /\ inForce' = Released
    /\ UNCHANGED <<timed, date>>

\* hold_for(0)
EndHold ==
    /\ held # None
    /\ held' = None /\ inForce' = Released
    /\ UNCHANGED <<timed, date, takes, back>>

\* Mutant: a hold stands until its moment has gone by.
EndedAfter(until) == date > until

Ended(until) == date >= until

\* held
Lit == held # None /\ ~Ended(held.until)

\* expire, on the collector's tick
Expire ==
    /\ held # None
    /\ IF Ended(held.until)
       THEN held' = None /\ inForce' = Released
       ELSE UNCHANGED <<held, inForce>>
    /\ UNCHANGED <<timed, date, takes, back>>

\* TimeoutActionRelease
After(span) ==
    IF timed THEN {b \in {[a EXCEPT !.left = @ - span] : a \in inForce} : b.left > 0}
    ELSE inForce

Pass ==
    /\ date < Horizon /\ date' = date + 1 /\ inForce' = After(1)
    /\ UNCHANGED <<timed, held, takes, back>>

\* A sleep, or a clock set forward.
Sleep(nap) ==
    /\ date + nap <= Horizon /\ date' = date + nap
    /\ inForce' \in {After(nap), inForce}
    /\ UNCHANGED <<timed, held, takes, back>>

\* The wall clock alone is set back.
SetBack ==
    /\ date > 0 /\ date' = date - 1
    /\ back < MaxBack /\ back' = back + 1
    /\ UNCHANGED <<timed, held, inForce, takes>>

\* The process ends, crash included, and is started again.
Restart ==
    /\ held' = None /\ inForce' = {}
    /\ UNCHANGED <<timed, date, takes, back>>

Next ==
    \/ EndHold \/ Expire \/ Pass \/ SetBack \/ Restart
    \/ \E minutes \in Lengths : HoldFor(minutes)
    \/ \E nap \in Naps : Sleep(nap)

Spec == Init /\ [][Next]_vars

----------------------------------------------------------------------------
\* The system has counted the hold out, and the wall clock, set back meanwhile, has not.
Overrun ==
    /\ timed /\ held # None
    /\ date < held.until /\ held.until <= date + back

\* Nothing keeps the machine awake but the hold the store can release, and the cup is
\* not lit "over a machine that sleeps anyway" (awake.rs:106-107), over replacements,
\* refusals, sleeps, set clocks and the system's own timeout. The line knows of no
\* exception, and there is one (Overrun): where macOS counts the time, a clock set back
\* leaves the cup lit over nothing, for no longer than it was set back.
CupIsTrue ==
    /\ \A a \in inForce : held # None /\ a.id = held.token
    /\ Lit => Overrun \/ \E a \in inForce : a.id = held.token
=============================================================================
