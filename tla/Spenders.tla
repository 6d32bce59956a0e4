------------------------------- MODULE Spenders --------------------------------
(* Who burnt the CPU (history.rs, rank): the rows of the History tab, worked    *)
(* out from minute records that miss every minute a process did not qualify in, *)
(* and that know a process by its pid and name alone.                           *)
(*                                                                              *)
(* `life` tells the processes of one pid and name apart, which no record can.   *)
EXTENDS Integers, Sequences, FiniteSetsExt, Functions

CONSTANTS
    Keys,        \* a pid and a name
    ShortSpan,   \* SHORT_SPAN
    BurstRatio, BurstFloor,
    MaxBurn, MaxLives, Horizon

VARIABLES
    life, spent, \* the process under each key, and the counter the kernel keeps of it
    lines        \* the day's file

vars == <<life, spent, lines>>

Init ==
    /\ life = [k \in Keys |-> 0] /\ spent = [k \in Keys |-> 0] /\ lines = <<>>

\* A minute goes by: each process burns, and the ones that qualify leave a line.
Minute(burn, qualify) ==
    /\ Len(lines) < Horizon
    /\ spent' = [k \in Keys |-> spent[k] + burn[k]]
    /\ lines' = Append(lines,
                    [k \in qualify |-> [cpu |-> spent'[k], rate |-> burn[k], life |-> life[k]]])
    /\ UNCHANGED life

\* The process ends, and a later one gets its pid and name.
Reuse(k) ==
    /\ life[k] < MaxLives /\ life' = [life EXCEPT ![k] = @ + 1]
    /\ spent' = [spent EXCEPT ![k] = 0]
    /\ UNCHANGED lines

Next ==
    \/ \E burn \in [Keys -> 0..MaxBurn], qualify \in SUBSET Keys : Minute(burn, qualify)
    \/ \E k \in Keys : Reuse(k)

Spec == Init /\ [][Next]_vars

----------------------------------------------------------------------------
(* rank.                                                                      *)

Minutes(k) == {m \in DOMAIN lines : k \in DOMAIN lines[m]}
Cpu(k, m) == lines[m][k].cpu
Before(k, m) == Max({n \in Minutes(k) : n < m})
Firsts(set) == IF set = {} THEN {} ELSE {Min(set)}

\* Mutant: the last line less the first.
BurntByEnds(k) == IF Minutes(k) = {} THEN 0 ELSE Cpu(k, Max(Minutes(k))) - Cpu(k, Min(Minutes(k)))

\* The positive steps between its consecutive lines.
Step(k, m) ==
    LET gain == Cpu(k, m) - Cpu(k, Before(k, m)) IN IF gain > 0 THEN gain ELSE 0

Burnt(k) == MapThenSumSet(LAMBDA m : Step(k, m), Minutes(k) \ Firsts(Minutes(k)))

Peak(k) == Max({0} \cup {lines[m][k].rate : m \in Minutes(k)})
Span(k) == IF Minutes(k) = {} THEN 0 ELSE Max(Minutes(k)) - Min(Minutes(k))

\* Coverage is of the span's marks, both ends counted; three quarters are dense.
Shape(k) ==
    LET dense  == 4 * Cardinality(Minutes(k)) >= 3 * (Span(k) + 1)
        bursts == Peak(k) * Span(k) >= BurstRatio * Burnt(k)
        loud   == Peak(k) >= BurstFloor
    IN  IF Cardinality(Minutes(k)) < 2 \/ Burnt(k) = 0 THEN "none"
        ELSE IF Span(k) < ShortSpan THEN "spike"
        ELSE IF bursts /\ loud /\ ~dense THEN "intermittent"
        ELSE "sustained"

----------------------------------------------------------------------------
\* The lines a process under the key left, and what it burnt by its last of them.
LinesOf(k, l) == {m \in Minutes(k) : lines[m][k].life = l}
Lives(k) == {l \in 0..MaxLives : LinesOf(k, l) # {}}
All(k, l) == Cpu(k, Max(LinesOf(k, l)))
Own(k, l) == All(k, l) - Cpu(k, Min(LinesOf(k, l)))

\* Between the first line of a process and its last, however many minutes are missing,
\* its row counts all it burnt; what a successor under its pid and name adds is never
\* more than that successor burnt. A row called intermittent has a minute of its span
\* that left no line.
RankIsTheBurn ==
    \A k \in Keys :
        LET heirs == Lives(k) \ Firsts(Lives(k))
        IN  /\ Burnt(k) >= MapThenSumSet(LAMBDA l : Own(k, l), Lives(k))
            /\ Burnt(k) <= MapThenSumSet(LAMBDA l : Own(k, l), Lives(k) \ heirs)
                               + MapThenSumSet(LAMBDA l : All(k, l), heirs)
            /\ Shape(k) = "intermittent" => Span(k) >= Cardinality(Minutes(k))
=============================================================================
