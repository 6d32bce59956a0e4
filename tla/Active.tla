------------------------------- MODULE Active ---------------------------------
(* Who was in front, and how long ago (active.rs), as a banner of a slow burn  *)
(* asks it (notify.rs, unused_clause).                                         *)
(*                                                                             *)
(* The table hears of an application when it comes forward and when it quits,  *)
(* never when it is left. A pid is handed out again; not before the notice of  *)
(* its old process was heard. `came` and `touched` are histories of the world: *)
(* when the process of a pid last came forward, and when it was last in front. *)
EXTENDS Integers, FiniteSets

CONSTANTS
    Apps,
    UnusedAfter,  \* UNUSED_AFTER
    MaxTracked,   \* MAX_TRACKED
    None, Horizon

VARIABLES
    hour,         \* Instant
    front, born,  \* the world: who is in front, since when a pid's process runs
    came, touched,
    lastActive,   \* LAST_ACTIVE
    claim         \* what the banner composed just now says is unused, or None

vars == <<hour, front, born, came, touched, lastActive, claim>>

Running == {p \in Apps : born[p] # None}

\* insert_bounded: past the limit the stalest entry makes room.
Bounded(table, p) ==
    LET full    == Cardinality(DOMAIN table) >= MaxTracked /\ p \notin DOMAIN table
        stalest == {q \in DOMAIN table : \A o \in DOMAIN table : table[q] <= table[o]}
        Put(kept) == [q \in kept \cup {p} |-> IF q = p THEN hour ELSE table[q]]
    IN  IF full THEN {Put(DOMAIN table \ {q}) : q \in stalest} ELSE {Put(DOMAIN table)}

\* forget
Without(table, p) == [q \in DOMAIN table \ {p} |-> table[q]]

\* start: the application in front is the table's first entry.
Init ==
    /\ hour = 0
    /\ born \in [Apps -> {0, None}] /\ front \in Running \cup {None}
    /\ came = [p \in Apps |-> IF p = front THEN 0 ELSE None]
    /\ touched = came
    /\ lastActive = [p \in {front} \cap Apps |-> 0]
    /\ claim = None

\* The user switches to p.
Activate(p) ==
    /\ p \in Running /\ p # front
    /\ front' = p
    /\ came' = [came EXCEPT ![p] = hour]
    /\ touched' = [q \in Apps |-> IF q \in {p, front} THEN hour ELSE touched[q]]
    /\ lastActive' \in Bounded(lastActive, p)
    /\ claim' = None /\ UNCHANGED <<hour, born>>

\* Mutant: an application that quits stays in the table.
QuitKept(p) ==
    /\ p \in Running
    /\ born' = [born EXCEPT ![p] = None]
    /\ front' = IF front = p THEN None ELSE front
    /\ came' = [came EXCEPT ![p] = None] /\ touched' = [touched EXCEPT ![p] = None]
    /\ claim' = None /\ UNCHANGED <<hour, lastActive>>

Quit(p) ==
    /\ p \in Running
    /\ born' = [born EXCEPT ![p] = None]
    /\ front' = IF front = p THEN None ELSE front
    /\ came' = [came EXCEPT ![p] = None] /\ touched' = [touched EXCEPT ![p] = None]
    /\ lastActive' = Without(lastActive, p)
    /\ claim' = None /\ UNCHANGED hour

Launch(p) ==
    /\ p \notin Running
    /\ born' = [born EXCEPT ![p] = hour]
    /\ claim' = None /\ UNCHANGED <<hour, front, came, touched, lastActive>>

Pass ==
    /\ hour < Horizon /\ hour' = hour + 1
    /\ claim' = None /\ UNCHANGED <<front, born, came, touched, lastActive>>

\* Mutant: the table is asked about the application in front, too.
UnusedByTable(p) ==
    IF p \notin DOMAIN lastActive THEN None
    ELSE IF hour - lastActive[p] >= UnusedAfter THEN hour - lastActive[p] ELSE None

\* unused_for_a_while
Unused(p) ==
    IF front = p \/ p \notin DOMAIN lastActive THEN None
    ELSE IF hour - lastActive[p] >= UnusedAfter THEN hour - lastActive[p] ELSE None

\* unused_clause, as a banner about p's tree is composed.
Compose(p) ==
    /\ p \in Running
    /\ claim' = IF Unused(p) = None THEN None ELSE [app |-> p, idle |-> Unused(p)]
    /\ UNCHANGED <<hour, front, born, came, touched, lastActive>>

Next == Pass \/ \E p \in Apps : Activate(p) \/ Quit(p) \/ Launch(p) \/ Compose(p)

Spec == Init /\ [][Next]_vars

----------------------------------------------------------------------------
\* "It may not claim a stretch of time the reader cannot check" (notify.rs:509): what
\* is called unused is not in front, is the process that was seen to come forward,
\* not another one under its pid, and nobody switched to it since.
ClaimIsProven ==
    claim # None =>
        /\ claim.app # front
        /\ claim.idle <= hour - born[claim.app]
        /\ came[claim.app] # None /\ claim.idle = hour - came[claim.app]

\* active.rs says the figure is "how long the user has gone without touching" the
\* application (active.rs:132), and one "active recently" gets no clause (notify.rs:507).
UnusedIsUntouched ==
    claim # None => claim.idle <= hour - touched[claim.app]
=============================================================================
