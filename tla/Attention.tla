------------------------------ MODULE Attention ------------------------------
(* Which face the menu bar wears: the recovery clocks of the live episodes    *)
(* (src/src/state/alerts.rs), the volumes that were just ejected              *)
(* (src/src/state/mod.rs) and the face itself (src/src/tray.rs).              *)
(*                                                                            *)
(* A subject is a process or a tree with a memory bar, the kernel's memory    *)
(* pressure, or a volume. A sample says of each that its condition is "over"  *)
(* or "under", of a volume also that the list has it no more ("gone"), and    *)
(* "unknown" when it carries no table, level or list. zstats reports a        *)
(* subject on a sample that has it over.                                      *)
EXTENDS Naturals

CONSTANTS Hungry, Volumes,  \* the processes and trees; the volumes
          Doubtful,         \* the subjects a sample may say nothing of
          Recover,          \* TRAY_RECOVER, in ticks
          Horizon           \* bound on the wall clock

Pressure == "pressure"
Memory == Hungry \cup {Pressure}
Subjects == Memory \cup Volumes
Never == Horizon + 1

VARIABLES
    wall,           \* the wall clock at the last tick
    cards,          \* the episodes: "none", "restored", or live, by grade
    clock,          \* recovered_since
    sample,         \* latest: what it says of each volume
    ejected,        \* the mounts hidden since an eject
    pref, face,     \* the preference, and the face of the primary item
    under           \* history: since when the samples have had a condition
                    \* under its bar

vars == <<wall, cards, clock, sample, ejected, pref, face, under>>

Grades == {"warning", "critical"}
Prefs == {"memory", "auto"}   \* a face pinned to the processor is worn like memory's

Samples ==
    {seen \in [Subjects -> {"over", "under", "unknown", "gone"}] :
        /\ \A s \in Memory : seen[s] # "gone"
        /\ \A s \in Subjects : seen[s] = "unknown" => s \in Doubtful
        /\ \A v, w \in Volumes : seen[v] = "unknown" => seen[w] = "unknown"}

TypeOK ==
    /\ wall \in 0..Horizon
    /\ cards \in [Subjects -> {"none", "restored"} \cup Grades]
    /\ clock \in [Subjects -> 0..Never] /\ under \in [Subjects -> 0..Never]
    /\ sample \in [Volumes -> {"over", "under", "unknown", "gone"}] /\ ejected \subseteq Volumes
    /\ pref \in Prefs /\ face \in {"cpu", "memory", "disk"}

Init ==
    /\ wall = 0
    /\ cards \in [Subjects -> {"none", "restored"}]
    /\ clock = [s \in Subjects |-> Never] /\ under = [s \in Subjects |-> Never]
    /\ sample = [v \in Volumes |-> "unknown"]
    /\ ejected = {} /\ pref = "auto" /\ face = "cpu"

----------------------------------------------------------------------------
(* The store's answers and the face (look).                                   *)

\* recovered_for: a volume at once, memory after the hold.
RecoveredFor(s) ==
    clock[s] # Never /\ (s \in Volumes \/ wall - clock[s] >= Recover)

\* turns_the_face, of a live episode.
TurnsTheFace(s) == cards[s] = "critical" \/ (cards[s] = "warning" /\ s # Pressure)

MemoryNeedsAttention == \E s \in Memory : TurnsTheFace(s) /\ ~RecoveredFor(s)

\* disk_volume_present; an unknown list keeps the episode.
Present(v) == v \notin ejected /\ sample[v] # "gone"

DiskNeedsAttention ==
    \E v \in Volumes : cards[v] \in Grades /\ ~RecoveredFor(v) /\ Present(v)

\* face_for. The primary item of Both wears memory too.
FaceFor ==
    CASE pref = "memory" -> "memory"
      [] pref = "auto" /\ MemoryNeedsAttention -> "memory"
      [] pref = "auto" /\ ~MemoryNeedsAttention /\ DiskNeedsAttention -> "disk"
      [] OTHER -> "cpu"

----------------------------------------------------------------------------
(* The tick.                                                                  *)

\* record_alert: the newest event stands for the episode, and its clock stops.
RecordAlerts(reports) ==
    cards' = [s \in Subjects |-> IF s \in DOMAIN reports THEN reports[s] ELSE cards[s]]

\* prune_ejected: the list agrees, or has not for long enough. A sample without
\* a list counts as one that has nothing.
PruneEjected(seen, waited) ==
    ejected' = {v \in ejected \ waited : seen[v] \notin {"gone", "unknown"}}

\* memory_event_holds and disk_event_holds: what was just ejected does not hold,
\* whatever the list says, which zstats serves from its cache.
Reading(s, seen) ==
    IF s \in ejected' \/ seen[s] = "gone" THEN "under" ELSE seen[s]

\* Mutant: a sample that cannot say stops the clock.
NoteStopping(seen, reports) ==
    clock' = [s \in Subjects |->
        IF cards'[s] \notin Grades THEN clock[s]
        ELSE IF Reading(s, seen) # "under" THEN Never
        ELSE IF clock[s] = Never \/ s \in DOMAIN reports THEN wall' ELSE clock[s]]

\* note_memory_recovery, of the live episodes.
NoteMemoryRecovery(seen, reports) ==
    clock' = [s \in Subjects |->
        LET was == IF s \in DOMAIN reports THEN Never ELSE clock[s]
        IN  CASE cards'[s] \notin Grades -> was
              [] cards'[s] \in Grades /\ Reading(s, seen) = "over" -> Never
              [] cards'[s] \in Grades /\ Reading(s, seen) = "under" /\ was = Never -> wall'
              [] OTHER -> was]

\* What the history makes of a sample.
Watched(seen) ==
    under' = [s \in Subjects |->
        CASE Reading(s, seen) = "over" -> Never
          [] Reading(s, seen) = "under" /\ under[s] = Never -> wall'
          [] OTHER -> under[s]]

\* Only pressure and a volume have a critical grade.
GradesOf(s) == IF s \in Hungry THEN {"warning"} ELSE Grades

\* What can be reported with a sample: nothing, or one subject that it has over.
Reports(seen) ==
    {[s \in {} |-> "warning"]}
        \cup UNION {[{s} -> GradesOf(s)] : s \in {t \in Subjects : seen[t] = "over"}}

\* A tick, `passed` after the last one on the wall clock: a sleep counts.
OnTick ==
    \E passed \in {1, Recover}, seen \in Samples, waited \in SUBSET ejected :
        /\ wall + passed <= Horizon /\ wall' = wall + passed
        /\ PruneEjected(seen, waited)
        /\ \E reports \in Reports(seen) :
               /\ RecordAlerts(reports) /\ NoteMemoryRecovery(seen, reports)
        /\ Watched(seen)
        /\ sample' = [v \in Volumes |-> seen[v]] /\ UNCHANGED pref
        /\ face' = FaceFor'

----------------------------------------------------------------------------
(* Between ticks.                                                             *)

\* see_alerts, once the Alerts tab is on screen.
SeeAlerts ==
    /\ face' = FaceFor
    /\ UNCHANGED <<wall, cards, clock, sample, ejected, pref, under>>

SetTray(to) ==
    /\ pref' = to
    /\ UNCHANGED <<wall, cards, clock, sample, ejected, under>>
    /\ face' = FaceFor'

\* A card is dismissed, turns a day old, or is crowded out; the face waits for
\* the next tick.
Drop(s) ==
    /\ cards[s] # "none" /\ cards' = [cards EXCEPT ![s] = "none"]
    /\ clock' = [clock EXCEPT ![s] = Never]
    /\ UNCHANGED <<wall, sample, ejected, pref, face, under>>

\* After diskutil has said that it is gone; the face waits for the next tick.
MarkEjected(v) ==
    /\ sample[v] \in {"over", "under"} /\ v \notin ejected
    /\ ejected' = ejected \cup {v}
    /\ UNCHANGED <<wall, cards, clock, sample, pref, face, under>>

Next ==
    \/ OnTick \/ SeeAlerts
    \/ \E to \in Prefs : SetTray(to)
    \/ \E s \in Subjects : Drop(s)
    \/ \E v \in Volumes : MarkEjected(v)

Spec == Init /\ [][Next]_vars

----------------------------------------------------------------------------
(* Properties.                                                                *)

\* The samples have had the condition under its bar for the hold.
Calm(s) == under[s] # Never /\ (s \in Volumes \/ wall - under[s] >= Recover)

Worn ==
    /\ pref = "auto" =>
           (face = "memory" <=> \E s \in Memory : TurnsTheFace(s) /\ ~Calm(s))
    /\ face = "disk" =>
           \E v \in Volumes : cards[v] \in Grades /\ Present(v) /\ ~Calm(v)

\* The menu bar is about now: what it wears, whenever it is dressed, is what the
\* samples since launch say of the episodes reported in this session, through
\* reports, dismissals, ejects and samples that could not say.
FaceIsNow ==
    Worn' \/ (wall' = wall /\ <<cards, ejected>>' # <<cards, ejected>>)
=============================================================================
