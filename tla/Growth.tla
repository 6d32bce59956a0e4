------------------------------- MODULE Growth ------------------------------
(* What the finished home walks leave behind (diskwatch.rs): a snapshot file  *)
(* a day, the growth read back from two of them, and the weekly banner of a   *)
(* directory (state/analysis.rs). When a check runs is DiskAnalysis's.        *)
(*                                                                            *)
(* A walk finds the bytes each directory holds of its own; a total takes in   *)
(* what is below. Time is in half days: MIN_BASELINE_AGE is between one and   *)
(* two. `said` is a history of the banners whose record was kept.             *)
EXTENDS Integers, FiniteSets

CONSTANTS
    Dirs, Above,         \* the directories, by the order of their paths; what each lies in
    Window,              \* WINDOW, in days
    KeepDays,            \* KEEP_DAYS
    RecordFloor, GrowthFloor, NotifyBytes,
    MaxRows,             \* MAX_ROWS
    Finds,               \* what a walk can find: own bytes, by directory
    Horizon, MaxWalks, MaxErrors,
    None, Torn

VARIABLES
    time,
    files,               \* the directory: a day's snapshot, None, or Torn
    table,               \* notified.toml: when each directory was announced
    growth,              \* the report in the store, or None
    banners,             \* what the last landing announced
    walks, errors,
    said                 \* history: the last banner of each that was recorded

vars == <<time, files, table, growth, banners, walks, errors, said>>

Day(t) == t \div 2
Days == 0..Day(Horizon)
MinBaselineAge == 2

Init ==
    /\ time = 0 /\ files = [d \in Days |-> None]
    /\ table = [d \in Dirs |-> None] /\ said = [d \in Dirs |-> None]
    /\ growth = None /\ banners = {} /\ walks = 0 /\ errors = 0

----------------------------------------------------------------------------
Ancestors(d) == Above[d]
Below(d) == {e \in Dirs : d \in Ancestors(e)}

Sum(f, set) ==
    LET sum[s \in SUBSET set] ==
            IF s = {} THEN 0 ELSE LET d == CHOOSE d \in s : TRUE IN f[d] + sum[s \ {d}]
    IN  sum[set]

Totals(own) == [d \in Dirs |-> Sum(own, {d} \cup Below(d))]

\* dir_totals: what is under the floor is not recorded, and reads as nothing.
Snapshot(own) ==
    [at |-> time,
     dirs |-> [d \in Dirs |-> IF Totals(own)[d] >= RecordFloor THEN Totals(own)[d] ELSE 0]]

\* sweep_in
Swept(f) == [d \in Days |-> IF d < Day(time) - KeepDays THEN None ELSE f[d]]

Newest(set) == CHOOSE d \in set : \A e \in set : e <= d
Oldest(set) == CHOOSE d \in set : \A e \in set : e >= d

\* baseline_in: picked by its name, so an unreadable file can be the pick.
Baseline(f, at) ==
    LET days  == {d \in Days : f[d] # None /\ d < Day(at)}
        weeks == {d \in days : d <= Day(at) - Window}
        pick  == f[IF weeks # {} THEN Newest(weeks) ELSE Oldest(days)]
    IN  IF days = {} THEN None
        ELSE IF pick = Torn THEN None
        ELSE IF at - pick.at >= MinBaselineAge THEN pick ELSE None

\* growth: the candidates, each under its nearest candidate above.
Grew(now, base) == [d \in Dirs |-> now.dirs[d] - base.dirs[d]]
Candidates(grew) == {d \in Dirs : grew[d] >= GrowthFloor}
Kids(d, listed) ==
    {e \in listed : d \in Ancestors(e) /\ Ancestors(e) \cap listed \subseteq Ancestors(d) \cup {d}}
Tops(listed) == {d \in listed : Ancestors(d) \cap listed = {}}

\* answer: the directories listed under it, when they carry nine tenths of it.
Carried(d, listed, grew) ==
    LET kids == Kids(d, listed)
    IN  kids # {} /\ 100 * Sum(grew, kids) >= 90 * grew[d]

\* Mutant: children answer, and their parent stays listed with them.
AnswerToo(d, listed, grew) ==
    {d} \cup {e \in listed : d \in Ancestors(e)
                 /\ \A a \in (Ancestors(e) \cap Below(d)) \cup {d} :
                       a \in listed => Carried(a, listed, grew)}

Answer(d, listed, grew) ==
    {e \in listed : (d = e \/ d \in Ancestors(e)) /\ ~Carried(e, listed, grew)
                 /\ \A a \in listed \cap Ancestors(e) :
                       d = a \/ d \in Ancestors(a) => Carried(a, listed, grew)}

Rows(grew) ==
    LET listed == Candidates(grew)
    IN  UNION {Answer(d, listed, grew) : d \in Tops(listed)}

\* The largest MaxRows of them, equal ones in the order of their paths.
Truncated(rows, grew) ==
    {r \in rows : Cardinality({q \in rows : grew[q] > grew[r]
                                           \/ (grew[q] = grew[r] /\ q < r)}) < MaxRows}

\* latest_report: the newest file against its baseline.
Report(f) ==
    LET days == {d \in Days : f[d] # None}
        now  == f[Newest(days)]
        base == Baseline(f, now.at)
    IN  IF days = {} THEN None
        ELSE IF now = Torn THEN None
        ELSE IF base = None THEN None
        ELSE [over |-> now.at - base.at, grew |-> Grew(now, base),
              rows |-> Truncated(Rows(Grew(now, base)), Grew(now, base))]

\* Mutant: an entry of the table stands for a day.
StandsADay(at) == IF at = None THEN FALSE ELSE at > time - 2

\* The table's entries that still stand.
Stands(at) == IF at = None THEN FALSE ELSE at > time - 2 * Window

Unannounced(report) ==
    IF report = None THEN {}
    ELSE {d \in report.rows : report.grew[d] >= NotifyBytes /\ ~Stands(table[d])}

----------------------------------------------------------------------------
\* record and note_home_walk: today's file is replaced, or cannot be written.
Recorded(own) ==
    \/ /\ files' = Swept([files EXCEPT ![Day(time)] = Snapshot(own)])
       /\ UNCHANGED errors
    \/ /\ errors < MaxErrors /\ errors' = errors + 1 /\ UNCHANGED files

\* unannounced: the table is written whole; a failed write leaves it or nothing.
Announced ==
    LET fresh == Unannounced(growth')
        next  == [d \in Dirs |-> IF d \in fresh THEN time
                                 ELSE IF Stands(table[d]) THEN table[d] ELSE None]
    IN  /\ banners' = fresh
        /\ \/ /\ table' = next
              /\ said' = [d \in Dirs |-> IF d \in fresh THEN time ELSE said[d]]
           \/ /\ errors' > errors /\ table' \in {table, [d \in Dirs |-> None]}
              /\ said' = [d \in Dirs |-> None]

WalkLands(check) ==
    /\ walks < MaxWalks /\ walks' = walks + 1
    /\ \E own \in Finds : Recorded(own)
    /\ growth' = Report(files')
    /\ IF check THEN Announced ELSE banners' = {} /\ UNCHANGED <<table, said>>
    /\ UNCHANGED time

\* The process ends in the middle of a write, and is started again.
DieWriting ==
    /\ walks < MaxWalks /\ errors < MaxErrors /\ errors' = errors + 1
    /\ files' = [files EXCEPT ![Day(time)] = Torn]
    /\ growth' = Report(files') /\ banners' = {}
    /\ UNCHANGED <<time, table, walks, said>>

Restart ==
    /\ growth' = Report(files) /\ banners' = {}
    /\ UNCHANGED <<time, files, table, walks, errors, said>>

Pass ==
    /\ time < Horizon /\ time' = time + 1
    /\ banners' = {}
    /\ UNCHANGED <<files, table, growth, walks, errors, said>>

Next == Restart \/ DieWriting \/ Pass \/ \E check \in BOOLEAN : WalkLands(check)

Spec == Init /\ [][Next]_vars

----------------------------------------------------------------------------
Nines[n \in Nat] == IF n = 0 THEN 1 ELSE 9 * Nines[n - 1]
Tens[n \in Nat] == IF n = 0 THEN 1 ELSE 10 * Tens[n - 1]

\* The directories on the way down from d to e that were left to what is in them.
Levels(d, e, listed) == Cardinality(listed \cap Ancestors(e) \cap ({d} \cup Below(d)))

\* "No row is inside another" (diskwatch.rs:376), and nothing that grew past the
\* floor goes unsaid: it is a row, lies in one, or the rows below it carry of it nine
\* tenths, and nine tenths of that for each further directory on the way to the lowest.
Accounted(d, report) ==
    LET listed == Candidates(report.grew)
        below  == report.rows \cap Below(d)
    IN  \/ d \in report.rows \/ Ancestors(d) \cap report.rows # {}
        \/ \A n \in 1..Cardinality(Dirs) :
              (\A r \in below : Levels(d, r, listed) <= n) =>
                  Tens[n] * Sum(report.grew, below) >= Nines[n] * report.grew[d]

RowsAreApart ==
    growth # None =>
        /\ \A r \in growth.rows : Ancestors(r) \cap growth.rows = {}
        /\ \/ Cardinality(growth.rows) >= MaxRows
           \/ \A d \in Candidates(growth.grew) : Accounted(d, growth)

\* A directory that keeps growing is news once a week, not once a day, through
\* restarts, torn files and days without a walk, unless the record failed.
NewsOnceAWeek ==
    \A d \in banners' : said[d] # None => time - said[d] >= 2 * Window
=============================================================================
