------------------------------- MODULE Template -------------------------------
(* The alert table (src/src/alerttpl.rs): the override in the user's files,   *)
(* the cached reading of it, the offer a silent probe leaves, and the dot;    *)
(* with the store's presses (src/src/state/mod.rs) and the collector that     *)
(* reads the file again when it is asked to (src/src/metrics.rs).             *)
(*                                                                            *)
(* The files are read and written by threads that hold no lock against each   *)
(* other. What one of them does between two accesses is one step.             *)
EXTENDS Integers, FiniteSets

CONSTANTS Tables, None,
          Broken,               \* an override zstats refuses
          Unusable,             \* a published file this build cannot apply
          Jobs,                 \* the update's threads: two, after a revert
          Readers,              \* threads that draw the card or the bars
          MaxEvents             \* bound on presses, probes, failures, releases
                                \* of either kind, and launches

VARIABLES
    published, builtin,     \* upstream's table, and the one compiled in
    file,                   \* template.toml
    check,                  \* template-check.toml
    cache, engine, asked,   \* CACHE; what the collector runs with; RELOAD
    dot, sync,              \* template_nudge and template_sync
    jobs, probe, readers,   \* the threads
    ignoring,               \* ignore_offer between its read and its write
    events,
    waved,                  \* history: the offer last waved away
    crossed,                \* history: the check file was written between a
                            \* read of it and the write that follows from it
    straddled               \* history: so was template.toml, over a cache fill

disk == <<file, check>>
store == <<dot, sync, ignoring>>
threads == <<jobs, probe, readers>>
history == <<waved, crossed, straddled>>
outside == <<published, builtin, events>>
vars == <<outside, disk, cache, engine, asked, store, threads, history>>

Checks == [offered : Tables \cup {None}, ignored : Tables \cup {None}]
NoCheck == [offered |-> None, ignored |-> None]
Overrides == Tables \cup {None, Broken}
Outcomes == {"failed", "unusable", "current", "updated"}
Idle == [at |-> "off", text |-> None, says |-> "failed", kept |-> NoCheck]
NotReading == [at |-> "off", text |-> None]

\* load_template: the table in force, and none for one that is refused.
Live(override) == IF override = None THEN {builtin} ELSE {override} \ {Broken}

\* read_source: the table a card shows, the built-in for one that is refused.
Shown(override) == IF override \in {None, Broken} THEN builtin ELSE override

\* nudge_in.
Nudge(c) == c.offered # None /\ c.ignored # c.offered

TypeOK ==
    /\ published \in Tables \cup {Unusable} /\ builtin \in Tables
    /\ file \in Overrides /\ check \in Checks
    /\ cache \in Tables \cup {None} /\ engine \in Tables \cup {None}
    /\ asked \in BOOLEAN /\ dot \in BOOLEAN
    /\ sync \in Outcomes \cup {"none", "running", "reverted", "nothing"}
    /\ jobs \in [Jobs -> [at : {"off", "fetch", "write", "clear", "cleared", "reload", "land"},
                          text : Tables \cup {None}, says : Outcomes, kept : Checks]]
    /\ probe \in [at : {"off", "fetch", "loaded", "record", "write", "land"},
                  text : Overrides, says : Outcomes, kept : Checks, remote : Tables \cup {None}]
    /\ readers \in [Readers -> [at : {"off", "loaded"}, text : Overrides]]
    /\ ignoring \in {NoCheck} \cup Checks
    /\ events \in 0..MaxEvents
    /\ waved \in Tables \cup {None} /\ crossed \in BOOLEAN /\ straddled \in BOOLEAN

NoProbe == [at |-> "off", text |-> None, says |-> "failed", kept |-> NoCheck, remote |-> None]

Init ==
    /\ published \in Tables /\ builtin \in Tables
    /\ file \in Overrides /\ check = NoCheck
    /\ cache = None /\ asked = FALSE /\ dot = FALSE /\ sync = "none"
    /\ engine \in IF file = Broken THEN {None} ELSE Live(file)
    /\ jobs = [j \in Jobs |-> Idle] /\ probe = NoProbe
    /\ readers = [r \in Readers |-> NotReading] /\ ignoring = NoCheck
    /\ events = 0
    /\ waved = None /\ crossed = FALSE /\ straddled = FALSE

Spend == events < MaxEvents /\ events' = events + 1

\* The store's lock is free: ignore_offer holds it from its read to its dot.
Unlocked == ignoring = NoCheck

----------------------------------------------------------------------------
(* The check file: read, changed, written whole.                              *)

\* Who is between a read of it and its write.
Holding == {j \in Jobs : jobs[j].at = "cleared"}
              \cup {w \in {"probe"} : probe.at = "write"}
              \cup {w \in {"ignore"} : ~Unlocked}

WriteCheck(who, new) == check' = new /\ crossed' = (crossed \/ Holding \ {who} # {})

\* The override changes under a reading that is about to be cached.
WriteFile(new) ==
    /\ file' = new
    /\ straddled' = (straddled \/ probe.at = "loaded" \/ \E r \in Readers : readers[r].at = "loaded")

----------------------------------------------------------------------------
(* The update button's thread (update_from_remote).                           *)

Move(j, to) == jobs' = [jobs EXCEPT ![j] = to]

\* update_alert_template; a revert clears "running" while the thread is at work.
Update(j) ==
    /\ Unlocked /\ sync # "running" /\ jobs[j].at = "off"
    /\ Spend /\ sync' = "running" /\ Move(j, [Idle EXCEPT !.at = "fetch"])
    /\ UNCHANGED <<published, builtin, disk, cache, engine, asked, dot, ignoring,
                   probe, readers, history>>

\* fetch_text and validate: nothing that is not a whole table gets further.
Fetched(j, text) ==
    IF text = Unusable THEN [jobs[j] EXCEPT !.at = "land", !.says = "unusable"]
    ELSE IF text \in Live(file) THEN [jobs[j] EXCEPT !.at = "clear", !.says = "current"]
    ELSE [jobs[j] EXCEPT !.at = "write", !.text = text]

\* write_template_in compares with what is in force, the built-in as well.
Compare(j) ==
    /\ jobs[j].at = "fetch"
    /\ \/ Move(j, Fetched(j, published)) /\ UNCHANGED events
       \/ Spend /\ Move(j, [jobs[j] EXCEPT !.at = "land", !.says = "failed"])
    /\ UNCHANGED <<published, builtin, disk, cache, engine, asked, store, probe, readers, history>>

\* Written beside and renamed.
Write(j) ==
    /\ jobs[j].at = "write"
    /\ \/ /\ WriteFile(jobs[j].text) /\ UNCHANGED events
          /\ Move(j, [Idle EXCEPT !.at = "clear", !.says = "updated"])
       \/ /\ Spend /\ UNCHANGED <<file, straddled>>
          /\ Move(j, [jobs[j] EXCEPT !.at = "land", !.says = "failed"])
    /\ UNCHANGED <<published, builtin, check, cache, engine, asked, store, probe, readers,
                   waved, crossed>>

\* clear_offer_in: its read.
ClearOffer(j) ==
    /\ jobs[j].at = "clear"
    /\ Move(j, [jobs[j] EXCEPT !.at = "cleared", !.kept = check])
    /\ UNCHANGED <<outside, disk, cache, engine, asked, store, probe, readers, history>>

AfterClear(job) == IF job.says = "updated" THEN "reload" ELSE "land"

\* Mutant: the whole file is written anew.
ClearedAll(j) ==
    /\ jobs[j].at = "cleared"
    /\ WriteCheck(j, NoCheck)
    /\ Move(j, [jobs[j] EXCEPT !.at = AfterClear(jobs[j]), !.kept = NoCheck])
    /\ UNCHANGED <<outside, file, cache, engine, asked, store, probe, readers, waved, straddled>>

\* And its write, if there was an offer.
Cleared(j) ==
    /\ jobs[j].at = "cleared"
    /\ IF jobs[j].kept.offered = None THEN UNCHANGED <<check, crossed>>
       ELSE WriteCheck(j, [jobs[j].kept EXCEPT !.offered = None])
    /\ Move(j, [jobs[j] EXCEPT !.at = AfterClear(jobs[j]), !.kept = NoCheck])
    /\ UNCHANGED <<outside, file, cache, engine, asked, store, probe, readers, waved, straddled>>

\* Mutant: the collector is asked and the reading stays.
RequestOnly(j) ==
    /\ jobs[j].at = "reload"
    /\ asked' = TRUE /\ Move(j, [jobs[j] EXCEPT !.at = "land"])
    /\ UNCHANGED <<outside, disk, cache, engine, store, probe, readers, history>>

\* write_template: the reading is dropped and the collector asked.
Reload(j) ==
    /\ jobs[j].at = "reload"
    /\ cache' = None /\ asked' = TRUE /\ Move(j, [jobs[j] EXCEPT !.at = "land"])
    /\ UNCHANGED <<outside, disk, engine, store, probe, readers, history>>

\* Mutant: the dot is left to the next probe.
LandUndotted(j) ==
    /\ jobs[j].at = "land" /\ Unlocked
    /\ sync' = jobs[j].says /\ Move(j, Idle)
    /\ UNCHANGED <<outside, disk, cache, engine, asked, dot, ignoring, probe, readers, history>>

Land(j) ==
    /\ jobs[j].at = "land" /\ Unlocked
    /\ sync' = jobs[j].says /\ dot' = Nudge(check) /\ Move(j, Idle)
    /\ UNCHANGED <<outside, disk, cache, engine, asked, ignoring, probe, readers, history>>

----------------------------------------------------------------------------
(* The silent probe (silent_check), on the updater's clock.                   *)

ProbeStart ==
    /\ Unlocked /\ probe.at = "off" /\ Spend
    /\ probe' = [NoProbe EXCEPT !.at = "fetch"]
    /\ UNCHANGED <<published, builtin, disk, cache, engine, asked, store, jobs, readers, history>>

Verdict(table, remote) == IF table = remote THEN "current" ELSE "updated"

\* It compares with info(): the cached reading, or one it makes now.
ProbeAsk ==
    /\ probe.at = "fetch"
    /\ \/ /\ Spend /\ probe' = [probe EXCEPT !.at = "record", !.says = "failed"]
       \/ /\ published = Unusable /\ UNCHANGED events
          /\ probe' = [probe EXCEPT !.at = "record", !.says = "unusable"]
       \/ /\ published # Unusable /\ cache # None /\ UNCHANGED events
          /\ probe' = [probe EXCEPT !.at = "record", !.remote = published,
                                    !.says = Verdict(cache, published)]
       \/ /\ published # Unusable /\ cache = None /\ UNCHANGED events
          /\ probe' = [probe EXCEPT !.at = "loaded", !.remote = published, !.text = file]
    /\ UNCHANGED <<published, builtin, disk, cache, engine, asked, store, jobs, readers, history>>

ProbeCaches ==
    /\ probe.at = "loaded"
    /\ cache' = Shown(probe.text)
    /\ probe' = [probe EXCEPT !.at = "record", !.text = None,
                              !.says = Verdict(Shown(probe.text), probe.remote)]
    /\ UNCHANGED <<outside, disk, engine, asked, store, jobs, readers, history>>

\* record_probe_in: its read.
ProbeRecords ==
    /\ probe.at = "record"
    /\ probe' = [probe EXCEPT !.at = "write", !.kept = check]
    /\ UNCHANGED <<outside, disk, cache, engine, asked, store, jobs, readers, history>>

\* Mutant: a verdict is written without what was waved away.
FoldAnew ==
    IF probe.says = "updated" THEN [NoCheck EXCEPT !.offered = probe.remote]
    ELSE IF probe.says = "failed" THEN probe.kept
    ELSE NoCheck

\* A network error says nothing about the table and keeps the standing offer.
Fold ==
    IF probe.says = "updated" THEN [probe.kept EXCEPT !.offered = probe.remote]
    ELSE IF probe.says = "failed" THEN probe.kept
    ELSE [probe.kept EXCEPT !.offered = None]

ProbeWrites ==
    /\ probe.at = "write"
    /\ WriteCheck("probe", Fold) /\ probe' = [NoProbe EXCEPT !.at = "land"]
    /\ UNCHANGED <<outside, file, cache, engine, asked, store, jobs, readers, waved, straddled>>

ProbeLands ==
    /\ probe.at = "land" /\ Unlocked
    /\ dot' = Nudge(check) /\ probe' = NoProbe
    /\ UNCHANGED <<outside, disk, cache, engine, asked, sync, ignoring, jobs, readers, history>>

----------------------------------------------------------------------------
(* info(), on a thread that draws: filled from the file when it is empty.     *)

Read(r) ==
    /\ readers[r].at = "off" /\ cache = None
    /\ readers' = [readers EXCEPT ![r] = [at |-> "loaded", text |-> file]]
    /\ UNCHANGED <<outside, disk, cache, engine, asked, store, jobs, probe, history>>

Caches(r) ==
    /\ readers[r].at = "loaded"
    /\ cache' = Shown(readers[r].text) /\ readers' = [readers EXCEPT ![r] = NotReading]
    /\ UNCHANGED <<outside, disk, engine, asked, store, jobs, probe, history>>

----------------------------------------------------------------------------
(* The card's other buttons, under the store's lock.                          *)

\* ignore_template_offer: ignore_offer_in reads,
IgnoreOffer ==
    /\ Unlocked /\ dot /\ check.offered # None
    /\ ignoring' = check
    /\ UNCHANGED <<outside, disk, cache, engine, asked, dot, sync, threads, history>>

\* writes, and the dot follows.
Ignored ==
    /\ ~Unlocked
    /\ LET new == [ignoring EXCEPT !.ignored = ignoring.offered]
       IN  WriteCheck("ignore", new) /\ waved' = new.ignored /\ dot' = Nudge(new)
    /\ ignoring' = NoCheck
    /\ UNCHANGED <<outside, file, cache, engine, asked, sync, threads, straddled>>

\* Mutant: a revert leaves the reading it had.
RevertQuietly ==
    /\ Unlocked /\ file # None
    /\ WriteFile(None) /\ asked' = TRUE /\ sync' = "reverted" /\ dot' = Nudge(check)
    /\ UNCHANGED <<outside, check, cache, engine, ignoring, threads, waved, crossed>>

\* use_builtin_alert_template, also while a fetch is running.
UseBuiltin ==
    /\ Unlocked
    /\ \/ /\ file # None
          /\ WriteFile(None) /\ cache' = None /\ asked' = TRUE /\ sync' = "reverted"
       \/ file = None /\ sync' = "nothing" /\ UNCHANGED <<file, straddled, cache, asked>>
    /\ dot' = Nudge(check)
    /\ UNCHANGED <<outside, check, engine, ignoring, threads, waved, crossed>>

----------------------------------------------------------------------------
(* Around it.                                                                 *)

\* reload_settings, at the collector's next turn: a refused file changes nothing.
CollectorReloads ==
    /\ asked /\ asked' = FALSE
    /\ engine' \in IF file = Broken THEN {engine} ELSE Live(file)
    /\ UNCHANGED <<outside, disk, cache, store, threads, history>>

Publish ==
    /\ Spend
    /\ published' \in (Tables \cup {Unusable}) \ {published}
    /\ UNCHANGED <<builtin, disk, cache, engine, asked, store, threads, history>>

\* The process dies, in the middle of a write of the check file at worst, and
\* the next one may carry another table.
Restart ==
    /\ Spend /\ builtin' \in Tables
    /\ \E torn \in {c \in {NoCheck} : Holding # {}} \cup {check} :
           /\ check' = torn /\ dot' = Nudge(torn)
           /\ waved' = IF torn = check THEN waved ELSE None
    /\ cache' = None /\ asked' = FALSE /\ sync' = "none" /\ ignoring' = NoCheck
    /\ engine' \in CASE file = Broken -> {None} [] file = None -> {builtin'} [] OTHER -> {file}
    /\ jobs' = [j \in Jobs |-> Idle] /\ probe' = NoProbe
    /\ readers' = [r \in Readers |-> NotReading]
    /\ UNCHANGED <<published, file, crossed, straddled>>

JobStep(j) ==
    \/ Update(j) \/ Compare(j) \/ Write(j) \/ ClearOffer(j) \/ Cleared(j)
    \/ Reload(j) \/ Land(j)

ProbeStep ==
    \/ ProbeStart \/ ProbeAsk \/ ProbeCaches \/ ProbeRecords
    \/ ProbeWrites \/ ProbeLands

Next ==
    \/ \E j \in Jobs : JobStep(j)
    \/ ProbeStep
    \/ \E r \in Readers : Read(r) \/ Caches(r)
    \/ IgnoreOffer \/ Ignored \/ UseBuiltin
    \/ CollectorReloads \/ Publish \/ Restart

Spec == Init /\ [][Next]_vars

----------------------------------------------------------------------------
(* Properties.                                                                *)

Quiet == Unlocked /\ probe.at = "off" /\ \A j \in Jobs : jobs[j].at = "off"

\* At rest the dot is what the check file says, whichever of its four writers
\* wrote last and in whatever order their answers landed.
DotFollowsFile == Quiet => dot = Nudge(check)

\* "Mute the dot for exactly the table on offer": what was waved away stays so
\* through every later probe, update, failure and restart, unless two of them
\* were at the check file at once.
WavedStaysAway == ~crossed => check.ignored = waved

OffersAreRemembered == DotFollowsFile /\ WavedStaysAway

\* What the collector runs with is the file, or it has been asked to read it.
EngineFollowsFile ==
    file # Broken /\ Live(file) # {engine} =>
        asked \/ \E j \in Jobs : jobs[j].at \in {"clear", "cleared", "reload"}

\* What the card and the bars show is the table in force, "dropped by reload,
\* which every path that touches the file calls", unless the file changed
\* under a reading that was about to be kept.
CacheFollowsFile ==
    ~straddled /\ cache # None /\ cache # Shown(file) =>
        \E j \in Jobs : jobs[j].at \in {"clear", "cleared", "reload"}

TableIsInForce == EngineFollowsFile /\ CacheFollowsFile

\* What the dot, the card and the collector say is what the two files hold.
TableIsTold == OffersAreRemembered /\ TableIsInForce
=============================================================================
