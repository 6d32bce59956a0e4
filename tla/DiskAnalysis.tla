----------------------------- MODULE DiskAnalysis -----------------------------
(* The disk-space window (src/src/state/analysis.rs, state/dupes.rs): the     *)
(* user's walk, the walks under opened rows, the duplicate search and the     *)
(* daily check of the home folder, each on a thread of its own, and the cache *)
(* files (src/src/diskscan.rs) the next launch opens on.                      *)
(*                                                                            *)
(* A walk says one thing that matters, Done or Failed: its progress passes    *)
(* the guard of the landing and changes only the caption. The program counts  *)
(* the runs of each kind apart; here one counter numbers every walk, and a    *)
(* result carries the number of its walk and how often rows were cut from it. *)
EXTENDS Naturals

CONSTANTS Scopes, Home,     \* what can be walked, and its default
          Rows,             \* the directories that can be opened in place
          None,
          MaxWalks, MaxCuts, MaxErrors, MaxRestarts    \* bounds

ASSUME DiskAssumption ==
    /\ Home \in Scopes /\ None \notin Scopes
    /\ None \notin [walk : Nat, scope : Scopes, cut : Nat]     \* no result
    /\ MaxWalks \in Nat /\ MaxCuts \in Nat /\ MaxErrors \in Nat /\ MaxRestarts \in Nat

Kinds == {"top", "row", "check", "dupes"}
Results == [walk : Nat, scope : Scopes, cut : Nat]
States == {"off", "running", "ready", "failed"}

VARIABLES
    begun,              \* walks so far
    walks,              \* the threads, and what each has said but not landed
    screen,             \* disk_analysis, with its run or its result
    picked, kept,       \* disk_analysis_root, and app.toml's analysis_roots
    diff,               \* analysis_diff
    expanded,           \* the opened rows, and the result each is under
    rowRun, rowWalk,    \* expand_runs, and expand_cancel
    watch, held,        \* watch_cancel and watch_held
    walkedHome,         \* watch_last is known
    search, chip,       \* the duplicate search and its scope
    cache, prev,        \* the files: each scope's last result, and the one before
    unsaved,            \* history: scopes with a save that failed since their
                        \* last walk was saved
    errors, restarts

rows == <<expanded, rowRun, rowWalk>>
check == <<watch, held, walkedHome>>
files == <<cache, prev, unsaved, errors>>
vars == <<begun, walks, screen, picked, kept, diff, rows, check, search, chip,
          files, restarts>>

\* A walk begun, and the answer it sends.
Walks == [id : Nat, kind : Kinds, at : Scopes \cup Rows, cancelled : BOOLEAN,
          hold : BOOLEAN, said : {"nothing", "done", "failed"}]
Card == [st : States, walk : Nat, scope : Scopes, cut : Nat]
Blank(st) == [st |-> st, walk |-> 0, scope |-> Home, cut |-> 0]
ResultOf(card) == [walk |-> card.walk, scope |-> card.scope, cut |-> card.cut]
Closed == [st |-> "closed", of |-> 0]

WalksTyped == begun \in Nat /\ walks \subseteq Walks
CardsTyped == screen \in Card /\ search \in Card /\ chip \in Scopes
RowsTyped ==
    /\ expanded \in [Rows -> [st : {"closed", "walking", "ready", "failed"}, of : Nat]]
    /\ rowRun \in Nat /\ rowWalk \in SUBSET Nat /\ \A i, j \in rowWalk : i = j
CheckTyped ==
    /\ watch \in SUBSET Nat /\ \A i, j \in watch : i = j
    /\ held \in BOOLEAN /\ walkedHome \in BOOLEAN
FilesTyped ==
    /\ picked \in Scopes \cup {None} /\ kept \in Scopes \cup {None}
    /\ diff \in Results \cup {None}
    /\ cache \in [Scopes -> Results \cup {None}]
    /\ prev \in [Scopes -> Results \cup {None}]
    /\ unsaved \subseteq Scopes /\ errors \in Nat /\ restarts \in Nat

TypeOK == WalksTyped /\ CardsTyped /\ RowsTyped /\ CheckTyped /\ FilesTyped

Init ==
    /\ begun = 0 /\ walks = {} /\ screen = Blank("off") /\ search = Blank("off")
    /\ picked = None /\ kept = None /\ diff = None /\ chip = Home
    /\ expanded = [r \in Rows |-> Closed] /\ rowRun = 0 /\ rowWalk = {}
    /\ watch = {} /\ held = FALSE /\ walkedHome = FALSE
    /\ cache = [s \in Scopes |-> None] /\ prev = [s \in Scopes |-> None]
    /\ unsaved = {} /\ errors = 0 /\ restarts = 0

Default(scope) == IF scope = None THEN Home ELSE scope
Running(card) == IF card.st = "running" THEN {card.walk} ELSE {}

Thread(kind, at) ==
    [id |-> begun + 1, kind |-> kind, at |-> at, cancelled |-> FALSE,
     hold |-> FALSE, said |-> "nothing"]

\* The flags of these walks are set; each thread sees it at its next entry.
Stopped(ids) == {IF w.id \in ids THEN [w EXCEPT !.cancelled = TRUE] ELSE w : w \in walks}

\* The rows part of drop_expansions.
CloseRows == expanded' = [r \in Rows |-> Closed] /\ rowWalk' = {} /\ UNCHANGED rowRun

\* Mutant: what held the stopped check is remembered.
StopCheckHeld == watch' = {} /\ UNCHANGED held

\* stop_disk_check, its walk stopped by the caller.
StopCheck == watch' = {} /\ held' = (held /\ watch = {})

----------------------------------------------------------------------------
(* The user's walk.                                                           *)

Pick(scope) ==
    /\ picked' = scope
    /\ UNCHANGED <<begun, walks, screen, kept, diff, rows, check, search, chip, files, restarts>>

\* set_disk_analysis_at with "/", which is refused.
PickRoot ==
    /\ walks' = Stopped(Running(screen) \cup rowWalk)
    /\ screen' = Blank("failed") /\ CloseRows
    /\ UNCHANGED <<begun, picked, kept, diff, check, search, chip, files, restarts>>

\* launch_disk_analysis: also over a walk that runs, from a second press.
Start ==
    /\ begun < MaxWalks /\ begun' = begun + 1
    /\ walks' = Stopped(Running(screen) \cup watch \cup rowWalk)
                    \cup {Thread("top", Default(picked))}
    /\ StopCheck
    /\ screen' = [st |-> "running", walk |-> begun + 1, scope |-> Default(picked), cut |-> 0]
    /\ CloseRows
    /\ UNCHANGED <<picked, kept, diff, walkedHome, search, chip, files, restarts>>

Cancel ==
    /\ screen.st = "running"
    /\ walks' = Stopped(Running(screen)) /\ screen' = Blank("off")
    /\ UNCHANGED <<begun, picked, kept, diff, rows, check, search, chip, files, restarts>>

\* clear_disk_analysis, from the card of a result or of a failure.
Clear ==
    /\ screen.st \in {"ready", "failed"}
    /\ walks' = Stopped(rowWalk) /\ CloseRows
    /\ LET gone == IF screen.st = "ready" THEN {screen.scope} ELSE {}
       IN  /\ cache' = [s \in Scopes |-> IF s \in gone THEN None ELSE cache[s]]
           /\ prev' = [s \in Scopes |-> IF s \in gone THEN None ELSE prev[s]]
           /\ unsaved' = unsaved \ gone
    /\ screen' = Blank("off") /\ picked' = None /\ kept' = None /\ diff' = None
    /\ UNCHANGED <<begun, check, search, chip, errors, restarts>>

----------------------------------------------------------------------------
(* Opened rows, and the map's levels, which share them.                       *)

\* walk_expansion.
WalkRow(r) ==
    /\ begun < MaxWalks /\ begun' = begun + 1
    /\ walks' = Stopped(rowWalk) \cup {Thread("row", r)}
    /\ rowRun' = begun + 1 /\ rowWalk' = {begun + 1}
    /\ expanded' = [expanded EXCEPT ![r] = [st |-> "walking", of |-> screen.walk]]

\* toggle_expansion: closed, served from the index, or walked.
Toggle(r) ==
    /\ \/ /\ expanded[r].st # "closed"
          /\ expanded' = [expanded EXCEPT ![r] = Closed]
          /\ UNCHANGED <<begun, walks, rowRun, rowWalk>>
       \/ /\ expanded[r].st = "closed" /\ screen.st = "ready"
          /\ expanded' = [expanded EXCEPT ![r] = [st |-> "ready", of |-> screen.walk]]
          /\ UNCHANGED <<begun, walks, rowRun, rowWalk>>
       \/ expanded[r].st = "closed" /\ screen.st = "ready" /\ WalkRow(r)
    /\ UNCHANGED <<screen, picked, kept, diff, check, search, chip, files, restarts>>

\* measure_map_level, where the index has nothing.
Measure(r) ==
    /\ screen.st = "ready" /\ expanded[r].st \notin {"ready", "walking"}
    /\ WalkRow(r)
    /\ UNCHANGED <<screen, picked, kept, diff, check, search, chip, files, restarts>>

\* reset_storage_views: a new window.
ResetViews ==
    /\ walks' = Stopped(rowWalk) /\ CloseRows
    /\ UNCHANGED <<begun, screen, picked, kept, diff, check, search, chip, files, restarts>>

----------------------------------------------------------------------------
(* The duplicate search.                                                      *)

FindDupes(scope) ==
    /\ begun < MaxWalks /\ begun' = begun + 1
    /\ chip' = scope
    /\ walks' = Stopped(Running(search) \cup watch) \cup {Thread("dupes", scope)}
    /\ StopCheck
    /\ search' = [st |-> "running", walk |-> begun + 1, scope |-> scope, cut |-> 0]
    /\ UNCHANGED <<screen, picked, kept, diff, rows, walkedHome, files, restarts>>

\* Mutant: back to the home chip with the folder's result left standing.
ClearDupesLeaving(scope) ==
    /\ scope \in {chip, Home}
    /\ chip' = scope
    /\ walks' = Stopped(Running(search)) /\ search' = IF search.st = "running" THEN Blank("off") ELSE search
    /\ UNCHANGED <<begun, screen, picked, kept, diff, rows, check, files, restarts>>

\* clear_dupes, and reset_dupe_scope, which also takes the home chip.
ClearDupes(scope) ==
    /\ scope \in {chip, Home}
    /\ chip' = scope
    /\ walks' = Stopped(Running(search)) /\ search' = Blank("off")
    /\ UNCHANGED <<begun, screen, picked, kept, diff, rows, check, files, restarts>>

----------------------------------------------------------------------------
(* The daily check: each tick starts it when it is due, or lets the one in    *)
(* flight go on or hold. The hour, the battery and the load are not modelled. *)

\* Mutant: a search that runs is no reason to wait.
StartCheckBeside ==
    /\ watch = {} /\ walkedHome
    /\ screen.st # "running"
    /\ begun < MaxWalks /\ begun' = begun + 1
    /\ walks' = walks \cup {Thread("check", Home)}
    /\ watch' = {begun + 1} /\ held' = FALSE
    /\ UNCHANGED <<screen, picked, kept, diff, rows, walkedHome, search, chip, files, restarts>>

StartCheck ==
    /\ watch = {} /\ walkedHome
    /\ screen.st # "running" /\ search.st # "running"
    /\ begun < MaxWalks /\ begun' = begun + 1
    /\ walks' = walks \cup {Thread("check", Home)}
    /\ watch' = {begun + 1} /\ held' = FALSE
    /\ UNCHANGED <<screen, picked, kept, diff, rows, walkedHome, search, chip, files, restarts>>

HoldCheck ==
    /\ watch # {}
    /\ held' = ~held
    /\ walks' = {IF w.id \in watch THEN [w EXCEPT !.hold = ~held] ELSE w : w \in walks}
    /\ UNCHANGED <<begun, screen, picked, kept, diff, rows, watch, walkedHome, search, chip, files, restarts>>

----------------------------------------------------------------------------
(* Cache files.                                                               *)

\* save_cache_in: over the scope's file, by a rename; `rotate` copies the old
\* file aside first. Anything can fail, also between the two.
SaveCache(result, rotate) ==
    LET s == result.scope
        rotated == IF rotate /\ cache[s] # None THEN [prev EXCEPT ![s] = cache[s]] ELSE prev
    IN  \/ /\ cache' = [cache EXCEPT ![s] = result] /\ prev' = rotated
           /\ unsaved' = IF rotate THEN unsaved \ {s} ELSE unsaved
          /\ UNCHANGED errors
        \/ /\ errors < MaxErrors /\ errors' = errors + 1
           /\ unsaved' = unsaved \cup {s}
           /\ UNCHANGED cache /\ prev' \in {prev, rotated}

----------------------------------------------------------------------------
(* A walk ends, and its answer lands under the lock some time later.          *)

WalkEnds(w) ==
    /\ w.said = "nothing"
    /\ \/ w.cancelled /\ walks' = walks \ {w}
       \/ \E said \in {"done", "failed"} :
              walks' = (walks \ {w}) \cup {[w EXCEPT !.said = said]}
    /\ UNCHANGED <<begun, screen, picked, kept, diff, rows, check, search, chip, files, restarts>>

Result(w) == [walk |-> w.id, scope |-> w.at, cut |-> 0]
Ready(w) == [st |-> "ready", walk |-> w.id, scope |-> w.at, cut |-> 0]

\* Mutant: a run that fails leaves the card running.
LandTopDone(w) ==
    /\ w.kind = "top" /\ w.said # "nothing"
    /\ walks' = walks \ {w}
    /\ \/ /\ w.id \in Running(screen) /\ w.said = "done"
          /\ screen' = Ready(w) /\ SaveCache(Result(w), TRUE)
          /\ diff' = prev'[w.at] /\ kept' = IF w.at = Home THEN None ELSE w.at
          /\ walkedHome' = (walkedHome \/ w.at = Home)
       \/ /\ w.id \notin Running(screen) \/ w.said = "failed"
          /\ UNCHANGED <<screen, kept, diff, walkedHome, files>>
    /\ UNCHANGED <<begun, picked, rows, watch, held, search, chip, restarts>>

\* launch_disk_analysis's reply: only the run that owns the card may write.
LandTop(w) ==
    /\ w.kind = "top" /\ w.said # "nothing"
    /\ walks' = walks \ {w}
    /\ \/ /\ w.id \in Running(screen) /\ w.said = "done"
          /\ screen' = Ready(w) /\ SaveCache(Result(w), TRUE)
          /\ diff' = prev'[w.at] /\ kept' = IF w.at = Home THEN None ELSE w.at
          /\ walkedHome' = (walkedHome \/ w.at = Home)
       \/ /\ w.id \in Running(screen) /\ w.said = "failed"
          /\ screen' = Blank("failed")
          /\ UNCHANGED <<kept, diff, walkedHome, files>>
       \/ /\ w.id \notin Running(screen)
          /\ UNCHANGED <<screen, kept, diff, walkedHome, files>>
    /\ UNCHANGED <<begun, picked, rows, watch, held, search, chip, restarts>>

\* walk_expansion's reply: superseded, or the row was closed, it lands nowhere.
LandRow(w) ==
    /\ w.kind = "row" /\ w.said # "nothing"
    /\ walks' = walks \ {w}
    /\ expanded' = IF rowRun = w.id /\ expanded[w.at].st = "walking"
                   THEN [expanded EXCEPT ![w.at].st = IF w.said = "done" THEN "ready" ELSE "failed"]
                   ELSE expanded
    /\ UNCHANGED <<begun, screen, picked, kept, diff, rowRun, rowWalk, check,
                   search, chip, files, restarts>>

LandDupes(w) ==
    /\ w.kind = "dupes" /\ w.said # "nothing"
    /\ walks' = walks \ {w}
    /\ search' = IF w.id \notin Running(search) THEN search
                 ELSE IF w.said = "done" THEN Ready(w) ELSE Blank("failed")
    /\ UNCHANGED <<begun, screen, picked, kept, diff, rows, check, chip, files, restarts>>

\* finish_disk_check: is the home tree what the window shows, or would show?
ShowingHome ==
    \/ screen.st = "ready" /\ screen.scope = Home
    \/ screen.st = "off" /\ picked = None

\* Mutant: the rows opened under the old result stay open under the new one.
TakeCheckUnder(w) ==
    /\ watch' = {} /\ held' = FALSE /\ walkedHome' = TRUE
    /\ SaveCache(Result(w), TRUE)
    /\ IF ShowingHome THEN screen' = Ready(w) /\ diff' = prev'[Home]
                      ELSE UNCHANGED <<screen, diff>>
    /\ walks' = walks \ {w} /\ UNCHANGED rows

\* The check's result becomes the home scope's, and the window's if it shows it.
TakeCheck(w) ==
    /\ watch' = {} /\ held' = FALSE /\ walkedHome' = TRUE
    /\ SaveCache(Result(w), TRUE)
    /\ \/ /\ ShowingHome
          /\ screen' = Ready(w) /\ diff' = prev'[Home]
          /\ walks' = Stopped(rowWalk) \ {w} /\ CloseRows
       \/ /\ ~ShowingHome
          /\ walks' = walks \ {w} /\ UNCHANGED <<screen, diff, rows>>

\* Mutant: a check that was stopped for the user's walk lands after it.
LandCheckAnyway(w) ==
    /\ w.kind = "check" /\ w.said # "nothing"
    /\ \/ w.said = "done" /\ TakeCheck(w)
       \/ /\ w.said = "failed" /\ w.id \in watch
          /\ walks' = walks \ {w}
          /\ watch' = {} /\ held' = FALSE /\ walkedHome' = TRUE
          /\ UNCHANGED <<screen, diff, rows, files>>
       \/ /\ w.said = "failed" /\ w.id \notin watch
          /\ walks' = walks \ {w} /\ UNCHANGED <<screen, diff, rows, check, files>>
    /\ UNCHANGED <<begun, picked, kept, search, chip, restarts>>

LandCheck(w) ==
    /\ w.kind = "check" /\ w.said # "nothing"
    /\ \/ w.said = "done" /\ ~w.cancelled /\ w.id \in watch /\ TakeCheck(w)
       \/ /\ w.said = "failed" /\ w.id \in watch
          /\ walks' = walks \ {w}
          /\ watch' = {} /\ held' = FALSE /\ walkedHome' = TRUE
          /\ UNCHANGED <<screen, diff, rows, files>>
       \/ /\ w.cancelled \/ w.id \notin watch
          /\ walks' = walks \ {w} /\ UNCHANGED <<screen, diff, rows, check, files>>
    /\ UNCHANGED <<begun, picked, kept, search, chip, restarts>>

----------------------------------------------------------------------------
(* What went to the Trash leaves the result, its cache and the opened rows.   *)

\* Mutant: the pruned result is saved like a new run.
ResaveRotated(result) == SaveCache(result, TRUE)

\* Mutant: rows cut from the screen stay in the file.
ResaveNothing(result) == UNCHANGED files

\* resave_if_cached.
Resave(result) == SaveCache(result, FALSE)

Trash(gone) ==
    /\ screen.st = "ready" /\ screen.cut < MaxCuts
    /\ screen' = [screen EXCEPT !.cut = @ + 1]
    /\ \/ cache[screen.scope] # None /\ Resave(ResultOf(screen'))
       \/ cache[screen.scope] = None /\ UNCHANGED files
    /\ expanded' = [r \in Rows |-> IF r \in gone THEN Closed ELSE expanded[r]]
    /\ UNCHANGED <<begun, walks, picked, kept, diff, rowRun, rowWalk, check,
                   search, chip, restarts>>

\* The next launch opens on the last finished analysis (Analysis::default).
Restart ==
    /\ restarts < MaxRestarts /\ restarts' = restarts + 1
    /\ LET last == cache[Default(kept)]
       IN  screen' = IF last = None THEN Blank("off")
                     ELSE [st |-> "ready", walk |-> last.walk, scope |-> last.scope, cut |-> last.cut]
    /\ picked' = kept /\ diff' = prev[Default(kept)]
    /\ walks' = {} /\ expanded' = [r \in Rows |-> Closed] /\ rowRun' = 0 /\ rowWalk' = {}
    /\ watch' = {} /\ held' = FALSE /\ walkedHome' = (cache[Home] # None)
    /\ search' = Blank("off") /\ chip' = Home
    /\ UNCHANGED <<begun, kept, files>>

Land(w) == LandTop(w) \/ LandRow(w) \/ LandDupes(w) \/ LandCheck(w)

Next ==
    \/ \E scope \in Scopes : Pick(scope) \/ FindDupes(scope) \/ ClearDupes(scope)
    \/ PickRoot \/ Start \/ Cancel \/ Clear
    \/ \E r \in Rows : Toggle(r) \/ Measure(r)
    \/ ResetViews \/ StartCheck \/ HoldCheck
    \/ \E w \in walks : WalkEnds(w) \/ Land(w)
    \/ \E gone \in SUBSET Rows : Trash(gone)
    \/ Restart

Spec == Init /\ [][Next]_vars

\* A thread that is not held still walks to its end and lands its answer.
Goes(w) == (~w.hold /\ WalkEnds(w)) \/ Land(w)
Fairness == \A id \in 1..MaxWalks : WF_vars(\E w \in walks : w.id = id /\ Goes(w))

FairSpec == Spec /\ Fairness

----------------------------------------------------------------------------
\* Whatever is shown as walking, searching or checking has a walk that was not
\* cancelled and will land: nothing spins for ever.
WaitingIsWalked ==
    \A id \in Running(screen) \cup Running(search) \cup watch :
        \E w \in walks : w.id = id /\ ~w.cancelled

\* "The user's walk wins over the daily check": no check is in flight beside
\* the analyser's walk or the duplicate search. And what the store thinks holds
\* the check still is what its walk waits on: a mismatch would leave it held for
\* ever, or deaf to the battery.
CheckStandsAside ==
    /\ watch # {} => screen.st # "running" /\ search.st # "running"
    /\ watch = {} => ~held
    /\ \A w \in walks : w.id \in watch => w.hold = held

\* What is shown as going on goes on, and the check beside nothing else.
RunsAreReal == WaitingIsWalked /\ CheckStandsAside

\* An opened row is under the result it was opened in: "children of a replaced
\* result would be figures from a scan that is no longer on screen".
RowsAreOfTheResult ==
    \A r \in Rows :
        expanded[r].st # "closed" => screen.st = "ready" /\ expanded[r].of = screen.walk

\* A search's result stands under the scope it was made for: "under the home
\* chip it would read as the home folder's answer".
DupesUnderTheirChip == search.st \in {"running", "ready"} => search.scope = chip

\* What stands under a result, or under a chip, was found there.
UnderWhatItWasFound == RowsAreOfTheResult /\ DupesUnderTheirChip

\* The next launch opens on the result that is on screen, rows cut and all,
\* unless a save of it failed (save_cache, resave_if_cached, analysis_roots).
LaunchRestoresTheScreen ==
    screen.st = "ready" /\ screen.scope \notin unsaved =>
        Default(kept) = screen.scope /\ cache[screen.scope] = ResultOf(screen)

\* The delta under a result is against an earlier run of its scope: trashing
\* rows never displaces the baseline (analysis_diff_for, resave_if_cached).
DeltaIsOfAnEarlierRun ==
    screen.st = "ready" /\ diff # None /\ screen.scope \notin unsaved =>
        (diff.scope = screen.scope => diff.walk < screen.walk)

\* What the files keep of the last run of a scope and of the run before it.
FilesFollowTheScreen == LaunchRestoresTheScreen /\ DeltaIsOfAnEarlierRun

\* Both cards are cards of Answers: the screen shows the walk last asked for or
\* a later check of the home folder, the search the search last asked for, and
\* neither shows an older one or waits for ever, whatever is cancelled, cleared,
\* taken over, refused or late.
ScreenCard == INSTANCE Answers WITH
    Renews <- TRUE, st <- screen.st, of <- screen.walk, asked <- begun, life <- restarts
SearchCard == INSTANCE Answers WITH
    Renews <- FALSE, st <- search.st, of <- search.walk, asked <- begun, life <- restarts

CardsAnswer == ScreenCard!Spec /\ SearchCard!Spec

\* "A walk of this subtree is running. Seconds, and only ever one at a time"
\* (Expansion::Walking).
WalkingRowsAreWalked ==
    \A r \in Rows : expanded[r].st = "walking" =>
        \E w \in walks : w.kind = "row" /\ w.at = r /\ ~w.cancelled
=============================================================================
