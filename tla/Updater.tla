------------------------------ MODULE Updater ------------------------------
(* The update row of the Settings window (src/src/state/mod.rs:2100-2345,     *)
(* src/src/settingspage.rs), the silent check of the tick, and the file both  *)
(* keep (src/src/updater.rs), over the steps of Install.                      *)
(*                                                                            *)
(* Every store method and every answer that lands is one step under the       *)
(* store's lock. Jobs end in a step of their own. A press acts on the row as  *)
(* it was drawn, and the row is drawn again after a press; what a job changes *)
(* is drawn in a later step. Release notes and progress figures are left out. *)
(* Days are counted, hours are not: a day or less is under AUTO_CHECK_EVERY.  *)
EXTENDS Install

CONSTANTS MaxDay, MaxLaunches   \* bounds on the days and on the launches

ASSUME UpdaterAssumption == MaxDay \in Nat /\ MaxLaunches \in Nat

AutoCheckEvery == 2

VARIABLES
    published,  \* the latest release
    day, launches,
    file,       \* update-check.toml
    status, nudge, ignored,   \* update_status, update_nudge, update_ignored
    silent, probed,     \* auto_check_inflight; auto_check_probe_at is recent
    checks,     \* the checks someone asked for that are in flight
    fetching,   \* per version, the downloads in flight
    about, row  \* the About page is on screen; its row as drawn

world == <<published, day, launches>>
shown == <<status, nudge, ignored>>
jobs == <<silent, checks, fetching>>
updater == <<world, file, shown, jobs, probed, about, row>>
vars == <<install, updater>>

Held == Versions \cup {NoVersion}
Status(is) == [is |-> is, v |-> NoVersion]
Of(is, version) == [is |-> is, v |-> version]

Answered == {"uptodate", "unanswered", "newer"}
Busy == {"checking", "downloading", "installing"}

UpdaterTyped ==
    /\ published \in Versions /\ day \in Nat /\ launches \in Nat
    /\ file \in [checked : Nat, latest : Held, ignored : Held]
    /\ status \in [is : {"none", "installed", "manual", "failed"} \cup Answered \cup Busy,
                   v : Held]
    /\ nudge \in Held /\ ignored \in Held
    /\ silent \in BOOLEAN /\ probed \in BOOLEAN /\ checks \in Nat
    /\ fetching \in [Versions -> Nat]
    /\ about \in BOOLEAN
    /\ row \in [offers : {"install", "unskip", "check", "nothing", "quit"}, v : Held]

TypeOK == InstallTyped /\ UpdaterTyped

----------------------------------------------------------------------------
(* The check file.                                                            *)

Newer(version, current) == version # NoVersion /\ version > current

\* Mutant: installing the update is expected to clear what was found.
NudgeUnlessIgnored(f, current) == IF f.ignored = f.latest THEN NoVersion ELSE f.latest

Nudge(f, current) ==
    IF f.ignored # f.latest /\ Newer(f.latest, current) THEN f.latest ELSE NoVersion

Ignored(f, current) == IF Newer(f.ignored, current) THEN f.ignored ELSE NoVersion

Due(f) == day - f.checked >= AutoCheckEvery

\* Mutant: the file is written anew from the answer.
RecordAnew(f, answer) ==
    [checked |-> day, ignored |-> NoVersion,
     latest |-> IF answer.is = "unanswered" THEN f.latest ELSE answer.v]

\* Mutant: a check that failed does not count as one.
RecordAnswers(f, answer) ==
    IF answer.is = "unanswered" THEN f
    ELSE [f EXCEPT !.checked = day, !.latest = answer.v]

\* Any outcome is stamped; a failed one keeps what was learned before it.
RecordOutcome(f, answer) ==
    [f EXCEPT !.checked = day,
              !.latest = IF answer.is = "unanswered" THEN @ ELSE answer.v]

\* What a check can hear: nothing, the latest release, or the one before it
\* from a mirror that is behind.
Answers ==
    {Status("unanswered")} \cup
    {IF Newer(v, running) THEN Of("newer", v) ELSE Status("uptodate") :
        v \in {w \in Versions : w <= published /\ published <= w + 1}}

----------------------------------------------------------------------------
(* The row.                                                                   *)

Offer(offers, v) == [offers |-> offers, v |-> v]

View(s, n, i) ==
    CASE s.is = "none" /\ n # NoVersion -> Offer("install", n)
      [] s.is = "none" /\ n = NoVersion /\ i # NoVersion -> Offer("unskip", i)
      [] s.is \in {"newer", "failed"} -> Offer("install", s.v)
      [] s.is \in Busy -> Offer("nothing", NoVersion)
      [] s.is \in {"installed", "manual"} -> Offer("quit", NoVersion)
      [] OTHER -> Offer("check", NoVersion)

Init ==
    /\ InstallInit
    /\ published = 0 /\ day = AutoCheckEvery /\ launches = 1
    /\ file = [checked |-> 0, latest |-> NoVersion, ignored |-> NoVersion]
    /\ status = Status("none") /\ nudge = NoVersion /\ ignored = NoVersion
    /\ silent = FALSE /\ probed = FALSE /\ checks = 0
    /\ fetching = [v \in Versions |-> 0]
    /\ about = FALSE /\ row = View(status, nudge, ignored)

Alive == running # NoVersion

Draw ==
    /\ about /\ row # View(status, nudge, ignored)
    /\ row' = View(status, nudge, ignored)
    /\ UNCHANGED <<install, world, file, shown, jobs, probed, about>>

Redrawn == row' = View(status', nudge', ignored')

----------------------------------------------------------------------------
(* The silent check.                                                          *)

SilentCheck ==
    /\ Alive /\ ~silent /\ ~probed
    /\ probed' = TRUE /\ silent' = Due(file)
    /\ UNCHANGED <<install, world, file, shown, checks, fetching, about, row>>

\* Mutant: what the tick found is only written down.
LandSilentQuietly ==
    /\ silent /\ silent' = FALSE
    /\ \E answer \in Answers : file' = RecordOutcome(file, answer)
    /\ UNCHANGED <<install, world, shown, checks, fetching, probed, about, row>>

LandSilent ==
    /\ silent /\ silent' = FALSE
    /\ \E answer \in Answers : file' = RecordOutcome(file, answer)
    /\ nudge' = Nudge(file', running)
    /\ UNCHANGED <<install, world, status, ignored, checks, fetching, probed, about, row>>

----------------------------------------------------------------------------
(* What the page asks for.                                                    *)

StartCheck ==
    IF status.is = "checking" THEN UNCHANGED <<status, checks>>
    ELSE status' = Status("checking") /\ checks' = checks + 1

CheckUpdate ==
    /\ about /\ row.offers = "check"
    /\ StartCheck
    /\ UNCHANGED <<install, world, file, nudge, ignored, silent, fetching, probed, about>>
    /\ Redrawn

\* Entering About runs a real check where only the silent one has.
OpenAbout ==
    /\ Alive /\ about' = TRUE
    /\ IF status.is = "none" /\ nudge # NoVersion
       THEN StartCheck ELSE UNCHANGED <<status, checks>>
   
    /\ UNCHANGED <<install, world, file, nudge, ignored, silent, fetching, probed>>
    /\ Redrawn

CloseAbout ==
    /\ about /\ about' = FALSE
    /\ UNCHANGED <<install, world, file, shown, jobs, probed, row>>

LandCheck ==
    /\ checks > 0 /\ checks' = checks - 1
    /\ \E answer \in Answers :
           status' = answer /\ file' = RecordOutcome(file, answer)
    /\ nudge' = Nudge(file', running)
    /\ UNCHANGED <<install, world, ignored, silent, fetching, probed, about, row>>

\* Mutant: the press does not put anything on the row.
DownloadUnseen(v) ==
    /\ about /\ row = Offer("install", v)
    /\ fetching' = [fetching EXCEPT ![v] = @ + 1]
    /\ UNCHANGED <<install, world, file, shown, silent, checks, probed, about>>
    /\ Redrawn

DownloadUpdate(v) ==
    /\ about /\ row = Offer("install", v)
    /\ IF status.is = "downloading" THEN UNCHANGED <<status, fetching>>
       ELSE /\ status' = Status("downloading")
            /\ fetching' = [fetching EXCEPT ![v] = @ + 1]
   
    /\ UNCHANGED <<install, world, file, nudge, ignored, silent, checks, probed, about>>
    /\ Redrawn

\* The row falls through to what stands below a check's finding.
IgnoreUpdate(v) ==
    /\ about /\ row = Offer("install", v)
    /\ file' = [file EXCEPT !.ignored = v]
    /\ nudge' = Nudge(file', running) /\ ignored' = Ignored(file', running)
    /\ status' = Status("none")
    /\ UNCHANGED <<install, world, jobs, probed, about>>
    /\ Redrawn

UnignoreUpdate ==
    /\ about /\ row.offers = "unskip"
    /\ file' = [file EXCEPT !.ignored = NoVersion]
    /\ ignored' = NoVersion /\ nudge' = Nudge(file', running)
    /\ UNCHANGED <<install, world, status, jobs, probed, about>>
    /\ Redrawn

----------------------------------------------------------------------------
(* The download's job.                                                        *)

\* Mutant: the job ends where it failed, and says nothing.
FetchEndsSilently(v) ==
    /\ fetching[v] > 0 /\ fetching' = [fetching EXCEPT ![v] = @ - 1]
    /\ UNCHANGED <<install, world, file, shown, silent, checks, probed, about, row>>

\* No host, too many bytes, a digest that differs or, on Linux, is missing.
FetchFails(v) ==
    /\ fetching[v] > 0 /\ fetching' = [fetching EXCEPT ![v] = @ - 1]
    /\ status' = Of("failed", v)
    /\ UNCHANGED <<install, world, file, nudge, ignored, silent, checks, probed, about, row>>

FetchLands(v) ==
    /\ fetching[v] > 0 /\ fetching' = [fetching EXCEPT ![v] = @ - 1]
    /\ status' = Status("installing") /\ Begin(v)
    /\ UNCHANGED <<world, file, nudge, ignored, silent, checks, probed, about, row>>

Install1 == InstallStep /\ UNCHANGED updater

InstallEnds ==
    /\ step \in Ends /\ step' = "idle"
    /\ status' = CASE step = "replaced" -> Status("installed")
                   [] step = "opened" -> Status("manual")
                   [] step = "refused" -> Of("failed", fresh)
    /\ UNCHANGED <<platform, running, disk, swept, fresh, moved>>
    /\ UNCHANGED <<world, file, nudge, ignored, jobs, probed, about, row>>

----------------------------------------------------------------------------
(* The world around it.                                                       *)

Publish ==
    /\ published < MaxVersion /\ published' = published + 1
    /\ UNCHANGED <<install, day, launches, file, shown, jobs, probed, about, row>>

NextDay ==
    /\ day < MaxDay /\ day' = day + 1 /\ probed' = FALSE
    /\ UNCHANGED <<install, published, launches, file, shown, jobs, about, row>>

Exit ==
    /\ Halt
    /\ status' = Status("none") /\ nudge' = NoVersion /\ ignored' = NoVersion
    /\ silent' = FALSE /\ probed' = FALSE /\ checks' = 0
    /\ fetching' = [v \in Versions |-> 0]
    /\ about' = FALSE /\ row' = View(status', nudge', ignored')
    /\ UNCHANGED <<world, file>>

Start ==
    /\ launches < MaxLaunches /\ launches' = launches + 1
    /\ Launch
    /\ nudge' = Nudge(file, running') /\ ignored' = Ignored(file, running')
    /\ UNCHANGED <<published, day, file, status, jobs, probed, about, row>>

SweepThread == Sweep /\ UNCHANGED updater
ByHand == FinishByHand /\ UNCHANGED updater

Next ==
    \/ Draw \/ SilentCheck \/ LandSilent \/ CheckUpdate \/ OpenAbout \/ CloseAbout
    \/ LandCheck \/ UnignoreUpdate \/ Install1 \/ InstallEnds
    \/ \E v \in Versions :
           DownloadUpdate(v) \/ IgnoreUpdate(v) \/ FetchFails(v) \/ FetchLands(v)
    \/ Publish \/ NextDay \/ Exit \/ Start \/ SweepThread \/ ByHand

Spec == Init /\ [][Next]_vars

\* A job's thread goes on to its end and its answers get the lock.
Fairness ==
    /\ WF_vars(LandSilent) /\ WF_vars(LandCheck)
    /\ WF_vars(\E v \in Versions : FetchFails(v) \/ FetchLands(v))
    /\ WF_vars(Install1) /\ WF_vars(InstallEnds)

FairSpec == Spec /\ Fairness

----------------------------------------------------------------------------
(* Properties.                                                                *)

\* What the store remembers of the check file is what a fresh read of it by
\* the build that runs would say: the dot and the row never part from it.
StoreMirrorsFile ==
    Alive => /\ nudge = Nudge(file, running)
             /\ ignored = Ignored(file, running)

\* "One at a time": the row says checking, downloading or installing exactly
\* while one job of that kind is at work, and then no other can be asked for.
BusyIsItsJob ==
    /\ checks = IF status.is = "checking" THEN 1 ELSE 0
    /\ status.is = "downloading" <=> \E v \in Versions : fetching[v] = 1
    /\ \A v, w \in Versions : fetching[v] <= 1
           /\ (v # w => fetching[v] = 0 \/ fetching[w] = 0)
    /\ status.is = "installing" <=> step # "idle"

\* "installing the update clears the dot by comparison, not by bookkeeping":
\* what the dot stands for and what the row offers to install or to take back
\* is newer than the build that runs, after every restart as well.
OffersAreNewer ==
    /\ Alive /\ nudge # NoVersion => nudge > running
    /\ about /\ row.offers \in {"install", "unskip"} => row.v > running

\* What is offered is what the check file says to the build that runs: neither
\* stale, by any of the five writers or a restart, nor older than that build.
OffersAreTrue == StoreMirrorsFile /\ OffersAreNewer

\* A row that asks for a restart stands before the build it downloaded; and what
\* runs, or would start, or is installed from, is not lost whatever fails or
\* sweeps beside it (Install).
InstalledIsThere == status.is = "installed" => target = fresh
InstallsLoseNothing == NothingIsLost /\ InstalledIsThere /\ SweepLeavesTheImage

\* "The ignore mark always survives", and "one try per period, not one per
\* tick": an answer that lands, of either check and be it a failure, leaves the
\* skipped version skipped and the silent check not due.
AnswersAreRecorded ==
    [][Alive /\ (checks' < checks \/ (silent /\ ~silent')) /\ running' = running
           => file'.ignored = file.ignored /\ ~Due(file')]_vars

\* A row that says something is being done goes on to say how it ended.
RowComesBack == []<>(status.is \notin Busy)
=============================================================================
