---------------------------- MODULE UpdaterProofs ----------------------------
(* Theorems about Updater and Install, for any number of releases, days and   *)
(* launches, and their proofs.                                                *)
EXTENDS Updater, TLAPS

\* A process that has ended has left nothing on the row.
DeadIsQuiet == ~Alive => status.is = "none" /\ ~about
\* While a job is at work the row, as drawn, has nothing to press.
RowIdle == about /\ status.is \in Busy => row.offers = "nothing"

\* Each system takes its own steps, with a build in hand.
StepsFit ==
    /\ platform = "mac" => step \notin LinuxSteps
    /\ platform = "linux" => step \notin MacSteps
    /\ step # "idle" => fresh \in Versions
\* What stands at the target, or beside it, at the steps that rely on it.
InPlace ==
    /\ step = "copy" => target = NoVersion
    /\ step = "copying" => target = Half
    /\ step = "swap" => staged = fresh
    /\ step \in {"detach", "replaced"} => target = fresh

\* All that is offered, fetched or installed is newer than what runs.
StoreAhead ==
    Alive => /\ nudge # NoVersion => nudge > running
             /\ ignored # NoVersion => ignored > running
             /\ status.is \in {"newer", "failed"} => status.v > running
RowAhead ==
    Alive /\ about /\ row.offers \in {"install", "unskip"} => row.v > running
JobsAhead ==
    Alive => /\ \A v \in Versions : fetching[v] > 0 => v > running
             /\ step # "idle" => fresh > running

Ahead == StoreAhead /\ RowAhead /\ JobsAhead
Jobs == BusyIsItsJob /\ DeadIsQuiet /\ RowIdle
Places == StepsFit /\ InPlace /\ InstalledIsThere /\ RunningStaysReachable /\ LinuxIsAlwaysWhole

IndInv ==
    /\ TypeOK /\ Jobs /\ StoreMirrorsFile /\ Places /\ Ahead /\ SweepLeavesTheImage

----------------------------------------------------------------------------
(* Types, and the steps each system takes.                                    *)

LEMMA NothingThere == NoVersion \notin Versions /\ Half \notin Versions
  BY VersionAssumption DEF Versions

LEMMA InstallNext ==
  ASSUME InstallTyped, StepsFit, [Next]_vars
  PROVE  InstallTyped' /\ StepsFit'
  <1> USE DEF InstallTyped, StepsFit, Goto, disk, Versions, Content, MacSteps, LinuxSteps, Ends
  <1>1. CASE InstallStep
    <2>1. CASE Attach BY <2>1 DEF Attach
    <2>2. CASE Verify BY <2>2 DEF Verify
    <2>3. CASE MoveAside BY <2>3 DEF MoveAside
    <2>4. CASE Copy BY <2>4 DEF Copy
    <2>5. CASE Copied BY <2>5 DEF Copied
    <2>6. CASE Restore BY <2>6 DEF Restore
    <2>7. CASE Detach BY <2>7 DEF Detach
    <2>8. CASE Drag BY <2>8 DEF Drag
    <2>9. CASE Unpack BY <2>9 DEF Unpack
    <2>10. CASE Stage BY <2>10 DEF Stage
    <2>11. CASE Swap BY <2>11 DEF Swap
    <2> QED
      BY <1>1, <2>1, <2>2, <2>3, <2>4, <2>5, <2>6, <2>7, <2>8, <2>9, <2>10, <2>11
      DEF InstallStep
  <1>2. ASSUME NEW v \in Versions, Begin(v) PROVE InstallTyped' /\ StepsFit'
    BY <1>2 DEF Begin
  <1>3. CASE InstallEnds
    BY <1>3 DEF InstallEnds
  <1>4. CASE Halt
    BY <1>4 DEF Halt
  <1>5. CASE Launch
    BY <1>5 DEF Launch
  <1>6. CASE FinishByHand
    BY <1>6 DEF FinishByHand
  <1>7. CASE Sweep
    <2>1. volumes' \subseteq volumes /\ swept' \in BOOLEAN
      BY <1>7 DEF Sweep
    <2>2. unpacked' \in BOOLEAN
      BY <1>7, Zenon DEF Sweep
    <2> QED
      BY <1>7, <2>1, <2>2 DEF Sweep
  <1>8. CASE UNCHANGED install
    BY <1>8 DEF install
  <1> QED
    BY <1>1, <1>2, <1>3, <1>4, <1>5, <1>6, <1>7, <1>8
    DEF Next, vars, Draw, SilentCheck, LandSilent, CheckUpdate, OpenAbout, CloseAbout,
        LandCheck, UnignoreUpdate, Install1, DownloadUpdate, IgnoreUpdate, FetchFails,
        FetchLands, Publish, NextDay, Exit, Start, SweepThread, ByHand

FileType == [checked : Nat, latest : Held, ignored : Held]
StatusType ==
    [is : {"none", "installed", "manual", "failed"} \cup Answered \cup Busy, v : Held]
RowType == [offers : {"install", "unskip", "check", "nothing", "quit"}, v : Held]

LEMMA AnswerType ==
  ASSUME NEW answer \in Answers
  PROVE  answer \in StatusType /\ answer.is \in Answered
         /\ (answer.is # "unanswered" => answer.v \in Held)
  BY DEF Answers, StatusType, Status, Of, Answered, Held, Versions

LEMMA ViewType ==
  ASSUME NEW s \in StatusType, NEW n \in Held, NEW i \in Held
  PROVE  View(s, n, i) \in RowType
  BY DEF View, StatusType, RowType, Offer, Answered, Busy, Held

LEMMA OutcomeType ==
  ASSUME NEW f \in FileType, NEW answer \in Answers, day \in Nat
  PROVE  RecordOutcome(f, answer) \in FileType
         /\ RecordOutcome(f, answer).ignored = f.ignored
         /\ RecordOutcome(f, answer).checked = day
  BY AnswerType DEF RecordOutcome, FileType

LEMMA NudgeType ==
  ASSUME NEW f \in FileType, NEW current
  PROVE  Nudge(f, current) \in Held /\ Ignored(f, current) \in Held
  BY DEF Nudge, Ignored, FileType, Held

LEMMA WorldNext ==
  ASSUME UpdaterTyped, [Next]_vars
  PROVE  published' \in Versions /\ day' \in Nat /\ launches' \in Nat
  <1> USE DEF UpdaterTyped
  <1>1. CASE Publish
    BY <1>1, VersionAssumption DEF Publish, Versions
  <1>2. CASE NextDay
    BY <1>2 DEF NextDay
  <1>3. CASE Start
    BY <1>3 DEF Start
  <1>4. CASE UNCHANGED world
    BY <1>4 DEF world
  <1> QED
    BY <1>1, <1>2, <1>3, <1>4
    DEF Next, vars, updater, Draw, SilentCheck, LandSilent, CheckUpdate, OpenAbout,
        CloseAbout, LandCheck, UnignoreUpdate, Install1, InstallEnds, DownloadUpdate,
        IgnoreUpdate, FetchFails, FetchLands, Exit, SweepThread, ByHand

LEMMA FileNext ==
  ASSUME UpdaterTyped, [Next]_vars
  PROVE  file' \in FileType /\ nudge' \in Held /\ ignored' \in Held
  <1> USE DEF UpdaterTyped, FileType
  <1>1. CASE LandSilent
    BY <1>1, OutcomeType, NudgeType DEF LandSilent
  <1>2. CASE LandCheck
    BY <1>2, OutcomeType, NudgeType DEF LandCheck
  <1>3. CASE UnignoreUpdate
    BY <1>3, NudgeType DEF UnignoreUpdate, Held
  <1>4. ASSUME NEW v \in Versions, IgnoreUpdate(v)
        PROVE  file' \in FileType /\ nudge' \in Held /\ ignored' \in Held
    BY <1>4, NudgeType DEF IgnoreUpdate, Held
  <1>5. CASE Exit
    BY <1>5 DEF Exit, Held
  <1>6. CASE Start
    BY <1>6, NudgeType DEF Start
  <1>7. CASE UNCHANGED <<file, nudge, ignored>>
    BY <1>7
  <1> QED
    BY <1>1, <1>2, <1>3, <1>4, <1>5, <1>6, <1>7
    DEF Next, vars, updater, shown, Draw, SilentCheck, CheckUpdate, OpenAbout,
        CloseAbout, Install1, InstallEnds, DownloadUpdate, FetchFails, FetchLands,
        Publish, NextDay, SweepThread, ByHand

LEMMA StatusNext ==
  ASSUME UpdaterTyped, InstallTyped, [Next]_vars
  PROVE  status' \in StatusType /\ checks' \in Nat /\ fetching' \in [Versions -> Nat]
  <1> USE DEF UpdaterTyped, StatusType, Status, Of, Held, Busy
  <1>1. CASE LandCheck
    BY <1>1, AnswerType DEF LandCheck
  <1>2. CASE CheckUpdate \/ OpenAbout
    BY <1>2 DEF CheckUpdate, OpenAbout, StartCheck
  <1>3. ASSUME NEW v \in Versions, DownloadUpdate(v) \/ IgnoreUpdate(v)
                                   \/ FetchFails(v) \/ FetchLands(v)
        PROVE  status' \in StatusType /\ checks' \in Nat /\ fetching' \in [Versions -> Nat]
    BY <1>3 DEF DownloadUpdate, IgnoreUpdate, FetchFails, FetchLands, jobs
  <1>4. CASE InstallEnds
    BY <1>4 DEF InstallEnds, jobs, InstallTyped, Ends
  <1>5. CASE Exit
    BY <1>5 DEF Exit
  <1>6. CASE UNCHANGED <<status, checks, fetching>>
    BY <1>6
  <1> QED
    BY <1>1, <1>2, <1>3, <1>4, <1>5, <1>6
    DEF Next, vars, updater, shown, jobs, Draw, SilentCheck, LandSilent, CloseAbout,
        UnignoreUpdate, Install1, Publish, NextDay, Start, SweepThread, ByHand

LEMMA FlagsNext ==
  ASSUME UpdaterTyped, [Next]_vars
  PROVE  silent' \in BOOLEAN /\ probed' \in BOOLEAN /\ about' \in BOOLEAN
  <1> USE DEF UpdaterTyped
  <1>1. CASE SilentCheck
    <2>1. Due(file) \in BOOLEAN
      BY DEF Due, AutoCheckEvery
    <2> QED
      BY <1>1, <2>1, Zenon DEF SilentCheck
  <1>2. CASE silent' \in {FALSE, silent} /\ probed' \in {FALSE, probed}
             /\ about' \in {about, TRUE, FALSE}
    BY <1>2
  <1> QED
    BY <1>1, <1>2
    DEF Next, vars, updater, jobs, Draw, LandSilent, CheckUpdate, OpenAbout,
        CloseAbout, LandCheck, UnignoreUpdate, Install1, InstallEnds, DownloadUpdate,
        IgnoreUpdate, FetchFails, FetchLands, Publish, NextDay, Exit, Start,
        SweepThread, ByHand

LEMMA RowNext ==
  ASSUME UpdaterTyped, [Next]_vars,
         status' \in StatusType, nudge' \in Held, ignored' \in Held
  PROVE  row' \in RowType
  <1>1. CASE row' = View(status, nudge, ignored)
    BY <1>1, ViewType DEF UpdaterTyped, StatusType
  <1>2. CASE row' = View(status', nudge', ignored')
    BY <1>2, ViewType
  <1>3. CASE UNCHANGED row
    BY <1>3 DEF UpdaterTyped, RowType
  <1> QED
    BY <1>1, <1>2, <1>3
    DEF Next, vars, updater, Draw, Redrawn, SilentCheck, LandSilent, CheckUpdate,
        OpenAbout, CloseAbout, LandCheck, UnignoreUpdate, Install1, InstallEnds,
        DownloadUpdate, IgnoreUpdate, FetchFails, FetchLands, Publish, NextDay, Exit,
        Start, SweepThread, ByHand

----------------------------------------------------------------------------
(* The row and its jobs.                                                      *)

\* What a view has to press for a busy status.
LEMMA BusyView ==
  ASSUME NEW s, NEW n, NEW i, s.is \in Busy
  PROVE  View(s, n, i).offers = "nothing"
  BY DEF View, Busy, Offer

LEMMA NothingInFlight ==
  ASSUME UpdaterTyped, BusyIsItsJob, status.is \notin Busy
  PROVE  checks = 0 /\ step = "idle" /\ \A v \in Versions : fetching[v] = 0
  BY DEF UpdaterTyped, BusyIsItsJob, Busy

LEMMA JobsNext ==
  ASSUME InstallTyped, UpdaterTyped, Jobs, [Next]_vars
  PROVE  Jobs'
  <1> USE DEF Jobs, BusyIsItsJob, DeadIsQuiet, RowIdle
  <1>1. CASE LandCheck
    <2>1. PICK answer \in Answers : status' = answer
      BY <1>1 DEF LandCheck
    <2>2. status'.is \in Answered
      BY <2>1, AnswerType
    <2>3. status.is = "checking" /\ checks = 1 /\ checks' = 0
      BY <1>1 DEF LandCheck, UpdaterTyped
    <2> QED
      BY <1>1, <2>2, <2>3 DEF LandCheck, Answered, Busy, Alive, install
  <1>2. CASE CheckUpdate \/ OpenAbout
    <2>1. CASE UNCHANGED <<status, checks>>
      BY <1>2, <2>1, BusyView DEF CheckUpdate, OpenAbout, Redrawn, Alive, install, jobs
    <2>2. CASE status' = Status("checking") /\ checks' = checks + 1
      <3>1. status.is \notin Busy
        BY <1>2, <2>2 DEF CheckUpdate, OpenAbout, StartCheck, Busy
      <3>2. checks' = 1 /\ status'.is = "checking"
        BY <2>2, <3>1, NothingInFlight DEF Status
      <3> QED
        BY <1>2, <3>1, <3>2, NothingInFlight, BusyView
        DEF CheckUpdate, OpenAbout, Redrawn, Alive, install, jobs, Busy
    <2> QED
      BY <1>2, <2>1, <2>2 DEF CheckUpdate, OpenAbout, StartCheck
  <1>3. ASSUME NEW v \in Versions, DownloadUpdate(v) PROVE Jobs'
    <2>1. status.is \notin Busy
      BY <1>3 DEF DownloadUpdate, Offer
    <2>2. status'.is = "downloading" /\ fetching' = [w \in Versions |-> IF w = v THEN 1 ELSE 0]
      BY <1>3, <2>1, NothingInFlight DEF DownloadUpdate, Busy, Status, UpdaterTyped
    <2> QED
      BY <1>3, <2>1, <2>2, NothingInFlight, BusyView
      DEF DownloadUpdate, Redrawn, Alive, install, Busy
  <1>4. ASSUME NEW v \in Versions, IgnoreUpdate(v) PROVE Jobs'
    <2>1. status.is \notin Busy /\ status'.is = "none"
      BY <1>4 DEF IgnoreUpdate, Offer, Status
    <2> QED
      BY <1>4, <2>1, NothingInFlight DEF IgnoreUpdate, Alive, install, jobs, Busy
  <1>5. ASSUME NEW v \in Versions, FetchFails(v) \/ FetchLands(v) PROVE Jobs'
    <2>1. fetching[v] = 1 /\ status.is = "downloading" /\ checks = 0 /\ step = "idle"
      BY <1>5 DEF FetchFails, FetchLands, UpdaterTyped
    <2>2. fetching' = [w \in Versions |-> 0]
      BY <1>5, <2>1 DEF FetchFails, FetchLands, UpdaterTyped
    <2>3. CASE FetchFails(v)
      BY <2>1, <2>2, <2>3 DEF FetchFails, Of, Busy, Alive, install
    <2>4. CASE FetchLands(v)
      BY <2>1, <2>2, <2>4 DEF FetchLands, Begin, Status, Busy, Alive
    <2> QED
      BY <1>5, <2>3, <2>4
  <1>6. CASE InstallEnds
    <2>1. status.is = "installing" /\ status'.is \in {"installed", "manual", "failed"}
      BY <1>6 DEF InstallEnds, Ends, Status, Of
    <2> QED
      BY <1>6, <2>1 DEF InstallEnds, Alive, jobs, Busy
  <1>7. CASE Exit
    BY <1>7 DEF Exit, Halt, Status, Busy
  <1>8. CASE Install1
    <2>1. step # "idle" /\ step' # "idle" /\ running' = running
      BY <1>8 DEF Install1, InstallStep, Attach, Verify, MoveAside, Copy, Copied,
                  Restore, Detach, Drag, Unpack, Stage, Swap, Goto
    <2> QED
      BY <1>8, <2>1 DEF Install1, updater, shown, jobs, Alive
  <1>9. CASE Draw \/ UnignoreUpdate
    BY <1>9, BusyView DEF Draw, UnignoreUpdate, Redrawn, Alive, install, shown, jobs
  <1>10. CASE Start
    BY <1>10 DEF Start, Launch, Alive, jobs
  <1>11. CASE CloseAbout
    BY <1>11 DEF CloseAbout, Alive, install, shown, jobs
  <1>12. CASE SweepThread \/ ByHand
    BY <1>12 DEF SweepThread, Sweep, ByHand, FinishByHand, updater, shown, jobs, Alive
  <1>13. CASE UNCHANGED <<running, step, status, checks, fetching, about, row>>
    BY <1>13 DEF Alive
  <1> QED
    BY <1>1, <1>2, <1>3, <1>4, <1>5, <1>6, <1>7, <1>8, <1>9, <1>10, <1>11, <1>12, <1>13
    DEF Next, vars, updater, install, shown, jobs, SilentCheck, LandSilent, Publish, NextDay

----------------------------------------------------------------------------
(* The dot and the file.                                                      *)

\* An install never touches the process it runs in.
LEMMA RunsOn == InstallStep => running' = running
  BY DEF InstallStep, Attach, Verify, MoveAside, Copy, Copied, Restore, Detach, Drag,
         Unpack, Stage, Swap, Goto

LEMMA MirrorNext ==
  ASSUME UpdaterTyped, StoreMirrorsFile, [Next]_vars
  PROVE  StoreMirrorsFile'
  <1> USE DEF StoreMirrorsFile, Alive
  <1>1. CASE LandSilent \/ LandCheck
    <2>1. PICK answer \in Answers : file' = RecordOutcome(file, answer)
      BY <1>1 DEF LandSilent, LandCheck
    <2>2. file'.ignored = file.ignored
      BY <2>1, OutcomeType DEF UpdaterTyped, FileType
    <2> QED
      BY <1>1, <2>2 DEF LandSilent, LandCheck, Ignored, install
  <1>2. ASSUME NEW v \in Versions, IgnoreUpdate(v) PROVE StoreMirrorsFile'
    BY <1>2 DEF IgnoreUpdate, install
  <1>3. CASE UnignoreUpdate
    BY <1>3 DEF UnignoreUpdate, UpdaterTyped, Ignored, Newer, install
  <1>4. CASE Exit
    BY <1>4 DEF Exit, Halt
  <1>5. CASE Start
    BY <1>5 DEF Start
  <1>6. CASE UNCHANGED <<file, nudge, ignored>> /\ running' = running
    BY <1>6
  <1> QED
    BY <1>1, <1>2, <1>3, <1>4, <1>5, <1>6, RunsOn
    DEF Next, vars, updater, install, shown, Draw, SilentCheck, CheckUpdate, OpenAbout,
        CloseAbout, Install1, InstallEnds, DownloadUpdate, FetchFails, FetchLands, Begin,
        Publish, NextDay, SweepThread, Sweep, ByHand, FinishByHand

----------------------------------------------------------------------------
(* What stands where.                                                         *)

LEMMA PlacesNext ==
  ASSUME InstallTyped, UpdaterTyped, Jobs, Places, [Next]_vars
  PROVE  Places'
  <1>0. StepsFit'
    BY InstallNext DEF Places
  <1> USE DEF Places, InPlace, InstalledIsThere, RunningStaysReachable, LinuxIsAlwaysWhole
  <1>1. CASE Install1
    <2>1. status.is = "installing" /\ status' = status
      BY <1>1 DEF Install1, InstallStep, Attach, Verify, MoveAside, Copy, Copied,
                  Restore, Detach, Drag, Unpack, Stage, Swap, Goto, updater, shown,
                  Jobs, BusyIsItsJob
    <2>2. InPlace'
      BY <1>1 DEF Install1, InstallStep, Attach, Verify, MoveAside, Copy, Copied, Restore,
                  Detach, Drag, Unpack, Stage, Swap, Goto, disk
    <2>3. RunningStaysReachable' /\ LinuxIsAlwaysWhole'
      <3> USE DEF Goto, StepsFit, LinuxSteps, MacSteps, InstallTyped
      <3>1. CASE MoveAside
        <4>1. platform = "mac" /\ platform' = platform /\ running' = running
          BY <3>1 DEF MoveAside
        <4>2. asides \cup {target} \subseteq asides' \cup {target'}
          BY <3>1 DEF MoveAside
        <4> QED
          BY <4>1, <4>2
      <3>2. CASE Copy
        BY <3>2, NothingThere DEF Copy
      <3>3. CASE Copied
        BY <3>3, NothingThere DEF Copied
      <3>4. CASE Restore
        BY <3>4 DEF Restore
      <3>5. CASE Swap
        BY <3>5 DEF Swap
      <3>6. CASE UNCHANGED <<platform, running, target, asides>>
        BY <3>6
      <3> QED
        BY <1>1, <3>1, <3>2, <3>3, <3>4, <3>5, <3>6
        DEF Install1, InstallStep, Attach, Verify, Detach, Drag, Unpack, Stage, disk
    <2> QED
      BY <1>0, <2>1, <2>2, <2>3
  <1>2. ASSUME NEW v \in Versions, FetchLands(v) PROVE Places'
    BY <1>0, <1>2 DEF FetchLands, Begin, Status, disk
  <1>3. CASE InstallEnds
    BY <1>0, <1>3 DEF InstallEnds, Ends, Status, Of, disk
  <1>4. CASE Exit
    BY <1>0, <1>4 DEF Exit, Halt, Status, disk
  <1>5. CASE Start \/ ByHand
    <2>1. step = "idle" /\ status.is = "none" /\ step' = step /\ status' = status
      BY <1>5 DEF Start, Launch, ByHand, FinishByHand, updater, shown, Jobs, DeadIsQuiet,
                  BusyIsItsJob, Alive
    <2>2. CASE Start
      BY <1>0, <2>1, <2>2 DEF Start, Launch, disk
    <2>3. CASE ByHand
      BY <1>0, <2>1, <2>3 DEF ByHand, FinishByHand, InstallTyped
    <2> QED
      BY <1>5, <2>2, <2>3
  <1>6. CASE SweepThread
    BY <1>0, <1>6 DEF SweepThread, Sweep, updater, shown
  <1>7. CASE UNCHANGED install /\ (status'.is = "installed" => status.is = "installed")
    BY <1>0, <1>7 DEF install, disk
  <1>8. UNCHANGED status => (status'.is = "installed" => status.is = "installed")
    OBVIOUS
  <1>9. CASE LandCheck
    BY <1>7, <1>9, AnswerType DEF LandCheck, Answered
  <1>10. CASE CheckUpdate \/ OpenAbout
    BY <1>7, <1>8, <1>10 DEF CheckUpdate, OpenAbout, StartCheck, Status
  <1>11. ASSUME NEW v \in Versions, DownloadUpdate(v) \/ IgnoreUpdate(v) \/ FetchFails(v)
         PROVE  Places'
    BY <1>7, <1>8, <1>11 DEF DownloadUpdate, IgnoreUpdate, FetchFails, Status, Of
  <1> QED
    BY <1>1, <1>2, <1>3, <1>4, <1>5, <1>6, <1>7, <1>8, <1>9, <1>10, <1>11
    DEF Next, vars, updater, shown, Draw, SilentCheck, LandSilent, CloseAbout,
        UnignoreUpdate, Publish, NextDay

----------------------------------------------------------------------------
(* What is ahead of the build that runs.                                      *)

LEMMA OffersAhead ==
  ASSUME NEW f, NEW current
  PROVE  /\ Nudge(f, current) # NoVersion => Nudge(f, current) > current
         /\ Ignored(f, current) # NoVersion => Ignored(f, current) > current
  BY DEF Nudge, Ignored, Newer

LEMMA AnswersAhead ==
  ASSUME NEW answer \in Answers, answer.is \in {"newer", "failed"}
  PROVE  answer.v > running
  BY DEF Answers, Newer, Status, Of

\* A view offers what it is made of.
LEMMA ViewOffers ==
  ASSUME NEW s, NEW n, NEW i, View(s, n, i).offers \in {"install", "unskip"}
  PROVE  \/ View(s, n, i).v = n /\ n # NoVersion
         \/ View(s, n, i).v = i /\ i # NoVersion
         \/ View(s, n, i).v = s.v /\ s.is \in {"newer", "failed"}
  BY DEF View, Offer, Busy

\* A row drawn from figures that are ahead is ahead.
LEMMA ViewAhead ==
  ASSUME NEW s, NEW n, NEW i, NEW current,
         n # NoVersion => n > current, i # NoVersion => i > current,
         s.is \in {"newer", "failed"} => s.v > current,
         View(s, n, i).offers \in {"install", "unskip"}
  PROVE  View(s, n, i).v > current
  BY ViewOffers

LEMMA StoreAheadNext ==
  ASSUME InstallTyped, UpdaterTyped, Jobs, Ahead, [Next]_vars
  PROVE  StoreAhead'
  <1> USE DEF Ahead, StoreAhead, Alive
  <1>1. CASE LandSilent
    BY <1>1, OffersAhead DEF LandSilent, install
  <1>2. CASE LandCheck
    <2>1. PICK answer \in Answers : status' = answer
      BY <1>2 DEF LandCheck
    <2> QED
      BY <1>2, <2>1, OffersAhead, AnswersAhead DEF LandCheck, install
  <1>3. CASE CheckUpdate \/ OpenAbout
    BY <1>3 DEF CheckUpdate, OpenAbout, StartCheck, Status, install
  <1>4. ASSUME NEW v \in Versions, DownloadUpdate(v) PROVE StoreAhead'
    BY <1>4 DEF DownloadUpdate, Status, install
  <1>5. ASSUME NEW v \in Versions, IgnoreUpdate(v) PROVE StoreAhead'
    BY <1>5, OffersAhead DEF IgnoreUpdate, Status, install
  <1>6. ASSUME NEW v \in Versions, FetchFails(v) PROVE StoreAhead'
    BY <1>6 DEF FetchFails, JobsAhead, Of, install
  <1>7. ASSUME NEW v \in Versions, FetchLands(v) PROVE StoreAhead'
    BY <1>7 DEF FetchLands, Begin, Status
  <1>8. CASE UnignoreUpdate
    BY <1>8, OffersAhead DEF UnignoreUpdate, install
  <1>9. CASE InstallEnds
    BY <1>9 DEF InstallEnds, Ends, JobsAhead, Status, Of
  <1>10. CASE Exit
    BY <1>10 DEF Exit, Halt
  <1>11. CASE Start
    BY <1>11, OffersAhead DEF Start, Launch, Jobs, DeadIsQuiet
  <1>12. CASE UNCHANGED shown /\ running' = running
    BY <1>12 DEF shown
  <1> QED
    BY <1>1, <1>2, <1>3, <1>4, <1>5, <1>6, <1>7, <1>8, <1>9, <1>10, <1>11, <1>12, RunsOn
    DEF Next, vars, updater, install, Draw, SilentCheck, CloseAbout, Install1, Publish,
        NextDay, SweepThread, Sweep, ByHand, FinishByHand

LEMMA RowAheadNext ==
  ASSUME InstallTyped, UpdaterTyped, Jobs, Ahead, StoreAhead', [Next]_vars
  PROVE  RowAhead'
  <1> USE DEF Ahead, StoreAhead, RowAhead, Alive
  <1>1. CASE Draw
    BY <1>1, ViewAhead DEF Draw, install
  <1>2. CASE row' = View(status', nudge', ignored')
    BY <1>2, ViewAhead
  <1>3. CASE Exit
    BY <1>3 DEF Exit, Halt
  <1>4. CASE Start
    BY <1>4 DEF Start, Launch, Jobs, DeadIsQuiet
  <1>5. CASE about' \in {about, FALSE} /\ row' = row /\ running' = running
    BY <1>5
  <1> QED
    BY <1>1, <1>2, <1>3, <1>4, <1>5, RunsOn
    DEF Next, vars, updater, install, Redrawn, SilentCheck, LandSilent, CheckUpdate,
        OpenAbout, CloseAbout, LandCheck, UnignoreUpdate, Install1, InstallEnds,
        DownloadUpdate, IgnoreUpdate, FetchFails, FetchLands, Begin, Publish, NextDay,
        SweepThread, Sweep, ByHand, FinishByHand

LEMMA JobsAheadNext ==
  ASSUME InstallTyped, UpdaterTyped, Jobs, Ahead, [Next]_vars
  PROVE  JobsAhead'
  <1> USE DEF Ahead, JobsAhead, Alive
  <1>1. ASSUME NEW v \in Versions, DownloadUpdate(v) PROVE JobsAhead'
    <2>1. v > running
      BY <1>1 DEF DownloadUpdate, Offer, RowAhead, Jobs, DeadIsQuiet
    <2> QED
      BY <1>1, <2>1 DEF DownloadUpdate, UpdaterTyped, install
  <1>2. ASSUME NEW v \in Versions, FetchFails(v) PROVE JobsAhead'
    BY <1>2 DEF FetchFails, UpdaterTyped, install
  <1>3. ASSUME NEW v \in Versions, FetchLands(v) PROVE JobsAhead'
    BY <1>3 DEF FetchLands, Begin, UpdaterTyped
  <1>4. CASE Install1
    <2>1. step # "idle" /\ running' = running /\ fresh' = fresh
      BY <1>4 DEF Install1, InstallStep, Attach, Verify, MoveAside, Copy, Copied, Restore,
                  Detach, Drag, Unpack, Stage, Swap, Goto
    <2> QED
      BY <1>4, <2>1 DEF Install1, updater, jobs
  <1>5. CASE InstallEnds
    BY <1>5 DEF InstallEnds, jobs
  <1>6. CASE Exit
    BY <1>6 DEF Exit, Halt
  <1>7. CASE Start
    <2>1. step = "idle" /\ \A v \in Versions : fetching[v] = 0
      BY <1>7, NothingInFlight DEF Start, Launch, Jobs, DeadIsQuiet, Busy
    <2> QED
      BY <1>7, <2>1 DEF Start, Launch, jobs
  <1>8. CASE UNCHANGED <<running, step, fresh, fetching>>
    BY <1>8
  <1> QED
    BY <1>1, <1>2, <1>3, <1>4, <1>5, <1>6, <1>7, <1>8
    DEF Next, vars, updater, install, jobs, Draw, SilentCheck, LandSilent, CheckUpdate,
        OpenAbout, CloseAbout, LandCheck, UnignoreUpdate, IgnoreUpdate, Publish, NextDay,
        SweepThread, Sweep, ByHand, FinishByHand

LEMMA SweepNext ==
  ASSUME InstallTyped, UpdaterTyped, Jobs, Places, Ahead, SweepLeavesTheImage, [Next]_vars
  PROVE  SweepLeavesTheImage'
  <1> USE DEF SweepLeavesTheImage
  <1>1. CASE Install1
    BY <1>1 DEF Install1, InstallStep, Attach, Verify, MoveAside, Copy, Copied, Restore,
                Detach, Drag, Unpack, Stage, Swap, Goto, disk
  <1>2. ASSUME NEW v \in Versions, FetchLands(v) PROVE SweepLeavesTheImage'
    BY <1>2 DEF FetchLands, Begin
  <1>3. CASE InstallEnds
    BY <1>3 DEF InstallEnds
  <1>4. CASE Exit
    BY <1>4 DEF Exit, Halt
  <1>5. CASE SweepThread
    BY <1>5 DEF SweepThread, Sweep, Ahead, JobsAhead, Alive
  <1>6. CASE UNCHANGED <<platform, step, fresh, volumes>>
    BY <1>6
  <1> QED
    BY <1>1, <1>2, <1>3, <1>4, <1>5, <1>6
    DEF Next, vars, updater, install, disk, Draw, SilentCheck, LandSilent, CheckUpdate,
        OpenAbout, CloseAbout, LandCheck, UnignoreUpdate, DownloadUpdate, IgnoreUpdate,
        FetchFails, Publish, NextDay, Start, Launch, ByHand, FinishByHand

----------------------------------------------------------------------------
(* The theorems.                                                              *)

LEMMA TypeNext ==
  ASSUME TypeOK, StepsFit, [Next]_vars
  PROVE  TypeOK'
  <1>1. InstallTyped'
    BY InstallNext DEF TypeOK
  <1>2. file' \in FileType /\ nudge' \in Held /\ ignored' \in Held
    BY FileNext DEF TypeOK
  <1>3. status' \in StatusType /\ checks' \in Nat /\ fetching' \in [Versions -> Nat]
    BY StatusNext DEF TypeOK
  <1>4. row' \in RowType
    BY <1>2, <1>3, RowNext DEF TypeOK
  <1>5. silent' \in BOOLEAN /\ probed' \in BOOLEAN /\ about' \in BOOLEAN
    BY FlagsNext DEF TypeOK
  <1> QED
    BY <1>1, <1>2, <1>3, <1>4, <1>5, WorldNext
    DEF TypeOK, UpdaterTyped, FileType, StatusType, RowType

LEMMA IndInit == Init => IndInv
  <1> SUFFICES ASSUME Init PROVE IndInv
    OBVIOUS
  <1> USE VersionAssumption DEF Init, InstallInit, Versions, Status
  <1>1. row = Offer("check", NoVersion)
    BY DEF View, Busy
  <1>2. TypeOK
    <2>0. /\ unpacked \in BOOLEAN /\ swept \in BOOLEAN /\ silent \in BOOLEAN
          /\ probed \in BOOLEAN /\ about \in BOOLEAN
      BY Zenon
    <2>1. InstallTyped
      BY <2>0 DEF InstallTyped, Content
    <2>2. status \in StatusType /\ row \in RowType
      BY <1>1 DEF StatusType, RowType, Held, Offer
    <2>3. file \in FileType
      BY DEF FileType, Held
    <2> QED
      BY <2>0, <2>1, <2>2, <2>3
      DEF TypeOK, UpdaterTyped, StatusType, RowType, FileType, Held, AutoCheckEvery
  <1>3. Jobs
    BY DEF Jobs, BusyIsItsJob, DeadIsQuiet, RowIdle, Alive, Busy
  <1>4. StoreMirrorsFile
    BY DEF StoreMirrorsFile, Nudge, Ignored, Newer
  <1>5. Places
    BY DEF Places, StepsFit, InPlace, InstalledIsThere, RunningStaysReachable,
           LinuxIsAlwaysWhole, MacSteps, LinuxSteps
  <1>6. Ahead /\ SweepLeavesTheImage
    BY <1>1 DEF Ahead, StoreAhead, RowAhead, JobsAhead, SweepLeavesTheImage
  <1> QED
    BY <1>2, <1>3, <1>4, <1>5, <1>6 DEF IndInv

LEMMA IndNext == IndInv /\ [Next]_vars => IndInv'
  <1> SUFFICES ASSUME IndInv, [Next]_vars PROVE IndInv'
    OBVIOUS
  <1>1. InstallTyped /\ UpdaterTyped /\ StepsFit
    BY DEF IndInv, TypeOK, Places
  <1>2. TypeOK'
    BY <1>1, TypeNext DEF IndInv
  <1>3. Jobs' /\ StoreMirrorsFile' /\ Places'
    BY <1>1, JobsNext, MirrorNext, PlacesNext DEF IndInv
  <1>4. Ahead'
    BY <1>1, StoreAheadNext, RowAheadNext, JobsAheadNext DEF IndInv, Ahead
  <1>5. SweepLeavesTheImage'
    BY <1>1, SweepNext DEF IndInv
  <1> QED
    BY <1>2, <1>3, <1>4, <1>5 DEF IndInv

THEOREM Inductive == Spec => []IndInv
  BY IndInit, IndNext, PTL DEF Spec

\* The types hold: no answer, press or restart leaves a figure out of its range.
THEOREM TypeCorrect == Spec => []TypeOK
  <1>1. IndInv => TypeOK
    BY DEF IndInv
  <1> QED
    BY <1>1, Inductive, PTL

\* The row is busy exactly while its one job is at work, in every interleaving
\* of presses, answers, installs and restarts.
THEOREM RowHasItsJob == Spec => []BusyIsItsJob
  <1>1. IndInv => BusyIsItsJob
    BY DEF IndInv, Jobs
  <1> QED
    BY <1>1, Inductive, PTL

\* The dot and the skip are what the check file says to the build that runs,
\* and nothing older than what runs is offered, neither by the dot nor by the row.
THEOREM OffersStand == Spec => []OffersAreTrue
  <1>1. IndInv => OffersAreNewer
    BY DEF IndInv, OffersAreNewer, Ahead, StoreAhead, RowAhead, Jobs, DeadIsQuiet
  <1>2. IndInv => OffersAreTrue
    BY <1>1 DEF IndInv, OffersAreTrue
  <1> QED
    BY <1>2, Inductive, PTL

\* A process can die at any step of an install: the bundle that runs stays in
\* reach, the Linux binary stays whole, the sweep of the launch leaves the image
\* alone, and a restart is offered only once the new build is in place.
THEOREM InstallsAreSafe == Spec => []InstallsLoseNothing
  <1>1. IndInv => InstallsLoseNothing
    BY DEF IndInv, Places, NothingIsLost, InstallsLoseNothing
  <1> QED
    BY <1>1, Inductive, PTL

\* Every answer, of whichever check, keeps the skip and spends the period.
THEOREM AnswersKept == Spec => AnswersAreRecorded
  <1>1. ASSUME IndInv, [Next]_vars, Alive, running' = running,
               checks' < checks \/ (silent /\ ~silent')
        PROVE  file'.ignored = file.ignored /\ ~Due(file')
    <2>1. UpdaterTyped
      BY <1>1 DEF IndInv, TypeOK
    <2>2. CASE LandSilent \/ LandCheck
      <3>1. PICK answer \in Answers : file' = RecordOutcome(file, answer)
        BY <2>2 DEF LandSilent, LandCheck
      <3>2. file'.ignored = file.ignored /\ file'.checked = day
        BY <2>1, <3>1, OutcomeType DEF UpdaterTyped, FileType
      <3> QED
        BY <2>1, <2>2, <3>2 DEF LandSilent, LandCheck, world, UpdaterTyped, Due, AutoCheckEvery
    <2>3. CASE UNCHANGED silent /\ checks' \in {checks, checks + 1}
      BY <1>1, <2>1, <2>3 DEF UpdaterTyped
    <2>4. ~SilentCheck
      <3>1. checks' = checks => ~(checks' < checks)
        BY <2>1 DEF UpdaterTyped
      <3> QED
        BY <1>1, <3>1, Zenon DEF SilentCheck
    <2>5. ~Exit
      BY <1>1 DEF Exit, Halt
    <2> QED
      BY <1>1, <2>2, <2>3, <2>4, <2>5
      DEF Next, vars, updater, jobs, Draw, CheckUpdate, OpenAbout, StartCheck, CloseAbout,
          UnignoreUpdate, Install1, InstallEnds, DownloadUpdate, IgnoreUpdate, FetchFails,
          FetchLands, Publish, NextDay, Start, SweepThread, ByHand
  <1>2. IndInv /\ [Next]_vars
        => [Alive /\ (checks' < checks \/ (silent /\ ~silent')) /\ running' = running
            => file'.ignored = file.ignored /\ ~Due(file')]_vars
    BY <1>1
  <1> QED
    BY <1>2, Inductive, PTL DEF Spec, AnswersAreRecorded
=============================================================================
