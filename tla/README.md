# A verification project for ZStats

ZStats is a menu-bar system monitor written in Rust. A collector thread samples
the machine; a store folds the samples into one state behind a lock; engine
threads draw a panel and two windows from it; a main thread owns the tray and
the windows; and jobs on threads of their own walk the disk, read sockets and
tables, and fetch files, and hand their answers back to the store. Most of the
program is sequential code that unit tests reach. What they do not reach is
where these threads meet, and that is what this directory models: TLA+ modules,
the TLC runs that check them on small instances, and theorems about them that
TLAPS proves for every value of the constants.

Paths below are relative to the repository; line numbers are those of the
commit the models were translated from. `PROJECT.json` maps every definition to
its lines, and lists the hazards each property is for.

## The system

| Part | State it keeps | Operations | What is hard |
|---|---|---|---|
| Collector thread (`src/metrics.rs`) | the running `Monitor`, the flags `REBUILD` and `RELOAD`, the pace (`visible`, `registry_tab`, wake channel) | its loop: rebuild, reload, switch the registry channels, sample, wait | two flags tested one after the other against writers on four threads; a cadence chosen and then slept through |
| Store (`src/nsh/store.rs`, `state/effects.rs`) | one `ZStatsAppState` behind a lock, the engines' channels | `update`, `changed`, `background`, the flush of what an update asked for | effects run after the lock is released, in another order than the updates |
| Engines (`src/nsh/root.rs`, `windows.rs`) | a subscription of one slot, a revision, what is painted | `Live::follow`, drawing, closing | a change made while the window is hidden is dropped on purpose |
| Host (`src/nsh/host.rs`, `linux.rs`) | the main queue, the panel, the tray's look, the fitted height | show, hide, fit, wear | show and hide are several steps, other threads run between them |
| Panel queries (`src/state/mod.rs`) | listings, member table, listeners, history rows, each with what is in flight | ask, land, tab entry, the hide's reset | answers that land after a hide, a reset, or the next question |
| Alert list (`src/state/alerts.rs`, `alertlog.rs`) | today's cards, dismissed rows, one file per day | report, merge, dismiss, see, retain, save, adopt at launch | a failing save, a restart, a midnight, a press on a card that has moved |
| Disk analysis (`src/state/analysis.rs`, `diskscan.rs`) | the analyser's run or result, the opened rows, the baseline and cache files | start, cancel, clear, expand, measure, trash, restore at launch | four kinds of walk that interrupt one another, and answers already queued |
| Duplicate search (`src/state/dupes.rs`, `dupes.rs`) | the search's run or result and its chip; candidates, groups | find, clear, trash a copy | shares the disk with the walk and the check; other programs write to it while it reads, and after |
| Daily check (`src/diskwatch.rs`) | the check in flight, its hold | start, hold, stop, take the result | must stand aside for the user's walk at any moment |
| Settings (`src/state/mod.rs`, `alerttpl.rs`) | `config.toml`, `template.toml` | write a key, reset, write the template | the file, the flag and the wake are three steps |
| Updater (`updater.rs`, `state/mod.rs`) | the row's status, the dot and the skip, `update-check.toml`, the installed bundle or binary | check, download, install, skip, sweep, restart | one status written by jobs that overlap; an install is a dozen system calls, and the process may end at any of them |
| Alert template (`alerttpl.rs`) | the table's override, the check file with the offer and what was waved away, a cache, the dot | update, probe, ignore, revert, reload | four threads read the check file and write it whole; a probe's answer lands after the table changed |
| Notifications, webhook (`notify.rs`, `webhook.rs`) | a banner queue and its parked thread, the hook queue and its worker, the test's row | post, send, retry, test | a banner that stands for ever, a full queue, a URL edited while a notice waits |
| Banner gates, menu bar's face (`state/alerts.rs`, `tray.rs`) | snoozes, the hour's ration, recovery clocks, ejected volumes | report, snooze, resume, sample, eject, dismiss | which gate holds a banner back and what the card says of it; samples that cannot say |
| Watchers (`watch.rs`, `active.rs`, `trend.rs`) | a stretch of load per pid, the pids that came forward, a ring of minutes per tree | tick, prune, announce, compose | pids that change hands; two clocks, one that sleeps and one that can be set |
| Figures (`series.rs`, `traffic.rs`, `history.rs`, `diskwatch.rs`) | rings of points, a baseline of sockets, the minutes of a day, a snapshot file a day | feed, shift, read, rank, compare | sleeps, set clocks, reused pids, refused reads, torn files, directories inside directories |
| Session (`ipc.rs`) | a socket, its name, the connections to it | claim, hand over, serve | two launches at once; a name left behind by a process that died |
| Linux panel (`nsh/linux.rs`) | the window, two graces, a timer | show, hide, toggle, the two dismissals, pin | signals of the compositor that come in any order |
| Awake (`awake.rs`) | a hold with an end, the system's assertion | hold, replace, end, expire | the system counts the time too, the machine sleeps, the clock is set |
| Preferences, rule files (`prefs.rs`, `autostart.rs`, `cleanhints.rs`, `cachepreset.rs`) | a file each | write, fetch | two writers of one file |
| Rules and drawing (`*list.rs`, `nsh/*.rs`, `format.rs`, …) | none | pure functions of a snapshot, views | ordering rules; the rest is wording and layout |

They interact in three ways. Everything that changes the store is a closure run
under its lock, on whichever thread asked. What the closure asks for (tell the
engines, dress the tray, fit the panel, run a job) is done after the release. A
job never touches the store: it sends closures back, applied in the order sent.
The collector is outside of this: flags, three atomics and a channel steer it.

## The modules

One component, one module; `MC<module>` is its instance for TLC, with its symmetry
where there is one, and each `.cfg` gives the constants; `<module>Proofs` holds its theorems.
Where several components stand in one run, the module that puts them together holds
its theorems too (`AlertsProofs`, `SessionProofs`, `FiguresProofs`).

**`Collector`** — the thread of `metrics.rs` with one action per step another
thread can run between: the two swaps, the discarded reload, the load, the
construction, the two loads of `visible && registry_tab`, the sample, the choice
of the wait and the wait. Around it are the store's writers (a file, then a
flag, then a wake; the lock admits one), the template job (a file, then a flag,
and no wake), and the host's show and hide. A file is a version per section and
the set of channels it permits; `dropped` remembers the sections whose last
request met a logged error. The atomics of `CollectorPace` are `Relaxed` in the
code and sequentially consistent here: on the wake path the channel's own
synchronisation orders them, and elsewhere a value read late is a step taken
earlier.

**`Store`** — `update` is one action; its flush (tell, look, fit) is three, in
the code's order. An engine is a one-slot channel, a task that is waiting or
woken, an unpainted change and the version it painted. Main's show and hide are
sequences of steps, and the main queue runs between them. Content is a version
and whether the short Overview shows its notice row; a job that dresses the tray
is a job in the queue, without the look it carries.

**`Panel`** — every store method about the panel's queries is one action; each
job in flight is counted; hide and show are two steps; a press is made while the
panel is up and handled later by the engine thread, so possibly after the hide.
Clocks are reduced to fresh or not. What the tick says of the process table (is
it short of members?) is either answer.

**`AlertBook`** — an event is its episode and its gravity; the list and the rows
of each day's file are sequences, the limit is a constant. A tick records, sees
and saves in one action, as the code does under the lock, with the day read
twice as in the code. A press on a dismiss button names a card and is handled
later; a save can fail; a restart adopts what today's file says.

**`DiskAnalysis`** — a walk is a thread with the answer it has sent and that
has not landed. The user's walk, the opened rows' walks, the duplicate search
and the daily check each have their run, and their cancellation is a flag that
the thread sees when it gets to it. The files are the last result of each scope
and the one before it. Trash cuts rows from the result and from its cache; a
restart keeps only the files.

**`Install`** and **`Updater`** — `Install` is the disk: the bundle or binary that
is installed, the bundles moved aside, the mounted images, and the steps by which
a new build gets there on macOS (attach, verify, move aside, copy, restore,
detach, or the drag window) and on Linux (unpack, stage, rename). A process may
end between any two of them and a launch finds what is there; a child process
that fails may have done a part. `Updater` extends it with the store's side: the
status, the dot and the skip, the silent check of the tick and the check someone
asked for, the download, the check file, days and restarts. A press acts on the
row as it was drawn; the row is drawn again after a press, and what a job changed
is drawn in a later step. Release notes and the figures of a download's progress
are left out, the check file is written in one step, and days are counted, since
the silent check is due by them.

**`Session`** and **`LinuxPanel`** — a process is a launch, and each system call of
its claim is a step (the library binds and listens in two); it can die between any
two and leaves its name at the path. A connection goes from open to a word said,
given up, read, posted to the main loop and acted on, and `backlog`, `reading` and
`todo` are where it waits. `contested` is a history variable: two claims met while
nobody listened; `UncontestedSocketStays` is about all other launches, and what
such a meeting does is the run `session_claim`. `LinuxPanel`, which `Session` extends, is the panel of one of the
launches: what the handlers of the keyboard and the pointer remember and hide.
The two graces are open intervals: the first ends and the second's timer fires
at any moment, since nothing fixes when the panel is hidden or shown between
them. The commands that reach the main loop move this panel.

**`Answers`** — the abstract card: off, asked, answered or failed, with the number of
the question it shows. `DiskAnalysis` instantiates it twice, for the screen's card
(which a daily check may renew) and the search's, and both instances are what
`CardsAnswer` checks: `Answers!Spec` under the mapping, liveness included.

**`Banners`** and **`Attention`** — what `on_tick` does with a report besides recording
it. `Banners` has the three gates in the code's order and what the card says of them:
the notifications switch, the snooze and the hour's ration, whose list of deliveries
the asking itself extends. `delivered` is a history of the banners that went out.
`Attention` has the recovery clocks that a sample starts and stops, the volumes marked
ejected, and the face drawn from both; a sample says *over*, *under*, *gone* or
*unknown* of each subject, and `under` is a history of how long it has been under.

**`Template`** — the alert table's override, its check file and its cache. Each of the
update, the probe, the revert, *ignore* and a reading of the card is a thread that
reads and writes in steps of its own; what happens between two accesses is one step.
`waved`, `crossed` and `straddled` are histories: what the user waved away, whether
two writers were at the check file at once, and whether the file changed under a
reading about to be kept.

**`Delivery`** — the two roads of a notice: the banner queue with the thread that waits
on the server, and the hook queue whose worker makes one attempt at each, with the URL
taken when the notice came; and the webhook's test, a job that a second press can
double. `addressed`, `seen` and `posted` are histories.

**`Active`** — the table of who came forward when, asked as a banner is composed.
`came` and `touched` are histories of the world: who was switched to and who was in
front. A pid is not handed out before its process's notice was heard.

**`Charts`**, **`Traffic`**, **`Sustained`**, **`Trend`**, **`Growth`**, **`Awake`**,
**`Spenders`** — the figures. Each has the code's structure as state (a ring, a
baseline, a stretch, a file per day, a hold, a day's lines), the clocks the code reads
as clocks that advance apart (Instant stands still in a sleep, SystemTime can be set
back), and a history that no action reads, from which the property states what the
figure should be: the points with the time they really came, the process behind a pid,
the minutes a ring was handed, what the processes of a pid burnt. Values are small
naturals; one pid, tree or program stands for the others where the code keeps nothing
two of them share. `Awake` has the system's own timeout, a machine that sleeps, with
either answer to whether the timeout sleeps with it, and a wall clock that is set
forward (a sleep to the hold) and back, which the timeout does not follow; `back` is a
history of how far it was set back since the hold was taken. `Spenders` has no state of
the program's: its operators are `rank` and `classify` over a day's lines.

**`Dupes`** — the duplicate search over a disk. A path shows a directory entry, two of
them the same one under a bind mount; an entry names a file; a file has a content, a
clock and a storage that clones share. A content is a length, a head and the rest. The
walk meets the paths in any order, and each stat, each head and each whole read is a
step, between which other programs write to files and delete names. `settle`, `spare`,
`frees` and `remove` are operators over the groups. `trash_dupe` is three steps in the
store's lock: the look at the copy itself, the look for another, and the move, which is
the system's (a `gio` child on Linux) and may be refused. No other method of the store
runs between them (`ClearDupes` waits), and every other program may. `moving` holds the
locals of a move under way, with what the looks saw as histories.

**`Lists`** — what `Vec::retain` leaves of a list (`Only`), as a recursive function: the
book's retention and its file, and the ration's deliveries, are all cut with it.

**Composition.** `Updater` extends `Install`, `Session` extends `LinuxPanel`, since
they share state. `Alerts`, `LinuxSession` and `Figures` put beside one another
modules that share none: a behaviour picks one part and runs it, so a run's states are
the sum of its parts' and not their product. `Alerts` is the book with the gates, the
table, the face and the watchers, `LinuxSession` the launches and their panel with the
two roads of a notice, `Figures` the duplicate search with the seven figures; the theorems
about them need only that what stands for nothing is none of the parts' values, and
bounds that are numbers. `Panel` and `DiskAnalysis` take from
`Store` that a method is atomic and that a job's answers land in order, and
`Collector` that its writers exclude one another; that is what `Store` models of
`update` and `background`.

## The runs

| Run | Instance | What it shows |
|---|---|---|
| `collector` | one channel, 2 writes, 1 error | No request is swallowed except by a logged error; the thread never waits out an interval with a written setting, a shown panel or a selected registry tab unserved; the registry is read only on screen; what is asked for reaches the running Monitor (`AskedIsRun`) |
| `store` | two workers and main, the panel's engine, 2 updates | No engine on screen misses the last change; the height is the notice row's; a panel left up is painted up to date |
| `panel` | one listing, two ranges, tabs Network, Apps and History, one job of a kind | What is shown as running has a job that will land; a visit to the Network tab goes on being answered; the history rows are the title's |
| `alerts` | the book: three episodes, a list of 2, 2 days, 3 reports, a failing save, a restart; gates: two episodes, a ration of 2; table: two tables, an update after a revert, one probe, one reading; face: a process, the pressure and a volume; front: three applications, a table of 2 | A restored card waits for a live report; file and list agree; a dismiss hits its card; only what is graver is news; the card says what the gates do; dot, card and collector follow the table's files; the face is what the samples say; a banner calls unused only what nobody switched to |
| `alerts_record` (violated) | two episodes, one day, a restart | The first save after a restart forgets the dismissed rows |
| `active_unused` (violated) | two applications | One that was left a minute ago is said to be unused since it was switched to |
| `disk` | two scopes, one row, 3 walks, one cut, one failing save, one restart | What is shown as running is being walked and the check stands aside (`RunsAreReal`); rows and duplicates belong to what they are shown under; the cache and baseline files follow the screen; both cards implement `Answers` |
| `updater` | two releases, two more days, one restart, both systems | The row is busy exactly while its one job is; the dot, the skip and the offers are true; wherever an install stops nothing is lost, to the launch sweep neither; an answer keeps the skip and spends the period; the row comes back |
| `figures` | one pid, tree or program each (two pids for sockets), windows of 3 or 4, one or two sleeps and one set clock (two steps back for the cup); four directories over 4 days; the search over three files behind four paths, one edit | Charts and the cup are honest about time, the cup but for a clock set back under macOS's timeout; rates and rankings are of one process; watchers announce what was; no growth is in two rows; nothing is news twice; the Trash takes no copy that was the last when `spare` looked; what a group offers is freed |
| `dupes_freed` (violated) | the search, with clones of a file of two names | A clone left behind by its linked copy counts as freeing what another name holds |
| `session` | three launches, one with its panel; three notices, one edit, two tests | The path leads to the one instance unless two claims met over a socket nobody listened on; a word that was said is acted on; a panel both the pointer and the keyboard have left goes; notices keep their order and address; a banner that stands for ever holds back no post |
| `session_claim` (violated) | the launches | The later of two such claims unlinks the socket the other has just bound |

Each property of a passing run has a mutant beside the definition it changes
(marked *Mutant* in the modules): a plausible slip in that code which the
property catches.

### Bounds, and why they are enough

- `MaxWrites` 2: swallowing takes one write that is being applied and one that
  arrives meanwhile. `MaxErrors` 1: an error matters through the request it
  consumed. One channel: channels do not interact, and `RequestsKept` and the
  wakes are proved for any number of channels, writes and errors.
- `MaxUpdates` 2 by two workers: fits are posted in another order than their updates
  when two threads flush one each, and losing a wake-up takes one change already in the
  channel and one behind it. Three updates by one worker were also run with no
  difference, and the safety properties are proved for any threads and updates.
- `MaxJobs` 1: one job of a kind, five kinds and every tab; the safety properties are
  proved for any number of jobs, lists and ranges, and three ranges with two reads of
  each were checked as well.
- A list of 2 under three episodes is full and overflows; two days have one
  midnight; one restart separates before from after.
- `MaxWalks` 3: the one on screen, the one that is stopped for it and the one
  that is asked for next. Four walks were explored to 12 million states with no
  error, and all safety properties are proved for any number. One row suffices for
  what rows have to do with their result.

- `MaxVersion` 2: the build that runs, one that is skipped or downloaded, and one
  that is published meanwhile. `MaxDay` 4 with a start at day 2, when the first
  check is due: a whole period passes after it. `MaxLaunches` 2: one restart
  separates before from after; all safety properties of the run are proved for
  any number.

- The figures: a window of 3 or 4 slots is full, wraps and has an edge on both sides;
  two sleeps make one that is inside the window and one that outlasts it, and a dark
  wake between two; one set clock is before, inside or after a sleep. A pid changes
  hands once; the load's two rules are one below and one above what a stretch of two
  graces reaches. Half days and 3 or 4 days kept are on both sides of
  `MIN_BASELINE_AGE`, the week and the sweep.
- `MaxBack` 2: the wall clock goes back once and twice under a hold of two steps
  and of three, so the system's count ends before the hold's moment by one step and by two.
- `MaxEdits` 1 in `Dupes`: one edit or one deletion, at any of some fifteen moments of
  a search over three files, between the looks of a move and before the move among
  them. `CopiesAreKept` is proved for any number of edits, files
  and paths.
- Gates: two deliveries fill the ration and the window is two steps, so a third report
  is held and a fourth is let through; two episodes keep each other's ration apart.
- Three notices: one that is delivered, one that waits, one that is dropped.
- Three launches: one that died or listens and two that meet over what it left.
  A panel is that of one launch: panels do not interact.

Symmetry is used over episodes and rows in the runs that check safety only.

Deadlock is checked except where the bounds end a behaviour, or where the system
does: half a bundle does not start again until the user finishes by hand.

### Fairness

- `Collector`: the thread goes on, `recv_timeout` returns, and a thread that has
  begun a write or a show finishes it. Nobody is made to write or to show.
- `Store`: a thread finishes its flush, main finishes a show or a hide and runs
  its queue. An engine's loop runs what is ready; a redraw has strong fairness,
  since a new wake-up can interrupt its readiness but a dirty window is drawn
  at the next frame whatever woke the loop.
- `Panel`: a job ends and its answer gets the lock, a press is handled, the
  collector ticks. Intervals need not pass, nobody is made to show or press.
- `DiskAnalysis`: a thread that is not held still walks to its end and lands.
  A held check may be held for ever.
- `Delivery`: a post ends (it has a timeout), the worker takes what waits, a test's
  job ends and lands. A banner may stand for ever and nobody is made to answer it.
- `Session`: a claim, a start-up and the two loops of an instance go on, a read
  ends with `READ_TIMEOUT`, a leave's timer fires. A process that has connected may
  take for ever to speak, nobody dies or launches by fairness, and the compositor
  and the user owe nothing.
- `Updater`: the silent check, the check, the download and the install go on to
  their end and land. Nobody is made to press, to leave, or to start again; a
  child process that never returns is not modelled.

## What is proved

Proved by TLAPS for every value of the constants, from the assumptions the
modules name (`BoundsAssumption`, `StoreAssumption`, `PanelAssumption`,
`VersionAssumption`, `UpdaterAssumption`, `SessionAssumption`, `DeliveryAssumption`,
`AlertAssumption`, `PartsAssumption`, `FiguresAssumption` and those of `DiskAnalysis` and
`Dupes`: bounds are naturals, no build is not a build, the panel is an engine, main is not
a worker, no rows is not a range, no result is not a result, no one is not a launch, no URL
is not a URL, no reading is not a number, no hold is not a hold and a torn file is not one
that reads; the worlds a search starts on are disks, finite ones (`DisksAreFinite`), and a
content no longer than its head is told by it; a creep is re-armed no sooner than the ring
has gone round, `CREEP_REARM` and `SLOTS` being both an hour; two reads that are priced are
apart and growth has a floor, both constants of the code above zero; there are finitely many
pids and directories, and the directories that one lies in lie in each other).

- `CollectorProofs`: `TypeCorrect`, `RequestsKept` (`NoRequestSwallowed`),
  `WakesKept` (`NoWakeMissed`) and `RegistryQuiet`
  (the action property `RegistryOnlyOnScreen`).
  None of these is inductive. `IndInv` adds what the loop knows at each step:
  if the file has moved on since the thread loaded it, the writer's request
  still stands (`LoadedInv`); a standing rebuild, or an alert setting the
  Monitor lacks, has its wake sent or about to be, unless the thread is at a
  point from which it will still test the flag (`RebuildWakes`, `AlertsWake`);
  with both pace flags up and no wake on the way, the pass under way has read
  them, or will (`GaugeInv`); and a thread that is about to sample with channels
  on has seen both flags up since its last sample (`SeenInv`).
- `StoreProofs`: `TypeCorrect`, `HeightIsTheRows` (`HeightFollowsRow`, which is
  inductive beside the types: every step that changes the row leaves a fit pending or
  says that one is owed) and `WakeUpsKept` (`NoLostWakeUp`). The latter's
  strengthening is `Listed`: an engine that has a window is among the
  subscribers, which `TellAll`'s pruning preserves, so telling reaches it. The
  rest of the argument is the order *receive, then read*: a change after the
  receive finds the slot free.
- `PanelProofs`: `TypeCorrect`, `Served` (`WaitingIsServed`) and
  `RowsUnderTheirTitle` (`HistoryMatchesTitle`). The strengthening says that the
  socket read's mark is up exactly while one read is in flight (`OneRead`) and
  that rows called fresh exist (`FreshRows`). One lemma per group of variables
  keeps the steps that do not touch it in one leaf.

- `UpdaterProofs`: every property of the run but the liveness. `BusyIsItsJob`
  rests on the row as drawn having nothing to press while a job is at work
  (`RowIdle`) and on a process that has ended having left nothing (`DeadIsQuiet`).
  The properties of the disk rest on what each step has found and left
  (`StepsFit`, `InPlace`): the target is empty when the copy begins and holds a
  part while it runs, so the bundle that runs is aside; what is renamed on Linux
  is the build that was staged. `SweepLeavesTheImage` and `OffersAreNewer` rest on
  `Ahead`: what is offered, fetched or installed is newer than what runs, so the
  sweep, which takes images that are not, passes it by.

- `SessionProofs`: `OneInstance` (`UncontestedSocketStays`), for any number of
  launches, alone and beside the roads of a notice (`OneInstanceBeside`). The
  strengthening: a process that found nobody is alone until it has bound, since another
  that claims beside it would make a contest (`Alone`); and whatever is bound, listening
  or not, stands at the path (`SocketsStay`). One lemma reduces a step to what it does to
  the path, the sockets and the counters.

  `RoadsAreAlwaysKept` (`RoadsAreKept`), for any number of notices, edits and tests and
  queues of any depth: what waits on a road is younger than what was delivered there and
  older than what comes behind it (`Follows`), the worker's job and each test carry the
  URL that stood when they began (`JobsKept`, `TestsKept`).

- `DiskProofs`: `TypeCorrect`, `NothingSpinsUnwalked` (`RunsAreReal`),
  `NothingUnderAnother` (`UnderWhatItWasFound`) and `CardsAreAnswers`: both cards refine
  the safety of `Answers`. The strengthening numbers the walks apart (`Unique`), ties
  each thing shown as running to the one walk that is neither cancelled nor another's
  (`ScreenWalked`, `SearchWalked`, `WatchWalked`, `RowsApart`), and says that a check in
  flight is younger than what is on screen (`Older`), which is what makes its answer a
  newer one.

  `FilesAlwaysFollow` (`FilesFollowTheScreen`) rests on `FilesInv`: what is filed is its
  scope's and from a walk begun by now (`Filed`), the baseline is older than the result
  wherever no save has failed (`Baselines`), what may yet be filed is younger than all
  that is (`Younger`), and the scope the next launch opens on is the one on screen
  (`Opened`). `SavesOneScope` and `Rotates` say what one save does to the files, through
  each of its failures; `Shows` what both landings do with one.

- `FiguresProofs`: `TheLastCopyStays` (`CopiesAreKept`), for any disk, any paths over it
  and any number of edits. The property speaks of one step and depends on everything
  the search did before. `ReadingHolds` is the heart: what was read of a candidate is
  what its file holds, *as long as the file's clock stands where the walk saw it*;
  every edit breaks the condition for good (`StillFresh`), so no edit can break the
  claim. `PassesRead` says that nothing is grouped by what was not read, `Candidates`
  that no two of them are one file, and `Copies` carries all three over to the groups,
  through `settle` and `remove`, to the moment `spare` looks at the clocks again. Other
  programs do not wait for a move, so `LooksKept` says of one under way only what they
  cannot undo: a copy whose clock still stands holds what the one that goes held when it
  was looked at (`FirstLook`), hence another did when the second look was done
  (`SecondLook`), and both still do as long as nobody has written since (`LooksStand`).

  - `NewsIsAlwaysNews` (`NewsIsNews`), an action property of two figures. A directory's
    last banner stands in the table or is older than the window, whichever write failed
    (`SaidIsKept`). A creep's banner is paced by the clock that sleeps and promises
    something of the clock that can be set: while that one was not set back, it has moved
    on by at least what the other has counted (`CreepKept`).
  - `WatchersAreAlwaysHonest` (`WatchersAreHonest`). Of a stretch of load, what `WatchKept`
    holds of the one that is timed and of the one in the news: no more is put down to a pid
    than was burnt under it since it was opened, through heirs, silences and edits of the
    rule. Attempting this proof found the first statement of `LoadWasHeld` too strong: a
    banner stands until the next tick, so a pid may have been last over the bar two graces
    and a tick before, not two graces. TLC finds the same with two rules and a bar of 1,
    which the run has now.

    Of the hour's trend, that the rise and the climb which the slots give are those of the
    minutes that were heard (`TrendIsTheHour`), for a ring of any length and any sleeps and
    set-backs. `TrendKept` says that each ring tells what it was handed (`Tells`): the
    table's for all of its window, the tree's for as much of that window as it covers, even
    when the tree went silent, was let go of, or came back under a clock that was set
    back. `RecordAt` says what one sample does to each minute of the window. It rests on
    arithmetic that the provers do not have: two minutes of one window never share a slot
    (`SlotsApart`), and on the way to a later minute its slot is met (`SlotAhead`), which is
    why the slots cleared on the way are those of the minutes skipped, and no others.

  - `TimesAreAlwaysHonest` (`TimesAreHonest`), for any ticks, sleeps, set clocks and reads
    under way. The ring's invariant (`RingKept`) is that a point stands before the last tick
    by exactly its reading's age, and on which side of the last wake it stands says which
    stretch it is of: that is why dropping what stands after `awake_since` drops the
    maintenance wake's points and no others, and why `Series::prune`, which cuts the list
    at its first fresh point, leaves out exactly what is too old. The curve (`CurveKept`)
    is looser, a reading being dated when its thread read: what is asked for, read or late
    bounds where its point may stand, and a point is never older than an earlier one.
    Of the cup, `HoldKept`: what is in force is the hold, with no less left on the system's
    count than until its end, but for what the wall clock was set back since it was taken. What `retain` leaves of a list is `OnlyLeaves`, proved as
    in `AlertsProofs`.

  - Sums. What the sums of the code promise is proved about `Total(g, S)`, the sum of a
    function over a finite set, defined by the recursion that `MapThenSumSet` and `Sum`
    unfold to. That the recursion has a solution (`TallyExists`) is an induction on a set's
    size, that any element may come off first (`TotalOf`) one from a smallest
    counterexample: both name a set, not an operator, to the library's theorems
    (`CountingUp`, `Smallest`). Splitting, comparing and re-indexing sums rest on those two.

  - `RatesAreAlwaysHonest` (`RatesAreHonest`), for any pids, reads, refusals and tenants: what
    is kept of a read is what the system said then (`Witnessed`), so a rate is of two reads
    of one tenant, at least `MIN_WINDOW` apart, and a program's is the sum of its processes';
    and a ranking on screen goes only when a later one comes. For the history (`LinesKept`),
    that along the lines of one key lives and counters only rise is enough: the minutes of a
    key fall into one stretch a life (`Lives`), and what `rank` adds up telescopes over each.
  - `RowsAreAlwaysApart` (`RowsAreApart`), for any tree and any sizes, torn files and failed
    writes among them. No row lies in another because a directory's children take over
    together or not at all. That none past the floor goes unsaid is shown from the lowest
    directories up: rows of different children share nothing (`RowsLieApart`), so their sums
    add (`TogetherCarried`), and each level that is left to its children costs a tenth at
    most (`OneLevelMore`, `ParentMadeUpFor`). The attempt corrected the property: it said
    that the rows below a directory carry 81 hundredths of it, which is true of trees as deep
    as the run's and false of deeper ones. It now says nine tenths for each level.
  - `OffersAreAlwaysFreed` (`OffersAreFreed`), for any disk with `PlainDisks`: the walk meets
    every entry of the scope, and a file that shares its storage has one name and none
    outside. Both are needed. A clone in a place that the walk does not reach holds what a
    move is said to free, and `dupes_freed` is the run without the second. `Quiet` is what
    holds until somebody else writes: each candidate is what the walk would see of it now
    (`CandTrue`); no pass separates the clones of one storage (`Twins`, `MatesListed`), since
    they are read alike; and a group is its files as they are, with all their clones
    (`FilesTrue`). With it, `settle`'s sum is the storages that nothing pins, less the
    greatest when one must be kept (`ReclaimableIs`), which is the least that trashing all
    but one gives back (`OfferIsLeast`); and the move of a copy leaves to no one exactly the
    storage that `frees` counts (`MoveFrees`) and every group true (`LeftIsTrue`).

- `AlertsProofs`: every property of the `alerts` run, and that the composition implements
  the book (`PartsKeepTheBook`), so what is proved of the book holds beside its parts.
  - The book (`RestoredCardsAlwaysWait`, `TodayIsAlwaysMirrored`, `ShownIsAlwaysSeen`,
    `DismissAlwaysHits`, `FollowUpsAreAlwaysQuiet`). None is inductive. `IndInv` says that
    the list fits (`CardsFit`): ids and episodes once each, no id beyond the last given,
    no card of a later day, and a live card was reported since launch. It says that each
    file is of its own day and none is written ahead of it, that what stands in a file
    would fit a list (`FilesFit`), which is what a launch adopts, and that a press names an
    id that was given, and the card of that id while it is there (`PressFits`). One lemma
    says what `record_alert` does to a list that fits (`RecordedFits`), one what a save
    does to the files (`SaveFits`), one each what `retain_today` and `drop_alert` leave.
  - The gates (`GatesAreAlwaysTold`). The ration's list is pruned only when it is asked, and
    the card reads it without pruning: the invariant is that what `banner_sent` counts
    within the window is exactly what was delivered within it, and never more than the
    ration (`RationIsEarned`). A tick needs that what leaves the window does not come
    back (`TickKeepsClocks` and `RecentFacts`, by `OnlyOfOnly`).
  - The face (`TheFaceIsNow`). Every dressing reads the cards and the clocks anew, so the
    invariant is about the clocks: while an episode has a card, its recovery clock runs
    exactly when the samples since have been under, and for memory since the same moment
    (`ClocksAgree`), across samples that cannot say.
  - The table (`TableIsAlwaysTold`), for any number of updates, probes and readers at once.
    A dot, a reading and the collector may be late while someone owes them a word:
    `Owes` names who has written and not yet told, and `OwesUntilReload` says that the
    debt ends only when it is paid. `WavedIsHeld` carries what a thread between its read and
    its write of the check file holds, unless two were there at once (`AloneAtTheCheck`).
  - Who was in front (`NobodyCameBackToIt`). A pid in the table runs and its entry is when
    its present process came forward (`TableIsOfTheLiving`); a quit takes the entry with
    it, and making room in the table (`InsertKeeps`) changes no entry it keeps.

  The lists are what needed new means. A fact about `Only` is a fact about lists of any
  length. The library's induction theorems take an operator, which the provers cannot
  instantiate; `SetInduction` and `SeqInduction` take a set instead, and get it from the
  library's theorem that *strict subset of* is well founded over finite sets.
  `OnlyIsAPart`, `OnlyOfBoth`, `OnlyOfOnly` and `OnlyAgrees` are proved with it once.

Every safety property of the passing runs has a theorem. One has a hypothesis that a real
disk may not meet, `PlainDisks`, and `dupes_freed` shows what happens without it.

Left to TLC for good: liveness under fairness (`AskedIsRun`,
`PanelCatchesUp`, `VisitIsAnswered`, the liveness in `CardsAnswer`, `RowComesBack`,
`WordsAreActedOn`, `LookAwayCloses`, `HooksGoOut`), which TLAPS does not reach.

## Where the code and its own words part

Four are runs that are violated, with the sentence each contradicts in `PROJECT.json`
under `findings`.

1. `alerts_record`: a launch adopts today's live cards and not the dismissed
   ones; the next save writes the day without them.
2. `active_unused`: the table of who came forward is stamped on coming, never on
   leaving; an application used for hours and left a minute ago is called unused for
   those hours.
3. `dupes_freed`: when the hard-linked copy of a group has gone to the Trash, `settle`
   no longer sees the pin, and a clone of it counts as freeing bytes that the file's
   other name holds.
4. `session_claim`: a claim that was refused unlinks whatever stands at the path
   by then; two claims over a name left behind, or one that meets a socket bound
   and not yet listening, end with two instances, one of them out of reach.

The others are in the models, stated where a name is given, and have no run of their own.

- The hide forgets a scan that still runs; the next press starts a second beside it,
  and the first answer lands as the second's (`Panel`, `OneScanAtATime`).
- Opening a row cancels the walk under the one opened before it, whose entry stays
  *walking* until the user closes it (`DiskAnalysis`, `WalkingRowsAreWalked`).
- When `ditto` fails after it has begun, the part it copied stands at the target and the
  old bundle cannot be renamed back onto it; the failure is logged and the install falls
  back to the drag window (`Install`, `FailedCopyIsUndone`).
- A press that waits for the lock while the panel hides is handled after the reset, and
  its tree stays selected with no panel on screen (`HandleApp`).
- The timer of a pointer's leave takes down a panel that was hidden and shown again
  meanwhile, inside the reveal grace (`LeaveWaited`).
- A test's answer lands under a URL that was edited while it was under way, where
  `state/mod.rs:2193` says an edit makes it describe nothing (`Delivery`,
  `AnswerIsOfTheUrl`).
- After a revert to the built-in table, or a launch of a version whose built-in is the
  offered one, the offer stands and the dot points at a button with nothing to do
  (`alerttpl.rs:45`); and a revert forgets that an update is in flight, so a second can
  start beside it.
- Two threads at the check file at once (probe, update, ignore) lose one's write
  (`crossed`), and a reading can put back a cache that a reload dropped in between
  (`straddled`). `cleanhints.rs` and `cachepreset.rs` cache their files the same way.
- Once an episode's hold has passed, one sample over the bar turns the face back to
  memory with nothing reported, where `state/alerts.rs:628` says turning on waits for a
  report; a dismissal or an eject reaches the face at the next dressing, not at once;
  a sample without a disk list counts, for the marks of ejected volumes, as an empty one.
- The ration counts a banner that the full queue then drops; and the card words a
  snooze's end by the wall clock while the gate counts on `Instant`.
- `awake.rs:106` calls "a lit cup over a machine that sleeps anyway" the one outcome to
  avoid, and it happens: macOS counts a hold's time itself and `held` compares two
  moments of the wall clock, so a clock set back leaves the cup lit over an assertion
  that the system has released, for as long as it was set back. `Overrun` names the case
  and `CupIsTrue` has it as its one exception.
- A wall clock set back puts minutes into a history row twice.
- The duplicate search trusts the length and the clock: a replacement that keeps both is
  not seen.
- "The view moves single copies to the Trash, never the last" (`dupes.rs:42`): `spare`
  looks at one copy, then at the others, and the system moves what the path shows after
  that.
  An edit or a deletion in between can make the one that goes the last, or make it another
  content. `CopiesAreKept` is as of the looks (`moving`, `was`, `twins`), and of the move
  only where nobody has written since.
- `prefs.rs` reads and writes its file without a lock of its own and through one
  temporary name: two settings changed at once from two threads can lose one.

## What is not modelled, and why

Drawing, wording, formatting, layout and the bindings to the operating system
are out: their state is the store's, or none, and they are more than half of the
source. Preferences are one file written whole; what other parts read of it is in
their modules. The rule files fetched on request repeat what `Template` has, without
its offer and probe. Thread-creation failure is not modelled: the code logs it
and the query it was for stays asked. Which of two updates' looks
the tray ends up with is left out: the code promises no order of them. The pages of
past days, the half-hour band of the history and the treemap are arithmetic of one
call. `PROJECT.json` lists every part under `components`, with its reason; it lists the
forty hazards that matter most, and the divergences above are the rest.

## Plan

1. The two-writer races of `prefs.rs` and of the rule files, as one module of a file
   that several threads read and write whole.
2. The history's half-hour band and the past days' pages, if a property about them is
   found that a unit test would not reach.

A run is one question. Where a new module brings one, it joins the run of its
neighbours as a part.
