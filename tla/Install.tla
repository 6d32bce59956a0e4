------------------------------ MODULE Install ------------------------------
(* Putting a downloaded build in place of the running one                     *)
(* (src/src/updater.rs), and what a process that dies on the way leaves for   *)
(* the next launch. On macOS the image is mounted, the bundle that runs is    *)
(* moved aside, the new one is copied to its place and the image detached;    *)
(* whatever blocks that falls back to the window the user drags from. On      *)
(* Linux the archive is unpacked, the binary staged beside the old one and    *)
(* renamed over it.                                                           *)
(*                                                                            *)
(* A build is its version. Every step of a child process or a system call is  *)
(* one step here, and a process can die between any two of them.              *)
EXTENDS Naturals

CONSTANTS MaxVersion,  \* bound on the builds: 0 is the first one installed
          NoVersion,   \* nothing there
          Half         \* a build of which only a part was copied

Versions == 0..MaxVersion

ASSUME VersionAssumption ==
    /\ MaxVersion \in Nat
    /\ NoVersion \notin Nat /\ Half \notin Nat /\ NoVersion # Half

VARIABLES
    platform,   \* what the build was made for; never changes
    running,    \* the build this process runs, NoVersion between two processes
    target,     \* what stands where the app is installed
    asides,     \* the bundles moved into the temp directory
    staged,     \* what stands beside the Linux binary
    unpacked,   \* the Linux archive's directory exists
    volumes,    \* the mounted images, by their build
    swept,      \* the launch sweep has run
    step,       \* where install() is
    fresh,      \* the build it installs
    moved       \* what it moved aside

disk == <<target, asides, staged, unpacked, volumes>>
install == <<platform, running, disk, swept, step, fresh, moved>>

MacSteps == {"attach", "verify", "aside", "copy", "copying", "restore",
             "detach", "failing", "drag"}
LinuxSteps == {"unpack", "stage", "swap"}
Ends == {"replaced", "opened", "refused"}

Content == Versions \cup {NoVersion, Half}

InstallTyped ==
    /\ platform \in {"mac", "linux"}
    /\ running \in Versions \cup {NoVersion}
    /\ target \in Content /\ asides \subseteq Content /\ staged \in Content
    /\ unpacked \in BOOLEAN /\ volumes \subseteq Versions /\ swept \in BOOLEAN
    /\ step \in {"idle"} \cup MacSteps \cup LinuxSteps \cup Ends
    /\ fresh \in Versions \cup {NoVersion} /\ moved \in Content

InstallInit ==
    /\ platform \in {"mac", "linux"} /\ running = 0 /\ target = 0
    /\ asides = {} /\ staged = NoVersion /\ unpacked = FALSE /\ volumes = {}
    /\ swept = FALSE /\ step = "idle" /\ fresh = NoVersion /\ moved = NoVersion

Begin(v) ==
    /\ step = "idle"
    /\ step' = IF platform = "mac" THEN "attach" ELSE "unpack"
    /\ fresh' = v
    /\ UNCHANGED <<platform, running, disk, swept, moved>>

Goto(s) ==
    /\ step' = s
    /\ UNCHANGED <<platform, running, swept, fresh>>

----------------------------------------------------------------------------
(* macOS.                                                                     *)

\* No bundle to replace, no mount, or a mount whose point was not understood
\* (and that stays): the drag window instead.
Attach ==
    /\ step = "attach"
    /\ \/ volumes' = volumes \cup {fresh} /\ Goto("verify")
       \/ volumes' \in {volumes, volumes \cup {fresh}} /\ Goto("drag")
    /\ UNCHANGED <<target, asides, staged, unpacked, moved>>

\* A foreign bundle, or an image that is gone, is refused before anything moves.
Verify ==
    /\ step = "verify"
    /\ \/ fresh \in volumes /\ Goto("aside")
       \/ Goto("failing")
    /\ UNCHANGED <<disk, moved>>

\* Mutant: the new bundle is copied over the old one where it stands.
MoveNothing ==
    /\ step = "aside" /\ Goto("copy") /\ moved' = target
    /\ UNCHANGED disk

MoveAside ==
    /\ step = "aside"
    /\ \/ /\ target # NoVersion
          /\ target' = NoVersion /\ asides' = asides \cup {target}
          /\ moved' = target /\ Goto("copy")
       \/ Goto("failing") /\ UNCHANGED <<target, asides, moved>>
    /\ UNCHANGED <<staged, unpacked, volumes>>

\* ditto fails before it has made anything, or has begun.
Copy ==
    /\ step = "copy"
    /\ \/ fresh \in volumes /\ target' = Half /\ Goto("copying")
       \/ UNCHANGED target /\ Goto("restore")
    /\ UNCHANGED <<asides, staged, unpacked, volumes, moved>>

\* Mutant: whether ditto succeeded is not looked at.
CopiedAnyway ==
    /\ step = "copying"
    /\ target' \in {fresh, Half} /\ Goto("detach")
    /\ UNCHANGED <<asides, staged, unpacked, volumes, moved>>

Copied ==
    /\ step = "copying"
    /\ \/ fresh \in volumes /\ target' = fresh /\ Goto("detach")
       \/ UNCHANGED target /\ Goto("restore")
    /\ UNCHANGED <<asides, staged, unpacked, volumes, moved>>

\* rename(2) puts a directory where there is none; onto one that holds
\* something it fails (ENOTEMPTY), which is logged.
Restore ==
    /\ step = "restore"
    /\ IF target = NoVersion
       THEN target' = moved /\ asides' = asides \ {moved}
       ELSE UNCHANGED <<target, asides>>
    /\ Goto("failing")
    /\ UNCHANGED <<staged, unpacked, volumes, moved>>

\* On every way out; a busy image stays mounted.
Detach ==
    /\ volumes' \in {volumes, volumes \ {fresh}}
    /\ \/ step = "detach" /\ Goto("replaced")
       \/ step = "failing" /\ Goto("drag")
    /\ UNCHANGED <<target, asides, staged, unpacked, moved>>

\* The image is handed to the system, which mounts it for the user.
Drag ==
    /\ step = "drag"
    /\ \/ volumes' = volumes \cup {fresh} /\ Goto("opened")
       \/ UNCHANGED volumes /\ Goto("refused")
    /\ UNCHANGED <<target, asides, staged, unpacked, moved>>

----------------------------------------------------------------------------
(* Linux.                                                                     *)

Unpack ==
    /\ step = "unpack"
    /\ \/ unpacked' = TRUE /\ Goto("stage")
       \/ unpacked' = FALSE /\ Goto("refused")
    /\ UNCHANGED <<target, asides, staged, volumes, moved>>

\* A copy that fails on the way leaves its part; a mode that cannot be set
\* removes it.
Stage ==
    /\ step = "stage"
    /\ \/ unpacked /\ staged' = fresh /\ UNCHANGED unpacked /\ Goto("swap")
       \/ staged' \in {staged, Half, NoVersion} /\ unpacked' = FALSE /\ Goto("refused")
    /\ UNCHANGED <<target, asides, volumes, moved>>

\* Mutant: the new binary is written over the old one.
SwapByCopy ==
    /\ step = "swap"
    /\ \/ target' = Half /\ Goto("refused")
       \/ target' = staged /\ Goto("replaced")
    /\ staged' = NoVersion /\ unpacked' = FALSE
    /\ UNCHANGED <<asides, volumes, moved>>

Swap ==
    /\ step = "swap"
    /\ \/ target' = staged /\ Goto("replaced")
       \/ UNCHANGED target /\ Goto("refused")
    /\ staged' = NoVersion /\ unpacked' = FALSE
    /\ UNCHANGED <<asides, volumes, moved>>

----------------------------------------------------------------------------
(* The process around it.                                                     *)

\* Quit, restart or crash: the threads end where they are, the disk stays.
Halt ==
    /\ running # NoVersion
    /\ running' = NoVersion /\ step' = "idle"
    /\ UNCHANGED <<platform, disk, swept, fresh, moved>>

Launch ==
    /\ running = NoVersion /\ target \in Versions
    /\ running' = target /\ swept' = FALSE
    /\ UNCHANGED <<platform, disk, step, fresh, moved>>

\* The user finishes by hand, from an image that is mounted.
FinishByHand ==
    /\ running = NoVersion
    /\ target' \in volumes
    /\ UNCHANGED <<platform, running, asides, staged, unpacked, volumes>>
    /\ UNCHANGED <<swept, step, fresh, moved>>

\* Mutant: every installer image is detached.
SweepAll ==
    /\ running # NoVersion /\ ~swept /\ swept' = TRUE
    /\ volumes' \in SUBSET volumes /\ unpacked' = FALSE
    /\ UNCHANGED <<platform, running, target, asides, staged, step, fresh, moved>>

\* A thread of the launch: images no newer than the build that runs, unless
\* they are busy; every unpacked directory.
Sweep ==
    /\ running # NoVersion /\ ~swept /\ swept' = TRUE
    /\ \E busy \in SUBSET {v \in volumes : v <= running} :
           volumes' = {v \in volumes : v > running} \cup busy
    /\ unpacked' = (unpacked /\ platform = "mac")
    /\ UNCHANGED <<platform, running, target, asides, staged, step, fresh, moved>>

InstallStep ==
    \/ Attach \/ Verify \/ MoveAside \/ Copy \/ Copied \/ Restore \/ Detach
    \/ Drag \/ Unpack \/ Stage \/ Swap

----------------------------------------------------------------------------
(* Properties.                                                                *)

\* "never deleted while the process running from it is alive" (updater.rs:12):
\* the bundle that runs is where it was or aside, however the install went.
RunningStaysReachable ==
    platform = "mac" /\ running # NoVersion => running \in asides \cup {target}

\* On Linux the installed binary is a whole build at every moment, whatever
\* fails and wherever the process dies: it is staged and renamed.
LinuxIsAlwaysWhole == platform = "linux" => target \in Versions

\* An install that fails, and a process that dies at any step of it, loses
\* neither the bundle that runs nor the binary that starts.
NothingIsLost == RunningStaysReachable /\ LinuxIsAlwaysWhole

\* The launch sweep leaves the image an install is working from mounted.
SweepLeavesTheImage ==
    platform = "mac" /\ step \in {"verify", "aside", "copy", "copying"}
        => fresh \in volumes

\* "A failed copy renames the old bundle straight back" (updater.rs:406): an
\* install that gave up has left what it found.
FailedCopyIsUndone ==
    platform = "mac" /\ step \in {"drag", "opened", "refused"} => target = running
=============================================================================
