---------------------------- MODULE LinuxPanel ----------------------------
(* The panel of the Linux host (src/src/nsh/linux.rs): a layer surface that   *)
(* the tray, a second launch or a banner shows, and that a press, the         *)
(* keyboard leaving it or the pointer leaving it hides. Every handler and     *)
(* timer runs on the main loop and is one step. How long the two graces last  *)
(* against each other and against the user is left open: the reveal's ends    *)
(* and the leave's timer fires at any moment. So is what the compositor does, *)
(* and when it says so.                                                       *)
EXTENDS Naturals

VARIABLES
    up,         \* the window is visible
    revealed,   \* it was mapped REVEAL_GRACE ago or earlier (opened_at)
    active,     \* it has the keyboard
    inside,     \* the motion controller contains the pointer
    reached,    \* pointer_was_inside
    pinned,     \* the preference
    pending,    \* leave_pending, and the timer that clears it
    late        \* it was unpinned after both had left it (for the properties)

panel == <<up, revealed, active, inside, reached, pinned, pending, late>>

PanelTyped ==
    {up, revealed, active, inside, reached, pinned, pending, late} \subseteq BOOLEAN

PanelInit ==
    /\ up = FALSE /\ revealed = FALSE /\ active = FALSE /\ inside = FALSE
    /\ reached = FALSE /\ pending = FALSE /\ late = FALSE /\ pinned \in BOOLEAN

----------------------------------------------------------------------------
\* A panel already up keeps its graces.
Show ==
    /\ up' = TRUE
    /\ IF up THEN UNCHANGED <<revealed, reached>>
             ELSE revealed' = FALSE /\ reached' = FALSE
    /\ UNCHANGED <<active, inside, pinned, pending, late>>

Hide ==
    /\ up' = FALSE
    /\ UNCHANGED <<revealed, active, inside, reached, pinned, pending, late>>

Toggle == IF up THEN Hide ELSE Show

\* The process ends, and its windows and timers with it.
NoPanel ==
    /\ up' = FALSE /\ revealed' = FALSE /\ active' = FALSE /\ inside' = FALSE
    /\ reached' = FALSE /\ pending' = FALSE /\ late' = FALSE /\ UNCHANGED pinned

Revealed ==
    /\ ~revealed /\ revealed' = TRUE
    /\ UNCHANGED <<up, active, inside, reached, pinned, pending, late>>

KeyboardArrives ==
    /\ up /\ ~active /\ active' = TRUE /\ late' = FALSE
    /\ UNCHANGED <<up, revealed, inside, reached, pinned, pending>>

\* Mutant: only while the pointer is over the panel, whose leaving does the rest.
KeyboardLeftInside ==
    /\ active /\ active' = FALSE
    /\ up' = (up /\ (pinned \/ ~revealed \/ ~reached \/ ~inside))
    /\ UNCHANGED <<revealed, inside, reached, pinned, pending, late>>

\* Not believed inside the reveal grace, nor before the pointer was inside.
KeyboardLeft ==
    /\ active /\ active' = FALSE
    /\ up' = (up /\ (pinned \/ ~revealed \/ ~reached))
    /\ UNCHANGED <<revealed, inside, reached, pinned, pending, late>>

PointerEntered ==
    /\ up /\ ~inside /\ inside' = TRUE /\ late' = FALSE
    /\ reached' = (reached \/ revealed)
    /\ UNCHANGED <<up, revealed, active, pinned, pending>>

\* Also of a window that has just been hidden.
PointerLeft ==
    /\ inside /\ inside' = FALSE
    /\ pending' = (pending \/ (~pinned /\ reached /\ revealed))
    /\ UNCHANGED <<up, revealed, active, reached, pinned, late>>

\* Wherever the pointer has been meanwhile, and whichever map it left.
LeaveWaited ==
    /\ pending /\ pending' = FALSE
    /\ up' = (up /\ (pinned \/ inside))
    /\ UNCHANGED <<revealed, active, inside, reached, pinned, late>>

\* A press on the pin, or mod+P, handled when the engine gets to it.
TogglePin ==
    /\ pinned' = ~pinned
    /\ late' = (pinned /\ ~inside /\ ~active)
    /\ UNCHANGED <<up, revealed, active, inside, reached, pending>>

\* The first three: the tray's click, its menu or a banner, the compositor's close.
PanelStep ==
    \/ Toggle \/ Show \/ Hide
    \/ Revealed \/ KeyboardArrives \/ KeyboardLeft \/ PointerEntered \/ PointerLeft
    \/ LeaveWaited \/ TogglePin

----------------------------------------------------------------------------
\* A panel that was reached and that both the pointer and the keyboard have left
\* goes, in whichever order they left and whatever the pin said meanwhile, unless
\* they come back, it is pinned, or the press that unpins it is handled too late.
LookAwayCloses == []<>~(up /\ reached /\ ~inside /\ ~active /\ ~pinned /\ ~late)
=============================================================================
