---------------------------- MODULE LinuxSession ----------------------------
(* What runs beside the store on Linux: the launches of a session with their  *)
(* panel (Session), and the two roads of a notice (Delivery). Neither touches *)
(* the other's state: a behaviour runs one of them, `part`, and the other     *)
(* stays where it started, where nothing of it is enabled.                    *)
EXTENDS Session

CONSTANTS
    Urls, Off, BannerDepth, HookDepth, MaxNotices, MaxEdits, MaxTests   \* Delivery's

\* No address is none, or what the test's row says without an address.
ASSUME DeliveryAssumption ==
    /\ Off \notin Urls /\ (Urls \cup {Off}) \cap {"none", "sending", "unread"} = {}
    /\ BannerDepth \in Nat /\ HookDepth \in Nat
    /\ MaxNotices \in Nat /\ MaxEdits \in Nat /\ MaxTests \in Nat

VARIABLES
    part,
    notices, url, edits, queue, shown, hooks, posting, card, tests, tested,
    addressed, seen, posted

delivery == <<notices, url, edits, queue, shown, hooks, posting, card, tests,
              tested, addressed, seen, posted>>
allVars == <<part, vars, delivery>>

Delivery == INSTANCE Delivery

PartsInit == Init /\ Delivery!Init /\ (part = "delivery" \/ (part = "session" /\ url = Off))

PartsNext ==
    /\ UNCHANGED part
    /\ \/ part = "session" /\ Next /\ UNCHANGED delivery
       \/ part = "delivery" /\ Delivery!Next /\ UNCHANGED vars

PartsSpec == PartsInit /\ [][PartsNext]_allVars /\ Fairness /\ Delivery!Fairness

----------------------------------------------------------------------------
\* Notices keep their order and their address, and a test its answer (Delivery).
RoadsAreKept == Delivery!RoadsAreKept

\* A banner that stands for ever holds back no post and no test (Delivery).
HooksGoOut == Delivery!HooksGoOut
=============================================================================
