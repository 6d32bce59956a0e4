------------------------------- MODULE Answers -------------------------------
(* What a card of the disk-space window promises, however its answers come:   *)
(* it shows the answer to the last question put through it, or a newer one    *)
(* that came unasked, or nothing; never an older one, and never the question  *)
(* for ever. Questions of all cards are numbered together.                    *)
EXTENDS Naturals

CONSTANT Renews     \* whether an answer nobody asked for can be shown

VARIABLES
    st,             \* "off", "running" (asked), "ready" (answered), "failed"
    of,             \* the question, 0 without one
    asked,          \* questions so far
    life            \* which launch of the program this is

vars == <<st, of, asked, life>>

Init == st = "off" /\ of = 0 /\ asked = 0 /\ life = 0

\* A question takes the place of whatever was shown or asked.
Ask ==
    /\ asked' = asked + 1 /\ st' = "running" /\ of' = asked'
    /\ UNCHANGED life

AskElsewhere == asked' = asked + 1 /\ UNCHANGED <<st, of, life>>

Answer == st = "running" /\ st' = "ready" /\ UNCHANGED <<of, asked, life>>

Fail == st = "running" /\ st' = "failed" /\ of' = 0 /\ UNCHANGED <<asked, life>>

\* Cancelled, cleared or refused.
Forget == st' \in {"off", "failed"} /\ of' = 0 /\ UNCHANGED <<asked, life>>

\* A newer answer than the one shown, and never over a question.
Renew ==
    /\ Renews /\ st \in {"off", "ready"} /\ st' = "ready"
    /\ of' \in of + 1 .. asked
    /\ UNCHANGED <<asked, life>>

\* The next launch shows what was kept.
Reopen ==
    /\ life' = life + 1
    /\ \/ st' = "off" /\ of' = 0
       \/ st' = "ready" /\ of' \in 0 .. asked
    /\ UNCHANGED asked

Next == Ask \/ AskElsewhere \/ Answer \/ Fail \/ Forget \/ Renew \/ Reopen

Safe == Init /\ [][Next]_vars

\* As long as questions do not come without end.
Live == []<>(st # "running")

Spec == Safe /\ Live
=============================================================================
