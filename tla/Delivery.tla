------------------------------- MODULE Delivery -------------------------------
(* The two roads a notice that passed the gates takes (notify::post,          *)
(* src/src/notify.rs): the banner queue of the platforms other than macOS,    *)
(* whose thread waits on the server for as long as a banner stands, and the   *)
(* webhook's queue (src/src/webhook.rs); and the test button of the webhook   *)
(* (src/src/state/mod.rs). On macOS a banner is handed to the system at once. *)
EXTENDS Integers, Sequences

CONSTANTS Urls, Off,                \* the address, or none
          BannerDepth, HookDepth,   \* QUEUE_DEPTH and QUEUE
          MaxNotices, MaxEdits, MaxTests    \* bounds

VARIABLES
    notices,        \* the notices that came so far, numbered
    url, edits,     \* the webhook's address, and how often it was changed
    queue, shown,   \* the banners waiting, and the one on the server (or none)
    hooks, posting, \* the posts waiting, and the one under way (or none)
    card,           \* webhook_test: "none", "sending", or the address answered
    tests, tested,  \* the tests' threads and the address each posts to, and
                    \* how many there were
    addressed,      \* history: the address when each notice came
    seen, posted    \* history: the last notice each road took up

banners == <<queue, shown, seen>>
hook == <<hooks, posting, posted>>
testing == <<card, tests, tested>>
vars == <<notices, url, edits, banners, hook, testing, addressed>>

Job == [n : 1..MaxNotices, url : Urls]

TypeOK ==
    /\ notices \in 0..MaxNotices /\ edits \in 0..MaxEdits /\ tested \in 0..MaxTests
    /\ url \in Urls \cup {Off}
    /\ queue \in Seq(1..MaxNotices) /\ shown \in 0..MaxNotices
    /\ hooks \in Seq(Job) /\ posting \in {<<>>} \cup {<<job>> : job \in Job}
    /\ card \in {"none", "sending"} \cup Urls \cup {Off}
    /\ tests \subseteq [id : 1..MaxTests, to : {"unread"} \cup Urls \cup {Off}]
    /\ addressed \in [1..MaxNotices -> Urls \cup {Off}]
    /\ seen \in 0..MaxNotices /\ posted \in 0..MaxNotices

Init ==
    /\ notices = 0 /\ url \in Urls \cup {Off} /\ edits = 0
    /\ queue = <<>> /\ shown = 0 /\ hooks = <<>> /\ posting = <<>>
    /\ card = "none" /\ tests = {} /\ tested = 0
    /\ addressed = [n \in 1..MaxNotices |-> Off] /\ seen = 0 /\ posted = 0

----------------------------------------------------------------------------
(* A notice, under the store's lock.                                          *)

\* webhook::send: nothing without an address, dropped when the queue is full.
Send(n) ==
    hooks' = IF url # Off /\ Len(hooks) < HookDepth
             THEN Append(hooks, [n |-> n, url |-> url]) ELSE hooks

\* enqueue: dropped when the queue is full.
Enqueue(n) == queue' = IF Len(queue) < BannerDepth THEN Append(queue, n) ELSE queue

\* notify::post and its siblings: the webhook first, then the banner.
Post ==
    /\ notices < MaxNotices /\ notices' = notices + 1
    /\ addressed' = [addressed EXCEPT ![notices + 1] = url]
    /\ Send(notices + 1) /\ Enqueue(notices + 1)
    /\ UNCHANGED <<url, edits, shown, seen, posting, posted, testing>>

----------------------------------------------------------------------------
(* The delivery thread of the banners: it waits until the server resolves.    *)

Deliver ==
    /\ shown = 0 /\ queue # <<>>
    /\ shown' = Head(queue) /\ queue' = Tail(queue) /\ seen' = Head(queue)
    /\ UNCHANGED <<notices, url, edits, hook, testing, addressed>>

\* Clicked, closed or expired, in the server's own time, or never.
Resolved ==
    /\ shown # 0 /\ shown' = 0
    /\ UNCHANGED <<notices, url, edits, queue, seen, hook, testing, addressed>>

----------------------------------------------------------------------------
(* The webhook's worker: one post at a time, one try each.                    *)

\* Mutant: the address is read when the post is made.
TakeReadingUrl ==
    /\ posting = <<>> /\ hooks # <<>> /\ url # Off
    /\ posting' = <<[Head(hooks) EXCEPT !.url = url]>> /\ hooks' = Tail(hooks)
    /\ posted' = Head(hooks).n
    /\ UNCHANGED <<notices, url, edits, banners, testing, addressed>>

Take ==
    /\ posting = <<>> /\ hooks # <<>>
    /\ posting' = <<Head(hooks)>> /\ hooks' = Tail(hooks) /\ posted' = Head(hooks).n
    /\ UNCHANGED <<notices, url, edits, banners, testing, addressed>>

\* A post that failed goes to the back of the queue.
\* Mutant of Answered.
AnsweredOrAgain ==
    /\ posting # <<>> /\ posting' = <<>>
    /\ hooks' \in {hooks, IF Len(hooks) < HookDepth THEN hooks \o posting ELSE hooks}
    /\ UNCHANGED <<notices, url, edits, banners, posted, testing, addressed>>

\* The endpoint answers or the timeout passes; either is a line of the log.
Answered ==
    /\ posting # <<>> /\ posting' = <<>>
    /\ UNCHANGED <<notices, url, edits, banners, hooks, posted, testing, addressed>>

----------------------------------------------------------------------------
(* The field and the test button.                                             *)

\* The field's edit: the address, if it is one, then forget_webhook_test.
SetWebhook(to) ==
    /\ edits < MaxEdits /\ edits' = edits + 1
    /\ url' = to /\ card' = "none"
    /\ UNCHANGED <<notices, banners, hook, tests, tested, addressed>>

\* test_webhook: "One at a time", by the row that says it is sending.
TestWebhook ==
    /\ card # "sending" /\ url # Off
    /\ tested < MaxTests /\ tested' = tested + 1
    /\ card' = "sending" /\ tests' = tests \cup {[id |-> tested + 1, to |-> "unread"]}
    /\ UNCHANGED <<notices, url, edits, banners, hook, addressed>>

\* send_test reads the address on its own thread.
SendTest(t) ==
    /\ t.to = "unread"
    /\ tests' = (tests \ {t}) \cup {[t EXCEPT !.to = url]}
    /\ UNCHANGED <<notices, url, edits, banners, hook, card, tested, addressed>>

\* Mutant: an answer is kept only by the test that was the only one.
LandTestAlone(t) ==
    /\ t.to # "unread"
    /\ tests' = tests \ {t} /\ card' = IF tests = {t} /\ tested = 1 THEN t.to ELSE card
    /\ UNCHANGED <<notices, url, edits, banners, hook, tested, addressed>>

LandTest(t) ==
    /\ t.to # "unread"
    /\ tests' = tests \ {t} /\ card' = t.to
    /\ UNCHANGED <<notices, url, edits, banners, hook, tested, addressed>>

Next ==
    \/ Post
    \/ Deliver \/ Resolved
    \/ Take \/ Answered
    \/ \E to \in Urls \cup {Off} : SetWebhook(to)
    \/ TestWebhook \/ \E t \in tests : SendTest(t) \/ LandTest(t)

Spec == Init /\ [][Next]_vars

TestGoes(id) == \E t \in tests : t.id = id /\ (SendTest(t) \/ LandTest(t))

\* Both threads go on, and a test's; the server need not resolve anything.
Fairness ==
    /\ WF_vars(Take) /\ WF_vars(Answered)
    /\ \A id \in 1..MaxTests : WF_vars(TestGoes(id))

FairSpec == Spec /\ Fairness

----------------------------------------------------------------------------
(* Properties.                                                                *)

Rising(ns) == \A i \in 1..Len(ns) - 1 : ns[i] < ns[i + 1]

\* Neither road repeats a notice, or lets one overtake another, whatever it
\* dropped in between.
InOrder ==
    /\ Rising(<<seen>> \o queue)
    /\ Rising(<<posted>> \o [i \in DOMAIN hooks |-> hooks[i].n])

\* A notice goes to the address that stood when it came, not to one typed while
\* it waited: "the next notification goes to the new address".
ToItsAddress ==
    \A i \in DOMAIN (hooks \o posting) :
        (hooks \o posting)[i].url = addressed[(hooks \o posting)[i].n]

\* The row says "sending" only while a test will answer.
SendingIsSent == card = "sending" => tests # {}

RoadsAreKept == InOrder /\ ToItsAddress /\ SendingIsSent

\* A banner that stands for ever on the server keeps back the banners behind it
\* and nothing else: every post is made, and every test comes to an answer.
HooksGoOut == []<>(hooks = <<>> /\ posting = <<>>) /\ []<>(card # "sending")

\* An edited URL is a different endpoint: "what the last test said about the old
\* one no longer describes anything on screen" (state/mod.rs:2193).
AnswerIsOfTheUrl == card \in Urls \cup {Off} => card = url
=============================================================================
