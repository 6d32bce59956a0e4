--------------------------- MODULE SessionProofs ---------------------------
(* The socket of an instance stays where launches look for it (Session): the  *)
(* claim's order, connect before unlink, is enough as long as no two claims   *)
(* meet while nobody listens.                                                 *)
EXTENDS LinuxSession, TLAPS

\* A socket is held by a process that has bound it and is still there.
Holders ==
    \A p \in Procs :
        /\ sock[p] = "bound" <=> pc[p] = "listen"
        /\ sock[p] = "listening" => pc[p] \in {"build", "loop"}

Nobody == ~\E p \in Procs : Listener(p)

\* While no two claims have met, a process that has found nobody is alone: no
\* other claims, and so nobody comes to listen, until it has bound.
Alone == \A p \in Procs : pc[p] \in {"clear", "rebind"} => Nobody
SocketsStay == \A p \in Procs : sock[p] # "none" => path = p
Uncontested == ~contested => ~Contest /\ Alone /\ SocketsStay

IndInv == ClaimTyped /\ Holders /\ Uncontested

LEMMA InitInv == Init => IndInv
  <1> SUFFICES ASSUME Init PROVE IndInv
    OBVIOUS
  <1>1. ClaimTyped /\ ~contested
    BY DEF Init, ClaimTyped, Running, Claiming
  <1>2. \A p \in Procs : pc[p] = "off" /\ sock[p] = "none"
    BY DEF Init
  <1>3. Holders
    BY <1>2 DEF Holders
  <1>4. ~Contest /\ Alone /\ SocketsStay
    BY <1>2 DEF Contest, Claiming, Alone, SocketsStay
  <1> QED
    BY <1>1, <1>3, <1>4 DEF IndInv, Uncontested

----------------------------------------------------------------------------
\* What a step does to the path, the sockets and the program counters.
Stays == UNCHANGED <<path, sock>>
Moves(p, from, where) == pc[p] = from /\ pc' = [pc EXCEPT ![p] = where]

Asks(p) ==
    /\ Stays
    /\ \/ Moves(p, "off", "bind") \/ Moves(p, "bind", "connect") \/ Moves(p, "bind", "build")
       \/ Moves(p, "connect", "deliver") \/ Moves(p, "clear", "build")
       \/ Moves(p, "rebind", "build") \/ Moves(p, "deliver", "done") \/ Moves(p, "build", "loop")
FindsNobody(p) == Stays /\ Nobody /\ Moves(p, "connect", "clear")
Takes(p) == TakePath(p) /\ pc[p] \in {"bind", "rebind"}
Listens(p) == Moves(p, "listen", "build") /\ UNCHANGED path
              /\ sock' = [sock EXCEPT ![p] = "listening"]
Clears(p) == Moves(p, "clear", "rebind") /\ UNCHANGED sock /\ path' = NoOne
Ends(p) == /\ pc[p] \in Running /\ pc' = [pc EXCEPT ![p] = "killed"] /\ UNCHANGED path
           /\ sock' = [sock EXCEPT ![p] = "none"]

Claims(p) ==
    Asks(p) \/ FindsNobody(p) \/ Takes(p) \/ Listens(p) \/ Clears(p) \/ Ends(p)

LEMMA StepShape == Steps => (Stays /\ UNCHANGED pc) \/ \E p \in Procs : Claims(p)
  <1> SUFFICES ASSUME Steps PROVE (Stays /\ UNCHANGED pc) \/ \E p \in Procs : Claims(p)
    OBVIOUS
  <1> USE DEF Goto, Moves, Stays
  <1>1. CASE OnScreen
    BY <1>1 DEF OnScreen
  <1>2. ASSUME NEW p \in Procs, Launch(p) \/ Deliver(p) \/ Build(p)
        PROVE  Asks(p)
    BY <1>2 DEF Launch, Deliver, Build, Asks
  <1>3. ASSUME NEW p \in Procs, Bind(p)
        PROVE  Asks(p) \/ Takes(p)
    BY <1>3 DEF Bind, Asks, Takes
  <1>4. ASSUME NEW p \in Procs, Listen(p)
        PROVE  Listens(p)
    BY <1>4 DEF Listen, Listens
  <1>5. ASSUME NEW p \in Procs, Connect(p)
        PROVE  Asks(p) \/ FindsNobody(p)
    BY <1>5 DEF Connect, Reach, Asks, FindsNobody, Nobody
  <1>6. ASSUME NEW p \in Procs, Clear(p)
        PROVE  Asks(p) \/ Clears(p)
    BY <1>6 DEF Clear, Asks, Clears
  <1>7. ASSUME NEW p \in Procs, Rebind(p)
        PROVE  Asks(p) \/ Takes(p)
    BY <1>7 DEF Rebind, Asks, Takes
  <1>8. ASSUME NEW p \in Procs, Serve(p) \/ Act(p)
        PROVE  Stays /\ UNCHANGED pc
    BY <1>8 DEF Serve, Accept, ReadOne, Act
  <1>9. ASSUME NEW p \in Procs, Die(p)
        PROVE  Ends(p)
    BY <1>9 DEF Die, Ends
  <1> QED
    BY <1>1, <1>2, <1>3, <1>4, <1>5, <1>6, <1>7, <1>8, <1>9 DEF Steps, Claim, Claims

----------------------------------------------------------------------------
LEMMA TypedStep ==
  ASSUME ClaimTyped, Next
  PROVE  ClaimTyped'
  <1>1. contested' \in BOOLEAN
    BY DEF ClaimTyped, Next, Noted
  <1>2. CASE Stays /\ UNCHANGED pc
    BY <1>1, <1>2 DEF ClaimTyped, Stays
  <1>3. ASSUME NEW p \in Procs, Claims(p)
        PROVE  ClaimTyped'
    BY <1>1, <1>3
    DEF ClaimTyped, Claims, Asks, FindsNobody, Takes, TakePath, Goto, Listens, Clears, Ends,
        Moves, Stays, Running, Claiming
  <1> QED
    BY <1>2, <1>3, StepShape DEF Next, Noted

LEMMA HoldersStep ==
  ASSUME ClaimTyped, Holders, Next
  PROVE  Holders'
  <1>1. CASE Stays /\ UNCHANGED pc
    BY <1>1 DEF Holders, Stays
  <1>2. ASSUME NEW p \in Procs, Claims(p)
        PROVE  Holders'
    BY <1>2
    DEF ClaimTyped, Holders, Claims, Asks, FindsNobody, Takes, TakePath, Goto, Listens, Clears,
        Ends, Moves, Stays, Running, Claiming
  <1> QED
    BY <1>1, <1>2, StepShape DEF Next, Noted

\* The step of one process, seen by the others: whoever claims beside it would
\* make a contest.
LEMMA UncontestedStep ==
  ASSUME ClaimTyped, Holders, Uncontested, Next
  PROVE  Uncontested'
  <1> SUFFICES ASSUME ~contested'
               PROVE  Alone' /\ SocketsStay'
    BY DEF Uncontested, Next, Noted
  <1>1. ~contested /\ ~Contest' /\ ~Contest /\ Alone /\ SocketsStay
    BY DEF Uncontested, Next, Noted, ClaimTyped
  <1>2. CASE Stays /\ UNCHANGED pc
    BY <1>1, <1>2 DEF Stays, Alone, Nobody, Listener, SocketsStay
  <1>3. ASSUME NEW p \in Procs, Asks(p) \/ FindsNobody(p)
        PROVE  Alone' /\ SocketsStay'
    BY <1>1, <1>3
    DEF Asks, FindsNobody, Moves, Stays, Alone, Nobody, Listener, SocketsStay, ClaimTyped
  <1>4. ASSUME NEW p \in Procs, Takes(p)
        PROVE  Alone' /\ SocketsStay'
    BY <1>1, <1>4, SessionAssumption
    DEF Takes, TakePath, Goto, Alone, Nobody, Listener, SocketsStay, ClaimTyped
  <1>5. ASSUME NEW p \in Procs, Listens(p)
        PROVE  Alone' /\ SocketsStay'
    <2>1. path = p
      BY <1>1, <1>5 DEF Listens, Moves, Holders, SocketsStay
    <2>2. \A q \in Procs : pc[q] \notin {"clear", "rebind"}
      BY <1>1, <1>5 DEF Listens, Moves, Contest, Claiming, Alone, Nobody
    <2> QED
      BY <1>1, <1>5, <2>1, <2>2 DEF Listens, Moves, Alone, SocketsStay, ClaimTyped
  <1>6. ASSUME NEW p \in Procs, Clears(p)
        PROVE  Alone' /\ SocketsStay'
    <2>1. \A q \in Procs : sock[q] = "none"
      BY <1>1, <1>6
      DEF Clears, Moves, Alone, Nobody, Listener, SocketsStay, ClaimTyped, Contest, Claiming,
          Holders
    <2> QED
      BY <1>6, <2>1 DEF Clears, Alone, Nobody, Listener, SocketsStay
  <1>7. ASSUME NEW p \in Procs, Ends(p)
        PROVE  Alone' /\ SocketsStay'
    BY <1>1, <1>7 DEF Ends, Alone, Nobody, Listener, SocketsStay, ClaimTyped
  <1> QED
    BY <1>2, <1>3, <1>4, <1>5, <1>6, <1>7, StepShape DEF Next, Noted, Claims

----------------------------------------------------------------------------
LEMMA Inductive == Spec => []IndInv
  <1>1. IndInv /\ [Next]_vars => IndInv'
    <2> SUFFICES ASSUME IndInv, [Next]_vars PROVE IndInv'
      OBVIOUS
    <2>1. CASE Next
      BY <2>1, TypedStep, HoldersStep, UncontestedStep DEF IndInv
    <2>2. CASE UNCHANGED vars
      BY <2>2
      DEF IndInv, vars, ClaimTyped, Holders, Uncontested, Contest, Alone, Nobody, Listener,
          SocketsStay
    <2> QED
      BY <2>1, <2>2
  <1> QED
    BY InitInv, <1>1, PTL DEF Spec

\* For any number of launches: while no two claims have met with nobody
\* listening, whoever listens is who the path leads to, so there is one instance
\* and no launch unlinks its socket.
THEOREM OneInstance == Spec => []UncontestedSocketStays
  <1>1. IndInv => UncontestedSocketStays
    BY DEF IndInv, Uncontested, SocketsStay, UncontestedSocketStays, LiveSocketStays
  <1> QED
    BY <1>1, Inductive, PTL

----------------------------------------------------------------------------
(* The roads of a notice (Delivery).                                          *)

\* What waits on a road after the last taken up: in order, and none beyond n.
Follows(last, ns, n) ==
    /\ ns \in Seq(Nat) /\ last \in Nat
    /\ Len(ns) > 0 => last < ns[1]
    /\ \A i \in 1..Len(ns) - 1 : ns[i] < ns[i + 1]
    /\ last <= n /\ \A i \in 1..Len(ns) : ns[i] <= n

Numbers(jobs) == [i \in DOMAIN jobs |-> jobs[i].n]

Addresses == Urls \cup {Off}
Jobs == [n : Nat, url : Urls]
Addressed(job, n, whose) == job.n \in 1..MaxNotices /\ job.n <= n /\ job.url = whose[job.n]

JobsKept ==
    /\ notices \in Nat /\ url \in Addresses
    /\ addressed \in [1..MaxNotices -> Addresses]
    /\ hooks \in Seq(Jobs) /\ (posting = <<>> \/ \E job \in Jobs : posting = <<job>>)
    /\ \A i \in 1..Len(hooks) : Addressed(hooks[i], notices, addressed)
    /\ posting # <<>> => Addressed(posting[1], notices, addressed)

TestsKept ==
    /\ tests \subseteq [id : Nat, to : Addresses \cup {"unread"}] /\ tested \in Nat
    /\ Delivery!SendingIsSent

RoadsInv ==
    /\ JobsKept /\ TestsKept
    /\ Follows(seen, queue, notices) /\ Follows(posted, Numbers(hooks), notices)

\* Taking the first up, dropping the newest or taking it in keeps a road's order.
LEMMA FollowsTail ==
  ASSUME NEW last, NEW ns, NEW n, Follows(last, ns, n), ns # <<>>
  PROVE  Follows(Head(ns), Tail(ns), n)
  <1>1. ns \in Seq(Nat) /\ Len(ns) > 0
    BY DEF Follows
  <1> QED
    BY <1>1 DEF Follows

LEMMA FollowsNew ==
  ASSUME NEW last, NEW ns, NEW n \in Nat, Follows(last, ns, n)
  PROVE  Follows(last, ns, n + 1) /\ Follows(last, Append(ns, n + 1), n + 1)
  <1> DEFINE more == Append(ns, n + 1)
  <1>1. Follows(last, ns, n + 1)
    BY DEF Follows
  <1>2. /\ more \in Seq(Nat) /\ Len(more) = Len(ns) + 1 /\ more[Len(ns) + 1] = n + 1
        /\ \A i \in 1..Len(ns) : more[i] = ns[i]
    BY DEF Follows
  <1> HIDE DEF more
  <1>3. /\ Len(ns) \in Nat /\ last \in Nat /\ last <= n /\ (Len(ns) > 0 => last < ns[1])
        /\ \A i \in 1..Len(ns) - 1 : ns[i] < ns[i + 1]
        /\ \A i \in 1..Len(ns) : ns[i] \in Nat /\ ns[i] <= n
    BY DEF Follows
  <1>4. Len(more) > 0 => last < more[1]
    BY <1>2, <1>3
  <1>5. ASSUME NEW i \in 1..Len(more) - 1 PROVE more[i] < more[i + 1]
    <2>1. i \in 1..Len(ns) /\ more[i] = ns[i]
      BY <1>2, <1>3
    <2>2. CASE i = Len(ns)
      BY <1>2, <1>3, <2>1, <2>2
    <2>3. CASE i \in 1..Len(ns) - 1
      <3>1. i + 1 \in 1..Len(ns)
        BY <1>3, <2>3
      <3> QED
        BY <1>2, <1>3, <2>1, <2>3, <3>1
    <2> QED
      BY <1>3, <2>1, <2>2, <2>3
  <1>6. \A i \in 1..Len(more) : more[i] <= n + 1
    BY <1>2, <1>3
  <1>7. Follows(last, more, n + 1)
    BY <1>2, <1>3, <1>4, <1>5, <1>6 DEF Follows
  <1> QED
    BY <1>1, <1>7 DEF more

LEMMA FollowsRises ==
  ASSUME NEW last, NEW ns, NEW n, Follows(last, ns, n)
  PROVE  Delivery!Rising(<<last>> \o ns)
BY DEF Follows, Delivery!Rising

LEMMA NumbersOf ==
  ASSUME NEW jobs \in Seq(Jobs)
  PROVE  /\ Numbers(jobs) \in Seq(Nat) /\ Len(Numbers(jobs)) = Len(jobs)
         /\ (Numbers(jobs) = <<>> <=> jobs = <<>>)
         /\ jobs # <<>> => Head(Numbers(jobs)) = Head(jobs).n
         /\ jobs # <<>> => Numbers(Tail(jobs)) = Tail(Numbers(jobs))
         /\ \A job \in Jobs : Numbers(Append(jobs, job)) = Append(Numbers(jobs), job.n)
  <1>1. ASSUME NEW i \in 1..Len(jobs) PROVE jobs[i].n \in Nat
    <2>1. jobs[i] \in Jobs
      OBVIOUS
    <2> QED
      BY <2>1 DEF Jobs
  <1>2. Numbers(jobs) \in Seq(Nat) /\ Len(Numbers(jobs)) = Len(jobs)
    BY <1>1 DEF Numbers
  <1>3. Numbers(jobs) = <<>> <=> jobs = <<>>
    BY <1>2
  <1>4. jobs # <<>> => Head(Numbers(jobs)) = Head(jobs).n
    BY <1>2 DEF Numbers
  <1>5. ASSUME jobs # <<>> PROVE Numbers(Tail(jobs)) = Tail(Numbers(jobs))
    BY <1>2, <1>5 DEF Numbers
  <1>6. ASSUME NEW job \in Jobs PROVE Numbers(Append(jobs, job)) = Append(Numbers(jobs), job.n)
    BY <1>2, <1>6 DEF Numbers, Jobs
  <1> QED
    BY <1>2, <1>3, <1>4, <1>5, <1>6

\* One step of each road.
LEMMA PostKeeps == RoadsInv /\ Delivery!Post => RoadsInv'
  <1> SUFFICES ASSUME RoadsInv, Delivery!Post PROVE RoadsInv'
    OBVIOUS
  <1> DEFINE n == notices + 1
             job == [n |-> n, url |-> url]
  <1>1. /\ notices \in Nat /\ n \in 1..MaxNotices /\ notices' = n /\ url' = url
        /\ addressed' = [addressed EXCEPT ![n] = url] /\ url \in Addresses
    BY DeliveryAssumption DEF RoadsInv, JobsKept, Delivery!Post
  <1>2. Follows(seen, queue, notices)'
    <2>1. Follows(seen, queue, n) /\ Follows(seen, Append(queue, n), n)
      BY <1>1, FollowsNew DEF RoadsInv
    <2> QED
      BY <1>1, <2>1 DEF Delivery!Post, Delivery!Enqueue
  <1>3. hooks' = hooks \/ (url \in Urls /\ hooks' = Append(hooks, job))
    BY <1>1 DEF Delivery!Post, Delivery!Send, Addresses
  <1>4. job \in Jobs \/ url \notin Urls
    BY <1>1 DEF Jobs
  <1>5. Follows(posted, Numbers(hooks), notices)'
    <2>1. hooks \in Seq(Jobs) /\ posted' = posted
      BY DEF RoadsInv, JobsKept, Delivery!Post
    <2>2. Follows(posted, Numbers(hooks), n) /\ Follows(posted, Append(Numbers(hooks), n), n)
      BY <1>1, FollowsNew DEF RoadsInv
    <2>3. Numbers(hooks') = Numbers(hooks) \/ Numbers(hooks') = Append(Numbers(hooks), n)
      BY <1>3, <1>4, <2>1, NumbersOf
    <2> QED
      BY <1>1, <2>1, <2>2, <2>3 DEF Numbers
  <1>6. \A j \in Jobs : Addressed(j, notices, addressed) => Addressed(j, n, addressed')
    BY <1>1 DEF Addressed, Jobs, RoadsInv, JobsKept
  <1>7. url \in Urls => Addressed(job, n, addressed')
    BY <1>1 DEF Addressed, RoadsInv, JobsKept
  <1>8. hooks' \in Seq(Jobs) /\ \A i \in 1..Len(hooks') : Addressed(hooks'[i], n, addressed')
    <2>1. hooks \in Seq(Jobs) /\ \A i \in 1..Len(hooks) : hooks[i] \in Jobs
      BY DEF RoadsInv, JobsKept
    <2>2. \A i \in 1..Len(hooks) : Addressed(hooks[i], n, addressed')
      BY <1>6, <2>1 DEF RoadsInv, JobsKept
    <2> HIDE DEF job, n
    <2>3. CASE hooks' = hooks
      BY <2>1, <2>2, <2>3
    <2>4. CASE url \in Urls /\ hooks' = Append(hooks, job)
      BY <1>4, <1>7, <2>1, <2>2, <2>4
    <2> QED
      BY <1>3, <2>3, <2>4
  <1>9. JobsKept'
    <2>1. /\ notices' = n /\ n \in Nat /\ url' \in Addresses
          /\ addressed' \in [1..MaxNotices -> Addresses] /\ posting' = posting
      BY <1>1 DEF RoadsInv, JobsKept, Delivery!Post
    <2>2. posting = <<>> \/ \E j \in Jobs : posting = <<j>> /\ Addressed(j, n, addressed')
      BY <1>6 DEF RoadsInv, JobsKept
    <2>3. posting # <<>> => Addressed(posting[1], n, addressed')
      BY <2>2
    <2> HIDE DEF n
    <2> QED
      BY <1>8, <2>1, <2>2, <2>3 DEF JobsKept
  <1>10. TestsKept'
    BY DEF RoadsInv, TestsKept, Delivery!SendingIsSent, Delivery!Post, Delivery!testing
  <1> QED
    BY <1>2, <1>5, <1>9, <1>10 DEF RoadsInv

LEMMA TakeKeeps == RoadsInv /\ Delivery!Take => RoadsInv'
  <1> SUFFICES ASSUME RoadsInv, Delivery!Take PROVE RoadsInv'
    OBVIOUS
  <1>1. /\ hooks \in Seq(Jobs) /\ hooks # <<>> /\ hooks' = Tail(hooks) /\ posting' = <<Head(hooks)>>
        /\ posted' = Head(hooks).n /\ notices' = notices /\ url' = url /\ addressed' = addressed
        /\ seen' = seen /\ queue' = queue /\ card' = card /\ tests' = tests /\ tested' = tested
    BY DEF RoadsInv, JobsKept, Delivery!Take, Delivery!banners, Delivery!testing
  <1>2. Head(hooks) \in Jobs /\ Head(hooks) = hooks[1] /\ Len(hooks) > 0
        /\ Tail(hooks) \in Seq(Jobs) /\ Len(Tail(hooks)) = Len(hooks) - 1
        /\ \A i \in 1..Len(Tail(hooks)) : Tail(hooks)[i] = hooks[i + 1]
    BY <1>1
  <1>3. Follows(posted, Numbers(hooks), notices)'
    <2>1. /\ Numbers(hooks) # <<>> /\ Head(Numbers(hooks)) = Head(hooks).n
          /\ Numbers(Tail(hooks)) = Tail(Numbers(hooks))
      BY <1>1, NumbersOf
    <2>2. Follows(Head(Numbers(hooks)), Tail(Numbers(hooks)), notices)
      BY <2>1, FollowsTail DEF RoadsInv
    <2> QED
      BY <1>1, <2>1, <2>2 DEF Numbers
  <1>5. /\ Addressed(Head(hooks), notices, addressed)
        /\ \A i \in 1..Len(Tail(hooks)) : Addressed(Tail(hooks)[i], notices, addressed)
    BY <1>1, <1>2 DEF RoadsInv, JobsKept
  <1>6. JobsKept'
    BY <1>1, <1>2, <1>5 DEF RoadsInv, JobsKept
  <1>7. Follows(seen, queue, notices)' /\ TestsKept'
    BY <1>1 DEF RoadsInv, TestsKept, Delivery!SendingIsSent
  <1> QED
    BY <1>3, <1>6, <1>7 DEF RoadsInv

LEMMA DeliverKeeps == RoadsInv /\ Delivery!Deliver => RoadsInv'
  <1> SUFFICES ASSUME RoadsInv, Delivery!Deliver PROVE RoadsInv'
    OBVIOUS
  <1>1. Follows(seen, queue, notices)'
    BY FollowsTail DEF RoadsInv, Delivery!Deliver
  <1>2. JobsKept' /\ TestsKept' /\ Follows(posted, Numbers(hooks), notices)'
    BY DEF RoadsInv, JobsKept, TestsKept, Addressed, Delivery!SendingIsSent, Numbers,
           Delivery!Deliver, Delivery!hook, Delivery!testing
  <1> QED
    BY <1>1, <1>2 DEF RoadsInv

\* Steps that touch neither road's numbers.
LEMMA RoadsElsewhere ==
  ASSUME RoadsInv, UNCHANGED <<notices, queue, seen, hooks, posted, addressed>>,
         url' \in Addresses, posting' \in {posting, <<>>}, TestsKept'
  PROVE  RoadsInv'
  <1>1. JobsKept'
    BY DEF RoadsInv, JobsKept
  <1> QED
    BY <1>1 DEF RoadsInv, Numbers

LEMMA RoadsNext == RoadsInv /\ [Delivery!Next]_delivery => RoadsInv'
  <1> SUFFICES ASSUME RoadsInv, [Delivery!Next]_delivery PROVE RoadsInv'
    OBVIOUS
  <1>1. /\ url \in Addresses /\ \A a \in Addresses : a # "sending" /\ a # "unread"
        /\ tests \subseteq [id : Nat, to : Addresses \cup {"unread"}] /\ tested \in Nat
        /\ card = "sending" => tests # {}
    BY DeliveryAssumption DEF RoadsInv, JobsKept, TestsKept, Addresses, Delivery!SendingIsSent
  <1>2. CASE Delivery!Resolved
    BY <1>1, <1>2, RoadsElsewhere
    DEF Delivery!Resolved, Delivery!hook, Delivery!testing, TestsKept, Delivery!SendingIsSent
  <1>3. CASE Delivery!Answered
    BY <1>1, <1>3, RoadsElsewhere
    DEF Delivery!Answered, Delivery!banners, Delivery!testing, TestsKept, Delivery!SendingIsSent
  <1>4. ASSUME NEW a \in Addresses, Delivery!SetWebhook(a) PROVE RoadsInv'
    <2>1. TestsKept'
      BY <1>1, <1>4 DEF Delivery!SetWebhook, TestsKept, Delivery!SendingIsSent
    <2> QED
      BY <1>4, <2>1, RoadsElsewhere DEF Delivery!SetWebhook, Delivery!banners, Delivery!hook
  <1>5. CASE Delivery!TestWebhook
    <2>1. [id |-> tested + 1, to |-> "unread"] \in [id : Nat, to : Addresses \cup {"unread"}]
      BY <1>1
    <2>2. TestsKept'
      BY <1>1, <1>5, <2>1 DEF Delivery!TestWebhook, TestsKept, Delivery!SendingIsSent
    <2> QED
      BY <1>1, <1>5, <2>2, RoadsElsewhere
      DEF Delivery!TestWebhook, Delivery!banners, Delivery!hook
  <1>6. ASSUME NEW t \in tests, Delivery!SendTest(t) PROVE RoadsInv'
    <2>1. [t EXCEPT !.to = url] \in [id : Nat, to : Addresses \cup {"unread"}]
      BY <1>1, <1>6
    <2>2. TestsKept'
      BY <1>1, <1>6, <2>1 DEF Delivery!SendTest, TestsKept, Delivery!SendingIsSent
    <2> QED
      BY <1>1, <1>6, <2>2, RoadsElsewhere DEF Delivery!SendTest, Delivery!banners, Delivery!hook
  <1>7. ASSUME NEW t \in tests, Delivery!LandTest(t) PROVE RoadsInv'
    <2>1. TestsKept'
      BY <1>1, <1>7 DEF Delivery!LandTest, TestsKept, Delivery!SendingIsSent
    <2> QED
      BY <1>1, <1>7, <2>1, RoadsElsewhere DEF Delivery!LandTest, Delivery!banners, Delivery!hook
  <1>8. CASE UNCHANGED delivery
    BY <1>1, <1>8, RoadsElsewhere DEF delivery, TestsKept, Delivery!SendingIsSent
  <1> QED
    BY <1>2, <1>3, <1>4, <1>5, <1>6, <1>7, <1>8, PostKeeps, TakeKeeps, DeliverKeeps
    DEF Delivery!Next, Addresses

LEMMA RoadsBegin == Delivery!Init => RoadsInv
  <1> SUFFICES ASSUME Delivery!Init PROVE RoadsInv
    OBVIOUS
  <1>1. JobsKept
    BY DEF Delivery!Init, JobsKept, Addresses
  <1>2. TestsKept
    BY DEF Delivery!Init, TestsKept, Delivery!SendingIsSent
  <1>3. Numbers(hooks) = <<>>
    BY <1>1, NumbersOf DEF Delivery!Init, JobsKept
  <1>4. Follows(0, <<>>, 0)
    BY DEF Follows
  <1> QED
    BY <1>1, <1>2, <1>3, <1>4 DEF RoadsInv, Delivery!Init

LEMMA RoadsHold == RoadsInv => RoadsAreKept
  <1> SUFFICES ASSUME RoadsInv PROVE RoadsAreKept
    OBVIOUS
  <1>1. Delivery!InOrder
    BY FollowsRises DEF RoadsInv, Delivery!InOrder, Numbers
  <1>2. Delivery!ToItsAddress
    <2>1. hooks \in Seq(Jobs) /\ \A i \in 1..Len(hooks) : Addressed(hooks[i], notices, addressed)
      BY DEF RoadsInv, JobsKept
    <2>2. CASE posting = <<>>
      BY <2>1, <2>2 DEF Delivery!ToItsAddress, Addressed
    <2>3. CASE posting # <<>>
      <3>1. PICK job \in Jobs : posting = <<job>> /\ Addressed(job, notices, addressed)
        BY <2>3 DEF RoadsInv, JobsKept
      <3>2. /\ hooks \o posting \in Seq(Jobs) /\ Len(hooks \o posting) = Len(hooks) + 1
            /\ \A i \in 1..Len(hooks) : (hooks \o posting)[i] = hooks[i]
            /\ (hooks \o posting)[Len(hooks) + 1] = job
        BY <2>1, <3>1
      <3>3. \A i \in 1..Len(hooks) + 1 : Addressed((hooks \o posting)[i], notices, addressed)
        BY <2>1, <3>1, <3>2
      <3> QED
        BY <2>1, <3>2, <3>3 DEF Delivery!ToItsAddress, Addressed
    <2> QED
      BY <2>2, <2>3
  <1> QED
    BY <1>1, <1>2 DEF RoadsAreKept, Delivery!RoadsAreKept, RoadsInv, TestsKept

\* For any depths of the queues, notices, edits and tests: neither road repeats a
\* notice or lets one overtake another, each post goes to the address that stood
\* when its notice came, and the row says it is sending only while a test will
\* answer.
THEOREM RoadsAreAlwaysKept == PartsSpec => []RoadsAreKept
  <1>1. PartsInit => RoadsInv
    BY RoadsBegin DEF PartsInit
  <1>2. RoadsInv /\ [PartsNext]_allVars => RoadsInv'
    <2>1. [PartsNext]_allVars => [Delivery!Next]_delivery
      BY DEF PartsNext, allVars, delivery
    <2> QED
      BY <2>1, RoadsNext
  <1> QED
    BY <1>1, <1>2, RoadsHold, PTL DEF PartsSpec

\* What is proved of the session holds beside the roads.
THEOREM OneInstanceBeside == PartsSpec => []UncontestedSocketStays
  <1>1. PartsInit => Init
    BY DEF PartsInit
  <1>2. [PartsNext]_allVars => [Next]_vars
    BY DEF PartsNext, allVars
  <1> QED
    BY <1>1, <1>2, OneInstance, PTL DEF PartsSpec, Spec
=============================================================================
