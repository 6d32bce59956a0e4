------------------------------ MODULE Session ------------------------------
(* One process per session on Linux (src/src/ipc.rs): a launch becomes the    *)
(* instance by binding a socket in the session's directory, or hands its      *)
(* command to the one that answers there; a socket nobody answers on is       *)
(* cleared. The instance's accept thread reads one command at a time and      *)
(* posts it to the main loop (src/src/nsh/linux.rs, run).                     *)
(*                                                                            *)
(* A process is a launch. Every system call is a step: the library binds and  *)
(* listens in two. A process can be killed, or quit, between any two of them, *)
(* and leaves its socket's name behind. A command is a toggle or a show; the  *)
(* panel it moves is that of one of the launches, Here (LinuxPanel).          *)
EXTENDS LinuxPanel, Sequences

LOCAL INSTANCE Functions    \* IsInjective

CONSTANTS Procs,    \* the launches
          NoOne,
          Here      \* the one whose panel is modelled

ASSUME SessionAssumption == NoOne \notin Procs /\ Here \in Procs

VARIABLES
    path,       \* whose socket stands at the path
    sock,       \* the socket of each process
    pc,         \* where each process is
    wire,       \* what became of each process's command
    to,         \* the process it was handed to
    backlog,    \* the connections not accepted yet
    reading,    \* the one the accept thread reads
    todo,       \* the commands posted to the main loop
    contested   \* two claims met while nobody was listening (for the properties)

served == <<backlog, reading, todo>>
vars == <<path, sock, pc, wire, to, served, contested, panel>>

Claiming == {"bind", "listen", "connect", "clear", "rebind"}
Running == Claiming \cup {"deliver", "build", "loop"}

ClaimTyped ==
    /\ path \in Procs \cup {NoOne}
    /\ sock \in [Procs -> {"none", "bound", "listening"}]
    /\ pc \in [Procs -> {"off", "done", "killed"} \cup Running]
    /\ contested \in BOOLEAN

ServeTyped ==
    /\ wire \in [Procs -> {"none", "open", "spoken", "closed", "refused", "posted",
                           "acted", "lost"}]
    /\ to \in [Procs -> Procs \cup {NoOne}]
    /\ backlog \in [Procs -> Seq(Procs)]
    /\ reading \in [Procs -> Procs \cup {NoOne}]
    /\ todo \in [Procs -> Seq(Procs)]
    /\ \A p \in Procs : IsInjective(backlog[p]) /\ IsInjective(todo[p])

TypeOK == ClaimTyped /\ ServeTyped /\ PanelTyped

Init ==
    /\ PanelInit
    /\ path = NoOne
    /\ sock = [p \in Procs |-> "none"] /\ pc = [p \in Procs |-> "off"]
    /\ wire = [p \in Procs |-> "none"] /\ to = [p \in Procs |-> NoOne]
    /\ backlog = [p \in Procs |-> <<>>] /\ reading = [p \in Procs |-> NoOne]
    /\ todo = [p \in Procs |-> <<>>] /\ contested = FALSE

Goto(p, where) == pc' = [pc EXCEPT ![p] = where]
Listener(p) == sock[p] = "listening" /\ path = p

----------------------------------------------------------------------------
(* The claim.                                                                 *)

Launch(p) ==
    /\ pc[p] = "off" /\ Goto(p, "bind")
    /\ UNCHANGED <<path, sock, wire, to, served, panel>>

TakePath(p) ==
    /\ path = NoOne /\ path' = p
    /\ sock' = [sock EXCEPT ![p] = "bound"] /\ Goto(p, "listen")

\* Any error but AddrInUse: a launch that should have run runs alone.
Bind(p) ==
    /\ pc[p] = "bind"
    /\ \/ TakePath(p)
       \/ path # NoOne /\ Goto(p, "connect") /\ UNCHANGED <<path, sock>>
       \/ Goto(p, "build") /\ UNCHANGED <<path, sock>>
    /\ UNCHANGED <<wire, to, served, panel>>

Listen(p) ==
    /\ pc[p] = "listen" /\ Goto(p, "build")
    /\ sock' = [sock EXCEPT ![p] = "listening"]
    /\ UNCHANGED <<path, wire, to, served, panel>>

Reach(p, q) ==
    /\ Goto(p, "deliver") /\ to' = [to EXCEPT ![p] = q]
    /\ wire' = [wire EXCEPT ![p] = "open"]
    /\ backlog' = [backlog EXCEPT ![q] = Append(@, p)]

\* Mutant: what holds the path is taken for a socket left behind.
ConnectToNobody(p) ==
    /\ pc[p] = "connect" /\ Goto(p, "clear")
    /\ UNCHANGED <<path, sock, wire, to, served, panel>>

Connect(p) ==
    /\ pc[p] = "connect"
    /\ \/ \E q \in Procs : Listener(q) /\ Reach(p, q)
       \/ /\ ~\E q \in Procs : Listener(q)
          /\ Goto(p, "clear") /\ UNCHANGED <<wire, to, backlog>>
    /\ UNCHANGED <<path, sock, reading, todo, panel>>

\* A name already gone, or one that cannot be removed: it runs alone.
Clear(p) ==
    /\ pc[p] = "clear"
    /\ \/ path # NoOne /\ path' = NoOne /\ Goto(p, "rebind")
       \/ UNCHANGED path /\ Goto(p, "build")
    /\ UNCHANGED <<sock, wire, to, served, panel>>

Rebind(p) ==
    /\ pc[p] = "rebind"
    /\ \/ TakePath(p)
       \/ UNCHANGED <<path, sock>> /\ Goto(p, "build")
    /\ UNCHANGED <<wire, to, served, panel>>

\* A write that fails counts as delivered: the process is done.
Deliver(p) ==
    /\ pc[p] = "deliver" /\ Goto(p, "done")
    /\ wire' = [wire EXCEPT ![p] = IF @ = "open" THEN "spoken" ELSE @]
    /\ UNCHANGED <<path, sock, to, served, panel>>

----------------------------------------------------------------------------
(* The instance.                                                              *)

\* The store, the collector and the panel; the listener is served from here,
\* and a first press of the keybinding shows the panel before the loop runs.
Build(p) ==
    /\ pc[p] = "build" /\ Goto(p, "loop")
    /\ UNCHANGED <<path, sock, wire, to, served>>
    /\ \/ p = Here /\ Show
       \/ UNCHANGED panel

Accept(p) ==
    /\ pc[p] = "loop" /\ reading[p] = NoOne /\ backlog[p] # <<>>
    /\ reading' = [reading EXCEPT ![p] = Head(backlog[p])]
    /\ backlog' = [backlog EXCEPT ![p] = Tail(@)]
    /\ UNCHANGED <<path, sock, pc, wire, to, todo, panel>>

\* Mutant: the thread waits for a word for ever.
ReadOrWait(p) ==
    /\ reading[p] # NoOne /\ wire[reading[p]] # "open"
    /\ reading' = [reading EXCEPT ![p] = NoOne]
    /\ IF wire[reading[p]] = "spoken"
       THEN /\ todo' = [todo EXCEPT ![p] = Append(@, reading[p])]
            /\ wire' = [wire EXCEPT ![reading[p]] = "posted"]
       ELSE UNCHANGED <<todo, wire>>
    /\ UNCHANGED <<path, sock, pc, to, backlog, panel>>

\* A line, the end of a connection that said nothing, or READ_TIMEOUT.
ReadOne(p) ==
    /\ reading[p] # NoOne
    /\ reading' = [reading EXCEPT ![p] = NoOne]
    /\ LET q == reading[p]
       IN  \/ /\ wire[q] = "spoken" /\ wire' = [wire EXCEPT ![q] = "posted"]
              /\ todo' = [todo EXCEPT ![p] = Append(@, q)]
           \/ wire[q] = "closed" /\ UNCHANGED <<wire, todo>>
           \/ /\ wire[q] = "open" /\ wire' = [wire EXCEPT ![q] = "refused"]
              /\ UNCHANGED todo
    /\ UNCHANGED <<path, sock, pc, to, backlog, panel>>

\* The idle callback.
Act(p) ==
    /\ pc[p] = "loop" /\ todo[p] # <<>>
    /\ wire' = [wire EXCEPT ![Head(todo[p])] = "acted"]
    /\ todo' = [todo EXCEPT ![p] = Tail(@)]
    /\ UNCHANGED <<path, sock, pc, to, backlog, reading>>
    /\ IF p = Here THEN Toggle \/ Show ELSE UNCHANGED panel

OnScreen ==
    /\ pc[Here] = "loop" /\ PanelStep
    /\ UNCHANGED <<path, sock, pc, wire, to, served>>

\* Killed, crashed, or quit: the kernel closes what it held; the name stays.
Die(p) ==
    /\ pc[p] \in Running /\ Goto(p, "killed")
    /\ sock' = [sock EXCEPT ![p] = "none"]
    /\ wire' = [q \in Procs |->
           CASE q = p /\ wire[q] = "open" -> "closed"
             [] to[q] = p /\ wire[q] \in {"open", "spoken", "posted", "closed"} -> "lost"
             [] OTHER -> wire[q]]
    /\ backlog' = [backlog EXCEPT ![p] = <<>>]
    /\ reading' = [reading EXCEPT ![p] = NoOne]
    /\ todo' = [todo EXCEPT ![p] = <<>>]
    /\ UNCHANGED <<path, to>>
    /\ IF p = Here THEN NoPanel ELSE UNCHANGED panel

----------------------------------------------------------------------------
Contest ==
    /\ \E p, q \in Procs : p # q /\ pc[p] \in Claiming /\ pc[q] \in Claiming
    /\ ~\E p \in Procs : Listener(p)

Claim(p) == Bind(p) \/ Listen(p) \/ Connect(p) \/ Clear(p) \/ Rebind(p)
Serve(p) == Accept(p) \/ ReadOne(p)

Steps ==
    \/ \E p \in Procs :
           Launch(p) \/ Claim(p) \/ Deliver(p) \/ Build(p) \/ Serve(p) \/ Act(p) \/ Die(p)
    \/ OnScreen

Noted(step) == step /\ contested' = (contested \/ Contest')

Next == Noted(Steps)

Spec == Init /\ [][Next]_vars

\* A claim goes on, a start-up ends, and the two loops of the instance run; a
\* process that has connected may take for ever to say its word. A leave's timer
\* fires. What the user and the compositor do, they need not.
Waited ==
    /\ pc[Here] = "loop" /\ LeaveWaited
    /\ UNCHANGED <<path, sock, pc, wire, to, served>>

Fairness ==
    /\ \A p \in Procs :
           /\ WF_vars(Noted(Claim(p))) /\ WF_vars(Noted(Build(p)))
           /\ WF_vars(Noted(Serve(p))) /\ WF_vars(Noted(Act(p)))
    /\ WF_vars(Noted(Waited))

FairSpec == Spec /\ Fairness

----------------------------------------------------------------------------
(* Properties.                                                                *)

\* "what keeps a live socket from being unlinked out from under its owner":
\* whoever listens is who the next launch finds.
LiveSocketStays == \A p \in Procs : sock[p] = "listening" => path = p

\* However many launches meet an instance that listens, and whenever it dies,
\* there is one instance and the path leads to it, unless two claims met while
\* nobody listened.
UncontestedSocketStays == ~contested => LiveSocketStays

\* "Accepts are served one at a time on a single thread, so a client that
\* connects and stalls would otherwise wedge every later keypress": a word that
\* was said is acted on, unless the instance died.
WordsAreActedOn == \A p \in Procs : wire[p] = "spoken" ~> wire[p] \in {"acted", "lost"}
=============================================================================
