----------------------------- MODULE FiguresProofs -----------------------------
(* What the figures promise, proved: the last copy of a file stays, whatever   *)
(* others do to the disk; the watchers blame no one for what was not burnt and *)
(* their verdicts are those of the hour; a banner is news; the charts and the  *)
(* cup keep their word over sleeps and set clocks; a rate is of one process    *)
(* and a row of the history is what was burnt; the rows of the growth count    *)
(* nothing twice and leave nothing out; and what the moves are said to free is *)
(* freed. The sums that the last three are about have a section of their own.  *)
EXTENDS Figures, Sequences, FiniteSetTheorems, WellFoundedInduction, TLAPS

----------------------------------------------------------------------------
(* The duplicate search (Dupes): what was read of a file holds as long as the *)
(* file's clock stands where the walk saw it.                                 *)

Clocked == [data : Contents, time : Nat, store : DOMAIN Bytes]
Sizes == {Bytes[s] : s \in DOMAIN Bytes}
Candidate ==
    [file : Files, len : Nat, time : Nat, bytes : Sizes, linked : BOOLEAN,
     head : {HeadOf(c) : c \in Contents} \cup {Unread}, whole : Contents \cup {Unread}]
DupeFile ==
    [path : Paths, bytes : Sizes, time : Nat, linked : BOOLEAN, shares : BOOLEAN,
     store : DOMAIN Bytes \cup {Gone}]

\* A path shows a file whose clock stands at t.
Fresh(p, t) == There(p) /\ file[At(p)].time = t

DiskOK ==
    /\ edits \in Nat
    /\ entry \in [Entries -> Files \cup {Gone}]
    /\ \A e \in Entries : entry[e] # Gone => entry[e] \in DOMAIN file
    /\ \A f \in DOMAIN file : file[f] \in Clocked /\ file[f].time <= edits

\* One candidate per file, as the file is or as it was.
Candidates ==
    /\ DOMAIN cand \subseteq Paths /\ todo \subseteq Paths
    /\ \A p \in DOMAIN cand :
          /\ cand[p] \in Candidate /\ cand[p].time <= edits
          /\ There(p) => cand[p].file = At(p)
    /\ \A p, q \in DOMAIN cand : cand[p].file = cand[q].file => p = q

\* What was read of a file whose clock did not move is what it holds.
WasRead(c, data) ==
    /\ c.len = Length(data)
    /\ c.head \in {Unread, HeadOf(data)} /\ c.whole \in {Unread, data}
ReadingHolds ==
    \A p \in DOMAIN cand :
        Fresh(p, cand[p].time) => WasRead(cand[p], file[At(p)].data)

\* What each pass has read when it is through.
PassesRead ==
    /\ phase = "heads" =>
          \A p \in DOMAIN cand : p \notin todo => cand[p].head # Unread
    /\ phase = "whole" =>
          \A p \in DOMAIN cand :
              /\ cand[p].head # Unread
              /\ cand[p].len > HeadBytes /\ p \notin todo => cand[p].whole # Unread

\* Copies of one content, in files of their own.
Copies(some) ==
    /\ some \subseteq DupeFile
    /\ \A f \in some : f.time <= edits
    /\ \A f, h \in some :
          /\ f.path = h.path => f = h
          /\ There(f.path) /\ There(h.path) /\ At(f.path) = At(h.path) => f.path = h.path
          /\ Fresh(f.path, f.time) /\ Fresh(h.path, h.time) =>
                 file[At(f.path)].data = file[At(h.path)].data
Grouped(g) == DOMAIN g = {"len", "files", "reclaimable"} /\ Copies(g.files)

IndInv ==
    /\ DiskOK /\ Candidates /\ ReadingHolds /\ PassesRead
    /\ \A g \in groups : Grouped(g)

\* A move under way, in the words of its looks: a copy of the group that has not been
\* written to since the search holds what the one that goes held when it was looked at;
\* and so do that one and another, as long as nobody has written since.
LookKept(m) ==
    /\ DOMAIN m = {"group", "copy", "spare", "was", "since", "twins"}
    /\ m.group \in groups /\ m.copy \in m.group.files
    /\ m.since \in Nat /\ m.since <= edits
    /\ \A g \in m.group.files \ {m.copy} :
          Fresh(g.path, g.time) =>
              Shows[g.path] # Shows[m.copy.path] /\ file[At(g.path)].data = m.was
    /\ m.spare => m.twins # {}
    /\ edits = m.since =>
          /\ There(m.copy.path) /\ file[At(m.copy.path)].data = m.was
          /\ m.spare => Holders(m.was, Shows[m.copy.path]) # {}
LooksKept == moving # {} => phase = "ready" /\ \A m \in moving : LookKept(m)

----------------------------------------------------------------------------
(* The groups.                                                                *)

LEMMA Settled ==
  ASSUME NEW g, Grouped(g)
  PROVE  Grouped(Settle(g))
  <1> DEFINE Shares(f) == \E h \in g.files : h # f /\ h.store = f.store
             Mark(f) == [f EXCEPT !.shares = Shares(f)]
  <1>1. Settle(g).files = {Mark(f) : f \in g.files}
        /\ DOMAIN Settle(g) = {"len", "files", "reclaimable"}
    BY DEF Settle, Grouped
  <1>2. \A f \in g.files : Mark(f) \in DupeFile /\ Mark(f).path = f.path /\ Mark(f).time = f.time
    <2> SUFFICES ASSUME NEW f \in g.files
                 PROVE  Mark(f) \in DupeFile /\ Mark(f).path = f.path /\ Mark(f).time = f.time
      OBVIOUS
    <2>1. f \in DupeFile
      BY DEF Grouped, Copies
    <2>2. Shares(f) \in BOOLEAN
      OBVIOUS
    <2> HIDE DEF Shares
    <2> QED BY <2>1, <2>2 DEF DupeFile
  <1> HIDE DEF Mark
  <1>3. \A m \in Settle(g).files : \E f \in g.files :
            m = Mark(f) /\ m \in DupeFile /\ m.path = f.path /\ m.time = f.time
    BY <1>1, <1>2
  <1>4. Copies(Settle(g).files)
    <2>1. Settle(g).files \subseteq DupeFile /\ \A m \in Settle(g).files : m.time <= edits
      BY <1>3 DEF Grouped, Copies
    <2>2. ASSUME NEW m \in Settle(g).files, NEW n \in Settle(g).files
          PROVE  /\ m.path = n.path => m = n
                 /\ There(m.path) /\ There(n.path) /\ At(m.path) = At(n.path) => m.path = n.path
                 /\ Fresh(m.path, m.time) /\ Fresh(n.path, n.time) =>
                        file[At(m.path)].data = file[At(n.path)].data
      <3>1. PICK f \in g.files : m = Mark(f) /\ m.path = f.path /\ m.time = f.time
        BY <1>3
      <3>2. PICK h \in g.files : n = Mark(h) /\ n.path = h.path /\ n.time = h.time
        BY <1>3
      <3> QED BY <3>1, <3>2 DEF Grouped, Copies
    <2> QED BY <2>1, <2>2 DEF Copies
  <1> QED BY <1>1, <1>4 DEF Grouped

\* A group without one of its paths.
Less(h, path) == [h EXCEPT !.files = {f \in @ : f.path # path}]

LEMMA LessIsGrouped ==
  ASSUME NEW path, NEW h, Grouped(h)
  PROVE  Grouped(Less(h, path)) /\ Less(h, path).files = {f \in h.files : f.path # path}
  <1> DEFINE left == Less(h, path)
  <1>1. DOMAIN left = {"len", "files", "reclaimable"}
        /\ left.files = {f \in h.files : f.path # path}
    BY DEF Grouped, Less
  <1> HIDE DEF left
  <1>2. left.files \subseteq h.files
    BY <1>1
  <1>3. Copies(left.files)
    BY <1>2 DEF Grouped, Copies
  <1>4. Grouped(left)
    BY <1>1, <1>3 DEF Grouped
  <1> QED BY <1>1, <1>4 DEF left

LEMMA Removed ==
  ASSUME NEW path, \A g \in groups : Grouped(g)
  PROVE  \A g \in Remove(path) : Grouped(g)
  <1>1. \A g \in Remove(path) : \E h \in groups : g = Settle(Less(h, path))
    BY DEF Remove, Less
  <1>2. \A h \in groups : Grouped(Less(h, path))
    BY LessIsGrouped
  <1> QED BY <1>1, <1>2, Settled

----------------------------------------------------------------------------
(* The disk moves on.                                                         *)

\* Names only go, and a file that is written gets a clock never seen before.
MovesOn ==
    /\ edits' \in Nat /\ edits <= edits'
    /\ \A e \in Entries : entry'[e] \in {entry[e], Gone}
    /\ \A f \in DOMAIN file :
          f \in DOMAIN file' /\ (file'[f] = file[f] \/ file'[f].time > edits)

LEMMA StillFresh ==
  ASSUME DiskOK, MovesOn, NEW p \in Paths, NEW t \in Nat, t <= edits
  PROVE  /\ There(p)' => There(p) /\ At(p)' = At(p)
         /\ Fresh(p, t)' => Fresh(p, t) /\ At(p)' = At(p) /\ file'[At(p)] = file[At(p)]
  <1>1. Shows[p] \in Entries
    BY ShowsEntries
  <1>2. There(p)' => There(p) /\ At(p)' = At(p)
    BY <1>1 DEF There, At, MovesOn
  <1>3. There(p) => At(p) \in DOMAIN file
    BY <1>1 DEF There, At, DiskOK
  <1>4. ASSUME Fresh(p, t)'
        PROVE  Fresh(p, t) /\ At(p)' = At(p) /\ file'[At(p)] = file[At(p)]
    <2>1. There(p) /\ At(p)' = At(p) /\ file'[At(p)].time = t
      BY <1>2, <1>4 DEF Fresh
    <2>2. ~(file'[At(p)].time > edits)
      BY <2>1 DEF DiskOK
    <2>3. file'[At(p)] = file[At(p)]
      BY <1>3, <2>1, <2>2 DEF MovesOn
    <2> QED BY <2>1, <2>3 DEF Fresh
  <1> QED BY <1>2, <1>4

LEMMA StillGrouped ==
  ASSUME DiskOK, MovesOn, NEW g, Grouped(g)
  PROVE  Grouped(g)'
  <1>1. \A f \in g.files : f.path \in Paths /\ f.time \in Nat /\ f.time <= edits
    BY DEF Grouped, Copies, DupeFile
  <1>2. \A f \in g.files : f.time <= edits'
    BY <1>1 DEF MovesOn, DiskOK
  <1>3. ASSUME NEW f \in g.files, NEW h \in g.files
        PROVE  /\ There(f.path)' /\ There(h.path)' /\ At(f.path)' = At(h.path)' => f.path = h.path
               /\ Fresh(f.path, f.time)' /\ Fresh(h.path, h.time)' =>
                      file'[At(f.path)'].data = file'[At(h.path)'].data
    <2>1. /\ There(f.path)' => There(f.path) /\ At(f.path)' = At(f.path)
          /\ Fresh(f.path, f.time)' => /\ Fresh(f.path, f.time) /\ At(f.path)' = At(f.path)
                                       /\ file'[At(f.path)] = file[At(f.path)]
      BY <1>1, StillFresh
    <2>2. /\ There(h.path)' => There(h.path) /\ At(h.path)' = At(h.path)
          /\ Fresh(h.path, h.time)' => /\ Fresh(h.path, h.time) /\ At(h.path)' = At(h.path)
                                       /\ file'[At(h.path)] = file[At(h.path)]
      BY <1>1, StillFresh
    <2> QED BY <2>1, <2>2 DEF Grouped, Copies
  <1>4. \A f, h \in g.files : f.path = h.path => f = h
    BY DEF Grouped, Copies
  <1> QED BY <1>2, <1>3, <1>4 DEF Grouped, Copies

LEMMA StillRead ==
  ASSUME IndInv, MovesOn, UNCHANGED <<cand, todo, phase>>
  PROVE  (Candidates /\ ReadingHolds /\ PassesRead)'
  <1>1. \A p \in DOMAIN cand : p \in Paths /\ cand[p].time \in Nat /\ cand[p].time <= edits
    BY DEF IndInv, Candidates, Candidate
  <1>2. ASSUME NEW p \in DOMAIN cand
        PROVE  /\ There(p)' => There(p) /\ At(p)' = At(p)
               /\ Fresh(p, cand[p].time)' =>
                      /\ Fresh(p, cand[p].time) /\ At(p)' = At(p)
                      /\ file'[At(p)] = file[At(p)]
    BY <1>1, StillFresh DEF IndInv
  <1>3. Candidates'
    <2>1. \A p \in DOMAIN cand : cand[p].time <= edits'
      BY <1>1 DEF MovesOn, IndInv, DiskOK
    <2>2. \A p \in DOMAIN cand : There(p)' => cand[p].file = At(p)'
      BY <1>2 DEF IndInv, Candidates
    <2> QED BY <2>1, <2>2 DEF IndInv, Candidates
  <1>4. ReadingHolds'
    BY <1>2 DEF IndInv, ReadingHolds
  <1>5. PassesRead'
    BY DEF IndInv, PassesRead
  <1> QED BY <1>3, <1>4, <1>5

----------------------------------------------------------------------------
(* The steps.                                                                 *)

LEMMA Starts == Init => IndInv
  <1> SUFFICES ASSUME Init PROVE IndInv
    OBVIOUS
  <1>1. PICK w \in Worlds : entry = w.entry /\ file = w.file
    BY DEF Init
  <1>2. DiskOK
    <2>1. w.entry \in [Entries -> Files] /\ DOMAIN w.file = {w.entry[e] : e \in Entries}
      BY WorldsAreSound DEF Sound
    <2>2. \A f \in DOMAIN w.file :
              w.file[f] \in [data : Contents, time : {0}, store : DOMAIN Bytes]
      BY WorldsAreSound
    <2>3. \A f \in DOMAIN file : file[f] \in Clocked /\ file[f].time <= 0
      BY <1>1, <2>2 DEF Clocked
    <2> QED BY <1>1, <2>1, <2>3 DEF Init, DiskOK
  <1>3. DOMAIN cand = {}
    BY DEF Init
  <1> QED BY <1>2, <1>3 DEF Init, IndInv, Candidates, ReadingHolds, PassesRead

\* A step that leaves the disk alone.
LEMMA Undisturbed ==
  ASSUME IndInv, UNCHANGED <<world, edits>>
  PROVE  /\ DiskOK'
         /\ \A p : There(p)' <=> There(p)
         /\ \A p : At(p)' = At(p)
         /\ \A p, t : Fresh(p, t)' <=> Fresh(p, t)
         /\ \A g : Grouped(g)' <=> Grouped(g)
  BY DEF IndInv, DiskOK, world, There, At, Fresh, Grouped, Copies

\* The search puts its candidates away.
LEMMA PutAway ==
  ASSUME IndInv, UNCHANGED <<world, edits>>, DOMAIN cand' = {}, todo' \subseteq Paths
  PROVE  (DiskOK /\ Candidates /\ ReadingHolds /\ PassesRead)'
  BY Undisturbed DEF Candidates, ReadingHolds, PassesRead

LEMMA Kept1 ==
  ASSUME IndInv, UNCHANGED <<world, edits, groups>>, NEW set \in SUBSET DOMAIN cand,
         cand' = Only(set), todo' \subseteq Paths
  PROVE  /\ (DiskOK /\ Candidates /\ ReadingHolds)' /\ (\A g \in groups : Grouped(g))'
         /\ DOMAIN cand' = set /\ \A p \in set : cand'[p] = cand[p]
  <1>1. DOMAIN cand' = set /\ \A p \in set : cand'[p] = cand[p]
    BY DEF Only
  <1>2. Candidates'
    BY <1>1, Undisturbed DEF IndInv, Candidates
  <1>3. ReadingHolds'
    BY <1>1, Undisturbed DEF IndInv, ReadingHolds, world
  <1> QED BY <1>1, <1>2, <1>3, Undisturbed DEF IndInv

LEMMA StatFits ==
  ASSUME IndInv, NEW p \in Paths, There(p)
  PROVE  /\ Stat(p) \in Candidate /\ Stat(p).time <= edits /\ Stat(p).file = At(p)
         /\ Stat(p).time = file[At(p)].time
         /\ WasRead(Stat(p), file[At(p)].data)
  <1>1. At(p) \in Files /\ At(p) \in DOMAIN file
    BY ShowsEntries DEF IndInv, DiskOK, There, At
  <1>2. file[At(p)] \in Clocked /\ file[At(p)].time <= edits
    BY <1>1 DEF IndInv, DiskOK
  <1>3. Linked(At(p)) \in BOOLEAN
    BY DEF Linked
  <1>4. Length(file[At(p)].data) \in Nat
    BY <1>2, ContentsAreRead DEF Clocked
  <1>5. Bytes[file[At(p)].store] \in Sizes
    BY <1>2 DEF Clocked, Sizes
  <1> HIDE DEF Linked, Length
  <1> QED BY <1>1, <1>2, <1>3, <1>4, <1>5 DEF Stat, Candidate, Clocked, WasRead

LEMMA WalkKeeps == ASSUME IndInv, NEW p \in Paths, WalkEntry(p) PROVE IndInv'
  <1>1. UNCHANGED <<world, edits, groups, phase>> /\ todo' \subseteq Paths /\ phase = "walk"
    BY DEF WalkEntry, IndInv, Candidates
  <1>2. PassesRead'
    BY <1>1 DEF PassesRead
  <1>3. CASE ~Listed(p)
    <2>1. DOMAIN cand \cup (IF Listed(p) THEN {p} ELSE {}) = DOMAIN cand
      BY <1>3
    <2>2. cand' = Only(DOMAIN cand)
      BY <2>1 DEF WalkEntry, Only
    <2> QED BY <1>1, <1>2, <2>2, Kept1 DEF IndInv
  <1>4. CASE Listed(p)
    <2>2. There(p) /\ \A q \in DOMAIN cand : cand[q].file # At(p)
      BY <1>4 DEF Listed
    <2>5. p \notin DOMAIN cand
      BY <2>2 DEF IndInv, Candidates
    <2>1. /\ DOMAIN cand' = DOMAIN cand \cup {p}
          /\ \A q \in DOMAIN cand' : cand'[q] = IF q = p THEN Stat(p) ELSE cand[q]
      BY <1>4, <2>5 DEF WalkEntry
    <2>3. /\ Stat(p) \in Candidate /\ Stat(p).time <= edits /\ Stat(p).file = At(p)
          /\ Stat(p).time = file[At(p)].time
          /\ WasRead(Stat(p), file[At(p)].data)
      BY <2>2, StatFits
    <2> HIDE DEF Stat
    <2>4. Candidates'
      BY <1>1, <2>1, <2>2, <2>3, Undisturbed DEF IndInv, Candidates
    <2>6. ReadingHolds'
      <3>1. \A q \in DOMAIN cand : Fresh(q, cand[q].time) => WasRead(cand[q], file[At(q)].data)
        BY DEF IndInv, ReadingHolds
      <3>2. file' = file
        BY <1>1 DEF world
      <3>3. \A q : At(q)' = At(q) /\ (There(q)' <=> There(q))
        BY <1>1, Undisturbed
      <3>4. ASSUME NEW q \in DOMAIN cand', There(q)', file'[At(q)'].time = cand'[q].time
            PROVE  WasRead(cand'[q], file'[At(q)'].data)
        <4>1. Fresh(q, cand'[q].time)
          BY <3>2, <3>3, <3>4 DEF Fresh
        <4>2. WasRead(cand'[q], file[At(q)].data)
          BY <2>1, <2>3, <3>1, <4>1
        <4> QED BY <3>2, <3>3, <4>2
      <3> QED BY <3>4 DEF ReadingHolds, Fresh
    <2> QED BY <1>1, <1>2, <2>4, <2>6, Undisturbed DEF IndInv
  <1> QED BY <1>3, <1>4

LEMMA LengthKeeps == ASSUME IndInv, PassLength PROVE IndInv'
  <1>1. Kept(ByLength) \in SUBSET DOMAIN cand /\ Kept(ByLength) \subseteq Paths
    BY DEF Kept, IndInv, Candidates
  <1>2. UNCHANGED <<world, edits, groups>> /\ cand' = Only(Kept(ByLength))
        /\ todo' = Kept(ByLength) /\ phase' = "heads"
    BY DEF PassLength
  <1> HIDE DEF Kept
  <1>3. PassesRead'
    BY <1>1, <1>2, Kept1 DEF PassesRead
  <1> QED BY <1>1, <1>2, <1>3, Kept1 DEF IndInv

LEMMA HeadsKeep == ASSUME IndInv, PassHead PROVE IndInv'
  <1>1. Kept(ByHead) \in SUBSET DOMAIN cand /\ Kept(ByHead) \subseteq Paths
    BY DEF Kept, IndInv, Candidates
  <1>2. /\ UNCHANGED <<world, edits, groups>> /\ cand' = Only(Kept(ByHead)) /\ phase' = "whole"
        /\ todo' = {p \in Kept(ByHead) : cand[p].len > HeadBytes}
        /\ phase = "heads" /\ todo = {}
    BY DEF PassHead
  <1> HIDE DEF Kept
  <1>3. DOMAIN cand' = Kept(ByHead) /\ \A p \in Kept(ByHead) : cand'[p] = cand[p]
    BY <1>1, <1>2, Kept1
  <1>4. PassesRead'
    BY <1>1, <1>2, <1>3 DEF PassesRead, IndInv
  <1> QED BY <1>1, <1>2, <1>4, Kept1 DEF IndInv

\* What is read of a candidate is what its file holds now; one that cannot be read
\* leaves.
LEMMA ReadKeeps ==
  ASSUME IndInv, UNCHANGED <<world, edits, groups, phase>>, NEW p \in DOMAIN cand, There(p),
         todo' \subseteq Paths,
         DOMAIN cand' = DOMAIN cand,
         \A q \in DOMAIN cand : q # p => cand'[q] = cand[q],
         cand'[p] \in Candidate,
         cand'[p].file = cand[p].file, cand'[p].time = cand[p].time, cand'[p].len = cand[p].len,
         cand'[p].head \in {cand[p].head, HeadOf(file[At(p)].data)},
         cand'[p].whole \in {cand[p].whole, file[At(p)].data}
  PROVE  Candidates' /\ ReadingHolds'
  <1>1. \A q \in DOMAIN cand :
            /\ cand'[q] \in Candidate
            /\ cand'[q].file = cand[q].file /\ cand'[q].time = cand[q].time
    BY DEF IndInv, Candidates
  <1>2. Candidates'
    <2>1. edits' = edits /\ \A q : At(q)' = At(q) /\ (There(q)' <=> There(q))
      BY Undisturbed
    <2> QED BY <1>1, <2>1 DEF IndInv, Candidates
  <1>3. ReadingHolds'
    <2>1. \A q \in DOMAIN cand : Fresh(q, cand[q].time) => WasRead(cand[q], file[At(q)].data)
      BY DEF IndInv, ReadingHolds
    <2>2. file' = file /\ \A q : At(q)' = At(q) /\ (There(q)' <=> There(q))
      BY Undisturbed DEF world
    <2>3. ASSUME NEW q \in DOMAIN cand, There(q)', file'[At(q)'].time = cand'[q].time
          PROVE  WasRead(cand'[q], file'[At(q)'].data)
      <3>1. Fresh(q, cand[q].time)
        BY <1>1, <2>2, <2>3 DEF Fresh
      <3>2. WasRead(cand[q], file[At(q)].data)
        BY <2>1, <3>1
      <3>3. WasRead(cand'[q], file[At(q)].data)
        BY <3>2 DEF WasRead
      <3> QED BY <2>2, <3>3
    <2> QED BY <2>3 DEF ReadingHolds, Fresh
  <1> QED BY <1>2, <1>3

LEMMA HashHeadKeeps == ASSUME IndInv, NEW p \in Paths, HashHead(p) PROVE IndInv'
  <1>1. /\ UNCHANGED <<world, edits, groups, phase>> /\ phase = "heads"
        /\ todo' = todo \ {p} /\ todo' \subseteq Paths
    BY DEF HashHead, IndInv, Candidates
  <1>2. CASE There(p) /\ p \in DOMAIN cand
    <2> DEFINE head == HeadOf(file[At(p)].data)
    <2>1. cand' = [cand EXCEPT ![p].head = head]
      BY <1>2 DEF HashHead
    <2>2. file[At(p)].data \in Contents
      BY <1>2, ShowsEntries DEF IndInv, DiskOK, There, At, Clocked
    <2>3. head # Unread
      BY <2>2, ContentsAreRead
    <2> HIDE DEF head
    <2>4. cand[p] \in Candidate
      BY <1>2 DEF IndInv, Candidates
    <2>5. /\ DOMAIN cand' = DOMAIN cand /\ \A q \in DOMAIN cand : q # p => cand'[q] = cand[q]
          /\ cand'[p] = [cand[p] EXCEPT !.head = head]
      BY <1>2, <2>1
    <2>6. /\ cand'[p] \in Candidate /\ cand'[p].head = head
          /\ cand'[p].file = cand[p].file /\ cand'[p].time = cand[p].time
          /\ cand'[p].len = cand[p].len /\ cand'[p].whole = cand[p].whole
      <3>1. head \in {HeadOf(c) : c \in Contents} \cup {Unread}
        BY <2>2 DEF head
      <3> QED BY <2>4, <2>5, <3>1 DEF Candidate
    <2>7. Candidates' /\ ReadingHolds'
      BY <1>1, <1>2, <2>5, <2>6, ReadKeeps DEF head
    <2>8. PassesRead'
      BY <1>1, <2>3, <2>5, <2>6 DEF PassesRead, IndInv
    <2> QED BY <1>1, <2>7, <2>8, Undisturbed DEF IndInv
  <1>3. CASE There(p) /\ p \notin DOMAIN cand
    <2>1. cand' = Only(DOMAIN cand)
      BY <1>3 DEF HashHead, Only
    <2>2. PassesRead'
      BY <1>1, <1>3, <2>1, Kept1 DEF PassesRead, IndInv
    <2> QED BY <1>1, <2>1, <2>2, Kept1 DEF IndInv
  <1>4. CASE ~There(p)
    <2>1. cand' = Only(DOMAIN cand \ {p})
      BY <1>4 DEF HashHead
    <2>2. PassesRead'
      BY <1>1, <2>1, Kept1 DEF PassesRead, IndInv
    <2> QED BY <1>1, <2>1, <2>2, Kept1 DEF IndInv
  <1> QED BY <1>2, <1>3, <1>4

LEMMA HashFileKeeps == ASSUME IndInv, NEW p \in Paths, HashFile(p) PROVE IndInv'
  <1>1. /\ UNCHANGED <<world, edits, groups, phase>> /\ phase = "whole"
        /\ todo' = todo \ {p} /\ todo' \subseteq Paths
    BY DEF HashFile, IndInv, Candidates
  <1>2. CASE There(p) /\ p \in DOMAIN cand
    <2> DEFINE whole == file[At(p)].data
    <2>1. cand' = [cand EXCEPT ![p].whole = whole]
      BY <1>2 DEF HashFile
    <2>2. whole \in Contents
      BY <1>2, ShowsEntries DEF IndInv, DiskOK, There, At, Clocked
    <2>3. whole # Unread
      BY <2>2, ContentsAreRead
    <2> HIDE DEF whole
    <2>4. cand[p] \in Candidate
      BY <1>2 DEF IndInv, Candidates
    <2>5. /\ DOMAIN cand' = DOMAIN cand /\ \A q \in DOMAIN cand : q # p => cand'[q] = cand[q]
          /\ cand'[p] = [cand[p] EXCEPT !.whole = whole]
      BY <1>2, <2>1
    <2>6. /\ cand'[p] \in Candidate /\ cand'[p].head = cand[p].head
          /\ cand'[p].file = cand[p].file /\ cand'[p].time = cand[p].time
          /\ cand'[p].len = cand[p].len /\ cand'[p].whole = whole
      BY <2>2, <2>4, <2>5 DEF Candidate
    <2>7. Candidates' /\ ReadingHolds'
      BY <1>1, <1>2, <2>5, <2>6, ReadKeeps DEF whole
    <2>8. PassesRead'
      <3>1. \A q \in DOMAIN cand :
                /\ cand[q].head # Unread
                /\ cand[q].len > HeadBytes /\ q \notin todo => cand[q].whole # Unread
        BY <1>1 DEF PassesRead, IndInv
      <3>2. ASSUME NEW q \in DOMAIN cand
            PROVE  /\ cand'[q].head # Unread
                   /\ cand'[q].len > HeadBytes /\ q \notin todo' => cand'[q].whole # Unread
        <4>1. CASE q = p
          BY <2>3, <2>6, <3>1, <4>1
        <4>2. CASE q # p
          <5>1. cand'[q] = cand[q] /\ (q \notin todo' => q \notin todo)
            BY <1>1, <2>5, <4>2
          <5> QED BY <3>1, <5>1
        <4> QED BY <4>1, <4>2
      <3> QED BY <1>1, <2>5, <3>2 DEF PassesRead
    <2> QED BY <1>1, <2>7, <2>8, Undisturbed DEF IndInv
  <1>3. CASE There(p) /\ p \notin DOMAIN cand
    <2>1. cand' = Only(DOMAIN cand)
      BY <1>3 DEF HashFile, Only
    <2>2. PassesRead'
      BY <1>1, <1>3, <2>1, Kept1 DEF PassesRead, IndInv
    <2> QED BY <1>1, <2>1, <2>2, Kept1 DEF IndInv
  <1>4. CASE ~There(p)
    <2>1. cand' = Only(DOMAIN cand \ {p})
      BY <1>4 DEF HashFile
    <2>2. PassesRead'
      <3>1. \A q \in DOMAIN cand :
                /\ cand[q].head # Unread
                /\ cand[q].len > HeadBytes /\ q \notin todo => cand[q].whole # Unread
        BY <1>1 DEF PassesRead, IndInv
      <3>2. /\ DOMAIN cand' = DOMAIN cand \ {p}
            /\ \A q \in DOMAIN cand' : cand'[q] = cand[q] /\ (q \notin todo' => q \notin todo)
        BY <1>1, <2>1 DEF Only
      <3> QED BY <1>1, <3>1, <3>2 DEF PassesRead
    <2> QED BY <1>1, <2>1, <2>2, Kept1 DEF IndInv
  <1> QED BY <1>2, <1>3, <1>4

\* The result: what shares a length, a head and, past the head, the whole.
\* The candidates that were read like one, and their group before it is settled.
ReadLike(p) == {q \in Kept(ByContent) : ByContent(q) = ByContent(p)}
Unsettled(p) == [len |-> cand[p].len, files |-> {Copy(q) : q \in ReadLike(p)}, reclaimable |-> 0]

LEMMA ContentGroups ==
  ASSUME IndInv, PassContent
  PROVE  /\ groups' = {Settle(Unsettled(p)) : p \in Kept(ByContent)}
         /\ \A p \in Kept(ByContent) : Grouped(Unsettled(p))
  <1>1. /\ phase = "whole" /\ todo = {}
        /\ groups' = {Group(ReadLike(p), cand[p].len) : p \in Kept(ByContent)}
    BY DEF PassContent, ReadLike
  <1>2. \A p \in Kept(ByContent) : Group(ReadLike(p), cand[p].len) = Settle(Unsettled(p))
    BY DEF Group, Unsettled
  <1>3. Kept(ByContent) \subseteq DOMAIN cand /\ DOMAIN cand \subseteq Paths
    BY DEF Kept, IndInv, Candidates
  <1> HIDE DEF Kept, Group
  <1>4. \A q \in DOMAIN cand :
            /\ Copy(q) \in DupeFile /\ Copy(q).path = q
            /\ Copy(q).time = cand[q].time /\ cand[q].time <= edits
    <2> SUFFICES ASSUME NEW q \in DOMAIN cand
                 PROVE  /\ Copy(q) \in DupeFile /\ Copy(q).path = q
                        /\ Copy(q).time = cand[q].time /\ cand[q].time <= edits
      OBVIOUS
    <2>1. cand[q] \in Candidate /\ cand[q].time <= edits /\ q \in Paths
      BY DEF IndInv, Candidates
    <2>2. There(q) => file[At(q)] \in Clocked
      BY <2>1, ShowsEntries DEF IndInv, DiskOK, There, At
    <2>3. (IF There(q) THEN file[At(q)].store ELSE Gone) \in DOMAIN Bytes \cup {Gone}
      BY <2>2 DEF Clocked
    <2> QED BY <2>1, <2>3 DEF Copy, CopyOf, DupeFile, Candidate
  <1>5. ASSUME NEW p \in DOMAIN cand, NEW q \in DOMAIN cand, ByContent(p) = ByContent(q),
               Fresh(p, cand[p].time), Fresh(q, cand[q].time)
        PROVE  file[At(p)].data = file[At(q)].data
    <2> DEFINE a == file[At(p)].data
               b == file[At(q)].data
    <2>1. a \in Contents /\ b \in Contents
      BY <1>3, <1>5, ShowsEntries DEF IndInv, DiskOK, There, At, Clocked, Fresh
    <2>2. WasRead(cand[p], a) /\ WasRead(cand[q], b)
      BY <1>5 DEF IndInv, ReadingHolds
    <2>3. cand[p].head # Unread /\ cand[q].head # Unread
      BY <1>1 DEF IndInv, PassesRead
    <2>4. cand[p].len = cand[q].len /\ cand[p].head = cand[q].head /\ cand[p].whole = cand[q].whole
      BY <1>5 DEF ByContent
    <2> HIDE DEF a, b
    <2>5. Length(a) = Length(b) /\ HeadOf(a) = HeadOf(b) /\ Length(a) = cand[p].len
      <3> HIDE DEF Length, HeadOf
      <3> QED BY <2>2, <2>3, <2>4 DEF WasRead
    <2>6. a = b
      <3>1. CASE Length(a) <= HeadBytes
        BY <2>1, <2>5, <3>1, HeadsAreWhole
      <3>2. CASE ~(Length(a) <= HeadBytes)
        <4>1. Length(a) > HeadBytes
          BY <2>1, <3>2, ContentsAreRead, HeadsAreWhole
        <4>2. cand[p].whole # Unread
          BY <1>1, <2>5, <4>1 DEF IndInv, PassesRead
        <4> QED BY <2>2, <2>4, <4>2 DEF WasRead
      <3> QED BY <3>1, <3>2
    <2> QED BY <2>6 DEF a, b
  <1>6. \A p \in Kept(ByContent) : Grouped(Unsettled(p))
    <2> SUFFICES ASSUME NEW p \in Kept(ByContent) PROVE Copies(Unsettled(p).files)
      BY DEF Grouped, Unsettled
    <2>1. \A f \in Unsettled(p).files : \E q \in DOMAIN cand :
              f = Copy(q) /\ f.path = q /\ f.time = cand[q].time /\ ByContent(q) = ByContent(p)
      BY <1>3, <1>4 DEF Unsettled, ReadLike
    <2>2. Unsettled(p).files \subseteq DupeFile /\ \A f \in Unsettled(p).files : f.time <= edits
      BY <1>4, <2>1
    <2>3. ASSUME NEW f \in Unsettled(p).files, NEW h \in Unsettled(p).files
          PROVE  /\ f.path = h.path => f = h
                 /\ There(f.path) /\ There(h.path) /\ At(f.path) = At(h.path) => f.path = h.path
                 /\ Fresh(f.path, f.time) /\ Fresh(h.path, h.time) =>
                        file[At(f.path)].data = file[At(h.path)].data
      <3>1. PICK q \in DOMAIN cand :
                f = Copy(q) /\ f.path = q /\ f.time = cand[q].time /\ ByContent(q) = ByContent(p)
        BY <2>1
      <3>2. PICK r \in DOMAIN cand :
                h = Copy(r) /\ h.path = r /\ h.time = cand[r].time /\ ByContent(r) = ByContent(p)
        BY <2>1
      <3>3. There(q) /\ There(r) /\ At(q) = At(r) => q = r
        BY DEF IndInv, Candidates
      <3> HIDE DEF Copy, ByContent
      <3> QED BY <1>5, <3>1, <3>2, <3>3
    <2> QED BY <2>2, <2>3 DEF Copies
  <1> QED
    BY <1>1, <1>2, <1>6

LEMMA ContentKeeps == ASSUME IndInv, PassContent PROVE IndInv'
  <1>1. UNCHANGED <<world, edits>> /\ phase' = "ready" /\ todo' = {} /\ cand' = << >>
    BY DEF PassContent
  <1>2. \A g \in groups' : Grouped(g)
    BY ContentGroups, Settled
  <1>3. (DiskOK /\ Candidates /\ ReadingHolds /\ PassesRead)'
    BY <1>1, PutAway
  <1> QED BY <1>1, <1>2, <1>3, Undisturbed DEF IndInv

\* A step of the disk.
LEMMA MovingKeeps ==
  ASSUME IndInv, MovesOn, DiskOK', UNCHANGED <<cand, todo, phase>>,
         \A g \in groups' : Grouped(g)
  PROVE  IndInv'
  <1>1. \A g \in groups' : Grouped(g)'
    BY StillGrouped DEF IndInv
  <1> QED BY <1>1, StillRead DEF IndInv

LEMMA MoveKeeps ==
  ASSUME IndInv, NEW g \in groups, NEW f \in g.files, Move(f)
  PROVE  IndInv'
  <1>1. f.path \in Paths /\ Shows[f.path] \in Entries
    BY ShowsEntries DEF IndInv, Grouped, Copies, DupeFile
  <1>2. /\ entry' = [entry EXCEPT ![Shows[f.path]] = Gone] /\ groups' = Remove(f.path)
        /\ UNCHANGED <<file, cand, todo, phase, edits>>
    BY DEF Move
  <1>3. MovesOn /\ DiskOK'
    BY <1>1, <1>2 DEF IndInv, DiskOK, MovesOn
  <1>4. \A h \in groups' : Grouped(h)
    BY <1>2, Removed DEF IndInv
  <1> QED BY <1>2, <1>3, <1>4, MovingKeeps

LEMMA NothingMoves ==
  ASSUME IndInv, UNCHANGED <<world, edits, cand, todo, phase, groups>>
  PROVE  IndInv'
  <1>1. MovesOn /\ DiskOK'
    BY DEF IndInv, DiskOK, MovesOn, world
  <1> QED BY <1>1, MovingKeeps DEF IndInv

LEMMA LooksOnly ==
  ASSUME NEW g, NEW f, LookAtCopy(g, f) \/ \E m \in moving : LookForOther(m)
  PROVE  UNCHANGED <<world, edits, cand, todo, phase, groups, freed, binned>>
  BY DEF LookAtCopy, LookForOther

LEMMA TrashKeeps ==
  ASSUME IndInv, LooksKept, NEW m \in moving, TrashCopy(m)
  PROVE  IndInv'
  <1>1. m.group \in groups /\ m.copy \in m.group.files
    BY DEF LooksKept, LookKept
  <1>2. CASE Move(m.copy)
    BY <1>1, <1>2, MoveKeeps
  <1>3. CASE ~Move(m.copy)
    BY <1>3, NothingMoves DEF TrashCopy
  <1> QED BY <1>2, <1>3

LEMMA EditsMoveOn ==
  ASSUME IndInv,
         \/ \E f \in DOMAIN file, c \in Contents : Edit(f, c)
         \/ \E e \in Entries : Delete(e)
  PROVE  MovesOn /\ edits' = edits + 1
  <1>1. ASSUME NEW f \in DOMAIN file, NEW c \in Contents, Edit(f, c)
        PROVE  MovesOn /\ edits' = edits + 1
    <2>1. /\ edits' = edits + 1 /\ file' = [file EXCEPT ![f].data = c, ![f].time = edits + 1]
          /\ UNCHANGED entry /\ edits \in Nat
      BY <1>1 DEF Edit, IndInv, DiskOK
    <2>2. /\ file'[f] = [file[f] EXCEPT !.data = c, !.time = edits + 1]
          /\ DOMAIN file' = DOMAIN file /\ \A h \in DOMAIN file : h # f => file'[h] = file[h]
      BY <2>1
    <2>3. file'[f].time = edits + 1
      BY <2>2 DEF IndInv, DiskOK, Clocked
    <2> QED BY <2>1, <2>2, <2>3 DEF MovesOn
  <1>2. ASSUME NEW e \in Entries, Delete(e) PROVE MovesOn /\ edits' = edits + 1
    BY <1>2 DEF Delete, IndInv, DiskOK, MovesOn
  <1> QED BY <1>1, <1>2

LEMMA OthersKeep ==
  ASSUME IndInv,
         \/ \E f \in DOMAIN file, c \in Contents : Edit(f, c)
         \/ \E e \in Entries : Delete(e)
  PROVE  IndInv'
  <1>1. ASSUME NEW f \in DOMAIN file, NEW c \in Contents, Edit(f, c)
        PROVE  IndInv'
    <2>1. /\ edits' = edits + 1 /\ file' = [file EXCEPT ![f].data = c, ![f].time = edits + 1]
          /\ UNCHANGED <<entry, cand, todo, phase, groups>>
      BY <1>1 DEF Edit
    <2>2. file[f] \in Clocked /\ edits \in Nat
      BY DEF IndInv, DiskOK
    <2>3. file'[f] \in Clocked /\ file'[f].time = edits + 1
          /\ DOMAIN file' = DOMAIN file /\ \A h \in DOMAIN file : h # f => file'[h] = file[h]
      <3>1. file'[f] = [file[f] EXCEPT !.data = c, !.time = edits + 1]
            /\ DOMAIN file' = DOMAIN file /\ \A h \in DOMAIN file : h # f => file'[h] = file[h]
        BY <2>1
      <3>2. edits + 1 \in Nat
        BY <2>2
      <3> QED BY <2>2, <3>1, <3>2 DEF Clocked
    <2>4. MovesOn
      BY <1>1, EditsMoveOn
    <2>5. DiskOK'
      <3>1. \A h \in DOMAIN file : file'[h] \in Clocked /\ file'[h].time <= edits'
        <4> SUFFICES ASSUME NEW h \in DOMAIN file
                     PROVE  file'[h] \in Clocked /\ file'[h].time <= edits'
          OBVIOUS
        <4>1. file[h] \in Clocked /\ file[h].time <= edits
          BY DEF IndInv, DiskOK
        <4>2. file[h].time \in Nat
          BY <4>1 DEF Clocked
        <4>3. CASE h = f
          BY <2>1, <2>2, <2>3, <4>3
        <4>4. CASE h # f
          BY <2>1, <2>2, <2>3, <4>1, <4>2, <4>4
        <4> QED BY <4>3, <4>4
      <3> QED BY <2>1, <2>2, <2>3, <3>1 DEF IndInv, DiskOK
    <2> QED BY <2>1, <2>4, <2>5, MovingKeeps DEF IndInv
  <1>2. ASSUME NEW e \in Entries, Delete(e)
        PROVE  IndInv'
    <2>1. /\ edits' = edits + 1 /\ entry' = [entry EXCEPT ![e] = Gone]
          /\ UNCHANGED <<file, cand, todo, phase, groups>>
      BY <1>2 DEF Delete
    <2>2. MovesOn
      BY <1>2, EditsMoveOn
    <2>3. DiskOK'
      <3>1. \A h \in DOMAIN file : file[h] \in Clocked /\ file[h].time \in Nat /\ file[h].time <= edits
        BY DEF IndInv, DiskOK, Clocked
      <3> QED BY <2>1, <3>1 DEF IndInv, DiskOK
    <2> QED BY <2>1, <2>2, <2>3, MovingKeeps DEF IndInv
  <1> QED BY <1>1, <1>2

LEMMA RestKeeps ==
  ASSUME IndInv, StartDupes \/ ClearDupes \/ UNCHANGED vars
  PROVE  IndInv'
  <1>1. CASE StartDupes
    <2>1. /\ UNCHANGED <<world, edits, groups, cand>> /\ phase' = "walk"
          /\ todo' \subseteq Paths
      BY <1>1 DEF StartDupes
    <2>2. cand' = Only(DOMAIN cand) \/ DOMAIN cand' = DOMAIN cand
      BY <2>1
    <2>3. Candidates' /\ ReadingHolds'
      BY <2>1, Undisturbed DEF IndInv, Candidates, ReadingHolds, world
    <2>4. PassesRead'
      BY <2>1 DEF PassesRead
    <2> QED BY <2>1, <2>3, <2>4, Undisturbed DEF IndInv
  <1>2. CASE ClearDupes
    <2>1. UNCHANGED <<world, edits>> /\ cand' = << >> /\ todo' = {} /\ groups' = {}
      BY <1>2 DEF ClearDupes
    <2> QED BY <2>1, PutAway DEF IndInv
  <1>3. CASE UNCHANGED vars
    BY <1>3 DEF vars, world, IndInv, DiskOK, Candidates, ReadingHolds, PassesRead, Grouped,
                Copies, Fresh, There, At
  <1> QED BY <1>1, <1>2, <1>3

----------------------------------------------------------------------------
(* The theorem.                                                               *)

LEMMA ReadingStaysTrue == ASSUME IndInv, LooksKept, [Next]_vars PROVE IndInv'
  <1>1. CASE StartDupes \/ ClearDupes \/ UNCHANGED vars
    BY <1>1, RestKeeps
  <1>2. CASE PassLength \/ PassHead \/ PassContent
    BY <1>2, LengthKeeps, HeadsKeep, ContentKeeps
  <1>3. ASSUME NEW p \in Paths, WalkEntry(p) \/ HashHead(p) \/ HashFile(p)
        PROVE  IndInv'
    BY <1>3, WalkKeeps, HashHeadKeeps, HashFileKeeps
  <1>4. ASSUME NEW g \in groups, NEW f \in g.files, LookAtCopy(g, f)
        PROVE  IndInv'
    BY <1>4, LooksOnly, NothingMoves
  <1>5. ASSUME NEW m \in moving, LookForOther(m) \/ TrashCopy(m)
        PROVE  IndInv'
    BY <1>5, LooksOnly, NothingMoves, TrashKeeps
  <1>6. CASE \/ \E f \in DOMAIN file, c \in Contents : Edit(f, c)
             \/ \E e \in Entries : Delete(e)
    BY <1>6, OthersKeep
  <1> QED BY <1>1, <1>2, <1>3, <1>4, <1>5, <1>6 DEF Next

\* What a look has seen stands as long as nobody writes.
LEMMA LookStays ==
  ASSUME IndInv, UNCHANGED <<world, edits, groups>>, NEW m, LookKept(m)
  PROVE  LookKept(m)'
  <1>1. UNCHANGED <<entry, file, edits, groups>>
    BY DEF world
  <1>2. \A p : (There(p)' <=> There(p)) /\ At(p)' = At(p)
    BY <1>1 DEF There, At
  <1>3. \A p, t : Fresh(p, t)' <=> Fresh(p, t)
    BY <1>1, <1>2 DEF Fresh
  <1>4. \A c, e : Holders(c, e)' = Holders(c, e)
    BY <1>1 DEF Holders
  <1> QED BY <1>1, <1>2, <1>3, <1>4 DEF LookKept

\* The looks. The copies of a group hold one content, as far as their clocks tell.
LEMMA FirstLook ==
  ASSUME IndInv, NEW g \in groups, NEW f \in g.files, LookAtCopy(g, f)
  PROVE  LooksKept'
  <1>1. CASE ~StillItself(f, g)
    BY <1>1 DEF LookAtCopy, LooksKept
  <1>2. CASE StillItself(f, g)
    <2>0. PICK m : m = [group |-> g, copy |-> f, spare |-> FALSE,
                        was |-> file[At(f.path)].data, since |-> edits, twins |-> {}]
      OBVIOUS
    <2>1. moving' = {m} /\ phase' = "ready" /\ UNCHANGED <<world, edits, groups>>
      BY <1>2, <2>0 DEF LookAtCopy
    <2>2. Fresh(f.path, f.time) /\ There(f.path)
      BY <1>2 DEF StillItself, Unchanged, Fresh
    <2>3. ASSUME NEW h \in g.files \ {f}, Fresh(h.path, h.time)
          PROVE  Shows[h.path] # Shows[f.path] /\ file[At(h.path)].data = m.was
      <3>1. file[At(h.path)].data = m.was
        BY <2>0, <2>2, <2>3 DEF IndInv, Grouped, Copies
      <3>2. At(f.path) # At(h.path)
        BY <2>2, <2>3 DEF IndInv, Grouped, Copies, Fresh
      <3> QED BY <3>1, <3>2 DEF At
    <2>4. edits \in Nat
      BY DEF IndInv, DiskOK
    <2>5. /\ DOMAIN m = {"group", "copy", "spare", "was", "since", "twins"}
          /\ m.group = g /\ m.copy = f /\ ~m.spare /\ m.since = edits
          /\ m.was = file[At(f.path)].data
      BY <2>0
    <2>6. LookKept(m)
      BY <2>2, <2>3, <2>4, <2>5 DEF LookKept
    <2>7. LookKept(m)'
      BY <2>1, <2>6, LookStays
    <2> QED BY <2>1, <2>7 DEF LooksKept
  <1> QED BY <1>1, <1>2

LEMMA SecondLook ==
  ASSUME IndInv, LooksKept, NEW m \in moving, LookForOther(m)
  PROVE  LooksKept'
  <1>1. CASE ~OtherStands(m.copy, m.group)
    BY <1>1 DEF LookForOther, LooksKept
  <1>2. CASE OtherStands(m.copy, m.group)
    <2> DEFINE e == Shows[m.copy.path]
    <2>0. PICK new : new = [m EXCEPT !.spare = TRUE, !.twins = Holders(m.was, e)]
      OBVIOUS
    <2>1. moving' = {new} /\ UNCHANGED <<world, edits, groups, phase>>
      BY <1>2, <2>0 DEF LookForOther
    <2>2. LookKept(m) /\ phase = "ready"
      BY DEF LooksKept
    <2>3. /\ DOMAIN new = {"group", "copy", "spare", "was", "since", "twins"}
          /\ new.group = m.group /\ new.copy = m.copy /\ new.was = m.was
          /\ new.since = m.since /\ new.twins = Holders(m.was, e)
      BY <2>0, <2>2 DEF LookKept
    <2>4. PICK h \in m.group.files \ {m.copy} : Unchanged(h, m.group.len)
      BY <1>2 DEF OtherStands
    <2>5. Fresh(h.path, h.time) /\ There(h.path)
      BY <2>4 DEF Unchanged, Fresh
    <2>6. Shows[h.path] # e /\ file[At(h.path)].data = m.was
      BY <2>2, <2>5 DEF LookKept
    <2>7. Shows[h.path] \in Entries
      BY <2>2, ShowsEntries DEF LookKept, IndInv, Grouped, Copies, DupeFile
    <2> HIDE DEF e
    <2>8. Holders(m.was, e) # {}
      <3>1. Shows[h.path] \in Holders(m.was, e)
        BY <2>5, <2>6, <2>7 DEF Holders, There, At
      <3> QED BY <3>1
    <2>9. LookKept(new)
      BY <2>2, <2>3, <2>8 DEF LookKept, e
    <2>10. LookKept(new)'
      BY <2>1, <2>9, LookStays
    <2> QED BY <2>1, <2>2, <2>10 DEF LooksKept
  <1> QED BY <1>1, <1>2

\* Others may write what they like: what is said of the looks is of files whose clocks
\* have not moved, or of a time when nobody wrote.
LEMMA LooksStand ==
  ASSUME IndInv, LooksKept, UNCHANGED <<moving, groups, phase>>,
         \/ \E f \in DOMAIN file, c \in Contents : Edit(f, c)
         \/ \E e \in Entries : Delete(e)
  PROVE  LooksKept'
  <1>1. MovesOn /\ edits' = edits + 1 /\ edits \in Nat
    BY EditsMoveOn DEF Edit, Delete, IndInv, DiskOK
  <1>2. ASSUME NEW m \in moving PROVE LookKept(m)'
    <2>1. LookKept(m)
      BY DEF LooksKept
    <2>2. m.since <= edits' /\ edits' # m.since /\ m.since \in Nat
      BY <1>1, <2>1 DEF LookKept
    <2>3. ASSUME NEW g \in m.group.files \ {m.copy}, Fresh(g.path, g.time)'
          PROVE  Shows[g.path] # Shows[m.copy.path] /\ file'[At(g.path)'].data = m.was
      <3>1. g.path \in Paths /\ g.time \in Nat /\ g.time <= edits
        BY <2>1 DEF LookKept, IndInv, Grouped, Copies, DupeFile
      <3>2. Fresh(g.path, g.time) /\ At(g.path)' = At(g.path) /\ file'[At(g.path)] = file[At(g.path)]
        BY <1>1, <2>3, <3>1, StillFresh DEF IndInv
      <3> QED BY <2>1, <3>2 DEF LookKept
    <2> QED BY <2>1, <2>2, <2>3 DEF LookKept
  <1> QED BY <1>2 DEF LooksKept

LEMMA LooksStayTrue == ASSUME IndInv, LooksKept, [Next]_vars PROVE LooksKept'
  <1>1. ASSUME \/ StartDupes \/ PassLength \/ PassHead \/ PassContent
               \/ \E p \in Paths : WalkEntry(p) \/ HashHead(p) \/ HashFile(p)
        PROVE  LooksKept'
    <2>1. phase # "ready" /\ moving' = moving
      BY <1>1 DEF StartDupes, PassLength, PassHead, PassContent, WalkEntry, HashHead, HashFile
    <2> QED BY <2>1 DEF LooksKept
  <1>2. CASE ClearDupes
    BY <1>2 DEF ClearDupes, LooksKept
  <1>3. ASSUME NEW g \in groups, NEW f \in g.files, LookAtCopy(g, f)
        PROVE  LooksKept'
    BY <1>3, FirstLook
  <1>4. ASSUME NEW m \in moving, LookForOther(m) PROVE LooksKept'
    BY <1>4, SecondLook
  <1>5. ASSUME NEW m \in moving, TrashCopy(m) PROVE LooksKept'
    BY <1>5 DEF TrashCopy, LooksKept
  <1>6. CASE \/ \E f \in DOMAIN file, c \in Contents : Edit(f, c)
             \/ \E e \in Entries : Delete(e)
    <2>1. UNCHANGED <<moving, groups, phase>>
      BY <1>6 DEF Edit, Delete
    <2> QED BY <1>6, <2>1, LooksStand
  <1>7. CASE UNCHANGED vars
    BY <1>7 DEF vars, world, LooksKept, LookKept, Holders, Fresh, There, At
  <1> QED BY <1>1, <1>2, <1>3, <1>4, <1>5, <1>6, <1>7 DEF Next

LEMMA LooksBegin == Init => LooksKept
  BY DEF Init, LooksKept

\* What the search keeps of a file is what the file holds, as long as its clock
\* stands where the walk saw it; the copies of a group are files of their own; and what
\* a move under way has seen was so.
THEOREM ReadingStands == Spec => [](IndInv /\ LooksKept)
  <1>1. IndInv /\ LooksKept /\ [Next]_vars => IndInv' /\ LooksKept'
    BY ReadingStaysTrue, LooksStayTrue
  <1> QED BY <1>1, Starts, LooksBegin, PTL DEF Spec

LEMMA MoveLeavesACopy ==
  ASSUME IndInv, LooksKept, NEW m \in moving, TrashCopy(m), Move(m.copy)
  PROVE  LastCopyStays
  <1> DEFINE e == Shows[m.copy.path]
  <1>1. LookKept(m) /\ m.spare
    BY DEF LooksKept, TrashCopy
  <1>2. entry' = [entry EXCEPT ![e] = Gone] /\ file' = file /\ binned' \ binned \subseteq {e}
    BY DEF Move
  <1>3. m.twins # {}
    BY <1>1 DEF LookKept
  <1>4. ASSUME edits = m.since
        PROVE  file[entry[e]].data = m.was /\ Holders(m.was, e)' # {}
    <2>1. file[entry[e]].data = m.was /\ Holders(m.was, e) # {}
      BY <1>1, <1>4 DEF LookKept, At
    <2>2. PICK d \in Entries \ {e} : entry[d] # Gone /\ file[entry[d]].data = m.was
      BY <2>1 DEF Holders
    <2>3. entry'[d] = entry[d]
      BY <1>2, <2>2 DEF IndInv, DiskOK
    <2>4. d \in Holders(m.was, e)'
      BY <1>2, <2>2, <2>3 DEF Holders
    <2> QED BY <2>1, <2>4
  <1> HIDE DEF e
  <1> QED BY <1>2, <1>3, <1>4 DEF LastCopyStays, e

\* Whatever the disk is, whoever writes to it and whenever: of what the move of one copy
\* (trash_dupe) takes, another entry held the content when spare looked, and holds it
\* after the move unless somebody wrote or deleted since.
THEOREM TheLastCopyStays == Spec => CopiesAreKept
  <1>1. IndInv /\ LooksKept /\ [Next]_vars => [LastCopyStays]_vars
    <2> SUFFICES ASSUME IndInv, LooksKept, Next PROVE LastCopyStays
      BY DEF LastCopyStays, vars
    <2>1. CASE binned' = binned
      BY <2>1 DEF LastCopyStays
    <2>2. ASSUME NEW m \in moving, TrashCopy(m), binned' # binned
          PROVE  LastCopyStays
      <3>1. Move(m.copy)
        BY <2>2 DEF TrashCopy
      <3> QED BY <2>2, <3>1, MoveLeavesACopy
    <2>3. binned' = binned \/ \E m \in moving : TrashCopy(m)
      BY DEF Next, StartDupes, PassLength, PassHead, PassContent, ClearDupes, WalkEntry,
             HashHead, HashFile, LookAtCopy, LookForOther, Edit, Delete
    <2> QED BY <2>1, <2>2, <2>3
  <1> QED BY <1>1, ReadingStands, PTL DEF Spec, CopiesAreKept

----------------------------------------------------------------------------
(* What a behaviour's part does; the rest stays off.                          *)

LEMMA PartSteps ==
  ASSUME [PartsNext]_allVars
  PROVE  /\ part' = part
         /\ part = "charts" => [Charts!Next]_charts
         /\ part = "traffic" => [Traffic!Next]_traffic
         /\ part = "sustained" => [Sustained!Next]_sustained
         /\ part = "trend" => [Trend!Next]_trend
         /\ part = "growth" => [Growth!Next]_grown
         /\ part = "copies" => [Next]_vars
         /\ part = "awake" => [Awake!Next]_awake
         /\ part = "spenders" => [Spenders!Next]_spenders
BY DEF PartsNext, allVars

----------------------------------------------------------------------------
(* The week's growth (Growth).                                                *)

\* When a directory was announced stands in the table, or was long ago.
SaidIsKept ==
    /\ time \in Nat
    /\ table \in [Dirs -> Nat \cup {None}] /\ recorded \in [Dirs -> Nat \cup {None}]
    /\ \A d \in Dirs :
          recorded[d] # None =>
              \/ table[d] = recorded[d]
              \/ table[d] = None /\ time - recorded[d] >= 2 * Week

\* Only directories are rows.
LEMMA RowsAreDirs ==
  ASSUME NEW f PROVE Growth!Report(f) # None => Growth!Report(f).rows \subseteq Dirs
  <1> DEFINE grew == Growth!Report(f).grew
  <1>1. ASSUME NEW g PROVE Growth!Truncated(Growth!Rows(g), g) \subseteq Dirs
    BY DEF Growth!Truncated, Growth!Rows, Growth!Answer, Growth!Candidates
  <1> QED
    BY <1>1 DEF Growth!Report

LEMMA WeekHolds ==
  ASSUME SaidIsKept, Growth!Announced, growth' = Growth!Report(files'), time' = time
  PROVE  SaidIsKept' /\ \A d \in banners' : recorded[d] # None => time - recorded[d] >= 2 * Week
  <1> DEFINE fresh == Growth!Unannounced(growth')
  <1>1. /\ time \in Nat /\ Week \in Nat /\ None \notin Int
        /\ table \in [Dirs -> Nat \cup {None}] /\ recorded \in [Dirs -> Nat \cup {None}]
    BY FiguresAssumption DEF SaidIsKept
  <1>2. banners' = fresh /\ \A d \in fresh : d \in Dirs /\ ~Growth!Stands(table[d])
    BY RowsAreDirs DEF Growth!Announced, Growth!Unannounced
  <1>3. \/ /\ table' = [d \in Dirs |-> IF d \in fresh THEN time
                                       ELSE IF Growth!Stands(table[d]) THEN table[d] ELSE None]
           /\ recorded' = [d \in Dirs |-> IF d \in fresh THEN time ELSE recorded[d]]
        \/ table' \in {table, [d \in Dirs |-> None]} /\ recorded' = [d \in Dirs |-> None]
    BY DEF Growth!Announced
  <1> HIDE DEF fresh
  <1>4. \A d \in Dirs : /\ table[d] = None => ~Growth!Stands(table[d])
                        /\ table[d] \in Nat => (Growth!Stands(table[d]) <=> table[d] > time - 2 * Week)
    BY <1>1 DEF Growth!Stands
  <1>5. \A d \in fresh : recorded[d] # None => time - recorded[d] >= 2 * Week
    BY <1>1, <1>2, <1>4 DEF SaidIsKept
  <1>6. /\ table' \in [Dirs -> Nat \cup {None}] /\ recorded' \in [Dirs -> Nat \cup {None}]
    BY <1>1, <1>3
  <1>7. ASSUME NEW d \in Dirs, recorded'[d] # None
        PROVE  \/ table'[d] = recorded'[d]
               \/ table'[d] = None /\ time - recorded'[d] >= 2 * Week
    <2>1. recorded[d] # None => \/ table[d] = recorded[d]
                                \/ table[d] = None /\ time - recorded[d] >= 2 * Week
      BY DEF SaidIsKept
    <2>2. CASE d \in fresh
      BY <1>3, <1>7, <2>2
    <2>3. CASE d \notin fresh
      <3>1. /\ recorded'[d] = recorded[d]
            /\ table'[d] = IF Growth!Stands(table[d]) THEN table[d] ELSE None
        BY <1>3, <1>7, <2>3
      <3>2. CASE table[d] \in Nat
        BY <1>1, <1>4, <1>7, <2>1, <3>1, <3>2
      <3>3. CASE table[d] = None
        BY <1>1, <1>4, <1>7, <2>1, <3>1, <3>3
      <3> QED
        BY <1>1, <3>2, <3>3
    <2> QED
      BY <2>2, <2>3
  <1>8. SaidIsKept'
    BY <1>1, <1>6, <1>7 DEF SaidIsKept
  <1> QED
    BY <1>2, <1>5, <1>8

LEMMA GrowthNext ==
  ASSUME SaidIsKept, [Growth!Next]_grown
  PROVE  SaidIsKept' /\ (Growth!Next => Growth!NewsOnceAWeek)
  <1>1. CASE UNCHANGED <<table, recorded>> /\ banners' = {} /\ time' \in {time, time + 1}
    BY <1>1, FiguresAssumption DEF SaidIsKept, Growth!NewsOnceAWeek
  <1>2. CASE UNCHANGED grown /\ ~Growth!Next
    BY <1>2 DEF SaidIsKept, grown
  <1>3. CASE \E check \in BOOLEAN : Growth!WalkLands(check)
    <2>1. CASE Growth!Announced /\ growth' = Growth!Report(files') /\ time' = time
      BY <2>1, WeekHolds DEF Growth!NewsOnceAWeek
    <2> QED
      BY <1>1, <1>3, <2>1 DEF Growth!WalkLands
  <1>4. CASE Growth!Restart \/ Growth!DieWriting \/ Growth!Pass
    BY <1>1, <1>4 DEF Growth!Restart, Growth!DieWriting, Growth!Pass
  <1> QED
    BY <1>2, <1>3, <1>4 DEF Growth!Next

----------------------------------------------------------------------------
(* The hour's trend (Trend): when a creep is news.                            *)

\* While the clock was not set back, at least as many minutes have gone by on the
\* wall since the last banner as the re-arming has counted.
CreepKept ==
    /\ uptime \in Nat /\ minute \in Nat /\ backs \in Nat
    /\ named \in Nat \cup {None} /\ told \in [head : Nat \cup {None}, backs : Nat]
    /\ told.backs <= backs
    /\ reported # None => reported.head \in Nat
    /\ told.head # None /\ told.backs = backs =>
          /\ named = None => minute - told.head >= Rearm
          /\ named # None => minute - told.head >= uptime - named

LEMMA HeadIsNow ==
  ASSUME NEW old, NEW value, minute \in Nat, old # None => old.head \in Nat
  PROVE  /\ Trend!Sampled(old, value).head \in Nat
         /\ Trend!Sampled(old, value).head >= minute
BY DEF Trend!Sampled, Trend!NewRing, Trend!Record

LEMMA CreepTicks ==
  ASSUME CreepKept, Trend!Tick
  PROVE  CreepKept' /\ Trend!CreepIsNews
  <1>1. /\ uptime \in Nat /\ minute \in Nat /\ backs \in Nat /\ None \notin Int
        /\ named \in Nat \cup {None} /\ told \in [head : Nat \cup {None}, backs : Nat]
        /\ Rearm \in Nat /\ Slots \in Nat /\ Rearm >= Slots /\ TrendHorizon \in Nat
        /\ uptime' = uptime /\ minute' = minute /\ backs' = backs
    BY FiguresAssumption DEF CreepKept, Trend!Tick, Trend!clocks
  <1>2. reported'.head \in Nat /\ reported'.head >= minute
    BY <1>1, HeadIsNow DEF CreepKept, Trend!Tick, Trend!Sample
  <1>3. \/ /\ ~Trend!StillNamed /\ named' = uptime
           /\ told' = [head |-> minute, backs |-> backs]
        \/ named' = (IF Trend!StillNamed THEN named ELSE None) /\ told' = told
    BY DEF Trend!Tick, Trend!TakeCreepNotice
  <1>4. /\ named = None => ~Trend!StillNamed
        /\ named \in Nat => (Trend!StillNamed <=> uptime - named < Rearm)
    BY <1>1 DEF Trend!StillNamed
  <1>5. CASE ~Trend!StillNamed /\ named' = uptime /\ told' = [head |-> minute, backs |-> backs]
    <2>1. CreepKept'
      BY <1>1, <1>2, <1>5 DEF CreepKept
    <2>2. ASSUME told.head # None, told.backs = backs,
                 NEW m \in Trend!Window(reported')
          PROVE  m \in told.head + 1..TrendHorizon
      <3>1. m \in 0..TrendHorizon /\ m > reported'.head - Slots
        BY <2>2 DEF Trend!Window, Trend!Minutes
      <3>2. minute - told.head >= Rearm
        BY <1>1, <1>4, <1>5, <2>2 DEF CreepKept
      <3> QED
        BY <1>1, <1>2, <2>2, <3>1, <3>2
    <2> QED
      BY <2>1, <2>2 DEF Trend!CreepIsNews
  <1>6. CASE named' = (IF Trend!StillNamed THEN named ELSE None) /\ told' = told
    <2>1. CreepKept'
      BY <1>1, <1>2, <1>4, <1>6 DEF CreepKept
    <2> QED
      BY <1>6, <2>1 DEF Trend!CreepIsNews
  <1> QED
    BY <1>3, <1>5, <1>6

LEMMA CreepNext ==
  ASSUME CreepKept, [Trend!Next]_trend
  PROVE  CreepKept' /\ (Trend!Next => Trend!CreepIsNews)
  <1> USE FiguresAssumption
  <1>1. CASE Trend!Tick
    BY <1>1, CreepTicks
  <1>2. CASE Trend!Pass
    BY <1>2 DEF Trend!Pass, Trend!rings, CreepKept, Trend!CreepIsNews
  <1>3. CASE Trend!Sleep
    <2>1. minute' > minute /\ minute' \in Nat
      BY <1>3 DEF Trend!Sleep, CreepKept
    <2> QED
      BY <1>3, <2>1 DEF Trend!Sleep, Trend!rings, CreepKept, Trend!CreepIsNews
  <1>4. CASE Trend!SetBack
    <2>1. minute' \in Nat
      BY <1>4 DEF Trend!SetBack, CreepKept
    <2> QED
      BY <1>4, <2>1 DEF Trend!SetBack, Trend!rings, CreepKept, Trend!CreepIsNews
  <1>5. CASE UNCHANGED trend
    BY <1>5 DEF trend, CreepKept, Trend!CreepIsNews
  <1> QED
    BY <1>1, <1>2, <1>3, <1>4, <1>5 DEF Trend!Next

\* For any ring, window and clocks: a creep is named again only against minutes newer
\* than its last banner, unless the clock was set back; a directory that keeps growing
\* is news once in its window, unless the record of its banner failed.
THEOREM NewsIsAlwaysNews == PartsSpec => NewsIsNews
  <1> DEFINE Lasts == (part = "growth" => SaidIsKept) /\ (part = "trend" => CreepKept)
             Step == /\ part = "trend" => Trend!CreepIsNews
                     /\ part = "growth" => Growth!NewsOnceAWeek
  <1>1. PartsInit => Lasts
    <2>1. Growth!Init => SaidIsKept
      BY DEF Growth!Init, SaidIsKept
    <2>2. Trend!Init => CreepKept
      BY DEF Trend!Init, CreepKept
    <2> QED
      BY <2>1, <2>2 DEF PartsInit
  <1>2. Lasts /\ [PartsNext]_allVars => Lasts'
    BY PartSteps, GrowthNext, CreepNext
  <1>3. Lasts /\ [PartsNext]_allVars => [Step]_allVars
    <2> SUFFICES ASSUME Lasts, PartsNext PROVE Step
      OBVIOUS
    <2>1. CASE part = "growth"
      <3>1. Growth!Next
        BY <2>1 DEF PartsNext
      <3> QED
        BY <2>1, <3>1, GrowthNext
    <2>2. CASE part = "trend"
      <3>1. Trend!Next
        BY <2>2 DEF PartsNext
      <3> QED
        BY <2>2, <3>1, CreepNext
    <2> QED
      BY <2>1, <2>2
  <1> QED
    BY <1>1, <1>2, <1>3, PTL DEF PartsSpec, NewsIsNews

----------------------------------------------------------------------------
(* The sustained load (Sustained).                                            *)

Stretches == [since : Nat, start : Nat, seen : Nat, last : Nat, quiet : Nat \cup {None}]

\* What the history must hold of the stretch that is timed: no more was burnt than
\* was heard, the last loud sample ended no longer than a grace and a tick before the
\* quiet began, and what would qualify under its rule has been told.
StretchKept(s) ==
    /\ s.last - s.start <= heard.burnt /\ burnt - s.start <= heard.burnt
    /\ s.seen <= ticked /\ ticked - s.seen <= Grace
    /\ s.quiet = None => heard.loud = s.seen
    /\ s.quiet # None => s.quiet - heard.loud <= Grace + 1
    /\ Sustained!Averages(s) /\ Sustained!Duration(s) >= heard.rule => heard.told
    /\ notified => heard.told

WatchTyped ==
    /\ tick \in Nat /\ burnt \in Nat /\ after \in Nat
    /\ ticked \in Nat \cup {None} /\ notified \in BOOLEAN
    /\ heard \in [burnt : Nat, loud : Nat, rule : Nat, told : BOOLEAN]
    /\ stretch \in Stretches \cup {None} /\ news \in Stretches \cup {None}

WatchKept ==
    /\ WatchTyped
    /\ ticked # None => ticked <= tick /\ tick <= ticked + 1
    /\ stretch = None => ~notified
    /\ stretch # None => ticked # None /\ StretchKept(stretch)
    /\ news # None => /\ Sustained!Averages(news) /\ news.last - news.start <= heard.burnt
                      /\ ticked - heard.loud <= 2 * Grace + 1

LEMMA WatchFacts ==
  /\ LoadBar \in Nat /\ Grace \in Nat /\ LoadBurn \in Nat /\ Afters \subseteq Nat
  /\ None \notin Int /\ None \notin Stretches
BY FiguresAssumption DEF Stretches

\* The three ends of a tick that heard of the pid: nothing is timed, a stretch is
\* opened, or the one that was timed goes on.
Idles == stretch = None /\ stretch' = None /\ news' = None /\ UNCHANGED <<notified, heard>>

Opens ==
    /\ stretch' = Sustained!Opened /\ notified' = FALSE /\ news' = None
    /\ heard' = [burnt |-> 0, loud |-> tick, rule |-> after, told |-> FALSE]

GoesOn ==
    LET s == Sustained!Followed(stretch)
    IN  /\ stretch # None /\ ~Sustained!QuietTooLong(s) /\ ~(burnt < stretch.last)
        /\ stretch' = s
        /\ notified' = (notified \/ Sustained!Qualifies(s))
        /\ news' = IF Sustained!Qualifies(s) /\ ~notified THEN s ELSE None
        /\ heard' = [burnt |-> heard.burnt,
                     loud |-> IF s.quiet = None THEN tick ELSE heard.loud, rule |-> after,
                     told |-> heard.told \/ news' # None]

LEMMA ListedShape ==
  ASSUME WatchKept, Sustained!RecordListed
  PROVE  Idles \/ Opens \/ GoesOn
  <1>1. stretch = None => notified = FALSE
    BY DEF WatchKept, WatchTyped
  <1>2. CASE stretch = None
    BY <1>1, <1>2
    DEF Sustained!RecordListed, Sustained!Heard, Idles, Opens
  <1>3. CASE stretch # None /\ burnt < stretch.last
    BY <1>3 DEF Sustained!RecordListed, Sustained!Reopened, Sustained!Heard, Opens
  <1>4. CASE /\ stretch # None /\ ~(burnt < stretch.last)
             /\ Sustained!QuietTooLong(Sustained!Followed(stretch))
    BY <1>4 DEF Sustained!RecordListed, Sustained!Reopened, Sustained!Heard, Opens
  <1>5. CASE /\ stretch # None /\ ~(burnt < stretch.last)
             /\ ~Sustained!QuietTooLong(Sustained!Followed(stretch))
    BY <1>5 DEF Sustained!RecordListed, Sustained!Announced, Sustained!Heard, GoesOn
  <1> QED
    BY <1>2, <1>3, <1>4, <1>5

LEMMA OpensKeeps ==
  ASSUME WatchKept, Opens, ticked' = tick, UNCHANGED <<tick, heirs, burnt, after>>
  PROVE  WatchKept'
  <1>1. WatchTyped'
    BY DEF WatchKept, WatchTyped, Opens, Sustained!Opened, Stretches
  <1>2. stretch' = [since |-> tick, start |-> burnt, seen |-> tick, last |-> burnt, quiet |-> None]
    BY DEF Opens, Sustained!Opened
  <1>3. tick \in Nat /\ burnt \in Nat /\ stretch' # None
    BY <1>1, <1>2, WatchFacts DEF WatchKept, WatchTyped, Stretches
  <1>4. ~Sustained!Averages(stretch')
    BY <1>2, <1>3 DEF Sustained!Averages, Sustained!Duration
  <1>5. StretchKept(stretch)'
    BY <1>2, <1>3, <1>4, WatchFacts DEF StretchKept, Opens
  <1> QED
    BY <1>1, <1>3, <1>5, WatchFacts DEF WatchKept, Opens

LEMMA FollowedFacts ==
  ASSUME NEW s \in Stretches, tick \in Nat, burnt \in Nat
  PROVE  /\ Sustained!Followed(s) \in Stretches
         /\ Sustained!Followed(s).since = s.since /\ Sustained!Followed(s).start = s.start
         /\ Sustained!Followed(s).seen = tick /\ Sustained!Followed(s).last = burnt
         /\ \/ Sustained!Followed(s).quiet = None
            \/ s.quiet = None /\ Sustained!Followed(s).quiet = tick
            \/ s.quiet # None /\ Sustained!Followed(s).quiet = s.quiet
  <1> DEFINE loud == burnt - s.last >= LoadBar * (tick - s.seen)
             quiet == IF loud THEN None ELSE IF s.quiet = None THEN tick ELSE s.quiet
  <1>1. Sustained!Followed(s) = [s EXCEPT !.seen = tick, !.last = burnt, !.quiet = quiet]
    BY DEF Sustained!Followed
  <1>2. \/ quiet = None \/ (s.quiet = None /\ quiet = tick) \/ (s.quiet # None /\ quiet = s.quiet)
    OBVIOUS
  <1> HIDE DEF quiet
  <1>3. quiet \in Nat \cup {None}
    BY <1>2 DEF Stretches
  <1> QED
    BY <1>1, <1>2, <1>3 DEF Stretches

LEMMA GoesOnKeeps ==
  ASSUME WatchKept, GoesOn, ticked' = tick, UNCHANGED <<tick, heirs, burnt, after>>
  PROVE  WatchKept'
  <1> DEFINE s == Sustained!Followed(stretch)
  <1>1. /\ stretch \in Stretches /\ stretch # None /\ tick \in Nat /\ burnt \in Nat
        /\ after \in Nat /\ notified \in BOOLEAN /\ ticked \in Nat
        /\ heard \in [burnt : Nat, loud : Nat, rule : Nat, told : BOOLEAN]
    BY WatchFacts DEF WatchKept, WatchTyped, GoesOn
  <1>2. /\ s \in Stretches /\ s # None /\ s.since = stretch.since /\ s.start = stretch.start
        /\ s.seen = tick /\ s.last = burnt
        /\ \/ s.quiet = None
           \/ stretch.quiet = None /\ s.quiet = tick
           \/ stretch.quiet # None /\ s.quiet = stretch.quiet
    BY <1>1, FollowedFacts, WatchFacts
  <1>3. /\ ~Sustained!QuietTooLong(s) /\ stretch' = s
        /\ notified' = (notified \/ Sustained!Qualifies(s))
        /\ news' = IF Sustained!Qualifies(s) /\ ~notified THEN s ELSE None
        /\ heard' = [burnt |-> heard.burnt,
                     loud |-> IF s.quiet = None THEN tick ELSE heard.loud, rule |-> after,
                     told |-> heard.told \/ news' # None]
    BY DEF GoesOn
  <1> HIDE DEF s
  <1>4. /\ heard'.burnt = heard.burnt /\ heard'.rule = after
        /\ heard'.loud = IF s.quiet = None THEN tick ELSE heard.loud
    BY <1>3
  <1>5. heard'.told = (heard.told \/ news' # None)
    BY <1>3
  <1>6. news' \in {s, None} /\ (news' # None => Sustained!Qualifies(s))
    BY <1>3
  <1>7. WatchTyped'
    <2>1. /\ heard' \in [burnt : Nat, loud : Nat, rule : Nat, told : BOOLEAN]
      BY <1>1, <1>3
    <2>2. notified' \in BOOLEAN
      BY <1>3
    <2> QED
      BY <1>1, <1>2, <1>3, <1>6, <2>1, <2>2 DEF WatchTyped
  <1>8. notified' => heard'.told
    <2>1. notified => heard.told
      BY <1>1 DEF WatchKept, StretchKept
    <2> QED
      BY <1>2, <1>3, <1>5, <2>1
  <1>9. Sustained!Averages(s) /\ Sustained!Duration(s) >= after => heard'.told
    <2>1. Sustained!Averages(s) /\ Sustained!Duration(s) >= after => Sustained!Qualifies(s)
      BY DEF Sustained!Qualifies
    <2> QED
      BY <1>3, <1>8, <2>1
  <1>10. /\ burnt - stretch.start <= heard.burnt /\ stretch.seen <= ticked
         /\ ticked - stretch.seen <= Grace /\ tick <= ticked + 1
         /\ stretch.quiet = None => heard.loud = stretch.seen
         /\ stretch.quiet # None => stretch.quiet - heard.loud <= Grace + 1
    BY <1>1 DEF WatchKept, StretchKept
  <1>11. s.quiet # None => tick - s.quiet <= Grace
    BY <1>1, <1>2, <1>3, WatchFacts DEF Sustained!QuietTooLong, Stretches
  <1>12. /\ s.quiet = None => heard'.loud = s.seen
         /\ s.quiet # None => s.quiet - heard'.loud <= Grace + 1
    BY <1>1, <1>2, <1>4, <1>10, WatchFacts DEF Stretches
  <1>13. tick - heard'.loud <= 2 * Grace + 1
    BY <1>1, <1>2, <1>4, <1>11, <1>12, WatchFacts DEF Stretches
  <1>14. StretchKept(stretch)'
    BY <1>1, <1>2, <1>3, <1>4, <1>8, <1>9, <1>10, <1>12, WatchFacts DEF StretchKept
  <1>15. news' # None => Sustained!Averages(news') /\ news'.last - news'.start <= heard'.burnt
    BY <1>2, <1>4, <1>6, <1>10 DEF Sustained!Qualifies
  <1>16. stretch' # None /\ ticked' \in Nat /\ ticked' # None /\ tick' = ticked'
    BY <1>1, <1>2, <1>3, WatchFacts
  <1>17. ticked' - heard'.loud <= 2 * Grace + 1 /\ ticked' <= tick' /\ tick' <= ticked' + 1
    BY <1>1, <1>13, <1>16
  <1> QED
    BY <1>7, <1>14, <1>15, <1>16, <1>17 DEF WatchKept

\* A tick without the pid: what is timed stays for a grace, untouched.
LEMMA UnlistedKeeps ==
  ASSUME WatchKept, Sustained!RecordUnlisted, ticked' = tick,
         UNCHANGED <<tick, heirs, burnt, after>>
  PROVE  WatchKept'
  <1>1. /\ tick \in Nat /\ Grace \in Nat /\ None \notin Int /\ notified \in BOOLEAN
        /\ news' = None /\ heard' = heard
        /\ notified' = (notified /\ stretch' # None)
        /\ stretch' = stretch \/ stretch' = None
        /\ stretch # None /\ stretch' = stretch => tick - stretch.seen <= Grace
    BY WatchFacts DEF WatchKept, WatchTyped, Sustained!RecordUnlisted
  <1>2. WatchTyped'
    BY <1>1 DEF WatchKept, WatchTyped
  <1>3. stretch' = None => ~notified'
    BY <1>1
  <1>4. ASSUME stretch' # None PROVE StretchKept(stretch)'
    <2>1. /\ stretch' = stretch /\ stretch \in Stretches /\ StretchKept(stretch)
          /\ ticked \in Nat /\ ticked <= tick
      BY <1>1, <1>4 DEF WatchKept, WatchTyped
    <2>2. notified' => heard.told
      BY <1>1, <2>1 DEF StretchKept
    <2>3. stretch.seen <= tick
      BY <1>1, <2>1 DEF StretchKept, Stretches
    <2>4. burnt' = burnt /\ heard' = heard
      BY <1>1
    <2> QED
      BY <1>1, <1>4, <2>1, <2>2, <2>3, <2>4 DEF StretchKept
  <1> QED
    BY <1>1, <1>2, <1>3, <1>4 DEF WatchKept

LEMMA WatchNext ==
  ASSUME WatchKept, [Sustained!Next]_sustained
  PROVE  WatchKept'
  <1>1. WatchTyped /\ (stretch # None => stretch \in Stretches)
    BY DEF WatchKept, WatchTyped
  <1>2. CASE Sustained!Tick
    <2>1. ticked' = tick /\ UNCHANGED <<tick, heirs, burnt, after>>
      BY <1>2 DEF Sustained!Tick, Sustained!machine
    <2>2. CASE Idles
      <3>1. WatchTyped' /\ tick \in Nat
        BY <1>1, <2>1, <2>2 DEF WatchTyped, Idles
      <3> QED
        BY <1>1, <2>1, <2>2, <3>1 DEF WatchKept, Idles
    <2> QED
      BY <1>2, <2>1, <2>2, ListedShape, OpensKeeps, GoesOnKeeps, UnlistedKeeps DEF Sustained!Tick
  <1>3. CASE Sustained!Pass
    <2>1. PICK burn \in 0..LoadBurn :
              burnt' = burnt + burn /\ heard' = [heard EXCEPT !.burnt = heard.burnt + burn]
      BY <1>3 DEF Sustained!Pass
    <2>2. /\ ticked = tick /\ tick' = tick + 1 /\ burn \in Nat /\ ticked \in Nat
          /\ UNCHANGED <<heirs, after, ticked, stretch, notified, news>>
      BY <1>1, <1>3, <2>1, WatchFacts DEF Sustained!Pass, WatchTyped
    <2>3. /\ heard'.burnt = heard.burnt + burn /\ heard'.loud = heard.loud
          /\ heard'.rule = heard.rule /\ heard'.told = heard.told
          /\ heard' \in [burnt : Nat, loud : Nat, rule : Nat, told : BOOLEAN]
          /\ heard.burnt \in Nat /\ burnt \in Nat /\ burnt' \in Nat
      BY <1>1, <2>1, <2>2 DEF WatchTyped
    <2>4. WatchTyped'
      BY <1>1, <2>2, <2>3 DEF WatchTyped
    <2>5. stretch # None => StretchKept(stretch)'
      <3> SUFFICES ASSUME stretch # None PROVE StretchKept(stretch)'
        OBVIOUS
      <3>1. StretchKept(stretch) /\ stretch \in Stretches
        BY <1>1 DEF WatchKept
      <3>2. stretch.last - stretch.start <= heard'.burnt /\ burnt' - stretch.start <= heard'.burnt
        BY <2>1, <2>2, <2>3, <3>1 DEF StretchKept, Stretches
      <3> QED
        BY <2>2, <2>3, <3>1, <3>2 DEF StretchKept
    <2>6. news # None => news.last - news.start <= heard'.burnt
      <3> SUFFICES ASSUME news # None PROVE news.last - news.start <= heard'.burnt
        OBVIOUS
      <3>1. news \in Stretches /\ news.last - news.start <= heard.burnt
        BY <1>1 DEF WatchKept, WatchTyped
      <3> QED
        BY <2>2, <2>3, <3>1 DEF Stretches
    <2> QED
      BY <2>2, <2>3, <2>4, <2>5, <2>6 DEF WatchKept
  <1>4. CASE Sustained!ChangeHands
    <2>1. /\ burnt' = 0 /\ burnt \in Nat
          /\ UNCHANGED <<tick, after, ticked, stretch, notified, news, heard>>
      BY <1>1, <1>4 DEF Sustained!ChangeHands, WatchTyped
    <2>2. WatchTyped'
      BY <1>1, <2>1 DEF WatchTyped
    <2>3. ASSUME stretch # None PROVE StretchKept(stretch)'
      <3>1. StretchKept(stretch) /\ stretch \in Stretches /\ heard.burnt \in Nat
        BY <1>1, <2>3 DEF WatchKept, WatchTyped
      <3>2. 0 - stretch.start <= heard.burnt
        BY <3>1 DEF Stretches
      <3> QED
        BY <2>1, <3>1, <3>2 DEF StretchKept
    <2> QED
      BY <2>1, <2>2, <2>3 DEF WatchKept
  <1>5. CASE Sustained!SetAfter
    <2>1. after' \in Nat /\ UNCHANGED <<tick, burnt, ticked, stretch, notified, news, heard>>
      BY <1>5, WatchFacts DEF Sustained!SetAfter, Sustained!machine
    <2> QED
      BY <1>1, <2>1 DEF WatchKept, WatchTyped, StretchKept
  <1>6. CASE UNCHANGED sustained
    BY <1>1, <1>6 DEF sustained, WatchKept, WatchTyped, StretchKept
  <1> QED
    BY <1>2, <1>3, <1>4, <1>5, <1>6 DEF Sustained!Next

LEMMA WatchBegins == Sustained!Init => WatchKept
  <1> SUFFICES ASSUME Sustained!Init PROVE WatchKept
    OBVIOUS
  <1>1. after \in Nat /\ heard = [burnt |-> 0, loud |-> 0, rule |-> after, told |-> FALSE]
    BY WatchFacts DEF Sustained!Init
  <1>2. WatchTyped
    <2>1. heard \in [burnt : Nat, loud : Nat, rule : Nat, told : BOOLEAN]
      BY <1>1
    <2>2. tick = 0 /\ burnt = 0 /\ ticked = None /\ stretch = None /\ news = None
      BY DEF Sustained!Init
    <2>3. notified \in BOOLEAN
      BY DEF Sustained!Init
    <2> QED
      BY <1>1, <2>1, <2>2, <2>3 DEF WatchTyped
  <1> QED
    BY <1>2 DEF Sustained!Init, WatchKept

LEMMA WatchHolds == WatchKept => Sustained!WatchIsHonest
  <1> SUFFICES ASSUME WatchKept PROVE Sustained!WatchIsHonest
    OBVIOUS
  <1>1. Sustained!CardWasAnnounced
    BY DEF WatchKept, StretchKept, Sustained!CardWasAnnounced, Sustained!Qualifies
  <1>2. Sustained!LoadWasHeld
    BY DEF WatchKept, Sustained!LoadWasHeld
  <1> QED
    BY <1>1, <1>2 DEF Sustained!WatchIsHonest

----------------------------------------------------------------------------
(* Which slot a minute has: the rests of a division.                          *)

LEMMA Division ==
  ASSUME NEW a \in Int, NEW n \in Int, n > 0
  PROVE  /\ a = n * (a \div n) + (a % n)
         /\ a \div n \in Int
         /\ a % n \in 0..n - 1
  <1>1. a = n * (a \div n) + (a % n)
    BY Z3
  <1>2. a \div n \in Int /\ a % n \in 0..n - 1
    BY Z3
  <1> QED
    BY <1>1, <1>2

LEMMA Distributes ==
  ASSUME NEW n \in Int, NEW p \in Int, NEW q \in Int
  PROVE  n * (p + q) = n * p + n * q
OBVIOUS

LEMMA NoMultipleBetween ==
  ASSUME NEW k \in Int, NEW n \in Int, n > 0, -n < n * k, n * k < n
  PROVE  k = 0
  <1>1. CASE k >= 1
    <2>1. n * k >= n
      BY <1>1
    <2> QED
      BY <2>1
  <1>2. CASE k <= -1
    <2>1. n * k <= -n
      BY <1>2
    <2> QED
      BY <2>1
  <1> QED
    BY <1>1, <1>2

LEMMA OneRest ==
  ASSUME NEW n \in Int, n > 0, NEW p \in Int, NEW q \in Int,
         NEW r \in 0..n - 1, NEW s \in 0..n - 1, n * p + r = n * q + s
  PROVE  r = s
  <1> DEFINE k == p - q
  <1>1. n * k = s - r
    BY Z3
  <1>2. k \in Int
    OBVIOUS
  <1> HIDE DEF k
  <1>3. k = 0
    BY <1>1, <1>2, NoMultipleBetween
  <1> QED
    BY <1>1, <1>3

\* Two minutes of one window have slots of their own.
LEMMA SlotsApart ==
  ASSUME NEW a \in Int, NEW b \in Int, NEW n \in Int, n > 0, a < b, b - a < n
  PROVE  a % n # b % n
  <1> DEFINE p == a \div n
             q == b \div n
             r == a % n
  <1>1. SUFFICES ASSUME b % n = r PROVE FALSE
    OBVIOUS
  <1>2. a = n * p + r /\ b = n * q + r /\ p \in Int /\ q \in Int /\ r \in 0..n - 1
    BY <1>1, Division
  <1> HIDE DEF p, q, r
  <1> DEFINE k == q - p
  <1>3. n * k = b - a
    BY <1>2, Z3
  <1>4. k \in Int
    BY <1>2
  <1> HIDE DEF k
  <1>5. k = 0
    BY <1>3, <1>4, NoMultipleBetween
  <1> QED
    BY <1>3, <1>5

\* Every later minute's slot is met on one round of the ring.
LEMMA SlotAhead ==
  ASSUME NEW h \in Int, NEW m \in Int, NEW n \in Int, n > 0, m > h
  PROVE  \E step \in 1..n : step <= m - h /\ (h + step) % n = m % n
  <1> DEFINE d == m - h - 1
  <1>1. \E q \in Int, r \in 0..n - 1 : d = n * q + r
    <2>1. d \in Int
      OBVIOUS
    <2>2. d = n * (d \div n) + (d % n) /\ d \div n \in Int /\ d % n \in 0..n - 1
      BY <2>1, Division
    <2> QED
      BY <2>2, Zenon
  <1>2. PICK q \in Int, r \in 0..n - 1 : m = h + (r + 1) + n * q
    <2>1. PICK q \in Int, r \in 0..n - 1 : d = n * q + r
      BY <1>1
    <2>2. n * q \in Int
      OBVIOUS
    <2>3. m = h + (r + 1) + n * q
      BY <2>1, <2>2
    <2> QED
      BY <2>3
  <1> DEFINE step == r + 1
  <1>3. q >= 0
    <2>1. SUFFICES ASSUME q <= -1 PROVE FALSE
      OBVIOUS
    <2>2. n * q <= -n
      BY <2>1
    <2> QED
      BY <1>2, <2>2
  <1>4. n * q >= 0
    BY <1>3
  <1>5. step <= m - h /\ step \in 1..n
    BY <1>2, <1>4
  <1>6. h + step \in Int /\ (h + step) + n * q = m
    BY <1>2
  <1>7. \A x \in Int : x + n * q = m => x % n = m % n
    <2>1. SUFFICES ASSUME NEW x \in Int, x + n * q = m PROVE x % n = m % n
      OBVIOUS
    <2> DEFINE a == x \div n
               b == m \div n
               e == x % n
               s == m % n
    <2>2. /\ x = n * a + e /\ a \in Int /\ e \in 0..n - 1
          /\ m = n * b + s /\ b \in Int /\ s \in 0..n - 1
      BY Division
    <2> HIDE DEF a, b, e, s
    <2>3. n * (a + q) = n * a + n * q
      BY <2>2, Distributes
    <2>4. n * (a + q) + e = n * b + s
      BY <2>1, <2>2, <2>3
    <2>5. e = s
      BY <2>2, <2>4, OneRest
    <2> QED
      BY <2>5 DEF e, s
  <1> HIDE DEF step
  <1>8. \A x \in Int : x = h + step => x % n = m % n
    BY <1>6, <1>7
  <1> QED
    BY <1>5, <1>6, <1>8

LEMMA MinOfTwo ==
  ASSUME NEW a \in Int, NEW b \in Int
  PROVE  Trend!Min({a, b}) = IF a <= b THEN a ELSE b
  <1>1. \E x \in {a, b} : \A y \in {a, b} : x =< y
    OBVIOUS
  <1>2. Trend!Min({a, b}) \in {a, b} /\ \A y \in {a, b} : Trend!Min({a, b}) =< y
    BY <1>1 DEF Trend!Min
  <1> QED
    BY <1>2

LEMMA MaxIsLast ==
  ASSUME NEW S \in SUBSET Int, NEW x \in S, \A y \in S : y <= x
  PROVE  Trend!Max(S) = x
  <1> DEFINE top == Trend!Max(S)
  <1>1. top \in S /\ \A y \in S : top >= y
    BY DEF Trend!Max
  <1> HIDE DEF top
  <1>2. top = x
    BY <1>1
  <1> QED
    BY <1>2 DEF top

----------------------------------------------------------------------------
(* The hour's trend (Trend): what its rings hold.                             *)

Values == Nat \cup {None}
TrendRings == [head : Trend!Minutes, slots : [0..Slots - 1 -> Values]]

LEMMA RingFacts ==
  /\ Slots \in Nat \ {0} /\ TrendHorizon \in Nat \ {0} /\ None \notin Int /\ MaxValue \in Nat
  /\ Trend!Minutes = 0..TrendHorizon
  /\ \A m \in Trend!Minutes : m % Slots \in 0..Slots - 1
  <1>1. /\ Slots \in Nat \ {0} /\ TrendHorizon \in Nat \ {0}
        /\ None \notin Int /\ MaxValue \in Nat
    BY FiguresAssumption
  <1>2. \A m \in Int : m % Slots \in 0..Slots - 1
    BY <1>1, Division
  <1>3. Trend!Minutes = 0..TrendHorizon
    BY DEF Trend!Minutes
  <1>4. \A m \in Trend!Minutes : m \in Int
    BY <1>3
  <1>5. \A m \in Trend!Minutes : m % Slots \in 0..Slots - 1
    BY <1>2, <1>4, Zenon
  <1> QED
    BY <1>1, <1>3, <1>5, Zenon

\* A fresh ring holds its own minute, and no other.
LEMMA NewRingAt ==
  ASSUME NEW w \in Trend!Minutes, NEW v \in Nat
  PROVE  LET new == Trend!NewRing(w, v)
         IN  /\ new \in TrendRings /\ new.head = w /\ new.slots[w % Slots] = v
             /\ \A m \in Trend!Minutes : Trend!At(new, m) = IF m = w THEN v ELSE None
  <1> DEFINE new == Trend!NewRing(w, v)
  <1>1. new \in TrendRings /\ new.head = w /\ new.slots[w % Slots] = v
    BY RingFacts DEF Trend!NewRing, TrendRings, Values
  <1>2. ASSUME NEW m \in Trend!Minutes, m <= w, w - m < Slots, m # w
        PROVE  new.slots[m % Slots] = None
    <2>1. m % Slots # w % Slots
      BY <1>2, RingFacts, SlotsApart
    <2>2. m % Slots \in 0..Slots - 1
      BY RingFacts
    <2> QED
      BY <2>1, <2>2 DEF Trend!NewRing
  <1> HIDE DEF new
  <1>3. ASSUME NEW m \in Trend!Minutes
        PROVE  Trend!At(new, m) = IF m = w THEN v ELSE None
    <2>1. m \in Int /\ w \in Int /\ Slots \in Int /\ Slots > 0 /\ new.head = w
      BY <1>1, RingFacts
    <2>2. CASE m > w \/ w - m >= Slots
      BY <2>1, <2>2 DEF Trend!At
    <2>3. CASE m = w
      BY <1>1, <2>1, <2>3 DEF Trend!At
    <2>4. CASE m < w /\ w - m < Slots
      <3>1. new.slots[m % Slots] = None
        BY <1>2, <2>1, <2>4
      <3>2. ~(m > new.head \/ new.head - m >= Slots) /\ m # w
        BY <2>1, <2>4
      <3> QED
        BY <3>1, <3>2 DEF Trend!At
    <2> QED
      BY <2>1, <2>2, <2>3, <2>4
  <1> QED
    BY <1>1, <1>3 DEF new

\* What is skipped are the slots of the minutes after the head.
LEMMA SkippedAre ==
  ASSUME NEW old \in TrendRings, NEW w \in Trend!Minutes, w >= old.head,
         NEW m \in Trend!Minutes, m <= w, w - m < Slots
  PROVE  m % Slots \in Trend!Skipped(old, w) <=> m > old.head
  <1> DEFINE h == old.head
  <1>1. h \in Int /\ m \in Int /\ w \in Int /\ Slots \in Int /\ Slots > 0 /\ w >= h
    BY RingFacts DEF TrendRings
  <1>2. Trend!Skipped(old, w) =
            {(h + step) % Slots : step \in 1..(IF w - h <= Slots THEN w - h ELSE Slots)}
    BY <1>1, MinOfTwo DEF Trend!Skipped
  <1> HIDE DEF h
  <1>3. CASE m > h
    <2>1. PICK step \in 1..Slots : step <= m - h /\ (h + step) % Slots = m % Slots
      BY <1>1, <1>3, SlotAhead
    <2>2. step \in 1..(IF w - h <= Slots THEN w - h ELSE Slots)
      BY <1>1, <2>1
    <2>3. m % Slots \in Trend!Skipped(old, w)
      BY <1>2, <2>1, <2>2, Zenon
    <2> QED
      BY <1>3, <2>3 DEF h
  <1>4. CASE m <= h
    <2>1. ASSUME NEW step \in 1..(IF w - h <= Slots THEN w - h ELSE Slots)
          PROVE  (h + step) % Slots # m % Slots
      <3> DEFINE k == h + step
      <3>1. k \in Int /\ m < k /\ k - m < Slots
        BY <1>1, <1>4
      <3> HIDE DEF k
      <3>2. m % Slots # k % Slots
        BY <1>1, <3>1, SlotsApart
      <3> QED
        BY <3>2 DEF k
    <2>2. m % Slots \notin Trend!Skipped(old, w)
      BY <1>2, <2>1, Zenon
    <2> QED
      BY <1>1, <1>4, <2>2 DEF h
  <1> QED
    BY <1>1, <1>3, <1>4

LEMMA MaxOfIs ==
  ASSUME NEW old \in Values, NEW v \in Nat
  PROVE  Trend!MaxOf(old, v) \in Nat /\ Trend!MaxOf(None, v) = v
BY RingFacts DEF Trend!MaxOf, Values

\* A ring that takes a value holds it for its minute, what it held of the window that
\* ends there, and nothing of the minutes that were skipped or have left.
LEMMA RecordAt ==
  ASSUME NEW old \in TrendRings, NEW w \in Trend!Minutes, NEW v \in Nat, w >= old.head
  PROVE  LET new == Trend!Record(old, w, v)
         IN  /\ new \in TrendRings /\ new.head = w /\ new.slots[w % Slots] \in Nat
             /\ \A m \in Trend!Minutes :
                    Trend!At(new, m) = IF m = w THEN Trend!MaxOf(Trend!At(old, w), v)
                                       ELSE IF w - m < Slots THEN Trend!At(old, m)
                                       ELSE None
  <1> DEFINE new == Trend!Record(old, w, v)
             cleared == [i \in 0..Slots - 1 |->
                            IF i \in Trend!Skipped(old, w) THEN None ELSE old.slots[i]]
  <1>1. /\ w \in Int /\ old.head \in Int /\ w >= old.head /\ Slots \in Int /\ Slots > 0
        /\ old.slots \in [0..Slots - 1 -> Values]
        /\ w % Slots \in 0..Slots - 1 /\ None \notin Int
    BY RingFacts DEF TrendRings
  <1>2. new = [head |-> w,
               slots |-> [cleared EXCEPT ![w % Slots] = Trend!MaxOf(@, v)]]
    BY <1>1 DEF Trend!Record
  <1>3. cleared \in [0..Slots - 1 -> Values]
    BY <1>1 DEF Values
  <1>4. cleared[w % Slots] \in Values
    BY <1>1, <1>3
  <1> DEFINE top == Trend!MaxOf(cleared[w % Slots], v)
  <1>5. top \in Nat
    BY <1>4, MaxOfIs
  <1>6. new = [head |-> w, slots |-> [cleared EXCEPT ![w % Slots] = top]]
    BY <1>2
  <1> HIDE DEF cleared, top
  <1>7. ASSUME NEW m \in Trend!Minutes, m <= w, w - m < Slots
        PROVE  cleared[m % Slots] = Trend!At(old, m)
    <2>1. m % Slots \in 0..Slots - 1
      BY RingFacts
    <2>2. m % Slots \in Trend!Skipped(old, w) <=> m > old.head
      BY <1>7, SkippedAre
    <2>3. m \in Int /\ (m <= old.head => old.head - m < Slots)
      BY <1>1, <1>7, RingFacts
    <2>4. CASE m > old.head
      BY <2>1, <2>2, <2>4 DEF Trend!At, cleared
    <2>5. CASE m <= old.head
      <3>1. cleared[m % Slots] = old.slots[m % Slots]
        BY <1>1, <2>1, <2>2, <2>3, <2>5 DEF cleared
      <3>2. ~(m > old.head \/ old.head - m >= Slots)
        BY <1>1, <2>3, <2>5
      <3> QED
        BY <3>1, <3>2 DEF Trend!At
    <2> QED
      BY <1>1, <2>3, <2>4, <2>5
  <1>8. top = Trend!MaxOf(Trend!At(old, w), v)
    <2>1. cleared[w % Slots] = Trend!At(old, w)
      BY <1>1, <1>7
    <2> QED
      BY <2>1 DEF top
  <1> HIDE DEF new
  <1>9. new \in TrendRings /\ new.head = w /\ new.slots[w % Slots] = top
    BY <1>1, <1>3, <1>5, <1>6 DEF TrendRings, Values
  <1>10. ASSUME NEW m \in Trend!Minutes
         PROVE  Trend!At(new, m) = IF m = w THEN top
                                   ELSE IF w - m < Slots THEN Trend!At(old, m)
                                   ELSE None
    <2>1. m \in Int
      BY RingFacts
    <2>2. CASE m > w
      <3>1. Trend!At(new, m) = None /\ Trend!At(old, m) = None
        BY <1>1, <1>9, <2>1, <2>2 DEF Trend!At
      <3> QED
        BY <1>1, <2>1, <2>2, <3>1
    <2>3. CASE m = w
      <3>1. ~(m > new.head \/ new.head - m >= Slots)
        BY <1>1, <1>9, <2>3
      <3> QED
        BY <1>9, <2>3, <3>1 DEF Trend!At
    <2>4. CASE m < w /\ w - m < Slots
      <3>1. m % Slots # w % Slots /\ m % Slots \in 0..Slots - 1
        BY <1>1, <2>1, <2>4, RingFacts, SlotsApart
      <3>2. new.slots[m % Slots] = cleared[m % Slots]
        BY <1>3, <1>6, <3>1
      <3>3. cleared[m % Slots] = Trend!At(old, m)
        BY <1>1, <1>7, <2>1, <2>4
      <3>4. ~(m > new.head \/ new.head - m >= Slots) /\ m # w
        BY <1>1, <1>9, <2>1, <2>4
      <3> QED
        BY <2>4, <3>2, <3>3, <3>4 DEF Trend!At
    <2>5. CASE w - m >= Slots
      <3>1. m # w
        BY <1>1, <2>1, <2>5
      <3>2. Trend!At(new, m) = None
        BY <1>9, <2>5 DEF Trend!At
      <3>3. ~(w - m < Slots)
        BY <1>1, <2>1, <2>5
      <3> QED
        BY <3>1, <3>2, <3>3
    <2> QED
      BY <1>1, <2>1, <2>2, <2>3, <2>4, <2>5
  <1> QED
    BY <1>5, <1>8, <1>9, <1>10 DEF new

\* What a ring tells of the minutes after `lo` is what f has of them, and f has nothing
\* of those before.
Tells(old, f, lo) ==
    /\ f \in [Trend!Minutes -> Values]
    /\ old # None => old \in TrendRings /\ old.slots[old.head % Slots] \in Nat
    /\ \A m \in Trend!Minutes :
           f[m] = IF old # None /\ m > lo THEN Trend!At(old, m) ELSE None

LEMMA RingIsSome == \A new \in TrendRings : new # None
  <1>1. Trend!Minutes \subseteq Nat
    BY RingFacts
  <1> QED
    BY <1>1, FiguresAssumption DEF TrendRings, Values

\* A sample that is recorded and logged is told by the ring as it is by the log.
LEMMA SampleTells ==
  ASSUME NEW old, NEW f, NEW lo \in Int, NEW v \in Nat,
         minute \in Trend!Minutes, Tells(old, f, lo)
  PROVE  LET new == Trend!Sampled(old, v)
             g   == Trend!Logged(f, v)
         IN  /\ new \in TrendRings /\ new.slots[new.head % Slots] \in Nat
             /\ new.head >= minute /\ (old # None => new.head >= old.head)
             /\ new.head = minute \/ (old # None /\ new.head = old.head)
             /\ g \in [Trend!Minutes -> Values]
             /\ \A m \in Trend!Minutes :
                    m > lo /\ m > new.head - Slots => g[m] = Trend!At(new, m)
  <1> DEFINE new == Trend!Sampled(old, v)
             g == Trend!Logged(f, v)
             Later == \E m \in Trend!Minutes : m > minute /\ f[m] # None
             Claim == /\ new \in TrendRings /\ new.slots[new.head % Slots] \in Nat
                      /\ new.head >= minute /\ (old # None => new.head >= old.head)
                      /\ new.head = minute \/ (old # None /\ new.head = old.head)
                      /\ g \in [Trend!Minutes -> Values]
                      /\ \A m \in Trend!Minutes :
                             m > lo /\ m > new.head - Slots => g[m] = Trend!At(new, m)
  <1> SUFFICES Claim
    OBVIOUS
  <1>1. /\ minute \in Int /\ Slots \in Int /\ Slots > 0 /\ None \notin Int
        /\ \A m \in Trend!Minutes : m \in Int
        /\ f \in [Trend!Minutes -> Values] /\ f[minute] \in Values
        /\ Trend!MaxOf(f[minute], v) \in Nat /\ Trend!MaxOf(None, v) = v
    <2>1. f \in [Trend!Minutes -> Values] /\ f[minute] \in Values
      BY DEF Tells
    <2>2. Trend!MaxOf(f[minute], v) \in Nat /\ Trend!MaxOf(None, v) = v
      BY <2>1, MaxOfIs
    <2> QED
      BY <2>1, <2>2, RingFacts
  <1>2. /\ Later => g = f
        /\ ~Later => g = [f EXCEPT ![minute] = Trend!MaxOf(f[minute], v)]
    BY DEF Trend!Logged
  <1>3. g \in [Trend!Minutes -> Values]
    BY <1>1, <1>2 DEF Values
  <1>4. \A m \in Trend!Minutes :
            g[m] = IF m = minute /\ ~Later THEN Trend!MaxOf(f[m], v) ELSE f[m]
    BY <1>1, <1>2
  <1> HIDE DEF new, g, Later
  <1>5. CASE old = None
    <2>1. \A m \in Trend!Minutes : f[m] = None
      BY <1>5 DEF Tells
    <2>2. ~Later
      BY <2>1 DEF Later
    <2>3. new = Trend!NewRing(minute, v)
      BY <1>5 DEF Trend!Sampled, new
    <2>4. /\ new \in TrendRings /\ new.head = minute /\ new.slots[minute % Slots] = v
          /\ \A m \in Trend!Minutes : Trend!At(new, m) = IF m = minute THEN v ELSE None
      BY <2>3, NewRingAt
    <2>5. \A m \in Trend!Minutes : g[m] = Trend!At(new, m)
      BY <1>1, <1>4, <2>1, <2>2, <2>4
    <2> QED
      BY <1>1, <1>3, <1>5, <2>4, <2>5
  <1>6. CASE old # None /\ minute < old.head
    <2>1. new = old
      BY <1>6 DEF Trend!Sampled, Trend!Record, new
    <2>2. old \in TrendRings /\ old.slots[old.head % Slots] \in Nat /\ old.head \in Trend!Minutes
      BY <1>6 DEF Tells, TrendRings
    <2>6. old.head \in Int
      BY <1>1, <2>2
    <2>3. Trend!At(old, old.head) = old.slots[old.head % Slots]
      <3>1. ~(old.head > old.head \/ old.head - old.head >= Slots)
        BY <1>1, <2>6
      <3> QED
        BY <3>1 DEF Trend!At
    <2>4. old.head > lo => Later
      <3>1. old.head > lo => f[old.head] = Trend!At(old, old.head)
        BY <1>6, <2>2 DEF Tells
      <3>2. old.head > lo => f[old.head] # None
        BY <1>1, <2>2, <2>3, <3>1
      <3> QED
        BY <1>6, <2>2, <3>2 DEF Later
    <2>5. ASSUME NEW m \in Trend!Minutes, m > lo PROVE g[m] = Trend!At(new, m)
      <3>1. f[m] = Trend!At(new, m)
        BY <1>6, <2>1, <2>5 DEF Tells
      <3>2. ~Later => m # minute
        <4>1. m \in Int /\ old.head \in Int
          BY <1>1, <2>2
        <4> QED
          BY <1>1, <1>6, <2>4, <2>5, <4>1
      <3> QED
        BY <1>4, <3>1, <3>2
    <2> QED
      BY <1>1, <1>3, <1>6, <2>1, <2>2, <2>5, <2>6
  <1>7. CASE old # None /\ minute >= old.head
    <2>1. new = Trend!Record(old, minute, v)
      BY <1>7 DEF Trend!Sampled, new
    <2>2. old \in TrendRings
      BY <1>7 DEF Tells
    <2>3. old.head \in Int
      BY <1>1, <2>2 DEF TrendRings
    <2>4. ~Later
      <3>1. \A m \in Trend!Minutes : m > minute => Trend!At(old, m) = None
        BY <1>1, <1>7, <2>3 DEF Trend!At
      <3> QED
        BY <3>1 DEF Tells, Later
    <2>5. /\ new \in TrendRings /\ new.head = minute /\ new.slots[minute % Slots] \in Nat
          /\ \A m \in Trend!Minutes :
                 Trend!At(new, m) = IF m = minute THEN Trend!MaxOf(Trend!At(old, minute), v)
                                    ELSE IF minute - m < Slots THEN Trend!At(old, m)
                                    ELSE None
      BY <1>7, <2>1, <2>2, RecordAt
    <2>6. ASSUME NEW m \in Trend!Minutes, m > lo, m > minute - Slots
          PROVE  g[m] = Trend!At(new, m)
      <3>1. f[m] = Trend!At(old, m)
        BY <1>7, <2>6 DEF Tells
      <3>2. minute - m < Slots
        BY <1>1, <2>6
      <3> QED
        BY <1>4, <2>4, <2>5, <3>1, <3>2
    <2> QED
      BY <1>1, <1>3, <1>7, <2>3, <2>5, <2>6
  <1>8. old = None \/ (old # None /\ minute < old.head) \/ (old # None /\ minute >= old.head)
    <2>1. old # None => old.head \in Int
      BY <1>1 DEF Tells, TrendRings
    <2> QED
      BY <1>1, <2>1
  <1> QED
    BY <1>5, <1>6, <1>7, <1>8

LEMMA HeardTells ==
  ASSUME NEW old, NEW f, minute \in Trend!Minutes, Tells(old, f, -1)
  PROVE  LET new == Trend!Sampled(old, 1)
             g   == Trend!Logged(f, 1)
         IN  /\ new \in TrendRings /\ new.slots[new.head % Slots] \in Nat
             /\ new.head >= minute /\ (old # None => new.head >= old.head)
             /\ g \in [Trend!Minutes -> Values]
             /\ \A m \in Trend!Minutes :
                    m > -1 /\ m > new.head - Slots => g[m] = Trend!At(new, m)
  <1>1. ASSUME NEW lo \in Int, Tells(old, f, lo), NEW v \in Nat
        PROVE  LET new == Trend!Sampled(old, v)
                   g   == Trend!Logged(f, v)
               IN  /\ new \in TrendRings /\ new.slots[new.head % Slots] \in Nat
                   /\ new.head >= minute /\ (old # None => new.head >= old.head)
                   /\ new.head = minute \/ (old # None /\ new.head = old.head)
                   /\ g \in [Trend!Minutes -> Values]
                   /\ \A m \in Trend!Minutes :
                          m > lo /\ m > new.head - Slots => g[m] = Trend!At(new, m)
    BY <1>1, SampleTells
  <1>2. -1 \in Int /\ 1 \in Nat
    OBVIOUS
  <1> QED
    BY <1>1, <1>2, Zenon

\* The rings tell what they were handed: the one of the table for as far back as it
\* goes, the tree's as far back as that one's window.
TrendKept ==
    /\ minute \in Trend!Minutes
    /\ Tells(reported, log.heard, -1)
    /\ reported = None => tree = None
    /\ Tells(tree, log.tree, reported.head - Slots)
    /\ tree # None => tree.head <= reported.head

\* The log lets go of what has left the hour, which the ring does not tell either.
LEMMA HourIsTold ==
  ASSUME NEW new \in TrendRings, NEW g \in [Trend!Minutes -> Values],
         new.slots[new.head % Slots] \in Nat,
         \A m \in Trend!Minutes : m > new.head - Slots => g[m] = Trend!At(new, m)
  PROVE  LET hour == {m \in Trend!Minutes :
                          m + Slots > Trend!Max({n \in Trend!Minutes : g[n] # None})}
         IN  /\ hour = {m \in Trend!Minutes : m > new.head - Slots}
             /\ Tells(new, Trend!Kept(g, hour), -1)
  <1> DEFINE some == {n \in Trend!Minutes : g[n] # None}
             hour == {m \in Trend!Minutes : m + Slots > Trend!Max(some)}
  <1>1. /\ new.head \in Trend!Minutes /\ new.head \in Int /\ Slots \in Int /\ Slots > 0
        /\ None \notin Int /\ \A m \in Trend!Minutes : m \in Int /\ m >= 0
        /\ new # None
    BY RingFacts, RingIsSome DEF TrendRings
  <1>2. Trend!At(new, new.head) # None
    <2>1. ~(new.head > new.head \/ new.head - new.head >= Slots)
      BY <1>1
    <2> QED
      BY <1>1, <2>1 DEF Trend!At
  <1>3. new.head \in some
    BY <1>1, <1>2
  <1>4. \A n \in some : n <= new.head
    <2> SUFFICES ASSUME NEW n \in Trend!Minutes, n > new.head PROVE g[n] = None
      BY <1>1
    <2> QED
      BY <1>1 DEF Trend!At
  <1>5. Trend!Max(some) = new.head
    <2>1. some \in SUBSET Int
      BY <1>1
    <2> HIDE DEF some
    <2> QED
      BY <1>3, <1>4, <2>1, MaxIsLast
  <1>6. hour = {m \in Trend!Minutes : m > new.head - Slots}
    BY <1>1, <1>5
  <1> HIDE DEF hour
  <1>7. \A m \in Trend!Minutes :
            Trend!Kept(g, hour)[m] = IF m > new.head - Slots THEN g[m] ELSE None
    BY <1>6 DEF Trend!Kept
  <1>8. Trend!Kept(g, hour) \in [Trend!Minutes -> Values]
    BY DEF Trend!Kept, Values
  <1>9. ASSUME NEW m \in Trend!Minutes
        PROVE  Trend!Kept(g, hour)[m] = IF m > -1 THEN Trend!At(new, m) ELSE None
    <2>1. m \in Int /\ m > -1
      BY <1>1
    <2>2. CASE m > new.head - Slots
      BY <1>7, <2>1, <2>2
    <2>3. CASE ~(m > new.head - Slots)
      <3>1. new.head - m >= Slots
        BY <1>1, <2>1, <2>3
      <3>2. Trend!At(new, m) = None
        BY <3>1 DEF Trend!At
      <3> QED
        BY <1>7, <2>1, <2>3, <3>2
    <2> QED
      BY <2>2, <2>3
  <1>10. Tells(new, Trend!Kept(g, hour), -1)
    BY <1>1, <1>8, <1>9 DEF Tells
  <1> QED
    BY <1>6, <1>10 DEF hour

\* Letting go of a tree that was silent for the whole window loses nothing.
LEMMA RetainedTells ==
  ASSUME NEW base, NEW k \in [Trend!Minutes -> Values], NEW lo \in Int,
         minute \in Trend!Minutes, lo >= minute - Slots,
         base # None => base \in TrendRings /\ base.slots[base.head % Slots] \in Nat,
         \A m \in Trend!Minutes :
             m > lo => k[m] = IF base = None THEN None ELSE Trend!At(base, m)
  PROVE  Tells(Trend!Retained(base), Trend!Kept(k, {m \in Trend!Minutes : m > lo}), lo)
  <1> DEFINE f == Trend!Kept(k, {m \in Trend!Minutes : m > lo})
             left == Trend!Retained(base)
  <1>1. /\ f \in [Trend!Minutes -> Values]
        /\ \A m \in Trend!Minutes : f[m] = IF m > lo THEN k[m] ELSE None
    BY DEF Trend!Kept, Values
  <1>2. left # None => left = base
    BY DEF Trend!Retained
  <1>3. ASSUME base # None, left = None, NEW m \in Trend!Minutes, m > lo
        PROVE  Trend!At(base, m) = None
    <2>1. minute - base.head >= Slots
      BY <1>3, RingIsSome DEF Trend!Retained
    <2>2. m \in Int /\ minute \in Int /\ Slots \in Int /\ base.head \in Int
      BY <1>3, RingFacts DEF TrendRings
    <2>3. m > base.head
      BY <1>3, <2>1, <2>2
    <2> QED
      BY <2>3 DEF Trend!At
  <1>4. base = None => left = None
    BY DEF Trend!Retained
  <1> HIDE DEF f, left
  <1>5. \A m \in Trend!Minutes :
            f[m] = IF left # None /\ m > lo THEN Trend!At(left, m) ELSE None
    BY <1>1, <1>2, <1>3, <1>4
  <1>6. Tells(left, f, lo)
    BY <1>1, <1>2, <1>4, <1>5 DEF Tells
  <1> QED
    BY <1>6 DEF f, left

LEMMA TrendTick ==
  ASSUME TrendKept, Trend!Tick
  PROVE  TrendKept'
  <1>1. PICK value \in (0..MaxValue) \cup {None} : Trend!Sample(value)
    BY DEF Trend!Tick
  <1> DEFINE new == Trend!Sampled(reported, 1)
             g == Trend!Logged(log.heard, 1)
             base == IF value = None THEN tree ELSE Trend!Sampled(tree, value)
             k == IF value = None THEN log.tree ELSE Trend!Logged(log.tree, value)
             hour == {m \in Trend!Minutes :
                          m + Slots > Trend!Max({n \in Trend!Minutes : g[n] # None})}
             lo == new.head - Slots
  <1>2. /\ reported' = new /\ tree' = Trend!Retained(base) /\ minute' = minute
        /\ log'.heard = Trend!Kept(g, hour) /\ log'.tree = Trend!Kept(k, hour)
    BY <1>1 DEF Trend!Tick, Trend!Sample, Trend!clocks
  <1>3. /\ minute \in Trend!Minutes /\ minute \in Int /\ Slots \in Int /\ Slots > 0
        /\ \A m \in Trend!Minutes : m \in Int /\ m > -1
        /\ value # None => value \in Nat
    BY RingFacts DEF TrendKept
  <1>4. /\ new \in TrendRings /\ new.slots[new.head % Slots] \in Nat
        /\ new.head >= minute /\ (reported # None => new.head >= reported.head)
        /\ g \in [Trend!Minutes -> Values]
        /\ \A m \in Trend!Minutes : m > -1 /\ m > lo => g[m] = Trend!At(new, m)
    BY <1>3, HeardTells DEF TrendKept
  <1>5. new.head \in Int /\ new # None
    BY <1>3, <1>4, RingIsSome DEF TrendRings
  <1> HIDE DEF new, g
  <1>6. /\ hour = {m \in Trend!Minutes : m > lo}
        /\ Tells(new, Trend!Kept(g, hour), -1)
    BY <1>3, <1>4, HourIsTold
  <1>7. lo \in Int /\ lo >= minute - Slots
    BY <1>3, <1>4, <1>5
  <1>8. /\ k \in [Trend!Minutes -> Values]
        /\ base # None => base \in TrendRings /\ base.slots[base.head % Slots] \in Nat
        /\ base # None => base.head <= new.head
        /\ \A m \in Trend!Minutes :
               m > lo => k[m] = IF base = None THEN None ELSE Trend!At(base, m)
    <2> DEFINE since == IF reported = None THEN lo ELSE reported.head - Slots
    <2>1. since \in Int /\ since <= lo /\ (reported # None => reported.head \in Int)
      <3>1. reported # None => reported.head \in Int
        BY <1>3 DEF TrendKept, Tells, TrendRings
      <3> QED
        BY <1>3, <1>4, <1>5, <1>7, <3>1
    <2>2. Tells(tree, log.tree, since)
      BY DEF TrendKept, Tells
    <2>3. tree # None => reported # None /\ tree.head <= reported.head /\ tree.head \in Int
      BY <1>3 DEF TrendKept, Tells, TrendRings
    <2> HIDE DEF lo, since
    <2>4. CASE value = None
      <3>1. base = tree /\ k = log.tree
        BY <2>4
      <3>2. \A m \in Trend!Minutes : m > lo => m > since
        BY <1>3, <1>7, <2>1
      <3> HIDE DEF base, k
      <3>3. base # None => base.head <= new.head
        BY <1>4, <1>5, <2>1, <2>3, <3>1
      <3> QED
        BY <2>2, <3>1, <3>2, <3>3 DEF Tells
    <2>5. CASE value # None
      <3>1. base = Trend!Sampled(tree, value) /\ k = Trend!Logged(log.tree, value)
        BY <2>5
      <3> HIDE DEF base, k
      <3>2. /\ base \in TrendRings /\ base.slots[base.head % Slots] \in Nat
            /\ base.head = minute \/ (tree # None /\ base.head = tree.head)
            /\ k \in [Trend!Minutes -> Values]
            /\ \A m \in Trend!Minutes :
                   m > since /\ m > base.head - Slots => k[m] = Trend!At(base, m)
        BY <1>3, <2>1, <2>2, <2>5, <3>1, SampleTells
      <3>3. base.head <= new.head /\ base.head \in Int
        BY <1>3, <1>4, <1>5, <2>1, <2>3, <3>2
      <3>4. base # None
        BY <3>2, RingIsSome
      <3>5. \A m \in Trend!Minutes : m > lo => m > since /\ m > base.head - Slots
        BY <1>3, <1>5, <1>7, <2>1, <3>3 DEF lo
      <3> QED
        BY <3>2, <3>3, <3>4, <3>5
    <2> QED
      BY <2>4, <2>5
  <1> HIDE DEF base, k, hour
  <1>9. Tells(tree', log'.tree, lo)
    BY <1>2, <1>3, <1>6, <1>7, <1>8, RetainedTells
  <1>10. Tells(reported', log'.heard, -1)
    BY <1>2, <1>6
  <1>11. tree' # None => tree'.head <= reported'.head
    BY <1>2, <1>8 DEF Trend!Retained
  <1>12. reported' # None /\ minute' \in Trend!Minutes
    BY <1>2, <1>3, <1>5
  <1> QED
    BY <1>2, <1>9, <1>10, <1>11, <1>12 DEF TrendKept, Tells

LEMMA TrendBegins == Trend!Init => TrendKept
  <1>1. 1 \in Trend!Minutes /\ \A m \in Trend!Minutes : Trend!Silence[m] = None
    BY RingFacts DEF Trend!Silence
  <1>2. Trend!Silence \in [Trend!Minutes -> Values]
    BY DEF Trend!Silence, Values
  <1> QED
    BY <1>1, <1>2 DEF Trend!Init, TrendKept, Tells

LEMMA TrendNext ==
  ASSUME TrendKept, [Trend!Next]_trend
  PROVE  TrendKept'
  <1>1. CASE UNCHANGED <<reported, tree, log>> /\ minute' \in Trend!Minutes
    BY <1>1 DEF TrendKept, Tells
  <1>2. CASE Trend!Tick
    BY <1>2, TrendTick
  <1>3. CASE Trend!Pass \/ Trend!Sleep \/ Trend!SetBack
    <2>1. minute \in Int /\ minute >= 0 /\ minute <= TrendHorizon
      BY RingFacts DEF TrendKept
    <2>2. minute' \in Trend!Minutes
      <3>1. CASE Trend!Pass
        BY <2>1, <3>1, RingFacts DEF Trend!Pass
      <3>2. CASE Trend!Sleep
        BY <2>1, <3>2, RingFacts DEF Trend!Sleep
      <3>3. CASE Trend!SetBack
        BY <2>1, <3>3, RingFacts DEF Trend!SetBack
      <3> QED
        BY <1>3, <3>1, <3>2, <3>3
    <2>3. UNCHANGED <<reported, tree, log>>
      BY <1>3 DEF Trend!Pass, Trend!Sleep, Trend!SetBack, Trend!rings
    <2> QED
      BY <1>1, <2>2, <2>3
  <1>4. CASE UNCHANGED trend
    BY <1>1, <1>4 DEF trend, TrendKept
  <1> QED
    BY <1>2, <1>3, <1>4 DEF Trend!Next

LEMMA TrendHolds ==
  ASSUME TrendKept
  PROVE  Trend!TrendIsTheHour
  <1> SUFFICES ASSUME reported # None, tree # None
               PROVE  /\ Trend!Rise(reported, tree) =
                             Trend!RiseOver(Trend!Heard \cap Trend!Hour,
                                            [m \in Trend!Hour |-> log.tree[m]],
                                            Trend!Max(Trend!Heard), Trend!Hour)
                      /\ Trend!Climb(reported, tree) =
                             Trend!ClimbOver(Trend!Heard \cap Trend!Hour,
                                             [m \in Trend!Hour |-> log.tree[m]])
    BY DEF Trend!TrendIsTheHour
  <1> DEFINE head == reported.head
  <1>1. /\ head \in Trend!Minutes /\ head \in Int /\ Slots \in Int /\ Slots > 0 /\ None \notin Int
        /\ \A m \in Trend!Minutes : m \in Int /\ m > -1
        /\ \A m \in Trend!Minutes : log.heard[m] = Trend!At(reported, m)
        /\ \A m \in Trend!Minutes : m > head - Slots => log.tree[m] = Trend!At(tree, m)
    <2>1. head \in Trend!Minutes
      BY DEF TrendKept, Tells, TrendRings
    <2>2. \A m \in Trend!Minutes : m \in Int /\ m > -1
      BY RingFacts
    <2>3. \A m \in Trend!Minutes : log.heard[m] = Trend!At(reported, m)
      BY <2>2 DEF TrendKept, Tells
    <2>4. \A m \in Trend!Minutes : m > head - Slots => log.tree[m] = Trend!At(tree, m)
      BY DEF TrendKept, Tells
    <2> QED
      BY <2>1, <2>2, <2>3, <2>4, RingFacts
  <1>2. Trend!Max(Trend!Heard) = head
    <2>1. Trend!At(reported, head) # None
      <3>1. ~(head > head \/ head - head >= Slots)
        BY <1>1
      <3>2. reported.slots[head % Slots] \in Nat
        BY DEF TrendKept, Tells
      <3> QED
        BY <1>1, <3>1, <3>2 DEF Trend!At
    <2>2. head \in Trend!Heard /\ Trend!Heard \in SUBSET Int
      BY <1>1, <2>1 DEF Trend!Heard
    <2>3. \A n \in Trend!Heard : n <= head
      <3> SUFFICES ASSUME NEW n \in Trend!Minutes, n > head PROVE log.heard[n] = None
        BY <1>1 DEF Trend!Heard
      <3> QED
        BY <1>1 DEF Trend!At
    <2> HIDE DEF head
    <2> QED
      BY <2>2, <2>3, MaxIsLast
  <1>3. Trend!Hour = Trend!Window(reported)
    BY <1>2 DEF Trend!Hour, Trend!Window
  <1>4. /\ Trend!Window(reported) \subseteq Trend!Minutes
        /\ \A m \in Trend!Window(reported) : m > head - Slots
    BY DEF Trend!Window
  <1>5. {m \in Trend!Window(reported) : Trend!At(reported, m) # None} = Trend!Heard \cap Trend!Hour
    BY <1>1, <1>3, <1>4 DEF Trend!Heard
  <1>6. [m \in Trend!Window(reported) |-> Trend!At(tree, m)] = [m \in Trend!Hour |-> log.tree[m]]
    BY <1>1, <1>3, <1>4
  <1>7. Trend!Rise(reported, tree) =
            Trend!RiseOver(Trend!Heard \cap Trend!Hour, [m \in Trend!Hour |-> log.tree[m]],
                           Trend!Max(Trend!Heard), Trend!Hour)
    BY <1>2, <1>3, <1>5, <1>6 DEF Trend!Rise
  <1>8. Trend!Climb(reported, tree) =
            Trend!ClimbOver(Trend!Heard \cap Trend!Hour, [m \in Trend!Hour |-> log.tree[m]])
    BY <1>5, <1>6 DEF Trend!Climb
  <1> QED
    BY <1>7, <1>8

\* For any samples, pids, clocks and sleeps: a sustained load that the card shows had a
\* banner of its own, and a banner blames no process for more than was burnt under its
\* pid; the hour's verdicts are those of the minutes that were heard, each at its most,
\* whatever the ring wrote over and the wall clock did.
THEOREM WatchersAreAlwaysHonest == PartsSpec => []WatchersAreHonest
  <1> DEFINE Lasts == (part = "sustained" => WatchKept) /\ (part = "trend" => TrendKept)
  <1>1. PartsInit => Lasts
    <2>1. Sustained!Init => WatchKept
      BY WatchBegins
    <2>2. Trend!Init => TrendKept
      BY TrendBegins
    <2> QED
      BY <2>1, <2>2 DEF PartsInit
  <1>2. Lasts /\ [PartsNext]_allVars => Lasts'
    BY PartSteps, WatchNext, TrendNext
  <1>3. Lasts => WatchersAreHonest
    BY WatchHolds, TrendHolds DEF WatchersAreHonest
  <1> QED
    BY <1>1, <1>2, <1>3, PTL DEF PartsSpec

----------------------------------------------------------------------------
(* The cup (Awake).                                                           *)

\* What is in force is the hold, and a system that counts the time does not count it out
\* before its end, but for as long as the wall clock was set back; one that does not
\* count leaves it.
HoldKept ==
    /\ timed \in BOOLEAN /\ date \in Nat /\ takes \in Nat
    /\ held \in [until : Nat, token : Nat] \cup {None}
    /\ inForce \subseteq [id : Nat, left : Int]
    /\ \A a \in inForce : held # None /\ a.id = held.token
    /\ back \in Nat
    /\ held # None /\ (timed => date + back < held.until) =>
           \E a \in inForce : timed => a.left >= held.until - date - back

LEMMA HeldFacts == None \notin [until : Nat, token : Nat] /\ Lengths \subseteq Nat /\ Naps \subseteq Nat
BY FiguresAssumption

\* Time that the system counts leaves in force what has not ended yet.
LEMMA AfterKeeps ==
  ASSUME HoldKept, NEW span \in Nat, date' = date + span, UNCHANGED <<timed, held, takes, back>>,
         inForce' \in {Awake!After(span), inForce}
  PROVE  HoldKept'
  <1>1. /\ timed \in BOOLEAN /\ date \in Nat /\ inForce \subseteq [id : Nat, left : Int]
        /\ held \in [until : Nat, token : Nat] \cup {None} /\ back \in Nat
    BY DEF HoldKept
  <1>2. CASE inForce' = inForce
    <2>1. held # None /\ (timed => date' + back < held.until) =>
              \E a \in inForce : timed => a.left >= held.until - date' - back
      <3> SUFFICES ASSUME held # None, timed => date' + back < held.until
                   PROVE  \E a \in inForce : timed => a.left >= held.until - date' - back
        OBVIOUS
      <3>1. (timed => date + back < held.until) /\ held.until \in Nat
        BY <1>1
      <3>2. PICK a \in inForce : timed => a.left >= held.until - date - back
        BY <3>1 DEF HoldKept
      <3>3. a.left \in Int
        BY <1>1
      <3> QED
        BY <1>1, <3>1, <3>2, <3>3
    <2> QED
      BY <1>1, <1>2, <2>1 DEF HoldKept
  <1>3. CASE inForce' = Awake!After(span) /\ timed
    <2> DEFINE Spent(a) == [a EXCEPT !.left = @ - span]
    <2>1. inForce' = {b \in {Spent(a) : a \in inForce} : b.left > 0}
      BY <1>3 DEF Awake!After
    <2>2. \A a \in inForce : /\ Spent(a) \in [id : Nat, left : Int]
                             /\ Spent(a).id = a.id /\ Spent(a).left = a.left - span
      BY <1>1
    <2>3. inForce' \subseteq [id : Nat, left : Int] /\ \A b \in inForce' : held # None /\ b.id = held.token
      BY <2>1, <2>2 DEF HoldKept
    <2> HIDE DEF Spent
    <2>4. ASSUME held # None, date' + back < held.until
          PROVE  \E b \in inForce' : b.left >= held.until - date' - back
      <3>1. date + back < held.until /\ held.until \in Nat
        BY <1>1, <2>4
      <3>2. PICK a \in inForce : a.left >= held.until - date - back
        BY <1>3, <2>4, <3>1 DEF HoldKept
      <3>3. a.left \in Int
        BY <1>1
      <3>4. Spent(a).left >= held.until - date' - back /\ Spent(a).left > 0
        BY <1>1, <2>2, <2>4, <3>1, <3>2, <3>3
      <3> QED
        BY <2>1, <3>4
    <2>5. takes' \in Nat /\ date' \in Nat /\ UNCHANGED <<timed, held, back>>
      BY <1>1 DEF HoldKept
    <2>6. held # None /\ (timed => date' + back < held.until) =>
              \E b \in inForce' : timed => b.left >= held.until - date' - back
      BY <1>3, <2>4
    <2> QED
      BY <1>1, <2>3, <2>5, <2>6 DEF HoldKept
  <1>4. ~timed => Awake!After(span) = inForce
    BY DEF Awake!After
  <1> QED
    BY <1>2, <1>3, <1>4

LEMMA HoldNext ==
  ASSUME HoldKept, [Awake!Next]_awake
  PROVE  HoldKept'
  <1>1. /\ timed \in BOOLEAN /\ date \in Nat /\ inForce \subseteq [id : Nat, left : Int]
        /\ held \in [until : Nat, token : Nat] \cup {None} /\ takes \in Nat /\ back \in Nat
    BY DEF HoldKept
  <1>2. Awake!Released = {}
    BY DEF HoldKept, Awake!Released
  <1>3. ASSUME NEW minutes \in Lengths, Awake!HoldFor(minutes)
        PROVE  HoldKept'
    <2>1. minutes \in Nat /\ takes' = takes + 1 /\ back' = 0 /\ UNCHANGED <<timed, date>>
      BY <1>3, HeldFacts DEF Awake!HoldFor
    <2>2. CASE held' = None /\ inForce' = {}
      BY <1>1, <2>1, <2>2 DEF HoldKept
    <2>3. CASE /\ held' = [until |-> date + minutes, token |-> takes]
               /\ inForce' = {[id |-> takes, left |-> minutes]}
      <3>1. held' \in [until : Nat, token : Nat] /\ held'.until = date + minutes /\ held'.token = takes
        BY <1>1, <2>1, <2>3
      <3>2. held' # None
        BY <3>1, HeldFacts
      <3> DEFINE a == [id |-> takes, left |-> minutes]
      <3>3. inForce' = {a} /\ a \in [id : Nat, left : Int] /\ a.id = takes /\ a.left = minutes
        BY <1>1, <2>1, <2>3
      <3> HIDE DEF a
      <3>4. a.left >= held'.until - date' - back'
        BY <1>1, <2>1, <3>1, <3>3
      <3> QED
        BY <1>1, <2>1, <3>1, <3>2, <3>3, <3>4 DEF HoldKept
    <2> QED
      BY <1>2, <1>3, <2>2, <2>3 DEF Awake!HoldFor
  <1>4. CASE Awake!EndHold \/ Awake!Expire \/ Awake!Restart
    <2>1. UNCHANGED <<timed, date, takes, back>>
      BY <1>4 DEF Awake!EndHold, Awake!Expire, Awake!Restart
    <2>2. (held' = None /\ inForce' = {}) \/ UNCHANGED <<held, inForce>>
      BY <1>2, <1>4 DEF Awake!EndHold, Awake!Expire, Awake!Restart
    <2>3. CASE held' = None /\ inForce' = {}
      BY <1>1, <2>1, <2>3 DEF HoldKept
    <2>4. CASE UNCHANGED <<held, inForce>>
      BY <2>1, <2>4 DEF HoldKept
    <2> QED
      BY <2>2, <2>3, <2>4
  <1>5. CASE Awake!Pass
    <2>1. /\ date' = date + 1 /\ inForce' \in {Awake!After(1), inForce}
          /\ UNCHANGED <<timed, held, takes, back>>
      BY <1>5 DEF Awake!Pass
    <2>2. 1 \in Nat
      OBVIOUS
    <2> QED
      BY <2>1, <2>2, AfterKeeps
  <1>6. ASSUME NEW nap \in Naps, Awake!Sleep(nap)
        PROVE  HoldKept'
    <2>1. /\ nap \in Nat /\ date' = date + nap /\ inForce' \in {Awake!After(nap), inForce}
          /\ UNCHANGED <<timed, held, takes, back>>
      BY <1>6, HeldFacts DEF Awake!Sleep
    <2> QED
      BY <2>1, AfterKeeps
  <1>7. CASE UNCHANGED awake
    BY <1>7 DEF awake, HoldKept
  <1>8. CASE Awake!SetBack
    <2>1. date > 0 /\ date' = date - 1 /\ back' = back + 1 /\ UNCHANGED <<timed, held, inForce, takes>>
      BY <1>8 DEF Awake!SetBack
    <2>2. date' \in Nat /\ back' \in Nat
      BY <1>1, <2>1
    <2>3. held # None => /\ date' + back' < held.until <=> date + back < held.until
                         /\ held.until - date' - back' = held.until - date - back
      BY <1>1, <2>1
    <2> QED
      BY <1>1, <2>1, <2>2, <2>3 DEF HoldKept
  <1> QED
    BY <1>3, <1>4, <1>5, <1>6, <1>7, <1>8 DEF Awake!Next

LEMMA HoldBegins == Awake!Init => HoldKept
  BY DEF Awake!Init, HoldKept

LEMMA HoldHolds == HoldKept => Awake!CupIsTrue
  <1> SUFFICES ASSUME HoldKept PROVE Awake!CupIsTrue
    OBVIOUS
  <1>1. ASSUME Awake!Lit, ~Awake!Overrun PROVE \E a \in inForce : a.id = held.token
    <2>1. held # None /\ date < held.until /\ date \in Nat /\ back \in Nat /\ held.until \in Nat
      BY <1>1 DEF HoldKept, Awake!Lit, Awake!Ended
    <2>2. timed => date + back < held.until
      BY <1>1, <2>1 DEF Awake!Overrun
    <2>3. PICK a \in inForce : timed => a.left >= held.until - date - back
      BY <2>1, <2>2 DEF HoldKept
    <2> QED
      BY <2>3 DEF HoldKept
  <1> QED
    BY <1>1 DEF HoldKept, Awake!CupIsTrue

----------------------------------------------------------------------------
(* What is left of a list. As in AlertsProofs, induction takes a set in place *)
(* of a predicate, and rests on the finite sets being well-founded.           *)

LEMMA CountingUp ==
  ASSUME NEW S, 0 \in S, \A n \in Nat : n \in S => n + 1 \in S
  PROVE  Nat \subseteq S
  <1> SUFFICES ASSUME NEW w \in Nat, w \notin S PROVE FALSE
    OBVIOUS
  <1> DEFINE Out == {0..n : n \in Nat \ S}
  <1>1. Out \subseteq FiniteSubsetsOf(Nat) /\ Out # {}
    <2>1. \A n \in Nat : IsFiniteSet(0..n) /\ 0..n \subseteq Nat
      BY FS_Interval
    <2> QED
      BY <2>1 DEF FiniteSubsetsOf
  <1>2. PICK least \in Out : \A V \in Out : <<V, least>> \notin StrictSubsetOrdering(Nat)
    <2> HIDE DEF Out
    <2> QED
      BY <1>1, FS_StrictSubsetOrderingWellFounded, WFMin
  <1>3. PICK n \in Nat \ S : least = 0..n
    OBVIOUS
  <1>4. n # 0 /\ n - 1 \in Nat /\ n - 1 \notin S
    OBVIOUS
  <1>5. <<0..n - 1, 0..n>> \in StrictSubsetOrdering(Nat)
    BY <1>4 DEF StrictSubsetOrdering
  <1> QED
    BY <1>2, <1>3, <1>4, <1>5

----------------------------------------------------------------------------
(* Sums over a finite set, of numbers given by a function. The community       *)
(* modules state such facts of operators, which no prover here can be given.   *)

\* Among the subsets in question one has no smaller one under it.
LEMMA Smallest ==
  ASSUME NEW T, IsFiniteSet(T), NEW Out, Out \subseteq SUBSET T, Out # {}
  PROVE  \E S \in Out : \A x \in S : S \ {x} \notin Out
  <1>1. Out \subseteq FiniteSubsetsOf(T)
    BY FS_Subset DEF FiniteSubsetsOf
  <1>2. PICK S \in Out : \A V \in Out : <<V, S>> \notin StrictSubsetOrdering(T)
    BY <1>1, FS_StrictSubsetOrderingWellFounded, WFMin
  <1>3. \A x \in S : <<S \ {x}, S>> \in StrictSubsetOrdering(T)
    BY <1>2 DEF StrictSubsetOrdering
  <1> QED
    BY <1>2, <1>3

LEMMA FillingUp ==
  ASSUME NEW T, IsFiniteSet(T), NEW W, {} \in W,
         \A S \in SUBSET T : \A x \in T \ S : S \in W => S \cup {x} \in W
  PROVE  T \in W
  <1> SUFFICES ASSUME T \notin W PROVE FALSE
    OBVIOUS
  <1> DEFINE Out == {S \in SUBSET T : S \notin W}
  <1>2. PICK S \in Out : \A x \in S : S \ {x} \notin Out
    <2>1. Out \subseteq SUBSET T /\ Out # {}
      OBVIOUS
    <2> HIDE DEF Out
    <2> QED
      BY <2>1, Smallest
  <1>3. PICK x \in S : TRUE
    BY <1>2
  <1>5. S \ {x} \in W /\ S \ {x} \in SUBSET T /\ x \in T \ (S \ {x})
    BY <1>2, <1>3
  <1>6. (S \ {x}) \cup {x} = S
    BY <1>3
  <1> QED
    BY <1>2, <1>5, <1>6

First(S) == CHOOSE x \in S : TRUE

\* The recursion behind every sum: over S, of g.
Tally(it, g, S) ==
    it = [s \in SUBSET S |-> IF s = {} THEN 0 ELSE g[First(s)] + it[s \ {First(s)}]]

Total(g, S) == (CHOOSE it : Tally(it, g, S))[S]

LEMMA FirstIn == \A S : S # {} => First(S) \in S
  BY DEF First

LEMMA TallyExists ==
  ASSUME NEW S, IsFiniteSet(S), NEW g
  PROVE  \E it : Tally(it, g, S)
  <1> DEFINE Upto(n) == {s \in SUBSET S : Cardinality(s) <= n}
             Goes(n, it) == it = [s \in Upto(n) |-> IF s = {} THEN 0
                                     ELSE g[First(s)] + it[s \ {First(s)}]]
             W == {n \in Nat : \E it : Goes(n, it)}
  <1>1. \A s \in SUBSET S : IsFiniteSet(s) /\ Cardinality(s) \in Nat /\ Cardinality(s) <= Cardinality(S)
    BY FS_Subset, FS_CardinalityType
  <1>2. \A s \in SUBSET S : s # {} => /\ s \ {First(s)} \in SUBSET S
                                      /\ Cardinality(s \ {First(s)}) = Cardinality(s) - 1
    BY <1>1, FS_RemoveElement, FirstIn
  <1>3. 0 \in W
    <2>1. \A s \in Upto(0) : s = {}
      BY <1>1, FS_EmptySet
    <2>2. Goes(0, [s \in Upto(0) |-> 0])
      BY <2>1
    <2> QED
      BY <2>2
  <1>4. ASSUME NEW n \in Nat, n \in W PROVE n + 1 \in W
    <2>1. PICK it : Goes(n, it)
      BY <1>4
    <2> DEFINE jt == [s \in Upto(n + 1) |-> IF s = {} THEN 0
                         ELSE g[First(s)] + it[s \ {First(s)}]]
    <2>2. \A s \in Upto(n) : it[s] = IF s = {} THEN 0 ELSE g[First(s)] + it[s \ {First(s)}]
      BY <2>1
    <2>3. \A s \in Upto(n) : s \in Upto(n + 1)
      BY <1>1
    <2>4. \A s \in Upto(n) : jt[s] = it[s]
      BY <2>2, <2>3
    <2>5. \A s \in Upto(n + 1) : s # {} => s \ {First(s)} \in Upto(n)
      BY <1>1, <1>2
    <2>6. \A s \in Upto(n + 1) : s # {} => jt[s \ {First(s)}] = it[s \ {First(s)}]
      BY <2>4, <2>5
    <2>7. Goes(n + 1, jt)
      BY <2>6
    <2>8. \E kt : Goes(n + 1, kt)
      BY <2>7
    <2> HIDE DEF Goes
    <2> QED
      BY <2>8
  <1>5. Cardinality(S) \in W
    <2> HIDE DEF W
    <2>1. Nat \subseteq W
      BY <1>3, <1>4, CountingUp
    <2> QED
      BY <2>1, <1>1
  <1>6. Upto(Cardinality(S)) = SUBSET S
    BY <1>1
  <1> QED
    BY <1>5, <1>6 DEF Tally


LEMMA TallyAt ==
  ASSUME NEW S, NEW g, NEW it, Tally(it, g, S)
  PROVE  /\ it[{}] = 0
         /\ \A s \in SUBSET S : s # {} => /\ it[s] = g[First(s)] + it[s \ {First(s)}]
                                          /\ First(s) \in s /\ s \ {First(s)} \in SUBSET S
  BY FirstIn DEF Tally

\* A tally is of the numbers in its set alone.
LEMMA TallyAlone ==
  ASSUME NEW S, IsFiniteSet(S), NEW T, S \subseteq T, NEW g, NEW h, \A x \in S : g[x] = h[x],
         NEW it, NEW jt, Tally(it, g, S), Tally(jt, h, T)
  PROVE  \A s \in SUBSET S : it[s] = jt[s]
  <1> DEFINE Out == {s \in SUBSET S : it[s] # jt[s]}
  <1> SUFFICES ASSUME Out # {} PROVE FALSE
    OBVIOUS
  <1>1. PICK s \in Out : \A x \in s : s \ {x} \notin Out
    <2>1. Out \subseteq SUBSET S
      OBVIOUS
    <2> HIDE DEF Out
    <2> QED
      BY <2>1, Smallest
  <1>2. s \in SUBSET S /\ s \in SUBSET T /\ it[s] # jt[s]
    OBVIOUS
  <1>3. s # {}
    <2>1. it[{}] = 0 /\ jt[{}] = 0
      BY TallyAt
    <2> QED
      BY <1>2, <2>1
  <1>4. First(s) \in s /\ s \ {First(s)} \in SUBSET S
    BY <1>2, <1>3, TallyAt
  <1>5. it[s \ {First(s)}] = jt[s \ {First(s)}]
    BY <1>1, <1>4
  <1>6. it[s] = g[First(s)] + it[s \ {First(s)}] /\ jt[s] = h[First(s)] + jt[s \ {First(s)}]
    BY <1>2, <1>3, TallyAt
  <1> QED
    BY <1>2, <1>4, <1>5, <1>6

LEMMA TotalIs ==
  ASSUME NEW T, IsFiniteSet(T), NEW S, S \subseteq T, NEW g, NEW it, Tally(it, g, T)
  PROVE  Total(g, S) = it[S]
  <1>1. IsFiniteSet(S)
    BY FS_Subset
  <1>2. Tally(CHOOSE jt : Tally(jt, g, S), g, S)
    BY <1>1, TallyExists
  <1> QED
    BY <1>1, <1>2, TallyAlone DEF Total

LEMMA TotalOf ==
  ASSUME NEW S, IsFiniteSet(S), NEW g, \A x \in S : g[x] \in Int
  PROVE  /\ Total(g, S) \in Int
         /\ \A x \in S : Total(g, S) = g[x] + Total(g, S \ {x})
  <1>1. PICK it : Tally(it, g, S)
    BY TallyExists
  <1>2. \A s \in SUBSET S : Total(g, s) = it[s]
    BY <1>1, TotalIs
  <1>5. \A s \in SUBSET S : s # {} => it[s] = g[First(s)] + it[s \ {First(s)}] /\ First(s) \in s
    BY <1>1, TallyAt
  <1>3. \A s \in SUBSET S : it[s] \in Int
    <2> DEFINE Out == {s \in SUBSET S : it[s] \notin Int}
    <2> SUFFICES ASSUME Out # {} PROVE FALSE
      OBVIOUS
    <2>1. PICK s \in Out : \A x \in s : s \ {x} \notin Out
      <3>1. Out \subseteq SUBSET S
        OBVIOUS
      <3> HIDE DEF Out
      <3> QED
        BY <3>1, Smallest
    <2>2. s # {}
      <3>1. it[{}] = 0
        BY <1>1, TallyAt
      <3> QED
        BY <3>1
    <2>3. it[s] = g[First(s)] + it[s \ {First(s)}] /\ First(s) \in s
      BY <1>5, <2>2
    <2>4. it[s \ {First(s)}] \in Int /\ g[First(s)] \in Int
      BY <2>1, <2>3
    <2> QED
      BY <2>3, <2>4
  <1>4. \A s \in SUBSET S : \A x \in s : it[s] = g[x] + it[s \ {x}]
    <2> DEFINE Out == {s \in SUBSET S : \E x \in s : it[s] # g[x] + it[s \ {x}]}
    <2> SUFFICES ASSUME Out # {} PROVE FALSE
      OBVIOUS
    <2>1. PICK s \in Out : \A x \in s : s \ {x} \notin Out
      <3>1. Out \subseteq SUBSET S
        OBVIOUS
      <3> HIDE DEF Out
      <3> QED
        BY <3>1, Smallest
    <2>2. PICK x \in s : it[s] # g[x] + it[s \ {x}]
      OBVIOUS
    <2>3. PICK c \in s : it[s] = g[c] + it[s \ {c}]
      <3>1. s # {} /\ s \in SUBSET S
        BY <2>2
      <3>2. it[s] = g[First(s)] + it[s \ {First(s)}] /\ First(s) \in s
        BY <1>5, <3>1
      <3> QED
        BY <3>2
    <2>4. c # x
      BY <2>2, <2>3
    <2>5. it[s \ {c}] = g[x] + it[(s \ {c}) \ {x}]
      BY <2>1, <2>2, <2>4
    <2>6. it[s \ {x}] = g[c] + it[(s \ {x}) \ {c}]
      BY <2>1, <2>3, <2>4
    <2>7. (s \ {c}) \ {x} = (s \ {x}) \ {c} /\ (s \ {c}) \ {x} \in SUBSET S
      OBVIOUS
    <2>8. g[x] \in Int /\ g[c] \in Int /\ it[(s \ {c}) \ {x}] \in Int
      BY <2>7, <1>3
    <2>9. it[s \ {x}] = g[c] + it[(s \ {c}) \ {x}]
      BY <2>6, <2>7
    <2>10. g[c] + (g[x] + it[(s \ {c}) \ {x}]) = g[x] + (g[c] + it[(s \ {c}) \ {x}])
      BY <2>8
    <2> QED
      BY <2>2, <2>3, <2>5, <2>9, <2>10
  <1> QED
    BY <1>2, <1>3, <1>4

LEMMA TotalNone == \A g : Total(g, {}) = 0
  <1> TAKE g
  <1>1. PICK it : Tally(it, g, {})
    BY TallyExists, FS_EmptySet
  <1> QED
    BY <1>1, TotalIs, TallyAt, FS_EmptySet

LEMMA TotalGrows ==
  ASSUME NEW S, IsFiniteSet(S), NEW x, x \notin S, NEW g, \A y \in S \cup {x} : g[y] \in Int
  PROVE  Total(g, S \cup {x}) = g[x] + Total(g, S)
  <1>1. IsFiniteSet(S \cup {x}) /\ x \in S \cup {x} /\ (S \cup {x}) \ {x} = S
    BY FS_AddElement
  <1> QED
    BY <1>1, TotalOf

\* A sum over fewer numbers, none of them negative, is no more.
LEMMA TotalOrder ==
  ASSUME NEW T, IsFiniteSet(T), NEW g, NEW h,
         \A x \in T : g[x] \in Int /\ h[x] \in Int /\ g[x] <= h[x]
  PROVE  Total(g, T) <= Total(h, T)
  <1> DEFINE W == {S \in SUBSET T : Total(g, S) <= Total(h, S)}
  <1>1. {} \in W
    BY TotalNone
  <1>2. ASSUME NEW S \in SUBSET T, NEW x \in T \ S, S \in W PROVE S \cup {x} \in W
    <2>1. IsFiniteSet(S) /\ Total(g, S) <= Total(h, S)
      BY <1>2, FS_Subset
    <2>2. Total(g, S) \in Int /\ Total(h, S) \in Int
      BY <2>1, TotalOf
    <2>3. Total(g, S \cup {x}) = g[x] + Total(g, S) /\ Total(h, S \cup {x}) = h[x] + Total(h, S)
      BY <2>1, TotalGrows
    <2>4. Total(g, S \cup {x}) <= Total(h, S \cup {x})
      BY <2>1, <2>2, <2>3
    <2> QED
      BY <2>4
  <1> HIDE DEF W
  <1>3. T \in W
    BY <1>1, <1>2, FillingUp
  <1> QED
    BY <1>3 DEF W

LEMMA TotalSame ==
  ASSUME NEW S, IsFiniteSet(S), NEW g, NEW h, \A x \in S : g[x] = h[x]
  PROVE  Total(g, S) = Total(h, S)
  <1>1. Tally(CHOOSE it : Tally(it, g, S), g, S) /\ Tally(CHOOSE it : Tally(it, h, S), h, S)
    BY TallyExists
  <1> QED
    BY <1>1, TallyAlone DEF Total

LEMMA TotalApart ==
  ASSUME NEW S, IsFiniteSet(S), NEW T, IsFiniteSet(T), S \cap T = {},
         NEW g, \A x \in S \cup T : g[x] \in Int
  PROVE  Total(g, S \cup T) = Total(g, S) + Total(g, T)
  <1> DEFINE W == {U \in SUBSET T : Total(g, S \cup U) = Total(g, S) + Total(g, U)}
  <1>1. {} \in W
    <2>1. Total(g, S) \in Int /\ S \cup {} = S
      BY TotalOf
    <2> QED
      BY <2>1, TotalNone
  <1>2. ASSUME NEW U \in SUBSET T, NEW x \in T \ U, U \in W PROVE U \cup {x} \in W
    <2>1. IsFiniteSet(U) /\ Total(g, S \cup U) = Total(g, S) + Total(g, U)
      BY <1>2, FS_Subset
    <2>2. IsFiniteSet(S \cup U)
      BY <2>1, FS_Union
    <2>3. Total(g, S) \in Int /\ Total(g, U) \in Int /\ g[x] \in Int
      BY <2>1, TotalOf
    <2>4. Total(g, U \cup {x}) = g[x] + Total(g, U)
      BY <2>1, TotalGrows
    <2>5. Total(g, (S \cup U) \cup {x}) = g[x] + Total(g, S \cup U)
      <3>1. x \notin S \cup U /\ \A y \in (S \cup U) \cup {x} : g[y] \in Int
        OBVIOUS
      <3> QED
        BY <3>1, <2>2, TotalGrows
    <2>6. (S \cup U) \cup {x} = S \cup (U \cup {x})
      OBVIOUS
    <2>7. Total(g, (S \cup U) \cup {x}) = Total(g, S \cup (U \cup {x}))
      BY <2>6, Zenon
    <2>8. Total(g, S \cup (U \cup {x})) = Total(g, S) + Total(g, U \cup {x})
      BY <2>1, <2>3, <2>4, <2>5, <2>7
    <2> QED
      BY <2>8
  <1> HIDE DEF W
  <1>3. T \in W
    BY <1>1, <1>2, FillingUp
  <1> QED
    BY <1>3 DEF W

LEMMA TotalNat ==
  ASSUME NEW S, IsFiniteSet(S), NEW g, \A x \in S : g[x] \in Nat
  PROVE  Total(g, S) \in Nat
  <1> DEFINE W == {U \in SUBSET S : Total(g, U) \in Nat}
  <1>1. {} \in W
    BY TotalNone
  <1>2. ASSUME NEW U \in SUBSET S, NEW x \in S \ U, U \in W PROVE U \cup {x} \in W
    <2>1. IsFiniteSet(U) /\ \A y \in U \cup {x} : g[y] \in Int
      BY FS_Subset
    <2>2. Total(g, U \cup {x}) = g[x] + Total(g, U)
      BY <2>1, TotalGrows
    <2> QED
      BY <1>2, <2>2
  <1> HIDE DEF W
  <1>3. S \in W
    BY <1>1, <1>2, FillingUp
  <1> QED
    BY <1>3 DEF W

LEMMA TotalPart ==
  ASSUME NEW T, IsFiniteSet(T), NEW g, \A x \in T : g[x] \in Nat, NEW S, S \subseteq T
  PROVE  Total(g, S) \in Nat /\ Total(g, T) \in Nat /\ Total(g, S) <= Total(g, T)
  <1>1. IsFiniteSet(S) /\ IsFiniteSet(T \ S) /\ S \cup (T \ S) = T /\ S \cap (T \ S) = {}
    BY FS_Subset
  <1>2. Total(g, S) \in Nat /\ Total(g, T \ S) \in Nat /\ Total(g, T) \in Nat
    BY <1>1, TotalNat
  <1>3. Total(g, S \cup (T \ S)) = Total(g, S) + Total(g, T \ S)
    <2>1. \A x \in S \cup (T \ S) : g[x] \in Int
      OBVIOUS
    <2> QED
      BY <1>1, <2>1, TotalApart
  <1>4. Total(g, S \cup (T \ S)) = Total(g, T)
    BY <1>1, Zenon
  <1> QED
    BY <1>2, <1>3, <1>4

----------------------------------------------------------------------------
(* What a filter leaves of a sequence.                                        *)

Sieve(s, T, n, f) ==
    f = [i \in 0..n |-> IF i = 0 THEN <<>>
                        ELSE IF s[i] \in T THEN Append(f[i - 1], s[i]) ELSE f[i - 1]]

LEMMA SieveExists ==
  ASSUME NEW s, NEW T, NEW n \in Nat
  PROVE  \E f : Sieve(s, T, n, f)
  <1> DEFINE W == {k \in Nat : \E f : Sieve(s, T, k, f)}
  <1>1. 0 \in W
    <2>1. Sieve(s, T, 0, [i \in 0..0 |-> <<>>])
      BY DEF Sieve
    <2> QED
      BY <2>1
  <1>2. ASSUME NEW k \in Nat, k \in W PROVE k + 1 \in W
    <2>1. PICK f : Sieve(s, T, k, f)
      BY <1>2
    <2> DEFINE last == IF s[k + 1] \in T THEN Append(f[k], s[k + 1]) ELSE f[k]
               g == [i \in 0..k + 1 |-> IF i = k + 1 THEN last ELSE f[i]]
    <2>2. \A i \in 0..k : g[i] = f[i]
      OBVIOUS
    <2>3. \A i \in 0..k : f[i] = IF i = 0 THEN <<>>
                                 ELSE IF s[i] \in T THEN Append(f[i - 1], s[i]) ELSE f[i - 1]
      BY <2>1 DEF Sieve
    <2>4. ASSUME NEW i \in 0..k + 1
          PROVE  g[i] = IF i = 0 THEN <<>>
                        ELSE IF s[i] \in T THEN Append(g[i - 1], s[i]) ELSE g[i - 1]
      <3>1. CASE i \in 0..k
        <4>1. i = 0 \/ i - 1 \in 0..k
          BY <3>1
        <4> HIDE DEF g
        <4> QED
          BY <4>1, <3>1, <2>2, <2>3
      <3>2. CASE i = k + 1
        <4>1. i # 0 /\ i - 1 = k /\ k \in 0..k
          BY <3>2
        <4>2. g[k] = f[k]
          BY <4>1, <2>2
        <4>3. g[i] = last
          BY <3>2
        <4> HIDE DEF g
        <4> QED
          BY <4>1, <4>2, <4>3, <3>2
      <3> QED
        BY <3>1, <3>2
    <2>5. Sieve(s, T, k + 1, g)
      BY <2>4 DEF Sieve
    <2> QED
      BY <2>5
  <1> QED
    BY <1>1, <1>2, CountingUp

InOrder(s) == \A i, j \in 1..Len(s) : i < j => s[i].no < s[j].no

LEMMA AppendedRange ==
  ASSUME NEW S, NEW s \in Seq(S), NEW x \in S
  PROVE  Charts!Range(Append(s, x)) = Charts!Range(s) \cup {x}
  <1> DEFINE t == Append(s, x)
  <1>1. /\ DOMAIN t = 1..Len(s) + 1 /\ DOMAIN s = 1..Len(s) /\ Len(s) \in Nat
        /\ t[Len(s) + 1] = x /\ \A i \in 1..Len(s) : t[i] = s[i]
    OBVIOUS
  <1> HIDE DEF t
  <1>2. Charts!Range(t) = Charts!Range(s) \cup {x}
    BY <1>1 DEF Charts!Range
  <1> QED
    BY <1>2 DEF t

\* What Vec::retain leaves is what is in T, in the order it had.
LEMMA OnlyLeaves ==
  ASSUME NEW S, NEW s \in Seq(S), NEW T
  PROVE  /\ Charts!Only(s, T) \in Seq(S)
         /\ Charts!Range(Charts!Only(s, T)) = Charts!Range(s) \cap T
         /\ InOrder(s) => InOrder(Charts!Only(s, T))
  <1> DEFINE f == CHOOSE g : Sieve(s, T, Len(s), g)
             Holds(k) == /\ f[k] \in Seq(S)
                         /\ Charts!Range(f[k]) = {s[i] : i \in 1..k} \cap T
                         /\ InOrder(s) => InOrder(f[k])
             W == {k \in Nat : k <= Len(s) => Holds(k)}
  <1>1. Len(s) \in Nat /\ DOMAIN s = 1..Len(s) /\ \A i \in 1..Len(s) : s[i] \in S
    OBVIOUS
  <1>2. Sieve(s, T, Len(s), f)
    BY <1>1, SieveExists
  <1>3. Charts!Only(s, T) = f[Len(s)]
    BY DEF Charts!Only, Sieve
  <1>4. \A k \in 0..Len(s) :
            f[k] = IF k = 0 THEN <<>>
                   ELSE IF s[k] \in T THEN Append(f[k - 1], s[k]) ELSE f[k - 1]
    BY <1>1, <1>2, Zenon DEF Sieve
  <1> HIDE DEF f
  <1>5. 0 \in W
    <2>1. f[0] = <<>>
      BY <1>1, <1>4
    <2>2. Holds(0)
      BY <2>1 DEF InOrder, Charts!Range
    <2> QED
      BY <2>2
  <1>6. ASSUME NEW k \in Nat, k \in W PROVE k + 1 \in W
    <2> SUFFICES ASSUME k + 1 <= Len(s) PROVE Holds(k + 1)
      OBVIOUS
    <2>1. Holds(k) /\ k + 1 \in 1..Len(s) /\ s[k + 1] \in S
      BY <1>1, <1>6
    <2>2. {s[i] : i \in 1..k + 1} = {s[i] : i \in 1..k} \cup {s[k + 1]}
      <3>1. 1..k + 1 = (1..k) \cup {k + 1}
        OBVIOUS
      <3> QED
        BY <3>1
    <2>3. f[k + 1] = IF s[k + 1] \in T THEN Append(f[k], s[k + 1]) ELSE f[k]
      <3>1. k + 1 \in 0..Len(s) /\ k + 1 # 0 /\ (k + 1) - 1 = k
        BY <1>1, <2>1
      <3> QED
        BY <1>4, <3>1
    <2>4. CASE s[k + 1] \notin T
      <3>1. f[k + 1] = f[k]
        BY <2>3, <2>4
      <3> QED
        BY <2>1, <2>2, <2>4, <3>1
    <2>5. CASE s[k + 1] \in T
      <3>1. f[k + 1] = Append(f[k], s[k + 1])
        BY <2>3, <2>5
      <3>2. /\ f[k + 1] \in Seq(S)
            /\ Charts!Range(f[k + 1]) = Charts!Range(f[k]) \cup {s[k + 1]}
        BY <2>1, <3>1, AppendedRange
      <3>3. ASSUME InOrder(s) PROVE InOrder(f[k + 1])
        <4>1. \A i \in 1..Len(f[k]) : f[k][i].no < s[k + 1].no
          <5> SUFFICES ASSUME NEW i \in 1..Len(f[k]) PROVE f[k][i].no < s[k + 1].no
            OBVIOUS
          <5>0. i \in DOMAIN f[k]
            BY <2>1
          <5>1. f[k][i] \in {s[j] : j \in 1..k}
            BY <2>1, <5>0 DEF Charts!Range
          <5>2. PICK j \in 1..k : f[k][i] = s[j]
            BY <5>1
          <5>3. j \in 1..Len(s) /\ j < k + 1
            BY <1>1, <2>1
          <5> QED
            BY <2>1, <3>3, <5>2, <5>3 DEF InOrder
        <4>2. /\ Len(f[k + 1]) = Len(f[k]) + 1 /\ f[k + 1][Len(f[k]) + 1] = s[k + 1]
              /\ \A i \in 1..Len(f[k]) : f[k + 1][i] = f[k][i]
              /\ Len(f[k]) \in Nat
          BY <2>1, <3>1
        <4>3. InOrder(f[k])
          BY <2>1, <3>3
        <4> SUFFICES ASSUME NEW i \in 1..Len(f[k]) + 1, NEW j \in 1..Len(f[k]) + 1, i < j
                     PROVE  f[k + 1][i].no < f[k + 1][j].no
          BY <4>2 DEF InOrder
        <4>4. i \in 1..Len(f[k])
          BY <4>2
        <4>5. CASE j \in 1..Len(f[k])
          BY <4>2, <4>3, <4>4, <4>5 DEF InOrder
        <4>6. CASE j = Len(f[k]) + 1
          BY <4>1, <4>2, <4>4, <4>6
        <4> QED
          BY <4>2, <4>5, <4>6
      <3> QED
        BY <2>1, <2>2, <2>5, <3>2, <3>3
    <2> QED
      BY <2>4, <2>5
  <1>7. Len(s) \in W
    <2> HIDE DEF W
    <2> QED
      BY <1>1, <1>5, <1>6, CountingUp
  <1>8. {s[i] : i \in 1..Len(s)} = Charts!Range(s)
    BY <1>1 DEF Charts!Range
  <1>9. Holds(Len(s))
    BY <1>1, <1>7
  <1> QED
    BY <1>3, <1>8, <1>9

LEMMA AppendedInOrder ==
  ASSUME NEW S, NEW s \in Seq(S), NEW x \in S, InOrder(s),
         \A p \in Charts!Range(s) : p.no < x.no
  PROVE  InOrder(Append(s, x))
  <1> DEFINE t == Append(s, x)
  <1>1. /\ Len(t) = Len(s) + 1 /\ DOMAIN s = 1..Len(s) /\ Len(s) \in Nat
        /\ t[Len(s) + 1] = x /\ \A i \in 1..Len(s) : t[i] = s[i]
    OBVIOUS
  <1>2. \A i \in 1..Len(s) : s[i] \in Charts!Range(s)
    BY <1>1 DEF Charts!Range
  <1> HIDE DEF t
  <1> SUFFICES ASSUME NEW i \in 1..Len(s) + 1, NEW j \in 1..Len(s) + 1, i < j
               PROVE  t[i].no < t[j].no
    BY <1>1 DEF InOrder, t
  <1>3. i \in 1..Len(s)
    BY <1>1
  <1>4. CASE j \in 1..Len(s)
    BY <1>1, <1>3, <1>4 DEF InOrder
  <1>5. CASE j = Len(s) + 1
    BY <1>1, <1>2, <1>3, <1>5
  <1> QED
    BY <1>1, <1>4, <1>5

----------------------------------------------------------------------------
(* The charts (Charts): a point stands as far back from the last tick as its  *)
(* reading is old by the wall clock, and the stretch between two sleeps is    *)
(* known by where its points stand.                                           *)

RingPoints == [at : Int, no : Nat]
CurvePoints == [at : Int, no : Nat, moved : BOOLEAN]
Readings == [st : {"read"}, up : Nat, moved : BOOLEAN, late : BOOLEAN, in : Nat]
Sayings == [up : Nat, wall : Int, missed : Int, in : Nat]
Pricings == [up : Nat, late : BOOLEAN, in : Nat]
Spans == [first : Nat, last : Nat]

ChartTypes ==
  /\ up \in Nat /\ wall \in Int /\ missed \in Int
  /\ clock \in [up : Nat \cup {None}, wall : Int] /\ awakeSince \in Nat \cup {None}
  /\ ring \in Seq(RingPoints)
  /\ curve \in Seq(CurvePoints)
  /\ reading \in {Charts!Idle, Charts!Asked} \cup Readings
  /\ said \in Seq(Sayings)
  /\ priced \in Seq(Pricings)
  /\ stretches \in Seq(Spans)

Newest == Len(stretches)
Began == stretches[Newest].first

ClocksKept ==
  \/ /\ clock.up = None /\ stretches = <<>> /\ said = <<>> /\ priced = <<>>
     /\ ring = <<>> /\ curve = <<>> /\ reading = Charts!Idle /\ awakeSince = None
  \/ /\ clock.up \in Nat /\ clock.up <= up
     /\ Newest > 0 /\ stretches[Newest].last = clock.up /\ Began <= clock.up
     /\ awakeSince = IF Newest > 1 THEN Began ELSE None

Spot(no) == clock.up - Charts!Age(said[no])
Due(no) == ~Charts!Brief(said[no].in) /\ Charts!Age(said[no]) <= ChartWindow

RingKept ==
  /\ InOrder(ring)
  /\ \A no \in 1..Len(said) :
        /\ said[no].in \in 1..Newest /\ Charts!Age(said[no]) >= 0
        /\ said[no].in < Newest => Spot(no) < Began
        /\ said[no].in = Newest /\ Newest > 1 => Spot(no) >= Began
  /\ \A m, no \in 1..Len(said) : m < no => Charts!Age(said[m]) >= Charts!Age(said[no])
  /\ Charts!Range(ring) = {[at |-> Spot(no), no |-> no] : no \in {m \in 1..Len(said) : Due(m)}}

On(no) == \E p \in Charts!Range(curve) : p.no = no

NoHoles ==
  \A no \in 1..Len(priced) :
     \/ priced[no].late
     \/ Charts!Brief(priced[no].in) /\ ~On(no)
     \/ /\ ~Charts!Brief(priced[no].in)
        /\ \A p \in Charts!Range(curve) : p.moved /\ p.no < no => On(no)

CurveKept ==
  /\ InOrder(curve)
  /\ \A p \in Charts!Range(curve) :
        /\ p.no \in 1..Len(priced) /\ p.at <= up
        /\ reading.st = "asked" => p.at <= clock.up
        /\ reading.st = "read" => p.at <= reading.up
        /\ ~priced[p.no].late =>
              IF priced[p.no].in = Newest THEN p.at = priced[p.no].up ELSE p.at < Began
  /\ \A p, q \in Charts!Range(curve) : p.no < q.no => p.at <= q.at
  /\ \A no \in 1..Len(priced) :
        ~priced[no].late => /\ priced[no].in \in 1..Newest
                            /\ priced[no].in = Newest => priced[no].up >= Began
  /\ reading.st = "read" =>
        /\ reading.up <= up
        /\ ~reading.late => reading.in = Newest /\ reading.up >= Began
  /\ NoHoles

ChartsKept == ChartTypes /\ ClocksKept /\ RingKept /\ CurveKept

ChartFacts ==
  /\ None \notin Int /\ ChartWindow \in Nat /\ CurveWindow \in Nat /\ SleepGap \in Nat
  /\ BriefWake \in Nat /\ SleepLengths \subseteq Nat

LEMMA ChartsAssumed == ChartFacts
  BY FiguresAssumption DEF ChartFacts

\* Where a sleep puts a point.
Back(p) == IF p.at > clock.up THEN p ELSE [p EXCEPT !.at = @ - Charts!Asleep]

LEMMA BackOf ==
  ASSUME clock.up \in Int, Charts!Asleep \in Int,
         NEW S \in {RingPoints, CurvePoints}, NEW p \in S
  PROVE  /\ Back(p) \in S /\ Back(p).no = p.no
         /\ Back(p).at = IF p.at > clock.up THEN p.at ELSE p.at - Charts!Asleep
         /\ S = CurvePoints => Back(p).moved = p.moved
  <1>1. ASSUME NEW q \in RingPoints, NEW by \in Int
        PROVE  LET older == [q EXCEPT !.at = @ - by] IN
               older \in RingPoints /\ older.no = q.no /\ older.at = q.at - by
    BY DEF RingPoints
  <1>2. ASSUME NEW q \in CurvePoints, NEW by \in Int
        PROVE  LET older == [q EXCEPT !.at = @ - by] IN
               /\ older \in CurvePoints /\ older.no = q.no /\ older.at = q.at - by
               /\ older.moved = q.moved
    BY DEF CurvePoints
  <1> DEFINE older == [p EXCEPT !.at = @ - Charts!Asleep]
  <1>3. Back(p) = IF p.at > clock.up THEN p ELSE older
    BY DEF Back
  <1>4. CASE S = RingPoints
    <2>1. older \in RingPoints /\ older.no = p.no /\ older.at = p.at - Charts!Asleep
      BY <1>1, <1>4
    <2>2. RingPoints # CurvePoints
      <3>1. [at |-> 0, no |-> 0] \in RingPoints /\ [at |-> 0, no |-> 0] \notin CurvePoints
        BY DEF RingPoints, CurvePoints
      <3> QED
        BY <3>1
    <2> HIDE DEF older
    <2> QED
      BY <1>3, <1>4, <2>1, <2>2
  <1>5. CASE S = CurvePoints
    <2>1. /\ older \in CurvePoints /\ older.no = p.no /\ older.at = p.at - Charts!Asleep
          /\ older.moved = p.moved
      BY <1>2, <1>5
    <2> HIDE DEF older
    <2> QED
      BY <1>3, <1>5, <2>1
  <1> QED
    BY <1>4, <1>5

LEMMA ShiftLeaves ==
  ASSUME NEW S \in {RingPoints, CurvePoints}, NEW s \in Seq(S), clock.up \in Int,
         Charts!Asleep \in Int, InOrder(s)
  PROVE  /\ Charts!Shift(s, clock.up, Charts!Asleep) \in Seq(S)
         /\ Charts!Range(Charts!Shift(s, clock.up, Charts!Asleep))
                = {Back(p) : p \in Charts!Range(s)}
         /\ InOrder(Charts!Shift(s, clock.up, Charts!Asleep))
  <1> DEFINE t == Charts!Shift(s, clock.up, Charts!Asleep)
  <1>1. /\ DOMAIN s = 1..Len(s) /\ Len(s) \in Nat /\ \A i \in 1..Len(s) : s[i] \in S
    OBVIOUS
  <1>2. t = [i \in 1..Len(s) |-> Back(s[i])]
    BY <1>1 DEF Charts!Shift, Back
  <1>3. ASSUME NEW p \in S PROVE Back(p) \in S /\ Back(p).no = p.no
    BY BackOf
  <1> HIDE DEF t
  <1>4. t \in Seq(S) /\ Len(t) = Len(s) /\ DOMAIN t = 1..Len(s)
    BY <1>1, <1>2, <1>3
  <1>5. Charts!Range(t) = {Back(p) : p \in Charts!Range(s)}
    BY <1>1, <1>2, <1>4 DEF Charts!Range
  <1>6. InOrder(t)
    <2>1. \A i \in 1..Len(s) : t[i].no = s[i].no
      BY <1>1, <1>2, <1>3
    <2> QED
      BY <2>1, <1>4 DEF InOrder
  <1> QED
    BY <1>4, <1>5, <1>6 DEF t

\* What is left on a line after a sleep.
Left(s) == IF Charts!Stub THEN {p \in Charts!Range(s) : p.at < awakeSince}
           ELSE Charts!Range(s)

LEMMA WokenLeaves ==
  ASSUME NEW S \in {RingPoints, CurvePoints}, NEW s \in Seq(S), clock.up \in Int,
         Charts!Asleep \in Int, InOrder(s), Charts!Slept
  PROVE  /\ Charts!Woken(s) \in Seq(S)
         /\ Charts!Range(Charts!Woken(s)) = {Back(p) : p \in Left(s)}
         /\ InOrder(Charts!Woken(s))
  <1> DEFINE r == IF Charts!Stub THEN Charts!ForgetFrom(s, awakeSince) ELSE s
  <1>1. Charts!Woken(s) = Charts!Shift(r, clock.up, Charts!Asleep)
    BY DEF Charts!Woken
  <1>2. r \in Seq(S) /\ InOrder(r) /\ Charts!Range(r) = Left(s)
    <2>1. CASE Charts!Stub
      <3>1. r = Charts!Only(s, {p \in Charts!Range(s) : p.at < awakeSince})
        BY <2>1 DEF Charts!ForgetFrom
      <3> HIDE DEF r
      <3>2. r \in Seq(S) /\ InOrder(r)
        BY <3>1, OnlyLeaves
      <3>3. Charts!Range(r) = Charts!Range(s) \cap {p \in Charts!Range(s) : p.at < awakeSince}
        BY <3>1, OnlyLeaves
      <3>4. Charts!Range(r) = Left(s)
        BY <3>3, <2>1 DEF Left
      <3> QED
        BY <3>2, <3>4
    <2>2. CASE ~Charts!Stub
      BY <2>2 DEF Left
    <2> QED
      BY <2>1, <2>2
  <1> HIDE DEF r
  <1> QED
    BY <1>1, <1>2, ShiftLeaves

LEMMA LeastIs ==
  ASSUME NEW T, T \subseteq Nat, T # {}
  PROVE  Charts!Min(T) \in T /\ \A n \in T : Charts!Min(T) <= n
  <1>1. \E least \in T : \A n \in T : least <= n
    <2> SUFFICES ASSUME \A least \in T : \E n \in T : n < least PROVE FALSE
      OBVIOUS
    <2> DEFINE S == {n \in Nat : \A m \in T : n < m}
    <2>1. 0 \in S
      <3>1. 0 \notin T
        OBVIOUS
      <3> QED
        BY <3>1
    <2>2. ASSUME NEW n \in Nat, n \in S PROVE n + 1 \in S
      <3>1. n + 1 \notin T
        BY <2>2
      <3> QED
        BY <2>2, <3>1
    <2> HIDE DEF S
    <2>3. Nat \subseteq S
      BY <2>1, <2>2, CountingUp
    <2>4. PICK n \in T : n \in Nat
      OBVIOUS
    <2>5. n \in S
      BY <2>3, <2>4
    <2>6. n < n
      BY <2>4, <2>5 DEF S
    <2> QED
      BY <2>4, <2>6
  <1> QED
    BY <1>1 DEF Charts!Min

\* The points stand in the order of time, too.
InTime(s) == \A i, j \in 1..Len(s) : i < j => s[i].at <= s[j].at

LEMMA PruneLeaves ==
  ASSUME NEW s \in Seq(RingPoints), InOrder(s), InTime(s), NEW at \in Int
  PROVE  LET r == Charts!Prune(s, at) IN
         /\ r \in Seq(RingPoints) /\ InOrder(r)
         /\ Charts!Range(r) = {p \in Charts!Range(s) : at - p.at <= ChartWindow}
  <1> DEFINE fresh == {i \in DOMAIN s : at - s[i].at <= ChartWindow}
             m == Charts!Min(fresh)
             r == Charts!Prune(s, at)
  <1>1. /\ Len(s) \in Nat /\ DOMAIN s = 1..Len(s) /\ ChartWindow \in Nat
        /\ \A i \in 1..Len(s) : s[i] \in RingPoints /\ s[i].at \in Int
    <2>1. Len(s) \in Nat /\ DOMAIN s = 1..Len(s) /\ \A i \in 1..Len(s) : s[i] \in RingPoints
      OBVIOUS
    <2>2. \A p \in RingPoints : p.at \in Int
      BY DEF RingPoints
    <2> QED
      BY <2>1, <2>2, ChartsAssumed DEF ChartFacts
  <1>2. r = IF fresh = {} THEN <<>> ELSE SubSeq(s, m, Len(s))
    BY DEF Charts!Prune
  <1> HIDE DEF r
  <1>3. CASE fresh = {}
    <2>1. r = <<>> /\ Charts!Range(r) = {}
      BY <1>2, <1>3 DEF Charts!Range
    <2>2. {p \in Charts!Range(s) : at - p.at <= ChartWindow} = {}
      BY <1>3 DEF Charts!Range
    <2> QED
      BY <2>1, <2>2 DEF r, InOrder
  <1>4. CASE fresh # {}
    <2>1. m \in fresh /\ \A i \in fresh : m <= i
      <3>1. fresh \subseteq Nat
        BY <1>1
      <3> HIDE DEF fresh
      <3> QED
        BY <1>4, <3>1, LeastIs
    <2> HIDE DEF m
    <2>2. m \in 1..Len(s) /\ at - s[m].at <= ChartWindow
      BY <1>1, <2>1
    <2>3. \A i \in 1..Len(s) : i < m => ~(at - s[i].at <= ChartWindow)
      BY <1>1, <2>1
    <2>4. \A i \in 1..Len(s) : i >= m => at - s[i].at <= ChartWindow
      <3> SUFFICES ASSUME NEW i \in 1..Len(s), i >= m PROVE at - s[i].at <= ChartWindow
        OBVIOUS
      <3>1. s[m].at <= s[i].at
        BY <1>1, <2>2 DEF InTime
      <3> QED
        BY <1>1, <2>2, <3>1
    <2>5. r = SubSeq(s, m, Len(s))
      BY <1>2, <1>4
    <2> HIDE DEF fresh
    <2>6. /\ r \in Seq(RingPoints) /\ Len(r) = Len(s) - m + 1 /\ DOMAIN r = 1..Len(s) - m + 1
          /\ \A i \in 1..Len(r) : r[i] = s[i + m - 1]
      BY <1>1, <2>2, <2>5
    <2>7. InOrder(r)
      <3> SUFFICES ASSUME NEW i \in 1..Len(r), NEW j \in 1..Len(r), i < j
                   PROVE  r[i].no < r[j].no
        BY DEF InOrder
      <3>1. i + m - 1 \in 1..Len(s) /\ j + m - 1 \in 1..Len(s) /\ i + m - 1 < j + m - 1
        BY <1>1, <2>2, <2>6
      <3> QED
        BY <2>6, <3>1 DEF InOrder
    <2>8. Charts!Range(r) = {p \in Charts!Range(s) : at - p.at <= ChartWindow}
      <3>1. ASSUME NEW i \in 1..Len(r)
            PROVE  r[i] \in Charts!Range(s) /\ at - r[i].at <= ChartWindow
        <4>1. i + m - 1 \in 1..Len(s) /\ i + m - 1 >= m
          BY <1>1, <2>2, <2>6
        <4> QED
          BY <1>1, <2>4, <2>6, <4>1 DEF Charts!Range
      <3>2. ASSUME NEW i \in 1..Len(s), at - s[i].at <= ChartWindow
            PROVE  s[i] \in Charts!Range(r)
        <4>1. i >= m
          BY <1>1, <2>2, <2>3, <3>2
        <4>2. i - m + 1 \in 1..Len(r) /\ (i - m + 1) + m - 1 = i
          BY <1>1, <2>2, <2>6, <4>1
        <4>3. r[i - m + 1] = s[i]
          BY <2>6, <4>2
        <4> QED
          BY <2>6, <4>2, <4>3 DEF Charts!Range
      <3> QED
        BY <1>1, <2>6, <3>1, <3>2 DEF Charts!Range
    <2> QED
      BY <2>6, <2>7, <2>8 DEF r
  <1> QED
    BY <1>3, <1>4

LEMMA RecordLeaves ==
  ASSUME NEW s \in Seq(RingPoints), InOrder(s), NEW at \in Int, NEW no \in Nat,
         \A p \in Charts!Range(s) : p.no < no /\ p.at <= at,
         \A p, q \in Charts!Range(s) : p.no < q.no => p.at <= q.at
  PROVE  LET x == [at |-> at, no |-> no]
             r == Charts!Record(s, at, no)
         IN  /\ r \in Seq(RingPoints) /\ InOrder(r)
             /\ Charts!Range(r)
                    = {p \in Charts!Range(s) \cup {x} : at - p.at <= ChartWindow}
  <1> DEFINE x == [at |-> at, no |-> no]
             t == Append(s, x)
             r == Charts!Prune(t, at)
  <1>1. x \in RingPoints /\ x.no = no /\ x.at = at
    BY DEF RingPoints
  <1>2. Charts!Record(s, at, no) = r
    BY DEF Charts!Record
  <1> HIDE DEF r, x
  <1>3. t \in Seq(RingPoints) /\ InOrder(t) /\ Charts!Range(t) = Charts!Range(s) \cup {x}
    BY <1>1, AppendedRange, AppendedInOrder
  <1> HIDE DEF t
  <1>4. InTime(t)
    <2> SUFFICES ASSUME NEW i \in 1..Len(t), NEW j \in 1..Len(t), i < j PROVE t[i].at <= t[j].at
      BY DEF InTime
    <2>1. /\ t[i] \in Charts!Range(s) \cup {x} /\ t[j] \in Charts!Range(s) \cup {x}
          /\ t[i].no < t[j].no /\ t[i].no \in Nat /\ t[j].no \in Nat
      <3>1. t[i] \in Charts!Range(t) /\ t[j] \in Charts!Range(t)
        BY <1>3 DEF Charts!Range
      <3>2. t[i] \in RingPoints /\ t[j] \in RingPoints
        BY <1>3
      <3>3. t[i].no \in Nat /\ t[j].no \in Nat
        BY <3>2 DEF RingPoints
      <3>4. t[i].no < t[j].no
        BY <1>3 DEF InOrder
      <3> QED
        BY <1>3, <3>1, <3>3, <3>4
    <2>2. t[i] \in Charts!Range(s)
      <3>1. t[j].no <= no
        BY <1>1, <2>1
      <3> QED
        BY <1>1, <2>1, <3>1
    <2> QED
      BY <1>1, <2>1, <2>2
  <1>5. /\ r \in Seq(RingPoints) /\ InOrder(r)
        /\ Charts!Range(r) = {p \in Charts!Range(t) : at - p.at <= ChartWindow}
    BY <1>3, <1>4, PruneLeaves DEF r
  <1> QED
    BY <1>2, <1>3, <1>5 DEF x

LEMMA CurveLeaves ==
  ASSUME NEW s \in Seq(CurvePoints), InOrder(s), NEW at \in Int, NEW no \in Nat,
         NEW moved \in BOOLEAN, \A p \in Charts!Range(s) : p.no < no,
         NEW x, x = [at |-> at, no |-> no, moved |-> moved],
         NEW r, r = Charts!RecordCurve(s, at, no, moved)
  PROVE  /\ r \in Seq(CurvePoints) /\ InOrder(r)
         /\ \/ Charts!Range(r) = {}
            \/ Charts!Range(r) = {p \in Charts!Range(s) \cup {x} : at - p.at <= CurveWindow}
  <1> DEFINE t == IF s = <<>> /\ ~moved THEN s ELSE Append(s, x)
             T == {p \in Charts!Range(t) : at - p.at <= CurveWindow}
             k == Charts!Only(t, T)
  <1>1. x \in CurvePoints /\ x.no = no
    BY DEF CurvePoints
  <1>2. r = IF \E i \in DOMAIN k : k[i].moved THEN k ELSE <<>>
    BY DEF Charts!RecordCurve
  <1>3. Charts!Range(<<>>) = {} /\ <<>> \in Seq(CurvePoints) /\ InOrder(<<>>)
    BY DEF Charts!Range, InOrder
  <1>4. CASE s = <<>> /\ ~moved
    <2>1. t = <<>>
      BY <1>4
    <2> HIDE DEF t
    <2>2. k \in Seq(CurvePoints) /\ Charts!Range(k) = {} /\ InOrder(k)
      <3>1. Charts!Range(t) \cap T = {}
        BY <2>1, <1>3
      <3> HIDE DEF T
      <3> QED
        BY <2>1, <3>1, <1>3, OnlyLeaves
    <2> HIDE DEF k
    <2> QED
      BY <1>2, <1>3, <2>2
  <1>5. CASE ~(s = <<>> /\ ~moved)
    <2>1. t = Append(s, x)
      BY <1>5
    <2> HIDE DEF t
    <2>2. t \in Seq(CurvePoints) /\ InOrder(t) /\ Charts!Range(t) = Charts!Range(s) \cup {x}
      BY <1>1, <2>1, AppendedRange, AppendedInOrder
    <2>3. Charts!Range(t) \cap T
              = {p \in Charts!Range(s) \cup {x} : at - p.at <= CurveWindow}
      BY <2>2
    <2> HIDE DEF T
    <2>4. /\ k \in Seq(CurvePoints) /\ InOrder(k)
          /\ Charts!Range(k) = Charts!Range(t) \cap T
      BY <2>2, OnlyLeaves
    <2> HIDE DEF k
    <2> QED
      BY <1>2, <1>3, <2>3, <2>4
  <1> QED
    BY <1>4, <1>5

LEMMA TickCuts ==
  ASSUME ChartTypes, ClocksKept, Charts!Tick
  PROVE  /\ stretches' \in Seq(Spans)
         /\ clock' = [up |-> up, wall |-> wall] /\ clock'.up = up /\ clock'.wall = wall
         /\ Newest' > 0 /\ stretches'[Newest'].last = up /\ Began' <= up
         /\ clock.up = None =>
               /\ Newest' = 1 /\ Began' = up /\ ~Charts!Slept /\ ~Charts!Ticked
         /\ clock.up # None =>
               /\ Charts!Ticked /\ clock.up \in Nat /\ clock.up < up /\ Newest > 0
               /\ Charts!Asleep \in Int
         /\ clock.up # None /\ ~Charts!Slept =>
               /\ Newest' = Newest /\ Began' = Began
               /\ \A s \in 1..Newest : s < Newest => stretches'[s] = stretches[s]
         /\ Charts!Slept =>
               /\ clock.up # None /\ Charts!Asleep > 0 /\ Newest' = Newest + 1 /\ Began' = up
               /\ \A s \in 1..Newest : stretches'[s] = stretches[s]
         /\ ClocksKept'
  <1> USE DEF Newest, Began
  <1> DEFINE new == [first |-> up, last |-> up]
  <1>1. /\ up \in Nat /\ wall \in Int /\ clock.wall \in Int /\ clock.up \in Nat \cup {None}
        /\ awakeSince \in Nat \cup {None} /\ stretches \in Seq(Spans)
        /\ new \in Spans /\ Len(stretches) \in Nat
    BY DEF ChartTypes, Spans
  <1>2. /\ clock.up # up /\ clock' = [up |-> up, wall |-> wall] /\ up' = up
        /\ stretches' = Charts!Ticks(stretches)
        /\ awakeSince' = IF Charts!Slept THEN up ELSE awakeSince
    BY DEF Charts!Tick, Charts!machine
  <1>3. None \notin Int /\ SleepGap \in Nat
    BY ChartsAssumed DEF ChartFacts
  <1>4. clock'.up = up /\ clock'.wall = wall
    BY <1>2
  <1> HIDE DEF new
  <1>5. CASE clock.up = None
    <2>1. ~Charts!Slept /\ ~Charts!Ticked
      BY <1>5 DEF Charts!Slept, Charts!Ticked
    <2>2. /\ stretches = <<>> /\ said = <<>> /\ priced = <<>> /\ awakeSince = None
      BY <1>5, <1>3 DEF ClocksKept
    <2>3. stretches' = <<new>>
      <3>1. stretches' = Append(stretches, new)
        BY <1>2, <2>2 DEF Charts!Ticks, new
      <3> QED
        BY <3>1, <2>2
    <2>4. stretches' \in Seq(Spans) /\ Len(stretches') = 1 /\ stretches'[1] = new
      BY <1>1, <2>3
    <2>5. /\ clock'.up \in Nat /\ clock'.up <= up' /\ Len(stretches') > 0
          /\ stretches'[Len(stretches')].last = clock'.up
          /\ stretches'[Len(stretches')].first = up /\ awakeSince' = None
      <3>1. new.first = up /\ new.last = up
        BY DEF new
      <3>2. Len(stretches') > 0 /\ stretches'[Len(stretches')] = new
        BY <2>4
      <3>3. awakeSince' = None
        BY <1>2, <2>1, <2>2
      <3> QED
        BY <1>1, <1>2, <1>4, <3>1, <3>2, <3>3
    <2>6. ClocksKept'
      BY <1>1, <1>4, <2>4, <2>5 DEF ClocksKept
    <2> QED
      BY <1>1, <1>2, <1>4, <1>5, <2>1, <2>4, <2>5, <2>6 DEF Spans, new
  <1>6. CASE clock.up # None
    <2>1. /\ clock.up \in Nat /\ clock.up <= up /\ Len(stretches) > 0
          /\ stretches[Len(stretches)].last = clock.up
          /\ stretches[Len(stretches)].first <= clock.up
          /\ awakeSince = IF Len(stretches) > 1 THEN stretches[Len(stretches)].first ELSE None
      BY <1>6 DEF ClocksKept
    <2>2. Charts!Ticked /\ clock.up < up
      BY <1>1, <1>2, <1>6, <2>1 DEF Charts!Ticked
    <2>3. Charts!Asleep \in Int
      BY <1>1, <2>1 DEF Charts!Asleep
    <2>4. stretches # <<>>
      BY <2>1
    <2>5. CASE Charts!Slept
      <3>1. stretches' = Append(stretches, new)
        BY <1>2, <2>5 DEF Charts!Ticks, new
      <3>2. /\ stretches' \in Seq(Spans) /\ Len(stretches') = Len(stretches) + 1
            /\ stretches'[Len(stretches) + 1] = new
            /\ \A s \in 1..Len(stretches) : stretches'[s] = stretches[s]
        BY <1>1, <3>1
      <3>3. Charts!Asleep > 0
        BY <1>3, <2>3, <2>5 DEF Charts!Slept
      <3>4. /\ Len(stretches') > 1 /\ stretches'[Len(stretches')] = new /\ Len(stretches') > 0
        BY <1>1, <2>1, <3>2
      <3>5. new.first = up /\ new.last = up /\ awakeSince' = up
        BY <1>2, <2>5 DEF new
      <3>6. ClocksKept'
        BY <1>1, <1>2, <1>4, <3>4, <3>5 DEF ClocksKept
      <3> QED
        BY <1>1, <1>2, <1>4, <1>6, <2>1, <2>2, <2>3, <2>5, <3>2, <3>3, <3>4, <3>5, <3>6 DEF Spans
    <2>6. CASE ~Charts!Slept
      <3>1. stretches' = [stretches EXCEPT ![Len(stretches)].last = up]
        BY <1>2, <2>4, <2>6 DEF Charts!Ticks
      <3>2. /\ stretches[Len(stretches)] \in Spans /\ stretches[Len(stretches)].first \in Nat
        <4>1. stretches[Len(stretches)] \in Spans
          BY <1>1, <2>1
        <4> QED
          BY <4>1 DEF Spans
      <3>3. [stretches[Len(stretches)] EXCEPT !.last = up] \in Spans
        BY <1>1, <3>2 DEF Spans
      <3>4. /\ stretches' \in Seq(Spans) /\ Len(stretches') = Len(stretches)
            /\ \A s \in 1..Len(stretches) : s < Len(stretches) => stretches'[s] = stretches[s]
            /\ stretches'[Len(stretches)] = [stretches[Len(stretches)] EXCEPT !.last = up]
        BY <1>1, <2>1, <3>1, <3>3
      <3>5. /\ stretches'[Len(stretches)].last = up
            /\ stretches'[Len(stretches)].first = stretches[Len(stretches)].first
        BY <3>2, <3>4 DEF Spans
      <3>6. awakeSince' = awakeSince
        BY <1>2, <2>6
      <3>7. ClocksKept'
        BY <1>1, <1>2, <1>4, <2>1, <3>2, <3>4, <3>5, <3>6 DEF ClocksKept
      <3> QED
        BY <1>1, <1>2, <1>4, <1>6, <2>1, <2>2, <2>3, <2>6, <3>2, <3>4, <3>5, <3>7 DEF Spans
    <2> QED
      BY <2>5, <2>6
  <1> QED
    BY <1>5, <1>6

\* The time that the tick sees to have been slept.
Slumber == IF Charts!Slept THEN Charts!Asleep ELSE 0

LEMMA TickAges ==
  ASSUME ChartTypes, ClocksKept, Charts!Tick, clock.up # None,
         NEW no \in 1..Len(said), said'[no] = said[no]
  PROVE  /\ Slumber >= 0 /\ Slumber \in Int
         /\ Charts!Age(said[no]) \in Int
         /\ Charts!Age(said[no])' = Charts!Age(said[no]) + (up - clock.up) + Slumber
         /\ Spot(no)' = Spot(no) - Slumber
  <1>1. PICK r \in Sayings : r = said[no]
    BY DEF ChartTypes
  <1>2. /\ clock.up \in Nat /\ clock'.up = up /\ clock'.wall = wall /\ Charts!Ticked
        /\ Charts!Slept => Charts!Asleep > 0
        /\ Charts!Asleep \in Int
    BY TickCuts
  <1>3. /\ up \in Int /\ wall \in Int /\ clock.wall \in Int /\ clock.up \in Int /\ missed \in Int
        /\ r.wall \in Int /\ r.missed \in Int
    BY <1>2 DEF ChartTypes, Sayings
  <1>4. missed' = IF Charts!Slept THEN missed ELSE missed + Charts!Asleep
    BY <1>2 DEF Charts!Tick
  <1>5. Charts!Asleep = wall - clock.wall - (up - clock.up)
    BY DEF Charts!Asleep
  <1>6. PICK u \in Int, w \in Int, cu \in Int, cw \in Int, m \in Int, rw \in Int, rm \in Int,
             by \in Int :
           /\ u = up /\ w = wall /\ cu = clock.up /\ cw = clock.wall /\ m = missed
           /\ rw = r.wall /\ rm = r.missed /\ by = Charts!Asleep
    BY <1>2, <1>3
  <1>7. by = w - cw - (u - cu)
    BY <1>5, <1>6
  <1>8. PICK old : old = Charts!Age(said[no]) /\ old = (cw - rw) - (m - rm)
    BY <1>1, <1>6 DEF Charts!Age
  <1>9. PICK aged : aged = Charts!Age(said[no])' /\ aged = (w - rw) - (missed' - rm)
    BY <1>1, <1>2, <1>6 DEF Charts!Age
  <1>10. Spot(no) = cu - old /\ Spot(no)' = u - aged
    BY <1>2, <1>6, <1>8, <1>9 DEF Spot
  <1>11. CASE Charts!Slept
    <2>1. Slumber = by /\ missed' = m /\ by > 0
      BY <1>2, <1>4, <1>6, <1>11 DEF Slumber
    <2>2. aged = (w - rw) - (m - rm)
      BY <1>9, <2>1
    <2>3. old \in Int /\ aged \in Int
      BY <1>8, <2>2
    <2>4. aged = old + (u - cu) + by
      BY <1>7, <1>8, <2>2, <2>3
    <2>5. u - aged = cu - old - by
      BY <2>3, <2>4
    <2> QED
      BY <1>6, <1>8, <1>9, <1>10, <2>1, <2>3, <2>4, <2>5, <2>4, <2>5
  <1>12. CASE ~Charts!Slept
    <2>1. Slumber = 0 /\ missed' = m + by
      BY <1>4, <1>6, <1>12 DEF Slumber
    <2>2. aged = (w - rw) - (m + by - rm)
      BY <1>9, <2>1
    <2>3. old \in Int /\ aged \in Int
      BY <1>8, <2>2
    <2>4. aged = old + (u - cu) + 0
      BY <1>7, <1>8, <2>2, <2>3
    <2>5. u - aged = cu - old - 0
      BY <2>3, <2>4
    <2> QED
      BY <1>6, <1>8, <1>9, <1>10, <2>1, <2>3, <2>4, <2>5, <2>4, <2>5
  <1> QED
    BY <1>11, <1>12

\* A sleep after a moment makes the stretch that it ended a maintenance wake.
LEMMA TickWakes ==
  ASSUME ChartTypes, ClocksKept, Charts!Tick, clock.up # None, NEW s \in 1..Newest
  PROVE  Charts!Brief(s)' <=> \/ Charts!Brief(s)
                              \/ Charts!Slept /\ Charts!Stub /\ s = Newest
  <1>1. /\ clock.up \in Nat /\ Newest > 0 /\ Newest \in Nat
        /\ stretches[Newest].last = clock.up
        /\ awakeSince = IF Newest > 1 THEN Began ELSE None
    BY DEF ClocksKept, Newest, Began, ChartTypes
  <1>2. /\ Charts!Brief(s) <=> s > 1 /\ s < Newest
                                 /\ stretches[s].last - stretches[s].first < BriefWake
        /\ Charts!Brief(s)' <=> s > 1 /\ s < Newest'
                                 /\ stretches'[s].last - stretches'[s].first < BriefWake
    BY DEF Charts!Brief, Newest
  <1>3. Charts!Stub <=> Newest > 1 /\ clock.up - Began < BriefWake
    <2>1. stretches[Newest] \in Spans
      BY <1>1 DEF Newest, ChartTypes
    <2>2. Began # None
      BY <2>1, ChartsAssumed DEF Began, Spans, ChartFacts
    <2> QED
      BY <1>1, <2>2 DEF Charts!Stub
  <1>4. CASE Charts!Slept
    <2>1. Newest' = Newest + 1 /\ stretches'[s] = stretches[s]
      BY <1>4, TickCuts
    <2>2. CASE s < Newest
      BY <1>1, <1>2, <2>1, <2>2
    <2>3. CASE s = Newest
      BY <1>1, <1>2, <1>3, <1>4, <2>1, <2>3 DEF Began
    <2> QED
      BY <1>1, <2>2, <2>3
  <1>5. CASE ~Charts!Slept
    <2>1. Newest' = Newest /\ (s < Newest => stretches'[s] = stretches[s])
      BY <1>5, TickCuts
    <2> QED
      BY <1>1, <1>2, <1>5, <2>1
  <1> QED
    BY <1>4, <1>5

\* A tick ages every reading, and none of it changes which stretch it is of.
LEMMA SaidTick ==
  ASSUME ChartTypes, ClocksKept, RingKept, Charts!Tick
  PROVE  /\ said' \in Seq(Sayings) /\ Len(said') = Len(said) + 1 /\ missed' \in Int
         /\ \A no \in 1..Len(said) :
               /\ said'[no] = said[no] /\ clock.up # None
               /\ Charts!Age(said[no])' >= Charts!Age(said[no])
               /\ up - Spot(no)' = Charts!Age(said[no])'
               /\ Spot(no)' = Spot(no) - Slumber /\ Spot(no) \in Int /\ Spot(no) <= clock.up
               /\ Charts!Age(said[no]) \in Int /\ Charts!Age(said[no])' \in Int
               /\ said[no].in \in 1..Newest'
               /\ said[no].in < Newest' => Spot(no)' < Began'
               /\ said[no].in = Newest' /\ Newest' > 1 => Spot(no)' >= Began'
         /\ \A no : no = Len(said) + 1 =>
               said'[no].in = Newest' /\ Charts!Age(said[no])' = 0 /\ Spot(no)' = up
  <1> DEFINE new == [up |-> up, wall |-> wall, missed |-> missed', in |-> Newest']
  <1>1. /\ up \in Nat /\ wall \in Int /\ clock.wall \in Int /\ missed \in Int
        /\ said \in Seq(Sayings) /\ Len(said) \in Nat /\ stretches \in Seq(Spans)
    BY DEF ChartTypes
  <1>2. missed' = IF ~Charts!Ticked \/ Charts!Slept THEN missed ELSE missed + Charts!Asleep
    BY DEF Charts!Tick
  <1>3. missed' \in Int
    <2>1. Charts!Ticked => Charts!Asleep \in Int
      BY TickCuts DEF Charts!Ticked
    <2> QED
      BY <1>1, <1>2, <2>1
  <1>4. /\ stretches' \in Seq(Spans) /\ Newest' \in Nat /\ clock'.up = up /\ clock'.wall = wall
        /\ Newest' > 0
    BY TickCuts DEF Newest
  <1>5. new \in Sayings
    BY <1>1, <1>3, <1>4 DEF Sayings
  <1>6. said' = Append(said, new)
    BY DEF Charts!Tick, Newest
  <1>7. new.wall = wall /\ new.missed = missed' /\ new.in = Newest'
    OBVIOUS
  <1> HIDE DEF new
  <1>8. /\ said' \in Seq(Sayings) /\ Len(said') = Len(said) + 1
        /\ said'[Len(said) + 1] = new
        /\ \A no \in 1..Len(said) : said'[no] = said[no]
    BY <1>1, <1>5, <1>6
  <1>9. ASSUME NEW no, no = Len(said) + 1
        PROVE  /\ said'[no].in = Newest' /\ Charts!Age(said[no])' = 0 /\ Spot(no)' = up
    <2>1. Charts!Age(said[no])' = (clock'.wall - said'[no].wall) - (missed' - said'[no].missed)
      BY DEF Charts!Age
    <2>2. said'[no] = new
      BY <1>8, <1>9
    <2>3. Charts!Age(said[no])' = 0
      BY <1>1, <1>3, <1>4, <1>7, <2>1, <2>2
    <2>4. Spot(no)' = clock'.up - Charts!Age(said[no])'
      BY DEF Spot
    <2> QED
      BY <1>1, <1>4, <1>7, <2>2, <2>3, <2>4
  <1>10. ASSUME NEW no \in 1..Len(said)
         PROVE  /\ said'[no] = said[no] /\ clock.up # None
                /\ Charts!Age(said[no])' >= Charts!Age(said[no])
                /\ up - Spot(no)' = Charts!Age(said[no])'
                /\ Spot(no)' = Spot(no) - Slumber /\ Spot(no) \in Int /\ Spot(no) <= clock.up
                /\ Charts!Age(said[no]) \in Int /\ Charts!Age(said[no])' \in Int
                /\ said[no].in \in 1..Newest'
                /\ said[no].in < Newest' => Spot(no)' < Began'
                /\ said[no].in = Newest' /\ Newest' > 1 => Spot(no)' >= Began'
    <2>1. said'[no] = said[no]
      BY <1>8
    <2>2. clock.up # None
      <3>1. said # <<>>
        BY <1>1
      <3> QED
        BY <3>1, ChartsAssumed DEF ClocksKept, ChartFacts
    <2>3. /\ Slumber >= 0 /\ Slumber \in Int /\ Charts!Age(said[no]) \in Int
          /\ Charts!Age(said[no])' = Charts!Age(said[no]) + (up - clock.up) + Slumber
          /\ Spot(no)' = Spot(no) - Slumber
      BY <2>1, <2>2, TickAges
    <2>4. clock.up \in Nat /\ clock.up < up
      BY <2>2, TickCuts
    <2>5. /\ said[no].in \in 1..Newest /\ Charts!Age(said[no]) >= 0
          /\ said[no].in < Newest => Spot(no) < Began
          /\ said[no].in = Newest /\ Newest > 1 => Spot(no) >= Began
      BY DEF RingKept
    <2>6. Spot(no) = clock.up - Charts!Age(said[no])
      BY DEF Spot
    <2>7. Spot(no)' = up - Charts!Age(said[no])'
      BY <1>4 DEF Spot
    <2>8. PICK age \in Int, aged \in Int, spot \in Int, cu \in Int, by \in Int :
            /\ age = Charts!Age(said[no]) /\ aged = Charts!Age(said[no])' /\ spot = Spot(no)
            /\ cu = clock.up /\ by = Slumber
      <3>1. Charts!Age(said[no])' \in Int
        BY <1>1, <2>3, <2>4
      <3>2. Spot(no) \in Int
        BY <2>3, <2>4, <2>6
      <3> QED
        BY <2>3, <2>4, <3>1, <3>2
    <2>9. /\ age >= 0 /\ by >= 0 /\ cu < up /\ aged = age + (up - cu) + by /\ spot = cu - age
          /\ Spot(no)' = spot - by /\ Spot(no)' = up - aged
      BY <2>3, <2>4, <2>5, <2>6, <2>7, <2>8
    <2>10. aged >= age /\ up - Spot(no)' = aged /\ spot <= cu
      BY <1>1, <2>9
    <2>11. /\ said[no].in \in 1..Newest'
           /\ said[no].in < Newest' => Spot(no)' < Began'
           /\ said[no].in = Newest' /\ Newest' > 1 => Spot(no)' >= Began'
      <3>1. Newest \in Nat
        BY <1>1 DEF Newest
      <3>2. CASE Charts!Slept
        <4>1. Newest' = Newest + 1 /\ Began' = up
          BY <3>2, TickCuts
        <4>2. Spot(no)' < up
          BY <1>1, <2>9
        <4> QED
          BY <2>5, <3>1, <4>1, <4>2
      <3>3. CASE ~Charts!Slept
        <4>1. Newest' = Newest /\ Began' = Began
          BY <2>2, <3>3, TickCuts
        <4>2. Spot(no)' = Spot(no)
          <5>1. Slumber = 0
            BY <3>3 DEF Slumber
          <5> QED
            BY <2>8, <2>9, <5>1
        <4> QED
          BY <2>5, <4>1, <4>2
      <3> QED
        BY <3>2, <3>3
    <2> QED
      BY <2>1, <2>2, <2>3, <2>8, <2>10, <2>11
  <1> QED
    BY <1>3, <1>8, <1>9, <1>10

\* What a tick leaves of the ring before it adds its own reading.
LEMMA RingWoken ==
  ASSUME ChartTypes, ClocksKept, RingKept, Charts!Tick
  PROVE  LET r == Charts!Woken(ring) IN
         /\ r \in Seq(RingPoints) /\ InOrder(r)
         /\ Charts!Range(r) = {[at |-> Spot(no)', no |-> no] :
                no \in {m \in 1..Len(said) : ~Charts!Brief(said[m].in)'
                                             /\ Charts!Age(said[m]) <= ChartWindow}}
  <1> DEFINE r == Charts!Woken(ring)
             old == {m \in 1..Len(said) : Due(m)}
             left == {m \in 1..Len(said) : ~Charts!Brief(said[m].in)'
                                           /\ Charts!Age(said[m]) <= ChartWindow}
  <1>1. /\ ring \in Seq(RingPoints) /\ InOrder(ring) /\ Newest \in Nat /\ Len(said) \in Nat
        /\ Charts!Range(ring) = {[at |-> Spot(no), no |-> no] : no \in old}
    BY DEF ChartTypes, RingKept, Newest
  <1>2. ASSUME NEW m \in 1..Len(said)
        PROVE  /\ clock.up # None /\ Spot(m) \in Int /\ Spot(m) <= clock.up
               /\ Spot(m)' = Spot(m) - Slumber
               /\ said[m].in \in 1..Newest
               /\ said[m].in < Newest => Spot(m) < Began
               /\ said[m].in = Newest /\ Newest > 1 => Spot(m) >= Began
               /\ Charts!Brief(said[m].in)' <=>
                     \/ Charts!Brief(said[m].in)
                     \/ Charts!Slept /\ Charts!Stub /\ said[m].in = Newest
    <2>1. /\ clock.up # None /\ Spot(m) \in Int /\ Spot(m) <= clock.up
          /\ Spot(m)' = Spot(m) - Slumber /\ said'[m] = said[m]
      BY SaidTick
    <2>2. /\ said[m].in \in 1..Newest
          /\ said[m].in < Newest => Spot(m) < Began
          /\ said[m].in = Newest /\ Newest > 1 => Spot(m) >= Began
      BY DEF RingKept
    <2>3. PICK s \in 1..Newest : s = said[m].in
      BY <2>2
    <2>4. Charts!Brief(s)' <=> Charts!Brief(s) \/ (Charts!Slept /\ Charts!Stub /\ s = Newest)
      BY <2>1, TickWakes
    <2>5. Charts!Brief(said[m].in)' <=> Charts!Brief(s)'
      BY <2>1, <2>3 DEF Charts!Brief
    <2>6. Charts!Brief(said[m].in) <=> Charts!Brief(s)
      BY <2>3
    <2> QED
      BY <2>1, <2>2, <2>3, <2>4, <2>5, <2>6
  <1> HIDE DEF r
  <1>3. CASE ~Charts!Slept
    <2>1. r = ring
      BY <1>3 DEF Charts!Woken, r
    <2>2. left = old
      BY <1>2, <1>3 DEF Due
    <2>3. ASSUME NEW m \in 1..Len(said) PROVE Spot(m)' = Spot(m)
      BY <1>2, <1>3 DEF Slumber
    <2> HIDE DEF left
    <2>4. Charts!Range(r) = {[at |-> Spot(no)', no |-> no] : no \in old}
      BY <1>1, <2>1, <2>3
    <2> QED
      BY <1>1, <2>1, <2>2, <2>4 DEF r, left
  <1>4. CASE Charts!Slept
    <2>1. /\ clock.up \in Int /\ Charts!Asleep \in Int /\ clock.up # None
      BY <1>4, TickCuts
    <2>2. /\ r \in Seq(RingPoints) /\ InOrder(r)
          /\ Charts!Range(r) = {Back(p) : p \in Left(ring)}
      BY <1>1, <1>4, <2>1, WokenLeaves DEF r
    <2>3. Slumber = Charts!Asleep
      BY <1>4 DEF Slumber
    <2>4. Charts!Stub => awakeSince = Began /\ Newest > 1
      BY <2>1 DEF Charts!Stub, ClocksKept
    <2>5. ASSUME NEW m \in old
          PROVE  /\ [at |-> Spot(m), no |-> m] \in Left(ring) <=> m \in left
                 /\ Back([at |-> Spot(m), no |-> m]) = [at |-> Spot(m)', no |-> m]
      <3> DEFINE p == [at |-> Spot(m), no |-> m]
      <3>1. m \in 1..Len(said) /\ Due(m)
        OBVIOUS
      <3>2. p \in Charts!Range(ring) /\ p.at = Spot(m)
        BY <1>1
      <3>3. p \in Left(ring) <=> (Charts!Stub => Spot(m) < awakeSince)
        BY <3>2 DEF Left
      <3>4. p \in Left(ring) <=> (Charts!Stub => said[m].in < Newest)
        <4>1. /\ said[m].in \in 1..Newest /\ Spot(m) \in Int
              /\ said[m].in < Newest => Spot(m) < Began
              /\ said[m].in = Newest /\ Newest > 1 => Spot(m) >= Began
          BY <1>2, <3>1
        <4>2. Began \in Int
          <5>1. Newest > 0
            BY <2>1, TickCuts
          <5>2. stretches[Newest] \in Spans
            BY <1>1, <5>1 DEF ChartTypes, Newest
          <5> QED
            BY <5>2 DEF Spans, Began
        <4>3. Charts!Stub => (Spot(m) < Began <=> said[m].in < Newest)
          BY <1>1, <2>4, <4>1, <4>2
        <4> QED
          BY <2>4, <3>3, <4>3
      <3>5. m \in left <=> ~(Charts!Stub /\ said[m].in = Newest)
        <4>1. ~Charts!Brief(said[m].in) /\ Charts!Age(said[m]) <= ChartWindow
          BY <3>1 DEF Due
        <4> QED
          BY <1>2, <1>4, <3>1, <4>1
      <3>6. said[m].in < Newest <=> said[m].in # Newest
        BY <1>1, <1>2, <3>1
      <3>7. Back(p) = [at |-> Spot(m)', no |-> m]
        <4>1. Spot(m) <= clock.up /\ Spot(m) \in Int /\ Spot(m)' = Spot(m) - Charts!Asleep
          BY <1>2, <2>3, <3>1
        <4>2. ~(p.at > clock.up)
          BY <2>1, <4>1
        <4> QED
          BY <4>1, <4>2 DEF Back
      <3> QED
        BY <3>4, <3>5, <3>6, <3>7
    <2>6. left \subseteq old
      BY <1>2 DEF Due
    <2>7. Left(ring) \subseteq Charts!Range(ring)
      BY DEF Left
    <2> HIDE DEF left, old
    <2>8. {Back(p) : p \in Left(ring)} = {[at |-> Spot(no)', no |-> no] : no \in left}
      <3>1. ASSUME NEW p \in Left(ring)
            PROVE  Back(p) \in {[at |-> Spot(no)', no |-> no] : no \in left}
        <4>1. PICK m \in old : p = [at |-> Spot(m), no |-> m]
          BY <1>1, <2>7
        <4> QED
          BY <2>5, <4>1
      <3>2. ASSUME NEW m \in left
            PROVE  [at |-> Spot(m)', no |-> m] \in {Back(p) : p \in Left(ring)}
        <4>1. m \in old
          BY <2>6
        <4> QED
          BY <2>5, <4>1
      <3> QED
        BY <3>1, <3>2
    <2> QED
      BY <2>2, <2>8 DEF r, left
  <1> QED
    BY <1>3, <1>4

LEMMA RingTick ==
  ASSUME ChartTypes, ClocksKept, RingKept, Charts!Tick
  PROVE  /\ ring' \in Seq(RingPoints)
         /\ RingKept'
  <1> DEFINE r == Charts!Woken(ring)
             nth == Len(said) + 1
             left == {m \in 1..Len(said) : ~Charts!Brief(said[m].in)'
                                           /\ Charts!Age(said[m]) <= ChartWindow}
             point(m) == [at |-> Spot(m)', no |-> m]
             x == [at |-> up, no |-> nth]
             due == {m \in 1..nth : Due(m)'}
  <1>1. /\ r \in Seq(RingPoints) /\ InOrder(r)
        /\ Charts!Range(r) = {point(no) : no \in left}
    BY RingWoken
  <1>2. ring' = Charts!Record(r, up, nth)
    BY DEF Charts!Tick
  <1>3. up \in Int /\ nth \in Nat /\ Len(said) \in Nat
    BY DEF ChartTypes
  <1> HIDE DEF r
  <1>4. /\ \A no \in 1..Len(said) :
               /\ said'[no] = said[no]
               /\ Charts!Age(said[no])' >= Charts!Age(said[no])
               /\ up - Spot(no)' = Charts!Age(said[no])'
               /\ Spot(no)' = Spot(no) - Slumber /\ Spot(no) \in Int /\ clock.up # None
               /\ Charts!Age(said[no]) \in Int /\ Charts!Age(said[no])' \in Int
               /\ said[no].in \in 1..Newest'
               /\ said[no].in < Newest' => Spot(no)' < Began'
               /\ said[no].in = Newest' /\ Newest' > 1 => Spot(no)' >= Began'
        /\ \A no : no = Len(said) + 1 =>
               said'[no].in = Newest' /\ Charts!Age(said[no])' = 0 /\ Spot(no)' = up
        /\ Len(said') = nth
    BY SaidTick
  <1>5. ASSUME NEW m \in 1..Len(said), NEW no \in 1..Len(said), m < no
         PROVE  /\ Spot(m)' \in Int /\ Spot(no)' \in Int
                /\ Spot(m)' <= Spot(no)' /\ Charts!Age(said[m])' >= Charts!Age(said[no])'
    <2>1. Charts!Age(said[m]) >= Charts!Age(said[no])
      BY <1>5 DEF RingKept
    <2>2. Slumber \in Int /\ clock.up \in Int
      BY <1>4, TickCuts DEF Slumber
    <2>3. Spot(m) <= Spot(no)
      <3>1. Charts!Age(said[m]) \in Int /\ Charts!Age(said[no]) \in Int
        BY <1>4
      <3> QED
        BY <2>1, <2>2, <3>1 DEF Spot
    <2>4. Spot(m)' <= Spot(no)' /\ Spot(m)' \in Int /\ Spot(no)' \in Int
      BY <1>4, <2>2, <2>3
    <2> QED
      BY <1>3, <1>4, <2>4
  <1>6. ASSUME NEW m \in 1..Len(said) PROVE Charts!Age(said[m])' >= 0 /\ Spot(m)' <= up
    <2>1. Charts!Age(said[m]) >= 0
      BY DEF RingKept
    <2>2. Slumber \in Int /\ Spot(m)' \in Int
      BY <1>4, TickCuts DEF Slumber
    <2>3. Charts!Age(said[m])' >= 0
      BY <1>4, <2>1
    <2> QED
      BY <1>3, <1>4, <2>2, <2>3
  <1>7. /\ \A p \in Charts!Range(r) : p.no < nth /\ p.at <= up
        /\ \A p, q \in Charts!Range(r) : p.no < q.no => p.at <= q.at
    <2>1. \A m \in left : m \in 1..Len(said) /\ point(m).no = m /\ point(m).at = Spot(m)'
      OBVIOUS
    <2> HIDE DEF left, point
    <2> QED
      BY <1>1, <1>3, <1>5, <1>6, <2>1
  <1>8. /\ ring' \in Seq(RingPoints) /\ InOrder(ring')
        /\ Charts!Range(ring') = {p \in Charts!Range(r) \cup {x} : up - p.at <= ChartWindow}
    BY <1>1, <1>2, <1>3, <1>7, RecordLeaves
  <1>9. ASSUME NEW m \in 1..Len(said)
        PROVE  m \in due <=> m \in left /\ up - point(m).at <= ChartWindow
    <2>1. Due(m)' <=> ~Charts!Brief(said[m].in)' /\ Charts!Age(said[m])' <= ChartWindow
      BY DEF Due
    <2>2. m \in 1..nth
      BY <1>3
    <2>3. Charts!Age(said[m])' <= ChartWindow => Charts!Age(said[m]) <= ChartWindow
      BY <1>4, ChartsAssumed DEF ChartFacts
    <2>4. up - point(m).at = Charts!Age(said[m])'
      BY <1>4
    <2> QED
      BY <2>1, <2>2, <2>3, <2>4
  <1>10. ASSUME NEW m, m = nth
        PROVE  m \in due /\ point(m) = x /\ up - x.at <= ChartWindow
    <2>1. said'[m].in = Newest' /\ Charts!Age(said[m])' = 0 /\ Spot(m)' = up
      BY <1>4, <1>10
    <2>2. ~Charts!Brief(said[m].in)'
      <3>1. Newest' \in Nat
        BY TickCuts DEF Newest
      <3> QED
        BY <2>1, <3>1 DEF Charts!Brief, Newest
    <2>3. Due(m)'
      BY <2>1, <2>2, ChartsAssumed DEF Due, ChartFacts
    <2> QED
      BY <1>3, <1>10, <2>1, <2>3, ChartsAssumed DEF ChartFacts
  <1>11. Charts!Range(ring') = {point(no) : no \in due}
    <2>1. ASSUME NEW p \in Charts!Range(ring') PROVE p \in {point(no) : no \in due}
      <3>1. CASE p \in Charts!Range(r)
        <4>1. PICK m \in left : p = point(m)
          BY <1>1, <3>1
        <4>2. m \in due
          BY <1>8, <1>9, <4>1
        <4> QED
          BY <4>1, <4>2
      <3>2. CASE p = x
        <4>1. PICK m : m = nth
          OBVIOUS
        <4> QED
          BY <1>10, <3>2, <4>1
      <3> QED
        BY <1>8, <3>1, <3>2
    <2>2. ASSUME NEW m \in due PROVE point(m) \in Charts!Range(ring')
      <3>1. m \in 1..Len(said) \/ m = nth
        BY <1>3
      <3>2. CASE m \in 1..Len(said)
        BY <1>1, <1>8, <1>9, <3>2
      <3>3. CASE m = nth
        BY <1>8, <1>10, <3>3
      <3> QED
        BY <3>1, <3>2, <3>3
    <2> QED
      BY <2>1, <2>2
  <1>12. ASSUME NEW no \in 1..nth
         PROVE  /\ said'[no].in \in 1..Newest' /\ Charts!Age(said[no])' >= 0
                /\ said'[no].in < Newest' => Spot(no)' < Began'
                /\ said'[no].in = Newest' /\ Newest' > 1 => Spot(no)' >= Began'
    <2>1. no \in 1..Len(said) \/ no = nth
      BY <1>3
    <2>2. CASE no \in 1..Len(said)
      BY <1>4, <1>6, <2>2
    <2>3. CASE no = nth
      <3>1. said'[no].in = Newest' /\ Charts!Age(said[no])' = 0 /\ Spot(no)' = up
        BY <1>4, <2>3
      <3>2. Newest' \in Nat /\ Newest' > 0 /\ Began' <= up
        BY TickCuts DEF Newest
      <3>3. Newest' > 1 => Spot(no)' >= Began'
        BY <1>3, <3>1, <3>2
      <3> QED
        BY <3>1, <3>2, <3>3
    <2> QED
      BY <2>1, <2>2, <2>3
  <1>13. ASSUME NEW m \in 1..nth, NEW no \in 1..nth, m < no
         PROVE  Charts!Age(said[m])' >= Charts!Age(said[no])'
    <2>1. m \in 1..Len(said)
      BY <1>3, <1>13
    <2>2. CASE no \in 1..Len(said)
      BY <1>5, <1>13, <2>1, <2>2
    <2>3. CASE no = nth
      BY <1>4, <1>6, <2>1, <2>3
    <2> QED
      BY <1>3, <2>2, <2>3
  <1>14. {m \in 1..Len(said) : Due(m)}' = due
    BY <1>4
  <1> HIDE DEF due
  <1> QED
    BY <1>8, <1>4, <1>11, <1>12, <1>14, <1>13 DEF RingKept

----------------------------------------------------------------------------
(* The curve.                                                                 *)

LEMMA HolesAreHoles == ASSUME ChartTypes PROVE NoHoles <=> Charts!CurveHasNoHoles
  <1>1. /\ DOMAIN priced = 1..Len(priced)
        /\ DOMAIN curve = 1..Len(curve)
    BY DEF ChartTypes
  <1>2. \A no : On(no) <=> Charts!InCurve(no)
    BY DEF On, Charts!InCurve, Charts!Range
  <1>3. ASSUME NEW no
        PROVE  (\A p \in Charts!Range(curve) : p.moved /\ p.no < no => On(no))
                 <=> (\A i \in DOMAIN curve : curve[i].moved /\ curve[i].no < no => Charts!InCurve(no))
    BY <1>2 DEF Charts!Range
  <1> QED
    BY <1>1, <1>2, <1>3 DEF NoHoles, Charts!CurveHasNoHoles

LEMMA PricedTick ==
  ASSUME ChartTypes, ClocksKept, Charts!Tick
  PROVE  /\ priced' \in Seq(Pricings) /\ Len(priced') = Len(priced)
         /\ \A no \in 1..Len(priced) :
               /\ clock.up # None
               /\ priced'[no].up = priced[no].up /\ priced'[no].in = priced[no].in
               /\ priced'[no].late <=> \/ priced[no].late
                                       \/ Charts!Slept /\ priced[no].up > clock.up
         /\ Charts!Slept \in BOOLEAN
  <1>1. priced \in Seq(Pricings) /\ Len(priced) \in Nat /\ DOMAIN priced = 1..Len(priced)
    BY DEF ChartTypes
  <1>2. Charts!Slept \in BOOLEAN
    BY DEF Charts!Slept, Charts!Ticked
  <1>3. priced' = [i \in 1..Len(priced) |-> Charts!Mark(priced[i])]
    BY <1>1 DEF Charts!Tick
  <1>4. ASSUME NEW p \in Pricings
        PROVE  /\ Charts!Mark(p) \in Pricings
               /\ Charts!Mark(p).up = p.up /\ Charts!Mark(p).in = p.in
               /\ Charts!Mark(p).late <=> p.late \/ (Charts!Slept /\ p.up > clock.up)
    <2>1. p.late \in BOOLEAN
      BY DEF Pricings
    <2>2. CASE p.up > clock.up
      <3>1. Charts!Mark(p) = [p EXCEPT !.late = @ \/ Charts!Slept]
        BY <2>2 DEF Charts!Mark, Charts!Astray
      <3>2. (p.late \/ Charts!Slept) \in BOOLEAN
        BY <1>2, <2>1
      <3>3. ASSUME NEW b \in BOOLEAN
            PROVE  /\ [p EXCEPT !.late = b] \in Pricings /\ [p EXCEPT !.late = b].late = b
                   /\ [p EXCEPT !.late = b].up = p.up /\ [p EXCEPT !.late = b].in = p.in
        BY DEF Pricings
      <3>4. Charts!Mark(p) \in Pricings /\ Charts!Mark(p).late = (p.late \/ Charts!Slept)
            /\ Charts!Mark(p).up = p.up /\ Charts!Mark(p).in = p.in
        BY <3>1, <3>2, <3>3
      <3> QED
        BY <2>2, <3>4
    <2>3. CASE ~(p.up > clock.up)
      BY <2>3 DEF Charts!Mark
    <2> QED
      BY <2>2, <2>3
  <1>5. priced' \in Seq(Pricings) /\ Len(priced') = Len(priced)
    BY <1>1, <1>3, <1>4
  <1>6. ASSUME NEW no \in 1..Len(priced)
        PROVE  /\ clock.up # None
               /\ priced'[no].up = priced[no].up /\ priced'[no].in = priced[no].in
               /\ priced'[no].late <=> \/ priced[no].late
                                       \/ Charts!Slept /\ priced[no].up > clock.up
    <2>1. clock.up # None
      <3>1. priced # <<>>
        BY <1>1
      <3> QED
        BY <3>1, ChartsAssumed DEF ClocksKept, ChartFacts
    <2>2. priced[no] \in Pricings /\ priced'[no] = Charts!Mark(priced[no])
      BY <1>1, <1>3
    <2> QED
      BY <1>4, <2>1, <2>2
  <1> QED
    BY <1>2, <1>5, <1>6

LEMMA ReadingTick ==
  ASSUME ChartTypes, ClocksKept, Charts!Tick
  PROVE  /\ reading' \in {Charts!Idle, Charts!Asked} \cup Readings
         /\ reading'.st = "read" =>
               /\ reading.st = "read" /\ clock.up # None
               /\ reading'.up = reading.up /\ reading'.in = reading.in
               /\ ~reading'.late => ~reading.late /\ ~Charts!Slept
  <1>1. reading \in {Charts!Idle, Charts!Asked} \cup Readings
    BY DEF ChartTypes
  <1>2. Charts!Slept \in BOOLEAN
    BY DEF Charts!Slept, Charts!Ticked
  <1>3. Charts!Idle.st = "idle" /\ Charts!Asked.st = "asked"
    BY DEF Charts!Idle, Charts!Asked
  <1>4. CASE reading.st = "read"
    <2>1. reading \in Readings
      BY <1>1, <1>3, <1>4
    <2>2. reading' = [reading EXCEPT !.late = @ \/ Charts!Slept]
      BY <1>4 DEF Charts!Tick, Charts!Astray
    <2>3. (reading.late \/ Charts!Slept) \in BOOLEAN
      BY <1>2, <2>1 DEF Readings
    <2>4. ASSUME NEW b \in BOOLEAN
          PROVE  LET r == [reading EXCEPT !.late = b] IN
                 /\ r \in Readings /\ r.late = b /\ r.up = reading.up /\ r.in = reading.in
                 /\ r.st = "read"
      BY <2>1 DEF Readings
    <2>5. /\ reading' \in Readings /\ reading'.late = (reading.late \/ Charts!Slept)
          /\ reading'.up = reading.up /\ reading'.in = reading.in
      BY <2>2, <2>3, <2>4
    <2>6. clock.up # None
      BY <1>3, <1>4, ChartsAssumed DEF ClocksKept, ChartFacts
    <2> QED
      BY <1>4, <2>5, <2>6
  <1>5. CASE reading.st # "read"
    <2>1. reading' = reading \/ reading' = Charts!Asked
      BY <1>5 DEF Charts!Tick
    <2> QED
      BY <1>1, <1>3, <1>5, <2>1
  <1> QED
    BY <1>4, <1>5

\* The line after a sleep: who is left, where, and who is not.
LEMMA CurveSlept ==
  ASSUME ChartTypes, ClocksKept, CurveKept, Charts!Tick, Charts!Slept
  PROVE  /\ curve' \in Seq(CurvePoints) /\ InOrder(curve')
         /\ \A q \in Charts!Range(curve') : \E p \in Left(curve) : q = Back(p)
         /\ \A p \in Left(curve) : Back(p) \in Charts!Range(curve')
         /\ \A p \in Charts!Range(curve) :
               /\ p.at \in Int /\ Back(p).no = p.no /\ Back(p).moved = p.moved
               /\ Back(p).at = IF p.at > clock.up THEN p.at ELSE p.at - Charts!Asleep
         /\ Left(curve) \subseteq Charts!Range(curve)
         /\ Charts!Stub => \A p \in Charts!Range(curve) : p \in Left(curve) <=> p.at < Began
         /\ ~Charts!Stub => Left(curve) = Charts!Range(curve)
  <1>1. curve \in Seq(CurvePoints) /\ InOrder(curve)
    BY DEF ChartTypes, CurveKept
  <1>2. clock.up # None /\ clock.up \in Int /\ Charts!Asleep \in Int
    BY TickCuts
  <1>3. curve' = Charts!Woken(curve)
    BY DEF Charts!Tick
  <1>4. /\ curve' \in Seq(CurvePoints) /\ InOrder(curve')
        /\ Charts!Range(curve') = {Back(p) : p \in Left(curve)}
    BY <1>1, <1>2, <1>3, WokenLeaves
  <1>5. ASSUME NEW p \in Charts!Range(curve)
        PROVE  /\ p.at \in Int /\ Back(p).no = p.no /\ Back(p).moved = p.moved
               /\ Back(p).at = IF p.at > clock.up THEN p.at ELSE p.at - Charts!Asleep
    <2>1. p \in CurvePoints
      BY <1>1 DEF Charts!Range
    <2>2. p.at \in Int
      BY <2>1 DEF CurvePoints
    <2> QED
      BY <1>2, <2>1, <2>2, BackOf
  <1>6. Charts!Stub => awakeSince = Began
    BY <1>2 DEF Charts!Stub, ClocksKept
  <1> QED
    BY <1>4, <1>5, <1>6 DEF Left

LEMMA CurveSame ==
  ASSUME ChartTypes, ClocksKept, CurveKept, Charts!Tick, ~Charts!Slept
  PROVE  curve' = curve
  BY DEF Charts!Tick, Charts!Woken

LEMMA CurveStands ==
  ASSUME ChartTypes, ClocksKept, CurveKept, Charts!Tick
  PROVE  /\ curve' \in Seq(CurvePoints) /\ InOrder(curve')
         /\ \A q \in Charts!Range(curve') :
               /\ q.no \in 1..Len(priced) /\ q.at <= up
               /\ reading.st = "read" => q.at <= reading.up
         /\ \A p, q \in Charts!Range(curve') : p.no < q.no => p.at <= q.at
  <1>1. curve \in Seq(CurvePoints) /\ up \in Nat /\ InOrder(curve) /\ up' = up
    BY DEF ChartTypes, CurveKept, Charts!Tick, Charts!machine
  <1>2. \A p \in Charts!Range(curve) :
           /\ p.no \in 1..Len(priced) /\ p.at <= up
           /\ reading.st = "read" => p.at <= reading.up
    BY DEF CurveKept
  <1>3. \A p, q \in Charts!Range(curve) : p.no < q.no => p.at <= q.at
    BY DEF CurveKept
  <1>4. CASE Charts!Slept
    <2>1. /\ curve' \in Seq(CurvePoints) /\ InOrder(curve')
          /\ \A q \in Charts!Range(curve') : \E p \in Left(curve) : q = Back(p)
          /\ \A p \in Charts!Range(curve) :
               /\ p.at \in Int /\ Back(p).no = p.no
               /\ Back(p).at = IF p.at > clock.up THEN p.at ELSE p.at - Charts!Asleep
          /\ Left(curve) \subseteq Charts!Range(curve)
      BY <1>4, CurveSlept
    <2>2. clock.up \in Int /\ Charts!Asleep \in Int /\ Charts!Asleep > 0
      BY <1>4, TickCuts
    <2>3. ASSUME NEW q \in Charts!Range(curve')
          PROVE  /\ q.no \in 1..Len(priced) /\ q.at <= up
                 /\ reading.st = "read" => q.at <= reading.up
      <3>1. PICK p \in Charts!Range(curve) : q = Back(p)
        BY <2>1
      <3>2. q.no = p.no /\ q.at <= p.at /\ q.at \in Int /\ p.at \in Int
        BY <2>1, <2>2, <3>1
      <3>3. reading.st = "read" => reading.up \in Int
        BY DEF ChartTypes, Readings, Charts!Idle, Charts!Asked
      <3> QED
        BY <1>1, <1>2, <3>2, <3>3
    <2>4. ASSUME NEW p \in Charts!Range(curve'), NEW q \in Charts!Range(curve'), p.no < q.no
          PROVE  p.at <= q.at
      <3>1. PICK a \in Charts!Range(curve) : p = Back(a)
        BY <2>1
      <3>2. PICK b \in Charts!Range(curve) : q = Back(b)
        BY <2>1
      <3>3. a.at <= b.at /\ a.at \in Int /\ b.at \in Int
        BY <1>3, <2>1, <2>4, <3>1, <3>2
      <3>4. /\ p.at = IF a.at > clock.up THEN a.at ELSE a.at - Charts!Asleep
            /\ q.at = IF b.at > clock.up THEN b.at ELSE b.at - Charts!Asleep
        BY <2>1, <3>1, <3>2
      <3> QED
        BY <2>2, <3>3, <3>4
    <2> QED
      BY <2>1, <2>3, <2>4
  <1>5. CASE ~Charts!Slept
    BY <1>1, <1>2, <1>3, <1>5, CurveSame
  <1> QED
    BY <1>4, <1>5

LEMMA CurveApart ==
  ASSUME ChartTypes, ClocksKept, CurveKept, Charts!Tick
  PROVE  /\ \A q \in Charts!Range(curve') : ~priced'[q.no].late =>
               IF priced'[q.no].in = Newest' THEN q.at = priced'[q.no].up ELSE q.at < Began'
         /\ \A no \in 1..Len(priced) : ~priced'[no].late =>
               /\ priced'[no].in \in 1..Newest'
               /\ priced'[no].in = Newest' => priced'[no].up >= Began'
  <1>1. Newest \in Nat /\ up \in Nat /\ priced \in Seq(Pricings)
    BY DEF ChartTypes, Newest
  <1>2. /\ \A no \in 1..Len(priced) :
               /\ clock.up # None
               /\ priced'[no].up = priced[no].up /\ priced'[no].in = priced[no].in
               /\ priced'[no].late <=> \/ priced[no].late
                                       \/ Charts!Slept /\ priced[no].up > clock.up
    BY PricedTick
  <1>3. /\ \A p \in Charts!Range(curve) :
              /\ p.no \in 1..Len(priced)
              /\ ~priced[p.no].late =>
                   IF priced[p.no].in = Newest THEN p.at = priced[p.no].up ELSE p.at < Began
        /\ \A no \in 1..Len(priced) : ~priced[no].late =>
              priced[no].in \in 1..Newest /\ (priced[no].in = Newest => priced[no].up >= Began)
    BY DEF CurveKept
  <1>4. CASE Charts!Slept
    <2>1. Newest' = Newest + 1 /\ Began' = up /\ clock.up \in Nat /\ clock.up < up
          /\ Charts!Asleep \in Int /\ Charts!Asleep > 0
      BY <1>4, TickCuts
    <2>2. Began \in Int /\ Began <= clock.up
      <3>1. Newest > 0 /\ Began <= clock.up
        BY <1>4, TickCuts DEF ClocksKept
      <3>2. stretches[Newest] \in Spans
        BY <1>1, <3>1 DEF ChartTypes, Newest
      <3> QED
        BY <3>1, <3>2 DEF Spans, Began
    <2>3. ASSUME NEW no \in 1..Len(priced), ~priced'[no].late
          PROVE  /\ ~priced[no].late /\ priced[no].up <= clock.up /\ priced[no].up \in Int
                 /\ priced'[no].in \in 1..Newest /\ priced'[no].in # Newest'
      <3>1. priced[no] \in Pricings
        BY <1>1
      <3>2. priced[no].up \in Nat
        BY <3>1 DEF Pricings
      <3>3. ~priced[no].late /\ ~(priced[no].up > clock.up)
        BY <1>2, <1>4, <2>3
      <3> QED
        BY <1>1, <1>2, <1>3, <2>1, <3>2, <3>3
    <2>4. ASSUME NEW q \in Charts!Range(curve'), ~priced'[q.no].late
          PROVE  priced'[q.no].in # Newest' /\ q.at < Began'
      <3>1. PICK p \in Charts!Range(curve) : q = Back(p)
        BY <1>4, CurveSlept
      <3>2. /\ q.no = p.no /\ p.at \in Int
            /\ q.at = IF p.at > clock.up THEN p.at ELSE p.at - Charts!Asleep
        BY <1>4, <3>1, CurveSlept
      <3>3. p.no \in 1..Len(priced)
        BY <1>3
      <3>4. /\ ~priced[p.no].late /\ priced[p.no].up <= clock.up /\ priced[p.no].up \in Int
            /\ priced'[q.no].in # Newest'
        BY <2>3, <2>4, <3>2, <3>3
      <3>5. p.at = priced[p.no].up \/ p.at < Began
        BY <1>3, <3>4
      <3>6. p.at <= clock.up
        BY <2>1, <2>2, <3>2, <3>4, <3>5
      <3>7. q.at < up
        BY <1>1, <2>1, <3>2, <3>6
      <3> QED
        BY <2>1, <3>4, <3>7
    <2> QED
      BY <1>1, <2>1, <2>3, <2>4
  <1>5. CASE ~Charts!Slept
    <2>1. curve' = curve
      BY <1>5, CurveSame
    <2>2. \A no \in 1..Len(priced) :
             /\ priced'[no].late <=> priced[no].late
             /\ priced'[no].up = priced[no].up /\ priced'[no].in = priced[no].in
             /\ Newest' = Newest /\ Began' = Began
      BY <1>2, <1>5, TickCuts
    <2>3. ASSUME NEW q \in Charts!Range(curve'), ~priced'[q.no].late
          PROVE  IF priced'[q.no].in = Newest' THEN q.at = priced'[q.no].up ELSE q.at < Began'
      BY <1>3, <2>1, <2>2, <2>3
    <2>4. ASSUME NEW no \in 1..Len(priced), ~priced'[no].late
          PROVE  /\ priced'[no].in \in 1..Newest'
                 /\ priced'[no].in = Newest' => priced'[no].up >= Began'
      BY <1>3, <2>2, <2>4
    <2> QED
      BY <2>3, <2>4
  <1> QED
    BY <1>4, <1>5

LEMMA CurveHoles ==
  ASSUME ChartTypes, ClocksKept, CurveKept, Charts!Tick
  PROVE  NoHoles'
  <1>1. Newest \in Nat /\ priced \in Seq(Pricings) /\ Len(priced') = Len(priced)
    BY PricedTick DEF ChartTypes, Newest
  <1>2. \A no \in 1..Len(priced) :
               /\ clock.up # None
               /\ priced'[no].up = priced[no].up /\ priced'[no].in = priced[no].in
               /\ priced'[no].late <=> \/ priced[no].late
                                       \/ Charts!Slept /\ priced[no].up > clock.up
    BY PricedTick
  <1> SUFFICES ASSUME NEW no \in 1..Len(priced), ~priced'[no].late
               PROVE  \/ Charts!Brief(priced[no].in)' /\ ~On(no)'
                      \/ /\ ~Charts!Brief(priced[no].in)'
                         /\ \A q \in Charts!Range(curve') : q.moved /\ q.no < no => On(no)'
    BY <1>1 DEF NoHoles
  <1>3. /\ ~priced[no].late /\ priced[no].in \in 1..Newest
        /\ priced[no].in = Newest => priced[no].up >= Began
    BY <1>2 DEF CurveKept
  <1>4. \/ Charts!Brief(priced[no].in) /\ ~On(no)
        \/ /\ ~Charts!Brief(priced[no].in)
           /\ \A p \in Charts!Range(curve) : p.moved /\ p.no < no => On(no)
    BY <1>3 DEF CurveKept, NoHoles
  <1>5. Charts!Brief(priced[no].in)' <=>
              \/ Charts!Brief(priced[no].in)
              \/ Charts!Slept /\ Charts!Stub /\ priced[no].in = Newest
    <2>1. PICK s \in 1..Newest : s = priced[no].in
      BY <1>3
    <2>2. Charts!Brief(s)' <=> Charts!Brief(s) \/ (Charts!Slept /\ Charts!Stub /\ s = Newest)
      BY <1>2, TickWakes
    <2>3. Charts!Brief(priced[no].in)' <=> Charts!Brief(s)'
      BY <1>2, <2>1 DEF Charts!Brief
    <2> QED
      BY <2>1, <2>2, <2>3
  <1>6. CASE Charts!Slept
    <2>1. /\ \A q \in Charts!Range(curve') : \E p \in Left(curve) : q = Back(p)
          /\ \A p \in Left(curve) : Back(p) \in Charts!Range(curve')
          /\ \A p \in Charts!Range(curve) :
               p.at \in Int /\ Back(p).no = p.no /\ Back(p).moved = p.moved
          /\ Left(curve) \subseteq Charts!Range(curve)
          /\ Charts!Stub => \A p \in Charts!Range(curve) : p \in Left(curve) <=> p.at < Began
          /\ ~Charts!Stub => Left(curve) = Charts!Range(curve)
      BY <1>6, CurveSlept
    <2>2. On(no)' <=> \E p \in Left(curve) : p.no = no
      <3>1. On(no)' <=> \E q \in Charts!Range(curve') : q.no = no
        BY DEF On, Charts!Range
      <3> QED
        BY <2>1, <3>1
    <2>3. On(no)' => On(no)
      BY <2>1, <2>2 DEF On
    <2>4. CASE Charts!Brief(priced[no].in)
      BY <1>4, <1>5, <2>3, <2>4
    <2>5. CASE ~Charts!Brief(priced[no].in) /\ Charts!Stub /\ priced[no].in = Newest
      <3>1. ASSUME NEW p \in Left(curve), p.no = no PROVE FALSE
        <4>1. p \in Charts!Range(curve) /\ p.at < Began /\ p.at \in Int
          BY <2>1, <2>5
        <4>2. p.at = priced[no].up
          BY <1>3, <2>5, <3>1, <4>1 DEF CurveKept
        <4>3. Began \in Int
          <5>1. Newest > 0
            BY <1>3, <1>1
          <5>2. stretches[Newest] \in Spans
            BY <1>1, <5>1 DEF ChartTypes, Newest
          <5> QED
            BY <5>2 DEF Spans, Began
        <4> QED
          BY <1>3, <2>5, <4>1, <4>2, <4>3
      <3> QED
        BY <1>5, <1>6, <2>2, <2>5, <3>1
    <2>6. CASE ~Charts!Brief(priced[no].in) /\ ~(Charts!Stub /\ priced[no].in = Newest)
      <3>1. ~Charts!Brief(priced[no].in)'
        BY <1>5, <2>6
      <3>2. ASSUME NEW q \in Charts!Range(curve'), q.moved, q.no < no PROVE On(no)'
        <4>1. PICK p \in Charts!Range(curve) : q = Back(p)
          BY <2>1
        <4>2. p.moved /\ p.no < no
          BY <2>1, <3>2, <4>1
        <4>3. On(no)
          BY <1>4, <2>6, <4>2
        <4>4. PICK mine \in Charts!Range(curve) : mine.no = no
          BY <4>3 DEF On
        <4>5. mine \in Left(curve)
          <5>1. CASE Charts!Stub
            <6>1. priced[no].in # Newest
              BY <2>6, <5>1
            <6>2. mine.at < Began
              BY <1>3, <4>4, <6>1 DEF CurveKept
            <6> QED
              BY <2>1, <5>1, <6>2
          <5>2. CASE ~Charts!Stub
            BY <2>1, <5>2
          <5> QED
            BY <5>1, <5>2
        <4> QED
          BY <2>2, <4>4, <4>5
      <3> QED
        BY <3>1, <3>2
    <2> QED
      BY <2>4, <2>5, <2>6
  <1>7. CASE ~Charts!Slept
    <2>1. curve' = curve
      BY <1>7, CurveSame
    <2>2. On(no)' <=> On(no)
      BY <2>1 DEF On, Charts!Range
    <2> QED
      BY <1>4, <1>5, <1>7, <2>1, <2>2
  <1> QED
    BY <1>6, <1>7

LEMMA CurveTick ==
  ASSUME ChartTypes, ClocksKept, CurveKept, Charts!Tick
  PROVE  CurveKept'
  <1>1. /\ InOrder(curve') /\ Len(priced') = Len(priced) /\ clock'.up = up /\ up' = up
        /\ NoHoles'
    BY CurveStands, PricedTick, TickCuts, CurveHoles DEF Charts!Tick, Charts!machine
  <1>2. /\ \A q \in Charts!Range(curve') :
               /\ q.no \in 1..Len(priced) /\ q.at <= up
               /\ reading.st = "read" => q.at <= reading.up
        /\ \A p, q \in Charts!Range(curve') : p.no < q.no => p.at <= q.at
    BY CurveStands
  <1>3. /\ \A q \in Charts!Range(curve') : ~priced'[q.no].late =>
               IF priced'[q.no].in = Newest' THEN q.at = priced'[q.no].up ELSE q.at < Began'
        /\ \A no \in 1..Len(priced) : ~priced'[no].late =>
               /\ priced'[no].in \in 1..Newest'
               /\ priced'[no].in = Newest' => priced'[no].up >= Began'
    BY CurveApart
  <1>4. reading'.st = "read" =>
               /\ reading.st = "read" /\ clock.up # None
               /\ reading'.up = reading.up /\ reading'.in = reading.in
               /\ ~reading'.late => ~reading.late /\ ~Charts!Slept
    BY ReadingTick
  <1>5. reading'.st = "read" =>
               /\ reading'.up <= up'
               /\ ~reading'.late => reading'.in = Newest' /\ reading'.up >= Began'
    <2> SUFFICES ASSUME reading'.st = "read"
                 PROVE  /\ reading'.up <= up'
                        /\ ~reading'.late => reading'.in = Newest' /\ reading'.up >= Began'
      OBVIOUS
    <2>1. /\ reading.up <= up
          /\ ~reading.late => reading.in = Newest /\ reading.up >= Began
      BY <1>4 DEF CurveKept
    <2>2. ~reading'.late => Newest' = Newest /\ Began' = Began
      BY <1>4, TickCuts
    <2> QED
      BY <1>1, <1>4, <2>1, <2>2
  <1>6. \A q \in Charts!Range(curve') :
               /\ q.no \in 1..Len(priced') /\ q.at <= up'
               /\ reading'.st = "asked" => q.at <= clock'.up
               /\ reading'.st = "read" => q.at <= reading'.up
    BY <1>1, <1>2, <1>4
  <1>7. Charts!Range(curve)' = Charts!Range(curve')
    BY DEF Charts!Range
  <1> QED
    BY <1>1, <1>2, <1>3, <1>5, <1>6, <1>7 DEF CurveKept

LEMMA CurveReadEnds ==
  ASSUME ChartTypes, ClocksKept, CurveKept, Charts!ReadEnds
  PROVE  reading' \in Readings /\ CurveKept'
  <1>1. /\ reading.st = "asked" /\ up > clock.up
        /\ UNCHANGED <<up, clock, curve, priced, stretches>>
    BY DEF Charts!ReadEnds, Charts!machine, Charts!rings, Charts!history
  <1>2. PICK moved \in BOOLEAN :
           reading' = [st |-> "read", up |-> up, moved |-> moved, late |-> FALSE, in |-> Newest]
    BY DEF Charts!ReadEnds, Newest
  <1>3. up \in Nat /\ Newest \in Nat
    BY DEF ChartTypes, Newest
  <1>4. /\ reading'.st = "read" /\ reading'.up = up /\ reading'.in = Newest
        /\ reading' \in Readings
    BY <1>2, <1>3 DEF Readings
  <1>5. clock.up # None /\ clock.up \in Nat /\ Began <= clock.up
    <2>1. reading # Charts!Idle
      BY <1>1 DEF Charts!Idle
    <2> QED
      BY <2>1, ChartsAssumed DEF ClocksKept, ChartFacts
  <1>6. \A p \in Charts!Range(curve) : p.at \in Int /\ p.at <= clock.up /\ p.at <= up
    <2>1. \A p \in Charts!Range(curve) : p \in CurvePoints
      BY DEF ChartTypes, Charts!Range
    <2> QED
      BY <1>1, <2>1 DEF CurveKept, CurvePoints
  <1>7. Began \in Int
    <2>1. Newest > 0
      BY <1>5, ChartsAssumed DEF ClocksKept, ChartFacts
    <2>2. stretches[Newest] \in Spans
      BY <1>3, <2>1 DEF ChartTypes, Newest
    <2> QED
      BY <2>2 DEF Spans, Began
  <1>8. up >= Began /\ \A p \in Charts!Range(curve) : p.at <= reading'.up
    BY <1>1, <1>3, <1>4, <1>5, <1>6, <1>7
  <1>9. Newest' = Newest /\ Began' = Began /\ NoHoles'
    BY <1>1 DEF Newest, Began, CurveKept, NoHoles, On, Charts!Brief
  <1>10. Charts!Range(curve)' = Charts!Range(curve)
    BY <1>1
  <1> QED
    BY <1>1, <1>3, <1>4, <1>8, <1>9, <1>10 DEF CurveKept

LEMMA CurveReadLands ==
  ASSUME ChartTypes, ClocksKept, CurveKept, Charts!ReadLands
  PROVE  /\ curve' \in Seq(CurvePoints) /\ priced' \in Seq(Pricings)
         /\ CurveKept'
  <1> DEFINE nth == Len(priced) + 1
             x == [at |-> reading.up, no |-> nth, moved |-> reading.moved]
             price == [up |-> reading.up, late |-> reading.late, in |-> reading.in]
             R == Charts!Range(curve)
             S == Charts!Range(curve')
  <1>1. /\ reading.st = "read" /\ reading' = Charts!Idle
        /\ UNCHANGED <<up, clock, stretches>>
        /\ priced' = Append(priced, price)
        /\ curve' = Charts!RecordCurve(curve, reading.up, Len(priced'), reading.moved)
    BY DEF Charts!ReadLands, Charts!machine
  <1>2. /\ up \in Nat /\ Newest \in Nat /\ priced \in Seq(Pricings) /\ Len(priced) \in Nat
        /\ curve \in Seq(CurvePoints) /\ InOrder(curve) /\ CurveWindow \in Nat
    BY ChartsAssumed DEF ChartTypes, Newest, CurveKept, ChartFacts
  <1>3. /\ reading.up \in Nat /\ reading.moved \in BOOLEAN /\ reading.late \in BOOLEAN
        /\ reading.in \in Nat
    <2>1. reading \in Readings
      BY <1>1 DEF ChartTypes, Charts!Idle, Charts!Asked
    <2> QED
      BY <2>1 DEF Readings
  <1>4. /\ reading.up <= up
        /\ ~reading.late => reading.in = Newest /\ reading.up >= Began
    BY <1>1 DEF CurveKept
  <1>5. price \in Pricings
    BY <1>3 DEF Pricings
  <1>6. /\ price.up = reading.up /\ price.late = reading.late /\ price.in = reading.in
        /\ x.no = nth /\ x.at = reading.up
    OBVIOUS
  <1> HIDE DEF price
  <1>7. /\ priced' \in Seq(Pricings) /\ Len(priced') = nth /\ priced'[nth] = price
        /\ \A no \in 1..Len(priced) : priced'[no] = priced[no]
    BY <1>1, <1>2, <1>5
  <1>8. /\ \A p \in R :
              /\ p.no \in 1..Len(priced) /\ p.at \in Int /\ p.at <= up /\ p.at <= reading.up
              /\ ~priced[p.no].late =>
                   IF priced[p.no].in = Newest THEN p.at = priced[p.no].up ELSE p.at < Began
        /\ \A p, q \in R : p.no < q.no => p.at <= q.at
    <2>1. \A p \in R : p \in CurvePoints
      BY <1>2 DEF Charts!Range
    <2>2. \A p \in R : p.at \in Int
      BY <2>1 DEF CurvePoints
    <2> QED
      BY <1>1, <2>2 DEF CurveKept
  <1>9. /\ curve' \in Seq(CurvePoints) /\ InOrder(curve')
        /\ S = {} \/ S = {p \in R \cup {x} : reading.up - p.at <= CurveWindow}
    <2>1. \A p \in R : p.no < nth
      BY <1>2, <1>8
    <2>2. curve' = Charts!RecordCurve(curve, reading.up, nth, reading.moved)
      BY <1>1, <1>7
    <2>3. reading.up \in Int /\ nth \in Nat
      BY <1>2, <1>3
    <2>4. PICK at \in Int, no \in Nat, moved \in BOOLEAN :
            at = reading.up /\ no = nth /\ moved = reading.moved
      BY <1>3, <2>3
    <2>5. \A p \in Charts!Range(curve) : p.no < no
      BY <2>1, <2>4
    <2>6. x = [at |-> at, no |-> no, moved |-> moved]
      BY <2>4
    <2>7. curve' = Charts!RecordCurve(curve, at, no, moved)
      BY <2>2, <2>4
    <2> HIDE DEF x
    <2>8. /\ curve' \in Seq(CurvePoints) /\ InOrder(curve')
          /\ \/ Charts!Range(curve') = {}
             \/ Charts!Range(curve')
                    = {p \in Charts!Range(curve) \cup {x} : at - p.at <= CurveWindow}
      BY <1>2, <2>4, <2>5, <2>6, <2>7, CurveLeaves
    <2> QED
      BY <2>4, <2>8
  <1> HIDE DEF x, R, S
  <1>10. S \subseteq R \cup {x} /\ (S # {} => x \in S)
    BY <1>2, <1>3, <1>6, <1>9
  <1>11. Newest' = Newest /\ Began' = Began /\ up' = up /\ reading'.st = "idle"
    BY <1>1 DEF Newest, Began, Charts!Idle
  <1>12. ASSUME NEW q \in S
         PROVE  /\ q.no \in 1..nth /\ q.at <= up
                /\ ~priced'[q.no].late =>
                     IF priced'[q.no].in = Newest THEN q.at = priced'[q.no].up ELSE q.at < Began
    <2>1. CASE q \in R
      <3>1. q.no \in 1..Len(priced) /\ q.no \in 1..nth /\ priced'[q.no] = priced[q.no]
        BY <1>2, <1>7, <1>8, <2>1
      <3> QED
        BY <1>8, <2>1, <3>1
    <2>2. CASE q = x
      <3>1. q.no = nth /\ q.at = reading.up /\ priced'[q.no] = price /\ nth \in 1..nth
        BY <1>2, <1>6, <1>7, <2>2
      <3> QED
        BY <1>4, <1>6, <3>1
    <2> QED
      BY <1>10, <2>1, <2>2
  <1>13. ASSUME NEW p \in S, NEW q \in S, p.no < q.no PROVE p.at <= q.at
    <2>1. p \in R
      <3>1. q.no <= nth
        BY <1>2, <1>12
      <3>2. p # x
        <4>1. q.no \in Int /\ nth \in Int
          BY <1>2, <1>12
        <4> QED
          BY <1>6, <1>13, <3>1, <4>1
      <3> QED
        BY <1>10, <3>2
    <2>2. q \in R \/ q = x
      BY <1>10
    <2> QED
      BY <1>6, <1>8, <1>13, <2>1, <2>2
  <1>14. ASSUME NEW no \in 1..nth, ~priced'[no].late
         PROVE  priced'[no].in \in 1..Newest /\ (priced'[no].in = Newest => priced'[no].up >= Began)
    <2>1. CASE no \in 1..Len(priced)
      BY <1>7, <1>14, <2>1 DEF CurveKept
    <2>2. CASE no = nth
      <3>1. priced'[no].in = Newest /\ priced'[no].up >= Began
        BY <1>4, <1>6, <1>7, <1>14, <2>2
      <3>2. Newest > 0
        <4>1. reading # Charts!Idle
          BY <1>1 DEF Charts!Idle
        <4> QED
          BY <4>1 DEF ClocksKept
      <3> QED
        BY <1>2, <3>1, <3>2
    <2> QED
      BY <1>2, <2>1, <2>2
  <1>15. NoHoles'
    <2>1. \A no : On(no)' <=> \E q \in S : q.no = no
      BY DEF On, S, Charts!Range
    <2>2. \A s : Charts!Brief(s)' <=> Charts!Brief(s)
      BY <1>1 DEF Charts!Brief
    <2> SUFFICES ASSUME NEW no \in 1..nth, ~priced'[no].late
                 PROVE  \/ Charts!Brief(priced[no].in)' /\ ~On(no)'
                        \/ /\ ~Charts!Brief(priced[no].in)'
                           /\ \A q \in S : q.moved /\ q.no < no => On(no)'
      BY <1>7 DEF NoHoles, S, Charts!Range
    <2>3. Charts!Brief(priced[no].in)' <=> Charts!Brief(priced'[no].in)
      BY <1>1 DEF Charts!Brief
    <2>4. CASE no \in 1..Len(priced)
      <3>1. priced'[no] = priced[no] /\ x.no # no
        BY <1>2, <1>6, <1>7, <2>4
      <3>2. On(no)' => On(no)
        BY <1>10, <2>1, <3>1 DEF On, R
      <3>3. \/ Charts!Brief(priced[no].in) /\ ~On(no)
            \/ /\ ~Charts!Brief(priced[no].in)
               /\ \A p \in R : p.moved /\ p.no < no => On(no)
        BY <2>4, <3>1 DEF CurveKept, NoHoles, R
      <3>4. ASSUME NEW q \in S, q.moved, q.no < no, ~Charts!Brief(priced[no].in)
            PROVE  On(no)'
        <4>1. q \in R
          <5>1. q # x
            BY <1>2, <1>6, <2>4, <3>4
          <5> QED
            BY <1>10, <5>1
        <4>2. On(no)
          BY <3>3, <3>4, <4>1
        <4>3. PICK mine \in R : mine.no = no
          BY <4>2 DEF On, R
        <4>4. q.at <= mine.at /\ q.at \in Int /\ mine.at \in Int
          BY <1>8, <3>4, <4>1, <4>3
        <4>5. reading.up - q.at <= CurveWindow
          BY <1>9, <3>4
        <4>6. reading.up - mine.at <= CurveWindow
          BY <1>2, <1>3, <4>4, <4>5
        <4>7. mine \in S
          BY <1>9, <4>3, <4>6
        <4> QED
          BY <2>1, <4>3, <4>7
      <3> QED
        BY <2>3, <3>1, <3>2, <3>3, <3>4
    <2>5. CASE no = nth
      <3>1. ~Charts!Brief(priced'[no].in)
        <4>1. priced'[no].in = Newest
          BY <1>4, <1>6, <1>7, <2>5
        <4> QED
          BY <1>2, <4>1 DEF Charts!Brief, Newest
      <3>2. ASSUME NEW q \in S PROVE On(no)'
        BY <1>6, <1>10, <2>1, <2>5
      <3> QED
        BY <2>3, <3>1, <3>2
    <2> QED
      BY <1>2, <2>4, <2>5
  <1>16. Charts!Range(curve)' = S
    BY DEF S, Charts!Range
  <1> QED
    BY <1>7, <1>9, <1>11, <1>12, <1>13, <1>14, <1>15, <1>16 DEF CurveKept

----------------------------------------------------------------------------
(* Both lines.                                                                *)

LEMMA ChartsBegin == Charts!Init => ChartsKept
  <1> SUFFICES ASSUME Charts!Init PROVE ChartsKept
    OBVIOUS
  <1>1. /\ up = 0 /\ wall = 0 /\ clock = [up |-> None, wall |-> 0] /\ awakeSince = None
        /\ ring = <<>> /\ curve = <<>> /\ reading = Charts!Idle
        /\ said = <<>> /\ priced = <<>> /\ stretches = <<>> /\ missed = 0
    BY DEF Charts!Init
  <1>2. clock.up = None
    BY <1>1
  <1>3. ChartTypes
    BY <1>1 DEF ChartTypes
  <1>4. ClocksKept
    BY <1>1, <1>2 DEF ClocksKept
  <1>5. Charts!Range(ring) = {} /\ Charts!Range(curve) = {}
    BY <1>1 DEF Charts!Range
  <1>6. Len(said) = 0 /\ Len(priced) = 0 /\ InOrder(ring) /\ InOrder(curve)
    BY <1>1 DEF InOrder
  <1>7. RingKept
    BY <1>5, <1>6 DEF RingKept
  <1>8. CurveKept
    <2>1. reading.st # "read" /\ NoHoles
      BY <1>1, <1>6 DEF Charts!Idle, NoHoles
    <2> QED
      BY <1>5, <1>6, <2>1 DEF CurveKept
  <1> QED
    BY <1>3, <1>4, <1>7, <1>8 DEF ChartsKept

\* Time, a sleep and a set clock move no point.
LEMMA TimeMovesNone ==
  ASSUME ChartsKept, up' \in Nat, up' >= up, wall' \in Int,
         UNCHANGED <<Charts!rings, reading, Charts!history>>
  PROVE  ChartsKept'
  <1>1. UNCHANGED <<clock, awakeSince, ring, curve, reading, said, priced, stretches, missed>>
    BY DEF Charts!rings, Charts!history
  <1>2. up \in Nat
    BY DEF ChartsKept, ChartTypes
  <1>3. ChartTypes'
    BY <1>1 DEF ChartsKept, ChartTypes
  <1>4. Newest' = Newest /\ Began' = Began
    BY <1>1 DEF Newest, Began
  <1>5. ClocksKept'
    BY <1>1, <1>2, <1>4 DEF ChartsKept, ClocksKept
  <1>6. RingKept'
    BY <1>1 DEF ChartsKept, RingKept, Spot, Due, Newest, Began, Charts!Age, Charts!Brief
  <1>7. NoHoles'
    BY <1>1 DEF ChartsKept, CurveKept, NoHoles, On, Charts!Brief
  <1>8. \A p \in Charts!Range(curve) : p.at <= up'
    <2>1. \A p \in Charts!Range(curve) : p \in CurvePoints
      BY DEF ChartsKept, ChartTypes, Charts!Range
    <2>2. \A p \in Charts!Range(curve) : p.at \in Int /\ p.at <= up
      BY <2>1 DEF ChartsKept, CurveKept, CurvePoints
    <2> QED
      BY <1>2, <2>2
  <1>9. reading.st = "read" => reading.up <= up'
    <2>1. reading.st = "read" => reading \in Readings
      BY DEF ChartsKept, ChartTypes, Charts!Idle, Charts!Asked
    <2>2. reading.st = "read" => reading.up \in Nat /\ reading.up <= up
      BY <2>1 DEF ChartsKept, CurveKept, Readings
    <2> QED
      BY <1>2, <2>2
  <1>10. CurveKept'
    BY <1>1, <1>4, <1>7, <1>8, <1>9 DEF ChartsKept, CurveKept
  <1> QED
    BY <1>3, <1>5, <1>6, <1>10 DEF ChartsKept

LEMMA ChartsNext ==
  ASSUME ChartsKept, [Charts!Next]_charts
  PROVE  ChartsKept'
  <1>0. ChartTypes /\ ClocksKept /\ RingKept /\ CurveKept
    BY DEF ChartsKept
  <1>1. CASE Charts!Tick
    <2>1. up' = up /\ wall' = wall /\ up \in Nat /\ wall \in Int /\ clock' = [up |-> up, wall |-> wall]
      BY <1>0, <1>1 DEF ChartTypes, Charts!Tick, Charts!machine
    <2>2. awakeSince' \in Nat \cup {None}
      <3>1. awakeSince' = up \/ awakeSince' = awakeSince
        BY <1>1 DEF Charts!Tick
      <3> QED
        BY <1>0, <2>1, <3>1 DEF ChartTypes
    <2>3. /\ ring' \in Seq(RingPoints) /\ RingKept' /\ curve' \in Seq(CurvePoints) /\ CurveKept'
          /\ ClocksKept'
      BY <1>0, <1>1, RingTick, CurveStands, CurveTick, TickCuts
    <2>4. said' \in Seq(Sayings) /\ missed' \in Int
      BY <1>0, <1>1, SaidTick
    <2>5. /\ priced' \in Seq(Pricings) /\ stretches' \in Seq(Spans)
          /\ reading' \in {Charts!Idle, Charts!Asked} \cup Readings
      BY <1>0, <1>1, PricedTick, ReadingTick, TickCuts
    <2>6. clock' \in [up : Nat \cup {None}, wall : Int]
      BY <2>1
    <2>7. ChartTypes'
      BY <2>1, <2>2, <2>3, <2>4, <2>5, <2>6 DEF ChartTypes
    <2> QED
      BY <2>3, <2>7 DEF ChartsKept
  <1>2. CASE Charts!ReadEnds
    <2>1. reading' \in Readings /\ CurveKept'
      BY <1>0, <1>2, CurveReadEnds
    <2>2. /\ reading # Charts!Idle
          /\ UNCHANGED <<up, wall, clock, awakeSince, ring, curve, said, priced, stretches, missed>>
      BY <1>2 DEF Charts!ReadEnds, Charts!machine, Charts!rings, Charts!history, Charts!Idle
    <2>3. ChartTypes'
      BY <1>0, <2>1, <2>2 DEF ChartTypes
    <2>4. ClocksKept'
      BY <1>0, <2>2 DEF ClocksKept, Newest, Began
    <2>5. RingKept'
      BY <1>0, <2>2 DEF RingKept, Spot, Due, Newest, Began, Charts!Age, Charts!Brief
    <2> QED
      BY <2>1, <2>3, <2>4, <2>5 DEF ChartsKept
  <1>3. CASE Charts!ReadLands
    <2>1. curve' \in Seq(CurvePoints) /\ priced' \in Seq(Pricings) /\ CurveKept'
      BY <1>0, <1>3, CurveReadLands
    <2>2. /\ reading # Charts!Idle /\ reading' = Charts!Idle
          /\ UNCHANGED <<up, wall, clock, awakeSince, ring, said, stretches, missed>>
      BY <1>3 DEF Charts!ReadLands, Charts!machine, Charts!Idle
    <2>3. ChartTypes'
      BY <1>0, <2>1, <2>2 DEF ChartTypes
    <2>4. ClocksKept'
      BY <1>0, <2>2 DEF ClocksKept, Newest, Began
    <2>5. RingKept'
      BY <1>0, <2>2 DEF RingKept, Spot, Due, Newest, Began, Charts!Age, Charts!Brief
    <2> QED
      BY <2>1, <2>3, <2>4, <2>5 DEF ChartsKept
  <1>4. CASE Charts!Pass \/ Charts!Sleep \/ Charts!SetBack
    <2>1. up \in Nat /\ wall \in Int
      BY <1>0 DEF ChartTypes
    <2>2. UNCHANGED <<Charts!rings, reading, Charts!history>>
      BY <1>4 DEF Charts!Pass, Charts!Sleep, Charts!SetBack
    <2>3. CASE Charts!Pass
      <3>1. up' = up + 1 /\ wall' = wall + 1
        BY <2>3 DEF Charts!Pass
      <3> QED
        BY <2>1, <2>2, <3>1, TimeMovesNone
    <2>4. CASE Charts!Sleep
      <3>1. up' = up /\ \E k \in SleepLengths : wall' = wall + k
        BY <2>4 DEF Charts!Sleep
      <3>2. wall' \in Int
        BY <2>1, <3>1, ChartsAssumed DEF ChartFacts
      <3> QED
        BY <2>1, <2>2, <3>1, <3>2, TimeMovesNone
    <2>5. CASE Charts!SetBack
      <3>1. up' = up /\ wall' = wall - 1
        BY <2>5 DEF Charts!SetBack
      <3> QED
        BY <2>1, <2>2, <3>1, TimeMovesNone
    <2> QED
      BY <1>4, <2>3, <2>4, <2>5
  <1>5. CASE UNCHANGED charts
    <2>1. UNCHANGED <<Charts!rings, reading, Charts!history>> /\ up' = up /\ wall' = wall
      BY <1>5 DEF charts, Charts!rings, Charts!history
    <2>2. up \in Nat /\ wall \in Int
      BY <1>0 DEF ChartTypes
    <2> QED
      BY <2>1, <2>2, TimeMovesNone
  <1> QED
    BY <1>1, <1>2, <1>3, <1>4, <1>5 DEF Charts!Next

LEMMA ChartsHold ==
  ASSUME ChartsKept
  PROVE  Charts!RingIsTheHalfHour /\ Charts!CurveHasNoHoles
  <1>1. Charts!CurveHasNoHoles
    BY HolesAreHoles DEF ChartsKept, CurveKept
  <1>2. /\ DOMAIN said = 1..Len(said) /\ DOMAIN ring = 1..Len(ring) /\ InOrder(ring)
        /\ Charts!Range(ring)
               = {[at |-> Spot(no), no |-> no] : no \in {m \in 1..Len(said) : Due(m)}}
    BY DEF ChartsKept, ChartTypes, RingKept
  <1> DEFINE shown == {no \in DOMAIN said : ~Charts!Brief(said[no].in)
                                            /\ Charts!Age(said[no]) <= ChartWindow}
  <1>3. shown = {m \in 1..Len(said) : Due(m)}
    BY <1>2 DEF Due
  <1>4. {ring[i] : i \in DOMAIN ring} = Charts!Range(ring)
    BY DEF Charts!Range
  <1> HIDE DEF shown
  <1>5. {[at |-> clock.up - Charts!Age(said[no]), no |-> no] : no \in shown}
            = {ring[i] : i \in DOMAIN ring}
    BY <1>2, <1>3, <1>4 DEF Spot
  <1>6. \A i, j \in DOMAIN ring : i < j => ring[i].no < ring[j].no
    BY <1>2 DEF InOrder
  <1> QED
    BY <1>1, <1>5, <1>6 DEF Charts!RingIsTheHalfHour, shown

\* For any ticks, sleeps, set clocks and reads under way: the half hour holds every
\* reading of it at its age by the wall clock but those of maintenance wakes, the ten
\* minutes of a program have no holes, and no machine sleeps under a lit cup nor is kept
\* awake by a hold that nothing can release.
THEOREM TimesAreAlwaysHonest == PartsSpec => []TimesAreHonest
  <1> DEFINE Lasts == (part = "charts" => ChartsKept) /\ (part = "awake" => HoldKept)
  <1>1. PartsInit => Lasts
    <2>1. Awake!Init => HoldKept
      BY HoldBegins
    <2> QED
      BY <2>1, ChartsBegin DEF PartsInit
  <1>2. Lasts /\ [PartsNext]_allVars => Lasts'
    BY PartSteps, ChartsNext, HoldNext
  <1>3. Lasts => TimesAreHonest
    BY ChartsHold, HoldHolds DEF TimesAreHonest
  <1> QED
    BY <1>1, <1>2, <1>3, PTL DEF PartsSpec

----------------------------------------------------------------------------
(* The rates (Traffic).                                                       *)

Tables ==
    UNION {[S -> [age : Nat \cup {None}, tenant : Nat, down : Nat, up : Nat,
                  program : Pids \cup {"named"}]] : S \in SUBSET Pids}
Taken == [at : Nat, rows : Tables]

\* What a read at a moment says of a process: who holds the pid by then and, if ages
\* are told at all, since when.
Since(p, at) == IF at >= handover[p] THEN handover[p] ELSE 0
Witnessed(sample) ==
    /\ sample \in Taken
    /\ \A p \in DOMAIN sample.rows :
          /\ sample.rows[p].tenant = Since(p, sample.at)
          /\ sample.rows[p].age \in {None, sample.at - Since(p, sample.at)}

TrafficKept ==
    /\ now \in Nat /\ handover \in [Pids -> 1..TrafficHorizon]
    /\ asked \in Nat \cup {None} /\ (asked # None => asked <= now)
    /\ baseline # Torn => Witnessed(baseline) /\ card.st \in {"reading", "ready"}
    /\ card.st = "ready" =>
          /\ baseline # Torn /\ card.to = baseline /\ Witnessed(card.from)
          /\ card.to.at - card.from.at >= MinWindow
          /\ card.rows = Traffic!ByProgram(card.from, card.to)

LEMMA TrafficFacts ==
  /\ None \notin Int /\ Torn \notin Taken
  /\ IsFiniteSet(Pids) /\ MinWindow \in Nat \ {0} /\ AgeSlack \in Nat /\ TrafficHorizon \in Nat
  BY FiguresAssumption DEF Taken, Tables

LEMMA SampleIsWitnessed ==
  ASSUME handover \in [Pids -> 1..TrafficHorizon], NEW at \in Nat, NEW says \in BOOLEAN,
         NEW sample \in Traffic!Samples(at, says)
  PROVE  Witnessed(sample)
  <1> DEFINE Row(p, a, b) == Traffic!Row(p, at, says, a, b)
  <1>0. PICK S \in SUBSET Pids :
           \E a, b \in [S -> 0..(IF says THEN MaxBytes ELSE 0)] :
              sample = [at |-> at, rows |-> [p \in S |-> Row(p, a[p], b[p])]]
    BY DEF Traffic!Samples
  <1>1. PICK a, b \in [S -> 0..(IF says THEN MaxBytes ELSE 0)] :
           sample = [at |-> at, rows |-> [p \in S |-> Row(p, a[p], b[p])]]
    BY <1>0
  <1>2. \A p \in S : /\ a[p] \in Nat /\ b[p] \in Nat /\ Since(p, at) \in Nat
                     /\ Since(p, at) <= at
    BY TrafficFacts DEF Since
  <1>3. \A p \in S : /\ Row(p, a[p], b[p]) \in
                          [age : Nat \cup {None}, tenant : Nat, down : Nat, up : Nat,
                           program : Pids \cup {"named"}]
                     /\ Row(p, a[p], b[p]).tenant = Since(p, at)
                     /\ Row(p, a[p], b[p]).age \in {None, at - Since(p, at)}
    BY <1>2 DEF Traffic!Row, Since
  <1> HIDE DEF Row
  <1>4. sample.rows \in Tables /\ sample.at = at /\ DOMAIN sample.rows = S
        /\ \A p \in S : sample.rows[p] = Row(p, a[p], b[p])
    BY <1>1, <1>3 DEF Tables
  <1>5. sample \in Taken
    BY <1>1, <1>4 DEF Taken
  <1> QED
    BY <1>3, <1>4, <1>5 DEF Witnessed

LEMMA TrafficBegins == Traffic!Init => TrafficKept
  BY TrafficFacts DEF Traffic!Init, Traffic!View, TrafficKept

LEMMA TrafficNext ==
  ASSUME TrafficKept, [Traffic!Next]_traffic
  PROVE  TrafficKept' /\ (Traffic!Next => Traffic!RankingStands)
  <1>1. /\ now \in Nat /\ handover \in [Pids -> 1..TrafficHorizon]
        /\ asked \in Nat \cup {None} /\ (asked # None => asked <= now)
    BY DEF TrafficKept
  <1>2. CASE Traffic!EnsureTraffic
    BY <1>1, <1>2 DEF Traffic!EnsureTraffic, Traffic!world, TrafficKept, Witnessed, Since,
                      Traffic!RankingStands
  <1>3. CASE Traffic!Pass
    BY <1>1, <1>3 DEF Traffic!Pass, Traffic!world, TrafficKept, Witnessed, Since,
                      Traffic!RankingStands
  <1>4. CASE UNCHANGED traffic
    BY <1>1, <1>4 DEF traffic, TrafficKept, Witnessed, Since, Traffic!RankingStands
  <1>5. CASE Traffic!ApplyTraffic
    <2>1. asked # None /\ asked' = None /\ UNCHANGED <<now, handover, known>>
      BY <1>5 DEF Traffic!ApplyTraffic, Traffic!world
    <2>2. \A s : Witnessed(s)' <=> Witnessed(s)
      BY <2>1 DEF Witnessed, Since
    <2>3. PICK at \in asked..now :
             \/ \E tells \in BOOLEAN : \E sample \in Traffic!Samples(at, tells) : Traffic!Priced(sample)
             \/ Traffic!Refused(at)
             \/ Traffic!Failed(at)
      BY <1>5 DEF Traffic!ApplyTraffic
    <2>4. CASE Traffic!Refused(at) 
      BY <1>1, <2>1, <2>2, <2>4 DEF Traffic!Refused, Traffic!View, TrafficKept, Traffic!RankingStands
    <2>5. CASE Traffic!Failed(at) 
      BY <1>1, <2>1, <2>2, <2>5 DEF Traffic!Failed, Traffic!View, TrafficKept, Traffic!RankingStands
    <2>6. ASSUME NEW says \in BOOLEAN, NEW sample \in Traffic!Samples(at, says), Traffic!Priced(sample)
          PROVE  TrafficKept' /\ Traffic!RankingStands
      <3>1. Witnessed(sample) /\ sample # Torn
        BY <1>1, <2>1, <2>6, SampleIsWitnessed, TrafficFacts DEF Witnessed
      <3>2. CASE baseline = Torn
        BY <1>1, <2>1, <2>2, <2>6, <3>1, <3>2 DEF Traffic!Priced, Traffic!View, TrafficKept, Traffic!RankingStands
      <3>3. CASE baseline # Torn /\ sample.at - baseline.at < MinWindow
        BY <1>1, <2>1, <2>2, <2>6, <3>1, <3>3 DEF Traffic!Priced, TrafficKept, Traffic!RankingStands
      <3>4. CASE baseline # Torn /\ ~(sample.at - baseline.at < MinWindow)
        <4>1. /\ card' = [st |-> "ready", rows |-> Traffic!ByProgram(baseline, sample),
                          from |-> baseline, to |-> sample]
              /\ baseline' = sample
          BY <2>6, <3>4 DEF Traffic!Priced
        <4>2. Witnessed(baseline) /\ card.st \in {"reading", "ready"}
          BY <3>4 DEF TrafficKept
        <4>3. sample.at - baseline.at >= MinWindow
          BY <3>1, <3>4, <4>2, TrafficFacts DEF Witnessed, Taken
        <4> QED
          BY <1>1, <2>1, <2>2, <3>1, <4>1, <4>2, <4>3 DEF TrafficKept, Traffic!RankingStands
      <3> QED
        BY <3>2, <3>3, <3>4
    <2> QED
      BY <2>3, <2>4, <2>5, <2>6
  <1> QED
    BY <1>2, <1>3, <1>4, <1>5 DEF Traffic!Next

\* The sum on a row is a sum over the functions the lemmas above are about.
LEMMA RowSum ==
  ASSUME NEW a, NEW b, NEW S, IsFiniteSet(S)
  PROVE  Traffic!MapThenSumSet(LAMBDA p : Traffic!Rate(a, b, p), S)
             = Total([p \in S |-> Traffic!Rate(a, b, p)], S)
  <1> DEFINE f == [p \in S |-> Traffic!Rate(a, b, p)]
             Runs(it) == it = [s \in SUBSET S |-> IF s = {} THEN 0
                                  ELSE Traffic!Rate(a, b, CHOOSE x \in s : TRUE)
                                           + it[s \ {CHOOSE x \in s : TRUE}]]
             sum == CHOOSE it : Runs(it)
  <1>1. Traffic!MapThenSumSet(LAMBDA p : Traffic!Rate(a, b, p), S) = sum[S]
    BY DEF Traffic!MapThenSumSet, Traffic!MapThenFoldSet
  <1>2. \A s \in SUBSET S : s # {} => f[First(s)] = Traffic!Rate(a, b, First(s))
    BY FirstIn
  <1>3. \A it : Runs(it) <=> Tally(it, f, S)
    <2> HIDE DEF f
    <2> QED
      BY <1>2 DEF Tally, First
  <1>4. Tally(sum, f, S)
    <2> HIDE DEF f, Runs
    <2>1. \E it : Runs(it)
      BY <1>3, TallyExists
    <2>2. Runs(sum)
      BY <2>1
    <2> QED
      BY <2>2, <1>3
  <1> HIDE DEF f, sum, Runs
  <1>5. Total(f, S) = sum[S]
    BY <1>4, TotalIs
  <1> QED
    BY <1>1, <1>5 DEF f

LEMMA RatesAreCounts ==
  ASSUME NEW a \in Taken, NEW b \in Taken, b.at - a.at >= MinWindow,
         NEW p \in DOMAIN a.rows \cap DOMAIN b.rows
  PROVE  /\ Traffic!Rate(a, b, p) \in Nat
         /\ \/ b.rows[p].down - a.rows[p].down >= b.at - a.at
            \/ b.rows[p].up - a.rows[p].up >= b.at - a.at
            => Traffic!Rate(a, b, p) > 0
  <1>1. b.at - a.at \in Nat \ {0}
    BY TrafficFacts DEF Taken
  <1>2. /\ a.rows[p].down \in Nat /\ a.rows[p].up \in Nat
        /\ b.rows[p].down \in Nat /\ b.rows[p].up \in Nat
    BY DEF Taken, Tables
  <1>3. ASSUME NEW m \in Nat, NEW n \in Nat, NEW secs \in Nat \ {0}
        PROVE  /\ Traffic!OrZero(Traffic!Rising(m, n, secs)) \in Nat
               /\ n - m >= secs => Traffic!OrZero(Traffic!Rising(m, n, secs)) > 0
    <2> DEFINE top == 2 * (n - m) + secs
               rate == top \div (2 * secs)
    <2>1. CASE n < m
      BY <2>1 DEF Traffic!Rising, Traffic!OrZero
    <2>2. CASE ~(n < m)
      <3>1. top \in Nat /\ 2 * secs \in Nat \ {0}
        BY <2>2
      <3>2. rate \in Nat /\ (top >= 2 * secs => rate > 0)
        <4> HIDE DEF top
        <4>1. ASSUME NEW d \in Nat \ {0} PROVE top \div d \in Nat /\ (top >= d => top \div d > 0)
          BY <3>1
        <4> QED
          BY <4>1, <3>1
      <3>3. n - m >= secs => top >= 2 * secs
        OBVIOUS
      <3>4. Traffic!Rising(m, n, secs) = rate
        BY <2>2 DEF Traffic!Rising
      <3> HIDE DEF rate, top
      <3>5. Traffic!OrZero(Traffic!Rising(m, n, secs)) = rate
        BY <3>2, <3>4, TrafficFacts DEF Traffic!OrZero
      <3> QED
        BY <3>2, <3>3, <3>5
    <2> QED
      BY <2>1, <2>2
  <1> QED
    <2> DEFINE secs == b.at - a.at
               fell == Traffic!OrZero(Traffic!Rising(a.rows[p].down, b.rows[p].down, secs))
               rose == Traffic!OrZero(Traffic!Rising(a.rows[p].up, b.rows[p].up, secs))
    <2>1. fell \in Nat /\ (b.rows[p].down - a.rows[p].down >= secs => fell > 0)
      BY <1>1, <1>2, <1>3
    <2>2. rose \in Nat /\ (b.rows[p].up - a.rows[p].up >= secs => rose > 0)
      BY <1>1, <1>2, <1>3
    <2>3. Traffic!Rate(a, b, p) = fell + rose
      BY DEF Traffic!Rate
    <2> HIDE DEF fell, rose
    <2> QED
      BY <2>1, <2>2, <2>3

LEMMA TrafficHolds == ASSUME TrafficKept PROVE Traffic!RatesAreHonest
  <1> SUFFICES ASSUME card.st = "ready" PROVE Traffic!RatesAreHonest
    BY DEF Traffic!RatesAreHonest
  <1> DEFINE a == card.from
             b == card.to
  <1>1. /\ Witnessed(a) /\ Witnessed(b) /\ b.at - a.at >= MinWindow
        /\ card.rows = Traffic!ByProgram(a, b) /\ a \in Taken /\ b \in Taken
        /\ handover \in [Pids -> 1..TrafficHorizon]
    BY DEF TrafficKept, Witnessed
  <1> HIDE DEF a, b
  <1> DEFINE both == DOMAIN a.rows \cap DOMAIN b.rows
             Of(g) == {p \in Traffic!Moved(a, b) : b.rows[p].program = g}
             Sum1(S) == Traffic!MapThenSumSet(LAMBDA p : Traffic!Rate(a, b, p), S)
             Row(g) == [program |-> g, pids |-> Of(g), rate |-> Sum1(Of(g))]
  <1>2. /\ both \subseteq Pids
        /\ \A p \in both : /\ a.at \in Nat /\ b.at \in Nat
                           /\ handover[p] \in Nat \ {0}
                           /\ a.rows[p].age \in Nat \cup {None} /\ b.rows[p].age \in Nat \cup {None}
    BY <1>1, TrafficFacts DEF Taken, Tables
  <1>3. \A p \in both : /\ a.rows[p].tenant = Since(p, a.at) /\ b.rows[p].tenant = Since(p, b.at)
                        /\ a.rows[p].age \in {None, a.at - Since(p, a.at)}
                        /\ b.rows[p].age \in {None, b.at - Since(p, b.at)}
                        /\ Since(p, a.at) \in Nat /\ Since(p, b.at) \in Nat
    <2>1. \A p \in both : Since(p, a.at) \in Nat /\ Since(p, b.at) \in Nat
      BY <1>2 DEF Since
    <2> QED
      BY <1>1, <2>1 DEF Witnessed
  <1>4. card.rows = {Row(g) : g \in {b.rows[p].program : p \in Traffic!Moved(a, b)}}
    BY <1>1 DEF Traffic!ByProgram
  <1>5. Traffic!Moved(a, b) \subseteq both
    BY DEF Traffic!Moved, Traffic!Priceable
  <1>6. ASSUME NEW p \in Traffic!Moved(a, b)
        PROVE  /\ a.rows[p].age # None /\ b.rows[p].age # None
               /\ a.rows[p].tenant = b.rows[p].tenant \/ a.rows[p].age <= AgeSlack
    <2>1. /\ a.rows[p].age # None /\ b.rows[p].age # None /\ p \in both
          /\ b.rows[p].age - (a.rows[p].age + (b.at - a.at)) \in -AgeSlack .. AgeSlack
      BY <1>5 DEF Traffic!Moved, Traffic!Priceable, Traffic!SameProcess
    <2> QED
      BY <1>1, <1>2, <1>3, <2>1, TrafficFacts DEF Since
  <1>7. ASSUME NEW p \in both, a.rows[p].age # None, b.rows[p].age # None,
               a.rows[p].tenant = b.rows[p].tenant,
               \/ b.rows[p].down - a.rows[p].down >= b.at - a.at
               \/ b.rows[p].up - a.rows[p].up >= b.at - a.at
        PROVE  \E row \in card.rows :
                   p \in row.pids /\ row.program = b.rows[p].program /\ row.rate > 0
    <2>1. Traffic!Rate(a, b, p) > 0
      BY <1>1, <1>7, RatesAreCounts
    <2>2. b.rows[p].age - (a.rows[p].age + (b.at - a.at)) = 0
      BY <1>2, <1>3, <1>7
    <2>3. 0 \in -AgeSlack .. AgeSlack
      BY TrafficFacts
    <2>4. p \in Traffic!Moved(a, b)
      BY <1>7, <2>1, <2>2, <2>3 DEF Traffic!Moved, Traffic!Priceable, Traffic!SameProcess
    <2> DEFINE G == b.rows[p].program
               f == [q \in Of(G) |-> Traffic!Rate(a, b, q)]
    <2>5. p \in Of(G) /\ Of(G) \subseteq both
      BY <2>4, <1>5
    <2>6. IsFiniteSet(Of(G))
      BY <2>5, <1>2, TrafficFacts, FS_Subset
    <2>7. \A q \in Of(G) : f[q] \in Nat
      BY <1>1, <2>5, RatesAreCounts
    <2>8. f[p] = Traffic!Rate(a, b, p)
      BY <2>5
    <2>9. Row(G) \in card.rows /\ Row(G).pids = Of(G) /\ Row(G).program = G
          /\ Row(G).rate = Sum1(Of(G))
      BY <1>4, <2>4
    <2>10. Sum1(Of(G)) = Total(f, Of(G))
      BY <2>6, RowSum
    <2> HIDE DEF f, Of, Sum1, Row
    <2>11. Total(f, Of(G)) = f[p] + Total(f, Of(G) \ {p})
      BY <2>5, <2>6, <2>7, TotalOf
    <2>12. Total(f, Of(G) \ {p}) \in Nat
      BY <2>6, <2>7, TotalPart
    <2>13. Row(G).rate > 0
      BY <2>1, <2>7, <2>5, <2>8, <2>9, <2>10, <2>11, <2>12
    <2> QED
      BY <2>5, <2>9, <2>13
  <1>8. \A row \in card.rows : row.pids \subseteq Traffic!Moved(a, b)
    <2>1. \A g : Row(g).pids = Of(g) /\ Of(g) \subseteq Traffic!Moved(a, b)
      OBVIOUS
    <2> HIDE DEF Row, Of
    <2> QED
      BY <1>4, <2>1
  <1> QED
    BY <1>6, <1>7, <1>8 DEF Traffic!RatesAreHonest, a, b

----------------------------------------------------------------------------
(* The burn (Spenders).                                                       *)

\* A finite set of numbers has a greatest and a least.
LEMMA Extremes ==
  ASSUME NEW S \in SUBSET Int, IsFiniteSet(S), S # {}
  PROVE  /\ Max(S) \in S /\ \A n \in S : n <= Max(S)
         /\ Min(S) \in S /\ \A n \in S : Min(S) <= n
  <1> DEFINE W == {T \in SUBSET S : T = {} \/ (/\ \E n \in T : \A m \in T : m <= n
                                               /\ \E n \in T : \A m \in T : n <= m)}
  <1>1. {} \in W
    OBVIOUS
  <1>2. ASSUME NEW T \in SUBSET S, NEW x \in S \ T, T \in W PROVE T \cup {x} \in W
    <2>1. CASE T = {}
      <3>1. T \cup {x} = {x} /\ x \in Int
        BY <2>1
      <3> QED
        BY <3>1
    <2>2. CASE T # {}
      <3>1. PICK a \in T, b \in T : \A m \in T : m <= a /\ b <= m
        BY <1>2, <2>2
      <3>2. a \in Int /\ b \in Int /\ x \in Int /\ \A m \in T : m \in Int
        OBVIOUS
      <3>3. \E n \in T \cup {x} : \A m \in T \cup {x} : m <= n
        <4>1. CASE x <= a
          BY <3>1, <3>2, <4>1
        <4>2. CASE a <= x
          BY <3>1, <3>2, <4>2
        <4> QED
          BY <3>2, <4>1, <4>2
      <3>4. \E n \in T \cup {x} : \A m \in T \cup {x} : n <= m
        <4>1. CASE b <= x
          BY <3>1, <3>2, <4>1
        <4>2. CASE x <= b
          BY <3>1, <3>2, <4>2
        <4> QED
          BY <3>2, <4>1, <4>2
      <3> QED
        BY <3>3, <3>4
    <2> QED
      BY <2>1, <2>2
  <1> HIDE DEF W
  <1>3. S \in W
    BY <1>1, <1>2, FillingUp
  <1>4. (\E n \in S : \A m \in S : m <= n) /\ (\E n \in S : \A m \in S : n <= m)
    BY <1>3 DEF W
  <1>5. \E n \in S : \A m \in S : n >= m
    BY <1>4
  <1>6. Max(S) \in S /\ \A n \in S : Max(S) >= n
    BY <1>5 DEF Max
  <1>7. Min(S) \in S /\ \A n \in S : Min(S) =< n
    BY <1>4 DEF Min
  <1> QED
    BY <1>6, <1>7

LEMMA ExtremesAre ==
  ASSUME NEW S \in SUBSET Int, NEW x \in S
  PROVE  /\ (\A y \in S : y <= x) => Max(S) = x
         /\ (\A y \in S : x <= y) => Min(S) = x
  <1>1. ASSUME \A y \in S : y <= x PROVE Max(S) = x
    <2> DEFINE top == Max(S)
    <2>1. top \in S /\ \A y \in S : top >= y
      BY <1>1 DEF Max
    <2> HIDE DEF top
    <2>2. top = x
      BY <1>1, <2>1
    <2> QED
      BY <2>2 DEF top
  <1>2. ASSUME \A y \in S : x <= y PROVE Min(S) = x
    <2> DEFINE low == Min(S)
    <2>1. low \in S /\ \A y \in S : low =< y
      BY <1>2 DEF Min
    <2> HIDE DEF low
    <2>2. low = x
      BY <1>2, <2>1
    <2> QED
      BY <2>2 DEF low
  <1> QED
    BY <1>1, <1>2

LEMMA ImageIsFinite ==
  ASSUME NEW S, IsFiniteSet(S), NEW f
  PROVE  IsFiniteSet({f[x] : x \in S})
  <1> DEFINE W == {T \in SUBSET S : IsFiniteSet({f[x] : x \in T})}
  <1>1. {} \in W
    <2>1. {f[x] : x \in {}} = {}
      OBVIOUS
    <2> QED
      BY <2>1, FS_EmptySet
  <1>2. ASSUME NEW T \in SUBSET S, NEW x \in S \ T, T \in W PROVE T \cup {x} \in W
    <2>1. {f[y] : y \in T \cup {x}} = {f[y] : y \in T} \cup {f[x]}
      OBVIOUS
    <2>2. IsFiniteSet({f[y] : y \in T} \cup {f[x]})
      BY <1>2, FS_AddElement
    <2> QED
      BY <2>1, <2>2
  <1> HIDE DEF W
  <1>3. S \in W
    BY <1>1, <1>2, FillingUp
  <1> QED
    BY <1>3 DEF W

\* Lines in the order of their minutes, what each says was burnt by then and by which
\* process: a later process is a later number, and its count only rises.
Ordered(T, c, v) ==
    \A m, n \in T : m < n => v[m] <= v[n] /\ (v[m] = v[n] => c[m] <= c[n])

LivesIn(T, v) == {v[m] : m \in T}
OfLife(T, v, l) == {m \in T : v[m] = l}
LastOf(T, v, l) == Max(OfLife(T, v, l))
FirstOf(T, v, l) == Min(OfLife(T, v, l))
OwnIn(T, c, v) == [l \in LivesIn(T, v) |-> c[LastOf(T, v, l)] - c[FirstOf(T, v, l)]]
MostIn(T, c, v) ==
    [l \in LivesIn(T, v) |->
        c[LastOf(T, v, l)] - (IF l = v[Min(T)] THEN c[FirstOf(T, v, l)] ELSE 0)]

\* What a last line changes.
Grown(S, T, x, v) ==
    /\ Min(T) = Min(S) /\ Min(S) \in S
    /\ LivesIn(T, v) = LivesIn(S, v) \cup {v[x]}
    /\ LastOf(T, v, v[x]) = x
    /\ \A l \in LivesIn(S, v) : FirstOf(T, v, l) = FirstOf(S, v, l) /\ FirstOf(S, v, l) \in S
                                     /\ LastOf(S, v, l) \in S
    /\ \A l \in LivesIn(S, v) \ {v[x]} : LastOf(T, v, l) = LastOf(S, v, l)
    /\ v[x] \in LivesIn(S, v) => LastOf(S, v, v[x]) = Max(S) /\ v[Max(S)] = v[x]
    /\ v[x] \notin LivesIn(S, v) => FirstOf(T, v, v[x]) = x

LEMMA LivesGrow ==
  ASSUME NEW S \in SUBSET Nat, IsFiniteSet(S), S # {}, NEW x \in Nat, \A m \in S : m < x,
         NEW T, T = S \cup {x},
         NEW c, NEW v, \A m \in T : c[m] \in Nat /\ v[m] \in Nat, Ordered(T, c, v)
  PROVE  Grown(S, T, x, v)
  <1>1. /\ Min(S) \in S /\ \A n \in S : Min(S) <= n
        /\ Max(S) \in S /\ \A n \in S : n <= Max(S)
    BY Extremes
  <1>0. /\ \A m \in S : m \in Nat /\ m \in T /\ m <= x
        /\ x \in T /\ \A m \in T : m \in S \/ m = x
    OBVIOUS
  <1>2. T \in SUBSET Int /\ Min(S) \in T /\ \A n \in T : Min(S) <= n
    <2>1. T \in SUBSET Int
      BY <1>0
    <2>2. Min(S) \in T
      BY <1>0, <1>1
    <2>3. \A n \in T : Min(S) <= n
      BY <1>0, <1>1
    <2> QED
      BY <2>1, <2>2, <2>3
  <1>3. Min(T) = Min(S)
    BY <1>2, ExtremesAre
  <1>4. LivesIn(T, v) = LivesIn(S, v) \cup {v[x]}
    BY DEF LivesIn
  <1>5. LastOf(T, v, v[x]) = x
    <2>1. OfLife(T, v, v[x]) \in SUBSET Int
      BY <1>2 DEF OfLife
    <2>2. x \in OfLife(T, v, v[x])
      BY <1>0 DEF OfLife
    <2>3. \A m \in OfLife(T, v, v[x]) : m <= x
      BY <1>0 DEF OfLife
    <2> QED
      BY <2>1, <2>2, <2>3, ExtremesAre DEF LastOf
  <1>6. ASSUME NEW l \in LivesIn(S, v)
        PROVE  /\ OfLife(S, v, l) \in SUBSET Int /\ IsFiniteSet(OfLife(S, v, l))
               /\ OfLife(S, v, l) # {} /\ OfLife(S, v, l) \subseteq S
    <2>1. OfLife(S, v, l) \subseteq S /\ OfLife(S, v, l) # {}
      BY DEF LivesIn, OfLife
    <2>2. OfLife(S, v, l) \in SUBSET Int
      <3>1. S \subseteq Int
        OBVIOUS
      <3> QED
        BY <2>1, <3>1
    <2> QED
      BY <2>1, <2>2, FS_Subset
  <1>7. ASSUME NEW l \in LivesIn(S, v)
        PROVE  /\ FirstOf(T, v, l) = FirstOf(S, v, l)
               /\ FirstOf(S, v, l) \in S /\ LastOf(S, v, l) \in S
    <2>1. /\ FirstOf(S, v, l) \in OfLife(S, v, l) /\ LastOf(S, v, l) \in OfLife(S, v, l)
          /\ \A n \in OfLife(S, v, l) : FirstOf(S, v, l) <= n
      BY <1>6, Extremes DEF FirstOf, LastOf
    <2>2. FirstOf(S, v, l) \in OfLife(T, v, l) /\ FirstOf(S, v, l) \in Nat
      BY <1>0, <1>6, <2>1 DEF OfLife
    <2>3. OfLife(T, v, l) \in SUBSET Int
      BY <1>2 DEF OfLife
    <2>4. \A n \in OfLife(T, v, l) : FirstOf(S, v, l) <= n
      <3> SUFFICES ASSUME NEW n \in OfLife(T, v, l) PROVE FirstOf(S, v, l) <= n
        OBVIOUS
      <3>1. n = x \/ n \in OfLife(S, v, l)
        BY <1>0 DEF OfLife
      <3>2. FirstOf(S, v, l) <= x
        BY <1>0, <1>6, <2>1
      <3> QED
        BY <2>1, <3>1, <3>2
    <2>5. Min(OfLife(T, v, l)) = FirstOf(S, v, l)
      BY <2>2, <2>3, <2>4, ExtremesAre
    <2> QED
      BY <1>6, <2>1, <2>5 DEF FirstOf
  <1>8. ASSUME NEW l \in LivesIn(S, v) \ {v[x]} PROVE LastOf(T, v, l) = LastOf(S, v, l)
    <2>1. OfLife(T, v, l) = OfLife(S, v, l)
      BY DEF OfLife
    <2> QED
      BY <2>1 DEF LastOf
  <1>9. ASSUME v[x] \in LivesIn(S, v) PROVE LastOf(S, v, v[x]) = Max(S) /\ v[Max(S)] = v[x]
    <2>1. PICK m \in S : v[m] = v[x]
      BY <1>9 DEF LivesIn
    <2>2. m <= Max(S) /\ Max(S) < x /\ Max(S) \in S
      BY <1>1
    <2>3. v[m] <= v[Max(S)] /\ v[Max(S)] <= v[x]
      <3>1. m \in Nat /\ Max(S) \in Nat /\ Max(S) \in T /\ m \in T /\ x \in T
        BY <1>0, <2>2
      <3>2. v[Max(S)] <= v[x]
        BY <2>2, <3>1 DEF Ordered
      <3>3. m = Max(S) \/ m < Max(S)
        BY <2>2, <3>1
      <3>4. v[m] <= v[Max(S)]
        <4>1. v[Max(S)] <= v[Max(S)]
          BY <3>1
        <4> QED
          BY <3>1, <3>3, <4>1 DEF Ordered
      <3> QED
        BY <3>2, <3>4
    <2>4. v[Max(S)] = v[x]
      <3>1. v[m] \in Nat /\ v[Max(S)] \in Nat /\ v[x] \in Nat
        BY <1>0, <2>2
      <3> QED
        BY <2>1, <2>3, <3>1
    <2>5. OfLife(S, v, v[x]) \in SUBSET Int
      BY <1>6, <1>9
    <2>6. Max(S) \in OfLife(S, v, v[x]) /\ \A n \in OfLife(S, v, v[x]) : n <= Max(S)
      BY <1>1, <2>4 DEF OfLife
    <2> QED
      BY <2>4, <2>5, <2>6, ExtremesAre DEF LastOf
  <1>10. ASSUME v[x] \notin LivesIn(S, v) PROVE FirstOf(T, v, v[x]) = x
    <2>1. OfLife(T, v, v[x]) = {x}
      BY <1>10 DEF LivesIn, OfLife
    <2>2. {x} \in SUBSET Int /\ \A n \in {x} : x <= n
      OBVIOUS
    <2> QED
      BY <2>1, <2>2, ExtremesAre DEF FirstOf
  <1> QED
    BY <1>1, <1>3, <1>4, <1>5, <1>7, <1>8, <1>9, <1>10 DEF Grown

\* What the steps between the lines come to: no less than each process burnt between
\* its first and its last, no more than that and what each later one came with.
StepsAre(T, c, step) ==
    \A m \in T : \A b \in T :
        b < m /\ (\A n \in T : n < m => n <= b) =>
            step[m] = IF c[m] - c[b] > 0 THEN c[m] - c[b] ELSE 0

Bounded(T, c, v, step) ==
    T # {} => /\ Total(OwnIn(T, c, v), LivesIn(T, v)) <= Total(step, T \ {Min(T)})
              /\ Total(step, T \ {Min(T)}) <= Total(MostIn(T, c, v), LivesIn(T, v))

LEMMA OneMoreLine ==
  ASSUME NEW S \in SUBSET Nat, IsFiniteSet(S), S # {}, NEW x \in Nat, \A m \in S : m < x,
         NEW T, T = S \cup {x},
         NEW c, NEW v, \A m \in T : c[m] \in Nat /\ v[m] \in Nat, Ordered(T, c, v),
         NEW step, StepsAre(T, c, step), \A m \in T \ {Min(T)} : step[m] \in Int,
         Bounded(S, c, v, step)
  PROVE  Bounded(T, c, v, step)
  <1> DEFINE L == LivesIn(S, v)
             K == LivesIn(T, v)
             own == OwnIn(S, c, v)
             own2 == OwnIn(T, c, v)
             most == MostIn(S, c, v)
             most2 == MostIn(T, c, v)
             a == v[x]
             rest == S \ {Min(S)}
  <1>0. /\ \A m \in S : m \in Nat /\ m \in T /\ m < x
        /\ x \in T /\ x \notin S /\ \A m \in T : m \in S \/ m = x
    OBVIOUS
  <1>1. /\ Min(T) = Min(S) /\ Min(S) \in S
        /\ K = L \cup {a} /\ LastOf(T, v, a) = x
        /\ \A l \in L : /\ FirstOf(T, v, l) = FirstOf(S, v, l) /\ FirstOf(S, v, l) \in S
                        /\ LastOf(S, v, l) \in S
        /\ \A l \in L \ {a} : LastOf(T, v, l) = LastOf(S, v, l)
        /\ a \in L => LastOf(S, v, a) = Max(S) /\ v[Max(S)] = a
        /\ a \notin L => FirstOf(T, v, a) = x
    <2>1. Grown(S, T, x, v)
      BY LivesGrow
    <2> QED
      BY <2>1 DEF Grown
  <1>2. /\ Max(S) \in S /\ \A n \in S : n <= Max(S)
    BY Extremes
  <1>3. step[x] = (IF c[x] - c[Max(S)] > 0 THEN c[x] - c[Max(S)] ELSE 0) /\ step[x] \in Int
        /\ c[x] \in Nat /\ c[Max(S)] \in Nat
    <2>1. x \in T /\ Max(S) \in T /\ Max(S) < x /\ \A n \in T : n < x => n <= Max(S)
      <3>1. x \in T /\ Max(S) \in T /\ Max(S) < x
        BY <1>0, <1>2
      <3>2. \A n \in T : n < x => n <= Max(S)
        BY <1>0, <1>2
      <3> QED
        BY <3>1, <3>2
    <2>2. step[x] = (IF c[x] - c[Max(S)] > 0 THEN c[x] - c[Max(S)] ELSE 0)
      BY <2>1 DEF StepsAre
    <2>3. c[x] \in Nat /\ c[Max(S)] \in Nat
      BY <2>1
    <2> QED
      BY <2>2, <2>3
  <1>4. IsFiniteSet(rest) /\ x \notin rest /\ T \ {Min(T)} = rest \cup {x}
    <2>1. x \notin S /\ x # Min(S)
      BY <1>0, <1>1
    <2>2. IsFiniteSet(rest)
      BY FS_Subset
    <2> QED
      BY <1>1, <2>1, <2>2
  <1>5. Total(step, T \ {Min(T)}) = step[x] + Total(step, rest) /\ Total(step, rest) \in Int
    <2>1. \A y \in rest \cup {x} : step[y] \in Int
      BY <1>4
    <2> HIDE DEF rest
    <2>2. Total(step, rest \cup {x}) = step[x] + Total(step, rest) /\ Total(step, rest) \in Int
      BY <1>4, <2>1, TotalGrows, TotalOf
    <2> QED
      BY <1>4, <2>2
  <1>6. IsFiniteSet(L) /\ IsFiniteSet(L \ {a})
    <2>1. IsFiniteSet(L)
      BY ImageIsFinite DEF LivesIn
    <2> QED
      BY <2>1, FS_Subset
  <1>7. \A l \in L \ {a} : own2[l] = own[l] /\ most2[l] = most[l]
    BY <1>1 DEF OwnIn, MostIn
  <1>8. \A l \in L : own[l] \in Int /\ most[l] \in Int
    <2> SUFFICES ASSUME NEW l \in L PROVE own[l] \in Int /\ most[l] \in Int
      OBVIOUS
    <2>1. c[LastOf(S, v, l)] \in Nat /\ c[FirstOf(S, v, l)] \in Nat
      BY <1>0, <1>1
    <2> QED
      BY <2>1 DEF OwnIn, MostIn
  <1>9. Total(own2, L \ {a}) = Total(own, L \ {a}) /\ Total(most2, L \ {a}) = Total(most, L \ {a})
    <2> HIDE DEF own, own2, most, most2, L
    <2> QED
      BY <1>6, <1>7, TotalSame
  <1>10. Total(own, L \ {a}) \in Int /\ Total(most, L \ {a}) \in Int
    <2> HIDE DEF own, own2, most, most2, L
    <2> QED
      BY <1>6, <1>8, TotalOf
  <1>11. Total(own, L) <= Total(step, rest) /\ Total(step, rest) <= Total(most, L)
    BY DEF Bounded
  <1>12. CASE a \in L
    <2>1. K = L /\ own2[a] = own[a] + (c[x] - c[Max(S)]) /\ most2[a] = most[a] + (c[x] - c[Max(S)])
      <3>1. K = L
        BY <1>1, <1>12
      <3>2. /\ own2[a] = c[x] - c[FirstOf(S, v, a)] /\ own[a] = c[Max(S)] - c[FirstOf(S, v, a)]
            /\ c[FirstOf(S, v, a)] \in Nat
        BY <1>1, <1>12, <3>1 DEF OwnIn
      <3>3. /\ most2[a] = c[x] - (IF a = v[Min(S)] THEN c[FirstOf(S, v, a)] ELSE 0)
            /\ most[a] = c[Max(S)] - (IF a = v[Min(S)] THEN c[FirstOf(S, v, a)] ELSE 0)
        BY <1>1, <1>12, <3>1 DEF MostIn
      <3> HIDE DEF own, own2, most, most2, L, K, a
      <3> QED
        BY <1>3, <3>1, <3>2, <3>3
    <2>2. step[x] = c[x] - c[Max(S)]
      <3>1. c[Max(S)] <= c[x]
        <4>1. Max(S) < x /\ Max(S) \in T /\ x \in T /\ v[Max(S)] = v[x]
          BY <1>1, <1>2, <1>12
        <4> QED
          BY <4>1 DEF Ordered
      <3> QED
        BY <1>3, <3>1
    <2>3. \A l \in L : own2[l] \in Int /\ most2[l] \in Int
      <3> HIDE DEF own, own2, most, most2, L, a
      <3> QED
        BY <1>3, <1>7, <1>8, <2>1
    <2>4. /\ Total(own, L) = own[a] + Total(own, L \ {a})
          /\ Total(own2, L) = own2[a] + Total(own2, L \ {a})
          /\ Total(most, L) = most[a] + Total(most, L \ {a})
          /\ Total(most2, L) = most2[a] + Total(most2, L \ {a})
      <3> HIDE DEF own, own2, most, most2, L, a
      <3> QED
        BY <1>6, <1>8, <1>12, <2>3, TotalOf
    <2> HIDE DEF own, own2, most, most2, L, K, a, rest
    <2>5. own[a] \in Int /\ most[a] \in Int
      BY <1>8, <1>12
    <2>6. /\ Total(own2, K) <= Total(step, T \ {Min(T)})
          /\ Total(step, T \ {Min(T)}) <= Total(most2, K)
      BY <1>3, <1>5, <1>9, <1>10, <1>11, <2>1, <2>2, <2>4, <2>5
    <2> QED
      BY <2>6 DEF Bounded, K, own2, most2
  <1>13. CASE a \notin L
    <2>1. own2[a] = 0 /\ most2[a] = c[x] /\ L \ {a} = L
      <3>1. a # v[Min(S)] /\ a \in K
        BY <1>1, <1>13 DEF LivesIn
      <3>2. own2[a] = c[x] - c[x] /\ most2[a] = c[x] - 0
        BY <1>1, <1>13, <3>1 DEF OwnIn, MostIn
      <3>3. L \ {a} = L
        BY <1>13
      <3> HIDE DEF own2, most2, L, a
      <3> QED
        BY <1>3, <3>2, <3>3
    <2>2. \A l \in L \cup {a} : own2[l] \in Int /\ most2[l] \in Int
      <3> HIDE DEF own, own2, most, most2, L, a
      <3> QED
        BY <1>3, <1>7, <1>8, <2>1
    <2>3. /\ Total(own2, L \cup {a}) = own2[a] + Total(own2, L)
          /\ Total(most2, L \cup {a}) = most2[a] + Total(most2, L)
      <3> HIDE DEF own, own2, most, most2, L, a
      <3> QED
        BY <1>6, <1>13, <2>2, TotalGrows
    <2> HIDE DEF own, own2, most, most2, L, K, a, rest
    <2>4. Total(own2, K) = Total(own, L) /\ Total(most2, K) = c[x] + Total(most, L)
      <3>1. Total(own2, L) = Total(own, L) /\ Total(most2, L) = Total(most, L)
            /\ Total(own, L) \in Int
        BY <1>9, <1>10, <2>1
      <3>2. Total(own2, K) = 0 + Total(own2, L) /\ Total(most2, K) = c[x] + Total(most2, L)
        BY <1>1, <2>1, <2>3
      <3> QED
        BY <3>1, <3>2
    <2>5. Total(own, L) \in Int /\ Total(most, L) \in Int
      BY <1>10, <2>1
    <2>6. 0 <= step[x] /\ step[x] <= c[x]
      BY <1>3
    <2>7. /\ Total(own2, K) <= Total(step, T \ {Min(T)})
          /\ Total(step, T \ {Min(T)}) <= Total(most2, K)
      BY <1>3, <1>5, <1>11, <2>4, <2>5, <2>6
    <2> QED
      BY <2>7 DEF Bounded, K, own2, most2
  <1> QED
    BY <1>12, <1>13
LEMMA AllLines ==
  ASSUME NEW M \in SUBSET Nat, IsFiniteSet(M),
         NEW c, NEW v, \A m \in M : c[m] \in Nat /\ v[m] \in Nat, Ordered(M, c, v),
         NEW step, StepsAre(M, c, step), \A m \in M : step[m] \in Int
  PROVE  Bounded(M, c, v, step)
  <1> DEFINE Early(T) == \A m \in M, n \in T : m < n => m \in T
             Out == {T \in SUBSET M : Early(T) /\ ~Bounded(T, c, v, step)}
  <1> SUFFICES ASSUME ~Bounded(M, c, v, step) PROVE FALSE
    OBVIOUS
  <1>1. PICK T \in Out : \A x \in T : T \ {x} \notin Out
    <2>1. Out \subseteq SUBSET M /\ M \in Out
      OBVIOUS
    <2> HIDE DEF Out
    <2> QED
      BY <2>1, Smallest
  <1>2. T \in SUBSET M /\ Early(T) /\ ~Bounded(T, c, v, step) /\ T # {}
    BY DEF Bounded
  <1> HIDE DEF Early
  <1>3. T \in SUBSET Nat /\ IsFiniteSet(T)
    BY <1>2, FS_Subset
  <1> DEFINE x == Max(T)
             S == T \ {x}
  <1>4. x \in T /\ \A n \in T : n <= x
    <2>1. T \in SUBSET Int
      BY <1>3
    <2> QED
      BY <1>2, <1>3, <2>1, Extremes
  <1> HIDE DEF x
  <1>5. S \in SUBSET Nat /\ IsFiniteSet(S) /\ S \in SUBSET M /\ x \in Nat /\ T = S \cup {x}
    BY <1>2, <1>3, <1>4, FS_Subset
  <1>6. \A m \in S : m < x
    <2> SUFFICES ASSUME NEW m \in S PROVE m < x
      OBVIOUS
    <2>1. m <= x /\ m # x /\ m \in Nat /\ x \in Nat
      BY <1>4, <1>5
    <2> QED
      BY <2>1
  <1>7. Early(S)
    <2> SUFFICES ASSUME NEW m \in M, NEW n \in S, m < n PROVE m \in S
      BY DEF Early
    <2>1. m \in T
      BY <1>2 DEF Early
    <2>2. m # x
      <3>1. n < x /\ n \in Nat /\ m \in Nat /\ x \in Nat
        BY <1>5, <1>6
      <3> QED
        BY <3>1
    <2> QED
      BY <2>1, <2>2
  <1>8. Bounded(S, c, v, step)
    BY <1>1, <1>4, <1>5, <1>7
  <1>9. \A m \in T : c[m] \in Nat /\ v[m] \in Nat /\ step[m] \in Int
    BY <1>2
  <1>10. CASE S = {}
    <2>1. T = {x} /\ Min(T) = x
      <3>1. T = {x}
        BY <1>5, <1>10
      <3>2. x \in Int /\ {x} \in SUBSET Int
        BY <1>5
      <3>3. \A y \in {x} : x <= y
        BY <3>2
      <3> QED
        BY <3>1, <3>2, <3>3, ExtremesAre
    <2> DEFINE a == v[x]
               own == OwnIn(T, c, v)
               most == MostIn(T, c, v)
    <2>2. LivesIn(T, v) = {a} /\ OfLife(T, v, a) = T
      BY <2>1 DEF LivesIn, OfLife
    <2>3. LastOf(T, v, a) = x /\ FirstOf(T, v, a) = x
      BY <2>1, <2>2 DEF LastOf, FirstOf, x
    <2>4. own[a] = c[x] - c[x] /\ most[a] = c[x] - c[x] /\ c[x] \in Nat
      BY <1>4, <1>9, <2>1, <2>2, <2>3 DEF OwnIn, MostIn
    <2>5. own[a] = 0 /\ most[a] = 0
      <3> HIDE DEF own, most, a
      <3> QED
        BY <2>4
    <2>6. Total(own, {a}) = 0 /\ Total(most, {a}) = 0
      <3> HIDE DEF own, most, a
      <3>1. IsFiniteSet({a}) /\ a \in {a} /\ {a} \ {a} = {}
        BY FS_Singleton
      <3>2. Total(own, {a}) = own[a] + Total(own, {}) /\ Total(most, {a}) = most[a] + Total(most, {})
        BY <2>5, <3>1, TotalOf
      <3> QED
        BY <2>5, <3>2, TotalNone
    <2>7. T \ {Min(T)} = {}
      BY <2>1
    <2>8. Total(step, T \ {Min(T)}) = 0
      BY <2>7, TotalNone
    <2>9. Bounded(T, c, v, step)
      BY <2>2, <2>6, <2>8 DEF Bounded
    <2> QED
      BY <1>2, <2>9
  <1>11. CASE S # {}
    <2>1. Ordered(T, c, v)
      BY <1>2 DEF Ordered
    <2>2. StepsAre(T, c, step)
      <3> SUFFICES ASSUME NEW m \in T, NEW b \in T, b < m, \A n \in T : n < m => n <= b
                   PROVE  step[m] = IF c[m] - c[b] > 0 THEN c[m] - c[b] ELSE 0
        BY DEF StepsAre
      <3>1. \A n \in M : n < m => n <= b
        BY <1>2 DEF Early
      <3> QED
        BY <1>2, <3>1 DEF StepsAre
    <2> HIDE DEF S
    <2>3. Bounded(T, c, v, step)
      BY <1>5, <1>6, <1>8, <1>9, <1>11, <2>1, <2>2, OneMoreLine
    <2> QED
      BY <1>2, <2>3
  <1> QED
    BY <1>10, <1>11

\* The file of a day whose processes only burn.
LinesKept ==
    /\ life \in [Keys -> 0..MaxLives] /\ spent \in [Keys -> Nat]
    /\ lines \in Seq(UNION {[S -> [cpu : Nat, rate : Nat, life : 0..MaxLives]] : S \in SUBSET Keys})
    /\ \A k \in Keys : \A m, n \in Spenders!Minutes(k) :
          m < n => /\ lines[m][k].life <= lines[n][k].life
                   /\ lines[m][k].life = lines[n][k].life => lines[m][k].cpu <= lines[n][k].cpu
    /\ \A k \in Keys : \A m \in Spenders!Minutes(k) :
          /\ lines[m][k].life <= life[k]
          /\ lines[m][k].life = life[k] => lines[m][k].cpu <= spent[k]

LEMMA SpenderFacts == MaxLives \in Nat
  BY FiguresAssumption

LEMMA LinesBegin == Spenders!Init => LinesKept
  <1> SUFFICES ASSUME Spenders!Init PROVE LinesKept
    OBVIOUS
  <1>1. lines = <<>> /\ \A k : Spenders!Minutes(k) = {}
    BY DEF Spenders!Init, Spenders!Minutes
  <1> QED
    BY <1>1, SpenderFacts DEF Spenders!Init, LinesKept

LEMMA MinuteKeeps ==
  ASSUME LinesKept, NEW burn \in [Keys -> 0..SpenderBurn], NEW qualify \in SUBSET Keys,
         Spenders!Minute(burn, qualify)
  PROVE  LinesKept'
  <1> DEFINE Rec == [cpu : Nat, rate : Nat, life : 0..MaxLives]
             All == UNION {[S -> Rec] : S \in SUBSET Keys}
             line == [k \in qualify |-> [cpu |-> spent'[k], rate |-> burn[k], life |-> life[k]]]
             n == Len(lines) + 1
  <1>1. /\ life \in [Keys -> 0..MaxLives] /\ spent \in [Keys -> Nat] /\ lines \in Seq(All)
        /\ life' = life /\ spent' = [k \in Keys |-> spent[k] + burn[k]]
        /\ lines' = Append(lines, line)
    BY DEF LinesKept, Spenders!Minute
  <1>2. \A k \in Keys : burn[k] \in Nat /\ spent'[k] = spent[k] + burn[k] /\ spent[k] \in Nat
    BY <1>1
  <1>3. spent' \in [Keys -> Nat]
    BY <1>1, <1>2
  <1>4. line \in All
    <2>1. \A k \in qualify : [cpu |-> spent'[k], rate |-> burn[k], life |-> life[k]] \in Rec
      BY <1>1, <1>2, <1>3
    <2> HIDE DEF Rec
    <2> QED
      BY <2>1
  <1> HIDE DEF line, All
  <1>5. lines' \in Seq(All) /\ Len(lines') = n /\ lines'[n] = line /\ Len(lines) \in Nat
        /\ \A m \in 1..Len(lines) : lines'[m] = lines[m]
    BY <1>1, <1>4
  <1>6. DOMAIN line = qualify /\ \A k \in qualify : line[k].cpu = spent'[k] /\ line[k].life = life[k]
    BY DEF line
  <1>7. ASSUME NEW k \in Keys, NEW m \in Spenders!Minutes(k)'
        PROVE  \/ m \in Spenders!Minutes(k) /\ lines'[m] = lines[m] /\ m < n
               \/ m = n /\ k \in qualify
    BY <1>1, <1>5, <1>6 DEF Spenders!Minutes
  <1>8. \A k \in Keys : \A m \in Spenders!Minutes(k)' :
           /\ m \in Nat /\ lines'[m][k].life \in 0..MaxLives /\ lines'[m][k].cpu \in Nat
           /\ lines'[m][k].life <= life'[k]
           /\ lines'[m][k].life = life'[k] => lines'[m][k].cpu <= spent'[k]
    <2> SUFFICES ASSUME NEW k \in Keys, NEW m \in Spenders!Minutes(k)'
                 PROVE  /\ m \in Nat /\ lines'[m][k].life \in 0..MaxLives /\ lines'[m][k].cpu \in Nat
                        /\ lines'[m][k].life <= life'[k]
                        /\ lines'[m][k].life = life'[k] => lines'[m][k].cpu <= spent'[k]
      OBVIOUS
    <2>1. CASE m = n /\ k \in qualify
      <3>1. lines'[m][k].life = life[k] /\ lines'[m][k].cpu = spent'[k]
        BY <2>1, <1>5, <1>6
      <3>2. life[k] \in 0..MaxLives /\ spent'[k] \in Nat /\ n \in Nat
        BY <1>1, <1>3, <1>5
      <3> QED
        BY <2>1, <3>1, <3>2, <1>1
    <2>2. CASE m \in Spenders!Minutes(k) /\ lines'[m] = lines[m]
      <3>1. m \in 1..Len(lines) /\ k \in DOMAIN lines[m] /\ lines[m] \in All
        BY <1>1, <2>2 DEF Spenders!Minutes
      <3>2. lines[m][k] \in Rec
        BY <3>1 DEF All
      <3>3. /\ lines[m][k].life <= life[k]
            /\ lines[m][k].life = life[k] => lines[m][k].cpu <= spent[k]
        BY <2>2 DEF LinesKept
      <3>4. lines[m][k].life \in 0..MaxLives /\ lines[m][k].cpu \in Nat
        BY <3>2
      <3>5. spent[k] <= spent'[k] /\ spent[k] \in Nat /\ spent'[k] \in Nat
        BY <1>2, <1>3
      <3> HIDE DEF Rec
      <3> QED
        BY <1>1, <1>5, <2>2, <3>1, <3>3, <3>4, <3>5
    <2> QED
      BY <1>7, <2>1, <2>2
  <1>9. \A k \in Keys : \A m, o \in Spenders!Minutes(k)' :
           m < o => /\ lines'[m][k].life <= lines'[o][k].life
                    /\ lines'[m][k].life = lines'[o][k].life => lines'[m][k].cpu <= lines'[o][k].cpu
    <2> SUFFICES ASSUME NEW k \in Keys, NEW m \in Spenders!Minutes(k)', NEW o \in Spenders!Minutes(k)',
                        m < o
                 PROVE  /\ lines'[m][k].life <= lines'[o][k].life
                        /\ lines'[m][k].life = lines'[o][k].life => lines'[m][k].cpu <= lines'[o][k].cpu
      OBVIOUS
    <2>1. CASE o = n /\ k \in qualify
      <3>1. lines'[o][k].life = life[k] /\ lines'[o][k].cpu = spent'[k] /\ life' = life
        BY <2>1, <1>1, <1>5, <1>6
      <3> QED
        BY <1>8, <3>1
    <2>2. CASE o \in Spenders!Minutes(k) /\ lines'[o] = lines[o] /\ o < n
      <3>1. m \in Spenders!Minutes(k) /\ lines'[m] = lines[m]
        <4>1. m # n
          <5>1. m \in Nat /\ o \in Nat /\ n \in Nat
            BY <1>5, <1>8
          <5> QED
            BY <2>2, <5>1
        <4> QED
          BY <1>7, <4>1
      <3> QED
        BY <2>2, <3>1 DEF LinesKept
    <2> QED
      BY <1>7, <2>1, <2>2
  <1> QED
    BY <1>1, <1>3, <1>5, <1>8, <1>9 DEF LinesKept, All

LEMMA ReuseKeeps ==
  ASSUME LinesKept, NEW k \in Keys, Spenders!Reuse(k)
  PROVE  LinesKept'
  <1>1. /\ life \in [Keys -> 0..MaxLives] /\ spent \in [Keys -> Nat]
        /\ life[k] < MaxLives /\ life' = [life EXCEPT ![k] = @ + 1]
        /\ spent' = [spent EXCEPT ![k] = 0] /\ lines' = lines
    BY DEF LinesKept, Spenders!Reuse
  <1>2. life' \in [Keys -> 0..MaxLives] /\ spent' \in [Keys -> Nat]
    <2>1. life[k] + 1 \in 0..MaxLives
      BY <1>1, SpenderFacts
    <2> QED
      BY <1>1, <2>1
  <1>3. \A j : Spenders!Minutes(j)' = Spenders!Minutes(j)
    BY <1>1 DEF Spenders!Minutes
  <1>4. \A j \in Keys : \A m \in Spenders!Minutes(j) : lines[m][j].life \in 0..MaxLives
    <2> SUFFICES ASSUME NEW j \in Keys, NEW m \in Spenders!Minutes(j)
                 PROVE  lines[m][j].life \in 0..MaxLives
      OBVIOUS
    <2> DEFINE Rec == [cpu : Nat, rate : Nat, life : 0..MaxLives]
               Tabs == UNION {[S -> Rec] : S \in SUBSET Keys}
    <2>1. lines \in Seq(Tabs)
      BY DEF LinesKept
    <2> HIDE DEF Tabs
    <2>2. lines[m] \in Tabs /\ j \in DOMAIN lines[m]
      BY <2>1 DEF Spenders!Minutes
    <2>3. lines[m][j] \in Rec
      BY <2>2 DEF Tabs
    <2> QED
      BY <2>3
  <1>5. \A j \in Keys : \A m \in Spenders!Minutes(j) :
           /\ lines[m][j].life <= life'[j]
           /\ lines[m][j].life = life'[j] => lines[m][j].cpu <= spent'[j]
    <2> SUFFICES ASSUME NEW j \in Keys, NEW m \in Spenders!Minutes(j)
                 PROVE  /\ lines[m][j].life <= life'[j]
                        /\ lines[m][j].life = life'[j] => lines[m][j].cpu <= spent'[j]
      OBVIOUS
    <2>1. lines[m][j].life <= life[j] /\ lines[m][j].life \in Int /\ life[j] \in Int
      BY <1>1, <1>4 DEF LinesKept
    <2>2. CASE j = k
      <3>1. life'[j] = life[j] + 1
        BY <1>1, <2>2
      <3> QED
        BY <2>1, <3>1
    <2>3. CASE j # k
      <3>1. life'[j] = life[j] /\ spent'[j] = spent[j]
        BY <1>1, <2>3
      <3> QED
        BY <2>1, <3>1 DEF LinesKept
    <2> QED
      BY <2>2, <2>3
  <1> QED
    BY <1>1, <1>2, <1>3, <1>5 DEF LinesKept

LEMMA SpendersNext ==
  ASSUME LinesKept, [Spenders!Next]_spenders
  PROVE  LinesKept'
  <1>1. CASE UNCHANGED spenders
    BY <1>1 DEF LinesKept, spenders, Spenders!Minutes
  <1> QED
    BY <1>1, MinuteKeeps, ReuseKeeps DEF Spenders!Next
\* The sums of a row are sums over functions.
LEMMA StepsSum ==
  ASSUME NEW k, NEW S, IsFiniteSet(S)
  PROVE  Spenders!MapThenSumSet(LAMBDA m : Spenders!Step(k, m), S)
             = Total([m \in S |-> Spenders!Step(k, m)], S)
  <1> DEFINE f == [m \in S |-> Spenders!Step(k, m)]
             Runs(it) == it = [s \in SUBSET S |-> IF s = {} THEN 0
                                  ELSE Spenders!Step(k, CHOOSE x \in s : TRUE)
                                           + it[s \ {CHOOSE x \in s : TRUE}]]
             sum == CHOOSE it : Runs(it)
  <1>1. Spenders!MapThenSumSet(LAMBDA m : Spenders!Step(k, m), S) = sum[S]
    BY DEF Spenders!MapThenSumSet, Spenders!MapThenFoldSet
  <1>2. \A s \in SUBSET S : s # {} => f[First(s)] = Spenders!Step(k, First(s))
    BY FirstIn
  <1>3. \A it : Runs(it) <=> Tally(it, f, S)
    <2> HIDE DEF f
    <2> QED
      BY <1>2 DEF Tally, First
  <1>4. Tally(sum, f, S)
    <2> HIDE DEF f, Runs
    <2>1. \E it : Runs(it)
      BY <1>3, TallyExists
    <2>2. Runs(sum)
      BY <2>1
    <2> QED
      BY <2>2, <1>3
  <1> HIDE DEF f, sum, Runs
  <1>5. Total(f, S) = sum[S]
    BY <1>4, TotalIs
  <1> QED
    BY <1>1, <1>5 DEF f

\* So is what the processes burnt between their lines.
LEMMA OwnSum ==
  ASSUME NEW k, NEW S, IsFiniteSet(S)
  PROVE  Spenders!MapThenSumSet(LAMBDA l : Spenders!Own(k, l), S)
             = Total([l \in S |-> Spenders!Own(k, l)], S)
  <1> DEFINE f == [l \in S |-> Spenders!Own(k, l)]
             Runs(it) == it = [s \in SUBSET S |-> IF s = {} THEN 0
                                  ELSE Spenders!Own(k, CHOOSE x \in s : TRUE)
                                           + it[s \ {CHOOSE x \in s : TRUE}]]
             sum == CHOOSE it : Runs(it)
  <1>1. Spenders!MapThenSumSet(LAMBDA l : Spenders!Own(k, l), S) = sum[S]
    BY DEF Spenders!MapThenSumSet, Spenders!MapThenFoldSet
  <1>2. \A s \in SUBSET S : s # {} => f[First(s)] = Spenders!Own(k, First(s))
    BY FirstIn
  <1>3. \A it : Runs(it) <=> Tally(it, f, S)
    <2> HIDE DEF f
    <2> QED
      BY <1>2 DEF Tally, First
  <1>4. Tally(sum, f, S)
    <2> HIDE DEF f, Runs
    <2>1. \E it : Runs(it)
      BY <1>3, TallyExists
    <2>2. Runs(sum)
      BY <2>1
    <2> QED
      BY <2>2, <1>3
  <1> HIDE DEF f, sum, Runs
  <1>5. Total(f, S) = sum[S]
    BY <1>4, TotalIs
  <1> QED
    BY <1>1, <1>5 DEF f

\* And what they burnt by their last.
LEMMA AllSum ==
  ASSUME NEW k, NEW S, IsFiniteSet(S)
  PROVE  Spenders!MapThenSumSet(LAMBDA l : Spenders!All(k, l), S)
             = Total([l \in S |-> Spenders!All(k, l)], S)
  <1> DEFINE f == [l \in S |-> Spenders!All(k, l)]
             Runs(it) == it = [s \in SUBSET S |-> IF s = {} THEN 0
                                  ELSE Spenders!All(k, CHOOSE x \in s : TRUE)
                                           + it[s \ {CHOOSE x \in s : TRUE}]]
             sum == CHOOSE it : Runs(it)
  <1>1. Spenders!MapThenSumSet(LAMBDA l : Spenders!All(k, l), S) = sum[S]
    BY DEF Spenders!MapThenSumSet, Spenders!MapThenFoldSet
  <1>2. \A s \in SUBSET S : s # {} => f[First(s)] = Spenders!All(k, First(s))
    BY FirstIn
  <1>3. \A it : Runs(it) <=> Tally(it, f, S)
    <2> HIDE DEF f
    <2> QED
      BY <1>2 DEF Tally, First
  <1>4. Tally(sum, f, S)
    <2> HIDE DEF f, Runs
    <2>1. \E it : Runs(it)
      BY <1>3, TallyExists
    <2>2. Runs(sum)
      BY <2>1
    <2> QED
      BY <2>2, <1>3
  <1> HIDE DEF f, sum, Runs
  <1>5. Total(f, S) = sum[S]
    BY <1>4, TotalIs
  <1> QED
    BY <1>1, <1>5 DEF f


LEMMA SpendersHold == ASSUME LinesKept PROVE Spenders!RankIsTheBurn
  <1> SUFFICES ASSUME NEW k \in Keys
               PROVE  LET heirs1 == Spenders!Lives(k) \ Spenders!Firsts(Spenders!Lives(k))
                      IN  /\ Spenders!Burnt(k) >= Spenders!MapThenSumSet(LAMBDA l : Spenders!Own(k, l), Spenders!Lives(k))
                          /\ Spenders!Burnt(k) <= Spenders!MapThenSumSet(LAMBDA l : Spenders!Own(k, l), Spenders!Lives(k) \ heirs1)
                                                 + Spenders!MapThenSumSet(LAMBDA l : Spenders!All(k, l), heirs1)
                          /\ Spenders!Shape(k) = "intermittent" =>
                                 Spenders!Span(k) >= Spenders!Cardinality(Spenders!Minutes(k))
    BY DEF Spenders!RankIsTheBurn
  <1> DEFINE M == Spenders!Minutes(k)
             c == [m \in M |-> lines[m][k].cpu]
             v == [m \in M |-> lines[m][k].life]
             L == LivesIn(M, v)
             own == OwnIn(M, c, v)
             most == MostIn(M, c, v)
             all == [l \in L |-> c[LastOf(M, v, l)]]
             step == [m \in M |-> IF m = Min(M) THEN 0 ELSE Spenders!Step(k, m)]
  <1>1. /\ M \in SUBSET Nat /\ IsFiniteSet(M)
        /\ \A m \in M : c[m] \in Nat /\ v[m] \in Nat /\ v[m] \in 0..MaxLives
    <2> DEFINE Rec == [cpu : Nat, rate : Nat, life : 0..MaxLives]
               Tabs == UNION {[S -> Rec] : S \in SUBSET Keys}
    <2>1. lines \in Seq(Tabs)
      BY DEF LinesKept
    <2> HIDE DEF Tabs
    <2>2. M \subseteq 1..Len(lines) /\ Len(lines) \in Nat
      BY <2>1 DEF Spenders!Minutes
    <2>3. IsFiniteSet(M)
      <3> HIDE DEF M
      <3>1. IsFiniteSet(1..Len(lines))
        BY <2>2, FS_Interval
      <3> QED
        BY <2>2, <3>1, FS_Subset
    <2>4. ASSUME NEW m \in M PROVE c[m] \in Nat /\ v[m] \in Nat /\ v[m] \in 0..MaxLives
      <3>1. lines[m] \in Tabs /\ k \in DOMAIN lines[m]
        BY <2>1 DEF Spenders!Minutes
      <3>2. lines[m][k] \in Rec
        BY <3>1 DEF Tabs
      <3> QED
        BY <3>2
    <2> QED
      BY <2>2, <2>3, <2>4
  <1>2. Ordered(M, c, v)
    BY DEF Ordered, LinesKept
  <1>0. Spenders!Cardinality(M) = Cardinality(M)
    BY DEF Spenders!Cardinality, Cardinality
  <1>3. \A S : Spenders!Max(S) = Max(S) /\ Spenders!Min(S) = Min(S)
    BY DEF Spenders!Max, Max, Spenders!Min, Min
  <1> HIDE DEF M
  <1>4. \A m \in M : Spenders!Cpu(k, m) = c[m]
    BY DEF Spenders!Cpu
  <1>5. \A l : Spenders!LinesOf(k, l) = OfLife(M, v, l)
    BY DEF Spenders!LinesOf, OfLife, M
  <1>6. Spenders!Lives(k) = L
    BY <1>1, <1>5 DEF Spenders!Lives, LivesIn, OfLife
  <1>7. ASSUME NEW l \in L
        PROVE  /\ LastOf(M, v, l) \in M /\ FirstOf(M, v, l) \in M
               /\ Spenders!All(k, l) = all[l] /\ Spenders!Own(k, l) = own[l]
    <2>1. OfLife(M, v, l) \subseteq M /\ OfLife(M, v, l) # {}
      BY DEF LivesIn, OfLife
    <2>2. OfLife(M, v, l) \in SUBSET Int /\ IsFiniteSet(OfLife(M, v, l))
      <3>1. M \subseteq Int
        BY <1>1
      <3> QED
        BY <1>1, <2>1, <3>1, FS_Subset
    <2>3. LastOf(M, v, l) \in M /\ FirstOf(M, v, l) \in M
      BY <2>1, <2>2, Extremes DEF LastOf, FirstOf
    <2>4. Spenders!All(k, l) = c[LastOf(M, v, l)]
      BY <1>3, <1>4, <1>5, <2>3 DEF Spenders!All, LastOf
    <2>5. Spenders!Own(k, l) = c[LastOf(M, v, l)] - c[FirstOf(M, v, l)]
      BY <1>3, <1>4, <1>5, <2>3, <2>4 DEF Spenders!Own, FirstOf
    <2> QED
      BY <2>3, <2>4, <2>5 DEF OwnIn
  <1>8. Spenders!Firsts(M) = (IF M = {} THEN {} ELSE {Min(M)})
        /\ Spenders!Firsts(L) = (IF L = {} THEN {} ELSE {Min(L)})
    BY <1>3 DEF Spenders!Firsts
  <1>9. IsFiniteSet(L)
    BY <1>1, ImageIsFinite DEF LivesIn
  <1>10. Spenders!Shape(k) = "intermittent" => Spenders!Span(k) >= Cardinality(M)
    <2> SUFFICES ASSUME Spenders!Shape(k) = "intermittent" PROVE Spenders!Span(k) >= Cardinality(M)
      OBVIOUS
    <2>0. Spenders!Cardinality(M) = Cardinality(M)
      BY DEF Spenders!Cardinality, Cardinality
    <2>1. /\ ~(Cardinality(M) < 2)
          /\ ~(4 * Cardinality(M) >= 3 * (Spenders!Span(k) + 1))
      BY <2>0 DEF Spenders!Shape, M
    <2>2. Cardinality(M) \in Nat
      BY <1>1, FS_CardinalityType
    <2>3. Spenders!Span(k) \in Int
      <3>1. M # {}
        BY <2>1, <2>2, FS_EmptySet
      <3>2. M \in SUBSET Int
        BY <1>1
      <3>3. Max(M) \in Int /\ Min(M) \in Int
        BY <1>1, <3>1, <3>2, Extremes
      <3>4. Spenders!Span(k) = Max(M) - Min(M)
        BY <1>3, <3>1 DEF Spenders!Span, M
      <3> QED
        BY <3>3, <3>4
    <2> QED
      BY <2>1, <2>2, <2>3
  <1> DEFINE heirs1 == L \ Spenders!Firsts(L)
  <1>11. /\ Spenders!MapThenSumSet(LAMBDA l : Spenders!Own(k, l), L) = Total(own, L)
         /\ Spenders!MapThenSumSet(LAMBDA l : Spenders!Own(k, l), L \ heirs1) = Total(own, L \ heirs1)
         /\ Spenders!MapThenSumSet(LAMBDA l : Spenders!All(k, l), heirs1) = Total(all, heirs1)
    <2> HIDE DEF own, all
    <2>1. IsFiniteSet(L \ heirs1) /\ IsFiniteSet(heirs1) /\ L \ heirs1 \subseteq L /\ heirs1 \subseteq L
      BY <1>9, FS_Subset
    <2> HIDE DEF heirs1, L
    <2>2. ASSUME NEW S, S \subseteq L, IsFiniteSet(S)
          PROVE  /\ Spenders!MapThenSumSet(LAMBDA l : Spenders!Own(k, l), S) = Total(own, S)
                 /\ Spenders!MapThenSumSet(LAMBDA l : Spenders!All(k, l), S) = Total(all, S)
      <3> DEFINE f == [l \in S |-> Spenders!Own(k, l)]
                 g == [l \in S |-> Spenders!All(k, l)]
      <3>1. \A l \in S : f[l] = own[l] /\ g[l] = all[l]
        BY <1>7, <2>2
      <3>2. /\ Spenders!MapThenSumSet(LAMBDA l : Spenders!Own(k, l), S) = Total(f, S)
            /\ Spenders!MapThenSumSet(LAMBDA l : Spenders!All(k, l), S) = Total(g, S)
        BY <2>2, OwnSum, AllSum
      <3> HIDE DEF f, g
      <3>3. Total(f, S) = Total(own, S) /\ Total(g, S) = Total(all, S)
        BY <2>2, <3>1, TotalSame
      <3> QED
        BY <3>2, <3>3
    <2> QED
      BY <1>9, <2>1, <2>2
  <1>12. /\ Spenders!Burnt(k) >= Total(own, L)
         /\ Spenders!Burnt(k) <= Total(own, L \ heirs1) + Total(all, heirs1)
    <2>1. CASE M = {}
      <3>1. L = {} /\ heirs1 = {} /\ L \ heirs1 = {}
        BY <2>1 DEF LivesIn
      <3>2. M \ Spenders!Firsts(M) = {}
        BY <2>1
      <3>3. Spenders!Burnt(k) = Spenders!MapThenSumSet(LAMBDA m : Spenders!Step(k, m), M \ Spenders!Firsts(M))
        BY DEF Spenders!Burnt, M
      <3>4. Spenders!Burnt(k) = 0
        <4> DEFINE none == M \ Spenders!Firsts(M)
                   f == [m \in none |-> Spenders!Step(k, m)]
        <4>1. IsFiniteSet(none)
          BY <3>2, FS_EmptySet
        <4>2. none = {}
          BY <3>2
        <4> HIDE DEF none
        <4>3. Spenders!MapThenSumSet(LAMBDA m : Spenders!Step(k, m), none) = Total(f, none)
          BY <4>1, StepsSum
        <4> HIDE DEF f
        <4>4. Total(f, none) = 0
          BY <4>2, TotalNone
        <4> QED
          BY <3>3, <4>3, <4>4 DEF none
      <3> HIDE DEF own, all, L, heirs1
      <3>6. Total(own, L) = 0 /\ Total(own, L \ heirs1) = 0 /\ Total(all, heirs1) = 0
        BY <3>1, TotalNone
      <3> QED
        BY <3>4, <3>6
    <2>2. CASE M # {}
      <3> DEFINE rest == M \ {Min(M)}
                 a == v[Min(M)]
      <3>1. /\ Min(M) \in M /\ \A m \in M : Min(M) <= m /\ m \in Nat
        <4>1. M \in SUBSET Int
          BY <1>1
        <4> QED
          BY <1>1, <2>2, <4>1, Extremes
      <3>2. ASSUME NEW m \in rest
            PROVE  /\ \E b \in M : b < m /\ (\A n \in M : n < m => n <= b)
                   /\ step[m] \in Int
                   /\ \A b \in M : b < m /\ (\A n \in M : n < m => n <= b) =>
                          step[m] = IF c[m] - c[b] > 0 THEN c[m] - c[b] ELSE 0
        <4> DEFINE S == {n \in M : n < m}
        <4>1. S \in SUBSET Int /\ IsFiniteSet(S) /\ Min(M) \in S
          <5>1. S \subseteq M /\ M \subseteq Int
            BY <1>1
          <5>2. Min(M) # m /\ Min(M) <= m /\ Min(M) \in Nat /\ m \in Nat
            BY <3>1
          <5>3. Min(M) < m
            BY <5>2
          <5> QED
            BY <1>1, <3>1, <5>1, <5>3, FS_Subset
        <4>2. Max(S) \in S /\ \A n \in S : n <= Max(S)
          BY <4>1, Extremes
        <4>3. Spenders!Before(k, m) = Max(S)
          BY <1>3 DEF Spenders!Before, M
        <4>4. \E b \in M : b < m /\ (\A n \in M : n < m => n <= b)
          BY <4>2
        <4>5. step[m] = (IF c[m] - c[Max(S)] > 0 THEN c[m] - c[Max(S)] ELSE 0)
          <5>1. step[m] = Spenders!Step(k, m) /\ Max(S) \in M
            BY <4>2
          <5> HIDE DEF step
          <5> QED
            BY <1>4, <4>3, <5>1 DEF Spenders!Step
        <4>6. ASSUME NEW b \in M, b < m, \A n \in M : n < m => n <= b PROVE b = Max(S)
          <5>1. b \in S
            BY <4>6
          <5>2. b <= Max(S) /\ Max(S) <= b /\ b \in Nat /\ Max(S) \in Nat
            BY <3>1, <4>2, <4>6, <5>1
          <5> QED
            BY <5>2
        <4> HIDE DEF step, S
        <4>7. step[m] \in Int
          <5>1. c[m] \in Nat /\ c[Max(S)] \in Nat
            BY <1>1, <4>2 DEF S
          <5> QED
            BY <4>5, <5>1
        <4> QED
          BY <4>4, <4>5, <4>6, <4>7
      <3>3. \A m \in M : step[m] \in Int
        <4>1. step[Min(M)] = 0
          BY <3>1
        <4> HIDE DEF step
        <4> QED
          BY <3>2, <4>1
      <3>4. StepsAre(M, c, step)
        <4> SUFFICES ASSUME NEW m \in M, NEW b \in M, b < m, \A n \in M : n < m => n <= b
                     PROVE  step[m] = IF c[m] - c[b] > 0 THEN c[m] - c[b] ELSE 0
          BY DEF StepsAre
        <4>1. m # Min(M)
          <5>1. Min(M) <= b /\ b \in Nat /\ m \in Nat /\ Min(M) \in Nat
            BY <3>1
          <5> QED
            BY <5>1
        <4> HIDE DEF step
        <4> QED
          BY <3>2, <4>1
      <3>5. Bounded(M, c, v, step)
        <4>1. \A m \in M : c[m] \in Nat /\ v[m] \in Nat
          BY <1>1
        <4> HIDE DEF c, v, step
        <4> QED
          BY <1>1, <1>2, <3>3, <3>4, <4>1, AllLines
      <3>6. Total(own, L) <= Total(step, rest) /\ Total(step, rest) <= Total(most, L)
        BY <2>2, <3>5 DEF Bounded
      <3>7. Spenders!Burnt(k) = Total(step, rest)
        <4> DEFINE f == [m \in rest |-> Spenders!Step(k, m)]
        <4>1. Spenders!Firsts(M) = {Min(M)}
          BY <1>8, <2>2
        <4>2. Spenders!Burnt(k) = Spenders!MapThenSumSet(LAMBDA m : Spenders!Step(k, m), rest)
          BY <4>1 DEF Spenders!Burnt, M
        <4>3. IsFiniteSet(rest)
          BY <1>1, FS_Subset
        <4>4. \A m \in rest : f[m] = step[m]
          OBVIOUS
        <4> HIDE DEF rest, step
        <4>5. Spenders!Burnt(k) = Total(f, rest)
          BY <4>2, <4>3, StepsSum
        <4> HIDE DEF f
        <4> QED
          BY <4>3, <4>4, <4>5, TotalSame
      <3>8. a \in L /\ Spenders!Firsts(L) = {a}
        <4>1. a \in L
          BY <3>1 DEF LivesIn
        <4>2. \A l \in L : a <= l /\ l \in Int
          <5> SUFFICES ASSUME NEW m \in M PROVE a <= v[m] /\ v[m] \in Int
            BY DEF LivesIn
          <5>1. a \in Nat /\ v[m] \in Nat
            BY <1>1, <3>1
          <5>2. m = Min(M) \/ Min(M) < m
            BY <3>1
          <5> QED
            BY <1>2, <3>1, <5>1, <5>2 DEF Ordered
        <4>3. L \in SUBSET Int
          BY <4>2
        <4> HIDE DEF L, a
        <4>4. Min(L) = a
          BY <4>1, <4>2, <4>3, ExtremesAre
        <4> QED
          BY <1>8, <4>1, <4>4
      <3>9. heirs1 = L \ {a} /\ L \ heirs1 = {a}
        BY <3>8
      <3>10. \A l \in L : own[l] \in Int /\ most[l] \in Int /\ all[l] \in Int
                          /\ most[l] = IF l = a THEN own[l] ELSE all[l]
        <4> SUFFICES ASSUME NEW l \in L
                     PROVE  own[l] \in Int /\ most[l] \in Int /\ all[l] \in Int
                            /\ most[l] = IF l = a THEN own[l] ELSE all[l]
          OBVIOUS
        <4>1. c[LastOf(M, v, l)] \in Nat /\ c[FirstOf(M, v, l)] \in Nat
          BY <1>1, <1>7
        <4>2. /\ own[l] = c[LastOf(M, v, l)] - c[FirstOf(M, v, l)]
              /\ most[l] = c[LastOf(M, v, l)] - (IF l = a THEN c[FirstOf(M, v, l)] ELSE 0)
              /\ all[l] = c[LastOf(M, v, l)]
          BY DEF OwnIn, MostIn
        <4> DEFINE last == c[LastOf(M, v, l)]
                   first == c[FirstOf(M, v, l)]
        <4>3. own[l] = last - first /\ most[l] = last - (IF l = a THEN first ELSE 0) /\ all[l] = last
          BY <4>2, Zenon
        <4>4. last \in Int /\ first \in Int
          BY <4>1
        <4> HIDE DEF own, most, all, a, last, first, c, v
        <4> QED
          BY <4>3, <4>4
      <3> HIDE DEF own, most, all, a, L, heirs1, step, rest
      <3>11. IsFiniteSet({a}) /\ IsFiniteSet(heirs1) /\ heirs1 \subseteq L
        BY <1>9, <3>9, FS_Singleton, FS_Subset
      <3>12. Total(most, L) = most[a] + Total(most, heirs1)
        BY <1>9, <3>8, <3>9, <3>10, TotalOf
      <3>13. Total(most, heirs1) = Total(all, heirs1)
        <4>1. \A l \in heirs1 : most[l] = all[l]
          BY <3>9, <3>10
        <4> QED
          BY <3>11, <4>1, TotalSame
      <3>14. Total(own, {a}) = own[a]
        <4>1. {a} \ {a} = {} /\ own[a] \in Int
          BY <3>8, <3>10
        <4>2. Total(own, {a}) = own[a] + Total(own, {})
          BY <3>11, <4>1, TotalOf
        <4> QED
          BY <4>1, <4>2, TotalNone
      <3>15. most[a] = own[a]
        BY <3>8, <3>10
      <3>16. Total(own, L \ heirs1) = own[a]
        BY <3>9, <3>14
      <3> QED
        BY <3>6, <3>7, <3>12, <3>13, <3>15, <3>16
    <2> QED
      BY <2>1, <2>2
  <1> QED
    BY <1>0, <1>6, <1>10, <1>11, <1>12 DEF M

----------------------------------------------------------------------------
(* Rates and burns.                                                           *)

\* For any connections, handed-on pids, reads and openings of the card, and for any
\* minutes of any processes: a rate is of one process over the time between two reads
\* of it, a ranking is only replaced by a later one, and a row of the history is no
\* less than what its processes burnt between their lines and, but for the first, no
\* more than they burnt in all.
THEOREM RatesAreAlwaysHonest == PartsSpec => RatesAreHonest
  <1> DEFINE Lasts == (part = "traffic" => TrafficKept) /\ (part = "spenders" => LinesKept)
             Stand == part = "traffic" => Traffic!RankingStands
  <1>1. PartsInit => Lasts
    BY TrafficBegins, LinesBegin DEF PartsInit
  <1>2. Lasts /\ [PartsNext]_allVars => Lasts' /\ [Stand]_allVars
    <2> SUFFICES ASSUME Lasts, [PartsNext]_allVars PROVE Lasts' /\ [Stand]_allVars
      OBVIOUS
    <2>1. part = "spenders" => LinesKept'
      BY PartSteps, SpendersNext
    <2>2. part = "traffic" => TrafficKept'
      BY PartSteps, TrafficNext
    <2>3. CASE UNCHANGED allVars
      BY <2>1, <2>2, <2>3 DEF allVars
    <2>4. CASE PartsNext
      <3>1. part = "traffic" => Traffic!Next
        BY <2>4 DEF PartsNext
      <3>2. Stand
        BY <3>1, TrafficNext
      <3> QED
        BY <2>1, <2>2, <2>4, <3>2 DEF PartsNext
    <2> QED
      BY <2>3, <2>4
  <1>3. Lasts => (part = "traffic" => Traffic!RatesAreHonest)
                 /\ (part = "spenders" => Spenders!RankIsTheBurn)
    BY TrafficHolds, SpendersHold
  <1> QED
    BY <1>1, <1>2, <1>3, PTL DEF PartsSpec, RatesAreHonest

----------------------------------------------------------------------------
(* The rows of the growth (Growth).                                           *)

\* The powers of a number, up to some n and all of them.
Powers(b, f, S) == f = [n \in S |-> IF n = 0 THEN 1 ELSE b * f[n - 1]]

LEMMA PowersUpTo ==
  ASSUME NEW b, NEW n \in Nat
  PROVE  \E f : Powers(b, f, 0..n)
  <1> DEFINE S == {m \in Nat : \E f : Powers(b, f, 0..m)}
  <1>1. 0 \in S
    <2>1. Powers(b, [m \in 0..0 |-> 1], 0..0)
      BY DEF Powers
    <2> QED
      BY <2>1
  <1>2. ASSUME NEW m \in Nat, m \in S PROVE m + 1 \in S
    <2>1. PICK f : Powers(b, f, 0..m)
      BY <1>2
    <2> DEFINE g == [i \in 0..m + 1 |-> IF i = 0 THEN 1 ELSE b * f[i - 1]]
    <2>2. \A i \in 0..m : f[i] = g[i]
      BY <2>1 DEF Powers
    <2>3. \A i \in 0..m + 1 : i # 0 => i - 1 \in 0..m
      OBVIOUS
    <2>4. g = [i \in 0..m + 1 |-> IF i = 0 THEN 1 ELSE b * g[i - 1]]
      BY <2>2, <2>3
    <2> HIDE DEF g
    <2>5. Powers(b, g, 0..m + 1)
      BY <2>4 DEF Powers
    <2> QED
      BY <2>5
  <1> HIDE DEF S
  <1>3. n \in S
    BY <1>1, <1>2, CountingUp
  <1> QED
    BY <1>3 DEF S

LEMMA PowersAgree ==
  ASSUME NEW b, NEW n \in Nat
  PROVE  \A i, j \in Nat : \A f, g :
             n <= i /\ n <= j /\ Powers(b, f, 0..i) /\ Powers(b, g, 0..j) => f[n] = g[n]
  <1> DEFINE S == {m \in Nat : \A i, j \in Nat : \A f, g :
                       m <= i /\ m <= j /\ Powers(b, f, 0..i) /\ Powers(b, g, 0..j)
                           => f[m] = g[m]}
  <1>1. ASSUME NEW i \in Nat, NEW f, Powers(b, f, 0..i)
        PROVE  /\ f[0] = 1
               /\ \A m \in Nat : m + 1 <= i => f[m + 1] = b * f[m]
    <2>1. f[0] = 1
      BY <1>1 DEF Powers
    <2>2. ASSUME NEW m \in Nat, m + 1 <= i PROVE f[m + 1] = b * f[m]
      <3>1. m + 1 \in 0..i /\ m + 1 # 0 /\ (m + 1) - 1 = m
        BY <2>2
      <3> QED
        BY <1>1, <3>1 DEF Powers
    <2> QED
      BY <2>1, <2>2
  <1>2. 0 \in S
    BY <1>1
  <1>3. ASSUME NEW m \in Nat, m \in S PROVE m + 1 \in S
    <2> SUFFICES ASSUME NEW i \in Nat, NEW j \in Nat, NEW f, NEW g, m + 1 <= i, m + 1 <= j,
                        Powers(b, f, 0..i), Powers(b, g, 0..j)
                 PROVE  f[m + 1] = g[m + 1]
      OBVIOUS
    <2>1. f[m] = g[m]
      BY <1>3
    <2> QED
      BY <1>1, <2>1
  <1> HIDE DEF S
  <1>4. n \in S
    BY <1>2, <1>3, CountingUp
  <1> QED
    BY <1>4 DEF S

LEMMA PowersExist == ASSUME NEW b PROVE \E f : Powers(b, f, Nat)
  <1> DEFINE upto(n) == CHOOSE f : Powers(b, f, 0..n)
             all == [n \in Nat |-> upto(n)[n]]
  <1>1. \A n \in Nat : Powers(b, upto(n), 0..n)
    BY PowersUpTo
  <1>2. ASSUME NEW n \in Nat PROVE all[n] = IF n = 0 THEN 1 ELSE b * all[n - 1]
    <2> HIDE DEF upto
    <2>1. upto(n)[n] = IF n = 0 THEN 1 ELSE b * upto(n)[n - 1]
      <3> DEFINE f == upto(n)
      <3>1. Powers(b, f, 0..n) /\ n \in 0..n
        BY <1>1
      <3> HIDE DEF f
      <3>2. f[n] = IF n = 0 THEN 1 ELSE b * f[n - 1]
        BY <3>1 DEF Powers
      <3> QED
        BY <3>2 DEF f
    <2>2. n # 0 => upto(n)[n - 1] = upto(n - 1)[n - 1]
      <3> SUFFICES ASSUME n # 0 PROVE upto(n)[n - 1] = upto(n - 1)[n - 1]
        OBVIOUS
      <3> DEFINE m == n - 1
                 f == upto(n)
                 g == upto(m)
      <3>1. m \in Nat /\ m <= n /\ m <= m
        OBVIOUS
      <3>2. Powers(b, f, 0..n) /\ Powers(b, g, 0..m)
        BY <1>1, <3>1
      <3> HIDE DEF m, f, g
      <3>3. f[m] = g[m]
        BY <3>1, <3>2, PowersAgree
      <3> QED
        BY <3>3 DEF f, g, m
    <2>3. n # 0 => n - 1 \in Nat
      OBVIOUS
    <2> QED
      BY <2>1, <2>2, <2>3
  <1> HIDE DEF upto
  <1>3. all = [n \in Nat |-> IF n = 0 THEN 1 ELSE b * all[n - 1]]
    <2>1. all = [n \in Nat |-> all[n]]
      OBVIOUS
    <2> HIDE DEF all
    <2> QED
      BY <1>2, <2>1
  <1> HIDE DEF all
  <1>4. Powers(b, all, Nat)
    BY <1>3 DEF Powers
  <1> QED
    BY <1>4

LEMMA TensAndNines ==
  /\ Growth!Tens[0] = 1 /\ Growth!Nines[0] = 1
  /\ \A n \in Nat : /\ Growth!Tens[n + 1] = 10 * Growth!Tens[n]
                    /\ Growth!Nines[n + 1] = 9 * Growth!Nines[n]
                    /\ Growth!Tens[n] \in Nat /\ Growth!Nines[n] \in Nat
                    /\ Growth!Nines[n] <= Growth!Tens[n]
  <1> DEFINE ten == Growth!Tens
             nine == Growth!Nines
  <1>1. Powers(10, ten, Nat) /\ Powers(9, nine, Nat)
    BY PowersExist DEF Growth!Tens, Growth!Nines, Powers
  <1> HIDE DEF ten, nine
  <1>2. ten[0] = 1 /\ nine[0] = 1
    BY <1>1 DEF Powers
  <1>3. ASSUME NEW n \in Nat PROVE ten[n + 1] = 10 * ten[n] /\ nine[n + 1] = 9 * nine[n]
    <2>1. n + 1 \in Nat /\ n + 1 # 0 /\ (n + 1) - 1 = n
      OBVIOUS
    <2> QED
      BY <1>1, <2>1 DEF Powers
  <1> DEFINE S == {n \in Nat : ten[n] \in Nat /\ nine[n] \in Nat /\ nine[n] <= ten[n]}
  <1>4. 0 \in S
    BY <1>2
  <1>5. ASSUME NEW n \in Nat, n \in S PROVE n + 1 \in S
    BY <1>3, <1>5
  <1>6. Nat \subseteq S
    <2> HIDE DEF S
    <2> QED
      BY <1>4, <1>5, CountingUp
  <1> QED
    BY <1>2, <1>3, <1>6 DEF ten, nine

\* Parts that each carry their share carry it together.
LEMMA TogetherCarried ==
  ASSUME NEW R, IsFiniteSet(R), NEW g, \A x \in R : g[x] \in Nat,
         NEW K, IsFiniteSet(K), NEW h, \A e \in K : h[e] \in Nat,
         NEW P, \A e \in K : P[e] \subseteq R,
         \A e, f \in K : e # f => P[e] \cap P[f] = {},
         NEW t \in Nat, NEW u \in Nat, \A e \in K : t * Total(g, P[e]) >= u * h[e]
  PROVE  t * Total(g, R) >= u * Total(h, K)
  <1> DEFINE all(S) == UNION {P[e] : e \in S}
             W == {S \in SUBSET K : t * Total(g, all(S)) >= u * Total(h, S)}
  <1>1. {} \in W
    <2>1. all({}) = {}
      OBVIOUS
    <2>2. Total(g, all({})) = 0 /\ Total(h, {}) = 0
      BY <2>1, TotalNone
    <2> HIDE DEF all
    <2> QED
      BY <2>2
  <1>2. ASSUME NEW S \in SUBSET K, NEW x \in K \ S, S \in W PROVE S \cup {x} \in W
    <2>1. /\ all(S \cup {x}) = all(S) \cup P[x] /\ all(S) \cap P[x] = {}
          /\ all(S) \subseteq R /\ P[x] \subseteq R
      <3>1. \A e \in S : e \in K /\ e # x
        OBVIOUS
      <3>2. all(S) \cap P[x] = {}
        BY <3>1
      <3>3. all(S) \subseteq R /\ P[x] \subseteq R
        OBVIOUS
      <3>4. all(S \cup {x}) = all(S) \cup P[x]
        OBVIOUS
      <3> QED
        BY <3>2, <3>3, <3>4
    <2> DEFINE have == all(S)
               more == P[x]
               both == all(S \cup {x})
    <2>2. t * Total(g, have) >= u * Total(h, S) /\ t * Total(g, more) >= u * h[x]
      BY <1>2
    <2>3. both = have \cup more /\ have \cap more = {} /\ have \subseteq R /\ more \subseteq R
      BY <2>1
    <2> HIDE DEF have, more, both, all
    <2>4. IsFiniteSet(have) /\ IsFiniteSet(more) /\ IsFiniteSet(S)
      BY <2>3, FS_Subset
    <2>5. Total(g, have \cup more) = Total(g, have) + Total(g, more)
      BY <2>3, <2>4, TotalApart
    <2>6. Total(h, S \cup {x}) = h[x] + Total(h, S)
      <3>1. \A e \in S \cup {x} : h[e] \in Int
        OBVIOUS
      <3> QED
        BY <2>4, <3>1, TotalGrows
    <2>7. Total(g, have) \in Nat /\ Total(g, more) \in Nat /\ Total(h, S) \in Nat /\ h[x] \in Nat
      BY <2>3, <2>4, TotalNat
    <2> DEFINE a == Total(g, have)
               b == Total(g, more)
               c == Total(h, S)
               d == h[x]
    <2>8. t * (a + b) >= u * (d + c)
      <3>1. a \in Nat /\ b \in Nat /\ c \in Nat /\ d \in Nat /\ t * a >= u * c /\ t * b >= u * d
        BY <2>2, <2>7
      <3> HIDE DEF a, b, c, d
      <3>2. t * (a + b) = t * a + t * b /\ u * (d + c) = u * d + u * c
        BY <3>1
      <3> QED
        BY <3>1, <3>2
    <2>9. Total(g, both) = a + b
      BY <2>3, <2>5
    <2>10. t * Total(g, both) >= u * Total(h, S \cup {x})
      BY <2>6, <2>8, <2>9
    <2> QED
      BY <2>10 DEF both
  <1>3. K \in W
    <2> HIDE DEF W
    <2> QED
      BY <1>1, <1>2, FillingUp
  <1> DEFINE some == all(K)
  <1>4. some \subseteq R /\ t * Total(g, some) >= u * Total(h, K)
    BY <1>3
  <1> HIDE DEF some
  <1>5. /\ Total(g, some) \in Nat /\ Total(g, R) \in Nat /\ Total(g, some) <= Total(g, R)
        /\ Total(h, K) \in Nat
    BY <1>4, TotalPart, TotalNat
  <1> DEFINE a == Total(g, some)
             b == Total(g, R)
             c == Total(h, K)
  <1>6. t * b >= u * c
    <2>1. a \in Nat /\ b \in Nat /\ c \in Nat /\ a <= b /\ t * a >= u * c
      BY <1>4, <1>5
    <2> HIDE DEF a, b, c
    <2>2. PICK r \in Nat : b = a + r
      <3>1. b - a \in Nat /\ b = a + (b - a)
        BY <2>1
      <3> QED
        BY <3>1
    <2>3. t * b = t * a + t * r /\ t * r \in Nat
      BY <2>1, <2>2
    <2>4. t * a \in Nat /\ u * c \in Nat
      BY <2>1
    <2> QED
      BY <2>1, <2>3, <2>4
  <1> QED
    BY <1>6

\* What lies in what: a directory comes after those that it lies in, and those are a
\* chain.
LEMMA TreeFacts ==
  /\ Dirs \in SUBSET Nat /\ Dirs \in SUBSET Int /\ IsFiniteSet(Dirs)
  /\ GrowthFloor \in Nat \ {0} /\ MaxRows \in Nat
  /\ \A d \in Dirs : /\ Above[d] \subseteq Dirs
                     /\ \A a \in Above[d] : a < d /\ Above[a] \subseteq Above[d]
                     /\ \A a, b \in Above[d] : a = b \/ a \in Above[b] \/ b \in Above[a]
  <1>1. Dirs \in SUBSET Nat
    BY FiguresAssumption
  <1>2. Above \in [Dirs -> SUBSET Dirs]
    BY FiguresAssumption
  <1>3. Dirs \in SUBSET Int
    BY <1>1
  <1> QED
    BY <1>1, <1>2, <1>3, FiguresAssumption

\* A row is a candidate that is not carried by what lies in it, below none but carried
\* ones.
LEMMA RowsAre ==
  ASSUME NEW g, NEW C, C = Growth!Candidates(g)
  PROVE  Growth!Rows(g) = {e \in C : /\ ~Growth!Carried(e, C, g)
                                     /\ \A a \in C \cap Above[e] : Growth!Carried(a, C, g)}
  <1>1. C \subseteq Dirs
    BY DEF Growth!Candidates
  <1>2. \A e : e \in Growth!Rows(g) <=> \E d \in Growth!Tops(C) : e \in Growth!Answer(d, C, g)
    BY DEF Growth!Rows
  <1>3. ASSUME NEW d \in Growth!Tops(C), NEW e \in Growth!Answer(d, C, g)
        PROVE  /\ e \in C /\ ~Growth!Carried(e, C, g)
               /\ \A a \in C \cap Above[e] : Growth!Carried(a, C, g)
    <2>1. /\ e \in C /\ ~Growth!Carried(e, C, g) /\ (d = e \/ d \in Above[e])
          /\ \A a \in C \cap Above[e] : d = a \/ d \in Above[a] => Growth!Carried(a, C, g)
      BY DEF Growth!Answer, Growth!Ancestors
    <2>2. d \in C /\ Above[d] \cap C = {}
      BY DEF Growth!Tops, Growth!Ancestors
    <2>3. ASSUME NEW a \in C \cap Above[e] PROVE d = a \/ d \in Above[a]
      BY <1>1, <2>1, <2>2, TreeFacts
    <2> QED
      BY <2>1, <2>3
  <1>4. ASSUME NEW e \in C, ~Growth!Carried(e, C, g),
               \A a \in C \cap Above[e] : Growth!Carried(a, C, g)
        PROVE  \E d \in Growth!Tops(C) : e \in Growth!Answer(d, C, g)
    <2> DEFINE way == C \cap (Above[e] \cup {e})
               d == Min(way)
    <2>1. d \in way /\ \A a \in way : d <= a
      <3>1. way \in SUBSET Int /\ way \subseteq Dirs /\ way # {}
        BY <1>1, TreeFacts
      <3>2. IsFiniteSet(way)
        BY <3>1, TreeFacts, FS_Subset
      <3> HIDE DEF way
      <3> QED
        BY <3>1, <3>2, Extremes
    <2> HIDE DEF d
    <2>2. d \in C /\ (d = e \/ d \in Above[e])
      BY <2>1
    <2>3. ASSUME NEW a \in Above[d] \cap C PROVE FALSE
      <3>1. a \in way
        BY <1>1, <2>2, TreeFacts
      <3>2. d <= a /\ a < d /\ a \in Int /\ d \in Int
        BY <1>1, <2>1, <2>2, <3>1, TreeFacts
      <3> QED
        BY <3>2
    <2>4. d \in Growth!Tops(C)
      BY <2>2, <2>3 DEF Growth!Tops, Growth!Ancestors
    <2>5. e \in Growth!Answer(d, C, g)
      BY <1>4, <2>2 DEF Growth!Answer, Growth!Ancestors
    <2> QED
      BY <2>4, <2>5
  <1> QED
    BY <1>2, <1>3, <1>4

\* A list that is not full holds every row.
LEMMA AllRowsShow ==
  ASSUME NEW g \in [Dirs -> Int], NEW rows \in SUBSET Dirs,
         Cardinality(Growth!Truncated(rows, g)) < MaxRows
  PROVE  Growth!Truncated(rows, g) = rows
  <1> DEFINE ahead(r) == {q \in rows : g[q] > g[r] \/ (g[q] = g[r] /\ q < r)}
             shown == Growth!Truncated(rows, g)
             out == rows \ shown
  <1>1. shown = {r \in rows : Cardinality(ahead(r)) < MaxRows}
    <2>1. \A S : Growth!Cardinality(S) = Cardinality(S)
      BY DEF Growth!Cardinality, Cardinality
    <2> QED
      BY <2>1 DEF Growth!Truncated
  <1> HIDE DEF shown
  <1> SUFFICES ASSUME out # {} PROVE FALSE
    BY <1>1 DEF shown
  <1>2. IsFiniteSet(rows) /\ IsFiniteSet(shown) /\ shown \subseteq rows
    BY <1>1, TreeFacts, FS_Subset
  <1> DEFINE sizes == {g[q] : q \in out}
             best == Max(sizes)
             ties == {q \in out : g[q] = best}
             first == Min(ties)
  <1>3. best \in sizes /\ \A n \in sizes : n <= best
    <2>1. \A q \in out : g[q] \in Int
      OBVIOUS
    <2>2. sizes \in SUBSET Int /\ sizes # {}
      BY <2>1
    <2>3. IsFiniteSet(sizes)
      <3> HIDE DEF out
      <3>1. IsFiniteSet(out)
        BY <1>2, FS_Subset DEF out
      <3> DEFINE f == [q \in out |-> g[q]]
      <3>2. sizes = {f[q] : q \in out}
        OBVIOUS
      <3> HIDE DEF f, sizes
      <3> QED
        BY <3>1, <3>2, ImageIsFinite
    <2> HIDE DEF sizes
    <2> QED
      BY <2>2, <2>3, Extremes
  <1>4. first \in ties /\ \A q \in ties : first <= q
    <2>1. ties # {} /\ ties \subseteq rows
      BY <1>3
    <2>2. ties \in SUBSET Int
      BY <2>1, TreeFacts
    <2>3. IsFiniteSet(ties)
      BY <1>2, <2>1, FS_Subset
    <2> HIDE DEF ties
    <2> QED
      BY <2>1, <2>2, <2>3, Extremes
  <1> HIDE DEF best, first
  <1>5. first \in out /\ g[first] = best
    BY <1>4
  <1>6. ahead(first) \subseteq shown
    <2> SUFFICES ASSUME NEW q \in rows, q \notin shown,
                        g[q] > g[first] \/ (g[q] = g[first] /\ q < first)
                 PROVE  FALSE
      OBVIOUS
    <2>1. q \in out /\ g[q] \in sizes
      OBVIOUS
    <2>2. g[q] <= best /\ g[q] \in Int /\ g[first] \in Int /\ q \in Int /\ first \in Int
      BY <1>3, <1>5, <2>1, TreeFacts
    <2>3. g[q] = best /\ q < first
      BY <1>5, <2>2
    <2>4. q \in ties
      BY <2>1, <2>3
    <2>5. first <= q
      BY <1>4, <2>4
    <2> QED
      BY <2>2, <2>3, <2>5
  <1>7. Cardinality(ahead(first)) <= Cardinality(shown)
    BY <1>2, <1>6, FS_Subset
  <1>8. Cardinality(ahead(first)) \in Nat /\ Cardinality(shown) \in Nat /\ MaxRows \in Nat
    BY <1>2, <1>6, FS_Subset, FS_CardinalityType, TreeFacts
  <1>9. Cardinality(shown) < MaxRows
    BY DEF shown
  <1>10. Cardinality(ahead(first)) < MaxRows
    BY <1>7, <1>8, <1>9
  <1> QED
    BY <1>1, <1>5, <1>10

\* No row lies in another.
LEMMA RowsLieApart ==
  ASSUME NEW g, NEW r \in Growth!Rows(g), NEW a \in Growth!Rows(g), a \in Above[r]
  PROVE  FALSE
  <1> DEFINE C == Growth!Candidates(g)
  <1> HIDE DEF C
  <1>1. Growth!Rows(g) = {e \in C : /\ ~Growth!Carried(e, C, g)
                                    /\ \A b \in C \cap Above[e] : Growth!Carried(b, C, g)}
    BY RowsAre DEF C
  <1> QED
    BY <1>1

\* The candidates that are left to what lies in them, under none but such.
Handed(g) ==
    {d \in Growth!Candidates(g) :
        \A a \in Growth!Candidates(g) \cap (Above[d] \cup {d}) :
            Growth!Carried(a, Growth!Candidates(g), g)}

\* A candidate is a row, lies in one, or is left.
LEMMA EveryCandidate ==
  ASSUME NEW g, NEW d \in Growth!Candidates(g)
  PROVE  d \in Handed(g) \/ \E r \in Growth!Rows(g) : r = d \/ r \in Above[d]
  <1> DEFINE C == Growth!Candidates(g)
             not == {a \in C \cap (Above[d] \cup {d}) : ~Growth!Carried(a, C, g)}
             top == Min(not)
  <1> SUFFICES ASSUME d \notin Handed(g)
               PROVE  \E r \in Growth!Rows(g) : r = d \/ r \in Above[d]
    OBVIOUS
  <1>1. C \subseteq Dirs /\ d \in C
    BY DEF Growth!Candidates
  <1>2. not # {}
    BY DEF Handed
  <1>3. top \in not /\ \A a \in not : top <= a
    <2>1. not \subseteq Dirs /\ not \in SUBSET Int
      BY <1>1, TreeFacts
    <2>2. IsFiniteSet(not)
      BY <2>1, TreeFacts, FS_Subset
    <2> HIDE DEF not
    <2> QED
      BY <1>2, <2>1, <2>2, Extremes
  <1> HIDE DEF top, C
  <1>4. top \in C /\ (top = d \/ top \in Above[d]) /\ ~Growth!Carried(top, C, g)
    BY <1>3
  <1>5. ASSUME NEW a \in C \cap Above[top] PROVE Growth!Carried(a, C, g)
    <2>1. a \in Above[d]
      BY <1>1, <1>4, TreeFacts
    <2>2. a < top /\ a \in Int /\ top \in Int
      BY <1>1, <1>4, TreeFacts
    <2>3. a \notin not
      BY <1>3, <2>2
    <2> QED
      BY <2>1, <2>3
  <1>6. top \in Growth!Rows(g)
    BY <1>4, <1>5, RowsAre DEF C
  <1> QED
    BY <1>4, <1>6

LEMMA SumIsTotal == ASSUME NEW g, NEW S PROVE Growth!Sum(g, S) = Total(g, S)
  BY DEF Growth!Sum, Total, Tally, First

LEMMA CandidatesGrew ==
  ASSUME NEW g \in [Dirs -> Int], NEW d \in Growth!Candidates(g)
  PROVE  d \in Dirs /\ g[d] \in Nat \ {0}
  BY TreeFacts DEF Growth!Candidates

\* What lies right in a candidate that is handed on: rows, and candidates handed on.
LEMMA KidsTakeOver ==
  ASSUME NEW g, NEW d \in Handed(g), NEW C, C = Growth!Candidates(g),
         NEW K, K = Growth!Kids(d, C)
  PROVE  /\ K \subseteq C /\ \A e \in K : d \in Above[e]
         /\ 100 * Total(g, K) >= 90 * g[d]
         /\ \A e \in K : e \in Growth!Rows(g) \/ e \in Handed(g)
         /\ \A e, f \in K : \A x \in Dirs :
               (x = e \/ e \in Above[x]) /\ (x = f \/ f \in Above[x]) => e = f
  <1>1. d \in C /\ C \subseteq Dirs /\ \A a \in C \cap (Above[d] \cup {d}) : Growth!Carried(a, C, g)
    BY DEF Handed, Growth!Candidates
  <1>2. ASSUME NEW e \in K
        PROVE  e \in C /\ d \in Above[e] /\ C \cap Above[e] \subseteq Above[d] \cup {d}
    BY DEF Growth!Kids, Growth!Ancestors
  <1>3. 100 * Total(g, K) >= 90 * g[d]
    BY <1>1, SumIsTotal DEF Growth!Carried
  <1>4. ASSUME NEW e \in K PROVE e \in Growth!Rows(g) \/ e \in Handed(g)
    <2>1. e \in C /\ \A a \in C \cap Above[e] : Growth!Carried(a, C, g)
      BY <1>1, <1>2
    <2>2. CASE Growth!Carried(e, C, g)
      <3>1. \A a \in C \cap (Above[e] \cup {e}) : Growth!Carried(a, C, g)
        BY <2>1, <2>2
      <3> QED
        BY <2>1, <3>1 DEF Handed
    <2>3. CASE ~Growth!Carried(e, C, g)
      BY <2>1, <2>3, RowsAre
    <2> QED
      BY <2>2, <2>3
  <1>5. ASSUME NEW e \in K, NEW f \in K, f \in Above[e] PROVE FALSE
    <2>1. f \in Above[d] \cup {d} /\ d \in Above[f] /\ f \in Dirs
      BY <1>1, <1>2, <1>5
    <2>2. f = d \/ f < d
      BY <1>1, <2>1, TreeFacts
    <2>3. d < f /\ d \in Int /\ f \in Int
      BY <1>1, <2>1, TreeFacts
    <2> QED
      BY <2>2, <2>3
  <1>6. ASSUME NEW e \in K, NEW f \in K, NEW x \in Dirs,
               x = e \/ e \in Above[x], x = f \/ f \in Above[x]
        PROVE  e = f
    <2>1. CASE x = e \/ x = f
      BY <1>5, <1>6, <2>1
    <2>2. CASE e \in Above[x] /\ f \in Above[x]
      BY <1>5, <2>2, TreeFacts
    <2> QED
      BY <1>6, <2>1, <2>2
  <1> QED
    BY <1>2, <1>3, <1>4, <1>6

\* The way down to a row from a candidate has one more level than from its child.
\* Rows are candidates, and what is handed on is one.
LEMMA RowsAreCandidates ==
  ASSUME NEW g
  PROVE  /\ Growth!Candidates(g) \in SUBSET Dirs /\ Growth!Rows(g) \subseteq Growth!Candidates(g)
         /\ Handed(g) \subseteq Growth!Candidates(g)
  <1>1. Growth!Rows(g) \subseteq Growth!Candidates(g)
    BY RowsAre
  <1> QED
    BY <1>1 DEF Handed, Growth!Candidates

LEMMA OneLevelMore ==
  ASSUME NEW d \in Dirs, NEW e \in Dirs, d \in Above[e], NEW r \in Dirs, e \in Above[r],
         NEW C \in SUBSET Dirs, d \in C, e \in C
  PROVE  /\ Growth!Levels(e, r, C) \in Nat \ {0} /\ Growth!Levels(d, r, C) \in Nat
         /\ Growth!Levels(e, r, C) + 1 <= Growth!Levels(d, r, C)
  <1> DEFINE wide == C \cap Above[r] \cap ({d} \cup Growth!Below(d))
             slim == C \cap Above[r] \cap ({e} \cup Growth!Below(e))
  <1>1. \A S : Growth!Cardinality(S) = Cardinality(S)
    BY DEF Growth!Cardinality, Cardinality
  <1>2. Growth!Levels(e, r, C) = Cardinality(slim) /\ Growth!Levels(d, r, C) = Cardinality(wide)
    BY <1>1 DEF Growth!Levels, Growth!Ancestors
  <1>3. d < e /\ d \in Int /\ e \in Int /\ d \in Above[r]
    BY TreeFacts
  <1>4. d \notin slim
    <2>1. CASE d \in Growth!Below(e)
      <3>1. e < d
        BY <2>1, TreeFacts DEF Growth!Below, Growth!Ancestors
      <3> QED
        BY <1>3, <3>1
    <2> QED
      BY <1>3, <2>1
  <1>5. slim \cup {d} \subseteq wide
    <2>1. ASSUME NEW x \in slim PROVE x \in wide
      <3>1. x \in Dirs /\ (x = e \/ e \in Above[x])
        BY DEF Growth!Below, Growth!Ancestors
      <3>2. d \in Above[x]
        BY <3>1, TreeFacts
      <3> QED
        BY <3>1, <3>2 DEF Growth!Below, Growth!Ancestors
    <2> QED
      BY <1>3, <2>1
  <1>6. e \in slim
    OBVIOUS
  <1>7. wide \subseteq Dirs /\ slim \subseteq Dirs
    OBVIOUS
  <1> HIDE DEF wide, slim
  <1>8. IsFiniteSet(wide) /\ IsFiniteSet(slim)
    BY <1>7, TreeFacts, FS_Subset
  <1>9. Cardinality(slim \cup {d}) = Cardinality(slim) + 1
    BY <1>4, <1>8, FS_AddElement
  <1>10. Cardinality(slim \cup {d}) <= Cardinality(wide)
    BY <1>5, <1>8, FS_Subset
  <1>11. Cardinality(slim) \in Nat /\ Cardinality(wide) \in Nat /\ Cardinality(slim) # 0
    BY <1>6, <1>8, FS_CardinalityType, FS_EmptySet
  <1> QED
    BY <1>2, <1>9, <1>10, <1>11

\* A candidate that is handed on is made up for by the rows below it.
MadeUpFor(g, d) ==
    \A n \in Nat \ {0} :
        (\A r \in Growth!Rows(g) \cap Growth!Below(d) :
             Growth!Levels(d, r, Growth!Candidates(g)) <= n) =>
            Growth!Tens[n] * Total(g, Growth!Rows(g) \cap Growth!Below(d))
                >= Growth!Nines[n] * g[d]

\* A child makes up for itself, with a level less.
LEMMA ChildCarries ==
  ASSUME NEW g \in [Dirs -> Int], NEW d \in Handed(g), NEW e \in Dirs, d \in Above[e],
         e \in Growth!Rows(g) \/ (e \in Handed(g) /\ MadeUpFor(g, e)),
         NEW m \in Nat,
         \A r \in Growth!Rows(g) \cap Growth!Below(d) :
             Growth!Levels(d, r, Growth!Candidates(g)) <= m + 1
  PROVE  Growth!Tens[m] * Total(g, Growth!Rows(g) \cap ({e} \cup Growth!Below(e)))
             >= Growth!Nines[m] * g[e]
  <1> DEFINE C == Growth!Candidates(g)
             R == Growth!Rows(g)
             low == R \cap Growth!Below(e)
             its == R \cap ({e} \cup Growth!Below(e))
  <1>1. C \in SUBSET Dirs /\ R \subseteq C /\ d \in C
    BY RowsAreCandidates
  <1>2. e \in C /\ g[e] \in Nat \ {0}
    BY <1>1, CandidatesGrew DEF Handed
  <1>3. \A x : x \in Growth!Below(e) <=> x \in Dirs /\ e \in Above[x]
    BY DEF Growth!Below, Growth!Ancestors
  <1>4. Growth!Tens[m] \in Nat /\ Growth!Nines[m] \in Nat /\ Growth!Nines[m] <= Growth!Tens[m]
    BY TensAndNines
  <1>5. CASE e \in R
    <2>1. its = {e}
      BY <1>3, <1>5, RowsLieApart
    <2>2. Total(g, {e}) = g[e]
      <3>1. {e} \ {e} = {} /\ IsFiniteSet({e}) /\ g[e] \in Int
        BY <1>2, FS_Singleton
      <3>2. Total(g, {e}) = g[e] + Total(g, {})
        BY <3>1, TotalOf
      <3> QED
        BY <3>1, <3>2, TotalNone
    <2> DEFINE t == Growth!Tens[m]
               u == Growth!Nines[m]
               x == g[e]
    <2>3. t * x >= u * x
      <3>1. t \in Nat /\ u \in Nat /\ x \in Nat /\ u <= t
        BY <1>2, <1>4
      <3> HIDE DEF t, u, x
      <3>2. t * x = u * x + (t - u) * x /\ (t - u) * x \in Nat /\ u * x \in Nat
        BY <3>1
      <3> QED
        BY <3>2
    <2>4. Total(g, its) = x
      BY <2>1, <2>2
    <2> HIDE DEF its
    <2> QED
      BY <2>3, <2>4 DEF its
  <1>6. CASE e \notin R
    <2>1. MadeUpFor(g, e) /\ its = low
      BY <1>6
    <2>2. ASSUME NEW r \in low
          PROVE  Growth!Levels(e, r, C) \in Nat \ {0} /\ Growth!Levels(e, r, C) <= m
      <3>1. r \in Dirs /\ e \in Above[r] /\ r \in R /\ d \in Above[r] /\ d \in Dirs
        BY <1>1, <1>3, TreeFacts
      <3>2. Growth!Levels(d, r, C) <= m + 1
        BY <3>1 DEF Growth!Below, Growth!Ancestors
      <3>3. /\ Growth!Levels(e, r, C) \in Nat \ {0} /\ Growth!Levels(d, r, C) \in Nat
            /\ Growth!Levels(e, r, C) + 1 <= Growth!Levels(d, r, C)
        <4> HIDE DEF C, R
        <4> QED
          BY <1>1, <1>2, <3>1, OneLevelMore
      <3> QED
        BY <3>2, <3>3
    <2> HIDE DEF its
    <2>3. m # 0
      <3> SUFFICES ASSUME m = 0 PROVE FALSE
        OBVIOUS
      <3>1. ASSUME NEW r \in low PROVE FALSE
        <4> HIDE DEF low, C, R
        <4> QED
          BY <2>2
      <3>2. low = {}
        BY <3>1
      <3>3. Growth!Tens[1] * Total(g, low) >= Growth!Nines[1] * g[e]
        <4>1. 1 \in Nat \ {0} /\ \A r \in low : Growth!Levels(e, r, C) <= 1
          BY <3>1
        <4> QED
          BY <2>1, <4>1 DEF MadeUpFor
      <3>4. Total(g, low) = 0
        <4> HIDE DEF low
        <4> QED
          BY <3>2, TotalNone
      <3>5. Growth!Tens[1] = 10 /\ Growth!Nines[1] = 9
        <4>1. /\ Growth!Tens[0] = 1 /\ Growth!Nines[0] = 1
              /\ Growth!Tens[0 + 1] = 10 * Growth!Tens[0]
              /\ Growth!Nines[0 + 1] = 9 * Growth!Nines[0]
          BY TensAndNines
        <4> QED
          BY <4>1
      <3> HIDE DEF low
      <3> QED
        BY <1>2, <3>3, <3>4, <3>5
    <2>4. \A r \in low : Growth!Levels(e, r, C) <= m
      BY <2>2
    <2>5. Growth!Tens[m] * Total(g, low) >= Growth!Nines[m] * g[e]
      BY <2>1, <2>3, <2>4 DEF MadeUpFor
    <2> HIDE DEF low
    <2> QED
      BY <2>1, <2>5 DEF its
  <1> QED
    BY <1>5, <1>6

\* Where its children make up for themselves, so does a candidate.
LEMMA ParentMadeUpFor ==
  ASSUME NEW g \in [Dirs -> Int], NEW d \in Handed(g),
         \A e \in Handed(g) : d \in Above[e] => MadeUpFor(g, e)
  PROVE  MadeUpFor(g, d)
  <1> DEFINE C == Growth!Candidates(g)
             R == Growth!Rows(g)
             K == Growth!Kids(d, C)
             low == R \cap Growth!Below(d)
             P == [e \in K |-> R \cap ({e} \cup Growth!Below(e))]
  <1> SUFFICES ASSUME NEW n \in Nat \ {0}, \A r \in low : Growth!Levels(d, r, C) <= n
               PROVE  Growth!Tens[n] * Total(g, low) >= Growth!Nines[n] * g[d]
    BY DEF MadeUpFor
  <1>1. C \in SUBSET Dirs /\ R \subseteq C /\ d \in C
    BY RowsAreCandidates
  <1>2. \A x \in C : g[x] \in Nat \ {0}
    BY CandidatesGrew
  <1>3. /\ K \subseteq C /\ \A e \in K : d \in Above[e]
        /\ 100 * Total(g, K) >= 90 * g[d]
        /\ \A e \in K : e \in R \/ e \in Handed(g)
        /\ \A e, f \in K : \A x \in Dirs :
              (x = e \/ e \in Above[x]) /\ (x = f \/ f \in Above[x]) => e = f
    <2> HIDE DEF C, K
    <2> QED
      BY KidsTakeOver DEF C, K
  <1>4. \A e, x : x \in Growth!Below(e) <=> x \in Dirs /\ e \in Above[x]
    BY DEF Growth!Below, Growth!Ancestors
  <1> DEFINE m == n - 1
  <1>5. m \in Nat /\ n = m + 1
    OBVIOUS
  <1> HIDE DEF m
  <1>6. ASSUME NEW e \in K PROVE Growth!Tens[m] * Total(g, P[e]) >= Growth!Nines[m] * g[e]
    <2>1. /\ e \in Dirs /\ d \in Above[e]
          /\ e \in R \/ (e \in Handed(g) /\ MadeUpFor(g, e))
      BY <1>1, <1>3
    <2>2. \A r \in R \cap Growth!Below(d) : Growth!Levels(d, r, C) <= m + 1
      BY <1>5
    <2>3. Growth!Tens[m] * Total(g, R \cap ({e} \cup Growth!Below(e))) >= Growth!Nines[m] * g[e]
      BY <1>5, <2>1, <2>2, ChildCarries
    <2>4. P[e] = R \cap ({e} \cup Growth!Below(e))
      OBVIOUS
    <2> HIDE DEF P
    <2> QED
      BY <2>3, <2>4
  <1>7. \A e \in K : P[e] \subseteq low
    BY <1>1, <1>3, <1>4, TreeFacts
  <1>8. \A e, f \in K : e # f => P[e] \cap P[f] = {}
    BY <1>1, <1>3, <1>4
  <1> HIDE DEF P
  <1>9. IsFiniteSet(low) /\ IsFiniteSet(K) /\ low \subseteq C
    BY <1>1, <1>3, TreeFacts, FS_Subset
  <1>10. (\A x \in low : g[x] \in Nat) /\ (\A e \in K : g[e] \in Nat) /\ g[d] \in Nat
    BY <1>1, <1>2, <1>3, <1>9
  <1>11. Growth!Tens[m] \in Nat /\ Growth!Nines[m] \in Nat
         /\ Growth!Tens[n] = 10 * Growth!Tens[m] /\ Growth!Nines[n] = 9 * Growth!Nines[m]
    BY <1>5, TensAndNines
  <1> HIDE DEF low, K, C, R
  <1>12. Growth!Tens[m] * Total(g, low) >= Growth!Nines[m] * Total(g, K)
    BY <1>6, <1>7, <1>8, <1>9, <1>10, <1>11, TogetherCarried
  <1>13. Total(g, low) \in Nat /\ Total(g, K) \in Nat
    BY <1>9, <1>10, TotalNat
  <1> DEFINE t == Growth!Tens[m]
             u == Growth!Nines[m]
             a == Total(g, low)
             b == Total(g, K)
             x == g[d]
  <1>14. (10 * t) * a >= (9 * u) * x
    <2>1. t \in Nat /\ u \in Nat /\ a \in Nat /\ b \in Nat /\ x \in Nat
          /\ t * a >= u * b /\ 100 * b >= 90 * x
      BY <1>3, <1>10, <1>11, <1>12, <1>13
    <2> HIDE DEF t, u, a, b, x
    <2>2. PICK r \in Nat : 10 * b = 9 * x + r
      <3>1. 10 * b - 9 * x \in Nat /\ 10 * b = 9 * x + (10 * b - 9 * x)
        BY <2>1
      <3> QED
        BY <3>1
    <2>3. u * (10 * b) = u * (9 * x) + u * r /\ u * r \in Nat
      BY <2>1, <2>2
    <2>4. u * (10 * b) = 10 * (u * b) /\ u * (9 * x) = (9 * u) * x /\ (10 * t) * a = 10 * (t * a)
      BY <2>1
    <2>5. u * b \in Nat /\ t * a \in Nat /\ (9 * u) * x \in Nat
      BY <2>1
    <2> QED
      BY <2>1, <2>3, <2>4, <2>5
  <1> QED
    BY <1>11, <1>14

LEMMA HandedOnAreMadeUpFor ==
  ASSUME NEW g \in [Dirs -> Int] PROVE \A d \in Handed(g) : MadeUpFor(g, d)
  <1> DEFINE bad == {d \in Handed(g) : ~MadeUpFor(g, d)}
             last == Max(bad)
  <1> SUFFICES ASSUME bad # {} PROVE FALSE
    OBVIOUS
  <1>1. Handed(g) \subseteq Dirs
    BY DEF Handed, Growth!Candidates
  <1>2. last \in bad /\ \A d \in bad : d <= last
    <2>1. bad \in SUBSET Int /\ IsFiniteSet(bad)
      BY <1>1, TreeFacts, FS_Subset
    <2> HIDE DEF bad
    <2> QED
      BY <2>1, Extremes
  <1> HIDE DEF last
  <1>3. ASSUME NEW e \in Handed(g), last \in Above[e] PROVE MadeUpFor(g, e)
    <2>1. last < e /\ last \in Int /\ e \in Int
      BY <1>1, <1>2, <1>3, TreeFacts
    <2> QED
      BY <1>2, <2>1
  <1>4. MadeUpFor(g, last)
    BY <1>2, <1>3, ParentMadeUpFor
  <1> QED
    BY <1>2, <1>4

\* What a walk left of a day, and what is told of two of them.
Snaps == [at : Nat, dirs : [Dirs -> Nat]]
IsReport(r) ==
    r # None =>
        /\ r.grew \in [Dirs -> Int]
        /\ r.rows = Growth!Truncated(Growth!Rows(r.grew), r.grew)

GrowthKept ==
    /\ time \in Nat
    /\ files \in [Growth!Days -> Snaps \cup {None, Torn}]
    /\ IsReport(growth)

LEMMA DaysAreFew == Growth!Days \in SUBSET Int /\ IsFiniteSet(Growth!Days)
  <1>1. Growth!Day(GrowthHorizon) \in Int
    BY FiguresAssumption DEF Growth!Day
  <1> QED
    BY <1>1, FS_Interval DEF Growth!Days

LEMMA NewestOf ==
  ASSUME NEW S \in SUBSET Growth!Days, S # {}
  PROVE  Growth!Newest(S) \in S /\ Growth!Oldest(S) \in S
  <1>1. S \in SUBSET Int /\ IsFiniteSet(S)
    BY DaysAreFew, FS_Subset
  <1>2. /\ Max(S) \in S /\ \A n \in S : n <= Max(S)
        /\ Min(S) \in S /\ \A n \in S : Min(S) <= n
    BY <1>1, Extremes
  <1>3. \A n \in S : n \in Int
    BY <1>1
  <1>4. (\E d \in S : \A e \in S : e <= d) /\ (\E d \in S : \A e \in S : e >= d)
    BY <1>2, <1>3
  <1> QED
    BY <1>4 DEF Growth!Newest, Growth!Oldest

LEMMA ReportsAre ==
  ASSUME NEW f \in [Growth!Days -> Snaps \cup {None, Torn}]
  PROVE  IsReport(Growth!Report(f))
  <1> DEFINE r == Growth!Report(f)
             days == {d \in Growth!Days : f[d] # None}
             last == f[Growth!Newest(days)]
             base == Growth!Baseline(f, last.at)
  <1> SUFFICES ASSUME r # None PROVE r.grew \in [Dirs -> Int] /\ r.rows = Growth!Truncated(Growth!Rows(r.grew), r.grew)
    BY DEF IsReport
  <1>1. days # {} /\ last # Torn /\ base # None
        /\ r = [over |-> last.at - base.at, grew |-> Growth!Grew(last, base),
                rows |-> Growth!Truncated(Growth!Rows(Growth!Grew(last, base)),
                                          Growth!Grew(last, base))]
    BY DEF Growth!Report
  <1> HIDE DEF r
  <1>2. last \in Snaps
    <2>1. Growth!Newest(days) \in days
      <3> HIDE DEF days
      <3>1. days \in SUBSET Growth!Days
        BY DEF days
      <3> QED
        BY <1>1, <3>1, NewestOf
    <2> QED
      BY <1>1, <2>1
  <1> HIDE DEF last
  <1>3. base \in Snaps
    <2> DEFINE before == {d \in Growth!Days : f[d] # None /\ d < Growth!Day(last.at)}
               weeks == {d \in before : d <= Growth!Day(last.at) - Week}
               pick == IF weeks # {} THEN Growth!Newest(weeks) ELSE Growth!Oldest(before)
    <2>1. before # {} /\ f[pick] # Torn /\ base = f[pick]
      BY <1>1, Zenon DEF Growth!Baseline
    <2>2. pick \in before
      <3>1. before \in SUBSET Growth!Days /\ weeks \in SUBSET Growth!Days /\ weeks \subseteq before
        OBVIOUS
      <3> HIDE DEF before, weeks
      <3> QED
        BY <2>1, <3>1, NewestOf
    <2> QED
      BY <2>1, <2>2
  <1> HIDE DEF base
  <1>4. Growth!Grew(last, base) \in [Dirs -> Int]
    <2>1. \A d \in Dirs : last.dirs[d] - base.dirs[d] \in Int
      BY <1>2, <1>3 DEF Snaps
    <2> QED
      BY <2>1 DEF Growth!Grew
  <1>5. r.grew = Growth!Grew(last, base) /\ r.rows = Growth!Truncated(Growth!Rows(r.grew), r.grew)
    BY <1>1
  <1> QED
    BY <1>4, <1>5

LEMMA GrowthStarts == Growth!Init => GrowthKept
  BY DEF Growth!Init, GrowthKept, IsReport

LEMMA GrowthGoesOn ==
  ASSUME GrowthKept, [Growth!Next]_grown
  PROVE  GrowthKept'
  <1> DEFINE Papers == [Growth!Days -> Snaps \cup {None, Torn}]
  <1>1. time \in Nat /\ files \in Papers
    BY DEF GrowthKept
  <1>2. CASE UNCHANGED grown
    BY <1>2 DEF GrowthKept, grown
  <1>3. ASSUME NEW own \in Finds, Growth!Recorded(own), UNCHANGED time PROVE files' \in Papers
    <2>1. Growth!Snapshot(own) \in Snaps
      <3>1. own \in [Dirs -> Nat]
        BY FiguresAssumption
      <3>2. ASSUME NEW d \in Dirs PROVE Growth!Totals(own)[d] \in Nat
        <4> DEFINE S == {d} \cup Growth!Below(d)
        <4>1. S \subseteq Dirs
          BY DEF Growth!Below
        <4>2. Growth!Totals(own)[d] = Total(own, S)
          BY SumIsTotal DEF Growth!Totals
        <4> HIDE DEF S
        <4>3. IsFiniteSet(S) /\ \A x \in S : own[x] \in Nat
          BY <3>1, <4>1, TreeFacts, FS_Subset
        <4> QED
          BY <4>2, <4>3, TotalNat
      <3> QED
        BY <1>1, <3>2 DEF Growth!Snapshot, Snaps
    <2>2. CASE files' = Growth!Swept([files EXCEPT ![Growth!Day(time)] = Growth!Snapshot(own)])
      <3> DEFINE g == [files EXCEPT ![Growth!Day(time)] = Growth!Snapshot(own)]
      <3>1. g \in Papers
        BY <1>1, <2>1
      <3> HIDE DEF g
      <3>2. files' = Growth!Swept(g)
        BY <2>2 DEF g
      <3> QED
        BY <3>1, <3>2 DEF Growth!Swept
    <2>3. CASE UNCHANGED files
      BY <1>1, <2>3
    <2> QED
      BY <1>3, <2>2, <2>3 DEF Growth!Recorded
  <1>4. CASE \E check \in BOOLEAN : Growth!WalkLands(check)
    <2>1. time' = time /\ growth' = Growth!Report(files') /\ \E own \in Finds : Growth!Recorded(own)
      BY <1>4 DEF Growth!WalkLands
    <2>2. files' \in Papers
      BY <1>3, <2>1
    <2>3. IsReport(growth')
      BY <2>1, <2>2, ReportsAre
    <2> QED
      BY <1>1, <2>1, <2>2, <2>3 DEF GrowthKept
  <1>5. CASE Growth!DieWriting
    <2>1. time' = time /\ growth' = Growth!Report(files') /\ files' \in Papers
      BY <1>1, <1>5 DEF Growth!DieWriting
    <2>2. IsReport(growth')
      BY <2>1, ReportsAre
    <2> QED
      BY <1>1, <2>1, <2>2 DEF GrowthKept
  <1>6. CASE Growth!Restart
    <2>1. UNCHANGED <<time, files>> /\ growth' = Growth!Report(files)
      BY <1>6 DEF Growth!Restart
    <2>2. IsReport(growth')
      BY <1>1, <2>1, ReportsAre
    <2> QED
      BY <1>1, <2>1, <2>2 DEF GrowthKept
  <1>7. CASE Growth!Pass
    BY <1>7 DEF Growth!Pass, GrowthKept
  <1> QED
    BY <1>2, <1>4, <1>5, <1>6, <1>7 DEF Growth!Next

LEMMA GrowthHolds == ASSUME GrowthKept PROVE Growth!RowsAreApart
  <1> SUFFICES ASSUME growth # None PROVE Growth!RowsAreApart
    BY DEF Growth!RowsAreApart
  <1> DEFINE g == growth.grew
             C == Growth!Candidates(g)
             all == Growth!Rows(g)
             shown == growth.rows
  <1>1. g \in [Dirs -> Int] /\ shown = Growth!Truncated(all, g)
    BY DEF GrowthKept, IsReport
  <1>2. shown \subseteq all /\ all \subseteq Dirs /\ C \subseteq Dirs /\ Handed(g) \subseteq C
    BY <1>1, RowsAreCandidates DEF Growth!Truncated
  <1>3. \A r \in shown : Above[r] \cap shown = {}
    BY <1>2, RowsLieApart
  <1>4. \A S : Growth!Cardinality(S) = Cardinality(S)
    BY DEF Growth!Cardinality, Cardinality
  <1>5. ASSUME ~(Cardinality(shown) >= MaxRows), NEW d \in C PROVE Growth!Accounted(d, growth)
    <2> HIDE DEF g, C, all
    <2>1. shown = all
      <3>1. Cardinality(shown) \in Nat /\ MaxRows \in Nat
        BY <1>2, TreeFacts, FS_Subset, FS_CardinalityType
      <3>2. Cardinality(Growth!Truncated(all, g)) < MaxRows
        BY <1>1, <1>5, <3>1
      <3> QED
        BY <1>1, <1>2, <3>2, AllRowsShow
    <2>2. d \in Handed(g) \/ \E r \in all : r = d \/ r \in Above[d]
      BY EveryCandidate DEF C, all
    <2>3. CASE \E r \in all : r = d \/ r \in Above[d]
      BY <2>1, <2>3 DEF Growth!Accounted, Growth!Ancestors
    <2>4. CASE d \in Handed(g)
      <3> DEFINE low == shown \cap Growth!Below(d)
      <3>1. MadeUpFor(g, d)
        BY <1>1, <2>4, HandedOnAreMadeUpFor
      <3>2. ASSUME NEW n \in 1..Growth!Cardinality(Dirs),
                   \A r \in low : Growth!Levels(d, r, C) <= n
            PROVE  Growth!Tens[n] * Growth!Sum(g, low) >= Growth!Nines[n] * g[d]
        <4>1. n \in Nat \ {0}
          OBVIOUS
        <4>2. Growth!Sum(g, low) = Total(g, low)
          BY SumIsTotal
        <4>3. low = Growth!Rows(g) \cap Growth!Below(d)
          BY <2>1 DEF all
        <4>4. Growth!Tens[n] * Total(g, low) >= Growth!Nines[n] * g[d]
          BY <3>1, <3>2, <4>1, <4>3 DEF MadeUpFor, C
        <4> QED
          BY <4>2, <4>4
      <3> QED
        BY <3>2 DEF Growth!Accounted, g, C
    <2> QED
      BY <2>2, <2>3, <2>4
  <1> QED
    BY <1>3, <1>4, <1>5 DEF Growth!RowsAreApart, Growth!Ancestors

\* For any tree of directories and any walks: no row of a report lies in another, and
\* where the list is not full nothing that grew past the floor goes unsaid.
THEOREM RowsAreAlwaysApart == PartsSpec => []RowsAreApart
  <1> DEFINE Lasts == part = "growth" => GrowthKept
  <1>1. PartsInit => Lasts
    BY GrowthStarts DEF PartsInit
  <1>2. Lasts /\ [PartsNext]_allVars => Lasts'
    BY PartSteps, GrowthGoesOn
  <1>3. Lasts => RowsAreApart
    BY GrowthHolds DEF RowsAreApart
  <1> QED
    BY <1>1, <1>2, <1>3, PTL DEF PartsSpec

----------------------------------------------------------------------------
(* What is freed (Dupes): the sums over a disk that nobody else changes.      *)

\* The walk meets every entry of the scope, and a clone has one name.
PlainDisks ==
    /\ \A e \in Entries : \E p \in Paths : Shows[p] = e
    /\ \A w \in Worlds : \A f, g \in DOMAIN w.file :
          f # g /\ w.file[f].store = w.file[g].store =>
              /\ f \notin w.outside
              /\ \A d, e \in Entries : w.entry[d] = f /\ w.entry[e] = f => d = e

StoreOf(f) == file[f].store
Stores == {file[f].store : f \in DOMAIN file}
Named(f) == \E e \in Entries : entry[e] = f
Unheld == {s \in Stores : ~Held(s)}

DiskPlain ==
    /\ IsFiniteSet(DOMAIN file) /\ outside \subseteq DOMAIN file /\ Gone \notin DOMAIN file
    /\ \A f, g \in DOMAIN file :
          f # g /\ StoreOf(f) = StoreOf(g) =>
              /\ f \notin outside /\ file[f].data = file[g].data
              /\ \A d, e \in Entries : entry[d] = f /\ entry[e] = f => d = e

\* A candidate is what the walk would see of it now.
CandTrue(p) ==
    /\ There(p) /\ cand[p].time = file[At(p)].time
    /\ cand[p].bytes = Bytes[StoreOf(At(p))] /\ cand[p].linked = Linked(At(p))
    /\ cand[p].whole # Unread => cand[p].len > HeadBytes

\* The clones of a candidate are candidates.
MatesListed ==
    \A p \in DOMAIN cand : \A x \in DOMAIN file :
        Named(x) /\ StoreOf(x) = StoreOf(At(p)) => \E q \in DOMAIN cand : At(q) = x

SearchTrue ==
    /\ phase \in {"off", "walk", "heads", "whole", "ready"}
    /\ phase \in {"off", "ready"} => DOMAIN cand = {}
    /\ \A p \in DOMAIN cand : CandTrue(p)
    /\ phase = "walk" =>
          \A p \in Paths \ todo : There(p) => \E q \in DOMAIN cand : At(q) = At(p)
    /\ phase \in {"heads", "whole"} => MatesListed
    /\ phase = "whole" => \A p \in todo \cap DOMAIN cand : cand[p].len > HeadBytes

\* The storages of some files, and those of them that cannot be freed.
StoresIn(some) == {f.store : f \in some}
PinnedIn(some) == {f.store : f \in {h \in some : h.linked}}
LooseIn(some) == StoresIn(some) \ PinnedIn(some)
Offer(some) ==
    IF PinnedIn(some) # {} THEN Total(Bytes, LooseIn(some))
    ELSE Total(Bytes, LooseIn(some)) - Max({Bytes[s] : s \in StoresIn(some)})

\* A group is its files as they are, with all their clones.
FilesTrue(some) ==
    /\ IsFiniteSet(some)
    /\ \A f \in some :
          /\ f.path \in Paths /\ There(f.path) /\ f.store = StoreOf(At(f.path))
          /\ f.bytes = Bytes[f.store] /\ f.linked = Linked(At(f.path))
    /\ \A f \in some : \A x \in DOMAIN file :
          Named(x) /\ StoreOf(x) = f.store => \E h \in some : At(h.path) = x
GroupTrue(g) ==
    /\ g.files # {} /\ FilesTrue(g.files)
    /\ \A f \in g.files : f.shares = \E h \in g.files : h # f /\ h.store = f.store
    /\ g.reclaimable = Offer(g.files)
GroupsTrue ==
    /\ \A g \in groups : GroupTrue(g)
    /\ \A g, h \in groups : \A f \in g.files, k \in h.files : At(f.path) = At(k.path) => g = h

Quiet ==
    edits = 0 => DiskPlain /\ SearchTrue /\ GroupsTrue /\ freed = Total(Bytes, Unheld)

----------------------------------------------------------------------------
(* The sums.                                                                  *)

\* The sum over storages is one over a function.
LEMMA BytesSum ==
  ASSUME NEW S, IsFiniteSet(S)
  PROVE  MapThenSumSet(LAMBDA s : Bytes[s], S) = Total(Bytes, S)
  <1> DEFINE f == [s \in S |-> Bytes[s]]
             Runs(it) == it = [t \in SUBSET S |-> IF t = {} THEN 0
                                  ELSE Bytes[CHOOSE x \in t : TRUE]
                                           + it[t \ {CHOOSE x \in t : TRUE}]]
             sum == CHOOSE it : Runs(it)
  <1>1. MapThenSumSet(LAMBDA s : Bytes[s], S) = sum[S]
    BY DEF MapThenSumSet, MapThenFoldSet
  <1>2. \A it : Runs(it) <=> Tally(it, Bytes, S)
    BY DEF Tally, First
  <1>3. Tally(sum, Bytes, S)
    <2> HIDE DEF Runs
    <2>1. \E it : Runs(it)
      BY <1>2, TallyExists
    <2>2. Runs(sum)
      BY <2>1
    <2> QED
      BY <2>2, <1>2
  <1> HIDE DEF sum, Runs
  <1> QED
    BY <1>1, <1>3, TotalIs

LEMMA SizesSum ==
  ASSUME NEW some, NEW S, IsFiniteSet(S)
  PROVE  MapThenSumSet(LAMBDA s : Max({f.bytes : f \in {g \in some : g.store = s}}), S)
             = Total([s \in S |-> Max({f.bytes : f \in {g \in some : g.store = s}})], S)
  <1> DEFINE size(s) == Max({f.bytes : f \in {g \in some : g.store = s}})
             f == [s \in S |-> size(s)]
             Runs(it) == it = [t \in SUBSET S |-> IF t = {} THEN 0
                                  ELSE size(CHOOSE x \in t : TRUE)
                                           + it[t \ {CHOOSE x \in t : TRUE}]]
             sum == CHOOSE it : Runs(it)
  <1>1. MapThenSumSet(LAMBDA s : Max({h.bytes : h \in {g \in some : g.store = s}}), S) = sum[S]
    BY DEF MapThenSumSet, MapThenFoldSet
  <1> HIDE DEF size
  <1>2. \A t \in SUBSET S : t # {} => f[First(t)] = size(First(t))
    BY FirstIn
  <1>3. \A it : Runs(it) <=> Tally(it, f, S)
    <2> HIDE DEF f
    <2> QED
      BY <1>2 DEF Tally, First
  <1>4. Tally(sum, f, S)
    <2> HIDE DEF f, Runs
    <2>1. \E it : Runs(it)
      BY <1>3, TallyExists
    <2>2. Runs(sum)
      BY <2>1
    <2> QED
      BY <2>2, <1>3
  <1> HIDE DEF f, sum, Runs
  <1>5. Total(f, S) = sum[S]
    BY <1>4, TotalIs
  <1> QED
    BY <1>1, <1>5 DEF f, size

LEMMA StoresAreFew ==
  ASSUME NEW some, IsFiniteSet(some)
  PROVE  /\ IsFiniteSet(StoresIn(some)) /\ IsFiniteSet(LooseIn(some))
         /\ LooseIn(some) \subseteq StoresIn(some) /\ PinnedIn(some) \subseteq StoresIn(some)
  <1> DEFINE f == [h \in some |-> h.store]
  <1>1. StoresIn(some) = {f[h] : h \in some}
    BY DEF StoresIn
  <1> HIDE DEF f
  <1>2. IsFiniteSet(StoresIn(some))
    BY <1>1, ImageIsFinite
  <1>3. LooseIn(some) \subseteq StoresIn(some) /\ PinnedIn(some) \subseteq StoresIn(some)
    BY DEF LooseIn, PinnedIn, StoresIn
  <1> QED
    BY <1>2, <1>3, FS_Subset

\* settle: what can be freed is the storages that nothing pins, less the greatest when
\* one has to be kept.
LEMMA ReclaimableIs ==
  ASSUME NEW some, IsFiniteSet(some), some # {},
         \A f \in some : f.bytes = Bytes[f.store] /\ f.store \in DOMAIN Bytes
  PROVE  Reclaimable(some) = Offer(some)
  <1> DEFINE stores == {f.store : f \in some}
             size(s) == Max({f.bytes : f \in {g \in some : g.store = s}})
             pinned(s) == \E f \in some : f.store = s /\ f.linked
             loose == {s \in stores : ~pinned(s)}
             free == MapThenSumSet(LAMBDA s : Max({f.bytes : f \in {g \in some : g.store = s}}), loose)
  <1>1. Reclaimable(some) = IF \E s \in stores : pinned(s) THEN free
                            ELSE free - Max({size(s) : s \in stores})
    BY DEF Reclaimable, Sum
  <1>2. ASSUME NEW s \in stores PROVE size(s) = Bytes[s]
    <2> DEFINE some1 == {f.bytes : f \in {g \in some : g.store = s}}
    <2>1. some1 = {Bytes[s]} /\ Bytes[s] \in Int
      BY DisksAreFinite
    <2> HIDE DEF some1
    <2>2. some1 \in SUBSET Int /\ Bytes[s] \in some1 /\ \A n \in some1 : n <= Bytes[s]
      BY <2>1
    <2>3. Max(some1) = Bytes[s]
      BY <2>2, ExtremesAre
    <2> QED
      BY <2>3 DEF some1
  <1>3. loose = LooseIn(some) /\ stores = StoresIn(some)
        /\ ((\E s \in stores : pinned(s)) <=> PinnedIn(some) # {})
    BY DEF LooseIn, StoresIn, PinnedIn
  <1>4. free = Total(Bytes, LooseIn(some))
    <2> DEFINE f == [s \in loose |-> size(s)]
    <2>1. IsFiniteSet(loose)
      <3> HIDE DEF loose
      <3>1. loose = LooseIn(some)
        BY <1>3
      <3> QED
        BY <3>1, StoresAreFew
    <2>2. \A s \in loose : f[s] = Bytes[s]
      BY <1>2
    <2> HIDE DEF loose
    <2>3. free = Total(f, loose)
      BY <2>1, SizesSum
    <2> HIDE DEF f, free, size
    <2>4. Total(f, loose) = Total(Bytes, loose)
      BY <2>1, <2>2, TotalSame
    <2> QED
      BY <1>3, <2>3, <2>4
  <1>5. {size(s) : s \in stores} = {Bytes[s] : s \in StoresIn(some)}
    <2> HIDE DEF size, stores
    <2>1. stores = StoresIn(some) /\ \A s \in stores : size(s) = Bytes[s]
      BY <1>2, <1>3
    <2> QED
      BY <2>1
  <1> HIDE DEF size, pinned, loose, free, stores
  <1> QED
    BY <1>1, <1>3, <1>4, <1>5 DEF Offer

----------------------------------------------------------------------------
(* What a group offers.                                                       *)

LEMMA Standing ==
  ASSUME DiskOK, NEW p \in Paths, There(p)
  PROVE  /\ Shows[p] \in Entries /\ entry[Shows[p]] = At(p)
         /\ At(p) \in DOMAIN file /\ Named(At(p)) /\ file[At(p)] \in Clocked
         /\ StoreOf(At(p)) \in DOMAIN Bytes /\ StoreOf(At(p)) \in Stores
  <1>1. Shows[p] \in Entries /\ entry[Shows[p]] = At(p)
    BY ShowsEntries DEF At
  <1>2. At(p) \in DOMAIN file /\ Named(At(p)) /\ file[At(p)] \in Clocked
    BY <1>1 DEF DiskOK, There, At, Named
  <1> QED
    BY <1>1, <1>2 DEF StoreOf, Stores, Clocked

\* A file whose one name is known is linked by another or by one outside.
LEMMA LinkedIs ==
  ASSUME NEW f, NEW e \in Entries, entry[e] = f
  PROVE  Linked(f) <=> f \in outside \/ \E d \in Entries : d # e /\ entry[d] = f
  <1> DEFINE S == Names(f)
  <1>1. e \in S /\ S \subseteq Entries
    BY DEF Names
  <1>2. IsFiniteSet(S)
    BY <1>1, DisksAreFinite, FS_Subset
  <1>3. (Cardinality(S) > 1) <=> S \ {e} # {}
    <2> HIDE DEF S
    <2>1. IsFiniteSet(S \ {e}) /\ Cardinality(S \ {e}) = Cardinality(S) - 1
      BY <1>1, <1>2, FS_RemoveElement
    <2>2. Cardinality(S) \in Nat /\ Cardinality(S \ {e}) \in Nat
          /\ (Cardinality(S \ {e}) = 0 <=> S \ {e} = {})
      BY <1>2, <2>1, FS_CardinalityType, FS_EmptySet
    <2> QED
      BY <2>1, <2>2
  <1>4. S \ {e} # {} <=> \E d \in Entries : d # e /\ entry[d] = f
    BY DEF Names
  <1> QED
    BY <1>3, <1>4 DEF Linked

\* The copies of a group are files of their own.
LEMMA CopiesStand ==
  ASSUME DiskOK, NEW g, Grouped(g), FilesTrue(g.files)
  PROVE  /\ \A f \in g.files :
               /\ f.path \in Paths /\ There(f.path)
               /\ Shows[f.path] \in Entries /\ entry[Shows[f.path]] = At(f.path)
               /\ At(f.path) \in DOMAIN file /\ Named(At(f.path))
               /\ f.store = StoreOf(At(f.path)) /\ f.store \in Stores /\ f.store \in DOMAIN Bytes
               /\ f.bytes = Bytes[f.store]
               /\ f.linked <=> \/ At(f.path) \in outside
                               \/ \E d \in Entries : d # Shows[f.path] /\ entry[d] = At(f.path)
         /\ \A f, h \in g.files : At(f.path) = At(h.path) => f = h
  <1>1. ASSUME NEW f \in g.files
        PROVE  /\ f.path \in Paths /\ There(f.path)
               /\ Shows[f.path] \in Entries /\ entry[Shows[f.path]] = At(f.path)
               /\ At(f.path) \in DOMAIN file /\ Named(At(f.path))
               /\ f.store = StoreOf(At(f.path)) /\ f.store \in Stores /\ f.store \in DOMAIN Bytes
               /\ f.bytes = Bytes[f.store]
               /\ f.linked <=> \/ At(f.path) \in outside
                               \/ \E d \in Entries : d # Shows[f.path] /\ entry[d] = At(f.path)
    <2>1. /\ f.path \in Paths /\ There(f.path) /\ f.store = StoreOf(At(f.path))
          /\ f.bytes = Bytes[f.store] /\ f.linked = Linked(At(f.path))
      BY DEF FilesTrue
    <2>2. /\ Shows[f.path] \in Entries /\ entry[Shows[f.path]] = At(f.path)
          /\ At(f.path) \in DOMAIN file /\ Named(At(f.path))
          /\ StoreOf(At(f.path)) \in DOMAIN Bytes /\ StoreOf(At(f.path)) \in Stores
      BY <2>1, Standing
    <2>3. f.linked <=> \/ At(f.path) \in outside
                       \/ \E d \in Entries : d # Shows[f.path] /\ entry[d] = At(f.path)
      BY <2>1, <2>2, LinkedIs
    <2> QED
      BY <2>1, <2>2, <2>3
  <1>2. ASSUME NEW f \in g.files, NEW h \in g.files, At(f.path) = At(h.path) PROVE f = h
    <2>1. There(f.path) /\ There(h.path)
      BY <1>1
    <2> QED
      BY <1>2, <2>1 DEF Grouped, Copies
  <1> QED
    BY <1>1, <1>2

LEMMA GivenBackIs ==
  ASSUME DiskOK, DiskPlain, NEW g, Grouped(g), FilesTrue(g.files), NEW k \in g.files
  PROVE  GivenBack(g, k) = Total(Bytes, LooseIn(g.files) \ {k.store})
  <1> DEFINE some == g.files
             going == {Shows[f.path] : f \in some \ {k}}
             freed1(s) == /\ Held(s)
                          /\ \A f \in DOMAIN file :
                                file[f].store = s => f \notin outside /\ Names(f) \subseteq going
             given == {s \in Stores : freed1(s)}
  <1>1. GivenBack(g, k) = MapThenSumSet(LAMBDA s : Bytes[s], given)
    BY DEF GivenBack, Sum, Stores
  <1>2. /\ \A f \in some :
              /\ Shows[f.path] \in Entries /\ entry[Shows[f.path]] = At(f.path)
              /\ At(f.path) \in DOMAIN file /\ Named(At(f.path))
              /\ f.store = StoreOf(At(f.path)) /\ f.store \in Stores
              /\ f.linked <=> \/ At(f.path) \in outside
                              \/ \E d \in Entries : d # Shows[f.path] /\ entry[d] = At(f.path)
        /\ \A f, h \in some : At(f.path) = At(h.path) => f = h
    BY CopiesStand
  <1>3. \A f \in some : \A x \in DOMAIN file :
            Named(x) /\ StoreOf(x) = f.store => \E h \in some : At(h.path) = x
    BY DEF FilesTrue
  <1>4. \A e : e \in going <=> \E f \in some : f # k /\ e = Shows[f.path]
    OBVIOUS
  <1>5. \A e, x : e \in Names(x) <=> e \in Entries /\ entry[e] = x
    BY DEF Names
  <1> HIDE DEF going, some
  <1>6. ASSUME NEW s \in given PROVE s \in LooseIn(some) /\ s # k.store
    <2>1. Held(s) /\ \A x \in DOMAIN file :
                        StoreOf(x) = s => x \notin outside /\ Names(x) \subseteq going
      BY DEF StoreOf
    <2>2. PICK x \in DOMAIN file : StoreOf(x) = s /\ (x \in outside \/ Names(x) # {})
      BY <2>1 DEF Held, StoreOf
    <2>3. PICK e \in Names(x) : e \in going
      BY <2>1, <2>2
    <2>4. PICK f \in some : f # k /\ e = Shows[f.path]
      BY <1>4, <2>3
    <2>5. At(f.path) = x /\ f.store = s
      BY <1>2, <1>5, <2>2, <2>3, <2>4
    <2>6. ASSUME NEW h \in some, h.store = s, h.linked PROVE FALSE
      <3>1. PICK d \in Entries : d # Shows[h.path] /\ entry[d] = At(h.path)
        BY <1>2, <2>1, <2>6
      <3>2. d \in going
        BY <1>2, <1>5, <2>1, <2>6, <3>1
      <3>3. PICK j \in some : d = Shows[j.path]
        BY <1>4, <3>2
      <3>4. j = h
        BY <1>2, <3>1, <3>3
      <3> QED
        BY <3>1, <3>3, <3>4
    <2>7. k.store # s
      <3> SUFFICES ASSUME k.store = s PROVE FALSE
        OBVIOUS
      <3>1. k \in some
        BY DEF some
      <3>2. Shows[k.path] \in Names(At(k.path)) /\ StoreOf(At(k.path)) = s
            /\ At(k.path) \in DOMAIN file
        BY <1>2, <1>5, <3>1
      <3>3. Shows[k.path] \in going
        BY <2>1, <3>2
      <3>4. PICK j \in some : j # k /\ Shows[k.path] = Shows[j.path]
        BY <1>4, <3>3
      <3> QED
        BY <1>2, <3>1, <3>4
    <2> QED
      BY <2>5, <2>6, <2>7 DEF LooseIn, StoresIn, PinnedIn
  <1>7. ASSUME NEW s \in LooseIn(some), s # k.store PROVE s \in given
    <2>1. PICK f \in some : f.store = s
      BY DEF LooseIn, StoresIn
    <2>2. \A h \in some : h.store = s => ~h.linked
      BY DEF LooseIn, PinnedIn
    <2>3. Held(s)
      <3>1. At(f.path) \in DOMAIN file /\ file[At(f.path)].store = s
            /\ Shows[f.path] \in Names(At(f.path))
        BY <1>2, <1>5, <2>1 DEF StoreOf
      <3> QED
        BY <3>1 DEF Held
    <2>4. ASSUME NEW x \in DOMAIN file, StoreOf(x) = s
          PROVE  x \notin outside /\ Names(x) \subseteq going
      <3>1. CASE Named(x)
        <4>1. PICK h \in some : At(h.path) = x
          BY <1>3, <2>1, <2>4, <3>1
        <4>2. h.store = s /\ ~h.linked /\ h # k
          BY <1>2, <1>7, <2>2, <2>4, <4>1
        <4>3. x \notin outside /\ \A d \in Entries : entry[d] = x => d = Shows[h.path]
          BY <1>2, <4>1, <4>2
        <4> QED
          BY <1>4, <1>5, <4>2, <4>3
      <3>2. CASE ~Named(x)
        <4>1. Names(x) = {}
          BY <1>5, <3>2 DEF Named
        <4>2. x # At(f.path) /\ At(f.path) \in DOMAIN file /\ StoreOf(At(f.path)) = StoreOf(x)
          BY <1>2, <2>1, <2>4, <3>2
        <4>3. x \notin outside
          BY <4>2 DEF DiskPlain
        <4> QED
          BY <4>1, <4>3
      <3> QED
        BY <3>1, <3>2
    <2>5. s \in Stores
      BY <1>2, <2>1
    <2> QED
      BY <2>3, <2>4, <2>5 DEF StoreOf
  <1> HIDE DEF given
  <1>8. given = LooseIn(some) \ {k.store}
    BY <1>6, <1>7
  <1>9. IsFiniteSet(given)
    BY <1>8, StoresAreFew, FS_Subset DEF FilesTrue, some
  <1>10. MapThenSumSet(LAMBDA s : Bytes[s], given) = Total(Bytes, given)
    BY <1>9, BytesSum
  <1> QED
    BY <1>1, <1>8, <1>10 DEF some

\* A group offers what trashing all of it but one gives back at the least.
LEMMA OfferIsLeast ==
  ASSUME DiskOK, DiskPlain, NEW g, Grouped(g), FilesTrue(g.files), g.files # {}
  PROVE  Offer(g.files) = Min({GivenBack(g, k) : k \in Keepers(g)})
  <1> DEFINE some == g.files
             kept == {f \in some : f.linked}
             all == {GivenBack(g, k) : k \in Keepers(g)}
             S == StoresIn(some)
             L == LooseIn(some)
  <1>1. Keepers(g) = IF kept # {} THEN kept ELSE some
    <2>1. \A f \in some : f.linked = Linked(At(f.path))
      BY DEF FilesTrue
    <2> QED
      BY <2>1 DEF Keepers
  <1>2. \A k \in some : GivenBack(g, k) = Total(Bytes, L \ {k.store})
    BY GivenBackIs
  <1>3. \A f \in some : f.store \in S /\ f.store \in DOMAIN Bytes /\ Bytes[f.store] \in Nat
    BY CopiesStand, DisksAreFinite DEF StoresIn
  <1>4. IsFiniteSet(S) /\ IsFiniteSet(L) /\ L \subseteq S /\ \A s \in S : Bytes[s] \in Nat
    <2>1. \A s \in S : \E f \in some : s = f.store
      BY DEF StoresIn
    <2> HIDE DEF S, L
    <2>2. IsFiniteSet(some)
      BY DEF FilesTrue
    <2> QED
      BY <1>3, <2>1, <2>2, StoresAreFew DEF S, L
  <1>5. PinnedIn(some) # {} <=> kept # {}
    BY DEF PinnedIn
  <1> HIDE DEF L, S
  <1>6. Total(Bytes, L) \in Nat
    BY <1>4, TotalPart
  <1>7. CASE kept # {}
    <2>1. \A k \in kept : L \ {k.store} = L
      BY DEF L, LooseIn, PinnedIn
    <2>2. \A k \in kept : GivenBack(g, k) = Total(Bytes, L)
      BY <1>2, <2>1
    <2>3. all = {Total(Bytes, L)}
      <3> HIDE DEF kept
      <3>1. all = {GivenBack(g, k) : k \in kept}
        BY <1>1, <1>7
      <3> QED
        BY <1>7, <2>2, <3>1
    <2> HIDE DEF all, kept
    <2>4. Min(all) = Total(Bytes, L)
      <3>1. all \in SUBSET Int /\ Total(Bytes, L) \in all /\ \A y \in all : Total(Bytes, L) <= y
        BY <1>6, <2>3
      <3> QED
        BY <3>1, ExtremesAre
    <2> QED
      BY <1>5, <1>7, <2>4 DEF Offer, L, all
  <1>8. CASE kept = {}
    <2> DEFINE B == {Bytes[s] : s \in S}
               most == Max(B)
               T == Total(Bytes, L)
    <2>1. L = S
      BY <1>5, <1>8 DEF L, S, LooseIn
    <2>2. \A k \in some : GivenBack(g, k) = T - Bytes[k.store]
      <3> SUFFICES ASSUME NEW k \in some PROVE GivenBack(g, k) = T - Bytes[k.store]
        OBVIOUS
      <3>1. GivenBack(g, k) = Total(Bytes, L \ {k.store}) /\ k.store \in L /\ Bytes[k.store] \in Nat
        BY <1>2, <1>3, <2>1
      <3>2. \A s \in L : Bytes[s] \in Int
        BY <1>4
      <3>3. T = Bytes[k.store] + Total(Bytes, L \ {k.store}) /\ T \in Int
        BY <1>4, <3>1, <3>2, TotalOf
      <3>4. Total(Bytes, L \ {k.store}) \in Nat
        BY <1>4, TotalPart
      <3> HIDE DEF T
      <3> QED
        BY <3>1, <3>3, <3>4
    <2>3. most \in B /\ \A n \in B : n <= most
      <3>1. B \in SUBSET Int /\ B # {}
        <4>1. S # {}
          BY <1>3
        <4> QED
          BY <1>4, <4>1
      <3>2. IsFiniteSet(B)
        BY <1>4, ImageIsFinite
      <3> HIDE DEF B
      <3> QED
        BY <3>1, <3>2, Extremes
    <2> HIDE DEF most, T
    <2>4. PICK j \in some : Bytes[j.store] = most
      BY <2>3 DEF S, StoresIn
    <2>5. all = {T - Bytes[k.store] : k \in some}
      <3> HIDE DEF some
      <3> QED
        BY <1>1, <1>8, <2>2
    <2>6. T \in Nat /\ most \in Nat /\ \A k \in some : Bytes[k.store] \in Nat /\ Bytes[k.store] <= most
      BY <1>3, <1>6, <2>3, <2>4 DEF T
    <2>7. all \in SUBSET Int
      BY <2>5, <2>6
    <2>8. T - most \in all /\ \A y \in all : T - most <= y
      BY <2>4, <2>5, <2>6
    <2> HIDE DEF all
    <2>9. Min(all) = T - most
      BY <2>7, <2>8, ExtremesAre
    <2> QED
      BY <1>5, <1>8, <2>9 DEF Offer, L, S, all, T, most
  <1> QED
    BY <1>7, <1>8

LEMMA StoresAreFinite == ASSUME DiskPlain PROVE IsFiniteSet(Stores)
  <1> DEFINE f == [x \in DOMAIN file |-> file[x].store]
  <1>1. Stores = {f[x] : x \in DOMAIN file}
    BY DEF Stores
  <1> HIDE DEF f
  <1> QED
    BY <1>1, ImageIsFinite DEF DiskPlain

LEMMA QuietHolds == ASSUME IndInv, Quiet PROVE FreedIsFreed
  <1> SUFFICES ASSUME edits = 0 PROVE FreedIsFreed
    BY DEF FreedIsFreed
  <1>1. DiskPlain /\ GroupsTrue /\ freed = Total(Bytes, Unheld) /\ DiskOK
        /\ \A g \in groups : Grouped(g)
    BY DEF Quiet, IndInv
  <1>2. freed = MapThenSumSet(LAMBDA s : Bytes[s], Unheld)
    <2>1. IsFiniteSet(Unheld)
      BY <1>1, StoresAreFinite, FS_Subset DEF Unheld
    <2> HIDE DEF Unheld
    <2> QED
      BY <1>1, <2>1, BytesSum
  <1>3. ASSUME NEW g \in groups PROVE g.reclaimable = Min({GivenBack(g, k) : k \in Keepers(g)})
    BY <1>1, OfferIsLeast DEF GroupsTrue, GroupTrue
  <1> QED
    BY <1>2, <1>3 DEF FreedIsFreed, Sum, Unheld, Stores

----------------------------------------------------------------------------
(* The search on a disk that nobody else changes.                             *)

LEMMA QuietBegins == ASSUME PlainDisks, Init PROVE Quiet
  <1>1. PICK w \in Worlds : entry = w.entry /\ file = w.file /\ outside = w.outside
    BY DEF Init
  <1>2. entry \in [Entries -> Files] /\ DOMAIN file = {entry[e] : e \in Entries}
        /\ outside \subseteq DOMAIN file
        /\ \A f, g \in DOMAIN file : file[f].store = file[g].store => file[f].data = file[g].data
    BY <1>1, WorldsAreSound DEF Sound
  <1>3. IsFiniteSet(DOMAIN file)
    BY <1>2, ImageIsFinite, DisksAreFinite
  <1>4. \A f, g \in DOMAIN file : f # g /\ file[f].store = file[g].store =>
            f \notin outside /\ \A d, e \in Entries : entry[d] = f /\ entry[e] = f => d = e
    BY <1>1 DEF PlainDisks
  <1>5. DiskPlain
    BY <1>2, <1>3, <1>4, NobodysFile DEF DiskPlain, StoreOf
  <1>6. Unheld = {}
    <2>1. \A f \in DOMAIN file : Names(f) # {}
      BY <1>2 DEF Names
    <2> QED
      BY <2>1 DEF Unheld, Held, Stores
  <1>7. freed = Total(Bytes, Unheld)
    BY <1>6, TotalNone DEF Init
  <1>8. SearchTrue
    BY DEF Init, SearchTrue
  <1>9. GroupsTrue
    BY DEF Init, GroupsTrue
  <1> QED
    BY <1>5, <1>7, <1>8, <1>9 DEF Quiet

\* A step that leaves the disk alone leaves what is said of it.
LEMMA SameDisk ==
  ASSUME UNCHANGED world
  PROVE  /\ DiskPlain' <=> DiskPlain
         /\ Unheld' = Unheld
         /\ \A p : (There(p)' <=> There(p)) /\ At(p)' = At(p)
         /\ \A f : (Named(f)' <=> Named(f)) /\ StoreOf(f)' = StoreOf(f)
                   /\ Linked(f)' = Linked(f)
         /\ \A some : FilesTrue(some)' <=> FilesTrue(some)
         /\ \A g : GroupTrue(g)' <=> GroupTrue(g)
  <1>1. entry' = entry /\ file' = file /\ outside' = outside
    BY DEF world
  <1>2. /\ \A p : (There(p)' <=> There(p)) /\ At(p)' = At(p)
        /\ \A f : (Named(f)' <=> Named(f)) /\ StoreOf(f)' = StoreOf(f)
                  /\ Linked(f)' = Linked(f)
    BY <1>1 DEF There, At, Named, StoreOf, Linked, Names
  <1>3. DiskPlain' <=> DiskPlain
    BY <1>1 DEF DiskPlain, StoreOf
  <1>4. Unheld' = Unheld
    BY <1>1 DEF Unheld, Stores, Held, Names
  <1>5. \A some : FilesTrue(some)' <=> FilesTrue(some)
    BY <1>1, <1>2 DEF FilesTrue
  <1>6. \A g : GroupTrue(g)' <=> GroupTrue(g)
    BY <1>5 DEF GroupTrue
  <1> QED
    BY <1>2, <1>3, <1>4, <1>5, <1>6

\* What a path shows then is what it showed.
LEMMA SameFiles ==
  ASSUME UNCHANGED world
  PROVE  /\ entry' = entry /\ file' = file /\ outside' = outside
         /\ \A p : /\ At(p)' = At(p) /\ (There(p)' <=> There(p))
                  /\ StoreOf(At(p))' = StoreOf(At(p)) /\ Linked(At(p))' = Linked(At(p))
  <1>1. entry' = entry /\ file' = file /\ outside' = outside
    BY DEF world
  <1>2. \A p : At(p)' = At(p) /\ (There(p)' <=> There(p))
    BY <1>1 DEF At, There
  <1>3. \A p : StoreOf(At(p))' = StoreOf(At(p)) /\ Linked(At(p))' = Linked(At(p))
    BY <1>1 DEF At, StoreOf, Linked, Names
  <1> QED
    BY <1>1, <1>2, <1>3

\* A step of the search that finds nothing yet.
LEMMA StillQuiet ==
  ASSUME Quiet, UNCHANGED <<world, freed, edits>>, groups' \in {groups, {}},
         edits = 0 => SearchTrue'
  PROVE  Quiet'
  <1> SUFFICES ASSUME edits = 0
               PROVE  (DiskPlain /\ SearchTrue /\ GroupsTrue /\ freed = Total(Bytes, Unheld))'
    BY DEF Quiet
  <1>1. DiskPlain /\ GroupsTrue /\ freed = Total(Bytes, Unheld)
    BY DEF Quiet
  <1>2. DiskPlain' /\ Unheld' = Unheld
    BY <1>1, SameDisk
  <1>3. GroupsTrue'
    <2>1. \A p : At(p)' = At(p)
      BY SameDisk
    <2>2. \A g : GroupTrue(g)' <=> GroupTrue(g)
      BY SameDisk
    <2>3. \A g \in groups' : g \in groups
      OBVIOUS
    <2> HIDE DEF GroupTrue
    <2> QED
      BY <1>1, <2>1, <2>2, <2>3 DEF GroupsTrue
  <1>4. freed' = Total(Bytes, Unheld')
    BY <1>1, <1>2
  <1> QED
    BY <1>2, <1>3, <1>4

\* Two candidates of one storage have been read alike.
LEMMA Twins ==
  ASSUME IndInv, DiskPlain, NEW p \in DOMAIN cand, NEW q \in DOMAIN cand,
         CandTrue(p), CandTrue(q), StoreOf(At(p)) = StoreOf(At(q))
  PROVE  /\ cand[p].len = cand[q].len
         /\ cand[p].head # Unread /\ cand[q].head # Unread => cand[p].head = cand[q].head
         /\ cand[p].whole # Unread /\ cand[q].whole # Unread => cand[p].whole = cand[q].whole
  <1>1. p \in Paths /\ q \in Paths /\ There(p) /\ There(q)
    BY DEF IndInv, Candidates, CandTrue
  <1>2. At(p) \in DOMAIN file /\ At(q) \in DOMAIN file
    BY <1>1, Standing DEF IndInv
  <1>3. file[At(p)].data = file[At(q)].data
    BY <1>2 DEF DiskPlain
  <1>4. WasRead(cand[p], file[At(p)].data) /\ WasRead(cand[q], file[At(q)].data)
    BY <1>1 DEF IndInv, ReadingHolds, Fresh, CandTrue
  <1> HIDE DEF Length, HeadOf
  <1> QED
    BY <1>3, <1>4 DEF WasRead

LEMMA MatesStay ==
  ASSUME MatesListed, UNCHANGED world, NEW set \in SUBSET DOMAIN cand, cand' = Only(set),
         \A p \in set : \A q \in DOMAIN cand :
             q # p /\ StoreOf(At(p)) = StoreOf(At(q)) => q \in set
  PROVE  MatesListed'
  <1>1. DOMAIN cand' = set /\ file' = file
    BY DEF Only, world
  <1>2. \A p : At(p)' = At(p)
    BY SameDisk
  <1>3. \A f : (Named(f)' <=> Named(f)) /\ StoreOf(f)' = StoreOf(f)
    BY SameDisk
  <1>4. ASSUME NEW p \in set, NEW x \in DOMAIN file, Named(x), StoreOf(x) = StoreOf(At(p))
        PROVE  \E q \in set : At(q) = x
    <2>1. PICK q \in DOMAIN cand : At(q) = x
      BY <1>4 DEF MatesListed
    <2> QED
      BY <1>4, <2>1
  <1>5. \A p : StoreOf(At(p))' = StoreOf(At(p))
    BY <1>2, <1>1 DEF StoreOf
  <1> QED
    BY <1>1, <1>2, <1>3, <1>4, <1>5 DEF MatesListed

LEMMA WalkIsTrue ==
  ASSUME IndInv, SearchTrue, NEW p \in Paths, WalkEntry(p)
  PROVE  SearchTrue'
  <1>1. UNCHANGED world /\ phase' = phase /\ phase = "walk" /\ todo' = todo \ {p}
    BY DEF WalkEntry
  <1>2. DOMAIN cand' = DOMAIN cand \cup (IF Listed(p) THEN {p} ELSE {})
        /\ \A q \in DOMAIN cand' : cand'[q] = IF q \in DOMAIN cand THEN cand[q] ELSE Stat(q)
    BY DEF WalkEntry
  <1>3. \A q : At(q)' = At(q) /\ (There(q)' <=> There(q)) /\ StoreOf(At(q))' = StoreOf(At(q))
               /\ Linked(At(q))' = Linked(At(q))
    BY <1>1, SameFiles
  <1>4. ASSUME NEW q \in DOMAIN cand' PROVE CandTrue(q)'
    <2>1. CASE q \in DOMAIN cand
      BY <1>1, <1>2, <1>3, <2>1 DEF SearchTrue, CandTrue, world
    <2>2. CASE q \notin DOMAIN cand
      <3>1. Listed(q) /\ cand'[q] = Stat(q)
        BY <1>2, <2>2
      <3>2. There(q) /\ Stat(q).time = file[At(q)].time /\ Stat(q).bytes = Bytes[StoreOf(At(q))]
            /\ Stat(q).linked = Linked(At(q)) /\ Stat(q).whole = Unread
        BY <3>1 DEF Listed, Stat, StoreOf
      <3> QED
        BY <1>1, <1>3, <3>1, <3>2 DEF CandTrue, world
    <2> QED
      BY <2>1, <2>2
  <1>5. ASSUME NEW q \in Paths \ todo', There(q) PROVE \E r \in DOMAIN cand' : At(r) = At(q)
    <2>1. CASE q \in Paths \ todo
      <3>1. PICK r \in DOMAIN cand : At(r) = At(q)
        BY <1>1, <1>5, <2>1 DEF SearchTrue
      <3> QED
        BY <1>2, <3>1
    <2>2. CASE q = p /\ Listed(p)
      BY <1>2, <2>2
    <2>3. CASE q = p /\ ~Listed(p)
      <3>1. PICK r \in DOMAIN cand : cand[r].file = At(p)
        BY <1>5, <2>3 DEF Listed
      <3>2. At(r) = At(p)
        BY <3>1 DEF IndInv, Candidates, SearchTrue, CandTrue
      <3> QED
        BY <1>2, <2>3, <3>1, <3>2
    <2> QED
      BY <1>1, <2>1, <2>2, <2>3
  <1> QED
    BY <1>1, <1>3, <1>4, <1>5 DEF SearchTrue

\* A pass goes on with some of the candidates.
LEMMA PassIsTrue ==
  ASSUME SearchTrue, UNCHANGED world, NEW set \in SUBSET DOMAIN cand, cand' = Only(set),
         phase' \in {"heads", "whole"}, MatesListed',
         phase' = "whole" => \A p \in todo' \cap set : cand[p].len > HeadBytes
  PROVE  SearchTrue'
  <1>1. DOMAIN cand' = set /\ \A p \in set : cand'[p] = cand[p]
    BY DEF Only
  <1>2. \A q : At(q)' = At(q) /\ (There(q)' <=> There(q)) /\ StoreOf(At(q))' = StoreOf(At(q))
               /\ Linked(At(q))' = Linked(At(q))
    BY SameFiles
  <1>3. ASSUME NEW p \in set PROVE CandTrue(p)'
    BY <1>1, <1>2 DEF SearchTrue, CandTrue, world
  <1> QED
    BY <1>1, <1>3 DEF SearchTrue

LEMMA LengthIsTrue ==
  ASSUME IndInv, DiskPlain, PlainDisks, SearchTrue, PassLength
  PROVE  SearchTrue'
  <1>1. UNCHANGED world /\ phase = "walk" /\ phase' = "heads" /\ todo = {}
        /\ cand' = Only(Kept(ByLength))
    BY DEF PassLength
  <1>2. \A p : p \in Kept(ByLength) <=> p \in DOMAIN cand /\ \E q \in DOMAIN cand \ {p} :
                                                            cand[q].len = cand[p].len
    BY DEF Kept, ByLength
  <1> HIDE DEF Kept
  <1>3. Kept(ByLength) \in SUBSET DOMAIN cand
    BY <1>2
  <1>4. \A p \in DOMAIN cand : CandTrue(p)
    BY DEF SearchTrue
  <1>5. MatesListed
    <2> SUFFICES ASSUME NEW x \in DOMAIN file, Named(x) PROVE \E q \in DOMAIN cand : At(q) = x
      BY DEF MatesListed
    <2>1. PICK e \in Entries : entry[e] = x
      BY DEF Named
    <2>2. PICK q \in Paths : Shows[q] = e
      BY DEF PlainDisks
    <2>3. At(q) = x /\ There(q)
      BY <2>1, <2>2 DEF At, There, DiskPlain
    <2> QED
      BY <1>1, <2>3 DEF SearchTrue
  <1>6. MatesListed'
    <2>1. ASSUME NEW p \in Kept(ByLength), NEW q \in DOMAIN cand, q # p,
                 StoreOf(At(p)) = StoreOf(At(q))
          PROVE  q \in Kept(ByLength)
      <3>1. cand[p].len = cand[q].len
        BY <1>3, <1>4, <2>1, Twins
      <3> QED
        BY <1>2, <1>3, <2>1, <3>1
    <2> QED
      BY <1>1, <1>3, <1>5, <2>1, MatesStay
  <1> QED
    BY <1>1, <1>3, <1>6, PassIsTrue

LEMMA HeadIsTrue ==
  ASSUME IndInv, DiskPlain, SearchTrue, PassHead
  PROVE  SearchTrue'
  <1>1. UNCHANGED world /\ phase = "heads" /\ phase' = "whole" /\ todo = {}
        /\ cand' = Only(Kept(ByHead)) /\ todo' = {p \in Kept(ByHead) : cand[p].len > HeadBytes}
    BY DEF PassHead
  <1>2. \A p : p \in Kept(ByHead) <=>
                   p \in DOMAIN cand /\ \E q \in DOMAIN cand \ {p} :
                       <<cand[q].len, cand[q].head>> = <<cand[p].len, cand[p].head>>
    BY DEF Kept, ByHead
  <1> HIDE DEF Kept
  <1>3. Kept(ByHead) \in SUBSET DOMAIN cand
    BY <1>2
  <1>4. (\A p \in DOMAIN cand : CandTrue(p)) /\ MatesListed
    BY <1>1 DEF SearchTrue
  <1>5. \A p \in DOMAIN cand : cand[p].head # Unread
    BY <1>1 DEF IndInv, PassesRead
  <1>6. MatesListed'
    <2>1. ASSUME NEW p \in Kept(ByHead), NEW q \in DOMAIN cand, q # p,
                 StoreOf(At(p)) = StoreOf(At(q))
          PROVE  q \in Kept(ByHead)
      <3>1. cand[p].len = cand[q].len /\ cand[p].head = cand[q].head
        BY <1>3, <1>4, <1>5, <2>1, Twins
      <3> QED
        BY <1>2, <1>3, <2>1, <3>1
    <2> QED
      BY <1>1, <1>3, <1>4, <2>1, MatesStay
  <1> QED
    BY <1>1, <1>3, <1>6, PassIsTrue

\* A candidate is read.
LEMMA ReadIsTrue ==
  ASSUME SearchTrue, UNCHANGED <<world, phase>>, phase \in {"heads", "whole"}, todo' \subseteq todo,
         DOMAIN cand' = DOMAIN cand,
         \A q \in DOMAIN cand :
             /\ cand'[q].time = cand[q].time /\ cand'[q].bytes = cand[q].bytes
             /\ cand'[q].linked = cand[q].linked /\ cand'[q].len = cand[q].len
             /\ cand'[q].whole = cand[q].whole \/ cand[q].len > HeadBytes
  PROVE  SearchTrue'
  <1>1. \A q : At(q)' = At(q) /\ (There(q)' <=> There(q)) /\ StoreOf(At(q))' = StoreOf(At(q))
               /\ Linked(At(q))' = Linked(At(q))
    BY SameFiles
  <1>2. \A q : (Named(q)' <=> Named(q)) /\ StoreOf(q)' = StoreOf(q)
    BY SameDisk
  <1>3. file' = file
    BY DEF world
  <1>4. ASSUME NEW q \in DOMAIN cand PROVE CandTrue(q)'
    <2>1. CandTrue(q)
      BY DEF SearchTrue
    <2> QED
      BY <1>1, <1>3, <2>1 DEF CandTrue
  <1>5. MatesListed'
    <2>1. phase' \in {"heads", "whole"} /\ MatesListed
      BY DEF SearchTrue
    <2> QED
      BY <1>1, <1>2, <1>3, <2>1 DEF MatesListed
  <1> QED
    BY <1>4, <1>5 DEF SearchTrue

LEMMA HashIsTrue ==
  ASSUME IndInv, SearchTrue, NEW p \in Paths, HashHead(p) \/ HashFile(p)
  PROVE  SearchTrue'
  <1>1. UNCHANGED <<world, phase>> /\ phase \in {"heads", "whole"} /\ p \in todo
        /\ todo' = todo \ {p} /\ todo' \subseteq todo
    BY DEF HashHead, HashFile
  <1>2. CASE ~There(p)
    <2>1. cand' = Only(DOMAIN cand \ {p}) /\ p \notin DOMAIN cand
      BY <1>2 DEF HashHead, HashFile, SearchTrue, CandTrue
    <2>2. DOMAIN cand' = DOMAIN cand /\ \A q \in DOMAIN cand : cand'[q] = cand[q]
      BY <2>1 DEF Only
    <2> QED
      BY <1>1, <2>2, ReadIsTrue
  <1>3. CASE There(p) /\ p \notin DOMAIN cand
    <2>1. DOMAIN cand' = DOMAIN cand /\ \A q \in DOMAIN cand : cand'[q] = cand[q]
      BY <1>3 DEF HashHead, HashFile
    <2> QED
      BY <1>1, <2>1, ReadIsTrue
  <1>4. CASE There(p) /\ p \in DOMAIN cand
    <2>1. cand[p] \in Candidate
      BY <1>4 DEF IndInv, Candidates
    <2>2. /\ DOMAIN cand' = DOMAIN cand
          /\ \A q \in DOMAIN cand : q # p => cand'[q] = cand[q]
          /\ \E new : cand'[p] \in {[cand[p] EXCEPT !.head = new], [cand[p] EXCEPT !.whole = new]}
          /\ HashHead(p) => \E new : cand'[p] = [cand[p] EXCEPT !.head = new]
      BY <1>4 DEF HashHead, HashFile
    <2>3. /\ cand'[p].time = cand[p].time /\ cand'[p].bytes = cand[p].bytes
          /\ cand'[p].linked = cand[p].linked /\ cand'[p].len = cand[p].len
          /\ HashHead(p) => cand'[p].whole = cand[p].whole
      BY <2>1, <2>2 DEF Candidate
    <2>4. HashFile(p) => cand[p].len > HeadBytes
      BY <1>1, <1>4 DEF HashFile, SearchTrue
    <2> QED
      BY <1>1, <2>2, <2>3, <2>4, ReadIsTrue
  <1> QED
    BY <1>2, <1>3, <1>4

----------------------------------------------------------------------------
(* The groups of a disk that nobody else changes.                             *)

\* Settled, a group lists what it listed, and says what it offers.
Alike(m, f) == m.path = f.path /\ m.store = f.store /\ m.bytes = f.bytes /\ m.linked = f.linked
SettledFrom(new, old) ==
    /\ IsFiniteSet(new.files) /\ new.files # {}
    /\ \A m \in new.files : \E f \in old.files : Alike(m, f)
    /\ \A f \in old.files : \E m \in new.files : Alike(m, f)
    /\ \A m \in new.files : m.shares = \E n \in new.files : n # m /\ n.store = m.store
    /\ new.reclaimable = Offer(new.files)

LEMMA SettledIs ==
  ASSUME NEW g, Grouped(g), IsFiniteSet(g.files), g.files # {},
         \A f \in g.files : f.bytes = Bytes[f.store] /\ f.store \in DOMAIN Bytes
  PROVE  SettledFrom(Settle(g), g)
  <1> DEFINE Shares(f) == \E h \in g.files : h # f /\ h.store = f.store
             Mark(f) == [f EXCEPT !.shares = Shares(f)]
             marked == {Mark(f) : f \in g.files}
  <1>1. Settle(g).files = marked /\ Settle(g).reclaimable = Reclaimable(g.files)
    BY DEF Settle, Grouped
  <1>2. ASSUME NEW f \in g.files
        PROVE  /\ Mark(f).path = f.path /\ Mark(f).store = f.store /\ Mark(f).bytes = f.bytes
               /\ Mark(f).linked = f.linked /\ (Mark(f).shares <=> Shares(f))
    <2>1. f \in DupeFile
      BY DEF Grouped, Copies
    <2>2. Shares(f) \in BOOLEAN
      OBVIOUS
    <2> HIDE DEF Shares
    <2> QED
      BY <2>1, <2>2 DEF DupeFile
  <1>3. IsFiniteSet(marked)
    <2> DEFINE S == g.files
               fn == [f \in S |-> Mark(f)]
    <2>1. marked = {fn[f] : f \in S}
      OBVIOUS
    <2>2. IsFiniteSet(S)
      OBVIOUS
    <2> HIDE DEF fn, marked, S
    <2> QED
      BY <2>1, <2>2, ImageIsFinite
  <1>4. \A m \in marked : \E f \in g.files : m = Mark(f)
    OBVIOUS
  <1>5. \A f \in g.files : Mark(f) \in marked
    OBVIOUS
  <1>6. \A f, h \in g.files : f.path = h.path => f = h
    BY DEF Grouped, Copies
  <1> HIDE DEF Mark, marked
  <1>8. Offer(marked) = Reclaimable(g.files)
    <2>1. StoresIn(marked) = StoresIn(g.files)
      BY <1>2, <1>4, <1>5 DEF StoresIn
    <2>2. PinnedIn(marked) = PinnedIn(g.files)
      BY <1>2, <1>4, <1>5 DEF PinnedIn
    <2>3. Offer(marked) = Offer(g.files)
      BY <2>1, <2>2 DEF Offer, LooseIn
    <2> QED
      BY <2>3, ReclaimableIs
  <1>9. ASSUME NEW m \in marked
        PROVE  /\ \E f \in g.files : Alike(m, f)
               /\ m.shares = \E n \in marked : n # m /\ n.store = m.store
    <2>1. PICK f \in g.files : m = Mark(f)
      BY <1>4
    <2>2. Alike(m, f)
      BY <1>2, <2>1 DEF Alike
    <2>3. m.shares <=> Shares(f)
      BY <1>2, <2>1
    <2>4. Shares(f) => \E n \in marked : n # m /\ n.store = m.store
      <3> SUFFICES ASSUME NEW h \in g.files, h # f, h.store = f.store
                   PROVE  \E n \in marked : n # m /\ n.store = m.store
        OBVIOUS
      <3>1. Mark(h) \in marked /\ Mark(h).store = m.store /\ Mark(h).path # m.path
        BY <1>2, <1>5, <1>6, <2>1
      <3> QED
        BY <3>1
    <2>5. (\E n \in marked : n # m /\ n.store = m.store) => Shares(f)
      <3> SUFFICES ASSUME NEW n \in marked, n # m, n.store = m.store PROVE Shares(f)
        OBVIOUS
      <3>1. PICK h \in g.files : n = Mark(h)
        BY <1>4
      <3> QED
        BY <1>2, <2>1, <3>1
    <2>6. m.shares \in BOOLEAN
      <3>1. f \in DupeFile
        BY DEF Grouped, Copies
      <3>2. Shares(f) \in BOOLEAN
        OBVIOUS
      <3> HIDE DEF Shares
      <3> QED
        BY <2>1, <3>1, <3>2 DEF Mark, DupeFile
    <2> HIDE DEF Shares
    <2> QED
      BY <2>2, <2>3, <2>4, <2>5, <2>6
  <1>10. marked # {} /\ \A f \in g.files : \E m \in marked : Alike(m, f)
    BY <1>2, <1>5 DEF Alike
  <1> QED
    BY <1>1, <1>3, <1>8, <1>9, <1>10 DEF SettledFrom

LEMMA SettledIsTrue ==
  ASSUME DiskOK, NEW g, Grouped(g), FilesTrue(g.files), g.files # {}
  PROVE  /\ GroupTrue(Settle(g))
         /\ \A m \in Settle(g).files : \E f \in g.files : m.path = f.path
  <1> DEFINE new == Settle(g)
  <1>1. SettledFrom(new, g)
    <2>1. IsFiniteSet(g.files)
      BY DEF FilesTrue
    <2>2. \A f \in g.files : f.bytes = Bytes[f.store] /\ f.store \in DOMAIN Bytes
      BY CopiesStand
    <2> QED
      BY <2>1, <2>2, SettledIs
  <1> HIDE DEF new
  <1>2. ASSUME NEW m \in new.files
        PROVE  /\ m.path \in Paths /\ There(m.path) /\ m.store = StoreOf(At(m.path))
               /\ m.bytes = Bytes[m.store] /\ m.linked = Linked(At(m.path))
               /\ \A x \in DOMAIN file : Named(x) /\ StoreOf(x) = m.store =>
                      \E n \in new.files : At(n.path) = x
    <2>1. PICK f \in g.files : Alike(m, f)
      BY <1>1 DEF SettledFrom
    <2>2. m.path = f.path /\ m.store = f.store /\ m.bytes = f.bytes /\ m.linked = f.linked
      BY <2>1 DEF Alike
    <2>3. /\ f.path \in Paths /\ There(f.path) /\ f.store = StoreOf(At(f.path))
          /\ f.bytes = Bytes[f.store] /\ f.linked = Linked(At(f.path))
      BY DEF FilesTrue
    <2>4. ASSUME NEW x \in DOMAIN file, Named(x), StoreOf(x) = m.store
          PROVE  \E n \in new.files : At(n.path) = x
      <3>1. PICK h \in g.files : At(h.path) = x
        BY <2>2, <2>4 DEF FilesTrue
      <3>2. PICK n \in new.files : n.path = h.path
        BY <1>1 DEF SettledFrom, Alike
      <3> QED
        BY <3>1, <3>2
    <2> QED
      BY <2>2, <2>3, <2>4
  <1>3. FilesTrue(new.files)
    BY <1>1, <1>2 DEF FilesTrue, SettledFrom
  <1>4. GroupTrue(new) /\ \A m \in new.files : \E f \in g.files : m.path = f.path
    BY <1>1, <1>3 DEF GroupTrue, SettledFrom, Alike
  <1> QED
    BY <1>4 DEF new

LEMMA ContentIsTrue ==
  ASSUME IndInv, DiskPlain, SearchTrue, PassContent
  PROVE  SearchTrue' /\ GroupsTrue'
  <1>1. UNCHANGED world /\ phase = "whole" /\ phase' = "ready" /\ todo = {} /\ DOMAIN cand' = {}
    BY DEF PassContent
  <1>2. \A p : p \in Kept(ByContent) <=>
                   p \in DOMAIN cand /\ \E q \in DOMAIN cand \ {p} : ByContent(q) = ByContent(p)
    BY DEF Kept
  <1>3. (\A p \in DOMAIN cand : CandTrue(p)) /\ MatesListed
    BY <1>1 DEF SearchTrue
  <1>4. /\ DOMAIN cand \subseteq Paths
        /\ \A p, q \in DOMAIN cand : At(p) = At(q) => p = q
        /\ \A p \in DOMAIN cand : There(p)
    BY <1>3 DEF IndInv, Candidates, CandTrue
  <1>5. /\ groups' = {Settle(Unsettled(p)) : p \in Kept(ByContent)}
        /\ \A p \in Kept(ByContent) : Grouped(Unsettled(p))
    BY ContentGroups
  <1> HIDE DEF Kept
  <1>6. ASSUME NEW p \in DOMAIN cand
        PROVE  /\ Copy(p).path = p /\ Copy(p).store = StoreOf(At(p))
               /\ Copy(p).bytes = Bytes[StoreOf(At(p))] /\ Copy(p).linked = Linked(At(p))
    BY <1>3, <1>4 DEF Copy, CopyOf, CandTrue, StoreOf
  <1>7. ASSUME NEW p \in DOMAIN cand, NEW q \in DOMAIN cand, StoreOf(At(p)) = StoreOf(At(q))
        PROVE  ByContent(p) = ByContent(q)
    <2>1. cand[p].head # Unread /\ cand[q].head # Unread
          /\ (cand[p].len > HeadBytes => cand[p].whole # Unread)
          /\ (cand[q].len > HeadBytes => cand[q].whole # Unread)
      BY <1>1 DEF IndInv, PassesRead
    <2>2. (cand[p].whole # Unread => cand[p].len > HeadBytes)
          /\ (cand[q].whole # Unread => cand[q].len > HeadBytes)
      BY <1>3 DEF CandTrue
    <2>3. /\ cand[p].len = cand[q].len
          /\ cand[p].head # Unread /\ cand[q].head # Unread => cand[p].head = cand[q].head
          /\ cand[p].whole # Unread /\ cand[q].whole # Unread => cand[p].whole = cand[q].whole
      BY <1>3, <1>7, Twins
    <2>4. cand[p].whole = cand[q].whole
      BY <2>1, <2>2, <2>3
    <2> QED
      BY <2>1, <2>3, <2>4 DEF ByContent
  <1>8. \A p : \A f : f \in Unsettled(p).files <=> \E q \in ReadLike(p) : f = Copy(q)
    BY DEF Unsettled
  <1>9. \A p, q : q \in ReadLike(p) <=> q \in Kept(ByContent) /\ ByContent(q) = ByContent(p)
    BY DEF ReadLike
  <1>10. ASSUME NEW p \in Kept(ByContent)
         PROVE  FilesTrue(Unsettled(p).files) /\ Unsettled(p).files # {}
    <2>1. IsFiniteSet(Unsettled(p).files)
      <3> DEFINE S == ReadLike(p)
                 fn == [q \in S |-> Copy(q)]
      <3>1. Unsettled(p).files = {fn[q] : q \in S}
        BY DEF Unsettled
      <3>2. S \subseteq Paths
        BY <1>2, <1>4, <1>9
      <3> HIDE DEF fn, S
      <3>3. IsFiniteSet(S)
        BY <3>2, DisksAreFinite, FS_Subset
      <3> QED
        BY <3>1, <3>3, ImageIsFinite
    <2>2. ASSUME NEW f \in Unsettled(p).files
          PROVE  /\ f.path \in Paths /\ There(f.path) /\ f.store = StoreOf(At(f.path))
                 /\ f.bytes = Bytes[f.store] /\ f.linked = Linked(At(f.path))
                 /\ \A x \in DOMAIN file : Named(x) /\ StoreOf(x) = f.store =>
                        \E h \in Unsettled(p).files : At(h.path) = x
      <3>1. PICK q \in DOMAIN cand : f = Copy(q) /\ q \in ReadLike(p)
        BY <1>2, <1>8, <1>9
      <3>2. /\ f.path = q /\ f.store = StoreOf(At(q))
            /\ f.bytes = Bytes[StoreOf(At(q))] /\ f.linked = Linked(At(q))
        BY <1>6, <3>1
      <3>3. ASSUME NEW x \in DOMAIN file, Named(x), StoreOf(x) = f.store
            PROVE  \E h \in Unsettled(p).files : At(h.path) = x
        <4>1. PICK r \in DOMAIN cand : At(r) = x
          BY <1>3, <3>2, <3>3 DEF MatesListed
        <4>2. ByContent(r) = ByContent(q)
          BY <1>7, <3>2, <3>3, <4>1
        <4>3. r \in ReadLike(p)
          BY <1>2, <1>9, <3>1, <4>2
        <4>4. Copy(r) \in Unsettled(p).files /\ Copy(r).path = r
          BY <1>6, <1>8, <4>3
        <4> QED
          BY <4>1, <4>4
      <3> QED
        BY <1>4, <3>2, <3>3
    <2>3. Copy(p) \in Unsettled(p).files
      BY <1>8, <1>9
    <2> QED
      BY <2>1, <2>2, <2>3 DEF FilesTrue
  <1>11. ASSUME NEW p \in Kept(ByContent)
         PROVE  /\ GroupTrue(Settle(Unsettled(p)))
                /\ \A m \in Settle(Unsettled(p)).files : m.path \in ReadLike(p)
    <2>1. /\ GroupTrue(Settle(Unsettled(p)))
          /\ \A m \in Settle(Unsettled(p)).files : \E f \in Unsettled(p).files : m.path = f.path
      BY <1>5, <1>10, SettledIsTrue DEF IndInv
    <2>2. ASSUME NEW f \in Unsettled(p).files PROVE f.path \in ReadLike(p)
      <3>1. PICK q \in ReadLike(p) : f = Copy(q)
        BY <1>8
      <3>2. Copy(q).path = q
        BY <1>2, <1>6, <1>9, <3>1
      <3> QED
        BY <3>1, <3>2
    <2> QED
      BY <2>1, <2>2
  <1>12. ASSUME NEW p \in Kept(ByContent), NEW q \in Kept(ByContent),
                NEW f \in Settle(Unsettled(p)).files, NEW k \in Settle(Unsettled(q)).files,
                At(f.path) = At(k.path)
         PROVE  Settle(Unsettled(p)) = Settle(Unsettled(q))
    <2>1. f.path \in ReadLike(p) /\ k.path \in ReadLike(q)
      BY <1>11
    <2>2. f.path = k.path
      BY <1>2, <1>4, <1>9, <1>12, <2>1
    <2>3. ByContent(p) = ByContent(q)
      BY <1>9, <2>1, <2>2
    <2>4. ReadLike(p) = ReadLike(q)
      BY <1>9, <2>3 DEF ReadLike
    <2>5. cand[p].len = cand[q].len
      BY <2>3 DEF ByContent
    <2> QED
      BY <2>4, <2>5 DEF Unsettled
  <1>13. \A g : GroupTrue(g)' <=> GroupTrue(g)
    BY <1>1, SameDisk
  <1>14. \A p : At(p)' = At(p)
    BY <1>1, SameDisk
  <1>15. GroupsTrue'
    <2>1. \A g \in groups' : GroupTrue(g)
      BY <1>5, <1>11
    <2>2. \A g, h \in groups' : \A f \in g.files, k \in h.files : At(f.path) = At(k.path) => g = h
      BY <1>5, <1>12
    <2> HIDE DEF GroupTrue
    <2> QED
      BY <1>13, <1>14, <2>1, <2>2 DEF GroupsTrue
  <1>16. SearchTrue'
    BY <1>1 DEF SearchTrue
  <1> QED
    BY <1>15, <1>16

----------------------------------------------------------------------------
(* The move of one copy of a disk that nobody else changes.                   *)

HeldBy(x) == x \in outside \/ Named(x)

LEMMA HeldIs == \A s : Held(s) <=> \E x \in DOMAIN file : StoreOf(x) = s /\ HeldBy(x)
  <1>1. \A x : Names(x) # {} <=> Named(x)
    BY DEF Names, Named
  <1> QED
    BY <1>1 DEF Held, HeldBy, StoreOf

\* A name goes: the files but the one it named have the names they had.
NameGoes(e) ==
    /\ e \in Entries /\ entry[e] \in DOMAIN file
    /\ entry' = [entry EXCEPT ![e] = Gone] /\ UNCHANGED <<file, outside>>

LEMMA OthersStay ==
  ASSUME DiskOK, DiskPlain, NEW e, NEW f, entry[e] = f, NameGoes(e)
  PROVE  /\ \A x : StoreOf(x)' = StoreOf(x)
         /\ \A d \in Entries : entry'[d] = IF d = e THEN Gone ELSE entry[d]
         /\ \A x \in DOMAIN file : x # f =>
               /\ (Named(x)' <=> Named(x)) /\ Linked(x)' = Linked(x)
               /\ (HeldBy(x)' <=> HeldBy(x))
         /\ Named(f)' <=> \E d \in Entries : d # e /\ entry[d] = f
         /\ Named(f)
         /\ DiskPlain'
  <1>1. \A d \in Entries : entry'[d] = IF d = e THEN Gone ELSE entry[d]
    BY DEF NameGoes, DiskOK
  <1>2. file' = file /\ outside' = outside /\ Gone \notin DOMAIN file /\ e \in Entries
        /\ entry[e] \in DOMAIN file
    BY DEF NameGoes, DiskPlain
  <1>3. ASSUME NEW x \in DOMAIN file, x # f
        PROVE  /\ (Named(x)' <=> Named(x)) /\ Linked(x)' = Linked(x)
               /\ (HeldBy(x)' <=> HeldBy(x))
    <2>1. \A d \in Entries : entry'[d] = x <=> entry[d] = x
      BY <1>1, <1>2, <1>3
    <2>2. Names(x)' = Names(x) /\ (Named(x)' <=> Named(x))
      BY <2>1 DEF Names, Named
    <2> QED
      BY <1>2, <2>2 DEF Linked, HeldBy
  <1>4. Named(f)' <=> \E d \in Entries : d # e /\ entry[d] = f
    <2>1. \A d \in Entries : entry'[d] = f <=> d # e /\ entry[d] = f
      BY <1>1, <1>2
    <2> QED
      BY <2>1 DEF Named
  <1>5. Named(f)
    BY <1>2 DEF Named
  <1>6. \A x : StoreOf(x)' = StoreOf(x)
    BY <1>2 DEF StoreOf
  <1>7. DiskPlain'
    <2>1. \A x \in DOMAIN file : \A d \in Entries : entry'[d] = x => entry[d] = x
      BY <1>1, <1>2
    <2> QED
      BY <1>2, <1>6, <2>1 DEF DiskPlain
  <1> QED
    BY <1>1, <1>3, <1>4, <1>5, <1>6, <1>7

LEMMA HeldStays ==
  ASSUME UNCHANGED file
  PROVE  \A s : Held(s)' <=> \E x \in DOMAIN file : StoreOf(x)' = s /\ HeldBy(x)'
  <1>1. \A x : (Names(x)' # {}) <=> Named(x)'
    BY DEF Names, Named
  <1> QED
    BY <1>1 DEF Held, HeldBy, StoreOf

LEMMA MoveIs ==
  ASSUME DiskOK, NEW g, Grouped(g), FilesTrue(g.files), NEW f \in g.files, Move(f)
  PROVE  NameGoes(Shows[f.path]) /\ entry[Shows[f.path]] = At(f.path)
  <1>1. f.path \in Paths /\ There(f.path)
    BY DEF FilesTrue
  <1>2. Shows[f.path] \in Entries /\ entry[Shows[f.path]] = At(f.path) /\ At(f.path) \in DOMAIN file
    BY <1>1, Standing
  <1> QED
    BY <1>2 DEF Move, NameGoes

\* What the move is said to give back is the storage that it leaves to no one.
LEMMA MoveFrees ==
  ASSUME DiskOK, DiskPlain, freed = Total(Bytes, Unheld),
         NEW g, Grouped(g), GroupTrue(g), NEW f \in g.files, Move(f)
  PROVE  freed' = Total(Bytes, Unheld')
  <1> DEFINE e == Shows[f.path]
  <1>1. PICK x0 : x0 = At(f.path)
    OBVIOUS
  <1>2. FilesTrue(g.files) /\ (f.shares <=> \E h \in g.files : h # f /\ h.store = f.store)
    BY DEF GroupTrue
  <1>3. /\ e \in Entries /\ entry[e] = x0 /\ x0 \in DOMAIN file /\ Named(x0)
        /\ f.store = StoreOf(x0) /\ f.store \in Stores /\ f.store \in DOMAIN Bytes
        /\ f.bytes = Bytes[f.store]
        /\ f.linked <=> x0 \in outside \/ \E d \in Entries : d # e /\ entry[d] = x0
        /\ \A h \in g.files : At(h.path) \in DOMAIN file /\ h.store = StoreOf(At(h.path))
                              /\ Named(At(h.path)) /\ (At(h.path) = x0 => h = f)
    BY <1>1, <1>2, CopiesStand
  <1>4. NameGoes(e)
    BY <1>2, MoveIs
  <1> HIDE DEF e
  <1>5. /\ \A x : StoreOf(x)' = StoreOf(x)
        /\ \A x \in DOMAIN file : x # x0 => (HeldBy(x)' <=> HeldBy(x))
        /\ Named(x0)' <=> \E d \in Entries : d # e /\ entry[d] = x0
    BY <1>3, <1>4, OthersStay
  <1>6. file' = file /\ outside' = outside
    BY <1>4 DEF NameGoes
  <1>7. HeldBy(x0)' <=> f.linked
    BY <1>3, <1>5, <1>6 DEF HeldBy
  <1>8. \A s : /\ Held(s) <=> \E x \in DOMAIN file : StoreOf(x) = s /\ HeldBy(x)
               /\ Held(s)' <=> \E x \in DOMAIN file : StoreOf(x)' = s /\ HeldBy(x)'
    BY <1>6, HeldIs, HeldStays
  <1>9. HeldBy(x0) /\ Held(f.store)
    BY <1>3, <1>8 DEF HeldBy
  <1>10. ASSUME NEW s, s # f.store PROVE Held(s)' <=> Held(s)
    BY <1>3, <1>5, <1>8, <1>10
  <1>11. Held(f.store)' <=> f.linked \/ f.shares
    <2>1. CASE f.linked
      BY <1>3, <1>5, <1>7, <1>8, <2>1
    <2>2. CASE f.shares
      <3>1. PICK h \in g.files : h # f /\ h.store = f.store
        BY <1>2, <2>2
      <3>2. At(h.path) # x0 /\ HeldBy(At(h.path)) /\ At(h.path) \in DOMAIN file
            /\ StoreOf(At(h.path)) = f.store
        BY <1>3, <3>1 DEF HeldBy
      <3>3. PICK y \in DOMAIN file : y = At(h.path)
        BY <3>2
      <3> QED
        BY <1>5, <1>8, <2>2, <3>2, <3>3
    <2>3. CASE ~f.linked /\ ~f.shares
      <3>1. ASSUME NEW y \in DOMAIN file, StoreOf(y) = f.store, HeldBy(y)' PROVE FALSE
        <4>1. y # x0
          BY <1>7, <2>3, <3>1
        <4>2. HeldBy(y) /\ y \notin outside
          BY <1>3, <1>5, <3>1, <4>1 DEF DiskPlain
        <4>3. PICK h \in g.files : At(h.path) = y
          BY <1>2, <1>3, <3>1, <4>2 DEF FilesTrue, HeldBy
        <4>4. h # f /\ h.store = f.store
          BY <1>1, <1>3, <3>1, <4>1, <4>3
        <4> QED
          BY <1>2, <2>3, <4>4
      <3> QED
        BY <1>5, <1>8, <2>3, <3>1
    <2> QED
      BY <2>1, <2>2, <2>3
  <1>12. freed' = freed + Frees(f)
    BY DEF Move
  <1>13. Stores' = Stores
    BY <1>6 DEF Stores
  <1>14. IsFiniteSet(Unheld) /\ f.store \notin Unheld
         /\ \A s \in Unheld \cup {f.store} : Bytes[s] \in Int
    <2>1. Unheld \subseteq Stores /\ f.store \notin Unheld
      BY <1>9 DEF Unheld
    <2>2. \A s \in Stores : s \in DOMAIN Bytes
      BY DEF Stores, DiskOK, Clocked
    <2>3. IsFiniteSet(Unheld)
      BY <2>1, StoresAreFinite, FS_Subset
    <2> QED
      BY <1>3, <2>1, <2>2, <2>3, DisksAreFinite
  <1>15. CASE f.linked \/ f.shares
    <2>1. Unheld' = Unheld
      BY <1>9, <1>10, <1>11, <1>13, <1>15 DEF Unheld
    <2>2. Total(Bytes, Unheld) \in Int
      BY <1>14, TotalOf
    <2>3. Frees(f) = 0
      BY <1>15 DEF Frees
    <2> QED
      BY <1>12, <2>1, <2>2, <2>3
  <1>16. CASE ~f.linked /\ ~f.shares
    <2>1. Unheld' = Unheld \cup {f.store}
      BY <1>3, <1>10, <1>11, <1>13, <1>16 DEF Unheld
    <2>2. Total(Bytes, Unheld \cup {f.store}) = Bytes[f.store] + Total(Bytes, Unheld)
      BY <1>14, TotalGrows
    <2>3. Frees(f) = Bytes[f.store]
      BY <1>3, <1>16 DEF Frees
    <2>4. Total(Bytes, Unheld) \in Int /\ Bytes[f.store] \in Int
      BY <1>14, TotalOf
    <2>5. freed' = Bytes[f.store] + Total(Bytes, Unheld)
      BY <1>12, <2>3, <2>4
    <2> QED
      BY <2>1, <2>2, <2>5
  <1> QED
    BY <1>15, <1>16

\* What is left of a group without the copy that went is true of the disk then.
LEMMA LeftIsTrue ==
  ASSUME DiskOK, DiskPlain, GroupsTrue, \A h \in groups : Grouped(h),
         NEW g \in groups, NEW f \in g.files, Move(f),
         NEW h \in groups, Less(h, f.path).files # {}
  PROVE  /\ GroupTrue(Settle(Less(h, f.path)))'
         /\ \A m \in Settle(Less(h, f.path)).files :
               \E j \in h.files : m.path = j.path /\ At(m.path)' = At(j.path)
  <1> DEFINE e == Shows[f.path]
             less == Less(h, f.path)
             new == Settle(less)
  <1>1. PICK x0 : x0 = At(f.path)
    OBVIOUS
  <1>2. FilesTrue(g.files) /\ FilesTrue(h.files) /\ Grouped(g) /\ Grouped(h)
    BY DEF GroupsTrue, GroupTrue
  <1>3. /\ e \in Entries /\ entry[e] = x0 /\ x0 \in DOMAIN file
        /\ \A k \in g.files : At(k.path) = x0 => k = f
    BY <1>1, <1>2, CopiesStand
  <1>4. NameGoes(e)
    BY <1>2, MoveIs
  <1>5. /\ \A x : StoreOf(x)' = StoreOf(x)
        /\ \A d \in Entries : entry'[d] = IF d = e THEN Gone ELSE entry[d]
        /\ \A x \in DOMAIN file : x # x0 => (Named(x)' <=> Named(x)) /\ Linked(x)' = Linked(x)
        /\ Named(x0)' <=> \E d \in Entries : d # e /\ entry[d] = x0
    BY <1>3, <1>4, OthersStay
  <1>6. file' = file
    BY <1>4 DEF NameGoes
  <1>7. Grouped(less) /\ less.files = {j \in h.files : j.path # f.path}
    BY <1>2, LessIsGrouped
  <1>8. ASSUME NEW j \in h.files
        PROVE  /\ j.path \in Paths /\ There(j.path) /\ Shows[j.path] \in Entries
               /\ entry[Shows[j.path]] = At(j.path) /\ At(j.path) \in DOMAIN file
               /\ j.store = StoreOf(At(j.path)) /\ j.store \in DOMAIN Bytes
               /\ j.bytes = Bytes[j.store] /\ j.linked = Linked(At(j.path))
    BY <1>2, CopiesStand DEF FilesTrue
  <1> HIDE DEF e
  <1>9. ASSUME NEW j \in less.files
        PROVE  /\ At(j.path) # x0 /\ At(j.path)' = At(j.path) /\ There(j.path)'
               /\ Linked(At(j.path))' = Linked(At(j.path))
               /\ StoreOf(At(j.path))' = StoreOf(At(j.path))
    <2>1. j \in h.files /\ j.path # f.path
      BY <1>7
    <2>2. At(j.path) # x0
      <3> SUFFICES ASSUME At(j.path) = x0 PROVE FALSE
        OBVIOUS
      <3>1. h = g
        BY <1>1, <2>1 DEF GroupsTrue
      <3> QED
        BY <1>3, <2>1, <3>1
    <2>3. PICK y \in DOMAIN file : y = At(j.path)
      BY <1>8, <2>1
    <2>4. Shows[j.path] # e /\ Shows[j.path] \in Entries /\ entry[Shows[j.path]] = y /\ y # x0
      BY <1>3, <1>8, <2>1, <2>2, <2>3
    <2>5. At(j.path)' = y
      BY <1>5, <2>4 DEF At
    <2>6. There(j.path)'
      BY <1>8, <2>1, <2>3, <2>5 DEF There
    <2>7. Linked(y)' = Linked(y) /\ StoreOf(y)' = StoreOf(y)
      BY <1>5, <2>4
    <2>8. Linked(At(j.path))' = Linked(y)' /\ StoreOf(At(j.path))' = StoreOf(y)'
      <3>1. (At(j.path) = y)'
        BY <2>5
      <3> QED
        BY <3>1
    <2> QED
      BY <2>2, <2>3, <2>5, <2>6, <2>7, <2>8
  <1>10. SettledFrom(new, less)
    <2>1. less.files \subseteq h.files /\ IsFiniteSet(h.files)
      BY <1>2, <1>7 DEF FilesTrue
    <2>2. IsFiniteSet(less.files)
      BY <2>1, FS_Subset
    <2>3. \A j \in less.files : j.bytes = Bytes[j.store] /\ j.store \in DOMAIN Bytes
      BY <1>8, <2>1
    <2> HIDE DEF less
    <2>4. less.files # {}
      BY DEF less
    <2> QED
      BY <1>7, <2>2, <2>3, <2>4, SettledIs
  <1> HIDE DEF new, less
  <1>11. ASSUME NEW m \in new.files
         PROVE  /\ m.path \in Paths /\ There(m.path)' /\ m.store = StoreOf(At(m.path))'
                /\ m.bytes = Bytes[m.store] /\ m.linked = Linked(At(m.path))'
                /\ \E j \in h.files : m.path = j.path /\ At(m.path)' = At(j.path)
                /\ \A x \in DOMAIN file : Named(x)' /\ StoreOf(x) = m.store =>
                       \E n \in new.files : At(n.path)' = x
    <2>1. PICK j \in less.files :
              m.path = j.path /\ m.store = j.store /\ m.bytes = j.bytes /\ m.linked = j.linked
      BY <1>10 DEF SettledFrom, Alike
    <2>2. j \in h.files
      BY <1>7, <2>1
    <2>3. /\ j.path \in Paths /\ There(j.path)' /\ j.store = StoreOf(At(j.path))'
          /\ j.bytes = Bytes[j.store] /\ j.linked = Linked(At(j.path))'
          /\ At(j.path)' = At(j.path) /\ At(j.path) # x0 /\ At(j.path) \in DOMAIN file
          /\ j.store = StoreOf(At(j.path))
      BY <1>8, <1>9, <2>1, <2>2
    <2>4. ASSUME NEW x \in DOMAIN file, Named(x)', StoreOf(x) = j.store
          PROVE  \E n \in new.files : At(n.path)' = x
      <3>1. x # x0
        <4> SUFFICES ASSUME x = x0 PROVE FALSE
          OBVIOUS
        <4>1. PICK d \in Entries : d # e /\ entry[d] = x0
          BY <1>5, <2>4
        <4>2. StoreOf(x0) = StoreOf(At(j.path)) /\ x0 # At(j.path)
          BY <2>3, <2>4
        <4> QED
          BY <1>3, <2>3, <4>1, <4>2 DEF DiskPlain
      <3>2. Named(x)
        BY <1>5, <2>4, <3>1
      <3>3. PICK k \in h.files : At(k.path) = x
        BY <1>2, <2>2, <2>4, <3>2 DEF FilesTrue
      <3>4. k \in less.files
        BY <1>1, <1>7, <3>1, <3>3
      <3>5. PICK n \in new.files : n.path = k.path
        BY <1>10, <3>4 DEF SettledFrom, Alike
      <3>6. At(k.path)' = x
        BY <1>9, <3>3, <3>4
      <3> QED
        BY <3>5, <3>6
    <2> QED
      BY <2>1, <2>2, <2>3, <2>4
  <1>12. FilesTrue(new.files)'
    BY <1>5, <1>6, <1>10, <1>11 DEF FilesTrue, SettledFrom
  <1>13. GroupTrue(new)'
    BY <1>10, <1>12 DEF GroupTrue, SettledFrom
  <1> QED
    BY <1>11, <1>13 DEF new, less

LEMMA GroupsLeft ==
  ASSUME DiskOK, DiskPlain, GroupsTrue, \A h \in groups : Grouped(h),
         NEW g \in groups, NEW f \in g.files, Move(f)
  PROVE  GroupsTrue'
  <1>1. ASSUME NEW k \in groups'
        PROVE  \E h \in groups : k = Settle(Less(h, f.path)) /\ Less(h, f.path).files # {}
    <2>1. k \in Remove(f.path)
      BY DEF Move
    <2>2. PICK h \in groups : k = Settle(Less(h, f.path)) /\ Cardinality(k.files) > 1
      BY <2>1 DEF Remove, Less
    <2>3. Less(h, f.path).files # {}
      <3> SUFFICES ASSUME Less(h, f.path).files = {} PROVE FALSE
        OBVIOUS
      <3>1. Grouped(Less(h, f.path))
        BY LessIsGrouped
      <3>2. k.files = {}
        BY <2>2, <3>1 DEF Settle, Grouped
      <3> QED
        BY <2>2, <3>2, FS_EmptySet
    <2> QED
      BY <2>2, <2>3
  <1>2. ASSUME NEW k \in groups' PROVE GroupTrue(k)'
    BY <1>1, LeftIsTrue
  <1>3. ASSUME NEW k \in groups', NEW l \in groups', NEW m \in k.files, NEW n \in l.files,
               At(m.path)' = At(n.path)'
        PROVE  k = l
    <2>1. PICK h \in groups : k = Settle(Less(h, f.path)) /\ Less(h, f.path).files # {}
      BY <1>1
    <2>2. PICK i \in groups : l = Settle(Less(i, f.path)) /\ Less(i, f.path).files # {}
      BY <1>1
    <2>3. PICK j \in h.files : At(m.path)' = At(j.path)
      BY <2>1, LeftIsTrue
    <2>4. PICK q \in i.files : At(n.path)' = At(q.path)
      BY <2>2, LeftIsTrue
    <2>5. h = i
      BY <1>3, <2>3, <2>4 DEF GroupsTrue
    <2> QED
      BY <2>1, <2>2, <2>5
  <1> HIDE DEF GroupTrue
  <1> QED
    BY <1>2, <1>3 DEF GroupsTrue

LEMMA TrashIsQuiet ==
  ASSUME IndInv, LooksKept, Quiet, NEW m \in moving, TrashCopy(m)
  PROVE  Quiet'
  <1>1. phase = "ready" /\ UNCHANGED <<phase, todo, cand, edits>>
    BY DEF LooksKept, TrashCopy, Move
  <1>2. edits = 0 => SearchTrue'
    BY <1>1 DEF Quiet, SearchTrue
  <1>3. CASE UNCHANGED <<world, groups, freed>>
    BY <1>1, <1>2, <1>3, StillQuiet
  <1>4. CASE Move(m.copy)
    <2> SUFFICES ASSUME edits = 0
                 PROVE  (DiskPlain /\ SearchTrue /\ GroupsTrue /\ freed = Total(Bytes, Unheld))'
      BY <1>1 DEF Quiet
    <2>1. PICK g \in groups : g = m.group /\ m.copy \in g.files
      BY DEF LooksKept, LookKept
    <2> DEFINE f == m.copy
    <2>2. DiskOK /\ DiskPlain /\ GroupsTrue /\ freed = Total(Bytes, Unheld)
          /\ \A h \in groups : Grouped(h)
      BY DEF Quiet, IndInv
    <2>3. GroupTrue(g) /\ FilesTrue(g.files) /\ Grouped(g)
      BY <2>2 DEF GroupsTrue, GroupTrue
    <2>4. f \in g.files /\ Move(f)
      BY <1>4, <2>1
    <2> HIDE DEF f
    <2>5. DiskPlain'
      BY <2>2, <2>3, <2>4, MoveIs, OthersStay
    <2>6. GroupsTrue'
      BY <2>2, <2>4, GroupsLeft
    <2>7. freed' = Total(Bytes, Unheld')
      BY <2>2, <2>3, <2>4, MoveFrees
    <2> QED
      BY <1>2, <2>5, <2>6, <2>7
  <1> QED
    BY <1>3, <1>4 DEF TrashCopy

LEMMA SearchIsQuiet ==
  ASSUME PlainDisks, IndInv, Quiet,
         \/ StartDupes \/ PassLength \/ PassHead \/ ClearDupes
         \/ \E p \in Paths : WalkEntry(p) \/ HashHead(p) \/ HashFile(p)
  PROVE  Quiet'
  <1>1. UNCHANGED <<world, freed, edits>> /\ groups' \in {groups, {}}
    BY DEF StartDupes, PassLength, PassHead, ClearDupes, WalkEntry, HashHead, HashFile
  <1>2. ASSUME edits = 0 PROVE SearchTrue'
    <2>1. DiskPlain /\ SearchTrue
      BY <1>2 DEF Quiet
    <2>2. CASE StartDupes
      <3>1. phase' = "walk" /\ todo' = Paths /\ DOMAIN cand = {} /\ cand' = cand
        BY <2>1, <2>2 DEF StartDupes, SearchTrue
      <3> QED
        BY <3>1 DEF SearchTrue
    <2>3. CASE ClearDupes
      <3>1. phase' = "off" /\ DOMAIN cand' = {}
        BY <2>3 DEF ClearDupes
      <3> QED
        BY <3>1 DEF SearchTrue
    <2>4. CASE PassLength \/ PassHead
      BY <2>1, <2>4, LengthIsTrue, HeadIsTrue
    <2>5. ASSUME NEW p \in Paths, WalkEntry(p) \/ HashHead(p) \/ HashFile(p)
          PROVE  SearchTrue'
      BY <2>1, <2>5, WalkIsTrue, HashIsTrue
    <2> QED
      BY <2>2, <2>3, <2>4, <2>5
  <1> QED
    BY <1>1, <1>2, StillQuiet

LEMMA QuietStays ==
  ASSUME PlainDisks, IndInv, LooksKept, Quiet, [Next]_vars
  PROVE  Quiet'
  <1>1. CASE \/ StartDupes \/ PassLength \/ PassHead \/ ClearDupes
             \/ \E p \in Paths : WalkEntry(p) \/ HashHead(p) \/ HashFile(p)
    BY <1>1, SearchIsQuiet
  <1>2. CASE PassContent
    <2> SUFFICES ASSUME edits = 0
                 PROVE  (DiskPlain /\ SearchTrue /\ GroupsTrue /\ freed = Total(Bytes, Unheld))'
      BY <1>2 DEF Quiet, PassContent
    <2>1. DiskPlain /\ SearchTrue /\ freed = Total(Bytes, Unheld)
      BY DEF Quiet
    <2>2. SearchTrue' /\ GroupsTrue'
      BY <1>2, <2>1, ContentIsTrue
    <2>3. UNCHANGED world /\ freed' = freed
      BY <1>2 DEF PassContent
    <2>4. DiskPlain' /\ Unheld' = Unheld
      BY <2>1, <2>3, SameDisk
    <2>5. freed' = Total(Bytes, Unheld')
      BY <2>1, <2>3, <2>4
    <2> QED
      BY <2>2, <2>4, <2>5
  <1>3. ASSUME NEW m \in moving, TrashCopy(m)
        PROVE  Quiet'
    BY <1>3, TrashIsQuiet
  <1>4. CASE \/ \E f \in DOMAIN file, c \in Contents : Edit(f, c)
             \/ \E e \in Entries : Delete(e)
    <2>1. edits' = edits + 1 /\ edits \in Nat
      BY <1>4 DEF Edit, Delete, IndInv, DiskOK
    <2> QED
      BY <2>1 DEF Quiet
  <1>5. CASE \/ UNCHANGED vars
             \/ \E g \in groups : \E f \in g.files : LookAtCopy(g, f)
             \/ \E m \in moving : LookForOther(m)
    <2>1. UNCHANGED <<world, freed, edits>> /\ groups' = groups /\ UNCHANGED <<phase, todo, cand>>
      BY <1>5 DEF vars, LookAtCopy, LookForOther
    <2>2. ASSUME edits = 0 PROVE SearchTrue'
      <3>1. SearchTrue
        BY <2>2 DEF Quiet
      <3>2. entry' = entry /\ file' = file /\ outside' = outside
        BY <2>1 DEF world
      <3> QED
        BY <2>1, <3>1, <3>2
           DEF SearchTrue, CandTrue, MatesListed, There, At, StoreOf, Linked, Named, Names
    <2> QED
      BY <2>1, <2>2, StillQuiet
  <1> QED
    BY <1>1, <1>2, <1>3, <1>4, <1>5 DEF Next

\* For every disk where no file that shares its storage has a second name, and every
\* search and moves on it that no other program disturbs: what the moves are said to
\* free is held by no name any more, and a group offers what trashing all of it but
\* one gives back at the least.
THEOREM OffersAreAlwaysFreed == ASSUME PlainDisks PROVE PartsSpec => []OffersAreFreed
  <1> DEFINE Lasts == part = "copies" => IndInv /\ LooksKept /\ Quiet
  <1>1. PartsInit => Lasts
    <2>1. PartsInit /\ part = "copies" => Init
      BY DEF PartsInit
    <2> QED
      BY <2>1, Starts, LooksBegin, QuietBegins
  <1>2. Lasts /\ [PartsNext]_allVars => Lasts'
    <2> SUFFICES ASSUME Lasts, [PartsNext]_allVars, part' = "copies"
                 PROVE  IndInv' /\ LooksKept' /\ Quiet'
      OBVIOUS
    <2>1. part = "copies" /\ [Next]_vars
      BY PartSteps
    <2> QED
      BY <2>1, ReadingStaysTrue, LooksStayTrue, QuietStays
  <1>3. Lasts => OffersAreFreed
    BY QuietHolds DEF OffersAreFreed
  <1> QED
    BY <1>1, <1>2, <1>3, PTL DEF PartsSpec
=============================================================================
