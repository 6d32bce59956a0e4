-------------------------------- MODULE Dupes ---------------------------------
(* The duplicate search as an algorithm (dupes.rs: walk, three passes, settle, *)
(* spare, remove) and the move of one copy to the Trash (trash_dupe: two looks *)
(* and the system's move), over a disk other programs write to meanwhile. When *)
(* a search runs, and what its late answers may do, is DiskAnalysis's.         *)
(*                                                                             *)
(* A path shows a directory entry, two of them the same one under a bind       *)
(* mount; an entry names a file, and two names of one file are hard links. A   *)
(* clone keeps its bytes where another file's are. Contents are tuples of a    *)
(* length, a head and the rest. An edit moves the file's clock.                *)
EXTENDS Integers, FiniteSetsExt

CONSTANTS
    Paths, Entries, Shows,  \* what the walk meets, and the entry each path shows
    Files, Contents,
    HeadBytes,              \* HEAD_BYTES
    Bytes,                  \* what a storage holds
    Gone, Unread,
    Worlds,                 \* the disks a behaviour may start on
    MaxEdits

VARIABLES
    entry,     \* the directory: the file an entry names, or Gone
    file,      \* content, clock and storage of each file there is
    outside,   \* the files with a name outside the scope
    phase, todo,
    cand,      \* the candidates, by path, with what was read of each
    groups,    \* the result
    stale,
    moving,    \* trash_dupe under way: its locals, and a history of what it saw
    freed,     \* trashed: what the moves are said to give back
    binned,    \* history: the entries this program moved to the Trash
    edits

world == <<entry, file, outside>>
vars == <<world, phase, todo, cand, groups, stale, moving, freed, binned, edits>>

Length(c) == c[1]
HeadOf(c) == c[2]
At(p) == entry[Shows[p]]
There(p) == At(p) # Gone
Names(f) == {e \in Entries : entry[e] = f}

Linked(f) == f \in outside \/ Cardinality(Names(f)) > 1

\* A clone has the content of the file whose storage it shares.
Sound(w) ==
    /\ DOMAIN w.file = {w.entry[e] : e \in Entries} /\ w.outside \subseteq DOMAIN w.file
    /\ \A f, g \in DOMAIN w.file :
          w.file[f].store = w.file[g].store => w.file[f].data = w.file[g].data

ASSUME ShowsEntries == Shows \in [Paths -> Entries]
ASSUME NobodysFile == Gone \notin Files
ASSUME DisksAreFinite ==
    IsFiniteSet(Paths) /\ IsFiniteSet(Entries) /\ \A s \in DOMAIN Bytes : Bytes[s] \in Nat
ASSUME WorldsAreSound ==
    \A w \in Worlds :
        /\ w.entry \in [Entries -> Files] /\ Sound(w)
        /\ \A f \in DOMAIN w.file :
              w.file[f] \in [data : Contents, time : {0}, store : DOMAIN Bytes]
ASSUME ContentsAreRead ==
    \A c \in Contents : Length(c) \in Nat /\ c # Unread /\ HeadOf(c) # Unread
ASSUME HeadsAreWhole ==
    /\ HeadBytes \in Nat
    /\ \A c, d \in Contents :
          /\ Length(c) = Length(d) /\ Length(c) <= HeadBytes
          /\ HeadOf(c) = HeadOf(d)
          => c = d

Init ==
    /\ \E w \in Worlds : entry = w.entry /\ file = w.file /\ outside = w.outside
    /\ phase = "off" /\ todo = {} /\ cand = << >> /\ groups = {}
    /\ stale = FALSE /\ moving = {} /\ freed = 0 /\ binned = {} /\ edits = 0

----------------------------------------------------------------------------
(* The search.                                                                *)

StartDupes ==
    /\ phase = "off"
    /\ phase' = "walk" /\ todo' = Paths
    /\ UNCHANGED <<world, cand, groups, stale, moving, freed, binned, edits>>

Stat(p) ==
    [file |-> At(p), len |-> Length(file[At(p)].data), time |-> file[At(p)].time,
     bytes |-> Bytes[file[At(p)].store], linked |-> Linked(At(p)),
     head |-> Unread, whole |-> Unread]

\* Mutant: a path whose link count is one is listed without asking which file it is.
ListedByLinks(p) == There(p) /\ (Linked(At(p)) => \A q \in DOMAIN cand : cand[q].file # At(p))

\* One path per file.
Listed(p) == There(p) /\ \A q \in DOMAIN cand : cand[q].file # At(p)

WalkEntry(p) ==
    /\ phase = "walk" /\ p \in todo
    /\ todo' = todo \ {p}
    /\ cand' = [q \in DOMAIN cand \cup (IF Listed(p) THEN {p} ELSE {}) |->
                   IF q \in DOMAIN cand THEN cand[q] ELSE Stat(q)]
    /\ UNCHANGED <<world, phase, groups, stale, moving, freed, binned, edits>>

\* What the next pass goes on with: the candidates that share a key with another.
Kept(Key(_)) == {p \in DOMAIN cand : \E q \in DOMAIN cand \ {p} : Key(q) = Key(p)}
Only(set) == [p \in set |-> cand[p]]

ByLength(p) == cand[p].len
ByHead(p) == <<cand[p].len, cand[p].head>>
ByContent(p) == <<cand[p].len, cand[p].head, cand[p].whole>>

PassLength ==
    /\ phase = "walk" /\ todo = {}
    /\ phase' = "heads" /\ todo' = Kept(ByLength) /\ cand' = Only(Kept(ByLength))
    /\ UNCHANGED <<world, groups, stale, moving, freed, binned, edits>>

\* A file that cannot be opened leaves its group.
HashHead(p) ==
    /\ phase = "heads" /\ p \in todo
    /\ todo' = todo \ {p}
    /\ IF There(p)
       THEN cand' = [cand EXCEPT ![p].head = HeadOf(file[At(p)].data)]
       ELSE cand' = Only(DOMAIN cand \ {p})
    /\ UNCHANGED <<world, phase, groups, stale, moving, freed, binned, edits>>

PassHead ==
    /\ phase = "heads" /\ todo = {}
    /\ phase' = "whole" /\ cand' = Only(Kept(ByHead))
    /\ todo' = {p \in Kept(ByHead) : cand[p].len > HeadBytes}
    /\ UNCHANGED <<world, groups, stale, moving, freed, binned, edits>>

HashFile(p) ==
    /\ phase = "whole" /\ p \in todo
    /\ todo' = todo \ {p}
    /\ IF There(p)
       THEN cand' = [cand EXCEPT ![p].whole = file[At(p)].data]
       ELSE cand' = Only(DOMAIN cand \ {p})
    /\ UNCHANGED <<world, phase, groups, stale, moving, freed, binned, edits>>

----------------------------------------------------------------------------
(* The result.                                                                *)

Sum(set, F(_)) == MapThenSumSet(F, set)

\* settle: the storage sets of a group, what can be freed and what is kept.
Reclaimable(files) ==
    LET stores    == {f.store : f \in files}
        Size(s)   == Max({f.bytes : f \in {g \in files : g.store = s}})
        Pinned(s) == \E f \in files : f.store = s /\ f.linked
        free      == Sum({s \in stores : ~Pinned(s)}, Size)
    IN  IF \E s \in stores : Pinned(s) THEN free ELSE free - Max({Size(s) : s \in stores})

Settle(group) ==
    [group EXCEPT
        !.files = {[f EXCEPT !.shares = \E g \in group.files : g # f /\ g.store = f.store] :
                      f \in group.files},
        !.reclaimable = Reclaimable(group.files)]

\* clone_key, asked when the group is built; a path that is gone has its own.
CopyOf(p, time) ==
    [path |-> p, bytes |-> cand[p].bytes, time |-> time,
     linked |-> cand[p].linked, shares |-> FALSE,
     store |-> IF There(p) THEN file[At(p)].store ELSE Gone]

\* Mutant: a copy's clock is read when the group is built, after its content.
CopyLate(p) == CopyOf(p, IF There(p) THEN file[At(p)].time ELSE cand[p].time)

Copy(p) == CopyOf(p, cand[p].time)

Group(paths, len) ==
    Settle([len |-> len, files |-> {Copy(p) : p \in paths}, reclaimable |-> 0])

\* Mutant: the pass over whole files is taken for granted.
PassContentUnread ==
    /\ phase = "whole"
    /\ phase' = "ready" /\ todo' = {} /\ cand' = << >>
    /\ groups' = {Group({q \in Kept(ByHead) : ByHead(q) = ByHead(p)}, cand[p].len) :
                     p \in Kept(ByHead)}
    /\ UNCHANGED <<world, stale, moving, freed, binned, edits>>

PassContent ==
    /\ phase = "whole" /\ todo = {}
    /\ phase' = "ready" /\ todo' = {} /\ cand' = << >>
    /\ groups' = {Group({q \in Kept(ByContent) : ByContent(q) = ByContent(p)}, cand[p].len) :
                     p \in Kept(ByContent)}
    /\ UNCHANGED <<world, stale, moving, freed, binned, edits>>

\* clear_dupes: a running search is cancelled, a finished one put away.
ClearDupes ==
    /\ phase # "off" /\ moving = {}
    /\ phase' = "off" /\ todo' = {} /\ cand' = << >> /\ groups' = {} /\ stale' = FALSE
    /\ UNCHANGED <<world, moving, freed, binned, edits>>

----------------------------------------------------------------------------
(* The move of one copy, in the store's lock: nothing else that the store does *)
(* comes between its steps, and every other program may.                      *)

Unchanged(f, len) ==
    There(f.path) /\ Length(file[At(f.path)].data) = len /\ file[At(f.path)].time = f.time

\* Mutant: a copy that is there is spare, whatever was written to it.
StillStands(f, group) == There(f.path)

\* spare, of the copy itself.
StillItself(f, group) == Unchanged(f, group.len)

\* Mutant: a copy is spare while the search's result lists another.
OtherIsListed(f, group) == group.files # {f}

\* spare, of the others.
OtherStands(f, group) == \E g \in group.files \ {f} : Unchanged(g, group.len)

\* The other entries that name a file with the content.
Holders(content, e) == {d \in Entries \ {e} : entry[d] # Gone /\ file[entry[d]].data = content}

\* was, since and twins are history: what the copy held when it was looked at and how
\* much had been written by then, and who else held it when the others were.
LookAtCopy(group, f) ==
    /\ phase = "ready" /\ moving = {}
    /\ IF StillItself(f, group)
       THEN /\ moving' = {[group |-> group, copy |-> f, spare |-> FALSE,
                           was |-> file[At(f.path)].data, since |-> edits, twins |-> {}]}
            /\ UNCHANGED stale
       ELSE stale' = TRUE /\ UNCHANGED moving
    /\ UNCHANGED <<world, phase, todo, cand, groups, freed, binned, edits>>

\* The others are looked at until one is found.
LookForOther(m) ==
    /\ ~m.spare
    /\ IF OtherStands(m.copy, m.group)
       THEN /\ moving' = {[m EXCEPT !.spare = TRUE,
                                    !.twins = Holders(m.was, Shows[m.copy.path])]}
            /\ UNCHANGED stale
       ELSE moving' = {} /\ stale' = TRUE
    /\ UNCHANGED <<world, phase, todo, cand, groups, freed, binned, edits>>

Frees(f) == IF f.shares \/ f.linked THEN 0 ELSE f.bytes

\* Mutant: the sets are not worked out again when a copy has left.
RemoveUnsettled(path) ==
    {g \in {[h EXCEPT !.files = {f \in @ : f.path # path}] : h \in groups} :
        Cardinality(g.files) > 1}

Remove(path) ==
    {g \in {Settle([h EXCEPT !.files = {f \in @ : f.path # path}]) : h \in groups} :
        Cardinality(g.files) > 1}

Move(f) ==
    /\ entry' = [entry EXCEPT ![Shows[f.path]] = Gone]
    /\ binned' = binned \cup {Shows[f.path]}
    /\ groups' = Remove(f.path)
    /\ freed' = freed + Frees(f)
    /\ UNCHANGED <<file, outside, phase, todo, cand, stale, edits>>

\* finder::trash moves what the path shows by now, or the system refuses.
TrashCopy(m) ==
    /\ m.spare
    /\ moving' = {}
    /\ \/ There(m.copy.path) /\ Move(m.copy)
       \/ UNCHANGED <<world, phase, todo, cand, groups, stale, freed, binned, edits>>

----------------------------------------------------------------------------
(* Other programs.                                                            *)

\* A clone that is written to gets a storage of its own, which only the sums over a
\* disk nobody edits could tell: left out.
Edit(f, c) ==
    /\ edits < MaxEdits /\ edits' = edits + 1
    /\ file' = [file EXCEPT ![f].data = c, ![f].time = edits + 1]
    /\ UNCHANGED <<entry, outside, phase, todo, cand, groups, stale, moving, freed, binned>>

Delete(e) ==
    /\ edits < MaxEdits /\ edits' = edits + 1
    /\ entry[e] # Gone /\ entry' = [entry EXCEPT ![e] = Gone]
    /\ UNCHANGED <<file, outside, phase, todo, cand, groups, stale, moving, freed, binned>>

Next ==
    \/ StartDupes \/ PassLength \/ PassHead \/ PassContent \/ ClearDupes
    \/ \E p \in Paths : WalkEntry(p) \/ HashHead(p) \/ HashFile(p)
    \/ \E g \in groups : \E f \in g.files : LookAtCopy(g, f)
    \/ \E m \in moving : LookForOther(m) \/ TrashCopy(m)
    \/ \E f \in DOMAIN file, c \in Contents : Edit(f, c)
    \/ \E e \in Entries : Delete(e)

Spec == Init /\ [][Next]_vars

----------------------------------------------------------------------------
LastCopyStays ==
    \A e \in binned' \ binned :
        \E m \in moving :
            /\ e = Shows[m.copy.path] /\ m.twins # {}
            /\ edits = m.since => file[entry[e]].data = m.was /\ Holders(m.was, e)' # {}

\* "Never the last" (dupes.rs:42), as of the looks of spare: what the name held when
\* it was looked at, another entry held when the others were, whatever other programs
\* wrote or deleted while the search read, since, and between the two looks. Between
\* those and the move they may still take that entry away or write to either: if they
\* do not, the content stands after the move.
CopiesAreKept == [][LastCopyStays]_vars

Held(s) ==
    \E f \in DOMAIN file : file[f].store = s /\ (f \in outside \/ Names(f) # {})

\* What trashing the group but for the copy k gives back.
GivenBack(group, k) ==
    LET going    == {Shows[f.path] : f \in group.files \ {k}}
        Frees1(s) == /\ Held(s)
                     /\ \A f \in DOMAIN file :
                           file[f].store = s => f \notin outside /\ Names(f) \subseteq going
        Size(s)  == Bytes[s]
    IN  Sum({s \in {file[f].store : f \in DOMAIN file} : Frees1(s)}, Size)

Keepers(group) ==
    LET linked == {f \in group.files : Linked(At(f.path))}
    IN  IF linked # {} THEN linked ELSE group.files

\* On a disk nobody else changed, what the moves were said to give back is what no
\* name holds any more, and a group offers what trashing all of it but one gives
\* back at the least (dupes.rs:37, :158).
FreedIsFreed ==
    LET Size(s) == Bytes[s]
    IN  edits = 0 =>
            /\ freed = Sum({s \in {file[f].store : f \in DOMAIN file} : ~Held(s)}, Size)
            /\ \A g \in groups :
                  g.reclaimable = Min({GivenBack(g, k) : k \in Keepers(g)})
=============================================================================
