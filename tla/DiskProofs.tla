----------------------------- MODULE DiskProofs -----------------------------
(* Theorems about DiskAnalysis, for any scopes, rows and bounds, and their    *)
(* proofs: what is shown as running has its walk, what stands under a result  *)
(* or a chip was found there, and both cards keep the word of Answers.        *)
EXTENDS DiskAnalysis, TLAPS

----------------------------------------------------------------------------
(* The inductive invariant.                                                   *)

\* The walks are numbered apart, up to n.
Unique(all, n) ==
    /\ all \subseteq Walks
    /\ \A w \in all : 0 < w.id /\ w.id <= n
    /\ \A v, w \in all : v.id = w.id => v = w

\* One of them is what somebody waits for.
Has(all, id, kind, at) ==
    \E w \in all : w.id = id /\ w.kind = kind /\ w.at = at /\ ~w.cancelled

ScreenWalked == screen.st = "running" => Has(walks, screen.walk, "top", screen.scope)
SearchWalked == search.st = "running" => Has(walks, search.walk, "dupes", search.scope)
WatchWalked == \A id \in watch : Has(walks, id, "check", Home)

\* The handle of a row's walk is never that of another walk.
RowsApart ==
    /\ \A id \in rowWalk : id <= begun
    /\ \A w \in walks : w.id \in rowWalk => w.kind = "row"

HoldAgrees == \A w \in walks : w.id \in watch => w.hold = held
Aside ==
    /\ watch # {} => screen.st # "running" /\ search.st # "running"
    /\ watch = {} => ~held

\* What is shown and what is kept came from walks begun by now, and a check in
\* flight is younger than what is shown.
Numbered(card) ==
    /\ card.walk <= begun
    /\ card.st \in {"off", "failed"} => card.walk = 0
Older ==
    /\ Numbered(screen) /\ Numbered(search)
    /\ \A id \in watch : screen.walk < id
    /\ \A s \in Scopes : cache[s] # None => cache[s].walk <= begun

IndInv ==
    /\ TypeOK /\ Unique(walks, begun)
    /\ ScreenWalked /\ SearchWalked /\ WatchWalked
    /\ RowsApart /\ HoldAgrees /\ Aside /\ Older

----------------------------------------------------------------------------
(* Sets of walks.                                                             *)

LEMMA StopKeeps ==
  ASSUME NEW n \in Nat, Unique(walks, n), NEW ids
  PROVE  /\ Unique(Stopped(ids), n)
         /\ \A x \in Stopped(ids) : \E w \in walks :
                x.id = w.id /\ x.kind = w.kind /\ x.hold = w.hold
         /\ \A id, kind, at : id \notin ids /\ Has(walks, id, kind, at) => Has(Stopped(ids), id, kind, at)
  <1>1. \A x \in Stopped(ids) : \E w \in walks :
            /\ x.id = w.id /\ x.kind = w.kind /\ x.hold = w.hold
            /\ x = IF w.id \in ids THEN [w EXCEPT !.cancelled = TRUE] ELSE w
    BY DEF Stopped, Unique, Walks
  <1>2. Stopped(ids) \subseteq Walks
    BY DEF Stopped, Unique, Walks
  <1>3. Unique(Stopped(ids), n)
    <2>1. \A x \in Stopped(ids) : 0 < x.id /\ x.id <= n
      BY <1>1 DEF Unique
    <2>2. \A x, y \in Stopped(ids) : x.id = y.id => x = y
      <3> SUFFICES ASSUME NEW x \in Stopped(ids), NEW y \in Stopped(ids), x.id = y.id
                   PROVE  x = y
        OBVIOUS
      <3>1. PICK v \in walks : x.id = v.id /\ x = IF v.id \in ids THEN [v EXCEPT !.cancelled = TRUE] ELSE v
        BY <1>1
      <3>2. PICK w \in walks : y.id = w.id /\ y = IF w.id \in ids THEN [w EXCEPT !.cancelled = TRUE] ELSE w
        BY <1>1
      <3>3. v = w
        BY <3>1, <3>2 DEF Unique
      <3> QED
        BY <3>1, <3>2, <3>3
    <2> QED
      BY <1>2, <2>1, <2>2 DEF Unique
  <1>4. ASSUME NEW w \in walks, w.id \notin ids PROVE w \in Stopped(ids)
    BY <1>4 DEF Stopped
  <1>5. \A id, kind, at : id \notin ids /\ Has(walks, id, kind, at) => Has(Stopped(ids), id, kind, at)
    BY <1>4 DEF Has
  <1> QED
    BY <1>1, <1>3, <1>5

LEMMA AddKeeps ==
  ASSUME NEW n \in Nat, NEW all, Unique(all, n), NEW t \in Walks, t.id = n + 1
  PROVE  /\ Unique(all \cup {t}, n + 1)
         /\ \A id, kind, at : Has(all, id, kind, at) => Has(all \cup {t}, id, kind, at)
         /\ ~t.cancelled => Has(all \cup {t}, t.id, t.kind, t.at)
  <1>1. all \cup {t} \subseteq Walks
    BY DEF Unique
  <1>2. \A w \in all : w.id \in Nat /\ 0 < w.id /\ w.id <= n
    BY DEF Unique, Walks
  <1>3. \A w \in all \cup {t} : 0 < w.id /\ w.id <= n + 1
    BY <1>2
  <1>4. \A v, w \in all \cup {t} : v.id = w.id => v = w
    BY <1>2 DEF Unique
  <1> QED
    BY <1>1, <1>3, <1>4 DEF Unique, Has

LEMMA TakeKeeps ==
  ASSUME NEW n \in Nat, NEW all, Unique(all, n), NEW w \in all
  PROVE  /\ Unique(all \ {w}, n)
         /\ \A id, kind, at : Has(all, id, kind, at) /\ (w.id # id \/ w.kind # kind \/ w.cancelled)
                                  => Has(all \ {w}, id, kind, at)
  BY DEF Unique, Has

----------------------------------------------------------------------------
(* What a step does to the walks: it keeps those that are not stopped, with   *)
(* their kind and their hold, and may begin one.                              *)

Keeps(ids) ==
    \A id, kind, at : id \notin ids /\ Has(walks, id, kind, at) => Has(walks', id, kind, at)
Same == \A x \in walks' : \E w \in walks : x.id = w.id /\ x.kind = w.kind /\ x.hold = w.hold
SameOr(new, kind) ==
    \A x \in walks' :
        \/ x.id = new /\ x.kind = kind /\ x.hold = FALSE
        \/ \E w \in walks : x.id = w.id /\ x.kind = w.kind /\ x.hold = w.hold

LEMMA Begins ==
  ASSUME WalksTyped, Unique(walks, begun), NEW ids, NEW kind \in Kinds, NEW at \in Scopes \cup Rows,
         begun' = begun + 1, walks' = Stopped(ids) \cup {Thread(kind, at)}
  PROVE  /\ Unique(walks', begun') /\ Keeps(ids) /\ SameOr(begun + 1, kind)
         /\ Has(walks', begun + 1, kind, at)
  <1> DEFINE t == Thread(kind, at)
  <1>1. begun \in Nat
    BY DEF WalksTyped
  <1>2. t \in Walks /\ t.id = begun + 1 /\ t.kind = kind /\ t.at = at /\ ~t.cancelled /\ t.hold = FALSE
    BY <1>1 DEF Thread, Walks
  <1> HIDE DEF t
  <1>3. walks' = Stopped(ids) \cup {t}
    BY DEF t
  <1>4. Unique(Stopped(ids), begun)
    BY <1>1, StopKeeps
  <1>5. /\ \A x \in Stopped(ids) : \E w \in walks : x.id = w.id /\ x.kind = w.kind /\ x.hold = w.hold
        /\ \A id, k, a : id \notin ids /\ Has(walks, id, k, a) => Has(Stopped(ids), id, k, a)
    BY <1>1, StopKeeps
  <1>6. /\ Unique(walks', begun + 1)
        /\ \A id, k, a : Has(Stopped(ids), id, k, a) => Has(walks', id, k, a)
        /\ ~t.cancelled => Has(walks', t.id, t.kind, t.at)
    BY <1>1, <1>2, <1>3, <1>4, AddKeeps
  <1>7. Keeps(ids)
    BY <1>5, <1>6 DEF Keeps
  <1>8. SameOr(begun + 1, kind)
    BY <1>2, <1>3, <1>5 DEF SameOr
  <1> QED
    BY <1>2, <1>6, <1>7, <1>8

LEMMA Stops ==
  ASSUME WalksTyped, Unique(walks, begun), NEW ids, begun' = begun, walks' = Stopped(ids)
  PROVE  Unique(walks', begun') /\ Keeps(ids) /\ Same
  BY StopKeeps DEF Keeps, Same, WalksTyped

LEMMA Takes ==
  ASSUME WalksTyped, Unique(walks, begun), NEW w \in walks, begun' = begun, walks' = walks \ {w}
  PROVE  Unique(walks', begun') /\ Keeps({w.id}) /\ Same
  BY TakeKeeps DEF Keeps, Same, WalksTyped

LEMMA StopsAndTakes ==
  ASSUME WalksTyped, Unique(walks, begun), NEW ids, NEW w \in walks, begun' = begun,
         walks' = Stopped(ids) \ {w}
  PROVE  Unique(walks', begun') /\ Keeps(ids \cup {w.id}) /\ Same
  <1>1. /\ Unique(Stopped(ids), begun)
        /\ \A x \in Stopped(ids) : \E v \in walks : x.id = v.id /\ x.kind = v.kind /\ x.hold = v.hold
        /\ \A id, k, a : id \notin ids /\ Has(walks, id, k, a) => Has(Stopped(ids), id, k, a)
    BY StopKeeps DEF WalksTyped
  <1>2. Unique(walks', begun')
    BY <1>1 DEF Unique
  <1>3. Keeps(ids \cup {w.id})
    BY <1>1 DEF Keeps, Has
  <1> QED
    BY <1>1, <1>2, <1>3 DEF Same

LEMMA Says ==
  ASSUME WalksTyped, Unique(walks, begun), NEW w \in walks, NEW said \in {"done", "failed"},
         begun' = begun, walks' = (walks \ {w}) \cup {[w EXCEPT !.said = said]}
  PROVE  Unique(walks', begun') /\ Keeps({}) /\ Same
  <1> DEFINE x == [w EXCEPT !.said = said]
  <1>1. w \in Walks
    BY DEF Unique
  <1>2. /\ x \in Walks /\ x.id = w.id /\ x.kind = w.kind /\ x.hold = w.hold
        /\ x.at = w.at /\ x.cancelled = w.cancelled
    BY <1>1 DEF Walks
  <1> HIDE DEF x
  <1>3. walks' = (walks \ {w}) \cup {x}
    BY DEF x
  <1>4. Unique(walks', begun')
    BY <1>2, <1>3 DEF Unique
  <1>5. Keeps({})
    BY <1>2, <1>3 DEF Keeps, Has
  <1>6. Same
    BY <1>2, <1>3 DEF Same
  <1> QED
    BY <1>4, <1>5, <1>6

----------------------------------------------------------------------------
(* The walks that are waited for are different walks.                         *)

LEMMA Apart ==
  ASSUME IndInv
  PROVE  /\ search.st = "running" => search.walk \notin Running(screen) \cup watch \cup rowWalk
         /\ screen.st = "running" => screen.walk \notin Running(search) \cup watch \cup rowWalk
         /\ \A id \in watch : id \notin Running(screen) \cup Running(search) \cup rowWalk
  <1>1. \A id, k, l, a, b : Has(walks, id, k, a) /\ Has(walks, id, l, b) => k = l
    BY DEF IndInv, Unique, Has
  <1>2. \A id \in rowWalk : \A k, a : Has(walks, id, k, a) => k = "row"
    BY DEF IndInv, RowsApart, Has
  <1> QED
    BY <1>1, <1>2 DEF IndInv, ScreenWalked, SearchWalked, WatchWalked, Running

\* What a step that leaves the handles alone keeps of them.
LEMMA HandlesKept ==
  ASSUME IndInv,
         \/ begun' = begun /\ Same
         \/ begun' = begun + 1 /\ \E kind : SameOr(begun + 1, kind)
  PROVE  /\ UNCHANGED rowWalk => RowsApart'
         /\ UNCHANGED <<watch, held>> => HoldAgrees'
  <1>1. begun \in Nat /\ (\A id \in rowWalk : id \in Nat /\ id <= begun) /\ begun <= begun'
    BY DEF IndInv, TypeOK, WalksTyped, RowsTyped, RowsApart
  <1>2. \A id \in watch : id \in Nat /\ id <= begun
    BY DEF IndInv, TypeOK, CheckTyped, WatchWalked, Has, Unique
  <1>3. \A x \in walks' :
            \/ x.id = begun + 1
            \/ \E w \in walks : x.id = w.id /\ x.kind = w.kind /\ x.hold = w.hold
    BY DEF Same, SameOr
  <1>4. ASSUME UNCHANGED rowWalk PROVE RowsApart'
    <2>1. \A id \in rowWalk' : id <= begun'
      BY <1>1, <1>4 DEF IndInv, TypeOK, WalksTyped
    <2>2. \A x \in walks' : x.id \in rowWalk' => x.kind = "row"
      BY <1>1, <1>3, <1>4 DEF IndInv, RowsApart
    <2> QED
      BY <2>1, <2>2 DEF RowsApart
  <1>5. ASSUME UNCHANGED <<watch, held>> PROVE HoldAgrees'
    BY <1>1, <1>2, <1>3, <1>5 DEF IndInv, HoldAgrees
  <1> QED
    BY <1>4, <1>5

----------------------------------------------------------------------------
(* One lemma per action.                                                      *)

LEMMA StartNext == ASSUME IndInv, Start PROVE IndInv'
  <1> DEFINE ids == Running(screen) \cup watch \cup rowWalk
             at == Default(picked)
  <1>1. at \in Scopes
    BY DiskAssumption DEF IndInv, TypeOK, FilesTyped, Default
  <1>2. WalksTyped /\ Unique(walks, begun) /\ "top" \in Kinds
    BY DEF IndInv, TypeOK, Kinds
  <1>3. begun' = begun + 1 /\ walks' = Stopped(ids) \cup {Thread("top", at)}
    BY DEF Start
  <1> HIDE DEF ids, at
  <1>4. /\ Unique(walks', begun') /\ Keeps(ids) /\ SameOr(begun + 1, "top")
        /\ Has(walks', begun + 1, "top", at)
    BY <1>1, <1>2, <1>3, Begins
  <1>5. TypeOK'
    <2>1. begun' \in Nat /\ begun' = begun + 1
      BY <1>2, <1>3 DEF WalksTyped
    <2>2. WalksTyped'
      BY <1>4, <2>1 DEF WalksTyped, Unique
    <2>3. CardsTyped'
      BY <1>1, <2>1 DEF Start, IndInv, TypeOK, CardsTyped, Card, States, at
    <2>4. RowsTyped'
      BY DEF Start, CloseRows, Closed, IndInv, TypeOK, RowsTyped
    <2>5. CheckTyped'
      BY DEF Start, StopCheck, IndInv, TypeOK, CheckTyped
    <2>6. FilesTyped'
      BY DEF Start, IndInv, TypeOK, FilesTyped, files
    <2> QED
      BY <2>2, <2>3, <2>4, <2>5, <2>6 DEF TypeOK
  <1>6. ScreenWalked'
    BY <1>4 DEF Start, ScreenWalked, at
  <1>7. SearchWalked'
    BY <1>4, Apart DEF Start, IndInv, SearchWalked, Keeps, ids
  <1>8. WatchWalked' /\ HoldAgrees' /\ Aside'
    BY DEF Start, StopCheck, IndInv, WatchWalked, HoldAgrees, Aside, TypeOK, CheckTyped
  <1>9. RowsApart' /\ Older'
    BY <1>2, <1>3 DEF Start, CloseRows, StopCheck, IndInv, RowsApart, Older, Numbered,
                      TypeOK, CardsTyped, Card, WalksTyped, files, FilesTyped, Results
  <1> QED
    BY <1>4, <1>5, <1>6, <1>7, <1>8, <1>9 DEF IndInv

LEMMA FindDupesNext == ASSUME IndInv, NEW scope \in Scopes, FindDupes(scope) PROVE IndInv'
  <1> DEFINE ids == Running(search) \cup watch
  <1>2. WalksTyped /\ Unique(walks, begun) /\ "dupes" \in Kinds
    BY DEF IndInv, TypeOK, Kinds
  <1>3. begun' = begun + 1 /\ walks' = Stopped(ids) \cup {Thread("dupes", scope)}
    BY DEF FindDupes
  <1> HIDE DEF ids
  <1>4. /\ Unique(walks', begun') /\ Keeps(ids) /\ SameOr(begun + 1, "dupes")
        /\ Has(walks', begun + 1, "dupes", scope)
    BY <1>2, <1>3, Begins
  <1>5. TypeOK'
    <2>1. begun' \in Nat /\ begun' = begun + 1
      BY <1>2, <1>3 DEF WalksTyped
    <2>2. WalksTyped'
      BY <1>4, <2>1 DEF WalksTyped, Unique
    <2>3. CardsTyped'
      BY <2>1 DEF FindDupes, IndInv, TypeOK, CardsTyped, Card, States
    <2>4. RowsTyped' /\ FilesTyped'
      BY DEF FindDupes, IndInv, TypeOK, FilesTyped, files, RowsTyped, rows
    <2>5. CheckTyped'
      BY DEF FindDupes, StopCheck, IndInv, TypeOK, CheckTyped
    <2> QED
      BY <2>2, <2>3, <2>4, <2>5 DEF TypeOK
  <1>6. SearchWalked'
    BY <1>4 DEF FindDupes, SearchWalked
  <1>7. ScreenWalked'
    BY <1>4, Apart DEF FindDupes, IndInv, ScreenWalked, Keeps, ids
  <1>8. WatchWalked' /\ HoldAgrees' /\ Aside'
    BY DEF FindDupes, StopCheck, IndInv, WatchWalked, HoldAgrees, Aside, TypeOK, CheckTyped
  <1>9. RowsApart'
    BY <1>3, <1>4, HandlesKept DEF FindDupes, rows
  <1>10. Older'
    BY <1>2, <1>3 DEF FindDupes, StopCheck, IndInv, Older, Numbered,
                      TypeOK, CardsTyped, Card, WalksTyped, files, FilesTyped, Results
  <1> QED
    BY <1>4, <1>5, <1>6, <1>7, <1>8, <1>9, <1>10 DEF IndInv

LEMMA StartCheckNext == ASSUME IndInv, StartCheck PROVE IndInv'
  <1>1. Stopped({}) = walks
    BY DEF Stopped
  <1>2. WalksTyped /\ Unique(walks, begun) /\ "check" \in Kinds /\ Home \in Scopes
    BY DiskAssumption DEF IndInv, TypeOK, Kinds
  <1>3. begun' = begun + 1 /\ walks' = Stopped({}) \cup {Thread("check", Home)}
    BY <1>1 DEF StartCheck
  <1>4. /\ Unique(walks', begun') /\ Keeps({}) /\ SameOr(begun + 1, "check")
        /\ Has(walks', begun + 1, "check", Home)
    BY <1>2, <1>3, Begins
  <1>5. TypeOK'
    <2>1. begun' \in Nat /\ begun' = begun + 1
      BY <1>2, <1>3 DEF WalksTyped
    <2>2. WalksTyped'
      BY <1>4, <2>1 DEF WalksTyped, Unique
    <2>3. CardsTyped' /\ RowsTyped' /\ FilesTyped'
      BY DEF StartCheck, IndInv, TypeOK, CardsTyped, FilesTyped, files, RowsTyped, rows
    <2>4. CheckTyped'
      BY <2>1 DEF StartCheck, IndInv, TypeOK, CheckTyped
    <2> QED
      BY <2>2, <2>3, <2>4 DEF TypeOK
  <1>6. ScreenWalked' /\ SearchWalked' /\ WatchWalked' /\ Aside'
    BY <1>4 DEF StartCheck, IndInv, ScreenWalked, SearchWalked, WatchWalked, Aside
  <1>7. HoldAgrees'
    <2>1. \A w \in walks : w.id # begun + 1
      BY <1>2 DEF Unique, WalksTyped, Walks
    <2> QED
      BY <1>4, <2>1 DEF StartCheck, HoldAgrees, SameOr
  <1>8. RowsApart'
    BY <1>3, <1>4, HandlesKept DEF StartCheck, rows
  <1>9. Older'
    BY <1>2 DEF StartCheck, IndInv, Older, Numbered, WalksTyped, TypeOK, CardsTyped, Card,
                files, FilesTyped, Results
  <1> QED
    BY <1>4, <1>5, <1>6, <1>7, <1>8, <1>9 DEF IndInv

LEMMA WalkRowNext ==
  ASSUME IndInv, NEW r \in Rows, WalkRow(r), screen.st = "ready",
         UNCHANGED <<screen, picked, kept, diff, check, search, chip, files, restarts>>
  PROVE  IndInv'
  <1>2. WalksTyped /\ Unique(walks, begun) /\ "row" \in Kinds
    BY DEF IndInv, TypeOK, Kinds
  <1>3. begun' = begun + 1 /\ walks' = Stopped(rowWalk) \cup {Thread("row", r)}
    BY DEF WalkRow
  <1>4. /\ Unique(walks', begun') /\ Keeps(rowWalk) /\ SameOr(begun + 1, "row")
        /\ Has(walks', begun + 1, "row", r)
    BY <1>2, <1>3, Begins
  <1>5. TypeOK'
    <2>1. begun' \in Nat /\ begun' = begun + 1
      BY <1>2, <1>3 DEF WalksTyped
    <2>2. WalksTyped'
      BY <1>4, <2>1 DEF WalksTyped, Unique
    <2>3. RowsTyped'
      BY <2>1 DEF WalkRow, IndInv, TypeOK, RowsTyped, CardsTyped, Card
    <2>4. CardsTyped' /\ CheckTyped' /\ FilesTyped'
      BY DEF IndInv, TypeOK, CardsTyped, FilesTyped, files, CheckTyped, check
    <2> QED
      BY <2>2, <2>3, <2>4 DEF TypeOK
  <1>6. ScreenWalked' /\ SearchWalked' /\ WatchWalked' /\ Aside'
    BY <1>4, Apart DEF IndInv, ScreenWalked, SearchWalked, WatchWalked, Aside, check, Keeps
  <1>7. HoldAgrees'
    BY <1>3, <1>4, HandlesKept DEF check
  <1>8. RowsApart'
    <2>1. \A w \in walks : w.id # begun + 1
      BY <1>2 DEF Unique, WalksTyped, Walks
    <2>2. begun' = begun + 1 /\ rowWalk' = {begun + 1} /\ begun \in Nat
      BY <1>2 DEF WalkRow, WalksTyped
    <2> QED
      BY <1>4, <2>1, <2>2 DEF RowsApart, SameOr
  <1>9. Older'
    BY <1>2 DEF WalkRow, IndInv, Older, Numbered, WalksTyped, TypeOK, CardsTyped, Card,
                files, FilesTyped, Results, check
  <1> QED
    BY <1>4, <1>5, <1>6, <1>7, <1>8, <1>9 DEF IndInv

LEMMA SaveKeeps ==
  ASSUME IndInv, NEW result \in Results, result.walk <= begun, NEW rotate, SaveCache(result, rotate)
  PROVE  /\ cache' \in [Scopes -> Results \cup {None}] /\ prev' \in [Scopes -> Results \cup {None}]
         /\ unsaved' \subseteq Scopes /\ errors' \in Nat
         /\ \A s \in Scopes : cache'[s] # None => cache'[s].walk <= begun
  <1>1. result.scope \in Scopes
    BY DEF Results
  <1>2. /\ cache \in [Scopes -> Results \cup {None}] /\ prev \in [Scopes -> Results \cup {None}]
        /\ unsaved \subseteq Scopes /\ errors \in Nat
        /\ \A s \in Scopes : cache[s] # None => cache[s].walk <= begun
    BY DEF IndInv, TypeOK, FilesTyped, Older
  <1>3. cache' = cache \/ cache' = [cache EXCEPT ![result.scope] = result]
    BY DEF SaveCache
  <1>4. prev' = prev \/ prev' = [prev EXCEPT ![result.scope] = cache[result.scope]]
    BY DEF SaveCache
  <1>5. unsaved' \subseteq Scopes /\ errors' \in Nat
    BY <1>1, <1>2 DEF SaveCache
  <1> QED
    BY <1>1, <1>2, <1>3, <1>4, <1>5

----------------------------------------------------------------------------
(* The presses that stop walks and begin none.                                *)

LEMMA PickRootNext == ASSUME IndInv, PickRoot PROVE IndInv'
  <1> DEFINE ids == Running(screen) \cup rowWalk
  <1>1. begun' = begun /\ walks' = Stopped(ids)
    BY DEF PickRoot
  <1> HIDE DEF ids
  <1>2. Unique(walks', begun') /\ Keeps(ids) /\ Same
    BY <1>1, Stops DEF IndInv, TypeOK
  <1>3. TypeOK'
    BY <1>1, <1>2, DiskAssumption
    DEF PickRoot, CloseRows, Closed, Blank, check, files, IndInv, TypeOK, WalksTyped, Unique,
        CardsTyped, Card, States, RowsTyped, CheckTyped, FilesTyped
  <1>4. ScreenWalked' /\ SearchWalked' /\ WatchWalked' /\ Aside'
    BY <1>2, Apart DEF PickRoot, Blank, check, IndInv, ScreenWalked, SearchWalked, WatchWalked,
                       Aside, Keeps, ids
  <1>5. RowsApart' /\ HoldAgrees'
    BY <1>1, <1>2, HandlesKept DEF PickRoot, CloseRows, check, RowsApart
  <1>6. Older'
    BY <1>1 DEF PickRoot, Blank, check, files, IndInv, Older, Numbered, TypeOK, WalksTyped,
                CardsTyped, Card, CheckTyped, Has, WatchWalked, Unique
  <1> QED
    BY <1>2, <1>3, <1>4, <1>5, <1>6 DEF IndInv

LEMMA CancelNext == ASSUME IndInv, Cancel PROVE IndInv'
  <1> DEFINE ids == Running(screen)
  <1>1. begun' = begun /\ walks' = Stopped(ids)
    BY DEF Cancel
  <1> HIDE DEF ids
  <1>2. Unique(walks', begun') /\ Keeps(ids) /\ Same
    BY <1>1, Stops DEF IndInv, TypeOK
  <1>3. TypeOK'
    BY <1>1, <1>2, DiskAssumption
    DEF Cancel, rows, Blank, check, files, IndInv, TypeOK, WalksTyped, Unique,
        CardsTyped, Card, States, RowsTyped, CheckTyped, FilesTyped
  <1>4. ScreenWalked' /\ SearchWalked' /\ WatchWalked' /\ Aside'
    BY <1>2, Apart DEF Cancel, Blank, check, IndInv, ScreenWalked, SearchWalked, WatchWalked,
                       Aside, Keeps, ids
  <1>5. RowsApart' /\ HoldAgrees'
    BY <1>1, <1>2, HandlesKept DEF Cancel, rows, check
  <1>6. Older'
    BY <1>1 DEF Cancel, Blank, check, files, IndInv, Older, Numbered, TypeOK, WalksTyped,
                CardsTyped, Card, CheckTyped, Has, WatchWalked, Unique
  <1> QED
    BY <1>2, <1>3, <1>4, <1>5, <1>6 DEF IndInv

LEMMA ClearNext == ASSUME IndInv, Clear PROVE IndInv'
  <1>1. begun' = begun /\ walks' = Stopped(rowWalk)
    BY DEF Clear
  <1>2. Unique(walks', begun') /\ Keeps(rowWalk) /\ Same
    BY <1>1, Stops DEF IndInv, TypeOK
  <1>3. TypeOK'
    <2>1. WalksTyped' /\ CardsTyped' /\ RowsTyped' /\ CheckTyped'
      BY <1>1, <1>2, DiskAssumption
      DEF Clear, CloseRows, Closed, Blank, check, IndInv, TypeOK, WalksTyped, Unique,
          CardsTyped, Card, States, RowsTyped, CheckTyped
    <2>2. FilesTyped'
      BY DEF Clear, IndInv, TypeOK, FilesTyped
    <2> QED
      BY <2>1, <2>2 DEF TypeOK
  <1>4. ScreenWalked' /\ SearchWalked' /\ WatchWalked' /\ Aside'
    BY <1>2, Apart DEF Clear, Blank, check, IndInv, ScreenWalked, SearchWalked, WatchWalked,
                       Aside, Keeps
  <1>5. RowsApart' /\ HoldAgrees'
    BY <1>1, <1>2, HandlesKept DEF Clear, CloseRows, check, RowsApart
  <1>6. Older'
    BY <1>1 DEF Clear, Blank, check, IndInv, Older, Numbered, TypeOK, WalksTyped, FilesTyped,
                CardsTyped, Card, CheckTyped, Has, WatchWalked, Unique
  <1> QED
    BY <1>2, <1>3, <1>4, <1>5, <1>6 DEF IndInv

LEMMA ResetViewsNext == ASSUME IndInv, ResetViews PROVE IndInv'
  <1>1. begun' = begun /\ walks' = Stopped(rowWalk)
    BY DEF ResetViews
  <1>2. Unique(walks', begun') /\ Keeps(rowWalk) /\ Same
    BY <1>1, Stops DEF IndInv, TypeOK
  <1>3. TypeOK'
    BY <1>1, <1>2
    DEF ResetViews, CloseRows, Closed, check, files, IndInv, TypeOK, WalksTyped, Unique,
        CardsTyped, RowsTyped, CheckTyped, FilesTyped
  <1>4. ScreenWalked' /\ SearchWalked' /\ WatchWalked' /\ Aside'
    BY <1>2, Apart DEF ResetViews, check, IndInv, ScreenWalked, SearchWalked, WatchWalked,
                       Aside, Keeps
  <1>5. RowsApart' /\ HoldAgrees'
    BY <1>1, <1>2, HandlesKept DEF ResetViews, CloseRows, check, RowsApart
  <1>6. Older'
    BY <1>1 DEF ResetViews, check, files, IndInv, Older, Numbered
  <1> QED
    BY <1>2, <1>3, <1>4, <1>5, <1>6 DEF IndInv

LEMMA ClearDupesNext == ASSUME IndInv, NEW scope \in Scopes, ClearDupes(scope) PROVE IndInv'
  <1> DEFINE ids == Running(search)
  <1>1. begun' = begun /\ walks' = Stopped(ids)
    BY DEF ClearDupes
  <1> HIDE DEF ids
  <1>2. Unique(walks', begun') /\ Keeps(ids) /\ Same
    BY <1>1, Stops DEF IndInv, TypeOK
  <1>3. TypeOK'
    BY <1>1, <1>2, DiskAssumption
    DEF ClearDupes, rows, Blank, check, files, IndInv, TypeOK, WalksTyped, Unique,
        CardsTyped, Card, States, RowsTyped, CheckTyped, FilesTyped
  <1>4. ScreenWalked' /\ SearchWalked' /\ WatchWalked' /\ Aside'
    BY <1>2, Apart DEF ClearDupes, Blank, check, IndInv, ScreenWalked, SearchWalked, WatchWalked,
                       Aside, Keeps, ids
  <1>5. RowsApart' /\ HoldAgrees'
    BY <1>1, <1>2, HandlesKept DEF ClearDupes, rows, check
  <1>6. Older'
    BY <1>1 DEF ClearDupes, Blank, check, files, IndInv, Older, Numbered, TypeOK, WalksTyped
  <1> QED
    BY <1>2, <1>3, <1>4, <1>5, <1>6 DEF IndInv

----------------------------------------------------------------------------
(* The check held or let go on, a walk that ends, and answers that land.      *)

LEMMA HoldCheckNext == ASSUME IndInv, HoldCheck PROVE IndInv'
  <1>1. walks \subseteq Walks /\ held \in BOOLEAN /\ begun' = begun
    BY DEF IndInv, TypeOK, WalksTyped, CheckTyped, HoldCheck
  <1>2. \A x \in walks' : \E w \in walks : x = IF w.id \in watch THEN [w EXCEPT !.hold = ~held] ELSE w
    BY DEF HoldCheck
  <1>3. \A w \in walks : (IF w.id \in watch THEN [w EXCEPT !.hold = ~held] ELSE w) \in walks'
    BY DEF HoldCheck
  <1>4. \A x \in walks' : \E w \in walks :
            /\ x = IF w.id \in watch THEN [w EXCEPT !.hold = ~held] ELSE w
            /\ x \in Walks /\ x.id = w.id /\ x.kind = w.kind
            /\ x.id \in watch => x.hold = ~held
    <2> SUFFICES ASSUME NEW x \in walks' PROVE \E w \in walks :
            /\ x = IF w.id \in watch THEN [w EXCEPT !.hold = ~held] ELSE w
            /\ x \in Walks /\ x.id = w.id /\ x.kind = w.kind
            /\ x.id \in watch => x.hold = ~held
      OBVIOUS
    <2>1. PICK w \in walks : x = IF w.id \in watch THEN [w EXCEPT !.hold = ~held] ELSE w
      BY <1>2
    <2>2. w \in Walks /\ (~held) \in BOOLEAN
      BY <1>1
    <2>3. CASE w.id \in watch
      <3>1. x = [w EXCEPT !.hold = ~held]
        BY <2>1, <2>3
      <3>2. x \in Walks /\ x.id = w.id /\ x.kind = w.kind /\ x.hold = (~held)
        BY <2>2, <3>1 DEF Walks
      <3> QED
        BY <2>1, <3>2
    <2>4. CASE w.id \notin watch
      BY <2>1, <2>2, <2>4
    <2> QED
      BY <2>3, <2>4
  <1>5. Unique(walks', begun')
    <2>1. walks' \subseteq Walks /\ \A x \in walks' : 0 < x.id /\ x.id <= begun
      BY <1>4 DEF IndInv, Unique
    <2>2. \A x, y \in walks' : x.id = y.id => x = y
      <3> SUFFICES ASSUME NEW x \in walks', NEW y \in walks', x.id = y.id PROVE x = y
        OBVIOUS
      <3>1. PICK v \in walks : x.id = v.id /\ x = IF v.id \in watch THEN [v EXCEPT !.hold = ~held] ELSE v
        BY <1>4
      <3>2. PICK w \in walks : y.id = w.id /\ y = IF w.id \in watch THEN [w EXCEPT !.hold = ~held] ELSE w
        BY <1>4
      <3>3. v = w
        BY <3>1, <3>2 DEF IndInv, Unique
      <3> QED
        BY <3>1, <3>2, <3>3
    <2> QED
      BY <1>1, <2>1, <2>2 DEF Unique
  <1>6. \A id, k, a : Has(walks, id, k, a) => Has(walks', id, k, a)
    <2> SUFFICES ASSUME NEW id, NEW k, NEW a, Has(walks, id, k, a) PROVE Has(walks', id, k, a)
      OBVIOUS
    <2>1. PICK w \in walks : w.id = id /\ w.kind = k /\ w.at = a /\ ~w.cancelled
      BY DEF Has
    <2>2. w \in Walks
      BY <1>1
    <2>3. [w EXCEPT !.hold = ~held].id = id /\ [w EXCEPT !.hold = ~held].kind = k
          /\ [w EXCEPT !.hold = ~held].at = a /\ ~[w EXCEPT !.hold = ~held].cancelled
      BY <2>1, <2>2 DEF Walks
    <2> QED
      BY <1>3, <2>1, <2>3 DEF Has
  <1>7. TypeOK'
    <2>1. WalksTyped' /\ CardsTyped' /\ RowsTyped' /\ FilesTyped'
      BY <1>1, <1>5 DEF HoldCheck, rows, files, IndInv, TypeOK, WalksTyped, Unique, CardsTyped,
                        RowsTyped, FilesTyped
    <2>2. watch' = watch /\ walkedHome' = walkedHome /\ held' = (~held)
      BY DEF HoldCheck
    <2>3. CheckTyped'
      BY <1>1, <2>2 DEF CheckTyped, IndInv, TypeOK
    <2> QED
      BY <2>1, <2>3 DEF TypeOK
  <1>8. ScreenWalked' /\ SearchWalked' /\ WatchWalked' /\ Aside'
    BY <1>6 DEF HoldCheck, IndInv, ScreenWalked, SearchWalked, WatchWalked, Aside
  <1>9. RowsApart' /\ HoldAgrees'
    BY <1>1, <1>4 DEF HoldCheck, rows, IndInv, RowsApart, HoldAgrees
  <1>10. Older'
    BY <1>1 DEF HoldCheck, files, IndInv, Older, Numbered
  <1> QED
    BY <1>5, <1>7, <1>8, <1>9, <1>10 DEF IndInv

LEMMA WalkEndsNext == ASSUME IndInv, NEW w \in walks, WalkEnds(w) PROVE IndInv'
  <1>1. WalksTyped /\ Unique(walks, begun) /\ begun' = begun
    BY DEF IndInv, TypeOK, WalkEnds
  <1>3. Unique(walks', begun') /\ Same /\ \A id, k, a : Has(walks, id, k, a) => Has(walks', id, k, a)
    <2>1. CASE w.cancelled /\ walks' = walks \ {w}
      BY <1>1, <2>1, TakeKeeps DEF WalksTyped, Same
    <2>2. ASSUME NEW said \in {"done", "failed"},
                 walks' = (walks \ {w}) \cup {[w EXCEPT !.said = said]}
          PROVE  Unique(walks', begun') /\ Same /\ Keeps({})
      BY <1>1, <2>2, Says
    <2> QED
      BY <2>1, <2>2 DEF WalkEnds, Keeps
  <1>4. TypeOK'
    BY <1>1, <1>3 DEF WalkEnds, check, files, rows, IndInv, TypeOK, WalksTyped, Unique,
        CardsTyped, RowsTyped, CheckTyped, FilesTyped
  <1>5. ScreenWalked' /\ SearchWalked' /\ WatchWalked' /\ Aside'
    BY <1>3 DEF WalkEnds, check, IndInv, ScreenWalked, SearchWalked, WatchWalked, Aside
  <1>6. RowsApart' /\ HoldAgrees'
    BY <1>1, <1>3, HandlesKept DEF WalkEnds, rows, check
  <1>7. Older'
    BY <1>1 DEF WalkEnds, check, files, IndInv, Older, Numbered
  <1> QED
    BY <1>3, <1>4, <1>5, <1>6, <1>7 DEF IndInv

LEMMA PickNext == ASSUME IndInv, NEW scope \in Scopes, Pick(scope) PROVE IndInv'
  <1>1. walks' = walks /\ begun' = begun /\ screen' = screen /\ search' = search
        /\ rowWalk' = rowWalk /\ watch' = watch /\ held' = held /\ cache' = cache
    BY DEF Pick, rows, check, files
  <1>2. TypeOK'
    BY DEF Pick, rows, check, files, IndInv, TypeOK, WalksTyped, CardsTyped, RowsTyped,
           CheckTyped, FilesTyped
  <1> QED
    BY <1>1, <1>2 DEF IndInv, Unique, ScreenWalked, SearchWalked, WatchWalked, RowsApart,
                      HoldAgrees, Aside, Older, Numbered

LEMMA ToggleNext == ASSUME IndInv, NEW r \in Rows, Toggle(r) PROVE IndInv'
  <1>1. CASE WalkRow(r) /\ screen.st = "ready"
    BY <1>1, WalkRowNext DEF Toggle
  <1>2. CASE UNCHANGED <<begun, walks, rowRun, rowWalk>>
             /\ \E v \in {Closed, [st |-> "ready", of |-> screen.walk]} :
                    expanded' = [expanded EXCEPT ![r] = v]
    <2>1. walks' = walks /\ begun' = begun /\ screen' = screen /\ search' = search
          /\ rowWalk' = rowWalk /\ watch' = watch /\ held' = held /\ cache' = cache
      BY <1>2 DEF Toggle, check, files
    <2>2. TypeOK'
      BY <1>2 DEF Toggle, Closed, check, files, IndInv, TypeOK, WalksTyped, CardsTyped, Card,
                  RowsTyped, CheckTyped, FilesTyped
    <2> QED
      BY <2>1, <2>2 DEF IndInv, Unique, ScreenWalked, SearchWalked, WatchWalked, RowsApart,
                        HoldAgrees, Aside, Older, Numbered
  <1> QED
    BY <1>1, <1>2 DEF Toggle

LEMMA MeasureNext == ASSUME IndInv, NEW r \in Rows, Measure(r) PROVE IndInv'
  BY WalkRowNext DEF Measure

\* The walk that a card waits for is the walk its answer comes from.
LEMMA Owner ==
  ASSUME IndInv, NEW w \in walks
  PROVE  /\ w.kind = "top" /\ w.id \in Running(screen) =>
                screen.st = "running" /\ w.id = screen.walk /\ w.at = screen.scope /\ w.at \in Scopes
         /\ w.kind = "dupes" /\ w.id \in Running(search) =>
                search.st = "running" /\ w.id = search.walk /\ w.at = search.scope /\ w.at \in Scopes
         /\ w.kind = "check" /\ w.id \in watch => w.at = Home /\ w.at \in Scopes
         /\ w.id \in Nat /\ 0 < w.id /\ w.id <= begun
  <1>1. \A id, k, a : Has(walks, id, k, a) /\ w.id = id => w.at = a
    BY DEF IndInv, Unique, Has
  <1> QED
    BY <1>1, DiskAssumption DEF IndInv, TypeOK, CardsTyped, Card, ScreenWalked, SearchWalked,
                                WatchWalked, Running, Unique, Walks

LEMMA LandTopNext == ASSUME IndInv, NEW w \in walks, LandTop(w) PROVE IndInv'
  <1>1. WalksTyped /\ Unique(walks, begun) /\ begun \in Nat /\ begun' = begun /\ walks' = walks \ {w}
        /\ w.kind = "top"
    BY DEF IndInv, TypeOK, WalksTyped, LandTop
  <1>2. Unique(walks', begun') /\ Keeps({w.id}) /\ Same
    BY <1>1, Takes
  <1>3. \A id, k, a : Has(walks, id, k, a) /\ k # "top" => Has(walks', id, k, a)
    BY <1>1, TakeKeeps
  <1>4. watch' = watch /\ held' = held /\ search' = search /\ rows' = rows
    BY DEF LandTop
  <1>5. SearchWalked' /\ WatchWalked'
    BY <1>3, <1>4 DEF IndInv, SearchWalked, WatchWalked
  <1>6. RowsApart' /\ HoldAgrees'
    BY <1>1, <1>2, <1>4, HandlesKept DEF rows
  <1>7. WalksTyped' /\ RowsTyped' /\ search' \in Card /\ chip' \in Scopes
    BY <1>1, <1>2 DEF LandTop, rows, IndInv, TypeOK, WalksTyped, Unique, RowsTyped, CardsTyped
  <1>8. CASE w.id \in Running(screen) /\ w.said = "done"
    <2>1. /\ screen.st = "running" /\ w.id = screen.walk /\ w.at \in Scopes
          /\ w.id \in Nat /\ w.id <= begun
      BY <1>1, <1>8, Owner
    <2>2. /\ screen' = Ready(w) /\ SaveCache(Result(w), TRUE)
          /\ diff' = prev'[w.at] /\ kept' = IF w.at = Home THEN None ELSE w.at
          /\ walkedHome' = (walkedHome \/ w.at = Home)
      BY <1>8 DEF LandTop
    <2>3. Result(w) \in Results /\ Result(w).walk <= begun
      BY <2>1 DEF Result, Results
    <2>4. /\ cache' \in [Scopes -> Results \cup {None}] /\ prev' \in [Scopes -> Results \cup {None}]
          /\ unsaved' \subseteq Scopes /\ errors' \in Nat
          /\ \A s \in Scopes : cache'[s] # None => cache'[s].walk <= begun
      BY <2>2, <2>3, SaveKeeps
    <2>5. FilesTyped'
      BY <2>1, <2>2, <2>4 DEF LandTop, IndInv, TypeOK, FilesTyped
    <2>6. screen' = [st |-> "ready", walk |-> w.id, scope |-> w.at, cut |-> 0]
      BY <2>2 DEF Ready
    <2>7. CardsTyped'
      BY <1>7, <2>1, <2>6 DEF CardsTyped, Card, States
    <2>8. walkedHome' \in BOOLEAN
      BY <2>2 DEF IndInv, TypeOK, CheckTyped
    <2>9. CheckTyped'
      BY <1>4, <2>8 DEF IndInv, TypeOK, CheckTyped
    <2>10. ScreenWalked' /\ Aside'
      BY <1>4, <2>6 DEF ScreenWalked, Aside, IndInv
    <2>11. watch = {}
      BY <2>1 DEF IndInv, Aside
    <2>12. Older'
      BY <1>1, <1>4, <2>1, <2>4, <2>6, <2>11 DEF IndInv, Older, Numbered
    <2> QED
      BY <1>2, <1>5, <1>6, <1>7, <2>5, <2>7, <2>9, <2>10, <2>12 DEF IndInv, TypeOK
  <1>9. CASE ~(w.id \in Running(screen) /\ w.said = "done")
    <2>1. UNCHANGED <<kept, diff, walkedHome, files, picked, restarts>>
      BY <1>9 DEF LandTop
    <2>2. screen' = Blank("failed") \/ (screen' = screen /\ w.id \notin Running(screen))
      BY <1>9 DEF LandTop
    <2>3. CardsTyped'
      BY <1>7, <2>2, DiskAssumption DEF IndInv, TypeOK, CardsTyped, Card, Blank, States
    <2>4. CheckTyped' /\ FilesTyped'
      BY <1>4, <2>1 DEF IndInv, TypeOK, CheckTyped, FilesTyped, files
    <2>5. ScreenWalked' /\ Aside'
      BY <1>2, <1>4, <2>2 DEF IndInv, ScreenWalked, Aside, Blank, Keeps, Running
    <2>6. \A id \in watch : 0 < id
      BY DEF IndInv, WatchWalked, Has, Unique
    <2>7. Older'
      BY <1>1, <1>4, <2>1, <2>2, <2>6 DEF IndInv, Older, Numbered, Blank, files
    <2> QED
      BY <1>2, <1>5, <1>6, <1>7, <2>3, <2>4, <2>5, <2>7 DEF IndInv, TypeOK
  <1> QED
    BY <1>8, <1>9

LEMMA LandRowNext == ASSUME IndInv, NEW w \in walks, LandRow(w) PROVE IndInv'
  <1>1. WalksTyped /\ Unique(walks, begun) /\ begun' = begun /\ walks' = walks \ {w} /\ w.kind = "row"
    BY DEF IndInv, TypeOK, LandRow
  <1>2. Unique(walks', begun') /\ Keeps({w.id}) /\ Same
    BY <1>1, Takes
  <1>3. \A id, k, a : Has(walks, id, k, a) /\ k # "row" => Has(walks', id, k, a)
    BY <1>1, TakeKeeps DEF WalksTyped
  <1>4. TypeOK'
    <2>1. RowsTyped'
      BY DEF LandRow, IndInv, TypeOK, RowsTyped
    <2> QED
      BY <1>1, <1>2, <2>1 DEF LandRow, check, files, IndInv, TypeOK, WalksTyped, Unique, CardsTyped,
                              CheckTyped, FilesTyped
  <1>5. ScreenWalked' /\ SearchWalked' /\ WatchWalked' /\ Aside'
    BY <1>3 DEF LandRow, check, IndInv, ScreenWalked, SearchWalked, WatchWalked, Aside
  <1>6. RowsApart' /\ HoldAgrees'
    BY <1>1, <1>2, HandlesKept DEF LandRow, check
  <1>7. Older'
    BY <1>1 DEF LandRow, check, files, IndInv, Older, Numbered
  <1> QED
    BY <1>2, <1>4, <1>5, <1>6, <1>7 DEF IndInv

LEMMA LandDupesNext == ASSUME IndInv, NEW w \in walks, LandDupes(w) PROVE IndInv'
  <1>1. WalksTyped /\ Unique(walks, begun) /\ begun' = begun /\ walks' = walks \ {w} /\ w.kind = "dupes"
    BY DEF IndInv, TypeOK, LandDupes
  <1>2. Unique(walks', begun') /\ Keeps({w.id}) /\ Same
    BY <1>1, Takes
  <1>3. \A id, k, a : Has(walks, id, k, a) /\ k # "dupes" => Has(walks', id, k, a)
    BY <1>1, TakeKeeps DEF WalksTyped
  <1>4. w.id \in Running(search) => w.id = search.walk /\ w.at \in Scopes /\ w.id \in Nat /\ w.id <= begun
    BY <1>1, Owner
  <1>5. search' = IF w.id \notin Running(search) THEN search
                  ELSE IF w.said = "done" THEN Ready(w) ELSE Blank("failed")
    BY DEF LandDupes
  <1>6. TypeOK'
    <2>1. CardsTyped'
      BY <1>4, <1>5, DiskAssumption DEF LandDupes, IndInv, TypeOK, CardsTyped, Card, Ready, Blank, States
    <2> QED
      BY <1>1, <1>2, <2>1 DEF LandDupes, rows, check, files, IndInv, TypeOK, WalksTyped, Unique,
                              RowsTyped, CheckTyped, FilesTyped
  <1>7. ScreenWalked' /\ WatchWalked' /\ Aside'
    BY <1>3, <1>5 DEF LandDupes, check, IndInv, ScreenWalked, WatchWalked, Aside, Ready, Blank
  <1>8. SearchWalked'
    BY <1>2, <1>5 DEF IndInv, SearchWalked, Keeps, Running, Ready, Blank
  <1>9. RowsApart' /\ HoldAgrees'
    BY <1>1, <1>2, HandlesKept DEF LandDupes, rows, check
  <1>10. Older'
    BY <1>1, <1>4, <1>5 DEF LandDupes, check, files, IndInv, Older, Numbered, Ready, Blank, TypeOK, WalksTyped
  <1> QED
    BY <1>2, <1>6, <1>7, <1>8, <1>9, <1>10 DEF IndInv

\* An answer of the check that only ends its walk.
LEMMA DropCheck ==
  ASSUME IndInv, NEW w \in walks, w.kind = "check", LandCheck(w), walks' = walks \ {w},
         UNCHANGED <<screen, diff, rows, files>>,
         \/ watch' = {} /\ held' = FALSE /\ walkedHome' = TRUE
         \/ UNCHANGED check /\ (w.cancelled \/ w.id \notin watch)
  PROVE  IndInv'
  <1>1. WalksTyped /\ Unique(walks, begun) /\ begun' = begun
    BY DEF IndInv, TypeOK, LandCheck
  <1>2. Unique(walks', begun') /\ Keeps({w.id}) /\ Same
    BY <1>1, Takes
  <1>3. \A id, k, a : Has(walks, id, k, a) /\ (k # "check" \/ id # w.id \/ w.cancelled)
                          => Has(walks', id, k, a)
    BY <1>1, TakeKeeps DEF WalksTyped
  <1>4. screen' = screen /\ search' = search /\ rows' = rows /\ cache' = cache
    BY DEF LandCheck, files
  <1>5. TypeOK'
    <2>1. WalksTyped' /\ CardsTyped' /\ RowsTyped' /\ FilesTyped'
      BY <1>1, <1>2 DEF LandCheck, rows, files, IndInv, TypeOK, WalksTyped, Unique, CardsTyped,
                        RowsTyped, FilesTyped
    <2>2. CheckTyped'
      BY DEF check, IndInv, TypeOK, CheckTyped
    <2> QED
      BY <2>1, <2>2 DEF TypeOK
  <1>6. ScreenWalked' /\ SearchWalked'
    BY <1>3, <1>4 DEF IndInv, ScreenWalked, SearchWalked
  <1>7. WatchWalked' /\ Aside'
    BY <1>3, <1>4 DEF check, IndInv, WatchWalked, Aside
  <1>8. RowsApart'
    BY <1>1, <1>2, <1>4, HandlesKept DEF rows
  <1>9. HoldAgrees'
    BY <1>1, <1>2, HandlesKept DEF check, HoldAgrees
  <1>10. Older'
    BY <1>1, <1>4 DEF check, IndInv, Older, Numbered
  <1> QED
    BY <1>2, <1>5, <1>6, <1>7, <1>8, <1>9, <1>10 DEF IndInv

LEMMA LandCheckNext == ASSUME IndInv, NEW w \in walks, LandCheck(w) PROVE IndInv'
  <1>1. WalksTyped /\ Unique(walks, begun) /\ begun \in Nat /\ begun' = begun /\ w.kind = "check"
    BY DEF IndInv, TypeOK, WalksTyped, LandCheck
  <1>2. CASE w.id \in watch /\ TakeCheck(w)
    <2>1. w.at = Home /\ Home \in Scopes /\ w.id \in Nat /\ 0 < w.id /\ w.id <= begun
      BY <1>1, <1>2, Owner
    <2>2. SaveCache(Result(w), TRUE) /\ watch' = {} /\ held' = FALSE /\ walkedHome' = TRUE
      BY <1>2 DEF TakeCheck
    <2>3. Result(w) \in Results /\ Result(w).walk <= begun
      BY <2>1 DEF Result, Results
    <2>4. /\ cache' \in [Scopes -> Results \cup {None}] /\ prev' \in [Scopes -> Results \cup {None}]
          /\ unsaved' \subseteq Scopes /\ errors' \in Nat
          /\ \A s \in Scopes : cache'[s] # None => cache'[s].walk <= begun
      BY <2>2, <2>3, SaveKeeps
    <2>5. screen.st # "running" /\ search.st # "running"
      BY <1>2 DEF IndInv, Aside
    <2>6. search' = search /\ chip' = chip /\ picked' = picked /\ kept' = kept /\ restarts' = restarts
      BY DEF LandCheck
    <2>7. \/ screen' = Ready(w) /\ diff' = prev'[Home]
          \/ UNCHANGED <<screen, diff>>
      BY <1>2 DEF TakeCheck
    <2>8. screen' = screen \/ screen' = [st |-> "ready", walk |-> w.id, scope |-> w.at, cut |-> 0]
      BY <2>7 DEF Ready
    <2>9. CardsTyped'
      BY <2>1, <2>6, <2>8 DEF IndInv, TypeOK, CardsTyped, Card, States
    <2>10. FilesTyped'
      BY <2>1, <2>4, <2>6, <2>7 DEF IndInv, TypeOK, FilesTyped
    <2>11. CheckTyped'
      BY <2>2 DEF CheckTyped
    <2>12. ScreenWalked' /\ SearchWalked' /\ WatchWalked' /\ HoldAgrees' /\ Aside'
      BY <2>2, <2>5, <2>6, <2>8 DEF ScreenWalked, SearchWalked, WatchWalked, HoldAgrees, Aside
    <2>13. Older'
      BY <1>1, <2>1, <2>2, <2>4, <2>6, <2>8 DEF IndInv, Older, Numbered
    <2>14. Unique(walks', begun') /\ RowsTyped' /\ RowsApart'
      <3>1. CASE walks' = Stopped(rowWalk) \ {w} /\ CloseRows
        <4>1. Unique(walks', begun')
          BY <1>1, <3>1, StopsAndTakes
        <4>2. RowsTyped' /\ RowsApart'
          BY <3>1 DEF CloseRows, Closed, IndInv, TypeOK, RowsTyped, RowsApart
        <4> QED
          BY <4>1, <4>2
      <3>2. CASE walks' = walks \ {w} /\ UNCHANGED rows
        <4>1. Unique(walks', begun') /\ Same
          BY <1>1, <3>2, Takes
        <4>2. RowsApart'
          BY <1>1, <3>2, <4>1, HandlesKept DEF rows
        <4>3. RowsTyped'
          BY <3>2 DEF rows, IndInv, TypeOK, RowsTyped
        <4> QED
          BY <4>1, <4>2, <4>3
      <3> QED
        BY <1>2, <3>1, <3>2 DEF TakeCheck
    <2>15. WalksTyped'
      BY <1>1, <2>14 DEF WalksTyped, Unique
    <2> QED
      BY <2>9, <2>10, <2>11, <2>12, <2>13, <2>14, <2>15 DEF IndInv, TypeOK
  <1>3. CASE w.said = "failed" /\ w.id \in watch /\ walks' = walks \ {w}
             /\ watch' = {} /\ held' = FALSE /\ walkedHome' = TRUE
             /\ UNCHANGED <<screen, diff, rows, files>>
    BY <1>1, <1>3, DropCheck
  <1>4. CASE (w.cancelled \/ w.id \notin watch) /\ walks' = walks \ {w}
             /\ UNCHANGED <<screen, diff, rows, check, files>>
    BY <1>1, <1>4, DropCheck
  <1> QED
    BY <1>2, <1>3, <1>4 DEF LandCheck

LEMMA TrashNext == ASSUME IndInv, NEW gone \in SUBSET Rows, Trash(gone) PROVE IndInv'
  <1>1. /\ screen \in Card /\ screen.st = "ready" /\ screen.walk <= begun /\ begun' = begun
        /\ screen' = [screen EXCEPT !.cut = @ + 1]
        /\ screen.walk \in Nat /\ screen.scope \in Scopes /\ screen.cut \in Nat
    BY DEF Trash, IndInv, TypeOK, CardsTyped, Card, Older, Numbered
  <1>2. /\ screen' \in Card /\ screen'.st = "ready" /\ screen'.walk = screen.walk
        /\ screen'.scope = screen.scope /\ screen'.cut \in Nat
    BY <1>1 DEF Card
  <1>3. ResultOf(screen') \in Results /\ ResultOf(screen').walk <= begun
    BY <1>1, <1>2 DEF ResultOf, Results
  <1>4. walks' = walks /\ search' = search /\ rowWalk' = rowWalk /\ rowRun' = rowRun
        /\ watch' = watch /\ held' = held
    BY DEF Trash, check
  <1>5. /\ cache' \in [Scopes -> Results \cup {None}] /\ prev' \in [Scopes -> Results \cup {None}]
        /\ unsaved' \subseteq Scopes /\ errors' \in Nat
        /\ \A s \in Scopes : cache'[s] # None => cache'[s].walk <= begun
    <2>1. CASE SaveCache(ResultOf(screen'), FALSE)
      BY <1>3, <2>1, SaveKeeps
    <2>2. CASE UNCHANGED files
      BY <2>2 DEF files, IndInv, TypeOK, FilesTyped, Older
    <2> QED
      BY <2>1, <2>2 DEF Trash, Resave
  <1>6. TypeOK'
    <2>1. WalksTyped' /\ CardsTyped' /\ CheckTyped'
      BY <1>1, <1>2, <1>4 DEF Trash, check, IndInv, TypeOK, WalksTyped, CardsTyped, CheckTyped
    <2>2. RowsTyped'
      BY <1>4 DEF Trash, Closed, IndInv, TypeOK, RowsTyped
    <2>3. FilesTyped'
      BY <1>5 DEF Trash, IndInv, TypeOK, FilesTyped
    <2> QED
      BY <2>1, <2>2, <2>3 DEF TypeOK
  <1>7. ScreenWalked' /\ SearchWalked' /\ WatchWalked' /\ Aside'
    BY <1>1, <1>2, <1>4 DEF IndInv, ScreenWalked, SearchWalked, WatchWalked, Aside
  <1>8. RowsApart' /\ HoldAgrees' /\ Unique(walks', begun')
    BY <1>1, <1>4 DEF IndInv, RowsApart, HoldAgrees
  <1>9. Older'
    BY <1>1, <1>2, <1>4, <1>5 DEF IndInv, Older, Numbered
  <1> QED
    BY <1>6, <1>7, <1>8, <1>9 DEF IndInv

LEMMA RestartNext == ASSUME IndInv, Restart PROVE IndInv'
  <1> DEFINE last == cache[Default(kept)]
  <1>1. Default(kept) \in Scopes /\ begun \in Nat /\ begun' = begun
    BY DiskAssumption DEF Default, Restart, IndInv, TypeOK, FilesTyped, WalksTyped
  <1>2. last = None \/ (last \in Results /\ last.walk <= begun)
    BY <1>1 DEF IndInv, TypeOK, FilesTyped, Older
  <1>3. screen' = IF last = None THEN Blank("off")
                  ELSE [st |-> "ready", walk |-> last.walk, scope |-> last.scope, cut |-> last.cut]
    BY DEF Restart
  <1> HIDE DEF last
  <1>4. screen' \in Card /\ screen'.st \in {"off", "ready"} /\ screen'.walk <= begun
        /\ (screen'.st = "off" => screen'.walk = 0)
    BY <1>1, <1>2, <1>3, DiskAssumption DEF Results, Card, States, Blank
  <1>5. search' = Blank("off") /\ chip' = Home /\ walks' = {} /\ rowWalk' = {} /\ watch' = {}
        /\ held' = FALSE /\ cache' = cache
    BY DEF Restart, files
  <1>6. TypeOK'
    <2>1. WalksTyped' /\ CheckTyped'
      BY <1>1, <1>5 DEF Restart, WalksTyped, CheckTyped
    <2>2. CardsTyped'
      BY <1>4, <1>5, DiskAssumption DEF CardsTyped, Card, Blank, States
    <2>3. RowsTyped'
      BY DEF Restart, Closed, RowsTyped
    <2>4. FilesTyped'
      BY <1>1 DEF Restart, files, IndInv, TypeOK, FilesTyped
    <2> QED
      BY <2>1, <2>2, <2>3, <2>4 DEF TypeOK
  <1> QED
    BY <1>1, <1>4, <1>5, <1>6 DEF IndInv, Unique, ScreenWalked, SearchWalked, WatchWalked, RowsApart,
                                  HoldAgrees, Aside, Older, Numbered, Blank

----------------------------------------------------------------------------
(* The invariant, and what follows from it.                                   *)

LEMMA IndInit == Init => IndInv
  <1> SUFFICES ASSUME Init PROVE IndInv
    OBVIOUS
  <1>1. TypeOK
    <2>1. WalksTyped /\ CheckTyped
      BY DEF Init, WalksTyped, CheckTyped
    <2>2. CardsTyped
      BY DiskAssumption DEF Init, CardsTyped, Card, Blank, States
    <2>3. RowsTyped
      BY DEF Init, Closed, RowsTyped
    <2>4. FilesTyped
      BY DEF Init, FilesTyped
    <2> QED
      BY <2>1, <2>2, <2>3, <2>4 DEF TypeOK
  <1> QED
    BY <1>1 DEF Init, IndInv, Unique, ScreenWalked, SearchWalked, WatchWalked, RowsApart,
                HoldAgrees, Aside, Older, Numbered, Blank

LEMMA IndNext == IndInv /\ [Next]_vars => IndInv'
  <1> SUFFICES ASSUME IndInv, [Next]_vars PROVE IndInv'
    OBVIOUS
  <1>1. CASE UNCHANGED vars
    <2>1. walks' = walks /\ begun' = begun /\ screen' = screen /\ search' = search
          /\ rowWalk' = rowWalk /\ watch' = watch /\ held' = held /\ cache' = cache
      BY <1>1 DEF vars, rows, check, files
    <2>2. TypeOK'
      BY <1>1 DEF vars, rows, check, files, IndInv, TypeOK, WalksTyped, CardsTyped, RowsTyped,
                  CheckTyped, FilesTyped
    <2> QED
      BY <2>1, <2>2 DEF IndInv, Unique, ScreenWalked, SearchWalked, WatchWalked, RowsApart,
                        HoldAgrees, Aside, Older, Numbered
  <1>2. ASSUME NEW scope \in Scopes, Pick(scope) \/ FindDupes(scope) \/ ClearDupes(scope)
        PROVE  IndInv'
    BY <1>2, PickNext, FindDupesNext, ClearDupesNext
  <1>3. CASE PickRoot \/ Start \/ Cancel \/ Clear
    BY <1>3, PickRootNext, StartNext, CancelNext, ClearNext
  <1>4. ASSUME NEW r \in Rows, Toggle(r) \/ Measure(r) PROVE IndInv'
    BY <1>4, ToggleNext, MeasureNext
  <1>5. CASE ResetViews \/ StartCheck \/ HoldCheck \/ Restart
    BY <1>5, ResetViewsNext, StartCheckNext, HoldCheckNext, RestartNext
  <1>6. ASSUME NEW w \in walks, WalkEnds(w) \/ Land(w) PROVE IndInv'
    BY <1>6, WalkEndsNext, LandTopNext, LandRowNext, LandDupesNext, LandCheckNext DEF Land
  <1>7. ASSUME NEW gone \in SUBSET Rows, Trash(gone) PROVE IndInv'
    BY <1>7, TrashNext
  <1> QED
    BY <1>1, <1>2, <1>3, <1>4, <1>5, <1>6, <1>7 DEF Next

LEMMA Inductive == Spec => []IndInv
  BY IndInit, IndNext, PTL DEF Spec

\* Every walk, card, row and file has its shape, for any scopes and any bounds.
THEOREM TypeCorrect == Spec => []TypeOK
  <1>1. IndInv => TypeOK
    BY DEF IndInv
  <1> QED
    BY <1>1, Inductive, PTL

\* What is shown as walking, searching or checking has a walk that was not
\* cancelled, the check stands aside, and what holds it is what its walk waits
\* on: RunsAreReal.
THEOREM NothingSpinsUnwalked == Spec => []RunsAreReal
  <1>1. IndInv => WaitingIsWalked
    BY DEF IndInv, ScreenWalked, SearchWalked, WatchWalked, Has, WaitingIsWalked, Running
  <1>2. IndInv => CheckStandsAside
    BY DEF IndInv, HoldAgrees, Aside, CheckStandsAside
  <1> QED
    BY <1>1, <1>2, Inductive, PTL DEF RunsAreReal

----------------------------------------------------------------------------
(* What stands under a result, or under a chip, was found there.              *)

LEMMA UnderNext == IndInv /\ UnderWhatItWasFound /\ [Next]_vars => UnderWhatItWasFound'
  <1> SUFFICES ASSUME IndInv, UnderWhatItWasFound, [Next]_vars PROVE UnderWhatItWasFound'
    OBVIOUS
  <1> USE DEF UnderWhatItWasFound, RowsAreOfTheResult, DupesUnderTheirChip
  <1>1. expanded \in [Rows -> [st : {"closed", "walking", "ready", "failed"}, of : Nat]]
    BY DEF IndInv, TypeOK, RowsTyped
  <1>2. ASSUME UNCHANGED <<screen, expanded, search, chip>> PROVE UnderWhatItWasFound'
    BY <1>2
  <1>3. ASSUME NEW scope \in Scopes, Pick(scope) \/ FindDupes(scope) \/ ClearDupes(scope)
        PROVE  UnderWhatItWasFound'
    BY <1>3 DEF Pick, FindDupes, ClearDupes, Blank, rows
  <1>4. CASE PickRoot \/ Start \/ Cancel \/ Clear
    BY <1>4 DEF PickRoot, Start, Cancel, Clear, CloseRows, Closed, rows
  <1>5. ASSUME NEW r \in Rows, Toggle(r) \/ Measure(r) PROVE UnderWhatItWasFound'
    <2>1. screen' = screen /\ search' = search /\ chip' = chip
      BY <1>5 DEF Toggle, Measure
    <2>2. \E st \in {"closed", "ready", "walking"}, of \in {0, screen.walk} :
              /\ expanded' = [expanded EXCEPT ![r] = [st |-> st, of |-> of]]
              /\ st # "closed" => screen.st = "ready" /\ of = screen.walk
      BY <1>5 DEF Toggle, Measure, WalkRow, Closed
    <2> QED
      BY <1>1, <2>1, <2>2
  <1>6. CASE ResetViews \/ StartCheck \/ HoldCheck \/ Restart
    <2>1. CASE ResetViews
      BY <2>1 DEF ResetViews, CloseRows, Closed
    <2>2. CASE StartCheck \/ HoldCheck
      BY <1>2, <2>2 DEF StartCheck, HoldCheck, rows
    <2>3. CASE Restart
      BY <2>3 DEF Restart, Closed, Blank
    <2> QED
      BY <1>6, <2>1, <2>2, <2>3
  <1>7. ASSUME NEW w \in walks, WalkEnds(w) PROVE UnderWhatItWasFound'
    BY <1>2, <1>7 DEF WalkEnds, rows
  <1>8. ASSUME NEW w \in walks, LandTop(w) PROVE UnderWhatItWasFound'
    <2>1. \/ screen' = screen
          \/ screen.st = "running"
      BY <1>8 DEF LandTop, Running
    <2> QED
      BY <1>8, <2>1 DEF LandTop, rows
  <1>9. ASSUME NEW w \in walks, LandRow(w) PROVE UnderWhatItWasFound'
    <2>1. \A r \in Rows : expanded'[r].of = expanded[r].of
                          /\ (expanded[r].st = "closed" => expanded'[r].st = "closed")
      BY <1>1, <1>9 DEF LandRow
    <2> QED
      BY <1>9, <2>1 DEF LandRow
  <1>10. ASSUME NEW w \in walks, LandDupes(w) PROVE UnderWhatItWasFound'
    <2>1. w.id \in Running(search) => search.st = "running" /\ w.at = search.scope
      BY <1>10, Owner DEF LandDupes
    <2> QED
      BY <1>10, <2>1 DEF LandDupes, Ready, Blank, rows
  <1>11. ASSUME NEW w \in walks, LandCheck(w) PROVE UnderWhatItWasFound'
    <2>1. UNCHANGED <<screen, rows>> \/ CloseRows
      BY <1>11 DEF LandCheck, TakeCheck
    <2>2. UNCHANGED <<search, chip>>
      BY <1>11 DEF LandCheck
    <2> QED
      BY <2>1, <2>2 DEF rows, CloseRows, Closed
  <1>12. ASSUME NEW gone \in SUBSET Rows, Trash(gone) PROVE UnderWhatItWasFound'
    <2>1. screen'.st = screen.st /\ screen'.walk = screen.walk
      BY <1>12 DEF Trash, IndInv, TypeOK, CardsTyped, Card
    <2> QED
      BY <1>1, <1>12, <2>1 DEF Trash, Closed
  <1> QED
    BY <1>2, <1>3, <1>4, <1>5, <1>6, <1>7, <1>8, <1>9, <1>10, <1>11, <1>12 DEF Next, Land, vars, rows

\* No row is open under a result it was not opened in, and no search's result
\* stands under another scope's chip: UnderWhatItWasFound.
THEOREM NothingUnderAnother == Spec => []UnderWhatItWasFound
  <1>1. Init => UnderWhatItWasFound
    BY DEF Init, Closed, Blank, UnderWhatItWasFound, RowsAreOfTheResult, DupesUnderTheirChip
  <1> QED
    BY <1>1, Inductive, UnderNext, PTL DEF Spec

----------------------------------------------------------------------------
(* The cards keep what Answers promises: every step is a step of the card, or *)
(* leaves it alone. That they do not wait for ever is TLC's (CardsAnswer).    *)

LEMMA ScreenStep == IndInv /\ [Next]_vars => [ScreenCard!Next]_(ScreenCard!vars)
  <1> SUFFICES ASSUME IndInv, [Next]_vars PROVE ScreenCard!Next \/ UNCHANGED ScreenCard!vars
    OBVIOUS
  <1> USE DEF ScreenCard!Next, ScreenCard!vars
  <1>1. begun \in Nat /\ screen \in Card /\ screen.walk \in Nat /\ screen.walk <= begun
    BY DEF IndInv, TypeOK, WalksTyped, CardsTyped, Card, Older, Numbered
  <1>2. ASSUME NEW scope \in Scopes, Pick(scope) \/ FindDupes(scope) \/ ClearDupes(scope)
        PROVE  ScreenCard!AskElsewhere \/ UNCHANGED ScreenCard!vars
    BY <1>2 DEF Pick, FindDupes, ClearDupes, ScreenCard!AskElsewhere
  <1>3. CASE Start
    BY <1>1, <1>3 DEF Start, ScreenCard!Ask
  <1>4. CASE PickRoot \/ Cancel \/ Clear
    <2>1. screen'.st \in {"off", "failed"} /\ screen'.walk = 0 /\ begun' = begun /\ restarts' = restarts
      BY <1>4 DEF PickRoot, Cancel, Clear, Blank
    <2> QED
      BY <2>1 DEF ScreenCard!Forget
  <1>5. ASSUME NEW r \in Rows, Toggle(r) \/ Measure(r)
        PROVE  ScreenCard!AskElsewhere \/ UNCHANGED ScreenCard!vars
    BY <1>5 DEF Toggle, Measure, WalkRow, ScreenCard!AskElsewhere
  <1>6. CASE ResetViews \/ StartCheck \/ HoldCheck
    BY <1>6 DEF ResetViews, StartCheck, HoldCheck, ScreenCard!AskElsewhere
  <1>7. CASE Restart
    <2>1. Default(kept) \in Scopes
      BY DiskAssumption DEF Default, IndInv, TypeOK, FilesTyped
    <2>2. \/ screen' = Blank("off")
          \/ /\ cache[Default(kept)] \in Results /\ cache[Default(kept)].walk <= begun
             /\ screen'.st = "ready" /\ screen'.walk = cache[Default(kept)].walk
      BY <1>7, <2>1 DEF Restart, IndInv, TypeOK, FilesTyped, Older
    <2>3. \/ screen'.st = "off" /\ screen'.walk = 0
          \/ screen'.st = "ready" /\ screen'.walk \in 0 .. begun
      BY <1>1, <2>2 DEF Results, Blank
    <2> QED
      BY <1>7, <2>3 DEF Restart, ScreenCard!Reopen
  <1>8. ASSUME NEW w \in walks, WalkEnds(w) \/ LandRow(w) \/ LandDupes(w)
        PROVE  UNCHANGED ScreenCard!vars
    BY <1>8 DEF WalkEnds, LandRow, LandDupes
  <1>9. ASSUME NEW w \in walks, LandTop(w)
        PROVE  ScreenCard!Answer \/ ScreenCard!Fail \/ UNCHANGED ScreenCard!vars
    <2>1. begun' = begun /\ restarts' = restarts
      BY <1>9 DEF LandTop, files
    <2>2. \/ w.id \in Running(screen) /\ (screen' = Ready(w) \/ screen' = Blank("failed"))
          \/ screen' = screen
      BY <1>9 DEF LandTop
    <2>3. w.id \in Running(screen) => screen.st = "running" /\ w.id = screen.walk
      BY DEF Running
    <2> QED
      BY <2>1, <2>2, <2>3 DEF Ready, Blank, ScreenCard!Answer, ScreenCard!Fail
  <1>10. ASSUME NEW w \in walks, LandCheck(w)
         PROVE  ScreenCard!Renew \/ UNCHANGED ScreenCard!vars
    <2>1. begun' = begun /\ restarts' = restarts
      BY <1>10 DEF LandCheck
    <2>2. screen' = screen \/ (w.id \in watch /\ ShowingHome /\ screen' = Ready(w))
      BY <1>10 DEF LandCheck, TakeCheck
    <2>3. w.id \in watch => w.id \in Nat /\ screen.walk < w.id /\ w.id <= begun
      BY <1>10, Owner DEF IndInv, Older
    <2> QED
      BY <1>1, <2>1, <2>2, <2>3 DEF ShowingHome, Ready, ScreenCard!Renew
  <1>11. ASSUME NEW gone \in SUBSET Rows, Trash(gone) PROVE UNCHANGED ScreenCard!vars
    BY <1>1, <1>11 DEF Trash, Card
  <1>12. CASE UNCHANGED vars
    BY <1>12 DEF vars
  <1> QED
    BY <1>2, <1>3, <1>4, <1>5, <1>6, <1>7, <1>8, <1>9, <1>10, <1>11, <1>12 DEF Next, Land

LEMMA SearchStep == IndInv /\ [Next]_vars => [SearchCard!Next]_(SearchCard!vars)
  <1> SUFFICES ASSUME IndInv, [Next]_vars PROVE SearchCard!Next \/ UNCHANGED SearchCard!vars
    OBVIOUS
  <1> USE DEF SearchCard!Next, SearchCard!vars
  <1>1. begun \in Nat
    BY DEF IndInv, TypeOK, WalksTyped
  <1>2. ASSUME NEW scope \in Scopes, Pick(scope) PROVE UNCHANGED SearchCard!vars
    BY <1>2 DEF Pick
  <1>3. ASSUME NEW scope \in Scopes, FindDupes(scope) PROVE SearchCard!Ask
    BY <1>1, <1>3 DEF FindDupes, SearchCard!Ask
  <1>4. ASSUME NEW scope \in Scopes, ClearDupes(scope) PROVE SearchCard!Forget
    BY <1>4 DEF ClearDupes, Blank, SearchCard!Forget
  <1>5. CASE PickRoot \/ Start \/ Cancel \/ Clear
    BY <1>5 DEF PickRoot, Start, Cancel, Clear, SearchCard!AskElsewhere
  <1>6. ASSUME NEW r \in Rows, Toggle(r) \/ Measure(r)
        PROVE  SearchCard!AskElsewhere \/ UNCHANGED SearchCard!vars
    BY <1>6 DEF Toggle, Measure, WalkRow, SearchCard!AskElsewhere
  <1>7. CASE ResetViews \/ StartCheck \/ HoldCheck
    BY <1>7 DEF ResetViews, StartCheck, HoldCheck, SearchCard!AskElsewhere
  <1>8. CASE Restart
    BY <1>8 DEF Restart, Blank, SearchCard!Reopen
  <1>9. ASSUME NEW w \in walks, WalkEnds(w) \/ LandRow(w) \/ LandTop(w) \/ LandCheck(w)
        PROVE  UNCHANGED SearchCard!vars
    BY <1>9 DEF WalkEnds, LandRow, LandTop, LandCheck
  <1>10. ASSUME NEW w \in walks, LandDupes(w)
         PROVE  SearchCard!Answer \/ SearchCard!Fail \/ UNCHANGED SearchCard!vars
    <2>1. begun' = begun /\ restarts' = restarts
      BY <1>10 DEF LandDupes
    <2>2. w.id \in Running(search) => search.st = "running" /\ w.id = search.walk
      BY DEF Running
    <2> QED
      BY <1>10, <2>1, <2>2 DEF LandDupes, Ready, Blank, SearchCard!Answer, SearchCard!Fail
  <1>11. ASSUME NEW gone \in SUBSET Rows, Trash(gone) PROVE UNCHANGED SearchCard!vars
    BY <1>11 DEF Trash
  <1>12. CASE UNCHANGED vars
    BY <1>12 DEF vars
  <1> QED
    BY <1>2, <1>3, <1>4, <1>5, <1>6, <1>7, <1>8, <1>9, <1>10, <1>11, <1>12 DEF Next, Land

\* The safety half of CardsAnswer: the screen and the search implement Answers.
THEOREM CardsAreAnswers == Spec => ScreenCard!Safe /\ SearchCard!Safe
  <1>1. Init => ScreenCard!Init /\ SearchCard!Init
    BY DEF Init, Blank, ScreenCard!Init, SearchCard!Init
  <1>2. Spec => ScreenCard!Safe
    BY <1>1, Inductive, ScreenStep, PTL DEF Spec, ScreenCard!Safe
  <1>3. Spec => SearchCard!Safe
    BY <1>1, Inductive, SearchStep, PTL DEF Spec, SearchCard!Safe
  <1> QED
    BY <1>2, <1>3

----------------------------------------------------------------------------
(* The files and the screen.                                                  *)

\* A scope's results on disk.
OnFile(s) == {cache[s], prev[s]} \ {None}

\* They are that scope's, from walks begun by now.
Filed == \A s \in Scopes : \A r \in OnFile(s) : r.scope = s /\ r.walk <= begun

\* The baseline is older than the result, where no save has failed since.
Baselines == \A s \in Scopes \ unsaved : prev[s] # None => prev[s].walk < cache[s].walk

\* What may yet be filed is younger than all that is.
Younger ==
    \A s \in Scopes : \A r \in OnFile(s) :
        /\ screen.st = "running" => r.walk < screen.walk
        /\ \A id \in watch : r.walk < id

\* The next launch opens where the window is, and a window nobody pointed
\* elsewhere is at home.
Opened ==
    /\ screen.st = "ready" => Default(kept) = screen.scope
    /\ picked = None => kept = None /\ (screen.st = "running" => screen.scope = Home)

FilesInv == Filed /\ Baselines /\ Younger /\ Opened /\ FilesFollowTheScreen

LEMMA FilesHave ==
  ASSUME IndInv
  PROVE  /\ cache \in [Scopes -> Results \cup {None}] /\ prev \in [Scopes -> Results \cup {None}]
         /\ diff \in Results \cup {None} /\ begun \in Nat /\ unsaved \subseteq Scopes
         /\ picked \in Scopes \cup {None} /\ kept \in Scopes \cup {None}
         /\ \A r \in Results : r.walk \in Nat /\ r.scope \in Scopes
         /\ screen.st \in States /\ screen.walk \in Nat /\ screen.scope \in Scopes
         /\ Home \in Scopes /\ None \notin Scopes
         /\ \A s \in Scopes : \A r \in OnFile(s) : r \in Results /\ r.walk \in Nat
BY DiskAssumption DEF IndInv, TypeOK, WalksTyped, CardsTyped, Card, FilesTyped, Results, OnFile

\* Most steps leave the files, and what the screen holds of them.
LEMMA FilesStay ==
  ASSUME IndInv, FilesInv, UNCHANGED <<cache, prev, unsaved, kept>>, begun' \in Nat, begun <= begun',
         picked' = picked \/ picked' # None, watch' \subseteq watch,
         \/ UNCHANGED <<screen, diff>>
         \/ screen'.st \notin {"ready", "running"}
  PROVE  FilesInv'
  <1>1. /\ begun \in Nat /\ \A s \in Scopes : \A r \in OnFile(s) : r.walk \in Nat
        /\ \A s \in Scopes : OnFile(s)' = OnFile(s)
    BY FilesHave DEF OnFile
  <1>2. Filed' /\ Baselines'
    BY <1>1 DEF FilesInv, Filed, Baselines
  <1>3. Younger' /\ Opened'
    BY <1>1 DEF FilesInv, Younger, Opened
  <1>4. FilesFollowTheScreen'
    BY DEF FilesInv, FilesFollowTheScreen, LaunchRestoresTheScreen, DeltaIsOfAnEarlierRun, ResultOf
  <1> QED
    BY <1>2, <1>3, <1>4 DEF FilesInv

\* A save of a new run touches its scope, and where it fails it says so.
LEMMA SavesOneScope ==
  ASSUME IndInv, NEW result \in Results, SaveCache(result, TRUE)
  PROVE  /\ \A t \in Scopes \ {result.scope} :
                cache'[t] = cache[t] /\ prev'[t] = prev[t] /\ (t \in unsaved' <=> t \in unsaved)
         /\ cache'[result.scope] \in {cache[result.scope], result}
         /\ prev'[result.scope] \in {cache[result.scope], prev[result.scope]}
         /\ result.scope \notin unsaved' => cache'[result.scope] = result
BY FilesHave DEF SaveCache

\* A run younger than all of its scope's becomes the result, and what was the
\* result its baseline, or the scope is marked.
LEMMA Rotates ==
  ASSUME IndInv, FilesInv, NEW result \in Results, SaveCache(result, TRUE),
         begun' = begun, result.walk <= begun,
         \A r \in OnFile(result.scope) : r.walk < result.walk
  PROVE  /\ Filed' /\ Baselines'
         /\ result.scope \notin unsaved' =>
                /\ cache'[result.scope] = result
                /\ prev'[result.scope] # None => prev'[result.scope].walk < result.walk
  <1> DEFINE s == result.scope
  <1>1. s \in Scopes
    BY FilesHave
  <1>2. /\ \A t \in Scopes \ {s} :
              cache'[t] = cache[t] /\ prev'[t] = prev[t] /\ (t \in unsaved' <=> t \in unsaved)
        /\ cache'[s] \in {cache[s], result} /\ prev'[s] \in {cache[s], prev[s]}
        /\ s \notin unsaved' => cache'[s] = result
    BY SavesOneScope
  <1>3. OnFile(s)' \subseteq OnFile(s) \cup {result} /\ \A t \in Scopes \ {s} : OnFile(t)' = OnFile(t)
    BY <1>2 DEF OnFile
  <1>4. Filed'
    BY <1>3 DEF FilesInv, Filed
  <1>5. prev'[s] # None => prev'[s] \in OnFile(s)
    BY <1>2 DEF OnFile
  <1>6. s \notin unsaved' => cache'[s] = result /\ (prev'[s] # None => prev'[s].walk < result.walk)
    BY <1>2, <1>5
  <1> HIDE DEF s
  <1>7. Baselines'
    BY <1>2, <1>6 DEF FilesInv, Baselines
  <1> QED
    BY <1>4, <1>6, <1>7 DEF s

\* A run that lands in the window has its files follow it there.
LEMMA Shows ==
  ASSUME IndInv, FilesInv, NEW w, Result(w) \in Results, SaveCache(Result(w), TRUE),
         begun' = begun, w.id <= begun, \A r \in OnFile(w.at) : r.walk < w.id,
         screen' = Ready(w), diff' = prev'[w.at], watch' = {},
         Default(kept') = w.at, picked' = None => kept' = None
  PROVE  FilesInv'
  <1>1. Result(w).walk = w.id /\ Result(w).scope = w.at /\ w.at \in Scopes /\ w.id \in Nat
    <2>1. Result(w).walk = w.id /\ Result(w).scope = w.at
      BY DEF Result
    <2> QED
      BY <2>1, FilesHave
  <1>2. /\ Filed' /\ Baselines'
        /\ w.at \notin unsaved' =>
                /\ cache'[w.at] = Result(w)
                /\ prev'[w.at] # None => prev'[w.at].walk < w.id
    BY <1>1, Rotates
  <1>3. /\ screen'.st = "ready" /\ screen'.scope = w.at /\ screen'.walk = w.id
        /\ ResultOf(screen)' = Result(w)
    BY DEF Ready, ResultOf, Result
  <1>4. Younger' /\ Opened'
    BY <1>3 DEF Younger, Opened
  <1>5. LaunchRestoresTheScreen'
    BY <1>2, <1>3 DEF LaunchRestoresTheScreen
  <1>6. DeltaIsOfAnEarlierRun'
    BY <1>2, <1>3 DEF DeltaIsOfAnEarlierRun
  <1> QED
    BY <1>2, <1>4, <1>5, <1>6 DEF FilesInv, FilesFollowTheScreen

LEMMA LandTopFiles ==
  ASSUME IndInv, FilesInv, NEW w \in walks, LandTop(w) PROVE FilesInv'
  <1>1. begun' = begun /\ begun \in Nat /\ picked' = picked /\ watch' = watch
    BY FilesHave DEF LandTop
  <1>2. CASE w.id \in Running(screen) /\ w.said = "done"
    <2>1. /\ screen.st = "running" /\ w.id = screen.walk /\ w.at = screen.scope /\ w.at \in Scopes
          /\ w.id \in Nat /\ w.id <= begun
      BY <1>2, Owner DEF LandTop
    <2>2. /\ screen' = Ready(w) /\ SaveCache(Result(w), TRUE)
          /\ diff' = prev'[w.at] /\ kept' = IF w.at = Home THEN None ELSE w.at
      BY <1>2 DEF LandTop
    <2>3. Result(w) \in Results
      BY <2>1 DEF Result, Results
    <2>4. \A r \in OnFile(w.at) : r.walk < w.id
      BY <2>1 DEF FilesInv, Younger
    <2>5. watch' = {}
      BY <1>1, <2>1 DEF IndInv, Aside
    <2>6. Default(kept') = w.at
      BY <2>1, <2>2, FilesHave DEF Default
    <2>7. picked' = None => kept' = None
      BY <1>1, <2>1, <2>2 DEF FilesInv, Opened
    <2> QED
      BY <1>1, <2>1, <2>2, <2>3, <2>4, <2>5, <2>6, <2>7, Shows
  <1>3. CASE ~(w.id \in Running(screen) /\ w.said = "done")
    <2>1. UNCHANGED <<kept, diff, cache, prev, unsaved>>
      BY <1>3 DEF LandTop, files
    <2>2. screen' = Blank("failed") \/ screen' = screen
      BY <1>3 DEF LandTop
    <2> QED
      BY <1>1, <2>1, <2>2, FilesStay DEF Blank
  <1> QED
    BY <1>2, <1>3

LEMMA LandCheckFiles ==
  ASSUME IndInv, FilesInv, NEW w \in walks, LandCheck(w) PROVE FilesInv'
  <1>1. begun' = begun /\ begun \in Nat /\ picked' = picked /\ kept' = kept
    BY FilesHave DEF LandCheck
  <1>2. ASSUME w.kind = "check", w.id \in watch, TakeCheck(w) PROVE FilesInv'
    <2>1. w.at = Home /\ w.at \in Scopes /\ w.id \in Nat /\ w.id <= begun
      BY <1>2, Owner
    <2>2. Result(w) \in Results /\ Result(w).walk = w.id /\ Result(w).scope = Home
      BY <2>1 DEF Result, Results
    <2>3. SaveCache(Result(w), TRUE) /\ watch' = {}
      BY <1>2 DEF TakeCheck
    <2>4. \A r \in OnFile(Home) : r.walk < w.id
      BY <1>2, <2>1 DEF FilesInv, Younger
    <2>5. CASE ShowingHome
      <3>1. screen' = Ready(w) /\ diff' = prev'[Home]
        BY <1>2, <2>5 DEF TakeCheck
      <3>2. Default(kept) = Home /\ (picked = None => kept = None)
        BY <2>5 DEF ShowingHome, FilesInv, Opened, Default
      <3> QED
        BY <1>1, <2>1, <2>2, <2>3, <2>4, <3>1, <3>2, Shows
    <2>6. CASE ~ShowingHome
      <3>1. screen' = screen /\ diff' = diff
        BY <1>2, <2>6 DEF TakeCheck
      <3>2. Filed' /\ Baselines'
        BY <1>1, <2>1, <2>2, <2>3, <2>4, Rotates
      <3>3. screen.st # "running"
        BY <1>2 DEF IndInv, Aside
      <3>4. Younger' /\ Opened'
        BY <1>1, <2>3, <3>1, <3>3 DEF FilesInv, Younger, Opened
      <3>5. screen.st = "ready" => /\ screen.scope \in Scopes /\ screen.scope # Home
                                   /\ cache'[screen.scope] = cache[screen.scope]
                                   /\ (screen.scope \in unsaved' <=> screen.scope \in unsaved)
        <4>1. screen.scope \in Scopes
          BY FilesHave
        <4>2. screen.st = "ready" => screen.scope # Home
          BY <2>6 DEF ShowingHome
        <4>3. \A t \in Scopes \ {Home} :
                 cache'[t] = cache[t] /\ prev'[t] = prev[t] /\ (t \in unsaved' <=> t \in unsaved)
          BY <2>2, <2>3, SavesOneScope
        <4> QED
          BY <4>1, <4>2, <4>3
      <3>6. FilesFollowTheScreen'
        BY <1>1, <3>1, <3>5 DEF FilesInv, FilesFollowTheScreen, LaunchRestoresTheScreen,
                                DeltaIsOfAnEarlierRun, ResultOf
      <3> QED
        BY <3>2, <3>4, <3>6 DEF FilesInv
    <2> QED
      BY <2>5, <2>6
  <1>3. CASE UNCHANGED <<screen, diff, cache, prev, unsaved>> /\ watch' \subseteq watch
    BY <1>1, <1>3, FilesStay
  <1> QED
    BY <1>2, <1>3 DEF LandCheck, check, files

LEMMA TrashFiles ==
  ASSUME IndInv, FilesInv, NEW gone \in SUBSET Rows, Trash(gone) PROVE FilesInv'
  <1> DEFINE s == screen.scope
  <1>1. /\ begun' = begun /\ picked' = picked /\ kept' = kept /\ watch' = watch /\ diff' = diff
        /\ screen.st = "ready" /\ s \in Scopes
    BY FilesHave DEF Trash, check
  <1>2. /\ screen'.st = screen.st /\ screen'.walk = screen.walk /\ screen'.scope = s
        /\ ResultOf(screen)' \in Results /\ ResultOf(screen') = ResultOf(screen)'
        /\ ResultOf(screen').walk = screen.walk /\ ResultOf(screen').scope = s
    BY DEF Trash, IndInv, TypeOK, CardsTyped, Card, ResultOf, Results
  <1>3. /\ \A t \in Scopes \ {s} :
              cache'[t] = cache[t] /\ prev'[t] = prev[t] /\ (t \in unsaved' <=> t \in unsaved)
        /\ prev'[s] = prev[s]
        /\ \/ cache'[s] = ResultOf(screen)' /\ cache[s] # None /\ (s \in unsaved' <=> s \in unsaved)
           \/ cache'[s] = cache[s] /\ s \in unsaved'
    <2>1. CASE cache[s] # None /\ Resave(ResultOf(screen'))
      <3> DEFINE r == ResultOf(screen')
      <3>1. r.scope = s /\ r = ResultOf(screen)' /\ SaveCache(r, FALSE)
        BY <1>2, <2>1 DEF Resave
      <3> HIDE DEF r
      <3>2. CASE cache' = [cache EXCEPT ![s] = r] /\ prev' = prev /\ unsaved' = unsaved
        BY <1>1, <2>1, <3>1, <3>2, FilesHave
      <3>3. CASE cache' = cache /\ prev' = prev /\ unsaved' = unsaved \cup {s}
        BY <1>1, <3>3
      <3> QED
        BY <3>1, <3>2, <3>3 DEF SaveCache
    <2>2. CASE cache[s] = None /\ UNCHANGED files
      <3>1. s \in unsaved
        <4>1. ASSUME s \notin unsaved PROVE FALSE
          <5>1. cache[s] = ResultOf(screen)
            BY <1>1, <4>1 DEF FilesInv, FilesFollowTheScreen, LaunchRestoresTheScreen
          <5>2. ResultOf(screen) \in [walk : Nat, scope : Scopes, cut : Nat]
            BY DEF IndInv, TypeOK, CardsTyped, Card, ResultOf
          <5> QED
            BY <2>2, <5>1, <5>2, DiskAssumption
        <4> QED
          BY <4>1
      <3> QED
        BY <1>1, <2>2, <3>1 DEF files
    <2> QED
      BY <2>1, <2>2 DEF Trash
  <1>4. Filed' /\ Younger'
    <2>1. \A t \in Scopes : \A r \in OnFile(t)' : r \in OnFile(t) \/ (t = s /\ r = ResultOf(screen'))
      BY <1>2, <1>3 DEF OnFile
    <2>2. screen.walk <= begun /\ \A id \in watch : screen.walk < id
      BY DEF IndInv, Older, Numbered
    <2>3. Filed'
      BY <1>1, <1>2, <2>1, <2>2 DEF FilesInv, Filed
    <2>4. Younger'
      BY <1>1, <1>2, <2>1, <2>2 DEF FilesInv, Younger
    <2> QED
      BY <2>3, <2>4
  <1>5. s \notin unsaved => cache[s] = ResultOf(screen) /\ cache[s].walk = screen.walk
    BY <1>1 DEF FilesInv, FilesFollowTheScreen, LaunchRestoresTheScreen, ResultOf
  <1>6. Baselines'
    BY <1>1, <1>2, <1>3, <1>5 DEF FilesInv, Baselines
  <1>7. Opened'
    BY <1>1, <1>2 DEF FilesInv, Opened
  <1>8. LaunchRestoresTheScreen'
    BY <1>1, <1>2, <1>3 DEF FilesInv, Opened, LaunchRestoresTheScreen
  <1>9. DeltaIsOfAnEarlierRun'
    BY <1>1, <1>2, <1>3 DEF FilesInv, FilesFollowTheScreen, DeltaIsOfAnEarlierRun
  <1> QED
    BY <1>4, <1>6, <1>7, <1>8, <1>9 DEF FilesInv, FilesFollowTheScreen

LEMMA RestartFiles == ASSUME IndInv, FilesInv, Restart PROVE FilesInv'
  <1> DEFINE s == Default(kept)
  <1>1. /\ begun' = begun /\ kept' = kept /\ picked' = kept /\ watch' = {}
        /\ cache' = cache /\ prev' = prev /\ unsaved' = unsaved /\ diff' = prev[s]
        /\ screen' = IF cache[s] = None THEN Blank("off")
                     ELSE [st |-> "ready", walk |-> cache[s].walk, scope |-> cache[s].scope,
                           cut |-> cache[s].cut]
    BY DEF Restart, files
  <1>2. s \in Scopes
    BY FilesHave DEF Default
  <1>3. Filed' /\ Baselines'
    BY <1>1 DEF FilesInv, Filed, Baselines, OnFile
  <1>4. CASE cache[s] = None
    <2>1. screen'.st = "off"
      BY <1>1, <1>4 DEF Blank
    <2> QED
      BY <1>1, <1>3, <2>1 DEF FilesInv, Younger, Opened, FilesFollowTheScreen,
                              LaunchRestoresTheScreen, DeltaIsOfAnEarlierRun
  <1>5. CASE cache[s] # None
    <2>1. cache[s] \in Results /\ cache[s].scope = s
      BY <1>2, <1>5, FilesHave DEF FilesInv, Filed, OnFile
    <2>2. /\ screen'.st = "ready" /\ screen'.scope = s /\ screen'.walk = cache[s].walk
          /\ ResultOf(screen)' = cache[s]
      BY <1>1, <1>5, <2>1 DEF ResultOf, Results
    <2>3. Younger' /\ Opened'
      BY <1>1, <2>2 DEF Younger, Opened
    <2>4. FilesFollowTheScreen'
      BY <1>1, <1>2, <2>2 DEF FilesInv, Baselines, FilesFollowTheScreen, LaunchRestoresTheScreen,
                              DeltaIsOfAnEarlierRun
    <2> QED
      BY <1>3, <2>3, <2>4 DEF FilesInv
  <1> QED
    BY <1>4, <1>5

LEMMA BeginFiles == ASSUME IndInv, FilesInv, Start \/ StartCheck PROVE FilesInv'
  <1>1. /\ begun' = begun + 1 /\ begun \in Nat
        /\ UNCHANGED <<cache, prev, unsaved, kept, picked, diff>>
    BY FilesHave DEF Start, StartCheck, files
  <1>2. \A s \in Scopes : OnFile(s)' = OnFile(s) /\ \A r \in OnFile(s) : r.walk \in Nat /\ r.walk <= begun
    BY <1>1, FilesHave DEF OnFile, FilesInv, Filed
  <1>3. Filed' /\ Baselines'
    BY <1>1, <1>2 DEF FilesInv, Filed, Baselines
  <1>4. CASE Start
    <2>1. /\ screen'.st = "running" /\ screen'.walk = begun + 1 /\ screen'.scope = Default(picked)
          /\ watch' = {}
      BY <1>4 DEF Start, StopCheck
    <2>2. Younger' /\ Opened'
      BY <1>1, <1>2, <2>1 DEF FilesInv, Younger, Opened, Default
    <2>3. FilesFollowTheScreen'
      BY <2>1 DEF FilesFollowTheScreen, LaunchRestoresTheScreen, DeltaIsOfAnEarlierRun
    <2> QED
      BY <1>3, <2>2, <2>3 DEF FilesInv
  <1>5. CASE StartCheck
    <2>1. screen' = screen /\ watch' = {begun + 1} /\ screen.st # "running"
      BY <1>5 DEF StartCheck
    <2>2. Younger' /\ Opened'
      BY <1>1, <1>2, <2>1 DEF FilesInv, Younger, Opened
    <2>3. FilesFollowTheScreen'
      BY <1>1, <2>1 DEF FilesInv, FilesFollowTheScreen, LaunchRestoresTheScreen,
                        DeltaIsOfAnEarlierRun, ResultOf
    <2> QED
      BY <1>3, <2>2, <2>3 DEF FilesInv
  <1> QED
    BY <1>4, <1>5

LEMMA ClearFiles == ASSUME IndInv, FilesInv, Clear PROVE FilesInv'
  <1> DEFINE gone == IF screen.st = "ready" THEN {screen.scope} ELSE {}
  <1>1. /\ begun' = begun /\ kept' = None /\ picked' = None /\ watch' = watch
        /\ unsaved' = unsaved \ gone /\ screen' = Blank("off")
        /\ \A s \in Scopes :
              /\ cache'[s] = IF s \in gone THEN None ELSE cache[s]
              /\ prev'[s] = IF s \in gone THEN None ELSE prev[s]
    BY DEF Clear, check
  <1>2. screen'.st = "off"
    BY <1>1 DEF Blank
  <1>3. \A s \in Scopes : OnFile(s)' \subseteq OnFile(s)
    BY <1>1 DEF OnFile
  <1> HIDE DEF gone
  <1>4. Filed' /\ Baselines'
    BY <1>1, <1>3 DEF FilesInv, Filed, Baselines
  <1>5. Younger' /\ Opened' /\ FilesFollowTheScreen'
    BY <1>1, <1>2, <1>3 DEF FilesInv, Younger, Opened, FilesFollowTheScreen,
                            LaunchRestoresTheScreen, DeltaIsOfAnEarlierRun
  <1> QED
    BY <1>4, <1>5 DEF FilesInv

LEMMA FilesNext == IndInv /\ FilesInv /\ [Next]_vars => FilesInv'
  <1> SUFFICES ASSUME IndInv, FilesInv, [Next]_vars PROVE FilesInv'
    OBVIOUS
  <1> USE DEF rows, check, files
  <1>1. begun \in Nat
    BY FilesHave
  <1>2. ASSUME begun' \in {begun, begun + 1}, UNCHANGED <<cache, prev, unsaved, kept, diff, screen>>,
               picked' = picked, watch' \subseteq watch
        PROVE  FilesInv'
    BY <1>1, <1>2, FilesStay
  <1>3. ASSUME NEW scope \in Scopes, Pick(scope) PROVE FilesInv'
    BY <1>1, <1>3, FilesStay, DiskAssumption DEF Pick
  <1>4. ASSUME NEW scope \in Scopes, FindDupes(scope) \/ ClearDupes(scope) PROVE FilesInv'
    BY <1>2, <1>4 DEF FindDupes, ClearDupes, StopCheck
  <1>5. CASE PickRoot \/ Cancel
    BY <1>1, <1>5, FilesStay DEF PickRoot, Cancel, Blank
  <1>6. ASSUME NEW r \in Rows, Toggle(r) \/ Measure(r) PROVE FilesInv'
    BY <1>2, <1>6 DEF Toggle, Measure, WalkRow
  <1>7. CASE ResetViews \/ HoldCheck \/ UNCHANGED vars
    BY <1>2, <1>7 DEF ResetViews, HoldCheck, vars
  <1>8. ASSUME NEW w \in walks, WalkEnds(w) \/ LandRow(w) \/ LandDupes(w) PROVE FilesInv'
    BY <1>2, <1>8 DEF WalkEnds, LandRow, LandDupes
  <1>9. ASSUME NEW w \in walks, LandTop(w) \/ LandCheck(w) PROVE FilesInv'
    BY <1>9, LandTopFiles, LandCheckFiles
  <1>10. ASSUME NEW gone \in SUBSET Rows, Trash(gone) PROVE FilesInv'
    BY <1>10, TrashFiles
  <1>11. CASE Start \/ StartCheck \/ Clear \/ Restart
    BY <1>11, BeginFiles, ClearFiles, RestartFiles
  <1> QED
    BY <1>3, <1>4, <1>5, <1>6, <1>7, <1>8, <1>9, <1>10, <1>11 DEF Next, Land

\* The next launch opens on the result that is on screen, cut rows and all, and
\* the delta under it is against an earlier run, unless a save of its scope has
\* failed: FilesFollowTheScreen, for any scopes, walks, cuts and restarts.
THEOREM FilesAlwaysFollow == Spec => []FilesFollowTheScreen
  <1>1. Init => FilesInv
    <2> SUFFICES ASSUME Init PROVE FilesInv
      OBVIOUS
    <2>1. screen.st = "off" /\ kept = None /\ \A s \in Scopes : cache[s] = None /\ prev[s] = None
      BY DEF Init, Blank
    <2> QED
      BY <2>1 DEF FilesInv, Filed, Baselines, Younger, Opened, OnFile, FilesFollowTheScreen,
                  LaunchRestoresTheScreen, DeltaIsOfAnEarlierRun
  <1>2. FilesInv => FilesFollowTheScreen
    BY DEF FilesInv
  <1> QED
    BY <1>1, <1>2, FilesNext, Inductive, PTL DEF Spec
=============================================================================
