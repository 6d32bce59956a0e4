------------------------------ MODULE AlertsProofs ------------------------------
(* What an alert meets, proved: the day's book is one card per episode and a   *)
(* mirror of its file, a dismissal and a follow-up do what they say, and the   *)
(* other parts of Alerts keep their promises, for any episodes and bounds.     *)
EXTENDS Alerts, FiniteSetTheorems, WellFoundedInduction, TLAPS

----------------------------------------------------------------------------
(* Induction. The library's theorems of induction take a predicate; these take *)
(* the set of what has it, and rest on the finite sets being well-founded.     *)

LEMMA SetInduction ==
    ASSUME NEW S, 0 \in S, \A n \in Nat : n \in S => n + 1 \in S
    PROVE  Nat \subseteq S
<1> SUFFICES ASSUME NEW w \in Nat, w \notin S PROVE FALSE
    OBVIOUS
<1> DEFINE Out == {0..n : n \in Nat \ S}
<1>1. Out \subseteq FiniteSubsetsOf(Nat) /\ Out # {}
    <2>1. \A n \in Nat : IsFiniteSet(0..n) /\ 0..n \subseteq Nat
        BY FS_Interval
    <2>2. QED  BY <2>1 DEF FiniteSubsetsOf
<1>2. PICK U \in Out : \A V \in Out : <<V, U>> \notin StrictSubsetOrdering(Nat)
    <2> HIDE DEF Out
    <2>1. QED  BY <1>1, FS_StrictSubsetOrderingWellFounded, WFMin
<1>3. PICK n \in Nat \ S : U = 0..n
    OBVIOUS
<1>4. n # 0 /\ n - 1 \in Nat
    OBVIOUS
<1>5. n - 1 \notin S
    BY <1>4
<1>6. <<0..n-1, 0..n>> \in StrictSubsetOrdering(Nat)
    <2>1. 0..n-1 \subseteq 0..n /\ n \in 0..n /\ n \notin 0..n-1
        BY <1>4
    <2>2. 0..n-1 \in SUBSET Nat /\ 0..n \in SUBSET Nat
        BY <1>4
    <2>3. QED  BY <2>1, <2>2 DEF StrictSubsetOrdering
<1>7. QED  BY <1>2, <1>3, <1>4, <1>5, <1>6

LEMMA SeqInduction ==
    ASSUME NEW S, NEW P, <<>> \in P,
           \A s \in Seq(S), x \in S : s \in P => Append(s, x) \in P
    PROVE  Seq(S) \subseteq P
<1> DEFINE W == {n \in Nat : \A s \in Seq(S) : Len(s) = n => s \in P}
<1>1. 0 \in W
    OBVIOUS
<1>2. ASSUME NEW n \in Nat, n \in W PROVE n + 1 \in W
    <2> SUFFICES ASSUME NEW s \in Seq(S), Len(s) = n + 1 PROVE s \in P
        OBVIOUS
    <2> DEFINE start == SubSeq(s, 1, n)
    <2>1. start \in Seq(S) /\ Len(start) = n /\ s[n + 1] \in S
        OBVIOUS
    <2>2. s = Append(start, s[n + 1])
        OBVIOUS
    <2>3. start \in P
        BY <2>1, <1>2
    <2> HIDE DEF start
    <2>4. QED  BY <2>1, <2>2, <2>3
<1>3. Nat \subseteq W
    <2> HIDE DEF W
    <2>1. QED  BY <1>1, <1>2, SetInduction
<1>4. QED  BY <1>3

----------------------------------------------------------------------------
(* Only: what is left of a sequence.                                          *)

Sieve(s, T, n, f) ==
    f = [i \in 0..n |-> IF i = 0 THEN <<>>
                        ELSE IF s[i] \in T THEN Append(f[i - 1], s[i]) ELSE f[i - 1]]

LEMMA SieveExists ==
    ASSUME NEW s, NEW T, NEW n \in Nat
    PROVE  \E f : Sieve(s, T, n, f)
<1> DEFINE W == {k \in Nat : \E f : Sieve(s, T, k, f)}
<1>1. 0 \in W
    <2>1. Sieve(s, T, 0, [i \in 0..0 |-> <<>>])
        BY DEF Sieve
    <2>2. QED  BY <2>1
<1>2. ASSUME NEW k \in Nat, k \in W PROVE k + 1 \in W
    <2>1. PICK f : Sieve(s, T, k, f)
        BY <1>2
    <2> DEFINE last == IF s[k + 1] \in T THEN Append(f[k], s[k + 1]) ELSE f[k]
               g == [i \in 0..k + 1 |-> IF i = k + 1 THEN last ELSE f[i]]
    <2>2. \A i \in 0..k : g[i] = f[i]
        OBVIOUS
    <2>3. \A i \in 0..k : f[i] = IF i = 0 THEN <<>>
                                 ELSE IF s[i] \in T THEN Append(f[i - 1], s[i]) ELSE f[i - 1]
        BY <2>1 DEF Sieve
    <2>4. ASSUME NEW i \in 0..k + 1
          PROVE  g[i] = IF i = 0 THEN <<>>
                        ELSE IF s[i] \in T THEN Append(g[i - 1], s[i]) ELSE g[i - 1]
        <3>1. CASE i \in 0..k
            <4>1. i = 0 \/ i - 1 \in 0..k
                BY <3>1
            <4> HIDE DEF g
            <4>2. QED  BY <4>1, <3>1, <2>2, <2>3
        <3>2. CASE i = k + 1
            <4>1. i # 0 /\ i - 1 = k /\ k \in 0..k
                BY <3>2
            <4>2. g[k] = f[k]
                BY <4>1, <2>2
            <4>3. g[i] = last
                BY <3>2
            <4> HIDE DEF g
            <4>4. QED  BY <4>1, <4>2, <4>3, <3>2
        <3>3. QED  BY <3>1, <3>2
    <2>5. Sieve(s, T, k + 1, g)
        BY <2>4 DEF Sieve
    <2>6. QED  BY <2>5
<1>3. QED  BY <1>1, <1>2, SetInduction

\* What has been kept after k elements depends on those k alone.
LEMMA SieveAgrees ==
    ASSUME NEW s, NEW t, NEW T, NEW n \in Nat, NEW m \in Nat, n <= m,
           NEW f, NEW g, Sieve(s, T, n, f), Sieve(t, T, m, g),
           \A i \in 1..n : s[i] = t[i]
    PROVE  f[n] = g[n]
<1> DEFINE W == {k \in Nat : k <= n => f[k] = g[k]}
<1>1. 0 \in W
    BY DEF Sieve
<1>2. ASSUME NEW k \in Nat, k \in W PROVE k + 1 \in W
    <2> SUFFICES ASSUME k + 1 <= n PROVE f[k + 1] = g[k + 1]
        OBVIOUS
    <2>1. k + 1 \in 0..n /\ k + 1 \in 0..m /\ k + 1 # 0 /\ (k + 1) - 1 = k /\ k + 1 \in 1..n
        OBVIOUS
    <2>2. f[k] = g[k] /\ s[k + 1] = t[k + 1]
        BY <1>2, <2>1
    <2>3. f[k + 1] = IF s[k + 1] \in T THEN Append(f[k], s[k + 1]) ELSE f[k]
        BY <2>1 DEF Sieve
    <2>4. g[k + 1] = IF t[k + 1] \in T THEN Append(g[k], t[k + 1]) ELSE g[k]
        BY <2>1 DEF Sieve
    <2>5. QED  BY <2>2, <2>3, <2>4
<1>3. Nat \subseteq W
    <2> HIDE DEF W
    <2>1. QED  BY <1>1, <1>2, SetInduction
<1>4. QED  BY <1>3

LEMMA OnlySieves ==
    ASSUME NEW s, NEW T, Len(s) \in Nat
    PROVE  \E f : Sieve(s, T, Len(s), f) /\ Only(s, T) = f[Len(s)]
<1> DEFINE f == CHOOSE g : Sieve(s, T, Len(s), g)
<1>1. Sieve(s, T, Len(s), f)
    BY SieveExists
<1>2. Only(s, T) = f[Len(s)]
    BY DEF Only, Sieve
<1>3. QED  BY <1>1, <1>2

LEMMA OnlyOfNothing == ASSUME NEW T PROVE Only(<<>>, T) = <<>>
<1>1. Len(<<>>) = 0
    OBVIOUS
<1>2. PICK f : Sieve(<<>>, T, 0, f) /\ Only(<<>>, T) = f[0]
    BY <1>1, OnlySieves
<1>3. QED  BY <1>2 DEF Sieve

LEMMA OnlyOfMore ==
    ASSUME NEW S, NEW s \in Seq(S), NEW x \in S, NEW T
    PROVE  Only(Append(s, x), T) = IF x \in T THEN Append(Only(s, T), x) ELSE Only(s, T)
<1> DEFINE t == Append(s, x)
           n == Len(s)
<1>1. Len(t) = n + 1 /\ n \in Nat /\ t[n + 1] = x /\ \A i \in 1..n : s[i] = t[i]
    OBVIOUS
<1> HIDE DEF t
<1>2. PICK f : Sieve(s, T, n, f) /\ Only(s, T) = f[n]
    BY <1>1, OnlySieves
<1>3. PICK g : Sieve(t, T, n + 1, g) /\ Only(t, T) = g[n + 1]
    BY <1>1, OnlySieves
<1>4. f[n] = g[n]
    <2>1. n + 1 \in Nat /\ n <= n + 1
        BY <1>1
    <2> HIDE DEF n
    <2>2. QED  BY <1>1, <1>2, <1>3, <2>1, SieveAgrees
<1>5. g[n + 1] = IF t[n + 1] \in T THEN Append(g[n], t[n + 1]) ELSE g[n]
    <2>1. n + 1 \in 0..n + 1 /\ n + 1 # 0 /\ (n + 1) - 1 = n
        BY <1>1
    <2> HIDE DEF n
    <2>2. QED  BY <1>3, <2>1 DEF Sieve
<1>6. QED  BY <1>1, <1>2, <1>3, <1>4, <1>5 DEF t

\* It is a part of the sequence, in its order: element i of it was element at[i].
Within(r, s, at) ==
    /\ at \in [1..Len(r) -> 1..Len(s)]
    /\ \A i \in 1..Len(r) : r[i] = s[at[i]]
    /\ \A i, j \in 1..Len(r) : i < j => at[i] < at[j]

LEMMA OnlyIsAPart ==
    ASSUME NEW S, NEW s \in Seq(S), NEW T
    PROVE  /\ Only(s, T) \in Seq(S) /\ Len(Only(s, T)) <= Len(s)
           /\ \A i \in 1..Len(Only(s, T)) : Only(s, T)[i] \in T
           /\ \E at : Within(Only(s, T), s, at)
<1> DEFINE Fits(t) == /\ Only(t, T) \in Seq(S) /\ Len(Only(t, T)) <= Len(t)
                      /\ \A i \in 1..Len(Only(t, T)) : Only(t, T)[i] \in T
                      /\ \E at : Within(Only(t, T), t, at)
           P == {t \in Seq(S) : Fits(t)}
<1>1. <<>> \in P
    <2>1. Within(<<>>, <<>>, <<>>)
        BY DEF Within
    <2>2. Only(<<>>, T) = <<>>
        BY OnlyOfNothing
    <2>3. Fits(<<>>)
        <3>1. Len(<<>>) = 0 /\ <<>> \in Seq(S) /\ 1..0 = {}
            OBVIOUS
        <3>2. Within(Only(<<>>, T), <<>>, <<>>)
            BY <2>1, <2>2
        <3>3. Len(Only(<<>>, T)) = 0 /\ Only(<<>>, T) \in Seq(S)
            BY <2>2, <3>1
        <3>4. Len(Only(<<>>, T)) <= Len(<<>>)
            BY <3>1, <3>3
        <3>5. \A i \in 1..Len(Only(<<>>, T)) : Only(<<>>, T)[i] \in T
            BY <3>1, <3>3
        <3>6. QED  BY <3>2, <3>3, <3>4, <3>5
    <2>4. <<>> \in Seq(S)
        OBVIOUS
    <2>5. QED  BY <2>3, <2>4
<1>2. ASSUME NEW t \in Seq(S), NEW x \in S, t \in P PROVE Append(t, x) \in P
    <2> DEFINE r == Only(t, T)
               q == Only(Append(t, x), T)
               u == Append(t, x)
    <2>1. /\ r \in Seq(S) /\ Len(r) <= Len(t) /\ \A i \in 1..Len(r) : r[i] \in T
          /\ \E at : Within(r, t, at)
        BY <1>2
    <2>2. PICK at : Within(r, t, at)
        BY <2>1
    <2>3. q = IF x \in T THEN Append(r, x) ELSE r
        BY OnlyOfMore
    <2>4. /\ u \in Seq(S) /\ Len(u) = Len(t) + 1 /\ u[Len(t) + 1] = x
          /\ \A i \in 1..Len(t) : u[i] = t[i]
        OBVIOUS
    <2> HIDE DEF r, q, u
    <2>8. /\ at \in [1..Len(r) -> 1..Len(u)]
          /\ \A i \in 1..Len(r) : at[i] \in 1..Len(t) /\ r[i] = t[at[i]] /\ r[i] = u[at[i]]
          /\ \A i, j \in 1..Len(r) : i < j => at[i] < at[j]
        <3>1. \A i \in 1..Len(r) : at[i] \in 1..Len(t) /\ r[i] = t[at[i]]
            BY <2>2 DEF Within
        <3>2. 1..Len(t) \subseteq 1..Len(u)
            BY <2>4
        <3>3. QED  BY <2>2, <2>4, <3>1, <3>2 DEF Within
    <2>5. CASE x \notin T
        <3>1. q = r
            BY <2>3, <2>5
        <3>2. Within(r, u, at)
            BY <2>1, <2>4, <2>8 DEF Within
        <3>3. Fits(u)
            BY <2>1, <2>4, <3>1, <3>2 DEF q, u
        <3>4. QED  BY <2>4, <3>3 DEF u
    <2>6. CASE x \in T
        <3>1. q = Append(r, x) /\ q \in Seq(S) /\ Len(q) = Len(r) + 1 /\ q[Len(r) + 1] = x
            BY <2>1, <2>3, <2>6
        <3>2. \A i \in 1..Len(r) : q[i] = r[i]
            BY <2>1, <3>1
        <3> DEFINE on == [i \in 1..Len(q) |-> IF i = Len(r) + 1 THEN Len(t) + 1 ELSE at[i]]
        <3>3. on \in [1..Len(q) -> 1..Len(u)]
            BY <2>1, <2>2, <2>4, <3>1 DEF Within
        <3>9. /\ on[Len(q)] = Len(t) + 1 /\ Len(q) = Len(r) + 1
              /\ \A i \in 1..Len(r) : on[i] = at[i]
            BY <2>1, <3>1
        <3>10. \A i \in 1..Len(q) : i = Len(q) \/ i \in 1..Len(r)
            BY <2>1, <3>1
        <3>4. \A i \in 1..Len(q) : q[i] = u[on[i]]
            <4> HIDE DEF on
            <4>1. QED  BY <2>4, <2>8, <3>1, <3>2, <3>9, <3>10
        <3>5. \A i, j \in 1..Len(q) : i < j => on[i] < on[j]
            <4> SUFFICES ASSUME NEW i \in 1..Len(q), NEW j \in 1..Len(q), i < j
                         PROVE  on[i] < on[j]
                OBVIOUS
            <4> HIDE DEF on
            <4>1. i \in 1..Len(r)
                BY <2>1, <3>1
            <4>2. CASE j = Len(q)
                <5>1. at[i] < Len(t) + 1
                    BY <2>8, <4>1
                <5>2. QED  BY <3>9, <4>1, <4>2, <5>1
            <4>3. CASE j \in 1..Len(r)
                BY <2>8, <3>9, <4>1, <4>3
            <4>4. QED  BY <3>10, <4>2, <4>3
        <3>6. Within(q, u, on)
            BY <3>3, <3>4, <3>5 DEF Within
        <3>7. \A i \in 1..Len(q) : q[i] \in T
            BY <2>1, <2>6, <3>1, <3>2
        <3>8. Fits(u)
            <4> HIDE DEF on
            <4>1. Len(q) <= Len(u)
                BY <2>1, <2>4, <3>1
            <4>2. QED  BY <3>1, <3>6, <3>7, <4>1 DEF q, u
        <3>11. QED  BY <2>4, <3>8 DEF u
    <2>7. QED  BY <2>5, <2>6
<1>3. Seq(S) \subseteq P
    <2> HIDE DEF P
    <2>1. QED  BY <1>1, <1>2, SeqInduction
<1>4. QED  BY <1>3

LEMMA OnlyOfAll ==
    ASSUME NEW S, NEW T, NEW s \in Seq(S), \A i \in 1..Len(s) : s[i] \in T
    PROVE  Only(s, T) = s
<1> DEFINE P == {t \in Seq(S) : (\A i \in 1..Len(t) : t[i] \in T) => Only(t, T) = t}
<1>1. <<>> \in P
    BY OnlyOfNothing
<1>2. ASSUME NEW t \in Seq(S), NEW x \in S, t \in P PROVE Append(t, x) \in P
    <2> DEFINE u == Append(t, x)
    <2>1. u \in Seq(S) /\ Len(u) = Len(t) + 1 /\ u[Len(t) + 1] = x /\ \A i \in 1..Len(t) : u[i] = t[i]
        OBVIOUS
    <2>2. Only(u, T) = IF x \in T THEN Append(Only(t, T), x) ELSE Only(t, T)
        BY OnlyOfMore
    <2> SUFFICES ASSUME \A i \in 1..Len(u) : u[i] \in T PROVE Only(u, T) = u
        BY <2>1
    <2>3. x \in T /\ \A i \in 1..Len(t) : t[i] \in T
        <3> HIDE DEF u
        <3>1. QED  BY <2>1
    <2>4. QED  BY <1>2, <2>2, <2>3
<1>3. Seq(S) \subseteq P
    <2> HIDE DEF P
    <2>1. QED  BY <1>1, <1>2, SeqInduction
<1>4. QED  BY <1>3

LEMMA OnlyOfNone ==
    ASSUME NEW S, NEW T, NEW s \in Seq(S), \A i \in 1..Len(s) : s[i] \notin T
    PROVE  Only(s, T) = <<>>
<1> PICK at : Within(Only(s, T), s, at)
    BY OnlyIsAPart
<1>1. Only(s, T) \in Seq(S) /\ \A i \in 1..Len(Only(s, T)) : Only(s, T)[i] \in T
    BY OnlyIsAPart
<1>2. Len(Only(s, T)) = 0
    <2> SUFFICES ASSUME Len(Only(s, T)) # 0 PROVE FALSE
        OBVIOUS
    <2>1. 1 \in 1..Len(Only(s, T))
        BY <1>1
    <2>2. QED  BY <1>1, <2>1 DEF Within
<1>3. QED  BY <1>1, <1>2

LEMMA OnlyOfBoth ==
    ASSUME NEW S, NEW T, NEW s \in Seq(S), NEW r \in Seq(S)
    PROVE  Only(s \o r, T) = Only(s, T) \o Only(r, T)
<1> DEFINE P == {t \in Seq(S) : Only(s \o t, T) = Only(s, T) \o Only(t, T)}
<1>0. Only(s, T) \in Seq(S)
    BY OnlyIsAPart
<1>1. <<>> \in P
    <2>1. s \o <<>> = s /\ Only(s, T) \o <<>> = Only(s, T)
        BY <1>0
    <2>2. Only(<<>>, T) = <<>> /\ <<>> \in Seq(S)
        BY OnlyOfNothing
    <2>3. QED  BY <2>1, <2>2
<1>2. ASSUME NEW t \in Seq(S), NEW x \in S, t \in P PROVE Append(t, x) \in P
    <2>1. s \o Append(t, x) = Append(s \o t, x) /\ s \o t \in Seq(S) /\ Append(t, x) \in Seq(S)
        OBVIOUS
    <2>2. Only(Append(s \o t, x), T)
              = IF x \in T THEN Append(Only(s \o t, T), x) ELSE Only(s \o t, T)
        BY <2>1, OnlyOfMore
    <2>3. Only(Append(t, x), T) = IF x \in T THEN Append(Only(t, T), x) ELSE Only(t, T)
        BY OnlyOfMore
    <2>4. Only(t, T) \in Seq(S)
        BY OnlyIsAPart
    <2>5. Only(s, T) \o Append(Only(t, T), x) = Append(Only(s, T) \o Only(t, T), x)
        BY <1>0, <2>4
    <2>6. QED  BY <1>2, <2>1, <2>2, <2>3, <2>5
<1>3. Seq(S) \subseteq P
    <2> HIDE DEF P
    <2>1. QED  BY <1>1, <1>2, SeqInduction
<1>4. QED  BY <1>3

LEMMA OnlyOfOnly ==
    ASSUME NEW S, NEW T, NEW U, NEW s \in Seq(S)
    PROVE  Only(Only(s, T), U) = Only(s, T \cap U)
<1> DEFINE P == {t \in Seq(S) : Only(Only(t, T), U) = Only(t, T \cap U)}
<1>1. <<>> \in P
    BY OnlyOfNothing
<1>2. ASSUME NEW t \in Seq(S), NEW x \in S, t \in P PROVE Append(t, x) \in P
    <2>1. Only(Append(t, x), T) = IF x \in T THEN Append(Only(t, T), x) ELSE Only(t, T)
        BY OnlyOfMore
    <2>2. Only(Append(t, x), T \cap U)
              = IF x \in T \cap U THEN Append(Only(t, T \cap U), x) ELSE Only(t, T \cap U)
        BY OnlyOfMore
    <2>3. Only(t, T) \in Seq(S)
        BY OnlyIsAPart
    <2>4. Only(Append(Only(t, T), x), U)
              = IF x \in U THEN Append(Only(Only(t, T), U), x) ELSE Only(Only(t, T), U)
        BY <2>3, OnlyOfMore
    <2>5. Only(Only(Append(t, x), T), U) = Only(Append(t, x), T \cap U)
        <3>1. Only(Only(t, T), U) = Only(t, T \cap U)
            BY <1>2
        <3>2. CASE x \in T
            <4>1. Only(Append(t, x), T) = Append(Only(t, T), x)
                BY <2>1, <3>2
            <4>2. Only(Only(Append(t, x), T), U)
                      = IF x \in U THEN Append(Only(t, T \cap U), x) ELSE Only(t, T \cap U)
                BY <4>1, <2>4, <3>1
            <4>3. x \in U <=> x \in T \cap U
                BY <3>2
            <4>4. QED  BY <2>2, <4>2, <4>3
        <3>3. CASE x \notin T
            BY <2>1, <2>2, <3>1, <3>3
        <3>4. QED  BY <3>2, <3>3
    <2>6. QED  BY <2>5
<1>3. Seq(S) \subseteq P
    <2> HIDE DEF P
    <2>1. QED  BY <1>1, <1>2, SeqInduction
<1>4. QED  BY <1>3

LEMMA OnlyAgrees ==
    ASSUME NEW S, NEW T, NEW U, NEW s \in Seq(S),
           \A i \in 1..Len(s) : s[i] \in T <=> s[i] \in U
    PROVE  Only(s, T) = Only(s, U)
<1>1. Only(s, T \cap U) = Only(s, T)
    <2> DEFINE r == Only(s, T)
    <2>1. PICK at : Within(r, s, at)
        BY OnlyIsAPart
    <2>2. r \in Seq(S) /\ \A i \in 1..Len(r) : r[i] \in T
        BY OnlyIsAPart
    <2>3. \A i \in 1..Len(r) : r[i] \in U
        BY <2>1, <2>2 DEF Within
    <2>4. Only(r, U) = r
        <3> HIDE DEF r
        <3>1. QED  BY <2>2, <2>3, OnlyOfAll
    <2>5. QED  BY <2>4, OnlyOfOnly
<1>2. Only(s, U \cap T) = Only(s, U)
    <2> DEFINE r == Only(s, U)
    <2>1. PICK at : Within(r, s, at)
        BY OnlyIsAPart
    <2>2. r \in Seq(S) /\ \A i \in 1..Len(r) : r[i] \in U
        BY OnlyIsAPart
    <2>3. \A i \in 1..Len(r) : r[i] \in T
        BY <2>1, <2>2 DEF Within
    <2>4. Only(r, T) = r
        <3> HIDE DEF r
        <3>1. QED  BY <2>2, <2>3, OnlyOfAll
    <2>5. QED  BY <2>4, OnlyOfOnly
<1>3. T \cap U = U \cap T
    OBVIOUS
<1>4. QED  BY <1>1, <1>2, <1>3

----------------------------------------------------------------------------
(* The book: what its list and its files are.                                 *)

\* No two cards of an episode, and no two of one id.
Apart(deck) ==
    \A i, j \in 1..Len(deck) :
        deck[i].ep = deck[j].ep \/ deck[i].seq = deck[j].seq => i = j

\* A list whose last id is `last`, on day d, when `known` has been reported.
CardsFit(deck, last, d, known) ==
    /\ deck \in Seq(Cards) /\ Len(deck) <= MaxAlerts /\ Apart(deck)
    /\ \A i \in 1..Len(deck) :
           /\ deck[i].seq \in 1..last /\ deck[i].day <= d
           /\ deck[i].live => deck[i].ep \in known

RowsApart(rows) == \A i, j \in 1..Len(rows) : rows[i].ep = rows[j].ep => i = j

\* A day's file is of that day, what stands in it fits the list, and no file is
\* written ahead of its day.
FilesFit(kept, d) ==
    /\ kept \in [Days -> Seq(Rows)]
    /\ \A on \in Days :
           /\ on > d => kept[on] = <<>>
           /\ \A i \in 1..Len(kept[on]) : kept[on][i].day = on
           /\ Len(Only(kept[on], Standing)) <= MaxAlerts
           /\ RowsApart(Only(kept[on], Standing))

AllGone(rows) == \A i \in 1..Len(rows) : rows[i].dismissed

\* A press names an id that was given, and the card of that id, if it is there.
PressFits ==
    pressed # NoPress =>
        /\ pressed.seq \in 1..nextSeq
        /\ \A i \in 1..Len(alerts) : alerts[i].seq = pressed.seq => alerts[i].ep = pressed.ep

IndInv ==
    /\ TypeOK
    /\ CardsFit(alerts, nextSeq, day, heard)
    /\ AllGone(dismissed) /\ FilesFit(files, day)
    /\ PressFits /\ ShownIsSeen /\ TodayIsMirrored

----------------------------------------------------------------------------
(* Operations on the list.                                                    *)

LEMMA RemoveAtFacts ==
    ASSUME NEW S, NEW s \in Seq(S), NEW i \in 1..Len(s)
    PROVE  /\ RemoveAt(s, i) \in Seq(S) /\ Len(RemoveAt(s, i)) = Len(s) - 1
           /\ \A j \in 1..Len(s) - 1 : RemoveAt(s, i)[j] = IF j < i THEN s[j] ELSE s[j + 1]
<1> DEFINE a == SubSeq(s, 1, i - 1)
           b == SubSeq(s, i + 1, Len(s))
<1>1. /\ a \in Seq(S) /\ Len(a) = i - 1 /\ \A j \in 1..i - 1 : a[j] = s[j]
      /\ b \in Seq(S) /\ Len(b) = Len(s) - i /\ \A j \in 1..Len(s) - i : b[j] = s[j + i]
    OBVIOUS
<1>2. RemoveAt(s, i) = a \o b
    BY DEF RemoveAt
<1> HIDE DEF a, b
<1>3. a \o b \in Seq(S) /\ Len(a \o b) = Len(s) - 1
    <2>1. a \o b \in Seq(S) /\ Len(a \o b) = Len(a) + Len(b)
        <3>1. a \in Seq(S) /\ b \in Seq(S)
            BY <1>1
        <3>2. QED  BY <3>1
    <2>2. Len(a) + Len(b) = Len(s) - 1
        BY <1>1
    <2>3. QED  BY <2>1, <2>2
<1>4. ASSUME NEW j \in 1..Len(s) - 1
      PROVE  (a \o b)[j] = IF j < i THEN s[j] ELSE s[j + 1]
    <2>1. CASE j < i
        <3>1. j \in 1..Len(a)
            BY <1>1, <2>1
        <3>2. QED  BY <1>1, <2>1, <3>1
    <2>2. CASE ~(j < i)
        <3>1. j - Len(a) \in 1..Len(b) /\ j \in Len(a) + 1..Len(a) + Len(b)
            BY <1>1, <2>2
        <3>2. (a \o b)[j] = b[j - Len(a)]
            BY <1>1, <3>1
        <3>3. (j - Len(a)) + i = j + 1
            BY <1>1
        <3>4. QED  BY <1>1, <2>2, <3>1, <3>2, <3>3
    <2>3. QED  BY <2>1, <2>2
<1>5. QED  BY <1>2, <1>3, <1>4

\* What is left of a list that fits, fits.
LEMMA PartFits ==
    ASSUME NEW deck, NEW last \in Nat, NEW d \in Days, NEW known, NEW r \in Seq(Cards),
           CardsFit(deck, last, d, known), Len(r) <= Len(deck),
           \E at : Within(r, deck, at)
    PROVE  CardsFit(r, last, d, known)
<1> PICK at : Within(r, deck, at)
    OBVIOUS
<1>1. /\ deck \in Seq(Cards) /\ Len(deck) \in Nat /\ Len(r) \in Nat
      /\ \A i \in 1..Len(r) : at[i] \in 1..Len(deck) /\ r[i] = deck[at[i]]
    <2>1. deck \in Seq(Cards)
        BY DEF CardsFit
    <2>2. at \in [1..Len(r) -> 1..Len(deck)] /\ \A i \in 1..Len(r) : r[i] = deck[at[i]]
        BY DEF Within
    <2>3. QED  BY <2>1, <2>2
<1>2. Len(r) <= MaxAlerts
    BY <1>1, AlertAssumption DEF CardsFit
<1>3. Apart(r)
    <2> SUFFICES ASSUME NEW i \in 1..Len(r), NEW j \in 1..Len(r), i # j,
                        r[i].ep = r[j].ep \/ r[i].seq = r[j].seq
                 PROVE  FALSE
        BY DEF Apart
    <2>1. at[i] = at[j]
        <3>1. at[i] \in 1..Len(deck) /\ at[j] \in 1..Len(deck)
            BY <1>1
        <3>2. \/ deck[at[i]].ep = deck[at[j]].ep
              \/ deck[at[i]].seq = deck[at[j]].seq
            BY <1>1
        <3>3. Apart(deck)
            BY DEF CardsFit
        <3>4. QED  BY <3>1, <3>2, <3>3 DEF Apart
    <2>2. at[i] \in Nat /\ at[j] \in Nat /\ (i < j \/ j < i)
        BY <1>1
    <2>3. at[i] < at[j] \/ at[j] < at[i]
        BY <2>2 DEF Within
    <2>4. QED  BY <2>1, <2>2, <2>3
<1>4. QED  BY <1>1, <1>2, <1>3 DEF CardsFit

LEMMA OnlyFits ==
    ASSUME NEW deck, NEW last \in Nat, NEW d \in Days, NEW known, NEW T,
           CardsFit(deck, last, d, known)
    PROVE  CardsFit(Only(deck, T), last, d, known)
<1>1. deck \in Seq(Cards)
    BY DEF CardsFit
<1>2. /\ Only(deck, T) \in Seq(Cards) /\ Len(Only(deck, T)) <= Len(deck)
      /\ \E at : Within(Only(deck, T), deck, at)
    BY <1>1, OnlyIsAPart
<1>3. QED  BY <1>2, PartFits

LEMMA FitsLater ==
    ASSUME NEW deck, NEW last \in Nat, NEW d \in Days, NEW known,
           NEW more \in Nat, NEW on \in Days, NEW all,
           CardsFit(deck, last, d, known), last <= more, d <= on, known \subseteq all
    PROVE  CardsFit(deck, more, on, all)
<1>1. \A i \in 1..Len(deck) : deck[i].seq \in 1..more /\ deck[i].day <= on
    <2> SUFFICES ASSUME NEW i \in 1..Len(deck)
                 PROVE  deck[i].seq \in 1..more /\ deck[i].day <= on
        OBVIOUS
    <2>1. deck[i] \in Cards /\ deck[i].seq \in 1..last /\ deck[i].day <= d
        BY DEF CardsFit
    <2>2. deck[i].day \in Nat /\ d \in Nat /\ on \in Nat
        BY <2>1, AlertAssumption DEF Cards, Days
    <2>3. QED  BY <2>1, <2>2
<1>2. QED  BY <1>1 DEF CardsFit

LEMMA SeenFits ==
    ASSUME NEW deck, NEW last \in Nat, NEW d \in Days, NEW known,
           CardsFit(deck, last, d, known)
    PROVE  /\ CardsFit(Seen(deck), last, d, known)
           /\ Len(Seen(deck)) = Len(deck)
           /\ \A i \in 1..Len(deck) : Seen(deck)[i] = [deck[i] EXCEPT !.noticed = TRUE]
           /\ AsRows(Seen(deck)) = AsRows(deck)
<1>1. deck \in Seq(Cards) /\ DOMAIN deck = 1..Len(deck) /\ Len(deck) \in Nat
    BY DEF CardsFit
<1>2. \A i \in 1..Len(deck) : deck[i] \in Cards
    BY <1>1
<1>3. /\ Seen(deck) = [i \in 1..Len(deck) |-> [deck[i] EXCEPT !.noticed = TRUE]]
      /\ \A i \in 1..Len(deck) : [deck[i] EXCEPT !.noticed = TRUE] \in Cards
    BY <1>1, <1>2 DEF Seen, Cards
<1>4. Seen(deck) \in Seq(Cards) /\ Len(Seen(deck)) = Len(deck) /\ DOMAIN Seen(deck) = 1..Len(deck)
    BY <1>1, <1>3
<1>5. \A i \in 1..Len(deck) : Seen(deck)[i] = [deck[i] EXCEPT !.noticed = TRUE]
    BY <1>3
<1>6. \A i \in 1..Len(deck) :
          /\ Seen(deck)[i].ep = deck[i].ep /\ Seen(deck)[i].seq = deck[i].seq
          /\ Seen(deck)[i].day = deck[i].day /\ Seen(deck)[i].live = deck[i].live
          /\ Seen(deck)[i].grave = deck[i].grave
    BY <1>2, <1>5 DEF Cards
<1>7. CardsFit(Seen(deck), last, d, known)
    BY <1>4, <1>6 DEF CardsFit, Apart
<1>8. AsRows(Seen(deck)) = AsRows(deck)
    BY <1>1, <1>4, <1>6 DEF AsRows, Row
<1>9. QED  BY <1>4, <1>5, <1>7, <1>8

\* r is the list after the event: its episode's card, merged or new, and cards that were.
RecordsWell(deck, last, d, known, event, r) ==
    /\ CardsFit(r, IF \E i \in 1..Len(deck) : deck[i].ep = event.ep THEN last ELSE last + 1,
                d, known \cup {event.ep})
    /\ \A j \in 1..Len(r) :
          \/ /\ r[j].ep # event.ep
             /\ \E i \in 1..Len(deck) : r[j] = deck[i]
          \/ /\ r[j].ep = event.ep /\ r[j].grave = event.grave
             /\ \A i \in 1..Len(deck) :
                   deck[i].ep = event.ep =>
                       r[j].noticed = (deck[i].noticed /\ deck[i].live
                                       /\ ~Graver(event, deck[i]))
    /\ \A j \in 1..Len(r) : r[j].seq \in 1..last =>
          \E i \in 1..Len(deck) : r[j].seq = deck[i].seq /\ r[j].ep = deck[i].ep

\* The merged card stands in front, or a new one does, the oldest making room.
LEMMA RecordedFits ==
    ASSUME NEW deck, NEW last \in Nat, NEW d \in Days, NEW known, NEW event \in Events,
           CardsFit(deck, last, d, known)
    PROVE  RecordsWell(deck, last, d, known, event, Recorded(deck, event, d, last + 1))
<1> DEFINE r == Recorded(deck, event, d, last + 1)
           had == \E i \in 1..Len(deck) : deck[i].ep = event.ep
           next == IF had THEN last ELSE last + 1
           From(j) == \/ /\ r[j].ep # event.ep
                         /\ \E i \in 1..Len(deck) : r[j] = deck[i]
                      \/ /\ r[j].ep = event.ep /\ r[j].grave = event.grave
                         /\ \A i \in 1..Len(deck) :
                               deck[i].ep = event.ep =>
                                   r[j].noticed = (deck[i].noticed /\ deck[i].live
                                                   /\ ~Graver(event, deck[i]))
           Kept(j) == r[j].seq \in 1..last =>
                          \E i \in 1..Len(deck) : r[j].seq = deck[i].seq /\ r[j].ep = deck[i].ep
<1>1. /\ deck \in Seq(Cards) /\ DOMAIN deck = 1..Len(deck) /\ Len(deck) \in Nat
      /\ Len(deck) <= MaxAlerts /\ Apart(deck)
    BY DEF CardsFit
<1>2. \A i \in 1..Len(deck) :
          /\ deck[i] \in Cards /\ deck[i].seq \in 1..last /\ deck[i].day <= d
          /\ deck[i].live => deck[i].ep \in known
    BY <1>1 DEF CardsFit
<1>3. d \in Nat /\ MaxAlerts \in Nat /\ MaxAlerts >= 1
    BY AlertAssumption DEF Days
<1>4. event.ep \in Episodes /\ event.grave \in BOOLEAN
    BY DEF Events
<1> DEFINE same == {i \in 1..Len(deck) : deck[i].ep = event.ep}
<1>5. CASE same # {}
    <2>1. PICK i \in 1..Len(deck) : same = {i} /\ deck[i].ep = event.ep
        BY <1>1, <1>5 DEF Apart
    <2>2. Min(same) = i
        <3>1. \E x \in {i} : \A y \in {i} : x <= y
            BY <2>1
        <3>2. QED  BY <2>1, <3>1 DEF Min
    <2> DEFINE top == Merged(deck[i], event, d)
               rest == RemoveAt(deck, i)
    <2>3. r = <<top>> \o rest
        BY <1>1, <2>1, <2>2 DEF Recorded
    <2>4. /\ rest \in Seq(Cards) /\ Len(rest) = Len(deck) - 1
          /\ \A j \in 1..Len(deck) - 1 : rest[j] = IF j < i THEN deck[j] ELSE deck[j + 1]
        BY <1>1, RemoveAtFacts
    <2>5. /\ top \in Cards /\ top.ep = event.ep /\ top.grave = event.grave
          /\ top.seq = deck[i].seq /\ top.day = d
          /\ top.noticed = (deck[i].noticed /\ deck[i].live /\ ~Graver(event, deck[i]))
        BY <1>2, <1>4, <2>1 DEF Merged, Cards, Graver
    <2> HIDE DEF top, rest, r, same
    <2>6. /\ r \in Seq(Cards) /\ Len(r) = Len(deck) /\ r[1] = top
          /\ \A j \in 2..Len(deck) : r[j] = rest[j - 1]
        <3>1. <<top>> \in Seq(Cards) /\ Len(<<top>>) = 1 /\ <<top>>[1] = top
            BY <2>5
        <3>2. r \in Seq(Cards) /\ Len(r) = Len(deck) /\ r[1] = top
            <4>1. <<top>> \in Seq(Cards) /\ rest \in Seq(Cards)
                BY <2>4, <3>1
            <4>2. /\ <<top>> \o rest \in Seq(Cards)
                  /\ Len(<<top>> \o rest) = Len(<<top>>) + Len(rest)
                BY <4>1
            <4>3. 1 + (Len(deck) - 1) = Len(deck)
                BY <1>1
            <4>4. (<<top>> \o rest)[1] = <<top>>[1]
                BY <2>4, <3>1
            <4>5. QED  BY <2>3, <2>4, <3>1, <4>2, <4>3, <4>4
        <3>3. ASSUME NEW j \in 2..Len(deck) PROVE r[j] = rest[j - 1]
            <4>1. j \in Len(<<top>>) + 1..Len(<<top>>) + Len(rest) /\ j - 1 \in 1..Len(rest)
                BY <1>1, <2>4, <3>1
            <4>2. QED  BY <2>3, <2>4, <3>1, <4>1
        <3>4. QED  BY <1>1, <3>2, <3>3
    <2> DEFINE of(j) == IF j = 1 THEN i ELSE IF j - 1 < i THEN j - 1 ELSE j
    <2>7. \A j \in 1..Len(r) :
              /\ of(j) \in 1..Len(deck) /\ (j = 1 <=> of(j) = i)
              /\ r[j] = IF j = 1 THEN top ELSE deck[of(j)]
        <3> SUFFICES ASSUME NEW j \in 1..Len(r)
                     PROVE  /\ of(j) \in 1..Len(deck) /\ (j = 1 <=> of(j) = i)
                            /\ r[j] = IF j = 1 THEN top ELSE deck[of(j)]
            OBVIOUS
        <3>1. CASE j = 1
            BY <2>6, <3>1
        <3>2. CASE j # 1
            <4>1. j \in 2..Len(deck) /\ j - 1 \in 1..Len(deck) - 1 /\ (j - 1) + 1 = j
                BY <1>1, <2>6, <3>2
            <4>2. r[j] = rest[j - 1]
                BY <2>6, <4>1
            <4>3. rest[j - 1] = IF j - 1 < i THEN deck[j - 1] ELSE deck[j]
                BY <2>4, <4>1
            <4>4. QED  BY <1>1, <3>2, <4>1, <4>2, <4>3
        <3>3. QED  BY <3>1, <3>2
    <2>8. \A j, k \in 1..Len(r) : of(j) = of(k) => j = k
        BY <1>1, <2>1, <2>6
    <2>9. \A j \in 1..Len(r) : r[j].ep = deck[of(j)].ep /\ r[j].seq = deck[of(j)].seq
        BY <2>1, <2>5, <2>7
    <2> HIDE DEF of
    <2>10. Apart(r)
        BY <1>1, <2>7, <2>8, <2>9 DEF Apart
    <2>11. \A j \in 1..Len(r) :
               /\ r[j].seq \in 1..last /\ r[j].day <= d
               /\ r[j].live => r[j].ep \in known \cup {event.ep}
        BY <1>2, <1>3, <2>5, <2>7
    <2>12. had /\ next = last
        BY <2>1
    <2>13. CardsFit(r, next, d, known \cup {event.ep})
        BY <1>1, <2>6, <2>10, <2>11, <2>12 DEF CardsFit
    <2>14. \A j \in 1..Len(r) : From(j)
        BY <1>1, <2>1, <2>5, <2>7, <2>9 DEF Apart
    <2>15. \A j \in 1..Len(r) : Kept(j)
        BY <2>7, <2>9
    <2> HIDE DEF had, next
    <2>16. QED  BY <2>13, <2>14, <2>15 DEF r, had, next, RecordsWell
<1>6. CASE same = {}
    <2> DEFINE top == Opened(event, d, last + 1)
               all == <<top>> \o deck
               n == Min({Len(all), MaxAlerts})
    <2>1. r = SubSeq(all, 1, n)
        BY <1>1, <1>6 DEF Recorded
    <2>2. /\ top \in Cards /\ top.ep = event.ep /\ top.grave = event.grave
          /\ top.seq = last + 1 /\ top.day = d
        BY <1>3, <1>4 DEF Opened, Cards
    <2> HIDE DEF top
    <2>3. /\ all \in Seq(Cards) /\ Len(all) = Len(deck) + 1 /\ all[1] = top
          /\ \A j \in 2..Len(deck) + 1 : all[j] = deck[j - 1]
        BY <1>1, <2>2
    <2> HIDE DEF all
    <2>4. n \in 1..Len(all) /\ n <= MaxAlerts
        <3>1. \E x \in {Len(all), MaxAlerts} : \A y \in {Len(all), MaxAlerts} : x <= y
            BY <1>1, <1>3, <2>3
        <3>2. n \in {Len(all), MaxAlerts} /\ n <= Len(all) /\ n <= MaxAlerts
            BY <3>1 DEF Min
        <3>3. QED  BY <1>1, <1>3, <2>3, <3>2
    <2> HIDE DEF n, r
    <2>5. /\ r \in Seq(Cards) /\ Len(r) = n /\ \A j \in 1..n : r[j] = all[j]
        BY <2>1, <2>3, <2>4
    <2>6. \A j \in 1..Len(r) :
              \/ j = 1 /\ r[j] = top
              \/ j # 1 /\ j - 1 \in 1..Len(deck) /\ r[j] = deck[j - 1]
        <3> SUFFICES ASSUME NEW j \in 1..Len(r), j # 1
                     PROVE  j - 1 \in 1..Len(deck) /\ r[j] = deck[j - 1]
            BY <2>3, <2>4, <2>5
        <3>1. j \in 2..Len(deck) + 1 /\ j - 1 \in 1..Len(deck)
            BY <1>1, <2>3, <2>4, <2>5
        <3>2. QED  BY <2>3, <2>4, <2>5, <3>1
    <2>7. \A j \in 1..Len(deck) : deck[j].ep # event.ep /\ deck[j].seq # last + 1
        BY <1>2, <1>6
    <2>8. Apart(r)
        <3> SUFFICES ASSUME NEW j \in 1..Len(r), NEW k \in 1..Len(r),
                            r[j].ep = r[k].ep \/ r[j].seq = r[k].seq
                     PROVE  j = k
            BY DEF Apart
        <3>1. CASE j = 1 \/ k = 1
            BY <2>2, <2>6, <2>7, <3>1
        <3>2. CASE j # 1 /\ k # 1
            <4>1. j - 1 = k - 1
                BY <1>1, <2>6, <3>2 DEF Apart
            <4>2. j \in Nat /\ k \in Nat
                BY <2>4, <2>5
            <4>3. QED  BY <4>1, <4>2
        <3>3. QED  BY <3>1, <3>2
    <2>9. \A j \in 1..Len(r) :
               /\ r[j].seq \in 1..last + 1 /\ r[j].day <= d
               /\ r[j].live => r[j].ep \in known \cup {event.ep}
        <3> SUFFICES ASSUME NEW j \in 1..Len(r)
                     PROVE  /\ r[j].seq \in 1..last + 1 /\ r[j].day <= d
                            /\ r[j].live => r[j].ep \in known \cup {event.ep}
            OBVIOUS
        <3>1. CASE r[j] = top
            BY <1>3, <2>2, <3>1
        <3>2. CASE \E i \in 1..Len(deck) : r[j] = deck[i]
            BY <1>2, <3>2
        <3>3. QED  BY <2>6, <3>1, <3>2
    <2>10. ~had /\ next = last + 1
        BY <2>7
    <2>11. CardsFit(r, next, d, known \cup {event.ep})
        BY <2>4, <2>5, <2>8, <2>9, <2>10 DEF CardsFit
    <2>12. \A j \in 1..Len(r) : From(j)
        BY <2>2, <2>6, <2>7
    <2>13. \A j \in 1..Len(r) : Kept(j)
        <3> SUFFICES ASSUME NEW j \in 1..Len(r), r[j].seq \in 1..last
                     PROVE  \E i \in 1..Len(deck) : r[j].seq = deck[i].seq /\ r[j].ep = deck[i].ep
            OBVIOUS
        <3>1. r[j] # top
            BY <2>2
        <3>2. QED  BY <2>6, <3>1
    <2> HIDE DEF had, next
    <2>14. QED  BY <2>11, <2>12, <2>13 DEF r, had, next, RecordsWell
<1>7. QED  BY <1>5, <1>6

----------------------------------------------------------------------------
(* The file.                                                                  *)

LEMMA AsRowsFacts ==
    ASSUME NEW deck \in Seq(Cards)
    PROVE  /\ AsRows(deck) \in Seq(Rows) /\ Len(AsRows(deck)) = Len(deck)
           /\ \A i \in 1..Len(deck) :
                 /\ AsRows(deck)[i].ep = deck[i].ep /\ AsRows(deck)[i].day = deck[i].day
                 /\ AsRows(deck)[i] \in Standing
<1>1. DOMAIN deck = 1..Len(deck) /\ Len(deck) \in Nat /\ \A i \in 1..Len(deck) : deck[i] \in Cards
    OBVIOUS
<1>2. AsRows(deck) = [i \in 1..Len(deck) |-> Row(deck[i], FALSE)]
    BY <1>1 DEF AsRows
<1>3. \A i \in 1..Len(deck) :
          /\ Row(deck[i], FALSE) \in Rows /\ ~Row(deck[i], FALSE).dismissed
          /\ Row(deck[i], FALSE).ep = deck[i].ep /\ Row(deck[i], FALSE).day = deck[i].day
    BY <1>1 DEF Row, Rows, Cards
<1> DEFINE row(i) == Row(deck[i], FALSE)
<1>4. AsRows(deck) \in Seq(Rows) /\ Len(AsRows(deck)) = Len(deck)
    <2>1. \A i \in 1..Len(deck) : row(i) \in Rows
        BY <1>3
    <2>2. AsRows(deck) = [i \in 1..Len(deck) |-> row(i)]
        BY <1>2
    <2> HIDE DEF row
    <2>3. AsRows(deck) \in [1..Len(deck) -> Rows]
        BY <2>1, <2>2
    <2>4. QED  BY <1>1, <2>3
<1>5. QED  BY <1>2, <1>3, <1>4 DEF Standing

\* What is written of a day is of that day, and what stands in it is the list's share.
LEMMA ShareFacts ==
    ASSUME NEW deck, NEW last \in Nat, NEW d \in Days, NEW known,
           CardsFit(deck, last, d, known),
           NEW gone \in Seq(Rows), AllGone(gone), NEW on \in Days
    PROVE  LET share == Only(AsRows(deck) \o gone, RowsOf(on))
           IN  /\ share \in Seq(Rows) /\ \A i \in 1..Len(share) : share[i].day = on
               /\ Only(share, Standing) = Only(AsRows(deck), RowsOf(on))
               /\ Len(Only(share, Standing)) <= MaxAlerts
               /\ RowsApart(Only(share, Standing))
<1> DEFINE rows == AsRows(deck)
           share == Only(rows \o gone, RowsOf(on))
           held == Only(rows, RowsOf(on))
<1>1. /\ deck \in Seq(Cards) /\ Len(deck) <= MaxAlerts /\ Len(deck) \in Nat
      /\ \A i, j \in 1..Len(deck) : deck[i].ep = deck[j].ep => i = j
    BY DEF CardsFit, Apart
<1>2. /\ rows \in Seq(Rows) /\ Len(rows) = Len(deck)
      /\ \A i \in 1..Len(rows) : rows[i].ep = deck[i].ep /\ rows[i] \in Standing
    BY <1>1, AsRowsFacts
<1> HIDE DEF rows
<1>3. rows \o gone \in Seq(Rows)
    BY <1>2
<1>4. share \in Seq(Rows) /\ \A i \in 1..Len(share) : share[i] \in RowsOf(on)
    BY <1>3, OnlyIsAPart
<1>5. \A i \in 1..Len(share) : share[i].day = on
    BY <1>4 DEF RowsOf
<1>6. Only(share, Standing) = Only(rows \o gone, RowsOf(on) \cap Standing)
    <2>1. \A s \in Seq(Rows) :
              Only(Only(s, RowsOf(on)), Standing) = Only(s, RowsOf(on) \cap Standing)
        BY OnlyOfOnly
    <2>2. QED  BY <1>3, <2>1
<1>7. Only(rows \o gone, RowsOf(on) \cap Standing)
          = Only(rows, RowsOf(on) \cap Standing) \o Only(gone, RowsOf(on) \cap Standing)
    BY <1>2, OnlyOfBoth
<1>8. Only(gone, RowsOf(on) \cap Standing) = <<>>
    <2>1. \A i \in 1..Len(gone) : gone[i] \notin RowsOf(on) \cap Standing
        BY DEF AllGone, Standing
    <2>2. QED  BY <2>1, OnlyOfNone
<1>9. Only(rows, RowsOf(on) \cap Standing) = held
    <2>1. \A i \in 1..Len(rows) : rows[i] \in RowsOf(on) \cap Standing <=> rows[i] \in RowsOf(on)
        BY <1>2
    <2>2. QED  BY <1>2, <2>1, OnlyAgrees
<1>10. held \in Seq(Rows) /\ Len(held) <= Len(rows) /\ \E at : Within(held, rows, at)
    BY <1>2, OnlyIsAPart
<1>11. Only(share, Standing) = held
    <2>1. held \o <<>> = held
        BY <1>10
    <2> HIDE DEF share, held
    <2>2. QED  BY <1>6, <1>7, <1>8, <1>9, <2>1
<1>12. RowsApart(held)
    <2>1. PICK at : Within(held, rows, at)
        BY <1>10
    <2> SUFFICES ASSUME NEW i \in 1..Len(held), NEW j \in 1..Len(held), i # j,
                        held[i].ep = held[j].ep
                 PROVE  FALSE
        BY DEF RowsApart
    <2> HIDE DEF held
    <2>2. at[i] = at[j]
        BY <1>1, <1>2, <2>1 DEF Within
    <2>3. Len(held) \in Nat /\ Len(rows) \in Nat
        BY <1>2, <1>10
    <2>4. at[i] \in 1..Len(rows) /\ at[j] \in 1..Len(rows)
        BY <2>1 DEF Within
    <2>5. at[i] \in Nat /\ at[j] \in Nat /\ (i < j \/ j < i)
        BY <2>3, <2>4
    <2>6. at[i] < at[j] \/ at[j] < at[i]
        BY <2>1, <2>5 DEF Within
    <2>7. QED  BY <2>2, <2>5, <2>6
<1>13. Len(held) <= MaxAlerts
    BY <1>1, <1>2, <1>10, AlertAssumption
<1> HIDE DEF share, held
<1>14. QED  BY <1>4, <1>5, <1>11, <1>12, <1>13 DEF rows, share, held

\* A save keeps the files what they are, and mirrors the list, unless it fails.
LEMMA SaveFits ==
    ASSUME NEW deck, NEW last \in Nat, NEW d \in Days, NEW known,
           CardsFit(deck, last, d, known),
           NEW gone \in Seq(Rows), AllGone(gone), NEW on \in Days,
           TypeOK, day <= on, FilesFit(files, day), Save(deck, gone, on)
    PROVE  /\ FilesFit(files', on) /\ failed' \in BOOLEAN /\ errors' \in Nat
           /\ ~failed' => Only(files'[on], Standing) = Only(AsRows(deck), RowsOf(on))
<1> DEFINE share == Only(AsRows(deck) \o gone, RowsOf(on))
<1>1. /\ share \in Seq(Rows) /\ \A i \in 1..Len(share) : share[i].day = on
      /\ Only(share, Standing) = Only(AsRows(deck), RowsOf(on))
      /\ Len(Only(share, Standing)) <= MaxAlerts /\ RowsApart(Only(share, Standing))
    BY ShareFacts
<1>2. \/ files' = [files EXCEPT ![on] = share] /\ failed' = FALSE /\ errors' = errors
      \/ errors' = errors + 1 /\ failed' = TRUE /\ files' = files
    BY DEF Save
<1> HIDE DEF share
<1>3. day \in Nat /\ on \in Nat /\ errors \in Nat /\ files \in [Days -> Seq(Rows)] /\ Days \subseteq Nat
    BY AlertAssumption DEF TypeOK, Days
<1>4. files' \in [Days -> Seq(Rows)] /\ \A q \in Days : q # on => files'[q] = files[q]
    BY <1>1, <1>2, <1>3
<1>5. failed' \in BOOLEAN /\ errors' \in Nat
    <2>1. failed' \in BOOLEAN
        BY <1>2, Zenon
    <2>2. errors' \in Nat
        BY <1>2, <1>3
    <2>3. QED  BY <2>1, <2>2
<1>6. ASSUME NEW q \in Days
      PROVE  /\ q > on => files'[q] = <<>>
             /\ \A i \in 1..Len(files'[q]) : files'[q][i].day = q
             /\ Len(Only(files'[q], Standing)) <= MaxAlerts
             /\ RowsApart(Only(files'[q], Standing))
    <2>1. CASE files'[q] = files[q]
        <3>1. q > on => q > day
            BY <1>3
        <3>2. QED  BY <2>1, <3>1 DEF FilesFit
    <2>2. CASE q = on /\ files'[q] = share
        BY <1>1, <1>3, <2>2
    <2>3. QED  BY <1>2, <1>3, <1>4, <2>1, <2>2
<1>7. FilesFit(files', on)
    BY <1>4, <1>6 DEF FilesFit
<1>8. ~failed' => files'[on] = share
    BY <1>2, <1>3
<1>9. QED  BY <1>1, <1>5, <1>7, <1>8

----------------------------------------------------------------------------
(* The steps of the book.                                                     *)

LEMMA InitInv == Init => IndInv
<1> SUFFICES ASSUME Init PROVE IndInv
    OBVIOUS
<1>1. /\ alerts = <<>> /\ dismissed = <<>> /\ nextSeq = 0 /\ showing = FALSE /\ unseen = FALSE
      /\ pressed = NoPress /\ day = 0 /\ files = [d \in Days |-> <<>>] /\ failed = FALSE
      /\ heard = {} /\ acked = [d \in Days |-> {}] /\ reports = 0 /\ restarts = 0 /\ errors = 0
    BY DEF Init
<1>2. 0 \in Days /\ MaxAlerts \in Nat
    BY AlertAssumption DEF Days
<1>3. TypeOK
    <2>1. acked \in [Days -> SUBSET Episodes] /\ files \in [Days -> Seq(Rows)]
        BY <1>1
    <2>2. alerts \in Seq(Cards) /\ dismissed \in Seq(Rows) /\ Len(alerts) = 0 /\ Len(dismissed) = 0
        BY <1>1
    <2>3. unseen \in BOOLEAN /\ showing \in BOOLEAN /\ failed \in BOOLEAN
        BY <1>1
    <2>4. QED  BY <1>1, <1>2, <2>1, <2>2, <2>3 DEF TypeOK
<1>4. CardsFit(alerts, nextSeq, day, heard)
    BY <1>1, <1>2, <1>3 DEF CardsFit, Apart, TypeOK
<1>5. AllGone(dismissed) /\ PressFits /\ ShownIsSeen
    BY <1>1 DEF AllGone, PressFits, ShownIsSeen
<1>6. \A d \in Days : files[d] = <<>>
    BY <1>1
<1>7. Only(<<>>, Standing) = <<>>
    BY OnlyOfNothing
<1>8. FilesFit(files, day)
    BY <1>2, <1>3, <1>6, <1>7 DEF FilesFit, TypeOK, RowsApart
<1>9. TodayIsMirrored
    <2>1. AsRows(alerts) = <<>>
        <3>1. AsRows(alerts) \in Seq(Rows) /\ Len(AsRows(alerts)) = 0
            BY <1>1, <1>3, AsRowsFacts DEF TypeOK
        <3>2. QED  BY <3>1
    <2>2. Only(<<>>, RowsOf(day)) = <<>>
        BY OnlyOfNothing
    <2>3. QED  BY <1>1, <1>2, <1>6, <1>7, <2>1, <2>2 DEF TodayIsMirrored
<1>10. QED  BY <1>3, <1>4, <1>5, <1>8, <1>9 DEF IndInv

\* What an invariant state says of its types, where a step needs no more.
LEMMA Typed ==
    ASSUME IndInv
    PROVE  /\ day \in Days /\ day \in Nat /\ nextSeq \in Nat /\ Len(alerts) \in Nat
           /\ alerts \in Seq(Cards) /\ DOMAIN alerts = 1..Len(alerts)
           /\ dismissed \in Seq(Rows) /\ Len(dismissed) <= MaxAlerts /\ Len(dismissed) \in Nat
           /\ MaxAlerts \in Nat /\ MaxAlerts >= 1
<1>1. /\ day \in Days /\ nextSeq \in Nat /\ alerts \in Seq(Cards)
      /\ dismissed \in Seq(Rows) /\ Len(dismissed) <= MaxAlerts
    BY DEF IndInv, TypeOK
<1>2. MaxAlerts \in Nat /\ MaxAlerts >= 1 /\ day \in Nat
    BY <1>1, AlertAssumption DEF Days
<1>3. DOMAIN alerts = 1..Len(alerts) /\ Len(alerts) \in Nat /\ Len(dismissed) \in Nat
    BY <1>1
<1>4. QED  BY <1>1, <1>2, <1>3

\* Holding the list to a day keeps a part of it.
LEMMA RetainFits ==
    ASSUME NEW deck, NEW last \in Nat, NEW d \in Days, NEW known,
           CardsFit(deck, last, d, known), IndInv,
           NEW pruning \in BOOLEAN, NEW on \in Days, Retain(deck, pruning, on)
    PROVE  /\ CardsFit(alerts', last, d, known)
           /\ dismissed' \in Seq(Rows) /\ Len(dismissed') <= MaxAlerts /\ AllGone(dismissed')
           /\ \A j \in 1..Len(alerts') : \E i \in 1..Len(deck) : alerts'[j] = deck[i]
<1>1. deck \in Seq(Cards) /\ Len(deck) \in Nat
    BY DEF CardsFit
<1>2. /\ dismissed \in Seq(Rows) /\ Len(dismissed) <= MaxAlerts /\ Len(dismissed) \in Nat
      /\ MaxAlerts \in Nat
    BY Typed
<1>3. AllGone(dismissed)
    BY DEF IndInv
<1> DEFINE some == Only(deck, CardsOf(on))
           gone == Only(dismissed, RowsOf(on))
<1>4. /\ CardsFit(some, last, d, known)
      /\ \A j \in 1..Len(some) : \E i \in 1..Len(deck) : some[j] = deck[i]
    <2>1. CardsFit(some, last, d, known)
        BY OnlyFits
    <2>2. PICK at : Within(some, deck, at)
        BY <1>1, OnlyIsAPart
    <2> HIDE DEF some
    <2>3. QED  BY <2>1, <2>2 DEF Within
<1>5. gone \in Seq(Rows) /\ Len(gone) <= MaxAlerts /\ AllGone(gone)
    <2>1. gone \in Seq(Rows) /\ Len(gone) <= Len(dismissed)
        BY <1>2, OnlyIsAPart
    <2>2. PICK at : Within(gone, dismissed, at)
        BY <1>2, OnlyIsAPart
    <2> HIDE DEF gone
    <2>3. AllGone(gone)
        BY <1>3, <2>2 DEF AllGone, Within
    <2>4. Len(gone) \in Nat
        BY <2>1
    <2>5. QED  BY <1>2, <2>1, <2>3, <2>4
<1>6. alerts' = (IF pruning THEN some ELSE deck) /\ dismissed' = IF pruning THEN gone ELSE dismissed
    BY DEF Retain
<1> HIDE DEF some, gone
<1>7. CASE pruning
    BY <1>4, <1>5, <1>6, <1>7
<1>8. CASE ~pruning
    BY <1>2, <1>3, <1>6, <1>8
<1>9. QED  BY <1>7, <1>8

\* A card of the list a tick leaves: who it is, and why it would be news.
LEMMA ReportFacts ==
    ASSUME IndInv, NEW event \in Events, NEW pruning \in BOOLEAN, NEW on \in Days, day <= on,
           Retain(Ingest(event), pruning, on),
           nextSeq' = (IF \E i \in DOMAIN alerts : alerts[i].ep = event.ep
                       THEN nextSeq ELSE nextSeq + 1),
           heard' = heard \cup {event.ep}
    PROVE  /\ CardsFit(alerts', nextSeq', on, heard')
           /\ nextSeq' \in Nat /\ nextSeq <= nextSeq'
           /\ dismissed' \in Seq(Rows) /\ Len(dismissed') <= MaxAlerts /\ AllGone(dismissed')
           /\ \A j \in 1..Len(alerts') :
                 /\ showing => alerts'[j].noticed
                 /\ alerts'[j].seq \in 1..nextSeq =>
                       \E i \in 1..Len(alerts) :
                           alerts'[j].seq = alerts[i].seq /\ alerts'[j].ep = alerts[i].ep
                 /\ ~alerts'[j].noticed =>
                       \A i \in 1..Len(alerts) :
                           alerts[i].ep = alerts'[j].ep /\ alerts[i].live /\ alerts[i].noticed =>
                               alerts'[j].grave /\ ~alerts[i].grave
<1> DEFINE r == Recorded(alerts, event, day, nextSeq + 1)
           deck == Ingest(event)
           had == \E i \in 1..Len(alerts) : alerts[i].ep = event.ep
<1>1. /\ day \in Days /\ day \in Nat /\ on \in Nat /\ nextSeq \in Nat /\ alerts \in Seq(Cards)
      /\ DOMAIN alerts = 1..Len(alerts)
    BY Typed, AlertAssumption DEF Days
<1>2. CardsFit(alerts, nextSeq, day, heard)
    BY DEF IndInv
<1>3. nextSeq' = (IF had THEN nextSeq ELSE nextSeq + 1) /\ nextSeq' \in Nat /\ nextSeq <= nextSeq'
    BY <1>1
<1>4. /\ CardsFit(r, IF had THEN nextSeq ELSE nextSeq + 1, day, heard \cup {event.ep})
      /\ \A j \in 1..Len(r) :
            \/ /\ r[j].ep # event.ep
               /\ \E i \in 1..Len(alerts) : r[j] = alerts[i]
            \/ /\ r[j].ep = event.ep /\ r[j].grave = event.grave
               /\ \A i \in 1..Len(alerts) :
                     alerts[i].ep = event.ep =>
                         r[j].noticed = (alerts[i].noticed /\ alerts[i].live
                                         /\ ~Graver(event, alerts[i]))
      /\ \A j \in 1..Len(r) : r[j].seq \in 1..nextSeq =>
            \E i \in 1..Len(alerts) : r[j].seq = alerts[i].seq /\ r[j].ep = alerts[i].ep
    <2>1. RecordsWell(alerts, nextSeq, day, heard, event, r)
        BY <1>1, <1>2, RecordedFits
    <2>2. QED  BY <2>1 DEF RecordsWell
<1> HIDE DEF r, had
<1>5. CardsFit(r, nextSeq', day, heard') /\ \A j \in 1..Len(r) : r[j] \in Cards
    <2>1. CardsFit(r, nextSeq', day, heard')
        BY <1>3, <1>4
    <2>2. QED  BY <2>1 DEF CardsFit
<1>6. deck = IF showing THEN Seen(r) ELSE r
    BY DEF Ingest, r
<1> HIDE DEF deck
<1>7. /\ CardsFit(deck, nextSeq', day, heard') /\ Len(deck) = Len(r)
      /\ \A j \in 1..Len(r) :
            /\ deck[j].ep = r[j].ep /\ deck[j].seq = r[j].seq /\ deck[j].grave = r[j].grave
            /\ ~deck[j].noticed => ~r[j].noticed
            /\ showing => deck[j].noticed
    <2>1. CASE ~showing
        BY <1>5, <1>6, <2>1
    <2>2. CASE showing
        <3>1. deck = Seen(r)
            BY <1>6, <2>2
        <3>2. /\ CardsFit(deck, nextSeq', day, heard') /\ Len(deck) = Len(r)
              /\ \A j \in 1..Len(r) : deck[j] = [r[j] EXCEPT !.noticed = TRUE]
            BY <1>1, <1>3, <1>5, <3>1, SeenFits
        <3>3. \A j \in 1..Len(r) :
                  /\ deck[j].ep = r[j].ep /\ deck[j].seq = r[j].seq /\ deck[j].grave = r[j].grave
                  /\ deck[j].noticed
            BY <1>5, <3>2 DEF Cards
        <3>4. QED  BY <3>2, <3>3
    <2>3. QED  BY <2>1, <2>2
<1>8. CardsFit(deck, nextSeq', on, heard')
    BY <1>1, <1>3, <1>7, FitsLater
<1>9. Retain(deck, pruning, on)
    BY DEF deck
<1>10. /\ CardsFit(alerts', nextSeq', on, heard')
       /\ dismissed' \in Seq(Rows) /\ Len(dismissed') <= MaxAlerts /\ AllGone(dismissed')
       /\ \A j \in 1..Len(alerts') : \E k \in 1..Len(deck) : alerts'[j] = deck[k]
    BY <1>3, <1>8, <1>9, RetainFits
<1>11. ASSUME NEW k \in 1..Len(r), ~r[k].noticed,
              NEW i \in 1..Len(alerts), alerts[i].ep = r[k].ep, alerts[i].live, alerts[i].noticed
       PROVE  r[k].grave /\ ~alerts[i].grave
    <2>1. CASE r[k].ep # event.ep
        <3>1. PICK m \in 1..Len(alerts) : r[k] = alerts[m]
            BY <1>4, <2>1
        <3>2. m = i
            BY <1>2, <1>11, <3>1 DEF CardsFit, Apart
        <3>3. QED  BY <1>11, <3>1, <3>2
    <2>2. CASE r[k].ep = event.ep
        BY <1>4, <1>11, <2>2 DEF Graver
    <2>3. QED  BY <2>1, <2>2
<1>12. ASSUME NEW j \in 1..Len(alerts')
       PROVE  /\ showing => alerts'[j].noticed
              /\ alerts'[j].seq \in 1..nextSeq =>
                    \E i \in 1..Len(alerts) :
                        alerts'[j].seq = alerts[i].seq /\ alerts'[j].ep = alerts[i].ep
              /\ ~alerts'[j].noticed =>
                    \A i \in 1..Len(alerts) :
                        alerts[i].ep = alerts'[j].ep /\ alerts[i].live /\ alerts[i].noticed =>
                            alerts'[j].grave /\ ~alerts[i].grave
    <2>1. PICK k \in 1..Len(r) : alerts'[j] = deck[k]
        BY <1>7, <1>10
    <2>2. showing => alerts'[j].noticed
        BY <1>7, <2>1
    <2>3. alerts'[j].seq \in 1..nextSeq =>
              \E i \in 1..Len(alerts) :
                  alerts'[j].seq = alerts[i].seq /\ alerts'[j].ep = alerts[i].ep
        BY <1>4, <1>7, <2>1
    <2>4. ~alerts'[j].noticed =>
              \A i \in 1..Len(alerts) :
                  alerts[i].ep = alerts'[j].ep /\ alerts[i].live /\ alerts[i].noticed =>
                      alerts'[j].grave /\ ~alerts[i].grave
        BY <1>7, <1>11, <2>1
    <2>5. QED  BY <2>2, <2>3, <2>4
<1>13. QED  BY <1>3, <1>10, <1>12

LEMMA ReportInv == ASSUME IndInv, Report PROVE IndInv'
<1>1. PICK event \in Events, pruning \in BOOLEAN, on \in {day, day + 1} \cap Days :
          /\ Retain(Ingest(event), pruning, on)
          /\ Save(alerts', dismissed', on)
          /\ nextSeq' = IF \E i \in DOMAIN alerts : alerts[i].ep = event.ep
                        THEN nextSeq ELSE nextSeq + 1
          /\ heard' = heard \cup {event.ep}
          /\ day' = on
    BY DEF Report
<1>2. /\ unseen' = ~showing /\ showing' = showing /\ pressed' = pressed
      /\ acked' = acked /\ restarts' = restarts /\ reports' = reports + 1
    BY DEF Report
<1>3. day <= on /\ on \in Days /\ on \in Nat
    BY Typed, AlertAssumption DEF Days
<1>4. /\ CardsFit(alerts', nextSeq', on, heard')
      /\ nextSeq' \in Nat /\ nextSeq <= nextSeq'
      /\ dismissed' \in Seq(Rows) /\ Len(dismissed') <= MaxAlerts /\ AllGone(dismissed')
      /\ \A j \in 1..Len(alerts') :
            /\ showing => alerts'[j].noticed
            /\ alerts'[j].seq \in 1..nextSeq =>
                  \E i \in 1..Len(alerts) :
                      alerts'[j].seq = alerts[i].seq /\ alerts'[j].ep = alerts[i].ep
    BY <1>1, <1>3, ReportFacts
<1>5. /\ FilesFit(files', on) /\ failed' \in BOOLEAN /\ errors' \in Nat
      /\ ~failed' => Only(files'[on], Standing) = Only(AsRows(alerts'), RowsOf(on))
    <2>1. TypeOK /\ FilesFit(files, day)
        BY DEF IndInv
    <2>2. QED  BY <1>1, <1>3, <1>4, <2>1, SaveFits
<1>6. TypeOK'
    <2>1. alerts' \in Seq(Cards) /\ Len(alerts') <= MaxAlerts
        BY <1>4 DEF CardsFit
    <2>2. heard' \subseteq Episodes /\ reports' \in Nat
        BY <1>1, <1>2 DEF IndInv, TypeOK, Events
    <2>3. unseen' \in BOOLEAN /\ showing' \in BOOLEAN
        BY <1>2 DEF IndInv, TypeOK
    <2>4. pressed' \in [seq : Nat, ep : Episodes] \cup {NoPress} /\ acked' \in [Days -> SUBSET Episodes]
          /\ restarts' \in Nat
        BY <1>2 DEF IndInv, TypeOK
    <2>5. files' \in [Days -> Seq(Rows)]
        BY <1>5 DEF FilesFit
    <2>6. QED  BY <1>1, <1>3, <1>4, <1>5, <2>1, <2>2, <2>3, <2>4, <2>5 DEF TypeOK
<1>7. PressFits'
    <2> SUFFICES ASSUME pressed # NoPress
                 PROVE  /\ pressed.seq \in 1..nextSeq'
                        /\ \A j \in 1..Len(alerts') :
                              alerts'[j].seq = pressed.seq => alerts'[j].ep = pressed.ep
        BY <1>2 DEF PressFits
    <2>1. /\ pressed.seq \in 1..nextSeq
          /\ \A i \in 1..Len(alerts) : alerts[i].seq = pressed.seq => alerts[i].ep = pressed.ep
        BY DEF IndInv, PressFits
    <2>2. pressed.seq \in 1..nextSeq'
        BY <1>4, <2>1, Typed
    <2>3. QED  BY <1>4, <2>1, <2>2
<1>8. ShownIsSeen'
    <2>1. showing' => ~unseen'
        BY <1>2
    <2>2. showing' => \A e \in Episodes : ~News(e)'
        BY <1>2, <1>4 DEF News, Indices, CardsFit
    <2>3. QED  BY <2>1, <2>2 DEF ShownIsSeen
<1>9. TodayIsMirrored'
    BY <1>1, <1>5 DEF TodayIsMirrored
<1>10. QED  BY <1>1, <1>4, <1>5, <1>6, <1>7, <1>8, <1>9 DEF IndInv

\* Where the list that is left has only cards that were, a press stays of its card,
\* and nothing becomes news.
LEMMA PartPress ==
    ASSUME IndInv,
           pressed' = pressed \/ pressed' = NoPress, nextSeq' = nextSeq,
           showing' = showing, unseen' = unseen,
           DOMAIN alerts' = 1..Len(alerts'),
           \A j \in 1..Len(alerts') : \E i \in 1..Len(alerts) : alerts'[j] = alerts[i]
    PROVE  PressFits' /\ ShownIsSeen'
<1>1. PressFits'
    BY DEF IndInv, PressFits
<1>2. showing => ~unseen /\ \A e \in Episodes : ~News(e)
    BY DEF IndInv, ShownIsSeen
<1>3. \A e \in Episodes : ~News(e) => ~News(e)'
    BY Typed DEF News, Indices
<1>4. QED  BY <1>1, <1>2, <1>3 DEF ShownIsSeen

LEMMA PruneInv == ASSUME IndInv, Prune PROVE IndInv'
<1>1. Retain(alerts, TRUE, day) /\ Save(alerts', dismissed', day)
    BY DEF Prune
<1>2. /\ unseen' = unseen /\ nextSeq' = nextSeq /\ showing' = showing /\ pressed' = pressed
      /\ day' = day /\ heard' = heard /\ acked' = acked /\ reports' = reports
      /\ restarts' = restarts
    BY DEF Prune
<1>3. day \in Days /\ nextSeq \in Nat /\ day \in Nat
    BY Typed
<1>4. /\ CardsFit(alerts', nextSeq, day, heard)
      /\ dismissed' \in Seq(Rows) /\ Len(dismissed') <= MaxAlerts /\ AllGone(dismissed')
      /\ \A j \in 1..Len(alerts') : \E i \in 1..Len(alerts) : alerts'[j] = alerts[i]
    <2>1. CardsFit(alerts, nextSeq, day, heard)
        BY DEF IndInv
    <2>2. QED  BY <1>1, <1>3, <2>1, RetainFits
<1>5. /\ FilesFit(files', day) /\ failed' \in BOOLEAN /\ errors' \in Nat
      /\ ~failed' => Only(files'[day], Standing) = Only(AsRows(alerts'), RowsOf(day))
    <2>1. TypeOK /\ FilesFit(files, day) /\ day <= day
        BY <1>3 DEF IndInv
    <2>2. QED  BY <1>1, <1>3, <1>4, <2>1, SaveFits
<1>6. TypeOK'
    <2>1. alerts' \in Seq(Cards) /\ Len(alerts') <= MaxAlerts
        BY <1>4 DEF CardsFit
    <2>2. files' \in [Days -> Seq(Rows)]
        BY <1>5 DEF FilesFit
    <2>3. QED  BY <1>2, <1>4, <1>5, <2>1, <2>2 DEF IndInv, TypeOK
<1>7. DOMAIN alerts' = 1..Len(alerts')
    BY <1>4 DEF CardsFit
<1>8. PressFits' /\ ShownIsSeen'
    BY <1>2, <1>4, <1>7, PartPress
<1>9. TodayIsMirrored'
    BY <1>2, <1>5 DEF TodayIsMirrored
<1>10. QED  BY <1>2, <1>4, <1>5, <1>6, <1>8, <1>9 DEF IndInv

LEMMA NextDayInv == ASSUME IndInv, NextDay PROVE IndInv'
<1>1. /\ day < LastDay /\ day' = day + 1
      /\ alerts' = alerts /\ dismissed' = dismissed /\ unseen' = unseen /\ nextSeq' = nextSeq
      /\ showing' = showing /\ pressed' = pressed /\ files' = files /\ failed' = failed
      /\ heard' = heard /\ acked' = acked /\ reports' = reports /\ restarts' = restarts
      /\ errors' = errors
    BY DEF NextDay, book, record
<1>2. day + 1 \in Days /\ day \in Days /\ day \in Nat /\ nextSeq \in Nat /\ Days \subseteq Nat
    BY <1>1, Typed, AlertAssumption DEF Days
<1>3. CardsFit(alerts, nextSeq, day, heard) /\ FilesFit(files, day)
    BY DEF IndInv
<1>4. CardsFit(alerts, nextSeq, day + 1, heard)
    BY <1>2, <1>3, FitsLater
<1>5. FilesFit(files, day + 1) /\ files[day + 1] = <<>>
    <2>1. \A on \in Days : on > day + 1 => on > day
        BY <1>2
    <2>2. day + 1 > day
        BY <1>2
    <2>3. QED  BY <1>2, <1>3, <2>1, <2>2 DEF FilesFit
<1>6. TodayIsMirrored'
    <2>1. Only(files[day + 1], Standing) = <<>>
        BY <1>5, OnlyOfNothing
    <2>2. /\ AsRows(alerts) \in Seq(Rows) /\ Len(AsRows(alerts)) = Len(alerts)
          /\ \A i \in 1..Len(alerts) : AsRows(alerts)[i].day = alerts[i].day
        BY Typed, AsRowsFacts
    <2>3. \A i \in 1..Len(AsRows(alerts)) : AsRows(alerts)[i] \notin RowsOf(day + 1)
        <3>1. \A i \in 1..Len(alerts) : alerts[i].day <= day /\ alerts[i].day \in Nat
            <4>1. \A i \in 1..Len(alerts) : alerts[i] \in Cards
                BY Typed
            <4>2. QED  BY <1>2, <1>3, <4>1 DEF CardsFit, Cards
        <3>2. \A i \in 1..Len(alerts) : alerts[i].day # day + 1
            BY <1>2, <3>1
        <3>3. QED  BY <2>2, <3>2 DEF RowsOf
    <2>4. Only(AsRows(alerts), RowsOf(day + 1)) = <<>>
        BY <2>2, <2>3, OnlyOfNone
    <2>5. QED  BY <1>1, <2>1, <2>4 DEF TodayIsMirrored
<1>7. TypeOK'
    BY <1>1, <1>2 DEF IndInv, TypeOK
<1>8. PressFits' /\ ShownIsSeen' /\ AllGone(dismissed')
    BY <1>1 DEF IndInv, PressFits, ShownIsSeen, News, Indices
<1>9. QED  BY <1>1, <1>4, <1>5, <1>6, <1>7, <1>8 DEF IndInv

LEMMA LookInv == ASSUME IndInv, Look PROVE IndInv'
<1>1. /\ showing' = TRUE /\ alerts' = Seen(alerts) /\ unseen' = FALSE
      /\ dismissed' = dismissed /\ nextSeq' = nextSeq /\ pressed' = pressed /\ day' = day
      /\ files' = files /\ failed' = failed /\ heard' = heard /\ acked' = acked
      /\ reports' = reports /\ restarts' = restarts /\ errors' = errors
    BY DEF Look, record
<1>2. day \in Days /\ nextSeq \in Nat /\ alerts \in Seq(Cards)
    BY Typed
<1>3. CardsFit(alerts, nextSeq, day, heard)
    BY DEF IndInv
<1>4. /\ CardsFit(alerts', nextSeq, day, heard) /\ Len(alerts') = Len(alerts)
      /\ \A i \in 1..Len(alerts) : alerts'[i] = [alerts[i] EXCEPT !.noticed = TRUE]
      /\ AsRows(alerts') = AsRows(alerts)
    BY <1>1, <1>2, <1>3, SeenFits
<1>5. \A i \in 1..Len(alerts) :
          alerts'[i].ep = alerts[i].ep /\ alerts'[i].seq = alerts[i].seq /\ alerts'[i].noticed
    <2>1. \A i \in 1..Len(alerts) : alerts[i] \in Cards
        BY <1>2
    <2>2. QED  BY <1>4, <2>1 DEF Cards
<1>6. alerts' \in Seq(Cards) /\ Len(alerts') <= MaxAlerts /\ DOMAIN alerts' = 1..Len(alerts')
    BY <1>4 DEF CardsFit
<1>7. TypeOK'
    BY <1>1, <1>6 DEF IndInv, TypeOK
<1>8. PressFits'
    BY <1>1, <1>4, <1>5 DEF IndInv, PressFits
<1>9. ShownIsSeen'
    BY <1>1, <1>4, <1>5, <1>6 DEF ShownIsSeen, News, Indices
<1>10. TodayIsMirrored'
    BY <1>1, <1>4 DEF IndInv, TodayIsMirrored
<1>11. QED  BY <1>1, <1>4, <1>7, <1>8, <1>9, <1>10 DEF IndInv

LEMMA LookAwayInv == ASSUME IndInv, LookAway PROVE IndInv'
<1>1. /\ showing' = FALSE /\ alerts' = alerts /\ unseen' = unseen
      /\ dismissed' = dismissed /\ nextSeq' = nextSeq /\ pressed' = pressed /\ day' = day
      /\ files' = files /\ failed' = failed /\ heard' = heard /\ acked' = acked
      /\ reports' = reports /\ restarts' = restarts /\ errors' = errors
    BY DEF LookAway, book, record
<1>2. ShownIsSeen'
    BY <1>1 DEF ShownIsSeen
<1>3. TypeOK'
    BY <1>1 DEF IndInv, TypeOK
<1>4. PressFits' /\ TodayIsMirrored'
    BY <1>1 DEF IndInv, PressFits, TodayIsMirrored
<1>5. QED  BY <1>1, <1>2, <1>3, <1>4 DEF IndInv

LEMMA PressInv == ASSUME IndInv, PressDismiss PROVE IndInv'
<1>1. PICK i \in DOMAIN alerts : pressed' = [seq |-> alerts[i].seq, ep |-> alerts[i].ep]
    BY DEF PressDismiss
<1>2. /\ showing' = showing /\ alerts' = alerts /\ unseen' = unseen
      /\ dismissed' = dismissed /\ nextSeq' = nextSeq /\ day' = day
      /\ files' = files /\ failed' = failed /\ heard' = heard /\ acked' = acked
      /\ reports' = reports /\ restarts' = restarts /\ errors' = errors
    BY DEF PressDismiss, book, record
<1>3. i \in 1..Len(alerts) /\ alerts[i] \in Cards
    BY Typed
<1>4. alerts[i].seq \in 1..nextSeq /\ \A j \in 1..Len(alerts) : alerts[j].seq = alerts[i].seq => j = i
    BY <1>3 DEF IndInv, CardsFit, Apart
<1>5. pressed' \in [seq : Nat, ep : Episodes]
    BY <1>1, <1>3 DEF Cards
<1>6. TypeOK'
    BY <1>2, <1>5 DEF IndInv, TypeOK
<1>7. PressFits'
    BY <1>1, <1>2, <1>4 DEF PressFits
<1>8. ShownIsSeen' /\ TodayIsMirrored'
    BY <1>2 DEF IndInv, ShownIsSeen, TodayIsMirrored, News, Indices
<1>9. QED  BY <1>2, <1>6, <1>7, <1>8 DEF IndInv

\* Dropping a card leaves a part of the list, and its row in what was dismissed.
LEMMA DropFits ==
    ASSUME IndInv, NEW i \in 1..Len(alerts), Drop(i)
    PROVE  /\ CardsFit(alerts', nextSeq, day, heard)
           /\ dismissed' \in Seq(Rows) /\ Len(dismissed') <= MaxAlerts /\ AllGone(dismissed')
           /\ \A j \in 1..Len(alerts') : \E k \in 1..Len(alerts) : alerts'[j] = alerts[k]
           /\ \A k \in 1..Len(alerts) : k # i => \E j \in 1..Len(alerts') : alerts'[j] = alerts[k]
           /\ acked' \in [Days -> SUBSET Episodes]
<1>1. /\ day \in Days /\ nextSeq \in Nat /\ alerts \in Seq(Cards) /\ Len(alerts) \in Nat
      /\ dismissed \in Seq(Rows) /\ Len(dismissed) <= MaxAlerts /\ Len(dismissed) \in Nat
      /\ MaxAlerts \in Nat /\ MaxAlerts >= 1
    BY Typed
<1>2. CardsFit(alerts, nextSeq, day, heard) /\ AllGone(dismissed)
    BY DEF IndInv
<1> DEFINE left == RemoveAt(alerts, i)
           gone == Append(dismissed, Row(alerts[i], TRUE))
           at == [j \in 1..Len(alerts) - 1 |-> IF j < i THEN j ELSE j + 1]
<1>3. /\ alerts' = left
      /\ dismissed' = (IF Len(gone) > MaxAlerts THEN Tail(gone) ELSE gone)
      /\ acked' = [acked EXCEPT ![alerts[i].day] = @ \cup {alerts[i].ep}]
    BY DEF Drop
<1>4. /\ left \in Seq(Cards) /\ Len(left) = Len(alerts) - 1
      /\ \A j \in 1..Len(alerts) - 1 : left[j] = IF j < i THEN alerts[j] ELSE alerts[j + 1]
    BY <1>1, RemoveAtFacts
<1> HIDE DEF left
<1>5. Within(left, alerts, at)
    <2>1. \A j \in 1..Len(alerts) - 1 : at[j] \in 1..Len(alerts) /\ left[j] = alerts[at[j]]
        BY <1>1, <1>4
    <2>2. \A j, k \in 1..Len(alerts) - 1 : j < k => at[j] < at[k]
        BY <1>1
    <2>3. at \in [1..Len(alerts) - 1 -> 1..Len(alerts)]
        BY <2>1
    <2> HIDE DEF at
    <2>4. QED  BY <1>4, <2>1, <2>2, <2>3 DEF Within
<1>6. CardsFit(left, nextSeq, day, heard)
    <2>1. Len(left) <= Len(alerts)
        BY <1>1, <1>4
    <2>2. \E f : Within(left, alerts, f)
        BY <1>5
    <2>3. QED  BY <1>1, <1>2, <1>4, <2>1, <2>2, PartFits
<1>7. \A j \in 1..Len(left) : \E k \in 1..Len(alerts) : left[j] = alerts[k]
    <2> HIDE DEF at
    <2>1. QED  BY <1>5 DEF Within
<1>8. ASSUME NEW k \in 1..Len(alerts), k # i
      PROVE  \E j \in 1..Len(left) : left[j] = alerts[k]
    <2>1. CASE k < i
        <3>1. k \in 1..Len(alerts) - 1
            BY <1>1, <2>1
        <3>2. left[k] = alerts[k]
            BY <1>4, <2>1, <3>1
        <3>3. QED  BY <1>4, <3>1, <3>2
    <2>2. CASE k > i
        <3>1. k - 1 \in 1..Len(alerts) - 1 /\ ~(k - 1 < i) /\ (k - 1) + 1 = k
            BY <1>1, <2>2
        <3>2. left[k - 1] = alerts[k]
            BY <1>4, <3>1
        <3>3. QED  BY <1>4, <3>1, <3>2
    <2>3. QED  BY <1>8, <2>1, <2>2
<1>9. dismissed' \in Seq(Rows) /\ Len(dismissed') <= MaxAlerts /\ AllGone(dismissed')
    <2> DEFINE row == Row(alerts[i], TRUE)
    <2>1. row \in Rows /\ row.dismissed
        <3>1. alerts[i] \in Cards
            BY <1>1
        <3>2. QED  BY <3>1 DEF Row, Rows, Cards
    <2> HIDE DEF row
    <2>2. /\ Append(dismissed, row) \in Seq(Rows)
          /\ Len(Append(dismissed, row)) = Len(dismissed) + 1
          /\ \A k \in 1..Len(dismissed) : Append(dismissed, row)[k] = dismissed[k]
          /\ Append(dismissed, row)[Len(dismissed) + 1] = row
        BY <1>1, <2>1
    <2>3. gone = Append(dismissed, row)
        BY DEF row
    <2> HIDE DEF gone
    <2>4. gone \in Seq(Rows) /\ Len(gone) = Len(dismissed) + 1
        BY <2>2, <2>3
    <2>5. ASSUME NEW k \in 1..Len(gone) PROVE gone[k].dismissed
        <3>1. CASE k \in 1..Len(dismissed)
            BY <1>2, <2>2, <2>3, <3>1 DEF AllGone
        <3>2. CASE k = Len(dismissed) + 1
            BY <2>1, <2>2, <2>3, <3>2
        <3>3. QED  BY <1>1, <2>4, <3>1, <3>2
    <2>6. CASE Len(gone) > MaxAlerts
        <3>1. gone # <<>>
            BY <1>1, <2>4
        <3>2. /\ Tail(gone) \in Seq(Rows) /\ Len(Tail(gone)) = Len(gone) - 1
              /\ \A k \in 1..Len(gone) - 1 : Tail(gone)[k] = gone[k + 1]
            BY <2>4, <3>1
        <3>3. \A k \in 1..Len(gone) - 1 : k + 1 \in 1..Len(gone)
            BY <1>1, <2>4
        <3>4. AllGone(Tail(gone))
            BY <2>5, <3>2, <3>3 DEF AllGone
        <3>5. Len(Tail(gone)) <= MaxAlerts
            BY <1>1, <2>4, <3>2
        <3>6. QED  BY <1>3, <2>6, <3>2, <3>4, <3>5
    <2>7. CASE ~(Len(gone) > MaxAlerts)
        <3>1. Len(gone) <= MaxAlerts
            BY <1>1, <2>4, <2>7
        <3>2. AllGone(gone)
            BY <2>5 DEF AllGone
        <3>3. QED  BY <1>3, <2>4, <2>7, <3>1, <3>2
    <2>8. QED  BY <2>6, <2>7
<1>10. acked' \in [Days -> SUBSET Episodes]
    <2>1. alerts[i] \in Cards
        BY <1>1
    <2>2. alerts[i].ep \in Episodes /\ acked \in [Days -> SUBSET Episodes]
        BY <2>1 DEF Cards, IndInv, TypeOK
    <2>3. QED  BY <1>3, <2>2
<1>11. QED  BY <1>3, <1>6, <1>7, <1>8, <1>9, <1>10

LEMMA DismissInv == ASSUME IndInv, Dismiss PROVE IndInv'
<1>1. /\ pressed' = NoPress
      /\ \/ \E i \in DOMAIN alerts :
                alerts[i].seq = pressed.seq /\ Drop(i) /\ Save(alerts', dismissed', day)
         \/ /\ alerts' = alerts /\ dismissed' = dismissed /\ acked' = acked
            /\ files' = files /\ failed' = failed /\ errors' = errors
    BY DEF Dismiss, record
<1>2. /\ unseen' = unseen /\ nextSeq' = nextSeq /\ showing' = showing
      /\ day' = day /\ heard' = heard /\ reports' = reports /\ restarts' = restarts
    BY DEF Dismiss
<1>3. /\ day \in Days /\ day \in Nat /\ nextSeq \in Nat /\ alerts \in Seq(Cards)
      /\ DOMAIN alerts = 1..Len(alerts)
    BY Typed
<1>4. CASE \E i \in DOMAIN alerts :
               alerts[i].seq = pressed.seq /\ Drop(i) /\ Save(alerts', dismissed', day)
    <2>1. PICK i \in 1..Len(alerts) : Drop(i) /\ Save(alerts', dismissed', day)
        BY <1>3, <1>4
    <2>2. /\ CardsFit(alerts', nextSeq, day, heard)
          /\ dismissed' \in Seq(Rows) /\ Len(dismissed') <= MaxAlerts /\ AllGone(dismissed')
          /\ \A j \in 1..Len(alerts') : \E k \in 1..Len(alerts) : alerts'[j] = alerts[k]
          /\ acked' \in [Days -> SUBSET Episodes]
        BY <2>1, DropFits
    <2>3. /\ FilesFit(files', day) /\ failed' \in BOOLEAN /\ errors' \in Nat
          /\ ~failed' => Only(files'[day], Standing) = Only(AsRows(alerts'), RowsOf(day))
        <3>1. TypeOK /\ FilesFit(files, day) /\ day <= day
            BY <1>3 DEF IndInv
        <3>2. QED  BY <1>3, <2>1, <2>2, <3>1, SaveFits
    <2>4. alerts' \in Seq(Cards) /\ Len(alerts') <= MaxAlerts /\ DOMAIN alerts' = 1..Len(alerts')
        BY <2>2 DEF CardsFit
    <2>5. TypeOK'
        <3>1. files' \in [Days -> Seq(Rows)]
            BY <2>3 DEF FilesFit
        <3>2. QED  BY <1>1, <1>2, <2>2, <2>3, <2>4, <3>1 DEF IndInv, TypeOK
    <2>6. PressFits' /\ ShownIsSeen'
        BY <1>1, <1>2, <2>2, <2>4, PartPress
    <2>7. TodayIsMirrored'
        BY <1>2, <2>3 DEF TodayIsMirrored
    <2>8. QED  BY <1>2, <2>2, <2>3, <2>5, <2>6, <2>7 DEF IndInv
<1>5. CASE /\ alerts' = alerts /\ dismissed' = dismissed /\ acked' = acked
           /\ files' = files /\ failed' = failed /\ errors' = errors
    <2>1. TypeOK'
        BY <1>1, <1>2, <1>5 DEF IndInv, TypeOK
    <2>2. PressFits'
        BY <1>1 DEF PressFits
    <2>3. ShownIsSeen' /\ TodayIsMirrored'
        BY <1>2, <1>5 DEF IndInv, ShownIsSeen, TodayIsMirrored, News, Indices
    <2>4. QED  BY <1>2, <1>5, <2>1, <2>2, <2>3 DEF IndInv
<1>6. QED  BY <1>1, <1>4, <1>5

LEMMA RestartInv == ASSUME IndInv, Restart PROVE IndInv'
<1> DEFINE kept == Only(files[day], Standing)
           rows == SubSeq(kept, 1, Min({Len(kept), MaxAlerts}))
<1>1. /\ alerts' = Adopt(rows) /\ nextSeq' = Len(rows)
      /\ dismissed' = <<>> /\ unseen' = FALSE /\ showing' = FALSE
      /\ pressed' = NoPress /\ heard' = {} /\ failed' = FALSE
      /\ day' = day /\ files' = files /\ acked' = acked /\ reports' = reports /\ errors' = errors
      /\ restarts' = restarts + 1
    BY DEF Restart
<1>2. /\ day \in Days /\ day \in Nat /\ MaxAlerts \in Nat
    BY Typed
<1>3. /\ files \in [Days -> Seq(Rows)] /\ FilesFit(files, day)
      /\ \A i \in 1..Len(files[day]) : files[day][i].day = day
      /\ Len(kept) <= MaxAlerts /\ RowsApart(kept)
    BY <1>2 DEF IndInv, FilesFit
<1>4. files[day] \in Seq(Rows)
    BY <1>2, <1>3
<1>5. /\ kept \in Seq(Rows) /\ Len(kept) \in Nat
      /\ \A i \in 1..Len(kept) : kept[i] \in Standing
      /\ \E at : Within(kept, files[day], at)
    BY <1>4, OnlyIsAPart
<1> HIDE DEF kept
<1>6. \A i \in 1..Len(kept) : kept[i] \in Rows /\ ~kept[i].dismissed /\ kept[i].day = day
    <2>1. PICK at : Within(kept, files[day], at)
        BY <1>5
    <2>2. \A i \in 1..Len(kept) : kept[i].day = day
        BY <1>3, <2>1 DEF Within
    <2>3. QED  BY <1>5, <2>2 DEF Standing
<1>7. rows = kept
    <2>1. \E x \in {Len(kept), MaxAlerts} : \A y \in {Len(kept), MaxAlerts} : x <= y
        BY <1>2, <1>3, <1>5
    <2>2. Min({Len(kept), MaxAlerts}) = Len(kept)
        <3> DEFINE m == Min({Len(kept), MaxAlerts})
        <3>1. m \in {Len(kept), MaxAlerts} /\ m <= Len(kept) /\ m <= MaxAlerts
            BY <2>1 DEF Min
        <3> HIDE DEF m
        <3>2. m = Len(kept)
            BY <1>2, <1>3, <1>5, <3>1
        <3>3. QED  BY <3>2 DEF m
    <2>3. SubSeq(kept, 1, Len(kept)) = kept
        BY <1>5
    <2>4. QED  BY <2>2, <2>3
<1> HIDE DEF rows
<1> DEFINE card(i) == [seq |-> i, ep |-> kept[i].ep, grave |-> kept[i].grave,
                       day |-> kept[i].day, live |-> FALSE, noticed |-> FALSE]
<1>8. alerts' = [i \in 1..Len(kept) |-> card(i)] /\ nextSeq' = Len(kept)
    <2>1. DOMAIN kept = 1..Len(kept)
        BY <1>5
    <2>2. QED  BY <1>1, <1>7, <2>1 DEF Adopt
<1>9. \A i \in 1..Len(kept) :
          /\ card(i) \in Cards /\ card(i).seq = i /\ card(i).ep = kept[i].ep
          /\ card(i).day = day /\ ~card(i).live /\ Row(card(i), FALSE) = kept[i]
    <2> SUFFICES ASSUME NEW i \in 1..Len(kept)
                 PROVE  /\ card(i) \in Cards /\ card(i).seq = i /\ card(i).ep = kept[i].ep
                        /\ card(i).day = day /\ ~card(i).live /\ Row(card(i), FALSE) = kept[i]
        OBVIOUS
    <2>1. /\ kept[i] \in Rows /\ kept[i].dismissed = FALSE /\ kept[i].day = day
        BY <1>6 DEF Rows
    <2>2. /\ kept[i].ep \in Episodes /\ kept[i].grave \in BOOLEAN /\ i \in Nat
          /\ kept[i] = [ep |-> kept[i].ep, grave |-> kept[i].grave, day |-> kept[i].day,
                        dismissed |-> kept[i].dismissed]
        BY <1>5, <2>1 DEF Rows
    <2>3. card(i) \in Cards
        BY <1>2, <2>1, <2>2 DEF Cards
    <2>4. Row(card(i), FALSE) = [ep |-> kept[i].ep, grave |-> kept[i].grave,
                                 day |-> kept[i].day, dismissed |-> FALSE]
        BY DEF Row
    <2>5. /\ card(i).seq = i /\ card(i).ep = kept[i].ep /\ card(i).day = day
          /\ card(i).live = FALSE
        BY <2>1
    <2>6. QED  BY <2>1, <2>2, <2>3, <2>4, <2>5
<1> HIDE DEF card
<1>10. /\ alerts' \in Seq(Cards) /\ Len(alerts') = Len(kept) /\ DOMAIN alerts' = 1..Len(kept)
       /\ \A i \in 1..Len(kept) : alerts'[i] = card(i)
    <2>1. alerts' \in [1..Len(kept) -> Cards]
        BY <1>8, <1>9
    <2>2. QED  BY <1>5, <1>8, <2>1
<1>11. CardsFit(alerts', nextSeq', day, heard')
    <2>1. \A i \in 1..Len(kept) :
              alerts'[i].seq = i /\ alerts'[i].ep = kept[i].ep /\ alerts'[i].day = day
              /\ ~alerts'[i].live
        BY <1>9, <1>10
    <2>2. Apart(alerts')
        BY <1>3, <1>10, <2>1 DEF Apart, RowsApart
    <2>3. \A i \in 1..Len(alerts') :
              /\ alerts'[i].seq \in 1..Len(kept) /\ alerts'[i].day <= day
              /\ alerts'[i].live => alerts'[i].ep \in heard'
        BY <1>2, <1>5, <1>10, <2>1
    <2>4. QED  BY <1>3, <1>8, <1>10, <2>2, <2>3 DEF CardsFit
<1>12. TodayIsMirrored'
    <2>1. AsRows(alerts') = kept
        <3>1. AsRows(alerts') = [i \in 1..Len(kept) |-> Row(alerts'[i], FALSE)]
            BY <1>10 DEF AsRows
        <3>2. \A i \in 1..Len(kept) : Row(alerts'[i], FALSE) = kept[i]
            BY <1>9, <1>10
        <3>3. kept = [i \in 1..Len(kept) |-> kept[i]]
            BY <1>5
        <3>4. QED  BY <3>1, <3>2, <3>3
    <2>2. \A i \in 1..Len(kept) : kept[i] \in RowsOf(day)
        BY <1>6 DEF RowsOf
    <2>3. Only(kept, RowsOf(day)) = kept
        BY <1>5, <2>2, OnlyOfAll
    <2>4. Only(files'[day'], Standing) = kept
        BY <1>1 DEF kept
    <2>5. QED  BY <1>1, <2>1, <2>3, <2>4 DEF TodayIsMirrored
<1>13. TypeOK'
    <2>1. <<>> \in Seq(Rows) /\ Len(<<>>) <= MaxAlerts
        BY <1>2
    <2>2. unseen' \in BOOLEAN /\ showing' \in BOOLEAN /\ failed' \in BOOLEAN
        BY <1>1
    <2>3. restarts' \in Nat
        BY <1>1 DEF IndInv, TypeOK
    <2>4. Len(alerts') <= MaxAlerts
        BY <1>3, <1>10
    <2>5. nextSeq' \in Nat /\ heard' \subseteq Episodes /\ pressed' \in {NoPress}
        BY <1>1, <1>5, <1>8
    <2>6. QED  BY <1>1, <1>10, <2>1, <2>2, <2>3, <2>4, <2>5 DEF IndInv, TypeOK
<1>14. PressFits' /\ ShownIsSeen' /\ AllGone(dismissed')
    BY <1>1 DEF PressFits, ShownIsSeen, AllGone
<1>15. QED  BY <1>1, <1>3, <1>11, <1>12, <1>13, <1>14 DEF IndInv

LEMMA StutterInv == ASSUME IndInv, UNCHANGED vars PROVE IndInv'
<1>1. /\ showing' = showing /\ alerts' = alerts /\ unseen' = unseen
      /\ dismissed' = dismissed /\ nextSeq' = nextSeq /\ pressed' = pressed /\ day' = day
      /\ files' = files /\ failed' = failed /\ heard' = heard /\ acked' = acked
      /\ reports' = reports /\ restarts' = restarts /\ errors' = errors
    BY DEF vars, book, record
<1>2. TypeOK'
    BY <1>1 DEF IndInv, TypeOK
<1>3. PressFits' /\ TodayIsMirrored' /\ ShownIsSeen'
    BY <1>1 DEF IndInv, PressFits, TodayIsMirrored, ShownIsSeen, News, Indices
<1>4. QED  BY <1>1, <1>2, <1>3 DEF IndInv

LEMMA BookStep == ASSUME IndInv, [Next]_vars PROVE IndInv'
BY ReportInv, PruneInv, NextDayInv, LookInv, LookAwayInv, PressInv, DismissInv,
   RestartInv, StutterInv DEF Next

LEMMA BookInductive == Spec => []IndInv
<1>1. IndInv /\ [Next]_vars => IndInv'
    BY BookStep
<1>2. QED  BY InitInv, <1>1, PTL DEF Spec

----------------------------------------------------------------------------
(* What the book promises.                                                    *)

\* What the book keeps is of its type, and neither list outgrows MAX_ALERTS.
THEOREM BookTypes == Spec => []TypeOK
<1>1. IndInv => TypeOK
    BY DEF IndInv
<1>2. QED  BY BookInductive, <1>1, PTL

\* What a restart restores is neither doubled by the next report nor acted on
\* before it (record_alert, adopt_alerts).
THEOREM RestoredCardsAlwaysWait == Spec => []RestoredCardsWait
<1>1. IndInv => RestoredCardsWait
    <2> SUFFICES ASSUME IndInv PROVE RestoredCardsWait
        OBVIOUS
    <2>1. CardsFit(alerts, nextSeq, day, heard)
        BY DEF IndInv
    <2>2. LiveWasReported
        BY <2>1, Typed DEF LiveWasReported, CardsFit
    <2>3. ASSUME NEW e \in Episodes PROVE Cardinality(Indices(e)) <= 1
        <3>1. CASE Indices(e) = {}
            BY <3>1, FS_EmptySet
        <3>2. CASE Indices(e) # {}
            <4>1. PICK i \in Indices(e) : TRUE
                BY <3>2
            <4>2. Indices(e) = {i}
                BY <2>1, <4>1, Typed DEF Indices, CardsFit, Apart
            <4>3. Cardinality({i}) = 1
                BY FS_Singleton
            <4>4. QED  BY <4>2, <4>3
        <3>3. QED  BY <3>1, <3>2
    <2>4. QED  BY <2>2, <2>3 DEF RestoredCardsWait, OneCardPerEpisode
<1>2. QED  BY BookInductive, <1>1, PTL

\* "A file is a plain mirror of what the panel shows": what a launch would read
\* is today's share of the list, in its order, unless the last save failed.
THEOREM TodayIsAlwaysMirrored == Spec => []TodayIsMirrored
<1>1. IndInv => TodayIsMirrored
    BY DEF IndInv
<1>2. QED  BY BookInductive, <1>1, PTL

\* With the Alerts tab on screen nothing is news and the tray's spot is off,
\* whatever lands under it (ingest, see_alerts).
THEOREM ShownIsAlwaysSeen == Spec => []ShownIsSeen
<1>1. IndInv => ShownIsSeen
    BY DEF IndInv
<1>2. QED  BY BookInductive, <1>1, PTL

\* A dismissal takes the card it was pressed on, or none: ids are never given
\* twice, and what a press names keeps its id (SeenAlert::seq).
THEOREM DismissAlwaysHits == Spec => DismissHitsItsCard
<1> DEFINE Hits == pressed # NoPress /\ pressed' = NoPress /\ restarts' = restarts =>
                       \A e \in Episodes : Held(e) /\ ~Held(e)' => e = pressed.ep
<1>1. ASSUME IndInv, [Next]_vars PROVE Hits
    <2> SUFFICES ASSUME pressed # NoPress, pressed' = NoPress, restarts' = restarts,
                        NEW e \in Episodes, Held(e), ~Held(e)'
                 PROVE  e = pressed.ep
        OBVIOUS
    <2>1. restarts \in Nat /\ DOMAIN alerts = 1..Len(alerts)
        BY <1>1, Typed DEF IndInv, TypeOK
    <2>2. Dismiss
        <3>1. ~Report /\ ~Prune /\ ~NextDay /\ ~Look /\ ~LookAway /\ ~UNCHANGED vars
            BY DEF Report, Prune, NextDay, Look, LookAway, vars
        <3>2. ~PressDismiss
            BY DEF PressDismiss
        <3>3. ~Restart
            BY <2>1 DEF Restart
        <3>4. QED  BY <1>1, <3>1, <3>2, <3>3 DEF Next
    <2>3. PICK k \in 1..Len(alerts) : alerts[k].ep = e
        BY <2>1 DEF Held, Indices
    <2>4. ~(alerts' = alerts)
        BY DEF Held, Indices
    <2>5. PICK i \in 1..Len(alerts) : alerts[i].seq = pressed.seq /\ Drop(i)
        BY <2>1, <2>2, <2>4 DEF Dismiss
    <2>6. alerts[i].ep = pressed.ep
        BY <1>1, <2>5 DEF IndInv, PressFits
    <2>7. k = i
        <3> SUFFICES ASSUME k # i PROVE FALSE
            OBVIOUS
        <3>1. CardsFit(alerts', nextSeq, day, heard) /\ \E j \in 1..Len(alerts') : alerts'[j] = alerts[k]
            BY <1>1, <2>5, DropFits
        <3>2. PICK j \in 1..Len(alerts') : alerts'[j] = alerts[k]
            BY <3>1
        <3>3. DOMAIN alerts' = 1..Len(alerts')
            BY <3>1 DEF CardsFit
        <3>4. QED  BY <2>3, <3>2, <3>3 DEF Held, Indices
    <2>8. QED  BY <2>3, <2>6, <2>7
<1>2. QED  BY BookInductive, <1>1, PTL DEF Spec, DismissHitsItsCard

\* A follow-up of an episode already seen brings the notice row back only when
\* it is graver than what was seen (see_alerts, record_alert).
THEOREM FollowUpsAreAlwaysQuiet == Spec => FollowUpsAreQuiet
<1> DEFINE Quiet ==
        \A e \in Episodes :
            \A i \in Indices(e) :
                alerts[i].live /\ alerts[i].noticed /\ News(e)' =>
                    ~alerts[i].grave /\ \E j \in Indices(e)' : alerts'[j].grave
<1>1. ASSUME IndInv, [Next]_vars PROVE Quiet
    <2> SUFFICES ASSUME NEW e \in Episodes, NEW i \in 1..Len(alerts), alerts[i].ep = e,
                        alerts[i].live, alerts[i].noticed,
                        NEW j \in DOMAIN alerts', alerts'[j].ep = e,
                        alerts'[j].live, ~alerts'[j].noticed
                 PROVE  ~alerts[i].grave /\ alerts'[j].grave
        BY <1>1, Typed DEF Indices, News
    <2>1. CardsFit(alerts, nextSeq, day, heard) /\ day \in Days /\ nextSeq \in Nat
        BY <1>1, Typed DEF IndInv
    <2>2. IndInv'
        BY <1>1, BookStep
    <2>3. j \in 1..Len(alerts')
        BY <2>2, Typed
    <2>4. ASSUME NEW k \in 1..Len(alerts), alerts'[j] = alerts[k] PROVE FALSE
        <3>1. k = i
            BY <2>1, <2>4 DEF CardsFit, Apart
        <3>2. QED  BY <2>4, <3>1
    <2>5. CASE Report
        <3>1. PICK event \in Events, pruning \in BOOLEAN, on \in {day, day + 1} \cap Days :
                  /\ Retain(Ingest(event), pruning, on)
                  /\ nextSeq' = IF \E k \in DOMAIN alerts : alerts[k].ep = event.ep
                                THEN nextSeq ELSE nextSeq + 1
                  /\ heard' = heard \cup {event.ep}
            BY <2>5 DEF Report
        <3>2. day <= on /\ on \in Days
            BY <1>1, Typed, AlertAssumption DEF Days
        <3>3. QED  BY <1>1, <2>3, <3>1, <3>2, ReportFacts
    <2>6. CASE Prune
        <3>1. Retain(alerts, TRUE, day)
            BY <2>6 DEF Prune
        <3>2. PICK k \in 1..Len(alerts) : alerts'[j] = alerts[k]
            BY <1>1, <2>1, <2>3, <3>1, RetainFits
        <3>3. QED  BY <2>4, <3>2
    <2>7. CASE Dismiss
        <3>1. \/ alerts' = alerts
              \/ \E k \in 1..Len(alerts) : Drop(k)
            BY <1>1, <2>7, Typed DEF Dismiss
        <3>2. PICK k \in 1..Len(alerts) : alerts'[j] = alerts[k]
            BY <1>1, <2>3, <3>1, DropFits
        <3>3. QED  BY <2>4, <3>2
    <2>8. CASE Look
        <3>1. alerts' = Seen(alerts)
            BY <2>8 DEF Look
        <3>2. j \in 1..Len(alerts) /\ alerts'[j] = [alerts[j] EXCEPT !.noticed = TRUE]
            BY <2>1, <2>3, <3>1, SeenFits
        <3>3. alerts[j] \in Cards
            BY <1>1, <3>2, Typed
        <3>4. QED  BY <3>2, <3>3 DEF Cards
    <2>9. CASE Restart
        <3>1. heard' = {}
            BY <2>9 DEF Restart
        <3>2. alerts'[j].ep \in heard'
            BY <2>2, <2>3 DEF IndInv, CardsFit
        <3>3. QED  BY <3>1, <3>2
    <2>10. CASE NextDay \/ LookAway \/ PressDismiss \/ UNCHANGED vars
        <3>1. alerts' = alerts
            BY <2>10 DEF NextDay, LookAway, PressDismiss, vars, book
        <3>2. QED  BY <2>3, <2>4, <3>1
    <2>11. QED  BY <1>1, <2>5, <2>6, <2>7, <2>8, <2>9, <2>10 DEF Next
<1>2. QED  BY BookInductive, <1>1, PTL DEF Spec, FollowUpsAreQuiet

----------------------------------------------------------------------------
(* The parts.                                                                 *)

\* What a part does, the book never notices: the parts together implement the book.
THEOREM PartsKeepTheBook == PartsSpec => Spec
<1>1. PartsInit => Init
    BY DEF PartsInit
<1>2. [PartsNext]_allVars => [Next]_vars
    BY DEF PartsNext, allVars
<1>3. QED  BY <1>1, <1>2, PTL DEF PartsSpec, Spec

----------------------------------------------------------------------------
(* Who was in front: a pid's line in the table is of the process it has now.   *)

ActiveTypes ==
    /\ hour \in Nat
    /\ born \in [Apps -> Nat \cup {None}]
    /\ came \in [Apps -> Nat \cup {None}]

\* A pid in the table runs, and its entry is when its process last came forward.
TableIsOfTheLiving ==
    \A p \in DOMAIN lastActive :
        /\ p \in Active!Running
        /\ lastActive[p] \in Nat /\ lastActive[p] = came[p]
        /\ born[p] <= lastActive[p] /\ lastActive[p] <= hour

BornBefore == \A p \in Apps : born[p] # None => born[p] <= hour

ActiveInv == ActiveTypes /\ BornBefore /\ TableIsOfTheLiving /\ Active!ClaimIsProven

\* insert_bounded adds the application that came forward, at this hour, and changes
\* no other entry: what the limit costs is an entry less.
LEMMA InsertKeeps ==
    ASSUME NEW seen, NEW p, NEW t \in Active!Bounded(seen, p)
    PROVE  /\ DOMAIN t \subseteq DOMAIN seen \cup {p}
           /\ p \in DOMAIN t => t[p] = hour
           /\ \A q \in DOMAIN t : q # p => t[q] = seen[q]
<1> DEFINE Put(kept) == [q \in kept \cup {p} |-> IF q = p THEN hour ELSE seen[q]]
<1>1. PICK kept \in SUBSET DOMAIN seen : t = Put(kept)
    <2>1. \/ \E q : t = Put(DOMAIN seen \ {q})
          \/ t = Put(DOMAIN seen)
        BY DEF Active!Bounded
    <2>2. QED  BY <2>1
<1>2. QED  BY <1>1

LEMMA ActiveStarts == Active!Init => ActiveInv
<1> SUFFICES ASSUME Active!Init PROVE ActiveInv
    OBVIOUS
<1> USE PartsAssumption
<1>1. ActiveTypes
    BY DEF Active!Init, ActiveTypes
<1>2. TableIsOfTheLiving
    <2> SUFFICES ASSUME NEW p \in DOMAIN lastActive
                 PROVE  /\ p \in Active!Running /\ lastActive[p] \in Nat /\ lastActive[p] = came[p]
                        /\ born[p] <= lastActive[p] /\ lastActive[p] <= hour
        BY DEF TableIsOfTheLiving
    <2>1. p = front /\ p \in Apps /\ lastActive[p] = 0 /\ came[p] = 0 /\ hour = 0
        BY DEF Active!Init
    <2>2. p \in Active!Running /\ born[p] = 0
        BY <2>1 DEF Active!Init, Active!Running
    <2>3. QED  BY <2>1, <2>2
<1>3. Active!ClaimIsProven
    BY DEF Active!Init, Active!ClaimIsProven
<1>4. BornBefore
    BY DEF Active!Init, BornBefore
<1>5. QED  BY <1>1, <1>2, <1>3, <1>4 DEF ActiveInv

\* A pid that did not change hands, came forward or leave the table keeps its line.
LEMMA ActiveStep == ASSUME ActiveInv, Active!Next PROVE ActiveInv'
<1> USE PartsAssumption
<1> USE DEF ActiveInv, ActiveTypes
<1>2. CASE Active!Pass
    <2>1. hour' \in Nat /\ hour <= hour'
        BY <1>2 DEF Active!Pass
    <2>2. ActiveTypes'
        BY <1>2, <2>1 DEF Active!Pass
    <2>3. TableIsOfTheLiving'
        <3>1. ASSUME NEW p \in DOMAIN lastActive
              PROVE  lastActive[p] <= hour' /\ p \in Active!Running'
            BY <1>2, <2>1 DEF Active!Pass, TableIsOfTheLiving, Active!Running
        <3>2. QED  BY <1>2, <3>1 DEF Active!Pass, TableIsOfTheLiving
    <2>4. BornBefore'
        BY <1>2, <2>1 DEF Active!Pass, BornBefore
    <2>5. QED  BY <1>2, <2>2, <2>3, <2>4 DEF Active!Pass, Active!ClaimIsProven
<1>3. ASSUME NEW p \in Apps, Active!Activate(p) PROVE ActiveInv'
    <2>1. ActiveTypes'
        BY <1>3 DEF Active!Activate
    <2>2. Active!ClaimIsProven'
        BY <1>3 DEF Active!Activate, Active!ClaimIsProven
    <2>3. TableIsOfTheLiving'
        <3> SUFFICES ASSUME NEW q \in DOMAIN lastActive'
                     PROVE  /\ q \in Active!Running' /\ lastActive'[q] \in Nat
                            /\ lastActive'[q] = came'[q] /\ born'[q] <= lastActive'[q]
                            /\ lastActive'[q] <= hour'
            BY DEF TableIsOfTheLiving
        <3>1. born' = born /\ hour' = hour /\ Active!Running' = Active!Running
            BY <1>3 DEF Active!Activate, Active!Running
        <3>2. lastActive' \in Active!Bounded(lastActive, p)
            BY <1>3 DEF Active!Activate
        <3>3. CASE q = p
            <4>1. lastActive'[q] = hour /\ came'[q] = hour
                BY <1>3, <3>2, <3>3, InsertKeeps DEF Active!Activate
            <4>2. q \in Active!Running /\ born[q] \in Nat /\ born[q] <= hour
                BY <1>3, <3>3 DEF Active!Activate, Active!Running, BornBefore
            <4>3. QED  BY <3>1, <4>1, <4>2
        <3>4. CASE q # p
            <4>1. q \in DOMAIN lastActive /\ lastActive'[q] = lastActive[q]
                BY <3>2, <3>4, InsertKeeps
            <4>2. q \in Active!Running
                BY <4>1 DEF TableIsOfTheLiving
            <4>3. came'[q] = came[q]
                BY <1>3, <3>4, <4>2 DEF Active!Activate, Active!Running
            <4>4. QED  BY <3>1, <4>1, <4>2, <4>3 DEF TableIsOfTheLiving
        <3>5. QED  BY <3>3, <3>4
    <2>4. BornBefore'
        BY <1>3 DEF Active!Activate, BornBefore
    <2>5. QED  BY <2>1, <2>2, <2>3, <2>4
<1>4. ASSUME NEW p \in Apps, Active!Quit(p) PROVE ActiveInv'
    <2>1. ActiveTypes'
        BY <1>4 DEF Active!Quit
    <2>2. Active!ClaimIsProven'
        BY <1>4 DEF Active!Quit, Active!ClaimIsProven
    <2>3. TableIsOfTheLiving'
        <3> SUFFICES ASSUME NEW q \in DOMAIN lastActive'
                     PROVE  /\ q \in Active!Running' /\ lastActive'[q] \in Nat
                            /\ lastActive'[q] = came'[q] /\ born'[q] <= lastActive'[q]
                            /\ lastActive'[q] <= hour'
            BY DEF TableIsOfTheLiving
        <3>1. q \in DOMAIN lastActive /\ q # p /\ lastActive'[q] = lastActive[q]
            BY <1>4 DEF Active!Quit, Active!Without
        <3>2. q \in Active!Running
            BY <3>1 DEF TableIsOfTheLiving
        <3>3. born'[q] = born[q] /\ came'[q] = came[q] /\ hour' = hour
            BY <1>4, <3>1, <3>2 DEF Active!Quit, Active!Running
        <3>4. q \in Active!Running'
            BY <3>2, <3>3 DEF Active!Running
        <3>5. QED  BY <3>1, <3>3, <3>4 DEF TableIsOfTheLiving
    <2>4. BornBefore'
        BY <1>4 DEF Active!Quit, BornBefore
    <2>5. QED  BY <2>1, <2>2, <2>3, <2>4
<1>5. ASSUME NEW p \in Apps, Active!Launch(p) PROVE ActiveInv'
    <2>1. ActiveTypes'
        BY <1>5 DEF Active!Launch
    <2>2. Active!ClaimIsProven'
        BY <1>5 DEF Active!Launch, Active!ClaimIsProven
    <2>3. TableIsOfTheLiving'
        <3>1. ASSUME NEW q \in DOMAIN lastActive
              PROVE  q \in Active!Running' /\ born'[q] = born[q]
            <4>1. q \in Active!Running /\ q # p
                BY <1>5 DEF TableIsOfTheLiving, Active!Launch
            <4>2. born'[q] = born[q]
                BY <1>5, <4>1 DEF Active!Launch, Active!Running
            <4>3. QED  BY <4>1, <4>2 DEF Active!Running
        <3>2. QED  BY <1>5, <3>1 DEF Active!Launch, TableIsOfTheLiving
    <2>4. BornBefore'
        BY <1>5 DEF Active!Launch, BornBefore
    <2>5. QED  BY <2>1, <2>2, <2>3, <2>4
<1>6. ASSUME NEW p \in Apps, Active!Compose(p) PROVE ActiveInv'
    <2>1. ActiveTypes' /\ BornBefore' /\ TableIsOfTheLiving'
        BY <1>6 DEF Active!Compose, BornBefore, TableIsOfTheLiving, Active!Running
    <2>2. CASE Active!Unused(p) = None
        BY <1>6, <2>1, <2>2 DEF Active!Compose, Active!ClaimIsProven
    <2>3. CASE Active!Unused(p) # None
        <3>1. front # p /\ p \in DOMAIN lastActive /\ Active!Unused(p) = hour - lastActive[p]
            BY <2>3 DEF Active!Unused
        <3>2. claim' = [app |-> p, idle |-> hour - lastActive[p]]
            BY <1>6, <2>3, <3>1 DEF Active!Compose
        <3>3. /\ born[p] \in Nat /\ lastActive[p] \in Nat /\ came[p] = lastActive[p]
              /\ born[p] <= lastActive[p]
            BY <3>1, <1>6 DEF TableIsOfTheLiving, Active!Running
        <3>4. came[p] # None
            BY <3>3
        <3>5. hour - lastActive[p] <= hour - born[p]
            BY <3>3
        <3>6. front' = front /\ born' = born /\ came' = came /\ hour' = hour
            BY <1>6 DEF Active!Compose
        <3>7. claim'.app = p /\ claim'.idle = hour - lastActive[p]
            BY <3>2
        <3>8. Active!ClaimIsProven'
            BY <3>1, <3>3, <3>4, <3>5, <3>6, <3>7 DEF Active!ClaimIsProven
        <3>9. QED  BY <2>1, <3>8
    <2>4. QED  BY <2>2, <2>3
<1>7. QED  BY <1>2, <1>3, <1>4, <1>5, <1>6 DEF Active!Next

LEMMA ActiveInductive == PartsSpec => [](part = "active" => ActiveInv)
<1> DEFINE Inv == part = "active" => ActiveInv
<1>1. PartsInit => Inv
    BY ActiveStarts DEF PartsInit
<1>2. Inv /\ [PartsNext]_allVars => Inv'
    <2> SUFFICES ASSUME Inv, [PartsNext]_allVars, part' = "active" PROVE ActiveInv'
        BY DEF PartsNext
    <2>1. CASE PartsNext
        <3>1. part = "active" /\ Active!Next
            BY <2>1 DEF PartsNext
        <3>2. QED  BY <3>1, ActiveStep
    <2>2. CASE UNCHANGED allVars
        <3>1. UNCHANGED active /\ part = "active"
            BY <2>2 DEF allVars
        <3>2. QED  BY <3>1 DEF active, ActiveInv, ActiveTypes, BornBefore, TableIsOfTheLiving,
                               Active!Running, Active!ClaimIsProven
    <2>3. QED  BY <2>1, <2>2
<1>3. QED  BY <1>1, <1>2, PTL DEF PartsSpec

\* What a banner calls unused is not in front and is the process that came forward then,
\* whatever pids were handed out again meanwhile and whatever the table's limit dropped
\* (active.rs, unused_for_a_while); only no time and no one are told from times and pids.
THEOREM NobodyCameBackToIt == PartsSpec => []ClaimIsProven
<1>1. (part = "active" => ActiveInv) => ClaimIsProven
    BY DEF ActiveInv, ClaimIsProven
<1>2. QED  BY ActiveInductive, <1>1, PTL

----------------------------------------------------------------------------
(* The menu bar's face: the store's clock of a live episode and the samples'.  *)

AttentionTypes ==
    /\ wall \in 0..Ticks
    /\ cards \in [Attention!Subjects -> {"none", "restored"} \cup Attention!Grades]
    /\ clock \in [Attention!Subjects -> 0..Attention!Never]
    /\ under \in [Attention!Subjects -> 0..Attention!Never]
    /\ ejected \subseteq Volumes

\* A volume that was reported while its eject still hid it has been under its bar for
\* longer than its clock ran; memory never.
ClocksAgree ==
    \A s \in Attention!Subjects :
        cards[s] \in Attention!Grades =>
            /\ clock[s] = Attention!Never <=> under[s] = Attention!Never
            /\ s \in Attention!Memory => clock[s] = under[s]

AttentionInv == AttentionTypes /\ ClocksAgree

LEMMA SubjectsApart ==
    /\ Attention!Memory \cap Volumes = {}
    /\ Attention!Subjects = Attention!Memory \cup Volumes
    /\ Ticks \in Nat /\ Attention!Never = Ticks + 1 /\ Recover \in Nat
BY PartsAssumption DEF Attention!Memory, Attention!Subjects, Attention!Pressure, Attention!Never

LEMMA AttentionStarts == Attention!Init => AttentionInv
<1> SUFFICES ASSUME Attention!Init PROVE AttentionInv
    OBVIOUS
<1>1. AttentionTypes
    <2>1. 0 \in 0..Ticks /\ Attention!Never \in 0..Attention!Never
        BY SubjectsApart
    <2>2. QED  BY <2>1 DEF Attention!Init, AttentionTypes
<1>2. ClocksAgree
    BY DEF Attention!Init, ClocksAgree, Attention!Grades
<1>3. QED  BY <1>1, <1>2 DEF AttentionInv

\* A tick moves the clock of a live episode as the samples' own.
LEMMA TickKeepsClocks == ASSUME AttentionInv, Attention!OnTick PROVE AttentionInv'
<1>1. PICK passed \in {1, Recover}, seen \in Attention!Samples, waited \in SUBSET ejected :
          /\ wall + passed <= Ticks /\ wall' = wall + passed
          /\ Attention!PruneEjected(seen, waited)
          /\ \E told \in Attention!Reports(seen) :
                 Attention!RecordAlerts(told) /\ Attention!NoteMemoryRecovery(seen, told)
          /\ Attention!Watched(seen)
    BY DEF Attention!OnTick
<1>2. PICK told \in Attention!Reports(seen) :
          Attention!RecordAlerts(told) /\ Attention!NoteMemoryRecovery(seen, told)
    BY <1>1
<1>3. /\ wall' \in 0..Ticks /\ wall' # Attention!Never /\ wall' \in 0..Attention!Never
      /\ Attention!Never \in 0..Attention!Never
    BY <1>1, SubjectsApart DEF AttentionInv, AttentionTypes
<1>4. /\ seen \in [Attention!Subjects -> {"over", "under", "unknown", "gone"}]
      /\ \A s \in Attention!Memory : seen[s] # "gone"
    BY DEF Attention!Samples
<1>5. ejected' \subseteq Volumes
    BY <1>1 DEF Attention!PruneEjected, AttentionInv, AttentionTypes
<1>6. ASSUME NEW s \in DOMAIN told
      PROVE  s \in Attention!Subjects /\ seen[s] = "over" /\ told[s] \in Attention!Grades
    <2>1. PICK t \in Attention!Subjects : seen[t] = "over" /\ told \in [{t} -> Attention!GradesOf(t)]
        BY <1>6 DEF Attention!Reports
    <2>2. QED  BY <1>6, <2>1 DEF Attention!GradesOf, Attention!Grades
<1>7. ASSUME NEW s \in Attention!Subjects
      PROVE  /\ cards'[s] = (IF s \in DOMAIN told THEN told[s] ELSE cards[s])
             /\ cards'[s] \in {"none", "restored"} \cup Attention!Grades
    BY <1>2, <1>6 DEF Attention!RecordAlerts, AttentionInv, AttentionTypes
<1> DEFINE was(s) == IF s \in DOMAIN told THEN Attention!Never ELSE clock[s]
           read(s) == Attention!Reading(s, seen)
<1>8. ASSUME NEW s \in Attention!Subjects
      PROVE  /\ read(s) \in {"over", "under", "unknown"}
             /\ s \in Attention!Memory => read(s) = seen[s]
    BY <1>4, <1>5, SubjectsApart DEF Attention!Reading
<1>9. ASSUME NEW s \in Attention!Subjects
      PROVE  clock'[s] = CASE cards'[s] \notin Attention!Grades -> was(s)
                           [] cards'[s] \in Attention!Grades /\ read(s) = "over" -> Attention!Never
                           [] cards'[s] \in Attention!Grades /\ read(s) = "under"
                                  /\ was(s) = Attention!Never -> wall'
                           [] OTHER -> was(s)
    BY <1>2 DEF Attention!NoteMemoryRecovery
<1>10. ASSUME NEW s \in Attention!Subjects
       PROVE  under'[s] = CASE read(s) = "over" -> Attention!Never
                            [] read(s) = "under" /\ under[s] = Attention!Never -> wall'
                            [] OTHER -> under[s]
    BY <1>1 DEF Attention!Watched
<1>11. ASSUME NEW s \in Attention!Subjects
       PROVE  clock[s] \in 0..Attention!Never /\ under[s] \in 0..Attention!Never
    BY DEF AttentionInv, AttentionTypes
<1> HIDE DEF read
<1>12. ASSUME NEW s \in Attention!Subjects
       PROVE  clock'[s] \in 0..Attention!Never /\ under'[s] \in 0..Attention!Never
    <2>1. was(s) \in 0..Attention!Never
        BY <1>3, <1>11
    <2> HIDE DEF was
    <2>2. QED  BY <1>3, <1>9, <1>10, <1>11, <2>1
<1>13. AttentionTypes'
    <2>1. /\ cards' = [s \in Attention!Subjects |-> cards'[s]]
          /\ clock' = [s \in Attention!Subjects |-> clock'[s]]
          /\ under' = [s \in Attention!Subjects |-> under'[s]]
        BY <1>1, <1>2 DEF Attention!RecordAlerts, Attention!NoteMemoryRecovery, Attention!Watched
    <2>2. QED  BY <1>3, <1>5, <1>7, <1>12, <2>1 DEF AttentionTypes
<1>14. ASSUME NEW s \in Attention!Subjects, cards'[s] \in Attention!Grades
       PROVE  /\ clock'[s] = Attention!Never <=> under'[s] = Attention!Never
              /\ s \in Attention!Memory => clock'[s] = under'[s]
    <2>1. CASE s \in DOMAIN told
        <3>1. was(s) = Attention!Never /\ seen[s] = "over"
            BY <1>6, <2>1
        <3>2. CASE read(s) = "over"
            BY <1>9, <1>10, <1>14, <3>2
        <3>3. CASE read(s) # "over"
            <4>1. s \notin Attention!Memory /\ read(s) = "under"
                BY <1>8, <3>1, <3>3 DEF read, Attention!Reading
            <4>2. clock'[s] = wall'
                BY <1>9, <1>14, <3>1, <4>1
            <4>3. under'[s] # Attention!Never
                BY <1>3, <1>10, <4>1
            <4>4. QED  BY <1>3, <4>1, <4>2, <4>3
        <3>4. QED  BY <3>2, <3>3
    <2>2. CASE s \notin DOMAIN told
        <3>1. was(s) = clock[s] /\ cards[s] \in Attention!Grades
            BY <1>7, <1>14, <2>2
        <3>2. /\ clock[s] = Attention!Never <=> under[s] = Attention!Never
              /\ s \in Attention!Memory => clock[s] = under[s]
            BY <3>1 DEF AttentionInv, ClocksAgree
        <3>3. CASE read(s) = "over"
            BY <1>9, <1>10, <1>14, <3>3
        <3>4. CASE read(s) = "under"
            BY <1>3, <1>9, <1>10, <1>14, <3>1, <3>2, <3>4
        <3>5. CASE read(s) = "unknown"
            BY <1>9, <1>10, <1>14, <3>1, <3>2, <3>5
        <3>6. QED  BY <1>8, <3>3, <3>4, <3>5
    <2>3. QED  BY <2>1, <2>2
<1>15. ClocksAgree'
    BY <1>14 DEF ClocksAgree
<1>16. QED  BY <1>13, <1>15 DEF AttentionInv

LEMMA AttentionStep == ASSUME AttentionInv, Attention!Next PROVE AttentionInv'
<1>1. CASE Attention!OnTick
    BY <1>1, TickKeepsClocks
<1>2. CASE Attention!SeeAlerts \/ \E to \in Attention!Prefs : Attention!SetTray(to)
    BY <1>2 DEF Attention!SeeAlerts, Attention!SetTray, AttentionInv, AttentionTypes, ClocksAgree
<1>3. ASSUME NEW s \in Attention!Subjects, Attention!Drop(s) PROVE AttentionInv'
    <2>1. /\ cards' = [cards EXCEPT ![s] = "none"]
          /\ clock' = [clock EXCEPT ![s] = Attention!Never]
          /\ wall' = wall /\ under' = under /\ ejected' = ejected
        BY <1>3 DEF Attention!Drop
    <2>2. Attention!Never \in 0..Attention!Never /\ "none" \notin Attention!Grades
        BY SubjectsApart DEF Attention!Grades
    <2>3. AttentionTypes'
        BY <2>1, <2>2 DEF AttentionInv, AttentionTypes
    <2>4. ClocksAgree'
        BY <2>1, <2>2 DEF AttentionInv, AttentionTypes, ClocksAgree
    <2>5. QED  BY <2>3, <2>4 DEF AttentionInv
<1>4. ASSUME NEW v \in Volumes, Attention!MarkEjected(v) PROVE AttentionInv'
    BY <1>4 DEF Attention!MarkEjected, AttentionInv, AttentionTypes, ClocksAgree
<1>5. QED  BY <1>1, <1>2, <1>3, <1>4 DEF Attention!Next

\* A face that has just been chosen is what the samples say.
LEMMA ChosenIsWorn == ASSUME AttentionInv, face = Attention!FaceFor PROVE Attention!Worn
<1>1. ASSUME NEW s \in Attention!Memory, Attention!TurnsTheFace(s)
      PROVE  Attention!RecoveredFor(s) <=> Attention!Calm(s)
    <2>1. s \in Attention!Subjects /\ s \notin Volumes /\ cards[s] \in Attention!Grades
        BY <1>1, SubjectsApart DEF Attention!TurnsTheFace, Attention!Grades
    <2>2. clock[s] = under[s]
        BY <1>1, <2>1 DEF AttentionInv, ClocksAgree
    <2>3. QED  BY <2>1, <2>2 DEF Attention!RecoveredFor, Attention!Calm
<1>2. Attention!MemoryNeedsAttention
          <=> \E s \in Attention!Memory : Attention!TurnsTheFace(s) /\ ~Attention!Calm(s)
    BY <1>1 DEF Attention!MemoryNeedsAttention
<1>3. ASSUME Attention!DiskNeedsAttention
      PROVE  \E v \in Volumes : cards[v] \in Attention!Grades /\ Attention!Present(v) /\ ~Attention!Calm(v)
    <2>1. PICK v \in Volumes : /\ cards[v] \in Attention!Grades /\ ~Attention!RecoveredFor(v)
                               /\ Attention!Present(v)
        BY <1>3 DEF Attention!DiskNeedsAttention
    <2>2. v \in Attention!Subjects
        BY SubjectsApart
    <2>3. under[v] = Attention!Never
        BY <2>1, <2>2 DEF AttentionInv, ClocksAgree, Attention!RecoveredFor
    <2>4. QED  BY <2>1, <2>3 DEF Attention!Calm
<1>4. pref = "auto" => (face = "memory" <=> Attention!MemoryNeedsAttention)
    BY DEF Attention!FaceFor
<1>5. face = "disk" => Attention!DiskNeedsAttention
    BY DEF Attention!FaceFor
<1>6. QED  BY <1>2, <1>3, <1>4, <1>5 DEF Attention!Worn

LEMMA AttentionInductive == PartsSpec => [](part = "attention" => AttentionInv)
<1> DEFINE Inv == part = "attention" => AttentionInv
<1>1. PartsInit => Inv
    BY AttentionStarts DEF PartsInit
<1>2. Inv /\ [PartsNext]_allVars => Inv'
    <2> SUFFICES ASSUME Inv, [PartsNext]_allVars, part' = "attention" PROVE AttentionInv'
        BY DEF PartsNext
    <2>1. CASE PartsNext
        <3>1. part = "attention" /\ Attention!Next
            BY <2>1 DEF PartsNext
        <3>2. QED  BY <3>1, AttentionStep
    <2>2. CASE UNCHANGED allVars
        <3>1. UNCHANGED dressed /\ part = "attention"
            BY <2>2 DEF allVars
        <3>2. QED  BY <3>1 DEF dressed, AttentionInv, AttentionTypes, ClocksAgree
    <2>3. QED  BY <2>1, <2>2
<1>3. QED  BY <1>1, <1>2, PTL DEF PartsSpec

\* The menu bar is about now: what it wears, whenever it is dressed, is what the
\* samples since launch say of the episodes reported in this session, through
\* reports, dismissals, ejects and samples that could not say (note_memory_recovery,
\* look); between a dismissal or an eject and the next tick it may be late.
THEOREM TheFaceIsNow == PartsSpec => FaceIsNow
<1> DEFINE Inv == part = "attention" => AttentionInv
           Told == AttentionInv /\ face = Attention!FaceFor => Attention!Worn
           Now == part = "attention" => Attention!FaceIsNow
<1>1. Told
    BY ChosenIsWorn
<1>2. ASSUME Inv, Inv', Told', [PartsNext]_allVars PROVE [Now]_allVars
    <2> SUFFICES ASSUME PartsNext, part = "attention" PROVE Attention!FaceIsNow
        BY <1>2
    <2>1. Attention!Next /\ AttentionInv /\ AttentionInv'
        BY <1>2 DEF PartsNext
    <2>2. CASE \/ Attention!OnTick \/ Attention!SeeAlerts
               \/ \E to \in Attention!Prefs : Attention!SetTray(to)
        <3>1. face' = Attention!FaceFor'
            <4>1. Attention!SeeAlerts => face' = Attention!FaceFor'
                BY DEF Attention!SeeAlerts, Attention!FaceFor, Attention!MemoryNeedsAttention,
                       Attention!DiskNeedsAttention, Attention!TurnsTheFace,
                       Attention!RecoveredFor, Attention!Present
            <4>2. QED  BY <2>2, <4>1 DEF Attention!OnTick, Attention!SetTray
        <3>2. Attention!Worn'
            BY <1>2, <2>1, <3>1
        <3>3. QED  BY <3>2 DEF Attention!FaceIsNow
    <2>3. ASSUME NEW s \in Attention!Subjects, Attention!Drop(s) PROVE Attention!FaceIsNow
        <3>1. cards[s] # "none" /\ cards' = [cards EXCEPT ![s] = "none"] /\ wall' = wall
            BY <2>3 DEF Attention!Drop
        <3>2. cards'[s] = "none"
            BY <2>1, <2>3, <3>1 DEF AttentionInv, AttentionTypes
        <3>3. QED  BY <3>1, <3>2 DEF Attention!FaceIsNow
    <2>4. ASSUME NEW v \in Volumes, Attention!MarkEjected(v) PROVE Attention!FaceIsNow
        BY <2>4 DEF Attention!MarkEjected, Attention!FaceIsNow
    <2>5. QED  BY <2>1, <2>2, <2>3, <2>4 DEF Attention!Next
<1>3. QED  BY AttentionInductive, <1>1, <1>2, PTL DEF PartsSpec, FaceIsNow

----------------------------------------------------------------------------
(* The gates: the ration of an episode is the banners of it that went out.     *)

BannerTypes ==
    /\ now \in 0..HalfHours /\ muted \in BOOLEAN
    /\ snoozed \in [Sources -> Nat]
    /\ sent \in [Sources -> Seq(0..HalfHours)]
    /\ delivered \in [Sources -> Seq(0..HalfHours)]

\* What the ration still counts is what went out in the last window since the episode
\* was resumed, no more than it allows.
RationIsEarned ==
    \A e \in Sources :
        /\ Banners!Recent(sent[e]) = delivered[e]
        /\ Len(delivered[e]) <= NoisyAfter

BannersInv == BannerTypes /\ RationIsEarned

LEMMA BannersOnly == ASSUME NEW s, NEW T PROVE Banners!Only(s, T) = Only(s, T)
BY DEF Banners!Only, Only

\* What a list still counts, at its time and later.
LEMMA RecentFacts ==
    ASSUME BannersInv, NEW e \in Sources
    PROVE  /\ now \in Nat /\ now \in 0..HalfHours /\ NoisyAfter \in Nat
           /\ sent[e] \in Seq(0..HalfHours) /\ delivered[e] \in Seq(0..HalfHours)
           /\ Len(delivered[e]) \in Nat /\ Len(delivered[e]) <= NoisyAfter
           /\ Banners!Recent(sent[e]) = delivered[e]
           /\ Banners!Recent(delivered[e]) = delivered[e]
           /\ Banners!Recent(Append(delivered[e], now)) = Append(delivered[e], now)
<1>1. /\ now \in Nat /\ now \in 0..HalfHours /\ sent[e] \in Seq(0..HalfHours)
      /\ Banners!Recent(sent[e]) = delivered[e] /\ Len(delivered[e]) <= NoisyAfter
      /\ NoisyAfter \in Nat
    BY PartsAssumption DEF BannersInv, BannerTypes, RationIsEarned
<1>2. delivered[e] = Only(sent[e], Banners!Fresh(now))
    BY <1>1, BannersOnly DEF Banners!Recent
<1>3. /\ delivered[e] \in Seq(0..HalfHours)
      /\ \A i \in 1..Len(delivered[e]) : delivered[e][i] \in Banners!Fresh(now)
    BY <1>1, <1>2, OnlyIsAPart
<1>4. Only(delivered[e], Banners!Fresh(now)) = delivered[e]
    BY <1>3, OnlyOfAll
<1>5. now \in Banners!Fresh(now)
    BY <1>1, PartsAssumption DEF Banners!Fresh
<1>6. Only(Append(delivered[e], now), Banners!Fresh(now)) = Append(delivered[e], now)
    <2>1. ASSUME NEW s \in Seq(0..HalfHours), NEW x \in 0..HalfHours, NEW T
          PROVE  Only(Append(s, x), T) = IF x \in T THEN Append(Only(s, T), x) ELSE Only(s, T)
        BY OnlyOfMore
    <2> DEFINE s == delivered[e]
    <2>2. s \in Seq(0..HalfHours) /\ now \in 0..HalfHours
        BY <1>1, <1>3
    <2>3. Only(Append(s, now), Banners!Fresh(now)) = Append(Only(s, Banners!Fresh(now)), now)
        <3> HIDE DEF s
        <3>1. QED  BY <1>5, <2>1, <2>2
    <2>4. QED  BY <1>4, <2>3
<1>7. Len(delivered[e]) \in Nat
    BY <1>3
<1>8. QED  BY <1>1, <1>3, <1>4, <1>6, <1>7, BannersOnly DEF Banners!Recent

LEMMA BannersStart == Banners!Init => BannersInv
<1> SUFFICES ASSUME Banners!Init PROVE BannersInv
    OBVIOUS
<1>1. BannerTypes
    BY PartsAssumption DEF Banners!Init, BannerTypes
<1>2. ASSUME NEW e \in Sources
      PROVE  Banners!Recent(sent[e]) = delivered[e] /\ Len(delivered[e]) <= NoisyAfter
    <2>1. sent[e] = <<>> /\ delivered[e] = <<>>
        BY DEF Banners!Init
    <2>2. Only(<<>>, Banners!Fresh(now)) = <<>>
        BY OnlyOfNothing
    <2>3. Len(<<>>) = 0 /\ NoisyAfter \in Nat
        BY PartsAssumption
    <2>4. QED  BY <2>1, <2>2, <2>3, BannersOnly DEF Banners!Recent
<1>3. QED  BY <1>1, <1>2 DEF RationIsEarned, BannersInv

\* What the gates do with a report: the snooze is looked at where it stands, and the
\* ration takes the banner that goes out.
LEMMA GatesDo ==
    ASSUME BannersInv, NEW e \in Sources, Banners!Report(e)
    PROVE  /\ now' = now /\ muted' = muted
           /\ snoozed' \in [Sources -> Nat]
           /\ \A f \in Sources : f # e => sent'[f] = sent[f] /\ delivered'[f] = delivered[f]
           /\ sent' \in [Sources -> Seq(0..HalfHours)]
           /\ delivered' \in [Sources -> Seq(0..HalfHours)]
           /\ Banners!Recent(sent'[e]) = delivered'[e]
           /\ Len(delivered'[e]) <= NoisyAfter
           /\ verdict' = "delivered"
                  <=> ~muted /\ snoozed[e] <= now /\ Len(delivered[e]) < NoisyAfter
           /\ verdict' = "auto-quieted" => Len(delivered[e]) >= NoisyAfter
<1> DEFINE d == delivered[e]
           live == IF snoozed[e] > now THEN snoozed[e] ELSE 0
<1>1. /\ now \in Nat /\ now \in 0..HalfHours /\ NoisyAfter \in Nat
      /\ sent[e] \in Seq(0..HalfHours) /\ d \in Seq(0..HalfHours)
      /\ Len(d) \in Nat /\ Len(d) <= NoisyAfter
      /\ Banners!Recent(sent[e]) = d /\ Banners!Recent(d) = d
      /\ Banners!Recent(Append(d, now)) = Append(d, now)
    BY RecentFacts
<1>2. /\ muted \in BOOLEAN /\ snoozed \in [Sources -> Nat] /\ sent \in [Sources -> Seq(0..HalfHours)]
      /\ snoozed[e] \in Nat
    BY DEF BannersInv, BannerTypes
<1>3. delivered \in [Sources -> Seq(0..HalfHours)]
    BY DEF BannersInv, BannerTypes
<1>4. now' = now /\ muted' = muted
    BY DEF Banners!Report
<1>5. /\ Banners!LiveSnoozes \in [Sources -> Nat] /\ Banners!LiveSnoozes[e] = live
      /\ live # 0 <=> ~(snoozed[e] <= now)
    BY <1>1, <1>2 DEF Banners!LiveSnoozes
<1>6. delivered' = (IF verdict' = "delivered" THEN [delivered EXCEPT ![e] = Append(@, now)]
                    ELSE delivered)
    BY DEF Banners!Report
<1>7. CASE muted
    <2>1. verdict' = "muted" /\ snoozed' = snoozed /\ sent' = sent
        BY <1>7 DEF Banners!Report, Banners!Gates
    <2>2. verdict' # "delivered" /\ verdict' # "auto-quieted"
        BY <2>1
    <2>3. QED  BY <1>1, <1>2, <1>3, <1>4, <1>6, <1>7, <2>1, <2>2
<1>8. CASE ~muted /\ live # 0
    <2>1. verdict' = "snoozed" /\ snoozed' = Banners!LiveSnoozes /\ sent' = sent
        BY <1>5, <1>8 DEF Banners!Report, Banners!Gates, Banners!BannerSnoozed
    <2>2. verdict' # "delivered" /\ verdict' # "auto-quieted"
        BY <2>1
    <2>3. QED  BY <1>1, <1>2, <1>3, <1>4, <1>5, <1>6, <1>8, <2>1, <2>2
<1>9. CASE ~muted /\ live = 0
    <2>1. snoozed' = Banners!LiveSnoozes /\ Banners!BannerDamped(e)
        BY <1>5, <1>9 DEF Banners!Report, Banners!Gates, Banners!BannerSnoozed
    <2>2. /\ sent' = [sent EXCEPT ![e] = IF Len(d) >= NoisyAfter THEN d ELSE Append(d, now)]
          /\ verdict' = IF Len(d) >= NoisyAfter THEN "auto-quieted" ELSE "delivered"
        BY <1>1, <2>1 DEF Banners!BannerDamped
    <2>3. CASE Len(d) >= NoisyAfter
        <3>1. sent' = [sent EXCEPT ![e] = d] /\ verdict' = "auto-quieted" /\ delivered' = delivered
            BY <1>6, <2>2, <2>3
        <3>2. verdict' # "delivered" /\ ~(Len(d) < NoisyAfter)
            BY <1>1, <2>3, <3>1
        <3>3. sent'[e] = d /\ sent' \in [Sources -> Seq(0..HalfHours)]
            BY <1>1, <1>2, <3>1
        <3>4. \A f \in Sources : f # e => sent'[f] = sent[f] /\ delivered'[f] = delivered[f]
            BY <1>2, <3>1
        <3>5. Banners!Recent(sent'[e]) = delivered'[e]
            BY <1>1, <1>4, <3>1, <3>3
        <3>6. QED  BY <1>1, <1>3, <1>4, <1>5, <1>9, <2>1, <2>3, <3>1, <3>2, <3>3, <3>4, <3>5
    <2>4. CASE ~(Len(d) >= NoisyAfter)
        <3>1. /\ sent' = [sent EXCEPT ![e] = Append(d, now)] /\ verdict' = "delivered"
              /\ delivered' = [delivered EXCEPT ![e] = Append(d, now)]
            BY <1>6, <2>2, <2>4
        <3>2. Append(d, now) \in Seq(0..HalfHours) /\ Len(Append(d, now)) = Len(d) + 1
            BY <1>1
        <3>3. sent'[e] = Append(d, now) /\ sent' \in [Sources -> Seq(0..HalfHours)]
            BY <1>2, <3>1, <3>2
        <3>5. delivered'[e] = Append(d, now)
            BY <1>3, <3>1
        <3>6. \A f \in Sources : f # e => sent'[f] = sent[f] /\ delivered'[f] = delivered[f]
            BY <1>2, <1>3, <3>1
        <3>7. QED  BY <1>1, <1>3, <1>4, <1>5, <1>9, <2>1, <2>4, <3>1, <3>2, <3>3, <3>5, <3>6
    <2>5. QED  BY <2>3, <2>4
<1>10. QED  BY <1>2, <1>7, <1>8, <1>9

LEMMA BannersStep == ASSUME BannersInv, Banners!Next PROVE BannersInv'
<1>1. ASSUME NEW e \in Sources, Banners!Report(e) PROVE BannersInv'
    <2>1. /\ now' = now /\ muted' = muted
          /\ snoozed' \in [Sources -> Nat]
          /\ \A f \in Sources : f # e => sent'[f] = sent[f] /\ delivered'[f] = delivered[f]
          /\ sent' \in [Sources -> Seq(0..HalfHours)]
          /\ delivered' \in [Sources -> Seq(0..HalfHours)]
          /\ Banners!Recent(sent'[e]) = delivered'[e]
          /\ Len(delivered'[e]) <= NoisyAfter
        BY <1>1, GatesDo
    <2>2. BannerTypes'
        BY <2>1 DEF BannersInv, BannerTypes
    <2>3. ASSUME NEW f \in Sources
          PROVE  Only(sent'[f], Banners!Fresh(now')) = delivered'[f] /\ Len(delivered'[f]) <= NoisyAfter
        <3>1. Banners!Recent(sent[f]) = delivered[f] /\ Len(delivered[f]) <= NoisyAfter
            BY DEF BannersInv, RationIsEarned
        <3>2. Banners!Recent(sent'[f]) = delivered'[f] /\ Len(delivered'[f]) <= NoisyAfter
            BY <2>1, <3>1
        <3>3. QED  BY <2>1, <3>2, BannersOnly DEF Banners!Recent
    <2>4. RationIsEarned'
        BY <2>3, BannersOnly DEF RationIsEarned, Banners!Recent
    <2>5. QED  BY <2>2, <2>4 DEF BannersInv
<1>2. ASSUME NEW e \in Sources, Banners!ResumeBanners(e) PROVE BannersInv'
    <2>1. /\ snoozed' = [snoozed EXCEPT ![e] = 0]
          /\ sent' = [sent EXCEPT ![e] = <<>>] /\ delivered' = [delivered EXCEPT ![e] = <<>>]
          /\ now' = now /\ muted' = muted
        BY <1>2 DEF Banners!ResumeBanners
    <2>2. BannerTypes'
        BY <2>1 DEF BannersInv, BannerTypes
    <2>3. ASSUME NEW f \in Sources
          PROVE  Only(sent'[f], Banners!Fresh(now)) = delivered'[f] /\ Len(delivered'[f]) <= NoisyAfter
        <3>1. Only(sent[f], Banners!Fresh(now)) = delivered[f] /\ Len(delivered[f]) <= NoisyAfter
            BY BannersOnly DEF BannersInv, RationIsEarned, Banners!Recent
        <3>2. CASE f # e
            BY <2>1, <3>1, <3>2 DEF BannersInv, BannerTypes
        <3>3. CASE f = e
            <4>1. sent'[f] = <<>> /\ delivered'[f] = <<>>
                BY <2>1, <3>3 DEF BannersInv, BannerTypes
            <4>2. Only(<<>>, Banners!Fresh(now)) = <<>>
                BY OnlyOfNothing
            <4>3. Len(<<>>) = 0 /\ NoisyAfter \in Nat
                BY PartsAssumption
            <4>4. QED  BY <4>1, <4>2, <4>3
        <3>4. QED  BY <3>2, <3>3
    <2>4. RationIsEarned'
        BY <2>1, <2>3, BannersOnly DEF RationIsEarned, Banners!Recent, Banners!Fresh
    <2>5. QED  BY <2>2, <2>4 DEF BannersInv
<1>3. ASSUME NEW e \in Sources, NEW length \in SnoozeChoices, Banners!SnoozeBanners(e, length)
      PROVE  BannersInv'
    <2>1. /\ snoozed' = [snoozed EXCEPT ![e] = now + length]
          /\ sent' = sent /\ delivered' = delivered /\ now' = now /\ muted' = muted
        BY <1>3 DEF Banners!SnoozeBanners
    <2>2. now + length \in Nat
        BY PartsAssumption DEF BannersInv, BannerTypes
    <2>3. BannerTypes'
        BY <2>1, <2>2 DEF BannersInv, BannerTypes
    <2>4. RationIsEarned'
        BY <2>1 DEF BannersInv, RationIsEarned, Banners!Recent, Banners!Fresh
    <2>5. QED  BY <2>3, <2>4 DEF BannersInv
<1>4. CASE Banners!SetNotifications
    <2>1. /\ snoozed' = snoozed /\ muted' = ~muted
          /\ sent' = sent /\ delivered' = delivered /\ now' = now
        BY <1>4 DEF Banners!SetNotifications
    <2>2. BannerTypes'
        BY <2>1 DEF BannersInv, BannerTypes
    <2>3. RationIsEarned'
        BY <2>1 DEF BannersInv, RationIsEarned, Banners!Recent, Banners!Fresh
    <2>4. QED  BY <2>2, <2>3 DEF BannersInv
<1>5. CASE Banners!Tick
    <2>1. /\ now < HalfHours /\ now' = now + 1
          /\ delivered' = [e \in Sources |-> Only(delivered[e], Banners!Fresh(now'))]
          /\ muted' = muted /\ snoozed' = snoozed /\ sent' = sent
        BY <1>5, BannersOnly DEF Banners!Tick
    <2>2. now' \in 0..HalfHours /\ now \in Nat /\ now' \in Nat
        BY <2>1, PartsAssumption DEF BannersInv, BannerTypes
    <2>3. Banners!Fresh(now) \cap Banners!Fresh(now') = Banners!Fresh(now')
        BY <2>1, <2>2, PartsAssumption DEF Banners!Fresh
    <2>4. ASSUME NEW e \in Sources
          PROVE  /\ Only(sent'[e], Banners!Fresh(now')) = delivered'[e]
                 /\ Len(delivered'[e]) <= NoisyAfter /\ delivered'[e] \in Seq(0..HalfHours)
        <3>1. /\ sent[e] \in Seq(0..HalfHours) /\ delivered[e] \in Seq(0..HalfHours)
              /\ delivered[e] = Only(sent[e], Banners!Fresh(now))
              /\ Len(delivered[e]) <= NoisyAfter /\ Len(delivered[e]) \in Nat /\ NoisyAfter \in Nat
            BY RecentFacts, BannersOnly DEF Banners!Recent
        <3>2. delivered'[e] = Only(delivered[e], Banners!Fresh(now'))
            BY <2>1
        <3>3. Only(Only(sent[e], Banners!Fresh(now)), Banners!Fresh(now'))
                  = Only(sent[e], Banners!Fresh(now) \cap Banners!Fresh(now'))
            <4>1. \A T, U : Only(Only(sent[e], T), U) = Only(sent[e], T \cap U)
                BY <3>1, OnlyOfOnly
            <4>2. QED  BY <4>1
        <3>4. Only(sent'[e], Banners!Fresh(now')) = delivered'[e]
            BY <2>1, <2>3, <3>1, <3>2, <3>3
        <3>5. /\ delivered'[e] \in Seq(0..HalfHours) /\ Len(delivered'[e]) <= Len(delivered[e])
            BY <3>1, <3>2, OnlyIsAPart
        <3>6. Len(delivered'[e]) \in Nat
            BY <3>5
        <3>7. QED  BY <3>1, <3>4, <3>5, <3>6
    <2>5. BannerTypes'
        BY <2>1, <2>2, <2>4 DEF BannersInv, BannerTypes
    <2>6. RationIsEarned'
        BY <2>4, BannersOnly DEF RationIsEarned, Banners!Recent
    <2>7. QED  BY <2>5, <2>6 DEF BannersInv
<1>6. QED  BY <1>1, <1>2, <1>3, <1>4, <1>5 DEF Banners!Next

LEMMA BannersInductive == PartsSpec => [](part = "banners" => BannersInv)
<1> DEFINE Inv == part = "banners" => BannersInv
<1>1. PartsInit => Inv
    BY BannersStart DEF PartsInit
<1>2. Inv /\ [PartsNext]_allVars => Inv'
    <2> SUFFICES ASSUME Inv, [PartsNext]_allVars, part' = "banners" PROVE BannersInv'
        BY DEF PartsNext
    <2>1. CASE PartsNext
        <3>1. part = "banners" /\ Banners!Next
            BY <2>1 DEF PartsNext
        <3>2. QED  BY <3>1, BannersStep
    <2>2. CASE UNCHANGED allVars
        <3>1. UNCHANGED banners /\ part = "banners"
            BY <2>2 DEF allVars
        <3>2. QED  BY <3>1 DEF banners, BannersInv, BannerTypes, RationIsEarned,
                               Banners!Recent, Banners!Fresh
    <2>3. QED  BY <2>1, <2>2
<1>3. QED  BY <1>1, <1>2, PTL DEF PartsSpec

\* What the card says is what the gates do with the next report, and one is held back
\* as noisy only for banners of its own episode that went out within the window since
\* it was resumed (banner_snoozed, banner_damped, resume_banners).
THEOREM GatesAreAlwaysTold == PartsSpec => GatesAreTold
<1> DEFINE Inv == part = "banners" => BannersInv
<1>1. ASSUME Inv, [PartsNext]_allVars
      PROVE  [part = "banners" => Banners!GatesAreTold]_allVars
    <2> SUFFICES ASSUME part = "banners", NEW e \in Sources, Banners!Report(e)
                 PROVE  Banners!CardTellsTheGates(e) /\ Banners!QuietIsEarned(e)
        BY DEF Banners!GatesAreTold
    <2>1. BannersInv
        BY <1>1
    <2>2. /\ Len(delivered'[e]) <= NoisyAfter
          /\ verdict' = "delivered"
                 <=> ~muted /\ snoozed[e] <= now /\ Len(delivered[e]) < NoisyAfter
          /\ verdict' = "auto-quieted" => Len(delivered[e]) >= NoisyAfter
        BY <2>1, GatesDo
    <2>3. /\ Banners!Recent(sent[e]) = delivered[e] /\ Len(delivered[e]) \in Nat
          /\ NoisyAfter \in Nat /\ now \in Nat
        BY <2>1, RecentFacts
    <2>4. snoozed[e] \in Nat
        BY <2>1 DEF BannersInv, BannerTypes
    <2>5. snoozed[e] <= now <=> ~Banners!SaysSnoozed(e)
        BY <2>3, <2>4 DEF Banners!SaysSnoozed
    <2>6. Len(delivered[e]) < NoisyAfter <=> ~(Len(Banners!Recent(sent[e])) >= NoisyAfter)
        BY <2>3
    <2>7. Banners!CardTellsTheGates(e)
        BY <2>2, <2>5, <2>6 DEF Banners!CardTellsTheGates, Banners!SaysQuiet
    <2>8. Banners!QuietIsEarned(e)
        BY <2>2 DEF Banners!QuietIsEarned
    <2>9. QED  BY <2>7, <2>8
<1>2. QED  BY BannersInductive, <1>1, PTL DEF PartsSpec, GatesAreTold

----------------------------------------------------------------------------
(* The alert table: who still owes a word about the files.                     *)

JobsAt == {"off", "fetch", "write", "clear", "cleared", "reload", "land"}

\* The threads whose records a step changes a field of.
JobRecords == [at : JobsAt, text : Tables \cup {None}, says : Template!Outcomes,
               kept : Template!Checks]
ProbeRecords == [at : {"off", "fetch", "loaded", "record", "write", "land"},
                 text : Template!Overrides, says : Template!Outcomes, kept : Template!Checks,
                 remote : Tables \cup {None}]
ReaderRecords == [at : {"off", "loaded"}, text : Template!Overrides]

\* A job that wrote the file has yet to drop the reading and ask the collector.
Owes(j) ==
    \/ jobs[j].at = "reload"
    \/ jobs[j].at \in {"clear", "cleared"} /\ jobs[j].says = "updated"

\* The dot is late only while a thread that will set it is at work.
DotIsOwed ==
    dot # Template!Nudge(check) =>
        probe.at = "land" \/ \E j \in Jobs : jobs[j].at \in {"reload", "land"}

\* Who holds a reading of the check file holds what it says.
WavedIsHeld ==
    ~crossed =>
        /\ check.ignored = waved
        /\ \A j \in Jobs : jobs[j].at = "cleared" => jobs[j].kept = check
        /\ probe.at = "write" => probe.kept = check
        /\ ~Template!Unlocked => ignoring = check

EngineIsOwed ==
    file # Broken /\ Template!Live(file) # {engine} => asked \/ \E j \in Jobs : Owes(j)

\* And who holds one of the table's file holds what that says.
CacheIsOwed ==
    ~straddled =>
        /\ cache # None /\ cache # Template!Shown(file) => \E j \in Jobs : Owes(j)
        /\ probe.at = "loaded" => probe.text = file
        /\ \A r \in Readers : readers[r].at = "loaded" => readers[r].text = file

TemplateInv == Template!TypeOK /\ DotIsOwed /\ WavedIsHeld /\ EngineIsOwed /\ CacheIsOwed

LEMMA TemplateHolds == TemplateInv => Template!TableIsTold
<1> SUFFICES ASSUME TemplateInv PROVE Template!TableIsTold
    OBVIOUS
<1>1. Template!DotFollowsFile
    BY DEF TemplateInv, DotIsOwed, Template!DotFollowsFile, Template!Quiet
<1>2. Template!WavedStaysAway
    BY DEF TemplateInv, WavedIsHeld, Template!WavedStaysAway
<1>3. Template!EngineFollowsFile
    BY DEF TemplateInv, EngineIsOwed, Owes, Template!EngineFollowsFile
<1>4. Template!CacheFollowsFile
    BY DEF TemplateInv, CacheIsOwed, Owes, Template!CacheFollowsFile
<1>5. QED  BY <1>1, <1>2, <1>3, <1>4 DEF Template!TableIsTold, Template!OffersAreRemembered,
                                         Template!TableIsInForce

LEMMA RecordTypes ==
    /\ Template!NoCheck \in Template!Checks
    /\ Template!Idle \in JobRecords /\ Template!NoProbe \in ProbeRecords
    /\ Template!NotReading \in ReaderRecords
    /\ \A c \in Template!Checks :
          [c EXCEPT !.offered = None] \in Template!Checks
          /\ [c EXCEPT !.offered = None].ignored = c.ignored
          /\ [c EXCEPT !.ignored = c.offered] \in Template!Checks
BY DEF Template!NoCheck, Template!Checks, Template!Idle, JobRecords, JobsAt, Template!NoProbe,
       ProbeRecords, Template!NotReading, ReaderRecords, Template!Overrides, Template!Outcomes

LEMMA TemplateStarts == Template!Init => TemplateInv
<1> SUFFICES ASSUME Template!Init PROVE TemplateInv
    OBVIOUS
<1>1. /\ published \in Tables /\ builtin \in Tables
      /\ file \in Template!Overrides /\ check = Template!NoCheck
      /\ cache = None /\ asked = FALSE /\ dot = FALSE /\ sync = "none"
      /\ engine \in IF file = Broken THEN {None} ELSE Template!Live(file)
      /\ jobs = [j \in Jobs |-> Template!Idle] /\ probe = Template!NoProbe
      /\ readers = [r \in Readers |-> Template!NotReading] /\ ignoring = Template!NoCheck
      /\ events = 0 /\ waved = None /\ crossed = FALSE /\ straddled = FALSE
    BY DEF Template!Init
<1>2. engine \in Tables \cup {None}
    BY <1>1 DEF Template!Live, Template!Overrides
<1>3. /\ jobs \in [Jobs -> JobRecords] /\ probe \in ProbeRecords
      /\ readers \in [Readers -> ReaderRecords] /\ check \in Template!Checks
    BY <1>1, RecordTypes
<1>4. events \in 0..MaxEvents
    BY <1>1, PartsAssumption
<1>5. Template!TypeOK
    BY <1>1, <1>2, <1>3, <1>4
       DEF Template!TypeOK, JobRecords, JobsAt, ProbeRecords, ReaderRecords
<1>6. \A j \in Jobs : jobs[j].at = "off"
    BY <1>1 DEF Template!Idle
<1>7. DotIsOwed
    BY <1>1 DEF DotIsOwed, Template!Nudge, Template!NoCheck
<1>8. WavedIsHeld
    BY <1>1, <1>6 DEF WavedIsHeld, Template!NoCheck, Template!NoProbe, Template!Unlocked
<1>9. EngineIsOwed
    BY <1>1 DEF EngineIsOwed, Template!Live
<1>10. CacheIsOwed
    BY <1>1, <1>6 DEF CacheIsOwed, Template!NoProbe, Template!NotReading
<1>11. QED  BY <1>5, <1>7, <1>8, <1>9, <1>10 DEF TemplateInv

LEMMA TemplateTypes == ASSUME Template!TypeOK, Template!Next PROVE Template!TypeOK'
<1> USE DEF Template!outside, Template!disk, Template!store, Template!threads, Template!history
<1>1. /\ published \in Tables \cup {Unusable} /\ builtin \in Tables
      /\ file \in Template!Overrides /\ check \in Template!Checks
      /\ cache \in Tables \cup {None} /\ engine \in Tables \cup {None}
      /\ asked \in BOOLEAN /\ dot \in BOOLEAN
      /\ jobs \in [Jobs -> JobRecords] /\ probe \in ProbeRecords
      /\ readers \in [Readers -> ReaderRecords]
      /\ ignoring \in {Template!NoCheck} \cup Template!Checks /\ ignoring \in Template!Checks
      /\ events \in 0..MaxEvents
      /\ waved \in Tables \cup {None} /\ crossed \in BOOLEAN /\ straddled \in BOOLEAN
      /\ sync \in Template!Outcomes \cup {"none", "running", "reverted", "nothing"}
    BY RecordTypes DEF Template!TypeOK, JobRecords, JobsAt, ProbeRecords, ReaderRecords
<1>2. ASSUME Template!Spend PROVE events' \in 0..MaxEvents
    BY <1>1, <1>2, PartsAssumption DEF Template!Spend
<1>3. ASSUME NEW override \in Template!Overrides
      PROVE  Template!Shown(override) \in Tables
    BY <1>1 DEF Template!Shown, Template!Overrides
<1>4. \A c : Template!Nudge(c) \in BOOLEAN
    BY DEF Template!Nudge
<1>5. \A who, new : Template!WriteCheck(who, new) => check' = new /\ crossed' \in BOOLEAN
    BY <1>1 DEF Template!WriteCheck
<1>6. \A new : Template!WriteFile(new) => file' = new /\ straddled' \in BOOLEAN
    BY <1>1 DEF Template!WriteFile
<1>7. ASSUME NEW j \in Jobs, NEW to \in JobRecords, Template!Move(j, to)
      PROVE  jobs' \in [Jobs -> JobRecords]
    BY <1>1, <1>7 DEF Template!Move
<1>8. ASSUME NEW j \in Jobs
      PROVE  /\ jobs[j] \in JobRecords
             /\ \A at \in JobsAt, says \in Template!Outcomes, kept \in Template!Checks :
                   /\ [jobs[j] EXCEPT !.at = at] \in JobRecords
                   /\ [jobs[j] EXCEPT !.at = at, !.says = says] \in JobRecords
                   /\ [jobs[j] EXCEPT !.at = at, !.kept = kept] \in JobRecords
                   /\ [Template!Idle EXCEPT !.at = at, !.says = says] \in JobRecords
                   /\ [Template!Idle EXCEPT !.at = at] \in JobRecords
             /\ \A text \in Tables : [jobs[j] EXCEPT !.at = "write", !.text = text] \in JobRecords
    BY <1>1, RecordTypes DEF JobRecords, JobsAt
<1>9. /\ {"failed", "unusable", "current", "updated"} = Template!Outcomes
      /\ \A at \in {"fetch", "write", "clear", "cleared", "reload", "land"} : at \in JobsAt
    BY DEF Template!Outcomes, JobsAt
<1> DEFINE SameTypes ==
        /\ published' \in Tables \cup {Unusable} /\ builtin' \in Tables
        /\ engine' \in Tables \cup {None}
        /\ readers' \in [Readers -> ReaderRecords]
        /\ ignoring' \in {Template!NoCheck} \cup Template!Checks
        /\ waved' \in Tables \cup {None}
<1>10. ASSUME NEW j \in Jobs, Template!JobStep(j) PROVE Template!TypeOK'
    <2>1. /\ SameTypes /\ probe' \in ProbeRecords
        BY <1>1, <1>10
           DEF Template!JobStep, Template!Update, Template!Compare, Template!Write,
               Template!ClearOffer, Template!Cleared, Template!Reload, Template!Land
    <2>2. jobs' \in [Jobs -> JobRecords]
        <3>1. CASE Template!Update(j) \/ Template!Land(j)
            BY <1>7, <1>8, <1>9, <3>1, RecordTypes DEF Template!Update, Template!Land
        <3>2. CASE Template!Compare(j)
            <4>1. Template!Fetched(j, published) \in JobRecords
                BY <1>1, <1>8, <1>9 DEF Template!Fetched
            <4>2. [jobs[j] EXCEPT !.at = "land", !.says = "failed"] \in JobRecords
                BY <1>1 DEF JobRecords, JobsAt, Template!Outcomes
            <4>3. PICK to \in JobRecords : Template!Move(j, to)
                BY <3>2, <4>1, <4>2 DEF Template!Compare
            <4>4. QED  BY <1>7, <4>3
        <3>3. CASE Template!Write(j)
            <4>1. /\ [Template!Idle EXCEPT !.at = "clear", !.says = "updated"] \in JobRecords
                  /\ [jobs[j] EXCEPT !.at = "land", !.says = "failed"] \in JobRecords
                BY <1>1, RecordTypes DEF JobRecords, JobsAt, Template!Outcomes
            <4>2. PICK to \in JobRecords : Template!Move(j, to)
                BY <3>3, <4>1 DEF Template!Write
            <4>3. QED  BY <1>7, <4>2
        <3>4. CASE Template!ClearOffer(j)
            BY <1>1, <1>7, <1>8, <1>9, <3>4 DEF Template!ClearOffer
        <3>5. CASE Template!Cleared(j)
            <4>1. Template!AfterClear(jobs[j]) \in JobsAt
                BY <1>9 DEF Template!AfterClear
            <4>2. Template!NoCheck \in Template!Checks
                BY RecordTypes
            <4>3. [jobs[j] EXCEPT !.at = Template!AfterClear(jobs[j]), !.kept = Template!NoCheck]
                      \in JobRecords
                BY <1>1, <4>1, <4>2 DEF JobRecords
            <4>4. PICK to \in JobRecords : Template!Move(j, to)
                BY <3>5, <4>3 DEF Template!Cleared
            <4>5. QED  BY <1>7, <4>4
        <3>6. CASE Template!Reload(j)
            <4>1. [jobs[j] EXCEPT !.at = "land"] \in JobRecords
                BY <1>1, <1>9, <3>6, RecordTypes DEF JobRecords
            <4>2. PICK to \in JobRecords : Template!Move(j, to)
                BY <3>6, <4>1 DEF Template!Reload
            <4>3. QED  BY <1>7, <4>2
        <3>7. QED  BY <1>10, <3>1, <3>2, <3>3, <3>4, <3>5, <3>6 DEF Template!JobStep
    <2>3. file' \in Template!Overrides /\ straddled' \in BOOLEAN
        <3>1. CASE Template!Write(j)
            <4>1. jobs[j].text \in Template!Overrides
                BY <1>8 DEF JobRecords, Template!Overrides
            <4>2. QED  BY <1>1, <1>6, <3>1, <4>1 DEF Template!Write
        <3>2. CASE ~Template!Write(j)
            BY <1>1, <1>10, <3>2
               DEF Template!JobStep, Template!Update, Template!Compare,
                   Template!ClearOffer, Template!Cleared, Template!Reload, Template!Land
        <3>3. QED  BY <3>1, <3>2
    <2>4. check' \in Template!Checks /\ crossed' \in BOOLEAN
        <3>1. CASE Template!Cleared(j)
            <4>1. jobs[j].kept \in Template!Checks
                BY <1>8 DEF JobRecords
            <4>2. [jobs[j].kept EXCEPT !.offered = None] \in Template!Checks
                BY <4>1, RecordTypes
            <4>3. CASE jobs[j].kept.offered = None
                BY <1>1, <3>1, <4>3 DEF Template!Cleared
            <4>4. CASE jobs[j].kept.offered # None
                <5>1. Template!WriteCheck(j, [jobs[j].kept EXCEPT !.offered = None])
                    BY <3>1, <4>4 DEF Template!Cleared
                <5>2. QED  BY <1>5, <4>2, <5>1
            <4>5. QED  BY <4>3, <4>4
        <3>2. CASE ~Template!Cleared(j)
            BY <1>1, <1>10, <3>2
               DEF Template!JobStep, Template!Update, Template!Compare,
                   Template!ClearOffer, Template!Write, Template!Reload, Template!Land
        <3>3. QED  BY <3>1, <3>2
    <2>5. events' \in 0..MaxEvents
        BY <1>1, <1>2, <1>10
           DEF Template!JobStep, Template!Update, Template!Compare, Template!Write,
               Template!ClearOffer, Template!Cleared, Template!Reload, Template!Land
    <2>6. cache' \in Tables \cup {None} /\ asked' \in BOOLEAN
        BY <1>1, <1>10
           DEF Template!JobStep, Template!Update, Template!Compare, Template!Write,
               Template!ClearOffer, Template!Cleared, Template!Reload, Template!Land
    <2>7. dot' \in BOOLEAN /\ sync' \in Template!Outcomes \cup {"none", "running", "reverted", "nothing"}
        <3>1. jobs[j].says \in Template!Outcomes
            BY <1>8 DEF JobRecords
        <3>2. QED
            BY <1>1, <1>4, <1>10, <3>1
               DEF Template!JobStep, Template!Update, Template!Compare, Template!Write,
                   Template!ClearOffer, Template!Cleared, Template!Reload, Template!Land
    <2>8. QED
        BY <2>1, <2>2, <2>3, <2>4, <2>5, <2>6, <2>7
           DEF Template!TypeOK, JobRecords, JobsAt, ProbeRecords, ReaderRecords
<1>11. ASSUME Template!ProbeStep PROVE Template!TypeOK'
    <2> USE DEF Template!ProbeStep, Template!ProbeStart, Template!ProbeAsk, Template!ProbeCaches,
                Template!ProbeRecords, Template!ProbeWrites, Template!ProbeLands
    <2>1. /\ SameTypes /\ jobs' \in [Jobs -> JobRecords] /\ file' \in Template!Overrides
          /\ asked' \in BOOLEAN /\ straddled' \in BOOLEAN
          /\ sync' \in Template!Outcomes \cup {"none", "running", "reverted", "nothing"}
        BY <1>1, <1>11
    <2>2. dot' \in BOOLEAN /\ events' \in 0..MaxEvents
        BY <1>1, <1>2, <1>4, <1>11
    <2>3. probe.text \in Template!Overrides /\ probe.kept \in Template!Checks
          /\ probe.remote \in Tables \cup {None}
        BY <1>1 DEF ProbeRecords
    <2>4. cache' \in Tables \cup {None}
        BY <1>1, <1>3, <1>11, <2>3
    <2>5. Template!Fold \in Template!Checks
        BY <2>3 DEF Template!Fold, Template!Checks
    <2>6. check' \in Template!Checks /\ crossed' \in BOOLEAN
        BY <1>1, <1>5, <1>11, <2>5
    <2>7. probe' \in ProbeRecords
        <3>1. \A a, b : Template!Verdict(a, b) \in Template!Outcomes
            BY DEF Template!Verdict, Template!Outcomes
        <3>2. CASE Template!ProbeStart \/ Template!ProbeWrites \/ Template!ProbeLands
            BY <3>2, RecordTypes DEF ProbeRecords
        <3>3. CASE Template!ProbeAsk
            <4>1. published # Unusable => published \in Tables
                BY <1>1
            <4>2. "failed" \in Template!Outcomes /\ "unusable" \in Template!Outcomes
                BY <1>9
            <4>3. CASE probe' = [probe EXCEPT !.at = "record", !.says = "failed"]
                       \/ probe' = [probe EXCEPT !.at = "record", !.says = "unusable"]
                BY <1>1, <4>2, <4>3 DEF ProbeRecords
            <4>4. CASE published # Unusable
                       /\ probe' = [probe EXCEPT !.at = "record", !.remote = published,
                                                 !.says = Template!Verdict(cache, published)]
                BY <1>1, <3>1, <4>1, <4>4 DEF ProbeRecords
            <4>5. CASE published # Unusable
                       /\ probe' = [probe EXCEPT !.at = "loaded", !.remote = published,
                                                 !.text = file]
                BY <1>1, <4>1, <4>5 DEF ProbeRecords
            <4>6. QED  BY <3>3, <4>3, <4>4, <4>5
        <3>4. CASE Template!ProbeCaches
            BY <1>1, <3>1, <3>4 DEF ProbeRecords, Template!Overrides
        <3>5. CASE Template!ProbeRecords
            BY <1>1, <3>5 DEF ProbeRecords
        <3>6. QED  BY <1>11, <3>2, <3>3, <3>4, <3>5
    <2>8. QED
        BY <2>1, <2>2, <2>4, <2>6, <2>7
           DEF Template!TypeOK, JobRecords, JobsAt, ProbeRecords, ReaderRecords
<1>12. ASSUME NEW r \in Readers, Template!Read(r) \/ Template!Caches(r) PROVE Template!TypeOK'
    <2>1. /\ jobs' \in [Jobs -> JobRecords] /\ file' \in Template!Overrides
          /\ asked' \in BOOLEAN /\ straddled' \in BOOLEAN /\ dot' \in BOOLEAN
          /\ sync' \in Template!Outcomes \cup {"none", "running", "reverted", "nothing"}
          /\ check' \in Template!Checks /\ crossed' \in BOOLEAN /\ events' \in 0..MaxEvents
          /\ probe' \in ProbeRecords
        BY <1>1, <1>12 DEF Template!Read, Template!Caches
    <2>2. readers' \in [Readers -> ReaderRecords]
        <3>1. [at |-> "loaded", text |-> file] \in ReaderRecords
            BY <1>1 DEF ReaderRecords
        <3>2. QED  BY <1>1, <1>12, <3>1, RecordTypes DEF Template!Read, Template!Caches
    <2>3. cache' \in Tables \cup {None}
        <3>1. readers[r].text \in Template!Overrides
            BY <1>1 DEF ReaderRecords
        <3>2. QED  BY <1>1, <1>3, <1>12, <3>1 DEF Template!Read, Template!Caches
    <2>4. SameTypes
        BY <1>1, <1>12, <2>2 DEF Template!Read, Template!Caches
    <2>5. QED
        BY <2>1, <2>2, <2>3, <2>4
           DEF Template!TypeOK, JobRecords, JobsAt, ProbeRecords, ReaderRecords
<1>13. CASE Template!IgnoreOffer \/ Template!Ignored \/ Template!UseBuiltin
    <2> USE DEF Template!IgnoreOffer, Template!Ignored, Template!UseBuiltin
    <2>1. /\ jobs' \in [Jobs -> JobRecords] /\ probe' \in ProbeRecords
          /\ readers' \in [Readers -> ReaderRecords] /\ events' \in 0..MaxEvents
          /\ published' \in Tables \cup {Unusable} /\ builtin' \in Tables
          /\ engine' \in Tables \cup {None} /\ cache' \in Tables \cup {None}
          /\ asked' \in BOOLEAN /\ ignoring' \in Template!Checks
        BY <1>1, <1>13, RecordTypes
    <2>2. sync' \in Template!Outcomes \cup {"none", "running", "reverted", "nothing"}
        BY <1>1, <1>13
    <2>3. dot' \in BOOLEAN
        BY <1>1, <1>4, <1>13
    <2>4. file' \in Template!Overrides /\ straddled' \in BOOLEAN
        BY <1>1, <1>6, <1>13 DEF Template!Overrides
    <2>5. check' \in Template!Checks /\ crossed' \in BOOLEAN
        <3>1. CASE Template!Ignored
            <4>1. [ignoring EXCEPT !.ignored = ignoring.offered] \in Template!Checks
                BY <1>1, RecordTypes
            <4>2. Template!WriteCheck("ignore", [ignoring EXCEPT !.ignored = ignoring.offered])
                BY <3>1
            <4>3. QED  BY <1>5, <4>1, <4>2
        <3>2. CASE ~Template!Ignored
            BY <1>1, <1>13, <3>2
        <3>3. QED  BY <3>1, <3>2
    <2>6. waved' \in Tables \cup {None}
        BY <1>1, <1>13 DEF Template!Checks
    <2>7. QED
        BY <2>1, <2>2, <2>3, <2>4, <2>5, <2>6
           DEF Template!TypeOK, JobRecords, JobsAt, ProbeRecords, ReaderRecords
<1>14. CASE Template!CollectorReloads \/ Template!Publish
    <2>1. /\ jobs' \in [Jobs -> JobRecords] /\ probe' \in ProbeRecords
          /\ readers' \in [Readers -> ReaderRecords]
          /\ published' \in Tables \cup {Unusable} /\ builtin' \in Tables
          /\ cache' \in Tables \cup {None} /\ file' \in Template!Overrides
          /\ asked' \in BOOLEAN /\ ignoring' \in Template!Checks /\ dot' \in BOOLEAN
          /\ check' \in Template!Checks /\ crossed' \in BOOLEAN /\ straddled' \in BOOLEAN
          /\ waved' \in Tables \cup {None}
          /\ sync' \in Template!Outcomes \cup {"none", "running", "reverted", "nothing"}
        BY <1>1, <1>14 DEF Template!CollectorReloads, Template!Publish
    <2>2. events' \in 0..MaxEvents
        BY <1>1, <1>2, <1>14 DEF Template!CollectorReloads, Template!Publish
    <2>3. engine' \in Tables \cup {None}
        <3>1. file # Broken => Template!Live(file) \subseteq Tables
            BY <1>1 DEF Template!Live, Template!Overrides
        <3>2. QED  BY <1>1, <1>14, <3>1 DEF Template!CollectorReloads, Template!Publish
    <2>4. QED
        BY <2>1, <2>2, <2>3
           DEF Template!TypeOK, JobRecords, JobsAt, ProbeRecords, ReaderRecords
<1>15. CASE Template!Restart
    <2>1. /\ builtin' \in Tables /\ published' = published /\ file' = file
          /\ cache' = None /\ asked' = FALSE /\ sync' = "none" /\ ignoring' = Template!NoCheck
          /\ jobs' = [j \in Jobs |-> Template!Idle] /\ probe' = Template!NoProbe
          /\ readers' = [r \in Readers |-> Template!NotReading]
          /\ crossed' = crossed /\ straddled' = straddled
        BY <1>15 DEF Template!Restart
    <2>2. /\ jobs' \in [Jobs -> JobRecords] /\ probe' \in ProbeRecords
          /\ readers' \in [Readers -> ReaderRecords]
        BY <2>1, RecordTypes
    <2>3. /\ check' \in Template!Checks /\ dot' \in BOOLEAN /\ waved' \in Tables \cup {None}
        BY <1>1, <1>4, <1>15, RecordTypes DEF Template!Restart
    <2>4. engine' \in Tables \cup {None}
        BY <1>1, <1>15, <2>1 DEF Template!Restart, Template!Overrides
    <2>5. events' \in 0..MaxEvents
        BY <1>2, <1>15 DEF Template!Restart
    <2>6. QED
        BY <1>1, <2>1, <2>2, <2>3, <2>4, <2>5
           DEF Template!TypeOK, JobRecords, JobsAt, ProbeRecords, ReaderRecords
<1>16. QED  BY <1>10, <1>11, <1>12, <1>13, <1>14, <1>15 DEF Template!Next

\* A step leaves another job what it is.
LEMMA OthersWait ==
    ASSUME Template!TypeOK, NEW j \in Jobs, Template!JobStep(j), NEW k \in Jobs, k # j
    PROVE  jobs'[k] = jobs[k]
BY DEF Template!JobStep, Template!Update, Template!Compare, Template!Write, Template!ClearOffer,
       Template!Cleared, Template!Reload, Template!Land, Template!Move, Template!TypeOK

\* What a job's own step makes of it.
LEMMA OwnStep ==
    ASSUME Template!TypeOK, NEW j \in Jobs
    PROVE  /\ Template!Write(j) => \/ jobs'[j].at = "clear" /\ jobs'[j].says = "updated"
                                   \/ jobs'[j].at = "land" /\ file' = file
           /\ Template!ClearOffer(j) => jobs'[j].at = "cleared" /\ jobs'[j].says = jobs[j].says
                                        /\ jobs'[j].kept = check
           /\ Template!Cleared(j) => jobs'[j].at = Template!AfterClear(jobs[j])
           /\ Template!Reload(j) => jobs'[j].at = "land"
           /\ Template!Update(j) => jobs'[j].at = "fetch"
           /\ Template!Compare(j) => jobs'[j].at \in {"clear", "write", "land"}
           /\ Template!Land(j) => jobs'[j].at = "off"
<1>1. jobs \in [Jobs -> JobRecords]
    BY DEF Template!TypeOK, JobRecords, JobsAt
<1>2. \A to : Template!Move(j, to) => jobs'[j] = to
    BY <1>1 DEF Template!Move
<1>3. DOMAIN jobs[j] = {"at", "text", "says", "kept"}
    BY <1>1 DEF JobRecords
<1>4. Template!Write(j) => \/ jobs'[j].at = "clear" /\ jobs'[j].says = "updated"
                           \/ jobs'[j].at = "land" /\ file' = file
    BY <1>2, <1>3 DEF Template!Write, Template!Idle
<1>5. Template!ClearOffer(j) => jobs'[j].at = "cleared" /\ jobs'[j].says = jobs[j].says
                                /\ jobs'[j].kept = check
    BY <1>1, <1>2, <1>3 DEF Template!ClearOffer, JobRecords
<1>6. Template!Cleared(j) => jobs'[j].at = Template!AfterClear(jobs[j])
    BY <1>2, <1>3 DEF Template!Cleared
<1>7. /\ Template!Reload(j) => jobs'[j].at = "land"
      /\ Template!Update(j) => jobs'[j].at = "fetch"
      /\ Template!Land(j) => jobs'[j].at = "off"
    BY <1>2, <1>3 DEF Template!Reload, Template!Update, Template!Land, Template!Idle
<1>8. Template!Compare(j) => jobs'[j].at \in {"clear", "write", "land"}
    BY <1>2, <1>3 DEF Template!Compare, Template!Fetched
<1>9. QED  BY <1>4, <1>5, <1>6, <1>7, <1>8

LEMMA DotStep == ASSUME TemplateInv, Template!Next PROVE DotIsOwed'
<1> USE DEF Template!outside, Template!disk, Template!store, Template!threads, Template!history
<1> DEFINE Lands(j) == jobs[j].at \in {"reload", "land"}
           Right == dot = Template!Nudge(check)
<1>1. Template!TypeOK /\ (Right \/ probe.at = "land" \/ \E j \in Jobs : Lands(j))
    BY DEF TemplateInv, DotIsOwed
<1> SUFFICES Right' \/ (probe.at = "land")' \/ \E j \in Jobs : Lands(j)'
    BY DEF DotIsOwed
<1>2. ASSUME NEW j \in Jobs, Template!JobStep(j)
      PROVE  Right' \/ (probe.at = "land")' \/ \E k \in Jobs : Lands(k)'
    <2>1. \A k \in Jobs : k # j => (Lands(k) <=> Lands(k)')
        BY <1>1, <1>2, OthersWait
    <2>2. CASE Template!Land(j)
        <3>1. dot' = Template!Nudge(check) /\ check' = check
            BY <2>2 DEF Template!Land
        <3>2. Right'
            BY <3>1 DEF Template!Nudge
        <3>3. QED  BY <3>2
    <2>3. CASE Template!Reload(j)
        BY <1>1, <2>3, OwnStep
    <2>4. CASE Template!Cleared(j)
        BY <1>1, <2>4, OwnStep DEF Template!AfterClear
    <2>5. CASE Template!Update(j) \/ Template!Compare(j) \/ Template!Write(j) \/ Template!ClearOffer(j)
        <3>1. ~Lands(j)
            BY <2>5 DEF Template!Update, Template!Compare, Template!Write, Template!ClearOffer
        <3>2. dot' = dot /\ check' = check /\ probe' = probe
            BY <2>5 DEF Template!Update, Template!Compare, Template!Write, Template!ClearOffer
        <3>3. Right => Right'
            BY <3>2 DEF Template!Nudge
        <3>4. QED  BY <1>1, <2>1, <3>1, <3>2, <3>3
    <2>6. QED  BY <1>2, <2>2, <2>3, <2>4, <2>5 DEF Template!JobStep
<1>3. ASSUME Template!ProbeStep
      PROVE  Right' \/ (probe.at = "land")' \/ \E k \in Jobs : Lands(k)'
    <2>1. CASE Template!ProbeWrites
        BY <2>1 DEF Template!ProbeWrites, Template!NoProbe
    <2>2. CASE Template!ProbeLands
        <3>1. dot' = Template!Nudge(check) /\ check' = check
            BY <2>2 DEF Template!ProbeLands
        <3>2. Right'
            BY <3>1 DEF Template!Nudge
        <3>3. QED  BY <3>2
    <2>3. CASE Template!ProbeStart \/ Template!ProbeAsk \/ Template!ProbeCaches \/ Template!ProbeRecords
        <3>1. probe.at # "land" /\ dot' = dot /\ check' = check /\ jobs' = jobs
            BY <2>3 DEF Template!ProbeStart, Template!ProbeAsk, Template!ProbeCaches,
                        Template!ProbeRecords
        <3>2. Right => Right'
            BY <3>1 DEF Template!Nudge
        <3>3. QED  BY <1>1, <3>1, <3>2
    <2>4. QED  BY <1>3, <2>1, <2>2, <2>3 DEF Template!ProbeStep
<1>4. CASE Template!Ignored \/ Template!UseBuiltin \/ Template!Restart
    <2>1. dot' = Template!Nudge(check')
        BY <1>4 DEF Template!Ignored, Template!UseBuiltin, Template!Restart, Template!WriteCheck
    <2>2. Right'
        BY <2>1 DEF Template!Nudge
    <2>3. QED  BY <2>2
<1>5. CASE \/ \E r \in Readers : Template!Read(r) \/ Template!Caches(r)
           \/ Template!IgnoreOffer \/ Template!CollectorReloads \/ Template!Publish
    <2>1. dot' = dot /\ check' = check /\ probe' = probe /\ jobs' = jobs
        BY <1>5 DEF Template!Read, Template!Caches, Template!IgnoreOffer,
                    Template!CollectorReloads, Template!Publish
    <2>2. Right => Right'
        BY <2>1 DEF Template!Nudge
    <2>3. QED  BY <1>1, <2>1, <2>2
<1>6. QED  BY <1>2, <1>3, <1>4, <1>5 DEF Template!Next

\* Writing the check file while no one else holds a reading of it.
LEMMA AloneAtTheCheck ==
    ASSUME NEW who, NEW new, Template!WriteCheck(who, new), ~crossed'
    PROVE  /\ ~crossed /\ check' = new
           /\ \A j \in Jobs : j # who => jobs[j].at # "cleared"
           /\ who # "probe" => probe.at # "write"
           /\ who # "ignore" => Template!Unlocked
BY DEF Template!WriteCheck, Template!Holding

LEMMA WavedStep == ASSUME TemplateInv, Template!Next PROVE WavedIsHeld'
<1> USE DEF Template!outside, Template!disk, Template!store, Template!threads, Template!history
<1> SUFFICES ASSUME ~crossed'
             PROVE  /\ check'.ignored = waved'
                    /\ \A j \in Jobs : jobs'[j].at = "cleared" => jobs'[j].kept = check'
                    /\ probe'.at = "write" => probe'.kept = check'
                    /\ ignoring' # Template!NoCheck => ignoring' = check'
    BY DEF WavedIsHeld, Template!Unlocked
<1>1. /\ Template!TypeOK /\ check \in Template!Checks
      /\ ~crossed =>
            /\ check.ignored = waved
            /\ \A j \in Jobs : jobs[j].at = "cleared" => jobs[j].kept = check
            /\ probe.at = "write" => probe.kept = check
            /\ ignoring # Template!NoCheck => ignoring = check
    BY DEF TemplateInv, WavedIsHeld, Template!TypeOK, Template!Unlocked
<1> DEFINE Same == check' = check /\ waved' = waved /\ crossed' = crossed
<1>2. ASSUME NEW j \in Jobs, Template!JobStep(j)
      PROVE  /\ check'.ignored = waved'
             /\ \A k \in Jobs : jobs'[k].at = "cleared" => jobs'[k].kept = check'
             /\ probe'.at = "write" => probe'.kept = check'
             /\ ignoring' # Template!NoCheck => ignoring' = check'
    <2>1. \A k \in Jobs : k # j => jobs'[k] = jobs[k]
        BY <1>1, <1>2, OthersWait
    <2>2. probe' = probe /\ ignoring' = ignoring /\ waved' = waved
        BY <1>2 DEF Template!JobStep, Template!Update, Template!Compare, Template!Write,
                    Template!ClearOffer, Template!Cleared, Template!Reload, Template!Land
    <2>3. CASE Template!Cleared(j)
        <3>1. jobs'[j].at # "cleared"
            BY <1>1, <2>3, OwnStep DEF Template!AfterClear
        <3>2. CASE jobs[j].kept.offered = None
            <4>1. Same
                BY <2>3, <3>2 DEF Template!Cleared
            <4>2. QED  BY <1>1, <2>1, <2>2, <3>1, <4>1
        <3>3. CASE jobs[j].kept.offered # None
            <4>1. Template!WriteCheck(j, [jobs[j].kept EXCEPT !.offered = None])
                  /\ jobs[j].at = "cleared"
                BY <2>3, <3>3 DEF Template!Cleared
            <4>2. j # "probe" /\ j # "ignore"
                BY PartsAssumption
            <4>3. /\ ~crossed /\ check' = [jobs[j].kept EXCEPT !.offered = None]
                  /\ \A k \in Jobs : k # j => jobs[k].at # "cleared"
                  /\ probe.at # "write" /\ ignoring = Template!NoCheck
                BY <4>1, <4>2, AloneAtTheCheck DEF Template!Unlocked
            <4>4. check'.ignored = waved'
                BY <1>1, <2>2, <4>1, <4>3, RecordTypes
            <4>5. QED  BY <2>1, <2>2, <3>1, <4>3, <4>4
        <3>4. QED  BY <3>2, <3>3
    <2>4. CASE Template!ClearOffer(j)
        <3>1. Same
            BY <2>4 DEF Template!ClearOffer
        <3>2. jobs'[j].kept = check
            BY <1>1, <2>4, OwnStep
        <3>3. QED  BY <1>1, <2>1, <2>2, <3>1, <3>2
    <2>5. CASE ~Template!Cleared(j) /\ ~Template!ClearOffer(j)
        <3>1. Same
            BY <1>2, <2>5 DEF Template!JobStep, Template!Update, Template!Compare, Template!Write,
                              Template!Reload, Template!Land
        <3>2. jobs'[j].at # "cleared"
            BY <1>1, <1>2, <2>5, OwnStep DEF Template!JobStep
        <3>3. QED  BY <1>1, <2>1, <2>2, <3>1, <3>2
    <2>6. QED  BY <2>3, <2>4, <2>5
<1>3. ASSUME Template!ProbeStep
      PROVE  /\ check'.ignored = waved'
             /\ \A k \in Jobs : jobs'[k].at = "cleared" => jobs'[k].kept = check'
             /\ probe'.at = "write" => probe'.kept = check'
             /\ ignoring' # Template!NoCheck => ignoring' = check'
    <2>1. jobs' = jobs /\ ignoring' = ignoring /\ waved' = waved
        BY <1>3 DEF Template!ProbeStep, Template!ProbeStart, Template!ProbeAsk,
                    Template!ProbeCaches, Template!ProbeRecords, Template!ProbeWrites,
                    Template!ProbeLands
    <2>2. probe \in ProbeRecords
        BY <1>1 DEF Template!TypeOK, ProbeRecords
    <2>3. CASE Template!ProbeWrites
        <3>1. Template!WriteCheck("probe", Template!Fold) /\ probe.at = "write" /\ probe'.at = "land"
            BY <2>3 DEF Template!ProbeWrites, Template!NoProbe
        <3>2. "probe" \notin Jobs
            BY PartsAssumption
        <3>3. /\ ~crossed /\ check' = Template!Fold
              /\ \A k \in Jobs : jobs[k].at # "cleared"
              /\ ignoring = Template!NoCheck
            BY <3>1, <3>2, AloneAtTheCheck DEF Template!Unlocked
        <3>4. probe.kept = check
            BY <1>1, <3>1, <3>3
        <3>5. Template!Fold.ignored = check.ignored
            BY <1>1, <3>4 DEF Template!Fold, Template!Checks
        <3>6. QED  BY <1>1, <2>1, <3>1, <3>3, <3>5
    <2>4. CASE Template!ProbeRecords
        <3>1. Same /\ probe' = [probe EXCEPT !.at = "write", !.kept = check]
            BY <2>4 DEF Template!ProbeRecords
        <3>2. probe'.kept = check
            BY <2>2, <3>1 DEF ProbeRecords
        <3>3. QED  BY <1>1, <2>1, <3>1, <3>2
    <2>5. CASE Template!ProbeStart \/ Template!ProbeAsk \/ Template!ProbeCaches \/ Template!ProbeLands
        <3>1. Same
            BY <2>5 DEF Template!ProbeStart, Template!ProbeAsk, Template!ProbeCaches,
                        Template!ProbeLands
        <3>2. probe'.at # "write"
            <4>1. CASE Template!ProbeStart \/ Template!ProbeLands
                BY <4>1 DEF Template!ProbeStart, Template!ProbeLands, Template!NoProbe
            <4>2. CASE Template!ProbeAsk
                BY <2>2, <4>2 DEF Template!ProbeAsk, ProbeRecords
            <4>3. CASE Template!ProbeCaches
                BY <2>2, <4>3 DEF Template!ProbeCaches, ProbeRecords
            <4>4. QED  BY <2>5, <4>1, <4>2, <4>3
        <3>3. QED  BY <1>1, <2>1, <3>1, <3>2
    <2>6. QED  BY <1>3, <2>3, <2>4, <2>5 DEF Template!ProbeStep
<1>4. CASE Template!Ignored
    <2> DEFINE new == [ignoring EXCEPT !.ignored = ignoring.offered]
    <2>1. /\ Template!WriteCheck("ignore", new) /\ waved' = new.ignored
          /\ ignoring' = Template!NoCheck /\ jobs' = jobs /\ probe' = probe
        BY <1>4 DEF Template!Ignored
    <2>2. "ignore" \notin Jobs
        BY PartsAssumption
    <2>3. /\ check' = new /\ \A k \in Jobs : jobs[k].at # "cleared"
          /\ probe.at # "write"
        BY <2>1, <2>2, AloneAtTheCheck
    <2> HIDE DEF new
    <2>4. QED  BY <2>1, <2>3
<1>5. CASE Template!IgnoreOffer
    <2>1. Same /\ ignoring' = check /\ jobs' = jobs /\ probe' = probe
        BY <1>5 DEF Template!IgnoreOffer
    <2>2. QED  BY <1>1, <2>1
<1>6. CASE Template!Restart
    <2>1. /\ \/ check' = check /\ waved' = waved
             \/ check' = Template!NoCheck /\ (waved' = None \/ check' = check)
          /\ check' = check => waved' = waved
          /\ crossed' = crossed /\ ignoring' = Template!NoCheck
          /\ jobs' = [j \in Jobs |-> Template!Idle] /\ probe' = Template!NoProbe
        BY <1>6 DEF Template!Restart
    <2>2. Template!NoCheck.ignored = None
        BY DEF Template!NoCheck
    <2>3. check'.ignored = waved'
        BY <1>1, <2>1, <2>2
    <2>4. \A j \in Jobs : jobs'[j].at # "cleared"
        BY <2>1 DEF Template!Idle
    <2>5. probe'.at # "write"
        BY <2>1 DEF Template!NoProbe
    <2>6. QED  BY <2>1, <2>3, <2>4, <2>5
<1>7. CASE \/ \E r \in Readers : Template!Read(r) \/ Template!Caches(r)
           \/ Template!UseBuiltin \/ Template!CollectorReloads \/ Template!Publish
    <2>1. Same /\ probe' = probe /\ jobs' = jobs /\ ignoring' = ignoring
        BY <1>7 DEF Template!Read, Template!Caches, Template!UseBuiltin,
                    Template!CollectorReloads, Template!Publish
    <2>2. QED  BY <1>1, <2>1
<1>8. QED  BY <1>2, <1>3, <1>4, <1>5, <1>6, <1>7 DEF Template!Next

\* A job that owes a word owes it until it drops the reading and asks the collector.
LEMMA OwesUntilReload ==
    ASSUME Template!TypeOK, NEW j \in Jobs, Template!JobStep(j)
    PROVE  /\ Template!Reload(j) \/ \A k \in Jobs : Owes(k) => Owes(k)'
           /\ Template!Write(j) => Owes(j)' \/ file' = file
<1>1. \A k \in Jobs : k # j => (Owes(k) => Owes(k)')
    BY OthersWait DEF Owes
<1>2. Owes(j) => Template!Reload(j) \/ Owes(j)'
    <2>1. CASE Template!ClearOffer(j)
        BY <2>1, OwnStep DEF Owes, Template!ClearOffer
    <2>2. CASE Template!Cleared(j)
        <3>1. jobs[j].at = "cleared" /\ jobs'[j].at = Template!AfterClear(jobs[j])
            BY <2>2, OwnStep DEF Template!Cleared
        <3>2. QED  BY <3>1 DEF Owes, Template!AfterClear
    <2>3. CASE Template!Update(j) \/ Template!Compare(j) \/ Template!Write(j) \/ Template!Land(j)
        BY <2>3 DEF Owes, Template!Update, Template!Compare, Template!Write, Template!Land
    <2>4. QED  BY <2>1, <2>2, <2>3 DEF Template!JobStep
<1>3. Template!Write(j) => Owes(j)' \/ file' = file
    BY OwnStep DEF Owes
<1>4. QED  BY <1>1, <1>2, <1>3

LEMMA EngineStep == ASSUME TemplateInv, Template!Next PROVE EngineIsOwed'
<1> USE DEF Template!outside, Template!disk, Template!store, Template!threads, Template!history
<1> DEFINE Follows == file # Broken => Template!Live(file) = {engine}
           Owed == asked \/ \E j \in Jobs : Owes(j)
<1>1. Template!TypeOK /\ (Follows \/ Owed)
    BY DEF TemplateInv, EngineIsOwed
<1> SUFFICES Follows' \/ Owed'
    BY DEF EngineIsOwed
<1>2. ASSUME NEW j \in Jobs, Template!JobStep(j) PROVE Follows' \/ Owed'
    <2>1. builtin' = builtin /\ engine' = engine
        BY <1>2 DEF Template!JobStep, Template!Update, Template!Compare, Template!Write,
                    Template!ClearOffer, Template!Cleared, Template!Reload, Template!Land
    <2>2. CASE Template!Reload(j)
        BY <2>2 DEF Template!Reload
    <2>3. CASE ~Template!Reload(j)
        <3>1. /\ \A k \in Jobs : Owes(k) => Owes(k)'
              /\ Template!Write(j) => Owes(j)' \/ file' = file
            BY <1>1, <1>2, <2>3, OwesUntilReload
        <3>2. asked' = asked
            BY <1>2, <2>3
               DEF Template!JobStep, Template!Update, Template!Compare, Template!Write,
                   Template!ClearOffer, Template!Cleared, Template!Land
        <3>3. ~Template!Write(j) => file' = file
            BY <1>2 DEF Template!JobStep, Template!Update, Template!Compare,
                        Template!ClearOffer, Template!Cleared, Template!Reload, Template!Land
        <3>4. file' = file /\ Follows => Follows'
            BY <2>1 DEF Template!Live
        <3>5. QED  BY <1>1, <3>1, <3>2, <3>3, <3>4
    <2>4. QED  BY <2>2, <2>3
<1>3. CASE Template!UseBuiltin
    <2>1. /\ asked' = TRUE \/ (file' = file /\ asked' = asked)
          /\ builtin' = builtin /\ engine' = engine /\ jobs' = jobs
        BY <1>3 DEF Template!UseBuiltin
    <2>2. file' = file /\ Follows => Follows'
        BY <2>1 DEF Template!Live
    <2>3. (\E j \in Jobs : Owes(j)) => \E j \in Jobs : Owes(j)'
        BY <2>1 DEF Owes
    <2>4. QED  BY <1>1, <2>1, <2>2, <2>3
<1>4. CASE Template!CollectorReloads
    <2>1. /\ file' = file /\ builtin' = builtin
          /\ file # Broken => engine' \in Template!Live(file)
        BY <1>4 DEF Template!CollectorReloads
    <2>2. file # Broken => \A t \in Template!Live(file) : Template!Live(file) = {t}
        BY DEF Template!Live
    <2>3. Template!Live(file') = Template!Live(file) => Follows'
        BY <2>1, <2>2 DEF Template!Live
    <2>4. QED  BY <2>1, <2>3 DEF Template!Live
<1>5. CASE Template!Restart
    <2>1. /\ file' = file
          /\ file = None => engine' = builtin'
          /\ file # None /\ file # Broken => engine' = file
        BY <1>5, PartsAssumption DEF Template!Restart
    <2>2. Follows'
        BY <2>1 DEF Template!Live
    <2>3. QED  BY <2>2
<1>6. CASE \/ Template!ProbeStep \/ Template!IgnoreOffer \/ Template!Ignored \/ Template!Publish
           \/ \E r \in Readers : Template!Read(r) \/ Template!Caches(r)
    <2>1. /\ asked' = asked /\ file' = file /\ builtin' = builtin /\ engine' = engine
          /\ jobs' = jobs
        BY <1>6 DEF Template!ProbeStep, Template!ProbeStart, Template!ProbeAsk,
                    Template!ProbeCaches, Template!ProbeRecords, Template!ProbeWrites,
                    Template!ProbeLands, Template!IgnoreOffer, Template!Ignored,
                    Template!Publish, Template!Read, Template!Caches
    <2>2. Follows => Follows'
        BY <2>1 DEF Template!Live
    <2>3. (\E j \in Jobs : Owes(j)) => \E j \in Jobs : Owes(j)'
        BY <2>1 DEF Owes
    <2>4. QED  BY <1>1, <2>1, <2>2, <2>3
<1>7. QED  BY <1>2, <1>3, <1>4, <1>5, <1>6 DEF Template!Next

LEMMA CacheStep == ASSUME TemplateInv, Template!Next PROVE CacheIsOwed'
<1> USE DEF Template!outside, Template!disk, Template!store, Template!threads, Template!history
<1> DEFINE Fresh == cache = None \/ cache = Template!Shown(file)
           Owed == \E j \in Jobs : Owes(j)
           ProbeHas == probe.at = "loaded" => probe.text = file
           ReadersHave == \A r \in Readers : readers[r].at = "loaded" => readers[r].text = file
           Kept == (Fresh \/ Owed) /\ ProbeHas /\ ReadersHave
<1>1. Template!TypeOK /\ (~straddled => Kept)
    BY DEF TemplateInv, CacheIsOwed
<1> SUFFICES ASSUME ~straddled' PROVE Kept'
    BY DEF CacheIsOwed
<1>2. readers \in [Readers -> ReaderRecords] /\ probe \in ProbeRecords
    BY <1>1 DEF Template!TypeOK, ReaderRecords, ProbeRecords
<1>3. ASSUME NEW new, Template!WriteFile(new)
      PROVE  ~straddled /\ probe.at # "loaded" /\ \A r \in Readers : readers[r].at # "loaded"
    BY <1>3 DEF Template!WriteFile
<1>4. ASSUME NEW j \in Jobs, Template!JobStep(j) PROVE Kept'
    <2>1. builtin' = builtin /\ probe' = probe /\ readers' = readers
        BY <1>4 DEF Template!JobStep, Template!Update, Template!Compare, Template!Write,
                    Template!ClearOffer, Template!Cleared, Template!Reload, Template!Land
    <2>2. CASE Template!Reload(j)
        <3>1. cache' = None /\ file' = file /\ straddled' = straddled
            BY <2>2 DEF Template!Reload
        <3>2. Fresh'
            BY <3>1
        <3>3. ProbeHas' /\ ReadersHave'
            BY <1>1, <2>1, <3>1
        <3>4. QED  BY <3>2, <3>3
    <2>3. CASE Template!Write(j) /\ file' # file
        <3>1. Owes(j)'
            BY <1>1, <1>4, <2>3, OwesUntilReload
        <3>2. Template!WriteFile(jobs[j].text)
            BY <2>3 DEF Template!Write
        <3>3. ProbeHas' /\ ReadersHave'
            BY <1>3, <2>1, <3>2
        <3>4. QED  BY <3>1, <3>3
    <2>4. CASE ~Template!Reload(j) /\ file' = file
        <3>1. \A k \in Jobs : Owes(k) => Owes(k)'
            BY <1>1, <1>4, <2>4, OwesUntilReload
        <3>2. cache' = cache
            BY <1>4, <2>4
               DEF Template!JobStep, Template!Update, Template!Compare, Template!Write,
                   Template!ClearOffer, Template!Cleared, Template!Land
        <3>3. Fresh => Fresh'
            BY <2>1, <2>4, <3>2 DEF Template!Shown
        <3>4. ~straddled
            <4>1. CASE Template!Write(j)
                BY <1>3, <4>1 DEF Template!Write
            <4>2. CASE ~Template!Write(j)
                BY <1>4, <4>2
                   DEF Template!JobStep, Template!Update, Template!Compare,
                       Template!ClearOffer, Template!Cleared, Template!Reload, Template!Land
            <4>3. QED  BY <4>1, <4>2
        <3>5. ProbeHas' /\ ReadersHave'
            BY <1>1, <2>1, <2>4, <3>4
        <3>6. QED  BY <1>1, <3>1, <3>3, <3>4, <3>5
    <2>5. ~Template!Write(j) => file' = file
        BY <1>4 DEF Template!JobStep, Template!Update, Template!Compare,
                    Template!ClearOffer, Template!Cleared, Template!Reload, Template!Land
    <2>6. QED  BY <2>2, <2>3, <2>4, <2>5
<1>5. CASE Template!UseBuiltin
    <2>1. builtin' = builtin /\ probe' = probe /\ readers' = readers /\ jobs' = jobs
        BY <1>5 DEF Template!UseBuiltin
    <2>2. CASE Template!WriteFile(None) /\ cache' = None
        <3>1. Fresh'
            BY <2>2
        <3>2. ProbeHas' /\ ReadersHave'
            BY <1>3, <2>1, <2>2
        <3>3. QED  BY <3>1, <3>2
    <2>3. CASE file' = file /\ straddled' = straddled /\ cache' = cache
        <3>1. Fresh => Fresh'
            BY <2>1, <2>3 DEF Template!Shown
        <3>2. ProbeHas' /\ ReadersHave'
            BY <1>1, <2>1, <2>3
        <3>3. Owed => Owed'
            BY <2>1 DEF Owes
        <3>4. QED  BY <1>1, <2>3, <3>1, <3>2, <3>3
    <2>4. QED  BY <1>5, <2>2, <2>3 DEF Template!UseBuiltin
<1>6. ASSUME Template!ProbeStep PROVE Kept'
    <2>1. /\ builtin' = builtin /\ readers' = readers /\ jobs' = jobs /\ file' = file
          /\ straddled' = straddled
        BY <1>6 DEF Template!ProbeStep, Template!ProbeStart, Template!ProbeAsk,
                    Template!ProbeCaches, Template!ProbeRecords, Template!ProbeWrites,
                    Template!ProbeLands
    <2>2. Kept
        BY <1>1, <2>1
    <2>3. ReadersHave' /\ (Owed => Owed')
        BY <2>1, <2>2 DEF Owes
    <2>4. Fresh \/ Owed => Fresh' \/ Owed'
        <3>1. CASE Template!ProbeCaches
            <4>1. cache' = Template!Shown(probe.text) /\ probe.text = file
                BY <2>2, <3>1 DEF Template!ProbeCaches
            <4>2. Fresh'
                BY <2>1, <4>1 DEF Template!Shown
            <4>3. QED  BY <4>2
        <3>2. CASE ~Template!ProbeCaches
            <4>1. cache' = cache
                BY <1>6, <3>2
                   DEF Template!ProbeStep, Template!ProbeStart, Template!ProbeAsk,
                       Template!ProbeRecords, Template!ProbeWrites, Template!ProbeLands
            <4>2. Fresh => Fresh'
                BY <2>1, <4>1 DEF Template!Shown
            <4>3. QED  BY <2>3, <4>2
        <3>3. QED  BY <3>1, <3>2
    <2>5. ProbeHas'
        <3>1. CASE Template!ProbeAsk
            BY <1>2, <2>1, <3>1 DEF Template!ProbeAsk, ProbeRecords
        <3>2. CASE ~Template!ProbeAsk
            <4>1. CASE Template!ProbeStart \/ Template!ProbeWrites \/ Template!ProbeLands
                BY <4>1 DEF Template!ProbeStart, Template!ProbeWrites, Template!ProbeLands,
                            Template!NoProbe
            <4>2. CASE Template!ProbeCaches
                BY <1>2, <4>2 DEF Template!ProbeCaches, ProbeRecords
            <4>3. CASE Template!ProbeRecords
                BY <1>2, <4>3 DEF Template!ProbeRecords, ProbeRecords
            <4>4. QED  BY <1>6, <3>2, <4>1, <4>2, <4>3 DEF Template!ProbeStep
        <3>3. QED  BY <3>1, <3>2
    <2>6. QED  BY <2>2, <2>3, <2>4, <2>5
<1>7. ASSUME NEW r \in Readers, Template!Read(r) \/ Template!Caches(r) PROVE Kept'
    <2>1. /\ builtin' = builtin /\ probe' = probe /\ jobs' = jobs /\ file' = file
          /\ straddled' = straddled
        BY <1>7 DEF Template!Read, Template!Caches
    <2>2. Kept
        BY <1>1, <2>1
    <2>3. ProbeHas' /\ (Owed => Owed')
        BY <2>1, <2>2 DEF Owes
    <2>4. CASE Template!Read(r)
        <3>1. cache' = cache /\ readers' = [readers EXCEPT ![r] = [at |-> "loaded", text |-> file]]
            BY <2>4 DEF Template!Read
        <3>2. Fresh => Fresh'
            BY <2>1, <3>1 DEF Template!Shown
        <3>3. ReadersHave'
            BY <1>2, <2>1, <2>2, <3>1
        <3>4. QED  BY <2>2, <2>3, <3>2, <3>3
    <2>5. CASE Template!Caches(r)
        <3>1. /\ readers[r].at = "loaded" /\ cache' = Template!Shown(readers[r].text)
              /\ readers' = [readers EXCEPT ![r] = Template!NotReading]
            BY <2>5 DEF Template!Caches
        <3>2. readers[r].text = file
            BY <2>2, <3>1
        <3>3. Fresh'
            BY <2>1, <3>1, <3>2 DEF Template!Shown
        <3>4. ReadersHave'
            BY <1>2, <2>1, <2>2, <3>1 DEF Template!NotReading
        <3>5. QED  BY <2>3, <3>3, <3>4
    <2>6. QED  BY <1>7, <2>4, <2>5
<1>8. CASE Template!Restart
    <2>1. /\ cache' = None /\ probe' = Template!NoProbe
          /\ readers' = [r \in Readers |-> Template!NotReading]
        BY <1>8 DEF Template!Restart
    <2>2. Fresh'
        BY <2>1
    <2>3. ProbeHas' /\ ReadersHave'
        BY <2>1 DEF Template!NoProbe, Template!NotReading
    <2>4. QED  BY <2>2, <2>3
<1>9. CASE \/ Template!IgnoreOffer \/ Template!Ignored \/ Template!CollectorReloads
           \/ Template!Publish
    <2>1. /\ builtin' = builtin /\ readers' = readers /\ jobs' = jobs /\ file' = file
          /\ straddled' = straddled /\ probe' = probe /\ cache' = cache
        BY <1>9 DEF Template!IgnoreOffer, Template!Ignored, Template!CollectorReloads,
                    Template!Publish
    <2>2. Fresh => Fresh'
        BY <2>1 DEF Template!Shown
    <2>3. Owed => Owed'
        BY <2>1 DEF Owes
    <2>4. ProbeHas' /\ ReadersHave'
        BY <1>1, <2>1
    <2>5. QED  BY <1>1, <2>1, <2>2, <2>3, <2>4
<1>10. QED  BY <1>4, <1>5, <1>6, <1>7, <1>8, <1>9 DEF Template!Next

LEMMA TemplateInductive == PartsSpec => [](part = "template" => TemplateInv)
<1> DEFINE Inv == part = "template" => TemplateInv
<1>1. PartsInit => Inv
    BY TemplateStarts DEF PartsInit
<1>2. Inv /\ [PartsNext]_allVars => Inv'
    <2> SUFFICES ASSUME Inv, [PartsNext]_allVars, part' = "template" PROVE TemplateInv'
        BY DEF PartsNext
    <2>1. CASE PartsNext
        <3>1. part = "template" /\ Template!Next /\ TemplateInv
            BY <2>1 DEF PartsNext
        <3>2. Template!TypeOK'
            BY <3>1, TemplateTypes DEF TemplateInv
        <3>3. QED  BY <3>1, <3>2, DotStep, WavedStep, EngineStep, CacheStep DEF TemplateInv
    <2>2. CASE UNCHANGED allVars
        <3>1. UNCHANGED table /\ TemplateInv
            BY <2>2 DEF allVars
        <3>2. /\ published' = published /\ builtin' = builtin /\ file' = file /\ check' = check
              /\ cache' = cache /\ engine' = engine /\ asked' = asked /\ dot' = dot
              /\ sync' = sync /\ jobs' = jobs /\ probe' = probe /\ readers' = readers
              /\ ignoring' = ignoring /\ events' = events /\ waved' = waved
              /\ crossed' = crossed /\ straddled' = straddled
            BY <3>1 DEF table
        <3>3. Template!TypeOK'
            BY <3>1, <3>2 DEF TemplateInv, Template!TypeOK
        <3>4. DotIsOwed' /\ WavedIsHeld'
            BY <3>1, <3>2 DEF TemplateInv, DotIsOwed, WavedIsHeld, Template!Nudge, Template!Unlocked
        <3>5. EngineIsOwed' /\ CacheIsOwed'
            BY <3>1, <3>2 DEF TemplateInv, EngineIsOwed, CacheIsOwed, Owes, Template!Live,
                              Template!Shown
        <3>6. QED  BY <3>3, <3>4, <3>5 DEF TemplateInv
    <2>3. QED  BY <2>1, <2>2
<1>3. QED  BY <1>1, <1>2, PTL DEF PartsSpec

\* What the dot, the card and the collector say is what the two files hold, whichever
\* of the threads that write them wrote last, for any number of updates, probes and
\* readers at once: late only while one of them still owes its word, and a waved offer
\* back only where two were at the check file at once (alerttpl.rs).
THEOREM TableIsAlwaysTold == PartsSpec => []TableIsTold
<1>1. (part = "template" => TemplateInv) => TableIsTold
    BY TemplateHolds DEF TableIsTold
<1>2. QED  BY TemplateInductive, <1>1, PTL
===============================================================================
