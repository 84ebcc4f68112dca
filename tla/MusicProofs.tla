----------------------------- MODULE MusicProofs -----------------------------
(***************************************************************************)
(* The jukebox and the lists of songs of an area, for any lists of the     *)
(* server, any names and any number of songs.                              *)
(***************************************************************************)
EXTENDS Music, SequenceTheorems, WellFoundedInduction, TLAPS

(* A set of numbers with 0 and every successor of its own holds all. *)
LEMMA Induction ==
  ASSUME NEW T, 0 \in T, \A n \in Nat : n \in T => n + 1 \in T
  PROVE  Nat \subseteq T
<1> DEFINE Rest == Nat \ T
           Less == OpToRel(<, Nat)
<1>1. IsWellFoundedOn(Less, Nat)
  BY NatLessThanWellFounded
<1>2. \A x, y \in Nat : <<y, x>> \in Less <=> y < x
  BY DEF OpToRel
<1> HIDE DEF Less
<1>3. ASSUME Rest # {} PROVE FALSE
  <2>1. PICK n \in Rest : \A m \in Rest : ~(<<m, n>> \in Less)
    <3>1. Rest \in SUBSET Nat
      OBVIOUS
    <3> HIDE DEF Rest
    <3> QED
      BY <1>1, <1>3, <3>1, WFMin
  <2>2. n \in Nat /\ n # 0 /\ n - 1 \in Nat /\ n - 1 < n
    OBVIOUS
  <2>3. n - 1 \in T
    BY <1>2, <2>1, <2>2
  <2> QED
    BY <2>2, <2>3
<1> QED
  BY <1>3

(* Kept returns what stands at the positions asked for, in its order. *)
LEMMA KeptResult ==
  ASSUME NEW S, NEW s \in Seq(S), NEW P \in SUBSET (1..Len(s))
  PROVE  /\ Kept(s, P) \in Seq(S)
         /\ \E g \in [1..Len(Kept(s, P)) -> P] :
              /\ \A k \in 1..Len(Kept(s, P)) : Kept(s, P)[k] = s[g[k]]
              /\ \A k, l \in 1..Len(Kept(s, P)) : k < l => g[k] < g[l]
              /\ \A n \in P : \E k \in 1..Len(Kept(s, P)) : g[k] = n
<1> DEFINE
      Step(f, n) == IF n = 0 THEN <<>>
                    ELSE IF n \in P THEN Append(f[n - 1], s[n]) ELSE f[n - 1]
      Rec(f, m) == f = [n \in 0..m |-> Step(f, n)]
      OK(r, n) ==
        /\ r \in Seq(S)
        /\ \E g \in [1..Len(r) -> P] :
             /\ \A k \in 1..Len(r) : r[k] = s[g[k]] /\ g[k] <= n
             /\ \A k, l \in 1..Len(r) : k < l => g[k] < g[l]
             /\ \A i \in P : i <= n => \E k \in 1..Len(r) : g[k] = i
<1>1. /\ Len(s) \in Nat /\ \A n \in 1..Len(s) : s[n] \in S
      /\ \A i \in P : i \in 1..Len(s) /\ i \in Int
  BY LenProperties, ElementOfSeq
<1>2. OK(<<>>, 0)
  <2> DEFINE g == [k \in 1..0 |-> k]
  <2>1. <<>> \in Seq(S) /\ Len(<<>>) = 0
    BY EmptySeq
  <2>2. g \in [1..0 -> P] /\ \A k \in 1..0 : FALSE
    OBVIOUS
  <2>3. \A i \in P : ~(i <= 0)
    BY <1>1
  <2> HIDE DEF g
  <2> QED
    BY <2>1, <2>2, <2>3
<1>3. ASSUME NEW n \in 1..Len(s), NEW r, OK(r, n - 1)
      PROVE  OK(IF n \in P THEN Append(r, s[n]) ELSE r, n)
  <2>1. r \in Seq(S) /\ Len(r) \in Nat
    BY <1>3, LenProperties
  <2>2. PICK g \in [1..Len(r) -> P] :
          /\ \A k \in 1..Len(r) : r[k] = s[g[k]] /\ g[k] <= n - 1
          /\ \A k, l \in 1..Len(r) : k < l => g[k] < g[l]
          /\ \A i \in P : i <= n - 1 => \E k \in 1..Len(r) : g[k] = i
    BY <1>3
  <2>3. CASE n \notin P
    <3>1. ASSUME NEW k \in 1..Len(r) PROVE g[k] \in Int
      <4>1. g[k] \in P
        OBVIOUS
      <4> QED
        BY <1>1, <4>1
    <3>2. \A i \in P : i <= n => i <= n - 1
      BY <1>1, <2>3
    <3>3. \A k \in 1..Len(r) : r[k] = s[g[k]] /\ g[k] <= n
      BY <2>2, <3>1
    <3> QED
      BY <2>1, <2>2, <2>3, <3>2, <3>3
  <2>4. CASE n \in P
    <3> DEFINE q == Append(r, s[n])
               h == [k \in 1..Len(q) |-> IF k <= Len(r) THEN g[k] ELSE n]
    <3>1. /\ q \in Seq(S) /\ Len(q) = Len(r) + 1
          /\ \A k \in 1..Len(r) : q[k] = r[k]
          /\ q[Len(r) + 1] = s[n]
      BY <1>1, <2>1, AppendProperties
    <3> HIDE DEF q
    <3>2. h \in [1..Len(q) -> P]
      BY <2>1, <2>2, <2>4, <3>1
    <3>3. ASSUME NEW k \in 1..Len(r)
          PROVE  g[k] \in 1..Len(s) /\ k \in 1..Len(q) /\ h[k] = g[k]
      <4>1. g[k] \in P
        OBVIOUS
      <4>2. k \in 1..Len(q) /\ k <= Len(r)
        BY <2>1, <3>1
      <4> QED
        BY <1>1, <4>1, <4>2
    <3>4. Len(q) \in 1..Len(q) /\ h[Len(q)] = n /\ q[Len(q)] = s[n]
      BY <2>1, <3>1
    <3>5. \A k \in 1..Len(q) : k \in 1..Len(r) \/ k = Len(q)
      BY <2>1, <3>1
    <3> HIDE DEF h
    <3>6. \A k \in 1..Len(q) : q[k] = s[h[k]] /\ h[k] <= n
      BY <1>1, <2>2, <3>1, <3>3, <3>4, <3>5
    <3>7. ASSUME NEW k \in 1..Len(q), NEW l \in 1..Len(q), k < l PROVE h[k] < h[l]
      <4>1. k \in 1..Len(r)
        BY <2>1, <3>1, <3>7
      <4>2. CASE l \in 1..Len(r)
        BY <2>2, <3>3, <3>7, <4>1, <4>2
      <4>3. CASE l = Len(q)
        BY <1>1, <2>2, <3>3, <3>4, <4>1, <4>3
      <4> QED
        BY <3>5, <4>2, <4>3
    <3>8. ASSUME NEW i \in P, i <= n PROVE \E k \in 1..Len(q) : h[k] = i
      <4>1. CASE i = n
        BY <3>4, <4>1
      <4>2. CASE i # n
        <5>1. i <= n - 1
          BY <1>1, <3>8, <4>2
        <5> QED
          BY <2>2, <3>3, <5>1
      <4> QED
        BY <4>1, <4>2
    <3>9. OK(q, n)
      BY <3>1, <3>2, <3>6, <3>7, <3>8
    <3> QED
      BY <2>4, <3>9 DEF q
  <2> QED
    BY <2>3, <2>4
<1> HIDE DEF OK
<1>4. \A m \in Nat : m <= Len(s) =>
        \E f : Rec(f, m) /\ \A n \in 0..m : OK(f[n], n)
  <2> DEFINE T == {m \in Nat : m <= Len(s) =>
                     \E f : Rec(f, m) /\ \A n \in 0..m : OK(f[n], n)}
  <2>1. 0 \in T
    <3> DEFINE f == [n \in 0..0 |-> <<>>]
    <3>1. Rec(f, 0)
      OBVIOUS
    <3>2. \A n \in 0..0 : OK(f[n], n)
      <4>1. \A n \in 0..0 : n = 0 /\ f[n] = <<>>
        OBVIOUS
      <4> HIDE DEF f
      <4> QED
        BY <1>2, <4>1
    <3> HIDE DEF f
    <3> QED
      BY <3>1, <3>2
  <2>2. ASSUME NEW m \in Nat, m \in T PROVE m + 1 \in T
    <3> SUFFICES ASSUME m + 1 <= Len(s)
                 PROVE  \E h : Rec(h, m + 1) /\ \A n \in 0..m + 1 : OK(h[n], n)
      OBVIOUS
    <3>1. PICK f : Rec(f, m) /\ \A n \in 0..m : OK(f[n], n)
      BY <1>1, <2>2
    <3> DEFINE e == IF m + 1 \in P THEN Append(f[m], s[m + 1]) ELSE f[m]
               h == [n \in 0..m + 1 |-> IF n <= m THEN f[n] ELSE e]
    <3>2. OK(e, m + 1)
      <4>1. m + 1 \in 1..Len(s) /\ (m + 1) - 1 = m
        BY <1>1
      <4>2. OK(f[m], m)
        BY <3>1
      <4> QED
        BY <1>3, <4>1, <4>2
    <3> HIDE DEF e
    <3>3. \A n \in 0..m + 1 : n # m + 1 => n \in 0..m /\ h[n] = f[n]
      OBVIOUS
    <3>4. h[m + 1] = e
      OBVIOUS
    <3>5. \A n \in 0..m + 1 : OK(h[n], n)
      <4> HIDE DEF h
      <4> QED
        BY <3>1, <3>2, <3>3, <3>4
    <3>6. \A n \in 0..m + 1 : h[n] = Step(h, n)
      <4>1. ASSUME NEW n \in 0..m PROVE f[n] = Step(f, n)
        BY <3>1
      <4>2. ASSUME NEW n \in 0..m + 1, n # m + 1 PROVE h[n] = Step(h, n)
        <5>1. n \in 0..m /\ h[n] = f[n]
          BY <3>3, <4>2
        <5>2. CASE n = 0
          BY <4>1, <5>1, <5>2
        <5>3. CASE n # 0
          <6>1. n - 1 \in 0..m + 1 /\ n - 1 # m + 1
            BY <5>1, <5>3
          <6>2. h[n - 1] = f[n - 1]
            BY <3>3, <6>1
          <6>3. f[n] = Step(f, n)
            BY <4>1, <5>1
          <6> HIDE DEF h
          <6> QED
            BY <5>1, <6>2, <6>3
        <5> QED
          BY <5>2, <5>3
      <4>3. h[m + 1] = Step(h, m + 1)
        <5>1. h[m] = f[m] /\ (m + 1) - 1 = m /\ m + 1 # 0
          BY <3>3
        <5> HIDE DEF h
        <5> QED
          BY <3>4, <5>1 DEF e
      <4> HIDE DEF h
      <4> QED
        BY <4>2, <4>3
    <3>7. Rec(h, m + 1)
      <4>1. h = [n \in 0..m + 1 |-> h[n]]
        OBVIOUS
      <4> HIDE DEF h
      <4> QED
        BY <3>6, <4>1
    <3> HIDE DEF h
    <3> QED
      BY <3>5, <3>7
  <2> HIDE DEF T
  <2>3. Nat \subseteq T
    BY <2>1, <2>2, Induction
  <2> QED
    BY <2>3 DEF T
<1> DEFINE kept == CHOOSE f : Rec(f, Len(s))
<1>5. Rec(kept, Len(s))
  <2> HIDE DEF Rec
  <2>1. \E f : Rec(f, Len(s))
    <3>1. Len(s) \in Nat /\ Len(s) <= Len(s)
      BY <1>1
    <3> QED
      BY <1>4, <3>1
  <2> QED
    BY <2>1, Zenon
<1>6. Kept(s, P) = kept[Len(s)]
  BY DEF Kept
<1> HIDE DEF kept
<1>7. \A m \in Nat : m <= Len(s) => OK(kept[m], m)
  <2> DEFINE T == {m \in Nat : m <= Len(s) => OK(kept[m], m)}
  <2>0. \A n \in 0..Len(s) : kept[n] = Step(kept, n)
    BY <1>5
  <2>1. 0 \in T
    BY <1>1, <1>2, <2>0
  <2>2. ASSUME NEW m \in Nat, m \in T PROVE m + 1 \in T
    <3> SUFFICES ASSUME m + 1 <= Len(s) PROVE OK(kept[m + 1], m + 1)
      OBVIOUS
    <3>1. m + 1 \in 1..Len(s) /\ m + 1 \in 0..Len(s) /\ (m + 1) - 1 = m /\ m + 1 # 0
      BY <1>1
    <3>2. OK(kept[m], m)
      BY <1>1, <2>2
    <3>3. kept[m + 1] = IF m + 1 \in P THEN Append(kept[m], s[m + 1]) ELSE kept[m]
      BY <2>0, <3>1
    <3> QED
      BY <1>3, <3>1, <3>2, <3>3
  <2> HIDE DEF T
  <2>3. Nat \subseteq T
    BY <2>1, <2>2, Induction
  <2> QED
    BY <2>3 DEF T
<1>8. OK(Kept(s, P), Len(s))
  BY <1>1, <1>6, <1>7
<1>9. \A n \in P : n <= Len(s)
  BY <1>1
<1> QED
  BY <1>8, <1>9 DEF OK

-----------------------------------------------------------------------------
(* The songs of lists *)

LEMMA InSongs ==
  ASSUME NEW pls, NEW f
  PROVE  f \in Songs(pls) <=>
           \E i \in DOMAIN pls : \E j \in DOMAIN pls[i].tracks : pls[i].tracks[j].file = f
<1>1. ASSUME NEW i \in DOMAIN pls, NEW j \in DOMAIN pls[i].tracks
      PROVE  <<i, j>> \in Places(pls) /\ TrackAt(pls, <<i, j>>) = pls[i].tracks[j]
  BY DEF Places, TrackAt
<1>2. ASSUME NEW x \in Places(pls)
      PROVE  x[1] \in DOMAIN pls /\ x[2] \in DOMAIN pls[x[1]].tracks
  BY DEF Places
<1>3. ASSUME NEW x \in Places(pls)
      PROVE  TrackAt(pls, x) = pls[x[1]].tracks[x[2]]
  BY DEF TrackAt
<1>4. f \in Songs(pls) <=> \E x \in Places(pls) : TrackAt(pls, x).file = f
  BY DEF Songs
<1>5. ASSUME NEW i \in DOMAIN pls, NEW j \in DOMAIN pls[i].tracks, pls[i].tracks[j].file = f
      PROVE  f \in Songs(pls)
  <2>1. <<i, j>> \in Places(pls) /\ TrackAt(pls, <<i, j>>).file = f
    BY <1>1, <1>5
  <2> QED
    BY <1>4, <2>1
<1>6. ASSUME f \in Songs(pls)
      PROVE  \E i \in DOMAIN pls : \E j \in DOMAIN pls[i].tracks : pls[i].tracks[j].file = f
  <2>1. PICK x \in Places(pls) : TrackAt(pls, x).file = f
    BY <1>4, <1>6
  <2>2. x[1] \in DOMAIN pls /\ x[2] \in DOMAIN pls[x[1]].tracks
    BY <1>2
  <2>3. pls[x[1]].tracks[x[2]].file = f
    BY <1>3, <2>1
  <2> QED
    BY <2>2, <2>3
<1> QED
  BY <1>5, <1>6

LEMMA UnambiguousMeans ==
  ASSUME NEW pls
  PROVE  Unambiguous(pls) <=>
           \A i, k \in DOMAIN pls :
             \A j \in DOMAIN pls[i].tracks, l \in DOMAIN pls[k].tracks :
               pls[i].tracks[j].file = pls[k].tracks[l].file => i = k /\ j = l
<1>1. ASSUME NEW i \in DOMAIN pls, NEW j \in DOMAIN pls[i].tracks
      PROVE  <<i, j>> \in Places(pls) /\ TrackAt(pls, <<i, j>>) = pls[i].tracks[j]
  BY DEF Places, TrackAt
<1>2. ASSUME NEW x \in Places(pls)
      PROVE  /\ x[1] \in DOMAIN pls /\ x[2] \in DOMAIN pls[x[1]].tracks
             /\ x = <<x[1], x[2]>> /\ TrackAt(pls, x) = pls[x[1]].tracks[x[2]]
  BY DEF Places, TrackAt
<1>3. ASSUME Unambiguous(pls),
             NEW i \in DOMAIN pls, NEW k \in DOMAIN pls,
             NEW j \in DOMAIN pls[i].tracks, NEW l \in DOMAIN pls[k].tracks,
             pls[i].tracks[j].file = pls[k].tracks[l].file
      PROVE  i = k /\ j = l
  <2>1. <<i, j>> = <<k, l>>
    BY <1>1, <1>3 DEF Unambiguous
  <2> QED
    BY <2>1
<1>4. ASSUME \A i, k \in DOMAIN pls :
               \A j \in DOMAIN pls[i].tracks, l \in DOMAIN pls[k].tracks :
                 pls[i].tracks[j].file = pls[k].tracks[l].file => i = k /\ j = l,
             NEW x \in Places(pls), NEW y \in Places(pls),
             TrackAt(pls, x).file = TrackAt(pls, y).file
      PROVE  x = y
  <2>1. x[1] = y[1] /\ x[2] = y[2]
    BY <1>2, <1>4
  <2>2. x = <<x[1], x[2]>> /\ y = <<y[1], y[2]>>
    BY <1>2
  <2> QED
    BY <2>1, <2>2, Zenon
<1> QED
  BY <1>3, <1>4 DEF Unambiguous

(* t is u but for entries left out. *)
SomeOf(t, u) ==
  \E g \in [DOMAIN t -> DOMAIN u] :
    /\ \A k \in DOMAIN t : t[k] = u[g[k]]
    /\ \A k, l \in DOMAIN t : g[k] = g[l] => k = l

(* Lists of songs are others but for lists and songs left out. *)
Fewer(d, c) ==
  \E g \in [DOMAIN d -> DOMAIN c] :
    /\ \A i \in DOMAIN d : SomeOf(d[i].tracks, c[g[i]].tracks)
    /\ \A i, k \in DOMAIN d : g[i] = g[k] => i = k

LEMMA SomeOfSelf == \A t : SomeOf(t, t)
<1> TAKE t
<1> DEFINE g == [k \in DOMAIN t |-> k]
<1>1. g \in [DOMAIN t -> DOMAIN t]
  OBVIOUS
<1> QED
  BY <1>1 DEF SomeOf

LEMMA FewerSongs ==
  ASSUME NEW c, NEW d, Fewer(d, c)
  PROVE  Songs(d) \subseteq Songs(c) /\ (Unambiguous(c) => Unambiguous(d))
<1>1. PICK g \in [DOMAIN d -> DOMAIN c] :
        /\ \A i \in DOMAIN d : SomeOf(d[i].tracks, c[g[i]].tracks)
        /\ \A i, k \in DOMAIN d : g[i] = g[k] => i = k
  BY DEF Fewer
<1>2. ASSUME NEW f \in Songs(d) PROVE f \in Songs(c)
  <2>1. PICK i \in DOMAIN d : \E j \in DOMAIN d[i].tracks : d[i].tracks[j].file = f
    BY InSongs
  <2>2. PICK j \in DOMAIN d[i].tracks : d[i].tracks[j].file = f
    BY <2>1
  <2>3. PICK h \in [DOMAIN d[i].tracks -> DOMAIN c[g[i]].tracks] :
          \A k \in DOMAIN d[i].tracks : d[i].tracks[k] = c[g[i]].tracks[h[k]]
    BY <1>1 DEF SomeOf
  <2>4. g[i] \in DOMAIN c /\ h[j] \in DOMAIN c[g[i]].tracks /\ c[g[i]].tracks[h[j]].file = f
    BY <2>2, <2>3
  <2> QED
    BY <2>4, InSongs
<1>3. ASSUME Unambiguous(c) PROVE Unambiguous(d)
  <2> SUFFICES ASSUME NEW i \in DOMAIN d, NEW k \in DOMAIN d,
                      NEW j \in DOMAIN d[i].tracks, NEW l \in DOMAIN d[k].tracks,
                      d[i].tracks[j].file = d[k].tracks[l].file
               PROVE  i = k /\ j = l
    BY UnambiguousMeans
  <2>1. PICK h \in [DOMAIN d[i].tracks -> DOMAIN c[g[i]].tracks] :
          /\ \A m \in DOMAIN d[i].tracks : d[i].tracks[m] = c[g[i]].tracks[h[m]]
          /\ \A m, n \in DOMAIN d[i].tracks : h[m] = h[n] => m = n
    BY <1>1 DEF SomeOf
  <2>2. PICK hh \in [DOMAIN d[k].tracks -> DOMAIN c[g[k]].tracks] :
          \A m \in DOMAIN d[k].tracks : d[k].tracks[m] = c[g[k]].tracks[hh[m]]
    BY <1>1 DEF SomeOf
  <2>3. /\ g[i] \in DOMAIN c /\ h[j] \in DOMAIN c[g[i]].tracks
        /\ g[k] \in DOMAIN c /\ hh[l] \in DOMAIN c[g[k]].tracks
        /\ c[g[i]].tracks[h[j]].file = c[g[k]].tracks[hh[l]].file
    BY <2>1, <2>2
  <2>4. g[i] = g[k] /\ h[j] = hh[l]
    BY <1>3, <2>3, UnambiguousMeans
  <2>5. i = k
    BY <1>1, <2>4
  <2>6. h[l] \in DOMAIN c[g[i]].tracks /\ c[g[i]].tracks[h[l]].file = c[g[i]].tracks[h[j]].file
    BY <2>1, <2>5
  <2>7. h[l] = h[j]
    BY <1>3, <2>3, <2>6, UnambiguousMeans
  <2> QED
    BY <2>1, <2>5, <2>7
<1> QED
  BY <1>2, <1>3

LEMMA SomeOfFewer ==
  ASSUME NEW c, NEW d, SomeOf(d, c)
  PROVE  Fewer(d, c)
<1>1. PICK g \in [DOMAIN d -> DOMAIN c] :
        /\ \A k \in DOMAIN d : d[k] = c[g[k]]
        /\ \A k, l \in DOMAIN d : g[k] = g[l] => k = l
  BY DEF SomeOf
<1>2. ASSUME NEW i \in DOMAIN d PROVE SomeOf(d[i].tracks, c[g[i]].tracks)
  <2>1. d[i] = c[g[i]]
    BY <1>1
  <2> QED
    BY <2>1, SomeOfSelf
<1> QED
  BY <1>1, <1>2 DEF Fewer

(* Lists behind lists hold the songs of both. *)
LEMMA JoinedSongs ==
  ASSUME NEW c \in Seq(Playlist), NEW d \in Seq(Playlist)
  PROVE  /\ Songs(c \o d) = Songs(c) \cup Songs(d)
         /\ Unambiguous(c \o d) <=>
              Unambiguous(c) /\ Unambiguous(d) /\ Songs(c) \cap Songs(d) = {}
<1> DEFINE cd == c \o d
<1>1. /\ Len(c) \in Nat /\ DOMAIN c = 1..Len(c)
      /\ Len(d) \in Nat /\ DOMAIN d = 1..Len(d)
      /\ DOMAIN cd = 1..(Len(c) + Len(d))
      /\ \A i \in 1..(Len(c) + Len(d)) : cd[i] = IF i <= Len(c) THEN c[i] ELSE d[i - Len(c)]
  <2>1. cd \in Seq(Playlist) /\ Len(cd) = Len(c) + Len(d)
    BY ConcatProperties
  <2> QED
    BY <2>1, ConcatProperties, LenProperties
<1> HIDE DEF cd
<1>2. \A i \in DOMAIN c : i \in DOMAIN cd /\ cd[i] = c[i]
  BY <1>1
<1>3. ASSUME NEW i \in DOMAIN d PROVE Len(c) + i \in DOMAIN cd /\ cd[Len(c) + i] = d[i]
  <2>1. Len(c) + i \in 1..(Len(c) + Len(d)) /\ ~(Len(c) + i <= Len(c)) /\ (Len(c) + i) - Len(c) = i
    BY <1>1
  <2> QED
    BY <1>1, <2>1
<1>4. ASSUME NEW i \in DOMAIN cd
      PROVE  \/ i \in DOMAIN c /\ cd[i] = c[i]
             \/ \E k \in DOMAIN d : i = Len(c) + k /\ cd[i] = d[k]
  <2>1. CASE i <= Len(c)
    BY <1>1, <2>1
  <2>2. CASE ~(i <= Len(c))
    <3>1. i - Len(c) \in DOMAIN d /\ i = Len(c) + (i - Len(c)) /\ cd[i] = d[i - Len(c)]
      BY <1>1, <2>2
    <3> QED
      BY <3>1
  <2> QED
    BY <2>1, <2>2
<1>5. \A f : f \in Songs(cd) <=> f \in Songs(c) \/ f \in Songs(d)
  BY <1>2, <1>3, <1>4, InSongs
<1>6. ASSUME Unambiguous(cd)
      PROVE  Unambiguous(c) /\ Unambiguous(d) /\ Songs(c) \cap Songs(d) = {}
  <2>1. Unambiguous(c)
    BY <1>2, <1>6, UnambiguousMeans
  <2>2. Unambiguous(d)
    <3> SUFFICES ASSUME NEW i \in DOMAIN d, NEW k \in DOMAIN d,
                        NEW j \in DOMAIN d[i].tracks, NEW l \in DOMAIN d[k].tracks,
                        d[i].tracks[j].file = d[k].tracks[l].file
                 PROVE  i = k /\ j = l
      BY UnambiguousMeans
    <3>1. Len(c) + i = Len(c) + k /\ j = l
      BY <1>3, <1>6, UnambiguousMeans
    <3> QED
      BY <1>1, <3>1
  <2>3. ASSUME NEW f \in Songs(c), f \in Songs(d) PROVE FALSE
    <3>1. PICK i \in DOMAIN c : \E j \in DOMAIN c[i].tracks : c[i].tracks[j].file = f
      BY InSongs
    <3>2. PICK k \in DOMAIN d : \E l \in DOMAIN d[k].tracks : d[k].tracks[l].file = f
      BY <2>3, InSongs
    <3>3. i = Len(c) + k
      BY <1>2, <1>3, <1>6, <3>1, <3>2, UnambiguousMeans
    <3> QED
      BY <1>1, <3>3
  <2> QED
    BY <2>1, <2>2, <2>3
<1>7. ASSUME Unambiguous(c), Unambiguous(d), Songs(c) \cap Songs(d) = {}
      PROVE  Unambiguous(cd)
  <2> SUFFICES ASSUME NEW i \in DOMAIN cd, NEW k \in DOMAIN cd,
                      NEW j \in DOMAIN cd[i].tracks, NEW l \in DOMAIN cd[k].tracks,
                      cd[i].tracks[j].file = cd[k].tracks[l].file
               PROVE  i = k /\ j = l
    BY UnambiguousMeans
  <2>1. CASE i \in DOMAIN c /\ cd[i] = c[i]
    <3>1. cd[i].tracks[j].file \in Songs(c)
      BY <2>1, InSongs
    <3>2. k \in DOMAIN c /\ cd[k] = c[k]
      BY <1>4, <1>7, <3>1, InSongs
    <3> QED
      BY <1>7, <2>1, <3>2, UnambiguousMeans
  <2>2. ASSUME NEW m \in DOMAIN d, i = Len(c) + m, cd[i] = d[m] PROVE i = k /\ j = l
    <3>1. cd[i].tracks[j].file \in Songs(d)
      BY <2>2, InSongs
    <3>2. ~(k \in DOMAIN c /\ cd[k] = c[k])
      BY <1>7, <3>1, InSongs
    <3>3. PICK n \in DOMAIN d : k = Len(c) + n /\ cd[k] = d[n]
      BY <1>4, <3>2
    <3> QED
      BY <1>7, <2>2, <3>3, UnambiguousMeans
  <2> QED
    BY <1>4, <2>1, <2>2
<1>8. Songs(cd) = Songs(c) \cup Songs(d)
  BY <1>5
<1> QED
  BY <1>6, <1>7, <1>8 DEF cd

LEMMA RemoveAtSome ==
  ASSUME NEW S, NEW s \in Seq(S), NEW i \in 1..Len(s)
  PROVE  /\ RemoveAt(s, i) \in Seq(S) /\ Len(RemoveAt(s, i)) = Len(s) - 1
         /\ SomeOf(RemoveAt(s, i), s)
<1>1. Len(s) \in Nat /\ DOMAIN s = 1..Len(s)
  BY LenProperties
<1> DEFINE front == SubSeq(s, 1, i - 1)
           rest == SubSeq(s, i + 1, Len(s))
<1>2. /\ front \in Seq(S) /\ Len(front) = i - 1
      /\ \A j \in 1..i - 1 : front[j] = s[j]
  <2>1. \A j \in 1..i - 1 : s[j] \in S
    BY <1>1, ElementOfSeq
  <2>2. \A j \in 1..(i - 1) - 1 + 1 : front[j] = s[1 + j - 1]
    BY <1>1, <2>1, SubSeqProperties, 1 \in Int, i - 1 \in Int
  <2> QED
    BY <1>1, <2>1, <2>2, SubSeqProperties, 1 \in Int, i - 1 \in Int
<1>3. /\ rest \in Seq(S) /\ Len(rest) = Len(s) - i
      /\ \A j \in 1..Len(s) - i : rest[j] = s[j + i]
  <2>1. \A j \in i + 1..Len(s) : s[j] \in S
    BY <1>1, ElementOfSeq
  <2>2. \A j \in 1..Len(s) - (i + 1) + 1 : rest[j] = s[(i + 1) + j - 1]
    BY <1>1, <2>1, SubSeqProperties, i + 1 \in Int, Len(s) \in Int
  <2>3. rest \in Seq(S) /\ Len(rest) = Len(s) - i
    <3>1. /\ rest \in Seq(S)
          /\ Len(rest) = IF i + 1 <= Len(s) THEN Len(s) - (i + 1) + 1 ELSE 0
      BY <1>1, <2>1, SubSeqProperties, i + 1 \in Int, Len(s) \in Int
    <3>2. i \in Int /\ Len(s) \in Int /\ i <= Len(s)
      BY <1>1
    <3>3. (IF i + 1 <= Len(s) THEN Len(s) - (i + 1) + 1 ELSE 0) = Len(s) - i
      BY <3>2
    <3> QED
      BY <3>1, <3>3
  <2>4. ASSUME NEW j \in 1..Len(s) - i PROVE rest[j] = s[j + i]
    <3>1. j \in 1..Len(s) - (i + 1) + 1 /\ (i + 1) + j - 1 = j + i
      BY <1>1
    <3> QED
      BY <2>2, <3>1
  <2> QED
    BY <2>3, <2>4
<1> DEFINE r == RemoveAt(s, i)
           g == [k \in 1..Len(s) - 1 |-> IF k < i THEN k ELSE k + 1]
<1>4. /\ r \in Seq(S) /\ Len(r) = Len(s) - 1
      /\ \A j \in 1..Len(s) - 1 : r[j] = IF j <= i - 1 THEN front[j] ELSE rest[j - (i - 1)]
  <2>1. r = front \o rest
    BY DEF RemoveAt
  <2> HIDE DEF front, rest, r
  <2>2. Len(front) + Len(rest) = Len(s) - 1
    BY <1>1, <1>2, <1>3
  <2>3. /\ r \in Seq(S) /\ Len(r) = Len(front) + Len(rest)
        /\ \A j \in 1..Len(front) + Len(rest) :
             r[j] = IF j <= Len(front) THEN front[j] ELSE rest[j - Len(front)]
    BY <1>2, <1>3, <2>1, ConcatProperties
  <2> QED
    BY <1>2, <2>2, <2>3
<1> HIDE DEF front, rest, r
<1>5. DOMAIN r = 1..Len(s) - 1
  BY <1>4, LenProperties
<1>6. g \in [1..Len(s) - 1 -> 1..Len(s)]
  BY <1>1
<1>7. ASSUME NEW k \in 1..Len(s) - 1 PROVE r[k] = s[g[k]]
  <2>1. CASE k < i
    <3>1. k \in 1..i - 1 /\ k <= i - 1 /\ g[k] = k
      BY <2>1
    <3> QED
      BY <1>2, <1>4, <3>1
  <2>2. CASE ~(k < i)
    <3>1. k - (i - 1) \in 1..Len(s) - i /\ ~(k <= i - 1) /\ (k - (i - 1)) + i = k + 1 /\ g[k] = k + 1
      BY <1>1, <2>2
    <3> HIDE DEF g
    <3> QED
      BY <1>3, <1>4, <3>1
  <2> QED
    BY <2>1, <2>2
<1>8. ASSUME NEW k \in 1..Len(s) - 1, NEW l \in 1..Len(s) - 1, g[k] = g[l] PROVE k = l
  BY <1>1, <1>8
<1> HIDE DEF g
<1>9. SomeOf(r, s)
  BY <1>1, <1>5, <1>6, <1>7, <1>8 DEF SomeOf
<1> QED
  BY <1>4, <1>9 DEF r

LEMMA KeptSome ==
  ASSUME NEW S, NEW s \in Seq(S), NEW P \in SUBSET (1..Len(s))
  PROVE  SomeOf(Kept(s, P), s)
<1> DEFINE r == Kept(s, P)
<1>1. r \in Seq(S)
  BY KeptResult
<1>2. PICK g \in [1..Len(r) -> P] :
        /\ \A k \in 1..Len(r) : r[k] = s[g[k]]
        /\ \A k, l \in 1..Len(r) : k < l => g[k] < g[l]
  BY KeptResult
<1> HIDE DEF r
<1>3. Len(r) \in Nat /\ DOMAIN r = 1..Len(r) /\ Len(s) \in Nat /\ DOMAIN s = 1..Len(s)
  BY <1>1, LenProperties
<1>4. g \in [DOMAIN r -> DOMAIN s]
  BY <1>3
<1>5. ASSUME NEW k \in 1..Len(r), NEW l \in 1..Len(r), g[k] = g[l] PROVE k = l
  <2>1. g[k] \in 1..Len(s) /\ g[l] \in 1..Len(s)
    BY <1>3, <1>4
  <2>2. ~(k < l) /\ ~(l < k)
    BY <1>2, <1>3, <1>5, <2>1
  <2> QED
    BY <1>3, <2>2
<1>6. SomeOf(r, s)
  BY <1>2, <1>3, <1>4, <1>5 DEF SomeOf
<1> QED
  BY <1>6 DEF r

(* One list gets other tracks. *)
LEMMA OtherTracks ==
  ASSUME NEW c \in Seq(Playlist), NEW i \in DOMAIN c, NEW t \in Seq(Track),
         NEW d, d = [c EXCEPT ![i].tracks = t]
  PROVE  /\ d \in Seq(Playlist) /\ DOMAIN d = DOMAIN c
         /\ d[i].tracks = t
         /\ \A k \in DOMAIN c : k # i => d[k] = c[k]
         /\ SomeOf(t, c[i].tracks) => Fewer(d, c)
<1>1. i \in 1..Len(c) /\ DOMAIN c = 1..Len(c) /\ c[i] \in Playlist
  BY LenProperties, ElementOfSeq
<1> DEFINE e == [c[i] EXCEPT !.tracks = t]
<1>2. e \in Playlist /\ e.tracks = t
  BY <1>1 DEF Playlist
<1>3. d = [c EXCEPT ![i] = e]
  OBVIOUS
<1> HIDE DEF e
<1>4. d \in Seq(Playlist) /\ Len(d) = Len(c)
  BY <1>1, <1>2, <1>3, ExceptSeq
<1>5. DOMAIN d = DOMAIN c
  BY <1>1, <1>3
<1>6. d[i] = e /\ \A k \in DOMAIN c : k # i => d[k] = c[k]
  BY <1>3
<1>7. ASSUME SomeOf(t, c[i].tracks) PROVE Fewer(d, c)
  <2> DEFINE g == [k \in DOMAIN d |-> k]
  <2>1. g \in [DOMAIN d -> DOMAIN c] /\ \A k, l \in DOMAIN d : g[k] = g[l] => k = l
    BY <1>5
  <2>2. ASSUME NEW k \in DOMAIN d PROVE SomeOf(d[k].tracks, c[g[k]].tracks)
    <3>1. CASE k = i
      BY <1>2, <1>6, <1>7, <3>1
    <3>2. CASE k # i
      BY <1>5, <1>6, <3>2, SomeOfSelf
    <3> QED
      BY <3>1, <3>2
  <2> HIDE DEF g
  <2> QED
    BY <2>1, <2>2 DEF Fewer
<1> QED
  BY <1>2, <1>4, <1>5, <1>6, <1>7

LEMMA AddedSong ==
  ASSUME NEW c, NEW d, DOMAIN d = DOMAIN c, NEW i \in DOMAIN c, NEW t \in Track,
         c[i].tracks \in Seq(Track), d[i].tracks = Append(c[i].tracks, t),
         \A k \in DOMAIN c : k # i => d[k] = c[k]
  PROVE  /\ Songs(d) = Songs(c) \cup {t.file}
         /\ Unambiguous(c) /\ t.file \notin Songs(c) => Unambiguous(d)
<1> DEFINE ts == c[i].tracks
           n == Len(ts) + 1
           us == Append(ts, t)
<1>2. /\ us \in Seq(Track) /\ DOMAIN ts = 1..Len(ts) /\ DOMAIN us = 1..n
      /\ Len(ts) \in Nat /\ us[n] = t /\ \A j \in DOMAIN ts : us[j] = ts[j]
  BY AppendProperties, LenProperties
<1>4. /\ DOMAIN d = DOMAIN c /\ d[i].tracks = us
      /\ \A k \in DOMAIN c : k # i => d[k] = c[k]
  OBVIOUS
<1> HIDE DEF us, ts, n
<1>5. DOMAIN us = DOMAIN ts \cup {n} /\ n \notin DOMAIN ts
  BY <1>2 DEF n
<1>6. ASSUME NEW k \in DOMAIN d, NEW l \in DOMAIN d[k].tracks
      PROVE  \/ l \in DOMAIN c[k].tracks /\ d[k].tracks[l] = c[k].tracks[l]
             \/ k = i /\ l = n /\ d[k].tracks[l] = t
  <2>1. CASE k = i
    BY <1>2, <1>4, <1>5, <2>1 DEF ts
  <2>2. CASE k # i
    BY <1>4, <2>2
  <2> QED
    BY <2>1, <2>2
<1>7. ASSUME NEW k \in DOMAIN c, NEW l \in DOMAIN c[k].tracks
      PROVE  l \in DOMAIN d[k].tracks /\ d[k].tracks[l] = c[k].tracks[l]
  <2>1. CASE k = i
    BY <1>2, <1>4, <1>5, <2>1 DEF ts
  <2>2. CASE k # i
    BY <1>4, <2>2
  <2> QED
    BY <2>1, <2>2
<1>8. ASSUME NEW f \in Songs(d) PROVE f \in Songs(c) \cup {t.file}
  <2>1. PICK k \in DOMAIN d : \E l \in DOMAIN d[k].tracks : d[k].tracks[l].file = f
    BY InSongs
  <2>2. PICK l \in DOMAIN d[k].tracks : d[k].tracks[l].file = f
    BY <2>1
  <2>3. CASE l \in DOMAIN c[k].tracks /\ d[k].tracks[l] = c[k].tracks[l]
    BY <1>4, <2>2, <2>3, InSongs
  <2> QED
    BY <1>6, <2>2, <2>3
<1>9. ASSUME NEW f \in Songs(c) PROVE f \in Songs(d)
  <2>1. PICK k \in DOMAIN c : \E l \in DOMAIN c[k].tracks : c[k].tracks[l].file = f
    BY InSongs
  <2>2. PICK l \in DOMAIN c[k].tracks : c[k].tracks[l].file = f
    BY <2>1
  <2> QED
    BY <1>4, <1>7, <2>2, InSongs
<1>10. t.file \in Songs(d)
  <2>1. i \in DOMAIN d /\ n \in DOMAIN d[i].tracks /\ d[i].tracks[n].file = t.file
    BY <1>2, <1>4, <1>5 DEF n
  <2> QED
    BY <2>1, InSongs
<1>11. ASSUME Unambiguous(c), t.file \notin Songs(c) PROVE Unambiguous(d)
  <2> SUFFICES ASSUME NEW k \in DOMAIN d, NEW m \in DOMAIN d,
                      NEW l \in DOMAIN d[k].tracks, NEW o \in DOMAIN d[m].tracks,
                      d[k].tracks[l].file = d[m].tracks[o].file
               PROVE  k = m /\ l = o
    BY UnambiguousMeans
  <2>1. \A h \in DOMAIN c : \A j \in DOMAIN c[h].tracks : c[h].tracks[j].file # t.file
    BY <1>11, InSongs
  <2>2. k \in DOMAIN c /\ m \in DOMAIN c
    BY <1>4
  <2>3. CASE k = i /\ l = n /\ d[k].tracks[l] = t
    BY <1>6, <2>1, <2>2, <2>3
  <2>4. CASE m = i /\ o = n /\ d[m].tracks[o] = t
    BY <1>6, <2>1, <2>2, <2>4
  <2>5. CASE /\ l \in DOMAIN c[k].tracks /\ d[k].tracks[l] = c[k].tracks[l]
             /\ o \in DOMAIN c[m].tracks /\ d[m].tracks[o] = c[m].tracks[o]
    BY <1>11, <2>2, <2>5, UnambiguousMeans
  <2> QED
    BY <1>6, <2>3, <2>4, <2>5
<1> QED
  BY <1>4, <1>8, <1>9, <1>10, <1>11

-----------------------------------------------------------------------------
(* What the operations make of the lists *)

LEMMA TrackLists == \A c \in Seq(Playlist) : \A i \in DOMAIN c :
                      i \in 1..Len(c) /\ c[i] \in Playlist /\ c[i].tracks \in Seq(Track)
<1> SUFFICES ASSUME NEW c \in Seq(Playlist), NEW i \in DOMAIN c
             PROVE  i \in 1..Len(c) /\ c[i] \in Playlist /\ c[i].tracks \in Seq(Track)
  OBVIOUS
<1>1. i \in 1..Len(c)
  BY LenProperties
<1>2. c[i] \in Playlist
  BY <1>1, ElementOfSeq
<1> QED
  BY <1>1, <1>2 DEF Playlist

LEMMA NoLists == Songs(<<>>) = {} /\ Unambiguous(<<>>)
<1> DEFINE c == <<>>
<1>1. DOMAIN c = {}
  OBVIOUS
<1> HIDE DEF c
<1>2. (\A f : f \notin Songs(c)) /\ Unambiguous(c)
  BY <1>1, InSongs, UnambiguousMeans
<1> QED
  BY <1>2 DEF c

LEMMA ListWithoutSongs ==
  ASSUME NEW n \in Words
  PROVE  LET c == <<[name |-> n, tracks |-> <<>>]>>
         IN c \in Seq(Playlist) /\ Len(c) = 1 /\ Songs(c) = {} /\ Unambiguous(c)
<1> DEFINE e == [name |-> n, tracks |-> <<>>]
           c == <<e>>
<1>1. e \in Playlist /\ DOMAIN e.tracks = {}
  <2>1. <<>> \in Seq(Track)
    BY EmptySeq
  <2> QED
    BY <2>1 DEF Playlist
<1> HIDE DEF e
<1>2. c \in Seq(Playlist) /\ Len(c) = 1 /\ \A i \in DOMAIN c : c[i] = e
  BY <1>1
<1> HIDE DEF c
<1>3. \A i \in DOMAIN c : DOMAIN c[i].tracks = {}
  BY <1>1, <1>2
<1>4. (\A f : f \notin Songs(c)) /\ Unambiguous(c)
  BY <1>3, InSongs, UnambiguousMeans
<1> QED
  BY <1>2, <1>4 DEF c, e

LEMMA UnlessRootResult ==
  ASSUME NEW pl \in Playlist
  PROVE  /\ UnlessRoot(pl) \in Playlist
         /\ SomeOf(UnlessRoot(pl).tracks, pl.tracks)
         /\ \A j \in DOMAIN UnlessRoot(pl).tracks : UnlessRoot(pl).tracks[j].file \notin Songs(root)
<1> DEFINE ts == pl.tracks
           P == {j \in DOMAIN ts : ~rootContainsTrack(ts[j].file)}
           r == Kept(ts, P)
<1>1. ts \in Seq(Track) /\ P \in SUBSET (1..Len(ts))
  <2>1. ts \in Seq(Track)
    BY DEF Playlist
  <2> QED
    BY <2>1, LenProperties
<1>2. UnlessRoot(pl) = [pl EXCEPT !.tracks = r]
  BY DEF UnlessRoot
<1>3. \A j \in P : ts[j].file \notin Songs(root)
  BY DEF rootContainsTrack
<1> HIDE DEF ts, P
<1>4. r \in Seq(Track) /\ SomeOf(r, ts)
  BY <1>1, KeptResult, KeptSome
<1>5. PICK g \in [1..Len(r) -> P] : \A k \in 1..Len(r) : r[k] = ts[g[k]]
  BY <1>1, KeptResult
<1> HIDE DEF r
<1>6. \A j \in DOMAIN r : r[j].file \notin Songs(root)
  <2>1. DOMAIN r = 1..Len(r)
    BY <1>4, LenProperties
  <2> QED
    BY <1>3, <1>5, <2>1
<1>7. UnlessRoot(pl).tracks = r /\ UnlessRoot(pl) \in Playlist
  BY <1>2, <1>4 DEF Playlist
<1> QED
  BY <1>4, <1>6, <1>7 DEF ts

LEMMA Sanitised ==
  ASSUME custom \in Seq(Playlist)
  PROVE  /\ sanitiseCustomMusicList \in Seq(Playlist)
         /\ Songs(sanitiseCustomMusicList) \cap Songs(root) = {}
         /\ Unambiguous(custom) => Unambiguous(sanitiseCustomMusicList)
<1> DEFINE l == [i \in DOMAIN custom |-> UnlessRoot(custom[i])]
           Q == {i \in DOMAIN l : l[i].name # "" \/ l[i].tracks # <<>>}
           r == Kept(l, Q)
<1>1. sanitiseCustomMusicList = r
  BY DEF sanitiseCustomMusicList
<1>2. ASSUME NEW i \in DOMAIN custom
      PROVE  /\ l[i] \in Playlist /\ SomeOf(l[i].tracks, custom[i].tracks)
             /\ \A j \in DOMAIN l[i].tracks : l[i].tracks[j].file \notin Songs(root)
  <2>1. custom[i] \in Playlist /\ l[i] = UnlessRoot(custom[i])
    BY TrackLists
  <2> HIDE DEF l
  <2> QED
    BY <2>1, UnlessRootResult
<1>3. DOMAIN l = DOMAIN custom /\ DOMAIN custom = 1..Len(custom) /\ Len(custom) \in Nat
  BY LenProperties
<1>4. l \in Seq(Playlist)
  <2>1. l \in [1..Len(custom) -> Playlist]
    BY <1>2, <1>3
  <2> HIDE DEF l
  <2> QED
    BY <1>3, <2>1
<1> DEFINE g == [i \in DOMAIN l |-> i]
<1>5. g \in [DOMAIN l -> DOMAIN custom] /\ \A i \in DOMAIN l : g[i] = i
  BY <1>3
<1> HIDE DEF l, g
<1>6. Fewer(l, custom)
  BY <1>2, <1>3, <1>5 DEF Fewer
<1>7. Q \in SUBSET (1..Len(l))
  BY <1>4, LenProperties
<1> HIDE DEF Q
<1>8. r \in Seq(Playlist) /\ Fewer(r, l)
  BY <1>4, <1>7, KeptResult, KeptSome, SomeOfFewer
<1>9. Songs(l) \cap Songs(root) = {}
  BY <1>2, <1>3, InSongs
<1> QED
  BY <1>1, <1>6, <1>8, <1>9, FewerSongs

(* The lists of the server an area uses come first in what it sees. *)
Base == IF globalOn THEN root ELSE <<>>

LEMMA BaseType ==
  ASSUME MusicTypeOK
  PROVE  /\ root \in Seq(Playlist) /\ custom \in Seq(Playlist) /\ Base \in Seq(Playlist)
         /\ playlists = Base \o custom
<1>1. root \in Seq(Playlist) /\ custom \in Seq(Playlist)
  BY MusicConstants DEF MusicTypeOK
<1>2. <<>> \in Seq(Playlist)
  BY EmptySeq
<1>3. Base \in Seq(Playlist)
  BY <1>1, <1>2 DEF Base
<1> QED
  BY <1>1, <1>3 DEF playlists, Base

LEMMA CustomChanges ==
  ASSUME MusicTypeOK,
         AddMusic \/ AddMusicCategory \/ RemoveCustomMusic \/ clearCustomMusicList
  PROVE  \E c \in Seq(Playlist) :
           SetCustom(c) /\ (Unambiguous(playlists) => Unambiguous(Base \o c))
<1>1. root \in Seq(Playlist) /\ custom \in Seq(Playlist) /\ Base \in Seq(Playlist)
  BY BaseType
<1>2. /\ playlists = Base \o custom
      /\ Songs(playlists) = Songs(Base) \cup Songs(custom)
      /\ Unambiguous(playlists) <=>
           Unambiguous(Base) /\ Unambiguous(custom) /\ Songs(Base) \cap Songs(custom) = {}
  <2>1. playlists = Base \o custom
    BY DEF playlists, Base
  <2> QED
    BY <1>1, <2>1, JoinedSongs
<1>3. ASSUME NEW c \in Seq(Playlist), Fewer(c, custom)
      PROVE  Unambiguous(playlists) => Unambiguous(Base \o c)
  BY <1>1, <1>2, <1>3, FewerSongs, JoinedSongs
<1>4. ASSUME NEW f \in Files, NEW length \in 0..1, addCustomSong(f, length)
      PROVE  \E c \in Seq(Playlist) :
               SetCustom(c) /\ (Unambiguous(playlists) => Unambiguous(Base \o c))
  <2> DEFINE cs == IF custom = <<>> THEN <<[name |-> "", tracks |-> <<>>]>> ELSE custom
             t == [file |-> RealName(f), length |-> length]
             c == [cs EXCEPT ![Len(cs)].tracks = Append(@, t)]
  <2>1. t.file \notin Songs(playlists) /\ SetCustom(c)
    <3>1. t.file = RealName(f)
      OBVIOUS
    <3>2. RealName(f) \notin Songs(playlists) /\ SetCustom(c)
      BY <1>4 DEF addCustomSong, Known
    <3> QED
      BY <3>1, <3>2
  <2>2. t \in Track
    <3>1. RealName(f) \in File
      <4>1. f \in File /\ "opus" \in Words
        BY MusicConstants
      <4>2. [f EXCEPT !.ext = "opus"] \in File
        BY <4>1 DEF File
      <4> QED
        BY <4>1, <4>2 DEF RealName
    <3> QED
      BY <3>1 DEF Track
  <2>3. /\ cs \in Seq(Playlist) /\ Len(cs) \in 1..Len(cs) /\ DOMAIN cs = 1..Len(cs)
        /\ Songs(cs) = Songs(custom) /\ (Unambiguous(custom) => Unambiguous(cs))
    <3>1. CASE custom = <<>>
      <4>1. cs = <<[name |-> "", tracks |-> <<>>]>>
        BY <3>1
      <4> HIDE DEF cs
      <4>2. cs \in Seq(Playlist) /\ Len(cs) = 1 /\ Songs(cs) = {} /\ Unambiguous(cs)
        BY <4>1, MusicConstants, ListWithoutSongs
      <4>3. Songs(custom) = {}
        BY <3>1, NoLists
      <4> QED
        BY <4>2, <4>3, LenProperties
    <3>2. CASE custom # <<>>
      <4>1. cs = custom /\ Len(custom) \in Nat \ {0}
        BY <1>1, <3>2, EmptySeq
      <4> HIDE DEF cs
      <4> QED
        BY <1>1, <4>1, LenProperties
    <3> QED
      BY <3>1, <3>2
  <2> HIDE DEF cs, t
  <2> DEFINE i == Len(cs)
             us == Append(cs[i].tracks, t)
  <2>4. i \in DOMAIN cs /\ cs[i].tracks \in Seq(Track) /\ us \in Seq(Track)
    BY <2>2, <2>3, TrackLists, AppendProperties
  <2>5. c = [cs EXCEPT ![i].tracks = us]
    OBVIOUS
  <2> HIDE DEF c
  <2>6. /\ c \in Seq(Playlist) /\ DOMAIN c = DOMAIN cs /\ c[i].tracks = us
        /\ \A k \in DOMAIN cs : k # i => c[k] = cs[k]
    <3>1. cs \in Seq(Playlist) /\ i \in DOMAIN cs /\ us \in Seq(Track)
      BY <2>3, <2>4
    <3> HIDE DEF i, us
    <3> DEFINE e == [cs[i] EXCEPT !.tracks = us]
    <3>2. i \in 1..Len(cs) /\ cs[i] \in Playlist
      BY <3>1, LenProperties, ElementOfSeq
    <3>3. e \in Playlist /\ e.tracks = us
      BY <3>1, <3>2 DEF Playlist
    <3>4. c = [cs EXCEPT ![i] = e]
      BY <2>5
    <3> HIDE DEF e
    <3>5. c \in Seq(Playlist)
      BY <3>1, <3>2, <3>3, <3>4, ExceptSeq
    <3> QED
      BY <3>1, <3>3, <3>4, <3>5
  <2>7. /\ Songs(c) = Songs(cs) \cup {t.file}
        /\ Unambiguous(cs) /\ t.file \notin Songs(cs) => Unambiguous(c)
    <3> HIDE DEF i
    <3> QED
      BY <2>2, <2>4, <2>6, AddedSong
  <2>8. Unambiguous(playlists) => Unambiguous(Base \o c)
    BY <1>1, <1>2, <2>1, <2>3, <2>6, <2>7, JoinedSongs
  <2> QED
    BY <2>1, <2>6, <2>8
<1>5. ASSUME NEW n \in Categories, addCustomCategory(n)
      PROVE  \E c \in Seq(Playlist) :
               SetCustom(c) /\ (Unambiguous(playlists) => Unambiguous(Base \o c))
  <2> DEFINE e == [name |-> n, tracks |-> <<>>]
             c == Append(custom, e)
             l == <<e>>
  <2>1. SetCustom(c)
    BY <1>5 DEF addCustomCategory
  <2>2. l \in Seq(Playlist) /\ Songs(l) = {} /\ Unambiguous(l)
    BY MusicConstants, ListWithoutSongs
  <2>3. c = custom \o l /\ c \in Seq(Playlist)
    <3>1. e \in Playlist
      <4>1. <<>> \in Seq(Track)
        BY EmptySeq
      <4> QED
        BY <4>1, MusicConstants DEF Playlist
    <3> HIDE DEF e
    <3> QED
      BY <1>1, <3>1, AppendIsConcat, AppendProperties
  <2> HIDE DEF l
  <2> HIDE DEF c
  <2>6. Songs(c) = Songs(custom) /\ (Unambiguous(custom) => Unambiguous(c))
    <3>1. /\ Songs(custom \o l) = Songs(custom) \cup Songs(l)
          /\ Unambiguous(custom) /\ Unambiguous(l) /\ Songs(custom) \cap Songs(l) = {}
               => Unambiguous(custom \o l)
      BY <1>1, <2>2, JoinedSongs
    <3> QED
      BY <2>2, <2>3, <3>1
  <2>7. Unambiguous(playlists) => Unambiguous(Base \o c)
    BY <1>1, <1>2, <2>3, <2>6, JoinedSongs
  <2> QED
    BY <2>1, <2>3, <2>7
<1>6. ASSUME NEW n \in Categories, removeCategory(n)
      PROVE  \E c \in Seq(Playlist) :
               SetCustom(c) /\ (Unambiguous(playlists) => Unambiguous(Base \o c))
  <2>1. PICK i \in DOMAIN custom : SetCustom(RemoveAt(custom, i))
    BY <1>6 DEF removeCategory
  <2>2. i \in 1..Len(custom)
    BY <1>1, TrackLists
  <2>3. RemoveAt(custom, i) \in Seq(Playlist) /\ Fewer(RemoveAt(custom, i), custom)
    BY <1>1, <2>2, RemoveAtSome, SomeOfFewer
  <2> QED
    BY <1>3, <2>1, <2>3
<1>7. ASSUME NEW f \in Files, removeTrack(f)
      PROVE  \E c \in Seq(Playlist) :
               SetCustom(c) /\ (Unambiguous(playlists) => Unambiguous(Base \o c))
  <2>1. PICK x \in findTrack(f, custom) :
          SetCustom([custom EXCEPT ![x[1]].tracks = RemoveAt(@, x[2])])
    BY <1>7 DEF removeTrack
  <2> DEFINE i == x[1]
             j == x[2]
             ts == custom[i].tracks
             c == [custom EXCEPT ![i].tracks = RemoveAt(@, j)]
             us == RemoveAt(ts, j)
  <2>2. i \in DOMAIN custom /\ j \in DOMAIN ts
    BY DEF findTrack, Places
  <2>3. SetCustom(c) /\ c = [custom EXCEPT ![i].tracks = us]
    BY <2>1
  <2> HIDE DEF i, j, c
  <2>4. ts \in Seq(Track) /\ j \in 1..Len(ts)
    BY <1>1, <2>2, TrackLists, LenProperties
  <2> HIDE DEF ts
  <2>5. us \in Seq(Track) /\ SomeOf(us, ts)
    BY <2>4, RemoveAtSome
  <2> HIDE DEF us
  <2>6. c \in Seq(Playlist) /\ Fewer(c, custom)
    BY <1>1, <2>2, <2>3, <2>5, OtherTracks DEF ts
  <2> QED
    BY <1>3, <2>3, <2>6
<1>8. ASSUME clearCustomMusicList
      PROVE  \E c \in Seq(Playlist) :
               SetCustom(c) /\ (Unambiguous(playlists) => Unambiguous(Base \o c))
  <2>1. SetCustom(<<>>) /\ <<>> \in Seq(Playlist)
    BY <1>8, EmptySeq DEF clearCustomMusicList
  <2>2. Base \o <<>> = Base
    BY <1>1, ConcatEmptySeq
  <2> QED
    BY <1>2, <2>1, <2>2
<1> QED
  BY <1>4, <1>5, <1>6, <1>7, <1>8 DEF AddMusic, AddMusicCategory, RemoveCustomMusic

(* What a step keeps of the lists and of what members are shown. *)
NotConfused ==
  (root' = root \/ ~globalOn) =>
    /\ Unambiguous(root') /\ Unambiguous(playlists) => Unambiguous(playlists')
    /\ ListsShown => ListsShown'

ListsStep ==
  /\ custom' \in Seq(Playlist)
  /\ shown' \in [Players -> Seq(Playlist)]
  /\ NotConfused

LEMMA PlaylistsType ==
  ASSUME NEW r \in Seq(Playlist), NEW c \in Seq(Playlist), NEW on
  PROVE  (IF on THEN r ELSE <<>>) \o c \in Seq(Playlist)
<1>1. (IF on THEN r ELSE <<>>) \in Seq(Playlist)
  <2>1. <<>> \in Seq(Playlist)
    BY EmptySeq
  <2> QED
    BY <2>1
<1> QED
  BY <1>1, ConcatProperties

LEMMA MembersAreTold ==
  ASSUME MusicTypeOK, root' \in Seq(Playlist), custom' \in Seq(Playlist), broadcastMusicList,
         UNCHANGED inside
  PROVE  shown' \in [Players -> Seq(Playlist)] /\ ListsShown'
<1>1. playlists' \in Seq(Playlist)
  BY PlaylistsType DEF playlists
<1>2. inside \subseteq Players /\ shown \in [Players -> Seq(Playlist)]
  BY DEF MusicTypeOK
<1> QED
  BY <1>1, <1>2 DEF broadcastMusicList, ListsShown

LEMMA ListsNext == MusicTypeOK /\ [MusicNext]_musicVars => ListsStep
<1> SUFFICES ASSUME MusicTypeOK, [MusicNext]_musicVars PROVE ListsStep
  OBVIOUS
<1>1. /\ root \in Seq(Playlist) /\ custom \in Seq(Playlist) /\ Base \in Seq(Playlist)
      /\ playlists = Base \o custom /\ inside \subseteq Players
      /\ shown \in [Players -> Seq(Playlist)]
  BY BaseType DEF MusicTypeOK
<1>2. CASE UNCHANGED lists
  <2>1. playlists' = playlists /\ ListsShown' = ListsShown
    BY <1>2 DEF lists, playlists, ListsShown
  <2> QED
    BY <1>1, <1>2, <2>1 DEF lists, ListsStep, NotConfused
<1>3. ASSUME AddMusic \/ AddMusicCategory \/ RemoveCustomMusic \/ clearCustomMusicList
      PROVE  ListsStep
  <2>1. PICK c \in Seq(Playlist) :
          SetCustom(c) /\ (Unambiguous(playlists) => Unambiguous(Base \o c))
    BY <1>3, CustomChanges
  <2>2. /\ custom' = c /\ root' = root /\ globalOn' = globalOn /\ inside' = inside
        /\ broadcastMusicList
    BY <2>1 DEF SetCustom
  <2>3. playlists' = Base \o c
    BY <2>2 DEF playlists, Base
  <2>4. shown' \in [Players -> Seq(Playlist)] /\ ListsShown'
    BY <1>1, <2>2, MembersAreTold
  <2> QED
    BY <2>1, <2>2, <2>3, <2>4 DEF ListsStep, NotConfused
<1>4. CASE toggleCustomMusicEnabled
  <2>1. /\ globalOn' = ~globalOn /\ root' = root /\ inside' = inside /\ broadcastMusicList
        /\ custom' = IF globalOn' THEN sanitiseCustomMusicList ELSE custom
    BY <1>4 DEF toggleCustomMusicEnabled
  <2>2. globalOn \in BOOLEAN
    BY DEF MusicTypeOK
  <2>3. custom' \in Seq(Playlist)
    BY <1>1, <2>1, Sanitised
  <2>4. shown' \in [Players -> Seq(Playlist)] /\ ListsShown'
    BY <1>1, <2>1, <2>3, MembersAreTold
  <2>5. ASSUME Unambiguous(root), Unambiguous(playlists) PROVE Unambiguous(playlists')
    <3>1. Unambiguous(custom)
      BY <1>1, <2>5, JoinedSongs
    <3>2. CASE globalOn
      <4>1. playlists' = <<>> \o custom
        BY <2>1, <3>2 DEF playlists
      <4> QED
        BY <1>1, <3>1, <4>1, ConcatEmptySeq
    <3>3. CASE ~globalOn
      <4>1. playlists' = root \o sanitiseCustomMusicList
        BY <2>1, <3>3 DEF playlists
      <4> QED
        BY <1>1, <2>5, <3>1, <4>1, JoinedSongs, Sanitised
    <3> QED
      BY <3>2, <3>3
  <2> QED
    BY <2>1, <2>3, <2>4, <2>5 DEF ListsStep, NotConfused
<1>5. CASE reloadRequest
  <2>1. custom' = custom /\ globalOn' = globalOn /\ inside' = inside /\ shown' = shown
    BY <1>5 DEF reloadRequest
  <2>2. (root' = root \/ ~globalOn) => playlists' = playlists
    BY <2>1 DEF playlists
  <2>3. playlists' = playlists => (ListsShown => ListsShown')
    BY <2>1 DEF ListsShown
  <2> QED
    BY <1>1, <2>1, <2>2, <2>3 DEF ListsStep, NotConfused
<1>6. ASSUME NEW p \in Players, userJoinedArea(p) \/ Leave(p) PROVE ListsStep
  <2>1. custom' = custom /\ globalOn' = globalOn /\ root' = root
    BY <1>6 DEF userJoinedArea, Leave
  <2>2. playlists' = playlists
    BY <2>1 DEF playlists
  <2>3. playlists \in Seq(Playlist) /\ <<>> \in Seq(Playlist)
    BY <1>1, PlaylistsType, EmptySeq DEF playlists
  <2>4. PICK l \in Seq(Playlist) :
          /\ shown' = [shown EXCEPT ![p] = l]
          /\ \/ inside' = inside \cup {p} /\ l = playlists
             \/ inside' = inside \ {p}
    BY <1>6, <2>3 DEF userJoinedArea, Leave
  <2>5. shown' \in [Players -> Seq(Playlist)]
    BY <1>1, <2>4
  <2>6. ListsShown => ListsShown'
    BY <1>1, <2>2, <2>4 DEF ListsShown
  <2> QED
    BY <1>1, <2>1, <2>2, <2>5, <2>6 DEF ListsStep, NotConfused
<1>7. CASE UNCHANGED musicVars
  BY <1>2, <1>7 DEF musicVars
<1>8. ASSUME NEW f \in Files, SongEnds(f) \/ JukeboxSkip(f) PROVE UNCHANGED lists
  BY <1>8 DEF SongEnds, JukeboxSkip, switchJukeboxSong
<1>9. ASSUME NEW f,
             RequestSong(f) \/ Play(f) \/ \E noRepeat \in BOOLEAN : PlayMusic(f, noRepeat)
      PROVE  UNCHANGED lists
  BY <1>9 DEF RequestSong, Play, PlayMusic
<1>10. CASE toggleJukebox
  BY <1>2, <1>10 DEF toggleJukebox
<1> QED
  BY <1>2, <1>3, <1>4, <1>5, <1>6, <1>7, <1>8, <1>9, <1>10 DEF MusicNext

-----------------------------------------------------------------------------
(* The jukebox *)

JukeboxInv == MusicTypeOK /\ TimerRunsWithQueue

LEMMA JukeboxInit == MusicInit => JukeboxInv
<1> SUFFICES ASSUME MusicInit PROVE JukeboxInv
  OBVIOUS
<1>1. /\ enabled \in BOOLEAN /\ queue = <<>> /\ ticking = FALSE /\ music = NoFile
      /\ root \in RootLists /\ globalOn = TRUE /\ inside = {}
      /\ aired = [track |-> NoFile, once |-> FALSE]
  BY Zenon DEF MusicInit
<1>2. <<>> \in Seq(Files) /\ <<>> \in Seq(Playlist)
  BY EmptySeq
<1>3. MusicTypeOK
  <2>1. custom = <<>> /\ shown = [p \in Players |-> <<>>]
    BY DEF MusicInit
  <2>2. shown \in [Players -> Seq(Playlist)]
    BY <1>2, <2>1
  <2>3. inside \subseteq Players /\ aired \in [track : Files \cup {NoFile}, once : BOOLEAN]
    BY <1>1
  <2> QED
    BY <1>1, <1>2, <2>1, <2>2, <2>3, Zenon DEF MusicTypeOK
<1>4. TimerRunsWithQueue
  BY <1>1, Zenon DEF TimerRunsWithQueue
<1> QED
  BY <1>3, <1>4 DEF JukeboxInv

LEMMA SwitchSafe ==
  ASSUME JukeboxInv, NEW f \in Files, switchJukeboxSong(f)
  PROVE  JukeboxInv'
<1>1. PICK i \in Candidates :
        /\ queue' = IF Len(queue) = 1 THEN queue ELSE RemoveAt(queue, i)
        /\ music' \in {f, NoFile}
        /\ ticking' = (ticking \/ Playable(f))
        /\ aired' \in [track : {f, NoFile}, once : {FALSE}]
        /\ UNCHANGED <<enabled, lists>>
  BY DEF switchJukeboxSong, broadcastMusic
<1>2. queue # <<>> /\ i \in 1..Len(queue) /\ Len(queue) \in Nat
  <2>1. queue \in Seq(Files)
    BY DEF JukeboxInv, MusicTypeOK
  <2>2. Len(queue) \in Nat
    BY <2>1, LenProperties
  <2>3. i \in 1..Len(queue)
    <3>1. i \in Candidates
      BY <1>1
    <3>2. CASE Len(queue) = 1
      BY <3>1, <3>2 DEF Candidates
    <3>3. CASE Len(queue) # 1
      <4>1. i \in 1..(Len(queue) - 1)
        BY <3>1, <3>3 DEF Candidates
      <4> QED
        BY <2>2, <4>1
    <3> QED
      BY <3>2, <3>3
  <2>4. queue # <<>>
    <3>1. Len(queue) # 0
      BY <2>2, <2>3
    <3> QED
      BY <3>1
  <2> QED
    BY <2>2, <2>3, <2>4
<1>3. ticking /\ enabled
  BY <1>2 DEF JukeboxInv, TimerRunsWithQueue
<1>4. queue' \in Seq(Files) /\ queue' # <<>>
  <2>1. CASE Len(queue) = 1
    BY <1>1, <1>2, <2>1 DEF JukeboxInv, MusicTypeOK
  <2>2. CASE Len(queue) # 1
    <3>1. queue' \in Seq(Files) /\ Len(queue') = Len(queue) - 1
      BY <1>1, <1>2, <2>2, RemoveAtSome DEF JukeboxInv, MusicTypeOK
    <3> QED
      BY <1>2, <2>2, <3>1
  <2> QED
    BY <2>1, <2>2
<1> QED
  BY <1>1, <1>3, <1>4 DEF JukeboxInv, MusicTypeOK, TimerRunsWithQueue, lists

LEMMA JukeboxNext == JukeboxInv /\ [MusicNext]_musicVars => JukeboxInv'
<1> SUFFICES ASSUME JukeboxInv, [MusicNext]_musicVars PROVE JukeboxInv'
  OBVIOUS
<1>0. custom' \in Seq(Playlist) /\ shown' \in [Players -> Seq(Playlist)]
  BY ListsNext DEF JukeboxInv, ListsStep
<1> DEFINE Rest == /\ enabled' \in BOOLEAN /\ ticking' \in BOOLEAN /\ globalOn' \in BOOLEAN
                   /\ queue' \in Seq(Files) /\ music' \in Files \cup {NoFile}
                   /\ aired' \in [track : Files \cup {NoFile}, once : BOOLEAN]
                   /\ root' \in RootLists /\ inside' \subseteq Players
                   /\ (TimerRunsWithQueue)'
<1> SUFFICES Rest
  BY <1>0 DEF JukeboxInv, MusicTypeOK
<1> USE DEF JukeboxInv, MusicTypeOK, TimerRunsWithQueue
<1>1. ASSUME NEW f \in Files, SongEnds(f) \/ JukeboxSkip(f) PROVE Rest
  BY <1>1, SwitchSafe DEF SongEnds, JukeboxSkip
<1>2. CASE toggleJukebox
  BY <1>2 DEF toggleJukebox, lists
<1>3. ASSUME NEW f \in Files, RequestSong(f) PROVE Rest
  <2>1. queue' \in Seq(Files) /\ queue' # <<>>
    BY <1>3 DEF RequestSong, addJukeboxSong
  <2>2. ticking' /\ music' \in Files \cup {NoFile} /\ enabled' /\ UNCHANGED lists
    BY <1>3 DEF RequestSong, addJukeboxSong
  <2>3. ticking' \in BOOLEAN /\ enabled' \in BOOLEAN
    BY <1>3 DEF RequestSong, addJukeboxSong
  <2>4. aired' \in [track : Files \cup {NoFile}, once : BOOLEAN]
    <3>1. aired' = aired \/ aired' = [track |-> f, once |-> FALSE]
      BY <1>3, Zenon DEF RequestSong, addJukeboxSong, broadcastMusic
    <3>2. aired \in [track : Files \cup {NoFile}, once : BOOLEAN]
      OBVIOUS
    <3>3. [track |-> f, once |-> FALSE] \in [track : Files \cup {NoFile}, once : BOOLEAN]
      OBVIOUS
    <3> QED
      BY <3>1, <3>2, <3>3, Zenon
  <2> QED
    BY <2>1, <2>2, <2>3, <2>4 DEF lists
<1>4. ASSUME NEW f \in Files \cup {NoFile},
             Play(f) \/ \E noRepeat \in BOOLEAN : PlayMusic(f, noRepeat)
      PROVE  Rest
  <2>1. /\ \E once \in BOOLEAN : aired' = [track |-> f, once |-> once]
        /\ music' \in {f, NoFile}
        /\ UNCHANGED <<enabled, queue, ticking, lists>>
    BY <1>4, Zenon DEF Play, PlayMusic, broadcastMusic
  <2> QED
    BY <2>1 DEF lists
<1>5. ASSUME NEW c, SetCustom(c) PROVE Rest
  BY <1>5 DEF SetCustom, jukebox
<1>6. ASSUME AddMusic \/ AddMusicCategory \/ RemoveCustomMusic \/ clearCustomMusicList
      PROVE  \E c : SetCustom(c)
  BY <1>6 DEF AddMusic, addCustomSong, AddMusicCategory, addCustomCategory,
              RemoveCustomMusic, removeCategory, removeTrack, clearCustomMusicList
<1>7. CASE toggleCustomMusicEnabled
  BY <1>7 DEF toggleCustomMusicEnabled, jukebox
<1>8. CASE reloadRequest
  BY <1>8 DEF reloadRequest, jukebox
<1>9. ASSUME NEW p \in Players, userJoinedArea(p) \/ Leave(p) PROVE Rest
  BY <1>9 DEF userJoinedArea, Leave, jukebox
<1>10. CASE UNCHANGED musicVars
  BY <1>10 DEF musicVars, jukebox, lists
<1> QED
  BY <1>1, <1>2, <1>3, <1>4, <1>5, <1>6, <1>7, <1>8, <1>9, <1>10 DEF MusicNext

LEMMA JukeboxAlways == MusicSpec => []JukeboxInv
  BY JukeboxInit, JukeboxNext, PTL DEF MusicSpec

(* Names, lists and queues stay what they are, whatever is typed. *)
THEOREM MusicTypes == MusicSpec => []MusicTypeOK
<1>1. JukeboxInv => MusicTypeOK
  BY DEF JukeboxInv
<1> QED
  BY <1>1, JukeboxAlways, PTL

(* The timer of a jukebox runs exactly while it has songs, so that the     *)
(* draw of the next one is never made from an empty queue.                 *)
THEOREM JukeboxTimer == MusicSpec => []TimerRunsWithQueue
<1>1. JukeboxInv => TimerRunsWithQueue
  BY DEF JukeboxInv
<1> QED
  BY <1>1, JukeboxAlways, PTL

(* What is heard stays what is kept, unless the jukebox draws a song that  *)
(* is on the lists without a length.                                       *)
KeptButForUntimed ==
  MusicIsKept =>
    \/ (MusicIsKept)'
    \/ \E f \in Files : Known(f) /\ ~Playable(f) /\ switchJukeboxSong(f)

LEMMA FoundIsKnown == \A f, pls : findTrack(f, pls) # {} => f \in Songs(pls)
  BY DEF findTrack, Songs

LEMMA KeptButForUntimedNext == [MusicNext]_musicVars => [KeptButForUntimed]_musicVars
<1> SUFFICES ASSUME [MusicNext]_musicVars, MusicIsKept,
                    ~ \E f \in Files : Known(f) /\ ~Playable(f) /\ switchJukeboxSong(f)
             PROVE  (MusicIsKept)'
  BY DEF KeptButForUntimed
<1>1. ASSUME NEW f \in Files, SongEnds(f) \/ JukeboxSkip(f) PROVE (MusicIsKept)'
  <2>1. switchJukeboxSong(f)
    BY <1>1 DEF SongEnds, JukeboxSkip
  <2>2. /\ music' = IF Playable(f) THEN f ELSE NoFile
        /\ aired' = [track |-> IF Known(f) THEN f ELSE NoFile, once |-> FALSE]
    BY <2>1 DEF switchJukeboxSong, broadcastMusic
  <2>3. Playable(f) => Known(f)
    BY FoundIsKnown DEF Playable, Known
  <2>4. Playable(f) <=> Known(f)
    BY <2>1, <2>3
  <2> QED
    BY <2>2, <2>4 DEF MusicIsKept
<1>2. ASSUME NEW f, NEW once \in BOOLEAN, broadcastMusic(f, once), music' = f \/ once
      PROVE  (MusicIsKept)'
  BY <1>2 DEF broadcastMusic, MusicIsKept
<1>3. ASSUME NEW f \in Files, RequestSong(f) PROVE (MusicIsKept)'
  <2>1. \/ broadcastMusic(f, FALSE) /\ music' = f
        \/ UNCHANGED <<music, aired>>
    BY <1>3, Zenon DEF RequestSong, addJukeboxSong
  <2> QED
    BY <1>2, <2>1 DEF MusicIsKept
<1>4. ASSUME NEW f, NEW noRepeat \in BOOLEAN, PlayMusic(f, noRepeat)
      PROVE  (MusicIsKept)'
  BY <1>2, <1>4 DEF PlayMusic
<1>5. ASSUME NEW f, Play(f) PROVE (MusicIsKept)'
  BY <1>2, <1>5 DEF Play
<1>6. ASSUME UNCHANGED <<music, aired>> PROVE (MusicIsKept)'
  BY <1>6 DEF MusicIsKept
<1>7. ASSUME AddMusic \/ AddMusicCategory \/ RemoveCustomMusic \/ clearCustomMusicList
      PROVE  UNCHANGED <<music, aired>>
  BY <1>7 DEF AddMusic, addCustomSong, AddMusicCategory, addCustomCategory, RemoveCustomMusic,
              removeCategory, removeTrack, clearCustomMusicList, SetCustom, jukebox
<1>8. ASSUME \/ toggleJukebox \/ toggleCustomMusicEnabled \/ reloadRequest
             \/ \E p \in Players : userJoinedArea(p) \/ Leave(p)
             \/ UNCHANGED musicVars
      PROVE  UNCHANGED <<music, aired>>
  BY <1>8 DEF toggleJukebox, toggleCustomMusicEnabled, reloadRequest, userJoinedArea, Leave,
              musicVars, jukebox
<1> QED
  BY <1>1, <1>3, <1>4, <1>5, <1>6, <1>7, <1>8 DEF MusicNext

(* The area and its members part in one way only: the jukebox plays a song *)
(* that is on the lists without a length.  Everything else that is played, *)
(* by whatever command or packet, is kept as it is sent.                   *)
THEOREM OnlyUntimedIsLost == MusicSpec => [][KeptButForUntimed]_musicVars
  BY KeptButForUntimedNext, PTL DEF MusicSpec

(* Adding, removing, switching the list of the server off and on, coming   *)
(* and going: nothing but a reload brings two songs of one name into an    *)
(* area or leaves a member with a list that is not that of its area, for   *)
(* any list of the server that has no song twice itself.                   *)
THEOREM MusicOnlyReload == MusicSpec => OnlyReloadConfuses
<1>1. JukeboxInv /\ [MusicNext]_musicVars => [NotConfused]_musicVars
  BY ListsNext DEF JukeboxInv, ListsStep
<1> QED
  BY <1>1, JukeboxAlways, PTL DEF MusicSpec, OnlyReloadConfuses, NotConfused
=============================================================================
