------------------------- MODULE SerializationProofs -------------------------
(***************************************************************************)
(* Proofs about the two sides of clarax's serialisation: RustSerializer,   *)
(* the mixin of clarax-django, for any number of threads, classes and      *)
(* models; and CoreValidation with CoreSerialization, the engine of        *)
(* clarax-core, for calls on any schema and any rows.  What is said of     *)
(* sequences, the chunks of either side, comes first.                      *)
(***************************************************************************)
EXTENDS CoreSerialization, RustSerializer, FiniteSetTheorems, SequenceTheorems,
        WellFoundedInduction, TLAPS

\* A set of natural numbers has a least one.
LEMMA Least ==
  ASSUME NEW S \in SUBSET Nat, S # {}
  PROVE  \E n \in S : \A m \in S : n <= m
<1> DEFINE R == {x \in Nat \X Nat : x[1] < x[2]}
<1>1. IsWellFoundedOn(R, Nat)
  BY NatLessThanWellFounded DEF OpToRel
<1>2. PICK n \in S : \A m \in S : ~(<<m, n>> \in R)
  BY <1>1, WFMin, Zenon
<1>3. \A m \in S : ~(m < n)
  BY <1>2
<1> QED BY <1>3

-------------------------------------------------------------------------------
(***************************************************************************)

-------------------------------------------------------------------------------
(***************************************************************************)
(* FlattenSeq, by what the prefixes of a sequence flatten to.              *)
(***************************************************************************)
Flattens(s, n, f) ==
  f = [i \in 1..n |-> IF i = 1 THEN s[i] ELSE f[i-1] \o s[i]]

LEMMA FlattensAt ==
  ASSUME NEW s, NEW n, NEW f, Flattens(s, n, f), NEW i \in 1..n
  PROVE  f[i] = IF i = 1 THEN s[i] ELSE f[i-1] \o s[i]
BY DEF Flattens

LEMMA SomeFlattens ==
  ASSUME NEW s
  PROVE  \A n \in Nat : \E f : Flattens(s, n, f)
<1> DEFINE T == {n \in Nat : ~\E f : Flattens(s, n, f)}
<1> SUFFICES ASSUME T # {} PROVE FALSE
  OBVIOUS
<1>1. PICK n \in T : \A m \in T : n <= m
  <2>1. T \in SUBSET Nat
    OBVIOUS
  <2> HIDE DEF T
  <2> QED
    BY <2>1, Least
<1>2. n \in Nat /\ ~\E f : Flattens(s, n, f)
  BY <1>1
<1>3. n # 0
  <2>1. ASSUME n = 0 PROVE Flattens(s, n, <<>>)
    BY <2>1 DEF Flattens
  <2> QED
    BY <1>2, <2>1
<1>4. n - 1 \in Nat /\ ~(n <= n - 1)
  BY <1>2, <1>3
<1>5. PICK g : Flattens(s, n - 1, g)
  BY <1>1, <1>4
<1> DEFINE f == [i \in 1..n |-> IF i < n THEN g[i] ELSE IF n = 1 THEN s[n] ELSE g[n-1] \o s[n]]
<1>6. ASSUME NEW i \in 1..n PROVE f[i] = IF i = 1 THEN s[i] ELSE f[i-1] \o s[i]
  <2>1. CASE i < n
    <3>1. g[i] = IF i = 1 THEN s[i] ELSE g[i-1] \o s[i]
      <4>1. i \in 1..n - 1
        BY <1>2, <2>1
      <4> QED
        BY <1>5, <4>1, FlattensAt
    <3> QED
      BY <1>2, <2>1, <3>1
  <2>2. CASE i = n
    BY <1>2, <2>2
  <2> QED
    BY <1>2, <2>1, <2>2
<1>7. f = [i \in 1..n |-> IF i = 1 THEN s[i] ELSE f[i-1] \o s[i]]
  BY <1>6
<1> HIDE DEF f
<1> QED
  BY <1>2, <1>7 DEF Flattens

LEMMA FlattensAgree ==
  ASSUME NEW s, NEW t, NEW m \in Nat, NEW n \in Nat, m <= n, NEW f, NEW g,
         Flattens(s, m, f), Flattens(t, n, g), \A i \in 1..m : t[i] = s[i]
  PROVE  \A i \in 1..m : g[i] = f[i]
<1> DEFINE T == {i \in 1..m : g[i] # f[i]}
<1> SUFFICES ASSUME T # {} PROVE FALSE
  OBVIOUS
<1>1. PICK i \in T : \A k \in T : i <= k
  <2>1. T \in SUBSET Nat
    OBVIOUS
  <2> HIDE DEF T
  <2> QED
    BY <2>1, Least
<1>2. i \in 1..m /\ g[i] # f[i] /\ i \in 1..n /\ t[i] = s[i]
  BY <1>1
<1>3. /\ f[i] = IF i = 1 THEN s[i] ELSE f[i-1] \o s[i]
      /\ g[i] = IF i = 1 THEN t[i] ELSE g[i-1] \o t[i]
  BY <1>2 DEF Flattens
<1>4. i # 1 /\ i - 1 \in 1..m /\ ~(i <= i - 1)
  BY <1>2, <1>3
<1>5. g[i-1] = f[i-1]
  BY <1>1, <1>4
<1> QED
  BY <1>2, <1>3, <1>4, <1>5

LEMMA FlattenIsLast ==
  ASSUME NEW X, NEW s \in Seq(X), Len(s) # 0
  PROVE  \E f : Flattens(s, Len(s), f) /\ FlattenSeq(s) = f[Len(s)]
<1> DEFINE P == CHOOSE f : f = [i \in 1..Len(s) |-> IF i = 1 THEN s[i] ELSE f[i-1] \o s[i]]
<1>1. \E f : f = [i \in 1..Len(s) |-> IF i = 1 THEN s[i] ELSE f[i-1] \o s[i]]
  <2>1. PICK f : Flattens(s, Len(s), f)
    <3>1. Len(s) \in Nat
      OBVIOUS
    <3> QED
      BY <3>1, SomeFlattens
  <2> QED
    BY <2>1 DEF Flattens
<1>2. P = [i \in 1..Len(s) |-> IF i = 1 THEN s[i] ELSE P[i-1] \o s[i]]
  BY <1>1, Zenon
<1>3. FlattenSeq(s) = P[Len(s)]
  BY Zenon DEF FlattenSeq
<1> HIDE DEF P
<1> QED
  BY <1>2, <1>3 DEF Flattens

LEMMA FlattenNothing == FlattenSeq(<<>>) = <<>>
BY DEF FlattenSeq

LEMMA FlattenType ==
  ASSUME NEW X, NEW s \in Seq(Seq(X))
  PROVE  FlattenSeq(s) \in Seq(X)
<1>1. CASE Len(s) = 0
  BY <1>1 DEF FlattenSeq
<1>2. CASE Len(s) # 0
  <2>1. PICK f : Flattens(s, Len(s), f) /\ FlattenSeq(s) = f[Len(s)]
    BY <1>2, FlattenIsLast
  <2> DEFINE T == {i \in 1..Len(s) : f[i] \notin Seq(X)}
  <2>2. T = {}
    <3> SUFFICES ASSUME T # {} PROVE FALSE
      OBVIOUS
    <3>1. PICK i \in T : \A k \in T : i <= k
      <4>1. T \in SUBSET Nat
        OBVIOUS
      <4> HIDE DEF T
      <4> QED
        BY <4>1, Least
    <3>2. i \in 1..Len(s) /\ f[i] \notin Seq(X) /\ s[i] \in Seq(X)
      BY <3>1
    <3>3. f[i] = IF i = 1 THEN s[i] ELSE f[i-1] \o s[i]
      BY <2>1, <3>2 DEF Flattens
    <3>4. i # 1 /\ i - 1 \in 1..Len(s) /\ ~(i <= i - 1)
      BY <3>2, <3>3
    <3>5. f[i-1] \in Seq(X)
      BY <3>1, <3>4
    <3>6. f[i-1] \o s[i] \in Seq(X)
      BY <3>2, <3>5
    <3> QED
      BY <3>2, <3>3, <3>4, <3>6
  <2>3. Len(s) \in 1..Len(s)
    BY <1>2
  <2> QED
    BY <2>1, <2>2, <2>3
<1> QED
  BY <1>1, <1>2

LEMMA FlattenAppend ==
  ASSUME NEW X, NEW s \in Seq(Seq(X)), NEW e \in Seq(X)
  PROVE  FlattenSeq(Append(s, e)) = FlattenSeq(s) \o e
<1> DEFINE t == Append(s, e)
           n == Len(s)
<1>1. /\ t \in Seq(Seq(X)) /\ Len(t) = n + 1 /\ n \in Nat /\ t[n + 1] = e
      /\ \A i \in 1..n : t[i] = s[i]
  OBVIOUS
<1> HIDE DEF t
<1>2. PICK g : Flattens(t, n + 1, g) /\ FlattenSeq(t) = g[n + 1]
  BY <1>1, FlattenIsLast
<1>3. g[n + 1] = IF n + 1 = 1 THEN t[n + 1] ELSE g[n] \o t[n + 1]
  <2>1. n + 1 \in 1..n + 1 /\ (n + 1) - 1 = n
    BY <1>1
  <2>2. g[n + 1] = IF n + 1 = 1 THEN t[n + 1] ELSE g[(n + 1) - 1] \o t[n + 1]
    BY <1>2, <2>1, FlattensAt
  <2> QED
    BY <2>1, <2>2
<1>4. CASE n = 0
  <2>1. FlattenSeq(s) = <<>>
    BY <1>4, FlattenNothing
  <2>2. <<>> \o e = e
    OBVIOUS
  <2> QED
    BY <1>1, <1>2, <1>3, <1>4, <2>1, <2>2 DEF t
<1>5. CASE n # 0
  <2>1. PICK f : Flattens(s, n, f) /\ FlattenSeq(s) = f[n]
    BY <1>5, FlattenIsLast
  <2>2. \A i \in 1..n : g[i] = f[i]
    <3>1. n \in Nat /\ n + 1 \in Nat /\ n <= n + 1
      BY <1>1
    <3>2. Flattens(t, n + 1, g) /\ Flattens(s, n, f)
      BY <1>2, <2>1
    <3>3. \A i \in 1..n : t[i] = s[i]
      BY <1>1
    <3> HIDE DEF n
    <3> QED
      BY <3>1, <3>2, <3>3, FlattensAgree
  <2>3. g[n] = f[n]
    BY <1>1, <1>5, <2>2
  <2> QED
    BY <1>1, <1>2, <1>3, <1>5, <2>1, <2>3 DEF t
<1> QED
  BY <1>4, <1>5

LEMMA Appended ==
  ASSUME NEW X, NEW s \in Seq(X), NEW x \in X
  PROVE  /\ Append(s, x) \in Seq(X) /\ Len(Append(s, x)) = Len(s) + 1 /\ Len(s) \in Nat
         /\ DOMAIN s = 1..Len(s) /\ DOMAIN Append(s, x) = 1..Len(s) + 1
         /\ Append(s, x)[Len(s) + 1] = x
         /\ \A i \in 1..Len(s) : Append(s, x)[i] = s[i]
OBVIOUS

-------------------------------------------------------------------------------
(***************************************************************************)
(* Looking up _clarax_schema.  SchemaOf is recursive: that it is what its  *)
(* equation says rests on the classes' bases being no circle, that is, on  *)
(* a rank that is less for the base.                                       *)
(***************************************************************************)
Addresses == Ids \cup {Mixin}

Ranked(cl, r) ==
  /\ r \in [Addresses -> Nat]
  /\ \A c \in Ids : cl[c] # Free => cl[c].parent \in Addresses /\ r[cl[c].parent] < r[c]

\* What a class finds when its base finds what f says.
Found(cl, sc, f, c) ==
  IF c = Mixin THEN Uninitialized
  ELSE IF sc[c] # Uninitialized \/ cl[c] = Free THEN sc[c]
  ELSE f[cl[c].parent]

UpTo(r, n) == {c \in Addresses : r[c] <= n}
Finds(cl, sc, C, f) == f = [c \in C |-> Found(cl, sc, f, c)]

\* Two worlds with the same classes on K, where each class has itself the same
\* schema or looks up one of E: what is not in E is found in both.
Alongside(cl, sc, f, dl, sd, g, r, K, E) ==
  /\ K \subseteq Addresses /\ r \in [Addresses -> Nat]
  /\ \A c \in K : c # Mixin /\ cl[c] # Free =>
                  cl[c].parent \in K /\ r[cl[c].parent] < r[c]
  /\ \A c \in K : c # Mixin => dl[c] = cl[c] /\ (sd[c] = sc[c] \/ f[c] \in E)
  /\ \A c \in K : f[c] = Found(cl, sc, f, c) /\ g[c] = Found(dl, sd, g, c)

LEMMA FoundInBoth ==
  ASSUME NEW cl, NEW sc, NEW dl, NEW sd, NEW r, NEW f, NEW g, NEW E, NEW K,
         Alongside(cl, sc, f, dl, sd, g, r, K, E)
  PROVE  \A c \in K : f[c] \notin E => g[c] = f[c]
<1> USE DEF Alongside
<1> DEFINE T == {c \in K : f[c] \notin E /\ g[c] # f[c]}
<1> SUFFICES ASSUME T # {} PROVE FALSE
  OBVIOUS
<1>1. {r[c] : c \in T} \in SUBSET Nat /\ {r[c] : c \in T} # {}
  OBVIOUS
<1>2. PICK n \in {r[c] : c \in T} : \A m \in {r[c] : c \in T} : n <= m
  BY <1>1, Least
<1>3. PICK c \in T : n = r[c]
  BY <1>2
<1>4. c \in K /\ f[c] \notin E /\ g[c] # f[c]
  BY <1>3
<1>5. f[c] = Found(cl, sc, f, c) /\ g[c] = Found(dl, sd, g, c)
  BY <1>4
<1>6. c # Mixin
  BY <1>4, <1>5 DEF Found
<1>7. dl[c] = cl[c] /\ sd[c] = sc[c]
  BY <1>4, <1>6
<1>8. ~(sc[c] # Uninitialized \/ cl[c] = Free)
  BY <1>4, <1>5, <1>6, <1>7 DEF Found
<1>9. f[c] = f[cl[c].parent] /\ g[c] = g[cl[c].parent]
  BY <1>5, <1>6, <1>7, <1>8 DEF Found
<1>10. cl[c].parent \in K /\ r[cl[c].parent] < r[c]
  BY <1>4, <1>6, <1>8
<1>11. cl[c].parent \in T
  BY <1>4, <1>9, <1>10
<1>12. r[c] <= r[cl[c].parent]
  BY <1>2, <1>3, <1>11
<1> QED
  BY <1>10, <1>12

LEMMA BaseIsBelow ==
  ASSUME NEW cl, NEW r, Ranked(cl, r), NEW n \in Nat,
         NEW c \in UpTo(r, n), c # Mixin, cl[c] # Free
  PROVE  /\ cl[c].parent \in UpTo(r, n) /\ r[cl[c].parent] < r[c]
         /\ n # 0 /\ cl[c].parent \in UpTo(r, n - 1)
BY DEF Ranked, UpTo, Addresses

LEMMA SomeFindsUpTo ==
  ASSUME NEW cl, NEW sc, NEW r, Ranked(cl, r)
  PROVE  \A n \in Nat : \E f : Finds(cl, sc, UpTo(r, n), f)
<1> DEFINE T == {n \in Nat : ~\E f : Finds(cl, sc, UpTo(r, n), f)}
<1> SUFFICES ASSUME T # {} PROVE FALSE
  OBVIOUS
<1>1. PICK n \in T : \A m \in T : n <= m
  <2>1. T \in SUBSET Nat
    OBVIOUS
  <2> HIDE DEF T
  <2> QED
    BY <2>1, Least
<1>2. n \in Nat /\ ~\E f : Finds(cl, sc, UpTo(r, n), f)
  BY <1>1
<1>3. CASE n = 0
  <2> DEFINE f == [c \in UpTo(r, n) |-> Found(cl, sc, <<>>, c)]
  <2>1. ASSUME NEW c \in UpTo(r, n) PROVE f[c] = Found(cl, sc, f, c)
    BY <1>2, <1>3, <2>1, BaseIsBelow DEF Found
  <2>2. f = [c \in UpTo(r, n) |-> Found(cl, sc, f, c)]
    BY <2>1
  <2> HIDE DEF f
  <2> QED
    BY <1>2, <2>2 DEF Finds
<1>4. CASE n # 0
  <2>1. n - 1 \in Nat /\ ~(n <= n - 1)
    BY <1>2, <1>4
  <2>2. PICK g : Finds(cl, sc, UpTo(r, n - 1), g)
    BY <1>1, <2>1
  <2> DEFINE f == [c \in UpTo(r, n) |-> Found(cl, sc, g, c)]
  <2>3. ASSUME NEW c \in UpTo(r, n - 1) PROVE c \in UpTo(r, n) /\ f[c] = g[c]
    <3>1. c \in UpTo(r, n)
      BY <1>2 DEF UpTo, Ranked
    <3>2. g[c] = Found(cl, sc, g, c)
      BY <2>2 DEF Finds
    <3> QED
      BY <3>1, <3>2
  <2>4. ASSUME NEW c \in UpTo(r, n) PROVE f[c] = Found(cl, sc, f, c)
    <3>1. CASE c = Mixin \/ cl[c] = Free
      BY <3>1 DEF Found
    <3>2. CASE c # Mixin /\ cl[c] # Free
      <4>1. cl[c].parent \in UpTo(r, n - 1)
        BY <1>2, <3>2, BaseIsBelow
      <4>2. f[cl[c].parent] = g[cl[c].parent]
        BY <2>3, <4>1
      <4> HIDE DEF f
      <4>3. Found(cl, sc, f, c) = Found(cl, sc, g, c)
        BY <4>2 DEF Found
      <4>4. f[c] = Found(cl, sc, g, c)
        BY DEF f
      <4> QED
        BY <4>3, <4>4
    <3> QED
      BY <3>1, <3>2
  <2>5. f = [c \in UpTo(r, n) |-> Found(cl, sc, f, c)]
    BY <2>4
  <2> HIDE DEF f
  <2> QED
    BY <1>2, <2>5 DEF Finds
<1> QED
  BY <1>3, <1>4

LEMMA SomeFinds ==
  ASSUME NEW cl, NEW sc, NEW r, Ranked(cl, r)
  PROVE  \E f : Finds(cl, sc, Addresses, f)
<1> DEFINE part(n) == CHOOSE f : Finds(cl, sc, UpTo(r, n), f)
           f == [c \in Addresses |-> part(r[c])[c]]
<1>1. ASSUME NEW n \in Nat PROVE Finds(cl, sc, UpTo(r, n), part(n))
  BY SomeFindsUpTo
<1>2. \A c \in Addresses : r[c] \in Nat
  BY DEF Ranked
<1>3. ASSUME NEW m \in Nat, NEW n \in Nat, m <= n
      PROVE  \A c \in UpTo(r, m) : part(n)[c] = part(m)[c]
  <2> DEFINE g == part(m)
             h == part(n)
             K == UpTo(r, m)
  <2>1. K \in SUBSET Addresses /\ r \in [Addresses -> Nat] /\ K \subseteq UpTo(r, n)
    BY <1>3 DEF UpTo, Ranked
  <2>2. \A c \in K : c # Mixin /\ cl[c] # Free => cl[c].parent \in K /\ r[cl[c].parent] < r[c]
    BY BaseIsBelow
  <2>3. Finds(cl, sc, UpTo(r, m), g) /\ Finds(cl, sc, UpTo(r, n), h)
    BY <1>1
  <2> HIDE DEF g, h
  <2>4. \A c \in K : g[c] = Found(cl, sc, g, c) /\ h[c] = Found(cl, sc, h, c)
    BY <2>1, <2>3 DEF Finds
  <2> HIDE DEF K
  <2>5. Alongside(cl, sc, g, cl, sc, h, r, K, {})
    BY <2>1, <2>2, <2>4 DEF Alongside
  <2>6. \A c \in K : h[c] = g[c]
    BY <2>5, FoundInBoth
  <2> QED
    BY <2>6 DEF g, h, K
<1> HIDE DEF part
<1>4. ASSUME NEW c \in Addresses PROVE f[c] = Found(cl, sc, f, c)
  <2>1. c \in UpTo(r, r[c])
    BY <1>2 DEF UpTo
  <2>2. part(r[c])[c] = Found(cl, sc, part(r[c]), c)
    BY <1>1, <1>2, <2>1 DEF Finds
  <2>3. CASE c = Mixin \/ cl[c] = Free
    BY <2>2, <2>3 DEF Found
  <2>4. CASE c # Mixin /\ cl[c] # Free
    <3> DEFINE p == cl[c].parent
    <3>1. p \in Addresses /\ r[p] < r[c] /\ p \in UpTo(r, r[p])
      BY <1>2, <2>4 DEF Ranked, Addresses, UpTo
    <3>2. part(r[c])[p] = part(r[p])[p]
      <4>1. r[p] \in Nat /\ r[c] \in Nat /\ r[p] <= r[c]
        BY <1>2, <3>1
      <4> QED
        BY <1>3, <3>1, <4>1
    <3>3. f[p] = part(r[c])[p]
      BY <3>1, <3>2
    <3> HIDE DEF f
    <3>4. Found(cl, sc, f, c) = Found(cl, sc, part(r[c]), c)
      BY <3>3 DEF Found
    <3>5. f[c] = part(r[c])[c]
      BY DEF f
    <3> QED
      BY <2>2, <3>4, <3>5
  <2> QED
    BY <2>3, <2>4
<1>5. f = [c \in Addresses |-> Found(cl, sc, f, c)]
  BY <1>4
<1> HIDE DEF f
<1> QED
  BY <1>5 DEF Finds

LookUp(cl, sc) ==
  CHOOSE f : f = [c \in Ids \cup {Mixin} |->
                    IF c = Mixin THEN Uninitialized
                    ELSE IF sc[c] # Uninitialized \/ cl[c] = Free THEN sc[c]
                    ELSE f[cl[c].parent]]

LEMMA SchemaIsLookedUp ==
  /\ SchemaOf = LookUp(class, ownSchema)
  /\ SchemaOf' = LookUp(class', ownSchema')
BY DEF SchemaOf, LookUp

LEMMA LookUpFinds ==
  ASSUME NEW cl, NEW sc, NEW r, Ranked(cl, r)
  PROVE  \A c \in Addresses : LookUp(cl, sc)[c] = Found(cl, sc, LookUp(cl, sc), c)
<1>1. PICK f : Finds(cl, sc, Addresses, f)
  BY SomeFinds
<1>2. \E f_1 : f_1 = [c \in Ids \cup {Mixin} |->
                    IF c = Mixin THEN Uninitialized
                    ELSE IF sc[c] # Uninitialized \/ cl[c] = Free THEN sc[c]
                    ELSE f_1[cl[c].parent]]
  BY <1>1 DEF Finds, Found, Addresses
<1>3. LookUp(cl, sc) = [c \in Ids \cup {Mixin} |->
                    IF c = Mixin THEN Uninitialized
                    ELSE IF sc[c] # Uninitialized \/ cl[c] = Free THEN sc[c]
                    ELSE LookUp(cl, sc)[cl[c].parent]]
  BY <1>2, Zenon DEF LookUp
<1> QED
  BY <1>3 DEF Found, Addresses

\* A schema that was found once stays the one that is found by the classes of K,
\* if they stay and only one that found none gets one.
LEMMA SchemaKept ==
  ASSUME NEW cl, NEW sc, NEW r, Ranked(cl, r),
         NEW dl, NEW sd, NEW q, Ranked(dl, q),
         NEW K \in SUBSET Ids,
         \A c \in K : cl[c] # Free => cl[c].parent \in K \cup {Mixin},
         \A c \in K : dl[c] = cl[c] /\ (sd[c] = sc[c] \/ LookUp(cl, sc)[c] = Uninitialized)
  PROVE  \A c \in K : LookUp(cl, sc)[c] # Uninitialized => LookUp(dl, sd)[c] = LookUp(cl, sc)[c]
<1> DEFINE f == LookUp(cl, sc)
           g == LookUp(dl, sd)
           E == {Uninitialized}
<1>1. \A c \in Addresses : f[c] = Found(cl, sc, f, c) /\ g[c] = Found(dl, sd, g, c)
  BY LookUpFinds
<1>2. \A c \in K : dl[c] = cl[c] /\ (sd[c] = sc[c] \/ f[c] \in E)
  OBVIOUS
<1> HIDE DEF f, g
<1>3. Mixin \notin K
  BY SerializerAssumption
<1>4. Alongside(cl, sc, f, dl, sd, g, r, K \cup {Mixin}, E)
  BY <1>1, <1>2, <1>3 DEF Alongside, Addresses, Ranked
<1>5. \A c \in K \cup {Mixin} : f[c] \notin E => g[c] = f[c]
  BY <1>4, FoundInBoth
<1> QED
  BY <1>5 DEF f, g

-------------------------------------------------------------------------------
(***************************************************************************)
(* The caches of the classes.                                              *)
(***************************************************************************)
Instances == {"good", "bad"}
Names == Fields \cup {"miss"}
FieldSets == {S \in SUBSET Names : IsFiniteSet(S)}
Classification == [rust : FieldSets, python : FieldSets]
Class == [model : Models, fields : FieldSets, parent : Addresses]
Rows == UNION {[S -> {"value", "other", "id", "attribute"}] : S \in SUBSET Names}

SerialJob ==
  [kind : {"single", "list"}, class : Ids, pc : {"schema", "drf", "classify", "store", "rows"},
   classes : Classification, todo : Seq(Instances), total : Nat, rows : Seq(Rows)]
StreamJob ==
  [kind : {"stream"}, todo : Seq(Instances), chunk : Seq(Nat), chunks : Seq(Seq(Nat)),
   read : Seq(Instances)]
Counts == [rust : Nat, python : Nat, calls : Nat]

MixinTypeOK ==
  /\ class \in [Ids -> {Free} \cup Class]
  /\ ownSchema \in [Ids -> Models \cup {Uninitialized, NoSchema}]
  /\ cache \in [Ids -> Classification]
  /\ job \in [Threads -> {Idle} \cup SerialJob \cup StreamJob]
  /\ metrics \in [Threads -> Counts]
  /\ request \in [Threads -> [open : BOOLEAN, work : Counts]]

\* The bases of a class are there as long as it is, and are no circle.
BasesOK ==
  /\ \A c \in Live : class[c].parent \in Live \cup {Mixin}
  /\ \E r : Ranked(class, r)

FieldsOK ==
  \A c \in Live : Declares(class[c].model, class[c].fields)

\* A class that is used is there, has found its schema once it has looked, and
\* rows are made by its own classification.
Serial(t) == job[t].kind \in {"single", "list"}

JobOK(t) ==
  Serial(t) =>
    /\ job[t].class \in Live
    /\ job[t].pc # "schema" => SchemaOf[job[t].class] # Uninitialized
    /\ job[t].pc \in {"classify", "store", "rows"} => SchemaOf[job[t].class] # NoSchema
    /\ job[t].pc = "rows" =>
         job[t].classes = Classify(class[job[t].class].fields, SchemaOf[job[t].class])

JobsOK == \A t \in Threads : JobOK(t)

MixinInv == MixinTypeOK /\ BasesOK /\ FieldsOK /\ JobsOK /\ CacheFitsClass

LEMMA Kinds_of_jobs ==
  ASSUME MixinTypeOK, NEW t \in Threads
  PROVE  /\ Serial(t) => job[t] \in SerialJob /\ job[t] # Idle
         /\ job[t].kind = "stream" => job[t] \in StreamJob /\ job[t] # Idle
         /\ job[t] = Idle => ~Serial(t) /\ job[t].kind # "stream"
BY DEF MixinTypeOK, Serial, SerialJob, StreamJob, Idle

LEMMA LiveClass ==
  ASSUME MixinTypeOK, NEW c \in Live
  PROVE  c \in Ids /\ class[c] \in Class /\ class[c] # Free
BY DEF MixinTypeOK, Live

LEMMA ClassifyType ==
  ASSUME NEW F \in FieldSets, NEW s
  PROVE  Classify(F, s) \in Classification
<1> DEFINE rust == IF s = NoSchema THEN {}
                   ELSE {f \in F \cap DOMAIN Compile[s] : Kind[f] \in {"column", "write_only"}}
<1>1. rust \in SUBSET F /\ F \ rust \in SUBSET F
  OBVIOUS
<1>2. Classify(F, s) = [rust |-> rust, python |-> F \ rust]
  BY DEF Classify
<1> HIDE DEF rust
<1>3. IsFiniteSet(rust) /\ IsFiniteSet(F \ rust)
  BY <1>1, FS_Subset DEF FieldSets
<1> QED
  BY <1>1, <1>2, <1>3 DEF FieldSets, Classification

LEMMA MissType == Miss \in Classification
<1>1. {} \in FieldSets /\ {"miss"} \in FieldSets
  BY FS_EmptySet, FS_Singleton DEF FieldSets, Names
<1> QED
  BY <1>1 DEF Miss, Classification

LEMMA DRFRowType ==
  ASSUME NEW F \in SUBSET Names
  PROVE  DRFRow(F) \in Rows
<1> DEFINE S == {g \in F : Kind[g] # "write_only"}
<1>1. DRFRow(F) \in [S -> {"value", "other", "id", "attribute"}]
  BY DEF DRFRow
<1>2. S \in SUBSET Names
  OBVIOUS
<1> QED
  BY <1>1, <1>2 DEF Rows

LEMMA MixedRowType ==
  ASSUME NEW c, NEW s, NEW classes \in Classification, NEW k
  PROVE  MixedRow(c, s, classes, k) \in Rows
<1> DEFINE S == (classes.rust \cap DOMAIN Compile[s]) \cup classes.python
           V == {"value", "other", "id", "attribute"}
<1>1. \A f : RustValue(s, class[c].model, f) \in V
  BY DEF RustValue
<1>2. \A f : PythonValue(f, k) \in V
  BY DEF PythonValue
<1>3. MixedRow(c, s, classes, k) \in [S -> V]
  BY <1>1, <1>2 DEF MixedRow
<1>4. S \in SUBSET Names
  BY DEF Classification, FieldSets
<1> QED
  BY <1>3, <1>4 DEF Rows

-------------------------------------------------------------------------------
\* Types.
LEMMA JobStepType ==
  ASSUME MixinTypeOK, NEW t \in Threads,
         NEW j \in {Idle} \cup SerialJob \cup StreamJob, job' = [job EXCEPT ![t] = j],
         class' = class, ownSchema' = ownSchema, cache' \in [Ids -> Classification],
         metrics' \in [Threads -> Counts],
         request' \in [Threads -> [open : BOOLEAN, work : Counts]]
  PROVE  MixinTypeOK'
<1>1. job' \in [Threads -> {Idle} \cup SerialJob \cup StreamJob]
  BY DEF MixinTypeOK
<1> QED
  BY <1>1 DEF MixinTypeOK

LEMMA ClassesTyped ==
  ASSUME MixinTypeOK
  PROVE  /\ \A c \in Ids, parent \in Ids \cup {Mixin}, m \in Models, fields \in Shapes :
              Define(c, parent, m, fields) => MixinTypeOK'
         /\ \A c \in Ids : CollectClass(c) => MixinTypeOK'
<1>1. ASSUME NEW c \in Ids, NEW parent \in Ids \cup {Mixin}, NEW m \in Models,
             NEW fields \in Shapes, Define(c, parent, m, fields)
      PROVE  MixinTypeOK'
  <2>1. [model |-> m, fields |-> fields, parent |-> parent] \in Class
    BY SerializerAssumption DEF Class, Addresses, FieldSets, Names
  <2>2. class' \in [Ids -> {Free} \cup Class]
    BY <1>1, <2>1 DEF Define, MixinTypeOK
  <2>3. ownSchema' \in [Ids -> Models \cup {Uninitialized, NoSchema}]
    BY <1>1 DEF Define, MixinTypeOK
  <2>4. cache' \in [Ids -> Classification]
    BY <1>1, MissType DEF Define, MixinTypeOK
  <2> QED
    BY <1>1, <2>2, <2>3, <2>4 DEF Define, MixinTypeOK, jobVars
<1>2. ASSUME NEW c \in Ids, CollectClass(c) PROVE MixinTypeOK'
  BY <1>2 DEF CollectClass, MixinTypeOK, jobVars
<1> QED
  BY <1>1, <1>2

LEMMA CountsTyped ==
  ASSUME NEW m \in Counts, NEW classes \in Classification, NEW n \in Nat
  PROVE  Plus(m, classes, n) \in Counts
<1>1. Cardinality(classes.rust) \in Nat /\ Cardinality(classes.python) \in Nat
  BY FS_CardinalityType DEF Classification, FieldSets
<1> DEFINE a == Cardinality(classes.rust)
           b == Cardinality(classes.python)
<1>2. a * n \in Nat /\ b * n \in Nat
  BY <1>1
<1>3. Plus(m, classes, n) = [rust |-> m.rust + a * n, python |-> m.python + b * n,
                             calls |-> m.calls + 1]
  BY DEF Plus
<1> HIDE DEF a, b
<1>4. m.rust \in Nat /\ m.python \in Nat /\ m.calls \in Nat
  BY DEF Counts
<1>5. m.rust + a * n \in Nat /\ m.python + b * n \in Nat /\ m.calls + 1 \in Nat
  BY <1>2, <1>4
<1> QED
  BY <1>3, <1>5 DEF Counts

LEMMA StartTyped ==
  ASSUME MixinTypeOK, NEW t \in Threads, NEW k \in {"single", "list"}, NEW c \in Ids,
         NEW list \in Lists, Start(t, k, c, list)
  PROVE  MixinTypeOK'
<1> DEFINE j == [kind |-> k, class |-> c, pc |-> "schema", classes |-> Miss,
                 todo |-> list, total |-> Len(list), rows |-> <<>>]
<1>1. list \in Seq(Instances) /\ Len(list) \in Nat /\ <<>> \in Seq(Rows)
  BY SerializerAssumption DEF Instances
<1>2. j \in SerialJob
  BY <1>1, MissType DEF SerialJob
<1>3. job' = [job EXCEPT ![t] = j]
  BY DEF Start
<1> HIDE DEF j
<1>4. UNCHANGED <<classVars, metrics, request>>
  BY DEF Start
<1> QED
  BY <1>2, <1>3, <1>4, JobStepType DEF classVars, MixinTypeOK

LEMMA InitSchemaTyped ==
  ASSUME MixinInv, NEW t \in Threads, InitSchema(t)
  PROVE  MixinTypeOK'
<1>1. job[t] \in SerialJob /\ job[t].class \in Live
  BY Kinds_of_jobs DEF MixinInv, JobsOK, JobOK, InitSchema, At, Serial
<1>2. class[job[t].class].model \in Models /\ job[t].class \in Ids
  BY <1>1, LiveClass DEF Class, MixinInv
<1>3. [job[t] EXCEPT !.pc = "drf"] \in SerialJob /\ [job[t] EXCEPT !.pc = "classify"] \in SerialJob
  BY <1>1 DEF SerialJob
<1>4. job' = [job EXCEPT ![t] = [job[t] EXCEPT !.pc = "drf"]]
        \/ job' = [job EXCEPT ![t] = [job[t] EXCEPT !.pc = "classify"]]
  BY DEF InitSchema
<1>5. job' \in [Threads -> {Idle} \cup SerialJob \cup StreamJob]
  BY <1>3, <1>4 DEF MixinInv, MixinTypeOK
<1>6. ownSchema' \in [Ids -> Models \cup {Uninitialized, NoSchema}]
  BY <1>2 DEF InitSchema, MixinInv, MixinTypeOK
<1>7. UNCHANGED <<class, cache, metrics, request>>
  BY DEF InitSchema
<1> QED
  BY <1>5, <1>6, <1>7 DEF MixinInv, MixinTypeOK

\* What the classification leads to.
LEMMA ChosenTyped ==
  ASSUME NEW t, job[t] \in SerialJob, NEW classes \in Classification
  PROVE  /\ Chosen(t, classes) \in SerialJob
         /\ Chosen(t, classes).class = job[t].class /\ Chosen(t, classes).pc = "rows"
         /\ Chosen(t, classes).classes = classes
         /\ Chosen(t, classes).rows = job[t].rows /\ Chosen(t, classes).todo = job[t].todo
         /\ Chosen(t, classes).total = job[t].total
<1>1. Chosen(t, classes) = [job[t] EXCEPT !.classes = classes, !.kind = "list", !.pc = "rows"]
       \/ Chosen(t, classes) = [job[t] EXCEPT !.classes = classes, !.kind = "single", !.pc = "rows"]
  BY DEF Chosen, SerialJob
<1> QED
  BY <1>1 DEF SerialJob

LEMMA HitWorkOutStoreTyped ==
  ASSUME MixinInv, NEW t \in Threads, Hit(t) \/ WorkOut(t) \/ Store(t)
  PROVE  MixinTypeOK'
<1>1. job[t] \in SerialJob /\ job[t].class \in Live
  BY Kinds_of_jobs DEF MixinInv, JobsOK, JobOK, Hit, WorkOut, Store, At, Serial
<1>2. class[job[t].class].fields \in FieldSets /\ job[t].class \in Ids
  BY <1>1, LiveClass DEF Class, MixinInv
<1>3. MixinTypeOK
  BY DEF MixinInv
<1>4. CASE Hit(t)
  <2>1. cache[job[t].class] \in Classification
    BY <1>2, <1>3 DEF MixinTypeOK
  <2>2. Chosen(t, cache[job[t].class]) \in SerialJob
    BY <1>1, <2>1, ChosenTyped
  <2> QED
    BY <1>3, <1>4, <2>2, JobStepType DEF Hit, classVars, MixinTypeOK
<1>5. CASE WorkOut(t)
  <2>1. [job[t] EXCEPT !.pc = "store"] \in SerialJob
    BY <1>1 DEF SerialJob
  <2>2. job' = [job EXCEPT ![t] = [job[t] EXCEPT !.pc = "store"]]
    BY <1>5 DEF WorkOut
  <2> QED
    BY <1>3, <1>5, <2>1, <2>2, JobStepType DEF WorkOut, classVars, MixinTypeOK
<1>6. CASE Store(t)
  <2> DEFINE classes == Classify(class[job[t].class].fields, SchemaOf[job[t].class])
  <2>1. classes \in Classification
    BY <1>2, ClassifyType
  <2>2. /\ job' = [job EXCEPT ![t] = Chosen(t, classes)]
        /\ cache' = [cache EXCEPT ![job[t].class] = classes]
        /\ UNCHANGED <<class, ownSchema, metrics, request>>
    BY <1>6 DEF Store
  <2> HIDE DEF classes
  <2>3. Chosen(t, classes) \in SerialJob
    BY <1>1, <2>1, ChosenTyped
  <2>4. cache' \in [Ids -> Classification]
    BY <1>3, <2>1, <2>2 DEF MixinTypeOK
  <2> QED
    BY <1>3, <2>2, <2>3, <2>4, JobStepType DEF MixinTypeOK
<1> QED
  BY <1>4, <1>5, <1>6

LEMMA NextRowTyped ==
  ASSUME MixinInv, NEW t \in Threads, Serial(t)
  PROVE  NextRow(t) \in Rows
<1>1. job[t] \in SerialJob /\ job[t].class \in Live
  BY Kinds_of_jobs DEF MixinInv, JobsOK, JobOK, Serial
<1>2. class[job[t].class].fields \in SUBSET Names
  BY <1>1, LiveClass DEF Class, MixinInv, FieldSets
<1>3. job[t].classes \in Classification
  BY <1>1 DEF SerialJob
<1>4. DRFRow(class[job[t].class].fields) \in Rows
  BY <1>2, DRFRowType
<1>5. MixedRow(job[t].class, SchemaOf[job[t].class], job[t].classes, job[t].kind) \in Rows
  BY <1>3, MixedRowType
<1> QED
  BY <1>4, <1>5 DEF NextRow, Row

LEMMA EmitTyped ==
  ASSUME MixinInv, NEW t \in Threads, Emit(t)
  PROVE  /\ MixinTypeOK'
         /\ job[t] \in SerialJob
         /\ job' = [job EXCEPT ![t] = [job[t] EXCEPT !.rows = Append(@, NextRow(t)),
                                                     !.todo = Tail(@)]]
<1>1. Serial(t) /\ job[t] \in SerialJob
  BY Kinds_of_jobs DEF MixinInv, Emit, At, Serial
<1> DEFINE j == [job[t] EXCEPT !.rows = Append(@, NextRow(t)), !.todo = Tail(@)]
<1>2. NextRow(t) \in Rows
  BY <1>1, NextRowTyped
<1>3. job[t].rows \in Seq(Rows) /\ job[t].todo \in Seq(Instances) /\ job[t].todo # <<>>
  BY <1>1 DEF SerialJob, Emit
<1>4. Append(job[t].rows, NextRow(t)) \in Seq(Rows) /\ Tail(job[t].todo) \in Seq(Instances)
  BY <1>2, <1>3
<1>5. j \in SerialJob
  BY <1>1, <1>4 DEF SerialJob
<1>6. job' = [job EXCEPT ![t] = j]
  BY DEF Emit
<1>7. UNCHANGED <<classVars, metrics, request>>
  BY DEF Emit
<1> HIDE DEF j
<1>8. MixinTypeOK'
  BY <1>5, <1>6, <1>7, JobStepType DEF classVars, MixinInv, MixinTypeOK
<1> QED
  BY <1>1, <1>6, <1>8 DEF j

LEMMA ReturnTyped ==
  ASSUME MixinInv, NEW t \in Threads, Return(t)
  PROVE  MixinTypeOK'
<1>1. job[t] \in SerialJob
  BY Kinds_of_jobs DEF MixinInv, Return, At, Serial
<1>2. MixinTypeOK
  BY DEF MixinInv
<1>3. job[t].classes \in Classification /\ Len(job[t].rows) \in Nat
  BY <1>1 DEF SerialJob
<1>4. metrics[t] \in Counts /\ request[t] \in [open : BOOLEAN, work : Counts]
  BY <1>2 DEF MixinTypeOK
<1> DEFINE n == Len(job[t].rows)
<1>5. Plus(metrics[t], job[t].classes, n) \in Counts
  BY <1>3, <1>4, CountsTyped
<1>6. Plus(request[t].work, job[t].classes, n) \in Counts
  <2>1. request[t].work \in Counts
    BY <1>4
  <2> QED
    BY <1>3, <2>1, CountsTyped
<1>7. metrics' \in [Threads -> Counts]
  BY <1>2, <1>5 DEF Return, MixinTypeOK
<1>8. request' \in [Threads -> [open : BOOLEAN, work : Counts]]
  <2>1. \/ request' = request
        \/ request' = [request EXCEPT ![t] = [request[t] EXCEPT !.work = Plus(request[t].work, job[t].classes, n)]]
    BY <1>2, <1>4 DEF Return, MixinTypeOK
  <2>2. [request[t] EXCEPT !.work = Plus(request[t].work, job[t].classes, n)]
          \in [open : BOOLEAN, work : Counts]
    BY <1>4, <1>6
  <2> QED
    BY <1>2, <2>1, <2>2 DEF MixinTypeOK
<1> QED
  BY <1>2, <1>7, <1>8, JobStepType DEF Return, classVars, MixinTypeOK

LEMMA RequestTyped ==
  ASSUME MixinTypeOK, NEW t \in Threads, BeginRequest(t) \/ EndRequest(t)
  PROVE  MixinTypeOK'
<1>1. Zero \in Counts
  BY DEF Zero, Counts
<1>2. [open |-> TRUE, work |-> Zero] \in [open : BOOLEAN, work : Counts]
  BY <1>1
<1>3. [request[t] EXCEPT !.open = FALSE] \in [open : BOOLEAN, work : Counts]
  BY DEF MixinTypeOK
<1>4. request' \in [Threads -> [open : BOOLEAN, work : Counts]]
  BY <1>2, <1>3 DEF BeginRequest, EndRequest, MixinTypeOK
<1>5. metrics' \in [Threads -> Counts]
  BY <1>1 DEF BeginRequest, EndRequest, MixinTypeOK
<1> QED
  BY <1>4, <1>5 DEF BeginRequest, EndRequest, MixinTypeOK, classVars

LEMMA StreamTyped ==
  ASSUME MixinTypeOK, NEW t \in Threads, Stream(t)
  PROVE  MixinTypeOK'
<1>1. CASE \E list \in Streams : StartStream(t, list)
  <2>1. PICK list \in Streams : StartStream(t, list)
    BY <1>1
  <2> DEFINE j == [kind |-> "stream", todo |-> list, chunk |-> <<>>, chunks |-> <<>>, read |-> <<>>]
  <2>2. list \in Seq(Instances) /\ <<>> \in Seq(Nat) /\ <<>> \in Seq(Seq(Nat))
        /\ <<>> \in Seq(Instances)
    BY SerializerAssumption DEF Instances
  <2>3. j \in StreamJob
    BY <2>2 DEF StreamJob
  <2>4. job' = [job EXCEPT ![t] = j] /\ UNCHANGED <<classVars, metrics, request>>
    BY <2>1 DEF StartStream
  <2> HIDE DEF j
  <2> QED
    BY <2>3, <2>4, JobStepType DEF classVars, MixinTypeOK
<1>2. CASE Pull(t)
  <2>1. job[t] \in StreamJob
    BY <1>2, Kinds_of_jobs DEF Pull
  <2>2. job[t].todo \in Seq(Instances) /\ job[t].todo # <<>> /\ job[t].chunk \in Seq(Nat)
        /\ job[t].chunks \in Seq(Seq(Nat)) /\ job[t].read \in Seq(Instances)
    BY <1>2, <2>1 DEF Pull, StreamJob
  <2> DEFINE i == Head(job[t].todo)
             chunk == IF i = "good" THEN Append(job[t].chunk, Len(job[t].read) + 1)
                      ELSE job[t].chunk
             chunk1 == IF i = "good" /\ Full(chunk) THEN <<>> ELSE chunk
             chunks1 == IF i = "good" /\ Full(chunk) THEN Append(job[t].chunks, chunk)
                        ELSE job[t].chunks
             j == [job[t] EXCEPT !.todo = Tail(@), !.read = Append(@, i), !.chunk = chunk1,
                                 !.chunks = chunks1]
  <2>3. i \in Instances /\ Tail(job[t].todo) \in Seq(Instances)
    BY <2>2
  <2>4. chunk \in Seq(Nat) /\ Append(job[t].read, i) \in Seq(Instances)
    BY <2>2, <2>3
  <2>5. chunk1 \in Seq(Nat) /\ chunks1 \in Seq(Seq(Nat))
    BY <2>2, <2>4
  <2>6. job' = [job EXCEPT ![t] = j] /\ UNCHANGED <<classVars, metrics, request>>
    BY <1>2 DEF Pull
  <2> HIDE DEF i, chunk, chunk1, chunks1
  <2>7. j \in StreamJob
    BY <2>1, <2>3, <2>4, <2>5 DEF StreamJob
  <2> HIDE DEF j
  <2> QED
    BY <2>6, <2>7, JobStepType DEF classVars, MixinTypeOK
<1>3. CASE LastChunk(t)
  <2>1. job[t] \in StreamJob
    BY <1>3, Kinds_of_jobs DEF LastChunk
  <2>2. Append(job[t].chunks, job[t].chunk) \in Seq(Seq(Nat)) /\ <<>> \in Seq(Nat)
    BY <2>1 DEF StreamJob
  <2> DEFINE j == [job[t] EXCEPT !.chunk = <<>>, !.chunks = Append(@, job[t].chunk)]
  <2>3. j \in StreamJob
    BY <2>1, <2>2 DEF StreamJob
  <2>4. job' = [job EXCEPT ![t] = j] /\ UNCHANGED <<classVars, metrics, request>>
    BY <1>3 DEF LastChunk
  <2> HIDE DEF j
  <2> QED
    BY <2>3, <2>4, JobStepType DEF classVars, MixinTypeOK
<1>4. CASE EndStream(t)
  <2>1. job' = [job EXCEPT ![t] = Idle] /\ UNCHANGED <<classVars, metrics, request>>
    BY <1>4 DEF EndStream
  <2>2. job' \in [Threads -> {Idle} \cup SerialJob \cup StreamJob]
    BY <2>1 DEF MixinTypeOK
  <2> QED
    BY <2>1, <2>2 DEF classVars, MixinTypeOK
<1> QED
  BY <1>1, <1>2, <1>3, <1>4 DEF Stream

LEMMA MixinStepTyped ==
  ASSUME MixinInv, [MixinNext]_mixinVars
  PROVE  MixinTypeOK'
<1>1. MixinTypeOK
  BY DEF MixinInv
<1>2. ASSUME NEW t \in Threads, Serialize(t) PROVE MixinTypeOK'
  BY <1>1, <1>2, StartTyped, InitSchemaTyped, HitWorkOutStoreTyped, EmitTyped, ReturnTyped
     DEF Serialize
<1>3. CASE UNCHANGED mixinVars
  BY <1>1, <1>3 DEF mixinVars, MixinTypeOK
<1> QED
  BY <1>1, <1>2, <1>3, ClassesTyped, StreamTyped, RequestTyped DEF MixinNext

-------------------------------------------------------------------------------
\* Classes and what they find.
LEMMA SchemasStay ==
  ASSUME MixinInv, BasesOK', NEW K \in SUBSET Live,
         \A c \in K : class[c].parent \in K \cup {Mixin},
         \A c \in K : /\ class'[c] = class[c]
                      /\ ownSchema'[c] = ownSchema[c] \/ SchemaOf[c] = Uninitialized
  PROVE  \A c \in K : SchemaOf[c] # Uninitialized => SchemaOf'[c] = SchemaOf[c]
<1>1. PICK r : Ranked(class, r)
  BY DEF MixinInv, BasesOK
<1>2. PICK q : Ranked(class', q)
  BY DEF BasesOK
<1>3. K \in SUBSET Ids
  BY DEF Live
<1>4. SchemaOf = LookUp(class, ownSchema) /\ SchemaOf' = LookUp(class', ownSchema')
  BY SchemaIsLookedUp
<1> DEFINE f == LookUp(class, ownSchema)
           g == LookUp(class', ownSchema')
<1>5. \A c \in K : class[c] # Free => class[c].parent \in K \cup {Mixin}
  OBVIOUS
<1>6. \A c \in K : class'[c] = class[c] /\ (ownSchema'[c] = ownSchema[c] \/ f[c] = Uninitialized)
  BY <1>4
<1>7. \A c \in K : f[c] # Uninitialized => g[c] = f[c]
  BY <1>1, <1>2, <1>3, <1>5, <1>6, SchemaKept
<1> QED
  BY <1>4, <1>7

\* Where a class and what it found stay, so does what is cached for it, and a
\* job that uses it goes on.
Stays(c) ==
  /\ c \in Live' /\ class'[c] = class[c]
  /\ SchemaOf[c] # Uninitialized => SchemaOf'[c] = SchemaOf[c]

UsedStay == \A u \in Threads : Serial(u) => Stays(job[u].class)

LEMMA JobStays ==
  ASSUME NEW t \in Threads, JobOK(t), job'[t] = job[t], Serial(t) => Stays(job[t].class)
  PROVE  JobOK(t)'
BY DEF JobOK, Serial, Stays

LEMMA CacheStays ==
  ASSUME CacheFitsClass, \A c \in Live' : cache'[c] = Miss \/ (c \in Live /\ Stays(c) /\ cache'[c] = cache[c])
  PROVE  CacheFitsClass'
BY DEF CacheFitsClass, Stays

LEMMA DefineKeeps ==
  ASSUME MixinInv, NEW c \in Ids, NEW parent \in Ids \cup {Mixin}, NEW m \in Models,
         NEW fields \in Shapes, Define(c, parent, m, fields)
  PROVE  BasesOK' /\ FieldsOK' /\ JobsOK' /\ CacheFitsClass' /\ UsedStay
<1> DEFINE new == [model |-> m, fields |-> fields, parent |-> parent]
<1>1. /\ class[c] = Free /\ parent \in Live \cup {Mixin} /\ Declares(m, fields)
      /\ class' = [class EXCEPT ![c] = new]
      /\ ownSchema' = [ownSchema EXCEPT ![c] = Uninitialized]
      /\ cache' = [cache EXCEPT ![c] = Miss]
      /\ job' = job
  BY DEF Define, jobVars
<1>2. /\ class \in [Ids -> {Free} \cup Class] /\ DOMAIN ownSchema = Ids
      /\ DOMAIN cache = Ids
  BY DEF MixinInv, MixinTypeOK
<1>3. new.model = m /\ new.fields = fields /\ new.parent = parent
  OBVIOUS
<1>4. c \notin Live
  BY <1>1 DEF Live
<1>5. \A d \in Ids \ {c} : class'[d] = class[d] /\ ownSchema'[d] = ownSchema[d] /\ cache'[d] = cache[d]
  BY <1>1, <1>2
<1>6. class'[c] = new /\ cache'[c] = Miss
  BY <1>1, <1>2
<1>7. new # Free
  BY DEF Free
<1> HIDE DEF new
<1>8. Live' = Live \cup {c}
  BY <1>5, <1>6, <1>7 DEF Live
<1>9. c # Mixin
  BY SerializerAssumption
<1>10. BasesOK'
  <2>1. ASSUME NEW d \in Live' PROVE class'[d].parent \in Live' \cup {Mixin}
    BY <1>1, <1>3, <1>4, <1>5, <1>6, <1>8 DEF MixinInv, BasesOK, Live
  <2>2. PICK r : Ranked(class, r)
    BY DEF MixinInv, BasesOK
  <2> DEFINE q == [r EXCEPT ![c] = r[parent] + 1]
  <2>3. r \in [Addresses -> Nat] /\ parent \in Addresses /\ c \in Addresses /\ parent # c
    BY <1>1, <1>4, <1>9, <2>2 DEF Ranked, Addresses
  <2>4. q \in [Addresses -> Nat] /\ q[c] = r[parent] + 1 /\ q[parent] = r[parent]
        /\ \A d \in Addresses : d # c => q[d] = r[d]
    BY <2>3
  <2> HIDE DEF q
  <2>5. ASSUME NEW d \in Ids, class'[d] # Free
        PROVE  class'[d].parent \in Addresses /\ q[class'[d].parent] < q[d]
    <3>1. CASE d = c
      BY <1>3, <1>6, <2>3, <2>4, <3>1
    <3>2. CASE d # c
      <4>1. class'[d] = class[d] /\ d \in Live
        BY <1>5, <2>5, <3>2 DEF Live
      <4>2. class[d].parent \in Live \cup {Mixin}
        BY <4>1 DEF MixinInv, BasesOK
      <4>3. class[d].parent # c
        BY <1>4, <1>9, <4>2
      <4>4. class[d].parent \in Addresses /\ r[class[d].parent] < r[d]
        BY <2>2, <4>1 DEF Ranked, Live
      <4> QED
        BY <2>4, <3>2, <4>1, <4>3, <4>4 DEF Addresses
    <3> QED
      BY <3>1, <3>2
  <2>6. Ranked(class', q)
    BY <2>4, <2>5 DEF Ranked
  <2> QED
    BY <2>1, <2>6 DEF BasesOK
<1>11. FieldsOK'
  BY <1>1, <1>3, <1>4, <1>5, <1>6, <1>8 DEF MixinInv, FieldsOK, Live, Declares
<1>12. \A d \in Live : Stays(d)
  <2>1. \A d \in Live : d # c /\ d \in Ids
    BY <1>4 DEF Live
  <2>2. \A d \in Live : SchemaOf[d] # Uninitialized => SchemaOf'[d] = SchemaOf[d]
    <3>1. \A d \in Live : class[d].parent \in Live \cup {Mixin}
      BY DEF MixinInv, BasesOK
    <3>2. \A d \in Live : /\ class'[d] = class[d]
                          /\ ownSchema'[d] = ownSchema[d] \/ SchemaOf[d] = Uninitialized
      BY <1>5, <2>1
    <3> QED
      BY <1>10, <3>1, <3>2, SchemasStay
  <2> QED
    BY <1>5, <1>8, <2>1, <2>2 DEF Stays
<1>13. JobsOK'
  <2> SUFFICES ASSUME NEW t \in Threads PROVE JobOK(t)'
    BY DEF JobsOK
  <2>1. JobOK(t) /\ (Serial(t) => job[t].class \in Live)
    BY DEF MixinInv, JobsOK, JobOK
  <2> QED
    BY <1>1, <1>12, <2>1, JobStays
<1>14. CacheFitsClass'
  <2>1. \A d \in Live' : cache'[d] = Miss \/ (d \in Live /\ Stays(d) /\ cache'[d] = cache[d])
    BY <1>4, <1>5, <1>6, <1>8, <1>12 DEF Live
  <2> QED
    BY <2>1, CacheStays DEF MixinInv
<1>15. UsedStay
  BY <1>12 DEF UsedStay, MixinInv, JobsOK, JobOK
<1> QED
  BY <1>10, <1>11, <1>13, <1>14, <1>15

LEMMA CollectKeeps ==
  ASSUME MixinInv, NEW c \in Ids, CollectClass(c)
  PROVE  BasesOK' /\ FieldsOK' /\ JobsOK' /\ CacheFitsClass' /\ UsedStay
<1>1. /\ c \in Live /\ Using(c) = {} /\ \A d \in Live : class[d].parent # c
      /\ class' = [class EXCEPT ![c] = Free]
      /\ UNCHANGED <<ownSchema, cache, job>>
  BY DEF CollectClass, jobVars
<1>2. class \in [Ids -> {Free} \cup Class]
  BY DEF MixinInv, MixinTypeOK
<1>3. \A d \in Ids \ {c} : class'[d] = class[d]
  BY <1>1, <1>2
<1>4. class'[c] = Free
  BY <1>1, <1>2
<1>5. Live' = Live \ {c} /\ Live \subseteq Ids
  BY <1>3, <1>4 DEF Live
<1>6. BasesOK'
  <2>1. PICK r : Ranked(class, r)
    BY DEF MixinInv, BasesOK
  <2>2. Ranked(class', r)
    BY <1>3, <1>4, <2>1 DEF Ranked
  <2>3. ASSUME NEW d \in Live' PROVE class'[d].parent \in Live' \cup {Mixin}
    BY <1>1, <1>3, <1>5 DEF MixinInv, BasesOK
  <2> QED
    BY <2>2, <2>3 DEF BasesOK
<1>7. FieldsOK'
  BY <1>3, <1>5 DEF MixinInv, FieldsOK, Declares
<1>8. \A d \in Live' : d \in Live /\ Stays(d)
  <2> DEFINE K == Live \ {c}
  <2>1. K \in SUBSET Live
    OBVIOUS
  <2>2. \A d \in K : class[d].parent \in K \cup {Mixin}
    BY <1>1 DEF MixinInv, BasesOK
  <2>3. \A d \in K : /\ class'[d] = class[d]
                     /\ ownSchema'[d] = ownSchema[d] \/ SchemaOf[d] = Uninitialized
    BY <1>1, <1>3, <1>5
  <2>4. K = Live'
    BY <1>5
  <2> HIDE DEF K
  <2>5. \A d \in K : SchemaOf[d] # Uninitialized => SchemaOf'[d] = SchemaOf[d]
    BY <1>6, <2>1, <2>2, <2>3, SchemasStay
  <2> QED
    BY <2>1, <2>3, <2>4, <2>5 DEF Stays
<1>9. JobsOK'
  <2> SUFFICES ASSUME NEW t \in Threads PROVE JobOK(t)'
    BY DEF JobsOK
  <2>1. JobOK(t) /\ (Serial(t) => job[t].class \in Live)
    BY DEF MixinInv, JobsOK, JobOK
  <2>2. Serial(t) => job[t].class # c
    BY <1>1 DEF Using, Serial
  <2> QED
    BY <1>1, <1>5, <1>8, <2>1, <2>2, JobStays
<1>10. CacheFitsClass'
  <2>1. \A d \in Live' : cache'[d] = Miss \/ (d \in Live /\ Stays(d) /\ cache'[d] = cache[d])
    BY <1>1, <1>8
  <2> QED
    BY <2>1, CacheStays DEF MixinInv
<1>11. UsedStay
  BY <1>1, <1>5, <1>8 DEF UsedStay, MixinInv, JobsOK, JobOK, Serial, Using
<1> QED
  BY <1>6, <1>7, <1>9, <1>10, <1>11

\* A thread looks for the schema of its class.
LEMMA InitSchemaKeeps ==
  ASSUME MixinInv, NEW t \in Threads, InitSchema(t)
  PROVE  BasesOK' /\ FieldsOK' /\ JobsOK' /\ CacheFitsClass' /\ UsedStay
<1> DEFINE c == job[t].class
           new == IF SchemaOf[c] # Uninitialized THEN ownSchema[c]
                  ELSE IF class[c].model \in Uncompiled THEN NoSchema ELSE class[c].model
<1>1. job[t] \in SerialJob /\ c \in Live /\ Serial(t)
  BY Kinds_of_jobs DEF MixinInv, JobsOK, JobOK, InitSchema, At, Serial
<1>2. /\ ownSchema' = [ownSchema EXCEPT ![c] = new]
      /\ UNCHANGED <<class, cache, metrics, request>>
      /\ job' = [job EXCEPT ![t].pc =
           IF NoSchema \in {SchemaOf[c], ownSchema'[c]} THEN "drf" ELSE "classify"]
  BY DEF InitSchema
<1>3. /\ DOMAIN ownSchema = Ids /\ class[c].model \in Models /\ c \in Ids /\ class[c] # Free
      /\ job \in [Threads -> {Idle} \cup SerialJob \cup StreamJob]
  BY <1>1, LiveClass DEF MixinInv, MixinTypeOK, Class
<1>4. /\ ownSchema'[c] = new
      /\ \A d \in Ids : d # c => ownSchema'[d] = ownSchema[d]
  BY <1>2, <1>3
<1>5. Live' = Live /\ BasesOK' /\ FieldsOK'
  BY <1>2 DEF MixinInv, Live, BasesOK, FieldsOK
<1>6. \A d \in Live : Stays(d)
  <2>1. \A d \in Live : class[d].parent \in Live \cup {Mixin}
    BY DEF MixinInv, BasesOK
  <2>2. \A d \in Live : /\ class'[d] = class[d]
                        /\ ownSchema'[d] = ownSchema[d] \/ SchemaOf[d] = Uninitialized
    BY <1>2, <1>4 DEF Live
  <2>3. \A d \in Live : SchemaOf[d] # Uninitialized => SchemaOf'[d] = SchemaOf[d]
    BY <1>5, <2>1, <2>2, SchemasStay
  <2> QED
    BY <1>5, <2>2, <2>3 DEF Stays
<1>7. CacheFitsClass'
  <2>1. \A d \in Live' : cache'[d] = Miss \/ (d \in Live /\ Stays(d) /\ cache'[d] = cache[d])
    BY <1>2, <1>5, <1>6
  <2> QED
    BY <2>1, CacheStays DEF MixinInv
<1>8. /\ SchemaOf'[c] # Uninitialized
      /\ NoSchema \notin {SchemaOf[c], ownSchema'[c]} => SchemaOf'[c] # NoSchema
  <2>1. CASE SchemaOf[c] # Uninitialized
    BY <1>1, <1>6, <2>1 DEF Stays
  <2>2. CASE SchemaOf[c] = Uninitialized
    <3>1. new # Uninitialized
      BY <1>3, <2>2, SerializerAssumption DEF NoSchema, Uninitialized
    <3>2. PICK r : Ranked(class', r)
      BY <1>5 DEF BasesOK
    <3>3. SchemaOf'[c] = Found(class', ownSchema', SchemaOf', c)
      BY <1>3, <3>2, LookUpFinds, SchemaIsLookedUp DEF Addresses
    <3>4. SchemaOf'[c] = new
      BY <1>3, <1>4, <3>1, <3>3, SerializerAssumption DEF Found
    <3> QED
      BY <1>4, <3>1, <3>4
  <2> QED
    BY <2>1, <2>2
<1>9. JobsOK'
  <2> SUFFICES ASSUME NEW u \in Threads PROVE JobOK(u)'
    BY DEF JobsOK
  <2>1. JobOK(u) /\ (Serial(u) => job[u].class \in Live)
    BY DEF MixinInv, JobsOK, JobOK
  <2>2. CASE u # t
    BY <1>2, <1>3, <1>6, <2>1, <2>2, JobStays
  <2>3. CASE u = t
    <3> DEFINE pc1 == IF NoSchema \in {SchemaOf[c], ownSchema'[c]} THEN "drf" ELSE "classify"
    <3>1. job'[t] = [job[t] EXCEPT !.pc = pc1]
      BY <1>2, <1>3
    <3>2. job'[t].class = c /\ job'[t].pc = pc1
      BY <1>1, <3>1 DEF SerialJob
    <3>3. c \in Live'
      BY <1>1, <1>5
    <3>4. pc1 # "rows" /\ pc1 # "schema" /\ pc1 # "store"
          /\ (pc1 = "classify" => SchemaOf'[c] # NoSchema)
      BY <1>8
    <3> HIDE DEF c, pc1
    <3>5. JobOK(t)'
      BY <1>8, <3>2, <3>3, <3>4 DEF JobOK
    <3> QED
      BY <2>3, <3>5
  <2> QED
    BY <2>2, <2>3
<1>10. UsedStay
  BY <1>6 DEF UsedStay, MixinInv, JobsOK, JobOK
<1> QED
  BY <1>5, <1>7, <1>9, <1>10

\* The other steps change no class and none of their schemas.
LEMMA ClassesAlone ==
  ASSUME MixinInv, class' = class, ownSchema' = ownSchema
  PROVE  /\ SchemaOf' = SchemaOf /\ Live' = Live /\ BasesOK' /\ FieldsOK'
         /\ \A c \in Live : Stays(c)
         /\ UsedStay
         /\ cache' = cache => CacheFitsClass'
<1>1. SchemaOf' = SchemaOf
  BY SchemaIsLookedUp
<1>2. Live' = Live /\ BasesOK' /\ FieldsOK'
  BY DEF MixinInv, Live, BasesOK, FieldsOK
<1>3. \A c \in Live : Stays(c)
  BY <1>1, <1>2 DEF Stays
<1>4. cache' = cache => CacheFitsClass'
  BY <1>2, <1>3, CacheStays DEF MixinInv
<1>5. UsedStay
  BY <1>3 DEF UsedStay, MixinInv, JobsOK, JobOK
<1> QED
  BY <1>1, <1>2, <1>3, <1>4, <1>5

\* If one thread's job changes, only that job has to be looked at.
LEMMA OneJob ==
  ASSUME MixinInv, class' = class, ownSchema' = ownSchema, NEW t \in Threads,
         \A u \in Threads : u # t => job'[u] = job[u], JobOK(t)'
  PROVE  JobsOK'
<1> SUFFICES ASSUME NEW u \in Threads, u # t PROVE JobOK(u)'
  BY DEF JobsOK
<1>1. JobOK(u) /\ (Serial(u) => job[u].class \in Live)
  BY DEF MixinInv, JobsOK, JobOK
<1> QED
  BY <1>1, ClassesAlone, JobStays

\* A job that is given its classification.
LEMMA ChosenOK ==
  ASSUME MixinInv, NEW t \in Threads, Serial(t), job[t].pc \in {"classify", "store"},
         class' = class, ownSchema' = ownSchema,
         NEW classes \in Classification, job' = [job EXCEPT ![t] = Chosen(t, classes)],
         classes = Classify(class[job[t].class].fields, SchemaOf[job[t].class])
  PROVE  JobsOK'
<1>1. job[t] \in SerialJob /\ JobOK(t) /\ job \in [Threads -> {Idle} \cup SerialJob \cup StreamJob]
  BY Kinds_of_jobs DEF MixinInv, JobsOK, MixinTypeOK
<1>2. job'[t] = Chosen(t, classes) /\ \A u \in Threads : u # t => job'[u] = job[u]
  BY <1>1
<1>3. /\ job'[t].class = job[t].class /\ job'[t].pc = "rows" /\ job'[t].classes = classes
  BY <1>1, <1>2, ChosenTyped
<1>4. /\ job[t].class \in Live /\ SchemaOf[job[t].class] \notin {Uninitialized, NoSchema}
  BY <1>1 DEF JobOK
<1>5. SchemaOf' = SchemaOf /\ Live' = Live
  BY ClassesAlone
<1>6. JobOK(t)'
  BY <1>3, <1>4, <1>5 DEF JobOK
<1> QED
  BY <1>2, <1>6, OneJob

LEMMA SerialStepsKeep ==
  ASSUME MixinInv, NEW t \in Threads,
         Hit(t) \/ WorkOut(t) \/ Store(t) \/ Emit(t) \/ Return(t)
  PROVE  BasesOK' /\ FieldsOK' /\ JobsOK' /\ CacheFitsClass' /\ UsedStay
<1> DEFINE c == job[t].class
<1>1. /\ Serial(t) /\ job[t] \in SerialJob /\ c \in Live /\ c \in Ids /\ JobOK(t)
      /\ class[c].fields \in FieldSets
  <2>1. Serial(t)
    BY DEF Hit, WorkOut, Store, Emit, Return, At, Serial
  <2>2. JobOK(t) /\ job[t] \in SerialJob /\ c \in Live
    BY <2>1, Kinds_of_jobs DEF MixinInv, JobsOK, JobOK
  <2> QED
    BY <2>1, <2>2, LiveClass DEF MixinInv, Class
<1>2. class' = class /\ ownSchema' = ownSchema
  BY DEF Hit, WorkOut, Store, Emit, Return, classVars
<1>3. BasesOK' /\ FieldsOK' /\ SchemaOf' = SchemaOf /\ Live' = Live /\ UsedStay
  BY <1>2, ClassesAlone
<1>4. job \in [Threads -> {Idle} \cup SerialJob \cup StreamJob] /\ DOMAIN cache = Ids
      /\ cache \in [Ids -> Classification]
  BY DEF MixinInv, MixinTypeOK
<1>5. CASE Hit(t)
  <2>1. cache[c] # Miss /\ cache[c] \in Classification /\ job[t].pc = "classify"
        /\ job' = [job EXCEPT ![t] = Chosen(t, cache[c])] /\ cache' = cache
    BY <1>1, <1>4, <1>5 DEF Hit, At, classVars
  <2>2. cache[c] = Classify(class[c].fields, SchemaOf[c])
    BY <1>1, <2>1 DEF MixinInv, CacheFitsClass
  <2>3. JobsOK'
    BY <1>1, <1>2, <2>1, <2>2, ChosenOK
  <2> QED
    BY <1>2, <1>3, <2>1, <2>3, ClassesAlone
<1>6. CASE WorkOut(t)
  <2>1. job' = [job EXCEPT ![t].pc = "store"] /\ cache' = cache /\ job[t].pc = "classify"
    BY <1>6 DEF WorkOut, At, classVars
  <2>2. job'[t] = [job[t] EXCEPT !.pc = "store"] /\ \A u \in Threads : u # t => job'[u] = job[u]
    BY <1>4, <2>1
  <2>3. job'[t].class = c /\ job'[t].pc = "store"
    BY <1>1, <2>2 DEF SerialJob
  <2>4. JobOK(t)'
    BY <1>1, <1>3, <2>1, <2>3 DEF JobOK
  <2> QED
    BY <1>2, <1>3, <2>1, <2>2, <2>4, OneJob, ClassesAlone
<1>7. CASE Store(t)
  <2> DEFINE classes == Classify(class[c].fields, SchemaOf[c])
  <2>1. /\ job' = [job EXCEPT ![t] = Chosen(t, classes)] /\ job[t].pc = "store"
        /\ cache' = [cache EXCEPT ![c] = classes]
    BY <1>7 DEF Store, At
  <2>2. classes \in Classification
    BY <1>1, ClassifyType
  <2>3. JobsOK'
    BY <1>1, <1>2, <2>1, <2>2, ChosenOK
  <2>4. SchemaOf[c] # Uninitialized
    BY <1>1, <2>1 DEF JobOK
  <2>5. cache'[c] = classes /\ \A d \in Ids : d # c => cache'[d] = cache[d]
    BY <1>1, <1>4, <2>1
  <2>6. CacheFitsClass'
    BY <1>2, <1>3, <2>4, <2>5 DEF MixinInv, CacheFitsClass, Live
  <2> QED
    BY <1>3, <2>3, <2>6
<1>8. CASE Emit(t)
  <2>1. /\ job' = [job EXCEPT ![t] = [job[t] EXCEPT !.rows = Append(@, NextRow(t)),
                                                   !.todo = Tail(@)]]
        /\ cache' = cache
    BY <1>8, EmitTyped DEF Emit, classVars
  <2>2. job'[t] = [job[t] EXCEPT !.rows = Append(@, NextRow(t)), !.todo = Tail(@)]
        /\ \A u \in Threads : u # t => job'[u] = job[u]
    BY <1>4, <2>1
  <2>3. job'[t].class = c /\ job'[t].pc = job[t].pc /\ job'[t].classes = job[t].classes
    BY <1>1, <2>2 DEF SerialJob
  <2>4. JobOK(t)'
    BY <1>1, <1>2, <1>3, <2>3 DEF JobOK
  <2> QED
    BY <1>2, <1>3, <2>1, <2>2, <2>4, OneJob, ClassesAlone
<1>9. CASE Return(t)
  <2>1. job' = [job EXCEPT ![t] = Idle] /\ cache' = cache
    BY <1>9 DEF Return, classVars
  <2>2. job'[t] = Idle /\ \A u \in Threads : u # t => job'[u] = job[u]
    BY <1>4, <2>1
  <2>3. JobOK(t)'
    BY <2>2 DEF JobOK, Serial, Idle
  <2> QED
    BY <1>2, <1>3, <2>1, <2>2, <2>3, OneJob, ClassesAlone
<1> QED
  BY <1>5, <1>6, <1>7, <1>8, <1>9

\* A job that begins has looked at nothing; a stream looks at no class.
LEMMA OtherStepsKeep ==
  ASSUME MixinInv, NEW t \in Threads,
         \/ \E k \in {"single", "list"}, c \in Ids, list \in Lists : Start(t, k, c, list)
         \/ Stream(t) \/ BeginRequest(t) \/ EndRequest(t)
  PROVE  BasesOK' /\ FieldsOK' /\ JobsOK' /\ CacheFitsClass' /\ UsedStay
<1>1. class' = class /\ ownSchema' = ownSchema /\ cache' = cache
  BY DEF Start, Stream, StartStream, Pull, LastChunk, EndStream, BeginRequest, EndRequest,
         classVars
<1>2. /\ BasesOK' /\ FieldsOK' /\ SchemaOf' = SchemaOf /\ Live' = Live /\ CacheFitsClass'
      /\ UsedStay
  BY <1>1, ClassesAlone
<1>3. job \in [Threads -> {Idle} \cup SerialJob \cup StreamJob]
  BY DEF MixinInv, MixinTypeOK
<1>4. \A u \in Threads : u # t => job'[u] = job[u]
  BY <1>3 DEF Start, Stream, StartStream, Pull, LastChunk, EndStream, BeginRequest, EndRequest
<1>5. JobOK(t)'
  <2>1. ASSUME NEW k \in {"single", "list"}, NEW c \in Ids, NEW list \in Lists, Start(t, k, c, list)
        PROVE  JobOK(t)'
    <3>1. job'[t].class = c /\ job'[t].pc = "schema" /\ c \in Live
      BY <1>3, <2>1 DEF Start
    <3> QED
      BY <1>2, <3>1 DEF JobOK
  <2>2. CASE Stream(t)
    <3>1. job'[t].kind = "stream" \/ job'[t] = Idle
      <4>1. CASE \E list \in Streams : StartStream(t, list)
        BY <1>3, <4>1 DEF StartStream
      <4>2. CASE Pull(t)
        <5>1. job[t] \in StreamJob
          BY <4>2, Kinds_of_jobs DEF Pull, MixinInv
        <5> QED
          BY <1>3, <4>2, <5>1 DEF Pull, StreamJob
      <4>3. CASE LastChunk(t)
        <5>1. job[t] \in StreamJob
          BY <4>3, Kinds_of_jobs DEF LastChunk, MixinInv
        <5> QED
          BY <1>3, <4>3, <5>1 DEF LastChunk, StreamJob
      <4>4. CASE EndStream(t)
        BY <1>3, <4>4 DEF EndStream
      <4> QED
        BY <2>2, <4>1, <4>2, <4>3, <4>4 DEF Stream
    <3> QED
      BY <3>1 DEF JobOK, Serial, Idle
  <2>3. CASE BeginRequest(t) \/ EndRequest(t)
    BY <1>1, <1>2, <2>3 DEF BeginRequest, EndRequest, MixinInv, JobsOK, JobOK, Serial
  <2> QED
    BY <2>1, <2>2, <2>3
<1> QED
  BY <1>1, <1>2, <1>4, <1>5, OneJob

LEMMA MixinInitial == MixinInit => MixinInv
<1> SUFFICES ASSUME MixinInit PROVE MixinInv
  OBVIOUS
<1>1. Live = {}
  BY DEF MixinInit, Live
<1>2. Zero \in Counts /\ Miss \in Classification
  BY MissType DEF Zero, Counts
<1>3. MixinTypeOK
  BY <1>2 DEF MixinInit, MixinTypeOK
<1>4. BasesOK
  <2>1. Ranked(class, [c \in Addresses |-> 0])
    BY DEF MixinInit, Ranked
  <2> QED
    BY <1>1, <2>1 DEF BasesOK
<1>5. FieldsOK /\ CacheFitsClass
  BY <1>1 DEF FieldsOK, CacheFitsClass
<1>6. JobsOK
  BY DEF MixinInit, JobsOK, JobOK, Serial, Idle
<1> QED
  BY <1>3, <1>4, <1>5, <1>6 DEF MixinInv

LEMMA MixinStep ==
  ASSUME MixinInv, [MixinNext]_mixinVars
  PROVE  MixinInv' /\ UsedStay
<1>1. MixinTypeOK'
  BY MixinStepTyped
<1>2. BasesOK' /\ FieldsOK' /\ JobsOK' /\ CacheFitsClass' /\ UsedStay
  <2>1. ASSUME NEW t \in Threads, Serialize(t)
        PROVE  BasesOK' /\ FieldsOK' /\ JobsOK' /\ CacheFitsClass' /\ UsedStay
    BY <2>1, SerialStepsKeep, OtherStepsKeep, InitSchemaKeeps DEF Serialize
  <2>2. ASSUME NEW t \in Threads, Stream(t) \/ BeginRequest(t) \/ EndRequest(t)
        PROVE  BasesOK' /\ FieldsOK' /\ JobsOK' /\ CacheFitsClass' /\ UsedStay
    BY <2>2, OtherStepsKeep
  <2>3. CASE UNCHANGED mixinVars
    <3>1. UNCHANGED <<class, ownSchema, cache, job>>
      BY <2>3 DEF mixinVars
    <3>2. /\ SchemaOf' = SchemaOf /\ Live' = Live /\ BasesOK' /\ FieldsOK' /\ CacheFitsClass'
          /\ UsedStay
      BY <3>1, ClassesAlone
    <3> QED
      BY <3>1, <3>2 DEF MixinInv, JobsOK, JobOK, Serial
  <2> QED
    BY <2>1, <2>2, <2>3, DefineKeeps, CollectKeeps DEF MixinNext
<1> QED
  BY <1>1, <1>2 DEF MixinInv

\* The inductive invariant of the caches.
THEOREM MixinInvariant == MixinSpec => []MixinInv
<1>1. MixinInit => MixinInv
  BY MixinInitial
<1>2. MixinInv /\ [MixinNext]_mixinVars => MixinInv'
  BY MixinStep
<1> QED
  BY <1>1, <1>2, PTL DEF MixinSpec

\* However classes are derived, collected and replaced at the same address, and
\* whatever threads use them, what is cached for a class is its own classification.
THEOREM CacheFits == MixinSpec => []CacheFitsClass
<1>1. MixinInv => CacheFitsClass
  BY DEF MixinInv
<1> QED
  BY <1>1, MixinInvariant, PTL

-------------------------------------------------------------------------------
(***************************************************************************)
(* Rows.                                                                   *)
(***************************************************************************)
RowsOK(t) ==
  Serial(t) =>
    /\ Len(job[t].rows) + Len(job[t].todo) = job[t].total
    /\ job[t].pc \in {"schema", "classify", "store"} => job[t].rows = <<>>
    /\ job[t].pc \in {"rows", "drf"} /\ PlainClass(job[t].class) =>
         \A i \in DOMAIN job[t].rows :
           LikeDRF(job[t].rows[i], class[job[t].class].fields, class[job[t].class].model)

RowsInv == \A t \in Threads : RowsOK(t)

\* A value goes through the Rust type of its own column and, unless that writes it
\* in its own way, reads the same.
LEMMA SameTypeReadsAlike ==
  ASSUME NEW m \in Models, NEW f \in DOMAIN Compile[m] \ Differing(m)
  PROVE  RustValue(m, m, f) = "value"
<1>1. Compile[m] = [g \in {h \in DOMAIN Columns[m] : Columns[m][h] \in DOMAIN RustType} |->
                      RustType[Columns[m][g]]]
  BY DEF Compile
<1>2. Columns[m][f] \in DOMAIN RustType /\ Compile[m][f] = RustType[Columns[m][f]]
  BY <1>1
<1>3. \A d \in DOMAIN RustType : RustType[d] \in RustTypes
  BY DEF RustType, RustTypes
<1>4. Compile[m][f] \in RustTypes \ OwnWay
  BY <1>2, <1>3 DEF Differing
<1>5. <<Compile[m][f], Compile[m][f]>> \in Alike
  BY <1>4 DEF Alike
<1> QED
  BY <1>5 DEF RustValue

\* The row of a plain class, whichever way it is made.
LEMMA PlainRow ==
  ASSUME MixinTypeOK, FieldsOK, NEW c \in Live, PlainClass(c), SchemaOf[c] # NoSchema,
         NEW k, NEW instance
  PROVE  LikeDRF(Row(c, SchemaOf[c], Classify(class[c].fields, SchemaOf[c]), k, instance),
                 class[c].fields, class[c].model)
<1> DEFINE m == class[c].model
           F == class[c].fields
           rust == {f \in F \cap DOMAIN Compile[m] : Kind[f] \in {"column", "write_only"}}
           classes == Classify(F, m)
<1>1. SchemaOf[c] = m /\ m \in Models /\ m # NoSchema
  BY LiveClass DEF PlainClass, Class
<1>2. classes.rust = rust /\ classes.python = F \ rust
  BY <1>1 DEF Classify
<1>3. \A f \in F : Kind[f] \in {"column", "key", "relation"}
  BY DEF PlainClass
<1>4. \A f \in F : Kind[f] = "column" => f \in DOMAIN Compile[m]
  BY DEF FieldsOK, Declares
<1>5. \A f \in rust \ Differing(m) : RustValue(m, m, f) = "value"
  BY <1>1, SameTypeReadsAlike
<1>6. \A f \in F \ rust : PythonValue(f, k) = "value"
  <2>1. \A f \in F \ rust : Kind[f] \in {"key", "relation"}
    BY <1>3, <1>4
  <2> QED
    BY <2>1 DEF PythonValue
<1>7. (classes.rust \cap DOMAIN Compile[m]) \cup classes.python = F
  BY <1>2
<1>8. {g \in F : Kind[g] # "write_only"} = F
  BY <1>3
<1> HIDE DEF m, F, classes, rust
<1>9. MixedRow(c, m, classes, k) = [f \in F |->
        IF f \in rust THEN RustValue(m, m, f) ELSE PythonValue(f, k)]
  BY <1>2, <1>7 DEF MixedRow, m
<1>10. DRFRow(F) = [f \in F |-> "value"]
  BY <1>8 DEF DRFRow
<1>11. LikeDRF(MixedRow(c, m, classes, k), F, m)
  BY <1>5, <1>6, <1>9, <1>10 DEF LikeDRF
<1>12. LikeDRF(DRFRow(F), F, m)
  BY DEF LikeDRF
<1> QED
  BY <1>1, <1>11, <1>12 DEF Row, classes, F, m

LEMMA RowsStay ==
  ASSUME NEW t \in Threads, JobOK(t), RowsOK(t), job'[t] = job[t], Serial(t) => Stays(job[t].class)
  PROVE  RowsOK(t)'
<1>1. ~Serial(t) => ~Serial(t)'
  BY DEF Serial
<1>2. \A row, fields, m : LikeDRF(row, fields, m)' = LikeDRF(row, fields, m)
  BY DEF LikeDRF, DRFRow, Differing
<1>3. Serial(t) /\ job[t].pc \in {"rows", "drf"} =>
        /\ class'[job[t].class] = class[job[t].class]
        /\ PlainClass(job[t].class)' = PlainClass(job[t].class)
  BY DEF JobOK, Stays, PlainClass
<1> QED
  BY <1>1, <1>2, <1>3 DEF RowsOK, Serial

\* What the step of a thread's job does to its rows.
LEMMA RowsStep ==
  ASSUME MixinInv, RowsInv, NEW t \in Threads, Serialize(t)
  PROVE  RowsOK(t)'
<1>0. /\ job \in [Threads -> {Idle} \cup SerialJob \cup StreamJob]
      /\ MixinTypeOK /\ FieldsOK /\ RowsOK(t) /\ JobOK(t)
  BY DEF MixinInv, MixinTypeOK, RowsInv, JobsOK
<1>1. ASSUME NEW k \in {"single", "list"}, NEW c \in Ids, NEW list \in Lists, Start(t, k, c, list)
      PROVE  RowsOK(t)'
  <2>1. /\ job'[t].rows = <<>> /\ job'[t].todo = list /\ job'[t].total = Len(list)
        /\ job'[t].pc = "schema"
    BY <1>0, <1>1 DEF Start
  <2>2. Len(list) \in Nat /\ Len(<<>>) = 0
    BY SerializerAssumption
  <2> QED
    BY <2>1, <2>2 DEF RowsOK
<1>2. CASE InitSchema(t)
  <2>1. Serial(t) /\ job[t] \in SerialJob /\ job[t].pc = "schema"
    BY <1>0, <1>2, Kinds_of_jobs DEF InitSchema, At, Serial
  <2>2. job[t].rows = <<>>
    BY <1>0, <2>1 DEF RowsOK
  <2>3. job'[t].rows = job[t].rows /\ job'[t].todo = job[t].todo /\ job'[t].total = job[t].total
    BY <1>0, <1>2, <2>1 DEF InitSchema, SerialJob
  <2> QED
    BY <1>0, <2>1, <2>2, <2>3 DEF RowsOK
<1>3. CASE Hit(t) \/ WorkOut(t) \/ Store(t)
  <2>1. Serial(t) /\ job[t] \in SerialJob /\ job[t].pc \in {"classify", "store"}
        /\ job[t].class \in Live
    BY <1>0, <1>3, Kinds_of_jobs DEF Hit, WorkOut, Store, At, Serial, JobOK
  <2>2. job[t].rows = <<>>
    BY <1>0, <2>1 DEF RowsOK
  <2>3. job'[t].rows = job[t].rows /\ job'[t].todo = job[t].todo /\ job'[t].total = job[t].total
    <3>1. CASE Hit(t)
      <4>1. cache[job[t].class] \in Classification /\ job'[t] = Chosen(t, cache[job[t].class])
        BY <1>0, <2>1, <3>1 DEF Hit, MixinTypeOK, Live
      <4> QED
        BY <2>1, <4>1, ChosenTyped
    <3>2. CASE WorkOut(t)
      BY <1>0, <2>1, <3>2 DEF WorkOut, SerialJob
    <3>3. CASE Store(t)
      <4> DEFINE classes == Classify(class[job[t].class].fields, SchemaOf[job[t].class])
      <4>1. job'[t] = Chosen(t, classes)
        BY <1>0, <3>3 DEF Store
      <4>2. classes \in Classification
        BY <1>0, <2>1, LiveClass, ClassifyType DEF Class
      <4> HIDE DEF classes
      <4> QED
        BY <2>1, <4>1, <4>2, ChosenTyped
    <3> QED
      BY <1>3, <3>1, <3>2, <3>3
  <2> QED
    BY <1>0, <2>1, <2>2, <2>3 DEF RowsOK
<1>4. CASE Emit(t)
  <2> DEFINE j == job[t]
             c == job[t].class
  <2>1. Serial(t) /\ j \in SerialJob /\ j.pc \in {"rows", "drf"} /\ c \in Live /\ j.todo # <<>>
    BY <1>0, <1>4, Kinds_of_jobs DEF Emit, At, Serial, JobOK
  <2>2. job' = [job EXCEPT ![t] = [job[t] EXCEPT !.rows = Append(@, NextRow(t)), !.todo = Tail(@)]]
    BY <1>4, EmitTyped
  <2>3. /\ job'[t].rows = Append(j.rows, NextRow(t)) /\ job'[t].todo = Tail(j.todo)
        /\ job'[t].total = j.total /\ job'[t].class = c /\ job'[t].pc = j.pc
    BY <1>0, <2>1, <2>2 DEF SerialJob
  <2>4. NextRow(t) \in Rows
    BY <2>1, NextRowTyped
  <2>5. j.rows \in Seq(Rows) /\ j.todo \in Seq(Instances) /\ j.total \in Nat
    BY <2>1 DEF SerialJob
  <2>6a. /\ Len(Append(j.rows, NextRow(t))) = Len(j.rows) + 1 /\ Len(j.rows) \in Nat
         /\ Len(Tail(j.todo)) = Len(j.todo) - 1 /\ Len(j.todo) \in Nat
    BY <2>1, <2>4, <2>5
  <2>6. \A i \in DOMAIN Append(j.rows, NextRow(t)) :
          IF i \in DOMAIN j.rows THEN Append(j.rows, NextRow(t))[i] = j.rows[i]
          ELSE Append(j.rows, NextRow(t))[i] = NextRow(t)
    BY <2>1, <2>4, <2>5
  <2>7. Len(job'[t].rows) + Len(job'[t].todo) = job'[t].total
    <3>1. Len(j.rows) + Len(j.todo) = j.total
      BY <1>0, <2>1 DEF RowsOK
    <3>2. /\ Len(job'[t].rows) = Len(j.rows) + 1 /\ Len(job'[t].todo) = Len(j.todo) - 1
          /\ job'[t].total = j.total
      <4> HIDE DEF j
      <4> QED
        BY <2>3, <2>6a
    <3> DEFINE a == Len(j.rows)
               b == Len(j.todo)
    <3>3. a \in Nat /\ b \in Nat
      BY <2>6a
    <3> HIDE DEF a, b
    <3>4. (a + 1) + (b - 1) = a + b
      BY <3>3
    <3>5. Len(job'[t].rows) = a + 1
      BY <3>2 DEF a
    <3>6. Len(job'[t].todo) = b - 1
      BY <3>2 DEF b
    <3>7. job'[t].total = a + b
      BY <3>1, <3>2 DEF a, b
    <3> QED
      BY <3>4, <3>5, <3>6, <3>7
  <2>8. class' = class /\ SchemaOf' = SchemaOf
    BY <1>4, ClassesAlone DEF Emit, classVars
  <2>9. PlainClass(c) => LikeDRF(NextRow(t), class[c].fields, class[c].model)
    <3>1. CASE j.pc = "drf"
      BY <3>1 DEF NextRow, LikeDRF
    <3>2. CASE j.pc = "rows"
      <4>1. j.classes = Classify(class[c].fields, SchemaOf[c]) /\ SchemaOf[c] # NoSchema
        BY <1>0, <2>1, <3>2 DEF JobOK
      <4>2. NextRow(t) = Row(c, SchemaOf[c], Classify(class[c].fields, SchemaOf[c]), j.kind, Head(j.todo))
        BY <3>2, <4>1 DEF NextRow
      <4> QED
        BY <1>0, <2>1, <4>1, <4>2, PlainRow
    <3> QED
      BY <2>1, <3>1, <3>2
  <2>10. PlainClass(c) => \A i \in DOMAIN job'[t].rows :
           LikeDRF(job'[t].rows[i], class[c].fields, class[c].model)
    <3>1. PlainClass(c) => \A i \in DOMAIN j.rows :
            LikeDRF(j.rows[i], class[c].fields, class[c].model)
      BY <1>0, <2>1 DEF RowsOK
    <3> HIDE DEF j, c
    <3> QED
      BY <2>3, <2>6, <2>9, <3>1
  <2>11. PlainClass(c)' = PlainClass(c)
    BY <2>3, <2>8 DEF PlainClass
  <2>12. \A row, fields, m : LikeDRF(row, fields, m)' = LikeDRF(row, fields, m)
    BY DEF LikeDRF, DRFRow, Differing
  <2> HIDE DEF j
  <2> QED
    BY <2>1, <2>3, <2>7, <2>8, <2>10, <2>11, <2>12 DEF RowsOK
<1>5. CASE Return(t)
  <2>1. job'[t] = Idle
    BY <1>0, <1>5 DEF Return
  <2> QED
    BY <2>1 DEF RowsOK, Serial, Idle
<1> QED
  BY <1>1, <1>2, <1>3, <1>4, <1>5 DEF Serialize

LEMMA RowsInvStep ==
  ASSUME MixinInv, RowsInv, [MixinNext]_mixinVars
  PROVE  RowsInv'
<1> SUFFICES ASSUME NEW t \in Threads PROVE RowsOK(t)'
  BY DEF RowsInv
<1>0. JobOK(t) /\ RowsOK(t) /\ (Serial(t) => Stays(job[t].class))
  BY MixinStep DEF MixinInv, JobsOK, RowsInv, UsedStay
<1>1. job \in [Threads -> {Idle} \cup SerialJob \cup StreamJob]
  BY DEF MixinInv, MixinTypeOK
<1>2. CASE Serialize(t)
  BY <1>2, RowsStep
<1>3. CASE Stream(t)
  <2>1. ~Serial(t)'
    <3>1. CASE \E list \in Streams : StartStream(t, list)
      BY <1>1, <3>1 DEF StartStream, Serial
    <3>2. CASE Pull(t) \/ LastChunk(t)
      <4>1. job[t] \in StreamJob
        BY <3>2, Kinds_of_jobs DEF Pull, LastChunk, MixinInv
      <4>2. job'[t].kind = "stream"
        <5>1. CASE Pull(t)
          BY <1>1, <4>1, <5>1 DEF Pull, StreamJob
        <5>2. CASE LastChunk(t)
          BY <1>1, <4>1, <5>2 DEF LastChunk, StreamJob
        <5> QED
          BY <3>2, <5>1, <5>2
      <4> QED
        BY <4>2 DEF Serial
    <3>3. CASE EndStream(t)
      BY <1>1, <3>3 DEF EndStream, Serial, Idle
    <3> QED
      BY <1>3, <3>1, <3>2, <3>3 DEF Stream
  <2> QED
    BY <2>1 DEF RowsOK, Serial
<1>4. ASSUME job'[t] = job[t] PROVE RowsOK(t)'
  BY <1>0, <1>4, RowsStay
<1>5. ASSUME NEW u \in Threads, u # t, Serialize(u) \/ Stream(u) PROVE job'[t] = job[t]
  BY <1>1, <1>5 DEF Serialize, Stream, Start, InitSchema, Hit, WorkOut, Store, Emit, Return,
                    StartStream, Pull, LastChunk, EndStream
<1>6. ASSUME \/ \E u \in Threads : BeginRequest(u) \/ EndRequest(u)
             \/ \E c \in Ids : CollectClass(c)
             \/ \E c \in Ids, parent \in Ids \cup {Mixin}, m \in Models, fields \in Shapes :
                   Define(c, parent, m, fields)
             \/ UNCHANGED mixinVars
      PROVE  job'[t] = job[t]
  BY <1>6 DEF BeginRequest, EndRequest, CollectClass, Define, jobVars, mixinVars
<1> QED
  BY <1>2, <1>3, <1>4, <1>5, <1>6 DEF MixinNext

\* However many instances are serialised together and whatever happens to other
\* classes, there is a row for each, and a plain class's rows have the fields of
\* DRF's and DRF's values in the columns that are not written in a way of their own.
THEOREM PlainRowsLikeDRF == MixinSpec => []PlainRowsAreDRFs
<1>1. MixinInit => MixinInv /\ RowsInv
  BY MixinInitial DEF MixinInit, RowsInv, RowsOK, Serial, Idle
<1>2. MixinInv /\ RowsInv /\ [MixinNext]_mixinVars => (MixinInv /\ RowsInv)'
  BY MixinStep, RowsInvStep
<1>3. MixinInv /\ RowsInv => PlainRowsAreDRFs
  <2> SUFFICES ASSUME MixinInv, RowsInv, NEW t \in Threads,
                      At(t, "rows") \/ At(t, "drf"), job[t].todo = <<>>
               PROVE  /\ Len(job[t].rows) = job[t].total
                      /\ PlainClass(job[t].class) =>
                           \A i \in DOMAIN job[t].rows :
                             LikeDRF(job[t].rows[i], class[job[t].class].fields,
                                     class[job[t].class].model)
    BY DEF PlainRowsAreDRFs
  <2>1. Serial(t) /\ job[t].pc \in {"rows", "drf"} /\ RowsOK(t)
    BY DEF At, Serial, RowsInv
  <2>2. job[t] \in SerialJob
    BY <2>1, Kinds_of_jobs DEF MixinInv
  <2>3. job[t].rows \in Seq(Rows) /\ Len(job[t].rows) \in Nat
    BY <2>2 DEF SerialJob
  <2>4. Len(job[t].rows) + 0 = job[t].total
    BY <2>1 DEF RowsOK
  <2> QED
    BY <2>1, <2>3, <2>4 DEF RowsOK
<1> QED
  BY <1>1, <1>2, <1>3, PTL DEF MixinSpec

-------------------------------------------------------------------------------
(***************************************************************************)
(* The middleware's counts.                                                *)
(***************************************************************************)
LEMMA StatsStep ==
  ASSUME MixinTypeOK, StatsAreOfTheRequest, [MixinNext]_mixinVars
  PROVE  StatsAreOfTheRequest'
<1> USE DEF StatsAreOfTheRequest
<1>0. metrics \in [Threads -> Counts] /\ request \in [Threads -> [open : BOOLEAN, work : Counts]]
  BY DEF MixinTypeOK
<1>1. ASSUME UNCHANGED <<metrics, request>> PROVE StatsAreOfTheRequest'
  BY <1>1
<1>2. ASSUME NEW t \in Threads, Return(t) PROVE StatsAreOfTheRequest'
  <2> DEFINE n == Len(job[t].rows)
             classes == job[t].classes
  <2>1. CASE job[t].kind = "list" /\ job[t].pc = "rows"
    <3>1. /\ metrics' = [metrics EXCEPT ![t] = Plus(@, classes, n)]
          /\ request' = [request EXCEPT ![t].work =
               IF request[t].open THEN Plus(@, classes, n) ELSE @]
      BY <1>2, <2>1 DEF Return
    <3> HIDE DEF n, classes
    <3>2. metrics'[t] = Plus(metrics[t], classes, n)
          /\ request'[t].open = request[t].open
          /\ (request[t].open => request'[t].work = Plus(request[t].work, classes, n))
      BY <1>0, <3>1
    <3>3. \A u \in Threads : u # t => metrics'[u] = metrics[u] /\ request'[u] = request[u]
      BY <1>0, <3>1
    <3> QED
      BY <3>2, <3>3
  <2>2. CASE ~(job[t].kind = "list" /\ job[t].pc = "rows")
    BY <1>1, <1>2, <2>2 DEF Return
  <2> QED
    BY <2>1, <2>2
<1>3. ASSUME NEW t \in Threads, BeginRequest(t) PROVE StatsAreOfTheRequest'
  BY <1>0, <1>3 DEF BeginRequest
<1>4. ASSUME NEW t \in Threads, EndRequest(t) PROVE StatsAreOfTheRequest'
  <2>1. metrics' = metrics /\ request'[t].open = FALSE
        /\ \A u \in Threads : u # t => request'[u] = request[u]
    BY <1>0, <1>4 DEF EndRequest
  <2> QED
    BY <2>1
<1>5. ASSUME NEW t \in Threads, Stream(t) PROVE StatsAreOfTheRequest'
  BY <1>1, <1>5 DEF Stream, StartStream, Pull, LastChunk, EndStream
<1>6. ASSUME NEW t \in Threads, Serialize(t) PROVE StatsAreOfTheRequest'
  BY <1>1, <1>2, <1>6 DEF Serialize, Start, InitSchema, Hit, WorkOut, Store, Emit
<1>7. ASSUME \/ \E c \in Ids : CollectClass(c)
             \/ \E c \in Ids, parent \in Ids \cup {Mixin}, m \in Models, fields \in Shapes :
                   Define(c, parent, m, fields)
             \/ UNCHANGED mixinVars
      PROVE  StatsAreOfTheRequest'
  BY <1>1, <1>7 DEF CollectClass, Define, jobVars, mixinVars
<1> QED
  BY <1>3, <1>4, <1>5, <1>6, <1>7 DEF MixinNext

\* Whatever a thread did before a request and between two of them, the counts at
\* its end are those of the request.
THEOREM StatsAreExact == MixinSpec => []StatsAreOfTheRequest
<1>1. MixinInit => StatsAreOfTheRequest
  BY DEF MixinInit, StatsAreOfTheRequest
<1>2. MixinInv /\ StatsAreOfTheRequest /\ [MixinNext]_mixinVars => StatsAreOfTheRequest'
  BY StatsStep DEF MixinInv
<1> QED
  BY <1>1, <1>2, MixinInvariant, PTL DEF MixinSpec

-------------------------------------------------------------------------------
(***************************************************************************)
(* Streams.                                                                *)
(***************************************************************************)
Given(t) == FlattenSeq(job[t].chunks) \o job[t].chunk

\* What StreamInOrder says of a thread, and that a chunk is short only when it
\* is the last.
StreamOK(t) ==
  job[t].kind = "stream" =>
    /\ ToSet(Given(t)) = {i \in DOMAIN job[t].read : job[t].read[i] = "good"}
    /\ \A i, j \in DOMAIN Given(t) : i < j => Given(t)[i] < Given(t)[j]
    /\ \A i \in DOMAIN job[t].chunks :
         i < Len(job[t].chunks) \/ job[t].todo # <<>> \/ job[t].chunk # <<>> =>
           Len(job[t].chunks[i]) = ChunkSize
    /\ Len(job[t].chunk) < ChunkSize

StreamsOK == \A t \in Threads : StreamOK(t)

LEMMA AppendLast ==
  ASSUME NEW X, NEW a \in Seq(X), NEW b \in Seq(X), NEW x \in X
  PROVE  a \o Append(b, x) = Append(a \o b, x) /\ a \o b \in Seq(X) /\ a \o <<>> = a
OBVIOUS

\* given lists the places of the good instances of read, in their order.
GoodPlaces(given, read) ==
  /\ ToSet(given) = {k \in DOMAIN read : read[k] = "good"}
  /\ \A j, k \in DOMAIN given : j < k => given[j] < given[k]

\* The next instance of the queryset is read, and given out if it converts.
LEMMA GivenOnce ==
  ASSUME NEW given \in Seq(Nat), NEW read \in Seq(Instances), NEW i \in Instances,
         GoodPlaces(given, read)
  PROVE  GoodPlaces(IF i = "good" THEN Append(given, Len(read) + 1) ELSE given, Append(read, i))
<1> USE DEF GoodPlaces
<1> DEFINE given1 == IF i = "good" THEN Append(given, Len(read) + 1) ELSE given
           n == Len(read) + 1
           read1 == Append(read, i)
<1>1. /\ n \in Nat \ {0} /\ DOMAIN read = 1..n - 1 /\ DOMAIN read1 = 1..n /\ read1[n] = i
      /\ \A k \in 1..n - 1 : read1[k] = read[k]
  BY Appended
<1> HIDE DEF n, read1, given1
<1> SUFFICES GoodPlaces(given1, read1)
  BY DEF given1, read1
<1>2. CASE i # "good"
  <2>1. {k \in DOMAIN read1 : read1[k] = "good"} = {k \in DOMAIN read : read[k] = "good"}
    BY <1>1, <1>2
  <2> QED
    BY <1>2, <2>1 DEF given1
<1>3. CASE i = "good"
  <2>1. {k \in DOMAIN read1 : read1[k] = "good"} = {k \in DOMAIN read : read[k] = "good"} \cup {n}
    <3>1. \A k : k \in 1..n <=> (k \in 1..n - 1 \/ k = n)
      BY <1>1
    <3>2. ~(n \in 1..n - 1)
      BY <1>1
    <3> QED
      BY <1>1, <1>3, <3>1, <3>2
  <2>2. given1 = Append(given, n)
    BY <1>3 DEF n, given1
  <2> DEFINE m == Len(given)
  <2>3. /\ m \in Nat /\ DOMAIN given = 1..m /\ DOMAIN given1 = 1..m + 1 /\ given1[m + 1] = n
        /\ \A k \in 1..m : given1[k] = given[k]
    BY <1>1, <2>2, Appended
  <2> HIDE DEF m
  <2>4. ToSet(given1) = ToSet(given) \cup {n}
    BY <2>3 DEF ToSet
  <2>5. \A k \in 1..m : given[k] \in 1..n - 1
    BY <1>1, <2>3 DEF ToSet
  <2>6. ASSUME NEW j \in DOMAIN given1, NEW k \in DOMAIN given1, j < k
        PROVE  given1[j] < given1[k]
    <3>1. CASE k \in 1..m
      <4>1. j \in 1..m
        BY <2>3, <2>6, <3>1
      <4> QED
        BY <2>3, <2>6, <3>1, <4>1
    <3>2. CASE k = m + 1
      <4>1. j \in 1..m
        BY <2>3, <2>6, <3>2
      <4>2. given1[j] \in 1..n - 1 /\ given1[k] = n
        BY <2>3, <2>5, <3>2, <4>1
      <4> QED
        BY <1>1, <4>2
    <3> QED
      BY <2>3, <3>1, <3>2
  <2> QED
    BY <2>1, <2>4, <2>6
<1> QED
  BY <1>2, <1>3 DEF Instances

LEMMA StreamStep ==
  ASSUME MixinTypeOK, NEW t \in Threads, StreamOK(t), Stream(t)
  PROVE  StreamOK(t)'
<1>0. job \in [Threads -> {Idle} \cup SerialJob \cup StreamJob] /\ ChunkSize \in Nat \ {0}
  BY SerializerAssumption DEF MixinTypeOK
<1>1. ASSUME NEW list \in Streams, StartStream(t, list) PROVE StreamOK(t)'
  <2>1. job'[t].chunk = <<>> /\ job'[t].chunks = <<>> /\ job'[t].read = <<>>
    BY <1>0, <1>1 DEF StartStream
  <2>2. <<>> \o <<>> = <<>>
    OBVIOUS
  <2>3. Given(t)' = <<>>
    BY <2>1, <2>2, FlattenNothing DEF Given
  <2>4. ToSet(<<>>) = {} /\ Len(<<>>) = 0
    BY DEF ToSet
  <2>5. {i \in DOMAIN <<>> : <<>>[i] = "good"} = {}
    OBVIOUS
  <2> QED
    BY <1>0, <2>1, <2>3, <2>4, <2>5 DEF StreamOK
<1>2. CASE Pull(t)
  <2> DEFINE served == job[t].chunks
             chunk == job[t].chunk
             read == job[t].read
             i == Head(job[t].todo)
             n == Len(read) + 1
             chunk1 == IF i = "good" THEN Append(chunk, n) ELSE chunk
             full == i = "good" /\ Full(chunk1)
  <2>1. job[t] \in StreamJob /\ job[t].kind = "stream" /\ job[t].todo # <<>>
    BY <1>2, Kinds_of_jobs DEF Pull
  <2>2. /\ served \in Seq(Seq(Nat)) /\ chunk \in Seq(Nat) /\ read \in Seq(Instances)
        /\ job[t].todo \in Seq(Instances)
    BY <2>1 DEF StreamJob
  <2>3. i \in Instances /\ n \in Nat
    BY <2>1, <2>2
  <2>4. job' = [job EXCEPT ![t] = [job[t] EXCEPT
                  !.todo = Tail(@), !.read = Append(@, i),
                  !.chunk = IF full THEN <<>> ELSE chunk1,
                  !.chunks = IF full THEN Append(@, chunk1) ELSE @]]
    BY <1>2 DEF Pull
  <2>5. /\ job'[t].read = Append(read, i)
        /\ job'[t].chunk = IF full THEN <<>> ELSE chunk1
        /\ job'[t].chunks = IF full THEN Append(served, chunk1) ELSE served
    BY <1>0, <2>1, <2>4 DEF StreamJob
  <2>6. /\ FlattenSeq(served) \in Seq(Nat) /\ Given(t) \in Seq(Nat)
        /\ Given(t) = FlattenSeq(served) \o chunk
    BY <2>2, FlattenType DEF Given
  <2>7. /\ chunk1 \in Seq(Nat) /\ Len(chunk) < ChunkSize
        /\ Len(chunk1) = (IF i = "good" THEN Len(chunk) + 1 ELSE Len(chunk)) /\ Len(chunk) \in Nat
    BY <2>1, <2>2, <2>3, Appended DEF StreamOK
  <2>8. FlattenSeq(served) \o chunk1 = IF i = "good" THEN Append(Given(t), n) ELSE Given(t)
    <3> HIDE DEF served, chunk, n
    <3>1. FlattenSeq(served) \o Append(chunk, n) = Append(FlattenSeq(served) \o chunk, n)
      BY <2>2, <2>3, <2>6, AppendLast, SMTT(30)
    <3> QED
      BY <2>6, <3>1
  <2>9. /\ ToSet(Given(t)) = {k \in DOMAIN read : read[k] = "good"}
        /\ \A j, k \in DOMAIN Given(t) : j < k => Given(t)[j] < Given(t)[k]
        /\ \A k \in DOMAIN served : Len(served[k]) = ChunkSize
    BY <2>1 DEF StreamOK
  <2> DEFINE given1 == FlattenSeq(served) \o chunk1
  <2> HIDE DEF served, chunk, read, i, n, chunk1, full
  <2>10. Given(t)' = given1
    <3>1. CASE full
      <4>1. FlattenSeq(Append(served, chunk1)) = FlattenSeq(served) \o chunk1
        BY <2>2, <2>7, FlattenAppend
      <4>2. FlattenSeq(served) \o chunk1 \in Seq(Nat)
        BY <2>6, <2>7
      <4>3. (FlattenSeq(served) \o chunk1) \o <<>> = FlattenSeq(served) \o chunk1
        BY <4>2
      <4> QED
        BY <2>5, <3>1, <4>1, <4>3 DEF Given
    <3>2. CASE ~full
      BY <2>5, <3>2 DEF Given
    <3> QED
      BY <3>1, <3>2
  <2>11. /\ ToSet(given1) = {k \in DOMAIN Append(read, i) : Append(read, i)[k] = "good"}
         /\ \A j, k \in DOMAIN given1 : j < k => given1[j] < given1[k]
    <3>1. given1 = IF i = "good" THEN Append(Given(t), Len(read) + 1) ELSE Given(t)
      BY <2>8 DEF n
    <3> HIDE DEF given1
    <3>2. GoodPlaces(Given(t), read)
      BY <2>9 DEF GoodPlaces
    <3>3. GoodPlaces(given1, Append(read, i))
      BY <2>2, <2>3, <2>6, <3>1, <3>2, GivenOnce
    <3> QED
      BY <3>3 DEF GoodPlaces
  <2>12. \A k \in DOMAIN job'[t].chunks : Len(job'[t].chunks[k]) = ChunkSize
    <3>1. CASE full
      <4>1. Len(chunk1) = ChunkSize
        BY <1>0, <2>7, <3>1 DEF full, Full
      <4>2. job'[t].chunks = Append(served, chunk1)
        BY <2>5, <3>1
      <4>3. /\ DOMAIN served = 1..Len(served) /\ DOMAIN Append(served, chunk1) = 1..Len(served) + 1 /\ Len(served) \in Nat
            /\ Append(served, chunk1)[Len(served) + 1] = chunk1
            /\ \A k \in 1..Len(served) : Append(served, chunk1)[k] = served[k]
        BY <2>2, <2>7, Appended
      <4>4. \A k \in 1..Len(served) + 1 : k \in 1..Len(served) \/ k = Len(served) + 1
        BY <4>3
      <4> QED
        BY <2>9, <4>1, <4>2, <4>3, <4>4
    <3>2. CASE ~full
      BY <2>5, <2>9, <3>2
    <3> QED
      BY <3>1, <3>2
  <2>13. Len(job'[t].chunk) < ChunkSize
    <3>1. CASE full
      BY <1>0, <2>5, <3>1
    <3>2. CASE ~full
      BY <1>0, <2>5, <2>7, <3>2 DEF full, Full
    <3> QED
      BY <3>1, <3>2
  <2> HIDE DEF given1
  <2> QED
    BY <2>5, <2>10, <2>11, <2>12, <2>13 DEF StreamOK
<1>3. CASE LastChunk(t)
  <2> DEFINE served == job[t].chunks
             chunk == job[t].chunk
  <2>1. job[t] \in StreamJob /\ job[t].kind = "stream" /\ chunk # <<>> /\ job[t].todo = <<>>
    BY <1>3, Kinds_of_jobs DEF LastChunk
  <2>2. served \in Seq(Seq(Nat)) /\ chunk \in Seq(Nat)
    BY <2>1 DEF StreamJob
  <2>3. /\ job'[t].read = job[t].read /\ job'[t].todo = <<>>
        /\ job'[t].chunk = <<>> /\ job'[t].chunks = Append(served, chunk)
    BY <1>0, <1>3, <2>1 DEF LastChunk, StreamJob
  <2>4. FlattenSeq(Append(served, chunk)) = FlattenSeq(served) \o chunk
    BY <2>2, FlattenAppend
  <2>5. FlattenSeq(served) \o chunk \in Seq(Nat)
    BY <2>2, FlattenType
  <2>6. Given(t)' = Given(t)
    <3>1. (FlattenSeq(served) \o chunk) \o <<>> = FlattenSeq(served) \o chunk
      BY <2>5
    <3> QED
      BY <2>3, <2>4, <3>1 DEF Given
  <2>7. \A k \in DOMAIN served : Len(served[k]) = ChunkSize
    BY <2>1 DEF StreamOK
  <2>8. \A k \in DOMAIN job'[t].chunks : k < Len(job'[t].chunks) => Len(job'[t].chunks[k]) = ChunkSize
    <3> HIDE DEF served, chunk
    <3>1. /\ DOMAIN served = 1..Len(served) /\ Len(served) \in Nat
          /\ DOMAIN Append(served, chunk) = 1..Len(served) + 1 /\ Len(Append(served, chunk)) = Len(served) + 1
          /\ \A k \in 1..Len(served) : Append(served, chunk)[k] = served[k]
      BY <2>2, Appended
    <3> QED
      BY <2>3, <2>7, <3>1
  <2>9. Len(job'[t].chunk) < ChunkSize
    BY <1>0, <2>3
  <2> QED
    BY <2>1, <2>3, <2>6, <2>8, <2>9 DEF StreamOK
<1>4. CASE EndStream(t)
  <2>1. job'[t] = Idle
    BY <1>0, <1>4 DEF EndStream
  <2> QED
    BY <2>1 DEF StreamOK, Idle
<1> QED
  BY <1>1, <1>2, <1>3, <1>4 DEF Stream

LEMMA StreamsStep ==
  ASSUME MixinInv, StreamsOK, [MixinNext]_mixinVars
  PROVE  StreamsOK'
<1> SUFFICES ASSUME NEW t \in Threads PROVE StreamOK(t)'
  BY DEF StreamsOK
<1>0. StreamOK(t) /\ MixinTypeOK /\ MixinTypeOK'
  BY MixinStep DEF MixinInv, StreamsOK
<1>1. job \in [Threads -> {Idle} \cup SerialJob \cup StreamJob]
  BY <1>0 DEF MixinTypeOK
<1>2. CASE Stream(t)
  BY <1>0, <1>2, StreamStep
<1>3. ASSUME job'[t].kind # "stream" PROVE StreamOK(t)'
  BY <1>3 DEF StreamOK
<1>4. ASSUME job'[t] = job[t] PROVE StreamOK(t)'
  BY <1>0, <1>4 DEF StreamOK, Given
<1>5. CASE Serialize(t)
  <2>1. ASSUME NEW k \in {"single", "list"}, NEW c \in Ids, NEW list \in Lists, Start(t, k, c, list)
        PROVE  job'[t].kind # "stream"
    BY <1>1, <2>1 DEF Start
  <2>2. CASE InitSchema(t) \/ Hit(t) \/ WorkOut(t) \/ Store(t) \/ Emit(t)
    <3>1. job[t] \in SerialJob
      BY <1>0, <2>2, Kinds_of_jobs DEF InitSchema, Hit, WorkOut, Store, Emit, At, Serial
    <3>2. job'[t].kind \in {"single", "list"}
      <4>1. CASE InitSchema(t) \/ WorkOut(t)
        BY <1>1, <3>1, <4>1 DEF InitSchema, WorkOut, SerialJob
      <4>2. \A classes : Chosen(t, classes).kind \in {"single", "list"}
        BY <3>1 DEF Chosen, SerialJob
      <4>3. CASE Hit(t) \/ Store(t)
        BY <1>1, <4>2, <4>3 DEF Hit, Store
      <4>4. CASE Emit(t)
        BY <1>1, <3>1, <4>4 DEF Emit, SerialJob
      <4> QED
        BY <2>2, <4>1, <4>3, <4>4
    <3> QED
      BY <1>3, <3>2
  <2>3. CASE Return(t)
    BY <1>1, <1>3, <2>3 DEF Return, Idle
  <2> QED
    BY <1>3, <1>5, <2>1, <2>2, <2>3 DEF Serialize
<1>6. ASSUME NEW u \in Threads, u # t, Serialize(u) \/ Stream(u) PROVE job'[t] = job[t]
  BY <1>1, <1>6 DEF Serialize, Stream, Start, InitSchema, Hit, WorkOut, Store, Emit, Return,
                    StartStream, Pull, LastChunk, EndStream
<1>7. ASSUME \/ \E u \in Threads : BeginRequest(u) \/ EndRequest(u)
             \/ \E c \in Ids : CollectClass(c)
             \/ \E c \in Ids, parent \in Ids \cup {Mixin}, m \in Models, fields \in Shapes :
                   Define(c, parent, m, fields)
             \/ UNCHANGED mixinVars
      PROVE  job'[t] = job[t]
  BY <1>7 DEF BeginRequest, EndRequest, CollectClass, Define, jobVars, mixinVars
<1> QED
  BY <1>2, <1>4, <1>5, <1>6, <1>7 DEF MixinNext

\* However long the queryset and whichever instances are dropped on the way, a
\* stream gives out the others once, in order and in full chunks.
THEOREM StreamsKeepOrder == MixinSpec => []StreamInOrder
<1>1. MixinInit => StreamsOK
  BY DEF MixinInit, StreamsOK, StreamOK, Idle
<1>2. MixinInv /\ StreamsOK /\ [MixinNext]_mixinVars => StreamsOK'
  BY StreamsStep
<1>3. StreamsOK => StreamInOrder
  BY DEF StreamsOK, StreamOK, StreamInOrder, Given
<1> QED
  BY <1>1, <1>2, <1>3, MixinInvariant, PTL DEF MixinSpec

-------------------------------------------------------------------------------
(***************************************************************************)
(* One value.  The codes that the code pushes, on either path, are those   *)
(* of the demands the value does not meet, each once.                      *)
(***************************************************************************)
Codes == {"required", "invalid", "max_length", "min_length", "max_value", "min_value",
          "max_digits", "max_decimal_places"}

Matches(codes, D) ==
  codes \in Seq(Codes) /\ Len(codes) = Cardinality(D) /\ ToSet(codes) = D /\ IsFiniteSet(D)

OneIf(p, c) == IF p THEN {c} ELSE {}

LEMMA NoneMatches == Matches(<<>>, {})
<1>1. Cardinality({}) = 0 /\ IsFiniteSet({})
  BY FS_EmptySet
<1>2. ToSet(<<>>) = {}
  BY DEF ToSet
<1> QED
  BY <1>1, <1>2 DEF Matches

LEMMA IfMatches ==
  ASSUME NEW p \in BOOLEAN, NEW c \in Codes
  PROVE  Matches(If(p, c), OneIf(p, c))
<1>1. CASE p
  <2>1. Cardinality({c}) = 1 /\ IsFiniteSet({c})
    BY FS_Singleton
  <2>2. <<c>> \in Seq(Codes) /\ Len(<<c>>) = 1 /\ <<c>>[1] = c
    OBVIOUS
  <2>3. ToSet(<<c>>) = {c}
    <3>1. DOMAIN <<c>> = {1}
      BY <2>2
    <3> QED
      BY <2>2, <3>1 DEF ToSet
  <2>4. Matches(<<c>>, {c})
    BY <2>1, <2>2, <2>3 DEF Matches
  <2> QED
    BY <1>1, <2>4 DEF If, OneIf
<1>2. CASE ~p
  BY <1>2, NoneMatches DEF If, OneIf
<1> QED
  BY <1>1, <1>2

LEMMA TwoMatch ==
  ASSUME NEW p \in BOOLEAN, NEW c \in Codes, NEW q \in BOOLEAN, NEW d \in Codes, c # d
  PROVE  Matches(If(p, c) \o If(q, d), OneIf(p, c) \cup OneIf(q, d))
<1>1. CASE p /\ q
  <2>1. Cardinality({c}) = 1 /\ IsFiniteSet({c})
    BY FS_Singleton
  <2>2. Cardinality({c} \cup {d}) = 2 /\ IsFiniteSet({c} \cup {d})
    <3>1. d \notin {c}
      OBVIOUS
    <3> QED
      BY <2>1, <3>1, FS_AddElement
  <2>3. <<c>> \o <<d>> = Append(<<c>>, d)
    OBVIOUS
  <2>4. <<c>> \in Seq(Codes) /\ Len(<<c>>) = 1 /\ <<c>>[1] = c
    OBVIOUS
  <2> DEFINE s == <<c>>
             t == Append(s, d)
  <2> HIDE DEF s
  <2>5. t \in Seq(Codes) /\ Len(t) = 2 /\ DOMAIN t = 1..2 /\ t[1] = c /\ t[2] = d
    BY <2>4, Appended DEF s
  <2> HIDE DEF t
  <2>6. ToSet(t) = {c} \cup {d}
    <3>1. 1..2 = {1, 2}
      OBVIOUS
    <3> QED
      BY <2>5, <3>1 DEF ToSet
  <2>7. Matches(t, {c} \cup {d})
    BY <2>2, <2>5, <2>6 DEF Matches
  <2> QED
    BY <1>1, <2>3, <2>7 DEF If, OneIf, s, t
<1>2. CASE ~(p /\ q)
  <2>1. Matches(If(p, c), OneIf(p, c)) /\ Matches(If(q, d), OneIf(q, d))
    BY IfMatches
  <2>2. CASE ~p
    <3>1. <<>> \o If(q, d) = If(q, d)
      BY <2>1 DEF Matches
    <3> QED
      BY <2>1, <2>2, <3>1 DEF If, OneIf
  <2>3. CASE ~q
    <3>1. If(p, c) \o <<>> = If(p, c)
      BY <2>1 DEF Matches
    <3> QED
      BY <2>1, <2>3, <3>1 DEF If, OneIf
  <2> QED
    BY <1>2, <2>2, <2>3
<1> QED
  BY <1>1, <1>2

LEMMA MaxOf == \A a, b \in Int : Max({a, b}) = IF a >= b THEN a ELSE b
BY DEF Max

\* NumDigits is recursive; DigitTable is the table of its first values.
DigitTable(n, f) == f = [k \in 0..n |-> IF k < 10 THEN 1 ELSE 1 + f[k \div 10]]

LEMMA Tenth ==
  ASSUME NEW k \in Nat, ~(k < 10)
  PROVE  k \div 10 \in Nat /\ k \div 10 < k /\ k \div 10 <= k - 1
OBVIOUS

LEMMA DigitTableAt ==
  ASSUME NEW n, NEW f, DigitTable(n, f), NEW k \in 0..n
  PROVE  f[k] = IF k < 10 THEN 1 ELSE 1 + f[k \div 10]
BY DEF DigitTable

LEMMA SomeDigitTable == \A n \in Nat : \E f : DigitTable(n, f)
<1> DEFINE T == {n \in Nat : ~\E f : DigitTable(n, f)}
<1> SUFFICES ASSUME T # {} PROVE FALSE
  OBVIOUS
<1>1. PICK n \in T : \A m \in T : n <= m
  <2>1. T \in SUBSET Nat
    OBVIOUS
  <2> HIDE DEF T
  <2> QED
    BY <2>1, Least
<1>2. n \in Nat /\ ~\E f : DigitTable(n, f)
  BY <1>1
<1>3. n # 0
  <2>1. ASSUME n = 0 PROVE FALSE
    <3> DEFINE f == [k \in 0..0 |-> 1]
    <3>1. \A k \in 0..0 : k < 10 /\ f[k] = 1
      OBVIOUS
    <3>2. f = [k \in 0..0 |-> IF k < 10 THEN 1 ELSE 1 + f[k \div 10]]
      BY <3>1
    <3> HIDE DEF f
    <3> QED
      BY <1>2, <2>1, <3>2 DEF DigitTable
  <2> QED
    BY <2>1
<1>4. n - 1 \in Nat /\ ~(n <= n - 1)
  BY <1>2, <1>3
<1>5. PICK g : DigitTable(n - 1, g)
  BY <1>1, <1>4
<1> DEFINE f == [k \in 0..n |-> IF k < n THEN g[k] ELSE IF n < 10 THEN 1 ELSE 1 + g[n \div 10]]
<1>6. \A k \in 0..n - 1 : f[k] = g[k]
  BY <1>2
<1>7. ASSUME NEW k \in 0..n PROVE f[k] = IF k < 10 THEN 1 ELSE 1 + f[k \div 10]
  <2>1. ~(k < 10) => f[k \div 10] = g[k \div 10]
    <3>1. ~(k < 10) => k \div 10 \in 0..n - 1
      BY <1>2, Tenth
    <3> HIDE DEF f
    <3> QED
      BY <1>6, <3>1
  <2>2. CASE k < n
    <3>1. k \in 0..n - 1
      BY <1>2, <2>2
    <3>2. g[k] = IF k < 10 THEN 1 ELSE 1 + g[k \div 10]
      BY <1>5, <3>1, DigitTableAt
    <3>3. f[k] = g[k]
      BY <1>6, <3>1
    <3> HIDE DEF f
    <3> QED
      BY <2>1, <3>2, <3>3
  <2>3. CASE k = n
    <3>1. f[k] = IF k < 10 THEN 1 ELSE 1 + g[k \div 10]
      BY <1>2, <2>3
    <3> HIDE DEF f
    <3> QED
      BY <2>1, <3>1
  <2> QED
    BY <1>2, <2>2, <2>3
<1>8. f = [k \in 0..n |-> IF k < 10 THEN 1 ELSE 1 + f[k \div 10]]
  BY <1>7
<1> HIDE DEF f
<1> QED
  BY <1>2, <1>8 DEF DigitTable

LEMMA DigitTablesAgree ==
  ASSUME NEW m \in Nat, NEW n \in Nat, m <= n, NEW f, NEW g, DigitTable(m, f), DigitTable(n, g)
  PROVE  \A k \in 0..m : f[k] = g[k]
<1> DEFINE T == {k \in 0..m : f[k] # g[k]}
<1> SUFFICES ASSUME T # {} PROVE FALSE
  OBVIOUS
<1>1. PICK k \in T : \A j \in T : k <= j
  <2>1. T \in SUBSET Nat
    OBVIOUS
  <2> HIDE DEF T
  <2> QED
    BY <2>1, Least
<1>2. k \in 0..m /\ k \in 0..n /\ f[k] # g[k]
  BY <1>1
<1>3. /\ f[k] = IF k < 10 THEN 1 ELSE 1 + f[k \div 10]
      /\ g[k] = IF k < 10 THEN 1 ELSE 1 + g[k \div 10]
  BY <1>2, DigitTableAt
<1>4. ~(k < 10)
  BY <1>2, <1>3
<1>5. k \div 10 \in 0..m /\ ~(k <= k \div 10)
  BY <1>2, <1>4, Tenth
<1>6. f[k \div 10] = g[k \div 10]
  BY <1>1, <1>5
<1> QED
  BY <1>2, <1>3, <1>6

LEMMA DigitsCounted ==
  /\ NumDigits = [n \in Nat |-> IF n < 10 THEN 1 ELSE 1 + NumDigits[n \div 10]]
  /\ \A n \in Nat : NumDigits[n] = IF n < 10 THEN 1 ELSE 1 + NumDigits[n \div 10]
<1> DEFINE h(n) == CHOOSE f : DigitTable(n, f)
           F == [n \in Nat |-> h(n)[n]]
<1>1. \A n \in Nat : DigitTable(n, h(n))
  BY SomeDigitTable
<1>2. \A n \in Nat : F[n] = h(n)[n]
  OBVIOUS
<1> HIDE DEF h, F
<1>3. ASSUME NEW n \in Nat PROVE F[n] = IF n < 10 THEN 1 ELSE 1 + F[n \div 10]
  <2>1. F[n] = IF n < 10 THEN 1 ELSE 1 + h(n)[n \div 10]
    BY <1>1, <1>2, DigitTableAt
  <2>2. ASSUME ~(n < 10) PROVE F[n \div 10] = h(n)[n \div 10]
    <3> DEFINE m == n \div 10
    <3>1. m \in Nat /\ m <= n /\ m \in 0..m
      BY <2>2, Tenth
    <3> HIDE DEF m
    <3>2. h(m)[m] = h(n)[m]
      BY <1>1, <3>1, DigitTablesAgree
    <3> QED
      BY <1>2, <3>1, <3>2 DEF m
  <2> QED
    BY <2>1, <2>2
<1>4. F = [n \in Nat |-> IF n < 10 THEN 1 ELSE 1 + F[n \div 10]]
  <2>1. F = [n \in Nat |-> F[n]]
    BY DEF F
  <2> QED
    BY <1>3, <2>1
<1>5. NumDigits = [n \in Nat |-> IF n < 10 THEN 1 ELSE 1 + NumDigits[n \div 10]]
  <2> DEFINE D == CHOOSE f : f = [n \in Nat |-> IF n < 10 THEN 1 ELSE 1 + f[n \div 10]]
  <2>1. D = [n \in Nat |-> IF n < 10 THEN 1 ELSE 1 + D[n \div 10]]
    BY <1>4, Zenon
  <2>2. NumDigits = D
    BY Zenon DEF NumDigits
  <2> QED
    BY <2>1, <2>2, Zenon
<1> QED
  BY <1>5, Zenon

LEMMA DigitsType ==
  ASSUME NEW n \in Nat
  PROVE  NumDigits[n] \in Nat \ {0} /\ (n = 0 => NumDigits[n] = 1)
<1> DEFINE T == {k \in Nat : NumDigits[k] \notin Nat \ {0}}
<1>1. ASSUME T # {} PROVE FALSE
  <2>1. PICK k \in T : \A j \in T : k <= j
    <3>1. T \in SUBSET Nat
      OBVIOUS
    <3> HIDE DEF T
    <3> QED
      BY <1>1, <3>1, Least
  <2>2. k \in Nat /\ NumDigits[k] = IF k < 10 THEN 1 ELSE 1 + NumDigits[k \div 10]
    BY <2>1, DigitsCounted
  <2>3. ~(k < 10)
    BY <2>1, <2>2
  <2>4. k \div 10 \in Nat /\ ~(k <= k \div 10)
    BY <2>2, <2>3, Tenth
  <2>5. NumDigits[k \div 10] \in Nat \ {0}
    BY <2>1, <2>4
  <2> QED
    BY <2>1, <2>2, <2>3, <2>5
<1>2. NumDigits[n] \in Nat \ {0}
  BY <1>1
<1>3. n = 0 => NumDigits[n] = 1
  BY DigitsCounted
<1> QED
  BY <1>2, <1>3

\* Counting in the text of a Decimal counts its digits and places.
LEMMA DigitsRight ==
  ASSUME NEW v \in PyValues, v.cls = "Decimal", v.like # "nan",
         v.exp > 0 => v.n # 0 /\ NumDigits[v.n] = 1
  PROVE  count_decimal_digits(TextOf(v)) = DecimalDigits(v)
<1> DEFINE d == NumDigits[v.n]
           e == v.exp
           n == v.n
           t == TextOf(v)
<1>1. /\ n \in Nat /\ e \in Int /\ d \in Nat \ {0} /\ (n = 0 => d = 1)
      /\ (e > 0 => n # 0 /\ d = 1)
  BY DigitsType DEF PyValues
<1>2. Plain(v) <=> (e <= 0 /\ e + d > -6)
  BY DEF Plain
<1>3. CASE Plain(v)
  <2>1. t = [chars  |-> IF e + d <= 0 THEN 1 - (e + d) + d ELSE d,
             lead   |-> (IF e + d <= 0 THEN 1 - (e + d) ELSE 0) + (IF n = 0 THEN 1 ELSE 0),
             places |-> -e, exp |-> 0]
    BY <1>3 DEF TextOf
  <2>2. t.chars - t.lead \in Int /\ t.places = -e /\ t.exp = 0
        /\ t.chars - t.lead = (IF n = 0 THEN 0 ELSE d)
    <3> HIDE DEF t, d, e, n
    <3> QED
      BY <1>1, <2>1
  <2> HIDE DEF t, d, e, n
  <2>3. Max({t.chars - t.lead, 1}) = d
    BY <1>1, <2>2, MaxOf
  <2>4. Max({t.exp, 0}) = 0 /\ Max({d + 0, 1}) = d
    BY <1>1, <2>2, MaxOf
  <2>5. Max({t.places - t.exp, 0}) = -e /\ Max({-e, 0}) = -e /\ Max({e, 0}) = 0
    BY <1>1, <1>2, <1>3, <2>2, MaxOf
  <2>6. count_decimal_digits(t) = <<d, -e>>
    BY <2>3, <2>4, <2>5 DEF count_decimal_digits
  <2>7. DecimalDigits(v) = <<d, -e>>
    BY <1>1, <2>5 DEF DecimalDigits, d, e, n
  <2> QED
    BY <2>6, <2>7 DEF t
<1>4. CASE ~Plain(v)
  <2>1. t = [chars |-> d, lead |-> IF n = 0 THEN 1 ELSE 0,
             places |-> d - 1, exp |-> e + d - 1]
    BY <1>1, <1>4 DEF TextOf
  <2>2. t.chars - t.lead = (IF n = 0 THEN 0 ELSE d) /\ t.places = d - 1 /\ t.exp = e + d - 1
    <3> HIDE DEF t, d, e, n
    <3> QED
      BY <1>1, <2>1
  <2> HIDE DEF t, d, e, n
  <2>3. Max({t.chars - t.lead, 1}) = d
    BY <1>1, <2>2, MaxOf
  <2>4. Max({t.exp, 0}) = Max({e, 0}) /\ Max({e, 0}) \in Nat
    BY <1>1, <1>2, <1>4, <2>2, MaxOf
  <2>5. Max({d + Max({e, 0}), 1}) = d + Max({e, 0})
    BY <1>1, <2>4, MaxOf
  <2>6. t.places - t.exp = -e
    BY <1>1, <2>2
  <2>7. count_decimal_digits(t) = <<d + Max({e, 0}), Max({-e, 0})>>
    BY <2>3, <2>4, <2>5, <2>6 DEF count_decimal_digits
  <2>8. DecimalDigits(v) = <<d + Max({e, 0}), Max({-e, 0})>>
    <3>1. n = 0 => Max({e, 0}) = 0
      BY <1>1, MaxOf
    <3> QED
      BY <1>1, <3>1 DEF DecimalDigits, d, e, n
  <2> QED
    BY <2>7, <2>8 DEF t
<1> QED
  BY <1>3, <1>4

LEMMA Compares == \A x, b : Above(x, b) \in BOOLEAN /\ Below(x, b) \in BOOLEAN
BY DEF Above, Below

\* The broken constraints, type by type.
LEMMA BreaksOf ==
  ASSUME NEW f \in FieldDescriptors, NEW v
  PROVE  /\ f.type = "str" =>
              Breaks(f, v) = OneIf(Above(v.n, f.max), "max_length")
                               \cup OneIf(Below(v.n, f.min), "min_length")
         /\ f.type = "bytes" => Breaks(f, v) = OneIf(Above(v.n, f.max), "max_length")
         /\ f.type \in {"int", "float"} =>
              Breaks(f, v) = OneIf(Below(v.n, f.min), "min_value")
                               \cup OneIf(Above(v.n, f.max), "max_value")
         /\ f.type = "Decimal" =>
              Breaks(f, v) = OneIf(Above(DecimalDigits(v)[1], f.max), "max_digits")
                               \cup OneIf(Above(DecimalDigits(v)[2], f.places),
                                          "max_decimal_places")
         /\ f.type \notin {"str", "bytes", "int", "float", "Decimal"} => Breaks(f, v) = {}
<1>1. CASE f.type = "str"
  BY <1>1 DEF Breaks, OneIf
<1>2. CASE f.type = "bytes"
  BY <1>2 DEF Breaks, OneIf
<1>3. CASE f.type \in {"int", "float"}
  BY <1>3 DEF Breaks, OneIf
<1>4. CASE f.type = "Decimal"
  BY <1>4 DEF Breaks, OneIf
<1>5. CASE f.type \notin {"str", "bytes", "int", "float", "Decimal"}
  BY <1>5 DEF Breaks, OneIf
<1> QED
  BY <1>1, <1>2, <1>3, <1>4, <1>5

LEMMA LengthsMatch ==
  ASSUME NEW f \in FieldDescriptors, NEW v, f.type = "str"
  PROVE  Matches(LengthCodes(f, v.n), Breaks(f, v))
<1>1. "max_length" \in Codes /\ "min_length" \in Codes /\ "max_length" # "min_length"
  BY DEF Codes
<1> QED
  BY <1>1, BreaksOf, Compares, TwoMatch DEF LengthCodes

LEMMA MaxLengthMatches ==
  ASSUME NEW f \in FieldDescriptors, NEW v, f.type = "bytes"
  PROVE  Matches(If(Above(v.n, f.max), "max_length"), Breaks(f, v))
BY BreaksOf, Compares, IfMatches DEF Codes

LEMMA BoundsMatch ==
  ASSUME NEW f \in FieldDescriptors, NEW v \in PyValues, f.type \in {"int", "float"},
         v.exp = 0, v.like # "nan"
  PROVE  Matches(BoundCodes(f, v), Breaks(f, v))
<1>1. 10^0 = 1
  OBVIOUS
<1>2. v.n \in Nat /\ f.min \in Int /\ f.max \in Int
  BY DEF PyValues, FieldDescriptors, NoBound
<1>m. Max({v.exp, 0}) = 0 /\ Max({-v.exp, 0}) = 0
  BY MaxOf
<1>3. Number(v) = v.n
  BY <1>1, <1>2, <1>m DEF Number
<1>4. \A b \in Int : Scaled(v, b) = b
  BY <1>1, <1>2, <1>m DEF Scaled
<1>5. BoundCodes(f, v) = If(Below(v.n, f.min), "min_value") \o If(Above(v.n, f.max), "max_value")
  BY <1>2, <1>3, <1>4 DEF BoundCodes
<1>6. "max_value" \in Codes /\ "min_value" \in Codes /\ "max_value" # "min_value"
  BY DEF Codes
<1> QED
  BY <1>5, <1>6, BreaksOf, Compares, TwoMatch

LEMMA DigitsMatch ==
  ASSUME NEW f \in FieldDescriptors, NEW v, f.type = "Decimal"
  PROVE  Matches(DigitCodes(f, DecimalDigits(v)), Breaks(f, v))
<1>1. /\ "max_digits" \in Codes /\ "max_decimal_places" \in Codes
      /\ "max_digits" # "max_decimal_places"
  BY DEF Codes
<1> QED
  BY <1>1, BreaksOf, Compares, TwoMatch DEF DigitCodes

LEMMA NoBreaks ==
  ASSUME NEW f \in FieldDescriptors, NEW v, f.type \notin {"str", "bytes", "int", "float", "Decimal"}
  PROVE  Matches(<<>>, Breaks(f, v))
BY BreaksOf, NoneMatches

\* What is known of a counted value that is there.
LEMMA CountedValue ==
  ASSUME NEW f \in FieldDescriptors, NEW v \in PyValues, v # Absent, Counted(f, v)
  PROVE  /\ v.cls = f.type /\ v.like \notin {"nan", "wide"} /\ f.type \in FieldTypes
         /\ f.type # "Decimal" => v.exp = 0
         /\ f.type = "Decimal" /\ v.exp > 0 => v.n # 0 /\ NumDigits[v.n] = 1
         /\ Demands(f, v) = Breaks(f, v)
BY DEF Counted, Declared, Demands, PyValues, FieldDescriptors

\* validate_many on the value of a dict.
LEMMA InlineRight ==
  ASSUME NEW f \in FieldDescriptors, NEW v \in PyValues, v # Absent, Counted(f, v)
  PROVE  Matches(InlineCodes(f, v), Demands(f, v))
<1>0. /\ v.cls = f.type /\ v.like \notin {"nan", "wide"} /\ f.type \in FieldTypes
      /\ f.type # "Decimal" => v.exp = 0
      /\ f.type = "Decimal" /\ v.exp > 0 => v.n # 0 /\ NumDigits[v.n] = 1
      /\ Demands(f, v) = Breaks(f, v)
  BY CountedValue
<1>1. CASE f.type = "str"
  <2>1. InlineCodes(f, v) = LengthCodes(f, v.n)
    BY <1>0, <1>1 DEF InlineCodes, Sized
  <2> QED
    BY <1>0, <1>1, <2>1, LengthsMatch
<1>2. CASE f.type = "bytes"
  <2>1. InlineCodes(f, v) = If(Above(v.n, f.max), "max_length")
    BY <1>0, <1>2 DEF InlineCodes, Sized
  <2> QED
    BY <1>0, <1>2, <2>1, MaxLengthMatches
<1>3. CASE f.type \in {"int", "float"}
  <2>1. InlineCodes(f, v) = BoundCodes(f, v)
    BY <1>0, <1>3 DEF InlineCodes, IsI64, IsF64
  <2> QED
    BY <1>0, <1>3, <2>1, BoundsMatch
<1>4. CASE f.type = "Decimal"
  <2>1. InlineCodes(f, v) = DigitCodes(f, count_decimal_digits(TextOf(v)))
    BY <1>4 DEF InlineCodes, Temporal
  <2>2. count_decimal_digits(TextOf(v)) = DecimalDigits(v)
    BY <1>0, <1>4, DigitsRight
  <2> QED
    BY <1>0, <1>4, <2>1, <2>2, DigitsMatch
<1>5. CASE f.type \in {"bool", "UUID", "list", "dict"} \cup Temporal
  <2>1. InlineCodes(f, v) = <<>>
    BY <1>0, <1>5 DEF InlineCodes, Temporal, ReadsAsUuid
  <2> QED
    BY <1>0, <1>5, <2>1, NoBreaks DEF Temporal
<1> QED
  BY <1>0, <1>1, <1>2, <1>3, <1>4, <1>5 DEF FieldTypes

\* validate_single on a FieldValue of the field's type.
LEMMA SingleRight ==
  ASSUME NEW f \in FieldDescriptors, NEW fv \in FieldValues, fv.kind = f.type, fv.of # Absent,
         Counted(f, fv.of), f.type = "Decimal" => fv.of.exp <= 0
  PROVE  Matches(SingleCodes(f, fv), Demands(f, fv.of))
<1> DEFINE v == fv.of
<1>v. v \in PyValues
  BY DEF FieldValues
<1>0. /\ v.cls = f.type /\ v.like \notin {"nan", "wide"} /\ f.type \in FieldTypes
      /\ f.type # "Decimal" => v.exp = 0
      /\ Demands(f, v) = Breaks(f, v)
  BY <1>v, CountedValue
<1>k. fv.kind # "None"
  BY <1>0 DEF FieldTypes, Temporal
<1>1. CASE f.type = "str"
  <2>1. SingleCodes(f, fv) = LengthCodes(f, v.n)
    BY <1>1 DEF SingleCodes
  <2> QED
    BY <1>0, <1>1, <2>1, LengthsMatch
<1>2. CASE f.type = "bytes"
  <2>1. SingleCodes(f, fv) = If(Above(v.n, f.max), "max_length")
    BY <1>2 DEF SingleCodes
  <2> QED
    BY <1>0, <1>2, <2>1, MaxLengthMatches
<1>3. CASE f.type \in {"int", "float"}
  <2>1. SingleCodes(f, fv) = BoundCodes(f, v)
    BY <1>3 DEF SingleCodes
  <2> QED
    BY <1>v, <1>0, <1>3, <2>1, BoundsMatch
<1>4. CASE f.type = "Decimal"
  <2>1. SingleCodes(f, fv) = DigitCodes(f, RustDecimal(v))
    BY <1>4 DEF SingleCodes
  <2>2. RustDecimal(v) = DecimalDigits(v)
    <3>1. v.n \in Nat /\ v.exp \in Int /\ v.exp <= 0
      BY <1>v, <1>4 DEF PyValues
    <3>2. NumDigits[v.n] \in Nat \ {0} /\ (v.n = 0 => NumDigits[v.n] = 1)
      BY <3>1, DigitsType
    <3>3. Max({v.exp, 0}) = 0 /\ Max({-v.exp, 0}) = -v.exp
      BY <3>1, MaxOf
    <3>4. RustDecimal(v) = <<NumDigits[v.n], -v.exp>>
      BY <1>0, <1>4 DEF RustDecimal
    <3> QED
      BY <3>2, <3>3, <3>4 DEF DecimalDigits
  <2> QED
    BY <1>0, <1>4, <2>1, <2>2, DigitsMatch
<1>5. CASE f.type \in {"bool", "UUID", "list", "dict"} \cup Temporal
  <2>1. SingleCodes(f, fv) = <<>>
    BY <1>5 DEF SingleCodes, Temporal
  <2> QED
    BY <1>0, <1>5, <2>1, NoBreaks DEF Temporal
<1> QED
  BY <1>0, <1>1, <1>2, <1>3, <1>4, <1>5 DEF FieldTypes

LEMMA MissingRight ==
  ASSUME NEW f \in FieldDescriptors
  PROVE  /\ Matches(If(Required(f), "required"), Demands(f, Absent))
         /\ Matches(SingleCodes(f, Null), Demands(f, Absent))
<1>1. f.nullable \in BOOLEAN /\ f.default \in BOOLEAN /\ Required(f) \in BOOLEAN
  BY DEF FieldDescriptors, Required
<1>2. Demands(f, Absent) = OneIf(Required(f), "required")
  BY <1>1 DEF Demands, Required, OneIf
<1>3. SingleCodes(f, Null) = If(Required(f), "required")
  <2>1. Null.kind = "None" /\ f.type # "None"
    BY DEF Null, FieldDescriptors, FieldTypes, Temporal
  <2> QED
    BY <2>1 DEF SingleCodes, Required
<1> QED
  BY <1>1, <1>2, <1>3, IfMatches DEF Codes

\* An ordinary value is extracted, into a FieldValue of the field's type.
LEMMA OrdinaryExtracts ==
  ASSUME NEW f \in FieldDescriptors, NEW v \in PyValues, Ordinary(f, v)
  PROVE  Extractable(f, v) /\ HasJson(Extracted(f, v))
<1>1. CASE v = Absent
  BY <1>1 DEF Ordinary, Extractable, Extracted, HasJson, Null
<1>2. CASE v # Absent
  <2>1. /\ v.cls = f.type /\ v.like \in {"plain", "lossy"} /\ f.type \in FieldTypes
        /\ v.cls = "Decimal" => Plain(v) /\ FitsDecimal(v)
    BY <1>2 DEF Ordinary, Declared, FieldDescriptors
  <2>2. Extracts(f, v)
    <3>1. v.cls = "Decimal" => ReadsAsDecimal(v)
      BY <2>1 DEF ReadsAsDecimal
    <3> QED
      BY <2>1, <3>1 DEF Extracts, FieldTypes, Temporal, IsI64, IsF64, ReadsAsUuid
  <2>3. Extracted(f, v).of = v
    BY <1>2 DEF Extracted, Convert
  <2> QED
    BY <1>2, <2>1, <2>2, <2>3 DEF Extractable, HasJson
<1> QED
  BY <1>1, <1>2

LEMMA AbsentTyped == Absent \in PyValues
<1>1. "None" \in PyClasses /\ "plain" \in Likes
  BY DEF PyClasses, Likes
<1>2. Absent \in [cls : PyClasses, n : Nat, exp : Int, like : Likes]
  BY <1>1 DEF Absent
<1>3. Absent.exp = 0 /\ Absent.cls = "None"
  BY DEF Absent
<1> QED
  BY <1>2, <1>3 DEF PyValues

LEMMA DeclaredExtracted ==
  ASSUME NEW f \in FieldDescriptors, NEW v \in PyValues, Extractable(f, v)
  PROVE  /\ Extracted(f, v) \in FieldValues /\ Extracted(f, v).of = v
         /\ v = Absent => Extracted(f, v) = Null
         /\ v # Absent /\ Declared(f, v) => Extracted(f, v).kind = f.type
         /\ v # Absent /\ Declared(f, v) /\ f.type = "Decimal" => v.exp <= 0
<1>0. f.type \in FieldTypes
  BY DEF FieldDescriptors
<1>1. Absent \in PyValues
  BY AbsentTyped
<1>2. CASE v = Absent
  BY <1>1, <1>2 DEF Extracted, Null, FieldValues, PyClasses
<1>3. CASE v # Absent
  <2>1. Extracted(f, v) = Convert(f, v)
    BY <1>3 DEF Extracted
  <2>2. Convert(f, v).of = v /\ Convert(f, v) \in FieldValues
    BY <1>0 DEF Convert, FieldValues, PyClasses, FieldTypes, Temporal
  <2>3. Declared(f, v) => Convert(f, v).kind = f.type
    BY <1>0, <1>3 DEF Declared, Convert, FieldTypes, Temporal
  <2>4. ASSUME Declared(f, v), f.type = "Decimal" PROVE v.exp <= 0
    BY <1>3, <2>4 DEF Extractable, Extracts, ReadsAsDecimal, Declared, Plain
  <2> QED
    BY <1>3, <2>1, <2>2, <2>3, <2>4
<1> QED
  BY <1>2, <1>3

-------------------------------------------------------------------------------
(***************************************************************************)
(* Entries, row by row.                                                    *)
(***************************************************************************)
LEMMA ItemIn ==
  ASSUME NEW X, NEW s \in Seq(X), NEW i \in DOMAIN s
  PROVE  s[i] \in X
OBVIOUS

LEMMA Dividing ==
  ASSUME NEW a \in Nat, NEW w \in Nat \ {0}
  PROVE  a \div w \in Nat /\ a % w \in 0..w-1 /\ a = w * (a \div w) + (a % w)
OBVIOUS

LEMMA Products ==
  ASSUME NEW w \in Nat \ {0}, NEW q \in Nat, NEW r \in Nat
  PROVE  /\ w * q \in Nat /\ (w * r) % w = 0
         /\ q >= r => w * q >= w * r
         /\ \A m \in 0..w-1 : w * q + m < w * r => q < r
         /\ \A m \in 0..w-1 : w * q + m = w * r => m = 0
<1>1. w * q \in Nat /\ (w * r) % w = 0
  OBVIOUS
<1>2. q >= r => w * q >= w * r
  OBVIOUS
<1>3. ASSUME NEW m \in 0..w-1, w * q + m < w * r PROVE q < r
  <2>1. w * q < w * r
    BY <1>3
  <2> QED
    BY <2>1
<1>4. ASSUME NEW m \in 0..w-1, w * q + m = w * r PROVE m = 0
  BY <1>4
<1> QED
  BY <1>1, <1>2, <1>3, <1>4

Forms == {"same", "text", "iso", "base64", "converted", "short", "utc"}
ErrorRecords == [field : STRING, code : Codes]

LEMMA InputTyped ==
  ASSUME input \in Inputs
  PROVE  /\ call \in ReportCalls \cup SerializeCalls /\ schema \in Seq(FieldDescriptors)
         /\ width \in Nat /\ DOMAIN schema = 1..width
         /\ input.rows \in Seq([kind : {"dict", "object"}, vals : Seq(PyValues)])
         /\ Len(input.rows) \in Nat /\ DOMAIN input.rows = 1..Len(input.rows)
         /\ \A r \in DOMAIN input.rows : Len(input.rows[r].vals) = width
         /\ input.buf \in Seq(FieldValues)
         /\ call \in {"validate", "serialize"} => Len(input.rows) = 1
         /\ call # "chunked" => input.buf = <<>>
         /\ \A k \in DOMAIN input.buf :
              input.buf[k].kind = input.buf[k].of.cls /\ input.buf[k].of.exp <= 0
         /\ Total \in Nat
         /\ \A j, k \in DOMAIN schema : j # k => schema[j].name # schema[k].name
<1>1. /\ input \in [call : ReportCalls \cup SerializeCalls, schema : Seq(FieldDescriptors),
                    rows : Seq([kind : {"dict", "object"}, vals : Seq(PyValues)]),
                    buf : Seq(FieldValues)]
      /\ \A j, k \in DOMAIN input.schema : j # k => input.schema[j].name # input.schema[k].name
      /\ \A r \in DOMAIN input.rows : Len(input.rows[r].vals) = Len(input.schema)
      /\ input.call \in {"validate", "serialize"} => Len(input.rows) = 1
      /\ input.call # "chunked" => input.buf = <<>>
      /\ \A k \in DOMAIN input.buf :
           input.buf[k].kind = input.buf[k].of.cls /\ input.buf[k].of.exp <= 0
  BY InputsAssumption
<1>2. /\ input.call \in ReportCalls \cup SerializeCalls /\ input.schema \in Seq(FieldDescriptors)
      /\ input.rows \in Seq([kind : {"dict", "object"}, vals : Seq(PyValues)])
      /\ input.buf \in Seq(FieldValues)
  BY <1>1
<1>3. Len(input.schema) \in Nat /\ Len(input.rows) \in Nat /\ Len(input.buf) \in Nat
  BY <1>2
<1>4. width * Len(input.rows) \in Nat
  <2> DEFINE a == Len(input.schema)
             b == Len(input.rows)
  <2>1. a \in Nat /\ b \in Nat
    BY <1>3
  <2> HIDE DEF a, b
  <2>2. a * b \in Nat
    BY <2>1
  <2> QED
    BY <2>2 DEF width, schema, a, b
<1>5. Total \in Nat
  BY <1>3, <1>4 DEF Total
<1> QED
  BY <1>1, <1>2, <1>3, <1>5 DEF call, schema, width

\* An entry has a field; and, when there are rows, a row and a value there.
LEMMA EntryTyped ==
  ASSUME input \in Inputs, NEW i \in 1..Total
  PROVE  /\ width \in Nat \ {0} /\ FieldOf(i) \in FieldDescriptors
         /\ \E k \in DOMAIN schema : k = ((i - 1) % width) + 1 /\ FieldOf(i) = schema[k]
         /\ call # "chunked" => /\ RowOf(i) \in DOMAIN input.rows
                                /\ input.rows[RowOf(i)].kind \in {"dict", "object"}
                                /\ ValueOf(i) \in PyValues
         /\ call = "chunked" => i \in DOMAIN input.buf
<1>1. width \in Nat \ {0} /\ i \in Nat \ {0} /\ i <= Total
  BY InputTyped DEF Total
<1> DEFINE q == (i - 1) \div width
           m == (i - 1) % width
<1>2. i - 1 \in Nat /\ q \in Nat /\ m \in 0..width-1 /\ i - 1 = width * q + m
  <2>1. i - 1 \in Nat
    BY <1>1
  <2> QED
    BY <1>1, <2>1, Dividing, Zenon
<1>3. m + 1 \in DOMAIN schema /\ FieldOf(i) = schema[m + 1]
  <2> HIDE DEF q
  <2>1. m + 1 \in 1..width
    <3> HIDE DEF m
    <3> QED
      BY <1>1, <1>2
  <2> QED
    BY <2>1, InputTyped DEF FieldOf
<1>4. FieldOf(i) \in FieldDescriptors
  <2> HIDE DEF m
  <2> QED
    BY <1>3, InputTyped
<1>5. ASSUME call # "chunked"
      PROVE  /\ RowOf(i) \in DOMAIN input.rows
             /\ input.rows[RowOf(i)].kind \in {"dict", "object"}
             /\ ValueOf(i) \in PyValues
  <2> DEFINE r == Len(input.rows)
  <2>1. Total = width * r /\ r \in Nat /\ DOMAIN input.rows = 1..r
    BY <1>1, <1>5, InputTyped DEF Total
  <2>2. RowOf(i) = q + 1
    BY DEF RowOf
  <2>3. ValueOf(i) = input.rows[q + 1].vals[m + 1]
    BY <2>2 DEF ValueOf
  <2> HIDE DEF q, m, r
  <2>4. width * q + m < width * r
    BY <1>1, <1>2, <2>1, Products
  <2>5. q < r
    BY <1>1, <1>2, <2>1, <2>4, Products
  <2>6. q + 1 \in DOMAIN input.rows
    BY <1>2, <2>1, <2>5
  <2>7. /\ input.rows[q + 1].kind \in {"dict", "object"}
        /\ input.rows[q + 1].vals \in Seq(PyValues) /\ Len(input.rows[q + 1].vals) = width
    <3>1. input.rows \in Seq([kind : {"dict", "object"}, vals : Seq(PyValues)])
      BY InputTyped
    <3>2. input.rows[q + 1] \in [kind : {"dict", "object"}, vals : Seq(PyValues)]
      BY <2>6, <3>1, ItemIn
    <3> QED
      BY <2>6, <3>2, InputTyped
  <2>8. input.rows[q + 1].vals[m + 1] \in PyValues
    BY <1>1, <1>2, <2>7
  <2> QED
    BY <2>2, <2>3, <2>6, <2>7, <2>8
<1>6. call = "chunked" => i \in DOMAIN input.buf
  <2>1. ASSUME call = "chunked" PROVE i \in DOMAIN input.buf
    <3>1. Total = Len(input.buf)
      BY <1>1, <2>1 DEF Total
    <3> QED
      BY <1>1, <3>1, InputTyped
  <2> QED
    BY <2>1
<1> QED
  BY <1>1, <1>3, <1>4, <1>5, <1>6

LEMMA InputStays ==
  ASSUME input' = input
  PROVE  /\ call' = call /\ schema' = schema /\ width' = width /\ Total' = Total
         /\ \A i : FieldOf(i)' = FieldOf(i) /\ ValueOf(i)' = ValueOf(i) /\ RowOf(i)' = RowOf(i)
BY DEF call, schema, width, Total, FieldOf, ValueOf, RowOf

-------------------------------------------------------------------------------
(***************************************************************************)
(* What any call keeps.                                                    *)
(***************************************************************************)
Batched == {"validate", "chunked"}

CoreTypeOK ==
  /\ input \in Inputs
  /\ pc \in {"check", "batch", "report", "done", "written", "raised"}
  /\ at \in 0..Total
  /\ len \in 0..Len(input.rows) /\ (at = 0 => len = Len(input.rows))
  /\ pc = "check" => call # "chunked"
  /\ pc = "batch" => call \in Batched
  /\ pc \in {"report", "done"} => call \in ReportCalls
  /\ pc = "written" => call \in SerializeCalls

\* The next entry to look at is one.
LEMMA NextTyped ==
  ASSUME CoreTypeOK, pc = "check", MoreEntries
  PROVE  /\ Next1 \in 1..Total /\ Next1 = at + 1 /\ at \in Nat /\ at + 1 \in 1..Total
         /\ width \in Nat \ {0} /\ FieldOf(Next1) \in FieldDescriptors
         /\ RowOf(Next1) \in DOMAIN input.rows
         /\ input.rows[RowOf(Next1)].kind \in {"dict", "object"}
         /\ ValueOf(Next1) \in PyValues
<1>1. Next1 \in 1..Total /\ at \in Nat /\ Next1 = at + 1
  BY InputTyped DEF CoreTypeOK, MoreEntries, Next1
<1> HIDE DEF Next1
<1> QED
  BY <1>1, EntryTyped DEF CoreTypeOK

LEMMA CoreInitTyped == Init => CoreTypeOK
<1> SUFFICES ASSUME Init PROVE CoreTypeOK
  OBVIOUS
<1>1. input \in Inputs /\ at = 0 /\ len = Len(input.rows)
      /\ pc = IF call = "chunked" THEN "batch" ELSE "check"
  BY DEF Init, call
<1> QED
  BY <1>1, InputTyped DEF CoreTypeOK, Batched

\* An entry is done, or the call raises.
LEMMA EntryStepTyped ==
  ASSUME CoreTypeOK, pc = "check", MoreEntries, input' = input, len' = len,
         (at' = at + 1 /\ pc' = pc) \/ (at' = at /\ pc' = "raised")
  PROVE  CoreTypeOK'
<1>1. at + 1 \in 1..Total /\ at \in Nat
  BY NextTyped
<1> QED
  BY <1>1, InputStays DEF CoreTypeOK

LEMMA CoreStepTyped ==
  ASSUME CoreTypeOK, EngineNext
  PROVE  CoreTypeOK'
<1>1. CASE CheckDict
  BY <1>1, EntryStepTyped DEF CheckDict
<1>2. CASE CheckObject
  BY <1>2, EntryStepTyped DEF CheckObject, Raise
<1>3. CASE Extract
  BY <1>3, EntryStepTyped DEF Extract, Raise
<1>4. CASE PopRow
  <2>1. len' \in 0..Len(input.rows)
    BY <1>4, InputTyped DEF PopRow, CoreTypeOK
  <2> QED
    BY <1>4, <2>1, InputStays DEF PopRow, CoreTypeOK
<1>5. CASE EndOfRows
  BY <1>5, InputStays DEF EndOfRows, CoreTypeOK, Batched
<1>6. CASE \E c \in 1..Chunks : Work(c)
  BY <1>6, InputStays DEF Work, CoreTypeOK
<1>7. CASE Collect
  BY <1>7, InputStays DEF Collect, CoreTypeOK, Batched, ReportCalls
<1>8. CASE Report
  BY <1>8, InputStays DEF Report, CoreTypeOK
<1>9. CASE SerializeDict
  BY <1>9, EntryStepTyped DEF SerializeDict, WriteEntry, RaiseOut, Raise
<1>10. CASE SerializeObject
  BY <1>10, EntryStepTyped DEF SerializeObject, WriteEntry, RaiseOut, Raise
<1>11. CASE EndOfOutput
  BY <1>11, InputStays DEF EndOfOutput, CoreTypeOK
<1> QED
  BY <1>1, <1>2, <1>3, <1>4, <1>5, <1>6, <1>7, <1>8, <1>9, <1>10, <1>11 DEF EngineNext, Next

-------------------------------------------------------------------------------
(***************************************************************************)
(* Nothing but a value that is out of the ordinary raises.                 *)
(***************************************************************************)
LEMMA RaiseJustified ==
  ASSUME CoreTypeOK, pc = "check", MoreEntries, input' = input,
         ~Ordinary(FieldOf(Next1), ValueOf(Next1)),
         call = "validate_many" => input.rows[RowOf(Next1)].kind = "object"
  PROVE  OrdinaryDataGetsAReport'
<1>1. Next1 \in 1..Total /\ RowOf(Next1) \in DOMAIN input.rows
  BY NextTyped
<1>n. PICK n : n = Next1
  OBVIOUS
<1>2. n \in 1..Total' /\ ~Ordinary(FieldOf(n)', ValueOf(n)')
  BY <1>1, <1>n, InputStays
<1>3. \E i \in 1..Total' : ~Ordinary(FieldOf(i)', ValueOf(i)')
  BY <1>2
<1>4. call' = "validate_many" => \E k \in DOMAIN input'.rows : input'.rows[k].kind # "dict"
  BY <1>1, InputStays
<1> QED
  BY <1>3, <1>4 DEF OrdinaryDataGetsAReport, Ordinary, Declared, Required

LEMMA OrdinaryStep ==
  ASSUME CoreTypeOK, OrdinaryDataGetsAReport, EngineNext
  PROVE  OrdinaryDataGetsAReport'
<1> DEFINE f == FieldOf(Next1)
           v == ValueOf(Next1)
<1>0. ASSUME pc = "check", MoreEntries
      PROVE  /\ f \in FieldDescriptors /\ v \in PyValues
             /\ Ordinary(f, v) => Extractable(f, v) /\ HasJson(Extracted(f, v))
             /\ Ordinary(f, v) => ~(v = Absent /\ Required(f)) /\ (v # Absent => PythonWrites(f, v))
  <2>1. f \in FieldDescriptors /\ v \in PyValues
    BY <1>0, NextTyped
  <2> HIDE DEF f, v
  <2>2. Ordinary(f, v) => Extractable(f, v) /\ HasJson(Extracted(f, v))
    BY <2>1, OrdinaryExtracts
  <2>3. Ordinary(f, v) => ~(v = Absent /\ Required(f)) /\ (v # Absent => PythonWrites(f, v))
    BY DEF Ordinary, Declared, PythonWrites
  <2> QED
    BY <2>1, <2>2, <2>3
<1>a. ASSUME pc' # "raised" PROVE OrdinaryDataGetsAReport'
  BY <1>a DEF OrdinaryDataGetsAReport
<1>1. CASE CheckDict
  BY <1>1, <1>a DEF CheckDict
<1>2. CASE CheckObject
  <2>1. CASE pc' = "raised"
    <3>1. pc = "check" /\ MoreEntries /\ input' = input /\ ~Extractable(f, v)
          /\ input.rows[RowOf(Next1)].kind = "object"
      BY <1>2, <2>1 DEF CheckObject, Raise
    <3> QED
      BY <1>0, <3>1, RaiseJustified
  <2> QED
    BY <1>a, <2>1
<1>3. CASE Extract
  <2>1. CASE pc' = "raised"
    <3>1. pc = "check" /\ MoreEntries /\ input' = input /\ ~Extractable(f, v) /\ call = "validate"
      BY <1>3, <2>1 DEF Extract, Raise
    <3> QED
      BY <1>0, <3>1, RaiseJustified
  <2> QED
    BY <1>a, <2>1
<1>4. CASE PopRow \/ EndOfRows \/ Collect \/ Report \/ EndOfOutput \/ \E c \in 1..Chunks : Work(c)
  BY <1>4, <1>a DEF PopRow, EndOfRows, Collect, Report, EndOfOutput, Work
<1>5. CASE SerializeDict
  <2>1. CASE pc' = "raised"
    <3>1. pc = "check" /\ MoreEntries /\ input' = input /\ call = "serialize_many"
          /\ ((v = Absent /\ Required(f)) \/ (v # Absent /\ ~PythonWrites(f, v)))
      BY <1>5, <2>1 DEF SerializeDict, RaiseOut, Raise, WriteEntry
    <3> QED
      BY <1>0, <3>1, RaiseJustified
  <2> QED
    BY <1>a, <2>1
<1>6. CASE SerializeObject
  <2>1. CASE pc' = "raised"
    <3>1. pc = "check" /\ MoreEntries /\ input' = input /\ call \in SerializeCalls
          /\ ~(Extractable(f, v) /\ HasJson(Extracted(f, v)))
      BY <1>6, <2>1 DEF SerializeObject, RaiseOut, Raise, WriteEntry
    <3> QED
      BY <1>0, <3>1, RaiseJustified DEF SerializeCalls
  <2> QED
    BY <1>a, <2>1
<1> QED
  BY <1>1, <1>2, <1>3, <1>4, <1>5, <1>6 DEF EngineNext, Next

-------------------------------------------------------------------------------
(***************************************************************************)
(* Serialised rows.                                                        *)
(***************************************************************************)
WrittenEntries == [form : Forms, of : PyValues]

EntryWritten(i) ==
  /\ out[i].of = ValueOf(i)
  /\ Ordinary(FieldOf(i), ValueOf(i)) /\ Kept(ValueOf(i)) /\ FieldOf(i).type # "datetime"
       => out[i] = Expected(FieldOf(i), ValueOf(i))

SerializedOK ==
  call \in SerializeCalls =>
    /\ pc = "raised" => out = <<>>
    /\ pc # "raised" => /\ out \in Seq(WrittenEntries) /\ Len(out) = at
                        /\ \A i \in 1..at : EntryWritten(i)
    /\ pc = "written" => /\ width > 0 => at % width = 0
                         /\ len = Len(input.rows) => at = Total

LEMMA FormsTyped ==
  ASSUME NEW f \in FieldDescriptors, NEW v \in PyValues
  PROVE  /\ Written("same", v) \in WrittenEntries /\ Written("same", v).of = v
         /\ Written(PythonForm(f), v) \in WrittenEntries /\ Written(PythonForm(f), v).of = v
         /\ Written(JsonForm(Extracted(f, v)), v) \in WrittenEntries
         /\ Written(JsonForm(Extracted(f, v)), v).of = v
<1>0. f.type \in FieldTypes
  BY DEF FieldDescriptors
<1>1. PythonForm(f) \in Forms
  BY <1>0 DEF PythonForm, Forms, Temporal, FieldTypes
<1>2. \A fv : JsonForm(fv) \in Forms
  BY DEF JsonForm, Forms
<1> QED
  BY <1>1, <1>2 DEF Written, WrittenEntries, Forms

\* An ordinary value is written as expected, on either path.
LEMMA FormsRight ==
  ASSUME NEW f \in FieldDescriptors, NEW v \in PyValues, Ordinary(f, v), Kept(v),
         f.type # "datetime"
  PROVE  /\ v = Absent => Written("same", v) = Expected(f, v)
         /\ v # Absent => Written(PythonForm(f), v) = Expected(f, v)
         /\ Written(JsonForm(Extracted(f, v)), v) = Expected(f, v)
<1>0. f.type \in FieldTypes
  BY DEF FieldDescriptors
<1>1. CASE v = Absent
  <2>1. Expected(f, v) = Written("same", v)
    BY <1>1 DEF Expected
  <2>2. JsonForm(Extracted(f, v)) = "same"
    BY <1>1 DEF Extracted, Null, JsonForm
  <2> QED
    BY <1>1, <2>1, <2>2
<1>2. CASE v # Absent
  <2>1. v.cls = f.type /\ v.like = "plain"
    BY <1>2 DEF Ordinary, Declared, Kept
  <2>2. Expected(f, v) = Written(PythonForm(f), v)
    BY <1>0, <1>2 DEF Expected, PythonForm, FieldTypes, Temporal
  <2>3. Extracted(f, v) = [kind |-> f.type, of |-> v]
    BY <1>0, <1>2, <2>1 DEF Extracted, Convert, FieldTypes, Temporal
  <2>4. JsonForm(Extracted(f, v)) = PythonForm(f)
    <3>1. Extracted(f, v).kind = f.type /\ Extracted(f, v).of = v
      BY <2>3
    <3>2. f.type # "None"
      BY <1>0 DEF FieldTypes, Temporal
    <3> HIDE DEF Extracted
    <3> QED
      BY <1>0, <2>1, <3>1, <3>2 DEF JsonForm, PythonForm, FieldTypes, Temporal
  <2> QED
    BY <1>2, <2>2, <2>4
<1> QED
  BY <1>1, <1>2

LEMMA EntryWrittenThen ==
  ASSUME input' = input, NEW i, NEW w, out'[i] = w, w.of = ValueOf(i),
         Ordinary(FieldOf(i), ValueOf(i)) /\ Kept(ValueOf(i)) /\ FieldOf(i).type # "datetime"
           => w = Expected(FieldOf(i), ValueOf(i))
  PROVE  EntryWritten(i)'
<1>1. FieldOf(i)' = FieldOf(i) /\ ValueOf(i)' = ValueOf(i)
  BY InputStays
<1>2. EntryWritten(i)' <=>
        /\ out'[i].of = ValueOf(i)'
        /\ Ordinary(FieldOf(i)', ValueOf(i)') /\ Kept(ValueOf(i)') /\ FieldOf(i)'.type # "datetime"
             => out'[i] = Expected(FieldOf(i)', ValueOf(i)')
  BY DEF EntryWritten, Ordinary, Declared, Required, Kept, Expected, Written
<1> QED
  BY <1>1, <1>2

LEMMA EntryStays ==
  ASSUME input' = input, out \in Seq(WrittenEntries), NEW w \in WrittenEntries,
         out' = Append(out, w), NEW i \in 1..Len(out), EntryWritten(i)
  PROVE  EntryWritten(i)'
<1>1. out'[i] = out[i]
  BY Appended
<1> QED
  BY <1>1, EntryWrittenThen DEF EntryWritten

LEMMA WriteKeeps ==
  ASSUME CoreTypeOK, SerializedOK, pc = "check", MoreEntries, call \in SerializeCalls,
         NEW w \in WrittenEntries, w.of = ValueOf(Next1),
         Ordinary(FieldOf(Next1), ValueOf(Next1)) /\ Kept(ValueOf(Next1))
             /\ FieldOf(Next1).type # "datetime"
           => w = Expected(FieldOf(Next1), ValueOf(Next1)),
         WriteEntry(w)
  PROVE  SerializedOK'
<1>1. at \in Nat /\ Next1 = at + 1 /\ input' = input /\ at' = at + 1 /\ pc' = "check"
      /\ out' = Append(out, w)
  BY NextTyped DEF WriteEntry
<1>2. /\ out \in Seq(WrittenEntries) /\ Len(out) = at
      /\ \A i \in 1..at : EntryWritten(i)
  BY DEF SerializedOK
<1>3. out' \in Seq(WrittenEntries) /\ Len(out') = at + 1 /\ out'[at + 1] = w
  BY <1>1, <1>2, Appended
<1>4. \A i \in 1..at : EntryWritten(i)'
  BY <1>1, <1>2, EntryStays
<1>n. PICK n : n = at + 1
  OBVIOUS
<1>5. EntryWritten(n)'
  BY <1>1, <1>3, <1>n, EntryWrittenThen
<1>6. \A i \in 1..at' : EntryWritten(i)'
  <2>1. \A i \in 1..at + 1 : i \in 1..at \/ i = n
    BY <1>1, <1>n
  <2> QED
    BY <1>1, <1>4, <1>5, <2>1
<1> QED
  BY <1>1, <1>3, <1>6 DEF SerializedOK

\* Rows end with a whole row, and before the last only if the list got shorter.
LEMMA RowsEnd ==
  ASSUME CoreTypeOK, pc = "check", ~MoreEntries
  PROVE  /\ width > 0 => at % width = 0
         /\ len = Len(input.rows) => at = Total
         /\ call \notin ListCalls => at = Total
<1> DEFINE rows == Len(input.rows)
<1>0. /\ at \in Nat /\ at <= Total /\ width \in Nat /\ rows \in Nat /\ len \in Nat
      /\ Total \in Nat /\ Total = IF width = 0 THEN 0 ELSE width * rows
  BY InputTyped DEF CoreTypeOK, Total
<1> HIDE DEF rows
<1>1. CASE at >= Total
  <2>1. at = Total
    BY <1>0, <1>1
  <2>2. width > 0 => at % width = 0
    <3>1. ASSUME width > 0 PROVE at % width = 0
      <4>1. at = width * rows /\ width \in Nat \ {0}
        BY <1>0, <2>1, <3>1
      <4> QED
        BY <1>0, <4>1, Products
    <3> QED
      BY <3>1
  <2> QED
    BY <2>1, <2>2
<1>2. CASE at < Total
  <2>1. call \in ListCalls /\ at % width = 0 /\ ~(at \div width < len)
    BY <1>2 DEF MoreEntries
  <2>2. width \in Nat \ {0}
    BY <1>0, <1>2
  <2>3. ASSUME len = rows PROVE at = Total
    <3> DEFINE q == at \div width
    <3>1. q \in Nat /\ at = width * q + 0 /\ ~(q < rows)
      BY <1>0, <2>1, <2>2, <2>3, Dividing
    <3> HIDE DEF q
    <3>2. width * q \in Nat /\ width * q >= width * rows
      BY <1>0, <2>2, <3>1, Products
    <3> QED
      BY <1>0, <1>2, <2>2, <3>1, <3>2
  <2> QED
    BY <2>1, <2>3 DEF rows
<1> QED
  BY <1>0, <1>1, <1>2

LEMMA SerializedStep ==
  ASSUME CoreTypeOK, SerializedOK, EngineNext
  PROVE  SerializedOK'
<1> SUFFICES ASSUME call \in SerializeCalls PROVE SerializedOK'
  <2>1. input' = input
    BY DEF EngineNext, Next, CheckDict, CheckObject, Extract, PopRow, EndOfRows, Work, Collect,
           Report, SerializeDict, SerializeObject, EndOfOutput, Raise, RaiseOut, WriteEntry
  <2> QED
    BY <2>1, InputStays DEF SerializedOK
<1> DEFINE f == FieldOf(Next1)
           v == ValueOf(Next1)
<1>0. call \notin ReportCalls /\ call \notin Batched
  BY DEF SerializeCalls, ReportCalls, Batched
<1>1. ASSUME pc = "check", MoreEntries PROVE f \in FieldDescriptors /\ v \in PyValues
  BY <1>1, NextTyped
<1>2. ASSUME RaiseOut PROVE SerializedOK'
  BY <1>2 DEF SerializedOK, RaiseOut, Raise
<1>3. CASE PopRow
  <2>1. input' = input /\ UNCHANGED <<pc, at, out>>
    BY <1>3, <1>0 DEF EngineNext, Next, PopRow, CheckDict, CheckObject, Extract, EndOfRows, Work,
       Collect, Report, SerializeDict, SerializeObject, EndOfOutput, WriteEntry, RaiseOut, Raise,
       ReportCalls, CoreTypeOK
  <2>2. pc = "check" /\ out \in Seq(WrittenEntries) /\ Len(out) = at
        /\ \A i \in 1..at : EntryWritten(i)
    BY <1>3 DEF PopRow, SerializedOK
  <2>3. \A i \in 1..at : EntryWritten(i)'
    BY <2>1, <2>2, EntryWrittenThen DEF EntryWritten
  <2> QED
    BY <2>1, <2>2, <2>3 DEF SerializedOK
<1>4. CASE SerializeDict
  <2>0. pc = "check" /\ MoreEntries
    BY <1>4 DEF SerializeDict
  <2>1. \/ v = Absent /\ WriteEntry(Written("same", Absent))
        \/ v # Absent /\ WriteEntry(Written(PythonForm(f), v))
        \/ RaiseOut
    BY <1>4 DEF SerializeDict
  <2>2. CASE v = Absent /\ WriteEntry(Written("same", Absent))
    <3> DEFINE w == Written("same", v)
    <3>1. w \in WrittenEntries /\ w.of = v
          /\ (Ordinary(f, v) /\ Kept(v) /\ f.type # "datetime" => w = Expected(f, v))
      BY <1>1, <2>0, <2>2, FormsTyped, FormsRight
    <3>2. WriteEntry(w)
      BY <2>2
    <3> HIDE DEF w
    <3> QED
      BY <2>0, <3>1, <3>2, WriteKeeps
  <2>3. CASE v # Absent /\ WriteEntry(Written(PythonForm(f), v))
    <3> DEFINE w == Written(PythonForm(f), v)
    <3>1. w \in WrittenEntries /\ w.of = v
          /\ (Ordinary(f, v) /\ Kept(v) /\ f.type # "datetime" => w = Expected(f, v))
      BY <1>1, <2>0, <2>3, FormsTyped, FormsRight
    <3>2. WriteEntry(w)
      BY <2>3
    <3> HIDE DEF w
    <3> QED
      BY <2>0, <3>1, <3>2, WriteKeeps
  <2> QED
    BY <1>2, <2>1, <2>2, <2>3
<1>5. CASE SerializeObject
  <2>0. pc = "check" /\ MoreEntries
    BY <1>5 DEF SerializeObject
  <2> DEFINE w == Written(JsonForm(Extracted(f, v)), v)
  <2>1. WriteEntry(w) \/ RaiseOut
    BY <1>5 DEF SerializeObject
  <2>2. CASE WriteEntry(w)
    <3>1. w \in WrittenEntries /\ w.of = v
          /\ (Ordinary(f, v) /\ Kept(v) /\ f.type # "datetime" => w = Expected(f, v))
      BY <1>1, <2>0, FormsTyped, FormsRight
    <3> HIDE DEF w
    <3> QED
      BY <2>0, <2>2, <3>1, WriteKeeps
  <2> QED
    BY <1>2, <2>1, <2>2
<1>6. CASE EndOfOutput
  <2>1. pc = "check" /\ ~MoreEntries /\ pc' = "written" /\ input' = input /\ UNCHANGED <<at, len, out>>
    BY <1>6 DEF EndOfOutput
  <2>2. out \in Seq(WrittenEntries) /\ Len(out) = at /\ \A i \in 1..at : EntryWritten(i)
    BY <2>1 DEF SerializedOK
  <2>3. \A i \in 1..at : EntryWritten(i)'
    BY <2>1, <2>2, EntryWrittenThen DEF EntryWritten
  <2>4. (width > 0 => at % width = 0) /\ (len = Len(input.rows) => at = Total)
    BY <2>1, RowsEnd
  <2> QED
    BY <2>1, <2>2, <2>3, <2>4, InputStays DEF SerializedOK
<1>7. ~CheckDict /\ ~CheckObject /\ ~Extract /\ ~EndOfRows /\ ~Collect /\ ~Report
      /\ ~\E c \in 1..Chunks : Work(c)
  BY <1>0 DEF CheckDict, CheckObject, Extract, EndOfRows, Collect, Report, Work, CoreTypeOK,
              ReportCalls, SerializeCalls
<1> QED
  BY <1>3, <1>4, <1>5, <1>6, <1>7 DEF EngineNext, Next

CoreInv == CoreTypeOK /\ OrdinaryDataGetsAReport /\ SerializedOK

LEMMA CoreInitial == EngineInit => CoreInv
<1> SUFFICES ASSUME EngineInit PROVE CoreInv
  OBVIOUS
<1>1. CoreTypeOK
  BY CoreInitTyped DEF EngineInit
<1>2. pc # "raised" /\ pc # "written" /\ at = 0 /\ out = <<>>
  BY DEF EngineInit, Init
<1>3. SerializedOK
  BY <1>2 DEF SerializedOK
<1> QED
  BY <1>1, <1>2, <1>3 DEF CoreInv, OrdinaryDataGetsAReport

LEMMA CoreStep == CoreInv /\ [EngineNext]_engineVars => CoreInv'
<1> SUFFICES ASSUME CoreInv, [EngineNext]_engineVars PROVE CoreInv'
  OBVIOUS
<1>1. CASE EngineNext
  BY <1>1, CoreStepTyped, OrdinaryStep, SerializedStep DEF CoreInv
<1>2. CASE UNCHANGED engineVars
  BY <1>2, InputStays DEF CoreInv, engineVars, vars, CoreTypeOK, OrdinaryDataGetsAReport, SerializedOK,
     EntryWritten, Ordinary, Declared, Required, Kept, Expected, Written
<1> QED
  BY <1>1, <1>2

LEMMA CoreInvariant == EngineSpec => []CoreInv
BY CoreInitial, CoreStep, PTL DEF EngineSpec

\* A call that raises was given a value that is not of its field's class or has
\* a peculiarity, and never is it a list of dicts.
THEOREM OrdinaryDataIsReported == EngineSpec => []OrdinaryDataGetsAReport
BY CoreInvariant, PTL DEF CoreInv

\* The rows serialised are whole rows, in their order, ordinary values written
\* alike on either path, and an exception leaves none.
THEOREM RowsSerializedAlike == EngineSpec => []SerializedAlike
<1>1. CoreInv => SerializedAlike
  <2> SUFFICES ASSUME CoreInv, call \in SerializeCalls, pc = "written"
               PROVE  /\ width > 0 => Len(out) % width = 0
                      /\ len = Len(input.rows) => Len(out) = Total
                      /\ \A i \in DOMAIN out : EntryWritten(i)
    BY DEF SerializedAlike, EntryWritten, CoreInv, SerializedOK
  <2>1. out \in Seq(WrittenEntries) /\ Len(out) = at /\ \A i \in 1..at : EntryWritten(i)
    BY DEF CoreInv, SerializedOK
  <2> QED
    BY <2>1 DEF CoreInv, SerializedOK
<1> QED
  BY <1>1, CoreInvariant, PTL

-------------------------------------------------------------------------------
(***************************************************************************)
(* The errors of entries 1..n, one after another: cut[i] of them are of    *)
(* the first i entries.                                                    *)
(***************************************************************************)
Lines(name, D) == {[field |-> name, code |-> c] : c \in D}

Cuts(e, n, want, cut) ==
  /\ cut \in [0..n -> Nat]
  /\ cut[0] = 0 /\ cut[n] = Len(e)
  /\ \A i \in 0..n : cut[i] <= Len(e)
  /\ \A i \in 1..n :
       /\ cut[i] = cut[i-1] + Cardinality(want[i].codes)
       /\ {e[k] : k \in cut[i-1] + 1 .. cut[i]} = Lines(want[i].name, want[i].codes)

Reports(e, n, want) == \E cut : Cuts(e, n, want, cut)

LEMMA NothingReported ==
  ASSUME NEW want
  PROVE  Reports(<<>>, 0, want)
<1> DEFINE cut == [i \in 0..0 |-> 0]
<1>1. 0..0 = {0} /\ 1..0 = {}
  OBVIOUS
<1>2. cut \in [0..0 -> Nat] /\ \A i \in 0..0 : cut[i] = 0
  OBVIOUS
<1> HIDE DEF cut
<1>3. Cuts(<<>>, 0, want, cut)
  BY <1>1, <1>2 DEF Cuts
<1> QED
  BY <1>3 DEF Reports

LEMMA Joined ==
  ASSUME NEW X, NEW a \in Seq(X), NEW b \in Seq(X)
  PROVE  /\ a \o b \in Seq(X) /\ Len(a) \in Nat /\ Len(b) \in Nat
         /\ Len(a \o b) = Len(a) + Len(b)
         /\ \A k \in 1..Len(a) : (a \o b)[k] = a[k]
         /\ \A k \in 1..Len(b) : (a \o b)[Len(a) + k] = b[k]
         /\ DOMAIN a = 1..Len(a) /\ DOMAIN b = 1..Len(b)
OBVIOUS

\* One more entry.
LEMMA ReportsMore ==
  ASSUME NEW X, NEW e \in Seq(X), NEW s \in Seq(X), NEW n \in Nat, NEW want,
         Reports(e, n, want),
         Len(s) = Cardinality(want[n+1].codes),
         ToSet(s) = Lines(want[n+1].name, want[n+1].codes)
  PROVE  Reports(e \o s, n + 1, want)
<1>1. PICK cut : Cuts(e, n, want, cut)
  BY DEF Reports
<1> DEFINE m == Len(e)
           l == Len(s)
           t == e \o s
           cut1 == [i \in 0..n+1 |-> IF i <= n THEN cut[i] ELSE m + l]
<1>2. /\ m \in Nat /\ l \in Nat /\ Len(t) = m + l /\ DOMAIN s = 1..l
      /\ \A k \in 1..m : t[k] = e[k]
      /\ \A k \in 1..l : t[m + k] = s[k]
  BY Joined
<1>3. /\ cut \in [0..n -> Nat] /\ cut[0] = 0 /\ cut[n] = m /\ \A i \in 0..n : cut[i] <= m
      /\ \A i \in 1..n :
           /\ cut[i] = cut[i-1] + Cardinality(want[i].codes)
           /\ {e[k] : k \in cut[i-1] + 1 .. cut[i]} = Lines(want[i].name, want[i].codes)
  BY <1>1 DEF Cuts
<1>4. l = Cardinality(want[n+1].codes) /\ {s[k] : k \in 1..l} = Lines(want[n+1].name, want[n+1].codes)
  BY <1>2 DEF ToSet
<1> HIDE DEF m, l, t
<1>5. cut1 \in [0..n+1 -> Nat]
  BY <1>2, <1>3
<1>6. (\A i \in 0..n : cut1[i] = cut[i]) /\ cut1[n+1] = m + l
  OBVIOUS
<1> HIDE DEF cut1
<1>7. \A i \in 0..n+1 : cut1[i] <= m + l
  <2>1. \A i \in 0..n+1 : i \in 0..n \/ i = n + 1
    OBVIOUS
  <2>2. \A i \in 0..n : cut1[i] <= m + l
    BY <1>2, <1>3, <1>6
  <2> QED
    BY <1>2, <1>6, <2>1, <2>2
<1>8. ASSUME NEW i \in 1..n
      PROVE  /\ cut1[i] = cut1[i-1] + Cardinality(want[i].codes)
             /\ {t[k] : k \in cut1[i-1] + 1 .. cut1[i]} = Lines(want[i].name, want[i].codes)
  <2>1. cut1[i] = cut[i] /\ cut1[i-1] = cut[i-1] /\ cut[i] \in Nat /\ cut[i-1] \in Nat /\ cut[i] <= m
    BY <1>3, <1>6
  <2>2. \A k \in cut[i-1] + 1 .. cut[i] : t[k] = e[k]
    <3>1. \A k \in cut[i-1] + 1 .. cut[i] : k \in 1..m
      BY <1>2, <2>1
    <3> QED
      BY <1>2, <3>1
  <2>3. {t[k] : k \in cut[i-1] + 1 .. cut[i]} = {e[k] : k \in cut[i-1] + 1 .. cut[i]}
    BY <2>2
  <2> QED
    BY <1>3, <2>1, <2>3
<1>9. /\ cut1[n+1] = cut1[n] + Cardinality(want[n+1].codes)
      /\ {t[k] : k \in cut1[n] + 1 .. cut1[n+1]} = Lines(want[n+1].name, want[n+1].codes)
  <2>1. cut1[n] = m
    BY <1>3, <1>6
  <2>2. {t[k] : k \in m + 1 .. m + l} = {s[k] : k \in 1..l}
    <3>1. \A k \in m + 1 .. m + l : k - m \in 1..l /\ t[k] = s[k - m]
      BY <1>2
    <3>2. \A k \in 1..l : m + k \in m + 1 .. m + l /\ t[m + k] = s[k]
      BY <1>2
    <3> QED
      BY <3>1, <3>2
  <2> QED
    BY <1>4, <1>6, <2>1, <2>2
<1>10. \A i \in 1..n+1 :
         /\ cut1[i] = cut1[i-1] + Cardinality(want[i].codes)
         /\ {t[k] : k \in cut1[i-1] + 1 .. cut1[i]} = Lines(want[i].name, want[i].codes)
  <2>1. \A i \in 1..n+1 : i \in 1..n \/ (i = n + 1 /\ i - 1 = n)
    OBVIOUS
  <2> QED
    BY <1>8, <1>9, <2>1
<1>11. Cuts(t, n + 1, want, cut1)
  <2>1. cut1[0] = 0
    BY <1>3, <1>6
  <2> QED
    BY <1>2, <1>5, <1>6, <1>7, <1>10, <2>1 DEF Cuts
<1> QED
  BY <1>11 DEF Reports, t

\* Lists of errors one after another, each of the entries up to b[j].
LEMMA FlattenReports ==
  ASSUME NEW X, NEW s \in Seq(Seq(X)), NEW e \in Seq(X), NEW b, NEW want,
         Reports(e, b[0], want),
         \A j \in 1..Len(s) : \A e1 \in Seq(X) :
           Reports(e1, b[j-1], want) => Reports(e1 \o s[j], b[j], want)
  PROVE  Reports(e \o FlattenSeq(s), b[Len(s)], want) /\ e \o FlattenSeq(s) \in Seq(X)
<1> DEFINE n == Len(s)
<1>n. n \in Nat /\ \A j \in 1..n : s[j] \in Seq(X)
  OBVIOUS
<1>0. e \o <<>> = e /\ <<>> \in Seq(X)
  OBVIOUS
<1>1. CASE n = 0
  <2>1. s = <<>>
    BY <1>1
  <2> QED
    BY <1>0, <1>1, <2>1, FlattenNothing
<1>2. CASE n # 0
  <2>1. PICK f : Flattens(s, n, f) /\ FlattenSeq(s) = f[n]
    BY <1>2, FlattenIsLast
  <2> DEFINE Pre(j) == IF j = 0 THEN <<>> ELSE f[j]
             OK(j) == Pre(j) \in Seq(X) /\ Reports(e \o Pre(j), b[j], want)
             T == {j \in 0..n : ~OK(j)}
  <2>2. ASSUME T # {} PROVE FALSE
    <3>1. PICK j \in T : \A i \in T : j <= i
      <4>1. T \in SUBSET Nat
        OBVIOUS
      <4> HIDE DEF T
      <4> QED
        BY <2>2, <4>1, Least
    <3>2. j \in 0..n /\ ~OK(j) /\ (j # 0 => j \in 1..n /\ j - 1 \in 0..n /\ ~(j <= j - 1))
      BY <1>n, <3>1
    <3>3. j # 0
      BY <1>0, <3>2
    <3>4. OK(j - 1)
      BY <3>1, <3>2, <3>3
    <3> DEFINE p == Pre(j - 1)
    <3>5. f[j] = p \o s[j] /\ p \in Seq(X) /\ s[j] \in Seq(X)
      <4>1. f[j] = IF j = 1 THEN s[j] ELSE f[j-1] \o s[j]
        BY <2>1, <3>2, <3>3, FlattensAt
      <4>2. p \in Seq(X) /\ s[j] \in Seq(X)
        BY <1>n, <3>2, <3>3, <3>4
      <4>3. <<>> \o s[j] = s[j]
        BY <4>2
      <4>4. CASE j = 1
        BY <4>1, <4>2, <4>3, <4>4
      <4>5. CASE j # 1
        <5>1. p = f[j-1]
          BY <3>2, <3>3, <4>5
        <5> HIDE DEF p
        <5> QED
          BY <4>1, <4>2, <4>5, <5>1
      <4> QED
        BY <4>4, <4>5
    <3>6. Reports(e \o p, b[j-1], want)
      BY <3>4
    <3> HIDE DEF p
    <3>7. (e \o p) \o s[j] = e \o (p \o s[j]) /\ e \o p \in Seq(X) /\ p \o s[j] \in Seq(X)
      <4> DEFINE y == s[j]
      <4>1. p \in Seq(X) /\ y \in Seq(X) /\ e \in Seq(X)
        BY <3>5
      <4> HIDE DEF y
      <4>2. (e \o p) \o y = e \o (p \o y)
        BY <4>1
      <4>3. e \o p \in Seq(X) /\ p \o y \in Seq(X)
        BY <4>1
      <4> QED
        BY <4>2, <4>3 DEF y
    <3>8. Reports(e \o f[j], b[j], want)
      BY <3>2, <3>3, <3>5, <3>6, <3>7
    <3> QED
      BY <3>2, <3>3, <3>5, <3>7, <3>8
  <2>3. OK(n)
    BY <1>n, <2>2
  <2>4. Pre(n) = f[n]
    BY <1>2
  <2> HIDE DEF Pre
  <2>5. f[n] \in Seq(X) /\ Reports(e \o f[n], b[n], want)
    BY <2>3, <2>4
  <2> QED
    BY <2>1, <2>5
<1> QED
  BY <1>1, <1>2

LEMMA ErrsMatch ==
  ASSUME NEW f \in FieldDescriptors, NEW codes \in Seq(Codes)
  PROVE  /\ Errs(f, codes) \in Seq(ErrorRecords) /\ Len(Errs(f, codes)) = Len(codes)
         /\ \A D : Matches(codes, D) => /\ Len(Errs(f, codes)) = Cardinality(D)
                                        /\ ToSet(Errs(f, codes)) = Lines(f.name, D)
<1> DEFINE n == Len(codes)
           s == Errs(f, codes)
<1>1. n \in Nat /\ DOMAIN codes = 1..n /\ \A k \in 1..n : codes[k] \in Codes
  OBVIOUS
<1>2. s = [k \in 1..n |-> [field |-> f.name, code |-> codes[k]]]
  BY <1>1 DEF Errs
<1>3. f.name \in STRING
  BY DEF FieldDescriptors
<1> HIDE DEF n, s
<1>4. s \in Seq(ErrorRecords) /\ Len(s) = n /\ DOMAIN s = 1..n
      /\ \A k \in 1..n : s[k] = [field |-> f.name, code |-> codes[k]]
  <2>1. \A k \in 1..n : [field |-> f.name, code |-> codes[k]] \in ErrorRecords
    BY <1>1, <1>3 DEF ErrorRecords
  <2>2. s \in [1..n -> ErrorRecords]
    BY <1>2, <2>1
  <2> QED
    BY <1>1, <1>2, <2>2
<1>5. ASSUME NEW D, Matches(codes, D) PROVE Len(s) = Cardinality(D) /\ ToSet(s) = Lines(f.name, D)
  <2>1. n = Cardinality(D) /\ {codes[k] : k \in 1..n} = D
    BY <1>1, <1>5 DEF Matches, ToSet, n
  <2>2. ToSet(s) = {s[k] : k \in 1..n}
    BY <1>4 DEF ToSet
  <2> QED
    BY <1>4, <2>1, <2>2 DEF Lines
<1> QED
  BY <1>4, <1>5 DEF n, s

-------------------------------------------------------------------------------
(***************************************************************************)
(* What the report has to say of each entry.                               *)
(***************************************************************************)
EntryValue(i) == IF call = "chunked" THEN input.buf[i].of ELSE ValueOf(i)
Wanted(i) == [name |-> FieldOf(i).name, codes |-> Demands(FieldOf(i), EntryValue(i))]
Want == [i \in 1..Total |-> Wanted(i)]
AllCounted(n) == \A i \in 1..n : Counted(FieldOf(i), EntryValue(i))

LEMMA WantStays ==
  ASSUME input' = input
  PROVE  /\ Want' = Want
         /\ \A n : AllCounted(n)' <=> AllCounted(n)
         /\ \A i : EntryValue(i)' = EntryValue(i)
<1>1. /\ call' = call /\ Total' = Total
      /\ \A i : FieldOf(i)' = FieldOf(i) /\ ValueOf(i)' = ValueOf(i)
  BY InputStays
<1>2. \A i : EntryValue(i)' = EntryValue(i)
  BY <1>1 DEF EntryValue
<1>3. \A i : Wanted(i)' = Wanted(i)
  BY <1>1, <1>2 DEF Wanted
<1>4. Want' = Want
  BY <1>1, <1>3 DEF Want
<1>5. \A n : AllCounted(n)' <=> AllCounted(n)
  BY <1>1, <1>2 DEF AllCounted
<1> QED
  BY <1>2, <1>4, <1>5

\* The list of errors e grows by what one entry gives.
LEMMA EntryReported ==
  ASSUME input \in Inputs, NEW n \in Nat, n + 1 \in 1..Total, NEW e \in Seq(ErrorRecords),
         Reports(e, n, Want), NEW codes \in Seq(Codes),
         Matches(codes, Demands(FieldOf(n + 1), EntryValue(n + 1)))
  PROVE  Reports(e \o Errs(FieldOf(n + 1), codes), n + 1, Want)
<1>1. FieldOf(n + 1) \in FieldDescriptors
  BY EntryTyped
<1>2. Want[n + 1].name = FieldOf(n + 1).name
      /\ Want[n + 1].codes = Demands(FieldOf(n + 1), EntryValue(n + 1))
  BY DEF Want, Wanted
<1> DEFINE s == Errs(FieldOf(n + 1), codes)
<1>3. /\ s \in Seq(ErrorRecords) /\ Len(s) = Cardinality(Want[n + 1].codes)
      /\ ToSet(s) = Lines(Want[n + 1].name, Want[n + 1].codes)
  BY <1>1, <1>2, ErrsMatch
<1> HIDE DEF s
<1>4. Reports(e \o s, n + 1, Want)
  BY <1>3, ReportsMore
<1> QED
  BY <1>4 DEF s

-------------------------------------------------------------------------------
(***************************************************************************)
(* The codes of any value are codes, and any value that is extracted       *)
(* becomes a FieldValue.                                                   *)
(***************************************************************************)
LEMMA IfTyped ==
  \A p, c : c \in Codes => If(p, c) \in Seq(Codes)
<1>1. \A c \in Codes : <<c>> \in Seq(Codes)
  OBVIOUS
<1>2. <<>> \in Seq(Codes)
  OBVIOUS
<1> QED
  BY <1>1, <1>2 DEF If

LEMMA BothTyped ==
  ASSUME NEW p, NEW q, NEW c \in Codes, NEW d \in Codes
  PROVE  If(p, c) \o If(q, d) \in Seq(Codes)
<1>1. If(p, c) \in Seq(Codes) /\ If(q, d) \in Seq(Codes)
  BY IfTyped
<1> QED
  BY <1>1

LEMMA SingleCodesOfKinds ==
  ASSUME NEW f, NEW v
  PROVE  /\ LengthCodes(f, v.n) \in Seq(Codes) /\ BoundCodes(f, v) \in Seq(Codes)
         /\ \A count : DigitCodes(f, count) \in Seq(Codes)
         /\ If(Above(v.n, f.max), "max_length") \in Seq(Codes)
         /\ If(Required(f), "required") \in Seq(Codes)
         /\ If(~f.nullable /\ ~f.default, "required") \in Seq(Codes)
         /\ <<"invalid">> \in Seq(Codes) /\ <<>> \in Seq(Codes)
<1>1. /\ "max_length" \in Codes /\ "min_length" \in Codes /\ "max_value" \in Codes
      /\ "min_value" \in Codes /\ "max_digits" \in Codes /\ "max_decimal_places" \in Codes
      /\ "required" \in Codes /\ "invalid" \in Codes
  BY DEF Codes
<1>2. LengthCodes(f, v.n) \in Seq(Codes)
  BY <1>1, BothTyped DEF LengthCodes
<1>3. <<"invalid">> \in Seq(Codes) /\ <<>> \in Seq(Codes)
  BY <1>1
<1>4. BoundCodes(f, v) \in Seq(Codes)
  BY <1>1, <1>3, BothTyped DEF BoundCodes
<1>5. \A count : DigitCodes(f, count) \in Seq(Codes)
  BY <1>1, BothTyped DEF DigitCodes
<1> QED
  BY <1>1, <1>2, <1>3, <1>4, <1>5, IfTyped

LEMMA CodesTyped ==
  ASSUME NEW f \in FieldDescriptors, NEW v, NEW fv
  PROVE  InlineCodes(f, v) \in Seq(Codes) /\ SingleCodes(f, fv) \in Seq(Codes)
<1>0. f.type \in FieldTypes
  BY DEF FieldDescriptors
<1>1. InlineCodes(f, v) \in
        {<<"invalid">>, <<>>, LengthCodes(f, v.n), BoundCodes(f, v),
         If(Above(v.n, f.max), "max_length"), DigitCodes(f, count_decimal_digits(TextOf(v)))}
  BY <1>0 DEF InlineCodes
<1>2. SingleCodes(f, fv) \in
        {<<"invalid">>, <<>>, LengthCodes(f, fv.of.n), BoundCodes(f, fv.of),
         If(Above(fv.of.n, f.max), "max_length"), DigitCodes(f, RustDecimal(fv.of)),
         If(~f.nullable /\ ~f.default, "required")}
  BY <1>0 DEF SingleCodes
<1> QED
  BY <1>1, <1>2, SingleCodesOfKinds

LEMMA ErrsTyped ==
  ASSUME NEW f \in FieldDescriptors, NEW v, NEW fv
  PROVE  /\ Errs(f, InlineCodes(f, v)) \in Seq(ErrorRecords)
         /\ Errs(f, SingleCodes(f, fv)) \in Seq(ErrorRecords)
         /\ Errs(f, If(Required(f), "required")) \in Seq(ErrorRecords)
BY CodesTyped, SingleCodesOfKinds, ErrsMatch

\* The codes for a value that was extracted, or of one in a dict.
LEMMA ExtractedRight ==
  ASSUME NEW f \in FieldDescriptors, NEW v \in PyValues, Extractable(f, v), Counted(f, v)
  PROVE  Matches(SingleCodes(f, Extracted(f, v)), Demands(f, v))
<1>1. CASE v = Absent
  BY <1>1, MissingRight DEF Extracted
<1>2. CASE v # Absent
  <2> DEFINE fv == Extracted(f, v)
  <2>1. fv \in FieldValues /\ fv.of = v /\ fv.kind = f.type /\ (f.type = "Decimal" => v.exp <= 0)
    BY <1>2, DeclaredExtracted DEF Counted
  <2> HIDE DEF fv
  <2>2. Matches(SingleCodes(f, fv), Demands(f, fv.of))
    BY <1>2, <2>1, SingleRight
  <2> QED
    BY <2>1, <2>2 DEF fv
<1> QED
  BY <1>1, <1>2

LEMMA DictRight ==
  ASSUME NEW f \in FieldDescriptors, NEW v \in PyValues, Counted(f, v)
  PROVE  Matches(IF v = Absent THEN If(Required(f), "required") ELSE InlineCodes(f, v),
                 Demands(f, v))
BY MissingRight, InlineRight

-------------------------------------------------------------------------------
(***************************************************************************)
(* The buffer of a batch.                                                  *)
(***************************************************************************)
EntryExtracted(i) ==
  Extractable(FieldOf(i), ValueOf(i)) /\ buf[i] = Extracted(FieldOf(i), ValueOf(i))

BufferOK ==
  /\ buf \in Seq(FieldValues)
  /\ call = "chunked" => buf = input.buf
  /\ call = "validate" => /\ Len(buf) = at
                          /\ \A i \in 1..at : EntryExtracted(i)
                          /\ pc \in {"batch", "report", "done"} => at = Total

LEMMA BufferStep ==
  ASSUME CoreTypeOK, BufferOK, EngineNext
  PROVE  BufferOK'
<1>1. CASE Extract
  <2> DEFINE f == FieldOf(Next1)
             v == ValueOf(Next1)
             w == Extracted(f, v)
  <2>1. /\ pc = "check" /\ MoreEntries /\ call = "validate" /\ input' = input
        /\ \/ Extractable(f, v) /\ buf' = Append(buf, w) /\ at' = at + 1 /\ pc' = pc
           \/ buf' = buf /\ at' = at /\ pc' = "raised"
    BY <1>1 DEF Extract, Raise
  <2>2. f \in FieldDescriptors /\ v \in PyValues /\ at \in Nat /\ Next1 = at + 1
    BY <2>1, NextTyped
  <2>3. /\ call' = call /\ schema' = schema
        /\ \A i : FieldOf(i)' = FieldOf(i) /\ ValueOf(i)' = ValueOf(i)
    BY <2>1, InputStays
  <2>4. CASE buf' = buf /\ at' = at /\ pc' = "raised"
    BY <2>1, <2>3, <2>4 DEF BufferOK, EntryExtracted, Extractable, Extracted, Required
  <2>5. CASE Extractable(f, v) /\ buf' = Append(buf, w) /\ at' = at + 1 /\ pc' = pc
    <3>1. w \in FieldValues
      BY <2>2, <2>5, DeclaredExtracted
    <3>2. Extractable(FieldOf(at + 1), ValueOf(at + 1))
          /\ w = Extracted(FieldOf(at + 1), ValueOf(at + 1))
      BY <2>2, <2>5
    <3> HIDE DEF w
    <3>3. /\ buf \in Seq(FieldValues) /\ Len(buf) = at
          /\ \A i \in 1..at : EntryExtracted(i)
      BY <2>1 DEF BufferOK
    <3>4. /\ buf' \in Seq(FieldValues) /\ Len(buf') = at + 1 /\ buf'[at + 1] = w
          /\ \A i \in 1..at : buf'[i] = buf[i]
      BY <2>5, <3>1, <3>3, Appended
    <3>5. \A i \in 1..at + 1 : Extractable(FieldOf(i), ValueOf(i))
                               /\ buf'[i] = Extracted(FieldOf(i), ValueOf(i))
      <4> TAKE i \in 1..at + 1
      <4>1. CASE i \in 1..at
        BY <3>3, <3>4, <4>1 DEF EntryExtracted
      <4>2. CASE i = at + 1
        BY <3>2, <3>4, <4>2
      <4> QED
        BY <2>2, <4>1, <4>2
    <3>6. \A i \in 1..at + 1 : EntryExtracted(i)'
      BY <2>3, <3>5 DEF EntryExtracted, Extractable, Extracted, Required
    <3>7. call' = "validate" /\ pc' = "check" /\ at' = at + 1
      BY <2>1, <2>3, <2>5
    <3> QED
      BY <3>4, <3>6, <3>7 DEF BufferOK
  <2> QED
    BY <2>1, <2>4, <2>5
<1>2. CASE EndOfRows
  <2>1. /\ pc = "check" /\ ~MoreEntries /\ input' = input /\ at' = at /\ buf' = buf
    BY <1>2 DEF EndOfRows
  <2>2. call = "validate" => at = Total
    BY <2>1, RowsEnd DEF ListCalls
  <2>3. /\ call' = call /\ Total' = Total
        /\ \A i : FieldOf(i)' = FieldOf(i) /\ ValueOf(i)' = ValueOf(i)
    BY <2>1, InputStays
  <2>4. \A i : EntryExtracted(i)' = EntryExtracted(i)
    BY <2>1, <2>3 DEF EntryExtracted, Extractable, Extracted, Required
  <2> QED
    BY <2>1, <2>2, <2>3, <2>4 DEF BufferOK
<1>3. CASE ~Extract /\ ~EndOfRows
  <2>1. /\ input' = input /\ buf' = buf
        /\ call = "validate" => at' = at
        /\ call = "validate" /\ pc' \in {"batch", "report", "done"} => pc \in {"batch", "report"}
    BY <1>3 DEF EngineNext, Next, CheckDict, CheckObject, PopRow, Work, Collect, Report,
       SerializeDict, SerializeObject, EndOfOutput, Raise, RaiseOut, WriteEntry, SerializeCalls,
       ListCalls, CoreTypeOK
  <2>2. /\ call' = call /\ Total' = Total
        /\ \A i : FieldOf(i)' = FieldOf(i) /\ ValueOf(i)' = ValueOf(i)
    BY <2>1, InputStays
  <2>3. \A i : EntryExtracted(i)' = EntryExtracted(i)
    BY <2>1, <2>2 DEF EntryExtracted, Extractable, Extracted, Required
  <2> QED
    BY <2>1, <2>2, <2>3 DEF BufferOK
<1> QED
  BY <1>1, <1>2, <1>3

\* An entry of a batch: its FieldValue gives the errors that are wanted.
LEMMA BatchEntry ==
  ASSUME CoreTypeOK, BufferOK, pc = "batch", NEW i \in 1..Total
  PROVE  /\ FieldOf(i) \in FieldDescriptors /\ SingleCodes(FieldOf(i), buf[i]) \in Seq(Codes)
         /\ Counted(FieldOf(i), EntryValue(i)) =>
              Matches(SingleCodes(FieldOf(i), buf[i]), Demands(FieldOf(i), EntryValue(i)))
<1> DEFINE f == FieldOf(i)
           fv == buf[i]
<1>1. f \in FieldDescriptors
  BY EntryTyped DEF CoreTypeOK
<1>2. SingleCodes(f, fv) \in Seq(Codes)
  <2> HIDE DEF f, fv
  <2> QED
    BY <1>1, CodesTyped
<1>3. CASE call = "validate"
  <2>1. Extractable(f, ValueOf(i)) /\ fv = Extracted(f, ValueOf(i))
    BY <1>3 DEF BufferOK, EntryExtracted
  <2>2. ValueOf(i) \in PyValues /\ EntryValue(i) = ValueOf(i)
    BY <1>3, EntryTyped DEF CoreTypeOK, EntryValue
  <2> HIDE DEF f, fv
  <2> QED
    BY <1>1, <1>2, <2>1, <2>2, ExtractedRight DEF f, fv
<1>4. CASE call = "chunked"
  <2>1. i \in DOMAIN input.buf /\ fv = input.buf[i] /\ EntryValue(i) = fv.of
    BY <1>4, EntryTyped DEF CoreTypeOK, BufferOK, EntryValue
  <2>2. fv \in FieldValues
    <3>1. input.buf \in Seq(FieldValues)
      BY InputTyped DEF CoreTypeOK
    <3> QED
      BY <2>1, <3>1, ItemIn
  <2>3. fv.kind = fv.of.cls /\ fv.of.exp <= 0
    BY <2>1, InputTyped DEF CoreTypeOK
  <2>4. fv.of \in PyValues
    BY <2>2 DEF FieldValues
  <2> SUFFICES ASSUME Counted(f, fv.of) PROVE Matches(SingleCodes(f, fv), Demands(f, fv.of))
    BY <1>1, <1>2, <2>1
  <2> HIDE DEF f, fv
  <2>5. CASE fv.of = Absent
    <3>1. fv = Null
      <4>1. fv.kind = "None"
        BY <2>3, <2>5 DEF Absent
      <4>2. fv = [kind |-> fv.kind, of |-> fv.of]
        BY <2>2 DEF FieldValues
      <4> QED
        BY <2>5, <4>1, <4>2 DEF Null
    <3> QED
      BY <1>1, <2>5, <3>1, MissingRight
  <2>6. CASE fv.of # Absent
    <3>1. fv.kind = f.type
      BY <1>1, <2>3, <2>4, <2>6, CountedValue
    <3> QED
      BY <1>1, <2>2, <2>3, <2>6, <3>1, SingleRight
  <2> QED
    BY <2>5, <2>6
<1> QED
  BY <1>3, <1>4 DEF CoreTypeOK, Batched

-------------------------------------------------------------------------------
(***************************************************************************)
(* Chunks: chunk c is of the entries up to Bound(c).                       *)
(***************************************************************************)
Bound(c) == Min({c * Size, Len(buf)})

LEMMA MinOf ==
  ASSUME NEW a \in Nat, NEW b \in Nat
  PROVE  Min({a, b}) = IF a <= b THEN a ELSE b
BY DEF Min

\* c divides as the number of chunks does: every chunk has an entry, and
\* together they have all.
LEMMA ChunkBounds ==
  ASSUME NEW l \in Nat, NEW s \in Nat \ {0}
  PROVE  /\ (l + s - 1) \div s \in Nat
         /\ ((l + s - 1) \div s) * s >= l
         /\ \A c \in 1..((l + s - 1) \div s) : (c - 1) * s < l
<1> DEFINE q == (l + s - 1) \div s
           m == (l + s - 1) % s
<1>0. l + s - 1 \in Nat
  OBVIOUS
<1>1. q \in Nat /\ m \in 0..s-1 /\ l + s - 1 = s * q + m
  BY <1>0, Dividing
<1> HIDE DEF q, m
<1>2. s * q = q * s /\ q * s \in Nat
  BY <1>1
<1>3. q * s >= l
  BY <1>1, <1>2
<1>4. ASSUME NEW c \in 1..q PROVE (c - 1) * s < l
  <2>1. (q - c) \in Nat /\ (q - c) * s \in Nat
    BY <1>1
  <2>2. (c - 1) * s = q * s - s - (q - c) * s
    BY <1>1
  <2>3. (c - 1) * s <= q * s - s
    BY <1>1, <1>2, <2>1, <2>2
  <2> QED
    BY <1>1, <1>2, <2>3
<1> QED
  BY <1>1, <1>3, <1>4 DEF q

LEMMA ChunksBounded ==
  ASSUME CoreTypeOK, BufferOK, pc = "batch", Total # 0
  PROVE  /\ Size \in Nat \ {0} /\ Chunks \in Nat /\ Len(buf) = Total /\ Total \in Nat
         /\ Bound(0) = 0 /\ Bound(Chunks) = Total
         /\ \A c \in 1..Chunks :
              /\ (c - 1) * Size \in Nat /\ Bound(c - 1) = (c - 1) * Size
              /\ Bound(c) - (c - 1) * Size \in Nat /\ Bound(c) \in 1..Total
<1>1. width \in Nat \ {0} /\ Total \in Nat
  BY InputTyped DEF CoreTypeOK, Total
<1>2. Size \in Nat \ {0}
  BY <1>1 DEF Size
<1>3. Len(buf) = Total
  BY <1>1 DEF CoreTypeOK, BufferOK, Batched, Total
<1>4. Chunks = (Total + Size - 1) \div Size
  BY <1>3 DEF Chunks
<1> DEFINE l == Total
           s == Size
           q == Chunks
<1>5. /\ q \in Nat /\ q * s >= l
      /\ \A c \in 1..q : (c - 1) * s < l
  <2>1. /\ (l + s - 1) \div s \in Nat
        /\ ((l + s - 1) \div s) * s >= l
        /\ \A c \in 1..((l + s - 1) \div s) : (c - 1) * s < l
    BY <1>1, <1>2, ChunkBounds
  <2> QED
    BY <1>4, <2>1
<1>6. \A c : Bound(c) = Min({c * s, l})
  BY <1>3 DEF Bound
<1>7. l \in Nat \ {0} /\ s \in Nat \ {0}
  BY <1>1, <1>2
<1> HIDE DEF l, s, q
<1>8. \A c \in Nat : c * s \in Nat /\ Bound(c) = IF c * s <= l THEN c * s ELSE l
  <2> TAKE c \in Nat
  <2>1. c * s \in Nat
    BY <1>7
  <2> QED
    BY <1>6, <1>7, <2>1, MinOf
<1>9. Bound(0) = 0
  <2>1. 0 * s = 0
    BY <1>7
  <2> QED
    BY <1>7, <1>8, <2>1
<1>10. Bound(q) = l
  BY <1>5, <1>7, <1>8
<1>11. ASSUME NEW c \in 1..q
       PROVE  /\ (c - 1) * s \in Nat /\ Bound(c - 1) = (c - 1) * s
              /\ Bound(c) - (c - 1) * s \in Nat /\ Bound(c) \in 1..l
  <2>1. c - 1 \in Nat /\ c \in Nat
    BY <1>5
  <2>2. (c - 1) * s \in Nat /\ Bound(c - 1) = (c - 1) * s /\ (c - 1) * s < l
    BY <1>5, <1>7, <1>8, <2>1
  <2>3. c * s = (c - 1) * s + s /\ c * s \in Nat
    BY <1>7, <2>1
  <2>4. Bound(c) = IF c * s <= l THEN c * s ELSE l
    BY <1>8, <2>1
  <2> QED
    BY <1>7, <2>2, <2>3, <2>4
<1> QED
  BY <1>2, <1>3, <1>5, <1>7, <1>9, <1>10, <1>11 DEF l, s, q

\* Entry i of a batch, as the errors its FieldValue gives.
BatchErrs(i) == Errs(FieldOf(i), SingleCodes(FieldOf(i), buf[i]))

LEMMA BatchEntryReported ==
  ASSUME CoreTypeOK, BufferOK, pc = "batch", NEW n \in Nat, n + 1 \in 1..Total
  PROVE  /\ BatchErrs(n + 1) \in Seq(ErrorRecords)
         /\ \A e \in Seq(ErrorRecords) :
              AllCounted(Total) /\ Reports(e, n, Want) => Reports(e \o BatchErrs(n + 1), n + 1, Want)
<1> DEFINE f == FieldOf(n + 1)
           codes == SingleCodes(f, buf[n + 1])
           i == n + 1
<1>1. /\ f \in FieldDescriptors /\ codes \in Seq(Codes)
      /\ Counted(f, EntryValue(n + 1)) => Matches(codes, Demands(f, EntryValue(n + 1)))
  <2>1. i \in 1..Total
    OBVIOUS
  <2> HIDE DEF i
  <2>2. /\ FieldOf(i) \in FieldDescriptors /\ SingleCodes(FieldOf(i), buf[i]) \in Seq(Codes)
        /\ Counted(FieldOf(i), EntryValue(i)) =>
             Matches(SingleCodes(FieldOf(i), buf[i]), Demands(FieldOf(i), EntryValue(i)))
    BY <2>1, BatchEntry
  <2> QED
    BY <2>2 DEF i
<1>2. BatchErrs(n + 1) = Errs(f, codes)
  BY DEF BatchErrs
<1>3. BatchErrs(n + 1) \in Seq(ErrorRecords)
  <2> HIDE DEF f, codes
  <2> QED
    BY <1>1, <1>2, ErrsMatch
<1>4. ASSUME NEW e \in Seq(ErrorRecords), AllCounted(Total), Reports(e, n, Want)
      PROVE  Reports(e \o BatchErrs(n + 1), n + 1, Want)
  <2>1. Matches(codes, Demands(f, EntryValue(n + 1)))
    BY <1>1, <1>4 DEF AllCounted
  <2>2. input \in Inputs
    BY DEF CoreTypeOK
  <2> HIDE DEF codes
  <2>3. Reports(e \o Errs(f, codes), n + 1, Want)
    BY <1>1, <1>4, <2>1, <2>2, EntryReported
  <2> QED
    BY <1>2, <2>3
<1> QED
  BY <1>3, <1>4

LEMMA ChunkReported ==
  ASSUME CoreTypeOK, BufferOK, pc = "batch", Total # 0, NEW c \in 1..Chunks
  PROVE  /\ ChunkErrors(c) \in Seq(ErrorRecords)
         /\ \A e \in Seq(ErrorRecords) :
              AllCounted(Total) /\ Reports(e, Bound(c - 1), Want)
                => Reports(e \o ChunkErrors(c), Bound(c), Want)
<1> DEFINE first == (c - 1) * Size
           last == Bound(c)
           m == last - first
           s == [k \in 1..m |-> BatchErrs(first + k)]
<1>1. first \in Nat /\ m \in Nat /\ last \in Nat /\ last <= Total /\ Total \in Nat
      /\ Bound(c - 1) = first
  BY ChunksBounded
<1>2. ChunkErrors(c) = FlattenSeq(s)
  BY DEF ChunkErrors, BatchErrs, Bound
<1>3. first + m = last
  <2> HIDE DEF first, last
  <2> QED
    BY <1>1
<1> HIDE DEF first, last, m
<1>4. \A j \in 1..m : first + j \in 1..Total /\ first + (j - 1) \in Nat
                      /\ first + j = first + (j - 1) + 1
  BY <1>1, <1>3
<1>5. ASSUME NEW j \in 1..m
      PROVE  /\ BatchErrs(first + j) \in Seq(ErrorRecords)
             /\ \A e \in Seq(ErrorRecords) :
                  AllCounted(Total) /\ Reports(e, first + (j - 1), Want)
                    => Reports(e \o BatchErrs(first + j), first + j, Want)
  <2> DEFINE n == first + (j - 1)
  <2>1. n \in Nat /\ n + 1 \in 1..Total /\ first + j = n + 1
    BY <1>4
  <2> HIDE DEF n
  <2>2. /\ BatchErrs(n + 1) \in Seq(ErrorRecords)
        /\ \A e \in Seq(ErrorRecords) :
             AllCounted(Total) /\ Reports(e, n, Want) => Reports(e \o BatchErrs(n + 1), n + 1, Want)
    BY <2>1, BatchEntryReported
  <2> QED
    BY <2>1, <2>2 DEF n
<1>6. s \in Seq(Seq(ErrorRecords)) /\ Len(s) = m /\ \A j \in 1..m : s[j] = BatchErrs(first + j)
  <2>1. s \in [1..m -> Seq(ErrorRecords)] /\ \A j \in 1..m : s[j] = BatchErrs(first + j)
    BY <1>5
  <2> HIDE DEF s
  <2>2. m \in Nat
    BY <1>1
  <2>3. s \in Seq(Seq(ErrorRecords)) /\ Len(s) = m
    BY <2>1, <2>2
  <2> QED
    BY <2>1, <2>3
<1>7. FlattenSeq(s) \in Seq(ErrorRecords)
  <2> HIDE DEF s
  <2> QED
    BY <1>6, FlattenType
<1> DEFINE b == [j \in 0..m |-> first + j]
<1>8. b[0] = first /\ b[m] = last /\ \A j \in 1..m : b[j] = first + j /\ b[j-1] = first + (j - 1)
  BY <1>1, <1>3
<1> HIDE DEF s, b
<1>9. ASSUME NEW e \in Seq(ErrorRecords), AllCounted(Total), Reports(e, first, Want)
      PROVE  Reports(e \o FlattenSeq(s), last, Want)
  <2>1. \A j \in 1..Len(s) : \A e1 \in Seq(ErrorRecords) :
           Reports(e1, b[j-1], Want) => Reports(e1 \o s[j], b[j], Want)
    BY <1>5, <1>6, <1>8, <1>9
  <2>2. Reports(e, b[0], Want)
    BY <1>8, <1>9
  <2>3. Reports(e \o FlattenSeq(s), b[Len(s)], Want)
    BY <1>6, <2>1, <2>2, FlattenReports
  <2> QED
    BY <1>6, <1>8, <2>3
<1> QED
  BY <1>1, <1>2, <1>7, <1>9 DEF last

\* The chunks, one after another, report the batch.
LEMMA BatchReported ==
  ASSUME CoreTypeOK, BufferOK, pc = "batch", NEW s \in Seq(Seq(ErrorRecords)), Len(s) = Chunks,
         \A c \in 1..Chunks : s[c] = ChunkErrors(c)
  PROVE  AllCounted(Total) => Reports(FlattenSeq(s), Total, Want)
<1> SUFFICES ASSUME AllCounted(Total) PROVE Reports(FlattenSeq(s), Total, Want)
  OBVIOUS
<1>1. CASE Total = 0
  <2>1. s = <<>>
    BY <1>1 DEF Chunks
  <2>2. FlattenSeq(s) = <<>>
    BY <2>1, FlattenNothing
  <2> QED
    BY <1>1, <2>2, NothingReported
<1>2. CASE Total # 0
  <2> DEFINE b == [c \in 0..Chunks |-> Bound(c)]
  <2>1. Chunks \in Nat /\ Bound(0) = 0 /\ Bound(Chunks) = Total
    BY <1>2, ChunksBounded
  <2>2. b[0] = 0 /\ b[Len(s)] = Total
        /\ \A c \in 1..Chunks : b[c] = Bound(c) /\ b[c-1] = Bound(c - 1)
    BY <2>1
  <2> HIDE DEF b
  <2>3. <<>> \in Seq(ErrorRecords) /\ Reports(<<>>, b[0], Want)
    BY <2>2, NothingReported
  <2>4. \A c \in 1..Chunks : \A e \in Seq(ErrorRecords) :
          Reports(e, Bound(c - 1), Want) => Reports(e \o ChunkErrors(c), Bound(c), Want)
    BY <1>2, ChunkReported
  <2>5. \A j \in 1..Len(s) : \A e1 \in Seq(ErrorRecords) :
           Reports(e1, b[j-1], Want) => Reports(e1 \o s[j], b[j], Want)
    BY <2>2, <2>4
  <2>6. Reports(<<>> \o FlattenSeq(s), b[Len(s)], Want) /\ <<>> \o FlattenSeq(s) \in Seq(ErrorRecords)
    BY <2>3, <2>5, FlattenReports
  <2>7. FlattenSeq(s) \in Seq(ErrorRecords)
    BY FlattenType
  <2>8. <<>> \o FlattenSeq(s) = FlattenSeq(s)
    BY <2>7
  <2> QED
    BY <2>2, <2>6, <2>8
<1> QED
  BY <1>1, <1>2

-------------------------------------------------------------------------------
(***************************************************************************)
(* Each chunk is checked once, in any order.                               *)
(***************************************************************************)
CheckedOK ==
  /\ checked \in Seq(Nat \X Seq(ErrorRecords))
  /\ pc = "check" => checked = <<>>
  /\ \A k \in DOMAIN checked :
       /\ checked[k][1] \in 1..Chunks
       /\ pc = "batch" => checked[k][2] = ChunkErrors(checked[k][1])
  /\ \A j, k \in DOMAIN checked : j # k => checked[j][1] # checked[k][1]

LEMMA BatchStays ==
  ASSUME input' = input, buf' = buf
  PROVE  /\ Chunks' = Chunks /\ Size' = Size
         /\ \A c : ChunkErrors(c)' = ChunkErrors(c) /\ Bound(c)' = Bound(c)
<1>1. Size' = Size
  BY DEF Size, call, width, schema
<1>2. Chunks' = Chunks
  BY <1>1, InputStays DEF Chunks
<1>3. \A c : Bound(c)' = Bound(c)
  BY <1>1 DEF Bound
<1>4. \A i : FieldOf(i)' = FieldOf(i)
  BY InputStays
<1>5. \A c : ChunkErrors(c)' = ChunkErrors(c)
  BY <1>1, <1>4 DEF ChunkErrors
<1> QED
  BY <1>1, <1>2, <1>3, <1>5

LEMMA CheckedStep ==
  ASSUME CoreTypeOK, BufferOK, CheckedOK, EngineNext
  PROVE  CheckedOK'
<1>1. CASE \E c \in 1..Chunks : Work(c)
  <2>1. PICK c \in 1..Chunks : Work(c)
    BY <1>1
  <2>2. /\ pc = "batch" /\ pc' = pc /\ input' = input /\ buf' = buf
        /\ \A k \in DOMAIN checked : checked[k][1] # c
        /\ checked' = Append(checked, <<c, ChunkErrors(c)>>)
    BY <2>1 DEF Work
  <2>3. Total # 0 /\ c \in Nat /\ ChunkErrors(c) \in Seq(ErrorRecords)
    <3>1. Total # 0
      BY <2>1 DEF Chunks
    <3>2. Chunks \in Nat
      BY <2>2, <3>1, ChunksBounded
    <3> QED
      BY <2>2, <3>1, <3>2, ChunkReported
  <2> DEFINE r == <<c, ChunkErrors(c)>>
             n == Len(checked)
             X == Nat \X Seq(ErrorRecords)
  <2>4. r \in X /\ r[1] = c /\ r[2] = ChunkErrors(c)
    BY <2>3
  <2>5. checked \in Seq(X) /\ checked' = Append(checked, r)
    BY <2>2 DEF CheckedOK
  <2> HIDE DEF r, X
  <2>6. /\ checked' \in Seq(X) /\ n \in Nat /\ DOMAIN checked = 1..n /\ DOMAIN checked' = 1..n + 1
        /\ checked'[n + 1] = r /\ \A i \in 1..n : checked'[i] = checked[i]
    BY <2>4, <2>5, Appended
  <2> HIDE DEF n
  <2>7. \A k \in 1..n : checked[k][1] \in 1..Chunks /\ checked[k][2] = ChunkErrors(checked[k][1])
    BY <2>2, <2>6 DEF CheckedOK
  <2>8. \A k \in 1..n + 1 : checked'[k][1] \in 1..Chunks
                            /\ checked'[k][2] = ChunkErrors(checked'[k][1])
    <3>1. \A k \in 1..n + 1 : k \in 1..n \/ k = n + 1
      BY <2>6
    <3> QED
      BY <2>1, <2>4, <2>6, <2>7, <3>1
  <2>9. \A j, k \in 1..n : j # k => checked[j][1] # checked[k][1]
    BY <2>6 DEF CheckedOK
  <2>10. \A j, k \in 1..n + 1 : j # k => checked'[j][1] # checked'[k][1]
    <3>1. \A k \in 1..n + 1 : k \in 1..n \/ k = n + 1
      BY <2>6
    <3>2. \A k \in 1..n : checked[k][1] # c
      BY <2>2, <2>6
    <3> QED
      BY <2>4, <2>6, <2>9, <3>1, <3>2
  <2>11. Chunks' = Chunks /\ \A d : ChunkErrors(d)' = ChunkErrors(d)
    BY <2>2, BatchStays
  <2>12. \A k \in DOMAIN checked' : /\ (checked[k][1] \in 1..Chunks)'
                                    /\ (checked[k][2] = ChunkErrors(checked[k][1]))'
    <3>1. \A k \in 1..n + 1 : /\ (checked[k][1] \in 1..Chunks)'
                             /\ (checked[k][2] = ChunkErrors(checked[k][1]))'
      <4> TAKE k \in 1..n + 1
      <4> DEFINE d == checked'[k][1]
      <4>1. d \in 1..Chunks' /\ checked'[k][2] = ChunkErrors(d)
        BY <2>8, <2>11
      <4>2. (ChunkErrors(checked[k][1]))' = ChunkErrors(d)
        BY <2>2, BatchStays
      <4> QED
        BY <4>1, <4>2
    <3> QED
      BY <2>6, <3>1
  <2>13. pc' = "batch"
    BY <2>2
  <2> QED
    BY <2>6, <2>10, <2>12, <2>13 DEF CheckedOK, X
<1>2. CASE pc = "check" /\ ~\E c \in 1..Chunks : Work(c)
  <2>1. checked = <<>> /\ checked' = checked
    BY <1>2 DEF EngineNext, Next, CheckDict, CheckObject, Extract, PopRow, EndOfRows, Work, Collect,
       Report, SerializeDict, SerializeObject, EndOfOutput, Raise, RaiseOut, WriteEntry, CheckedOK
  <2>2. checked' = <<>> /\ DOMAIN <<>> = {}
    BY <2>1
  <2>3. <<>> \in Seq(Nat \X Seq(ErrorRecords))
    OBVIOUS
  <2> QED
    BY <2>2, <2>3 DEF CheckedOK
<1>3. CASE pc # "check" /\ ~\E c \in 1..Chunks : Work(c)
  <2>1. /\ input' = input /\ buf' = buf /\ checked' = checked
        /\ pc' \in {"report", "done"}
    BY <1>3 DEF EngineNext, Next, CheckDict, CheckObject, Extract, PopRow, EndOfRows, Work, Collect,
       Report, SerializeDict, SerializeObject, EndOfOutput, Raise, RaiseOut, WriteEntry
  <2>2. Chunks' = Chunks
    BY <2>1, BatchStays
  <2> QED
    BY <2>1, <2>2 DEF CheckedOK
<1> QED
  BY <1>1, <1>2, <1>3

\* The numbers 1..n, handed out once each to n places, are all handed out.
LEMMA AllHandedOut ==
  ASSUME NEW n \in Nat, NEW f \in [1..n -> 1..n],
         \A j, k \in 1..n : j # k => f[j] # f[k], NEW c \in 1..n
  PROVE  \E k \in 1..n : f[k] = c
<1>1. f \in Injection(1..n, 1..n)
  BY DEF Injection, IsInjective
<1>2. IsFiniteSet(1..n)
  BY FS_Interval
<1>3. f \in Surjection(1..n, 1..n)
  BY <1>1, <1>2, FS_Injection
<1> QED
  BY <1>3 DEF Surjection

LEMMA SortedChunks ==
  ASSUME CoreTypeOK, BufferOK, CheckedOK, pc = "batch", Len(checked) = Chunks,
         NEW c \in 1..Chunks
  PROVE  (CHOOSE r \in ToSet(checked) : r[1] = c) \in ToSet(checked)
         /\ (CHOOSE r \in ToSet(checked) : r[1] = c)[1] = c
         /\ (CHOOSE r \in ToSet(checked) : r[1] = c)[2] = ChunkErrors(c)
<1> DEFINE n == Chunks
           f == [k \in 1..n |-> checked[k][1]]
<1>1. n \in Nat /\ DOMAIN checked = 1..n
  BY DEF CheckedOK
<1>2. \A k \in 1..n : checked[k][1] \in 1..n /\ checked[k][2] = ChunkErrors(checked[k][1])
  <2>1. \A k \in DOMAIN checked :
          checked[k][1] \in 1..Chunks /\ checked[k][2] = ChunkErrors(checked[k][1])
    BY ZenonT(30) DEF CheckedOK
  <2> QED
    BY <1>1, <2>1
<1>3. \A j, k \in 1..n : j # k => checked[j][1] # checked[k][1]
  BY <1>1 DEF CheckedOK
<1> HIDE DEF n
<1>4. f \in [1..n -> 1..n] /\ \A j, k \in 1..n : j # k => f[j] # f[k]
  BY <1>2, <1>3
<1>5. c \in 1..n
  BY DEF n
<1>6. PICK k \in 1..n : f[k] = c
  <2> HIDE DEF f
  <2> QED
    BY <1>1, <1>4, <1>5, AllHandedOut
<1> DEFINE Answer == CHOOSE r \in ToSet(checked) : r[1] = c
<1>7. checked[k] \in ToSet(checked) /\ checked[k][1] = c
  BY <1>1, <1>6 DEF ToSet
<1>8. Answer \in ToSet(checked) /\ Answer[1] = c
  BY <1>7
<1> HIDE DEF Answer
<1>9. Answer[2] = ChunkErrors(c)
  <2>1. PICK j \in 1..n : Answer = checked[j]
    BY <1>1, <1>8 DEF ToSet
  <2> QED
    BY <1>2, <1>8, <2>1
<1> QED
  BY <1>8, <1>9 DEF Answer

-------------------------------------------------------------------------------
(***************************************************************************)
(* The errors reported.                                                    *)
(***************************************************************************)
ReportOf(errs) ==
  [valid_count |-> Max({Total - Cardinality({e.field : e \in ToSet(errs)}), 0}),
   error_count |-> Len(errs),
   is_valid    |-> errs = <<>>]

ErrorsOK ==
  /\ errors \in Seq(ErrorRecords)
  /\ Total = 0 => errors = <<>>
  /\ call = "validate_many" /\ pc \in {"check", "report", "done"} /\ AllCounted(at)
       => Reports(errors, at, Want)
  /\ call = "validate_many" /\ pc \in {"report", "done"} /\ Total = width => at = Total
  /\ call \in Batched /\ pc \in {"report", "done"} /\ AllCounted(Total)
       => Reports(errors, Total, Want)
  /\ pc = "done" => report = ReportOf(errors)

\* One entry of validate_many.
LEMMA CheckEntryStep ==
  ASSUME CoreTypeOK, ErrorsOK, pc = "check", MoreEntries, call = "validate_many",
         input' = input, pc' = pc, at' = at + 1,
         NEW codes \in Seq(Codes),
         Counted(FieldOf(Next1), ValueOf(Next1)) =>
           Matches(codes, Demands(FieldOf(Next1), ValueOf(Next1))),
         errors' = errors \o Errs(FieldOf(Next1), codes)
  PROVE  ErrorsOK'
<1> DEFINE s == Errs(FieldOf(Next1), codes)
<1>1. /\ at \in Nat /\ at + 1 \in 1..Total /\ Next1 = at + 1 /\ FieldOf(at + 1) \in FieldDescriptors
      /\ Total # 0
  BY NextTyped
<1>2. s \in Seq(ErrorRecords)
  BY <1>1, ErrsMatch
<1>3. errors \in Seq(ErrorRecords)
  BY DEF ErrorsOK
<1>4. errors' \in Seq(ErrorRecords)
  <2> HIDE DEF s
  <2> QED
    BY <1>2, <1>3, Joined DEF s
<1>5. /\ call' = call /\ Total' = Total /\ Want' = Want
      /\ \A n : AllCounted(n)' <=> AllCounted(n)
  BY InputStays, WantStays
<1>6. ASSUME AllCounted(at + 1) PROVE Reports(errors', at + 1, Want)
  <2>1. Reports(errors, at, Want)
    <3>1. \A i \in 1..at : i \in 1..at + 1
      BY <1>1
    <3>2. AllCounted(at)
      BY <1>6, <3>1 DEF AllCounted
    <3> QED
      BY <3>2 DEF ErrorsOK
  <2>2. EntryValue(at + 1) = ValueOf(at + 1)
    BY DEF EntryValue
  <2>3. Counted(FieldOf(at + 1), ValueOf(at + 1))
    BY <1>1, <1>6, <2>2 DEF AllCounted
  <2>4. Matches(codes, Demands(FieldOf(at + 1), EntryValue(at + 1)))
    BY <1>1, <2>2, <2>3
  <2>5. input \in Inputs
    BY DEF CoreTypeOK
  <2>6. Reports(errors \o Errs(FieldOf(at + 1), codes), at + 1, Want)
    BY <1>1, <1>3, <2>1, <2>4, <2>5, EntryReported
  <2> QED
    BY <1>1, <2>6
<1>7. AllCounted(at)' => Reports(errors, at, Want)'
  <2>1. AllCounted(at)' <=> AllCounted(at + 1)
    BY <1>5 DEF AllCounted
  <2>2. Reports(errors, at, Want)' <=> Reports(errors', at + 1, Want)
    BY <1>5 DEF Reports, Cuts
  <2> QED
    BY <1>6, <2>1, <2>2
<1>8. pc' = "check" /\ Total' # 0 /\ call' \notin Batched
  BY <1>1, <1>5 DEF Batched
<1> QED
  BY <1>4, <1>7, <1>8 DEF ErrorsOK

\* A step that leaves the errors, the entries looked at and the report alone,
\* and is not the end of a phase of the call.
LEMMA ErrorsStay ==
  ASSUME ErrorsOK, input' = input, at' = at, errors' = errors, report' = report, pc' = pc
  PROVE  ErrorsOK'
<1>1. /\ call' = call /\ Total' = Total /\ Want' = Want /\ width' = width
      /\ \A n : AllCounted(n)' <=> AllCounted(n)
  BY InputStays, WantStays
<1>2. ReportOf(errors)' = ReportOf(errors)
  BY <1>1 DEF ReportOf
<1>3. (AllCounted(at)' <=> AllCounted(at)) /\ (AllCounted(Total)' <=> AllCounted(Total))
  BY <1>1 DEF AllCounted
<1>4. /\ Reports(errors, at, Want)' <=> Reports(errors, at, Want)
      /\ Reports(errors, Total, Want)' <=> Reports(errors, Total, Want)
  BY <1>1 DEF Reports, Cuts
<1> QED
  BY <1>1, <1>2, <1>3, <1>4 DEF ErrorsOK

LEMMA RaiseClears ==
  ASSUME Raise
  PROVE  ErrorsOK'
BY DEF Raise, ErrorsOK

LEMMA ErrorsStep ==
  ASSUME CoreTypeOK, BufferOK, CheckedOK, ErrorsOK, EngineNext
  PROVE  ErrorsOK'
<1> DEFINE f == FieldOf(Next1)
           v == ValueOf(Next1)
<1>0. ASSUME pc = "check", MoreEntries PROVE f \in FieldDescriptors /\ v \in PyValues
  BY <1>0, NextTyped
<1>1. CASE CheckDict
  <2> DEFINE codes == IF v = Absent THEN If(Required(f), "required") ELSE InlineCodes(f, v)
  <2>1. /\ pc = "check" /\ MoreEntries /\ call = "validate_many"
        /\ input' = input /\ pc' = pc /\ at' = at + 1 /\ errors' = errors \o Errs(f, codes)
    BY <1>1 DEF CheckDict
  <2>2. f \in FieldDescriptors /\ v \in PyValues
    BY <1>0, <2>1
  <2>3. codes \in Seq(Codes) /\ (Counted(f, v) => Matches(codes, Demands(f, v)))
    <3> HIDE DEF f, v
    <3> QED
      BY <2>2, CodesTyped, SingleCodesOfKinds, DictRight
  <2> HIDE DEF codes
  <2> QED
    BY <2>1, <2>3, CheckEntryStep
<1>2. CASE CheckObject
  <2> DEFINE codes == SingleCodes(f, Extracted(f, v))
  <2>1. /\ pc = "check" /\ MoreEntries /\ call = "validate_many"
        /\ \/ /\ Extractable(f, v) /\ input' = input /\ pc' = pc /\ at' = at + 1
              /\ errors' = errors \o Errs(f, codes)
           \/ Raise
    BY <1>2 DEF CheckObject
  <2>2. f \in FieldDescriptors /\ v \in PyValues
    BY <1>0, <2>1
  <2>3. Extractable(f, v) => codes \in Seq(Codes) /\ (Counted(f, v) => Matches(codes, Demands(f, v)))
    <3> HIDE DEF f, v
    <3> QED
      BY <2>2, CodesTyped, ExtractedRight
  <2> HIDE DEF codes
  <2> QED
    BY <2>1, <2>3, CheckEntryStep, RaiseClears
<1>3. CASE Extract
  <2>1. Raise \/ (/\ call = "validate" /\ pc = "check" /\ MoreEntries /\ input' = input /\ pc' = pc
                  /\ errors' = errors)
    BY <1>3 DEF Extract
  <2>2. CASE /\ call = "validate" /\ pc = "check" /\ MoreEntries /\ input' = input /\ pc' = pc
             /\ errors' = errors
    <3>1. call' = call /\ Total' = Total
      BY <2>2, InputStays
    <3> QED
      BY <2>2, <3>1 DEF ErrorsOK
  <2> QED
    BY <2>1, <2>2, RaiseClears
<1>4. CASE PopRow
  BY <1>4, ErrorsStay DEF PopRow
<1>5. CASE EndOfRows
  <2>1. /\ pc = "check" /\ ~MoreEntries /\ pc' = IF call = "validate" THEN "batch" ELSE "report"
        /\ input' = input /\ at' = at /\ errors' = errors
    BY <1>5 DEF EndOfRows
  <2>2. /\ call' = call /\ Total' = Total /\ Want' = Want /\ width' = width
        /\ \A n : AllCounted(n)' <=> AllCounted(n)
    BY <2>1, InputStays, WantStays
  <2>3. CASE call = "validate"
    <3>1. pc' = "batch" /\ call' = "validate"
      BY <2>1, <2>2, <2>3
    <3> QED
      BY <2>1, <2>2, <3>1 DEF ErrorsOK
  <2>4. CASE call # "validate"
    <3>1. pc' = "report" /\ call' \notin Batched
      BY <2>1, <2>2, <2>4 DEF CoreTypeOK, Batched
    <3>2. /\ AllCounted(at)' <=> AllCounted(at)
          /\ Reports(errors, at, Want)' <=> Reports(errors, at, Want)
      BY <2>1, <2>2 DEF AllCounted, Reports, Cuts
    <3>3. Total = width => at = Total
      <4> SUFFICES ASSUME Total = width PROVE at = Total
        OBVIOUS
      <4>1. at \in 0..Total /\ Total \in Nat
        BY InputTyped DEF CoreTypeOK
      <4>2. (width > 0 => at % width = 0) /\ (at = 0 => at = Total)
        BY <2>1, RowsEnd DEF CoreTypeOK
      <4>3. at # 0 /\ at # Total => at \in 1..width-1 /\ at % width = at
        BY <4>1
      <4> QED
        BY <4>1, <4>2, <4>3
    <3> QED
      BY <2>1, <2>2, <3>1, <3>2, <3>3 DEF ErrorsOK
  <2> QED
    BY <2>3, <2>4
<1>6. CASE \E c \in 1..Chunks : Work(c)
  BY <1>6, ErrorsStay DEF Work
<1>7. CASE Collect
  <2> DEFINE sorted == [c \in DOMAIN checked |-> CHOOSE r \in ToSet(checked) : r[1] = c]
             s == [k \in DOMAIN sorted |-> sorted[k][2]]
  <2>1. /\ pc = "batch" /\ Len(checked) = Chunks /\ input' = input /\ pc' = "report"
        /\ errors' = FlattenSeq(s)
    BY <1>7 DEF Collect
  <2>2. DOMAIN checked = 1..Chunks /\ Chunks \in Nat
    BY <2>1 DEF CheckedOK
  <2>3. s = [c \in 1..Chunks |-> (CHOOSE r \in ToSet(checked) : r[1] = c)[2]]
    BY <2>2
  <2>4. \A c \in 1..Chunks : s[c] = ChunkErrors(c)
    BY <2>1, <2>3, SortedChunks
  <2> HIDE DEF s
  <2>5. \A c \in 1..Chunks : ChunkErrors(c) \in Seq(ErrorRecords)
    <3>1. Total # 0 \/ Chunks = 0
      BY DEF Chunks
    <3> QED
      BY <2>1, <3>1, ChunkReported
  <2>6. s \in Seq(Seq(ErrorRecords)) /\ Len(s) = Chunks
    <3>1. s \in [1..Chunks -> Seq(ErrorRecords)]
      BY <2>3, <2>4, <2>5
    <3> QED
      BY <2>2, <3>1
  <2>7. errors' \in Seq(ErrorRecords)
    BY <2>1, <2>6, FlattenType
  <2>8. AllCounted(Total) => Reports(errors', Total, Want)
    BY <2>1, <2>4, <2>6, BatchReported
  <2>9. Total = 0 => errors' = <<>>
    <3>1. ASSUME Total = 0 PROVE errors' = <<>>
      <4>1. s = <<>>
        BY <2>6, <3>1 DEF Chunks
      <4> QED
        BY <2>1, <4>1, FlattenNothing
    <3> QED
      BY <3>1
  <2>10. /\ call' = call /\ Total' = Total /\ Want' = Want /\ call \in Batched
         /\ \A n : AllCounted(n)' <=> AllCounted(n)
    BY <2>1, InputStays, WantStays DEF CoreTypeOK
  <2>11. /\ AllCounted(Total)' <=> AllCounted(Total)
         /\ Reports(errors, Total, Want)' <=> Reports(errors', Total, Want)
    BY <2>10 DEF AllCounted, Reports, Cuts
  <2>12. pc' = "report" /\ call' # "validate_many"
    BY <2>1, <2>10 DEF Batched
  <2> QED
    BY <2>7, <2>8, <2>9, <2>10, <2>11, <2>12 DEF ErrorsOK
<1>8. CASE Report
  <2>1. /\ pc = "report" /\ pc' = "done" /\ input' = input /\ at' = at /\ errors' = errors
        /\ report' = ReportOf(errors)
    BY <1>8 DEF Report, ReportOf
  <2>2. /\ call' = call /\ Total' = Total /\ Want' = Want /\ width' = width
        /\ \A n : AllCounted(n)' <=> AllCounted(n)
    BY <2>1, InputStays, WantStays
  <2>3. ReportOf(errors)' = ReportOf(errors)
    BY <2>1, <2>2 DEF ReportOf
  <2>4. (AllCounted(at)' <=> AllCounted(at)) /\ (AllCounted(Total)' <=> AllCounted(Total))
    BY <2>1, <2>2 DEF AllCounted
  <2>5. /\ Reports(errors, at, Want)' <=> Reports(errors, at, Want)
        /\ Reports(errors, Total, Want)' <=> Reports(errors, Total, Want)
    BY <2>1, <2>2 DEF Reports, Cuts
  <2> QED
    BY <2>1, <2>2, <2>3, <2>4, <2>5 DEF ErrorsOK
<1>9. CASE SerializeDict \/ SerializeObject \/ EndOfOutput
  <2>1. Raise \/ (/\ call \in SerializeCalls /\ input' = input /\ errors' = errors
                  /\ pc' \in {"check", "written"})
    BY <1>9 DEF SerializeDict, SerializeObject, EndOfOutput, WriteEntry, RaiseOut, SerializeCalls
  <2>2. CASE /\ call \in SerializeCalls /\ input' = input /\ errors' = errors
             /\ pc' \in {"check", "written"}
    <3>1. call' = call /\ Total' = Total
      BY <2>2, InputStays
    <3>2. call' # "validate_many" /\ call' \notin Batched
      BY <2>2, <3>1 DEF SerializeCalls, Batched
    <3> QED
      BY <2>2, <3>1, <3>2 DEF ErrorsOK
  <2> QED
    BY <2>1, <2>2, RaiseClears
<1> QED
  BY <1>1, <1>2, <1>3, <1>4, <1>5, <1>6, <1>7, <1>8, <1>9 DEF EngineNext, Next

-------------------------------------------------------------------------------
(***************************************************************************)
(* The report of a call that is done.                                      *)
(***************************************************************************)
LEMMA EntriesSeen ==
  ASSUME CoreTypeOK, BufferOK, ErrorsOK, pc = "done"
  PROVE  /\ \E n \in 0..Total : Seen = 1..n
         /\ IsFiniteSet(Seen) /\ Cardinality(Seen) \in 0..Total /\ Seen = 1..Cardinality(Seen)
         /\ \A i : Value(i) = EntryValue(i)
         /\ (\A i \in Seen : Counted(FieldOf(i), Value(i))) =>
              Reports(errors, Cardinality(Seen), Want)
<1>1. call \in ReportCalls /\ Total \in Nat /\ at \in 0..Total
  BY InputTyped DEF CoreTypeOK
<1>2. \A i : Value(i) = EntryValue(i)
  BY DEF Value, EntryValue, BufferOK
<1> DEFINE n == IF call = "chunked" THEN Total ELSE at
<1>3. n \in 0..Total /\ Seen = 1..n
  BY <1>1 DEF Seen
<1>4. call \in Batched => n = Total
  BY <1>1 DEF Batched, BufferOK
<1>5. call = "validate_many" => n = at
  OBVIOUS
<1> HIDE DEF n
<1>6. n = Cardinality(Seen) /\ IsFiniteSet(Seen)
  <2>1. IsFiniteSet(1..n) /\ Cardinality(1..n) = IF 1 > n THEN 0 ELSE n - 1 + 1
    BY <1>1, <1>3, FS_Interval
  <2> QED
    BY <1>1, <1>3, <2>1
<1>7. ASSUME \A i \in Seen : Counted(FieldOf(i), Value(i)) PROVE Reports(errors, n, Want)
  <2>1. AllCounted(n)
    BY <1>2, <1>3, <1>7 DEF AllCounted
  <2> QED
    BY <1>1, <1>4, <1>5, <2>1 DEF ErrorsOK, Batched, ReportCalls
<1> QED
  BY <1>2, <1>3, <1>6, <1>7

LEMMA ReportedSame ==
  ASSUME CoreTypeOK, BufferOK, ErrorsOK
  PROVE  SameReport
<1> DEFINE n == Cardinality(Seen)
           demands(i) == Demands(FieldOf(i), Value(i))
           last == CHOOSE f : f = [i \in 0..n |->
                     IF i = 0 THEN 0 ELSE f[i-1] + Cardinality(demands(i))]
           Goal == /\ Len(errors) = last[n]
                   /\ \A i \in Seen :
                        {errors[k] : k \in last[i-1] + 1 .. last[i]}
                          = {[field |-> FieldOf(i).name, code |-> c] : c \in demands(i)}
<1>1. ASSUME pc = "done", \A i \in Seen : Counted(FieldOf(i), Value(i)) PROVE Goal
  <2>1. /\ n \in 0..Total /\ Seen = 1..n /\ Total \in Nat
        /\ \A i : Value(i) = EntryValue(i)
        /\ Reports(errors, n, Want)
    BY <1>1, EntriesSeen, InputTyped DEF CoreTypeOK
  <2>2. \A i \in 1..n : /\ Want[i].codes = demands(i)
                        /\ Want[i].name = FieldOf(i).name
    <3>1. \A i \in 1..n : i \in 1..Total
      BY <2>1
    <3> QED
      BY <2>1, <3>1 DEF Want, Wanted
  <2>3. PICK cut : Cuts(errors, n, Want, cut)
    BY <2>1 DEF Reports
  <2> HIDE DEF n, demands
  <2>4. /\ cut \in [0..n -> Nat] /\ cut[0] = 0 /\ cut[n] = Len(errors)
        /\ \A i \in 1..n :
             /\ cut[i] = cut[i-1] + Cardinality(demands(i))
             /\ {errors[k] : k \in cut[i-1] + 1 .. cut[i]} = Lines(FieldOf(i).name, demands(i))
    BY <2>2, <2>3 DEF Cuts
  <2>5. cut = [i \in 0..n |-> IF i = 0 THEN 0 ELSE cut[i-1] + Cardinality(demands(i))]
    <3>1. \A i \in 0..n : cut[i] = IF i = 0 THEN 0 ELSE cut[i-1] + Cardinality(demands(i))
      <4>1. \A i \in 0..n : i = 0 \/ i \in 1..n
        BY <2>1
      <4> QED
        BY <2>4, <4>1
    <3> QED
      BY <2>4, <3>1
  <2>6. last = [i \in 0..n |-> IF i = 0 THEN 0 ELSE last[i-1] + Cardinality(demands(i))]
    BY <2>5, Zenon
  <2> HIDE DEF last
  <2>7. \A i \in 0..n : last[i] = IF i = 0 THEN 0 ELSE last[i-1] + Cardinality(demands(i))
    BY <2>6, Zenon
  <2> DEFINE T == {i \in 0..n : last[i] # cut[i]}
  <2>8. ASSUME T # {} PROVE FALSE
    <3>1. PICK i \in T : \A j \in T : i <= j
      <4>1. T \in SUBSET Nat
        OBVIOUS
      <4> HIDE DEF T
      <4> QED
        BY <2>8, <4>1, Least
    <3>2. i \in 0..n /\ last[i] # cut[i] /\ i # 0
      BY <2>4, <2>7, <3>1
    <3>3. i \in 1..n /\ i - 1 \in 0..n /\ ~(i <= i - 1)
      BY <2>1, <3>2
    <3>4. last[i-1] = cut[i-1]
      BY <3>1, <3>3
    <3> QED
      BY <2>4, <2>7, <3>2, <3>3, <3>4
  <2>9. \A i \in 0..n : last[i] = cut[i]
    BY <2>8
  <2>10. n \in 0..n /\ \A i \in 1..n : i \in 0..n /\ i - 1 \in 0..n
    BY <2>1
  <2> QED
    BY <2>1, <2>4, <2>9, <2>10 DEF Lines
<1> QED
  BY <1>1, Zenon DEF SameReport

FieldsOf(errs) == {e.field : e \in ToSet(errs)}

\* Cuts leave no error out.
LEMMA EveryErrorCut ==
  ASSUME NEW e, Len(e) \in Nat, NEW n \in Nat, NEW want, NEW cut, Cuts(e, n, want, cut),
         NEW k \in 1..Len(e)
  PROVE  \E i \in 1..n : k \in cut[i-1] + 1 .. cut[i]
<1> DEFINE l == Len(e)
           T == {i \in 0..n : k <= cut[i]}
<1>1. /\ cut \in [0..n -> Nat] /\ cut[0] = 0 /\ cut[n] = l /\ l \in Nat /\ k \in 1..l
  BY DEF Cuts
<1> HIDE DEF l
<1>2. n \in T
  BY <1>1
<1>3. PICK i \in T : \A j \in T : i <= j
  <2>1. T \in SUBSET Nat /\ T # {}
    BY <1>2
  <2> HIDE DEF T
  <2> QED
    BY <2>1, Least
<1>4. i \in 0..n /\ k <= cut[i] /\ i # 0
  BY <1>1, <1>3
<1>5. i \in 1..n /\ i - 1 \in 0..n /\ ~(i <= i - 1)
  BY <1>4
<1>6. ~(k <= cut[i-1])
  BY <1>3, <1>5
<1>7. cut[i-1] \in Nat /\ cut[i] \in Nat
  BY <1>1, <1>4, <1>5
<1>8. k \in cut[i-1] + 1 .. cut[i]
  BY <1>1, <1>4, <1>6, <1>7
<1> QED
  BY <1>5, <1>8

LEMMA NamesCut ==
  ASSUME NEW e \in Seq(ErrorRecords), NEW n \in Nat, NEW want, Reports(e, n, want)
  PROVE  FieldsOf(e) = {want[i].name : i \in {j \in 1..n : want[j].codes # {}}}
<1> DEFINE U == {j \in 1..n : want[j].codes # {}}
           N == {want[i].name : i \in U}
           l == Len(e)
<1>1. PICK cut : Cuts(e, n, want, cut)
  BY DEF Reports
<1>2. l \in Nat /\ DOMAIN e = 1..l /\ Len(e) \in Nat
  OBVIOUS
<1>3. /\ cut \in [0..n -> Nat] /\ \A i \in 0..n : cut[i] <= l
      /\ \A i \in 1..n : {e[k] : k \in cut[i-1] + 1 .. cut[i]} = Lines(want[i].name, want[i].codes)
  BY <1>1 DEF Cuts
<1>4. \A r \in FieldsOf(e) : r \in N
  <2> TAKE r \in FieldsOf(e)
  <2>1. PICK k \in 1..l : r = e[k].field
    BY <1>2 DEF FieldsOf, ToSet
  <2>2. PICK i \in 1..n : k \in cut[i-1] + 1 .. cut[i]
    BY <1>1, <1>2, EveryErrorCut
  <2>3. e[k] \in Lines(want[i].name, want[i].codes)
    BY <1>3, <2>2
  <2>4. PICK c \in want[i].codes : e[k] = [field |-> want[i].name, code |-> c]
    BY <2>3 DEF Lines
  <2>5. i \in U /\ r = want[i].name
    BY <2>1, <2>4
  <2> QED
    BY <2>5
<1>5. \A r \in N : r \in FieldsOf(e)
  <2> TAKE r \in N
  <2>1. PICK i \in 1..n : want[i].codes # {} /\ r = want[i].name
    OBVIOUS
  <2>2. PICK c : c \in want[i].codes
    BY <2>1
  <2>3. [field |-> r, code |-> c] \in Lines(want[i].name, want[i].codes)
    BY <2>1, <2>2 DEF Lines
  <2>4. PICK k \in cut[i-1] + 1 .. cut[i] : [field |-> r, code |-> c] = e[k]
    BY <1>3, <2>3
  <2>5. i \in 0..n /\ i - 1 \in 0..n
    OBVIOUS
  <2>6. cut[i-1] \in Nat /\ cut[i] \in Nat /\ cut[i] <= l
    BY <1>3, <2>5
  <2>7. k \in 1..l
    BY <1>2, <2>6
  <2>8. e[k] \in ToSet(e) /\ e[k].field = r
    BY <1>2, <2>4, <2>7 DEF ToSet
  <2> QED
    BY <2>8 DEF FieldsOf
<1> QED
  BY <1>4, <1>5

LEMMA FieldsFinite ==
  ASSUME NEW e \in Seq(ErrorRecords)
  PROVE  /\ IsFiniteSet(FieldsOf(e)) /\ Cardinality(FieldsOf(e)) \in Nat
         /\ Cardinality(FieldsOf(e)) = 0 <=> e = <<>>
         /\ Len(e) = 0 <=> e = <<>>
<1> DEFINE n == Len(e)
           f == [k \in 1..n |-> e[k].field]
<1>1. n \in Nat /\ DOMAIN e = 1..n /\ (n = 0 <=> e = <<>>)
  OBVIOUS
<1>2. FieldsOf(e) = {e[k].field : k \in 1..n}
  BY <1>1 DEF FieldsOf, ToSet
<1>3. f \in Surjection(1..n, FieldsOf(e))
  BY <1>2 DEF Surjection
<1>4. IsFiniteSet(1..n)
  BY <1>1, FS_Interval
<1>5. IsFiniteSet(FieldsOf(e))
  BY <1>3, <1>4, FS_Surjection
<1>6. Cardinality(FieldsOf(e)) \in Nat
  BY <1>5, FS_CardinalityType
<1>7. FieldsOf(e) = {} <=> n = 0
  <2>1. n # 0 => 1 \in 1..n
    BY <1>1
  <2>2. n = 0 => 1..n = {}
    OBVIOUS
  <2> QED
    BY <1>2, <2>1, <2>2
<1>8. Cardinality(FieldsOf(e)) = 0 <=> FieldsOf(e) = {}
  BY <1>5, FS_EmptySet
<1> QED
  BY <1>1, <1>5, <1>6, <1>7, <1>8

LEMMA MaxZero ==
  ASSUME NEW a \in Nat, NEW b \in Nat
  PROVE  Max({a - b, 0}) = IF a >= b THEN a - b ELSE 0
BY DEF Max

\* A record has a name for each of its entries.
LEMMA NamesDiffer ==
  ASSUME input \in Inputs, Total = width, NEW i \in 1..Total, NEW j \in 1..Total, i # j
  PROVE  FieldOf(i).name # FieldOf(j).name
<1>1. width \in Nat /\ DOMAIN schema = 1..width
      /\ \A a, b \in DOMAIN schema : a # b => schema[a].name # schema[b].name
  BY InputTyped
<1>2. (i - 1) % width = i - 1 /\ (j - 1) % width = j - 1
  BY <1>1
<1>3. FieldOf(i) = schema[i] /\ FieldOf(j) = schema[j]
  BY <1>1, <1>2 DEF FieldOf
<1> QED
  BY <1>1, <1>3

LEMMA CountedRight ==
  ASSUME CoreTypeOK, BufferOK, ErrorsOK
  PROVE  ValidCountBounds
<1> SUFFICES ASSUME pc = "done" PROVE ValidCountBounds
  BY DEF ValidCountBounds
<1> DEFINE x == Cardinality(FieldsOf(errors))
           valid == IF Total >= x THEN Total - x ELSE 0
           n == Cardinality(Seen)
           U == {i \in Seen : Demands(FieldOf(i), Value(i)) # {}}
           C == {i \in Seen : Demands(FieldOf(i), Value(i)) = {}}
           AllSeenCounted == \A i \in Seen : Counted(FieldOf(i), Value(i))
<1>1. Total \in Nat /\ errors \in Seq(ErrorRecords) /\ x \in Nat
      /\ (x = 0 <=> errors = <<>>) /\ (Len(errors) = 0 <=> errors = <<>>)
      /\ (Total = 0 => errors = <<>>)
  BY FieldsFinite, InputTyped DEF CoreTypeOK, ErrorsOK
<1>2. /\ report.valid_count = valid /\ report.error_count = Len(errors)
      /\ report.is_valid = (errors = <<>>)
  <2>1. report = ReportOf(errors)
    BY DEF ErrorsOK
  <2>2. Max({Total - x, 0}) = valid
    BY <1>1, MaxZero
  <2> QED
    BY <2>1, <2>2 DEF ReportOf, FieldsOf
<1>3. n \in 0..Total /\ Seen = 1..n /\ IsFiniteSet(Seen)
      /\ (\A i : Value(i) = EntryValue(i))
      /\ (AllSeenCounted => Reports(errors, n, Want))
  BY EntriesSeen
<1>4. /\ IsFiniteSet(U) /\ Cardinality(U) \in Nat /\ Cardinality(U) <= n
      /\ Cardinality(C) = n - Cardinality(U)
  <2>1. U \in SUBSET Seen /\ C = Seen \ U
    OBVIOUS
  <2> HIDE DEF U, C
  <2>2. IsFiniteSet(U) /\ Cardinality(U) <= n
    BY <1>3, <2>1, FS_Subset
  <2>3. Cardinality(Seen \ U) = Cardinality(Seen) - Cardinality(Seen \cap U)
    BY <1>3, <2>2, FS_Difference
  <2>4. Seen \cap U = U
    BY <2>1
  <2> QED
    BY <2>1, <2>2, <2>3, <2>4, FS_CardinalityType
<1>5. ASSUME AllSeenCounted
      PROVE  /\ x <= Cardinality(U)
             /\ Total = width => x = Cardinality(U)
  <2> DEFINE f == [i \in U |-> FieldOf(i).name]
  <2>1. FieldsOf(errors) = {FieldOf(i).name : i \in U}
    <3>1. \A i \in 1..n : /\ Want[i].codes = Demands(FieldOf(i), Value(i))
                          /\ Want[i].name = FieldOf(i).name
      <4>1. \A i \in 1..n : i \in 1..Total
        BY <1>1, <1>3
      <4> QED
        BY <1>3, <4>1 DEF Want, Wanted
    <3>2. FieldsOf(errors) = {Want[i].name : i \in {j \in 1..n : Want[j].codes # {}}}
      BY <1>1, <1>3, <1>5, NamesCut
    <3>3. {j \in 1..n : Want[j].codes # {}} = U
      BY <1>3, <3>1
    <3>4. \A i \in U : Want[i].name = FieldOf(i).name
      BY <1>3, <3>1
    <3> QED
      BY <3>2, <3>3, <3>4
  <2>2. f \in Surjection(U, FieldsOf(errors))
    BY <2>1 DEF Surjection
  <2>3. ASSUME Total = width PROVE f \in Injection(U, FieldsOf(errors))
    <3>1. \A i, j \in U : i # j => FieldOf(i).name # FieldOf(j).name
      <4>1. \A i \in U : i \in 1..Total
        BY <1>1, <1>3
      <4> QED
        BY <2>3, <4>1, NamesDiffer DEF CoreTypeOK
    <3>2. \A i, j \in U : f[i] = f[j] => i = j
      BY <3>1
    <3>3. f \in [U -> FieldsOf(errors)]
      BY <2>1
    <3> HIDE DEF f, U
    <3> QED
      BY <3>2, <3>3 DEF Injection, IsInjective
  <2> HIDE DEF f, U
  <2> QED
    BY <1>4, <2>2, <2>3, FS_Surjection
<1>6. Total = width => n = Total
  <2>1. call = "validate_many" /\ Total = width => at = Total
    BY DEF ErrorsOK
  <2>2. call = "validate" => at = Total
    BY DEF BufferOK
  <2>3. call \in ReportCalls /\ at \in 0..Total
    BY DEF CoreTypeOK
  <2>4. Total = width => Seen = 1..Total
    BY <2>1, <2>2, <2>3 DEF Seen, ReportCalls
  <2>5. Cardinality(1..Total) = Total
    <3>1. Cardinality(1..Total) = IF 1 > Total THEN 0 ELSE Total - 1 + 1
      BY <1>1, FS_Interval
    <3> QED
      BY <1>1, <3>1
  <2> QED
    BY <2>4, <2>5
<1>7. Clean = n - Cardinality(U)
  BY <1>4 DEF Clean
<1>8. (\A i \in Seen : Counted(FieldOf(i), Value(i))) <=> AllSeenCounted
  OBVIOUS
<1> HIDE DEF x, n, U, C, AllSeenCounted
<1>9. /\ valid = Total <=> errors = <<>>
      /\ AllSeenCounted => valid >= Clean
      /\ AllSeenCounted /\ Total = width => valid = Clean
  BY <1>1, <1>3, <1>4, <1>5, <1>6, <1>7
<1> HIDE DEF valid
<1> QED
  BY <1>1, <1>2, <1>8, <1>9 DEF ValidCountBounds

-------------------------------------------------------------------------------
ReportInv == CoreInv /\ BufferOK /\ CheckedOK /\ ErrorsOK

LEMMA ReportInitial == EngineInit => ReportInv
<1> SUFFICES ASSUME EngineInit PROVE ReportInv
  OBVIOUS
<1>1. CoreInv /\ CoreTypeOK
  BY CoreInitial DEF CoreInv
<1>2. /\ input \in Inputs /\ buf = input.buf /\ at = 0 /\ checked = <<>> /\ errors = <<>>
      /\ pc = IF call = "chunked" THEN "batch" ELSE "check"
  BY DEF EngineInit, Init, call
<1>3. input.buf \in Seq(FieldValues) /\ (call # "chunked" => input.buf = <<>>)
  BY <1>2, InputTyped
<1>4. BufferOK
  BY <1>2, <1>3 DEF BufferOK
<1>5. CheckedOK
  <2>1. DOMAIN <<>> = {} /\ <<>> \in Seq(Nat \X Seq(ErrorRecords))
    OBVIOUS
  <2> QED
    BY <1>2, <2>1 DEF CheckedOK
<1>6. ErrorsOK
  <2>1. AllCounted(at) => Reports(errors, at, Want)
    BY <1>2, NothingReported
  <2>2. <<>> \in Seq(ErrorRecords)
    OBVIOUS
  <2> QED
    BY <1>2, <2>1, <2>2 DEF ErrorsOK
<1> QED
  BY <1>1, <1>4, <1>5, <1>6 DEF ReportInv

LEMMA ReportStep == ReportInv /\ [EngineNext]_engineVars => ReportInv'
<1> SUFFICES ASSUME ReportInv, [EngineNext]_engineVars PROVE ReportInv'
  OBVIOUS
<1>1. CASE EngineNext
  <2>1. CoreInv'
    BY <1>1, CoreStep DEF ReportInv
  <2> QED
    BY <1>1, <2>1, BufferStep, CheckedStep, ErrorsStep DEF ReportInv, CoreInv
<1>2. CASE UNCHANGED engineVars
  <2>1. CoreInv'
    BY <1>2, CoreStep DEF ReportInv
  <2>2. UNCHANGED <<input, pc, at, len, buf, checked, errors, report>>
    BY <1>2 DEF engineVars, vars
  <2>3. ErrorsOK'
    BY <2>2, ErrorsStay DEF ReportInv
  <2>4. BufferOK'
    <3>1. \A i : EntryExtracted(i)' = EntryExtracted(i)
      BY <2>2, InputStays DEF EntryExtracted, Extractable, Extracted, Required
    <3> QED
      BY <2>2, <3>1, InputStays DEF ReportInv, BufferOK
  <2>5. CheckedOK'
    <3>1. Chunks' = Chunks /\ \A c : ChunkErrors(c)' = ChunkErrors(c)
      BY <2>2, BatchStays
    <3> QED
      BY <2>2, <3>1 DEF ReportInv, CheckedOK
  <2> QED
    BY <2>1, <2>3, <2>4, <2>5 DEF ReportInv
<1> QED
  BY <1>1, <1>2

LEMMA ReportInvariant == EngineSpec => []ReportInv
BY ReportInitial, ReportStep, PTL DEF EngineSpec

\* A call that is done reports exactly the demands its values do not meet, entry by
\* entry in input order, whichever path checked them and however Rayon ran.
THEOREM CallsReportAlike == EngineSpec => []SameReport
<1>1. ReportInv => SameReport
  BY ReportedSame DEF ReportInv, CoreInv
<1> QED
  BY <1>1, ReportInvariant, PTL

\* valid_count is right for one record and never too low for a batch, and agrees
\* with is_valid and with the list of errors.
THEOREM ValidCountIsBounded == EngineSpec => []ValidCountBounds
<1>1. ReportInv => ValidCountBounds
  BY CountedRight DEF ReportInv, CoreInv
<1> QED
  BY <1>1, ReportInvariant, PTL
===============================================================================
