------------------------- MODULE LazyTypeObjectProofs -------------------------
(***************************************************************************)
(* Proofs about LazyTypeObject, for any number of threads and class        *)
(* attributes and any nesting of calls.                                    *)
(***************************************************************************)
EXTENDS LazyTypeObject, TLAPS

Owners == Threads \cup {Nobody}
Call == [at : Places, k : 0..NumAttrs, type : Owners]
Results == [ok : BOOLEAN, type : Owners, filled : BOOLEAN]

AllSet(d) == \A a \in Attrs : d[a] # Nobody

(***************************************************************************)
(* Stacks of calls, given the cell's value v and the dict d.  Every call    *)
(* but the innermost runs user code; the innermost one has got as far as   *)
(* the dict shows.                                                         *)
(***************************************************************************)
UserPlaces == {"create", "attrs"}
Working == {"attrs", "fill"}

CallOK(c, v, d) ==
  /\ c.at # "create" => c.type = v /\ v # Nobody
  /\ c.at = "fill" => \A a \in 1..c.k : d[a] # Nobody
  /\ c.at \in {"clear", "publish"} => AllSet(d)

StackOK(s, v, d) ==
  /\ \A i \in 1..Len(s) : CallOK(s[i], v, d)
  /\ \A i \in 2..Len(s) : s[i].at \in UserPlaces

Listed(s) == \E i \in 1..Len(s) : s[i].at \in Working

ResultOK(x, v) == x.ok => x.type = v /\ v # Nobody /\ x.filled

\* What the cell and the dict become: values stay, attributes stay set.
Later(v, d, w, e) ==
  /\ v # Nobody => w = v
  /\ \A a \in Attrs : d[a] # Nobody => e[a] # Nobody

TypeOK ==
  /\ freeThreaded \in Builds /\ immutable \in BOOLEAN /\ gil \in Threads
  /\ value \in Owners /\ full \in BOOLEAN /\ frozen \in BOOLEAN
  /\ list \subseteq Threads
  /\ dict \in [Attrs -> Owners]
  /\ calls \in [Threads -> Seq(Call)]
  /\ result \in [Threads -> Results]

(***************************************************************************)
(* The inductive invariant.  A thread on the list is in the middle of its  *)
(* own initialisation, so that only calls from within it are given the     *)
(* type before it is filled.                                               *)
(***************************************************************************)
LazyInv ==
  /\ TypeOK
  /\ full => value # Nobody /\ AllSet(dict)
  /\ \A t \in Threads :
       /\ StackOK(calls[t], value, dict)
       /\ t \in list => Listed(calls[t])
       /\ ResultOK(result[t], value)

-------------------------------------------------------------------------------
(* Sequences, head first.                                                  *)

LEMMA Cons ==
  ASSUME NEW S, NEW c \in S, NEW q \in Seq(S)
  PROVE  /\ <<c>> \o q \in Seq(S) /\ <<c>> \o q # <<>>
         /\ Head(<<c>> \o q) = c /\ Tail(<<c>> \o q) = q
PROOF
  <1>1. <<c>> \o q \in Seq(S) /\ Len(<<c>> \o q) = Len(q) + 1
        /\ (<<c>> \o q)[1] = c
        /\ \A i \in 1..Len(q) : (<<c>> \o q)[i + 1] = q[i]
    OBVIOUS
  <1>2. Tail(<<c>> \o q) = q
    OBVIOUS
  <1> QED
    BY <1>1, <1>2

LEMMA Parts ==
  ASSUME NEW S, NEW s \in Seq(S), s # <<>>
  PROVE  /\ Head(s) \in S /\ Tail(s) \in Seq(S) /\ Head(s) = s[1]
         /\ Len(s) \in Nat \ {0} /\ Len(Tail(s)) = Len(s) - 1
         /\ \A i \in 1..Len(Tail(s)) : Tail(s)[i] = s[i + 1]
         /\ Len(s) > 1 <=> Tail(s) # <<>>
PROOF
  OBVIOUS

LEMMA StackParts ==
  ASSUME NEW S, NEW s \in Seq(S), s # <<>>, NEW v, NEW d
  PROVE  /\ StackOK(s, v, d) <=>
              /\ CallOK(Head(s), v, d) /\ StackOK(Tail(s), v, d)
              /\ \A i \in 1..Len(Tail(s)) : Tail(s)[i].at \in UserPlaces
         /\ Listed(s) <=> Head(s).at \in Working \/ Listed(Tail(s))
PROOF
  <1> DEFINE q == Tail(s)
  <1>1. /\ Head(s) = s[1] /\ Len(s) \in Nat /\ Len(q) \in Nat /\ Len(s) = Len(q) + 1
        /\ \A i \in 1..Len(q) : q[i] = s[i + 1]
    BY Parts
  <1> HIDE DEF q
  <1>2. \A i \in 2..Len(s) : i - 1 \in 1..Len(q) /\ s[i] = q[i - 1]
    <2> SUFFICES ASSUME NEW i \in 2..Len(s) PROVE i - 1 \in 1..Len(q) /\ s[i] = q[i - 1]
      OBVIOUS
    <2>1. i - 1 \in 1..Len(q) /\ (i - 1) + 1 = i
      BY <1>1
    <2> QED
      BY <1>1, <2>1
  <1>3. \A i \in 1..Len(q) : i + 1 \in 2..Len(s) /\ i + 1 \in 1..Len(s) /\ s[i + 1] = q[i]
    BY <1>1
  <1>4. (\A i \in 1..Len(s) : CallOK(s[i], v, d))
          <=> CallOK(s[1], v, d) /\ \A i \in 1..Len(q) : CallOK(q[i], v, d)
    <2>1. \A i \in 1..Len(s) : i = 1 \/ i \in 2..Len(s)
      BY <1>1
    <2>2. 1 \in 1..Len(s)
      BY <1>1
    <2> QED
      BY <1>2, <1>3, <2>1, <2>2
  <1>5. (\A i \in 2..Len(s) : s[i].at \in UserPlaces)
          <=> \A i \in 1..Len(q) : q[i].at \in UserPlaces
    BY <1>2, <1>3
  <1>6. \A i \in 2..Len(q) : i \in 1..Len(q)
    BY <1>1
  <1>7. Listed(s) <=> s[1].at \in Working \/ Listed(q)
    <2>1. \A i \in 1..Len(s) : i = 1 \/ i \in 2..Len(s)
      BY <1>1
    <2>2. 1 \in 1..Len(s)
      BY <1>1
    <2> QED
      BY <1>2, <1>3, <2>1, <2>2 DEF Listed
  <1> QED
    BY <1>1, <1>4, <1>5, <1>6, <1>7 DEF StackOK, q

LEMMA StackLater ==
  ASSUME NEW s \in Seq(Call), NEW v, NEW d, NEW w, NEW e,
         StackOK(s, v, d), Later(v, d, w, e)
  PROVE  StackOK(s, w, e)
PROOF
  <1>1. ASSUME NEW i \in 1..Len(s)
        PROVE  CallOK(s[i], w, e)
    <2>1. CallOK(s[i], v, d) /\ s[i] \in Call
      BY DEF StackOK
    <2>2. \A a \in 1..s[i].k : a \in Attrs
      BY <2>1, LazyAssumption DEF Call, Attrs
    <2> QED
      BY <2>1, <2>2 DEF CallOK, Later, AllSet
  <1> QED
    BY <1>1 DEF StackOK
-------------------------------------------------------------------------------
LEMMA ReadThread ==
  ASSUME LazyInv, NEW t \in Threads
  PROVE  /\ calls[t] \in Seq(Call) /\ StackOK(calls[t], value, dict)
         /\ t \in list => Listed(calls[t])
         /\ ResultOK(result[t], value) /\ result[t] \in Results
PROOF
  BY DEF LazyInv, TypeOK

\* A step of one thread, given what it makes of its stack.
LEMMA OneThread ==
  ASSUME LazyInv, NEW t \in Threads, NEW r \in Seq(Call), NEW x \in Results,
         calls' = [calls EXCEPT ![t] = r],
         freeThreaded' = freeThreaded, immutable' = immutable, gil' = gil,
         value' \in Owners, dict' \in [Attrs -> Owners], Later(value, dict, value', dict'),
         full' \in BOOLEAN, frozen' \in BOOLEAN,
         full' => value' # Nobody /\ AllSet(dict'),
         StackOK(r, value', dict'),
         list' \subseteq list \cup {t}, t \in list' => Listed(r),
         result' = result \/ result' = [result EXCEPT ![t] = x],
         ResultOK(x, value')
  PROVE  LazyInv'
PROOF
  <1>1. /\ freeThreaded \in Builds /\ immutable \in BOOLEAN /\ gil \in Threads
        /\ list \subseteq Threads
        /\ calls \in [Threads -> Seq(Call)] /\ result \in [Threads -> Results]
    BY DEF LazyInv, TypeOK
  <1>2. calls' \in [Threads -> Seq(Call)] /\ calls'[t] = r
        /\ \A u \in Threads \ {t} : calls'[u] = calls[u]
    BY <1>1
  <1>3. result' \in [Threads -> Results]
        /\ \A u \in Threads : result'[u] = result[u] \/ (u = t /\ result'[u] = x)
    BY <1>1
  <1>4. TypeOK'
    BY <1>1, <1>2, <1>3 DEF TypeOK
  <1>5. ASSUME NEW u \in Threads
        PROVE  StackOK(calls'[u], value', dict') /\ (u \in list' => Listed(calls'[u]))
    <2>1. CASE u = t
      BY <1>2, <2>1
    <2>2. CASE u # t
      <3>1. calls[u] \in Seq(Call) /\ StackOK(calls[u], value, dict)
            /\ (u \in list => Listed(calls[u]))
        BY ReadThread
      <3>2. StackOK(calls[u], value', dict')
        BY <3>1, StackLater
      <3> QED
        BY <1>2, <2>2, <3>1, <3>2
    <2> QED
      BY <2>1, <2>2
  <1>6. \A u \in Threads : ResultOK(result'[u], value')
    BY <1>3, ReadThread DEF ResultOK, Later
  <1> QED
    BY <1>4, <1>5, <1>6 DEF LazyInv

\* Nothing happens to the cell and the dict.
LEMMA SameIsLater == Later(value, dict, value, dict)
PROOF
  BY DEF Later

\* The innermost call of t ends.
LEMMA Leaves ==
  ASSUME LazyInv, NEW t \in Threads, NEW ok \in BOOLEAN, calls[t] # <<>>, Leave(t, ok),
         UNCHANGED <<freeThreaded, immutable, gil, value, dict, frozen>>,
         full' \in BOOLEAN, full' => value # Nobody /\ AllSet(dict),
         \/ list' = list /\ Head(calls[t]).at \notin Working
         \/ list' = list \ {t},
         ok => Head(calls[t]).at # "create",
         ok /\ Tail(calls[t]) = <<>> => AllSet(dict)
  PROVE  LazyInv'
PROOF
  <1> DEFINE s == calls[t]
             r == Tail(s)
  <1>1. s \in Seq(Call) /\ s # <<>> /\ StackOK(s, value, dict) /\ (t \in list => Listed(s))
        /\ result[t] \in Results /\ ResultOK(result[t], value)
    BY ReadThread
  <1>2. Head(s) \in Call /\ r \in Seq(Call) /\ (Len(s) > 1 <=> r # <<>>)
    BY <1>1, Parts
  <1>3. StackOK(r, value, dict) /\ CallOK(Head(s), value, dict)
    BY <1>1, StackParts
  <1>4. t \in list' => Listed(r)
    BY <1>1, StackParts
  <1>5. calls' = [calls EXCEPT ![t] = r] /\ list' \subseteq list \cup {t}
    BY DEF Leave
  <1>6. value \in Owners /\ dict \in [Attrs -> Owners] /\ frozen \in BOOLEAN
    BY DEF LazyInv, TypeOK
  <1>7. CASE r # <<>>
    <2>1. result' = result
      BY <1>2, <1>7 DEF Leave
    <2> HIDE DEF s, r
    <2> QED
      BY <1>1, <1>2, <1>3, <1>4, <1>5, <1>6, <2>1, OneThread, SameIsLater
  <1>8. CASE r = <<>>
    <2> DEFINE x == [ok |-> ok, type |-> Head(s).type, filled |-> AllSet(dict)]
    <2>1. result' = [result EXCEPT ![t] = x]
      BY <1>2, <1>8 DEF Leave, Now, AllSet
    <2>2. AllSet(dict) \in BOOLEAN
      BY DEF AllSet
    <2>3. x \in Results
      BY <1>2, <2>2 DEF Results, Call
    <2>4. x.ok = ok /\ x.type = Head(s).type /\ x.filled = AllSet(dict)
      OBVIOUS
    <2>5. ResultOK(x, value)
      BY <1>3, <1>8, <2>4 DEF ResultOK, CallOK
    <2> HIDE DEF s, r, x
    <2> QED
      BY <1>2, <1>3, <1>4, <1>5, <1>6, <2>1, <2>3, <2>5, OneThread, SameIsLater
  <1> QED
    BY <1>7, <1>8

\* The innermost call of t goes on as c.
LEMMA Moves ==
  ASSUME LazyInv, NEW t \in Threads, calls[t] # <<>>, NEW c \in Call, Move(t, c),
         UNCHANGED <<freeThreaded, immutable, gil, full, result>>,
         value' \in Owners, dict' \in [Attrs -> Owners], Later(value, dict, value', dict'),
         frozen' \in BOOLEAN,
         CallOK(c, value', dict'),
         list' \subseteq list \cup {t},
         t \in list' => c.at \in Working \/ (t \in list /\ Head(calls[t]).at \notin Working)
  PROVE  LazyInv'
PROOF
  <1> DEFINE s == calls[t]
             q == Tail(s)
             r == <<c>> \o q
  <1>1. s \in Seq(Call) /\ s # <<>> /\ StackOK(s, value, dict) /\ (t \in list => Listed(s))
        /\ result[t] \in Results /\ ResultOK(result[t], value)
    BY ReadThread
  <1>2. q \in Seq(Call)
    BY <1>1, Parts
  <1>3. r \in Seq(Call) /\ r # <<>> /\ Head(r) = c /\ Tail(r) = q
    BY <1>2, Cons
  <1>4. StackOK(s, value', dict')
    BY <1>1, StackLater
  <1>5. calls' = [calls EXCEPT ![t] = r]
    BY DEF Move
  <1> HIDE DEF r
  <1>6. StackOK(r, value', dict')
    BY <1>1, <1>3, <1>4, StackParts
  <1>7. t \in list' => Listed(r)
    BY <1>1, <1>3, StackParts
  <1>8. full \in BOOLEAN /\ (full => value # Nobody /\ AllSet(dict))
    BY DEF LazyInv, TypeOK
  <1>9. full' \in BOOLEAN /\ (full' => value' # Nobody /\ AllSet(dict'))
    BY <1>8 DEF Later, AllSet
  <1>10. ResultOK(result[t], value')
    BY <1>1 DEF ResultOK, Later
  <1> QED
    BY <1>1, <1>3, <1>5, <1>6, <1>7, <1>9, <1>10, OneThread
\* Another call is made from user code.
LEMMA Pushes ==
  ASSUME LazyInv, NEW t \in Threads, InUserCode(t), NEW c \in Call,
         c.at \in {"create", "ensure"}, CallOK(c, value, dict),
         calls' = [calls EXCEPT ![t] = <<c>> \o @],
         UNCHANGED <<freeThreaded, immutable, gil, cells, result>>
  PROVE  LazyInv'
PROOF
  <1> DEFINE s == calls[t]
             r == <<c>> \o s
  <1>1. s \in Seq(Call) /\ StackOK(s, value, dict) /\ (t \in list => Listed(s))
        /\ result[t] \in Results /\ ResultOK(result[t], value)
    BY ReadThread
  <1>2. r \in Seq(Call) /\ r # <<>> /\ Head(r) = c /\ Tail(r) = s
    BY <1>1, Cons
  <1>3. ASSUME NEW i \in 1..Len(s)
        PROVE  s[i].at \in UserPlaces
    <2>1. CASE i = 1
      <3>1. s # <<>> /\ Head(s) = s[1]
        BY <1>1
      <3> QED
        BY <2>1, <3>1 DEF InUserCode, At, UserPlaces
    <2>2. CASE i # 1
      <3>1. i \in 2..Len(s)
        BY <1>1, <2>2
      <3> QED
        BY <1>1, <3>1 DEF StackOK
    <2> QED
      BY <2>1, <2>2
  <1>4. calls' = [calls EXCEPT ![t] = r]
    OBVIOUS
  <1> HIDE DEF r
  <1>5. StackOK(r, value, dict)
    BY <1>1, <1>2, <1>3, StackParts
  <1>6. t \in list => Listed(r)
    BY <1>1, <1>2, StackParts
  <1>7. value \in Owners /\ dict \in [Attrs -> Owners] /\ full \in BOOLEAN /\ frozen \in BOOLEAN
        /\ (full => value # Nobody /\ AllSet(dict))
    BY DEF LazyInv, TypeOK
  <1>8. UNCHANGED <<value, full, list, dict, frozen>>
    BY DEF cells
  <1> QED
    BY <1>1, <1>2, <1>4, <1>5, <1>6, <1>7, <1>8, SameIsLater, OneThread

-------------------------------------------------------------------------------
(* The steps.                                                              *)

LEMMA LazyInit == Init => LazyInv
PROOF
  <1> SUFFICES ASSUME Init PROVE LazyInv
    OBVIOUS
  <1>1. <<>> \in Seq(Call) /\ Len(<<>>) = 0 /\ NoResult \in Results
    BY DEF NoResult, Results, Owners
  <1>2. TypeOK
    BY <1>1 DEF Init, TypeOK, Owners
  <1> QED
    BY <1>1, <1>2 DEF Init, LazyInv, StackOK, ResultOK, NoResult

\* What the innermost call is.
LEMMA Innermost ==
  ASSUME LazyInv, NEW t \in Threads, calls[t] # <<>>
  PROVE  /\ Now(t) \in Call /\ CallOK(Now(t), value, dict)
         /\ t \in list /\ Now(t).at \notin Working => Tail(calls[t]) # <<>>
PROOF
  <1>1. calls[t] \in Seq(Call) /\ StackOK(calls[t], value, dict)
        /\ (t \in list => Listed(calls[t]))
    BY ReadThread
  <1>2. ASSUME Listed(Tail(calls[t])), Tail(calls[t]) = <<>>
        PROVE  FALSE
    BY <1>2 DEF Listed
  <1> QED
    BY <1>1, <1>2, Parts, StackParts DEF Now

LEMMA AskStep ==
  ASSUME LazyInv, NEW t \in Threads, GetOrTryInit(t)
  PROVE  LazyInv'
PROOF
  <1>1. UNCHANGED <<freeThreaded, immutable, gil, cells>> /\ InUserCode(t)
    BY DEF GetOrTryInit
  <1>2. value \in Owners /\ dict \in [Attrs -> Owners] /\ full \in BOOLEAN /\ frozen \in BOOLEAN
        /\ (full => value # Nobody /\ AllSet(dict)) /\ calls \in [Threads -> Seq(Call)]
    BY DEF LazyInv, TypeOK
  <1>3. CASE full
    <2> DEFINE x == [ok |-> TRUE, type |-> value, filled |-> AllSet(dict)]
               r == calls[t]
    <2>1. calls' = [calls EXCEPT ![t] = r]
      BY <1>2, <1>3 DEF GetOrTryInit
    <2>2. result' = result \/ result' = [result EXCEPT ![t] = x]
      BY <1>3 DEF GetOrTryInit, AllSet
    <2>3. x \in Results /\ ResultOK(x, value)
      BY <1>2, <1>3 DEF Results, ResultOK
    <2>4. r \in Seq(Call) /\ StackOK(r, value, dict) /\ (t \in list => Listed(r))
      BY ReadThread
    <2>5. UNCHANGED <<value, full, list, dict, frozen>>
      BY <1>1 DEF cells
    <2> HIDE DEF x, r
    <2> QED
      BY <1>1, <1>2, <2>1, <2>2, <2>3, <2>4, <2>5, SameIsLater, OneThread
  <1>4. CASE ~full
    <2> DEFINE c == [at |-> IF value = Nobody THEN "create" ELSE "ensure",
                     k |-> 0, type |-> value]
    <2>1. calls' = [calls EXCEPT ![t] = <<c>> \o @] /\ UNCHANGED result
      BY <1>4 DEF GetOrTryInit
    <2>2. c \in Call /\ c.at \in {"create", "ensure"} /\ CallOK(c, value, dict)
      BY <1>2, LazyAssumption DEF Call, Places, CallOK
    <2> HIDE DEF c
    <2> QED
      BY <1>1, <2>1, <2>2, Pushes
  <1> QED
    BY <1>2, <1>3, <1>4

LEMMA CreatedStep ==
  ASSUME LazyInv, NEW t \in Threads, Created(t)
  PROVE  LazyInv'
PROOF
  <1> DEFINE c == [at |-> "ensure", k |-> 0, type |-> value']
  <1>1. /\ calls[t] # <<>> /\ Head(calls[t]).at = "create" /\ Move(t, c)
        /\ value' = (IF value = Nobody THEN t ELSE value)
        /\ UNCHANGED <<freeThreaded, immutable, gil, full, list, dict, frozen, result>>
    BY DEF Created, At
  <1>2. value \in Owners /\ dict \in [Attrs -> Owners] /\ frozen \in BOOLEAN
    BY DEF LazyInv, TypeOK
  <1>3. value' \in Owners /\ value' # Nobody /\ Later(value, dict, value', dict')
    BY <1>1, <1>2, LazyAssumption DEF Owners, Later
  <1>4. c \in Call /\ CallOK(c, value', dict')
    BY <1>3, LazyAssumption DEF Call, Places, CallOK
  <1>5. Head(calls[t]).at \notin Working
    BY <1>1 DEF Working
  <1> HIDE DEF c
  <1> QED
    BY <1>1, <1>2, <1>3, <1>4, <1>5, Moves

\* Steps of the innermost call that leave the cell and the dict alone.
LEMMA GoesOn ==
  ASSUME LazyInv, NEW t \in Threads, calls[t] # <<>>, NEW p \in Places, NEW n \in 0..NumAttrs,
         Move(t, [Now(t) EXCEPT !.at = p, !.k = n]),
         UNCHANGED <<freeThreaded, immutable, gil, full, result, value, dict>>,
         frozen' \in BOOLEAN,
         Now(t).at # "create", p # "create", p = "fill" => n = 0,
         p \in {"clear", "publish"} => AllSet(dict),
         list' \subseteq list \cup {t},
         t \in list' => p \in Working \/ (t \in list /\ Now(t).at \notin Working)
  PROVE  LazyInv'
PROOF
  <1> DEFINE c == [Now(t) EXCEPT !.at = p, !.k = n]
  <1>1. Now(t) \in Call /\ CallOK(Now(t), value, dict)
    BY Innermost
  <1>2. c \in Call /\ c.at = p /\ c.k = n /\ c.type = Now(t).type
    BY <1>1 DEF Call
  <1>3. CallOK(c, value', dict')
    BY <1>1, <1>2 DEF CallOK
  <1>4. value' \in Owners /\ dict' \in [Attrs -> Owners] /\ Later(value, dict, value', dict')
    BY SameIsLater DEF LazyInv, TypeOK
  <1>5. Now(t) = Head(calls[t])
    BY DEF Now
  <1> HIDE DEF c
  <1>6. Move(t, c)
    BY DEF c
  <1> QED
    BY <1>2, <1>3, <1>4, <1>5, <1>6, Moves
LEMMA EndSteps ==
  ASSUME LazyInv, NEW t \in Threads,
         CreateFails(t) \/ AttributeFails(t) \/ FillFails(t) \/ Publish(t)
  PROVE  LazyInv'
PROOF
  <1>1. /\ UNCHANGED <<freeThreaded, immutable, gil, value, dict, frozen>>
        /\ calls[t] # <<>> /\ Head(calls[t]) = Now(t)
    BY DEF CreateFails, AttributeFails, FillFails, Publish, At, Now, cells
  <1>2. /\ full \in BOOLEAN
        /\ full => value # Nobody /\ AllSet(dict)
        /\ CallOK(Now(t), value, dict)
    BY Innermost, <1>1 DEF LazyInv, TypeOK
  <1>3. CASE CreateFails(t)
    <2>1. Leave(t, FALSE) /\ list' = list /\ full' = full /\ Now(t).at \notin Working
      BY <1>3 DEF CreateFails, At, Now, cells, Working
    <2> QED
      BY <1>1, <1>2, <2>1, Leaves
  <1>4. CASE AttributeFails(t) \/ FillFails(t)
    <2>1. Leave(t, FALSE) /\ list' = list \ {t} /\ full' = full
      BY <1>4 DEF AttributeFails, FillFails
    <2> QED
      BY <1>1, <1>2, <2>1, Leaves
  <1>5. CASE Publish(t)
    <2>1. Leave(t, TRUE) /\ list' = list /\ full' = TRUE /\ Now(t).at = "publish"
      BY <1>5 DEF Publish, At, Now
    <2>2. value # Nobody /\ AllSet(dict)
      BY <1>2, <2>1 DEF CallOK
    <2>3. Now(t).at \notin Working /\ Now(t).at # "create"
      BY <2>1 DEF Working
    <2> QED
      BY <1>1, <2>1, <2>2, <2>3, Leaves
  <1> QED
    BY <1>3, <1>4, <1>5

LEMMA EnsureStep ==
  ASSUME LazyInv, NEW t \in Threads, Ensure(t)
  PROVE  LazyInv'
PROOF
  <1>1. /\ UNCHANGED <<freeThreaded, immutable, gil, value, full, list, dict, frozen>>
        /\ calls[t] # <<>> /\ Head(calls[t]) = Now(t) /\ Now(t).at = "ensure"
    BY DEF Ensure, At, Now, cells
  <1>2. /\ full \in BOOLEAN /\ frozen \in BOOLEAN
        /\ full => value # Nobody /\ AllSet(dict)
        /\ Now(t) \in Call
    BY Innermost, <1>1 DEF LazyInv, TypeOK
  <1>3. Now(t).at \notin Working /\ Now(t).at # "create"
    BY <1>1 DEF Working
  <1>4. CASE full
    <2>1. Leave(t, TRUE)
      BY <1>4 DEF Ensure
    <2> QED
      BY <1>1, <1>2, <1>3, <1>4, <2>1, Leaves
  <1>5. CASE ~full
    <2>1. Move(t, [Now(t) EXCEPT !.at = "enter"]) /\ UNCHANGED result
      BY <1>5 DEF Ensure
    <2>2. [Now(t) EXCEPT !.at = "enter"] = [Now(t) EXCEPT !.at = "enter", !.k = Now(t).k]
          /\ Now(t).k \in 0..NumAttrs
      BY <1>2 DEF Call
    <2> QED
      BY <1>1, <1>2, <1>3, <2>1, <2>2, GoesOn DEF Places
  <1> QED
    BY <1>2, <1>4, <1>5

LEMMA EnterStep ==
  ASSUME LazyInv, NEW t \in Threads, EnterList(t)
  PROVE  LazyInv'
PROOF
  <1>1. /\ UNCHANGED <<freeThreaded, immutable, gil, value, full, dict, frozen>>
        /\ calls[t] # <<>> /\ Head(calls[t]) = Now(t) /\ Now(t).at = "enter"
    BY DEF EnterList, At, Now
  <1>2. /\ full \in BOOLEAN /\ frozen \in BOOLEAN
        /\ full => value # Nobody /\ AllSet(dict)
        /\ Now(t) \in Call
    BY Innermost, <1>1 DEF LazyInv, TypeOK
  <1>3. Now(t).at \notin Working /\ Now(t).at # "create"
    BY <1>1 DEF Working
  <1>4. CASE t \in list
    <2>1. Leave(t, TRUE) /\ list' = list
      BY <1>4 DEF EnterList
    <2>2. Tail(calls[t]) # <<>>
      BY <1>1, <1>3, <1>4, Innermost
    <2> QED
      BY <1>1, <1>2, <1>3, <2>1, <2>2, Leaves
  <1>5. CASE t \notin list
    <2>1. Move(t, [Now(t) EXCEPT !.at = "attrs"]) /\ UNCHANGED result /\ list' = list \cup {t}
      BY <1>5 DEF EnterList
    <2>2. [Now(t) EXCEPT !.at = "attrs"] = [Now(t) EXCEPT !.at = "attrs", !.k = Now(t).k]
          /\ Now(t).k \in 0..NumAttrs
      BY <1>2 DEF Call
    <2> QED
      BY <1>1, <1>2, <1>3, <2>1, <2>2, GoesOn DEF Places, Working
  <1> QED
    BY <1>4, <1>5

LEMMA AttributeStep ==
  ASSUME LazyInv, NEW t \in Threads, Attribute(t)
  PROVE  LazyInv'
PROOF
  <1> DEFINE n == Now(t).k + 1
  <1>1. /\ UNCHANGED <<freeThreaded, immutable, gil, value, full, list, dict, frozen, result>>
        /\ calls[t] # <<>> /\ Now(t).at = "attrs" /\ Now(t).k < NumAttrs
        /\ Move(t, [Now(t) EXCEPT !.k = @ + 1])
    BY DEF Attribute, At, Now, cells
  <1>2. Now(t) \in Call /\ frozen \in BOOLEAN
    BY Innermost, <1>1 DEF LazyInv, TypeOK
  <1>3. [Now(t) EXCEPT !.k = @ + 1] = [Now(t) EXCEPT !.at = "attrs", !.k = n]
    BY <1>1, <1>2 DEF Call
  <1>4. n \in 0..NumAttrs
    BY <1>1, <1>2, LazyAssumption DEF Call
  <1> HIDE DEF n
  <1> QED
    BY <1>1, <1>2, <1>3, <1>4, GoesOn DEF Places, Working

LEMMA ComputedStep ==
  ASSUME LazyInv, NEW t \in Threads, Computed(t)
  PROVE  LazyInv'
PROOF
  <1>1. /\ UNCHANGED <<freeThreaded, immutable, gil, value, full, dict, frozen>>
        /\ calls[t] # <<>> /\ Head(calls[t]) = Now(t) /\ Now(t).at = "attrs"
    BY DEF Computed, At, Now
  <1>2. /\ full \in BOOLEAN /\ frozen \in BOOLEAN
        /\ full => value # Nobody /\ AllSet(dict)
    BY DEF LazyInv, TypeOK
  <1>3. CASE full
    <2>1. Leave(t, TRUE) /\ list' = list \ {t}
      BY <1>3 DEF Computed
    <2> QED
      BY <1>1, <1>2, <1>3, <2>1, Leaves
  <1>4. CASE ~full
    <2>1. Move(t, [Now(t) EXCEPT !.at = "fill", !.k = 0]) /\ UNCHANGED <<list, result>>
      BY <1>4 DEF Computed
    <2>2. 0 \in 0..NumAttrs
      BY LazyAssumption
    <2> QED
      BY <1>1, <1>2, <2>1, <2>2, GoesOn DEF Places, Working
  <1> QED
    BY <1>2, <1>3, <1>4

LEMMA FillStep ==
  ASSUME LazyInv, NEW t \in Threads, Fill(t)
  PROVE  LazyInv'
PROOF
  <1> DEFINE c == [Now(t) EXCEPT !.k = @ + 1]
  <1>1. /\ UNCHANGED <<freeThreaded, immutable, gil, value, full, list, frozen, result>>
        /\ calls[t] # <<>> /\ Head(calls[t]) = Now(t) /\ Now(t).at = "fill"
        /\ Now(t).k < NumAttrs /\ dict' = [dict EXCEPT ![Now(t).k + 1] = t] /\ Move(t, c)
    BY DEF Fill, At, Now
  <1>2. /\ value \in Owners /\ dict \in [Attrs -> Owners] /\ frozen \in BOOLEAN
        /\ Now(t) \in Call /\ CallOK(Now(t), value, dict)
    BY Innermost, <1>1 DEF LazyInv, TypeOK
  <1>3. /\ c \in Call /\ c.at = "fill" /\ c.type = Now(t).type /\ c.k = Now(t).k + 1
        /\ Now(t).k \in 0..NumAttrs /\ Now(t).k + 1 \in Attrs
    BY <1>1, <1>2, LazyAssumption DEF Call, Attrs
  <1>4. /\ dict' \in [Attrs -> Owners] /\ dict'[Now(t).k + 1] = t /\ t # Nobody
        /\ \A a \in Attrs : a # Now(t).k + 1 => dict'[a] = dict[a]
    BY <1>1, <1>2, <1>3, LazyAssumption DEF Owners
  <1>5. Later(value, dict, value', dict')
    BY <1>1, <1>4 DEF Later
  <1> HIDE DEF c
  <1>6. ASSUME NEW a \in 1..c.k
        PROVE  dict'[a] # Nobody
    <2>1. a \in Attrs /\ (a = Now(t).k + 1 \/ a \in 1..Now(t).k)
      BY <1>3, LazyAssumption DEF Attrs
    <2>2. a \in 1..Now(t).k => dict[a] # Nobody
      BY <1>1, <1>2 DEF CallOK
    <2> QED
      BY <1>4, <2>1, <2>2
  <1>7. CallOK(c, value', dict')
    BY <1>1, <1>2, <1>3, <1>6 DEF CallOK
  <1>8. c.at \in Working
    BY <1>3 DEF Working
  <1> QED
    BY <1>1, <1>2, <1>3, <1>4, <1>5, <1>7, <1>8, Moves

LEMMA LastSteps ==
  ASSUME LazyInv, NEW t \in Threads, Freeze(t) \/ ClearList(t)
  PROVE  LazyInv'
PROOF
  <1>1. /\ UNCHANGED <<freeThreaded, immutable, gil, value, full, dict, result>>
        /\ calls[t] # <<>>
    BY DEF Freeze, ClearList, At
  <1>2. /\ frozen \in BOOLEAN /\ immutable \in BOOLEAN
        /\ Now(t) \in Call /\ CallOK(Now(t), value, dict)
    BY Innermost, <1>1 DEF LazyInv, TypeOK
  <1>3. PICK p \in {"clear", "publish"} :
          /\ Move(t, [Now(t) EXCEPT !.at = p]) /\ frozen' \in BOOLEAN
          /\ list' \subseteq list \ {t} /\ Now(t).at \in {"fill", "clear"}
    <2>1. CASE Freeze(t)
      BY <1>2, <2>1 DEF Freeze, At, Now
    <2>2. CASE ClearList(t)
      BY <1>2, <2>2 DEF ClearList, At, Now
    <2> QED
      BY <2>1, <2>2
  <1>4. AllSet(dict)
    <2>1. CASE Freeze(t)
      BY <1>2, <2>1 DEF Freeze, At, Now, CallOK, AllSet, Attrs
    <2>2. CASE ClearList(t)
      BY <1>2, <2>2 DEF ClearList, At, Now, CallOK
    <2> QED
      BY <2>1, <2>2
  <1>5. [Now(t) EXCEPT !.at = p] = [Now(t) EXCEPT !.at = p, !.k = Now(t).k]
        /\ Now(t).k \in 0..NumAttrs
    BY <1>2 DEF Call
  <1>6. p \in Places /\ p # "create" /\ p # "fill" /\ Now(t).at # "create" /\ t \notin list'
        /\ list' \subseteq list \cup {t}
    BY <1>3 DEF Places
  <1> QED
    BY <1>1, <1>3, <1>4, <1>5, <1>6, GoesOn

LEMMA LazyStep == LazyInv /\ [Next]_vars => LazyInv'
PROOF
  <1> SUFFICES ASSUME LazyInv, [Next]_vars PROVE LazyInv'
    OBVIOUS
  <1>1. CASE UNCHANGED vars
    BY <1>1 DEF vars, cells, LazyInv, TypeOK
  <1>2. ASSUME NEW t \in Threads, HandOver(t)
        PROVE  LazyInv'
    BY <1>2 DEF HandOver, cells, LazyInv, TypeOK
  <1> QED
    BY <1>1, <1>2, AskStep, CreatedStep, EndSteps, EnsureStep, EnterStep, AttributeStep,
       ComputedStep, FillStep, LastSteps DEF Next

\* What is on a stack or in a cell is what the code puts there.
THEOREM LazyInvariant == Spec => []LazyInv
PROOF
  <1> QED
    BY LazyInit, LazyStep, PTL DEF Spec

\* All calls that succeed return one type object.
THEOREM TypesAreOne == Spec => []OneType
PROOF
  <1>1. LazyInv => OneType
    BY DEF LazyInv, ResultOK, OneType
  <1> QED
    BY <1>1, LazyInvariant, PTL

\* And it has its class attributes, unless the call comes from within.
THEOREM OutsidersAreServed == Spec => []OutsidersGetAFilledType
PROOF
  <1>1. LazyInv => OutsidersGetAFilledType
    BY DEF LazyInv, ResultOK, OutsidersGetAFilledType
  <1> QED
    BY <1>1, LazyInvariant, PTL
-------------------------------------------------------------------------------
(***************************************************************************)
(* With a GIL.  Only the attached thread g can be outside user code, so    *)
(* nothing comes between its last look at the second cell, f, and the end  *)
(* of what it does because of it; a type is frozen, z, only there.  A      *)
(* thread that computes attributes is on the list, l, until they are no    *)
(* longer wanted.                                                          *)
(***************************************************************************)
TopIn(s, p) == s # <<>> /\ Head(s).at \in p

Exclusive == {"enter", "fill", "clear", "publish"}

OneWorking(s) ==
  \A i, j \in 1..Len(s) : s[i].at \in Working /\ s[j].at \in Working => i = j

GilState(g, c, f, z, l) ==
  /\ \A u \in Threads \ {g} : c[u] = <<>> \/ TopIn(c[u], UserPlaces)
  /\ TopIn(c[g], Exclusive) => ~f
  /\ z => f \/ TopIn(c[g], {"clear", "publish"})
  /\ \A u \in Threads :
       /\ OneWorking(c[u])
       /\ Listed(c[u]) => u \in l \/ f \/ TopIn(c[g], {"publish"})

GilInv == ~freeThreaded => GilState(gil, calls, full, frozen, list)

LEMMA OneWorkingParts ==
  ASSUME NEW S, NEW s \in Seq(S), s # <<>>
  PROVE  OneWorking(s) <=>
           OneWorking(Tail(s)) /\ (Head(s).at \in Working => ~Listed(Tail(s)))
PROOF
  <1> DEFINE q == Tail(s)
  <1>1. /\ Head(s) = s[1] /\ Len(s) \in Nat /\ Len(q) \in Nat /\ Len(s) = Len(q) + 1
        /\ \A i \in 1..Len(q) : q[i] = s[i + 1]
    BY Parts
  <1> HIDE DEF q
  <1>2. \A i \in 1..Len(s) : i = 1 \/ (i - 1 \in 1..Len(q) /\ s[i] = q[i - 1])
    <2> SUFFICES ASSUME NEW i \in 1..Len(s), i # 1
                 PROVE  i - 1 \in 1..Len(q) /\ s[i] = q[i - 1]
      OBVIOUS
    <2>1. i - 1 \in 1..Len(q) /\ (i - 1) + 1 = i
      BY <1>1
    <2> QED
      BY <1>1, <2>1
  <1>3. \A i \in 1..Len(q) : i + 1 \in 1..Len(s) /\ s[i + 1] = q[i] /\ i + 1 # 1
    BY <1>1
  <1>4. 1 \in 1..Len(s)
    BY <1>1
  <1>5. ASSUME OneWorking(s)
        PROVE  OneWorking(q) /\ (s[1].at \in Working => ~Listed(q))
    <2>1. ASSUME NEW i \in 1..Len(q), NEW j \in 1..Len(q),
                 q[i].at \in Working, q[j].at \in Working
          PROVE  i = j
      <3>1. i + 1 = j + 1
        BY <1>3, <1>5, <2>1 DEF OneWorking
      <3> QED
        BY <3>1, <1>1
    <2>2. ASSUME s[1].at \in Working, NEW i \in 1..Len(q), q[i].at \in Working
          PROVE  FALSE
      BY <1>3, <1>4, <1>5, <2>2 DEF OneWorking
    <2> QED
      BY <2>1, <2>2 DEF OneWorking, Listed
  <1>6. ASSUME OneWorking(q), s[1].at \in Working => ~Listed(q),
               NEW i \in 1..Len(s), NEW j \in 1..Len(s),
               s[i].at \in Working, s[j].at \in Working
        PROVE  i = j
    <2>1. CASE i = 1 /\ j = 1
      BY <2>1
    <2>2. CASE i = 1 /\ j # 1
      BY <1>2, <1>6, <2>2 DEF Listed
    <2>3. CASE i # 1 /\ j = 1
      BY <1>2, <1>6, <2>3 DEF Listed
    <2>4. CASE i # 1 /\ j # 1
      <3>1. i - 1 = j - 1
        BY <1>2, <1>6, <2>4 DEF OneWorking
      <3> QED
        BY <3>1, <1>1
    <2> QED
      BY <2>1, <2>2, <2>3, <2>4
  <1> QED
    BY <1>1, <1>5, <1>6 DEF OneWorking, q

\* A step of the attached thread, given what it makes of its stack.
LEMMA OneAttached ==
  ASSUME LazyInv, GilInv, ~freeThreaded, freeThreaded' = freeThreaded, gil' = gil,
         NEW r \in Seq(Call), calls' = [calls EXCEPT ![gil] = r],
         TopIn(r, Exclusive) => ~full',
         frozen' => full' \/ TopIn(r, {"clear", "publish"}),
         OneWorking(r),
         Listed(r) => gil \in list' \/ full' \/ TopIn(r, {"publish"}),
         \/ full' \/ TopIn(r, {"publish"})
         \/ full' = full /\ ~TopIn(calls[gil], {"publish"}) /\ list \ {gil} \subseteq list'
  PROVE  GilInv'
PROOF
  <1>1. GilState(gil, calls, full, frozen, list) /\ gil \in Threads
        /\ calls \in [Threads -> Seq(Call)]
    BY DEF GilInv, LazyInv, TypeOK
  <1>2. calls'[gil] = r /\ \A u \in Threads \ {gil} : calls'[u] = calls[u]
    BY <1>1
  <1>3. ASSUME NEW u \in Threads
        PROVE  /\ OneWorking(calls'[u])
               /\ Listed(calls'[u]) => u \in list' \/ full' \/ TopIn(r, {"publish"})
    <2>1. CASE u = gil
      BY <1>2, <2>1
    <2>2. CASE u # gil
      BY <1>1, <1>2, <2>2 DEF GilState
    <2> QED
      BY <2>1, <2>2
  <1>4. \A u \in Threads \ {gil} : calls'[u] = <<>> \/ TopIn(calls'[u], UserPlaces)
    BY <1>1, <1>2 DEF GilState
  <1> QED
    BY <1>2, <1>3, <1>4 DEF GilInv, GilState

\* What is known of the attached thread's stack.
LEMMA AttachedStack ==
  ASSUME LazyInv, GilInv, ~freeThreaded, calls[gil] # <<>>
  PROVE  LET s == calls[gil]
             q == Tail(s)
             a == Head(s).at
         IN  /\ gil \in Threads /\ s \in Seq(Call) /\ q \in Seq(Call)
             /\ q = <<>> \/ TopIn(q, UserPlaces)
             /\ OneWorking(q) /\ (a \in Working => ~Listed(q))
             /\ Listed(s) <=> a \in Working \/ Listed(q)
             /\ Listed(s) => gil \in list \/ full \/ a = "publish"
             /\ a \in Exclusive => ~full
             /\ frozen => full \/ a \in {"clear", "publish"}
PROOF
  <1> DEFINE s == calls[gil]
             q == Tail(s)
  <1>1. GilState(gil, calls, full, frozen, list) /\ gil \in Threads
    BY DEF GilInv, LazyInv, TypeOK
  <1>2. s \in Seq(Call) /\ s # <<>> /\ StackOK(s, value, dict)
    BY <1>1, ReadThread
  <1>3. q \in Seq(Call) /\ \A i \in 1..Len(q) : q[i].at \in UserPlaces
    BY <1>2, Parts, StackParts
  <1>4. q = <<>> \/ TopIn(q, UserPlaces)
    <2>1. q # <<>> => 1 \in 1..Len(q) /\ Head(q) = q[1]
      BY <1>3
    <2> QED
      BY <1>3, <2>1 DEF TopIn
  <1>5. OneWorking(s) /\ (Listed(s) => gil \in list \/ full \/ Head(s).at = "publish")
    BY <1>1 DEF GilState, TopIn
  <1>6. OneWorking(q) /\ (Head(s).at \in Working => ~Listed(q))
    BY <1>2, <1>5, OneWorkingParts
  <1>7. Listed(s) <=> Head(s).at \in Working \/ Listed(q)
    BY <1>2, StackParts
  <1>8. /\ Head(s).at \in Exclusive => ~full
        /\ frozen => full \/ Head(s).at \in {"clear", "publish"}
    BY <1>1, <1>2 DEF GilState, TopIn
  <1> QED
    BY <1>1, <1>2, <1>3, <1>4, <1>5, <1>6, <1>7, <1>8

\* The attached thread's innermost call ends.
LEMMA AttachedLeaves ==
  ASSUME LazyInv, GilInv, ~freeThreaded, freeThreaded' = freeThreaded, gil' = gil,
         calls[gil] # <<>>, NEW ok, Leave(gil, ok), frozen' = frozen,
         \/ full'
         \/ /\ full' = full /\ Head(calls[gil]).at \notin {"clear", "publish"}
            /\ \/ list' = list /\ Head(calls[gil]).at \notin Working
               \/ list' = list \ {gil} /\ Head(calls[gil]).at \in Working
  PROVE  GilInv'
PROOF
  <1> DEFINE q == Tail(calls[gil])
  <1>1. /\ gil \in Threads /\ calls[gil] \in Seq(Call) /\ q \in Seq(Call)
        /\ q = <<>> \/ TopIn(q, UserPlaces)
        /\ OneWorking(q) /\ (Head(calls[gil]).at \in Working => ~Listed(q))
        /\ Listed(calls[gil]) <=> Head(calls[gil]).at \in Working \/ Listed(q)
        /\ Listed(calls[gil]) => gil \in list \/ full \/ Head(calls[gil]).at = "publish"
        /\ frozen => full \/ Head(calls[gil]).at \in {"clear", "publish"}
    BY AttachedStack
  <1>2. calls' = [calls EXCEPT ![gil] = q]
    BY DEF Leave
  <1>3. ~TopIn(q, Exclusive)
    BY <1>1 DEF TopIn, UserPlaces, Exclusive
  <1>4. frozen' => full' \/ TopIn(q, {"clear", "publish"})
    BY <1>1
  <1>5. Listed(q) => gil \in list' \/ full' \/ TopIn(q, {"publish"})
    BY <1>1
  <1>6. full' \/ (full' = full /\ ~TopIn(calls[gil], {"publish"}) /\ list \ {gil} \subseteq list')
    BY DEF TopIn
  <1> HIDE DEF q
  <1> QED
    BY <1>1, <1>2, <1>3, <1>4, <1>5, <1>6, OneAttached

\* It goes on as c.
LEMMA AttachedMoves ==
  ASSUME LazyInv, GilInv, ~freeThreaded, freeThreaded' = freeThreaded, gil' = gil,
         calls[gil] # <<>>, NEW c \in Call, Move(gil, c), full' = full,
         Head(calls[gil]).at # "publish",
         c.at \in Exclusive => ~full,
         frozen' => full \/ c.at \in {"clear", "publish"},
         \/ list' = list /\ (c.at \in Working => Head(calls[gil]).at \in Working)
         \/ list' = list \cup {gil} /\ ~Listed(calls[gil])
         \/ list' = list \ {gil} /\ c.at \notin Working /\ Head(calls[gil]).at \in Working
         \/ c.at = "publish"
  PROVE  GilInv'
PROOF
  <1> DEFINE q == Tail(calls[gil])
             r == <<c>> \o q
  <1>1. /\ gil \in Threads /\ calls[gil] \in Seq(Call) /\ q \in Seq(Call)
        /\ OneWorking(q) /\ (Head(calls[gil]).at \in Working => ~Listed(q))
        /\ Listed(calls[gil]) <=> Head(calls[gil]).at \in Working \/ Listed(q)
        /\ Listed(calls[gil]) => gil \in list \/ full \/ Head(calls[gil]).at = "publish"
    BY AttachedStack
  <1>2. r \in Seq(Call) /\ r # <<>> /\ Head(r) = c /\ Tail(r) = q
    BY <1>1, Cons
  <1>3. calls' = [calls EXCEPT ![gil] = r]
    BY DEF Move
  <1> HIDE DEF q, r
  <1>4. /\ OneWorking(r) <=> OneWorking(q) /\ (c.at \in Working => ~Listed(q))
        /\ Listed(r) <=> c.at \in Working \/ Listed(q)
    BY <1>2, OneWorkingParts, StackParts
  <1>5. OneWorking(r)
    BY <1>1, <1>4 DEF Working
  <1>6. \A p : TopIn(r, p) <=> c.at \in p
    BY <1>2 DEF TopIn
  <1>7. Listed(r) => gil \in list' \/ full' \/ TopIn(r, {"publish"})
    BY <1>1, <1>4, <1>6
  <1>8. \/ full' \/ TopIn(r, {"publish"})
        \/ full' = full /\ ~TopIn(calls[gil], {"publish"}) /\ list \ {gil} \subseteq list'
    BY <1>6 DEF TopIn
  <1>9. (TopIn(r, Exclusive) => ~full') /\ (frozen' => full' \/ TopIn(r, {"clear", "publish"}))
    BY <1>6
  <1> QED
    BY <1>2, <1>3, <1>5, <1>7, <1>8, <1>9, OneAttached
LEMMA UserIsNotExclusive ==
  ASSUME NEW t, InUserCode(t)
  PROVE  ~TopIn(calls[t], Exclusive) /\ ~TopIn(calls[t], {"clear", "publish"})
         /\ ~TopIn(calls[t], {"publish"})
         /\ (calls[t] = <<>> \/ TopIn(calls[t], UserPlaces))
PROOF
  BY DEF InUserCode, At, TopIn, Exclusive, UserPlaces

LEMMA GilHandOver ==
  ASSUME LazyInv, GilInv, ~freeThreaded, NEW u \in Threads, HandOver(u)
  PROVE  GilInv'
PROOF
  <1>1. GilState(gil, calls, full, frozen, list) /\ gil \in Threads
    BY DEF GilInv, LazyInv, TypeOK
  <1>2. /\ gil' = u /\ gil # u /\ InUserCode(gil)
        /\ UNCHANGED <<calls, full, frozen, list>>
    BY DEF HandOver, cells
  <1>3. calls[u] = <<>> \/ TopIn(calls[u], UserPlaces)
    BY <1>1, <1>2 DEF GilState
  <1>4. ~TopIn(calls[u], Exclusive)
    BY <1>3 DEF TopIn, Exclusive, UserPlaces
  <1>5. /\ frozen => full
        /\ \A v \in Threads : OneWorking(calls[v]) /\ (Listed(calls[v]) => v \in list \/ full)
        /\ \A v \in Threads \ {u} : calls[v] = <<>> \/ TopIn(calls[v], UserPlaces)
    BY <1>1, <1>2, UserIsNotExclusive DEF GilState
  <1>6. GilState(u, calls, full, frozen, list)
    BY <1>4, <1>5 DEF GilState
  <1> QED
    BY <1>2, <1>6 DEF GilInv

LEMMA GilAsks ==
  ASSUME LazyInv, GilInv, ~freeThreaded, GetOrTryInit(gil)
  PROVE  GilInv'
PROOF
  <1>1. /\ UNCHANGED <<freeThreaded, gil, full, frozen, list>> /\ InUserCode(gil)
        /\ gil \in Threads
    BY DEF GetOrTryInit, cells, LazyInv, TypeOK
  <1>2. GilState(gil, calls, full, frozen, list)
    BY DEF GilInv
  <1>3. CASE full
    <2>1. UNCHANGED calls
      BY <1>3 DEF GetOrTryInit
    <2> QED
      BY <1>1, <1>2, <2>1 DEF GilInv
  <1>4. CASE ~full
    <2> DEFINE c == [at |-> IF value = Nobody THEN "create" ELSE "ensure",
                     k |-> 0, type |-> value]
               s == calls[gil]
               r == <<c>> \o s
    <2>1. calls' = [calls EXCEPT ![gil] = r]
      BY <1>4 DEF GetOrTryInit
    <2>2. c \in Call /\ c.at \in {"create", "ensure"}
      BY LazyAssumption DEF Call, Places, LazyInv, TypeOK
    <2>3. s \in Seq(Call)
      BY <1>1, ReadThread
    <2> HIDE DEF c
    <2>4. r \in Seq(Call) /\ r # <<>> /\ Head(r) = c /\ Tail(r) = s
      BY <2>2, <2>3, Cons
    <2> HIDE DEF r
    <2>5. (OneWorking(r) <=> OneWorking(s)) /\ (Listed(r) <=> Listed(s))
      <3>1. c.at \notin Working
        BY <2>2 DEF Working
      <3> QED
        BY <2>4, <3>1, OneWorkingParts, StackParts
    <2>6. OneWorking(s) /\ (Listed(s) => gil \in list \/ full) /\ (frozen => full)
      BY <1>1, <1>2, UserIsNotExclusive DEF GilState
    <2>7. ~TopIn(r, Exclusive)
      BY <2>2, <2>4 DEF TopIn, Exclusive
    <2>8. ~TopIn(s, {"publish"})
      BY <1>1, UserIsNotExclusive
    <2> QED
      BY <1>1, <2>1, <2>4, <2>5, <2>6, <2>7, <2>8, OneAttached
  <1> QED
    BY <1>3, <1>4 DEF LazyInv, TypeOK

LEMMA GilEnds ==
  ASSUME LazyInv, GilInv, ~freeThreaded,
         \/ CreateFails(gil) \/ AttributeFails(gil) \/ FillFails(gil) \/ Publish(gil)
         \/ Ensure(gil) /\ full
         \/ EnterList(gil) /\ gil \in list
         \/ Computed(gil) /\ full
  PROVE  GilInv'
PROOF
  <1>1. UNCHANGED <<freeThreaded, gil, frozen>> /\ calls[gil] # <<>>
    BY DEF CreateFails, AttributeFails, FillFails, Publish, Ensure, EnterList, Computed, At, cells
  <1>2. PICK ok \in BOOLEAN : Leave(gil, ok)
    BY DEF CreateFails, AttributeFails, FillFails, Publish, Ensure, EnterList, Computed
  <1>3. CASE CreateFails(gil) \/ (Ensure(gil) /\ full) \/ (EnterList(gil) /\ gil \in list)
    <2>1. /\ full' = full /\ list' = list
          /\ Head(calls[gil]).at \in {"create", "ensure", "enter"}
      BY <1>3 DEF CreateFails, Ensure, EnterList, At, cells
    <2>2. Head(calls[gil]).at \notin {"clear", "publish"} /\ Head(calls[gil]).at \notin Working
      BY <2>1 DEF Working
    <2> QED
      BY <1>1, <1>2, <2>1, <2>2, AttachedLeaves
  <1>4. CASE AttributeFails(gil) \/ FillFails(gil) \/ (Computed(gil) /\ full)
    <2>1. full' = full /\ list' = list \ {gil} /\ Head(calls[gil]).at \in {"attrs", "fill"}
      BY <1>4 DEF AttributeFails, FillFails, Computed, At
    <2>2. Head(calls[gil]).at \notin {"clear", "publish"} /\ Head(calls[gil]).at \in Working
      BY <2>1 DEF Working
    <2> QED
      BY <1>1, <1>2, <2>1, <2>2, AttachedLeaves
  <1>5. CASE Publish(gil)
    BY <1>1, <1>2, <1>5, AttachedLeaves DEF Publish
  <1> QED
    BY <1>3, <1>4, <1>5

LEMMA GilMoves ==
  ASSUME LazyInv, GilInv, ~freeThreaded,
         \/ Created(gil) \/ Attribute(gil) \/ Fill(gil) \/ Freeze(gil) \/ ClearList(gil)
         \/ Ensure(gil) /\ ~full
         \/ EnterList(gil) /\ gil \notin list
         \/ Computed(gil) /\ ~full
  PROVE  GilInv'
PROOF
  <1> DEFINE a == Head(calls[gil]).at
  <1>1. UNCHANGED <<freeThreaded, gil, full>> /\ calls[gil] # <<>>
    BY DEF Created, Attribute, Fill, Freeze, ClearList, Ensure, EnterList, Computed, At, cells
  <1>2. /\ Listed(calls[gil]) => gil \in list \/ full \/ a = "publish"
        /\ a \in Exclusive => ~full
        /\ frozen => full \/ a \in {"clear", "publish"}
    BY <1>1, AttachedStack
  <1>3. Now(gil) \in Call /\ gil \in Threads /\ Now(gil) = Head(calls[gil])
    BY <1>1, Innermost DEF LazyInv, TypeOK, Now
  <1>4. CASE Created(gil)
    <2> DEFINE c == [at |-> "ensure", k |-> 0, type |-> value']
    <2>1. Move(gil, c) /\ a = "create" /\ UNCHANGED <<list, frozen>>
          /\ value' = (IF value = Nobody THEN gil ELSE value)
      BY <1>4 DEF Created, At
    <2>2. c \in Call /\ c.at = "ensure"
      BY <1>3, <2>1, LazyAssumption DEF Call, Places, Owners, LazyInv, TypeOK
    <2> HIDE DEF c
    <2>3. c.at \notin Exclusive /\ c.at \notin Working
      BY <2>2 DEF Exclusive, Working
    <2> QED
      BY <1>1, <1>2, <2>1, <2>2, <2>3, AttachedMoves
  <1>5. CASE Attribute(gil) \/ Fill(gil)
    <2> DEFINE c == [Now(gil) EXCEPT !.k = @ + 1]
    <2>1. Move(gil, c) /\ a \in Working /\ UNCHANGED <<list, frozen>> /\ Now(gil).k < NumAttrs
      BY <1>5 DEF Attribute, Fill, At, cells, Working
    <2>2. c \in Call /\ c.at = a
      BY <1>3, <2>1, LazyAssumption DEF Call
    <2> HIDE DEF c
    <2>3. a \notin {"clear", "publish"}
      BY <2>1 DEF Working
    <2> QED
      BY <1>1, <1>2, <2>1, <2>2, <2>3, AttachedMoves
  <1>6. CASE Ensure(gil) /\ ~full
    <2> DEFINE c == [Now(gil) EXCEPT !.at = "enter"]
    <2>1. Move(gil, c) /\ a = "ensure" /\ UNCHANGED <<list, frozen>>
      BY <1>6 DEF Ensure, At, cells
    <2>2. c \in Call /\ c.at = "enter"
      BY <1>3 DEF Call, Places
    <2> HIDE DEF c
    <2>3. c.at \notin Working
      BY <2>2 DEF Working
    <2> QED
      BY <1>1, <1>2, <1>6, <2>1, <2>2, <2>3, AttachedMoves
  <1>7. CASE EnterList(gil) /\ gil \notin list
    <2> DEFINE c == [Now(gil) EXCEPT !.at = "attrs"]
    <2>1. Move(gil, c) /\ a = "enter" /\ UNCHANGED frozen /\ list' = list \cup {gil}
      BY <1>7 DEF EnterList, At
    <2>2. c \in Call /\ c.at = "attrs"
      BY <1>3 DEF Call, Places
    <2>3. a \in Exclusive
      BY <2>1 DEF Exclusive
    <2>4. ~Listed(calls[gil])
      BY <1>2, <1>7, <2>1, <2>3
    <2> HIDE DEF c
    <2>5. c.at \notin Exclusive
      BY <2>2 DEF Exclusive
    <2> QED
      BY <1>1, <1>2, <2>1, <2>2, <2>4, <2>5, AttachedMoves
  <1>8. CASE Computed(gil) /\ ~full
    <2> DEFINE c == [Now(gil) EXCEPT !.at = "fill", !.k = 0]
    <2>1. Move(gil, c) /\ a = "attrs" /\ UNCHANGED <<list, frozen>>
      BY <1>8 DEF Computed, At
    <2>2. c \in Call /\ c.at = "fill"
      <3>1. 0 \in 0..NumAttrs /\ "fill" \in Places
        BY LazyAssumption DEF Places
      <3> QED
        BY <1>3, <3>1 DEF Call
    <2> HIDE DEF c
    <2>3. a \in Working
      BY <2>1 DEF Working
    <2> QED
      BY <1>1, <1>2, <1>8, <2>1, <2>2, <2>3, AttachedMoves
  <1>9. CASE Freeze(gil)
    <2> DEFINE c == [Now(gil) EXCEPT !.at = "clear"]
    <2>1. Move(gil, c) /\ a = "fill" /\ list' = list \ {gil}
      BY <1>9 DEF Freeze, At
    <2>2. c \in Call /\ c.at = "clear"
      BY <1>3 DEF Call, Places
    <2> HIDE DEF c
    <2>3. a \in Working /\ a \in Exclusive /\ c.at \notin Working
      BY <2>1, <2>2 DEF Working, Exclusive
    <2> QED
      BY <1>1, <1>2, <2>1, <2>2, <2>3, AttachedMoves
  <1>10. CASE ClearList(gil)
    <2> DEFINE c == [Now(gil) EXCEPT !.at = "publish"]
    <2>1. Move(gil, c) /\ a = "clear"
      BY <1>10 DEF ClearList, At
    <2>2. c \in Call /\ c.at = "publish"
      BY <1>3 DEF Call, Places
    <2> HIDE DEF c
    <2>3. a \in Exclusive
      BY <2>1 DEF Exclusive
    <2> QED
      BY <1>1, <1>2, <2>1, <2>2, <2>3, AttachedMoves
  <1> QED
    BY <1>4, <1>5, <1>6, <1>7, <1>8, <1>9, <1>10

LEMMA GilStep == LazyInv /\ GilInv /\ [Next]_vars => GilInv'
PROOF
  <1> SUFFICES ASSUME LazyInv, GilInv, [Next]_vars PROVE GilInv'
    OBVIOUS
  <1>1. freeThreaded' = freeThreaded
    BY DEF Next, vars, HandOver, GetOrTryInit, Created, CreateFails, Ensure, EnterList,
           Attribute, AttributeFails, Computed, Fill, FillFails, Freeze, ClearList, Publish
  <1>2. CASE freeThreaded
    BY <1>1, <1>2 DEF GilInv
  <1>3. CASE UNCHANGED vars
    BY <1>3 DEF vars, cells, GilInv
  <1>4. CASE ~freeThreaded /\ Next
    <2>1. PICK t \in Threads :
            \/ HandOver(t) \/ GetOrTryInit(t) \/ Created(t) \/ CreateFails(t)
            \/ Ensure(t) \/ EnterList(t) \/ Attribute(t) \/ AttributeFails(t) \/ Computed(t)
            \/ Fill(t) \/ FillFails(t) \/ Freeze(t) \/ ClearList(t) \/ Publish(t)
      BY <1>4 DEF Next
    <2>2. CASE HandOver(t)
      BY <1>4, <2>2, GilHandOver
    <2>3. CASE ~HandOver(t)
      <3>1. t = gil
        BY <1>4, <2>1, <2>3 DEF Attached, GetOrTryInit, Created, CreateFails, Ensure, EnterList,
           Attribute, AttributeFails, Computed, Fill, FillFails, Freeze, ClearList, Publish
      <3> QED
        BY <1>4, <2>1, <2>3, <3>1, GilAsks, GilEnds, GilMoves
    <2> QED
      BY <2>2, <2>3
  <1> QED
    BY <1>2, <1>3, <1>4 DEF LazyInv, TypeOK

LEMMA GilInit == Init => GilInv
PROOF
  <1> SUFFICES ASSUME Init PROVE GilInv
    OBVIOUS
  <1>1. ~Listed(<<>>) /\ OneWorking(<<>>) /\ \A p : ~TopIn(<<>>, p)
    BY DEF Listed, OneWorking, TopIn
  <1> QED
    BY <1>1 DEF Init, GilInv, GilState

THEOREM GilInvariant == Spec => []GilInv
PROOF
  <1> QED
    BY GilInit, GilStep, LazyInvariant, PTL DEF Spec

\* With a GIL no step changes the dict of a filled type or finds it frozen, and no
\* thread computes attributes within its own computation.
THEOREM OneThreadFills == Spec => WithGilOneFills
PROOF
  <1>1. ASSUME LazyInv, GilInv, [Next]_vars, ~freeThreaded
        PROVE  /\ full => dict' = dict
               /\ \A t \in Threads :
                    /\ At(t, "fill") /\ Now(t).k < NumAttrs => ~frozen
                    /\ \A i, j \in DOMAIN calls[t] :
                         calls[t][i].at = "attrs" /\ calls[t][j].at = "attrs" => i = j
    <2>1. GilState(gil, calls, full, frozen, list)
      BY <1>1 DEF GilInv
    <2>2. ASSUME NEW t \in Threads, Fill(t)
          PROVE  ~full
      <3>1. t = gil /\ TopIn(calls[t], Exclusive)
        BY <1>1, <2>2 DEF Fill, Attached, At, TopIn, Exclusive
      <3> QED
        BY <2>1, <3>1 DEF GilState
    <2>3. dict' = dict \/ \E t \in Threads : Fill(t)
      BY <1>1 DEF Next, vars, cells, HandOver, GetOrTryInit, Created, CreateFails, Ensure,
         EnterList, Attribute, AttributeFails, Computed, FillFails, Freeze, ClearList, Publish
    <2>4. ASSUME NEW t \in Threads, At(t, "fill")
          PROVE  ~frozen
      <3>1. t = gil
        BY <2>1, <2>4 DEF GilState, At, TopIn, UserPlaces
      <3>2. TopIn(calls[gil], Exclusive) /\ ~TopIn(calls[gil], {"clear", "publish"})
        BY <2>4, <3>1 DEF At, TopIn, Exclusive
      <3> QED
        BY <2>1, <3>2 DEF GilState
    <2>5. ASSUME NEW t \in Threads, NEW i \in DOMAIN calls[t], NEW j \in DOMAIN calls[t],
                 calls[t][i].at = "attrs", calls[t][j].at = "attrs"
          PROVE  i = j
      <3>1. calls[t] \in Seq(Call) /\ OneWorking(calls[t])
        BY <1>1, <2>1, ReadThread DEF GilState
      <3>2. i \in 1..Len(calls[t]) /\ j \in 1..Len(calls[t])
        BY <3>1
      <3> QED
        BY <2>5, <3>1, <3>2 DEF OneWorking, Working
    <2> QED
      BY <2>2, <2>3, <2>4, <2>5
  <1>2. LazyInv /\ GilInv /\ [Next]_vars
          => [freeThreaded \/
               /\ full => dict' = dict
               /\ \A t \in Threads :
                    /\ At(t, "fill") /\ Now(t).k < NumAttrs => ~frozen
                    /\ \A i, j \in DOMAIN calls[t] :
                         calls[t][i].at = "attrs" /\ calls[t][j].at = "attrs" => i = j]_vars
    BY <1>1
  <1> QED
    BY <1>2, LazyInvariant, GilInvariant, PTL DEF Spec, WithGilOneFills
===============================================================================
