--------------------------- MODULE IterationProofs ---------------------------
(***************************************************************************)
(* What the iterators promise, for containers of any size and any build: a *)
(* read is within bounds except where an addition wraps, no position comes *)
(* twice until one does, and iterating over a dict ends.                   *)
(***************************************************************************)
EXTENDS SequenceIteration, DictIteration, FiniteSetTheorems, TLAPS

\* What a call has measured still holds, because nothing may change the list
\* before it is read; a tuple that no call has wrapped in has all its items.
MeasuredHolds ==
  /\ calling.at = "measured" =>
       /\ limit <= length
       /\ limit <= size \/ (tuple /\ wrapped)
       /\ tuple \/ ~freeThreaded \/ section
  /\ tuple /\ ~wrapped => length <= size

SequenceInv == SequenceTypeOK /\ EachPositionOnce /\ MeasuredHolds

LEMMA StridesAreNumbers ==
  /\ \A n \in Strides : n \in Nat /\ n < Word
  /\ MaxSize \in Nat /\ Word \in Nat /\ MaxSize < Word /\ 0 \in Strides
PROOF
  <1>1. Word \in Nat /\ Strides \subseteq 0..Word - 1
    BY SequenceAssumption
  <1> QED
    BY <1>1, SequenceAssumption

\* The operands of a calling.
LEMMA CallIsTyped ==
  ASSUME SequenceTypeOK
  PROVE  /\ calling.end = "front" \/ calling.end = "back"
         /\ calling.stride \in Nat /\ calling.stride < Word /\ Word \in Nat
         /\ index \in Nat /\ index < Word /\ limit \in Nat /\ limit < Word
         /\ length \in Nat /\ length < Word /\ size \in Nat /\ size < Word
PROOF
  <1>1. calling.end \in Ends /\ calling.stride \in Strides
    BY DEF SequenceTypeOK, Call
  <1>2. MaxSize \in Nat /\ Word \in Nat /\ MaxSize < Word
    BY StridesAreNumbers
  <1>3. /\ index \in Nat /\ index < Word /\ limit \in Nat /\ limit < Word
        /\ length \in Nat /\ length < Word /\ size \in Nat /\ size < Word
    BY <1>2 DEF SequenceTypeOK, Usize
  <1> QED
    BY <1>1, <1>2, <1>3, StridesAreNumbers DEF Ends

\* An item that is found is at a usize, from the front below the limit ...
LEMMA TargetIsUsize ==
  ASSUME SequenceTypeOK, Found
  PROVE  /\ Target \in Usize
         /\ calling.end = "front" => Target < limit
PROOF
  <1> DEFINE n == calling.stride
  <1>1. /\ calling.end = "front" \/ calling.end = "back"
        /\ n \in Nat /\ n < Word /\ Word \in Nat
        /\ index \in Nat /\ index < Word /\ limit \in Nat /\ limit < Word
    BY CallIsTyped
  <1>2. Reached \in Nat /\ Reached < limit
    BY <1>1 DEF Found, Reached, Overflows
  <1>3. CASE calling.end = "front"
    BY <1>1, <1>2, <1>3 DEF Target, Usize
  <1>4. CASE calling.end = "back"
    BY <1>1, <1>4 DEF Target, Usize
  <1> QED
    BY <1>1, <1>3, <1>4

\* ... and between the ends when the addition does not wrap.
LEMMA TargetInside ==
  ASSUME SequenceTypeOK, Found, ~Overflows
  PROVE  Target \in Nat /\ index <= Target /\ Target < limit
PROOF
  <1> DEFINE n == calling.stride
  <1>1. /\ calling.end = "front" \/ calling.end = "back"
        /\ n \in Nat /\ index \in Nat /\ limit \in Nat
    BY CallIsTyped
  <1>2. Reached = index + n /\ index + n < limit
    BY DEF Found, Reached
  <1>3. CASE calling.end = "front"
    BY <1>1, <1>2, <1>3 DEF Target
  <1>4. CASE calling.end = "back"
    BY <1>1, <1>2, <1>4 DEF Target
  <1> QED
    BY <1>1, <1>3, <1>4

LEMMA AppendedRange ==
  ASSUME NEW S, NEW s \in Seq(S), NEW x \in S
  PROVE  /\ Append(s, x) \in Seq(S)
         /\ Len(Append(s, x)) = Len(s) + 1
         /\ \A i \in DOMAIN s : Append(s, x)[i] = s[i]
         /\ Append(s, x)[Len(s) + 1] = x
         /\ DOMAIN s = 1..Len(s)
         /\ DOMAIN Append(s, x) = 1..Len(s) + 1
  OBVIOUS

LEMMA SequenceInitial == SequenceInit => SequenceInv
PROOF
  <1> SUFFICES ASSUME SequenceInit PROVE SequenceInv
    OBVIOUS
  <1>0. MaxSize \in Nat /\ Word \in Nat /\ MaxSize < Word /\ 0 \in Strides
    BY StridesAreNumbers
  <1>a. calling \in Call
    BY <1>0 DEF SequenceInit, Call, Ends
  <1>b. given \in Seq(Usize)
    BY DEF SequenceInit
  <1>c. /\ size \in 0..MaxSize /\ limit \in Usize /\ first \in 0..MaxSize
        /\ index \in Usize /\ length \in Usize /\ passed \subseteq Usize
    BY <1>0 DEF SequenceInit, Usize
  <1>d. tuple \in BOOLEAN /\ freeThreaded \in BOOLEAN /\ nightly \in BOOLEAN
        /\ overflowChecks \in BOOLEAN /\ wrapped \in BOOLEAN /\ section \in BOOLEAN
    BY DEF SequenceInit
  <1>1. SequenceTypeOK
    BY <1>a, <1>b, <1>c, <1>d DEF SequenceTypeOK
  <1>2. DOMAIN given = {}
    BY DEF SequenceInit
  <1>3. EachPositionOnce
    BY <1>2 DEF SequenceInit, EachPositionOnce, Once, Yielded
  <1>4. MeasuredHolds
    BY DEF SequenceInit, MeasuredHolds
  <1> QED
    BY <1>1, <1>3, <1>4 DEF SequenceInv

\* The fields of an iterator stay usizes, whatever was read.
LEMMA ReadKeepsTypes ==
  ASSUME SequenceInv, Read
  PROVE  /\ index' \in Usize /\ length' \in Usize
         /\ given' \in Seq(Usize) /\ passed' \subseteq Usize
PROOF
  <1> DEFINE t == Target
  <1>1. t \in Usize /\ (calling.end = "front" => t < limit)
    BY TargetIsUsize DEF SequenceInv, Read
  <1>2. /\ index \in Nat /\ length \in Nat /\ length < Word /\ limit \in Nat
        /\ limit < Word /\ Word \in Nat
    BY CallIsTyped DEF SequenceInv
  <1>3. given \in Seq(Usize) /\ passed \subseteq Usize /\ index \in Usize /\ length \in Usize
    BY DEF SequenceInv, SequenceTypeOK
  <1>4. given' = Append(given, t)
    BY DEF Read
  <1> HIDE DEF t
  <1>5. given' \in Seq(Usize)
    BY <1>1, <1>3, <1>4, AppendedRange
  <1>6. CASE calling.end = "front"
    <2>1. index' = t + 1 /\ passed' = passed \cup (index..t - 1) /\ length' = length
      BY <1>6 DEF Read, Narrow, t
    <2>2. index' \in Usize /\ index..t - 1 \subseteq Usize
      BY <2>1, <1>1, <1>2, <1>6 DEF Usize
    <2> QED
      BY <2>1, <2>2, <1>3, <1>5
  <1>7. CASE calling.end # "front"
    <2>1. length' = t /\ passed' = passed \cup (t + 1..length - 1) /\ index' = index
      BY <1>7 DEF Read, Narrow, t
    <2>2. t + 1..length - 1 \subseteq Usize
      BY <1>1, <1>2 DEF Usize
    <2> QED
      BY <2>1, <2>2, <1>1, <1>3, <1>5
  <1> QED
    BY <1>6, <1>7

\* The iterator's positions after an item was taken from one end, as long as no
\* addition has wrapped.
LEMMA ReadKeepsPositions ==
  ASSUME SequenceInv, Read, ~wrapped, ~Overflows
  PROVE  Once' /\ length' <= length
PROOF
  <1> DEFINE t == Target
  <1>1. /\ t \in Nat /\ index <= t /\ t < limit
        /\ calling.end = "front" \/ calling.end = "back"
    BY TargetInside, CallIsTyped DEF SequenceInv, Read
  <1>2. /\ limit <= length
        /\ index \in Nat /\ length \in Nat /\ limit \in Nat /\ first \in Nat
        /\ given \in Seq(Usize) /\ Usize \subseteq Nat
    BY CallIsTyped, SequenceAssumption DEF SequenceInv, MeasuredHolds, Read, SequenceTypeOK, Usize
  <1>3. t \in index..length - 1 /\ t < length
    BY <1>1, <1>2
  <1>4. given' = Append(given, t) /\ first' = first
    BY DEF Read, build
  <1>u. t \in Usize
    BY TargetIsUsize DEF SequenceInv, Read
  <1>o. Once
    BY DEF SequenceInv, EachPositionOnce
  <1> HIDE DEF t
  <1>5. /\ DOMAIN given = 1..Len(given) /\ Len(given) \in Nat
        /\ DOMAIN given' = 1..Len(given) + 1
        /\ \A i \in DOMAIN given : given'[i] = given[i]
        /\ given'[Len(given) + 1] = t
    BY <1>2, <1>u, <1>4, AppendedRange
  <1>6. Yielded' = Yielded \cup {t}
    BY <1>5 DEF Yielded
  <1>7. t \notin Yielded /\ t \notin passed
    BY <1>3, <1>o DEF Once
  <1>8. \A i, j \in DOMAIN given' : given'[i] = given'[j] => i = j
    <2> SUFFICES ASSUME NEW i \in DOMAIN given', NEW j \in DOMAIN given',
                        given'[i] = given'[j]
                 PROVE  i = j
      OBVIOUS
    <2>1. \A k \in DOMAIN given : given'[k] # t
      BY <1>5, <1>7 DEF Yielded
    <2>2. CASE i \in DOMAIN given /\ j \in DOMAIN given
      BY <2>2, <1>5, <1>o DEF Once
    <2>3. CASE i = Len(given) + 1 \/ j = Len(given) + 1
      BY <2>1, <2>3, <1>5
    <2> QED
      BY <2>2, <2>3, <1>5
  <1>9. /\ Yielded \cap passed = {}
        /\ (Yielded \cup passed) \cap (index..length - 1) = {}
        /\ Yielded \cup passed \cup (index..length - 1) = 0..first - 1
    BY <1>o DEF Once
  <1>s. /\ index..length - 1 = (index..t - 1) \cup {t} \cup (t + 1..length - 1)
        /\ t \notin index..t - 1 /\ t \notin t + 1..length - 1
        /\ (index..t - 1) \cap (t + 1..length - 1) = {}
    BY <1>1, <1>2, <1>3
  <1>10. CASE calling.end = "front"
    <2>1. index' = t + 1 /\ passed' = passed \cup (index..t - 1) /\ length' = length
      BY <1>10 DEF Read, Narrow, t
    <2>4. index' <= length'
      BY <2>1, <1>1, <1>2, <1>3
    <2>5. /\ Yielded' \cap passed' = {}
          /\ (Yielded' \cup passed') \cap (index'..length' - 1) = {}
          /\ Yielded' \cup passed' \cup (index'..length' - 1) = 0..first' - 1
      BY <2>1, <1>s, <1>4, <1>6, <1>7, <1>9
    <2> QED
      BY <2>1, <2>4, <2>5, <1>2, <1>8 DEF Once
  <1>11. CASE calling.end = "back"
    <2>1. length' = t /\ passed' = passed \cup (t + 1..length - 1) /\ index' = index
      BY <1>11 DEF Read, Narrow, t
    <2>4. index' <= length' /\ length' <= length
      BY <2>1, <1>1, <1>2, <1>3
    <2>5. /\ Yielded' \cap passed' = {}
          /\ (Yielded' \cup passed') \cap (index'..length' - 1) = {}
          /\ Yielded' \cup passed' \cup (index'..length' - 1) = 0..first' - 1
      BY <2>1, <1>s, <1>4, <1>6, <1>7, <1>9
    <2> QED
      BY <2>4, <2>5, <1>8 DEF Once
  <1> QED
    BY <1>1, <1>10, <1>11

\* ... and after advance_by or advance_back_by, which add nothing up unchecked.
LEMMA AdvanceKeepsPositions ==
  ASSUME SequenceInv, NEW e \in Ends, NEW n \in Strides, Advance(e, n)
  PROVE  /\ Once => Once'
         /\ index' \in Usize /\ length' \in Usize /\ passed' \subseteq Usize
         /\ length' <= length
PROOF
  <1> DEFINE end == Shorter(length, size)
             by == Shorter(n, end - index)
  <1>1. /\ index \in Nat /\ length \in Nat /\ size \in Nat /\ first \in Nat /\ n \in Nat
        /\ length < Word /\ Word \in Nat /\ passed \subseteq Usize
    BY CallIsTyped, StridesAreNumbers DEF SequenceInv, SequenceTypeOK
  <1>2. end \in Nat /\ end <= length /\ index < end
    BY <1>1 DEF Advance, Shorter
  <1>3. by \in Nat /\ by <= end - index
    BY <1>1, <1>2 DEF Shorter
  <1>4. given' = given /\ first' = first /\ Yielded' = Yielded
    BY DEF Advance, build, Yielded
  <1>6. CASE e = "front"
    <2>1. index' = index + by /\ length' = length
          /\ passed' = passed \cup (index..index + by - 1)
      BY <1>6 DEF Advance
    <2> HIDE DEF by, end
    <2>2. index..length - 1 = (index..index + by - 1) \cup (index + by..length - 1)
          /\ (index..index + by - 1) \cap (index + by..length - 1) = {}
      BY <1>1, <1>2, <1>3
    <2>3. index' <= length' /\ index' \in Usize /\ length' \in Usize
          /\ passed' \subseteq Usize
      BY <2>1, <1>1, <1>2, <1>3 DEF Usize
    <2> QED
      BY <2>1, <2>2, <2>3, <1>1, <1>4 DEF Once
  <1>7. CASE e = "back"
    <2>1. length' = end - by /\ index' = index
          /\ passed' = passed \cup (end - by..length - 1)
      BY <1>7 DEF Advance, Ends
    <2> HIDE DEF by, end
    <2>2. index..length - 1 = (end - by..length - 1) \cup (index..end - by - 1)
          /\ (end - by..length - 1) \cap (index..end - by - 1) = {}
      BY <1>1, <1>2, <1>3
    <2>3. index' <= length' /\ index' \in Usize /\ length' \in Usize
          /\ passed' \subseteq Usize /\ length' <= length
      BY <2>1, <1>1, <1>2, <1>3 DEF Usize
    <2> QED
      BY <2>1, <2>2, <2>3, <1>4 DEF Once
  <1> QED
    BY <1>6, <1>7 DEF Ends

\* Measuring, which Begin and GoOn do, and nothing else changes.
LEMMA MeasureKeeps ==
  ASSUME SequenceInv, NEW c \in Call, Measure(c),
         UNCHANGED <<build, size, index, length, given, passed, wrapped>>
  PROVE  SequenceInv'
PROOF
  <1>0. length \in Nat /\ size \in Nat /\ length < Word /\ Word \in Nat
    BY CallIsTyped DEF SequenceInv
  <1>1. /\ limit' \in Usize /\ limit' <= length
        /\ limit' <= size \/ (tuple /\ wrapped)
    <2>1. limit' = Shorter(length, size) \/ (limit' = length /\ tuple)
      BY DEF Measure, Limits
    <2>2. CASE limit' = Shorter(length, size)
      BY <1>0, <2>2 DEF Shorter, Usize
    <2>3. CASE limit' = length /\ tuple
      BY <1>0, <2>3 DEF SequenceInv, MeasuredHolds, Usize
    <2> QED
      BY <2>1, <2>2, <2>3
  <1>2. section' \in BOOLEAN /\ (tuple \/ ~freeThreaded \/ section')
    BY DEF Measure, SequenceInv, SequenceTypeOK
  <1>3. SequenceTypeOK'
    BY <1>1, <1>2 DEF Measure, SequenceInv, SequenceTypeOK, build
  <1>4. EachPositionOnce'
    BY DEF SequenceInv, EachPositionOnce, Once, Yielded, build
  <1>5. MeasuredHolds'
    BY <1>1, <1>2 DEF SequenceInv, MeasuredHolds, build
  <1> QED
    BY <1>3, <1>4, <1>5 DEF SequenceInv

LEMMA SequenceStep ==
  ASSUME SequenceInv, [SequenceNext]_sequenceVars
  PROVE  SequenceInv'
PROOF
  <1> USE DEF SequenceInv
  <1>1. ASSUME NEW e \in Ends, NEW n \in Strides, NEW loop \in BOOLEAN, Begin(e, n, loop)
        PROVE  SequenceInv'
    <2>1. [at |-> "measured", end |-> e, stride |-> n, loop |-> loop] \in Call
      BY DEF Call
    <2> QED
      BY <1>1, <2>1, MeasureKeeps DEF Begin
  <1>2. CASE Read
    <2>1. /\ index' \in Usize /\ length' \in Usize
          /\ given' \in Seq(Usize) /\ passed' \subseteq Usize
      BY <1>2, ReadKeepsTypes
    <2>2. \A l : l \in {"closure", "over"} => [calling EXCEPT !.at = l] \in Call
      BY DEF SequenceTypeOK, Call
    <2>3. calling' \in Call /\ calling'.at # "measured"
      <3>1. calling' = [calling EXCEPT !.at = "closure"]
              \/ calling' = [calling EXCEPT !.at = "over"]
        BY <1>2 DEF Read
      <3> QED
        BY <3>1, <2>2 DEF SequenceTypeOK, Call
    <2>4. section' \in BOOLEAN
      BY <1>2 DEF Read, SequenceTypeOK
    <2>5. UNCHANGED <<build, size, limit>> /\ wrapped' = (wrapped \/ Overflows)
      BY <1>2 DEF Read
    <2>6. SequenceTypeOK'
      BY <2>1, <2>3, <2>4, <2>5 DEF SequenceTypeOK, build
    <2>7. ~wrapped' => Once' /\ length' <= length
      BY <1>2, <2>5, ReadKeepsPositions
    <2>8. overflowChecks => ~Overflows
      BY <1>2 DEF Read, Found
    <2>9. EachPositionOnce'
      BY <2>5, <2>7, <2>8 DEF EachPositionOnce, build
    <2>10. tuple' /\ ~wrapped' => length' <= size'
      <3>1. size \in Nat /\ length \in Nat
        BY CallIsTyped
      <3>2. length' \in Nat
        BY <2>1, StridesAreNumbers DEF Usize
      <3>3. size' = size /\ tuple' = tuple /\ (~wrapped' => ~wrapped)
        BY <2>5 DEF build
      <3>4. tuple /\ ~wrapped => length <= size
        BY DEF MeasuredHolds
      <3>5. ASSUME tuple', ~wrapped' PROVE length' <= size'
        <4>1. length' <= length /\ length <= size /\ size' = size
          BY <2>7, <3>3, <3>4, <3>5
        <4> QED
          BY <4>1, <3>1, <3>2
      <3> QED
        BY <3>5
    <2> QED
      BY <2>3, <2>6, <2>9, <2>10 DEF MeasuredHolds
  <1>3. CASE Nothing \/ Suspend \/ LeaveLoop
    <2>1. /\ UNCHANGED <<build, size, index, length, limit, given, passed, wrapped>>
          /\ section' = FALSE
          /\ calling' = calling \/ calling' = [calling EXCEPT !.at = "over"]
          /\ calling' = calling => calling.at # "measured"
      BY <1>3 DEF Nothing, Suspend, LeaveLoop, SequenceTypeOK, Call
    <2>2. calling' \in Call /\ calling'.at # "measured"
      BY <2>1 DEF SequenceTypeOK, Call
    <2>3. SequenceTypeOK'
      BY <2>1, <2>2 DEF SequenceTypeOK, build
    <2>4. EachPositionOnce'
      BY <2>1 DEF EachPositionOnce, Once, Yielded, build
    <2> QED
      BY <2>1, <2>2, <2>3, <2>4 DEF MeasuredHolds, build
  <1>4. CASE GoOn
    <2>1. [calling EXCEPT !.at = "measured"] \in Call
      BY DEF SequenceTypeOK, Call
    <2> QED
      BY <1>4, <2>1, MeasureKeeps DEF GoOn
  <1>5. ASSUME NEW e \in Ends, NEW n \in Strides, Advance(e, n)
        PROVE  SequenceInv'
    <2>1. /\ Once => Once'
          /\ index' \in Usize /\ length' \in Usize /\ passed' \subseteq Usize
          /\ length' <= length
      BY <1>5, AdvanceKeepsPositions
    <2>2. /\ calling.at = "over"
          /\ UNCHANGED <<build, size, calling, limit, section, given, wrapped>>
      BY <1>5 DEF Advance
    <2>3. SequenceTypeOK'
      BY <2>1, <2>2 DEF SequenceTypeOK, build
    <2>4. EachPositionOnce'
      BY <2>1, <2>2 DEF EachPositionOnce, build
    <2>5. size \in Nat /\ length \in Nat /\ length' \in Nat
      BY <2>1, CallIsTyped, StridesAreNumbers DEF Usize
    <2>6. MeasuredHolds'
      <3>1. calling'.at # "measured" /\ size' = size /\ tuple' = tuple /\ wrapped' = wrapped
        BY <2>2 DEF build
      <3>2. tuple' /\ ~wrapped' => length' <= size'
        BY <2>1, <2>5, <3>1 DEF MeasuredHolds
      <3> QED
        BY <3>1, <3>2 DEF MeasuredHolds
    <2> QED
      BY <2>3, <2>4, <2>6
  <1>6. ASSUME NEW s \in 0..MaxSize, Mutate(s)
        PROVE  SequenceInv'
    <2>1. /\ size' \in 0..MaxSize
          /\ UNCHANGED <<build, index, length, calling, limit, section, given, passed, wrapped>>
          /\ ~tuple /\ (calling.at # "measured" \/ (freeThreaded /\ ~section))
      BY <1>6 DEF Mutate
    <2>2. calling'.at # "measured" /\ ~tuple'
      BY <2>1 DEF MeasuredHolds, build
    <2>3. EachPositionOnce'
      BY <2>1 DEF EachPositionOnce, Once, Yielded, build
    <2> QED
      BY <2>1, <2>2, <2>3 DEF SequenceTypeOK, MeasuredHolds, build
  <1>7. CASE UNCHANGED sequenceVars
    BY <1>7 DEF sequenceVars, build, SequenceTypeOK, EachPositionOnce, Once, MeasuredHolds, Yielded
  <1> QED
    BY <1>1, <1>2, <1>3, <1>4, <1>5, <1>6, <1>7 DEF SequenceNext

\* The inductive invariant of the iterators over lists and tuples.
THEOREM SequenceInvariant == SequenceSpec => []SequenceInv
PROOF
  <1>1. SequenceInit => SequenceInv
    BY SequenceInitial
  <1>2. SequenceInv /\ [SequenceNext]_sequenceVars => SequenceInv'
    BY SequenceStep
  <1> QED
    BY <1>1, <1>2, PTL DEF SequenceSpec

\* However large the list is and however it changes, an unchecked read is within
\* its bounds, in any build: the limit measured is not passed, and it holds till
\* the read.  What is left are nth_back with an addition that wraps, and tuples
\* after one that wrapped.
THEOREM IteratorsReadInBounds == SequenceSpec => []ReadsInBoundsUnlessWrapped
PROOF
  <1>1. SequenceInv => ReadsInBoundsUnlessWrapped
    <2> SUFFICES ASSUME SequenceInv, calling.at = "measured", Found,
                        overflowChecks
                          \/ ~((calling.end = "back" /\ Overflows) \/ (tuple /\ wrapped))
                 PROVE  Target \in 0..size - 1
      BY DEF ReadsInBoundsUnlessWrapped
    <2>1. ~(tuple /\ wrapped) /\ ~(calling.end = "back" /\ Overflows)
      BY DEF SequenceInv, EachPositionOnce, Found
    <2>2. limit <= size /\ limit \in Nat /\ size \in Nat
      BY <2>1, CallIsTyped DEF SequenceInv, MeasuredHolds
    <2>3. Target \in Nat /\ Target < limit
      <3>1. CASE Overflows
        <4>1. calling.end = "front"
          BY <2>1, <3>1, CallIsTyped DEF SequenceInv
        <4> QED
          BY <4>1, TargetIsUsize, StridesAreNumbers DEF SequenceInv, Usize
      <3>2. CASE ~Overflows
        BY <3>2, TargetInside DEF SequenceInv
      <3> QED
        BY <3>1, <3>2
    <2> QED
      BY <2>2, <2>3
  <1> QED
    BY <1>1, SequenceInvariant, PTL

\* No position is yielded twice, and none gets lost, until an addition wraps; with
\* overflow checks none does.
THEOREM IteratorsYieldOnce == SequenceSpec => []EachPositionOnce
PROOF
  <1>1. SequenceInv => EachPositionOnce
    BY DEF SequenceInv
  <1> QED
    BY <1>1, SequenceInvariant, PTL

-------------------------------------------------------------------------------
\* The count of items still expected is exact, and a panic is remembered.
DictInv ==
  /\ slots \in Seq(BOOLEAN) /\ ppos \in Nat
  /\ diUsed \in Nat \cup {-1} /\ atFirst \in Nat /\ panicked \in BOOLEAN
  /\ items \in Seq(Nat)
  /\ remaining = atFirst - Len(items) /\ remaining >= -1
  /\ panicked => diUsed = -1

LEMMA UsedIsNat ==
  ASSUME NEW s \in Seq(BOOLEAN)
  PROVE  Cardinality({i \in DOMAIN s : s[i]}) \in Nat
PROOF
  <1>1. DOMAIN s = 1..Len(s) /\ Len(s) \in Nat
    OBVIOUS
  <1>2. IsFiniteSet(1..Len(s))
    BY <1>1, FS_Interval
  <1>3. IsFiniteSet({i \in DOMAIN s : s[i]})
    BY <1>1, <1>2, FS_Subset
  <1> QED
    BY <1>3, FS_CardinalityType

LEMMA DictInitial == DictInit => DictInv
PROOF
  <1> SUFFICES ASSUME DictInit PROVE DictInv
    OBVIOUS
  <1>1. PICK n \in 0..MaxSlots : slots \in [1..n -> BOOLEAN]
    BY DEF DictInit
  <1>2. slots \in Seq(BOOLEAN)
    BY <1>1, DictAssumption
  <1>3. Used \in Nat
    BY <1>2, UsedIsNat DEF Used, Present
  <1>4. items \in Seq(Nat) /\ Len(items) = 0 /\ atFirst = Used /\ remaining = Used
        /\ diUsed = Used /\ panicked = FALSE /\ ppos = 0
    BY DEF DictInit
  <1>5. remaining = atFirst - Len(items) /\ remaining >= -1 /\ ppos \in Nat
        /\ diUsed \in Nat \cup {-1} /\ atFirst \in Nat
    BY <1>3, <1>4
  <1>6. panicked \in BOOLEAN /\ (panicked => diUsed = -1)
    BY <1>4
  <1> QED
    BY <1>2, <1>4, <1>5, <1>6 DEF DictInv

LEMMA DictStep ==
  ASSUME DictInv, [DictNext]_dictVars
  PROVE  DictInv' /\ Len(items') <= atFirst + 1 /\ (panicked => items' = items)
PROOF
  <1> USE DEF DictInv
  <1>0. Used \in Nat
    BY UsedIsNat DEF Used, Present
  <1>1. CASE Panic
    BY <1>1 DEF Panic
  <1>2. ASSUME NEW i \in DOMAIN slots, Yield(i)
        PROVE  DictInv' /\ Len(items') <= atFirst + 1 /\ (panicked => items' = items)
    <2>1. diUsed = Used /\ remaining # -1
      BY <1>2 DEF Yield, Refuses
    <2>2. ~panicked
      BY <2>1, <1>0
    <2>3. i \in Nat
      OBVIOUS
    <2>4. items' = Append(items, i) /\ remaining' = remaining - 1 /\ ppos' = i
          /\ UNCHANGED <<slots, diUsed, panicked, changed, atFirst>>
      BY <1>2 DEF Yield
    <2>5. items' \in Seq(Nat) /\ Len(items') = Len(items) + 1
      BY <2>3, <2>4, AppendedRange
    <2> QED
      BY <2>1, <2>2, <2>3, <2>4, <2>5
  <1>3. CASE Insert
    <2>1. slots' \in Seq(BOOLEAN)
      <3>1. Append(slots, TRUE) \in Seq(BOOLEAN)
        OBVIOUS
      <3>2. [i \in 1..Used + 1 |-> TRUE] \in Seq(BOOLEAN)
        BY <1>0
      <3> QED
        BY <1>3, <3>1, <3>2 DEF Insert
    <2>2. UNCHANGED <<ppos, diUsed, remaining, items, panicked, atFirst>>
      BY <1>3 DEF Insert
    <2> QED
      BY <2>1, <2>2
  <1>4. ASSUME NEW i \in DOMAIN slots, Delete(i)
        PROVE  DictInv' /\ Len(items') <= atFirst + 1 /\ (panicked => items' = items)
    <2>1. slots' \in Seq(BOOLEAN)
      BY <1>4 DEF Delete
    <2> QED
      BY <1>4, <2>1 DEF Delete
  <1>5. CASE UNCHANGED dictVars
    BY <1>5 DEF dictVars
  <1> QED
    BY <1>1, <1>2, <1>3, <1>4, <1>5 DEF DictNext

\* Whatever a loop does to the dict it iterates over, it ends: at most one item
\* more than the dict had comes, and none after a panic.
THEOREM DictIterationEnds == DictSpec => DictEnds
PROOF
  <1>1. DictInit => DictInv
    BY DictInitial
  <1>2. DictInv /\ [DictNext]_dictVars => DictInv'
    BY DictStep
  <1>3. DictInv /\ [DictNext]_dictVars =>
          [/\ Len(items') <= atFirst + 1
           /\ panicked => items' = items]_dictVars
    BY DictStep
  <1> QED
    BY <1>1, <1>2, <1>3, PTL DEF DictSpec, DictEnds

-------------------------------------------------------------------------------
LEMMA AheadIsFinite ==
  ASSUME DictInv
  PROVE  IsFiniteSet(Ahead) /\ Ahead \subseteq Present /\ Present \subseteq Nat
PROOF
  <1>1. DOMAIN slots = 1..Len(slots) /\ Len(slots) \in Nat
    BY DEF DictInv
  <1>2. IsFiniteSet(1..Len(slots))
    BY <1>1, FS_Interval
  <1>3. Ahead \subseteq Present /\ Present \subseteq 1..Len(slots)
    BY <1>1 DEF Ahead, Present
  <1>4. Ahead \subseteq 1..Len(slots) /\ Present \subseteq Nat
    BY <1>1, <1>3
  <1>5. IsFiniteSet(Ahead)
    BY <1>2, <1>4, FS_Subset
  <1> QED
    BY <1>3, <1>4, <1>5

LEMMA FaithfulInitially == DictInit => DictFaithful
PROOF
  <1> SUFFICES ASSUME DictInit PROVE DictFaithful
    OBVIOUS
  <1>1. DictInv
    BY DictInitial
  <1>2. Present \subseteq Nat \ {0}
    BY <1>1 DEF DictInv, Present
  <1>3. ppos = 0 /\ items = <<>> /\ remaining = Used
    BY DEF DictInit
  <1>4. Ahead = Present
    <2>1. \A i \in Present : i > ppos
      BY <1>2, <1>3
    <2> QED
      BY <2>1 DEF Ahead
  <1> QED
    BY <1>3, <1>4 DEF DictFaithful, Used

\* The entry that PyDict_Next finds is the next one: those before it have been
\* yielded or are no longer there.
LEMMA YieldIsFaithful ==
  ASSUME DictInv, DictFaithful, ~changed, NEW i \in DOMAIN slots, Yield(i)
  PROVE  DictFaithful'
PROOF
  <1>1. /\ i \in Ahead /\ \A j \in Ahead : i <= j
        /\ ppos' = i /\ remaining' = remaining - 1 /\ items' = Append(items, i)
        /\ slots' = slots
    BY DEF Yield
  <1>2. IsFiniteSet(Ahead) /\ Ahead \subseteq Present /\ Present \subseteq Nat
    BY AheadIsFinite
  <1>3. Present' = Present
    BY <1>1 DEF Present
  <1>4. Ahead' = {j \in Present : j > i}
    BY <1>1, <1>3 DEF Ahead
  <1>5. i > ppos /\ i \in Nat /\ ppos \in Nat
    BY <1>1, <1>2 DEF Ahead, DictInv
  <1>6. Ahead' = Ahead \ {i}
    <2>1. \A j \in Present : j \in Nat
      BY <1>2
    <2>2. \A j \in Ahead : j \in Present /\ i <= j /\ j \in Nat /\ (j > i <=> j # i)
      <3>1. \A j \in Ahead : j \in Present /\ i <= j
        BY <1>1, <1>2
      <3> QED
        BY <1>5, <2>1, <3>1
    <2>3. \A j \in Present : j > i => j \in Ahead
      BY <1>5, <2>1 DEF Ahead
    <2> QED
      BY <1>2, <1>4, <2>2, <2>3
  <1>7. Cardinality(Ahead') = Cardinality(Ahead) - 1
    BY <1>1, <1>2, <1>6, FS_RemoveElement
  <1>8. /\ items \in Seq(Nat) /\ DOMAIN items = 1..Len(items) /\ Len(items) \in Nat
        /\ \A k \in DOMAIN items : items'[k] = items[k]
        /\ items'[Len(items) + 1] = i
        /\ DOMAIN items' = 1..Len(items) + 1
    BY <1>1, <1>5, AppendedRange DEF DictInv
  <1>9. {items'[k] : k \in DOMAIN items'} = Present' \ Ahead'
    <2>1. {items'[k] : k \in DOMAIN items'} = {items[k] : k \in DOMAIN items} \cup {i}
      BY <1>8
    <2> QED
      BY <1>1, <1>2, <1>3, <1>6, <2>1 DEF DictFaithful
  <1>10. ASSUME NEW j \in DOMAIN items', NEW k \in DOMAIN items', j < k
         PROVE  items'[j] < items'[k]
    <2>1. j \in DOMAIN items
      BY <1>8, <1>10
    <2>2. items[j] \in Present \ Ahead
      BY <2>1 DEF DictFaithful
    <2>3. items[j] <= ppos /\ items[j] \in Nat
      <3>1. items[j] \in Present /\ items[j] \in Nat /\ ~(items[j] > ppos)
        BY <1>2, <2>2 DEF Ahead
      <3> QED
        BY <1>5, <3>1
    <2>4. CASE k \in DOMAIN items
      BY <1>8, <1>10, <2>1, <2>4 DEF DictFaithful
    <2>5. CASE k = Len(items) + 1
      BY <1>5, <1>8, <2>1, <2>3, <2>5
    <2> QED
      BY <1>8, <2>4, <2>5
  <1> QED
    BY <1>1, <1>7, <1>9, <1>10 DEF DictFaithful

\* An iterator over a dict of any size whose entries stay yields each of them
\* once, in their order, and counts those to come.
THEOREM DictIterationFaithful == DictSpec => []DictFaithful
PROOF
  <1>1. DictInit => DictInv /\ DictFaithful
    BY DictInitial, FaithfulInitially
  <1>2. DictInv /\ DictFaithful /\ [DictNext]_dictVars => (DictInv /\ DictFaithful)'
    <2> SUFFICES ASSUME DictInv, DictFaithful, [DictNext]_dictVars
                 PROVE  DictInv' /\ DictFaithful'
      OBVIOUS
    <2>1. DictInv'
      BY DictStep
    <2>2. ASSUME changed' = TRUE PROVE DictFaithful'
      BY <2>2 DEF DictFaithful
    <2>3. ASSUME Panic \/ UNCHANGED dictVars PROVE DictFaithful'
      <3>1. UNCHANGED <<slots, ppos, remaining, items, changed>>
        BY <2>3 DEF Panic, dictVars
      <3> QED
        BY <3>1 DEF DictFaithful, Ahead, Present
    <2>4. ASSUME NEW i \in DOMAIN slots, Yield(i) PROVE DictFaithful'
      <3>1. changed' = changed
        BY <2>4 DEF Yield
      <3>2. CASE ~changed
        BY <2>4, <3>2, YieldIsFaithful
      <3>3. CASE changed
        BY <3>1, <3>3 DEF DictFaithful
      <3> QED
        BY <3>2, <3>3
    <2>5. ASSUME Insert PROVE DictFaithful'
      BY <2>2, <2>5 DEF Insert
    <2>6. ASSUME NEW i \in DOMAIN slots, Delete(i) PROVE DictFaithful'
      BY <2>2, <2>6 DEF Delete
    <2> QED
      BY <2>1, <2>3, <2>4, <2>5, <2>6 DEF DictNext
  <1> QED
    BY <1>1, <1>2, PTL DEF DictSpec
===============================================================================
