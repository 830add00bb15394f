------------------------- MODULE TipDistanceProofs --------------------------
(***************************************************************************)
(* The tip distance controller is stable, for every window size and every  *)
(* distance: an entry causes at most one increase, and a decrease with a   *)
(* full window is followed by a window of responses without another one.   *)
(***************************************************************************)
EXTENDS TipDistance, FiniteSetTheorems, TLAPS

USE WindowAssumption, DistanceAssumption

\* The marker of the last decrease with a full window is still in the window, at
\* the place where as many responses as were counted have pushed it.
MarkerInv ==
    since < Window =>
        /\ Len(tip_distance_history) = Window
        /\ tip_distance_history[since + 1] = TRUE

IndInv == TypeOK /\ NoPendingIncrease /\ MarkerInv

-----------------------------------------------------------------------------
(***************************************************************************)
(* Windows and their entries                                               *)
(***************************************************************************)

\* What push_front does.
LEMMA PushFront ==
    ASSUME NEW s \in Seq(BOOLEAN), NEW x \in BOOLEAN
    PROVE  /\ <<x>> \o s \in Seq(BOOLEAN)
           /\ Len(<<x>> \o s) = Len(s) + 1
           /\ (<<x>> \o s)[1] = x
           /\ \A i \in 1..Len(s) : (<<x>> \o s)[i + 1] = s[i]
           /\ Tail(<<x>> \o s) = s
           /\ \A y \in BOOLEAN : FrontSet(<<x>> \o s, y) = <<y>> \o s
<1>1. /\ <<x>> \in Seq(BOOLEAN) /\ Len(<<x>>) = 1 /\ <<x>>[1] = x
  OBVIOUS
<1> DEFINE h == <<x>> \o s
<1>2. /\ h \in Seq(BOOLEAN) /\ Len(h) = Len(s) + 1
      /\ h[1] = x /\ \A i \in 1..Len(s) : h[i + 1] = s[i]
  BY <1>1
<1>3. Tail(h) = s
  <2> HIDE DEF h
  <2>1. Len(s) \in Nat /\ h # <<>>
    BY <1>2
  <2>2. /\ Tail(h) \in Seq(BOOLEAN) /\ Len(Tail(h)) = Len(s)
        /\ \A i \in 1..Len(s) : Tail(h)[i] = h[i + 1]
    BY <1>2, <2>1
  <2> QED
    BY <1>2, <2>1, <2>2
<1> QED
  BY <1>2, <1>3 DEF FrontSet

\* The entries of a window are finitely many.
LEMMA CountType ==
    ASSUME NEW s \in Seq(BOOLEAN)
    PROVE  /\ IsFiniteSet({i \in 1..Len(s) : s[i]})
           /\ ReorgsCount(s) \in Nat
<1>1. IsFiniteSet(1..Len(s))
  BY FS_Interval
<1>2. {i \in 1..Len(s) : s[i]} \in SUBSET (1..Len(s))
  OBVIOUS
<1>3. IsFiniteSet({i \in 1..Len(s) : s[i]})
  BY <1>1, <1>2, FS_Subset
<1> QED
  BY <1>3, FS_CardinalityType DEF ReorgsCount

\* A window counts no entries exactly when it has none.
LEMMA CountZero ==
    ASSUME NEW s \in Seq(BOOLEAN)
    PROVE  ReorgsCount(s) = 0 <=> \A i \in 1..Len(s) : ~s[i]
<1>1. ReorgsCount(s) = 0 <=> {i \in 1..Len(s) : s[i]} = {}
  BY CountType, FS_EmptySet DEF ReorgsCount
<1> QED
  BY <1>1

\* pop_back removes at most an entry.
LEMMA CountPrefix ==
    ASSUME NEW s \in Seq(BOOLEAN), NEW n \in 0..Len(s)
    PROVE  /\ SubSeq(s, 1, n) \in Seq(BOOLEAN)
           /\ Len(SubSeq(s, 1, n)) = n
           /\ \A i \in 1..n : SubSeq(s, 1, n)[i] = s[i]
           /\ ReorgsCount(SubSeq(s, 1, n)) <= ReorgsCount(s)
<1> DEFINE p == SubSeq(s, 1, n)
<1>1. p \in Seq(BOOLEAN) /\ Len(p) = n /\ \A i \in 1..n : p[i] = s[i]
  OBVIOUS
<1> HIDE DEF p
<1>2. {i \in 1..Len(p) : p[i]} \subseteq {i \in 1..Len(s) : s[i]}
  BY <1>1
<1>3. ReorgsCount(p) <= ReorgsCount(s)
  BY <1>2, CountType, FS_Subset DEF ReorgsCount
<1> QED
  BY <1>1, <1>3 DEF p

\* Pushing a FALSE adds no entry.
LEMMA CountPushFalse ==
    ASSUME NEW s \in Seq(BOOLEAN)
    PROVE  ReorgsCount(<<FALSE>> \o s) <= ReorgsCount(s)
<1> DEFINE h == <<FALSE>> \o s
           S == {i \in 1..Len(h) : h[i]}
           T == {i \in 1..Len(s) : s[i]}
           shift == [i \in S |-> i - 1]
<1>1. /\ h \in Seq(BOOLEAN) /\ Len(h) = Len(s) + 1 /\ h[1] = FALSE
      /\ \A i \in 1..Len(s) : h[i + 1] = s[i]
  BY PushFront
<1>2. IsFiniteSet(T)
  BY CountType
<1>3. \A i \in S : i \in Nat /\ i - 1 \in T
  <2> HIDE DEF h
  <2> SUFFICES ASSUME NEW i \in 1..Len(h), h[i]
               PROVE  i - 1 \in 1..Len(s) /\ s[i - 1]
    OBVIOUS
  <2>1. i # 1
    BY <1>1
  <2>2. i - 1 \in 1..Len(s)
    BY <1>1, <2>1
  <2>3. h[(i - 1) + 1] = s[i - 1]
    BY <1>1, <2>2
  <2>4. (i - 1) + 1 = i
    OBVIOUS
  <2> QED
    BY <2>2, <2>3, <2>4
<1>4. shift \in Injection(S, T)
  <2> HIDE DEF S, T
  <2>1. shift \in [S -> T]
    BY <1>3
  <2>2. \A i, j \in S : shift[i] = shift[j] => i = j
    BY <1>3
  <2> QED
    BY <2>1, <2>2 DEF Injection, IsInjective
<1>5. Cardinality(S) <= Cardinality(T)
  <2> HIDE DEF S, T, shift
  <2> QED
    BY <1>2, <1>4, FS_Injection
<1> QED
  BY <1>5 DEF ReorgsCount

\* A marker pushed on a window without entries is the only one.
LEMMA CountMarker ==
    ASSUME NEW s \in Seq(BOOLEAN), ReorgsCount(s) = 0
    PROVE  ReorgsCount(<<TRUE>> \o s) = 1
<1> DEFINE h == <<TRUE>> \o s
<1>1. /\ h \in Seq(BOOLEAN) /\ Len(h) = Len(s) + 1 /\ h[1] = TRUE
      /\ \A i \in 1..Len(s) : h[i + 1] = s[i]
  BY PushFront
<1>2. \A i \in 1..Len(s) : ~s[i]
  BY CountZero
<1>3. \A i \in 1..Len(h) : h[i] <=> i = 1
  <2> HIDE DEF h
  <2> SUFFICES ASSUME NEW i \in 1..Len(h), i # 1
               PROVE  ~h[i]
    BY <1>1
  <2>1. i - 1 \in 1..Len(s) /\ (i - 1) + 1 = i
    BY <1>1
  <2> QED
    BY <1>1, <1>2, <2>1
<1>4. {i \in 1..Len(h) : h[i]} = {1}
  <2>1. 1 \in 1..Len(h)
    BY <1>1
  <2> HIDE DEF h
  <2> QED
    BY <1>3, <2>1
<1> QED
  BY <1>4, FS_Singleton DEF ReorgsCount

-----------------------------------------------------------------------------
(***************************************************************************)
(* A response                                                              *)
(***************************************************************************)

\* What is kept of a window when a response is recorded.
Kept == IF Len(tip_distance_history) = Window
        THEN SubSeq(tip_distance_history, 1, Window - 1)
        ELSE tip_distance_history

\* A response is recorded before all but the oldest entry of a full window.
LEMMA KeptEntries ==
    ASSUME TypeOK
    PROVE  /\ Kept \in Seq(BOOLEAN) /\ Len(Kept) \in 0..(Window - 1)
           /\ ReorgsCount(Kept) <= ReorgsCount(tip_distance_history)
           /\ \A i \in 1..Len(Kept) : Kept[i] = tip_distance_history[i]
           /\ Len(tip_distance_history) = Window => Len(Kept) = Window - 1
           /\ \A has_reorg : Recorded(has_reorg) = <<has_reorg>> \o Kept
<1>1. /\ tip_distance_history \in Seq(BOOLEAN)
      /\ Len(tip_distance_history) \in Nat /\ Len(tip_distance_history) <= Window
  BY DEF TypeOK
<1>2. \A has_reorg : Recorded(has_reorg) = <<has_reorg>> \o Kept
  BY DEF Recorded, Kept
<1>3. CASE Len(tip_distance_history) = Window
  <2>1. Window - 1 \in 0..Len(tip_distance_history) /\ Window - 1 \in Nat
    BY <1>3
  <2>2. Kept = SubSeq(tip_distance_history, 1, Window - 1)
    BY <1>3 DEF Kept
  <2>3. /\ Kept \in Seq(BOOLEAN) /\ Len(Kept) = Window - 1
        /\ \A i \in 1..(Window - 1) : Kept[i] = tip_distance_history[i]
        /\ ReorgsCount(Kept) <= ReorgsCount(tip_distance_history)
    BY <1>1, <2>1, <2>2, CountPrefix
  <2> QED
    BY <1>2, <2>1, <2>3
<1>4. CASE Len(tip_distance_history) # Window
  <2>1. Kept = tip_distance_history
    BY <1>4 DEF Kept
  <2>2. ReorgsCount(tip_distance_history) \in Nat
    BY <1>1, CountType
  <2> QED
    BY <1>1, <1>2, <1>4, <2>1, <2>2
<1> QED
  BY <1>3, <1>4

\* As long as the marker is inside the window, no response finds it empty.
LEMMA MarkerPreventsDecrease ==
    ASSUME IndInv, NEW has_reorg \in BOOLEAN, NEW short,
           MayDecrease(Recorded(has_reorg), short)
    PROVE  since >= Window - 1
<1> SUFFICES ASSUME ~(since >= Window - 1)
             PROVE  FALSE
  OBVIOUS
<1> DEFINE h == <<has_reorg>> \o Kept
<1>1. TypeOK /\ MarkerInv /\ since \in Nat /\ since < Window - 1
  BY DEF IndInv, TypeOK
<1>2. /\ Len(tip_distance_history) = Window
      /\ tip_distance_history[since + 1] = TRUE
  BY <1>1 DEF MarkerInv
<1>3. Kept \in Seq(BOOLEAN) /\ Len(Kept) = Window - 1 /\ Recorded(has_reorg) = h
      /\ \A i \in 1..Len(Kept) : Kept[i] = tip_distance_history[i]
  BY <1>1, <1>2, KeptEntries
<1>4. since + 1 \in 1..Len(Kept)
  BY <1>1, <1>3
<1>5. /\ h \in Seq(BOOLEAN) /\ Len(h) = Len(Kept) + 1
      /\ \A i \in 1..Len(Kept) : h[i + 1] = Kept[i]
  BY <1>3, PushFront
<1> HIDE DEF h
<1>6. h[(since + 1) + 1] = TRUE
  BY <1>2, <1>3, <1>4, <1>5
<1>7. ReorgsCount(h) = 0
  BY <1>3 DEF MayDecrease
<1>8. (since + 1) + 1 \in 1..Len(h)
  BY <1>3, <1>4, <1>5
<1> QED
  BY <1>5, <1>6, <1>7, <1>8, CountZero

\* The marker moves by one place, as the count of responses does.
LEMMA MarkerMoves ==
    ASSUME IndInv, NEW x \in BOOLEAN, since' = Counted,
           tip_distance_history' = <<x>> \o Kept
    PROVE  MarkerInv' /\ since' \in 0..Window
<1>1. TypeOK /\ MarkerInv /\ since \in 0..Window /\ since \in Nat
  BY DEF IndInv, TypeOK
<1>2. since' \in 0..Window
  BY <1>1 DEF Counted
<1>3. ASSUME since' < Window
      PROVE  /\ Len(tip_distance_history') = Window
             /\ tip_distance_history'[since' + 1] = TRUE
  <2>1. since < Window - 1 /\ since' = since + 1
    BY <1>1, <1>3 DEF Counted
  <2>2. /\ Len(tip_distance_history) = Window
        /\ tip_distance_history[since + 1] = TRUE
    BY <1>1, <2>1 DEF MarkerInv
  <2>3. Kept \in Seq(BOOLEAN) /\ Len(Kept) = Window - 1
        /\ \A i \in 1..Len(Kept) : Kept[i] = tip_distance_history[i]
    BY <1>1, <2>2, KeptEntries
  <2>4. /\ Len(tip_distance_history') = Len(Kept) + 1
        /\ \A i \in 1..Len(Kept) : tip_distance_history'[i + 1] = Kept[i]
    BY <2>3, PushFront
  <2>5. since + 1 \in 1..Len(Kept)
    BY <1>1, <2>1, <2>3
  <2> QED
    BY <2>1, <2>2, <2>3, <2>4, <2>5
<1> QED
  BY <1>2, <1>3 DEF MarkerInv

\* The initial state satisfies the invariant.
LEMMA InitIndInv == Init => IndInv
<1> SUFFICES ASSUME Init PROVE IndInv
  OBVIOUS
<1>1. TypeOK
  BY DEF Init, TypeOK
<1>2. ReorgsCount(<<>>) = 0
  <2>1. {i \in 1..Len(<<>>) : <<>>[i]} = {}
    OBVIOUS
  <2> QED
    BY <2>1, FS_EmptySet DEF ReorgsCount
<1>3. NoPendingIncrease
  BY <1>2 DEF Init, NoPendingIncrease
<1>4. MarkerInv
  BY DEF Init, MarkerInv
<1> QED
  BY <1>1, <1>3, <1>4 DEF IndInv

\* A response preserves the invariant, whatever it changes.
LEMMA RespondInv ==
    ASSUME IndInv, NEW has_reorg \in BOOLEAN, NEW short \in BOOLEAN,
           Respond(has_reorg, short)
    PROVE  IndInv'
<1> DEFINE h == Recorded(has_reorg)
<1>1. TypeOK /\ NoPendingIncrease /\ MarkerInv
      /\ tip_distance \in Nat /\ since \in 0..Window
  BY DEF IndInv, TypeOK
<1>2. /\ h = <<has_reorg>> \o Kept
      /\ Kept \in Seq(BOOLEAN) /\ Len(Kept) \in 0..(Window - 1)
      /\ ReorgsCount(Kept) <= ReorgsCount(tip_distance_history)
      /\ Len(tip_distance_history) = Window => Len(Kept) = Window - 1
  BY <1>1, KeptEntries
<1>3. ReorgsCount(Kept) \in Nat /\ ReorgsCount(Kept) <= 2
  <2>1. ReorgsCount(tip_distance_history) \in Nat
    BY <1>1, CountType DEF TypeOK
  <2>2. ReorgsCount(Kept) \in Nat
    BY <1>2, CountType
  <2> QED
    BY <1>1, <1>2, <2>1, <2>2 DEF NoPendingIncrease
<1>4. \A x \in BOOLEAN : /\ <<x>> \o Kept \in Seq(BOOLEAN)
                         /\ Len(<<x>> \o Kept) = Len(Kept) + 1
                         /\ (<<x>> \o Kept)[1] = x
                         /\ FrontSet(h, x) = <<x>> \o Kept
  <2> HIDE DEF h
  <2> TAKE x \in BOOLEAN
  <2>1. /\ <<x>> \o Kept \in Seq(BOOLEAN)
        /\ Len(<<x>> \o Kept) = Len(Kept) + 1
        /\ (<<x>> \o Kept)[1] = x
    BY <1>2, PushFront
  <2>2. \A y \in BOOLEAN : FrontSet(<<has_reorg>> \o Kept, y) = <<y>> \o Kept
    BY <1>2, PushFront
  <2> QED
    BY <1>2, <2>1, <2>2
<1>5. h \in Seq(BOOLEAN) /\ Len(h) = Len(Kept) + 1 /\ ReorgsCount(h) \in Nat
  BY <1>2, <1>4, CountType
<1> HIDE DEF h
<1>6. CASE Increase(h)
  <2>1. /\ tip_distance' = tip_distance + 1 /\ tip_distance < MaxDistance
        /\ tip_distance_history' = <<FALSE>> \o Kept /\ since' = Counted
    BY <1>4, <1>6 DEF Increase
  <2>2. MarkerInv' /\ since' \in 0..Window
    BY <2>1, MarkerMoves
  <2>3. ReorgsCount(<<FALSE>> \o Kept) \in Nat
    BY <1>4, CountType
  <2>4. NoPendingIncrease'
    <3>1. ReorgsCount(<<FALSE>> \o Kept) <= ReorgsCount(Kept)
      BY <1>2, CountPushFalse
    <3> QED
      BY <1>3, <2>1, <2>3, <3>1 DEF NoPendingIncrease
  <2>5. tip_distance_history' \in Seq(BOOLEAN)
        /\ Len(tip_distance_history') <= Window
    BY <1>2, <1>4, <2>1
  <2> QED
    BY <1>1, <2>1, <2>2, <2>4, <2>5 DEF IndInv, TypeOK
<1>7. CASE Keep(h, short)
  <2>1. /\ tip_distance' = tip_distance /\ ReorgsCount(h) < 3
        /\ tip_distance_history' = h /\ since' = Counted
    BY <1>7 DEF Keep
  <2>2. MarkerInv' /\ since' \in 0..Window
    BY <1>2, <2>1, MarkerMoves
  <2>3. NoPendingIncrease'
    BY <1>5, <2>1 DEF NoPendingIncrease
  <2> QED
    BY <1>1, <1>2, <1>5, <2>1, <2>2, <2>3 DEF IndInv, TypeOK
<1>8. CASE Decrease(h, short)
  <2>1. /\ ReorgsCount(h) = 0 /\ tip_distance > 0
        /\ tip_distance' = tip_distance - 1
        /\ since' = IF Len(h) = Window THEN 0 ELSE since
    BY <1>8 DEF Decrease, MayDecrease
  <2>2. CASE Len(h) = Window
    <3>1. tip_distance_history' = <<TRUE>> \o Kept /\ since' = 0
      BY <1>4, <1>8, <2>2 DEF Decrease
    <3>2. \A i \in 1..Len(Kept) : ~Kept[i]
      <4>1. \A i \in 1..Len(h) : ~h[i]
        BY <1>5, <2>1, CountZero
      <4>2. \A i \in 1..Len(Kept) : h[i + 1] = Kept[i]
        BY <1>2, PushFront
      <4>3. \A i \in 1..Len(Kept) : i + 1 \in 1..Len(h)
        BY <1>2, <1>5
      <4> QED
        BY <4>1, <4>2, <4>3
    <3>3. ReorgsCount(<<TRUE>> \o Kept) = 1
      BY <1>2, <3>2, CountZero, CountMarker
    <3>4. NoPendingIncrease'
      BY <3>1, <3>3 DEF NoPendingIncrease
    <3>5. MarkerInv'
      BY <1>4, <1>5, <2>2, <3>1 DEF MarkerInv
    <3>6. tip_distance_history' \in Seq(BOOLEAN)
          /\ Len(tip_distance_history') <= Window
      BY <1>2, <1>4, <3>1
    <3> QED
      BY <1>1, <2>1, <3>1, <3>4, <3>5, <3>6 DEF IndInv, TypeOK
  <2>3. CASE Len(h) # Window
    <3>1. tip_distance_history' = h /\ since' = since
      BY <1>8, <2>3 DEF Decrease
    <3>2. Len(tip_distance_history) # Window
      BY <1>2, <1>5, <2>3
    <3>3. MarkerInv'
      BY <1>1, <3>1, <3>2 DEF MarkerInv
    <3>4. NoPendingIncrease'
      BY <2>1, <3>1 DEF NoPendingIncrease
    <3> QED
      BY <1>1, <1>2, <1>5, <2>1, <3>1, <3>3, <3>4 DEF IndInv, TypeOK
  <2> QED
    BY <2>2, <2>3
<1> QED
  BY <1>6, <1>7, <1>8 DEF Respond, h

\* Every step preserves the invariant.
LEMMA NextIndInv == IndInv /\ [Next]_vars => IndInv'
<1>1. IndInv /\ UNCHANGED vars => IndInv'
  BY DEF IndInv, TypeOK, NoPendingIncrease, MarkerInv, vars
<1> QED
  BY <1>1, RespondInv DEF Next

-----------------------------------------------------------------------------
(***************************************************************************)
(* The theorems                                                            *)
(***************************************************************************)

\* The distance and the window of process_virtual_chain stay within their bounds.
THEOREM DistanceTypeCorrect == Spec => []TypeOK
<1>1. IndInv => TypeOK
  BY DEF IndInv
<1> QED
  BY <1>1, InitIndInv, NextIndInv, PTL DEF Spec

\* No response leaves the window with what causes an increase: the processor moves
\* away from the tip only on a response that itself deleted acceptances.
THEOREM NoIncreasePending == Spec => []NoPendingIncrease
<1>1. IndInv => NoPendingIncrease
  BY DEF IndInv
<1> QED
  BY <1>1, InitIndInv, NextIndInv, PTL DEF Spec

\* "Make sure we don't decrease distance again until a complete window has
\* passed", for every window size.
THEOREM DecreasesAreSpaced == Spec => DecreasesSpaced
<1>1. ASSUME IndInv, [Next]_vars
      PROVE  [tip_distance' < tip_distance => since >= Window - 1]_vars
  <2> SUFFICES ASSUME tip_distance' < tip_distance
               PROVE  since >= Window - 1
    OBVIOUS
  <2>1. tip_distance \in Nat
    BY <1>1 DEF IndInv, TypeOK
  <2>2. PICK has_reorg, short \in BOOLEAN : Respond(has_reorg, short)
    BY <1>1, <2>1 DEF Next, vars
  <2>3. Decrease(Recorded(has_reorg), short)
    <3>1. \/ Increase(Recorded(has_reorg)) \/ Decrease(Recorded(has_reorg), short)
          \/ Keep(Recorded(has_reorg), short)
      BY <2>2, Zenon DEF Respond
    <3>2. Increase(Recorded(has_reorg)) => tip_distance' = tip_distance + 1
      BY DEF Increase
    <3>3. Keep(Recorded(has_reorg), short) => tip_distance' = tip_distance
      BY DEF Keep
    <3>4. tip_distance' # tip_distance + 1 /\ tip_distance' # tip_distance
      BY <2>1
    <3> QED
      BY <3>1, <3>2, <3>3, <3>4, Zenon
  <2> QED
    BY <1>1, <2>3, MarkerPreventsDecrease DEF Decrease
<1>2. Spec => []IndInv
  BY InitIndInv, NextIndInv, PTL DEF Spec
<1> QED
  BY <1>1, <1>2, PTL DEF Spec, DecreasesSpaced

=============================================================================
