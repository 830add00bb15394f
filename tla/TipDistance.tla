---------------------------- MODULE TipDistance ----------------------------
(***************************************************************************)
(* The tip distance controller of process_virtual_chain.  Each response is *)
(* recorded in a window (newest first) as one that deleted acceptances or  *)
(* not.  Three entries make the processor keep one block further from the  *)
(* tip; a window without any lets it come one block closer.  An entry is   *)
(* rewritten after each change, so that the same entries do not cause the  *)
(* next one.                                                               *)
(***************************************************************************)
EXTENDS Naturals, Sequences, FiniteSets

CONSTANTS
    Window,           \* tip_distance_window, at least 1
    InitialDistance,  \* 10
    MaxDistance       \* bound: distances the model explores

ASSUME WindowAssumption == Window \in Nat \ {0}

ASSUME DistanceAssumption ==
    /\ InitialDistance \in Nat
    /\ MaxDistance \in Nat
    /\ InitialDistance <= MaxDistance

VARIABLES
    tip_distance,
    tip_distance_history,
    since     \* history: responses since the last decrease with a full window

vars == <<tip_distance, tip_distance_history, since>>

ReorgsCount(h) == Cardinality({i \in 1..Len(h) : h[i]})

\* pop_back on a full window, then push_front.
Recorded(has_reorg) ==
    <<has_reorg>> \o (IF Len(tip_distance_history) = Window
                      THEN SubSeq(tip_distance_history, 1, Window - 1)
                      ELSE tip_distance_history)

\* pop_front, push_front.
FrontSet(h, entry) == <<entry>> \o Tail(h)

Init ==
    /\ tip_distance = InitialDistance
    /\ tip_distance_history = <<>>
    /\ since = Window

Counted == IF since < Window THEN since + 1 ELSE since

\* Faulty: the entry is kept after an increase.
IncreaseKeepsEntry(h) ==
    /\ ReorgsCount(h) >= 3
    /\ tip_distance < MaxDistance
    /\ tip_distance' = tip_distance + 1
    /\ tip_distance_history' = h
    /\ since' = Counted

\* "Increase distance if new reorgs occur within the window"
Increase(h) ==
    /\ ReorgsCount(h) >= 3
    /\ tip_distance < MaxDistance
    /\ tip_distance' = tip_distance + 1
    /\ tip_distance_history' = FrontSet(h, FALSE)
    /\ since' = Counted

\* Faulty: stops one block short of the tip.
MayDecreaseToOne(h, short) == short /\ ReorgsCount(h) = 0 /\ tip_distance > 1

\* Fewer than 200 added blocks and no entry: the processor is near the tip.
MayDecrease(h, short) == short /\ ReorgsCount(h) = 0 /\ tip_distance > 0

\* Faulty: no marker is left behind.
DecreaseUnmarked(h, short) ==
    /\ MayDecrease(h, short)
    /\ tip_distance' = tip_distance - 1
    /\ tip_distance_history' = h
    /\ since' = IF Len(h) = Window THEN 0 ELSE since

\* The newest entry of a full window becomes a marker.
Decrease(h, short) ==
    /\ MayDecrease(h, short)
    /\ tip_distance' = tip_distance - 1
    /\ tip_distance_history' = IF Len(h) = Window THEN FrontSet(h, TRUE) ELSE h
    /\ since' = IF Len(h) = Window THEN 0 ELSE since

Keep(h, short) ==
    /\ ReorgsCount(h) < 3
    /\ ~MayDecrease(h, short)
    /\ tip_distance_history' = h
    /\ since' = Counted
    /\ UNCHANGED tip_distance

\* One response: has_reorg when rows were deleted, short when it added fewer
\* than 200 chain blocks.
Respond(has_reorg, short) ==
    LET h == Recorded(has_reorg)
    IN  Increase(h) \/ Decrease(h, short) \/ Keep(h, short)

Next == \E has_reorg, short \in BOOLEAN : Respond(has_reorg, short)

Spec == Init /\ [][Next]_vars

\* Near the tip short responses without a reorganisation keep coming.
FairSpec == Spec /\ WF_vars(Respond(FALSE, TRUE))

-----------------------------------------------------------------------------
(***************************************************************************)
(* Properties                                                              *)
(***************************************************************************)

\* Every variable has its type; the window never outgrows its size.
TypeOK ==
    /\ tip_distance \in 0..MaxDistance
    /\ tip_distance_history \in Seq(BOOLEAN)
    /\ Len(tip_distance_history) <= Window
    /\ since \in 0..Window

\* After each response the window holds less than what causes an increase: only
\* a response that itself deleted acceptances can move the processor away from
\* the tip.  (process_virtual_chain)
NoPendingIncrease == ReorgsCount(tip_distance_history) <= 2

\* "Make sure we don't decrease distance again until a complete window has
\* passed": two decreases in a full window are at least Window responses apart.
DecreasesSpaced ==
    [][tip_distance' < tip_distance => since >= Window - 1]_vars

\* Once reorganisations stop, the processor ends up at the tip.
ComesCloser ==
    <>[][\E short \in BOOLEAN : Respond(FALSE, short)]_vars
        => <>[](tip_distance = 0)

=============================================================================
