-------------------------- MODULE HandBreakProofs --------------------------
(***************************************************************************)
(* The break between hands, for every length of the break and of its      *)
(* extensions, any number of seats and any number of hands.                *)
(***************************************************************************)
EXTENDS HandBreak, FiniteSetTheorems, TLAPS

\* What is left of the break is covered by the break itself and by the seats
\* counted as having extended it; and the broadcast is armed for its end.
Accounted ==
  /\ IsFiniteSet(extensions)
  /\ Cardinality(extensions) <= MaxExtensions
  /\ breakLeft <= BreakLength + Extension * Cardinality(extensions)

Armed == breakLeft > 0 => announceIn = breakLeft

IInv == TypeOK /\ Accounted /\ Armed /\ BreakEndIsAnnounced

-----------------------------------------------------------------------------
\* One more seat pays for one more extension.
LEMMA OneMore ==
  ASSUME NEW c \in Nat
  PROVE  Extension * (c + 1) = Extension * c + Extension
BY BreakAssumption

LEMMA AtMostMax ==
  ASSUME NEW c \in Nat, c <= MaxExtensions
  PROVE  Extension * c <= Extension * MaxExtensions
<1>1. PICK d \in Nat : MaxExtensions = c + d
  <2>1. MaxExtensions - c \in Nat /\ MaxExtensions = c + (MaxExtensions - c)
    BY BreakAssumption
  <2>. QED
    BY <2>1
<1>2. Extension * (c + d) = Extension * c + Extension * d
  BY BreakAssumption
<1>3. Extension * d \in Nat /\ Extension * c \in Nat
  BY BreakAssumption
<1>. QED
  BY <1>1, <1>2, <1>3

\* What a broadcast shows is never seats to deal to without the end of the break.
LEMMA BroadcastTells ==
  ASSUME Broadcast
  PROVE  BreakEndIsAnnounced'
<1>. SUFFICES ASSUME phase' = "hand-complete", breakLeft' = 0, seatsTold', ~told'
              PROVE  FALSE
  BY DEF BreakEndIsAnnounced
<1>1. told' = CanStartHand' /\ seatsTold' = ready'
  BY DEF Broadcast
<1>2. ready'
  BY <1>1
<1>3. phase' # "in-hand"
  OBVIOUS
<1>4. CanStartHand'
  BY <1>2, <1>3 DEF CanStartHand
<1>. QED
  BY <1>1, <1>4

\* A hand that is dealt leaves no break and nothing counted.
LEMMA StartNextHandKeeps ==
  ASSUME IInv, NEW by \in Askers \cup {NobodyAsked}, StartNextHand(by),
         queuedIn' \in Timers, queuedBy' \in Askers \cup {NobodyAsked}
  PROVE  IInv'
<1>1. TypeOK'
  BY BreakAssumption DEF IInv, TypeOK, StartNextHand, Broadcast, CanStartHand, storeVars, Timers
<1>2. IsFiniteSet({}) /\ Cardinality({}) = 0
  BY FS_EmptySet
<1>3. Extension * 0 = 0
  BY BreakAssumption
<1>4. Accounted'
  BY <1>2, <1>3, BreakAssumption DEF StartNextHand, Accounted
<1>5. Armed' /\ BreakEndIsAnnounced'
  BY BroadcastTells DEF StartNextHand, Armed
<1>. QED
  BY <1>1, <1>4, <1>5 DEF IInv

LEMMA DealKeeps ==
  ASSUME IInv, NEW by \in Askers \cup {NobodyAsked}, Deal(by),
         queuedIn' \in Timers, queuedBy' \in Askers \cup {NobodyAsked}
  PROVE  IInv'
<1>1. CASE StartNextHand(by)
  BY <1>1, StartNextHandKeeps
<1>2. CASE /\ ready' = FALSE
           /\ UNCHANGED <<phase, hand, gameStarted, timeUp, breakVars, showVars, toldVars,
                          telling, dealtBy, storeVars>>
  <2>1. TypeOK'
    BY <1>2 DEF IInv, TypeOK, breakVars, showVars, toldVars, storeVars, Timers
  <2>2. Accounted' /\ Armed' /\ BreakEndIsAnnounced'
    BY <1>2 DEF IInv, Accounted, Armed, BreakEndIsAnnounced, breakVars, toldVars
  <2>. QED
    BY <2>1, <2>2 DEF IInv
<1>. QED
  BY <1>1, <1>2 DEF Deal

LEMMA ExtendKeeps ==
  ASSUME IInv, NEW s \in Seats, NEW evenIfOver \in BOOLEAN,
         ExtendBreakForReveal(s, evenIfOver)
  PROVE  /\ Accounted' /\ Armed'
         /\ extensions' \subseteq Seats /\ breakLeft' \in Nat /\ announceIn' \in Timers
<1>1. CASE MayExtend(s, evenIfOver)
  <2>1. /\ extensions' = extensions \cup {s}
        /\ breakLeft' = breakLeft + Extension
        /\ announceIn' = breakLeft + Extension
    BY <1>1 DEF ExtendBreakForReveal, Rearm
  <2>2. s \notin extensions /\ Cardinality(extensions) < MaxExtensions
    BY <1>1 DEF MayExtend
  <2>3. /\ IsFiniteSet(extensions')
        /\ Cardinality(extensions') = Cardinality(extensions) + 1
    BY <2>1, <2>2, FS_AddElement DEF IInv, Accounted
  <2>4. Cardinality(extensions) \in Nat
    BY FS_CardinalityType DEF IInv, Accounted
  <2>5. Extension * (Cardinality(extensions) + 1) = Extension * Cardinality(extensions) + Extension
    BY <2>4, OneMore
  <2>6. Extension * Cardinality(extensions) \in Nat
    BY <2>4, BreakAssumption
  <2>7. breakLeft + Extension <= BreakLength + Extension * Cardinality(extensions')
    BY <2>3, <2>5, <2>6, BreakAssumption DEF IInv, TypeOK, Accounted
  <2>8. Accounted'
    BY <2>1, <2>2, <2>3, <2>4, <2>7, BreakAssumption DEF Accounted
  <2>. QED
    BY <2>1, <2>8, BreakAssumption DEF Armed, IInv, TypeOK, Timers
<1>2. CASE ~MayExtend(s, evenIfOver)
  BY <1>2 DEF ExtendBreakForReveal, breakVars, Accounted, Armed, IInv, TypeOK
<1>. QED
  BY <1>1, <1>2

LEMMA IInvInit == Init => IInv
<1>. SUFFICES ASSUME Init PROVE IInv
  OBVIOUS
<1>1. IsFiniteSet({}) /\ Cardinality({}) = 0
  BY FS_EmptySet
<1>2. Accounted
  BY <1>1, AtMostMax, BreakAssumption DEF Init, Accounted
<1>3. TypeOK
  BY DEF Init, TypeOK, Timers
<1>4. Armed /\ BreakEndIsAnnounced
  BY DEF Init, Armed, BreakEndIsAnnounced, CanStartHand
<1>. QED
  BY <1>2, <1>3, <1>4 DEF IInv

LEMMA IInvNext == IInv /\ [Next]_vars => IInv'
<1>. SUFFICES ASSUME IInv, [Next]_vars PROVE IInv'
  OBVIOUS
<1>. USE DEF IInv
<1>1. ASSUME NEW by \in Askers, PlayHand(by) PROVE IInv'
  BY <1>1, DealKeeps DEF PlayHand, queueVars, TypeOK
<1>2. ASSUME NEW by \in Askers, QueueStart(by) PROVE IInv'
  BY <1>2 DEF QueueStart, breakVars, showVars, toldVars, storeVars, TypeOK, Accounted, Armed,
              BreakEndIsAnnounced, Timers
<1>3. CASE QueuedStartFires
  <2>1. queuedIn' \in Timers /\ queuedBy' \in Askers \cup {NobodyAsked}
    BY <1>3 DEF QueuedStartFires, Timers
  <2>2. CASE Deal(queuedBy)
    BY <2>1, <2>2, DealKeeps DEF TypeOK
  <2>3. CASE UNCHANGED <<phase, hand, gameStarted, ready, timeUp, breakVars, showVars,
                         toldVars, telling, dealtBy, storeVars>>
    <3>1. TypeOK'
      BY <2>1, <2>3 DEF TypeOK, breakVars, showVars, toldVars, storeVars
    <3>2. Accounted' /\ Armed' /\ BreakEndIsAnnounced'
      BY <2>3 DEF Accounted, Armed, BreakEndIsAnnounced, breakVars, toldVars
    <3>. QED
      BY <3>1, <3>2
  <2>. QED
    BY <1>3, <2>2, <2>3 DEF QueuedStartFires
<1>4. ASSUME NEW w \in Seats \cup {NoSeat}, HandEnds(w) PROVE IInv'
  <2>1. breakLeft' = BreakLength /\ announceIn' = BreakLength /\ extensions' = extensions
    BY <1>4 DEF HandEnds, Rearm
  <2>2. settling' \subseteq Nat /\ stored' \subseteq [hand : Nat, deck : Nat]
    <3>1. hand \in Nat /\ StoredAs(hand) \in [hand : Nat, deck : Nat]
      BY DEF StoredAs, TypeOK
    <3>2. SettleHand
      BY <1>4 DEF HandEnds
    <3>3. settling \subseteq Nat /\ stored \subseteq [hand : Nat, deck : Nat]
      BY DEF TypeOK
    <3>. QED
      BY <3>1, <3>2, <3>3 DEF SettleHand
  <2>3. TypeOK'
    BY <1>4, <2>1, <2>2, BreakAssumption
    DEF HandEnds, Broadcast, CanStartHand, queueVars, TypeOK, Timers
  <2>4. Extension * Cardinality(extensions) \in Nat
    BY FS_CardinalityType, BreakAssumption DEF Accounted
  <2>5. Accounted'
    BY <2>1, <2>4, BreakAssumption DEF Accounted
  <2>6. Armed' /\ BreakEndIsAnnounced'
    BY <1>4, <2>1, BroadcastTells DEF HandEnds, Armed
  <2>. QED
    BY <2>3, <2>5, <2>6
<1>5. ASSUME NEW h \in settling, RecordHand(h) PROVE IInv'
  BY <1>5 DEF RecordHand, StoredAs, breakVars, queueVars, showVars, toldVars, TypeOK,
              Accounted, Armed, BreakEndIsAnnounced
<1>6. ASSUME NEW s \in Seats, RevealHand(s) PROVE IInv'
  <2>1. /\ Accounted' /\ Armed'
        /\ extensions' \subseteq Seats /\ breakLeft' \in Nat /\ announceIn' \in Timers
    BY <1>6, ExtendKeeps DEF RevealHand
  <2>2. TypeOK' /\ BreakEndIsAnnounced'
    BY <1>6, <2>1 DEF RevealHand, Broadcast, CanStartHand, BreakEndIsAnnounced, queueVars,
                      storeVars, TypeOK
  <2>. QED
    BY <2>1, <2>2
<1>7. ASSUME NEW s \in Seats, ShowCard(s) PROVE IInv'
  <2>1. /\ Accounted' /\ Armed'
        /\ extensions' \subseteq Seats /\ breakLeft' \in Nat /\ announceIn' \in Timers
    BY <1>7, ExtendKeeps DEF ShowCard
  <2>2. TypeOK' /\ BreakEndIsAnnounced'
    BY <1>7, <2>1 DEF ShowCard, Broadcast, CanStartHand, BreakEndIsAnnounced, queueVars,
                      showVars, storeVars, TypeOK
  <2>. QED
    BY <2>1, <2>2
<1>8. CASE SeatsChange
  BY <1>8 DEF SeatsChange, Broadcast, CanStartHand, BreakEndIsAnnounced, Accounted, Armed,
              breakVars, queueVars, showVars, storeVars, TypeOK
<1>9. CASE ResetTable
  <2>1. Extension * Cardinality(extensions) \in Nat
    BY FS_CardinalityType, BreakAssumption DEF Accounted
  <2>2. /\ breakLeft' = 0 /\ extensions' = extensions /\ phase' = "waiting"
    BY <1>9 DEF ResetTable
  <2>3. Accounted'
    BY <2>1, <2>2, BreakAssumption DEF Accounted
  <2>4. Armed' /\ BreakEndIsAnnounced'
    BY <2>2 DEF Armed, BreakEndIsAnnounced
  <2>5. gameStarted' = FALSE /\ ready' = FALSE /\ announceIn' = Unarmed
    BY <1>9 DEF ResetTable
  <2>6. telling' \in Nat
    BY <1>9 DEF ResetTable, TypeOK
  <2>7. /\ hand' = hand /\ timeUp' = timeUp /\ told' = told /\ seatsTold' = seatsTold
        /\ queuedIn' = queuedIn /\ queuedBy' = queuedBy /\ dealtBy' = dealtBy
        /\ foldWinSeat' = foldWinSeat /\ revealed' = revealed
        /\ settling' = settling /\ stored' = stored
    BY <1>9 DEF ResetTable, queueVars, showVars, toldVars, storeVars
  <2>8. TypeOK'
    BY <2>2, <2>5, <2>6, <2>7 DEF TypeOK, Timers
  <2>. QED
    BY <2>3, <2>4, <2>8
<1>10. CASE TimerChanges
  BY <1>10 DEF TimerChanges, BreakEndIsAnnounced, Accounted, Armed,
               breakVars, queueVars, showVars, toldVars, storeVars, TypeOK
<1>11. CASE AnnounceBreakEnd
  BY <1>11, BreakAssumption
  DEF AnnounceBreakEnd, Broadcast, CanStartHand, BreakEndIsAnnounced, Accounted, Armed,
      queueVars, showVars, storeVars, TypeOK, Timers
<1>12. CASE Tick
  <2>. DEFINE Later(l) == Earlier(l) \in Timers /\ (l \in Nat => Earlier(l) \in Nat /\ Earlier(l) <= l)
  <2>0. ASSUME NEW l \in Timers PROVE Later(l)
    BY BreakAssumption DEF Earlier, Timers
  <2>1. /\ breakLeft' \in Nat /\ breakLeft' <= breakLeft
        /\ announceIn' \in Timers /\ queuedIn' \in Timers
    <3>1. breakLeft \in Nat /\ breakLeft \in Timers /\ announceIn \in Timers /\ queuedIn \in Timers
      BY DEF TypeOK, Timers
    <3>2. /\ breakLeft' = Earlier(breakLeft) /\ announceIn' = Earlier(announceIn)
          /\ queuedIn' = Earlier(queuedIn)
      BY <1>12 DEF Tick
    <3>. QED
      BY <2>0, <3>1, <3>2
  <2>2. Extension * Cardinality(extensions) \in Nat
    BY FS_CardinalityType, BreakAssumption DEF Accounted
  <2>3. Accounted'
    BY <1>12, <2>1, <2>2, BreakAssumption DEF Tick, Accounted, TypeOK
  <2>4. Armed' /\ BreakEndIsAnnounced'
    <3>1. breakLeft \in Nat /\ breakLeft' = Earlier(breakLeft) /\ announceIn' = Earlier(announceIn)
      BY <1>12 DEF Tick, TypeOK
    <3>2. breakLeft # Unarmed
      BY <3>1, BreakAssumption
    <3>3. CASE breakLeft = 0
      <4>1. breakLeft' = 0
        BY <3>1, <3>3 DEF Earlier
      <4>2. announceIn = 0 => announceIn' = 0
        BY <3>1 DEF Earlier
      <4>. QED
        BY <1>12, <3>3, <4>1, <4>2 DEF Tick, toldVars, Armed, BreakEndIsAnnounced
    <3>4. CASE breakLeft > 0
      <4>1. announceIn' = breakLeft'
        BY <3>1, <3>4 DEF Armed
      <4>. QED
        BY <4>1 DEF Armed, BreakEndIsAnnounced
    <3>. QED
      BY <3>1, <3>3, <3>4
  <2>5. TypeOK'
    BY <1>12, <2>1 DEF Tick, showVars, toldVars, storeVars, TypeOK
  <2>. QED
    BY <2>3, <2>4, <2>5
<1>13. CASE SeatsChangeUntold
  BY <1>13 DEF SeatsChangeUntold, BreakEndIsAnnounced, Accounted, Armed,
               breakVars, queueVars, showVars, toldVars, storeVars, TypeOK
<1>14. CASE TellSeats
  BY <1>14 DEF TellSeats, Broadcast, CanStartHand, BreakEndIsAnnounced, Accounted, Armed,
               breakVars, queueVars, showVars, storeVars, TypeOK
<1>15. CASE TellingFails
  BY <1>15 DEF TellingFails, BreakEndIsAnnounced, Accounted, Armed,
               breakVars, queueVars, showVars, toldVars, storeVars, TypeOK
<1>16. CASE UNCHANGED vars
  BY <1>16 DEF vars, breakVars, queueVars, showVars, toldVars, storeVars, TypeOK, Accounted,
               Armed, BreakEndIsAnnounced
<1>. QED
  BY <1>1, <1>2, <1>3, <1>4, <1>5, <1>6, <1>7, <1>8, <1>9, <1>10, <1>11, <1>12, <1>13, <1>14,
     <1>15, <1>16
  DEF Next

\* Whatever is asked for and whichever timer fires when, the fields of the
\* table between hands stay what they are declared to be: a break or a timer
\* never runs below zero, and only known seats are counted or revealed.
THEOREM TypeCorrect == Spec => []TypeOK
<1>1. Init => IInv
  BY IInvInit
<1>2. IInv /\ [Next]_vars => IInv'
  BY IInvNext
<1>3. IInv => TypeOK
  BY DEF IInv
<1>. QED
  BY <1>1, <1>2, <1>3, PTL DEF Spec

\* However many players show their cards, in whatever order, the table never
\* waits longer than the break and MaxExtensions extensions.
THEOREM BreakStaysBounded == Spec => []BreakIsBounded
<1>1. Init => IInv
  BY IInvInit
<1>2. IInv /\ [Next]_vars => IInv'
  BY IInvNext
<1>3. IInv => BreakIsBounded
  <2>. SUFFICES ASSUME IInv PROVE BreakIsBounded
    OBVIOUS
  <2>1. Cardinality(extensions) \in Nat
    BY FS_CardinalityType DEF IInv, Accounted
  <2>2. /\ Extension * Cardinality(extensions) <= Extension * MaxExtensions
        /\ Extension * Cardinality(extensions) \in Nat
        /\ Extension * MaxExtensions \in Nat
    BY <2>1, AtMostMax, BreakAssumption DEF IInv, Accounted
  <2>. QED
    BY <2>2, BreakAssumption DEF IInv, TypeOK, Accounted, BreakIsBounded
<1>. QED
  BY <1>1, <1>2, <1>3, PTL DEF Spec

\* No break ends unnoticed: players who have been shown two seats to deal to, but
\* not that the break after the hand is over, are told now, for every break, every
\* order of the reveals that extend it and every change of seats that is shown late
\* or never.  (Whether they were shown the seats is another matter: see
\* TakenSeatIsShown in HandBreak.)
THEOREM BreakEndReachesPlayers == Spec => []BreakEndIsAnnounced
<1>1. Init => IInv
  BY IInvInit
<1>2. IInv /\ [Next]_vars => IInv'
  BY IInvNext
<1>3. IInv => BreakEndIsAnnounced
  BY DEF IInv
<1>. QED
  BY <1>1, <1>2, <1>3, PTL DEF Spec
=============================================================================
