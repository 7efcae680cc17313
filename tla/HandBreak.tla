----------------------------- MODULE HandBreak -----------------------------
(***************************************************************************)
(* One table from hand to hand (LiveTable): who may start a hand and when, *)
(* the break after a hand with the reveals that make it longer, the start  *)
(* queued during a break, the two timers of the break, and settleHand,     *)
(* which goes on writing to the store while the table goes on playing.     *)
(*                                                                         *)
(* Time is what is left: of the break (0 when nextHandAt is null or past), *)
(* and of each timer.  A timer at 0 is due and fires whenever the event    *)
(* loop comes to it.  What happens inside a hand is Engine's; who sits     *)
(* where is reduced to `ready`, that a hand could be dealt to somebody.    *)
(* Who sits down or leaves with money is seated or gone at once, but the   *)
(* others hear of it when the store has entered the money, or never.       *)
(***************************************************************************)
EXTENDS Naturals, FiniteSets

CONSTANTS
  Seats, NoSeat,
  BreakLength,       \* HAND_BREAK_MS
  Extension,         \* REVEAL_HAND_BREAK_EXTENSION_MS
  MaxExtensions,     \* MAX_REVEAL_BREAK_EXTENSIONS
  Unarmed,           \* no timer
  NobodyAsked,
  DealMayEndHand,    \* TRUE: some blinds are short enough to end a hand at the deal
  MaxHands,          \* bound on the number of hands
  MaxTelling         \* bound on the changes of seats awaiting the store at once

ASSUME BreakAssumption ==
  /\ IsFiniteSet(Seats) /\ NoSeat \notin Seats
  /\ BreakLength \in Nat /\ Extension \in Nat \ {0} /\ MaxExtensions \in Nat
  /\ Unarmed \notin Nat
  /\ DealMayEndHand \in BOOLEAN
  /\ MaxHands \in Nat /\ MaxTelling \in Nat

Askers == {"owner", "player"}

ASSUME NobodyAssumption == NobodyAsked \notin Askers

VARIABLES
  phase,        \* state.phase
  hand,         \* currentHandId, and whose deck currentHandDeck is
  gameStarted,
  ready,        \* two seats to deal in and a person among them
  timeUp,       \* timeIsUp: the table's timer has run out
  breakLeft,    \* nextHandAt - now
  announceIn,   \* nextHandTimer
  queuedIn,     \* queuedStart
  queuedBy,     \* who asked for the queued start
  extensions,   \* revealExtensions
  foldWinSeat,
  revealed,     \* revealedSeatIds
  told,         \* canStartHand as the players were last told
  seatsTold,    \* `ready` as the seats they were last shown have it
  telling,      \* changes of seats that await the store before they are shown
  dealtBy,      \* who asked for the current hand
  settling,     \* hands whose settleHand awaits the ledger
  stored        \* hands recorded, each with the hand whose deck it carries

breakVars == <<breakLeft, announceIn, extensions>>
showVars  == <<foldWinSeat, revealed>>
queueVars == <<queuedIn, queuedBy>>
storeVars == <<settling, stored>>
toldVars  == <<told, seatsTold>>
vars == <<phase, hand, gameStarted, ready, timeUp, breakVars, queueVars, showVars,
          toldVars, telling, dealtBy, storeVars>>

Init ==
  /\ phase = "waiting" /\ hand = 0 /\ gameStarted = FALSE /\ ready = FALSE
  /\ timeUp = FALSE
  /\ breakLeft = 0 /\ announceIn = Unarmed /\ extensions = {}
  /\ queuedIn = Unarmed /\ queuedBy = NobodyAsked
  /\ foldWinSeat = NoSeat /\ revealed = {}
  /\ told = FALSE /\ seatsTold = FALSE /\ telling = 0
  /\ dealtBy = NobodyAsked
  /\ settling = {} /\ stored = {}

CanStartHand == phase # "in-hand" /\ ready /\ breakLeft = 0

\* Every broadcast shows each player the seats, and whether a hand can start.
Broadcast == told' = CanStartHand' /\ seatsTold' = ready'

(***************************************************************************)
(* Starting a hand.                                                        *)
(***************************************************************************)
\* startNextHand.  A hand that the engine completes at the deal, with a
\* showdown, is not settled: only applyPlayerAction does that.
StartNextHand(by) ==
  /\ CanStartHand
  /\ hand < MaxHands
  /\ hand' = hand + 1
  /\ gameStarted' = TRUE
  /\ phase' \in {"in-hand"} \cup (IF DealMayEndHand THEN {"hand-complete"} ELSE {})
  /\ extensions' = {} /\ foldWinSeat' = NoSeat
  /\ revealed' \in IF phase' = "in-hand" THEN {{}} ELSE SUBSET Seats
  /\ breakLeft' = 0 /\ announceIn' = Unarmed
  /\ dealtBy' = by
  /\ UNCHANGED <<ready, timeUp, telling, storeVars>>
  /\ Broadcast

\* The `deal` of the start-hand handler: prepareNextOrbit sits out who asked
\* for it and who is broke, which may leave nobody to deal to.
Deal(by) ==
  \/ StartNextHand(by)
  \/ /\ CanStartHand
     /\ ready' = FALSE
     /\ UNCHANGED <<phase, hand, gameStarted, timeUp, breakVars, showVars, toldVars,
                    telling, dealtBy, storeVars>>

\* The owner starts a new or reset table, anyone seated the next hands.
MayAsk(by) == ~timeUp /\ (by = "owner" \/ gameStarted)

PlayHand(by) == MayAsk(by) /\ Deal(by) /\ UNCHANGED queueVars

\* Tapped during the break: startAfterBreak, once however many tap.
QueueStart(by) ==
  /\ MayAsk(by)
  /\ phase # "in-hand" /\ ready /\ breakLeft > 0
  /\ queuedIn = Unarmed
  /\ queuedIn' = breakLeft /\ queuedBy' = by
  /\ UNCHANGED <<phase, hand, gameStarted, ready, timeUp, breakVars, showVars, toldVars,
                 telling, dealtBy, storeVars>>

QueuedStartFires ==
  /\ queuedIn = 0
  /\ queuedIn' = Unarmed /\ queuedBy' = NobodyAsked
  /\ \/ Deal(queuedBy)
     \/ /\ ~CanStartHand \/ hand = MaxHands
        /\ UNCHANGED <<phase, hand, gameStarted, ready, timeUp, breakVars, showVars,
                       toldVars, telling, dealtBy, storeVars>>

(***************************************************************************)
(* The end of a hand (applyPlayerAction) and its settlement.               *)
(***************************************************************************)
\* Mutant: the timer keeps what it had.
RearmNever(left) == announceIn' = announceIn
\* nextHandTimer: tells everyone when the break is over.
Rearm(left) == announceIn' = left

StoredAs(h) == [hand |-> h, deck |-> hand]

\* settleHand snapshots the hand, waits for the ledger if there is anything
\* to enter, and records the hand.
SettleHand ==
  \/ settling' = settling \cup {hand} /\ UNCHANGED stored
  \/ stored' = stored \cup {StoredAs(hand)} /\ UNCHANGED settling

\* w won because everyone else folded, or (NoSeat) there was a showdown.
HandEnds(w) ==
  /\ phase = "in-hand"
  /\ phase' = "hand-complete"
  /\ foldWinSeat' = w
  /\ IF w = NoSeat THEN revealed' \in SUBSET Seats ELSE UNCHANGED revealed
  /\ breakLeft' = BreakLength
  /\ Rearm(BreakLength)
  /\ SettleHand
  /\ ready' \in BOOLEAN   \* players bust, leave, join (applyHandEndChanges)
  /\ UNCHANGED <<hand, gameStarted, timeUp, extensions, queueVars, telling, dealtBy>>
  /\ Broadcast

RecordHand(h) ==
  /\ h \in settling
  /\ settling' = settling \ {h}
  /\ stored' = stored \cup {StoredAs(h)}
  /\ UNCHANGED <<phase, hand, gameStarted, ready, timeUp, breakVars, queueVars, showVars,
                 toldVars, telling, dealtBy>>

(***************************************************************************)
(* Reveals make the break longer.                                          *)
(***************************************************************************)
\* Mutant: no limit on how many seats extend the break.
MayExtendUnlimited(s, evenIfOver) ==
  s \notin extensions /\ (breakLeft > 0 \/ evenIfOver)

MayExtend(s, evenIfOver) ==
  /\ s \notin extensions
  /\ Cardinality(extensions) < MaxExtensions
  /\ breakLeft > 0 \/ evenIfOver

\* Mutant: a reveal starts the break over and is not counted.
RestartBreak(s, evenIfOver) ==
  IF breakLeft > 0 \/ evenIfOver
  THEN breakLeft' = BreakLength /\ Rearm(BreakLength) /\ UNCHANGED extensions
  ELSE UNCHANGED breakVars

ExtendBreakForReveal(s, evenIfOver) ==
  IF MayExtend(s, evenIfOver)
  THEN /\ extensions' = extensions \cup {s}
       /\ breakLeft' = breakLeft + Extension
       /\ Rearm(breakLeft + Extension)
  ELSE UNCHANGED breakVars

\* The fold winner's one reveal.
RevealHand(s) ==
  /\ phase = "hand-complete"
  /\ foldWinSeat = s
  /\ s \notin revealed
  /\ revealed' = revealed \cup {s}
  /\ ExtendBreakForReveal(s, TRUE)
  /\ UNCHANGED <<phase, hand, gameStarted, ready, timeUp, queueVars, foldWinSeat, telling,
                 dealtBy, storeVars>>
  /\ Broadcast

\* A player shows a card after the hand, unless theirs are public already.
ShowCard(s) ==
  /\ phase = "hand-complete"
  /\ s \notin revealed
  /\ ExtendBreakForReveal(s, FALSE)
  /\ UNCHANGED <<phase, hand, gameStarted, ready, timeUp, queueVars, showVars, telling,
                 dealtBy, storeVars>>
  /\ Broadcast

(***************************************************************************)
(* The rest of the table, and time.                                        *)
(***************************************************************************)
\* Players sit out or in, are given chips, and bots come and go: shown at once.
SeatsChange ==
  /\ ready' = ~ready
  /\ UNCHANGED <<phase, hand, gameStarted, timeUp, breakVars, queueVars, showVars, telling,
                 dealtBy, storeVars>>
  /\ Broadcast

\* A person is seated (performTakeSeat), leaves or is removed; the handler then
\* awaits the store before it shows anybody.
SeatsChangeUntold ==
  /\ telling < MaxTelling
  /\ telling' = telling + 1
  /\ ready' \in BOOLEAN
  /\ UNCHANGED <<phase, hand, gameStarted, timeUp, breakVars, queueVars, showVars,
                 toldVars, dealtBy, storeVars>>

\* The store has answered.
TellSeats ==
  /\ telling > 0
  /\ telling' = telling - 1
  /\ UNCHANGED <<phase, hand, gameStarted, ready, timeUp, breakVars, queueVars, showVars,
                 dealtBy, storeVars>>
  /\ Broadcast

\* The store fails, and nobody is shown: leave-table reports it to who leaves;
\* elsewhere nothing catches it, which the process may not outlive.
TellingFails ==
  /\ telling > 0
  /\ telling' = telling - 1
  /\ UNCHANGED <<phase, hand, gameStarted, ready, timeUp, breakVars, queueVars, showVars,
                 toldVars, dealtBy, storeVars>>

\* resetTable: everyone is sent away; a hand in progress is void.  They are told
\* when every one of them has been paid.
ResetTable ==
  /\ telling < MaxTelling
  /\ telling' = telling + 1
  /\ phase' = "waiting" /\ gameStarted' = FALSE /\ ready' = FALSE
  /\ breakLeft' = 0 /\ announceIn' = Unarmed
  /\ UNCHANGED <<hand, timeUp, extensions, queueVars, showVars, toldVars, dealtBy,
                 storeVars>>

\* The table's timer runs out, or the owner adds time to it.
TimerChanges ==
  /\ timeUp' = ~timeUp
  /\ UNCHANGED <<phase, hand, gameStarted, ready, breakVars, queueVars, showVars, toldVars,
                 telling, dealtBy, storeVars>>

\* nextHandTimer fires.
AnnounceBreakEnd ==
  /\ announceIn = 0
  /\ announceIn' = Unarmed
  /\ UNCHANGED <<phase, hand, gameStarted, ready, timeUp, breakLeft, extensions, queueVars,
                 showVars, telling, dealtBy, storeVars>>
  /\ Broadcast

\* Mutant: a timer that is due goes on running.
EarlierForEver(left) == IF left = Unarmed THEN left ELSE left - 1

Earlier(left) == IF left = Unarmed \/ left = 0 THEN left ELSE left - 1

Tick ==
  /\ {breakLeft, announceIn, queuedIn} \ {0, Unarmed} # {}
  /\ breakLeft' = Earlier(breakLeft)
  /\ announceIn' = Earlier(announceIn)
  /\ queuedIn' = Earlier(queuedIn)
  /\ UNCHANGED <<phase, hand, gameStarted, ready, timeUp, extensions, queuedBy, showVars,
                 toldVars, telling, dealtBy, storeVars>>

Next ==
  \/ \E by \in Askers : PlayHand(by) \/ QueueStart(by)
  \/ QueuedStartFires
  \/ \E w \in Seats \cup {NoSeat} : HandEnds(w)
  \/ \E h \in settling : RecordHand(h)
  \/ \E s \in Seats : RevealHand(s) \/ ShowCard(s)
  \/ SeatsChange
  \/ SeatsChangeUntold
  \/ TellSeats
  \/ TellingFails
  \/ ResetTable
  \/ TimerChanges
  \/ AnnounceBreakEnd
  \/ Tick

Spec == Init /\ [][Next]_vars

\* Time passes, and timers that are due fire.
FairSpec == Spec /\ WF_vars(Tick) /\ WF_vars(AnnounceBreakEnd) /\ WF_vars(QueuedStartFires)

-----------------------------------------------------------------------------
Timers == Nat \cup {Unarmed}

TypeOK ==
  /\ phase \in {"waiting", "in-hand", "hand-complete"}
  /\ hand \in Nat
  /\ gameStarted \in BOOLEAN /\ ready \in BOOLEAN /\ timeUp \in BOOLEAN
  /\ told \in BOOLEAN /\ seatsTold \in BOOLEAN /\ telling \in Nat
  /\ breakLeft \in Nat /\ announceIn \in Timers /\ queuedIn \in Timers
  /\ queuedBy \in Askers \cup {NobodyAsked} /\ dealtBy \in Askers \cup {NobodyAsked}
  /\ extensions \subseteq Seats /\ revealed \subseteq Seats
  /\ foldWinSeat \in Seats \cup {NoSeat}
  /\ settling \subseteq Nat
  /\ stored \subseteq [hand : Nat, deck : Nat]

\* A break is never longer than the break itself and one extension for each
\* of at most MaxExtensions seats, whoever shows what in which order
\* (extendBreakForReveal).
BreakIsBounded == breakLeft <= BreakLength + Extension * MaxExtensions

\* After a hand, nobody who knows of the seats is left waiting for the break:
\* players who have been shown seats to deal to, but not that the break is over,
\* are told now, however often it was extended (applyPlayerAction 1485-1494), and
\* whatever changes at the table meanwhile is not shown until the store answers.
BreakEndIsAnnounced ==
  phase = "hand-complete" /\ breakLeft = 0 /\ seatsTold /\ ~told => announceIn = 0

\* Every break comes to an end, whatever is revealed.
BreaksEnd == phase = "hand-complete" ~> breakLeft = 0

\* socketServer.ts 498: to sit down is "chip-debit + seat-fill + room-join +
\* broadcast", in performTakeSeat together: players who do not know that a hand can
\* start are told now.  It does not hold: the seat is filled at 520 and counts for
\* the next hand, and the broadcast of 541 waits for four answers of the store.
TakenSeatIsShown == CanStartHand /\ ~told => announceIn = 0

\* liveTable.ts 1180-1184 and DECISIONS.md 2894: "Play Hand" tapped in the break
\* is dealt the moment the break ends.  It does not hold: a reveal prolongs the
\* break, and the tap's one attempt to deal comes too early.
QueuedStartIsDealt ==
  [][queuedIn # Unarmed /\ queuedIn' = Unarmed /\ phase # "in-hand" /\ ready /\ ready'
       => hand' # hand]_vars

\* socketServer.ts 1077: "The owner kicks a new or reset table off".
\* It does not hold: a start queued before the reset deals after it.
OwnerKicksOff == [][~gameStarted /\ gameStarted' => dealtBy' = "owner"]_vars

\* liveTable.ts 1515: "Everything below the first `await` must come from this
\* snapshot, not live fields": a hand is stored with its own deck.  It does not
\* hold when the ledger is slower than the break.
StoredWithOwnDeck == \A r \in stored : r.deck = r.hand

\* liveTable.ts 289: books and reports are written "after every hand": a
\* complete hand has been settled or is being settled.  It does not hold of a
\* hand that the blinds end at the deal.
CompleteHandIsSettled ==
  phase = "hand-complete" => hand \in settling \cup {r.hand : r \in stored}
=============================================================================
