# pokerclause: a TLA+ model

pokerclause runs private no-limit hold'em tables: a pure engine
(`packages/engine`) that plays hands, a Node server (`apps/server`) that owns
tables, seats, timers and money, and a React client. This directory holds
TLA+ modules translated from that code, the TLC configurations that check
them, and proofs that TLAPS checks. Paths below are relative to the
repository root (`src/` in `PROJECT.json`).

Contents: [inventory](#inventory), [modules](#modules), [runs](#runs),
[bounds](#bounds), [fairness](#fairness), [disagreements found](#where-code-and-documents-disagree),
[proofs](#proofs), [not modelled](#what-is-not-modelled), [plan](#plan).

## Inventory

| Part | State it keeps | Operations | Talks to |
|---|---|---|---|
| Engine, hand state machine (`packages/engine/src/engine.ts`, `hand.ts`, `betting.ts`, `legalActions.ts`, `streets.ts`, `table.ts`) | one immutable `TableState`: seats with stack, status and commitments, betting state, button, phase, pots | `startHand`, `applyAction`; both end in the street loop `advance` | called by LiveTable and by the simulator; returns a new table and events |
| Pots and showdown (`pots.ts`, `showdown.ts`) | none (functions of the table) | `returnUncalledBet`, `buildPots`, `awardFoldWin`, `runShowdown` | called by `advance` |
| Button (`button.ts`) | `lastBigBlindSeat`, `buttonSeat` in the table | `assignButtonAndBlinds` | called by `prepareAndDealHand`; seeded by LiveTable's opening draw |
| Cards (`deck.ts`, `evaluator.ts`) | none | parse cards, compare hands (a third-party evaluator) | called by `runShowdown` |
| LiveTable (`apps/server/src/game/liveTable.ts`) | the table, its occupants, what waits for the hand to end (removals, chips, moves, sit-outs, settings), waitlist, seat offer, invitations, turn clock, break and queued start, the book | some forty methods called by sockets and routes | engine, store, game book, timers, callbacks into the socket server |
| Game book (`gameBook.ts`) | per player: buy-ins, cash-outs, results | `buyIn`, `cashOut`, `recordHand`, `voidHand`, `reconcile`, `finalize` | written by LiveTable, read for reports |
| Registry, practice tables (`tableRegistry.ts`, `practiceTables.ts`) | tables by id, one practice table per user | create, restore, open, close | sockets, HTTP routes |
| Socket server (`socketServer.ts`) | rooms, seats of each connection, offer and abandon timers | take seat, leave, move, act, start, re-buy, close, voice | LiveTable, store (asynchronously) |
| Stores (`db/*.ts`) | users, balances, ledger, hands, signup keys | credit, debit, record entries, claim and keep balances | server only |
| Accounts (`auth/*.ts`), lockouts (`security/*.ts`) | refresh tokens, failure counters | log in, rotate, delete, count failures | HTTP routes |
| Fair shuffle (`packages/rng`, `rng/commitReveal.ts`) | seeds of the hand | commit, shuffle, reveal | LiveTable |
| Voice calls (`apps/web/src/useVoiceChat.ts`, signalling in `socketServer.ts`) | per page: its stream, a peer connection and a negotiation state for every other socket at the table; per table: who is registered | join and leave a call, react to peers coming and going, offers, answers, the browser's events | other pages, through `rtc-signal`; the browser's WebRTC |
| Simulator (`packages/sim`), the rest of the client (`apps/web`) | none that the server trusts | random play with invariants; user interface | engine; sockets |

What is hard in each, and what would make it right:

* **Engine.** Sequential, but the space of legal calls is enormous: short
  blinds and antes, short all-ins that do not reopen the betting, straddles
  and missed blinds, side pots with folded money in them, hands that end at
  the deal. Right means: chips are conserved by every call; a bet is always
  matched before the next street; a full raise gives everyone a say; nobody
  wins more than they put at risk; buildPots' own assertion never throws; the
  hand ends.
* **Button.** Right over *sequences* of hands with players coming and going:
  nobody escapes a blind.
* **LiveTable and sockets.** Asynchronous handlers over one mutable table:
  settlement awaits the store while the table goes on, a break can be
  extended while a start is queued, seats are offered with a timeout, a table
  is closed while a hand runs. Right means: every chip a player brings is
  either in front of them, in the middle, or paid back exactly once; whatever
  waits for the end of the hand is carried out; a started break ends.
* **Book.** Written by every movement of money at a table, in whatever order
  the movements come. Right means: it always agrees with the chips in front of
  the players, its results are what the game did to them, and the payments
  proposed at the end clear them.
* **Stores, accounts, lockouts.** Read-then-write operations that two requests
  can interleave and any step of which may be the last. Right means: no player
  is paid twice, one key makes one account, one person gets one bonus, and a
  client is held to so many wrong guesses that count in a time.

* **Voice calls.** Two pages negotiate at the same time, through messages and
  through operations that the browser queues, while sockets are lost and come
  back under other ids. Right means: everybody at the table has a connection to
  everybody else, and whoever sends is heard.

`PROJECT.json` lists every component with its status, and under `hazards`
what a test would hardly reach, each at its line, with the property that
covers it or the reason why none does.

## Modules

| Module | Models | Role |
|---|---|---|
| `Ring` | seats of a table, `nextInRing`, `prevInRing`, `oddChipDistance` | operators |
| `Pots` | `buildPots`, `returnUncalledBet`, the split of a pot, in closed form | operators |
| `BuildPots` | the loop of `buildPots`, level by level | operators; ties `Pots` to the loop |
| `Button` | `assignButtonAndBlinds` | operators |
| `Rotation` | the rotation over a session of hands, with the opening draw of `startNextHand` | state machine |
| `Custody` | what the engine promises about chips | abstract specification |
| `Engine` | `startHand`, `applyAction`, and the server's sitting out and in | state machine |
| `MCEngine` | starting tables for TLC | instance |
| `HandBreak` | LiveTable from hand to hand: starting, settling, the break, reveals, reset, timers | state machine |
| `GameBook` | `buyIn`, `cashOut`, `recordHand`, `reconcile`, `settle` | operators |
| `LiveTable` (`MCLiveTable`) | LiveTable: seats, stacks, what waits for the end of a hand, reset, with the book beside it | state machine |
| `OpenSeating` | an open-invite table's waitlist, the offer of a seat and its timer | state machine |
| `Bank` | what the server promises about a player's chips | abstract specification |
| `TableMoney` (`MCTableMoney`) | the socket handlers that move chips between store and table, await by await | state machine |
| `TableClosing` | `closeTableWithNotice`, beside the handlers of `TableMoney` | state machine, extends `TableMoney` |
| `Accounts` (`MCAccounts`) | sign-up with a key, bonus, deletion and return, await by await | state machine |
| `Lockout` | `FailureLockout`, the routes around it and `join-table` | state machine |
| `Voice` | `useVoiceChat` in every page of a table, the server's part in it, and the browser's peer connections | state machine |
| `SumsProofs`, `EngineProofs` (with the theorems about `Rotation`), `HandBreakProofs`, `LiveTableProofs`, `OpenSeatingProofs`, `TableMoneyProofs`, `AccountsProofs` (with the theorems about `Lockout`), `VoiceProofs` | | proofs |

How they fit: a hand is played out by `Engine`, is one step of `HandBreak`, a
few steps of `LiveTable` and a transfer in `TableMoney`; who sits where is
`LiveTable`'s, who may sit is `OpenSeating`'s, who pays is `TableMoney`'s. The
abstract specifications `Custody` and `Bank` say what one level may rely on of
the one below: chips put in the middle come back to those still in the hand,
chips put on the table come back to the purse.

**Engine.** The variable `table` is the code's `TableState`, the fields of
its seats turned into functions of the seat. The code copies the table into a
draft, mutates it, and every public call ends in `advance`; the model composes
operators from draft to draft in the same order:
`Return(Advance(PrepareAndDealHand(ResetSeats(table))))` is `startHand`, and
`Return(Advance(Acted(..., s)))` is `applyAction`. `PrepareAndDealHand` is
`PostAnte`, two `PostBlind`, `OpenBetting`, `PostStraddle`,
`PostMissedBigBlinds`, `Deal`, as `hand.ts` runs them. `AdvanceOnce` is one
turn of the `for (;;)` of `advance`. Calls the engine rejects (an
`IllegalActionError`) change nothing and are not steps.

The `ante` and the `straddleEnabled` of a table are fields of `table` as they
are of `TableState.config`; the blinds are constants.

Cards are abstracted: at a showdown every seat's hand gets an arbitrary rank,
which covers all boards and more. Fields used only for display
(`isAllowedToRaise`, `lastAggressorSeat`, board, deck, events, `pots` itself,
a function of the commitments) are left out. A draft that leaves `advance`
for `runShowdown` is marked with the phase `"showdown"`, which no table has.

`SitOut` and `SitIn` are what the server does to the engine's table between
hands, so that `Engine` is a session and not a single hand. The server's
`start-hand` handler calls `prepareNextOrbit` right before the deal; its part
for the engine's table is `SitOutBusted`, the first operator of `StartHand`.
A request to sit out is carried out at once, not queued to the next deal, which
comes to the same because nothing reads the status of a seat in between
except the deal itself.

**Pots and BuildPots.** Payouts need each pot's amount and winners. `Pots`
states them per level in closed form, which is what proofs can use;
`BuildPots` folds the body of the code's loop over the levels, and
`LoopMakesThesePots` compares its pots with the ones `Pots` describes at every
hand the engine can finish, so the closed form is not a second opinion but a
proved one (`LoopIsTheFormula`). The loop's `if (amount <= 0) continue` is left
out: some seat staked the level itself, so there is always something in it.

**Custody** knows stacks, the middle, who is in the hand and whose turn it is.
It allows: the deal takes at most `Forced` chips from a seat; only the seat
whose turn it is puts chips in or leaves; the last decision pays the middle
out, to seats still in the hand, with nobody else's stack going down.
`Engine` implements it under the mapping `Money`: the middle is what has been
committed plus the ante, and an uncalled bet returned or a pot split is
invisible at this level.

**Rotation** keeps only what the rotation reads. `unpaid[x]` is a history
variable: the seats dealt in to every hand since x's last big blind that have
posted none since.

**HandBreak.** The variables are the fields of LiveTable with which it gets
from one hand to the next: `phase`, `currentHandId` (a number), `gameStarted`,
`nextHandAt` as the time that is left (`breakLeft`), `nextHandTimer` and
`queuedStart` as the time each timer has left (`announceIn`, `queuedIn`),
`revealExtensions`, `foldWinSeatId`, `revealedSeatIds`. `ready` stands for
everything `canStartHand` asks of the seats, `told` for the
`canStartHand` of the last projection sent and `seatsTold` for what it showed of
the seats: every handler that broadcasts sets both (`Broadcast`), the others
do not. Who sits out or in, gives chips or adds a bot is shown at once
(`SeatsChange`). Who sits down, leaves or is removed with money, and a reset, is
not (`SeatsChangeUntold`, `ResetTable`): the table is changed first, and counts for the
next hand, and the broadcast comes when the store has entered the money
(`TellSeats`), or never, if the store fails (`TellingFails`); `telling` counts
those under way, and more than one may be. `settling` and `stored` are the
store's side: `settleHand` takes its snapshot at the end of the hand and
comes back from the ledger (`RecordHand`) at any time later, or does not wait
at all when there is nothing to enter. The hand inside is `Engine`'s; here it
is one step, `HandEnds`, and `DealMayEndHand` lets the deal itself end it.
`dealtBy` is a history variable. Time passes in `Tick`; a timer at 0 is due,
and fires when the event loop gets to it, so a broadcast or a queued start may
be late. The 10 ms that `startAfterBreak` adds are this lateness. The model is
of a shared table: at a practice table its user may also start the first hand.

**GameBook and LiveTable.** `seat[s]` joins the engine's seat and the live
seat of the same number, which every method of LiveTable changes together:
`here` is "the live seat has a user or a bot", `who` the engine's `playerId`,
`bet` its `committedThisHand`. Of the seat's fields the model keeps those that
wait for the end of a hand (`pendingRemoval`, `pendingChips`, `pendingMoveTo`,
`joinsNextHand`, the two wishes to sit out and in) and leaves out how a seat
looks. A hand is what `Custody` allows: the big blind posts, players put chips
in or fold, and the middle goes to those still in, in every division; other
blinds and raises would only be more of the same transfer. `HandOver` is the
block of `applyPlayerAction` for a finished hand in the order of the code: book
it, then `applyHandEndChanges` with its removals, chips, newcomers and moves.
A deal that ends the hand at once (`DealMayEndHand`) skips that block, as the
code does. `TakeSeat` and `LeaveSeat` include the change of the balance that
the socket handler makes around them; what can happen in between its awaits is
`TableMoney`'s. The book's totals of buy-ins and cash-outs are left out for
their difference; `settle` is a recursive function from the number of payments
made to the debts left. `opened` and `unbooked` are history variables: balances
when the book was opened, and players of whom the code itself failed to book
something (see [below](#where-code-and-documents-disagree)), whom the
properties of the book except. A computer player is named for its seat, as in the
code, which makes two of one name possible.

**OpenSeating.** `syncSeatOffer` exists twice, in LiveTable and in the socket
server: the first decides about the offer, the second keeps the timer.
`SyncSeatOffer` is both. Every handler ends in a broadcast that calls it, most
at once, some only when the store has answered: these add to `toTell`, and
`Tell` is one of them getting there. `asks` are the take-seat requests that have
passed the check of the line and wait for the store.

**TableMoney and Bank.** Every handler is a `job`: what it has read and is about
to use, or the list of store operations it still has to write; each read, each
synchronous stretch between two awaits and each write is a step, so that every
interleaving of two handlers happens. Under the mapping of `B`, a purse is the
balance and whatever is being written to it: the chips leave the table for the
purse in the synchronous part, and the store catches up. `Bank` then says that
chips move all at once and only the owner brings new ones. It does not promise
that a purse stays positive, nor that the owner pays no more than the shortfall:
the code decides on a balance it read before an await. A hand moves chips from
one seat to another (`PlayHand`), changes no balance, and begins a handler of its
own, which enters the result in the ledger for both (`PotWin`): the same chips are
entered again with what their player leaves with. `won` is what has been
entered for hands, and `LedgerExplains` takes it out of the sum; that a player's
rows add up to their balance is another matter
([finding 14](#where-code-and-documents-disagree)). A result is entered for every
`userId` without table money; two seats of one account come to nothing. How
much a hand is counted for, with chips added in the middle of it, is
`LiveTable`'s question, and asked there of the book. `TableMoney` models the
players whose balance pays (guests and the owner); for registered players at an
invited table the owner puts the chips on the table and no balance is involved.

**TableClosing.** Several closers (the owner, the timer sweep, the shutdown)
each book, read the list of seats, pay one after the other and remove the
table. `Close` waits until no handler is between a read and its synchronous
part, and nobody sits down afterwards: a simplification that only takes
behaviours away, so that the violation it shows is one of the code.

**Accounts.** A person is one Google account with one email address. The keys
of the hashed stores, the waiver and the session are left out. `BreakOff`
ends a handler at any await: the process stops, or the store throws.

**Lockout.** Time is counted from now: the age of a client's window, the ticks
its lock still has. There are two lockouts (`guards`), which have the class in
common and not the way they are used. For access keys, `Try` is the route's
`retryAfterMs`, `Fail` and `Succeed` what it does when the store has answered, and
several guesses may be under way. An invitation is looked up in memory, so a guess
is one step: `FindInvite` and `MissInvite` for GET /invites/:token and POST
/auth/guest, which ask the lock first. `join-table` compares the code first and
asks the lock only about a wrong one: `JoinTable` lets the right code in
whatever the lock says, and a wrong code is `MissInvite` while there is no
lock, and no step at all, because nothing is counted, while there is one.
`guards` never changes; that the two behave alike as far as the class goes is
then one model and not two. `inside` is a history variable.

**Voice.** `id[b]` is the socket of page `b`, `participants` the server's
`voiceParticipants` (a socket it has not noticed to be lost is still in it),
`inbox` what is on the way to a page. `page[b].pc` are all connections the
page ever made, `page[b].pcs` the one it has for a socket now: `pcsRef` and
`negotiationRef`, which always change together. A connection is the browser's, and
external: its `sig` is `signalingState`; `chain` its operations, of which
WebRTC runs one at a time, so that an `await` in a handler is an entry there and
the handler's next step is queued when it is done; `needed` and `Asks` are the
negotiation-needed flag and the condition of the event, `sends`, `offered` and `told`
what the page sends now, what it said in its open offer, and what was last agreed;
`hears` is what the peer said. `Dead` is when the browser reports that a connection
failed: the two ends had found each other and the other one was closed. A
page may do any of this at any moment; `OnSignal` decides on what it finds when the
message arrives, as the code does. One track stands for all a browser
sends, and ICE candidates are left out: connectivity is taken for granted.
`ComesBack` lets a socket that was lost come back under its page, under a new
id; the page and its connections are those it had.

## Runs

| Run | Asks | Answer |
|---|---|---|
| `engine` | every way three players with stacks from {1, 2, 4, 7} play a hand; and, with stacks from {0, 1, 3, 6}, two hands in a row with an ante as large as the big blind, a straddle, missed big blinds owed by up to two seats, busts, sitting out and in | holds: chips move as `Custody` allows, pots add up and are those of the code's loop, streets are paid for, cards turned up early end the betting, a full raise reopens it and a short all-in does not, a win is bounded by the stake, the bet to call is one somebody left in the hand has made, the highest stake belongs to a seat still in, nobody without chips is dealt in, and with the turn clock every hand ends |
| `rotation` | any sequence of hands dealt to any subsets of five seats | nobody posts a second big blind before everyone else in throughout; the last big blind posts the small blind; the draw's winner gets the button |
| `hand_break` | two hands with every order of taps, queued starts, reveals, shown cards, resets, timers and late settlements, and with players whose coming and going is shown late or never | holds: a break is never longer than the break and its extensions allow, it ends if time passes, and while players who know of the seats do not know that it is over a broadcast is due |
| `live_table` | players come, go, add chips, sit out and in, change seats and are removed at every point of two hands, up to a reset | holds: the book agrees with the table, its results are real, only the dealt play, a held seat stays free, what was put off is done when the hand ends, a closed game is paid out, the settlement clears |
| `table_money` | two handlers at a time and three requests that bring chips, interleaved at every await, with hands played and entered in between | `TableMoney` implements `Bank`; apart from the results of hands, the ledger explains every balance |
| `open_seating` | three players, two seats, a line, offers that run out, late broadcasts | holds: the line is a line without those seated, a place is only lost for a reason, a free seat is offered, no offer stands for ever |
| `lockout` | three clients on a map for two, who guess access keys, two under way each, or invitations by any of the three ways | holds: the map stays bounded, the guesses that are counted in one window are bounded, every lock runs out |
| `accounts` | two handlers signing people up and deleting them, breaking off anywhere | holds: one account a key, one bonus a person |
| `voice` | two pages, three socket ids, a call joined or left twice, one page that goes in the middle | holds: two connections at rest are two ends of one and each knows whether the other sends; the polite side hears the impolite one in the end |
| `live_table_results` | "Results always sum to zero" | violated, see below |
| `table_closing` | "returns every seated player's chips" | violated, see below |
| `voice_return` | "Every human at the table is a receive-ready peer connection" | violated, see below |

`TopStakeContends` has a consequence worth recording: since the seat with the
highest stake is always still in the hand, the branch of `returnUncalledBet`
for an uncalled bet of a folded seat (packages/engine/DECISIONS.md, item 6)
is not reached through legal play; `LoopMakesThesePots` nevertheless exercises
folded seats with the highest stake.

A seat whose ante takes its whole stack is a contender without a stake: it is
eligible for no pot, and neither is the ante it paid. The runs cover it
(an ante of 2 against stacks of 1).

`CHECK_DEADLOCK FALSE` appears where the system may stop: at `MaxHands` in
`Engine`, at the bounds on requests, games and departures in `LiveTable`,
`TableMoney`, `TableClosing` and `Voice`. `Rotation`,
`HandBreak`, `OpenSeating`, `Lockout` and `Accounts` never stop and are checked
for deadlock.

Every property has a mutant in `PROJECT.json`: a change to a mapped
definition that a slip in the code could cause, under which TLC finds the
property violated. The mutated forms stand next to the definitions, marked
`Mutant`.

## Bounds

* Three seats are the fewest with a side pot, a blind that is neither heads-up
  nor adjacent to the button, and a player who neither bets nor calls; with
  three the straddle is posted by the button.
* Stacks are chosen around the blinds (1 and 2): short of the big blind,
  exactly a big blind, enough for a raise (4), enough for a re-raise (7) at the
  tables with one hand; at the others an empty chair, all-in on a blind or the
  ante, all-in on a straddle, and a few chips behind.
* Raises are every size the code admits, not a sample.
* `Ranks` allows as many different hands as there are seats.
* `MaxHands` bounds the hand number; after one hand a player may have busted,
  sat out or in, and the next deal meets all of it. `handNumber` is otherwise a counter nobody reads.
* `MCEngine` starts with the last big blind at seat 0 or none: the clockwise
  order is all that tells seats apart.
* `LoopMakesThesePots` takes every set of contributors for the live ones, also
  those that folded.
* `HandBreak`: one seat more than may extend a break, so that the limit is
  met (3 seats and a limit of 2; the code's
  `MAX_REVEAL_BREAK_EXTENSIONS` is 3, the proofs are for any); a break longer
  than one extension, so that a timer can run out before, at and after an
  extension. Two hands: what a handler of one hand leaves behind can only reach
  the next (`extensions`, `revealed` and `foldWinSeat` are reset by every
  deal), and a late settlement is one hand behind. `MaxTelling` is 2: one change
  that is shown late can be overtaken by another, and one of the two may fail.
* `Rotation` needs no bound: its state space is finite.
* `LiveTable`: three seats, so that one can be deleted, added again, moved to
  and held; two players and as many computer players as seats; five requests in
  a game are enough to seat three, give chips to one of them during the hand and
  have them leave it (for the bets they leave in the middle,
  `EveryBetReturned` fails in this instance); two hands, because what a hand leaves behind meets the
  next. `MaxChips` bounds the chips, of which a player brings two and a seat is
  taken with one. `live_table_results` has three players, all seats in use and
  no hand that ends at the deal.
* `TableMoney`: two handlers are what an interleaving takes; three requests
  that bring chips let both players sit, and one be given chips, or come back with
  what they left with. Hands are not bounded: any number of chips goes from any
  seat to another, as often as a handler is free to enter it. `StartingChips` is more than the balance, so that the
  owner pays a part. `TableClosing`: two closers and two seats taken before.
* `OpenSeating`: three players for two seats, so that two wait; one tick of an
  offer distinguishes a running offer from one that is due; two requests and two
  broadcasts under way.
* `Lockout`: three clients for a map of two; a window and a lock of two ticks
  meet and miss each other; two failures lock.
* `Accounts`: two people, two keys of which one is only for one of them, two
  handlers; three accounts let a person register, delete and register again while
  the other has one.
* `Voice`: connections are pairwise, so two pages are enough (that it holds of any
  number is a theorem); three ids let one of
  them come again, on either side of the comparison that makes it polite; two
  changes to a call are one of each page at the same time, or one page that joins
  and leaves while the first negotiation runs; `MaxDepartures` counts lost sockets
  and left pages together.

## Fairness

`handleTimeout` (liveTable.ts 1413-1430) folds or checks for the seat to act
whenever the turn clock armed by `armClock` runs out, so a turn cannot last
forever. `ClockRuns` is weak fairness of `TurnEnds`, a step after which the turn,
the street or the hand is another: what the timeout, or a player who is
faster, brings about. No fairness is assumed of players, of `StartHand`, or of
sitting out and in. It is written out, with "somebody's turn" for the `ENABLED`
part (a timeout is possible exactly then), because TLC evaluates `ENABLED` of
the street loop by enumerating it.

`HandBreak` assumes that time passes and that timers which are due fire
(`WF_vars` of `Tick`, `AnnounceBreakEnd`, `QueuedStartFires`): they are
`setTimeout`s of one event loop that no handler blocks. Nothing is assumed of
people: nobody has to tap, reveal or leave, and the store need not ever answer.

`OpenSeating` assumes the same of `Tick` and `TimerFires`, and of `Tell` that the
store answers a handler in the end. Nobody has to sit down or leave the line. `Lockout` assumes that time passes.
`Voice` assumes only that what happens by itself (`ByItself`: messages, the
browser's operations and events, the server noticing a lost socket) does not stop
while some of it is left; that it comes to an end is part of what is checked. The safety runs
(`LiveTable`, `TableMoney`, `Accounts`) assume nothing.

## Where code and documents disagree

Three statements have a run that shows the code violating them:

1. **The results of a hand need not sum to zero** (`live_table_results`,
   `ResultsSumToZero`). `bookHand` says they always do (liveTable.ts
   1667-1669). A player who is given chips in a hand, folds and leaves it is noted
   with those chips (900, 912), which are not among the chips bookHand
   subtracts (only those put straight on the stack are): they count as won. The
   chips themselves are right; the report and the settlement are off by them.
2. **Closing a table can pay twice** (`table_closing`, `ClosingReturnsChips`).
   `closeTableWithNotice` promises every player their stack "same as leaving
   individually would" (socketServer.ts 279-282) and `closeAllTables` that it
   "returns every seated player's chips to their balance" (1296-1298). It pays
   seat after seat across awaits and removes the table afterwards; a player who
   leaves in between, or a second close, is paid from the same stack again.
3. **A page whose socket came back can end up without a connection**
   (`voice_return`, `ReceiveReady`). useVoiceChat.ts 15-16: "Every human at the
   table is a receive-ready peer connection from the moment they arrive". After a
   reconnect the server sends `rtc-peers` again; `onPeers` replaces the connections
   the page still has without closing them (225-227). The peers close their ends
   on `rtc-peer-left`, so the replaced ones fail, and their handler (189) closes
   whichever connection the page has for that peer now: the new one. Nothing makes
   another until a message of that peer arrives.

The following are stated in the modules (the definition is named) with a comment
that they do not hold; TLC refutes each when asked, but they have no run of
their own:

4. **The button can stay or skip** (`Rotation!ButtonAdvances`). RULES.md 13-15
   promises that it always advances to the next dealt-in seat; the code moves
   the *big blind* on and derives the button from it. Seats 0 and 1 play one
   hand, 0 and 2 the next: the button is on seat 0 both times. What the code
   does guarantee is `BlindsGoRound`.
5. **A tie can be paid two chips apart** (`Engine!TieSplitsEvenly`). `buildPots`
   makes a pot for every distinct amount put in, also where only folded seats
   differ, and each is rounded on its own, so one pot in the eyes of RULES.md
   35-40 can be split 7 and 5.
6. **A queued start can be lost** (`HandBreak!QueuedStartIsDealt`). "Play Hand"
   tapped during the break is to be "dealt the moment the break ends"
   (liveTable.ts 1180-1184). The timer is set for the end the break has then; if
   the fold winner reveals afterwards, it finds that no hand can start and gives
   up.
7. **A queued start survives a reset** (`HandBreak!OwnerKicksOff`), although
   "the owner kicks a new or reset table off" (socketServer.ts 1077).
8. **A hand can be stored with the next hand's deck**
   (`HandBreak!StoredWithOwnDeck`): `settleHand` reads `currentHandDeck` (1585)
   after the await before which everything was to be read (1515).
9. **A hand that ends at the deal is not settled**
   (`HandBreak!CompleteHandIsSettled`): only `applyPlayerAction` settles and
   books a hand (1479-1504). `LiveTable` has the consequence: `unbooked`.
10. **A bet left behind is lost** (`LiveTable!EveryBetReturned`): `resetTable`
   refunds the bets of the players who are there. Who folded the hand and left
   the table is not, and `closeBook` writes that "every chip bet in it was
   returned".
    Properties of the book except such a player (`LeftBetsBehind`), and none of
    them would notice.
11. **An offer can stand for the last in line** (`OpenSeating!OfferToFirst`):
    who sits down, leaves and joins the line again before the first of these is
    broadcast keeps the offer they had.
12. **An offer can be lost for good** (`Voice!BothAreHeard`). "Both ends always
    converge on the same outcome" (useVoiceChat.ts 245-246). The impolite side
    answers for a collision by `signalingState`, which is still
    "have-local-offer" while it applies the answer to its own offer; an offer of
    the polite side that arrives just then is ignored, and the polite side waits for
    an answer until somebody negotiates again. What does hold is
    `StableMeansAgreed` and `ImpoliteIsHeard`.
13. **Players can be in their seats unseen** (`HandBreak!TakenSeatIsShown`).
    `performTakeSeat` is "chip-debit + seat-fill + room-join + broadcast"
    (socketServer.ts 498), but the seat is filled at 520, and counts for the next hand,
    while the broadcast of 541 waits for up to four answers of the store. In
    between a hand can start and nobody has been told; if the store fails,
    nobody is until something else is broadcast. What does hold is
    `BreakEndIsAnnounced`: the end of a break is never missed by players who have
    been shown the seats.
14. **A player's ledger rows do not add up to their balance**
    (`TableMoney!LedgerIsBalance`). "Every chip movement is a paired
    debit/credit row" (schema.ts 207), so that once everybody has left, a
    balance would be the opening one and the rows. `settleHand` enters what a hand
    won or lost (liveTable.ts 1535-1553) and changes no balance; the same chips
    are in the `cash_out` of who leaves with them. What does hold is
    `LedgerExplains`, with the rows for hands left out.
15. **A locked-out address can go on guessing** (`Lockout!LockedStayOut`).
    "Invite codes that match nothing: 10 in 15 minutes locks the address out
    for 15 minutes" (lockouts.ts 14), but `join-table` compares the code
    (socketServer.ts 647) before it asks the lock (659): while locked, wrong codes are
    answered and not counted, and the right one gets in. What does hold is
    `CountedGuessesBounded`.

And some facts that no document denies but that a reader should know: two
take-seat requests of one account can give it two seats, because the check
(socketServer.ts 733) precedes the awaits; a sign-up that breaks off after
`consumeSignupKey` has used up its key, and one that breaks off after
`claimStartingBalance` has lost its bonus (never given twice: `BonusOnce`); the
second of two deletions of one account at a time overwrites the balance that was
kept; the window of `FailureLockout` begins with the first failure, so nearly
twice `maxFailures` may fail within some `windowMs` (`CountedGuessesBounded` has
the exact bound), and a failure that arrives after its window is over replaces the
entry, lock and all; a balance can become negative, when two handlers decide on
the the same one. "Only the newcomer initiates offers"
(socketServer.ts 575) is no longer so: either side offers when it has something
to send. And a page that is left without closing the tab closes its socket
(`useSocket.ts` 19-23) but no longer sees it become null, so the teardown of
useVoiceChat.ts 277-288 does not run for it; its peers close their ends, and the
model takes its own for closed.

## Proofs

All theorems are about every value of the constants that satisfies the module's
named assumptions: table sizes, blinds, antes, stacks, numbers of players,
handlers, clients, keys, timers' lengths, and without the bounds on numbers of
hands or requests having any particular value.

| Theorem | Says |
|---|---|
| `EngineProofs!TypeCorrect` | `Spec => []TypeOK`; nothing becomes negative |
| `EngineProofs!StreetsArePaidFor` | `Spec => []NobodySeesAStreetCheaply` |
| `EngineProofs!RevealIsFinal` | `Spec => []EarlyRevealEndsBetting` |
| `EngineProofs!BetHasAMaker` | `Spec => []BetIsStanding` |
| `EngineProofs!TopStakeIsLive` | `Spec => []TopStakeContends` |
| `EngineProofs!PotsAreWhole` | `Spec => []PotsHoldEveryChip` |
| `EngineProofs!LoopIsTheFormula` | `Spec => []LoopMakesThesePots` |
| `EngineProofs!TheBustedSitOut` | `Spec => BustedSitOut` |
| `EngineProofs!RaisesReopen` | `Spec => FullRaiseReopens`: a full raise reopens, a short all-in does not |
| `EngineProofs!WinsAreBounded` | `Spec => WinBoundedByStake` |
| `EngineProofs!EngineKeepsCustody` | `Spec => ImplementsCustody`: the refinement of `Custody` |
| `EngineProofs!BigBlindGoesRound` | `RotationSpec => BlindsGoRound` |
| `EngineProofs!BigBlindPaysSmallNext` | `RotationSpec => BigBlindThenSmall` |
| `EngineProofs!DrawWinnerDeals` | `RotationSpec => DrawWinnerHasButton` |
| `HandBreakProofs!TypeCorrect` | `Spec => []TypeOK` |
| `HandBreakProofs!BreakStaysBounded` | `Spec => []BreakIsBounded` |
| `HandBreakProofs!BreakEndReachesPlayers` | `Spec => []BreakEndIsAnnounced` |
| `LiveTableProofs!OnlyTheDealtPlay` | `Spec => []OnlyDealtInPlay` |
| `LiveTableProofs!HeldSeatIsKept` | `Spec => []HeldSeatStaysFree` |
| `LiveTableProofs!TypeCorrect` | `Spec => []TypeOK`; no stack or tab becomes negative |
| `LiveTableProofs!BookIsRight` | `Spec => []BookAgrees` |
| `LiveTableProofs!NetIsRight` | `Spec => []NetIsReal` |
| `LiveTableProofs!ClosedGameIsSettled` | `Spec => ClosedGameIsPaid` |
| `LiveTableProofs!PutOffIsAllDone` | `Spec => PutOffIsDone` |
| `LiveTableProofs!SettlementIsRight` | `Spec => []SettlementClears` |
| `OpenSeatingProofs!TheLineIsSound` | `Spec => []LineIsSound` |
| `OpenSeatingProofs!NobodyOvertakes` | `Spec => PlaceKept` |
| `TableMoneyProofs!LedgerIsRight` | `Spec => []LedgerExplains` |
| `TableMoneyProofs!TableKeepsBank` | `Spec => ImplementsBank`: the refinement of `Bank` |
| `AccountsProofs!TypeCorrect` | `Spec => []TypeOK` |
| `AccountsProofs!OneKeyOneAccount` | `Spec => []KeyMakesOneAccount` |
| `AccountsProofs!OneBonusEach` | `Spec => []BonusOnce` |
| `AccountsProofs!LockoutTypeCorrect` | `LockoutSpec => []LockoutTypeOK` |
| `AccountsProofs!MemoryStaysBounded` | `LockoutSpec => []MemoryBounded` |
| `AccountsProofs!CountedGuessesStayBounded` | `LockoutSpec => []CountedGuessesBounded` |
| `VoiceProofs!StableAgreement` | `Spec => []StableMeansAgreed`, if `ComesBack = FALSE` |

**Engine** (`MaxSeatsAssumption`, `NoSeatAssumption`, `ConfigAssumption`: what
`createTable` is configured with; `StartingTablesAssumption`: the engine is
handed a table as `createTable` makes it, on which no hand was dealt). The
inductive invariant is `IInv`: the table is a table (`TypeOK`), in a hand it
`Rests`, and after one it is `Won`. A table that rests is

- `Playing`: nobody has more on the street than the bet (or a raise could put a
  negative number of chips in), who can still bet has paid the earlier streets
  alike, and nobody's cards are up;
- `AtRest`: somebody in the hand stands on the bet, having come to the street
  as dearly as anybody, and still will when the seat that is asked now folds:
  because they need not be asked again, or are asked last;
- `ActedWithin`: nobody acted at a higher bet than there is (a full raise must
  not find anybody who acted at it), and who has acted and can still bet had put in
  then what there was to call (so that owing less than a full raise, they have
  not met one since);
- `Staked`: somebody has put chips in, and nobody who was not dealt in has.

None of the stated properties is inductive by itself. That the bet has a maker
who can still win is lost if a fold can come from the only one who stands on it,
so the proof has to know in what order the others will be asked (`AtRest`):
before the flop the big blind is last, on later streets nobody has bet. The
proof follows the drafts as the code does: each operator takes a good draft to
a good draft (`Opening` while the forced bets are posted, `Playing` during the
hand, `InLoop` and `OnPath` inside `advance`, `Returned` when it comes out).
`AdvanceReturns` shows that the loop has ended after four turns because there
are four streets: that is why unrolling it in `Advance` loses nothing.

What is paid out is counted first, in lemmas about the operators of `Pots`: the layers hold what was put in
between two levels (`PotsFill`, `PotsAreFull`), the shares of a pot add up to it
with the odd chips (`SharesAddUp`), and what a seat can win of another's stake
is the smaller of the two (`PotsWithinReach`). `SeatSum` is written out for the
nine chairs a table can have at most, so that these are sums of nine terms. The
loop of `buildPots` is a fold over the levels from the lowest up; that it unfolds
level by level (`LoopUnfolds`) is proved as for sums, below, by looking for the
smallest set of levels that would break it, and `Carried` is its loop invariant:
a pot for each level so far that can be won, each with what was staked between the
level below and its own, the last with everything above as well. The
refinement then takes the three kinds of steps apart: the deal (`DealImplements`),
an action that leaves the hand going on, and one that ends it (`ActImplements`):
in each the chips that leave the stacks are those that reach the middle.

**Rotation**. The theorems are the last of `EngineProofs`, which extends both
modules, so what `Rotation` has of its own is named apart from the engine's
(`RotationInit`, `RotationSpec`). The invariant `Standing` says that the seats that still owe x
a big blind lie clockwise between the last big blind and x; `Between` is the
one fact of modular arithmetic it needs. `PrevOfNext` and `NextOfNext` give
the small blind and the button.

**HandBreak** (`BreakAssumption`, `NobodyAssumption`). That a break is bounded
is not inductive: what is, is that the time left is covered by the break and one
extension for each seat *counted* so far (`Accounted`), so that the limit on
the count limits the time. That the end of the break is announced needs that
the timer runs for exactly as long as the break whenever there is one
(`Armed`), which every handler that moves the break must keep, and that no
broadcast shows the seats without the end of the break (`BroadcastTells`). A change of
seats that is not shown leaves the property alone, and so does a store that
never answers; that a hand can start only when somebody knows is not claimed
(finding 13).

**LiveTable** (`TableAssumption`: at least one seat, some users who are not
bots, positive buy-ins). `OnlyDealtInPlay` and `HeldSeatStaysFree` are about
seats and not about chips, so their invariant `IInv` leaves book and balances
out: every seat is a seat (`Placed`), an occupied one is somebody's (`Occupied`),
whoever is to act has chips (`ActiveHasChips`, or a bet would take a stack below
zero), and the two properties themselves: a player is moved only into a seat that
was held, and thereby empty, and a seat is held only for one player. One lemma
(`OneSeatChanges`) says what a new record at one seat must satisfy to keep it.

That the book is right needs more; `Good` is the inductive invariant, and adds
to `IInv` and the type:

- `Sound`, what a seat can be between hands and in one. Between hands nothing
  waits and nobody is folded or all-in; who has left a hand in progress is on
  record as its leaver, with the chips they had; and who is tracked has one seat
  and one part in the hand. Without the last, leaving and sitting down elsewhere
  during a hand could have the book follow the wrong one of two seats.
- `Books`, what the book knows of the chips of each seat. It is not what the seat
  holds: during a hand the book stands where the hand began. `ChipsAreBooked`
  says that the chips it has for a player are their stakes at the deal and what
  was added since, `StakesAreBooked` that a seat's stake at the deal is what it
  holds and has put in now, `BalanceIsBooked` that a balance is the first one
  less what was bought in and plus what was taken out.

Most requests concern one seat: `OneSeatStaysSound` and `OneSeatStaysBooked` say
what that seat has to see to. A move, the deal and the end of a hand concern
several, and the end is taken in the order of the code: what is paid out is
counted (`HandIsPaidOff`), booked (`HandIsBooked`), what waits is done
(`EndDoesIt`), and players are moved, no two of them into the same seat
(`MoversAreApart`).

`SettlementClears` says two things of different kinds. That the results cancel
(`NetsCancel`, once every result is booked) follows from the hand: the whole
middle is paid out, because somebody always wins it (`MiddleGoesOut`), so no hand
creates or costs chips (`HandCostsNothing`). That the payments then clear every
debt is the settlement's own algorithm: while somebody is owed somebody owes
(`SomebodyOwes`), each payment between the largest creditor and the largest
debtor clears one of them (`PaymentClearsOne`), so there are no more payments
than players (`PaymentsClear`). The loop is a recursive function over the number
of payments, of which `PaymentsUnfold` proves that it exists.

**OpenSeating** (`SeatingAssumption`). Leaving the line filters it, which in the
model is a fold over it (`Without`). A fold is defined through a recursive function
that is chosen; that one exists, and what one more place in the line adds to it,
is proved by looking for the smallest number of places that would break it
(`FoldingExists`, `WithoutKeeps`). From then on a line is what is left of the one
before: nobody in it twice, nobody new, nobody overtaken (`WithoutLine`,
`JoinedLine`). `IInv` adds to `LineIsSound` only the types; what makes it
inductive is that the handlers hand `syncSeatOffer` the line and the seats they
leave behind, and that it keeps one of three (`SyncSeatOfferSyncs`): the offer with
its timer, a new offer with a new timer, or neither. That nobody is overtaken is about two changes in one
handler, the one it makes and the one `syncSeatOffer` makes after it, so the lemma
is that not overtaking composes (`NotOvertakenTwice`), as long as nobody is out of
the line in between and back in it afterwards.

**TableMoney** (`MoneyAssumption`: finitely many players, seats and handlers,
chips that are numbers, and something to bring). The invariant `Sound` is about
the handlers more than about the table: whatever a handler waits for, it has read
what it goes on with (`JobIsSound`), and what it has left to write is a list of
writes that is not empty. With `LedgerExplains` it is inductive. What a list comes
to for a player is a sum over it (`Total`), and what is under way is a sum over
the handlers (`UnderWay`), so that the proof is about sums: every list a handler
begins comes to as much for the ledger, hands apart, as for the balance (`MoveIsWritten`,
`CashOutIsWritten`, `PayForIsWritten`; for a reset, one seat after the other,
`RefundsAreWritten`), what a hand enters comes to nothing for either, its
results apart (`HandMoves`), and a list is worth its first write and the rest
(`TotalOfRest`, so `WriteKeeps`). Each step is then one of four (`StepsAre`): it
settles something and is nothing to the bank; it puts chips in front of a player,
who pays but for what the owner gives; players get up with what is in front of
them; or chips change hands. The last three are the steps of `Bank`.

**Accounts** (`AccountsAssumption`). One key makes one account because the key
belongs to the one handler that used it up until it has made an account
(`Keyed`); one bonus because whoever was given one has a claim (`Claimed`).
Neither the order of the deletions nor what breaks off matters.

**Lockout** (`LockoutAssumption`). The theorems are the last of `AccountsProofs`,
which extends both modules, so what `Lockout` has of its own is named apart
(`LockoutInit`, `LockoutSpec`). The map is bounded by induction as it
stands, with the type of its entries: a new one comes in only when there is room
or when another goes; and of invitations nothing is ever under way
(`AnsweredAtOnce`). That the guesses that are counted are bounded is not: the entry counts from the
first failure of its window, the property counts over any window. `Guarded` says,
for every client whose entry was not dropped, how the failures of the last window
split at the one in which the entry began: those since, with the guesses still
under way, come to less than a lock and what can be under way when it closes
(`KnownFits`), those before to one lock's worth of an earlier window, and when the
entry is stale or a lock has run out, the earlier ones are forgotten, because a
lock lasts no shorter than a window. That last is a hypothesis of the property
(`LockTicks >= WindowTicks`, as the lockout is configured), like a limit
of more than one failure.

**Voice** (`VoiceAssumption`: at least two pages, finitely many, and any bounds).
Two pages agree at rest because of all that came before, none of which the property
mentions. The inductive invariant `IInv` says it for every two people at the table:

- `Negotiates`, how far one negotiation has come. Of each side it says where its
  last offer is: not made, on its way, about to be ignored, arrived in the other's
  queue, being answered, answered with the answer on its way, or with the answer in
  the first one's queue. The two places together fix what the two connections
  are doing (`PolitePhase`, `ImpolitePhase`), what is on the way between them
  (`PoliteSays`, `ImpoliteSays`) and what each knows of the other (`Knows`). Few
  pairs of places go together (`Together`): that two offers which cross are not
  both taken, nor both ignored while somebody waits for an answer to come, is
  exactly that. `Linked` is that there are two such places, whichever of the two is
  polite. There is one lemma for each thing an end can do (`MakesOffer`,
  `SendsOffer`, `GetsOffer`, `IgnoresTheOffer`, `TakesAnswer` and others).
- `Talk`, that the two connections are `Linked` by the signals in the two inboxes.
  A page that has no connection to a peer yet will have a new one as soon as it
  hears of them, so `View` counts that one as its connection already; nothing
  changes at that moment, and introductions of other people are no matter
  (`GrowsByOne`, `GrownPageIs`). `Carries` picks the signals of one peer out
  of an inbox.
- `Half`, that what a page refers to at the other is the connection it has there
  (`Reaches`), and that who is not known yet will be heard of (`Expects`).
- `InboxInv`, that an inbox introduces nobody twice, nobody whom the page already
  has a connection to, and not after their signals (`Fresh`), and names only
  ids that were given out, and as left only those that are gone (`Proper`).

`ComesBack = FALSE` is a hypothesis, and the property is false without it: a page
whose socket came back may have offered on the connection that it replaces; its
peer answers that offer, and the page applies the answer to the new connection.
TLC finds this when asked (compare finding 3, which has the same cause). The run
of the property has the same value.

**Sums.** The library's induction theorems take an operator as a parameter and
cannot be used here, but that a set of numbers, or of subsets of a finite set,
has a smallest member is first-order (`WFMin`). `SumsProofs` therefore proves
what sums over any finite set do by looking for the smallest set that would
break the claim: the recursive function behind `SumFunctionOnSet` exists and
is unique (`SumExists`, `SumIsUnique`), and with it that a sum unfolds
(`SumUnfolds`), adds up (`SumsAdd`), changes by what one term changes
(`SumChangesAt`, `SumChangesAtTwo`), can be taken group by group (`SumOfGroups`),
stays what it is when everything moves up by one (`SumOfShifted`), and of two
lists put together is the two sums (`SumOfAppended`).

Only model-checked: `HandsEnd`, `BreaksEnd`, `FreeSeatIsOffered`, `OffersEnd`,
`LockRunsOut` and `ImpoliteIsHeard`. They are liveness properties, which the prover
does not reach. Every invariant and action property that a run checks and that
holds is a theorem.
The statements that are violated have no proof, of course.

## What is not modelled

Cards, their evaluation and the shuffle (their properties are statistical or a
library's); the order in which hands are shown; messages, projections, HTTP
routes, documents, the report's wording and the database schema; the client
except its calls, by far the largest part of the repository, which draws what the
server tells it and keeps no state that the server trusts. Of the calls: ICE
candidates, muting and video. Of LiveTable: settings that are changed during a hand and wait
for its end, seat invitations, names and characters. Of the sockets: rooms, the
rate limiter, the abandon timer of practice tables. Of the stores: SQL, and
the routing of guests to memory in `hybridStore`. Sessions and passwords. A crash,
because no game is persisted: what was on the tables is lost with them.

## Plan

1. *(done)* `Ring`, `Pots`, `BuildPots`, `Button`, `Rotation`, `Custody`,
   `Engine`, `HandBreak`, with their proofs.
2. *(done)* `GameBook` and `LiveTable`; `OpenSeating`; `Bank`, `TableMoney` and
   `TableClosing`; `Accounts`; `Lockout`; `Voice`; proofs for `LiveTable`,
   `Accounts` and `Lockout`.
3. Left to model: settings and invitations in `LiveTable`; practice tables with
   their mutex and abandon timer; sessions; `hybridStore`; what `settleHand`
   enters for a hand against what `bookHand` books for it (finding 14 and the
   chips added during a hand).
4. *(done)* the engine's bets, pots, the loop that makes them and the refinement of `Custody`; sums over
   finite sets; the book, the end of a hand and the settlement of `LiveTable`; the
   line of `OpenSeating`; the calls of `Voice`;
   the guesses that `Lockout` lets through; the refinement of `Bank` and the ledger
   of `TableMoney`.
5. Left to prove: nothing that a run checks and the prover reaches.
