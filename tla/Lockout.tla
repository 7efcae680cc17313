------------------------------- MODULE Lockout -------------------------------
(***************************************************************************)
(* FailureLockout, and those who ask it: a client that has failed too often *)
(* within a time is refused for a while.  There are two (lockouts.ts):     *)
(*                                                                         *)
(*   keys     POST /auth/signup-key and /auth/google.  Whether an access   *)
(*            key is right is known only when the store has answered, so a *)
(*            client may have guesses under way that were let in before    *)
(*            its lock.                                                    *)
(*   invites  GET /invites/:token, POST /auth/guest and join-table.  The   *)
(*            answer is known at once.  join-table looks at the code       *)
(*            before it asks the lock: the right one is let in always, and *)
(*            a wrong one is not counted while the client is locked (nor,  *)
(*            ever, that of an account that may only practise).            *)
(*                                                                         *)
(* Time is told in ticks from now: how old a window is (up to where age no *)
(* longer matters) and how long a lock still lasts.                        *)
(***************************************************************************)
EXTENDS Integers, FiniteSets, Functions

CONSTANTS
  Clients,
  MaxFailures,
  WindowTicks,     \* windowMs
  LockTicks,       \* lockMs
  MaxClients,
  MaxUnderWay      \* bound on the guesses a client has under way

ASSUME LockoutAssumption ==
  /\ IsFiniteSet(Clients)
  /\ MaxFailures \in Nat \ {0} /\ MaxClients \in Nat \ {0}
  /\ WindowTicks \in Nat \ {0} /\ LockTicks \in Nat \ {0} /\ MaxUnderWay \in Nat

VARIABLES
  guards,     \* which of the two this is: it never changes
  clients,    \* the map: failures, age of the window, ticks left of the lock
  underWay,   \* guesses each client is waiting for
  failed,     \* history: guesses counted as wrong, by how many ticks ago
  evicted,    \* history: clients the map has dropped to stay small
  inside      \* history: clients a table has let in by its code

lockoutVars == <<guards, clients, underWay, failed, evicted, inside>>

Entry == [failures : Nat \ {0}, age : 0 .. WindowTicks + 1, lock : 0 .. LockTicks]
Fresh == [failures |-> 0, age |-> 0, lock |-> 0]
Recently == 0 .. WindowTicks - 1
NeverFailed == [n \in Recently |-> 0]

Known(c) == c \in DOMAIN clients
Locked(c) == Known(c) /\ clients[c].lock > 0
\* t - windowStart > windowMs
Stale(c) == clients[c].age > WindowTicks

LockoutInit ==
  /\ guards \in {"keys", "invites"}
  /\ clients = << >>
  /\ underWay = [c \in Clients |-> 0]
  /\ failed = [c \in Clients |-> NeverFailed]
  /\ evicted = {} /\ inside = {}

Without(c) == Restrict(clients, DOMAIN clients \ {c})
\* Mutant: an entry is forgotten whenever it is asked for.
ForgetAny(c) == Without(c)
ForgetStale(c) == IF Known(c) /\ Stale(c) THEN Without(c) ELSE clients

\* retryAfterMs is 0: a stale entry is forgotten on the way.
MayTry(c) == ~Locked(c)

(***************************************************************************)
(* Access keys: asked, answered by the store, and counted if wrong.        *)
(***************************************************************************)
Try(c) ==
  /\ guards = "keys" /\ underWay[c] < MaxUnderWay
  /\ MayTry(c)
  /\ underWay' = [underWay EXCEPT ![c] = @ + 1]
  /\ clients' = ForgetStale(c)
  /\ UNCHANGED <<guards, failed, evicted, inside>>

Succeed(c) ==
  /\ underWay[c] > 0 /\ underWay' = [underWay EXCEPT ![c] = @ - 1]
  /\ UNCHANGED <<guards, clients, failed, evicted, inside>>

\* evictOne: one whose lock is over, if there is one.
Evictable ==
  LET free == {d \in DOMAIN clients : clients[d].lock = 0}
  IN  IF free # {} THEN free ELSE DOMAIN clients

Counted(e) ==
  [e EXCEPT !.failures = @ + 1, !.lock = IF e.failures + 1 >= MaxFailures THEN LockTicks ELSE @]

With(c, e, rest) == [d \in DOMAIN rest \cup {c} |-> IF d = c THEN e ELSE rest[d]]

\* Mutant: one client too many.
HasRoomForOneMore == Cardinality(DOMAIN clients) <= MaxClients
HasRoom == Cardinality(DOMAIN clients) < MaxClients

\* recordFailure: a new window if there is none, or the old one is over -- and
\* with it a lock that was not.
RecordFailure(c) ==
  IF Known(c) /\ ~Stale(c)
  THEN clients' = With(c, Counted(clients[c]), clients) /\ UNCHANGED evicted
  ELSE IF Known(c) \/ HasRoom
  THEN clients' = With(c, Counted(Fresh), clients) /\ UNCHANGED evicted
  ELSE \E d \in Evictable :
         /\ clients' = With(c, Counted(Fresh), Without(d))
         /\ evicted' = evicted \cup {d}

IsCounted(c) ==
  /\ RecordFailure(c)
  /\ failed' = [d \in Clients |-> IF d \in evicted' THEN NeverFailed
                                 ELSE IF d = c THEN [failed[d] EXCEPT ![0] = @ + 1]
                                 ELSE failed[d]]

Fail(c) ==
  /\ underWay[c] > 0 /\ underWay' = [underWay EXCEPT ![c] = @ - 1]
  /\ IsCounted(c)
  /\ UNCHANGED <<guards, inside>>

(***************************************************************************)
(* Invitations: asked, answered and counted in one go.                     *)
(***************************************************************************)
\* GET /invites/:token and POST /auth/guest know the invitation.
FindInvite(c) ==
  /\ guards = "invites" /\ MayTry(c)
  /\ clients' = ForgetStale(c)
  /\ UNCHANGED <<guards, underWay, failed, evicted, inside>>

\* None of the three knows it.  (A stale entry is forgotten on the way, and
\* begun anew at once.)
MissInvite(c) ==
  /\ guards = "invites" /\ MayTry(c)
  /\ IsCounted(c)
  /\ UNCHANGED <<guards, underWay, inside>>

\* join-table with the right code.
JoinTable(c) ==
  /\ guards = "invites"
  /\ inside' = inside \cup {c}
  /\ UNCHANGED <<guards, clients, underWay, failed, evicted>>

\* Mutant: a lock ends with its window only.
OlderWindow(e) == [e EXCEPT !.age = IF @ > WindowTicks THEN @ ELSE @ + 1]
Older(e) ==
  [e EXCEPT !.age = IF @ > WindowTicks THEN @ ELSE @ + 1, !.lock = IF @ = 0 THEN 0 ELSE @ - 1]

Tick ==
  /\ clients' = [c \in DOMAIN clients |-> Older(clients[c])]
  /\ failed' = [c \in Clients |-> [n \in Recently |-> IF n = 0 THEN 0 ELSE failed[c][n - 1]]]
  /\ UNCHANGED <<guards, underWay, evicted, inside>>

LockoutNext ==
  \/ Tick
  \/ \E c \in Clients : \/ Try(c) \/ Succeed(c) \/ Fail(c)
                         \/ FindInvite(c) \/ MissInvite(c) \/ JoinTable(c)

\* Time goes on.
LockoutSpec == LockoutInit /\ [][LockoutNext]_lockoutVars /\ WF_lockoutVars(Tick)

(***************************************************************************)
(* Properties.                                                             *)
(***************************************************************************)
LockoutTypeOK ==
  /\ guards \in {"keys", "invites"}
  /\ DOMAIN clients \subseteq Clients
  /\ \A c \in DOMAIN clients : clients[c] \in Entry
  /\ underWay \in [Clients -> 0 .. MaxUnderWay]
  /\ failed \in [Clients -> [Recently -> Nat]]
  /\ evicted \subseteq Clients /\ inside \subseteq Clients

\* The map never holds more than maxClients, whoever fails.
MemoryBounded == Cardinality(DOMAIN clients) <= MaxClients

Failures(c) == SumFunction(failed[c])

\* Guesses of a client that are between the question and the count at once.
Concurrent == IF guards = "keys" THEN MaxUnderWay ELSE 1

\* However a client spreads its guesses, and whatever it has under way when it
\* is locked out, within one windowMs it has at most twice what is counted
\* before a lock: MaxFailures - 1, and the guesses under way but for the one
\* that locks or forgets -- for access keys; for invitations twice MaxFailures - 1.
\* (Not MaxFailures, as the class comment has it: the window begins with the
\* first failure and does not slide.)  Only who was evicted from a full map may
\* have more.  It is about the guesses that are counted: join-table answers
\* others, as LockedStayOut says.
CountedGuessesBounded ==
  MaxFailures > 1 /\ LockTicks >= WindowTicks =>
    \A c \in Clients \ evicted : Failures(c) <= 2 * (MaxFailures - 1 + Concurrent - 1)

\* lockouts.ts 14: "Invite codes that match nothing: 10 in 15 minutes locks the
\* address out for 15 minutes", and failureLockout.ts 6-7: "this stops a client that
\* keeps getting it wrong".  It does not hold: a client that is locked may go on
\* guessing at join-table, uncounted, and the right code lets it in
\* (socketServer.ts 647-661).
LockedStayOut ==
  [][\A c \in Clients : Locked(c) /\ c \notin inside => c \notin inside']_lockoutVars

\* Nobody is locked out for good, however they go on trying.
LockRunsOut == \A c \in Clients : Locked(c) ~> ~Locked(c)
==============================================================================
