------------------------------ MODULE Accounts ------------------------------
(***************************************************************************)
(* Registering with an access key, deleting the account and registering    *)
(* again (authService.ts, DELETE /users/me and /admin/users/:id), step by  *)
(* step between the store's answers.  A person is one Google account with  *)
(* one email address.  Any handler may break off where it waits: the       *)
(* process stops, or the store refuses.                                    *)
(***************************************************************************)
EXTENDS Integers, FiniteSets

CONSTANTS
  People, Keys, Handlers,
  NoAccount,
  KeyHolder,       \* Keys -> the people a key may register
  Bonus,           \* WELCOME_BONUS
  NothingKept,
  MaxChips,        \* bound on a balance
  MaxAccounts      \* bound on the accounts ever made

ASSUME AccountsAssumption ==
  /\ KeyHolder \in [Keys -> SUBSET People]
  /\ Bonus \in Nat \ {0} /\ MaxChips \in Nat /\ MaxAccounts \in Nat
  /\ NothingKept \notin Nat /\ NoAccount \notin [id : Nat, chips : Int]

VARIABLES
  account,     \* the users row of each person: its id and balance
  ids,         \* the last id given
  usedKeys,
  claims,      \* people with a welcomeBonusClaims row
  carried,     \* carriedBalance of that row
  job,         \* what each handler is about to do
  madeWith,    \* history: the ids made with each key
  bonuses      \* history: how often each person was given the bonus

vars == <<account, ids, usedKeys, claims, carried, job, madeWith, bonuses>>

Idle == [at |-> "idle"]
Registered(p) == account[p] # NoAccount

Init ==
  /\ account = [p \in People |-> NoAccount] /\ ids = 0
  /\ usedKeys = {} /\ claims = {} /\ carried = [p \in People |-> NothingKept]
  /\ job = [h \in Handlers |-> Idle]
  /\ madeWith = [k \in Keys |-> {}] /\ bonuses = [p \in People |-> 0]

Goes(h, j) == job' = [job EXCEPT ![h] = j]
At(h, step) == job[h].at = step
Then(h, step) == Goes(h, [job[h] EXCEPT !.at = step])

(***************************************************************************)
(* loginOrRegisterWithGoogle                                               *)
(***************************************************************************)
SignIn(h, p, k) ==
  /\ At(h, "idle")
  /\ Goes(h, [at |-> "email", who |-> p, key |-> k])
  /\ UNCHANGED <<account, ids, usedKeys, claims, carried, madeWith, bonuses>>

\* findUserByGoogleId and findUserByEmail: who has an account is signed in.
FindUser(h) ==
  /\ At(h, "email")
  /\ IF Registered(job[h].who) THEN Goes(h, Idle) ELSE Then(h, "key")
  /\ UNCHANGED <<account, ids, usedKeys, claims, carried, madeWith, bonuses>>

\* Mutant: whether the key is still usable was looked at before.
UsableAsRead(k, p) == p \in KeyHolder[k]
Usable(k, p) == k \notin usedKeys /\ p \in KeyHolder[k]

ConsumeSignupKey(h) ==
  /\ At(h, "key")
  /\ IF Usable(job[h].key, job[h].who)
     THEN usedKeys' = usedKeys \cup {job[h].key} /\ Then(h, "create")
     ELSE Goes(h, Idle) /\ UNCHANGED usedKeys      \* INVALID_SIGNUP_KEY
  /\ UNCHANGED <<account, ids, claims, carried, madeWith, bonuses>>

\* The Google id is unique in the table: the second of two inserts throws,
\* with its key used up.
CreateGoogleAccount(h) ==
  /\ At(h, "create") /\ ids < MaxAccounts
  /\ LET p == job[h].who IN
     IF Registered(p)
     THEN Goes(h, Idle) /\ UNCHANGED <<account, ids, madeWith>>
     ELSE /\ ids' = ids + 1
          /\ account' = [account EXCEPT ![p] = [id |-> ids', chips |-> 0]]
          /\ madeWith' = [madeWith EXCEPT ![job[h].key] = @ \cup {ids'}]
          /\ Goes(h, [at |-> "claim", who |-> p, id |-> ids'])
  /\ UNCHANGED <<usedKeys, claims, carried, bonuses>>

Fund(h, amount) ==
  IF amount > 0 THEN Goes(h, [at |-> "fund", who |-> job[h].who, id |-> job[h].id, amount |-> amount])
  ELSE Goes(h, Idle)

\* Mutant: only a balance that is kept tells that somebody has been here.
HasClaimToKeep(p) == p \in claims /\ carried[p] # NothingKept
HasClaim(p) == p \in claims
\* claimStartingBalance, its insert: the row is there once and for all.
ClaimBonus(h) ==
  /\ At(h, "claim")
  /\ LET p == job[h].who IN
     IF HasClaim(p) THEN Then(h, "restore") /\ UNCHANGED <<claims, bonuses>>
     ELSE /\ claims' = claims \cup {p}
          /\ bonuses' = [bonuses EXCEPT ![p] = @ + 1]
          /\ Fund(h, Bonus)
  /\ UNCHANGED <<account, ids, usedKeys, carried, madeWith>>

\* Its second statement: what was kept is read and cleared in one.
Restore(h) ==
  /\ At(h, "restore")
  /\ LET p == job[h].who IN
     /\ Fund(h, IF carried[p] = NothingKept THEN 0 ELSE carried[p])
     /\ carried' = [carried EXCEPT ![p] = NothingKept]
  /\ UNCHANGED <<account, ids, usedKeys, claims, madeWith, bonuses>>

\* adjustUserChips: throws if the account is gone by now.
Adjusted(p, id, amount) ==
  IF Registered(p) /\ account[p].id = id
  THEN [account EXCEPT ![p].chips = @ + amount] ELSE account

FundAccount(h) ==
  /\ At(h, "fund")
  /\ account' = Adjusted(job[h].who, job[h].id, job[h].amount)
  /\ Goes(h, Idle)
  /\ UNCHANGED <<ids, usedKeys, claims, carried, madeWith, bonuses>>

(***************************************************************************)
(* Deleting an account: by its holder, whose balance is kept, or by the    *)
(* owner, who keeps nothing of it.                                         *)
(***************************************************************************)
AskDelete(h, p) ==
  /\ At(h, "idle") /\ Registered(p)
  /\ \E step \in {"read", "delete"} :
       Goes(h, [at |-> step, who |-> p, id |-> account[p].id, amount |-> account[p].chips])
  /\ UNCHANGED <<account, ids, usedKeys, claims, carried, madeWith, bonuses>>

\* The balance again after the practice table is closed, if the account is still there.
ReadBalance(h) ==
  /\ At(h, "read")
  /\ LET p == job[h].who IN
     Goes(h, [job[h] EXCEPT !.at = "keep",
                !.amount = IF Registered(p) /\ account[p].id = job[h].id THEN account[p].chips ELSE @])
  /\ UNCHANGED <<account, ids, usedKeys, claims, carried, madeWith, bonuses>>

KeepBalanceForReturn(h) ==
  /\ At(h, "keep")
  /\ carried' = [carried EXCEPT ![job[h].who] = job[h].amount]
  /\ claims' = claims \cup {job[h].who}
  /\ Then(h, "delete")
  /\ UNCHANGED <<account, ids, usedKeys, madeWith, bonuses>>

DeleteUser(h) ==
  /\ At(h, "delete")
  /\ LET p == job[h].who IN
     account' = IF Registered(p) /\ account[p].id = job[h].id
                THEN [account EXCEPT ![p] = NoAccount] ELSE account
  /\ Goes(h, Idle)
  /\ UNCHANGED <<ids, usedKeys, claims, carried, madeWith, bonuses>>

\* Chips won and lost, given and taken away.
Play(p) ==
  /\ Registered(p)
  /\ \E n \in {-1, 1} :
       /\ account[p].chips + n \in 0 .. MaxChips
       /\ account' = Adjusted(p, account[p].id, n)
  /\ UNCHANGED <<ids, usedKeys, claims, carried, job, madeWith, bonuses>>

BreakOff(h) ==
  /\ ~At(h, "idle") /\ Goes(h, Idle)
  /\ UNCHANGED <<account, ids, usedKeys, claims, carried, madeWith, bonuses>>

Next ==
  \/ \E h \in Handlers, p \in People : AskDelete(h, p) \/ \E k \in Keys : SignIn(h, p, k)
  \/ \E h \in Handlers :
       \/ FindUser(h) \/ ConsumeSignupKey(h) \/ CreateGoogleAccount(h) \/ ClaimBonus(h)
       \/ Restore(h) \/ FundAccount(h) \/ ReadBalance(h) \/ KeepBalanceForReturn(h)
       \/ DeleteUser(h) \/ BreakOff(h)
  \/ \E p \in People : Play(p)

Spec == Init /\ [][Next]_vars

(***************************************************************************)
(* Properties.                                                             *)
(***************************************************************************)
\* What a handler is about to do, and every variable what it should be.
SigningUp == [at : {"email", "key", "create"}, who : People, key : Keys]
Starting == [at : {"claim", "restore"}, who : People, id : Nat]
Funding == [at : {"fund"}, who : People, id : Nat, amount : Nat]
Deleting == [at : {"read", "keep", "delete"}, who : People, id : Nat, amount : Nat]
Jobs == {Idle} \cup SigningUp \cup Starting \cup Funding \cup Deleting

TypeOK ==
  /\ account \in [People -> [id : Nat, chips : Nat] \cup {NoAccount}]
  /\ ids \in 0 .. MaxAccounts
  /\ usedKeys \subseteq Keys /\ claims \subseteq People
  /\ carried \in [People -> Nat \cup {NothingKept}]
  /\ job \in [Handlers -> Jobs]
  /\ madeWith \in [Keys -> SUBSET (1 .. MaxAccounts)]
  /\ bonuses \in [People -> Nat]

\* "granted once per person -- ever" (WELCOME_BONUS): whatever a person deletes
\* and registers again, from however many devices, and wherever it breaks off.
BonusOnce == \A p \in People : bonuses[p] <= 1

\* "one key, one account", however many sign-ups race for it.
KeyMakesOneAccount ==
  \A k \in Keys : Cardinality(madeWith[k]) <= 1
=============================================================================
