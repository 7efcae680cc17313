--------------------------- MODULE AccountsProofs ---------------------------
(***************************************************************************)
(* One key, one account, and one bonus a person: for any number of people, *)
(* keys, accounts and requests under way.  Then what those who ask too     *)
(* often are up against (module Lockout): the memory of the failure        *)
(* counter and the guesses it lets through, for any number of clients, any *)
(* limits and any length of the window and of the lock.                    *)
(***************************************************************************)
EXTENDS Accounts, Lockout, SumsProofs

\* A key belongs to the one handler that has used it up, until an account is
\* made with it.
Keyed ==
  /\ \A k \in Keys : madeWith[k] # {} => k \in usedKeys
  /\ \A k \in Keys : \A i, j \in madeWith[k] : i = j
  /\ \A h \in Handlers : At(h, "create") => job[h].key \in usedKeys /\ madeWith[job[h].key] = {}
  /\ \A g, h \in Handlers :
       At(g, "create") /\ At(h, "create") /\ job[g].key = job[h].key => g = h

\* Who has had the bonus has a claim.
Claimed ==
  \A p \in People : bonuses[p] <= 1 /\ (p \notin claims => bonuses[p] = 0)

IInv == TypeOK /\ Keyed /\ Claimed

-----------------------------------------------------------------------------
\* Whatever a handler turns to, if it is not to make an account: the keys are
\* as they were.
LEMMA TurnsToSomethingElse ==
  ASSUME TypeOK, Keyed, NEW h \in Handlers, NEW j \in Jobs, j.at # "create", Goes(h, j),
         usedKeys' = usedKeys, madeWith' = madeWith
  PROVE  job' \in [Handlers -> Jobs] /\ Keyed'
<1>1. job' \in [Handlers -> Jobs]
  BY DEF TypeOK, Goes
<1>2. \A g \in Handlers : At(g, "create")' => At(g, "create") /\ job'[g] = job[g]
  BY DEF TypeOK, Goes, At
<1>. QED
  BY <1>1, <1>2 DEF Keyed

\* Where a handler is tells what it holds.
LEMMA HandlerIsAt ==
  ASSUME TypeOK, NEW h \in Handlers
  PROVE  /\ job[h].at \in {"email", "key", "create"} => job[h] \in SigningUp
         /\ job[h].at \in {"claim", "restore"} => job[h] \in Starting
         /\ job[h].at = "fund" => job[h] \in Funding
         /\ job[h].at \in {"read", "keep", "delete"} => job[h] \in Deleting
<1>1. job[h] \in Jobs
  BY DEF TypeOK
<1>. QED
  BY <1>1 DEF Jobs, Idle, SigningUp, Starting, Funding, Deleting

LEMMA IdleIsAJob == Idle \in Jobs /\ Idle.at = "idle"
BY DEF Jobs, Idle

LEMMA IInvInit == Init => IInv
<1>. SUFFICES ASSUME Init PROVE IInv
  OBVIOUS
<1>1. TypeOK
  BY AccountsAssumption, IdleIsAJob DEF Init, TypeOK
<1>2. Keyed /\ Claimed
  BY IdleIsAJob DEF Init, Keyed, Claimed, At
<1>. QED
  BY <1>1, <1>2 DEF IInv

-----------------------------------------------------------------------------
\* Signing up.
LEMMA SignInKeeps ==
  ASSUME IInv, NEW h \in Handlers, NEW p \in People, NEW k \in Keys, SignIn(h, p, k)
  PROVE  IInv'
<1>. DEFINE j == [at |-> "email", who |-> p, key |-> k]
<1>1. j \in Jobs /\ j.at # "create"
  BY DEF Jobs, SigningUp
<1>2. job' \in [Handlers -> Jobs] /\ Keyed'
  BY <1>1, TurnsToSomethingElse DEF IInv, SignIn
<1>. QED
  BY <1>2 DEF IInv, TypeOK, Claimed, SignIn

LEMMA FindUserKeeps ==
  ASSUME IInv, NEW h \in Handlers, FindUser(h)
  PROVE  IInv'
<1>. DEFINE j == [job[h] EXCEPT !.at = "key"]
<1>1. job[h] \in SigningUp
  BY HandlerIsAt DEF IInv, FindUser, At
<1>2. j \in Jobs /\ j.at # "create"
  BY <1>1 DEF Jobs, SigningUp
<1>3. job' \in [Handlers -> Jobs] /\ Keyed'
  BY <1>2, IdleIsAJob, TurnsToSomethingElse DEF IInv, FindUser, Then
<1>. QED
  BY <1>3 DEF IInv, TypeOK, Claimed, FindUser

\* The key that is used up now was free: nobody has made an account with it,
\* and nobody else is about to.
LEMMA ConsumeSignupKeyKeeps ==
  ASSUME IInv, NEW h \in Handlers, ConsumeSignupKey(h)
  PROVE  IInv'
<1>. DEFINE k == job[h].key
            j == [job[h] EXCEPT !.at = "create"]
<1>1. job[h] \in SigningUp
  BY HandlerIsAt DEF IInv, ConsumeSignupKey, At
<1>2. CASE Usable(k, job[h].who)
  <2>1. usedKeys' = usedKeys \cup {k} /\ Goes(h, j)
    BY <1>2 DEF ConsumeSignupKey, Then
  <2>2. j \in Jobs /\ j.key = k /\ k \in Keys /\ k \notin usedKeys
    BY <1>1, <1>2 DEF Jobs, SigningUp, Usable
  <2>3. job' \in [Handlers -> Jobs] /\ job'[h] = j
    BY <2>1, <2>2 DEF IInv, TypeOK, Goes
  <2>4. \A g \in Handlers \ {h} : job'[g] = job[g] /\ (At(g, "create") => job[g].key # k)
    BY <2>1, <2>2 DEF IInv, TypeOK, Goes, Keyed
  <2>5. madeWith[k] = {} /\ madeWith' = madeWith
    BY <2>2 DEF IInv, Keyed, ConsumeSignupKey
  <2>6. \A g \in Handlers : At(g, "create")' =>
          \/ g = h /\ job'[g].key = k
          \/ g # h /\ At(g, "create") /\ job'[g] = job[g] /\ job[g].key # k
    BY <2>2, <2>3, <2>4 DEF At
  <2>7. \A l \in Keys : l \in usedKeys => l \in usedKeys'
    BY <2>1
  <2>8. k \in usedKeys'
    BY <2>1
  <2>9. \A g \in Handlers : At(g, "create") => job[g].key \in usedKeys'
    BY <2>1 DEF IInv, Keyed
  <2>10. Keyed'
    <3>1. \A g \in Handlers :
            At(g, "create")' => (job[g].key)' \in usedKeys' /\ madeWith'[(job[g].key)'] = {}
      BY <2>5, <2>6, <2>8, <2>9 DEF IInv, Keyed
    <3>2. \A f, g \in Handlers :
            At(f, "create")' /\ At(g, "create")' /\ (job[f].key)' = (job[g].key)' => f = g
      BY <2>6 DEF IInv, Keyed
    <3>. QED
      BY <2>5, <2>7, <3>1, <3>2 DEF IInv, Keyed
  <2>. QED
    BY <2>1, <2>2, <2>3, <2>10 DEF IInv, TypeOK, Claimed, ConsumeSignupKey
<1>3. CASE ~Usable(k, job[h].who)
  <2>1. job' \in [Handlers -> Jobs] /\ Keyed'
    BY <1>3, IdleIsAJob, TurnsToSomethingElse DEF IInv, ConsumeSignupKey
  <2>. QED
    BY <1>3, <2>1 DEF IInv, TypeOK, Claimed, ConsumeSignupKey
<1>. QED
  BY <1>2, <1>3

\* The account made now is the first with its key, which nobody else holds.
LEMMA CreateGoogleAccountKeeps ==
  ASSUME IInv, NEW h \in Handlers, CreateGoogleAccount(h)
  PROVE  IInv'
<1>. DEFINE p == job[h].who
            k == job[h].key
            j == [at |-> "claim", who |-> p, id |-> ids']
<1>1. job[h] \in SigningUp /\ At(h, "create")
  BY HandlerIsAt DEF IInv, CreateGoogleAccount, At
<1>2. p \in People /\ k \in Keys
  BY <1>1 DEF SigningUp
<1>3. CASE Registered(p)
  <2>1. job' \in [Handlers -> Jobs] /\ Keyed'
    BY <1>3, IdleIsAJob, TurnsToSomethingElse DEF IInv, CreateGoogleAccount
  <2>. QED
    BY <1>3, <2>1 DEF IInv, TypeOK, Claimed, CreateGoogleAccount
<1>4. CASE ~Registered(p)
  <2>1. /\ ids' = ids + 1 /\ ids' \in 1 .. MaxAccounts
        /\ account' = [account EXCEPT ![p] = [id |-> ids', chips |-> 0]]
        /\ madeWith' = [madeWith EXCEPT ![k] = @ \cup {ids'}]
        /\ Goes(h, j) /\ usedKeys' = usedKeys
    BY <1>4, AccountsAssumption DEF CreateGoogleAccount, IInv, TypeOK
  <2>2. j \in Jobs /\ j.at = "claim"
    BY <1>2, <2>1 DEF Jobs, Starting
  <2>3. job' \in [Handlers -> Jobs] /\ job'[h] = j
    BY <2>1, <2>2 DEF IInv, TypeOK, Goes
  <2>4. madeWith[k] = {} /\ k \in usedKeys
    BY <1>1 DEF IInv, Keyed
  <2>5. madeWith'[k] = {ids'} /\ \A l \in Keys \ {k} : madeWith'[l] = madeWith[l]
    BY <1>2, <2>1, <2>4 DEF IInv, TypeOK
  <2>6. \A g \in Handlers : At(g, "create")' =>
          g # h /\ At(g, "create") /\ job'[g] = job[g] /\ job[g].key # k
    BY <1>1, <2>1, <2>2, <2>3 DEF IInv, TypeOK, Goes, At, Keyed
  <2>7. \A g \in Handlers : At(g, "create") => job[g].key \in Keys
    BY HandlerIsAt DEF IInv, At, SigningUp
  <2>8. Keyed'
    BY <2>1, <2>4, <2>5, <2>6, <2>7 DEF IInv, Keyed
  <2>9. account' \in [People -> [id : Nat, chips : Nat] \cup {NoAccount}]
    BY <1>2, <2>1 DEF IInv, TypeOK
  <2>10. madeWith' \in [Keys -> SUBSET (1 .. MaxAccounts)]
    BY <1>2, <2>1 DEF IInv, TypeOK
  <2>. QED
    BY <2>1, <2>3, <2>8, <2>9, <2>10 DEF IInv, TypeOK, Claimed, CreateGoogleAccount
<1>. QED
  BY <1>3, <1>4

-----------------------------------------------------------------------------
\* The balance a new account starts with.
LEMMA FundIsAJob ==
  ASSUME TypeOK, Keyed, NEW h \in Handlers, job[h] \in Starting, NEW amount \in Nat, Fund(h, amount),
         usedKeys' = usedKeys, madeWith' = madeWith
  PROVE  job' \in [Handlers -> Jobs] /\ Keyed'
<1>. DEFINE j == [at |-> "fund", who |-> job[h].who, id |-> job[h].id, amount |-> amount]
<1>1. j \in Jobs /\ j.at # "create"
  BY DEF Jobs, Starting, Funding
<1>. QED
  BY <1>1, IdleIsAJob, TurnsToSomethingElse DEF Fund

LEMMA ClaimBonusKeeps ==
  ASSUME IInv, NEW h \in Handlers, ClaimBonus(h)
  PROVE  IInv'
<1>. DEFINE p == job[h].who
            j == [job[h] EXCEPT !.at = "restore"]
<1>1. job[h] \in Starting /\ p \in People
  BY HandlerIsAt DEF IInv, ClaimBonus, At, Starting
<1>2. CASE HasClaim(p)
  <2>1. j \in Jobs /\ j.at # "create"
    BY <1>1 DEF Jobs, Starting
  <2>2. job' \in [Handlers -> Jobs] /\ Keyed'
    BY <1>2, <2>1, TurnsToSomethingElse DEF IInv, ClaimBonus, Then
  <2>. QED
    BY <1>2, <2>2 DEF IInv, TypeOK, Claimed, ClaimBonus
<1>3. CASE ~HasClaim(p)
  <2>1. job' \in [Handlers -> Jobs] /\ Keyed'
    BY <1>1, <1>3, AccountsAssumption, FundIsAJob DEF IInv, ClaimBonus
  <2>2. claims' = claims \cup {p} /\ bonuses' = [bonuses EXCEPT ![p] = @ + 1] /\ bonuses[p] = 0
    BY <1>1, <1>3 DEF ClaimBonus, HasClaim, IInv, Claimed
  <2>3. Claimed' /\ bonuses' \in [People -> Nat]
    BY <1>1, <2>2 DEF IInv, TypeOK, Claimed
  <2>. QED
    BY <1>1, <2>1, <2>2, <2>3 DEF IInv, TypeOK, ClaimBonus
<1>. QED
  BY <1>2, <1>3

LEMMA RestoreKeeps ==
  ASSUME IInv, NEW h \in Handlers, Restore(h)
  PROVE  IInv'
<1>. DEFINE p == job[h].who
            amount == IF carried[p] = NothingKept THEN 0 ELSE carried[p]
<1>1. job[h] \in Starting /\ p \in People
  BY HandlerIsAt DEF IInv, Restore, At, Starting
<1>2. amount \in Nat
  BY <1>1 DEF IInv, TypeOK
<1>3. job' \in [Handlers -> Jobs] /\ Keyed'
  BY <1>1, <1>2, FundIsAJob DEF IInv, Restore
<1>. QED
  BY <1>1, <1>3 DEF IInv, TypeOK, Claimed, Restore

\* A balance stays a balance.
LEMMA AdjustedType ==
  ASSUME TypeOK, NEW p \in People, NEW id \in Nat, NEW amount \in Int,
         Registered(p) => account[p].chips + amount >= 0
  PROVE  Adjusted(p, id, amount) \in [People -> [id : Nat, chips : Nat] \cup {NoAccount}]
<1>1. CASE Registered(p) /\ account[p].id = id
  <2>1. account[p] \in [id : Nat, chips : Nat]
    BY <1>1 DEF TypeOK, Registered
  <2>2. [account[p] EXCEPT !.chips = @ + amount] \in [id : Nat, chips : Nat]
    BY <1>1, <2>1
  <2>3. Adjusted(p, id, amount) = [account EXCEPT ![p] = [account[p] EXCEPT !.chips = @ + amount]]
    BY <1>1 DEF Adjusted
  <2>. QED
    BY <2>2, <2>3 DEF TypeOK
<1>2. CASE ~(Registered(p) /\ account[p].id = id)
  BY <1>2 DEF Adjusted, TypeOK
<1>. QED
  BY <1>1, <1>2

LEMMA FundAccountKeeps ==
  ASSUME IInv, NEW h \in Handlers, FundAccount(h)
  PROVE  IInv'
<1>. DEFINE p == job[h].who
<1>1. job[h] \in Funding
  BY HandlerIsAt DEF IInv, FundAccount, At
<1>2. p \in People /\ job[h].id \in Nat /\ job[h].amount \in Nat
  BY <1>1 DEF Funding
<1>3. Registered(p) => account[p].chips + job[h].amount >= 0
  BY <1>2 DEF IInv, TypeOK, Registered
<1>4. account' \in [People -> [id : Nat, chips : Nat] \cup {NoAccount}]
  BY <1>2, <1>3, AdjustedType DEF IInv, FundAccount
<1>5. job' \in [Handlers -> Jobs] /\ Keyed'
  BY IdleIsAJob, TurnsToSomethingElse DEF IInv, FundAccount
<1>. QED
  BY <1>4, <1>5 DEF IInv, TypeOK, Claimed, FundAccount

LEMMA PlayKeeps ==
  ASSUME IInv, NEW p \in People, Play(p)
  PROVE  IInv'
<1>1. PICK n \in {-1, 1} : /\ account[p].chips + n \in 0 .. MaxChips
                           /\ account' = Adjusted(p, account[p].id, n)
  BY DEF Play
<1>2. account[p] \in [id : Nat, chips : Nat]
  BY DEF Play, Registered, IInv, TypeOK
<1>3. account' \in [People -> [id : Nat, chips : Nat] \cup {NoAccount}]
  BY <1>1, <1>2, AdjustedType, AccountsAssumption DEF IInv
<1>. QED
  BY <1>3 DEF IInv, TypeOK, Keyed, Claimed, At, Play

-----------------------------------------------------------------------------
\* Deleting an account.
LEMMA AskDeleteKeeps ==
  ASSUME IInv, NEW h \in Handlers, NEW p \in People, AskDelete(h, p)
  PROVE  IInv'
<1>1. PICK step \in {"read", "delete"} :
        Goes(h, [at |-> step, who |-> p, id |-> account[p].id, amount |-> account[p].chips])
  BY DEF AskDelete
<1>. DEFINE j == [at |-> step, who |-> p, id |-> account[p].id, amount |-> account[p].chips]
<1>2. account[p] \in [id : Nat, chips : Nat]
  BY DEF AskDelete, Registered, IInv, TypeOK
<1>3. j \in Jobs /\ j.at # "create"
  BY <1>2 DEF Jobs, Deleting
<1>4. job' \in [Handlers -> Jobs] /\ Keyed'
  BY <1>1, <1>3, TurnsToSomethingElse DEF IInv, AskDelete
<1>. QED
  BY <1>4 DEF IInv, TypeOK, Claimed, AskDelete

LEMMA ReadBalanceKeeps ==
  ASSUME IInv, NEW h \in Handlers, ReadBalance(h)
  PROVE  IInv'
<1>. DEFINE p == job[h].who
            amount == IF Registered(p) /\ account[p].id = job[h].id
                      THEN account[p].chips ELSE job[h].amount
            j == [job[h] EXCEPT !.at = "keep", !.amount = amount]
<1>1. job[h] \in Deleting
  BY HandlerIsAt DEF IInv, ReadBalance, At
<1>2. amount \in Nat
  BY <1>1 DEF Deleting, IInv, TypeOK, Registered
<1>3. j \in Jobs /\ j.at # "create"
  BY <1>1, <1>2 DEF Jobs, Deleting
<1>4. Goes(h, j)
  BY DEF ReadBalance
<1>5. job' \in [Handlers -> Jobs] /\ Keyed'
  BY <1>3, <1>4, TurnsToSomethingElse DEF IInv, ReadBalance
<1>. QED
  BY <1>5 DEF IInv, TypeOK, Claimed, ReadBalance

LEMMA KeepBalanceForReturnKeeps ==
  ASSUME IInv, NEW h \in Handlers, KeepBalanceForReturn(h)
  PROVE  IInv'
<1>. DEFINE j == [job[h] EXCEPT !.at = "delete"]
<1>1. job[h] \in Deleting
  BY HandlerIsAt DEF IInv, KeepBalanceForReturn, At
<1>2. j \in Jobs /\ j.at # "create" /\ job[h].who \in People /\ job[h].amount \in Nat
  BY <1>1 DEF Jobs, Deleting
<1>3. job' \in [Handlers -> Jobs] /\ Keyed'
  BY <1>2, TurnsToSomethingElse DEF IInv, KeepBalanceForReturn, Then
<1>. QED
  BY <1>2, <1>3 DEF IInv, TypeOK, Claimed, KeepBalanceForReturn

LEMMA DeleteUserKeeps ==
  ASSUME IInv, NEW h \in Handlers, DeleteUser(h)
  PROVE  IInv'
<1>1. account' \in [People -> [id : Nat, chips : Nat] \cup {NoAccount}]
  BY DEF IInv, TypeOK, DeleteUser
<1>2. job' \in [Handlers -> Jobs] /\ Keyed'
  BY IdleIsAJob, TurnsToSomethingElse DEF IInv, DeleteUser
<1>. QED
  BY <1>1, <1>2 DEF IInv, TypeOK, Claimed, DeleteUser

LEMMA BreakOffKeeps ==
  ASSUME IInv, NEW h \in Handlers, BreakOff(h)
  PROVE  IInv'
<1>1. job' \in [Handlers -> Jobs] /\ Keyed'
  BY IdleIsAJob, TurnsToSomethingElse DEF IInv, BreakOff
<1>. QED
  BY <1>1 DEF IInv, TypeOK, Claimed, BreakOff

LEMMA IInvNext == IInv /\ [Next]_vars => IInv'
<1>. SUFFICES ASSUME IInv, [Next]_vars PROVE IInv'
  OBVIOUS
<1>1. ASSUME NEW h \in Handlers, NEW p \in People, AskDelete(h, p) PROVE IInv'
  BY <1>1, AskDeleteKeeps
<1>2. ASSUME NEW h \in Handlers, NEW p \in People, NEW k \in Keys, SignIn(h, p, k) PROVE IInv'
  BY <1>2, SignInKeeps
<1>3. ASSUME NEW h \in Handlers,
             FindUser(h) \/ ConsumeSignupKey(h) \/ CreateGoogleAccount(h) \/ ClaimBonus(h)
      PROVE  IInv'
  BY <1>3, FindUserKeeps, ConsumeSignupKeyKeeps, CreateGoogleAccountKeeps, ClaimBonusKeeps
<1>4. ASSUME NEW h \in Handlers,
             Restore(h) \/ FundAccount(h) \/ ReadBalance(h) \/ KeepBalanceForReturn(h)
      PROVE  IInv'
  BY <1>4, RestoreKeeps, FundAccountKeeps, ReadBalanceKeeps, KeepBalanceForReturnKeeps
<1>5. ASSUME NEW h \in Handlers, DeleteUser(h) \/ BreakOff(h) PROVE IInv'
  BY <1>5, DeleteUserKeeps, BreakOffKeeps
<1>6. ASSUME NEW p \in People, Play(p) PROVE IInv'
  BY <1>6, PlayKeeps
<1>7. CASE UNCHANGED vars
  BY <1>7 DEF IInv, TypeOK, Keyed, Claimed, At, vars
<1>. QED
  BY <1>1, <1>2, <1>3, <1>4, <1>5, <1>6, <1>7 DEF Next

LEMMA InvariantHolds == Spec => []IInv
BY IInvInit, IInvNext, PTL DEF Spec

-----------------------------------------------------------------------------
\* A set whose members are all the same has at most one.
LEMMA AtMostOne ==
  ASSUME NEW S, \A i, j \in S : i = j
  PROVE  Cardinality(S) <= 1
<1>1. CASE S = {}
  BY <1>1, FS_EmptySet
<1>2. CASE S # {}
  <2>1. PICK x : S = {x}
    BY <1>2
  <2>. QED
    BY <2>1, FS_Singleton
<1>. QED
  BY <1>1, <1>2

\* Every variable of the sign-ups and deletions is what it should be
\* (loginOrRegisterWithGoogle, DELETE /users/me), with no balance negative.
THEOREM TypeCorrect == Spec => []TypeOK
BY InvariantHolds, PTL DEF IInv

\* An access key makes at most one account, however many sign-ups use it at the
\* same time and wherever they break off (consumeSignupKey).
THEOREM OneKeyOneAccount == Spec => []KeyMakesOneAccount
<1>1. IInv => KeyMakesOneAccount
  BY AtMostOne DEF IInv, Keyed, KeyMakesOneAccount
<1>. QED
  BY <1>1, InvariantHolds, PTL

\* Nobody is given the welcome bonus twice, whatever they delete and register
\* again (claimStartingBalance).
THEOREM OneBonusEach == Spec => []BonusOnce
<1>1. IInv => BonusOnce
  BY DEF IInv, Claimed, BonusOnce
<1>. QED
  BY <1>1, InvariantHolds, PTL

-----------------------------------------------------------------------------
(***************************************************************************)
(* The failure counter.                                                    *)
(***************************************************************************)

\* About an invitation there is nothing to wait for.
AnsweredAtOnce == guards = "invites" => \A c \in Clients : underWay[c] = 0

LockoutIInv == LockoutTypeOK /\ MemoryBounded /\ AnsweredAtOnce

-----------------------------------------------------------------------------
LEMMA KnownAreFinite ==
  ASSUME LockoutTypeOK
  PROVE  IsFiniteSet(DOMAIN clients) /\ Cardinality(DOMAIN clients) \in Nat
BY FS_Subset, FS_CardinalityType, LockoutAssumption DEF LockoutTypeOK

\* Counting a failure, and time going on, leave an entry an entry.
LEMMA CountedIsEntry ==
  ASSUME NEW e \in Entry \cup {Fresh}
  PROVE  Counted(e) \in Entry
<1>1. e \in [failures : Nat, age : 0 .. WindowTicks + 1, lock : 0 .. LockTicks]
  BY LockoutAssumption DEF Entry, Fresh
<1>2. /\ e.failures + 1 \in Nat \ {0}
      /\ (IF e.failures + 1 >= MaxFailures THEN LockTicks ELSE e.lock) \in 0 .. LockTicks
  BY <1>1, LockoutAssumption
<1>. QED
  BY <1>1, <1>2 DEF Entry, Counted

LEMMA OlderIsEntry ==
  ASSUME NEW e \in Entry
  PROVE  Older(e) \in Entry
<1>1. e.age \in 0 .. WindowTicks + 1 /\ e.lock \in 0 .. LockTicks
  BY DEF Entry
<1>2. (IF e.age > WindowTicks THEN e.age ELSE e.age + 1) \in 0 .. WindowTicks + 1
  BY <1>1, LockoutAssumption
<1>3. (IF e.lock = 0 THEN 0 ELSE e.lock - 1) \in 0 .. LockTicks
  BY <1>1, LockoutAssumption
<1>. QED
  BY <1>2, <1>3 DEF Entry, Older

\* A failure keeps the map a map.
LEMMA RecordFailureType ==
  ASSUME LockoutTypeOK, NEW c \in Clients, RecordFailure(c)
  PROVE  /\ DOMAIN clients' \subseteq Clients
         /\ \A d \in DOMAIN clients' : clients'[d] \in Entry
         /\ evicted' \subseteq Clients
<1>1. Counted(Fresh) \in Entry
  BY CountedIsEntry
<1>2. CASE Known(c) /\ ~Stale(c)
  <2>1. Counted(clients[c]) \in Entry
    BY <1>2, CountedIsEntry DEF LockoutTypeOK, Known
  <2>2. clients' = With(c, Counted(clients[c]), clients) /\ evicted' = evicted
    BY <1>2 DEF RecordFailure
  <2>. QED
    BY <2>1, <2>2 DEF LockoutTypeOK, With
<1>3. CASE ~(Known(c) /\ ~Stale(c)) /\ (Known(c) \/ HasRoom)
  <2>1. clients' = With(c, Counted(Fresh), clients) /\ evicted' = evicted
    BY <1>3 DEF RecordFailure
  <2>. QED
    BY <1>1, <2>1 DEF LockoutTypeOK, With
<1>4. CASE ~(Known(c) /\ ~Stale(c)) /\ ~(Known(c) \/ HasRoom)
  <2>1. PICK d \in Evictable : /\ clients' = With(c, Counted(Fresh), Without(d))
                               /\ evicted' = evicted \cup {d}
    BY <1>4 DEF RecordFailure
  <2>2. d \in DOMAIN clients
    BY <2>1 DEF Evictable
  <2>. QED
    BY <1>1, <2>1, <2>2 DEF LockoutTypeOK, With, Without, Restrict
<1>. QED
  BY <1>2, <1>3, <1>4

\* Somebody new only comes in where there is room, or for somebody who goes.
LEMMA RecordFailureBounded ==
  ASSUME LockoutTypeOK, MemoryBounded, NEW c \in Clients, RecordFailure(c)
  PROVE  MemoryBounded'
<1>. DEFINE known == DOMAIN clients
<1>1. IsFiniteSet(known) /\ Cardinality(known) \in Nat /\ Cardinality(known) <= MaxClients
  BY KnownAreFinite DEF MemoryBounded
<1>2. CASE Known(c) /\ ~Stale(c)
  <2>1. DOMAIN clients' = known
    BY <1>2 DEF RecordFailure, With, Known
  <2>. QED
    BY <1>1, <2>1 DEF MemoryBounded
<1>3. CASE Known(c) /\ Stale(c)
  <2>1. DOMAIN clients' = known
    BY <1>3 DEF RecordFailure, With, Known
  <2>. QED
    BY <1>1, <2>1 DEF MemoryBounded
<1>4. CASE ~Known(c) /\ HasRoom
  <2>1. DOMAIN clients' = known \cup {c}
    BY <1>4 DEF RecordFailure, With
  <2>2. Cardinality(known \cup {c}) = Cardinality(known) + 1
    BY <1>1, <1>4, FS_AddElement DEF Known
  <2>. QED
    BY <1>1, <1>4, <2>1, <2>2, LockoutAssumption DEF MemoryBounded, HasRoom
<1>5. CASE ~Known(c) /\ ~HasRoom
  <2>1. PICK d \in Evictable : clients' = With(c, Counted(Fresh), Without(d))
    BY <1>5 DEF RecordFailure
  <2>2. d \in known
    BY <2>1 DEF Evictable
  <2>3. DOMAIN clients' = (known \ {d}) \cup {c}
    BY <2>1 DEF With, Without, Restrict
  <2>4. /\ IsFiniteSet(known \ {d})
        /\ Cardinality(known \ {d}) = Cardinality(known) - 1
    BY <1>1, <2>2, FS_RemoveElement
  <2>5. Cardinality((known \ {d}) \cup {c}) = Cardinality(known) - 1 + 1
    BY <1>5, <2>4, FS_AddElement DEF Known
  <2>. QED
    BY <1>1, <2>3, <2>5 DEF MemoryBounded
<1>. QED
  BY <1>2, <1>3, <1>4, <1>5

-----------------------------------------------------------------------------
LEMMA LockoutIInvInit == LockoutInit => LockoutIInv
<1>. SUFFICES ASSUME LockoutInit PROVE LockoutIInv
  OBVIOUS
<1>1. DOMAIN clients = {}
  BY DEF LockoutInit
<1>2. LockoutTypeOK
  BY <1>1, LockoutAssumption DEF LockoutInit, LockoutTypeOK, NeverFailed
<1>3. MemoryBounded
  BY <1>1, FS_EmptySet, LockoutAssumption DEF MemoryBounded
<1>4. AnsweredAtOnce
  BY DEF LockoutInit, AnsweredAtOnce
<1>. QED
  BY <1>2, <1>3, <1>4 DEF LockoutIInv

\* To ask whether one may try forgets a stale entry at most.
LEMMA AskKeeps ==
  ASSUME LockoutTypeOK, MemoryBounded, NEW c \in Clients, clients' = ForgetStale(c)
  PROVE  /\ DOMAIN clients' \subseteq Clients /\ \A d \in DOMAIN clients' : clients'[d] \in Entry
         /\ MemoryBounded'
<1>2. CASE clients' = clients
  BY <1>2 DEF LockoutTypeOK, MemoryBounded
<1>3. CASE clients' = Without(c)
  <2>1. /\ DOMAIN clients' = DOMAIN clients \ {c}
        /\ \A d \in DOMAIN clients' : clients'[d] = clients[d]
    BY <1>3 DEF Without, Restrict
  <2>2. Cardinality(DOMAIN clients \ {c}) <= Cardinality(DOMAIN clients)
    BY KnownAreFinite, FS_Subset
  <2>3. Cardinality(DOMAIN clients \ {c}) \in Nat
    BY KnownAreFinite, FS_Subset, FS_CardinalityType
  <2>. QED
    BY <2>1, <2>2, <2>3, KnownAreFinite, LockoutAssumption DEF LockoutTypeOK, MemoryBounded
<1>. QED
  BY <1>2, <1>3 DEF ForgetStale

LEMMA TryKeeps ==
  ASSUME LockoutIInv, NEW c \in Clients, Try(c)
  PROVE  LockoutIInv'
<1>1. underWay' \in [Clients -> 0 .. MaxUnderWay]
  BY LockoutAssumption DEF LockoutIInv, LockoutTypeOK, Try
<1>2. /\ guards = "keys" /\ clients' = ForgetStale(c)
      /\ UNCHANGED <<guards, failed, evicted, inside>>
  BY DEF Try
<1>3. /\ DOMAIN clients' \subseteq Clients /\ \A d \in DOMAIN clients' : clients'[d] \in Entry
      /\ MemoryBounded'
  BY <1>2, AskKeeps DEF LockoutIInv
<1>. QED
  BY <1>1, <1>2, <1>3 DEF LockoutIInv, LockoutTypeOK, AnsweredAtOnce

LEMMA FindInviteKeeps ==
  ASSUME LockoutIInv, NEW c \in Clients, FindInvite(c)
  PROVE  LockoutIInv'
<1>1. clients' = ForgetStale(c) /\ UNCHANGED <<guards, underWay, failed, evicted, inside>>
  BY DEF FindInvite
<1>2. /\ DOMAIN clients' \subseteq Clients /\ \A d \in DOMAIN clients' : clients'[d] \in Entry
      /\ MemoryBounded'
  BY <1>1, AskKeeps DEF LockoutIInv
<1>. QED
  BY <1>1, <1>2 DEF LockoutIInv, LockoutTypeOK, AnsweredAtOnce

\* What is counted is counted in the map and in the history.
LEMMA IsCountedKeeps ==
  ASSUME LockoutTypeOK, MemoryBounded, NEW c \in Clients, IsCounted(c)
  PROVE  /\ DOMAIN clients' \subseteq Clients /\ \A d \in DOMAIN clients' : clients'[d] \in Entry
         /\ evicted' \subseteq Clients
         /\ failed' \in [Clients -> [Recently -> Nat]]
         /\ MemoryBounded'
<1>1. 0 \in Recently
  BY LockoutAssumption DEF Recently
<1>2. \A d \in Clients : [failed[d] EXCEPT ![0] = @ + 1] \in [Recently -> Nat]
  BY <1>1 DEF LockoutTypeOK
<1>3. NeverFailed \in [Recently -> Nat]
  BY DEF NeverFailed
<1>4. failed' \in [Clients -> [Recently -> Nat]]
  BY <1>2, <1>3 DEF LockoutTypeOK, IsCounted
<1>5. RecordFailure(c)
  BY DEF IsCounted
<1>. QED
  BY <1>4, <1>5, RecordFailureType, RecordFailureBounded

LEMMA FailKeeps ==
  ASSUME LockoutIInv, NEW c \in Clients, Fail(c)
  PROVE  LockoutIInv'
<1>1. underWay' \in [Clients -> 0 .. MaxUnderWay]
  BY LockoutAssumption DEF LockoutIInv, LockoutTypeOK, Fail
<1>2. underWay[c] > 0 /\ IsCounted(c) /\ UNCHANGED <<guards, inside>>
  BY DEF Fail
<1>3. guards # "invites"
  <2>1. underWay[c] # 0
    BY <1>2
  <2>. QED
    BY <2>1 DEF LockoutIInv, AnsweredAtOnce
<1>4. /\ DOMAIN clients' \subseteq Clients /\ \A d \in DOMAIN clients' : clients'[d] \in Entry
      /\ evicted' \subseteq Clients
      /\ failed' \in [Clients -> [Recently -> Nat]]
      /\ MemoryBounded'
  BY <1>2, IsCountedKeeps DEF LockoutIInv
<1>. QED
  BY <1>1, <1>2, <1>3, <1>4 DEF LockoutIInv, LockoutTypeOK, AnsweredAtOnce

LEMMA MissInviteKeeps ==
  ASSUME LockoutIInv, NEW c \in Clients, MissInvite(c)
  PROVE  LockoutIInv'
<1>1. IsCounted(c) /\ UNCHANGED <<guards, underWay, inside>>
  BY DEF MissInvite
<1>2. /\ DOMAIN clients' \subseteq Clients /\ \A d \in DOMAIN clients' : clients'[d] \in Entry
      /\ evicted' \subseteq Clients
      /\ failed' \in [Clients -> [Recently -> Nat]]
      /\ MemoryBounded'
  BY <1>1, IsCountedKeeps DEF LockoutIInv
<1>. QED
  BY <1>1, <1>2 DEF LockoutIInv, LockoutTypeOK, AnsweredAtOnce

LEMMA TickKeeps ==
  ASSUME LockoutIInv, Tick
  PROVE  LockoutIInv'
<1>1. DOMAIN clients' = DOMAIN clients /\ \A c \in DOMAIN clients' : clients'[c] \in Entry
  BY OlderIsEntry DEF Tick, LockoutIInv, LockoutTypeOK
<1>2. ASSUME NEW c \in Clients, NEW n \in Recently
      PROVE  (IF n = 0 THEN 0 ELSE failed[c][n - 1]) \in Nat
  <2>1. n # 0 => n - 1 \in Recently
    BY LockoutAssumption DEF Recently
  <2>. QED
    BY <2>1 DEF LockoutIInv, LockoutTypeOK
<1>3. failed' \in [Clients -> [Recently -> Nat]]
  BY <1>2 DEF Tick
<1>. QED
  BY <1>1, <1>3 DEF LockoutIInv, LockoutTypeOK, MemoryBounded, AnsweredAtOnce, Tick

LEMMA LockoutIInvNext == LockoutIInv /\ [LockoutNext]_lockoutVars => LockoutIInv'
<1>. SUFFICES ASSUME LockoutIInv, [LockoutNext]_lockoutVars PROVE LockoutIInv'
  OBVIOUS
<1>1. CASE Tick
  BY <1>1, TickKeeps
<1>2. ASSUME NEW c \in Clients, Try(c) PROVE LockoutIInv'
  BY <1>2, TryKeeps
<1>3. ASSUME NEW c \in Clients, Succeed(c) PROVE LockoutIInv'
  <2>1. /\ underWay[c] > 0 /\ underWay' = [underWay EXCEPT ![c] = @ - 1]
        /\ UNCHANGED <<guards, clients, failed, evicted, inside>>
    BY <1>3 DEF Succeed
  <2>2. underWay' \in [Clients -> 0 .. MaxUnderWay]
    BY <2>1, LockoutAssumption DEF LockoutIInv, LockoutTypeOK
  <2>3. guards # "invites"
    <3>1. underWay[c] # 0
      BY <2>1
    <3>. QED
      BY <3>1 DEF LockoutIInv, AnsweredAtOnce
  <2>. QED
    BY <2>1, <2>2, <2>3 DEF LockoutIInv, LockoutTypeOK, MemoryBounded, AnsweredAtOnce
<1>4. ASSUME NEW c \in Clients, Fail(c) PROVE LockoutIInv'
  BY <1>4, FailKeeps
<1>5. ASSUME NEW c \in Clients, FindInvite(c) PROVE LockoutIInv'
  BY <1>5, FindInviteKeeps
<1>6. ASSUME NEW c \in Clients, MissInvite(c) PROVE LockoutIInv'
  BY <1>6, MissInviteKeeps
<1>7. ASSUME NEW c \in Clients, JoinTable(c) PROVE LockoutIInv'
  <2>1. inside' = inside \cup {c} /\ UNCHANGED <<guards, clients, underWay, failed, evicted>>
    BY <1>7 DEF JoinTable
  <2>. QED
    BY <2>1 DEF LockoutIInv, LockoutTypeOK, MemoryBounded, AnsweredAtOnce
<1>8. CASE UNCHANGED lockoutVars
  BY <1>8 DEF LockoutIInv, LockoutTypeOK, MemoryBounded, AnsweredAtOnce, lockoutVars
<1>. QED
  BY <1>1, <1>2, <1>3, <1>4, <1>5, <1>6, <1>7, <1>8 DEF LockoutNext

LEMMA LockoutInvariantHolds == LockoutSpec => []LockoutIInv
BY LockoutIInvInit, LockoutIInvNext, PTL DEF LockoutSpec

-----------------------------------------------------------------------------
\* Entries are entries: a client is locked for no longer than a lock lasts, and
\* no more guesses are under way than are counted.
THEOREM LockoutTypeCorrect == LockoutSpec => []LockoutTypeOK
BY LockoutInvariantHolds, PTL DEF LockoutIInv

\* The map of clients never holds more than maxClients (recordFailure, evictOne).
THEOREM MemoryStaysBounded == LockoutSpec => []MemoryBounded
BY LockoutInvariantHolds, PTL DEF LockoutIInv

-----------------------------------------------------------------------------
(***************************************************************************)
(* How often a client has failed.  What it did in its window and what      *)
(* remains of the window before are bounded apart.                         *)
(***************************************************************************)
History == [Recently -> Nat]
Now(h, age) == Sum(h, {n \in Recently : n <= age})
Earlier(h, age) == Sum(h, {n \in Recently : n > age})
OneOlder(h) == [n \in Recently |-> IF n = 0 THEN 0 ELSE h[n - 1]]

\* The window begins with a failure, which is the first to be forgotten.
Begun(age) == IF age >= WindowTicks THEN 1 ELSE 0

\* h: when the client failed, e: its entry, u: the guesses it has under way, of
\* at most m.
KnownFits(h, e, u, m) ==
  /\ e.age < WindowTicks => h[e.age] > 0
  /\ e.age > WindowTicks => h[0] = 0
  /\ e.failures < MaxFailures => Now(h, e.age) <= e.failures - Begun(e.age)
  /\ e.failures >= MaxFailures => \A n \in Recently : n < LockTicks - e.lock => h[n] = 0
  /\ Now(h, e.age) + u <= MaxFailures - 1 + m - Begun(e.age)
  /\ Earlier(h, e.age) <= MaxFailures + m - 3
  /\ m > 0
UnknownFits(h, m) ==
  /\ h[0] = 0 /\ Sum(h, Recently) <= MaxFailures - 2
  /\ m = 0 => Sum(h, Recently) = 0

Fits(c) ==
  IF Known(c)
  THEN KnownFits(failed[c], clients[c], underWay[c], Concurrent)
  ELSE UnknownFits(failed[c], Concurrent)
Guarded == \A c \in Clients \ evicted : Fits(c)

LEMMA RecentlyIsFinite ==
  /\ IsFiniteSet(Recently) /\ 0 \in Recently
  /\ \A S \in SUBSET Recently : IsFiniteSet(S)
<1>1. 0 \in Int /\ WindowTicks - 1 \in Int
  BY LockoutAssumption
<1>2. IsFiniteSet(Recently)
  BY <1>1, FS_Interval DEF Recently
<1>3. 0 \in Recently
  BY LockoutAssumption DEF Recently
<1>. QED
  BY <1>2, <1>3, FS_Subset

LEMMA HistoryAddsUp ==
  ASSUME NEW h \in History, NEW a \in Int
  PROVE  /\ Now(h, a) \in Nat /\ Earlier(h, a) \in Nat
         /\ Sum(h, Recently) = Now(h, a) + Earlier(h, a)
         /\ a >= WindowTicks - 1 => Now(h, a) = Sum(h, Recently) /\ Earlier(h, a) = 0
<1>. DEFINE S == {n \in Recently : n <= a}
            T == {n \in Recently : n > a}
            f == [n \in Recently |-> IF n \in S THEN h[n] ELSE 0]
            g == [n \in Recently |-> IF n \in T THEN h[n] ELSE 0]
<1>1. \A n \in Recently : n \in Int /\ h[n] \in Nat
  BY DEF History, Recently
<1>2. S \in SUBSET Recently /\ T \in SUBSET Recently
  OBVIOUS
<1>3. \A n \in Recently : n \in S <=> n \notin T
  BY <1>1
<1>4. \A n \in Recently : /\ f[n] = IF n \in S THEN h[n] ELSE 0
                          /\ g[n] = IF n \in T THEN h[n] ELSE 0
                          /\ f[n] \in Int /\ g[n] \in Int /\ h[n] = f[n] + g[n] /\ h[n] \in Int
  BY <1>1, <1>3
<1>5. a >= WindowTicks - 1 => S = Recently /\ T = {}
  BY LockoutAssumption DEF Recently
<1>6. Now(h, a) = Sum(h, S) /\ Earlier(h, a) = Sum(h, T)
  BY DEF Now, Earlier
<1>7. \A n \in S : h[n] \in Nat
  BY <1>1
<1>8. \A n \in T : h[n] \in Nat
  BY <1>1
<1>. HIDE DEF S, T, f, g
<1>9. IsFiniteSet(S) /\ IsFiniteSet(T)
  BY <1>2, RecentlyIsFinite
<1>10. Sum(h, S) \in Nat /\ Sum(h, T) \in Nat
  BY <1>7, <1>8, <1>9, SumIsNat
<1>11. Sum(h, S) = Sum(f, Recently) /\ Sum(h, T) = Sum(g, Recently)
  BY <1>2, <1>4, RecentlyIsFinite, SumOfPart
<1>12. Sum(h, Recently) = Sum(f, Recently) + Sum(g, Recently)
  BY <1>4, RecentlyIsFinite, SumsAdd
<1>13. a >= WindowTicks - 1 => Sum(h, S) = Sum(h, Recently) /\ Sum(h, T) = 0
  BY <1>5, SumOfNone
<1>. QED
  BY <1>6, <1>10, <1>11, <1>12, <1>13

\* A failure now is one of the window.
LEMMA FailureIsNow ==
  ASSUME NEW h \in History, NEW a \in Nat, NEW g, g = [h EXCEPT ![0] = @ + 1]
  PROVE  /\ g \in History /\ Now(g, a) = Now(h, a) + 1 /\ Earlier(g, a) = Earlier(h, a)
         /\ g[0] = h[0] + 1 /\ \A n \in Recently \ {0} : g[n] = h[n]
<1>. DEFINE S == {n \in Recently : n <= a}
            T == {n \in Recently : n > a}
<1>1. /\ g \in History /\ g[0] = h[0] + 1 /\ \A n \in Recently \ {0} : g[n] = h[n]
  BY RecentlyIsFinite DEF History
<1>2. /\ S \in SUBSET Recently /\ T \in SUBSET Recently /\ 0 \in S /\ 0 \notin T
  BY RecentlyIsFinite
<1>3. \A n \in Recently : h[n] \in Int /\ g[n] \in Int
  BY <1>1 DEF History
<1>4. Now(h, a) = Sum(h, S) /\ Earlier(h, a) = Sum(h, T) /\ Now(g, a) = Sum(g, S) /\ Earlier(g, a) = Sum(g, T)
  BY DEF Now, Earlier
<1>. HIDE DEF S, T
<1>. DEFINE zero == 0
<1>5. Sum(g, S) = Sum(h, S) + (g[zero] - h[zero])
  <2>1. /\ \A n \in S : h[n] \in Int
        /\ \A n \in S : g[n] \in Int
        /\ \A n \in S \ {zero} : g[n] = h[n]
    BY <1>1, <1>2, <1>3
  <2>2. IsFiniteSet(S) /\ zero \in S
    BY <1>2, RecentlyIsFinite
  <2>. HIDE DEF zero
  <2>3. ASSUME NEW f, NEW e, \A n \in S : f[n] \in Int, \A n \in S : e[n] \in Int,
               \A n \in S \ {zero} : e[n] = f[n]
        PROVE  Sum(e, S) = Sum(f, S) + (e[zero] - f[zero])
    BY <2>2, <2>3, SumChangesAt
  <2>. QED
    BY <2>1, <2>3
<1>6. Sum(g, T) = Sum(h, T)
  <2>1. \A n \in T : g[n] = h[n]
    BY <1>1, <1>2
  <2>2. IsFiniteSet(T)
    BY <1>2, RecentlyIsFinite
  <2>. QED
    BY <2>1, <2>2, SumsAgree
<1>7. Sum(h, S) \in Int /\ h[0] \in Int
  BY <1>2, <1>3, <1>4, HistoryAddsUp
<1>. QED
  BY <1>1, <1>4, <1>5, <1>6, <1>7

\* A tick later each failure is one tick older, and the oldest are forgotten.
LEMMA TickMoves ==
  ASSUME NEW h \in History, NEW k \in Nat, k <= WindowTicks - 1
  PROVE  Sum(OneOlder(h), 0 .. k) = Sum(h, 0 .. k - 1)
<1>. DEFINE g == OneOlder(h)
<1>1. /\ \A i \in 0 .. k : g[i] = IF i = 0 THEN 0 ELSE h[i - 1]
      /\ \A i \in 0 .. k - 1 : h[i] \in Int
  BY LockoutAssumption DEF OneOlder, Recently, History
<1>2. \A i \in 0 .. k : g[i] \in Int
  <2>. SUFFICES ASSUME NEW i \in 0 .. k PROVE g[i] \in Int
    OBVIOUS
  <2>1. CASE i = 0
    BY <1>1, <2>1
  <2>2. CASE i # 0
    <3>1. i - 1 \in 0 .. k - 1
      BY <2>2
    <3>. QED
      BY <1>1, <2>2, <3>1
  <2>. QED
    BY <2>1, <2>2
<1>3. \A i \in 1 .. k : g[i] = h[i - 1]
  <2>1. \A i \in 1 .. k : i \in 0 .. k /\ i # 0
    OBVIOUS
  <2>. QED
    BY <1>1, <2>1
<1>4. 0 \in 0 .. k /\ (0 .. k) \ {0} = 1 .. k
  OBVIOUS
<1>5. IsFiniteSet(0 .. k)
  BY FS_Interval
<1>6. g[0] = 0
  BY <1>1, <1>4
<1>. HIDE DEF g
<1>. DEFINE zero == 0
<1>7. Sum(g, 0 .. k) = g[zero] + Sum(g, (0 .. k) \ {zero})
  <2>1. zero \in 0 .. k
    BY <1>4
  <2>. HIDE DEF zero
  <2>. QED
    BY <1>2, <1>5, <2>1, SumTakes
<1>8. Sum(g, 1 .. k) = Sum(h, 0 .. k - 1)
  BY <1>1, <1>3, SumOfShifted
<1>9. Sum(h, 0 .. k - 1) \in Int
  <2>1. IsFiniteSet(0 .. k - 1)
    BY FS_Interval
  <2>. QED
    BY <1>1, <2>1, SumIsInt
<1>10. Sum(g, (0 .. k) \ {zero}) = Sum(h, 0 .. k - 1)
  BY <1>4, <1>8
<1>11. g[zero] = 0
  BY <1>6
<1>. HIDE DEF zero
<1>. QED
  BY <1>7, <1>9, <1>10, <1>11 DEF g

LEMMA TickAges ==
  ASSUME NEW h \in History, NEW g, g = OneOlder(h)
  PROVE  /\ g \in History /\ g[0] = 0 /\ \A n \in Recently \ {0} : n - 1 \in Recently /\ g[n] = h[n - 1]
         /\ Sum(g, Recently) <= Sum(h, Recently)
         /\ \A a \in Nat : a < WindowTicks - 1 =>
              Now(g, a + 1) = Now(h, a) /\ Earlier(g, a + 1) <= Earlier(h, a)
         /\ Sum(g, Recently) = Sum(h, Recently) - h[WindowTicks - 1]
<1>. DEFINE last == WindowTicks - 1
<1>1. last \in Nat /\ Recently = 0 .. last /\ last \in Recently /\ WindowTicks \in Nat
  BY LockoutAssumption DEF Recently
<1>2. g[0] = 0 /\ \A n \in Recently \ {0} : n - 1 \in Recently /\ g[n] = h[n - 1]
  BY <1>1 DEF OneOlder
<1>3. g \in History
  <2>1. \A n \in Recently : g[n] \in Nat
    BY <1>2 DEF History
  <2>. QED
    BY <2>1 DEF History, OneOlder
<1>4. \A n \in Recently : h[n] \in Nat /\ h[n] \in Int
  BY DEF History
<1>5. Sum(g, Recently) = Sum(h, Recently) - h[last]
  <2>1. Sum(g, 0 .. last) = Sum(h, 0 .. last - 1)
    BY <1>1, TickMoves
  <2>2. Recently \ {last} = 0 .. last - 1
    BY <1>1
  <2>3. Sum(h, Recently) = h[last] + Sum(h, Recently \ {last})
    BY <1>1, <1>4, RecentlyIsFinite, SumTakes
  <2>4. Sum(h, 0 .. last - 1) \in Int
    <3>1. \A n \in 0 .. last - 1 : h[n] \in Int
      BY <1>1, <1>4
    <3>2. IsFiniteSet(0 .. last - 1)
      BY <1>1, FS_Interval
    <3>. QED
      BY <3>1, <3>2, SumIsInt
  <2>5. h[last] \in Int
    BY <1>1, <1>4
  <2>6. Sum(g, Recently) = Sum(h, Recently \ {last}) /\ Sum(h, Recently \ {last}) \in Int
    BY <1>1, <2>1, <2>2, <2>4
  <2>. HIDE DEF last
  <2>. QED
    BY <2>3, <2>5, <2>6
<1>6. Sum(h, Recently) \in Nat /\ Sum(g, Recently) \in Nat
  <2>1. \A n \in Recently : g[n] \in Nat
    BY <1>3 DEF History
  <2>. QED
    BY <1>4, <2>1, RecentlyIsFinite, SumIsNat
<1>7. ASSUME NEW a \in Nat, a < last
      PROVE  Now(g, a + 1) = Now(h, a) /\ Earlier(g, a + 1) <= Earlier(h, a)
  <2>1. {n \in Recently : n <= a + 1} = 0 .. a + 1 /\ {n \in Recently : n <= a} = 0 .. (a + 1) - 1
    BY <1>1, <1>7
  <2>2. a + 1 \in Nat /\ a + 1 <= last
    BY <1>1, <1>7
  <2>3. Sum(g, 0 .. a + 1) = Sum(h, 0 .. (a + 1) - 1)
    BY <2>2, TickMoves
  <2>4. Now(g, a + 1) = Now(h, a)
    BY <2>1, <2>3 DEF Now
  <2>5. /\ Sum(g, Recently) = Now(g, a + 1) + Earlier(g, a + 1)
        /\ Sum(h, Recently) = Now(h, a) + Earlier(h, a)
        /\ Now(g, a + 1) \in Nat /\ Earlier(g, a + 1) \in Nat
        /\ Now(h, a) \in Nat /\ Earlier(h, a) \in Nat
    BY <1>3, <2>2, HistoryAddsUp
  <2>6. h[last] \in Nat
    BY <1>1, <1>4
  <2>. HIDE DEF last
  <2>. QED
    BY <1>5, <1>6, <2>4, <2>5, <2>6
<1>8. h[last] \in Nat
  BY <1>1, <1>4
<1>. QED
  BY <1>2, <1>3, <1>5, <1>6, <1>7, <1>8

-----------------------------------------------------------------------------
\* What the claim is for: two windows, of which one has been closed by time, and
\* a lock lasts until the failures before it are forgotten.
Counting == MaxFailures > 1 /\ LockTicks >= WindowTicks

LEMMA Constants ==
  /\ MaxFailures \in Nat /\ WindowTicks \in Nat /\ LockTicks \in Nat /\ MaxUnderWay \in Nat
  /\ WindowTicks > 0
BY LockoutAssumption

LEMMA NoneIsNone ==
  ASSUME NEW h \in History, \A n \in Recently : h[n] = 0, NEW a \in Int
  PROVE  Sum(h, Recently) = 0 /\ Now(h, a) = 0 /\ Earlier(h, a) = 0
<1>1. Sum(h, Recently) = 0
  BY RecentlyIsFinite, SumOfZeros
<1>. QED
  BY <1>1, HistoryAddsUp

\* A failure in a window that goes on.
LEMMA CountedFits ==
  ASSUME Counting, NEW h \in History, NEW e \in Entry, e.age <= WindowTicks,
         NEW m \in Nat, NEW u \in Nat, u > 0, KnownFits(h, e, u, m), NEW g, g = [h EXCEPT ![0] = @ + 1]
  PROVE  KnownFits(g, Counted(e), u - 1, m)
<1>. DEFINE c == Counted(e)
<1>1. e.failures \in Nat /\ e.age \in Nat /\ e.lock \in Nat
  BY Constants DEF Entry
<1>2. /\ c.failures = e.failures + 1 /\ c.age = e.age
      /\ c.lock = IF e.failures + 1 >= MaxFailures THEN LockTicks ELSE e.lock
  BY DEF Counted, Entry
<1>3. /\ g \in History /\ Now(g, e.age) = Now(h, e.age) + 1 /\ Earlier(g, e.age) = Earlier(h, e.age)
      /\ g[0] = h[0] + 1 /\ \A n \in Recently \ {0} : g[n] = h[n]
  <2>. DEFINE age == e.age
  <2>1. age \in Nat
    BY <1>1
  <2>. HIDE DEF age
  <2>2. /\ g \in History /\ Now(g, age) = Now(h, age) + 1 /\ Earlier(g, age) = Earlier(h, age)
        /\ g[0] = h[0] + 1 /\ \A n \in Recently \ {0} : g[n] = h[n]
    BY <2>1, FailureIsNow
  <2>. QED
    BY <2>2 DEF age
<1>. HIDE DEF c
<1>4. Now(h, e.age) \in Nat /\ Earlier(h, e.age) \in Nat /\ Begun(e.age) \in Nat
  BY <1>1, HistoryAddsUp DEF Begun
<1>5. c.age < WindowTicks => g[c.age] > 0
  <2>. SUFFICES ASSUME e.age < WindowTicks PROVE g[e.age] > 0
    BY <1>2
  <2>1. e.age \in Recently
    BY <1>1, Constants DEF Recently
  <2>2. h[e.age] > 0 /\ h[e.age] \in Nat /\ h[0] \in Nat
    BY <2>1, RecentlyIsFinite DEF KnownFits, History
  <2>. QED
    BY <1>3, <2>1, <2>2
<1>6. ~(c.age > WindowTicks)
  BY <1>1, <1>2, Constants
<1>7. c.failures < MaxFailures => Now(g, c.age) <= c.failures - Begun(c.age)
  BY <1>1, <1>2, <1>3, <1>4, Constants DEF KnownFits
<1>8. c.failures >= MaxFailures => \A n \in Recently : ~(n < LockTicks - c.lock)
  BY <1>2, Constants DEF Recently
<1>9. Now(g, c.age) + (u - 1) <= MaxFailures - 1 + m - Begun(c.age)
  BY <1>2, <1>3, <1>4, Constants DEF KnownFits
<1>10. Earlier(g, c.age) <= MaxFailures + m - 3 /\ m > 0
  BY <1>2, <1>3 DEF KnownFits
<1>. QED
  BY <1>5, <1>6, <1>7, <1>8, <1>9, <1>10 DEF KnownFits, c

\* A failure that begins a window: what came before is few.
LEMMA FirstFits ==
  ASSUME Counting, NEW h \in History, h[0] = 0, NEW m \in Nat, Sum(h, Recently) <= MaxFailures + m - 3,
         NEW u \in Nat, u > 0, u <= m, NEW g, g = [h EXCEPT ![0] = @ + 1]
  PROVE  KnownFits(g, Counted(Fresh), u - 1, m)
<1>. DEFINE c == Counted(Fresh)
<1>1. c.failures = 1 /\ c.age = 0 /\ c.lock = IF 1 >= MaxFailures THEN LockTicks ELSE 0
  BY DEF Counted, Fresh
<1>2. /\ g \in History /\ Now(g, 0) = Now(h, 0) + 1 /\ Earlier(g, 0) = Earlier(h, 0)
      /\ g[0] = h[0] + 1
  BY FailureIsNow
<1>. HIDE DEF c
<1>3. /\ Now(h, 0) \in Nat /\ Earlier(h, 0) \in Nat
      /\ Sum(h, Recently) = Now(h, 0) + Earlier(h, 0)
  BY HistoryAddsUp
<1>4. Now(h, 0) = 0
  <2>1. {n \in Recently : n <= 0} = {0}
    BY Constants DEF Recently
  <2>2. IsFiniteSet({0}) /\ \A n \in {0} : h[n] = 0
    BY <2>1, RecentlyIsFinite
  <2>3. Sum(h, {0}) = 0
    BY <2>2, SumOfZeros
  <2>. QED
    BY <2>1, <2>3 DEF Now
<1>5. Begun(0) = 0
  BY Constants DEF Begun
<1>6. ~(c.failures >= MaxFailures)
  BY <1>1, Constants DEF Counting
<1>7. Now(g, c.age) = 1 /\ Earlier(g, c.age) <= MaxFailures + m - 3
  BY <1>1, <1>2, <1>3, <1>4
<1>. QED
  BY <1>1, <1>2, <1>5, <1>6, <1>7, Constants DEF KnownFits, Counting, c

\* Time takes failures away.
LEMMA OlderFits ==
  ASSUME Counting, NEW h \in History, NEW e \in Entry, NEW m \in Nat, NEW u \in Nat, u <= m,
         KnownFits(h, e, u, m), NEW g, g = OneOlder(h)
  PROVE  KnownFits(g, Older(e), u, m)
<1>. DEFINE o == Older(e)
<1>1. /\ e.failures \in Nat /\ e.failures > 0
      /\ e.age \in Nat /\ e.age <= WindowTicks + 1 /\ e.lock \in Nat /\ e.lock <= LockTicks
  BY Constants DEF Entry
<1>2. /\ o.failures = e.failures /\ o.age = IF e.age > WindowTicks THEN e.age ELSE e.age + 1
      /\ o.lock = IF e.lock = 0 THEN 0 ELSE e.lock - 1
  BY DEF Older, Entry
<1>3. /\ g \in History /\ g[0] = 0 /\ \A n \in Recently \ {0} : n - 1 \in Recently /\ g[n] = h[n - 1]
      /\ Sum(g, Recently) <= Sum(h, Recently)
      /\ \A a \in Nat : a < WindowTicks - 1 =>
           Now(g, a + 1) = Now(h, a) /\ Earlier(g, a + 1) <= Earlier(h, a)
      /\ Sum(g, Recently) = Sum(h, Recently) - h[WindowTicks - 1]
  BY TickAges
<1>. HIDE DEF o
<1>4. o.age \in Nat /\ o.age \in Int /\ e.age \in Int
  BY <1>1, <1>2
<1>5. /\ Now(h, e.age) \in Nat /\ Earlier(h, e.age) \in Nat
      /\ Now(g, o.age) \in Nat /\ Earlier(g, o.age) \in Nat
      /\ e.age >= WindowTicks - 1 => Now(h, e.age) = Sum(h, Recently) /\ Earlier(h, e.age) = 0
      /\ o.age >= WindowTicks - 1 => Now(g, o.age) = Sum(g, Recently) /\ Earlier(g, o.age) = 0
  <2>1. /\ Now(h, e.age) \in Nat /\ Earlier(h, e.age) \in Nat
        /\ e.age >= WindowTicks - 1 => Now(h, e.age) = Sum(h, Recently) /\ Earlier(h, e.age) = 0
    BY <1>4, HistoryAddsUp
  <2>2. /\ Now(g, o.age) \in Nat /\ Earlier(g, o.age) \in Nat
        /\ o.age >= WindowTicks - 1 => Now(g, o.age) = Sum(g, Recently) /\ Earlier(g, o.age) = 0
    BY <1>3, <1>4, HistoryAddsUp
  <2>. QED
    BY <2>1, <2>2
<1>6. /\ Now(g, o.age) + Begun(o.age) <= Now(h, e.age) + Begun(e.age)
      /\ Earlier(g, o.age) <= Earlier(h, e.age)
  <2>1. CASE e.age < WindowTicks - 1
    <3>1. o.age = e.age + 1 /\ Begun(o.age) = 0 /\ Begun(e.age) = 0
      BY <1>1, <1>2, <2>1, Constants DEF Begun
    <3>2. Now(g, e.age + 1) = Now(h, e.age) /\ Earlier(g, e.age + 1) <= Earlier(h, e.age)
      BY <1>1, <1>3, <2>1
    <3>. QED
      BY <1>5, <3>1, <3>2
  <2>2. CASE e.age = WindowTicks - 1
    <3>1. o.age = e.age + 1 /\ Begun(o.age) = 1 /\ Begun(e.age) = 0 /\ e.age < WindowTicks
      BY <1>1, <1>2, <2>2, Constants DEF Begun
    <3>2. h[e.age] > 0 /\ h[e.age] \in Nat
      <4>1. e.age \in Recently
        BY <1>1, <2>2, Constants DEF Recently
      <4>. QED
        BY <3>1, <4>1 DEF KnownFits, History
    <3>3. Now(g, o.age) = Now(h, e.age) - h[e.age] /\ Earlier(g, o.age) = 0
      BY <1>1, <1>3, <1>5, <2>2, <3>1, Constants
    <3>. QED
      BY <1>5, <3>1, <3>2, <3>3
  <2>3. CASE e.age >= WindowTicks
    <3>1. o.age >= WindowTicks /\ Begun(o.age) = 1 /\ Begun(e.age) = 1
      BY <1>1, <1>2, <2>3, Constants DEF Begun
    <3>2. Now(g, o.age) <= Now(h, e.age) /\ Earlier(g, o.age) = 0
      BY <1>1, <1>3, <1>4, <1>5, <2>3, <3>1, Constants
    <3>. QED
      BY <1>5, <3>1, <3>2
  <2>. QED
    BY <1>1, <2>1, <2>2, <2>3, Constants
<1>7. Begun(e.age) \in Nat /\ Begun(o.age) \in Nat
  BY DEF Begun
<1>8. o.age < WindowTicks => g[o.age] > 0
  <2>. SUFFICES ASSUME o.age < WindowTicks PROVE g[o.age] > 0
    OBVIOUS
  <2>1. o.age = e.age + 1 /\ e.age < WindowTicks
    BY <1>1, <1>2, Constants
  <2>2. o.age \in Recently \ {0} /\ o.age - 1 = e.age
    BY <1>1, <2>1, Constants DEF Recently
  <2>. QED
    BY <1>3, <2>1, <2>2 DEF KnownFits
<1>9. o.failures >= MaxFailures => \A n \in Recently : n < LockTicks - o.lock => g[n] = 0
  <2>. SUFFICES ASSUME e.failures >= MaxFailures, NEW n \in Recently, n < LockTicks - o.lock, n # 0
                PROVE  g[n] = 0
    BY <1>2, <1>3
  <2>1. n - 1 \in Recently /\ g[n] = h[n - 1]
    BY <1>3
  <2>2. n - 1 < LockTicks - e.lock
    BY <1>1, <1>2, Constants DEF Recently
  <2>. QED
    BY <2>1, <2>2 DEF KnownFits
<1>10. o.failures < MaxFailures => Now(g, o.age) <= o.failures - Begun(o.age)
  BY <1>1, <1>2, <1>5, <1>6, <1>7, Constants DEF KnownFits
<1>11. Now(g, o.age) + u <= MaxFailures - 1 + m - Begun(o.age)
  BY <1>5, <1>6, <1>7, Constants DEF KnownFits
<1>12. Earlier(g, o.age) <= MaxFailures + m - 3 /\ m > 0
  BY <1>5, <1>6, Constants DEF KnownFits
<1>. QED
  BY <1>3, <1>8, <1>9, <1>10, <1>11, <1>12 DEF KnownFits, o

\* An unlocked client that is forgotten, or is let in, is one the claim lets in.
LEMMA UnlockedFits ==
  ASSUME Counting, NEW h \in History, NEW e \in Entry, e.lock = 0, NEW m \in Nat, NEW u \in Nat, u < m,
         KnownFits(h, e, u, m)
  PROVE  /\ KnownFits(h, e, u + 1, m)
         /\ e.age > WindowTicks => UnknownFits(h, m)
<1>1. e.failures \in Nat /\ e.age \in Nat /\ Begun(e.age) \in {0, 1}
  BY DEF Entry, Begun
<1>2. Now(h, e.age) \in Nat
  BY <1>1, HistoryAddsUp
<1>3. \/ e.failures < MaxFailures /\ Now(h, e.age) <= MaxFailures - 1 - Begun(e.age)
      \/ Now(h, e.age) = 0
  <2>1. CASE e.failures < MaxFailures
    BY <1>1, <1>2, <2>1, Constants DEF KnownFits
  <2>2. CASE e.failures >= MaxFailures
    <3>1. \A n \in Recently : n < LockTicks - e.lock
      BY Constants DEF Recently, Counting
    <3>2. \A n \in Recently : h[n] = 0
      BY <2>2, <3>1 DEF KnownFits
    <3>. QED
      BY <1>1, <3>2, NoneIsNone
  <2>. QED
    BY <1>1, <2>1, <2>2, Constants
<1>4. Now(h, e.age) <= MaxFailures - 1 - Begun(e.age)
  BY <1>1, <1>3, Constants DEF Counting
<1>5. Now(h, e.age) + (u + 1) <= MaxFailures - 1 + m - Begun(e.age)
  BY <1>1, <1>2, <1>4, Constants
<1>6. ASSUME e.age > WindowTicks PROVE UnknownFits(h, m)
  <2>1. Begun(e.age) = 1 /\ Sum(h, Recently) = Now(h, e.age)
    BY <1>1, <1>6, HistoryAddsUp, Constants DEF Begun
  <2>. QED
    BY <1>2, <1>4, <1>6, <2>1, Constants DEF UnknownFits, KnownFits
<1>. QED
  BY <1>5, <1>6 DEF KnownFits

-----------------------------------------------------------------------------
LEMMA ClientFields ==
  ASSUME LockoutTypeOK, AnsweredAtOnce, NEW c \in Clients
  PROVE  /\ Concurrent \in Nat
         /\ failed[c] \in History /\ underWay[c] \in Nat /\ underWay[c] <= Concurrent
         /\ Known(c) => /\ clients[c] \in Entry
                        /\ clients[c].age \in Nat /\ clients[c].lock \in Nat
<1>1. underWay[c] \in Nat /\ underWay[c] <= MaxUnderWay
  BY Constants DEF LockoutTypeOK
<1>2. Concurrent \in Nat /\ underWay[c] <= Concurrent
  <2>1. CASE guards = "keys"
    BY <1>1, <2>1, Constants DEF Concurrent
  <2>2. CASE guards = "invites"
    <3>1. underWay[c] = 0 /\ Concurrent = 1
      BY <2>2 DEF AnsweredAtOnce, Concurrent
    <3>. QED
      BY <3>1
  <2>. QED
    BY <2>1, <2>2 DEF LockoutTypeOK
<1>. QED
  BY <1>1, <1>2, Constants DEF LockoutTypeOK, History, Known, Entry

LEMMA GuardedInit == LockoutInit /\ Counting => Guarded
<1>. SUFFICES ASSUME LockoutInit, Counting, NEW c \in Clients
              PROVE  UnknownFits(failed[c], Concurrent) /\ ~Known(c)
  BY DEF Guarded, Fits
<1>1. failed[c] = NeverFailed /\ ~Known(c)
  BY DEF LockoutInit, Known
<1>2. NeverFailed \in History /\ \A n \in Recently : NeverFailed[n] = 0
  BY DEF NeverFailed, History
<1>3. Sum(NeverFailed, Recently) = 0
  BY <1>2, NoneIsNone
<1>. QED
  BY <1>1, <1>2, <1>3, RecentlyIsFinite, Constants DEF UnknownFits, Counting

\* Who is told that it may try has one more guess under way, or is forgotten.
LEMMA AskGuards ==
  ASSUME LockoutTypeOK, AnsweredAtOnce, Counting, NEW c \in Clients, Fits(c),
         underWay[c] < Concurrent, MayTry(c), clients' = ForgetStale(c)
  PROVE  IF c \in DOMAIN clients'
         THEN /\ KnownFits(failed[c], clients'[c], underWay[c], Concurrent)
              /\ KnownFits(failed[c], clients'[c], underWay[c] + 1, Concurrent)
         ELSE UnknownFits(failed[c], Concurrent)
<1>1. clients' = clients \/ (clients' = Without(c) /\ Known(c) /\ Stale(c))
  BY DEF ForgetStale
<1>2. CASE ~Known(c)
  <2>1. clients' = clients
    BY <1>1, <1>2
  <2>. QED
    BY <1>2, <2>1 DEF Fits, Known
<1>3. CASE Known(c)
  <2>. DEFINE h == failed[c]
              e == clients[c]
              u == underWay[c]
              m == Concurrent
  <2>1. h \in History /\ e \in Entry /\ e.lock = 0 /\ m \in Nat /\ u \in Nat /\ u < m
    BY <1>3, ClientFields DEF Locked, MayTry
  <2>2. KnownFits(h, e, u, m)
    BY <1>3 DEF Fits
  <2>3. Stale(c) => e.age > WindowTicks
    BY DEF Stale
  <2>4. (clients' = clients => c \in DOMAIN clients' /\ clients'[c] = e)
    BY <1>3 DEF Known
  <2>5. clients' = Without(c) => c \notin DOMAIN clients'
    BY DEF Without, Restrict
  <2>. HIDE DEF h, e, u, m
  <2>6. KnownFits(h, e, u + 1, m) /\ (e.age > WindowTicks => UnknownFits(h, m))
    BY <2>1, <2>2, UnlockedFits
  <2>7. CASE clients' = clients
    BY <2>2, <2>4, <2>6, <2>7 DEF h, u, m
  <2>8. CASE clients' = Without(c) /\ Stale(c)
    BY <2>3, <2>5, <2>6, <2>8 DEF h, m
  <2>. QED
    BY <1>1, <2>7, <2>8
<1>. QED
  BY <1>2, <1>3

\* A client that is not asked about is not touched.
LEMMA AskTouchesOne ==
  ASSUME NEW c, NEW d, d # c, clients' = ForgetStale(c),
         UNCHANGED <<guards, failed>>, underWay'[d] = underWay[d], Fits(d)
  PROVE  Fits(d)'
<1>1. clients' = clients \/ clients' = Without(c)
  BY DEF ForgetStale
<1>2. /\ d \in DOMAIN clients' <=> d \in DOMAIN clients
      /\ d \in DOMAIN clients => clients'[d] = clients[d]
  BY <1>1 DEF Without, Restrict
<1>. QED
  BY <1>2 DEF Fits, Known, Concurrent

LEMMA TryGuards ==
  ASSUME LockoutTypeOK, AnsweredAtOnce, Counting, Guarded, NEW c \in Clients, Try(c)
  PROVE  Guarded'
<1>1. /\ underWay[c] < MaxUnderWay /\ MayTry(c) /\ guards = "keys"
      /\ underWay' = [underWay EXCEPT ![c] = @ + 1] /\ clients' = ForgetStale(c)
      /\ guards' = guards /\ failed' = failed /\ evicted' = evicted
  BY DEF Try
<1>. SUFFICES ASSUME NEW d \in Clients \ evicted PROVE Fits(d)'
  BY <1>1 DEF Guarded
<1>2. Fits(d)
  BY DEF Guarded
<1>3. CASE d # c
  <2>1. underWay'[d] = underWay[d]
    BY <1>1, <1>3 DEF LockoutTypeOK
  <2>. QED
    BY <1>1, <1>2, <1>3, <2>1, AskTouchesOne
<1>4. CASE d = c
  <2>1. underWay'[c] = underWay[c] + 1 /\ Concurrent' = Concurrent /\ underWay[c] < Concurrent
    BY <1>1 DEF LockoutTypeOK, Concurrent
  <2>. QED
    BY <1>1, <1>2, <1>4, <2>1, AskGuards DEF Fits, Known
<1>. QED
  BY <1>3, <1>4

LEMMA FindInviteGuards ==
  ASSUME LockoutTypeOK, AnsweredAtOnce, Counting, Guarded, NEW c \in Clients, FindInvite(c)
  PROVE  Guarded'
<1>1. /\ MayTry(c) /\ guards = "invites" /\ clients' = ForgetStale(c)
      /\ guards' = guards /\ underWay' = underWay /\ failed' = failed /\ evicted' = evicted
  BY DEF FindInvite
<1>. SUFFICES ASSUME NEW d \in Clients \ evicted PROVE Fits(d)'
  BY <1>1 DEF Guarded
<1>2. Fits(d)
  BY DEF Guarded
<1>3. CASE d # c
  BY <1>1, <1>2, <1>3, AskTouchesOne
<1>4. CASE d = c
  <2>1. underWay[c] < Concurrent /\ Concurrent' = Concurrent
    <3>1. underWay[c] = 0 /\ Concurrent = 1
      BY <1>1 DEF AnsweredAtOnce, Concurrent
    <3>. QED
      BY <1>1, <3>1 DEF Concurrent
  <2>. QED
    BY <1>1, <1>2, <1>4, <2>1, AskGuards DEF Fits, Known
<1>. QED
  BY <1>3, <1>4

LEMMA SucceedGuards ==
  ASSUME LockoutTypeOK, AnsweredAtOnce, Guarded, NEW c \in Clients, Succeed(c)
  PROVE  Guarded'
<1>1. /\ underWay[c] > 0 /\ underWay' = [underWay EXCEPT ![c] = @ - 1]
      /\ UNCHANGED <<guards, clients, failed, evicted>>
  BY DEF Succeed
<1>. SUFFICES ASSUME NEW d \in Clients \ evicted PROVE Fits(d)'
  BY <1>1 DEF Guarded
<1>2. Fits(d)
  BY DEF Guarded
<1>3. underWay[d] \in Nat /\ underWay'[d] \in Int /\ underWay'[d] <= underWay[d]
  BY <1>1, ClientFields DEF LockoutTypeOK
<1>4. Known(d) => Now(failed[d], clients[d].age) \in Nat
  BY ClientFields, HistoryAddsUp
<1>5. Known(d) => Begun(clients[d].age) \in Nat
  BY DEF Begun
<1>6. Concurrent \in Nat
  BY ClientFields
<1>7. Known(d) => KnownFits(failed[d], clients[d], underWay'[d], Concurrent)
  BY <1>2, <1>3, <1>4, <1>5, <1>6, Constants DEF Fits, KnownFits
<1>. QED
  BY <1>1, <1>2, <1>7 DEF Fits, Known, Concurrent

\* A failure that is counted: of the client itself, with u guesses under way
\* before it was ...
LEMMA CountedGuards ==
  ASSUME LockoutTypeOK, AnsweredAtOnce, Counting, NEW c \in Clients, IsCounted(c), c \notin evicted',
         NEW m \in Nat, NEW u \in Nat, u > 0, u <= m,
         Known(c) => KnownFits(failed[c], clients[c], u, m),
         ~Known(c) => UnknownFits(failed[c], m)
  PROVE  /\ c \in DOMAIN clients'
         /\ KnownFits(failed'[c], clients'[c], u - 1, m)
<1>1. /\ RecordFailure(c)
      /\ failed' = [d \in Clients |-> IF d \in evicted' THEN NeverFailed
                                     ELSE IF d = c THEN [failed[d] EXCEPT ![0] = @ + 1]
                                     ELSE failed[d]]
  BY DEF IsCounted
<1>. DEFINE h == failed[c]
            e == clients[c]
            g == [h EXCEPT ![0] = @ + 1]
<1>2. h \in History /\ (Known(c) => e \in Entry /\ e.age \in Nat)
  BY ClientFields
<1>3. failed'[c] = g
  BY <1>1
<1>4. (Known(c) => KnownFits(h, e, u, m)) /\ (~Known(c) => UnknownFits(h, m))
  OBVIOUS
<1>5. Stale(c) <=> e.age > WindowTicks
  BY DEF Stale
<1>. HIDE DEF h, e
<1>6. CASE Known(c) /\ ~Stale(c)
  <2>1. clients' = With(c, Counted(e), clients)
    BY <1>1, <1>6 DEF RecordFailure, e
  <2>2. c \in DOMAIN clients' /\ clients'[c] = Counted(e)
    BY <2>1 DEF With
  <2>3. e.age <= WindowTicks
    BY <1>2, <1>5, <1>6, Constants
  <2>4. KnownFits(g, Counted(e), u - 1, m)
    <3>. HIDE DEF g
    <3>. QED
      BY <1>2, <1>4, <1>6, <2>3, CountedFits DEF g
  <2>. QED
    BY <1>3, <2>2, <2>4
<1>7. CASE ~(Known(c) /\ ~Stale(c))
  <2>1. c \in DOMAIN clients' /\ clients'[c] = Counted(Fresh)
    <3>1. CASE \E rest : clients' = With(c, Counted(Fresh), rest)
      BY <3>1 DEF With
    <3>. QED
      BY <1>1, <1>7, <3>1 DEF RecordFailure
  <2>2. h[0] = 0 /\ Sum(h, Recently) <= MaxFailures + m - 3
    <3>1. CASE Known(c)
      <4>1. e.age > WindowTicks /\ e.age \in Nat
        BY <1>2, <1>5, <1>7, <3>1
      <4>2. Sum(h, Recently) = Now(h, e.age) /\ Now(h, e.age) \in Nat /\ Begun(e.age) = 1
        BY <1>2, <4>1, HistoryAddsUp, Constants DEF Begun
      <4>. QED
        BY <1>4, <3>1, <4>1, <4>2, Constants DEF KnownFits
    <3>2. CASE ~Known(c)
      <4>1. Sum(h, Recently) \in Nat
        <5>1. Sum(h, Recently) = Now(h, WindowTicks) /\ Now(h, WindowTicks) \in Nat
          BY <1>2, HistoryAddsUp, Constants
        <5>. QED
          BY <5>1
      <4>. QED
        BY <1>4, <3>2, <4>1, Constants DEF UnknownFits
    <3>. QED
      BY <3>1, <3>2
  <2>3. KnownFits(g, Counted(Fresh), u - 1, m)
    <3>. HIDE DEF g
    <3>. QED
      BY <1>2, <2>2, FirstFits DEF g
  <2>. QED
    BY <1>3, <2>1, <2>3
<1>. QED
  BY <1>6, <1>7

\* ... and of any other.
LEMMA CountTouchesOne ==
  ASSUME NEW c \in Clients, IsCounted(c), NEW d \in Clients, d # c, d \notin evicted',
         guards' = guards, underWay'[d] = underWay[d], Fits(d)
  PROVE  Fits(d)'
<1>1. failed'[d] = failed[d]
  BY DEF IsCounted
<1>2. /\ d \in DOMAIN clients' <=> d \in DOMAIN clients
      /\ d \in DOMAIN clients => clients'[d] = clients[d]
  <2>1. CASE \E e : clients' = With(c, e, clients)
    BY <2>1 DEF With
  <2>2. CASE \E x \in Evictable : /\ clients' = With(c, Counted(Fresh), Without(x))
                                  /\ evicted' = evicted \cup {x}
    <3>1. PICK x : clients' = With(c, Counted(Fresh), Without(x)) /\ d # x
      BY <2>2
    <3>. QED
      BY <3>1 DEF With, Without, Restrict
  <2>. QED
    BY <2>1, <2>2 DEF IsCounted, RecordFailure
<1>. QED
  BY <1>1, <1>2 DEF Fits, Known, Concurrent

LEMMA EvictedStay ==
  ASSUME NEW c, IsCounted(c)
  PROVE  evicted \subseteq evicted'
BY DEF IsCounted, RecordFailure

LEMMA FailGuards ==
  ASSUME LockoutTypeOK, AnsweredAtOnce, Counting, Guarded, NEW c \in Clients, Fail(c)
  PROVE  Guarded'
<1>1. /\ underWay[c] > 0 /\ underWay' = [underWay EXCEPT ![c] = @ - 1] /\ IsCounted(c)
      /\ guards' = guards
  BY DEF Fail
<1>. SUFFICES ASSUME NEW d \in Clients \ evicted' PROVE Fits(d)'
  BY DEF Guarded
<1>2. Fits(d)
  BY <1>1, EvictedStay DEF Guarded
<1>3. CASE d # c
  <2>1. underWay'[d] = underWay[d]
    BY <1>1, <1>3 DEF LockoutTypeOK
  <2>. QED
    BY <1>1, <1>2, <1>3, <2>1, CountTouchesOne
<1>4. CASE d = c
  <2>. DEFINE u == underWay[c]
              m == Concurrent
  <2>1. u \in Nat /\ u > 0 /\ u <= m /\ m \in Nat
    BY <1>1, ClientFields
  <2>2. /\ Known(c) => KnownFits(failed[c], clients[c], u, m)
        /\ ~Known(c) => UnknownFits(failed[c], m)
    BY <1>2, <1>4 DEF Fits
  <2>3. underWay'[c] = u - 1 /\ Concurrent' = m
    BY <1>1 DEF LockoutTypeOK, Concurrent
  <2>. HIDE DEF u, m
  <2>4. c \in DOMAIN clients' /\ KnownFits(failed'[c], clients'[c], u - 1, m)
    BY <1>1, <1>4, <2>1, <2>2, CountedGuards
  <2>. QED
    BY <1>4, <2>3, <2>4 DEF Fits, Known
<1>. QED
  BY <1>3, <1>4

LEMMA MissInviteGuards ==
  ASSUME LockoutTypeOK, AnsweredAtOnce, Counting, Guarded, NEW c \in Clients, MissInvite(c)
  PROVE  Guarded'
<1>1. /\ guards = "invites" /\ MayTry(c) /\ IsCounted(c)
      /\ guards' = guards /\ underWay' = underWay
  BY DEF MissInvite
<1>. SUFFICES ASSUME NEW d \in Clients \ evicted' PROVE Fits(d)'
  BY DEF Guarded
<1>2. Fits(d)
  BY <1>1, EvictedStay DEF Guarded
<1>3. CASE d # c
  BY <1>1, <1>2, <1>3, CountTouchesOne
<1>4. CASE d = c
  <2>1. underWay[c] = 0 /\ Concurrent = 1 /\ Concurrent' = 1
    BY <1>1 DEF AnsweredAtOnce, Concurrent
  <2>2. Known(c) => KnownFits(failed[c], clients[c], 1, 1)
    <3>. SUFFICES ASSUME Known(c) PROVE KnownFits(failed[c], clients[c], 1, 1)
      OBVIOUS
    <3>. DEFINE h == failed[c]
                e == clients[c]
    <3>1. h \in History /\ e \in Entry /\ e.lock = 0
      BY <1>1, ClientFields DEF Locked, MayTry
    <3>2. KnownFits(h, e, 0, 1)
      BY <1>2, <1>4, <2>1 DEF Fits
    <3>. HIDE DEF h, e
    <3>3. KnownFits(h, e, 0 + 1, 1)
      BY <3>1, <3>2, UnlockedFits
    <3>. QED
      BY <3>3 DEF h, e
  <2>3. ~Known(c) => UnknownFits(failed[c], 1)
    BY <1>2, <1>4, <2>1 DEF Fits
  <2>4. c \in DOMAIN clients' /\ KnownFits(failed'[c], clients'[c], 1 - 1, 1)
    BY <1>1, <1>4, <2>2, <2>3, CountedGuards
  <2>5. underWay'[c] = 1 - 1
    BY <1>1, <2>1
  <2>. QED
    BY <1>4, <2>1, <2>4, <2>5 DEF Fits, Known
<1>. QED
  BY <1>3, <1>4

LEMMA TickGuards ==
  ASSUME LockoutTypeOK, AnsweredAtOnce, Counting, Guarded, Tick
  PROVE  Guarded'
<1>1. /\ clients' = [c \in DOMAIN clients |-> Older(clients[c])]
      /\ \A c \in Clients : failed'[c] = OneOlder(failed[c])
      /\ UNCHANGED <<guards, underWay, evicted>>
  BY DEF Tick, OneOlder
<1>. SUFFICES ASSUME NEW c \in Clients \ evicted PROVE Fits(c)'
  BY <1>1 DEF Guarded
<1>2. Fits(c)
  BY DEF Guarded
<1>. DEFINE h == failed[c]
            g == OneOlder(h)
            u == underWay[c]
            m == Concurrent
<1>3. h \in History /\ u \in Nat /\ u <= m /\ m \in Nat
  BY ClientFields
<1>4. failed'[c] = g /\ underWay'[c] = u /\ Concurrent' = m
  BY <1>1 DEF Concurrent
<1>5. CASE Known(c)
  <2>. DEFINE e == clients[c]
  <2>1. c \in DOMAIN clients' /\ clients'[c] = Older(e)
    BY <1>1, <1>5 DEF Known
  <2>2. e \in Entry /\ KnownFits(h, e, u, m)
    BY <1>2, <1>5, ClientFields DEF Fits
  <2>. HIDE DEF h, g, u, m, e
  <2>3. KnownFits(g, Older(e), u, m)
    BY <1>3, <2>2, OlderFits DEF g
  <2>. QED
    BY <1>4, <2>1, <2>3 DEF Fits, Known
<1>6. CASE ~Known(c)
  <2>1. c \notin DOMAIN clients'
    BY <1>1, <1>6 DEF Known
  <2>2. UnknownFits(h, m)
    BY <1>2, <1>6 DEF Fits
  <2>3. g[0] = 0 /\ Sum(g, Recently) <= Sum(h, Recently) /\ g \in History
    <3>. HIDE DEF h
    <3>. QED
      BY <1>3, TickAges
  <2>. HIDE DEF h, g, u, m
  <2>4. Sum(g, Recently) \in Nat /\ Sum(h, Recently) \in Nat
    <3>1. /\ Sum(g, Recently) = Now(g, WindowTicks) /\ Now(g, WindowTicks) \in Nat
          /\ Sum(h, Recently) = Now(h, WindowTicks) /\ Now(h, WindowTicks) \in Nat
      BY <1>3, <2>3, HistoryAddsUp, Constants
    <3>. QED
      BY <3>1
  <2>5. UnknownFits(g, m)
    BY <2>2, <2>3, <2>4, Constants DEF UnknownFits
  <2>. QED
    BY <1>4, <2>1, <2>5 DEF Fits, Known
<1>. QED
  BY <1>5, <1>6

LEMMA GuardedNext == LockoutIInv /\ Counting /\ Guarded /\ [LockoutNext]_lockoutVars => Guarded'
<1>. SUFFICES ASSUME LockoutIInv, Counting, Guarded, [LockoutNext]_lockoutVars PROVE Guarded'
  OBVIOUS
<1>1. LockoutTypeOK /\ AnsweredAtOnce
  BY DEF LockoutIInv
<1>2. CASE UNCHANGED lockoutVars
  BY <1>2 DEF lockoutVars, Guarded, Fits, Known, Concurrent
<1>3. ASSUME NEW c \in Clients, JoinTable(c) PROVE Guarded'
  BY <1>3 DEF JoinTable, Guarded, Fits, Known, Concurrent
<1>. QED
  BY <1>1, <1>2, <1>3, TickGuards, TryGuards, SucceedGuards, FailGuards, FindInviteGuards,
     MissInviteGuards
  DEF LockoutNext

LEMMA GuardedIsBounded == LockoutIInv /\ (Counting => Guarded) => CountedGuessesBounded
<1>. SUFFICES ASSUME LockoutTypeOK, AnsweredAtOnce, Guarded, Counting, NEW c \in Clients \ evicted
              PROVE  Failures(c) <= 2 * (MaxFailures - 1 + Concurrent - 1)
  BY DEF CountedGuessesBounded, Counting, LockoutIInv
<1>. DEFINE h == failed[c]
            m == Concurrent
<1>. SUFFICES Failures(c) <= 2 * (MaxFailures - 1 + m - 1)
  OBVIOUS
<1>1. h \in History /\ underWay[c] \in Nat /\ m \in Nat
  BY ClientFields
<1>2. Failures(c) = Sum(h, Recently)
  <2>1. DOMAIN h = Recently
    BY <1>1 DEF History
  <2>. QED
    BY <2>1 DEF Failures, SumFunction, Sum
<1>3. Fits(c)
  BY DEF Guarded
<1>4. CASE Known(c)
  <2>. DEFINE a == clients[c].age
  <2>1. KnownFits(h, clients[c], underWay[c], m) /\ a \in Nat
    BY <1>3, <1>4, ClientFields DEF Fits
  <2>. HIDE DEF h, m
  <2>2. /\ Sum(h, Recently) = Now(h, a) + Earlier(h, a)
        /\ Now(h, a) \in Nat /\ Earlier(h, a) \in Nat /\ Begun(a) \in Nat
    BY <1>1, <2>1, HistoryAddsUp DEF Begun
  <2>. QED
    BY <1>1, <1>2, <2>1, <2>2, Constants DEF KnownFits, Counting
<1>5. CASE ~Known(c)
  <2>1. UnknownFits(h, m)
    BY <1>3, <1>5 DEF Fits
  <2>. HIDE DEF h, m
  <2>2. Sum(h, Recently) = Now(h, WindowTicks) /\ Now(h, WindowTicks) \in Nat
    BY <1>1, HistoryAddsUp, Constants
  <2>3. Sum(h, Recently) \in Nat
    BY <2>2
  <2>. QED
    BY <1>1, <1>2, <2>1, <2>3, Constants DEF UnknownFits, Counting
<1>. QED
  BY <1>4, <1>5

\* However a client spreads its guesses, and whatever it has under way when it is
\* locked, no more of them are counted as wrong within a window than twice what is
\* counted before a lock (retryAfterMs, recordFailure) -- for access keys all that
\* are answered, for invitations not those of join-table while the client is locked.
THEOREM CountedGuessesStayBounded == LockoutSpec => []CountedGuessesBounded
<1>1. LockoutInit => (Counting => Guarded)
  BY GuardedInit
<1>2. LockoutIInv /\ (Counting => Guarded) /\ [LockoutNext]_lockoutVars => (Counting => Guarded)'
  <2>1. Counting' <=> Counting
    BY DEF Counting
  <2>. QED
    BY <2>1, GuardedNext
<1>3. LockoutSpec => [](Counting => Guarded)
  BY <1>1, <1>2, LockoutInvariantHolds, PTL DEF LockoutSpec
<1>. QED
  BY <1>3, LockoutInvariantHolds, GuardedIsBounded, PTL
=============================================================================
