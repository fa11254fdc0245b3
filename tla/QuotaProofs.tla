---------------------------- MODULE QuotaProofs ----------------------------
(***************************************************************************)
(* Proofs about Quota, for every set of users, browsers and requests, every *)
(* setting of the limits, and with failing queries or without.              *)
(*                                                                         *)
(* The inductive invariant is QuotaOK. Its parts: AccountsOK, which the     *)
(* quota's statements on users keep; CallsOK, the shape of the calls;       *)
(* BillsOK, the account of each user's generations; and RefillsOK, what a   *)
(* call that is past its refill knows of the user's row.                    *)
(***************************************************************************)
EXTENDS Quota, AccountsProofs, FiniteSetTheorems

USE AccountsAssumption, QuotaAssumption

Call ==
  [at : {"idle", "refill", "spend", "ask", "granted", "refused"},
   user : Ids \cup {Null}, start : 0 .. MaxTime, told : Nat \cup {Null}]

CallsOK ==
  /\ gen \in [Reqs -> Call]
  /\ \A r \in Reqs : gen[r].at # "idle" => gen[r].user \in made

(* The requests that may still hand a generation of u back. *)
Holders(u) == {r \in Reqs : gen[r].at = "granted" /\ gen[r].user = u}

(* A refill forgets the generations that are out, at most one per request:  *)
(* that is how far net may fall when they come back.                        *)
Bill(u) ==
  /\ net[u] >= Cardinality(Holders(u)) - Cardinality(Reqs)
  /\ u \notin Live => full[u] = DefaultQuota /\ net[u] = 0
  /\ u \in Live =>
       /\ users[u].quota >= 0
       /\ users[u].quota + net[u] <= full[u]
       /\ ~DbFaults => users[u].quota + net[u] = full[u]

BillsOK ==
  /\ full \in [Ids -> {QUOTA_MAX, DefaultQuota}]
  /\ net \in [Ids -> Int]
  /\ \A u \in Ids : Bill(u)

NotDue(r) ==
  /\ gen[r].at \in {"spend", "ask", "refused"} /\ gen[r].user \in Live
       => users[gen[r].user].refreshed + QUOTA_REFILL_HOURS > gen[r].start
  /\ gen[r].at = "refused" /\ gen[r].told # Null => gen[r].told > gen[r].start

RefillsOK == \A r \in Reqs : NotDue(r)

QuotaOK == AccountsOK /\ CallsOK /\ BillsOK /\ RefillsOK

-----------------------------------------------------------------------------
(* The users table under the quota's statements *)

(* One live row changes in its quota and its date. *)
RowChanges(u, quota, refreshed) ==
  /\ Live' = Live
  /\ users'[u].quota = quota /\ users'[u].refreshed = refreshed
  /\ \A v \in Ids \ {u} : users'[v] = users[v]

LEMMA Limits ==
  /\ QUOTA_MAX \in Nat \ {0} /\ QUOTA_REFILL_HOURS \in Nat \ {0}
  /\ DefaultQuota \in Nat /\ MaxTime \in Nat
  <1>1. QUOTA_MAX \in {QUOTA_MAX, QUOTA_REFILL_HOURS}
        /\ QUOTA_REFILL_HOURS \in {QUOTA_MAX, QUOTA_REFILL_HOURS}
        /\ DefaultQuota \in {DefaultQuota, MaxTime}
        /\ MaxTime \in {DefaultQuota, MaxTime}
    OBVIOUS
  <1> QED
    BY <1>1

LEMMA NullIsNoRow == Null \notin Row
  <1>1. \A row \in Row :
          row \in [email : Emails, pw : Passwords, quota : Int, refreshed : Nat]
    BY Limits DEF Row
  <1> QED
    BY <1>1

LEMMA PlusStep ==
  ASSUME AccountsOK, NEW u \in Live, NEW n \in Int, users' = Plus(u, n),
         UNCHANGED <<accounts, now>>
  PROVE  AccountsOK' /\ RowChanges(u, users[u].quota + n, users[u].refreshed)
  <1> DEFINE row == [users[u] EXCEPT !.quota = @ + n]
  <1>1. u \in Ids /\ users[u] \in Row /\ users[u] # Null
        /\ users \in [Ids -> Row \cup {Null}] /\ now \in 0 .. MaxTime
    BY DEF AccountsOK, TypeOK, Live
  <1>2. /\ row \in Row /\ row.quota = users[u].quota + n
        /\ row.refreshed = users[u].refreshed /\ row.email = users[u].email
    BY <1>1 DEF Row
  <1>3. users' = [users EXCEPT ![u] = row]
    BY <1>1 DEF Plus
  <1>4. Null \notin Row
    BY NullIsNoRow
  <1> HIDE DEF row
  <1>5. users' \in [Ids -> Row \cup {Null}] /\ users'[u] = row
        /\ \A v \in Ids \ {u} : users'[v] = users[v]
    BY <1>1, <1>2, <1>3
  <1>6. AccountsOK'
    BY <1>1, <1>2, <1>5, UsersStep
  <1>7. Live' = Live
    BY <1>1, <1>2, <1>4, <1>5 DEF Live
  <1> QED
    BY <1>1, <1>2, <1>5, <1>6, <1>7 DEF RowChanges

LEMMA RefillStep ==
  ASSUME AccountsOK, NEW u \in Live, NEW start \in 0 .. MaxTime,
         users' = Refilled(u, start), UNCHANGED <<accounts, now>>
  PROVE  AccountsOK' /\ RowChanges(u, QUOTA_MAX, start)
  <1> DEFINE row == [users[u] EXCEPT !.quota = QUOTA_MAX, !.refreshed = start]
  <1>1. u \in Ids /\ users[u] \in Row /\ users[u] # Null
        /\ users \in [Ids -> Row \cup {Null}] /\ now \in 0 .. MaxTime
    BY DEF AccountsOK, TypeOK, Live
  <1>2. /\ row \in Row /\ row.quota = QUOTA_MAX
        /\ row.refreshed = start /\ row.email = users[u].email
    <2>1. QUOTA_MAX \in Int
      BY Limits
    <2> QED
      BY <1>1, <2>1 DEF Row
  <1>3. users' = [users EXCEPT ![u] = row]
    BY <1>1 DEF Refilled
  <1>4. Null \notin Row
    BY NullIsNoRow
  <1> HIDE DEF row
  <1>5. users' \in [Ids -> Row \cup {Null}] /\ users'[u] = row
        /\ \A v \in Ids \ {u} : users'[v] = users[v]
    BY <1>1, <1>2, <1>3
  <1>6. AccountsOK'
    BY <1>1, <1>2, <1>5, UsersStep
  <1>7. Live' = Live
    BY <1>1, <1>2, <1>4, <1>5 DEF Live
  <1> QED
    BY <1>1, <1>2, <1>5, <1>6, <1>7 DEF RowChanges

-----------------------------------------------------------------------------
(* The calls *)

LEMMA CallStep ==
  ASSUME CallsOK, NEW r \in Reqs, NEW new \in Call, gen' = [gen EXCEPT ![r] = new],
         new.at # "idle" => new.user \in made, UNCHANGED made
  PROVE  /\ CallsOK' /\ gen'[r] = new
         /\ \A x \in Reqs \ {r} : gen'[x] = gen[x]
  BY DEF CallsOK

LEMMA NoCallIsACall == NoCall \in Call /\ NoCall.at = "idle"
  BY Limits DEF NoCall, Call

(* A call at "refill" or past it goes on, or ends. *)
LEMMA ContinueStep ==
  ASSUME CallsOK, NEW r \in Reqs, gen[r].at # "idle",
         NEW step \in {"spend", "ask", "granted"}, Continue(r, step), UNCHANGED made
  PROVE  /\ CallsOK' /\ gen'[r].at = step
         /\ gen'[r].user = gen[r].user /\ gen'[r].start = gen[r].start
         /\ \A x \in Reqs \ {r} : gen'[x] = gen[x]
  <1> DEFINE new == [gen[r] EXCEPT !.at = step]
  <1>1. gen[r] \in Call /\ gen[r].user \in made
    BY DEF CallsOK
  <1>2. new \in Call /\ new.at = step /\ new.user = gen[r].user
        /\ new.start = gen[r].start
    BY <1>1 DEF Call
  <1>3. gen' = [gen EXCEPT ![r] = new]
    BY <1>1 DEF Continue, Call, CallsOK
  <1> HIDE DEF new
  <1> QED
    BY <1>1, <1>2, <1>3, CallStep

LEMMA EndStep ==
  ASSUME CallsOK, NEW r \in Reqs, End(r), UNCHANGED made
  PROVE  /\ CallsOK' /\ gen'[r].at = "idle"
         /\ \A x \in Reqs \ {r} : gen'[x] = gen[x]
  BY NoCallIsACall, CallStep DEF End

-----------------------------------------------------------------------------
(* The holders *)

LEMMA HoldersAreFinite ==
  ASSUME NEW u
  PROVE  /\ IsFiniteSet(Holders(u)) /\ Cardinality(Holders(u)) \in Nat
         /\ Cardinality(Reqs) \in Nat /\ Cardinality(Holders(u)) <= Cardinality(Reqs)
  <1>1. Holders(u) \subseteq Reqs
    BY DEF Holders
  <1> QED
    BY <1>1, FS_Subset, FS_CardinalityType

(* What a step of the call of r does to the number of holders. *)
LEMMA HoldersStep ==
  ASSUME CallsOK, NEW r \in Reqs, \A x \in Reqs \ {r} : gen'[x] = gen[x], NEW u
  PROVE  /\ r \in Holders(u)' => Cardinality(Holders(u)') <= Cardinality(Holders(u)) + 1
         /\ r \notin Holders(u)' => Cardinality(Holders(u)') <= Cardinality(Holders(u))
         /\ r \notin Holders(u)' /\ r \in Holders(u)
              => Cardinality(Holders(u)') = Cardinality(Holders(u)) - 1
  <1>1. Holders(u)' \ {r} = Holders(u) \ {r}
    BY DEF Holders
  <1>2. IsFiniteSet(Holders(u)) /\ Cardinality(Holders(u)) \in Nat
    BY HoldersAreFinite
  <1>3. CASE r \in Holders(u)'
    <2>1. CASE r \in Holders(u)
      <3>1. Holders(u)' = Holders(u)
        BY <1>1, <1>3, <2>1
      <3> QED
        BY <1>2, <1>3, <3>1
    <2>2. CASE r \notin Holders(u)
      <3>1. Holders(u)' = Holders(u) \cup {r}
        BY <1>1, <1>3, <2>2
      <3>2. Cardinality(Holders(u)') = Cardinality(Holders(u)) + 1
        BY <1>2, <2>2, <3>1, FS_AddElement
      <3> QED
        BY <1>2, <1>3, <3>2
    <2> QED
      BY <2>1, <2>2
  <1>4. CASE r \notin Holders(u)'
    <2>1. Holders(u)' = Holders(u) \ {r}
      BY <1>1, <1>4
    <2>2. Cardinality(Holders(u)') = IF r \in Holders(u)
            THEN Cardinality(Holders(u)) - 1 ELSE Cardinality(Holders(u))
      BY <1>2, <2>1, FS_RemoveElement
    <2> QED
      BY <1>2, <1>4, <2>2
  <1> QED
    BY <1>3, <1>4

-----------------------------------------------------------------------------
(* What a step leaves alone *)

LEMMA BillStays ==
  ASSUME NEW u \in Ids, Bill(u), net[u] \in Int, UNCHANGED <<users[u], full[u], net[u]>>,
         Cardinality(Holders(u)') <= Cardinality(Holders(u))
  PROVE  Bill(u)'
  <1>1. (u \in Live) = (u \in Live)'
    BY DEF Live
  <1>2. Cardinality(Holders(u)') \in Int /\ Cardinality(Holders(u)) \in Int
        /\ Cardinality(Reqs) \in Int
    <2>1. Holders(u)' \subseteq Reqs
      BY DEF Holders
    <2> QED
      BY <2>1, HoldersAreFinite, FS_Subset, FS_CardinalityType
  <1>3. net[u]' >= Cardinality(Holders(u)') - Cardinality(Reqs)
    BY <1>2 DEF Bill
  <1> QED
    BY <1>1, <1>3 DEF Bill

(* The call of r moves, and is granted nothing. *)
LEMMA BillsStay ==
  ASSUME CallsOK, BillsOK, NEW r \in Reqs, gen'[r].at # "granted",
         \A x \in Reqs \ {r} : gen'[x] = gen[x], UNCHANGED <<users, full, net>>
  PROVE  BillsOK'
  <1>1. ASSUME NEW u \in Ids
        PROVE  Bill(u)'
    <2>1. r \notin Holders(u)'
      BY DEF Holders
    <2>2. Cardinality(Holders(u)') <= Cardinality(Holders(u))
      BY <2>1, HoldersStep
    <2> QED
      BY <2>2, BillStays DEF BillsOK
  <1> QED
    BY <1>1 DEF BillsOK

(* No refill makes the date of a row earlier. *)
LEMMA RefillsStay ==
  ASSUME AccountsOK, AccountsOK', CallsOK, RefillsOK,
         \A x \in Reqs : gen'[x] = gen[x] \/ NotDue(x)',
         \A u \in made : u \in Live' => /\ u \in Live
                                        /\ users'[u].refreshed >= users[u].refreshed
  PROVE  RefillsOK'
  <1> SUFFICES ASSUME NEW x \in Reqs, gen'[x] = gen[x]
               PROVE  NotDue(x)'
    BY DEF RefillsOK
  <1>1. NotDue(x) /\ gen[x] \in Call
    BY DEF RefillsOK, CallsOK
  <1>2. ASSUME gen[x].at \in {"spend", "ask", "refused"}, gen[x].user \in Live'
        PROVE  users'[gen[x].user].refreshed + QUOTA_REFILL_HOURS > gen[x].start
    <2> DEFINE u == gen[x].user
    <2>1. u \in made /\ u \in Live
      BY <1>2 DEF CallsOK
    <2>2. users'[u].refreshed >= users[u].refreshed
      BY <1>2, <2>1
    <2>3. /\ users[u] \in Row /\ users'[u] \in Row
      BY <1>2, <2>1 DEF AccountsOK, TypeOK, Live
    <2>4. /\ users[u].refreshed \in Int /\ users'[u].refreshed \in Int
          /\ gen[x].start \in Int /\ QUOTA_REFILL_HOURS \in Int
      BY <1>1, <2>3, Limits DEF Row, Call
    <2>5. users[u].refreshed + QUOTA_REFILL_HOURS > gen[x].start
      BY <1>1, <1>2, <2>1 DEF NotDue
    <2> HIDE DEF u
    <2>6. users'[u].refreshed + QUOTA_REFILL_HOURS > gen[x].start
      BY <2>2, <2>4, <2>5
    <2> QED
      BY <2>6 DEF u
  <1> QED
    BY <1>1, <1>2 DEF NotDue

-----------------------------------------------------------------------------
(* The steps *)

(* The call of r moves, nothing is granted, and the table stays as it is. *)
LEMMA QuietStep ==
  ASSUME QuotaOK, NEW r \in Reqs, UNCHANGED <<vars, full, net>>, CallsOK',
         \A x \in Reqs \ {r} : gen'[x] = gen[x],
         gen'[r].at # "granted", NotDue(r)'
  PROVE  QuotaOK'
  <1>1. AccountsOK'
    BY UsersStep DEF QuotaOK, AccountsOK, TypeOK, vars
  <1>2. BillsOK'
    BY BillsStay DEF QuotaOK, vars
  <1>3. \A u \in made : u \in Live' => /\ u \in Live
                                       /\ users'[u].refreshed >= users[u].refreshed
    BY DEF vars, Live, QuotaOK, AccountsOK, TypeOK, Row
  <1>4. RefillsOK'
    BY <1>1, <1>3, RefillsStay DEF QuotaOK
  <1> QED
    BY <1>1, <1>2, <1>4 DEF QuotaOK

LEMMA QuietEnd ==
  ASSUME QuotaOK, NEW r \in Reqs, End(r), UNCHANGED <<vars, full, net>>
  PROVE  QuotaOK'
  <1>1. /\ CallsOK' /\ gen'[r].at = "idle"
        /\ \A x \in Reqs \ {r} : gen'[x] = gen[x]
    BY EndStep DEF QuotaOK, vars, accounts
  <1> QED
    BY <1>1, QuietStep DEF NotDue

LEMMA StartStep ==
  ASSUME QuotaOK, NEW r \in Reqs, spendOneGeneration(r)
  PROVE  QuotaOK'
  <1>1. PICK u \in made :
          gen' = [gen EXCEPT ![r] = [at |-> "refill", user |-> u, start |-> now,
                                     told |-> Null]]
    BY DEF spendOneGeneration
  <1>2. UNCHANGED <<vars, full, net>>
    BY DEF spendOneGeneration
  <1> DEFINE new == [at |-> "refill", user |-> u, start |-> now, told |-> Null]
  <1>3. new \in Call /\ new.at = "refill" /\ new.user \in made
    BY DEF QuotaOK, AccountsOK, TypeOK, Call
  <1> HIDE DEF new
  <1>4. gen' = [gen EXCEPT ![r] = new]
    BY <1>1 DEF new
  <1>5. /\ CallsOK' /\ gen'[r] = new
        /\ \A x \in Reqs \ {r} : gen'[x] = gen[x]
    BY <1>2, <1>3, <1>4, CallStep DEF QuotaOK, vars, accounts
  <1> QED
    BY <1>2, <1>3, <1>5, QuietStep DEF NotDue

(* The quota was found empty; the time to tell is read from the row. *)
LEMMA AskStep ==
  ASSUME QuotaOK, NEW r \in Reqs, findUser(r)
  PROVE  QuotaOK'
  <1>1. UNCHANGED <<vars, full, net>> /\ gen[r].at = "ask"
    BY DEF findUser
  <1>2. CASE End(r)
    BY <1>1, <1>2, QuietEnd
  <1>3. ASSUME gen' = [gen EXCEPT ![r].at = "refused",
                  ![r].told = IF gen[r].user \in Live
                              THEN users[gen[r].user].refreshed + QUOTA_REFILL_HOURS
                              ELSE Null]
        PROVE  QuotaOK'
    <2>1. PICK told : told = IF gen[r].user \in Live
                             THEN users[gen[r].user].refreshed + QUOTA_REFILL_HOURS
                             ELSE Null
      OBVIOUS
    <2>2. gen[r] \in Call /\ gen[r].user \in made /\ gen \in [Reqs -> Call]
      BY <1>1 DEF QuotaOK, CallsOK
    <2>3. /\ told \in Nat \cup {Null}
          /\ gen[r].user \in Live \/ told # Null => told > gen[r].start
          /\ gen[r].user \in Live => told = users[gen[r].user].refreshed + QUOTA_REFILL_HOURS
      <3>1. CASE gen[r].user \notin Live
        BY <2>1, <3>1
      <3>2. CASE gen[r].user \in Live
        <4>1. users[gen[r].user] \in Row
          BY <3>2 DEF QuotaOK, AccountsOK, TypeOK, Live
        <4>2. users[gen[r].user].refreshed \in Nat
          BY <4>1, Limits DEF Row
        <4>3. users[gen[r].user].refreshed + QUOTA_REFILL_HOURS > gen[r].start
          BY <1>1, <3>2 DEF QuotaOK, RefillsOK, NotDue
        <4> QED
          BY <2>1, <3>2, <4>2, <4>3, Limits
      <3> QED
        BY <3>1, <3>2
    <2> DEFINE new == [gen[r] EXCEPT !.at = "refused", !.told = told]
    <2>4. /\ new \in Call /\ new.at = "refused" /\ new.user = gen[r].user
          /\ new.start = gen[r].start /\ new.told = told
      BY <2>2, <2>3 DEF Call
    <2>5. gen' = [gen EXCEPT ![r] = new]
      BY <1>3, <2>1, <2>2 DEF Call
    <2> HIDE DEF new
    <2>6. /\ CallsOK' /\ gen'[r] = new
          /\ \A x \in Reqs \ {r} : gen'[x] = gen[x]
      BY <1>1, <2>2, <2>4, <2>5, CallStep DEF QuotaOK, vars, accounts
    <2>7. NotDue(r)'
      BY <1>1, <2>3, <2>4, <2>6 DEF NotDue, vars, Live
    <2> QED
      BY <1>1, <2>4, <2>6, <2>7, QuietStep
  <1> QED
    BY <1>2, <1>3 DEF findUser

LEMMA RefillOrNot ==
  ASSUME QuotaOK, NEW r \in Reqs, refillQuotaIfDue(r)
  PROVE  QuotaOK'
  <1>0. PICK u, start : u = gen[r].user /\ start = gen[r].start
    OBVIOUS
  <1> DEFINE effect == IF u \in Live /\ Due(u, start)
                       THEN /\ users' = Refilled(u, start)
                            /\ full' = [full EXCEPT ![u] = QUOTA_MAX]
                            /\ net' = [net EXCEPT ![u] = 0]
                       ELSE UNCHANGED <<users, full, net>>
  <1>1. /\ UNCHANGED <<accounts, now>> /\ gen[r].at = "refill"
        /\ u \in made /\ start \in 0 .. MaxTime
        /\ Continue(r, "spend") \/ End(r)
        /\ (effect /\ Continue(r, "spend")) \/ (effect /\ End(r))
             \/ (End(r) /\ UNCHANGED <<users, full, net>>)
    BY <1>0 DEF refillQuotaIfDue, QuotaOK, CallsOK, Call
  <1>2. /\ CallsOK' /\ gen'[r].at \in {"spend", "idle"}
        /\ gen'[r].at = "spend" => gen'[r].user = u /\ gen'[r].start = start
        /\ \A x \in Reqs \ {r} : gen'[x] = gen[x]
    BY <1>0, <1>1, EndStep, ContinueStep DEF QuotaOK, accounts
  <1>3. CASE UNCHANGED <<users, full, net>> /\ End(r)
    BY <1>1, <1>3, QuietEnd DEF vars
  <1>4. CASE UNCHANGED <<users, full, net>> /\ ~(u \in Live /\ Due(u, start))
             /\ Continue(r, "spend")
    <2>1. u \in Live => users[u].refreshed + QUOTA_REFILL_HOURS > start
      <3> SUFFICES ASSUME u \in Live PROVE users[u].refreshed + QUOTA_REFILL_HOURS > start
        OBVIOUS
      <3>1. users[u].refreshed \in Int
        BY DEF QuotaOK, AccountsOK, TypeOK, Live, Row
      <3> QED
        BY <1>1, <1>4, <3>1, Limits DEF Due
    <2>2. NotDue(r)'
      BY <1>2, <1>4, <2>1 DEF NotDue, Live
    <2> QED
      BY <1>1, <1>2, <1>4, <2>2, QuietStep DEF vars
  <1>5. CASE u \in Live /\ Due(u, start) /\ effect
    <2>1. /\ users' = Refilled(u, start)
          /\ full' = [full EXCEPT ![u] = QUOTA_MAX]
          /\ net' = [net EXCEPT ![u] = 0]
      BY <1>5
    <2>2. AccountsOK' /\ RowChanges(u, QUOTA_MAX, start)
      BY <1>1, <1>5, <2>1, RefillStep DEF QuotaOK
    <2>3. u \in Ids /\ users[u].refreshed \in Int /\ start \in Int
          /\ start >= users[u].refreshed
      <3>1. u \in Ids /\ users[u].refreshed \in Int
        BY <1>5 DEF QuotaOK, AccountsOK, TypeOK, Live, Row
      <3> QED
        BY <1>1, <1>5, <3>1, Limits DEF Due
    <2>4. BillsOK'
      <3>1. /\ full' \in [Ids -> {QUOTA_MAX, DefaultQuota}] /\ full'[u] = QUOTA_MAX
            /\ net' \in [Ids -> Int] /\ net'[u] = 0
            /\ \A v \in Ids \ {u} : full'[v] = full[v] /\ net'[v] = net[v]
        BY <2>1, <2>3 DEF QuotaOK, BillsOK
      <3>2. ASSUME NEW v \in Ids \ {u}
            PROVE  Bill(v)'
        <4>0. r \notin Holders(v)'
          BY <1>2 DEF Holders
        <4>1. Cardinality(Holders(v)') <= Cardinality(Holders(v))
          BY <1>2, <4>0, HoldersStep DEF QuotaOK
        <4> QED
          BY <2>2, <3>1, <4>1, BillStays DEF QuotaOK, BillsOK, RowChanges
      <3>3. Bill(u)'
        <4>1. Holders(u)' \subseteq Reqs
          BY DEF Holders
        <4>2. /\ Cardinality(Holders(u)') <= Cardinality(Reqs)
              /\ Cardinality(Holders(u)') \in Nat /\ Cardinality(Reqs) \in Nat
          BY <4>1, HoldersAreFinite, FS_Subset, FS_CardinalityType
        <4> QED
          BY <1>5, <2>2, <3>1, <4>2, Limits DEF Bill, RowChanges
      <3> QED
        BY <3>1, <3>2, <3>3 DEF BillsOK
    <2>5. NotDue(r)'
      BY <1>2, <2>2, <2>3, Limits DEF NotDue, RowChanges
    <2>6. \A v \in made : v \in Live' => /\ v \in Live
                                         /\ users'[v].refreshed >= users[v].refreshed
      BY <2>2, <2>3 DEF RowChanges, Live, QuotaOK, AccountsOK, TypeOK, Row
    <2>7. RefillsOK'
      BY <1>2, <2>2, <2>5, <2>6, RefillsStay DEF QuotaOK
    <2> QED
      BY <1>2, <2>2, <2>4, <2>7 DEF QuotaOK
  <1> QED
    BY <1>1, <1>3, <1>4, <1>5

LEMMA SpendStep ==
  ASSUME QuotaOK, NEW r \in Reqs, trySpendQuota(r)
  PROVE  QuotaOK'
  <1>0. PICK u : u = gen[r].user
    OBVIOUS
  <1>1. /\ UNCHANGED <<accounts, now, full>> /\ gen[r].at = "spend" /\ u \in made
        /\ made \subseteq Ids
    BY <1>0 DEF trySpendQuota, QuotaOK, CallsOK, AccountsOK, TypeOK
  <1>2. CASE ~Left(u) /\ Continue(r, "ask") /\ UNCHANGED <<users, net>>
    <2>1. /\ CallsOK' /\ gen'[r].at = "ask" /\ gen'[r].user = u
          /\ gen'[r].start = gen[r].start
          /\ \A x \in Reqs \ {r} : gen'[x] = gen[x]
      BY <1>0, <1>1, <1>2, ContinueStep DEF QuotaOK, accounts
    <2>2. NotDue(r)'
      BY <1>0, <1>1, <1>2, <2>1 DEF QuotaOK, RefillsOK, NotDue, Live
    <2> QED
      BY <1>1, <1>2, <2>1, <2>2, QuietStep DEF vars
  <1>3. CASE DbFaults /\ End(r) /\ UNCHANGED <<users, net>>
    BY <1>1, <1>3, QuietEnd DEF vars
  <1>4. ASSUME Left(u), users' = Plus(u, -1),
               \/ net' = [net EXCEPT ![u] = @ + 1] /\ Continue(r, "granted")
               \/ DbFaults /\ UNCHANGED net /\ End(r)
        PROVE  QuotaOK'
    <2>1. u \in Live /\ users[u].quota > 0 /\ u \in Ids
      BY <1>1, <1>4 DEF Left
    <2>2. /\ CallsOK' /\ gen'[r].at \in {"granted", "idle"}
          /\ gen'[r].at = "granted" => gen'[r].user = u
          /\ \A x \in Reqs \ {r} : gen'[x] = gen[x]
      BY <1>0, <1>1, <1>4, ContinueStep, EndStep DEF QuotaOK, accounts
    <2>3. \/ net' = [net EXCEPT ![u] = @ + 1] /\ gen'[r].at = "granted"
          \/ DbFaults /\ UNCHANGED net /\ gen'[r].at = "idle"
      BY <1>0, <1>1, <1>4, ContinueStep, EndStep DEF QuotaOK, accounts
    <2>4. AccountsOK' /\ RowChanges(u, users[u].quota + (-1), users[u].refreshed)
      BY <1>1, <1>4, <2>1, PlusStep DEF QuotaOK
    <2>5. /\ users[u].quota \in Int /\ users[u].refreshed \in Int
      BY <2>1 DEF QuotaOK, AccountsOK, TypeOK, Live, Row
    <2>6. /\ net' \in [Ids -> Int] /\ net \in [Ids -> Int]
          /\ \A v \in Ids \ {u} : net'[v] = net[v]
          /\ \/ net'[u] = net[u] + 1 /\ gen'[r].at = "granted"
             \/ DbFaults /\ net'[u] = net[u] /\ gen'[r].at = "idle"
      BY <2>1, <2>3 DEF QuotaOK, BillsOK
    <2>7. ASSUME NEW v \in Ids \ {u}
          PROVE  Bill(v)'
      <3>1. Cardinality(Holders(v)') <= Cardinality(Holders(v))
        <4>1. r \notin Holders(v)'
          BY <2>2 DEF Holders
        <4> QED
          BY <2>2, <4>1, HoldersStep DEF QuotaOK
      <3> QED
        BY <1>1, <2>4, <2>6, <3>1, BillStays DEF QuotaOK, BillsOK, RowChanges
    <2>8. Bill(u)'
      <3>1. /\ Cardinality(Holders(u)') \in Int /\ Cardinality(Holders(u)) \in Int
            /\ Cardinality(Reqs) \in Int
        <4>1. Holders(u)' \subseteq Reqs
          BY DEF Holders
        <4> QED
          BY <4>1, HoldersAreFinite, FS_Subset, FS_CardinalityType
      <3>2. /\ Cardinality(Holders(u)') <= Cardinality(Holders(u)) + 1
            /\ gen'[r].at = "idle" =>
                 Cardinality(Holders(u)') <= Cardinality(Holders(u))
        <4>1. gen'[r].at = "idle" => r \notin Holders(u)'
          BY DEF Holders
        <4> QED
          BY <2>2, <3>1, <4>1, HoldersStep DEF QuotaOK
      <3>3. /\ net[u] \in Int /\ full[u] \in Int /\ Bill(u)
        BY <2>1, <2>6, Limits DEF QuotaOK, BillsOK
      <3>4. net'[u] >= Cardinality(Holders(u)') - Cardinality(Reqs)
        BY <2>6, <3>1, <3>2, <3>3 DEF Bill
      <3>5. /\ users'[u].quota = users[u].quota - 1 /\ u \in Live' /\ full'[u] = full[u]
        BY <1>1, <2>1, <2>4, <2>5 DEF RowChanges
      <3>6. /\ users'[u].quota >= 0
            /\ users'[u].quota + net'[u] <= full'[u]
            /\ ~DbFaults => users'[u].quota + net'[u] = full'[u]
        BY <2>1, <2>5, <2>6, <3>3, <3>5 DEF Bill
      <3> QED
        BY <3>4, <3>5, <3>6 DEF Bill
    <2>9. BillsOK'
      BY <1>1, <2>6, <2>7, <2>8 DEF QuotaOK, BillsOK
    <2>10. RefillsOK'
      <3>1. NotDue(r)'
        BY <2>2 DEF NotDue
      <3>2. \A v \in made : v \in Live' => /\ v \in Live
                                           /\ users'[v].refreshed >= users[v].refreshed
        BY <2>4, <2>5 DEF RowChanges, Live, QuotaOK, AccountsOK, TypeOK, Row
      <3> QED
        BY <2>2, <2>4, <3>1, <3>2, RefillsStay DEF QuotaOK
    <2> QED
      BY <2>2, <2>4, <2>9, <2>10 DEF QuotaOK
  <1> QED
    BY <1>0, <1>2, <1>3, <1>4 DEF trySpendQuota

LEMMA RefundStep ==
  ASSUME QuotaOK, NEW r \in Reqs, refundQuota(r)
  PROVE  QuotaOK'
  <1>0. PICK u : u = gen[r].user
    OBVIOUS
  <1>1. /\ UNCHANGED <<accounts, now, full>> /\ gen[r].at = "granted" /\ u \in made
        /\ made \subseteq Ids /\ End(r) /\ r \in Holders(u)
    BY <1>0 DEF refundQuota, QuotaOK, CallsOK, AccountsOK, TypeOK, Holders
  <1>2. CASE UNCHANGED <<users, net>>
    BY <1>1, <1>2, QuietEnd DEF vars
  <1>3. ASSUME u \in Live, net' = [net EXCEPT ![u] = @ - 1],
               users' = Plus(u, 1) \/ (DbFaults /\ UNCHANGED users)
        PROVE  QuotaOK'
    <2>1. /\ CallsOK' /\ gen'[r].at = "idle"
          /\ \A x \in Reqs \ {r} : gen'[x] = gen[x]
      BY <1>1, EndStep DEF QuotaOK, accounts
    <2>2. /\ users[u].quota \in Int /\ users[u].refreshed \in Int /\ u \in Ids
      BY <1>1, <1>3 DEF QuotaOK, AccountsOK, TypeOK, Live, Row
    <2>3. /\ AccountsOK'
          /\ \/ RowChanges(u, users[u].quota + 1, users[u].refreshed)
             \/ DbFaults /\ RowChanges(u, users[u].quota, users[u].refreshed)
      <3>1. CASE users' = Plus(u, 1)
        BY <1>1, <1>3, <3>1, PlusStep DEF QuotaOK
      <3>2. CASE DbFaults /\ UNCHANGED users
        <4>1. AccountsOK'
          BY <1>1, <3>2, UsersStep DEF QuotaOK, AccountsOK, TypeOK
        <4> QED
          BY <3>2, <4>1 DEF RowChanges, Live
      <3> QED
        BY <1>3, <3>1, <3>2
    <2>4. /\ net' \in [Ids -> Int] /\ net \in [Ids -> Int] /\ net'[u] = net[u] - 1
          /\ \A v \in Ids \ {u} : net'[v] = net[v]
      BY <1>3, <2>2 DEF QuotaOK, BillsOK
    <2>5. ASSUME NEW v \in Ids \ {u}
          PROVE  Bill(v)'
      <3>1. Cardinality(Holders(v)') <= Cardinality(Holders(v))
        <4>1. r \notin Holders(v)'
          BY <2>1 DEF Holders
        <4> QED
          BY <2>1, <4>1, HoldersStep DEF QuotaOK
      <3> QED
        BY <1>1, <2>3, <2>4, <3>1, BillStays DEF QuotaOK, BillsOK, RowChanges
    <2>6. Bill(u)'
      <3>1. /\ Cardinality(Holders(u)) \in Int /\ Cardinality(Reqs) \in Int
        BY HoldersAreFinite
      <3>2. Cardinality(Holders(u)') = Cardinality(Holders(u)) - 1
        <4>1. r \notin Holders(u)'
          BY <2>1 DEF Holders
        <4> QED
          BY <1>1, <2>1, <4>1, HoldersStep DEF QuotaOK
      <3>3. /\ net[u] \in Int /\ full[u] \in Int /\ Bill(u)
        BY <2>2, <2>4, Limits DEF QuotaOK, BillsOK
      <3>4. net'[u] >= Cardinality(Holders(u)') - Cardinality(Reqs)
        BY <2>4, <3>1, <3>2, <3>3 DEF Bill
      <3>5. /\ users'[u].quota = users[u].quota + 1
               \/ (DbFaults /\ users'[u].quota = users[u].quota)
            /\ u \in Live' /\ full'[u] = full[u]
        BY <1>1, <1>3, <2>3 DEF RowChanges
      <3>6. /\ users'[u].quota >= 0
            /\ users'[u].quota + net'[u] <= full'[u]
            /\ ~DbFaults => users'[u].quota + net'[u] = full'[u]
        BY <1>3, <2>2, <2>4, <3>3, <3>5 DEF Bill
      <3> QED
        BY <3>4, <3>5, <3>6 DEF Bill
    <2>7. BillsOK'
      BY <1>1, <2>4, <2>5, <2>6 DEF QuotaOK, BillsOK
    <2>8. RefillsOK'
      <3>1. NotDue(r)'
        BY <2>1 DEF NotDue
      <3>2. \A v \in made : v \in Live' => /\ v \in Live
                                           /\ users'[v].refreshed >= users[v].refreshed
        BY <2>2, <2>3 DEF RowChanges, Live, QuotaOK, AccountsOK, TypeOK, Row
      <3> QED
        BY <2>1, <2>3, <3>1, <3>2, RefillsStay DEF QuotaOK
    <2> QED
      BY <2>1, <2>3, <2>7, <2>8 DEF QuotaOK
  <1> QED
    BY <1>0, <1>2, <1>3 DEF refundQuota

(* The accounts: a row is new, or as it was. *)
LEMMA RowsOfAccounts ==
  ASSUME AccountsOK, NEW r \in Reqs, Send(r) \/ Serve(r) \/ Receive(r) \/ Lose(r)
  PROVE  /\ made \subseteq made'
         /\ \A u \in Ids :
              UNCHANGED users[u]
                \/ (u \notin made /\ u \notin Live /\ users'[u].quota = DefaultQuota)
  <1>1. CASE createUser(r)
    <2>1. CASE UNCHANGED <<users, made>>
      BY <2>1
    <2>2. ASSUME NEW u \in NewIds, made' = made \cup {u},
                 users' = [users EXCEPT ![u] =
                  [email |-> req[r].email, pw |-> req[r].pw, quota |-> DefaultQuota,
                   refreshed |-> now]]
          PROVE  /\ made \subseteq made'
                 /\ \A v \in Ids :
                      UNCHANGED users[v]
                        \/ (v \notin made /\ v \notin Live
                              /\ users'[v].quota = DefaultQuota)
      <3>1. u \in Ids /\ u \notin made /\ u \notin Live
        BY DEF NewIds, AccountsOK, TypeOK
      <3>2. users \in [Ids -> Row \cup {Null}]
        BY DEF AccountsOK, TypeOK
      <3>3. users'[u].quota = DefaultQuota /\ \A v \in Ids \ {u} : users'[v] = users[v]
        BY <2>2, <3>1, <3>2
      <3> QED
        BY <2>2, <3>1, <3>3
    <2> QED
      BY <1>1, <2>1, <2>2 DEF createUser
  <1>2. CASE Send(r) \/ findByEmail(r) \/ verifyPassword(r) \/ requireAuth(r)
               \/ findUserById(r) \/ Receive(r) \/ Lose(r)
    BY <1>2 DEF Send, findByEmail, verifyPassword, requireAuth, findUserById, Receive,
                Lose
  <1> QED
    BY <1>1, <1>2 DEF Serve

(* No call is for a user without a past. *)
LEMMA AccountsGoOn ==
  ASSUME QuotaOK, NEW r \in Reqs, Send(r) \/ Serve(r) \/ Receive(r) \/ Lose(r),
         UNCHANGED quotas
  PROVE  QuotaOK'
  <1>1. AccountsOK' /\ made \subseteq made'
    BY AccountStep, RowsOfAccounts DEF QuotaOK
  <1>2. \A u \in Ids :
          UNCHANGED users[u]
            \/ (u \notin made /\ u \notin Live /\ users'[u].quota = DefaultQuota)
    BY RowsOfAccounts DEF QuotaOK
  <1>3. UNCHANGED <<gen, full, net>>
    BY DEF quotas
  <1>4. CallsOK'
    BY <1>1, <1>3 DEF QuotaOK, CallsOK
  <1>5. BillsOK'
    <2>1. ASSUME NEW u \in Ids
          PROVE  Bill(u)'
      <3>1. Holders(u)' = Holders(u)
        BY <1>3 DEF Holders
      <3>2. Cardinality(Holders(u)) \in Int /\ Cardinality(Reqs) \in Int
            /\ net[u] \in Int /\ Bill(u)
        BY HoldersAreFinite DEF QuotaOK, BillsOK
      <3>3. CASE UNCHANGED users[u]
        BY <1>3, <3>1, <3>2, <3>3, BillStays
      <3>4. CASE u \notin Live /\ users'[u].quota = DefaultQuota
        BY <1>3, <3>1, <3>2, <3>4, Limits DEF Bill
      <3> QED
        BY <1>2, <3>3, <3>4
    <2> QED
      BY <1>3, <2>1 DEF QuotaOK, BillsOK
  <1>6. RefillsOK'
    <2>1. \A u \in made : u \in Live' => /\ u \in Live
                                         /\ users'[u].refreshed >= users[u].refreshed
      BY <1>2 DEF Live, QuotaOK, AccountsOK, TypeOK, Row
    <2> QED
      BY <1>1, <1>3, <2>1, RefillsStay DEF QuotaOK
  <1> QED
    BY <1>1, <1>4, <1>5, <1>6 DEF QuotaOK

LEMMA ForgetStep ==
  ASSUME QuotaOK, NEW u \in Ids, DeleteUser(u), ForgetUser(u)
  PROVE  QuotaOK'
  <1>1. AccountsOK' /\ UNCHANGED <<gen, made>>
    BY DeleteStep DEF QuotaOK, DeleteUser, ForgetUser, accounts
  <1>2. CallsOK'
    BY <1>1 DEF QuotaOK, CallsOK
  <1>3. /\ users'[u] = Null /\ \A v \in Ids \ {u} : users'[v] = users[v]
        /\ full' \in [Ids -> {QUOTA_MAX, DefaultQuota}] /\ full'[u] = DefaultQuota
        /\ net' \in [Ids -> Int] /\ net'[u] = 0
        /\ \A v \in Ids \ {u} : full'[v] = full[v] /\ net'[v] = net[v]
    BY DEF QuotaOK, AccountsOK, TypeOK, BillsOK, DeleteUser, ForgetUser
  <1>4. BillsOK'
    <2>1. ASSUME NEW v \in Ids
          PROVE  Bill(v)'
      <3>1. Holders(v)' = Holders(v)
        BY <1>1 DEF Holders
      <3>2. Cardinality(Holders(v)) \in Int /\ Cardinality(Reqs) \in Int
            /\ Cardinality(Holders(v)) <= Cardinality(Reqs) /\ net[v] \in Int /\ Bill(v)
        BY HoldersAreFinite DEF QuotaOK, BillsOK
      <3>3. CASE v # u
        BY <1>3, <3>1, <3>2, <3>3, BillStays
      <3>4. CASE v = u
        BY <1>3, <3>1, <3>2, <3>4 DEF Bill, Live
      <3> QED
        BY <3>3, <3>4
    <2> QED
      BY <1>3, <2>1 DEF BillsOK
  <1>5. RefillsOK'
    <2>1. \A v \in made : v \in Live' => /\ v \in Live
                                         /\ users'[v].refreshed >= users[v].refreshed
      BY <1>3 DEF Live, QuotaOK, AccountsOK, TypeOK, Row
    <2> QED
      BY <1>1, <2>1, RefillsStay DEF QuotaOK
  <1> QED
    BY <1>1, <1>2, <1>4, <1>5 DEF QuotaOK

LEMMA ClockStep ==
  ASSUME QuotaOK, UNCHANGED <<users, accounts, quotas>>, now' \in 0 .. MaxTime
  PROVE  QuotaOK'
  <1>1. AccountsOK' /\ CallsOK'
    BY UsersStep DEF QuotaOK, AccountsOK, TypeOK, CallsOK, quotas, accounts
  <1>2. BillsOK' /\ RefillsOK'
    BY DEF QuotaOK, BillsOK, Bill, Holders, Live, RefillsOK, NotDue, quotas
  <1> QED
    BY <1>1, <1>2 DEF QuotaOK

-----------------------------------------------------------------------------
LEMMA QuotaBegins == QuotaInit => QuotaOK
  <1> SUFFICES ASSUME QuotaInit PROVE QuotaOK
    OBVIOUS
  <1>1. AccountsOK
    BY AccountsInit DEF QuotaInit
  <1>2. CallsOK /\ (\A r \in Reqs : gen[r].at = "idle") /\ RefillsOK
    BY NoCallIsACall DEF QuotaInit, CallsOK, RefillsOK, NotDue
  <1>3. ASSUME NEW u \in Ids
        PROVE  Bill(u)
    BY HoldersAreFinite DEF QuotaInit, Init, Bill, Live
  <1> QED
    BY <1>1, <1>2, <1>3, Limits DEF QuotaOK, BillsOK, QuotaInit

LEMMA GenerateStep ==
  ASSUME QuotaOK, NEW r \in Reqs, Generate(r)
  PROVE  QuotaOK'
  BY StartStep, RefillOrNot, SpendStep, AskStep, RefundStep, QuietEnd
     DEF Generate, Finish

THEOREM QuotaInvariant == QuotaSpec => []QuotaOK
  <1>1. QuotaOK /\ [QuotaNext]_allVars => QuotaOK'
    <2> SUFFICES ASSUME QuotaOK, [QuotaNext]_allVars PROVE QuotaOK'
      OBVIOUS
    <2>1. CASE UNCHANGED allVars
      BY <2>1, ClockStep DEF allVars, vars, QuotaOK, AccountsOK, TypeOK
    <2>2. CASE Tick /\ UNCHANGED quotas
      BY <2>2, ClockStep DEF Tick, QuotaOK, AccountsOK, TypeOK
    <2> QED
      BY <2>1, <2>2, GenerateStep, AccountsGoOn, ForgetStep DEF QuotaNext
  <1> QED
    BY <1>1, QuotaBegins, PTL DEF QuotaSpec

(* Types, and the bound of the quota column: no interleaving of refills,    *)
(* spendings and refunds (url.repository.ts:88-122) takes it below zero, or *)
(* above its maximum by more than there are requests at once.               *)
THEOREM QuotaIsBounded == QuotaSpec => []QuotaTypeOK
  <1>1. QuotaOK => QuotaTypeOK
    <2> SUFFICES ASSUME QuotaOK PROVE QuotaTypeOK
      OBVIOUS
    <2>1. ASSUME NEW u \in Live
          PROVE  users[u].quota \in 0 .. Most
      <3>1. u \in Ids /\ users[u].quota \in Int
        BY DEF Live, QuotaOK, AccountsOK, TypeOK, Row
      <3>2. /\ Cardinality(Holders(u)) \in Nat /\ Cardinality(Reqs) \in Nat
            /\ net[u] \in Int /\ full[u] \in {QUOTA_MAX, DefaultQuota} /\ Bill(u)
        BY <3>1, HoldersAreFinite DEF QuotaOK, BillsOK
      <3> QED
        BY <3>1, <3>2, Limits DEF Bill, Most
    <2> QED
      BY <2>1 DEF QuotaTypeOK, QuotaOK, AccountsOK, CallsOK, Call, BillsOK
  <1> QED
    BY <1>1, QuotaInvariant, PTL

(* No refill, spending or refund of concurrent requests is lost or counted  *)
(* twice (url.repository.ts:88-122).                                        *)
THEOREM GenerationsAreCounted == QuotaSpec => []GenerationsArePaidFor
  <1>1. QuotaOK => GenerationsArePaidFor
    BY DEF QuotaOK, BillsOK, Bill, GenerationsArePaidFor, Live
  <1> QED
    BY <1>1, QuotaInvariant, PTL

(* The time a refused user is told has not come yet when they ask           *)
(* (quota.service.ts:21), whatever refills, deletions and signups go on     *)
(* between the three queries of the call.                                   *)
THEOREM RefusalsAreForLater == QuotaSpec => []RefusedUntilLater
  <1>1. QuotaOK => RefusedUntilLater
    BY DEF QuotaOK, RefillsOK, NotDue, RefusedUntilLater
  <1> QED
    BY <1>1, QuotaInvariant, PTL

(* "Who am I" keeps answering the owner only while calls, refills and       *)
(* refunds of the quota write the same rows between its queries.            *)
THEOREM AccountsUnderQuota == QuotaSpec => []MeAnswersItsOwner
  <1>1. QuotaOK => MeAnswersItsOwner
    BY DEF QuotaOK, AccountsOK, SessionsOK, MeAnswersItsOwner
  <1> QED
    BY <1>1, QuotaInvariant, PTL

=============================================================================
