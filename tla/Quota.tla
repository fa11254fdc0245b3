------------------------------- MODULE Quota -------------------------------
(***************************************************************************)
(* The generations of a user: src/services/quota.service.ts, and the three  *)
(* statements on users.quota in url.repository.ts, over the users table of  *)
(* Accounts, whose signups, logins and deletions go on meanwhile.           *)
(*                                                                         *)
(* No route calls the service at this commit: what follows a granted        *)
(* generation (a create, which hands it back when it fails) is what its     *)
(* comments say.                                                            *)
(***************************************************************************)
EXTENDS Accounts

CONSTANTS
  QUOTA_MAX,
  QUOTA_REFILL_HOURS   \* in ticks

ASSUME QuotaAssumption ==
  /\ {QUOTA_MAX, QUOTA_REFILL_HOURS} \subseteq Nat \ {0}
  /\ IsFiniteSet(Reqs)

VARIABLES
  gen,   \* the call of spendOneGeneration of each request
  full,  \* history: what a user's quota was filled to last
  net    \* history: generations granted since, less those handed back

quotas == <<gen, full, net>>
allVars == <<vars, quotas>>

NoCall == [at |-> "idle", user |-> Null, start |-> 0, told |-> Null]
End(r) == gen' = [gen EXCEPT ![r] = NoCall]
Continue(r, step) == gen' = [gen EXCEPT ![r].at = step]

-----------------------------------------------------------------------------
(* A request of a user who has, or had, an account. *)
spendOneGeneration(r) ==
  /\ req[r] = Idle /\ gen[r] = NoCall
  /\ \E u \in made :
       gen' = [gen EXCEPT ![r] = [at |-> "refill", user |-> u, start |-> now,
                                  told |-> Null]]
  /\ UNCHANGED <<vars, full, net>>

(* Mutant: lt instead of lte. *)
DueLater(u, start) == users[u].refreshed + QUOTA_REFILL_HOURS < start

(* quotaRefreshedAt <= cutoff. *)
Due(u, start) == users[u].refreshed + QUOTA_REFILL_HOURS <= start

(* Mutant: the quota is added to what is left. *)
ToppedUp(u, start) ==
  [users EXCEPT ![u].quota = @ + QUOTA_MAX, ![u].refreshed = start]

Refilled(u, start) ==
  [users EXCEPT ![u].quota = QUOTA_MAX, ![u].refreshed = start]

(* The WHERE is evaluated with the update. The dates in it were computed    *)
(* when the call began.                                                     *)
refillQuotaIfDue(r) ==
  LET u == gen[r].user
      start == gen[r].start
      effect == IF u \in Live /\ Due(u, start)
                THEN /\ users' = Refilled(u, start)
                     /\ full' = [full EXCEPT ![u] = QUOTA_MAX]
                     /\ net' = [net EXCEPT ![u] = 0]
                ELSE UNCHANGED <<users, full, net>>
  IN
  /\ gen[r].at = "refill"
  /\ \/ effect /\ Continue(r, "spend")
     \/ DbFaults /\ (effect \/ UNCHANGED <<users, full, net>>) /\ End(r)
  /\ UNCHANGED <<accounts, now>>

Plus(u, n) == [users EXCEPT ![u].quota = @ + n]

(* Mutant: gte instead of gt. *)
AtLeastZero(u) == u \in Live /\ users[u].quota >= 0

Left(u) == u \in Live /\ users[u].quota > 0

trySpendQuota(r) ==
  LET u == gen[r].user IN
  /\ gen[r].at = "spend"
  /\ \/ /\ Left(u) /\ users' = Plus(u, -1)
        /\ \/ net' = [net EXCEPT ![u] = @ + 1] /\ Continue(r, "granted")
           \/ DbFaults /\ UNCHANGED net /\ End(r)
     \/ ~Left(u) /\ Continue(r, "ask") /\ UNCHANGED <<users, net>>
     \/ DbFaults /\ End(r) /\ UNCHANGED <<users, net>>
  /\ UNCHANGED <<accounts, now, full>>

(* When does it refill? *)
findUser(r) ==
  LET u == gen[r].user IN
  /\ gen[r].at = "ask"
  /\ \/ gen' = [gen EXCEPT ![r].at = "refused",
                  ![r].told = IF u \in Live
                              THEN users[u].refreshed + QUOTA_REFILL_HOURS ELSE Null]
     \/ DbFaults /\ End(r)
  /\ UNCHANGED <<vars, full, net>>

(* The request ends: with the 429, or with what it generated. *)
Finish(r) ==
  /\ gen[r].at \in {"granted", "refused"}
  /\ End(r)
  /\ UNCHANGED <<vars, full, net>>

(* The create failed after spending. A row that went away is a P2025.       *)
refundQuota(r) ==
  LET u == gen[r].user IN
  /\ gen[r].at = "granted"
  /\ End(r)
  /\ IF u \in Live
     THEN /\ net' = [net EXCEPT ![u] = @ - 1]
          /\ users' = Plus(u, 1) \/ (DbFaults /\ UNCHANGED users)
     ELSE UNCHANGED <<users, net>>
  /\ UNCHANGED <<accounts, now, full>>

(* What there was to know about the quota of a row goes with the row. *)
ForgetUser(u) ==
  /\ full' = [full EXCEPT ![u] = DefaultQuota]
  /\ net' = [net EXCEPT ![u] = 0]
  /\ UNCHANGED gen

-----------------------------------------------------------------------------
QuotaInit ==
  /\ Init
  /\ gen = [r \in Reqs |-> NoCall]
  /\ full = [u \in Ids |-> DefaultQuota]
  /\ net = [u \in Ids |-> 0]

Generate(r) ==
  \/ spendOneGeneration(r) \/ refillQuotaIfDue(r) \/ trySpendQuota(r)
  \/ findUser(r) \/ Finish(r) \/ refundQuota(r)

(* A slot serves one request at a time, on an account or for a generation.  *)
QuotaNext ==
  \/ \E r \in Reqs :
       \/ Generate(r)
       \/ /\ gen[r] = NoCall
          /\ Send(r) \/ Serve(r) \/ Receive(r) \/ Lose(r)
          /\ UNCHANGED quotas
  \/ \E u \in Ids : DeleteUser(u) /\ ForgetUser(u)
  \/ Tick /\ UNCHANGED quotas

QuotaSpec == QuotaInit /\ [][QuotaNext]_allVars

-----------------------------------------------------------------------------
(* Properties *)

Most == (IF QUOTA_MAX > DefaultQuota THEN QUOTA_MAX ELSE DefaultQuota)
          + Cardinality(Reqs)

(* Every variable keeps its shape; a quota stays between none and its        *)
(* maximum, which a generation handed back after a refill may exceed.        *)
QuotaTypeOK ==
  /\ TypeOK
  /\ gen \in [Reqs -> [at : {"idle", "refill", "spend", "ask", "granted", "refused"},
                       user : Ids \cup {Null}, start : 0 .. MaxTime,
                       told : Nat \cup {Null}]]
  /\ full \in [Ids -> {QUOTA_MAX, DefaultQuota}]
  /\ net \in [Ids -> Int]
  /\ \A u \in Live : users[u].quota \in 0 .. Most

(* The quota column pays for every generation that was granted and not       *)
(* handed back since it was filled, and never goes below none: no refill,    *)
(* spending or refund of concurrent requests is lost or counted twice. Only  *)
(* a failing query can make it smaller than that.                            *)
GenerationsArePaidFor ==
  \A u \in Live :
    /\ users[u].quota >= 0
    /\ users[u].quota + net[u] <= full[u]
    /\ ~DbFaults => users[u].quota + net[u] = full[u]

(* A user who is refused is told a time that had not come when they asked:  *)
(* the refill that was due then has been given, by this request or another, *)
(* before the quota was found empty.                                        *)
RefusedUntilLater ==
  \A r \in Reqs : gen[r].at = "refused" /\ gen[r].told # Null
                    => gen[r].told > gen[r].start

=============================================================================
