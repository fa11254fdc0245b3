--------------------------- MODULE AccountsProofs ---------------------------
(***************************************************************************)
(* Proofs about Accounts, for every set of users, browsers and requests.    *)
(*                                                                         *)
(* AccountsOK is the inductive invariant. What a request has to know about  *)
(* the passwords its browser gave goes with it, from step to step, in       *)
(* SessionsOK. The lemmas are about single actions, so that the steps of    *)
(* Quota, which are over the same table, can use them too.                  *)
(***************************************************************************)
EXTENDS Accounts, TLAPS

USE AccountsAssumption

Busy == {"create", "find", "compare", "guard", "read"}

(* What is under way in a slot is a record, and knows its browser.          *)
Slot ==
  [at : Busy \cup {"idle", "answer"},
   kind : {"signup", "login", "me", "logout", Null}, by : Browsers \cup {Null},
   email : Emails \cup {Null}, pw : Passwords \cup {Null},
   user : Ids \cup {Null}, hash : Passwords \cup {Null},
   token : Token \cup {Null},
   status : {"200", "201", "204", "401", "409", "500", Null}]

SlotsOK ==
  /\ req \in [Reqs -> Slot]
  /\ \A r \in Reqs :
       /\ req[r].at \in Busy => req[r].by \in Browsers /\ req[r].status = Null
       /\ req[r].at = "create" => req[r].email \in Emails /\ req[r].pw \in Passwords

(* Every token there is, in a cookie, a request or an answer, is for an     *)
(* account whose password its browser has given.                            *)
SessionsOK ==
  /\ \A b \in Browsers : cookie[b] # Null => <<b, cookie[b].sub>> \in proven
  /\ \A r \in Reqs :
       /\ req[r].token # Null => <<req[r].by, req[r].token.sub>> \in proven
       /\ req[r].at = "read" \/ (req[r].kind = "me" /\ req[r].status = "200")
            => <<req[r].by, req[r].user>> \in proven

(* The rows the statements leave: no email is there twice.                  *)
RowsOK ==
  /\ users \in [Ids -> Row \cup {Null}]
  /\ Live \subseteq made /\ made \subseteq Ids
  /\ \A u, v \in Live : users[u].email = users[v].email => u = v

AccountsOK == TypeOK /\ SlotsOK /\ SessionsOK /\ RowsOK

LEMMA SameRows ==
  ASSUME RowsOK, UNCHANGED <<users, made>>
  PROVE  RowsOK'
  BY DEF RowsOK, Live

(* A step that writes the slot of one request, and perhaps adds to proven.  *)
LEMMA SlotStep ==
  ASSUME AccountsOK, RowsOK', NEW r \in Reqs, NEW new \in Slot,
         req' = [req EXCEPT ![r] = new],
         UNCHANGED <<cookie, now>>, proven \subseteq proven', made \subseteq made',
         proven' \subseteq Browsers \X made',
         new.at \in Busy => new.by \in Browsers /\ new.status = Null,
         new.at = "create" => new.email \in Emails /\ new.pw \in Passwords,
         new.at \in {"compare", "read"} => new.user \in made',
         new.token # Null => <<new.by, new.token.sub>> \in proven',
         new.at = "read" \/ (new.kind = "me" /\ new.status = "200")
           => <<new.by, new.user>> \in proven'
  PROVE  AccountsOK'
  <1>1. req'[r] = new /\ (\A x \in Reqs \ {r} : req'[x] = req[x])
        /\ req' \in [Reqs -> Slot]
    BY DEF AccountsOK, SlotsOK
  <1>2. TypeOK'
    BY <1>1 DEF AccountsOK, TypeOK, RowsOK, Slot, Busy
  <1>3. SlotsOK'
    BY <1>1 DEF AccountsOK, SlotsOK
  <1>4. SessionsOK'
    BY <1>1 DEF AccountsOK, SessionsOK
  <1> QED
    BY <1>2, <1>3, <1>4 DEF AccountsOK

LEMMA IdleIsASlot == Idle \in Slot
  BY DEF Idle, Slot

(* An answer that shows no user and carries no token. *)
LEMMA RefuseStep ==
  ASSUME AccountsOK, RowsOK', NEW r \in Reqs, NEW status \in {"401", "409", "500"},
         Refuse(r, status), UNCHANGED <<cookie, now>>, made \subseteq made',
         proven \subseteq proven', proven' \subseteq Browsers \X made'
  PROVE  AccountsOK'
  <1> DEFINE new == [Idle EXCEPT !.at = "answer", !.status = status]
  <1>1. new \in Slot
    BY IdleIsASlot DEF Slot
  <1>2. new.at = "answer" /\ new.token = Null /\ new.status = status
    BY DEF Idle
  <1>3. req' = [req EXCEPT ![r] = new]
    BY DEF Refuse
  <1> HIDE DEF new
  <1> QED
    BY <1>1, <1>2, <1>3, SlotStep DEF Busy

(* What a browser sends carries no token but the one in its cookie. *)
LEMMA RequestsAreSlots ==
  ASSUME AccountsOK, NEW b \in Browsers, NEW new \in Requests(b)
  PROVE  /\ new \in Slot
         /\ new.at \in {"create", "find", "guard", "answer"}
         /\ new.by = b
         /\ new.at = "create" => new.email \in Emails /\ new.pw \in Passwords
         /\ new.token # Null => <<b, new.token.sub>> \in proven
         /\ new.at # "answer" => new.status = Null
         /\ new.status # "200"
  <1>1. cookie[b] \in Token \cup {Null}
        /\ (cookie[b] # Null => <<b, cookie[b].sub>> \in proven)
    BY DEF AccountsOK, TypeOK, SessionsOK
  <1>2. ASSUME NEW kind \in {"signup", "login"}, NEW e \in Emails,
               NEW p \in Passwords, new = Form(b, kind, e, p)
        PROVE  /\ new \in Slot /\ new.at \in {"create", "find"} /\ new.by = b
               /\ new.email = e /\ new.pw = p
               /\ new.token = Null /\ new.status = Null
    BY <1>2, IdleIsASlot DEF Form, Slot, Busy, Idle
  <1>3. CASE new = [Idle EXCEPT !.at = "guard", !.kind = "me", !.by = b,
                                !.token = cookie[b]]
    <2>1. new \in Slot
      BY <1>1, <1>3, IdleIsASlot DEF Slot, Busy
    <2>2. /\ new.at = "guard" /\ new.by = b /\ new.token = cookie[b]
          /\ new.status = Null
      BY <1>3 DEF Idle
    <2> QED
      BY <1>1, <2>1, <2>2
  <1>4. CASE new = [Idle EXCEPT !.at = "answer", !.kind = "logout", !.by = b,
                                !.status = "204"]
    <2>1. new \in Slot
      BY <1>4, IdleIsASlot DEF Slot, Busy
    <2>2. new.at = "answer" /\ new.by = b /\ new.token = Null /\ new.status = "204"
      BY <1>4 DEF Idle
    <2> QED
      BY <2>1, <2>2
  <1> QED
    BY <1>2, <1>3, <1>4 DEF Requests

LEMMA SendStep ==
  ASSUME AccountsOK, NEW r \in Reqs, Send(r)
  PROVE  AccountsOK'
  <1>0. PICK b \in Browsers :
          \E new \in Requests(b) : req' = [req EXCEPT ![r] = new]
    BY DEF Send
  <1>1. PICK new \in Requests(b) : req' = [req EXCEPT ![r] = new]
    BY <1>0
  <1>2. UNCHANGED <<users, made, cookie, proven, now>> /\ RowsOK'
        /\ proven \subseteq Browsers \X made
    BY SameRows DEF Send, AccountsOK, TypeOK
  <1>3. /\ new \in Slot /\ new.by \in Browsers
        /\ new.at \in {"create", "find", "guard", "answer"}
        /\ new.at \in Busy => new.status = Null
        /\ new.at = "create" => new.email \in Emails /\ new.pw \in Passwords
        /\ new.token # Null => <<new.by, new.token.sub>> \in proven
        /\ new.status # "200"
    BY RequestsAreSlots DEF Busy
  <1> QED
    BY <1>1, <1>2, <1>3, SlotStep

(* An answer that shows a user, or carries a token, for a browser that has  *)
(* given the password.                                                      *)
LEMMA AnswerStep ==
  ASSUME AccountsOK, RowsOK', NEW r \in Reqs, NEW status \in {"200", "201"},
         NEW u \in Ids, NEW t \in Token \cup {Null}, Answer(r, status, u, t),
         UNCHANGED <<cookie, now>>, proven \subseteq proven', made \subseteq made',
         proven' \subseteq Browsers \X made',
         <<req[r].by, u>> \in proven', t # Null => t.sub = u
  PROVE  AccountsOK'
  <1> DEFINE new == [Idle EXCEPT !.at = "answer", !.kind = req[r].kind,
                                 !.by = req[r].by, !.status = status,
                                 !.user = u, !.token = t]
  <1>1. /\ req[r].kind \in {"signup", "login", "me", "logout", Null}
        /\ req[r].by \in Browsers \cup {Null}
    BY DEF AccountsOK, SlotsOK, Slot
  <1>2. new \in Slot
    BY <1>1, IdleIsASlot DEF Slot
  <1>3. new.at = "answer" /\ new.by = req[r].by /\ new.user = u /\ new.token = t
    BY DEF Idle
  <1>4. req' = [req EXCEPT ![r] = new]
    BY DEF Answer
  <1> HIDE DEF new
  <1> QED
    BY <1>2, <1>3, <1>4, SlotStep DEF Busy

LEMMA CreateStep ==
  ASSUME AccountsOK, NEW r \in Reqs, createUser(r)
  PROVE  AccountsOK'
  <1>1. /\ req[r].by \in Browsers /\ req[r].email \in Emails
        /\ req[r].pw \in Passwords
    BY DEF AccountsOK, SlotsOK, Busy, createUser
  <1>2. ASSUME ~EmailTaken(req[r].email), NEW u \in NewIds,
               users' = [users EXCEPT ![u] =
                  [email |-> req[r].email, pw |-> req[r].pw, quota |-> DefaultQuota,
                   refreshed |-> now]],
               made' = made \cup {u}, proven' = proven \cup {<<req[r].by, u>>},
               \/ Answer(r, "201", u, signToken(u))
               \/ Refuse(r, "500"),
               UNCHANGED <<cookie, now>>
        PROVE  AccountsOK'
    <2> DEFINE row == [email |-> req[r].email, pw |-> req[r].pw,
                       quota |-> DefaultQuota, refreshed |-> now]
    <2>1. row \in Row /\ row.email = req[r].email
      BY <1>1 DEF AccountsOK, TypeOK, Row
    <2>2. users' = [users EXCEPT ![u] = row]
      BY <1>2
    <2> HIDE DEF row
    <2>3. u \in Ids /\ u \notin Live
      BY DEF NewIds, AccountsOK, RowsOK
    <2>4. users'[u] = row /\ (\A v \in Ids \ {u} : users'[v] = users[v])
          /\ users' \in [Ids -> Row \cup {Null}]
      BY <2>1, <2>2, <2>3 DEF AccountsOK, RowsOK
    <2>5. RowsOK'
      BY <1>2, <2>1, <2>3, <2>4 DEF AccountsOK, RowsOK, Live, EmailTaken
    <2>6. proven' \subseteq Browsers \X made'
      BY <1>1, <1>2 DEF AccountsOK, TypeOK
    <2>7. CASE Answer(r, "201", u, signToken(u))
      <3>1. signToken(u) \in Token /\ signToken(u).sub = u
        BY <2>3 DEF signToken, Token, AccountsOK, TypeOK
      <3> QED
        BY <1>2, <2>3, <2>5, <2>6, <2>7, <3>1, AnswerStep
    <2>8. CASE Refuse(r, "500")
      BY <1>2, <2>5, <2>6, <2>8, RefuseStep
    <2> QED
      BY <1>2, <2>7, <2>8
  <1>3. ASSUME NEW status \in {"409", "500"}, Refuse(r, status),
               UNCHANGED <<users, made, proven, cookie, now>>
        PROVE  AccountsOK'
    BY <1>3, SameRows, RefuseStep DEF AccountsOK, TypeOK
  <1> QED
    BY <1>2, <1>3 DEF createUser

LEMMA FindStep ==
  ASSUME AccountsOK, NEW r \in Reqs, findByEmail(r)
  PROVE  AccountsOK'
  <1>1. UNCHANGED <<users, made, cookie, proven, now>> /\ RowsOK'
        /\ proven \subseteq Browsers \X made
    BY SameRows DEF findByEmail, AccountsOK, TypeOK
  <1>2. ASSUME NEW u \in Live,
               req' = [req EXCEPT ![r].at = "compare", ![r].user = u,
                                  ![r].hash = users[u].pw]
        PROVE  AccountsOK'
    <2> DEFINE new == [req[r] EXCEPT !.at = "compare", !.user = u,
                                     !.hash = users[u].pw]
    <2>6. req[r] \in Slot /\ req \in [Reqs -> Slot] /\ req[r].at = "find"
      BY DEF AccountsOK, SlotsOK, findByEmail
    <2>7. u \in made /\ u \in Ids /\ users[u].pw \in Passwords
      <3>1. u \in Ids /\ users[u] # Null /\ u \in made
        BY DEF AccountsOK, RowsOK, Live
      <3>2. users[u] \in Row
        BY <3>1 DEF AccountsOK, RowsOK
      <3> QED
        BY <3>1, <3>2 DEF Row
    <2>1. req[r] \in Slot /\ req \in [Reqs -> Slot] /\ req[r].at = "find"
          /\ u \in made /\ u \in Ids /\ users[u].pw \in Passwords
      BY <2>6, <2>7
    <2>2. new \in Slot
      BY <2>1 DEF Slot, Busy
    <2>3. /\ new.at = "compare" /\ new.by = req[r].by /\ new.user = u
          /\ new.kind = req[r].kind /\ new.status = req[r].status
          /\ new.token = req[r].token
      BY <2>1 DEF Slot
    <2>4. req' = [req EXCEPT ![r] = new]
      BY <1>2, <2>1 DEF Slot
    <2>5. /\ req[r].by \in Browsers /\ req[r].status = Null
          /\ req[r].token # Null => <<req[r].by, req[r].token.sub>> \in proven
      BY <2>1 DEF AccountsOK, SlotsOK, SessionsOK, Busy
    <2> HIDE DEF new
    <2> QED
      BY <1>1, <2>1, <2>2, <2>3, <2>4, <2>5, SlotStep
  <1>3. ASSUME NEW status \in {"401", "500"}, Refuse(r, status)
        PROVE  AccountsOK'
    BY <1>1, <1>3, RefuseStep
  <1> QED
    BY <1>2, <1>3 DEF findByEmail

LEMMA VerifyStep ==
  ASSUME AccountsOK, NEW r \in Reqs, verifyPassword(r)
  PROVE  AccountsOK'
  <1>1. /\ UNCHANGED <<users, made, cookie, now>> /\ RowsOK'
        /\ proven \subseteq Browsers \X made /\ made \subseteq Ids
        /\ req[r].user \in made /\ req[r].by \in Browsers
    BY SameRows DEF verifyPassword, AccountsOK, TypeOK, SlotsOK, Busy
  <1>2. ASSUME Answer(r, "200", req[r].user, signToken(req[r].user)),
               proven' = proven \cup {<<req[r].by, req[r].user>>}
        PROVE  AccountsOK'
    <2>1. signToken(req[r].user) \in Token
          /\ signToken(req[r].user).sub = req[r].user
      BY <1>1 DEF signToken, Token, AccountsOK, TypeOK
    <2>2. /\ proven \subseteq proven' /\ proven' \subseteq Browsers \X made'
          /\ <<req[r].by, req[r].user>> \in proven'
      BY <1>1, <1>2
    <2> QED
      BY <1>1, <1>2, <2>1, <2>2, AnswerStep
  <1>3. ASSUME Refuse(r, "401"), UNCHANGED proven
        PROVE  AccountsOK'
    BY <1>1, <1>3, RefuseStep
  <1> QED
    BY <1>2, <1>3 DEF verifyPassword, LoggedIn

LEMMA AuthStep ==
  ASSUME AccountsOK, NEW r \in Reqs, requireAuth(r)
  PROVE  AccountsOK'
  <1>1. UNCHANGED <<users, made, cookie, proven, now>> /\ RowsOK'
        /\ proven \subseteq Browsers \X made
    BY SameRows DEF requireAuth, AccountsOK, TypeOK
  <1>2. ASSUME verifyToken(req[r].token),
               req' = [req EXCEPT ![r].at = "read", ![r].user = req[r].token.sub]
        PROVE  AccountsOK'
    <2>1. /\ req[r] \in Slot /\ req \in [Reqs -> Slot]
          /\ req[r].by \in Browsers /\ req[r].status = Null
          /\ req[r].token # Null /\ req[r].token \in Token
          /\ <<req[r].by, req[r].token.sub>> \in proven
      BY <1>2 DEF AccountsOK, TypeOK, SlotsOK, SessionsOK, requireAuth, verifyToken,
                  Busy
    <2>2. PICK u \in Ids : u = req[r].token.sub /\ u \in made
      BY <1>1, <2>1 DEF Token
    <2> DEFINE new == [req[r] EXCEPT !.at = "read", !.user = u]
    <2>3. new \in Slot
      <3>1. req[r] \in Slot
        BY <2>1
      <3> QED
        BY <3>1 DEF Slot, Busy
    <2>4. /\ new.at = "read" /\ new.by = req[r].by /\ new.user = u
          /\ new.status = Null /\ new.token = req[r].token
      BY <2>1 DEF Slot
    <2>5. req' = [req EXCEPT ![r] = new]
      BY <1>2, <2>1, <2>2 DEF Slot
    <2> HIDE DEF new
    <2> QED
      BY <1>1, <2>1, <2>2, <2>3, <2>4, <2>5, SlotStep
  <1>3. ASSUME Refuse(r, "401")
        PROVE  AccountsOK'
    BY <1>1, <1>3, RefuseStep
  <1> QED
    BY <1>2, <1>3 DEF requireAuth

LEMMA ReadStep ==
  ASSUME AccountsOK, NEW r \in Reqs, findUserById(r)
  PROVE  AccountsOK'
  <1>1. /\ UNCHANGED <<users, made, cookie, proven, now>> /\ RowsOK'
        /\ proven \subseteq Browsers \X made /\ Live \subseteq Ids
        /\ <<req[r].by, req[r].user>> \in proven
    BY SameRows DEF findUserById, AccountsOK, TypeOK, SessionsOK, Live
  <1>2. ASSUME req[r].user \in Live, Answer(r, "200", req[r].user, Null)
        PROVE  AccountsOK'
    BY <1>1, <1>2, AnswerStep
  <1>3. ASSUME NEW status \in {"401", "500"}, Refuse(r, status)
        PROVE  AccountsOK'
    BY <1>1, <1>3, RefuseStep
  <1> QED
    BY <1>2, <1>3 DEF findUserById

LEMMA ReceiveStep ==
  ASSUME AccountsOK, NEW r \in Reqs, Receive(r) \/ Lose(r)
  PROVE  AccountsOK'
  <1>1. /\ UNCHANGED <<users, made, proven, now>> /\ RowsOK'
        /\ proven \subseteq Browsers \X made
        /\ req' = [req EXCEPT ![r] = Idle]
    BY SameRows DEF Receive, Lose, AccountsOK, TypeOK
  <1>2. req'[r] = Idle /\ (\A x \in Reqs \ {r} : req'[x] = req[x])
        /\ req' \in [Reqs -> Slot]
    BY <1>1, IdleIsASlot DEF AccountsOK, SlotsOK
  <1>3. Idle.at = "idle" /\ Idle.token = Null /\ Idle.status = Null
    BY DEF Idle
  <1>4. /\ cookie' \in [Browsers -> Token \cup {Null}]
        /\ \A b \in Browsers : cookie'[b] # Null => <<b, cookie'[b].sub>> \in proven
    <2>1. CASE UNCHANGED cookie
      BY <2>1 DEF AccountsOK, TypeOK, SessionsOK
    <2>2. CASE cookie' = [cookie EXCEPT ![req[r].by] = req[r].token]
      BY <2>2 DEF AccountsOK, TypeOK, SessionsOK
    <2> QED
      BY <2>1, <2>2 DEF Receive, Lose
  <1>5. TypeOK'
    BY <1>1, <1>2, <1>3, <1>4 DEF AccountsOK, TypeOK, RowsOK
  <1>6. SlotsOK'
    BY <1>2, <1>3 DEF AccountsOK, SlotsOK, Busy
  <1>7. SessionsOK'
    BY <1>1, <1>2, <1>3, <1>4 DEF AccountsOK, SessionsOK
  <1> QED
    BY <1>1, <1>5, <1>6, <1>7 DEF AccountsOK

(* Rows change in their quota columns or go away. *)
LEMMA UsersStep ==
  ASSUME AccountsOK, UNCHANGED accounts, now' \in 0 .. MaxTime,
         users' \in [Ids -> Row \cup {Null}],
         \A u \in Ids : users'[u] = Null
                          \/ (users[u] # Null /\ users'[u].email = users[u].email)
  PROVE  AccountsOK'
  <1>1. RowsOK'
    BY DEF AccountsOK, RowsOK, Live, accounts
  <1>2. TypeOK'
    BY <1>1 DEF AccountsOK, TypeOK, RowsOK, accounts
  <1>3. SlotsOK' /\ SessionsOK'
    BY DEF AccountsOK, SlotsOK, SessionsOK, accounts
  <1> QED
    BY <1>1, <1>2, <1>3 DEF AccountsOK

LEMMA AccountStep ==
  ASSUME AccountsOK, NEW r \in Reqs, Send(r) \/ Serve(r) \/ Receive(r) \/ Lose(r)
  PROVE  AccountsOK'
  BY SendStep, CreateStep, FindStep, VerifyStep, AuthStep, ReadStep, ReceiveStep
     DEF Serve

LEMMA DeleteStep ==
  ASSUME AccountsOK, NEW u \in Ids, DeleteUser(u)
  PROVE  AccountsOK'
  BY UsersStep DEF DeleteUser, AccountsOK, TypeOK

LEMMA TickStep ==
  ASSUME AccountsOK, Tick
  PROVE  AccountsOK'
  BY UsersStep DEF Tick, AccountsOK, TypeOK

LEMMA AccountsInit == Init => AccountsOK
  <1> SUFFICES ASSUME Init PROVE AccountsOK
    OBVIOUS
  <1>1. Idle.at = "idle" /\ Idle.token = Null /\ Idle.status = Null
    BY DEF Idle
  <1>2. RowsOK
    BY DEF Init, RowsOK, Live
  <1>3. TypeOK
    BY <1>1, <1>2 DEF Init, TypeOK, RowsOK
  <1>4. SlotsOK
    BY <1>1, IdleIsASlot DEF Init, SlotsOK, Busy
  <1>5. SessionsOK
    BY <1>1 DEF Init, SessionsOK
  <1> QED
    BY <1>2, <1>3, <1>4, <1>5 DEF AccountsOK

THEOREM AccountsInvariant == Spec => []AccountsOK
  <1>1. AccountsOK /\ [Next]_vars => AccountsOK'
    <2> SUFFICES ASSUME AccountsOK, [Next]_vars PROVE AccountsOK'
      OBVIOUS
    <2>1. CASE UNCHANGED vars
      BY <2>1, UsersStep DEF vars, AccountsOK, TypeOK
    <2> QED
      BY <2>1, AccountStep, DeleteStep, TickStep DEF Next
  <1> QED
    BY <1>1, AccountsInit, PTL DEF Spec

(* "Who am I" answers with an account whose password the browser gave, for  *)
(* any number of accounts deleted and signed up again with the same email,  *)
(* and any delay between the queries (auth.service.ts:31, auth.middleware.ts:13).  *)
THEOREM MeIsTheOwner == Spec => []MeAnswersItsOwner
  <1>1. AccountsOK => MeAnswersItsOwner
    BY DEF AccountsOK, SessionsOK, MeAnswersItsOwner
  <1> QED
    BY <1>1, AccountsInvariant, PTL

=============================================================================
