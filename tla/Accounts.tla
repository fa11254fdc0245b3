------------------------------ MODULE Accounts ------------------------------
(***************************************************************************)
(* Signup, login, logout and "who am I": src/services/auth.service.ts, the  *)
(* handlers of auth.controller.ts, requireAuth, and the cookies of the      *)
(* browsers that call them, over the users table.                           *)
(*                                                                         *)
(* A process is a request slot: a browser sends a request with the cookie   *)
(* it has, the server takes a step per awaited query, and the answer, with  *)
(* its Set-Cookie, reaches the browser later or never.                      *)
(***************************************************************************)
EXTENDS Integers, FiniteSets

CONSTANTS
  Ids,             \* the users' ids (uuid)
  Emails, Passwords,
  Browsers,
  Reqs,            \* requests that may be under way together
  Null,
  JWT_EXPIRES_IN,  \* lifetime of a token, in ticks
  DefaultQuota,    \* the column default of users.quota
  MaxTime,         \* bound on the clock
  DbFaults         \* a query may fail, with or without effect

ASSUME AccountsAssumption ==
  /\ JWT_EXPIRES_IN \in Nat \ {0}
  /\ {DefaultQuota, MaxTime} \subseteq Nat
  /\ DbFaults \in BOOLEAN
  /\ Null \notin Ids \cup {"200"}
  /\ Null \notin [email : Emails, pw : Passwords, quota : Int, refreshed : Nat]

VARIABLES
  users,   \* Postgres: id -> row, or Null
  made,    \* history: the ids that ever had a row
  now,     \* Date.now()
  cookie,  \* browser -> the token in its cookie, or Null
  req,     \* what is under way in each slot
  proven   \* history: <<b, u>> when browser b gave the password of user u

accounts == <<made, cookie, req, proven>>
vars == <<users, accounts, now>>

Idle == [at |-> "idle", kind |-> Null, by |-> Null, email |-> Null, pw |-> Null,
         user |-> Null, hash |-> Null, token |-> Null, status |-> Null]

Token == [sub : Ids, exp : Nat]

-----------------------------------------------------------------------------
(* Tokens, and rows *)

signToken(u) == [sub |-> u, exp |-> now + JWT_EXPIRES_IN]

verifyToken(t) == t # Null /\ now < t.exp

Live == {u \in Ids : users[u] # Null}

(* A new row gets a uuid, which no row has had before. *)
NewIds == Ids \ made

(* The unique constraint of users.email. *)
EmailTaken(email) == \E u \in Live : users[u].email = email

-----------------------------------------------------------------------------
(* The browsers *)

(* A signup, which starts at its insert, or a login. It has been validated  *)
(* by then: emails are trimmed and in lower case, and the login schema lets *)
(* any password through.                                                    *)
Form(b, kind, e, p) ==
  [Idle EXCEPT !.at = IF kind = "signup" THEN "create" ELSE "find", !.kind = kind,
               !.by = b, !.email = e, !.pw = p]

Requests(b) ==
  {Form(b, kind, e, p) : kind \in {"signup", "login"}, e \in Emails, p \in Passwords}
    \cup {[Idle EXCEPT !.at = "guard", !.kind = "me", !.by = b, !.token = cookie[b]],
          [Idle EXCEPT !.at = "answer", !.kind = "logout", !.by = b, !.status = "204"]}

Send(r) ==
  /\ req[r] = Idle
  /\ \E b \in Browsers : \E new \in Requests(b) : req' = [req EXCEPT ![r] = new]
  /\ UNCHANGED <<users, made, cookie, proven, now>>

(* The answer to r: the user it shows, and the token it sets. *)
Answer(r, status, u, t) ==
  req' = [req EXCEPT ![r] = [Idle EXCEPT !.at = "answer", !.kind = req[r].kind,
                                         !.by = req[r].by, !.status = status,
                                         !.user = u, !.token = t]]

(* Answers that show no user and leave the cookie alone. *)
Refuse(r, status) ==
  req' = [req EXCEPT ![r] = [Idle EXCEPT !.at = "answer", !.status = status]]

Receive(r) ==
  /\ req[r].at = "answer"
  /\ cookie' = IF req[r].kind = "logout" \/ req[r].token # Null
               THEN [cookie EXCEPT ![req[r].by] = req[r].token] ELSE cookie
  /\ req' = [req EXCEPT ![r] = Idle]
  /\ UNCHANGED <<users, made, proven, now>>

(* The answer is lost, or the instance dies before it. *)
Lose(r) ==
  /\ req[r].at # "idle"
  /\ req' = [req EXCEPT ![r] = Idle]
  /\ UNCHANGED <<users, made, cookie, proven, now>>

-----------------------------------------------------------------------------
(* POST /auth/signup *)

createUser(r) ==
  LET q == req[r] IN
  /\ q.at = "create"
  /\ \/ /\ ~EmailTaken(q.email)
        /\ \E u \in NewIds :
             /\ users' = [users EXCEPT ![u] =
                  [email |-> q.email, pw |-> q.pw, quota |-> DefaultQuota,
                   refreshed |-> now]]
             /\ made' = made \cup {u}
             /\ proven' = proven \cup {<<q.by, u>>}
             /\ \/ Answer(r, "201", u, signToken(u))
                \/ DbFaults /\ Refuse(r, "500")
     \/ /\ EmailTaken(q.email) /\ Refuse(r, "409")
        /\ UNCHANGED <<users, made, proven>>
     \/ /\ DbFaults /\ Refuse(r, "500")
        /\ UNCHANGED <<users, made, proven>>
  /\ UNCHANGED <<cookie, now>>

-----------------------------------------------------------------------------
(* POST /auth/login *)

findByEmail(r) ==
  LET q == req[r] IN
  /\ q.at = "find"
  /\ \/ \E u \in Live :
          /\ users[u].email = q.email
          /\ req' = [req EXCEPT ![r].at = "compare", ![r].user = u,
                               ![r].hash = users[u].pw]
     \/ ~EmailTaken(q.email) /\ Refuse(r, "401")
     \/ DbFaults /\ Refuse(r, "500")
  /\ UNCHANGED <<users, made, cookie, proven, now>>

(* Mutant: the user is read again once the password is checked. *)
CurrentHolder(q) ==
  IF EmailTaken(q.email) THEN CHOOSE u \in Live : users[u].email = q.email
  ELSE q.user

(* The user the session is for: the one whose hash was compared. *)
LoggedIn(q) == q.user

(* bcrypt.compare is awaited; the row may be gone by the time it is done.   *)
verifyPassword(r) ==
  LET q == req[r] IN
  /\ q.at = "compare"
  /\ \/ /\ q.pw = q.hash
        /\ Answer(r, "200", LoggedIn(q), signToken(LoggedIn(q)))
        /\ proven' = proven \cup {<<q.by, q.user>>}
     \/ q.pw # q.hash /\ Refuse(r, "401") /\ UNCHANGED proven
  /\ UNCHANGED <<users, made, cookie, now>>

-----------------------------------------------------------------------------
(* GET /auth/me *)

requireAuth(r) ==
  /\ req[r].at = "guard"
  /\ \/ /\ verifyToken(req[r].token)
        /\ req' = [req EXCEPT ![r].at = "read", ![r].user = req[r].token.sub]
     \/ ~verifyToken(req[r].token) /\ Refuse(r, "401")
  /\ UNCHANGED <<users, made, cookie, proven, now>>

findUserById(r) ==
  LET u == req[r].user IN
  /\ req[r].at = "read"
  /\ \/ u \in Live /\ Answer(r, "200", u, Null)
     \/ u \notin Live /\ Refuse(r, "401")
     \/ DbFaults /\ Refuse(r, "500")
  /\ UNCHANGED <<users, made, cookie, proven, now>>

-----------------------------------------------------------------------------
(* The environment *)

(* An operator deletes an account; no route does. *)
DeleteUser(u) ==
  /\ u \in Live
  /\ users' = [users EXCEPT ![u] = Null]
  /\ UNCHANGED <<accounts, now>>

Tick ==
  /\ now < MaxTime
  /\ now' = now + 1
  /\ UNCHANGED <<users, accounts>>

Init ==
  /\ users = [u \in Ids |-> Null]
  /\ made = {}
  /\ now = 0
  /\ cookie = [b \in Browsers |-> Null]
  /\ req = [r \in Reqs |-> Idle]
  /\ proven = {}

Serve(r) ==
  createUser(r) \/ findByEmail(r) \/ verifyPassword(r) \/ requireAuth(r)
    \/ findUserById(r)

Next ==
  \/ \E r \in Reqs : Send(r) \/ Serve(r) \/ Receive(r) \/ Lose(r)
  \/ \E u \in Ids : DeleteUser(u)
  \/ Tick

Spec == Init /\ [][Next]_vars

-----------------------------------------------------------------------------
(* Properties *)

Row == [email : Emails, pw : Passwords, quota : Int, refreshed : 0 .. MaxTime]

(* Every variable keeps its shape; in particular a row is there only for an *)
(* id that was given out, and a request past its first query knows its user. *)
TypeOK ==
  /\ users \in [Ids -> Row \cup {Null}]
  /\ Live \subseteq made /\ made \subseteq Ids
  /\ now \in 0 .. MaxTime
  /\ cookie \in [Browsers -> Token \cup {Null}]
  /\ proven \subseteq Browsers \X made
  /\ \A r \in Reqs :
       /\ req[r].at \in {"idle", "create", "find", "compare", "guard", "read", "answer"}
       /\ req[r].at \in {"compare", "read"} => req[r].user \in made
       /\ req[r].token \in Token \cup {Null}

(* "Who am I" answers a browser with an account whose password it has given, *)
(* and with no other, even when the account was deleted and its email signed *)
(* up again meanwhile: while the password was compared, or while a token for *)
(* the old account is still valid.                                           *)
MeAnswersItsOwner ==
  \A r \in Reqs : req[r].kind = "me" /\ req[r].status = "200"
                    => <<req[r].by, req[r].user>> \in proven

=============================================================================
