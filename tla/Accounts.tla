------------------------------ MODULE Accounts ------------------------------
(***************************************************************************)
(* Accounts and sign-in (internal/auth/service.go and the handlers in      *)
(* internal/service/auth_service_v2.go).  ChangeEmail and ChangePassword   *)
(* load the whole row, compare the password given with its hash, which     *)
(* takes bcrypt a good part of a second, and Save every column of the row  *)
(* they loaded.  Register creates the row and then signs in with a second  *)
(* query.  None of it is in a transaction.                                 *)
(*                                                                         *)
(* A password stands for its hash.  A request with malformed input or a    *)
(* wrong password changes nothing and is left out; tokens are not modelled *)
(* beyond who was given one.                                               *)
(***************************************************************************)

CONSTANTS User, Email, Password,
          Worker,     \* requests served at a time
          Overlap     \* may the requests of one user overlap?

VARIABLES users,      \* the auth_users table
          call,       \* per worker, the request it serves
          signedIn    \* the users that were given a token

vars == <<users, call, signedIn>>

Promised == INSTANCE Credentials WITH account <- users

NoAccount     == Promised!NoAccount
Account(e, p) == Promised!Account(e, p)

Idle == [op |-> "none"]
Call(op, u, row) == [op |-> op, user |-> u, row |-> row]

Init == /\ users = [u \in User |-> NoAccount]
        /\ call = [w \in Worker |-> Idle]
        /\ signedIn = {}

-----------------------------------------------------------------------------
(* A user's requests follow one another, unless they may overlap.          *)
MayBegin(w, u) ==
    /\ call[w] = Idle
    /\ Overlap \/ \A x \in Worker : call[x] # Idle => call[x].user # u

(* The unique index on email.                                              *)
EmailFree(u, e) == Promised!EmailFree(u, e)

(* LoginUser finds the account by its email and compares the password.     *)
Matches(u, e, p) == users[u] = Account(e, p)

-----------------------------------------------------------------------------
(* RegisterUser, the first half of Register.                               *)
RegisterUser(w, u, e, p) ==
    /\ MayBegin(w, u)
    /\ users[u] = NoAccount
    /\ EmailFree(u, e)
    /\ users' = [users EXCEPT ![u] = Account(e, p)]
    /\ call' = [call EXCEPT ![w] = Call("register", u, Account(e, p))]
    /\ UNCHANGED signedIn

(* The second half, LoginUser: it fails if the row has changed already.    *)
RegisterLogin(w) ==
    /\ call[w].op = "register"
    /\ signedIn' = signedIn \cup {u \in User : users[u] = call[w].row}
    /\ call' = [call EXCEPT ![w] = Idle]
    /\ UNCHANGED users

(* Login is a single query.                                                *)
Login(u, e, p) ==
    /\ Matches(u, e, p)
    /\ signedIn' = signedIn \cup {u}
    /\ UNCHANGED <<users, call>>

-----------------------------------------------------------------------------
(* A signed-in user asks for a new email or password, giving the current   *)
(* password; the row to be saved is the row as it was loaded, with the     *)
(* column in question replaced.                                            *)
BeginChange(w, u, op, row) ==
    /\ MayBegin(w, u)
    /\ u \in signedIn
    /\ call' = [call EXCEPT ![w] = Call(op, u, row)]
    /\ UNCHANGED <<users, signedIn>>

ChangeEmail(w, u, e)    == BeginChange(w, u, "email",    [users[u] EXCEPT !.email = e])
ChangePassword(w, u, p) == BeginChange(w, u, "password", [users[u] EXCEPT !.password = p])

(* Save: UPDATE of all columns, unless the email has been taken.  Both     *)
(* operations end here, ChangeEmail with a fresh token.                    *)
Save(w) ==
    LET c == call[w] IN
    /\ c.op \in {"email", "password"}
    /\ EmailFree(c.user, c.row.email)
    /\ users' = [users EXCEPT ![c.user] = c.row]
    /\ call' = [call EXCEPT ![w] = Idle]
    /\ UNCHANGED signedIn

(* The email has been taken, a statement fails, or the answer is lost.     *)
CallLost(w) ==
    /\ call[w] # Idle
    /\ call' = [call EXCEPT ![w] = Idle]
    /\ UNCHANGED <<users, signedIn>>

-----------------------------------------------------------------------------
CallEnds(w) == RegisterLogin(w) \/ Save(w) \/ CallLost(w)

Next == \/ \E w \in Worker, u \in User :
              \/ \E e \in Email : \/ ChangeEmail(w, u, e)
                                  \/ \E p \in Password : RegisterUser(w, u, e, p)
              \/ \E p \in Password : ChangePassword(w, u, p)
        \/ \E w \in Worker : CallEnds(w)
        \/ \E u \in User, e \in Email, p \in Password : Login(u, e, p)

Spec == Init /\ [][Next]_vars

(* Every request ends.                                                     *)
FairSpec == Spec /\ \A w \in Worker : WF_vars(CallEnds(w))
-----------------------------------------------------------------------------
(* Type invariant of the table, the requests and the sessions.             *)
TypeOK ==
    /\ users \in [User -> [email : Email, password : Password] \cup {NoAccount}]
    /\ call \in [Worker -> {Idle} \cup
          [op : {"register", "email", "password"}, user : User,
           row : [email : Email, password : Password]]]
    /\ signedIn \in SUBSET {u \in User : users[u] # NoAccount}

(***************************************************************************)
(* "ChangeEmail updates a user's email", "ChangePassword updates a user's  *)
(* password" (service.go): no step changes both.  A request that saves a   *)
(* row loaded before another request of the user was answered does: it     *)
(* brings the old password back with the new email, or the reverse.        *)
(***************************************************************************)
OneColumnAtATime ==
    [][\A u \in User : users[u] # NoAccount =>
          \/ users'[u].email = users[u].email
          \/ users'[u].password = users[u].password]_vars

(* While the requests of a user do not overlap, accounts are as promised.  *)
ImplementsCredentials == Promised!Spec
=============================================================================
