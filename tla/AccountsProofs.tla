--------------------------- MODULE AccountsProofs ---------------------------
(***************************************************************************)
(* What the account service keeps of its promises, for any number of       *)
(* users, emails, passwords and workers: while the requests of each user   *)
(* follow one another, it implements Credentials.  The requests of         *)
(* different users may overlap at will.  Without the condition the claim   *)
(* is false, as a TLC run shows; what is left then is that an email names  *)
(* one account.                                                            *)
(*                                                                         *)
(* The invariant: the row a request is about to save agrees with the table *)
(* in the column it does not change.  It holds because no other request    *)
(* of the same user is being served.                                       *)
(***************************************************************************)
EXTENDS Accounts, TLAPS

Row == [email : Email, password : Password]

Alone == \A w, x \in Worker :
            call[w] # Idle /\ call[x] # Idle /\ call[w].user = call[x].user => w = x

FreshRow(c) ==
    c.op \in {"email", "password"} =>
        /\ users[c.user] \in Row
        /\ c.op = "email"    => c.row.password = users[c.user].password
        /\ c.op = "password" => c.row.email = users[c.user].email

Fresh == \A w \in Worker : FreshRow(call[w])

IInv == TypeOK /\ Alone /\ Fresh

(***************************************************************************)
(* An account is not taken for the absence of one.                         *)
(***************************************************************************)
LEMMA RowIsAccount ==
    /\ \A r \in Row : r # NoAccount
    /\ \A e \in Email, p \in Password : Account(e, p) \in Row
<1>1. ASSUME NEW r \in Row PROVE r # NoAccount
  <2>1. "password" \in DOMAIN r
    BY DEF Row
  <2>2. DOMAIN NoAccount = {"email"}
    BY DEF NoAccount, Promised!NoAccount
  <2> QED  BY <2>1, <2>2
<1> QED  BY <1>1 DEF Account, Promised!Account, Row

LEMMA OpenCall ==
    ASSUME TypeOK, NEW w \in Worker, call[w].op \in {"register", "email", "password"}
    PROVE  call[w] # Idle /\ call[w].user \in User /\ call[w].row \in Row
BY DEF TypeOK, Idle, Row

LEMMA InitIInv == Init => IInv
BY DEF Init, IInv, TypeOK, Alone, Fresh, FreshRow, Idle

LEMMA TypeStep == ASSUME TypeOK, [Next]_vars PROVE TypeOK'
<1> USE RowIsAccount DEF TypeOK, Row
<1>1. ASSUME NEW w \in Worker, NEW u \in User, NEW e \in Email, NEW p \in Password,
             RegisterUser(w, u, e, p)
      PROVE  TypeOK'
  BY <1>1 DEF RegisterUser, Call
<1>2. ASSUME NEW w \in Worker, RegisterLogin(w) PROVE TypeOK'
  BY <1>2, OpenCall DEF RegisterLogin
<1>3. ASSUME NEW u \in User, NEW e \in Email, NEW p \in Password, Login(u, e, p)
      PROVE  TypeOK'
  BY <1>3 DEF Login, Matches
<1>4. ASSUME NEW w \in Worker, NEW u \in User, NEW e \in Email, ChangeEmail(w, u, e)
      PROVE  TypeOK'
  BY <1>4 DEF ChangeEmail, BeginChange, Call
<1>5. ASSUME NEW w \in Worker, NEW u \in User, NEW p \in Password, ChangePassword(w, u, p)
      PROVE  TypeOK'
  BY <1>5 DEF ChangePassword, BeginChange, Call
<1>6. ASSUME NEW w \in Worker, Save(w) PROVE TypeOK'
  BY <1>6, OpenCall DEF Save
<1>7. ASSUME NEW w \in Worker, CallLost(w) PROVE TypeOK'
  BY <1>7 DEF CallLost
<1>8. CASE UNCHANGED vars
  BY <1>8 DEF vars
<1> QED
  BY <1>1, <1>2, <1>3, <1>4, <1>5, <1>6, <1>7, <1>8 DEF Next, CallEnds

(***************************************************************************)
(* The table, the requests and the sessions keep their types, with any     *)
(* overlap: only users that have an account are signed in.                 *)
(***************************************************************************)
THEOREM TypeCorrect == Spec => []TypeOK
<1>1. Init => TypeOK
  BY InitIInv DEF IInv
<1>2. TypeOK /\ [Next]_vars => TypeOK'
  BY TypeStep
<1> QED  BY <1>1, <1>2, PTL DEF Spec

(***************************************************************************)
(* Whatever requests overlap, stale saves included, a row is only written  *)
(* with an email that no other account has,                                *)
(***************************************************************************)
EmailsApart ==
    \A u, v \in User : users[u] # NoAccount /\ users[v] # NoAccount
                         /\ users[u].email = users[v].email => u = v

LEMMA EmailsStep == ASSUME TypeOK, EmailsApart, [Next]_vars PROVE EmailsApart'
<1>1. CASE users' = users
  BY <1>1 DEF EmailsApart
<1>2. ASSUME NEW u \in User, NEW r \in Row, EmailFree(u, r.email),
             users' = [users EXCEPT ![u] = r]
      PROVE  EmailsApart'
  <2>1. \A v \in User \ {u} : users'[v] = users[v] /\ users[v].email # r.email
    BY <1>2 DEF EmailFree, Promised!EmailFree, TypeOK
  <2>2. users'[u] = r
    BY <1>2 DEF TypeOK
  <2> QED  BY <2>1, <2>2 DEF EmailsApart
<1>3. ASSUME NEW w \in Worker, NEW u \in User, NEW e \in Email, NEW p \in Password,
             RegisterUser(w, u, e, p)
      PROVE  EmailsApart'
  <2>1. Account(e, p) \in Row /\ Account(e, p).email = e
    BY RowIsAccount DEF Account, Promised!Account
  <2> QED  BY <1>2, <1>3, <2>1 DEF RegisterUser
<1>4. ASSUME NEW w \in Worker, Save(w) PROVE EmailsApart'
  BY <1>2, <1>4, OpenCall DEF Save
<1>5. ASSUME NEW w \in Worker, RegisterLogin(w) \/ CallLost(w) PROVE EmailsApart'
  BY <1>1, <1>5 DEF RegisterLogin, CallLost
<1>6. ASSUME NEW w \in Worker, NEW u \in User, NEW e \in Email, ChangeEmail(w, u, e)
      PROVE  EmailsApart'
  BY <1>1, <1>6 DEF ChangeEmail, BeginChange
<1>7. ASSUME NEW w \in Worker, NEW u \in User, NEW p \in Password, ChangePassword(w, u, p)
      PROVE  EmailsApart'
  BY <1>1, <1>7 DEF ChangePassword, BeginChange
<1>8. ASSUME NEW u \in User, NEW e \in Email, NEW p \in Password, Login(u, e, p)
      PROVE  EmailsApart'
  BY <1>1, <1>8 DEF Login
<1>9. CASE UNCHANGED vars
  BY <1>1, <1>9 DEF vars
<1> QED  BY <1>3, <1>4, <1>5, <1>6, <1>7, <1>8, <1>9 DEF Next, CallEnds

(***************************************************************************)
(* so the email and password given to Login are those of one account.      *)
(***************************************************************************)
THEOREM LoginFindsOneAccount ==
    Spec => [](\A u, v \in User, e \in Email, p \in Password :
                  Matches(u, e, p) /\ Matches(v, e, p) => u = v)
<1> DEFINE One == \A u, v \in User, e \in Email, p \in Password :
                     Matches(u, e, p) /\ Matches(v, e, p) => u = v
<1>1. Init => EmailsApart
  BY DEF Init, EmailsApart
<1>2. TypeOK /\ EmailsApart /\ [Next]_vars => EmailsApart'
  BY EmailsStep
<1>3. EmailsApart => One
  BY RowIsAccount DEF EmailsApart, Matches
<1> QED  BY <1>1, <1>2, <1>3, TypeCorrect, PTL DEF Spec

(***************************************************************************)
(* A request begins: no other one of its user is open.                     *)
(***************************************************************************)
LEMMA BeginStep ==
    ASSUME Overlap = FALSE, IInv, NEW w \in Worker, NEW u \in User, MayBegin(w, u),
           NEW op, NEW row, call' = [call EXCEPT ![w] = Call(op, u, row)],
           \A v \in User : v # u => users'[v] = users[v],
           op \in {"register", "email", "password"}, FreshRow(Call(op, u, row))'
    PROVE  Alone' /\ Fresh'
<1>1. \A x \in Worker : call[x] # Idle => call[x].user # u
  BY DEF MayBegin
<1>2. /\ call'[w] = Call(op, u, row) /\ call'[w].user = u
      /\ \A x \in Worker : x # w => call'[x] = call[x]
  BY DEF IInv, TypeOK, Call
<1>3. Alone'
  BY <1>1, <1>2 DEF Alone, IInv
<1>4. ASSUME NEW x \in Worker PROVE FreshRow(call[x])'
  <2>1. CASE x = w
    BY <1>2, <2>1
  <2>2. CASE x # w /\ call[x].op \in {"email", "password"}
    <3>1. call[x] # Idle /\ call[x].user \in User /\ call[x].user # u
      BY <1>1, <2>2, OpenCall DEF IInv
    <3> QED  BY <1>2, <2>2, <3>1 DEF IInv, Fresh, FreshRow
  <2>3. CASE x # w /\ call[x].op \notin {"email", "password"}
    BY <1>2, <2>3 DEF FreshRow
  <2> QED  BY <2>1, <2>2, <2>3
<1> QED  BY <1>3, <1>4 DEF Fresh

(***************************************************************************)
(* A request ends: what it wrote concerns no other open one.               *)
(***************************************************************************)
LEMMA EndStep ==
    ASSUME IInv, NEW w \in Worker, call[w] # Idle, call' = [call EXCEPT ![w] = Idle],
           \A v \in User : v # call[w].user => users'[v] = users[v]
    PROVE  Alone' /\ Fresh'
<1>1. /\ call'[w] = Idle
      /\ \A x \in Worker : x # w => call'[x] = call[x]
  BY DEF IInv, TypeOK
<1>2. Alone'
  BY <1>1 DEF Alone, IInv
<1>3. ASSUME NEW x \in Worker PROVE FreshRow(call[x])'
  <2>1. CASE x = w
    BY <1>1, <2>1 DEF FreshRow, Idle
  <2>2. CASE x # w /\ call[x].op \in {"email", "password"}
    <3>1. call[x] # Idle /\ call[x].user \in User /\ call[x].user # call[w].user
      BY <2>2, OpenCall DEF IInv, Alone
    <3> QED  BY <1>1, <2>2, <3>1 DEF IInv, Fresh, FreshRow
  <2>3. CASE x # w /\ call[x].op \notin {"email", "password"}
    BY <1>1, <2>3 DEF FreshRow
  <2> QED  BY <2>1, <2>2, <2>3
<1> QED  BY <1>2, <1>3 DEF Fresh

LEMMA IInvStep == ASSUME Overlap = FALSE PROVE IInv /\ [Next]_vars => IInv'
<1> SUFFICES ASSUME IInv, [Next]_vars PROVE Alone' /\ Fresh'
  BY TypeStep DEF IInv
<1>1. ASSUME NEW w \in Worker, NEW u \in User, NEW e \in Email, NEW p \in Password,
             RegisterUser(w, u, e, p)
      PROVE  Alone' /\ Fresh'
  <2>1. FreshRow(Call("register", u, Account(e, p)))'
    BY DEF FreshRow, Call
  <2> QED  BY <1>1, <2>1, BeginStep DEF RegisterUser, IInv, TypeOK
<1>2. ASSUME NEW w \in Worker, NEW u \in User, NEW e \in Email, ChangeEmail(w, u, e)
      PROVE  Alone' /\ Fresh'
  <2>1. users[u] \in Row /\ users' = users
    BY <1>2 DEF ChangeEmail, BeginChange, IInv, TypeOK, Row
  <2>2. FreshRow(Call("email", u, [users[u] EXCEPT !.email = e]))'
    BY <2>1 DEF FreshRow, Call, Row
  <2> QED  BY <1>2, <2>1, <2>2, BeginStep DEF ChangeEmail, BeginChange
<1>3. ASSUME NEW w \in Worker, NEW u \in User, NEW p \in Password, ChangePassword(w, u, p)
      PROVE  Alone' /\ Fresh'
  <2>1. users[u] \in Row /\ users' = users
    BY <1>3 DEF ChangePassword, BeginChange, IInv, TypeOK, Row
  <2>2. FreshRow(Call("password", u, [users[u] EXCEPT !.password = p]))'
    BY <2>1 DEF FreshRow, Call, Row
  <2> QED  BY <1>3, <2>1, <2>2, BeginStep DEF ChangePassword, BeginChange
<1>4. ASSUME NEW w \in Worker, CallEnds(w) PROVE Alone' /\ Fresh'
  <2>1. call[w] # Idle /\ call' = [call EXCEPT ![w] = Idle]
    BY <1>4, OpenCall DEF CallEnds, RegisterLogin, Save, CallLost, IInv
  <2>2. \A v \in User : v # call[w].user => users'[v] = users[v]
    BY <1>4 DEF CallEnds, RegisterLogin, Save, CallLost, IInv, TypeOK
  <2> QED  BY <2>1, <2>2, EndStep
<1>5. ASSUME UNCHANGED <<users, call>> PROVE Alone' /\ Fresh'
  BY <1>5 DEF IInv, Alone, Fresh, FreshRow
<1>6. ASSUME NEW u \in User, NEW e \in Email, NEW p \in Password, Login(u, e, p)
      PROVE  Alone' /\ Fresh'
  BY <1>5, <1>6 DEF Login
<1>7. CASE UNCHANGED vars
  BY <1>5, <1>7 DEF vars
<1> QED  BY <1>1, <1>2, <1>3, <1>4, <1>6, <1>7 DEF Next

LEMMA Inductive == ASSUME Overlap = FALSE PROVE Spec => []IInv
BY InitIInv, IInvStep, PTL DEF Spec

-----------------------------------------------------------------------------
(***************************************************************************)
(* A save changes the one column its request is about.                     *)
(***************************************************************************)
LEMMA SaveImplements ==
    ASSUME IInv, NEW w \in Worker, Save(w)
    PROVE  \E u \in User : \/ \E e \in Email : Promised!SetEmail(u, e)
                           \/ \E p \in Password : Promised!SetPassword(u, p)
<1> DEFINE c == call[w]
<1>1. /\ c.user \in User /\ c.row \in Row /\ users[c.user] \in Row
      /\ users[c.user] # NoAccount
  BY OpenCall, RowIsAccount DEF Save, IInv, Fresh, FreshRow
<1>2. users' = [users EXCEPT ![c.user] = c.row] /\ Promised!EmailFree(c.user, c.row.email)
  BY DEF Save, EmailFree
<1>3. CASE c.op = "email"
  <2>1. c.row = [users[c.user] EXCEPT !.email = c.row.email]
    BY <1>1, <1>3 DEF IInv, Fresh, FreshRow, Row
  <2>2. Promised!SetEmail(c.user, c.row.email)
    BY <1>1, <1>2, <2>1 DEF Promised!SetEmail, NoAccount
  <2> QED  BY <1>1, <2>2 DEF Row
<1>4. CASE c.op = "password"
  <2>1. c.row = [users[c.user] EXCEPT !.password = c.row.password]
    BY <1>1, <1>4 DEF IInv, Fresh, FreshRow, Row
  <2>2. Promised!SetPassword(c.user, c.row.password)
    BY <1>1, <1>2, <2>1 DEF Promised!SetPassword, NoAccount
  <2> QED  BY <1>1, <2>2 DEF Row
<1> QED  BY <1>3, <1>4 DEF Save

LEMMA StepImplements ==
    ASSUME IInv, [Next]_vars
    PROVE  [Promised!Next]_users
<1>1. ASSUME NEW w \in Worker, NEW u \in User, NEW e \in Email, NEW p \in Password,
             RegisterUser(w, u, e, p)
      PROVE  Promised!Next
  <2>1. Promised!Open(u, e, p)
    BY <1>1 DEF RegisterUser, Promised!Open, NoAccount, Account, EmailFree
  <2> QED  BY <2>1 DEF Promised!Next
<1>2. ASSUME NEW w \in Worker, CallEnds(w) PROVE [Promised!Next]_users
  BY <1>2, SaveImplements DEF CallEnds, RegisterLogin, CallLost, Promised!Next
<1>3. ASSUME NEW w \in Worker, NEW u \in User, NEW e \in Email, ChangeEmail(w, u, e)
      PROVE  users' = users
  BY <1>3 DEF ChangeEmail, BeginChange
<1>4. ASSUME NEW w \in Worker, NEW u \in User, NEW p \in Password, ChangePassword(w, u, p)
      PROVE  users' = users
  BY <1>4 DEF ChangePassword, BeginChange
<1>5. ASSUME NEW u \in User, NEW e \in Email, NEW p \in Password, Login(u, e, p)
      PROVE  users' = users
  BY <1>5 DEF Login
<1>6. UNCHANGED vars => users' = users
  BY DEF vars
<1> QED  BY <1>1, <1>2, <1>3, <1>4, <1>5, <1>6 DEF Next

(***************************************************************************)
(* While the requests of a user do not overlap, a change of the email      *)
(* changes the email and a change of the password the password, and both   *)
(* last until they are changed again: the service implements Credentials.  *)
(***************************************************************************)
THEOREM SequentialAccounts ==
    ASSUME Overlap = FALSE PROVE Spec => ImplementsCredentials
<1>1. Init => Promised!Init
  BY DEF Init, Promised!Init, NoAccount
<1>2. IInv /\ [Next]_vars => [Promised!Next]_users
  BY StepImplements
<1> QED  BY <1>1, <1>2, Inductive, PTL DEF Spec, ImplementsCredentials, Promised!Spec

(***************************************************************************)
(* No step changes both columns then, and a lost update cannot occur.      *)
(***************************************************************************)
THEOREM SequentialChanges ==
    ASSUME Overlap = FALSE PROVE Spec => OneColumnAtATime
<1> DEFINE Kept == \A u \in User : users[u] # NoAccount =>
                       \/ users'[u].email = users[u].email
                       \/ users'[u].password = users[u].password
<1>1. ASSUME IInv, Promised!Next PROVE Kept
  <2> SUFFICES ASSUME NEW u \in User, users[u] # NoAccount
               PROVE  \/ users'[u].email = users[u].email
                      \/ users'[u].password = users[u].password
    OBVIOUS
  <2>0. users \in [User -> Row \cup {NoAccount}] /\ users[u] \in Row
    BY <1>1 DEF IInv, TypeOK, Row
  <2>1. ASSUME NEW v \in User, NEW e \in Email, Promised!SetEmail(v, e)
        PROVE  users'[u].password = users[u].password
    BY <2>0, <2>1 DEF Promised!SetEmail, Row
  <2>2. ASSUME NEW v \in User, NEW p \in Password, Promised!SetPassword(v, p)
        PROVE  users'[u].email = users[u].email
    BY <2>0, <2>2 DEF Promised!SetPassword, Row
  <2>3. ASSUME NEW v \in User, NEW e \in Email, NEW p \in Password, Promised!Open(v, e, p)
        PROVE  users'[u] = users[u]
    BY <2>0, <2>3 DEF Promised!Open, NoAccount
  <2> QED  BY <1>1, <2>1, <2>2, <2>3 DEF Promised!Next
<1>2. IInv /\ [Next]_vars => [Kept]_vars
  BY <1>1, StepImplements
<1> QED  BY <1>2, Inductive, PTL DEF Spec, OneColumnAtATime
=============================================================================
