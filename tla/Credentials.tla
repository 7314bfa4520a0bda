---------------------------- MODULE Credentials ----------------------------
(***************************************************************************)
(* What the account service promises (the comments on RegisterUser,        *)
(* ChangeEmail and ChangePassword in internal/auth/service.go): an account *)
(* has an email of its own and a password, and a request changes the one   *)
(* it is about and nothing else.                                           *)
(***************************************************************************)

CONSTANTS User, Email, Password

VARIABLE account

NoAccount     == [email |-> "none"]
Account(e, p) == [email |-> e, password |-> p]

Init == account = [u \in User |-> NoAccount]

(* No account but that of u, if it has one, is known by this email.        *)
EmailFree(u, e) == \A v \in User \ {u} : account[v].email # e

Open(u, e, p) == /\ account[u] = NoAccount /\ EmailFree(u, e)
                 /\ account' = [account EXCEPT ![u] = Account(e, p)]

SetEmail(u, e) == /\ account[u] # NoAccount /\ EmailFree(u, e)
                  /\ account' = [account EXCEPT ![u].email = e]

SetPassword(u, p) == /\ account[u] # NoAccount
                     /\ account' = [account EXCEPT ![u].password = p]

Next == \E u \in User :
            \/ \E e \in Email : SetEmail(u, e) \/ \E p \in Password : Open(u, e, p)
            \/ \E p \in Password : SetPassword(u, p)

Spec == Init /\ [][Next]_account
=============================================================================
