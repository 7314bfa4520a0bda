------------------------------ MODULE JwtKeys ------------------------------
(***************************************************************************)
(* The key pair of the JWT manager (internal/auth/jwt/manager.go): kept in *)
(* two PEM files, loaded when the server starts, or generated and saved    *)
(* when a file is missing or cannot be read.  The files are written one    *)
(* after the other and in place, and the process may die at any point, so  *)
(* a start finds any prefix of an earlier one's writes, a file cut short   *)
(* included.  A process that cannot write its keys exits (server/main.go), *)
(* which is a crash as well.                                               *)
(*                                                                         *)
(* Only crashes damage files here: nobody else deletes or edits them.      *)
(***************************************************************************)

CONSTANT Key            \* key pairs that can be generated

VARIABLES privateFile,  \* .jwt_private.pem: the pair whose half it holds
          publicFile,   \* .jwt_public.pem
          server        \* the process: what it is doing and its keys in memory

keyVars == <<privateFile, publicFile, server>>

Missing == "missing"
Torn    == "torn"       \* there, but empty or cut short

Down          == [phase |-> "down"]
Saving(p, k)  == [phase |-> p, key |-> k]      \* about to write file p
Up(priv, pub) == [phase |-> "up", signs |-> priv, checks |-> pub]

Serving == server.phase = "up"

Init == privateFile = Missing /\ publicFile = Missing /\ server = Down

-----------------------------------------------------------------------------
(* NewOrLoadJWTManager: both files exist and both parse.  Whether the two  *)
(* halves belong together is not looked at.                                *)
Loadable == privateFile \in Key /\ publicFile \in Key

StartLoaded ==
    /\ server = Down
    /\ Loadable
    /\ server' = Up(privateFile, publicFile)
    /\ UNCHANGED <<privateFile, publicFile>>

(* Otherwise, a failed load included, it generates a pair nobody has yet.  *)
StartFresh(k) ==
    /\ server = Down
    /\ ~Loadable
    /\ k \notin {privateFile, publicFile}
    /\ server' = Saving("private", k)
    /\ UNCHANGED <<privateFile, publicFile>>

-----------------------------------------------------------------------------
\* Mutant: a private key file that is there already is left as it is.
PrivateIfMissing(k) == IF privateFile \in Key THEN privateFile ELSE k

(* saveKeys: os.WriteFile replaces the private key, then the public one.   *)
PrivateWritten(k) == k

SavePrivate ==
    /\ server.phase = "private"
    /\ privateFile' = PrivateWritten(server.key)
    /\ server' = Saving("public", server.key)
    /\ UNCHANGED publicFile

SavePublic ==
    /\ server.phase = "public"
    /\ publicFile' = server.key
    /\ server' = Up(server.key, server.key)
    /\ UNCHANGED privateFile

(* The process dies.  A write under way has not begun or leaves its file   *)
(* truncated; a write that was completed is the next phase.                *)
Crash ==
    /\ server # Down
    /\ privateFile' \in {privateFile} \cup {Torn : p \in {server.phase} \cap {"private"}}
    /\ publicFile'  \in {publicFile}  \cup {Torn : p \in {server.phase} \cap {"public"}}
    /\ server' = Down

-----------------------------------------------------------------------------
Next == \/ StartLoaded \/ SavePrivate \/ SavePublic \/ Crash
        \/ \E k \in Key : StartFresh(k)

Spec == Init /\ [][Next]_keyVars
-----------------------------------------------------------------------------
(* Type invariant of the two files and the process.                        *)
TypeOK ==
    /\ privateFile \in Key \cup {Missing, Torn}
    /\ publicFile \in Key \cup {Missing, Torn}
    /\ server \in {Down} \cup [phase : {"private", "public"}, key : Key]
                         \cup [phase : {"up"}, signs : Key, checks : Key]

(***************************************************************************)
(* A serving process accepts the tokens it signs, whatever sequence of     *)
(* crashes came before it: the halves it loaded without comparing them     *)
(* belong to one pair.                                                     *)
(***************************************************************************)
PairMatches == Serving => server.signs = server.checks
=============================================================================
