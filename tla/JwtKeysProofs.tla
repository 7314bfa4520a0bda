---------------------------- MODULE JwtKeysProofs ----------------------------
(***************************************************************************)
(* The key pair of a serving process fits together, for any number of keys *)
(* and crashes.  A start does not compare the two files, so what makes the *)
(* pair fit is the order of the writes: the public key is written last,    *)
(* and while a pair is being saved there is no complete public key file.   *)
(***************************************************************************)
EXTENDS JwtKeys, TLAPS

MarksApart == {Missing, Torn} \cap Key = {}

(* A complete public key file belongs to the private one.                  *)
FilesMatch == publicFile \in Key => privateFile = publicFile

(* What the process knows about the files in each phase.                   *)
PhaseInv ==
    /\ server.phase \in {"private", "public"} => publicFile \notin Key
    /\ server.phase = "public" => privateFile = server.key
    /\ server.phase = "up" => /\ server.signs = publicFile
                              /\ server.checks = publicFile
                              /\ publicFile \in Key

IInv == TypeOK /\ FilesMatch /\ PhaseInv

(***************************************************************************)
(* The states of the process are told apart by their phase.                *)
(***************************************************************************)
LEMMA Phases ==
    ASSUME TypeOK
    PROVE  /\ server.phase = "down" <=> server = Down
           /\ server.phase \in {"private", "public"} => server.key \in Key
           /\ server.phase = "up" => server.signs \in Key /\ server.checks \in Key
           /\ server.phase \in {"down", "private", "public", "up"}
BY DEF TypeOK, Down

LEMMA InitIInv == ASSUME MarksApart PROVE Init => IInv
BY DEF Init, IInv, TypeOK, FilesMatch, PhaseInv, MarksApart, Down

LEMMA IInvStep ==
    ASSUME MarksApart, IInv, [Next]_keyVars
    PROVE  IInv'
<1> USE Phases DEF IInv, TypeOK, FilesMatch, PhaseInv, MarksApart
<1>1. CASE StartLoaded
  BY <1>1 DEF StartLoaded, Loadable, Up
<1>2. ASSUME NEW k \in Key, StartFresh(k) PROVE IInv'
  BY <1>2 DEF StartFresh, Loadable, Saving
<1>3. CASE SavePrivate
  BY <1>3 DEF SavePrivate, PrivateWritten, Saving
<1>4. CASE SavePublic
  BY <1>4 DEF SavePublic, Up
<1>5. CASE Crash
  BY <1>5 DEF Crash, Down
<1>6. CASE UNCHANGED keyVars
  BY <1>6 DEF keyVars
<1> QED  BY <1>1, <1>2, <1>3, <1>4, <1>5, <1>6 DEF Next

(***************************************************************************)
(* A step never touches the files when the public one is complete.         *)
(***************************************************************************)
LEMMA PairKept ==
    ASSUME MarksApart, IInv, [Next]_keyVars, publicFile \in Key
    PROVE  UNCHANGED <<privateFile, publicFile>>
<1> USE Phases DEF IInv, FilesMatch, PhaseInv
<1>1. CASE StartLoaded
  BY <1>1 DEF StartLoaded
<1>2. ASSUME NEW k \in Key, StartFresh(k) PROVE FALSE
  BY <1>2 DEF StartFresh, Loadable
<1>3. CASE SavePrivate
  BY <1>3 DEF SavePrivate
<1>4. CASE SavePublic
  BY <1>4 DEF SavePublic
<1>5. CASE Crash
  BY <1>5 DEF Crash
<1>6. CASE UNCHANGED keyVars
  BY <1>6 DEF keyVars
<1> QED  BY <1>1, <1>2, <1>3, <1>4, <1>5, <1>6 DEF Next

LEMMA Inductive == ASSUME MarksApart PROVE Spec => []IInv
<1>1. IInv /\ [Next]_keyVars => IInv'
  BY IInvStep
<1> QED  BY InitIInv, <1>1, PTL DEF Spec

(***************************************************************************)
(* A serving process accepts what it signs.                                *)
(***************************************************************************)
THEOREM PairFits == ASSUME MarksApart PROVE Spec => []PairMatches
<1>1. IInv => PairMatches
  BY DEF IInv, PhaseInv, PairMatches, Serving
<1> QED  BY Inductive, <1>1, PTL

(***************************************************************************)
(* Once both files can be loaded no process writes either of them again:   *)
(* every later start finds the same pair, wherever crashes hit.            *)
(***************************************************************************)
THEOREM PairStays ==
    ASSUME MarksApart
    PROVE  Spec => [][Loadable => UNCHANGED <<privateFile, publicFile>>]_keyVars
<1>1. IInv /\ [Next]_keyVars => (Loadable => UNCHANGED <<privateFile, publicFile>>)
  BY PairKept DEF Loadable
<1> QED  BY <1>1, Inductive, PTL DEF Spec
=============================================================================
