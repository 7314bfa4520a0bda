----------------------- MODULE HubProvisioningProofs -----------------------
(***************************************************************************)
(* Proofs about HubProvisioning for any finite number of devices, users    *)
(* and requests served at a time.  BoundedClaims is inductive together     *)
(* with TypeOK: a claim is let in only while its hub has no row, and each  *)
(* row added takes the place of the request that was checked.  The second  *)
(* part is about what the single claim costs: a device whose answer is     *)
(* lost depends on its owner.                                              *)
(***************************************************************************)
EXTENDS HubProvisioning, FiniteSetTheorems, TLAPS

IInv == TypeOK /\ BoundedClaims

(***************************************************************************)
(* The requests checked for a hub are a finite set, no larger than the     *)
(* set of workers.                                                         *)
(***************************************************************************)
LEMMA CheckedFinite ==
    ASSUME NEW d
    PROVE  /\ IsFiniteSet(Checked(d))
           /\ Cardinality(Checked(d)) \in Nat
           /\ Cardinality(Worker) \in Nat
           /\ Cardinality(Checked(d)) <= Cardinality(Worker)
<1>1. Checked(d) \subseteq Worker
  BY DEF Checked
<1> QED  BY <1>1, WorkerAssumption, FS_Subset, FS_CardinalityType

(***************************************************************************)
(* A set of requests that loses elements does not grow.                    *)
(***************************************************************************)
LEMMA FewerChecked ==
    ASSUME NEW d, Checked(d)' \subseteq Checked(d)
    PROVE  /\ Cardinality(Checked(d)') \in Nat
           /\ Cardinality(Checked(d)') <= Cardinality(Checked(d))
<1> QED  BY CheckedFinite, FS_Subset, FS_CardinalityType

(***************************************************************************)
(* The claim records are told apart by their phase and their device.       *)
(***************************************************************************)
LEMMA ClaimShapes ==
    ASSUME NEW d, NEW e
    PROVE  /\ Claim("checked", d) # Idle
           /\ Claim("stored", d) # Idle
           /\ Claim("stored", d) # Claim("checked", e)
           /\ Claim("checked", d) = Claim("checked", e) => d = e
<1>1. Claim("checked", d).phase = "checked" /\ Claim("stored", d).phase = "stored"
  BY DEF Claim
<1>2. Idle.phase = "idle"
  BY DEF Idle
<1>3. Claim("checked", d).device = d /\ Claim("checked", e).device = e
  BY DEF Claim
<1>4. Claim("checked", e).phase = "checked"
  BY DEF Claim
<1> QED  BY <1>1, <1>2, <1>3, <1>4

LEMMA InitIInv == Init => IInv
<1> SUFFICES ASSUME Init PROVE IInv
  OBVIOUS
<1>1. TypeOK
  BY DEF Init, TypeOK
<1>2. BoundedClaims
  <2> SUFFICES ASSUME NEW d \in Device
               PROVE  rows[d] + Cardinality(Checked(d)) <= Cardinality(Worker)
    BY DEF BoundedClaims
  <2>1. rows[d] = 0
    BY DEF Init
  <2> QED  BY <2>1, CheckedFinite
<1> QED  BY <1>1, <1>2 DEF IInv

LEMMA TypeStep == TypeOK /\ [Next]_vars => TypeOK'
<1> SUFFICES ASSUME TypeOK, [Next]_vars PROVE TypeOK'
  OBVIOUS
<1> USE DEF TypeOK
<1>1. ASSUME NEW u \in User, NEW d \in Device, AssociateHub(u, d) PROVE TypeOK'
  BY <1>1 DEF AssociateHub
<1>2. ASSUME NEW u \in User, NEW d \in Device, RevokeHub(u, d) PROVE TypeOK'
  BY <1>2 DEF RevokeHub, RowsAfterRevoke
<1>3. ASSUME NEW w \in Worker, NEW d \in Device, ClaimChecked(w, d) PROVE TypeOK'
  BY <1>3 DEF ClaimChecked, Claim
<1>4. ASSUME NEW w \in Worker, ClaimStored(w) PROVE TypeOK'
  <2>1. claim[w].device \in Device
    BY <1>4 DEF ClaimStored, Idle
  <2> QED  BY <1>4, <2>1 DEF ClaimStored, Claim
<1>5. ASSUME NEW w \in Worker, ClaimAnswered(w) PROVE TypeOK'
  <2>1. claim[w].device \in Device
    BY <1>5 DEF ClaimAnswered, Idle
  <2> QED  BY <1>5, <2>1 DEF ClaimAnswered
<1>6. ASSUME NEW w \in Worker, ClaimLost(w) PROVE TypeOK'
  BY <1>6 DEF ClaimLost
<1>7. ASSUME NEW d \in Device, DeviceReset(d) PROVE TypeOK'
  BY <1>7 DEF DeviceReset
<1>8. CASE UNCHANGED vars
  BY <1>8 DEF vars
<1> QED  BY <1>1, <1>2, <1>3, <1>4, <1>5, <1>6, <1>7, <1>8 DEF Next

(***************************************************************************)
(* Steps that leave the token rows alone or delete them, and let no new    *)
(* request in, keep the bound.                                             *)
(***************************************************************************)
LEMMA BoundKept ==
    ASSUME IInv, NEW d \in Device,
           rows'[d] \in Nat, rows'[d] <= rows[d],
           Checked(d)' \subseteq Checked(d)
    PROVE  rows'[d] + Cardinality(Checked(d)') <= Cardinality(Worker)
<1>1. rows[d] + Cardinality(Checked(d)) <= Cardinality(Worker) /\ rows[d] \in Nat
  BY DEF IInv, BoundedClaims, TypeOK
<1> QED  BY <1>1, FewerChecked, CheckedFinite

LEMMA BoundStep == IInv /\ [Next]_vars => BoundedClaims'
<1> SUFFICES ASSUME IInv, [Next]_vars, NEW d \in Device
             PROVE  rows'[d] + Cardinality(Checked(d)') <= Cardinality(Worker)
  BY DEF BoundedClaims
<1>0. TypeOK /\ TypeOK'
  BY TypeStep DEF IInv
<1>a. rows[d] \in Nat /\ rows'[d] \in Nat
  BY <1>0 DEF TypeOK
<1>1. ASSUME NEW u \in User, NEW e \in Device, AssociateHub(u, e)
      PROVE  rows'[d] + Cardinality(Checked(d)') <= Cardinality(Worker)
  BY <1>1, <1>a, BoundKept DEF AssociateHub, Checked
<1>2. ASSUME NEW u \in User, NEW e \in Device, RevokeHub(u, e)
      PROVE  rows'[d] + Cardinality(Checked(d)') <= Cardinality(Worker)
  <2>1. rows'[d] <= rows[d]
    BY <1>0, <1>2 DEF RevokeHub, RowsAfterRevoke, TypeOK
  <2> QED  BY <1>2, <1>a, <2>1, BoundKept DEF RevokeHub, Checked
<1>3. ASSUME NEW w \in Worker, NEW e \in Device, ClaimChecked(w, e)
      PROVE  rows'[d] + Cardinality(Checked(d)') <= Cardinality(Worker)
  <2>1. CASE d = e
    <3>1. rows'[d] = 0
      BY <1>3, <2>1 DEF ClaimChecked, Claimable
    <3>2. Checked(d)' \subseteq Worker
      BY DEF Checked
    <3> QED  BY <3>1, <3>2, WorkerAssumption, FS_Subset, FS_CardinalityType
  <2>2. CASE d # e
    <3>1. claim' = [claim EXCEPT ![w] = Claim("checked", e)] /\ rows' = rows
      BY <1>3 DEF ClaimChecked
    <3>2. \A x \in Worker : claim'[x] = Claim("checked", d) => claim[x] = Claim("checked", d)
      BY <3>1, <2>2, <1>0, ClaimShapes DEF TypeOK
    <3>3. Checked(d)' \subseteq Checked(d)
      BY <3>2 DEF Checked, Claim
    <3> QED  BY <3>1, <3>3, <1>a, BoundKept
  <2> QED  BY <2>1, <2>2
<1>4. ASSUME NEW w \in Worker, ClaimStored(w)
      PROVE  rows'[d] + Cardinality(Checked(d)') <= Cardinality(Worker)
  <2> DEFINE e == claim[w].device
  <2>1. claim[w] = Claim("checked", e) /\ e \in Device
    BY <1>0, <1>4 DEF ClaimStored, TypeOK, Idle, Claim
  <2>2. claim' = [claim EXCEPT ![w] = Claim("stored", e)]
    BY <1>4 DEF ClaimStored
  <2>3. \A x \in Worker : claim'[x] = Claim("checked", d) <=> x # w /\ claim[x] = Claim("checked", d)
    BY <2>2, <1>0, ClaimShapes DEF TypeOK
  <2>4. Checked(d)' = Checked(d) \ {w}
    BY <2>3 DEF Checked, Claim
  <2>5. CASE d = e
    <3>1. w \in Checked(d)
      BY <2>1, <2>5 DEF Checked
    <3>2. Cardinality(Checked(d)') = Cardinality(Checked(d)) - 1
      BY <2>4, <3>1, CheckedFinite, FS_RemoveElement
    <3>3. rows'[d] = rows[d] + 1
      BY <1>4, <1>0, <2>5 DEF ClaimStored, TypeOK
    <3>4. rows[d] + Cardinality(Checked(d)) <= Cardinality(Worker)
      BY DEF IInv, BoundedClaims
    <3> QED  BY <3>2, <3>3, <3>4, <1>a, CheckedFinite
  <2>6. CASE d # e
    <3>1. rows'[d] = rows[d]
      BY <1>4, <1>0, <2>6 DEF ClaimStored, TypeOK
    <3> QED  BY <3>1, <2>4, <1>a, BoundKept
  <2> QED  BY <2>5, <2>6
<1>5. ASSUME NEW w \in Worker, ClaimAnswered(w) \/ ClaimLost(w)
      PROVE  rows'[d] + Cardinality(Checked(d)') <= Cardinality(Worker)
  <2>1. claim' = [claim EXCEPT ![w] = Idle] /\ rows' = rows
    BY <1>5 DEF ClaimAnswered, ClaimLost
  <2>2. \A x \in Worker : claim'[x] = Claim("checked", d) => claim[x] = Claim("checked", d)
    BY <2>1, <1>0, ClaimShapes DEF TypeOK
  <2>3. Checked(d)' \subseteq Checked(d)
    BY <2>2 DEF Checked, Claim
  <2> QED  BY <2>1, <2>3, <1>a, BoundKept
<1>6. ASSUME NEW e \in Device, DeviceReset(e)
      PROVE  rows'[d] + Cardinality(Checked(d)') <= Cardinality(Worker)
  BY <1>6, <1>a, BoundKept DEF DeviceReset, Checked
<1>7. CASE UNCHANGED vars
  BY <1>7, <1>a, BoundKept DEF vars, Checked
<1> QED  BY <1>1, <1>2, <1>3, <1>4, <1>5, <1>6, <1>7 DEF Next

LEMMA Inductive == Spec => []IInv
<1>1. IInv /\ [Next]_vars => IInv'
  BY TypeStep, BoundStep DEF IInv
<1> QED  BY InitIInv, <1>1, PTL DEF Spec

(***************************************************************************)
(* The tables, requests and devices keep their types.                      *)
(***************************************************************************)
THEOREM TypeCorrect == Spec => []TypeOK
<1>1. IInv => TypeOK
  BY DEF IInv
<1> QED  BY Inductive, <1>1, PTL

(***************************************************************************)
(* A hub never gets more token rows than there are claims served at a      *)
(* time, in every interleaving of claims, lost answers and revocations.    *)
(***************************************************************************)
THEOREM ClaimsBounded == Spec => []BoundedClaims
<1>1. IInv => BoundedClaims
  BY DEF IInv
<1> QED  BY Inductive, <1>1, PTL

(***************************************************************************)
(* A server that serves one claim at a time keeps the promise that a hub   *)
(* is claimed once.                                                        *)
(***************************************************************************)
THEOREM ClaimedOnceBySingleWorker ==
    ASSUME Cardinality(Worker) = 1
    PROVE  Spec => []ClaimOnce
<1>1. IInv => ClaimOnce
  <2> SUFFICES ASSUME IInv, NEW d \in Device PROVE rows[d] <= 1
    BY DEF ClaimOnce
  <2>1. rows[d] \in Nat /\ rows[d] + Cardinality(Checked(d)) <= 1
    BY DEF IInv, TypeOK, BoundedClaims
  <2> QED  BY <2>1, CheckedFinite
<1> QED  BY Inductive, <1>1, PTL

-----------------------------------------------------------------------------
(***************************************************************************)
(* Why FairSpec needs the owner: a device whose token row is there and     *)
(* whose answer is lost is locked out, and no request of its own helps.    *)
(***************************************************************************)
LockedOut(d) == Stranded(d) /\ \A w \in Worker : ~Serves(w, d)

LEMMA LockedOutStep ==
    ASSUME TypeOK, [Next]_vars, NEW d \in Device, LockedOut(d)
    PROVE  LockedOut(d)' \/ RevokeHub(owner[d], d)
<1> SUFFICES ASSUME ~RevokeHub(owner[d], d) PROVE LockedOut(d)'
  OBVIOUS
<1>0. /\ rows[d] \in Nat /\ rows[d] > 0 /\ ~holds[d]
      /\ \A w \in Worker : claim[w] # Idle => claim[w].device # d
  BY DEF LockedOut, Stranded, Serves, TypeOK
<1>1. ASSUME rows'[d] = rows[d], holds'[d] = holds[d],
             \A w \in Worker : claim'[w] # Idle => claim'[w].device # d
      PROVE  LockedOut(d)'
  BY <1>0, <1>1 DEF LockedOut, Stranded, Serves
<1>2. ASSUME NEW u \in User, NEW e \in Device, AssociateHub(u, e) PROVE LockedOut(d)'
  BY <1>0, <1>1, <1>2 DEF AssociateHub
<1>3. ASSUME NEW u \in User, NEW e \in Device, RevokeHub(u, e) PROVE LockedOut(d)'
  <2>1. e # d
    BY <1>3 DEF RevokeHub
  <2> QED  BY <1>0, <1>1, <1>3, <2>1 DEF RevokeHub, TypeOK
<1>4. ASSUME NEW w \in Worker, NEW e \in Device, ClaimChecked(w, e) PROVE LockedOut(d)'
  <2>1. e # d
    BY <1>0, <1>4 DEF ClaimChecked, Claimable
  <2>2. \A x \in Worker : claim'[x] # Idle => claim'[x].device # d
    BY <1>0, <1>4, <2>1 DEF ClaimChecked, Claim, TypeOK
  <2> QED  BY <1>1, <1>4, <2>2 DEF ClaimChecked
<1>5. ASSUME NEW w \in Worker, ClaimStored(w) PROVE LockedOut(d)'
  <2>1. claim[w] # Idle /\ claim[w].device # d
    BY <1>0, <1>5 DEF ClaimStored, Idle
  <2>2. \A x \in Worker : claim'[x] # Idle => claim'[x].device # d
    BY <1>0, <1>5, <2>1 DEF ClaimStored, Claim, TypeOK
  <2> QED  BY <1>1, <1>5, <2>1, <2>2 DEF ClaimStored, TypeOK
<1>6. ASSUME NEW w \in Worker, ClaimAnswered(w) PROVE LockedOut(d)'
  <2>1. claim[w].device # d
    BY <1>0, <1>6 DEF ClaimAnswered, Idle
  <2>2. \A x \in Worker : claim'[x] # Idle => claim'[x].device # d
    BY <1>0, <1>6 DEF ClaimAnswered, TypeOK
  <2> QED  BY <1>1, <1>6, <2>1, <2>2 DEF ClaimAnswered, TypeOK
<1>7. ASSUME NEW w \in Worker, ClaimLost(w) PROVE LockedOut(d)'
  <2>1. \A x \in Worker : claim'[x] # Idle => claim'[x].device # d
    BY <1>0, <1>7 DEF ClaimLost, TypeOK
  <2> QED  BY <1>1, <1>7, <2>1 DEF ClaimLost
<1>8. ASSUME NEW e \in Device, DeviceReset(e) PROVE LockedOut(d)'
  BY <1>0, <1>1, <1>8 DEF DeviceReset, TypeOK
<1>9. CASE UNCHANGED vars
  BY <1>0, <1>1, <1>9 DEF vars
<1> QED  BY <1>2, <1>3, <1>4, <1>5, <1>6, <1>7, <1>8, <1>9 DEF Next

(***************************************************************************)
(* Only associated hubs are claimed and have token rows.                   *)
(***************************************************************************)
Owned == /\ \A d \in Device : rows[d] > 0 => owner[d] # NoOwner
         /\ \A w \in Worker : claim[w] # Idle => owner[claim[w].device] # NoOwner

LEMMA OwnedStep == ASSUME TypeOK, Owned, [Next]_vars PROVE Owned'
<1> USE DEF Owned, TypeOK
<1>1. ASSUME NEW u \in User, NEW d \in Device, AssociateHub(u, d) PROVE Owned'
  BY <1>1 DEF AssociateHub
<1>2. ASSUME NEW u \in User, NEW d \in Device, RevokeHub(u, d) PROVE Owned'
  BY <1>2 DEF RevokeHub, RowsAfterRevoke
<1>3. ASSUME NEW w \in Worker, NEW d \in Device, ClaimChecked(w, d) PROVE Owned'
  BY <1>3 DEF ClaimChecked, Claimable, Claim
<1>4. ASSUME NEW w \in Worker, ClaimStored(w) PROVE Owned'
  <2>1. claim[w] # Idle /\ claim[w].device \in Device
    BY <1>4 DEF ClaimStored, Idle
  <2> QED  BY <1>4, <2>1 DEF ClaimStored, Claim
<1>5. ASSUME NEW w \in Worker, ClaimAnswered(w) \/ ClaimLost(w) PROVE Owned'
  BY <1>5 DEF ClaimAnswered, ClaimLost
<1>6. ASSUME NEW d \in Device, DeviceReset(d) PROVE Owned'
  BY <1>6 DEF DeviceReset
<1>7. CASE UNCHANGED vars
  BY <1>7 DEF vars
<1> QED  BY <1>1, <1>2, <1>3, <1>4, <1>5, <1>6, <1>7 DEF Next

LEMMA OwnedInvariant == Spec => []Owned
<1>1. Init => Owned
  BY DEF Init, Owned
<1>2. TypeOK /\ Owned /\ [Next]_vars => Owned'
  BY OwnedStep
<1> QED  BY <1>1, <1>2, TypeCorrect, PTL DEF Spec

(***************************************************************************)
(* Nothing but RevokeHub by its owner ends a lock-out: no claim of the     *)
(* device, no request still under way, no other user.                      *)
(***************************************************************************)
THEOREM OnlyOwnerUnlocks ==
    ASSUME NEW d \in Device
    PROVE  Spec => [][LockedOut(d) /\ ~LockedOut(d)' => RevokeHub(owner[d], d)]_vars
<1>1. TypeOK /\ [Next]_vars => (LockedOut(d) /\ ~LockedOut(d)' => RevokeHub(owner[d], d))
  BY LockedOutStep
<1> QED  BY <1>1, TypeCorrect, PTL DEF Spec

(***************************************************************************)
(* An owner who never revokes makes Provisioned false in every execution   *)
(* with a lock-out, however fair everything else is.                       *)
(***************************************************************************)
THEOREM LockedOutForGood ==
    ASSUME NEW d \in Device
    PROVE  Spec /\ [][~RevokeHub(owner[d], d)]_vars /\ <>LockedOut(d) => ~Provisioned
<1>1. ASSUME TypeOK, [Next]_vars, [~RevokeHub(owner[d], d)]_vars, LockedOut(d)
      PROVE  LockedOut(d)'
  <2>1. CASE UNCHANGED vars
    BY <1>1, <2>1 DEF vars, LockedOut, Stranded, Serves
  <2> QED  BY <1>1, <2>1, LockedOutStep
<1>2. Owned /\ LockedOut(d) => owner[d] # NoOwner /\ ~holds[d]
  BY DEF Owned, LockedOut, Stranded
<1>3. Provisioned => (owner[d] # NoOwner ~> holds[d])
  BY DEF Provisioned
<1> QED  BY <1>1, <1>2, <1>3, TypeCorrect, OwnedInvariant, PTL DEF Spec
=============================================================================
