-------------------------- MODULE HubProvisioning --------------------------
(***************************************************************************)
(* How a hub device gets its token (internal/auth/service.go and its       *)
(* handlers in internal/service/auth_service_v2.go): its owner associates  *)
(* it once, the device claims a token once, and the owner revokes the      *)
(* claim when the device needs a new one.                                  *)
(*                                                                         *)
(* ClaimHubToken runs without a transaction: it counts the token rows of   *)
(* the hub in one statement and inserts a row in another, and its answer   *)
(* is the only copy of the token, so it can be lost.  Requests are served  *)
(* concurrently, and a device that got no answer claims again while the    *)
(* earlier request may still be running.                                   *)
(*                                                                         *)
(* The device's side (retry until it has a token, loss of its flash        *)
(* memory) is not in the repository; it follows docs/HUB_PROVISIONING.md.  *)
(* A device is claimed with the secret it was associated with: another     *)
(* secret or an unknown device is refused and changes nothing.             *)
(***************************************************************************)
EXTENDS Integers, FiniteSets

CONSTANTS User,       \* registered accounts
          Device,     \* hub devices, each with its QR code
          Worker      \* claim requests served at a time

ASSUME WorkerAssumption == IsFiniteSet(Worker)

VARIABLES owner,      \* the hubs table: user_id of the row with this device_id
          rows,       \* the hub_tokens table: number of rows of the hub
          claim,      \* per worker, the claim request it serves
          holds       \* does the device have a token in its flash memory?

vars == <<owner, rows, claim, holds>>

NoOwner == "none"
Idle    == [phase |-> "idle"]

\* Mutant: the worker forgets which hub it has checked.
ClaimWithoutDevice(phase, d) == [phase |-> phase]

Claim(phase, d) == [phase |-> phase, device |-> d]

Init == /\ owner = [d \in Device |-> NoOwner]
        /\ rows  = [d \in Device |-> 0]
        /\ claim = [w \in Worker |-> Idle]
        /\ holds = [d \in Device |-> FALSE]

-----------------------------------------------------------------------------
(* AssociateHub: the unique index on device_id refuses a second owner.     *)
AssociateHub(u, d) ==
    /\ owner[d] = NoOwner
    /\ owner' = [owner EXCEPT ![d] = u]
    /\ UNCHANGED <<rows, claim, holds>>

-----------------------------------------------------------------------------
(* ClaimHubToken.                                                          *)

\* Mutant: the count of existing rows is not looked at.
ClaimableAlways(d) == owner[d] # NoOwner

Claimable(d) == owner[d] # NoOwner /\ rows[d] = 0

(***************************************************************************)
(* A device without a token asks for one; the handler finds its hub and no *)
(* token row.  A claim that finds a row is refused without a trace.        *)
(***************************************************************************)
ClaimChecked(w, d) ==
    /\ claim[w] = Idle
    /\ ~holds[d]
    /\ Claimable(d)
    /\ claim' = [claim EXCEPT ![w] = Claim("checked", d)]
    /\ UNCHANGED <<owner, rows, holds>>

(* It signs a token and inserts its row.                                   *)
ClaimStored(w) ==
    /\ claim[w].phase = "checked"
    /\ rows' = [rows EXCEPT ![claim[w].device] = @ + 1]
    /\ claim' = [claim EXCEPT ![w] = Claim("stored", claim[w].device)]
    /\ UNCHANGED <<owner, holds>>

(* The answer reaches the device, which keeps the token.                   *)
ClaimAnswered(w) ==
    /\ claim[w].phase = "stored"
    /\ holds' = [holds EXCEPT ![claim[w].device] = TRUE]
    /\ claim' = [claim EXCEPT ![w] = Idle]
    /\ UNCHANGED <<owner, rows>>

(* The insert fails, the server restarts or the answer is lost: what the   *)
(* request has done so far stays done.                                     *)
ClaimLost(w) ==
    /\ claim[w] # Idle
    /\ claim' = [claim EXCEPT ![w] = Idle]
    /\ UNCHANGED <<owner, rows, holds>>

-----------------------------------------------------------------------------
\* Mutant: the rows are flagged revoked instead of deleted.
RowsRevoked(d) == rows[d]

RowsAfterRevoke(d) == 0

(* RevokeHub by the owner deletes every token row of the hub.              *)
RevokeHub(u, d) ==
    /\ owner[d] = u
    /\ rows' = [rows EXCEPT ![d] = RowsAfterRevoke(d)]
    /\ UNCHANGED <<owner, claim, holds>>

(* The device loses its flash memory (factory reset, new firmware).        *)
DeviceReset(d) ==
    /\ holds[d]
    /\ holds' = [holds EXCEPT ![d] = FALSE]
    /\ UNCHANGED <<owner, rows, claim>>

-----------------------------------------------------------------------------
Next == \/ \E u \in User, d \in Device : AssociateHub(u, d) \/ RevokeHub(u, d)
        \/ \E w \in Worker, d \in Device : ClaimChecked(w, d)
        \/ \E w \in Worker : ClaimStored(w) \/ ClaimAnswered(w) \/ ClaimLost(w)
        \/ \E d \in Device : DeviceReset(d)

Spec == Init /\ [][Next]_vars

(***************************************************************************)
(* Fairness.  A device without a token keeps claiming, and its requests    *)
(* and their answers are not lost every single time (strong fairness: an   *)
(* attempt may fail any number of times).  An owner whose hub is listed as *)
(* claimed but has no token (Stranded) revokes it in the end, which is     *)
(* what docs/HUB_PROVISIONING.md asks of him.                              *)
(***************************************************************************)
Serves(w, d) == claim[w] # Idle /\ claim[w].device = d

Stranded(d) == rows[d] > 0 /\ ~holds[d]

RevokeStranded(d) == Stranded(d) /\ RevokeHub(owner[d], d)

FairSpec ==
    /\ Spec
    /\ \A d \in Device :
          /\ SF_vars(\E w \in Worker : ClaimChecked(w, d))
          /\ SF_vars(\E w \in Worker : Serves(w, d) /\ ClaimStored(w))
          /\ SF_vars(\E w \in Worker : Serves(w, d) /\ ClaimAnswered(w))
          /\ WF_vars(RevokeStranded(d))
-----------------------------------------------------------------------------
(* Type invariant of the two tables, the requests and the devices.         *)
TypeOK ==
    /\ owner \in [Device -> User \cup {NoOwner}]
    /\ rows \in [Device -> Nat]
    /\ claim \in [Worker -> [phase : {"checked", "stored"}, device : Device]
                              \cup {Idle}]
    /\ holds \in [Device -> BOOLEAN]

(***************************************************************************)
(* Claim-once, as docs/HUB_PROVISIONING.md and the comment on              *)
(* ClaimHubToken put it: a hub has one token row at most.                  *)
(***************************************************************************)
ClaimOnce == \A d \in Device : rows[d] <= 1

(***************************************************************************)
(* What is left of it when requests overlap: the token rows of a hub and   *)
(* the requests that may still add one are together never more than the    *)
(* claims being served at a time, however often devices claim, answers are *)
(* lost and owners revoke.                                                 *)
(***************************************************************************)
Checked(d) == {w \in Worker : claim[w] = Claim("checked", d)}

BoundedClaims ==
    \A d \in Device : rows[d] + Cardinality(Checked(d)) <= Cardinality(Worker)

(***************************************************************************)
(* An associated hub without a token gets one in the end, whatever was     *)
(* lost on the way: the single claim cannot lock a device out for good.    *)
(***************************************************************************)
Provisioned == \A d \in Device : owner[d] # NoOwner ~> holds[d]
=============================================================================
