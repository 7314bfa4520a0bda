---------------------------- MODULE MotorCommand ----------------------------
(***************************************************************************)
(* One row of the table motor_commands and the ways the control service    *)
(* rewrites it (internal/service/control_service.go).  There is no state   *)
(* here: the modules of the control service share these definitions and    *)
(* differ in when a row is read and when it is written.                    *)
(*                                                                         *)
(* Times are natural numbers.  The three lease columns (token, leased_at,  *)
(* lease_expires_at) are always set and cleared together; only the expiry  *)
(* is compared by the code, so it stands for the three.  completed says    *)
(* whether completed_at is set.  The reason and message columns only       *)
(* explain a status to a reader and are left out, and so are the action    *)
(* and its duration, which no handler reads after the insert.              *)
(***************************************************************************)
EXTENDS Integers

CONSTANTS Node,       \* probes that are bound to a hub of their owner
          Key         \* idempotency keys a client may send

NoLease == 0          \* lease_expires_at IS NULL

Queued    == "queued"
Leased    == "leased_to_hub"
Sent      == "sent_to_probe"
Executing == "executing"
Succeeded == "succeeded"
Failed    == "failed"
Expired   == "expired"
Cancelled == "cancelled"

ActiveStatus   == {Queued, Leased, Sent, Executing}
TerminalStatus == {Succeeded, Failed, Expired, Cancelled}
PendingStatus  == {Queued, Leased}
Status         == ActiveStatus \cup TerminalStatus

Row == [node : Node, key : Key, status : Status, lease : Nat, exp : Nat,
        created : Nat, completed : BOOLEAN]

(***************************************************************************)
(* What the column set of a command id holds before the row is inserted.   *)
(***************************************************************************)
NoRow == [status |-> "none"]

Exists(r)   == r.status \in Status
Active(r)   == r.status \in ActiveStatus
Pending(r)  == r.status \in PendingStatus
Terminal(r) == r.status \in TerminalStatus

\* Mutant: the insert forgets the status column.
NewRowWithoutStatus(n, k, exp, created) ==
    [node |-> n, key |-> k, status |-> "", lease |-> NoLease,
     exp |-> exp, created |-> created, completed |-> FALSE]

NewRow(n, k, exp, created) ==
    [node |-> n, key |-> k, status |-> Queued, lease |-> NoLease,
     exp |-> exp, created |-> created, completed |-> FALSE]

CommandExpired(r, t) == r.exp <= t

\* Mutant: every lease counts as stale.
LeaseExpiredAlways(r, t) == r.status = Leased

LeaseExpired(r, t) == r.status = Leased /\ r.lease # NoLease /\ r.lease <= t

Expire(r) ==
    [r EXCEPT !.status = Expired, !.lease = NoLease, !.completed = TRUE]

\* Mutant: the lease columns survive the requeue.
RequeueKeepsLease(r) == [r EXCEPT !.status = Queued]

Requeue(r) == [r EXCEPT !.status = Queued, !.lease = NoLease]

\* Mutant: reconciliation looks at leases only and never expires a command.
ReconcileLeasesOnly(r, t) == IF LeaseExpired(r, t) THEN Requeue(r) ELSE r

(***************************************************************************)
(* The body of the reconcile loop for one pending row, with the caller's   *)
(* clock reading t: past its expiry the command expires, otherwise a lease *)
(* that ran out puts it back in the queue.                                 *)
(***************************************************************************)
Reconcile(r, t) ==
    CASE CommandExpired(r, t)                       -> Expire(r)
      [] ~CommandExpired(r, t) /\ LeaseExpired(r, t) -> Requeue(r)
      [] OTHER                                      -> r

\* Mutant: any overdue row is expired, whatever its status.
ShouldExpireAnyStatus(r, t) == Exists(r) /\ CommandExpired(r, t)

ShouldExpireOnAccess(r, t) == Pending(r) /\ CommandExpired(r, t)

LeaseTo(r, until) == [r EXCEPT !.status = Leased, !.lease = until]

(***************************************************************************)
(* The statuses a hub may report, and the pairs of current and reported    *)
(* status that are accepted.                                               *)
(***************************************************************************)
AckStatus == {Sent, Executing, Succeeded, Failed, Expired}

AckTransition ==
    ({Leased} \X {Sent, Expired, Failed})
      \cup ({Sent} \X {Executing, Succeeded, Failed, Expired})
      \cup ({Executing} \X {Succeeded, Failed, Expired})

\* Mutant: a finished command keeps its lease columns.
AckedKeepsLease(r, s) ==
    [r EXCEPT !.status = s, !.completed = s \in TerminalStatus]

Acked(r, s) ==
    IF s \in TerminalStatus
    THEN [r EXCEPT !.status = s, !.lease = NoLease, !.completed = TRUE]
    ELSE [r EXCEPT !.status = s]

\* Mutant: the expiry check is missing.
AckAcceptedLate(r, s, t) ==
    /\ r.status # s
    /\ <<r.status, s>> \in AckTransition
    /\ s \in TerminalStatus \/ (r.lease # NoLease /\ r.lease > t)

\* Mutant: a step needs no running lease.
AckAcceptedUnleased(r, s, t) ==
    /\ r.status # s
    /\ ~CommandExpired(r, t)
    /\ <<r.status, s>> \in AckTransition

(***************************************************************************)
(* Everything an acknowledgement of status s read at time t must pass,     *)
(* once the row was found and belongs to the caller's hub.                 *)
(***************************************************************************)
AckAccepted(r, s, t) ==
    /\ r.status # s
    /\ ~CommandExpired(r, t)
    /\ <<r.status, s>> \in AckTransition
    /\ s \in TerminalStatus \/ (r.lease # NoLease /\ r.lease > t)
=============================================================================
