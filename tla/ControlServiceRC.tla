-------------------------- MODULE ControlServiceRC --------------------------
(***************************************************************************)
(* The motor command queue of internal/service/control_service.go at the   *)
(* level of single SQL statements, on a database that runs transactions at *)
(* the READ COMMITTED level (PostgreSQL's default, which server/main.go    *)
(* and the handlers never change):                                         *)
(*   - a read sees what was committed when it started, and the writes of   *)
(*     its own transaction;                                                *)
(*   - gorm's Save writes every column of the row as it was read earlier,  *)
(*     and waits while another transaction has written the same row;       *)
(*   - only CreateMotorCommand locks what it reads (SELECT .. FOR UPDATE   *)
(*     on the node joined with its hub).                                   *)
(* With Connections = 1 transactions do not overlap, and the module        *)
(* implements ControlService.                                              *)
(***************************************************************************)
EXTENDS MotorCommand, FiniteSets

CONSTANTS Hub, HubOf, CmdId, Worker, TTL, LeaseDuration, MaxPull,
          RateWindow, RateMax, MaxLag, MaxTime,
          Connections    \* transactions the database runs at a time

ASSUME RCAssumption == /\ HubOf \in [Node -> Hub]
                       /\ TTL \subseteq Nat \ {0}
                       /\ LeaseDuration \subseteq Nat \ {0}
                       /\ Connections \in Nat \ {0}
                       /\ {RateWindow, MaxLag, MaxTime} \subseteq Nat
                       /\ {RateMax, MaxPull} \subseteq Nat \ {0}

VARIABLES now,       \* wall clock of the server
          cmd,       \* committed rows of motor_commands
          audit,     \* per command, what its committed events amount to
          session    \* per worker, the call it runs

vars == <<now, cmd, audit, session>>

(***************************************************************************)
(* The append-only events of a command, folded: the new status of the last *)
(* one, and whether every event started from the status the one before it  *)
(* reported and went on to another one.  Only a lease follows a lease: the *)
(* two events of a pull that requeues a command and leases it again are    *)
(* kept as one (see Save).                                                 *)
(***************************************************************************)
NoEvents == [last |-> "none", chained |-> TRUE]

Append(log, from, to) ==
    [last    |-> to,
     chained |-> log.chained /\ log.last = from /\ (from = to => to = Leased)]

(***************************************************************************)
(* A session.  call: what was asked for; pc: where its transaction stands; *)
(* todo: the rows it is going to save, computed from its last read; buf:   *)
(* the rows it saved and has not committed.  A write carries the status    *)
(* its row was read with, which the event appended with it starts from.    *)
(***************************************************************************)
NoCall   == [op |-> "none"]
NoWrites == [c \in {} |-> NoRow]
Idle     == [pc |-> "idle", call |-> NoCall, todo |-> NoWrites, buf |-> NoWrites]

\* Mutant: the previous status is taken after the row was changed.
WriteLate(read, row) == [from |-> row.status, row |-> row]

Write(read, row) == [from |-> read.status, row |-> row]

Writes == [from : Status, row : Row]
Calls  == [op : {"none"}]
            \cup [op : {"pull"}, hub : Hub, at : Nat, until : Nat, max : Nat]
            \cup [op : {"ack"}, cmd : CmdId, status : AckStatus, at : Nat]
            \cup [op : {"create"}, node : Node, key : Key, exp : Nat, at : Nat]

InTx(w)       == session[w].pc \notin {"idle", "between"}
At(w, op, pc) == session[w].pc = pc /\ session[w].call.op = op
Saved(w)      == DOMAIN session[w].todo = {}
CanBegin      == Cardinality({w \in Worker : InTx(w)}) < Connections

ClockReading == {t \in 0..now : now - t <= MaxLag}

Init == /\ now = 0
        /\ cmd = [c \in CmdId |-> NoRow]
        /\ audit = [c \in CmdId |-> NoEvents]
        /\ session = [w \in Worker |-> Idle]

Tick == /\ now < MaxTime
        /\ now' = now + 1
        /\ UNCHANGED <<cmd, audit, session>>

-----------------------------------------------------------------------------
(* Statements.                                                             *)

(***************************************************************************)
(* The table as a read statement of worker w sees it.                      *)
(***************************************************************************)
View(w) == [c \in CmdId |-> IF c \in DOMAIN session[w].buf
                            THEN session[w].buf[c].row ELSE cmd[c]]

OfHub(table, h)  == {c \in CmdId : Exists(table[c]) /\ HubOf[table[c].node] = h}
OfNode(table, n) == {c \in CmdId : Exists(table[c]) /\ table[c].node = n}

(***************************************************************************)
(* The saves that reconciling the rows S with clock reading t leads to.    *)
(***************************************************************************)
ReconcileWrites(S, t) ==
    LET stale == {c \in S : Pending(cmd[c]) /\ Reconcile(cmd[c], t) # cmd[c]}
    IN  [c \in stale |-> Write(cmd[c], Reconcile(cmd[c], t))]

(***************************************************************************)
(* A transaction starts with a read of the committed rows, which decides   *)
(* what it saves.                                                          *)
(***************************************************************************)
Begin(w, call, pc, writes) ==
    /\ session[w] = Idle
    /\ CanBegin
    /\ session' = [session EXCEPT ![w] =
            [pc |-> pc, call |-> call, todo |-> writes, buf |-> NoWrites]]
    /\ UNCHANGED <<now, cmd, audit>>

RowLocked(w, c) == \E v \in Worker \ {w} : c \in DOMAIN session[v].buf

(***************************************************************************)
(* saveMotorCommandWithEvent for the next row, oldest first: it writes all *)
(* columns as computed from the earlier read, over whatever is there now.  *)
(* Two saves of one row in one transaction (a requeue and a new lease) are *)
(* kept as one from the first status to the last.                          *)
(***************************************************************************)
Save(w) ==
    LET s == session[w] IN
    \E c \in DOMAIN s.todo :
        /\ \A d \in DOMAIN s.todo : s.todo[c].row.created <= s.todo[d].row.created
        /\ ~RowLocked(w, c)
        /\ session' = [session EXCEPT
             ![w].todo = [d \in DOMAIN s.todo \ {c} |-> s.todo[d]],
             ![w].buf = [d \in DOMAIN s.buf \cup {c} |->
                 IF d # c THEN s.buf[d]
                 ELSE [from |-> IF c \in DOMAIN s.buf THEN s.buf[c].from
                                                      ELSE s.todo[c].from,
                       row  |-> s.todo[c].row]]]
        /\ UNCHANGED <<now, cmd, audit>>

(***************************************************************************)
(* The commit makes the saved rows and their events visible.               *)
(***************************************************************************)
Flush(w) ==
    LET buf == session[w].buf IN
    /\ cmd' = View(w)
    /\ audit' = [c \in CmdId |-> IF c \in DOMAIN buf
                                 THEN Append(audit[c], buf[c].from, buf[c].row.status)
                                 ELSE audit[c]]

Commit(w) ==
    /\ session[w].pc = "commit" /\ Saved(w)
    /\ Flush(w)
    /\ session' = [session EXCEPT ![w] = Idle]
    /\ UNCHANGED now

(***************************************************************************)
(* The call ends without a commit: it was refused, cancelled, lost its     *)
(* connection, or is the victim of a database deadlock.                    *)
(***************************************************************************)
Rollback(w) ==
    /\ session[w] # Idle
    /\ session' = [session EXCEPT ![w] = Idle]
    /\ UNCHANGED <<now, cmd, audit>>

(***************************************************************************)
(* The last saves of a transaction, after which it commits.                *)
(***************************************************************************)
Finally(w, writes) ==
    /\ session' = [session EXCEPT ![w].pc = "commit", ![w].call = NoCall,
                                  ![w].todo = writes]
    /\ UNCHANGED <<now, cmd, audit>>

-----------------------------------------------------------------------------
(* PullPendingMotorCommands: reconcile the hub, then read and lease.       *)

PullBegin(w, h, t, d, max) ==
    Begin(w, [op |-> "pull", hub |-> h, at |-> t, until |-> t + d, max |-> max],
          "reconcile", ReconcileWrites(OfHub(cmd, h), t))

OldestOf(table, S, L, max) ==
    /\ Cardinality(L) = IF Cardinality(S) < max THEN Cardinality(S) ELSE max
    /\ \A c \in L, d \in S \ L : table[c].created <= table[d].created

PullLease(w) ==
    LET call    == session[w].call
        table   == View(w)
        offered == {c \in OfHub(table, call.hub) :
                      table[c].status = Queued /\ ~CommandExpired(table[c], call.at)}
    IN  /\ At(w, "pull", "reconcile") /\ Saved(w)
        /\ \E L \in SUBSET offered :
              /\ OldestOf(table, offered, L, call.max)
              /\ Finally(w, [c \in L |-> Write(table[c], LeaseTo(table[c], call.until))])

-----------------------------------------------------------------------------
(* AckMotorCommandEvent: reconcile the hub, then load and check one        *)
(* command; a refusal is a Rollback.                                       *)

AckBegin(w, h, c, s, t) ==
    /\ c \in OfHub(cmd, h)
    /\ Begin(w, [op |-> "ack", cmd |-> c, status |-> s, at |-> t],
             "reconcile", ReconcileWrites(OfHub(cmd, h), t))

\* Mutant: a status the command already has is written and logged again.
AckRepeatedTwice(w) ==
    LET call == session[w].call
        row  == View(w)[call.cmd]
    IN  /\ At(w, "ack", "reconcile") /\ Saved(w)
        /\ row.status = call.status
        /\ Finally(w, [c \in {call.cmd} |-> Write(row, Acked(row, call.status))])

AckRepeated(w) ==
    LET call == session[w].call IN
    /\ At(w, "ack", "reconcile") /\ Saved(w)
    /\ View(w)[call.cmd].status = call.status
    /\ Finally(w, NoWrites)

AckApplied(w) ==
    LET call == session[w].call
        row  == View(w)[call.cmd]
    IN  /\ At(w, "ack", "reconcile") /\ Saved(w)
        /\ AckAccepted(row, call.status, call.at)
        /\ Finally(w, [c \in {call.cmd} |-> Write(row, Acked(row, call.status))])

-----------------------------------------------------------------------------
(* GetMotorCommandStatus of an overdue command.                            *)

GetStatus(w, c, t) ==
    /\ ShouldExpireOnAccess(cmd[c], t)
    /\ Begin(w, NoCall, "commit", [e \in {c} |-> Write(cmd[c], Expire(cmd[c]))])

-----------------------------------------------------------------------------
(* CreateMotorCommand: a transaction that reconciles the node and one that *)
(* inserts, each holding the locks on the node's and the hub's rows.       *)

\* Mutant: the second transaction of a create takes no lock.
HoldsTargetOnce(v, n) ==
    /\ session[v].pc = "reconcile" /\ session[v].call.op = "create"
    /\ HubOf[session[v].call.node] = HubOf[n]

HoldsTarget(v, n) ==
    /\ InTx(v) /\ session[v].call.op = "create"
    /\ HubOf[session[v].call.node] = HubOf[n]

\* Mutant: the row locks are ignored.
TargetNeverLocked(w, n) == FALSE

TargetLocked(w, n) == \E v \in Worker \ {w} : HoldsTarget(v, n)

CreateBegin(w, n, k, t0, t, ttl) ==
    /\ ~TargetLocked(w, n)
    /\ t0 <= t
    /\ t0 + ttl <= MaxTime
    /\ Begin(w, [op |-> "create", node |-> n, key |-> k, exp |-> t0 + ttl, at |-> t],
             "reconcile", ReconcileWrites(OfNode(cmd, n), t))

CreateReconciled(w) ==
    /\ At(w, "create", "reconcile") /\ Saved(w)
    /\ Flush(w)
    /\ session' = [session EXCEPT ![w].pc = "between", ![w].buf = NoWrites]
    /\ UNCHANGED now

Replayed(q) == \E c \in OfNode(cmd, q.node) : cmd[c].key = q.key

WithinRateLimit(q) ==
    Cardinality({c \in OfNode(cmd, q.node) : cmd[c].created >= q.at - RateWindow}) < RateMax

\* Mutant: only undelivered commands block a node.
NodeBusyWhilePending(q) == \E c \in OfNode(cmd, q.node) : Pending(cmd[c])

NodeBusy(q) == \E c \in OfNode(cmd, q.node) : Active(cmd[c])

Admitted(q) == ~Replayed(q) /\ WithinRateLimit(q) /\ ~NodeBusy(q)

(***************************************************************************)
(* The second transaction locks the target and reads; what is not admitted *)
(* ends here (Rollback).                                                   *)
(***************************************************************************)
CreateCheck(w) ==
    LET q == session[w].call IN
    /\ At(w, "create", "between") /\ CanBegin
    /\ ~TargetLocked(w, q.node)
    /\ Admitted(q)
    /\ session' = [session EXCEPT ![w].pc = "insert"]
    /\ UNCHANGED <<now, cmd, audit>>

(***************************************************************************)
(* The insert and its commit.  A unique index on user, node and key makes  *)
(* the insert of a key that is taken fail (Rollback).                      *)
(***************************************************************************)
CreateInsert(w, c) ==
    LET q == session[w].call IN
    /\ At(w, "create", "insert")
    /\ ~Replayed(q)
    /\ cmd[c] = NoRow
    /\ cmd' = [cmd EXCEPT ![c] = NewRow(q.node, q.key, q.exp, now)]
    /\ audit' = [audit EXCEPT ![c] = Append(@, "none", Queued)]
    /\ session' = [session EXCEPT ![w] = Idle]
    /\ UNCHANGED now

-----------------------------------------------------------------------------
Call(w) ==
    \E t \in ClockReading :
       \/ \E n \in Node, k \in Key, t0 \in ClockReading, ttl \in TTL :
             CreateBegin(w, n, k, t0, t, ttl)
       \/ \E h \in Hub, d \in LeaseDuration, max \in 1..MaxPull : PullBegin(w, h, t, d, max)
       \/ \E h \in Hub, c \in CmdId, s \in AckStatus : AckBegin(w, h, c, s, t)
       \/ \E c \in CmdId : GetStatus(w, c, t)

Continue(w) ==
    \/ Save(w)
    \/ PullLease(w)
    \/ AckRepeated(w)
    \/ AckApplied(w)
    \/ CreateReconciled(w)
    \/ CreateCheck(w)
    \/ \E c \in CmdId : CreateInsert(w, c)
    \/ Commit(w)
    \/ Rollback(w)

Next == \/ Tick
        \/ \E w \in Worker : Call(w) \/ Continue(w)

Spec == Init /\ [][Next]_vars
-----------------------------------------------------------------------------
(* Type invariant of the table, the folded events and the sessions.        *)
TypeOK == /\ now \in Nat
          /\ cmd \in [CmdId -> Row \cup {NoRow}]
          /\ audit \in [CmdId -> [last : Status \cup {"none"}, chained : BOOLEAN]]
          /\ \A w \in Worker :
                LET s == session[w] IN
                /\ s.pc \in {"idle", "reconcile", "between", "insert", "commit"}
                /\ s.call \in Calls
                /\ DOMAIN s.todo \cup DOMAIN s.buf \subseteq CmdId
                /\ \A c \in DOMAIN s.todo : s.todo[c] \in Writes
                /\ \A c \in DOMAIN s.buf : s.buf[c] \in Writes

(***************************************************************************)
(* The columns of a committed row agree with each other even when a Save   *)
(* overwrote a newer version of the row.                                   *)
(***************************************************************************)
LeaseMatchesStatus ==
    \A c \in CmdId : Exists(cmd[c]) =>
        /\ (cmd[c].lease # NoLease) <=> (cmd[c].status \in {Leased, Sent, Executing})
        /\ cmd[c].completed <=> Terminal(cmd[c])

(***************************************************************************)
(* Creates racing for a node do not invalidate each other's checks: what a *)
(* create found under its locks, an unused key and room in the rate        *)
(* window, still holds when it inserts, so it never runs into the unique   *)
(* index.                                                                  *)
(***************************************************************************)
AdmissionStable ==
    \A w \in Worker : At(w, "create", "insert") =>
        /\ ~Replayed(session[w].call)
        /\ WithinRateLimit(session[w].call)

(***************************************************************************)
(* Nor is what it found of the node, that no active command holds it, lost *)
(* to another create: while a create is about to insert, its node becomes  *)
(* busy only because a Save of an earlier read revives a finished command. *)
(***************************************************************************)
BusyOnlyByRevival ==
    [][\A w \in Worker :
          /\ At(w, "create", "insert") /\ session'[w] = session[w]
          /\ ~NodeBusy(session[w].call) /\ NodeBusy(session[w].call)'
          => \E c \in OfNode(cmd, session[w].call.node) :
                Terminal(cmd[c]) /\ Active(cmd'[c])]_vars

(***************************************************************************)
(* No window of RateWindow time units holds more than RateMax commands of  *)
(* a node, however many creates race.                                      *)
(***************************************************************************)
RateLimitHolds ==
    \A n \in Node, a \in 0..now :
        Cardinality({c \in OfNode(cmd, n) : cmd[c].created \in a..(a + RateWindow)})
            <= RateMax

(***************************************************************************)
(* The queue's intended invariant (motor_command_models.go): one active    *)
(* command per node at a time.                                             *)
(***************************************************************************)
OneActivePerNode ==
    \A n \in Node : \A c, d \in OfNode(cmd, n) :
        Active(cmd[c]) /\ Active(cmd[d]) => c = d

(***************************************************************************)
(* The events of a command form a chain of its status transitions, each    *)
(* starting where the one before ended and leading to another status       *)
(* (motor_command_models.go: an append-only audit log for command state    *)
(* transitions): no transition is missing from the log, and an             *)
(* acknowledgement that the hub repeats is not logged twice.               *)
(***************************************************************************)
AuditIsChain == \A c \in CmdId : audit[c].chained

(***************************************************************************)
(* Polling again while a lease runs returns no duplicate                   *)
(* (control_service_test.go): a lease is not replaced before it ran out.   *)
(***************************************************************************)
LeaseHonoured ==
    [][\A c \in CmdId :
          /\ cmd[c].status = Leased
          /\ cmd'[c] # cmd[c]
          /\ cmd'[c].status \in PendingStatus
          => cmd[c].lease <= now]_vars

(***************************************************************************)
(* With transactions that do not overlap the statements implement the      *)
(* transactions of ControlService.                                         *)
(***************************************************************************)
InFlight(w) == /\ session[w].call.op = "create"
               /\ session[w].pc \in {"between", "insert"}

Creates == [w \in Worker |->
              IF InFlight(w)
              THEN [phase |-> "reconciled",
                    node |-> session[w].call.node, key |-> session[w].call.key,
                    exp |-> session[w].call.exp, at |-> session[w].call.at]
              ELSE [phase |-> "idle"]]

Atomic == INSTANCE ControlService WITH MaxLag <- MaxTime, creating <- Creates

ImplementsControlService == Atomic!Spec
=============================================================================
