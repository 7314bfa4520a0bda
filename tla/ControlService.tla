--------------------------- MODULE ControlService ---------------------------
(***************************************************************************)
(* The motor command queue of internal/service/control_service.go with     *)
(* every database transaction as one step: the executions in which         *)
(* transactions do not overlap, which is all a single SQLite connection    *)
(* (the tests) can produce.  ControlServiceRC.tla splits the transactions  *)
(* into their statements.                                                  *)
(*                                                                         *)
(* A handler reads its clock before its transaction starts, so each        *)
(* transaction works with a reading t that may lie behind now.  A create   *)
(* runs two transactions, and anything may happen between them.            *)
(*                                                                         *)
(* A hub belongs to one user for good and a bound probe is never moved, so *)
(* a node determines its hub and its owner; a call by anybody else is      *)
(* refused before it changes anything and has no action here.              *)
(***************************************************************************)
EXTENDS MotorCommand, FiniteSets

CONSTANTS Hub,           \* hubs, each with its service account
          HubOf,         \* the hub a node is bound to
          CmdId,         \* command ids (random UUIDs: never issued twice)
          Worker,        \* concurrent CreateMotorCommand requests
          TTL,           \* distances from the clock to the expiry asked for
          LeaseDuration, \* lease durations a hub asks for
          MaxPull,       \* largest number of commands per pull
          RateWindow,    \* length of the rate limit window
          RateMax,       \* commands per user and node in that window
          MaxLag,        \* bound: how far a clock reading lies behind now
          MaxTime        \* bound: the clock stops here

ASSUME HubAssumption  == HubOf \in [Node -> Hub]
ASSUME TimeAssumption == /\ TTL \subseteq Nat \ {0}
                         /\ LeaseDuration \subseteq Nat \ {0}
                         /\ MaxLag \in Nat
                         /\ MaxTime \in Nat
ASSUME RateAssumption == /\ RateWindow \in Nat
                         /\ RateMax \in Nat \ {0}
                         /\ MaxPull \in Nat \ {0}

VARIABLES now,        \* wall clock of the server
          cmd,        \* the table motor_commands
          creating    \* per worker, the create between its two transactions

vars == <<now, cmd, creating>>

NoRequest == [phase |-> "idle"]
Request   == [phase : {"reconciled"}, node : Node, key : Key, exp : Nat, at : Nat]

ClockReading == {t \in 0..now : now - t <= MaxLag}

Init == /\ now = 0
        /\ cmd = [c \in CmdId |-> NoRow]
        /\ creating = [w \in Worker |-> NoRequest]

Tick == /\ now < MaxTime
        /\ now' = now + 1
        /\ UNCHANGED <<cmd, creating>>

-----------------------------------------------------------------------------
(* Reconciliation: the pending rows of a hub or of a node, in one loop.    *)

OfHub(h)  == {c \in CmdId : Exists(cmd[c]) /\ HubOf[cmd[c].node] = h}
OfNode(n) == {c \in CmdId : Exists(cmd[c]) /\ cmd[c].node = n}

Reconciled(S, t) ==
    [c \in CmdId |-> IF c \in S /\ Pending(cmd[c])
                     THEN Reconcile(cmd[c], t) ELSE cmd[c]]

-----------------------------------------------------------------------------
(* CreateMotorCommand by the owner of node n.                              *)

(***************************************************************************)
(* Up to the end of the first transaction: the expiry is checked against a *)
(* first clock reading t0, a second reading t reconciles the node and is   *)
(* kept for the rate limit.                                                *)
(***************************************************************************)
CreateBegin(w, n, k, t0, t, ttl) ==
    /\ creating[w] = NoRequest
    /\ t0 <= t
    /\ t0 + ttl <= MaxTime
    /\ cmd' = Reconciled(OfNode(n), t)
    /\ creating' = [creating EXCEPT ![w] =
            [phase |-> "reconciled", node |-> n, key |-> k,
             exp |-> t0 + ttl, at |-> t]]
    /\ UNCHANGED now

Replayed(q) == \E c \in OfNode(q.node) : cmd[c].key = q.key

\* Mutant: the window excludes its first instant.
RecentCommandsStrict(q) ==
    {c \in OfNode(q.node) : cmd[c].created > q.at - RateWindow}

RecentCommands(q) ==
    {c \in OfNode(q.node) : cmd[c].created >= q.at - RateWindow}

WithinRateLimit(q) == Cardinality(RecentCommands(q)) < RateMax

\* Mutant: only undelivered commands block a node.
NodeBusyWhilePending(q) == \E c \in OfNode(q.node) : Pending(cmd[c])

NodeBusy(q) == \E c \in OfNode(q.node) : Active(cmd[c])

\* Mutant: the active command check is missing.
AdmittedIfNew(q) == ~Replayed(q) /\ WithinRateLimit(q)

Admitted(q) == ~Replayed(q) /\ WithinRateLimit(q) /\ ~NodeBusy(q)

(***************************************************************************)
(* The second transaction.  A replayed key answers with the command it     *)
(* names; a full rate window and a busy node are refused; otherwise the    *)
(* row is inserted with the time of the insert as created_at.              *)
(***************************************************************************)
CreateAnswered(w) ==
    /\ creating[w] # NoRequest
    /\ ~Admitted(creating[w])
    /\ creating' = [creating EXCEPT ![w] = NoRequest]
    /\ UNCHANGED <<now, cmd>>

CreateInsert(w, c) ==
    LET q == creating[w] IN
    /\ q # NoRequest
    /\ Admitted(q)
    /\ cmd[c] = NoRow
    /\ cmd' = [cmd EXCEPT ![c] = NewRow(q.node, q.key, q.exp, now)]
    /\ creating' = [creating EXCEPT ![w] = NoRequest]
    /\ UNCHANGED now

(* The caller goes away or the second transaction fails: it rolls back, the *)
(* first one stays committed.                                              *)
CreateAbort(w) ==
    /\ creating[w] # NoRequest
    /\ creating' = [creating EXCEPT ![w] = NoRequest]
    /\ UNCHANGED <<now, cmd>>

-----------------------------------------------------------------------------
(* PullPendingMotorCommands by hub h: reconcile, then lease the oldest     *)
(* queued commands, at most max of them, until t + d.                      *)

Offered(table, h, t) ==
    {c \in OfHub(h) : table[c].status = Queued /\ ~CommandExpired(table[c], t)}

\* Mutant: no ORDER BY created_at.
AnyOf(table, S, L, max) ==
    /\ L \subseteq S
    /\ Cardinality(L) = IF Cardinality(S) < max THEN Cardinality(S) ELSE max

OldestOf(table, S, L, max) ==
    /\ L \subseteq S
    /\ Cardinality(L) = IF Cardinality(S) < max THEN Cardinality(S) ELSE max
    /\ \A c \in L, d \in S \ L : table[c].created <= table[d].created

Pull(h, t, d, max) ==
    LET clean == Reconciled(OfHub(h), t) IN
    /\ \E L \in SUBSET OfHub(h) :
          /\ OldestOf(clean, Offered(clean, h, t), L, max)
          /\ cmd' = [c \in CmdId |-> IF c \in L THEN LeaseTo(clean[c], t + d)
                                                ELSE clean[c]]
    /\ UNCHANGED <<now, creating>>

-----------------------------------------------------------------------------
(* AckMotorCommandEvent by hub h for its command c.  The transaction first *)
(* reconciles the whole hub.  A refused acknowledgement rolls that back    *)
(* too and changes nothing, so it has no action.                           *)

AckRepeated(h, c, s, t) ==
    LET clean == Reconciled(OfHub(h), t) IN
    /\ c \in OfHub(h)
    /\ clean[c].status = s
    /\ cmd' = clean
    /\ UNCHANGED <<now, creating>>

AckApplied(h, c, s, t) ==
    LET clean == Reconciled(OfHub(h), t) IN
    /\ c \in OfHub(h)
    /\ AckAccepted(clean[c], s, t)
    /\ cmd' = [clean EXCEPT ![c] = Acked(clean[c], s)]
    /\ UNCHANGED <<now, creating>>

-----------------------------------------------------------------------------
(* GetMotorCommandStatus by the owner, when it finds the command overdue.  *)

GetStatus(c, t) ==
    /\ ShouldExpireOnAccess(cmd[c], t)
    /\ cmd' = [cmd EXCEPT ![c] = Expire(cmd[c])]
    /\ UNCHANGED <<now, creating>>

-----------------------------------------------------------------------------
Create(w) ==
    \/ \E n \in Node, k \in Key, t0, t \in ClockReading, ttl \in TTL :
          CreateBegin(w, n, k, t0, t, ttl)
    \/ CreateAnswered(w)
    \/ \E c \in CmdId : CreateInsert(w, c)
    \/ CreateAbort(w)

HubCall(h) ==
    \E t \in ClockReading :
       \/ \E d \in LeaseDuration, max \in 1..MaxPull : Pull(h, t, d, max)
       \/ \E c \in CmdId, s \in AckStatus :
             AckRepeated(h, c, s, t) \/ AckApplied(h, c, s, t)

Next == \/ Tick
        \/ \E w \in Worker : Create(w)
        \/ \E h \in Hub : HubCall(h)
        \/ \E c \in CmdId, t \in ClockReading : GetStatus(c, t)

Spec == Init /\ [][Next]_vars

(***************************************************************************)
(* Fairness: time passes, and a hub keeps polling; infinitely many of its  *)
(* polls are not delayed between their clock reading and their             *)
(* transaction.  Nothing is assumed of users, nor that a hub ever          *)
(* acknowledges.                                                           *)
(***************************************************************************)
PromptPull(h) == \E d \in LeaseDuration, max \in 1..MaxPull : Pull(h, now, d, max)

FairSpec == /\ Spec
            /\ WF_vars(Tick)
            /\ \A h \in Hub : WF_vars(PromptPull(h))

(***************************************************************************)
(* Hubs and users that do all they can: every acknowledgement the service  *)
(* would accept is eventually sent and every status eventually asked for.  *)
(***************************************************************************)
PromptAck(h, c, s) == AckApplied(h, c, s, now)

DiligentSpec == /\ FairSpec
                /\ \A c \in CmdId :
                      /\ WF_vars(GetStatus(c, now))
                      /\ \A h \in Hub, s \in AckStatus : WF_vars(PromptAck(h, c, s))
-----------------------------------------------------------------------------
(* Type invariant of the table and of the creates in flight.               *)
TypeOK == /\ now \in Nat
          /\ cmd \in [CmdId -> Row \cup {NoRow}]
          /\ creating \in [Worker -> Request \cup {NoRequest}]

(***************************************************************************)
(* A node has at most one command in a non-terminal status                 *)
(* (motor_command_models.go states it as the queue's intended invariant);  *)
(* nothing in the schema enforces it.                                      *)
(***************************************************************************)
OneActivePerNode ==
    \A n \in Node : \A c, d \in OfNode(n) :
        Active(cmd[c]) /\ Active(cmd[d]) => c = d

(***************************************************************************)
(* The lease and completion columns of every row agree with its status:    *)
(* AckMotorCommandEvent refuses a step without a lease, so a row that lost *)
(* it early could never progress, and a finished row that kept one would   *)
(* look delivered.                                                         *)
(***************************************************************************)
LeaseMatchesStatus ==
    \A c \in CmdId : Exists(cmd[c]) =>
        /\ (cmd[c].lease # NoLease) <=> (cmd[c].status \in {Leased, Sent, Executing})
        /\ cmd[c].completed <=> Terminal(cmd[c])

(***************************************************************************)
(* No window of RateWindow time units, wherever it starts, holds more than *)
(* RateMax commands of a node, although each create counts from a clock    *)
(* reading taken before its transaction.                                   *)
(***************************************************************************)
CreatedWithin(n, a, b) == {c \in OfNode(n) : cmd[c].created \in a..b}

RateLimitHolds ==
    \A n \in Node, a \in 0..now :
        Cardinality(CreatedWithin(n, a, a + RateWindow)) <= RateMax

(***************************************************************************)
(* A command handed to a hub stays with that delivery until the lease ran  *)
(* out: no second delivery and no return to the queue before, whatever     *)
(* clock readings the interleaved calls hold.                              *)
(***************************************************************************)
LeaseHonoured ==
    [][\A c \in CmdId :
          /\ cmd[c].status = Leased
          /\ cmd'[c] # cmd[c]
          /\ cmd'[c].status \in PendingStatus
          => cmd[c].lease <= now]_vars

(***************************************************************************)
(* A command that was finished, or whose delivery the hub confirmed, is    *)
(* never offered to a hub again, and a finished row never changes.  (A hub *)
(* whose confirmation is lost is offered the command again once its lease  *)
(* ran out.)                                                               *)
(***************************************************************************)
NeverRedelivered ==
    [][\A c \in CmdId :
          /\ Terminal(cmd[c]) => cmd'[c] = cmd[c]
          /\ cmd[c].status \in {Sent, Executing} => ~Pending(cmd'[c])]_vars

(***************************************************************************)
(* Delivery and execution are reported under a lease: a report that comes  *)
(* later than MaxLag after its lease ran out, when the command may already *)
(* wait for another delivery, changes nothing (control_service_test.go:    *)
(* "stale lease rejects non-terminal ack"), and a report never extends,    *)
(* replaces or ends the lease it was made under.                           *)
(***************************************************************************)
ReportsUnderLease ==
    [][\A c \in CmdId :
          /\ cmd'[c] # cmd[c]
          /\ cmd'[c].status \in {Sent, Executing}
          => /\ cmd[c].lease # NoLease /\ now < cmd[c].lease + MaxLag
             /\ cmd'[c].lease = cmd[c].lease]_vars

(***************************************************************************)
(* Reports of a hub take effect, and commands are handed out, only before  *)
(* the command's expiry: later than MaxLag after it, a command only        *)
(* expires.                                                                *)
(***************************************************************************)
NothingAfterExpiry ==
    [][\A c \in CmdId :
          /\ Exists(cmd[c])
          /\ cmd'[c] # cmd[c]
          /\ cmd'[c].status \notin {Queued, Expired}
          => now < cmd[c].exp + MaxLag]_vars

(***************************************************************************)
(* Pulls are first come first served: a command is not handed out while an *)
(* older one of the same hub stays in the queue.                           *)
(***************************************************************************)
OldestFirst ==
    [][\A c, d \in CmdId :
          /\ Exists(cmd[c]) /\ Exists(cmd[d])
          /\ HubOf[cmd[c].node] = HubOf[cmd[d].node]
          /\ cmd[c].created < cmd[d].created
          /\ cmd'[d] # cmd[d] /\ cmd'[d].status = Leased
          => cmd'[c].status # Queued]_vars

(***************************************************************************)
(* The queue implements the abstract node slots of MotorSlots: one command *)
(* enters a free node, is confirmed once and never returns.                *)
(***************************************************************************)
Slots == INSTANCE MotorSlots WITH
    occupant  <- [n \in Node |-> {c \in OfNode(n) : Active(cmd[c])}],
    confirmed <- {c \in CmdId : cmd[c].status \in {Sent, Executing}},
    retired   <- {c \in CmdId : Terminal(cmd[c])}

ImplementsSlots == Slots!SlotSpec

(***************************************************************************)
(* While its hub polls, a command does not stay queued or leased for ever: *)
(* it is confirmed by the hub or expires, so it cannot block its node.     *)
(***************************************************************************)
PendingResolves ==
    \A c \in CmdId : Pending(cmd[c]) ~> ~Pending(cmd[c])

(***************************************************************************)
(* The same for a command whose delivery was confirmed: once it is past    *)
(* its expiry it ends up expired, as the transition table of               *)
(* validateAckTransition provides (sent_to_probe and executing may expire).*)
(***************************************************************************)
DeliveredResolves ==
    \A c \in CmdId :
        (cmd[c].status \in {Sent, Executing} /\ CommandExpired(cmd[c], now))
            ~> Terminal(cmd[c])
=============================================================================
