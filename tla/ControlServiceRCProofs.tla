----------------------- MODULE ControlServiceRCProofs -----------------------
(***************************************************************************)
(* What the motor command queue keeps when transactions overlap, for any   *)
(* number of sessions, connections, nodes and commands: the columns of a   *)
(* row agree, creates of one node do not invalidate each other's checks,   *)
(* the rate limit holds, a key is used once, and commands keep what they   *)
(* were created with.                                                      *)
(* ControlServiceRCSerialProofs has what needs one connection.             *)
(*                                                                         *)
(* The invariant is about the rows a session is going to save.  They may   *)
(* be out of date, but each is a consistent row of a command that exists,  *)
(* with the identity that command will always have; and two sessions that  *)
(* hold the locks of a create are creates for different hubs.              *)
(***************************************************************************)
EXTENDS ControlServiceRC, FiniteSetTheorems, TLAPS

(* The columns of a row agree with each other.                             *)
Coherent(r) ==
    /\ (r.lease # NoLease) <=> (r.status \in {Leased, Sent, Executing})
    /\ r.completed <=> Terminal(r)

(* The columns no handler changes after the insert.                        *)
SameCommand(r, s) == /\ r.node = s.node /\ r.key = s.key
                     /\ r.created = s.created /\ r.exp = s.exp

(* A save of command c that is under way.                                  *)
GoodWrite(c, x) ==
    /\ x \in Writes
    /\ cmd[c] \in Row /\ SameCommand(cmd[c], x.row)
    /\ Coherent(x.row)

GoodWrites(f) ==
    /\ f = [c \in DOMAIN f |-> f[c]]
    /\ DOMAIN f \subseteq CmdId
    /\ \A c \in DOMAIN f : GoodWrite(c, f[c])

GoodCall(call) == call \in Calls /\ (call.op = "pull" => call.until # NoLease)

Stages == {"idle", "reconcile", "between", "insert", "commit"}

GoodSession(s) ==
    /\ s = [field \in {"pc", "call", "todo", "buf"} |-> s[field]]
    /\ s.pc \in Stages
    /\ GoodCall(s.call) /\ GoodWrites(s.todo) /\ GoodWrites(s.buf)

GoodTable ==
    /\ cmd \in [CmdId -> Row \cup {NoRow}]
    /\ \A c \in CmdId : cmd[c] \in Row => Coherent(cmd[c])
    /\ audit \in [CmdId -> [last : Status \cup {"none"}, chained : BOOLEAN]]
    /\ \A c \in CmdId : audit[c].last = cmd[c].status

IInv == /\ now \in Nat
        /\ GoodTable
        /\ session = [w \in Worker |-> session[w]]
        /\ \A w \in Worker : GoodSession(session[w])

USE DEF NoLease

-----------------------------------------------------------------------------
(* The row operators.                                                      *)

LEMMA RowOrNoRow ==
    ASSUME NEW r \in Row \cup {NoRow}
    PROVE  /\ Exists(r) <=> r \in Row
           /\ r.status \in Status <=> r \in Row
           /\ Pending(r) => r \in Row
           /\ r.status \in Status \cup {"none"}
BY DEF Row, NoRow, Exists, Pending, Status, ActiveStatus, TerminalStatus, PendingStatus,
       Queued, Leased, Sent, Executing, Succeeded, Failed, Expired, Cancelled

LEMMA ExpiredRow ==
    ASSUME NEW r \in Row, Coherent(r)
    PROVE  Expire(r) \in Row /\ Coherent(Expire(r)) /\ SameCommand(r, Expire(r))
BY DEF Coherent, SameCommand, Expire, Row, Terminal, Status, ActiveStatus,
       TerminalStatus, Queued, Leased, Sent, Executing, Succeeded, Failed, Expired, Cancelled

LEMMA ReconciledRow ==
    ASSUME NEW r \in Row, Coherent(r), Pending(r), NEW t \in Nat
    PROVE  LET s == Reconcile(r, t) IN s \in Row /\ Coherent(s) /\ SameCommand(r, s)
<1>1. CASE CommandExpired(r, t)
  BY <1>1, ExpiredRow DEF Reconcile
<1>2. CASE ~CommandExpired(r, t) /\ LeaseExpired(r, t)
  <2>1. Reconcile(r, t) = Requeue(r)
    BY <1>2 DEF Reconcile
  <2>2. Requeue(r) \in Row /\ Coherent(Requeue(r)) /\ SameCommand(r, Requeue(r))
    BY <1>2 DEF Requeue, LeaseExpired, Coherent, SameCommand, Row, Terminal, Status,
       ActiveStatus, TerminalStatus, Queued, Leased, Sent, Executing, Succeeded, Failed,
       Expired, Cancelled
  <2> QED  BY <2>1, <2>2
<1>3. CASE ~CommandExpired(r, t) /\ ~LeaseExpired(r, t)
  BY <1>3 DEF Reconcile, SameCommand
<1> QED  BY <1>1, <1>2, <1>3

LEMMA LeasedRow ==
    ASSUME NEW r \in Row, Coherent(r), r.status = Queued, NEW u \in Nat \ {0}
    PROVE  LET s == LeaseTo(r, u) IN s \in Row /\ Coherent(s) /\ SameCommand(r, s)
BY DEF LeaseTo, Coherent, SameCommand, Row, Terminal, Status, ActiveStatus,
       TerminalStatus, Queued, Leased, Sent, Executing, Succeeded, Failed, Expired, Cancelled

LEMMA AckedRow ==
    ASSUME NEW r \in Row \cup {NoRow}, r \in Row => Coherent(r), NEW a \in AckStatus,
           NEW t \in Nat, AckAccepted(r, a, t)
    PROVE  r \in Row /\ LET s == Acked(r, a)
                        IN  s \in Row /\ Coherent(s) /\ SameCommand(r, s)
<1>1. r.status \in {Leased, Sent, Executing} /\ <<r.status, a>> \in AckTransition
  BY DEF AckAccepted, AckTransition
<1>2. r \in Row
  BY <1>1, RowOrNoRow DEF Status, ActiveStatus
<1> QED
  BY <1>1, <1>2 DEF AckStatus, Acked, Coherent, SameCommand, Row, Terminal, Status,
     ActiveStatus, TerminalStatus, Queued, Leased, Sent, Executing, Succeeded, Failed,
     Expired, Cancelled

LEMMA InsertedRow ==
    ASSUME NEW n \in Node, NEW k \in Key, NEW e \in Nat, NEW t \in Nat
    PROVE  /\ NewRow(n, k, e, t) \in Row /\ Coherent(NewRow(n, k, e, t))
           /\ NewRow(n, k, e, t).status = Queued
           /\ NewRow(n, k, e, t).node = n /\ NewRow(n, k, e, t).key = k
           /\ NewRow(n, k, e, t).created = t
BY DEF NewRow, Coherent, Row, Terminal, Status, ActiveStatus,
       TerminalStatus, Queued, Leased, Sent, Executing, Succeeded, Failed, Expired, Cancelled
-----------------------------------------------------------------------------
(* What a session reads.                                                   *)

LEMMA ViewRow ==
    ASSUME IInv, NEW w \in Worker, NEW c \in CmdId
    PROVE  /\ View(w)[c] \in Row \cup {NoRow}
           /\ View(w)[c] \in Row <=> cmd[c] \in Row
           /\ View(w)[c] \in Row => Coherent(View(w)[c]) /\ SameCommand(cmd[c], View(w)[c])
<1>1. CASE c \in DOMAIN session[w].buf
  <2>1. View(w)[c] = session[w].buf[c].row /\ GoodWrite(c, session[w].buf[c])
    BY <1>1 DEF View, IInv, GoodSession, GoodWrites
  <2> QED  BY <2>1 DEF GoodWrite, Writes
<1>2. CASE c \notin DOMAIN session[w].buf
  BY <1>2 DEF View, IInv, GoodTable, SameCommand
<1> QED  BY <1>1, <1>2

LEMMA ReadingTyped == ASSUME IInv, NEW t \in ClockReading PROVE t \in Nat /\ t <= now
BY DEF IInv, ClockReading

(* A write computed from a row that was read.                              *)
LEMMA WriteGood ==
    ASSUME IInv, NEW c \in CmdId, NEW read \in Row, NEW row \in Row,
           cmd[c] \in Row, SameCommand(cmd[c], read), SameCommand(read, row), Coherent(row)
    PROVE  GoodWrite(c, Write(read, row))
BY DEF GoodWrite, Write, Writes, SameCommand, Row

LEMMA ReconcileWritesGood ==
    ASSUME IInv, NEW S \in SUBSET CmdId, NEW t \in Nat
    PROVE  GoodWrites(ReconcileWrites(S, t))
<1> DEFINE stale == {c \in S : Pending(cmd[c]) /\ Reconcile(cmd[c], t) # cmd[c]}
<1>1. ReconcileWrites(S, t) = [c \in stale |-> Write(cmd[c], Reconcile(cmd[c], t))]
  BY DEF ReconcileWrites
<1>2. ASSUME NEW c \in stale PROVE GoodWrite(c, Write(cmd[c], Reconcile(cmd[c], t)))
  <2>1. c \in CmdId /\ cmd[c] \in Row /\ Pending(cmd[c]) /\ Coherent(cmd[c])
    BY RowOrNoRow DEF IInv, GoodTable
  <2> QED  BY <2>1, ReconciledRow, WriteGood DEF SameCommand
<1> HIDE DEF stale
<1>3. stale \subseteq CmdId
  BY DEF stale
<1> QED  BY <1>1, <1>2, <1>3 DEF GoodWrites

-----------------------------------------------------------------------------
(* The steps of a session.  Each changes its own session only; the table   *)
(* changes at a commit and at an insert.                                   *)

(* A row keeps its identity.                                               *)
SameRow(c) == /\ cmd[c] \in Row <=> cmd'[c] \in Row
              /\ cmd[c] \in Row => SameCommand(cmd[c], cmd'[c])

CommandsStay == \A c \in CmdId : SameRow(c)

(* No session but that of w changes.                                       *)
OnlySession(w) ==
    /\ session' = [v \in Worker |-> session'[v]]
    /\ \A v \in Worker \ {w} : session'[v] = session[v]

(* A step that leaves the table alone and gives w a good session.          *)
LEMMA QuietStep ==
    ASSUME IInv, NEW w \in Worker, OnlySession(w), GoodSession(session'[w]),
           UNCHANGED <<now, cmd, audit>>
    PROVE  IInv'
<1>1. CommandsStay
  BY DEF CommandsStay, SameRow, SameCommand
<1>2. session' = [v \in Worker |-> session'[v]]
  BY DEF OnlySession
<1>3. \A v \in Worker : GoodSession(session'[v])
  BY DEF OnlySession, IInv
<1>4. \A v \in Worker : GoodSession(session[v])'
  BY <1>3 DEF GoodSession, GoodWrites, GoodWrite, GoodCall
<1>5. now' \in Nat /\ GoodTable'
  BY DEF IInv, GoodTable
<1> QED  BY <1>2, <1>4, <1>5 DEF IInv

(* A commit: every row it writes is a row of the same command.             *)
LEMMA FlushStep ==
    ASSUME IInv, NEW w \in Worker, OnlySession(w), GoodSession(session'[w]),
           Flush(w), UNCHANGED now
    PROVE  IInv' /\ CommandsStay
<1> DEFINE buf == session[w].buf
<1>1. cmd' \in [CmdId -> Row \cup {NoRow}] /\ \A c \in CmdId : cmd'[c] = View(w)[c]
  BY ViewRow DEF Flush, View
<1>2. CommandsStay
  BY <1>1, ViewRow DEF CommandsStay, SameRow
<1>3. \A c \in CmdId : cmd'[c] \in Row => Coherent(cmd'[c])
  BY <1>1, ViewRow
<1>4. ASSUME NEW c \in CmdId
      PROVE  /\ audit'[c] \in [last : Status \cup {"none"}, chained : BOOLEAN]
             /\ audit'[c].last = cmd'[c].status
  <2>1. CASE c \in DOMAIN buf
    <3>1. buf[c] \in Writes
      BY <2>1 DEF IInv, GoodSession, GoodWrites, GoodWrite
    <3>2. audit'[c] = Append(audit[c], buf[c].from, buf[c].row.status)
      BY <2>1 DEF Flush
    <3>3. cmd'[c] = buf[c].row
      BY <1>1, <2>1 DEF View
    <3> QED  BY <3>1, <3>2, <3>3 DEF Append, Writes, Row
  <2>2. CASE c \notin DOMAIN buf
    <3>1. audit'[c] = audit[c] /\ cmd'[c] = cmd[c]
      BY <1>1, <2>2 DEF Flush, View
    <3> QED  BY <3>1 DEF IInv, GoodTable
  <2> QED  BY <2>1, <2>2
<1>5. audit' = [c \in CmdId |-> audit'[c]]
  BY DEF Flush
<1>6. GoodTable'
  BY <1>1, <1>3, <1>4, <1>5 DEF GoodTable, Coherent
<1>7. session' = [v \in Worker |-> session'[v]]
  BY DEF OnlySession
<1>8. \A v \in Worker : GoodSession(session'[v])
  BY DEF OnlySession, IInv
<1>9. ASSUME NEW v \in Worker PROVE GoodSession(session[v])'
  <2>1. ASSUME NEW c \in CmdId, NEW x, GoodWrite(c, x)
        PROVE  x \in Writes /\ cmd'[c] \in Row /\ SameCommand(cmd'[c], x.row) /\ Coherent(x.row)
    BY <1>2, <2>1 DEF GoodWrite, CommandsStay, SameRow, SameCommand
  <2> QED  BY <1>8, <2>1 DEF GoodSession, GoodWrites, GoodWrite, GoodCall
<1> QED  BY <1>2, <1>6, <1>7, <1>9 DEF IInv

-----------------------------------------------------------------------------
(* The steps one by one.                                                   *)

LEMMA NoWritesGood == GoodWrites(NoWrites)
BY DEF GoodWrites, NoWrites

LEMMA IdleGood == GoodSession(Idle)
BY NoWritesGood DEF GoodSession, Idle, GoodCall, NoCall, Calls, Stages

LEMMA OneUpdate ==
    ASSUME IInv, NEW w \in Worker, NEW s, session' = [session EXCEPT ![w] = s]
    PROVE  OnlySession(w) /\ session'[w] = s
BY DEF IInv, OnlySession

LEMMA BeginStep ==
    ASSUME IInv, NEW w \in Worker, NEW call, NEW pc \in Stages, NEW writes,
           GoodCall(call), GoodWrites(writes), Begin(w, call, pc, writes)
    PROVE  IInv'
<1> DEFINE s == [pc |-> pc, call |-> call, todo |-> writes, buf |-> NoWrites]
<1>1. GoodSession(s)
  BY NoWritesGood DEF GoodSession
<1>2. session' = [session EXCEPT ![w] = s] /\ UNCHANGED <<now, cmd, audit>>
  BY DEF Begin
<1> HIDE DEF s
<1> QED  BY <1>1, <1>2, QuietStep, OneUpdate

LEMMA OfHubCommands == \A table, h : OfHub(table, h) \in SUBSET CmdId
BY DEF OfHub

LEMMA OfNodeCommands == \A table, n : OfNode(table, n) \in SUBSET CmdId
BY DEF OfNode

LEMMA CallStep == ASSUME IInv, NEW w \in Worker, Call(w) PROVE IInv'
<1> PICK t \in ClockReading :
       \/ \E n \in Node, k \in Key, t0 \in ClockReading, ttl \in TTL :
             CreateBegin(w, n, k, t0, t, ttl)
       \/ \E h \in Hub, d \in LeaseDuration, max \in 1..MaxPull : PullBegin(w, h, t, d, max)
       \/ \E h \in Hub, c \in CmdId, s \in AckStatus : AckBegin(w, h, c, s, t)
       \/ \E c \in CmdId : GetStatus(w, c, t)
  BY DEF Call
<1>0. t \in Nat /\ "reconcile" \in Stages /\ "commit" \in Stages
  BY ReadingTyped DEF Stages
<1>1. ASSUME NEW n \in Node, NEW k \in Key, NEW t0 \in ClockReading, NEW ttl \in TTL,
             CreateBegin(w, n, k, t0, t, ttl)
      PROVE  IInv'
  <2> DEFINE call == [op |-> "create", node |-> n, key |-> k, exp |-> t0 + ttl, at |-> t]
  <2>1. t0 + ttl \in Nat
    BY ReadingTyped, RCAssumption
  <2>2. GoodCall(call)
    BY <1>0, <2>1 DEF GoodCall, Calls
  <2>3. GoodWrites(ReconcileWrites(OfNode(cmd, n), t))
    BY <1>0, OfNodeCommands, ReconcileWritesGood
  <2> QED  BY <1>0, <1>1, <2>2, <2>3, BeginStep DEF CreateBegin
<1>2. ASSUME NEW h \in Hub, NEW d \in LeaseDuration, NEW max \in 1..MaxPull,
             PullBegin(w, h, t, d, max)
      PROVE  IInv'
  <2> DEFINE call == [op |-> "pull", hub |-> h, at |-> t, until |-> t + d, max |-> max]
  <2>1. t + d \in Nat /\ t + d # 0 /\ max \in Nat
    BY <1>0, RCAssumption
  <2>2. GoodCall(call)
    BY <1>0, <2>1 DEF GoodCall, Calls
  <2>3. GoodWrites(ReconcileWrites(OfHub(cmd, h), t))
    BY <1>0, OfHubCommands, ReconcileWritesGood
  <2> QED  BY <1>0, <1>2, <2>2, <2>3, BeginStep DEF PullBegin
<1>3. ASSUME NEW h \in Hub, NEW c \in CmdId, NEW a \in AckStatus, AckBegin(w, h, c, a, t)
      PROVE  IInv'
  <2> DEFINE call == [op |-> "ack", cmd |-> c, status |-> a, at |-> t]
  <2>1. GoodCall(call)
    BY <1>0 DEF GoodCall, Calls
  <2>2. GoodWrites(ReconcileWrites(OfHub(cmd, h), t))
    BY <1>0, OfHubCommands, ReconcileWritesGood
  <2> QED  BY <1>0, <1>3, <2>1, <2>2, BeginStep DEF AckBegin
<1>4. ASSUME NEW c \in CmdId, GetStatus(w, c, t) PROVE IInv'
  <2>1. cmd[c] \in Row /\ Coherent(cmd[c])
    BY <1>4, RowOrNoRow DEF GetStatus, ShouldExpireOnAccess, IInv, GoodTable
  <2>2. GoodWrite(c, Write(cmd[c], Expire(cmd[c])))
    BY <2>1, ExpiredRow, WriteGood DEF SameCommand
  <2> DEFINE x == Write(cmd[c], Expire(cmd[c]))
  <2> HIDE DEF x
  <2>3. GoodWrites([e \in {c} |-> x])
    BY <2>2 DEF GoodWrites, x
  <2>4. GoodCall(NoCall)
    BY DEF GoodCall, NoCall, Calls
  <2> QED  BY <1>0, <1>4, <2>3, <2>4, BeginStep DEF GetStatus, x
<1> QED  BY <1>1, <1>2, <1>3, <1>4

LEMMA SessionParts ==
    ASSUME IInv, NEW w \in Worker
    PROVE  /\ session[w].pc \in Stages /\ GoodCall(session[w].call)
           /\ GoodWrites(session[w].todo) /\ GoodWrites(session[w].buf)
BY DEF IInv, GoodSession

LEMMA SessionShape ==
    ASSUME IInv, NEW w \in Worker
    PROVE  /\ session = [v \in Worker |-> session[v]]
           /\ session[w] = [field \in {"pc", "call", "todo", "buf"} |-> session[w][field]]
BY DEF IInv, GoodSession

(* What a save does to its session: one row moves from todo to buf.        *)
LEMMA SaveShape ==
    ASSUME IInv, NEW w \in Worker, Save(w)
    PROVE  LET s == session[w]
               r == session'[w]
           IN  /\ OnlySession(w) /\ UNCHANGED <<now, cmd, audit>>
               /\ r = [field \in {"pc", "call", "todo", "buf"} |-> r[field]]
               /\ r.pc = s.pc /\ r.call = s.call
               /\ \E c \in DOMAIN s.todo :
                     /\ r.todo = [d \in DOMAIN s.todo \ {c} |-> s.todo[d]]
                     /\ r.buf = [d \in DOMAIN s.buf \cup {c} |->
                           IF d # c THEN s.buf[d]
                           ELSE [from |-> IF c \in DOMAIN s.buf THEN s.buf[c].from
                                                                ELSE s.todo[c].from,
                                 row  |-> s.todo[c].row]]
<1> DEFINE s == session[w]
           r == session'[w]
<1>0. PICK c \in DOMAIN s.todo :
       /\ session' = [session EXCEPT
             ![w].todo = [d \in DOMAIN s.todo \ {c} |-> s.todo[d]],
             ![w].buf = [d \in DOMAIN s.buf \cup {c} |->
                 IF d # c THEN s.buf[d]
                 ELSE [from |-> IF c \in DOMAIN s.buf THEN s.buf[c].from
                                                      ELSE s.todo[c].from,
                       row  |-> s.todo[c].row]]]
       /\ UNCHANGED <<now, cmd, audit>>
  BY DEF Save
<1> DEFINE todo == [d \in DOMAIN s.todo \ {c} |-> s.todo[d]]
           buf == [d \in DOMAIN s.buf \cup {c} |->
                     IF d # c THEN s.buf[d]
                     ELSE [from |-> IF c \in DOMAIN s.buf THEN s.buf[c].from
                                                          ELSE s.todo[c].from,
                           row  |-> s.todo[c].row]]
<1> HIDE DEF todo, buf
<1>1. session' = [session EXCEPT ![w].todo = todo, ![w].buf = buf]
  BY <1>0 DEF todo, buf
<1>2. OnlySession(w)
  BY <1>1, SessionShape DEF OnlySession
<1>3. r = [s EXCEPT !.todo = todo, !.buf = buf]
  BY <1>1, SessionShape
<1>4. /\ r = [field \in {"pc", "call", "todo", "buf"} |-> r[field]]
      /\ r.pc = s.pc /\ r.call = s.call /\ r.todo = todo /\ r.buf = buf
  BY <1>3, SessionShape
<1> QED  BY <1>0, <1>2, <1>4 DEF todo, buf

LEMMA SaveStep == ASSUME IInv, NEW w \in Worker, Save(w) PROVE IInv'
<1> DEFINE s == session[w]
           r == session'[w]
<1>1. PICK c \in DOMAIN s.todo :
         /\ r.todo = [d \in DOMAIN s.todo \ {c} |-> s.todo[d]]
         /\ r.buf = [d \in DOMAIN s.buf \cup {c} |->
               IF d # c THEN s.buf[d]
               ELSE [from |-> IF c \in DOMAIN s.buf THEN s.buf[c].from ELSE s.todo[c].from,
                     row  |-> s.todo[c].row]]
  BY SaveShape
<1> DEFINE x == [from |-> IF c \in DOMAIN s.buf THEN s.buf[c].from ELSE s.todo[c].from,
                 row  |-> s.todo[c].row]
<1>2. /\ GoodWrites(s.todo) /\ GoodWrites(s.buf) /\ c \in CmdId
      /\ s.pc \in Stages /\ GoodCall(s.call)
  BY SessionParts DEF GoodWrites
<1>3. GoodWrite(c, x)
  BY <1>2 DEF GoodWrites, GoodWrite, Writes
<1>4. GoodWrites(r.todo)
  BY <1>1, <1>2 DEF GoodWrites
<1>5. GoodWrites(r.buf)
  <2>1. r.buf = [d \in DOMAIN s.buf \cup {c} |-> IF d # c THEN s.buf[d] ELSE x]
    BY <1>1
  <2> HIDE DEF x, r
  <2> QED  BY <1>2, <1>3, <2>1 DEF GoodWrites
<1>6. GoodSession(r)
  BY <1>2, <1>4, <1>5, SaveShape DEF GoodSession
<1> QED  BY <1>6, SaveShape, QuietStep

(* What the last statement of a transaction does to its session.           *)
LEMMA FinalShape ==
    ASSUME IInv, NEW w \in Worker, NEW writes, Finally(w, writes)
    PROVE  /\ OnlySession(w)
           /\ session'[w] = [field \in {"pc", "call", "todo", "buf"} |-> session'[w][field]]
           /\ session'[w].pc = "commit" /\ session'[w].call = NoCall
           /\ session'[w].todo = writes /\ session'[w].buf = session[w].buf
<1>1. session' = [session EXCEPT ![w].pc = "commit", ![w].call = NoCall, ![w].todo = writes]
  BY DEF Finally
<1>2. OnlySession(w)
  BY <1>1, SessionShape DEF OnlySession
<1>3. session'[w] = [session[w] EXCEPT !.pc = "commit", !.call = NoCall, !.todo = writes]
  BY <1>1, SessionShape
<1> QED  BY <1>2, <1>3, SessionShape

(* The last statement of a transaction that saves these rows.              *)
LEMMA FinalStep ==
    ASSUME IInv, NEW w \in Worker, NEW writes, GoodWrites(writes), Finally(w, writes)
    PROVE  IInv'
<1> DEFINE r == session'[w]
<1>1. /\ r = [field \in {"pc", "call", "todo", "buf"} |-> r[field]]
      /\ r.pc = "commit" /\ r.call = NoCall /\ r.todo = writes /\ r.buf = session[w].buf
      /\ OnlySession(w)
  BY FinalShape
<1>2. GoodSession(r)
  BY <1>1, SessionParts DEF GoodSession, GoodCall, NoCall, Calls, Stages
<1> QED  BY <1>1, <1>2, QuietStep DEF Finally

LEMMA PullLeaseStep == ASSUME IInv, NEW w \in Worker, PullLease(w) PROVE IInv'
<1> DEFINE call    == session[w].call
           table   == View(w)
           offered == {c \in OfHub(table, call.hub) :
                         table[c].status = Queued /\ ~CommandExpired(table[c], call.at)}
<1> PICK L \in SUBSET offered :
       Finally(w, [c \in L |-> Write(table[c], LeaseTo(table[c], call.until))])
  BY DEF PullLease
<1>1. call.until \in Nat \ {0}
  <2>1. call \in Calls /\ call.op = "pull" /\ call.until # 0
    BY SessionParts DEF PullLease, At, GoodCall
  <2> QED  BY <2>1 DEF Calls
<1>2. ASSUME NEW c \in L
      PROVE  c \in CmdId /\ GoodWrite(c, Write(table[c], LeaseTo(table[c], call.until)))
  <2>1. c \in CmdId /\ table[c].status = Queued
    BY DEF OfHub
  <2>2. table[c] \in Row
    BY <2>1, ViewRow, RowOrNoRow DEF Status, ActiveStatus
  <2>3. cmd[c] \in Row /\ Coherent(table[c]) /\ SameCommand(cmd[c], table[c])
    BY <2>1, <2>2, ViewRow
  <2> QED  BY <1>1, <2>1, <2>2, <2>3, LeasedRow, WriteGood
<1> DEFINE f == [c \in L |-> Write(table[c], LeaseTo(table[c], call.until))]
<1>3. GoodWrites(f)
  BY <1>2 DEF GoodWrites
<1> HIDE DEF f
<1>4. Finally(w, f)
  BY DEF f
<1> QED  BY <1>3, <1>4, FinalStep

LEMMA AckStep ==
    ASSUME IInv, NEW w \in Worker, AckRepeated(w) \/ AckApplied(w)
    PROVE  IInv'
<1>1. CASE AckRepeated(w)
  BY <1>1, NoWritesGood, FinalStep DEF AckRepeated
<1>2. CASE AckApplied(w)
  <2> DEFINE call == session[w].call
             row  == View(w)[call.cmd]
             x    == Write(row, Acked(row, call.status))
             f    == [c \in {call.cmd} |-> x]
  <2>1. call.cmd \in CmdId /\ call.status \in AckStatus /\ call.at \in Nat
    <3>1. call \in Calls /\ call.op = "ack"
      BY <1>2, SessionParts DEF AckApplied, At, GoodCall
    <3> QED  BY <3>1 DEF Calls
  <2>2. /\ row \in Row /\ Acked(row, call.status) \in Row
        /\ Coherent(Acked(row, call.status))
        /\ SameCommand(row, Acked(row, call.status))
    BY <1>2, <2>1, ViewRow, AckedRow DEF AckApplied
  <2>3. GoodWrite(call.cmd, x)
    BY <2>1, <2>2, ViewRow, WriteGood
  <2> HIDE DEF x
  <2>4. GoodWrites(f)
    BY <2>1, <2>3 DEF GoodWrites
  <2>5. Finally(w, f)
    BY <1>2 DEF AckApplied, x
  <2> QED  BY <2>4, <2>5, FinalStep
<1> QED  BY <1>1, <1>2

LEMMA CommitStep ==
    ASSUME IInv, NEW w \in Worker, Commit(w) \/ CreateReconciled(w)
    PROVE  IInv' /\ CommandsStay
<1>1. CASE Commit(w)
  BY <1>1, IdleGood, OneUpdate, FlushStep DEF Commit
<1>2. CASE CreateReconciled(w)
  <2> DEFINE r == session'[w]
  <2>0. session' = [session EXCEPT ![w].pc = "between", ![w].buf = NoWrites]
    BY <1>2 DEF CreateReconciled
  <2>1. /\ r = [field \in {"pc", "call", "todo", "buf"} |-> r[field]]
        /\ r.pc = "between" /\ r.call = session[w].call
        /\ r.todo = session[w].todo /\ r.buf = NoWrites
        /\ OnlySession(w)
    <3>1. OnlySession(w)
      BY <2>0, SessionShape DEF OnlySession
    <3>2. r = [session[w] EXCEPT !.pc = "between", !.buf = NoWrites]
      BY <2>0, SessionShape
    <3> QED  BY <3>1, <3>2, SessionShape
  <2>2. GoodSession(r)
    BY <2>1, SessionParts, NoWritesGood DEF GoodSession, Stages
  <2> QED  BY <1>2, <2>1, <2>2, FlushStep DEF CreateReconciled
<1> QED  BY <1>1, <1>2

LEMMA CheckStep == ASSUME IInv, NEW w \in Worker, CreateCheck(w) PROVE IInv'
<1> DEFINE r == session'[w]
<1>1. /\ r = [field \in {"pc", "call", "todo", "buf"} |-> r[field]]
      /\ r.pc = "insert" /\ r.call = session[w].call
      /\ r.todo = session[w].todo /\ r.buf = session[w].buf
      /\ OnlySession(w)
  BY SessionShape DEF CreateCheck, OnlySession
<1>2. GoodSession(r)
  BY <1>1, SessionParts DEF GoodSession, Stages
<1> QED  BY <1>1, <1>2, QuietStep DEF CreateCheck

LEMMA RollbackStep == ASSUME IInv, NEW w \in Worker, Rollback(w) PROVE IInv'
BY IdleGood, OneUpdate, QuietStep DEF Rollback

LEMMA InsertStep ==
    ASSUME IInv, NEW w \in Worker, NEW c \in CmdId, CreateInsert(w, c)
    PROVE  /\ IInv'
           /\ cmd[c] \notin Row /\ cmd'[c] \in Row
           /\ cmd'[c].node = session[w].call.node /\ cmd'[c].key = session[w].call.key
           /\ cmd'[c].created = now
           /\ \A d \in CmdId \ {c} : cmd'[d] = cmd[d]
<1> DEFINE q == session[w].call
           r == NewRow(q.node, q.key, q.exp, now)
<1>1. q \in Calls /\ q.op = "create"
  BY SessionParts DEF CreateInsert, At, GoodCall
<1>2. q.node \in Node /\ q.key \in Key /\ q.exp \in Nat /\ now \in Nat
  BY <1>1 DEF Calls, IInv
<1>3. /\ r \in Row /\ Coherent(r) /\ r.status = Queued
      /\ r.node = q.node /\ r.key = q.key /\ r.created = now
  BY <1>2, InsertedRow
<1> HIDE DEF r
<1>4. /\ cmd[c] = NoRow /\ cmd' = [cmd EXCEPT ![c] = r]
      /\ audit' = [audit EXCEPT ![c] = Append(@, "none", Queued)]
      /\ now' = now
      /\ session' = [session EXCEPT ![w] = Idle]
  BY DEF CreateInsert, r
<1>5. /\ cmd'[c] = r /\ \A d \in CmdId \ {c} : cmd'[d] = cmd[d]
      /\ cmd' = [d \in CmdId |-> cmd'[d]]
  BY <1>4 DEF IInv, GoodTable
<1>6. NoRow \notin Row
  BY DEF NoRow, Row, Status, ActiveStatus, TerminalStatus, Queued, Leased, Sent,
     Executing, Succeeded, Failed, Expired, Cancelled
<1>7. GoodTable'
  <2>1. ASSUME NEW d \in CmdId
        PROVE  /\ audit'[d] \in [last : Status \cup {"none"}, chained : BOOLEAN]
               /\ audit'[d].last = cmd'[d].status
    <3>1. CASE d = c
      <4>1. audit'[d] = Append(audit[d], "none", Queued) /\ audit[d].chained \in BOOLEAN
        BY <1>4, <3>1 DEF IInv, GoodTable
      <4> QED  BY <1>3, <1>5, <3>1, <4>1 DEF Append, Row
    <3>2. CASE d # c
      BY <1>4, <1>5, <3>2 DEF IInv, GoodTable
    <3> QED  BY <3>1, <3>2
  <2>2. audit' = [d \in CmdId |-> audit'[d]]
    BY <1>4 DEF IInv, GoodTable
  <2>3. /\ cmd' \in [CmdId -> Row \cup {NoRow}]
        /\ \A d \in CmdId : cmd'[d] \in Row => Coherent(cmd'[d])
    BY <1>3, <1>5 DEF IInv, GoodTable
  <2> QED  BY <2>1, <2>2, <2>3 DEF GoodTable, Coherent
<1>8. OnlySession(w) /\ GoodSession(session'[w])
  BY <1>4, OneUpdate, IdleGood
<1>9. ASSUME NEW v \in Worker PROVE GoodSession(session[v])'
  <2>1. ASSUME NEW d \in CmdId, NEW x, GoodWrite(d, x)
        PROVE  x \in Writes /\ cmd'[d] \in Row /\ SameCommand(cmd'[d], x.row) /\ Coherent(x.row)
    BY <1>4, <1>5, <1>6, <2>1 DEF GoodWrite
  <2>2. GoodSession(session'[v])
    BY <1>8 DEF OnlySession, IInv
  <2> QED  BY <2>1, <2>2 DEF GoodSession, GoodWrites, GoodWrite, GoodCall
<1> QED  BY <1>2, <1>3, <1>4, <1>5, <1>6, <1>7, <1>8, <1>9 DEF IInv, OnlySession

(* An insert apart, a step keeps the identity of every row.                *)
LEMMA IInvStep ==
    ASSUME IInv, [Next]_vars
    PROVE  /\ IInv'
           /\ CommandsStay \/ \E w \in Worker, c \in CmdId : CreateInsert(w, c)
<1>1. CASE UNCHANGED <<cmd, audit, session>> /\ now' \in Nat
  <2>1. IInv'
    BY <1>1 DEF IInv, GoodTable, GoodSession, GoodWrites, GoodWrite, GoodCall
  <2>2. CommandsStay
    BY <1>1 DEF CommandsStay, SameRow, SameCommand
  <2> QED  BY <2>1, <2>2
<1>2. ASSUME NEW w \in Worker, Call(w) PROVE IInv' /\ CommandsStay
  <2>1. cmd' = cmd
    BY <1>2 DEF Call, CreateBegin, PullBegin, AckBegin, GetStatus, Begin
  <2> QED  BY <1>2, <2>1, CallStep DEF CommandsStay, SameRow, SameCommand
<1>3. ASSUME NEW w \in Worker, Continue(w)
      PROVE  IInv' /\ (CommandsStay \/ \E c \in CmdId : CreateInsert(w, c))
  <2>1. CASE Commit(w) \/ CreateReconciled(w)
    BY <2>1, CommitStep
  <2>2. CASE \E c \in CmdId : CreateInsert(w, c)
    BY <2>2, InsertStep
  <2>3. CASE \/ Save(w) \/ PullLease(w) \/ AckRepeated(w) \/ AckApplied(w)
             \/ CreateCheck(w) \/ Rollback(w)
    <3>1. cmd' = cmd
      BY <2>3 DEF Save, PullLease, AckRepeated, AckApplied, CreateCheck, Rollback, Finally
    <3>2. IInv'
      BY <2>3, SaveStep, PullLeaseStep, AckStep, CheckStep, RollbackStep
    <3> QED  BY <3>1, <3>2 DEF CommandsStay, SameRow, SameCommand
  <2> QED  BY <1>3, <2>1, <2>2, <2>3 DEF Continue
<1>4. CASE Tick
  BY <1>1, <1>4 DEF Tick, IInv
<1>5. CASE UNCHANGED vars
  BY <1>1, <1>5 DEF vars, IInv
<1> QED  BY <1>2, <1>3, <1>4, <1>5 DEF Next

LEMMA InitGood == ASSUME Init PROVE IInv
<1>1. GoodTable
  BY DEF Init, GoodTable, NoRow, NoEvents, Row, Status, ActiveStatus, TerminalStatus,
     Queued, Leased, Sent, Executing, Succeeded, Failed, Expired, Cancelled
<1> QED  BY <1>1, IdleGood DEF Init, IInv

LEMMA Inductive == Spec => []IInv
<1>1. Init => IInv
  BY InitGood
<1>2. IInv /\ [Next]_vars => IInv'
  BY IInvStep
<1> QED  BY <1>1, <1>2, PTL DEF Spec

-----------------------------------------------------------------------------
(***************************************************************************)
(* Rows, folded events, sessions and the saves under way keep their types. *)
(***************************************************************************)
THEOREM TypeCorrect == Spec => []TypeOK
<1>1. IInv => TypeOK
  BY DEF IInv, TypeOK, GoodTable, GoodSession, GoodWrites, GoodWrite, GoodCall, Stages
<1> QED  BY <1>1, Inductive, PTL

(***************************************************************************)
(* saveMotorCommandWithEvent writes all columns of a row computed from an  *)
(* earlier read.  However many transactions overlap, a committed row has a *)
(* lease exactly while it is with the hub and a completion time exactly    *)
(* when it is final.                                                       *)
(***************************************************************************)
THEOREM LeaseColumnsAgree == Spec => []LeaseMatchesStatus
<1>1. IInv => LeaseMatchesStatus
  BY RowOrNoRow DEF IInv, GoodTable, LeaseMatchesStatus, Coherent
<1> QED  BY <1>1, Inductive, PTL

-----------------------------------------------------------------------------
(***************************************************************************)
(* What creates find under their locks.  Two creates inside a transaction  *)
(* are for different hubs, so the rows of a node change identity at most   *)
(* by the insert of the one create that holds its locks.  Created times    *)
(* and the clock readings kept by creates never lie in the future.         *)
(***************************************************************************)
Creating(w) == InTx(w) /\ session[w].call.op = "create"

Exclusive ==
    \A v, w \in Worker : v # w /\ Creating(v) /\ Creating(w) =>
        HubOf[session[v].call.node] # HubOf[session[w].call.node]

ClocksKept ==
    /\ \A c \in CmdId : cmd[c] \in Row => cmd[c].created <= now
    /\ \A w \in Worker : session[w].call.op = "create" => session[w].call.at <= now

Rows == {c \in CmdId : cmd[c] \in Row}
Recent(q) == {c \in OfNode(cmd, q.node) : cmd[c].created >= q.at - RateWindow}
Within(n, a) == {c \in OfNode(cmd, n) : cmd[c].created \in a..(a + RateWindow)}

LimitKept == \A n \in Node, a \in Nat : Cardinality(Within(n, a)) <= RateMax

(* How one session moves in a step.                                        *)
Moves(w) ==
    /\ OnlySession(w)
    /\ \/ session'[w].pc = session[w].pc /\ session'[w].call = session[w].call
       \/ session'[w].pc = "between" /\ session'[w].call = session[w].call
       \/ session'[w].call.op # "create"
       \/ /\ session'[w].pc = "reconcile"
          /\ ~TargetLocked(w, session'[w].call.node)
          /\ session'[w].call.at <= now
       \/ CreateCheck(w) /\ session'[w].call = session[w].call

LEMMA NotACreate == NoCall.op # "create" /\ Idle.call.op # "create"
BY DEF NoCall, Idle

LEMMA CallMoves == ASSUME IInv, NEW w \in Worker, Call(w) PROVE Moves(w)
<1>1. ASSUME NEW call, NEW pc, NEW writes, Begin(w, call, pc, writes)
      PROVE  OnlySession(w) /\ session'[w].pc = pc /\ session'[w].call = call
  <2> DEFINE r == [pc |-> pc, call |-> call, todo |-> writes, buf |-> NoWrites]
  <2>1. session' = [session EXCEPT ![w] = r]
    BY <1>1 DEF Begin
  <2>2. r.pc = pc /\ r.call = call
    OBVIOUS
  <2> HIDE DEF r
  <2> QED  BY <2>1, <2>2, OneUpdate
<1>2. ASSUME NEW t \in ClockReading, NEW n \in Node, NEW k \in Key,
             NEW t0 \in ClockReading, NEW ttl \in TTL, CreateBegin(w, n, k, t0, t, ttl)
      PROVE  Moves(w)
  <2> DEFINE call == [op |-> "create", node |-> n, key |-> k, exp |-> t0 + ttl, at |-> t]
  <2>1. call.node = n /\ call.at = t /\ t <= now
    BY ReadingTyped
  <2>2. Begin(w, call, "reconcile", ReconcileWrites(OfNode(cmd, n), t))
        /\ ~TargetLocked(w, n)
    BY <1>2 DEF CreateBegin
  <2> HIDE DEF call
  <2>3. OnlySession(w) /\ session'[w].pc = "reconcile" /\ session'[w].call = call
    BY <2>2, <1>1
  <2> QED  BY <2>1, <2>2, <2>3 DEF Moves
<1>3. ASSUME NEW t \in ClockReading, NEW h \in Hub, NEW d \in LeaseDuration,
             NEW max \in 1..MaxPull, PullBegin(w, h, t, d, max)
      PROVE  Moves(w)
  BY <1>1, <1>3 DEF PullBegin, Moves
<1>4. ASSUME NEW t \in ClockReading, NEW h \in Hub, NEW c \in CmdId,
             NEW a \in AckStatus, AckBegin(w, h, c, a, t)
      PROVE  Moves(w)
  BY <1>1, <1>4 DEF AckBegin, Moves
<1>5. ASSUME NEW t \in ClockReading, NEW c \in CmdId, GetStatus(w, c, t) PROVE Moves(w)
  BY <1>1, <1>5, NotACreate DEF GetStatus, Moves
<1> QED  BY <1>2, <1>3, <1>4, <1>5 DEF Call

LEMMA ContinueMoves == ASSUME IInv, NEW w \in Worker, Continue(w) PROVE Moves(w)
<1>1. CASE Save(w)
  <2>1. PICK todo, buf : session' = [session EXCEPT ![w].todo = todo, ![w].buf = buf]
    BY <1>1 DEF Save
  <2> QED  BY <2>1, SessionShape DEF OnlySession, Moves
<1>2. ASSUME NEW writes, Finally(w, writes) PROVE Moves(w)
  <2>1. OnlySession(w) /\ session'[w].call = NoCall
    BY <1>2, SessionShape DEF Finally, OnlySession
  <2> QED  BY <2>1, NotACreate DEF Moves
<1>3. CASE PullLease(w) \/ AckRepeated(w) \/ AckApplied(w)
  BY <1>2, <1>3 DEF PullLease, AckRepeated, AckApplied
<1>4. CASE CreateReconciled(w)
  <2>1. OnlySession(w) /\ session'[w].pc = "between" /\ session'[w].call = session[w].call
    BY <1>4, SessionShape DEF CreateReconciled, OnlySession
  <2> QED  BY <2>1 DEF Moves
<1>5. CASE CreateCheck(w)
  <2>1. OnlySession(w) /\ session'[w].call = session[w].call
    BY <1>5, SessionShape DEF CreateCheck, OnlySession
  <2> QED  BY <1>5, <2>1 DEF Moves
<1>6. CASE Commit(w) \/ Rollback(w) \/ \E c \in CmdId : CreateInsert(w, c)
  <2>1. session' = [session EXCEPT ![w] = Idle]
    BY <1>6 DEF Commit, Rollback, CreateInsert
  <2> QED  BY <2>1, OneUpdate, NotACreate DEF Moves
<1> QED  BY <1>1, <1>3, <1>4, <1>5, <1>6 DEF Continue

LEMMA SomeSessionMoves ==
    ASSUME IInv, [Next]_vars
    PROVE  session' = session \/ \E w \in Worker : Moves(w)
BY CallMoves, ContinueMoves DEF Next, Tick, vars

LEMMA TimeGoesOn ==
    ASSUME IInv, [Next]_vars
    PROVE  now \in Nat /\ now' \in Nat /\ now <= now'
<1>1. ASSUME NEW w \in Worker, Call(w) PROVE now' = now
  BY <1>1 DEF Call, CreateBegin, PullBegin, AckBegin, GetStatus, Begin
<1>2. ASSUME NEW w \in Worker, Continue(w) PROVE now' = now
  <2>1. CASE PullLease(w) \/ AckRepeated(w) \/ AckApplied(w)
    BY <2>1 DEF PullLease, AckRepeated, AckApplied, Finally
  <2>2. CASE Save(w)
    BY <2>2 DEF Save
  <2>3. CASE CreateReconciled(w) \/ CreateCheck(w) \/ Commit(w) \/ Rollback(w)
    BY <2>3 DEF CreateReconciled, CreateCheck, Commit, Rollback
  <2>4. CASE \E c \in CmdId : CreateInsert(w, c)
    BY <2>4 DEF CreateInsert
  <2> QED  BY <1>2, <2>1, <2>2, <2>3, <2>4 DEF Continue
<1>3. now' = now \/ now' = now + 1
  BY <1>1, <1>2 DEF Next, Tick, vars
<1> QED  BY <1>3 DEF IInv

LEMMA ExclusiveStep ==
    ASSUME IInv, [Next]_vars, Exclusive
    PROVE  Exclusive'
<1> SUFFICES ASSUME NEW v \in Worker, NEW w \in Worker, v # w, Creating(v)', Creating(w)'
             PROVE  HubOf[session'[v].call.node] # HubOf[session'[w].call.node]
  BY DEF Exclusive
<1>1. CASE session' = session
  BY <1>1 DEF Exclusive, Creating, InTx
<1>2. ASSUME NEW x \in Worker, NEW y \in Worker, x # y, Moves(x), Creating(x)', Creating(y)'
      PROVE  HubOf[session'[x].call.node] # HubOf[session'[y].call.node]
  <2>1. session'[y] = session[y] /\ Creating(y)
    BY <1>2 DEF Moves, OnlySession, Creating, InTx
  <2>2. CASE session'[x].pc = session[x].pc /\ session'[x].call = session[x].call
    <3>1. Creating(x)
      BY <1>2, <2>2 DEF Creating, InTx
    <3> QED  BY <1>2, <2>1, <2>2, <3>1 DEF Exclusive
  <2>3. CASE ~TargetLocked(x, session'[x].call.node)
    BY <1>2, <2>1, <2>3 DEF TargetLocked, HoldsTarget, Creating
  <2>4. CASE CreateCheck(x) /\ session'[x].call = session[x].call
    BY <2>3, <2>4 DEF CreateCheck
  <2> QED  BY <1>2, <2>2, <2>3, <2>4 DEF Moves, Creating, InTx
<1>3. CASE \E x \in Worker : Moves(x)
  <2> PICK x \in Worker : Moves(x)
    BY <1>3
  <2>1. CASE x = v
    BY <1>2, <2>1
  <2>2. CASE x = w
    BY <1>2, <2>2
  <2>3. CASE x # v /\ x # w
    BY <2>3 DEF Moves, OnlySession, Exclusive, Creating, InTx
  <2> QED  BY <2>1, <2>2, <2>3
<1> QED  BY <1>1, <1>3, SomeSessionMoves

-----------------------------------------------------------------------------
(* The rows of a node that no insert joins.                                *)
LEMMA NodeKept ==
    ASSUME IInv, IInv', NEW n,
           \A c \in CmdId : SameRow(c) \/ (cmd[c] \notin Row /\ cmd'[c].node # n)
    PROVE  /\ OfNode(cmd', n) = OfNode(cmd, n)
           /\ \A c \in OfNode(cmd, n) : /\ cmd'[c].key = cmd[c].key
                                       /\ cmd'[c].created = cmd[c].created
<1>1. \A c \in CmdId : /\ Exists(cmd[c]) <=> cmd[c] \in Row
                       /\ Exists(cmd'[c]) <=> cmd'[c] \in Row
  BY RowOrNoRow DEF IInv, GoodTable
<1> QED  BY <1>1 DEF OfNode, SameRow, SameCommand

LEMMA AdmissionStep ==
    ASSUME IInv, [Next]_vars, Exclusive, AdmissionStable
    PROVE  AdmissionStable'
<1> SUFFICES ASSUME NEW w \in Worker, At(w, "create", "insert")'
             PROVE  ~Replayed(session[w].call)' /\ WithinRateLimit(session[w].call)'
  BY DEF AdmissionStable
<1> DEFINE q == session[w].call
<1>1. session'[w].pc = "insert" /\ session'[w].call.op = "create"
  BY DEF At
<1>2. \/ At(w, "create", "insert") /\ session'[w].call = q
      \/ CreateCheck(w) /\ session'[w].call = q
  <2>1. CASE session' = session
    BY <1>1, <2>1 DEF At
  <2>2. ASSUME NEW x \in Worker, Moves(x), x # w
        PROVE  At(w, "create", "insert") /\ session'[w].call = q
    BY <1>1, <2>2 DEF At, Moves, OnlySession
  <2>3. CASE Moves(w)
    BY <1>1, <2>3 DEF At, Moves
  <2> QED  BY <2>1, <2>2, <2>3, SomeSessionMoves
<1>3. CASE CreateCheck(w) /\ session'[w].call = q
  BY <1>3 DEF CreateCheck, Admitted, Replayed, WithinRateLimit
<1>4. CASE At(w, "create", "insert") /\ session'[w].call = q
  <2>1. ~Replayed(q) /\ WithinRateLimit(q)
    BY <1>4 DEF AdmissionStable
  <2>2. \A c \in CmdId : SameRow(c) \/ (cmd[c] \notin Row /\ cmd'[c].node # q.node)
    <3>1. ASSUME NEW v \in Worker, NEW c \in CmdId, CreateInsert(v, c)
          PROVE  /\ cmd[c] \notin Row /\ cmd'[c].node # q.node
                 /\ \A d \in CmdId \ {c} : SameRow(d)
      <4>1. v # w
        BY <1>1, <3>1, NotACreate, OneUpdate DEF CreateInsert
      <4>2. Creating(v) /\ Creating(w)
        BY <1>4, <3>1 DEF CreateInsert, At, Creating, InTx
      <4>3. HubOf[session[v].call.node] # HubOf[q.node]
        BY <4>1, <4>2 DEF Exclusive
      <4> QED  BY <3>1, <4>3, InsertStep DEF SameRow, SameCommand
    <3> QED  BY <3>1, IInvStep DEF CommandsStay
  <2>3. /\ OfNode(cmd', q.node) = OfNode(cmd, q.node)
        /\ \A c \in OfNode(cmd, q.node) : /\ cmd'[c].key = cmd[c].key
                                          /\ cmd'[c].created = cmd[c].created
    BY <2>2, IInvStep, NodeKept
  <2>4. ~Replayed(session[w].call)'
    BY <1>4, <2>1, <2>3 DEF Replayed
  <2>5. {c \in OfNode(cmd', q.node) : cmd'[c].created >= q.at - RateWindow} = Recent(q)
    BY <2>3 DEF Recent
  <2>6. WithinRateLimit(session[w].call)'
    BY <1>4, <2>1, <2>5 DEF WithinRateLimit, Recent
  <2> QED  BY <2>4, <2>6
<1> QED  BY <1>2, <1>3, <1>4

LEMMA AdmissionInvariant == Spec => [](Exclusive /\ AdmissionStable)
<1>1. Init => Exclusive /\ AdmissionStable
  BY NotACreate DEF Init, Exclusive, AdmissionStable, Creating, At
<1>2. IInv /\ [Next]_vars /\ Exclusive /\ AdmissionStable => Exclusive' /\ AdmissionStable'
  BY ExclusiveStep, AdmissionStep
<1> QED  BY <1>1, <1>2, Inductive, PTL DEF Spec

(***************************************************************************)
(* CreateMotorCommand checks the key and the rate limit and inserts in one *)
(* transaction that holds SELECT .. FOR UPDATE locks on the node and its   *)
(* hub: what it found still holds when it inserts, however many creates    *)
(* race and whatever else commits in between.                              *)
(***************************************************************************)
THEOREM ChecksStay == Spec => []AdmissionStable
BY AdmissionInvariant, PTL

-----------------------------------------------------------------------------
(* A row that becomes active without an insert was finished before.        *)
LEMMA ActiveFromTerminal ==
    ASSUME IInv, IInv', NEW c \in CmdId, cmd[c] \in Row, ~Active(cmd[c])
    PROVE  Terminal(cmd[c])
BY DEF Row, Status, Active, Terminal

(* A create that stays before its insert sees no row of its node appear.   *)
LEMMA NoRowJoins ==
    ASSUME IInv, [Next]_vars, Exclusive, NEW w \in Worker,
           At(w, "create", "insert"), session'[w] = session[w],
           NEW d \in CmdId, cmd'[d] \in Row, cmd'[d].node = session[w].call.node
    PROVE  cmd[d] \in Row /\ cmd[d].node = session[w].call.node
<1>1. ASSUME NEW v \in Worker, NEW c \in CmdId, CreateInsert(v, c)
      PROVE  cmd[d] \in Row /\ cmd[d].node = session[w].call.node
  <2>1. v # w
    BY <1>1, NotACreate, OneUpdate DEF CreateInsert, At
  <2>2. Creating(v) /\ Creating(w)
    BY <1>1 DEF CreateInsert, At, Creating, InTx
  <2>3. HubOf[session[v].call.node] # HubOf[session[w].call.node]
    BY <2>1, <2>2 DEF Exclusive
  <2>4. d # c /\ cmd'[d] = cmd[d]
    BY <1>1, <2>3, InsertStep
  <2> QED  BY <2>4
<1>2. CASE CommandsStay
  BY <1>2 DEF CommandsStay, SameRow, SameCommand
<1> QED  BY <1>1, <1>2, IInvStep

(***************************************************************************)
(* From its check to its insert CreateMotorCommand holds the locks of its  *)
(* node, so no other create takes the node, for any number of overlapping  *)
(* calls: what makes the node busy all the same is a finished command that *)
(* the Save of an earlier read revives, and nothing else.                  *)
(***************************************************************************)
THEOREM OnlyRevivalIntervenes == Spec => BusyOnlyByRevival
<1> DEFINE A == \A w \in Worker :
          /\ At(w, "create", "insert") /\ session'[w] = session[w]
          /\ ~NodeBusy(session[w].call) /\ NodeBusy(session[w].call)'
          => \E c \in OfNode(cmd, session[w].call.node) :
                Terminal(cmd[c]) /\ Active(cmd'[c])
<1>1. IInv /\ Exclusive /\ [Next]_vars => A
  <2> SUFFICES ASSUME IInv, Exclusive, [Next]_vars, NEW w \in Worker,
                      At(w, "create", "insert"), session'[w] = session[w],
                      ~NodeBusy(session[w].call), NodeBusy(session[w].call)'
               PROVE  \E c \in OfNode(cmd, session[w].call.node) :
                         Terminal(cmd[c]) /\ Active(cmd'[c])
    OBVIOUS
  <2> DEFINE n == session[w].call.node
  <2>1. PICK c \in CmdId : Exists(cmd'[c]) /\ cmd'[c].node = n /\ Active(cmd'[c])
    BY DEF NodeBusy, OfNode
  <2>2. IInv'
    BY IInvStep
  <2>3. cmd'[c] \in Row
    BY <2>1, <2>2, RowOrNoRow DEF IInv, GoodTable
  <2>4. cmd[c] \in Row /\ cmd[c].node = n
    BY <2>1, <2>3, NoRowJoins
  <2>5. c \in OfNode(cmd, n)
    BY <2>4, RowOrNoRow DEF OfNode
  <2>6. ~Active(cmd[c])
    BY <2>5 DEF NodeBusy
  <2> QED  BY <2>1, <2>2, <2>4, <2>5, <2>6, ActiveFromTerminal
<1>2. Spec => [][A]_vars
  BY <1>1, Inductive, AdmissionInvariant, PTL DEF Spec
<1> QED  BY <1>2 DEF BusyOnlyByRevival

-----------------------------------------------------------------------------
LEMMA ClocksStep ==
    ASSUME IInv, [Next]_vars, ClocksKept
    PROVE  ClocksKept'
<1>1. now \in Nat /\ now' \in Nat /\ now <= now'
  BY TimeGoesOn
<1>2. ASSUME NEW c \in CmdId, cmd'[c] \in Row PROVE cmd'[c].created <= now'
  <2>1. CASE SameRow(c)
    <3>1. cmd[c] \in Row /\ cmd[c].created \in Nat /\ cmd'[c].created = cmd[c].created
      BY <1>2, <2>1 DEF SameRow, SameCommand, Row
    <3> QED  BY <1>1, <3>1 DEF ClocksKept
  <2>2. CASE cmd'[c].created = now
    BY <1>1, <2>2
  <2>3. ASSUME NEW w \in Worker, NEW d \in CmdId, CreateInsert(w, d)
        PROVE  SameRow(c) \/ cmd'[c].created = now
    BY <2>3, InsertStep DEF SameRow, SameCommand
  <2> QED  BY <2>1, <2>2, <2>3, IInvStep DEF CommandsStay
<1>3. ASSUME NEW w \in Worker, session'[w].call.op = "create"
      PROVE  session'[w].call.at <= now'
  <2>1. session[w].call.op = "create" => session[w].call.at \in Nat
    BY SessionParts DEF GoodCall, Calls
  <2>2. session'[w].call.op = "create" => session'[w].call.at \in Nat
    BY IInvStep DEF IInv, GoodSession, GoodCall, Calls
  <2>3. CASE session'[w].call = session[w].call
    BY <1>1, <1>3, <2>1, <2>3 DEF ClocksKept
  <2>4. CASE session'[w].call.at <= now
    BY <1>1, <1>3, <2>2, <2>4
  <2>5. ASSUME NEW x \in Worker, Moves(x)
        PROVE  session'[w].call = session[w].call \/ session'[w].call.at <= now
    BY <1>3, <2>5 DEF Moves, OnlySession
  <2> QED  BY <2>3, <2>4, <2>5, SomeSessionMoves
<1> QED  BY <1>2, <1>3 DEF ClocksKept

LEMMA RowsStayFinite ==
    ASSUME IInv, [Next]_vars, IsFiniteSet(Rows)
    PROVE  IsFiniteSet(Rows')
<1>1. CASE CommandsStay
  <2>1. Rows' = Rows
    BY <1>1 DEF Rows, CommandsStay, SameRow
  <2> QED  BY <2>1
<1>2. ASSUME NEW w \in Worker, NEW c \in CmdId, CreateInsert(w, c)
      PROVE  IsFiniteSet(Rows')
  <2>1. Rows' = Rows \cup {c}
    BY <1>2, InsertStep DEF Rows
  <2> QED  BY <2>1, FS_AddElement
<1> QED  BY <1>1, <1>2, IInvStep

(* An insert fills the window its create found room in.                    *)
LEMMA InsertWithinLimit ==
    ASSUME IInv, AdmissionStable, ClocksKept, IsFiniteSet(Rows), LimitKept,
           NEW w \in Worker, NEW c \in CmdId, CreateInsert(w, c), NEW n \in Node, NEW a \in Nat
    PROVE  Cardinality(Within(n, a)') <= RateMax
<1> DEFINE q   == session[w].call
           new == Within(n, a)'
<1>1. \A e \in CmdId : /\ Exists(cmd[e]) <=> cmd[e] \in Row
                       /\ Exists(cmd'[e]) <=> cmd'[e] \in Row
  BY RowOrNoRow, InsertStep DEF IInv, GoodTable
<1>2. /\ cmd[c] \notin Row /\ cmd'[c] \in Row
      /\ cmd'[c].node = q.node /\ cmd'[c].created = now
      /\ \A e \in CmdId \ {c} : cmd'[e] = cmd[e]
  BY InsertStep
<1>3. q \in Calls /\ q.op = "create" /\ WithinRateLimit(q)
  BY SessionParts DEF CreateInsert, At, GoodCall, AdmissionStable
<1>4. now \in Nat /\ RateWindow \in Nat /\ RateMax \in Nat /\ q.at \in Nat /\ q.at <= now
  BY <1>3, RCAssumption DEF IInv, Calls, ClocksKept
<1>5. /\ IsFiniteSet(Recent(q)) /\ Cardinality(Recent(q)) \in Nat
      /\ Cardinality(Within(n, a)) <= RateMax
  <2>1. Recent(q) \in SUBSET Rows
    BY <1>1 DEF Recent, OfNode, Rows
  <2> QED  BY <2>1, FS_Subset, FS_CardinalityType DEF LimitKept
<1>6. \A e \in CmdId : e # c => (e \in new <=> e \in Within(n, a))
  BY <1>2 DEF Within, OfNode
<1>7. CASE c \notin new
  <2>1. new = Within(n, a)
    BY <1>1, <1>2, <1>6, <1>7 DEF Within, OfNode
  <2> QED  BY <1>5, <2>1
<1>8. CASE c \in new
  <2>1. n = q.node /\ a <= now /\ now <= a + RateWindow
    BY <1>2, <1>4, <1>8 DEF Within, OfNode
  <2>2. new \in SUBSET (Recent(q) \cup {c})
    <3> SUFFICES ASSUME NEW e \in new, e # c PROVE e \in Recent(q)
      OBVIOUS
    <3>1. e \in OfNode(cmd, q.node) /\ cmd[e].created \in a..(a + RateWindow)
      BY <1>6, <2>1 DEF Within, OfNode
    <3>2. q.at - RateWindow <= cmd[e].created
      BY <1>4, <2>1, <3>1
    <3> QED  BY <1>4, <3>1, <3>2 DEF Recent
  <2>3. c \notin Recent(q)
    BY <1>1, <1>2 DEF Recent, OfNode
  <2>4. /\ IsFiniteSet(Recent(q) \cup {c})
        /\ Cardinality(Recent(q) \cup {c}) = Cardinality(Recent(q)) + 1
    BY <1>5, <2>3, FS_AddElement
  <2>5. Cardinality(new) <= Cardinality(Recent(q) \cup {c}) /\ Cardinality(new) \in Nat
    BY <2>2, <2>4, FS_Subset, FS_CardinalityType
  <2>6. Cardinality(Recent(q)) < RateMax
    BY <1>3 DEF WithinRateLimit, Recent
  <2>7. Cardinality(new) <= RateMax
    <3> HIDE DEF new
    <3> QED  BY <1>4, <1>5, <2>4, <2>5, <2>6
  <2> QED  BY <2>7
<1> QED  BY <1>7, <1>8

LEMMA LimitStep ==
    ASSUME IInv, [Next]_vars, AdmissionStable, ClocksKept, IsFiniteSet(Rows), LimitKept
    PROVE  LimitKept'
<1> SUFFICES ASSUME NEW n \in Node, NEW a \in Nat
             PROVE  Cardinality(Within(n, a)') <= RateMax
  BY DEF LimitKept
<1>1. CASE CommandsStay
  <2>1. /\ OfNode(cmd', n) = OfNode(cmd, n)
        /\ \A c \in OfNode(cmd, n) : cmd'[c].created = cmd[c].created
    BY <1>1, IInvStep, NodeKept DEF CommandsStay
  <2>2. Within(n, a)' = Within(n, a)
    BY <2>1 DEF Within
  <2> QED  BY <2>2 DEF LimitKept
<1>2. CASE \E w \in Worker, c \in CmdId : CreateInsert(w, c)
  BY <1>2, InsertWithinLimit
<1> QED  BY <1>1, <1>2, IInvStep

(***************************************************************************)
(* The rate limit of CreateMotorCommand holds for every window of every    *)
(* node, however many creates race: the count and the insert are made      *)
(* under the same locks.                                                   *)
(***************************************************************************)
THEOREM RateLimited == Spec => []RateLimitHolds
<1> DEFINE Inv == ClocksKept /\ IsFiniteSet(Rows) /\ LimitKept
<1>1. Init => Inv
  <2> SUFFICES ASSUME Init PROVE Inv
    OBVIOUS
  <2>1. \A c \in CmdId : cmd[c] \notin Row /\ ~Exists(cmd[c])
    BY DEF Init, NoRow, Exists, Row, Status, ActiveStatus, TerminalStatus, Queued, Leased,
       Sent, Executing, Succeeded, Failed, Expired, Cancelled
  <2>2. Rows = {} /\ \A n \in Node, a \in Nat : Within(n, a) = {}
    BY <2>1 DEF Rows, Within, OfNode
  <2>3. ClocksKept
    BY <2>1, NotACreate DEF Init, ClocksKept
  <2> QED  BY <2>2, <2>3, FS_EmptySet, RCAssumption DEF LimitKept
<1>2. IInv /\ AdmissionStable /\ [Next]_vars /\ Inv => Inv'
  BY ClocksStep, RowsStayFinite, LimitStep
<1>3. IInv /\ Inv => RateLimitHolds
  BY DEF IInv, LimitKept, RateLimitHolds, Within
<1> HIDE DEF Inv
<1> QED  BY <1>1, <1>2, <1>3, Inductive, ChecksStay, PTL DEF Spec

-----------------------------------------------------------------------------
(***************************************************************************)
(* A save writes back every column of a row that was read earlier, and     *)
(* sessions overlap at will: still no step deletes a command or changes    *)
(* the node, the key, the creation time or the expiry it was created with. *)
(***************************************************************************)
THEOREM CommandsKeepIdentity ==
    Spec => [][\A c \in CmdId : Exists(cmd[c]) =>
                  Exists(cmd'[c]) /\ SameCommand(cmd[c], cmd'[c])]_vars
<1>1. IInv /\ [Next]_vars
         => \A c \in CmdId : Exists(cmd[c]) =>
               Exists(cmd'[c]) /\ SameCommand(cmd[c], cmd'[c])
  <2> SUFFICES ASSUME IInv, [Next]_vars, NEW c \in CmdId, Exists(cmd[c])
               PROVE  Exists(cmd'[c]) /\ SameCommand(cmd[c], cmd'[c])
    OBVIOUS
  <2>1. cmd[c] \in Row
    BY RowOrNoRow DEF IInv, GoodTable
  <2>2. cmd'[c] \in Row /\ SameCommand(cmd[c], cmd'[c])
    <3>1. CASE SameRow(c)
      BY <2>1, <3>1 DEF SameRow
    <3>2. ASSUME NEW w \in Worker, NEW d \in CmdId, CreateInsert(w, d) PROVE SameRow(c)
      <4>1. c # d /\ cmd'[c] = cmd[c]
        BY <2>1, <3>2, InsertStep
      <4> QED  BY <4>1 DEF SameRow, SameCommand
    <3> QED  BY <3>1, <3>2, IInvStep DEF CommandsStay
  <2> QED  BY <2>2, RowOrNoRow, IInvStep DEF IInv, GoodTable
<1> QED  BY <1>1, Inductive, PTL DEF Spec

(* No two commands of a node have the same key.                            *)
KeysOnce == \A c, d \in Rows : cmd[c].node = cmd[d].node /\ cmd[c].key = cmd[d].key => c = d

LEMMA KeysStep ==
    ASSUME IInv, [Next]_vars, AdmissionStable, KeysOnce
    PROVE  KeysOnce'
<1>1. CASE CommandsStay
  BY <1>1 DEF CommandsStay, SameRow, SameCommand, Rows, KeysOnce
<1>2. ASSUME NEW w \in Worker, NEW e \in CmdId, CreateInsert(w, e) PROVE KeysOnce'
  <2> DEFINE q == session[w].call
  <2>1. /\ cmd'[e].node = q.node /\ cmd'[e].key = q.key
        /\ \A d \in CmdId \ {e} : cmd'[d] = cmd[d]
    BY <1>2, InsertStep
  <2>2. \A d \in Rows : ~(cmd[d].node = q.node /\ cmd[d].key = q.key)
    <3>1. At(w, "create", "insert")
      BY <1>2 DEF CreateInsert
    <3>2. ~Replayed(q)
      BY <3>1 DEF AdmissionStable
    <3> QED  BY <3>2, RowOrNoRow DEF Replayed, OfNode, Rows, IInv, GoodTable
  <2> QED  BY <2>1, <2>2 DEF Rows, KeysOnce
<1> QED  BY <1>1, <1>2, IInvStep

(***************************************************************************)
(* A key is used once per node, however many creates repeat it and race:   *)
(* what CreateCheck found is enough, the unique index is not needed for    *)
(* it.                                                                     *)
(***************************************************************************)
THEOREM OneCommandPerKey ==
    Spec => [](\A n \in Node : \A c, d \in OfNode(cmd, n) : cmd[c].key = cmd[d].key => c = d)
<1> DEFINE One == \A n \in Node : \A c, d \in OfNode(cmd, n) : cmd[c].key = cmd[d].key => c = d
<1>1. Init => KeysOnce
  <2> SUFFICES ASSUME Init PROVE Rows = {}
    BY DEF KeysOnce
  <2> QED
    BY DEF Init, Rows, NoRow, Row, Status, ActiveStatus, TerminalStatus, Queued, Leased, Sent,
       Executing, Succeeded, Failed, Expired, Cancelled
<1>2. IInv /\ AdmissionStable /\ [Next]_vars /\ KeysOnce => KeysOnce'
  BY KeysStep
<1>3. IInv /\ KeysOnce => One
  BY RowOrNoRow DEF IInv, GoodTable, KeysOnce, Rows, OfNode
<1> QED  BY <1>1, <1>2, <1>3, Inductive, ChecksStay, PTL DEF Spec
=============================================================================
