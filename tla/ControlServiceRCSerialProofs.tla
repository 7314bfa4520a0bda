-------------------- MODULE ControlServiceRCSerialProofs --------------------
(***************************************************************************)
(* The motor command queue on one connection, for any number of sessions,  *)
(* nodes and commands.  At most one session is inside a transaction, so    *)
(* its reads are still true when it commits: every save under way starts   *)
(* from the status the committed row has and leads on from it (Serial),    *)
(* and the table that a transaction will leave behind is known from its    *)
(* first read on (Promised).  Hence the statements of a transaction        *)
(* together are one step of ControlService, and what overlapping           *)
(* transactions break holds.                                               *)
(***************************************************************************)
EXTENDS ControlServiceRCProofs

(* A save of command c that changes its status, or renews its lease.       *)
GoesOn(c, x) == x.row.status = cmd[c].status => cmd[c].status = Leased

UpToDate(s) ==
    /\ \A c \in DOMAIN s.buf : s.buf[c].from = cmd[c].status /\ GoesOn(c, s.buf[c])
    /\ \A c \in DOMAIN s.todo \ DOMAIN s.buf : s.todo[c].from = cmd[c].status
    /\ \A c \in DOMAIN s.todo : GoesOn(c, s.todo[c])
    /\ s.pc = "reconcile" => \A c \in DOMAIN s.todo \cup DOMAIN s.buf : Pending(cmd[c])

NothingToSave(s) == DOMAIN s.todo = {} /\ DOMAIN s.buf = {}

Serial ==
    /\ \A v, w \in Worker : InTx(v) /\ InTx(w) => v = w
    /\ \A w \in Worker : UpToDate(session[w])
    /\ \A w \in Worker : ~InTx(w) => NothingToSave(session[w])
    /\ AuditIsChain

LEMMA OnlyOne ==
    ASSUME Connections = 1, Serial, CanBegin
    PROVE  \A w \in Worker : ~InTx(w)
<1> DEFINE open == {w \in Worker : InTx(w)}
<1> SUFFICES ASSUME NEW w \in Worker, InTx(w) PROVE FALSE
  OBVIOUS
<1>1. open = {w}
  BY DEF Serial
<1>2. Cardinality(open) = 1
  BY <1>1, FS_Singleton
<1> QED  BY <1>2 DEF CanBegin

(* A step inside a transaction, or its first one.                          *)
LEMMA QuietSerial ==
    ASSUME Connections = 1, Serial, NEW w \in Worker, OnlySession(w),
           UNCHANGED <<cmd, audit>>,
           InTx(w) \/ CanBegin \/ ~InTx(w)',
           UpToDate(session'[w]), ~InTx(w)' => NothingToSave(session'[w])
    PROVE  Serial'
<1>1. \A v \in Worker \ {w} : session'[v] = session[v] /\ (InTx(v)' <=> InTx(v))
  BY DEF OnlySession, InTx
<1>2. \A v, x \in Worker : InTx(v)' /\ InTx(x)' => v = x
  BY <1>1, OnlyOne DEF Serial
<1>3. \A v \in Worker : UpToDate(session[v])'
  BY <1>1 DEF Serial, UpToDate, GoesOn
<1>4. \A v \in Worker : (~InTx(v) => NothingToSave(session[v]))'
  BY <1>1 DEF Serial, NothingToSave
<1>5. AuditIsChain'
  BY DEF Serial, AuditIsChain
<1> QED  BY <1>2, <1>3, <1>4, <1>5 DEF Serial

(* The end of a transaction that wrote: the others have nothing to save.   *)
LEMMA LoudSerial ==
    ASSUME Serial, NEW w \in Worker, InTx(w), OnlySession(w),
           ~InTx(w)', NothingToSave(session'[w]), AuditIsChain'
    PROVE  Serial'
<1>1. \A v \in Worker : ~InTx(v)' /\ NothingToSave(session'[v])
  BY DEF OnlySession, InTx, Serial
<1>2. \A v \in Worker : UpToDate(session[v])' /\ NothingToSave(session[v])'
  BY <1>1 DEF UpToDate, NothingToSave
<1> QED  BY <1>1, <1>2 DEF Serial

LEMMA IdleEmpty == Idle.pc = "idle" /\ NothingToSave(Idle) /\ UpToDate(Idle)
BY DEF Idle, NoWrites, NothingToSave, UpToDate

LEMMA WriteFrom ==
    \A read, row : Write(read, row).from = read.status /\ Write(read, row).row = row
BY DEF Write

(* Reconciliation and expiry on access change the status of a row.         *)
LEMMA PendingGoesOn ==
    ASSUME IInv, NEW c \in CmdId, Pending(cmd[c])
    PROVE  /\ Expire(cmd[c]).status # cmd[c].status
           /\ \A t : Reconcile(cmd[c], t) # cmd[c]
                       => Reconcile(cmd[c], t).status # cmd[c].status
<1>1. cmd[c] \in Row
  BY RowOrNoRow DEF IInv, GoodTable
<1>2. Expire(cmd[c]).status = Expired /\ Requeue(cmd[c]).status = Queued
  BY <1>1 DEF Row, Expire, Requeue
<1>3. Expired # cmd[c].status
  BY DEF Pending, PendingStatus, Expired, Queued, Leased
<1>4. ASSUME NEW t, LeaseExpired(cmd[c], t) PROVE Queued # cmd[c].status
  BY <1>4 DEF LeaseExpired, Queued, Leased
<1> QED  BY <1>2, <1>3, <1>4 DEF Reconcile

LEMMA CallSerial ==
    ASSUME Connections = 1, IInv, Serial, NEW w \in Worker, Call(w)
    PROVE  Serial'
<1>1. ASSUME NEW call, NEW pc \in {"reconcile", "commit"}, NEW writes,
             \A c \in DOMAIN writes : /\ writes[c].from = cmd[c].status
                                      /\ writes[c].row.status # cmd[c].status
                                      /\ Pending(cmd[c]),
             Begin(w, call, pc, writes)
      PROVE  Serial'
  <2> DEFINE r == [pc |-> pc, call |-> call, todo |-> writes, buf |-> NoWrites]
  <2>1. /\ session' = [session EXCEPT ![w] = r] /\ UNCHANGED <<cmd, audit>>
        /\ CanBegin
    BY <1>1 DEF Begin
  <2>2. UpToDate(r) /\ r.pc = pc
    BY <1>1 DEF UpToDate, GoesOn, NoWrites
  <2> HIDE DEF r
  <2>3. OnlySession(w) /\ session'[w] = r
    BY <2>1, OneUpdate
  <2>4. InTx(w)'
    BY <2>2, <2>3 DEF InTx
  <2> QED  BY <2>1, <2>2, <2>3, <2>4, QuietSerial
<1>2. ASSUME NEW S \in SUBSET CmdId, NEW t
      PROVE  LET f == ReconcileWrites(S, t)
             IN  \A c \in DOMAIN f : /\ f[c].from = cmd[c].status
                                     /\ f[c].row.status # cmd[c].status
                                     /\ Pending(cmd[c])
  BY WriteFrom, PendingGoesOn DEF ReconcileWrites
<1>3. ASSUME NEW c \in CmdId, Pending(cmd[c])
      PROVE  LET f == [e \in {c} |-> Write(cmd[c], Expire(cmd[c]))]
             IN  \A e \in DOMAIN f : /\ f[e].from = cmd[e].status
                                     /\ f[e].row.status # cmd[e].status
                                     /\ Pending(cmd[e])
  BY <1>3, WriteFrom, PendingGoesOn
<1>4. CASE \E t \in ClockReading, n \in Node, k \in Key, t0 \in ClockReading, ttl \in TTL :
              CreateBegin(w, n, k, t0, t, ttl)
  BY <1>1, <1>2, <1>4, OfNodeCommands DEF CreateBegin
<1>5. CASE \E t \in ClockReading, h \in Hub, d \in LeaseDuration, max \in 1..MaxPull :
              PullBegin(w, h, t, d, max)
  BY <1>1, <1>2, <1>5, OfHubCommands DEF PullBegin
<1>6. CASE \E t \in ClockReading, h \in Hub, c \in CmdId, a \in AckStatus :
              AckBegin(w, h, c, a, t)
  BY <1>1, <1>2, <1>6, OfHubCommands DEF AckBegin
<1>7. CASE \E t \in ClockReading, c \in CmdId : GetStatus(w, c, t)
  BY <1>1, <1>3, <1>7 DEF GetStatus, ShouldExpireOnAccess
<1> QED  BY <1>4, <1>5, <1>6, <1>7 DEF Call

LEMMA SaveSerial ==
    ASSUME Connections = 1, IInv, Serial, NEW w \in Worker, Save(w)
    PROVE  Serial'
<1> DEFINE s == session[w]
           r == session'[w]
<1>1. PICK c \in DOMAIN s.todo :
         /\ r.todo = [d \in DOMAIN s.todo \ {c} |-> s.todo[d]]
         /\ r.buf = [d \in DOMAIN s.buf \cup {c} |->
               IF d # c THEN s.buf[d]
               ELSE [from |-> IF c \in DOMAIN s.buf THEN s.buf[c].from ELSE s.todo[c].from,
                     row  |-> s.todo[c].row]]
  BY SaveShape
<1>2. UpToDate(s) /\ InTx(w)
  BY DEF Serial, NothingToSave
<1>3. UpToDate(r)
  <2> HIDE DEF r
  <2>1. r.pc = s.pc
    BY SaveShape DEF r
  <2> QED  BY <1>1, <1>2, <2>1 DEF UpToDate, GoesOn
<1>4. InTx(w)'
  BY <1>2, SaveShape DEF InTx
<1>5. UpToDate(session'[w])
  BY <1>3
<1> QED  BY <1>2, <1>4, <1>5, SaveShape, QuietSerial

LEMMA FinalSerial ==
    ASSUME Connections = 1, IInv, Serial, NEW w \in Worker, NEW writes, Finally(w, writes),
           InTx(w), \A c \in DOMAIN writes : /\ c \in CmdId /\ GoesOn(c, writes[c])
                                            /\ writes[c].from = View(w)[c].status
    PROVE  Serial'
<1> DEFINE r == session'[w]
<1>0. UNCHANGED <<cmd, audit>>
  BY DEF Finally
<1>1. OnlySession(w) /\ r.pc = "commit" /\ r.todo = writes /\ r.buf = session[w].buf
  BY FinalShape
<1>2. \A c \in DOMAIN writes \ DOMAIN session[w].buf : writes[c].from = cmd[c].status
  BY DEF View
<1>3. InTx(w)'
  BY <1>1 DEF InTx
<1>4. \A c \in DOMAIN session[w].buf :
         session[w].buf[c].from = cmd[c].status /\ GoesOn(c, session[w].buf[c])
  BY DEF Serial, UpToDate
<1> HIDE DEF r
<1>5. UpToDate(r)
  BY <1>1, <1>2, <1>4 DEF UpToDate
<1>6. UpToDate(session'[w])
  BY <1>5 DEF r
<1> QED  BY <1>0, <1>1, <1>3, <1>6, QuietSerial

LEMMA LeaseAckSerial ==
    ASSUME Connections = 1, IInv, Serial, NEW w \in Worker,
           PullLease(w) \/ AckRepeated(w) \/ AckApplied(w)
    PROVE  Serial'
<1>1. InTx(w)
  BY DEF PullLease, AckRepeated, AckApplied, At, InTx
<1>2. CASE PullLease(w)
  <2> DEFINE table == View(w)
             until == session[w].call.until
  <2>1. PICK L \in SUBSET CmdId :
               /\ \A c \in L : table[c].status = Queued
               /\ Finally(w, [c \in L |-> Write(table[c], LeaseTo(table[c], until))])
    BY <1>2 DEF PullLease, OfHub
  <2> DEFINE f == [c \in L |-> Write(table[c], LeaseTo(table[c], until))]
  <2>2. \A c \in DOMAIN f : c \in CmdId /\ f[c].from = table[c].status /\ GoesOn(c, f[c])
    <3>1. ASSUME NEW c \in L PROVE LeaseTo(table[c], until).status = Leased
      <4>1. table[c] \in Row
        BY <2>1, ViewRow, RowOrNoRow DEF Status, ActiveStatus
      <4> QED  BY <4>1 DEF LeaseTo, Row
    <3> QED  BY <3>1, WriteFrom DEF GoesOn
  <2> HIDE DEF f
  <2>3. Finally(w, f)
    BY <2>1 DEF f
  <2> QED  BY <1>1, <2>2, <2>3, FinalSerial
<1>3. CASE AckRepeated(w)
  BY <1>1, <1>3, FinalSerial DEF AckRepeated, NoWrites
<1>4. CASE AckApplied(w)
  <2> DEFINE q   == session[w].call
             row == View(w)[q.cmd]
             f   == [c \in {q.cmd} |-> Write(row, Acked(row, q.status))]
  <2>1. q.cmd \in CmdId
    <3>1. q \in Calls /\ q.op = "ack"
      BY <1>4, SessionParts DEF AckApplied, At, GoodCall
    <3> QED  BY <3>1 DEF Calls
  <2>2. row \in Row /\ Acked(row, q.status).status = q.status
    <3>1. q.status \in AckStatus
      BY <1>4, SessionParts DEF AckApplied, At, GoodCall, Calls
    <3>2. row \in Row
      BY <1>4, <2>1, ViewRow, RowOrNoRow
         DEF AckApplied, AckAccepted, AckTransition, Status, ActiveStatus
    <3> QED  BY <3>2 DEF Acked, Row
  <2>3. GoesOn(q.cmd, Write(row, Acked(row, q.status)))
    <3>1. row.status # q.status /\ q.status \in AckStatus /\ session[w].pc = "reconcile"
      BY <1>4, SessionParts DEF AckApplied, AckAccepted, At, GoodCall, Calls
    <3>2. CASE q.cmd \in DOMAIN session[w].buf
      <4>1. Pending(cmd[q.cmd])
        BY <3>1, <3>2 DEF Serial, UpToDate
      <4>2. q.status # cmd[q.cmd].status
        BY <3>1, <4>1 DEF AckStatus, Pending, PendingStatus, Queued, Leased, Sent, Executing,
           Succeeded, Failed, Expired
      <4> QED  BY <2>2, <4>2, WriteFrom DEF GoesOn
    <3>3. CASE q.cmd \notin DOMAIN session[w].buf
      <4>1. row = cmd[q.cmd]
        BY <2>1, <3>3 DEF View
      <4> QED  BY <2>2, <3>1, <4>1, WriteFrom DEF GoesOn
    <3> QED  BY <3>2, <3>3
  <2>4. /\ \A c \in DOMAIN f : c = q.cmd
        /\ f[q.cmd] = Write(row, Acked(row, q.status))
    OBVIOUS
  <2>5. \A c \in DOMAIN f : /\ c \in CmdId /\ f[c].from = View(w)[c].status
                            /\ GoesOn(c, f[c])
    BY <2>1, <2>3, <2>4, WriteFrom
  <2> HIDE DEF f
  <2>6. Finally(w, f)
    BY <1>4 DEF AckApplied, f
  <2> QED  BY <1>1, <2>5, <2>6, FinalSerial
<1> QED  BY <1>2, <1>3, <1>4

LEMMA ChainGrows ==
    ASSUME NEW log, NEW to, log.chained, log.last = to => to = Leased
    PROVE  Append(log, log.last, to).chained
BY Zenon DEF Append

LEMMA FlushSerial ==
    ASSUME IInv, Serial, NEW w \in Worker, Flush(w)
    PROVE  AuditIsChain'
<1> SUFFICES ASSUME NEW c \in CmdId PROVE audit'[c].chained
  BY DEF AuditIsChain
<1> DEFINE buf == session[w].buf
<1>1. audit[c].chained /\ audit[c].last = cmd[c].status
  BY DEF Serial, AuditIsChain, IInv, GoodTable
<1>2. CASE c \in DOMAIN buf
  <2>1. /\ buf[c].from = cmd[c].status
        /\ cmd[c].status = buf[c].row.status => cmd[c].status = Leased
    BY <1>2 DEF Serial, UpToDate, GoesOn
  <2>2. audit'[c] = Append(audit[c], buf[c].from, buf[c].row.status)
    BY <1>2 DEF Flush
  <2>3. audit'[c] = Append(audit[c], audit[c].last, buf[c].row.status)
    BY <1>1, <2>1, <2>2
  <2> QED  BY <1>1, <2>1, <2>3, ChainGrows
<1>3. CASE c \notin DOMAIN buf
  BY <1>1, <1>3 DEF Flush
<1> QED  BY <1>2, <1>3

LEMMA EndSerial ==
    ASSUME Connections = 1, IInv, Serial, NEW w \in Worker,
           \/ Commit(w) \/ CreateReconciled(w) \/ Rollback(w)
           \/ \E c \in CmdId : CreateInsert(w, c)
    PROVE  Serial'
<1>0. ASSUME session' = [session EXCEPT ![w] = Idle]
      PROVE  /\ OnlySession(w) /\ ~InTx(w)' /\ NothingToSave(session'[w])
             /\ UpToDate(session'[w])
  BY <1>0, OneUpdate, IdleEmpty DEF InTx
<1>1. CASE Commit(w)
  BY <1>0, <1>1, FlushSerial, LoudSerial DEF Commit, InTx
<1>2. CASE CreateReconciled(w)
  <2>1. /\ OnlySession(w) /\ session'[w].pc = "between" /\ InTx(w)
        /\ session'[w].todo = session[w].todo /\ session'[w].buf = NoWrites
    BY <1>2, SessionShape DEF CreateReconciled, At, InTx, OnlySession
  <2>2. ~InTx(w)' /\ NothingToSave(session'[w])
    BY <1>2, <2>1 DEF InTx, CreateReconciled, Saved, NothingToSave, NoWrites
  <2> QED  BY <1>2, <2>1, <2>2, FlushSerial, LoudSerial DEF CreateReconciled
<1>3. CASE Rollback(w)
  BY <1>0, <1>3, QuietSerial DEF Rollback
<1>4. ASSUME NEW c \in CmdId, CreateInsert(w, c) PROVE Serial'
  <2>1. audit' = [audit EXCEPT ![c] = Append(@, "none", Queued)] /\ cmd[c].status = "none"
    BY <1>4 DEF CreateInsert, NoRow
  <2>2. AuditIsChain'
    BY <2>1 DEF Serial, AuditIsChain, IInv, GoodTable, Append, Queued
  <2>3. InTx(w)
    BY <1>4 DEF CreateInsert, At, InTx
  <2> QED  BY <1>0, <1>4, <2>2, <2>3, LoudSerial DEF CreateInsert
<1> QED  BY <1>1, <1>2, <1>3, <1>4

LEMMA CheckSerial ==
    ASSUME Connections = 1, IInv, Serial, NEW w \in Worker, CreateCheck(w)
    PROVE  Serial'
<1>1. /\ OnlySession(w) /\ session'[w].pc = "insert"
      /\ session'[w].todo = session[w].todo /\ session'[w].buf = session[w].buf
      /\ UNCHANGED <<cmd, audit>> /\ CanBegin
  BY SessionShape DEF CreateCheck, OnlySession
<1>2. UpToDate(session'[w]) /\ InTx(w)'
  BY <1>1 DEF Serial, UpToDate, GoesOn, InTx
<1> QED  BY <1>1, <1>2, QuietSerial

LEMMA SerialInvariant == ASSUME Connections = 1 PROVE Spec => []Serial
<1>1. Init => Serial
  <2> SUFFICES ASSUME Init PROVE Serial
    OBVIOUS
  <2>1. \A w \in Worker : session[w] = Idle /\ ~InTx(w)
    BY IdleEmpty DEF Init, InTx
  <2>2. AuditIsChain
    BY DEF Init, AuditIsChain, NoEvents
  <2> QED  BY <2>1, <2>2, IdleEmpty DEF Serial
<1>2. IInv /\ [Next]_vars /\ Serial => Serial'
  <2> SUFFICES ASSUME IInv, [Next]_vars, Serial PROVE Serial'
    OBVIOUS
  <2>1. ASSUME NEW w \in Worker, Continue(w) PROVE Serial'
    BY <2>1, SaveSerial, LeaseAckSerial, EndSerial, CheckSerial DEF Continue
  <2>2. CASE UNCHANGED <<cmd, audit, session>>
    BY <2>2 DEF Serial, UpToDate, GoesOn, NothingToSave, InTx, AuditIsChain
  <2> QED  BY <2>1, <2>2, CallSerial DEF Next, Tick, vars
<1> QED  BY <1>1, <1>2, Inductive, PTL DEF Spec

(***************************************************************************)
(* With one connection, as in the repository's tests, the events of every  *)
(* command form a chain of transitions that happened, each logged once: a  *)
(* status the hub reports again adds nothing.  Overlapping saves break it. *)
(***************************************************************************)
THEOREM AuditChains == ASSUME Connections = 1 PROVE Spec => []AuditIsChain
<1>1. Serial => AuditIsChain
  BY DEF Serial
<1> QED  BY <1>1, SerialInvariant, PTL

-----------------------------------------------------------------------------
(***************************************************************************)
(* What a transaction amounts to.  Result(w) is the table once w has saved *)
(* its rows and committed, Tidy the table after a reconciliation.          *)
(***************************************************************************)
Tidy(S, t) == [c \in CmdId |-> IF c \in S /\ Pending(cmd[c])
                               THEN Reconcile(cmd[c], t) ELSE cmd[c]]

Result(w) == [c \in CmdId |-> IF c \in DOMAIN session[w].todo
                              THEN session[w].todo[c].row ELSE View(w)[c]]

(* The rows a call reconciles.                                             *)
Reached(q) == IF q.op = "create" THEN OfNode(cmd, q.node)
              ELSE IF q.op = "pull" THEN OfHub(cmd, q.hub)
              ELSE OfHub(cmd, HubOf[cmd[q.cmd].node])

OfferedIn(table, S, t) ==
    {c \in S : table[c].status = Queued /\ ~CommandExpired(table[c], t)}

(* What the transactions that change rows make of the table.               *)
Pulled(table, h, t, d, max) ==
    LET clean == Tidy(OfHub(cmd, h), t) IN
    \E L \in SUBSET OfferedIn(clean, OfHub(cmd, h), t) :
       /\ OldestOf(clean, OfferedIn(clean, OfHub(cmd, h), t), L, max)
       /\ table = [c \in CmdId |-> IF c \in L THEN LeaseTo(clean[c], t + d) ELSE clean[c]]

Repeated(table, h, c, a, t) ==
    LET clean == Tidy(OfHub(cmd, h), t) IN
    c \in OfHub(cmd, h) /\ clean[c].status = a /\ table = clean

Applied(table, h, c, a, t) ==
    LET clean == Tidy(OfHub(cmd, h), t) IN
    /\ c \in OfHub(cmd, h) /\ AckAccepted(clean[c], a, t)
    /\ table = [clean EXCEPT ![c] = Acked(clean[c], a)]

Overdue(table, c, t) ==
    ShouldExpireOnAccess(cmd[c], t) /\ table = [cmd EXCEPT ![c] = Expire(cmd[c])]

OutcomeAt(table, t) ==
    \/ \E h \in Hub, d \in LeaseDuration, max \in 1..MaxPull : Pulled(table, h, t, d, max)
    \/ \E h \in Hub, c \in CmdId, a \in AckStatus :
          Repeated(table, h, c, a, t) \/ Applied(table, h, c, a, t)
    \/ \E c \in CmdId : Overdue(table, c, t)

Outcome(table) == \E t \in 0..now : OutcomeAt(table, t)

(* The arguments of a call that is being served.                           *)
Asked(q) ==
    /\ q.op # "none" => q.at \in 0..now
    /\ q.op = "create" => \E t0 \in 0..q.at, ttl \in TTL :
                             q.exp = t0 + ttl /\ t0 + ttl <= MaxTime
    /\ q.op = "pull" => (\E d \in LeaseDuration : q.until = q.at + d) /\ q.max \in 1..MaxPull

Promised(w) ==
    LET q == session[w].call IN
    /\ Asked(q)
    /\ session[w].pc = "reconcile" => /\ Result(w) = Tidy(Reached(q), q.at)
                                      /\ q.op = "ack" => Exists(cmd[q.cmd])
    /\ session[w].pc = "insert" => Admitted(q)
    /\ session[w].pc = "commit" => Outcome(Result(w))

Promises == now <= MaxTime /\ \A w \in Worker : Promised(w)

LEMMA SameTable ==
    ASSUME cmd' = cmd
    PROVE  /\ \A S, t : Tidy(S, t)' = Tidy(S, t)
           /\ \A q : Reached(q)' = Reached(q)
           /\ \A q : Admitted(q)' <=> Admitted(q)
           /\ \A table, t : OutcomeAt(table, t) => OutcomeAt(table, t)'
<1>1. \A S, t : Tidy(S, t)' = Tidy(S, t)
  BY DEF Tidy
<1>2. \A q : Reached(q)' = Reached(q)
  BY DEF Reached
<1>3. \A q : Admitted(q)' <=> Admitted(q)
  BY DEF Admitted, Replayed, WithinRateLimit, NodeBusy, OfNode
<1>4. ASSUME NEW table, NEW t, OutcomeAt(table, t) PROVE OutcomeAt(table, t)'
  <2>1. \A h, d, max : Pulled(table, h, t, d, max) => Pulled(table, h, t, d, max)'
    BY <1>1 DEF Pulled
  <2>2. \A h, c, a : /\ Repeated(table, h, c, a, t) => Repeated(table, h, c, a, t)'
                     /\ Applied(table, h, c, a, t) => Applied(table, h, c, a, t)'
    BY <1>1 DEF Repeated, Applied
  <2>3. \A c : Overdue(table, c, t) => Overdue(table, c, t)'
    BY DEF Overdue
  <2> QED  BY <1>4, <2>1, <2>2, <2>3 DEF OutcomeAt
<1> QED  BY <1>1, <1>2, <1>3, <1>4

(* A session after a step that leaves the table alone.                     *)
LEMMA QuietPromised ==
    ASSUME IInv, [Next]_vars, NEW v \in Worker, cmd' = cmd, NEW r, NEW q,
           r = session'[v], q = r.call, Asked(q),
           r.pc = "reconcile" => /\ Result(v)' = Tidy(Reached(q), q.at)
                                 /\ q.op = "ack" => Exists(cmd[q.cmd]),
           r.pc = "insert" => Admitted(q),
           r.pc = "commit" => Outcome(Result(v)')
    PROVE  Promised(v)'
<1>1. 0..now \subseteq 0..now'
  BY TimeGoesOn
<1>2. Asked(q)'
  BY <1>1 DEF Asked
<1>3. Tidy(Reached(q), q.at)' = Tidy(Reached(q), q.at)
  <2>1. PICK S, t : S = Reached(q) /\ t = q.at
    OBVIOUS
  <2>2. Tidy(S, t)' = Tidy(S, t) /\ Reached(q)' = Reached(q)
    BY SameTable
  <2> QED  BY <2>1, <2>2 DEF Tidy
<1>4. Admitted(q)' <=> Admitted(q)
  BY SameTable
<1>5. \A table : Outcome(table) => Outcome(table)'
  BY <1>1, SameTable DEF Outcome
<1>6. r.pc = "commit" => Outcome(Result(v))'
  <2>1. PICK table : table = Result(v)'
    OBVIOUS
  <2>2. r.pc = "commit" => Outcome(table)'
    BY <1>5, <2>1
  <2> QED  BY <2>1, <2>2 DEF Outcome
<1> QED  BY <1>2, <1>3, <1>4, <1>6 DEF Promised

(* A session that does not move, in a step that leaves the table alone.    *)
LEMMA StillPromised ==
    ASSUME IInv, [Next]_vars, NEW v \in Worker, Promised(v),
           session'[v] = session[v], cmd' = cmd
    PROVE  Promised(v)'
<1>1. Result(v)' = Result(v)
  BY DEF Result, View
<1> QED  BY <1>1, QuietPromised DEF Promised

(* A session outside a transaction, whatever happens to the table.         *)
LEMMA OutsidePromised ==
    ASSUME IInv, [Next]_vars, NEW v \in Worker, ~InTx(v)', Asked(session'[v].call)
    PROVE  Promised(v)'
<1>1. Asked(session[v].call)'
  BY TimeGoesOn DEF Asked
<1> QED  BY <1>1 DEF Promised, InTx

-----------------------------------------------------------------------------
(* What the statements promise, one by one.                                *)

LEMMA BeginShape ==
    ASSUME IInv, NEW w \in Worker, NEW call, NEW pc, NEW writes, Begin(w, call, pc, writes)
    PROVE  /\ OnlySession(w) /\ CanBegin /\ UNCHANGED <<now, cmd>>
           /\ session'[w].pc = pc /\ session'[w].call = call
           /\ session'[w].todo = writes /\ session'[w].buf = NoWrites
<1> DEFINE r == [pc |-> pc, call |-> call, todo |-> writes, buf |-> NoWrites]
<1>1. session' = [session EXCEPT ![w] = r] /\ CanBegin /\ UNCHANGED <<now, cmd>>
  BY DEF Begin
<1>2. r.pc = pc /\ r.call = call /\ r.todo = writes /\ r.buf = NoWrites
  OBVIOUS
<1> HIDE DEF r
<1> QED  BY <1>1, <1>2, OneUpdate

(* The saves of a reconciliation make the tidy table.                      *)
LEMMA ReconcileResult ==
    ASSUME NEW w \in Worker, NEW S \in SUBSET CmdId, NEW t, cmd' = cmd,
           session'[w].todo = ReconcileWrites(S, t), session'[w].buf = NoWrites
    PROVE  Result(w)' = Tidy(S, t)
<1> DEFINE stale == {c \in S : Pending(cmd[c]) /\ Reconcile(cmd[c], t) # cmd[c]}
           todo  == session'[w].todo
<1>1. \A c \in CmdId : View(w)'[c] = cmd[c]
  BY DEF View, NoWrites
<1>2. DOMAIN todo = stale /\ \A c \in stale : todo[c].row = Reconcile(cmd[c], t)
  BY DEF ReconcileWrites, Write
<1>3. ASSUME NEW c \in CmdId PROVE Result(w)'[c] = Tidy(S, t)[c]
  <2>1. CASE c \in stale
    BY <1>2, <2>1 DEF Result, Tidy
  <2>2. CASE c \notin stale
    BY <1>1, <1>2, <2>2 DEF Result, Tidy
  <2> QED  BY <2>1, <2>2
<1> QED  BY <1>3 DEF Result, Tidy

LEMMA CallPromised ==
    ASSUME IInv, now <= MaxTime, [Next]_vars, NEW w \in Worker, Call(w)
    PROVE  Promised(w)'
<1> PICK t \in ClockReading :
       \/ \E n \in Node, k \in Key, t0 \in ClockReading, ttl \in TTL :
             CreateBegin(w, n, k, t0, t, ttl)
       \/ \E h \in Hub, d \in LeaseDuration, max \in 1..MaxPull : PullBegin(w, h, t, d, max)
       \/ \E h \in Hub, c \in CmdId, s \in AckStatus : AckBegin(w, h, c, s, t)
       \/ \E c \in CmdId : GetStatus(w, c, t)
  BY DEF Call
<1>0. t \in 0..now
  BY DEF ClockReading
<1>1. ASSUME NEW n \in Node, NEW k \in Key, NEW t0 \in ClockReading, NEW ttl \in TTL,
             CreateBegin(w, n, k, t0, t, ttl)
      PROVE  Promised(w)'
  <2> DEFINE q == [op |-> "create", node |-> n, key |-> k, exp |-> t0 + ttl, at |-> t]
  <2>1. /\ t0 <= t /\ t0 + ttl <= MaxTime
        /\ Begin(w, q, "reconcile", ReconcileWrites(OfNode(cmd, n), t))
    BY <1>1 DEF CreateBegin
  <2>2. t0 \in 0..t
    BY <1>0, <2>1, ReadingTyped
  <2>3. Asked(q)
    BY <1>0, <2>1, <2>2 DEF Asked
  <2>4. Reached(q) = OfNode(cmd, n) /\ q.at = t /\ q.op # "ack"
    BY DEF Reached
  <2> HIDE DEF q
  <2>5. Result(w)' = Tidy(Reached(q), q.at)
    BY <2>1, <2>4, BeginShape, ReconcileResult, OfNodeCommands
  <2> QED  BY <2>1, <2>3, <2>4, <2>5, BeginShape, QuietPromised
<1>2. ASSUME NEW h \in Hub, NEW d \in LeaseDuration, NEW max \in 1..MaxPull,
             PullBegin(w, h, t, d, max)
      PROVE  Promised(w)'
  <2> DEFINE q == [op |-> "pull", hub |-> h, at |-> t, until |-> t + d, max |-> max]
  <2>1. Begin(w, q, "reconcile", ReconcileWrites(OfHub(cmd, h), t))
    BY <1>2 DEF PullBegin
  <2>2. Asked(q)
    BY <1>0 DEF Asked
  <2>3. Reached(q) = OfHub(cmd, h) /\ q.at = t /\ q.op # "ack"
    BY DEF Reached
  <2> HIDE DEF q
  <2>4. Result(w)' = Tidy(Reached(q), q.at)
    BY <2>1, <2>3, BeginShape, ReconcileResult, OfHubCommands
  <2> QED  BY <2>1, <2>2, <2>3, <2>4, BeginShape, QuietPromised
<1>3. ASSUME NEW h \in Hub, NEW c \in CmdId, NEW a \in AckStatus, AckBegin(w, h, c, a, t)
      PROVE  Promised(w)'
  <2> DEFINE q == [op |-> "ack", cmd |-> c, status |-> a, at |-> t]
  <2>1. c \in OfHub(cmd, h) /\ Begin(w, q, "reconcile", ReconcileWrites(OfHub(cmd, h), t))
    BY <1>3 DEF AckBegin
  <2>2. Asked(q)
    BY <1>0 DEF Asked
  <2>3. Reached(q) = OfHub(cmd, h) /\ q.at = t /\ Exists(cmd[q.cmd])
    BY <2>1 DEF Reached, OfHub
  <2> HIDE DEF q
  <2>4. Result(w)' = Tidy(Reached(q), q.at)
    BY <2>1, <2>3, BeginShape, ReconcileResult, OfHubCommands
  <2> QED  BY <2>1, <2>2, <2>3, <2>4, BeginShape, QuietPromised
<1>4. ASSUME NEW c \in CmdId, GetStatus(w, c, t) PROVE Promised(w)'
  <2> DEFINE x == Write(cmd[c], Expire(cmd[c]))
             f == [e \in {c} |-> x]
  <2>1. x.row = Expire(cmd[c])
    BY DEF Write
  <2> HIDE DEF x
  <2>2. ShouldExpireOnAccess(cmd[c], t) /\ Begin(w, NoCall, "commit", f)
    BY <1>4 DEF GetStatus, x
  <2>3. DOMAIN f = {c} /\ f[c] = x
    OBVIOUS
  <2> HIDE DEF f
  <2>4. \A e \in CmdId : Result(w)'[e] = IF e = c THEN Expire(cmd[c]) ELSE cmd[e]
    BY <2>1, <2>2, <2>3, BeginShape DEF Result, View, NoWrites
  <2>5. Result(w)' = [cmd EXCEPT ![c] = Expire(cmd[c])]
    BY <2>4 DEF Result, IInv, GoodTable
  <2>6. Outcome(Result(w)')
    BY <1>0, <2>2, <2>5 DEF Outcome, OutcomeAt, Overdue
  <2>7. Asked(NoCall)
    BY DEF Asked, NoCall
  <2> QED  BY <2>2, <2>6, <2>7, BeginShape, QuietPromised
<1> QED  BY <1>1, <1>2, <1>3, <1>4

LEMMA SavePromised ==
    ASSUME IInv, [Next]_vars, NEW w \in Worker, Promised(w), Save(w)
    PROVE  Promised(w)'
<1> DEFINE s == session[w]
           r == session'[w]
<1>1. PICK c \in DOMAIN s.todo :
         /\ r.todo = [d \in DOMAIN s.todo \ {c} |-> s.todo[d]]
         /\ r.buf = [d \in DOMAIN s.buf \cup {c} |->
               IF d # c THEN s.buf[d]
               ELSE [from |-> IF c \in DOMAIN s.buf THEN s.buf[c].from ELSE s.todo[c].from,
                     row  |-> s.todo[c].row]]
  BY SaveShape
<1>2. /\ DOMAIN r.todo = DOMAIN s.todo \ {c}
      /\ \A d \in DOMAIN r.todo : r.todo[d] = s.todo[d]
      /\ DOMAIN r.buf = DOMAIN s.buf \cup {c} /\ r.buf[c].row = s.todo[c].row
      /\ \A d \in DOMAIN r.buf : d # c => r.buf[d] = s.buf[d]
  <2> HIDE DEF r
  <2> QED  BY <1>1
<1>3. cmd' = cmd /\ r.pc = s.pc /\ r.call = s.call
  BY SaveShape
<1>4. \A d \in CmdId : Result(w)'[d] = Result(w)[d]
  BY <1>2, <1>3 DEF Result, View
<1>5. Result(w)' = Result(w)
  BY <1>4 DEF Result
<1> QED  BY <1>3, <1>5, QuietPromised DEF Promised

(* The table once a transaction has made its last saves.                   *)
LEMMA FinalResult ==
    ASSUME IInv, NEW w \in Worker, NEW writes, Finally(w, writes)
    PROVE  Result(w)' = [c \in CmdId |-> IF c \in DOMAIN writes THEN writes[c].row
                                                                ELSE View(w)[c]]
<1>1. /\ session'[w].todo = writes /\ session'[w].buf = session[w].buf
      /\ cmd' = cmd
  BY FinalShape DEF Finally
<1> QED  BY <1>1 DEF Result, View

LEMMA FinalPromised ==
    ASSUME IInv, [Next]_vars, NEW w \in Worker, NEW writes, Finally(w, writes),
           NEW t \in 0..now,
           OutcomeAt([c \in CmdId |-> IF c \in DOMAIN writes THEN writes[c].row
                                                             ELSE View(w)[c]], t)
    PROVE  Promised(w)'
<1>1. Outcome(Result(w)')
  BY FinalResult DEF Outcome
<1>2. session'[w].pc = "commit" /\ session'[w].call = NoCall /\ cmd' = cmd
  BY FinalShape DEF Finally
<1>3. Asked(NoCall)
  BY DEF Asked, NoCall
<1> QED  BY <1>1, <1>2, <1>3, QuietPromised

(* After the reconciling saves a transaction reads the tidy table.         *)
LEMMA ReadsTidy ==
    ASSUME IInv, NEW w \in Worker, Promised(w), Saved(w), session[w].pc = "reconcile"
    PROVE  /\ View(w) = Tidy(Reached(session[w].call), session[w].call.at)
           /\ \A h : OfHub(View(w), h) = OfHub(cmd, h)
<1>1. View(w) = Result(w)
  BY DEF View, Result, Saved
<1>2. \A c \in CmdId : /\ Exists(View(w)[c]) <=> Exists(cmd[c])
                       /\ Exists(cmd[c]) => View(w)[c].node = cmd[c].node
  BY ViewRow, RowOrNoRow DEF IInv, GoodTable, SameCommand
<1> QED  BY <1>1, <1>2 DEF Promised, OfHub

LEMMA PullPromised ==
    ASSUME IInv, [Next]_vars, NEW w \in Worker, Promised(w), PullLease(w)
    PROVE  Promised(w)'
<1> DEFINE q     == session[w].call
           clean == Tidy(OfHub(cmd, q.hub), q.at)
           S     == OfferedIn(clean, OfHub(cmd, q.hub), q.at)
<1>1. /\ q.op = "pull" /\ session[w].pc = "reconcile" /\ Saved(w)
      /\ q.hub \in Hub /\ q.at \in 0..now /\ q.max \in 1..MaxPull
      /\ Reached(q) = OfHub(cmd, q.hub)
  BY SessionParts DEF PullLease, At, Promised, Asked, GoodCall, Calls, Reached
<1>2. View(w) = clean /\ OfHub(View(w), q.hub) = OfHub(cmd, q.hub)
  BY <1>1, ReadsTidy
<1>3. PICK d \in LeaseDuration : q.until = q.at + d
  BY <1>1 DEF Promised, Asked
<1>4. PICK L \in SUBSET S :
         /\ OldestOf(clean, S, L, q.max)
         /\ Finally(w, [c \in L |-> Write(clean[c], LeaseTo(clean[c], q.until))])
  BY <1>2 DEF PullLease, OfferedIn
<1> DEFINE f     == [c \in L |-> Write(clean[c], LeaseTo(clean[c], q.until))]
           table == [c \in CmdId |-> IF c \in DOMAIN f THEN f[c].row ELSE View(w)[c]]
<1>5. table = [c \in CmdId |-> IF c \in L THEN LeaseTo(clean[c], q.at + d) ELSE clean[c]]
  BY <1>2, <1>3 DEF Write
<1>6. Pulled(table, q.hub, q.at, d, q.max)
  <2> HIDE DEF table
  <2> QED  BY <1>4, <1>5 DEF Pulled
<1>7. OutcomeAt(table, q.at)
  BY <1>1, <1>6 DEF OutcomeAt
<1> HIDE DEF f
<1>8. Finally(w, f)
  BY <1>4 DEF f
<1> QED  BY <1>1, <1>7, <1>8, FinalPromised

LEMMA AckPromised ==
    ASSUME IInv, [Next]_vars, NEW w \in Worker, Promised(w), AckRepeated(w) \/ AckApplied(w)
    PROVE  Promised(w)'
<1> DEFINE q     == session[w].call
           h     == HubOf[cmd[q.cmd].node]
           clean == Tidy(OfHub(cmd, h), q.at)
<1>1. /\ q.op = "ack" /\ session[w].pc = "reconcile" /\ Saved(w)
      /\ q.cmd \in CmdId /\ q.status \in AckStatus /\ q.at \in 0..now
      /\ Reached(q) = OfHub(cmd, h) /\ Exists(cmd[q.cmd])
  <2>1. q.op = "ack" /\ session[w].pc = "reconcile" /\ Saved(w) /\ q \in Calls
    BY SessionParts DEF AckRepeated, AckApplied, At, GoodCall
  <2> QED  BY <2>1 DEF Promised, Asked, Calls, Reached
<1>2. h \in Hub /\ q.cmd \in OfHub(cmd, h)
  BY <1>1, RowOrNoRow, RCAssumption DEF IInv, GoodTable, OfHub, Row
<1>3. View(w) = clean
  BY <1>1, ReadsTidy
<1>4. CASE AckRepeated(w)
  <2> DEFINE table == [c \in CmdId |-> IF c \in DOMAIN NoWrites THEN NoWrites[c].row
                                                               ELSE View(w)[c]]
  <2>1. table = clean
    BY <1>3 DEF NoWrites, Tidy
  <2>2. clean[q.cmd].status = q.status /\ Finally(w, NoWrites)
    BY <1>3, <1>4 DEF AckRepeated
  <2>3. Repeated(table, h, q.cmd, q.status, q.at)
    BY <1>2, <2>1, <2>2 DEF Repeated
  <2>4. OutcomeAt(table, q.at)
    BY <1>1, <1>2, <2>3 DEF OutcomeAt
  <2> QED  BY <1>1, <2>2, <2>4, FinalPromised
<1>5. CASE AckApplied(w)
  <2> DEFINE x     == Write(clean[q.cmd], Acked(clean[q.cmd], q.status))
             f     == [c \in {q.cmd} |-> x]
             table == [c \in CmdId |-> IF c \in DOMAIN f THEN f[c].row ELSE View(w)[c]]
  <2>1. AckAccepted(clean[q.cmd], q.status, q.at) /\ Finally(w, f)
    BY <1>3, <1>5 DEF AckApplied
  <2>2. x.row = Acked(clean[q.cmd], q.status)
    BY DEF Write
  <2> HIDE DEF x
  <2>3. DOMAIN f = {q.cmd} /\ f[q.cmd] = x
    OBVIOUS
  <2> HIDE DEF f
  <2>4. \A c \in CmdId : table[c] = IF c = q.cmd THEN Acked(clean[q.cmd], q.status) ELSE clean[c]
    BY <1>3, <2>2, <2>3
  <2>5. table = [clean EXCEPT ![q.cmd] = Acked(clean[q.cmd], q.status)]
    BY <2>4 DEF Tidy
  <2> HIDE DEF table
  <2>6. Applied(table, h, q.cmd, q.status, q.at)
    BY <1>2, <2>1, <2>5 DEF Applied
  <2>7. OutcomeAt(table, q.at)
    BY <1>1, <1>2, <2>6 DEF OutcomeAt
  <2> QED  BY <1>1, <2>1, <2>7, FinalPromised DEF table
<1> QED  BY <1>4, <1>5

LEMMA EndPromised ==
    ASSUME IInv, [Next]_vars, NEW w \in Worker, Promised(w),
           \/ CreateReconciled(w) \/ CreateCheck(w) \/ Commit(w) \/ Rollback(w)
           \/ \E c \in CmdId : CreateInsert(w, c)
    PROVE  Promised(w)'
<1>1. CASE CreateCheck(w)
  <2>1. session'[w].pc = "insert" /\ session'[w].call = session[w].call /\ cmd' = cmd
    BY <1>1, SessionShape DEF CreateCheck
  <2>2. Admitted(session[w].call)
    BY <1>1 DEF CreateCheck
  <2> QED  BY <2>1, <2>2, QuietPromised DEF Promised
<1>2. CASE CreateReconciled(w)
  <2>1. session'[w].pc = "between" /\ session'[w].call = session[w].call
    BY <1>2, SessionShape DEF CreateReconciled
  <2> QED  BY <2>1, OutsidePromised DEF InTx, Promised
<1>3. CASE Commit(w) \/ Rollback(w) \/ \E c \in CmdId : CreateInsert(w, c)
  <2>1. session'[w] = Idle
    BY <1>3, OneUpdate DEF Commit, Rollback, CreateInsert
  <2>2. Asked(Idle.call) /\ Idle.pc = "idle"
    BY DEF Asked, Idle, NoCall
  <2> QED  BY <2>1, <2>2, OutsidePromised DEF InTx
<1> QED  BY <1>1, <1>2, <1>3

(* The steps that leave the table alone and those that do not.             *)
LEMMA TableKept ==
    ASSUME NEW w \in Worker,
           \/ Call(w) \/ Save(w) \/ PullLease(w) \/ AckRepeated(w) \/ AckApplied(w)
           \/ CreateCheck(w) \/ Rollback(w)
    PROVE  UNCHANGED <<now, cmd>>
<1>1. CASE Call(w)
  BY <1>1 DEF Call, CreateBegin, PullBegin, AckBegin, GetStatus, Begin
<1>2. CASE PullLease(w) \/ AckRepeated(w) \/ AckApplied(w)
  BY <1>2 DEF PullLease, AckRepeated, AckApplied, Finally
<1> QED  BY <1>1, <1>2 DEF Save, CreateCheck, Rollback

LEMMA TableWritten ==
    ASSUME IInv, NEW w \in Worker,
           Commit(w) \/ CreateReconciled(w) \/ \E c \in CmdId : CreateInsert(w, c)
    PROVE  InTx(w) /\ OnlySession(w) /\ now' = now
<1>1. CASE Commit(w) \/ \E c \in CmdId : CreateInsert(w, c)
  BY <1>1, OneUpdate DEF Commit, CreateInsert, At, InTx
<1>2. CASE CreateReconciled(w)
  BY <1>2, SessionShape DEF CreateReconciled, At, InTx, OnlySession
<1> QED  BY <1>1, <1>2

LEMMA PromisesStep ==
    ASSUME IInv, Serial, Promises, [Next]_vars
    PROVE  Promises'
<1>1. CASE Tick \/ UNCHANGED vars
  <2>1. now' <= MaxTime /\ cmd' = cmd /\ session' = session
    BY <1>1, RCAssumption DEF Tick, vars, IInv, Promises
  <2> QED  BY <2>1, StillPromised DEF Promises
<1>2. ASSUME NEW w \in Worker, Call(w) \/ Continue(w), Moves(w) PROVE Promises'
  <2>1. Promised(w)'
    <3>1. now <= MaxTime /\ Promised(w)
      BY DEF Promises
    <3> QED  BY <1>2, <3>1, CallPromised, SavePromised, PullPromised, AckPromised,
             EndPromised DEF Continue
  <2>2. ASSUME NEW v \in Worker, v # w, cmd' = cmd PROVE Promised(v)'
    BY <1>2, <2>2, StillPromised DEF Moves, OnlySession, Promises
  <2>3. ASSUME NEW v \in Worker, v # w, InTx(w) PROVE Promised(v)'
    <3>1. session'[v] = session[v] /\ ~InTx(v)
      BY <1>2, <2>3 DEF Moves, OnlySession, Serial
    <3>2. Asked(session'[v].call)
      BY <3>1 DEF Promises, Promised
    <3> QED  BY <3>1, <3>2, OutsidePromised DEF InTx
  <2>4. now' = now /\ (cmd' = cmd \/ InTx(w))
    BY <1>2, TableKept, TableWritten DEF Continue
  <2> QED  BY <2>1, <2>2, <2>3, <2>4 DEF Promises
<1> QED  BY <1>1, <1>2, CallMoves, ContinueMoves DEF Next

LEMMA PromisesInvariant == ASSUME Connections = 1 PROVE Spec => []Promises
<1>1. Init => Promises
  <2> SUFFICES ASSUME Init, NEW w \in Worker PROVE now <= MaxTime /\ Promised(w)
    BY RCAssumption DEF Init, Promises
  <2>1. session[w].pc = "idle" /\ session[w].call.op = "none" /\ now = 0
    BY DEF Init, Idle, NoCall
  <2> QED  BY <2>1, RCAssumption DEF Promised, Asked
<1>2. IInv /\ Serial /\ Promises /\ [Next]_vars => Promises'
  BY PromisesStep
<1> QED  BY <1>1, <1>2, Inductive, SerialInvariant, PTL DEF Spec

-----------------------------------------------------------------------------
(* The operators of ControlService on this table.                          *)

LEMMA AtomicRows ==
    /\ \A r : Atomic!Exists(r) <=> Exists(r)
    /\ \A r : Atomic!Active(r) <=> Active(r)
    /\ \A r : Atomic!Pending(r) <=> Pending(r)
    /\ \A r, t : Atomic!Reconcile(r, t) = Reconcile(r, t)
    /\ \A r, u : Atomic!LeaseTo(r, u) = LeaseTo(r, u)
    /\ \A r, a : Atomic!Acked(r, a) = Acked(r, a)
    /\ \A r, a, t : Atomic!AckAccepted(r, a, t) <=> AckAccepted(r, a, t)
    /\ \A r, t : Atomic!ShouldExpireOnAccess(r, t) <=> ShouldExpireOnAccess(r, t)
    /\ \A r, t : Atomic!CommandExpired(r, t) <=> CommandExpired(r, t)
    /\ \A r : Atomic!Expire(r) = Expire(r)
    /\ \A n, k, e, t : Atomic!NewRow(n, k, e, t) = NewRow(n, k, e, t)
    /\ Atomic!NoRow = NoRow /\ Atomic!Queued = Queued /\ Atomic!AckStatus = AckStatus
<1> USE DEF Atomic!Queued, Queued, Atomic!Leased, Leased, Atomic!Sent, Sent,
        Atomic!Executing, Executing, Atomic!Succeeded, Succeeded, Atomic!Failed, Failed,
        Atomic!Expired, Expired, Atomic!Cancelled, Cancelled, Atomic!NoLease, NoLease,
        Atomic!ActiveStatus, ActiveStatus, Atomic!TerminalStatus, TerminalStatus,
        Atomic!PendingStatus, PendingStatus, Atomic!Status, Status
<1>1. /\ \A r : Atomic!Exists(r) <=> Exists(r)
      /\ \A r : Atomic!Active(r) <=> Active(r)
      /\ \A r : Atomic!Pending(r) <=> Pending(r)
      /\ Atomic!NoRow = NoRow /\ Atomic!Queued = Queued
  BY DEF Atomic!Exists, Exists, Atomic!Active, Active, Atomic!Pending, Pending,
     Atomic!NoRow, NoRow
<1>2. \A r, t : Atomic!Reconcile(r, t) = Reconcile(r, t)
  BY DEF Atomic!Reconcile, Reconcile, Atomic!CommandExpired, CommandExpired,
     Atomic!LeaseExpired, LeaseExpired, Atomic!Expire, Expire, Atomic!Requeue, Requeue
<1>3. /\ \A r, u : Atomic!LeaseTo(r, u) = LeaseTo(r, u)
      /\ \A r : Atomic!Expire(r) = Expire(r)
  BY DEF Atomic!LeaseTo, LeaseTo, Atomic!Expire, Expire
<1>4. \A r, a : Atomic!Acked(r, a) = Acked(r, a)
  BY DEF Atomic!Acked, Acked
<1>5. \A r, a, t : Atomic!AckAccepted(r, a, t) <=> AckAccepted(r, a, t)
  BY DEF Atomic!AckAccepted, AckAccepted, Atomic!CommandExpired, CommandExpired,
     Atomic!AckTransition, AckTransition
<1>6. /\ \A r, t : Atomic!ShouldExpireOnAccess(r, t) <=> ShouldExpireOnAccess(r, t)
      /\ \A r, t : Atomic!CommandExpired(r, t) <=> CommandExpired(r, t)
  BY DEF Atomic!ShouldExpireOnAccess, ShouldExpireOnAccess, Atomic!CommandExpired,
     CommandExpired, Atomic!Pending, Pending
<1>7. \A n, k, e, t : Atomic!NewRow(n, k, e, t) = NewRow(n, k, e, t)
  BY DEF Atomic!NewRow, NewRow
<1>8. Atomic!AckStatus = AckStatus
  BY DEF Atomic!AckStatus, AckStatus
<1> QED  BY <1>1, <1>2, <1>3, <1>4, <1>5, <1>6, <1>7, <1>8

LEMMA AtomicTables ==
    /\ \A h : Atomic!OfHub(h) = OfHub(cmd, h)
    /\ \A n : Atomic!OfNode(n) = OfNode(cmd, n)
    /\ \A S, t : Atomic!Reconciled(S, t) = Tidy(S, t)
    /\ \A table, h, t : Atomic!Offered(table, h, t) = OfferedIn(table, OfHub(cmd, h), t)
    /\ \A q : Atomic!Admitted(q) <=> Admitted(q)
    /\ \A S : Atomic!Cardinality(S) = Cardinality(S)
<1> USE DEF Atomic!Exists, Exists, Atomic!Status, Status, Atomic!ActiveStatus, ActiveStatus,
        Atomic!TerminalStatus, TerminalStatus, Atomic!Queued, Queued, Atomic!Leased, Leased,
        Atomic!Sent, Sent, Atomic!Executing, Executing, Atomic!Succeeded, Succeeded,
        Atomic!Failed, Failed, Atomic!Expired, Expired, Atomic!Cancelled, Cancelled
<1>1. \A h : Atomic!OfHub(h) = OfHub(cmd, h)
  BY DEF Atomic!OfHub, OfHub
<1>2. \A n : Atomic!OfNode(n) = OfNode(cmd, n)
  BY DEF Atomic!OfNode, OfNode
<1>3. ASSUME NEW S, NEW t PROVE Atomic!Reconciled(S, t) = Tidy(S, t)
  <2>1. \A r : Atomic!Pending(r) <=> Pending(r)
    BY AtomicRows
  <2>2. \A r : Atomic!Reconcile(r, t) = Reconcile(r, t)
    BY AtomicRows
  <2> QED  BY <2>1, <2>2 DEF Atomic!Reconciled, Tidy
<1>4. ASSUME NEW table, NEW h, NEW t
      PROVE  Atomic!Offered(table, h, t) = OfferedIn(table, OfHub(cmd, h), t)
  BY <1>1 DEF Atomic!Offered, OfferedIn, Atomic!CommandExpired, CommandExpired
<1>5. \A S : Atomic!Cardinality(S) = Cardinality(S)
  BY DEF Atomic!Cardinality, Cardinality
<1>6. ASSUME NEW q PROVE Atomic!Admitted(q) <=> Admitted(q)
  <2>1. Atomic!Replayed(q) <=> Replayed(q)
    BY <1>2 DEF Atomic!Replayed, Replayed
  <2>2. Atomic!WithinRateLimit(q) <=> WithinRateLimit(q)
    BY <1>2, <1>5 DEF Atomic!WithinRateLimit, Atomic!RecentCommands, WithinRateLimit
  <2>3. Atomic!NodeBusy(q) <=> NodeBusy(q)
    BY <1>2, AtomicRows DEF Atomic!NodeBusy, NodeBusy
  <2> QED  BY <2>1, <2>2, <2>3 DEF Atomic!Admitted, Admitted
<1> QED  BY <1>1, <1>2, <1>3, <1>4, <1>5, <1>6

LEMMA AtomicReadings ==
    ASSUME IInv, Promises
    PROVE  Atomic!ClockReading = 0..now
BY RCAssumption DEF IInv, Promises, Atomic!ClockReading

(* A transaction that commits is one step of ControlService.               *)
LEMMA OutcomeImplements ==
    ASSUME IInv, Promises, Outcome(cmd'), UNCHANGED <<now, Creates>>
    PROVE  Atomic!Next
<1> PICK t \in Atomic!ClockReading : OutcomeAt(cmd', t)
  BY AtomicReadings DEF Outcome
<1>1. ASSUME NEW h \in Hub, NEW d \in LeaseDuration, NEW max \in 1..MaxPull,
             Pulled(cmd', h, t, d, max)
      PROVE  Atomic!Next
  <2> DEFINE clean == Tidy(OfHub(cmd, h), t)
             S     == OfferedIn(clean, OfHub(cmd, h), t)
  <2>1. PICK L \in SUBSET S :
           /\ OldestOf(clean, S, L, max)
           /\ cmd' = [c \in CmdId |-> IF c \in L THEN LeaseTo(clean[c], t + d) ELSE clean[c]]
    BY <1>1 DEF Pulled
  <2>2. L \in SUBSET OfHub(cmd, h)
    BY DEF OfferedIn
  <2> HIDE DEF clean, S
  <2>3. Atomic!OldestOf(clean, S, L, max)
    BY <2>1, AtomicTables DEF Atomic!OldestOf, OldestOf
  <2>4. Atomic!Pull(h, t, d, max)
    BY <2>1, <2>2, <2>3, AtomicRows, AtomicTables DEF Atomic!Pull, clean, S
  <2> QED  BY <2>4 DEF Atomic!Next, Atomic!HubCall
<1>2. ASSUME NEW h \in Hub, NEW c \in CmdId, NEW a \in AckStatus,
             Repeated(cmd', h, c, a, t) \/ Applied(cmd', h, c, a, t)
      PROVE  Atomic!Next
  <2>1. Atomic!AckRepeated(h, c, a, t) \/ Atomic!AckApplied(h, c, a, t)
    BY <1>2, AtomicRows, AtomicTables DEF Repeated, Applied, Atomic!AckRepeated, Atomic!AckApplied
  <2> QED  BY <2>1, AtomicRows DEF Atomic!Next, Atomic!HubCall
<1>3. ASSUME NEW c \in CmdId, Overdue(cmd', c, t) PROVE Atomic!Next
  <2>1. Atomic!GetStatus(c, t)
    BY <1>3, AtomicRows DEF Overdue, Atomic!GetStatus
  <2> QED  BY <2>1 DEF Atomic!Next
<1> QED  BY <1>1, <1>2, <1>3 DEF OutcomeAt

(* The creates between their transactions, after a step of session w.      *)
LEMMA CreatesKept ==
    ASSUME NEW w \in Worker, OnlySession(w), InFlight(w)' <=> InFlight(w),
           InFlight(w) => session'[w].call = session[w].call
    PROVE  Creates' = Creates
<1>1. ASSUME NEW v \in Worker, v # w PROVE Creates'[v] = Creates[v]
  BY <1>1 DEF OnlySession, Creates, InFlight
<1>2. Creates'[w] = Creates[w]
  BY DEF Creates
<1> QED  BY <1>1, <1>2 DEF Creates

LEMMA CreatesUpdate ==
    ASSUME NEW w \in Worker, OnlySession(w), NEW x, Creates'[w] = x
    PROVE  Creates' = [Creates EXCEPT ![w] = x]
<1>1. ASSUME NEW v \in Worker, v # w PROVE Creates'[v] = Creates[v]
  BY <1>1 DEF OnlySession, Creates, InFlight
<1> QED  BY <1>1 DEF Creates

LEMMA NotInFlight ==
    ASSUME NEW w \in Worker
    PROVE  /\ ~InFlight(w) => Creates[w] = Atomic!NoRequest
           /\ (~InFlight(w))' => Creates'[w] = Atomic!NoRequest
           /\ InFlight(w) => Creates[w] # Atomic!NoRequest
BY DEF Creates, Atomic!NoRequest

LEMMA IdleNotInFlight ==
    ASSUME IInv, NEW w \in Worker, session' = [session EXCEPT ![w] = Idle]
    PROVE  /\ OnlySession(w) /\ ~InFlight(w)'
           /\ Creates' = [Creates EXCEPT ![w] = Atomic!NoRequest]
<1>1. OnlySession(w) /\ session'[w] = Idle
  BY OneUpdate
<1>2. ~InFlight(w)'
  BY <1>1, IdleEmpty DEF InFlight
<1> QED  BY <1>1, <1>2, NotInFlight, CreatesUpdate

(* Before a transaction commits, ControlService does not see it.           *)
LEMMA StatementStutters ==
    ASSUME IInv, NEW w \in Worker,
           \/ Call(w) \/ Save(w) \/ PullLease(w) \/ AckRepeated(w) \/ AckApplied(w)
           \/ CreateCheck(w)
    PROVE  UNCHANGED <<now, cmd, Creates>>
<1>1. UNCHANGED <<now, cmd>>
  BY TableKept
<1>2. CASE Call(w)
  <2>1. ASSUME NEW call, NEW pc \in {"reconcile", "commit"}, NEW writes,
               Begin(w, call, pc, writes)
        PROVE  Creates' = Creates
    <3>1. OnlySession(w) /\ session'[w].pc = pc /\ session[w].pc = "idle"
      BY <2>1, BeginShape, IdleEmpty DEF Begin
    <3> QED  BY <3>1, CreatesKept DEF InFlight
  <2>2. Creates' = Creates
    BY <1>2, <2>1 DEF Call, CreateBegin, PullBegin, AckBegin, GetStatus
  <2> QED  BY <1>1, <2>2
<1>3. CASE Save(w)
  <2>1. Creates' = Creates
    BY <1>3, SaveShape, CreatesKept DEF InFlight
  <2> QED  BY <1>1, <2>1
<1>4. CASE PullLease(w) \/ AckRepeated(w) \/ AckApplied(w)
  <2>1. PICK writes : Finally(w, writes)
    BY <1>4 DEF PullLease, AckRepeated, AckApplied
  <2>2. OnlySession(w) /\ session'[w].pc = "commit" /\ session[w].pc = "reconcile"
    BY <1>4, <2>1, FinalShape DEF PullLease, AckRepeated, AckApplied, At
  <2>3. Creates' = Creates
    BY <2>2, CreatesKept DEF InFlight
  <2> QED  BY <1>1, <2>3
<1>5. CASE CreateCheck(w)
  <2>1. /\ OnlySession(w) /\ session[w].pc = "between" /\ session'[w].pc = "insert"
        /\ session'[w].call = session[w].call
    BY <1>5, SessionShape DEF CreateCheck, OnlySession, At
  <2>2. Creates' = Creates
    BY <2>1, CreatesKept DEF InFlight
  <2> QED  BY <1>1, <2>2
<1> QED  BY <1>2, <1>3, <1>4, <1>5

LEMMA CommitImplements ==
    ASSUME IInv, Promises, NEW w \in Worker, Commit(w)
    PROVE  Atomic!Next
<1>1. session[w].pc = "commit" /\ Saved(w) /\ cmd' = View(w) /\ now' = now
  BY DEF Commit, Flush
<1>2. cmd' = Result(w)
  BY <1>1 DEF Saved, Result, View
<1>3. Outcome(cmd')
  BY <1>1, <1>2 DEF Promises, Promised
<1>4. OnlySession(w) /\ ~InFlight(w)'
  BY IdleNotInFlight DEF Commit
<1>5. Creates' = Creates
  BY <1>1, <1>4, CreatesKept DEF InFlight
<1> QED  BY <1>1, <1>3, <1>5, OutcomeImplements

LEMMA RollbackImplements ==
    ASSUME IInv, NEW w \in Worker, Rollback(w)
    PROVE  Atomic!Next \/ UNCHANGED <<now, cmd, Creates>>
<1>1. /\ UNCHANGED <<now, cmd>> /\ OnlySession(w) /\ ~InFlight(w)'
      /\ Creates' = [Creates EXCEPT ![w] = Atomic!NoRequest]
  BY IdleNotInFlight DEF Rollback
<1>2. CASE InFlight(w)
  <2>1. Atomic!CreateAbort(w)
    BY <1>1, <1>2, NotInFlight DEF Atomic!CreateAbort
  <2> QED  BY <2>1 DEF Atomic!Next, Atomic!Create
<1>3. CASE ~InFlight(w)
  <2>1. Creates' = Creates
    BY <1>1, <1>3, CreatesKept
  <2> QED  BY <1>1, <2>1
<1> QED  BY <1>2, <1>3

LEMMA ReconciledImplements ==
    ASSUME IInv, Promises, NEW w \in Worker, CreateReconciled(w)
    PROVE  Atomic!Next
<1> DEFINE q == session[w].call
<1>1. /\ q.op = "create" /\ session[w].pc = "reconcile" /\ Saved(w)
      /\ cmd' = View(w) /\ now' = now
  BY DEF CreateReconciled, At, Flush
<1>2. OnlySession(w) /\ session'[w].pc = "between" /\ session'[w].call = q
  BY SessionShape DEF CreateReconciled, OnlySession
<1>3. q.node \in Node /\ q.key \in Key /\ Promised(w)
  BY <1>1, SessionParts DEF GoodCall, Calls, Promises
<1>4. PICK t0 \in 0..q.at, ttl \in TTL : q.exp = t0 + ttl /\ t0 + ttl <= MaxTime
  BY <1>1, <1>3 DEF Promised, Asked
<1>5. q.at \in 0..now
  BY <1>1, <1>3 DEF Promised, Asked
<1>6. cmd' = Atomic!Reconciled(Atomic!OfNode(q.node), q.at)
  <2>1. cmd' = Tidy(OfNode(cmd, q.node), q.at)
    BY <1>1, <1>3, ReadsTidy DEF Reached
  <2> QED  BY <2>1, AtomicTables
<1>7. Creates' = [Creates EXCEPT ![w] = [phase |-> "reconciled", node |-> q.node,
                                         key |-> q.key, exp |-> t0 + ttl, at |-> q.at]]
  <2>1. Creates'[w] = [phase |-> "reconciled", node |-> q.node,
                       key |-> q.key, exp |-> t0 + ttl, at |-> q.at]
    BY <1>1, <1>2, <1>4 DEF Creates, InFlight
  <2> QED  BY <1>2, <2>1, CreatesUpdate
<1>8. Creates[w] = Atomic!NoRequest
  BY <1>1, NotInFlight DEF InFlight
<1>9. t0 <= q.at /\ t0 \in Atomic!ClockReading /\ q.at \in Atomic!ClockReading
  BY <1>4, <1>5, AtomicReadings DEF IInv
<1>10. Atomic!CreateBegin(w, q.node, q.key, t0, q.at, ttl)
  BY <1>1, <1>4, <1>6, <1>7, <1>8, <1>9 DEF Atomic!CreateBegin
<1> QED  BY <1>3, <1>9, <1>10 DEF Atomic!Next, Atomic!Create

LEMMA InsertImplements ==
    ASSUME IInv, Promises, NEW w \in Worker, NEW c \in CmdId, CreateInsert(w, c)
    PROVE  Atomic!Next
<1> DEFINE q == session[w].call
           r == Creates[w]
<1>1. /\ q.op = "create" /\ session[w].pc = "insert" /\ cmd[c] = NoRow
      /\ cmd' = [cmd EXCEPT ![c] = NewRow(q.node, q.key, q.exp, now)]
      /\ session' = [session EXCEPT ![w] = Idle] /\ now' = now
  BY DEF CreateInsert, At
<1>2. InFlight(w)
  BY <1>1 DEF InFlight
<1>3. r.node = q.node /\ r.key = q.key /\ r.exp = q.exp /\ r.at = q.at
  BY <1>2 DEF Creates
<1>4. r # Atomic!NoRequest
  BY <1>2, NotInFlight
<1>5. Creates' = [Creates EXCEPT ![w] = Atomic!NoRequest]
  BY <1>1, IdleNotInFlight
<1>6. Admitted(q)
  BY <1>1 DEF Promises, Promised
<1> HIDE DEF r
<1>7. Admitted(r)
  BY <1>3, <1>6 DEF Admitted, Replayed, WithinRateLimit, NodeBusy
<1>8. Atomic!Admitted(r)
  BY <1>7, AtomicTables
<1>9. cmd[c] = Atomic!NoRow
      /\ cmd' = [cmd EXCEPT ![c] = Atomic!NewRow(r.node, r.key, r.exp, now)]
  BY <1>1, <1>3, AtomicRows
<1>10. Atomic!CreateInsert(w, c)
  BY <1>1, <1>4, <1>5, <1>8, <1>9 DEF Atomic!CreateInsert, r
<1> QED  BY <1>10 DEF Atomic!Next, Atomic!Create

LEMMA StepImplements ==
    ASSUME IInv, Promises, [Next]_vars
    PROVE  Atomic!Next \/ UNCHANGED <<now, cmd, Creates>>
<1>1. CASE Tick
  <2>1. Creates' = Creates
    BY <1>1 DEF Tick, Creates, InFlight
  <2>2. Atomic!Tick
    BY <1>1, <2>1 DEF Tick, Atomic!Tick
  <2> QED  BY <2>2 DEF Atomic!Next
<1>2. CASE UNCHANGED vars
  BY <1>2 DEF vars, Creates, InFlight
<1>3. ASSUME NEW w \in Worker, Call(w) \/ Continue(w)
      PROVE  Atomic!Next \/ UNCHANGED <<now, cmd, Creates>>
  BY <1>3, StatementStutters, CommitImplements, RollbackImplements,
     ReconciledImplements, InsertImplements DEF Continue
<1> QED  BY <1>1, <1>2, <1>3 DEF Next

LEMMA InitImplements ==
    ASSUME Init
    PROVE  Atomic!Init
<1>1. Creates = [w \in Worker |-> Atomic!NoRequest]
  BY DEF Init, Idle, NoCall, Creates, InFlight, Atomic!NoRequest
<1> QED  BY <1>1, AtomicRows DEF Init, Atomic!Init

(***************************************************************************)
(* With one connection the statements of the handlers, interleaved in any  *)
(* way the database allows and rolled back at any point, implement the     *)
(* transactions of ControlService: its theorems hold of them.              *)
(***************************************************************************)
THEOREM StatementsImplementTransactions ==
    ASSUME Connections = 1
    PROVE  Spec => ImplementsControlService
<1>1. Init => Atomic!Init
  BY InitImplements
<1>2. IInv /\ Promises /\ [Next]_vars => [Atomic!Next]_(Atomic!vars)
  BY StepImplements DEF Atomic!vars
<1> QED  BY <1>1, <1>2, Inductive, PromisesInvariant, PTL
         DEF Spec, ImplementsControlService, Atomic!Spec

-----------------------------------------------------------------------------
(* The theorems about ControlService, of the transactions of this table.   *)
Service == INSTANCE ControlServiceProofs WITH MaxLag <- MaxTime, creating <- Creates

LEMMA SameService == Service!Spec <=> Atomic!Spec
<1> USE DEF Atomic!Queued, Service!Queued, Atomic!Leased, Service!Leased,
        Atomic!Sent, Service!Sent, Atomic!Executing, Service!Executing,
        Atomic!Succeeded, Service!Succeeded, Atomic!Failed, Service!Failed,
        Atomic!Expired, Service!Expired, Atomic!Cancelled, Service!Cancelled,
        Atomic!NoLease, Service!NoLease, Atomic!NoRow, Service!NoRow,
        Atomic!NoRequest, Service!NoRequest
<1>1. Service!Init <=> Atomic!Init
  BY Zenon DEF Service!Init, Atomic!Init
<1> USE DEF Atomic!ActiveStatus, Service!ActiveStatus, Atomic!TerminalStatus,
        Service!TerminalStatus, Atomic!PendingStatus, Service!PendingStatus,
        Atomic!Status, Service!Status, Atomic!Exists, Service!Exists,
        Atomic!Active, Service!Active, Atomic!Pending, Service!Pending,
        Atomic!CommandExpired, Service!CommandExpired, Atomic!Expire, Service!Expire,
        Atomic!ClockReading, Service!ClockReading, Atomic!Cardinality, Service!Cardinality,
        Atomic!OfHub, Service!OfHub, Atomic!OfNode, Service!OfNode,
        Atomic!Reconciled, Service!Reconciled, Atomic!Reconcile, Service!Reconcile,
        Atomic!LeaseExpired, Service!LeaseExpired, Atomic!Requeue, Service!Requeue
<1>2. Service!Tick <=> Atomic!Tick
  BY Zenon DEF Service!Tick, Atomic!Tick
<1>3. \A w : Service!Create(w) <=> Atomic!Create(w)
  BY Zenon DEF Service!Create, Atomic!Create, Service!CreateBegin, Atomic!CreateBegin,
     Service!CreateAnswered, Atomic!CreateAnswered, Service!CreateInsert,
     Atomic!CreateInsert, Service!CreateAbort, Atomic!CreateAbort, Service!NewRow,
     Atomic!NewRow, Service!Admitted, Atomic!Admitted, Service!Replayed, Atomic!Replayed,
     Service!WithinRateLimit, Atomic!WithinRateLimit, Service!RecentCommands,
     Atomic!RecentCommands, Service!NodeBusy, Atomic!NodeBusy
<1>4. \A h : Service!HubCall(h) <=> Atomic!HubCall(h)
  BY Zenon DEF Service!HubCall, Atomic!HubCall, Service!Pull, Atomic!Pull,
     Service!Offered, Atomic!Offered, Service!OldestOf, Atomic!OldestOf,
     Service!LeaseTo, Atomic!LeaseTo, Service!AckRepeated, Atomic!AckRepeated,
     Service!AckApplied, Atomic!AckApplied, Service!AckAccepted, Atomic!AckAccepted,
     Service!AckTransition, Atomic!AckTransition, Service!Acked, Atomic!Acked,
     Service!AckStatus, Atomic!AckStatus
<1>5. \A c, t : Service!GetStatus(c, t) <=> Atomic!GetStatus(c, t)
  BY Zenon DEF Service!GetStatus, Atomic!GetStatus, Service!ShouldExpireOnAccess,
     Atomic!ShouldExpireOnAccess
<1>6. Service!Next <=> Atomic!Next
  BY <1>2, <1>3, <1>4, <1>5 DEF Service!Next, Atomic!Next
<1>7. [Service!Next]_(Service!vars) <=> [Atomic!Next]_(Atomic!vars)
  BY <1>6 DEF Service!vars, Atomic!vars
<1> QED  BY <1>1, <1>7, PTL DEF Service!Spec, Atomic!Spec

LEMMA ServiceAssumptions ==
    Service!HubAssumption /\ Service!TimeAssumption /\ Service!RateAssumption
BY RCAssumption DEF Service!HubAssumption, Service!TimeAssumption, Service!RateAssumption

LEMMA SameOneActive == Service!OneActivePerNode => OneActivePerNode
BY Zenon DEF Service!OneActivePerNode, OneActivePerNode, Service!OfNode, OfNode,
   Service!Exists, Exists, Service!Status, Status, Service!Active, Active,
   Service!ActiveStatus, ActiveStatus, Service!TerminalStatus, TerminalStatus,
   Service!Queued, Queued, Service!Leased, Leased, Service!Sent, Sent,
   Service!Executing, Executing, Service!Succeeded, Succeeded,
   Service!Failed, Failed, Service!Expired, Expired, Service!Cancelled, Cancelled

(***************************************************************************)
(* With one connection a node has at most one active command.  Saves that  *)
(* overlap break it: one can revive a finished command after the next one  *)
(* was admitted.                                                           *)
(***************************************************************************)
THEOREM OneActiveWhenSerial == ASSUME Connections = 1 PROVE Spec => []OneActivePerNode
<1>1. Service!Spec => []Service!OneActivePerNode
  BY ServiceAssumptions, Service!OneActiveCommand
<1>2. Service!OneActivePerNode => OneActivePerNode
  BY SameOneActive
<1>3. Spec => ImplementsControlService
  BY StatementsImplementTransactions
<1> QED  BY <1>1, <1>2, <1>3, SameService, PTL DEF ImplementsControlService

(***************************************************************************)
(* With one connection a lease that runs is neither replaced nor taken     *)
(* back: a hub that polls twice is not handed the same command twice.      *)
(***************************************************************************)
THEOREM LeaseExclusiveWhenSerial == ASSUME Connections = 1 PROVE Spec => LeaseHonoured
<1> DEFINE A == \A c \in CmdId :
          /\ cmd[c].status = Leased
          /\ cmd'[c] # cmd[c]
          /\ cmd'[c].status \in PendingStatus
          => cmd[c].lease <= now
           B == \A c \in CmdId :
          /\ cmd[c].status = Service!Leased
          /\ cmd'[c] # cmd[c]
          /\ cmd'[c].status \in Service!PendingStatus
          => cmd[c].lease <= now
<1>1. Service!Spec => [][B]_(Service!vars)
  BY ServiceAssumptions, Service!LeaseExclusive DEF Service!LeaseHonoured
<1>2. [B]_(Service!vars) => [A]_vars
  BY DEF Service!vars, Service!Leased, Leased, Service!Queued, Queued,
     Service!PendingStatus, PendingStatus
<1>3. Spec => ImplementsControlService
  BY StatementsImplementTransactions
<1> QED  BY <1>1, <1>2, <1>3, SameService, PTL DEF ImplementsControlService, LeaseHonoured

(***************************************************************************)
(* With one connection the statements keep every promise proved of the     *)
(* transactions: nothing finished or confirmed is offered again, pulls are *)
(* first come first served, and the queue is a row of slots.               *)
(***************************************************************************)
THEOREM TransactionPromisesHold ==
    ASSUME Connections = 1
    PROVE  Spec => Service!NeverRedelivered /\ Service!OldestFirst /\ Service!ImplementsSlots
<1>1. Service!Spec => Service!NeverRedelivered /\ Service!OldestFirst /\ Service!ImplementsSlots
  BY ServiceAssumptions, Service!NoRedelivery, Service!DeliveredInOrder,
     Service!QueueImplementsSlots
<1>2. Spec => ImplementsControlService
  BY StatementsImplementTransactions
<1> QED  BY <1>1, <1>2, SameService DEF ImplementsControlService
=============================================================================
