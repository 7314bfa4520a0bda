------------------------ MODULE ControlServiceProofs ------------------------
(***************************************************************************)
(* Theorems about ControlService, for every value of its constants.        *)
(*                                                                         *)
(* The argument: every step other than an insert lets each row evolve only *)
(* in the way Evolves allows (lemma NextEvolves), and an insert happens    *)
(* only on a node without an active command.  The invariants, the action   *)
(* properties, the rate limit and the refinement of the node slots of      *)
(* MotorSlots follow from these two facts.                                 *)
(***************************************************************************)
EXTENDS ControlService, FiniteSetTheorems, TLAPS

(***************************************************************************)
(* The lease and completion columns agree with the status of row r.        *)
(***************************************************************************)
Coherent(r) ==
    /\ (r.lease # NoLease) <=> (r.status \in {Leased, Sent, Executing})
    /\ r.completed <=> Terminal(r)

(***************************************************************************)
(* Row s is what a handler with clock reading t may make of row r.         *)
(***************************************************************************)
Changed(r, s, t) ==
    /\ r \in Row /\ s \in Row
    /\ Active(r)
    /\ s.node = r.node /\ s.key = r.key
    /\ s.exp = r.exp /\ s.created = r.created
    /\ Coherent(s)
    /\ r.status \in {Sent, Executing} => ~Pending(s) /\ ~CommandExpired(r, t)
    /\ r.status = Leased /\ Pending(s) => r.lease <= t
    /\ s.status \notin {Queued, Expired} => ~CommandExpired(r, t)
    /\ s.status \in {Sent, Executing} => r.lease # NoLease /\ t < r.lease /\ s.lease = r.lease

Evolves(r, s, t) == s = r \/ Changed(r, s, t)

(* The invariant every proof below starts from. *)
IInv == TypeOK /\ LeaseMatchesStatus

USE DEF NoLease

-----------------------------------------------------------------------------
(* The row operators.                                                      *)

LEMMA RowOrNoRow ==
    ASSUME NEW r \in Row \cup {NoRow}
    PROVE  /\ Exists(r) <=> r \in Row
           /\ Active(r) => r \in Row
           /\ Pending(r) => r \in Row /\ Active(r)
           /\ Terminal(r) => r \in Row /\ ~Active(r)
           /\ ~Active(r) <=> r = NoRow \/ Terminal(r)
BY DEF Row, NoRow, Exists, Active, Pending, Terminal, Status, ActiveStatus,
       TerminalStatus, PendingStatus, Queued, Leased, Sent, Executing,
       Succeeded, Failed, Expired, Cancelled

LEMMA ExpireChanges ==
    ASSUME NEW r \in Row, Pending(r), NEW t \in Nat
    PROVE  Changed(r, Expire(r), t)
BY DEF Changed, Coherent, CommandExpired, Expire, Row, Active, Pending, Terminal, Status,
       ActiveStatus, TerminalStatus, PendingStatus, Queued, Leased, Sent,
       Executing, Succeeded, Failed, Expired, Cancelled

LEMMA ReconcileEvolves ==
    ASSUME NEW r \in Row, Coherent(r), Pending(r), NEW t \in Nat
    PROVE  /\ Evolves(r, Reconcile(r, t), t)
           /\ Reconcile(r, t).status = Leased => Reconcile(r, t) = r
<1>1. Active(r)
  BY DEF Pending, Active, PendingStatus, ActiveStatus
<1>2. CASE CommandExpired(r, t)
  <2>1. Reconcile(r, t) = Expire(r)
    BY <1>2 DEF Reconcile
  <2>2. Expire(r).status # Leased
    BY DEF Expire, Row, Expired, Leased
  <2> QED BY <2>1, <2>2, ExpireChanges DEF Evolves
<1>3. CASE ~CommandExpired(r, t) /\ LeaseExpired(r, t)
  <2>1. Reconcile(r, t) = Requeue(r)
    BY <1>3 DEF Reconcile
  <2>2. Changed(r, Requeue(r), t)
    BY <1>1, <1>3 DEF LeaseExpired, CommandExpired, Changed, Coherent, Requeue, Row, Active,
       Pending, Terminal, Status, ActiveStatus, TerminalStatus, PendingStatus,
       Queued, Leased, Sent, Executing, Succeeded, Failed, Expired, Cancelled
  <2>3. Requeue(r).status # Leased
    BY DEF Requeue, Row, Queued, Leased
  <2> QED BY <2>1, <2>2, <2>3 DEF Evolves
<1>4. CASE ~CommandExpired(r, t) /\ ~LeaseExpired(r, t)
  BY <1>4 DEF Reconcile, Evolves
<1> QED BY <1>2, <1>3, <1>4

LEMMA LeaseChanges ==
    ASSUME NEW r \in Row, Coherent(r), r.status = Queued, NEW u \in Nat \ {0},
           NEW t \in Nat, ~CommandExpired(r, t)
    PROVE  Changed(r, LeaseTo(r, u), t)
BY DEF CommandExpired, Changed, Coherent, LeaseTo, Row, Active, Pending, Terminal, Status,
       ActiveStatus, TerminalStatus, PendingStatus, Queued, Leased, Sent,
       Executing, Succeeded, Failed, Expired, Cancelled

LEMMA AckChanges ==
    ASSUME NEW r \in Row, Coherent(r), NEW s \in AckStatus, NEW t \in Nat,
           AckAccepted(r, s, t)
    PROVE  Changed(r, Acked(r, s), t)
BY DEF AckAccepted, AckTransition, AckStatus, Acked, Changed, Coherent, CommandExpired, Row,
       Active, Pending, Terminal, Status, ActiveStatus, TerminalStatus,
       PendingStatus, Queued, Leased, Sent, Executing, Succeeded, Failed,
       Expired, Cancelled

-----------------------------------------------------------------------------
(* The steps of the service.                                               *)

LEMMA ReconciledRows ==
    ASSUME IInv, NEW S \in SUBSET CmdId, NEW t \in Nat, NEW c \in CmdId
    PROVE  /\ Evolves(cmd[c], Reconciled(S, t)[c], t)
           /\ Pending(Reconciled(S, t)[c]) => Pending(cmd[c])
           /\ ~Pending(cmd[c]) => Reconciled(S, t)[c] = cmd[c]
           /\ Reconciled(S, t)[c].status = Leased => Reconciled(S, t)[c] = cmd[c]
<1>1. CASE c \in S /\ Pending(cmd[c])
  <2>1. cmd[c] \in Row /\ Coherent(cmd[c])
    BY <1>1, RowOrNoRow DEF IInv, TypeOK, LeaseMatchesStatus, Coherent
  <2>2. Reconciled(S, t)[c] = Reconcile(cmd[c], t)
    BY <1>1 DEF Reconciled
  <2> QED BY <1>1, <2>1, <2>2, ReconcileEvolves
<1>2. CASE ~(c \in S /\ Pending(cmd[c]))
  <2>1. Reconciled(S, t)[c] = cmd[c]
    BY <1>2 DEF Reconciled
  <2> QED BY <1>2, <2>1 DEF Evolves
<1> QED BY <1>1, <1>2

LEMMA ClockReadings ==
    ASSUME TypeOK, NEW t \in ClockReading
    PROVE  t \in Nat /\ t <= now
BY DEF ClockReading, TypeOK

(***************************************************************************)
(* Every row after a step evolved from the row before it.                  *)
(***************************************************************************)
RowsEvolve ==
    \E t \in ClockReading :
        /\ cmd' = [c \in CmdId |-> cmd'[c]]
        /\ \A c \in CmdId : Evolves(cmd[c], cmd'[c], t)

(***************************************************************************)
(* An evolved row can evolve once more in the same transaction.            *)
(***************************************************************************)
LEMMA ThenChanged ==
    ASSUME NEW r \in Row, NEW s \in Row, NEW u, NEW t \in Nat,
           Evolves(r, s, t), Changed(s, u, t),
           r.status \in {Sent, Executing} \/ s.status = Leased => s = r
    PROVE  Changed(r, u, t)
BY DEF Evolves, Changed, Coherent, CommandExpired, Row, Active, Pending, Status,
       ActiveStatus, TerminalStatus, PendingStatus, Queued, Leased, Sent,
       Executing, Succeeded, Failed, Expired, Cancelled

LEMMA ReconciledOfHub ==
    ASSUME IInv, NEW h \in Hub, NEW t \in ClockReading, NEW c \in OfHub(h)
    PROVE  LET clean == Reconciled(OfHub(h), t) IN
           /\ c \in CmdId /\ cmd[c] \in Row /\ clean[c] \in Row
           /\ Coherent(clean[c])
           /\ Evolves(cmd[c], clean[c], t)
           /\ cmd[c].status \in {Sent, Executing} \/ clean[c].status = Leased
                 => clean[c] = cmd[c]
<1>1. /\ OfHub(h) \in SUBSET CmdId /\ c \in CmdId
      /\ cmd[c] \in Row /\ Coherent(cmd[c]) /\ t \in Nat
  BY RowOrNoRow, ClockReadings DEF OfHub, IInv, TypeOK, LeaseMatchesStatus, Coherent
<1>2. /\ Evolves(cmd[c], Reconciled(OfHub(h), t)[c], t)
      /\ ~Pending(cmd[c]) \/ Reconciled(OfHub(h), t)[c].status = Leased
            => Reconciled(OfHub(h), t)[c] = cmd[c]
  BY <1>1, ReconciledRows
<1>3. cmd[c].status \in {Sent, Executing} => ~Pending(cmd[c])
  BY DEF Pending, PendingStatus, Sent, Executing, Queued, Leased
<1> QED BY <1>1, <1>2, <1>3 DEF Evolves, Changed

LEMMA CreateBeginEvolves ==
    ASSUME IInv, NEW w \in Worker, NEW n \in Node, NEW k \in Key,
           NEW t0 \in ClockReading, NEW t \in ClockReading, NEW ttl \in TTL,
           CreateBegin(w, n, k, t0, t, ttl)
    PROVE  RowsEvolve
<1>1. t \in Nat /\ OfNode(n) \in SUBSET CmdId
  BY ClockReadings DEF IInv, OfNode
<1>2. cmd' = Reconciled(OfNode(n), t)
  BY DEF CreateBegin
<1> QED BY <1>1, <1>2, ReconciledRows DEF RowsEvolve, Reconciled

LEMMA PullEvolves ==
    ASSUME IInv, NEW h \in Hub, NEW t \in ClockReading,
           NEW d \in LeaseDuration, NEW max \in 1..MaxPull, Pull(h, t, d, max)
    PROVE  RowsEvolve
<1> DEFINE clean == Reconciled(OfHub(h), t)
<1>1. PICK L \in SUBSET OfHub(h) :
        /\ OldestOf(clean, Offered(clean, h, t), L, max)
        /\ cmd' = [c \in CmdId |-> IF c \in L THEN LeaseTo(clean[c], t + d)
                                             ELSE clean[c]]
  BY DEF Pull
<1>2. /\ t \in Nat /\ t + d \in Nat \ {0} /\ OfHub(h) \in SUBSET CmdId
  BY ClockReadings, TimeAssumption DEF IInv, OfHub
<1>3. ASSUME NEW c \in CmdId PROVE Evolves(cmd[c], cmd'[c], t)
  <2>1. CASE c \in L
    <3>1. /\ c \in OfHub(h) /\ clean[c].status = Queued
          /\ ~CommandExpired(clean[c], t)
      BY <1>1, <2>1 DEF OldestOf, Offered
    <3>2. /\ cmd[c] \in Row /\ clean[c] \in Row /\ Coherent(clean[c])
          /\ Evolves(cmd[c], clean[c], t)
          /\ cmd[c].status \in {Sent, Executing} \/ clean[c].status = Leased => clean[c] = cmd[c]
      BY <3>1, ReconciledOfHub
    <3> HIDE DEF clean
    <3>3. Changed(clean[c], LeaseTo(clean[c], t + d), t)
      BY <3>1, <3>2, <1>2, LeaseChanges
    <3>4. Changed(cmd[c], LeaseTo(clean[c], t + d), t)
      BY <1>2, <3>2, <3>3, ThenChanged
    <3>5. cmd'[c] = LeaseTo(clean[c], t + d)
      BY <1>1, <2>1
    <3> QED BY <3>4, <3>5 DEF Evolves
  <2>2. CASE c \notin L
    <3>1. cmd'[c] = clean[c]
      BY <1>1, <2>2
    <3> QED BY <3>1, <1>2, ReconciledRows
  <2> QED BY <2>1, <2>2
<1> QED BY <1>1, <1>3 DEF RowsEvolve

LEMMA AckEvolves ==
    ASSUME IInv, NEW h \in Hub, NEW t \in ClockReading, NEW c \in CmdId,
           NEW s \in AckStatus, AckRepeated(h, c, s, t) \/ AckApplied(h, c, s, t)
    PROVE  RowsEvolve
<1> DEFINE clean == Reconciled(OfHub(h), t)
<1>1. /\ t \in Nat /\ OfHub(h) \in SUBSET CmdId
  BY ClockReadings DEF IInv, OfHub
<1>2. clean = [e \in CmdId |-> clean[e]] /\ \A e \in CmdId : Evolves(cmd[e], clean[e], t)
  BY <1>1, ReconciledRows DEF Reconciled
<1>3. CASE AckRepeated(h, c, s, t)
  BY <1>2, <1>3 DEF AckRepeated, RowsEvolve
<1>4. CASE AckApplied(h, c, s, t)
  <2>1. /\ c \in OfHub(h) /\ AckAccepted(clean[c], s, t)
        /\ cmd' = [clean EXCEPT ![c] = Acked(clean[c], s)]
    BY <1>4 DEF AckApplied
  <2>2. /\ cmd[c] \in Row /\ clean[c] \in Row /\ Coherent(clean[c])
        /\ Evolves(cmd[c], clean[c], t)
        /\ cmd[c].status \in {Sent, Executing} \/ clean[c].status = Leased => clean[c] = cmd[c]
    BY <2>1, ReconciledOfHub
  <2> HIDE DEF clean
  <2>3. Changed(clean[c], Acked(clean[c], s), t)
    BY <1>1, <2>1, <2>2, AckChanges
  <2>4. Changed(cmd[c], Acked(clean[c], s), t)
    BY <1>1, <2>2, <2>3, ThenChanged
  <2> QED BY <1>2, <2>1, <2>4 DEF RowsEvolve, Evolves
<1> QED BY <1>3, <1>4

LEMMA GetStatusEvolves ==
    ASSUME IInv, NEW c \in CmdId, NEW t \in ClockReading, GetStatus(c, t)
    PROVE  RowsEvolve
<1>1. /\ Pending(cmd[c])
      /\ cmd' = [cmd EXCEPT ![c] = Expire(cmd[c])]
      /\ cmd \in [CmdId -> Row \cup {NoRow}]
  BY DEF GetStatus, ShouldExpireOnAccess, IInv, TypeOK
<1>2. cmd[c] \in Row /\ TypeOK
  BY <1>1, RowOrNoRow DEF IInv
<1>3. Changed(cmd[c], Expire(cmd[c]), t)
  BY <1>1, <1>2, ClockReadings, ExpireChanges
<1> QED BY <1>1, <1>3 DEF RowsEvolve, Evolves

(***************************************************************************)
(* Every step lets the rows evolve, or inserts one.                        *)
(***************************************************************************)
LEMMA NextEvolves ==
    ASSUME IInv, [Next]_vars
    PROVE  RowsEvolve \/ \E w \in Worker, c \in CmdId : CreateInsert(w, c)
<1>1. UNCHANGED cmd => RowsEvolve
  <2>1. now \in ClockReading
    BY TimeAssumption DEF IInv, TypeOK, ClockReading
  <2> QED BY <2>1 DEF RowsEvolve, Evolves, IInv, TypeOK
<1>2. CASE Tick
  BY <1>1, <1>2 DEF Tick
<1>3. ASSUME NEW w \in Worker, Create(w)
      PROVE  RowsEvolve \/ \E c \in CmdId : CreateInsert(w, c)
  BY <1>1, <1>3, CreateBeginEvolves DEF Create, CreateAnswered, CreateAbort
<1>4. ASSUME NEW h \in Hub, HubCall(h)
      PROVE  RowsEvolve
  BY <1>4, PullEvolves, AckEvolves DEF HubCall
<1>5. CASE \E c \in CmdId, t \in ClockReading : GetStatus(c, t)
  BY <1>5, GetStatusEvolves
<1>6. CASE UNCHANGED vars
  BY <1>1, <1>6 DEF vars
<1> QED BY <1>2, <1>3, <1>4, <1>5, <1>6 DEF Next
-----------------------------------------------------------------------------
(* Inserts.                                                                *)

LEMMA InsertedRow ==
    ASSUME IInv, NEW w \in Worker, NEW c \in CmdId, CreateInsert(w, c)
    PROVE  /\ creating[w] \in Request
           /\ Admitted(creating[w])
           /\ cmd[c] = NoRow
           /\ cmd' = [cmd EXCEPT ![c] = cmd'[c]]
           /\ cmd'[c] \in Row /\ Coherent(cmd'[c])
           /\ cmd'[c].node = creating[w].node
           /\ cmd'[c].status = Queued
           /\ cmd'[c].created = now
           /\ now' = now
<1> DEFINE q == creating[w]
<1>1. /\ q \in Request /\ now \in Nat
      /\ cmd \in [CmdId -> Row \cup {NoRow}]
  BY DEF CreateInsert, IInv, TypeOK
<1>2. cmd' = [cmd EXCEPT ![c] = NewRow(q.node, q.key, q.exp, now)]
  BY DEF CreateInsert
<1>3. cmd'[c] = NewRow(q.node, q.key, q.exp, now)
  BY <1>1, <1>2
<1>4. /\ NewRow(q.node, q.key, q.exp, now) \in Row
      /\ Coherent(NewRow(q.node, q.key, q.exp, now))
  BY <1>1 DEF NewRow, Row, Request, Coherent, Terminal, Status, ActiveStatus,
     TerminalStatus, Queued, Leased, Sent, Executing, Succeeded, Failed,
     Expired, Cancelled
<1> QED
  BY <1>1, <1>2, <1>3, <1>4 DEF CreateInsert, NewRow

-----------------------------------------------------------------------------
(* Type correctness and the lease columns.                                 *)

LEMMA CreatingTyped ==
    ASSUME IInv, [Next]_vars
    PROVE  now' \in Nat /\ creating' \in [Worker -> Request \cup {NoRequest}]
<1> USE DEF IInv, TypeOK
<1>1. CASE Tick
  BY <1>1 DEF Tick
<1>2. ASSUME NEW w \in Worker, Create(w)
      PROVE  now' \in Nat /\ creating' \in [Worker -> Request \cup {NoRequest}]
  <2>1. ASSUME NEW n \in Node, NEW k \in Key, NEW t0 \in ClockReading,
               NEW t \in ClockReading, NEW ttl \in TTL,
               CreateBegin(w, n, k, t0, t, ttl)
        PROVE  now' \in Nat /\ creating' \in [Worker -> Request \cup {NoRequest}]
    <3>1. [phase |-> "reconciled", node |-> n, key |-> k, exp |-> t0 + ttl, at |-> t]
            \in Request
      BY ClockReadings, TimeAssumption DEF Request
    <3> QED BY <2>1, <3>1 DEF CreateBegin
  <2>2. CASE CreateAnswered(w) \/ CreateAbort(w) \/ \E c \in CmdId : CreateInsert(w, c)
    BY <2>2 DEF CreateAnswered, CreateAbort, CreateInsert
  <2> QED BY <1>2, <2>1, <2>2 DEF Create
<1>3. CASE \E h \in Hub : HubCall(h)
  BY <1>3 DEF HubCall, Pull, AckRepeated, AckApplied
<1>4. CASE \E c \in CmdId, t \in ClockReading : GetStatus(c, t)
  BY <1>4 DEF GetStatus
<1>5. CASE UNCHANGED vars
  BY <1>5 DEF vars
<1> QED BY <1>1, <1>2, <1>3, <1>4, <1>5 DEF Next

LEMMA InductiveInvariant == Spec => []IInv
<1>1. Init => IInv
  BY DEF Init, IInv, TypeOK, LeaseMatchesStatus, Exists, NoRow, Status,
     ActiveStatus, TerminalStatus, Queued, Leased, Sent, Executing, Succeeded,
     Failed, Expired, Cancelled
<1>2. IInv /\ [Next]_vars => IInv'
  <2> SUFFICES ASSUME IInv, [Next]_vars PROVE IInv'
    OBVIOUS
  <2>1. ASSUME NEW c \in CmdId, RowsEvolve
        PROVE  /\ cmd'[c] \in Row \cup {NoRow}
               /\ Exists(cmd'[c]) => Coherent(cmd'[c])
    BY <2>1 DEF RowsEvolve, Evolves, Changed, IInv, TypeOK, LeaseMatchesStatus, Coherent
  <2>2. ASSUME NEW c \in CmdId, NEW w \in Worker, NEW d \in CmdId, CreateInsert(w, d)
        PROVE  /\ cmd'[c] \in Row \cup {NoRow}
               /\ Exists(cmd'[c]) => Coherent(cmd'[c])
    <3>1. /\ cmd' = [cmd EXCEPT ![d] = cmd'[d]]
          /\ cmd'[d] \in Row /\ Coherent(cmd'[d])
      BY <2>2, InsertedRow
    <3> QED BY <3>1 DEF IInv, TypeOK, LeaseMatchesStatus, Coherent
  <2>3. cmd' = [c \in CmdId |-> cmd'[c]]
    <3>1. CASE RowsEvolve
      BY <3>1 DEF RowsEvolve
    <3>2. ASSUME NEW w \in Worker, NEW d \in CmdId, CreateInsert(w, d)
          PROVE  cmd' = [c \in CmdId |-> cmd'[c]]
      BY <3>2 DEF CreateInsert, IInv, TypeOK
    <3> QED BY <3>1, <3>2, NextEvolves
  <2>4. \A c \in CmdId : /\ cmd'[c] \in Row \cup {NoRow}
                         /\ Exists(cmd'[c]) => Coherent(cmd'[c])
    BY <2>1, <2>2, NextEvolves
  <2>5. TypeOK'
    BY <2>3, <2>4, CreatingTyped DEF TypeOK
  <2>6. LeaseMatchesStatus'
    BY <2>4 DEF LeaseMatchesStatus, Coherent
  <2> QED BY <2>5, <2>6 DEF IInv
<1> QED BY <1>1, <1>2, PTL DEF Spec

(***************************************************************************)
(* The tables and the creates in flight always have their types.           *)
(***************************************************************************)
THEOREM TypeCorrect == Spec => []TypeOK
BY InductiveInvariant, PTL DEF IInv

(***************************************************************************)
(* The lease and completion columns always agree with the status, so an    *)
(* acknowledgement never meets a delivered command without a lease.        *)
(***************************************************************************)
THEOREM LeaseColumnsAgree == Spec => []LeaseMatchesStatus
BY InductiveInvariant, PTL DEF IInv

-----------------------------------------------------------------------------
(* One active command per node.                                            *)

LEMMA EvolvedRow ==
    ASSUME NEW r \in Row \cup {NoRow}, NEW s, NEW t, Evolves(r, s, t)
    PROVE  /\ Exists(s) <=> Exists(r)
           /\ Exists(s) => s.node = r.node /\ s.created = r.created
           /\ Active(s) => Active(r)
           /\ Terminal(r) => s = r
<1>1. CASE s = r
  BY <1>1
<1>2. CASE Changed(r, s, t)
  <2>1. r \in Row /\ s \in Row /\ Active(r)
        /\ s.node = r.node /\ s.created = r.created
    BY <1>2 DEF Changed
  <2> QED BY <2>1, RowOrNoRow
<1> QED BY <1>1, <1>2 DEF Evolves

(***************************************************************************)
(* A node never has two commands in non-terminal statuses, whatever the    *)
(* order of creates, polls, acknowledgements and clock readings.           *)
(***************************************************************************)
THEOREM OneActiveCommand == Spec => []OneActivePerNode
<1>1. Init => OneActivePerNode
  BY DEF Init, OneActivePerNode, OfNode, Exists, NoRow, Status, ActiveStatus,
     TerminalStatus, Queued, Leased, Sent, Executing, Succeeded, Failed,
     Expired, Cancelled
<1>2. IInv /\ OneActivePerNode /\ [Next]_vars => OneActivePerNode'
  <2> SUFFICES ASSUME IInv, OneActivePerNode, [Next]_vars,
                      NEW n \in Node, NEW c \in CmdId, NEW d \in CmdId,
                      Exists(cmd'[c]), Exists(cmd'[d]),
                      cmd'[c].node = n, cmd'[d].node = n,
                      Active(cmd'[c]), Active(cmd'[d])
               PROVE  c = d
    BY DEF OneActivePerNode, OfNode
  <2>1. CASE RowsEvolve
    <3>1. \A e \in CmdId :
             /\ Exists(cmd'[e]) => Exists(cmd[e]) /\ cmd'[e].node = cmd[e].node
             /\ Active(cmd'[e]) => Active(cmd[e])
      BY <2>1, EvolvedRow DEF RowsEvolve, IInv, TypeOK
    <3> QED BY <3>1 DEF OneActivePerNode, OfNode
  <2>2. ASSUME NEW w \in Worker, NEW e \in CmdId, CreateInsert(w, e)
        PROVE  c = d
    <3>1. /\ cmd' = [cmd EXCEPT ![e] = cmd'[e]]
          /\ cmd'[e].node = creating[w].node
          /\ \A f \in CmdId :
                Exists(cmd[f]) /\ cmd[f].node = creating[w].node => ~Active(cmd[f])
      BY <2>2, InsertedRow DEF Admitted, NodeBusy, OfNode
    <3>2. \A f \in CmdId : f # e => cmd'[f] = cmd[f]
      BY <3>1 DEF IInv, TypeOK
    <3>3. CASE c # e /\ d # e
      BY <3>2, <3>3 DEF OneActivePerNode, OfNode
    <3>4. CASE c = e /\ d # e
      BY <3>1, <3>2, <3>4
    <3>5. CASE d = e /\ c # e
      BY <3>1, <3>2, <3>5
    <3> QED BY <3>3, <3>4, <3>5
  <2> QED BY <2>1, <2>2, NextEvolves
<1> QED BY <1>1, <1>2, InductiveInvariant, PTL DEF Spec

-----------------------------------------------------------------------------
(* What a step may never do.                                               *)

(***************************************************************************)
(* One row in one step: untouched, changed with some clock reading, or new. *)
(***************************************************************************)
LEMMA RowStep ==
    ASSUME IInv, [Next]_vars, NEW c \in CmdId
    PROVE  \/ cmd'[c] = cmd[c]
           \/ \E t \in ClockReading : Changed(cmd[c], cmd'[c], t)
           \/ cmd[c] = NoRow /\ cmd'[c].status = Queued
<1>1. CASE RowsEvolve
  BY <1>1 DEF RowsEvolve, Evolves
<1>2. ASSUME NEW w \in Worker, NEW e \in CmdId, CreateInsert(w, e)
      PROVE  cmd'[c] = cmd[c] \/ (cmd[c] = NoRow /\ cmd'[c].status = Queued)
  <2>1. /\ cmd' = [cmd EXCEPT ![e] = cmd'[e]] /\ cmd[e] = NoRow
        /\ cmd'[e].status = Queued
    BY <1>2, InsertedRow
  <2> QED BY <2>1 DEF IInv, TypeOK
<1> QED BY <1>1, <1>2, NextEvolves

LEMMA NoRowIsNothing ==
    /\ ~Exists(NoRow) /\ ~Terminal(NoRow) /\ ~Active(NoRow) /\ ~Pending(NoRow)
    /\ NoRow.status \notin {Leased, Sent, Executing}
BY DEF NoRow, Exists, Terminal, Active, Pending, Status, ActiveStatus,
   TerminalStatus, PendingStatus, Queued, Leased, Sent, Executing, Succeeded,
   Failed, Expired, Cancelled

(***************************************************************************)
(* A finished row never changes and a confirmed delivery never goes back   *)
(* to the queue.                                                           *)
(***************************************************************************)
THEOREM NoRedelivery == Spec => NeverRedelivered
<1> DEFINE A == \A c \in CmdId :
          /\ Terminal(cmd[c]) => cmd'[c] = cmd[c]
          /\ cmd[c].status \in {Sent, Executing} => ~Pending(cmd'[c])
<1>1. IInv /\ [Next]_vars => A
  <2> SUFFICES ASSUME IInv, [Next]_vars, NEW c \in CmdId
               PROVE  /\ Terminal(cmd[c]) => cmd'[c] = cmd[c]
                      /\ cmd[c].status \in {Sent, Executing} => ~Pending(cmd'[c])
    OBVIOUS
  <2>1. cmd[c].status \in {Sent, Executing} => ~Pending(cmd[c])
    BY DEF Pending, PendingStatus, Sent, Executing, Queued, Leased
  <2>2. Terminal(cmd[c]) => ~Active(cmd[c])
    BY RowOrNoRow DEF IInv, TypeOK
  <2> QED BY <2>1, <2>2, RowStep, NoRowIsNothing DEF Changed
<1> QED BY <1>1, InductiveInvariant, PTL DEF Spec, NeverRedelivered

(***************************************************************************)
(* A delivery is exclusive until its lease ran out, although the step that *)
(* ends it may hold a clock reading from the past.                         *)
(***************************************************************************)
THEOREM LeaseExclusive == Spec => LeaseHonoured
<1> DEFINE A == \A c \in CmdId :
          /\ cmd[c].status = Leased
          /\ cmd'[c] # cmd[c]
          /\ cmd'[c].status \in PendingStatus
          => cmd[c].lease <= now
<1>1. IInv /\ [Next]_vars => A
  <2> SUFFICES ASSUME IInv, [Next]_vars, NEW c \in CmdId,
                      cmd[c].status = Leased, cmd'[c] # cmd[c],
                      cmd'[c].status \in PendingStatus
               PROVE  cmd[c].lease <= now
    OBVIOUS
  <2>1. PICK t \in ClockReading : Changed(cmd[c], cmd'[c], t)
    BY RowStep, NoRowIsNothing
  <2>2. cmd[c].lease <= t /\ cmd[c].lease \in Nat
    BY <2>1 DEF Changed, Pending, Row
  <2>3. t \in Nat /\ t <= now /\ now \in Nat
    BY ClockReadings DEF IInv, TypeOK
  <2> QED BY <2>2, <2>3
<1> QED BY <1>1, InductiveInvariant, PTL DEF Spec, LeaseHonoured

(***************************************************************************)
(* A report of a delivery or of an execution changes a row only while the  *)
(* lease it is made under runs, give or take the age of a clock reading,   *)
(* and leaves that lease as it is.                                         *)
(***************************************************************************)
THEOREM ReportsNeedLease == Spec => ReportsUnderLease
<1> DEFINE A == \A c \in CmdId :
          /\ cmd'[c] # cmd[c]
          /\ cmd'[c].status \in {Sent, Executing}
          => /\ cmd[c].lease # NoLease /\ now < cmd[c].lease + MaxLag
             /\ cmd'[c].lease = cmd[c].lease
<1>1. IInv /\ [Next]_vars => A
  <2> SUFFICES ASSUME IInv, [Next]_vars, NEW c \in CmdId,
                      cmd'[c] # cmd[c], cmd'[c].status \in {Sent, Executing}
               PROVE  /\ cmd[c].lease # NoLease /\ now < cmd[c].lease + MaxLag
                      /\ cmd'[c].lease = cmd[c].lease
    OBVIOUS
  <2>1. Queued \notin {Sent, Executing}
    BY DEF Queued, Sent, Executing
  <2>2. PICK t \in ClockReading : Changed(cmd[c], cmd'[c], t)
    BY <2>1, RowStep
  <2>3. /\ cmd[c].lease \in Nat /\ cmd[c].lease # NoLease /\ t < cmd[c].lease
        /\ cmd'[c].lease = cmd[c].lease
    BY <2>2 DEF Changed, Row
  <2>4. t \in Nat /\ now \in Nat /\ now - t <= MaxLag /\ MaxLag \in Nat
    BY TimeAssumption DEF IInv, TypeOK, ClockReading
  <2>5. now < cmd[c].lease + MaxLag
    BY <2>3, <2>4
  <2> QED BY <2>3, <2>5
<1> QED BY <1>1, InductiveInvariant, PTL DEF Spec, ReportsUnderLease

(***************************************************************************)
(* A command past its expiry by more than the age of a clock reading can   *)
(* only expire.                                                            *)
(***************************************************************************)
THEOREM ExpiryRespected == Spec => NothingAfterExpiry
<1> DEFINE A == \A c \in CmdId :
          /\ Exists(cmd[c])
          /\ cmd'[c] # cmd[c]
          /\ cmd'[c].status \notin {Queued, Expired}
          => now < cmd[c].exp + MaxLag
<1>1. IInv /\ [Next]_vars => A
  <2> SUFFICES ASSUME IInv, [Next]_vars, NEW c \in CmdId,
                      Exists(cmd[c]), cmd'[c] # cmd[c],
                      cmd'[c].status \notin {Queued, Expired}
               PROVE  now < cmd[c].exp + MaxLag
    OBVIOUS
  <2>1. PICK t \in ClockReading : Changed(cmd[c], cmd'[c], t)
    BY RowStep, NoRowIsNothing
  <2>2. cmd[c].exp \in Nat /\ ~(cmd[c].exp <= t)
    BY <2>1 DEF Changed, Row, CommandExpired
  <2>3. t \in Nat /\ now \in Nat /\ now - t <= MaxLag /\ MaxLag \in Nat
    BY TimeAssumption DEF IInv, TypeOK, ClockReading
  <2> QED BY <2>2, <2>3
<1> QED BY <1>1, InductiveInvariant, PTL DEF Spec, NothingAfterExpiry
-----------------------------------------------------------------------------
(* How many commands the queue admits.                                     *)
Rows == {c \in CmdId : Exists(cmd[c])}

(***************************************************************************)
(* What makes the rate limit inductive: created_at and the clock readings  *)
(* kept by creates never lie in the future, so a window that would contain *)
(* the next insert starts inside the span its create counted.              *)
(***************************************************************************)
RateInv ==
    /\ \A c \in CmdId : Exists(cmd[c]) => cmd[c].created <= now
    /\ \A w \in Worker : creating[w] # NoRequest => creating[w].at <= now
    /\ IsFiniteSet(Rows)
    /\ \A n \in Node, a \in Nat :
          Cardinality(CreatedWithin(n, a, a + RateWindow)) <= RateMax

LEMMA ClockMonotone ==
    ASSUME IInv, [Next]_vars
    PROVE  /\ now \in Nat /\ now' \in Nat /\ now <= now'
           /\ \A w \in Worker : creating[w] # NoRequest => creating[w].at \in Nat
<1>1. now \in Nat /\ now' \in Nat
  BY CreatingTyped DEF IInv, TypeOK
<1>2. \A w \in Worker : creating[w] # NoRequest => creating[w].at \in Nat
  BY DEF IInv, TypeOK, Request
<1>3. now' = now \/ now' = now + 1
  BY DEF Next, Tick, Create, CreateBegin, CreateAnswered, CreateInsert,
     CreateAbort, HubCall, Pull, AckRepeated, AckApplied, GetStatus, vars
<1> QED BY <1>1, <1>2, <1>3

LEMMA ReadingsKept ==
    ASSUME IInv, RateInv, [Next]_vars, NEW w \in Worker, creating'[w] # NoRequest
    PROVE  creating'[w].at <= now'
<1>1. now \in Nat /\ now' \in Nat /\ now <= now'
  BY ClockMonotone
<1>2. CASE creating'[w] = creating[w]
  BY <1>1, <1>2, ClockMonotone DEF RateInv
<1>3. ASSUME NEW n \in Node, NEW k \in Key, NEW t0 \in ClockReading,
             NEW t \in ClockReading, NEW ttl \in TTL, NEW v \in Worker,
             CreateBegin(v, n, k, t0, t, ttl)
      PROVE  creating'[w].at <= now'
  <2>1. CASE v = w
    <3>1. creating'[w].at = t
      BY <1>3, <2>1 DEF CreateBegin, IInv, TypeOK
    <3> QED BY <1>1, <3>1, ClockReadings DEF IInv
  <2>2. CASE v # w
    BY <1>2, <1>3, <2>2 DEF CreateBegin, IInv, TypeOK
  <2> QED BY <2>1, <2>2
<1>4. ASSUME NEW v \in Worker, creating' = [creating EXCEPT ![v] = NoRequest]
      PROVE  creating'[w] = creating[w]
  BY <1>4 DEF IInv, TypeOK
<1>5. \/ creating' = creating
      \/ \E v \in Worker : creating' = [creating EXCEPT ![v] = NoRequest]
      \/ \E v \in Worker, n \in Node, k \in Key, t0, t \in ClockReading, ttl \in TTL :
            CreateBegin(v, n, k, t0, t, ttl)
  BY DEF Next, Tick, Create, CreateAnswered, CreateInsert,
     CreateAbort, HubCall, Pull, AckRepeated, AckApplied, GetStatus, vars
<1> QED BY <1>2, <1>3, <1>4, <1>5

LEMMA EvolvedSets ==
    ASSUME IInv, RowsEvolve
    PROVE  /\ Rows' = Rows
           /\ \A n \in Node : OfNode(n)' = OfNode(n)
           /\ \A c \in Rows : cmd'[c].created = cmd[c].created
           /\ \A n \in Node, a, b \in Nat : CreatedWithin(n, a, b)' = CreatedWithin(n, a, b)
<1>1. \A c \in CmdId :
        /\ Exists(cmd'[c]) <=> Exists(cmd[c])
        /\ Exists(cmd'[c]) => cmd'[c].node = cmd[c].node
                              /\ cmd'[c].created = cmd[c].created
  BY EvolvedRow DEF RowsEvolve, IInv, TypeOK
<1> QED BY <1>1 DEF Rows, OfNode, CreatedWithin

LEMMA InsertWithinLimit ==
    ASSUME IInv, RateInv, NEW w \in Worker, NEW c \in CmdId, CreateInsert(w, c),
           NEW n \in Node, NEW a \in Nat
    PROVE  Cardinality(CreatedWithin(n, a, a + RateWindow)') <= RateMax
<1> DEFINE q   == creating[w]
           old == CreatedWithin(n, a, a + RateWindow)
           new == CreatedWithin(n, a, a + RateWindow)'
<1>1. /\ q \in Request /\ q # NoRequest /\ WithinRateLimit(q)
      /\ cmd[c] = NoRow /\ ~Exists(cmd[c])
      /\ \A e \in CmdId : e # c => cmd'[e] = cmd[e]
      /\ cmd'[c].node = q.node /\ cmd'[c].created = now
  BY InsertedRow, NoRowIsNothing DEF Admitted, IInv, TypeOK, CreateInsert
<1>2. now \in Nat /\ RateWindow \in Nat /\ RateMax \in Nat /\ q.at \in Nat /\ q.at <= now
  BY <1>1, RateAssumption DEF IInv, TypeOK, RateInv, Request
<1>3. /\ IsFiniteSet(Rows) /\ IsFiniteSet(RecentCommands(q)) /\ IsFiniteSet(old)
      /\ Cardinality(RecentCommands(q)) \in Nat /\ Cardinality(old) <= RateMax
  <2>1. RecentCommands(q) \in SUBSET Rows /\ old \in SUBSET Rows
    BY DEF RecentCommands, CreatedWithin, OfNode, Rows
  <2> QED BY <2>1, FS_Subset, FS_CardinalityType DEF RateInv
<1>4. \A e \in CmdId : e # c => (e \in new <=> e \in old)
  BY <1>1 DEF CreatedWithin, OfNode
<1>5. CASE c \notin new
  <2>1. new = old
    BY <1>1, <1>4, <1>5 DEF CreatedWithin, OfNode
  <2> QED BY <1>3, <2>1
<1>6. CASE c \in new
  <2>1. n = q.node /\ a <= now /\ now <= a + RateWindow
    BY <1>1, <1>2, <1>6 DEF CreatedWithin, OfNode
  <2>2. new \in SUBSET (RecentCommands(q) \cup {c})
    <3> SUFFICES ASSUME NEW e \in new, e # c
                 PROVE  e \in RecentCommands(q)
      OBVIOUS
    <3>1. e \in OfNode(q.node) /\ cmd[e].created \in a..(a + RateWindow)
      BY <1>4, <2>1 DEF CreatedWithin, OfNode
    <3>2. q.at - RateWindow <= cmd[e].created
      BY <1>2, <2>1, <3>1
    <3> QED BY <1>2, <3>1, <3>2 DEF RecentCommands
  <2>3. c \notin RecentCommands(q)
    BY <1>1 DEF RecentCommands, OfNode
  <2>4. /\ IsFiniteSet(RecentCommands(q) \cup {c})
        /\ Cardinality(RecentCommands(q) \cup {c}) = Cardinality(RecentCommands(q)) + 1
    BY <1>3, <2>3, FS_AddElement
  <2>5. Cardinality(new) <= Cardinality(RecentCommands(q) \cup {c})
    BY <2>2, <2>4, FS_Subset
  <2>6. Cardinality(RecentCommands(q)) < RateMax
    BY <1>1 DEF WithinRateLimit
  <2>7. Cardinality(new) \in Nat
    BY <2>2, <2>4, FS_Subset, FS_CardinalityType
  <2>8. Cardinality(new) <= RateMax
    <3> HIDE DEF new
    <3> QED BY <1>2, <1>3, <2>4, <2>5, <2>6, <2>7
  <2> QED BY <2>8
<1> QED BY <1>5, <1>6

LEMMA RateInvariant == Spec => []RateInv
<1>1. Init => RateInv
  <2> SUFFICES ASSUME Init PROVE RateInv
    OBVIOUS
  <2>1. Rows = {} /\ \A n \in Node, a \in Nat : CreatedWithin(n, a, a + RateWindow) = {}
    BY NoRowIsNothing DEF Init, Rows, CreatedWithin, OfNode
  <2> QED BY <2>1, FS_EmptySet, RateAssumption, NoRowIsNothing DEF Init, RateInv
<1>2. IInv /\ RateInv /\ [Next]_vars => RateInv'
  <2> SUFFICES ASSUME IInv, RateInv, [Next]_vars PROVE RateInv'
    OBVIOUS
  <2>1. \A w \in Worker : creating'[w] # NoRequest => creating'[w].at <= now'
    BY ReadingsKept
  <2>2. now \in Nat /\ now' \in Nat /\ now <= now'
    BY ClockMonotone
  <2>3. CASE RowsEvolve
    <3>1. \A c \in CmdId : Exists(cmd'[c]) => cmd'[c].created <= now'
      <4> SUFFICES ASSUME NEW c \in CmdId, Exists(cmd'[c])
                   PROVE  cmd'[c].created <= now'
        OBVIOUS
      <4>1. c \in Rows /\ Exists(cmd[c]) /\ cmd'[c].created = cmd[c].created
        BY <2>3, EvolvedSets DEF Rows
      <4>2. cmd[c].created \in Nat
        BY <4>1, RowOrNoRow DEF IInv, TypeOK, Row
      <4> QED BY <2>2, <4>1, <4>2 DEF RateInv
    <3>2. \A n \in Node, a \in Nat :
            Cardinality(CreatedWithin(n, a, a + RateWindow)') <= RateMax
      <4> TAKE n \in Node, a \in Nat
      <4>1. a + RateWindow \in Nat
        BY RateAssumption
      <4>2. CreatedWithin(n, a, a + RateWindow)' = CreatedWithin(n, a, a + RateWindow)
        BY <2>3, <4>1, EvolvedSets
      <4> QED BY <4>2 DEF RateInv
    <3> QED BY <2>1, <2>3, <3>1, <3>2, EvolvedSets DEF RateInv
  <2>4. ASSUME NEW w \in Worker, NEW c \in CmdId, CreateInsert(w, c)
        PROVE  RateInv'
    <3>1. /\ \A e \in CmdId : e # c => cmd'[e] = cmd[e]
          /\ cmd'[c].created = now
      BY <2>4, InsertedRow DEF IInv, TypeOK
    <3>2. \A e \in CmdId : Exists(cmd'[e]) => cmd'[e].created <= now'
      <4> SUFFICES ASSUME NEW e \in CmdId, Exists(cmd'[e])
                   PROVE  cmd'[e].created <= now'
        OBVIOUS
      <4>1. CASE e # c
        <5>1. cmd'[e] = cmd[e] /\ cmd[e].created \in Nat
          BY <3>1, <4>1, RowOrNoRow DEF IInv, TypeOK, Row
        <5> QED BY <2>2, <5>1 DEF RateInv
      <4> QED BY <2>2, <3>1, <4>1
    <3>3. IsFiniteSet(Rows')
      <4>1. Rows' \in SUBSET (Rows \cup {c})
        BY <3>1 DEF Rows
      <4> QED BY <4>1, FS_AddElement, FS_Subset DEF RateInv
    <3> QED BY <2>1, <2>4, <3>2, <3>3, InsertWithinLimit DEF RateInv
  <2> QED BY <2>3, <2>4, NextEvolves
<1> QED BY <1>1, <1>2, InductiveInvariant, PTL DEF Spec

(***************************************************************************)
(* No window of RateWindow time units holds more than RateMax commands of  *)
(* a node, for any clock readings and interleaving of creates.             *)
(***************************************************************************)
THEOREM RateLimited == Spec => []RateLimitHolds
<1>1. IInv /\ RateInv => RateLimitHolds
  BY DEF IInv, TypeOK, RateInv, RateLimitHolds
<1> QED BY <1>1, RateInvariant, InductiveInvariant, PTL

-----------------------------------------------------------------------------
(* The order of deliveries.                                                *)

LEMMA ReconciledStatus ==
    ASSUME IInv, NEW S \in SUBSET CmdId, NEW t \in Nat, NEW c \in CmdId
    PROVE  LET clean == Reconciled(S, t) IN
           /\ clean[c] # cmd[c] => clean[c].status \in {Queued, Expired}
           /\ c \in S /\ clean[c].status = Queued => ~CommandExpired(clean[c], t)
           /\ Exists(cmd[c]) => clean[c].created = cmd[c].created
<1> DEFINE clean == Reconciled(S, t)
<1>1. cmd[c] \in Row \cup {NoRow}
  BY DEF IInv, TypeOK
<1>2. Exists(cmd[c]) => clean[c].created = cmd[c].created
  BY <1>1, ReconciledRows, EvolvedRow
<1>3. CASE c \in S /\ Pending(cmd[c])
  <2>1. cmd[c] \in Row /\ clean[c] = Reconcile(cmd[c], t)
    BY <1>1, <1>3, RowOrNoRow DEF Reconciled
  <2>2. CASE CommandExpired(cmd[c], t)
    <3>1. clean[c] = Expire(cmd[c])
      BY <2>1, <2>2 DEF Reconcile
    <3>2. clean[c].status = Expired
      BY <2>1, <3>1 DEF Expire, Row
    <3> QED BY <1>2, <3>2 DEF Expired, Queued
  <2>3. CASE ~CommandExpired(cmd[c], t) /\ LeaseExpired(cmd[c], t)
    <3>1. clean[c] = Requeue(cmd[c])
      BY <2>1, <2>3 DEF Reconcile
    <3>2. clean[c].status = Queued /\ clean[c].exp = cmd[c].exp
      BY <2>1, <3>1 DEF Requeue, Row
    <3> QED BY <1>2, <2>3, <3>2 DEF CommandExpired
  <2>4. CASE ~CommandExpired(cmd[c], t) /\ ~LeaseExpired(cmd[c], t)
    <3>1. clean[c] = cmd[c]
      BY <2>1, <2>4 DEF Reconcile
    <3> QED BY <1>2, <2>4, <3>1
  <2> QED BY <2>2, <2>3, <2>4
<1>4. CASE ~(c \in S /\ Pending(cmd[c]))
  <2>1. clean[c] = cmd[c]
    BY <1>4 DEF Reconciled
  <2>2. cmd[c].status = Queued => Pending(cmd[c])
    BY DEF Pending, PendingStatus
  <2> QED BY <1>2, <1>4, <2>1, <2>2
<1> QED BY <1>3, <1>4

LEMMA OnlyPullLeases ==
    ASSUME IInv, [Next]_vars, NEW d \in CmdId,
           cmd'[d] # cmd[d], cmd'[d].status = Leased
    PROVE  \E h \in Hub, t \in ClockReading, u \in LeaseDuration, max \in 1..MaxPull :
              Pull(h, t, u, max)
<1>1. Leased \notin {Queued, Expired} /\ Leased \notin AckStatus
  BY DEF Leased, Queued, Expired, AckStatus, Sent, Executing, Succeeded, Failed
<1>2. ASSUME NEW S \in SUBSET CmdId, NEW t \in ClockReading,
             cmd'[d] = Reconciled(S, t)[d]
      PROVE  FALSE
  BY <1>1, <1>2, ReconciledStatus, ClockReadings DEF IInv
<1>3. ASSUME NEW w \in Worker, Create(w) PROVE FALSE
  <2>1. ASSUME NEW n \in Node, NEW k \in Key, NEW t0 \in ClockReading,
               NEW t \in ClockReading, NEW ttl \in TTL,
               CreateBegin(w, n, k, t0, t, ttl)
        PROVE  FALSE
    BY <1>2, <2>1 DEF CreateBegin, OfNode
  <2>2. ASSUME NEW c \in CmdId, CreateInsert(w, c) PROVE FALSE
    <3>1. cmd' = [cmd EXCEPT ![c] = cmd'[c]] /\ cmd'[c].status = Queued
      BY <2>2, InsertedRow
    <3> QED BY <1>1, <3>1 DEF IInv, TypeOK
  <2>3. CASE CreateAnswered(w) \/ CreateAbort(w)
    BY <2>3 DEF CreateAnswered, CreateAbort
  <2> QED BY <1>3, <2>1, <2>2, <2>3 DEF Create
<1>4. ASSUME NEW h \in Hub, NEW t \in ClockReading, NEW c \in CmdId,
             NEW s \in AckStatus, AckRepeated(h, c, s, t) \/ AckApplied(h, c, s, t)
      PROVE  FALSE
  <2>1. OfHub(h) \in SUBSET CmdId
    BY DEF OfHub
  <2>2. CASE AckRepeated(h, c, s, t)
    BY <1>2, <2>1, <2>2 DEF AckRepeated
  <2>3. CASE AckApplied(h, c, s, t)
    <3>1. /\ cmd' = [Reconciled(OfHub(h), t) EXCEPT ![c] =
                         Acked(Reconciled(OfHub(h), t)[c], s)]
          /\ c \in OfHub(h)
      BY <2>3 DEF AckApplied
    <3>2. CASE c # d
      BY <1>2, <2>1, <3>1, <3>2 DEF Reconciled
    <3>3. CASE c = d
      <4>1. Reconciled(OfHub(h), t)[c] \in Row
        BY <3>1, ReconciledOfHub
      <4>2. cmd'[d] = Acked(Reconciled(OfHub(h), t)[c], s)
        BY <3>1, <3>3 DEF Reconciled
      <4>3. cmd'[d].status = s
        BY <4>1, <4>2 DEF Acked, Row
      <4> QED BY <1>1, <4>3
    <3> QED BY <3>2, <3>3
  <2> QED BY <1>4, <2>2, <2>3
<1>5. ASSUME NEW c \in CmdId, NEW t \in ClockReading, GetStatus(c, t) PROVE FALSE
  <2>1. cmd' = [cmd EXCEPT ![c] = Expire(cmd[c])] /\ cmd[c] \in Row
    BY <1>5, RowOrNoRow DEF GetStatus, ShouldExpireOnAccess, IInv, TypeOK
  <2>2. Expire(cmd[c]).status = Expired
    BY <2>1 DEF Expire, Row
  <2> QED BY <1>1, <2>1, <2>2 DEF IInv, TypeOK
<1>6. cmd' # cmd
  OBVIOUS
<1> QED BY <1>3, <1>4, <1>5, <1>6 DEF Next, Tick, HubCall, vars

(***************************************************************************)
(* No poll hands out a command while an older one of its hub stays queued. *)
(***************************************************************************)
THEOREM DeliveredInOrder == Spec => OldestFirst
<1> DEFINE A == \A c, d \in CmdId :
          /\ Exists(cmd[c]) /\ Exists(cmd[d])
          /\ HubOf[cmd[c].node] = HubOf[cmd[d].node]
          /\ cmd[c].created < cmd[d].created
          /\ cmd'[d] # cmd[d] /\ cmd'[d].status = Leased
          => cmd'[c].status # Queued
<1>1. IInv /\ [Next]_vars => A
  <2> SUFFICES ASSUME IInv, [Next]_vars, NEW c \in CmdId, NEW d \in CmdId,
                      Exists(cmd[c]), Exists(cmd[d]),
                      HubOf[cmd[c].node] = HubOf[cmd[d].node],
                      cmd[c].created < cmd[d].created,
                      cmd'[d] # cmd[d], cmd'[d].status = Leased,
                      cmd'[c].status = Queued
               PROVE  FALSE
    OBVIOUS
  <2>1. PICK h \in Hub, t \in ClockReading, u \in LeaseDuration, max \in 1..MaxPull :
             Pull(h, t, u, max)
    BY OnlyPullLeases
  <2> DEFINE clean == Reconciled(OfHub(h), t)
  <2>2. PICK L \in SUBSET OfHub(h) :
          /\ OldestOf(clean, Offered(clean, h, t), L, max)
          /\ cmd' = [e \in CmdId |-> IF e \in L THEN LeaseTo(clean[e], t + u)
                                               ELSE clean[e]]
    BY <2>1 DEF Pull
  <2>3. t \in Nat /\ OfHub(h) \in SUBSET CmdId
    BY ClockReadings DEF IInv, OfHub
  <2>4. d \in L
    <3> SUFFICES ASSUME d \notin L PROVE FALSE
      OBVIOUS
    <3>1. cmd'[d] = clean[d]
      BY <2>2
    <3>2. Leased \notin {Queued, Expired}
      BY DEF Leased, Queued, Expired
    <3> QED BY <2>3, <3>1, <3>2, ReconciledStatus
  <2>5. d \in OfHub(h) /\ c \in OfHub(h)
    BY <2>2, <2>4 DEF OfHub
  <2>6. /\ cmd[c] \in Row /\ cmd[d] \in Row /\ clean[c] \in Row
        /\ clean[c].created = cmd[c].created /\ clean[d].created = cmd[d].created
    BY <2>3, <2>5, ReconciledStatus, ReconciledOfHub
  <2>7. c \notin L /\ clean[c].status = Queued
    <3>1. c \in L => cmd'[c].status = Leased
      BY <2>2, <2>6 DEF LeaseTo, Row
    <3>2. Queued # Leased
      BY DEF Queued, Leased
    <3> QED BY <2>2, <3>1, <3>2
  <2>8. c \in Offered(clean, h, t)
    BY <2>3, <2>5, <2>7, ReconciledStatus DEF Offered
  <2>9. clean[d].created <= clean[c].created
    BY <2>2, <2>4, <2>7, <2>8 DEF OldestOf
  <2> QED BY <2>6, <2>9 DEF Row
<1> QED BY <1>1, InductiveInvariant, PTL DEF Spec, OldestFirst

-----------------------------------------------------------------------------
(***************************************************************************)
(* The slots.  An insert enters a free slot, and any other step settles    *)
(* the commands it finishes and confirms, or changes nothing abstractly.   *)
(***************************************************************************)
Occupants(n) == {c \in OfNode(n) : Active(cmd[c])}
Confirmed    == {c \in CmdId : cmd[c].status \in {Sent, Executing}}
Retired      == {c \in CmdId : Terminal(cmd[c])}

LEMMA InitImplements ==
    ASSUME Init
    PROVE  Slots!SlotInit
BY NoRowIsNothing DEF Init, Slots!SlotInit, OfNode

(***************************************************************************)
(* An insert enters its node.                                              *)
(***************************************************************************)
LEMMA InsertImplements ==
    ASSUME IInv, NEW w \in Worker, NEW c \in CmdId, CreateInsert(w, c)
    PROVE  Slots!Enter(creating[w].node, c)
<1> DEFINE n == creating[w].node
<1>1. /\ n \in Node /\ cmd[c] = NoRow
      /\ cmd' = [cmd EXCEPT ![c] = cmd'[c]]
      /\ cmd'[c] \in Row /\ cmd'[c].node = n /\ cmd'[c].status = Queued
      /\ Occupants(n) = {}
  BY InsertedRow DEF Admitted, NodeBusy, Occupants, Request
<1>2. \A e \in CmdId : e # c => cmd'[e] = cmd[e]
  BY <1>1 DEF IInv, TypeOK
<1>3. /\ Active(cmd'[c]) /\ Exists(cmd'[c]) /\ ~Terminal(cmd'[c])
      /\ cmd'[c].status \notin {Sent, Executing}
  BY <1>1 DEF Active, Exists, Terminal, Status, ActiveStatus, TerminalStatus,
     Queued, Leased, Sent, Executing, Succeeded, Failed, Expired, Cancelled
<1>4. \A m \in Node : Occupants(m)' = IF m = n THEN {c} ELSE Occupants(m)
  BY <1>1, <1>2, <1>3, NoRowIsNothing DEF Occupants, OfNode
<1>5. Confirmed' = Confirmed /\ Retired' = Retired
  BY <1>1, <1>2, <1>3, NoRowIsNothing DEF Confirmed, Retired
<1>6. c \notin Retired /\ \A m \in Node : c \notin Occupants(m)
  BY <1>1, NoRowIsNothing DEF Retired, Occupants
<1>7. c \notin UNION {[m \in Node |-> Occupants(m)][k] : k \in Node}
  BY <1>6
<1> QED
  BY <1>1, <1>4, <1>5, <1>6, <1>7
  DEF Slots!Enter, Slots!Unfinished, Occupants, Confirmed, Retired

(***************************************************************************)
(* Any other step: the commands it finishes leave their slots, the ones it *)
(* moves to sent_to_probe or executing become confirmed.                   *)
(***************************************************************************)
LEMMA EvolveImplements ==
    ASSUME IInv, RowsEvolve
    PROVE  Slots!SlotNext \/ Slots!slots' = Slots!slots
<1> DEFINE S == {c \in CmdId : Active(cmd[c]) /\ Terminal(cmd'[c])}
           D == {c \in CmdId : /\ Active(cmd[c]) /\ ~Terminal(cmd'[c])
                               /\ c \notin Confirmed /\ c \in Confirmed'}
<1>1. \A c \in CmdId :
        /\ Exists(cmd'[c]) <=> Exists(cmd[c])
        /\ Exists(cmd[c]) => cmd'[c].node = cmd[c].node /\ cmd[c].node \in Node
        /\ Active(cmd'[c]) => Active(cmd[c])
        /\ Terminal(cmd[c]) => cmd'[c] = cmd[c]
        /\ Active(cmd[c]) => Exists(cmd[c])
        /\ Active(cmd[c]) => Active(cmd'[c]) \/ Terminal(cmd'[c])
        /\ Terminal(cmd[c]) => ~Active(cmd[c])
        /\ Terminal(cmd'[c]) => ~Active(cmd'[c])
        /\ Terminal(cmd'[c]) => Active(cmd[c]) \/ Terminal(cmd[c])
  <2> TAKE c \in CmdId
  <2>1. PICK t \in ClockReading : Evolves(cmd[c], cmd'[c], t)
    BY DEF RowsEvolve
  <2>2. cmd[c] \in Row \cup {NoRow} /\ cmd'[c] \in Row \cup {NoRow}
    BY <2>1 DEF IInv, TypeOK, Evolves, Changed
  <2>3. \A r \in Row \cup {NoRow} :
           /\ Active(r) => Exists(r)
           /\ Exists(r) <=> Active(r) \/ Terminal(r)
           /\ Terminal(r) => ~Active(r)
           /\ Exists(r) => r.node \in Node
    BY RowOrNoRow DEF Row, Exists, Active, Terminal, Status
  <2> QED BY <2>1, <2>2, <2>3, EvolvedRow
<1>2. \A c \in CmdId :
        /\ c \in Confirmed => Active(cmd[c])
        /\ c \in Confirmed' => Active(cmd'[c])
        /\ c \in Confirmed => c \in Confirmed' \/ Terminal(cmd'[c])
  <2> TAKE c \in CmdId
  <2>1. \A r : r.status \in {Sent, Executing} => Active(r)
    BY DEF Active, ActiveStatus
  <2>2. \A r : Active(r) => r.status \in {Sent, Executing} \/ Pending(r)
    BY DEF Active, ActiveStatus, Pending, PendingStatus
  <2>3. PICK t \in ClockReading : Evolves(cmd[c], cmd'[c], t)
    BY DEF RowsEvolve
  <2>4. c \in Confirmed => cmd'[c] = cmd[c] \/ ~Pending(cmd'[c])
    BY <2>3 DEF Confirmed, Evolves, Changed
  <2> QED BY <1>1, <2>1, <2>2, <2>4 DEF Confirmed
<1>3. \A n \in Node : Occupants(n)' = Occupants(n) \ S
  BY <1>1 DEF Occupants, OfNode
<1>4. Confirmed' = (Confirmed \cup D) \ S
  <2>1. \A c \in CmdId : c \in Confirmed' <=> c \in (Confirmed \cup D) \ S
    BY <1>1, <1>2
  <2> QED BY <2>1 DEF Confirmed
<1>5. Retired' = Retired \cup S
  <2>1. \A c \in CmdId : c \in Retired' <=> c \in Retired \cup S
    BY <1>1 DEF Retired
  <2> QED BY <2>1 DEF Retired
<1> DEFINE U == UNION {[m \in Node |-> Occupants(m)][k] : k \in Node}
<1>6. /\ S \in SUBSET U /\ D \in SUBSET (U \ (S \cup Confirmed))
  <2>1. \A c \in CmdId : Active(cmd[c]) => c \in Occupants(cmd[c].node) /\ cmd[c].node \in Node
    BY <1>1 DEF Occupants, OfNode
  <2> QED BY <2>1
<1>7. CASE S \cup D = {}
  <2>1. /\ \A n \in Node : Occupants(n)' = Occupants(n)
        /\ Confirmed' = Confirmed /\ Retired' = Retired
    BY <1>3, <1>4, <1>5, <1>7
  <2>2. [n \in Node |-> Occupants(n)]' = [n \in Node |-> Occupants(n)]
    BY <2>1
  <2>3. Slots!slots = <<[n \in Node |-> Occupants(n)], Confirmed, Retired>>
    BY DEF Slots!slots, Occupants, Confirmed, Retired
  <2>4. Slots!slots' = <<[n \in Node |-> Occupants(n)]', Confirmed', Retired'>>
    BY DEF Slots!slots, Occupants, Confirmed, Retired
  <2> QED BY <2>1, <2>2, <2>3, <2>4
<1>8. CASE S \cup D # {}
  <2> HIDE DEF S, D
  <2>0. PICK X, Y : X = S /\ Y = D
    OBVIOUS
  <2>1. Slots!Settle(X, Y)
    BY <1>3, <1>4, <1>5, <1>8, <2>0 DEF Slots!Settle, Occupants, Confirmed, Retired
  <2>2. X \in SUBSET Slots!Unfinished
        /\ Y \in SUBSET (Slots!Unfinished \ (X \cup Confirmed))
    BY <1>6, <2>0 DEF Slots!Unfinished, Occupants
  <2> QED BY <2>1, <2>2 DEF Slots!SlotNext, Confirmed
<1> QED BY <1>7, <1>8

(***************************************************************************)
(* The queue of the service implements the node slots: a command enters    *)
(* one free slot, is confirmed at most once, and never comes back.         *)
(***************************************************************************)
THEOREM QueueImplementsSlots == Spec => ImplementsSlots
<1>1. Init => Slots!SlotInit
  BY InitImplements
<1>2. IInv /\ [Next]_vars => [Slots!SlotNext]_(Slots!slots)
  <2> SUFFICES ASSUME IInv, [Next]_vars
               PROVE  Slots!SlotNext \/ Slots!slots' = Slots!slots
    OBVIOUS
  <2>1. ASSUME NEW w \in Worker, NEW c \in CmdId, CreateInsert(w, c)
        PROVE  Slots!SlotNext
    <3>1. creating[w].node \in Node
      BY <2>1, InsertedRow DEF Request
    <3> QED BY <2>1, <3>1, InsertImplements DEF Slots!SlotNext
  <2> QED BY <2>1, NextEvolves, EvolveImplements
<1> QED BY <1>1, <1>2, InductiveInvariant, PTL DEF Spec, ImplementsSlots, Slots!SlotSpec

-----------------------------------------------------------------------------
(***************************************************************************)
(* Why a confirmed command can block its node for ever: the only handler   *)
(* that changes such a row is AckMotorCommandEvent, and it refuses a       *)
(* command that is past its expiry.  A command is stuck when even the      *)
(* oldest clock reading a handler may hold sees it expired.                *)
(***************************************************************************)
Stuck(c) == cmd[c].status \in {Sent, Executing} /\ cmd[c].exp + MaxLag <= now

LEMMA StuckStep ==
    ASSUME IInv, [Next]_vars, NEW c \in CmdId, Stuck(c)
    PROVE  cmd'[c] = cmd[c] /\ now' \in Nat /\ now <= now'
<1>1. now' \in Nat /\ now <= now'
  BY ClockMonotone
<1>2. ASSUME NEW t \in ClockReading, Changed(cmd[c], cmd'[c], t) PROVE FALSE
  <2>1. cmd[c].exp \in Nat /\ ~(cmd[c].exp <= t)
    BY <1>2 DEF Changed, Row, CommandExpired, Stuck
  <2>2. t \in Nat /\ now \in Nat /\ now - t <= MaxLag /\ MaxLag \in Nat
    BY TimeAssumption DEF IInv, TypeOK, ClockReading
  <2> QED  BY <2>1, <2>2 DEF Stuck
<1> QED  BY <1>1, <1>2, RowStep, NoRowIsNothing DEF Stuck

(***************************************************************************)
(* A stuck command keeps its status for good, whatever hubs and users      *)
(* call.                                                                   *)
(***************************************************************************)
THEOREM StuckForGood == ASSUME NEW c \in CmdId PROVE Spec => [](Stuck(c) => []Stuck(c))
<1>1. IInv /\ [Next]_vars /\ Stuck(c) => Stuck(c)'
  <2> SUFFICES ASSUME IInv, [Next]_vars, Stuck(c) PROVE Stuck(c)'
    OBVIOUS
  <2>1. cmd[c] \in Row /\ now \in Nat /\ MaxLag \in Nat
    BY NoRowIsNothing, TimeAssumption DEF IInv, TypeOK, Stuck
  <2> QED  BY <2>1, StuckStep DEF Stuck, Row
<1> QED  BY <1>1, InductiveInvariant, PTL DEF Spec

(***************************************************************************)
(* While a command is stuck, CreateMotorCommand inserts no other one for   *)
(* its node.                                                               *)
(***************************************************************************)
THEOREM StuckBlocksNode ==
    ASSUME NEW c \in CmdId
    PROVE  Spec => [][Stuck(c) => \A d \in CmdId :
                         Exists(cmd'[d]) /\ cmd'[d].node = cmd[c].node => Exists(cmd[d])]_vars
<1> DEFINE A == Stuck(c) => \A d \in CmdId :
                   Exists(cmd'[d]) /\ cmd'[d].node = cmd[c].node => Exists(cmd[d])
<1>1. IInv /\ [Next]_vars => A
  <2> SUFFICES ASSUME IInv, [Next]_vars, Stuck(c), NEW d \in CmdId,
                      Exists(cmd'[d]), cmd'[d].node = cmd[c].node, ~Exists(cmd[d])
               PROVE  FALSE
    OBVIOUS
  <2>1. Active(cmd[c]) /\ Exists(cmd[c])
    BY DEF Stuck, Active, ActiveStatus, Exists, Status
  <2>2. ~RowsEvolve
    BY EvolvedRow DEF RowsEvolve, IInv, TypeOK
  <2>3. PICK w \in Worker, e \in CmdId : CreateInsert(w, e)
    BY <2>2, NextEvolves
  <2>4. /\ cmd' = [cmd EXCEPT ![e] = cmd'[e]] /\ cmd'[e].node = creating[w].node
        /\ \A f \in CmdId :
              Exists(cmd[f]) /\ cmd[f].node = creating[w].node => ~Active(cmd[f])
    BY <2>3, InsertedRow DEF Admitted, NodeBusy, OfNode
  <2>5. d = e
    BY <2>4 DEF IInv, TypeOK
  <2> QED  BY <2>1, <2>4, <2>5
<1> QED  BY <1>1, InductiveInvariant, PTL DEF Spec

(***************************************************************************)
(* What the table of validateAckTransition provides, that a confirmed      *)
(* command past its expiry ends up expired, is false in every execution    *)
(* with a stuck command, however diligent hubs and users are.              *)
(***************************************************************************)
THEOREM StuckNeverResolves ==
    ASSUME NEW c \in CmdId
    PROVE  Spec /\ <>Stuck(c) => ~DeliveredResolves
<1> DEFINE Overdue == cmd[c].status \in {Sent, Executing} /\ CommandExpired(cmd[c], now)
<1>1. IInv /\ Stuck(c) => Overdue /\ ~Terminal(cmd[c])
  <2> SUFFICES ASSUME IInv, Stuck(c) PROVE Overdue /\ ~Terminal(cmd[c])
    OBVIOUS
  <2>1. cmd[c] \in Row /\ now \in Nat /\ MaxLag \in Nat
    BY NoRowIsNothing, TimeAssumption DEF IInv, TypeOK, Stuck
  <2>2. Overdue
    BY <2>1 DEF Stuck, CommandExpired, Row
  <2>3. ~Terminal(cmd[c])
    BY DEF Stuck, Terminal, TerminalStatus, Sent, Executing, Succeeded, Failed, Expired,
       Cancelled
  <2> QED  BY <2>2, <2>3
<1>2. DeliveredResolves => (Overdue ~> Terminal(cmd[c]))
  BY DEF DeliveredResolves
<1> QED  BY <1>1, <1>2, StuckForGood, InductiveInvariant, PTL

-----------------------------------------------------------------------------
(***************************************************************************)
(* How a queued or leased command resolves.  Nothing works in the          *)
(* background: it is the next poll of its hub after its expiry that        *)
(* expires it, whatever else has become of it until then.                  *)
(***************************************************************************)
Overdue(c) == Pending(cmd[c]) /\ CommandExpired(cmd[c], now)

LEMMA OverdueStays ==
    ASSUME IInv, [Next]_vars, NEW c \in CmdId, Overdue(c), Pending(cmd'[c])
    PROVE  Overdue(c)'
<1>1. now \in Nat /\ now' \in Nat /\ now <= now' /\ cmd[c] \in Row
  BY ClockMonotone, RowOrNoRow DEF IInv, TypeOK, Overdue
<1>2. cmd'[c].exp = cmd[c].exp
  BY RowStep, NoRowIsNothing DEF Changed, Overdue
<1>3. cmd[c].exp \in Nat /\ cmd[c].exp <= now
  BY <1>1 DEF Overdue, CommandExpired, Row
<1> QED  BY <1>1, <1>2, <1>3 DEF Overdue, CommandExpired

LEMMA PollExpires ==
    ASSUME IInv, NEW c \in CmdId, Overdue(c), PromptPull(HubOf[cmd[c].node])
    PROVE  ~Pending(cmd'[c])
<1> DEFINE h     == HubOf[cmd[c].node]
           clean == Reconciled(OfHub(h), now)
<1>1. cmd[c] \in Row /\ Exists(cmd[c])
  BY RowOrNoRow DEF IInv, TypeOK, Overdue
<1>2. c \in OfHub(h)
  BY <1>1 DEF OfHub
<1>3. clean[c] = Expire(cmd[c])
  BY <1>2 DEF Reconciled, Reconcile, Overdue
<1>4. clean[c].status = Expired
  BY <1>1, <1>3 DEF Expire, Row
<1>5. PICK d \in LeaseDuration, max \in 1..MaxPull : Pull(h, now, d, max)
  BY DEF PromptPull
<1>6. PICK L : /\ L \subseteq Offered(clean, h, now)
               /\ cmd' = [e \in CmdId |-> IF e \in L THEN LeaseTo(clean[e], now + d)
                                                      ELSE clean[e]]
  BY <1>5 DEF Pull, OldestOf
<1>7. c \notin L
  BY <1>4, <1>6 DEF Offered, Queued, Expired
<1>8. cmd'[c].status = Expired
  BY <1>4, <1>6, <1>7
<1> QED  BY <1>8 DEF Pending, PendingStatus, Queued, Leased, Expired

\* A pending command is closed, or time reaches its expiry.
ExpiryComes(c) == Pending(cmd[c]) ~> (~Pending(cmd[c]) \/ Overdue(c))

\* An overdue command is closed, or its hub polls with the time as it is.
PollComes(c) ==
    [](Overdue(c) => \/ <>(~Pending(cmd[c]))
                     \/ <><<PromptPull(HubOf[cmd[c].node])>>_vars)

(***************************************************************************)
(* If time reaches the expiry of every command that stays pending, and the *)
(* hub of an overdue command polls, then no command stays pending: for     *)
(* this no acknowledgement, no user and no other hub is needed.            *)
(***************************************************************************)
THEOREM PollsResolve ==
    Spec /\ (\A c \in CmdId : ExpiryComes(c) /\ PollComes(c)) => PendingResolves
<1>1. ASSUME NEW c \in CmdId
      PROVE  Spec /\ ExpiryComes(c) /\ PollComes(c) => (Pending(cmd[c]) ~> ~Pending(cmd[c]))
  <2>1. IInv /\ [Next]_vars /\ Overdue(c) => Overdue(c)' \/ (~Pending(cmd[c]))'
    BY OverdueStays
  <2>2. IInv /\ Overdue(c) /\ PromptPull(HubOf[cmd[c].node]) => (~Pending(cmd[c]))'
    BY PollExpires
  <2> QED  BY <2>1, <2>2, InductiveInvariant, PTL DEF Spec, ExpiryComes, PollComes
<1> QED  BY <1>1 DEF PendingResolves
=============================================================================
