--------------------------- MODULE SensorBinding ---------------------------
(***************************************************************************)
(* How a sensor reading is stored (InsertSensorData and bindNodeToHub in   *)
(* internal/service/garden.go).  The first hub that reports a node becomes *)
(* its hub, later readings of the node are accepted from that hub only.    *)
(* The handler uses no transaction: it loads the node's row, creates or    *)
(* updates it, and inserts the reading, each in a statement of its own,    *)
(* while other requests do the same.                                       *)
(*                                                                         *)
(* Nothing in the code makes a node row without a hub, but the schema has  *)
(* them ("unregistered" nodes, auth/models.go) and the handler binds them: *)
(* at the start any node may have such a row, put there by other means.    *)
(***************************************************************************)

CONSTANTS Hub, Node,
          Worker      \* requests served at a time

VARIABLES hubOf,      \* the sensor_nodes table: hub_id of the node's row
          created,    \* the nodes whose row was created by this code
          sentBy,     \* the sensor_data table: which hubs sent the node's readings
          insert      \* per worker, the InsertSensorData request it serves

bindingVars == <<hubOf, created, sentBy, insert>>

NoRow == "no row"
NoHub == "no hub"     \* a row whose hub_id is NULL

NoInsert           == [step |-> "none"]
Insert(step, h, n) == [step |-> step, hub |-> h, node |-> n]

Init == /\ hubOf \in [Node -> {NoRow, NoHub}]
        /\ created = {}
        /\ sentBy = [n \in Node |-> {}]
        /\ insert = [w \in Worker |-> NoInsert]

-----------------------------------------------------------------------------
\* Mutant: a row without a hub counts as bound to another one.
AcceptsBound(h, n) == hubOf[n] \in {NoRow, h}

\* Mutant: a mismatch with the hub of the node is only logged.
AcceptsLogged(h, n) == n \in Node

(* bindNodeToHub refuses a node that is bound to another hub; a refused    *)
(* request leaves no trace.                                                *)
Accepts(h, n) == hubOf[n] \in {NoRow, NoHub, h}

(* What is left to do for a node whose row reads r.                        *)
NextStep(r) == IF r = NoRow THEN "create" ELSE IF r = NoHub THEN "bind" ELSE "store"

(* The request of hub h loads the row of node n.                           *)
LoadNode(w, h, n) ==
    /\ insert[w] = NoInsert
    /\ Accepts(h, n)
    /\ insert' = [insert EXCEPT ![w] = Insert(NextStep(hubOf[n]), h, n)]
    /\ UNCHANGED <<hubOf, created, sentBy>>

\* Mutant: the insert is an upsert, ON CONFLICT it updates hub_id.
UpsertAllowed(n) == n \in Node

(* The unique index on node_id admits one row.                             *)
CreateAllowed(n) == hubOf[n] = NoRow

(* It found no row: it creates one with its hub,                           *)
CreateNode(w) ==
    LET r == insert[w] IN
    /\ r.step = "create"
    /\ CreateAllowed(r.node)
    /\ hubOf' = [hubOf EXCEPT ![r.node] = r.hub]
    /\ created' = created \cup {r.node}
    /\ insert' = [insert EXCEPT ![w] = Insert("store", r.hub, r.node)]
    /\ UNCHANGED sentBy

(* or loses to a request that created it meanwhile, and fails.             *)
CreateRefused(w) ==
    /\ insert[w].step = "create"
    /\ ~CreateAllowed(insert[w].node)
    /\ insert' = [insert EXCEPT ![w] = NoInsert]
    /\ UNCHANGED <<hubOf, created, sentBy>>

(* It found a row without a hub: the update writes its hub whatever the    *)
(* row says by now.                                                        *)
BindNode(w) ==
    LET r == insert[w] IN
    /\ r.step = "bind"
    /\ hubOf' = [hubOf EXCEPT ![r.node] = r.hub]
    /\ insert' = [insert EXCEPT ![w] = Insert("store", r.hub, r.node)]
    /\ UNCHANGED <<created, sentBy>>

(* The node is bound to its hub: it stores the reading and answers.        *)
StoreReading(w) ==
    LET r == insert[w] IN
    /\ r.step = "store"
    /\ sentBy' = [sentBy EXCEPT ![r.node] = @ \cup {r.hub}]
    /\ insert' = [insert EXCEPT ![w] = NoInsert]
    /\ UNCHANGED <<hubOf, created>>

(* A statement fails or the server goes down: what is done stays done.     *)
InsertLost(w) ==
    /\ insert[w] # NoInsert
    /\ insert' = [insert EXCEPT ![w] = NoInsert]
    /\ UNCHANGED <<hubOf, created, sentBy>>

-----------------------------------------------------------------------------
(* One step of a request that is being served.                             *)
InsertStep(w) == \/ CreateNode(w) \/ CreateRefused(w) \/ BindNode(w)
                 \/ StoreReading(w)

Next == \E w \in Worker : \/ \E h \in Hub, n \in Node : LoadNode(w, h, n)
                          \/ InsertStep(w) \/ InsertLost(w)

Spec == Init /\ [][Next]_bindingVars
-----------------------------------------------------------------------------
(* Type invariant of the two tables and the requests.                      *)
TypeOK ==
    /\ hubOf \in [Node -> Hub \cup {NoRow, NoHub}]
    /\ created \in SUBSET Node
    /\ sentBy \in [Node -> SUBSET Hub]
    /\ insert \in [Worker -> {NoInsert} \cup
                     [step : {"create", "bind", "store"}, hub : Hub, node : Node]]

(***************************************************************************)
(* Every reading of a node whose row this code created was sent by the hub *)
(* the node is bound to, now and ever after: of two hubs that see a new    *)
(* node at the same time only one gets its readings in.  (A row that had   *)
(* no hub can be bound by both, and keeps the readings of both.)           *)
(***************************************************************************)
ReadingsAttributed == \A n \in created : sentBy[n] \subseteq {hubOf[n]}

(***************************************************************************)
(* The row names a hub, and no request is about to bind it that saw it     *)
(* without one.                                                            *)
(***************************************************************************)
Settled(n) ==
    /\ hubOf[n] \in Hub
    /\ \A w \in Worker : insert[w].step = "bind" => insert[w].node # n

(***************************************************************************)
(* A node stays with its hub ("pinned to their first-seen hub",            *)
(* docs/HUB_PROVISIONING.md), whatever requests are under way: one the     *)
(* code created from the start, one that had a row without a hub once the  *)
(* requests that raced for it are served.  The control service finds the   *)
(* hub of a node by this column, and its models take it for a constant.    *)
(***************************************************************************)
NodesStay ==
    [][\A n \in Node :
          n \in created \/ Settled(n) => hubOf'[n] = hubOf[n] /\ Settled(n)']_bindingVars

(***************************************************************************)
(* What the comment on InsertSensorData says of every node: it is bound to *)
(* the caller's hub on first sight, and inserts of a different hub are     *)
(* rejected from then on.  Not so for a row without a hub that two         *)
(* requests load before either binds it: the second one moves the node.    *)
(***************************************************************************)
PinnedToFirstHub ==
    [][\A n \in Node : hubOf[n] \in Hub => hubOf'[n] = hubOf[n]]_bindingVars

(***************************************************************************)
(* The handler keeps the promise of NodeRegistry for the nodes it          *)
(* registers: a node is pinned when its row is created, and every reading  *)
(* that is stored for it is one the registry takes.  The statements of     *)
(* competing requests look like single steps of the registry.              *)
(***************************************************************************)
Pinned   == [n \in Node |-> IF n \in created THEN hubOf[n] ELSE "unpinned"]
Reported == [n \in Node |-> IF n \in created THEN sentBy[n] ELSE {}]

Registry == INSTANCE NodeRegistry WITH pinned <- Pinned, reported <- Reported

ImplementsRegistry == Registry!RegistrySpec
=============================================================================
