------------------------ MODULE SensorBindingProofs ------------------------
(***************************************************************************)
(* Proofs about SensorBinding for any hubs, nodes and number of requests   *)
(* served at a time.  The invariant says what a request still knows when   *)
(* it acts on the row it loaded: a row that was there is still there, and  *)
(* a request about to store a reading of a node created here serves the    *)
(* hub of that node.  With it every statement is a step or a stutter of    *)
(* NodeRegistry.                                                           *)
(***************************************************************************)
EXTENDS SensorBinding, TLAPS

MarksApart == {NoRow, NoHub} \cap Hub = {} /\ NoRow # NoHub

(* A node without a row has no readings; a created one has a hub, and only *)
(* readings of that hub.                                                   *)
NodeInv(n) ==
    /\ hubOf[n] = NoRow => sentBy[n] = {}
    /\ n \in created => hubOf[n] \in Hub /\ sentBy[n] \subseteq {hubOf[n]}

RequestInv(r) ==
    /\ r.step \in {"bind", "store"} => hubOf[r.node] # NoRow
    /\ r.step = "bind" => r.node \notin created
    /\ r.step = "store" /\ r.node \in created => hubOf[r.node] = r.hub

IInv == /\ TypeOK
        /\ \A n \in Node : NodeInv(n)
        /\ \A w \in Worker : RequestInv(insert[w])

LEMMA InitIInv == ASSUME MarksApart PROVE Init => IInv
<1> SUFFICES ASSUME Init PROVE IInv
  OBVIOUS
<1>1. TypeOK
  BY DEF Init, TypeOK
<1>2. \A n \in Node : NodeInv(n)
  BY DEF Init, NodeInv
<1>3. \A w \in Worker : RequestInv(insert[w])
  BY DEF Init, RequestInv, NoInsert
<1> QED  BY <1>1, <1>2, <1>3 DEF IInv

(***************************************************************************)
(* The request a worker serves, when it has reached a step.                *)
(***************************************************************************)
LEMMA RequestType ==
    ASSUME TypeOK, NEW w \in Worker, insert[w].step \in {"create", "bind", "store"}
    PROVE  /\ insert[w].hub \in Hub /\ insert[w].node \in Node
           /\ insert[w] # NoInsert
BY DEF TypeOK, NoInsert

LEMMA TypeStep == ASSUME IInv, [Next]_bindingVars PROVE TypeOK'
<1> USE DEF TypeOK
<1>0. TypeOK
  BY DEF IInv
<1>1. ASSUME NEW w \in Worker, NEW h \in Hub, NEW n \in Node, LoadNode(w, h, n) PROVE TypeOK'
  <2>1. Insert(NextStep(hubOf[n]), h, n)
           \in [step : {"create", "bind", "store"}, hub : Hub, node : Node]
    BY DEF Insert, NextStep
  <2> QED  BY <1>0, <1>1, <2>1 DEF LoadNode
<1>2. ASSUME NEW w \in Worker, CreateNode(w) PROVE TypeOK'
  <2>1. insert[w].hub \in Hub /\ insert[w].node \in Node
    BY <1>0, <1>2, RequestType DEF CreateNode
  <2> QED  BY <1>0, <1>2, <2>1 DEF CreateNode, Insert
<1>3. ASSUME NEW w \in Worker, CreateRefused(w) PROVE TypeOK'
  BY <1>0, <1>3 DEF CreateRefused
<1>4. ASSUME NEW w \in Worker, BindNode(w) PROVE TypeOK'
  <2>1. insert[w].hub \in Hub /\ insert[w].node \in Node
    BY <1>0, <1>4, RequestType DEF BindNode
  <2> QED  BY <1>0, <1>4, <2>1 DEF BindNode, Insert
<1>5. ASSUME NEW w \in Worker, StoreReading(w) PROVE TypeOK'
  <2>1. insert[w].hub \in Hub /\ insert[w].node \in Node
    BY <1>0, <1>5, RequestType DEF StoreReading
  <2> QED  BY <1>0, <1>5, <2>1 DEF StoreReading
<1>6. ASSUME NEW w \in Worker, InsertLost(w) PROVE TypeOK'
  BY <1>0, <1>6 DEF InsertLost
<1>7. CASE UNCHANGED bindingVars
  BY <1>0, <1>7 DEF bindingVars
<1> QED  BY <1>1, <1>2, <1>3, <1>4, <1>5, <1>6, <1>7 DEF Next, InsertStep

(***************************************************************************)
(* What a step may do to a node's row: nothing, create it, or bind a row   *)
(* that was not created here.                                              *)
(***************************************************************************)
LEMMA RowStep ==
    ASSUME MarksApart, IInv, [Next]_bindingVars, NEW n \in Node
    PROVE  /\ hubOf'[n] # hubOf[n] => hubOf'[n] \in Hub
           /\ n \in created => n \in created' /\ hubOf'[n] = hubOf[n]
           /\ n \in created' /\ n \notin created => hubOf[n] = NoRow /\ hubOf'[n] \in Hub
           /\ hubOf[n] # NoRow => hubOf'[n] # NoRow
<1> DEFINE Goal ==
           /\ hubOf'[n] # hubOf[n] => hubOf'[n] \in Hub
           /\ n \in created => n \in created' /\ hubOf'[n] = hubOf[n]
           /\ n \in created' /\ n \notin created => hubOf[n] = NoRow /\ hubOf'[n] \in Hub
           /\ hubOf[n] # NoRow => hubOf'[n] # NoRow
<1>0. TypeOK /\ NodeInv(n)
  BY DEF IInv
<1>1. ASSUME UNCHANGED <<hubOf, created>> PROVE Goal
  BY <1>1
<1>2. ASSUME NEW w \in Worker, CreateNode(w) PROVE Goal
  <2>1. insert[w].hub \in Hub /\ insert[w].node \in Node
    BY <1>0, <1>2, RequestType DEF CreateNode
  <2>2. /\ hubOf[insert[w].node] = NoRow
        /\ hubOf' = [hubOf EXCEPT ![insert[w].node] = insert[w].hub]
        /\ created' = created \cup {insert[w].node}
    BY <1>2 DEF CreateNode, CreateAllowed
  <2>3. CASE n = insert[w].node
    BY <2>1, <2>2, <2>3, <1>0 DEF TypeOK, NodeInv, MarksApart
  <2>4. CASE n # insert[w].node
    BY <2>1, <2>2, <2>4, <1>0 DEF TypeOK
  <2> QED  BY <2>3, <2>4
<1>3. ASSUME NEW w \in Worker, BindNode(w) PROVE Goal
  <2>1. /\ insert[w].hub \in Hub /\ insert[w].node \in Node
        /\ insert[w].node \notin created
    BY <1>0, <1>3, RequestType DEF BindNode, IInv, RequestInv
  <2> QED  BY <1>3, <2>1, <1>0 DEF BindNode, TypeOK, MarksApart
<1>4. ASSUME NEW w \in Worker, NEW h \in Hub, NEW m \in Node, LoadNode(w, h, m) PROVE Goal
  BY <1>4, <1>1 DEF LoadNode
<1>5. ASSUME NEW w \in Worker, CreateRefused(w) \/ StoreReading(w) \/ InsertLost(w) PROVE Goal
  BY <1>5, <1>1 DEF CreateRefused, StoreReading, InsertLost
<1>6. CASE UNCHANGED bindingVars
  BY <1>6, <1>1 DEF bindingVars
<1> QED  BY <1>2, <1>3, <1>4, <1>5, <1>6 DEF Next, InsertStep

(***************************************************************************)
(* A reading is only added by the request that stores it.                  *)
(***************************************************************************)
LEMMA NodeStep ==
    ASSUME MarksApart, IInv, [Next]_bindingVars, NEW n \in Node
    PROVE  NodeInv(n)'
<1>0. TypeOK /\ NodeInv(n)
  BY DEF IInv
<1>1. CASE sentBy'[n] = sentBy[n]
  BY <1>0, <1>1, RowStep DEF NodeInv
<1>2. ASSUME NEW w \in Worker, StoreReading(w) PROVE NodeInv(n)'
  <2>1. /\ insert[w].hub \in Hub /\ insert[w].node \in Node
        /\ hubOf[insert[w].node] # NoRow
        /\ insert[w].node \in created => hubOf[insert[w].node] = insert[w].hub
    BY <1>0, <1>2, RequestType DEF StoreReading, IInv, RequestInv
  <2>2. /\ sentBy' = [sentBy EXCEPT ![insert[w].node] = @ \cup {insert[w].hub}]
        /\ hubOf' = hubOf /\ created' = created
    BY <1>2 DEF StoreReading
  <2>3. CASE n = insert[w].node
    BY <2>1, <2>2, <2>3, <1>0 DEF NodeInv, TypeOK
  <2>4. CASE n # insert[w].node
    BY <2>2, <2>4, <1>0, <1>1 DEF TypeOK
  <2> QED  BY <2>3, <2>4
<1>3. ASSUME NEW w \in Worker, InsertLost(w) \/ CreateNode(w) \/ CreateRefused(w) \/ BindNode(w)
      PROVE  sentBy' = sentBy
  BY <1>3 DEF InsertLost, CreateNode, CreateRefused, BindNode
<1>4. ASSUME NEW w \in Worker, NEW h \in Hub, NEW m \in Node, LoadNode(w, h, m)
      PROVE  sentBy' = sentBy
  BY <1>4 DEF LoadNode
<1>5. UNCHANGED bindingVars => sentBy' = sentBy
  BY DEF bindingVars
<1> QED  BY <1>1, <1>2, <1>3, <1>4, <1>5 DEF Next, InsertStep

(***************************************************************************)
(* A request under way keeps what it knows: rows do not disappear, created *)
(* nodes do not move.                                                      *)
(***************************************************************************)
LEMMA RequestKept ==
    ASSUME MarksApart, IInv, [Next]_bindingVars, NEW w \in Worker
    PROVE  RequestInv(insert[w])' \/ insert'[w] # insert[w]
<1> SUFFICES ASSUME insert'[w] = insert[w] PROVE RequestInv(insert[w])'
  OBVIOUS
<1>0. TypeOK /\ RequestInv(insert[w])
  BY DEF IInv
<1>1. CASE insert[w].step \in {"create", "bind", "store"}
  <2>1. insert[w].node \in Node
    BY <1>0, <1>1, RequestType
  <2> QED  BY <1>0, <2>1, RowStep DEF RequestInv
<1>2. CASE insert[w].step \notin {"create", "bind", "store"}
  BY <1>2 DEF RequestInv
<1> QED  BY <1>1, <1>2

LEMMA RequestStep ==
    ASSUME MarksApart, IInv, [Next]_bindingVars, NEW w \in Worker
    PROVE  RequestInv(insert[w])'
<1>0. TypeOK /\ TypeOK' /\ RequestInv(insert[w])
  BY TypeStep DEF IInv
<1>1. CASE insert'[w] = insert[w]
  BY <1>1, RequestKept
<1>2. ASSUME NEW h \in Hub, NEW n \in Node, LoadNode(w, h, n) PROVE RequestInv(insert[w])'
  <2>1. insert'[w] = Insert(NextStep(hubOf[n]), h, n) /\ hubOf' = hubOf /\ created' = created
    BY <1>0, <1>2 DEF LoadNode, TypeOK
  <2>2. n \in created => hubOf[n] \in Hub
    BY DEF IInv, NodeInv
  <2> QED  BY <1>2, <2>1, <2>2 DEF LoadNode, Accepts, Insert, NextStep, RequestInv, MarksApart
<1>3. ASSUME CreateNode(w) \/ BindNode(w) PROVE RequestInv(insert[w])'
  <2>1. insert[w].hub \in Hub /\ insert[w].node \in Node
    BY <1>0, <1>3, RequestType DEF CreateNode, BindNode
  <2>2. insert'[w] = Insert("store", insert[w].hub, insert[w].node)
        /\ hubOf'[insert[w].node] = insert[w].hub
    BY <1>0, <1>3, <2>1 DEF CreateNode, BindNode, TypeOK
  <2> QED  BY <2>1, <2>2 DEF Insert, RequestInv, MarksApart
<1>4. ASSUME CreateRefused(w) \/ StoreReading(w) \/ InsertLost(w) PROVE RequestInv(insert[w])'
  BY <1>0, <1>4 DEF CreateRefused, StoreReading, InsertLost, NoInsert, RequestInv, TypeOK
<1>5. ASSUME NEW x \in Worker, x # w, NEW h \in Hub, NEW n \in Node, LoadNode(x, h, n)
      PROVE  insert'[w] = insert[w]
  BY <1>0, <1>5 DEF LoadNode, TypeOK
<1>6. ASSUME NEW x \in Worker, x # w, InsertStep(x) \/ InsertLost(x)
      PROVE  insert'[w] = insert[w]
  BY <1>0, <1>6 DEF InsertStep, CreateNode, CreateRefused, BindNode, StoreReading, InsertLost, TypeOK
<1>7. UNCHANGED bindingVars => insert'[w] = insert[w]
  BY DEF bindingVars
<1> QED  BY <1>1, <1>2, <1>3, <1>4, <1>5, <1>6, <1>7 DEF Next, InsertStep

LEMMA IInvStep == ASSUME MarksApart PROVE IInv /\ [Next]_bindingVars => IInv'
BY TypeStep, NodeStep, RequestStep DEF IInv

LEMMA Inductive == ASSUME MarksApart PROVE Spec => []IInv
<1>1. IInv /\ [Next]_bindingVars => IInv'
  BY IInvStep
<1> QED  BY InitIInv, <1>1, PTL DEF Spec

(***************************************************************************)
(* The tables and the requests keep their types.                           *)
(***************************************************************************)
THEOREM TypeCorrect == ASSUME MarksApart PROVE Spec => []TypeOK
<1>1. IInv => TypeOK
  BY DEF IInv
<1> QED  BY Inductive, <1>1, PTL

(***************************************************************************)
(* The readings of a node that was created here were all sent by its hub,  *)
(* for any number of hubs that report it at the same time.                 *)
(***************************************************************************)
THEOREM HubsAttributedToNodes == ASSUME MarksApart PROVE Spec => []ReadingsAttributed
<1>1. IInv => ReadingsAttributed
  BY DEF IInv, NodeInv, ReadingsAttributed, TypeOK
<1> QED  BY Inductive, <1>1, PTL

(***************************************************************************)
(* A request that is about to bind a node is the only one to change its    *)
(* hub, and a node with a hub gets no new one.                             *)
(***************************************************************************)
LEMMA CreatedSettled == ASSUME MarksApart, IInv, NEW n \in created PROVE Settled(n)
<1>1. n \in Node /\ hubOf[n] \in Hub
  BY DEF IInv, TypeOK, NodeInv
<1>2. ASSUME NEW w \in Worker, insert[w].step = "bind" PROVE insert[w].node # n
  BY <1>2 DEF IInv, RequestInv
<1> QED  BY <1>1, <1>2 DEF Settled

LEMMA SettledStep ==
    ASSUME MarksApart, IInv, [Next]_bindingVars, NEW n \in Node, Settled(n)
    PROVE  hubOf'[n] = hubOf[n] /\ Settled(n)'
<1>0. TypeOK /\ hubOf[n] \in Hub
  BY DEF IInv, Settled
<1>1. hubOf'[n] = hubOf[n]
  <2>1. ASSUME NEW w \in Worker, CreateNode(w) \/ BindNode(w) PROVE hubOf'[n] = hubOf[n]
    <3>1. insert[w].node # n
      BY <1>0, <2>1 DEF CreateNode, CreateAllowed, BindNode, Settled, MarksApart
    <3> QED  BY <1>0, <2>1, <3>1 DEF CreateNode, BindNode, TypeOK
  <2>2. CASE UNCHANGED hubOf
    BY <2>2
  <2> QED  BY <2>1, <2>2 DEF Next, InsertStep, LoadNode, CreateRefused, StoreReading,
           InsertLost, bindingVars
<1>2. ASSUME NEW w \in Worker, insert'[w].step = "bind" PROVE insert'[w].node # n
  <2>1. CASE insert'[w] = insert[w]
    BY <1>2, <2>1 DEF Settled
  <2>2. ASSUME NEW h \in Hub, NEW m \in Node, LoadNode(w, h, m) PROVE insert'[w].node # n
    <3>1. insert'[w] = Insert(NextStep(hubOf[m]), h, m)
      BY <1>0, <2>2 DEF LoadNode, TypeOK
    <3>2. hubOf[m] = NoHub
      BY <1>2, <3>1 DEF Insert, NextStep
    <3> QED  BY <1>0, <3>1, <3>2 DEF Insert, MarksApart
  <2>3. ASSUME CreateNode(w) \/ BindNode(w) PROVE insert'[w].step # "bind"
    BY <1>0, <2>3 DEF CreateNode, BindNode, Insert, TypeOK
  <2>4. ASSUME CreateRefused(w) \/ StoreReading(w) \/ InsertLost(w)
        PROVE  insert'[w].step # "bind"
    BY <1>0, <2>4 DEF CreateRefused, StoreReading, InsertLost, NoInsert, TypeOK
  <2>5. ASSUME NEW x \in Worker, x # w,
               InsertStep(x) \/ InsertLost(x) \/ \E h \in Hub, m \in Node : LoadNode(x, h, m)
        PROVE  insert'[w] = insert[w]
    BY <1>0, <2>5 DEF InsertStep, CreateNode, CreateRefused, BindNode, StoreReading,
       InsertLost, LoadNode, TypeOK
  <2>6. UNCHANGED bindingVars => insert'[w] = insert[w]
    BY DEF bindingVars
  <2> QED  BY <1>2, <2>1, <2>2, <2>3, <2>4, <2>5, <2>6 DEF Next, InsertStep
<1> QED  BY <1>0, <1>1, <1>2 DEF Settled

(***************************************************************************)
(* A node never changes its hub: one created here at all, one that had no  *)
(* hub once no request is left that saw it so.                             *)
(***************************************************************************)
THEOREM NodesNeverMove == ASSUME MarksApart PROVE Spec => NodesStay
<1> DEFINE A == \A n \in Node : n \in created \/ Settled(n)
                   => hubOf'[n] = hubOf[n] /\ Settled(n)'
<1>1. IInv /\ [Next]_bindingVars => A
  BY CreatedSettled, SettledStep
<1> QED  BY Inductive, <1>1, PTL DEF Spec, NodesStay

-----------------------------------------------------------------------------
(***************************************************************************)
(* The steps of the handler as steps of NodeRegistry.  The create pins its *)
(* node: there was no row, hence no reading that would come to light with  *)
(* it.                                                                     *)
(***************************************************************************)
RegistryStep == [Registry!RegistryNext]_(Registry!registryVars)

LEMMA SameTables ==
    ASSUME UNCHANGED <<hubOf, created, sentBy>>
    PROVE  RegistryStep
BY DEF RegistryStep, Registry!registryVars, Pinned, Reported

LEMMA CreatePins ==
    ASSUME MarksApart, IInv, NEW w \in Worker, CreateNode(w)
    PROVE  RegistryStep
<1> DEFINE m == insert[w].node
           h == insert[w].hub
<1>1. m \in Node /\ h \in Hub
  BY RequestType DEF CreateNode, IInv
<1>2. /\ hubOf' = [hubOf EXCEPT ![m] = h]
      /\ created' = created \cup {m} /\ sentBy' = sentBy /\ hubOf[m] = NoRow
  BY DEF CreateNode, CreateAllowed
<1>3. m \notin created /\ sentBy[m] = {}
  BY <1>1, <1>2 DEF IInv, NodeInv, MarksApart
<1>4. Pinned' = [Pinned EXCEPT ![m] = h]
  BY <1>1, <1>2 DEF Pinned, IInv, TypeOK
<1>5. Reported' = Reported
  BY <1>1, <1>2, <1>3 DEF Reported
<1>6. Pinned[m] = Registry!Unpinned
  BY <1>1, <1>3 DEF Pinned, Registry!Unpinned
<1>7. Registry!Pin(m, h)
  BY <1>4, <1>5, <1>6 DEF Registry!Pin
<1> QED  BY <1>1, <1>7 DEF RegistryStep, Registry!RegistryNext

LEMMA BindIsSilent ==
    ASSUME IInv, NEW w \in Worker, BindNode(w)
    PROVE  RegistryStep
<1>1. insert[w].node \in Node /\ insert[w].node \notin created
  BY RequestType DEF BindNode, IInv, RequestInv
<1>2. \A n \in created : hubOf'[n] = hubOf[n]
  BY <1>1 DEF BindNode, IInv, TypeOK
<1>3. Pinned' = Pinned /\ Reported' = Reported
  BY <1>2 DEF BindNode, Pinned, Reported
<1> QED  BY <1>3 DEF RegistryStep, Registry!registryVars

LEMMA StoreTakes ==
    ASSUME IInv, NEW w \in Worker, StoreReading(w)
    PROVE  RegistryStep
<1> DEFINE m == insert[w].node
           h == insert[w].hub
<1>1. /\ m \in Node /\ h \in Hub
      /\ m \in created => hubOf[m] = h
  BY RequestType DEF StoreReading, IInv, RequestInv
<1>2. /\ sentBy' = [sentBy EXCEPT ![m] = @ \cup {h}]
      /\ hubOf' = hubOf /\ created' = created
  BY DEF StoreReading
<1>3. Pinned' = Pinned
  BY <1>2 DEF Pinned
<1>4. CASE m \in created
  <2>1. Reported' = [Reported EXCEPT ![m] = @ \cup {h}]
    BY <1>1, <1>2, <1>4 DEF Reported, IInv, TypeOK
  <2>2. Pinned[m] = h
    BY <1>1, <1>4 DEF Pinned
  <2>3. Registry!Take(m, h)
    BY <1>3, <2>1, <2>2 DEF Registry!Take
  <2> QED  BY <1>1, <2>3 DEF RegistryStep, Registry!RegistryNext
<1>5. CASE m \notin created
  <2>1. Reported' = Reported
    BY <1>1, <1>2, <1>5 DEF Reported, IInv, TypeOK
  <2> QED  BY <1>3, <2>1 DEF RegistryStep, Registry!registryVars
<1> QED  BY <1>4, <1>5

LEMMA StepRegisters ==
    ASSUME MarksApart, IInv, [Next]_bindingVars
    PROVE  RegistryStep
<1>1. ASSUME NEW w \in Worker, InsertStep(w) PROVE RegistryStep
  <2>1. CASE CreateRefused(w)
    BY <2>1, SameTables DEF CreateRefused
  <2> QED  BY <1>1, <2>1, CreatePins, BindIsSilent, StoreTakes DEF InsertStep
<1>2. ASSUME NEW w \in Worker, NEW h \in Hub, NEW n \in Node, LoadNode(w, h, n)
      PROVE  RegistryStep
  BY <1>2, SameTables DEF LoadNode
<1>3. ASSUME NEW w \in Worker, InsertLost(w) PROVE RegistryStep
  BY <1>3, SameTables DEF InsertLost
<1>4. CASE UNCHANGED bindingVars
  BY <1>4, SameTables DEF bindingVars
<1> QED  BY <1>1, <1>2, <1>3, <1>4 DEF Next

LEMMA InitRegisters == Init => Registry!RegistryInit
BY DEF Init, Registry!RegistryInit, Registry!Unpinned, Pinned, Reported

(***************************************************************************)
(* The handler, statement by statement and with any number of requests at  *)
(* a time, implements NodeRegistry.                                        *)
(***************************************************************************)
THEOREM HandlerImplementsRegistry == ASSUME MarksApart PROVE Spec => ImplementsRegistry
<1>1. IInv /\ [Next]_bindingVars => [Registry!RegistryNext]_(Registry!registryVars)
  BY StepRegisters DEF RegistryStep
<1> QED
  BY <1>1, InitRegisters, Inductive, PTL DEF Spec, ImplementsRegistry, Registry!RegistrySpec
-----------------------------------------------------------------------------
(* A request that is about to bind a row without a hub: with one request   *)
(* at a time nothing has changed the row since it was loaded.              *)
BindKnows == \A w \in Worker : insert[w].step = "bind" => hubOf[insert[w].node] = NoHub

LEMMA BindKnowsStep ==
    ASSUME MarksApart, IInv, [Next]_bindingVars, BindKnows,
           \A v, w \in Worker : v = w
    PROVE  BindKnows'
<1>0. TypeOK
  BY DEF IInv
<1>1. ASSUME NEW v \in Worker, NEW h \in Hub, NEW n \in Node, LoadNode(v, h, n)
      PROVE  BindKnows'
  <2>1. insert'[v] = Insert(NextStep(hubOf[n]), h, n) /\ hubOf' = hubOf
    BY <1>0, <1>1 DEF LoadNode, TypeOK
  <2>2. insert'[v].step = NextStep(hubOf[n]) /\ insert'[v].node = n
    BY <2>1 DEF Insert
  <2>3. NextStep(hubOf[n]) = "bind" => hubOf[n] = NoHub
    BY DEF NextStep
  <2> QED  BY <2>1, <2>2, <2>3 DEF BindKnows
<1>2. ASSUME NEW v \in Worker, insert'[v].step # "bind" PROVE BindKnows'
  BY <1>2 DEF BindKnows
<1>3. ASSUME NEW v \in Worker, CreateNode(v) \/ BindNode(v) PROVE insert'[v].step # "bind"
  <2>1. insert'[v] = Insert("store", insert[v].hub, insert[v].node)
    BY <1>0, <1>3 DEF CreateNode, BindNode, TypeOK
  <2> QED  BY <2>1 DEF Insert
<1>4. ASSUME NEW v \in Worker, CreateRefused(v) \/ StoreReading(v) \/ InsertLost(v)
      PROVE  insert'[v].step # "bind"
  BY <1>0, <1>4 DEF CreateRefused, StoreReading, InsertLost, NoInsert, TypeOK
<1>5. CASE UNCHANGED bindingVars
  BY <1>5 DEF bindingVars, BindKnows
<1> QED  BY <1>1, <1>2, <1>3, <1>4, <1>5 DEF Next, InsertStep

(***************************************************************************)
(* A server that serves one reading at a time keeps every node with the    *)
(* first hub it is bound to, rows that had no hub included: what moves     *)
(* such a node is the update of a request that loaded it before another    *)
(* one bound it.                                                           *)
(***************************************************************************)
THEOREM PinnedBySingleWorker ==
    ASSUME MarksApart, \A v, w \in Worker : v = w
    PROVE  Spec => PinnedToFirstHub
<1> DEFINE A == \A n \in Node : hubOf[n] \in Hub => hubOf'[n] = hubOf[n]
<1>1. Init => BindKnows
  BY DEF Init, BindKnows, NoInsert
<1>2. IInv /\ BindKnows /\ [Next]_bindingVars => BindKnows'
  BY BindKnowsStep
<1>3. IInv /\ BindKnows /\ [Next]_bindingVars => A
  <2> SUFFICES ASSUME IInv, BindKnows, [Next]_bindingVars, NEW n \in Node, hubOf[n] \in Hub
               PROVE  hubOf'[n] = hubOf[n]
    OBVIOUS
  <2>1. ASSUME NEW w \in Worker, CreateNode(w) \/ BindNode(w) PROVE hubOf'[n] = hubOf[n]
    <3>1. hubOf[insert[w].node] \in {NoRow, NoHub}
      BY <2>1 DEF CreateNode, CreateAllowed, BindNode, BindKnows
    <3>2. n # insert[w].node
      BY <3>1 DEF MarksApart
    <3> QED  BY <2>1, <3>2 DEF CreateNode, BindNode, IInv, TypeOK
  <2>2. CASE UNCHANGED hubOf
    BY <2>2
  <2> QED  BY <2>1, <2>2 DEF Next, InsertStep, LoadNode, CreateRefused, StoreReading,
           InsertLost, bindingVars
<1> QED  BY <1>1, <1>2, <1>3, Inductive, PTL DEF Spec, PinnedToFirstHub
=============================================================================
