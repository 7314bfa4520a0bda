---------------------------- MODULE GardenProofs ----------------------------
(***************************************************************************)
(* Proofs about Garden for any users, hubs, nodes, keys and number of      *)
(* workers.  Every step of the whole system is a step, or a stutter, of    *)
(* each of its three components, so what is proved of the components holds *)
(* in the system.  What concerns several of them is proved here: a token   *)
(* is accepted as long as it is held, and the queries show the readings to *)
(* those they belong to.                                                   *)
(***************************************************************************)
EXTENDS Garden, HubProvisioningProofs

BP == INSTANCE SensorBindingProofs WITH Hub <- Device
KP == INSTANCE JwtKeysProofs

LEMMA Marks == BP!MarksApart /\ KP!MarksApart
BY MarkAssumption DEF BP!MarksApart, BP!NoRow, BP!NoHub, Binding!NoRow, Binding!NoHub,
   KP!MarksApart, KP!Missing, KP!Torn, Keys!Missing, Keys!Torn

-----------------------------------------------------------------------------
(* A step of a component, for each of the three.                           *)
HubStep     == [Next]_vars
BindingStep == [BP!Next]_(BP!bindingVars)
KeyStep     == [KP!Next]_(KP!keyVars)

LEMMA HubStays == ASSUME UNCHANGED hubVars PROVE HubStep
BY DEF hubVars, vars, HubStep

LEMMA BindingStays == ASSUME UNCHANGED bindingVars PROVE BindingStep
BY DEF bindingVars, BP!bindingVars, BindingStep

LEMMA KeysStay == ASSUME UNCHANGED keyVars PROVE KeyStep
BY DEF keyVars, KP!keyVars, KeyStep

(***************************************************************************)
(* The steps of a component are those of its module, in both instances.    *)
(***************************************************************************)
LEMMA SameBinding == BindingStep <=> [Binding!Next]_(Binding!bindingVars)
<1>1. ASSUME NEW w \in Worker, NEW h \in Device, NEW n \in Node
      PROVE  BP!LoadNode(w, h, n) <=> Binding!LoadNode(w, h, n)
  BY DEF Binding!LoadNode, BP!LoadNode, Binding!NoInsert, BP!NoInsert, Binding!Accepts,
     BP!Accepts, Binding!NoRow, BP!NoRow, Binding!NoHub, BP!NoHub, Binding!NextStep,
     BP!NextStep, Binding!Insert, BP!Insert
<1>2. ASSUME NEW w \in Worker PROVE BP!InsertStep(w) <=> Binding!InsertStep(w)
  BY DEF Binding!InsertStep, BP!InsertStep, Binding!CreateNode, BP!CreateNode,
     Binding!CreateAllowed, BP!CreateAllowed, Binding!CreateRefused, BP!CreateRefused,
     Binding!BindNode, BP!BindNode, Binding!StoreReading, BP!StoreReading,
     Binding!NoRow, BP!NoRow, Binding!NoInsert, BP!NoInsert, Binding!Insert, BP!Insert
<1>3. ASSUME NEW w \in Worker PROVE BP!InsertLost(w) <=> Binding!InsertLost(w)
  BY DEF Binding!InsertLost, BP!InsertLost, Binding!NoInsert, BP!NoInsert
<1>4. BP!Next <=> Binding!Next
  BY <1>1, <1>2, <1>3 DEF BP!Next, Binding!Next
<1> QED  BY <1>4 DEF BindingStep, BP!bindingVars, Binding!bindingVars

LEMMA SameKeys == KeyStep <=> [Keys!Next]_(Keys!keyVars)
<1>1. KP!StartLoaded <=> Keys!StartLoaded
  BY DEF Keys!StartLoaded, KP!StartLoaded, Keys!Down, KP!Down, Keys!Loadable,
     KP!Loadable, Keys!Up, KP!Up
<1>2. ASSUME NEW k \in Key PROVE KP!StartFresh(k) <=> Keys!StartFresh(k)
  BY DEF Keys!StartFresh, KP!StartFresh, Keys!Down, KP!Down, Keys!Loadable,
     KP!Loadable, Keys!Saving, KP!Saving
<1>3. KP!SavePrivate <=> Keys!SavePrivate
  BY DEF Keys!SavePrivate, KP!SavePrivate, Keys!Saving, KP!Saving,
     Keys!PrivateWritten, KP!PrivateWritten
<1>4. KP!SavePublic <=> Keys!SavePublic
  BY DEF Keys!SavePublic, KP!SavePublic, Keys!Up, KP!Up
<1>5. KP!Crash <=> Keys!Crash
  BY DEF Keys!Crash, KP!Crash, Keys!Down, KP!Down, Keys!Torn, KP!Torn
<1>6. KP!Next <=> Keys!Next
  BY <1>1, <1>2, <1>3, <1>4, <1>5 DEF KP!Next, Keys!Next
<1> QED  BY <1>6 DEF KeyStep, KP!keyVars, Keys!keyVars

(***************************************************************************)
(* The actions of Garden that move one component take one of its steps.    *)
(***************************************************************************)
LEMMA LoadIsStep ==
    ASSUME NEW w \in Worker, NEW d \in Device, NEW n \in Node, Binding!LoadNode(w, d, n)
    PROVE  BindingStep
BY SameBinding DEF Binding!Next

LEMMA ServeIsStep == ASSUME NEW w \in Worker, Binding!InsertStep(w) PROVE BindingStep
BY SameBinding DEF Binding!Next

LEMMA LostIsStep == ASSUME NEW w \in Worker, Binding!InsertLost(w) PROVE BindingStep
BY SameBinding DEF Binding!Next

LEMMA KeyActionIsStep ==
    ASSUME \/ Keys!StartLoaded \/ Keys!SavePrivate \/ Keys!SavePublic \/ Keys!Crash
           \/ \E k \in Key : Keys!StartFresh(k)
    PROVE  KeyStep
BY SameKeys DEF Keys!Next

(***************************************************************************)
(* Every step of the system.                                               *)
(***************************************************************************)
LEMMA StepsOfComponents ==
    ASSUME [GardenNext]_gardenVars
    PROVE  HubStep /\ BindingStep /\ KeyStep
<1> USE HubStays, BindingStays, KeysStay
<1>1. ASSUME NEW u \in User, NEW d \in Device, Associate(u, d) \/ Revoke(u, d)
      PROVE  HubStep /\ BindingStep /\ KeyStep
  <2>1. AssociateHub(u, d) \/ RevokeHub(u, d)
    BY <1>1 DEF Associate, Revoke
  <2>2. HubStep
    BY <2>1 DEF HubStep, Next
  <2> QED  BY <1>1, <2>2 DEF Associate, Revoke
<1>2. ASSUME NEW w \in Worker, NEW d \in Device, ClaimToken(w, d)
      PROVE  HubStep /\ BindingStep /\ KeyStep
  <2>1. HubStep
    BY <1>2 DEF ClaimToken, HubStep, Next
  <2> QED  BY <1>2, <2>1 DEF ClaimToken
<1>3. ASSUME NEW w \in Worker, StoreToken(w) \/ DeliverToken(w)
      PROVE  HubStep /\ BindingStep /\ KeyStep
  <2>1. ClaimStored(w) \/ ClaimAnswered(w)
    BY <1>3 DEF StoreToken, DeliverToken
  <2>2. HubStep
    BY <2>1 DEF HubStep, Next
  <2> QED  BY <1>3, <2>2 DEF StoreToken, DeliverToken
<1>4. ASSUME NEW d \in Device, Reset(d) PROVE HubStep /\ BindingStep /\ KeyStep
  <2>1. HubStep
    BY <1>4 DEF Reset, HubStep, Next
  <2> QED  BY <1>4, <2>1 DEF Reset
<1>5. ASSUME NEW w \in Worker, NEW d \in Device, NEW n \in Node, SendReading(w, d, n)
      PROVE  HubStep /\ BindingStep /\ KeyStep
  BY <1>5, LoadIsStep DEF SendReading
<1>6. ASSUME NEW w \in Worker, ServeReading(w) PROVE HubStep /\ BindingStep /\ KeyStep
  BY <1>6, ServeIsStep DEF ServeReading
<1>7. ASSUME NEW w \in Worker, Drop(w) PROVE HubStep /\ BindingStep /\ KeyStep
  <2>1. CASE ClaimLost(w) /\ UNCHANGED bindingVars
    <3>1. HubStep
      BY <2>1 DEF HubStep, Next
    <3> QED  BY <1>7, <2>1, <3>1 DEF Drop
  <2>2. CASE Binding!InsertLost(w) /\ UNCHANGED hubVars
    BY <1>7, <2>2, LostIsStep DEF Drop
  <2> QED  BY <1>7, <2>1, <2>2 DEF Drop
<1>8. CASE Start
  <2>1. KeyStep
    BY <1>8, KeyActionIsStep DEF Start, StartFresh
  <2> QED  BY <1>8, <2>1 DEF Start
<1>9. CASE SavePrivate \/ SavePublic \/ Crash
  <2>1. KeyStep
    BY <1>9, KeyActionIsStep DEF SavePrivate, SavePublic, Crash
  <2> QED  BY <1>9, <2>1 DEF SavePrivate, SavePublic, Crash
<1>10. CASE UNCHANGED gardenVars
  BY <1>10 DEF gardenVars
<1> QED
  BY <1>1, <1>2, <1>3, <1>4, <1>5, <1>6, <1>7, <1>8, <1>9, <1>10 DEF GardenNext

-----------------------------------------------------------------------------
(* A token in circulation was signed with the pair on disk.                *)
TokenOnDisk(d) == holds[d] => publicFile \in Key /\ tokenKey[d] = publicFile

GInv == /\ TypeOK /\ BP!IInv /\ KP!IInv
        /\ tokenKey \in [Device -> Key \cup {NoToken}]
        /\ \A d \in Device : TokenOnDisk(d)

LEMMA InitGInv == GardenInit => GInv
<1> SUFFICES ASSUME GardenInit PROVE GInv
  OBVIOUS
<1>1. TypeOK
  BY InitIInv DEF GardenInit, IInv
<1>2. BP!Init
  BY DEF GardenInit, Binding!Init, BP!Init, Binding!NoRow, BP!NoRow, Binding!NoHub, BP!NoHub,
     Binding!NoInsert, BP!NoInsert
<1>3. KP!Init
  BY DEF GardenInit, Keys!Init, KP!Init, Keys!Missing, KP!Missing, Keys!Down, KP!Down
<1>4. BP!IInv /\ KP!IInv
  BY <1>2, <1>3, Marks, BP!InitIInv, KP!InitIInv
<1>5. /\ tokenKey \in [Device -> Key \cup {NoToken}]
      /\ \A d \in Device : TokenOnDisk(d)
  BY DEF GardenInit, Init, TokenOnDisk
<1> QED  BY <1>1, <1>4, <1>5 DEF GInv

(***************************************************************************)
(* Serving requests with a pair means that the pair is on disk.            *)
(***************************************************************************)
LEMMA ServingPair ==
    ASSUME KP!IInv, Keys!Serving
    PROVE  /\ publicFile \in Key
           /\ server.signs = publicFile /\ server.checks = publicFile
BY DEF KP!IInv, KP!PhaseInv, Keys!Serving

(***************************************************************************)
(* The tokens of the devices change when one is delivered or reset only.   *)
(***************************************************************************)
LEMMA TokensKept ==
    ASSUME [GardenNext]_gardenVars
    PROVE  \/ holds' = holds /\ tokenKey' = tokenKey
           \/ \E w \in Worker : DeliverToken(w)
           \/ \E d \in Device : Reset(d)
<1> DEFINE Kept == holds' = holds /\ tokenKey' = tokenKey
<1>1. ASSUME NEW u \in User, NEW d \in Device, Associate(u, d) \/ Revoke(u, d) PROVE Kept
  BY <1>1 DEF Associate, AssociateHub, Revoke, RevokeHub
<1>2. ASSUME NEW w \in Worker, NEW d \in Device, ClaimToken(w, d) PROVE Kept
  BY <1>2 DEF ClaimToken, ClaimChecked
<1>3. ASSUME NEW w \in Worker, StoreToken(w) PROVE Kept
  BY <1>3 DEF StoreToken, ClaimStored
<1>4. ASSUME NEW w \in Worker, NEW d \in Device, NEW n \in Node, SendReading(w, d, n)
      PROVE  Kept
  BY <1>4 DEF SendReading, hubVars
<1>5. ASSUME NEW w \in Worker, ServeReading(w) PROVE Kept
  BY <1>5 DEF ServeReading, hubVars
<1>6. ASSUME NEW w \in Worker, Drop(w) PROVE Kept
  BY <1>6 DEF Drop, ClaimLost, hubVars
<1>7. CASE Start \/ SavePrivate \/ SavePublic \/ Crash
  BY <1>7 DEF Start, SavePrivate, SavePublic, Crash, hubVars
<1>8. CASE UNCHANGED gardenVars
  BY <1>8 DEF gardenVars, hubVars
<1> QED  BY <1>1, <1>2, <1>3, <1>4, <1>5, <1>6, <1>7, <1>8 DEF GardenNext

(***************************************************************************)
(* While any device holds a token, a start finds the pair it was signed    *)
(* with; a token delivered was signed with the pair on disk.               *)
(***************************************************************************)
LEMMA TokensStep ==
    ASSUME GInv, [GardenNext]_gardenVars
    PROVE  /\ tokenKey' \in [Device -> Key \cup {NoToken}]
           /\ \A d \in Device : TokenOnDisk(d)'
<1>1. publicFile \in Key => publicFile' = publicFile
  BY Marks, StepsOfComponents, KP!PairKept DEF GInv, KeyStep
<1>2. CASE holds' = holds /\ tokenKey' = tokenKey
  BY <1>1, <1>2 DEF GInv, TokenOnDisk
<1>3. ASSUME NEW w \in Worker, DeliverToken(w)
      PROVE  /\ tokenKey' \in [Device -> Key \cup {NoToken}]
             /\ \A d \in Device : TokenOnDisk(d)'
  <2> DEFINE e == claim[w].device
  <2>1. e \in Device
    BY <1>3 DEF DeliverToken, ClaimAnswered, GInv, TypeOK, Idle
  <2>2. publicFile \in Key /\ server.signs = publicFile
    BY <1>3, ServingPair DEF DeliverToken, GInv
  <2>3. /\ holds' = [holds EXCEPT ![e] = TRUE]
        /\ tokenKey' = [tokenKey EXCEPT ![e] = publicFile]
    BY <1>3, <2>2 DEF DeliverToken, ClaimAnswered
  <2> QED  BY <1>1, <2>1, <2>2, <2>3 DEF GInv, TypeOK, TokenOnDisk
<1>4. ASSUME NEW e \in Device, Reset(e)
      PROVE  /\ tokenKey' \in [Device -> Key \cup {NoToken}]
             /\ \A d \in Device : TokenOnDisk(d)'
  <2>1. /\ holds' = [holds EXCEPT ![e] = FALSE]
        /\ tokenKey' = [tokenKey EXCEPT ![e] = NoToken]
    BY <1>4 DEF Reset, DeviceReset
  <2> QED  BY <1>1, <2>1 DEF GInv, TypeOK, TokenOnDisk
<1> QED  BY <1>2, <1>3, <1>4, TokensKept

LEMMA GInvStep == GInv /\ [GardenNext]_gardenVars => GInv'
<1> SUFFICES ASSUME GInv, [GardenNext]_gardenVars PROVE GInv'
  OBVIOUS
<1>1. HubStep /\ BindingStep /\ KeyStep
  BY StepsOfComponents
<1>2. TypeOK'
  BY <1>1, TypeStep DEF GInv, HubStep
<1>3. BP!IInv'
  BY <1>1, Marks, BP!IInvStep DEF GInv, BindingStep
<1>4. KP!IInv'
  BY <1>1, Marks, KP!IInvStep DEF GInv, KeyStep
<1> QED  BY <1>2, <1>3, <1>4, TokensStep DEF GInv

LEMMA GardenInductive == GardenSpec => []GInv
BY InitGInv, GInvStep, PTL DEF GardenSpec

-----------------------------------------------------------------------------
(***************************************************************************)
(* The tables, requests, files and tokens keep their types.                *)
(***************************************************************************)
THEOREM GardenTypes == GardenSpec => []GardenTypeOK
<1>1. GInv => GardenTypeOK
  BY DEF GInv, GardenTypeOK, BP!IInv, BP!TypeOK, Binding!TypeOK, KP!IInv, KP!TypeOK,
     Keys!TypeOK, Binding!NoRow, BP!NoRow, Binding!NoHub, BP!NoHub, Binding!NoInsert,
     BP!NoInsert, Keys!Missing, KP!Missing, Keys!Torn, KP!Torn, Keys!Down, KP!Down
<1> QED  BY GardenInductive, <1>1, PTL

(***************************************************************************)
(* The hub service, the binding of nodes and the key manager inside the    *)
(* system each behave as their own module says, so what is proved of the   *)
(* modules holds here, the bound on token rows for instance.  Crashes of   *)
(* the process are lost requests to the one and nothing to the other.      *)
(***************************************************************************)
THEOREM GardenImplementsComponents ==
    GardenSpec => Spec /\ Binding!Spec /\ Keys!Spec
<1>1. GardenInit => Init /\ Binding!Init /\ Keys!Init
  BY DEF GardenInit
<1>2. [GardenNext]_gardenVars => HubStep /\ BindingStep /\ KeyStep
  BY StepsOfComponents
<1>3. HubStep => [Next]_vars
  BY DEF HubStep
<1>4. BindingStep => [Binding!Next]_(Binding!bindingVars)
  BY SameBinding DEF BindingStep
<1>5. KeyStep => [Keys!Next]_(Keys!keyVars)
  BY SameKeys DEF KeyStep
<1> QED
  BY <1>1, <1>2, <1>3, <1>4, <1>5, PTL DEF GardenSpec, Spec, Binding!Spec, Keys!Spec

(***************************************************************************)
(* No hub of the system ever has more token rows than claims were served   *)
(* at a time.                                                              *)
(***************************************************************************)
COROLLARY GardenClaimsBounded == GardenSpec => []BoundedClaims
BY GardenImplementsComponents, ClaimsBounded

(***************************************************************************)
(* A token that a device holds is accepted by every later process, for any *)
(* number of crashes between and inside the writes of the key files.       *)
(***************************************************************************)
THEOREM HeldTokensAccepted == GardenSpec => []TokensSurvive
<1>1. GInv => TokensSurvive
  BY ServingPair DEF GInv, TokenOnDisk, TokensSurvive, ValidToken
<1> QED  BY GardenInductive, <1>1, PTL

(***************************************************************************)
(* In the whole system too, the readings of a node created by the code     *)
(* were sent by the hub of the node,                                       *)
(***************************************************************************)
THEOREM ReadingsBelongToHub == GardenSpec => []HubsAttributed
<1>1. GInv => HubsAttributed
  BY DEF GInv, BP!IInv, BP!NodeInv, BP!TypeOK, HubsAttributed, Binding!ReadingsAttributed
<1> QED  BY GardenInductive, <1>1, PTL

(***************************************************************************)
(* and a node stays with its hub, once the requests that raced for it are  *)
(* served.                                                                 *)
(***************************************************************************)
THEOREM NodesStayWithHub == GardenSpec => NodesStay
<1> DEFINE A == \A n \in Node : n \in created \/ Binding!Settled(n)
                   => hubOf'[n] = hubOf[n] /\ Binding!Settled(n)'
<1>1. GInv /\ [GardenNext]_gardenVars => [A]_(Binding!bindingVars)
  <2> SUFFICES ASSUME GInv, BindingStep, NEW n \in Node, n \in created \/ Binding!Settled(n)
               PROVE  hubOf'[n] = hubOf[n] /\ Binding!Settled(n)'
    BY StepsOfComponents
  <2>1. BP!IInv
    BY DEF GInv
  <2>2. Binding!Settled(n)
    BY <2>1, Marks, BP!CreatedSettled DEF Binding!Settled, BP!Settled
  <2> QED  BY <2>1, <2>2, Marks, BP!SettledStep DEF BindingStep, Binding!Settled, BP!Settled
<1> QED  BY GardenInductive, <1>1, PTL DEF GardenSpec, NodesStay, Binding!NodesStay

(***************************************************************************)
(* The whole system keeps the registry's promise, since it takes steps of  *)
(* SensorBinding only, and those implement it.                             *)
(***************************************************************************)
THEOREM SystemImplementsRegistry == GardenSpec => NodesPinned
<1>1. BP!Spec => BP!ImplementsRegistry
  BY Marks, BP!HandlerImplementsRegistry
<1>2. Binding!Init <=> BP!Init
  BY DEF Binding!Init, BP!Init, Binding!NoRow, BP!NoRow, Binding!NoHub, BP!NoHub,
     Binding!NoInsert, BP!NoInsert
<1>3. [Binding!Next]_(Binding!bindingVars) <=> [BP!Next]_(BP!bindingVars)
  BY SameBinding DEF BindingStep
<1>4. Binding!Spec => BP!Spec
  BY <1>2, <1>3, PTL DEF Binding!Spec, BP!Spec
<1>5. BP!Registry!RegistryInit <=> Binding!Registry!RegistryInit
  BY DEF BP!Registry!RegistryInit, Binding!Registry!RegistryInit, BP!Registry!Unpinned,
     Binding!Registry!Unpinned, BP!Pinned, Binding!Pinned, BP!Reported, Binding!Reported
<1>6. [BP!Registry!RegistryNext]_(BP!Registry!registryVars)
         <=> [Binding!Registry!RegistryNext]_(Binding!Registry!registryVars)
  BY DEF BP!Registry!RegistryNext, Binding!Registry!RegistryNext, BP!Registry!Pin,
     Binding!Registry!Pin, BP!Registry!Take, Binding!Registry!Take, BP!Registry!Unpinned,
     Binding!Registry!Unpinned, BP!Registry!registryVars, Binding!Registry!registryVars,
     BP!Pinned, Binding!Pinned, BP!Reported, Binding!Reported
<1>7. BP!ImplementsRegistry => NodesPinned
  BY <1>5, <1>6, PTL DEF BP!ImplementsRegistry, NodesPinned, Binding!ImplementsRegistry,
     BP!Registry!RegistrySpec, Binding!Registry!RegistrySpec
<1> QED  BY <1>1, <1>4, <1>7, GardenImplementsComponents, PTL

(***************************************************************************)
(* A node that a full prompt leaves out comes after as many others as the  *)
(* prompt describes.                                                       *)
(***************************************************************************)
LEMMA PromptFull ==
    ASSUME NEW S \in SUBSET Node, NEW C \in FirstOf(ChatLimit, S), NEW n \in S \ C
    PROVE  Cardinality({m \in C : ListedBefore(m, n)}) = ChatLimit
<1>1. C \subseteq S /\ \A m \in C : ListedBefore(m, n)
  BY DEF FirstOf
<1>2. {m \in C : ListedBefore(m, n)} = C
  BY <1>1
<1>3. IsFiniteSet(S)
  BY TableAssumption, FS_Subset
<1>4. Cardinality(C) # Cardinality(S)
  BY <1>1, <1>3, FS_Subset
<1>5. Cardinality(C) = ChatLimit
  BY <1>4 DEF FirstOf
<1> QED  BY <1>2, <1>5

(***************************************************************************)
(* Whatever names the owners give their hubs and however many probes they  *)
(* have, every query shows its caller his own readings and probes.         *)
(***************************************************************************)
THEOREM QueriesShowOwnReadings == GardenSpec => []OwnersSeeTheirReadings
<1>1. ASSUME GInv, NEW n \in created, NEW d \in Device, owner[d] # NoOwner
      PROVE  ReadingsShown(n, d) /\ ProbesShown(n, d)
  <2> DEFINE user == UserToken(owner[d])
             hub  == HubToken(d)
  <2>1. /\ n \in Node /\ hubOf[n] \in Device
        /\ sentBy[n] = {} \/ sentBy[n] = {hubOf[n]}
    BY <1>1 DEF GInv, BP!IInv, BP!NodeInv, BP!TypeOK
  <2>2. /\ user.user = owner[d] /\ ~IsServiceAccount(user)
        /\ hub.user = owner[d] /\ IsServiceAccount(hub) /\ hub.hub = d
    BY DEF UserToken, HubToken, IsServiceAccount
  <2>3. ReadingsShown(n, d)
    <3>1. d \in sentBy[n] <=> n \in GetSummary(user, {d})
      BY <2>1, <2>2 DEF GetSummary, NodesOf, HasReadings
    <3>2. d \in sentBy[n] <=> n \in GetSummary(hub, Device)
      BY <2>1, <2>2 DEF GetSummary, NodesOf, HasReadings
    <3>3. (\E e \in sentBy[n] : owner[e] = owner[d]) <=> n \in GetLast(user)
      BY <2>1, <2>2 DEF GetLast, NodesOf, HasReadings
    <3> QED  BY <3>1, <3>2, <3>3 DEF ReadingsShown
  <2>4. ASSUME NEW L \in ListProbesForHubName(user, HubName[d])
        PROVE  /\ \A m \in L : /\ owner[hubOf[m]] = owner[d]
                               /\ HubName[hubOf[m]] = HubName[d]
               /\ d \in sentBy[n] /\ OnlyHubOfItsName(d) => n \in L
    <3>1. PICK e \in Device : /\ owner[e] = owner[d] /\ HubName[e] = HubName[d]
                              /\ L = {m \in Node : hubOf[m] = e}
      BY <2>2, <2>4 DEF ListProbesForHubName
    <3> QED  BY <2>1, <3>1 DEF OnlyHubOfItsName
  <2>5. ASSUME NEW C \in ChatContext(user)
        PROVE  /\ \A m \in C : owner[hubOf[m]] = owner[d]
               /\ d \in sentBy[n] /\ n \notin C =>
                     Cardinality({m \in C : ListedBefore(m, n)}) = ChatLimit
    <3>1. C \in FirstOf(ChatLimit, NodesOf(owner[d]))
      BY <2>2, <2>5 DEF ChatContext
    <3>2. C \subseteq NodesOf(owner[d]) /\ NodesOf(owner[d]) \in SUBSET Node
      BY <3>1 DEF FirstOf, NodesOf
    <3>3. d \in sentBy[n] => n \in NodesOf(owner[d])
      BY <2>1 DEF NodesOf
    <3> QED  BY <3>1, <3>2, <3>3, PromptFull DEF NodesOf
  <2>6. ProbesShown(n, d)
    BY <2>4, <2>5 DEF ProbesShown
  <2> QED  BY <2>3, <2>6
<1>2. GInv => OwnersSeeTheirReadings
  BY <1>1 DEF OwnersSeeTheirReadings
<1> QED  BY GardenInductive, <1>2, PTL
=============================================================================
