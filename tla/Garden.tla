------------------------------- MODULE Garden -------------------------------
(***************************************************************************)
(* From an unpacked hub to a reading its owner can see: one server process *)
(* that keeps its key pair in files (JwtKeys), gives hubs their tokens     *)
(* (HubProvisioning), stores the readings they send with those tokens      *)
(* (SensorBinding) and answers queries about them (SensorQueries).  The    *)
(* components meet in three places:                                        *)
(*                                                                         *)
(*   - requests are served only while the process is up, claims and        *)
(*     readings by the same workers; a process that dies drops them all;   *)
(*   - a token is signed with the key of the process that issues it and    *)
(*     has to be accepted by the process that serves its holder later;     *)
(*   - the hub named in a token becomes the hub of the nodes it reports,   *)
(*     and the user who associated the hub sees their readings.            *)
(*                                                                         *)
(* Whether a token was revoked is not asked when it is used: only its      *)
(* signature counts (internal/auth/middleware.go).                         *)
(***************************************************************************)
EXTENDS HubProvisioning

CONSTANTS Node, Key, HubName, NodeId, ChatLimit,
          Diligent    \* the hubs that keep trying (for liveness only)

VARIABLES hubOf, created, sentBy, insert,
          privateFile, publicFile, server,
          tokenKey    \* the pair that signed the token the device holds

INSTANCE SensorQueries
Binding == INSTANCE SensorBinding WITH Hub <- Device
Keys    == INSTANCE JwtKeys

\* A hub or a key is not mistaken for one of the marks beside it.
ASSUME MarkAssumption ==
    /\ {Binding!NoRow, Binding!NoHub} \cap Device = {}
    /\ {Keys!Missing, Keys!Torn} \cap Key = {}
    /\ NoOwner \notin User

\* A table is finite, names and ids are sorted, and no two nodes share an id.
ASSUME TableAssumption ==
    /\ IsFiniteSet(Node)
    /\ HubName \in [Device -> Nat]
    /\ NodeId \in [Node -> Nat] /\ \A m, n \in Node : NodeId[m] = NodeId[n] => m = n
    /\ ChatLimit \in Nat \ {0}

hubVars     == <<owner, rows, claim, holds>>
bindingVars == <<hubOf, created, sentBy, insert>>
keyVars     == <<privateFile, publicFile, server>>
gardenVars  == <<hubVars, bindingVars, keyVars, tokenKey>>

NoToken == "none"

GardenInit == /\ Init /\ Binding!Init /\ Keys!Init
              /\ tokenKey = [d \in Device |-> NoToken]

Free(w) == claim[w] = Idle /\ insert[w] = Binding!NoInsert

-----------------------------------------------------------------------------
(* Requests about hubs.  A user signs in before, which needs the server.   *)

Associate(u, d) ==
    /\ Keys!Serving
    /\ AssociateHub(u, d)
    /\ UNCHANGED <<bindingVars, keyVars, tokenKey>>

Revoke(u, d) ==
    /\ Keys!Serving
    /\ RevokeHub(u, d)
    /\ UNCHANGED <<bindingVars, keyVars, tokenKey>>

ClaimToken(w, d) ==
    /\ Keys!Serving /\ Free(w)
    /\ ClaimChecked(w, d)
    /\ UNCHANGED <<bindingVars, keyVars, tokenKey>>

StoreToken(w) ==
    /\ Keys!Serving
    /\ ClaimStored(w)
    /\ UNCHANGED <<bindingVars, keyVars, tokenKey>>

(* A claim in flight was signed by the process that answers it.            *)
DeliverToken(w) ==
    /\ Keys!Serving
    /\ ClaimAnswered(w)
    /\ tokenKey' = [tokenKey EXCEPT ![claim[w].device] = server.signs]
    /\ UNCHANGED <<bindingVars, keyVars>>

(* The device loses its token, or drops it when it expires.                *)
Reset(d) ==
    /\ DeviceReset(d)
    /\ tokenKey' = [tokenKey EXCEPT ![d] = NoToken]
    /\ UNCHANGED <<bindingVars, keyVars>>

-----------------------------------------------------------------------------
(* Readings.                                                               *)

(* ValidateToken checks the signature with the public key in memory.       *)
ValidToken(d) == Keys!Serving /\ tokenKey[d] = server.checks

(* The interceptor lets a hub's token through to InsertSensorData.         *)
Authenticated(d) == holds[d] /\ ValidToken(d) /\ IsServiceAccount(HubToken(d))

SendReading(w, d, n) ==
    /\ Authenticated(d) /\ Free(w)
    /\ Binding!LoadNode(w, d, n)
    /\ UNCHANGED <<hubVars, keyVars, tokenKey>>

ServeReading(w) ==
    /\ Keys!Serving
    /\ Binding!InsertStep(w)
    /\ UNCHANGED <<hubVars, keyVars, tokenKey>>

-----------------------------------------------------------------------------
(* The process.  It starts again after its predecessor's requests are gone *)
(* and generates keys that no token in circulation was signed with.        *)

RequestsGone == \A w \in Worker : Free(w)

StartFresh(k) == k \notin {tokenKey[d] : d \in Device} /\ Keys!StartFresh(k)

Start == /\ RequestsGone
         /\ Keys!StartLoaded \/ \E k \in Key : StartFresh(k)
         /\ UNCHANGED <<hubVars, bindingVars, tokenKey>>

SavePrivate == Keys!SavePrivate /\ UNCHANGED <<hubVars, bindingVars, tokenKey>>
SavePublic  == Keys!SavePublic  /\ UNCHANGED <<hubVars, bindingVars, tokenKey>>
Crash       == Keys!Crash       /\ UNCHANGED <<hubVars, bindingVars, tokenKey>>

(* A request fails, or its process is gone.                                *)
Drop(w) ==
    /\ \/ ClaimLost(w) /\ UNCHANGED bindingVars
       \/ Binding!InsertLost(w) /\ UNCHANGED hubVars
    /\ UNCHANGED <<keyVars, tokenKey>>

-----------------------------------------------------------------------------
GardenNext ==
    \/ \E u \in User, d \in Device : Associate(u, d) \/ Revoke(u, d)
    \/ \E w \in Worker, d \in Device :
          ClaimToken(w, d) \/ \E n \in Node : SendReading(w, d, n)
    \/ \E w \in Worker : StoreToken(w) \/ DeliverToken(w) \/ ServeReading(w) \/ Drop(w)
    \/ \E d \in Device : Reset(d)
    \/ Start \/ SavePrivate \/ SavePublic \/ Crash

GardenSpec == GardenInit /\ [][GardenNext]_gardenVars

(***************************************************************************)
(* Fairness.  The process dies and loses requests any number of times, but *)
(* not for ever (HubProvisioning does without that); it is started again   *)
(* and gets on with its start, and every request ends.  The hubs of        *)
(* Diligent keep claiming until they have a token and keep sending the     *)
(* readings of the nodes they hear, though they may lose their token       *)
(* without end; their owners revoke claims that brought no token.  Other   *)
(* hubs and their owners do as they like.                                  *)
(***************************************************************************)
Fault == Crash \/ (Keys!Serving /\ \E w \in Worker : Drop(w))

RequestEnds(w) == StoreToken(w) \/ DeliverToken(w) \/ ServeReading(w) \/ Drop(w)

FairGardenSpec ==
    /\ GardenSpec
    /\ <>[][~Fault]_gardenVars
    /\ WF_gardenVars(Start) /\ WF_gardenVars(SavePrivate \/ SavePublic)
    /\ \A w \in Worker : WF_gardenVars(RequestEnds(w))
    /\ \A d \in Diligent :
          /\ SF_gardenVars(\E w \in Worker : ClaimToken(w, d))
          /\ WF_gardenVars(Stranded(d) /\ Revoke(owner[d], d))
          /\ \A n \in Node : SF_gardenVars(\E w \in Worker : SendReading(w, d, n))
-----------------------------------------------------------------------------
(* Type invariant of all components and of the tokens.                     *)
GardenTypeOK ==
    /\ TypeOK /\ Binding!TypeOK /\ Keys!TypeOK
    /\ tokenKey \in [Device -> Key \cup {NoToken}]

(***************************************************************************)
(* Key persistence (manager.go: without it "all hub tokens ... become      *)
(* invalid on every server restart"): a token a device holds is accepted   *)
(* by whatever process serves requests, the one that signed it and all     *)
(* later ones, however many crashes lie between and wherever they hit.     *)
(***************************************************************************)
TokensSurvive ==
    \A d \in Device : holds[d] /\ Keys!Serving => ValidToken(d)

(***************************************************************************)
(* Readings belong to the hub their node is bound to (SensorBinding).      *)
(***************************************************************************)
HubsAttributed == Binding!ReadingsAttributed

(***************************************************************************)
(* A node stays with its hub, at the latest when the requests that raced   *)
(* for it are served; the motor command queue takes that for granted       *)
(* (SensorBinding).                                                        *)
(***************************************************************************)
NodesStay == Binding!NodesStay

(***************************************************************************)
(* Across crashes, lost requests and lost tokens the handler does for a    *)
(* node it registered what NodeRegistry promises (SensorBinding).          *)
(***************************************************************************)
NodesPinned == Binding!ImplementsRegistry

(***************************************************************************)
(* The join through sensor_nodes and hubs shows everybody exactly his own  *)
(* readings: a user those that his hubs sent, a hub those it sent itself.  *)
(* It joins on the binding as it is now; that this says who sent the       *)
(* readings stored long ago is what could fail.  His probes are listed     *)
(* under their hub as far as its name tells it from his other hubs, and    *)
(* described to the assistant until the prompt is full of probes of his    *)
(* own; nobody else's take up room in it.                                  *)
(***************************************************************************)
OnlyHubOfItsName(d) ==
    \A e \in Device : owner[e] = owner[d] /\ HubName[e] = HubName[d] => e = d

ReadingsShown(n, d) ==
    LET user == UserToken(owner[d])
        hub  == HubToken(d)
    IN  /\ d \in sentBy[n] <=> n \in GetSummary(user, {d})
        /\ d \in sentBy[n] <=> n \in GetSummary(hub, Device)
        /\ (\E e \in sentBy[n] : owner[e] = owner[d]) <=> n \in GetLast(user)

ProbesShown(n, d) ==
    LET user == UserToken(owner[d]) IN
    /\ \A L \in ListProbesForHubName(user, HubName[d]) :
          /\ \A m \in L : owner[hubOf[m]] = owner[d] /\ HubName[hubOf[m]] = HubName[d]
          /\ d \in sentBy[n] /\ OnlyHubOfItsName(d) => n \in L
    /\ \A C \in ChatContext(user) :
          /\ \A m \in C : owner[hubOf[m]] = owner[d]
          /\ d \in sentBy[n] /\ n \notin C =>
                Cardinality({m \in C : ListedBefore(m, n)}) = ChatLimit

OwnersSeeTheirReadings ==
    \A n \in created, d \in Device :
        owner[d] # NoOwner => ReadingsShown(n, d) /\ ProbesShown(n, d)

(***************************************************************************)
(* Once a diligent hub is associated, its readings of every node it hears  *)
(* arrive in the end, unless another hub gets the node first: no crash,    *)
(* lost answer or lost token, and nothing other hubs do, keeps it out.     *)
(***************************************************************************)
ReadingsArrive ==
    \A d \in Diligent, n \in Node :
        owner[d] # NoOwner ~> d \in sentBy[n] \/ hubOf[n] \in Device \ {d}
=============================================================================
