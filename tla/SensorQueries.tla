--------------------------- MODULE SensorQueries ---------------------------
(***************************************************************************)
(* Who gets to see which nodes: the read-only handlers of                  *)
(* internal/service/garden.go and the garden context of the chat service,  *)
(* as functions of the tables and of the token the interceptor has         *)
(* validated.  A query is one SQL statement; its answer is modelled by the *)
(* set of nodes it is about, and all readings are recent enough for it.    *)
(* Names and node ids are numbered in the order the database sorts them.   *)
(***************************************************************************)
EXTENDS Naturals, FiniteSets

CONSTANTS Device, Node,
          HubName,    \* the name each hub was given by its owner
          NodeId,     \* the node_id of each node
          ChatLimit   \* probes described to the assistant at most

VARIABLES owner,      \* the hubs table
          hubOf,      \* the sensor_nodes table
          sentBy      \* the sensor_data table

NoHubId == "none"

(* The claims of the two kinds of token: only a user's carries a username, *)
(* only a hub's names a hub.                                               *)
UserToken(u) == [user |-> u, username |-> TRUE, hub |-> NoHubId]
HubToken(d)  == [user |-> owner[d], username |-> FALSE, hub |-> d]

IsServiceAccount(t) == ~t.username

\* Mutant: the join lacks the condition on the hub's user.
NodesOfAnyone(u) == {n \in Node : hubOf[n] \in Device}

(* The join sensor_nodes -> hubs, restricted to the hubs of user u.        *)
NodesOf(u) == {n \in Node : hubOf[n] \in Device /\ owner[hubOf[n]] = u}

HasReadings(n) == sentBy[n] # {}

(* GetSummary with an optional hub filter (the set of hubs asked for); a   *)
(* hub gets its own nodes, whatever it asks for.                           *)
GetSummary(t, filter) ==
    LET scope == IF IsServiceAccount(t) THEN {t.hub} ELSE filter
    IN  {n \in NodesOf(t.user) : HasReadings(n) /\ hubOf[n] \in scope}

(* GetLast finds a reading for these nodes; hub tokens are refused.        *)
GetLast(t) ==
    {n \in NodesOf(t.user) : HasReadings(n) /\ ~IsServiceAccount(t)}

(* The possible answers of ListProbesForHubName.  Names need not be unique:*)
(* the probes of one hub of that name are listed, the one with the lowest  *)
(* id.  Ids are not in the model, so it may be any of them.                *)
ListProbesForHubName(t, name) ==
    LET named == {d \in Device : owner[d] = t.user /\ HubName[d] = name}
    IN  {{n \in Node : hubOf[n] = d} : d \in {e \in named : ~IsServiceAccount(t)}}

(* ORDER BY h.name, sn.node_id                                             *)
ListedBefore(m, n) ==
    \/ HubName[hubOf[m]] < HubName[hubOf[n]]
    \/ HubName[hubOf[m]] = HubName[hubOf[n]] /\ NodeId[m] < NodeId[n]

\* Mutant: the rows are not sorted.
AnyOf(limit, S) ==
    {T \in SUBSET S :
        Cardinality(T) = IF Cardinality(S) < limit THEN Cardinality(S) ELSE limit}

(* LIMIT: the rows of S that come first, as many as there are.             *)
FirstOf(limit, S) ==
    {T \in SUBSET S :
        /\ Cardinality(T) = IF Cardinality(S) < limit THEN Cardinality(S) ELSE limit
        /\ \A m \in T, n \in S \ T : ListedBefore(m, n)}

(* The nodes the chat prompt describes, readings or not (one answer only,  *)
(* as node ids are unique).                                                *)
ChatContext(t) ==
    IF IsServiceAccount(t) THEN {} ELSE FirstOf(ChatLimit, NodesOf(t.user))
=============================================================================
