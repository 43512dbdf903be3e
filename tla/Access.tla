-------------------------------- MODULE Access --------------------------------
(***************************************************************************)
(* Who may say what on the broker: the topic contract                       *)
(* (packages/shared/src/topics.ts), the answers of the server to EMQX about *)
(* connections and topics (apps/server/src/api/internal.ts, mqtt/acl.ts),   *)
(* and the dispatch of what the server gets (mqtt/client.ts).  The devices  *)
(* are those provisioned; any device that speaks the contract may join.     *)
(*                                                                          *)
(* A topic or filter is the sequence of its segments.  A secret is known by *)
(* the id it was made for.                                                  *)
(***************************************************************************)
EXTENDS Provisioning, Sequences

CONSTANT RequestIds    \* ids of RPC requests

(* An id is "dev_" or a request's id and random characters, never a wildcard *)
(* nor the server's own name.                                                *)
ASSUME AccessAssumption ==
    /\ Ids \cap {"", "+", "#", "server"} = {}
    /\ RequestIds \cap {"", "+", "#"} = {}

VARIABLES
    sessions,     \* connected usernames, and whether each is a superuser
    subs          \* the filters each username is subscribed to

accessVars == <<sessions, subs>>

ServerUsername == "server"
Nobody == "nobody"
Users == Ids \cup {ServerUsername}

AccessInit ==
    /\ sessions = [u \in {} |-> FALSE]
    /\ subs = [u \in Users |-> {}]

(* TOPICS *)
Telemetry(d) == <<"telemetry", d>>
Status(d) == <<"devices", d, "status">>
ShadowReported(d) == <<"devices", d, "shadow", "reported">>
ShadowDelta(d) == <<"devices", d, "shadow", "delta">>
RpcRequest(d, r) == <<"devices", d, "rpc", "request", r>>
RpcResponse(d, r) == <<"devices", d, "rpc", "response", r>>
OtaProgress(d) == <<"devices", d, "ota", "progress">>
AlertsTopic(d) == <<"alerts", d>>

(* parseTopic: the kind, the device and the request, or NotOurs. *)
NotOurs == [kind |-> "none", device |-> Nobody, request |-> ""]
Parsed(kind, d, r) == IF d = "" THEN NotOurs ELSE [kind |-> kind, device |-> d, request |-> r]

ParseRest(d, rest) ==
    CASE rest = <<"status">> -> Parsed("status", d, "")
      [] rest = <<"shadow", "reported">> -> Parsed("shadow_reported", d, "")
      [] rest = <<"shadow", "delta">> -> Parsed("shadow_delta", d, "")
      [] rest = <<"ota", "progress">> -> Parsed("ota_progress", d, "")
      [] Len(rest) = 3 /\ rest[1] = "rpc" /\ rest[2] = "request" /\ rest[3] # "" ->
            Parsed("rpc_request", d, rest[3])
      [] Len(rest) = 3 /\ rest[1] = "rpc" /\ rest[2] = "response" /\ rest[3] # "" ->
            Parsed("rpc_response", d, rest[3])
      [] OTHER -> NotOurs

ParseTopic(t) ==
    IF Len(t) = 2 /\ t[1] \in {"telemetry", "alerts"} THEN Parsed(t[1], t[2], "")
    ELSE IF Len(t) >= 3 /\ t[1] = "devices" THEN ParseRest(t[2], SubSeq(t, 3, Len(t)))
    ELSE NotOurs

-----------------------------------------------------------------------------
(* A slip a change of the code could make: a device may listen to every      *)
(* request, as the server does to every response.                            *)
CheckAclAnyRequest(username, action, t) ==
    LET p == ParseTopic(t)
    IN  \/ p.device = username /\ action = "publish" /\ p.kind \in
             {"telemetry", "status", "shadow_reported", "ota_progress", "rpc_response"}
        \/ p.device = username /\ action = "subscribe" /\ p.kind = "shadow_delta"
        \/ action = "subscribe" /\ p.kind = "rpc_request" /\ p.request = "+"

-----------------------------------------------------------------------------
(* checkAcl *)
CheckAcl(username, action, t) ==
    LET p == ParseTopic(t)
    IN  /\ p.device = username
        /\ \/ action = "publish" /\ p.kind \in
                 {"telemetry", "status", "shadow_reported", "ota_progress"}
           \/ action = "publish" /\ p.kind = "rpc_response" /\ p.request \notin {"+", "#"}
           \/ action = "subscribe" /\ p.kind = "shadow_delta"
           \/ action = "subscribe" /\ p.kind = "rpc_request" /\ p.request = "+"

(* /auth: the result for a connection, a superuser's for the server's own.   *)
(* A secret verifies if it is the one the account of that name was made with.*)
AuthAllows(clientid, username, password) ==
    /\ password = username
    /\ \/ username = ServerUsername
       \/ clientid = username /\ username \in accounts

ClientId(u) == IF u = ServerUsername THEN "platform-server" ELSE u

(* EMQX: /auth decides, once, who connects; a session of the same client id  *)
(* takes over.  The server connects with a client id of its own making, a    *)
(* device with its record.                                                   *)
Connect(u) ==
    /\ u = ServerUsername \/ (proc = "running" /\ u \in state)
    /\ AuthAllows(ClientId(u), u, u)
    /\ sessions' = [v \in DOMAIN sessions \cup {u} |-> v = ServerUsername]
    /\ subs' = [subs EXCEPT ![u] = {}]
    /\ UNCHANGED provisioningVars

(* The query or the verification fails, or the session ends. *)
Disconnect(u) ==
    /\ u \in DOMAIN sessions
    /\ sessions' = [v \in DOMAIN sessions \ {u} |-> sessions[v]]
    /\ subs' = [subs EXCEPT ![u] = {}]
    /\ UNCHANGED provisioningVars

(* EMQX: a superuser may do anything, for others /acl decides. *)
Allowed(u, action, t) == sessions[u] \/ CheckAcl(u, action, t)

Filters ==
    (UNION {{Telemetry(d), Status(d), ShadowReported(d), ShadowDelta(d), OtaProgress(d),
             AlertsTopic(d)} : d \in Ids \cup {"+", "#", ""}})
    \cup (UNION {{RpcRequest(d, r) : d \in Ids \cup {"+"}} \cup {RpcResponse(d, r) : d \in Ids \cup {"+"}}
                 : r \in RequestIds \cup {"+", "#", ""}})
    \cup {<<"telemetry">>, <<"devices", "+">>, <<"devices", "#">>, <<"#">>}

Subscribe(u, filter) ==
    /\ u \in DOMAIN sessions \ {ServerUsername}
    /\ Allowed(u, "subscribe", filter)
    /\ subs' = [subs EXCEPT ![u] = @ \cup {filter}]
    /\ UNCHANGED sessions /\ UNCHANGED provisioningVars

(* The subscriptions the server asks for when it has connected. *)
ServerFilters ==
    {Telemetry("+"), Status("+"), ShadowReported("+"), RpcResponse("+", "+"), OtaProgress("+")}

ServerSubscribes ==
    /\ ServerUsername \in DOMAIN sessions
    /\ \A f \in ServerFilters : Allowed(ServerUsername, "subscribe", f)
    /\ subs' = [subs EXCEPT ![ServerUsername] = ServerFilters]
    /\ UNCHANGED sessions /\ UNCHANGED provisioningVars

(* EMQX: topics that match a filter. *)
Matches(filter, t) ==
    \/ /\ Len(filter) = Len(t)
       /\ \A i \in 1 .. Len(t) : filter[i] \in {"+", "#", t[i]}
    \/ \E n \in 1 .. Len(filter) :
          /\ filter[n] = "#" /\ n = Len(filter) /\ n <= Len(t) + 1
          /\ \A i \in 1 .. n - 1 : filter[i] \in {"+", t[i]}

(* routeMessage: the handler that gets a message, with the device it is told. *)
RouteMessage(t) ==
    LET p == ParseTopic(t)
    IN  IF p.kind \in {"telemetry", "status", "shadow_reported", "rpc_response", "ota_progress"}
        THEN [handler |-> p.kind, device |-> p.device, request |-> p.request]
        ELSE [handler |-> "none", device |-> Nobody, request |-> ""]

AccessNext ==
    \/ ProvisioningNext /\ UNCHANGED accessVars
    \/ \E u \in Users : Connect(u) \/ Disconnect(u)
    \/ \E u \in Users, filter \in Filters : Subscribe(u, filter)
    \/ ServerSubscribes

SystemInit == ProvisioningInit /\ AccessInit

AccessSpec == SystemInit /\ [][AccessNext]_<<provisioningVars, accessVars>>

-----------------------------------------------------------------------------
(* Topics a message can be published to: no wildcards. *)
Plain(t) == \A i \in 1 .. Len(t) : t[i] \notin {"+", "#"}
Topics == {t \in Filters : Plain(t)}

(* What the contract lets a device say, and what it lets the platform say to *)
(* a device (the topic table of README.md).                                  *)
FromDevice(d) ==
    {Telemetry(d), Status(d), ShadowReported(d), OtaProgress(d)}
    \cup {RpcResponse(d, r) : r \in RequestIds}
ToDevice(d) == {ShadowDelta(d)} \cup {RpcRequest(d, r) : r \in RequestIds}
Contract == UNION {FromDevice(d) \cup ToDevice(d) \cup {AlertsTopic(d)} : d \in Ids}

(* "Devices can only touch their own topics" (README.md:76), all of them:     *)
(* what a connected device can say is what the contract lets it say, one of  *)
(* the server's filters picks each such message up, once, and the handler is *)
(* told that device; and what it is sent is a message for it, each of them   *)
(* once it has subscribed to its two filters.                                *)
OwnTopicsOnly ==
    \A d \in DOMAIN sessions \ {ServerUsername} :
        /\ {t \in Topics : Allowed(d, "publish", t)} = FromDevice(d)
        /\ \A t \in FromDevice(d) :
              /\ Cardinality({f \in ServerFilters : Matches(f, t)}) = 1
              /\ RouteMessage(t).device = d
        /\ LET heard == {t \in Contract : \E f \in subs[d] : Matches(f, t)}
           IN  /\ heard \subseteq ToDevice(d)
               /\ Cardinality(subs[d]) = 2 => heard = ToDevice(d)
==============================================================================
