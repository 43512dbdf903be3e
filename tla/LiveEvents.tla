----------------------------- MODULE LiveEvents -----------------------------
(***************************************************************************)
(* The live events of the console: the hub of the server                    *)
(* (apps/server/src/ws/hub.ts) publishes to whoever is subscribed at that   *)
(* moment, and one WsClient (apps/web/src/lib/ws.ts) keeps a socket open    *)
(* for all views.  Frames arrive in order while the socket lasts; what is   *)
(* published while there is none, or is on its way when it breaks, is gone. *)
(***************************************************************************)
EXTENDS Naturals, Sequences

CONSTANT MaxDrops     \* bound: sockets that break or are refused

ASSUME LiveAssumption == MaxDrops \in Nat

VARIABLES
    socket,      \* WsClient.status
    reconnect,   \* whether reconnectTimer is armed
    wire,        \* frames published to the socket and not handled yet
    drops        \* sockets broken or refused so far

liveVars == <<socket, reconnect, wire, drops>>

LiveInit ==
    /\ socket = "connecting"
    /\ reconnect = FALSE
    /\ wire = << >>
    /\ drops = 0

(* hub.publish: the frame is on the wire if the socket is subscribed. *)
Published(event) == IF socket = "open" THEN Append(wire, event) ELSE wire

Publish(event) ==
    /\ wire' = Published(event)
    /\ UNCHANGED <<socket, reconnect, drops>>

(* The listeners get the next frame. *)
Handle(event) ==
    /\ wire # << >>
    /\ event = Head(wire)
    /\ wire' = Tail(wire)
    /\ UNCHANGED <<socket, reconnect, drops>>

(* The socket that was dialled opens; the server subscribes it. *)
SocketOpens ==
    /\ socket # "open" /\ ~reconnect
    /\ socket' = "open"
    /\ UNCHANGED <<reconnect, wire, drops>>

(* `close`: the socket, open or being dialled, is lost with its frames; one  *)
(* timer is armed.                                                           *)
SocketCloses ==
    /\ ~reconnect /\ drops < MaxDrops
    /\ drops' = drops + 1
    /\ socket' = "reconnecting"
    /\ reconnect' = TRUE
    /\ wire' = << >>

(* The timer dials again. *)
ReconnectFires ==
    /\ reconnect
    /\ reconnect' = FALSE
    /\ UNCHANGED <<socket, wire, drops>>

SocketStep == SocketOpens \/ SocketCloses \/ ReconnectFires
==============================================================================
