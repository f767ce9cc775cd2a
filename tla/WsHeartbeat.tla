----------------------------- MODULE WsHeartbeat -----------------------------
(***************************************************************************)
(* WsState (src/server/src/services/websocket.service.ts): the set of      *)
(* client connections and the 30 s heartbeat that drops dead ones.         *)
(*                                                                         *)
(* addConnection puts a socket in the set with isAlive = true and hooks    *)
(* its 'pong', 'close' and 'error' events. Each interval callback walks    *)
(* the set synchronously: a socket still not alive is terminated and       *)
(* removed, any other is marked not alive and pinged. A pong marks it      *)
(* alive again. cleanup stops the interval, closes every socket and        *)
(* empties the set.                                                        *)
(*                                                                         *)
(* The peers are of three kinds. Those of Responsive answer every ping     *)
(* well within the interval, so their pong reaches the server before the   *)
(* next callback. Those of Dead never answer. Any other peer answers or    *)
(* not, at any time. Each connection id is used once.                      *)
(***************************************************************************)
CONSTANTS
    Conns,        \* connection ids
    Responsive,   \* peers whose pong beats the next interval
    Dead          \* peers that never answer a ping

ASSUME PeersAssumption ==
    /\ Responsive \subseteq Conns /\ Dead \subseteq Conns
    /\ Responsive \cap Dead = {}

\* ws readyState, with "none" for a socket not connected yet.
ReadyStates == {"none", "open", "closing", "closed"}

VARIABLES
    ready,        \* ready[c]: the socket's readyState
    inSet,        \* inSet[c]: c is in this.connections
    isAlive,      \* isAlive[c]: the flag the heartbeat and pong handler share
    pinged,       \* pinged[c]: a ping was sent and its pong has not arrived
    terminated,   \* terminated[c]: the heartbeat called ws.terminate() on c
                  \* while it was open
    running       \* the ping interval is set (cleanup clears it)

vars == <<ready, inSet, isAlive, pinged, terminated, running>>

Init ==
    /\ ready = [c \in Conns |-> "none"]
    /\ inSet = [c \in Conns |-> FALSE]
    /\ isAlive = [c \in Conns |-> FALSE]
    /\ pinged = [c \in Conns |-> FALSE]
    /\ terminated = [c \in Conns |-> FALSE]
    /\ running = TRUE

(* A client connects and the server calls addConnection.                  *)
AddConnection(c) ==
    /\ ready[c] = "none"
    /\ ready' = [ready EXCEPT ![c] = "open"]
    /\ inSet' = [inSet EXCEPT ![c] = TRUE]
    /\ isAlive' = [isAlive EXCEPT ![c] = TRUE]
    /\ UNCHANGED <<pinged, terminated, running>>

\* The sockets the callback terminates: in the set and not alive.
\* Mutant: the flag cleared before it is tested.
ToTerminateResetFirst == {c \in Conns : inSet[c]}

ToTerminate == {c \in Conns : inSet[c] /\ ~isAlive[c]}

\* Mutant: the callback terminates the sockets not alive and pings the
\* others, but never clears isAlive.
HeartbeatTickNoReset ==
    /\ running
    /\ \A c \in Responsive : ~(pinged[c] /\ ready[c] = "open")
    /\ LET T == ToTerminate
           P == {c \in Conns : inSet[c]} \ T
       IN  /\ ready' = [c \in Conns |-> IF c \in T THEN "closed" ELSE ready[c]]
           /\ inSet' = [c \in Conns |-> inSet[c] /\ c \notin T]
           /\ pinged' = [c \in Conns |-> pinged[c] \/ (c \in P /\ ready[c] = "open")]
           /\ terminated' = [c \in Conns |-> terminated[c] \/ (c \in T /\ ready[c] = "open")]
    /\ UNCHANGED <<isAlive, running>>

(* One interval callback: the whole forEach runs without yielding. The    *)
(* pong of a responsive peer whose socket is open is never still in flight *)
(* when it starts.                                                         *)
HeartbeatTick ==
    /\ running
    /\ \A c \in Responsive : ~(pinged[c] /\ ready[c] = "open")
    /\ LET T == ToTerminate
           P == {c \in Conns : inSet[c]} \ T
       IN  /\ ready' = [c \in Conns |-> IF c \in T THEN "closed" ELSE ready[c]]
           /\ inSet' = [c \in Conns |-> inSet[c] /\ c \notin T]
           /\ isAlive' = [c \in Conns |-> IF c \in P THEN FALSE ELSE isAlive[c]]
           /\ pinged' = [c \in Conns |-> pinged[c] \/ (c \in P /\ ready[c] = "open")]
           /\ terminated' = [c \in Conns |-> terminated[c] \/ (c \in T /\ ready[c] = "open")]
    /\ UNCHANGED running

(* The pong of an open socket arrives: the 'pong' handler.                *)
Pong(c) ==
    /\ c \notin Dead
    /\ pinged[c]
    /\ ready[c] = "open"
    /\ isAlive' = [isAlive EXCEPT ![c] = TRUE]
    /\ pinged' = [pinged EXCEPT ![c] = FALSE]
    /\ UNCHANGED <<ready, inSet, terminated, running>>

(* The peer starts the closing handshake.                                  *)
PeerClose(c) ==
    /\ ready[c] = "open"
    /\ ready' = [ready EXCEPT ![c] = "closing"]
    /\ UNCHANGED <<inSet, isAlive, pinged, terminated, running>>

(* The socket reaches CLOSED and emits 'close', or fails and emits        *)
(* 'error': either handler deletes it from the set.                        *)
Closed(c) ==
    /\ ready[c] \in {"open", "closing"}
    /\ ready' = [ready EXCEPT ![c] = "closed"]
    /\ inSet' = [inSet EXCEPT ![c] = FALSE]
    /\ pinged' = [pinged EXCEPT ![c] = FALSE]
    /\ UNCHANGED <<isAlive, terminated, running>>

(* cleanup: clearInterval, close() on every socket of the set, clear().   *)
Cleanup ==
    /\ running
    /\ running' = FALSE
    /\ ready' = [c \in Conns |-> IF inSet[c] /\ ready[c] = "open" THEN "closing" ELSE ready[c]]
    /\ inSet' = [c \in Conns |-> FALSE]
    /\ UNCHANGED <<isAlive, pinged, terminated>>

Next ==
    \/ HeartbeatTick
    \/ Cleanup
    \/ \E c \in Conns : AddConnection(c) \/ Pong(c) \/ PeerClose(c) \/ Closed(c)

(* The interval keeps firing while it is set, and a responsive peer does  *)
(* answer: without that its pong could hold the next callback back.        *)
Fairness ==
    /\ WF_vars(HeartbeatTick)
    /\ \A c \in Responsive : WF_vars(Pong(c))

Spec == Init /\ [][Next]_vars

FairSpec == Spec /\ Fairness

-----------------------------------------------------------------------------
\* The sockets, the set and the flags are typed.
TypeOK ==
    /\ ready \in [Conns -> ReadyStates]
    /\ inSet \in [Conns -> BOOLEAN]
    /\ isAlive \in [Conns -> BOOLEAN]
    /\ pinged \in [Conns -> BOOLEAN]
    /\ terminated \in [Conns -> BOOLEAN]
    /\ running \in BOOLEAN

(***************************************************************************)
(* The heartbeat never terminates the open connection of a peer that      *)
(* answers every ping in time: the callback tests isAlive, set by the last *)
(* pong, before it clears it for the next round.                           *)
(***************************************************************************)
ResponsiveNeverTerminated ==
    \A c \in Responsive : ~terminated[c]

(***************************************************************************)
(* A connection whose peer never answers does not stay in the set while   *)
(* the interval is set: within two callbacks the heartbeat, or the         *)
(* socket's own close or error event, removes it. (addConnection after     *)
(* cleanup adds a socket that no interval watches any more.)               *)
(***************************************************************************)
DeadEventuallyRemoved ==
    \A c \in Dead : inSet[c] ~> (~inSet[c] \/ ~running)
=============================================================================
