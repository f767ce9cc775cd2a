-------------------------- MODULE WsHeartbeatProofs --------------------------
(***************************************************************************)
(* Proofs about WsHeartbeat: the heartbeat of WsState never terminates the *)
(* open socket of a responsive peer, for any set of connections.           *)
(*                                                                         *)
(* ResponsiveNeverTerminated is not inductive by itself: a callback        *)
(* terminates every socket of the set whose isAlive is false. What keeps a *)
(* responsive peer's socket out of that set is that, while it is open and  *)
(* in the set, either its isAlive flag is set (by addConnection or the     *)
(* last pong) or the callback that cleared it also sent a ping whose pong  *)
(* is still due; and a callback never starts while such a pong is due.    *)
(***************************************************************************)
EXTENDS WsHeartbeat, TLAPS

\* An open socket of a responsive peer in the set is alive or awaits a pong.
AliveOrPinged(c) ==
    inSet[c] /\ ready[c] = "open" => isAlive[c] \/ pinged[c]

IInv ==
    /\ TypeOK
    /\ ResponsiveNeverTerminated
    /\ \A c \in Responsive : AliveOrPinged(c)

-----------------------------------------------------------------------------
LEMMA InitIInv == Init => IInv
BY PeersAssumption DEF Init, IInv, TypeOK, ResponsiveNeverTerminated, AliveOrPinged, ReadyStates

\* One interval callback keeps the invariant: a responsive socket it would
\* terminate is not open, since it is neither alive nor awaiting a pong,
\* and one it pings while open now awaits that pong.
LEMMA TickIInv == IInv /\ HeartbeatTick => IInv'
<1> SUFFICES ASSUME IInv, HeartbeatTick PROVE IInv'
    OBVIOUS
<1> DEFINE T == ToTerminate
           P == {c \in Conns : inSet[c]} \ T
<1>1. TypeOK
    BY DEF IInv
<1>2. /\ ready' = [c \in Conns |-> IF c \in T THEN "closed" ELSE ready[c]]
      /\ inSet' = [c \in Conns |-> inSet[c] /\ c \notin T]
      /\ isAlive' = [c \in Conns |-> IF c \in P THEN FALSE ELSE isAlive[c]]
      /\ pinged' = [c \in Conns |-> pinged[c] \/ (c \in P /\ ready[c] = "open")]
      /\ terminated' = [c \in Conns |-> terminated[c] \/ (c \in T /\ ready[c] = "open")]
      /\ running' = running
      /\ \A c \in Responsive : ~(pinged[c] /\ ready[c] = "open")
    BY DEF HeartbeatTick
<1>3. TypeOK'
    BY <1>1, <1>2 DEF TypeOK, ReadyStates
<1>4. ASSUME NEW c \in Responsive
      PROVE  /\ ~terminated'[c]
             /\ AliveOrPinged(c)'
    <2>1. c \in Conns /\ ~terminated[c] /\ AliveOrPinged(c)
        BY PeersAssumption DEF IInv, ResponsiveNeverTerminated
    <2>2. c \in T => ready[c] # "open"
        BY <1>2, <2>1 DEF ToTerminate, AliveOrPinged
    <2>3. ~terminated'[c]
        BY <1>2, <2>1, <2>2
    <2>4. AliveOrPinged(c)'
        BY <1>1, <1>2, <2>1 DEF AliveOrPinged, ToTerminate, TypeOK
    <2> QED BY <2>3, <2>4
<1> QED BY <1>3, <1>4 DEF IInv, ResponsiveNeverTerminated

\* Every other step keeps the invariant; none of them sets terminated.
LEMMA NextIInv == IInv /\ [Next]_vars => IInv'
<1> SUFFICES ASSUME IInv, [Next]_vars PROVE IInv'
    OBVIOUS
<1> USE PeersAssumption DEF IInv, TypeOK, ResponsiveNeverTerminated, AliveOrPinged, ReadyStates
<1>1. CASE HeartbeatTick
    BY <1>1, TickIInv
<1>2. CASE Cleanup
    BY <1>2 DEF Cleanup
<1>3. ASSUME NEW d \in Conns, AddConnection(d) PROVE IInv'
    BY <1>3 DEF AddConnection
<1>4. ASSUME NEW d \in Conns, Pong(d) PROVE IInv'
    BY <1>4 DEF Pong
<1>5. ASSUME NEW d \in Conns, PeerClose(d) PROVE IInv'
    BY <1>5 DEF PeerClose
<1>6. ASSUME NEW d \in Conns, Closed(d) PROVE IInv'
    BY <1>6 DEF Closed
<1>7. CASE UNCHANGED vars
    BY <1>7 DEF vars
<1> QED BY <1>1, <1>2, <1>3, <1>4, <1>5, <1>6, <1>7 DEF Next

-----------------------------------------------------------------------------
(***************************************************************************)
(* For any connections and any split of the peers into responsive, dead   *)
(* and others, the heartbeat callback never terminates the open socket of  *)
(* a responsive peer (ResponsiveNeverTerminated, checked by the heartbeat  *)
(* run on three connections).                                              *)
(***************************************************************************)
THEOREM ResponsiveNeverTerminatedTheorem == Spec => []ResponsiveNeverTerminated
<1>1. IInv => ResponsiveNeverTerminated
    BY DEF IInv
<1> QED BY <1>1, InitIInv, NextIInv, PTL DEF Spec
=============================================================================
