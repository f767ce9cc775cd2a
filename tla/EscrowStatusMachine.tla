------------------------ MODULE EscrowStatusMachine ------------------------
(***************************************************************************)
(* What EscrowService promises about the Escrow.status column, whatever    *)
(* the interleaving of webhook calls and timeout sweeps: an escrow is      *)
(* created PENDING, and afterwards its status changes only along the       *)
(* transition table, one escrow at a time or, for the sweep, a set of      *)
(* ACTIVE escrows expired together by one bulk update.                     *)
(*                                                                         *)
(* The table and the absent-row marker are parameters: EscrowLifecycle     *)
(* instantiates them with ESCROW_ALLOWED_TRANSITIONS and its NoEscrow.     *)
(***************************************************************************)
CONSTANTS
    Escrows,    \* escrow ids
    Absent,     \* the status of an escrow that has no row yet
    Allowed     \* Allowed[s]: the statuses an escrow in status s may take

VARIABLE status

Init == status = [e \in Escrows |-> Absent]

\* A new row, in the creation status.
Create(e) ==
    /\ status[e] = Absent
    /\ status' = [status EXCEPT ![e] = "PENDING"]

\* One escrow moves along the table to a different status.
Move(e, t) ==
    /\ status[e] # Absent
    /\ t \in Allowed[status[e]] \ {status[e]}
    /\ status' = [status EXCEPT ![e] = t]

\* A non-empty set of ACTIVE escrows becomes EXPIRED in one step.
ExpireBatch(E) ==
    /\ E # {}
    /\ \A e \in E : status[e] = "ACTIVE"
    /\ status' = [e \in Escrows |-> IF e \in E THEN "EXPIRED" ELSE status[e]]

Next ==
    \/ \E e \in Escrows : Create(e)
    \/ \E e \in Escrows, t \in DOMAIN Allowed : Move(e, t)
    \/ \E E \in SUBSET Escrows : ExpireBatch(E)

Spec == Init /\ [][Next]_status
=============================================================================
