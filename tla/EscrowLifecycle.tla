--------------------------- MODULE EscrowLifecycle ---------------------------
(***************************************************************************)
(* EscrowService (src/unnamed/part_003): createEscrow, processEscrowEvent  *)
(* (the webhook entry point) and the timeoutDetector sweep.                *)
(*                                                                         *)
(* Every await of the code is a step: another handler, or the sweep, may   *)
(* run between them. processEscrowEvent reads the escrow, checks the       *)
(* transition table, updates "where id and status = existing.status",      *)
(* re-reads the escrow and broadcasts ESCROW_UPDATED if the re-read status *)
(* differs from the one it first read. The sweep selects the overdue       *)
(* ACTIVE escrows, bulk-updates those still ACTIVE to EXPIRED, re-reads    *)
(* which of them are EXPIRED and broadcasts one event for each. A query    *)
(* result reaches its handler some time after the database ran it, so a    *)
(* re-read and the broadcast that uses it are two steps. Any query may     *)
(* throw; the handler then stops where it is.                              *)
(*                                                                         *)
(* The expiry time is abstracted to overdue[e]: the clock passes           *)
(* expiresAt once and for all. Amounts, parties and the transaction hash   *)
(* change no control decision and are left out.                            *)
(***************************************************************************)
EXTENDS Integers

CONSTANTS
    Escrows,    \* escrow ids
    Webhooks,   \* concurrent processEscrowEvent handlers
    Sweepers    \* timeoutDetector callbacks (setInterval does not wait for
                \* the previous async callback, so ticks may overlap)

\* An idle handler's record names some escrow.
ASSUME EscrowsAssumption == Escrows # {}

NoEscrow == "NONE"
EscrowStatus == {"PENDING", "ACTIVE", "COMPLETED", "DISPUTED", "EXPIRED"}

\* Mutant: a completed escrow may still be disputed.
AllowedTransitionsReopen ==
    [s \in EscrowStatus |->
        IF s = "PENDING" THEN EscrowStatus
        ELSE IF s = "ACTIVE" THEN {"ACTIVE", "COMPLETED", "DISPUTED", "EXPIRED"}
        ELSE IF s = "DISPUTED" THEN {"DISPUTED", "ACTIVE", "COMPLETED", "EXPIRED"}
        ELSE IF s = "COMPLETED" THEN {"COMPLETED", "DISPUTED"}
        ELSE {s}]

\* ESCROW_ALLOWED_TRANSITIONS
AllowedTransitions ==
    [s \in EscrowStatus |->
        CASE s = "PENDING"   -> EscrowStatus
          [] s = "ACTIVE"    -> {"ACTIVE", "COMPLETED", "DISPUTED", "EXPIRED"}
          [] s = "COMPLETED" -> {"COMPLETED"}
          [] s = "DISPUTED"  -> {"DISPUTED", "ACTIVE", "COMPLETED", "EXPIRED"}
          [] s = "EXPIRED"   -> {"EXPIRED"}]

Terminal == {"COMPLETED", "EXPIRED"}

VARIABLES
    status,          \* status[e]: the committed Escrow.status, or NoEscrow
    overdue,         \* overdue[e]: expiresAt < now
    wh,              \* wh[w]: the state of webhook handler w
    sw,              \* sw[s]: the state of sweep callback s
    lastPublished,   \* lastPublished[e]: the status of the last event for e
    terminalEvents   \* terminalEvents[e]: events announcing a terminal status
                     \* of e, counted up to 2

vars == <<status, overdue, wh, sw, lastPublished, terminalEvents>>

WebhookRecord ==
    [pc : {"idle", "read", "updated", "reread"},
     escrow : Escrows, target : EscrowStatus,
     existing : EscrowStatus, seen : EscrowStatus]

SweepRecord ==
    [pc : {"idle", "found", "updated", "reread"},
     found : SUBSET Escrows, expired : SUBSET Escrows]

\* A handler between requests holds no request data.
IdleWebhook ==
    [pc |-> "idle", escrow |-> CHOOSE e \in Escrows : TRUE,
     target |-> "PENDING", existing |-> "PENDING", seen |-> "PENDING"]

IdleSweep == [pc |-> "idle", found |-> {}, expired |-> {}]

Init ==
    /\ status = [e \in Escrows |-> NoEscrow]
    /\ overdue = [e \in Escrows |-> FALSE]
    /\ wh = [w \in Webhooks |-> IdleWebhook]
    /\ sw = [s \in Sweepers |-> IdleSweep]
    /\ lastPublished = [e \in Escrows |-> NoEscrow]
    /\ terminalEvents = [e \in Escrows |-> 0]

\* The broadcasts of ESCROW_UPDATED(st) for every escrow of the set E.
Publish(E, st) ==
    /\ lastPublished' = [e \in Escrows |-> IF e \in E THEN st ELSE lastPublished[e]]
    /\ terminalEvents' =
         [e \in Escrows |->
            IF e \in E /\ st \in Terminal /\ terminalEvents[e] < 2
            THEN terminalEvents[e] + 1
            ELSE terminalEvents[e]]

-----------------------------------------------------------------------------
(* createEscrow: the escrow is created PENDING with expiresAt in the      *)
(* future, then ESCROW_CREATED is broadcast.                               *)
CreateEscrow(e) ==
    /\ status[e] = NoEscrow
    /\ status' = [status EXCEPT ![e] = "PENDING"]
    /\ lastPublished' = [lastPublished EXCEPT ![e] = "PENDING"]
    /\ UNCHANGED <<overdue, wh, sw, terminalEvents>>

(* The clock passes the expiresAt of an existing escrow.                  *)
Tick(e) ==
    /\ status[e] # NoEscrow
    /\ ~overdue[e]
    /\ overdue' = [overdue EXCEPT ![e] = TRUE]
    /\ UNCHANGED <<status, wh, sw, lastPublished, terminalEvents>>

(* processEscrowEvent: findUnique, then the transition-table check. A     *)
(* missing escrow or an illegal transition ends the request.               *)
ProcessEventRead(w, e, target) ==
    /\ wh[w].pc = "idle"
    /\ status[e] # NoEscrow
    /\ target \in AllowedTransitions[status[e]]
    /\ wh' = [wh EXCEPT ![w] = [pc |-> "read", escrow |-> e, target |-> target,
                                existing |-> status[e], seen |-> status[e]]]
    /\ UNCHANGED <<status, overdue, sw, lastPublished, terminalEvents>>

\* Mutant: the update without "status = existing.status" in its where.
ProcessEventUpdateBlind(w) ==
    LET h == wh[w] IN
    /\ h.pc = "read"
    /\ status' = [status EXCEPT ![h.escrow] = h.target]
    /\ wh' = [wh EXCEPT ![w].pc = "updated"]
    /\ UNCHANGED <<overdue, sw, lastPublished, terminalEvents>>

(* The conditional update "where id and status = existing.status" with    *)
(* count 1.                                                                *)
ProcessEventUpdate(w) ==
    LET h == wh[w] IN
    /\ h.pc = "read"
    /\ status[h.escrow] = h.existing
    /\ status' = [status EXCEPT ![h.escrow] = h.target]
    /\ wh' = [wh EXCEPT ![w].pc = "updated"]
    /\ UNCHANGED <<overdue, sw, lastPublished, terminalEvents>>

(* The update matched no row: "Escrow status changed concurrently".       *)
ProcessEventConflict(w) ==
    LET h == wh[w] IN
    /\ h.pc = "read"
    /\ status[h.escrow] # h.existing
    /\ wh' = [wh EXCEPT ![w] = IdleWebhook]
    /\ UNCHANGED <<status, overdue, sw, lastPublished, terminalEvents>>

(* The re-read findUnique runs at the database.                           *)
ProcessEventReread(w) ==
    LET h == wh[w] IN
    /\ h.pc = "updated"
    /\ wh' = [wh EXCEPT ![w].pc = "reread", ![w].seen = status[h.escrow]]
    /\ UNCHANGED <<status, overdue, sw, lastPublished, terminalEvents>>

(* The re-read result arrives: broadcast if existing.status differs from  *)
(* updated.status.                                                         *)
ProcessEventPublish(w) ==
    LET h == wh[w] IN
    /\ h.pc = "reread"
    /\ IF h.existing # h.seen THEN Publish({h.escrow}, h.seen)
                              ELSE UNCHANGED <<lastPublished, terminalEvents>>
    /\ wh' = [wh EXCEPT ![w] = IdleWebhook]
    /\ UNCHANGED <<status, overdue, sw>>

(* A query of the handler throws (the request fails with an error).       *)
ProcessEventFail(w) ==
    /\ wh[w].pc \in {"read", "updated"}
    /\ wh' = [wh EXCEPT ![w] = IdleWebhook]
    /\ UNCHANGED <<status, overdue, sw, lastPublished, terminalEvents>>

-----------------------------------------------------------------------------
\* The escrows the sweep's findMany selects: ACTIVE with expiresAt < now.
\* Mutant: the date filter written as expiresAt gt now.
OverdueActiveReversed == {e \in Escrows : status[e] = "ACTIVE" /\ ~overdue[e]}

OverdueActive == {e \in Escrows : status[e] = "ACTIVE" /\ overdue[e]}

(* A timer tick: findMany of the overdue ACTIVE escrows; an empty result  *)
(* returns at once.                                                        *)
SweepFind(s) ==
    /\ sw[s].pc = "idle"
    /\ OverdueActive # {}
    /\ sw' = [sw EXCEPT ![s] = [pc |-> "found", found |-> OverdueActive, expired |-> {}]]
    /\ UNCHANGED <<status, overdue, wh, lastPublished, terminalEvents>>

(* updateMany where status ACTIVE and id among those found.               *)
SweepUpdate(s) ==
    /\ sw[s].pc = "found"
    /\ status' = [e \in Escrows |->
                    IF e \in sw[s].found /\ status[e] = "ACTIVE" THEN "EXPIRED"
                    ELSE status[e]]
    /\ sw' = [sw EXCEPT ![s].pc = "updated"]
    /\ UNCHANGED <<overdue, wh, lastPublished, terminalEvents>>

(* findMany of those found that are now EXPIRED.                          *)
SweepReread(s) ==
    /\ sw[s].pc = "updated"
    /\ sw' = [sw EXCEPT ![s].pc = "reread",
                        ![s].expired = {e \in sw[s].found : status[e] = "EXPIRED"}]
    /\ UNCHANGED <<status, overdue, wh, lastPublished, terminalEvents>>

(* The re-read result arrives: one broadcast of EXPIRED per escrow.       *)
SweepPublish(s) ==
    /\ sw[s].pc = "reread"
    /\ Publish(sw[s].expired, "EXPIRED")
    /\ sw' = [sw EXCEPT ![s] = IdleSweep]
    /\ UNCHANGED <<status, overdue, wh>>

(* A query of the tick throws; the catch logs it and the tick ends.       *)
SweepFail(s) ==
    /\ sw[s].pc \in {"found", "updated"}
    /\ sw' = [sw EXCEPT ![s] = IdleSweep]
    /\ UNCHANGED <<status, overdue, wh, lastPublished, terminalEvents>>

-----------------------------------------------------------------------------
Next ==
    \/ \E e \in Escrows : CreateEscrow(e) \/ Tick(e)
    \/ \E w \in Webhooks, e \in Escrows, t \in EscrowStatus : ProcessEventRead(w, e, t)
    \/ \E w \in Webhooks :
          \/ ProcessEventUpdate(w) \/ ProcessEventConflict(w)
          \/ ProcessEventReread(w) \/ ProcessEventPublish(w) \/ ProcessEventFail(w)
    \/ \E s \in Sweepers :
          SweepFind(s) \/ SweepUpdate(s) \/ SweepReread(s) \/ SweepPublish(s) \/ SweepFail(s)

(* The timer fires every 60 s, and a query that fails is not failing      *)
(* forever: each step of a tick that keeps becoming possible is taken.     *)
(* Webhook calls and the clock owe the system nothing.                     *)
SweepFairness ==
    \A s \in Sweepers :
        /\ WF_vars(SweepFind(s))
        /\ SF_vars(SweepUpdate(s)) /\ SF_vars(SweepReread(s)) /\ SF_vars(SweepPublish(s))

Spec == Init /\ [][Next]_vars

FairSpec == Spec /\ SweepFairness

-----------------------------------------------------------------------------
\* The escrow rows, the in-flight handlers and the announcements are typed.
TypeOK ==
    /\ status \in [Escrows -> EscrowStatus \cup {NoEscrow}]
    /\ overdue \in [Escrows -> BOOLEAN]
    /\ wh \in [Webhooks -> WebhookRecord]
    /\ sw \in [Sweepers -> SweepRecord]
    /\ lastPublished \in [Escrows -> EscrowStatus \cup {NoEscrow}]
    /\ terminalEvents \in [Escrows -> 0..2]

\* The Escrow.status column seen through the abstract status machine.
StatusMachine ==
    INSTANCE EscrowStatusMachine WITH Absent <- NoEscrow, Allowed <- AllowedTransitions

(***************************************************************************)
(* The service implements the status machine: escrows are created PENDING *)
(* and every change of a status, by a webhook or by the sweep, is a        *)
(* transition of ESCROW_ALLOWED_TRANSITIONS from the status the row had    *)
(* just before. The conditional updateMany of processEscrowEvent and the   *)
(* status filter of the sweep's updateMany make a decision taken on a      *)
(* stale read fail instead of overwriting a newer status.                  *)
(***************************************************************************)
ImplementsStatusMachine == StatusMachine!Spec

(***************************************************************************)
(* A subscriber told that an escrow is COMPLETED or EXPIRED is never       *)
(* contradicted by the database: the announced terminal status is the      *)
(* escrow's committed status from then on, whatever webhooks and sweeps    *)
(* run afterwards.                                                         *)
(***************************************************************************)
TerminalAnnouncementFinal ==
    \A e \in Escrows :
        lastPublished[e] \in Terminal => status[e] = lastPublished[e]

(***************************************************************************)
(* An ACTIVE escrow whose expiresAt has passed eventually leaves ACTIVE:   *)
(* the timer keeps firing and a failed tick is retried by the next one.    *)
(***************************************************************************)
OverdueEventuallyLeavesActive ==
    \A e \in Escrows :
        (status[e] = "ACTIVE" /\ overdue[e]) ~> (status[e] # "ACTIVE")

(***************************************************************************)
(* The spec: the sweep "emits one status changed event per escrow actually *)
(* flipped", so no escrow is announced terminal twice. The sweep re-reads  *)
(* every escrow it found that is now EXPIRED, including one a webhook      *)
(* expired between its findMany and its updateMany.                        *)
(***************************************************************************)
TerminalAnnouncedOnce ==
    \A e \in Escrows : terminalEvents[e] <= 1

\* No handler and no tick is in flight.
Quiescent ==
    /\ \A w \in Webhooks : wh[w].pc = "idle"
    /\ \A s \in Sweepers : sw[s].pc = "idle"

(***************************************************************************)
(* The spec: a status change is published after commit, and the sweep's   *)
(* next tick retries a failed one. When nothing is in flight, the last     *)
(* event a subscriber received for an escrow names its committed status.   *)
(***************************************************************************)
SubscribersConverge ==
    Quiescent => \A e \in Escrows : lastPublished[e] = status[e]
=============================================================================
