------------------------ MODULE EscrowLifecycleProofs ------------------------
(***************************************************************************)
(* Proofs about EscrowLifecycle: the model of EscrowService implements the *)
(* abstract status machine EscrowStatusMachine, for any sets of escrows,   *)
(* webhook handlers and sweep callbacks.                                   *)
(*                                                                         *)
(* The inductive invariant adds to TypeOK what a webhook handler carries   *)
(* between its findUnique and its updateMany: the target it validated      *)
(* against the status it read. The conditional update writes that target   *)
(* only while the row still has that status, so the write is a transition *)
(* of the table from the row's current status.                             *)
(***************************************************************************)
EXTENDS EscrowLifecycle, TLAPS

\* What a webhook handler in flight knows: its escrow exists (rows are never
\* deleted), and once it has read the escrow, its target is a transition
\* of the table from the status it read.
WebhookSound(w) ==
    /\ wh[w].pc # "idle" => status[wh[w].escrow] # NoEscrow
    /\ wh[w].pc = "read" => wh[w].target \in AllowedTransitions[wh[w].existing]

IInv ==
    /\ TypeOK
    /\ \A w \in Webhooks : WebhookSound(w)

-----------------------------------------------------------------------------
(* Lemmas on the records of the handlers.                                  *)

\* The idle records are records of their sets.
LEMMA IdleRecords ==
    /\ IdleWebhook \in WebhookRecord /\ IdleWebhook.pc = "idle"
    /\ IdleSweep \in SweepRecord
<1>1. (CHOOSE e \in Escrows : TRUE) \in Escrows
    BY EscrowsAssumption
<1> QED
    BY <1>1 DEF IdleWebhook, WebhookRecord, IdleSweep, SweepRecord, EscrowStatus

\* The table maps every status to a set of statuses.
LEMMA AllowedType ==
    AllowedTransitions \in [EscrowStatus -> SUBSET EscrowStatus]
BY DEF AllowedTransitions, EscrowStatus

\* Moving a webhook handler to another program counter keeps the types, and
\* changes no other handler.
LEMMA WhPcUpdate ==
    ASSUME wh \in [Webhooks -> WebhookRecord], NEW w \in Webhooks,
           NEW p \in {"idle", "read", "updated", "reread"}
    PROVE  /\ [wh EXCEPT ![w].pc = p] \in [Webhooks -> WebhookRecord]
           /\ [wh EXCEPT ![w].pc = p][w].pc = p
           /\ [wh EXCEPT ![w].pc = p][w].escrow = wh[w].escrow
           /\ \A v \in Webhooks : v # w => [wh EXCEPT ![w].pc = p][v] = wh[v]
BY Zenon DEF WebhookRecord

\* The same for the re-read, which also records the status it saw.
LEMMA WhRereadUpdate ==
    ASSUME wh \in [Webhooks -> WebhookRecord], NEW w \in Webhooks,
           NEW st \in EscrowStatus
    PROVE  /\ [wh EXCEPT ![w].pc = "reread", ![w].seen = st]
                \in [Webhooks -> WebhookRecord]
           /\ [wh EXCEPT ![w].pc = "reread", ![w].seen = st][w].pc = "reread"
           /\ [wh EXCEPT ![w].pc = "reread", ![w].seen = st][w].escrow = wh[w].escrow
           /\ \A v \in Webhooks : v # w =>
                [wh EXCEPT ![w].pc = "reread", ![w].seen = st][v] = wh[v]
BY Zenon DEF WebhookRecord

\* A sweep callback moving to another program counter keeps the types.
LEMMA SwPcUpdate ==
    ASSUME sw \in [Sweepers -> SweepRecord], NEW s \in Sweepers,
           NEW p \in {"idle", "found", "updated", "reread"}
    PROVE  [sw EXCEPT ![s].pc = p] \in [Sweepers -> SweepRecord]
BY Zenon DEF SweepRecord

\* The re-read of a sweep records a subset of what it found.
LEMMA SwRereadUpdate ==
    ASSUME sw \in [Sweepers -> SweepRecord], NEW s \in Sweepers,
           NEW X \in SUBSET Escrows
    PROVE  [sw EXCEPT ![s].pc = "reread", ![s].expired = X] \in [Sweepers -> SweepRecord]
BY Zenon DEF SweepRecord

\* Publishing keeps the announcement functions typed.
LEMMA PublishType ==
    ASSUME TypeOK, NEW E \in SUBSET Escrows, NEW st \in EscrowStatus, Publish(E, st)
    PROVE  /\ lastPublished' \in [Escrows -> EscrowStatus \cup {NoEscrow}]
           /\ terminalEvents' \in [Escrows -> 0..2]
<1>1. lastPublished' \in [Escrows -> EscrowStatus \cup {NoEscrow}]
    BY DEF TypeOK, Publish
<1>2. ASSUME NEW e \in Escrows PROVE terminalEvents'[e] \in 0..2
    BY DEF TypeOK, Publish
<1>3. terminalEvents' = [e \in Escrows |-> terminalEvents'[e]]
    BY DEF Publish
<1> QED
    BY <1>1, <1>2, <1>3

-----------------------------------------------------------------------------
(* The inductive invariant.                                                *)

\* The initial state: no escrow, idle handlers, no announcement.
LEMMA InitIInv == Init => IInv
BY IdleRecords DEF Init, IInv, TypeOK, WebhookSound

\* No step deletes an escrow row.
StatusKept == \A e \in Escrows : status[e] # NoEscrow => status'[e] # NoEscrow

\* A step of webhook handler w that changes only its own record, to one
\* that has left "read" and whose escrow exists, keeps every handler sound.
LEMMA WebhookStep ==
    ASSUME IInv, NEW w \in Webhooks, StatusKept, wh'[w].pc # "read",
           wh'[w].pc # "idle" => status'[wh'[w].escrow] # NoEscrow,
           \A v \in Webhooks : v # w => wh'[v] = wh[v]
    PROVE  \A v \in Webhooks : WebhookSound(v)'
<1> SUFFICES ASSUME NEW v \in Webhooks PROVE WebhookSound(v)'
    OBVIOUS
<1>1. CASE v = w
    BY <1>1 DEF WebhookSound
<1>2. CASE v # w
    <2>1. wh[v].escrow \in Escrows
        BY DEF IInv, TypeOK, WebhookRecord
    <2> QED
        BY <1>2, <2>1 DEF IInv, WebhookSound, StatusKept
<1> QED
    BY <1>1, <1>2

\* A step that leaves the webhook handlers alone keeps them sound.
LEMMA OtherStep ==
    ASSUME IInv, StatusKept, UNCHANGED wh
    PROVE  \A v \in Webhooks : WebhookSound(v)'
<1> SUFFICES ASSUME NEW v \in Webhooks PROVE WebhookSound(v)'
    OBVIOUS
<1>1. wh[v].escrow \in Escrows
    BY DEF IInv, TypeOK, WebhookRecord
<1> QED
    BY <1>1 DEF IInv, WebhookSound, StatusKept

\* Every step keeps the invariant.
LEMMA NextIInv == IInv /\ [Next]_vars => IInv'
<1> SUFFICES ASSUME IInv, [Next]_vars PROVE IInv'
    OBVIOUS
<1>0. TypeOK
    BY DEF IInv
<1>1. ASSUME NEW e \in Escrows, CreateEscrow(e) \/ Tick(e)
      PROVE  IInv'
    <2>1. TypeOK' /\ StatusKept /\ UNCHANGED wh
        BY <1>0, <1>1 DEF CreateEscrow, Tick, TypeOK, EscrowStatus, NoEscrow, StatusKept
    <2> QED
        BY <2>1, OtherStep DEF IInv
<1>2. ASSUME NEW w \in Webhooks, NEW e \in Escrows, NEW t \in EscrowStatus,
             ProcessEventRead(w, e, t)
      PROVE  IInv'
    <2>1. /\ wh[w].pc = "idle" /\ status[e] # NoEscrow
          /\ t \in AllowedTransitions[status[e]]
          /\ wh' = [wh EXCEPT ![w] = [pc |-> "read", escrow |-> e, target |-> t,
                                      existing |-> status[e], seen |-> status[e]]]
          /\ UNCHANGED <<status, overdue, sw, lastPublished, terminalEvents>>
        BY <1>2 DEF ProcessEventRead
    <2>2. status[e] \in EscrowStatus
        BY <1>0, <2>1 DEF TypeOK
    <2>3. TypeOK'
        BY <1>0, <2>1, <2>2 DEF TypeOK, WebhookRecord
    <2>4. \A v \in Webhooks : WebhookSound(v)'
        BY <1>0, <2>1, <2>2 DEF IInv, TypeOK, WebhookSound
    <2> QED
        BY <2>3, <2>4 DEF IInv
<1>3. ASSUME NEW w \in Webhooks, ProcessEventUpdate(w)
      PROVE  IInv'
    <2>1. /\ wh[w].pc = "read"
          /\ status[wh[w].escrow] = wh[w].existing
          /\ status' = [status EXCEPT ![wh[w].escrow] = wh[w].target]
          /\ wh' = [wh EXCEPT ![w].pc = "updated"]
          /\ UNCHANGED <<overdue, sw, lastPublished, terminalEvents>>
        BY <1>3, Zenon DEF ProcessEventUpdate
    <2>2. /\ wh' \in [Webhooks -> WebhookRecord]
          /\ wh'[w].pc = "updated"
          /\ wh'[w].escrow = wh[w].escrow
          /\ \A v \in Webhooks : v # w => wh'[v] = wh[v]
        BY <1>0, <2>1, WhPcUpdate DEF TypeOK
    <2>3. wh[w] \in WebhookRecord
        BY <1>0 DEF TypeOK
    <2>4. /\ status' \in [Escrows -> EscrowStatus \cup {NoEscrow}]
          /\ StatusKept
          /\ status'[wh[w].escrow] # NoEscrow
        BY <1>0, <2>1, <2>3 DEF TypeOK, WebhookRecord, StatusKept, EscrowStatus, NoEscrow
    <2>5. TypeOK'
        BY <1>0, <2>1, <2>2, <2>4 DEF TypeOK
    <2> QED
        BY <2>2, <2>4, <2>5, WebhookStep DEF IInv
<1>4. ASSUME NEW w \in Webhooks, ProcessEventConflict(w) \/ ProcessEventFail(w)
      PROVE  IInv'
    <2>1. /\ wh' = [wh EXCEPT ![w] = IdleWebhook]
          /\ UNCHANGED <<status, overdue, sw, lastPublished, terminalEvents>>
        BY <1>4, Zenon DEF ProcessEventConflict, ProcessEventFail
    <2>2. TypeOK' /\ StatusKept
        BY <1>0, <2>1, IdleRecords DEF TypeOK, StatusKept
    <2> QED
        BY <1>0, <2>1, <2>2, IdleRecords, WebhookStep DEF IInv, TypeOK
<1>5. ASSUME NEW w \in Webhooks, ProcessEventReread(w)
      PROVE  IInv'
    <2>1. /\ wh[w].pc = "updated"
          /\ wh' = [wh EXCEPT ![w].pc = "reread", ![w].seen = status[wh[w].escrow]]
          /\ UNCHANGED <<status, overdue, sw, lastPublished, terminalEvents>>
        BY <1>5, Zenon DEF ProcessEventReread
    <2>2. status[wh[w].escrow] \in EscrowStatus
        <3>1. wh[w].escrow \in Escrows
            BY <1>0 DEF TypeOK, WebhookRecord
        <3>2. status[wh[w].escrow] # NoEscrow
            BY <2>1 DEF IInv, WebhookSound
        <3> QED
            BY <1>0, <3>1, <3>2 DEF TypeOK
    <2>3. /\ wh' \in [Webhooks -> WebhookRecord]
          /\ wh'[w].pc = "reread"
          /\ wh'[w].escrow = wh[w].escrow
          /\ \A v \in Webhooks : v # w => wh'[v] = wh[v]
        BY <1>0, <2>1, <2>2, WhRereadUpdate DEF TypeOK
    <2>4. TypeOK' /\ StatusKept
        BY <1>0, <2>1, <2>3 DEF TypeOK, StatusKept
    <2>5. status'[wh'[w].escrow] # NoEscrow
        BY <2>1, <2>2, <2>3 DEF EscrowStatus, NoEscrow
    <2>6. wh'[w].pc # "read"
        BY <2>3
    <2>7. \A v \in Webhooks : WebhookSound(v)'
        BY <2>3, <2>4, <2>5, <2>6, WebhookStep
    <2> QED
        BY <2>4, <2>7 DEF IInv
<1>6. ASSUME NEW w \in Webhooks, ProcessEventPublish(w)
      PROVE  IInv'
    <2>1. /\ wh[w].pc = "reread"
          /\ \/ Publish({wh[w].escrow}, wh[w].seen)
             \/ UNCHANGED <<lastPublished, terminalEvents>>
          /\ wh' = [wh EXCEPT ![w] = IdleWebhook]
          /\ UNCHANGED <<status, overdue, sw>>
        BY <1>6, Zenon DEF ProcessEventPublish
    <2>2. wh[w].escrow \in Escrows /\ wh[w].seen \in EscrowStatus
        BY <1>0 DEF TypeOK, WebhookRecord
    <2>3. /\ lastPublished' \in [Escrows -> EscrowStatus \cup {NoEscrow}]
          /\ terminalEvents' \in [Escrows -> 0..2]
        <3>1. CASE Publish({wh[w].escrow}, wh[w].seen)
            BY <1>0, <2>2, <3>1, PublishType
        <3>2. CASE UNCHANGED <<lastPublished, terminalEvents>>
            BY <1>0, <3>2 DEF TypeOK
        <3> QED
            BY <2>1, <3>1, <3>2
    <2>4. TypeOK' /\ StatusKept
        BY <1>0, <2>1, <2>3, IdleRecords DEF TypeOK, StatusKept
    <2> QED
        BY <1>0, <2>1, <2>4, IdleRecords, WebhookStep DEF IInv, TypeOK
<1>7. ASSUME NEW s \in Sweepers, SweepFind(s)
      PROVE  IInv'
    <2>1. /\ sw' = [sw EXCEPT ![s] = [pc |-> "found", found |-> OverdueActive, expired |-> {}]]
          /\ UNCHANGED <<status, overdue, wh, lastPublished, terminalEvents>>
        BY <1>7 DEF SweepFind
    <2>2. OverdueActive \subseteq Escrows
        BY DEF OverdueActive
    <2>3. TypeOK' /\ StatusKept
        BY <1>0, <2>1, <2>2 DEF TypeOK, SweepRecord, StatusKept
    <2> QED
        BY <2>1, <2>3, OtherStep DEF IInv
<1>8. ASSUME NEW s \in Sweepers, SweepUpdate(s)
      PROVE  IInv'
    <2>1. /\ sw[s].pc = "found"
          /\ status' = [e \in Escrows |->
                          IF e \in sw[s].found /\ status[e] = "ACTIVE" THEN "EXPIRED"
                          ELSE status[e]]
          /\ sw' = [sw EXCEPT ![s].pc = "updated"]
          /\ UNCHANGED <<overdue, wh, lastPublished, terminalEvents>>
        BY <1>8, Zenon DEF SweepUpdate
    <2>2. sw' \in [Sweepers -> SweepRecord]
        BY <1>0, <2>1, SwPcUpdate DEF TypeOK
    <2>3. status' \in [Escrows -> EscrowStatus \cup {NoEscrow}] /\ StatusKept
        BY <1>0, <2>1 DEF TypeOK, EscrowStatus, StatusKept, NoEscrow
    <2>4. TypeOK'
        BY <1>0, <2>1, <2>2, <2>3 DEF TypeOK
    <2> QED
        BY <2>1, <2>3, <2>4, OtherStep DEF IInv
<1>9. ASSUME NEW s \in Sweepers, SweepReread(s)
      PROVE  IInv'
    <2>1. /\ sw' = [sw EXCEPT ![s].pc = "reread",
                              ![s].expired = {e \in sw[s].found : status[e] = "EXPIRED"}]
          /\ UNCHANGED <<status, overdue, wh, lastPublished, terminalEvents>>
        BY <1>9, Zenon DEF SweepReread
    <2>2. {e \in sw[s].found : status[e] = "EXPIRED"} \in SUBSET Escrows
        BY <1>0 DEF TypeOK, SweepRecord
    <2>3. sw' \in [Sweepers -> SweepRecord]
        BY <1>0, <2>1, <2>2, SwRereadUpdate DEF TypeOK
    <2>4. TypeOK' /\ StatusKept
        BY <1>0, <2>1, <2>3 DEF TypeOK, StatusKept
    <2> QED
        BY <2>1, <2>4, OtherStep DEF IInv
<1>10. ASSUME NEW s \in Sweepers, SweepPublish(s) \/ SweepFail(s)
       PROVE  IInv'
    <2>1. /\ sw' = [sw EXCEPT ![s] = IdleSweep]
          /\ \/ Publish(sw[s].expired, "EXPIRED")
             \/ UNCHANGED <<lastPublished, terminalEvents>>
          /\ UNCHANGED <<status, overdue, wh>>
        BY <1>10, Zenon DEF SweepPublish, SweepFail
    <2>2. sw[s].expired \in SUBSET Escrows /\ "EXPIRED" \in EscrowStatus
        BY <1>0 DEF TypeOK, SweepRecord, EscrowStatus
    <2>3. /\ lastPublished' \in [Escrows -> EscrowStatus \cup {NoEscrow}]
          /\ terminalEvents' \in [Escrows -> 0..2]
        <3>1. CASE Publish(sw[s].expired, "EXPIRED")
            BY <1>0, <2>2, <3>1, PublishType
        <3>2. CASE UNCHANGED <<lastPublished, terminalEvents>>
            BY <1>0, <3>2 DEF TypeOK
        <3> QED
            BY <2>1, <3>1, <3>2
    <2>4. TypeOK' /\ StatusKept
        BY <1>0, <2>1, <2>3, IdleRecords DEF TypeOK, StatusKept
    <2> QED
        BY <2>1, <2>4, OtherStep DEF IInv
<1>11. CASE UNCHANGED vars
    BY <1>11, <1>0 DEF vars, IInv, TypeOK, WebhookSound
<1> QED
    BY <1>1, <1>2, <1>3, <1>4, <1>5, <1>6, <1>7, <1>8, <1>9, <1>10, <1>11 DEF Next

-----------------------------------------------------------------------------
(* The refinement.                                                         *)

\* No escrow has a row at the start, in both specifications.
LEMMA InitRefines == Init => StatusMachine!Init
BY DEF Init, StatusMachine!Init

\* Every step of the service is a step of the status machine or leaves
\* the status column alone.
LEMMA NextRefines == IInv /\ [Next]_vars => [StatusMachine!Next]_status
<1> SUFFICES ASSUME IInv, [Next]_vars PROVE [StatusMachine!Next]_status
    OBVIOUS
<1>0. TypeOK
    BY DEF IInv
<1>1. ASSUME NEW e \in Escrows, CreateEscrow(e)
      PROVE  [StatusMachine!Next]_status
    BY <1>1 DEF CreateEscrow, StatusMachine!Next, StatusMachine!Create
<1>2. ASSUME NEW w \in Webhooks, ProcessEventUpdate(w)
      PROVE  [StatusMachine!Next]_status
    <2>1. /\ wh[w].pc = "read"
          /\ status[wh[w].escrow] = wh[w].existing
          /\ status' = [status EXCEPT ![wh[w].escrow] = wh[w].target]
        BY <1>2, Zenon DEF ProcessEventUpdate
    <2>2. /\ wh[w].escrow \in Escrows
          /\ wh[w].existing \in EscrowStatus
          /\ wh[w].target \in AllowedTransitions[wh[w].existing]
        BY <1>0, <2>1 DEF IInv, TypeOK, WebhookRecord, WebhookSound
    <2>3. CASE wh[w].target = wh[w].existing
        <3> status' = status
            BY <1>0, <2>1, <2>2, <2>3 DEF TypeOK
        <3> QED
            OBVIOUS
    <2>4. CASE wh[w].target # wh[w].existing
        <3>1. /\ status[wh[w].escrow] # NoEscrow
              /\ wh[w].target \in AllowedTransitions[status[wh[w].escrow]]
                                    \ {status[wh[w].escrow]}
              /\ wh[w].target \in DOMAIN AllowedTransitions
            BY <2>1, <2>2, <2>4, AllowedType DEF EscrowStatus, NoEscrow
        <3>2. StatusMachine!Move(wh[w].escrow, wh[w].target)
            BY <2>1, <3>1 DEF StatusMachine!Move
        <3> QED
            BY <2>2, <3>1, <3>2 DEF StatusMachine!Next
    <2> QED
        BY <2>3, <2>4
<1>3. ASSUME NEW s \in Sweepers, SweepUpdate(s)
      PROVE  [StatusMachine!Next]_status
    <2> DEFINE E == {e \in sw[s].found : status[e] = "ACTIVE"}
    <2>1. status' = [e \in Escrows |->
                       IF e \in sw[s].found /\ status[e] = "ACTIVE" THEN "EXPIRED"
                       ELSE status[e]]
        BY <1>3, Zenon DEF SweepUpdate
    <2>2. E \in SUBSET Escrows
        BY <1>0 DEF TypeOK, SweepRecord
    <2>3. CASE E = {}
        <3> status' = status
            BY <1>0, <2>1, <2>3 DEF TypeOK
        <3> QED
            OBVIOUS
    <2>4. CASE E # {}
        <3>1. StatusMachine!ExpireBatch(E)
            BY <2>1, <2>2, <2>4 DEF StatusMachine!ExpireBatch
        <3> QED
            BY <2>2, <3>1 DEF StatusMachine!Next
    <2> QED
        BY <2>3, <2>4
<1>4. CASE UNCHANGED status
    BY <1>4
<1> QED
    BY <1>1, <1>2, <1>3, <1>4
       DEF Next, Tick, ProcessEventRead, ProcessEventConflict, ProcessEventReread,
           ProcessEventPublish, ProcessEventFail, SweepFind, SweepReread, SweepPublish,
           SweepFail, vars

(***************************************************************************)
(* Every reachable state of the escrow service has well-typed rows,        *)
(* handlers and announcements.                                             *)
(***************************************************************************)
THEOREM EscrowTypeTheorem == Spec => []TypeOK
<1>1. IInv => TypeOK
    BY DEF IInv
<1> QED
    BY <1>1, InitIInv, NextIInv, PTL DEF Spec

(***************************************************************************)
(* The service implements the status machine (ImplementsStatusMachine):   *)
(* whatever webhooks and overlapping sweeps do, Escrow.status starts       *)
(* PENDING and changes only along ESCROW_ALLOWED_TRANSITIONS or by the     *)
(* sweep's bulk expiry of ACTIVE escrows.                                  *)
(***************************************************************************)
THEOREM ImplementsStatusMachineTheorem == Spec => ImplementsStatusMachine
<1>1. Spec => []IInv
    BY InitIInv, NextIInv, PTL DEF Spec
<1>2. Spec => [][StatusMachine!Next]_status
    BY <1>1, NextRefines, PTL DEF Spec
<1> QED
    BY <1>2, InitRefines, PTL DEF Spec, ImplementsStatusMachine, StatusMachine!Spec

-----------------------------------------------------------------------------
(* Terminal announcements.                                                 *)

(***************************************************************************)
(* A handler about to broadcast a terminal status it re-read, and a sweep  *)
(* about to broadcast EXPIRED for the escrows its re-read returned, hold   *)
(* statuses that are still the committed ones: no transition of the table *)
(* leaves COMPLETED or EXPIRED, and the sweep's update only touches ACTIVE *)
(* rows.                                                                   *)
(***************************************************************************)
WebhookAnnounces(w) ==
    wh[w].pc = "reread" /\ wh[w].seen \in Terminal => status[wh[w].escrow] = wh[w].seen

SweepAnnounces(s) ==
    sw[s].pc = "reread" => \A e \in sw[s].expired : status[e] = "EXPIRED"

TermInv ==
    /\ TerminalAnnouncementFinal
    /\ \A w \in Webhooks : WebhookAnnounces(w)
    /\ \A s \in Sweepers : SweepAnnounces(s)

\* A step keeps every terminal status.
TermKept == \A e \in Escrows : status[e] \in Terminal => status'[e] = status[e]


\* No step moves an escrow out of COMPLETED or EXPIRED.
LEMMA TermKeptStep == IInv /\ [Next]_vars => TermKept
<1> SUFFICES ASSUME IInv, [Next]_vars PROVE TermKept
    OBVIOUS
<1>0. TypeOK
    BY DEF IInv
<1>1. ASSUME NEW e \in Escrows, CreateEscrow(e)
      PROVE  TermKept
    BY <1>0, <1>1 DEF CreateEscrow, TermKept, TypeOK, Terminal, NoEscrow
<1>2. ASSUME NEW w \in Webhooks, ProcessEventUpdate(w)
      PROVE  TermKept
    <2>1. /\ wh[w].pc = "read"
          /\ status[wh[w].escrow] = wh[w].existing
          /\ status' = [status EXCEPT ![wh[w].escrow] = wh[w].target]
        BY <1>2, Zenon DEF ProcessEventUpdate
    <2>2. /\ wh[w].escrow \in Escrows /\ wh[w].existing \in EscrowStatus
          /\ wh[w].target \in AllowedTransitions[wh[w].existing]
        BY <1>0, <2>1 DEF IInv, TypeOK, WebhookRecord, WebhookSound
    <2>3. wh[w].existing \in Terminal => wh[w].target = wh[w].existing
        BY <2>2 DEF AllowedTransitions, Terminal, EscrowStatus
    <2> QED BY <1>0, <2>1, <2>2, <2>3 DEF TermKept, TypeOK
<1>3. ASSUME NEW s \in Sweepers, SweepUpdate(s)
      PROVE  TermKept
    BY <1>3 DEF SweepUpdate, TermKept, Terminal
<1>4. CASE UNCHANGED status
    BY <1>4 DEF TermKept
<1> QED
    BY <1>1, <1>2, <1>3, <1>4
       DEF Next, Tick, ProcessEventRead, ProcessEventConflict, ProcessEventReread,
           ProcessEventPublish, ProcessEventFail, SweepFind, SweepReread, SweepPublish,
           SweepFail, vars

(* A step that keeps terminal statuses keeps TermInv when every terminal  *)
(* status it announces is committed, and every handler it moves to its    *)
(* broadcast re-read a status that is still committed.                    *)
LEMMA TermFrame ==
    ASSUME TypeOK, TermInv, TermKept,
           \A e \in Escrows : lastPublished'[e] \in Terminal =>
               lastPublished'[e] = lastPublished[e] \/ status'[e] = lastPublished'[e],
           \A w \in Webhooks : wh'[w] = wh[w] \/ wh'[w].pc # "reread" \/
               status'[wh'[w].escrow] = wh'[w].seen,
           \A s \in Sweepers : sw'[s] = sw[s] \/ sw'[s].pc # "reread" \/
               \A e \in sw'[s].expired : status'[e] = "EXPIRED"
    PROVE  TermInv'
<1>1. TerminalAnnouncementFinal'
    BY DEF TermInv, TerminalAnnouncementFinal, TermKept
<1>2. ASSUME NEW w \in Webhooks PROVE WebhookAnnounces(w)'
    <2>1. wh[w].escrow \in Escrows
        BY DEF TypeOK, WebhookRecord
    <2>2. CASE wh'[w] = wh[w]
        BY <2>1, <2>2 DEF TermInv, WebhookAnnounces, TermKept
    <2>3. CASE wh'[w] # wh[w]
        BY <2>3 DEF WebhookAnnounces
    <2> QED BY <2>2, <2>3
<1>3. ASSUME NEW s \in Sweepers PROVE SweepAnnounces(s)'
    <2>1. sw[s].expired \subseteq Escrows
        BY DEF TypeOK, SweepRecord
    <2>2. CASE sw'[s] = sw[s]
        BY <2>1, <2>2 DEF TermInv, SweepAnnounces, TermKept, Terminal
    <2>3. CASE sw'[s] # sw[s]
        BY <2>3 DEF SweepAnnounces
    <2> QED BY <2>2, <2>3
<1> QED BY <1>1, <1>2, <1>3 DEF TermInv

\* Every step keeps TermInv.
LEMMA NextTermInv == IInv /\ TermInv /\ [Next]_vars => TermInv'
<1> SUFFICES ASSUME IInv, TermInv, [Next]_vars PROVE TermInv'
    OBVIOUS
<1>0. TypeOK /\ TermKept
    BY TermKeptStep DEF IInv
<1>1. ASSUME NEW e \in Escrows, CreateEscrow(e) \/ Tick(e)
      PROVE  TermInv'
    BY <1>0, <1>1, TermFrame DEF CreateEscrow, Tick, TypeOK, Terminal
<1>2. ASSUME NEW w \in Webhooks, NEW e \in Escrows, NEW t \in EscrowStatus,
             ProcessEventRead(w, e, t)
      PROVE  TermInv'
    <2>1. /\ wh' = [wh EXCEPT ![w] = [pc |-> "read", escrow |-> e, target |-> t,
                                      existing |-> status[e], seen |-> status[e]]]
          /\ UNCHANGED <<status, sw, lastPublished>>
        BY <1>2 DEF ProcessEventRead
    <2> QED BY <1>0, <2>1, TermFrame DEF TypeOK
<1>3. ASSUME NEW w \in Webhooks,
             ProcessEventUpdate(w) \/ ProcessEventConflict(w) \/ ProcessEventFail(w)
      PROVE  TermInv'
    <2>1. /\ wh'[w].pc # "reread"
          /\ \A v \in Webhooks : v # w => wh'[v] = wh[v]
          /\ UNCHANGED <<sw, lastPublished>>
        <3>1. CASE ProcessEventUpdate(w)
            BY <1>0, <3>1, WhPcUpdate, Zenon DEF ProcessEventUpdate, TypeOK
        <3>2. CASE ProcessEventConflict(w) \/ ProcessEventFail(w)
            BY <1>0, <3>2, IdleRecords DEF ProcessEventConflict, ProcessEventFail, TypeOK
        <3> QED BY <1>3, <3>1, <3>2
    <2> QED BY <1>0, <2>1, TermFrame
<1>4. ASSUME NEW w \in Webhooks, ProcessEventReread(w)
      PROVE  TermInv'
    <2>1. /\ wh' = [wh EXCEPT ![w].pc = "reread", ![w].seen = status[wh[w].escrow]]
          /\ UNCHANGED <<status, sw, lastPublished>>
        BY <1>4, Zenon DEF ProcessEventReread
    <2>2. /\ wh'[w].escrow = wh[w].escrow /\ wh'[w].seen = status[wh[w].escrow]
          /\ \A v \in Webhooks : v # w => wh'[v] = wh[v]
        BY <1>0, <2>1 DEF TypeOK, WebhookRecord
    <2> QED BY <1>0, <2>1, <2>2, TermFrame
<1>5. ASSUME NEW w \in Webhooks, ProcessEventPublish(w)
      PROVE  TermInv'
    <2>1. /\ wh[w].pc = "reread"
          /\ \/ Publish({wh[w].escrow}, wh[w].seen)
             \/ UNCHANGED <<lastPublished, terminalEvents>>
          /\ wh' = [wh EXCEPT ![w] = IdleWebhook]
          /\ UNCHANGED <<status, sw>>
        BY <1>5, Zenon DEF ProcessEventPublish
    <2>2. /\ wh'[w].pc # "reread"
          /\ \A v \in Webhooks : v # w => wh'[v] = wh[v]
        BY <1>0, <2>1, IdleRecords DEF TypeOK
    <2>3. \A e \in Escrows : lastPublished'[e] \in Terminal =>
              lastPublished'[e] = lastPublished[e] \/ status'[e] = lastPublished'[e]
        <3>1. wh[w].seen \in Terminal => status[wh[w].escrow] = wh[w].seen
            BY <2>1 DEF TermInv, WebhookAnnounces
        <3> QED BY <2>1, <3>1 DEF Publish
    <2> QED BY <1>0, <2>1, <2>2, <2>3, TermFrame
<1>6. ASSUME NEW s \in Sweepers,
             SweepFind(s) \/ SweepUpdate(s) \/ SweepFail(s)
      PROVE  TermInv'
    <2>1. /\ sw'[s].pc # "reread"
          /\ \A r \in Sweepers : r # s => sw'[r] = sw[r]
          /\ UNCHANGED <<wh, lastPublished>>
        <3>1. CASE SweepFind(s)
            BY <1>0, <3>1 DEF SweepFind, TypeOK
        <3>2. CASE SweepUpdate(s)
            BY <1>0, <3>2 DEF SweepUpdate, TypeOK
        <3>3. CASE SweepFail(s)
            BY <1>0, <3>3 DEF SweepFail, TypeOK, IdleSweep
        <3> QED BY <1>6, <3>1, <3>2, <3>3
    <2> QED BY <1>0, <2>1, TermFrame
<1>7. ASSUME NEW s \in Sweepers, SweepReread(s)
      PROVE  TermInv'
    <2>1. /\ sw' = [sw EXCEPT ![s].pc = "reread",
                              ![s].expired = {e \in sw[s].found : status[e] = "EXPIRED"}]
          /\ UNCHANGED <<status, wh, lastPublished>>
        BY <1>7, Zenon DEF SweepReread
    <2>2. /\ sw'[s].expired = {e \in sw[s].found : status[e] = "EXPIRED"}
          /\ \A r \in Sweepers : r # s => sw'[r] = sw[r]
        BY <1>0, <2>1 DEF TypeOK, SweepRecord
    <2> QED BY <1>0, <2>1, <2>2, TermFrame
<1>8. ASSUME NEW s \in Sweepers, SweepPublish(s)
      PROVE  TermInv'
    <2>1. /\ sw[s].pc = "reread"
          /\ Publish(sw[s].expired, "EXPIRED")
          /\ sw' = [sw EXCEPT ![s] = IdleSweep]
          /\ UNCHANGED <<status, wh>>
        BY <1>8 DEF SweepPublish
    <2>2. /\ sw'[s].pc # "reread"
          /\ \A r \in Sweepers : r # s => sw'[r] = sw[r]
        BY <1>0, <2>1 DEF TypeOK, IdleSweep
    <2>3. \A e \in sw[s].expired : status[e] = "EXPIRED"
        BY <2>1 DEF TermInv, SweepAnnounces
    <2>4. \A e \in Escrows : lastPublished'[e] \in Terminal =>
              lastPublished'[e] = lastPublished[e] \/ status'[e] = lastPublished'[e]
        BY <2>1, <2>3 DEF Publish
    <2> QED BY <1>0, <2>1, <2>2, <2>4, TermFrame
<1>9. CASE UNCHANGED vars
    BY <1>9 DEF vars, TermInv, TerminalAnnouncementFinal, WebhookAnnounces, SweepAnnounces
<1> QED
    BY <1>1, <1>2, <1>3, <1>4, <1>5, <1>6, <1>7, <1>8, <1>9 DEF Next

(***************************************************************************)
(* For any escrows, webhook handlers and overlapping sweeps, a subscriber  *)
(* told that an escrow is COMPLETED or EXPIRED is never contradicted: the  *)
(* last announced terminal status is the committed one from then on         *)
(* (TerminalAnnouncementFinal).                                            *)
(***************************************************************************)
THEOREM TerminalAnnouncementFinalTheorem == Spec => []TerminalAnnouncementFinal
<1>1. Init => TermInv
    BY IdleRecords DEF Init, TermInv, TerminalAnnouncementFinal, WebhookAnnounces,
       SweepAnnounces, Terminal, NoEscrow, IdleSweep
<1>2. IInv /\ TermInv /\ [Next]_vars => IInv' /\ TermInv'
    BY NextIInv, NextTermInv
<1>3. TermInv => TerminalAnnouncementFinal
    BY DEF TermInv
<1> QED
    BY <1>1, <1>2, <1>3, InitIInv, PTL DEF Spec

=============================================================================
