---------------------------- MODULE LoanRepayment ----------------------------
(***************************************************************************)
(* LoanService (src/unnamed/part_002): issueLoan and recordRepayment.      *)
(*                                                                         *)
(* recordRepayment runs in one Serializable transaction: it reads the loan *)
(* with its repayments, validates, inserts the repayment, updates the      *)
(* status, broadcasts LOAN_UPDATED (inside the transaction callback, so    *)
(* before the commit) and commits. Concurrent transactions on the same     *)
(* loan read the repayment set the other inserts, so PostgreSQL's SSI lets *)
(* only the first of them commit; the other fails with a serialization     *)
(* error. A transaction may also abort for other reasons at any point.     *)
(*                                                                         *)
(* Amounts. The Repayment.amount and Loan.amount columns are DECIMAL(20,7) *)
(* and PostgreSQL rounds what it stores to 7 decimals; the request amount  *)
(* is a decimal.js value of any scale. A stored amount is an integer count *)
(* of the column's unit; a request amount counts units Scale times finer.  *)
(* Scale = 1 models clients that send at most 7 decimals.                  *)
(*                                                                         *)
(* The loan parties and the requester are not modelled: the Forbidden and  *)
(* party checks are early returns that change nothing.                     *)
(***************************************************************************)
EXTENDS Integers, DecimalRatio

CONSTANTS
    Loans,          \* loan ids
    Requests,       \* concurrent recordRepayment handlers
    Principals,     \* loan amounts issueLoan is called with (column units)
    Collaterals,    \* collateral amounts issueLoan is called with
    Scale,          \* request-amount units per column unit
    MaxRepayments   \* bound on the repayment rows of one loan

ASSUME LoanConstantsAssumption ==
    /\ Loans # {}
    /\ Principals \subseteq Nat \ {0}
    /\ Collaterals \subseteq Nat \ {0}
    /\ Scale \in Nat \ {0}
    /\ MaxRepayments \in Nat

NoLoan == "NONE"
LoanStatus == {"PENDING", "ACTIVE", "REPAID", "DEFAULTED"}

\* The largest principal, bounding request amounts.
MaxPrincipal == CHOOSE p \in Principals : \A q \in Principals : q <= p

\* Request amounts, in units of 1/Scale of a column unit.
RepayAmounts == 1..(MaxPrincipal * Scale)

VARIABLES
    status,       \* status[l]: the committed Loan.status, or NoLoan
    principal,    \* principal[l]: the committed Loan.amount
    repaid,       \* repaid[l]: the sum of the committed Repayment.amount
    nRepayments,  \* nRepayments[l]: the number of committed Repayment rows
    tx,           \* tx[r]: the state of the handler r
    published,    \* published[l]: the statuses broadcast for loan l
    committed     \* committed[l]: the statuses loan l has ever committed

vars == <<status, principal, repaid, nRepayments, tx, published, committed>>

TxRecord ==
    [pc : {"idle", "read", "written"},
     loan : Loans, amount : Nat \ {0},
     snapStatus : LoanStatus, snapRepaid : Nat, snapCount : Nat,
     next : LoanStatus,
     result : {"none", "ok", "rejected", "aborted"}]

Init ==
    /\ status = [l \in Loans |-> NoLoan]
    /\ principal = [l \in Loans |-> 0]
    /\ repaid = [l \in Loans |-> 0]
    /\ nRepayments = [l \in Loans |-> 0]
    /\ tx = [r \in Requests |->
               [pc |-> "idle", loan |-> CHOOSE l \in Loans : TRUE, amount |-> 1,
                snapStatus |-> "PENDING", snapRepaid |-> 0, snapCount |-> 0,
                next |-> "PENDING", result |-> "none"]]
    /\ published = [l \in Loans |-> {}]
    /\ committed = [l \in Loans |-> {}]

-----------------------------------------------------------------------------
(* issueLoan: the ratio test, then loan.create with status PENDING and    *)
(* broadcastLoanUpdated(PENDING) after the create.                         *)
IssueLoan(l, a, c) ==
    /\ status[l] = NoLoan
    /\ RatioAccepted(a, c)
    /\ status' = [status EXCEPT ![l] = "PENDING"]
    /\ principal' = [principal EXCEPT ![l] = a]
    /\ published' = [published EXCEPT ![l] = @ \cup {"PENDING"}]
    /\ committed' = [committed EXCEPT ![l] = @ \cup {"PENDING"}]
    /\ UNCHANGED <<repaid, nRepayments, tx>>

(* The amount PostgreSQL stores for a request amount x: x / Scale rounded *)
(* half away from zero to the column's unit.                               *)
StoredAmount(x) == (2 * x + Scale) \div (2 * Scale)

\* outstandingBefore = loan.amount - sum(repayments), in column units.
Outstanding(l) == principal[l] - repaid[l]

\* Mutant: the request amount is checked against the principal, not the
\* outstanding balance.
RepaymentAllowedPrincipal(l, x) ==
    /\ status[l] \notin {NoLoan, "DEFAULTED"}
    /\ Outstanding(l) > 0
    /\ ~(x > principal[l] * Scale)

\* The validation of recordRepayment passes on the transaction's snapshot.
RepaymentAllowed(l, x) ==
    /\ status[l] \notin {NoLoan, "DEFAULTED"}
    /\ Outstanding(l) > 0
    /\ ~(x > Outstanding(l) * Scale)

\* Mutant: the PENDING -> ACTIVE branch is tested before the zero balance.
NextStatusPendingFirst(st, after) ==
    IF st = "PENDING" THEN "ACTIVE"
    ELSE IF after = 0 THEN "REPAID"
    ELSE st

\* Mutant: the escrow status name COMPLETED used for a paid-off loan.
NextStatusEscrowName(st, after) ==
    IF after = 0 THEN "COMPLETED"
    ELSE IF st = "PENDING" THEN "ACTIVE"
    ELSE st

\* The status recordRepayment sets, from outstandingAfter (request units).
NextStatus(st, after) ==
    IF after = 0 THEN "REPAID"
    ELSE IF st = "PENDING" THEN "ACTIVE"
    ELSE st

(* recordRepayment, first part: the transaction reads the loan and its    *)
(* repayments and validates the request against that snapshot.            *)
RecordRepaymentBegin(r, l, x) ==
    /\ tx[r].pc = "idle"
    /\ nRepayments[l] < MaxRepayments
    /\ RepaymentAllowed(l, x)
    /\ tx' = [tx EXCEPT ![r] =
                [pc |-> "read", loan |-> l, amount |-> x,
                 snapStatus |-> status[l], snapRepaid |-> repaid[l],
                 snapCount |-> nRepayments[l], next |-> status[l],
                 result |-> "none"]]
    /\ UNCHANGED <<status, principal, repaid, nRepayments, published, committed>>

(* recordRepayment rejects the request with NotFound or ValidationError:  *)
(* the transaction ends without a write.                                   *)
RecordRepaymentReject(r, l, x) ==
    /\ tx[r].pc = "idle"
    /\ ~RepaymentAllowed(l, x)
    /\ tx' = [tx EXCEPT ![r].loan = l, ![r].amount = x, ![r].result = "rejected"]
    /\ UNCHANGED <<status, principal, repaid, nRepayments, published, committed>>

(* recordRepayment, second part: repayment.create, the status update when *)
(* it changes and broadcastLoanUpdated, all inside the open transaction.   *)
RecordRepaymentWrite(r) ==
    LET t == tx[r]
        outAfter == (principal[t.loan] - t.snapRepaid) * Scale - t.amount
        nxt == NextStatus(t.snapStatus, outAfter)
    IN
    /\ t.pc = "read"
    /\ tx' = [tx EXCEPT ![r].pc = "written", ![r].next = nxt]
    /\ published' = IF nxt # t.snapStatus
                    THEN [published EXCEPT ![t.loan] = @ \cup {nxt}]
                    ELSE published
    /\ UNCHANGED <<status, principal, repaid, nRepayments, committed>>

(* Mutant: the transaction runs at READ COMMITTED, so nothing stops two  *)
(* repayments validated against the same balance from both committing.   *)
RecordRepaymentCommitUnchecked(r) ==
    LET t == tx[r] IN
    /\ t.pc = "written"
    /\ repaid' = [repaid EXCEPT ![t.loan] = @ + StoredAmount(t.amount)]
    /\ nRepayments' = [nRepayments EXCEPT ![t.loan] = @ + 1]
    /\ status' = IF t.next # t.snapStatus
                 THEN [status EXCEPT ![t.loan] = t.next] ELSE status
    /\ committed' = [committed EXCEPT ![t.loan] = @ \cup {status'[t.loan]}]
    /\ tx' = [tx EXCEPT ![r].pc = "idle", ![r].result = "ok"]
    /\ UNCHANGED <<principal, published>>

(* The commit succeeds only if no other transaction committed a repayment *)
(* on the loan since the snapshot (SSI: the two read each other's writes). *)
RecordRepaymentCommit(r) ==
    LET t == tx[r] IN
    /\ t.pc = "written"
    /\ nRepayments[t.loan] = t.snapCount
    /\ repaid' = [repaid EXCEPT ![t.loan] = @ + StoredAmount(t.amount)]
    /\ nRepayments' = [nRepayments EXCEPT ![t.loan] = @ + 1]
    /\ status' = IF t.next # t.snapStatus
                 THEN [status EXCEPT ![t.loan] = t.next] ELSE status
    /\ committed' = [committed EXCEPT ![t.loan] = @ \cup {status'[t.loan]}]
    /\ tx' = [tx EXCEPT ![r].pc = "idle", ![r].result = "ok"]
    /\ UNCHANGED <<principal, published>>

(* The transaction rolls back: a serialization failure, or any error      *)
(* before the commit. Nothing it wrote survives; a broadcast already sent  *)
(* stays sent.                                                             *)
RecordRepaymentAbort(r) ==
    /\ tx[r].pc \in {"read", "written"}
    /\ tx' = [tx EXCEPT ![r].pc = "idle", ![r].result = "aborted"]
    /\ UNCHANGED <<status, principal, repaid, nRepayments, published, committed>>

Next ==
    \/ \E l \in Loans, a \in Principals, c \in Collaterals : IssueLoan(l, a, c)
    \/ \E r \in Requests, l \in Loans, x \in RepayAmounts :
          RecordRepaymentBegin(r, l, x) \/ RecordRepaymentReject(r, l, x)
    \/ \E r \in Requests :
          RecordRepaymentWrite(r) \/ RecordRepaymentCommit(r) \/ RecordRepaymentAbort(r)

Spec == Init /\ [][Next]_vars

-----------------------------------------------------------------------------
TypeOK ==
    /\ status \in [Loans -> LoanStatus \cup {NoLoan}]
    /\ principal \in [Loans -> Nat]
    /\ repaid \in [Loans -> Nat]
    /\ nRepayments \in [Loans -> 0..MaxRepayments]
    /\ tx \in [Requests -> TxRecord]
    /\ published \in [Loans -> SUBSET LoanStatus]
    /\ committed \in [Loans -> SUBSET LoanStatus]

(***************************************************************************)
(* No loan is ever repaid beyond its principal: the outstanding balance    *)
(* loan.amount - sum(repayments) that recordRepayment checks against never *)
(* goes negative, however concurrent repayments interleave.                *)
(***************************************************************************)
NeverOverpaid == \A l \in Loans : repaid[l] <= principal[l]

(***************************************************************************)
(* The committed status of a loan agrees with its committed repayments: a  *)
(* PENDING loan has none, an ACTIVE loan is partly repaid, and a loan is   *)
(* REPAID exactly when its repayments sum to its principal.                *)
(***************************************************************************)
StatusMatchesBalance ==
    \A l \in Loans :
        /\ status[l] = "PENDING" => repaid[l] = 0
        /\ status[l] = "ACTIVE" => 0 < repaid[l] /\ repaid[l] < principal[l]
        /\ status[l] = "REPAID" => repaid[l] = principal[l]
        /\ status[l] \in {"PENDING", "ACTIVE"} => repaid[l] < principal[l]

(***************************************************************************)
(* A committed step of recordRepayment never lowers what a loan has been   *)
(* repaid, and a REPAID loan stays REPAID.                                 *)
(***************************************************************************)
RepaymentMonotone ==
    [][\A l \in Loans :
         /\ repaid'[l] >= repaid[l]
         /\ status[l] = "REPAID" => status'[l] = "REPAID"]_vars

(***************************************************************************)
(* Every LOAN_UPDATED status broadcast for a loan is one the loan has      *)
(* committed, or the one an open transaction on the loan has written:      *)
(* subscribers are never told of a status change that was rolled back.    *)
(* The spec requires "publish happens after commit".                       *)
(***************************************************************************)
PublishedCommitted ==
    \A l \in Loans : \A s \in published[l] :
        \/ s \in committed[l]
        \/ \E r \in Requests : tx[r].pc = "written" /\ tx[r].loan = l /\ tx[r].next = s
=============================================================================
