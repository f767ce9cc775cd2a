------------------------- MODULE LoanRepaymentProofs -------------------------
(***************************************************************************)
(* Proofs about LoanRepayment for all values of its constants: no loan is *)
(* repaid beyond its principal, and recordRepayment's committed steps      *)
(* never lower a loan's repaid sum nor reopen a REPAID loan.               *)
(***************************************************************************)
EXTENDS LoanRepayment, TLAPS

\* The handler r has an open transaction.
Open(r) == tx[r].pc \in {"read", "written"}

(***************************************************************************)
(* The inductive invariant. An open transaction whose snapshot is still   *)
(* current (no repayment committed on its loan since it read) saw the      *)
(* loan's present repaid sum and status, and its amount fits in what is    *)
(* outstanding; a snapshot that is no longer current can never commit,     *)
(* since the count of repayments only grows. A REPAID snapshot yields a   *)
(* REPAID next status.                                                     *)
(***************************************************************************)
SnapshotSound(r) ==
    LET t == tx[r] IN
    /\ status[t.loan] # NoLoan
    /\ t.snapCount <= nRepayments[t.loan]
    /\ t.snapCount < MaxRepayments
    /\ t.snapStatus = "REPAID" => t.next = "REPAID"
    /\ t.snapCount = nRepayments[t.loan] =>
          /\ t.snapRepaid = repaid[t.loan]
          /\ t.snapStatus = status[t.loan]
          /\ t.amount <= (principal[t.loan] - repaid[t.loan]) * Scale

IInv ==
    /\ TypeOK
    /\ NeverOverpaid
    /\ \A l \in Loans : status[l] = NoLoan => repaid[l] = 0
    /\ \A r \in Requests : Open(r) => SnapshotSound(r)

-----------------------------------------------------------------------------
\* The stored amount of a request amount that fits in o column units is at
\* most o: rounding to the column's unit never exceeds the balance checked.
LEMMA StoredAmountBound ==
    ASSUME NEW x \in Nat, NEW o \in Int, x <= o * Scale
    PROVE  StoredAmount(x) <= o
BY LoanConstantsAssumption DEF StoredAmount

\* NextStatus yields a loan status, and keeps a REPAID loan REPAID.
LEMMA NextStatusLemma ==
    ASSUME NEW st \in LoanStatus, NEW n \in Int
    PROVE  /\ NextStatus(st, n) \in LoanStatus
           /\ st = "REPAID" => NextStatus(st, n) = "REPAID"
BY DEF NextStatus, LoanStatus

\* A function maps a point of its domain into its codomain.
LEMMA FunApply ==
    ASSUME NEW S, NEW T, NEW f \in [S -> T], NEW x \in S
    PROVE  f[x] \in T
OBVIOUS

\* An update of a handler's pc and result fields keeps the handler's other
\* fields and every other handler.
LEMMA TxFieldUpdate ==
    ASSUME tx \in [Requests -> TxRecord], NEW r \in Requests,
           NEW p \in {"idle", "read", "written"},
           NEW res \in {"none", "ok", "rejected", "aborted"}
    PROVE  /\ [tx EXCEPT ![r].pc = p, ![r].result = res] \in [Requests -> TxRecord]
           /\ [tx EXCEPT ![r].pc = p, ![r].result = res][r].pc = p
           /\ \A q \in Requests : q # r =>
                 [tx EXCEPT ![r].pc = p, ![r].result = res][q] = tx[q]
<1>1. [tx EXCEPT ![r].pc = p, ![r].result = res][r] =
          [pc |-> p, loan |-> tx[r].loan, amount |-> tx[r].amount,
           snapStatus |-> tx[r].snapStatus, snapRepaid |-> tx[r].snapRepaid,
           snapCount |-> tx[r].snapCount, next |-> tx[r].next, result |-> res]
    BY Zenon DEF TxRecord
<1>2. [pc |-> p, loan |-> tx[r].loan, amount |-> tx[r].amount,
       snapStatus |-> tx[r].snapStatus, snapRepaid |-> tx[r].snapRepaid,
       snapCount |-> tx[r].snapCount, next |-> tx[r].next, result |-> res] \in TxRecord
    BY DEF TxRecord
<1> QED BY <1>1, <1>2, Zenon

LEMMA InitIInv == Init => IInv
<1> SUFFICES ASSUME Init PROVE IInv
    OBVIOUS
<1>1. (CHOOSE l \in Loans : TRUE) \in Loans
    BY LoanConstantsAssumption
<1> QED BY <1>1, LoanConstantsAssumption DEF Init, IInv, TypeOK, TxRecord, LoanStatus, NeverOverpaid, Open

(* The commit of a repayment whose snapshot is current adds at most the   *)
(* outstanding balance; every other open transaction on the loan now has a *)
(* stale snapshot. The commit's effects are stated field by field.         *)
LEMMA CommitStep ==
    ASSUME IInv, NEW r \in Requests, NEW l \in Loans,
           tx[r].loan = l, tx[r].pc = "written", nRepayments[l] = tx[r].snapCount,
           repaid' = [repaid EXCEPT ![l] = @ + StoredAmount(tx[r].amount)],
           nRepayments' = [nRepayments EXCEPT ![l] = @ + 1],
           status' = IF tx[r].next # tx[r].snapStatus
                     THEN [status EXCEPT ![l] = tx[r].next] ELSE status,
           committed' = [committed EXCEPT ![l] = @ \cup {status'[l]}],
           tx' \in [Requests -> TxRecord], tx'[r].pc = "idle",
           \A q \in Requests : q # r => tx'[q] = tx[q],
           UNCHANGED <<principal, published>>
    PROVE  IInv'
<1>1. TypeOK /\ tx[r] \in TxRecord
    BY DEF IInv, TypeOK
<1>2. /\ status[l] # NoLoan /\ tx[r].snapCount < MaxRepayments
      /\ repaid[l] = tx[r].snapRepaid /\ status[l] = tx[r].snapStatus
      /\ tx[r].amount <= (principal[l] - repaid[l]) * Scale
    BY DEF IInv, Open, SnapshotSound
<1>3. StoredAmount(tx[r].amount) \in Nat
      /\ StoredAmount(tx[r].amount) <= principal[l] - repaid[l]
    <2>1. tx[r].amount \in Nat
        BY <1>1 DEF TxRecord
    <2>2. principal[l] \in Nat /\ repaid[l] \in Nat
        BY <1>1 DEF TypeOK
    <2>3. StoredAmount(tx[r].amount) <= principal[l] - repaid[l]
        BY <1>2, <2>1, <2>2, StoredAmountBound
    <2>4. StoredAmount(tx[r].amount) \in Nat
        BY <2>1, LoanConstantsAssumption DEF StoredAmount
    <2> QED BY <2>3, <2>4
<1>4. /\ status'[l] \in LoanStatus
      /\ \A k \in Loans : k # l => status'[k] = status[k]
    BY <1>1, <1>2 DEF TypeOK, TxRecord
<1>5. TypeOK'
    <2>1. status' \in [Loans -> LoanStatus \cup {NoLoan}]
        BY <1>1, <1>4 DEF TypeOK
    <2>2. repaid' \in [Loans -> Nat]
        BY <1>1, <1>3 DEF TypeOK
    <2>3. nRepayments' \in [Loans -> 0..MaxRepayments]
        <3>1. nRepayments[l] + 1 \in 0..MaxRepayments
            <4>1. nRepayments[l] \in 0..MaxRepayments
                BY <1>1, FunApply DEF TypeOK
            <4> QED BY <1>2, <4>1, LoanConstantsAssumption
        <3> QED BY <1>1, <3>1 DEF TypeOK
    <2>4. committed' \in [Loans -> SUBSET LoanStatus]
        BY <1>1, <1>4 DEF TypeOK
    <2> QED BY <1>1, <2>1, <2>2, <2>3, <2>4 DEF TypeOK
<1>6. NeverOverpaid'
    BY <1>1, <1>3 DEF IInv, NeverOverpaid, TypeOK
<1>7. \A k \in Loans : status'[k] = NoLoan => repaid'[k] = 0
    BY <1>1, <1>4 DEF IInv, TypeOK, LoanStatus, NoLoan
<1>8. ASSUME NEW q \in Requests, Open(q)'
      PROVE  SnapshotSound(q)'
    <2>1. q # r /\ tx'[q] = tx[q]
        BY <1>8 DEF Open
    <2>2. Open(q) /\ SnapshotSound(q) /\ tx[q].loan \in Loans
        BY <1>1, <1>8, <2>1 DEF Open, IInv, TypeOK, TxRecord
    <2>3. CASE tx[q].loan = l
        <3>1. tx[q].snapCount # nRepayments'[l] /\ tx[q].snapCount <= nRepayments'[l]
            <4>1. tx[q].snapCount <= nRepayments[l]
                BY <2>2, <2>3 DEF SnapshotSound
            <4>2. nRepayments[l] \in 0..MaxRepayments
                BY <1>1, FunApply DEF TypeOK
            <4>3. tx[q] \in TxRecord
                BY <1>1 DEF TypeOK
            <4>4. tx[q].snapCount \in Nat
                BY <4>3 DEF TxRecord
            <4>5. nRepayments'[l] = nRepayments[l] + 1
                BY <1>1 DEF TypeOK
            <4> QED BY <4>1, <4>2, <4>4, <4>5, LoanConstantsAssumption
        <3>2. status'[l] # NoLoan
            BY <1>4 DEF LoanStatus, NoLoan
        <3>4. /\ tx[q].snapCount < MaxRepayments
              /\ tx[q].snapStatus = "REPAID" => tx[q].next = "REPAID"
            BY <2>2 DEF SnapshotSound
        <3>5. /\ status'[tx'[q].loan] # NoLoan
              /\ tx'[q].snapCount <= nRepayments'[tx'[q].loan]
              /\ tx'[q].snapCount < MaxRepayments
              /\ tx'[q].snapStatus = "REPAID" => tx'[q].next = "REPAID"
              /\ tx'[q].snapCount # nRepayments'[tx'[q].loan]
            BY <2>1, <2>3, <3>1, <3>2, <3>4
        <3> QED BY <3>5 DEF SnapshotSound
    <2>4. CASE tx[q].loan # l
        BY <1>1, <1>4, <2>1, <2>2, <2>4 DEF SnapshotSound, TypeOK
    <2> QED BY <2>3, <2>4
<1> QED BY <1>5, <1>6, <1>7, <1>8 DEF IInv

\* The update RecordRepaymentWrite makes to its handler.
LEMMA TxWriteUpdate ==
    ASSUME tx \in [Requests -> TxRecord], NEW r \in Requests, NEW n \in LoanStatus
    PROVE  /\ [tx EXCEPT ![r].pc = "written", ![r].next = n] \in [Requests -> TxRecord]
           /\ [tx EXCEPT ![r].pc = "written", ![r].next = n][r] =
                [pc |-> "written", loan |-> tx[r].loan, amount |-> tx[r].amount,
                 snapStatus |-> tx[r].snapStatus, snapRepaid |-> tx[r].snapRepaid,
                 snapCount |-> tx[r].snapCount, next |-> n, result |-> tx[r].result]
           /\ \A q \in Requests : q # r =>
                 [tx EXCEPT ![r].pc = "written", ![r].next = n][q] = tx[q]
<1>1. [tx EXCEPT ![r].pc = "written", ![r].next = n][r] =
          [pc |-> "written", loan |-> tx[r].loan, amount |-> tx[r].amount,
           snapStatus |-> tx[r].snapStatus, snapRepaid |-> tx[r].snapRepaid,
           snapCount |-> tx[r].snapCount, next |-> n, result |-> tx[r].result]
    BY Zenon DEF TxRecord
<1>2. [pc |-> "written", loan |-> tx[r].loan, amount |-> tx[r].amount,
       snapStatus |-> tx[r].snapStatus, snapRepaid |-> tx[r].snapRepaid,
       snapCount |-> tx[r].snapCount, next |-> n, result |-> tx[r].result] \in TxRecord
    BY DEF TxRecord
<1> QED BY <1>1, <1>2, Zenon

\* The update RecordRepaymentReject makes to its handler.
LEMMA TxRejectUpdate ==
    ASSUME tx \in [Requests -> TxRecord], NEW r \in Requests,
           NEW l \in Loans, NEW x \in Nat, x # 0
    PROVE  /\ [tx EXCEPT ![r].loan = l, ![r].amount = x, ![r].result = "rejected"]
                 \in [Requests -> TxRecord]
           /\ [tx EXCEPT ![r].loan = l, ![r].amount = x, ![r].result = "rejected"][r].pc
                 = tx[r].pc
           /\ \A q \in Requests : q # r =>
                 [tx EXCEPT ![r].loan = l, ![r].amount = x, ![r].result = "rejected"][q] = tx[q]
<1>1. [tx EXCEPT ![r].loan = l, ![r].amount = x, ![r].result = "rejected"][r] =
          [pc |-> tx[r].pc, loan |-> l, amount |-> x,
           snapStatus |-> tx[r].snapStatus, snapRepaid |-> tx[r].snapRepaid,
           snapCount |-> tx[r].snapCount, next |-> tx[r].next, result |-> "rejected"]
    BY Zenon DEF TxRecord
<1>2. [pc |-> tx[r].pc, loan |-> l, amount |-> x,
       snapStatus |-> tx[r].snapStatus, snapRepaid |-> tx[r].snapRepaid,
       snapCount |-> tx[r].snapCount, next |-> tx[r].next, result |-> "rejected"] \in TxRecord
    <2>1. tx[r] \in TxRecord
        BY FunApply
    <2>2. /\ tx[r].pc \in {"idle", "read", "written"}
          /\ tx[r].snapStatus \in LoanStatus /\ tx[r].next \in LoanStatus
          /\ tx[r].snapRepaid \in Nat /\ tx[r].snapCount \in Nat
        BY <2>1 DEF TxRecord
    <2> QED BY <2>2 DEF TxRecord
<1>3. \A q \in Requests : q # r =>
          [tx EXCEPT ![r].loan = l, ![r].amount = x, ![r].result = "rejected"][q] = tx[q]
    BY Zenon
<1>4. [tx EXCEPT ![r].loan = l, ![r].amount = x, ![r].result = "rejected"]
          \in [Requests -> TxRecord]
    <2> DEFINE rec == [pc |-> tx[r].pc, loan |-> l, amount |-> x,
                       snapStatus |-> tx[r].snapStatus, snapRepaid |-> tx[r].snapRepaid,
                       snapCount |-> tx[r].snapCount, next |-> tx[r].next,
                       result |-> "rejected"]
    <2>1. [tx EXCEPT ![r].loan = l, ![r].amount = x, ![r].result = "rejected"]
            = [q \in Requests |-> IF q = r THEN rec ELSE tx[q]]
        BY <1>1, <1>3, Zenon DEF rec
    <2>2. [q \in Requests |-> IF q = r THEN rec ELSE tx[q]] \in [Requests -> TxRecord]
        BY <1>2 DEF rec
    <2> HIDE DEF rec
    <2> QED BY <2>1, <2>2, Zenon
<1>5. [tx EXCEPT ![r].loan = l, ![r].amount = x, ![r].result = "rejected"][r].pc = tx[r].pc
    BY <1>1
<1> QED BY <1>3, <1>4, <1>5

(* A step that leaves the handler r idle and changes no loan row keeps    *)
(* the invariant: RecordRepaymentReject and RecordRepaymentAbort.          *)
LEMMA IdleStep ==
    ASSUME IInv, NEW r \in Requests,
           tx' \in [Requests -> TxRecord], tx'[r].pc = "idle",
           \A q \in Requests : q # r => tx'[q] = tx[q],
           published' \in [Loans -> SUBSET LoanStatus],
           UNCHANGED <<status, principal, repaid, nRepayments, committed>>
    PROVE  IInv'
<1>1. TypeOK'
    BY DEF IInv, TypeOK
<1>2. NeverOverpaid' /\ \A l \in Loans : status'[l] = NoLoan => repaid'[l] = 0
    BY DEF IInv, NeverOverpaid
<1>3. ASSUME NEW q \in Requests, Open(q)'
      PROVE  SnapshotSound(q)'
    <2>1. q # r /\ tx'[q] = tx[q]
        BY <1>3 DEF Open
    <2>2. SnapshotSound(q)
        BY <1>3, <2>1 DEF Open, IInv
    <2> QED BY <2>1, <2>2 DEF SnapshotSound
<1> QED BY <1>1, <1>2, <1>3 DEF IInv

(* RecordRepaymentWrite: the handler keeps its snapshot and records the   *)
(* next status; a REPAID snapshot yields REPAID.                           *)
LEMMA WriteStep ==
    ASSUME IInv, NEW r \in Requests, NEW n \in LoanStatus,
           tx[r].pc = "read", tx[r].snapStatus = "REPAID" => n = "REPAID",
           tx' \in [Requests -> TxRecord],
           tx'[r] = [pc |-> "written", loan |-> tx[r].loan, amount |-> tx[r].amount,
                     snapStatus |-> tx[r].snapStatus, snapRepaid |-> tx[r].snapRepaid,
                     snapCount |-> tx[r].snapCount, next |-> n, result |-> tx[r].result],
           \A q \in Requests : q # r => tx'[q] = tx[q],
           published' \in [Loans -> SUBSET LoanStatus],
           UNCHANGED <<status, principal, repaid, nRepayments, committed>>
    PROVE  IInv'
<1>1. TypeOK'
    BY DEF IInv, TypeOK
<1>2. NeverOverpaid' /\ \A l \in Loans : status'[l] = NoLoan => repaid'[l] = 0
    BY DEF IInv, NeverOverpaid
<1>3. ASSUME NEW q \in Requests, Open(q)'
      PROVE  SnapshotSound(q)'
    <2>1. CASE q = r
        <3>1. SnapshotSound(r)
            BY DEF IInv, Open
        <3> QED BY <2>1, <3>1 DEF SnapshotSound
    <2>2. CASE q # r
        <3>1. tx'[q] = tx[q] /\ SnapshotSound(q)
            BY <1>3, <2>2 DEF Open, IInv
        <3> QED BY <3>1 DEF SnapshotSound
    <2> QED BY <2>1, <2>2
<1> QED BY <1>1, <1>2, <1>3 DEF IInv

(* RecordRepaymentBegin: the handler opens a transaction whose snapshot   *)
(* is the loan's present state, with an amount that fits in the balance.  *)
LEMMA BeginStep ==
    ASSUME IInv, NEW r \in Requests, NEW l \in Loans, NEW x \in Nat,
           x # 0, tx[r].pc = "idle", nRepayments[l] < MaxRepayments,
           status[l] \notin {NoLoan, "DEFAULTED"},
           x <= (principal[l] - repaid[l]) * Scale,
           tx' = [tx EXCEPT ![r] =
                    [pc |-> "read", loan |-> l, amount |-> x,
                     snapStatus |-> status[l], snapRepaid |-> repaid[l],
                     snapCount |-> nRepayments[l], next |-> status[l],
                     result |-> "none"]],
           UNCHANGED <<status, principal, repaid, nRepayments, published, committed>>
    PROVE  IInv'
<1>1. TypeOK
    BY DEF IInv
<1>2. status[l] \in LoanStatus /\ repaid[l] \in Nat /\ nRepayments[l] \in Nat
    <2>1. status[l] \in LoanStatus \cup {NoLoan} /\ repaid[l] \in Nat
        BY <1>1, FunApply DEF TypeOK
    <2>2. nRepayments[l] \in 0..MaxRepayments
        BY <1>1, FunApply DEF TypeOK
    <2> QED BY <2>1, <2>2, LoanConstantsAssumption
<1>3. tx'[r] \in TxRecord
    BY <1>1, <1>2 DEF TypeOK, TxRecord
<1>4. TypeOK'
    BY <1>1, <1>3 DEF TypeOK
<1>5. NeverOverpaid' /\ \A k \in Loans : status'[k] = NoLoan => repaid'[k] = 0
    BY DEF IInv, NeverOverpaid
<1>6. SnapshotSound(r)'
    BY <1>1, <1>2 DEF SnapshotSound, TypeOK, LoanStatus
<1>7. ASSUME NEW q \in Requests, Open(q)', q # r
      PROVE  SnapshotSound(q)'
    <2>1. tx'[q] = tx[q]
        BY <1>1, <1>7 DEF TypeOK
    <2>2. SnapshotSound(q)
        BY <1>7, <2>1 DEF Open, IInv
    <2> QED BY <2>1, <2>2 DEF SnapshotSound
<1> QED BY <1>4, <1>5, <1>6, <1>7 DEF IInv

(* IssueLoan creates a PENDING loan with its principal; no open           *)
(* transaction is on a loan that did not exist.                           *)
LEMMA IssueStep ==
    ASSUME IInv, NEW l \in Loans, NEW a \in Nat, status[l] = NoLoan,
           status' = [status EXCEPT ![l] = "PENDING"],
           principal' = [principal EXCEPT ![l] = a],
           published' = [published EXCEPT ![l] = @ \cup {"PENDING"}],
           committed' = [committed EXCEPT ![l] = @ \cup {"PENDING"}],
           UNCHANGED <<repaid, nRepayments, tx>>
    PROVE  IInv'
<1>1. TypeOK
    BY DEF IInv
<1>2. TypeOK'
    BY <1>1 DEF TypeOK, LoanStatus
<1>3. repaid[l] = 0
    BY DEF IInv
<1>4. NeverOverpaid'
    BY <1>1, <1>3 DEF IInv, NeverOverpaid, TypeOK
<1>5. \A k \in Loans : status'[k] = NoLoan => repaid'[k] = 0
    BY <1>1 DEF IInv, TypeOK, NoLoan
<1>6. ASSUME NEW q \in Requests, Open(q)'
      PROVE  SnapshotSound(q)'
    <2>1. SnapshotSound(q)
        BY <1>6 DEF Open, IInv
    <2>2. tx[q].loan # l
        BY <2>1 DEF SnapshotSound
    <2>3. tx[q].loan \in Loans
        BY <1>1 DEF TypeOK, TxRecord
    <2> QED BY <1>1, <2>1, <2>2, <2>3 DEF SnapshotSound, TypeOK, NoLoan
<1> QED BY <1>2, <1>4, <1>5, <1>6 DEF IInv

LEMMA NextIInv == IInv /\ [Next]_vars => IInv'
<1> SUFFICES ASSUME IInv, [Next]_vars PROVE IInv'
    OBVIOUS
<1>0. TypeOK
    BY DEF IInv
<1>1. ASSUME NEW l \in Loans, NEW a \in Principals, NEW c \in Collaterals,
             IssueLoan(l, a, c)
      PROVE  IInv'
    <2>1. a \in Nat
        BY LoanConstantsAssumption
    <2> QED BY <1>1, <2>1, IssueStep DEF IssueLoan
<1>2. ASSUME NEW r \in Requests, NEW l \in Loans, NEW x \in RepayAmounts,
             RecordRepaymentBegin(r, l, x)
      PROVE  IInv'
    <2>1. x \in Nat /\ x # 0
        BY DEF RepayAmounts
    <2>2. principal[l] \in Nat /\ repaid[l] \in Nat
        BY <1>0, FunApply DEF TypeOK
    <2>3. x <= (principal[l] - repaid[l]) * Scale
        BY <1>2, <2>1, <2>2, LoanConstantsAssumption
           DEF RecordRepaymentBegin, RepaymentAllowed, Outstanding
    <2> QED BY <1>2, <2>1, <2>3, BeginStep DEF RecordRepaymentBegin, RepaymentAllowed
<1>3. ASSUME NEW r \in Requests, NEW l \in Loans, NEW x \in RepayAmounts,
             RecordRepaymentReject(r, l, x)
      PROVE  IInv'
    <2>1. x \in Nat /\ x # 0
        BY DEF RepayAmounts
    <2>2. /\ tx[r].pc = "idle"
          /\ tx' = [tx EXCEPT ![r].loan = l, ![r].amount = x, ![r].result = "rejected"]
          /\ UNCHANGED <<status, principal, repaid, nRepayments, published, committed>>
        BY <1>3, Zenon DEF RecordRepaymentReject
    <2>3. /\ tx' \in [Requests -> TxRecord]
          /\ tx'[r].pc = "idle"
          /\ \A q \in Requests : q # r => tx'[q] = tx[q]
        <3>1. tx \in [Requests -> TxRecord]
            BY <1>0 DEF TypeOK
        <3>2. /\ [tx EXCEPT ![r].loan = l, ![r].amount = x, ![r].result = "rejected"] \in [Requests -> TxRecord]
              /\ [tx EXCEPT ![r].loan = l, ![r].amount = x, ![r].result = "rejected"][r].pc = tx[r].pc
              /\ \A q \in Requests : q # r => [tx EXCEPT ![r].loan = l, ![r].amount = x, ![r].result = "rejected"][q] = tx[q]
            BY <3>1, <2>1, TxRejectUpdate, ZenonT(60)
        <3> QED BY <2>2, <3>2, Zenon
    <2>4. published' \in [Loans -> SUBSET LoanStatus]
        BY <1>0, <2>2 DEF TypeOK
    <2> QED BY <2>2, <2>3, <2>4, IdleStep
<1>4. ASSUME NEW r \in Requests, RecordRepaymentWrite(r)
      PROVE  IInv'
    <2> DEFINE n == NextStatus(tx[r].snapStatus,
                               (principal[tx[r].loan] - tx[r].snapRepaid) * Scale - tx[r].amount)
    <2>1. /\ tx[r].pc = "read"
          /\ tx' = [tx EXCEPT ![r].pc = "written", ![r].next = n]
          /\ published' = IF n # tx[r].snapStatus
                          THEN [published EXCEPT ![tx[r].loan] = @ \cup {n}]
                          ELSE published
          /\ UNCHANGED <<status, principal, repaid, nRepayments, committed>>
        BY <1>4, Zenon DEF RecordRepaymentWrite, n
    <2>2. tx[r] \in TxRecord
        BY <1>0, FunApply DEF TypeOK
    <2>3. /\ tx[r].snapStatus \in LoanStatus /\ tx[r].loan \in Loans
          /\ tx[r].snapRepaid \in Nat /\ tx[r].amount \in Nat
        BY <2>2 DEF TxRecord
    <2>4. principal[tx[r].loan] \in Nat
        BY <1>0, <2>3, FunApply DEF TypeOK
    <2>5. n \in LoanStatus /\ (tx[r].snapStatus = "REPAID" => n = "REPAID")
        <3>1. (principal[tx[r].loan] - tx[r].snapRepaid) * Scale - tx[r].amount \in Int
            BY <2>3, <2>4, LoanConstantsAssumption
        <3> QED BY <2>3, <3>1, NextStatusLemma DEF n
    <2>6. /\ tx' \in [Requests -> TxRecord]
          /\ tx'[r] = [pc |-> "written", loan |-> tx[r].loan, amount |-> tx[r].amount,
                       snapStatus |-> tx[r].snapStatus, snapRepaid |-> tx[r].snapRepaid,
                       snapCount |-> tx[r].snapCount, next |-> n, result |-> tx[r].result]
          /\ \A q \in Requests : q # r => tx'[q] = tx[q]
        <3>1. tx \in [Requests -> TxRecord]
            BY <1>0 DEF TypeOK
        <3>2. /\ [tx EXCEPT ![r].pc = "written", ![r].next = n] \in [Requests -> TxRecord]
              /\ [tx EXCEPT ![r].pc = "written", ![r].next = n][r] =
                   [pc |-> "written", loan |-> tx[r].loan, amount |-> tx[r].amount,
                    snapStatus |-> tx[r].snapStatus, snapRepaid |-> tx[r].snapRepaid,
                    snapCount |-> tx[r].snapCount, next |-> n, result |-> tx[r].result]
              /\ \A q \in Requests : q # r => [tx EXCEPT ![r].pc = "written", ![r].next = n][q] = tx[q]
            BY <2>5, <3>1, TxWriteUpdate, ZenonT(60) DEF n
        <3> QED BY <2>1, <3>2, Zenon
    <2>7. published' \in [Loans -> SUBSET LoanStatus]
        BY <1>0, <2>1, <2>3, <2>5 DEF TypeOK
    <2> QED BY <2>1, <2>5, <2>6, <2>7, WriteStep
<1>5. ASSUME NEW r \in Requests, RecordRepaymentCommit(r)
      PROVE  IInv'
    <2>1. /\ tx[r].pc = "written"
          /\ nRepayments[tx[r].loan] = tx[r].snapCount
          /\ repaid' = [repaid EXCEPT ![tx[r].loan] = @ + StoredAmount(tx[r].amount)]
          /\ nRepayments' = [nRepayments EXCEPT ![tx[r].loan] = @ + 1]
          /\ status' = IF tx[r].next # tx[r].snapStatus
                       THEN [status EXCEPT ![tx[r].loan] = tx[r].next] ELSE status
          /\ committed' = [committed EXCEPT ![tx[r].loan] = @ \cup {status'[tx[r].loan]}]
          /\ tx' = [tx EXCEPT ![r].pc = "idle", ![r].result = "ok"]
          /\ UNCHANGED <<principal, published>>
        BY <1>5, Zenon DEF RecordRepaymentCommit
    <2>2. tx[r].loan \in Loans
        BY <1>0, FunApply DEF TypeOK, TxRecord
    <2>3. /\ tx' \in [Requests -> TxRecord]
          /\ tx'[r].pc = "idle"
          /\ \A q \in Requests : q # r => tx'[q] = tx[q]
        <3>1. tx \in [Requests -> TxRecord]
            BY <1>0 DEF TypeOK
        <3>2. /\ [tx EXCEPT ![r].pc = "idle", ![r].result = "ok"] \in [Requests -> TxRecord]
              /\ [tx EXCEPT ![r].pc = "idle", ![r].result = "ok"][r].pc = "idle"
              /\ \A q \in Requests : q # r => [tx EXCEPT ![r].pc = "idle", ![r].result = "ok"][q] = tx[q]
            BY <3>1, TxFieldUpdate
        <3> QED BY <2>1, <3>2, Zenon
    <2> QED BY <2>1, <2>2, <2>3, CommitStep
<1>6. ASSUME NEW r \in Requests, RecordRepaymentAbort(r)
      PROVE  IInv'
    <2>1. /\ tx' = [tx EXCEPT ![r].pc = "idle", ![r].result = "aborted"]
          /\ UNCHANGED <<status, principal, repaid, nRepayments, published, committed>>
        BY <1>6, Zenon DEF RecordRepaymentAbort
    <2>2. /\ tx' \in [Requests -> TxRecord]
          /\ tx'[r].pc = "idle"
          /\ \A q \in Requests : q # r => tx'[q] = tx[q]
        <3>1. tx \in [Requests -> TxRecord]
            BY <1>0 DEF TypeOK
        <3>2. /\ [tx EXCEPT ![r].pc = "idle", ![r].result = "aborted"] \in [Requests -> TxRecord]
              /\ [tx EXCEPT ![r].pc = "idle", ![r].result = "aborted"][r].pc = "idle"
              /\ \A q \in Requests : q # r => [tx EXCEPT ![r].pc = "idle", ![r].result = "aborted"][q] = tx[q]
            BY <3>1, TxFieldUpdate
        <3> QED BY <2>1, <3>2, Zenon
    <2>3. published' \in [Loans -> SUBSET LoanStatus]
        BY <1>0, <2>1 DEF TypeOK
    <2> QED BY <2>1, <2>2, <2>3, IdleStep
<1>7. CASE UNCHANGED vars
    BY <1>7 DEF IInv, TypeOK, NeverOverpaid, Open, SnapshotSound, vars
<1> QED BY <1>1, <1>2, <1>3, <1>4, <1>5, <1>6, <1>7 DEF Next

\* The step relation of RepaymentMonotone.
MonotoneStep ==
    \A l \in Loans :
        /\ repaid'[l] >= repaid[l]
        /\ status[l] = "REPAID" => status'[l] = "REPAID"

(* Only a commit changes a repaid sum or a status of an existing loan; it *)
(* adds a stored amount, and it changes the status only of a loan whose   *)
(* status its current snapshot saw, which is never REPAID when the next   *)
(* status differs.                                                         *)
LEMMA NextMonotone == IInv /\ [Next]_vars => [MonotoneStep]_vars
<1> SUFFICES ASSUME IInv, [Next]_vars PROVE [MonotoneStep]_vars
    OBVIOUS
<1>0. TypeOK
    BY DEF IInv
<1>1. ASSUME UNCHANGED <<status, repaid>>
      PROVE  MonotoneStep
    <2>1. repaid \in [Loans -> Nat]
        BY <1>0 DEF TypeOK
    <2> QED BY <1>1, <2>1 DEF MonotoneStep
<1>2. ASSUME NEW r \in Requests, RecordRepaymentCommit(r)
      PROVE  MonotoneStep
    <2>1. /\ tx[r].pc = "written"
          /\ nRepayments[tx[r].loan] = tx[r].snapCount
          /\ repaid' = [repaid EXCEPT ![tx[r].loan] = @ + StoredAmount(tx[r].amount)]
          /\ status' = IF tx[r].next # tx[r].snapStatus
                       THEN [status EXCEPT ![tx[r].loan] = tx[r].next] ELSE status
        BY <1>2, Zenon DEF RecordRepaymentCommit
    <2>2. /\ tx[r].loan \in Loans /\ tx[r].amount \in Nat
          /\ tx[r].snapStatus = "REPAID" => tx[r].next = "REPAID"
          /\ status[tx[r].loan] = tx[r].snapStatus
        <3>1. tx[r] \in TxRecord
            BY <1>0, FunApply DEF TypeOK
        <3>2. SnapshotSound(r)
            BY <2>1 DEF IInv, Open
        <3> QED BY <2>1, <3>1, <3>2 DEF TxRecord, SnapshotSound
    <2>3. StoredAmount(tx[r].amount) \in Nat
        BY <2>2, LoanConstantsAssumption DEF StoredAmount
    <2>4. repaid \in [Loans -> Nat] /\ status \in [Loans -> LoanStatus \cup {NoLoan}]
        BY <1>0 DEF TypeOK
    <2> QED BY <2>1, <2>2, <2>3, <2>4 DEF MonotoneStep
<1>3. ASSUME NEW l \in Loans, NEW a \in Principals, NEW c \in Collaterals,
             IssueLoan(l, a, c)
      PROVE  MonotoneStep
    <2>1. repaid \in [Loans -> Nat] /\ status \in [Loans -> LoanStatus \cup {NoLoan}]
        BY <1>0 DEF TypeOK
    <2> QED BY <1>3, <2>1 DEF IssueLoan, MonotoneStep, NoLoan
<1>4. ASSUME NEW r \in Requests, NEW l \in Loans, NEW x \in RepayAmounts,
             RecordRepaymentBegin(r, l, x) \/ RecordRepaymentReject(r, l, x)
      PROVE  UNCHANGED <<status, repaid>>
    BY <1>4, Zenon DEF RecordRepaymentBegin, RecordRepaymentReject
<1>5. ASSUME NEW r \in Requests, RecordRepaymentWrite(r) \/ RecordRepaymentAbort(r)
      PROVE  UNCHANGED <<status, repaid>>
    BY <1>5, Zenon DEF RecordRepaymentWrite, RecordRepaymentAbort
<1>6. CASE UNCHANGED vars
    BY <1>6 DEF vars
<1> QED BY <1>1, <1>2, <1>3, <1>4, <1>5, <1>6 DEF Next

-----------------------------------------------------------------------------
(***************************************************************************)
(* For every set of loans, handlers, principals, collaterals, scale and   *)
(* bound, no interleaving of issueLoan and recordRepayment transactions    *)
(* (with PostgreSQL's serializable commits and aborts anywhere) repays a  *)
(* loan beyond its principal, and the state stays well typed.              *)
(***************************************************************************)
THEOREM NeverOverpaidTheorem == Spec => [](TypeOK /\ NeverOverpaid)
<1>1. IInv => TypeOK /\ NeverOverpaid
    BY DEF IInv
<1> QED BY <1>1, InitIInv, NextIInv, PTL DEF Spec

(***************************************************************************)
(* For every value of the constants, every state the transactions of      *)
(* issueLoan and recordRepayment reach is well typed: the TypeOK the loan  *)
(* run checks, the first half of NeverOverpaidTheorem.                     *)
(***************************************************************************)
THEOREM LoanTypeTheorem == Spec => []TypeOK
BY NeverOverpaidTheorem, PTL

(***************************************************************************)
(* For every value of the constants, no step of the system lowers what a  *)
(* loan has been repaid or moves a REPAID loan out of REPAID: the          *)
(* RepaymentMonotone property of recordRepayment.                          *)
(***************************************************************************)
THEOREM RepaymentMonotoneTheorem == Spec => RepaymentMonotone
<1>1. Spec => []IInv
    BY InitIInv, NextIInv, PTL DEF Spec
<1>2. Spec => [][Next]_vars
    BY DEF Spec
<1>3. IInv /\ [Next]_vars => [MonotoneStep]_vars
    BY NextMonotone
<1>4. [][MonotoneStep]_vars => RepaymentMonotone
    BY DEF RepaymentMonotone, MonotoneStep
<1> QED BY <1>1, <1>2, <1>3, <1>4, PTL

-----------------------------------------------------------------------------
(***************************************************************************)
(* The status invariant. A handler's snapshot of a loan it may repay is   *)
(* PENDING or ACTIVE (a REPAID loan has nothing outstanding, and no code   *)
(* path sets DEFAULTED), and a written handler's next status is the one    *)
(* recordRepayment computed from its snapshot: the loan's principal does   *)
(* not change while a handler holds it.                                    *)
(***************************************************************************)
WrittenNext(r) ==
    tx[r].next = NextStatus(tx[r].snapStatus,
                            (principal[tx[r].loan] - tx[r].snapRepaid) * Scale - tx[r].amount)

StatusInv ==
    /\ StatusMatchesBalance
    /\ \A r \in Requests :
          /\ Open(r) => tx[r].snapStatus \in {"PENDING", "ACTIVE"}
          /\ tx[r].pc = "written" => WrittenNext(r)


\* With amounts of at most seven decimals the column stores them exactly.
LEMMA StoredExact ==
    ASSUME Scale = 1, NEW x \in Nat
    PROVE  StoredAmount(x) = x
BY DEF StoredAmount

(* A step that leaves every loan row alone and each handler either as it  *)
(* was or idle keeps StatusInv: RecordRepaymentReject and -Abort.         *)
LEMMA StatusIdleStep ==
    ASSUME StatusInv, NEW r \in Requests, tx'[r].pc = "idle",
           \A q \in Requests : q # r => tx'[q] = tx[q],
           UNCHANGED <<status, principal, repaid>>
    PROVE  StatusInv'
<1>1. StatusMatchesBalance'
    BY DEF StatusInv, StatusMatchesBalance
<1>2. ASSUME NEW q \in Requests, q # r
      PROVE  /\ Open(q)' => tx'[q].snapStatus \in {"PENDING", "ACTIVE"}
             /\ tx'[q].pc = "written" => WrittenNext(q)'
    BY <1>2 DEF StatusInv, Open, WrittenNext
<1>3. ~Open(r)' /\ tx'[r].pc # "written"
    BY DEF Open
<1> QED BY <1>1, <1>2, <1>3 DEF StatusInv

(* The commit of a current snapshot: the status it writes is the one      *)
(* NextStatus computed from the balance it leaves.                         *)
LEMMA StatusCommitStep ==
    ASSUME Scale = 1, IInv, StatusInv, NEW r \in Requests, RecordRepaymentCommit(r)
    PROVE  StatusInv'
<1> DEFINE t == tx[r]
           l == t.loan
           after == principal[l] - repaid[l] - t.amount
<1>0. TypeOK
    BY DEF IInv
<1>1. /\ t.pc = "written"
      /\ nRepayments[l] = t.snapCount
      /\ repaid' = [repaid EXCEPT ![l] = @ + StoredAmount(t.amount)]
      /\ status' = IF t.next # t.snapStatus
                   THEN [status EXCEPT ![l] = t.next] ELSE status
      /\ tx' = [tx EXCEPT ![r].pc = "idle", ![r].result = "ok"]
      /\ principal' = principal
    BY Zenon DEF RecordRepaymentCommit
<1>2. /\ l \in Loans /\ t.amount \in Nat /\ t.amount # 0
      /\ repaid[l] \in Nat /\ principal[l] \in Nat
      /\ status \in [Loans -> LoanStatus \cup {NoLoan}] /\ repaid \in [Loans -> Nat]
    <2>1. t \in TxRecord
        BY <1>0, FunApply DEF TypeOK
    <2> QED BY <1>0, <2>1 DEF TypeOK, TxRecord
<1>3. /\ t.snapRepaid = repaid[l] /\ t.snapStatus = status[l]
      /\ t.amount <= principal[l] - repaid[l]
    <2>1. SnapshotSound(r)
        BY <1>1 DEF IInv, Open
    <2> QED BY <1>1, <1>2, <2>1 DEF SnapshotSound
<1>4. /\ status[l] \in {"PENDING", "ACTIVE"}
      /\ t.next = NextStatus(status[l], after)
    <2>1. t.snapStatus \in {"PENDING", "ACTIVE"} /\ WrittenNext(r)
        BY <1>1 DEF StatusInv, Open
    <2>2. (principal[l] - t.snapRepaid) * Scale - t.amount = after
        BY <1>2, <1>3
    <2> QED BY <1>3, <2>1, <2>2 DEF WrittenNext
<1>5. repaid'[l] = repaid[l] + t.amount
    BY <1>1, <1>2, StoredExact
<1>6. /\ status'[l] \in LoanStatus
      /\ status'[l] = "REPAID" => repaid'[l] = principal'[l]
      /\ status'[l] = "PENDING" => repaid'[l] = 0
      /\ status'[l] = "ACTIVE" => 0 < repaid'[l] /\ repaid'[l] < principal'[l]
      /\ status'[l] \in {"PENDING", "ACTIVE"} => repaid'[l] < principal'[l]
    <2>1. CASE after = 0
        <3>1. t.next = "REPAID" /\ status'[l] = "REPAID"
            BY <1>1, <1>2, <1>3, <1>4, <2>1 DEF NextStatus
        <3> QED BY <1>1, <1>5, <2>1, <3>1, <1>2 DEF LoanStatus
    <2>2. CASE after # 0 /\ status[l] = "PENDING"
        <3>1. t.next = "ACTIVE" /\ status'[l] = "ACTIVE"
            BY <1>1, <1>2, <1>3, <1>4, <2>2 DEF NextStatus
        <3> QED BY <1>1, <1>2, <1>3, <1>5, <2>2, <3>1 DEF LoanStatus
    <2>3. CASE after # 0 /\ status[l] = "ACTIVE"
        <3>1. status'[l] = "ACTIVE"
            BY <1>1, <1>2, <1>3, <1>4, <2>3 DEF NextStatus
        <3> QED BY <1>1, <1>2, <1>3, <1>5, <2>3, <3>1 DEF LoanStatus
    <2> QED BY <1>4, <2>1, <2>2, <2>3
<1>7. \A m \in Loans \ {l} : status'[m] = status[m] /\ repaid'[m] = repaid[m]
    BY <1>1, <1>2
<1>8. StatusMatchesBalance'
    <2> SUFFICES ASSUME NEW m \in Loans
                 PROVE  /\ status'[m] = "PENDING" => repaid'[m] = 0
                        /\ status'[m] = "ACTIVE" => 0 < repaid'[m] /\ repaid'[m] < principal'[m]
                        /\ status'[m] = "REPAID" => repaid'[m] = principal'[m]
                        /\ status'[m] \in {"PENDING", "ACTIVE"} => repaid'[m] < principal'[m]
        BY DEF StatusMatchesBalance
    <2>1. CASE m = l
        BY <1>6, <2>1
    <2>2. CASE m # l
        BY <1>1, <1>7, <2>2 DEF StatusInv, StatusMatchesBalance
    <2> QED BY <2>1, <2>2
<1>9. /\ tx'[r].pc = "idle"
      /\ \A q \in Requests : q # r => tx'[q] = tx[q]
    <2>1. tx \in [Requests -> TxRecord]
        BY <1>0 DEF TypeOK
    <2>2. /\ [tx EXCEPT ![r].pc = "idle", ![r].result = "ok"][r].pc = "idle"
          /\ \A q \in Requests : q # r => [tx EXCEPT ![r].pc = "idle", ![r].result = "ok"][q] = tx[q]
        BY <2>1, TxFieldUpdate
    <2> QED BY <1>1, <2>2, Zenon
<1>10. ASSUME NEW q \in Requests, q # r
       PROVE  /\ Open(q)' => tx'[q].snapStatus \in {"PENDING", "ACTIVE"}
              /\ tx'[q].pc = "written" => WrittenNext(q)'
    BY <1>1, <1>9, <1>10 DEF StatusInv, Open, WrittenNext
<1> QED BY <1>8, <1>9, <1>10 DEF StatusInv, Open

(* Every step keeps StatusInv, given the invariant of the overpayment     *)
(* proof and amounts the column stores exactly.                            *)
LEMMA NextStatusInv ==
    ASSUME Scale = 1, IInv, StatusInv, [Next]_vars
    PROVE  StatusInv'
<1>0. TypeOK
    BY DEF IInv
<1>1. ASSUME NEW l \in Loans, NEW a \in Principals, NEW c \in Collaterals,
             IssueLoan(l, a, c)
      PROVE  StatusInv'
    <2>1. /\ status[l] = NoLoan /\ repaid[l] = 0 /\ a \in Nat \ {0}
          /\ status' = [status EXCEPT ![l] = "PENDING"]
          /\ principal' = [principal EXCEPT ![l] = a]
          /\ UNCHANGED <<repaid, tx>>
        BY <1>1, LoanConstantsAssumption DEF IssueLoan, IInv
    <2>2. StatusMatchesBalance'
        BY <1>0, <2>1 DEF StatusInv, StatusMatchesBalance, TypeOK
    <2>3. ASSUME NEW q \in Requests
          PROVE  /\ Open(q)' => tx'[q].snapStatus \in {"PENDING", "ACTIVE"}
                 /\ tx'[q].pc = "written" => WrittenNext(q)'
        <3>1. CASE Open(q)
            <4>1. tx[q].loan # l /\ tx[q].loan \in Loans
                BY <3>1, <2>1, <1>0 DEF IInv, SnapshotSound, TypeOK, TxRecord
            <4> QED BY <2>1, <3>1, <4>1, <1>0 DEF StatusInv, WrittenNext, TypeOK
        <3>2. CASE ~Open(q)
            BY <2>1, <3>2 DEF Open
        <3> QED BY <3>1, <3>2
    <2> QED BY <2>2, <2>3 DEF StatusInv
<1>2. ASSUME NEW r \in Requests, NEW l \in Loans, NEW x \in RepayAmounts,
             RecordRepaymentBegin(r, l, x)
      PROVE  StatusInv'
    <2>1. /\ status[l] \notin {NoLoan, "DEFAULTED"}
          /\ principal[l] - repaid[l] > 0
          /\ tx' = [tx EXCEPT ![r] =
                      [pc |-> "read", loan |-> l, amount |-> x,
                       snapStatus |-> status[l], snapRepaid |-> repaid[l],
                       snapCount |-> nRepayments[l], next |-> status[l],
                       result |-> "none"]]
          /\ UNCHANGED <<status, principal, repaid>>
        BY <1>2, Zenon DEF RecordRepaymentBegin, RepaymentAllowed, Outstanding
    <2>2. status[l] \in {"PENDING", "ACTIVE"}
        <3>1. status[l] \in LoanStatus \cup {NoLoan} /\ repaid[l] \in Nat /\ principal[l] \in Nat
            BY <1>0, FunApply DEF TypeOK
        <3>2. status[l] # "REPAID"
            BY <2>1, <3>1 DEF StatusInv, StatusMatchesBalance
        <3> QED BY <2>1, <3>1, <3>2 DEF LoanStatus
    <2>3. /\ tx'[r].snapStatus = status[l] /\ tx'[r].pc = "read"
          /\ \A q \in Requests : q # r => tx'[q] = tx[q]
        BY <2>1, <1>0 DEF TypeOK
    <2>4. ASSUME NEW q \in Requests, q # r
          PROVE  /\ Open(q)' => tx'[q].snapStatus \in {"PENDING", "ACTIVE"}
                 /\ tx'[q].pc = "written" => WrittenNext(q)'
        BY <2>1, <2>3, <2>4 DEF StatusInv, Open, WrittenNext
    <2> QED BY <2>1, <2>2, <2>3, <2>4 DEF StatusInv, StatusMatchesBalance, Open
<1>3. ASSUME NEW r \in Requests, NEW l \in Loans, NEW x \in RepayAmounts,
             RecordRepaymentReject(r, l, x)
      PROVE  StatusInv'
    <2>1. /\ tx[r].pc = "idle"
          /\ tx' = [tx EXCEPT ![r].loan = l, ![r].amount = x, ![r].result = "rejected"]
          /\ UNCHANGED <<status, principal, repaid>>
        BY <1>3, Zenon DEF RecordRepaymentReject
    <2>2. x \in Nat /\ x # 0
        BY DEF RepayAmounts
    <2>3. /\ tx'[r].pc = "idle"
          /\ \A q \in Requests : q # r => tx'[q] = tx[q]
        <3>1. tx \in [Requests -> TxRecord]
            BY <1>0 DEF TypeOK
        <3>2. /\ [tx EXCEPT ![r].loan = l, ![r].amount = x, ![r].result = "rejected"] \in [Requests -> TxRecord]
              /\ [tx EXCEPT ![r].loan = l, ![r].amount = x, ![r].result = "rejected"][r].pc = tx[r].pc
              /\ \A q \in Requests : q # r => [tx EXCEPT ![r].loan = l, ![r].amount = x, ![r].result = "rejected"][q] = tx[q]
            BY <3>1, <2>2, TxRejectUpdate, ZenonT(60)
        <3> QED BY <2>1, <3>2, Zenon
    <2> QED BY <2>1, <2>3, StatusIdleStep
<1>4. ASSUME NEW r \in Requests, RecordRepaymentWrite(r)
      PROVE  StatusInv'
    <2> DEFINE n == NextStatus(tx[r].snapStatus,
                               (principal[tx[r].loan] - tx[r].snapRepaid) * Scale - tx[r].amount)
    <2>1. /\ tx[r].pc = "read"
          /\ tx' = [tx EXCEPT ![r].pc = "written", ![r].next = n]
          /\ UNCHANGED <<status, principal, repaid>>
        BY <1>4, Zenon DEF RecordRepaymentWrite, n
    <2>2. n \in LoanStatus
        <3>1. tx[r] \in TxRecord
            BY <1>0, FunApply DEF TypeOK
        <3>2. principal[tx[r].loan] \in Nat
            BY <1>0, <3>1, FunApply DEF TypeOK, TxRecord
        <3>3. (principal[tx[r].loan] - tx[r].snapRepaid) * Scale - tx[r].amount \in Int
            BY <3>1, <3>2, LoanConstantsAssumption DEF TxRecord
        <3> QED BY <3>1, <3>3, NextStatusLemma DEF TxRecord
    <2>3. /\ tx'[r] = [pc |-> "written", loan |-> tx[r].loan, amount |-> tx[r].amount,
                       snapStatus |-> tx[r].snapStatus, snapRepaid |-> tx[r].snapRepaid,
                       snapCount |-> tx[r].snapCount, next |-> n, result |-> tx[r].result]
          /\ \A q \in Requests : q # r => tx'[q] = tx[q]
        <3>1. tx \in [Requests -> TxRecord]
            BY <1>0 DEF TypeOK
        <3> QED BY <2>1, <2>2, <3>1, TxWriteUpdate, Zenon
    <2>4. WrittenNext(r)'
        BY <2>1, <2>3 DEF WrittenNext, n
    <2>5. tx'[r].snapStatus \in {"PENDING", "ACTIVE"}
        BY <2>1, <2>3 DEF StatusInv, Open
    <2>6. ASSUME NEW q \in Requests, q # r
          PROVE  /\ Open(q)' => tx'[q].snapStatus \in {"PENDING", "ACTIVE"}
                 /\ tx'[q].pc = "written" => WrittenNext(q)'
        BY <2>1, <2>3, <2>6 DEF StatusInv, Open, WrittenNext
    <2> QED BY <2>1, <2>4, <2>5, <2>6 DEF StatusInv, StatusMatchesBalance
<1>5. ASSUME NEW r \in Requests, RecordRepaymentCommit(r)
      PROVE  StatusInv'
    BY <1>5, StatusCommitStep
<1>6. ASSUME NEW r \in Requests, RecordRepaymentAbort(r)
      PROVE  StatusInv'
    <2>1. /\ tx' = [tx EXCEPT ![r].pc = "idle", ![r].result = "aborted"]
          /\ UNCHANGED <<status, principal, repaid>>
        BY <1>6, Zenon DEF RecordRepaymentAbort
    <2>2. /\ tx'[r].pc = "idle"
          /\ \A q \in Requests : q # r => tx'[q] = tx[q]
        <3>1. tx \in [Requests -> TxRecord]
            BY <1>0 DEF TypeOK
        <3>2. /\ [tx EXCEPT ![r].pc = "idle", ![r].result = "aborted"][r].pc = "idle"
              /\ \A q \in Requests : q # r => [tx EXCEPT ![r].pc = "idle", ![r].result = "aborted"][q] = tx[q]
            BY <3>1, TxFieldUpdate
        <3> QED BY <2>1, <3>2, Zenon
    <2> QED BY <2>1, <2>2, StatusIdleStep
<1>7. CASE UNCHANGED vars
    BY <1>7 DEF StatusInv, StatusMatchesBalance, Open, WrittenNext, vars
<1> QED BY <1>1, <1>2, <1>3, <1>4, <1>5, <1>6, <1>7 DEF Next

(***************************************************************************)
(* For every set of loans, handlers, principals and bound, when clients   *)
(* send repayment amounts the DECIMAL(20,7) column stores exactly         *)
(* (Scale = 1), the committed status of every loan agrees with its         *)
(* committed repayments, however recordRepayment transactions interleave,  *)
(* commit and abort: StatusMatchesBalance. With finer amounts it fails     *)
(* (the loan_subunit run).                                                 *)
(***************************************************************************)
THEOREM StatusMatchesBalanceTheorem ==
    ASSUME Scale = 1
    PROVE  Spec => []StatusMatchesBalance
<1>1. Init => StatusInv
    BY DEF Init, StatusInv, StatusMatchesBalance, Open, NoLoan
<1>2. IInv /\ StatusInv /\ [Next]_vars => IInv' /\ StatusInv'
    BY NextIInv, NextStatusInv
<1>3. StatusInv => StatusMatchesBalance
    BY DEF StatusInv
<1> QED BY <1>1, <1>2, <1>3, InitIInv, PTL DEF Spec

=============================================================================
