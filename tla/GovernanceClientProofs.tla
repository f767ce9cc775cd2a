------------------------- MODULE GovernanceClientProofs -------------------------
(***************************************************************************)
(* vote() tests userVoted before its await and sets it after, so the hook  *)
(* alone does not stop a second vote. The invariant below says why the     *)
(* page does: while a signing timer is pending the page's vote is loading, *)
(* so its buttons are disabled, and userVoted is still unset.              *)
(***************************************************************************)
EXTENDS GovernanceClient, SequenceTheorems, TLAPS

\* At most one signing timer is pending, and only for the page's
\* proposal, with the vote loading and userVoted not yet set.
PendingVote ==
    timers # <<>> =>
        /\ Len(timers) = 1
        /\ timers[1].id = page
        /\ page \in Ids
        /\ ~userVoted[page]
        /\ IsLoading

IInv == TypeOK /\ PendingVote /\ VoteCountedOnce

\* The votes of INITIAL_PROPOSALS.
LEMMA InitialTyped ==
    InitialProposals \in [Ids -> [status : {"OPEN", "PASSED", "REJECTED"},
                                  votes : [for : Nat, against : Nat, abstain : Nat]]]
BY DEF InitialProposals, Ids

LEMMA InitIInv == Init => IInv
<1>. SUFFICES ASSUME Init PROVE IInv
  OBVIOUS
<1>1. TypeOK
  BY InitialTyped DEF Init, TypeOK, IdleVoting, PageIds, NoId, NoError
<1>2. PendingVote
  BY DEF Init, PendingVote
<1>3. VoteCountedOnce
  BY InitialTyped DEF Init, VoteCountedOnce, Total, InitialTotal
<1>. QED
  BY <1>1, <1>2, <1>3 DEF IInv

\* Adding a vote raises the proposal's total by Weight and leaves the
\* other proposals and the statuses alone.
LEMMA AddVoteTotal ==
    ASSUME TypeOK, NEW p \in Ids, NEW t \in VoteTypes
    PROVE  LET P == AddVote(p, t) IN
             /\ P \in [Ids -> [status : {"OPEN", "PASSED", "REJECTED"},
                               votes : [for : Nat, against : Nat, abstain : Nat]]]
             /\ P[p].status = proposals[p].status
             /\ P[p].votes.for + P[p].votes.against + P[p].votes.abstain
                  = Total(p) + Weight
             /\ \A q \in Ids \ {p} : P[q] = proposals[q]
<1>. DEFINE v == proposals[p].votes
<1>1. v \in [for : Nat, against : Nat, abstain : Nat]
  BY DEF TypeOK
<1>2. VoteField(t) \in {"for", "against", "abstain"}
  BY DEF VoteField, VoteTypes
<1>. DEFINE w == [v EXCEPT ![VoteField(t)] = @ + Weight]
<1>3. /\ w \in [for : Nat, against : Nat, abstain : Nat]
      /\ w.for + w.against + w.abstain = v.for + v.against + v.abstain + Weight
  BY <1>1, <1>2 DEF Weight
<1>4. AddVote(p, t) = [proposals EXCEPT ![p].votes = w]
  BY <1>1 DEF AddVote, TypeOK
<1>5. proposals[p] \in [status : {"OPEN", "PASSED", "REJECTED"},
                        votes : [for : Nat, against : Nat, abstain : Nat]]
  BY DEF TypeOK
<1>6. [proposals[p] EXCEPT !.votes = w] \in
        [status : {"OPEN", "PASSED", "REJECTED"},
         votes : [for : Nat, against : Nat, abstain : Nat]]
  BY <1>3, <1>5
<1>7. [proposals EXCEPT ![p].votes = w] = [proposals EXCEPT ![p] = [proposals[p] EXCEPT !.votes = w]]
  BY DEF TypeOK
<1>. QED
  BY <1>3, <1>4, <1>5, <1>6, <1>7 DEF TypeOK, Total

LEMMA NextIInv == IInv /\ [Next]_vars => IInv'
<1> SUFFICES ASSUME IInv, [Next]_vars PROVE IInv'
  OBVIOUS
<1>1. ASSUME NEW t \in VoteTypes, VoteRejected(t) PROVE IInv'
  BY <1>1 DEF VoteRejected, ButtonEnabled, IInv, TypeOK
<1>2. ASSUME NEW t \in VoteTypes, VoteStart(t) PROVE IInv'
  <2>1. timers = <<>>
    BY <1>2 DEF VoteStart, ButtonEnabled, IInv, PendingVote
  <2>2. timers' = <<[id |-> page, type |-> t]>>
    BY <1>2, <2>1 DEF VoteStart
  <2>3. TypeOK'
    BY <1>2, <2>2 DEF VoteStart, Open, IInv, TypeOK, NoError, PageIds
  <2>4. PendingVote'
    <3>1. page' = page /\ page \in Ids /\ userVoted' = userVoted /\ ~userVoted[page]
      BY <1>2 DEF VoteStart, Open
    <3>2. votingState' = [id |-> page, loading |-> TRUE, error |-> NoError]
      BY <1>2 DEF VoteStart
    <3>3. Len(timers') = 1 /\ timers'[1].id = page
      BY <2>2
    <3>. QED
      BY <3>1, <3>2, <3>3, Zenon DEF PendingVote, IsLoading
  <2>5. VoteCountedOnce'
    BY <1>2 DEF VoteStart, IInv, VoteCountedOnce, Total
  <2>. QED
    BY <2>3, <2>4, <2>5 DEF IInv
<1>3. ASSUME SigningDone PROVE IInv'
  <2>. DEFINE x == Head(timers)
  <2>1. timers # <<>> /\ Len(timers) = 1 /\ x.id = page /\ page \in Ids
          /\ ~userVoted[page]
    BY <1>3 DEF SigningDone, IInv, PendingVote
  <2>0. timers \in Seq([id : Ids, type : VoteTypes])
    BY DEF IInv, TypeOK
  <2>2. x \in [id : Ids, type : VoteTypes]
    <3>1. x = timers[1]
      BY <2>0, <2>1
    <3>2. 1 \in 1..Len(timers)
      BY <2>1
    <3>3. timers[1] \in [id : Ids, type : VoteTypes]
      BY <2>0, <3>2, ElementOfSeq, Zenon
    <3>. QED
      BY <3>1, <3>3
  <2>3. timers' = <<>>
    <3>1. timers' = Tail(timers)
      BY <1>3 DEF SigningDone
    <3>2. Len(Tail(timers)) = 0
      BY <2>0, <2>1
    <3>. QED
      BY <2>0, <3>1, <3>2
  <2>4. /\ proposals' = AddVote(page, x.type)
        /\ userVoted' = [userVoted EXCEPT ![page] = TRUE]
        /\ votingState' = IdleVoting /\ page' = page
    BY <1>3, <2>1 DEF SigningDone
  <2>5. LET P == AddVote(page, x.type) IN
             /\ P \in [Ids -> [status : {"OPEN", "PASSED", "REJECTED"},
                               votes : [for : Nat, against : Nat, abstain : Nat]]]
             /\ P[page].votes.for + P[page].votes.against + P[page].votes.abstain
                  = Total(page) + Weight
             /\ \A q \in Ids \ {page} : P[q] = proposals[q]
    BY <2>1, <2>2, AddVoteTotal DEF IInv
  <2>6. TypeOK'
    <3>1. userVoted' \in [Ids -> BOOLEAN]
      BY <2>1, <2>4 DEF IInv, TypeOK
    <3>2. votingState' \in [id : PageIds \cup {NoId}, loading : BOOLEAN,
                            error : {NoError, AlreadyVoted}]
      BY <2>4 DEF IdleVoting
    <3>. QED
      BY <2>3, <2>4, <2>5, <3>1, <3>2 DEF IInv, TypeOK
  <2>7. PendingVote'
    BY <2>3 DEF PendingVote
  <2>8. VoteCountedOnce'
    <3> SUFFICES ASSUME NEW q \in Ids
                 PROVE  Total(q)' = InitialTotal(q) + (IF userVoted'[q] THEN Weight ELSE 0)
      BY DEF VoteCountedOnce
    <3>1. CASE q = page
      <4>1. userVoted'[q] /\ ~userVoted[q]
        BY <3>1, <2>1, <2>4 DEF IInv, TypeOK
      <4>2. Total(q) = InitialTotal(q)
        BY <4>1, InitialTyped DEF IInv, VoteCountedOnce, InitialTotal
      <4>3. Total(q)' = Total(q) + Weight
        BY <3>1, <2>4, <2>5 DEF Total
      <4>. QED
        BY <4>1, <4>2, <4>3
    <3>2. CASE q # page
      <4>1. userVoted'[q] = userVoted[q] /\ proposals'[q] = proposals[q]
        BY <3>2, <2>1, <2>4, <2>5 DEF IInv, TypeOK
      <4>. QED
        BY <4>1 DEF IInv, VoteCountedOnce, Total
    <3>. QED
      BY <3>1, <3>2
  <2>. QED
    BY <2>6, <2>7, <2>8 DEF IInv
<1>4. ASSUME NEW q \in PageIds, Navigate(q) PROVE IInv'
  <2>1. TypeOK'
    BY <1>4, InitialTyped DEF Navigate, Mounted, TypeOK, IdleVoting, PageIds, NoId,
       NoError
  <2>2. PendingVote'
    BY <1>4 DEF Navigate, Mounted, PendingVote
  <2>3. VoteCountedOnce'
    BY <1>4, InitialTyped DEF Navigate, Mounted, VoteCountedOnce, Total, InitialTotal
  <2>. QED
    BY <2>1, <2>2, <2>3 DEF IInv
<1>5. CASE UNCHANGED vars
  BY <1>5 DEF vars, IInv, TypeOK, PendingVote, IsLoading, VoteCountedOnce, Total
<1>. QED
  BY <1>1, <1>2, <1>3, <1>4, <1>5 DEF Next

(***************************************************************************)
(* On the proposal page, every vote the hook counts raises the tally by    *)
(* one Weight and is marked in userVoted, however the user clicks and      *)
(* navigates while the signing timer runs.                                 *)
(***************************************************************************)
THEOREM VoteCountedOnceTheorem == Spec => []VoteCountedOnce
<1>1. Init => IInv
  BY InitIInv
<1>2. IInv /\ [Next]_vars => IInv'
  BY NextIInv
<1>3. IInv => VoteCountedOnce
  BY DEF IInv
<1>. QED
  BY <1>1, <1>2, <1>3, PTL DEF Spec
=============================================================================
