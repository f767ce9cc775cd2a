----------------------- MODULE GovernanceServiceProofs -----------------------
(***************************************************************************)
(* castVote's findFirst-then-create is not atomic, so two requests of one  *)
(* voter can both find no vote. What keeps a voter to one vote is the      *)
(* store's unique index on (proposalId, voterId): the proof shows that     *)
(* with VoteUnique the vote rows of a (proposal, voter) pair stay at most  *)
(* one, whatever the interleaving of requests.                             *)
(***************************************************************************)
EXTENDS GovernanceService, FiniteSetTheorems, TLAPS

\* Any two rows of one voter on one proposal are the same row.
AtMostOne(p, v) == \A a, b \in VotesBy(p, v) : a = b

\* The fields of a request's locals.
ReqFields == {"pc", "proposal", "voter", "vote", "existing", "tally"}

\* The locals that the write steps read are typed.
RowsTyped ==
    /\ votes \subseteq VoteRow
    /\ DOMAIN req = Requests
    /\ \A r \in Requests :
          /\ DOMAIN req[r] = ReqFields
          /\ req[r].proposal \in Proposals
          /\ req[r].voter \in Voters
          /\ req[r].vote \in VoteValues

IInv == RowsTyped /\ \A p \in Proposals, v \in Voters : AtMostOne(p, v)

\* A set whose elements are all equal has at most one element.
LEMMA AtMostOneCardinality ==
    ASSUME NEW S, \A a, b \in S : a = b
    PROVE  Cardinality(S) <= 1
<1>1. CASE S = {}
  BY <1>1, FS_EmptySet
<1>2. CASE S # {}
  <2>1. PICK x \in S : TRUE
    BY <1>2
  <2>2. S = {x}
    BY <2>1
  <2>3. Cardinality({x}) = 1
    BY FS_Singleton
  <2>. QED
    BY <2>2, <2>3
<1>. QED
  BY <1>1, <1>2

\* IdleRequest's CHOOSE picks a proposal and a voter when there are some.
LEMMA InitIInv ==
    ASSUME Proposals # {}, Voters # {} PROVE Init => IInv
<1>. SUFFICES ASSUME Init PROVE IInv
  OBVIOUS
<1>1. /\ DOMAIN IdleRequest = ReqFields
      /\ IdleRequest.proposal \in Proposals
      /\ IdleRequest.voter \in Voters
      /\ IdleRequest.vote \in VoteValues
  BY DEF IdleRequest, ReqFields, VoteValues
<1>2. RowsTyped
  BY <1>1 DEF Init, RowsTyped
<1>3. \A p \in Proposals, v \in Voters : AtMostOne(p, v)
  BY DEF Init, AtMostOne, VotesBy, VotesOf
<1>. QED
  BY <1>2, <1>3 DEF IInv

\* A step that gives one request new locals with the same payload keeps
\* the typing of the locals.
LEMMA ReqLocalsKept ==
    ASSUME RowsTyped, NEW r \in Requests, NEW new,
           DOMAIN new = ReqFields, new.proposal = req[r].proposal,
           new.voter = req[r].voter, new.vote = req[r].vote,
           req' = [req EXCEPT ![r] = new]
    PROVE  /\ DOMAIN req' = Requests
           /\ \A q \in Requests :
              /\ DOMAIN req'[q] = ReqFields
              /\ req'[q].proposal \in Proposals
              /\ req'[q].voter \in Voters
              /\ req'[q].vote \in VoteValues
BY DEF RowsTyped

\* castVote's read step stores its request's payload.
LEMMA ReadLocals ==
    ASSUME RowsTyped, NEW r \in Requests, NEW p \in Proposals, NEW v \in Voters,
           NEW x \in VoteValues, CastVoteRead(r, p, v, x)
    PROVE  /\ DOMAIN req' = Requests
           /\ \A q \in Requests :
              /\ DOMAIN req'[q] = ReqFields
              /\ req'[q].proposal \in Proposals
              /\ req'[q].voter \in Voters
              /\ req'[q].vote \in VoteValues
BY DEF CastVoteRead, RowsTyped, IdleRequest, ReqFields

LEMMA NextIInv ==
    ASSUME VoteUnique PROVE IInv /\ [Next]_vars => IInv'
<1> SUFFICES ASSUME IInv, [Next]_vars PROVE IInv'
  OBVIOUS
<1>. USE DEF IInv
<1>1. ASSUME NEW p \in Proposals, CreateProposal(p) \/ Expire(p) PROVE IInv'
  BY <1>1 DEF CreateProposal, Expire, RowsTyped, AtMostOne, VotesBy, VotesOf
<1>2. ASSUME NEW r \in Requests, NEW p \in Proposals, NEW v \in Voters,
             NEW x \in VoteValues, CastVoteRead(r, p, v, x)
      PROVE IInv'
  <2>1. UNCHANGED votes
    BY <1>2 DEF CastVoteRead
  <2>. QED
    BY <1>2, <2>1, ReadLocals DEF RowsTyped, AtMostOne, VotesBy, VotesOf
<1>3. ASSUME NEW r \in Requests,
             CastVoteFind(r) \/ CastVoteReread(r) \/ CastVoteRefused(r)
               \/ CastVoteBroadcast(r) \/ CastVoteFail(r)
      PROVE IInv'
  <2>1. UNCHANGED votes
    BY <1>3 DEF CastVoteFind, CastVoteReread, CastVoteRefused, CastVoteBroadcast,
                CastVoteFail
  <2>2. /\ DOMAIN req' = Requests
        /\ \A q \in Requests :
           /\ DOMAIN req'[q] = ReqFields
           /\ req'[q].proposal \in Proposals
           /\ req'[q].voter \in Voters
           /\ req'[q].vote \in VoteValues
    <3>1. DOMAIN req[r] = ReqFields
      BY DEF RowsTyped
    <3>2. \E new : /\ DOMAIN new = ReqFields
                  /\ new.proposal = req[r].proposal
                  /\ new.voter = req[r].voter
                  /\ new.vote = req[r].vote
                  /\ req' = [req EXCEPT ![r] = new]
      BY <1>3, <3>1 DEF CastVoteFind, CastVoteReread, CastVoteRefused, CastVoteBroadcast,
                        CastVoteFail, ReqFields
    <3>. QED
      BY <3>2, ReqLocalsKept
  <2>. QED
    BY <2>1, <2>2 DEF RowsTyped, AtMostOne, VotesBy, VotesOf
<1>4. ASSUME NEW r \in Requests, CastVoteUpdate(r) PROVE IInv'
  <2>. DEFINE f(row) == IF row.id = req[r].existing THEN [row EXCEPT !.vote = req[r].vote]
                        ELSE row
  <2>1. votes' = {f(row) : row \in votes}
    BY <1>4 DEF CastVoteUpdate
  <2>2. \A row \in votes : /\ f(row) \in VoteRow
                           /\ f(row).proposal = row.proposal
                           /\ f(row).voter = row.voter
    BY DEF RowsTyped, VoteRow
  <2>3. req' = [req EXCEPT ![r].pc = "written"]
    BY <1>4 DEF CastVoteUpdate
  <2>4. RowsTyped'
    BY <2>1, <2>2, <2>3 DEF RowsTyped
  <2>5. ASSUME NEW p \in Proposals, NEW v \in Voters PROVE AtMostOne(p, v)'
    <3> SUFFICES ASSUME NEW a \in VotesBy(p, v)', NEW b \in VotesBy(p, v)' PROVE a = b
      BY DEF AtMostOne
    <3>1. PICK a0 \in votes : a = f(a0)
      BY <2>1 DEF VotesBy, VotesOf
    <3>2. PICK b0 \in votes : b = f(b0)
      BY <2>1 DEF VotesBy, VotesOf
    <3>3. a0 \in VotesBy(p, v) /\ b0 \in VotesBy(p, v)
      BY <3>1, <3>2, <2>1, <2>2 DEF VotesBy, VotesOf
    <3>4. a0 = b0
      BY <3>3 DEF AtMostOne
    <3>. QED
      BY <3>1, <3>2, <3>4
  <2>. QED
    BY <2>4, <2>5
<1>5. ASSUME NEW r \in Requests, CastVoteCreate(r) PROVE IInv'
  <2>. DEFINE n == NewRow(r)
  <2>1. votes' = votes \cup {n} /\ req' = [req EXCEPT ![r].pc = "written"]
    BY <1>5 DEF CastVoteCreate
  <2>2. VotesBy(req[r].proposal, req[r].voter) = {}
    BY <1>5 DEF CastVoteCreate, CreateRefused
  <2>3. n \in VoteRow /\ n.proposal = req[r].proposal /\ n.voter = req[r].voter
    BY DEF RowsTyped, NewRow, VoteRow
  <2>4. RowsTyped'
    BY <2>1, <2>3 DEF RowsTyped
  <2>5. ASSUME NEW p \in Proposals, NEW v \in Voters PROVE AtMostOne(p, v)'
    <3> SUFFICES ASSUME NEW a \in VotesBy(p, v)', NEW b \in VotesBy(p, v)' PROVE a = b
      BY DEF AtMostOne
    <3>1. CASE a \in votes /\ b \in votes
      BY <3>1, <2>1 DEF AtMostOne, VotesBy, VotesOf
    <3>2. CASE a = n
      <4>1. p = req[r].proposal /\ v = req[r].voter
        BY <3>2, <2>1, <2>3 DEF VotesBy, VotesOf
      <4>2. b \notin votes
        BY <4>1, <2>1, <2>2 DEF VotesBy, VotesOf
      <4>. QED
        BY <3>2, <4>2, <2>1 DEF VotesBy, VotesOf
    <3>3. CASE b = n
      <4>1. p = req[r].proposal /\ v = req[r].voter
        BY <3>3, <2>1, <2>3 DEF VotesBy, VotesOf
      <4>2. a \notin votes
        BY <4>1, <2>1, <2>2 DEF VotesBy, VotesOf
      <4>. QED
        BY <3>3, <4>2, <2>1 DEF VotesBy, VotesOf
    <3>. QED
      BY <3>1, <3>2, <3>3, <2>1 DEF VotesBy, VotesOf
  <2>. QED
    BY <2>4, <2>5
<1>6. CASE UNCHANGED vars
  BY <1>6 DEF vars, RowsTyped, AtMostOne, VotesBy, VotesOf
<1>. QED
  BY <1>1, <1>2, <1>3, <1>4, <1>5, <1>6 DEF Next

\* The rows of a pair are at most one when any two of them are equal.
LEMMA IInvOneVote == IInv => OneVotePerVoter
BY AtMostOneCardinality DEF IInv, AtMostOne, OneVotePerVoter

(***************************************************************************)
(* With the unique index of GovernanceVote, castVote never leaves a voter  *)
(* with two votes on a proposal, however its requests interleave.          *)
(***************************************************************************)
THEOREM OneVotePerVoterTheorem ==
    ASSUME VoteUnique, Proposals # {}, Voters # {}
    PROVE  Spec => []OneVotePerVoter
<1>1. Init => IInv
  BY InitIInv
<1>2. IInv /\ [Next]_vars => IInv'
  BY NextIInv
<1>3. IInv => OneVotePerVoter
  BY IInvOneVote
<1>. QED
  BY <1>1, <1>2, <1>3, PTL DEF Spec
=============================================================================
