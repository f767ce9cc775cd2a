-------------------------- MODULE GovernanceService --------------------------
(***************************************************************************)
(* GovernanceService (src/server/src/services/governance.service.ts):      *)
(* createProposal, castVote with the tally it broadcasts, and the reads    *)
(* getProposal, listProposals, getProposalVotes and getMetrics.            *)
(*                                                                         *)
(* castVote awaits five queries in a row and holds no transaction: it      *)
(* reads the proposal and checks it is ACTIVE and not expired, looks up    *)
(* the voter's existing vote, updates that row or creates one, re-reads    *)
(* the proposal's votes and broadcasts their count. Each await is one      *)
(* action, so the requests of several voters (or of one voter twice)       *)
(* interleave between them, and any query may fail, ending the request.   *)
(*                                                                         *)
(* The service reaches its tables through `db: any` as prisma.proposal and *)
(* prisma.vote. VoteUnique says whether the store rejects a second vote    *)
(* row of one (proposal, voter), as the unique index of GovernanceVote     *)
(* (proposalId, voterAddress) does; a create that violates it throws.      *)
(***************************************************************************)
EXTENDS Naturals, FiniteSets, Sequences

CONSTANTS
    Proposals,   \* proposal ids that createProposal may assign
    Voters,      \* voter ids
    Requests,    \* castVote requests, each served once
    VoteUnique   \* TRUE: one vote row per (proposal, voter) is enforced

\* VALID_VOTE_VALUES, after parseVote's trim().toUpperCase().
VoteValues == {"FOR", "AGAINST", "ABSTAIN"}

\* A vote row is keyed by the request whose create inserted it.
VoteRow == [id : Requests, proposal : Proposals, voter : Voters, vote : VoteValues]

\* The id findFirst returns when the voter has no row.
NoRow == "none"

\* The handler's program counter and the locals it keeps across awaits.
RequestRecord ==
    [pc : {"idle", "checked", "found", "written", "reread", "done"},
     proposal : Proposals, voter : Voters, vote : VoteValues,
     existing : Requests \cup {NoRow}, tally : Nat]

VARIABLES
    proposal,    \* proposal[p]: the row's status ("none": no row) and expiry
    votes,       \* the set of vote rows
    req,         \* req[r]: the castVote handler of request r
    sent         \* the GOVERNANCE_VOTE_CAST events, in broadcast order

vars == <<proposal, votes, req, sent>>

\* The proposal id before createProposal assigns it.
NoProposal == [status |-> "none", expired |-> FALSE]

IdleRequest == [pc |-> "idle", proposal |-> CHOOSE p \in Proposals : TRUE,
                voter |-> CHOOSE v \in Voters : TRUE, vote |-> "FOR",
                existing |-> NoRow, tally |-> 0]

Init ==
    /\ proposal = [p \in Proposals |-> NoProposal]
    /\ votes = {}
    /\ req = [r \in Requests |-> IdleRequest]
    /\ sent = <<>>

\* The rows of one proposal, and of one voter on it.
VotesOf(p) == {row \in votes : row.proposal = p}
VotesBy(p, v) == {row \in VotesOf(p) : row.voter = v}

(* createProposal: title and description present, expiresAt in the       *)
(* future; the row is created ACTIVE. (An invalid payload throws before  *)
(* any write and changes nothing.)                                        *)
CreateProposal(p) ==
    /\ proposal[p].status = "none"
    /\ proposal' = [proposal EXCEPT ![p] = [status |-> "ACTIVE", expired |-> FALSE]]
    /\ UNCHANGED <<votes, req, sent>>

\* The clock passes a proposal's expiresAt. No code changes its status.
Expire(p) ==
    /\ proposal[p].status # "none"
    /\ ~proposal[p].expired
    /\ proposal' = [proposal EXCEPT ![p].expired = TRUE]
    /\ UNCHANGED <<votes, req, sent>>

\* castVote's guards on the proposal row it read.
Votable(p) ==
    /\ proposal[p].status = "ACTIVE"
    /\ ~proposal[p].expired

(* castVote parses its payload and reads the proposal: it goes on when    *)
(* the proposal is votable, and throws NotFound or Validation otherwise.  *)
CastVoteRead(r, p, v, x) ==
    /\ req[r].pc = "idle"
    /\ req' = [req EXCEPT ![r] = [IdleRequest EXCEPT
                  !.pc = IF Votable(p) THEN "checked" ELSE "done",
                  !.proposal = p, !.voter = v, !.vote = x]]
    /\ UNCHANGED <<proposal, votes, sent>>

(* vote.findFirst({proposalId, voterId}): any matching row, or none.      *)
CastVoteFind(r) ==
    /\ req[r].pc = "checked"
    /\ \/ /\ VotesBy(req[r].proposal, req[r].voter) = {}
          /\ req' = [req EXCEPT ![r].pc = "found", ![r].existing = NoRow]
       \/ \E row \in VotesBy(req[r].proposal, req[r].voter) :
             req' = [req EXCEPT ![r].pc = "found", ![r].existing = row.id]
    /\ UNCHANGED <<proposal, votes, sent>>

\* The row create inserts.
NewRow(r) == [id |-> r, proposal |-> req[r].proposal,
              voter |-> req[r].voter, vote |-> req[r].vote]

\* The store refuses the create when the unique index holds and the voter
\* already has a row on the proposal.
CreateRefused(r) == VoteUnique /\ VotesBy(req[r].proposal, req[r].voter) # {}

(* vote.update of the row findFirst returned: the row keeps its id,       *)
(* proposal and voter and takes the new value.                            *)
CastVoteUpdate(r) ==
    /\ req[r].pc = "found"
    /\ req[r].existing # NoRow
    /\ votes' = {IF row.id = req[r].existing THEN [row EXCEPT !.vote = req[r].vote]
                 ELSE row : row \in votes}
    /\ req' = [req EXCEPT ![r].pc = "written"]
    /\ UNCHANGED <<proposal, sent>>

(* vote.create when findFirst returned none.                              *)
CastVoteCreate(r) ==
    /\ req[r].pc = "found"
    /\ req[r].existing = NoRow
    /\ ~CreateRefused(r)
    /\ votes' = votes \cup {NewRow(r)}
    /\ req' = [req EXCEPT ![r].pc = "written"]
    /\ UNCHANGED <<proposal, sent>>

(* The create violates the unique index and throws: the request ends      *)
(* without a broadcast.                                                    *)
CastVoteRefused(r) ==
    /\ req[r].pc = "found"
    /\ req[r].existing = NoRow
    /\ CreateRefused(r)
    /\ req' = [req EXCEPT ![r].pc = "done"]
    /\ UNCHANGED <<proposal, votes, sent>>

(* getProposal and listProposals count the proposal's votes by value;    *)
(* totalVotes is their sum.                                               *)
Tally(p, x) == Cardinality({row \in VotesOf(p) : row.vote = x})
TotalVotes(p) == Tally(p, "FOR") + Tally(p, "AGAINST") + Tally(p, "ABSTAIN")

(* getProposal: the proposal's votes counted FOR + AGAINST + ABSTAIN.     *)
CastVoteReread(r) ==
    /\ req[r].pc = "written"
    /\ req' = [req EXCEPT ![r].pc = "reread",
                          ![r].tally = TotalVotes(req[r].proposal)]
    /\ UNCHANGED <<proposal, votes, sent>>

\* broadcastGovernanceVoteCast's GOVERNANCE_VOTE_CAST payload.
VoteCastPayload(p, t) == [proposal |-> p, tally |-> t]

(* broadcastGovernanceVoteCast(proposalId, newTally).                     *)
CastVoteBroadcast(r) ==
    /\ req[r].pc = "reread"
    /\ sent' = Append(sent, VoteCastPayload(req[r].proposal, req[r].tally))
    /\ req' = [req EXCEPT ![r].pc = "done"]
    /\ UNCHANGED <<proposal, votes>>

\* A query of castVote rejects (connection lost, timeout) and the request
\* ends with whatever it already wrote.
CastVoteFail(r) ==
    /\ req[r].pc \in {"checked", "found", "written"}
    /\ req' = [req EXCEPT ![r].pc = "done"]
    /\ UNCHANGED <<proposal, votes, sent>>

Next ==
    \/ \E p \in Proposals : CreateProposal(p) \/ Expire(p)
    \/ \E r \in Requests, p \in Proposals, v \in Voters, x \in VoteValues :
          CastVoteRead(r, p, v, x)
    \/ \E r \in Requests :
          \/ CastVoteFind(r) \/ CastVoteUpdate(r) \/ CastVoteCreate(r)
          \/ CastVoteRefused(r) \/ CastVoteReread(r)
          \/ CastVoteBroadcast(r) \/ CastVoteFail(r)

Spec == Init /\ [][Next]_vars

-----------------------------------------------------------------------------
\* The handlers' locals are typed.
TypeOK ==
    /\ proposal \in [Proposals -> [status : {"none", "ACTIVE"}, expired : BOOLEAN]]
    /\ votes \subseteq VoteRow
    /\ req \in [Requests -> RequestRecord]
    /\ sent \in Seq([proposal : Proposals, tally : Nat])

(***************************************************************************)
(* A voter has at most one vote on a proposal, so the tally of getProposal *)
(* and the newTally castVote broadcasts count voters: castVote looks for   *)
(* the voter's vote and updates it instead of adding a second one.         *)
(***************************************************************************)
OneVotePerVoter ==
    \A p \in Proposals, v \in Voters : Cardinality(VotesBy(p, v)) <= 1

(***************************************************************************)
(* The tallies broadcast for a proposal never go down: votes are only      *)
(* added or changed, so a subscriber that keeps the last newTally it       *)
(* received holds the proposal's current count.                            *)
(***************************************************************************)
BroadcastTallyMonotone ==
    \A i, j \in 1..Len(sent) :
        (i < j /\ sent[i].proposal = sent[j].proposal) => sent[i].tally <= sent[j].tally
=============================================================================
