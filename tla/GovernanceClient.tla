--------------------------- MODULE GovernanceClient ---------------------------
(***************************************************************************)
(* The governance hook and the proposal page of the frontend               *)
(* (src/frontend/src/hooks/useGovernance.ts,                               *)
(* src/frontend/src/app/governance/[id]/page.tsx and the VoteButton and    *)
(* VoteTallyBar components).                                               *)
(*                                                                         *)
(* The hook keeps its proposals, votingState and userVoted in React state, *)
(* seeded from INITIAL_PROPOSALS each time the page mounts. vote() checks  *)
(* userVoted, marks the vote loading, awaits a 1500 ms timer that stands   *)
(* for signing, then adds the vote's weight to the proposal's tally and    *)
(* sets userVoted. The page renders the three VoteButtons of an OPEN       *)
(* proposal, disabled while userVoted[id] or while the vote is loading.    *)
(*                                                                         *)
(* A click is a discrete event: React renders its state updates before the *)
(* next click is dispatched, so each click sees the state the previous     *)
(* steps left. The timer callbacks are queued in order (equal delays);     *)
(* navigating to another page unmounts the hook, and a timer of the old    *)
(* instance then updates nothing.                                          *)
(***************************************************************************)
EXTENDS Naturals, Sequences

CONSTANTS
    MaxClicks    \* bound on votes waiting on the signing timer at once

\* The ids of INITIAL_PROPOSALS, and an id the page finds no proposal for.
Ids == {"1", "2", "3"}
UnknownId == "4"
PageIds == Ids \cup {UnknownId}

VoteTypes == {"For", "Against", "Abstain"}

\* The field of proposal.votes a vote type adds to.
VoteField(t) == CASE t = "For" -> "for" [] t = "Against" -> "against"
                  [] t = "Abstain" -> "abstain"

\* The simplified weight vote() adds.
Weight == 100000

\* INITIAL_PROPOSALS: status and tallies.
InitialProposals ==
    [p \in Ids |->
        CASE p = "1" -> [status |-> "OPEN",
                         votes |-> [for |-> 1250000, against |-> 450000, abstain |-> 120000]]
          [] p = "2" -> [status |-> "PASSED",
                         votes |-> [for |-> 5000000, against |-> 1000000, abstain |-> 500000]]
          [] p = "3" -> [status |-> "REJECTED",
                         votes |-> [for |-> 800000, against |-> 2500000, abstain |-> 300000]]]

NoId == "null"
NoError == "null"
AlreadyVoted == "409: Already voted on this proposal"

\* votingState's initial value, and the value a vote leaves on success.
IdleVoting == [id |-> NoId, loading |-> FALSE, error |-> NoError]

VARIABLES
    page,         \* the id in the page's route params
    proposals,    \* the hook's proposals state
    votingState,  \* the hook's votingState
    userVoted,    \* the hook's userVoted (a missing key reads as false)
    timers        \* pending signing timers of the mounted hook, oldest first

vars == <<page, proposals, votingState, userVoted, timers>>

\* The state a freshly mounted page's hook starts in.
Mounted ==
    /\ proposals' = InitialProposals
    /\ votingState' = IdleVoting
    /\ userVoted' = [p \in Ids |-> FALSE]
    /\ timers' = <<>>

Init ==
    /\ page \in PageIds
    /\ proposals = InitialProposals
    /\ votingState = IdleVoting
    /\ userVoted = [p \in Ids |-> FALSE]
    /\ timers = <<>>

\* The page renders the vote buttons only for a found, OPEN proposal.
Open == page \in Ids /\ proposals[page].status = "OPEN"

\* VoteButton: disabled={userVoted[id] || false} and
\* isLoading={votingState.id === id && votingState.loading}.
IsLoading == votingState.id = page /\ votingState.loading
ButtonEnabled == ~userVoted[page] /\ ~IsLoading

(* A click on a VoteButton runs vote(id, type); vote() returns with the   *)
(* 409 error when userVoted[id] is set.                                   *)
VoteRejected(t) ==
    /\ Open /\ ButtonEnabled
    /\ userVoted[page]
    /\ votingState' = [id |-> page, loading |-> FALSE, error |-> AlreadyVoted]
    /\ UNCHANGED <<page, proposals, userVoted, timers>>

(* Otherwise vote() sets the vote loading and awaits the signing timer.   *)
VoteStart(t) ==
    /\ Open /\ ButtonEnabled
    /\ ~userVoted[page]
    /\ Len(timers) < MaxClicks
    /\ votingState' = [id |-> page, loading |-> TRUE, error |-> NoError]
    /\ timers' = Append(timers, [id |-> page, type |-> t])
    /\ UNCHANGED <<page, proposals, userVoted>>

\* The tallies after setProposals adds a vote of type t to proposal p.
AddVote(p, t) == [proposals EXCEPT ![p].votes[VoteField(t)] = @ + Weight]

(* The timer fires: setProposals adds the weight, setUserVoted marks the  *)
(* proposal and setVotingState clears the vote.                           *)
SigningDone ==
    /\ timers # <<>>
    /\ LET x == Head(timers) IN
         /\ proposals' = AddVote(x.id, x.type)
         /\ userVoted' = [userVoted EXCEPT ![x.id] = TRUE]
    /\ votingState' = IdleVoting
    /\ timers' = Tail(timers)
    /\ UNCHANGED page

(* The user leaves for another proposal's page (or the same one, anew):   *)
(* the hook remounts from INITIAL_PROPOSALS and the old timers are void.  *)
Navigate(q) ==
    /\ page' = q
    /\ Mounted

Next ==
    \/ \E t \in VoteTypes : VoteRejected(t) \/ VoteStart(t)
    \/ SigningDone
    \/ \E q \in PageIds : Navigate(q)

Spec == Init /\ [][Next]_vars

-----------------------------------------------------------------------------
\* VoteTallyBar's total of a proposal's votes.
Total(p) == proposals[p].votes.for + proposals[p].votes.against
              + proposals[p].votes.abstain

InitialTotal(p) == InitialProposals[p].votes.for + InitialProposals[p].votes.against
                     + InitialProposals[p].votes.abstain

\* The hook's state keeps its shape.
TypeOK ==
    /\ page \in PageIds
    /\ proposals \in [Ids -> [status : {"OPEN", "PASSED", "REJECTED"},
                              votes : [for : Nat, against : Nat, abstain : Nat]]]
    /\ votingState \in [id : PageIds \cup {NoId}, loading : BOOLEAN,
                        error : {NoError, AlreadyVoted}]
    /\ userVoted \in [Ids -> BOOLEAN]
    /\ timers \in Seq([id : Ids, type : VoteTypes])

(***************************************************************************)
(* A user's vote is counted once: a proposal's tally exceeds its initial   *)
(* total by one Weight when userVoted marks it, and by nothing otherwise.  *)
(* vote() tests userVoted before the 1500 ms await but sets it only after, *)
(* so a second click during the await is stopped by the button's          *)
(* isLoading alone.                                                        *)
(***************************************************************************)
VoteCountedOnce ==
    \A p \in Ids : Total(p) = InitialTotal(p) + (IF userVoted[p] THEN Weight ELSE 0)
=============================================================================
