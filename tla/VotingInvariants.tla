-------------------------- MODULE VotingInvariants --------------------------
(***************************************************************************)
(* The inductive invariants behind the safety properties of Voting.        *)
(***************************************************************************)
EXTENDS Voting

\* The count a request is about to write is within the limit, like the counts
\* already stored.
CountInv ==
  /\ CountWithinLimit
  /\ \A r \in Requests : pc[r] = "put" => local[r].count \in 1..DailyLimit

\* Documents are dated by the clock, one at a time, so those of a voter have a
\* newest.
DatedInv ==
  /\ dayStart <= clock
  /\ \A d \in votingLimits : d.at < clock
  /\ \A d, e \in votingLimits : d.at = e.at => d = e
  /\ \A v \in Voters : LimitsToday(v) # {} =>
       \E d \in LimitsToday(v) : IsNewest(d, LimitsToday(v))

\* The document of a request is created after its decision, and a request that
\* found a document found one of its own voter, a user.
Decided(r) == pc[r] \notin {"idle", "limit", "put", "create"}

FoundOwn(r) ==
  /\ voter(r) \in Users
  /\ local[r].limit \in Requests
  /\ Decided(local[r].limit)
  /\ \A d \in votingLimits : d.id = local[r].limit => d.voter = voter(r)

OwnerInv ==
  /\ \A d \in votingLimits : Decided(d.id) /\ d.count <= Quota(d.voter)
  /\ \A d, e \in votingLimits : d.id = e.id => d = e
  /\ \A r \in Requests : pc[r] = "put" => FoundOwn(r)

Deciding(r) == pc[r] \in {"put", "create"}

\* The admissions that earlier faults left uncounted.
Slack(v) == Quota(v) * faults

\* What is known of a voter's admissions while no request of the voter is
\* between its decision and the write of its count ...
SettledInv(v) ==
  (\A r \in Requests : Deciding(r) => voter(r) # v) =>
    /\ LimitsToday(v) = {} => admitted[v] <= Slack(v)
    /\ LimitsToday(v) # {} =>
         \E d \in LimitsToday(v) : /\ IsNewest(d, LimitsToday(v))
                                  /\ admitted[v] <= d.count + Slack(v)

\* ... and while request r is.
DecidingInv(r) ==
  /\ pc[r] = "create" => admitted[voter(r)] <= 1 + Slack(voter(r))
  /\ pc[r] = "put" =>
       /\ admitted[voter(r)] <= local[r].count + Slack(voter(r))
       /\ LimitsToday(voter(r)) = {} => admitted[voter(r)] = 0
       /\ LimitsToday(voter(r)) # {} =>
            \E d \in LimitsToday(voter(r)) :
              IsNewest(d, LimitsToday(voter(r))) /\ d.id = local[r].limit

QuotaInv ==
  /\ \A v \in Voters : SettledInv(v)
  /\ \A r \in Requests : DecidingInv(r)
=============================================================================
