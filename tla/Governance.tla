----------------------------- MODULE Governance -----------------------------
(***************************************************************************)
(* Policy-authorized acceptance in weave-engine: one governed view, whose  *)
(* head names the policy in charge, the last decision and the accepted     *)
(* source.  A proposal is bound to the policy and the head it was made     *)
(* under, collects signed approvals, and is accepted by a quorum of them;  *)
(* accepting publishes a source or replaces the policy.  The accepted past *)
(* can be read back at a time, each occurrence verified from the tables.   *)
(*                                                                         *)
(* Views share nothing, so one is modelled.  Every operation is one        *)
(* transaction.  It takes one sample t of the clock, which may be any time *)
(* (a host clock moves both ways between operations), and meets whatever   *)
(* the object readers grant its host at that moment: vis is the set of     *)
(* sources it can read whole, with their pinned closures.  Identities drawn*)
(* at random (decisions, events) are the position in the journal; a retry  *)
(* under a used nonce changes nothing and is left out.                     *)
(***************************************************************************)
EXTENDS Naturals, Sequences, FiniteSets

CONSTANTS
    Host,           \* principals: proposers, readers, adapter owners
    Member,         \* approval keys
    Source,         \* a graph revision on a branch
    NoSource,
    Policy,         \* the policy revisions in circulation (of one policy id)
    NoPolicy,
    Terms,          \* what each policy revision says
    Proposal,       \* proposal identities
    Validity,       \* the validity periods approvals are signed with
    Deadline,       \* the expiry times proposals are made with
    MaxTime,        \* bound: clock samples are 0..MaxTime
    MaxDecisions,   \* bound: accepted decisions
    MaxOpen         \* bound: proposals filed and not accepted

Time == 0..MaxTime
Period == [issued : Time, expires : 0..MaxTime + 1]

ASSUME GovernanceAssumption ==
    /\ {MaxTime, MaxDecisions, MaxOpen} \subseteq Nat
    /\ NoSource \notin Source /\ NoPolicy \notin Policy
    /\ IsFiniteSet(Member) /\ IsFiniteSet(Proposal)
    /\ Terms \in [Policy -> [members : SUBSET Member, threshold : Nat \ {0},
                             proposers : SUBSET Host, readers : SUBSET Host,
                             sources : SUBSET Source, from : Nat, until : Nat]]
    /\ Validity \subseteq Period
    /\ Deadline \subseteq 0..MaxTime + 1

VARIABLES
    installed,  \* table governance_policies
    head,       \* table governance_views
    proposals,  \* table governance_proposals
    approvals,  \* table governance_approvals
    decisions   \* tables governance_decisions, governance_events, governance_graphs

governance == <<installed, head, proposals, approvals, decisions>>

NoProposal == [policy |-> NoPolicy, expected |-> 0, expires |-> 0,
               source |-> NoSource, replace |-> NoPolicy, proposer |-> "nobody"]
NoApproval == [issued |-> 0, expires |-> 0]
NoHead == [policy |-> NoPolicy, decision |-> 0, source |-> NoSource]

Occurrence == 1..Len(decisions)
Filed == {q \in Proposal : proposals[q].policy # NoPolicy}
Signed(q) == {m \in Member : approvals[q][m] # NoApproval}
Publishes(q) == proposals[q].source # NoSource
Undecided == {q \in Filed : \A d \in Occurrence : decisions[d].proposal # q}

GovernanceTypeOK ==
    /\ installed \subseteq Policy
    /\ head \in [policy : Policy \cup {NoPolicy}, decision : 0..Len(decisions),
                 source : Source \cup {NoSource}]
    /\ \A q \in Proposal : \/ proposals[q] = NoProposal
                           \/ proposals[q] \in
                                [policy : installed, expected : 0..Len(decisions),
                                 expires : Deadline, source : Source \cup {NoSource},
                                 replace : Policy \cup {NoPolicy}, proposer : Host]
    /\ DOMAIN proposals = Proposal
    /\ approvals \in [Proposal -> [Member -> Period]]
    /\ decisions \in Seq([proposal : Proposal, parent : 0..MaxDecisions, time : Time,
                          policy : Policy, next : Policy,
                          source : Source \cup {NoSource}, publication : 0..MaxDecisions])
    /\ Len(decisions) <= MaxDecisions

GovernanceInit ==
    /\ installed = {}
    /\ head = NoHead
    /\ proposals = [q \in Proposal |-> NoProposal]
    /\ approvals = [q \in Proposal |-> [m \in Member |-> NoApproval]]
    /\ decisions = <<>>

(***************************************************************************)
(* Current authority                                                       *)
(***************************************************************************)

\* The policy the head names is installed and in force.
PolicyNow(t) ==
    /\ head.policy # NoPolicy
    /\ Terms[head.policy].from <= t /\ t < Terms[head.policy].until

\* An empty list of readers is public.
Admits(h) ==
    \/ Terms[head.policy].readers = {}
    \/ h \in Terms[head.policy].readers \cup Terms[head.policy].proposers

Open(s, vis) == s \in Terms[head.policy].sources \cap vis

CheckProposal(q, h, t, vis) ==
    /\ PolicyNow(t)
    /\ {h, q.proposer} \subseteq Terms[head.policy].proposers
    /\ q.policy = head.policy
    /\ t < q.expires /\ q.expires <= Terms[head.policy].until
    /\ \/ q.source # NoSource /\ Open(q.source, vis)
       \/ /\ q.source = NoSource /\ q.replace # NoPolicy
          /\ head.source # NoSource => Open(head.source, vis)
          /\ q.replace # head.policy
          /\ Terms[q.replace].from <= t /\ t < Terms[q.replace].until

\* The decision's acceptance record is readable now; one without a record is unprotected.
DecisionCurrent(d, h, t, vis) ==
    decisions[d].source # NoSource =>
        PolicyNow(t) /\ Admits(h) /\ Open(decisions[d].source, vis)

InspectHead(h, t, vis) ==
    /\ PolicyNow(t) /\ Admits(h)
    /\ head.source # NoSource => Open(head.source, vis)
    /\ head.decision # 0 => DecisionCurrent(head.decision, h, t, vis)

(***************************************************************************)
(* The operations                                                          *)
(***************************************************************************)

\* Bootstrap; the policy need not be in force yet.
InstallRoot(p) ==
    /\ head = NoHead
    /\ installed' = {p}
    /\ head' = [NoHead EXCEPT !.policy = p]
    /\ UNCHANGED <<proposals, approvals, decisions>>

Propose(q, h, s, p, deadline, t, vis) ==
    LET record == [policy |-> head.policy, expected |-> head.decision, expires |-> deadline,
                   source |-> s, replace |-> p, proposer |-> h]
    IN  /\ Cardinality(Undecided) < MaxOpen
        /\ q \notin Filed
        /\ CheckProposal(record, h, t, vis)
        /\ proposals' = [proposals EXCEPT ![q] = record]
        /\ UNCHANGED <<installed, head, approvals, decisions>>

VerifiesAhead(q, m, v, t) ==
    /\ m \in Terms[head.policy].members
    /\ Terms[head.policy].from <= v.issued
    /\ t < v.expires /\ v.expires <= proposals[q].expires

\* The approval v of member m is one the policy in charge accepts at time t.
Verifies(q, m, v, t) ==
    /\ m \in Terms[head.policy].members
    /\ v.issued <= t /\ Terms[head.policy].from <= v.issued
    /\ t < v.expires /\ v.expires <= proposals[q].expires

AnyHead(q) == q \in Filed

\* The view still stands where the proposal was made: the compare-and-set of the head.
AtHead(q) == head.decision = proposals[q].expected

Approve(q, h, m, v, t, vis) ==
    /\ q \in Filed
    /\ CheckProposal(proposals[q], h, t, vis)
    /\ Verifies(q, m, v, t)
    /\ AtHead(q)
    /\ m \notin Signed(q)
    /\ approvals' = [approvals EXCEPT ![q][m] = v]
    /\ UNCHANGED <<installed, head, proposals, decisions>>

\* Approvals still standing at t; the expired ones are passed over.
Standing(q, t) == {m \in Signed(q) : t < approvals[q][m].expires}

\* What the stored rows must say of a decision for its place in the history to hold.
HistoryLink(d) ==
    LET q == proposals[decisions[d].proposal]
        time == decisions[d].time
        terms == Terms[q.policy]
        signed == Signed(decisions[d].proposal)
        approval == approvals[decisions[d].proposal]
    IN  /\ q.expected = decisions[d].parent
        /\ q.policy = decisions[d].policy
        /\ decisions[d].next = IF q.source # NoSource THEN q.policy ELSE q.replace
        /\ time < q.expires /\ terms.from <= time /\ time < terms.until
        /\ signed \subseteq terms.members
        /\ \A m \in signed : /\ terms.from <= approval[m].issued /\ approval[m].issued <= time
                             /\ approval[m].issued < approval[m].expires
                             /\ approval[m].expires <= q.expires
        /\ Cardinality({m \in signed : time < approval[m].expires}) >= terms.threshold

\* The acceptance record a decision is given: a replaced policy inherits its parent's.
Exposure(q) ==
    LET parent == proposals[q].expected
    IN  IF Publishes(q)
        THEN [source |-> proposals[q].source, publication |-> Len(decisions) + 1]
        ELSE IF parent = 0 THEN [source |-> NoSource, publication |-> 0]
        ELSE [source |-> decisions[parent].source, publication |-> decisions[parent].publication]

PredecessorVerifies(t) == head.decision # 0 => HistoryLink(head.decision)

\* The previous decision still verifies, and the clock has not gone behind it.
PredecessorHolds(t) ==
    head.decision # 0 =>
        HistoryLink(head.decision) /\ decisions[head.decision].time <= t

Accept(q, h, t, vis) ==
    LET p == proposals[q]
        next == IF Publishes(q) THEN p.policy ELSE p.replace
        exposure == Exposure(q)
    IN  /\ Len(decisions) < MaxDecisions
        /\ q \in Filed
        /\ CheckProposal(p, h, t, vis)
        /\ \A m \in Standing(q, t) : Verifies(q, m, approvals[q][m], t)
        /\ Cardinality(Standing(q, t)) >= Terms[head.policy].threshold
        /\ AtHead(q)
        /\ PredecessorHolds(t)
        /\ Publishes(q) \/ p.replace \notin installed
        /\ exposure.source # NoSource => exposure.source \in vis
        /\ installed' = installed \cup {next}
        /\ head' = [policy |-> next, decision |-> Len(decisions) + 1,
                    source |-> IF Publishes(q) THEN p.source ELSE head.source]
        /\ decisions' = Append(decisions,
                            [proposal |-> q, parent |-> p.expected, time |-> t,
                             policy |-> p.policy, next |-> next,
                             source |-> exposure.source, publication |-> exposure.publication])
        /\ UNCHANGED <<proposals, approvals>>

ProposeAny == \E q \in Proposal, h \in Host, deadline \in Deadline, t \in Time, vis \in SUBSET Source :
                 \/ \E s \in Source : Propose(q, h, s, NoPolicy, deadline, t, vis)
                 \/ \E p \in Policy : Propose(q, h, NoSource, p, deadline, t, vis)
ApproveAny == \E q \in Proposal, h \in Host, m \in Member, v \in Validity, t \in Time, vis \in SUBSET Source :
                 Approve(q, h, m, v, t, vis)
AcceptAny == \E q \in Proposal, h \in Host, t \in Time, vis \in SUBSET Source : Accept(q, h, t, vis)

GovernanceNext ==
    \/ \E p \in Policy : InstallRoot(p)
    \/ ProposeAny
    \/ ApproveAny
    \/ AcceptAny

GovernanceSpec == GovernanceInit /\ [][GovernanceNext]_governance

(***************************************************************************)
(* Reading the accepted past                                               *)
(***************************************************************************)

\* The occurrence a query at time c answers: back along the parents from the head.
AcceptedAt(c) ==
    LET back[d \in 0..Len(decisions)] ==
            IF d = 0 \/ decisions[d].time <= c THEN d ELSE back[decisions[d].parent]
    IN  back[head.decision]

\* The source selected at a decision: its own, or that of the nearest publication before it.
SelectedAt(d) ==
    LET back[e \in 0..Len(decisions)] ==
            IF e = 0 THEN NoSource
            ELSE IF Publishes(decisions[e].proposal) THEN proposals[decisions[e].proposal].source
            ELSE back[proposals[decisions[e].proposal].expected]
    IN  back[d]

(***************************************************************************)
(* Properties                                                              *)
(***************************************************************************)

\* The verification a history read performs succeeds on every accepted occurrence: an
\* approval recorded late, expired or issued ahead of a clock that moved back never makes
\* a decision unreadable (accept_governance against governance_history_link).
HistoryVerifies == \A d \in Occurrence : HistoryLink(d)

\* The head is the last link of one unforked chain, at times that never decrease; it carries
\* the policy that link installed and the source its nearest publication selected, which is
\* also what the acceptance record binds (the compare-and-set of accept_governance).
HeadEndsHistory ==
    /\ head.decision = Len(decisions)
    /\ \A d \in Occurrence :
          /\ decisions[d].parent = d - 1
          /\ \A e \in 1..d : decisions[e].time <= decisions[d].time
          /\ d > 1 => decisions[d].policy = decisions[d - 1].next
          /\ decisions[d].source = SelectedAt(d)
    /\ head.decision # 0 => /\ head.policy = decisions[head.decision].next
                            /\ head.source = decisions[head.decision].source

\* A query at a past time answers what a register written at each acceptance was known to
\* hold then: no acceptance rewrites what was accepted before its own time
\* (query_accepted_history_for).
AcceptedRegister ==
    INSTANCE RecordedRegister WITH
        Line <- {"view"}, Value <- 1..MaxDecisions, Nothing <- 0, Time <- Time,
        current <- [l \in {"view"} |-> head.decision],
        known <- [l \in {"view"} |-> [c \in Time |-> AcceptedAt(c)]],
        stamp <- [l \in {"view"} |->
                    IF head.decision = 0 THEN 0 ELSE decisions[head.decision].time],
        retired <- {}
AcceptanceIsRecorded == AcceptedRegister!Spec
=============================================================================
