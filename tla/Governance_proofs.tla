------------------------- MODULE Governance_proofs -------------------------
(***************************************************************************)
(* Theorems of Governance for every value of its constants.                *)
(*                                                                         *)
(* A decision verifies for good because what it was made of stands still:  *)
(* its proposal was made one decision earlier, and the compare-and-set of  *)
(* the head admits no approval of it afterwards.  So the invariant says    *)
(* what every stored approval passed (SignedInForce) and where the head    *)
(* stands on the chain (Chained).                                          *)
(***************************************************************************)
EXTENDS Governance, SequenceTheorems, WellFoundedInduction, TLAPS

SignedInForce ==
    \A q \in Proposal : \A m \in Signed(q) :
        /\ q \in Filed
        /\ m \in Terms[proposals[q].policy].members
        /\ Terms[proposals[q].policy].from <= approvals[q][m].issued
        /\ approvals[q][m].issued < approvals[q][m].expires
        /\ approvals[q][m].expires <= proposals[q].expires

Chained ==
    /\ head.decision = Len(decisions)
    /\ head.policy = NoPolicy => installed = {} /\ decisions = <<>> /\ head = NoHead
    /\ head.policy # NoPolicy => head.policy \in installed
    /\ \A d \in Occurrence :
          /\ decisions[d].proposal \in Filed
          /\ decisions[d].parent = d - 1
          /\ \A e \in 1..d : decisions[e].time <= decisions[d].time
          /\ d > 1 => decisions[d].policy = decisions[d - 1].next
          /\ decisions[d].source = IF Publishes(decisions[d].proposal)
                                   THEN proposals[decisions[d].proposal].source
                                   ELSE IF d = 1 THEN NoSource ELSE decisions[d - 1].source
    /\ head.decision # 0 => /\ head.policy = decisions[head.decision].next
                            /\ head.source = decisions[head.decision].source
    /\ head.decision = 0 => head.source = NoSource

GovernanceInv == GovernanceTypeOK /\ SignedInForce /\ Chained /\ HistoryVerifies

ProposalOf(I, n) == [policy : I, expected : 0..n, expires : Deadline,
                     source : Source \cup {NoSource}, replace : Policy \cup {NoPolicy},
                     proposer : Host]
Decision == [proposal : Proposal, parent : 0..MaxDecisions, time : Time,
             policy : Policy, next : Policy,
             source : Source \cup {NoSource}, publication : 0..MaxDecisions]

LEMMA Types ==
    ASSUME GovernanceTypeOK
    PROVE  /\ installed \subseteq Policy
           /\ head \in [policy : Policy \cup {NoPolicy}, decision : 0..Len(decisions),
                        source : Source \cup {NoSource}]
           /\ \A q \in Proposal : proposals[q] = NoProposal \/ proposals[q] \in ProposalOf(installed, Len(decisions))
           /\ DOMAIN proposals = Proposal
           /\ approvals \in [Proposal -> [Member -> Period]]
           /\ decisions \in Seq(Decision) /\ Len(decisions) \in 0..MaxDecisions
           /\ DOMAIN decisions = 1..Len(decisions)
           /\ \A d \in Occurrence : decisions[d] \in Decision
           /\ \A q \in Filed : q \in Proposal /\ proposals[q] \in ProposalOf(installed, Len(decisions))
  <1>1. decisions \in Seq(Decision) /\ Len(decisions) <= MaxDecisions
    BY DEF GovernanceTypeOK, Decision
  <1>2. Len(decisions) \in 0..MaxDecisions /\ DOMAIN decisions = 1..Len(decisions)
    BY <1>1, GovernanceAssumption
  <1>3. \A d \in Occurrence : decisions[d] \in Decision
    BY <1>1, <1>2 DEF Occurrence
  <1>4. \A q \in Filed : q \in Proposal /\ proposals[q] # NoProposal
    BY DEF Filed, NoProposal
  <1> QED  BY <1>1, <1>2, <1>3, <1>4 DEF GovernanceTypeOK, ProposalOf

LEMMA Inits == GovernanceInit => GovernanceInv
  <1> SUFFICES ASSUME GovernanceInit PROVE GovernanceInv
    OBVIOUS
  <1>1. decisions = <<>> /\ Len(decisions) = 0 /\ Occurrence = {} /\ Filed = {}
    BY DEF GovernanceInit, Occurrence, Filed, NoProposal
  <1>2. \A q \in Proposal : Signed(q) = {}
    BY DEF GovernanceInit, Signed
  <1>3. GovernanceTypeOK
    <2>1. NoApproval \in Period
      BY GovernanceAssumption DEF NoApproval, Period, Time
    <2> QED  BY <1>1, <2>1, GovernanceAssumption DEF GovernanceInit, GovernanceTypeOK, NoHead
  <1>4. head = NoHead /\ installed = {}
    BY DEF GovernanceInit
  <1> QED  BY <1>1, <1>2, <1>3, <1>4
           DEF GovernanceInv, SignedInForce, Chained, HistoryVerifies, NoHead

(***************************************************************************)
(* Steps that accept nothing                                               *)
(***************************************************************************)

LEMMA InstallKeeps ==
    ASSUME GovernanceInv, NEW p \in Policy, InstallRoot(p)
    PROVE  GovernanceInv'
  <1>1. head.policy = NoPolicy /\ installed = {} /\ decisions = <<>> /\ p # NoPolicy
    BY GovernanceAssumption DEF InstallRoot, GovernanceInv, Chained, NoHead
  <1>2. Len(decisions) = 0 /\ Occurrence = {} /\ Filed = {}
    <2>1. \A q \in Proposal : proposals[q] = NoProposal
      BY <1>1 DEF GovernanceInv, GovernanceTypeOK
    <2> QED  BY <1>1, <2>1 DEF Occurrence, Filed, NoProposal
  <1>3. /\ proposals' = proposals /\ approvals' = approvals /\ decisions' = decisions
        /\ installed' = {p} /\ head' = [NoHead EXCEPT !.policy = p]
    BY DEF InstallRoot
  <1>4. \A q \in Proposal : Signed(q) = {}
    BY <1>2 DEF GovernanceInv, SignedInForce
  <1>5. Occurrence' = {} /\ \A q \in Proposal : Signed(q)' = {}
    BY <1>2, <1>3, <1>4 DEF Occurrence, Signed
  <1>6. GovernanceTypeOK'
    BY <1>1, <1>2, <1>3 DEF GovernanceInv, GovernanceTypeOK, NoHead
  <1>7. Chained'
    BY <1>1, <1>2, <1>3, <1>5 DEF Chained, NoHead
  <1> QED  BY <1>5, <1>6, <1>7 DEF GovernanceInv, SignedInForce, HistoryVerifies

LEMMA ProposeKeeps ==
    ASSUME GovernanceInv, NEW q \in Proposal, NEW h \in Host,
           NEW s \in Source \cup {NoSource}, NEW p \in Policy \cup {NoPolicy},
           NEW deadline \in Deadline, NEW t, NEW vis, Propose(q, h, s, p, deadline, t, vis)
    PROVE  GovernanceInv'
  <1> DEFINE record == [policy |-> head.policy, expected |-> head.decision, expires |-> deadline,
                        source |-> s, replace |-> p, proposer |-> h]
  <1>1. /\ installed' = installed /\ head' = head /\ approvals' = approvals
        /\ decisions' = decisions /\ q \notin Filed
        /\ proposals' = [proposals EXCEPT ![q] = record]
    BY DEF Propose
  <1>2. head.policy # NoPolicy /\ head.policy \in installed
    BY DEF Propose, CheckProposal, PolicyNow, GovernanceInv, Chained
  <1>3. record \in ProposalOf(installed, Len(decisions)) /\ record # NoProposal
    BY <1>2, Types DEF GovernanceInv, ProposalOf, NoProposal
  <1> HIDE DEF record
  <1>4. \A x \in Proposal : x # q => proposals'[x] = proposals[x]
    BY <1>1, Types DEF GovernanceInv
  <1>5. Filed \subseteq Filed'
    BY <1>1, <1>4 DEF Filed
  <1>6. \A x \in Filed : x # q /\ x \in Proposal /\ proposals'[x] = proposals[x]
    BY <1>1, <1>4 DEF Filed
  <1>7. \A x \in Proposal : Signed(x)' = Signed(x)
    BY <1>1 DEF Signed
  <1>8. GovernanceTypeOK'
    <2>1. \A x \in Proposal : proposals'[x] = NoProposal \/ proposals'[x] \in ProposalOf(installed, Len(decisions))
      BY <1>1, <1>3, <1>4, Types DEF GovernanceInv
    <2>2. DOMAIN proposals' = Proposal
      BY <1>1, Types DEF GovernanceInv
    <2> QED  BY <1>1, <2>1, <2>2 DEF GovernanceInv, GovernanceTypeOK, ProposalOf
  <1>9. SignedInForce'
    BY <1>1, <1>5, <1>6, <1>7 DEF GovernanceInv, SignedInForce
  <1>10. \A d \in Occurrence : decisions[d].proposal \in Filed
    BY DEF GovernanceInv, Chained
  <1>11. Chained'
    BY <1>1, <1>5, <1>6, <1>10 DEF GovernanceInv, Chained, Occurrence, Publishes
  <1>12. HistoryVerifies'
    <2> SUFFICES ASSUME NEW d \in Occurrence PROVE HistoryLink(d)'
      BY <1>1 DEF HistoryVerifies, Occurrence
    <2>1. proposals'[decisions[d].proposal] = proposals[decisions[d].proposal]
          /\ Signed(decisions[d].proposal)' = Signed(decisions[d].proposal)
      <3>1. decisions[d].proposal \in Filed /\ decisions[d].proposal # q
        BY <1>1, <1>10
      <3> QED  BY <1>1, <1>6, <3>1 DEF Signed
    <2>2. HistoryLink(d)
      BY DEF GovernanceInv, HistoryVerifies
    <2> QED  BY <1>1, <2>1, <2>2 DEF HistoryLink, Signed
  <1> QED  BY <1>8, <1>9, <1>11, <1>12 DEF GovernanceInv

\* An approval is admitted only while the head stands where the proposal was made, so
\* never of a proposal that was decided.
LEMMA ApproveKeeps ==
    ASSUME GovernanceInv, NEW q \in Proposal, NEW h, NEW m \in Member, NEW v \in Validity,
           NEW t \in Time, NEW vis, Approve(q, h, m, v, t, vis)
    PROVE  GovernanceInv'
  <1>1. /\ installed' = installed /\ head' = head /\ proposals' = proposals /\ decisions' = decisions
        /\ approvals' = [approvals EXCEPT ![q][m] = v]
        /\ q \in Filed /\ proposals[q].policy = head.policy
        /\ Verifies(q, m, v, t) /\ head.decision = proposals[q].expected
    BY DEF Approve, CheckProposal, AtHead
  <1>2. v \in Period /\ v.issued \in Nat /\ v.expires \in Nat /\ t \in Nat
    BY GovernanceAssumption DEF Period, Time
  <1>3. approvals \in [Proposal -> [Member -> Period]]
    BY Types DEF GovernanceInv
  <1>4. /\ \A x \in Proposal, y \in Member : x # q \/ y # m => approvals'[x][y] = approvals[x][y]
        /\ approvals'[q][m] = v
        /\ approvals' \in [Proposal -> [Member -> Period]]
    BY <1>1, <1>2, <1>3
  <1>5. GovernanceTypeOK'
    BY <1>1, <1>4 DEF GovernanceInv, GovernanceTypeOK
  <1>6. SignedInForce'
    <2> SUFFICES ASSUME NEW x \in Proposal, NEW y \in Member, approvals'[x][y] # NoApproval
                 PROVE  /\ x \in Filed
                        /\ y \in Terms[proposals[x].policy].members
                        /\ Terms[proposals[x].policy].from <= approvals'[x][y].issued
                        /\ approvals'[x][y].issued < approvals'[x][y].expires
                        /\ approvals'[x][y].expires <= proposals[x].expires
      BY <1>1 DEF SignedInForce, Signed, Filed
    <2>1. CASE x = q /\ y = m
      BY <1>1, <1>2, <1>4, <2>1 DEF Verifies
    <2>2. CASE x # q \/ y # m
      <3>1. y \in Signed(x) /\ approvals'[x][y] = approvals[x][y]
        BY <1>4, <2>2 DEF Signed
      <3> QED  BY <3>1 DEF GovernanceInv, SignedInForce
    <2> QED  BY <2>1, <2>2
  <1>7. Chained'
    BY <1>1 DEF GovernanceInv, Chained, Occurrence, Filed, Publishes
  <1>8. HistoryVerifies'
    <2> SUFFICES ASSUME NEW d \in Occurrence PROVE HistoryLink(d)'
      BY <1>1 DEF HistoryVerifies, Occurrence
    <2>1. HistoryLink(d) /\ decisions[d].parent = d - 1 /\ d \in 1..Len(decisions)
          /\ head.decision = Len(decisions) /\ Len(decisions) \in Nat
      BY Types DEF GovernanceInv, HistoryVerifies, Chained, Occurrence
    <2>2. decisions[d].proposal # q
      <3>1. proposals[decisions[d].proposal].expected = d - 1
        BY <2>1 DEF HistoryLink
      <3>2. proposals[q].expected = Len(decisions)
        BY <1>1, <2>1
      <3> QED  BY <2>1, <3>1, <3>2
    <2>3. decisions[d].proposal \in Proposal
      BY Types DEF GovernanceInv, Decision
    <2>4. approvals'[decisions[d].proposal] = approvals[decisions[d].proposal]
      BY <1>1, <1>3, <2>2, <2>3
    <2> QED  BY <1>1, <2>1, <2>4 DEF HistoryLink, Signed
  <1> QED  BY <1>5, <1>6, <1>7, <1>8 DEF GovernanceInv

(***************************************************************************)
(* Acceptance                                                              *)
(***************************************************************************)

Accepted(q, t) ==
    [proposal |-> q, parent |-> proposals[q].expected, time |-> t, policy |-> proposals[q].policy,
     next |-> IF Publishes(q) THEN proposals[q].policy ELSE proposals[q].replace,
     source |-> Exposure(q).source, publication |-> Exposure(q).publication]

\* What acceptance checks, and what it writes.
LEMMA AcceptWrites ==
    ASSUME GovernanceInv, NEW q \in Proposal, NEW h, NEW t \in Time, NEW vis, Accept(q, h, t, vis)
    PROVE  /\ proposals' = proposals /\ approvals' = approvals
           /\ installed' = installed \cup {Accepted(q, t).next}
           /\ head' = [policy |-> Accepted(q, t).next, decision |-> Len(decisions) + 1,
                       source |-> IF Publishes(q) THEN proposals[q].source ELSE head.source]
           /\ decisions' = Append(decisions, Accepted(q, t))
           /\ q \in Filed /\ Len(decisions) < MaxDecisions
           /\ proposals[q].policy = head.policy /\ head.policy # NoPolicy
           /\ proposals[q].expected = head.decision /\ head.decision = Len(decisions)
           /\ t < proposals[q].expires
           /\ Terms[head.policy].from <= t /\ t < Terms[head.policy].until
           /\ \A m \in Standing(q, t) : Verifies(q, m, approvals[q][m], t)
           /\ Cardinality(Standing(q, t)) >= Terms[head.policy].threshold
           /\ head.decision # 0 => decisions[head.decision].time <= t
           /\ ~Publishes(q) => proposals[q].replace # NoPolicy
  BY DEF Accept, CheckProposal, PolicyNow, AtHead, PredecessorHolds, Accepted, Publishes,
         GovernanceInv, Chained

LEMMA AcceptedTypes ==
    ASSUME GovernanceInv, NEW q \in Proposal, NEW h, NEW t \in Time, NEW vis, Accept(q, h, t, vis)
    PROVE  /\ Accepted(q, t) \in Decision
           /\ Accepted(q, t).source = IF Publishes(q) THEN proposals[q].source
                                      ELSE IF head.decision = 0 THEN NoSource
                                      ELSE decisions[head.decision].source
           /\ Accepted(q, t).parent = Len(decisions)
  <1>1. /\ q \in Filed /\ Len(decisions) < MaxDecisions /\ MaxDecisions \in Nat
        /\ proposals[q].expected = head.decision /\ head.decision = Len(decisions)
        /\ ~Publishes(q) => proposals[q].replace # NoPolicy
    BY AcceptWrites, GovernanceAssumption
  <1>2. proposals[q] \in ProposalOf(installed, Len(decisions)) /\ installed \subseteq Policy
        /\ Len(decisions) \in Nat
    BY <1>1, Types DEF GovernanceInv
  <1>3. \A d \in Occurrence : decisions[d] \in Decision
    BY Types DEF GovernanceInv
  <1>4. CASE Publishes(q)
    <2>1. Exposure(q).source = proposals[q].source /\ Exposure(q).publication = Len(decisions) + 1
      BY <1>4 DEF Exposure
    <2> QED  BY <1>1, <1>2, <1>4, <2>1 DEF Accepted, Decision, ProposalOf
  <1>5. CASE ~Publishes(q) /\ head.decision = 0
    <2>1. Exposure(q).source = NoSource /\ Exposure(q).publication = 0
      BY <1>1, <1>5 DEF Exposure
    <2> QED  BY <1>1, <1>2, <1>5, <2>1 DEF Accepted, Decision, ProposalOf
  <1>6. CASE ~Publishes(q) /\ head.decision # 0
    <2>1. /\ Exposure(q).source = decisions[head.decision].source
          /\ Exposure(q).publication = decisions[head.decision].publication
      BY <1>1, <1>6 DEF Exposure
    <2>2. decisions[head.decision] \in Decision
      BY <1>1, <1>2, <1>3, <1>6 DEF Occurrence
    <2>3. Accepted(q, t).policy \in Policy /\ Accepted(q, t).next \in Policy
      BY <1>1, <1>2, <1>6 DEF Accepted, ProposalOf
    <2>4. /\ decisions[head.decision].source \in Source \cup {NoSource}
          /\ decisions[head.decision].publication \in 0..MaxDecisions
      BY <2>2 DEF Decision
    <2> QED  BY <1>1, <1>2, <1>6, <2>1, <2>3, <2>4 DEF Accepted, Decision, ProposalOf
  <1> QED  BY <1>4, <1>5, <1>6

\* An approval signed ahead of the clock is refused, one that expired was in force before.
LEMMA AcceptedVerifies ==
    ASSUME GovernanceInv, NEW q \in Proposal, NEW h, NEW t \in Time, NEW vis, Accept(q, h, t, vis),
           NEW n, n = Len(decisions) + 1, decisions'[n] = Accepted(q, t)
    PROVE  HistoryLink(n)'
  <1>1. /\ proposals' = proposals /\ approvals' = approvals
        /\ q \in Filed /\ proposals[q].policy = head.policy
        /\ t < proposals[q].expires
        /\ Terms[head.policy].from <= t /\ t < Terms[head.policy].until
        /\ \A m \in Standing(q, t) : Verifies(q, m, approvals[q][m], t)
        /\ Cardinality(Standing(q, t)) >= Terms[head.policy].threshold
    BY AcceptWrites
  <1>2. /\ decisions'[n].proposal = q /\ decisions'[n].time = t
        /\ decisions'[n].parent = proposals[q].expected
        /\ decisions'[n].policy = proposals[q].policy
        /\ decisions'[n].next = IF proposals[q].source # NoSource THEN proposals[q].policy
                                ELSE proposals[q].replace
    BY DEF Accepted, Publishes
  <1>3. ASSUME NEW m \in Signed(q)
        PROVE  /\ m \in Terms[proposals[q].policy].members
               /\ Terms[proposals[q].policy].from <= approvals[q][m].issued
               /\ approvals[q][m].issued <= t
               /\ approvals[q][m].issued < approvals[q][m].expires
               /\ approvals[q][m].expires <= proposals[q].expires
    <2>1. /\ m \in Terms[proposals[q].policy].members
          /\ Terms[proposals[q].policy].from <= approvals[q][m].issued
          /\ approvals[q][m].issued < approvals[q][m].expires
          /\ approvals[q][m].expires <= proposals[q].expires
      BY DEF GovernanceInv, SignedInForce
    <2>2. approvals[q][m].issued \in Nat /\ approvals[q][m].expires \in Nat /\ t \in Nat
      <3>1. m \in Member /\ approvals[q][m] \in Period
        BY Types DEF GovernanceInv, Signed
      <3> QED  BY <3>1, GovernanceAssumption DEF Period, Time
    <2>3. CASE t < approvals[q][m].expires
      BY <1>1, <2>1, <2>3 DEF Standing, Verifies
    <2>4. CASE ~(t < approvals[q][m].expires)
      BY <2>1, <2>2, <2>4
    <2> QED  BY <2>1, <2>3, <2>4
  <1>4. Signed(q)' = Signed(q)
    BY <1>1 DEF Signed
  <1>5. Signed(decisions[n].proposal)' = Signed(q)
    BY <1>1, <1>2 DEF Signed
  <1>6. {m \in Signed(q) : t < approvals[q][m].expires} = Standing(q, t)
    BY DEF Standing
  <1>7. Signed(q) \subseteq Terms[proposals[q].policy].members
    BY <1>3
  <1> QED  BY <1>1, <1>2, <1>3, <1>5, <1>6, <1>7 DEF HistoryLink, Signed

LEMMA AcceptKeeps ==
    ASSUME GovernanceInv, NEW q \in Proposal, NEW h, NEW t \in Time, NEW vis, Accept(q, h, t, vis)
    PROVE  GovernanceInv'
  <1> DEFINE new == Accepted(q, t)
  <1>1. PICK n : n = Len(decisions) + 1
    OBVIOUS
  <1>2. /\ proposals' = proposals /\ approvals' = approvals
        /\ installed' = installed \cup {new.next}
        /\ head' = [policy |-> new.next, decision |-> n,
                    source |-> IF Publishes(q) THEN proposals[q].source ELSE head.source]
        /\ decisions' = Append(decisions, new)
        /\ q \in Filed /\ Len(decisions) < MaxDecisions
        /\ proposals[q].policy = head.policy /\ head.policy # NoPolicy
        /\ head.decision = Len(decisions)
        /\ head.decision # 0 => decisions[head.decision].time <= t
    BY <1>1, AcceptWrites
  <1>3. /\ new \in Decision /\ new.parent = Len(decisions)
        /\ new.source = IF Publishes(q) THEN proposals[q].source
                        ELSE IF head.decision = 0 THEN NoSource ELSE decisions[head.decision].source
    BY AcceptedTypes
  <1>4. new.proposal = q /\ new.time = t /\ new.policy = head.policy
    BY <1>2 DEF Accepted
  <1> HIDE DEF new
  <1>5. /\ decisions \in Seq(Decision) /\ Len(decisions) \in Nat /\ n \in 1..MaxDecisions
        /\ MaxDecisions \in Nat /\ Occurrence = 1..Len(decisions)
    BY <1>1, <1>2, Types, GovernanceAssumption DEF GovernanceInv, Occurrence
  <1>6. /\ decisions' \in Seq(Decision) /\ Len(decisions') = n /\ Occurrence' = Occurrence \cup {n}
        /\ decisions'[n] = new /\ n \notin Occurrence
        /\ \A d \in Occurrence : decisions'[d] = decisions[d]
    BY <1>1, <1>2, <1>3, <1>5 DEF Occurrence
  <1>7. Filed' = Filed /\ \A x : Signed(x)' = Signed(x)
    BY <1>2 DEF Filed, Signed
  <1>8. new.next \in Policy /\ head \in [policy : Policy \cup {NoPolicy}, decision : 0..Len(decisions),
                                         source : Source \cup {NoSource}]
        /\ proposals[q].source \in Source \cup {NoSource}
    BY <1>2, <1>3, Types DEF GovernanceInv, Decision, ProposalOf
  <1>9. GovernanceTypeOK'
    <2>1. \A x \in Proposal : \/ proposals[x] = NoProposal
                              \/ proposals[x] \in ProposalOf(installed', Len(decisions'))
      <3>1. ProposalOf(installed, Len(decisions)) \subseteq ProposalOf(installed', Len(decisions'))
        BY <1>1, <1>2, <1>5, <1>6 DEF ProposalOf
      <3> QED  BY <3>1, Types DEF GovernanceInv
    <2>2. installed' \subseteq Policy
      BY <1>2, <1>8, Types DEF GovernanceInv
    <2>3. head' \in [policy : Policy \cup {NoPolicy}, decision : 0..Len(decisions'),
                     source : Source \cup {NoSource}]
      BY <1>2, <1>5, <1>6, <1>8
    <2>4. DOMAIN proposals' = Proposal /\ approvals' \in [Proposal -> [Member -> Period]]
      BY <1>2, Types DEF GovernanceInv
    <2>5. Len(decisions') <= MaxDecisions
      BY <1>5, <1>6
    <2> QED  BY <1>2, <1>6, <2>1, <2>2, <2>3, <2>4, <2>5 DEF GovernanceTypeOK, ProposalOf, Decision
  <1>10. SignedInForce'
    BY <1>2, <1>7 DEF GovernanceInv, SignedInForce
  <1>11. ASSUME NEW d \in Occurrence, NEW e \in 1..d
         PROVE  decisions[e].time <= decisions[d].time
    BY DEF GovernanceInv, Chained
  <1>12. \A d \in Occurrence : decisions[d].time <= t
    <2> SUFFICES ASSUME NEW d \in Occurrence PROVE decisions[d].time <= t
      OBVIOUS
    <2>1. head.decision \in Occurrence /\ d \in 1..head.decision /\ head.decision # 0
      BY <1>2, <1>5
    <2>2. decisions[d].time <= decisions[head.decision].time /\ decisions[head.decision].time <= t
      BY <1>2, <1>11, <2>1
    <2>3. decisions[d].time \in Nat /\ decisions[head.decision].time \in Nat /\ t \in Nat
      <3>1. decisions[d] \in Decision /\ decisions[head.decision] \in Decision
        BY <2>1, Types DEF GovernanceInv
      <3>2. \A x \in Time : x \in Nat
        BY GovernanceAssumption DEF Time
      <3> QED  BY <3>1, <3>2 DEF Decision
    <2> QED  BY <2>2, <2>3
  <1>13. Chained'
    <2>1. head'.decision = Len(decisions') /\ head'.policy = new.next /\ head'.policy \in installed'
          /\ head'.policy # NoPolicy /\ head'.decision # 0
      BY <1>2, <1>5, <1>6, <1>8, GovernanceAssumption
    <2>2. head'.source = new.source
      <3>1. CASE Publishes(q)
        BY <1>2, <1>3, <3>1
      <3>2. CASE ~Publishes(q)
        <4>1. head.source = IF head.decision = 0 THEN NoSource ELSE decisions[head.decision].source
          BY DEF GovernanceInv, Chained
        <4> QED  BY <1>2, <1>3, <3>2, <4>1
      <3> QED  BY <3>1, <3>2
    <2>3. ASSUME NEW d \in Occurrence'
          PROVE  /\ decisions'[d].proposal \in Filed
                 /\ decisions'[d].parent = d - 1
                 /\ \A e \in 1..d : decisions'[e].time <= decisions'[d].time
                 /\ d > 1 => decisions'[d].policy = decisions'[d - 1].next
                 /\ decisions'[d].source = IF Publishes(decisions'[d].proposal)
                                           THEN proposals[decisions'[d].proposal].source
                                           ELSE IF d = 1 THEN NoSource ELSE decisions'[d - 1].source
      <3>1. CASE d = n
        <4>1. \A e \in 1..d : decisions'[e].time <= decisions'[d].time
          <5>1. \A e \in 1..d : e = n \/ e \in Occurrence
            BY <1>1, <1>5, <3>1
          <5>2. t <= t
            BY GovernanceAssumption DEF Time
          <5> QED  BY <1>4, <1>6, <1>12, <3>1, <5>1, <5>2
        <4>2. d > 1 => d - 1 = head.decision /\ head.decision \in Occurrence /\ head.decision # 0
          BY <1>1, <1>2, <1>5, <3>1
        <4>3. d > 1 => decisions'[d].policy = decisions'[d - 1].next
          <5>1. head.decision # 0 => head.policy = decisions[head.decision].next
            BY DEF GovernanceInv, Chained
          <5> QED  BY <1>4, <1>6, <3>1, <4>2, <5>1
        <4>4. d = 1 \/ d > 1
          BY <1>5, <3>1
        <4>5. d = 1 <=> head.decision = 0
          BY <1>1, <1>2, <1>5, <3>1
        <4>6. decisions'[d].source = IF Publishes(q) THEN proposals[q].source
                                     ELSE IF d = 1 THEN NoSource ELSE decisions'[d - 1].source
          BY <1>3, <1>6, <3>1, <4>2, <4>4, <4>5
        <4>7. decisions'[d].parent = d - 1
          BY <1>1, <1>3, <1>5, <1>6, <3>1
        <4> QED  BY <1>2, <1>4, <1>6, <3>1, <4>1, <4>3, <4>6, <4>7
      <3>2. CASE d \in Occurrence
        <4>1. decisions'[d] = decisions[d] /\ \A e \in 1..d : decisions'[e] = decisions[e]
          BY <1>5, <1>6, <3>2
        <4>2. d # 1 => d - 1 \in 1..d
          BY <1>5, <3>2
        <4>3. d > 1 => d # 1
          BY <1>5, <3>2
        <4> QED  BY <3>2, <4>1, <4>2, <4>3 DEF GovernanceInv, Chained
      <3> QED  BY <1>6, <3>1, <3>2
    <2>4. Publishes(q)' = Publishes(q) /\ \A x : Publishes(x)' <=> Publishes(x)
      BY <1>2 DEF Publishes
    <2> QED  BY <1>2, <1>6, <1>7, <2>1, <2>2, <2>3, <2>4 DEF Chained, Publishes
  <1>14. HistoryVerifies'
    <2>1. HistoryLink(n)'
      BY <1>1, <1>6, AcceptedVerifies DEF new
    <2>2. ASSUME NEW d \in Occurrence PROVE HistoryLink(d)'
      <3>1. HistoryLink(d) /\ decisions'[d] = decisions[d]
        BY <1>6 DEF GovernanceInv, HistoryVerifies
      <3> QED  BY <1>2, <3>1 DEF HistoryLink, Signed
    <2> QED  BY <1>6, <2>1, <2>2 DEF HistoryVerifies
  <1> QED  BY <1>9, <1>10, <1>13, <1>14 DEF GovernanceInv

LEMMA GovernanceStep == GovernanceInv /\ [GovernanceNext]_governance => GovernanceInv'
  <1> SUFFICES ASSUME GovernanceInv, [GovernanceNext]_governance PROVE GovernanceInv'
    OBVIOUS
  <1>1. ASSUME NEW p \in Policy, InstallRoot(p) PROVE GovernanceInv'
    BY <1>1, InstallKeeps
  <1>2. CASE ProposeAny
    <2>1. PICK q \in Proposal, h \in Host, deadline \in Deadline, t \in Time, vis \in SUBSET Source :
             \/ \E s \in Source : Propose(q, h, s, NoPolicy, deadline, t, vis)
             \/ \E p \in Policy : Propose(q, h, NoSource, p, deadline, t, vis)
      BY <1>2 DEF ProposeAny
    <2>2. \E s \in Source \cup {NoSource}, p \in Policy \cup {NoPolicy} :
             Propose(q, h, s, p, deadline, t, vis)
      BY <2>1
    <2> QED  BY <2>2, ProposeKeeps
  <1>3. CASE ApproveAny
    BY <1>3, ApproveKeeps DEF ApproveAny
  <1>4. CASE AcceptAny
    BY <1>4, AcceptKeeps DEF AcceptAny
  <1>5. CASE UNCHANGED governance
    <2>1. /\ installed' = installed /\ head' = head /\ proposals' = proposals
          /\ approvals' = approvals /\ decisions' = decisions
      BY <1>5 DEF governance
    <2>2. GovernanceTypeOK'
      BY <2>1 DEF GovernanceInv, GovernanceTypeOK
    <2>3. SignedInForce'
      BY <2>1 DEF GovernanceInv, SignedInForce, Filed, Signed
    <2>4. Chained'
      BY <2>1 DEF GovernanceInv, Chained, Occurrence, Filed, Publishes
    <2>5. HistoryVerifies'
      BY <2>1 DEF GovernanceInv, HistoryVerifies, HistoryLink, Occurrence, Signed
    <2> QED  BY <2>2, <2>3, <2>4, <2>5 DEF GovernanceInv
  <1> QED  BY <1>1, <1>2, <1>3, <1>4, <1>5 DEF GovernanceNext

\* A history read verifies every accepted occurrence for good, whatever the clock does and
\* whatever approvals arrive afterwards (accept_governance and governance_history_link).
THEOREM AcceptedHistoryVerifies == GovernanceSpec => []HistoryVerifies
  <1>1. GovernanceInv => HistoryVerifies
    BY DEF GovernanceInv
  <1> QED  BY <1>1, Inits, GovernanceStep, PTL DEF GovernanceSpec

(***************************************************************************)
(* The source a decision is accepted with                                  *)
(***************************************************************************)

\* The least number of a set, in place of induction.
LEMMA LeastNat ==
    ASSUME NEW T \in SUBSET Nat, T # {}
    PROVE  \E x \in T : \A y \in T : x <= y
  <1> DEFINE R == OpToRel(<, Nat)
  <1>1. IsWellFoundedOn(R, Nat)
    BY NatLessThanWellFounded
  <1>2. ASSUME NEW x \in T, NEW y \in T, y < x PROVE <<y, x>> \in R
    <2> DEFINE p == <<y, x>>
    <2>1. p \in Nat \X Nat /\ p[1] < p[2]
      BY <1>2
    <2> HIDE DEF p
    <2>2. p \in R
      BY <2>1 DEF OpToRel
    <2> QED  BY <2>2 DEF p
  <1> HIDE DEF R
  <1>3. PICK x \in T : \A y \in T : ~ (<<y, x>> \in R)
    BY <1>1, WFMin
  <1>4. \A y \in T : ~ (y < x)
    BY <1>2, <1>3
  <1> QED  BY <1>3, <1>4

\* The walk back along the parents from a decision finds the source it was accepted with.
LEMMA SelectedIsAccepted ==
    ASSUME GovernanceInv, NEW d \in Occurrence
    PROVE  SelectedAt(d) = decisions[d].source
  <1> DEFINE n == Len(decisions)
             step(f, e) == IF e = 0 THEN NoSource
                           ELSE IF Publishes(decisions[e].proposal)
                                THEN proposals[decisions[e].proposal].source
                           ELSE f[proposals[decisions[e].proposal].expected]
             eq(f) == f = [e \in 0..n |-> step(f, e)]
             back == CHOOSE f : eq(f)
             found == [e \in 0..n |-> IF e = 0 THEN NoSource ELSE decisions[e].source]
  <1>1. n \in Nat /\ Occurrence = 1..n
    BY Types DEF GovernanceInv, Occurrence
  <1>2. ASSUME NEW e \in 1..n
        PROVE  /\ proposals[decisions[e].proposal].expected = e - 1
               /\ decisions[e].source = IF Publishes(decisions[e].proposal)
                                        THEN proposals[decisions[e].proposal].source
                                        ELSE IF e = 1 THEN NoSource ELSE decisions[e - 1].source
    <2>1. e \in Occurrence
      BY <1>1
    <2>2. HistoryLink(e) /\ decisions[e].parent = e - 1
      BY <2>1 DEF GovernanceInv, HistoryVerifies, Chained
    <2>3. proposals[decisions[e].proposal].expected = e - 1
      BY <2>2 DEF HistoryLink
    <2> QED  BY <2>1, <2>3 DEF GovernanceInv, Chained
  <1>3. \A f : SelectedAt(f) = back[f]
    BY DEF SelectedAt
  <1>4. \A e \in 0..n : found[e] = step(found, e)
    <2> SUFFICES ASSUME NEW e \in 0..n PROVE found[e] = step(found, e)
      OBVIOUS
    <2>1. CASE e = 0
      BY <2>1
    <2>2. CASE e # 0
      <3>1. e \in 1..n /\ e - 1 \in 0..n /\ (e = 1 <=> e - 1 = 0)
        BY <1>1, <2>2
      <3>2. found[e] = decisions[e].source
        BY <2>2
      <3>3. found[e - 1] = IF e = 1 THEN NoSource ELSE decisions[e - 1].source
        BY <3>1
      <3> HIDE DEF found
      <3> QED  BY <1>2, <2>2, <3>1, <3>2, <3>3
    <2> QED  BY <2>1, <2>2
  <1>5. eq(found)
    <2> HIDE DEF step
    <2> QED  BY <1>4
  <1>6. eq(back)
    <2> HIDE DEF eq, found
    <2> QED  BY <1>5
  <1> DEFINE T == {e \in 0..n : back[e] # found[e]}
  <1>7. T = {}
    <2> SUFFICES ASSUME T # {} PROVE FALSE
      OBVIOUS
    <2>1. T \in SUBSET Nat
      BY <1>1
    <2>2. PICK x \in T : \A y \in T : x <= y
      <3> HIDE DEF T
      <3> QED  BY <2>1, LeastNat
    <2>3. x \in 0..n /\ back[x] # found[x] /\ \A y \in 0..n : y < x => back[y] = found[y]
      <3> HIDE DEF back, found, n
      <3>1. x \in 0..n /\ back[x] # found[x]
        BY <2>2
      <3>2. ASSUME NEW y \in 0..n, y < x PROVE back[y] = found[y]
        <4>1. ~ (x <= y)
          BY <1>1, <3>1, <3>2
        <4>2. y \notin T
          BY <2>2, <4>1
        <4> HIDE <2>2
        <4> QED  BY <4>2
      <3> QED  BY <3>1, <3>2
    <2>4. back[x] = step(back, x)
      <3> HIDE DEF back, step
      <3> QED  BY <1>6, <2>3
    <2>5. found[x] = step(found, x)
      BY <1>4, <2>3
    <2>6. CASE x = 0
      BY <2>3, <2>4, <2>5, <2>6
    <2>7. CASE x # 0
      <3>1. x \in 1..n /\ x - 1 \in 0..n /\ x - 1 < x
        <4> HIDE DEF back, found, n
        <4> QED  BY <1>1, <2>3, <2>7
      <3>2. proposals[decisions[x].proposal].expected = x - 1 /\ back[x - 1] = found[x - 1]
        BY <1>2, <2>3, <3>1
      <3> HIDE DEF back, found
      <3> QED  BY <2>3, <2>4, <2>5, <3>2
    <2> QED  BY <2>6, <2>7
  <1>8. back[d] = found[d]
    <2>1. d \in 0..n
      BY <1>1
    <2> HIDE DEF back, found
    <2> QED  BY <1>7, <2>1
  <1>9. found[d] = decisions[d].source
    BY <1>1
  <1> QED  BY <1>3, <1>8, <1>9

\* The head is the last decision of one unforked chain, at times that never decrease, each
\* under the policy the one before it installed and with the source the last publication
\* selected (the compare-and-set of accept_governance).
THEOREM HeadIsTheEnd == GovernanceSpec => []HeadEndsHistory
  <1>1. GovernanceInv => HeadEndsHistory
    <2> SUFFICES ASSUME GovernanceInv PROVE HeadEndsHistory
      OBVIOUS
    <2>1. \A d \in Occurrence : decisions[d].source = SelectedAt(d)
      BY SelectedIsAccepted
    <2> QED  BY <2>1 DEF GovernanceInv, Chained, HeadEndsHistory
  <1> QED  BY <1>1, Inits, GovernanceStep, PTL DEF GovernanceSpec

(***************************************************************************)
(* The accepted past                                                       *)
(***************************************************************************)

\* The occurrence e answers a query at time c among the first d: no later one is that old.
Answers(e, d, c) ==
    /\ e \in 0..d
    /\ e = 0 \/ decisions[e].time <= c
    /\ \A x \in 1..d : e < x => c < decisions[x].time

LEMMA OccurrenceTimes ==
    ASSUME GovernanceInv
    PROVE  /\ Len(decisions) \in Nat /\ Len(decisions) <= MaxDecisions
           /\ \A x \in 1..Len(decisions) : /\ decisions[x].time \in Nat
                                           /\ decisions[x].parent = x - 1
  <1>1. Len(decisions) \in 0..MaxDecisions /\ \A x \in Occurrence : decisions[x] \in Decision
    BY Types DEF GovernanceInv
  <1>2. \A x \in Occurrence : decisions[x].time \in Nat
    BY <1>1, GovernanceAssumption DEF Decision, Time
  <1> QED  BY <1>1, <1>2, GovernanceAssumption DEF GovernanceInv, Chained, Occurrence

LEMMA OneAnswer ==
    ASSUME GovernanceInv, NEW c \in Nat, NEW d \in 0..Len(decisions), NEW e, NEW f,
           Answers(e, d, c), Answers(f, d, c)
    PROVE  e = f
  <1>1. e \in 0..d /\ f \in 0..d /\ d \in Nat /\ \A x \in 1..d : decisions[x].time \in Nat
    BY OccurrenceTimes DEF Answers
  <1>2. ASSUME e < f PROVE FALSE
    <2>1. f \in 1..d /\ f # 0
      BY <1>1, <1>2
    <2>2. decisions[f].time <= c /\ c < decisions[f].time
      BY <1>2, <2>1 DEF Answers
    <2> QED  BY <1>1, <2>1, <2>2
  <1>3. ASSUME f < e PROVE FALSE
    <2>1. e \in 1..d /\ e # 0
      BY <1>1, <1>3
    <2>2. decisions[e].time <= c /\ c < decisions[e].time
      BY <1>3, <2>1 DEF Answers
    <2> QED  BY <1>1, <2>1, <2>2
  <1> QED  BY <1>1, <1>2, <1>3

\* One step of the walk: an occurrence old enough answers, else whatever answers before it.
LEMMA AnswerStep ==
    ASSUME GovernanceInv, NEW c \in Nat, NEW d \in 0..Len(decisions)
    PROVE  /\ d = 0 \/ decisions[d].time <= c => Answers(d, d, c)
           /\ \A e : d # 0 /\ c < decisions[d].time /\ Answers(e, d - 1, c) => Answers(e, d, c)
  <1>1. d \in Nat /\ \A x \in 1..d : decisions[x].time \in Nat
    BY OccurrenceTimes
  <1>2. ASSUME NEW e, d # 0, c < decisions[d].time, Answers(e, d - 1, c)
        PROVE  Answers(e, d, c)
    <2>1. \A x \in 1..d : x = d \/ x \in 1..(d - 1)
      BY <1>1
    <2> QED  BY <1>1, <1>2, <2>1 DEF Answers
  <1> QED  BY <1>1, <1>2 DEF Answers

LEMMA SomeAnswer ==
    ASSUME GovernanceInv, NEW c \in Nat, NEW d \in 0..Len(decisions)
    PROVE  \E e : Answers(e, d, c)
  <1> DEFINE T == {e \in 0..d : \A x \in 1..d : e < x => c < decisions[x].time}
  <1>1. d \in Nat /\ \A x \in 1..d : decisions[x].time \in Nat
    BY OccurrenceTimes
  <1>2. d \in T /\ T \in SUBSET Nat
    BY <1>1
  <1>3. PICK e \in T : \A y \in T : e <= y
    <2> HIDE DEF T
    <2> QED  BY <1>2, LeastNat
  <1>4. e = 0 \/ decisions[e].time <= c
    <2> SUFFICES ASSUME e # 0, ~ (decisions[e].time <= c) PROVE FALSE
      OBVIOUS
    <2>1. e \in 1..d /\ e - 1 \in 0..d /\ c < decisions[e].time
      BY <1>1
    <2>2. \A x \in 1..d : e - 1 < x => x = e \/ e < x
      BY <1>1, <2>1
    <2>3. e - 1 \in T
      BY <2>1, <2>2
    <2>4. e <= e - 1
      <3> HIDE DEF T
      <3> QED  BY <1>3, <2>3
    <2> QED  BY <1>1, <2>1, <2>4
  <1> QED  BY <1>4 DEF Answers

\* The walk back along the parents from the head ends at the one that answers.
LEMMA AcceptedAtAnswers ==
    ASSUME GovernanceInv, NEW c \in Nat
    PROVE  Answers(AcceptedAt(c), Len(decisions), c)
  <1> DEFINE n == Len(decisions)
             step(f, d) == IF d = 0 \/ decisions[d].time <= c THEN d
                           ELSE f[decisions[d].parent]
             eq(f) == f = [d \in 0..n |-> step(f, d)]
             back == CHOOSE f : eq(f)
             found == [d \in 0..n |-> CHOOSE e : Answers(e, d, c)]
  <1>1. n \in Nat /\ \A x \in 1..n : decisions[x].time \in Nat /\ decisions[x].parent = x - 1
    BY OccurrenceTimes
  <1>2. AcceptedAt(c) = back[n]
    BY DEF AcceptedAt, GovernanceInv, Chained
  <1>3. \A d \in 0..n : Answers(found[d], d, c)
    BY SomeAnswer
  <1>4. \A d \in 0..n : found[d] = step(found, d)
    <2> SUFFICES ASSUME NEW d \in 0..n PROVE found[d] = step(found, d)
      OBVIOUS
    <2>1. CASE d = 0 \/ decisions[d].time <= c
      <3>1. Answers(d, d, c) /\ Answers(found[d], d, c)
        BY <1>3, <2>1, AnswerStep
      <3> HIDE DEF found
      <3> QED  BY <2>1, <3>1, OneAnswer
    <2>2. CASE ~ (d = 0 \/ decisions[d].time <= c)
      <3>1. d # 0 /\ d - 1 \in 0..n /\ c < decisions[d].time /\ decisions[d].parent = d - 1
        BY <1>1, <2>2
      <3>2. Answers(found[d - 1], d - 1, c) /\ Answers(found[d], d, c)
        BY <1>3, <3>1
      <3> HIDE DEF found
      <3>3. Answers(found[d - 1], d, c)
        BY <3>1, <3>2, AnswerStep
      <3>4. found[d] = found[d - 1]
        BY <3>2, <3>3, OneAnswer
      <3> QED  BY <2>2, <3>1, <3>4
    <2> QED  BY <2>1, <2>2
  <1>5. eq(found)
    <2> HIDE DEF step
    <2> QED  BY <1>4
  <1>6. eq(back)
    <2> HIDE DEF eq, found
    <2> QED  BY <1>5
  <1> DEFINE T == {d \in 0..n : ~Answers(back[d], d, c)}
  <1>7. T = {}
    <2> SUFFICES ASSUME T # {} PROVE FALSE
      OBVIOUS
    <2> HIDE DEF back, n
    <2>1. PICK x \in T : \A y \in T : x <= y
      <3>1. T \in SUBSET Nat
        BY <1>1
      <3> HIDE DEF T
      <3> QED  BY <3>1, LeastNat
    <2>2. x \in 0..n /\ ~Answers(back[x], x, c)
      BY <2>1
    <2>3. back[x] = step(back, x)
      <3> HIDE DEF step
      <3> QED  BY <1>6, <2>2
    <2>4. CASE x = 0 \/ decisions[x].time <= c
      BY <2>2, <2>3, <2>4, AnswerStep DEF n
    <2>5. CASE ~ (x = 0 \/ decisions[x].time <= c)
      <3>1. x # 0 /\ x - 1 \in 0..n /\ c < decisions[x].time /\ decisions[x].parent = x - 1
        BY <1>1, <2>2, <2>5
      <3>2. Answers(back[x - 1], x - 1, c)
        <4>1. x - 1 \notin T
          <5>1. ~ (x <= x - 1)
            BY <1>1, <2>2
          <5> HIDE DEF T
          <5> QED  BY <2>1, <5>1
        <4> QED  BY <3>1, <4>1
      <3>3. Answers(back[x - 1], x, c)
        BY <2>2, <3>1, <3>2, AnswerStep DEF n
      <3> QED  BY <2>2, <2>3, <2>5, <3>1, <3>3
    <2> QED  BY <2>4, <2>5
  <1>8. Answers(back[n], n, c)
    <2>1. n \in 0..n
      BY <1>1
    <2> HIDE DEF back
    <2> QED  BY <1>7, <2>1
  <1> QED  BY <1>2, <1>8

PastAnswers == \A c \in Nat : Answers(AcceptedAt(c), Len(decisions), c)

\* An acceptance answers every query from its time on, and no earlier one.
LEMMA AcceptanceAnswers ==
    ASSUME GovernanceInv, PastAnswers', NEW q \in Proposal, NEW h, NEW t \in Time, NEW vis,
           Accept(q, h, t, vis), NEW c \in Time
    PROVE  AcceptedAt(c)' = IF t <= c THEN Len(decisions) + 1 ELSE AcceptedAt(c)
  <1> DEFINE n == Len(decisions)
  <1>1. c \in Nat /\ t \in Nat
    BY GovernanceAssumption DEF Time
  <1>2. /\ n \in Nat /\ Len(decisions') = n + 1 /\ decisions'[n + 1].time = t
        /\ \A x \in 1..n : decisions'[x] = decisions[x] /\ decisions[x].time \in Nat
    <2>1. decisions \in Seq(Decision) /\ decisions' = Append(decisions, Accepted(q, t))
          /\ Accepted(q, t) \in Decision /\ Accepted(q, t).time = t
      BY AcceptWrites, AcceptedTypes, Types DEF GovernanceInv, Accepted
    <2>2. \A x \in 1..n : decisions[x].time \in Nat
      BY OccurrenceTimes
    <2> HIDE DEF Accepted
    <2> QED  BY <2>1, <2>2
  <1>3. Answers(AcceptedAt(c), n, c)
    BY <1>1, AcceptedAtAnswers
  <1>4. (Answers(AcceptedAt(c), Len(decisions), c))'
    BY <1>1 DEF PastAnswers
  <1> HIDE DEF n
  <1> DEFINE a == AcceptedAt(c)
             b == AcceptedAt(c)'
  <1>5. /\ a \in 0..n /\ (a = 0 \/ decisions[a].time <= c)
        /\ \A x \in 1..n : a < x => c < decisions[x].time
    BY <1>3 DEF Answers
  <1>6. /\ b \in 0..(n + 1) /\ (b = 0 \/ decisions'[b].time <= c)
        /\ \A x \in 1..(n + 1) : b < x => c < decisions'[x].time
    <2>1. /\ b \in 0..Len(decisions') /\ (b = 0 \/ decisions'[b].time <= c)
          /\ \A x \in 1..Len(decisions') : b < x => c < decisions'[x].time
      BY <1>4 DEF Answers
    <2> HIDE DEF b
    <2> QED  BY <1>2, <2>1 DEF n
  <1> HIDE DEF a, b
  <1>7. CASE t <= c
    <2>1. ASSUME b # n + 1 PROVE FALSE
      <3>1. b < n + 1 /\ n + 1 \in 1..(n + 1)
        BY <1>2, <1>6, <2>1
      <3>2. c < decisions'[n + 1].time
        BY <1>6, <3>1
      <3> QED  BY <1>1, <1>2, <1>7, <3>2
    <2> QED  BY <1>7, <2>1 DEF b, n
  <1>8. CASE c < t
    <2>1. b # n + 1 /\ b \in 0..n
      BY <1>1, <1>2, <1>6, <1>8
    <2>2. ASSUME a < b PROVE FALSE
      <3>1. b \in 1..n /\ b # 0
        BY <1>2, <1>5, <2>1, <2>2
      <3>2. decisions'[b] = decisions[b] /\ c < decisions[b].time /\ decisions'[b].time <= c
        BY <1>2, <1>5, <1>6, <2>2, <3>1
      <3> QED  BY <1>1, <1>2, <3>1, <3>2
    <2>3. ASSUME b < a PROVE FALSE
      <3>1. a \in 1..n /\ a # 0 /\ a \in 1..(n + 1)
        BY <1>2, <1>5, <2>1, <2>3
      <3>2. decisions'[a] = decisions[a] /\ c < decisions'[a].time /\ decisions[a].time <= c
        BY <1>2, <1>5, <1>6, <2>3, <3>1
      <3> QED  BY <1>1, <1>2, <3>1, <3>2
    <2>4. a = b
      BY <1>2, <1>5, <2>1, <2>2, <2>3
    <2> QED  BY <1>1, <1>8, <2>4 DEF a, b
  <1> QED  BY <1>1, <1>7, <1>8

\* Any other step leaves the chain, and so the register, as it was.
LEMMA ChainStands ==
    ASSUME decisions' = decisions, head'.decision = head.decision
    PROVE  UNCHANGED AcceptedRegister!register
  <1>1. \A c : AcceptedAt(c)' = AcceptedAt(c)
    BY DEF AcceptedAt
  <1> QED  BY <1>1 DEF AcceptedRegister!register

\* An acceptance is a write at the time it samples.
LEMMA AcceptanceIsWrite ==
    ASSUME GovernanceInv, PastAnswers', NEW q \in Proposal, NEW h, NEW t \in Time, NEW vis,
           Accept(q, h, t, vis)
    PROVE  AcceptedRegister!Next
  <1> DEFINE n == Len(decisions)
             value == [l \in {"view"} |-> n + 1]
  <1>1. /\ n \in Nat /\ n < MaxDecisions /\ head.decision = n
        /\ head'.decision = n + 1 /\ (n # 0 => decisions[n].time <= t)
    <2>1. n \in Nat
      BY OccurrenceTimes
    <2>2. head.decision = n /\ n < MaxDecisions
      BY AcceptWrites
    <2>3. head'.decision = n + 1 /\ (head.decision # 0 => decisions[head.decision].time <= t)
      BY AcceptWrites
    <2> QED  BY <2>1, <2>2, <2>3
  <1>2. decisions'[n + 1].time = t
    <2>1. decisions \in Seq(Decision) /\ decisions' = Append(decisions, Accepted(q, t))
          /\ Accepted(q, t).time = t
      BY AcceptWrites, Types DEF GovernanceInv, Accepted
    <2> HIDE DEF Accepted
    <2> QED  BY <2>1
  <1>3. value \in [{"view"} -> 1..MaxDecisions] /\ {"view"} \in SUBSET {"view"}
    BY <1>1, GovernanceAssumption
  <1>4. \A l \in {"view"} : (IF head.decision = 0 THEN 0 ELSE decisions[head.decision].time) <= t
    BY <1>1, GovernanceAssumption DEF Time
  <1>5. \A c \in Time : AcceptedAt(c)' = IF t <= c THEN n + 1 ELSE AcceptedAt(c)
    BY AcceptanceAnswers
  <1>6. [l \in {"view"} |-> [c \in Time |-> AcceptedAt(c)']] =
           [l \in {"view"} |-> [c \in Time |->
              IF l \in {"view"} /\ t <= c THEN value[l]
              ELSE [x \in {"view"} |-> [y \in Time |-> AcceptedAt(y)]][l][c]]]
    BY <1>5
  <1>7. head'.decision # 0 /\ decisions'[head'.decision].time = t
    BY <1>1, <1>2
  <1> HIDE DEF n
  <1>8. AcceptedRegister!Write({"view"}, value, t)
    BY <1>1, <1>4, <1>6, <1>7 DEF AcceptedRegister!Write
  <1> HIDE DEF value
  <1> QED  BY <1>3, <1>8 DEF AcceptedRegister!Next

LEMMA AcceptanceRefines ==
    ASSUME GovernanceInv, PastAnswers', [GovernanceNext]_governance
    PROVE  [AcceptedRegister!Next]_(AcceptedRegister!register)
  <1>1. ASSUME NEW p \in Policy, InstallRoot(p)
        PROVE  decisions' = decisions /\ head'.decision = head.decision
    BY <1>1 DEF InstallRoot, NoHead
  <1>2. CASE AcceptAny
    BY <1>2, AcceptanceIsWrite DEF AcceptAny
  <1>3. CASE ProposeAny
    BY <1>3, ChainStands DEF ProposeAny, Propose
  <1>4. CASE ApproveAny
    BY <1>4, ChainStands DEF ApproveAny, Approve
  <1>5. CASE UNCHANGED governance
    BY <1>5, ChainStands DEF governance
  <1> QED  BY <1>1, <1>2, <1>3, <1>4, <1>5, ChainStands DEF GovernanceNext

\* The accepted history implements the recorded register: an acceptance answers every query
\* from its own time on and rewrites none before it, whichever way the clock moves between
\* operations (accept_governance and query_accepted_history_for).
THEOREM AcceptanceImplementsRegister == GovernanceSpec => AcceptanceIsRecorded
  <1>1. GovernanceInit => AcceptedRegister!Init
    <2> SUFFICES ASSUME GovernanceInit PROVE AcceptedRegister!Init
      OBVIOUS
    <2>1. head.decision = 0 /\ Len(decisions) = 0 /\ GovernanceInv
      BY Inits DEF GovernanceInit, NoHead
    <2>2. \A c \in Time : AcceptedAt(c) = 0
      <3> SUFFICES ASSUME NEW c \in Time PROVE AcceptedAt(c) = 0
        OBVIOUS
      <3>1. Answers(AcceptedAt(c), 0, c)
        BY <2>1, AcceptedAtAnswers, GovernanceAssumption DEF Time
      <3> QED  BY <3>1 DEF Answers
    <2> QED  BY <2>1, <2>2 DEF AcceptedRegister!Init
  <1>2. GovernanceInv => PastAnswers
    BY AcceptedAtAnswers DEF PastAnswers
  <1>3. GovernanceInv /\ PastAnswers' /\ [GovernanceNext]_governance
           => [AcceptedRegister!Next]_(AcceptedRegister!register)
    BY AcceptanceRefines
  <1> QED  BY <1>1, <1>2, <1>3, Inits, GovernanceStep, PTL
           DEF GovernanceSpec, AcceptanceIsRecorded, AcceptedRegister!Spec
=============================================================================
