---------------------------- MODULE MCTraceFence ----------------------------
(* Small instances of TraceFence for TLC. *)
EXTENDS TraceFence, TLC

CONSTANTS reset
MCTool1 == {reset}
MCCaps1 == {reset}
MCCapsControl == {reset, ControlCap}
MCCapsPropose == {reset, ControlCap, ProposeCap}

\* New nodes are interchangeable, and so are idempotency keys.
MCSymmetry ==
  Permutations(Node \ {Root}) \cup Permutations(CommandKey) \cup Permutations(ActionKey)

\* Bound of the recovery run: blocked actions and partial delegation, which change nothing
\* a replacement depends on, are left to the fencing run.
MCRecoveryBound ==
  /\ \A a \in attempts : a.decision = "ALLOW"
  /\ \A n \in registered : reg[n].cause = 0 => reg[n].caps = RootCaps

\* Bound of the fencing run: a proposal, or a child that may make one, is combined with one
\* child and no action, on which neither depends.
MCProposalBound ==
  \/ \A q \in Proposal : proposals[q].status = "NONE"
     /\ \A n \in registered \ {Root} : ProposeCap \notin reg[n].caps
  \/ Cardinality(registered) <= 2 /\ attempts = {}
=============================================================================
