--------------------------- MODULE ControlService ---------------------------
(***************************************************************************)
(* services/control_service.py, authority_service.py, proposal_service.py: *)
(* durable cancellation and correction commands, who may issue them, and   *)
(* the proposals that may authorize one.  Every handler runs under BEGIN   *)
(* IMMEDIATE and is one action; an exact replay (same issuer and key)      *)
(* returns the stored command and changes nothing.                         *)
(***************************************************************************)
EXTENDS Registry

\* AuthorityService.may_issue_command, and the rule that the root is only cancelled
\* with its run.
may_issue_command(issuer, type, target) ==
  /\ (type = "CANCEL_RUN") <=> (target = Root)
  /\ \/ issuer \in {Operator, Root}
     \/ /\ issuer \in Node \ {Root}
        /\ type # "CANCEL_RUN"
        /\ ControlCap \in reg[issuer].caps
        /\ is_descendant(issuer, target)

issuer_live(issuer) == issuer \in Node => issuer \in tokens /\ node_allowed(issuer)

new_request(issuer, key) ==
  \A c \in DOMAIN commands : commands[c].issuer # issuer \/ commands[c].key # key

\* Mutant: a run that ended still takes commands.
accepts_commands_always == Len(commands) < MaxCommands

accepts_commands == run = "RUNNING" /\ Len(commands) < MaxCommands

\* Mutant: the frozen command of the proposal is not compared.
proposal_accepted(q, type, target, tool) ==
  q # NoProposal => /\ proposals[q].status = "ACCEPTED"
                    /\ proposals[q].command = 0
                    /\ proposals[q].target = target
                    /\ proposals[q].type = type

\* The proposal, if any, was accepted for exactly this command and is unused.
proposal_authorizes(q, type, target, tool) ==
  q # NoProposal => /\ proposals[q].status = "ACCEPTED"
                    /\ proposals[q].command = 0
                    /\ proposals[q].target = target
                    /\ proposals[q].type = type
                    /\ proposals[q].tool = tool

\* The parent of the target if it is live, else the root if it is live, else NULL.
replacement_parent(target) ==
  LET p == reg[target].parent IN
  IF p # NoNode /\ node_allowed(p) THEN p
  ELSE IF Root # target /\ node_allowed(Root) THEN Root
  ELSE NoNode

target_scope(type, target) == IF type = "CANCEL_RUN" THEN RunScope ELSE target

command_row(issuer, key, type, target, tool, q) ==
  LET s == target_scope(type, target)
      correcting == type = "CORRECT_SUBTREE" IN
  [issuer |-> issuer, key |-> key, type |-> type, target |-> target, scope |-> s,
   version |-> scope[s].version + 1, tool |-> tool, proposal |-> q,
   parent |-> IF correcting THEN replacement_parent(target) ELSE NoNode,
   replacement |-> NoNode,
   rstatus |-> IF correcting THEN "PENDING" ELSE "NULL"]

\* The target scope moves to the next version and is superseded or cancelled for good.
invalidate_scope(s, type) ==
  scope' = [scope EXCEPT
    ![s] = [version |-> scope[s].version + 1,
            status |-> IF type = "CORRECT_SUBTREE" THEN "SUPERSEDED" ELSE "CANCELLED"]]

issue_command(issuer, key, type, target, tool, q) ==
  /\ target \in registered
  /\ may_issue_command(issuer, type, target)
  /\ new_request(issuer, key)
  /\ issuer_live(issuer)
  /\ accepts_commands
  /\ proposal_authorizes(q, type, target, tool)
  /\ type # "CORRECT_SUBTREE" => tool = NoTool
  /\ type = "CORRECT_SUBTREE" => replacement_parent(target) # NoNode
  /\ scope[target_scope(type, target)].status = "ACTIVE"
  /\ invalidate_scope(target_scope(type, target), type)
  /\ run' = IF type = "CANCEL_RUN" THEN "CANCELLED" ELSE run
  /\ commands' = Append(commands, command_row(issuer, key, type, target, tool, q))
  /\ proposals' = IF q = NoProposal THEN proposals
                  ELSE [proposals EXCEPT ![q].command = Len(commands) + 1]
  /\ UNCHANGED <<now, status, reg, lease, token, acks, attempts, checkpoints>>

-----------------------------------------------------------------------------
\* ProposalService.create: any live node with the capability, about any node of the run.
create_proposal(n, q, type, target) ==
  /\ n \in tokens
  /\ node_allowed(n)
  /\ ProposeCap \in reg[n].caps
  /\ target \in registered
  /\ type # "CANCEL_RUN"
  /\ proposals[q].status = "NONE"
  /\ proposals' = [proposals EXCEPT ![q] =
                     [NoProposalRow EXCEPT !.status = "PENDING", !.type = type,
                                           !.target = target]]
  /\ UNCHANGED <<now, run, status, reg, lease, token, scope, commands, acks, attempts,
                 checkpoints>>

\* ProposalService.review: acceptance freezes the command, here its tool.
review_proposal(q, decision, tool) ==
  /\ proposals[q].status = "PENDING"
  /\ tool # NoTool => decision = "ACCEPTED" /\ proposals[q].type = "CORRECT_SUBTREE"
  /\ proposals' = [proposals EXCEPT ![q].status = decision, ![q].tool = tool]
  /\ UNCHANGED <<now, run, status, reg, lease, token, scope, commands, acks, attempts,
                 checkpoints>>
=============================================================================
