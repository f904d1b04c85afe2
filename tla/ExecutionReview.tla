---------------------------- MODULE ExecutionReview ---------------------------
(* The review of a plan, its confirmation, and the validation of the request  *)
(* to execute it (packages/shared-types/src/localExecutor.ts).  The validators *)
(* are pure; who reviews, amends, submits and journals is the user and the    *)
(* future executor of docs/adr/0008, modelled from what the validators ask.   *)
(* The digest of a plan or manifest is represented by what it is the digest   *)
(* of; no validator recomputes one, they are compared with each other.        *)
(* Identifiers, digests and versions are well formed.                         *)
EXTENDS PlanningPipeline, TransactionStates

CONSTANTS Lifetime,      \* how long a confirmation is valid
          MaxTime,       \* bound on the clock
          MaxJournal     \* bound on the journal

ASSUME TimesAssumption == Lifetime \in Nat /\ MaxTime \in Nat

VARIABLES clock,         \* the evaluation time handed to the validators
          request,       \* the execution request, or Null
          confirmation,  \* what the user confirmed, or Null
          shown,         \* the plan and capabilities the user saw
          accepted,      \* requests that passed both validators
          journal        \* the transaction journal of the last of them

reviewVars == <<clock, request, confirmation, shown, accepted, journal>>
vars == <<pipelineVars, reviewVars>>

--------------------------------------------------------------------------------
(* The structure of a request.                                                *)

(* Capabilities in the order `sort' gives them, with the gate of each.        *)
CAPABILITY_GATE ==
  <<<<"artifact-download", "GATE-NET-01">>, <<"artifact-verify", "GATE-NET-01">>,
    <<"audit-persist", "GATE-FS-01">>, <<"java-discover", "GATE-JAVA-01">>,
    <<"java-provision", "GATE-JAVA-01">>, <<"local-executor", "GATE-EXEC-01">>,
    <<"manifest-persist", "GATE-FS-01">>, <<"oauth-token", "GATE-OAUTH-01">>,
    <<"process-launch", "GATE-PROC-01">>, <<"rollback-mutate", "GATE-FS-01">>,
    <<"user-selected-workspace", "GATE-USER-PATH-01">>, <<"workspace-inspect", "GATE-FS-01">>,
    <<"workspace-mutate", "GATE-FS-01">>>>

ScopeRank(scope) == CHOOSE i \in DOMAIN CAPABILITY_GATE : CAPABILITY_GATE[i][1] = scope

requiredGateForAuthorizationScope(scope) == CAPABILITY_GATE[ScopeRank(scope)][2]

Canonical(scopes) == \A i \in 1..(Len(scopes) - 1) : ScopeRank(scopes[i]) < ScopeRank(scopes[i + 1])

Problem(holds, code) == IF holds THEN {code} ELSE {}

validateReviewedPlan(reviewed) ==
  UNION {Problem(reviewed.plan.status # "needs-user-confirmation", "PLAN_NOT_REVIEWABLE"),
         Problem(reviewed.plan.confirmed, "PLAN_ALREADY_CONFIRMED"),
         Problem(reviewed.plan.errors # {} \/ reviewed.plan.rejected # {}, "PLAN_HAS_ERRORS"),
         Problem(reviewed.compatibility.summary.blockers # {}
                   \/ reviewed.compatibility.status = "incompatible",
                 "COMPATIBILITY_BLOCKED"),
         Problem(reviewed.compatibility.summary.unknown # {}
                   \/ reviewed.compatibility.status = "unknown",
                 "COMPATIBILITY_UNKNOWN")}

validateWorkspace(workspace) ==
  Problem(workspace.kind = "user-selected" /\ ~workspace.observedEmptyAtReview, "WORKSPACE_INVALID")

validateManifest(req) ==
  UNION {Problem(req.manifest.plan # req.reviewed.plan \/ req.manifest.workspace # req.workspace,
                 "MANIFEST_BINDING_MISMATCH"),
         Problem(req.manifest.target # req.reviewed.plan.target, "MANIFEST_BINDING_MISMATCH"),
         Problem(\E op \in req.manifest.operations :
                   ~op.hashKnown \/ (op.rollbackRequired /\ op.strategy = "none"),
                 "MANIFEST_OPERATION_INVALID")}

EvidenceFor(req, scope) == \E i \in DOMAIN req.evidence : req.evidence[i].scope = scope

ExpectedScopes(req) ==
  UNION {{"local-executor"}, ToSet(req.capabilities),
         {s \in {"user-selected-workspace"} : req.workspace.kind = "user-selected"}}

validateExecutionRequestStructure(req) ==
  LET scopes == [i \in DOMAIN req.evidence |-> req.evidence[i].scope]
  IN UNION {validateReviewedPlan(req.reviewed), validateWorkspace(req.workspace),
            Problem(~Canonical(req.capabilities), "CAPABILITIES_NOT_CANONICAL"),
            Problem(~Canonical(scopes), "AUTHORIZATION_EVIDENCE_NOT_CANONICAL"),
            Problem(~(ToSet(scopes) \subseteq ExpectedScopes(req)),
                    "AUTHORIZATION_SCOPE_UNEXPECTED"),
            Problem(\E e \in ToSet(req.evidence) :
                      e.gate # requiredGateForAuthorizationScope(e.scope),
                    "CAPABILITY_GATE_MISMATCH"),
            Problem(\E scope \in ExpectedScopes(req) : ~EvidenceFor(req, scope),
                    "CAPABILITY_EVIDENCE_MISSING"),
            validateManifest(req)}

(* Faulty variant: the plan is bound by its identifier.                       *)
validateExecutionConfirmation_PlanId(req, conf, now) ==
  UNION {Problem(conf.consumed, "CONFIRMATION_CONSUMED"),
         Problem(conf.issuedAt >= conf.expiresAt \/ now < conf.issuedAt \/ now > conf.expiresAt,
                 "CONFIRMATION_EXPIRED"),
         Problem(\/ conf.reviewed.plan.planId # req.reviewed.plan.planId
                 \/ conf.workspace # req.workspace \/ conf.capabilities # req.capabilities,
                 "CONFIRMATION_MISMATCH")}

validateExecutionConfirmation(req, conf, now) ==
  UNION {Problem(conf.consumed, "CONFIRMATION_CONSUMED"),
         Problem(conf.issuedAt >= conf.expiresAt \/ now < conf.issuedAt \/ now > conf.expiresAt,
                 "CONFIRMATION_EXPIRED"),
         Problem(\/ conf.reviewed # req.reviewed
                 \/ conf.manifest # req.manifest \/ conf.workspace # req.workspace
                 \/ conf.capabilities # req.capabilities,
                 "CONFIRMATION_MISMATCH")}

--------------------------------------------------------------------------------
(* Journals.  An event carries the digest its writer supplies for it and the  *)
(* one of the event before it; an honest writer's digest differs for every    *)
(* other history.  Nothing recomputes it, and what else an event records      *)
(* (its operation, result and failure) no validator compares.                 *)

JournalEvent(earlier, to) ==
  [sequence |-> Len(earlier) + 1,
   from |-> IF earlier = <<>> THEN "proposed" ELSE Last(earlier).to, to |-> to,
   previous |-> IF earlier = <<>> THEN <<>> ELSE Last(earlier).digest,
   digest |-> Append(IF earlier = <<>> THEN <<>> ELSE Last(earlier).digest, to)]

(* Events in the order of their sequence numbers, ties as they come.          *)
sortTransactionJournalEvents(events) ==
  LET Earlier(i, j) == \/ events[i].sequence < events[j].sequence
                       \/ events[i].sequence = events[j].sequence /\ i < j
      order == Ordered(DOMAIN events, Earlier)
  IN [k \in DOMAIN events |-> events[order[k]]]

(* Faulty variant: the digests are not compared.                              *)
validateTransactionJournal_NoDigests(events) ==
  LET ordered == sortTransactionJournalEvents(events)
  IN \A i \in DOMAIN ordered :
       /\ ordered[i].sequence = i
       /\ CanTransition(ordered[i].from, ordered[i].to)
       /\ i > 1 => ordered[i].from = ordered[i - 1].to

(* TRUE when the code returns no errors.                                      *)
validateTransactionJournal(events) ==
  LET ordered == sortTransactionJournalEvents(events)
  IN \A i \in DOMAIN ordered :
       /\ ordered[i].sequence = i
       /\ CanTransition(ordered[i].from, ordered[i].to)
       /\ i = 1 => ordered[i].previous = <<>>
       /\ i > 1 => /\ ordered[i].from = ordered[i - 1].to
                   /\ ordered[i].previous = ordered[i - 1].digest

--------------------------------------------------------------------------------
(* The user and the executor.                                                 *)

Reviewed ==
  [plan |-> plan, compatibility |-> [status |-> analysis.status, summary |-> analysis.summary]]

Manifest(workspace) ==
  [plan |-> plan, target |-> plan.target, workspace |-> workspace,
   operations |-> {[projectId |-> r.projectId, hashKnown |-> r.hashKnown,
                    rollbackRequired |-> TRUE, strategy |-> "remove-owned"]
                     : r \in ToSet(plan.resources)}]

RequestFor(proposal) ==
  [reviewed |-> Reviewed, workspace |-> proposal.workspace,
   manifest |-> Manifest(proposal.workspace),
   capabilities |-> proposal.capabilities, evidence |-> proposal.evidence]

Confirmation(req) ==
  [reviewed |-> req.reviewed, manifest |-> req.manifest,
   workspace |-> req.workspace, capabilities |-> req.capabilities,
   issuedAt |-> clock, expiresAt |-> clock + Lifetime, consumed |-> FALSE]

(* The journal of an accepted request ends a behaviour of the review: a bound. *)
Reviewing == stage = "analysed" /\ Planning /\ journal = <<>>

(* One confirmation in a behaviour: another bound.                            *)
Confirm ==
  /\ Reviewing /\ request = Null /\ accepted = <<>>
  /\ \E proposal \in job.proposals :
       /\ request' = RequestFor(proposal)
       /\ confirmation' = Confirmation(request')
       /\ shown' = [plan |-> plan, proposal |-> proposal]
  /\ UNCHANGED <<pipelineVars, clock, accepted, journal>>

(* The request is made anew and the confirmation kept: a new plan, other      *)
(* capabilities, or a retry.                                                  *)
Amend ==
  /\ Reviewing /\ request # Null
  /\ \E proposal \in job.proposals : request' = RequestFor(proposal)
  /\ UNCHANGED <<pipelineVars, clock, confirmation, shown, accepted, journal>>

Submit ==
  /\ Reviewing /\ request # Null
  /\ validateExecutionRequestStructure(request) = {}
  /\ validateExecutionConfirmation(request, confirmation, clock) = {}
  /\ accepted' = Append(accepted, [request |-> request, at |-> clock, shown |-> shown,
                                   expiresAt |-> confirmation.expiresAt])
  /\ confirmation' = [confirmation EXCEPT !.consumed = TRUE]
  /\ UNCHANGED <<pipelineVars, clock, request, shown, journal>>

Cancel ==
  /\ Reviewing /\ confirmation # Null
  /\ confirmation' = [confirmation EXCEPT !.consumed = TRUE]
  /\ UNCHANGED <<pipelineVars, clock, request, shown, accepted, journal>>

Tick ==
  /\ Reviewing /\ request # Null /\ clock < MaxTime
  /\ clock' = clock + 1
  /\ UNCHANGED <<pipelineVars, request, confirmation, shown, accepted, journal>>

(* What the executor journals is the request it accepted.                     *)
AppendJournal ==
  /\ accepted # <<>> /\ request = Last(accepted).request /\ Len(journal) < MaxJournal
  /\ \E to \in ContractSuccessors[IF journal = <<>> THEN "proposed" ELSE Last(journal).to] :
       journal' = Append(journal, JournalEvent(journal, to))
  /\ UNCHANGED <<pipelineVars, clock, request, confirmation, shown, accepted>>

ReviewInit ==
  /\ Init
  /\ clock = 0 /\ request = Null /\ confirmation = Null /\ shown = Null
  /\ accepted = <<>> /\ journal = <<>>

Next ==
  \/ PipelineNext /\ journal = <<>> /\ UNCHANGED reviewVars
  \/ Confirm \/ Amend \/ Submit \/ Cancel \/ Tick \/ AppendJournal

Spec == ReviewInit /\ [][Next]_vars
===============================================================================
