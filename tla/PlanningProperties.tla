-------------------------- MODULE PlanningProperties --------------------------
(* What the planning pipeline, the compatibility analysis and the review of   *)
(* an execution request promise.                                              *)
EXTENDS ExecutionReview

(* The variables keep their shapes: a call is in one of its stages, a plan is *)
(* there once one was built, and a project is found only while a query or a   *)
(* requirement is being resolved.                                             *)
TypeOK ==
  /\ job \in Jobs /\ round \in 1..job.rounds
  /\ stage \in {"idle", "resolving", "consulting", "resolved", "planned", "failed", "analysed"}
  /\ found # Null => todo # <<>> /\ stage = "resolving"
  /\ stage \in {"planned", "failed", "analysed"} => diagnostics # Null
  /\ stage = "planned" => plan # Null
  /\ plan # Null => plan.risk \in {"low", "medium", "high"}
  /\ Len(accepted) <= Len(journal) + 1 /\ clock \in 0..MaxTime

--------------------------------------------------------------------------------
(* Resolution.                                                                *)

NetworkPlanned == Planning /\ job.resolver = None /\ stage \in {"planned", "failed"}

Mentions(messages, query) == \E m \in messages : m.about \in {query.canonicalName, query.query}

(* When a call is over, each query has a result of its own, in order, and one *)
(* without a candidate has left an error or a warning in the diagnostics: the *)
(* failure of one query loses no other (resolveModrinthCandidates, whose loop *)
(* goes on after an error).                                                   *)
QueriesKept ==
  NetworkPlanned =>
    /\ Len(results) = Len(input.queries)
    /\ \A i \in DOMAIN results :
         /\ results[i].query = input.queries[i]
         /\ results[i].candidate = Null =>
              \/ Mentions(diagnostics.warnings, results[i].query)
              \/ results[i].errors # {} /\ results[i].errors \subseteq diagnostics.errors
    /\ diagnostics.candidatesResolved
         = Cardinality({i \in DOMAIN results : results[i].candidate # Null})

(* Likewise each requirement has a match or an issue that names it when a     *)
(* provider was asked.                                                        *)
RequirementsKept ==
  Resolving /\ stage = "analysed" /\ requests > 0 =>
    \A requirement \in ToSet(job.requirements) :
      \E x \in ToSet(results) \cup issues : x.requirementId = requirement.requirementId

NothingLost == QueriesKept /\ RequirementsKept

(* The service is asked only by a call that allows the network, and the       *)
(* diagnostics admit it: nothing goes out offline, with an injected resolver, *)
(* or under the offline policy.                                               *)
NetworkTruthful ==
  requests > 0 =>
    /\ Planning => job.options.enableNetwork /\ job.resolver = None
    /\ Resolving => job.networkPolicy = "metadata-only"
    /\ stage \in {"planned", "failed", "analysed"} => diagnostics.networkUsed

(* The plan owns up to what is doubtful in it.  An alpha is taken only for a  *)
(* caller who prefers experimental versions, an unstable version or a failed  *)
(* query leaves a message, a plan with messages is not of low risk, a plan    *)
(* with errors is of high risk until the analysis is brought in (what becomes *)
(* of it then is `RiskKept'), and one with a blocker is rejected              *)
(* (selectBestVersion, mergeDiagnosticsIntoPlan,                              *)
(* applyCompatibilityToResourcePlan).                                         *)
PlanOwnsUp ==
  Planning /\ stage \in {"planned", "analysed"} =>
    /\ plan.warnings \cup plan.errors # {} => plan.risk # "low"
    /\ stage = "planned" /\ plan.errors # {} => plan.risk = "high"
    /\ \A resource \in ToSet(plan.resources) :
         /\ resource.releaseType # "release" /\ job.resolver = None =>
              \E m \in plan.warnings : m = Message("RESOLVER_WARNING", resource.releaseType)
         /\ resource.releaseType = "alpha" /\ job.resolver = None =>
              input.riskPreference = "experimental"
    /\ (\E i \in DOMAIN results : results[i].candidate = Null) => plan.risk # "low"
    /\ stage = "analysed" /\ HasSeverity(analysis.issues, {"blocker"}) =>
         plan.status = "rejected" /\ plan.risk = "high" /\ plan.errors # {}

--------------------------------------------------------------------------------
(* Analysis.                                                                  *)

Analysed == stage = "analysed" /\ analysis # Null

Candidates ==
  IF Planning THEN Resolution(results).candidates
  ELSE [i \in DOMAIN results |-> results[i].candidate]

Target ==
  IF Planning THEN [minecraftVersion |-> plan.target.minecraftVersion,
                    loader |-> plan.target.loader, side |-> job.side]
  ELSE job.target

(* What is known to work: the candidate declares version, loader and every    *)
(* side of the target, has files and hashes, and what it requires is there.   *)
Declares(candidate, target) ==
  LET sides == IF target.side = "both" THEN {"client", "server"} ELSE {target.side}
  IN /\ candidate.metadataChecked /\ candidate.files /\ candidate.hashes
     /\ target.minecraftVersion \in candidate.gameVersions /\ target.loader \in candidate.loaders
     /\ "unknown" \notin sides
     /\ "client" \in sides => candidate.clientSide \notin {"unsupported", "unknown"}
     /\ "server" \in sides => candidate.serverSide \notin {"unsupported", "unknown"}

Satisfied(candidate, present) ==
  \A d \in candidate.dependencies :
     /\ d.type = "required" => \E c \in present : Matching(d, c)
     /\ d.type = "incompatible" => \A c \in present : ~Matching(d, c)

Proven(candidate, target, present) == Declares(candidate, target) /\ Satisfied(candidate, present)

Known == {"compatible", "compatible_with_warnings"}

(* Compatibility is never concluded from what is missing (docs/adr/0007:      *)
(* unknown is not compatible): a result that is not "unknown" or              *)
(* "incompatible" holds for the whole set, and a resource's own result is     *)
(* never better than the candidate is.                                        *)
CompatibleIsProven ==
  Analysed =>
    LET present == ToSet(Candidates \o job.analyzerOptions.dependencyCandidates)
    IN /\ analysis.status \in Known =>
            /\ Candidates # <<>>
            /\ \A candidate \in ToSet(Candidates) : Proven(candidate, Target, present)
       /\ \A candidate \in ToSet(Candidates) :
            analysis.resourceResults[resourceCandidateIdentity(candidate)].status \in Known
              => Proven(candidate, Target, present)

(* Candidates of one identity that are not the same candidate: the analysis   *)
(* then keeps the dependencies of the last of them.                           *)
Ambiguous ==
  \E c, d \in ToSet(Candidates) : c # d /\ resourceCandidateIdentity(c) = resourceCandidateIdentity(d)

(* A resource is known by its identity: c needs d when what it requires       *)
(* matches anything on hand that has the identity of d.                       *)
Needs(c, d) ==
  \E dependency \in c.dependencies :
    \E m \in ToSet(Candidates \o job.analyzerOptions.dependencyCandidates) :
      /\ dependency.type = "required" /\ Matching(dependency, m)
      /\ resourceCandidateIdentity(m) = resourceCandidateIdentity(d)

ClosedUnderNeeds(S) == \A c \in S : \A d \in ToSet(Candidates) : Needs(c, d) => d \in S

(* What c needs, directly or not: all that no closed set can leave out.       *)
Reach(c) ==
  {d \in ToSet(Candidates) :
     \A S \in SUBSET ToSet(Candidates) : c \in S /\ ClosedUnderNeeds(S) => d \in S}

OnCycle(c) == \E d \in ToSet(Candidates) : Needs(c, d) /\ c \in Reach(d)

(* A cycle of required dependencies is reported exactly when there is one,    *)
(* and only resources on a cycle are named (analyzeDependencyCycles, a        *)
(* depth-first search that does not follow a visited node again).             *)
CyclesReported ==
  Analysed /\ ~Ambiguous =>
    LET reported == {i \in analysis.issues : i.code = "DEPENDENCY_CYCLE"}
        onCycle == {c \in ToSet(Candidates) : OnCycle(c)}
    IN /\ reported # {} <=> onCycle # {}
       /\ UNION {i.related : i \in reported} \subseteq {resourceCandidateIdentity(c) : c \in onCycle}

--------------------------------------------------------------------------------
(* Execution review.                                                          *)

(* What an accepted request was checked for: it is what the user was shown    *)
(* and confirmed, in time, with the evidence each capability needs, for a     *)
(* plan without errors, of proven compatibility and with known hashes.        *)
Authorised(a) ==
  /\ a.request.reviewed.plan = a.shown.plan
  /\ a.request.capabilities = a.shown.proposal.capabilities
  /\ a.request.workspace = a.shown.proposal.workspace
  /\ a.at <= a.expiresAt
  /\ \A scope \in ToSet(a.request.capabilities) \cup {"local-executor"} :
       \E e \in ToSet(a.request.evidence) :
         e.scope = scope /\ e.gate = requiredGateForAuthorizationScope(scope)
  /\ a.request.reviewed.plan.errors = {} /\ a.request.reviewed.plan.status # "rejected"
  /\ a.request.reviewed.compatibility.status \in Known
  /\ \A resource \in ToSet(a.request.reviewed.plan.resources) : resource.hashKnown

(* A request passes at most once, within the time of its confirmation, and    *)
(* only as it was confirmed (docs/adr/0008: an expired, consumed or           *)
(* superseded confirmation is invalid).                                       *)
ExecutionAuthorised == Len(accepted) <= 1 /\ \A a \in ToSet(accepted) : Authorised(a)

(* What may have become of event i of a journal: another digest; another      *)
(* state with the digest kept; the event another history has in its place.    *)
Altered(i) ==
  LET others == DOMAIN ContractSuccessors \ {journal[i].to}
  IN {[journal[i] EXCEPT !.digest = Append(@, "altered")]}
       \cup {[journal[i] EXCEPT !.to = to] : to \in others}
       \cup {JournalEvent(SubSeq(journal, 1, i - 1), to) : to \in others}

(* A journal is accepted as it was written.  With an event twice, or without  *)
(* an event or with an altered one where another follows, it is not: each     *)
(* event answers for the state and the digest of the one before it            *)
(* (validateTransactionJournal).                                              *)
JournalEvident ==
  journal # <<>> =>
    /\ validateTransactionJournal(journal)
    /\ \A i \in DOMAIN journal :
         /\ ~validateTransactionJournal(Append(journal, journal[i]))
         /\ i < Len(journal) =>
              /\ ~validateTransactionJournal(RemoveAt(journal, i))
              /\ \A other \in Altered(i) :
                    ~validateTransactionJournal(ReplaceAt(journal, i, other))

--------------------------------------------------------------------------------
(* A statement of the documents that the code does not keep.                  *)

RiskRank(risk) == CASE risk = "low" -> 1 [] risk = "medium" -> 2 [] risk = "high" -> 3

(* docs/adr/0007: what the analysis finds raises the risk of a plan to "at    *)
(* least medium" or to high, so it never lowers it                            *)
(* (applyCompatibilityToResourcePlan).                                        *)
RiskKept ==
  [][stage = "planned" /\ stage' = "analysed" => RiskRank(plan'.risk) >= RiskRank(plan.risk)]_vars
===============================================================================
