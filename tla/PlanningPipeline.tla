--------------------------- MODULE PlanningPipeline ---------------------------
(* A call of `planResourcesFromIntent' or of `resolveAndAnalyzeMetadata'      *)
(* (packages/api-client/src), one awaited request at a time, and what its     *)
(* caller does with the result.  The service answers each request as it likes *)
(* and an injected resolver gives one of the results it may give.             *)
EXTENDS ResourcePlanning

CONSTANTS Jobs,            \* the calls a caller may make
          AliasEntries,    \* the alias database
          Answers(_),      \* the answers to a request for "projects", "project", "versions"
          Resolved(_)      \* the candidates an injected resolver may give, by its name

ASSUME JobsAssumption ==
  \A call \in Jobs : /\ call.kind \in {"plan", "metadata"}
                     /\ call.kind = "metadata" =>
                          /\ call.allowedProviders \in Seq(STRING)
                          /\ call.requirements \in Seq(ToSet(call.requirements))
                     /\ call.rounds \in Nat \ {0}

ASSUME ResolvedAssumption ==
  \A call \in Jobs : call.kind = "plan" /\ call.resolver # None =>
    \A candidates \in Resolved(call.resolver) :
      /\ candidates \in Seq(ToSet(candidates))
      /\ \A candidate \in ToSet(candidates) :
           {candidate.source, candidate.projectId, candidate.versionId} \subseteq ToSet(Names)

ASSUME AnswersAssumption ==
  \A answer \in Answers("versions") : answer.status = "ok" =>
    /\ answer.body \in Seq(ToSet(answer.body))
    /\ \A version \in ToSet(answer.body) : {version.projectId, version.id} \subseteq ToSet(Names)

ASSUME AliasAssumption == AliasEntries \in Seq(ToSet(AliasEntries))

VARIABLES job,          \* the call: its kind and its arguments
          round,        \* how often it was made
          stage,        \* where it is
          input,        \* the normalised intent and its queries
          providers,    \* the providers still to consult
          todo,         \* the queries or requirements not yet resolved
          found,        \* the project of the first of them, once it is known
          results,      \* results or matches so far
          issues,       \* issues of the metadata resolver so far
          requests,     \* the requests made to the service in this round
          diagnostics,
          plan,
          analysis

callVars == <<input, providers, todo, found, results, issues, requests>>
pipelineVars == <<job, round, stage, callVars, diagnostics, plan, analysis>>

Registered == {"modrinth"}

Init ==
  /\ job \in Jobs
  /\ round = 1 /\ stage = "idle"
  /\ input = Null /\ providers = <<>> /\ todo = <<>> /\ found = Null
  /\ results = <<>> /\ issues = {} /\ requests = 0
  /\ diagnostics = Null /\ plan = Null /\ analysis = Null

Request == requests' = requests + 1

--------------------------------------------------------------------------------
(* planResourcesFromIntent.                                                   *)

Planning == job.kind = "plan"

BuildInput ==
  /\ Planning /\ stage = "idle"
  /\ input' = buildPlanningPipelineInput(job.intent, job.options, AliasEntries)
  /\ todo' = input'.queries
  /\ stage' = "resolving"
  /\ UNCHANGED <<job, round, providers, found, results, issues, requests,
                 diagnostics, plan, analysis>>

(* A resolver given in the options; it finds candidates for the first query.  *)
InjectedResolver ==
  /\ Planning /\ stage = "resolving" /\ job.resolver # None
  /\ \E candidates \in Resolved(job.resolver) :
       results' = [i \in DOMAIN candidates |-> Result(Head(todo), candidates[i], {}, {})]
  /\ todo' = <<>> /\ stage' = "resolved"
  /\ UNCHANGED <<job, round, input, providers, found, issues, requests,
                 diagnostics, plan, analysis>>

Networked == Planning /\ stage = "resolving" /\ job.resolver = None

(* Faulty variant: the network is used unless it is ruled out.                *)
networkResolver_DefaultOn(options) == TRUE

networkResolver(options) == options.enableNetwork

NetworkDisabled ==
  /\ Networked /\ ~networkResolver(job.options)
  /\ results' = [i \in DOMAIN todo |->
                   Result(todo[i], Null, {Message("NETWORK_DISABLED", None)}, {})]
  /\ todo' = <<>> /\ stage' = "resolved"
  /\ UNCHANGED <<job, round, input, providers, found, issues, requests,
                 diagnostics, plan, analysis>>

(* The first query is done: the next is taken up whatever came of this one.   *)
(* The faulty variants give up the rest after an error, or keep the project.  *)
NextQuery_StopAtError(result) ==
  /\ results' = Append(results, result)
  /\ todo' = IF result.errors # {} THEN <<>> ELSE Tail(todo)
  /\ found' = Null

NextQuery_KeepProject(result) ==
  /\ results' = Append(results, result)
  /\ todo' = Tail(todo)
  /\ UNCHANGED found

NextQuery(result) ==
  /\ results' = Append(results, result)
  /\ todo' = Tail(todo)
  /\ found' = Null

QueryStep == Networked /\ networkResolver(job.options) /\ todo # <<>>

RefuseQuery ==
  /\ QueryStep /\ Refused(Head(todo))
  /\ NextQuery(RefusedResult(Head(todo)))
  /\ UNCHANGED <<job, round, stage, input, providers, issues, requests,
                 diagnostics, plan, analysis>>

SearchAnswered ==
  /\ QueryStep /\ ~Refused(Head(todo)) /\ Identifier(Head(todo)) = None /\ found = Null
  /\ Request
  /\ \E answer \in Answers("projects") :
       LET hits == searchProjects(answer)
           selected == selectSearchProject(hits.value, Head(todo))
       IN IF hits.error # None THEN NextQuery(FailedResult(Head(todo), {}, hits.error))
          ELSE IF Usable(selected.project)
          THEN found' = selected /\ UNCHANGED <<results, todo>>
          ELSE NextQuery(FailedResult(Head(todo), selected.warnings, "no identifier"))
  /\ UNCHANGED <<job, round, stage, input, providers, issues, diagnostics, plan, analysis>>

VersionsAnswered ==
  /\ QueryStep /\ ~Refused(Head(todo)) /\ (Identifier(Head(todo)) # None \/ found # Null)
  /\ Request
  /\ \E answer \in Answers("versions") :
       NextQuery(ResolvedResult(Head(todo),
                                IF found = Null THEN Null ELSE found.project,
                                IF found = Null THEN {} ELSE found.warnings,
                                answer, input.riskPreference))
  /\ UNCHANGED <<job, round, stage, input, providers, issues, diagnostics, plan, analysis>>

AllQueriesResolved ==
  /\ Networked /\ networkResolver(job.options) /\ todo = <<>>
  /\ stage' = "resolved"
  /\ UNCHANGED <<job, round, callVars, diagnostics, plan, analysis>>

PlanResolved ==
  LET resolution == Resolution(results)
      made == buildDiagnostics(input, resolution, input.networkAllowed /\ job.resolver = None)
  IN /\ Planning /\ stage = "resolved"
     /\ diagnostics' = made
     /\ IF resolution.candidates = <<>>
        THEN stage' = "failed" /\ UNCHANGED plan
        ELSE stage' = "planned" /\ plan' = planResources(input, resolution, made)
     /\ UNCHANGED <<job, round, callVars, analysis>>

(* The caller analyses the candidates and brings the outcome into the plan.   *)
Analyse ==
  LET target == [minecraftVersion |-> plan.target.minecraftVersion,
                 loader |-> plan.target.loader, side |-> job.side]
      made == analyzeCompatibility(Resolution(results).candidates, target, job.analyzerOptions)
  IN /\ Planning /\ stage = "planned" /\ validateCompatibilityTarget(target)
     /\ analysis' = made
     /\ plan' = applyCompatibilityToResourcePlan(plan, made)
     /\ stage' = "analysed"
     /\ UNCHANGED <<job, round, callVars, diagnostics>>

PlanAgain ==
  /\ Planning /\ stage \in {"planned", "failed", "analysed"} /\ round < job.rounds
  /\ round' = round + 1 /\ stage' = "idle"
  /\ results' = <<>> /\ requests' = 0
  /\ UNCHANGED <<job, input, providers, todo, found, issues, diagnostics, plan, analysis>>

--------------------------------------------------------------------------------
(* resolveAndAnalyzeMetadata.                                                 *)

Resolving == job.kind = "metadata"

AskProviders ==
  /\ Resolving /\ stage = "idle"
  /\ providers' = job.allowedProviders /\ stage' = "consulting"
  /\ UNCHANGED <<job, round, input, todo, found, results, issues, requests,
                 diagnostics, plan, analysis>>

ProviderIssue == [code |-> "PROVIDER_UNAVAILABLE", severity |-> "warning", requirementId |-> None]

Consulting == Resolving /\ stage = "consulting" /\ providers # <<>>

(* A provider nobody registered, or one the network policy keeps offline.     *)
SkipProvider ==
  /\ Consulting
  /\ Head(providers) \notin Registered \/ job.networkPolicy # "metadata-only"
  /\ issues' = issues \cup {ProviderIssue}
  /\ providers' = Tail(providers)
  /\ UNCHANGED <<job, round, stage, input, todo, found, results, requests,
                 diagnostics, plan, analysis>>

ConsultProvider ==
  /\ Consulting /\ Head(providers) \in Registered /\ job.networkPolicy = "metadata-only"
  /\ todo' = job.requirements /\ stage' = "resolving"
  /\ UNCHANGED <<job, round, input, providers, found, results, issues, requests,
                 diagnostics, plan, analysis>>

RequirementStep == Resolving /\ stage = "resolving" /\ todo # <<>>

ProjectAnswered ==
  /\ RequirementStep /\ found = Null
  /\ Request
  /\ \E answer \in Answers(IF Identifier(Head(todo)) = None THEN "projects" ELSE "project") :
       LET selected == resolveProject(Head(todo), answer)
       IN IF selected.error = None
          THEN found' = selected.value /\ UNCHANGED <<issues, todo>>
          ELSE /\ issues' = issues \cup {issueFromError(selected.error, Head(todo), "project")}
               /\ todo' = Tail(todo) /\ UNCHANGED found
  /\ UNCHANGED <<job, round, stage, input, providers, results, diagnostics, plan, analysis>>

RequirementVersionsAnswered ==
  /\ RequirementStep /\ found # Null
  /\ Request
  /\ \E answer \in Answers("versions") :
       LET resolved == resolveRequirement(Head(todo), found, answer, job.riskPreference)
       IN /\ issues' = issues \cup resolved.issues
          /\ results' = IF resolved.match = Null THEN results ELSE Append(results, resolved.match)
  /\ todo' = Tail(todo) /\ found' = Null
  /\ UNCHANGED <<job, round, stage, input, providers, diagnostics, plan, analysis>>

ProviderResolved ==
  /\ Resolving /\ stage = "resolving" /\ todo = <<>>
  /\ providers' = Tail(providers) /\ stage' = "consulting"
  /\ UNCHANGED <<job, round, input, todo, found, results, issues, requests,
                 diagnostics, plan, analysis>>

MetadataResolved ==
  /\ Resolving /\ stage = "consulting" /\ providers = <<>>
  /\ LET matches == sortAndDedupeMatches(results, job.requirements, job.allowedProviders)
         candidates == [i \in DOMAIN matches |-> matches[i].candidate]
     IN /\ results' = matches
        /\ analysis' = analyzeCompatibility(candidates, job.target, job.analyzerOptions)
  /\ diagnostics' = [issues |-> issues,
                     networkUsed |-> /\ ToSet(job.allowedProviders) \cap Registered # {}
                                     /\ job.networkPolicy = "metadata-only"
                                     /\ job.requirements # <<>>]
  /\ stage' = "analysed"
  /\ UNCHANGED <<job, round, input, providers, todo, found, issues, requests, plan>>

--------------------------------------------------------------------------------

PipelineNext ==
  \/ BuildInput \/ InjectedResolver \/ NetworkDisabled \/ RefuseQuery \/ SearchAnswered
  \/ VersionsAnswered \/ AllQueriesResolved \/ PlanResolved \/ Analyse \/ PlanAgain
  \/ AskProviders \/ SkipProvider \/ ConsultProvider \/ ProjectAnswered
  \/ RequirementVersionsAnswered \/ ProviderResolved \/ MetadataResolved
===============================================================================
