--------------------------- MODULE ResourcePlanning ---------------------------
(* From an intent to resolver queries and from resolved candidates to a plan  *)
(* (packages/api-client/src/aliasDb.ts, resolverQuery.ts, planningPipeline.ts *)
(* and compatibilityPlanning.ts; packages/shared-types/src/resolver.ts,       *)
(* plan.ts and resource-plan.ts).  An intent has the words of its prompt, its *)
(* features and its goals; an alias entry is matched by one of these.         *)
EXTENDS MetadataResolution

--------------------------------------------------------------------------------
(* Aliases and queries.                                                       *)

IntentText(intent) == intent.words \cup intent.features \cup intent.goals

(* Entries of one canonical name are one match: the first entry's data.       *)
matchAliasesInText(text, entries) ==
  LET matching == {i \in DOMAIN entries : entries[i].aliases \cap text # {}}
      Repeated(i) == \E j \in matching : j < i /\ entries[j].canonicalName = entries[i].canonicalName
  IN Chosen(entries, {i \in matching : ~Repeated(i)})

resolveAliasesForIntent(intent, entries) == matchAliasesInText(IntentText(intent), entries)

(* What the options override in the intent.                                   *)
withPlanningOverrides(intent, options) ==
  [intent EXCEPT
     !.minecraftVersion = IF options.minecraftVersion # None THEN options.minecraftVersion ELSE @,
     !.stable = IF options.riskPreference # None THEN options.riskPreference = "stable" ELSE @]

contextFromIntent(intent) ==
  [minecraftVersion |-> intent.minecraftVersion, loader |-> "fabric",
   riskPreference |-> IF intent.stable THEN "stable" ELSE "experimental",
   goals |-> intent.features \cup intent.goals]

isRequired(match, context) == "dependency" \in match.tags \/ match.tags \cap context.goals # {}

mapAliasMatchToResolverQuery(match, context) ==
  [source |-> IF match.projectId # None \/ match.slug # None THEN "modrinth" ELSE "community-index",
   canonicalName |-> match.canonicalName,
   query |-> CASE match.projectId # None -> match.projectId
               [] match.projectId = None /\ match.slug # None -> match.slug
               [] OTHER -> match.canonicalName,
   projectId |-> match.projectId, slug |-> match.slug,
   loader |-> IF match.loaders # <<>> THEN match.loaders[1] ELSE context.loader,
   gameVersion |-> context.minecraftVersion,
   required |-> isRequired(match, context), needsVerification |-> match.needsVerification]

KeyOf(query) == IF Identifier(query) # None THEN Identifier(query) ELSE query.canonicalName

(* The first query of each key.                                               *)
FirstOfEachKey(queries) ==
  LET Repeated(i) == \E j \in 1..(i - 1) : KeyOf(queries[j]) = KeyOf(queries[i])
  IN Chosen(queries, {i \in DOMAIN queries : ~Repeated(i)})

buildResolverQueriesFromAliases(matches, context) ==
  FirstOfEachKey([i \in DOMAIN matches |-> mapAliasMatchToResolverQuery(matches[i], context)])

goalSeed(canonicalName, slug, context) ==
  [source |-> "modrinth", canonicalName |-> canonicalName, query |-> slug, projectId |-> None, slug |-> slug,
   loader |-> context.loader, gameVersion |-> context.minecraftVersion,
   required |-> FALSE, needsVerification |-> TRUE]

(* A seed is left out when a query has its slug, or has it for a key.         *)
addGoalSeedQueries(queries, context) ==
  LET keys == {IF q.slug # None THEN q.slug ELSE KeyOf(q) : q \in ToSet(queries)}
      Seed(goal, name, slug) == IF goal \in context.goals /\ slug \notin keys
                                THEN <<goalSeed(name, slug, context)>> ELSE <<>>
  IN queries \o Seed("performance", "Sodium", "sodium") \o Seed("shader", "Iris Shaders", "iris")

buildResolverQueriesForIntent(intent, entries) ==
  LET context == contextFromIntent(intent)
      matches == resolveAliasesForIntent(intent, entries)
  IN addGoalSeedQueries(buildResolverQueriesFromAliases(matches, context), context)

buildPlanningPipelineInput(intent, options, entries) ==
  LET normalized == withPlanningOverrides(intent, options)
  IN [intent |-> normalized,
      aliasMatches |-> resolveAliasesForIntent(normalized, entries),
      queries |-> buildResolverQueriesForIntent(normalized, entries),
      minecraftVersion |-> normalized.minecraftVersion, loader |-> "fabric",
      riskPreference |-> IF normalized.stable THEN "stable" ELSE "experimental",
      networkAllowed |-> options.enableNetwork]

--------------------------------------------------------------------------------
(* The plan.  Messages are sets: the code adds one only when it is new.       *)

Resolution(results) ==
  LET successful == Chosen(results, {i \in DOMAIN results : results[i].candidate # Null})
  IN [candidates |-> [k \in DOMAIN successful |-> successful[k].candidate],
      results |-> results,
      warnings |-> UNION {results[i].warnings : i \in DOMAIN results},
      errors |-> UNION {results[i].errors : i \in DOMAIN results}]

requiredProjectIds(resolution) ==
  {resolution.results[i].candidate.projectId : i \in
     {k \in DOMAIN resolution.results : /\ resolution.results[k].query.required
                                        /\ resolution.results[k].candidate # Null}}

dependencyProjectIds(candidates) ==
  {d.projectId : d \in {e \in UNION {candidates[i].dependencies : i \in DOMAIN candidates} :
                          e.type = "required" /\ e.projectId # None}}

normalizeSide(clientSide, serverSide) ==
  LET clientRequired == clientSide \in {"required", "optional"}
      serverRequired == serverSide \in {"required", "optional"}
  IN IF clientRequired /\ serverRequired THEN "both"
     ELSE IF serverRequired THEN "server" ELSE "client"

mapResourceCandidateToPlanResource(candidate, required) ==
  [projectId |-> candidate.projectId, slug |-> candidate.slug, versionId |-> candidate.versionId,
   releaseType |-> candidate.versionType, required |-> required,
   minecraftVersions |-> candidate.gameVersions, loaders |-> candidate.loaders,
   side |-> normalizeSide(candidate.clientSide, candidate.serverSide),
   metadataChecked |-> candidate.metadataChecked, hashKnown |-> candidate.hashes]

(* What the plan says of a candidate it takes up.                             *)
ResourceWarnings(candidate) ==
  {w \in {Message("METADATA_NOT_CHECKED", candidate.projectId)} : ~candidate.metadataChecked}
  \cup {w \in {Message("HASH_NOT_KNOWN", candidate.projectId)} : ~candidate.hashes}
  \cup {Message("RESOLVER_WARNING", w) : w \in candidate.warnings}

(* A plan is identified by its intent, its version and how many resources it  *)
(* has, not by which.                                                         *)
PlanId(intent, minecraftVersion, resources) == <<intent, minecraftVersion, Len(resources)>>

buildResourcePlan(input, candidates, required, javaMajorVersion) ==
  LET New(i) == \A j \in 1..(i - 1) : candidates[j].projectId # candidates[i].projectId
      taken == Chosen(candidates, {i \in DOMAIN candidates : New(i)})
      resources == [k \in DOMAIN taken |->
                      mapResourceCandidateToPlanResource(taken[k], taken[k].projectId \in required)]
      warnings == UNION {ResourceWarnings(taken[k]) : k \in DOMAIN taken}
                  \cup {Message("DUPLICATE_PROJECT_SKIPPED", candidates[i].projectId) :
                          i \in {k \in DOMAIN candidates : ~New(k)}}
                  \cup {w \in {Message("NO_RESOURCES_SELECTED", None)} : resources = <<>>}
  IN [planId |-> PlanId(input.intent.intentId, input.minecraftVersion, resources),
      status |-> "needs-user-confirmation",
      target |-> [minecraftVersion |-> input.minecraftVersion, loader |-> input.loader,
                  javaMajorVersion |-> javaMajorVersion],
      risk |-> IF warnings # {} THEN "medium" ELSE "low",
      resources |-> resources, rejected |-> {}, warnings |-> warnings, errors |-> {},
      confirmed |-> FALSE]

(* From 1.20.5 on it is Java 21; a version it cannot read counts as 1.20.     *)
defaultJavaMajorVersion(minecraftVersion) ==
  IF minecraftVersion \in {"1.20.5", "1.20.6", "1.21", "1.21.1"} THEN 21 ELSE 17

buildDiagnostics(input, resolution, networkUsed) ==
  LET unverified == {m \in ToSet(input.aliasMatches) : m.needsVerification}
      empty == {r \in ToSet(resolution.results) : r.candidate = Null /\ r.errors = {}}
  IN [candidatesResolved |-> Len(resolution.candidates),
      warnings |-> {Message("ALIAS_NEEDS_VERIFICATION", m.canonicalName) : m \in unverified}
                   \cup resolution.warnings
                   \cup {Message("NO_CANDIDATE_FOUND", r.query.canonicalName) : r \in empty},
      errors |-> resolution.errors, networkUsed |-> networkUsed]

(* Faulty variant: the risk is left as it was when the plan was built.        *)
mergeDiagnosticsIntoPlan_KeepRisk(plan, diagnostics) ==
  [plan EXCEPT !.warnings = @ \cup diagnostics.warnings, !.errors = @ \cup diagnostics.errors]

mergeDiagnosticsIntoPlan(plan, diagnostics) ==
  LET warnings == plan.warnings \cup diagnostics.warnings
      errors == plan.errors \cup diagnostics.errors
  IN [plan EXCEPT !.warnings = warnings, !.errors = errors,
                  !.risk = IF errors # {} THEN "high" ELSE IF warnings # {} THEN "medium" ELSE @]

planResources(input, resolution, diagnostics) ==
  mergeDiagnosticsIntoPlan(
    buildResourcePlan(input, resolution.candidates,
                      requiredProjectIds(resolution) \cup dependencyProjectIds(resolution.candidates),
                      defaultJavaMajorVersion(input.minecraftVersion)),
    diagnostics)

--------------------------------------------------------------------------------
(* The analysis brought into the plan.                                        *)

planMessage(issue) ==
  Message(issue.code, IF issue.resource = NoResource THEN None ELSE issue.resource[2])

applyCompatibilityToResourcePlan(plan, analysis) ==
  LET Of(severities) == {planMessage(i) : i \in {j \in analysis.issues : j.severity \in severities}}
      hasBlocker == HasSeverity(analysis.issues, {"blocker"})
      hasConcern == HasSeverity(analysis.issues, {"blocker", "error", "warning"})
  IN [plan EXCEPT
        !.status = IF hasBlocker THEN "rejected" ELSE @,
        !.risk = IF hasBlocker THEN "high" ELSE IF hasConcern THEN "medium" ELSE @,
        !.errors = @ \cup Of({"blocker"}), !.warnings = @ \cup Of({"warning", "error"})]
===============================================================================
