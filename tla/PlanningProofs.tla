----------------------------- MODULE PlanningProofs ----------------------------
(* What holds of every planning call and every review of an execution         *)
(* request, for any calls, alias database, answers of the service, results of *)
(* injected resolvers, lifetimes and bounds.                                  *)
EXTENDS PlanningProperties, SequenceTheorems, FiniteSetTheorems, WellFoundedInduction,
        NaturalsInduction, FunctionTheorems, TLAPS

--------------------------------------------------------------------------------
(* Compatibility is proven.                                                   *)

CandidateIssues(candidate, target, lookup, unknownSeverity) ==
  analyzeCandidateMetadata(candidate, target, unknownSeverity)
  \cup analyzeCandidateDependencies(candidate, lookup, unknownSeverity)

(* Issues that leave a result better than "unknown".                          *)
Harmless(every) ==
  \A issue \in every :
    issue.severity \notin {"blocker", "error"} /\ issue.code \notin UNKNOWN_CODES

LEMMA StatusKnown ==
  ASSUME NEW every
  PROVE  /\ deriveCompatibilityStatus(every) \in Known => Harmless(every)
         /\ deriveCompatibilityStatus(every) \in Known \cup {"unknown", "incompatible"}
  BY DEF deriveCompatibilityStatus, HasSeverity, Known, Harmless

LEMMA IssueFields ==
  ASSUME NEW code, NEW severity, NEW resource, NEW check
  PROVE  /\ makeIssue(code, severity, resource, check).code = code
         /\ makeIssue(code, severity, resource, check).severity = severity
         /\ makeIssue(code, severity, resource, check).resource = resource
         /\ DOMAIN makeIssue(code, severity, resource, check)
              = {"code", "severity", "resource", "related", "dependency", "rule", "check"}
  BY DEF makeIssue

LEMMA MetadataProven ==
  ASSUME NEW candidate, NEW target, NEW unknownSeverity,
         Harmless(analyzeCandidateMetadata(candidate, target, unknownSeverity))
  PROVE  Declares(candidate, target)
  <1> DEFINE id == resourceCandidateIdentity(candidate)
             all == analyzeCandidateMetadata(candidate, target, unknownSeverity)
             side == analyzeSide(candidate, target, unknownSeverity)
             Unknown(code, check) == makeIssue(code, unknownSeverity, id, check)
             Mismatch(code, check) == makeIssue(code, "blocker", id, check)
  <1>1. \A code \in UNKNOWN_CODES : \A check : Unknown(code, check) \notin all
    BY IssueFields DEF Harmless
  <1>2. \A code, check : Mismatch(code, check) \notin all
    BY IssueFields DEF Harmless
  <1>3. /\ {"METADATA_UNCHECKED", "METADATA_INCOMPLETE", "COMPATIBILITY_UNKNOWN"}
             \subseteq UNKNOWN_CODES
    BY DEF UNKNOWN_CODES
  <1>4. /\ candidate.metadataChecked
        /\ candidate.files /\ candidate.hashes
        /\ candidate.gameVersions # {} /\ candidate.loaders # {}
    <2>1. IssueWhen(~candidate.metadataChecked, Unknown("METADATA_UNCHECKED", "metadata"))
            \subseteq all
      BY DEF analyzeCandidateMetadata
    <2>2. IssueWhen(\/ candidate.gameVersions = {} \/ candidate.loaders = {}
                    \/ ~candidate.files \/ ~candidate.hashes,
                    Unknown("METADATA_INCOMPLETE", "metadata")) \subseteq all
      BY DEF analyzeCandidateMetadata
    <2> HIDE DEF all, Unknown
    <2>3. QED
      BY <1>1, <1>3, <2>1, <2>2 DEF IssueWhen
  <1>5. /\ target.minecraftVersion \in candidate.gameVersions
        /\ target.loader \in candidate.loaders
    <2>1. IssueWhen(candidate.gameVersions # {}
                      /\ target.minecraftVersion \notin candidate.gameVersions,
                    Mismatch("MINECRAFT_VERSION_MISMATCH", "minecraftVersion")) \subseteq all
      BY DEF analyzeCandidateMetadata, Declared
    <2>2. IssueWhen(candidate.loaders # {} /\ target.loader \notin candidate.loaders,
                    Mismatch("LOADER_MISMATCH", "loader")) \subseteq all
      BY DEF analyzeCandidateMetadata, Declared
    <2> HIDE DEF all, Mismatch
    <2>3. QED
      BY <1>2, <1>4, <2>1, <2>2 DEF IssueWhen
  <1>6. side \subseteq all
    BY DEF analyzeCandidateMetadata
  <1>7. target.side # "unknown"
    <2>1. target.side = "unknown" => Unknown("COMPATIBILITY_UNKNOWN", "side") \in side
      BY DEF analyzeSide
    <2>2. QED
      BY <1>1, <1>3, <1>6, <2>1
  <1>8. ASSUME NEW s \in IF target.side = "both" THEN {"client", "server"} ELSE {target.side}
        PROVE  [client |-> candidate.clientSide, server |-> candidate.serverSide][s]
                 \notin {"unsupported", "unknown"}
    <2>1. [client |-> candidate.clientSide, server |-> candidate.serverSide][s] = "unsupported"
            => Mismatch("SIDE_MISMATCH", "side") \in side
      BY <1>7 DEF analyzeSide, IssueWhen
    <2>2. [client |-> candidate.clientSide, server |-> candidate.serverSide][s] = "unknown"
            => Unknown("COMPATIBILITY_UNKNOWN", "side") \in side
      BY <1>7 DEF analyzeSide, IssueWhen
    <2>3. QED
      BY <1>1, <1>2, <1>3, <1>6, <2>1, <2>2
  <1>9. QED
    BY <1>4, <1>5, <1>7, <1>8 DEF Declares

(* The issues of one dependency.                                              *)
DependencyIssues(id, d, lookup, unknownSeverity) ==
  CASE d.type = "required" ->
         RequiredDependencyIssues(id, d, findDependencyMatches(d, lookup), unknownSeverity)
    [] d.type = "incompatible" ->
         {ConflictIssue({id, resourceCandidateIdentity(m)}, "blocker", None)
            : m \in findDependencyMatches(d, lookup)}
    [] OTHER -> {}

LEMMA DependencyByDependency ==
  ASSUME NEW candidate, NEW lookup, NEW unknownSeverity
  PROVE  analyzeCandidateDependencies(candidate, lookup, unknownSeverity)
           = UNION {DependencyIssues(resourceCandidateIdentity(candidate), d, lookup,
                                     unknownSeverity) : d \in candidate.dependencies}
  BY Zenon DEF analyzeCandidateDependencies, DependencyIssues

LEMMA DependencyKinds ==
  ASSUME NEW id, NEW d, NEW lookup, NEW unknownSeverity
  PROVE  LET made == DependencyIssues(id, d, lookup, unknownSeverity)
             required == RequiredDependencyIssues(id, d, findDependencyMatches(d, lookup),
                                                  unknownSeverity)
             Conflict(m) == ConflictIssue({id, resourceCandidateIdentity(m)}, "blocker", None)
         IN /\ d.type = "required" => required \subseteq made
            /\ d.type = "incompatible" => \A m \in findDependencyMatches(d, lookup) : Conflict(m) \in made
            /\ \A issue \in made : issue \in required \/ \E m : issue = Conflict(m)
  <1> DEFINE made == DependencyIssues(id, d, lookup, unknownSeverity)
             required == RequiredDependencyIssues(id, d, findDependencyMatches(d, lookup),
                                                  unknownSeverity)
             Conflict(m) == ConflictIssue({id, resourceCandidateIdentity(m)}, "blocker", None)
             conflicts == {Conflict(m) : m \in findDependencyMatches(d, lookup)}
  <1>1. /\ d.type = "required" => required \subseteq made
        /\ d.type = "incompatible" => conflicts \subseteq made
        /\ made \subseteq required \/ made \subseteq conflicts
    <2>1. d.type = "required" => made = required
      BY DEF DependencyIssues
    <2>2. d.type = "incompatible" => made = conflicts
      BY DEF DependencyIssues
    <2>3. d.type \notin {"required", "incompatible"} => made = {}
      BY DEF DependencyIssues
    <2> HIDE DEF made, required, conflicts
    <2>4. QED
      BY <2>1, <2>2, <2>3
  <1>2. /\ \A m \in findDependencyMatches(d, lookup) : Conflict(m) \in conflicts
        /\ \A issue \in conflicts : \E m : issue = Conflict(m)
    <2> HIDE DEF Conflict
    <2>1. QED
      OBVIOUS
  <1> HIDE DEF conflicts
  <1>3. QED
    BY <1>1, <1>2

LEMMA DependenciesProven ==
  ASSUME NEW candidate, NEW lookup, NEW unknownSeverity,
         Harmless(analyzeCandidateDependencies(candidate, lookup, unknownSeverity))
  PROVE  Satisfied(candidate, ToSet(lookup))
  <1> DEFINE id == resourceCandidateIdentity(candidate)
             all == analyzeCandidateDependencies(candidate, lookup, unknownSeverity)
  <1>1. ASSUME NEW d \in candidate.dependencies, d.type = "required"
        PROVE  \E c \in ToSet(lookup) : Matching(d, c)
    <2>1. RequiredDependencyIssues(id, d, findDependencyMatches(d, lookup), unknownSeverity)
            \subseteq all
      BY <1>1, DependencyByDependency, DependencyKinds
    <2>2. CASE findDependencyMatches(d, lookup) # {}
      BY <2>2 DEF findDependencyMatches
    <2>3. CASE findDependencyMatches(d, lookup) = {}
      <3> DEFINE missing == [makeIssue("REQUIRED_DEPENDENCY_MISSING", "blocker", id, "dependencies")
                               EXCEPT !.dependency = d.projectId]
                 unresolved == makeIssue("REQUIRED_DEPENDENCY_UNRESOLVED", "blocker", id,
                                         "dependencies")
      <3>1. missing \in all \/ unresolved \in all
        BY <2>1, <2>3 DEF RequiredDependencyIssues
      <3>2. missing.severity = "blocker" /\ unresolved.severity = "blocker"
        BY IssueFields
      <3>3. QED
        BY <3>1, <3>2 DEF Harmless
    <2>4. QED
      BY <2>2, <2>3
  <1>2. ASSUME NEW d \in candidate.dependencies, d.type = "incompatible",
               NEW c \in ToSet(lookup), Matching(d, c)
        PROVE  FALSE
    <2> DEFINE conflict == ConflictIssue({id, resourceCandidateIdentity(c)}, "blocker", None)
    <2>1. c \in findDependencyMatches(d, lookup)
      BY <1>2 DEF findDependencyMatches
    <2>2. conflict \in all
      <3>1. conflict \in DependencyIssues(id, d, lookup, unknownSeverity)
        BY <1>2, <2>1, DependencyKinds
      <3>2. QED
        BY <3>1, DependencyByDependency
    <2>3. conflict.severity = "blocker"
      BY IssueFields DEF ConflictIssue
    <2>4. QED
      BY <2>2, <2>3 DEF Harmless
  <1>3. QED
    BY <1>1, <1>2 DEF Satisfied

(* Each of these issues concerns its candidate.                               *)
LEMMA IssuesConcern ==
  ASSUME NEW candidate, NEW target, NEW lookup, NEW unknownSeverity,
         NEW issue \in CandidateIssues(candidate, target, lookup, unknownSeverity)
  PROVE  Concerns(issue, resourceCandidateIdentity(candidate))
  <1> DEFINE id == resourceCandidateIdentity(candidate)
  <1>1. CASE issue \in analyzeCandidateMetadata(candidate, target, unknownSeverity)
    <2>1. issue.resource = id
      BY <1>1, IssueFields DEF analyzeCandidateMetadata, Declared, analyzeSide, IssueWhen
    <2>2. QED
      BY <2>1 DEF Concerns
  <1>2. CASE issue \in analyzeCandidateDependencies(candidate, lookup, unknownSeverity)
    <2>1. PICK d \in candidate.dependencies :
            \/ issue \in RequiredDependencyIssues(id, d, findDependencyMatches(d, lookup),
                                                  unknownSeverity)
            \/ \E m : issue = ConflictIssue({id, resourceCandidateIdentity(m)}, "blocker", None)
      <3>1. PICK d \in candidate.dependencies :
              issue \in DependencyIssues(id, d, lookup, unknownSeverity)
        BY <1>2, DependencyByDependency
      <3>2. QED
        BY <3>1, DependencyKinds
    <2>2. CASE issue \in RequiredDependencyIssues(id, d, findDependencyMatches(d, lookup),
                                                  unknownSeverity)
      <3>1. issue.resource = id
        <4> DEFINE plain(code, severity) == makeIssue(code, severity, id, "dependencies")
        <4>1. \/ issue = plain("REQUIRED_DEPENDENCY_UNRESOLVED", "blocker")
              \/ issue = [plain("REQUIRED_DEPENDENCY_MISSING", "blocker")
                            EXCEPT !.dependency = d.projectId]
              \/ \E ids : issue = [plain("DEPENDENCY_VERSION_UNKNOWN", unknownSeverity)
                                     EXCEPT !.dependency = d.projectId, !.related = ids]
          BY <2>2 DEF RequiredDependencyIssues, IssueWhen
        <4>2. \A code, severity : plain(code, severity).resource = id
          BY IssueFields
        <4>3. \A code, severity : DOMAIN plain(code, severity)
                = {"code", "severity", "resource", "related", "dependency", "rule", "check"}
          BY IssueFields
        <4> HIDE DEF plain
        <4>4. QED
          BY <4>1, <4>2, <4>3
      <3>2. QED
        BY <3>1 DEF Concerns
    <2>3. ASSUME NEW m, issue = ConflictIssue({id, resourceCandidateIdentity(m)}, "blocker", None)
          PROVE  Concerns(issue, id)
      <3>1. issue.related = {id, resourceCandidateIdentity(m)}
        BY <2>3, IssueFields DEF ConflictIssue
      <3>2. QED
        BY <3>1 DEF Concerns
    <2>4. QED
      BY <2>1, <2>2, <2>3
  <1>3. QED
    BY <1>1, <1>2 DEF CandidateIssues

LEMMA AnalysisProves ==
  ASSUME NEW candidates, NEW target, NEW options
  PROVE  LET made == analyzeCompatibility(candidates, target, options)
             present == ToSet(candidates \o options.dependencyCandidates)
         IN /\ made.status \in Known \cup {"unknown", "incompatible"}
            /\ made.status \in Known =>
                 /\ candidates # <<>>
                 /\ \A candidate \in ToSet(candidates) : Proven(candidate, target, present)
            /\ \A candidate \in ToSet(candidates) :
                 made.resourceResults[resourceCandidateIdentity(candidate)].status \in Known
                   => Proven(candidate, target, present)
  <1> DEFINE made == analyzeCompatibility(candidates, target, options)
             lookup == candidates \o options.dependencyCandidates
             severity == options.treatUnknownAs
             nothing == makeIssue("COMPATIBILITY_UNKNOWN", severity, NoResource, "metadata")
  <1>1. made.status = deriveCompatibilityStatus(made.issues)
    BY DEF analyzeCompatibility
  <1>2. \A i \in DOMAIN candidates :
          CandidateIssues(candidates[i], target, lookup, severity) \subseteq made.issues
    BY DEF analyzeCompatibility, CandidateIssues
  <1>3. candidates = <<>> => nothing \in made.issues
    BY DEF analyzeCompatibility, IssueWhen
  <1>4. \A id \in Identities(candidates) :
          made.resourceResults[id].status
            = deriveCompatibilityStatus({issue \in made.issues : Concerns(issue, id)})
    BY DEF analyzeCompatibility, createResourceResult
  <1> HIDE DEF made
  <1>5. ASSUME NEW i \in DOMAIN candidates, NEW every, Harmless(every),
               CandidateIssues(candidates[i], target, lookup, severity) \subseteq every
        PROVE  Proven(candidates[i], target, ToSet(lookup))
    <2>1. /\ Harmless(analyzeCandidateMetadata(candidates[i], target, severity))
          /\ Harmless(analyzeCandidateDependencies(candidates[i], lookup, severity))
      BY <1>5 DEF Harmless, CandidateIssues
    <2>2. QED
      BY <2>1, MetadataProven, DependenciesProven DEF Proven
  <1>6. ASSUME made.status \in Known
        PROVE  /\ candidates # <<>>
               /\ \A i \in DOMAIN candidates : Proven(candidates[i], target, ToSet(lookup))
    <2>1. Harmless(made.issues)
      BY <1>1, <1>6, StatusKnown
    <2>2. nothing.code \in UNKNOWN_CODES
      BY IssueFields DEF UNKNOWN_CODES
    <2>3. candidates # <<>>
      BY <1>3, <2>1, <2>2 DEF Harmless
    <2>4. QED
      BY <1>2, <1>5, <2>1, <2>3
  <1>7. ASSUME NEW i \in DOMAIN candidates,
               made.resourceResults[resourceCandidateIdentity(candidates[i])].status \in Known
        PROVE  Proven(candidates[i], target, ToSet(lookup))
    <2> DEFINE id == resourceCandidateIdentity(candidates[i])
               concerning == {issue \in made.issues : Concerns(issue, id)}
    <2>1. id \in Identities(candidates)
      BY DEF Identities
    <2>2. Harmless(concerning)
      BY <1>4, <1>7, <2>1, StatusKnown
    <2>3. CandidateIssues(candidates[i], target, lookup, severity) \subseteq concerning
      BY <1>2, IssuesConcern
    <2>4. QED
      BY <1>5, <2>2, <2>3
  <1>8. made.status \in Known \cup {"unknown", "incompatible"}
    BY <1>1, StatusKnown
  <1>9. QED
    BY <1>6, <1>7, <1>8 DEF made, ToSet

(* A result is the analysis of the candidates that were found, for the target *)
(* of the plan.                                                               *)
AnalysisInv ==
  /\ Planning /\ stage \in {"planned", "analysed"} => "target" \in DOMAIN plan
  /\ stage = "analysed" =>
       analysis = analyzeCompatibility(Candidates, Target, job.analyzerOptions)

LEMMA PlanKeepsTarget ==
  ASSUME NEW made, NEW result, "target" \in DOMAIN made
  PROVE  LET applied == applyCompatibilityToResourcePlan(made, result)
         IN "target" \in DOMAIN applied /\ applied.target = made.target
  BY DEF applyCompatibilityToResourcePlan

LEMMA PlanHasTarget ==
  ASSUME NEW made, NEW resolution, NEW messages
  PROVE  "target" \in DOMAIN planResources(made, resolution, messages)
  BY DEF planResources, mergeDiagnosticsIntoPlan, buildResourcePlan

(* Which steps bring a call to a plan or to a result.                         *)
LEMMA StagesReached ==
  ASSUME [PipelineNext]_pipelineVars
  PROVE  /\ job' = job
         /\ \/ stage' \notin {"planned", "analysed"}
            \/ PlanResolved \/ Analyse \/ MetadataResolved
            \/ UNCHANGED pipelineVars
  <1> USE DEF Request
  <1>1. CASE BuildInput \/ InjectedResolver \/ NetworkDisabled \/ AllQueriesResolved
    BY <1>1 DEF BuildInput, InjectedResolver, NetworkDisabled, AllQueriesResolved
  <1>2. CASE RefuseQuery \/ SearchAnswered \/ VersionsAnswered
    BY <1>2 DEF RefuseQuery, SearchAnswered, VersionsAnswered, QueryStep, Networked
  <1>3. CASE PlanResolved \/ Analyse \/ MetadataResolved
    BY <1>3 DEF PlanResolved, Analyse, MetadataResolved
  <1>4. CASE PlanAgain \/ AskProviders \/ ConsultProvider \/ ProviderResolved
    BY <1>4 DEF PlanAgain, AskProviders, ConsultProvider, ProviderResolved
  <1>5. CASE SkipProvider \/ ProjectAnswered \/ RequirementVersionsAnswered
    BY <1>5 DEF SkipProvider, Consulting, ProjectAnswered, RequirementVersionsAnswered,
               RequirementStep
  <1>6. CASE UNCHANGED pipelineVars
    BY <1>6 DEF pipelineVars
  <1>7. QED
    BY <1>1, <1>2, <1>3, <1>4, <1>5, <1>6 DEF PipelineNext

(* A step of the whole is a step of the pipeline or leaves it alone.          *)
LEMMA PipelineStep ==
  ASSUME [Next]_vars
  PROVE  [PipelineNext]_pipelineVars
  BY DEF Next, vars, Confirm, Amend, Submit, Cancel, Tick, AppendJournal

LEMMA AnalysisInvStep ==
  ASSUME AnalysisInv, [PipelineNext]_pipelineVars
  PROVE  AnalysisInv'
  <1>1. CASE stage' \notin {"planned", "analysed"}
    BY <1>1 DEF AnalysisInv
  <1>2. CASE PlanResolved
    BY <1>2, PlanHasTarget DEF PlanResolved, AnalysisInv, Planning
  <1>3. CASE Analyse
    <2> DEFINE target == [minecraftVersion |-> plan.target.minecraftVersion,
                          loader |-> plan.target.loader, side |-> job.side]
    <2>1. /\ Planning /\ "target" \in DOMAIN plan
          /\ analysis' = analyzeCompatibility(Resolution(results).candidates, target,
                                             job.analyzerOptions)
          /\ plan' = applyCompatibilityToResourcePlan(plan, analysis')
          /\ job' = job /\ results' = results
      BY <1>3 DEF Analyse, AnalysisInv, callVars
    <2>2. "target" \in DOMAIN plan' /\ plan'.target = plan.target
      BY <2>1, PlanKeepsTarget
    <2>3. Candidates' = Resolution(results).candidates /\ Target' = target
      BY <2>1, <2>2 DEF Candidates, Target, Planning
    <2>4. QED
      BY <2>1, <2>2, <2>3 DEF AnalysisInv
  <1>4. CASE MetadataResolved
    <2> DEFINE candidates == [i \in DOMAIN results' |-> results'[i].candidate]
    <2>1. /\ Resolving /\ job' = job
          /\ analysis' = analyzeCompatibility(candidates, job.target, job.analyzerOptions)
      BY <1>4 DEF MetadataResolved
    <2>2. ~Planning' /\ Candidates' = candidates /\ Target' = job.target
      BY <2>1 DEF Candidates, Target, Planning, Resolving
    <2>3. QED
      BY <2>1, <2>2 DEF AnalysisInv
  <1>5. CASE UNCHANGED pipelineVars
    BY <1>5 DEF AnalysisInv, pipelineVars, callVars, Candidates, Target, Planning
  <1>6. QED
    BY <1>1, <1>2, <1>3, <1>4, <1>5, StagesReached

THEOREM AnalysisInvariant == Spec => []AnalysisInv
  <1>1. ReviewInit => AnalysisInv
    BY DEF ReviewInit, Init, AnalysisInv
  <1>2. AnalysisInv /\ [Next]_vars => AnalysisInv'
    BY PipelineStep, AnalysisInvStep
  <1>3. QED
    BY <1>1, <1>2, PTL DEF Spec

(* Compatibility is never concluded from what is missing, whatever candidates *)
(* the service or an injected resolver gives (deriveCompatibilityStatus and   *)
(* what it is derived from).                                                  *)
THEOREM AnalysesAreProven == Spec => []CompatibleIsProven
  <1>1. AnalysisInv => CompatibleIsProven
    BY AnalysisProves DEF AnalysisInv, CompatibleIsProven, Analysed
  <1>2. QED
    BY <1>1, AnalysisInvariant, PTL

--------------------------------------------------------------------------------
(* The network.                                                               *)

(* A metadata call that may ask its service something.                        *)
MayAsk ==
  /\ job.networkPolicy = "metadata-only"
  /\ ToSet(job.allowedProviders) \cap Registered # {}

PlanningNetInv ==
  /\ stage \in {"resolving", "resolved"} => input.networkAllowed = job.options.enableNetwork
  /\ requests > 0 =>
       /\ job.options.enableNetwork /\ job.resolver = None
       /\ stage \in {"planned", "failed", "analysed"} => diagnostics.networkUsed

ResolvingNetInv ==
  /\ stage \in {"consulting", "resolving"} => providers \in Seq(ToSet(job.allowedProviders))
  /\ stage = "resolving" => MayAsk /\ providers # <<>>
  /\ stage = "resolving" /\ todo # <<>> => job.requirements # <<>>
  /\ requests > 0 =>
       /\ MayAsk /\ job.requirements # <<>>
       /\ stage \in {"planned", "failed", "analysed"} => diagnostics.networkUsed

(* What a call knows of the network, up to its end.                           *)
NetworkInv ==
  /\ job \in Jobs /\ requests \in Nat
  /\ Planning => PlanningNetInv
  /\ Resolving => ResolvingNetInv

LEMMA NetworkInvImplies == NetworkInv => NetworkTruthful
  BY JobsAssumption DEF NetworkInv, NetworkTruthful, PlanningNetInv, ResolvingNetInv, MayAsk,
                        Planning, Resolving

LEMMA PlanningNetworkStep ==
  ASSUME NetworkInv, Planning, [PipelineNext]_pipelineVars
  PROVE  NetworkInv'
  <1>1. ~Resolving /\ job' = job /\ PlanningNetInv /\ requests \in Nat /\ job \in Jobs
    BY StagesReached DEF Planning, Resolving, NetworkInv
  <1>2. SUFFICES requests' \in Nat /\ PlanningNetInv'
    BY <1>1 DEF NetworkInv, Planning, Resolving
  <1> USE <1>1 DEF PlanningNetInv
  <1>3. CASE BuildInput
    BY <1>3 DEF BuildInput, buildPlanningPipelineInput
  <1>4. CASE InjectedResolver \/ NetworkDisabled
    BY <1>4 DEF InjectedResolver, NetworkDisabled, Networked
  <1>5. CASE RefuseQuery
    BY <1>5 DEF RefuseQuery, QueryStep, Networked
  <1>6. CASE SearchAnswered \/ VersionsAnswered
    <2>1. /\ stage = "resolving" /\ stage' = stage /\ input' = input
          /\ job.options.enableNetwork /\ job.resolver = None /\ requests' = requests + 1
      BY <1>6 DEF SearchAnswered, VersionsAnswered, QueryStep, Networked, Request, networkResolver
    <2>2. PlanningNetInv'
      BY <2>1, Zenon
    <2>3. requests' \in Nat
      <3> HIDE DEF PlanningNetInv
      <3>1. QED
        BY <2>1
    <2>4. QED
      BY <2>2, <2>3
  <1>7. CASE AllQueriesResolved
    BY <1>7 DEF AllQueriesResolved, Networked, callVars
  <1>8. CASE PlanResolved
    <2>1. /\ stage = "resolved" /\ stage' \in {"planned", "failed"} /\ requests' = requests
          /\ diagnostics'.networkUsed = (input.networkAllowed /\ job.resolver = None)
      BY <1>8 DEF PlanResolved, buildDiagnostics, callVars
    <2>2. QED
      BY <2>1
  <1>9. CASE Analyse
    BY <1>9 DEF Analyse, callVars
  <1>10. CASE PlanAgain
    BY <1>10 DEF PlanAgain
  <1>11. CASE \/ AskProviders \/ SkipProvider \/ ConsultProvider \/ ProjectAnswered
              \/ RequirementVersionsAnswered \/ ProviderResolved \/ MetadataResolved
    BY <1>11 DEF AskProviders, SkipProvider, ConsultProvider, Consulting, ProjectAnswered,
                 RequirementVersionsAnswered, RequirementStep, ProviderResolved, MetadataResolved
  <1>12. CASE UNCHANGED pipelineVars
    BY <1>12 DEF pipelineVars, callVars
  <1>13. QED
    BY <1>3, <1>4, <1>5, <1>6, <1>7, <1>8, <1>9, <1>10, <1>11, <1>12 DEF PipelineNext

LEMMA ResolvingNetworkStep ==
  ASSUME NetworkInv, Resolving, [PipelineNext]_pipelineVars
  PROVE  NetworkInv'
  <1> DEFINE allowed == ToSet(job.allowedProviders)
  <1>1. /\ ~Planning /\ job' = job /\ ResolvingNetInv /\ requests \in Nat /\ job \in Jobs
        /\ job.allowedProviders \in Seq(STRING)
    BY StagesReached, JobsAssumption DEF Planning, Resolving, NetworkInv
  <1>2. MayAsk' = MayAsk
    BY <1>1 DEF MayAsk
  <1>3. SUFFICES requests' \in Nat /\ ResolvingNetInv'
    BY <1>1 DEF NetworkInv, Planning, Resolving
  <1>4. /\ requests > 0 => MayAsk /\ job.requirements # <<>>
        /\ stage = "resolving" => MayAsk /\ providers # <<>>
        /\ stage = "resolving" /\ todo # <<>> => job.requirements # <<>>
        /\ stage \in {"consulting", "resolving"} => providers \in Seq(allowed)
    BY <1>1 DEF ResolvingNetInv
  <1>5. ASSUME NEW S, NEW s \in Seq(S), s # <<>>
        PROVE  Head(s) \in S /\ Tail(s) \in Seq(S)
    BY <1>5, HeadTailProperties
  <1>6. CASE AskProviders
    <2>1. providers' \in Seq(allowed) /\ stage' = "consulting" /\ requests' = requests
      <3>1. job.allowedProviders \in Seq(allowed)
        BY <1>1 DEF ToSet
      <3>2. QED
        BY <1>6, <3>1 DEF AskProviders
    <2>2. QED
      BY <1>1, <1>2, <1>4, <2>1 DEF ResolvingNetInv
  <1>7. CASE SkipProvider
    <2>1. /\ stage = "consulting" /\ stage' = stage /\ requests' = requests
          /\ providers # <<>> /\ providers' = Tail(providers)
      BY <1>7 DEF SkipProvider, Consulting
    <2>2. QED
      BY <1>1, <1>2, <1>4, <1>5, <2>1 DEF ResolvingNetInv
  <1>8. CASE ConsultProvider
    <2>1. /\ stage = "consulting" /\ stage' = "resolving" /\ requests' = requests
          /\ providers # <<>> /\ providers' = providers /\ todo' = job.requirements
          /\ Head(providers) \in Registered /\ job.networkPolicy = "metadata-only"
      BY <1>8 DEF ConsultProvider, Consulting
    <2>2. MayAsk
      BY <1>4, <1>5, <2>1 DEF MayAsk
    <2>3. QED
      BY <1>1, <1>2, <1>4, <2>1, <2>2 DEF ResolvingNetInv
  <1>9. CASE ProjectAnswered \/ RequirementVersionsAnswered
    <2>1. /\ stage = "resolving" /\ stage' = stage /\ providers' = providers
          /\ todo # <<>> /\ requests' = requests + 1
      BY <1>9 DEF ProjectAnswered, RequirementVersionsAnswered, RequirementStep, Request
    <2>2. QED
      BY <1>1, <1>2, <1>4, <2>1 DEF ResolvingNetInv
  <1>10. CASE ProviderResolved
    <2>1. /\ stage = "resolving" /\ stage' = "consulting" /\ requests' = requests
          /\ providers' = Tail(providers)
      BY <1>10 DEF ProviderResolved
    <2>2. QED
      BY <1>1, <1>2, <1>4, <1>5, <2>1 DEF ResolvingNetInv
  <1>11. CASE MetadataResolved
    <2>1. /\ stage' = "analysed" /\ requests' = requests
          /\ diagnostics'.networkUsed = (/\ allowed \cap Registered # {}
                                         /\ job.networkPolicy = "metadata-only"
                                         /\ job.requirements # <<>>)
      BY <1>11 DEF MetadataResolved
    <2>2. QED
      BY <1>1, <1>2, <1>4, <2>1 DEF ResolvingNetInv, MayAsk
  <1>12. CASE \/ BuildInput \/ InjectedResolver \/ NetworkDisabled \/ RefuseQuery
              \/ SearchAnswered \/ VersionsAnswered \/ AllQueriesResolved \/ PlanResolved
              \/ Analyse \/ PlanAgain
    BY <1>1, <1>12 DEF BuildInput, InjectedResolver, NetworkDisabled, RefuseQuery, SearchAnswered,
                       VersionsAnswered, AllQueriesResolved, PlanResolved, Analyse, PlanAgain,
                       QueryStep, Networked
  <1>13. CASE UNCHANGED pipelineVars
    BY <1>1, <1>13 DEF pipelineVars, callVars, ResolvingNetInv, MayAsk
  <1>14. QED
    BY <1>6, <1>7, <1>8, <1>9, <1>10, <1>11, <1>12, <1>13 DEF PipelineNext

THEOREM NetworkInvariant == Spec => []NetworkInv
  <1>1. ReviewInit => NetworkInv
    BY DEF ReviewInit, Init, NetworkInv, PlanningNetInv, ResolvingNetInv
  <1>2. NetworkInv /\ [Next]_vars => NetworkInv'
    <2>1. NetworkInv => Planning \/ Resolving
      BY JobsAssumption DEF NetworkInv, Planning, Resolving
    <2>2. QED
      BY <2>1, PipelineStep, PlanningNetworkStep, ResolvingNetworkStep
  <1>3. QED
    BY <1>1, <1>2, PTL DEF Spec

(* The service is asked only by a call that allows it, and the diagnostics of *)
(* every call that asked admit it.                                            *)
THEOREM NetworkIsAdmitted == Spec => []NetworkTruthful
  BY NetworkInvariant, NetworkInvImplies, PTL

--------------------------------------------------------------------------------
(* The review.                                                                *)

(* What a request is made of, whatever became of the plan since.              *)
WellMade(req) ==
  /\ req.reviewed.compatibility.status \in Known \cup {"unknown", "incompatible"}
  /\ \A resource \in ToSet(req.reviewed.plan.resources) :
       \E op \in req.manifest.operations : op.hashKnown = resource.hashKnown

(* The confirmation is the one of what was shown.                             *)
Confirmed ==
  /\ DOMAIN confirmation = {"reviewed", "manifest", "workspace", "capabilities",
                            "issuedAt", "expiresAt", "consumed"}
  /\ confirmation.reviewed.plan = shown.plan
  /\ confirmation.capabilities = shown.proposal.capabilities
  /\ confirmation.workspace = shown.proposal.workspace
  /\ confirmation.expiresAt \in Nat

(* A confirmation that let a request through is consumed: no other passes.    *)
ReviewInv ==
  /\ clock \in Nat
  /\ request # Null => WellMade(request) /\ Confirmed
  /\ confirmation # Null => Confirmed
  /\ accepted = <<>> \/ /\ confirmation.consumed
                        /\ accepted = <<accepted[1]>> /\ Authorised(accepted[1])

LEMMA NoProblem ==
  ASSUME NEW holds \in BOOLEAN, NEW code, Problem(holds, code) = {}
  PROVE  ~holds
  BY DEF Problem

LEMMA StructureChecked ==
  ASSUME NEW req, WellMade(req), validateExecutionRequestStructure(req) = {}
  PROVE  /\ \A scope \in ToSet(req.capabilities) \cup {"local-executor"} :
              \E e \in ToSet(req.evidence) :
                e.scope = scope /\ e.gate = requiredGateForAuthorizationScope(scope)
         /\ req.reviewed.plan.errors = {} /\ req.reviewed.plan.status # "rejected"
         /\ req.reviewed.compatibility.status \in Known
         /\ \A resource \in ToSet(req.reviewed.plan.resources) : resource.hashKnown
  <1>1. /\ validateReviewedPlan(req.reviewed) = {}
        /\ validateManifest(req) = {}
        /\ Problem(\E e \in ToSet(req.evidence) :
                     e.gate # requiredGateForAuthorizationScope(e.scope),
                   "CAPABILITY_GATE_MISMATCH") = {}
        /\ Problem(\E scope \in ExpectedScopes(req) : ~EvidenceFor(req, scope),
                   "CAPABILITY_EVIDENCE_MISSING") = {}
    BY DEF validateExecutionRequestStructure
  <1>2. /\ req.reviewed.plan.errors = {} /\ req.reviewed.plan.status # "rejected"
        /\ req.reviewed.compatibility.status \in Known
    <2>1. req.reviewed.plan.status = "needs-user-confirmation"
      <3>1. Problem(req.reviewed.plan.status # "needs-user-confirmation",
                    "PLAN_NOT_REVIEWABLE") = {}
        BY <1>1 DEF validateReviewedPlan
      <3>2. QED
        BY <3>1, NoProblem
    <2>2. req.reviewed.plan.errors = {}
      <3>1. Problem(req.reviewed.plan.errors # {} \/ req.reviewed.plan.rejected # {},
                    "PLAN_HAS_ERRORS") = {}
        BY <1>1 DEF validateReviewedPlan
      <3>2. QED
        BY <3>1, NoProblem
    <2>3. req.reviewed.compatibility.status \notin {"incompatible", "unknown"}
      <3>1. /\ Problem(\/ req.reviewed.compatibility.summary.blockers # {}
                       \/ req.reviewed.compatibility.status = "incompatible",
                       "COMPATIBILITY_BLOCKED") = {}
            /\ Problem(\/ req.reviewed.compatibility.summary.unknown # {}
                       \/ req.reviewed.compatibility.status = "unknown",
                       "COMPATIBILITY_UNKNOWN") = {}
        BY <1>1 DEF validateReviewedPlan
      <3>2. QED
        BY <3>1, NoProblem
    <2>4. QED
      BY <2>1, <2>2, <2>3 DEF WellMade
  <1>3. ASSUME NEW scope \in ToSet(req.capabilities) \cup {"local-executor"}
        PROVE  \E e \in ToSet(req.evidence) :
                 e.scope = scope /\ e.gate = requiredGateForAuthorizationScope(scope)
    <2>1. EvidenceFor(req, scope)
      BY <1>1, NoProblem DEF ExpectedScopes
    <2>2. PICK i \in DOMAIN req.evidence : req.evidence[i].scope = scope
      BY <2>1 DEF EvidenceFor
    <2>3. req.evidence[i] \in ToSet(req.evidence)
      BY DEF ToSet
    <2>4. \A e \in ToSet(req.evidence) : e.gate = requiredGateForAuthorizationScope(e.scope)
      BY <1>1, NoProblem
    <2>5. QED
      BY <2>2, <2>3, <2>4
  <1>4. \A resource \in ToSet(req.reviewed.plan.resources) : resource.hashKnown
    <2>1. Problem(\E op \in req.manifest.operations :
                    ~op.hashKnown \/ (op.rollbackRequired /\ op.strategy = "none"),
                  "MANIFEST_OPERATION_INVALID") = {}
      BY <1>1 DEF validateManifest
    <2>2. \A op \in req.manifest.operations : op.hashKnown
      BY <2>1, NoProblem
    <2>3. QED
      BY <2>2 DEF WellMade
  <1>5. QED
    BY <1>2, <1>3, <1>4

LEMMA ConfirmationChecked ==
  ASSUME NEW req, NEW conf, NEW now \in Nat, conf.expiresAt \in Nat,
         validateExecutionConfirmation(req, conf, now) = {}
  PROVE  /\ ~conf.consumed /\ now <= conf.expiresAt
         /\ conf.reviewed = req.reviewed /\ conf.workspace = req.workspace
         /\ conf.capabilities = req.capabilities
  <1>1. /\ Problem(conf.consumed, "CONFIRMATION_CONSUMED") = {}
        /\ Problem(conf.issuedAt >= conf.expiresAt \/ now < conf.issuedAt \/ now > conf.expiresAt,
                   "CONFIRMATION_EXPIRED") = {}
        /\ Problem(\/ conf.reviewed # req.reviewed
                   \/ conf.manifest # req.manifest \/ conf.workspace # req.workspace
                   \/ conf.capabilities # req.capabilities,
                   "CONFIRMATION_MISMATCH") = {}
    BY DEF validateExecutionConfirmation
  <1>2. ~conf.consumed
    BY <1>1 DEF Problem
  <1>3. ~(now > conf.expiresAt)
    BY <1>1, NoProblem
  <1>4. /\ conf.reviewed = req.reviewed /\ conf.workspace = req.workspace
        /\ conf.capabilities = req.capabilities
    BY <1>1, NoProblem
  <1>5. QED
    BY <1>2, <1>3, <1>4

LEMMA RequestsWellMade ==
  ASSUME AnalysisInv, Reviewing, NEW proposal
  PROVE  /\ WellMade(RequestFor(proposal))
         /\ RequestFor(proposal).reviewed.plan = plan
         /\ RequestFor(proposal).capabilities = proposal.capabilities
         /\ RequestFor(proposal).workspace = proposal.workspace
  <1> DEFINE req == RequestFor(proposal)
  <1>1. /\ req.reviewed.plan = plan /\ req.reviewed.compatibility.status = analysis.status
        /\ req.capabilities = proposal.capabilities /\ req.workspace = proposal.workspace
        /\ req.manifest.operations
             = {[projectId |-> r.projectId, hashKnown |-> r.hashKnown,
                 rollbackRequired |-> TRUE, strategy |-> "remove-owned"]
                  : r \in ToSet(plan.resources)}
    BY DEF RequestFor, Reviewed, Manifest
  <1>2. analysis.status \in Known \cup {"unknown", "incompatible"}
    BY AnalysisProves DEF AnalysisInv, Reviewing
  <1>3. WellMade(req)
    <2> HIDE DEF req
    <2>1. \A r \in ToSet(plan.resources) :
            \E op \in req.manifest.operations : op.hashKnown = r.hashKnown
      <3> DEFINE Entry(r) == [projectId |-> r.projectId, hashKnown |-> r.hashKnown,
                                  rollbackRequired |-> TRUE, strategy |-> "remove-owned"]
      <3>1. \A r \in ToSet(plan.resources) : Entry(r) \in req.manifest.operations
        BY <1>1
      <3>2. \A r : Entry(r).hashKnown = r.hashKnown
        OBVIOUS
      <3> HIDE DEF Entry
      <3>3. QED
        BY <3>1, <3>2
    <2>2. QED
      BY <1>1, <1>2, <2>1 DEF WellMade
  <1>4. QED
    BY <1>1, <1>3

LEMMA ReviewInvStep ==
  ASSUME ReviewInv, AnalysisInv, [Next]_vars
  PROVE  ReviewInv'
  <1>1. CASE Confirm
    <2>1. PICK proposal \in job.proposals :
            /\ request' = RequestFor(proposal)
            /\ confirmation' = Confirmation(request')
            /\ shown' = [plan |-> plan, proposal |-> proposal]
      BY <1>1 DEF Confirm
    <2>2. Reviewing /\ accepted = <<>> /\ accepted' = accepted /\ clock' = clock /\ clock \in Nat
      BY <1>1 DEF Confirm, ReviewInv
    <2>3. WellMade(request')
      BY <2>1, <2>2, RequestsWellMade
    <2>4. Confirmed'
      BY <2>1, <2>2, RequestsWellMade, TimesAssumption DEF Confirmed, Confirmation
    <2>5. QED
      BY <2>2, <2>3, <2>4 DEF ReviewInv, WellMade
  <1>2. CASE Amend
    <2>1. /\ Reviewing /\ request # Null
          /\ UNCHANGED <<clock, confirmation, shown, accepted>>
      BY <1>2 DEF Amend
    <2>2. WellMade(request')
      BY <1>2, RequestsWellMade DEF Amend
    <2>3. Confirmed'
      BY <2>1 DEF ReviewInv, Confirmed
    <2>4. QED
      BY <2>1, <2>2, <2>3 DEF ReviewInv, WellMade, Authorised
  <1>3. CASE Submit
    <2> DEFINE entry == [request |-> request, at |-> clock, shown |-> shown,
                         expiresAt |-> confirmation.expiresAt]
    <2>1. /\ request # Null /\ accepted' = Append(accepted, entry)
          /\ confirmation' = [confirmation EXCEPT !.consumed = TRUE]
          /\ UNCHANGED <<clock, request, shown>>
          /\ validateExecutionRequestStructure(request) = {}
          /\ validateExecutionConfirmation(request, confirmation, clock) = {}
      BY <1>3 DEF Submit
    <2>2. WellMade(request) /\ Confirmed /\ clock \in Nat
      BY <2>1 DEF ReviewInv
    <2>3. /\ ~confirmation.consumed /\ clock <= confirmation.expiresAt
          /\ confirmation.reviewed = request.reviewed
          /\ confirmation.workspace = request.workspace
          /\ confirmation.capabilities = request.capabilities
      BY <2>1, <2>2, ConfirmationChecked DEF Confirmed
    <2>4. accepted' = <<entry>>
      <3>1. accepted = <<>>
        BY <2>3 DEF ReviewInv
      <3> HIDE DEF entry
      <3>2. QED
        BY <2>1, <3>1
    <2>5. Authorised(entry)
      BY <2>1, <2>2, <2>3, StructureChecked DEF Authorised, Confirmed
    <2>6. Confirmed' /\ confirmation'.consumed
      BY <2>1, <2>2 DEF Confirmed
    <2> HIDE DEF entry
    <2>7. accepted' = <<accepted'[1]>> /\ Authorised(accepted'[1])
      BY <2>4, <2>5
    <2>8. QED
      BY <2>1, <2>2, <2>6, <2>7 DEF ReviewInv, WellMade, Authorised
  <1>4. CASE Cancel
    <2>1. /\ confirmation # Null /\ confirmation' = [confirmation EXCEPT !.consumed = TRUE]
          /\ UNCHANGED <<clock, request, shown, accepted>>
      BY <1>4 DEF Cancel
    <2>2. Confirmed' /\ confirmation'.consumed
      BY <2>1 DEF ReviewInv, Confirmed
    <2>3. QED
      BY <2>1, <2>2 DEF ReviewInv, WellMade, Authorised
  <1>5. CASE Tick
    <2>1. clock' = clock + 1 /\ UNCHANGED <<request, confirmation, shown, accepted>>
      BY <1>5 DEF Tick
    <2>2. clock' \in Nat
      BY <2>1 DEF ReviewInv
    <2>3. QED
      BY <2>1, <2>2 DEF ReviewInv, WellMade, Confirmed, Authorised
  <1>6. CASE UNCHANGED <<clock, request, confirmation, shown, accepted>>
    BY <1>6 DEF ReviewInv, WellMade, Confirmed, Authorised
  <1>7. QED
    BY <1>1, <1>2, <1>3, <1>4, <1>5, <1>6 DEF Next, vars, reviewVars, AppendJournal

THEOREM ReviewInvariant == Spec => []ReviewInv
  <1>1. ReviewInit => ReviewInv
    BY DEF ReviewInit, ReviewInv
  <1>2. ReviewInv /\ AnalysisInv /\ [Next]_vars => ReviewInv'
    BY ReviewInvStep
  <1>3. QED
    BY <1>1, <1>2, AnalysisInvariant, PTL DEF Spec

(* Whatever was reviewed, amended, retried or cancelled, a request passes at  *)
(* most once and only as the user confirmed it, and in time                   *)
(* (validateExecutionRequestStructure and validateExecutionConfirmation).     *)
THEOREM ExecutionIsAuthorised == Spec => []ExecutionAuthorised
  <1>1. ReviewInv => ExecutionAuthorised
    <2> SUFFICES ASSUME ReviewInv PROVE ExecutionAuthorised
      OBVIOUS
    <2>1. CASE accepted = <<>>
      BY <2>1 DEF ExecutionAuthorised, ToSet
    <2>2. CASE accepted = <<accepted[1]>> /\ Authorised(accepted[1])
      <3>1. PICK a : accepted = <<a>> /\ Authorised(a)
        BY <2>2
      <3>2. Len(accepted) = 1 /\ ToSet(accepted) = {a}
        BY <3>1 DEF ToSet
      <3>3. QED
        BY <3>1, <3>2 DEF ExecutionAuthorised
    <2>3. QED
      BY <2>1, <2>2 DEF ReviewInv
  <1>2. QED
    BY <1>1, ReviewInvariant, PTL

--------------------------------------------------------------------------------
(* Chosen members of a sequence, in order.                                    *)

(* The first n numbers are n.                                                 *)
LEMMA FirstNumbers ==
  ASSUME NEW n \in Nat
  PROVE  IsFiniteSet(1..n) /\ Cardinality(1..n) = n
  <1>1. /\ IsFiniteSet(1..n)
        /\ Cardinality(1..n) = IF 1 > n THEN 0 ELSE n - 1 + 1
    BY FS_Interval
  <1>2. CASE 1 > n
    BY <1>1, <1>2
  <1>3. CASE ~(1 > n)
    <2>1. n - 1 + 1 = n
      OBVIOUS
    <2>2. QED
      BY <1>1, <1>3, <2>1
  <1>4. QED
    BY <1>2, <1>3

(* The elements of S that come before x.                                      *)
Below(S, R, x) == {y \in S : <<y, x>> \in R}

(* A strict total order on S, and what it does to a finite set: each element  *)
(* has a rank of its own and each rank an element.                            *)
StrictOrder(S, R) ==
  /\ \A x \in S : <<x, x>> \notin R
  /\ \A x, y \in S : x # y => <<x, y>> \in R \/ <<y, x>> \in R
  /\ \A x, y, z \in S : <<x, y>> \in R /\ <<y, z>> \in R => <<x, z>> \in R

Ranked(S, R) ==
  /\ \A k \in 1..Cardinality(S) : \E x \in S : Cardinality(Below(S, R, x)) = k - 1
  /\ \A x \in S : Cardinality(Below(S, R, x)) \in 0..(Cardinality(S) - 1)
  /\ \A x, z \in S : Cardinality(Below(S, R, x)) = Cardinality(Below(S, R, z)) => x = z

LEMMA RankReached ==
  ASSUME NEW S, IsFiniteSet(S), NEW R, StrictOrder(S, R)
  PROVE  Ranked(S, R)
  <1> DEFINE below(x) == Below(S, R, x)
             rank == [x \in S |-> Cardinality(below(x)) + 1]
             n == Cardinality(S)
  <1>1. n \in Nat
    BY FS_CardinalityType
  <1>2. ASSUME NEW x \in S
        PROVE  IsFiniteSet(below(x)) /\ Cardinality(below(x)) \in 0..(n - 1)
    <2>1. below(x) \in SUBSET (S \ {x})
      BY DEF Below, StrictOrder
    <2>2. IsFiniteSet(S \ {x}) /\ Cardinality(S \ {x}) = n - 1
      BY FS_RemoveElement
    <2> HIDE DEF below, n
    <2>3. IsFiniteSet(below(x)) /\ Cardinality(below(x)) <= n - 1
      BY <2>1, <2>2, FS_Subset
    <2>4. QED
      BY <1>1, <2>3, FS_CardinalityType
  <1>3. ASSUME NEW x \in S, NEW z \in S, <<x, z>> \in R
        PROVE  Cardinality(below(x)) < Cardinality(below(z))
    <2>1. below(x) \cup {x} \in SUBSET below(z) /\ x \notin below(x)
      BY <1>3 DEF Below, StrictOrder
    <2> HIDE DEF below
    <2>2. Cardinality(below(x) \cup {x}) = Cardinality(below(x)) + 1
      BY <1>2, <2>1, FS_AddElement
    <2>3. Cardinality(below(x) \cup {x}) <= Cardinality(below(z))
      BY <1>2, <2>1, FS_Subset
    <2>4. QED
      BY <1>1, <1>2, <2>2, <2>3
  <1>4. \A x, z \in S : Cardinality(below(x)) = Cardinality(below(z)) => x = z
    <2>1. SUFFICES ASSUME NEW x \in S, NEW z \in S, x # z
                   PROVE  Cardinality(below(x)) # Cardinality(below(z))
      OBVIOUS
    <2>2. <<x, z>> \in R \/ <<z, x>> \in R
      BY <2>1 DEF StrictOrder
    <2> HIDE DEF below
    <2>3. Cardinality(below(x)) < Cardinality(below(z)) \/ Cardinality(below(z)) < Cardinality(below(x))
      BY <1>3, <2>2
    <2>4. Cardinality(below(x)) \in Int /\ Cardinality(below(z)) \in Int
      BY <1>2
    <2>5. QED
      BY <2>3, <2>4
  <1>5. rank \in Injection(S, 1..n)
    <2> HIDE DEF below, n
    <2>1. rank \in [S -> 1..n]
      BY <1>1, <1>2
    <2>2. \A x, z \in S : rank[x] = rank[z] => x = z
      BY <1>1, <1>2, <1>4
    <2>3. QED
      BY <2>1, <2>2 DEF Injection, IsInjective
  <1>6. rank \in Surjection(S, 1..n)
    <2>1. IsFiniteSet(1..n) /\ Cardinality(1..n) = n
      BY <1>1, FirstNumbers
    <2> HIDE DEF rank, n
    <2>2. Cardinality(S) = Cardinality(1..n)
      BY <2>1 DEF n
    <2>3. QED
      BY <1>5, <2>1, <2>2, FS_Injection
  <1>7. ASSUME NEW k \in 1..n
        PROVE  \E x \in S : Cardinality(below(x)) = k - 1
    <2>1. PICK x \in S : rank[x] = k
      BY <1>6 DEF Surjection
    <2> HIDE DEF below
    <2>2. QED
      BY <1>1, <1>2, <2>1
  <1>8. QED
    BY <1>2, <1>4, <1>7 DEF Ranked

(* `Chosen' picks exactly the members it is told to.                          *)
LEMMA ChosenMembers ==
  ASSUME NEW seq, NEW S \in SUBSET Nat, IsFiniteSet(S)
  PROVE  /\ Len(Chosen(seq, S)) = Cardinality(S)
         /\ DOMAIN Chosen(seq, S) = 1..Cardinality(S)
         /\ \A k \in DOMAIN Chosen(seq, S) : \E i \in S : Chosen(seq, S)[k] = seq[i]
  <1> DEFINE R == {p \in S \X S : p[1] < p[2]}
             order == [k \in 1..Cardinality(S) |->
                         CHOOSE x \in S : Cardinality({y \in S : y < x}) = k - 1]
  <1>1. \A k \in 1..Cardinality(S) : \E x \in S : Cardinality(Below(S, R, x)) = k - 1
    <2>1. StrictOrder(S, R)
      BY DEF StrictOrder
    <2> HIDE DEF R, order
    <2>2. Ranked(S, R)
      BY <2>1, RankReached
    <2>3. QED
      BY <2>2 DEF Ranked
  <1>2. \A x \in S : Below(S, R, x) = {y \in S : y < x}
    BY DEF Below
  <1>3. \A k \in 1..Cardinality(S) : order[k] \in S
    BY <1>1, <1>2
  <1>4. Chosen(seq, S) = [k \in 1..Cardinality(S) |-> seq[order[k]]]
    BY Zenon DEF Chosen, Ordered
  <1>5. Cardinality(S) \in Nat
    BY FS_CardinalityType
  <1> HIDE DEF order
  <1>6. /\ DOMAIN Chosen(seq, S) = 1..Cardinality(S)
        /\ \A k \in 1..Cardinality(S) : Chosen(seq, S)[k] = seq[order[k]]
    BY <1>4
  <1>7. Len(Chosen(seq, S)) = Cardinality(S)
    BY <1>5, <1>6
  <1>8. QED
    BY <1>3, <1>6, <1>7

(* The first index is one of them.                                            *)
LEMMA SmallestIndex ==
  ASSUME NEW S \in SUBSET Nat, S # {}
  PROVE  Min(S) \in S
  <1> DEFINE R == OpToRel(<, Nat)
  <1>1. IsWellFoundedOn(R, Nat)
    BY NatLessThanWellFounded
  <1>2. ASSUME NEW x \in Nat, NEW y \in Nat, <<y, x>> \notin R
        PROVE  x <= y
    BY <1>2 DEF OpToRel
  <1> HIDE DEF R
  <1>3. PICK x \in S : \A y \in S : <<y, x>> \notin R
    BY <1>1, WFMin
  <1>4. ASSUME NEW y \in S
        PROVE  x <= y
    <2>1. <<y, x>> \notin R
      BY <1>3
    <2>2. QED
      BY <1>2, <2>1
  <1>5. QED
    BY <1>4 DEF Min

(* The version selected is one of those offered: an alpha only when it was    *)
(* asked for, and an unstable version with a warning.                         *)
LEMMA BestVersion ==
  ASSUME NEW versions, NEW minecraftVersion, NEW loader, NEW preference,
         selectBestVersion(versions, minecraftVersion, loader, preference).error = None
  PROVE  LET best == selectBestVersion(versions, minecraftVersion, loader, preference).value
         IN /\ \E i \in 1..Len(versions) : best.version = versions[i]
            /\ best.version.versionType # "release" =>
                 best.version.versionType \in best.warnings
            /\ best.version.versionType = "alpha" => preference = "experimental"
  <1> DEFINE Of(type) == {i \in 1..Len(versions) :
                            /\ minecraftVersion \in versions[i].gameVersions
                            /\ loader \in versions[i].loaders
                            /\ versions[i].versionType = type}
             First(type) == IF Of(type) # {} THEN Min(Of(type)) ELSE 0
             Selected(type, warnings) == Ok([version |-> versions[First(type)], warnings |-> warnings])
             best == selectBestVersion(versions, minecraftVersion, loader, preference)
             failure == IF \E v \in ToSet(versions) :
                             minecraftVersion \in v.gameVersions /\ loader \in v.loaders
                        THEN "only alpha versions" ELSE "no compatible version"
  <1>1. ASSUME NEW type, First(type) > 0
        PROVE  First(type) \in 1..Len(versions) /\ versions[First(type)].versionType = type
    <2>1. Of(type) # {}
      BY <1>1
    <2>2. Of(type) \in SUBSET Nat
      OBVIOUS
    <2> HIDE DEF Of
    <2>3. First(type) \in Of(type)
      BY <2>1, <2>2, SmallestIndex
    <2>4. QED
      BY <2>3 DEF Of
  <1>2. \/ best.error # None
        \/ First("release") > 0 /\ best = Selected("release", {})
        \/ First("beta") > 0 /\ best = Selected("beta", {"beta"})
        \/ /\ First("alpha") > 0 /\ preference = "experimental"
           /\ best = Selected("alpha", {"alpha"})
    <2>1. best = CASE First("release") > 0 -> Selected("release", {})
                   [] First("release") = 0 /\ First("beta") > 0 -> Selected("beta", {"beta"})
                   [] /\ First("release") = 0 /\ First("beta") = 0 /\ First("alpha") > 0
                      /\ preference = "experimental" -> Selected("alpha", {"alpha"})
                   [] OTHER -> Failure(failure)
      BY Zenon DEF selectBestVersion, SelectInSeq
    <2>2. Failure(failure).error # None
      BY DEF Failure, None
    <2>3. ~(First("release") > 0 /\ First("release") = 0)
      OBVIOUS
    <2> HIDE DEF First, Selected, best, failure
    <2>4. QED
      BY <2>1, <2>2, <2>3
  <1> HIDE DEF First
  <1>3. ASSUME NEW type, NEW warnings
        PROVE  /\ Selected(type, warnings).value.version = versions[First(type)]
               /\ Selected(type, warnings).value.warnings = warnings
    BY DEF Ok
  <1> HIDE DEF Selected, best
  <1>4. CASE First("release") > 0 /\ best = Selected("release", {})
    BY <1>1, <1>3, <1>4 DEF best
  <1>5. CASE First("beta") > 0 /\ best = Selected("beta", {"beta"})
    BY <1>1, <1>3, <1>5 DEF best
  <1>6. CASE First("alpha") > 0 /\ preference = "experimental" /\ best = Selected("alpha", {"alpha"})
    BY <1>1, <1>3, <1>6 DEF best
  <1>7. QED
    BY <1>2, <1>4, <1>5, <1>6 DEF best

--------------------------------------------------------------------------------
(* What a result owns up to: its candidate is unstable only with a warning    *)
(* that says so, and an alpha only when experimental versions are preferred.  *)
OwnsUp(candidate, preference) ==
  /\ candidate.versionType # "release" => candidate.versionType \in candidate.warnings
  /\ candidate.versionType = "alpha" => preference = "experimental"

Owned(result, query, preference) ==
  /\ result.query = query
  /\ result.candidate # Null => OwnsUp(result.candidate, preference)

LEMMA FailedOwned ==
  ASSUME NEW query, NEW warnings, NEW errors, NEW preference
  PROVE  Owned(Result(query, Null, warnings, errors), query, preference)
  BY DEF Owned, Result

LEMMA ResolvedOwned ==
  ASSUME NEW query, NEW project, NEW warnings, NEW answer, NEW preference
  PROVE  Owned(ResolvedResult(query, project, warnings, answer, preference), query, preference)
  <1> DEFINE result == ResolvedResult(query, project, warnings, answer, preference)
             versions == getProjectVersions(answer)
             best == selectBestVersion(versions.value, query.gameVersion, query.loader, preference)
             selected == IF versions.error # None THEN versions
                         ELSE selectResolverVersion(versions.value, query.gameVersion,
                                                    query.loader, preference)
             candidate == normalizeModrinthVersionToCandidate(selected.value, project)
  <1>1. CASE selected.error # None
    <2>1. result = FailedResult(query, warnings, selected.error)
      BY <1>1, Zenon DEF ResolvedResult
    <2>2. QED
      BY <2>1, FailedOwned DEF FailedResult
  <1>2. CASE selected.error = None
    <2>1. result.query = query /\ result.candidate = candidate
      <3>1. result = Result(query, candidate,
                            UNION {QueryWarnings(query), warnings,
                                   {Message(warningCodeFor(w), query.canonicalName)
                                      : w \in candidate.warnings}}, {})
        BY <1>2, Zenon DEF ResolvedResult
      <3> HIDE DEF candidate, result
      <3>2. QED
        BY <3>1 DEF Result
    <2>2. selected = best
      <3>1. versions.error = None
        BY <1>2
      <3>2. \/ selected.error # None
            \/ selected = best
        <4>1. \A error : Failure(error).error = error
          BY DEF Failure
        <4>2. selected = selectResolverVersion(versions.value, query.gameVersion, query.loader,
                                               preference)
          BY <3>1
        <4> HIDE DEF selected, versions, best
        <4>3. \/ selected = Failure("MINECRAFT_VERSION_MISMATCH")
              \/ selected = Failure("LOADER_MISMATCH")
              \/ selected = best
          BY <4>2, Zenon DEF selectResolverVersion, best
        <4>4. QED
          BY <4>1, <4>3 DEF None
      <3>3. QED
        BY <1>2, <3>2
    <2>3. /\ candidate.versionType = best.value.version.versionType
          /\ candidate.warnings = best.value.warnings
      BY <2>2 DEF normalizeModrinthVersionToCandidate
    <2>4. best.error = None
      BY <1>2, <2>2
    <2> HIDE DEF result, candidate, best
    <2>5. OwnsUp(candidate, preference)
      BY <2>3, <2>4, BestVersion DEF OwnsUp, best
    <2>6. QED
      BY <2>1, <2>5 DEF Owned, result
  <1>3. QED
    BY <1>1, <1>2

--------------------------------------------------------------------------------
(* The sequences of the pipeline, whatever they hold.                         *)

IsSequence(s) == s \in Seq(ToSet(s))

LEMMA SequenceDomain ==
  ASSUME NEW s, IsSequence(s)
  PROVE  Len(s) \in Nat /\ DOMAIN s = 1..Len(s)
  BY DEF IsSequence

LEMMA IsSequenceOf ==
  ASSUME NEW S, NEW s \in Seq(S)
  PROVE  IsSequence(s)
  BY DEF IsSequence, ToSet

LEMMA FunctionSequence ==
  ASSUME NEW s, NEW n \in Nat, s = [i \in 1..n |-> s[i]]
  PROVE  IsSequence(s) /\ Len(s) = n
  <1>1. s \in [1..n -> ToSet(s)]
    BY DEF ToSet
  <1>2. s \in Seq(ToSet(s))
    BY <1>1
  <1>3. QED
    BY <1>1, <1>2 DEF IsSequence

LEMMA AppendSequence ==
  ASSUME NEW s, IsSequence(s), NEW x
  PROVE  /\ IsSequence(Append(s, x)) /\ Len(Append(s, x)) = Len(s) + 1
         /\ \A i \in 1..Len(s) : Append(s, x)[i] = s[i]
         /\ Append(s, x)[Len(s) + 1] = x
  <1> DEFINE T == ToSet(s) \cup {x}
  <1>1. s \in Seq(T)
    BY DEF IsSequence
  <1>2. x \in T
    OBVIOUS
  <1> HIDE DEF T
  <1>3. Append(s, x) \in Seq(T)
    BY <1>1, <1>2
  <1>4. IsSequence(Append(s, x))
    BY <1>3, IsSequenceOf, Zenon
  <1>5. QED
    BY <1>1, <1>2, <1>4

LEMMA TailSequence ==
  ASSUME NEW s, IsSequence(s), s # <<>>
  PROVE  /\ IsSequence(Tail(s)) /\ Len(Tail(s)) = Len(s) - 1 /\ Len(s) > 0
         /\ \A i \in 1..Len(Tail(s)) : Tail(s)[i] = s[i + 1]
         /\ Head(s) = s[1]
  <1> DEFINE T == ToSet(s)
  <1>1. s \in Seq(T)
    BY DEF IsSequence
  <1> HIDE DEF T
  <1>2. Tail(s) \in Seq(T)
    BY <1>1
  <1>3. IsSequence(Tail(s))
    BY <1>2, IsSequenceOf, Zenon
  <1>4. QED
    BY <1>1, <1>3

LEMMA ConcatSequence ==
  ASSUME NEW s, NEW t, IsSequence(s), IsSequence(t)
  PROVE  IsSequence(s \o t)
  <1> DEFINE T == ToSet(s) \cup ToSet(t)
  <1>1. s \in Seq(T) /\ t \in Seq(T)
    BY DEF IsSequence
  <1> HIDE DEF T
  <1>2. s \o t \in Seq(T)
    BY <1>1
  <1>3. QED
    BY <1>2, IsSequenceOf, Zenon

LEMMA ChosenSequence ==
  ASSUME NEW seq, IsSequence(seq), NEW S \in SUBSET (DOMAIN seq)
  PROVE  /\ IsFiniteSet(S) /\ IsSequence(Chosen(seq, S)) /\ Len(Chosen(seq, S)) = Cardinality(S)
         /\ \A k \in DOMAIN Chosen(seq, S) : \E i \in S : Chosen(seq, S)[k] = seq[i]
  <1>1. Len(seq) \in Nat /\ DOMAIN seq = 1..Len(seq)
    BY SequenceDomain
  <1>2. S \in SUBSET Nat
    BY <1>1
  <1>3. IsFiniteSet(S)
    <2>1. IsFiniteSet(1..Len(seq))
      BY <1>1, FS_Interval
    <2>2. IsFiniteSet(DOMAIN seq)
      BY <1>1, <2>1
    <2>3. QED
      BY <2>2, FS_Subset, Zenon
  <1>4. Cardinality(S) \in Nat
    BY <1>3, FS_CardinalityType
  <1>5. Chosen(seq, S) = [k \in 1..Cardinality(S) |-> Chosen(seq, S)[k]]
    BY DEF Chosen
  <1>6. QED
    BY <1>2, <1>3, <1>4, <1>5, ChosenMembers, FunctionSequence

(* The queries of an intent are a sequence, whatever the alias database.       *)
LEMMA QueriesAreSequence ==
  ASSUME NEW intent, NEW options
  PROVE  IsSequence(buildPlanningPipelineInput(intent, options, AliasEntries).queries)
  <1>1. ASSUME NEW text PROVE IsSequence(matchAliasesInText(text, AliasEntries))
    <2>1. IsSequence(AliasEntries)
      BY AliasAssumption DEF IsSequence
    <2> DEFINE matching == {i \in DOMAIN AliasEntries : AliasEntries[i].aliases \cap text # {}}
               S == {i \in matching : ~\E j \in matching :
                       j < i /\ AliasEntries[j].canonicalName = AliasEntries[i].canonicalName}
    <2>2. matchAliasesInText(text, AliasEntries) = Chosen(AliasEntries, S)
      BY DEF matchAliasesInText
    <2>3. S \in SUBSET (DOMAIN AliasEntries)
      OBVIOUS
    <2> HIDE DEF S
    <2>4. QED
      BY <2>1, <2>2, <2>3, ChosenSequence
  <1>2. ASSUME NEW queries, IsSequence(queries) PROVE IsSequence(FirstOfEachKey(queries))
    <2> DEFINE S == {i \in DOMAIN queries :
                       ~\E j \in 1..(i - 1) : KeyOf(queries[j]) = KeyOf(queries[i])}
    <2>1. FirstOfEachKey(queries) = Chosen(queries, S)
      BY DEF FirstOfEachKey
    <2>2. S \in SUBSET (DOMAIN queries)
      OBVIOUS
    <2> HIDE DEF S
    <2>3. QED
      BY <1>2, <2>1, <2>2, ChosenSequence
  <1>3. ASSUME NEW matches, IsSequence(matches), NEW context
        PROVE  IsSequence(buildResolverQueriesFromAliases(matches, context))
    <2> DEFINE queries == [i \in DOMAIN matches |-> mapAliasMatchToResolverQuery(matches[i], context)]
    <2>1. Len(matches) \in Nat /\ DOMAIN matches = 1..Len(matches)
      BY <1>3, SequenceDomain
    <2>2. queries = [i \in 1..Len(matches) |-> queries[i]]
      BY <2>1
    <2>3. buildResolverQueriesFromAliases(matches, context) = FirstOfEachKey(queries)
      BY DEF buildResolverQueriesFromAliases
    <2> HIDE DEF queries
    <2>4. IsSequence(queries)
      BY <2>1, <2>2, FunctionSequence
    <2>5. QED
      BY <1>2, <2>3, <2>4
  <1>4. ASSUME NEW queries, IsSequence(queries), NEW context
        PROVE  IsSequence(addGoalSeedQueries(queries, context))
    <2>1. IsSequence(<<>>)
      BY DEF IsSequence
    <2>2. ASSUME NEW x PROVE IsSequence(<<x>>)
      BY DEF IsSequence, ToSet
    <2>3. PICK p, q : /\ p = <<>> \/ \E x : p = <<x>>
                      /\ q = <<>> \/ \E x : q = <<x>>
                      /\ addGoalSeedQueries(queries, context) = queries \o p \o q
      BY Zenon DEF addGoalSeedQueries
    <2>4. IsSequence(p) /\ IsSequence(q)
      BY <2>1, <2>2, <2>3
    <2>5. QED
      BY <1>4, <2>3, <2>4, ConcatSequence
  <1>5. QED
    BY <1>1, <1>3, <1>4 DEF buildPlanningPipelineInput, buildResolverQueriesForIntent,
                            resolveAliasesForIntent

(* The candidates of a resolution are those of its results, in order.         *)
LEMMA ResolutionCandidates ==
  ASSUME NEW every, IsSequence(every)
  PROVE  LET candidates == Resolution(every).candidates
             successful == {i \in DOMAIN every : every[i].candidate # Null}
         IN /\ IsSequence(candidates) /\ Len(candidates) = Cardinality(successful)
            /\ \A k \in DOMAIN candidates : \E i \in successful : candidates[k] = every[i].candidate
  <1> DEFINE S == {i \in DOMAIN every : every[i].candidate # Null}
             chosen == Chosen(every, S)
             candidates == [k \in DOMAIN chosen |-> chosen[k].candidate]
  <1>1. Resolution(every).candidates = candidates
    BY DEF Resolution
  <1>2. S \in SUBSET (DOMAIN every)
    OBVIOUS
  <1>3. \A i \in S : every[i].candidate # Null
    OBVIOUS
  <1>4. /\ IsSequence(chosen) /\ Len(chosen) = Cardinality(S)
        /\ \A k \in DOMAIN chosen : \E i \in S : chosen[k] = every[i]
    <2> HIDE DEF S
    <2>1. QED
      BY <1>2, ChosenSequence
  <1> HIDE DEF chosen
  <1>5. Len(chosen) \in Nat /\ DOMAIN chosen = 1..Len(chosen)
    BY <1>4, SequenceDomain
  <1>6. candidates = [k \in 1..Len(chosen) |-> candidates[k]]
    BY <1>5
  <1>7. \A k \in DOMAIN candidates : \E i \in S : candidates[k] = every[i].candidate
    BY <1>4
  <1> HIDE DEF candidates
  <1>8. IsSequence(candidates) /\ Len(candidates) = Len(chosen)
    BY <1>5, <1>6, FunctionSequence
  <1>9. QED
    BY <1>1, <1>4, <1>7, <1>8

--------------------------------------------------------------------------------
(* The plan.                                                                  *)

PlanFields == {"planId", "status", "target", "risk", "resources", "rejected", "warnings",
               "errors", "confirmed"}

(* A plan that owns up to its messages.                                       *)
Candid(made) ==
  /\ DOMAIN made = PlanFields
  /\ made.risk \in {"low", "medium", "high"}
  /\ made.warnings \cup made.errors # {} => made.risk # "low"

(* A plan made from candidates carries the warnings of those it takes.         *)
LEMMA PlanBuilt ==
  ASSUME NEW asked, NEW candidates, IsSequence(candidates), NEW required, NEW java
  PROVE  LET made == buildResourcePlan(asked, candidates, required, java)
         IN /\ Candid(made) /\ made.errors = {}
            /\ \A resource \in ToSet(made.resources) : \E i \in DOMAIN candidates :
                 /\ resource.releaseType = candidates[i].versionType
                 /\ \A w \in candidates[i].warnings : Message("RESOLVER_WARNING", w) \in made.warnings
  <1> DEFINE New(i) == \A j \in 1..(i - 1) : candidates[j].projectId # candidates[i].projectId
             taken == Chosen(candidates, {i \in DOMAIN candidates : New(i)})
             resources == [k \in DOMAIN taken |->
                             mapResourceCandidateToPlanResource(taken[k], taken[k].projectId \in required)]
             warnings == UNION {ResourceWarnings(taken[k]) : k \in DOMAIN taken}
                         \cup {Message("DUPLICATE_PROJECT_SKIPPED", candidates[i].projectId) :
                                 i \in {k \in DOMAIN candidates : ~New(k)}}
                         \cup {w \in {Message("NO_RESOURCES_SELECTED", None)} : resources = <<>>}
             made == buildResourcePlan(asked, candidates, required, java)
  <1>1. made = [planId |-> PlanId(asked.intent.intentId, asked.minecraftVersion, resources),
                status |-> "needs-user-confirmation",
                target |-> [minecraftVersion |-> asked.minecraftVersion, loader |-> asked.loader,
                            javaMajorVersion |-> java],
                risk |-> IF warnings # {} THEN "medium" ELSE "low",
                resources |-> resources, rejected |-> {}, warnings |-> warnings, errors |-> {},
                confirmed |-> FALSE]
    BY Zenon DEF buildResourcePlan
  <1>2. \A k \in DOMAIN taken : \E i \in DOMAIN candidates : taken[k] = candidates[i]
    <2> DEFINE S == {i \in DOMAIN candidates : New(i)}
    <2>1. S \in SUBSET (DOMAIN candidates)
      OBVIOUS
    <2> HIDE DEF S
    <2>2. \A k \in DOMAIN Chosen(candidates, S) : \E i \in S : Chosen(candidates, S)[k] = candidates[i]
      BY <2>1, ChosenSequence
    <2>3. QED
      BY <2>1, <2>2 DEF S
  <1>3. ASSUME NEW k \in DOMAIN taken
        PROVE  /\ resources[k].releaseType = taken[k].versionType
               /\ \A w \in taken[k].warnings : Message("RESOLVER_WARNING", w) \in warnings
    <2> HIDE DEF taken
    <2>1. resources[k].releaseType = taken[k].versionType
      BY DEF mapResourceCandidateToPlanResource
    <2>2. ResourceWarnings(taken[k]) \subseteq warnings
      OBVIOUS
    <2>3. \A w \in taken[k].warnings : Message("RESOLVER_WARNING", w) \in ResourceWarnings(taken[k])
      BY DEF ResourceWarnings
    <2>4. QED
      BY <2>1, <2>2, <2>3
  <1>4. ToSet(resources) = {resources[k] : k \in DOMAIN taken}
    BY DEF ToSet
  <1> HIDE DEF taken, warnings, resources, made
  <1>5. Candid(made) /\ made.errors = {} /\ made.warnings = warnings /\ made.resources = resources
    BY <1>1 DEF Candid, PlanFields
  <1>6. QED
    BY <1>2, <1>3, <1>4, <1>5 DEF made

LEMMA PlanPlanned ==
  ASSUME NEW asked, NEW resolution, IsSequence(resolution.candidates), NEW messages
  PROVE  LET made == planResources(asked, resolution, messages)
             candidates == resolution.candidates
         IN /\ Candid(made) /\ (made.errors # {} => made.risk = "high")
            /\ messages.warnings \subseteq made.warnings /\ messages.errors \subseteq made.errors
            /\ \A resource \in ToSet(made.resources) : \E i \in DOMAIN candidates :
                 /\ resource.releaseType = candidates[i].versionType
                 /\ \A w \in candidates[i].warnings : Message("RESOLVER_WARNING", w) \in made.warnings
  <1> DEFINE required == requiredProjectIds(resolution) \cup dependencyProjectIds(resolution.candidates)
             built == buildResourcePlan(asked, resolution.candidates, required,
                                        defaultJavaMajorVersion(asked.minecraftVersion))
             warnings == built.warnings \cup messages.warnings
             errors == built.errors \cup messages.errors
             made == planResources(asked, resolution, messages)
  <1>1. made = [built EXCEPT !.warnings = warnings, !.errors = errors,
                             !.risk = IF errors # {} THEN "high"
                                      ELSE IF warnings # {} THEN "medium" ELSE @]
    BY Zenon DEF planResources, mergeDiagnosticsIntoPlan
  <1>2. /\ Candid(built) /\ built.errors = {}
        /\ \A resource \in ToSet(built.resources) : \E i \in DOMAIN resolution.candidates :
             /\ resource.releaseType = resolution.candidates[i].versionType
             /\ \A w \in resolution.candidates[i].warnings :
                  Message("RESOLVER_WARNING", w) \in built.warnings
    <2> HIDE DEF required
    <2>1. QED
      BY PlanBuilt
  <1> HIDE DEF built, warnings, errors, made
  <1>3. /\ DOMAIN made = PlanFields /\ made.warnings = warnings /\ made.errors = errors
        /\ made.resources = built.resources
        /\ made.risk = IF errors # {} THEN "high" ELSE IF warnings # {} THEN "medium" ELSE built.risk
    BY <1>1, <1>2 DEF Candid, PlanFields
  <1>4. Candid(made) /\ (made.errors # {} => made.risk = "high")
    BY <1>2, <1>3 DEF Candid
  <1>5. QED
    BY <1>2, <1>3, <1>4 DEF made, warnings, errors

(* The analysis adds to a plan and takes nothing from it.                     *)
LEMMA PlanApplied ==
  ASSUME NEW old, Candid(old), NEW result
  PROVE  LET new == applyCompatibilityToResourcePlan(old, result)
         IN /\ Candid(new) /\ new.resources = old.resources
            /\ old.warnings \subseteq new.warnings /\ old.errors \subseteq new.errors
            /\ HasSeverity(result.issues, {"blocker"}) =>
                 new.status = "rejected" /\ new.risk = "high" /\ new.errors # {}
  <1> DEFINE Of(severities) == {planMessage(i) : i \in {j \in result.issues : j.severity \in severities}}
             hasBlocker == HasSeverity(result.issues, {"blocker"})
             hasConcern == HasSeverity(result.issues, {"blocker", "error", "warning"})
             new == applyCompatibilityToResourcePlan(old, result)
  <1>1. new = [old EXCEPT
                 !.status = IF hasBlocker THEN "rejected" ELSE @,
                 !.risk = IF hasBlocker THEN "high" ELSE IF hasConcern THEN "medium" ELSE @,
                 !.errors = @ \cup Of({"blocker"}), !.warnings = @ \cup Of({"warning", "error"})]
    BY Zenon DEF applyCompatibilityToResourcePlan
  <1>2. /\ hasBlocker => hasConcern
        /\ hasBlocker <=> Of({"blocker"}) # {}
        /\ ~hasConcern => Of({"blocker"}) = {} /\ Of({"warning", "error"}) = {}
    BY DEF HasSeverity
  <1> HIDE DEF Of, hasBlocker, hasConcern, new
  <1>3. /\ DOMAIN new = PlanFields /\ new.resources = old.resources
        /\ new.status = IF hasBlocker THEN "rejected" ELSE old.status
        /\ new.risk = IF hasBlocker THEN "high" ELSE IF hasConcern THEN "medium" ELSE old.risk
        /\ new.errors = old.errors \cup Of({"blocker"})
        /\ new.warnings = old.warnings \cup Of({"warning", "error"})
    BY <1>1 DEF Candid, PlanFields
  <1>4. Candid(new)
    BY <1>2, <1>3 DEF Candid
  <1>5. QED
    BY <1>2, <1>3, <1>4 DEF new, hasBlocker

--------------------------------------------------------------------------------
(* The results of a planning call so far: one for each query, in order, and   *)
(* the queries that have none yet are still to do.                            *)
ResultsInv ==
  /\ job \in Jobs
  /\ Planning =>
       /\ stage \in {"idle", "resolving", "resolved", "planned", "failed", "analysed"}
       /\ stage = "idle" => results = <<>>
       /\ stage # "idle" => IsSequence(results) /\ IsSequence(input.queries)
       /\ job.resolver = None =>
            /\ stage = "resolving" =>
                 /\ IsSequence(todo) /\ Len(results) + Len(todo) = Len(input.queries)
                 /\ \A i \in 1..Len(todo) : todo[i] = input.queries[Len(results) + i]
                 /\ ~networkResolver(job.options) => results = <<>>
            /\ stage \in {"resolved", "planned", "failed", "analysed"} =>
                 Len(results) = Len(input.queries)
            /\ stage # "idle" =>
                 \A i \in 1..Len(results) :
                   Owned(results[i], input.queries[i], input.riskPreference)

(* Taking up the next query keeps that, whatever came of this one.            *)
LEMMA NextQueryKeeps ==
  ASSUME ResultsInv, QueryStep, NEW result,
         Owned(result, Head(todo), input.riskPreference),
         NextQuery(result), UNCHANGED <<job, stage, input>>
  PROVE  ResultsInv'
  <1>1. /\ Planning /\ stage = "resolving" /\ todo # <<>> /\ job \in Jobs /\ job.resolver = None
        /\ networkResolver(job.options) /\ results' = Append(results, result) /\ todo' = Tail(todo)
        /\ job' = job /\ stage' = stage /\ input' = input
    BY DEF QueryStep, Networked, NextQuery, ResultsInv
  <1>2. /\ IsSequence(results) /\ IsSequence(input.queries) /\ IsSequence(todo)
        /\ Len(results) + Len(todo) = Len(input.queries)
        /\ \A i \in 1..Len(todo) : todo[i] = input.queries[Len(results) + i]
        /\ \A i \in 1..Len(results) : Owned(results[i], input.queries[i], input.riskPreference)
    BY <1>1 DEF ResultsInv
  <1>3. Len(results) \in Nat /\ Len(todo) \in Nat /\ Len(input.queries) \in Nat
    BY <1>2, SequenceDomain
  <1>4. /\ IsSequence(results') /\ Len(results') = Len(results) + 1
        /\ \A i \in 1..Len(results) : results'[i] = results[i]
        /\ results'[Len(results) + 1] = result
    BY <1>1, <1>2, AppendSequence
  <1>5. /\ IsSequence(todo') /\ Len(todo') = Len(todo) - 1 /\ Len(todo) > 0
        /\ \A i \in 1..Len(todo') : todo'[i] = todo[i + 1]
        /\ Head(todo) = todo[1]
    BY <1>1, <1>2, TailSequence
  <1>6. Owned(result, input.queries[Len(results) + 1], input.riskPreference)
    BY <1>2, <1>3, <1>5
  <1>7. ASSUME NEW i \in 1..Len(results')
        PROVE  Owned(results'[i], input.queries[i], input.riskPreference)
    <2>1. CASE i \in 1..Len(results)
      BY <1>2, <1>4, <2>1
    <2>2. CASE i = Len(results) + 1
      BY <1>4, <1>6, <2>2
    <2>3. QED
      BY <1>3, <1>4, <2>1, <2>2
  <1>8. ASSUME NEW i \in 1..Len(todo')
        PROVE  todo'[i] = input.queries[Len(results') + i]
    <2>1. i + 1 \in 1..Len(todo) /\ Len(results) + (i + 1) = Len(results') + i
      BY <1>3, <1>4, <1>5
    <2>2. QED
      BY <1>2, <1>5, <2>1
  <1>9. Len(results') + Len(todo') = Len(input.queries)
    <2>1. Len(results') = Len(results) + 1 /\ Len(todo') = Len(todo) - 1
      BY <1>4, <1>5
    <2>2. Len(results) + Len(todo) = Len(input.queries)
      BY <1>2
    <2>3. QED
      BY <1>3, <2>1, <2>2
  <1>10. QED
    BY <1>1, <1>2, <1>4, <1>5, <1>7, <1>8, <1>9 DEF ResultsInv, Planning

LEMMA ResultsInvStep ==
  ASSUME ResultsInv, [PipelineNext]_pipelineVars
  PROVE  ResultsInv'
  <1>1. job' = job
    BY StagesReached
  <1>2. CASE ~Planning
    BY <1>1, <1>2 DEF ResultsInv, Planning
  <1>3. CASE Planning
    <2>1. CASE BuildInput
      <3>1. /\ input' = buildPlanningPipelineInput(job.intent, job.options, AliasEntries)
            /\ todo' = input'.queries /\ stage' = "resolving" /\ results' = results
            /\ stage = "idle"
        BY <2>1 DEF BuildInput
      <3>2. results = <<>>
        BY <1>3, <3>1 DEF ResultsInv
      <3>3. IsSequence(input'.queries)
        BY <3>1, QueriesAreSequence
      <3>4. IsSequence(<<>>) /\ Len(<<>>) = 0
        BY DEF IsSequence
      <3>5. Len(input'.queries) \in Nat
        BY <3>3, SequenceDomain
      <3>6. QED
        BY <1>1, <3>1, <3>2, <3>3, <3>4, <3>5 DEF ResultsInv, Planning
    <2>2. CASE InjectedResolver
      <3>1. PICK candidates \in Resolved(job.resolver) :
              results' = [i \in DOMAIN candidates |-> Result(Head(todo), candidates[i], {}, {})]
        BY <2>2 DEF InjectedResolver
      <3>2. /\ stage = "resolving" /\ stage' = "resolved" /\ input' = input /\ job.resolver # None
        BY <2>2 DEF InjectedResolver
      <3>3. IsSequence(candidates)
        BY <1>3, <3>1, <3>2, ResolvedAssumption DEF ResultsInv, Planning, IsSequence
      <3>4. Len(candidates) \in Nat /\ DOMAIN candidates = 1..Len(candidates)
        BY <3>3, SequenceDomain
      <3>5. results' = [i \in 1..Len(candidates) |-> results'[i]]
        BY <3>1, <3>4
      <3>6. IsSequence(results')
        BY <3>4, <3>5, FunctionSequence
      <3>7. QED
        BY <1>1, <1>3, <3>2, <3>6 DEF ResultsInv, Planning
    <2>3. CASE NetworkDisabled
      <3>1. /\ stage = "resolving" /\ stage' = "resolved" /\ input' = input /\ job.resolver = None
            /\ results' = [i \in DOMAIN todo |->
                            Result(todo[i], Null, {Message("NETWORK_DISABLED", None)}, {})]
        BY <2>3 DEF NetworkDisabled, Networked
      <3>2. /\ IsSequence(todo) /\ IsSequence(input.queries) /\ results = <<>>
            /\ Len(results) + Len(todo) = Len(input.queries)
            /\ \A i \in 1..Len(todo) : todo[i] = input.queries[Len(results) + i]
        BY <1>3, <2>3, <3>1 DEF ResultsInv, NetworkDisabled
      <3>3. /\ Len(todo) \in Nat /\ DOMAIN todo = 1..Len(todo) /\ Len(results) = 0
            /\ Len(input.queries) \in Nat
        BY <3>2, SequenceDomain
      <3>4. Len(todo) = Len(input.queries) /\ \A i \in 1..Len(todo) : todo[i] = input.queries[i]
        BY <3>2, <3>3
      <3>5. ASSUME NEW i \in 1..Len(todo)
            PROVE  Owned(results'[i], input.queries[i], input.riskPreference)
        <4>1. results'[i] = Result(input.queries[i], Null, {Message("NETWORK_DISABLED", None)}, {})
          BY <3>1, <3>3, <3>4
        <4>2. QED
          BY <4>1, FailedOwned
      <3>6. results' = [i \in 1..Len(todo) |-> results'[i]]
        BY <3>1, <3>3
      <3>7. IsSequence(results') /\ Len(results') = Len(todo)
        BY <3>3, <3>6, FunctionSequence
      <3>8. QED
        BY <1>1, <1>3, <3>1, <3>2, <3>4, <3>5, <3>7 DEF ResultsInv, Planning
    <2>4. CASE RefuseQuery
      <3>1. Owned(RefusedResult(Head(todo)), Head(todo), input.riskPreference)
        BY FailedOwned DEF RefusedResult
      <3>2. QED
        BY <2>4, <3>1, NextQueryKeeps DEF RefuseQuery
    <2>5. CASE SearchAnswered
      <3>1. QueryStep /\ UNCHANGED <<job, stage, input>>
        BY <2>5 DEF SearchAnswered
      <3>2. CASE UNCHANGED <<results, todo>>
        BY <1>1, <1>3, <3>1, <3>2 DEF ResultsInv, Planning
      <3>3. CASE \E warnings, error : NextQuery(FailedResult(Head(todo), warnings, error))
        BY <3>1, <3>3, FailedOwned, NextQueryKeeps DEF FailedResult
      <3>4. QED
        BY <2>5, <3>2, <3>3 DEF SearchAnswered
    <2>6. CASE VersionsAnswered
      <3>1. QueryStep /\ UNCHANGED <<job, stage, input>>
        BY <2>6 DEF VersionsAnswered
      <3>2. PICK project, warnings, answer :
              NextQuery(ResolvedResult(Head(todo), project, warnings, answer, input.riskPreference))
        BY <2>6 DEF VersionsAnswered
      <3>3. QED
        BY <3>1, <3>2, ResolvedOwned, NextQueryKeeps
    <2>7. CASE AllQueriesResolved
      <3>1. /\ stage = "resolving" /\ stage' = "resolved" /\ todo = <<>>
            /\ input' = input /\ results' = results
        BY <2>7 DEF AllQueriesResolved, Networked, callVars
      <3>2. Len(todo) = 0
        BY <3>1
      <3>3. job.resolver = None => Len(results) = Len(input.queries)
        <4>1. IsSequence(results)
          BY <1>3, <3>1 DEF ResultsInv
        <4>2. Len(results) \in Nat
          BY <4>1, SequenceDomain
        <4>3. QED
          BY <1>3, <3>1, <3>2, <4>2 DEF ResultsInv
      <3>4. QED
        BY <1>1, <1>3, <3>1, <3>3 DEF ResultsInv, Planning
    <2>8. CASE PlanResolved \/ Analyse
      BY <1>1, <1>3, <2>8 DEF ResultsInv, Planning, PlanResolved, Analyse, callVars
    <2>9. CASE PlanAgain
      BY <1>1, <1>3, <2>9 DEF ResultsInv, Planning, PlanAgain
    <2>10. CASE \/ AskProviders \/ SkipProvider \/ ConsultProvider \/ ProjectAnswered
                \/ RequirementVersionsAnswered \/ ProviderResolved \/ MetadataResolved
      BY <1>3, <2>10 DEF Planning, Resolving, AskProviders, SkipProvider, ConsultProvider,
           Consulting, ProjectAnswered, RequirementVersionsAnswered, RequirementStep,
           ProviderResolved, MetadataResolved
    <2>11. CASE UNCHANGED pipelineVars
      BY <2>11 DEF ResultsInv, Planning, pipelineVars, callVars
    <2>12. QED
      BY <2>1, <2>2, <2>3, <2>4, <2>5, <2>6, <2>7, <2>8, <2>9, <2>10, <2>11 DEF PipelineNext
  <1>4. QED
    BY <1>2, <1>3

(* The diagnostics of a planning call that is over, and its plan.             *)
Diagnosed ==
  diagnostics = buildDiagnostics(input, Resolution(results),
                                 input.networkAllowed /\ job.resolver = None)

(* The plan owns up to its messages, its resources and its analysis.          *)
PlanTruthful ==
  /\ Candid(plan)
  /\ diagnostics.warnings \subseteq plan.warnings /\ diagnostics.errors \subseteq plan.errors
  /\ job.resolver = None =>
       \A resource \in ToSet(plan.resources) :
         /\ resource.releaseType # "release" =>
              Message("RESOLVER_WARNING", resource.releaseType) \in plan.warnings
         /\ resource.releaseType = "alpha" => input.riskPreference = "experimental"
  /\ stage = "planned" /\ plan.errors # {} => plan.risk = "high"
  /\ stage = "analysed" /\ HasSeverity(analysis.issues, {"blocker"}) =>
       plan.status = "rejected" /\ plan.risk = "high" /\ plan.errors # {}

PlanInv ==
  /\ plan # Null => Candid(plan)
  /\ Planning /\ stage \in {"planned", "failed", "analysed"} => Diagnosed
  /\ Planning /\ stage \in {"planned", "analysed"} => PlanTruthful

LEMMA PlanInvStep ==
  ASSUME ResultsInv, PlanInv, [PipelineNext]_pipelineVars
  PROVE  PlanInv'
  <1>1. job' = job
    BY StagesReached
  <1>2. CASE /\ UNCHANGED plan
             /\ ~Planning \/ stage' \notin {"planned", "failed", "analysed"}
    BY <1>1, <1>2 DEF PlanInv, Candid, Planning
  <1>3. CASE PlanResolved
    <2> DEFINE resolution == Resolution(results)
               made == buildDiagnostics(input, resolution, input.networkAllowed /\ job.resolver = None)
    <2>1. /\ Planning /\ stage = "resolved" /\ diagnostics' = made
          /\ input' = input /\ results' = results
          /\ \/ stage' = "failed" /\ plan' = plan
             \/ stage' = "planned" /\ plan' = planResources(input, resolution, made)
      BY <1>3 DEF PlanResolved, callVars
    <2>2. Diagnosed'
      BY <1>1, <2>1 DEF Diagnosed
    <2>3. IsSequence(results)
      BY <2>1 DEF ResultsInv
    <2>4. CASE stage' = "failed"
      BY <1>1, <2>1, <2>2, <2>4 DEF PlanInv, Candid, Planning
    <2>5. CASE stage' = "planned"
      <3>1. /\ IsSequence(resolution.candidates)
            /\ \A k \in DOMAIN resolution.candidates : \E i \in DOMAIN results :
                 /\ results[i].candidate # Null
                 /\ resolution.candidates[k] = results[i].candidate
        BY <2>3, ResolutionCandidates
      <3>2. plan' = planResources(input, resolution, made)
        BY <2>1, <2>5
      <3>3. DOMAIN results = 1..Len(results)
        BY <2>3, SequenceDomain
      <3> HIDE DEF resolution, made
      <3>4. /\ Candid(plan') /\ (plan'.errors # {} => plan'.risk = "high")
            /\ made.warnings \subseteq plan'.warnings /\ made.errors \subseteq plan'.errors
            /\ \A resource \in ToSet(plan'.resources) : \E k \in DOMAIN resolution.candidates :
                 /\ resource.releaseType = resolution.candidates[k].versionType
                 /\ \A w \in resolution.candidates[k].warnings :
                      Message("RESOLVER_WARNING", w) \in plan'.warnings
        <4> DEFINE new == planResources(input, resolution, made)
        <4>1. /\ Candid(new) /\ (new.errors # {} => new.risk = "high")
              /\ made.warnings \subseteq new.warnings /\ made.errors \subseteq new.errors
              /\ \A resource \in ToSet(new.resources) : \E k \in DOMAIN resolution.candidates :
                   /\ resource.releaseType = resolution.candidates[k].versionType
                   /\ \A w \in resolution.candidates[k].warnings :
                        Message("RESOLVER_WARNING", w) \in new.warnings
          BY <3>1, PlanPlanned
        <4>2. plan' = new
          BY <3>2
        <4> HIDE DEF new
        <4>3. QED
          BY <4>1, <4>2
      <3>5. ASSUME job.resolver = None, NEW resource \in ToSet(plan'.resources)
            PROVE  /\ resource.releaseType # "release" =>
                        Message("RESOLVER_WARNING", resource.releaseType) \in plan'.warnings
                   /\ resource.releaseType = "alpha" => input.riskPreference = "experimental"
        <4>1. PICK k \in DOMAIN resolution.candidates :
                /\ resource.releaseType = resolution.candidates[k].versionType
                /\ \A w \in resolution.candidates[k].warnings :
                     Message("RESOLVER_WARNING", w) \in plan'.warnings
          BY <3>4
        <4>2. PICK i \in 1..Len(results) : /\ results[i].candidate # Null
                                           /\ resolution.candidates[k] = results[i].candidate
          BY <3>1, <3>3
        <4>3. Owned(results[i], input.queries[i], input.riskPreference)
          BY <2>1, <3>5 DEF ResultsInv
        <4>4. OwnsUp(resolution.candidates[k], input.riskPreference)
          BY <4>2, <4>3 DEF Owned
        <4>5. QED
          BY <4>1, <4>4 DEF OwnsUp
      <3>6. PlanTruthful'
        BY <1>1, <2>1, <2>5, <3>4, <3>5 DEF PlanTruthful, Candid
      <3>7. QED
        BY <2>2, <3>6 DEF PlanInv, PlanTruthful
    <2>6. QED
      BY <2>1, <2>4, <2>5
  <1>4. CASE Analyse
    <2>1. /\ Planning /\ stage = "planned" /\ stage' = "analysed"
          /\ plan' = applyCompatibilityToResourcePlan(plan, analysis')
          /\ UNCHANGED <<input, results, diagnostics>>
      BY <1>4 DEF Analyse, callVars
    <2>2. Diagnosed'
      BY <1>1, <2>1 DEF PlanInv, Diagnosed
    <2>3. PlanTruthful
      BY <2>1 DEF PlanInv
    <2>4. /\ Candid(plan') /\ plan'.resources = plan.resources
          /\ plan.warnings \subseteq plan'.warnings /\ plan.errors \subseteq plan'.errors
          /\ HasSeverity(analysis'.issues, {"blocker"}) =>
               plan'.status = "rejected" /\ plan'.risk = "high" /\ plan'.errors # {}
      BY <2>1, <2>3, PlanApplied DEF PlanTruthful
    <2>5. PlanTruthful'
      BY <1>1, <2>1, <2>3, <2>4 DEF PlanTruthful, Candid, HasSeverity
    <2>6. QED
      BY <2>2, <2>5 DEF PlanInv, PlanTruthful
  <1>5. CASE UNCHANGED pipelineVars
    BY <1>5 DEF PlanInv, Diagnosed, PlanTruthful, Candid, Planning, pipelineVars, callVars, HasSeverity
  <1>6. \/ PlanResolved \/ Analyse \/ UNCHANGED pipelineVars
        \/ UNCHANGED plan /\ (~Planning \/ stage' \notin {"planned", "failed", "analysed"})
    <2>1. CASE BuildInput \/ InjectedResolver \/ NetworkDisabled \/ AllQueriesResolved \/ PlanAgain
      BY <2>1 DEF BuildInput, InjectedResolver, NetworkDisabled, AllQueriesResolved, PlanAgain
    <2>2. CASE RefuseQuery \/ SearchAnswered \/ VersionsAnswered
      BY <2>2 DEF RefuseQuery, SearchAnswered, VersionsAnswered, QueryStep, Networked
    <2>3. CASE \/ AskProviders \/ SkipProvider \/ ConsultProvider \/ ProjectAnswered
               \/ RequirementVersionsAnswered \/ ProviderResolved \/ MetadataResolved
      BY <2>3 DEF Planning, Resolving, AskProviders, SkipProvider, ConsultProvider,
           Consulting, ProjectAnswered, RequirementVersionsAnswered, RequirementStep,
           ProviderResolved, MetadataResolved
    <2>4. QED
      BY <2>1, <2>2, <2>3 DEF PipelineNext
  <1>7. QED
    BY <1>2, <1>3, <1>4, <1>5, <1>6

(* A failed query leaves a message.                                           *)
LEMMA NullIsReported ==
  ASSUME NEW asked, NEW every, NEW used, IsSequence(every), NEW i \in DOMAIN every,
         every[i].candidate = Null
  PROVE  LET made == buildDiagnostics(asked, Resolution(every), used)
         IN \/ Mentions(made.warnings, every[i].query)
            \/ every[i].errors # {} /\ every[i].errors \subseteq made.errors
  <1> DEFINE made == buildDiagnostics(asked, Resolution(every), used)
             empty == {r \in ToSet(every) : r.candidate = Null /\ r.errors = {}}
  <1>1. /\ {Message("NO_CANDIDATE_FOUND", r.query.canonicalName) : r \in empty} \subseteq made.warnings
        /\ made.errors = UNION {every[j].errors : j \in DOMAIN every}
    BY DEF buildDiagnostics, Resolution
  <1>2. every[i] \in ToSet(every)
    BY DEF ToSet
  <1>3. CASE every[i].errors = {}
    <2>1. every[i] \in empty
      BY <1>2, <1>3
    <2> HIDE DEF empty, made
    <2>2. Message("NO_CANDIDATE_FOUND", every[i].query.canonicalName) \in made.warnings
      BY <1>1, <2>1
    <2>3. Message("NO_CANDIDATE_FOUND", every[i].query.canonicalName).about = every[i].query.canonicalName
      BY DEF Message
    <2>4. QED
      BY <2>2, <2>3 DEF Mentions, made
  <1>4. CASE every[i].errors # {}
    <2> HIDE DEF made
    <2>1. QED
      BY <1>1, <1>4 DEF made
  <1>5. QED
    BY <1>3, <1>4

(* The results answer the queries in order, and the diagnostics and the plan  *)
(* are made from all of them.                                                 *)
THEOREM PlanInvariant == Spec => [](ResultsInv /\ PlanInv)
  <1>1. ReviewInit => ResultsInv /\ PlanInv
    BY DEF ReviewInit, Init, ResultsInv, PlanInv, Planning
  <1>2. ResultsInv /\ PlanInv /\ [Next]_vars => (ResultsInv /\ PlanInv)'
    BY PipelineStep, ResultsInvStep, PlanInvStep
  <1>3. QED
    BY <1>1, <1>2, PTL DEF Spec

(* A plan owns up to every doubt the call had: unstable versions and failed   *)
(* queries leave messages, messages raise the risk, and a blocker rejects the *)
(* plan (selectBestVersion, mergeDiagnosticsIntoPlan,                         *)
(* applyCompatibilityToResourcePlan).                                         *)
THEOREM PlansOwnUp == Spec => []PlanOwnsUp
  <1>1. ResultsInv /\ PlanInv => PlanOwnsUp
    <2> SUFFICES ASSUME ResultsInv, PlanInv, Planning, stage \in {"planned", "analysed"}
                 PROVE  PlanOwnsUp
      BY DEF PlanOwnsUp
    <2>1. PlanTruthful /\ Diagnosed /\ IsSequence(results)
      BY DEF PlanInv, ResultsInv
    <2>2. (\E i \in DOMAIN results : results[i].candidate = Null) => plan.risk # "low"
      <3> SUFFICES ASSUME NEW i \in DOMAIN results, results[i].candidate = Null
                   PROVE  plan.risk # "low"
        OBVIOUS
      <3>1. \/ Mentions(diagnostics.warnings, results[i].query)
            \/ results[i].errors # {} /\ results[i].errors \subseteq diagnostics.errors
        BY <2>1, NullIsReported DEF Diagnosed
      <3>2. plan.warnings \cup plan.errors # {}
        BY <2>1, <3>1 DEF PlanTruthful, Mentions
      <3>3. QED
        BY <2>1, <3>2 DEF PlanTruthful, Candid
    <2>3. QED
      BY <2>1, <2>2 DEF PlanOwnsUp, PlanTruthful, Candid
  <1>2. QED
    BY <1>1, PlanInvariant, PTL

(* No query is lost, whatever the service answered to the others: each has its *)
(* own result, in order, and a failed one its message                         *)
(* (resolveModrinthCandidates, buildDiagnostics).                             *)
THEOREM NoQueryIsLost == Spec => []QueriesKept
  <1>1. ResultsInv /\ PlanInv => QueriesKept
    <2> SUFFICES ASSUME ResultsInv, PlanInv, NetworkPlanned
                 PROVE  QueriesKept
      BY DEF QueriesKept
    <2>1. /\ Diagnosed /\ IsSequence(results) /\ Len(results) = Len(input.queries)
          /\ \A i \in 1..Len(results) :
               Owned(results[i], input.queries[i], input.riskPreference)
      BY DEF NetworkPlanned, PlanInv, ResultsInv
    <2>2. DOMAIN results = 1..Len(results)
      BY <2>1, SequenceDomain
    <2>3. \A i \in DOMAIN results : results[i].query = input.queries[i]
      BY <2>1, <2>2 DEF Owned
    <2>4. \A i \in DOMAIN results : results[i].candidate = Null =>
            \/ Mentions(diagnostics.warnings, results[i].query)
            \/ results[i].errors # {} /\ results[i].errors \subseteq diagnostics.errors
      BY <2>1, NullIsReported DEF Diagnosed
    <2>5. diagnostics.candidatesResolved = Len(Resolution(results).candidates)
      BY <2>1 DEF Diagnosed, buildDiagnostics
    <2>6. Len(Resolution(results).candidates)
            = Cardinality({i \in DOMAIN results : results[i].candidate # Null})
      BY <2>1, ResolutionCandidates
    <2>7. QED
      BY <2>1, <2>3, <2>4, <2>5, <2>6, Zenon DEF QueriesKept
  <1>2. QED
    BY <1>1, PlanInvariant, PTL

--------------------------------------------------------------------------------
(* Journals.                                                                  *)

(* Events that can be sorted, and events numbered from one.                   *)
Sortable(events) ==
  IsSequence(events) /\ \A i \in 1..Len(events) : events[i].sequence \in Int

Numbered(events) ==
  /\ IsSequence(events)
  /\ \A i \in 1..Len(events) : events[i].sequence \in 1..Len(events)
  /\ \A k \in 1..Len(events) : \E i \in 1..Len(events) : events[i].sequence = k
  /\ \A i, j \in 1..Len(events) : events[i].sequence = events[j].sequence => i = j

Earlier(events, i, j) ==
  \/ events[i].sequence < events[j].sequence
  \/ events[i].sequence = events[j].sequence /\ i < j

EarlierPairs(events) ==
  {p \in (1..Len(events)) \X (1..Len(events)) : Earlier(events, p[1], p[2])}

(* The index of the event that is sorted to place k.                          *)
SortedIndex(events, k) ==
  CHOOSE x \in 1..Len(events) :
    Cardinality({y \in 1..Len(events) : Earlier(events, y, x)}) = k - 1

(* Events are ranked by their numbers, those of one number as they come.      *)
LEMMA EventsAreRanked ==
  ASSUME NEW events, Sortable(events)
  PROVE  /\ Len(events) \in Nat /\ Cardinality(1..Len(events)) = Len(events)
         /\ Ranked(1..Len(events), EarlierPairs(events))
  <1> DEFINE D == 1..Len(events)
  <1>1. Len(events) \in Nat
    BY SequenceDomain DEF Sortable
  <1>2. IsFiniteSet(D) /\ Cardinality(D) = Len(events)
    BY <1>1, FirstNumbers
  <1>3. StrictOrder(D, EarlierPairs(events))
    <2>1. \A i \in D : events[i].sequence \in Int /\ i \in Int
      BY <1>1 DEF Sortable
    <2>2. \A i, j \in D : <<i, j>> \in EarlierPairs(events) <=> Earlier(events, i, j)
      BY DEF EarlierPairs
    <2> HIDE DEF D
    <2>3. \A i \in D : ~Earlier(events, i, i)
      BY <2>1 DEF Earlier
    <2>4. \A i, j \in D : i # j => Earlier(events, i, j) \/ Earlier(events, j, i)
      BY <2>1 DEF Earlier
    <2>5. \A i, j, k \in D : Earlier(events, i, j) /\ Earlier(events, j, k) => Earlier(events, i, k)
      BY <2>1 DEF Earlier
    <2>6. QED
      BY <2>2, <2>3, <2>4, <2>5 DEF StrictOrder
  <1> HIDE DEF D
  <1>4. Ranked(D, EarlierPairs(events))
    BY <1>2, <1>3, RankReached
  <1>5. QED
    BY <1>1, <1>2, <1>4 DEF D

(* Sorting gives each place the event of that rank.                           *)
LEMMA SortedByIndex ==
  ASSUME NEW events, Sortable(events)
  PROVE  LET sorted == sortTransactionJournalEvents(events)
         IN /\ DOMAIN sorted = 1..Len(events)
            /\ \A k \in 1..Len(events) :
                 /\ SortedIndex(events, k) \in 1..Len(events)
                 /\ Cardinality(Below(1..Len(events), EarlierPairs(events), SortedIndex(events, k))) = k - 1
                 /\ sorted[k] = events[SortedIndex(events, k)]
  <1> DEFINE D == 1..Len(events)
             order == [k \in 1..Cardinality(D) |->
                         CHOOSE x \in D : Cardinality({y \in D : Earlier(events, y, x)}) = k - 1]
  <1>1. /\ Len(events) \in Nat /\ Cardinality(D) = Len(events)
        /\ Ranked(D, EarlierPairs(events))
    BY EventsAreRanked
  <1>2. DOMAIN events = D
    BY SequenceDomain DEF Sortable
  <1>3. \A x \in D : Below(D, EarlierPairs(events), x) = {y \in D : Earlier(events, y, x)}
    BY DEF Below, EarlierPairs
  <1>4. sortTransactionJournalEvents(events) = [k \in D |-> events[order[k]]]
    <2> DEFINE at == [k \in 1..Cardinality(DOMAIN events) |->
                        CHOOSE x \in DOMAIN events :
                          Cardinality({y \in DOMAIN events : Earlier(events, y, x)}) = k - 1]
    <2>1. sortTransactionJournalEvents(events) = [k \in DOMAIN events |-> events[at[k]]]
      BY Zenon DEF sortTransactionJournalEvents, Ordered, Earlier
    <2>2. at = order
      BY <1>2
    <2> HIDE DEF at, order
    <2>3. QED
      BY <1>2, <2>1, <2>2
  <1>5. ASSUME NEW k \in D
        PROVE  order[k] = SortedIndex(events, k)
    <2>1. k \in 1..Cardinality(D)
      BY <1>1
    <2>2. order[k] = CHOOSE x \in D : Cardinality({y \in D : Earlier(events, y, x)}) = k - 1
      BY <2>1, Zenon
    <2>3. QED
      BY <2>2, Zenon DEF SortedIndex
  <1>6. ASSUME NEW k \in D
        PROVE  /\ SortedIndex(events, k) \in D
               /\ Cardinality(Below(D, EarlierPairs(events), SortedIndex(events, k))) = k - 1
    <2>1. \E x \in D : Cardinality(Below(D, EarlierPairs(events), x)) = k - 1
      BY <1>1 DEF Ranked
    <2>2. \E x \in D : Cardinality({y \in D : Earlier(events, y, x)}) = k - 1
      BY <1>3, <2>1, Zenon
    <2>3. SortedIndex(events, k) \in D
          /\ Cardinality({y \in D : Earlier(events, y, SortedIndex(events, k))}) = k - 1
      BY <2>2, Zenon DEF SortedIndex
    <2>4. QED
      BY <1>3, <2>3
  <1> HIDE DEF order
  <1>7. QED
    BY <1>4, <1>5, <1>6

(* Sorting makes no events up.                                                *)
LEMMA SortedMembers ==
  ASSUME NEW events, Sortable(events)
  PROVE  LET sorted == sortTransactionJournalEvents(events)
         IN /\ DOMAIN sorted = 1..Len(events)
            /\ \A k \in 1..Len(events) : \E i \in 1..Len(events) : sorted[k] = events[i]
  BY SortedByIndex

(* In a numbering, as many come before a number as it says.                   *)
LEMMA RankOfNumber ==
  ASSUME NEW n \in Nat, NEW number \in Bijection(1..n, 1..n), NEW i \in 1..n
  PROVE  Cardinality({y \in 1..n : number[y] < number[i]}) = number[i] - 1
  <1> DEFINE m == number[i]
             before == {y \in 1..n : number[y] < m}
             part == [y \in before |-> number[y]]
  <1>1. /\ number \in [1..n -> 1..n] /\ m \in 1..n
        /\ \A y, z \in 1..n : number[y] = number[z] => y = z
        /\ \A k \in 1..n : \E y \in 1..n : number[y] = k
    BY DEF Bijection, Injection, Surjection, IsInjective
  <1> HIDE DEF m
  <1>2. part \in Bijection(before, 1..(m - 1))
    <2>1. part \in [before -> 1..(m - 1)]
      <3>1. ASSUME NEW y \in before
            PROVE  number[y] \in 1..(m - 1)
        <4>1. number[y] \in 1..n /\ number[y] < m
          BY <1>1
        <4>2. QED
          BY <1>1, <4>1
      <3> HIDE DEF before
      <3>2. QED
        BY <3>1
    <2>2. \A y, z \in before : part[y] = part[z] => y = z
      BY <1>1
    <2>3. ASSUME NEW k \in 1..(m - 1)
          PROVE  \E y \in before : part[y] = k
      <3>1. k \in 1..n /\ k < m
        BY <1>1
      <3>2. PICK y \in 1..n : number[y] = k
        BY <1>1, <3>1
      <3>3. y \in before
        BY <3>1, <3>2
      <3> HIDE DEF before
      <3>4. QED
        BY <3>2, <3>3
    <2> HIDE DEF part, before
    <2>4. QED
      BY <2>1, <2>2, <2>3 DEF Bijection, Injection, Surjection, IsInjective
  <1>3. IsFiniteSet(1..(m - 1)) /\ Cardinality(1..(m - 1)) = m - 1
    <2>1. m - 1 \in Nat
      BY <1>1
    <2>2. QED
      BY <2>1, FirstNumbers
  <1>4. ExistsBijection(1..(m - 1), before)
    <2>1. ExistsBijection(before, 1..(m - 1))
      BY <1>2 DEF ExistsBijection
    <2> HIDE DEF before
    <2>2. QED
      BY <2>1, Fun_ExistsBijSymmetric, Zenon
  <1> HIDE DEF before
  <1>5. Cardinality(before) = m - 1
    BY <1>3, <1>4, FS_Bijection
  <1>6. QED
    BY <1>5 DEF before, m

(* Events numbered from one are sorted to the places of their numbers.        *)
LEMMA SortedByNumber ==
  ASSUME NEW events, Numbered(events)
  PROVE  \A k \in 1..Len(events) : sortTransactionJournalEvents(events)[k].sequence = k
  <1> DEFINE D == 1..Len(events)
             number == [y \in D |-> events[y].sequence]
             below(i) == Below(D, EarlierPairs(events), i)
  <1>1. Sortable(events) /\ Len(events) \in Nat
    BY SequenceDomain DEF Numbered, Sortable
  <1>2. number \in Bijection(D, D)
    BY DEF Numbered, Bijection, Injection, Surjection, IsInjective
  <1>3. ASSUME NEW i \in D
        PROVE  below(i) = {y \in D : number[y] < number[i]}
    <2>1. ASSUME NEW y \in D
          PROVE  <<y, i>> \in EarlierPairs(events) <=> number[y] < number[i]
      <3>1. number[y] = number[i] => y = i
        BY <1>3 DEF Numbered
      <3>2. Earlier(events, y, i) <=> number[y] < number[i]
        BY <1>1, <1>3, <3>1 DEF Earlier, Sortable
      <3>3. <<y, i>> \in EarlierPairs(events) <=> Earlier(events, y, i)
        BY <1>3 DEF EarlierPairs
      <3>4. QED
        BY <3>2, <3>3
    <2>2. QED
      BY <2>1 DEF Below
  <1>4. ASSUME NEW i \in D
        PROVE  Cardinality(below(i)) = number[i] - 1
    <2> HIDE DEF number, below
    <2>1. QED
      BY <1>1, <1>2, <1>3, RankOfNumber
  <1>5. ASSUME NEW k \in D
        PROVE  sortTransactionJournalEvents(events)[k].sequence = k
    <2> DEFINE i == SortedIndex(events, k)
    <2>1. /\ i \in D /\ Cardinality(below(i)) = k - 1
          /\ sortTransactionJournalEvents(events)[k] = events[i]
      BY <1>1, SortedByIndex
    <2> HIDE DEF i, below
    <2>2. events[i].sequence \in Int
      BY <1>1, <2>1 DEF Sortable
    <2>3. events[i].sequence - 1 = k - 1
      BY <1>4, <2>1
    <2>4. QED
      BY <1>1, <2>1, <2>2, <2>3
  <1>6. QED
    BY <1>5

(* Events in the order of their numbers, and one that continues those before. *)
InOrder(s) == IsSequence(s) /\ \A i \in 1..Len(s) : s[i].sequence = i

Continues(s, i) ==
  /\ CanTransition(s[i].from, s[i].to)
  /\ i = 1 => s[i].previous = <<>>
  /\ i > 1 => s[i].from = s[i - 1].to /\ s[i].previous = s[i - 1].digest

(* The events of s, each once, in any order.                                  *)
Shuffled(events, s) ==
  /\ Numbered(events) /\ Len(events) = Len(s)
  /\ \A i \in 1..Len(events) : \E j \in 1..Len(s) : events[i] = s[j]

(* As it was written, it is one of those orders.                              *)
LEMMA OrderedIsNumbered ==
  ASSUME NEW s, InOrder(s)
  PROVE  Shuffled(s, s)
  BY DEF InOrder, Shuffled, Numbered

(* Whatever order the events of a journal are read in, it is valid when each  *)
(* of them continues the one before it.                                       *)
LEMMA ValidWhenContinuous ==
  ASSUME NEW s, InOrder(s), NEW events, Shuffled(events, s)
  PROVE  validateTransactionJournal(events) <=> \A i \in 1..Len(s) : Continues(s, i)
  <1> DEFINE n == Len(s)
             sorted == sortTransactionJournalEvents(events)
  <1>1. Sortable(events) /\ Len(events) = n /\ n \in Nat
    <2>1. IsSequence(events) /\ IsSequence(s) /\ Len(events) = n
      BY DEF Shuffled, Numbered, InOrder
    <2>2. n \in Nat
      BY <2>1, SequenceDomain
    <2>3. \A i \in 1..n : events[i].sequence \in 1..n
      BY <2>1 DEF Shuffled, Numbered
    <2> HIDE DEF n
    <2>4. QED
      BY <2>1, <2>2, <2>3 DEF Sortable
  <1>2. DOMAIN sorted = 1..n
    BY <1>1, SortedMembers
  <1>3. ASSUME NEW k \in 1..n
        PROVE  sorted[k] = s[k]
    <2>1. PICK j \in 1..n : sorted[k] = s[j]
      BY <1>1, SortedMembers DEF Shuffled
    <2>2. sorted[k].sequence = k
      BY <1>1, SortedByNumber DEF Shuffled
    <2>3. QED
      BY <2>1, <2>2 DEF InOrder
  <1>4. validateTransactionJournal(events)
          <=> \A i \in DOMAIN sorted :
                /\ sorted[i].sequence = i
                /\ CanTransition(sorted[i].from, sorted[i].to)
                /\ i = 1 => sorted[i].previous = <<>>
                /\ i > 1 => /\ sorted[i].from = sorted[i - 1].to
                            /\ sorted[i].previous = sorted[i - 1].digest
    BY Zenon DEF validateTransactionJournal
  <1> HIDE DEF sorted, n
  <1>5. ASSUME NEW i \in 1..n
        PROVE  Continues(s, i) <=>
                 /\ sorted[i].sequence = i
                 /\ CanTransition(sorted[i].from, sorted[i].to)
                 /\ i = 1 => sorted[i].previous = <<>>
                 /\ i > 1 => /\ sorted[i].from = sorted[i - 1].to
                             /\ sorted[i].previous = sorted[i - 1].digest
    <2>1. sorted[i] = s[i] /\ s[i].sequence = i
      BY <1>3 DEF InOrder, n
    <2>2. i > 1 => sorted[i - 1] = s[i - 1]
      BY <1>1, <1>3
    <2>3. QED
      BY <2>1, <2>2 DEF Continues
  <1>6. QED
    BY <1>2, <1>4, <1>5 DEF n

(* A valid journal holds an event of each number up to its length.            *)
HoldsEach(events) ==
  \A k \in 1..Len(events) : \E i \in 1..Len(events) : events[i].sequence = k

LEMMA ValidHoldsEach ==
  ASSUME NEW events, Sortable(events), validateTransactionJournal(events)
  PROVE  HoldsEach(events)
  <1> DEFINE sorted == sortTransactionJournalEvents(events)
  <1>1. /\ DOMAIN sorted = 1..Len(events)
        /\ \A k \in 1..Len(events) : \E i \in 1..Len(events) : sorted[k] = events[i]
    BY SortedMembers
  <1>2. \A i \in DOMAIN sorted : sorted[i].sequence = i
    BY Zenon DEF validateTransactionJournal
  <1> HIDE DEF sorted
  <1>3. QED
    BY <1>1, <1>2 DEF HoldsEach

(* Event i of a journal that goes to a state from where the one before ended. *)
EventAt(s, i, to) ==
  LET previous == IF i = 1 THEN <<>> ELSE s[i - 1].digest
  IN [sequence |-> i, from |-> IF i = 1 THEN "proposed" ELSE s[i - 1].to, to |-> to,
      previous |-> previous, digest |-> Append(previous, to)]

(* `JournalEvent' makes it from the events before.                            *)
LEMMA EventAfter ==
  ASSUME NEW s, IsSequence(s), NEW i \in 1..(Len(s) + 1), NEW to
  PROVE  JournalEvent(SubSeq(s, 1, i - 1), to) = EventAt(s, i, to)
  <1> DEFINE T == ToSet(s)
             earlier == SubSeq(s, 1, i - 1)
  <1>1. s \in Seq(T) /\ Len(s) \in Nat
    BY SequenceDomain DEF IsSequence
  <1> HIDE DEF T
  <1>2. /\ earlier \in Seq(T) /\ Len(earlier) = i - 1
        /\ \A k \in 1..(i - 1) : earlier[k] = s[k]
    BY <1>1
  <1> HIDE DEF earlier
  <1>3. earlier = <<>> <=> i = 1
    BY <1>1, <1>2
  <1>4. i # 1 => Last(earlier) = s[i - 1]
    BY <1>1, <1>2 DEF Last
  <1>5. (i - 1) + 1 = i
    BY <1>1
  <1>6. QED
    BY <1>2, <1>3, <1>4, <1>5 DEF JournalEvent, EventAt, earlier

(* The journal of an accepted request: each event is the one that its         *)
(* predecessors and its new state make.                                       *)
JournalInv ==
  /\ InOrder(journal)
  /\ \A i \in 1..Len(journal) :
       /\ Continues(journal, i) /\ IsSequence(journal[i].digest)
       /\ journal[i] = EventAt(journal, i, journal[i].to)

(* Every step keeps that: a new event is made from the journal so far.        *)
LEMMA JournalInvStep ==
  ASSUME JournalInv, [Next]_vars
  PROVE  JournalInv'
  <1>1. CASE UNCHANGED journal
    BY <1>1 DEF JournalInv, InOrder, Continues, EventAt
  <1>2. CASE AppendJournal
    <2> DEFINE n == Len(journal)
               from == IF journal = <<>> THEN "proposed" ELSE Last(journal).to
    <2>1. PICK to \in ContractSuccessors[from] : journal' = Append(journal, JournalEvent(journal, to))
      BY <1>2 DEF AppendJournal
    <2>2. IsSequence(journal) /\ n \in Nat
      BY SequenceDomain DEF JournalInv, InOrder
    <2>3. JournalEvent(journal, to) = EventAt(journal, n + 1, to)
      <3>1. SubSeq(journal, 1, (n + 1) - 1) = journal
        BY <2>2 DEF IsSequence
      <3>2. JournalEvent(SubSeq(journal, 1, (n + 1) - 1), to) = EventAt(journal, n + 1, to)
        BY <2>2, EventAfter
      <3>3. QED
        BY <3>1, <3>2
    <2> DEFINE event == EventAt(journal, n + 1, to)
    <2>4. /\ IsSequence(journal') /\ Len(journal') = n + 1
          /\ \A i \in 1..n : journal'[i] = journal[i]
          /\ journal'[n + 1] = event
      BY <2>1, <2>2, <2>3, AppendSequence
    <2>5. from = event.from /\ event.to = to
      BY <2>2 DEF EventAt, Last
    <2> HIDE DEF event, from
    <2>6. ASSUME NEW i \in 1..n
          PROVE  /\ journal'[i].sequence = i
                 /\ Continues(journal', i) /\ IsSequence(journal'[i].digest)
                 /\ journal'[i] = EventAt(journal', i, journal'[i].to)
      <3>1. /\ journal[i].sequence = i /\ Continues(journal, i) /\ IsSequence(journal[i].digest)
            /\ journal[i] = EventAt(journal, i, journal[i].to)
        BY DEF JournalInv, InOrder
      <3>2. journal'[i] = journal[i] /\ (i > 1 => journal'[i - 1] = journal[i - 1])
        BY <2>2, <2>4
      <3>3. Continues(journal', i)
        BY <3>1, <3>2 DEF Continues
      <3>4. EventAt(journal', i, journal'[i].to) = EventAt(journal, i, journal[i].to)
        <4>1. i = 1 \/ i > 1
          BY <2>2
        <4>2. QED
          BY <3>2, <4>1 DEF EventAt
      <3>5. QED
        BY <3>1, <3>2, <3>3, <3>4
    <2>7. /\ event.sequence = n + 1 /\ Continues(journal', n + 1) /\ IsSequence(event.digest)
          /\ event = EventAt(journal', n + 1, event.to)
      <3>1. n + 1 > 1 => journal'[n] = journal[n] /\ IsSequence(journal[n].digest)
        BY <2>2, <2>4 DEF JournalInv
      <3>2. (n + 1) - 1 = n /\ (n + 1 = 1 <=> ~(n + 1 > 1))
        BY <2>2
      <3>3. IsSequence(<<>>)
        BY DEF IsSequence
      <3>4. IsSequence(event.previous) /\ event.digest = Append(event.previous, to)
        BY <3>1, <3>2, <3>3 DEF EventAt, event
      <3>5. IsSequence(event.digest)
        BY <3>4, AppendSequence
      <3>6. event = EventAt(journal', n + 1, event.to)
        BY <3>1, <3>2 DEF EventAt, event
      <3>7. Continues(journal', n + 1)
        <4>1. CanTransition(event.from, event.to)
          BY <2>1, <2>5 DEF CanTransition
        <4>2. /\ n + 1 = 1 => event.previous = <<>>
              /\ n + 1 > 1 => event.from = journal[n].to /\ event.previous = journal[n].digest
          BY <3>2 DEF EventAt, event
        <4>3. QED
          BY <2>4, <3>1, <3>2, <4>1, <4>2 DEF Continues
      <3>8. QED
        BY <3>5, <3>6, <3>7 DEF EventAt, event
    <2>8. \A i \in 1..(n + 1) : i \in 1..n \/ i = n + 1
      BY <2>2
    <2>9. QED
      BY <2>4, <2>6, <2>7, <2>8 DEF JournalInv, InOrder
  <1>3. QED
    BY <1>1, <1>2 DEF Next, vars, reviewVars, Confirm, Amend, Submit, Cancel, Tick

(* What is left of a sequence without its element i.                          *)
LEMMA RemovedSequence ==
  ASSUME NEW s, IsSequence(s), NEW i \in 1..Len(s)
  PROVE  /\ IsSequence(RemoveAt(s, i)) /\ Len(RemoveAt(s, i)) = Len(s) - 1
         /\ \A k \in 1..(Len(s) - 1) : RemoveAt(s, i)[k] = IF k < i THEN s[k] ELSE s[k + 1]
  <1> DEFINE T == ToSet(s)
             n == Len(s)
             front == SubSeq(s, 1, i - 1)
             back == SubSeq(s, i + 1, n)
  <1>1. s \in Seq(T) /\ n \in Nat
    BY SequenceDomain DEF IsSequence
  <1> HIDE DEF T
  <1>2. /\ front \in Seq(T) /\ Len(front) = i - 1
        /\ \A k \in 1..(i - 1) : front[k] = s[k]
    BY <1>1
  <1>3. /\ back \in Seq(T) /\ Len(back) = n - i
        /\ \A k \in 1..(n - i) : back[k] = s[i + k]
    BY <1>1
  <1>4. RemoveAt(s, i) = front \o back
    BY DEF RemoveAt
  <1> HIDE DEF front, back
  <1>5. front \o back \in Seq(T) /\ Len(front \o back) = n - 1
    <2>1. front \in Seq(T) /\ back \in Seq(T)
      BY <1>2, <1>3
    <2>2. front \o back \in Seq(T) /\ Len(front \o back) = Len(front) + Len(back)
      BY <2>1, ConcatProperties
    <2>3. (i - 1) + (n - i) = n - 1
      BY <1>1
    <2>4. QED
      BY <1>2, <1>3, <2>2, <2>3
  <1>6. ASSUME NEW k \in 1..(n - 1)
        PROVE  (front \o back)[k] = IF k < i THEN s[k] ELSE s[k + 1]
    <2>1. CASE k < i
      BY <1>1, <1>2, <1>3, <2>1
    <2>2. CASE ~(k < i)
      <3>1. k - (i - 1) \in 1..(n - i) /\ i + (k - (i - 1)) = k + 1
        BY <1>1, <2>2
      <3>2. (front \o back)[k] = back[k - (i - 1)]
        BY <1>1, <1>2, <1>3, <2>2
      <3>3. QED
        BY <1>3, <2>2, <3>1, <3>2
    <2>3. QED
      BY <2>1, <2>2
  <1>7. IsSequence(front \o back)
    BY <1>5, IsSequenceOf, Zenon
  <1>8. QED
    BY <1>4, <1>5, <1>6, <1>7

(* Without an event that another follows a journal is not valid.              *)
LEMMA NoneMissing ==
  ASSUME JournalInv, NEW i \in DOMAIN journal, i < Len(journal)
  PROVE  ~validateTransactionJournal(RemoveAt(journal, i))
  <1> DEFINE n == Len(journal)
             rest == RemoveAt(journal, i)
  <1>1. /\ IsSequence(journal) /\ n \in Nat /\ i \in 1..n /\ i < n
        /\ \A k \in 1..n : journal[k].sequence = k
    BY SequenceDomain DEF JournalInv, InOrder
  <1>2. /\ IsSequence(rest) /\ Len(rest) = n - 1
        /\ \A k \in 1..(n - 1) : rest[k] = IF k < i THEN journal[k] ELSE journal[k + 1]
    BY <1>1, RemovedSequence
  <1> HIDE DEF rest, n
  <1>3. ASSUME NEW k \in 1..(n - 1)
        PROVE  rest[k].sequence = IF k < i THEN k ELSE k + 1
    <2>1. k \in 1..n /\ k + 1 \in 1..n
      BY <1>1
    <2>2. QED
      BY <1>1, <1>2, <2>1
  <1>4. i \in 1..(n - 1) /\ \A k \in 1..(n - 1) : rest[k].sequence # i
    BY <1>1, <1>3
  <1>5. Sortable(rest)
    <2>1. \A k \in 1..(n - 1) : rest[k].sequence \in Int
      BY <1>1, <1>3
    <2>2. QED
      BY <1>2, <2>1 DEF Sortable
  <1>6. ~validateTransactionJournal(rest)
    <2>1. ~HoldsEach(rest)
      BY <1>2, <1>4 DEF HoldsEach
    <2>2. QED
      BY <1>5, <2>1, ValidHoldsEach
  <1>7. QED
    BY <1>6 DEF rest

(* A journal with an event twice is not valid.                                *)
LEMMA NoneTwice ==
  ASSUME JournalInv, NEW i \in DOMAIN journal
  PROVE  ~validateTransactionJournal(Append(journal, journal[i]))
  <1> DEFINE n == Len(journal)
             more == Append(journal, journal[i])
  <1>1. IsSequence(journal) /\ n \in Nat /\ i \in 1..n /\ \A k \in 1..n : journal[k].sequence = k
    BY SequenceDomain DEF JournalInv, InOrder
  <1>2. /\ IsSequence(more) /\ Len(more) = n + 1
        /\ \A k \in 1..n : more[k] = journal[k]
        /\ more[n + 1] = journal[i]
    BY <1>1, AppendSequence
  <1> HIDE DEF more, n
  <1>3. \A k \in 1..(n + 1) : more[k].sequence \in 1..n
    <2>1. \A k \in 1..(n + 1) : k \in 1..n \/ k = n + 1
      BY <1>1
    <2>2. QED
      BY <1>1, <1>2, <2>1
  <1>4. n + 1 \in 1..(n + 1) /\ n + 1 \notin 1..n
    BY <1>1
  <1>5. Sortable(more)
    <2>1. \A k \in 1..(n + 1) : more[k].sequence \in Int
      BY <1>1, <1>3
    <2>2. QED
      BY <1>2, <2>1 DEF Sortable
  <1>6. ~validateTransactionJournal(more)
    <2>1. ~HoldsEach(more)
      BY <1>2, <1>3, <1>4 DEF HoldsEach
    <2>2. QED
      BY <1>5, <2>1, ValidHoldsEach
  <1>7. QED
    BY <1>6 DEF more

(* An event that gives the next one another state or digest breaks the        *)
(* journal, whatever else it says.                                            *)
LEMMA NoneReplaced ==
  ASSUME JournalInv, NEW i \in DOMAIN journal, i < Len(journal), NEW other,
         other.sequence = i, other.digest # journal[i].digest \/ other.to # journal[i].to
  PROVE  ~validateTransactionJournal(ReplaceAt(journal, i, other))
  <1> DEFINE n == Len(journal)
             forged == ReplaceAt(journal, i, other)
  <1>1. /\ IsSequence(journal) /\ n \in Nat /\ i \in 1..n /\ i < n
        /\ \A k \in 1..n : journal[k].sequence = k
        /\ DOMAIN journal = 1..n
    BY SequenceDomain DEF JournalInv, InOrder
  <1>2. forged = [k \in 1..n |-> forged[k]]
        /\ \A k \in 1..n : forged[k] = IF k = i THEN other ELSE journal[k]
    <2>1. forged = [journal EXCEPT ![i] = other] /\ journal = [k \in 1..n |-> journal[k]]
      <3>1. forged = [journal EXCEPT ![i] = other]
        BY DEF ReplaceAt
      <3>2. journal \in [1..n -> ToSet(journal)]
        BY <1>1 DEF IsSequence
      <3> HIDE DEF forged, n
      <3>3. QED
        BY <3>1, <3>2
    <2> HIDE DEF forged, n
    <2>2. QED
      BY <1>1, <2>1
  <1> HIDE DEF forged, n
  <1>3. IsSequence(forged) /\ Len(forged) = n
    BY <1>1, <1>2, FunctionSequence
  <1>4. InOrder(forged)
    BY <1>1, <1>2, <1>3 DEF InOrder
  <1>5. i + 1 \in 1..n /\ i + 1 > 1 /\ (i + 1) - 1 = i /\ i + 1 # i
    BY <1>1
  <1>6. journal[i + 1].previous = journal[i].digest /\ journal[i + 1].from = journal[i].to
    BY <1>5 DEF JournalInv, Continues, n
  <1>7. forged[i + 1] = journal[i + 1] /\ forged[i] = other
    BY <1>1, <1>2, <1>5
  <1>8. ~Continues(forged, i + 1)
    BY <1>5, <1>6, <1>7 DEF Continues
  <1>9. ~validateTransactionJournal(forged)
    BY <1>3, <1>4, <1>5, <1>8, OrderedIsNumbered, ValidWhenContinuous
  <1>10. QED
    BY <1>9 DEF forged

(* A digest tells what was added to it.                                       *)
LEMMA AppendTells ==
  ASSUME NEW s, IsSequence(s), NEW x
  PROVE  Append(s, x) # s
  <1>1. Len(Append(s, x)) = Len(s) + 1
    BY AppendSequence
  <1>2. Len(s) \in Nat
    BY SequenceDomain
  <1>3. QED
    BY <1>1, <1>2

(* An altered event gives the next one another state or digest.               *)
LEMMA AlterationTells ==
  ASSUME JournalInv, NEW i \in DOMAIN journal, NEW other \in Altered(i)
  PROVE  other.sequence = i /\ (other.digest # journal[i].digest \/ other.to # journal[i].to)
  <1>1. IsSequence(journal) /\ Len(journal) \in Nat /\ i \in 1..Len(journal)
    BY SequenceDomain DEF JournalInv, InOrder
  <1>2. IsSequence(journal[i].digest) /\ journal[i] = EventAt(journal, i, journal[i].to)
    BY <1>1 DEF JournalInv
  <1> DEFINE Event(to) == EventAt(journal, i, to)
  <1>3. \A to : /\ Event(to).sequence = i /\ Event(to).to = to
                /\ {"digest", "sequence", "to"} \subseteq DOMAIN Event(to)
    BY DEF EventAt
  <1>4. journal[i] = Event(journal[i].to)
    BY <1>2
  <1> HIDE DEF Event
  <1>5. CASE other = [journal[i] EXCEPT !.digest = Append(@, "altered")]
    <2>1. other.sequence = i /\ other.digest = Append(journal[i].digest, "altered")
      BY <1>3, <1>4, <1>5
    <2>2. QED
      BY <1>2, <2>1, AppendTells
  <1>6. ASSUME NEW to, to # journal[i].to, other = [journal[i] EXCEPT !.to = to]
        PROVE  other.sequence = i /\ other.to # journal[i].to
    BY <1>3, <1>4, <1>6
  <1>7. ASSUME NEW to, to # journal[i].to, other = JournalEvent(SubSeq(journal, 1, i - 1), to)
        PROVE  other.sequence = i /\ other.to # journal[i].to
    <2>1. JournalEvent(SubSeq(journal, 1, i - 1), to) = Event(to)
      <3>1. i \in 1..(Len(journal) + 1)
        BY <1>1
      <3>2. QED
        BY <1>1, <3>1, EventAfter DEF Event
    <2>2. QED
      BY <1>3, <1>7, <2>1
  <1>8. QED
    BY <1>5, <1>6, <1>7 DEF Altered

(* Each event of a journal continues the one before it, by its number, its    *)
(* state and its digest.                                                      *)
THEOREM JournalInvariant == Spec => []JournalInv
  <1>1. ReviewInit => JournalInv
    <2>1. IsSequence(<<>>) /\ Len(<<>>) = 0
      BY DEF IsSequence
    <2>2. QED
      BY <2>1 DEF ReviewInit, JournalInv, InOrder
  <1>2. JournalInv /\ [Next]_vars => JournalInv'
    BY JournalInvStep
  <1>3. QED
    BY <1>1, <1>2, PTL DEF Spec

(* A journal of any length is accepted as it was written; with an event       *)
(* twice, or without one or with an altered one where another follows, it is  *)
(* not (validateTransactionJournal, sortTransactionJournalEvents).            *)
THEOREM JournalIsEvident == Spec => []JournalEvident
  <1>1. JournalInv => JournalEvident
    <2> SUFFICES ASSUME JournalInv PROVE JournalEvident
      OBVIOUS
    <2>1. InOrder(journal) /\ \A i \in 1..Len(journal) : Continues(journal, i)
      BY DEF JournalInv
    <2>2. validateTransactionJournal(journal)
      BY <2>1, OrderedIsNumbered, ValidWhenContinuous
    <2>3. ASSUME NEW i \in DOMAIN journal
          PROVE  ~validateTransactionJournal(Append(journal, journal[i]))
      BY NoneTwice
    <2>4. ASSUME NEW i \in DOMAIN journal, i < Len(journal)
          PROVE  /\ ~validateTransactionJournal(RemoveAt(journal, i))
                 /\ \A other \in Altered(i) :
                       ~validateTransactionJournal(ReplaceAt(journal, i, other))
      BY <2>4, NoneMissing, AlterationTells, NoneReplaced
    <2>5. QED
      BY <2>2, <2>3, <2>4, Zenon DEF JournalEvident
  <1>2. QED
    BY <1>1, JournalInvariant, PTL

--------------------------------------------------------------------------------
(* Matches.                                                                   *)

(* An identity made of names in use.                                          *)
Named(id) == id[1] \in ToSet(Names) /\ id[2] \in ToSet(Names) /\ id[3] \in ToSet(Names)

SameNames(left, right) == left[1] = right[1] /\ left[2] = right[2] /\ left[3] = right[3]

(* A name has one rank.                                                       *)
LEMMA NamesRanked ==
  ASSUME NEW x \in ToSet(Names), NEW y \in ToSet(Names)
  PROVE  /\ Rank(x) \in Nat /\ (Rank(x) = Rank(y) => x = y)
  <1>1. DOMAIN Names \in SUBSET Nat
    BY NamesAssumption
  <1>2. ASSUME NEW z \in ToSet(Names)
        PROVE  Rank(z) \in Nat /\ Names[Rank(z)] = z
    <2>1. \E i \in DOMAIN Names : Names[i] = z
      BY DEF ToSet
    <2>2. Rank(z) \in DOMAIN Names /\ Names[Rank(z)] = z
      BY <2>1, Zenon DEF Rank
    <2>3. QED
      BY <1>1, <2>2
  <1>3. QED
    BY <1>2

LEMMA BeforeCases ==
  ASSUME NEW left, NEW right
  PROVE  Before(left, right) <=>
           \/ Rank(left[1]) < Rank(right[1])
           \/ left[1] = right[1] /\ Rank(left[2]) < Rank(right[2])
           \/ left[1] = right[1] /\ left[2] = right[2] /\ Rank(left[3]) < Rank(right[3])
  <1>1. 1..3 = {1, 2, 3} /\ 1..(1 - 1) = {} /\ 1..(2 - 1) = {1} /\ 1..(3 - 1) = {1, 2}
    OBVIOUS
  <1>2. QED
    BY <1>1, Zenon DEF Before

(* Identities are strictly ordered.                                           *)
LEMMA BeforeOrders ==
  ASSUME NEW a, NEW b, NEW c, Named(a), Named(b), Named(c)
  PROVE  /\ ~Before(a, a)
         /\ SameNames(a, b) \/ Before(a, b) \/ Before(b, a)
         /\ Before(a, b) /\ Before(b, c) => Before(a, c)
  <1>1. /\ Rank(a[1]) \in Nat /\ Rank(a[2]) \in Nat /\ Rank(a[3]) \in Nat
        /\ Rank(b[1]) \in Nat /\ Rank(b[2]) \in Nat /\ Rank(b[3]) \in Nat
        /\ Rank(c[1]) \in Nat /\ Rank(c[2]) \in Nat /\ Rank(c[3]) \in Nat
    BY NamesRanked DEF Named
  <1>2. /\ Rank(a[1]) = Rank(b[1]) => a[1] = b[1]
        /\ Rank(a[2]) = Rank(b[2]) => a[2] = b[2]
        /\ Rank(a[3]) = Rank(b[3]) => a[3] = b[3]
    BY NamesRanked DEF Named
  <1>3. ~Before(a, a)
    BY <1>1, BeforeCases
  <1>4. SameNames(a, b) \/ Before(a, b) \/ Before(b, a)
    BY <1>1, <1>2, BeforeCases DEF SameNames
  <1>5. Before(a, b) /\ Before(b, c) => Before(a, c)
    BY <1>1, BeforeCases
  <1>6. QED
    BY <1>3, <1>4, <1>5

(* Four numbers, compared one after the other.                                *)
Numbers4(s) == s[1] \in Int /\ s[2] \in Int /\ s[3] \in Int /\ s[4] \in Int

Lower(s, t) == \E i \in 1..4 : s[i] < t[i] /\ \A j \in 1..(i - 1) : s[j] = t[j]

LEMMA LowerCases ==
  ASSUME NEW s, NEW t
  PROVE  Lower(s, t) <=>
           \/ s[1] < t[1]
           \/ s[1] = t[1] /\ s[2] < t[2]
           \/ s[1] = t[1] /\ s[2] = t[2] /\ s[3] < t[3]
           \/ s[1] = t[1] /\ s[2] = t[2] /\ s[3] = t[3] /\ s[4] < t[4]
  <1>1. /\ 1..4 = {1, 2, 3, 4} /\ 1..(1 - 1) = {} /\ 1..(2 - 1) = {1} /\ 1..(3 - 1) = {1, 2}
        /\ 1..(4 - 1) = {1, 2, 3}
    OBVIOUS
  <1>2. QED
    BY <1>1, Zenon DEF Lower

LEMMA LowerOrders ==
  ASSUME NEW s, NEW t, NEW u, Numbers4(s), Numbers4(t), Numbers4(u)
  PROVE  /\ ~Lower(s, s)
         /\ \/ Lower(s, t) \/ Lower(t, s)
            \/ s[1] = t[1] /\ s[2] = t[2] /\ s[3] = t[3] /\ s[4] = t[4]
         /\ Lower(s, t) /\ Lower(t, u) => Lower(s, u)
  <1>1. ~Lower(s, s)
    BY LowerCases DEF Numbers4
  <1>2. \/ Lower(s, t) \/ Lower(t, s)
        \/ s[1] = t[1] /\ s[2] = t[2] /\ s[3] = t[3] /\ s[4] = t[4]
    BY LowerCases DEF Numbers4
  <1>3. Lower(s, t) /\ Lower(t, u) => Lower(s, u)
    BY LowerCases DEF Numbers4
  <1>4. QED
    BY <1>1, <1>2, <1>3

(* What `sortAndDedupeMatches' compares: the place of the requirement among   *)
(* `ids', the compatibility, the confidence, the place of the provider, and   *)
(* the identity of the candidate.                                             *)
Place(seq, x) ==
  IF \E i \in DOMAIN seq : seq[i] = x THEN CHOOSE i \in DOMAIN seq : seq[i] = x ELSE Len(seq) + 1

OrderOf(m, ids, allowed) ==
  <<Place(ids, m.requirementId),
    Place(<<"compatible", "incomplete", "incompatible">>, m.compatibility),
    100 - m.confidence, Place(allowed, m.candidate.source)>>

IdOf(m) == resourceCandidateIdentity(m.candidate)

Better(m, n, ids, allowed) ==
  \/ Lower(OrderOf(m, ids, allowed), OrderOf(n, ids, allowed))
  \/ OrderOf(m, ids, allowed) = OrderOf(n, ids, allowed) /\ Before(IdOf(m), IdOf(n))

SameMatch(m, n) == m.requirementId = n.requirementId /\ IdOf(m) = IdOf(n)

KeptAt(matches, i, ids, allowed) ==
  ~\E j \in DOMAIN matches :
     /\ SameMatch(matches[i], matches[j])
     /\ \/ Better(matches[j], matches[i], ids, allowed)
        \/ OrderOf(matches[i], ids, allowed) = OrderOf(matches[j], ids, allowed) /\ j < i

KeptMatches(matches, ids, allowed) ==
  {matches[i] : i \in {k \in DOMAIN matches : KeptAt(matches, k, ids, allowed)}}

Merged(matches, ids, allowed) ==
  LET S == KeptMatches(matches, ids, allowed)
  IN [k \in 1..Cardinality(S) |->
        CHOOSE x \in S : Cardinality({y \in S : Better(y, x, ids, allowed)}) = k - 1]

LEMMA SortUnfolded ==
  ASSUME NEW matches, NEW requirements, NEW allowed
  PROVE  sortAndDedupeMatches(matches, requirements, allowed)
           = Merged(matches, [i \in DOMAIN requirements |-> requirements[i].requirementId], allowed)
  BY Zenon DEF sortAndDedupeMatches, Ordered, Merged, KeptMatches, KeptAt, SameMatch, Better, Lower,
               IdOf, OrderOf, Place

(* A match of a requirement that was asked for.                               *)
MatchOf(m, ids) ==
  /\ \E k \in DOMAIN ids : ids[k] = m.requirementId
  /\ m.confidence \in Int /\ Named(IdOf(m))

LEMMA PlacesAreNumbers ==
  ASSUME NEW seq, IsSequence(seq), NEW x
  PROVE  /\ Place(seq, x) \in Int
         /\ (\E k \in DOMAIN seq : seq[k] = x) => seq[Place(seq, x)] = x
  <1>1. Len(seq) \in Nat /\ DOMAIN seq = 1..Len(seq)
    BY SequenceDomain
  <1>2. CASE \E k \in DOMAIN seq : seq[k] = x
    <2>1. Place(seq, x) \in DOMAIN seq /\ seq[Place(seq, x)] = x
      BY <1>2, Zenon DEF Place
    <2>2. QED
      BY <1>1, <2>1
  <1>3. CASE ~\E k \in DOMAIN seq : seq[k] = x
    BY <1>1, <1>3 DEF Place
  <1>4. QED
    BY <1>2, <1>3

(* Matches are strictly ordered but for those that are the same.              *)
LEMMA BetterOrders ==
  ASSUME NEW ids, NEW allowed, IsSequence(ids), IsSequence(allowed),
         NEW m, NEW n, NEW p, MatchOf(m, ids), MatchOf(n, ids), MatchOf(p, ids)
  PROVE  /\ ~Better(m, m, ids, allowed)
         /\ \/ Better(m, n, ids, allowed) \/ Better(n, m, ids, allowed)
            \/ SameMatch(m, n) /\ OrderOf(m, ids, allowed) = OrderOf(n, ids, allowed)
         /\ Better(m, n, ids, allowed) /\ Better(n, p, ids, allowed) => Better(m, p, ids, allowed)
  <1> DEFINE Order(x) == OrderOf(x, ids, allowed)
  <1>1. ASSUME NEW x, MatchOf(x, ids)
        PROVE  Numbers4(Order(x)) /\ Order(x)[1] = Place(ids, x.requirementId)
               /\ ids[Place(ids, x.requirementId)] = x.requirementId
    <2>1. IsSequence(<<"compatible", "incomplete", "incompatible">>)
      BY DEF IsSequence, ToSet
    <2>2. /\ Place(ids, x.requirementId) \in Int
          /\ ids[Place(ids, x.requirementId)] = x.requirementId
      BY <1>1, PlacesAreNumbers DEF MatchOf
    <2>3. Place(<<"compatible", "incomplete", "incompatible">>, x.compatibility) \in Int
      BY <2>1, PlacesAreNumbers
    <2>4. Place(allowed, x.candidate.source) \in Int
      BY PlacesAreNumbers
    <2>5. 100 - x.confidence \in Int
      BY <1>1 DEF MatchOf
    <2>6. QED
      BY <2>2, <2>3, <2>4, <2>5 DEF Numbers4, OrderOf
  <1>2. ASSUME NEW x, NEW y
        PROVE  /\ (/\ Order(x)[1] = Order(y)[1] /\ Order(x)[2] = Order(y)[2]
                   /\ Order(x)[3] = Order(y)[3] /\ Order(x)[4] = Order(y)[4]) => Order(x) = Order(y)
               /\ SameNames(IdOf(x), IdOf(y)) => IdOf(x) = IdOf(y)
    BY DEF OrderOf, IdOf, resourceCandidateIdentity, SameNames
  <1>3. /\ Numbers4(Order(m)) /\ Numbers4(Order(n)) /\ Numbers4(Order(p))
        /\ Named(IdOf(m)) /\ Named(IdOf(n)) /\ Named(IdOf(p))
    BY <1>1 DEF MatchOf
  <1>4. Order(m) = Order(n) => m.requirementId = n.requirementId
    BY <1>1
  <1> HIDE DEF Order
  <1>5. ~Better(m, m, ids, allowed)
    BY <1>3, LowerOrders, BeforeOrders DEF Better, Order
  <1>6. \/ Better(m, n, ids, allowed) \/ Better(n, m, ids, allowed)
        \/ SameMatch(m, n) /\ Order(m) = Order(n)
    <2>1. Lower(Order(m), Order(n)) \/ Lower(Order(n), Order(m)) \/ Order(m) = Order(n)
      BY <1>2, <1>3, LowerOrders
    <2>2. Before(IdOf(m), IdOf(n)) \/ Before(IdOf(n), IdOf(m)) \/ IdOf(m) = IdOf(n)
      BY <1>2, <1>3, BeforeOrders
    <2>3. QED
      BY <1>4, <2>1, <2>2 DEF Better, SameMatch, Order
  <1>7. ASSUME Better(m, n, ids, allowed), Better(n, p, ids, allowed)
        PROVE  Better(m, p, ids, allowed)
    <2>1. /\ Lower(Order(m), Order(n)) /\ Lower(Order(n), Order(p)) => Lower(Order(m), Order(p))
          /\ Before(IdOf(m), IdOf(n)) /\ Before(IdOf(n), IdOf(p)) => Before(IdOf(m), IdOf(p))
      BY <1>3, LowerOrders, BeforeOrders
    <2>2. QED
      BY <1>7, <2>1 DEF Better, Order
  <1>8. QED
    BY <1>5, <1>6, <1>7 DEF Order

(* The members of a set in their order, of which none is lost.                *)
InOrderOf(S, R) ==
  [k \in 1..Cardinality(S) |-> CHOOSE x \in S : Cardinality(Below(S, R, x)) = k - 1]

LEMMA OrderedMembers ==
  ASSUME NEW S, IsFiniteSet(S), NEW R, Ranked(S, R)
  PROVE  IsSequence(InOrderOf(S, R)) /\ ToSet(InOrderOf(S, R)) = S
  <1> DEFINE n == Cardinality(S)
             s == InOrderOf(S, R)
  <1>0. s = [k \in 1..n |-> CHOOSE x \in S : Cardinality(Below(S, R, x)) = k - 1]
    BY DEF InOrderOf
  <1> HIDE DEF s
  <1>1. n \in Nat
    BY FS_CardinalityType
  <1>2. ASSUME NEW k \in 1..n
        PROVE  s[k] \in S /\ Cardinality(Below(S, R, s[k])) = k - 1
    <2>1. \E x \in S : Cardinality(Below(S, R, x)) = k - 1
      BY DEF Ranked
    <2>2. s[k] = CHOOSE x \in S : Cardinality(Below(S, R, x)) = k - 1
      BY <1>0
    <2> HIDE DEF n
    <2>3. QED
      BY <2>1, <2>2, Zenon
  <1>3. ASSUME NEW x \in S
        PROVE  \E k \in 1..n : s[k] = x
    <2>1. Cardinality(Below(S, R, x)) \in 0..(n - 1)
      BY DEF Ranked
    <2> DEFINE k == Cardinality(Below(S, R, x)) + 1
    <2> HIDE DEF n
    <2>2. k \in 1..n /\ Cardinality(Below(S, R, x)) = k - 1
      BY <1>1, <2>1
    <2>3. s[k] \in S /\ Cardinality(Below(S, R, s[k])) = Cardinality(Below(S, R, x))
      BY <1>2, <2>2
    <2>4. s[k] = x
      BY <2>3 DEF Ranked
    <2>5. QED
      BY <2>2, <2>4
  <1>4. DOMAIN s = 1..n /\ s = [k \in 1..n |-> s[k]]
    BY <1>0
  <1> HIDE DEF n
  <1>5. IsSequence(s)
    BY <1>1, <1>4, FunctionSequence
  <1>6. ToSet(s) = S
    BY <1>2, <1>3, <1>4 DEF ToSet
  <1>7. QED
    BY <1>5, <1>6 DEF s

(* Of the matches that are the same one is kept.                              *)
LEMMA OneIsKept ==
  ASSUME NEW matches, IsSequence(matches), NEW ids, IsSequence(ids), NEW allowed, IsSequence(allowed),
         \A j \in DOMAIN matches : MatchOf(matches[j], ids), NEW i \in DOMAIN matches
  PROVE  \E k \in DOMAIN matches : SameMatch(matches[i], matches[k]) /\ KeptAt(matches, k, ids, allowed)
  <1> DEFINE C == {j \in DOMAIN matches : SameMatch(matches[i], matches[j])}
             First(a, b) == \/ Better(matches[a], matches[b], ids, allowed)
                            \/ /\ OrderOf(matches[a], ids, allowed) = OrderOf(matches[b], ids, allowed)
                               /\ a < b
             R == {p \in C \X C : First(p[1], p[2])}
  <1>1. DOMAIN matches = 1..Len(matches) /\ Len(matches) \in Nat
    BY SequenceDomain
  <1>2. C \in SUBSET (DOMAIN matches) /\ C \in SUBSET Int /\ i \in C
    BY <1>1 DEF SameMatch
  <1>3. IsFiniteSet(C)
    <2>1. IsFiniteSet(DOMAIN matches)
      BY <1>1, FirstNumbers
    <2> HIDE DEF C
    <2>2. QED
      BY <1>2, <2>1, FS_Subset
  <1>4. \A a, b \in C : SameMatch(matches[a], matches[b]) /\ IdOf(matches[a]) = IdOf(matches[b])
    BY DEF SameMatch
  <1>5. \A a \in C : MatchOf(matches[a], ids)
    OBVIOUS
  <1> HIDE DEF C
  <1>6. \A a \in C : ~First(a, a)
    BY <1>2, <1>5, BetterOrders
  <1>7. ASSUME NEW a \in C, NEW b \in C, a # b
        PROVE  First(a, b) \/ First(b, a)
    <2>1. a < b \/ b < a
      BY <1>2, <1>7
    <2>2. \/ Better(matches[a], matches[b], ids, allowed)
          \/ Better(matches[b], matches[a], ids, allowed)
          \/ OrderOf(matches[a], ids, allowed) = OrderOf(matches[b], ids, allowed)
      BY <1>5, BetterOrders
    <2>3. QED
      BY <2>1, <2>2
  <1>8. ASSUME NEW a \in C, NEW b \in C, NEW c \in C, First(a, b), First(b, c)
        PROVE  First(a, c)
    <2>1. IdOf(matches[a]) = IdOf(matches[b]) /\ IdOf(matches[b]) = IdOf(matches[c])
      BY <1>4
    <2>2. CASE Better(matches[a], matches[b], ids, allowed) /\ Better(matches[b], matches[c], ids, allowed)
      BY <1>5, <2>2, BetterOrders
    <2>3. CASE OrderOf(matches[b], ids, allowed) = OrderOf(matches[c], ids, allowed) /\ b < c
      <3>1. CASE Better(matches[a], matches[b], ids, allowed)
        BY <2>1, <2>3, <3>1 DEF Better
      <3>2. CASE OrderOf(matches[a], ids, allowed) = OrderOf(matches[b], ids, allowed) /\ a < b
        <4>1. a < c
          BY <1>2, <2>3, <3>2
        <4>2. QED
          BY <2>3, <3>2, <4>1
      <3>3. QED
        BY <1>8, <3>1, <3>2
    <2>4. CASE /\ OrderOf(matches[a], ids, allowed) = OrderOf(matches[b], ids, allowed)
               /\ Better(matches[b], matches[c], ids, allowed)
      BY <2>1, <2>4 DEF Better
    <2>5. QED
      BY <1>8, <2>2, <2>3, <2>4
  <1> HIDE DEF First
  <1>9. StrictOrder(C, R)
    BY <1>6, <1>7, <1>8 DEF StrictOrder
  <1>10. \A x, y \in C : <<y, x>> \in R <=> First(y, x)
    OBVIOUS
  <1> HIDE DEF R
  <1>11. Ranked(C, R)
    BY <1>3, <1>9, RankReached
  <1>12. 1 \in 1..Cardinality(C)
    <2>1. Cardinality(C) \in Nat /\ Cardinality(C) # 0
      BY <1>2, <1>3, FS_CardinalityType, FS_EmptySet
    <2>2. QED
      BY <2>1
  <1>13. PICK k \in C : Cardinality(Below(C, R, k)) = 1 - 1
    BY <1>11, <1>12 DEF Ranked
  <1>14. Below(C, R, k) = {}
    <2>1. Below(C, R, k) \in SUBSET C
      BY DEF Below
    <2>2. IsFiniteSet(Below(C, R, k))
      BY <1>3, <2>1, FS_Subset
    <2>3. QED
      BY <1>13, <2>2, FS_EmptySet
  <1>15. \A j \in C : ~First(j, k)
    BY <1>10, <1>14 DEF Below
  <1>16. KeptAt(matches, k, ids, allowed)
    <2> SUFFICES ASSUME NEW j \in DOMAIN matches, SameMatch(matches[k], matches[j]),
                        \/ Better(matches[j], matches[k], ids, allowed)
                        \/ OrderOf(matches[k], ids, allowed) = OrderOf(matches[j], ids, allowed) /\ j < k
                 PROVE  FALSE
      BY DEF KeptAt
    <2>1. j \in C
      BY DEF C, SameMatch
    <2>2. First(j, k)
      BY DEF First
    <2>3. QED
      BY <1>15, <2>1, <2>2
  <1>17. QED
    BY <1>2, <1>16 DEF C

(* Sorting the matches loses no requirement and makes no match up.            *)
LEMMA SortedMatches ==
  ASSUME NEW matches, IsSequence(matches), NEW ids, IsSequence(ids), NEW allowed, IsSequence(allowed),
         \A j \in DOMAIN matches : MatchOf(matches[j], ids)
  PROVE  LET sorted == Merged(matches, ids, allowed)
         IN /\ IsSequence(sorted) /\ ToSet(sorted) \subseteq ToSet(matches)
            /\ \A i \in DOMAIN matches :
                 \E x \in ToSet(sorted) : x.requirementId = matches[i].requirementId
  <1> DEFINE K == {k \in DOMAIN matches : KeptAt(matches, k, ids, allowed)}
             S == KeptMatches(matches, ids, allowed)
             R == {p \in S \X S : Better(p[1], p[2], ids, allowed)}
             sorted == Merged(matches, ids, allowed)
  <1>1. DOMAIN matches = 1..Len(matches) /\ Len(matches) \in Nat
    BY SequenceDomain
  <1>2. S = {matches[i] : i \in K}
    BY DEF KeptMatches
  <1>3. IsFiniteSet(S)
    <2>1. IsFiniteSet(DOMAIN matches)
      BY <1>1, FirstNumbers
    <2>2. K \in SUBSET (DOMAIN matches)
      OBVIOUS
    <2> HIDE DEF K, S
    <2>3. IsFiniteSet(K)
      BY <2>1, <2>2, FS_Subset
    <2> DEFINE f == [i \in K |-> matches[i]]
    <2>4. f \in Surjection(K, S)
      BY <1>2 DEF Surjection
    <2> HIDE DEF f
    <2>5. QED
      BY <2>3, <2>4, FS_Surjection
  <1>4. \A x \in S : MatchOf(x, ids)
    BY <1>2
  <1>5. ASSUME NEW x \in S, NEW y \in S, x # y
        PROVE  Better(x, y, ids, allowed) \/ Better(y, x, ids, allowed)
    <2>1. PICK i \in DOMAIN matches, j \in DOMAIN matches :
            /\ x = matches[i] /\ KeptAt(matches, i, ids, allowed)
            /\ y = matches[j] /\ KeptAt(matches, j, ids, allowed)
      BY <1>2
    <2>2. \/ Better(x, y, ids, allowed) \/ Better(y, x, ids, allowed)
          \/ SameMatch(x, y) /\ OrderOf(x, ids, allowed) = OrderOf(y, ids, allowed)
      BY <1>4, BetterOrders
    <2>3. i < j \/ j < i
      BY <1>1, <1>5, <2>1
    <2>4. ~(SameMatch(x, y) /\ OrderOf(x, ids, allowed) = OrderOf(y, ids, allowed))
      BY <2>1, <2>3 DEF KeptAt, SameMatch
    <2>5. QED
      BY <2>2, <2>4
  <1> HIDE DEF S, K
  <1>6. StrictOrder(S, R)
    <2>1. \A x \in S : ~Better(x, x, ids, allowed)
      BY <1>4, BetterOrders
    <2>2. \A x, y, z \in S :
            Better(x, y, ids, allowed) /\ Better(y, z, ids, allowed) => Better(x, z, ids, allowed)
      BY <1>4, BetterOrders
    <2>3. QED
      BY <1>5, <2>1, <2>2 DEF StrictOrder
  <1>7. Ranked(S, R)
    BY <1>3, <1>6, RankReached
  <1>8. \A x \in S : Below(S, R, x) = {y \in S : Better(y, x, ids, allowed)}
    BY DEF Below
  <1>9. sorted = InOrderOf(S, R)
    <2> DEFINE First(k) == CHOOSE x \in S : Cardinality(Below(S, R, x)) = k - 1
               Best(k) == CHOOSE x \in S : Cardinality({y \in S : Better(y, x, ids, allowed)}) = k - 1
    <2>1. sorted = [k \in 1..Cardinality(S) |-> Best(k)]
      BY Zenon DEF S, Merged
    <2>2. InOrderOf(S, R) = [k \in 1..Cardinality(S) |-> First(k)]
      BY DEF InOrderOf
    <2>3. \A k : First(k) = Best(k)
      <3> HIDE DEF R
      <3>1. \A x \in S : Cardinality(Below(S, R, x))
                           = Cardinality({y \in S : Better(y, x, ids, allowed)})
        BY <1>8
      <3>2. QED
        BY <3>1
    <2> HIDE DEF sorted, R, First, Best
    <2>4. QED
      BY <2>1, <2>2, <2>3
  <1> HIDE DEF R
  <1>10. IsSequence(sorted) /\ ToSet(sorted) = S
    BY <1>3, <1>7, <1>9, OrderedMembers
  <1>11. ASSUME NEW i \in DOMAIN matches
         PROVE  \E x \in S : x.requirementId = matches[i].requirementId
    <2>1. PICK k \in DOMAIN matches :
            SameMatch(matches[i], matches[k]) /\ KeptAt(matches, k, ids, allowed)
      BY OneIsKept
    <2>2. matches[k] \in S
      BY <1>2, <2>1 DEF K
    <2>3. QED
      BY <2>1, <2>2 DEF SameMatch
  <1>12. S \subseteq ToSet(matches)
    BY <1>2 DEF K, ToSet
  <1>13. QED
    BY <1>10, <1>11, <1>12

--------------------------------------------------------------------------------
(* What becomes of a requirement.                                             *)

(* An answer without an error holds something.                                *)
LEMMA VersionsOfAnswer ==
  ASSUME NEW answer, getProjectVersions(answer).error = None
  PROVE  /\ answer.status = "ok" /\ answer.body # <<>>
         /\ getProjectVersions(answer).value = answer.body
  <1>1. CASE answer.status = "ok"
    BY <1>1 DEF getProjectVersions, NonEmpty, requestJson, Ok, Failure, None
  <1>2. CASE answer.status # "ok"
    BY <1>2 DEF getProjectVersions, NonEmpty, requestJson, Ok, Failure, None, Null
  <1>3. QED
    BY <1>1, <1>2

(* Chosen members of a sequence are members of it.                            *)
LEMMA ChosenFrom ==
  ASSUME NEW seq, IsSequence(seq), NEW S \in SUBSET (DOMAIN seq), NEW T, ToSet(seq) \subseteq T
  PROVE  IsSequence(Chosen(seq, S)) /\ ToSet(Chosen(seq, S)) \subseteq T
  BY ChosenSequence DEF ToSet

(* A requirement with a project becomes a match of its own, or an issue says  *)
(* why it does not.                                                           *)
LEMMA RequirementResolved ==
  ASSUME NEW requirement, NEW project, NEW answer \in Answers("versions"), NEW preference
  PROVE  LET resolved == resolveRequirement(requirement, project, answer, preference)
         IN \/ /\ resolved.match = Null
               /\ \E i \in resolved.issues : i.requirementId = requirement.requirementId
            \/ /\ resolved.match # Null
               /\ resolved.match.requirementId = requirement.requirementId
               /\ resolved.match.confidence = project.confidence
               /\ Named(IdOf(resolved.match))
  <1> DEFINE answered == getProjectVersions(answer)
             versions == parseModrinthVersionMetadata(answered.value)
             rejected == {i \in {Issue("INVALID_METADATA", "error", requirement)} :
                            Len(versions) < Len(answered.value)}
             game == Chosen(versions, {i \in DOMAIN versions :
                                         requirement.minecraftVersion \in versions[i].gameVersions})
             loader == Chosen(game, {i \in DOMAIN game : requirement.loader \in game[i].loaders})
             selected == selectBestVersion(loader, requirement.minecraftVersion, requirement.loader,
                                           preference)
             Fails(noted) == NoMatch(UNION {project.issues, rejected, noted})
             made == SelectedMatch(requirement, project, selected.value)
             resolved == resolveRequirement(requirement, project, answer, preference)
             Mentioned == /\ resolved.match = Null
                          /\ \E i \in resolved.issues : i.requirementId = requirement.requirementId
  <1>1. resolved = IF answered.error # None
                   THEN NoMatch(project.issues \cup
                                  {issueFromError(answered.error, requirement, "version")})
                   ELSE IF versions = <<>> THEN Fails({})
                   ELSE IF game = <<>>
                   THEN Fails({Issue("MINECRAFT_VERSION_MISMATCH", "error", requirement)})
                   ELSE IF loader = <<>>
                   THEN Fails({Issue("LOADER_MISMATCH", "error", requirement)})
                   ELSE IF selected.error # None
                   THEN Fails({issueFromError(selected.error, requirement, "version")})
                   ELSE [made EXCEPT !.issues = UNION {@, project.issues, rejected}]
    BY Zenon DEF resolveRequirement
  <1>2. ASSUME NEW error, NEW severity
        PROVE  Issue(error, severity, requirement).requirementId = requirement.requirementId
    BY DEF Issue
  <1>3. ASSUME NEW error, NEW kind
        PROVE  issueFromError(error, requirement, kind).requirementId = requirement.requirementId
    BY DEF Issue, issueFromError
  <1>4. ASSUME NEW noted
        PROVE  NoMatch(noted).match = Null /\ NoMatch(noted).issues = noted
    BY DEF NoMatch
  <1>5. answered.error = None =>
          /\ answered.value = answer.body /\ answer.body # <<>> /\ IsSequence(answer.body)
          /\ \A version \in ToSet(answer.body) :
               version.projectId \in ToSet(Names) /\ version.id \in ToSet(Names)
    BY VersionsOfAnswer, AnswersAssumption DEF IsSequence
  <1>6. CASE answered.error # None
    <2>1. resolved = NoMatch(project.issues \cup
                               {issueFromError(answered.error, requirement, "version")})
      BY <1>1, <1>6
    <2> HIDE DEF resolved, answered
    <2>2. Mentioned
      BY <1>3, <1>4, <2>1
    <2>3. QED
      BY <2>2 DEF resolved
  <1>7. CASE answered.error = None /\ versions = <<>>
    <2>1. Len(answered.value) > 0
      BY <1>5, <1>7 DEF IsSequence
    <2>2. Len(versions) = 0
      BY <1>7
    <2> HIDE DEF answered, versions
    <2>3. Issue("INVALID_METADATA", "error", requirement) \in rejected
      BY <2>1, <2>2
    <2>4. resolved = Fails({})
      BY <1>1, <1>7
    <2> HIDE DEF rejected, resolved
    <2>5. resolved.match = Null /\ rejected \subseteq resolved.issues
      BY <1>4, <2>4
    <2>6. QED
      BY <1>2, <2>3, <2>5 DEF resolved
  <1>8. CASE answered.error = None /\ versions # <<>> /\ (game = <<>> \/ loader = <<>> \/ selected.error # None)
    <2>1. PICK issue : /\ resolved = Fails({issue})
                       /\ issue.requirementId = requirement.requirementId
      <3> HIDE DEF answered, versions, game, loader, selected, Fails, resolved, made
      <3>1. QED
        BY <1>1, <1>2, <1>3, <1>8
    <2> HIDE DEF rejected, resolved
    <2>2. resolved.match = Null /\ issue \in resolved.issues
      BY <1>4, <2>1
    <2>3. QED
      BY <2>1, <2>2 DEF resolved
  <1>9. CASE answered.error = None /\ versions # <<>> /\ game # <<>> /\ loader # <<>> /\ selected.error = None
    <2> DEFINE candidate == normalizeModrinthVersionToCandidate(selected.value, project.project)
               compatibility == IF ~candidate.files \/ ~candidate.hashes THEN "incomplete"
                                ELSE "compatible"
               match == Match(requirement, candidate, project.confidence, compatibility)
    <2>1. resolved.match = made.match
      BY <1>1, <1>9 DEF SelectedMatch
    <2>2. made.match = match
      BY DEF SelectedMatch
    <2>3. /\ match.requirementId = requirement.requirementId /\ match.confidence = project.confidence
          /\ match.candidate = candidate /\ match # Null
      <3> HIDE DEF candidate, compatibility
      <3>1. QED
        BY DEF Match, Null
    <2>4. \E i \in 1..Len(loader) : selected.value.version = loader[i]
      <3>1. selected.error = None
        BY <1>9
      <3> HIDE DEF loader
      <3>2. QED
        BY <3>1, BestVersion
    <2>5. IsSequence(loader) /\ ToSet(loader) \subseteq ToSet(answer.body)
      <3>1. IsSequence(versions) /\ ToSet(versions) \subseteq ToSet(answer.body)
        BY <1>5, <1>9, ChosenFrom DEF parseModrinthVersionMetadata
      <3> HIDE DEF versions
      <3>2. IsSequence(game) /\ ToSet(game) \subseteq ToSet(answer.body)
        BY <3>1, ChosenFrom
      <3> HIDE DEF game
      <3>3. QED
        BY <3>2, ChosenFrom
    <2>6. selected.value.version \in ToSet(answer.body)
      <3> HIDE DEF loader, selected
      <3>1. QED
        BY <2>4, <2>5, SequenceDomain DEF ToSet
    <2>7. /\ candidate.source = "modrinth"
          /\ candidate.projectId = selected.value.version.projectId
          /\ candidate.versionId = selected.value.version.id
      BY DEF normalizeModrinthVersionToCandidate
    <2>8. Named(IdOf(match))
      <3> HIDE DEF candidate, match, selected
      <3>1. "modrinth" \in ToSet(Names)
        BY NamesAssumption
      <3>2. QED
        BY <1>5, <1>9, <2>3, <2>6, <2>7, <3>1 DEF Named, IdOf, resourceCandidateIdentity
    <2>9. QED
      BY <2>1, <2>2, <2>3, <2>8
  <1>10. QED
    BY <1>6, <1>7, <1>8, <1>9

(* A project is found with a confidence in percent.                           *)
LEMMA ProjectResolved ==
  ASSUME NEW requirement, NEW answer, resolveProject(requirement, answer).error = None
  PROVE  resolveProject(requirement, answer).value.confidence \in Int
  <1> DEFINE known == Identifier(requirement) # None
             asked == IF known THEN requestJson(answer) ELSE searchProjects(answer)
             projects == IF asked.error # None THEN asked ELSE parseModrinthProjectMetadata(asked.value)
             Exact(p) == IsExactMatch(p, requirement.query)
             Best(p) == \A i \in DOMAIN projects.value :
                          LET q == projects.value[i]
                          IN \/ Exact(p) /\ ~Exact(q)
                             \/ (Exact(p) <=> Exact(q)) /\ Rank(p.projectId) <= Rank(q.projectId)
             place == {i \in 1..Len(projects.value) : Best(projects.value[i])}
             best == projects.value[IF place # {} THEN Min(place) ELSE 0]
             several == IF Len(projects.value) > 1
                        THEN {Issue("AMBIGUOUS_MATCH", "warning", requirement)} ELSE {}
             selected == resolveProject(requirement, answer)
  <1>1. selected =
          CASE projects.error # None -> projects
            [] projects.error = None /\ known ->
                 Ok([project |-> projects.value[1], confidence |-> 100, issues |-> {}])
            [] OTHER ->
                 Ok([project |-> best, confidence |-> IF Exact(best) THEN 95 ELSE 65,
                     issues |-> several])
    BY Zenon DEF resolveProject, SelectInSeq
  <1>2. ASSUME NEW value
        PROVE  Ok(value).value = value
    BY DEF Ok
  <1> HIDE DEF best, several, known, projects, selected
  <1>3. CASE projects.error # None
    BY <1>1, <1>3 DEF selected
  <1>4. CASE projects.error = None /\ known
    <2>1. selected = Ok([project |-> projects.value[1], confidence |-> 100, issues |-> {}])
      BY <1>1, <1>4
    <2>2. QED
      BY <1>2, <2>1 DEF selected
  <1>5. CASE projects.error = None /\ ~known
    <2> DEFINE sure == IF Exact(best) THEN 95 ELSE 65
    <2>1. sure \in Int
      OBVIOUS
    <2>2. selected = Ok([project |-> best, confidence |-> sure, issues |-> several])
      BY <1>1, <1>5
    <2> HIDE DEF sure
    <2>3. QED
      BY <1>2, <2>1, <2>2 DEF selected
  <1>6. QED
    BY <1>3, <1>4, <1>5

--------------------------------------------------------------------------------
(* The requirements of a call.                                                *)

Covered(requirement, matches, noted) ==
  \E x \in ToSet(matches) \cup noted : x.requirementId = requirement.requirementId

AllCovered(matches, noted) ==
  \A requirement \in ToSet(job.requirements) : Covered(requirement, matches, noted)

RequirementIds == [i \in DOMAIN job.requirements |-> job.requirements[i].requirementId]

Matches(s) == IsSequence(s) /\ \A i \in DOMAIN s : MatchOf(s[i], RequirementIds)

(* Up to its end a metadata call has a match or an issue for every            *)
(* requirement it is done with: all of them between two providers.            *)
CoverInv ==
  /\ job \in Jobs
  /\ Resolving =>
       /\ stage \in {"idle", "consulting", "resolving"} => Matches(results)
       /\ found # Null => found.confidence \in Int
       /\ stage = "idle" => requests = 0
       /\ stage = "resolving" =>
            /\ IsSequence(todo) /\ ToSet(todo) \subseteq ToSet(job.requirements)
            /\ \A requirement \in ToSet(job.requirements) :
                 requirement \in ToSet(todo) \/ Covered(requirement, results, issues)
       /\ stage \in {"consulting", "analysed"} /\ requests > 0 => AllCovered(results, issues)

(* The first is done: what is left is the rest.                               *)
LEMMA HeadAndTail ==
  ASSUME NEW s, IsSequence(s), s # <<>>
  PROVE  /\ IsSequence(Tail(s)) /\ ToSet(Tail(s)) \subseteq ToSet(s)
         /\ Head(s) \in ToSet(s) /\ ToSet(s) = {Head(s)} \cup ToSet(Tail(s))
  <1>1. Len(s) \in Nat /\ DOMAIN s = 1..Len(s)
    BY SequenceDomain
  <1>2. /\ IsSequence(Tail(s)) /\ Len(Tail(s)) = Len(s) - 1 /\ Len(s) > 0
        /\ \A i \in 1..Len(Tail(s)) : Tail(s)[i] = s[i + 1]
        /\ Head(s) = s[1]
    BY TailSequence
  <1>3. DOMAIN Tail(s) = 1..Len(Tail(s))
    BY <1>2, SequenceDomain
  <1>4. Head(s) \in ToSet(s)
    BY <1>1, <1>2 DEF ToSet
  <1>5. ASSUME NEW x \in ToSet(Tail(s))
        PROVE  x \in ToSet(s)
    <2>1. PICK i \in 1..Len(Tail(s)) : x = Tail(s)[i]
      BY <1>3 DEF ToSet
    <2>2. i + 1 \in 1..Len(s) /\ x = s[i + 1]
      BY <1>1, <1>2, <2>1
    <2>3. QED
      BY <1>1, <2>2 DEF ToSet
  <1>6. ASSUME NEW x \in ToSet(s), x # Head(s)
        PROVE  x \in ToSet(Tail(s))
    <2>1. PICK i \in 1..Len(s) : x = s[i]
      BY <1>1 DEF ToSet
    <2>2. i # 1
      BY <1>2, <1>6, <2>1
    <2>3. i - 1 \in 1..Len(Tail(s)) /\ Tail(s)[i - 1] = s[(i - 1) + 1] /\ (i - 1) + 1 = i
      BY <1>1, <1>2, <2>1, <2>2
    <2>4. QED
      BY <1>3, <2>1, <2>3 DEF ToSet
  <1>7. QED
    BY <1>2, <1>4, <1>5, <1>6

LEMMA AppendedMembers ==
  ASSUME NEW s, IsSequence(s), NEW x
  PROVE  ToSet(Append(s, x)) = ToSet(s) \cup {x}
  <1>1. /\ Len(s) \in Nat /\ DOMAIN s = 1..Len(s)
        /\ IsSequence(Append(s, x)) /\ Len(Append(s, x)) = Len(s) + 1
        /\ \A i \in 1..Len(s) : Append(s, x)[i] = s[i]
        /\ Append(s, x)[Len(s) + 1] = x
    BY AppendSequence, SequenceDomain
  <1>2. DOMAIN Append(s, x) = 1..(Len(s) + 1)
    BY <1>1, SequenceDomain
  <1>3. 1..(Len(s) + 1) = (1..Len(s)) \cup {Len(s) + 1}
    BY <1>1
  <1>4. QED
    BY <1>1, <1>2, <1>3 DEF ToSet

(* What was covered stays so as matches and issues are added.                 *)
LEMMA CoveredStays ==
  ASSUME NEW requirement, NEW matches, NEW noted, Covered(requirement, matches, noted),
         NEW more, NEW also, ToSet(matches) \subseteq ToSet(more), noted \subseteq also
  PROVE  Covered(requirement, more, also)
  BY DEF Covered

(* The first requirement is done with `more' and `also'.                      *)
LEMMA RequirementDone ==
  ASSUME CoverInv, Resolving, stage = "resolving", todo # <<>>,
         stage' = stage, job' = job, todo' = Tail(todo), Matches(results'),
         found' # Null => found'.confidence \in Int,
         ToSet(results) \subseteq ToSet(results'), issues \subseteq issues',
         Covered(Head(todo), results', issues')
  PROVE  CoverInv'
  <1>1. IsSequence(todo) /\ ToSet(todo) \subseteq ToSet(job.requirements) /\ job \in Jobs
    BY DEF CoverInv
  <1>2. /\ IsSequence(Tail(todo)) /\ ToSet(Tail(todo)) \subseteq ToSet(job.requirements)
        /\ ToSet(todo) = {Head(todo)} \cup ToSet(Tail(todo))
    BY <1>1, HeadAndTail
  <1>3. ASSUME NEW requirement \in ToSet(job.requirements)
        PROVE  requirement \in ToSet(todo') \/ Covered(requirement, results', issues')
    <2>1. CASE requirement \in ToSet(todo)
      BY <1>2, <2>1
    <2>2. CASE Covered(requirement, results, issues)
      BY <2>2, CoveredStays
    <2>3. QED
      BY <2>1, <2>2 DEF CoverInv
  <1>4. Matches(results)'
    BY DEF Matches, RequirementIds
  <1>5. QED
    BY <1>1, <1>2, <1>3, <1>4 DEF CoverInv, Resolving

LEMMA CoverInvStep ==
  ASSUME CoverInv, [PipelineNext]_pipelineVars
  PROVE  CoverInv'
  <1>1. job' = job /\ job \in Jobs
    BY StagesReached DEF CoverInv
  <1>2. CASE ~Resolving
    BY <1>1, <1>2 DEF CoverInv, Resolving
  <1> SUFFICES ASSUME Resolving PROVE CoverInv'
    BY <1>2
  <1>3. /\ ~Planning /\ IsSequence(job.requirements) /\ IsSequence(job.allowedProviders)
        /\ Resolving' /\ RequirementIds' = RequirementIds
    BY <1>1, JobsAssumption, IsSequenceOf DEF Planning, Resolving, RequirementIds, IsSequence
  <1>4. \A s : Matches(s)' <=> Matches(s')
    BY <1>3 DEF Matches
  <1>5. CASE AskProviders
    BY <1>1, <1>3, <1>5 DEF AskProviders, CoverInv, Matches
  <1>6. CASE SkipProvider
    <2>1. /\ stage = "consulting" /\ stage' = stage /\ results' = results /\ issues \subseteq issues'
          /\ requests' = requests /\ found' = found
      BY <1>6 DEF SkipProvider, Consulting
    <2>2. ASSUME requests > 0
          PROVE  AllCovered(results, issues)'
      BY <1>1, <2>1, <2>2, CoveredStays DEF CoverInv, AllCovered
    <2>3. QED
      BY <1>1, <1>3, <2>1, <2>2 DEF CoverInv, Matches
  <1>7. CASE ConsultProvider
    <2>1. /\ stage = "consulting" /\ stage' = "resolving" /\ results' = results /\ issues' = issues
          /\ requests' = requests /\ found' = found /\ todo' = job.requirements
      BY <1>7 DEF ConsultProvider, Consulting
    <2>2. QED
      BY <1>1, <1>3, <2>1 DEF CoverInv, Matches
  <1>8. CASE ProjectAnswered
    <2> DEFINE kind == IF Identifier(Head(todo)) = None THEN "projects" ELSE "project"
    <2>1. PICK answer \in Answers(kind) :
            LET selected == resolveProject(Head(todo), answer)
            IN IF selected.error = None
               THEN found' = selected.value /\ UNCHANGED <<issues, todo>>
               ELSE /\ issues' = issues \cup {issueFromError(selected.error, Head(todo), "project")}
                    /\ todo' = Tail(todo) /\ UNCHANGED found
      BY <1>8, Zenon DEF ProjectAnswered
    <2>2. /\ stage = "resolving" /\ stage' = stage /\ results' = results /\ todo # <<>> /\ found = Null
      BY <1>8 DEF ProjectAnswered, RequirementStep
    <2> DEFINE selected == resolveProject(Head(todo), answer)
    <2>3. CASE selected.error = None
      <3>1. found'.confidence \in Int
        BY <2>1, <2>3, ProjectResolved
      <3>2. UNCHANGED <<issues, todo>>
        BY <2>1, <2>3
      <3>3. QED
        BY <1>1, <1>3, <2>2, <3>1, <3>2 DEF CoverInv, Matches
    <2>4. CASE selected.error # None
      <3> DEFINE issue == issueFromError(selected.error, Head(todo), "project")
      <3>1. issues' = issues \cup {issue} /\ todo' = Tail(todo) /\ found' = found
        BY <2>1, <2>4
      <3>2. issue.requirementId = Head(todo).requirementId
        <4> HIDE DEF selected
        <4>1. QED
          BY DEF issueFromError, Issue
      <3> HIDE DEF issue
      <3>3. Covered(Head(todo), results', issues')
        BY <3>1, <3>2 DEF Covered
      <3>4. Matches(results')
        BY <2>2 DEF CoverInv
      <3>5. QED
        BY <1>1, <2>2, <3>1, <3>3, <3>4, RequirementDone
    <2>5. QED
      BY <2>3, <2>4
  <1>9. CASE RequirementVersionsAnswered
    <2>1. PICK answer \in Answers("versions") :
            LET resolved == resolveRequirement(Head(todo), found, answer, job.riskPreference)
            IN /\ issues' = issues \cup resolved.issues
               /\ results' = IF resolved.match = Null THEN results
                             ELSE Append(results, resolved.match)
      BY <1>9, Zenon DEF RequirementVersionsAnswered
    <2>2. /\ stage = "resolving" /\ stage' = stage /\ todo # <<>> /\ found # Null
          /\ todo' = Tail(todo) /\ found' = Null
      BY <1>9 DEF RequirementVersionsAnswered, RequirementStep
    <2> DEFINE resolved == resolveRequirement(Head(todo), found, answer, job.riskPreference)
    <2>3. \/ /\ resolved.match = Null
             /\ \E i \in resolved.issues : i.requirementId = Head(todo).requirementId
          \/ /\ resolved.match # Null
             /\ resolved.match.requirementId = Head(todo).requirementId
             /\ resolved.match.confidence = found.confidence
             /\ Named(IdOf(resolved.match))
      BY RequirementResolved
    <2>4. /\ issues' = issues \cup resolved.issues
          /\ resolved.match = Null => results' = results
          /\ resolved.match # Null => results' = Append(results, resolved.match)
      BY <2>1
    <2>5. /\ IsSequence(results) /\ Matches(results) /\ found.confidence \in Int
          /\ Head(todo) \in ToSet(job.requirements)
      BY <2>2, HeadAndTail DEF CoverInv, Matches
    <2> HIDE DEF resolved
    <2>6. CASE resolved.match = Null
      <3>1. Covered(Head(todo), results', issues')
        BY <2>3, <2>4, <2>6 DEF Covered
      <3>2. QED
        BY <1>1, <2>2, <2>4, <2>5, <2>6, <3>1, RequirementDone
    <2>7. CASE resolved.match # Null
      <3> DEFINE match == resolved.match
      <3>1. results' = Append(results, match) /\ ToSet(results') = ToSet(results) \cup {match}
        BY <2>4, <2>5, <2>7, AppendedMembers
      <3>2. MatchOf(match, RequirementIds)
        <4>1. \E k \in DOMAIN RequirementIds : RequirementIds[k] = match.requirementId
          BY <2>3, <2>5, <2>7 DEF RequirementIds, ToSet
        <4>2. QED
          BY <2>3, <2>5, <2>7, <4>1 DEF MatchOf
      <3>3. Covered(Head(todo), results', issues')
        BY <2>3, <2>7, <3>1 DEF Covered
      <3> HIDE DEF match
      <3>4. Matches(results')
        <4>1. /\ Len(results) \in Nat /\ DOMAIN results = 1..Len(results)
              /\ IsSequence(results') /\ Len(results') = Len(results) + 1
              /\ \A i \in 1..Len(results) : results'[i] = results[i]
              /\ results'[Len(results) + 1] = match
          BY <2>5, <3>1, AppendSequence, SequenceDomain
        <4>2. DOMAIN results' = 1..(Len(results) + 1)
          BY <4>1, SequenceDomain
        <4>3. ASSUME NEW i \in DOMAIN results'
              PROVE  MatchOf(results'[i], RequirementIds)
          <5>1. i \in 1..Len(results) \/ i = Len(results) + 1
            BY <4>1, <4>2
          <5>2. QED
            BY <2>5, <3>2, <4>1, <5>1 DEF Matches
        <4>4. QED
          BY <4>1, <4>3 DEF Matches
      <3>5. QED
        BY <1>1, <2>2, <2>4, <3>1, <3>3, <3>4, RequirementDone
    <2>8. QED
      BY <2>6, <2>7
  <1>10. CASE ProviderResolved
    <2>1. /\ stage = "resolving" /\ stage' = "consulting" /\ results' = results /\ issues' = issues
          /\ found' = found /\ todo = <<>>
      BY <1>10 DEF ProviderResolved
    <2>2. ToSet(todo) = {}
      BY <2>1 DEF ToSet
    <2>3. AllCovered(results, issues)
      BY <2>1, <2>2 DEF CoverInv, AllCovered
    <2>4. QED
      BY <1>1, <1>3, <2>1, <2>3 DEF CoverInv, Matches, AllCovered
  <1>11. CASE MetadataResolved
    <2>1. /\ stage = "consulting" /\ stage' = "analysed" /\ issues' = issues /\ found' = found
          /\ requests' = requests
          /\ results' = sortAndDedupeMatches(results, job.requirements, job.allowedProviders)
      BY <1>11 DEF MetadataResolved
    <2>2. results' = Merged(results, RequirementIds, job.allowedProviders)
      BY <2>1, SortUnfolded DEF RequirementIds
    <2>3. Matches(results) /\ IsSequence(RequirementIds)
      <3>1. RequirementIds = [i \in 1..Len(job.requirements) |-> RequirementIds[i]]
        BY <1>3, SequenceDomain DEF RequirementIds
      <3>2. Len(job.requirements) \in Nat
        BY <1>3, SequenceDomain
      <3> HIDE DEF RequirementIds
      <3>3. QED
        BY <2>1, <3>1, <3>2, FunctionSequence DEF CoverInv
    <2>4. \A i \in DOMAIN results :
            \E x \in ToSet(results') : x.requirementId = results[i].requirementId
      BY <1>3, <2>2, <2>3, SortedMatches DEF Matches
    <2>5. ASSUME requests > 0
          PROVE  AllCovered(results, issues)'
      <3>1. ASSUME NEW requirement, Covered(requirement, results, issues)
            PROVE  Covered(requirement, results', issues')
        BY <2>1, <2>4, <3>1 DEF Covered, ToSet
      <3>2. AllCovered(results, issues)
        BY <2>1, <2>5 DEF CoverInv
      <3>3. QED
        BY <1>1, <3>1, <3>2 DEF AllCovered
    <2>6. QED
      BY <1>1, <2>1, <2>5 DEF CoverInv
  <1>12. CASE \/ BuildInput \/ InjectedResolver \/ NetworkDisabled \/ RefuseQuery
              \/ SearchAnswered \/ VersionsAnswered \/ AllQueriesResolved \/ PlanResolved
              \/ Analyse \/ PlanAgain
    BY <1>3, <1>12 DEF BuildInput, InjectedResolver, NetworkDisabled, RefuseQuery, SearchAnswered,
                       VersionsAnswered, AllQueriesResolved, PlanResolved, Analyse, PlanAgain,
                       QueryStep, Networked
  <1>13. CASE UNCHANGED pipelineVars
    BY <1>1, <1>3, <1>13 DEF pipelineVars, callVars, CoverInv, Matches, AllCovered
  <1>14. QED
    BY <1>5, <1>6, <1>7, <1>8, <1>9, <1>10, <1>11, <1>12, <1>13 DEF PipelineNext

(* What a metadata call knows of its requirements, in every state.           *)
THEOREM CoverInvariant == Spec => []CoverInv
  <1>1. ReviewInit => CoverInv
    <2>1. IsSequence(<<>>)
      BY DEF IsSequence
    <2>2. QED
      BY <2>1 DEF ReviewInit, Init, CoverInv, Matches
  <1>2. CoverInv /\ [Next]_vars => CoverInv'
    BY PipelineStep, CoverInvStep
  <1>3. QED
    BY <1>1, <1>2, PTL DEF Spec

(* A call loses no query and no requirement: each has a result of its own, or *)
(* a match, or what was said of it (resolveModrinthCandidates, resolveMetadata *)
(* of the provider and sortAndDedupeMatches).                                 *)
THEOREM NothingIsLost == Spec => []NothingLost
  <1>1. CoverInv => RequirementsKept
    BY DEF CoverInv, RequirementsKept, AllCovered, Covered
  <1>2. QED
    BY <1>1, CoverInvariant, NoQueryIsLost, PTL DEF NothingLost

--------------------------------------------------------------------------------
(* Types.                                                                     *)

(* A metadata call goes through fewer stages than a planning call, and a      *)
(* project is known only to a call that asks the service for it.              *)
CallInv ==
  /\ job \in Jobs /\ round \in 1..job.rounds /\ clock \in 0..MaxTime
  /\ Planning \/ Resolving
  /\ Planning => stage \in {"idle", "resolving", "resolved", "planned", "failed", "analysed"}
  /\ Resolving => /\ stage \in {"idle", "consulting", "resolving", "analysed"}
                  /\ stage = "analysed" => "networkUsed" \in DOMAIN diagnostics
  /\ found # Null => /\ todo # <<>> /\ stage = "resolving"
                     /\ Planning => job.resolver = None /\ networkResolver(job.options)

(* Every step keeps that.                                                     *)
LEMMA CallInvStep ==
  ASSUME CallInv, [Next]_vars
  PROVE  CallInv'
  <1>1. /\ job' = job /\ job \in Jobs /\ round \in 1..job.rounds /\ clock \in 0..MaxTime
        /\ job.rounds \in Nat /\ MaxTime \in Nat
    BY PipelineStep, StagesReached, JobsAssumption, TimesAssumption DEF CallInv
  <1>2. CASE PipelineNext /\ UNCHANGED clock
    <2>1. CASE BuildInput \/ InjectedResolver \/ NetworkDisabled \/ AllQueriesResolved
      BY <1>1, <1>2, <2>1 DEF CallInv, BuildInput, InjectedResolver, NetworkDisabled,
           AllQueriesResolved, Networked, callVars, Planning, Resolving
    <2>2. CASE RefuseQuery \/ SearchAnswered \/ VersionsAnswered
      <3>1. /\ Planning /\ stage = "resolving" /\ job.resolver = None
            /\ networkResolver(job.options) /\ todo # <<>>
            /\ UNCHANGED <<job, round, stage, diagnostics>>
            /\ found' = Null \/ todo' = todo
        BY <2>2 DEF RefuseQuery, SearchAnswered, VersionsAnswered, NextQuery, QueryStep, Networked
      <3>2. QED
        BY <1>1, <1>2, <3>1 DEF CallInv, Planning, Resolving
    <2>3. CASE PlanResolved \/ Analyse
      BY <1>1, <1>2, <2>3 DEF CallInv, PlanResolved, Analyse, callVars, Planning, Resolving
    <2>4. CASE PlanAgain
      <3>1. /\ Planning /\ stage \in {"planned", "failed", "analysed"} /\ round' \in 1..job.rounds
            /\ stage' = "idle" /\ UNCHANGED <<todo, found, diagnostics>>
        BY <1>1, <2>4 DEF PlanAgain
      <3>2. QED
        BY <1>1, <1>2, <3>1 DEF CallInv, Planning, Resolving
    <2>5. CASE AskProviders \/ SkipProvider \/ ConsultProvider \/ ProviderResolved
      BY <1>1, <1>2, <2>5 DEF CallInv, AskProviders, SkipProvider, Consulting, ConsultProvider,
           ProviderResolved, Planning, Resolving
    <2>6. CASE ProjectAnswered
      <3>1. /\ Resolving /\ stage = "resolving" /\ todo # <<>> /\ found = Null
            /\ UNCHANGED <<job, round, stage, diagnostics>>
            /\ found' = found \/ todo' = todo
        BY <2>6 DEF ProjectAnswered, RequirementStep
      <3>2. QED
        BY <1>1, <1>2, <3>1 DEF CallInv, Planning, Resolving
    <2>7. CASE RequirementVersionsAnswered
      BY <1>1, <1>2, <2>7 DEF CallInv, RequirementVersionsAnswered, RequirementStep, Planning,
           Resolving
    <2>8. CASE MetadataResolved
      <3>1. /\ Resolving /\ stage = "consulting" /\ stage' = "analysed"
            /\ UNCHANGED <<job, round, todo, found>> /\ "networkUsed" \in DOMAIN diagnostics'
        BY <2>8 DEF MetadataResolved
      <3>2. QED
        BY <1>1, <1>2, <3>1 DEF CallInv, Planning, Resolving
    <2>9. QED
      BY <1>2, <2>1, <2>2, <2>3, <2>4, <2>5, <2>6, <2>7, <2>8 DEF PipelineNext
  <1>3. CASE UNCHANGED pipelineVars /\ clock' \in 0..MaxTime
    BY <1>3 DEF CallInv, Planning, Resolving, pipelineVars, callVars
  <1>4. CASE Tick
    BY <1>1, <1>3, <1>4 DEF Tick
  <1>5. QED
    BY <1>1, <1>2, <1>3, <1>4 DEF Next, vars, reviewVars, Confirm, Amend, Submit, Cancel,
                                  AppendJournal

(* Whatever the calls, the answers and the bounds, the variables keep their   *)
(* shapes: a plan and its diagnostics are there when their stage is reached,  *)
(* and a project is known only while something is being resolved.             *)
THEOREM PlanningTypes == Spec => []TypeOK
  <1>1. ReviewInit => CallInv
    BY JobsAssumption, TimesAssumption DEF ReviewInit, Init, CallInv, Planning, Resolving
  <1>2. CallInv /\ [Next]_vars => CallInv'
    BY CallInvStep
  <1>3. Spec => []CallInv
    BY <1>1, <1>2, PTL DEF Spec
  <1>4. CallInv /\ ResultsInv /\ PlanInv /\ ReviewInv /\ JournalInv => TypeOK
    <2> SUFFICES ASSUME CallInv, PlanInv, ReviewInv, JournalInv
                 PROVE  TypeOK
      OBVIOUS
    <2>1. ASSUME stage \in {"planned", "failed", "analysed"}
          PROVE  diagnostics # Null
      <3>1. "networkUsed" \in DOMAIN diagnostics
        <4>1. CASE Planning
          <5>1. Diagnosed
            BY <2>1, <4>1 DEF PlanInv
          <5>2. QED
            BY <5>1 DEF Diagnosed, buildDiagnostics
        <4>2. CASE Resolving
          BY <2>1, <4>2 DEF CallInv
        <4>3. QED
          BY <4>1, <4>2 DEF CallInv
      <3>2. QED
        BY <3>1 DEF Null
    <2>2. stage = "planned" => plan # Null
      <3>1. stage = "planned" => Planning /\ Candid(plan)
        BY DEF CallInv, PlanInv, PlanTruthful
      <3>2. Candid(plan) => "risk" \in DOMAIN plan
        BY DEF Candid, PlanFields
      <3>3. QED
        BY <3>1, <3>2 DEF Null
    <2>3. plan # Null => plan.risk \in {"low", "medium", "high"}
      BY DEF PlanInv, Candid
    <2>4. Len(accepted) <= Len(journal) + 1
      <3>1. Len(journal) \in Nat
        BY SequenceDomain DEF JournalInv, InOrder
      <3>2. Len(accepted) \in {0, 1}
        <4>1. ASSUME NEW a PROVE Len(<<a>>) = 1 /\ Len(<<>>) = 0
          OBVIOUS
        <4>2. QED
          BY <4>1 DEF ReviewInv
      <3>3. Len(accepted) \in Int /\ Len(accepted) <= 1
        BY <3>2
      <3>4. QED
        BY <3>1, <3>3
    <2>5. stage \in {"idle", "resolving", "consulting", "resolved", "planned", "failed", "analysed"}
      BY DEF CallInv
    <2>6. QED
      BY <2>1, <2>2, <2>3, <2>4, <2>5 DEF TypeOK, CallInv
  <1>5. QED
    BY <1>3, <1>4, PlanInvariant, ReviewInvariant, JournalInvariant, PTL
================================================================================
