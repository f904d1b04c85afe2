------------------------ MODULE CompatibilityAnalysis -------------------------
(* The compatibility analysis of resource candidates                          *)
(* (packages/api-client/src/compatibilityAnalyzer.ts and                      *)
(* packages/shared-types/src/compatibility.ts).  Messages and their details   *)
(* are left out, so issues that differ only in them are one issue; what       *)
(* `dedupeIssues' and `sortCompatibilityIssues' give is then a set of issues. *)
(* Candidates are a sequence: the order they come in is kept.                 *)
EXTENDS Naturals, FiniteSets, SequencesExt

(* The strings in use as identifiers, in the order `localeCompare' puts them. *)
CONSTANT Names

ASSUME NamesAssumption ==
  /\ Names \in Seq(ToSet(Names)) /\ "modrinth" \in ToSet(Names)
  /\ \A i, j \in DOMAIN Names : Names[i] = Names[j] => i = j

None == "none"

Rank(name) == CHOOSE i \in DOMAIN Names : Names[i] = name

(* The members of S in the order of Less, which is total on S.                *)
Ordered(S, Less(_, _)) ==
  [k \in 1..Cardinality(S) |-> CHOOSE x \in S : Cardinality({y \in S : Less(y, x)}) = k - 1]

(* The members of seq at the indices in S, in the order of seq.               *)
Chosen(seq, S) ==
  LET ascending == Ordered(S, LAMBDA i, j : i < j) IN [k \in 1..Cardinality(S) |-> seq[ascending[k]]]

IssueWhen(condition, issue) == IF condition THEN {issue} ELSE {}

--------------------------------------------------------------------------------
(* Identities and providers.                                                  *)

resourceCandidateIdentity(candidate) ==
  <<candidate.source, candidate.projectId, candidate.versionId>>

Before(left, right) ==
  \E i \in 1..3 : /\ Rank(left[i]) < Rank(right[i])
                  /\ \A j \in 1..(i - 1) : left[j] = right[j]

Identities(candidates) == {resourceCandidateIdentity(candidates[i]) : i \in DOMAIN candidates}

PROVIDER_CAPABILITIES ==
  [provider \in {"modrinth", "github-releases", "mcmod", "curseforge"} |->
     CASE provider = "modrinth" -> "existing-adapter"
       [] provider \in {"github-releases", "mcmod"} -> "contract-only"
       [] provider = "curseforge" -> "future"]

NoResource == <<>>

makeIssue(code, severity, resource, check) ==
  [code |-> code, severity |-> severity, resource |-> resource, related |-> {},
   dependency |-> None, rule |-> None, check |-> check]

Concerns(issue, identity) == issue.resource = identity \/ identity \in issue.related

UNKNOWN_CODES == {"DEPENDENCY_VERSION_UNKNOWN", "METADATA_INCOMPLETE", "METADATA_UNCHECKED",
                  "PROVIDER_UNSUPPORTED", "COMPATIBILITY_UNKNOWN"}

HasSeverity(issues, severities) == \E issue \in issues : issue.severity \in severities

(* Faulty variant: a warning outweighs what is unknown.                       *)
deriveCompatibilityStatus_WarningFirst(issues) ==
  IF HasSeverity(issues, {"blocker", "error"}) THEN "incompatible"
  ELSE IF HasSeverity(issues, {"warning"}) THEN "compatible_with_warnings"
  ELSE IF \E issue \in issues : issue.code \in UNKNOWN_CODES THEN "unknown"
  ELSE "compatible"

deriveCompatibilityStatus(issues) ==
  IF HasSeverity(issues, {"blocker", "error"}) THEN "incompatible"
  ELSE IF \E issue \in issues : issue.code \in UNKNOWN_CODES THEN "unknown"
  ELSE IF HasSeverity(issues, {"warning"}) THEN "compatible_with_warnings"
  ELSE "compatible"

validateCompatibilityTarget(target) ==
  /\ target.minecraftVersion # "" /\ target.loader # ""
  /\ target.side \in {"client", "server", "both", "unknown"}

--------------------------------------------------------------------------------
(* What one candidate declares against the target.                            *)

analyzeSide(candidate, target, unknownSeverity) ==
  LET id == resourceCandidateIdentity(candidate)
      support == [client |-> candidate.clientSide, server |-> candidate.serverSide]
      requiredSides == IF target.side = "both" THEN {"client", "server"} ELSE {target.side}
  IN IF target.side = "unknown"
     THEN {makeIssue("COMPATIBILITY_UNKNOWN", unknownSeverity, id, "side")}
     ELSE IssueWhen(\E side \in requiredSides : support[side] = "unsupported",
                    makeIssue("SIDE_MISMATCH", "blocker", id, "side"))
          \cup IssueWhen(\E side \in requiredSides : support[side] = "unknown",
                         makeIssue("COMPATIBILITY_UNKNOWN", unknownSeverity, id, "side"))

Declared(id, declared, wanted, mismatch, check, unknownSeverity) ==
  IssueWhen(declared = {}, makeIssue("COMPATIBILITY_UNKNOWN", unknownSeverity, id, check))
  \cup IssueWhen(declared # {} /\ wanted \notin declared,
                 makeIssue(mismatch, "blocker", id, check))

analyzeCandidateMetadata(candidate, target, unknownSeverity) ==
  LET id == resourceCandidateIdentity(candidate)
      unsupported == \/ candidate.source \notin DOMAIN PROVIDER_CAPABILITIES
                     \/ PROVIDER_CAPABILITIES[candidate.source] = "future"
      incomplete == \/ candidate.gameVersions = {} \/ candidate.loaders = {}
                    \/ ~candidate.files \/ ~candidate.hashes
  IN UNION {IssueWhen(unsupported,
                      makeIssue("PROVIDER_UNSUPPORTED", unknownSeverity, id, "metadata")),
            IssueWhen(~candidate.metadataChecked,
                      makeIssue("METADATA_UNCHECKED", unknownSeverity, id, "metadata")),
            Declared(id, candidate.gameVersions, target.minecraftVersion,
                     "MINECRAFT_VERSION_MISMATCH", "minecraftVersion", unknownSeverity),
            Declared(id, candidate.loaders, target.loader, "LOADER_MISMATCH", "loader",
                     unknownSeverity),
            analyzeSide(candidate, target, unknownSeverity),
            IssueWhen(incomplete,
                      makeIssue("METADATA_INCOMPLETE", unknownSeverity, id, "metadata"))}

--------------------------------------------------------------------------------
(* What the candidates ask of each other.                                     *)

Matching(dependency, candidate) ==
  \/ dependency.projectId # None
     /\ dependency.projectId \in {candidate.projectId, candidate.slug}
  \/ dependency.versionId # None /\ dependency.versionId = candidate.versionId

findDependencyMatches(dependency, lookup) ==
  {candidate \in ToSet(lookup) : Matching(dependency, candidate)}

RequiredDependencyIssues(id, dependency, matches, unknownSeverity) ==
  IF dependency.projectId = None /\ dependency.versionId = None
  THEN {makeIssue("REQUIRED_DEPENDENCY_UNRESOLVED", "blocker", id, "dependencies")}
  ELSE IF matches = {}
  THEN {[makeIssue("REQUIRED_DEPENDENCY_MISSING", "blocker", id, "dependencies")
           EXCEPT !.dependency = dependency.projectId]}
  ELSE IssueWhen(dependency.versionId # None
                   /\ \A match \in matches : match.versionId # dependency.versionId,
                 [makeIssue("DEPENDENCY_VERSION_UNKNOWN", unknownSeverity, id, "dependencies")
                    EXCEPT !.dependency = dependency.projectId,
                           !.related = {resourceCandidateIdentity(m) : m \in matches}])

(* The issue names the smaller of the two, the pair holds both.               *)
ConflictIssue(pair, severity, rule) ==
  LET first == CHOOSE id \in pair : \A other \in pair \ {id} : Before(id, other)
  IN [makeIssue("EXPLICIT_CONFLICT", severity, first, "conflicts")
        EXCEPT !.related = pair, !.rule = rule]

analyzeCandidateDependencies(candidate, lookup, unknownSeverity) ==
  LET id == resourceCandidateIdentity(candidate)
      Issues(dependency) ==
        LET matches == findDependencyMatches(dependency, lookup)
        IN CASE dependency.type = "required" ->
                  RequiredDependencyIssues(id, dependency, matches, unknownSeverity)
             [] dependency.type = "incompatible" ->
                  {ConflictIssue({id, resourceCandidateIdentity(m)}, "blocker", None)
                     : m \in matches}
             [] OTHER -> {}
  IN UNION {Issues(dependency) : dependency \in candidate.dependencies}

analyzeRequiredProjects(requiredProjectIds, lookup) ==
  LET available == UNION {{lookup[i].projectId, lookup[i].slug} : i \in DOMAIN lookup}
  IN {[makeIssue("REQUIRED_DEPENDENCY_MISSING", "blocker", NoResource, "dependencies")
         EXCEPT !.dependency = projectId] : projectId \in requiredProjectIds \ available}

(* A duplicate: an identity twice, or a project or a slug with several.       *)
DuplicateIssue(code, ids) ==
  [makeIssue(code, "warning", CHOOSE id \in ids : \A o \in ids \ {id} : Before(id, o), "metadata")
     EXCEPT !.related = ids]

analyzeDuplicates(candidates) ==
  LET Group(P(_)) == SelectSeq(candidates, P)
      Twice(id) == Len(Group(LAMBDA c : resourceCandidateIdentity(c) = id)) > 1
      Project(p) == Group(LAMBDA c : c.projectId = p)
      Slug(s) == Group(LAMBDA c : c.slug = s)
      Projects(group) == {group[i].projectId : i \in DOMAIN group}
  IN {DuplicateIssue("DUPLICATE_CANDIDATE", {id}) : id \in {i \in Identities(candidates) : Twice(i)}}
     \cup {DuplicateIssue("DUPLICATE_PROJECT", Identities(Project(p))) :
             p \in {q \in Projects(candidates) : Cardinality(Identities(Project(q))) > 1}}
     \cup {DuplicateIssue("DUPLICATE_PROJECT", Identities(Slug(s))) :
             s \in {t \in {candidates[i].slug : i \in DOMAIN candidates} :
                      Cardinality(Projects(Slug(t))) > 1}}

--------------------------------------------------------------------------------
(* Cycles of required dependencies: a depth-first search in identity order.   *)

(* The candidates are sorted by identity and a later one with the same        *)
(* identity overwrites the targets of an earlier one.  The faulty variant     *)
(* takes every dependency for a required one.                                 *)
DependencyGraph_AnyType(candidates, lookup) ==
  [id \in Identities(candidates) |->
     LET last == SelectLastInSeq(candidates, LAMBDA c : resourceCandidateIdentity(c) = id)
     IN {resourceCandidateIdentity(m) :
           m \in UNION {findDependencyMatches(d, lookup) : d \in candidates[last].dependencies}}]

DependencyGraph(candidates, lookup) ==
  [id \in Identities(candidates) |->
     LET last == SelectLastInSeq(candidates, LAMBDA c : resourceCandidateIdentity(c) = id)
         required == {d \in candidates[last].dependencies : d.type = "required"}
     IN {resourceCandidateIdentity(m) :
           m \in UNION {findDependencyMatches(d, lookup) : d \in required}}]

Sorted(ids) == Ordered(ids, Before)

(* The rotation that begins with the smallest identity.                       *)
canonicalCycle(cycle) ==
  LET n == Len(cycle)
      first == CHOOSE i \in 1..n : \A j \in (1..n) \ {i} : Before(cycle[i], cycle[j])
  IN [i \in 1..n |-> cycle[((first + i - 2) % n) + 1]]

(* A state of the search: the nodes of the calls of `visit' under way, no node *)
(* twice, and the targets that each of their loops has left, the outermost    *)
(* loop being the one over all nodes.                                         *)
Searches(graph) ==
  LET nodes == DOMAIN graph
  IN {s \in [path : Seq(nodes), left : Seq(Seq(nodes)),
             cycles : SUBSET Seq(nodes), visited : SUBSET nodes] :
        IsInjective(s.path) /\ Len(s.left) = Len(s.path) + 1}

SearchStart(graph) ==
  [path |-> <<>>, left |-> <<Sorted(DOMAIN graph)>>, cycles |-> {}, visited |-> {}]

Searched(s) == s.path = <<>> /\ s.left[1] = <<>>

(* The call is over; or its next target closes a cycle, was visited before,   *)
(* or is called.                                                              *)
visit(graph, s) ==
  LET n == Len(s.left)
      target == Head(s.left[n])
      onward == [s.left EXCEPT ![n] = Tail(@)]
      rest == [s EXCEPT !.left = onward]
      closed == SubSeq(s.path, SelectInSeq(s.path, LAMBDA x : x = target), Len(s.path))
  IN IF s.left[n] = <<>>
     THEN [s EXCEPT !.path = Front(@), !.left = Front(@), !.visited = @ \cup {Last(s.path)}]
     ELSE IF target \in ToSet(s.path)
     THEN [rest EXCEPT !.cycles = @ \cup {canonicalCycle(closed)}]
     ELSE IF target \in s.visited
     THEN rest
     ELSE [rest EXCEPT !.path = Append(@, target),
                       !.left = Append(@, Sorted(graph[target] \cap DOMAIN graph))]

DependencyCycles(graph) ==
  LET search[s \in Searches(graph)] == IF Searched(s) THEN s.cycles ELSE search[visit(graph, s)]
  IN search[SearchStart(graph)]

analyzeDependencyCycles(candidates, lookup) ==
  {[makeIssue("DEPENDENCY_CYCLE", "warning", cycle[1], "dependencies")
      EXCEPT !.related = ToSet(cycle)] :
     cycle \in DependencyCycles(DependencyGraph(candidates, lookup))}

--------------------------------------------------------------------------------
(* Curated rules.  An absent constraint is the set of all values, an absent   *)
(* part of a selector is None.                                                *)

targetMatchesRule(target, rule) ==
  /\ target.minecraftVersion \in rule.minecraftVersions
  /\ target.loader \in rule.loaders
  /\ target.side \in rule.sides

matchesSelector(candidate, selector) ==
  /\ selector.provider \in {None, candidate.source}
  /\ selector.projectId \in {None, candidate.projectId}
  /\ selector.slug \in {None, candidate.slug}
  /\ selector.versionId \in {None, candidate.versionId}

RuleIssues(candidates, rule) ==
  LET Ids(selector) == Identities(SelectSeq(candidates, LAMBDA c : matchesSelector(c, selector)))
      matches == [i \in DOMAIN rule.selectors |-> Ids(rule.selectors[i])]
      all == UNION ToSet(matches)
      subjects == IF matches = <<>> THEN {} ELSE matches[1]
      About(code, check) == {[makeIssue(code, rule.severity, id, check) EXCEPT !.rule = rule.ruleId]
                               : id \in subjects}
  IN CASE rule.type = "conflict" ->
            IF Len(matches) >= 2 /\ {} \notin ToSet(matches) /\ Cardinality(all) >= 2
            THEN {ConflictIssue(all, rule.severity, rule.ruleId)} ELSE {}
       [] rule.type = "requires" ->
            IF \E i \in DOMAIN matches : i > 1 /\ matches[i] = {}
            THEN About("REQUIRED_DEPENDENCY_MISSING", "dependencies") ELSE {}
       [] rule.type = "excludes_loader" -> About("LOADER_MISMATCH", "loader")
       [] rule.type = "excludes_minecraft_version" ->
            About("MINECRAFT_VERSION_MISMATCH", "minecraftVersion")
       [] OTHER -> About("SIDE_MISMATCH", "side")

analyzeRules(candidates, target, rules) ==
  UNION {RuleIssues(candidates, rule) :
           rule \in {r \in rules : r.enabled /\ targetMatchesRule(target, r)}}

--------------------------------------------------------------------------------
(* The whole analysis.                                                        *)

checkStatus(issues, check) ==
  LET relevant == {issue \in issues : issue.check = check}
  IN IF HasSeverity(relevant, {"blocker", "error"}) THEN "fail"
     ELSE IF \E issue \in relevant : issue.code \in UNKNOWN_CODES THEN "unknown"
     ELSE IF HasSeverity(relevant, {"warning"}) THEN "warning" ELSE "pass"

createChecks(issues, target) ==
  [check \in {"minecraftVersion", "loader", "side", "dependencies", "conflicts", "metadata"} |->
     IF check = "side" /\ target.side = "unknown" THEN "unknown" ELSE checkStatus(issues, check)]

createResourceResult(identity, issues, target) ==
  [status |-> deriveCompatibilityStatus(issues), issues |-> issues,
   checks |-> createChecks(issues, target), blocking |-> HasSeverity(issues, {"blocker"})]

summarizeCompatibilityResults(results, issues) ==
  [unknown |-> {id \in DOMAIN results : results[id].status = "unknown"},
   blockers |-> {issue \in issues : issue.severity = "blocker"}]

analyzeCompatibility(candidates, target, options) ==
  LET lookup == candidates \o options.dependencyCandidates
      unknownSeverity == options.treatUnknownAs
      issues ==
        UNION {IssueWhen(candidates = <<>>,
                 makeIssue("COMPATIBILITY_UNKNOWN", unknownSeverity, NoResource, "metadata")),
               UNION {analyzeCandidateMetadata(candidates[i], target, unknownSeverity)
                      \cup analyzeCandidateDependencies(candidates[i], lookup, unknownSeverity)
                        : i \in DOMAIN candidates},
               analyzeRequiredProjects(options.requiredProjectIds, lookup),
               analyzeDuplicates(candidates),
               analyzeDependencyCycles(candidates, lookup),
               analyzeRules(candidates, target, options.rules)}
      results == [id \in Identities(candidates) |->
                    createResourceResult(id, {i \in issues : Concerns(i, id)}, target)]
  IN [status |-> deriveCompatibilityStatus(issues), issues |-> issues,
      resourceResults |-> results, summary |-> summarizeCompatibilityResults(results, issues)]
===============================================================================
