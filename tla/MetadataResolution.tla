-------------------------- MODULE MetadataResolution --------------------------
(* What becomes of the answers of the metadata service                        *)
(* (packages/api-client/src/modrinth.ts, providers/modrinthContracts.ts,      *)
(* providers/modrinthMetadataProvider.ts, metadataResourceResolver.ts and     *)
(* resourceResolver.ts).  An answer has a status and, when that is "ok", a    *)
(* body: projects or versions in the order the service lists them.            *)
EXTENDS CompatibilityAnalysis

(* A candidate, project or plan that is not there; an absent name is None.    *)
Null == <<>>

Ok(value) == [error |-> None, value |-> value]
Failure(error) == [error |-> error, value |-> Null]

requestJson(answer) ==
  IF answer.status = "ok" THEN Ok(answer.body) ELSE Failure(answer.status)

NonEmpty(answer, error) ==
  LET body == requestJson(answer) IN IF body = Ok(<<>>) THEN Failure(error) ELSE body

searchProjects(answer) == NonEmpty(answer, "no projects found")
getProjectVersions(answer) == NonEmpty(answer, "no versions found")

(* The first release, or else beta, or else, when asked for, alpha; the faulty *)
(* variant takes alpha without being asked.                                   *)
selectBestVersion_AnyAlpha(versions, minecraftVersion, loader, preference) ==
  LET Compatible(v) == minecraftVersion \in v.gameVersions /\ loader \in v.loaders
      First(type) == SelectInSeq(versions, LAMBDA v : Compatible(v) /\ v.versionType = type)
      Selected(type, warnings) == Ok([version |-> versions[First(type)], warnings |-> warnings])
  IN CASE First("release") > 0 -> Selected("release", {})
       [] First("release") = 0 /\ First("beta") > 0 -> Selected("beta", {"beta"})
       [] First("release") = 0 /\ First("beta") = 0 /\ First("alpha") > 0 ->
            Selected("alpha", {"alpha"})
       [] OTHER -> Failure("no compatible version")

selectBestVersion(versions, minecraftVersion, loader, preference) ==
  LET Compatible(v) == minecraftVersion \in v.gameVersions /\ loader \in v.loaders
      First(type) == SelectInSeq(versions, LAMBDA v : Compatible(v) /\ v.versionType = type)
      Selected(type, warnings) == Ok([version |-> versions[First(type)], warnings |-> warnings])
  IN CASE First("release") > 0 -> Selected("release", {})
       [] First("release") = 0 /\ First("beta") > 0 -> Selected("beta", {"beta"})
       [] /\ First("release") = 0 /\ First("beta") = 0 /\ First("alpha") > 0
          /\ preference = "experimental" -> Selected("alpha", {"alpha"})
       [] OTHER -> Failure(IF \E v \in ToSet(versions) : Compatible(v) THEN "only alpha versions"
                           ELSE "no compatible version")

(* `project' is Null when the version was found without one.                  *)
normalizeModrinthVersionToCandidate(selected, project) ==
  LET version == selected.version
  IN [source |-> "modrinth", projectId |-> version.projectId, versionId |-> version.id,
      slug |-> IF project = Null THEN version.projectId ELSE project.slug,
      gameVersions |-> version.gameVersions, loaders |-> version.loaders,
      versionType |-> version.versionType, files |-> version.files, hashes |-> version.hashes,
      dependencies |-> version.dependencies,
      clientSide |-> IF project = Null THEN "unknown" ELSE project.clientSide,
      serverSide |-> IF project = Null THEN "unknown" ELSE project.serverSide,
      metadataChecked |-> TRUE, warnings |-> selected.warnings]

IsExactMatch(project, query) == query \in {project.projectId, project.slug, project.title}

Message(code, about) == [code |-> code, about |-> about]

--------------------------------------------------------------------------------
(* The resolver of the planning pipeline (resourceResolver.ts): a query       *)
(* becomes a candidate or an error.                                           *)

(* The id or slug a query or a requirement names its project by.              *)
Identifier(query) == IF query.projectId # None THEN query.projectId ELSE query.slug

Result(query, candidate, warnings, errors) ==
  [query |-> query, candidate |-> candidate, warnings |-> warnings, errors |-> errors]

(* Queries refused before any request.                                        *)
Refused(query) ==
  \/ query.source \in {"curseforge", "github"}
  \/ query.gameVersion = "" \/ query.loader = ""

RefusedResult(query) ==
  IF query.source \in {"curseforge", "github"}
  THEN Result(query, Null, {Message("UNSUPPORTED_SOURCE", query.source)}, {})
  ELSE Result(query, Null, {}, {Message("MISSING_RESOLUTION_CONTEXT", None)})

QueryWarnings(query) ==
  {m \in {Message("NEEDS_VERIFICATION", query.canonicalName)} : query.needsVerification}

(* An exact match, or else the first hit.                                     *)
selectSearchProject(hits, query) ==
  LET exact == SelectInSeq(hits, LAMBDA h : IsExactMatch(h, query.query))
  IN [project |-> IF exact > 0 THEN hits[exact] ELSE hits[1],
      warnings |-> IF Len(hits) > 1 THEN {Message("AMBIGUOUS_SEARCH_RESULT", query.query)}
                   ELSE IF exact > 0 THEN {}
                   ELSE {Message("SEARCH_FALLBACK_USED", query.canonicalName)}]

(* Without an id or a slug in it a hit is of no use.                           *)
Usable(project) == {project.projectId, project.slug} # {None}

selectResolverVersion(versions, minecraftVersion, loader, preference) ==
  LET matching == SelectSeq(versions, LAMBDA v : minecraftVersion \in v.gameVersions)
  IN IF matching = <<>> THEN Failure("MINECRAFT_VERSION_MISMATCH")
     ELSE IF \A i \in DOMAIN matching : loader \notin matching[i].loaders
     THEN Failure("LOADER_MISMATCH")
     ELSE selectBestVersion(versions, minecraftVersion, loader, preference)

warningCodeFor(warning) ==
  CASE warning = "beta" -> "BETA_VERSION_SELECTED" [] warning = "alpha" -> "ALPHA_VERSION_SELECTED"

classifyResolverError(error, query) ==
  CASE error = "rate limit" -> Message("RATE_LIMIT", None)
    [] error \in {"http error", "not found"} -> Message("MODRINTH_HTTP_ERROR", error)
    [] error \in {"LOADER_MISMATCH", "MINECRAFT_VERSION_MISMATCH"} ->
         Message(error, query.canonicalName)
    [] error \in {"no compatible version", "only alpha versions"} ->
         Message("VERSION_NOT_FOUND", query.canonicalName)
    [] error \in {"no versions found", "no identifier"} ->
         Message("VERSION_NOT_FOUND", query.query)
    [] error = "no projects found" -> Message("PROJECT_NOT_FOUND", query.query)
    [] OTHER -> Message("RESOLVER_ERROR", error)

FailedResult(query, warnings, error) ==
  Result(query, Null, QueryWarnings(query) \cup warnings, {classifyResolverError(error, query)})

(* resolveByKnownIdentifier, or the second half of resolveBySearch.           *)
ResolvedResult(query, project, searchWarnings, answer, preference) ==
  LET versions == getProjectVersions(answer)
      selected == IF versions.error # None THEN versions
                  ELSE selectResolverVersion(versions.value, query.gameVersion, query.loader,
                                             preference)
  IN IF selected.error # None THEN FailedResult(query, searchWarnings, selected.error)
     ELSE LET candidate == normalizeModrinthVersionToCandidate(selected.value, project)
          IN Result(query, candidate,
                    UNION {QueryWarnings(query), searchWarnings,
                           {Message(warningCodeFor(w), query.canonicalName)
                              : w \in candidate.warnings}}, {})

--------------------------------------------------------------------------------
(* The metadata provider (modrinthMetadataProvider.ts): a requirement becomes *)
(* a match or issues.  `parse...' rejects a body part whose "valid" is FALSE. *)

Issue(code, severity, requirement) ==
  [code |-> code, severity |-> severity, requirementId |-> requirement.requirementId]

issueFromError(error, requirement, stage) ==
  LET missing == IF stage = "project" THEN "PROJECT_NOT_FOUND" ELSE "VERSION_NOT_FOUND"
      code == CASE error = "invalid" -> "INVALID_METADATA"
                [] error = "rate limit" -> "RATE_LIMITED"
                [] error \in {"not found", "no projects found", "no versions found",
                              "no compatible version", "only alpha versions"} -> missing
                [] OTHER -> "PROVIDER_UNAVAILABLE"
  IN Issue(code, "error", requirement)

(* One project the parser rejects and the whole answer is invalid.            *)
parseModrinthProjectMetadata(projects) ==
  IF \A i \in DOMAIN projects : projects[i].valid THEN Ok(projects) ELSE Failure("invalid")

parseModrinthVersionMetadata(versions) ==
  Chosen(versions, {i \in DOMAIN versions : versions[i].valid})

(* The project, the confidence in percent and the issues so far; or an error. *)
resolveProject(requirement, answer) ==
  LET known == Identifier(requirement) # None
      found == IF known THEN requestJson(answer) ELSE searchProjects(answer)
      projects == IF found.error # None THEN found ELSE parseModrinthProjectMetadata(found.value)
      Exact(p) == IsExactMatch(p, requirement.query)
      Best(p) == \A i \in DOMAIN projects.value :
                   LET q == projects.value[i]
                   IN \/ Exact(p) /\ ~Exact(q)
                      \/ (Exact(p) <=> Exact(q)) /\ Rank(p.projectId) <= Rank(q.projectId)
      best == projects.value[SelectInSeq(projects.value, Best)]
  IN CASE projects.error # None -> projects
       [] projects.error = None /\ known ->
            Ok([project |-> projects.value[1], confidence |-> 100, issues |-> {}])
       [] OTHER ->
            Ok([project |-> best, confidence |-> IF Exact(best) THEN 95 ELSE 65,
                issues |-> IF Len(projects.value) > 1
                           THEN {Issue("AMBIGUOUS_MATCH", "warning", requirement)} ELSE {}])

NoMatch(issues) == [match |-> Null, issues |-> issues]

Match(requirement, candidate, confidence, compatibility) ==
  [requirementId |-> requirement.requirementId, candidate |-> candidate,
   confidence |-> confidence, compatibility |-> compatibility]

SelectedMatch(requirement, found, selected) ==
  LET candidate == normalizeModrinthVersionToCandidate(selected, found.project)
      incomplete == ~candidate.files \/ ~candidate.hashes
  IN [match |-> Match(requirement, candidate, found.confidence,
                      IF incomplete THEN "incomplete" ELSE "compatible"),
      issues |-> {i \in {Issue("METADATA_INCOMPLETE", "warning", requirement)} : incomplete}]

resolveRequirement(requirement, found, answer, riskPreference) ==
  LET answered == getProjectVersions(answer)
      versions == parseModrinthVersionMetadata(answered.value)
      rejected == {i \in {Issue("INVALID_METADATA", "error", requirement)} :
                     Len(versions) < Len(answered.value)}
      game == Chosen(versions, {i \in DOMAIN versions :
                                  requirement.minecraftVersion \in versions[i].gameVersions})
      loader == Chosen(game, {i \in DOMAIN game : requirement.loader \in game[i].loaders})
      selected == selectBestVersion(loader, requirement.minecraftVersion, requirement.loader,
                                    riskPreference)
      Fails(issues) == NoMatch(UNION {found.issues, rejected, issues})
  IN IF answered.error # None
     THEN NoMatch(found.issues \cup {issueFromError(answered.error, requirement, "version")})
     ELSE IF versions = <<>> THEN Fails({})
     ELSE IF game = <<>> THEN Fails({Issue("MINECRAFT_VERSION_MISMATCH", "error", requirement)})
     ELSE IF loader = <<>> THEN Fails({Issue("LOADER_MISMATCH", "error", requirement)})
     ELSE IF selected.error # None
     THEN Fails({issueFromError(selected.error, requirement, "version")})
     ELSE LET made == SelectedMatch(requirement, found, selected.value)
          IN [made EXCEPT !.issues = UNION {@, found.issues, rejected}]

(* The matches of all providers, best first for each requirement, without     *)
(* repetitions.                                                               *)
sortAndDedupeMatches(matches, requirements, providers) ==
  LET Place(seq, x) == IF \E i \in DOMAIN seq : seq[i] = x
                       THEN CHOOSE i \in DOMAIN seq : seq[i] = x ELSE Len(seq) + 1
      Order(m) == <<Place([i \in DOMAIN requirements |-> requirements[i].requirementId],
                          m.requirementId),
                    Place(<<"compatible", "incomplete", "incompatible">>, m.compatibility),
                    100 - m.confidence, Place(providers, m.candidate.source)>>
      Id(m) == resourceCandidateIdentity(m.candidate)
      Precedes(m, n) ==
        \/ \E i \in 1..4 : Order(m)[i] < Order(n)[i] /\ \A j \in 1..(i - 1) : Order(m)[j] = Order(n)[j]
        \/ Order(m) = Order(n) /\ Before(Id(m), Id(n))
      Same(m, n) == m.requirementId = n.requirementId /\ Id(m) = Id(n)
      Kept(i) == ~\E j \in DOMAIN matches :
                    /\ Same(matches[i], matches[j])
                    /\ \/ Precedes(matches[j], matches[i])
                       \/ Order(matches[i]) = Order(matches[j]) /\ j < i
  IN Ordered({matches[i] : i \in {k \in DOMAIN matches : Kept(k)}}, Precedes)
===============================================================================
