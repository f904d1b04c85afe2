------------------------------ MODULE MCPlanning ------------------------------
EXTENDS PlanningProperties

MCNames == <<"curseforge", "github-releases", "mcmod", "modrinth",
             "p1", "p2", "p3", "unresolved", "v1", "v2", "v3">>

(* Aliases: a dependency known by its id, one found by search under two       *)
(* entries, one known by its slug.                                            *)
Entry(name, alias, tag, loaders, projectId, slug, unverified) ==
  [canonicalName |-> name, aliases |-> {alias}, tags |-> {tag}, loaders |-> loaders,
   projectId |-> projectId, slug |-> slug, needsVerification |-> unverified]

MCAliasEntries ==
  <<Entry("Fabric API", "api", "dependency", <<"fabric">>, "p1", None, FALSE),
    Entry("minimap", "map", "utility", <<>>, None, None, TRUE),
    Entry("minimap", "radar", "utility", <<>>, None, None, TRUE),
    Entry("Iris Shaders", "shader", "shader", <<"fabric">>, None, "iris", FALSE)>>

Intent(words, goals, version) ==
  [intentId |-> "intent", words |-> words, features |-> {}, goals |-> goals,
   minecraftVersion |-> version, stable |-> TRUE]

--------------------------------------------------------------------------------
(* The service.                                                               *)

Hit(projectId, title, side, valid) ==
  [projectId |-> projectId, slug |-> projectId, title |-> title,
   clientSide |-> "required", serverSide |-> side, valid |-> valid]

Release == [id |-> "v1", projectId |-> "p1", versionType |-> "release",
            gameVersions |-> {"1.20.1"}, loaders |-> {"fabric"}, files |-> TRUE, hashes |-> TRUE,
            dependencies |-> {}, valid |-> TRUE]
Other == [Release EXCEPT !.id = "v2", !.projectId = "p2",
            !.dependencies = {[type |-> "required", projectId |-> "p1", versionId |-> None]}]
Beta == [Other EXCEPT !.versionType = "beta", !.hashes = FALSE]
Alpha == [Other EXCEPT !.id = "v3", !.versionType = "alpha"]

Body(body) == [status |-> "ok", body |-> body]
Failed(statuses) == [status : statuses, body : {<<>>}]

MCAnswers(kind) ==
  CASE kind = "projects" ->
         {Body(<<>>), Body(<<Hit("p2", "minimap", "optional", TRUE)>>),
          Body(<<Hit("p3", "other", "unsupported", TRUE), Hit("p2", "minimap", "optional", TRUE)>>),
          Body(<<Hit("p3", "other", "unsupported", TRUE)>>),
          Body(<<Hit(None, "minimap", "optional", FALSE)>>),
          Body(<<Hit("p2", "minimap", "optional", TRUE), Hit("p3", "other", "required", FALSE)>>)}
         \cup Failed({"rate limit", "unreachable"})
    [] kind = "project" ->
         {Body(<<Hit("p1", "Fabric API", "required", TRUE)>>),
          Body(<<Hit("p1", "Fabric API", "required", FALSE)>>)}
         \cup Failed({"not found"})
    [] kind = "versions" ->
         {Body(<<>>), Body(<<Alpha, Beta, Release>>), Body(<<Alpha, Beta>>), Body(<<Alpha>>),
          Body(<<Other>>), Body(<<[Other EXCEPT !.valid = FALSE]>>),
          Body(<<[Release EXCEPT !.loaders = {"forge"}]>>),
          Body(<<[Release EXCEPT !.gameVersions = {"1.16"}]>>)}
         \cup Failed({"rate limit", "http error"})

--------------------------------------------------------------------------------
(* Injected resolvers: every graph of three projects, every way one candidate *)
(* declares itself, and the few candidates of the review.                     *)

Dependency(type, projectId) == [type |-> type, projectId |-> projectId, versionId |-> None]

Candidate(projectId, versionId, dependencies) ==
  [source |-> "modrinth", projectId |-> projectId, versionId |-> versionId, slug |-> projectId,
   gameVersions |-> {"1.20.1"}, loaders |-> {"fabric"}, versionType |-> "release",
   files |-> TRUE, hashes |-> TRUE, dependencies |-> dependencies,
   clientSide |-> "required", serverSide |-> "optional", metadataChecked |-> TRUE,
   warnings |-> {}]

MCResolved(name) ==
  CASE name = "graph" ->
         LET Requires(ps) == {Dependency("required", p) : p \in ps}
             ps == {"p1", "p2", "p3"}
         IN {<<Candidate("p1", "v1", Requires(a)), Candidate("p2", "v1", Requires(b)),
               Candidate("p3", "v1", Requires(c))>> : a, b, c \in SUBSET ps}
    [] name = "declared" ->
         {<<[Candidate("p1", "v1", {}) EXCEPT
               !.gameVersions = games, !.loaders = loaders, !.clientSide = client,
               !.serverSide = server, !.files = files, !.metadataChecked = files,
               !.hashes = hashes]>> :
            games \in {{}, {"1.16"}, {"1.20.1"}}, loaders \in {{}, {"forge"}, {"fabric"}},
            client, server \in {"required", "unsupported", "unknown"},
            files, hashes \in BOOLEAN}
    [] name = "related" ->
         LET first == Candidate("p1", "v1", {})
             second == Candidate("p2", "v2", {})
         IN {<<first, [second EXCEPT !.dependencies = {[type |-> type, projectId |-> project,
                                                        versionId |-> version]}]>> :
               type \in {"required", "optional", "incompatible"},
               project \in {None, "p1", "p3"}, version \in {None, "v1", "v3"}}
            \cup {<<[first EXCEPT !.dependencies = {Dependency(type, "p2")}],
                     [second EXCEPT !.dependencies = {Dependency("required", "p1")}]>> :
                    type \in {"required", "optional", "embedded"}}
            \cup {<<first, [first EXCEPT !.dependencies = {Dependency("required", "p1")}]>>,
                  <<first, [first EXCEPT !.versionId = "v2"]>>,
                  <<first, [second EXCEPT !.slug = "p1"]>>,
                  <<[first EXCEPT !.source = "curseforge"]>>}
    [] name = "review" ->
         {<<Candidate("p1", "v1", {})>>, <<Candidate("p2", "v2", {})>>,
          <<[Candidate("p3", "v1", {}) EXCEPT !.loaders = {"forge"}]>>,
          <<[Candidate("p3", "v1", {}) EXCEPT !.hashes = FALSE]>>}

--------------------------------------------------------------------------------
(* Calls.                                                                     *)

NoRules == [treatUnknownAs |-> "warning", requiredProjectIds |-> {}, rules |-> {},
            dependencyCandidates |-> <<>>]

Selector(project) == [provider |-> None, projectId |-> project, slug |-> None, versionId |-> None]

Rule(type, severity, projects) ==
  [ruleId |-> type, type |-> type, selectors |-> projects, severity |-> severity, enabled |-> TRUE,
   minecraftVersions |-> {"1.20.1"}, loaders |-> {"fabric"}, sides |-> {"client", "both"}]

Strict ==
  [treatUnknownAs |-> "blocker", requiredProjectIds |-> {"p3"},
   dependencyCandidates |-> <<Candidate("p3", "v3", {})>>,
   rules |-> {Rule("conflict", "error", <<Selector("p1"), Selector("p2")>>),
              Rule("requires", "warning", <<Selector("p1"), Selector("p3")>>),
              Rule("excludes_loader", "info", <<Selector("p2")>>),
              Rule("excludes_minecraft_version", "info", <<Selector("p2")>>),
              Rule("side_constraint", "warning", <<Selector("p2")>>)}]

Options(network, preference) ==
  [enableNetwork |-> network, riskPreference |-> preference, minecraftVersion |-> None]

PlanCall(intent, options, resolver, side, analyzerOptions, rounds, proposals) ==
  [kind |-> "plan", intent |-> intent, options |-> options, resolver |-> resolver, side |-> side,
   analyzerOptions |-> analyzerOptions, rounds |-> rounds, proposals |-> proposals]

Searching == Intent({"api", "map"}, {}, "1.20.1")

Evidence(scopes) ==
  [i \in DOMAIN scopes |-> [scope |-> scopes[i], gate |-> requiredGateForAuthorizationScope(scopes[i])]]

Proposal(kind, empty, capabilities, evidence) ==
  [workspace |-> [kind |-> kind, observedEmptyAtReview |-> empty],
   capabilities |-> capabilities, evidence |-> evidence]

MCProposals ==
  {Proposal("app-managed", TRUE, <<"workspace-mutate">>,
            Evidence(<<"local-executor", "workspace-mutate">>)),
   Proposal("app-managed", TRUE, <<"artifact-download", "workspace-mutate">>,
            Evidence(<<"local-executor", "workspace-mutate">>)),
   Proposal("user-selected", TRUE, <<"workspace-mutate">>,
            Evidence(<<"local-executor", "user-selected-workspace", "workspace-mutate">>)),
   Proposal("user-selected", FALSE, <<"workspace-mutate">>,
            Evidence(<<"local-executor", "user-selected-workspace", "workspace-mutate">>)),
   Proposal("app-managed", TRUE, <<"workspace-mutate">>,
            [Evidence(<<"local-executor", "workspace-mutate">>) EXCEPT ![2].gate = "GATE-NET-01"])}

PlanJobs ==
  {PlanCall(Searching, Options(TRUE, preference), None, "client", NoRules, 1, {}) :
     preference \in {None, "experimental"}}
  \cup {PlanCall(Intent({}, {"performance", "shader"}, "1.20.1"), Options(TRUE, None), None,
                 "both", NoRules, 1, {}),
        PlanCall(Intent({"api", "map"}, {}, ""), Options(TRUE, None), None, "client", NoRules, 1, {}),
        PlanCall(Searching, Options(FALSE, None), None, "client", NoRules, 2, {}),
        PlanCall(Searching, Options(TRUE, None), "graph", "client", NoRules, 1, {}),
        PlanCall(Searching, Options(FALSE, None), "related", "client", NoRules, 1, {}),
        PlanCall(Searching, Options(FALSE, None), "related", "client", Strict, 1, {}),
        PlanCall(Searching, Options(FALSE, None), "review", "client", NoRules, 2, MCProposals)}
  \cup {PlanCall(Searching, Options(FALSE, None), "declared", side, NoRules, 1, {}) :
          side \in {"client", "both", "unknown"}}

Requirement(id, projectId, query) ==
  [requirementId |-> id, projectId |-> projectId, slug |-> None, query |-> query,
   minecraftVersion |-> "1.20.1", loader |-> "fabric"]

MetadataCall(requirements, allowedProviders, policy) ==
  [kind |-> "metadata", requirements |-> requirements, allowedProviders |-> allowedProviders,
   networkPolicy |-> policy, riskPreference |-> "stable", rounds |-> 1, proposals |-> {},
   target |-> [minecraftVersion |-> "1.20.1", loader |-> "fabric", side |-> "client"],
   analyzerOptions |-> NoRules]

MetadataJobs ==
  LET api == Requirement("r1", "p1", "Fabric API")
      map == Requirement("r2", None, "minimap")
  IN {MetadataCall(<<api, map>>, <<"curseforge", "modrinth">>, "metadata-only"),
      MetadataCall(<<api>>, <<"modrinth", "modrinth">>, "metadata-only"),
      MetadataCall(<<api, map>>, <<"modrinth">>, "offline")}

MCJobs == PlanJobs \cup MetadataJobs
===============================================================================
