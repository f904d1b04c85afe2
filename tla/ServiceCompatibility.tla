------------------------- MODULE ServiceCompatibility -------------------------
(* How a client judges the metadata of an MCAgent endpoint                    *)
(* (packages/shared-types/src/serviceInfo.ts and                              *)
(* packages/api-client/src/serviceInfo.ts).  Metadata is a record of the      *)
(* versions it names, the capabilities and the safety claims it sets to true. *)
(* `requireRecord' and its companions reject a payload as a whole, so a       *)
(* payload they reject is the one value "invalid".                            *)
EXTENDS FiniteSets

CONSTANT Null

Capabilities == {"intentParse", "resourcePlan", "planExplanation", "liveResourceResolver",
                 "installExecution", "localFileAccess", "environmentProbe", "minecraftLaunch"}
SafetyClaims == {"plannerOnly", "canDownload", "canWriteLocalFiles", "canLaunchProcesses"}

DEFAULT_CLIENT_SUPPORT ==
  [apiVersions |-> {"v1"}, schemaVersions |-> {"0.1.0"},
   requiredCapabilities |-> {"intentParse", "resourcePlan", "planExplanation"},
   optionalCapabilities |-> {}]

unsafeCapabilityClaims ==
  {"installExecution", "localFileAccess", "environmentProbe", "minecraftLaunch"}
unsafeSafetyClaims == {"canDownload", "canWriteLocalFiles", "canLaunchProcesses"}

VersionBlockers(info) ==
  {c \in {"API_VERSION_INCOMPATIBLE", "SCHEMA_VERSION_INCOMPATIBLE"} :
     \/ c = "API_VERSION_INCOMPATIBLE"
        /\ info.apiVersion \notin DEFAULT_CLIENT_SUPPORT.apiVersions
     \/ c = "SCHEMA_VERSION_INCOMPATIBLE"
        /\ \/ info.schemaVersion \notin DEFAULT_CLIENT_SUPPORT.schemaVersions
           \/ info.supportedSchemaVersions \cap DEFAULT_CLIENT_SUPPORT.schemaVersions = {}}

CapabilityBlockers(info) ==
  {c \in {"REQUIRED_CAPABILITY_MISSING"} :
     ~(DEFAULT_CLIENT_SUPPORT.requiredCapabilities \subseteq info.capabilities)}

UnsafeBlockers(info) ==
  {c \in {"UNSAFE_CAPABILITY_DECLARED"} :
     \/ "plannerOnly" \notin info.safety
     \/ info.capabilities \cap unsafeCapabilityClaims # {}
     \/ info.safety \cap unsafeSafetyClaims # {}}

Warnings(info) ==
  {c \in {"OPTIONAL_CAPABILITY_MISSING"} :
     ~(DEFAULT_CLIENT_SUPPORT.optionalCapabilities \subseteq info.capabilities)}
  \cup {c \in {"OFFLINE_RESOLVER_LIMITATION"} : "liveResourceResolver" \notin info.capabilities}

(* Faulty variant: unsafe declarations are not looked at.                     *)
evaluateServiceCompatibility_IgnoreUnsafe(info) ==
  IF VersionBlockers(info) \cup CapabilityBlockers(info) # {} THEN "incompatible"
  ELSE IF "OPTIONAL_CAPABILITY_MISSING" \in Warnings(info) THEN "degraded" ELSE "compatible"

evaluateServiceCompatibility(info) ==
  IF VersionBlockers(info) \cup CapabilityBlockers(info) \cup UnsafeBlockers(info) # {}
  THEN "incompatible"
  ELSE IF "OPTIONAL_CAPABILITY_MISSING" \in Warnings(info) THEN "degraded" ELSE "compatible"

(* What `GET /v1/meta' comes back as: metadata, a body `parseServiceInfo'      *)
(* rejects, an HTTP error, or no answer at all.                               *)
Metas(infos) ==
  [answer : {"metadata"}, info : infos]
  \cup [answer : {"invalid", "http error", "unreachable"}, info : {Null}]

(* The metadata and the status the connection panel shows after the check.    *)
getServiceInfo(meta) == IF meta.answer = "metadata" THEN meta.info ELSE Null

(* Faulty variant: the compatibility is taken for the connection status.      *)
checkServiceCompatibility_Raw(meta) ==
  CASE meta.answer \in {"http error", "unreachable"} -> "unreachable"
    [] meta.answer = "invalid" -> "incompatible"
    [] meta.answer = "metadata" -> evaluateServiceCompatibility(meta.info)

checkServiceCompatibility(meta) ==
  CASE meta.answer \in {"http error", "unreachable"} -> "unreachable"
    [] meta.answer = "invalid" -> "incompatible"
    [] meta.answer = "metadata" ->
         IF evaluateServiceCompatibility(meta.info) = "compatible" THEN "connected"
         ELSE evaluateServiceCompatibility(meta.info)
===============================================================================
