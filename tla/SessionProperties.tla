-------------------------- MODULE SessionProperties ---------------------------
(* What a client session guarantees, on either surface.                       *)
EXTENDS ClientSession

Statuses == {"checking", "connected", "degraded", "incompatible", "unreachable"}

Calls == [operation : {"intent", "plan"}, call : {"parse"}, body : Prompts]
         \cup [operation : {"plan"}, call : {"plan"}, body : Intents]
         \cup [operation : {"explain"}, call : {"explain"}, body : Plans]

(* Type invariant.                                                            *)
TypeOK ==
  /\ surface \in {"desktop", "web"}
  /\ prompt \in Prompts \cup {Blank}
  /\ intent \in Intents \cup {Null}
  /\ planResponse \in Plans \cup {Null}
  /\ explanation \in Plans \cup {Null}
  /\ installPreview \in Plans \cup {Null}
  /\ pending \in Operations \cup {Null}
  /\ requests \subseteq Calls
  /\ connection \in [status : Statuses, serviceInfo : ServiceInfos \cup {Null}]
  /\ checks \in 0 .. MaxChecks
  /\ showProbeConsent \in BOOLEAN
  /\ confirmationMessage \in Notices \cup {Null}

(* The operation the buttons wait for is the one that has a request in        *)
(* flight, and it has exactly one: no second request starts beside it, none   *)
(* is lost without freeing the buttons (withPending and the button guards;    *)
(* the desktop's generate replaces one request by the next).                  *)
OneRequest ==
  /\ pending = Null => requests = {}
  /\ pending # Null => \E request \in requests :
                         /\ requests = {request}
                         /\ request.operation = pending

(* The plan on display was made from the intent on display, and explanation   *)
(* and preview from the plan on display, however long their requests took     *)
(* (the setters after each await in App.tsx and ApiPlayground.tsx).           *)
ResultsAgree ==
  /\ planResponse # Null => intent # Null /\ planResponse.intent = intent
  /\ explanation \in {Null, planResponse}
  /\ installPreview \in {Null, planResponse}

(* What a request in flight was sent is still what the session shows, so its  *)
(* answer is never one about replaced data.                                   *)
RequestsCurrent ==
  \A request \in requests :
    /\ request.call = "plan" => intent = request.body
    /\ request.call = "explain" => planResponse = request.body
    /\ request.operation = "plan" /\ request.call = "parse" => intent = Null

(* The panel says "checking", and disables its button, only while an answer   *)
(* is still to come; otherwise the button would stay disabled for good.       *)
CheckingHasCheck == connection.status = "checking" => checks > 0

(* Whenever the planning buttons are enabled the metadata on display is that  *)
(* of a compatible endpoint: it plans, it names a version the client knows,   *)
(* and it declares no ability to execute anything (ADR 0003, Capability       *)
(* Negotiation), whichever check and whichever failed request came last.      *)
ReadyMeansCompatible ==
  serverReady =>
    /\ connection.serviceInfo # Null
    /\ connection.serviceInfo.apiVersion \in DEFAULT_CLIENT_SUPPORT.apiVersions
    /\ {"intentParse", "resourcePlan", "planExplanation"}
         \subseteq connection.serviceInfo.capabilities
    /\ connection.serviceInfo.safety = {"plannerOnly"}
    /\ connection.serviceInfo.capabilities
         \cap {"installExecution", "localFileAccess", "environmentProbe", "minecraftLaunch"} = {}

(* The notice that a safe probe was made is shown only together with a report *)
(* made with consent that the safety validation accepts, never beside the     *)
(* mock report or none (the handlers of the environment panel, in any order). *)
NoticeTruthful ==
  confirmationMessage = "probe safe" =>
    /\ environmentReport # Null
    /\ environmentReport.source.consentGranted
    /\ validateSafePlatformProbeSafety(environmentReport)

(* The capability of the probe policy each fact of a report needs.            *)
NeededCapabilities(report) ==
  {IF report.source.mode = "mock" THEN "mock_environment_report"
                                  ELSE "consented_read_only_preview"}
  \cup {c \in {"read_os_arch"} : report.platform # baseEnvironmentReport.platform}
  \cup {c \in {"check_tauri_runtime"} : report.runtime.tauriAvailable}
  \cup {c \in {"java_version_probe"} : report.java.status # "not_checked"}
  \cup {c \in {"user_selected_directory_exists"} :
          report.minecraft.directoryStatus # "not_checked"}
  \cup {c \in {"user_selected_directory_disk_space"} : report.disk.status # "not_checked"}
  \cup {c \in {"network_connectivity_probe"} : report.network.checked}
  \cup {c \in {"environment_report_upload"} : report.source.uploaded}
  \cup {c \in {"file_write"} : report.probe.filesWritten > 0}
  \cup {c \in {"process_launch"} : report.permissions.canLaunchProcess}
  \cup {c \in {"resource_download"} : report.permissions.canDownload}

(* Every fact of the report on display is licensed by the policy of milestone *)
(* M8.3, with the user's consent where the policy asks for it.  The code      *)
(* never consults probePolicy.ts when it makes a report: the two must agree   *)
(* by themselves.                                                             *)
ReportWithinPolicy ==
  environmentReport # Null =>
    \A c \in NeededCapabilities(environmentReport) :
       /\ isCapabilityAllowed(c, "M8.3")
       /\ findCapability(c).requiresConsent => environmentReport.source.consentGranted

(* What a read-only adapter may find: any class of text at each place.        *)
ProbeTexts == {"none", "windows user path", "unix user path", "minecraft directory"}
ProbeResults ==
  {[consent |-> [required |-> TRUE, granted |-> granted],
    commandsExecuted |-> {"consented_read_only_probe_preview"},
    java |-> [status |-> "detected", path |-> p],
    minecraft |-> [directoryStatus |-> "candidate_only", candidateDirectory |-> q,
                   scannedRecursively |-> FALSE],
    disk |-> [status |-> "checked", checkedPath |-> p]] :
   granted \in BOOLEAN, p \in ProbeTexts, q \in ProbeTexts}

(* A report with the findings of a read-only adapter, redacted, keeps no      *)
(* sensitive text at any place and passes the safety validation, whatever the *)
(* adapter found and whichever report it is merged into.                      *)
ProbeReportsRedacted ==
  environmentReport # Null =>
    \A result \in ProbeResults :
      LET report == redactEnvironmentReport(
                      mergeProbeResultIntoEnvironmentReport(environmentReport, result))
      IN /\ validateReadOnlyProbeSafety(report)
         /\ ~validateSafePlatformProbeSafety(report)
         /\ {report.java.path, report.minecraft.candidateDirectory, report.disk.checkedPath}
              \subseteq {"none", "redacted"}
         /\ report.permissions.readOnlyProbeAllowed = result.consent.granted

(* Both surfaces keep the abstract session: see PlanningSession.              *)
Session == INSTANCE PlanningSession
ImplementsPlanningSession == Session!Spec
===============================================================================
