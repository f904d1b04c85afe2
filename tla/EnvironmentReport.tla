-------------------------- MODULE EnvironmentReport ---------------------------
(* Environment reports and the probe policy                                   *)
(* (packages/shared-types/src/environment.ts, probePolicy.ts, and             *)
(* apps/desktop/src/lib/safePlatformProbe.ts).  A report keeps the fields a   *)
(* validator or the policy reads; a text is one of the classes the redaction  *)
(* patterns tell apart.                                                       *)
EXTENDS Naturals, FiniteSets

UserPaths == {"windows user path", "unix user path", "application data", "e-mail"}
OtherSensitive == {"drive path", "minecraft directory", "credential"}
Texts == UserPaths \cup OtherSensitive \cup {"none", "plain", "placeholder", "redacted"}

looksSensitive(text) == text \in UserPaths \cup OtherSensitive

redactSensitiveValue(text) == IF looksSensitive(text) THEN "redacted" ELSE text

(* The validator searches the JSON text of the report, in which a backslash   *)
(* is written twice: its pattern for Windows user paths cannot match there.   *)
FoundInJson(text) == text \in UserPaths \ {"windows user path"}

Permissions == [canWriteInstanceDirectory |-> FALSE, canLaunchProcess |-> FALSE,
                canDownload |-> FALSE, readOnlyProbeAllowed |-> FALSE]

baseEnvironmentReport ==
  [source |-> [mode |-> "mock", uploaded |-> FALSE,
               consentRequired |-> FALSE, consentGranted |-> FALSE],
   probe |-> [readOnly |-> TRUE, commandsExecuted |-> {"mock_environment_preview"},
              filesWritten |-> 0, networkRequests |-> 0],
   platform |-> [os |-> "unknown", arch |-> "unknown"],
   runtime |-> [tauriAvailable |-> FALSE],
   java |-> [status |-> "not_checked", path |-> "none"],
   minecraft |-> [directoryStatus |-> "not_checked", candidateDirectory |-> "placeholder",
                  scannedRecursively |-> FALSE],
   disk |-> [status |-> "not_checked", checkedPath |-> "none"],
   network |-> [status |-> "not_checked", checked |-> FALSE, requestsMade |-> 0],
   permissions |-> Permissions,
   readiness |-> [level |-> "preview_ready", blockers |-> {}],
   privacy |-> [localOnly |-> TRUE, uploadAllowed |-> FALSE,
                containsUserPath |-> FALSE, redacted |-> TRUE]]

createMockEnvironmentReport(platform, runtime) ==
  [baseEnvironmentReport EXCEPT
     !.platform = platform,
     !.runtime = runtime,
     !.readiness.blockers = {"REAL_PROBE_DISABLED"}]

(* Faulty variant: the checked disk path is left out.                         *)
redactEnvironmentReport_NoDisk(report) ==
  [report EXCEPT
     !.java.path = redactSensitiveValue(@),
     !.minecraft.candidateDirectory = redactSensitiveValue(@)]

redactEnvironmentReport(report) ==
  [report EXCEPT
     !.source.uploaded = FALSE,
     !.probe.readOnly = TRUE,
     !.probe.filesWritten = 0,
     !.probe.networkRequests = 0,
     !.java.path = redactSensitiveValue(@),
     !.minecraft.candidateDirectory = redactSensitiveValue(@),
     !.minecraft.scannedRecursively = FALSE,
     !.disk.checkedPath = redactSensitiveValue(@),
     !.network.checked = FALSE,
     !.network.requestsMade = 0,
     !.permissions = [Permissions EXCEPT
                        !.readOnlyProbeAllowed = report.permissions.readOnlyProbeAllowed],
     !.privacy = baseEnvironmentReport.privacy]

(* The fields both kinds of probe set in the same way.                        *)
ProbeSource(consent) ==
  [mode |-> "read_only_probe", uploaded |-> FALSE,
   consentRequired |-> consent.required, consentGranted |-> consent.granted]

ProbeReadiness(consent) ==
  IF consent.granted THEN [level |-> "ready_later", blockers |-> {}]
  ELSE [level |-> "not_ready", blockers |-> {"USER_CONSENT_REQUIRED"}]

mergeSafePlatformProbeIntoEnvironmentReport(report, result) ==
  redactEnvironmentReport(
    [report EXCEPT
       !.source = ProbeSource(result.consent),
       !.probe = [baseEnvironmentReport.probe EXCEPT !.commandsExecuted = {}],
       !.platform = result.platform,
       !.runtime = result.runtime,
       !.java = baseEnvironmentReport.java,
       !.minecraft = baseEnvironmentReport.minecraft,
       !.disk = baseEnvironmentReport.disk,
       !.network = baseEnvironmentReport.network,
       !.permissions = [Permissions EXCEPT !.readOnlyProbeAllowed = result.consent.granted],
       !.readiness = ProbeReadiness(result.consent),
       !.privacy = baseEnvironmentReport.privacy])

createSafePlatformProbeReport(input) ==
  mergeSafePlatformProbeIntoEnvironmentReport(
    createMockEnvironmentReport(baseEnvironmentReport.platform, baseEnvironmentReport.runtime),
    [consent |-> input.consent,
     platform |-> [os |-> input.os, arch |-> input.arch],
     runtime |-> [tauriAvailable |-> input.tauriAvailable]])

(* A probe result of the read-only adapter may carry findings about Java,     *)
(* directories and the disk.  The merge takes them over unread; the caller    *)
(* redacts the whole.                                                         *)
mergeProbeResultIntoEnvironmentReport(report, result) ==
  [report EXCEPT
     !.source = ProbeSource(result.consent),
     !.probe.commandsExecuted = result.commandsExecuted,
     !.java = result.java,
     !.minecraft.directoryStatus = result.minecraft.directoryStatus,
     !.minecraft.candidateDirectory = result.minecraft.candidateDirectory,
     !.minecraft.scannedRecursively = FALSE,
     !.disk = result.disk,
     !.network = baseEnvironmentReport.network,
     !.permissions = [Permissions EXCEPT !.readOnlyProbeAllowed = result.consent.granted],
     !.readiness = [ProbeReadiness(result.consent) EXCEPT !.blockers = {}],
     !.privacy = baseEnvironmentReport.privacy]

createReadOnlyProbeReport(consent, platform, runtime) ==
  LET base == createMockEnvironmentReport(platform, runtime)
  IN redactEnvironmentReport(
       IF consent.granted
       THEN mergeProbeResultIntoEnvironmentReport(base,
              [consent |-> consent,
               commandsExecuted |-> {"consented_read_only_probe_preview"},
               java |-> base.java, minecraft |-> base.minecraft, disk |-> base.disk])
       ELSE [base EXCEPT
               !.source = ProbeSource([required |-> TRUE, granted |-> FALSE]),
               !.probe.commandsExecuted = {},
               !.permissions.readOnlyProbeAllowed = FALSE,
               !.readiness = ProbeReadiness(consent)])

validateReadOnlyProbeSafety(report) ==
  /\ report.privacy.localOnly
  /\ ~report.privacy.uploadAllowed
  /\ ~report.source.uploaded
  /\ report.probe.readOnly
  /\ report.probe.filesWritten = 0
  /\ report.probe.networkRequests = 0
  /\ report.network.requestsMade = 0
  /\ ~report.permissions.canDownload
  /\ ~report.permissions.canLaunchProcess
  /\ ~report.permissions.canWriteInstanceDirectory
  /\ ~report.minecraft.scannedRecursively
  /\ \A text \in {report.java.path, report.minecraft.candidateDirectory, report.disk.checkedPath} :
        ~FoundInJson(text)

validateSafePlatformProbeSafety(report) ==
  /\ validateReadOnlyProbeSafety(report)
  /\ report.source.mode = "read_only_probe"
  /\ report.source.consentGranted
  /\ report.source.consentRequired
  /\ report.probe.commandsExecuted = {}
  /\ report.java = baseEnvironmentReport.java
  /\ report.minecraft.directoryStatus = "not_checked"
  /\ report.disk = baseEnvironmentReport.disk
  /\ report.network = baseEnvironmentReport.network
  /\ ~report.privacy.containsUserPath
  /\ report.privacy.redacted
-------------------------------------------------------------------------------
(* The probe policy.                                                          *)
ProbeCapability(level, milestones, consent, forbidden) ==
  [level |-> level, allowedMilestones |-> milestones, requiresConsent |-> consent,
   forbiddenByDefault |-> forbidden, uploadAllowed |-> FALSE, persistenceAllowed |-> FALSE]

(* Faulty variant: the platform capabilities belong to the earlier milestone. *)
EnabledCapabilities_Earlier ==
  [id \in {"mock_environment_report", "consented_read_only_preview",
           "read_os_arch", "read_app_version", "check_tauri_runtime"} |->
     IF id = "mock_environment_report" THEN ProbeCapability(0, {"M8.2", "M8.3"}, FALSE, FALSE)
     ELSE ProbeCapability(1, {"M8.2"}, TRUE, FALSE)]

EnabledCapabilities ==
  [id \in {"mock_environment_report", "consented_read_only_preview",
           "read_os_arch", "read_app_version", "check_tauri_runtime"} |->
     CASE id = "mock_environment_report" -> ProbeCapability(0, {"M8.2", "M8.3"}, FALSE, FALSE)
       [] id = "consented_read_only_preview" -> ProbeCapability(1, {"M8.2", "M8.3"}, TRUE, FALSE)
       [] OTHER -> ProbeCapability(2, {"M8.3"}, TRUE, TRUE)]

LOCAL SelectedDirectory == {"user_selected_directory_exists", "user_selected_directory_disk_space"}
LOCAL SystemProbes == {"java_version_probe", "network_connectivity_probe"}

FutureCapabilities ==
  [id \in SelectedDirectory \cup SystemProbes
          \cup {"environment_report_upload", "file_write", "process_launch", "resource_download"} |->
     ProbeCapability(CASE id \in SelectedDirectory -> 3
                       [] id \in SystemProbes -> 4
                       [] OTHER -> 5, {}, TRUE, TRUE)]

findCapability(id) ==
  IF id \in DOMAIN EnabledCapabilities THEN EnabledCapabilities[id] ELSE FutureCapabilities[id]

isCapabilityAllowed(id, milestone) ==
  LET capability == findCapability(id)
  IN /\ milestone \in capability.allowedMilestones
     /\ ~capability.uploadAllowed
     /\ ~capability.persistenceAllowed
     /\ capability.level < 5 \/ ~capability.forbiddenByDefault
-------------------------------------------------------------------------------
(* The desktop's probe.  A device is the set of the marks its browser hints   *)
(* contain.                                                                   *)
detectOs(hints) == CASE "win" \in hints -> "windows"
                     [] "win" \notin hints /\ "mac" \in hints -> "macos"
                     [] hints \cap {"win", "mac"} = {} /\ hints \cap {"linux", "x11"} # {} -> "linux"
                     [] OTHER -> "unknown"

detectArch(hints) == CASE hints \cap {"arm64", "aarch64"} # {} -> "arm64"
                       [] hints \cap {"arm64", "aarch64"} = {}
                          /\ hints \cap {"x86_64", "x64", "win64"} # {} -> "x64"
                       [] OTHER -> "unknown"

collectSafePlatformProbeInput(consentGranted, device) ==
  [consent |-> [required |-> TRUE, granted |-> consentGranted],
   os |-> detectOs(device.hints), arch |-> detectArch(device.hints),
   tauriAvailable |-> device.tauri]

runSafePlatformProbe(consentGranted, device) ==
  createSafePlatformProbeReport(collectSafePlatformProbeInput(consentGranted, device))
===============================================================================
