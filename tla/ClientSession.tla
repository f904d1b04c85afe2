---------------------------- MODULE ClientSession -----------------------------
(* A client session: the state of the desktop shell                           *)
(* (apps/desktop/src/App.tsx) or of the web playground                        *)
(* (apps/web/src/components/ApiPlayground.tsx), the requests it has in        *)
(* flight, and the user.  An event handler runs up to its first `await' in    *)
(* one step; what follows an `await' is a step of its own, so that other      *)
(* buttons and other answers come in between.                                 *)
(*                                                                            *)
(* Both surfaces keep the same results and connection; the consent dialogue,  *)
(* the environment report and the notice exist on the desktop only.           *)
EXTENDS ServiceCompatibility, EnvironmentReport

CONSTANTS
  Blank, Prompts,    \* a prompt of blanks only; the others
  Intents,           \* what the endpoint may parse a prompt into
  Answers,           \* what it may answer for an intent: a plan, or a body that
  PlanAnswers,       \*   a client cannot read as one
  ServiceInfos,      \* the metadata endpoints declare
  Devices,           \* where the desktop runs
  MaxChecks          \* bound on connection checks in flight at a time

ASSUME ChecksAssumption == MaxChecks \in Nat

(* The metadata a parsed payload gives claims nothing but the known claims.   *)
ASSUME ServiceInfosAssumption == \A info \in ServiceInfos : info.safety \subseteq SafetyClaims

VARIABLES
  surface,           \* "desktop" or "web"
  prompt, intent, planResponse, explanation, installPreview,
  pending,           \* the operation the buttons wait for
  requests,          \* planning requests in flight
  connection,        \* status and metadata of the connection panel
  checks,            \* number of connection checks in flight
  environmentReport, showProbeConsent, confirmationMessage

results == <<intent, planResponse, explanation, installPreview>>
probing == <<environmentReport, showProbeConsent>>
vars == <<surface, prompt, results, pending, requests, connection, checks,
          probing, confirmationMessage>>

Plans == [intent : Intents, answer : Answers]
Operations == {"intent", "plan", "explain"}

Notices == {"preview only", "cancelled", "probe safe", "probe blocked"}

ASSUME NullAssumption ==
  /\ Null \notin Intents /\ Null \notin Plans /\ Null \notin ServiceInfos
  /\ Null \notin Operations /\ Null \notin Notices
  /\ \A device \in Devices : Null # runSafePlatformProbe(TRUE, device)

serverReady == connection.status \in {"connected", "degraded"}

(* The plan a preview can be built from.                                      *)
extractPlan(response) ==
  IF response = Null THEN Null
  ELSE IF response.answer \in PlanAnswers THEN response ELSE Null

(* The connection check that runs when the component is mounted; under        *)
(* React's StrictMode a development build runs it twice.                      *)
Init ==
  /\ surface \in {"desktop", "web"}
  /\ prompt \in Prompts
  /\ intent = Null /\ planResponse = Null /\ explanation = Null /\ installPreview = Null
  /\ pending = Null
  /\ requests = {}
  /\ connection = [status |-> "checking", serviceInfo |-> Null]
  /\ checks \in 1 .. MaxChecks
  /\ environmentReport = Null
  /\ showProbeConsent = FALSE
  /\ confirmationMessage = Null
-------------------------------------------------------------------------------
(* Connection checks.                                                         *)
runCheckConnection ==
  /\ connection.status # "checking"
  /\ checks < MaxChecks
  /\ connection' = [connection EXCEPT !.status = "checking"]
  /\ checks' = checks + 1
  /\ UNCHANGED <<surface, prompt, results, pending, requests, probing, confirmationMessage>>

(* Faulty variant: an HTTP error leaves the panel as it is.                   *)
CheckAnswered_Stuck(meta) ==
  /\ checks > 0
  /\ checks' = checks - 1
  /\ connection' = IF meta.answer = "http error" THEN connection
                   ELSE [status |-> checkServiceCompatibility(meta),
                         serviceInfo |-> getServiceInfo(meta)]
  /\ UNCHANGED <<surface, prompt, results, pending, requests, probing, confirmationMessage>>

(* A check is answered and its result shown, the newest check or not.         *)
CheckAnswered(meta) ==
  /\ checks > 0
  /\ checks' = checks - 1
  /\ connection' = [status |-> checkServiceCompatibility(meta),
                    serviceInfo |-> getServiceInfo(meta)]
  /\ UNCHANGED <<surface, prompt, results, pending, requests, probing, confirmationMessage>>
-------------------------------------------------------------------------------
(* Planning requests.  `pending' disables the buttons; each operation of the  *)
(* user starts with no other pending.                                         *)
EditPrompt ==
  /\ prompt' \in (Prompts \cup {Blank}) \ {prompt}
  /\ UNCHANGED <<surface, results, pending, requests, connection, checks, probing,
                 confirmationMessage>>

(* Faulty variant: a pending operation does not disable the buttons.          *)
withPending_Enabled(operation, request) ==
  /\ pending' = operation
  /\ requests' = requests \cup {request}
  /\ confirmationMessage' = Null
  /\ UNCHANGED <<surface, prompt, results, connection, checks, probing>>

withPending(operation, request) ==
  /\ pending = Null
  /\ pending' = operation
  /\ requests' = requests \cup {request}
  /\ confirmationMessage' = Null
  /\ UNCHANGED <<surface, prompt, results, connection, checks, probing>>

runParseIntent ==
  /\ serverReady
  /\ prompt # Blank
  /\ withPending("intent", [operation |-> "intent", call |-> "parse", body |-> prompt])

(* The desktop parses the prompt first when there is no intent yet; the web   *)
(* playground asks for an intent.                                             *)
runGeneratePlan ==
  /\ serverReady
  /\ \/ /\ surface = "desktop"
        /\ prompt # Blank
        /\ intent = Null
        /\ withPending("plan", [operation |-> "plan", call |-> "parse", body |-> prompt])
     \/ /\ surface = "desktop" => prompt # Blank
        /\ intent # Null
        /\ withPending("plan", [operation |-> "plan", call |-> "plan", body |-> intent])

(* What the plan endpoint answered is sent whether there is a plan in it or    *)
(* not: the desktop looks for one, and takes the answer itself if it finds    *)
(* none.                                                                      *)
runExplainPlan ==
  /\ serverReady
  /\ planResponse # Null
  /\ withPending("explain", [operation |-> "explain", call |-> "explain", body |-> planResponse])

(* The end of an operation.                                                   *)
Finish(request) ==
  /\ pending' = Null
  /\ requests' = requests \ {request}
  /\ UNCHANGED <<surface, prompt, checks, probing, confirmationMessage>>

(* Faulty variant: the plan of the previous intent stays.                     *)
IntentParsed_KeepPlan(request, parsed) ==
  /\ request.operation = "intent"
  /\ intent' = parsed
  /\ explanation' = Null
  /\ installPreview' = Null
  /\ UNCHANGED <<planResponse, connection>>
  /\ Finish(request)

(* A parsed intent replaces everything derived from the previous one.         *)
IntentParsed(request, parsed) ==
  /\ request.operation = "intent"
  /\ intent' = parsed
  /\ planResponse' = Null
  /\ explanation' = Null
  /\ installPreview' = Null
  /\ UNCHANGED connection
  /\ Finish(request)

(* The desktop's generate goes on from the parsed intent to the plan without  *)
(* looking at the connection again.                                           *)
IntentParsedForPlan(request, parsed) ==
  /\ request.operation = "plan" /\ request.call = "parse"
  /\ intent' = parsed
  /\ requests' = (requests \ {request})
                 \cup {[operation |-> "plan", call |-> "plan", body |-> parsed]}
  /\ UNCHANGED <<surface, prompt, planResponse, explanation, installPreview, pending,
                 connection, checks, probing, confirmationMessage>>

(* Faulty variant: the preview of the previous plan stays.                    *)
PlanGenerated_KeepPreview(request, answer) ==
  /\ request.call = "plan"
  /\ planResponse' = [intent |-> request.body, answer |-> answer]
  /\ explanation' = Null
  /\ UNCHANGED <<intent, installPreview, connection>>
  /\ Finish(request)

PlanGenerated(request, answer) ==
  /\ request.call = "plan"
  /\ planResponse' = [intent |-> request.body, answer |-> answer]
  /\ intent' = IF surface = "desktop" THEN request.body ELSE intent
  /\ explanation' = Null
  /\ installPreview' = Null
  /\ UNCHANGED connection
  /\ Finish(request)

PlanExplained(request) ==
  /\ request.call = "explain"
  /\ explanation' = request.body
  /\ UNCHANGED <<intent, planResponse, installPreview, connection>>
  /\ Finish(request)

(* A request that does not reach the endpoint marks it unreachable, a check   *)
(* in flight or not; an error answer changes only the error line.             *)
RequestFailed(request) ==
  /\ \/ connection' = [connection EXCEPT !.status = "unreachable"]
     \/ UNCHANGED connection
  /\ UNCHANGED results
  /\ Finish(request)
-------------------------------------------------------------------------------
(* The install preview is computed from the plan on display, in one step.     *)
runGenerateInstallPreview ==
  /\ pending = Null
  /\ planResponse # Null
  /\ surface = "web" => extractPlan(planResponse) # Null
  /\ installPreview' = IF extractPlan(planResponse) = Null THEN installPreview ELSE planResponse
  /\ confirmationMessage' = Null
  /\ UNCHANGED <<surface, prompt, intent, planResponse, explanation, pending, requests,
                 connection, checks, probing>>

confirmPreviewOnly ==
  /\ surface = "desktop"
  /\ pending = Null
  /\ installPreview # Null
  /\ confirmationMessage' = "preview only"
  /\ UNCHANGED <<surface, prompt, results, pending, requests, connection, checks, probing>>

(* Faulty variant: the notice of an earlier probe stays.                      *)
runGenerateEnvironmentPreview_KeepNotice ==
  /\ surface = "desktop"
  /\ environmentReport' = createMockEnvironmentReport(baseEnvironmentReport.platform,
                                                      baseEnvironmentReport.runtime)
  /\ UNCHANGED <<surface, prompt, results, pending, requests, connection, checks,
                 showProbeConsent, confirmationMessage>>

(* The buttons of the environment panel are enabled at any time.              *)
runGenerateEnvironmentPreview ==
  /\ surface = "desktop"
  /\ environmentReport' = createMockEnvironmentReport(baseEnvironmentReport.platform,
                                                      baseEnvironmentReport.runtime)
  /\ confirmationMessage' = Null
  /\ UNCHANGED <<surface, prompt, results, pending, requests, connection, checks,
                 showProbeConsent>>

openProbeConsent ==
  /\ surface = "desktop"
  /\ showProbeConsent' = TRUE
  /\ confirmationMessage' = Null
  /\ UNCHANGED <<surface, prompt, results, pending, requests, connection, checks,
                 environmentReport>>

cancelReadOnlyProbe ==
  /\ showProbeConsent
  /\ showProbeConsent' = FALSE
  /\ confirmationMessage' = "cancelled"
  /\ UNCHANGED <<surface, prompt, results, pending, requests, connection, checks,
                 environmentReport>>

confirmReadOnlyProbe(device) ==
  /\ showProbeConsent
  /\ showProbeConsent' = FALSE
  /\ environmentReport' = runSafePlatformProbe(TRUE, device)
  /\ confirmationMessage' =
       IF validateSafePlatformProbeSafety(runSafePlatformProbe(TRUE, device))
       THEN "probe safe" ELSE "probe blocked"
  /\ UNCHANGED <<surface, prompt, results, pending, requests, connection, checks>>
-------------------------------------------------------------------------------
RequestAnswered ==
  \E request \in requests :
     \/ request.call = "parse"
        /\ \E parsed \in Intents : \/ IntentParsed(request, parsed)
                                   \/ IntentParsedForPlan(request, parsed)
     \/ \E answer \in Answers : PlanGenerated(request, answer)
     \/ PlanExplained(request)
     \/ RequestFailed(request)

CheckCompletes == \E meta \in Metas(ServiceInfos) : CheckAnswered(meta)

Next ==
  \/ runCheckConnection
  \/ CheckCompletes
  \/ EditPrompt
  \/ runParseIntent
  \/ runGeneratePlan
  \/ runExplainPlan
  \/ RequestAnswered
  \/ runGenerateInstallPreview
  \/ confirmPreviewOnly
  \/ runGenerateEnvironmentPreview
  \/ openProbeConsent
  \/ cancelReadOnlyProbe
  \/ \E device \in Devices : confirmReadOnlyProbe(device)

Spec == Init /\ [][Next]_vars
===============================================================================
