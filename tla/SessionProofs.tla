---------------------------- MODULE SessionProofs ------------------------------
(* The session's invariant, its refinement of the abstract session and what   *)
(* the desktop's environment panel shows, for any prompts, intents, answers,  *)
(* metadata, devices and number of checks.                                    *)
EXTENDS SessionProperties, TLAPS

(* What is preserved by every step.  A request in flight fixes what the       *)
(* session shows (RequestsCurrent) only because there is one at a time        *)
(* (OneRequest); with that the results of the answer agree (ResultsAgree).    *)
IInv == /\ TypeOK
        /\ OneRequest
        /\ RequestsCurrent
        /\ ResultsAgree
        /\ CheckingHasCheck
        /\ ReadyMeansCompatible

PlanningInv == OneRequest /\ RequestsCurrent /\ ResultsAgree
ConnectionInv == CheckingHasCheck /\ ReadyMeansCompatible

--------------------------------------------------------------------------------
(* What a check gives.                                                        *)

(* Metadata without blockers is that of a planner.                            *)
LEMMA CompatibleInfo ==
  ASSUME NEW info \in ServiceInfos, evaluateServiceCompatibility(info) # "incompatible"
  PROVE  /\ info.apiVersion \in DEFAULT_CLIENT_SUPPORT.apiVersions
         /\ {"intentParse", "resourcePlan", "planExplanation"} \subseteq info.capabilities
         /\ info.safety = {"plannerOnly"}
         /\ info.capabilities \cap unsafeCapabilityClaims = {}
  <1>1. VersionBlockers(info) = {} /\ CapabilityBlockers(info) = {} /\ UnsafeBlockers(info) = {}
    BY DEF evaluateServiceCompatibility
  <1>2. info.apiVersion \in DEFAULT_CLIENT_SUPPORT.apiVersions
    BY <1>1 DEF VersionBlockers
  <1>3. DEFAULT_CLIENT_SUPPORT.requiredCapabilities \subseteq info.capabilities
    BY <1>1 DEF CapabilityBlockers
  <1>4. /\ "plannerOnly" \in info.safety
        /\ info.capabilities \cap unsafeCapabilityClaims = {}
        /\ info.safety \cap unsafeSafetyClaims = {}
    BY <1>1 DEF UnsafeBlockers
  <1>5. info.safety \subseteq SafetyClaims
    BY ServiceInfosAssumption
  <1>6. info.safety = {"plannerOnly"}
    BY <1>4, <1>5 DEF SafetyClaims, unsafeSafetyClaims
  <1>7. QED
    BY <1>2, <1>3, <1>4, <1>6 DEF DEFAULT_CLIENT_SUPPORT

LEMMA CheckResult ==
  ASSUME NEW meta \in Metas(ServiceInfos)
  PROVE  /\ checkServiceCompatibility(meta) \in Statuses \ {"checking"}
         /\ getServiceInfo(meta) \in ServiceInfos \cup {Null}
         /\ checkServiceCompatibility(meta) \in {"connected", "degraded"} =>
              /\ getServiceInfo(meta) \in ServiceInfos
              /\ evaluateServiceCompatibility(getServiceInfo(meta)) # "incompatible"
  <1>1. CASE meta.answer = "metadata"
    <2>1. meta.info \in ServiceInfos
      BY <1>1 DEF Metas
    <2>2. evaluateServiceCompatibility(meta.info) \in {"compatible", "degraded", "incompatible"}
      BY DEF evaluateServiceCompatibility
    <2>3. QED
      BY <1>1, <2>1, <2>2 DEF checkServiceCompatibility, getServiceInfo, Statuses
  <1>2. CASE meta.answer # "metadata"
    <2>1. meta.answer \in {"invalid", "http error", "unreachable"}
      BY <1>2 DEF Metas
    <2>2. QED
      BY <2>1 DEF checkServiceCompatibility, getServiceInfo, Statuses
  <1>3. QED
    BY <1>1, <1>2

--------------------------------------------------------------------------------
(* Frames.                                                                    *)

LEMMA PlanningFrame ==
  ASSUME PlanningInv, UNCHANGED <<results, pending, requests>>
  PROVE  PlanningInv'
  BY DEF PlanningInv, OneRequest, RequestsCurrent, ResultsAgree, results

LEMMA ConnectionFrame ==
  ASSUME ConnectionInv, UNCHANGED <<connection, checks>>
  PROVE  ConnectionInv'
  BY DEF ConnectionInv, CheckingHasCheck, ReadyMeansCompatible, serverReady

(* A request that fails leaves the connection as it is or unreachable.        *)
LEMMA ConnectionLost ==
  ASSUME TypeOK, ConnectionInv, UNCHANGED checks,
         connection' \in {connection, [connection EXCEPT !.status = "unreachable"]}
  PROVE  ConnectionInv'
  <1>1. connection' = connection \/ connection'.status = "unreachable"
    BY DEF TypeOK
  <1>2. QED
    BY <1>1 DEF ConnectionInv, CheckingHasCheck, ReadyMeansCompatible, serverReady

--------------------------------------------------------------------------------
(* Initial states.                                                            *)

LEMMA InitInv == Init => IInv
  <1> SUFFICES ASSUME Init PROVE IInv
    OBVIOUS
  <1>1. TypeOK
    <2>1. checks \in 0 .. MaxChecks
      BY ChecksAssumption DEF Init
    <2>2. connection \in [status : Statuses, serviceInfo : ServiceInfos \cup {Null}]
      BY DEF Init, Statuses
    <2>3. QED
      BY <2>1, <2>2 DEF Init, TypeOK
  <1>2. OneRequest /\ RequestsCurrent /\ ResultsAgree
    BY DEF Init, OneRequest, RequestsCurrent, ResultsAgree
  <1>3. CheckingHasCheck /\ ReadyMeansCompatible
    BY ChecksAssumption DEF Init, CheckingHasCheck, ReadyMeansCompatible, serverReady
  <1>4. QED
    BY <1>1, <1>2, <1>3 DEF IInv

--------------------------------------------------------------------------------
(* Steps.                                                                     *)

(* A new operation has the only request, about what the session shows.        *)
LEMMA StartInv ==
  ASSUME IInv, runParseIntent \/ runGeneratePlan \/ runExplainPlan
  PROVE  IInv'
  <1>1. PICK operation \in Operations, request \in Calls :
          /\ withPending(operation, request)
          /\ request.operation = operation
          /\ request.call = "plan" => intent = request.body
          /\ request.call = "explain" => planResponse = request.body
          /\ request.operation = "plan" /\ request.call = "parse" => intent = Null
    <2>1. CASE runParseIntent
      <3> DEFINE r == [operation |-> "intent", call |-> "parse", body |-> prompt]
      <3>1. r \in Calls
        BY <2>1 DEF runParseIntent, IInv, TypeOK, Calls
      <3>2. QED
        BY <2>1, <3>1 DEF runParseIntent, Operations
    <2>2. CASE runGeneratePlan
      <3>1. CASE intent = Null
        <4> DEFINE r == [operation |-> "plan", call |-> "parse", body |-> prompt]
        <4>1. r \in Calls /\ withPending("plan", r)
          BY <2>2, <3>1 DEF runGeneratePlan, IInv, TypeOK, Calls
        <4>2. QED
          BY <3>1, <4>1 DEF Operations
      <3>2. CASE intent # Null
        <4> DEFINE r == [operation |-> "plan", call |-> "plan", body |-> intent]
        <4>1. r \in Calls /\ withPending("plan", r)
          BY <2>2, <3>2 DEF runGeneratePlan, IInv, TypeOK, Calls
        <4>2. QED
          BY <4>1 DEF Operations
      <3>3. QED
        BY <3>1, <3>2
    <2>3. CASE runExplainPlan
      <3> DEFINE r == [operation |-> "explain", call |-> "explain", body |-> planResponse]
      <3>1. r \in Calls
        BY <2>3 DEF runExplainPlan, IInv, TypeOK, Calls
      <3>2. QED
        BY <2>3, <3>1 DEF runExplainPlan, Operations
    <2>4. QED
      BY <2>1, <2>2, <2>3
  <1>2. requests' = {request}
    BY <1>1 DEF IInv, OneRequest, withPending
  <1>3. TypeOK'
    BY <1>1, <1>2 DEF IInv, TypeOK, withPending, results, probing
  <1>4. OneRequest'
    BY <1>1, <1>2, NullAssumption DEF OneRequest, withPending
  <1>5. RequestsCurrent' /\ ResultsAgree'
    BY <1>1, <1>2 DEF IInv, RequestsCurrent, ResultsAgree, withPending, results
  <1>6. ConnectionInv'
    BY <1>1, ConnectionFrame DEF IInv, ConnectionInv, withPending
  <1>7. QED
    BY <1>3, <1>4, <1>5, <1>6 DEF IInv, ConnectionInv

(* Answers: with one request in flight nothing is in flight after it, or its  *)
(* follow-up, sent for the intent just shown.                                 *)
LEMMA OnlyRequest ==
  ASSUME IInv, NEW request \in requests
  PROVE  /\ requests = {request} /\ pending = request.operation
         /\ request \in Calls /\ requests \ {request} = {}
  BY DEF IInv, OneRequest, TypeOK

LEMMA FinishInv ==
  ASSUME IInv, NEW request \in requests, Finish(request), ResultsAgree',
         connection' \in {connection, [connection EXCEPT !.status = "unreachable"]},
         intent' \in Intents \cup {Null}, planResponse' \in Plans \cup {Null},
         explanation' \in Plans \cup {Null}, installPreview' \in Plans \cup {Null}
  PROVE  IInv'
  <1>1. requests' = {} /\ pending' = Null
    BY OnlyRequest DEF Finish
  <1>2. connection' \in [status : Statuses, serviceInfo : ServiceInfos \cup {Null}]
    BY DEF IInv, TypeOK, Statuses
  <1>3. TypeOK'
    BY <1>1, <1>2 DEF IInv, TypeOK, Finish, probing
  <1>4. OneRequest' /\ RequestsCurrent'
    BY <1>1 DEF OneRequest, RequestsCurrent
  <1>5. ConnectionInv'
    BY ConnectionLost DEF IInv, ConnectionInv, Finish
  <1>6. QED
    BY <1>3, <1>4, <1>5 DEF IInv, ConnectionInv

(* The plan on display is one, and is the one of the intent on display.       *)
LEMMA AnswerInv ==
  ASSUME IInv, RequestAnswered
  PROVE  IInv'
  <1>1. PICK request \in requests :
          \/ \E parsed \in Intents : \/ IntentParsed(request, parsed)
                                     \/ IntentParsedForPlan(request, parsed)
          \/ \E answer \in Answers : PlanGenerated(request, answer)
          \/ PlanExplained(request)
          \/ RequestFailed(request)
    BY DEF RequestAnswered
  <1>2. ASSUME NEW parsed \in Intents, IntentParsed(request, parsed)
        PROVE  IInv'
    <2>1. ResultsAgree'
      BY <1>2 DEF IntentParsed, ResultsAgree
    <2>2. QED
      BY <1>2, <2>1, FinishInv DEF IntentParsed
  <1>3. ASSUME NEW parsed \in Intents, IntentParsedForPlan(request, parsed)
        PROVE  IInv'
    <2> DEFINE next == [operation |-> "plan", call |-> "plan", body |-> parsed]
    <2>1. requests' = {next} /\ next \in Calls /\ pending' = "plan" /\ pending = "plan"
      BY <1>3, OnlyRequest DEF IntentParsedForPlan, Calls
    <2>2. intent = Null /\ planResponse = Null /\ explanation = Null /\ installPreview = Null
      BY <1>3 DEF IntentParsedForPlan, IInv, RequestsCurrent, ResultsAgree
    <2>3. TypeOK'
      BY <1>3, <2>1 DEF IInv, TypeOK, IntentParsedForPlan, probing
    <2>4. OneRequest'
      BY <2>1, NullAssumption DEF OneRequest, Operations
    <2>5. RequestsCurrent' /\ ResultsAgree'
      BY <1>3, <2>1, <2>2 DEF RequestsCurrent, ResultsAgree, IntentParsedForPlan
    <2>6. ConnectionInv'
      BY <1>3, ConnectionFrame DEF IInv, ConnectionInv, IntentParsedForPlan
    <2>7. QED
      BY <2>3, <2>4, <2>5, <2>6 DEF IInv, ConnectionInv
  <1>4. ASSUME NEW answer \in Answers, PlanGenerated(request, answer)
        PROVE  IInv'
    <2>1. request.call = "plan" /\ intent = request.body /\ request \in Calls
      BY <1>4, OnlyRequest DEF PlanGenerated, IInv, RequestsCurrent
    <2>2. request.body \in Intents
      BY <2>1 DEF Calls
    <2>3. intent' = intent /\ intent' # Null
      BY <1>4, <2>1, <2>2, NullAssumption DEF PlanGenerated
    <2>4. planResponse' \in Plans /\ planResponse'.intent = intent
      BY <1>4, <2>1, <2>2 DEF PlanGenerated, Plans
    <2>5. ResultsAgree'
      BY <1>4, <2>3, <2>4 DEF PlanGenerated, ResultsAgree
    <2>6. QED
      BY <1>4, <2>2, <2>3, <2>4, <2>5, FinishInv DEF PlanGenerated, IInv, TypeOK
  <1>5. CASE PlanExplained(request)
    <2>1. request.body = planResponse
      BY <1>5 DEF PlanExplained, IInv, RequestsCurrent
    <2>2. ResultsAgree'
      BY <1>5, <2>1 DEF PlanExplained, IInv, ResultsAgree
    <2>3. QED
      BY <1>5, <2>1, <2>2, FinishInv DEF PlanExplained, IInv, TypeOK
  <1>6. CASE RequestFailed(request)
    <2>1. ResultsAgree'
      BY <1>6 DEF RequestFailed, IInv, ResultsAgree, results
    <2>2. QED
      BY <1>6, <2>1, FinishInv DEF RequestFailed, results, IInv, TypeOK
  <1>7. QED
    BY <1>1, <1>2, <1>3, <1>4, <1>5, <1>6

LEMMA CheckInv ==
  ASSUME IInv, runCheckConnection \/ CheckCompletes
  PROVE  IInv'
  <1>1. PlanningInv'
    BY PlanningFrame
    DEF IInv, PlanningInv, runCheckConnection, CheckCompletes, CheckAnswered, results
  <1>2. CASE runCheckConnection
    <2>1. checks' \in 0 .. MaxChecks /\ checks' > 0
      <3>1. checks \in 0 .. MaxChecks /\ checks < MaxChecks /\ checks' = checks + 1
        BY <1>2 DEF runCheckConnection, IInv, TypeOK
      <3>2. QED
        BY <3>1, ChecksAssumption
    <2>2. /\ connection' \in [status : Statuses, serviceInfo : ServiceInfos \cup {Null}]
          /\ connection'.status = "checking"
      BY <1>2 DEF runCheckConnection, IInv, TypeOK, Statuses
    <2>3. TypeOK'
      BY <1>2, <2>1, <2>2 DEF runCheckConnection, IInv, TypeOK, results, probing
    <2>4. ConnectionInv'
      BY <2>1, <2>2 DEF ConnectionInv, CheckingHasCheck, ReadyMeansCompatible, serverReady
    <2>5. QED
      BY <1>1, <2>3, <2>4 DEF IInv, PlanningInv, ConnectionInv
  <1>3. CASE CheckCompletes
    <2>1. PICK meta \in Metas(ServiceInfos) : CheckAnswered(meta)
      BY <1>3 DEF CheckCompletes
    <2> DEFINE status == checkServiceCompatibility(meta)
               info == getServiceInfo(meta)
    <2>2. /\ status \in Statuses \ {"checking"} /\ info \in ServiceInfos \cup {Null}
          /\ status \in {"connected", "degraded"} =>
               info \in ServiceInfos /\ evaluateServiceCompatibility(info) # "incompatible"
      BY CheckResult
    <2>3. connection' = [status |-> status, serviceInfo |-> info]
      BY <2>1 DEF CheckAnswered
    <2> HIDE DEF status, info
    <2>4. checks' \in 0 .. MaxChecks
      <3>1. checks \in 0 .. MaxChecks /\ checks > 0 /\ checks' = checks - 1
        BY <2>1 DEF CheckAnswered, IInv, TypeOK
      <3>2. QED
        BY <3>1, ChecksAssumption
    <2>5. TypeOK'
      <3>1. connection' \in [status : Statuses, serviceInfo : ServiceInfos \cup {Null}]
        BY <2>2, <2>3
      <3>2. QED
        BY <2>1, <2>4, <3>1 DEF CheckAnswered, IInv, TypeOK, results, probing
    <2>6. CheckingHasCheck'
      BY <2>2, <2>3 DEF CheckingHasCheck
    <2>7. ReadyMeansCompatible'
      <3>1. SUFFICES ASSUME status \in {"connected", "degraded"}
                     PROVE  ReadyMeansCompatible'
        BY <2>3 DEF ReadyMeansCompatible, serverReady
      <3>2. info # Null
        BY <2>2, <3>1, NullAssumption
      <3>3. QED
        BY <2>2, <2>3, <3>1, <3>2, CompatibleInfo
        DEF ReadyMeansCompatible, unsafeCapabilityClaims
    <2>8. QED
      BY <1>1, <2>5, <2>6, <2>7 DEF IInv, PlanningInv
  <1>4. QED
    BY <1>2, <1>3

(* The steps that touch neither requests nor connection.                      *)
LEMMA LocalInv ==
  ASSUME IInv,
         \/ EditPrompt \/ runGenerateInstallPreview \/ confirmPreviewOnly
         \/ runGenerateEnvironmentPreview \/ openProbeConsent \/ cancelReadOnlyProbe
         \/ \E device \in Devices : confirmReadOnlyProbe(device)
  PROVE  IInv'
  <1>1. UNCHANGED <<surface, intent, planResponse, explanation, pending, requests,
                    connection, checks>>
    BY DEF EditPrompt, runGenerateInstallPreview, confirmPreviewOnly,
           runGenerateEnvironmentPreview, openProbeConsent, cancelReadOnlyProbe,
           confirmReadOnlyProbe, results
  <1>2. installPreview' \in {installPreview, planResponse}
    BY DEF EditPrompt, runGenerateInstallPreview, confirmPreviewOnly,
           runGenerateEnvironmentPreview, openProbeConsent, cancelReadOnlyProbe,
           confirmReadOnlyProbe, results
  <1>3. prompt' \in Prompts \cup {Blank} /\ showProbeConsent' \in BOOLEAN
    BY DEF IInv, TypeOK, EditPrompt, runGenerateInstallPreview, confirmPreviewOnly,
           runGenerateEnvironmentPreview, openProbeConsent, cancelReadOnlyProbe,
           confirmReadOnlyProbe, probing
  <1>4. confirmationMessage' \in Notices \cup {Null}
    BY DEF Notices, IInv, TypeOK, EditPrompt, runGenerateInstallPreview, confirmPreviewOnly,
           runGenerateEnvironmentPreview, openProbeConsent, cancelReadOnlyProbe,
           confirmReadOnlyProbe
  <1>5. TypeOK'
    BY <1>1, <1>2, <1>3, <1>4 DEF IInv, TypeOK
  <1>6. OneRequest' /\ RequestsCurrent' /\ ResultsAgree'
    BY <1>1, <1>2 DEF IInv, OneRequest, RequestsCurrent, ResultsAgree
  <1>7. ConnectionInv'
    BY <1>1, ConnectionFrame DEF IInv, ConnectionInv
  <1>8. QED
    BY <1>5, <1>6, <1>7 DEF IInv, ConnectionInv

LEMMA NextInv == IInv /\ [Next]_vars => IInv'
  <1> SUFFICES ASSUME IInv, [Next]_vars PROVE IInv'
    OBVIOUS
  <1>1. CASE runParseIntent \/ runGeneratePlan \/ runExplainPlan
    BY <1>1, StartInv
  <1>2. CASE RequestAnswered
    BY <1>2, AnswerInv
  <1>3. CASE runCheckConnection \/ CheckCompletes
    BY <1>3, CheckInv
  <1>4. CASE \/ EditPrompt \/ runGenerateInstallPreview \/ confirmPreviewOnly
             \/ runGenerateEnvironmentPreview \/ openProbeConsent \/ cancelReadOnlyProbe
             \/ \E device \in Devices : confirmReadOnlyProbe(device)
    BY <1>4, LocalInv
  <1>5. CASE UNCHANGED vars
    <2>1. TypeOK'
      BY <1>5 DEF vars, results, probing, IInv, TypeOK
    <2>2. PlanningInv'
      BY <1>5, PlanningFrame DEF vars, IInv, PlanningInv
    <2>3. ConnectionInv'
      BY <1>5, ConnectionFrame DEF vars, IInv, ConnectionInv
    <2>4. QED
      BY <2>1, <2>2, <2>3 DEF IInv, PlanningInv, ConnectionInv
  <1>6. QED
    BY <1>1, <1>2, <1>3, <1>4, <1>5 DEF Next

(* The invariant holds in every behaviour of a session.                       *)
THEOREM SessionInvariant == Spec => []IInv
  BY InitInv, NextInv, PTL DEF Spec

(* Types: connection statuses and requests stay among the known ones.         *)
THEOREM SessionTypes == Spec => []TypeOK
  BY SessionInvariant, PTL DEF IInv

(* The buttons wait for exactly one request, the pending operation's.         *)
THEOREM SessionOneRequest == Spec => []OneRequest
  BY SessionInvariant, PTL DEF IInv

(* A request in flight is about what the session shows.                       *)
THEOREM SessionRequestsCurrent == Spec => []RequestsCurrent
  BY SessionInvariant, PTL DEF IInv

(* Plan, explanation and preview belong to the intent on display.             *)
THEOREM SessionResultsAgree == Spec => []ResultsAgree
  BY SessionInvariant, PTL DEF IInv

(* The panel says "checking" only while a check is in flight.                 *)
THEOREM SessionCheckingHasCheck == Spec => []CheckingHasCheck
  BY SessionInvariant, PTL DEF IInv

(* The buttons are enabled only for a planner that executes nothing.          *)
THEOREM SessionReadyMeansCompatible == Spec => []ReadyMeansCompatible
  BY SessionInvariant, PTL DEF IInv

--------------------------------------------------------------------------------
(* Refinement of the abstract session.                                        *)

LEMMA InitRefines == Init => Session!Init
  BY DEF Init, Session!Init

LEMMA PlanShown ==
  ASSUME IInv, planResponse # Null
  PROVE  intent \in Intents /\ planResponse \in Session!PlansOf(intent)
  BY DEF IInv, TypeOK, ResultsAgree, Plans, Session!PlansOf

LEMMA AnswerRefines ==
  ASSUME IInv, RequestAnswered
  PROVE  [Session!Next]_(Session!results)
  <1>1. PICK request \in requests :
          \/ \E parsed \in Intents : \/ IntentParsed(request, parsed)
                                     \/ IntentParsedForPlan(request, parsed)
          \/ \E answer \in Answers : PlanGenerated(request, answer)
          \/ PlanExplained(request)
          \/ RequestFailed(request)
    BY DEF RequestAnswered
  <1>2. ASSUME NEW parsed \in Intents, IntentParsed(request, parsed)
        PROVE  Session!Parse
    BY <1>2 DEF IntentParsed, Session!Parse
  <1>3. ASSUME NEW parsed \in Intents, IntentParsedForPlan(request, parsed)
        PROVE  Session!Parse
    <2>1. planResponse = Null /\ explanation = Null /\ installPreview = Null
      BY <1>3 DEF IntentParsedForPlan, IInv, RequestsCurrent, ResultsAgree
    <2>2. QED
      BY <1>3, <2>1 DEF IntentParsedForPlan, Session!Parse
  <1>4. ASSUME NEW answer \in Answers, PlanGenerated(request, answer)
        PROVE  Session!Plan
    <2>1. intent = request.body /\ request.body \in Intents
      BY <1>4, OnlyRequest DEF PlanGenerated, IInv, RequestsCurrent, Calls
    <2>2. QED
      BY <1>4, <2>1 DEF PlanGenerated, Session!Plan, Session!PlansOf
  <1>5. CASE PlanExplained(request)
    <2>1. planResponse = request.body /\ request.body \in Plans
      BY <1>5, OnlyRequest DEF PlanExplained, IInv, RequestsCurrent, Calls
    <2>2. planResponse # Null
      BY <2>1, NullAssumption
    <2>3. planResponse \in Session!PlansOf(intent)
      BY <2>2, PlanShown
    <2>4. explanation' = planResponse /\ UNCHANGED <<intent, planResponse, installPreview>>
      BY <1>5, <2>1 DEF PlanExplained
    <2>5. QED
      BY <2>3, <2>4 DEF Session!Explain, Session!Next
  <1>6. CASE RequestFailed(request)
    BY <1>6 DEF RequestFailed, results, Session!results
  <1>7. QED
    BY <1>1, <1>2, <1>3, <1>4, <1>5, <1>6 DEF Session!Next

LEMMA NextRefines == IInv /\ [Next]_vars => [Session!Next]_(Session!results)
  <1> SUFFICES ASSUME IInv, [Next]_vars PROVE [Session!Next]_(Session!results)
    OBVIOUS
  <1>1. CASE RequestAnswered
    BY <1>1, AnswerRefines
  <1>2. CASE runGenerateInstallPreview
    BY <1>2, PlanShown
    DEF runGenerateInstallPreview, Session!Next, Session!Preview, Session!results
  <1>3. CASE runCheckConnection \/ CheckCompletes \/ runParseIntent \/ runGeneratePlan
             \/ runExplainPlan
    BY <1>3 DEF runCheckConnection, CheckCompletes, CheckAnswered, runParseIntent,
                runGeneratePlan, runExplainPlan, withPending, results,
                Session!results
  <1>4. CASE \/ EditPrompt \/ confirmPreviewOnly \/ runGenerateEnvironmentPreview
             \/ openProbeConsent \/ cancelReadOnlyProbe
             \/ \E device \in Devices : confirmReadOnlyProbe(device)
    BY <1>4 DEF EditPrompt, confirmPreviewOnly, runGenerateEnvironmentPreview, openProbeConsent,
                cancelReadOnlyProbe, confirmReadOnlyProbe, results, Session!results
  <1>5. CASE UNCHANGED vars
    BY <1>5 DEF vars, results, Session!results
  <1>6. QED
    BY <1>1, <1>2, <1>3, <1>4, <1>5 DEF Next

(* Every step of a session is a step of the abstract session or leaves the    *)
(* results alone: a new intent or plan drops what was derived from the old.   *)
THEOREM SessionRefinement == Spec => ImplementsPlanningSession
  BY InitRefines, NextRefines, SessionInvariant, PTL
  DEF Spec, ImplementsPlanningSession, Session!Spec

--------------------------------------------------------------------------------
(* The environment panel.                                                     *)

MockReport == createMockEnvironmentReport(baseEnvironmentReport.platform,
                                          baseEnvironmentReport.runtime)
ProbeReport(device) == runSafePlatformProbe(TRUE, device)

(* The fields of the two reports a session makes.                             *)
LEMMA MockFields ==
  /\ MockReport.source = baseEnvironmentReport.source
  /\ MockReport.platform = baseEnvironmentReport.platform
  /\ ~MockReport.runtime.tauriAvailable
  /\ MockReport.java = baseEnvironmentReport.java
  /\ MockReport.minecraft = baseEnvironmentReport.minecraft
  /\ MockReport.disk = baseEnvironmentReport.disk
  /\ ~MockReport.network.checked
  /\ MockReport.probe.filesWritten = 0
  /\ MockReport.permissions = Permissions
  BY DEF MockReport, createMockEnvironmentReport, baseEnvironmentReport, Permissions

Fields == {"source", "probe", "platform", "runtime", "java", "minecraft", "disk",
           "network", "permissions", "readiness", "privacy"}

LEMMA BaseFields == DOMAIN baseEnvironmentReport = Fields
  BY DEF baseEnvironmentReport, Fields

LEMMA MockDomain == DOMAIN MockReport = Fields
  BY BaseFields DEF MockReport, createMockEnvironmentReport

SafeProbe == [baseEnvironmentReport.probe EXCEPT !.commandsExecuted = {}]
ProbePermissions(granted) == [Permissions EXCEPT !.readOnlyProbeAllowed = granted]

(* The report of a safe probe before it is redacted.                          *)
SafeMerged(consent, platform, runtime) ==
  [MockReport EXCEPT
     !.source = ProbeSource(consent),
     !.probe = [baseEnvironmentReport.probe EXCEPT !.commandsExecuted = {}],
     !.platform = platform,
     !.runtime = runtime,
     !.java = baseEnvironmentReport.java,
     !.minecraft = baseEnvironmentReport.minecraft,
     !.disk = baseEnvironmentReport.disk,
     !.network = baseEnvironmentReport.network,
     !.permissions = [Permissions EXCEPT !.readOnlyProbeAllowed = consent.granted],
     !.readiness = ProbeReadiness(consent),
     !.privacy = baseEnvironmentReport.privacy]

LEMMA SafeMergeFields ==
  ASSUME NEW consent, NEW platform, NEW runtime
  PROVE  /\ DOMAIN SafeMerged(consent, platform, runtime) = Fields
         /\ SafeMerged(consent, platform, runtime).source = ProbeSource(consent)
         /\ SafeMerged(consent, platform, runtime).probe = SafeProbe
         /\ SafeMerged(consent, platform, runtime).java = baseEnvironmentReport.java
         /\ SafeMerged(consent, platform, runtime).minecraft = baseEnvironmentReport.minecraft
         /\ SafeMerged(consent, platform, runtime).disk = baseEnvironmentReport.disk
         /\ SafeMerged(consent, platform, runtime).network = baseEnvironmentReport.network
         /\ SafeMerged(consent, platform, runtime).permissions
              = ProbePermissions(consent.granted)
  BY MockDomain DEF Fields, SafeMerged, SafeProbe, ProbePermissions

LEMMA PlainTexts == /\ redactSensitiveValue("none") = "none"
                    /\ redactSensitiveValue("placeholder") = "placeholder"
  BY DEF redactSensitiveValue, looksSensitive, UserPaths, OtherSensitive

(* Assigning what is there changes nothing; said of any value, because the    *)
(* provers treat a Boolean one apart.                                         *)
LEMMA SameRecord ==
  /\ \A a, b, c : [[directoryStatus |-> a, candidateDirectory |-> b, scannedRecursively |-> c]
                    EXCEPT !.scannedRecursively = c]
                 = [directoryStatus |-> a, candidateDirectory |-> b, scannedRecursively |-> c]
  /\ \A a, b, c : [[status |-> a, checked |-> b, requestsMade |-> c] EXCEPT !.checked = b]
                 = [status |-> a, checked |-> b, requestsMade |-> c]
  OBVIOUS

LEMMA RedactFields ==
  ASSUME NEW report, DOMAIN report = Fields,
         DOMAIN report.source = {"mode", "uploaded", "consentRequired", "consentGranted"},
         DOMAIN report.probe = {"readOnly", "commandsExecuted", "filesWritten", "networkRequests"},
         report.java = baseEnvironmentReport.java,
         report.minecraft = baseEnvironmentReport.minecraft,
         report.disk = baseEnvironmentReport.disk,
         report.network = baseEnvironmentReport.network
  PROVE  LET redacted == redactEnvironmentReport(report)
         IN /\ redacted.source.mode = report.source.mode
            /\ redacted.source.consentGranted = report.source.consentGranted
            /\ redacted.source.consentRequired = report.source.consentRequired
            /\ ~redacted.source.uploaded
            /\ redacted.probe.readOnly
            /\ redacted.probe.commandsExecuted = report.probe.commandsExecuted
            /\ redacted.probe.filesWritten = 0 /\ redacted.probe.networkRequests = 0
            /\ redacted.java = report.java
            /\ redacted.minecraft = report.minecraft
            /\ redacted.disk = report.disk
            /\ redacted.network = report.network
            /\ redacted.privacy = baseEnvironmentReport.privacy
            /\ redacted.permissions = [Permissions EXCEPT
                        !.readOnlyProbeAllowed = report.permissions.readOnlyProbeAllowed]
  <1> DEFINE redacted == redactEnvironmentReport(report)
  <1>1. /\ redacted.source.mode = report.source.mode
        /\ redacted.source.consentGranted = report.source.consentGranted
        /\ redacted.source.consentRequired = report.source.consentRequired
        /\ ~redacted.source.uploaded
    BY DEF redactEnvironmentReport, Fields
  <1>2. /\ redacted.probe.readOnly
        /\ redacted.probe.commandsExecuted = report.probe.commandsExecuted
        /\ redacted.probe.filesWritten = 0 /\ redacted.probe.networkRequests = 0
    <2>1. redacted.probe = [report.probe EXCEPT !.readOnly = TRUE, !.filesWritten = 0,
                                                !.networkRequests = 0]
      BY DEF redactEnvironmentReport, Fields
    <2> HIDE DEF redacted
    <2>2. QED
      BY <2>1
  <1>3. redacted.java = report.java
    <2>1. redacted.java = [report.java EXCEPT !.path = redactSensitiveValue(report.java.path)]
      BY DEF redactEnvironmentReport, Fields
    <2> HIDE DEF redacted
    <2>2. report.java.path = "none" /\ redactSensitiveValue("none") = "none"
      BY PlainTexts DEF baseEnvironmentReport
    <2>3. [report.java EXCEPT !.path = "none"] = report.java
      BY DEF baseEnvironmentReport
    <2>4. QED
      BY <2>1, <2>2, <2>3
  <1>4. redacted.minecraft = report.minecraft
    <2>1. redacted.minecraft = [report.minecraft EXCEPT
             !.candidateDirectory = redactSensitiveValue(report.minecraft.candidateDirectory),
             !.scannedRecursively = FALSE]
      BY DEF redactEnvironmentReport, Fields
    <2> HIDE DEF redacted
    <2>2. /\ report.minecraft.candidateDirectory = "placeholder"
          /\ redactSensitiveValue("placeholder") = "placeholder"
      BY PlainTexts DEF baseEnvironmentReport
    <2>3. [report.minecraft EXCEPT !.candidateDirectory = "placeholder",
                                   !.scannedRecursively = FALSE] = report.minecraft
      <3> DEFINE unread == [directoryStatus |-> "not_checked",
                            candidateDirectory |-> "placeholder", scannedRecursively |-> FALSE]
      <3>1. report.minecraft = unread
        BY DEF baseEnvironmentReport
      <3>2. [unread EXCEPT !.candidateDirectory = "placeholder"] = unread
        OBVIOUS
      <3>3. [unread EXCEPT !.scannedRecursively = FALSE] = unread
        BY SameRecord
      <3>4. [report.minecraft EXCEPT !.candidateDirectory = "placeholder",
                                     !.scannedRecursively = FALSE]
              = [[report.minecraft EXCEPT !.candidateDirectory = "placeholder"]
                   EXCEPT !.scannedRecursively = FALSE]
        OBVIOUS
      <3>5. QED
        BY <3>1, <3>2, <3>3, <3>4
    <2>4. QED
      BY <2>1, <2>2, <2>3
  <1>5. redacted.disk = report.disk
    <2>1. redacted.disk = [report.disk EXCEPT
                             !.checkedPath = redactSensitiveValue(report.disk.checkedPath)]
      BY DEF redactEnvironmentReport, Fields
    <2> HIDE DEF redacted
    <2>2. report.disk.checkedPath = "none" /\ redactSensitiveValue("none") = "none"
      BY PlainTexts DEF baseEnvironmentReport
    <2>3. [report.disk EXCEPT !.checkedPath = "none"] = report.disk
      BY DEF baseEnvironmentReport
    <2>4. QED
      BY <2>1, <2>2, <2>3
  <1>6. redacted.network = report.network
    <2>1. redacted.network = [report.network EXCEPT !.checked = FALSE, !.requestsMade = 0]
      BY DEF redactEnvironmentReport, Fields
    <2> HIDE DEF redacted
    <2>2. [report.network EXCEPT !.checked = FALSE, !.requestsMade = 0] = report.network
      <3> DEFINE unread == [status |-> "not_checked", checked |-> FALSE, requestsMade |-> 0]
      <3>1. report.network = unread
        BY DEF baseEnvironmentReport
      <3>2. [unread EXCEPT !.checked = FALSE] = unread
        BY SameRecord
      <3>3. [unread EXCEPT !.requestsMade = 0] = unread
        OBVIOUS
      <3>4. [report.network EXCEPT !.checked = FALSE, !.requestsMade = 0]
              = [[report.network EXCEPT !.checked = FALSE] EXCEPT !.requestsMade = 0]
        OBVIOUS
      <3>5. QED
        BY <3>1, <3>2, <3>3, <3>4
    <2>3. QED
      BY <2>1, <2>2
  <1>7. /\ redacted.privacy = baseEnvironmentReport.privacy
        /\ redacted.permissions = [Permissions EXCEPT
                        !.readOnlyProbeAllowed = report.permissions.readOnlyProbeAllowed]
    BY DEF redactEnvironmentReport, Fields
  <1>8. QED
    BY <1>1, <1>2, <1>3, <1>4, <1>5, <1>6, <1>7

(* A report of a consented probe: consent, and nothing but the platform.      *)
LEMMA ProbeFields ==
  ASSUME NEW device
  PROVE  LET report == ProbeReport(device)
         IN /\ report.source.mode = "read_only_probe"
            /\ report.source.consentGranted /\ report.source.consentRequired
            /\ ~report.source.uploaded
            /\ report.probe.readOnly /\ report.probe.commandsExecuted = {}
            /\ report.probe.filesWritten = 0 /\ report.probe.networkRequests = 0
            /\ report.java = baseEnvironmentReport.java
            /\ report.minecraft = baseEnvironmentReport.minecraft
            /\ report.disk = baseEnvironmentReport.disk
            /\ report.network = baseEnvironmentReport.network
            /\ report.privacy = baseEnvironmentReport.privacy
            /\ report.permissions = [Permissions EXCEPT !.readOnlyProbeAllowed = TRUE]
  <1> DEFINE consent == [required |-> TRUE, granted |-> TRUE]
             platform == [os |-> detectOs(device.hints), arch |-> detectArch(device.hints)]
             runtime == [tauriAvailable |-> device.tauri]
             merged == SafeMerged(consent, platform, runtime)
  <1>0. consent.granted = TRUE
    OBVIOUS
  <1>1. ProbeReport(device) = redactEnvironmentReport(merged)
    BY DEF ProbeReport, runSafePlatformProbe, createSafePlatformProbeReport, SafeMerged,
           collectSafePlatformProbeInput, mergeSafePlatformProbeIntoEnvironmentReport, MockReport
  <1> HIDE DEF consent, platform, runtime
  <1>2. /\ DOMAIN merged = Fields
        /\ merged.source = ProbeSource(consent)
        /\ merged.probe = SafeProbe
        /\ merged.java = baseEnvironmentReport.java
        /\ merged.minecraft = baseEnvironmentReport.minecraft
        /\ merged.disk = baseEnvironmentReport.disk
        /\ merged.network = baseEnvironmentReport.network
        /\ merged.permissions = ProbePermissions(consent.granted)
    BY SafeMergeFields
  <1>3. ProbeSource(consent) = [mode |-> "read_only_probe", uploaded |-> FALSE,
                                consentRequired |-> TRUE, consentGranted |-> TRUE]
    BY DEF ProbeSource, consent
  <1> HIDE DEF merged
  <1>4. DOMAIN merged.source = {"mode", "uploaded", "consentRequired", "consentGranted"}
    BY <1>2, <1>3
  <1>5. /\ DOMAIN merged.probe = {"readOnly", "commandsExecuted", "filesWritten", "networkRequests"}
        /\ merged.probe.commandsExecuted = {}
    <2>1. /\ DOMAIN SafeProbe
               = {"readOnly", "commandsExecuted", "filesWritten", "networkRequests"}
          /\ SafeProbe.commandsExecuted = {}
      BY DEF baseEnvironmentReport, SafeProbe
    <2>2. QED
      BY <1>2, <2>1
  <1>6. merged.permissions.readOnlyProbeAllowed
    BY <1>0, <1>2 DEF Permissions, ProbePermissions
  <1>7. LET redacted == redactEnvironmentReport(merged)
         IN /\ redacted.source.mode = merged.source.mode
            /\ redacted.source.consentGranted = merged.source.consentGranted
            /\ redacted.source.consentRequired = merged.source.consentRequired
            /\ ~redacted.source.uploaded
            /\ redacted.probe.readOnly
            /\ redacted.probe.commandsExecuted = merged.probe.commandsExecuted
            /\ redacted.probe.filesWritten = 0 /\ redacted.probe.networkRequests = 0
            /\ redacted.java = merged.java
            /\ redacted.minecraft = merged.minecraft
            /\ redacted.disk = merged.disk
            /\ redacted.network = merged.network
            /\ redacted.privacy = baseEnvironmentReport.privacy
            /\ redacted.permissions = [Permissions EXCEPT
                        !.readOnlyProbeAllowed = merged.permissions.readOnlyProbeAllowed]
    BY <1>2, <1>4, <1>5, RedactFields
  <1>8. QED
    BY <1>1, <1>2, <1>3, <1>5, <1>6, <1>7

--------------------------------------------------------------------------------
(* What the validator and the policy say of the two reports.                  *)

LEMMA ProbeSafe ==
  ASSUME NEW device
  PROVE  validateSafePlatformProbeSafety(ProbeReport(device))
  <1> DEFINE report == ProbeReport(device)
  <1>1. validateReadOnlyProbeSafety(report)
    <2>1. /\ report.privacy.localOnly /\ ~report.privacy.uploadAllowed
          /\ report.network.requestsMade = 0
          /\ ~report.minecraft.scannedRecursively
          /\ report.java.path = "none" /\ report.disk.checkedPath = "none"
          /\ report.minecraft.candidateDirectory = "placeholder"
      BY ProbeFields DEF baseEnvironmentReport
    <2>2. /\ ~report.permissions.canDownload /\ ~report.permissions.canLaunchProcess
          /\ ~report.permissions.canWriteInstanceDirectory
      BY ProbeFields DEF Permissions
    <2>3. ~FoundInJson("none") /\ ~FoundInJson("placeholder")
      BY DEF FoundInJson, UserPaths
    <2>4. QED
      BY <2>1, <2>2, <2>3, ProbeFields DEF validateReadOnlyProbeSafety
  <1>2. /\ report.minecraft.directoryStatus = "not_checked"
        /\ ~report.privacy.containsUserPath /\ report.privacy.redacted
    BY ProbeFields DEF baseEnvironmentReport
  <1>3. QED
    BY <1>1, <1>2, ProbeFields DEF validateSafePlatformProbeSafety

LEMMA PolicyFields ==
  /\ isCapabilityAllowed("mock_environment_report", "M8.3")
  /\ ~findCapability("mock_environment_report").requiresConsent
  /\ \A c \in {"consented_read_only_preview", "read_os_arch", "check_tauri_runtime"} :
       isCapabilityAllowed(c, "M8.3")
  BY DEF isCapabilityAllowed, findCapability, EnabledCapabilities, ProbeCapability

LEMMA MockNeeds == NeededCapabilities(MockReport) = {"mock_environment_report"}
  BY MockFields DEF NeededCapabilities, baseEnvironmentReport, Permissions

LEMMA ProbeNeeds ==
  ASSUME NEW device
  PROVE  NeededCapabilities(ProbeReport(device))
           \subseteq {"consented_read_only_preview", "read_os_arch", "check_tauri_runtime"}
  BY ProbeFields DEF NeededCapabilities, baseEnvironmentReport, Permissions

--------------------------------------------------------------------------------
(* The session shows no other report, and the notice of a safe probe only     *)
(* with the report of one.                                                    *)
ReportInv ==
  /\ \/ environmentReport \in {Null, MockReport}
     \/ \E device \in Devices : environmentReport = ProbeReport(device)
  /\ confirmationMessage = "probe safe" =>
       \E device \in Devices : environmentReport = ProbeReport(device)

LEMMA InitReport == Init => ReportInv
  BY NullAssumption DEF Init, ReportInv, Notices

LEMMA NextReport == ReportInv /\ [Next]_vars => ReportInv'
  <1> SUFFICES ASSUME ReportInv, [Next]_vars PROVE ReportInv'
    OBVIOUS
  <1>1. CASE runGenerateEnvironmentPreview
    BY <1>1, NullAssumption DEF runGenerateEnvironmentPreview, MockReport, ReportInv, Notices
  <1>2. CASE \E device \in Devices : confirmReadOnlyProbe(device)
    BY <1>2 DEF confirmReadOnlyProbe, ProbeReport, ReportInv
  <1>3. CASE openProbeConsent \/ cancelReadOnlyProbe \/ confirmPreviewOnly
             \/ runGenerateInstallPreview
    BY <1>3, NullAssumption
    DEF openProbeConsent, cancelReadOnlyProbe, confirmPreviewOnly, runGenerateInstallPreview,
        ReportInv, Notices, probing
  <1>4. CASE runParseIntent \/ runGeneratePlan \/ runExplainPlan
    BY <1>4, NullAssumption
    DEF runParseIntent, runGeneratePlan, runExplainPlan, withPending, ReportInv,
        Notices, probing
  <1>5. CASE runCheckConnection \/ CheckCompletes \/ EditPrompt
    BY <1>5 DEF runCheckConnection, CheckCompletes, CheckAnswered, EditPrompt, ReportInv, probing
  <1>6. CASE RequestAnswered
    <2>1. UNCHANGED <<probing, confirmationMessage>>
      BY <1>6 DEF RequestAnswered, IntentParsed, IntentParsedForPlan, PlanGenerated,
                  PlanExplained, RequestFailed, Finish, probing
    <2>2. QED
      BY <2>1 DEF ReportInv, probing
  <1>7. CASE UNCHANGED vars
    BY <1>7 DEF vars, ReportInv, probing
  <1>8. QED
    BY <1>1, <1>2, <1>3, <1>4, <1>5, <1>6, <1>7 DEF Next

LEMMA ReportInvariant == Spec => []ReportInv
  BY InitReport, NextReport, PTL DEF Spec

(* The notice of a safe probe stands only beside the report of a consented    *)
(* probe that passes the safety validation.                                   *)
THEOREM SessionNoticeTruthful == Spec => []NoticeTruthful
  <1>1. ReportInv => NoticeTruthful
    BY ProbeSafe, ProbeFields, NullAssumption DEF ReportInv, NoticeTruthful, ProbeReport
  <1>2. QED
    BY <1>1, ReportInvariant, PTL

(* Each fact of the report on display is licensed by the probe policy.        *)
THEOREM SessionReportWithinPolicy == Spec => []ReportWithinPolicy
  <1>1. ReportInv => ReportWithinPolicy
    BY MockNeeds, ProbeNeeds, ProbeFields, PolicyFields DEF ReportInv, ReportWithinPolicy
  <1>2. QED
    BY <1>1, ReportInvariant, PTL

--------------------------------------------------------------------------------
(* Findings of a read-only adapter, merged into either report and redacted.   *)

ProbeKeys == {"readOnly", "commandsExecuted", "filesWritten", "networkRequests"}

WithCommands(probe, commands) == [probe EXCEPT !.commandsExecuted = commands]
WithFindings(minecraft, findings) ==
  [minecraft EXCEPT !.directoryStatus = findings.directoryStatus,
                    !.candidateDirectory = findings.candidateDirectory,
                    !.scannedRecursively = FALSE]

LEMMA MergeFields ==
  ASSUME NEW report, DOMAIN report = Fields, NEW result
  PROVE  /\ DOMAIN mergeProbeResultIntoEnvironmentReport(report, result) = Fields
         /\ mergeProbeResultIntoEnvironmentReport(report, result).source
              = ProbeSource(result.consent)
         /\ mergeProbeResultIntoEnvironmentReport(report, result).probe
              = WithCommands(report.probe, result.commandsExecuted)
         /\ mergeProbeResultIntoEnvironmentReport(report, result).java = result.java
         /\ mergeProbeResultIntoEnvironmentReport(report, result).minecraft
              = WithFindings(report.minecraft, result.minecraft)
         /\ mergeProbeResultIntoEnvironmentReport(report, result).disk = result.disk
         /\ mergeProbeResultIntoEnvironmentReport(report, result).network
              = baseEnvironmentReport.network
         /\ mergeProbeResultIntoEnvironmentReport(report, result).permissions
              = ProbePermissions(result.consent.granted)
  BY DEF mergeProbeResultIntoEnvironmentReport, Fields, ProbePermissions, WithCommands,
         WithFindings

LEMMA RedactDomain ==
  ASSUME NEW report, DOMAIN report = Fields, DOMAIN report.probe = ProbeKeys
  PROVE  /\ DOMAIN redactEnvironmentReport(report) = Fields
         /\ DOMAIN redactEnvironmentReport(report).probe = ProbeKeys
  <1>1. DOMAIN redactEnvironmentReport(report) = Fields
    BY DEF redactEnvironmentReport, Fields
  <1>2. redactEnvironmentReport(report).probe
          = [report.probe EXCEPT !.readOnly = TRUE, !.filesWritten = 0, !.networkRequests = 0]
    BY DEF redactEnvironmentReport, Fields
  <1>3. QED
    BY <1>1, <1>2

LEMMA RedactTexts ==
  ASSUME NEW report, DOMAIN report = Fields,
         "path" \in DOMAIN report.java, "checkedPath" \in DOMAIN report.disk,
         {"candidateDirectory", "scannedRecursively"} \subseteq DOMAIN report.minecraft,
         DOMAIN report.source = {"mode", "uploaded", "consentRequired", "consentGranted"},
         DOMAIN report.probe = ProbeKeys, report.network = baseEnvironmentReport.network
  PROVE  /\ redactEnvironmentReport(report).java.path = redactSensitiveValue(report.java.path)
         /\ redactEnvironmentReport(report).minecraft.candidateDirectory
              = redactSensitiveValue(report.minecraft.candidateDirectory)
         /\ redactEnvironmentReport(report).disk.checkedPath
              = redactSensitiveValue(report.disk.checkedPath)
         /\ ~redactEnvironmentReport(report).minecraft.scannedRecursively
         /\ ~redactEnvironmentReport(report).source.uploaded
         /\ redactEnvironmentReport(report).network.requestsMade = 0
         /\ redactEnvironmentReport(report).probe.readOnly
         /\ redactEnvironmentReport(report).probe.filesWritten = 0
         /\ redactEnvironmentReport(report).probe.networkRequests = 0
         /\ redactEnvironmentReport(report).probe.commandsExecuted
              = report.probe.commandsExecuted
         /\ redactEnvironmentReport(report).privacy = baseEnvironmentReport.privacy
         /\ redactEnvironmentReport(report).permissions
              = ProbePermissions(report.permissions.readOnlyProbeAllowed)
  <1>1. redactEnvironmentReport(report).java
          = [report.java EXCEPT !.path = redactSensitiveValue(report.java.path)]
    BY DEF redactEnvironmentReport, Fields
  <1>2. redactEnvironmentReport(report).minecraft
          = [report.minecraft EXCEPT
               !.candidateDirectory = redactSensitiveValue(report.minecraft.candidateDirectory),
               !.scannedRecursively = FALSE]
    BY DEF redactEnvironmentReport, Fields
  <1>3. redactEnvironmentReport(report).disk
          = [report.disk EXCEPT !.checkedPath = redactSensitiveValue(report.disk.checkedPath)]
    BY DEF redactEnvironmentReport, Fields
  <1>4. redactEnvironmentReport(report).source = [report.source EXCEPT !.uploaded = FALSE]
    BY DEF redactEnvironmentReport, Fields
  <1>5. redactEnvironmentReport(report).network
          = [report.network EXCEPT !.checked = FALSE, !.requestsMade = 0]
    BY DEF redactEnvironmentReport, Fields
  <1>6. redactEnvironmentReport(report).probe
          = [report.probe EXCEPT !.readOnly = TRUE, !.filesWritten = 0, !.networkRequests = 0]
    BY DEF redactEnvironmentReport, Fields
  <1>7. /\ redactEnvironmentReport(report).privacy = baseEnvironmentReport.privacy
        /\ redactEnvironmentReport(report).permissions
             = ProbePermissions(report.permissions.readOnlyProbeAllowed)
    BY DEF redactEnvironmentReport, Fields, ProbePermissions
  <1>8. "requestsMade" \in DOMAIN report.network
    BY DEF baseEnvironmentReport
  <1>9. ProbeKeys = {"readOnly", "commandsExecuted", "filesWritten", "networkRequests"}
    BY DEF ProbeKeys
  <1>10. /\ redactEnvironmentReport(report).java.path = redactSensitiveValue(report.java.path)
         /\ redactEnvironmentReport(report).disk.checkedPath
              = redactSensitiveValue(report.disk.checkedPath)
    BY <1>1, <1>3
  <1>11. /\ redactEnvironmentReport(report).minecraft.candidateDirectory
              = redactSensitiveValue(report.minecraft.candidateDirectory)
         /\ ~redactEnvironmentReport(report).minecraft.scannedRecursively
    BY <1>2
  <1>12. /\ ~redactEnvironmentReport(report).source.uploaded
         /\ redactEnvironmentReport(report).network.requestsMade = 0
    BY <1>4, <1>5, <1>8
  <1>13. /\ redactEnvironmentReport(report).probe.readOnly
         /\ redactEnvironmentReport(report).probe.filesWritten = 0
         /\ redactEnvironmentReport(report).probe.networkRequests = 0
         /\ redactEnvironmentReport(report).probe.commandsExecuted
              = report.probe.commandsExecuted
    BY <1>6, <1>9
  <1>14. QED
    BY <1>7, <1>10, <1>11, <1>12, <1>13

(* The reports a session shows have the shape the merge expects.              *)
LEMMA ShownShape ==
  ASSUME ReportInv, environmentReport # Null
  PROVE  /\ DOMAIN environmentReport = Fields
         /\ DOMAIN environmentReport.probe = ProbeKeys
         /\ environmentReport.minecraft = baseEnvironmentReport.minecraft
  <1>1. CASE environmentReport = MockReport
    <2>1. MockReport.probe = baseEnvironmentReport.probe
      BY BaseFields DEF MockReport, createMockEnvironmentReport, Fields
    <2>2. DOMAIN baseEnvironmentReport.probe = ProbeKeys
      BY DEF baseEnvironmentReport, ProbeKeys
    <2>3. QED
      BY <1>1, <2>1, <2>2, MockDomain, MockFields
  <1>2. ASSUME NEW device \in Devices, environmentReport = ProbeReport(device)
        PROVE  /\ DOMAIN environmentReport = Fields
               /\ DOMAIN environmentReport.probe = ProbeKeys
               /\ environmentReport.minecraft = baseEnvironmentReport.minecraft
    <2> DEFINE consent == [required |-> TRUE, granted |-> TRUE]
               platform == [os |-> detectOs(device.hints), arch |-> detectArch(device.hints)]
               runtime == [tauriAvailable |-> device.tauri]
               merged == SafeMerged(consent, platform, runtime)
    <2>1. ProbeReport(device) = redactEnvironmentReport(merged)
      BY DEF ProbeReport, runSafePlatformProbe, createSafePlatformProbeReport, SafeMerged,
             collectSafePlatformProbeInput, mergeSafePlatformProbeIntoEnvironmentReport, MockReport
    <2> HIDE DEF consent, platform, runtime
    <2>2. DOMAIN merged = Fields /\ merged.probe = SafeProbe
      BY SafeMergeFields
    <2> HIDE DEF merged
    <2>3. DOMAIN SafeProbe = ProbeKeys
      BY DEF baseEnvironmentReport, SafeProbe, ProbeKeys
    <2>4. QED
      BY <1>2, <2>1, <2>2, <2>3, RedactDomain, ProbeFields
  <1>3. QED
    BY <1>1, <1>2 DEF ReportInv

(* The texts an adapter may find are redacted or say nothing.                 *)
LEMMA FoundTexts ==
  /\ \A result \in ProbeResults :
       {redactSensitiveValue(result.java.path),
        redactSensitiveValue(result.minecraft.candidateDirectory),
        redactSensitiveValue(result.disk.checkedPath)} \subseteq {"none", "redacted"}
  /\ \A text \in {"none", "redacted"} : ~FoundInJson(text)
  <1>1. \A text \in ProbeTexts : redactSensitiveValue(text) \in {"none", "redacted"}
    BY DEF ProbeTexts, redactSensitiveValue, looksSensitive, UserPaths, OtherSensitive
  <1>2. \A result \in ProbeResults :
          /\ result.java.path \in ProbeTexts /\ result.disk.checkedPath \in ProbeTexts
          /\ result.minecraft.candidateDirectory \in ProbeTexts
    BY DEF ProbeResults
  <1>3. \A text \in {"none", "redacted"} : ~FoundInJson(text)
    BY DEF FoundInJson, UserPaths
  <1>4. QED
    BY <1>1, <1>2, <1>3

(* Whatever a read-only adapter finds, the report on display stays free of    *)
(* sensitive texts once the findings are merged into it and redacted.         *)
THEOREM SessionProbeReportsRedacted == Spec => []ProbeReportsRedacted
  <1>1. ASSUME ReportInv, environmentReport # Null, NEW result \in ProbeResults
        PROVE  LET report == redactEnvironmentReport(
                               mergeProbeResultIntoEnvironmentReport(environmentReport, result))
               IN /\ validateReadOnlyProbeSafety(report)
                  /\ ~validateSafePlatformProbeSafety(report)
                  /\ {report.java.path, report.minecraft.candidateDirectory,
                       report.disk.checkedPath} \subseteq {"none", "redacted"}
                  /\ report.permissions.readOnlyProbeAllowed = result.consent.granted
    <2> DEFINE merged == mergeProbeResultIntoEnvironmentReport(environmentReport, result)
               report == redactEnvironmentReport(merged)
    <2>1. PICK granted \in BOOLEAN, p \in ProbeTexts, q \in ProbeTexts :
            result = [consent |-> [required |-> TRUE, granted |-> granted],
                      commandsExecuted |-> {"consented_read_only_probe_preview"},
                      java |-> [status |-> "detected", path |-> p],
                      minecraft |-> [directoryStatus |-> "candidate_only",
                                     candidateDirectory |-> q, scannedRecursively |-> FALSE],
                      disk |-> [status |-> "checked", checkedPath |-> p]]
      BY DEF ProbeResults
    <2>2. /\ DOMAIN merged = Fields
          /\ merged.source = ProbeSource(result.consent)
          /\ merged.probe = WithCommands(environmentReport.probe, result.commandsExecuted)
          /\ merged.java = result.java /\ merged.disk = result.disk
          /\ merged.minecraft = WithFindings(baseEnvironmentReport.minecraft, result.minecraft)
          /\ merged.permissions = ProbePermissions(result.consent.granted)
          /\ merged.network = baseEnvironmentReport.network
      <3>1. /\ DOMAIN environmentReport = Fields
            /\ environmentReport.minecraft = baseEnvironmentReport.minecraft
        BY <1>1, ShownShape
      <3>2. /\ DOMAIN merged = Fields
            /\ merged.source = ProbeSource(result.consent)
            /\ merged.probe = WithCommands(environmentReport.probe, result.commandsExecuted)
            /\ merged.java = result.java /\ merged.disk = result.disk
            /\ merged.minecraft = WithFindings(environmentReport.minecraft, result.minecraft)
            /\ merged.permissions = ProbePermissions(result.consent.granted)
            /\ merged.network = baseEnvironmentReport.network
        BY <3>1, MergeFields, Zenon
      <3>3. QED
        BY <3>1, <3>2
    <2> HIDE DEF merged
    <2>3. /\ DOMAIN merged.source = {"mode", "uploaded", "consentRequired", "consentGranted"}
      BY <2>2 DEF ProbeSource
    <2>4. /\ DOMAIN merged.probe = ProbeKeys
          /\ merged.probe.commandsExecuted = result.commandsExecuted
      BY <1>1, <2>2, ShownShape DEF WithCommands, ProbeKeys
    <2>5. "path" \in DOMAIN merged.java /\ "checkedPath" \in DOMAIN merged.disk
      BY <2>1, <2>2
    <2>6. /\ {"candidateDirectory", "scannedRecursively"} \subseteq DOMAIN merged.minecraft
          /\ merged.minecraft.candidateDirectory = result.minecraft.candidateDirectory
      BY <2>2 DEF WithFindings, baseEnvironmentReport
    <2>7. /\ report.java.path = redactSensitiveValue(result.java.path)
          /\ report.minecraft.candidateDirectory
               = redactSensitiveValue(result.minecraft.candidateDirectory)
          /\ report.disk.checkedPath = redactSensitiveValue(result.disk.checkedPath)
          /\ ~report.minecraft.scannedRecursively /\ ~report.source.uploaded
          /\ report.network.requestsMade = 0 /\ report.probe.readOnly
          /\ report.probe.filesWritten = 0 /\ report.probe.networkRequests = 0
          /\ report.probe.commandsExecuted = result.commandsExecuted
          /\ report.privacy = baseEnvironmentReport.privacy
          /\ report.permissions = ProbePermissions(merged.permissions.readOnlyProbeAllowed)
      BY <2>2, <2>3, <2>4, <2>5, <2>6, RedactTexts
    <2> HIDE DEF report
    <2>8. /\ merged.permissions.readOnlyProbeAllowed = result.consent.granted
          /\ ~report.permissions.canDownload /\ ~report.permissions.canLaunchProcess
          /\ ~report.permissions.canWriteInstanceDirectory
          /\ report.permissions.readOnlyProbeAllowed = result.consent.granted
      BY <2>2, <2>7 DEF ProbePermissions, Permissions
    <2>9. report.privacy.localOnly /\ ~report.privacy.uploadAllowed
      BY <2>7 DEF baseEnvironmentReport
    <2>10. {report.java.path, report.minecraft.candidateDirectory, report.disk.checkedPath}
             \subseteq {"none", "redacted"}
      BY <2>7, FoundTexts
    <2>11. validateReadOnlyProbeSafety(report)
      BY <2>7, <2>8, <2>9, <2>10, FoundTexts DEF validateReadOnlyProbeSafety
    <2>12. ~validateSafePlatformProbeSafety(report)
      BY <2>1, <2>7 DEF validateSafePlatformProbeSafety
    <2>13. QED
      BY <2>8, <2>10, <2>11, <2>12 DEF report, merged
  <1>2. ReportInv => ProbeReportsRedacted
    BY <1>1 DEF ProbeReportsRedacted
  <1>3. QED
    BY <1>2, ReportInvariant, PTL
===============================================================================
