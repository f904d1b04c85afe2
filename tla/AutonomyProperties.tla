-------------------------- MODULE AutonomyProperties --------------------------
(***************************************************************************)
(* What the autonomy runtime promises about its lease, its process         *)
(* registry and the processes it supervises.                               *)
(***************************************************************************)
EXTENDS AutonomyControl

Status == {"none", "running", "pausing", "paused", "ready-to-resume", "completed"}

ProcessStatus == {"none", "running", "terminated", "completed", "failed", "timed-out"}

Leases == [run : Run \cup {"none"}, until : Nat, torn : BOOLEAN]

States == [status : Status, run : Run \cup {"none"}]

Memory == [kind : Kind \cup {"none"}, run : Run \cup {"none"}, flag : BOOLEAN, at : 0 .. MaxTime,
           stop : BOOLEAN, lease : Leases, state : States,
           operation : Run \cup {"unowned", "absent"}, registry : [Token -> ProcessStatus],
           token : Token \cup {"none"}, exit : {"unheard", "heard", "missed"}, timedOut : BOOLEAN,
           victims : SUBSET Token, target : Token \cup {"none"}, killed : SUBSET Token]

TypeOK ==
  /\ lease \in Leases
  /\ pause \in BOOLEAN
  /\ stop \in BOOLEAN
  /\ state \in States
  /\ operation \in Run \cup {"unowned", "absent"}
  /\ registry \in [Token -> ProcessStatus]
  /\ proc \in [Token -> {"unused"} \cup Living \cup Ended]
  /\ now \in 0 .. MaxTime
  /\ issued \subseteq Run
  /\ DOMAIN pc = Cmd
  /\ mem \in [Cmd -> Memory]
  /\ crashes \in 0 .. MaxCrashes
  /\ lapses \in 0 .. MaxLapses

-----------------------------------------------------------------------------
(* The lease.                                                              *)

Live(l) == l # NoLease /\ ~ l.torn /\ ~ leaseIsStale(l)

\* While a run's lease is live, the lease file only changes hands when that run
\* has completed, or when recovery of a paused run takes it away.
LeaseNotStolen ==
  [][Live(lease) /\ lease'.run # lease.run =>
       /\ lease' = NoLease
       /\ state.status = "paused" \/ state = [status |-> "completed", run |-> lease.run]]_vars

\* A second coordinator never takes the place of one whose lease is live.
ExclusiveLease == [][Live(lease) => lease'.run \in {lease.run, "none"}]_vars

Expired(r) == lease.run = r /\ ~ lease.torn /\ leaseIsStale(lease)

\* The steps of a pause or resume that terminate processes.
Disposing == {"inspect", "challenge", "terminate", "read registry", "record terminated"}

\* The steps of a resume from its reading of the lease to its removal.
Recovering == {"read state", "decide", "drop lease"} \cup Disposing

\* c is about to write the lease or the run state, or to act on what it has read
\* of them.
AtTheLease(c) ==
  \/ pc[c] \in {"create lease", "write lease", "renew lease", "save running", "save completed",
                "check lease", "remove lease", "save pausing", "save paused", "drop lease",
                "save ready"}
  \/ pc[c] \in {"stop?", "pause?"} /\ (mem[c].kind = "heartbeat" \/ Supervising(c))
  \/ pc[c] \in Recovering /\ mem[c].kind = "resume"

OneAtTheLease == \A c, d \in Cmd : AtTheLease(c) /\ AtTheLease(d) => c = d

\* Commands that run side by side, but take turns at the lease and the run state.
TurnsSpec == Init /\ [][Next /\ OneAtTheLease']_vars

\* The lease of a coordinator that died does not block the control directory for
\* good: when resume is tried again and again, it is removed (or its owner is
\* back and renews it).
StaleLeaseRecovered == \A r \in Run : Expired(r) ~> ~ Expired(r)

-----------------------------------------------------------------------------
(* Supervised processes.                                                   *)

\* What status s says of a process p is warranted: an end has happened; a
\* termination has at least been sent, for "terminated" follows kill's exit status.
Warranted(s, p) ==
  /\ s = "terminated" => p \in Ended \cup {"asked"}
  /\ s \in {"failed", "timed-out"} => p \in Ended
  /\ s = "completed" => p = "completed"

\* The registry says of a process only what its commands have brought about or
\* seen, whichever of them write their copies of it back, and in any order.
RegistryWarranted == \A x \in Token : Warranted(registry[x], proc[x])

SupervisedBy(c, x) == mem[c].token = x

Supervised(x) == \E c \in Cmd : SupervisedBy(c, x)

\* The timeout reaches the work: a supervised process does not go on unasked to
\* terminate, unless the one attempt of its timeout met an unanswered challenge or
\* a kill that failed.  Nobody makes sure that it obeys.
TimeoutReachesWork ==
  \A x \in Token :
    (proc[x] = "alive" /\ Supervised(x)) ~>
      \/ proc[x] # "alive" \/ ~ Supervised(x)
      \/ \E c \in Cmd : SupervisedBy(c, x) /\ mem[c].timedOut /\ lapses > 0

\* PAUSE reaches the work: while it stays, a supervised process is asked to
\* terminate, even if an attempt has failed: every refused heartbeat is another.
PauseReachesWork ==
  \A x \in Token :
    (pause /\ proc[x] = "alive" /\ Supervised(x)) ~>
      (~ pause \/ proc[x] # "alive" \/ ~ Supervised(x))

\* Recovery reaches the orphans: tried again and again, it asks a process whose
\* supervisor died to terminate, unless it cannot read the lease.
OrphansReached ==
  \A x \in Token \ Preserved :
    (registry[x] = "running" /\ proc[x] = "alive" /\ ~ Supervised(x)) ~>
      (proc[x] # "alive" \/ lease.torn)

\* No unregistered detached process: from its supervisor's registration on, a
\* process that lives is known to the registry.
Registered ==
  \A x \in Token :
    proc[x] \in Living =>
      \/ registry[x] # "none"
      \/ \E c \in Cmd : SupervisedBy(c, x) /\ mem[c].exit = "unheard"

\* The end of a supervised process ends its supervision, and with it the
\* heartbeats for the run.
SupervisionEnds ==
  \A x \in Token : (Supervised(x) /\ proc[x] \in Ended) ~> ~ Supervised(x)

-----------------------------------------------------------------------------
(* Fairness.  A command that has been started runs: each of its steps is   *)
(* the completion of a file operation or a timer, so the next one comes.   *)
(* While a supervisor waits, its heartbeat timer fires again and again, and *)
(* the event loop gets to the exit of its process and to its timeout too.  *)
(* Nobody is obliged to issue a command, except that recovery of a stale   *)
(* lease is tried again and again.                                         *)

FairCommands ==
  \A c \in Cmd : WF_vars(Step(c)) /\ SF_vars(Exited(c)) /\ SF_vars(TimeOut(c))

FairSpec == Spec /\ FairCommands

RecoverySpec == FairSpec /\ \A c \in Cmd : SF_vars(Issue(c, "resume", "none", TRUE))
=============================================================================
