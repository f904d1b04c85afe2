--------------------------- MODULE AutonomyControl ---------------------------
(***************************************************************************)
(* The autonomy runtime (scripts/autonomy-*.mjs): command-line commands    *)
(* that coordinate through files of one control directory.  A start        *)
(* acquires the coordinator lease, a heartbeat renews it; checkpoint and   *)
(* complete record a run's progress; pause and resume set and clear the    *)
(* sentinels and terminate supervised processes; supervise runs a process  *)
(* and heartbeats for it; cleanup prunes the process registry.             *)
(*                                                                         *)
(* A command is a Node process of its own.  One step is one awaited file   *)
(* operation with the computation up to the next one; a publication        *)
(* through a temporary file is one step, its rename.  Time is counted in   *)
(* units of which a lease lasts LeaseDuration.                             *)
(***************************************************************************)
EXTENDS Naturals

CONSTANTS Cmd,            \* commands that may run at the same time
          Run,            \* run identities
          Token,          \* ownership tokens of supervised processes
          Preserved,      \* processes whose cleanup policy does not terminate them
          Enabled,        \* the commands that are issued: a kind, and whether with its flag
          LeaseDuration,
          MaxTime,        \* bound on the clock
          MaxCrashes,     \* bound on commands that die or fail on a file
          MaxLapses       \* bound on challenges not answered and kills that fail

Kind == {"start", "heartbeat", "checkpoint", "complete", "pause", "resume", "cleanup", "supervise"}

ASSUME RuntimeAssumption ==
  /\ "none" \notin Run \cup Token
  /\ Preserved \subseteq Token
  /\ Enabled \subseteq Kind \X BOOLEAN
  /\ LeaseDuration \in Nat \ {0}
  /\ MaxTime \in Nat
  /\ MaxCrashes \in Nat
  /\ MaxLapses \in Nat

VARIABLES
  lease,      \* lease.json: absent, torn (created, not yet written) or a run's lease
  pause,      \* whether PAUSE exists
  stop,       \* whether STOP exists
  state,      \* run-state.json: status and run
  operation,  \* current-operation.json: its run, "unowned", or "absent"
  registry,   \* process-registry.json: registry[x] is x's status or "none"
  proc,       \* proc[x]: what has become of the process with token x
  now,        \* the clock
  issued,     \* runs that have been given a lease, whose commands may follow
  pc,         \* pc[c]: the next file operation of command c, "idle" if there is none
  mem,        \* mem[c]: c's arguments and what it has read
  crashes,    \* commands that died or failed so far
  lapses      \* unanswered challenges and failed kills so far

files == <<lease, pause, stop, state, operation, registry>>
faults == <<crashes, lapses>>
vars  == <<lease, pause, stop, state, operation, registry, proc, now, issued, pc, mem, faults>>

Ended == {"completed", "failed", "killed"}

\* "asked": its termination has been sent to it, and it has not obeyed so far.
Living == {"alive", "asked"}

NoLease == [run |-> "none", until |-> 0, torn |-> FALSE]
NoState == [status |-> "none", run |-> "none"]
NoRegistry == [x \in Token |-> "none"]

\* exit: whether a supervisor listens for its process's exit, or missed it.
NoMem == [kind |-> "none", run |-> "none", flag |-> FALSE, at |-> 0,
          stop |-> FALSE, lease |-> NoLease, state |-> NoState, operation |-> "absent",
          registry |-> NoRegistry, token |-> "none", exit |-> "unheard", timedOut |-> FALSE,
          victims |-> {}, target |-> "none", killed |-> {}]

Init ==
  /\ lease = NoLease
  /\ pause = FALSE
  /\ stop = FALSE
  /\ state = NoState
  /\ operation = "absent"
  /\ registry = NoRegistry
  /\ proc = [x \in Token |-> "unused"]
  /\ now = 0
  /\ issued = {}
  /\ pc = [c \in Cmd |-> "idle"]
  /\ mem = [c \in Cmd |-> NoMem]
  /\ crashes = 0
  /\ lapses = 0

leaseIsStale(l) == l.until <= now

At(c, l) == pc[c] = l

Goto(c, l) == pc' = [pc EXCEPT ![c] = l]

\* c moves on to l with m in its memory.
Read(c, l, m) == Goto(c, l) /\ mem' = [mem EXCEPT ![c] = m]

End(c) == Read(c, "idle", NoMem)

\* A supervisor that has spawned its process.
Supervising(c) == mem[c].token # "none"

\* Mutated form: the run identity is not compared.
Owns_Any(c) == mem[c].run # "none" /\ lease # NoLease /\ ~ lease.torn

\* The lease file holds a record of c's run, expired or not.
Owns(c) == lease.run = mem[c].run /\ ~ lease.torn

-----------------------------------------------------------------------------
(* Commands.                                                               *)

FirstStep(k) ==
  CASE k \in {"start", "checkpoint", "supervise"} -> "stop?"
    [] k = "heartbeat" -> "own lease"
    [] k = "complete"  -> "clear operation"
    [] k = "pause"     -> "set pause"
    [] k = "resume"    -> "diagnose stop"
    [] k = "cleanup"   -> "idle lease"

\* start draws a new run identity; the flag is pause --stop or resume --clear-stop.
Issue(c, k, r, flag) ==
  /\ At(c, "idle")
  /\ <<k, flag>> \in Enabled
  /\ CASE k = "start" -> r \in Run \ issued /\ \A d \in Cmd : mem[d].run # r
       [] k \in {"pause", "resume", "cleanup"} -> r = "none"
       [] OTHER -> r \in issued
  /\ Read(c, FirstStep(k), [NoMem EXCEPT !.kind = k, !.run = r, !.flag = flag,
                             !.at = IF k \in {"start", "heartbeat"} THEN now ELSE 0])
  /\ UNCHANGED <<files, proc, now, issued, faults>>

\* Mutated form: resume removes the lease of a running coordinator.
Removable_Any(l, s) == l.until <= now \/ s.status # "completed"

\* Mutated form: only a paused run's lease is removed, however long expired.
Removable_Paused(l, s) == s.status = "paused"

\* A lease that resume may remove: an expired one, or any once the run is paused.
Removable(l, s) == leaseIsStale(l) \/ s.status = "paused"

\* The conditions under which a command goes on from where it is.  A spawn fails
\* when the system has no further process for it.
MayGoOn(c) ==
  CASE At(c, "stop?")            -> ~ stop
    [] At(c, "pause?")           -> ~ pause
    [] At(c, "create lease")     -> lease = NoLease
    [] pc[c] \in {"own lease", "check lease"} -> Owns(c)
    [] At(c, "supervisor lease") -> Owns(c) /\ ~ leaseIsStale(lease)
    [] At(c, "diagnose lease")   -> ~ lease.torn
    [] At(c, "read state")       -> mem[c].stop => mem[c].flag
    [] At(c, "decide")           -> mem[c].lease = NoLease \/ Removable(mem[c].lease, mem[c].state)
    [] At(c, "idle lease")       -> ~ lease.torn /\ leaseIsStale(lease)
    [] At(c, "spawn")            -> \E x \in Token : proc[x] = "unused"
    [] At(c, "all ended")        -> \A x \in Token : registry[x] # "none" => proc[x] \notin Living
    [] OTHER                     -> TRUE

\* Passing a test takes c to l; nothing else happens.
Pass(c, from, l) ==
  /\ At(c, from)
  /\ MayGoOn(c)
  /\ Goto(c, l)
  /\ UNCHANGED <<files, proc, now, issued, mem, faults>>

-----------------------------------------------------------------------------
(* assertMayStartWork: STOP is looked for first, then PAUSE.               *)

AfterPreflight(c) ==
  CASE mem[c].kind = "start"      -> "create lease"
    [] mem[c].kind = "checkpoint" -> "save operation"
    [] mem[c].kind = "supervise" /\ ~ Supervising(c) -> "supervisor lease"
    [] OTHER                      -> "renew lease"

CheckStop(c) == Pass(c, "stop?", "pause?")

CheckPause(c) == Pass(c, "pause?", AfterPreflight(c))

-----------------------------------------------------------------------------
(* acquireLease and heartbeat.                                             *)

\* The exclusive creation leaves an empty file until the record is written.
CreateLease(c) ==
  /\ At(c, "create lease")
  /\ MayGoOn(c)
  /\ lease' = [run |-> mem[c].run, until |-> 0, torn |-> TRUE]
  /\ Goto(c, "write lease")
  /\ UNCHANGED <<pause, stop, state, operation, registry, proc, now, issued, mem, faults>>

\* The write goes to the created file, wherever its name has gone; the expiry is
\* reckoned from the time of the call.
WriteLease(c) ==
  LET r == mem[c].run IN
  /\ At(c, "write lease")
  /\ lease' = IF lease = [run |-> r, until |-> 0, torn |-> TRUE]
              THEN [run |-> r, until |-> mem[c].at + LeaseDuration, torn |-> FALSE]
              ELSE lease
  /\ issued' = issued \cup {r}
  /\ Goto(c, "save operation")
  /\ UNCHANGED <<pause, stop, state, operation, registry, proc, now, mem, faults>>

ReadOwnLease(c) ==
  /\ At(c, "own lease")
  /\ MayGoOn(c)
  /\ Read(c, "stop?", [mem[c] EXCEPT !.lease = lease])
  /\ UNCHANGED <<files, proc, now, issued, faults>>

\* What a supervisor with memory m keeps between two heartbeats.
Waiting(m) == [m EXCEPT !.lease = NoLease, !.at = 0]

\* The rename replaces whatever lease there is by now.
RenewLease(c) ==
  /\ At(c, "renew lease")
  /\ lease' = [mem[c].lease EXCEPT !.until = mem[c].at + LeaseDuration]
  /\ IF Supervising(c) THEN Read(c, "wait", Waiting(mem[c])) ELSE End(c)
  /\ UNCHANGED <<pause, stop, state, operation, registry, proc, now, issued, faults>>

-----------------------------------------------------------------------------
(* Durable progress: start, checkpoint and complete.                       *)

SaveOperation(c) ==
  /\ At(c, "save operation")
  /\ operation' = mem[c].run
  /\ Goto(c, "save running")
  /\ UNCHANGED <<lease, pause, stop, state, registry, proc, now, issued, mem, faults>>

SaveRunning(c) ==
  /\ At(c, "save running")
  /\ state' = [status |-> "running", run |-> mem[c].run]
  /\ End(c)
  /\ UNCHANGED <<lease, pause, stop, operation, registry, proc, now, issued, faults>>

\* Mutated form: the file is overwritten with nothing instead of being removed.
ClearOperation_Null(c) ==
  /\ At(c, "clear operation")
  /\ operation' = "null"
  /\ Goto(c, "save completed")
  /\ UNCHANGED <<lease, pause, stop, state, registry, proc, now, issued, mem, faults>>

ClearOperation(c) ==
  /\ At(c, "clear operation")
  /\ operation' = "absent"
  /\ Goto(c, "save completed")
  /\ UNCHANGED <<lease, pause, stop, state, registry, proc, now, issued, mem, faults>>

SaveCompleted(c) ==
  /\ At(c, "save completed")
  /\ state' = [status |-> "completed", run |-> mem[c].run]
  /\ Goto(c, "check lease")
  /\ UNCHANGED <<lease, pause, stop, operation, registry, proc, now, issued, mem, faults>>

\* removeLeaseIfOwned; an absent lease is nobody's, another run's is an error.
CheckLease(c) == Pass(c, "check lease", "remove lease")

RemoveLease(c) ==
  /\ At(c, "remove lease")
  /\ lease' = NoLease
  /\ End(c)
  /\ UNCHANGED <<pause, stop, state, operation, registry, proc, now, issued, faults>>

-----------------------------------------------------------------------------
(* pauseRuntime.  Nothing in the repository marks an operation active, so  *)
(* pause does not wait for one.                                            *)

SetPause(c) ==
  /\ At(c, "set pause")
  /\ pause' = TRUE
  /\ Goto(c, IF mem[c].flag THEN "set stop" ELSE "read state")
  /\ UNCHANGED <<lease, stop, state, operation, registry, proc, now, issued, mem, faults>>

SetStop(c) ==
  /\ At(c, "set stop")
  /\ stop' = TRUE
  /\ Goto(c, "read state")
  /\ UNCHANGED <<lease, pause, state, operation, registry, proc, now, issued, mem, faults>>

\* Mutated form: resume does not terminate what is still running.
ReadState_Spare(c) ==
  /\ At(c, "read state")
  /\ MayGoOn(c)
  /\ Read(c, IF mem[c].kind = "pause" THEN "save pausing" ELSE "decide",
          [mem[c] EXCEPT !.state = state])
  /\ UNCHANGED <<files, proc, now, issued, faults>>

\* A resume ends here if its diagnosis saw STOP and it is not to clear it.
ReadState(c) ==
  /\ At(c, "read state")
  /\ MayGoOn(c)
  /\ Read(c, IF mem[c].kind = "pause" THEN "save pausing" ELSE "inspect",
          [mem[c] EXCEPT !.state = state])
  /\ UNCHANGED <<files, proc, now, issued, faults>>

SavePausing(c) ==
  /\ At(c, "save pausing")
  /\ state' = [status |-> "pausing", run |-> mem[c].state.run]
  /\ Goto(c, "read operation")
  /\ UNCHANGED <<lease, pause, stop, operation, registry, proc, now, issued, mem, faults>>

ReadOperation(c) ==
  /\ At(c, "read operation")
  /\ Read(c, "inspect", [mem[c] EXCEPT !.operation = operation])
  /\ UNCHANGED <<files, proc, now, issued, faults>>

KeepOperation(c) ==
  /\ At(c, "keep operation")
  /\ operation' = IF mem[c].operation = "absent" THEN "unowned" ELSE mem[c].operation
  /\ Read(c, "save paused", [mem[c] EXCEPT !.operation = "absent"])
  /\ UNCHANGED <<lease, pause, stop, state, registry, proc, now, issued, faults>>

SavePaused(c) ==
  /\ At(c, "save paused")
  /\ state' = [status |-> "paused", run |-> mem[c].state.run]
  /\ End(c)
  /\ UNCHANGED <<lease, pause, stop, operation, registry, proc, now, issued, faults>>

-----------------------------------------------------------------------------
(* terminateDisposableProcesses, of pause and resume, and                  *)
(* terminateOwnedProcessTree, which a supervisor calls too.                *)

InspectProcesses(c) ==
  /\ At(c, "inspect")
  /\ Read(c, "challenge", [mem[c] EXCEPT !.victims =
            {x \in Token \ Preserved : registry[x] = "running" /\ proc[x] \in Living}])
  /\ UNCHANGED <<files, proc, now, issued, faults>>

\* Only a process that is alive and answers the challenge is terminated; an
\* unanswered challenge leaves it alone.
Challenge(c, x) ==
  LET m == [mem[c] EXCEPT !.victims = @ \ {x}] IN
  /\ At(c, "challenge") /\ x \in mem[c].victims
  /\ \/ /\ proc[x] \in Living
        /\ Read(c, "terminate", [m EXCEPT !.target = x])
        /\ UNCHANGED faults
     \/ /\ proc[x] \notin Living
        /\ Read(c, "challenge", m)
        /\ UNCHANGED faults
     \/ /\ proc[x] \in Living /\ lapses < MaxLapses
        /\ Read(c, "challenge", m)
        /\ lapses' = lapses + 1
        /\ UNCHANGED crashes
  /\ UNCHANGED <<files, proc, now, issued>>

\* The process may have ended by itself since the challenge.  The request, or else
\* the kill, is sent; a kill that exits with 0 counts as a termination whether the
\* process obeys, obeys later or never does, and one that fails does not.
Terminate(c) ==
  LET x == mem[c].target
      m == [mem[c] EXCEPT !.target = "none"]
  IN
  /\ At(c, "terminate")
  /\ \/ /\ \E p \in IF proc[x] \in Living THEN {"killed", "asked"} ELSE {proc[x]} :
             proc' = [proc EXCEPT ![x] = p]
        /\ Read(c, "challenge",
                [m EXCEPT !.killed = IF Supervising(c) THEN {} ELSE @ \cup {x}])
        /\ UNCHANGED faults
     \/ /\ proc[x] \in Living /\ lapses < MaxLapses
        /\ \E p \in {proc[x], "asked"} : proc' = [proc EXCEPT ![x] = p]
        /\ Read(c, "challenge", m)
        /\ lapses' = lapses + 1
        /\ UNCHANGED crashes
  /\ UNCHANGED <<files, now, issued>>

AllChallenged(c) ==
  /\ At(c, "challenge")
  /\ mem[c].victims = {}
  /\ Goto(c, IF Supervising(c) THEN "wait" ELSE "read registry")
  /\ UNCHANGED <<files, proc, now, issued, mem, faults>>

-----------------------------------------------------------------------------
(* The process registry is read, changed and written back.                 *)

AfterRegistry(c) ==
  CASE mem[c].kind = "cleanup" -> "prune"
    [] Supervising(c)          -> IF mem[c].exit = "unheard" THEN "register" ELSE "record end"
    [] OTHER                   -> "record terminated"

ReadRegistry(c) ==
  /\ At(c, "read registry")
  /\ Read(c, AfterRegistry(c), [mem[c] EXCEPT !.registry = registry])
  /\ UNCHANGED <<files, proc, now, issued, faults>>

\* Mutated form: whatever was registered as running is recorded as terminated.
StatusTerminated_All(m, x) ==
  IF m.registry[x] = "running" THEN "terminated" ELSE m.registry[x]

\* The status of x that a command with memory m writes back.
StatusTerminated(m, x) ==
  IF x \in m.killed /\ m.registry[x] # "none" THEN "terminated" ELSE m.registry[x]

RecordTerminated(c) ==
  /\ At(c, "record terminated")
  /\ registry' = [x \in Token |-> StatusTerminated(mem[c], x)]
  /\ Read(c, IF mem[c].kind = "pause" THEN "keep operation" ELSE "decide",
          [mem[c] EXCEPT !.registry = NoRegistry, !.killed = {}])
  /\ UNCHANGED <<lease, pause, stop, state, operation, proc, now, issued, faults>>

-----------------------------------------------------------------------------
(* resumeRuntime; the diagnosis comes first and changes nothing.           *)

DiagnoseStop(c) ==
  /\ At(c, "diagnose stop")
  /\ Read(c, "diagnose lease", [mem[c] EXCEPT !.stop = stop])
  /\ UNCHANGED <<files, proc, now, issued, faults>>

DiagnoseLease(c) == Pass(c, "diagnose lease", "diagnose processes")

\* A registered process that does not answer its challenge blocks the recovery.
DiagnoseProcesses(c) ==
  /\ At(c, "diagnose processes")
  /\ \/ Goto(c, "reread lease") /\ UNCHANGED <<mem, faults>>
     \/ /\ \E x \in Token : registry[x] # "none" /\ proc[x] \in Living
        /\ lapses < MaxLapses
        /\ lapses' = lapses + 1
        /\ End(c)
        /\ UNCHANGED crashes
  /\ UNCHANGED <<files, proc, now, issued>>

\* A lease that cannot be parsed by now is left aside.
RereadLease(c) ==
  /\ At(c, "reread lease")
  /\ Read(c, "read state", [mem[c] EXCEPT !.lease = IF lease.torn THEN NoLease ELSE lease])
  /\ UNCHANGED <<files, proc, now, issued, faults>>

Decide(c) == Pass(c, "decide", IF mem[c].lease = NoLease THEN "clear pause" ELSE "drop lease")

DropLease(c) ==
  /\ At(c, "drop lease")
  /\ lease' = NoLease
  /\ Read(c, "clear pause", [mem[c] EXCEPT !.lease = NoLease])
  /\ UNCHANGED <<pause, stop, state, operation, registry, proc, now, issued, faults>>

ClearPause(c) ==
  /\ At(c, "clear pause")
  /\ pause' = FALSE
  /\ Goto(c, IF mem[c].flag THEN "clear stop" ELSE "save ready")
  /\ UNCHANGED <<lease, stop, state, operation, registry, proc, now, issued, mem, faults>>

ClearStop(c) ==
  /\ At(c, "clear stop")
  /\ stop' = FALSE
  /\ Goto(c, "save ready")
  /\ UNCHANGED <<lease, pause, state, operation, registry, proc, now, issued, mem, faults>>

SaveReady(c) ==
  /\ At(c, "save ready")
  /\ state' = [status |-> "ready-to-resume", run |-> mem[c].state.run]
  /\ End(c)
  /\ UNCHANGED <<lease, pause, stop, operation, registry, proc, now, issued, faults>>

-----------------------------------------------------------------------------
(* cleanupRuntime: no lease may be active and no registered process alive. *)

CheckIdleLease(c) == Pass(c, "idle lease", "all ended")

CheckAllEnded(c) == Pass(c, "all ended", "read registry")

Prune(c) ==
  /\ At(c, "prune")
  /\ registry' = [x \in Token |-> IF mem[c].registry[x] = "running" THEN "running" ELSE "none"]
  /\ End(c)
  /\ UNCHANGED <<lease, pause, stop, state, operation, proc, now, issued, faults>>

-----------------------------------------------------------------------------
(* runSupervised.  A heartbeat that is still going on when the process     *)
(* ends is finished before the end is recorded: the two touch different    *)
(* files.                                                                  *)

CheckSupervisorLease(c) == Pass(c, "supervisor lease", "spawn")

Spawn(c, x) ==
  /\ At(c, "spawn")
  /\ proc[x] = "unused"
  /\ proc' = [proc EXCEPT ![x] = "alive"]
  /\ Read(c, "read registry", [mem[c] EXCEPT !.token = x])
  /\ UNCHANGED <<files, now, issued, faults>>

\* The exit listener is attached once the registry is written: an exit that was
\* delivered before is missed.
Register(c) ==
  LET x == mem[c].token IN
  /\ At(c, "register")
  /\ registry' = [mem[c].registry EXCEPT ![x] = "running"]
  /\ \E e \in IF proc[x] \in Living THEN {"heard"} ELSE {"heard", "missed"} :
        Read(c, "wait", [mem[c] EXCEPT !.exit = e, !.registry = NoRegistry])
  /\ UNCHANGED <<lease, pause, stop, state, operation, proc, now, issued, faults>>

\* The heartbeat timer.
Beat(c) ==
  /\ At(c, "wait")
  /\ Read(c, "own lease", [mem[c] EXCEPT !.at = now])
  /\ UNCHANGED <<files, proc, now, issued, faults>>

\* Mutated form: the timeout is noted but terminates nothing.
TimeOut_Noted(c) ==
  /\ At(c, "wait")
  /\ ~ mem[c].timedOut
  /\ Read(c, "wait", [mem[c] EXCEPT !.timedOut = TRUE])
  /\ UNCHANGED <<files, proc, now, issued, faults>>

\* The timeout fires once.
TimeOut(c) ==
  /\ At(c, "wait")
  /\ ~ mem[c].timedOut
  /\ Read(c, "challenge", [mem[c] EXCEPT !.timedOut = TRUE, !.victims = {mem[c].token}])
  /\ UNCHANGED <<files, proc, now, issued, faults>>

Exited(c) ==
  /\ At(c, "wait")
  /\ mem[c].exit = "heard" /\ proc[mem[c].token] \notin Living
  /\ Goto(c, "read registry")
  /\ UNCHANGED <<files, proc, now, issued, mem, faults>>

\* Mutated form: an exit in time counts as completed.
EndStatus_InTime(m) == IF m.timedOut THEN "timed-out" ELSE "completed"

EndStatus(m) ==
  CASE m.timedOut -> "timed-out"
    [] ~ m.timedOut /\ proc[m.token] = "completed" -> "completed"
    [] OTHER -> "failed"

\* An entry that has disappeared from the registry is not put back.
RecordEnd(c) ==
  LET m == mem[c] IN
  /\ At(c, "record end")
  /\ registry' = IF m.registry[m.token] = "none" THEN m.registry
                 ELSE [m.registry EXCEPT ![m.token] = EndStatus(m)]
  /\ End(c)
  /\ UNCHANGED <<lease, pause, stop, state, operation, proc, now, issued, faults>>

-----------------------------------------------------------------------------
(* Errors, crashes and the surroundings.                                   *)

\* Mutated form: a supervisor ignores a heartbeat that fails.
AfterRefusal_Wait(c) ==
  IF Supervising(c) THEN Read(c, "wait", Waiting(mem[c])) ELSE End(c)

\* A test that fails ends the command; in the heartbeat of a supervisor it has
\* the process terminated.
AfterRefusal(c) ==
  IF Supervising(c)
  THEN Read(c, "challenge", [Waiting(mem[c]) EXCEPT !.victims = {mem[c].token}])
  ELSE End(c)

Refuse(c) ==
  /\ ~ MayGoOn(c)
  /\ AfterRefusal(c)
  /\ UNCHANGED <<files, proc, now, issued, faults>>

\* The command dies, or a file operation of it fails.
Crash(c) ==
  /\ ~ At(c, "idle")
  /\ crashes < MaxCrashes
  /\ crashes' = crashes + 1
  /\ End(c)
  /\ UNCHANGED <<files, proc, now, issued, lapses>>

\* A supervised process ends by itself, or obeys at last.
ProcessEnds(x) ==
  /\ proc[x] \in Living
  /\ \E e \in {"completed", "failed"} : proc' = [proc EXCEPT ![x] = e]
  /\ UNCHANGED <<files, now, issued, pc, mem, faults>>

Tick ==
  /\ now < MaxTime
  /\ now' = now + 1
  /\ UNCHANGED <<files, proc, issued, pc, mem, faults>>

-----------------------------------------------------------------------------
Coordinate(c) == \/ CheckStop(c) \/ CheckPause(c)
                 \/ CreateLease(c) \/ WriteLease(c) \/ ReadOwnLease(c) \/ RenewLease(c)
                 \/ SaveOperation(c) \/ SaveRunning(c)
                 \/ ClearOperation(c) \/ SaveCompleted(c) \/ CheckLease(c) \/ RemoveLease(c)

Pause(c) == \/ SetPause(c) \/ SetStop(c) \/ ReadState(c) \/ SavePausing(c)
            \/ ReadOperation(c) \/ KeepOperation(c) \/ SavePaused(c)

TerminateDisposable(c) == \/ InspectProcesses(c) \/ (\E x \in Token : Challenge(c, x))
                          \/ Terminate(c) \/ AllChallenged(c)
                          \/ ReadRegistry(c) \/ RecordTerminated(c)

Resume(c) == \/ DiagnoseStop(c) \/ DiagnoseLease(c) \/ DiagnoseProcesses(c) \/ RereadLease(c)
             \/ Decide(c) \/ DropLease(c) \/ ClearPause(c) \/ ClearStop(c) \/ SaveReady(c)

Cleanup(c) == CheckIdleLease(c) \/ CheckAllEnded(c) \/ Prune(c)

Supervise(c) == \/ CheckSupervisorLease(c) \/ (\E x \in Token : Spawn(c, x)) \/ Register(c)
                \/ Beat(c) \/ TimeOut(c) \/ Exited(c) \/ RecordEnd(c)

Step(c) == \/ Coordinate(c) \/ Pause(c) \/ TerminateDisposable(c) \/ Resume(c)
           \/ Cleanup(c) \/ Supervise(c) \/ Refuse(c)

Environment == (\E x \in Token : ProcessEnds(x)) \/ Tick

Next == \/ \E c \in Cmd : \/ \E k \in Kind, r \in Run \cup {"none"}, flag \in BOOLEAN : Issue(c, k, r, flag)
                          \/ Step(c)
                          \/ Crash(c)
        \/ Environment

Spec == Init /\ [][Next]_vars
=============================================================================
