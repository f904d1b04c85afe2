----------------------------- MODULE LeaseProofs -----------------------------
(***************************************************************************)
(* The lease under commands that take turns at it, whatever they are:      *)
(* proofs for any number of commands, of runs, of processes, of crashes,   *)
(* and any bounds.                                                         *)
(***************************************************************************)
EXTENDS AutonomyProofs

(* What a command that nobody disturbs has read is still so when it acts   *)
(* on it.                                                                  *)
FreshInv(l, m) ==
  /\ l \in {"stop?", "pause?", "renew lease"} /\ (m.kind = "heartbeat" \/ m.token # "none")
       => m.lease = lease
  /\ l \in {"check lease", "remove lease"} => state = [status |-> "completed", run |-> m.run]
  /\ l = "remove lease" => lease.run = m.run
  /\ m.kind = "resume" /\ l \in Recovering => m.lease \in {lease, NoLease}
  /\ m.kind = "resume" /\ l \in Recovering \ {"read state"} => m.state = state
  /\ l = "drop lease" => m.lease # NoLease /\ Removable(m.lease, m.state)

(* Where a command depends on what it has read.                            *)
Watched == {"stop?", "pause?", "renew lease", "check lease", "remove lease"} \cup Recovering

LEMMA Lands ==
  ASSUME IInv, NEW c \in Cmd, NEW l, NEW m
  PROVE  /\ Goto(c, l) => pc'[c] = l
         /\ Read(c, l, m) => pc'[c] = l /\ mem'[c] = m
         /\ UNCHANGED mem => mem'[c] = mem[c]
  BY Known DEF Goto, Read

(* A command that has nothing to rely on.                                  *)
LEMMA Unwatched ==
  ASSUME IInv, NEW c \in Cmd, NEW l, Goto(c, l), l \notin Watched
  PROVE  FreshInv(pc[c], mem[c])'
  <1>1. pc'[c] = l
    BY Lands
  <1>2. QED
    BY <1>1 DEF FreshInv, Watched, Recovering

(* A resume that carries on with what it has read, or another command at   *)
(* one of the steps they share.                                            *)
LEMMA CarriesOn ==
  ASSUME IInv, NEW c \in Cmd, FreshInv(pc[c], mem[c]), UNCHANGED <<lease, state, now>>,
         NEW l \in Disposing \cup {"decide"}, NEW m, Read(c, l, m),
         \/ m.kind # "resume"
         \/ /\ pc[c] \in Recovering \ {"read state"}
            /\ m.kind = mem[c].kind /\ m.lease = mem[c].lease /\ m.state = mem[c].state
  PROVE  FreshInv(pc[c], mem[c])'
  <1>1. pc'[c] = l /\ mem'[c] = m
    BY Lands
  <1>2. QED
    BY <1>1 DEF FreshInv, Recovering, Disposing

LEMMA CoordinateFresh ==
  ASSUME IInv, NEW c \in Cmd, FreshInv(pc[c], mem[c]), Coordinate(c)
  PROVE  FreshInv(pc[c], mem[c])'
  <1>1. CASE CheckStop(c)
    <2>1. pc'[c] = "pause?" /\ mem'[c] = mem[c] /\ pc[c] = "stop?"
      BY <1>1, Lands DEF CheckStop, Pass, At
    <2>2. QED
      BY <1>1, <2>1 DEF CheckStop, Pass, files, FreshInv, Recovering, Disposing
  <1>2. CASE CheckPause(c)
    <2>1. /\ pc'[c] = AfterPreflight(c) /\ mem'[c] = mem[c] /\ pc[c] = "pause?"
          /\ UNCHANGED <<lease, state>>
      BY <1>2, Lands DEF CheckPause, Pass, At, files
    <2>2. /\ AfterPreflight(c) \notin Watched \ {"renew lease"}
          /\ AfterPreflight(c) = "renew lease" => mem[c].kind = "heartbeat" \/ mem[c].token # "none"
      BY <2>1, Known DEF AfterPreflight, Supervising, LocationInv, Kind, Steps, Watched, Recovering,
                         Disposing
    <2>3. QED
      BY <2>1, <2>2 DEF FreshInv, Watched, Recovering, Disposing
  <1>3. CASE ReadOwnLease(c)
    <2> DEFINE m == [mem[c] EXCEPT !.lease = lease]
    <2>1. pc'[c] = "stop?" /\ mem'[c] = m /\ UNCHANGED lease
      BY <1>3, Lands DEF ReadOwnLease, files
    <2>2. m.lease = lease
      BY Known DEF Memory
    <2>3. QED
      BY <2>1, <2>2 DEF FreshInv, Recovering, Disposing
  <1>4. CASE SaveCompleted(c)
    <2>1. /\ pc'[c] = "check lease" /\ mem'[c] = mem[c]
          /\ state' = [status |-> "completed", run |-> mem[c].run]
      BY <1>4, Lands DEF SaveCompleted
    <2>2. QED
      BY <2>1 DEF FreshInv, Recovering, Disposing
  <1>5. CASE CheckLease(c)
    <2>1. /\ pc'[c] = "remove lease" /\ mem'[c] = mem[c] /\ pc[c] = "check lease"
          /\ UNCHANGED <<lease, state>> /\ lease.run = mem[c].run
      BY <1>5, Lands DEF CheckLease, Pass, At, MayGoOn, Owns, files
    <2>2. QED
      BY <2>1 DEF FreshInv, Recovering, Disposing
  <1>6. CASE \/ CreateLease(c) \/ WriteLease(c) \/ RenewLease(c) \/ SaveOperation(c)
             \/ SaveRunning(c) \/ ClearOperation(c) \/ RemoveLease(c)
    <2>1. PICK l : Goto(c, l) /\ l \notin Watched
      <3>1. {"write lease", "save operation", "wait", "idle", "save running", "save completed"}
              \cap Watched = {}
        BY DEF Watched, Recovering, Disposing
      <3>2. QED
        BY <1>6, <3>1 DEF CreateLease, WriteLease, RenewLease, SaveOperation, SaveRunning,
                          ClearOperation, RemoveLease, End, Read
    <2>2. QED
      BY <2>1, Unwatched
  <1>7. QED
    BY <1>1, <1>2, <1>3, <1>4, <1>5, <1>6 DEF Coordinate

LEMMA PauseFresh ==
  ASSUME IInv, NEW c \in Cmd, FreshInv(pc[c], mem[c]), Pause(c)
  PROVE  FreshInv(pc[c], mem[c])'
  <1>1. CASE SetPause(c) \/ SetStop(c)
    <2>1. /\ pc'[c] \in {"set stop", "read state"} /\ mem'[c] = mem[c] /\ mem[c].kind = "pause"
      BY <1>1, Known, Lands DEF SetPause, SetStop, At, LocationInv, Kind, Steps, Disposing
    <2>2. QED
      BY <2>1 DEF FreshInv, Recovering, Disposing
  <1>2. CASE ReadState(c)
    <2> DEFINE m == [mem[c] EXCEPT !.state = state]
    <2>1. /\ pc[c] = "read state" /\ pc'[c] \in {"save pausing", "inspect"} /\ mem'[c] = m
          /\ UNCHANGED <<lease, state>>
      BY <1>2, Lands DEF ReadState, At, files
    <2>2. m.state = state /\ m.kind = mem[c].kind /\ m.lease = mem[c].lease
      BY Known DEF Memory
    <2> HIDE DEF m
    <2>3. QED
      BY <2>1, <2>2 DEF FreshInv, Recovering, Disposing
  <1>3. CASE ReadOperation(c)
    <2> DEFINE m == [mem[c] EXCEPT !.operation = operation]
    <2>1. /\ Read(c, "inspect", m) /\ mem[c].kind = "pause" /\ UNCHANGED <<lease, state, now>>
      BY <1>3, Known DEF ReadOperation, At, files, LocationInv, Kind, Steps, Disposing
    <2>2. m.kind = "pause"
      BY <2>1, Known DEF Memory
    <2> HIDE DEF m
    <2>3. QED
      BY <2>1, <2>2, CarriesOn DEF Disposing
  <1>4. CASE SavePausing(c) \/ KeepOperation(c) \/ SavePaused(c)
    <2>1. PICK l \in {"read operation", "save paused", "idle"} : Goto(c, l)
      BY <1>4 DEF SavePausing, KeepOperation, SavePaused, End, Read
    <2>2. QED
      BY <2>1, Unwatched DEF Watched, Recovering, Disposing
  <1>5. QED
    BY <1>1, <1>2, <1>3, <1>4 DEF Pause

LEMMA DisposalFresh ==
  ASSUME IInv, NEW c \in Cmd, FreshInv(pc[c], mem[c]), TerminateDisposable(c)
  PROVE  FreshInv(pc[c], mem[c])'
  <1>1. PICK l, m : /\ Read(c, l, m) /\ pc[c] \in Disposing
                    /\ l \in Disposing \cup {"decide"} \/ l \notin Watched
                    /\ m.kind = mem[c].kind /\ m.lease = mem[c].lease /\ m.state = mem[c].state
    <2>1. CASE InspectProcesses(c)
      <3> DEFINE v == {x \in Token \ Preserved : registry[x] = "running" /\ proc[x] \in Living}
      <3> DEFINE m == [mem[c] EXCEPT !.victims = v]
      <3>1. Read(c, "challenge", m) /\ pc[c] = "inspect"
        BY <2>1 DEF InspectProcesses, At
      <3> HIDE DEF v
      <3>2. m.kind = mem[c].kind /\ m.lease = mem[c].lease /\ m.state = mem[c].state
        BY Known DEF Memory
      <3> HIDE DEF m
      <3>3. QED
        BY <3>1, <3>2 DEF Disposing
    <2>2. ASSUME NEW x \in Token, Challenge(c, x)
          PROVE  \E l, m : /\ Read(c, l, m) /\ pc[c] \in Disposing
                           /\ l \in Disposing \cup {"decide"} \/ l \notin Watched
                           /\ m.kind = mem[c].kind /\ m.lease = mem[c].lease
                           /\ m.state = mem[c].state
      <3> DEFINE v == mem[c].victims \ {x}
                 m == [mem[c] EXCEPT !.victims = v]
                 n == [m EXCEPT !.target = x]
      <3>1. (Read(c, "terminate", n) \/ Read(c, "challenge", m)) /\ pc[c] = "challenge"
        BY <2>2 DEF Challenge, At
      <3>2. m.kind = mem[c].kind /\ m.lease = mem[c].lease /\ m.state = mem[c].state
        BY Known DEF Memory
      <3>3. n.kind = mem[c].kind /\ n.lease = mem[c].lease /\ n.state = mem[c].state
        BY Known DEF Memory
      <3> HIDE DEF m, n
      <3>4. QED
        BY <3>1, <3>2, <3>3 DEF Disposing
    <2>3. CASE Terminate(c)
      <3> DEFINE k == IF Supervising(c) THEN {} ELSE mem[c].killed \cup {mem[c].target}
                 m == [mem[c] EXCEPT !.target = "none"]
                 n == [mem[c] EXCEPT !.target = "none", !.killed = k]
      <3>1. (Read(c, "challenge", n) \/ Read(c, "challenge", m)) /\ pc[c] = "terminate"
        <4>1. n = [m EXCEPT !.killed = IF Supervising(c) THEN {} ELSE @ \cup {mem[c].target}]
          BY Known DEF Memory
        <4>2. QED
          BY <2>3, <4>1, Zenon DEF Terminate, At
      <3> HIDE DEF k
      <3>2. m.kind = mem[c].kind /\ m.lease = mem[c].lease /\ m.state = mem[c].state
        BY Known DEF Memory
      <3>3. n.kind = mem[c].kind /\ n.lease = mem[c].lease /\ n.state = mem[c].state
        BY Known DEF Memory
      <3> HIDE DEF m, n
      <3>4. QED
        BY <3>1, <3>2, <3>3 DEF Disposing
    <2>4. CASE AllChallenged(c)
      <3>1. /\ \E l \in {"wait", "read registry"} : Goto(c, l)
            /\ mem' = [mem EXCEPT ![c] = mem[c]] /\ pc[c] = "challenge"
        BY <2>4, Known DEF AllChallenged, At
      <3>2. QED
        BY <3>1 DEF Read, Watched, Recovering, Disposing
    <2>5. CASE ReadRegistry(c)
      <3> DEFINE m == [mem[c] EXCEPT !.registry = registry]
      <3>1. Read(c, AfterRegistry(c), m) /\ pc[c] = "read registry"
        BY <2>5 DEF ReadRegistry, At
      <3>2. m.kind = mem[c].kind /\ m.lease = mem[c].lease /\ m.state = mem[c].state
        BY Known DEF Memory
      <3>3. AfterRegistry(c) \in {"prune", "register", "record end", "record terminated"}
        BY DEF AfterRegistry
      <3> HIDE DEF m
      <3>4. QED
        BY <3>1, <3>2, <3>3 DEF Watched, Recovering, Disposing
    <2>6. CASE RecordTerminated(c)
      <3> DEFINE m == [mem[c] EXCEPT !.registry = NoRegistry, !.killed = {}]
      <3>1. /\ \E l \in {"keep operation", "decide"} : Read(c, l, m)
            /\ pc[c] = "record terminated"
        BY <2>6 DEF RecordTerminated, At
      <3>2. m.kind = mem[c].kind /\ m.lease = mem[c].lease /\ m.state = mem[c].state
        BY Known DEF Memory
      <3> HIDE DEF m
      <3>3. QED
        BY <3>1, <3>2 DEF Watched, Recovering, Disposing
    <2>7. QED
      BY <2>1, <2>2, <2>3, <2>4, <2>5, <2>6 DEF TerminateDisposable
  <1>2. UNCHANGED <<lease, state, now>>
    BY DEF TerminateDisposable, InspectProcesses, Challenge, Terminate, AllChallenged, ReadRegistry,
           RecordTerminated, files
  <1>3. CASE l \notin Watched
    BY <1>1, <1>3, Unwatched DEF Read
  <1>4. CASE l \in Disposing \cup {"decide"}
    BY <1>1, <1>2, <1>4, CarriesOn DEF Recovering, Disposing
  <1>5. QED
    BY <1>1, <1>3, <1>4

LEMMA ResumeFresh ==
  ASSUME IInv, NEW c \in Cmd, FreshInv(pc[c], mem[c]), Resume(c)
  PROVE  FreshInv(pc[c], mem[c])'
  <1>1. CASE RereadLease(c)
    <2> DEFINE x == IF lease.torn THEN NoLease ELSE lease
               m == [mem[c] EXCEPT !.lease = x]
    <2>1. pc'[c] = "read state" /\ mem'[c] = m /\ UNCHANGED lease
      BY <1>1, Lands DEF RereadLease, files
    <2>2. m.lease = x
      BY Known DEF Memory
    <2> HIDE DEF m
    <2>3. QED
      BY <2>1, <2>2 DEF FreshInv, Recovering, Disposing
  <1>2. CASE Decide(c)
    <2>1. /\ pc[c] = "decide" /\ mem'[c] = mem[c] /\ UNCHANGED <<lease, state, now>>
          /\ pc'[c] = IF mem[c].lease = NoLease THEN "clear pause" ELSE "drop lease"
          /\ mem[c].lease = NoLease \/ Removable(mem[c].lease, mem[c].state)
      BY <1>2, Lands DEF Decide, Pass, At, MayGoOn, files
    <2>2. CASE mem[c].lease = NoLease
      BY <2>1, <2>2 DEF FreshInv, Recovering, Disposing
    <2>3. CASE mem[c].lease # NoLease
      BY <2>1, <2>3 DEF FreshInv, Recovering, Disposing, Removable, leaseIsStale
    <2>4. QED
      BY <2>2, <2>3
  <1>3. CASE \/ DiagnoseStop(c) \/ DiagnoseLease(c) \/ DiagnoseProcesses(c) \/ DropLease(c)
             \/ ClearPause(c) \/ ClearStop(c) \/ SaveReady(c)
    <2>1. PICK l \in {"diagnose lease", "diagnose processes", "reread lease", "clear pause",
                      "clear stop", "save ready", "idle"} : Goto(c, l)
      BY <1>3 DEF DiagnoseStop, DiagnoseLease, DiagnoseProcesses, DropLease, ClearPause, ClearStop,
                  SaveReady, Pass, End, Read
    <2>2. QED
      BY <2>1, Unwatched DEF Watched, Recovering, Disposing
  <1>4. QED
    BY <1>1, <1>2, <1>3 DEF Resume

\* A command that gets to a step it shares with a resume, without being one.
LEMMA NoResume ==
  ASSUME IInv, NEW c \in Cmd, NEW l, Goto(c, l), mem'[c].kind # "resume",
         l \notin Watched \ Disposing
  PROVE  FreshInv(pc[c], mem[c])'
  <1>1. pc'[c] = l
    BY Lands
  <1>2. QED
    BY <1>1 DEF FreshInv, Watched, Recovering, Disposing

LEMMA SuperviseFresh ==
  ASSUME IInv, NEW c \in Cmd, FreshInv(pc[c], mem[c]), Cleanup(c) \/ Supervise(c)
  PROVE  FreshInv(pc[c], mem[c])'
  <1>1. CASE CheckAllEnded(c) \/ Exited(c)
    <2>1. Goto(c, "read registry") /\ mem'[c] = mem[c] /\ mem[c].kind \in {"cleanup", "supervise"}
      BY <1>1, Known, Lands DEF CheckAllEnded, Exited, Pass, At, LocationInv, Kind, Steps, Disposing
    <2>2. QED
      BY <2>1, NoResume DEF Disposing
  <1>2. ASSUME NEW x \in Token, Spawn(c, x) PROVE FreshInv(pc[c], mem[c])'
    <2> DEFINE m == [mem[c] EXCEPT !.token = x]
    <2>1. Read(c, "read registry", m) /\ mem[c].kind = "supervise"
      BY <1>2, Known DEF Spawn, At, LocationInv, Kind, Steps, Disposing
    <2>2. m.kind = "supervise"
      BY <2>1, Known DEF Memory
    <2>3. mem'[c] = m /\ Goto(c, "read registry")
      BY <2>1, Lands DEF Read
    <2> HIDE DEF m
    <2>4. QED
      BY <2>2, <2>3, NoResume DEF Disposing
  <1>3. CASE TimeOut(c)
    <2> DEFINE v == {mem[c].token}
               m == [mem[c] EXCEPT !.timedOut = TRUE, !.victims = v]
    <2>1. Read(c, "challenge", m) /\ mem[c].kind = "supervise"
      BY <1>3, Known DEF TimeOut, At, LocationInv, Kind, Steps, Disposing
    <2> HIDE DEF v
    <2>2. m.kind = "supervise"
      BY <2>1, Known DEF Memory
    <2>3. mem'[c] = m /\ Goto(c, "challenge")
      BY <2>1, Lands DEF Read
    <2> HIDE DEF m
    <2>4. QED
      BY <2>2, <2>3, NoResume DEF Disposing
  <1>4. CASE \/ CheckIdleLease(c) \/ Prune(c) \/ CheckSupervisorLease(c) \/ Register(c) \/ Beat(c)
             \/ RecordEnd(c)
    <2>1. PICK l \in {"all ended", "idle", "spawn", "wait", "own lease"} : Goto(c, l)
      BY <1>4 DEF CheckIdleLease, Prune, CheckSupervisorLease, Register, Beat, RecordEnd, Pass, End,
                  Read
    <2>2. QED
      BY <2>1, Unwatched DEF Watched, Recovering, Disposing
  <1>5. QED
    BY <1>1, <1>2, <1>3, <1>4 DEF Cleanup, Supervise

LEMMA OtherFresh ==
  ASSUME IInv, NEW c \in Cmd, FreshInv(pc[c], mem[c]),
         \/ \E k \in Kind, r \in Run \cup {"none"}, flag \in BOOLEAN : Issue(c, k, r, flag)
         \/ Refuse(c) \/ Crash(c) \/ Environment
  PROVE  FreshInv(pc[c], mem[c])'
  <1>1. ASSUME NEW k \in Kind, NEW r \in Run \cup {"none"}, NEW flag \in BOOLEAN, Issue(c, k, r, flag)
        PROVE  FreshInv(pc[c], mem[c])'
    <2> DEFINE t == IF k \in {"start", "heartbeat"} THEN now ELSE 0
               m == [NoMem EXCEPT !.kind = k, !.run = r, !.flag = flag, !.at = t]
    <2>1. pc'[c] = FirstStep(k) /\ mem'[c] = m
      BY <1>1, Lands DEF Issue
    <2> HIDE DEF t
    <2>2. m.kind = k /\ m.token = "none"
      BY DEF NoMem
    <2> HIDE DEF m
    <2>3. FirstStep(k) \notin Watched \ {"stop?"} /\ (FirstStep(k) = "stop?" => k # "heartbeat")
      BY DEF FirstStep, Kind, Watched, Recovering, Disposing
    <2>4. QED
      BY <2>1, <2>2, <2>3 DEF FreshInv, Watched, Recovering, Disposing
  <1>2. CASE Refuse(c)
    <2>1. CASE mem[c].token # "none"
      <3> DEFINE v == {mem[c].token}
                 n == Waiting(mem[c])
                 m == [n EXCEPT !.victims = v]
      <3>1. Read(c, "challenge", m) /\ mem[c].kind = "supervise"
        BY <1>2, <2>1, Known DEF Refuse, AfterRefusal, Supervising, LocationInv
      <3>2. n \in Memory /\ n.kind = mem[c].kind
        BY Known, WaitingUpdates DEF Updates
      <3> HIDE DEF n, v
      <3>3. m.kind = "supervise"
        BY <3>1, <3>2 DEF Memory
      <3>4. mem'[c] = m /\ Goto(c, "challenge")
        BY <3>1, Lands DEF Read
      <3> HIDE DEF m
      <3>5. QED
        BY <3>3, <3>4, NoResume DEF Disposing
    <2>2. CASE mem[c].token = "none"
      <3>1. Goto(c, "idle")
        BY <1>2, <2>2 DEF Refuse, AfterRefusal, Supervising, End, Read
      <3>2. QED
        BY <3>1, Unwatched DEF Watched, Recovering, Disposing
    <2>3. QED
      BY <2>1, <2>2
  <1>3. CASE Crash(c)
    <2>1. Goto(c, "idle")
      BY <1>3 DEF Crash, End, Read
    <2>2. QED
      BY <2>1, Unwatched DEF Watched, Recovering, Disposing
  <1>4. CASE Environment
    <2>1. UNCHANGED <<lease, state, pc, mem>> /\ now' \in {now, now + 1} /\ now \in Nat
      BY <1>4, Known DEF Environment, Tick, ProcessEnds, files, FilesOK
    <2>2. Removable(mem[c].lease, mem[c].state) => Removable(mem[c].lease, mem[c].state)'
      <3>1. mem[c].lease.until \in Nat
        BY Known DEF Memory, Leases
      <3>2. QED
        BY <2>1, <3>1 DEF Removable, leaseIsStale
    <2>3. QED
      BY <2>1, <2>2 DEF FreshInv
  <1>5. QED
    BY <1>1, <1>2, <1>3, <1>4

-----------------------------------------------------------------------------
(* Commands that take turns at the lease.                                  *)

Fresh == \A c \in Cmd : FreshInv(pc[c], mem[c])

CmdStep(c) ==
  \/ \E k \in Kind, r \in Run \cup {"none"}, flag \in BOOLEAN : Issue(c, k, r, flag)
  \/ Step(c)
  \/ Crash(c)

(* A command writes its own location and memory, and the files of the lease *)
(* and the run state only where it is at the lease.                        *)
Apart(c) ==
  /\ \A d \in Cmd \ {c} : pc'[d] = pc[d] /\ mem'[d] = mem[d]
  /\ UNCHANGED <<lease, state>> \/ AtTheLease(c)
  /\ UNCHANGED now

LEMMA KeepsApart ==
  ASSUME IInv, NEW c \in Cmd, CmdStep(c)
  PROVE  Apart(c)
  <1>1. DOMAIN pc = Cmd /\ DOMAIN mem = Cmd
    BY Known
  <1>2. CASE Coordinate(c)
    BY <1>1, <1>2 DEF Apart, AtTheLease, Coordinate, CheckStop, CheckPause, CreateLease, WriteLease,
         ReadOwnLease, RenewLease, SaveOperation, SaveRunning, ClearOperation, SaveCompleted,
         CheckLease, RemoveLease, Pass, At, Goto, Read, End, files
  <1>3. CASE Pause(c)
    BY <1>1, <1>3 DEF Apart, AtTheLease, Pause, SetPause, SetStop, ReadState, SavePausing,
         ReadOperation, KeepOperation, SavePaused, At, Goto, Read, End, files
  <1>4. CASE TerminateDisposable(c)
    BY <1>1, <1>4 DEF Apart, TerminateDisposable, InspectProcesses, Challenge, Terminate,
         AllChallenged, ReadRegistry, RecordTerminated, At, Goto, Read, files
  <1>5. CASE Resume(c)
    BY <1>1, <1>5 DEF Apart, AtTheLease, Resume, DiagnoseStop, DiagnoseLease, DiagnoseProcesses,
         RereadLease, Decide, DropLease, ClearPause, ClearStop, SaveReady, Pass, At, Goto, Read, End,
         files
  <1>6. CASE Cleanup(c) \/ Supervise(c)
    BY <1>1, <1>6 DEF Apart, Cleanup, CheckIdleLease, CheckAllEnded, Prune, Supervise,
         CheckSupervisorLease, Spawn, Register, Beat, TimeOut, Exited, RecordEnd, Pass, At, Goto,
         Read, End, files
  <1>7. CASE Refuse(c) \/ Crash(c)
    BY <1>1, <1>7 DEF Apart, Refuse, AfterRefusal, Crash, Goto, Read, End, files
  <1>8. ASSUME NEW k \in Kind, NEW r \in Run \cup {"none"}, NEW flag \in BOOLEAN, Issue(c, k, r, flag)
        PROVE  Apart(c)
    BY <1>1, <1>8 DEF Apart, Issue, Goto, Read, files
  <1>9. QED
    BY <1>2, <1>3, <1>4, <1>5, <1>6, <1>7, <1>8 DEF CmdStep, Step

(* Where a command is not at the lease it has nothing to rely on.          *)
LEMMA OthersFresh ==
  ASSUME IInv, OneAtTheLease, NEW c \in Cmd, CmdStep(c), NEW d \in Cmd, c # d,
         FreshInv(pc[d], mem[d])
  PROVE  FreshInv(pc[d], mem[d])'
  <1>1. Apart(c)
    BY KeepsApart
  <1>2. pc'[d] = pc[d] /\ mem'[d] = mem[d] /\ now' = now
    BY <1>1 DEF Apart
  <1>3. CASE AtTheLease(d)
    <2>1. lease' = lease /\ state' = state
      BY <1>1, <1>3 DEF OneAtTheLease, Apart
    <2>2. QED
      BY <1>2, <2>1 DEF FreshInv, Removable, leaseIsStale
  <1>4. CASE ~ AtTheLease(d)
    <2>1. ~ AtTheLease(d)'
      BY <1>2, <1>4 DEF AtTheLease, Supervising
    <2>2. QED
      BY <2>1 DEF AtTheLease, FreshInv, Recovering, Disposing, Supervising
  <1>5. QED
    BY <1>3, <1>4

LEMMA OwnFresh ==
  ASSUME IInv, Fresh, NEW c \in Cmd, CmdStep(c)
  PROVE  FreshInv(pc[c], mem[c])'
  <1>1. FreshInv(pc[c], mem[c])
    BY DEF Fresh
  <1>2. QED
    BY <1>1, CoordinateFresh, PauseFresh, DisposalFresh, ResumeFresh, SuperviseFresh, OtherFresh
       DEF CmdStep, Step

LEMMA FreshStep ==
  ASSUME IInv, OneAtTheLease, Fresh, [Next]_vars
  PROVE  Fresh'
  <1>1. CASE \E c \in Cmd : CmdStep(c)
    <2>1. PICK c \in Cmd : CmdStep(c)
      BY <1>1
    <2>2. ASSUME NEW d \in Cmd PROVE FreshInv(pc[d], mem[d])'
      <3>1. CASE d = c
        BY <2>1, <3>1, OwnFresh
      <3>2. CASE d # c
        BY <2>1, <3>2, OthersFresh DEF Fresh
      <3>3. QED
        BY <3>1, <3>2
    <2>3. QED
      BY <2>2 DEF Fresh
  <1>2. CASE Environment
    BY <1>2, OtherFresh DEF Fresh
  <1>3. CASE UNCHANGED vars
    BY <1>3 DEF vars, files, Fresh, FreshInv, Removable, leaseIsStale
  <1>4. QED
    BY <1>1, <1>2, <1>3 DEF Next, CmdStep

\* A step that changes whose lease it is.
LEMMA LeaseStep ==
  ASSUME IInv, Fresh, [Next]_vars, Live(lease), lease'.run # lease.run
  PROVE  /\ lease' = NoLease
         /\ state.status = "paused" \/ state = [status |-> "completed", run |-> lease.run]
  <1>1. PICK c \in Cmd : CreateLease(c) \/ WriteLease(c) \/ RenewLease(c) \/ RemoveLease(c) \/ DropLease(c)
    <2>1. lease' # lease
      OBVIOUS
    <2> USE DEF files
    <2>2. ASSUME NEW c \in Cmd, Coordinate(c)
          PROVE  CreateLease(c) \/ WriteLease(c) \/ RenewLease(c) \/ RemoveLease(c)
      BY <2>1, <2>2 DEF Coordinate, CheckStop, CheckPause, ReadOwnLease, SaveOperation, SaveRunning,
                        ClearOperation, SaveCompleted, CheckLease, Pass
    <2>3. ASSUME NEW c \in Cmd, Pause(c) PROVE FALSE
      BY <2>1, <2>3 DEF Pause, SetPause, SetStop, ReadState, SavePausing, ReadOperation,
                        KeepOperation, SavePaused
    <2>4. ASSUME NEW c \in Cmd, TerminateDisposable(c) PROVE FALSE
      BY <2>1, <2>4 DEF TerminateDisposable, InspectProcesses, Challenge, Terminate, AllChallenged,
                        ReadRegistry, RecordTerminated
    <2>5. ASSUME NEW c \in Cmd, Resume(c) PROVE DropLease(c)
      BY <2>1, <2>5 DEF Resume, DiagnoseStop, DiagnoseLease, DiagnoseProcesses, RereadLease, Decide,
                        ClearPause, ClearStop, SaveReady, Pass
    <2>6. ASSUME NEW c \in Cmd, Cleanup(c) \/ Supervise(c) PROVE FALSE
      BY <2>1, <2>6 DEF Cleanup, Supervise, CheckIdleLease, CheckAllEnded, Prune,
                        CheckSupervisorLease, Spawn, Register, Beat, TimeOut, Exited, RecordEnd, Pass
    <2>7. ASSUME NEW c \in Cmd, Refuse(c) \/ Crash(c) PROVE FALSE
      BY <2>1, <2>7 DEF Refuse, Crash
    <2>8. ASSUME NEW c \in Cmd, NEW k \in Kind, NEW r \in Run \cup {"none"}, NEW flag \in BOOLEAN,
                 Issue(c, k, r, flag)
          PROVE  FALSE
      BY <2>1, <2>8 DEF Issue
    <2>9. ~ Environment /\ ~ UNCHANGED vars
      BY <2>1 DEF Environment, ProcessEnds, Tick, vars
    <2>10. QED
      BY <2>2, <2>3, <2>4, <2>5, <2>6, <2>7, <2>8, <2>9 DEF Next, Step
  <1>2. FreshInv(pc[c], mem[c]) /\ lease \in Leases
    BY Known DEF Fresh, FilesOK
  <1>3. ~ CreateLease(c)
    BY DEF CreateLease, At, MayGoOn, Live
  <1>4. ~ WriteLease(c)
    <2> DEFINE created == [run |-> mem[c].run, until |-> 0, torn |-> TRUE]
    <2>1. ASSUME WriteLease(c), lease # created PROVE FALSE
      BY <2>1 DEF WriteLease
    <2>2. lease # created
      <3>1. created.torn /\ ~ lease.torn
        BY DEF Live
      <3> HIDE DEF created
      <3>2. QED
        BY <3>1
    <2>3. QED
      BY <2>1, <2>2
  <1>5. ~ RenewLease(c)
    <2>1. ASSUME RenewLease(c) PROVE FALSE
      <3>1. /\ pc[c] = "renew lease" /\ mem[c].lease \in Leases
            /\ lease' = [mem[c].lease EXCEPT !.until = mem[c].at + LeaseDuration]
        BY <2>1, Known DEF RenewLease, At, Memory
      <3>2. mem[c].kind = "heartbeat" \/ mem[c].token # "none"
        BY <3>1, Known DEF LocationInv, Kind, Steps, Disposing
      <3>3. mem[c].lease = lease
        BY <1>2, <3>1, <3>2 DEF FreshInv
      <3>4. QED
        BY <3>1, <3>3 DEF Leases
    <2>2. QED
      BY <2>1
  <1>6. CASE RemoveLease(c)
    BY <1>2, <1>6 DEF RemoveLease, At, FreshInv
  <1>7. CASE DropLease(c)
    <2>1. pc[c] = "drop lease" /\ lease' = NoLease /\ mem[c].kind = "resume"
      BY <1>7, Known DEF DropLease, At, LocationInv, Kind, Steps, Disposing
    <2>2. mem[c].lease = lease /\ mem[c].state = state /\ Removable(lease, state)
      BY <1>2, <2>1 DEF FreshInv, Recovering
    <2>3. QED
      BY <2>1, <2>2 DEF Removable, Live
  <1>8. QED
    BY <1>1, <1>3, <1>4, <1>5, <1>6, <1>7

LEMMA TurnsInvariance == TurnsSpec => Spec /\ [](IInv /\ OneAtTheLease /\ Fresh)
  <1>1. Init => Fresh
    BY DEF Init, Fresh, FreshInv, NoMem, Recovering, Disposing
  <1>2. Init => OneAtTheLease
    BY DEF Init, OneAtTheLease, AtTheLease, Recovering, Disposing
  <1>3. OneAtTheLease /\ [Next /\ OneAtTheLease']_vars => OneAtTheLease'
    <2>1. ASSUME UNCHANGED vars PROVE \A c \in Cmd : AtTheLease(c)' <=> AtTheLease(c)
      <3>1. pc' = pc /\ mem' = mem
        BY <2>1 DEF vars
      <3>2. QED
        BY <3>1 DEF AtTheLease, Supervising
    <2>2. QED
      BY <2>1 DEF OneAtTheLease
  <1>4. IInv /\ OneAtTheLease /\ Fresh /\ [Next]_vars => Fresh'
    BY FreshStep
  <1>5. [Next /\ OneAtTheLease']_vars => [Next]_vars
    OBVIOUS
  <1>6. QED
    BY <1>1, <1>2, <1>3, <1>4, <1>5, RuntimeInv, PTL DEF Spec, TurnsSpec

(* One command after the other takes turns without further care.           *)
LEMMA LoneTakesTurns ==
  ASSUME NEW d, Cmd = {d}
  PROVE  Spec => TurnsSpec
  <1>1. [Next]_vars => [Next /\ OneAtTheLease']_vars
    BY DEF OneAtTheLease
  <1>2. QED
    BY <1>1, PTL DEF Spec, TurnsSpec

\* While commands take turns at the lease and the run state, whatever becomes of
\* each of them, a live lease is only taken from a run that has completed or is
\* paused.
THEOREM LeaseInTurns == TurnsSpec => LeaseNotStolen
  <1>1. IInv /\ Fresh /\ [Next]_vars =>
          [Live(lease) /\ lease'.run # lease.run =>
             /\ lease' = NoLease
             /\ state.status = "paused" \/ state = [status |-> "completed", run |-> lease.run]]_vars
    BY LeaseStep
  <1>2. QED
    BY <1>1, TurnsInvariance, PTL DEF Spec, LeaseNotStolen

\* Nor does a second coordinator then take the place of one whose lease is live.
THEOREM LeaseStaysExclusive == TurnsSpec => ExclusiveLease
  <1>1. NoLease.run = "none"
    BY DEF NoLease
  <1>2. [Live(lease) /\ lease'.run # lease.run =>
           /\ lease' = NoLease
           /\ state.status = "paused" \/ state = [status |-> "completed", run |-> lease.run]]_vars
        => [Live(lease) => lease'.run \in {lease.run, "none"}]_vars
    BY <1>1
  <1>3. QED
    BY <1>2, LeaseInTurns, PTL DEF LeaseNotStolen, ExclusiveLease

\* Commands that run one after the other take turns.
THEOREM LeaseOfOneCommand ==
  ASSUME NEW d, Cmd = {d}
  PROVE  Spec => LeaseNotStolen /\ ExclusiveLease
  BY LoneTakesTurns, LeaseInTurns, LeaseStaysExclusive, PTL
=============================================================================
