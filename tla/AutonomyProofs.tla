---------------------------- MODULE AutonomyProofs ----------------------------
(***************************************************************************)
(* Proofs about the autonomy runtime, for any number of commands at the    *)
(* same time, of runs and of supervised processes, and any bounds.         *)
(***************************************************************************)
EXTENDS AutonomyProperties, TLAPS

-----------------------------------------------------------------------------
(* The inductive invariant.  A command keeps copies of files in its memory *)
(* and writes them back whenever it gets to; what warrants the registry is *)
(* that nothing a command remembers of an end, or of having sent a         *)
(* termination, is ever undone.                                            *)

(* The file operations of a command, by kind and whether it has spawned.   *)
Steps(k, spawned) ==
  CASE k = "none"       -> {"idle"}
    [] k = "start"      -> {"stop?", "pause?", "create lease", "write lease",
                            "save operation", "save running"}
    [] k = "heartbeat"  -> {"own lease", "stop?", "pause?", "renew lease"}
    [] k = "checkpoint" -> {"stop?", "pause?", "save operation", "save running"}
    [] k = "complete"   -> {"clear operation", "save completed", "check lease", "remove lease"}
    [] k = "pause"      -> {"set pause", "set stop", "read state", "save pausing",
                            "read operation", "keep operation", "save paused"} \cup Disposing
    [] k = "resume"     -> {"diagnose stop", "diagnose lease", "diagnose processes",
                            "reread lease", "read state", "decide", "drop lease",
                            "clear pause", "clear stop", "save ready"} \cup Disposing
    [] k = "cleanup"    -> {"idle lease", "all ended", "read registry", "prune"}
    [] k = "supervise"  -> IF spawned
                           THEN {"read registry", "register", "wait", "own lease", "stop?",
                                 "pause?", "renew lease", "challenge", "terminate", "record end"}
                           ELSE {"stop?", "pause?", "supervisor lease", "spawn"}

(* A command of its own run is where its kind gets to.                     *)
LocationInv(l, m) ==
  /\ l \in Steps(m.kind, m.token # "none")
  /\ m.kind \in {"start", "heartbeat", "checkpoint", "complete", "supervise"} => m.run \in Run
  /\ m.token # "none" => m.kind = "supervise"
  /\ m.token = "none" => m.exit = "unheard"

(* A process that has ended, or has been asked to.                         *)
Asked(p) == p \in Ended \cup {"asked"}

(* What a command with memory m remembers of the processes ps has happened. *)
KnowledgeInv(l, m, ps) ==
  /\ l = "terminate" => m.target \in Token /\ ps[m.target] # "unused"
  /\ m.token # "none" => ps[m.token] # "unused"
  /\ l = "record end" => m.token \in Token /\ ps[m.token] \in Ended
  /\ l = "read registry" /\ m.token # "none" /\ m.exit # "unheard" => ps[m.token] \in Ended
  /\ \A x \in m.killed : Asked(ps[x])
  /\ \A x \in Token : Warranted(m.registry[x], ps[x])

IInv ==
  /\ TypeOK
  /\ \A c \in Cmd : LocationInv(pc[c], mem[c]) /\ KnowledgeInv(pc[c], mem[c], proc)
  /\ RegistryWarranted

-----------------------------------------------------------------------------
(* What a step has to establish.                                           *)

FilesOK ==
  /\ lease \in Leases
  /\ pause \in BOOLEAN
  /\ stop \in BOOLEAN
  /\ state \in States
  /\ operation \in Run \cup {"unowned", "absent"}
  /\ registry \in [Token -> ProcessStatus]
  /\ proc \in [Token -> {"unused"} \cup Living \cup Ended]
  /\ now \in 0 .. MaxTime
  /\ issued \subseteq Run
  /\ crashes \in 0 .. MaxCrashes
  /\ lapses \in 0 .. MaxLapses

(* No end of a process, no start of one and no request to end is undone.   *)
Keeps(ps, qs) ==
  \A x \in Token : /\ ps[x] \in Ended => qs[x] = ps[x]
                   /\ Asked(ps[x]) => Asked(qs[x])
                   /\ ps[x] # "unused" => qs[x] # "unused"

(* The part of a step that is about its command, which ends up at l with m. *)
Moves(c, l, m) ==
  /\ Read(c, l, m)
  /\ m \in Memory
  /\ LocationInv(l, m)

LEMMA KnowledgeKept ==
  ASSUME NEW l, NEW m \in Memory, NEW ps, NEW qs, KnowledgeInv(l, m, ps), Keeps(ps, qs)
  PROVE  KnowledgeInv(l, m, qs)
  <1>1. /\ m.token \in Token \cup {"none"} /\ m.killed \subseteq Token
        /\ m.target \in Token \cup {"none"}
    BY DEF Memory
  <1>2. \A s : \A x \in Token : Warranted(s, ps[x]) => Warranted(s, qs[x])
    BY DEF Warranted, Keeps, Asked, Ended
  <1>3. (l = "terminate" => m.target \in Token /\ qs[m.target] # "unused")
    BY DEF KnowledgeInv, Keeps
  <1>4. /\ m.token # "none" => qs[m.token] # "unused"
        /\ l = "record end" => m.token \in Token /\ qs[m.token] \in Ended
    BY <1>1 DEF KnowledgeInv, Keeps, Ended
  <1>5. QED
    BY <1>1, <1>2, <1>3, <1>4 DEF KnowledgeInv, Keeps

(* A step of one command disturbs the others through the processes alone.  *)
LEMMA CommandStep ==
  ASSUME IInv, NEW c \in Cmd, NEW l, NEW m, Moves(c, l, m), KnowledgeInv(l, m, proc'),
         Keeps(proc, proc'), FilesOK', RegistryWarranted'
  PROVE  IInv'
  <1>1. /\ pc' = [pc EXCEPT ![c] = l] /\ mem' = [mem EXCEPT ![c] = m]
        /\ DOMAIN pc = Cmd /\ mem \in [Cmd -> Memory]
        /\ m \in Memory /\ LocationInv(l, m)
    BY DEF Moves, Read, Goto, IInv, TypeOK
  <1>2. /\ mem' \in [Cmd -> Memory] /\ DOMAIN pc' = Cmd
        /\ pc'[c] = l /\ mem'[c] = m
        /\ \A d \in Cmd \ {c} : pc'[d] = pc[d] /\ mem'[d] = mem[d]
    BY <1>1
  <1>3. TypeOK'
    BY <1>2 DEF TypeOK, FilesOK
  <1>4. ASSUME NEW d \in Cmd
        PROVE  LocationInv(pc'[d], mem'[d]) /\ KnowledgeInv(pc'[d], mem'[d], proc')
    <2>1. CASE d = c
      BY <2>1, <1>1, <1>2
    <2>2. CASE d # c
      <3>1. /\ LocationInv(pc[d], mem[d]) /\ KnowledgeInv(pc[d], mem[d], proc)
            /\ mem[d] \in Memory
        BY <1>1 DEF IInv
      <3>2. KnowledgeInv(pc[d], mem[d], proc')
        BY <3>1, KnowledgeKept
      <3>3. QED
        BY <2>2, <1>2, <3>1, <3>2
    <2>3. QED
      BY <2>1, <2>2
  <1>5. QED
    BY <1>3, <1>4 DEF IInv

(* Steps that leave the processes and their registry alone.                *)
Quiet == UNCHANGED <<registry, proc>>

LEMMA QuietStep ==
  ASSUME IInv, NEW c \in Cmd, NEW l, NEW m, Moves(c, l, m), KnowledgeInv(l, m, proc),
         Quiet, FilesOK'
  PROVE  IInv'
  <1>1. Keeps(proc, proc') /\ KnowledgeInv(l, m, proc') /\ RegistryWarranted'
    BY DEF Quiet, Keeps, IInv, RegistryWarranted
  <1>2. QED
    BY <1>1, CommandStep

(* What a command remembers of processes does not depend on where it is,   *)
(* but for three of the places.                                            *)
Careful == {"terminate", "record end", "read registry"}

SameProcesses(m, n) ==
  /\ m.token = n.token /\ m.exit = n.exit /\ m.killed = n.killed /\ m.registry = n.registry

LEMMA QuietKnowledge ==
  ASSUME NEW l, NEW k, NEW m, NEW n, NEW ps, SameProcesses(m, n), KnowledgeInv(k, n, ps),
         l \notin Careful
  PROVE  KnowledgeInv(l, m, ps)
  BY DEF SameProcesses, KnowledgeInv, Careful

(* A command that only moves on.                                           *)
LEMMA MoveOn ==
  ASSUME IInv, NEW c \in Cmd, NEW l, Goto(c, l), UNCHANGED mem, Quiet, FilesOK',
         l \in Steps(mem[c].kind, mem[c].token # "none"),
         l \notin Careful \/ KnowledgeInv(l, mem[c], proc)
  PROVE  IInv'
  <1>1. mem[c] \in Memory /\ mem = [mem EXCEPT ![c] = mem[c]]
    BY DEF IInv, TypeOK
  <1>2. LocationInv(pc[c], mem[c]) /\ KnowledgeInv(pc[c], mem[c], proc)
    BY DEF IInv
  <1>3. Moves(c, l, mem[c])
    BY <1>1, <1>2 DEF Moves, Read, LocationInv
  <1>4. KnowledgeInv(l, mem[c], proc)
    BY <1>2, QuietKnowledge DEF SameProcesses
  <1>5. QED
    BY <1>3, <1>4, QuietStep

(* A command that ends, by itself or not.                                  *)
LEMMA EndingFits ==
  ASSUME NEW c, End(c)
  PROVE  Moves(c, "idle", NoMem) /\ \A ps : KnowledgeInv("idle", NoMem, ps)
  <1>1. NoMem \in Memory
    BY RuntimeAssumption DEF NoMem, Memory, NoLease, NoState, NoRegistry, Leases, States, Status,
                             ProcessStatus
  <1>2. LocationInv("idle", NoMem)
    BY DEF LocationInv, NoMem, Steps
  <1>3. \A ps : KnowledgeInv("idle", NoMem, ps)
    BY DEF KnowledgeInv, NoMem, NoRegistry, Warranted
  <1>4. QED
    BY <1>1, <1>2, <1>3 DEF Moves, End

(* What is known of a command before its step.                             *)
LEMMA Known ==
  ASSUME IInv, NEW c \in Cmd
  PROVE  /\ FilesOK /\ mem \in [Cmd -> Memory] /\ DOMAIN pc = Cmd
         /\ mem[c] \in Memory /\ mem[c].kind \in Kind \cup {"none"}
         /\ LocationInv(pc[c], mem[c]) /\ KnowledgeInv(pc[c], mem[c], proc)
  <1>1. /\ FilesOK /\ mem \in [Cmd -> Memory] /\ DOMAIN pc = Cmd
        /\ LocationInv(pc[c], mem[c]) /\ KnowledgeInv(pc[c], mem[c], proc)
    BY DEF IInv, TypeOK, FilesOK
  <1>2. QED
    BY <1>1 DEF Memory

-----------------------------------------------------------------------------
(* The lease and the progress of a run.                                    *)

LEMMA PreflightStep ==
  ASSUME IInv, NEW c \in Cmd, CheckStop(c) \/ CheckPause(c)
  PROVE  IInv'
  <1>1. CASE CheckStop(c)
    <2>1. Goto(c, "pause?") /\ At(c, "stop?") /\ UNCHANGED <<files, proc, now, issued, mem, faults>>
      BY <1>1 DEF CheckStop, Pass
    <2>2. "pause?" \in Steps(mem[c].kind, mem[c].token # "none")
      BY <2>1, Known DEF At, LocationInv, Kind, Steps, Disposing
    <2>3. FilesOK'
      BY <2>1, Known DEF files, faults, FilesOK
    <2>4. QED
      BY <2>1, <2>2, <2>3, MoveOn DEF files, Quiet, Careful
  <1>2. CASE CheckPause(c)
    <2>1. /\ Goto(c, AfterPreflight(c)) /\ At(c, "pause?")
          /\ UNCHANGED <<files, proc, now, issued, mem, faults>>
      BY <1>2 DEF CheckPause, Pass
    <2>2. /\ AfterPreflight(c) \in Steps(mem[c].kind, mem[c].token # "none")
          /\ AfterPreflight(c) \notin Careful
      BY <2>1, Known DEF At, LocationInv, Kind, Steps, Disposing, AfterPreflight, Supervising, Careful
    <2>3. FilesOK'
      BY <2>1, Known DEF files, faults, FilesOK
    <2>4. QED
      BY <2>1, <2>2, <2>3, MoveOn DEF files, Quiet
  <1>3. QED
    BY <1>1, <1>2

LEMMA AcquireStep ==
  ASSUME IInv, NEW c \in Cmd, CreateLease(c) \/ WriteLease(c)
  PROVE  IInv'
  <1>1. CASE CreateLease(c)
    <2>1. mem[c].run \in Run \cup {"none"}
      BY Known DEF Memory
    <2>2. FilesOK'
      BY <1>1, <2>1, Known DEF CreateLease, faults, FilesOK, Leases
    <2>3. "write lease" \in Steps(mem[c].kind, mem[c].token # "none")
      BY <1>1, Known DEF CreateLease, At, LocationInv, Kind, Steps, Disposing
    <2>4. QED
      BY <1>1, <2>2, <2>3, MoveOn DEF CreateLease, Quiet, Careful
  <1>2. CASE WriteLease(c)
    <2>1. mem[c].kind = "start" /\ mem[c].run \in Run
      BY <1>2, Known DEF WriteLease, At, LocationInv, Kind, Steps, Disposing
    <2>a. mem[c].at + LeaseDuration \in Nat
      BY Known, RuntimeAssumption DEF Memory
    <2>2. FilesOK'
      BY <1>2, <2>1, <2>a, Known DEF WriteLease, faults, FilesOK, Leases
    <2>3. "save operation" \in Steps(mem[c].kind, mem[c].token # "none")
      BY <2>1 DEF Steps
    <2>4. QED
      BY <1>2, <2>2, <2>3, MoveOn DEF WriteLease, Quiet, Careful
  <1>3. QED
    BY <1>1, <1>2

LEMMA SaveStep ==
  ASSUME IInv, NEW c \in Cmd, SaveOperation(c) \/ ClearOperation(c) \/ SaveCompleted(c)
  PROVE  IInv'
  <1>1. CASE SaveOperation(c)
    <2>1. mem[c].kind \in {"start", "checkpoint"} /\ mem[c].run \in Run
      BY <1>1, Known DEF SaveOperation, At, LocationInv, Kind, Steps, Disposing
    <2>2. FilesOK'
      BY <1>1, <2>1, Known DEF SaveOperation, faults, FilesOK
    <2>3. "save running" \in Steps(mem[c].kind, mem[c].token # "none")
      BY <2>1 DEF Steps
    <2>4. QED
      BY <1>1, <2>2, <2>3, MoveOn DEF SaveOperation, Quiet, Careful
  <1>2. CASE ClearOperation(c)
    <2>1. FilesOK'
      BY <1>2, Known DEF ClearOperation, faults, FilesOK
    <2>2. "save completed" \in Steps(mem[c].kind, mem[c].token # "none")
      BY <1>2, Known DEF ClearOperation, At, LocationInv, Kind, Steps, Disposing
    <2>3. QED
      BY <1>2, <2>1, <2>2, MoveOn DEF ClearOperation, Quiet, Careful
  <1>3. CASE SaveCompleted(c)
    <2>1. mem[c].run \in Run \cup {"none"}
      BY Known DEF Memory
    <2>2. FilesOK'
      BY <1>3, <2>1, Known DEF SaveCompleted, faults, FilesOK, States, Status
    <2>3. "check lease" \in Steps(mem[c].kind, mem[c].token # "none")
      BY <1>3, Known DEF SaveCompleted, At, LocationInv, Kind, Steps, Disposing
    <2>4. QED
      BY <1>3, <2>2, <2>3, MoveOn DEF SaveCompleted, Quiet, Careful
  <1>4. QED
    BY <1>1, <1>2, <1>3

(* A command that ends with the processes as they are.                     *)
LEMMA EndStep ==
  ASSUME IInv, NEW c \in Cmd, End(c), Quiet, FilesOK'
  PROVE  IInv'
  BY EndingFits, QuietStep

LEMMA LastSaveStep ==
  ASSUME IInv, NEW c \in Cmd,
         SaveRunning(c) \/ RemoveLease(c) \/ SavePaused(c) \/ SaveReady(c)
  PROVE  IInv'
  <1>1. mem[c].run \in Run \cup {"none"} /\ mem[c].state \in States
    BY Known DEF Memory
  <1>2. mem[c].state.run \in Run \cup {"none"}
    BY <1>1 DEF States
  <1>3. NoLease \in Leases
    BY DEF NoLease, Leases
  <1>4. \A t \in Status : [status |-> t, run |-> mem[c].run] \in States
    BY <1>1 DEF States
  <1>5. \A t \in Status : [status |-> t, run |-> mem[c].state.run] \in States
    BY <1>2 DEF States
  <1>6. FilesOK'
    BY <1>3, <1>4, <1>5, Known DEF SaveRunning, RemoveLease, SavePaused, SaveReady, FilesOK,
                                   faults, Status
  <1>7. QED
    BY <1>6, EndStep DEF SaveRunning, RemoveLease, SavePaused, SaveReady, Quiet

(* A command that keeps what it knows of processes and remembers something *)
(* else.                                                                   *)
Updates(n, m) ==
  /\ n \in Memory
  /\ n.kind = m.kind /\ n.run = m.run
  /\ SameProcesses(n, m)

LEMMA RememberStep ==
  ASSUME IInv, NEW c \in Cmd, NEW l, NEW m, Updates(m, mem[c]), Read(c, l, m), Quiet, FilesOK',
         l \in Steps(mem[c].kind, mem[c].token # "none"), l \notin Careful
  PROVE  IInv'
  <1>1. KnowledgeInv(l, m, proc)
    BY Known, QuietKnowledge DEF Updates
  <1>2. LocationInv(l, m)
    BY Known DEF LocationInv, SameProcesses, Updates
  <1>3. QED
    BY <1>1, <1>2, QuietStep DEF Moves, Updates

LEMMA MemoryUpdates ==
  ASSUME NEW m \in Memory
  PROVE  /\ \A x \in Leases : Updates([m EXCEPT !.lease = x], m)
         /\ \A x \in States : Updates([m EXCEPT !.state = x], m)
         /\ \A x \in Run \cup {"unowned", "absent"} : Updates([m EXCEPT !.operation = x], m)
         /\ \A x \in SUBSET Token : Updates([m EXCEPT !.victims = x], m)
         /\ \A x \in BOOLEAN : Updates([m EXCEPT !.stop = x], m)
         /\ \A x \in 0 .. MaxTime : Updates([m EXCEPT !.at = x], m)
         /\ \A x \in SUBSET Token : Updates([m EXCEPT !.timedOut = TRUE, !.victims = x], m)
  <1> USE DEF Memory, Updates, SameProcesses
  <1>1. \A x \in Leases : Updates([m EXCEPT !.lease = x], m)
    OBVIOUS
  <1>2. \A x \in States : Updates([m EXCEPT !.state = x], m)
    OBVIOUS
  <1>3. \A x \in Run \cup {"unowned", "absent"} : Updates([m EXCEPT !.operation = x], m)
    OBVIOUS
  <1>4. \A x \in SUBSET Token : Updates([m EXCEPT !.victims = x], m)
    OBVIOUS
  <1>5. \A x \in BOOLEAN : Updates([m EXCEPT !.stop = x], m)
    OBVIOUS
  <1>6. \A x \in 0 .. MaxTime : Updates([m EXCEPT !.at = x], m)
    OBVIOUS
  <1>7. \A x \in SUBSET Token : Updates([m EXCEPT !.timedOut = TRUE, !.victims = x], m)
    OBVIOUS
  <1> HIDE DEF Memory, Updates, SameProcesses
  <1>8. QED
    BY <1>1, <1>2, <1>3, <1>4, <1>5, <1>6, <1>7

LEMMA WaitingUpdates ==
  ASSUME NEW m \in Memory
  PROVE  /\ Updates(Waiting(m), m)
         /\ \A x \in SUBSET Token : Updates([Waiting(m) EXCEPT !.victims = x], m)
  <1>1. NoLease \in Leases /\ 0 \in 0 .. MaxTime
    BY RuntimeAssumption DEF NoLease, Leases
  <1>2. Updates(Waiting(m), m)
    BY <1>1 DEF Waiting, Memory, SameProcesses, Updates
  <1>3. \A x \in SUBSET Token : Updates([Waiting(m) EXCEPT !.victims = x], Waiting(m))
    BY <1>2, MemoryUpdates DEF Updates
  <1>4. QED
    BY <1>2, <1>3 DEF Updates, SameProcesses

LEMMA OwnLeaseStep ==
  ASSUME IInv, NEW c \in Cmd, ReadOwnLease(c) \/ RenewLease(c) \/ Beat(c)
  PROVE  IInv'
  <1>1. CASE ReadOwnLease(c)
    <2> DEFINE m == [mem[c] EXCEPT !.lease = lease]
    <2>1. /\ Read(c, "stop?", m) /\ UNCHANGED <<files, proc, now, issued, faults>>
          /\ pc[c] = "own lease"
      BY <1>1 DEF ReadOwnLease, At
    <2>2. Updates(m, mem[c])
      BY Known, MemoryUpdates DEF FilesOK
    <2>3. "stop?" \in Steps(mem[c].kind, mem[c].token # "none")
      BY <2>1, Known DEF LocationInv, Kind, Steps, Disposing
    <2>4. FilesOK' /\ Quiet
      BY <2>1, Known DEF files, faults, FilesOK, Quiet
    <2> HIDE DEF m
    <2>5. QED
      BY <2>1, <2>2, <2>3, <2>4, RememberStep DEF Careful
  <1>2. CASE RenewLease(c)
    <2>1. /\ lease' = [mem[c].lease EXCEPT !.until = mem[c].at + LeaseDuration]
          /\ IF mem[c].token # "none" THEN Read(c, "wait", Waiting(mem[c])) ELSE End(c)
          /\ UNCHANGED <<pause, stop, state, operation, registry, proc, now, issued, faults>>
      BY <1>2 DEF RenewLease, Supervising
    <2>2. FilesOK' /\ Quiet
      <3>1. mem[c].lease \in Leases /\ mem[c].at + LeaseDuration \in Nat
        BY Known, RuntimeAssumption DEF Memory
      <3>2. lease' \in Leases
        BY <2>1, <3>1 DEF Leases
      <3>3. QED
        BY <2>1, <3>2, Known DEF faults, FilesOK, Quiet
    <2>3. CASE mem[c].token # "none"
      <3>1. "wait" \in Steps(mem[c].kind, mem[c].token # "none")
        BY <2>3, Known DEF LocationInv, Steps
      <3>2. QED
        BY <2>1, <2>2, <2>3, <3>1, Known, WaitingUpdates, RememberStep DEF Careful
    <2>4. CASE mem[c].token = "none"
      BY <2>1, <2>2, <2>4, EndStep
    <2>5. QED
      BY <2>3, <2>4
  <1>3. CASE Beat(c)
    <2> DEFINE m == [mem[c] EXCEPT !.at = now]
    <2>1. /\ Read(c, "own lease", m) /\ UNCHANGED <<files, proc, now, issued, faults>>
          /\ pc[c] = "wait"
      BY <1>3 DEF Beat, At
    <2>2. Updates(m, mem[c])
      BY Known, MemoryUpdates DEF FilesOK
    <2>3. "own lease" \in Steps(mem[c].kind, mem[c].token # "none")
      BY <2>1, Known DEF LocationInv, Kind, Steps, Disposing
    <2>4. FilesOK' /\ Quiet
      BY <2>1, Known DEF files, faults, FilesOK, Quiet
    <2> HIDE DEF m
    <2>5. QED
      BY <2>1, <2>2, <2>3, <2>4, RememberStep DEF Careful
  <1>4. QED
    BY <1>1, <1>2, <1>3

(* A command that passes a test.                                           *)
LEMMA PassStep ==
  ASSUME IInv, NEW c \in Cmd,
         NEW l \in Steps(mem[c].kind, mem[c].token # "none"), Goto(c, l),
         UNCHANGED <<files, proc, now, issued, mem, faults>>,
         l = "read registry" => \/ mem[c].token = "none"
                                \/ proc[mem[c].token] \in Ended,
         l \notin {"terminate", "record end"}
  PROVE  IInv'
  <1>1. FilesOK' /\ Quiet /\ UNCHANGED mem
    BY Known DEF files, faults, FilesOK, Quiet
  <1>2. l \notin Careful \/ KnowledgeInv(l, mem[c], proc)
    BY Known DEF Careful, KnowledgeInv
  <1>3. QED
    BY <1>1, <1>2, MoveOn

LEMMA TestStep ==
  ASSUME IInv, NEW c \in Cmd,
         \/ CheckLease(c) \/ DiagnoseLease(c) \/ Decide(c)
         \/ CheckIdleLease(c) \/ CheckAllEnded(c) \/ CheckSupervisorLease(c)
  PROVE  IInv'
  <1>1. CASE CheckLease(c)
    <2>1. "remove lease" \in Steps(mem[c].kind, mem[c].token # "none")
      BY <1>1, Known DEF CheckLease, Pass, At, LocationInv, Kind, Steps, Disposing
    <2>2. QED
      BY <1>1, <2>1, PassStep DEF CheckLease, Pass
  <1>2. CASE DiagnoseLease(c)
    <2>1. "diagnose processes" \in Steps(mem[c].kind, mem[c].token # "none")
      BY <1>2, Known DEF DiagnoseLease, Pass, At, LocationInv, Kind, Steps, Disposing
    <2>2. QED
      BY <1>2, <2>1, PassStep DEF DiagnoseLease, Pass
  <1>3. CASE Decide(c)
    <2>1. {"clear pause", "drop lease"} \subseteq Steps(mem[c].kind, mem[c].token # "none")
      BY <1>3, Known DEF Decide, Pass, At, LocationInv, Kind, Steps, Disposing
    <2>2. PICK l \in {"clear pause", "drop lease"} : Pass(c, "decide", l)
      BY <1>3 DEF Decide
    <2>3. QED
      BY <2>1, <2>2, PassStep DEF Pass
  <1>4. CASE CheckIdleLease(c)
    <2>1. "all ended" \in Steps(mem[c].kind, mem[c].token # "none")
      BY <1>4, Known DEF CheckIdleLease, Pass, At, LocationInv, Kind, Steps, Disposing
    <2>2. QED
      BY <1>4, <2>1, PassStep DEF CheckIdleLease, Pass
  <1>5. CASE CheckAllEnded(c)
    <2>1. "read registry" \in Steps(mem[c].kind, mem[c].token # "none") /\ mem[c].token = "none"
      BY <1>5, Known DEF CheckAllEnded, Pass, At, LocationInv, Kind, Steps, Disposing
    <2>2. QED
      BY <1>5, <2>1, PassStep DEF CheckAllEnded, Pass
  <1>6. CASE CheckSupervisorLease(c)
    <2>1. "spawn" \in Steps(mem[c].kind, mem[c].token # "none")
      BY <1>6, Known DEF CheckSupervisorLease, Pass, At, LocationInv, Kind, Steps, Disposing
    <2>2. QED
      BY <1>6, <2>1, PassStep DEF CheckSupervisorLease, Pass
  <1>7. QED
    BY <1>1, <1>2, <1>3, <1>4, <1>5, <1>6

-----------------------------------------------------------------------------
(* pause and resume, but for the processes they terminate.                 *)

LEMMA SentinelStep ==
  ASSUME IInv, NEW c \in Cmd, SetPause(c) \/ SetStop(c) \/ ClearPause(c) \/ ClearStop(c)
  PROVE  IInv'
  <1>1. FilesOK' /\ Quiet /\ UNCHANGED mem
    BY Known DEF SetPause, SetStop, ClearPause, ClearStop, faults, FilesOK, Quiet
  <1>2. CASE SetPause(c) \/ SetStop(c)
    <2>1. {"set stop", "read state"} \subseteq Steps(mem[c].kind, mem[c].token # "none")
      BY <1>2, Known DEF SetPause, SetStop, At, LocationInv, Kind, Steps, Disposing
    <2>2. PICK l \in {"set stop", "read state"} : Goto(c, l)
      BY <1>2 DEF SetPause, SetStop
    <2>3. QED
      BY <1>1, <2>1, <2>2, MoveOn DEF Careful
  <1>3. CASE ClearPause(c) \/ ClearStop(c)
    <2>1. {"clear stop", "save ready"} \subseteq Steps(mem[c].kind, mem[c].token # "none")
      BY <1>3, Known DEF ClearPause, ClearStop, At, LocationInv, Kind, Steps, Disposing
    <2>2. PICK l \in {"clear stop", "save ready"} : Goto(c, l)
      BY <1>3 DEF ClearPause, ClearStop
    <2>3. QED
      BY <1>1, <2>1, <2>2, MoveOn DEF Careful
  <1>4. QED
    BY <1>2, <1>3

LEMMA ReadStateStep ==
  ASSUME IInv, NEW c \in Cmd, ReadState(c)
  PROVE  IInv'
  <1> DEFINE m == [mem[c] EXCEPT !.state = state]
  <1>1. Updates(m, mem[c])
    BY Known, MemoryUpdates DEF FilesOK
  <1>2. FilesOK' /\ Quiet
    BY Known DEF ReadState, files, faults, FilesOK, Quiet
  <1>3. PICK l \in {"save pausing", "inspect"} :
          Read(c, l, m) /\ l \in Steps(mem[c].kind, mem[c].token # "none")
    BY Known DEF ReadState, At, LocationInv, Kind, Steps, Disposing
  <1> HIDE DEF m
  <1>4. QED
    BY <1>1, <1>2, <1>3, RememberStep DEF Careful

LEMMA PauseStep ==
  ASSUME IInv, NEW c \in Cmd, SavePausing(c) \/ ReadOperation(c) \/ KeepOperation(c)
  PROVE  IInv'
  <1>1. CASE SavePausing(c)
    <2>1. mem[c].state \in States
      BY Known DEF Memory
    <2>2. FilesOK'
      BY <1>1, <2>1, Known DEF SavePausing, faults, FilesOK, States, Status
    <2>3. "read operation" \in Steps(mem[c].kind, mem[c].token # "none")
      BY <1>1, Known DEF SavePausing, At, LocationInv, Kind, Steps, Disposing
    <2>4. QED
      BY <1>1, <2>2, <2>3, MoveOn DEF SavePausing, Quiet, Careful
  <1>2. CASE ReadOperation(c)
    <2> DEFINE m == [mem[c] EXCEPT !.operation = operation]
    <2>1. Updates(m, mem[c])
      BY Known, MemoryUpdates DEF FilesOK
    <2>2. FilesOK' /\ Quiet /\ Read(c, "inspect", m)
      BY <1>2, Known DEF ReadOperation, files, faults, FilesOK, Quiet
    <2>3. "inspect" \in Steps(mem[c].kind, mem[c].token # "none")
      BY <1>2, Known DEF ReadOperation, At, LocationInv, Kind, Steps, Disposing
    <2> HIDE DEF m
    <2>4. QED
      BY <2>1, <2>2, <2>3, RememberStep DEF Careful
  <1>3. CASE KeepOperation(c)
    <2> DEFINE m == [mem[c] EXCEPT !.operation = "absent"]
    <2>1. Updates(m, mem[c])
      BY Known, MemoryUpdates
    <2>a. mem[c].operation \in Run \cup {"unowned", "absent"}
      BY Known DEF Memory
    <2>2. FilesOK' /\ Quiet /\ Read(c, "save paused", m)
      BY <1>3, <2>a, Known DEF KeepOperation, faults, FilesOK, Quiet
    <2>3. "save paused" \in Steps(mem[c].kind, mem[c].token # "none")
      BY <1>3, Known DEF KeepOperation, At, LocationInv, Kind, Steps, Disposing
    <2> HIDE DEF m
    <2>4. QED
      BY <2>1, <2>2, <2>3, RememberStep DEF Careful
  <1>4. QED
    BY <1>1, <1>2, <1>3

LEMMA DiagnosisStep ==
  ASSUME IInv, NEW c \in Cmd, DiagnoseStop(c) \/ DiagnoseProcesses(c)
  PROVE  IInv'
  <1>1. CASE DiagnoseStop(c)
    <2> DEFINE m == [mem[c] EXCEPT !.stop = stop]
    <2>1. Updates(m, mem[c])
      BY Known, MemoryUpdates DEF FilesOK
    <2>2. FilesOK' /\ Quiet /\ Read(c, "diagnose lease", m)
      BY <1>1, Known DEF DiagnoseStop, files, faults, FilesOK, Quiet
    <2>3. "diagnose lease" \in Steps(mem[c].kind, mem[c].token # "none")
      BY <1>1, Known DEF DiagnoseStop, At, LocationInv, Kind, Steps, Disposing
    <2> HIDE DEF m
    <2>4. QED
      BY <2>1, <2>2, <2>3, RememberStep DEF Careful
  <1>2. CASE DiagnoseProcesses(c)
    <2>1. /\ UNCHANGED <<files, proc, now, issued>> /\ pc[c] = "diagnose processes"
          /\ \/ Goto(c, "reread lease") /\ UNCHANGED <<mem, faults>>
             \/ lapses < MaxLapses /\ lapses' = lapses + 1 /\ End(c) /\ UNCHANGED crashes
      BY <1>2 DEF DiagnoseProcesses, At
    <2>2. CASE Goto(c, "reread lease") /\ UNCHANGED <<mem, faults>>
      <3>1. "reread lease" \in Steps(mem[c].kind, mem[c].token # "none")
        BY <2>1, Known DEF LocationInv, Kind, Steps, Disposing
      <3>2. QED
        BY <2>1, <2>2, <3>1, PassStep
    <2>3. CASE lapses < MaxLapses /\ lapses' = lapses + 1 /\ End(c) /\ UNCHANGED crashes
      <3>a. lapses' \in 0 .. MaxLapses
        BY <2>3, Known, RuntimeAssumption DEF FilesOK
      <3>1. FilesOK' /\ Quiet
        BY <2>1, <2>3, <3>a, Known DEF files, FilesOK, Quiet
      <3>2. QED
        BY <2>3, <3>1, EndStep
    <2>4. QED
      BY <2>1, <2>2, <2>3
  <1>3. QED
    BY <1>1, <1>2

LEMMA RecoveryStep ==
  ASSUME IInv, NEW c \in Cmd, RereadLease(c) \/ DropLease(c)
  PROVE  IInv'
  <1>1. NoLease \in Leases
    BY DEF NoLease, Leases
  <1>2. CASE RereadLease(c)
    <2> DEFINE x == IF lease.torn THEN NoLease ELSE lease
    <2>1. x \in Leases /\ Read(c, "read state", [mem[c] EXCEPT !.lease = x])
      BY <1>1, <1>2, Known DEF RereadLease, FilesOK
    <2> HIDE DEF x
    <2>2. FilesOK' /\ Quiet
      BY <1>2, Known DEF RereadLease, files, faults, FilesOK, Quiet
    <2>3. "read state" \in Steps(mem[c].kind, mem[c].token # "none")
      BY <1>2, Known DEF RereadLease, At, LocationInv, Kind, Steps, Disposing
    <2> DEFINE m == [mem[c] EXCEPT !.lease = x]
    <2>4. Updates(m, mem[c]) /\ Read(c, "read state", m)
      BY <2>1, Known, MemoryUpdates
    <2> HIDE DEF m
    <2>5. QED
      BY <2>2, <2>3, <2>4, RememberStep DEF Careful
  <1>3. CASE DropLease(c)
    <2> DEFINE m == [mem[c] EXCEPT !.lease = NoLease]
    <2>1. Updates(m, mem[c])
      BY <1>1, Known, MemoryUpdates
    <2>2. FilesOK' /\ Quiet /\ Read(c, "clear pause", m)
      BY <1>1, <1>3, Known DEF DropLease, faults, FilesOK, Quiet
    <2>3. "clear pause" \in Steps(mem[c].kind, mem[c].token # "none")
      BY <1>3, Known DEF DropLease, At, LocationInv, Kind, Steps, Disposing
    <2> HIDE DEF m
    <2>4. QED
      BY <2>1, <2>2, <2>3, RememberStep DEF Careful
  <1>4. QED
    BY <1>2, <1>3

-----------------------------------------------------------------------------
(* The processes and their registry.                                       *)

LEMMA InspectStep ==
  ASSUME IInv, NEW c \in Cmd, InspectProcesses(c)
  PROVE  IInv'
  <1> DEFINE v == {x \in Token \ Preserved : registry[x] = "running" /\ proc[x] \in Living}
             m == [mem[c] EXCEPT !.victims = v]
  <1>1. Updates(m, mem[c])
    BY Known, MemoryUpdates
  <1>2. FilesOK' /\ Quiet /\ Read(c, "challenge", m)
    BY Known DEF InspectProcesses, files, faults, FilesOK, Quiet
  <1>3. "challenge" \in Steps(mem[c].kind, mem[c].token # "none")
    BY Known DEF InspectProcesses, At, LocationInv, Kind, Steps, Disposing
  <1> HIDE DEF m
  <1>4. QED
    BY <1>1, <1>2, <1>3, RememberStep DEF Careful

\* A challenge tells of a process that it has been spawned.
LEMMA ChallengeStep ==
  ASSUME IInv, NEW c \in Cmd, NEW x \in Token, Challenge(c, x)
  PROVE  IInv'
  <1> DEFINE v == mem[c].victims \ {x}
             m == [mem[c] EXCEPT !.victims = v]
             n == [m EXCEPT !.target = x]
  <1>1. /\ UNCHANGED <<files, proc, now, issued>> /\ pc[c] = "challenge"
        /\ \/ proc[x] \in Living /\ Read(c, "terminate", n) /\ UNCHANGED faults
           \/ Read(c, "challenge", m) /\ UNCHANGED faults
           \/ /\ Read(c, "challenge", m)
              /\ lapses < MaxLapses /\ lapses' = lapses + 1 /\ UNCHANGED crashes
    BY DEF Challenge, At
  <1>2. v \subseteq Token /\ mem[c] \in Memory
    BY Known DEF Memory
  <1>3. Updates(m, mem[c])
    BY <1>2, MemoryUpdates
  <1>4. {"challenge", "terminate"} \subseteq Steps(mem[c].kind, mem[c].token # "none")
    BY <1>1, Known DEF LocationInv, Kind, Steps, Disposing
  <1>5. FilesOK' /\ Quiet
    <2>1. lapses < MaxLapses /\ lapses' = lapses + 1 => lapses' \in 0 .. MaxLapses
      BY Known, RuntimeAssumption DEF FilesOK
    <2>2. QED
      BY <1>1, <2>1, Known DEF files, faults, FilesOK, Quiet
  <1>6. CASE proc[x] \in Living /\ Read(c, "terminate", n)
    <2>1. m \in Memory /\ m.kind = mem[c].kind /\ m.run = mem[c].run /\ SameProcesses(m, mem[c])
      BY <1>3 DEF Updates
    <2> HIDE DEF m
    <2>2. /\ n \in Memory /\ n.kind = m.kind /\ n.run = m.run /\ n.target = x
          /\ SameProcesses(n, m)
      BY <2>1 DEF Memory, SameProcesses
    <2> HIDE DEF n
    <2>3. LocationInv("terminate", n)
      BY <1>4, <2>1, <2>2, Known DEF LocationInv, SameProcesses
    <2>a. proc[x] # "unused"
      BY <1>6 DEF Living
    <2>4. KnowledgeInv("terminate", n, proc)
      BY <2>a, <2>1, <2>2, Known DEF KnowledgeInv, SameProcesses
    <2>5. QED
      BY <1>5, <1>6, <2>2, <2>3, <2>4, QuietStep DEF Moves
  <1>7. CASE Read(c, "challenge", m)
    <2> HIDE DEF m
    <2>1. QED
      BY <1>3, <1>4, <1>5, <1>7, RememberStep DEF Careful
  <1>8. QED
    BY <1>1, <1>6, <1>7

LEMMA AllChallengedStep ==
  ASSUME IInv, NEW c \in Cmd, AllChallenged(c)
  PROVE  IInv'
  <1>1. CASE mem[c].token # "none"
    <2>1. "wait" \in Steps(mem[c].kind, mem[c].token # "none") /\ Goto(c, "wait")
      BY <1>1, Known DEF AllChallenged, Supervising, LocationInv, Steps
    <2>2. QED
      BY <2>1, PassStep DEF AllChallenged
  <1>2. CASE mem[c].token = "none"
    <2>1. /\ "read registry" \in Steps(mem[c].kind, mem[c].token # "none")
          /\ Goto(c, "read registry")
      BY <1>2, Known DEF AllChallenged, Supervising, At, LocationInv, Kind, Steps, Disposing
    <2>2. QED
      BY <1>2, <2>1, PassStep DEF AllChallenged
  <1>3. QED
    BY <1>1, <1>2

\* Whatever a command does to a process keeps the registry true.
LEMMA StillWarranted ==
  ASSUME IInv, Keeps(proc, proc'), registry' = registry
  PROVE  RegistryWarranted'
  BY DEF IInv, Keeps, RegistryWarranted, Warranted, Asked, Ended

(* A command that has dealt with a process and remembers k as terminated.   *)
LEMMA TerminatedStep ==
  ASSUME IInv, NEW c \in Cmd, Terminate(c), Keeps(proc, proc'),
         proc' \in [Token -> {"unused"} \cup Living \cup Ended], lapses' \in 0 .. MaxLapses,
         NEW k \in SUBSET Token, \A y \in k : Asked(proc'[y]),
         Read(c, "challenge", [mem[c] EXCEPT !.target = "none", !.killed = k])
  PROVE  IInv'
  <1> DEFINE m == [mem[c] EXCEPT !.target = "none", !.killed = k]
  <1>1. /\ UNCHANGED <<files, now, issued, crashes>> /\ pc[c] = "terminate"
        /\ Read(c, "challenge", m)
    BY DEF Terminate, At, faults
  <1>2. FilesOK' /\ registry' = registry
    BY <1>1, Known DEF files, FilesOK
  <1>3. RegistryWarranted'
    BY <1>2, StillWarranted
  <1>4. /\ m \in Memory /\ m.kind = mem[c].kind /\ m.run = mem[c].run
        /\ m.token = mem[c].token /\ m.exit = mem[c].exit /\ m.registry = mem[c].registry
        /\ m.killed = k
    <2>1. mem[c] \in Memory
      BY Known
    <2>2. m \in Memory
      BY <2>1, RuntimeAssumption DEF Memory
    <2>3. QED
      BY <2>1, <2>2 DEF Memory
  <1>5. "challenge" \in Steps(mem[c].kind, mem[c].token # "none")
    BY <1>1, Known DEF LocationInv, Kind, Steps, Disposing
  <1> HIDE DEF m
  <1>6. LocationInv("challenge", m)
    BY <1>4, <1>5, Known DEF LocationInv
  <1>7. KnowledgeInv("challenge", m, proc')
    <2>1. KnowledgeInv("challenge", mem[c], proc')
      BY Known, KnowledgeKept, QuietKnowledge DEF SameProcesses, Careful
    <2>2. QED
      BY <1>4, <2>1 DEF KnowledgeInv
  <1>8. QED
    BY <1>1, <1>2, <1>3, <1>4, <1>6, <1>7, CommandStep DEF Moves

LEMMA TerminateStep ==
  ASSUME IInv, NEW c \in Cmd, Terminate(c)
  PROVE  IInv'
  <1> DEFINE x == mem[c].target
             k == IF Supervising(c) THEN {} ELSE mem[c].killed \cup {x}
             m == [mem[c] EXCEPT !.target = "none"]
             Sent(p) == proc' = [proc EXCEPT ![x] = p]
             n == [m EXCEPT !.killed = k]
  <1>1. /\ x \in Token /\ proc[x] # "unused" /\ mem[c] \in Memory
        /\ mem[c].killed \subseteq Token /\ \A y \in mem[c].killed : Asked(proc[y])
        /\ proc \in [Token -> {"unused"} \cup Living \cup Ended]
        /\ lapses \in 0 .. MaxLapses
    BY Known DEF Terminate, At, KnowledgeInv, Memory, FilesOK
  <1>2. \/ /\ \E p \in IF proc[x] \in Living THEN {"killed", "asked"} ELSE {proc[x]} : Sent(p)
           /\ Read(c, "challenge", n) /\ UNCHANGED faults
        \/ /\ proc[x] \in Living /\ lapses < MaxLapses
           /\ \E p \in {proc[x], "asked"} : Sent(p)
           /\ Read(c, "challenge", m)
           /\ lapses' = lapses + 1
    <2>1. n = [m EXCEPT !.killed = IF Supervising(c) THEN {} ELSE @ \cup {x}]
      BY <1>1 DEF Memory
    <2>2. QED
      BY <2>1, Zenon DEF Terminate
  <1>3. m = [mem[c] EXCEPT !.target = "none", !.killed = mem[c].killed]
        /\ n = [mem[c] EXCEPT !.target = "none", !.killed = k]
    BY <1>1 DEF Memory
  <1>4. ASSUME NEW p \in {"killed", "asked", proc[x]}, Sent(p), proc[x] \in Living \/ p = proc[x]
        PROVE  /\ Keeps(proc, proc') /\ proc'[x] = p
               /\ proc' \in [Token -> {"unused"} \cup Living \cup Ended]
    BY <1>1, <1>4 DEF Keeps, Asked, Living, Ended
  <1>5. CASE /\ \E p \in IF proc[x] \in Living THEN {"killed", "asked"} ELSE {proc[x]} : Sent(p)
             /\ Read(c, "challenge", n) /\ UNCHANGED faults
    <2>1. PICK p \in IF proc[x] \in Living THEN {"killed", "asked"} ELSE {proc[x]} : Sent(p)
      BY <1>5
    <2>2. /\ Keeps(proc, proc') /\ proc'[x] = p
          /\ proc' \in [Token -> {"unused"} \cup Living \cup Ended]
      BY <1>4, <2>1
    <2>3. Asked(p)
      BY <1>1, <2>1 DEF Asked, Living, Ended
    <2>4. k \subseteq Token /\ \A y \in k : Asked(proc'[y])
      BY <1>1, <2>2, <2>3 DEF Keeps
    <2>5. lapses' \in 0 .. MaxLapses
      BY <1>1, <1>5 DEF faults
    <2> HIDE DEF k, x, m, n, Sent
    <2>6. QED
      BY <1>3, <1>5, <2>2, <2>4, <2>5, TerminatedStep
  <1>6. CASE /\ proc[x] \in Living /\ lapses < MaxLapses
             /\ \E p \in {proc[x], "asked"} : Sent(p)
             /\ Read(c, "challenge", m)
             /\ lapses' = lapses + 1
    <2>1. PICK p \in {proc[x], "asked"} : Sent(p)
      BY <1>6
    <2>2. /\ Keeps(proc, proc')
          /\ proc' \in [Token -> {"unused"} \cup Living \cup Ended]
      BY <1>4, <1>6, <2>1
    <2>3. \A y \in mem[c].killed : Asked(proc'[y])
      BY <1>1, <2>2 DEF Keeps
    <2>4. lapses' \in 0 .. MaxLapses
      BY <1>1, <1>6, RuntimeAssumption
    <2> HIDE DEF k, x, m, n, Sent
    <2>5. QED
      BY <1>1, <1>3, <1>6, <2>2, <2>3, <2>4, TerminatedStep
  <1>7. QED
    BY <1>2, <1>5, <1>6

\* Remembering another registry, with another exit or other killed processes.
LEMMA RegistryRemembered ==
  ASSUME NEW m \in Memory, NEW r \in [Token -> ProcessStatus],
         NEW e \in {"unheard", "heard", "missed"}, NEW k \in SUBSET Token
  PROVE  /\ [m EXCEPT !.registry = r] \in Memory
         /\ [m EXCEPT !.exit = e, !.registry = r] \in Memory
         /\ [m EXCEPT !.registry = r, !.killed = k] \in Memory
  <1>1. [m EXCEPT !.registry = r] \in Memory
    BY DEF Memory
  <1>2. [m EXCEPT !.exit = e, !.registry = r] \in Memory
    BY DEF Memory
  <1>3. [m EXCEPT !.registry = r, !.killed = k] \in Memory
    BY DEF Memory
  <1>4. QED
    BY <1>1, <1>2, <1>3

\* What a command reads in the registry is so, and stays so.
LEMMA ReadRegistryStep ==
  ASSUME IInv, NEW c \in Cmd, ReadRegistry(c)
  PROVE  IInv'
  <1> DEFINE m == [mem[c] EXCEPT !.registry = registry]
             l == AfterRegistry(c)
  <1>1. Read(c, l, m) /\ UNCHANGED <<files, proc, now, issued, faults>> /\ pc[c] = "read registry"
    BY DEF ReadRegistry, At
  <1>2. FilesOK' /\ Quiet
    BY <1>1, Known DEF files, faults, FilesOK, Quiet
  <1>3. /\ m \in Memory /\ m.kind = mem[c].kind /\ m.run = mem[c].run
        /\ m.token = mem[c].token /\ m.exit = mem[c].exit /\ m.killed = mem[c].killed
        /\ m.registry = registry
    <2>1. mem[c] \in Memory /\ registry \in [Token -> ProcessStatus]
      BY Known DEF FilesOK
    <2>2. m \in Memory
      BY <2>1, RegistryRemembered
    <2>3. QED
      BY <2>1, <2>2 DEF Memory
  <1>4. /\ l \in Steps(mem[c].kind, mem[c].token # "none")
        /\ l \notin {"terminate", "read registry"}
        /\ l = "record end" => mem[c].token # "none" /\ mem[c].exit # "unheard"
    BY <1>1, Known DEF AfterRegistry, Supervising, LocationInv, Kind, Steps, Disposing
  <1> HIDE DEF m, l
  <1>5. LocationInv(l, m)
    BY <1>3, <1>4, Known DEF LocationInv
  <1>6. KnowledgeInv(l, m, proc)
    <2>1. \A x \in Token : Warranted(m.registry[x], proc[x])
      BY <1>3 DEF IInv, RegistryWarranted, Warranted
    <2>2. l = "record end" => m.token \in Token /\ proc[m.token] \in Ended
      BY <1>1, <1>3, <1>4, Known DEF KnowledgeInv, Memory
    <2>3. QED
      BY <1>3, <1>4, <2>1, <2>2, Known DEF KnowledgeInv
  <1>7. QED
    BY <1>1, <1>2, <1>3, <1>5, <1>6, QuietStep DEF Moves

\* What a command that terminated processes writes back is so.
LEMMA RecordTerminatedStep ==
  ASSUME IInv, NEW c \in Cmd, RecordTerminated(c)
  PROVE  IInv'
  <1> DEFINE m == [mem[c] EXCEPT !.registry = NoRegistry, !.killed = {}]
  <1>1. PICK l \in {"keep operation", "decide"} :
          Read(c, l, m) /\ l \in Steps(mem[c].kind, mem[c].token # "none")
    BY Known DEF RecordTerminated, At, LocationInv, Kind, Steps, Disposing
  <1>2. /\ registry' = [x \in Token |-> StatusTerminated(mem[c], x)]
        /\ UNCHANGED <<lease, pause, stop, state, operation, proc, now, issued, faults>>
    BY DEF RecordTerminated
  <1>3. \A x \in Token : /\ StatusTerminated(mem[c], x) \in ProcessStatus
                         /\ Warranted(StatusTerminated(mem[c], x), proc[x])
    <2>1. /\ mem[c].registry \in [Token -> ProcessStatus]
          /\ \A x \in mem[c].killed : Asked(proc[x])
          /\ \A x \in Token : Warranted(mem[c].registry[x], proc[x])
      BY Known DEF KnowledgeInv, Memory
    <2>2. QED
      BY <2>1 DEF StatusTerminated, Warranted, ProcessStatus, Asked
  <1>4. FilesOK' /\ RegistryWarranted'
    BY <1>2, <1>3, Known DEF faults, FilesOK, RegistryWarranted, Warranted
  <1>5. /\ m \in Memory /\ m.kind = mem[c].kind /\ m.run = mem[c].run
        /\ m.token = mem[c].token /\ m.exit = mem[c].exit /\ m.killed = {}
        /\ m.registry = NoRegistry
    <2>1. NoRegistry \in [Token -> ProcessStatus] /\ mem[c] \in Memory
      BY Known DEF NoRegistry, ProcessStatus
    <2>2. m \in Memory
      BY <2>1, RegistryRemembered
    <2>3. QED
      BY <2>1, <2>2 DEF Memory
  <1> HIDE DEF m
  <1>6. LocationInv(l, m)
    BY <1>1, <1>5, Known DEF LocationInv
  <1>7. KnowledgeInv(l, m, proc')
    <2>1. \A x \in Token : Warranted(m.registry[x], proc[x])
      BY <1>5 DEF NoRegistry, Warranted
    <2>2. QED
      BY <1>1, <1>2, <1>5, <2>1, Known DEF KnowledgeInv
  <1>8. Keeps(proc, proc')
    BY <1>2 DEF Keeps
  <1>9. QED
    BY <1>1, <1>4, <1>5, <1>6, <1>7, <1>8, CommandStep DEF Moves

\* A command that writes the registry for the last time.
LEMMA LastRecordStep ==
  ASSUME IInv, NEW c \in Cmd, Prune(c) \/ RecordEnd(c)
  PROVE  IInv'
  <1>1. /\ mem[c].registry \in [Token -> ProcessStatus]
        /\ \A x \in Token : Warranted(mem[c].registry[x], proc[x])
    BY Known DEF KnowledgeInv, Memory
  <1>2. registry' \in [Token -> ProcessStatus] /\ \A x \in Token : Warranted(registry'[x], proc[x])
    <2>1. CASE Prune(c)
      BY <1>1, <2>1 DEF Prune, Warranted, ProcessStatus
    <2>2. CASE RecordEnd(c)
      <3>1. mem[c].token \in Token /\ proc[mem[c].token] \in Ended
        BY <2>2, Known DEF RecordEnd, At, KnowledgeInv
      <3>2. EndStatus(mem[c]) \in ProcessStatus /\ Warranted(EndStatus(mem[c]), proc[mem[c].token])
        BY <3>1 DEF EndStatus, Warranted, ProcessStatus, Ended
      <3>3. QED
        BY <1>1, <2>2, <3>1, <3>2 DEF RecordEnd
    <2>3. QED
      BY <2>1, <2>2
  <1>3. End(c) /\ UNCHANGED <<lease, pause, stop, state, operation, proc, now, issued, faults>>
    BY DEF Prune, RecordEnd
  <1>4. FilesOK' /\ RegistryWarranted' /\ Keeps(proc, proc')
    BY <1>2, <1>3, Known DEF faults, FilesOK, RegistryWarranted, Warranted, Keeps
  <1>5. QED
    BY <1>3, <1>4, EndingFits, CommandStep

LEMMA SpawnStep ==
  ASSUME IInv, NEW c \in Cmd, NEW x \in Token, Spawn(c, x)
  PROVE  IInv'
  <1> DEFINE m == [mem[c] EXCEPT !.token = x]
  <1>1. /\ Read(c, "read registry", m) /\ pc[c] = "spawn" /\ proc[x] = "unused"
        /\ proc' = [proc EXCEPT ![x] = "alive"]
        /\ UNCHANGED <<files, now, issued, faults>>
    BY DEF Spawn, At
  <1>2. proc \in [Token -> {"unused"} \cup Living \cup Ended] /\ x # "none"
    BY Known, RuntimeAssumption DEF FilesOK
  <1>3. Keeps(proc, proc') /\ proc'[x] = "alive"
    BY <1>1, <1>2 DEF Keeps, Asked, Living, Ended
  <1>4. FilesOK' /\ registry' = registry
    <2>1. proc' \in [Token -> {"unused"} \cup Living \cup Ended]
      BY <1>1, <1>2 DEF Living
    <2>2. QED
      BY <1>1, <2>1, Known DEF files, faults, FilesOK
  <1>5. RegistryWarranted'
    BY <1>3, <1>4, StillWarranted
  <1>6. mem[c].kind = "supervise" /\ mem[c].token = "none" /\ mem[c].exit = "unheard"
    BY <1>1, Known DEF LocationInv, Kind, Steps, Disposing
  <1>7. /\ m \in Memory /\ m.kind = "supervise" /\ m.run = mem[c].run
        /\ m.token = x /\ m.exit = "unheard" /\ m.killed = mem[c].killed
        /\ m.registry = mem[c].registry
    <2>1. mem[c] \in Memory
      BY Known
    <2>2. m \in Memory
      BY <2>1 DEF Memory
    <2>3. /\ m.kind = mem[c].kind /\ m.run = mem[c].run /\ m.token = x
          /\ m.exit = mem[c].exit /\ m.killed = mem[c].killed /\ m.registry = mem[c].registry
      BY <2>1 DEF Memory
    <2>4. QED
      BY <1>6, <2>2, <2>3
  <1> HIDE DEF m
  <1>8. LocationInv("read registry", m)
    BY <1>2, <1>6, <1>7, Known DEF LocationInv, Steps
  <1>9. KnowledgeInv("read registry", m, proc')
    <2>1. KnowledgeInv("spawn", mem[c], proc')
      BY <1>1, <1>3, Known, KnowledgeKept
    <2>2. QED
      BY <1>3, <1>7, <2>1 DEF KnowledgeInv
  <1>10. QED
    BY <1>1, <1>3, <1>4, <1>5, <1>7, <1>8, <1>9, CommandStep DEF Moves

LEMMA RegisterStep ==
  ASSUME IInv, NEW c \in Cmd, Register(c)
  PROVE  IInv'
  <1> DEFINE x == mem[c].token
  <1>1. /\ pc[c] = "register" /\ registry' = [mem[c].registry EXCEPT ![x] = "running"]
        /\ UNCHANGED <<lease, pause, stop, state, operation, proc, now, issued, faults>>
    BY DEF Register, At
  <1>2. PICK e \in {"heard", "missed"} :
          Read(c, "wait", [mem[c] EXCEPT !.exit = e, !.registry = NoRegistry])
    BY DEF Register
  <1> DEFINE m == [mem[c] EXCEPT !.exit = e, !.registry = NoRegistry]
  <1>3. x # "none" /\ x \in Token /\ mem[c].kind = "supervise"
    BY <1>1, Known DEF LocationInv, Kind, Steps, Disposing, Memory
  <1>4. FilesOK' /\ RegistryWarranted' /\ Keeps(proc, proc')
    <2>1. registry' \in [Token -> ProcessStatus] /\ \A y \in Token : Warranted(registry'[y], proc[y])
      <3>1. /\ mem[c].registry \in [Token -> ProcessStatus]
            /\ \A y \in Token : Warranted(mem[c].registry[y], proc[y])
        BY Known DEF KnowledgeInv, Memory
      <3>2. QED
        BY <1>1, <1>3, <3>1 DEF ProcessStatus, Warranted
    <2>2. QED
      BY <1>1, <2>1, Known DEF faults, FilesOK, RegistryWarranted, Warranted, Keeps
  <1>5. /\ m \in Memory /\ m.kind = "supervise" /\ m.run = mem[c].run
        /\ m.token = x /\ m.killed = mem[c].killed /\ m.registry = NoRegistry
    <2>1. NoRegistry \in [Token -> ProcessStatus] /\ mem[c] \in Memory
      BY Known DEF NoRegistry, ProcessStatus
    <2>2. m \in Memory
      BY <2>1, RegistryRemembered
    <2>3. QED
      BY <1>3, <2>1, <2>2 DEF Memory
  <1>6. Read(c, "wait", m)
    BY <1>2
  <1> HIDE DEF m
  <1>7. LocationInv("wait", m)
    BY <1>3, <1>5, Known DEF LocationInv, Steps
  <1>8. KnowledgeInv("wait", m, proc')
    <2>1. \A y \in Token : Warranted(m.registry[y], proc[y])
      BY <1>5 DEF NoRegistry, Warranted
    <2>2. QED
      BY <1>1, <1>5, <2>1, Known DEF KnowledgeInv
  <1>9. QED
    BY <1>4, <1>5, <1>6, <1>7, <1>8, CommandStep DEF Moves

-----------------------------------------------------------------------------
(* Timeouts, exits, refusals and crashes; the beginning of a command.      *)

LEMMA TimeOutStep ==
  ASSUME IInv, NEW c \in Cmd, TimeOut(c)
  PROVE  IInv'
  <1> DEFINE v == {mem[c].token}
             m == [mem[c] EXCEPT !.timedOut = TRUE, !.victims = v]
  <1>1. /\ Read(c, "challenge", m) /\ UNCHANGED <<files, proc, now, issued, faults>>
        /\ pc[c] = "wait"
    BY DEF TimeOut, At
  <1>2. /\ "challenge" \in Steps(mem[c].kind, mem[c].token # "none")
        /\ v \subseteq Token /\ mem[c] \in Memory
    <2>1. mem[c].token # "none" /\ mem[c].kind = "supervise"
      BY <1>1, Known DEF LocationInv, Kind, Steps, Disposing
    <2>2. "challenge" \in Steps(mem[c].kind, mem[c].token # "none")
      BY <2>1 DEF Steps
    <2>3. QED
      BY <2>1, <2>2, Known DEF Memory
  <1>3. Updates(m, mem[c])
    BY <1>2, MemoryUpdates
  <1>4. FilesOK' /\ Quiet
    BY <1>1, Known DEF files, faults, FilesOK, Quiet
  <1> HIDE DEF m
  <1>5. QED
    BY <1>1, <1>2, <1>3, <1>4, RememberStep DEF Careful

\* An exit is heard of once the process has ended.
LEMMA ExitedStep ==
  ASSUME IInv, NEW c \in Cmd, Exited(c)
  PROVE  IInv'
  <1>1. /\ Goto(c, "read registry") /\ UNCHANGED <<files, proc, now, issued, mem, faults>>
        /\ pc[c] = "wait" /\ proc[mem[c].token] \notin Living
    BY DEF Exited, At
  <1>2. mem[c].token # "none"
    BY <1>1, Known DEF LocationInv, Kind, Steps, Disposing
  <1>3. "read registry" \in Steps(mem[c].kind, mem[c].token # "none")
    BY <1>2, Known DEF LocationInv, Steps
  <1>4. proc[mem[c].token] \in Ended
    <2>1. mem[c].token \in Token /\ proc[mem[c].token] # "unused"
      BY <1>2, Known DEF KnowledgeInv, Memory
    <2>2. proc \in [Token -> {"unused"} \cup Living \cup Ended]
      BY Known DEF FilesOK
    <2>3. QED
      BY <1>1, <2>1, <2>2
  <1>5. QED
    BY <1>1, <1>3, <1>4, PassStep

LEMMA RefuseStep ==
  ASSUME IInv, NEW c \in Cmd, Refuse(c)
  PROVE  IInv'
  <1>1. FilesOK' /\ Quiet /\ AfterRefusal(c)
    BY Known DEF Refuse, files, faults, FilesOK, Quiet
  <1>2. CASE mem[c].token # "none"
    <2> DEFINE v == {mem[c].token}
               m == [Waiting(mem[c]) EXCEPT !.victims = v]
    <2>1. v \subseteq Token /\ mem[c] \in Memory
      BY <1>2, Known DEF Memory
    <2>2. Updates(m, mem[c])
      BY <2>1, WaitingUpdates
    <2>3. "challenge" \in Steps(mem[c].kind, mem[c].token # "none")
      BY <1>2, Known DEF LocationInv, Steps
    <2>4. Read(c, "challenge", m)
      BY <1>1, <1>2 DEF AfterRefusal, Supervising
    <2> HIDE DEF m
    <2>5. QED
      BY <1>1, <2>2, <2>3, <2>4, RememberStep DEF Careful
  <1>3. CASE mem[c].token = "none"
    BY <1>1, <1>3, EndStep DEF AfterRefusal, Supervising
  <1>4. QED
    BY <1>2, <1>3

LEMMA CrashStep ==
  ASSUME IInv, NEW c \in Cmd, Crash(c)
  PROVE  IInv'
  <1>1. crashes' \in 0 .. MaxCrashes
    BY Known, RuntimeAssumption DEF Crash, FilesOK
  <1>2. FilesOK' /\ Quiet
    BY <1>1, Known DEF Crash, files, FilesOK, Quiet
  <1>3. QED
    BY <1>2, EndStep DEF Crash

LEMMA IssueStep ==
  ASSUME IInv, NEW c \in Cmd, NEW k \in Kind, NEW r \in Run \cup {"none"}, NEW flag \in BOOLEAN,
         Issue(c, k, r, flag)
  PROVE  IInv'
  <1> DEFINE t == IF k \in {"start", "heartbeat"} THEN now ELSE 0
             m == [NoMem EXCEPT !.kind = k, !.run = r, !.flag = flag, !.at = t]
             l == FirstStep(k)
  <1>1. /\ Read(c, l, m) /\ UNCHANGED <<files, proc, now, issued, faults>>
        /\ k \in {"start", "heartbeat", "checkpoint", "complete", "supervise"} => r \in Run
    BY Known DEF Issue, FilesOK, Kind
  <1>2. FilesOK' /\ Quiet
    BY <1>1, Known DEF files, faults, FilesOK, Quiet
  <1>3. t \in 0 .. MaxTime
    BY Known, RuntimeAssumption DEF FilesOK
  <1>4. NoMem \in Memory
    BY RuntimeAssumption DEF NoMem, Memory, NoLease, NoState, NoRegistry, Leases, States, Status,
                             ProcessStatus
  <1> HIDE DEF t
  <1>5. /\ m \in Memory /\ m.kind = k /\ m.run = r
        /\ m.token = NoMem.token /\ m.exit = NoMem.exit /\ m.killed = NoMem.killed
        /\ m.registry = NoMem.registry
    <2>1. m \in Memory
      BY <1>3, <1>4 DEF Memory
    <2>2. QED
      BY <1>4, <2>1 DEF Memory
  <1>6. l \in Steps(k, FALSE) /\ l \notin Careful
    BY DEF FirstStep, Kind, Steps, Careful
  <1> HIDE DEF m, l
  <1>7. LocationInv(l, m)
    BY <1>1, <1>5, <1>6 DEF LocationInv, NoMem
  <1>8. KnowledgeInv(l, m, proc)
    BY <1>5, <1>6 DEF KnowledgeInv, Careful, NoMem, NoRegistry, Warranted
  <1>9. QED
    BY <1>1, <1>2, <1>5, <1>7, <1>8, QuietStep DEF Moves

\* What happens around the commands.
LEMMA EnvironmentStep ==
  ASSUME IInv, Environment
  PROVE  IInv'
  <1>1. Keeps(proc, proc') /\ FilesOK' /\ UNCHANGED <<registry, pc, mem>>
    <2>1. CASE Tick
      <3>1. now' \in 0 .. MaxTime
        BY <2>1, RuntimeAssumption DEF Tick, IInv, TypeOK
      <3>2. QED
        BY <2>1, <3>1 DEF Tick, IInv, TypeOK, FilesOK, files, faults, Keeps
    <2>2. ASSUME NEW x \in Token, ProcessEnds(x) PROVE Keeps(proc, proc') /\ FilesOK' /\ UNCHANGED <<registry, pc, mem>>
      <3>1. PICK e \in {"completed", "failed"} : proc' = [proc EXCEPT ![x] = e]
        BY <2>2 DEF ProcessEnds
      <3>2. proc[x] \in Living /\ proc \in [Token -> {"unused"} \cup Living \cup Ended]
        BY <2>2 DEF ProcessEnds, IInv, TypeOK
      <3>3. Keeps(proc, proc') /\ proc' \in [Token -> {"unused"} \cup Living \cup Ended]
        BY <3>1, <3>2 DEF Keeps, Asked, Living, Ended
      <3>4. QED
        BY <2>2, <3>3 DEF ProcessEnds, IInv, TypeOK, FilesOK, files, faults
    <2>3. QED
      BY <2>1, <2>2 DEF Environment
  <1>2. TypeOK'
    BY <1>1 DEF IInv, TypeOK, FilesOK
  <1>3. RegistryWarranted'
    BY <1>1, StillWarranted
  <1>4. ASSUME NEW c \in Cmd PROVE LocationInv(pc'[c], mem'[c]) /\ KnowledgeInv(pc'[c], mem'[c], proc')
    BY <1>1, Known, KnowledgeKept
  <1>5. QED
    BY <1>2, <1>3, <1>4 DEF IInv

-----------------------------------------------------------------------------
LEMMA InitInv == Init => IInv
  <1>1. NoMem \in Memory
    BY RuntimeAssumption DEF NoMem, Memory, NoLease, NoState, NoRegistry, Leases, States, Status,
                             ProcessStatus
  <1>2. Init => TypeOK
    <2> SUFFICES ASSUME Init PROVE TypeOK
      OBVIOUS
    <2>1. mem \in [Cmd -> Memory] /\ DOMAIN pc = Cmd
      BY <1>1 DEF Init
    <2>2. NoLease \in Leases /\ NoState \in States /\ NoRegistry \in [Token -> ProcessStatus]
      BY DEF NoLease, NoState, NoRegistry, Leases, States, Status, ProcessStatus
    <2>3. 0 \in 0 .. MaxTime /\ 0 \in 0 .. MaxCrashes /\ 0 \in 0 .. MaxLapses
      BY RuntimeAssumption
    <2>4. proc \in [Token -> {"unused"} \cup Living \cup Ended]
      BY DEF Init
    <2>5. QED
      BY <2>1, <2>2, <2>3, <2>4 DEF Init, TypeOK
  <1>3. Init => RegistryWarranted
    BY DEF Init, NoRegistry, RegistryWarranted, Warranted
  <1>4. ASSUME Init, NEW c \in Cmd PROVE LocationInv(pc[c], mem[c]) /\ KnowledgeInv(pc[c], mem[c], proc)
    <2>1. pc[c] = "idle" /\ mem[c] = NoMem
      BY <1>4 DEF Init
    <2>2. LocationInv("idle", NoMem)
      BY DEF LocationInv, NoMem, Steps
    <2>3. KnowledgeInv("idle", NoMem, proc)
      BY DEF KnowledgeInv, NoMem, NoRegistry, Warranted
    <2>4. QED
      BY <2>1, <2>2, <2>3
  <1>5. QED
    BY <1>2, <1>3, <1>4 DEF IInv

LEMMA CommandInv ==
  ASSUME IInv, NEW c \in Cmd, Step(c)
  PROVE  IInv'
  <1>1. CASE Coordinate(c)
    BY <1>1, PreflightStep, AcquireStep, OwnLeaseStep, SaveStep, LastSaveStep, TestStep
       DEF Coordinate
  <1>2. CASE Pause(c)
    BY <1>2, SentinelStep, ReadStateStep, PauseStep, LastSaveStep DEF Pause
  <1>3. CASE TerminateDisposable(c)
    BY <1>3, InspectStep, ChallengeStep, TerminateStep, AllChallengedStep, ReadRegistryStep,
       RecordTerminatedStep DEF TerminateDisposable
  <1>4. CASE Resume(c)
    BY <1>4, DiagnosisStep, TestStep, RecoveryStep, SentinelStep, LastSaveStep DEF Resume
  <1>5. CASE Cleanup(c)
    BY <1>5, TestStep, LastRecordStep DEF Cleanup
  <1>6. CASE Supervise(c)
    BY <1>6, TestStep, SpawnStep, RegisterStep, OwnLeaseStep, TimeOutStep, ExitedStep,
       LastRecordStep DEF Supervise
  <1>7. QED
    BY <1>1, <1>2, <1>3, <1>4, <1>5, <1>6, RefuseStep DEF Step

LEMMA NextInv == IInv /\ [Next]_vars => IInv'
  <1> SUFFICES ASSUME IInv, [Next]_vars PROVE IInv'
    OBVIOUS
  <1>1. CASE Next
    BY <1>1, IssueStep, CommandInv, CrashStep, EnvironmentStep DEF Next
  <1>2. CASE UNCHANGED vars
    <2>1. TypeOK'
      BY <1>2 DEF IInv, TypeOK, vars, files, faults
    <2>2. QED
      BY <1>2, <2>1 DEF IInv, RegistryWarranted, vars, files
  <1>3. QED
    BY <1>1, <1>2

\* What a command remembers of the processes has happened, wherever it is.
THEOREM RuntimeInv == Spec => []IInv
  BY InitInv, NextInv, PTL DEF Spec

\* The files, the processes and the memory of the commands stay of their types.
THEOREM RuntimeTypes == Spec => []TypeOK
  <1>1. IInv => TypeOK
    BY DEF IInv
  <1>2. QED
    BY <1>1, RuntimeInv, PTL

\* The registry claims no end that has not happened, no success that was a failure
\* and no termination that was not sent, however many commands write their copies
\* of it back.  That a terminated process has ended is not claimed: kill's exit
\* status does not tell.
THEOREM RegistryStaysWarranted == Spec => []RegistryWarranted
  <1>1. IInv => RegistryWarranted
    BY DEF IInv
  <1>2. QED
    BY <1>1, RuntimeInv, PTL
=============================================================================
