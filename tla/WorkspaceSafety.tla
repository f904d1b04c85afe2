--------------------------- MODULE WorkspaceSafety ---------------------------
(***************************************************************************)
(* The inductive invariant of the controlled workspace is one, and the     *)
(* safety properties follow from it, for any number of processes,          *)
(* transactions and aborts.                                                *)
(***************************************************************************)
EXTENDS WorkspaceProofs

ProcStep(p) == Start(p) \/ Step(p) \/ Abort(p)

-----------------------------------------------------------------------------
(* Frames.                                                                 *)

\* A command moves only its own program counter and memory.
LEMMA OthersStay ==
  ASSUME TypeOK, NEW p \in Proc, NEW q \in Proc, p # q, ProcStep(p)
  PROVE  pc'[q] = pc[q] /\ pub'[q] = pub[q] /\ job'[q] = job[q] /\ seen'[q] = seen[q]
  <1>1. pc \in [Proc -> Location] /\ pub \in [Proc -> {"check", "stage", "recheck", "rename"}]
        /\ DOMAIN job = Proc /\ DOMAIN seen = Proc
    BY DEF TypeOK
  <1> DEFINE Same == pc'[q] = pc[q] /\ pub'[q] = pub[q] /\ job'[q] = job[q] /\ seen'[q] = seen[q]
  <1> HIDE DEF TypeOK
  <1>2. CASE Start(p)
    BY <1>1, <1>2 DEF Start, Confirm, Invoke
  <1>3. CASE Prepare(p)
    BY <1>1, <1>3 DEF Prepare, FindRoot, MakeRoot, FindWorkspace, MakeWorkspace, FindMarker,
                      FindTransaction, MakeTransaction, OpenTransaction, ReadJournal, Goto
  <1>4. CASE Publish(p)
    BY <1>1, <1>4 DEF Publish, CheckTarget, CreatePending, RecheckTarget, RenameRootMarker,
                      RenameWorkspaceMarker, RenameManifest, RenameEvent, RenameArtifact, Renaming
  <1>5. CASE HandleArtifact(p)
    BY <1>1, <1>5 DEF HandleArtifact, InspectArtifacts, FindArtifact, FindRemovable,
                      RemoveArtifact, Goto
  <1>6. CASE Refuse(p) \/ Return(p) \/ Abort(p)
    BY <1>1, <1>6 DEF Refuse, Return, Abort, Leave
  <1>7. QED
    BY <1>2, <1>3, <1>4, <1>5, <1>6 DEF ProcStep, Step

\* Every record and directory has one kind of step that changes it.
LEMMA FilesStay ==
  ASSUME NEW p \in Proc, ProcStep(p)
  PROVE  /\ made' = made \/ MakeRoot(p) \/ MakeWorkspace(p) \/ MakeTransaction(p)
         /\ marked' = marked \/ RenameRootMarker(p) \/ RenameWorkspaceMarker(p)
         /\ manifest' = manifest \/ RenameManifest(p)
         /\ journal' = journal \/ RenameEvent(p)
         /\ artifact' = artifact \/ RenameArtifact(p) \/ RemoveArtifact(p)
         /\ \/ pending' = pending
            \/ CreatePending(p)
            \/ pc[p] \in Publishing /\ Renaming(p, pc[p])
  <1>1. CASE Start(p)
    BY <1>1 DEF Start, Confirm, Invoke, files
  <1>2. CASE Prepare(p)
    BY <1>2 DEF Prepare, FindRoot, MakeRoot, FindWorkspace, MakeWorkspace, FindMarker,
                FindTransaction, MakeTransaction, OpenTransaction, ReadJournal, files
  <1>3. CASE Publish(p)
    <2>1. CASE CheckTarget(p) \/ RecheckTarget(p)
      BY <2>1 DEF CheckTarget, RecheckTarget, files
    <2>2. CASE CreatePending(p)
      BY <2>2 DEF CreatePending
    <2>3. CASE RenameRootMarker(p)
      BY <2>3 DEF RenameRootMarker, Renaming, Publishing
    <2>4. CASE RenameWorkspaceMarker(p)
      BY <2>4 DEF RenameWorkspaceMarker, Renaming, Publishing
    <2>5. CASE RenameManifest(p)
      BY <2>5 DEF RenameManifest, Renaming, Publishing
    <2>6. CASE RenameEvent(p)
      BY <2>6 DEF RenameEvent, Renaming, Publishing
    <2>7. CASE RenameArtifact(p)
      BY <2>7 DEF RenameArtifact, Renaming, Publishing
    <2>8. QED
      BY <1>3, <2>1, <2>2, <2>3, <2>4, <2>5, <2>6, <2>7 DEF Publish
  <1>4. CASE HandleArtifact(p)
    BY <1>4 DEF HandleArtifact, InspectArtifacts, FindArtifact, FindRemovable, RemoveArtifact, files
  <1>5. CASE Refuse(p) \/ Return(p) \/ Abort(p)
    BY <1>5 DEF Refuse, Return, Abort, Leave, files
  <1>6. QED
    BY <1>1, <1>2, <1>3, <1>4, <1>5 DEF ProcStep, Step

-----------------------------------------------------------------------------
(* Appending to the journal.                                               *)

\* A record is one transition longer than the one it follows.
LEMMA ExtendsLength ==
  ASSUME NEW prev \in Seq(Transition), NEW e, Extends(e, prev)
  PROVE  Len(e) = Len(prev) + 1 /\ e # <<>>
  <1>1. PICK x \in AllowedTransition : e = Append(prev, x)
    BY Zenon DEF Extends
  <1>2. x \in Transition
    BY <1>1 DEF AllowedTransition, Transition, TxState
  <1>3. Len(e) = Len(prev) + 1
    BY <1>1, <1>2
  <1>4. Len(prev) \in Nat /\ Len(<<>>) = 0
    OBVIOUS
  <1>5. QED
    BY <1>3, <1>4

\* A path grows with its state's rank until it is terminal.
LEMMA SuccessorRank ==
  ASSUME NEW s \in TxState \ Terminal, NEW c
  PROVE  /\ Rank(s) \in 0 .. 5
         /\ Rank(Successor(s, c)) = Rank(s) + 1
         /\ <<s, Successor(s, c)>> \in AllowedTransition
         /\ Successor(s, c) = "committing" <=> s = "staging" /\ c = "commit"
         /\ Successor(s, c) = "committed" <=> s = "committing"
         /\ Successor(s, c) = "recovery_required" <=> s = "staging" /\ c # "commit"
         /\ Successor(s, c) = "rolling_back" <=> s = "recovery_required"
         /\ Successor(s, c) = "rolled_back" <=> s = "rolling_back"
  <1>1. s \in {"proposed", "awaiting_confirmation", "ready", "staging", "committing",
               "recovery_required", "rolling_back"}
    BY DEF TxState, Terminal
  <1>2. CASE s = "proposed"
    BY <1>2 DEF Rank, Successor, AllowedTransition
  <1>3. CASE s = "awaiting_confirmation"
    BY <1>3 DEF Rank, Successor, AllowedTransition
  <1>4. CASE s = "ready"
    BY <1>4 DEF Rank, Successor, AllowedTransition
  <1>5. CASE s = "staging"
    BY <1>5 DEF Rank, Successor, AllowedTransition
  <1>6. CASE s = "committing"
    BY <1>6 DEF Rank, Successor, AllowedTransition
  <1>7. CASE s = "recovery_required"
    BY <1>7 DEF Rank, Successor, AllowedTransition
  <1>8. CASE s = "rolling_back"
    BY <1>8 DEF Rank, Successor, AllowedTransition
  <1>9. QED
    BY <1>1, <1>2, <1>3, <1>4, <1>5, <1>6, <1>7, <1>8

\* A process about to append knows a journal that is not complete, and the record
\* it writes extends it along the path of its operation.
LEMMA Appending ==
  ASSUME TypeOK, CommandInv, SeenInv, NEW p \in Proc, pc[p] = "append"
  PROVE  LET s == StateOf(seen[p])
             e == NextRecord(seen[p], job[p].cmd) IN
         /\ s \in TxState \ Terminal
         /\ Len(seen[p]) + 1 \in 1 .. LastSequence
         /\ e \in Seq(Transition) /\ e # <<>>
         /\ Len(e) = Len(seen[p]) + 1
         /\ PathInv(e, job[p].op)
         /\ Extends(e, seen[p])
         /\ StateOf(e) = Successor(s, job[p].cmd)
         /\ StateOf(e) = "committed" => s = "committing"
  <1> DEFINE s == StateOf(seen[p])
             c == job[p].cmd
             e == NextRecord(seen[p], c)
  <1>1. seen[p] \in Seq(Transition)
    BY DEF TypeOK
  <1>2. /\ c \in Command
        /\ c \in Operation => job[p].op = c
        /\ PathInv(seen[p], job[p].op)
        /\ PlaceFits("append", c, s)
    BY DEF CommandInv, CommandOK, SeenInv, SeenOK, Opened
  <1>3. /\ s \in TxState
        /\ e \in Seq(Transition) /\ e # <<>>
        /\ Len(e) = Len(seen[p]) + 1
        /\ StateOf(e) = Successor(s, c)
        /\ e = Append(seen[p], <<s, Successor(s, c)>>)
    BY <1>1, NextRecordFacts DEF NextRecord
  <1> HIDE DEF s, e
  <1>4. s \notin Terminal
    BY <1>2 DEF PlaceFits, Command, Operation, Recoverable, Terminal
  <1>5. s = "staging" => c \in Operation
    BY <1>2 DEF PlaceFits, Command, Operation, Recoverable
  <1>6. /\ Rank(s) \in 0 .. 5
        /\ Rank(Successor(s, c)) = Rank(s) + 1
        /\ <<s, Successor(s, c)>> \in AllowedTransition
        /\ Successor(s, c) = "committing" <=> s = "staging" /\ c = "commit"
        /\ Successor(s, c) = "committed" <=> s = "committing"
        /\ Successor(s, c) = "recovery_required" <=> s = "staging" /\ c # "commit"
        /\ Successor(s, c) = "rolling_back" <=> s = "recovery_required"
        /\ Successor(s, c) = "rolled_back" <=> s = "rolling_back"
    BY <1>3, <1>4, SuccessorRank
  <1>7. Len(seen[p]) = Rank(s)
    BY <1>2 DEF PathInv, s
  <1>8. Len(seen[p]) + 1 \in 1 .. LastSequence
    BY <1>6, <1>7 DEF LastSequence
  <1>9. PathInv(e, job[p].op)
    <2>1. Len(e) = Rank(StateOf(e))
      BY <1>3, <1>6, <1>7
    <2>2. /\ s \in {"committing", "committed"} => job[p].op = "commit"
          /\ s \in {"recovery_required", "rolling_back", "rolled_back"} => job[p].op = "interruption"
      BY <1>2 DEF PathInv, s
    <2>3. QED
      BY <1>2, <1>3, <1>5, <1>6, <2>1, <2>2 DEF PathInv, Operation
  <1>10. Extends(e, seen[p])
    <2>1. Successor(s, c) \in TxState
      BY DEF Successor, TxState
    <2>2. QED
      BY <1>3, <1>6, <2>1 DEF Extends, s
  <1>11. QED
    BY <1>3, <1>4, <1>6, <1>8, <1>9, <1>10 DEF s, e

-----------------------------------------------------------------------------
(* What is published stays.                                                *)

\* The rename of a record finds its target absent.
LEMMA TargetAbsent ==
  ASSUME PublishInv, NEW p \in Proc
  PROVE  /\ RenameManifest(p) => manifest[job[p].txn] = "none"
         /\ RenameEvent(p) => journal[job[p].txn][Len(seen[p]) + 1] = <<>>
         /\ RenameArtifact(p) => artifact[job[p].txn] = "none"
  <1>1. ASSUME NEW l \in Publishing, Renaming(p, l)
        PROVE  pc[p] = l /\ ~ TargetExists(p)
    BY <1>1 DEF PublishInv, Holding, Renaming
  <1>2. CASE RenameManifest(p)
    BY <1>1, <1>2 DEF RenameManifest, RenameEvent, RenameArtifact, Renaming, TargetExists, Publishing
  <1>3. CASE RenameEvent(p)
    BY <1>1, <1>3 DEF RenameManifest, RenameEvent, RenameArtifact, Renaming, TargetExists, Publishing
  <1>4. CASE RenameArtifact(p)
    BY <1>1, <1>4 DEF RenameManifest, RenameEvent, RenameArtifact, Renaming, TargetExists, Publishing
  <1>5. QED
    BY <1>2, <1>3, <1>4

\* A process removes an artifact only for an interruption it rolls back.
LEMMA RemovingInterruption ==
  ASSUME CommandInv, SeenInv, NEW p \in Proc, RemoveArtifact(p)
  PROVE  /\ job[p].op = "interruption" /\ manifest[job[p].txn] = "interruption"
         /\ StateOf(seen[p]) = "rolling_back"
         /\ seen[p] # <<>> /\ Len(seen[p]) = 5
         /\ journal[job[p].txn][Len(seen[p])] = seen[p]
  <1>1. pc[p] = "unlink"
    BY DEF RemoveArtifact
  <1>2. /\ PathInv(seen[p], job[p].op)
        /\ seen[p] # <<>> => journal[job[p].txn][Len(seen[p])] = seen[p]
        /\ PlaceFits(pc[p], job[p].cmd, StateOf(seen[p]))
        /\ job[p].op = manifest[job[p].txn]
    BY <1>1 DEF SeenInv, SeenOK, CommandInv, CommandOK, Opened
  <1>3. StateOf(seen[p]) = "rolling_back"
    BY <1>1, <1>2 DEF PlaceFits
  <1>4. seen[p] # <<>>
    BY <1>3 DEF StateOf
  <1>5. QED
    BY <1>2, <1>3, <1>4 DEF PathInv, Rank

\* Published records stay as they are; an artifact only ever goes away, and never
\* one of a commit.
LEMMA RecordsStay ==
  ASSUME TypeOK, PublishInv, CommandInv, SeenInv, NEW p \in Proc, ProcStep(p), NEW t \in Txn
  PROVE  /\ manifest[t] # "none" => manifest'[t] = manifest[t]
         /\ \A n \in 1 .. LastSequence : journal[t][n] # <<>> => journal'[t][n] = journal[t][n]
         /\ manifest[t] = "commit" /\ artifact[t] # "none" => artifact'[t] = artifact[t]
         /\ artifact[t] # "none" /\ artifact'[t] # artifact[t] =>
              artifact'[t] = "none" /\ RemoveArtifact(p) /\ job[p].txn = t
  <1>1. /\ manifest \in [Txn -> Operation \cup {"none"}]
        /\ journal \in [Txn -> [1 .. LastSequence -> Seq(Transition)]]
        /\ artifact \in [Txn -> Operation \cup {"none"}]
        /\ job[p].txn \in Txn
    BY DEF TypeOK
  <1>2. manifest[t] # "none" => manifest'[t] = manifest[t]
    BY <1>1, FilesStay, TargetAbsent DEF RenameManifest
  <1>3. ASSUME NEW n \in 1 .. LastSequence, journal[t][n] # <<>>
        PROVE  journal'[t][n] = journal[t][n]
    <2>1. CASE RenameEvent(p)
      <3>1. Len(seen[p]) + 1 \in 1 .. LastSequence
        BY <2>1, Appending DEF RenameEvent, Renaming
      <3>2. journal' = [journal EXCEPT ![job[p].txn][Len(seen[p]) + 1] =
                          NextRecord(seen[p], job[p].cmd)]
        BY <2>1 DEF RenameEvent
      <3>3. journal[job[p].txn][Len(seen[p]) + 1] = <<>>
        BY <2>1, TargetAbsent
      <3>4. QED
        BY <1>1, <1>3, <3>1, <3>2, <3>3
    <2>2. QED
      BY <2>1, FilesStay
  <1>4. /\ manifest[t] = "commit" /\ artifact[t] # "none" => artifact'[t] = artifact[t]
        /\ artifact[t] # "none" /\ artifact'[t] # artifact[t] =>
              artifact'[t] = "none" /\ RemoveArtifact(p) /\ job[p].txn = t
    <2>1. CASE RenameArtifact(p)
      BY <1>1, <2>1, TargetAbsent DEF RenameArtifact
    <2>2. CASE RemoveArtifact(p)
      BY <1>1, <2>2, RemovingInterruption DEF RemoveArtifact
    <2>3. QED
      BY <2>1, <2>2, FilesStay
  <1>5. QED
    BY <1>2, <1>3, <1>4

-----------------------------------------------------------------------------
(* CommandInv.                                                             *)

\* The process that moves still knows its command, its operation and whether it
\* has read the journal.
LEMMA CommandOwn ==
  ASSUME TypeOK, PublishInv, CommandInv, SeenInv, NEW p \in Proc, ProcStep(p)
  PROVE  CommandOK(p)'
  <1> DEFINE t == job[p].txn
  <1>1. /\ CommandOK(p)
        /\ pc[p] \in Location /\ t \in Txn
        /\ job[p] \in [cmd : Command \cup {"none"}, txn : Txn, op : Operation \cup {"none"}]
        /\ DOMAIN pc = Proc /\ DOMAIN job = Proc /\ DOMAIN seen = Proc
    BY DEF CommandInv, TypeOK
  <1>2. manifest[t] # "none" => manifest'[t] = manifest[t]
    BY <1>1, RecordsStay
  <1>3. manifest \in [Txn -> Operation \cup {"none"}]
    BY DEF TypeOK
  <1> USE DEF CommandOK, BeginOnly, NeverBegin, Opened, Unread
  <1>4. CASE Start(p)
    <2> HIDE DEF CommandOK, BeginOnly, NeverBegin, Opened, Unread
    <2>1. PICK u \in Txn, c \in Command, o \in Operation \cup {"none"} :
            /\ pc[p] = "idle"
            /\ c = "begin" => o \in Operation
            /\ job' = [job EXCEPT ![p] = [cmd |-> c, txn |-> u, op |-> o]]
            /\ pc' = [pc EXCEPT ![p] = "root"]
            /\ UNCHANGED <<files, pub, seen, aborts>>
      BY <1>4, StartEffect, Zenon
    <2>2. /\ job'[p] = [cmd |-> c, txn |-> u, op |-> o]
          /\ pc'[p] = "root" /\ seen'[p] = seen[p]
      BY <1>1, <2>1
    <2>3. QED
      BY <1>1, <2>1, <2>2 DEF CommandOK, BeginOnly, NeverBegin, Opened, Unread
  <1>5. CASE Prepare(p)
    <2>1. CASE FindRoot(p)
      BY <1>1, <2>1 DEF FindRoot, Goto, AfterRoot
    <2>2. CASE MakeRoot(p)
      BY <1>1, <2>2 DEF MakeRoot, Goto
    <2>3. CASE FindWorkspace(p)
      BY <1>1, <2>3 DEF FindWorkspace, Goto
    <2>4. CASE MakeWorkspace(p)
      BY <1>1, <2>4 DEF MakeWorkspace, Goto
    <2>5. CASE FindMarker(p)
      BY <1>1, <2>5 DEF FindMarker, Goto
    <2>6. CASE FindTransaction(p)
      BY <1>1, <2>6 DEF FindTransaction, Goto
    <2>7. CASE MakeTransaction(p)
      BY <1>1, <2>7 DEF MakeTransaction, Goto
    <2>8. CASE OpenTransaction(p)
      BY <1>1, <2>8 DEF OpenTransaction, CanOpen, OperationMatches, Command, Operation, files
    <2>9. CASE ReadJournal(p)
      <3>1. PICK n \in 0 .. LastSequence :
              /\ JournalAccepted(p, n)
              /\ pc' = [pc EXCEPT ![p] =
                          AfterRead(job[p].cmd, job[p].op, StateOf(LastRecord(job[p].txn, n)))]
        BY <2>9 DEF ReadJournal
      <3>2. pc'[p] \in {"append", "done", "inspect"}
        BY <1>1, <3>1 DEF JournalAccepted, AfterRead
      <3>3. pc[p] = "read" /\ job' = job /\ manifest' = manifest
        BY <2>9 DEF ReadJournal, files
      <3>4. QED
        BY <1>1, <3>2, <3>3
    <2>10. QED
      BY <1>5, <2>1, <2>2, <2>3, <2>4, <2>5, <2>6, <2>7, <2>8, <2>9 DEF Prepare
  <1>6. CASE Publish(p)
    <2>1. CASE CheckTarget(p) \/ CreatePending(p) \/ RecheckTarget(p)
      BY <1>1, <2>1 DEF CheckTarget, CreatePending, RecheckTarget, files
    <2>2. CASE RenameRootMarker(p)
      BY <1>1, <2>2 DEF RenameRootMarker, Renaming, AfterRoot
    <2>3. CASE RenameWorkspaceMarker(p)
      BY <1>1, <2>3 DEF RenameWorkspaceMarker, Renaming
    <2>4. CASE RenameManifest(p)
      BY <1>1, <1>3, <2>4 DEF RenameManifest, Renaming, Operation
    <2>5. CASE RenameEvent(p)
      <3> DEFINE s == StateOf(NextRecord(seen[p], job[p].cmd))
      <3>1. /\ pc[p] = "append" /\ pc'[p] = AfterAppend(s)
            /\ job' = job /\ manifest' = manifest
        BY <1>1, <2>5 DEF RenameEvent, Renaming
      <3>2. AfterAppend(s) \in {"append", "inspect", "done"}
        BY DEF AfterAppend
      <3>3. job[p].cmd = "begin" => AfterAppend(s) # "inspect"
        <4>1. /\ StateOf(seen[p]) \in TxState \ Terminal
              /\ s = Successor(StateOf(seen[p]), job[p].cmd)
          BY <3>1, Appending
        <4>2. PlaceFits("append", job[p].cmd, StateOf(seen[p]))
          BY <3>1 DEF SeenInv, SeenOK
        <4>3. QED
          BY <4>1, <4>2 DEF PlaceFits, Successor, AfterAppend, Recoverable
      <3> HIDE DEF s
      <3>4. QED
        BY <1>1, <3>1, <3>2, <3>3
    <2>6. CASE RenameArtifact(p)
      BY <1>1, <2>6 DEF RenameArtifact, Renaming, AfterArtifact
    <2>7. QED
      BY <1>6, <2>1, <2>2, <2>3, <2>4, <2>5, <2>6 DEF Publish
  <1>7. CASE HandleArtifact(p)
    BY <1>1, <1>7 DEF HandleArtifact, InspectArtifacts, FindArtifact, FindRemovable, RemoveArtifact,
                      Goto, AfterArtifact, files
  <1>8. CASE Refuse(p) \/ Return(p) \/ Abort(p)
    <2>1. pc'[p] = "idle" /\ seen'[p] = <<>> /\ job'[p] = NoJob
      BY <1>1, <1>8 DEF Refuse, Return, Abort, Leave
    <2>2. NoJob.cmd = "none"
      BY DEF NoJob
    <2>3. QED
      BY <2>1, <2>2
  <1>9. QED
    BY <1>4, <1>5, <1>6, <1>7, <1>8 DEF ProcStep, Step

\* Every process does.
LEMMA CommandStep ==
  ASSUME TypeOK, PublishInv, CommandInv, SeenInv, NEW p \in Proc, ProcStep(p)
  PROVE  CommandInv'
  <1> SUFFICES ASSUME NEW q \in Proc, q # p
               PROVE  CommandOK(q)'
    BY CommandOwn DEF CommandInv
  <1>1. pc'[q] = pc[q] /\ job'[q] = job[q] /\ seen'[q] = seen[q]
    BY OthersStay
  <1>2. CommandOK(q) /\ job[q].txn \in Txn
    BY DEF CommandInv, TypeOK
  <1>3. manifest[job[q].txn] # "none" => manifest'[job[q].txn] = manifest[job[q].txn]
    BY <1>2, RecordsStay
  <1>4. QED
    BY <1>1, <1>2, <1>3 DEF CommandOK

-----------------------------------------------------------------------------
(* PublishInv.                                                             *)

\* A process that holds a temporary file after its step held it before, or has
\* just created it.
LEMMA HoldingOwn ==
  ASSUME TypeOK, PublishInv, NEW p \in Proc, ProcStep(p)
  PROVE  /\ pc'[p] \notin Publishing => pub'[p] = "check"
         /\ Holding(p)' =>
              /\ pc'[p] = pc[p] /\ job'[p] = job[p] /\ seen'[p] = seen[p]
              /\ \/ CreatePending(p) /\ pub'[p] = "recheck"
                 \/ RecheckTarget(p) /\ Holding(p)
  <1>1. /\ pc[p] \in Location /\ pub[p] \in {"check", "stage", "recheck", "rename"}
        /\ DOMAIN pc = Proc /\ DOMAIN pub = Proc
        /\ pc[p] \notin Publishing => pub[p] = "check"
    BY DEF TypeOK, PublishInv
  <1> USE DEF Holding, Publishing
  <1>2. CASE Start(p)
    BY <1>1, <1>2 DEF Start, Confirm, Invoke
  <1>3. CASE Prepare(p)
    <2>1. pub' = pub /\ pc[p] \notin Publishing
      BY <1>3 DEF Prepare, FindRoot, MakeRoot, FindWorkspace, MakeWorkspace, FindMarker,
                  FindTransaction, MakeTransaction, OpenTransaction, ReadJournal, Goto
    <2>2. QED
      BY <1>1, <2>1
  <1>4. CASE Publish(p)
    <2>1. CASE CheckTarget(p)
      BY <1>1, <2>1 DEF CheckTarget
    <2>2. CASE CreatePending(p)
      BY <1>1, <2>2 DEF CreatePending
    <2>3. CASE RecheckTarget(p)
      BY <1>1, <2>3 DEF RecheckTarget
    <2>4. CASE RenameRootMarker(p) \/ RenameWorkspaceMarker(p) \/ RenameManifest(p)
                 \/ RenameEvent(p) \/ RenameArtifact(p)
      <3>1. pub'[p] = "check"
        BY <1>1, <2>4 DEF RenameRootMarker, RenameWorkspaceMarker, RenameManifest, RenameEvent,
                          RenameArtifact, Renaming
      <3>2. QED
        BY <3>1
    <2>5. QED
      BY <1>4, <2>1, <2>2, <2>3, <2>4 DEF Publish
  <1>5. CASE HandleArtifact(p)
    <2>1. pub' = pub /\ pc[p] \notin Publishing
      BY <1>5 DEF HandleArtifact, InspectArtifacts, FindArtifact, FindRemovable, RemoveArtifact, Goto
    <2>2. QED
      BY <1>1, <2>1
  <1>6. CASE Refuse(p) \/ Return(p) \/ Abort(p)
    BY <1>1, <1>6 DEF Refuse, Return, Abort, Leave
  <1>7. QED
    BY <1>2, <1>3, <1>4, <1>5, <1>6 DEF ProcStep, Step

\* A record that a step publishes is the target of that step's process, so it is
\* not the target of another process that is to rename.
LEMMA OthersTargetAbsent ==
  ASSUME TypeOK, PublishInv, CommandInv, SeenInv, NEW p \in Proc, ProcStep(p),
         NEW q \in Proc, q # p, Holding(q), pub[q] = "rename"
  PROVE  ~ TargetExists(q)'
  <1>1. /\ ~ TargetExists(q)
        /\ \A l \in Publishing : Renaming(p, l) => pc[p] = l /\ Target(p) # Target(q)
    BY DEF PublishInv, Renaming, Holding
  <1>2. pc'[q] = pc[q] /\ job'[q] = job[q] /\ seen'[q] = seen[q]
    BY OthersStay
  <1>3. /\ job[q].txn \in Txn /\ job[p].txn \in Txn /\ Root # Home[job[q].txn] /\ Root # Home[job[p].txn]
        /\ manifest \in [Txn -> Operation \cup {"none"}]
        /\ journal \in [Txn -> [1 .. LastSequence -> Seq(Transition)]]
        /\ artifact \in [Txn -> Operation \cup {"none"}]
    BY ConstantsAssumption DEF TypeOK
  <1>4. pc[q] \in Publishing
    BY DEF Holding
  <1>5. CASE pc[q] = "mark root"
    <2>1. RenameRootMarker(p) => FALSE
      BY <1>1, <1>5 DEF RenameRootMarker, Renaming, Target, Publishing
    <2>2. Root \notin marked'
      BY <1>1, <1>3, <1>5, <2>1, FilesStay DEF RenameWorkspaceMarker, TargetExists
    <2>3. QED
      BY <1>2, <1>5, <2>2 DEF TargetExists
  <1>6. CASE pc[q] = "mark workspace"
    <2>1. RenameWorkspaceMarker(p) => Home[job[p].txn] # Home[job[q].txn]
      BY <1>1, <1>6 DEF RenameWorkspaceMarker, Renaming, Target, Publishing
    <2>2. Home[job[q].txn] \notin marked'
      BY <1>1, <1>3, <1>6, <2>1, FilesStay DEF RenameRootMarker, RenameWorkspaceMarker, TargetExists
    <2>3. QED
      BY <1>2, <1>6, <2>2 DEF TargetExists
  <1>7. CASE pc[q] = "manifest"
    <2>1. RenameManifest(p) => job[p].txn # job[q].txn
      BY <1>1, <1>7 DEF RenameManifest, Renaming, Target, Publishing
    <2>2. manifest'[job[q].txn] = "none"
      BY <1>1, <1>3, <1>7, <2>1, FilesStay DEF RenameManifest, TargetExists
    <2>3. QED
      BY <1>2, <1>7, <2>2 DEF TargetExists
  <1>8. CASE pc[q] = "append"
    <2>1. Len(seen[q]) + 1 \in 1 .. LastSequence
      BY <1>8, Appending
    <2>2. journal[job[q].txn][Len(seen[q]) + 1] = <<>>
      BY <1>1, <1>8 DEF TargetExists
    <2>3. journal'[job[q].txn][Len(seen[q]) + 1] = <<>>
      <3>1. CASE RenameEvent(p)
        <4>1. pc[p] = "append" /\ Target(p) # Target(q)
          BY <1>1, <3>1 DEF RenameEvent, Publishing
        <4>2. job[p].txn # job[q].txn \/ Len(seen[p]) + 1 # Len(seen[q]) + 1
          BY <1>8, <4>1 DEF Target
        <4>3. Len(seen[p]) + 1 \in 1 .. LastSequence
          BY <4>1, Appending
        <4>4. journal' = [journal EXCEPT ![job[p].txn][Len(seen[p]) + 1] =
                            NextRecord(seen[p], job[p].cmd)]
          BY <3>1 DEF RenameEvent
        <4>5. QED
          BY <1>3, <2>1, <2>2, <4>2, <4>3, <4>4
      <3>2. QED
        BY <2>2, <3>1, FilesStay
    <2>4. QED
      BY <1>2, <1>8, <2>3 DEF TargetExists
  <1>9. CASE pc[q] = "place"
    <2>1. RenameArtifact(p) => job[p].txn # job[q].txn
      BY <1>1, <1>9 DEF RenameArtifact, Renaming, Target, Publishing
    <2>2. artifact'[job[q].txn] = "none"
      BY <1>1, <1>3, <1>9, <2>1, FilesStay DEF RenameArtifact, RemoveArtifact, TargetExists
    <2>3. QED
      BY <1>2, <1>9, <2>2 DEF TargetExists
  <1>10. QED
    BY <1>4, <1>5, <1>6, <1>7, <1>8, <1>9 DEF Publishing

\* Publication stays exclusive.
LEMMA PublishStep ==
  ASSUME TypeOK, PublishInv, CommandInv, SeenInv, NEW p \in Proc, ProcStep(p)
  PROVE  PublishInv'
  <1>1. \A q \in Proc : q # p => /\ pc'[q] = pc[q] /\ pub'[q] = pub[q]
                                 /\ job'[q] = job[q] /\ seen'[q] = seen[q]
    BY OthersStay
  <1>2. \A q \in Proc : q # p => (Holding(q)' <=> Holding(q)) /\ Target(q)' = Target(q)
    BY <1>1 DEF Holding, Target
  <1>3. Holding(p)' => /\ Target(p)' = Target(p)
                       /\ \/ CreatePending(p) /\ pub'[p] = "recheck"
                          \/ RecheckTarget(p) /\ Holding(p)
    BY HoldingOwn DEF Target
  <1>4. \A q \in Proc : pc'[q] \notin Publishing => pub'[q] = "check"
    BY <1>1, HoldingOwn DEF PublishInv
  <1>5. \A q \in Proc : Holding(q)' => Target(q)' \in pending'
    <2>1. ASSUME NEW q \in Proc, q # p, Holding(q)
          PROVE  Target(q) \in pending'
      <3>1. CASE pc[p] \in Publishing /\ Renaming(p, pc[p])
        <4>1. Holding(p) /\ pending' = pending \ {Target(p)}
          BY <3>1 DEF Holding, Renaming
        <4>2. Target(p) # Target(q) /\ Target(q) \in pending
          BY <2>1, <4>1 DEF PublishInv
        <4>3. QED
          BY <4>1, <4>2
      <3>2. QED
        BY <2>1, <3>1, FilesStay DEF PublishInv, CreatePending
    <2>2. ASSUME Holding(p)'
          PROVE  Target(p) \in pending'
      BY <1>3, <2>2 DEF PublishInv, CreatePending, RecheckTarget, files
    <2>3. QED
      BY <1>2, <1>3, <2>1, <2>2
  <1>6. \A q, r \in Proc : Holding(q)' /\ Holding(r)' /\ Target(q)' = Target(r)' => q = r
    <2>1. ASSUME NEW q \in Proc, q # p, Holding(q), Holding(p)'
          PROVE  Target(p) # Target(q)
      <3>1. Target(q) \in pending
        BY <2>1 DEF PublishInv
      <3>2. QED
        BY <1>3, <2>1, <3>1 DEF PublishInv, CreatePending
    <2>2. QED
      BY <1>2, <1>3, <2>1 DEF PublishInv
  <1>7. \A q \in Proc : Holding(q)' /\ pub'[q] = "rename" => ~ TargetExists(q)'
    <2>1. ASSUME NEW q \in Proc, q # p, Holding(q)', pub'[q] = "rename"
          PROVE  ~ TargetExists(q)'
      BY <1>1, <1>2, <2>1, OthersTargetAbsent
    <2>2. ASSUME Holding(p)', pub'[p] = "rename"
          PROVE  ~ TargetExists(p)'
      <3>1. RecheckTarget(p)
        BY <1>3, <2>2
      <3>2. ~ TargetExists(p) /\ UNCHANGED <<files, pc, job, seen>>
        BY <3>1 DEF RecheckTarget
      <3>3. QED
        BY <3>2 DEF TargetExists, files
    <2>3. QED
      BY <2>1, <2>2
  <1>8. QED
    BY <1>4, <1>5, <1>6, <1>7 DEF PublishInv

-----------------------------------------------------------------------------
(* SeenInv.                                                                *)

\* The rank of a state is the number of one of the records.
LEMMA RankRange == ASSUME NEW s
                   PROVE  Rank(s) \in 0 .. LastSequence
  BY DEF Rank, LastSequence

\* What the process that moves knows of the journal is still published, and it is
\* where that lets it be.
LEMMA SeenOwn ==
  ASSUME TypeOK, PublishInv, CommandInv, SeenInv, JournalInv, NEW p \in Proc, ProcStep(p)
  PROVE  SeenOK(p)'
  <1> DEFINE t == job[p].txn
             c == job[p].cmd
             s == StateOf(seen[p])
             Known == /\ PathInv(seen[p], job[p].op)
                      /\ seen[p] # <<>> => journal[t][Len(seen[p])] = seen[p]
  <1>1. /\ pc[p] \in Location /\ t \in Txn
        /\ DOMAIN pc = Proc /\ DOMAIN job = Proc /\ DOMAIN seen = Proc
        /\ job[p] \in [cmd : Command \cup {"none"}, txn : Txn, op : Operation \cup {"none"}]
        /\ artifact \in [Txn -> Operation \cup {"none"}]
        /\ seen[p] \in Seq(Transition)
    BY DEF TypeOK
  <1>2. /\ pc[p] # "idle" => c \in Command
        /\ pc[p] \in BeginOnly => c = "begin"
        /\ pc[p] \in NeverBegin => c # "begin"
        /\ pc[p] \in Opened => job[p].op = manifest[t]
        /\ pc[p] \in Opened /\ c \in Operation => job[p].op = c
        /\ pc[p] \in Unread => seen[p] = <<>>
    BY DEF CommandInv, CommandOK
  <1>3. pc[p] \in Opened =>
          /\ Known
          /\ PlaceFits(pc[p], c, s)
          /\ pc[p] = "append" /\ s = "committing" => artifact[t] = "commit"
    BY DEF SeenInv, SeenOK
  <1>4. \A o : PathInv(<<>>, o)
    BY EmptyPath DEF PathInv, Rank
  <1>5. ASSUME seen'[p] = seen[p], job'[p] = job[p], journal' = journal, Known,
               PlaceFits(pc'[p], c, s),
               pc'[p] = "append" /\ s = "committing" => artifact'[t] = "commit"
        PROVE  SeenOK(p)'
    BY <1>5 DEF SeenOK
  <1>6. ASSUME pc'[p] \notin Opened
        PROVE  SeenOK(p)'
    BY <1>6 DEF SeenOK
  <1> HIDE DEF Known
  <1>7. CASE Start(p)
    <2>1. pc'[p] = "root"
      BY <1>1, <1>7 DEF Start, Confirm, Invoke
    <2>2. QED
      BY <1>6, <2>1 DEF Opened
  <1>8. CASE Prepare(p)
    <2>1. CASE FindRoot(p) \/ MakeRoot(p) \/ FindWorkspace(p) \/ MakeWorkspace(p) \/ FindMarker(p)
                 \/ FindTransaction(p) \/ MakeTransaction(p)
      <3>1. pc'[p] \notin Opened
        BY <1>1, <2>1 DEF FindRoot, MakeRoot, FindWorkspace, MakeWorkspace, FindMarker,
                          FindTransaction, MakeTransaction, Goto, AfterRoot, Opened
      <3>2. QED
        BY <1>6, <3>1
    <2>2. CASE OpenTransaction(p)
      <3>1. seen'[p] = <<>> /\ pc'[p] = "read"
        BY <1>1, <1>2, <2>2 DEF OpenTransaction, Unread
      <3>2. QED
        BY <1>4, <3>1 DEF SeenOK, PlaceFits
    <2>3. CASE ReadJournal(p)
      <3>1. PICK n \in 0 .. LastSequence :
              /\ JournalAccepted(p, n)
              /\ seen' = [seen EXCEPT ![p] = LastRecord(t, n)]
              /\ pc' = [pc EXCEPT ![p] = AfterRead(c, job[p].op, StateOf(LastRecord(t, n)))]
        BY <2>3 DEF ReadJournal
      <3> DEFINE e == LastRecord(t, n)
      <3>2. /\ pc[p] = "read" /\ job' = job /\ journal' = journal
            /\ seen'[p] = e /\ pc'[p] = AfterRead(c, job[p].op, StateOf(e))
            /\ AfterRead(c, job[p].op, StateOf(e)) # "refuse"
        BY <1>1, <2>3, <3>1 DEF ReadJournal, files, JournalAccepted
      <3>3. n # 0
        <4>1. SUFFICES ASSUME n = 0
                       PROVE  FALSE
          OBVIOUS
        <4>2. StateOf(e) = "proposed"
          BY <4>1, EmptyPath DEF LastRecord
        <4> HIDE DEF e
        <4>3. QED
          BY <3>2, <4>2 DEF AfterRead, Terminal
      <3>4. n \in 1 .. LastSequence /\ e = journal[t][n]
        BY <3>3 DEF LastRecord, LastSequence
      <3>5. e # <<>>
        <4>1. JournalIs(t, n)
          BY <3>1 DEF JournalAccepted
        <4>2. Extends(e, IF n = 1 THEN <<>> ELSE journal[t][n - 1])
          BY <3>4, <4>1 DEF JournalIs
        <4>3. (IF n = 1 THEN <<>> ELSE journal[t][n - 1]) \in Seq(Transition)
          <5>1. n # 1 => n - 1 \in 1 .. LastSequence
            BY <3>4 DEF LastSequence
          <5>2. journal[t] \in [1 .. LastSequence -> Seq(Transition)]
            BY <1>1 DEF TypeOK
          <5>3. n # 1 => journal[t][n - 1] \in Seq(Transition)
            BY <5>1, <5>2
          <5>4. QED
            BY <5>3, EmptyPath
        <4> HIDE DEF e
        <4>4. QED
          BY <4>2, <4>3, ExtendsLength
      <3>6. Len(e) = n /\ PathInv(e, manifest[t])
        BY <1>1, <3>4, <3>5 DEF JournalInv, RecordOK
      <3> HIDE DEF e
      <3>7. c \in {"recover"} \cup Operation
        BY <1>2, <3>2 DEF Command, Operation, NeverBegin
      <3>8. /\ PlaceFits(pc'[p], c, StateOf(e))
            /\ pc'[p] = "append" => StateOf(e) # "committing"
        BY <3>2, <3>7 DEF PlaceFits, AfterRead, Operation, Recoverable
      <3>9. QED
        BY <1>2, <3>2, <3>4, <3>6, <3>8 DEF SeenOK, Opened
    <2>4. QED
      BY <1>8, <2>1, <2>2, <2>3 DEF Prepare
  <1>9. CASE Publish(p)
    <2>1. CASE CheckTarget(p) \/ CreatePending(p) \/ RecheckTarget(p)
      <3>1. UNCHANGED <<pc, job, seen, journal, artifact>>
        BY <2>1 DEF CheckTarget, CreatePending, RecheckTarget, files
      <3>2. QED
        BY <1>3, <1>5, <1>6, <3>1
    <2>2. CASE RenameRootMarker(p) \/ RenameWorkspaceMarker(p)
      <3>1. pc'[p] \notin Opened
        BY <1>1, <2>2 DEF RenameRootMarker, RenameWorkspaceMarker, Renaming, AfterRoot, Opened
      <3>2. QED
        BY <1>6, <3>1
    <2>3. CASE RenameManifest(p)
      <3>1. /\ seen'[p] = <<>> /\ pc'[p] = "append" /\ job'[p].cmd = "begin"
        BY <1>1, <1>2, <2>3 DEF RenameManifest, Renaming, Unread, BeginOnly
      <3>2. QED
        BY <1>4, <3>1, EmptyPath DEF SeenOK, PlaceFits, Operation
    <2>4. CASE RenameEvent(p)
      <3> DEFINE e == NextRecord(seen[p], c)
      <3>1. /\ pc[p] = "append" /\ job' = job
            /\ journal' = [journal EXCEPT ![t][Len(seen[p]) + 1] = e]
            /\ seen'[p] = e /\ pc'[p] = AfterAppend(StateOf(e))
        BY <1>1, <2>4 DEF RenameEvent, Renaming
      <3>2. /\ s \in TxState \ Terminal
            /\ Len(seen[p]) + 1 \in 1 .. LastSequence
            /\ Len(e) = Len(seen[p]) + 1
            /\ PathInv(e, job[p].op)
            /\ StateOf(e) = Successor(s, c)
        BY <3>1, Appending
      <3> HIDE DEF e, s
      <3>3. journal'[t][Len(e)] = e
        BY <1>1, <3>1, <3>2 DEF TypeOK
      <3>4. PlaceFits("append", c, s)
        BY <1>3, <3>1 DEF Opened
      <3>5. /\ PlaceFits(pc'[p], c, StateOf(e))
            /\ pc'[p] = "append" => StateOf(e) # "committing"
        <4>1. AfterAppend(StateOf(e)) = "append" => StateOf(e) \in {"awaiting_confirmation", "ready"}
          BY DEF AfterAppend
        <4>2. AfterAppend(StateOf(e)) = "inspect" => StateOf(e) \in Recoverable
          BY DEF AfterAppend
        <4>3. AfterAppend(StateOf(e)) \in {"append", "inspect", "done"}
          BY DEF AfterAppend
        <4>4. StateOf(e) \in {"awaiting_confirmation", "ready"} => s \in {"proposed", "awaiting_confirmation"}
          BY <3>2 DEF Successor, TxState, Terminal
        <4>5. s \in {"proposed", "awaiting_confirmation"} => c \notin {"recover"} \cup Operation
          BY <3>4 DEF PlaceFits, Operation, Recoverable
        <4>6. QED
          BY <3>1, <4>1, <4>2, <4>3, <4>4, <4>5 DEF PlaceFits
      <3>6. QED
        BY <3>1, <3>2, <3>3, <3>5 DEF SeenOK
    <2>5. CASE RenameArtifact(p)
      <3>1. /\ pc[p] = "place" /\ job' = job /\ seen' = seen /\ journal' = journal
            /\ artifact'[t] = job[p].op
            /\ pc'[p] = AfterArtifact(s)
        BY <1>1, <2>5 DEF RenameArtifact, Renaming
      <3>2. s \in {"committing", "recovery_required"} /\ Known
        BY <1>3, <3>1 DEF PlaceFits, Opened
      <3>3. s = "committing" => job[p].op = "commit"
        BY <3>2 DEF Known, PathInv
      <3>4. PlaceFits(pc'[p], c, s)
        BY <1>2, <3>1, <3>2 DEF PlaceFits, AfterArtifact, Recoverable, NeverBegin
      <3>5. QED
        BY <1>5, <3>1, <3>2, <3>3, <3>4
    <2>6. QED
      BY <1>9, <2>1, <2>2, <2>3, <2>4, <2>5 DEF Publish
  <1>10. CASE HandleArtifact(p)
    <2>1. /\ job' = job /\ seen' = seen /\ journal' = journal
          /\ pc[p] \in {"inspect", "artifact", "remove", "unlink"}
      BY <1>10 DEF HandleArtifact, InspectArtifacts, FindArtifact, FindRemovable, RemoveArtifact,
                   Goto, files
    <2>2. /\ Known
          /\ PlaceFits(pc[p], c, s)
          /\ s = "committing" => job[p].op = "commit"
          /\ c # "begin" /\ job[p].op # "none"
      BY <1>2, <1>3, <2>1 DEF Known, PathInv, Opened, NeverBegin, CommandInv, CommandOK
    <2> HIDE DEF s
    <2>3. /\ PlaceFits(pc'[p], c, s)
          /\ pc'[p] = "append" /\ s = "committing" => artifact'[t] = "commit"
      <3>1. CASE InspectArtifacts(p)
        BY <1>1, <2>2, <3>1 DEF InspectArtifacts, Goto, PlaceFits, Recoverable, s
      <3>2. CASE FindArtifact(p)
        BY <1>1, <2>2, <3>2 DEF FindArtifact, Goto, PlaceFits, Recoverable, AfterArtifact, files, s
      <3>3. CASE FindRemovable(p)
        BY <1>1, <2>2, <3>3 DEF FindRemovable, Goto, PlaceFits, Recoverable, AfterArtifact, s
      <3>4. CASE RemoveArtifact(p)
        BY <1>1, <2>2, <3>4 DEF RemoveArtifact, Goto, PlaceFits, Recoverable, AfterArtifact, s
      <3>5. QED
        BY <1>10, <3>1, <3>2, <3>3, <3>4 DEF HandleArtifact
    <2>4. QED
      BY <1>5, <2>1, <2>2, <2>3
  <1>11. CASE Refuse(p) \/ Return(p) \/ Abort(p)
    <2>1. pc'[p] = "idle"
      BY <1>1, <1>11 DEF Refuse, Return, Abort, Leave
    <2>2. QED
      BY <1>6, <2>1 DEF Opened
  <1>12. QED
    BY <1>7, <1>8, <1>9, <1>10, <1>11 DEF ProcStep, Step

\* So is what the other processes know.
LEMMA SeenStep ==
  ASSUME TypeOK, PublishInv, CommandInv, SeenInv, JournalInv, NEW p \in Proc, ProcStep(p)
  PROVE  SeenInv'
  <1> SUFFICES ASSUME NEW q \in Proc, q # p, pc[q] \in Opened
               PROVE  SeenOK(q)'
    BY SeenOwn, OthersStay DEF SeenInv, SeenOK
  <1>1. pc'[q] = pc[q] /\ job'[q] = job[q] /\ seen'[q] = seen[q]
    BY OthersStay
  <1>2. /\ SeenOK(q) /\ job[q].txn \in Txn /\ seen[q] \in Seq(Transition)
        /\ job[q].op = manifest[job[q].txn]
    BY DEF SeenInv, TypeOK, CommandInv, CommandOK
  <1>3. seen[q] # <<>> => journal'[job[q].txn][Len(seen[q])] = seen[q]
    <2>1. seen[q] # <<>> => Len(seen[q]) \in 1 .. LastSequence
      BY <1>2, RankRange DEF SeenOK, PathInv
    <2>2. QED
      BY <1>2, <2>1, RecordsStay DEF SeenOK
  <1>4. pc[q] = "append" /\ StateOf(seen[q]) = "committing" => artifact'[job[q].txn] = "commit"
    BY <1>2, RecordsStay DEF SeenOK, PathInv
  <1>5. QED
    BY <1>1, <1>2, <1>3, <1>4 DEF SeenOK

-----------------------------------------------------------------------------
(* JournalInv, SingleBeginner and TreeInv.                                 *)

\* Every record is one that fits its transaction, whatever was published since.
LEMMA JournalStep ==
  ASSUME TypeOK, PublishInv, CommandInv, SeenInv, JournalInv, NEW p \in Proc, ProcStep(p)
  PROVE  JournalInv'
  <1> SUFFICES ASSUME NEW t \in Txn, NEW n \in 1 .. LastSequence, journal'[t][n] # <<>>
               PROVE  RecordOK(t, n)'
    BY DEF JournalInv, RecordOK
  <1> DEFINE prev(j) == IF n = 1 THEN <<>> ELSE j[t][n - 1]
  <1>1. journal \in [Txn -> [1 .. LastSequence -> Seq(Transition)]] /\ job[p].txn \in Txn
        /\ seen[p] \in Seq(Transition)
    BY DEF TypeOK
  <1>2. CASE journal[t][n] # <<>>
    <2>1. /\ journal'[t][n] = journal[t][n]
          /\ manifest[t] # "none" /\ manifest'[t] = manifest[t]
          /\ RecordOK(t, n)
      BY <1>2, RecordsStay DEF JournalInv, RecordOK
    <2>2. StateOf(journal[t][n]) = "committed" => artifact'[t] = "commit"
      BY <1>2, <2>1, RecordsStay DEF RecordOK, PathInv
    <2>3. prev(journal') = prev(journal)
      <3>1. CASE n = 1
        BY <3>1
      <3>2. CASE n # 1
        <4>1. n - 1 \in 1 .. LastSequence
          BY <3>2 DEF LastSequence
        <4>2. Extends(journal[t][n], journal[t][n - 1]) /\ Len(journal[t][n]) = n
          BY <1>2, <2>1, <3>2 DEF RecordOK
        <4>3. journal[t][n - 1] \in Seq(Transition)
          BY <1>1, <4>1
        <4>4. Len(journal[t][n]) = Len(journal[t][n - 1]) + 1
          BY <4>2, <4>3, ExtendsLength
        <4>5. journal[t][n - 1] # <<>>
          BY <3>2, <4>2, <4>4
        <4>6. journal'[t][n - 1] = journal[t][n - 1]
          BY <4>1, <4>5, RecordsStay
        <4>7. QED
          BY <3>2, <4>6
      <3>3. QED
        BY <3>1, <3>2
    <2>4. QED
      BY <1>2, <2>1, <2>2, <2>3 DEF RecordOK
  <1>3. CASE journal[t][n] = <<>>
    <2> DEFINE e == NextRecord(seen[p], job[p].cmd)
    <2>1. RenameEvent(p)
      BY <1>3, FilesStay
    <2>2. /\ pc[p] = "append" /\ manifest' = manifest /\ artifact' = artifact
          /\ journal' = [journal EXCEPT ![job[p].txn][Len(seen[p]) + 1] = e]
      BY <2>1 DEF RenameEvent, Renaming
    <2>3. /\ Len(seen[p]) + 1 \in 1 .. LastSequence
          /\ e # <<>> /\ Len(e) = Len(seen[p]) + 1
          /\ PathInv(e, job[p].op) /\ Extends(e, seen[p])
          /\ StateOf(e) = "committed" => StateOf(seen[p]) = "committing"
      BY <2>2, Appending
    <2> HIDE DEF e
    <2>4. t = job[p].txn /\ n = Len(seen[p]) + 1 /\ journal'[t][n] = e
      BY <1>1, <1>3, <2>2, <2>3
    <2>5. /\ job[p].op = manifest[t] /\ manifest[t] # "none"
          /\ seen[p] # <<>> => journal[t][Len(seen[p])] = seen[p]
          /\ StateOf(seen[p]) = "committing" => artifact[t] = "commit"
      BY <2>2, <2>4 DEF CommandInv, CommandOK, SeenInv, SeenOK, Opened
    <2>6. prev(journal') = seen[p]
      <3>1. CASE n = 1
        BY <1>1, <2>4, <3>1
      <3>2. CASE n # 1
        <4>1. Len(seen[p]) \in 1 .. LastSequence /\ seen[p] # <<>> /\ n - 1 = Len(seen[p])
          <5> DEFINE m == Len(seen[p])
          <5>1. m \in Nat /\ n = m + 1
            BY <1>1, <2>4
          <5> HIDE DEF m
          <5>2. m \in 1 .. LastSequence /\ n - 1 = m
            BY <3>2, <5>1 DEF LastSequence
          <5> USE DEF m
          <5>3. seen[p] # <<>>
            BY <5>2, EmptyPath
          <5>4. QED
            BY <5>2, <5>3
        <4>2. journal'[t][n - 1] = seen[p]
          BY <1>1, <2>5, <4>1, RecordsStay
        <4>3. QED
          BY <3>2, <4>2
      <3>3. QED
        BY <3>1, <3>2
    <2>7. QED
      BY <2>2, <2>3, <2>4, <2>5, <2>6 DEF RecordOK
  <1>4. QED
    BY <1>2, <1>3

\* A second beginner of a transaction fails at the manifest.
LEMMA BeginnerStep ==
  ASSUME TypeOK, PublishInv, CommandInv, SeenInv, SingleBeginner, NEW p \in Proc, ProcStep(p)
  PROVE  SingleBeginner'
  <1> DEFINE Beginner(q) == pc[q] = "append" /\ job[q].cmd = "begin"
  <1>1. /\ pc[p] \in Location /\ DOMAIN pc = Proc /\ DOMAIN job = Proc
        /\ CommandOK(p)
    BY DEF TypeOK, CommandInv
  <1>2. ASSUME pc'[p] = "append", job'[p].cmd = "begin"
        PROVE  job'[p] = job[p] /\ (Beginner(p) \/ RenameManifest(p))
    <2>1. CASE Start(p)
      <3>1. pc'[p] = "root"
        BY <1>1, <2>1 DEF Start, Confirm, Invoke
      <3>2. QED
        BY <1>2, <3>1
    <2>2. CASE Prepare(p)
      <3>1. CASE ReadJournal(p)
        <4>1. job' = job /\ pc[p] = "read"
          BY <3>1 DEF ReadJournal
        <4>2. QED
          BY <1>1, <1>2, <4>1 DEF CommandOK, NeverBegin
      <3>2. CASE ~ ReadJournal(p)
        <4>1. pc'[p] # "append"
          BY <1>1, <2>2, <3>2 DEF Prepare, FindRoot, MakeRoot, FindWorkspace, MakeWorkspace,
               FindMarker, FindTransaction, MakeTransaction, OpenTransaction, Goto, AfterRoot
        <4>2. QED
          BY <1>2, <4>1
      <3>3. QED
        BY <3>1, <3>2
    <2>3. CASE Publish(p)
      <3>1. job' = job
        BY <2>3 DEF Publish, CheckTarget, CreatePending, RecheckTarget, RenameRootMarker,
                    RenameWorkspaceMarker, RenameManifest, RenameEvent, RenameArtifact
      <3>2. CASE CheckTarget(p) \/ CreatePending(p) \/ RecheckTarget(p)
        <4>1. pc' = pc
          BY <3>2 DEF CheckTarget, CreatePending, RecheckTarget
        <4>2. QED
          BY <1>2, <3>1, <4>1
      <3>3. CASE RenameRootMarker(p) \/ RenameWorkspaceMarker(p)
        <4>1. pc'[p] # "append"
          BY <1>1, <3>3 DEF RenameRootMarker, RenameWorkspaceMarker, Renaming, AfterRoot
        <4>2. QED
          BY <1>2, <4>1
      <3>4. CASE RenameEvent(p)
        <4>1. pc[p] = "append"
          BY <3>4 DEF RenameEvent, Renaming
        <4>2. QED
          BY <1>2, <3>1, <4>1
      <3>5. CASE RenameArtifact(p)
        <4>1. pc[p] = "place"
          BY <3>5 DEF RenameArtifact, Renaming
        <4>2. QED
          BY <1>1, <1>2, <3>1, <4>1 DEF CommandOK, NeverBegin
      <3>6. QED
        BY <2>3, <3>1, <3>2, <3>3, <3>4, <3>5 DEF Publish
    <2>4. CASE HandleArtifact(p)
      <3>1. job' = job /\ pc[p] \in NeverBegin
        BY <2>4 DEF HandleArtifact, InspectArtifacts, FindArtifact, FindRemovable, RemoveArtifact,
                    Goto, NeverBegin
      <3>2. QED
        BY <1>1, <1>2, <3>1 DEF CommandOK, NeverBegin
    <2>5. CASE Refuse(p) \/ Return(p) \/ Abort(p)
      <3>1. pc'[p] = "idle"
        BY <1>1, <2>5 DEF Refuse, Return, Abort, Leave
      <3>2. QED
        BY <1>2, <3>1
    <2>6. QED
      BY <2>1, <2>2, <2>3, <2>4, <2>5 DEF ProcStep, Step
  <1>3. ASSUME NEW q \in Proc, q # p, Beginner(q), pc'[p] = "append", job'[p].cmd = "begin",
               job[q].txn = job'[p].txn
        PROVE  FALSE
    <2>1. CASE Beginner(p)
      BY <1>2, <1>3, <2>1 DEF SingleBeginner
    <2>2. CASE RenameManifest(p)
      <3>1. manifest[job[p].txn] = "none"
        BY <2>2, TargetAbsent
      <3>2. manifest[job[q].txn] # "none"
        BY <1>3 DEF CommandInv, CommandOK, Opened
      <3>3. QED
        BY <1>2, <1>3, <3>1, <3>2
    <2>3. QED
      BY <1>2, <1>3, <2>1, <2>2
  <1>4. QED
    BY <1>3, OthersStay DEF SingleBeginner

\* Nothing appears below a directory that is not marked.
LEMMA TreeStep ==
  ASSUME TypeOK, PublishInv, CommandInv, SeenInv, TreeInv, NEW p \in Proc, ProcStep(p)
  PROVE  TreeInv'
  <1> DEFINE t == job[p].txn
             Below(l) == l \notin {"idle", "root", "make root", "mark root", "done"}
             Filling(l) == l \in {"transaction", "make transaction", "manifest"}
  <1>1. /\ pc[p] \in Location /\ DOMAIN pc = Proc /\ t \in Txn /\ Home[t] \in Workspace
        /\ Root \notin Workspace \cup Txn /\ Workspace \cap Txn = {}
    BY ConstantsAssumption DEF TypeOK
  <1>2. marked \subseteq marked'
    BY FilesStay DEF RenameRootMarker, RenameWorkspaceMarker
  <1>3. Below(pc[p]) => Root \in marked
    BY DEF TreeInv
  <1>4. Filling(pc[p]) => Home[t] \in marked
    BY DEF TreeInv
  <1>5. OwnedTree'
    <2>1. CASE made' = made
      BY <1>2, <2>1 DEF TreeInv, OwnedTree
    <2>2. CASE MakeRoot(p)
      BY <1>1, <1>2, <2>2 DEF MakeRoot, TreeInv, OwnedTree
    <2>3. CASE MakeWorkspace(p)
      BY <1>1, <1>2, <1>3, <2>3 DEF MakeWorkspace, TreeInv, OwnedTree
    <2>4. CASE MakeTransaction(p)
      BY <1>1, <1>2, <1>3, <1>4, <2>4 DEF MakeTransaction, TreeInv, OwnedTree
    <2>5. QED
      BY <2>1, <2>2, <2>3, <2>4, FilesStay
  <1>6. /\ Below(pc'[p]) => Root \in marked'
        /\ Filling(pc'[p]) => Home[job'[p].txn] \in marked'
    <2>1. CASE Start(p)
      <3>1. pc'[p] = "root"
        BY <1>1, <2>1 DEF Start, Confirm, Invoke
      <3>2. QED
        BY <3>1
    <2>2. CASE FindRoot(p)
      BY <1>1, <2>2 DEF FindRoot, Goto, AfterRoot, files
    <2>3. CASE MakeRoot(p)
      BY <1>1, <2>3 DEF MakeRoot, Goto
    <2>4. CASE FindWorkspace(p) \/ MakeWorkspace(p) \/ FindMarker(p)
      BY <1>1, <1>2, <1>3, <2>4 DEF FindWorkspace, MakeWorkspace, FindMarker, Goto, files
    <2>5. CASE FindTransaction(p) \/ MakeTransaction(p)
      BY <1>1, <1>2, <1>3, <1>4, <2>5 DEF FindTransaction, MakeTransaction, Goto, files
    <2>6. CASE OpenTransaction(p)
      BY <1>1, <1>2, <1>3, <2>6 DEF OpenTransaction, files
    <2>7. CASE ReadJournal(p)
      <3>1. pc[p] = "read" /\ pc'[p] \in {"append", "done", "inspect"}
        BY <1>1, <2>7 DEF ReadJournal, JournalAccepted, AfterRead
      <3>2. QED
        BY <1>2, <1>3, <3>1
    <2>8. CASE CheckTarget(p) \/ CreatePending(p) \/ RecheckTarget(p)
      BY <1>2, <1>3, <1>4, <2>8 DEF CheckTarget, CreatePending, RecheckTarget
    <2>9. CASE RenameRootMarker(p)
      BY <1>1, <2>9 DEF RenameRootMarker, Renaming, AfterRoot
    <2>10. CASE RenameWorkspaceMarker(p)
      BY <1>1, <1>3, <2>10 DEF RenameWorkspaceMarker, Renaming
    <2>11. CASE RenameManifest(p)
      BY <1>1, <1>3, <2>11 DEF RenameManifest, Renaming
    <2>12. CASE RenameEvent(p)
      <3>1. pc[p] = "append" /\ pc'[p] \in {"append", "inspect", "done"}
        BY <1>1, <2>12 DEF RenameEvent, Renaming, AfterAppend
      <3>2. QED
        BY <1>2, <1>3, <3>1
    <2>13. CASE RenameArtifact(p) \/ HandleArtifact(p)
      <3>1. /\ pc[p] \in {"place", "inspect", "artifact", "remove", "unlink"}
            /\ ~ Filling(pc'[p])
        BY <1>1, <2>13 DEF RenameArtifact, Renaming, HandleArtifact, InspectArtifacts, FindArtifact,
                           FindRemovable, RemoveArtifact, Goto, AfterArtifact
      <3>2. QED
        BY <1>2, <1>3, <3>1
    <2>14. CASE Refuse(p) \/ Return(p) \/ Abort(p)
      <3>1. pc'[p] = "idle"
        BY <1>1, <2>14 DEF Refuse, Return, Abort, Leave
      <3>2. QED
        BY <3>1
    <2>15. QED
      BY <2>1, <2>2, <2>3, <2>4, <2>5, <2>6, <2>7, <2>8, <2>9, <2>10, <2>11, <2>12, <2>13, <2>14
         DEF ProcStep, Step, Prepare, Publish
  <1>7. QED
    BY <1>2, <1>5, <1>6, OthersStay DEF TreeInv

-----------------------------------------------------------------------------
(* The invariant.                                                          *)

\* The invariant holds of the empty directory tree with idle processes.
LEMMA InitInvariant == Init => IInv
  <1> SUFFICES ASSUME Init
               PROVE  IInv
    OBVIOUS
  <1>1. TypeOK
    BY NoJobType, EmptyPath, ConstantsAssumption DEF Init, TypeOK, Location
  <1>2. \A p \in Proc : pc[p] = "idle" /\ pub[p] = "check" /\ seen[p] = <<>> /\ job[p] = NoJob
    BY DEF Init
  <1>3. NoJob.cmd = "none"
    BY DEF NoJob
  <1>4. PublishInv
    BY <1>2 DEF PublishInv, Holding
  <1>5. CommandInv
    BY <1>2, <1>3 DEF CommandInv, CommandOK, BeginOnly, NeverBegin, Opened
  <1>6. SeenInv
    BY <1>2 DEF SeenInv, SeenOK, Opened
  <1>7. JournalInv
    BY DEF Init, JournalInv, RecordOK
  <1>8. SingleBeginner
    BY <1>2 DEF SingleBeginner
  <1>9. TreeInv
    BY <1>2 DEF Init, TreeInv, OwnedTree
  <1>10. QED
    BY <1>1, <1>4, <1>5, <1>6, <1>7, <1>8, <1>9 DEF IInv

\* Every step keeps it.
LEMMA InvariantStep == IInv /\ [Next]_vars => IInv'
  <1> SUFFICES ASSUME IInv, [Next]_vars
               PROVE  IInv'
    OBVIOUS
  <1>1. CASE UNCHANGED vars
    <2> USE <1>1 DEF vars
    <2>1. TypeOK'
      BY DEF IInv, TypeOK
    <2>2. PublishInv'
      BY DEF IInv, PublishInv, Holding, Target, TargetExists
    <2>3. CommandInv'
      BY DEF IInv, CommandInv, CommandOK
    <2>4. SeenInv'
      BY DEF IInv, SeenInv, SeenOK
    <2>5. JournalInv'
      BY DEF IInv, JournalInv, RecordOK
    <2>6. SingleBeginner'
      BY DEF IInv, SingleBeginner
    <2>7. TreeInv'
      BY DEF IInv, TreeInv, OwnedTree
    <2>8. QED
      BY <2>1, <2>2, <2>3, <2>4, <2>5, <2>6, <2>7 DEF IInv
  <1>2. ASSUME NEW p \in Proc, ProcStep(p)
        PROVE  IInv'
    <2>1. TypeOK'
      BY TypeStep DEF IInv
    <2>2. PublishInv' /\ CommandInv' /\ SeenInv' /\ JournalInv' /\ SingleBeginner' /\ TreeInv'
      BY <1>2, PublishStep, CommandStep, SeenStep, JournalStep, BeginnerStep, TreeStep DEF IInv
    <2>3. QED
      BY <2>1, <2>2 DEF IInv
  <1>3. QED
    BY <1>1, <1>2 DEF Next, ProcStep

\* The inductive invariant holds of every behaviour.
THEOREM Invariance == Spec => []IInv
  BY InitInvariant, InvariantStep, PTL DEF Spec

-----------------------------------------------------------------------------
(* The safety properties.                                                  *)

\* A transaction follows the path of the operation that its manifest binds, even
\* when two processes confirm it with different operations at the same time.
THEOREM OperationBoundHolds == Spec => []OperationBound
  <1>1. IInv => OperationBound
    BY DEF IInv, JournalInv, RecordOK, PathInv, OperationBound, Reached
  <1>2. QED
    BY <1>1, Invariance, PTL

\* The journal claims committed only while the manifest binds a commit and its
\* artifact is in place.
THEOREM CommittedHasArtifactHolds == Spec => []CommittedHasArtifact
  <1>1. IInv => CommittedHasArtifact
    BY DEF IInv, JournalInv, RecordOK, PathInv, CommittedHasArtifact, Reached
  <1>2. QED
    BY <1>1, Invariance, PTL

\* At most one process writes the opening records of a transaction, although
\* two may have created its directory.
THEOREM SingleBeginnerHolds == Spec => []SingleBeginner
  <1>1. IInv => SingleBeginner
    BY DEF IInv
  <1>2. QED
    BY <1>1, Invariance, PTL

\* Nothing is put below a root or workspace without ownership record.
THEOREM OwnedTreeHolds == Spec => []OwnedTree
  <1>1. IInv => OwnedTree
    BY DEF IInv, TreeInv
  <1>2. QED
    BY <1>1, Invariance, PTL

\* A record that is there has its predecessors.
LEMMA Predecessor ==
  ASSUME TypeOK, JournalInv, NEW t \in Txn, NEW n \in 2 .. LastSequence, journal[t][n] # <<>>
  PROVE  journal[t][n - 1] # <<>>
  <1>1. n \in 1 .. LastSequence /\ n - 1 \in 1 .. LastSequence /\ n # 1
    BY DEF LastSequence
  <1>2. journal[t][n - 1] \in Seq(Transition)
    <2>1. journal[t] \in [1 .. LastSequence -> Seq(Transition)]
      BY DEF TypeOK
    <2>2. QED
      BY <1>1, <2>1
  <1>3. Len(journal[t][n]) = n /\ Extends(journal[t][n], journal[t][n - 1])
    BY <1>1 DEF JournalInv, RecordOK
  <1>4. Len(journal[t][n]) = Len(journal[t][n - 1]) + 1
    BY <1>2, <1>3, ExtendsLength
  <1>5. QED
    BY <1>1, <1>3, <1>4, EmptyPath

\* The records that are there are the first ones.
LEMMA JournalLength ==
  ASSUME TypeOK, JournalInv, NEW t \in Txn
  PROVE  \E n \in 0 .. LastSequence : \A i \in 1 .. LastSequence : journal[t][i] # <<>> <=> i <= n
  <1> DEFINE There(i) == journal[t][i] # <<>>
  <1>1. /\ There(2) => There(1)
        /\ There(3) => There(2)
        /\ There(4) => There(3)
        /\ There(5) => There(4)
        /\ There(6) => There(5)
    BY Predecessor DEF LastSequence
  <1> HIDE DEF There
  <1>2. \E n \in 0 .. LastSequence : \A i \in 1 .. LastSequence : There(i) <=> i <= n
    <2> USE <1>1 DEF LastSequence
    <2>1. CASE ~ There(1)
      BY <2>1
    <2>2. CASE There(1) /\ ~ There(2)
      BY <2>2
    <2>3. CASE There(2) /\ ~ There(3)
      BY <2>3
    <2>4. CASE There(3) /\ ~ There(4)
      BY <2>4
    <2>5. CASE There(4) /\ ~ There(5)
      BY <2>5
    <2>6. CASE There(5) /\ ~ There(6)
      BY <2>6
    <2>7. CASE There(6)
      BY <2>7
    <2>8. QED
      BY <2>1, <2>2, <2>3, <2>4, <2>5, <2>6, <2>7
  <1>3. QED
    BY <1>2 DEF There

\* The journal of a transaction is always one that read_journal accepts, unless
\* it finds an unpublished record: no gap, no fork, no broken chain.
THEOREM JournalChainHolds == Spec => []JournalChain
  <1>1. IInv => JournalChain
    <2> SUFFICES ASSUME TypeOK, JournalInv, NEW t \in Txn
                 PROVE  \E n \in 0 .. LastSequence : JournalIs(t, n)
      BY DEF IInv, JournalChain
    <2>1. PICK n \in 0 .. LastSequence : \A i \in 1 .. LastSequence : journal[t][i] # <<>> <=> i <= n
      BY JournalLength
    <2>2. ASSUME NEW i \in 1 .. LastSequence, ~ (i > n)
          PROVE  Extends(journal[t][i], IF i = 1 THEN <<>> ELSE journal[t][i - 1])
      <3>1. journal[t][i] # <<>>
        BY <2>1, <2>2
      <3>2. QED
        BY <3>1 DEF JournalInv, RecordOK
    <2>3. ASSUME NEW i \in 1 .. LastSequence, i > n
          PROVE  journal[t][i] = <<>>
      BY <2>1, <2>3
    <2>4. QED
      BY <2>2, <2>3 DEF JournalIs
  <1>2. QED
    BY <1>1, Invariance, PTL

\* No step replaces or removes a published manifest or journal record, and only
\* the rollback of an interruption removes an artifact.
THEOREM RecordsImmutableHolds == Spec => RecordsImmutable
  <1> DEFINE Kept ==
        \A t \in Txn :
          /\ manifest[t] # "none" => manifest'[t] = manifest[t]
          /\ \A n \in 1 .. LastSequence : journal[t][n] # <<>> => journal'[t][n] = journal[t][n]
          /\ artifact[t] # "none" /\ artifact'[t] # artifact[t] =>
               /\ artifact'[t] = "none"
               /\ manifest[t] = "interruption" /\ Reached(t, "rolling_back")
  <1>1. IInv /\ [Next]_vars => [Kept]_vars
    <2> SUFFICES ASSUME IInv, NEW p \in Proc, ProcStep(p), NEW t \in Txn
                 PROVE  /\ manifest[t] # "none" => manifest'[t] = manifest[t]
                        /\ \A n \in 1 .. LastSequence :
                             journal[t][n] # <<>> => journal'[t][n] = journal[t][n]
                        /\ artifact[t] # "none" /\ artifact'[t] # artifact[t] =>
                             /\ artifact'[t] = "none"
                             /\ manifest[t] = "interruption" /\ Reached(t, "rolling_back")
      BY DEF Next, ProcStep
    <2>1. RemoveArtifact(p) /\ job[p].txn = t =>
            manifest[t] = "interruption" /\ Reached(t, "rolling_back")
      <3> SUFFICES ASSUME RemoveArtifact(p), job[p].txn = t
                   PROVE  manifest[t] = "interruption" /\ Reached(t, "rolling_back")
        OBVIOUS
      <3>1. /\ manifest[t] = "interruption" /\ StateOf(seen[p]) = "rolling_back"
            /\ seen[p] # <<>> /\ Len(seen[p]) = 5 /\ journal[t][Len(seen[p])] = seen[p]
        BY RemovingInterruption DEF IInv
      <3>2. 5 \in 1 .. LastSequence
        BY DEF LastSequence
      <3>3. QED
        BY <3>1, <3>2 DEF Reached
    <2>2. QED
      BY <2>1, RecordsStay DEF IInv
  <1>2. QED
    BY <1>1, Invariance, PTL DEF Spec, RecordsImmutable

\* A process comes to initialise a directory only by finding it absent.
LEMMA InitialisingAbsent ==
  ASSUME TypeOK, NEW p \in Proc, ProcStep(p), NEW d \in {Root} \cup Workspace, Initialising(p, d)'
  PROVE  Initialising(p, d) \/ d \notin made
  <1>1. /\ pc[p] \in Location /\ DOMAIN pc = Proc /\ DOMAIN job = Proc
        /\ Home[job[p].txn] \in Workspace /\ Root \notin Workspace
    BY ConstantsAssumption DEF TypeOK
  <1>2. \/ d = Root /\ pc'[p] \in {"make root", "mark root"}
        \/ d = Home[job'[p].txn] /\ pc'[p] \in {"make workspace", "marker", "mark workspace"}
    BY DEF Initialising
  <1>3. CASE Start(p) \/ FindTransaction(p) \/ MakeTransaction(p) \/ OpenTransaction(p)
             \/ ReadJournal(p) \/ HandleArtifact(p) \/ Refuse(p) \/ Return(p) \/ Abort(p)
    <2>1. pc'[p] \notin {"make root", "mark root", "make workspace", "marker", "mark workspace"}
      <3>1. CASE Start(p)
        BY <1>1, <3>1 DEF Start, Confirm, Invoke
      <3>2. CASE FindTransaction(p) \/ MakeTransaction(p) \/ OpenTransaction(p)
        BY <1>1, <3>2 DEF FindTransaction, MakeTransaction, OpenTransaction, Goto
      <3>3. CASE ReadJournal(p)
        BY <1>1, <3>3 DEF ReadJournal, JournalAccepted, AfterRead
      <3>4. CASE HandleArtifact(p)
        BY <1>1, <3>4 DEF HandleArtifact, InspectArtifacts, FindArtifact, FindRemovable,
                          RemoveArtifact, Goto, AfterArtifact
      <3>5. CASE Refuse(p) \/ Return(p) \/ Abort(p)
        BY <1>1, <3>5 DEF Refuse, Return, Abort, Leave
      <3>6. QED
        BY <1>3, <3>1, <3>2, <3>3, <3>4, <3>5
    <2>2. QED
      BY <1>2, <2>1
  <1>4. CASE FindRoot(p) \/ MakeRoot(p)
    BY <1>1, <1>2, <1>4 DEF FindRoot, MakeRoot, Goto, AfterRoot, Initialising
  <1>5. CASE FindWorkspace(p) \/ MakeWorkspace(p) \/ FindMarker(p)
    BY <1>1, <1>2, <1>5 DEF FindWorkspace, MakeWorkspace, FindMarker, Goto, Initialising
  <1>6. CASE CheckTarget(p) \/ CreatePending(p) \/ RecheckTarget(p)
    <2>1. pc' = pc /\ job' = job
      BY <1>6 DEF CheckTarget, CreatePending, RecheckTarget
    <2>2. QED
      BY <1>2, <2>1 DEF Initialising
  <1>7. CASE RenameRootMarker(p) \/ RenameWorkspaceMarker(p) \/ RenameManifest(p)
             \/ RenameEvent(p) \/ RenameArtifact(p)
    <2>1. pc'[p] \notin {"make root", "mark root", "make workspace", "marker", "mark workspace"}
      BY <1>1, <1>7 DEF RenameRootMarker, RenameWorkspaceMarker, RenameManifest, RenameEvent,
                        RenameArtifact, Renaming, AfterRoot, AfterAppend, AfterArtifact
    <2>2. QED
      BY <1>2, <2>1
  <1>8. QED
    BY <1>3, <1>4, <1>5, <1>6, <1>7 DEF ProcStep, Step, Prepare, Publish

\* A root or workspace whose creator stopped before marking it is never adopted.
THEOREM OrphansStayHolds == Spec => OrphansStay
  <1> DEFINE Stays == \A d \in {Root} \cup Workspace : Orphan(d) => Orphan(d)'
  <1>1. IInv /\ [Next]_vars => [Stays]_vars
    <2> SUFFICES ASSUME IInv, NEW p \in Proc, ProcStep(p),
                        NEW d \in {Root} \cup Workspace, Orphan(d)
                 PROVE  Orphan(d)'
      BY DEF Next, ProcStep
    <2>1. TypeOK /\ d \in made /\ d \notin marked /\ \A q \in Proc : ~ Initialising(q, d)
      BY DEF IInv, Orphan
    <2>2. Home[job[p].txn] \in Workspace /\ Root \notin Workspace
      BY <2>1, ConstantsAssumption DEF TypeOK
    <2>3. d \in made'
      BY <2>1, FilesStay DEF MakeRoot, MakeWorkspace, MakeTransaction
    <2>4. d \notin marked'
      <3>1. CASE RenameRootMarker(p)
        BY <2>1, <2>2, <3>1 DEF RenameRootMarker, Renaming, Initialising
      <3>2. CASE RenameWorkspaceMarker(p)
        BY <2>1, <2>2, <3>2 DEF RenameWorkspaceMarker, Renaming, Initialising
      <3>3. QED
        BY <2>1, <3>1, <3>2, FilesStay
    <2>5. ASSUME NEW q \in Proc
          PROVE  ~ Initialising(q, d)'
      <3>1. CASE q = p
        BY <2>1, <3>1, InitialisingAbsent
      <3>2. CASE q # p
        <4>1. pc'[q] = pc[q] /\ job'[q] = job[q]
          BY <2>1, <3>2, OthersStay
        <4>2. QED
          BY <2>1, <4>1 DEF Initialising
      <3>3. QED
        BY <3>1, <3>2
    <2>6. QED
      BY <2>3, <2>4, <2>5 DEF Orphan
  <1>2. QED
    BY <1>1, Invariance, PTL DEF Spec, OrphansStay

=============================================================================
