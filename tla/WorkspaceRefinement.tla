------------------------- MODULE WorkspaceRefinement -------------------------
(***************************************************************************)
(* Desktop applications on a controlled directory implement the abstract   *)
(* transaction protocol as long as no two are at work on one transaction,  *)
(* for any number of applications, of transactions and of crashes: each    *)
(* effect on the files is a step of the protocol or invisible to it.       *)
(***************************************************************************)
EXTENDS WorkspaceSafety

(* The journal has no record that the application does not know of.        *)
Current(p) ==
  pc[p] \in Working =>
    \A n \in 1 .. LastSequence : n > Len(seen[p]) => journal[job[p].txn][n] = <<>>

(* The artifact is gone by the time that rolled_back is recorded.          *)
Removed(p) ==
  pc[p] = "append" /\ StateOf(seen[p]) = "rolling_back" => artifact[job[p].txn] = "none"

ApartInv == (\A p \in Proc : Current(p) /\ Removed(p)) /\ RolledBackIsClean

-----------------------------------------------------------------------------
(* What a command knows while nobody else works on its transaction.        *)

LEMMA Types ==
  ASSUME TypeOK, NEW p \in Proc
  PROVE  /\ manifest \in [Txn -> Operation \cup {"none"}]
         /\ journal \in [Txn -> [1 .. LastSequence -> Seq(Transition)]]
         /\ artifact \in [Txn -> Operation \cup {"none"}]
         /\ DOMAIN pc = Proc /\ DOMAIN job = Proc /\ DOMAIN seen = Proc
         /\ job[p].txn \in Txn /\ seen[p] \in Seq(Transition)
         /\ pc[p] \in Location
  BY DEF TypeOK

(* A step that keeps to what the command has read.                         *)
LEMMA KeepsWorking ==
  ASSUME TypeOK, NEW p \in Proc, Current(p), UNCHANGED journal,
         seen'[p] = seen[p], job'[p] = job[p], pc'[p] \in Working => pc[p] \in Working
  PROVE  Current(p)'
  BY DEF Current

LEMMA ReadingCurrent ==
  ASSUME TypeOK, JournalInv, NEW p \in Proc, ReadJournal(p)
  PROVE  Current(p)'
  <1>1. PICK n \in 0 .. LastSequence :
          JournalIs(job[p].txn, n) /\ seen' = [seen EXCEPT ![p] = LastRecord(job[p].txn, n)]
    BY DEF ReadJournal, JournalAccepted
  <1>2. journal' = journal /\ job' = job
    BY DEF ReadJournal, files
  <1>3. \A i \in 1 .. LastSequence : i > n => journal[job[p].txn][i] = <<>>
    BY <1>1 DEF JournalIs
  <1>4. Len(LastRecord(job[p].txn, n)) = n
    <2>1. CASE n = 0
      BY <2>1, EmptyPath DEF LastRecord
    <2>2. CASE n # 0
      <3>1. n \in 1 .. LastSequence /\ ~ (n > n)
        BY <2>2 DEF LastSequence
      <3>2. Extends(journal[job[p].txn][n], IF n = 1 THEN <<>> ELSE journal[job[p].txn][n - 1])
        BY <1>1, <3>1 DEF JournalIs
      <3>3. (IF n = 1 THEN <<>> ELSE journal[job[p].txn][n - 1]) \in Seq(Transition)
        <4>1. CASE n = 1
          BY <4>1, EmptyPath
        <4>2. CASE n # 1
          <5>1. n - 1 \in 1 .. LastSequence
            BY <3>1, <4>2 DEF LastSequence
          <5>2. journal[job[p].txn][n - 1] \in Seq(Transition)
            BY <5>1, Types
          <5>3. QED
            BY <4>2, <5>2
        <4>3. QED
          BY <4>1, <4>2
      <3>4. journal[job[p].txn][n] # <<>>
        BY <3>2, <3>3, ExtendsLength
      <3>5. QED
        BY <2>2, <3>1, <3>4, Types DEF JournalInv, RecordOK, LastRecord
    <2>3. QED
      BY <2>1, <2>2
  <1>5. seen'[p] = LastRecord(job[p].txn, n)
    BY <1>1, Types
  <1>6. QED
    BY <1>2, <1>3, <1>4, <1>5 DEF Current

LEMMA BeginningCurrent ==
  ASSUME TypeOK, PublishInv, CommandInv, JournalInv, NEW p \in Proc, RenameManifest(p)
  PROVE  Current(p)'
  <1>1. manifest[job[p].txn] = "none"
    BY TargetAbsent
  <1>2. \A n \in 1 .. LastSequence : journal[job[p].txn][n] = <<>>
    BY <1>1, Types DEF JournalInv, RecordOK
  <1>3. UNCHANGED <<journal, job>>
    BY DEF RenameManifest
  <1>4. QED
    BY <1>2, <1>3 DEF Current

LEMMA AppendingCurrent ==
  ASSUME TypeOK, CommandInv, SeenInv, NEW p \in Proc, Current(p), RenameEvent(p)
  PROVE  Current(p)'
  <1> DEFINE e == NextRecord(seen[p], job[p].cmd)
             t == job[p].txn
             k == Len(seen[p]) + 1
  <1>1. /\ pc[p] = "append" /\ journal' = [journal EXCEPT ![t][k] = e]
        /\ seen' = [seen EXCEPT ![p] = e] /\ job' = job
    BY DEF RenameEvent, Renaming
  <1>2. Len(e) = k /\ k \in 1 .. LastSequence
    BY <1>1, Appending
  <1>3. Len(seen[p]) \in Nat
    BY Types
  <1> HIDE DEF e
  <1>4. ASSUME NEW n \in 1 .. LastSequence, n > k
        PROVE  journal'[t][n] = <<>>
    <2>1. n > Len(seen[p])
      BY <1>3, <1>4 DEF LastSequence
    <2>2. journal[t][n] = <<>>
      BY <1>1, <2>1 DEF Current, Working, Opened
    <2>3. n # k
      BY <1>2, <1>4 DEF LastSequence
    <2>4. QED
      BY <1>1, <2>2, <2>3, Types
  <1>5. seen'[p] = e
    BY <1>1, Types
  <1>6. QED
    BY <1>1, <1>2, <1>4, <1>5 DEF Current

LEMMA CurrentStep ==
  ASSUME IInv, NEW p \in Proc, Current(p), ProcStep(p)
  PROVE  Current(p)'
  <1>1. TypeOK /\ PublishInv /\ CommandInv /\ SeenInv /\ JournalInv
    BY DEF IInv
  <1>2. CASE ReadJournal(p) \/ RenameManifest(p) \/ RenameEvent(p)
    BY <1>1, <1>2, ReadingCurrent, BeginningCurrent, AppendingCurrent
  <1>3. CASE Start(p) \/ FindRoot(p) \/ MakeRoot(p) \/ FindWorkspace(p) \/ MakeWorkspace(p)
             \/ FindMarker(p) \/ FindTransaction(p) \/ MakeTransaction(p) \/ OpenTransaction(p)
             \/ RenameRootMarker(p) \/ RenameWorkspaceMarker(p) \/ Refuse(p) \/ Return(p) \/ Abort(p)
    <2>1. pc'[p] \notin Working
      <3>1. CASE Start(p) \/ OpenTransaction(p)
        BY <1>1, <3>1, Types DEF Start, Confirm, Invoke, OpenTransaction, Working, Opened
      <3>2. CASE FindRoot(p) \/ MakeRoot(p) \/ FindWorkspace(p) \/ MakeWorkspace(p)
                 \/ FindMarker(p) \/ FindTransaction(p) \/ MakeTransaction(p)
        BY <1>1, <3>2, Types DEF FindRoot, MakeRoot, FindWorkspace, MakeWorkspace, FindMarker,
             FindTransaction, MakeTransaction, Goto, AfterRoot, Working, Opened
      <3>3. CASE RenameRootMarker(p) \/ RenameWorkspaceMarker(p)
        BY <1>1, <3>3, Types DEF RenameRootMarker, RenameWorkspaceMarker, AfterRoot, Working, Opened
      <3>4. CASE Refuse(p) \/ Return(p) \/ Abort(p)
        BY <1>1, <3>4, Types DEF Refuse, Return, Abort, Leave, Working, Opened
      <3>5. QED
        BY <1>3, <3>1, <3>2, <3>3, <3>4
    <2>2. QED
      BY <2>1 DEF Current
  <1>4. CASE CheckTarget(p) \/ CreatePending(p) \/ RecheckTarget(p)
    BY <1>1, <1>4, KeepsWorking DEF CheckTarget, CreatePending, RecheckTarget, files
  <1>5. CASE RenameArtifact(p) \/ HandleArtifact(p)
    <2>1. pc[p] \in Working /\ UNCHANGED <<journal, seen, job>>
      BY <1>5 DEF RenameArtifact, Renaming, HandleArtifact, InspectArtifacts, FindArtifact,
                  FindRemovable, RemoveArtifact, Goto, files, Working, Opened
    <2>2. QED
      BY <1>1, <2>1, KeepsWorking
  <1>6. QED
    BY <1>2, <1>3, <1>4, <1>5 DEF ProcStep, Step, Prepare, Publish

-----------------------------------------------------------------------------
(* The artifact of a rolled-back transaction.                              *)

LEMMA RemovedStep ==
  ASSUME IInv, NEW p \in Proc, Removed(p), ProcStep(p)
  PROVE  Removed(p)'
  <1> SUFFICES ASSUME pc'[p] = "append", StateOf(seen'[p]) = "rolling_back"
               PROVE  artifact'[job'[p].txn] = "none"
    BY DEF Removed
  <1>1. TypeOK /\ PublishInv /\ CommandInv /\ SeenInv /\ JournalInv
    BY DEF IInv
  <1>2. CASE CheckTarget(p) \/ CreatePending(p) \/ RecheckTarget(p)
    <2>1. UNCHANGED <<pc, seen, job, artifact>>
      BY <1>2 DEF CheckTarget, CreatePending, RecheckTarget, files
    <2>2. QED
      BY <2>1 DEF Removed
  <1>3. CASE RemoveArtifact(p)
    BY <1>1, <1>3, Types DEF RemoveArtifact, Goto
  <1>4. CASE FindRemovable(p)
    <2>1. /\ UNCHANGED <<seen, job, artifact>> /\ pc[p] = "remove"
          /\ pc'[p] = IF artifact[job[p].txn] = "none" THEN AfterArtifact(StateOf(seen[p])) ELSE "unlink"
      BY <1>1, <1>4, Types DEF FindRemovable, Goto, files
    <2>2. QED
      BY <2>1
  <1>5. CASE RenameArtifact(p) \/ FindArtifact(p) \/ InspectArtifacts(p)
    <2>1. pc[p] \in {"place", "artifact", "inspect"} /\ seen' = seen
      BY <1>5 DEF RenameArtifact, Renaming, FindArtifact, InspectArtifacts, Goto
    <2>2. pc[p] # "inspect" => StateOf(seen[p]) # "rolling_back"
      BY <1>1, <2>1 DEF SeenInv, SeenOK, Opened, PlaceFits
    <2>3. ~ InspectArtifacts(p)
      BY <1>1, Types DEF InspectArtifacts, Goto
    <2>4. QED
      BY <1>5, <2>1, <2>2, <2>3 DEF RenameArtifact, Renaming, FindArtifact
  <1>6. CASE RenameEvent(p)
    <2>1. pc'[p] = AfterAppend(StateOf(seen'[p]))
      BY <1>1, <1>6, Types DEF RenameEvent
    <2>2. QED
      BY <2>1 DEF AfterAppend, Recoverable
  <1>7. CASE ReadJournal(p)
    <2>1. PICK n \in 0 .. LastSequence :
            /\ seen'[p] = LastRecord(job[p].txn, n)
            /\ pc'[p] = AfterRead(job[p].cmd, job[p].op, StateOf(LastRecord(job[p].txn, n)))
      BY <1>1, <1>7, Types DEF ReadJournal
    <2>2. QED
      BY <2>1 DEF AfterRead, Terminal
  <1>8. CASE RenameManifest(p)
    <2>1. pc[p] = "manifest" /\ seen' = seen
      BY <1>8 DEF RenameManifest, Renaming
    <2>2. seen[p] = <<>>
      BY <1>1, <2>1 DEF CommandInv, CommandOK, Unread
    <2>3. QED
      BY <2>1, <2>2, EmptyPath
  <1>9. CASE Start(p) \/ FindRoot(p) \/ MakeRoot(p) \/ FindWorkspace(p) \/ MakeWorkspace(p)
             \/ FindMarker(p) \/ FindTransaction(p) \/ MakeTransaction(p) \/ OpenTransaction(p)
             \/ RenameRootMarker(p) \/ RenameWorkspaceMarker(p) \/ Refuse(p) \/ Return(p) \/ Abort(p)
    <2>1. CASE Start(p) \/ OpenTransaction(p)
      BY <1>1, <2>1, Types DEF Start, Confirm, Invoke, OpenTransaction
    <2>2. CASE FindRoot(p) \/ MakeRoot(p) \/ FindWorkspace(p) \/ MakeWorkspace(p)
               \/ FindMarker(p) \/ FindTransaction(p) \/ MakeTransaction(p)
      BY <1>1, <2>2, Types DEF FindRoot, MakeRoot, FindWorkspace, MakeWorkspace, FindMarker,
           FindTransaction, MakeTransaction, Goto, AfterRoot
    <2>3. CASE RenameRootMarker(p) \/ RenameWorkspaceMarker(p)
      BY <1>1, <2>3, Types DEF RenameRootMarker, RenameWorkspaceMarker, AfterRoot
    <2>4. CASE Refuse(p) \/ Return(p) \/ Abort(p)
      BY <1>1, <2>4, Types DEF Refuse, Return, Abort, Leave
    <2>5. QED
      BY <1>9, <2>1, <2>2, <2>3, <2>4
  <1>10. QED
    BY <1>2, <1>3, <1>4, <1>5, <1>6, <1>7, <1>8, <1>9
       DEF ProcStep, Step, Prepare, Publish, HandleArtifact

(* A command that knows the whole journal knows the state it has reached.  *)
LEMMA NotRolledBack ==
  ASSUME IInv, NEW p \in Proc, Current(p), pc[p] \in Working, StateOf(seen[p]) # "rolled_back"
  PROVE  ~ Reached(job[p].txn, "rolled_back")
  <1> SUFFICES ASSUME NEW n \in 1 .. LastSequence, journal[job[p].txn][n] # <<>>,
                      StateOf(journal[job[p].txn][n]) = "rolled_back"
               PROVE  FALSE
    BY DEF Reached
  <1>1. TypeOK /\ SeenInv /\ JournalInv
    BY DEF IInv
  <1>2. n = 6
    <2>1. job[p].txn \in Txn
      BY <1>1, Types
    <2>2. Len(journal[job[p].txn][n]) = n /\ Len(journal[job[p].txn][n]) = Rank("rolled_back")
      BY <1>1, <2>1 DEF JournalInv, RecordOK, PathInv
    <2>3. QED
      BY <2>2 DEF Rank
  <1>3. /\ Len(seen[p]) = Rank(StateOf(seen[p]))
        /\ seen[p] # <<>> => journal[job[p].txn][Len(seen[p])] = seen[p]
    BY <1>1 DEF SeenInv, SeenOK, PathInv, Working, Opened
  <1>4. ~ (n > Len(seen[p]))
    BY DEF Current
  <1>5. Len(seen[p]) = 6
    BY <1>2, <1>3, <1>4 DEF Rank
  <1>6. seen[p] = journal[job[p].txn][n]
    BY <1>2, <1>3, <1>5, EmptyPath
  <1>7. QED
    BY <1>6

LEMMA CleanStep ==
  ASSUME IInv, NEW p \in Proc, Current(p), Removed(p), RolledBackIsClean, ProcStep(p)
  PROVE  RolledBackIsClean'
  <1> SUFFICES ASSUME NEW t \in Txn, Reached(t, "rolled_back")'
               PROVE  artifact'[t] = "none"
    BY DEF RolledBackIsClean
  <1>1. TypeOK /\ PublishInv /\ CommandInv /\ SeenInv /\ JournalInv
    BY DEF IInv
  <1>2. CASE RenameArtifact(p)
    <2>1. pc[p] = "place" /\ journal' = journal
      BY <1>2 DEF RenameArtifact, Renaming
    <2>2. StateOf(seen[p]) # "rolled_back" /\ pc[p] \in Working
      BY <1>1, <2>1 DEF SeenInv, SeenOK, Opened, PlaceFits, Working
    <2>3. t # job[p].txn
      BY <2>1, <2>2, NotRolledBack DEF Reached
    <2>4. artifact'[t] = artifact[t]
      BY <1>1, <1>2, <2>3, Types DEF RenameArtifact
    <2>5. QED
      BY <2>1, <2>4 DEF Reached, RolledBackIsClean
  <1>3. CASE RemoveArtifact(p)
    <2>1. artifact'[t] \in {artifact[t], "none"} /\ journal' = journal
      BY <1>1, <1>3, Types DEF RemoveArtifact
    <2>2. QED
      BY <2>1 DEF Reached, RolledBackIsClean
  <1>4. CASE RenameEvent(p)
    <2> DEFINE e == NextRecord(seen[p], job[p].cmd)
               k == Len(seen[p]) + 1
    <2>1. pc[p] = "append" /\ artifact' = artifact /\ journal' = [journal EXCEPT ![job[p].txn][k] = e]
      BY <1>4 DEF RenameEvent, Renaming
    <2>2. /\ StateOf(e) = Successor(StateOf(seen[p]), job[p].cmd)
          /\ StateOf(seen[p]) \in TxState \ Terminal
      BY <1>1, <2>1, Appending
    <2>3. StateOf(e) = "rolled_back" => StateOf(seen[p]) = "rolling_back"
      <3> DEFINE from == StateOf(seen[p])
      <3>1. from \in TxState \ Terminal
        BY <2>2
      <3> HIDE DEF from
      <3>2. \A c : Successor(from, c) = "rolled_back" => from = "rolling_back"
        BY <3>1, SuccessorRank
      <3>3. QED
        BY <2>2, <3>2 DEF from
    <2> HIDE DEF e
    <2>4. Reached(t, "rolled_back") \/ (t = job[p].txn /\ StateOf(e) = "rolled_back")
      <3>1. PICK n \in 1 .. LastSequence :
              journal'[t][n] # <<>> /\ StateOf(journal'[t][n]) = "rolled_back"
        BY DEF Reached
      <3>2. CASE t = job[p].txn /\ n = k
        <4>1. journal'[t][k] = e
          BY <1>1, <2>1, <3>2, Types
        <4>2. QED
          BY <3>1, <3>2, <4>1
      <3>3. CASE ~ (t = job[p].txn /\ n = k)
        <4>1. journal'[t][n] = journal[t][n]
          BY <1>1, <2>1, <3>3, Types
        <4>2. QED
          BY <3>1, <4>1 DEF Reached
      <3>4. QED
        BY <3>2, <3>3
    <2>5. QED
      BY <2>1, <2>3, <2>4 DEF Removed, RolledBackIsClean
  <1>5. CASE UNCHANGED <<journal, artifact>>
    BY <1>5 DEF Reached, RolledBackIsClean
  <1>6. QED
    BY <1>2, <1>3, <1>4, <1>5, FilesStay

-----------------------------------------------------------------------------
(* Applications that keep apart.                                           *)

LEMMA ApartInit == Init => ApartInv
  BY DEF Init, ApartInv, Current, Removed, Working, RolledBackIsClean, Reached

(* What others do leaves a command what it knows of its transaction.       *)
LEMMA OthersCurrent ==
  ASSUME IInv, Separate, NEW p \in Proc, NEW q \in Proc, p # q, ProcStep(p), Current(q)
  PROVE  Current(q)'
  <1>1. TypeOK /\ CommandInv /\ SeenInv
    BY DEF IInv
  <1>2. pc'[q] = pc[q] /\ job'[q] = job[q] /\ seen'[q] = seen[q]
    BY <1>1, OthersStay
  <1>3. CASE RenameEvent(p) /\ pc[q] \in Working
    <2>1. pc[p] = "append" /\ \E n, e : journal' = [journal EXCEPT ![job[p].txn][n] = e]
      BY <1>3 DEF RenameEvent, Renaming
    <2>2. job[p].txn # job[q].txn
      BY <1>3, <2>1 DEF Separate, Working
    <2>3. journal'[job[q].txn] = journal[job[q].txn]
      BY <1>1, <2>1, <2>2, Types
    <2>4. QED
      BY <1>2, <2>3 DEF Current
  <1>4. CASE journal' = journal
    BY <1>2, <1>4 DEF Current
  <1>5. CASE pc[q] \notin Working
    BY <1>2, <1>5 DEF Current
  <1>6. QED
    BY <1>3, <1>4, <1>5, FilesStay

LEMMA OthersRemoved ==
  ASSUME IInv, Separate, NEW p \in Proc, NEW q \in Proc, p # q, ProcStep(p), Removed(q)
  PROVE  Removed(q)'
  <1> SUFFICES ASSUME pc'[q] = "append", StateOf(seen'[q]) = "rolling_back"
               PROVE  artifact'[job'[q].txn] = "none"
    BY DEF Removed
  <1>1. TypeOK
    BY DEF IInv
  <1>2. pc'[q] = pc[q] /\ job'[q] = job[q] /\ seen'[q] = seen[q]
    BY <1>1, OthersStay
  <1>3. artifact[job[q].txn] = "none"
    BY <1>2 DEF Removed
  <1>4. CASE RenameArtifact(p)
    <2>1. pc[p] = "place" /\ artifact' = [artifact EXCEPT ![job[p].txn] = job[p].op]
      BY <1>4 DEF RenameArtifact, Renaming
    <2>2. job[p].txn # job[q].txn
      BY <1>2, <2>1 DEF Separate, Working
    <2>3. QED
      BY <1>1, <1>2, <1>3, <2>1, <2>2, Types
  <1>5. CASE RemoveArtifact(p)
    <2>1. artifact' = [artifact EXCEPT ![job[p].txn] = "none"]
      BY <1>5 DEF RemoveArtifact
    <2>2. QED
      BY <1>1, <1>2, <1>3, <2>1, Types
  <1>6. CASE artifact' = artifact
    BY <1>2, <1>3, <1>6
  <1>7. QED
    BY <1>4, <1>5, <1>6, FilesStay

LEMMA ApartStep ==
  ASSUME IInv, Separate, ApartInv, [Next]_vars
  PROVE  ApartInv'
  <1>1. CASE Next
    <2>1. PICK p \in Proc : ProcStep(p)
      BY <1>1 DEF Next, ProcStep
    <2>2. \A q \in Proc : Current(q) /\ Removed(q)
      BY DEF ApartInv
    <2>3. ASSUME NEW q \in Proc PROVE Current(q)' /\ Removed(q)'
      <3>1. CASE q = p
        BY <2>1, <2>2, <3>1, CurrentStep, RemovedStep
      <3>2. CASE q # p
        BY <2>1, <2>2, <3>2, OthersCurrent, OthersRemoved
      <3>3. QED
        BY <3>1, <3>2
    <2>4. RolledBackIsClean'
      BY <2>1, <2>2, CleanStep DEF ApartInv
    <2>5. QED
      BY <2>3, <2>4 DEF ApartInv
  <1>2. CASE UNCHANGED vars
    BY <1>2 DEF vars, ApartInv, Current, Removed, RolledBackIsClean, Reached
  <1>3. QED
    BY <1>1, <1>2

LEMMA SeparateInvariance == SeparateSpec => Spec /\ [](IInv /\ Separate /\ ApartInv)
  <1>1. Init => Separate
    BY DEF Init, Separate, Working
  <1>2. Separate /\ [Next /\ Separate']_vars => Separate'
    BY DEF vars, Separate
  <1>3. IInv /\ Separate /\ ApartInv /\ [Next]_vars => ApartInv'
    BY ApartStep
  <1>4. [Next /\ Separate']_vars => [Next]_vars
    OBVIOUS
  <1>5. QED
    BY <1>1, <1>2, <1>3, <1>4, ApartInit, Invariance, PTL DEF Spec, SeparateSpec

(* One application keeps apart by itself.                                  *)
LEMMA LoneIsSeparate ==
  ASSUME NEW a, Proc = {a}
  PROVE  Spec => SeparateSpec
  <1>1. [Next]_vars => [Next /\ Separate']_vars
    BY DEF Separate
  <1>2. QED
    BY <1>1, PTL DEF Spec, SeparateSpec

\* While no two applications are at work on one transaction, a transaction that the
\* journal shows as rolled back has lost its artifact, wherever they died.
THEOREM RolledBackIsCleanHolds == SeparateSpec => []RolledBackIsClean
  <1>1. ApartInv => RolledBackIsClean
    BY DEF ApartInv
  <1>2. QED
    BY <1>1, SeparateInvariance, PTL

-----------------------------------------------------------------------------
(* The state that a journal shows.                                         *)

(* That of the record read last, for the journal j of one transaction.     *)
Shown(j) ==
  LET n == CHOOSE n \in 0 .. LastSequence : \A i \in 1 .. LastSequence : j[i] # <<>> <=> i <= n
  IN  StateOf(IF n = 0 THEN <<>> ELSE j[n])

LEMMA ShownState ==
  ASSUME NEW j, NEW n \in 0 .. LastSequence, \A i \in 1 .. LastSequence : j[i] # <<>> <=> i <= n
  PROVE  Shown(j) = StateOf(IF n = 0 THEN <<>> ELSE j[n])
  <1> DEFINE P(m) == \A i \in 1 .. LastSequence : j[i] # <<>> <=> i <= m
             k == CHOOSE m \in 0 .. LastSequence : P(m)
  <1>1. k \in 0 .. LastSequence /\ P(k)
    OBVIOUS
  <1> HIDE DEF k
  <1>2. k = n
    <2>1. CASE k < n
      <3>1. n \in 1 .. LastSequence /\ ~ (n <= k)
        BY <1>1, <2>1 DEF LastSequence
      <3>2. QED
        BY <1>1, <3>1 DEF LastSequence
    <2>2. CASE n < k
      <3>1. k \in 1 .. LastSequence /\ ~ (k <= n)
        BY <1>1, <2>2 DEF LastSequence
      <3>2. QED
        BY <1>1, <3>1 DEF LastSequence
    <2>3. QED
      BY <1>1, <2>1, <2>2 DEF LastSequence
  <1>3. Shown(j) = StateOf(IF k = 0 THEN <<>> ELSE j[k])
    BY DEF Shown, k
  <1>4. QED
    BY <1>2, <1>3

LEMMA JournalShows ==
  ASSUME NEW t
  PROVE  JournalState(t) = Shown(journal[t]) /\ JournalState(t)' = Shown(journal'[t])
  <1>1. JournalState(t) = Shown(journal[t])
    BY DEF JournalState, LastRecord, Shown
  <1>2. JournalState(t)' = Shown(journal'[t])
    BY DEF JournalState, LastRecord, Shown
  <1>3. QED
    BY <1>1, <1>2

(* What the application knows of a transaction is what its journal shows.  *)
LEMMA KnownLength ==
  ASSUME IInv, NEW p \in Proc, Current(p), pc[p] \in Working
  PROVE  /\ Len(seen[p]) \in 0 .. LastSequence
         /\ \A i \in 1 .. LastSequence : journal[job[p].txn][i] # <<>> <=> i <= Len(seen[p])
         /\ Len(seen[p]) = 0 <=> seen[p] = <<>>
         /\ seen[p] # <<>> => journal[job[p].txn][Len(seen[p])] = seen[p]
  <1> DEFINE m == Len(seen[p])
             j == journal[job[p].txn]
  <1>1. TypeOK /\ JournalInv /\ job[p].txn \in Txn /\ seen[p] \in Seq(Transition)
    BY Types DEF IInv
  <1>2. m = Rank(StateOf(seen[p])) /\ (seen[p] # <<>> => j[m] = seen[p])
    BY DEF IInv, SeenInv, SeenOK, PathInv, Working, Opened
  <1>3. m \in 0 .. LastSequence
    BY <1>2 DEF Rank, LastSequence
  <1>4. m = 0 <=> seen[p] = <<>>
    BY <1>1
  <1>5. PICK n \in 0 .. LastSequence : \A i \in 1 .. LastSequence : j[i] # <<>> <=> i <= n
    BY <1>1, JournalLength
  <1>6. \A i \in 1 .. LastSequence : i > m => j[i] = <<>>
    BY DEF Current
  <1> HIDE DEF m, j
  <1>7. n = m
    <2>1. ~ (n > m)
      <3>1. n > m => n \in 1 .. LastSequence
        BY <1>3 DEF LastSequence
      <3>2. QED
        BY <1>5, <1>6, <3>1 DEF LastSequence
    <2>2. ~ (m > n)
      <3>1. m > n => m \in 1 .. LastSequence /\ m # 0
        BY <1>3 DEF LastSequence
      <3>2. m > n => j[m] # <<>>
        BY <1>2, <1>4, <3>1
      <3>3. QED
        BY <1>3, <1>5, <3>1, <3>2 DEF LastSequence
    <2>3. QED
      BY <1>3, <2>1, <2>2 DEF LastSequence
  <1>8. QED
    BY <1>2, <1>3, <1>4, <1>5, <1>7 DEF m, j

LEMMA KnownState ==
  ASSUME IInv, NEW p \in Proc, Current(p), pc[p] \in Working
  PROVE  JournalState(job[p].txn) = StateOf(seen[p])
  <1> DEFINE m == Len(seen[p])
             j == journal[job[p].txn]
  <1>1. /\ m \in 0 .. LastSequence /\ (\A i \in 1 .. LastSequence : j[i] # <<>> <=> i <= m)
        /\ (m = 0 <=> seen[p] = <<>>) /\ (seen[p] # <<>> => j[m] = seen[p])
    BY KnownLength
  <1> HIDE DEF m, j
  <1>2. Shown(j) = StateOf(IF m = 0 THEN <<>> ELSE j[m])
    BY <1>1, ShownState
  <1>3. Shown(j) = StateOf(seen[p])
    BY <1>1, <1>2
  <1>4. QED
    BY <1>3, JournalShows DEF j

LEMMA AppendedState ==
  ASSUME IInv, NEW p \in Proc, Current(p), RenameEvent(p), NEW t \in Txn, job[p].txn = t
  PROVE  /\ JournalState(t) = StateOf(seen[p])
         /\ JournalState(t) \notin Terminal
         /\ JournalState(t)' = Successor(StateOf(seen[p]), manifest[t])
         /\ \A u \in Txn \ {t} : JournalState(u)' = JournalState(u)
  <1> DEFINE s == StateOf(seen[p])
             e == NextRecord(seen[p], job[p].cmd)
             m == Len(seen[p])
  <1>1. /\ pc[p] = "append" /\ journal' = [journal EXCEPT ![t][m + 1] = e]
        /\ journal \in [Txn -> [1 .. LastSequence -> Seq(Transition)]] /\ t \in Txn
        /\ pc[p] \in Working
    BY Types DEF IInv, RenameEvent, Renaming, Working, Opened
  <1>2. JournalState(t) = s
    BY <1>1, KnownState
  <1>3. /\ s \in TxState \ Terminal /\ m + 1 \in 1 .. LastSequence /\ e # <<>>
        /\ StateOf(e) = Successor(s, job[p].cmd)
    BY <1>1, Appending DEF IInv
  <1>4. /\ m \in 0 .. LastSequence
        /\ \A i \in 1 .. LastSequence : journal[t][i] # <<>> <=> i <= m
    BY <1>1, KnownLength
  <1>5. Successor(s, job[p].cmd) = Successor(s, manifest[t])
    <2>1. /\ job[p].cmd \in Command
          /\ job[p].cmd \in Operation => manifest[t] = job[p].cmd
      BY <1>1 DEF IInv, CommandInv, CommandOK, Opened
    <2>a. PlaceFits("append", job[p].cmd, s)
      BY <1>1 DEF IInv, SeenInv, SeenOK, Opened
    <2>2. s = "staging" => job[p].cmd \in Operation
      BY <2>1, <2>a DEF PlaceFits, Command, Operation, Recoverable
    <2> HIDE DEF s
    <2>3. QED
      BY <2>1, <2>2 DEF Successor
  <1> HIDE DEF e, s
  <1>6. JournalState(t)' = StateOf(e)
    <2> HIDE DEF m
    <2> DEFINE j == journal'[t]
               n == m + 1
    <2>1. \A i \in 1 .. LastSequence : j[i] = IF i = n THEN e ELSE journal[t][i]
      BY <1>1, <1>3
    <2>2. n \in 1 .. LastSequence /\ \A i \in 1 .. LastSequence : i <= n <=> i <= m \/ i = n
      BY <1>3, <1>4 DEF LastSequence
    <2> HIDE DEF j, n
    <2>3. \A i \in 1 .. LastSequence : j[i] # <<>> <=> i <= n
      BY <1>3, <1>4, <2>1, <2>2
    <2>4. n \in 0 .. LastSequence /\ n # 0
      BY <2>2 DEF LastSequence
    <2>5. Shown(j) = StateOf(j[n])
      BY <2>3, <2>4, ShownState
    <2>6. QED
      BY <2>1, <2>2, <2>5, JournalShows DEF j
  <1>7. ASSUME NEW u \in Txn \ {t}
        PROVE  JournalState(u)' = JournalState(u)
    <2>1. journal'[u] = journal[u]
      BY <1>1
    <2>2. QED
      BY <2>1, JournalShows
  <1>8. QED
    BY <1>2, <1>3, <1>5, <1>6, <1>7 DEF s

-----------------------------------------------------------------------------
(* The effects as steps of the protocol.                                   *)

(* The states of the abstract protocol.                                    *)
States == [t \in Txn |-> JournalState(t)]

LEMMA StatesStay ==
  ASSUME UNCHANGED journal
  PROVE  States' = States
  <1>1. \A t \in Txn : JournalState(t)' = JournalState(t)
    BY JournalShows
  <1>2. QED
    BY <1>1 DEF States

LEMMA BindStep ==
  ASSUME IInv, NEW p \in Proc, RenameManifest(p)
  PROVE  \E t \in Txn : \E o \in Operation : Protocol!Bind(t, o)
  <1>1. /\ manifest' = [manifest EXCEPT ![job[p].txn] = job[p].op]
        /\ UNCHANGED <<journal, artifact>> /\ pc[p] = "manifest"
    BY DEF RenameManifest, Renaming
  <1>2. manifest[job[p].txn] = "none"
    BY TargetAbsent DEF IInv
  <1>3. job[p].txn \in Txn /\ job[p].op \in Operation
    BY <1>1, Types DEF IInv, CommandInv, CommandOK, BeginOnly
  <1>4. Protocol!Bind(job[p].txn, job[p].op)
    BY <1>1, <1>2, StatesStay DEF Protocol!Bind, States
  <1>5. QED
    BY <1>3, <1>4

LEMMA AdvanceStep ==
  ASSUME IInv, NEW p \in Proc, Current(p), Removed(p), RenameEvent(p)
  PROVE  \E t \in Txn : Protocol!Advance(t)
  <1>1. PICK t \in Txn : job[p].txn = t
    BY Types DEF IInv
  <1> DEFINE s == JournalState(t)
             to == Successor(s, manifest[t])
  <1>2. UNCHANGED <<manifest, artifact>> /\ pc[p] = "append"
    BY DEF RenameEvent, Renaming
  <1>3. /\ s = StateOf(seen[p]) /\ s \notin Terminal /\ JournalState(t)' = to
        /\ \A u \in Txn \ {t} : JournalState(u)' = JournalState(u)
    BY <1>1, AppendedState
  <1>4. manifest[t] # "none"
    BY <1>1, <1>2 DEF IInv, CommandInv, CommandOK, Opened
  <1>5. to = "committed" => s = "committing"
    BY <1>3 DEF Successor, Terminal
  <1>6. s = "committing" => artifact[t] = "commit"
    BY <1>1, <1>2, <1>3 DEF IInv, SeenInv, SeenOK, Opened
  <1>7. to = "rolled_back" => s = "rolling_back"
    <2>1. s \in TxState
      BY <1>2, <1>3, Appending DEF IInv
    <2> HIDE DEF s
    <2>2. QED
      BY <1>3, <2>1 DEF Successor, Terminal, TxState
  <1>8. s = "rolling_back" => artifact[t] = "none"
    BY <1>1, <1>2, <1>3 DEF Removed
  <1>9. States' = [States EXCEPT ![t] = to] /\ States[t] = s
    BY <1>3 DEF States
  <1>a. Protocol!Successor(s, manifest[t]) = to /\ Protocol!Terminal = Terminal
    BY DEF Protocol!Successor, Successor, Protocol!Terminal, Terminal
  <1> HIDE DEF s, to
  <1>10. Protocol!Advance(t)
    BY <1>2, <1>3, <1>4, <1>5, <1>6, <1>7, <1>8, <1>9, <1>a DEF Protocol!Advance, States
  <1>11. QED
    BY <1>10

LEMMA PlaceStep ==
  ASSUME IInv, NEW p \in Proc, Current(p), RenameArtifact(p)
  PROVE  \E t \in Txn : Protocol!Place(t)
  <1> DEFINE t == job[p].txn
  <1>1. /\ artifact' = [artifact EXCEPT ![t] = job[p].op]
        /\ UNCHANGED <<journal, manifest>> /\ pc[p] = "place" /\ t \in Txn
    BY Types DEF IInv, RenameArtifact, Renaming
  <1>2. artifact[t] = "none"
    BY TargetAbsent DEF IInv
  <1>3. job[p].op = manifest[t] /\ StateOf(seen[p]) \in {"committing", "recovery_required"}
    BY <1>1 DEF IInv, CommandInv, CommandOK, SeenInv, SeenOK, Opened, PlaceFits
  <1>4. States[t] = StateOf(seen[p])
    BY <1>1, KnownState DEF States, Working, Opened
  <1>5. Protocol!Place(t)
    BY <1>1, <1>2, <1>3, <1>4, StatesStay DEF Protocol!Place, States
  <1>6. QED
    BY <1>1, <1>5

LEMMA RemoveStep ==
  ASSUME IInv, NEW p \in Proc, Current(p), RemoveArtifact(p)
  PROVE  \E t \in Txn : Protocol!Remove(t)
  <1> DEFINE t == job[p].txn
  <1>1. /\ artifact' = [artifact EXCEPT ![t] = "none"]
        /\ UNCHANGED <<journal, manifest>> /\ pc[p] = "unlink" /\ t \in Txn
    BY Types DEF IInv, RemoveArtifact
  <1>2. StateOf(seen[p]) = "rolling_back"
    BY RemovingInterruption DEF IInv
  <1>3. States[t] = StateOf(seen[p])
    BY <1>1, KnownState DEF States, Working, Opened
  <1>4. Protocol!Remove(t)
    BY <1>1, <1>2, <1>3, StatesStay DEF Protocol!Remove, States
  <1>5. QED
    BY <1>1, <1>4

LEMMA ProtocolStep ==
  ASSUME IInv, ApartInv, [Next]_vars
  PROVE  [Protocol!Next]_(Protocol!pvars)
  <1>1. UNCHANGED <<manifest, journal, artifact>> => UNCHANGED Protocol!pvars
    BY StatesStay DEF Protocol!pvars, States
  <1>2. CASE Next
    <2>1. PICK p \in Proc : ProcStep(p)
      BY <1>2 DEF Next, ProcStep
    <2>2. Current(p) /\ Removed(p)
      BY DEF ApartInv
    <2>3. CASE RenameManifest(p) \/ RenameEvent(p) \/ RenameArtifact(p) \/ RemoveArtifact(p)
      <3>1. Protocol!Operation = Operation
        BY DEF Protocol!Operation, Operation
      <3>2. \E t \in Txn : \/ \E o \in Operation : Protocol!Bind(t, o)
                           \/ Protocol!Advance(t) \/ Protocol!Place(t) \/ Protocol!Remove(t)
        BY <2>2, <2>3, BindStep, AdvanceStep, PlaceStep, RemoveStep
      <3>3. QED
        BY <3>1, <3>2 DEF Protocol!Next
    <2>4. CASE UNCHANGED <<manifest, journal, artifact>>
      BY <1>1, <2>4
    <2>5. QED
      BY <2>1, <2>3, <2>4, FilesStay
  <1>3. CASE UNCHANGED vars
    BY <1>1, <1>3 DEF vars
  <1>4. QED
    BY <1>2, <1>3

LEMMA ProtocolInit == Init => Protocol!Init
  <1> SUFFICES ASSUME Init PROVE Protocol!Init
    OBVIOUS
  <1>1. ASSUME NEW t \in Txn PROVE JournalState(t) = "proposed"
    <2>1. \A i \in 1 .. LastSequence : journal[t][i] # <<>> <=> i <= 0
      BY DEF Init, LastSequence
    <2>2. 0 \in 0 .. LastSequence
      BY DEF LastSequence
    <2>3. Shown(journal[t]) = StateOf(<<>>)
      BY <2>1, <2>2, ShownState
    <2>4. QED
      BY <2>3, JournalShows, EmptyPath
  <1>2. QED
    BY <1>1 DEF Init, Protocol!Init

\* Applications of which no two are at work on one transaction implement the
\* transaction protocol, whatever they are asked to do and wherever they die.
THEOREM ImplementsProtocolHolds == SeparateSpec => ImplementsProtocol
  <1>1. IInv /\ ApartInv /\ [Next]_vars => [Protocol!Next]_(Protocol!pvars)
    BY ProtocolStep
  <1>2. QED
    BY <1>1, ProtocolInit, SeparateInvariance, PTL
       DEF Spec, ImplementsProtocol, Protocol!Spec

\* So does one application, without any further care.
THEOREM LoneApplication ==
  ASSUME NEW a, Proc = {a}
  PROVE  Spec => []RolledBackIsClean /\ ImplementsProtocol
  <1>1. QED
    BY LoneIsSeparate, RolledBackIsCleanHolds, ImplementsProtocolHolds, PTL
=============================================================================
