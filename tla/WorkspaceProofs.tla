--------------------------- MODULE WorkspaceProofs ---------------------------
(***************************************************************************)
(* Paths, types and frames of the controlled workspace, for any number of  *)
(* processes, transactions and aborts.                                     *)
(***************************************************************************)
EXTENDS WorkspaceInvariant, TLAPS

-----------------------------------------------------------------------------
(* Paths.                                                                  *)

\* What the next record of a path looks like: one longer, ending in the
\* successor of the path's state.
LEMMA NextRecordFacts ==
  ASSUME NEW path \in Seq(Transition), NEW c
  PROVE  /\ StateOf(path) \in TxState
         /\ NextRecord(path, c) \in Seq(Transition)
         /\ NextRecord(path, c) # <<>>
         /\ Len(NextRecord(path, c)) = Len(path) + 1
         /\ StateOf(NextRecord(path, c)) = Successor(StateOf(path), c)
         /\ NextRecord(path, c)[Len(NextRecord(path, c))]
              = <<StateOf(path), Successor(StateOf(path), c)>>
  <1>1. StateOf(path) \in TxState
    <2>1. CASE path = <<>>
      BY <2>1 DEF StateOf, TxState
    <2>2. CASE path # <<>>
      <3>1. path[Len(path)] \in Transition
        BY <2>2
      <3>2. QED
        BY <2>2, <3>1 DEF StateOf, Transition
    <2>3. QED
      BY <2>1, <2>2
  <1>2. Successor(StateOf(path), c) \in TxState
    BY DEF Successor, TxState
  <1>3. <<StateOf(path), Successor(StateOf(path), c)>> \in Transition
    BY <1>1, <1>2 DEF Transition
  <1> DEFINE tr == <<StateOf(path), Successor(StateOf(path), c)>>
             e  == Append(path, tr)
  <1>4. tr \in Transition /\ tr[2] = Successor(StateOf(path), c)
    BY <1>3
  <1> HIDE DEF tr
  <1>5. e \in Seq(Transition) /\ e # <<>> /\ Len(e) = Len(path) + 1 /\ e[Len(e)] = tr
    BY <1>4
  <1>6. StateOf(e) = tr[2]
    BY <1>5 DEF StateOf
  <1>7. NextRecord(path, c) = e
    BY DEF NextRecord, tr
  <1> HIDE DEF e
  <1>8. QED
    BY <1>1, <1>4, <1>5, <1>6, <1>7 DEF tr

\* The empty path is a path in state proposed.
LEMMA EmptyPath == <<>> \in Seq(Transition) /\ StateOf(<<>>) = "proposed" /\ Len(<<>>) = 0
  BY DEF StateOf

-----------------------------------------------------------------------------
(* Types.                                                                  *)

LEMMA NoJobType == NoJob \in [cmd : Command \cup {"none"}, txn : Txn, op : Operation \cup {"none"}]
  BY ConstantsAssumption DEF NoJob

\* Leaving a command keeps the types.
LEMMA LeaveType == ASSUME TypeOK, NEW p \in Proc, Leave(p), aborts' \in 0 .. MaxAborts
                   PROVE  TypeOK'
  BY NoJobType, EmptyPath DEF TypeOK, Leave, files, Location

\* A process publishes a record of its own transaction.
LEMMA TargetType == ASSUME TypeOK, NEW p \in Proc
                    PROVE  Target(p) \in Record
  <1>1. job[p].txn \in Txn /\ Home[job[p].txn] \in Workspace /\ Len(seen[p]) \in Nat
    BY ConstantsAssumption DEF TypeOK
  <1>2. CASE pc[p] = "append"
    BY <1>1, <1>2 DEF Target, Record
  <1>3. CASE pc[p] \in {"mark root", "mark workspace"}
    BY <1>1, <1>3 DEF Target, Record
  <1>4. CASE pc[p] \notin {"append", "mark root", "mark workspace"}
    <2>1. Target(p) \in {<<"manifest", job[p].txn, 0>>, <<"artifact", job[p].txn, 0>>}
      BY <1>4 DEF Target
    <2>2. QED
      BY <1>1, <2>1 DEF Record
  <1>5. QED
    BY <1>2, <1>3, <1>4

\* Reading the journal yields a path.
LEMMA LastRecordType ==
  ASSUME TypeOK, NEW t \in Txn, NEW n \in 0 .. LastSequence
  PROVE  LastRecord(t, n) \in Seq(Transition)
  <1>1. CASE n = 0
    BY <1>1, EmptyPath DEF LastRecord
  <1>2. CASE n # 0
    <2>1. n \in 1 .. LastSequence
      BY <1>2 DEF LastSequence
    <2>2. journal[t] \in [1 .. LastSequence -> Seq(Transition)]
      BY DEF TypeOK
    <2>3. journal[t][n] \in Seq(Transition)
      BY <2>1, <2>2
    <2>4. QED
      BY <1>2, <2>3 DEF LastRecord
  <1>3. QED
    BY <1>1, <1>2

\* A job whose operation is replaced by another one is a job.
LEMMA JobKeepsType ==
  ASSUME NEW jobs \in [Proc -> [cmd : Command \cup {"none"}, txn : Txn,
                                op : Operation \cup {"none"}]],
         NEW p \in Proc, NEW o \in Operation \cup {"none"}
  PROVE  [jobs EXCEPT ![p].op = o]
           \in [Proc -> [cmd : Command \cup {"none"}, txn : Txn, op : Operation \cup {"none"}]]
  <1>1. [jobs[p] EXCEPT !.op = o]
          \in [cmd : Command \cup {"none"}, txn : Txn, op : Operation \cup {"none"}]
    OBVIOUS
  <1>2. QED
    BY <1>1

\* A command starts with a job of its own and no effect on the files.
LEMMA StartEffect ==
  ASSUME NEW p, Start(p)
  PROVE  \E t \in Txn, c \in Command, o \in Operation \cup {"none"} :
           /\ pc[p] = "idle"
           /\ c = "begin" => o \in Operation
           /\ job' = [job EXCEPT ![p] = [cmd |-> c, txn |-> t, op |-> o]]
           /\ pc' = [pc EXCEPT ![p] = "root"]
           /\ UNCHANGED <<files, pub, seen, aborts>>
  <1>1. PICK t \in Txn : \/ \E o \in Operation, token \in Token : Confirm(p, t, o, token)
                        \/ \E c \in Command \ {"begin"} : Invoke(p, c, t)
    BY DEF Start
  <1>2. ASSUME NEW o \in Operation, NEW token, Confirm(p, t, o, token)
        PROVE  /\ pc[p] = "idle"
               /\ job' = [job EXCEPT ![p] = [cmd |-> "begin", txn |-> t, op |-> o]]
               /\ pc' = [pc EXCEPT ![p] = "root"]
               /\ UNCHANGED <<files, pub, seen, aborts>>
    BY <1>2 DEF Confirm
  <1>3. ASSUME NEW c \in Command \ {"begin"}, Invoke(p, c, t)
        PROVE  /\ pc[p] = "idle"
               /\ job' = [job EXCEPT ![p] = [cmd |-> c, txn |-> t, op |-> "none"]]
               /\ pc' = [pc EXCEPT ![p] = "root"]
               /\ UNCHANGED <<files, pub, seen, aborts>>
    BY <1>3 DEF Invoke
  <1>4. "begin" \in Command
    BY DEF Command
  <1>5. QED
    BY <1>1, <1>2, <1>3, <1>4, Zenon

\* Every step keeps the types.
LEMMA TypeStep == TypeOK /\ [Next]_vars => TypeOK'
  <1> SUFFICES ASSUME TypeOK, [Next]_vars
               PROVE  TypeOK'
    OBVIOUS
  <1> USE DEF TypeOK, Location, Publishing
  <1>1. CASE UNCHANGED vars
    BY <1>1 DEF vars
  <1>2. ASSUME NEW p \in Proc, Start(p)
        PROVE  TypeOK'
    <2> HIDE DEF TypeOK, Location, Publishing
    <2>1. PICK t \in Txn, c \in Command, o \in Operation \cup {"none"} :
            /\ pc[p] = "idle"
            /\ c = "begin" => o \in Operation
            /\ job' = [job EXCEPT ![p] = [cmd |-> c, txn |-> t, op |-> o]]
            /\ pc' = [pc EXCEPT ![p] = "root"]
            /\ UNCHANGED <<files, pub, seen, aborts>>
      BY <1>2, StartEffect, Zenon
    <2> USE DEF TypeOK, Location, Publishing
    <2>2. [cmd |-> c, txn |-> t, op |-> o]
            \in [cmd : Command \cup {"none"}, txn : Txn, op : Operation \cup {"none"}]
      OBVIOUS
    <2>3. QED
      BY <2>1, <2>2 DEF files
  <1>3. ASSUME NEW p \in Proc, Prepare(p)
        PROVE  TypeOK'
    <2>1. job[p].txn \in Txn /\ Home[job[p].txn] \in Workspace
      BY ConstantsAssumption
    <2>2. CASE FindRoot(p)
      BY <2>2 DEF FindRoot, Goto, AfterRoot, files
    <2>3. CASE MakeRoot(p)
      BY <2>3 DEF MakeRoot, Goto, Dir
    <2>4. CASE FindWorkspace(p)
      BY <2>4 DEF FindWorkspace, Goto, files
    <2>5. CASE MakeWorkspace(p)
      BY <2>1, <2>5 DEF MakeWorkspace, Goto, Dir
    <2>6. CASE FindMarker(p)
      BY <2>6 DEF FindMarker, Goto, files
    <2>7. CASE FindTransaction(p)
      BY <2>7 DEF FindTransaction, Goto, files
    <2>8. CASE MakeTransaction(p)
      BY <2>1, <2>8 DEF MakeTransaction, Goto, Dir
    <2>9. CASE OpenTransaction(p)
      <3>1. manifest[job[p].txn] \in Operation \cup {"none"}
        BY <2>1
      <3>2. job' \in [Proc -> [cmd : Command \cup {"none"}, txn : Txn, op : Operation \cup {"none"}]]
        <4>1. job' = [job EXCEPT ![p].op = manifest[job[p].txn]]
          BY <2>9 DEF OpenTransaction
        <4> HIDE DEF TypeOK, Location, Publishing
        <4>2. job \in [Proc -> [cmd : Command \cup {"none"}, txn : Txn, op : Operation \cup {"none"}]]
          BY DEF TypeOK
        <4>3. QED
          BY <3>1, <4>1, <4>2, JobKeepsType
      <3>3. QED
        BY <2>9, <3>2 DEF OpenTransaction, files
    <2>10. CASE ReadJournal(p)
      <3>1. PICK n \in 0 .. LastSequence :
              /\ JournalAccepted(p, n)
              /\ seen' = [seen EXCEPT ![p] = LastRecord(job[p].txn, n)]
              /\ pc' = [pc EXCEPT ![p] =
                          AfterRead(job[p].cmd, job[p].op, StateOf(LastRecord(job[p].txn, n)))]
        BY <2>10 DEF ReadJournal
      <3>2. LastRecord(job[p].txn, n) \in Seq(Transition)
        BY <2>1, LastRecordType
      <3>3. AfterRead(job[p].cmd, job[p].op, StateOf(LastRecord(job[p].txn, n)))
              \in {"append", "done", "inspect"}
        BY <3>1 DEF JournalAccepted, AfterRead
      <3>4. QED
        BY <2>10, <3>1, <3>2, <3>3 DEF ReadJournal, files
    <2>11. QED
      BY <1>3, <2>2, <2>3, <2>4, <2>5, <2>6, <2>7, <2>8, <2>9, <2>10 DEF Prepare
  <1>4. ASSUME NEW p \in Proc, Publish(p)
        PROVE  TypeOK'
    <2>1. job[p].txn \in Txn /\ Home[job[p].txn] \in Workspace /\ Target(p) \in Record
      BY ConstantsAssumption, TargetType
    <2>2. CASE CheckTarget(p)
      BY <2>2 DEF CheckTarget, files
    <2>3. CASE CreatePending(p)
      BY <2>1, <2>3 DEF CreatePending
    <2>4. CASE RecheckTarget(p)
      BY <2>4 DEF RecheckTarget, files
    <2>5. CASE RenameRootMarker(p)
      BY <2>5 DEF RenameRootMarker, Renaming, AfterRoot
    <2>6. CASE RenameWorkspaceMarker(p)
      BY <2>1, <2>6 DEF RenameWorkspaceMarker, Renaming
    <2>7. CASE RenameManifest(p)
      BY <2>1, <2>7 DEF RenameManifest, Renaming
    <2>8. CASE RenameEvent(p)
      <3> DEFINE e == NextRecord(seen[p], job[p].cmd)
      <3>1. e \in Seq(Transition)
        BY NextRecordFacts
      <3>2. AfterAppend(StateOf(e)) \in {"append", "inspect", "done"}
        BY DEF AfterAppend
      <3> HIDE DEF e
      <3>3. /\ journal' = [journal EXCEPT ![job[p].txn][Len(seen[p]) + 1] = e]
            /\ seen' = [seen EXCEPT ![p] = e]
            /\ pc' = [pc EXCEPT ![p] = AfterAppend(StateOf(e))]
            /\ pending' = pending \ {Target(p)}
            /\ pub' = [pub EXCEPT ![p] = "check"]
            /\ UNCHANGED <<made, marked, manifest, artifact, job, aborts>>
        BY <2>8 DEF RenameEvent, Renaming, e
      <3>4. journal' \in [Txn -> [1 .. LastSequence -> Seq(Transition)]]
        BY <2>1, <3>1, <3>3
      <3>5. QED
        BY <3>1, <3>2, <3>3, <3>4
    <2>9. CASE RenameArtifact(p)
      BY <2>1, <2>9 DEF RenameArtifact, Renaming, AfterArtifact
    <2>10. QED
      BY <1>4, <2>2, <2>3, <2>4, <2>5, <2>6, <2>7, <2>8, <2>9 DEF Publish
  <1>5. ASSUME NEW p \in Proc, HandleArtifact(p)
        PROVE  TypeOK'
    <2>1. CASE InspectArtifacts(p) \/ FindArtifact(p) \/ FindRemovable(p)
      BY <2>1 DEF InspectArtifacts, FindArtifact, FindRemovable, Goto, AfterArtifact, files
    <2>2. CASE RemoveArtifact(p)
      BY <2>2 DEF RemoveArtifact, Goto, AfterArtifact, files
    <2>3. QED
      BY <1>5, <2>1, <2>2 DEF HandleArtifact
  <1>6. ASSUME NEW p \in Proc, Refuse(p) \/ Return(p) \/ Abort(p)
        PROVE  TypeOK'
    <2>1. Leave(p)
      BY <1>6 DEF Refuse, Return, Abort
    <2>2. aborts' = aborts \/ (aborts < MaxAborts /\ aborts' = aborts + 1)
      BY <1>6 DEF Refuse, Return, Abort
    <2>3. aborts \in 0 .. MaxAborts
      BY DEF TypeOK
    <2> HIDE DEF TypeOK
    <2>4. MaxAborts \in Nat
      BY ConstantsAssumption
    <2>5. aborts' \in 0 .. MaxAborts
      BY <2>2, <2>3, <2>4
    <2>6. QED
      BY <2>1, <2>5, LeaveType
  <1>7. QED
    BY <1>1, <1>2, <1>3, <1>4, <1>5, <1>6 DEF Next, Step

\* Type correctness of the controlled workspace.
THEOREM TypeCorrect == Spec => []TypeOK
  <1>1. Init => TypeOK
    BY NoJobType, EmptyPath, ConstantsAssumption DEF Init, TypeOK, Location
  <1>2. QED
    BY <1>1, TypeStep, PTL DEF Spec

=============================================================================
