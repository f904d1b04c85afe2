------------------------- MODULE ControlledWorkspace -------------------------
(***************************************************************************)
(* The controlled-workspace executor of the desktop shell                  *)
(* (apps/desktop/src-tauri/src/controlled_workspace.rs): transactions      *)
(* whose manifest, journal and test artifact are files under the           *)
(* application-data directory.                                             *)
(*                                                                         *)
(* A process is one running desktop application.  The commands are         *)
(* synchronous Tauri commands, so a process runs one at a time; nothing    *)
(* keeps a second application from running on the same directory.  One     *)
(* step is one effect on, or one decision read from, the file system.      *)
(* Checks of records and directories that are never removed again are      *)
(* taken together with the last of them.                                   *)
(***************************************************************************)
EXTENDS TransactionStates, Naturals

CONSTANTS Proc,       \* running desktop applications
          Workspace,  \* workspace identities
          Txn,        \* transactions: a workspace and a transaction identity
          Home,       \* Home[t]: the workspace of t
          MaxAborts   \* bound on the crashes and I/O errors of a behaviour

Root == "controlled-root"

Dir == {Root} \cup Workspace \cup Txn

ASSUME ConstantsAssumption ==
  /\ Txn # {}
  /\ Home \in [Txn -> Workspace]
  /\ Root \notin Workspace \cup Txn
  /\ Workspace \cap Txn = {}
  /\ MaxAborts \in Nat

\* The longest journal: an interrupted transaction that was rolled back.
LastSequence == 6

VARIABLES
  made,      \* directories that exist (t \in made: t's directory with its two children)
  marked,    \* root and workspaces whose ownership record is published
  manifest,  \* manifest[t]: the operation in t's published manifest, or "none"
  journal,   \* journal[t][n]: t's published record number n, <<>> if there is none
  artifact,  \* artifact[t]: the operation in t's published artifact, or "none"
  pending,   \* records that exist under their temporary ".pending" name
  pc,        \* pc[p]: where p's command is, "idle" between commands
  pub,       \* pub[p]: how far p's publish_new_file is
  job,       \* job[p]: the command, its transaction and operation
  seen,      \* seen[p]: the journal as p read or wrote it
  aborts     \* crashes and I/O errors so far

files == <<made, marked, manifest, journal, artifact, pending>>
vars  == <<made, marked, manifest, journal, artifact, pending, pc, pub, job, seen, aborts>>

Command == {"begin", "commit", "interruption", "recover"}
NoJob == [cmd |-> "none", txn |-> CHOOSE t \in Txn : TRUE, op |-> "none"]

\* Where p's command publishes a record, and which.
Publishing == {"mark root", "mark workspace", "manifest", "append", "place"}

Location == Publishing \cup
  {"idle", "root", "make root", "workspace", "make workspace", "marker",
   "transaction", "make transaction", "open", "read", "inspect", "artifact",
   "remove", "unlink", "done"}

Record == ({"marker"} \X ({Root} \cup Workspace) \X {0})
     \cup ({"manifest", "artifact"} \X Txn \X {0})
     \cup ({"event"} \X Txn \X (Nat \ {0}))

EventRecord(t) == {"event"} \X {t} \X (Nat \ {0})

Target(p) ==
  LET t == job[p].txn IN
  CASE pc[p] = "mark root"      -> <<"marker", Root, 0>>
    [] pc[p] = "mark workspace" -> <<"marker", Home[t], 0>>
    [] pc[p] = "manifest"       -> <<"manifest", t, 0>>
    [] pc[p] = "append"         -> <<"event", t, Len(seen[p]) + 1>>
    [] OTHER                    -> <<"artifact", t, 0>>

\* path_entry_exists of the record p is publishing, under its final name.
TargetExists(p) ==
  LET t == job[p].txn IN
  CASE pc[p] = "mark root"      -> Root \in marked
    [] pc[p] = "mark workspace" -> Home[t] \in marked
    [] pc[p] = "manifest"       -> manifest[t] # "none"
    [] pc[p] = "append"         -> journal[t][Len(seen[p]) + 1] # <<>>
    [] OTHER                    -> artifact[t] # "none"

Init ==
  /\ made = {}
  /\ marked = {}
  /\ manifest = [t \in Txn |-> "none"]
  /\ journal = [t \in Txn |-> [n \in 1 .. LastSequence |-> <<>>]]
  /\ artifact = [t \in Txn |-> "none"]
  /\ pending = {}
  /\ pc = [p \in Proc |-> "idle"]
  /\ pub = [p \in Proc |-> "check"]
  /\ job = [p \in Proc |-> NoJob]
  /\ seen = [p \in Proc |-> <<>>]
  /\ aborts = 0

\* p's command moves on to l, keeping what it holds in memory.
Goto(p, l) ==
  /\ pc' = [pc EXCEPT ![p] = l]
  /\ UNCHANGED <<pub, job, seen, aborts>>

\* p's command ends and its memory is gone; the files stay as they are.
Leave(p) ==
  /\ pc' = [pc EXCEPT ![p] = "idle"]
  /\ pub' = [pub EXCEPT ![p] = "check"]
  /\ job' = [job EXCEPT ![p] = NoJob]
  /\ seen' = [seen EXCEPT ![p] = <<>>]
  /\ UNCHANGED files

-----------------------------------------------------------------------------
(* Commands.                                                               *)

\* preview's digest binds workspace, transaction and operation.
ConfirmationToken(t, o) == <<Home[t], t, o>>

Confirm(p, t, o, token) ==
  /\ pc[p] = "idle"
  /\ token = ConfirmationToken(t, o)
  /\ job' = [job EXCEPT ![p] = [cmd |-> "begin", txn |-> t, op |-> o]]
  /\ pc' = [pc EXCEPT ![p] = "root"]
  /\ UNCHANGED <<files, pub, seen, aborts>>

\* simulate_commit, simulate_interruption, and recover with its alias rollback.
Invoke(p, c, t) ==
  /\ pc[p] = "idle"
  /\ job' = [job EXCEPT ![p] = [cmd |-> c, txn |-> t, op |-> "none"]]
  /\ pc' = [pc EXCEPT ![p] = "root"]
  /\ UNCHANGED <<files, pub, seen, aborts>>

-----------------------------------------------------------------------------
(* ensure_controlled_root: an existing root must carry its ownership       *)
(* record, an absent one is created and marked.                            *)

AfterRoot(p) == IF job[p].cmd = "begin" THEN "workspace" ELSE "open"

\* Mutated form: a root without ownership record is accepted.
FindRoot_Unmarked(p) ==
  /\ pc[p] = "root"
  /\ \/ Root \in made /\ Goto(p, AfterRoot(p))
     \/ Root \notin made /\ Goto(p, "make root")
  /\ UNCHANGED files

FindRoot(p) ==
  /\ pc[p] = "root"
  /\ \/ Root \in made /\ Root \in marked /\ Goto(p, AfterRoot(p))
     \/ Root \notin made /\ Goto(p, "make root")
  /\ UNCHANGED files

\* create_owned_directory accepts a directory that appeared in the meantime.
MakeRoot(p) ==
  /\ pc[p] = "make root"
  /\ made' = made \cup {Root}
  /\ Goto(p, "mark root")
  /\ UNCHANGED <<marked, manifest, journal, artifact, pending>>

-----------------------------------------------------------------------------
(* confirm_and_begin, up to the manifest.                                  *)

\* Mutated form: an existing workspace may be marked by any command.
FindWorkspace_Adopt(p) ==
  LET w == Home[job[p].txn] IN
  /\ pc[p] = "workspace"
  /\ Goto(p, IF w \in made THEN "marker" ELSE "make workspace")
  /\ UNCHANGED files

\* An existing workspace is never adopted: only the process that found it
\* absent may create the ownership record.
FindWorkspace(p) ==
  LET w == Home[job[p].txn] IN
  /\ pc[p] = "workspace"
  /\ \/ w \in made /\ w \in marked /\ Goto(p, "transaction")
     \/ w \notin made /\ Goto(p, "make workspace")
  /\ UNCHANGED files

MakeWorkspace(p) ==
  /\ pc[p] = "make workspace"
  /\ made' = made \cup {Home[job[p].txn]}
  /\ Goto(p, "marker")
  /\ UNCHANGED <<marked, manifest, journal, artifact, pending>>

\* ensure_workspace_marker with allow_create.
FindMarker(p) ==
  /\ pc[p] = "marker"
  /\ Goto(p, IF Home[job[p].txn] \in marked THEN "transaction" ELSE "mark workspace")
  /\ UNCHANGED files

FindTransaction(p) ==
  /\ pc[p] = "transaction"
  /\ job[p].txn \notin made
  /\ Goto(p, "make transaction")
  /\ UNCHANGED files

\* The transaction directory with its journal and artifacts directories;
\* nothing looks at them before the manifest exists.
MakeTransaction(p) ==
  /\ pc[p] = "make transaction"
  /\ made' = made \cup {job[p].txn}
  /\ Goto(p, "manifest")
  /\ UNCHANGED <<marked, manifest, journal, artifact, pending>>

-----------------------------------------------------------------------------
(* existing_transaction, require_operation and read_journal.               *)

\* Mutated form: require_operation is forgotten.
OperationMatches_Any(c, o) == c \in Command /\ o \in Operation

\* The operation the command requires of the manifest; recover decides later.
OperationMatches(c, o) == c = "recover" \/ o = c

\* existing_transaction finds everything in place, and so does require_operation.
CanOpen(p) ==
  LET t == job[p].txn IN
  /\ {Home[t], t} \subseteq made
  /\ Home[t] \in marked
  /\ manifest[t] # "none"
  /\ OperationMatches(job[p].cmd, manifest[t])

OpenTransaction(p) ==
  /\ pc[p] = "open"
  /\ CanOpen(p)
  /\ job' = [job EXCEPT ![p].op = manifest[job[p].txn]]
  /\ pc' = [pc EXCEPT ![p] = "read"]
  /\ UNCHANGED <<files, pub, seen, aborts>>

\* t's published records are numbers 1 to n and form one chain.
JournalIs(t, n) ==
  \A i \in 1 .. LastSequence :
     IF i > n THEN journal[t][i] = <<>>
     ELSE Extends(journal[t][i], IF i = 1 THEN <<>> ELSE journal[t][i - 1])

\* The record read last; the empty path if there is none.
LastRecord(t, n) == IF n = 0 THEN <<>> ELSE journal[t][n]

\* Mutated form: recovery of a transaction left in rolling_back skips the removal.
AfterRead_SkipRemoval(c, o, s) ==
  CASE c # "recover" /\ s = "staging"                      -> "append"
    [] c = "recover" /\ s \in Terminal                     -> "done"
    [] c = "recover" /\ s = "committing"                   -> "inspect"
    [] c = "recover" /\ s \in {"recovery_required", "rolling_back"} -> "append"
    [] OTHER                                               -> "refuse"

\* Mutated form: recover also takes on a transaction that was never interrupted.
AfterRead_Staging(c, o, s) ==
  CASE s \in {"staging", "recovery_required"}               -> "append"
    [] c = "recover" /\ s \in Terminal                     -> "done"
    [] c = "recover" /\ s \in {"committing", "rolling_back"} -> "inspect"
    [] OTHER                                               -> "refuse"

\* Mutated form: recover does not know the state rolling_back.
AfterRead_NoResume(c, o, s) ==
  CASE c # "recover" /\ s = "staging"                      -> "append"
    [] c = "recover" /\ s \in Terminal                     -> "done"
    [] c = "recover" /\ s = "committing"                   -> "inspect"
    [] c = "recover" /\ s = "recovery_required"            -> "append"
    [] OTHER                                               -> "refuse"

\* Where a command continues from the state the journal shows: the required
\* state of commit and interruption, the case distinction of recover.
AfterRead(c, o, s) ==
  CASE c # "recover" /\ s = "staging"                                   -> "append"
    [] c = "recover" /\ s = "committed" /\ o = "commit"                 -> "done"
    [] c = "recover" /\ s = "rolled_back" /\ o = "interruption"         -> "done"
    [] c = "recover" /\ s = "committing" /\ o = "commit"                -> "inspect"
    [] c = "recover" /\ s = "recovery_required" /\ o = "interruption"   -> "append"
    [] c = "recover" /\ s = "rolling_back" /\ o = "interruption"        -> "inspect"
    [] OTHER                                                            -> "refuse"

\* Mutated form: require_state is forgotten.
JournalAccepted_AnyState(p, n) ==
  pending \cap EventRecord(job[p].txn) = {} /\ JournalIs(job[p].txn, n)

JournalAccepted(p, n) ==
  /\ pending \cap EventRecord(job[p].txn) = {}
  /\ JournalIs(job[p].txn, n)
  /\ AfterRead(job[p].cmd, job[p].op, StateOf(LastRecord(job[p].txn, n))) # "refuse"

\* A listing that overlaps a rename and shows neither name of a record is the
\* listing taken before that record was begun.
ReadJournal(p) ==
  /\ pc[p] = "read"
  /\ \E n \in 0 .. LastSequence :
       /\ JournalAccepted(p, n)
       /\ seen' = [seen EXCEPT ![p] = LastRecord(job[p].txn, n)]
       /\ pc' = [pc EXCEPT ![p] =
                   AfterRead(job[p].cmd, job[p].op, StateOf(LastRecord(job[p].txn, n)))]
  /\ UNCHANGED <<files, pub, job, aborts>>

-----------------------------------------------------------------------------
(* publish_new_file: the target must be absent, the temporary file is      *)
(* created exclusively, the target is checked again, and a rename          *)
(* publishes.  The rename replaces whatever has the target name.           *)

CheckTarget(p) ==
  /\ pc[p] \in Publishing /\ pub[p] = "check"
  /\ ~ TargetExists(p)
  /\ pub' = [pub EXCEPT ![p] = "stage"]
  /\ UNCHANGED <<files, pc, job, seen, aborts>>

CreatePending(p) ==
  /\ pc[p] \in Publishing /\ pub[p] = "stage"
  /\ Target(p) \notin pending
  /\ pending' = pending \cup {Target(p)}
  /\ pub' = [pub EXCEPT ![p] = "recheck"]
  /\ UNCHANGED <<made, marked, manifest, journal, artifact, pc, job, seen, aborts>>

\* Mutated form: the target is not looked at again before the rename.
RecheckTarget_Unchecked(p) ==
  /\ pc[p] \in Publishing /\ pub[p] = "recheck"
  /\ pub' = [pub EXCEPT ![p] = "rename"]
  /\ UNCHANGED <<files, pc, job, seen, aborts>>

RecheckTarget(p) ==
  /\ pc[p] \in Publishing /\ pub[p] = "recheck"
  /\ ~ TargetExists(p)
  /\ pub' = [pub EXCEPT ![p] = "rename"]
  /\ UNCHANGED <<files, pc, job, seen, aborts>>

\* The rename takes the temporary name away, and publish_new_file returns.
Renaming(p, l) ==
  /\ pc[p] = l /\ pub[p] = "rename"
  /\ Target(p) \in pending
  /\ pending' = pending \ {Target(p)}
  /\ pub' = [pub EXCEPT ![p] = "check"]

RenameRootMarker(p) ==
  /\ Renaming(p, "mark root")
  /\ marked' = marked \cup {Root}
  /\ pc' = [pc EXCEPT ![p] = AfterRoot(p)]
  /\ UNCHANGED <<made, manifest, journal, artifact, job, seen, aborts>>

RenameWorkspaceMarker(p) ==
  /\ Renaming(p, "mark workspace")
  /\ marked' = marked \cup {Home[job[p].txn]}
  /\ pc' = [pc EXCEPT ![p] = "transaction"]
  /\ UNCHANGED <<made, manifest, journal, artifact, job, seen, aborts>>

RenameManifest(p) ==
  /\ Renaming(p, "manifest")
  /\ manifest' = [manifest EXCEPT ![job[p].txn] = job[p].op]
  /\ pc' = [pc EXCEPT ![p] = "append"]
  /\ UNCHANGED <<made, marked, journal, artifact, job, seen, aborts>>

\* Mutated form: a record does not carry its predecessor's checksum.
NextRecord_Unchained(path, c) == <<<<StateOf(path), Successor(StateOf(path), c)>>>>

\* The record a command c has append_event write after the path it knows.
NextRecord(path, c) == Append(path, <<StateOf(path), Successor(StateOf(path), c)>>)

\* Mutated form: commit records committed before it creates the artifact.
AfterAppend_CommitFirst(s) ==
  CASE s \in {"awaiting_confirmation", "ready", "committing"} -> "append"
    [] s \in Recoverable                        -> "inspect"
    [] OTHER                                    -> "done"

\* What a command does once its record with state s is durable.
AfterAppend(s) ==
  CASE s \in {"awaiting_confirmation", "ready"} -> "append"
    [] s \in Recoverable                        -> "inspect"
    [] OTHER                                    -> "done"

\* append_event refuses a transition that is not allowed.
RenameEvent(p) ==
  LET t == job[p].txn
      e == NextRecord(seen[p], job[p].cmd) IN
  /\ Renaming(p, "append")
  /\ e[Len(e)] \in AllowedTransition
  /\ journal' = [journal EXCEPT ![t][Len(seen[p]) + 1] = e]
  /\ seen' = [seen EXCEPT ![p] = e]
  /\ pc' = [pc EXCEPT ![p] = AfterAppend(StateOf(e))]
  /\ UNCHANGED <<made, marked, manifest, artifact, job, aborts>>

\* What a command does once its artifact is in place, or gone.
AfterArtifact(s) == IF s = "recovery_required" THEN "done" ELSE "append"

RenameArtifact(p) ==
  /\ Renaming(p, "place")
  /\ artifact' = [artifact EXCEPT ![job[p].txn] = job[p].op]
  /\ pc' = [pc EXCEPT ![p] = AfterArtifact(StateOf(seen[p]))]
  /\ UNCHANGED <<made, marked, manifest, journal, job, seen, aborts>>

-----------------------------------------------------------------------------
(* create_test_artifact and remove_owned_test_artifact.                    *)

\* validate_artifact_directory: any entry but the artifact is refused.
InspectArtifacts(p) ==
  /\ pc[p] = "inspect"
  /\ <<"artifact", job[p].txn, 0>> \notin pending
  /\ Goto(p, IF StateOf(seen[p]) = "rolling_back" THEN "remove" ELSE "artifact")
  /\ UNCHANGED files

\* An identical artifact is accepted, an absent one is created.
FindArtifact(p) ==
  /\ pc[p] = "artifact"
  /\ artifact[job[p].txn] \in {"none", job[p].op}
  /\ Goto(p, IF artifact[job[p].txn] = "none" THEN "place" ELSE AfterArtifact(StateOf(seen[p])))
  /\ UNCHANGED files

\* An absent artifact needs no removal.
FindRemovable(p) ==
  /\ pc[p] = "remove"
  /\ artifact[job[p].txn] \in {"none", job[p].op}
  /\ Goto(p, IF artifact[job[p].txn] = "none" THEN AfterArtifact(StateOf(seen[p])) ELSE "unlink")
  /\ UNCHANGED files

RemoveArtifact(p) ==
  /\ pc[p] = "unlink"
  /\ artifact[job[p].txn] # "none"
  /\ artifact' = [artifact EXCEPT ![job[p].txn] = "none"]
  /\ Goto(p, AfterArtifact(StateOf(seen[p])))
  /\ UNCHANGED <<made, marked, manifest, journal, pending>>

-----------------------------------------------------------------------------
(* Ends of a command.                                                      *)

\* The early returns with an error, by the place where the command is.
MustRefuse(p) ==
  LET t == job[p].txn IN
  \/ pc[p] = "root" /\ Root \in made /\ Root \notin marked
  \/ pc[p] = "workspace" /\ Home[t] \in made /\ Home[t] \notin marked
  \/ pc[p] = "transaction" /\ t \in made
  \/ pc[p] = "open" /\ ~ CanOpen(p)
  \/ pc[p] = "read" /\ \A n \in 0 .. LastSequence : ~ JournalAccepted(p, n)
  \/ pc[p] \in Publishing /\ pub[p] \in {"check", "recheck"} /\ TargetExists(p)
  \/ pc[p] \in Publishing /\ pub[p] = "stage" /\ Target(p) \in pending
  \/ pc[p] \in Publishing /\ pub[p] = "rename" /\ Target(p) \notin pending
  \/ pc[p] = "inspect" /\ <<"artifact", t, 0>> \in pending
  \/ pc[p] \in {"artifact", "remove"} /\ artifact[t] \notin {"none", job[p].op}
  \/ pc[p] = "unlink" /\ artifact[t] = "none"

\* A refusal leaves the files as they are, a pending record included.
Refuse(p) == MustRefuse(p) /\ Leave(p) /\ UNCHANGED aborts

\* The command reports its status.
Return(p) == pc[p] = "done" /\ Leave(p) /\ UNCHANGED aborts

\* The application dies, or a file operation fails, between two effects.
Abort(p) ==
  /\ pc[p] \notin {"idle", "done"}
  /\ aborts < MaxAborts
  /\ aborts' = aborts + 1
  /\ Leave(p)

-----------------------------------------------------------------------------
\* A token may come from the preview of any transaction and operation.
Token == {ConfirmationToken(t, o) : t \in Txn, o \in Operation}

Start(p) == \E t \in Txn :
               \/ \E o \in Operation, token \in Token : Confirm(p, t, o, token)
               \/ \E c \in Command \ {"begin"} : Invoke(p, c, t)

Prepare(p) == \/ FindRoot(p) \/ MakeRoot(p)
              \/ FindWorkspace(p) \/ MakeWorkspace(p) \/ FindMarker(p)
              \/ FindTransaction(p) \/ MakeTransaction(p)
              \/ OpenTransaction(p) \/ ReadJournal(p)

Publish(p) == \/ CheckTarget(p) \/ CreatePending(p) \/ RecheckTarget(p)
              \/ RenameRootMarker(p) \/ RenameWorkspaceMarker(p)
              \/ RenameManifest(p) \/ RenameEvent(p) \/ RenameArtifact(p)

HandleArtifact(p) == \/ InspectArtifacts(p) \/ FindArtifact(p)
                     \/ FindRemovable(p) \/ RemoveArtifact(p)

Step(p) == Prepare(p) \/ Publish(p) \/ HandleArtifact(p) \/ Refuse(p) \/ Return(p)

Next == \E p \in Proc : Start(p) \/ Step(p) \/ Abort(p)

Spec == Init /\ [][Next]_vars
=============================================================================
