-------------------------- MODULE WorkspaceInvariant --------------------------
(***************************************************************************)
(* The inductive invariant behind the safety of the controlled workspace:  *)
(* what is true of its files and of the memory of its processes at every   *)
(* moment, whichever of them moves next.                                   *)
(***************************************************************************)
EXTENDS WorkspaceProperties

\* Locations of a command that knows the operation of a published manifest.
Opened == {"read", "append", "inspect", "artifact", "place", "remove", "unlink"}

\* Locations before the journal is read or written.
Unread == {"idle", "root", "make root", "mark root", "workspace", "make workspace",
           "marker", "mark workspace", "transaction", "make transaction", "manifest",
           "open", "read"}

BeginOnly == {"workspace", "make workspace", "marker", "mark workspace",
              "transaction", "make transaction", "manifest"}

NeverBegin == {"open", "read", "inspect", "artifact", "place", "remove", "unlink"}

\* The number of the record that takes a transaction to state s.
Rank(s) ==
  CASE s = "proposed"              -> 0
    [] s = "awaiting_confirmation" -> 1
    [] s = "ready"                 -> 2
    [] s = "staging"               -> 3
    [] s \in {"committing", "recovery_required"} -> 4
    [] s \in {"committed", "rolling_back"}       -> 5
    [] OTHER                       -> 6

Holding(p) == pc[p] \in Publishing /\ pub[p] \in {"recheck", "rename"}

\* Publication is exclusive: a process past the creation of its temporary file
\* owns it, and at the rename the target is still absent.
PublishInv ==
  /\ \A p \in Proc : pc[p] \notin Publishing => pub[p] = "check"
  /\ \A p \in Proc : Holding(p) => Target(p) \in pending
  /\ \A p, q \in Proc : Holding(p) /\ Holding(q) /\ Target(p) = Target(q) => p = q
  /\ \A p \in Proc : Holding(p) /\ pub[p] = "rename" => ~ TargetExists(p)

\* What a command knows of itself.
CommandOK(p) ==
  /\ pc[p] # "idle" => job[p].cmd \in Command
  /\ pc[p] \in BeginOnly => job[p].cmd = "begin"
  /\ job[p].cmd = "begin" => job[p].op \in Operation
  /\ pc[p] \in NeverBegin => job[p].cmd # "begin"
  /\ pc[p] \in Opened => job[p].op = manifest[job[p].txn] /\ job[p].op # "none"
  /\ pc[p] \in Opened /\ job[p].cmd \in Operation => job[p].op = job[p].cmd
  /\ pc[p] \in Unread => seen[p] = <<>>

CommandInv == \A p \in Proc : CommandOK(p)

\* A journal path is as long as its state's rank and fits the operation o.
PathInv(path, o) ==
  /\ Len(path) = Rank(StateOf(path))
  /\ StateOf(path) \in {"committing", "committed"} => o = "commit"
  /\ StateOf(path) \in {"recovery_required", "rolling_back", "rolled_back"} => o = "interruption"

\* Where a command can be that knows the journal to show state s.
PlaceFits(l, c, s) ==
  /\ l = "append" /\ c = "begin" => s \in {"proposed", "awaiting_confirmation", "ready"}
  /\ l = "append" /\ c = "recover" => s \in Recoverable
  /\ l = "append" /\ c \in Operation => s \in Recoverable \cup {"staging"}
  /\ l = "inspect" => s \in Recoverable
  /\ l \in {"artifact", "place"} => s \in {"committing", "recovery_required"}
  /\ l \in {"remove", "unlink"} => s = "rolling_back"

\* What a process knows of the journal was published, and its location fits.
SeenOK(p) ==
  pc[p] \in Opened =>
    /\ PathInv(seen[p], job[p].op)
    /\ seen[p] # <<>> => journal[job[p].txn][Len(seen[p])] = seen[p]
    /\ PlaceFits(pc[p], job[p].cmd, StateOf(seen[p]))
    /\ pc[p] = "append" /\ StateOf(seen[p]) = "committing" => artifact[job[p].txn] = "commit"

SeenInv == \A p \in Proc : SeenOK(p)

\* The published records.
RecordOK(t, n) ==
  journal[t][n] # <<>> =>
    /\ manifest[t] # "none"
    /\ Len(journal[t][n]) = n
    /\ PathInv(journal[t][n], manifest[t])
    /\ Extends(journal[t][n], IF n = 1 THEN <<>> ELSE journal[t][n - 1])
    /\ StateOf(journal[t][n]) = "committed" => artifact[t] = "commit"

JournalInv == \A t \in Txn : \A n \in 1 .. LastSequence : RecordOK(t, n)

\* Directories appear below marked ones only.
TreeInv ==
  /\ OwnedTree
  /\ \A p \in Proc : pc[p] \notin {"idle", "root", "make root", "mark root", "done"} => Root \in marked
  /\ \A p \in Proc : pc[p] \in {"transaction", "make transaction", "manifest"} =>
                       Home[job[p].txn] \in marked

\* The inductive invariant: the safety properties follow from it, and every step
\* of every process keeps it.
IInv == TypeOK /\ PublishInv /\ CommandInv /\ SeenInv /\ JournalInv /\ SingleBeginner /\ TreeInv
=============================================================================
