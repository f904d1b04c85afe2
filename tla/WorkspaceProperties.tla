------------------------- MODULE WorkspaceProperties -------------------------
(***************************************************************************)
(* What the controlled workspace must guarantee, whatever its processes    *)
(* interleave and wherever they stop.                                      *)
(***************************************************************************)
EXTENDS ControlledWorkspace

TypeOK ==
  /\ made \subseteq Dir
  /\ marked \subseteq {Root} \cup Workspace
  /\ manifest \in [Txn -> Operation \cup {"none"}]
  /\ journal \in [Txn -> [1 .. LastSequence -> Seq(Transition)]]
  /\ artifact \in [Txn -> Operation \cup {"none"}]
  /\ pending \subseteq Record
  /\ pc \in [Proc -> Location]
  /\ pub \in [Proc -> {"check", "stage", "recheck", "rename"}]
  /\ job \in [Proc -> [cmd : Command \cup {"none"}, txn : Txn, op : Operation \cup {"none"}]]
  /\ seen \in [Proc -> Seq(Transition)]
  /\ aborts \in 0 .. MaxAborts

\* Some published record says that t reached state s.
Reached(t, s) == \E n \in 1 .. LastSequence : journal[t][n] # <<>> /\ StateOf(journal[t][n]) = s

\* The state the whole journal shows.
JournalState(t) ==
  StateOf(LastRecord(t, CHOOSE n \in 0 .. LastSequence :
            \A i \in 1 .. LastSequence : journal[t][i] # <<>> <=> i <= n))

-----------------------------------------------------------------------------
(* Safety.                                                                 *)

\* Nothing is ever put below a root or a workspace whose ownership record is
\* not published: an unmarked directory left by a crash is not adopted.
OwnedTree ==
  /\ made \cap (Workspace \cup Txn) # {} => Root \in marked
  /\ \A t \in Txn \cap made : Home[t] \in marked

\* The journal files of a transaction are always one that read_journal accepts:
\* no interleaving of two processes and no crash leaves a gap, a fork, a broken
\* checksum chain or a transition that is not allowed.
JournalChain == \A t \in Txn : \E n \in 0 .. LastSequence : JournalIs(t, n)

\* A transaction follows the path of the operation its manifest binds, even
\* when two processes confirm it with different operations at the same time.
OperationBound ==
  \A t \in Txn :
    /\ (\E n \in 1 .. LastSequence : journal[t][n] # <<>>) => manifest[t] # "none"
    /\ \A s \in {"committing", "committed"} : Reached(t, s) => manifest[t] = "commit"
    /\ \A s \in {"recovery_required", "rolling_back", "rolled_back"} :
          Reached(t, s) => manifest[t] = "interruption"

\* ADR 0008: the journal cannot claim committed unless the manifest and the
\* owned file agree, now and for good.
CommittedHasArtifact ==
  \A t \in Txn : Reached(t, "committed") => manifest[t] = "commit" /\ artifact[t] = "commit"

\* At most one process writes the opening records of a transaction: its
\* identity is used once, although the existence check of the transaction
\* directory does not exclude a second process.
SingleBeginner ==
  \A p, q \in Proc :
    (/\ pc[p] = "append" /\ pc[q] = "append" /\ job[p].cmd = "begin" /\ job[q].cmd = "begin"
     /\ job[p].txn = job[q].txn) => p = q

\* A transaction journaled as rolled back has lost its artifact.
RolledBackIsClean == \A t \in Txn : Reached(t, "rolled_back") => artifact[t] = "none"

\* A published manifest or journal record is never replaced or removed, and an
\* artifact disappears only in the rollback of an interruption.
RecordsImmutable ==
  [][\A t \in Txn :
       /\ manifest[t] # "none" => manifest'[t] = manifest[t]
       /\ \A n \in 1 .. LastSequence : journal[t][n] # <<>> => journal'[t][n] = journal[t][n]
       /\ artifact[t] # "none" /\ artifact'[t] # artifact[t] =>
            /\ artifact'[t] = "none"
            /\ manifest[t] = "interruption" /\ Reached(t, "rolling_back")]_vars

\* p found directory d absent and has not come to the end of marking it.
Initialising(p, d) ==
  \/ d = Root /\ pc[p] \in {"make root", "mark root"}
  \/ d = Home[job[p].txn] /\ pc[p] \in {"make workspace", "marker", "mark workspace"}

Orphan(d) == d \in made \ marked /\ \A p \in Proc : ~ Initialising(p, d)

\* A root or workspace whose creator stopped before marking it stays refused:
\* no later command of any process takes it over.
OrphansStay == [][\A d \in {Root} \cup Workspace : Orphan(d) => Orphan(d)']_vars

-----------------------------------------------------------------------------
(* Liveness.  A command is straight-line code of a running process, so     *)
(* every step of it is weakly fair.  That recovery is tried again is the   *)
(* operator's doing: recover is invoked again and again.                   *)

Fairness ==
  \A p \in Proc : /\ WF_vars(Step(p))
                  /\ \A t \in Txn : SF_vars(Invoke(p, "recover", t))

FairSpec == Spec /\ Fairness

InDoubt(t) == JournalState(t) \in Recoverable

\* A temporary record of t that no process will rename any more.
Wedged(t) ==
  \E r \in pending \cap (EventRecord(t) \cup {<<"artifact", t, 0>>}) :
    \A p \in Proc : ~ (pc[p] \in Publishing /\ pub[p] \in {"recheck", "rename"} /\ Target(p) = r)

\* An interrupted transaction reaches committed or rolled_back when recovery is
\* repeated, unless an unpublished record of it is left behind.
RecoveryCompletes ==
  \A t \in Txn : InDoubt(t) ~> (JournalState(t) \in Terminal \/ Wedged(t))

-----------------------------------------------------------------------------
(* Applications that keep apart implement the transaction protocol.        *)

\* Locations of a command that has read the journal, or begins it, and is not
\* through with the transaction.
Working == {"append", "inspect", "artifact", "place", "remove", "unlink"}

\* No two commands are at work on one transaction.
Separate ==
  \A p, q \in Proc :
    pc[p] \in Working /\ pc[q] \in Working /\ job[p].txn = job[q].txn => p = q

\* Any number of applications, of which a command that would come to a transaction
\* another is at work on waits.
SeparateSpec == Init /\ [][Next /\ Separate']_vars

Protocol == INSTANCE TransactionProtocol
              WITH op <- manifest, state <- [t \in Txn |-> JournalState(t)]

\* Each effect on the files is a step of the abstract protocol or invisible to
\* it, crashes included.
ImplementsProtocol == Protocol!Spec

=============================================================================
