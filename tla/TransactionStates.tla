-------------------------- MODULE TransactionStates --------------------------
(***************************************************************************)
(* The states of a controlled-workspace transaction and the transitions    *)
(* between them: the ones the desktop module journals                      *)
(* (controlled_workspace.rs) and the ones the executor contract of         *)
(* packages/shared-types allows (localExecutor.ts).                        *)
(***************************************************************************)
EXTENDS Sequences

Operation == {"commit", "interruption"}

TxState == {"proposed", "awaiting_confirmation", "ready", "staging",
            "committing", "committed",
            "recovery_required", "rolling_back", "rolled_back"}

Transition == TxState \X TxState

\* The transitions append_event writes and read_journal accepts.
AllowedTransition ==
  { <<"proposed", "awaiting_confirmation">>,
    <<"awaiting_confirmation", "ready">>,
    <<"ready", "staging">>,
    <<"staging", "committing">>,
    <<"committing", "committed">>,
    <<"staging", "recovery_required">>,
    <<"recovery_required", "rolling_back">>,
    <<"rolling_back", "rolled_back">> }

\* States recover answers with a no-op.
Terminal == {"committed", "rolled_back"}

\* States recover works on.
Recoverable == {"committing", "recovery_required", "rolling_back"}

\* The state the next journal event after state s records.  Only staging has two
\* successors: the commit command takes the one, the interruption the other.
Successor(s, c) ==
  CASE s = "proposed"              -> "awaiting_confirmation"
    [] s = "awaiting_confirmation" -> "ready"
    [] s = "ready"                 -> "staging"
    [] s = "staging" /\ c = "commit"       -> "committing"
    [] s = "staging" /\ c # "commit"       -> "recovery_required"
    [] s = "committing"            -> "committed"
    [] s = "recovery_required"     -> "rolling_back"
    [] OTHER                       -> "rolled_back"

-----------------------------------------------------------------------------
(* A journal record stands for everything its checksum covers: its own     *)
(* transition and, through previousChecksum, every transition before it.   *)
(* So a record is the sequence of transitions up to its own, and the empty *)
(* sequence is the journal before its first record.                        *)

StateOf(path) == IF path = <<>> THEN "proposed" ELSE path[Len(path)][2]

\* What read_journal asks of a record e that follows the record prev.
Extends(e, prev) ==
  \E to \in TxState : /\ e = Append(prev, <<StateOf(prev), to>>)
                      /\ <<StateOf(prev), to>> \in AllowedTransition

-----------------------------------------------------------------------------
(* TRANSITIONS of the pure executor contract (packages/shared-types).      *)

ContractSuccessors ==
  [ proposed              |-> {"awaiting_confirmation"},
    awaiting_confirmation |-> {"ready", "cancelled"},
    ready                 |-> {"staging", "cancelled"},
    staging               |-> {"verifying", "rolling_back", "failed", "recovery_required"},
    verifying             |-> {"committing", "rolling_back", "failed", "recovery_required"},
    committing            |-> {"committed", "rolling_back", "failed", "recovery_required"},
    committed             |-> {},
    rolling_back          |-> {"rolled_back", "recovery_required"},
    rolled_back           |-> {},
    recovery_required     |-> {"rolling_back"},
    failed                |-> {"rolling_back", "recovery_required"},
    cancelled             |-> {} ]

CanTransition(from, to) == to \in ContractSuccessors[from]
=============================================================================
