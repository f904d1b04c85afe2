------------------------- MODULE TransactionProtocol -------------------------
(***************************************************************************)
(* What the controlled workspace promises about its transactions, without  *)
(* files, processes or crashes: a transaction is bound once to the         *)
(* confirmed operation, its state only follows the operation's path, the   *)
(* artifact exists before the transaction is committed and is gone before  *)
(* it is rolled back.                                                      *)
(***************************************************************************)
EXTENDS TransactionStates

CONSTANT Txn

VARIABLES op,        \* op[t]: the operation t is bound to, or "none"
          state,     \* state[t]: the state t is known to be in
          artifact   \* artifact[t]: the operation whose marker t holds, or "none"

pvars == <<op, state, artifact>>

ProtocolTypeOK ==
  /\ op \in [Txn -> Operation \cup {"none"}]
  /\ state \in [Txn -> TxState]
  /\ artifact \in [Txn -> Operation \cup {"none"}]

Init ==
  /\ op = [t \in Txn |-> "none"]
  /\ state = [t \in Txn |-> "proposed"]
  /\ artifact = [t \in Txn |-> "none"]

\* The transaction identity is bound to one confirmed operation, once.
Bind(t, o) ==
  /\ op[t] = "none"
  /\ op' = [op EXCEPT ![t] = o]
  /\ UNCHANGED <<state, artifact>>

\* The next state becomes durable; terminal states have none.
Advance(t) ==
  /\ op[t] # "none"
  /\ state[t] \notin Terminal
  /\ LET to == Successor(state[t], op[t]) IN
       /\ to = "committed" => artifact[t] = "commit"
       /\ to = "rolled_back" => artifact[t] = "none"
       /\ state' = [state EXCEPT ![t] = to]
  /\ UNCHANGED <<op, artifact>>

Place(t) ==
  /\ state[t] \in {"committing", "recovery_required"}
  /\ artifact[t] = "none"
  /\ artifact' = [artifact EXCEPT ![t] = op[t]]
  /\ UNCHANGED <<op, state>>

Remove(t) ==
  /\ state[t] = "rolling_back"
  /\ artifact' = [artifact EXCEPT ![t] = "none"]
  /\ UNCHANGED <<op, state>>

Next ==
  \E t \in Txn : \/ \E o \in Operation : Bind(t, o)
                 \/ Advance(t)
                 \/ Place(t)
                 \/ Remove(t)

Spec == Init /\ [][Next]_pvars
=============================================================================
