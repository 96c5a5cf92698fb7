------------------------------ MODULE MCRemote ------------------------------
(***************************************************************************)
(* An instance of RemoteRaces for TLC: two callers and two names of one    *)
(* scope.                                                                  *)
(***************************************************************************)
EXTENDS RemoteRaces, TLC

CONSTANTS n1, n2, b1, b2, t1

OneTenant == [x \in Name \cup Batch |-> t1]

On(op, n) == [op |-> op, name |-> n]
Rename(n, m) == [op |-> "rename", name |-> n, new_name |-> m]
AllRequests ==
  {On(op, n) : op \in {"read", "write", "delete"}, n \in Name}
  \cup {Rename(n1, n2), Rename(n2, n1), [op |-> "list"]}
Symmetry == Permutations(Client) \cup Permutations(Name) \cup Permutations(Batch)
=============================================================================
