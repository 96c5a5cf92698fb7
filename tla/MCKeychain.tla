----------------------------- MODULE MCKeychain -----------------------------
(***************************************************************************)
(* An instance of KeychainBackend for TLC: two names, two operations at a  *)
(* time in one process, and another process that deletes one of the names. *)
(***************************************************************************)
EXTENDS KeychainBackend, TLC

CONSTANTS a, b, p1, p2, c1, c2, c3

TwoProcesses == [c \in Client |-> IF c = c3 THEN p2 ELSE p1]

On(op, n) == [op |-> op, name |-> n]
Rename(n, m) == [op |-> "rename", name |-> n, new_name |-> m]
OwnRequests ==
  {On(op, n) : op \in {"read", "write", "delete"}, n \in {a, b}}
  \cup {Rename(a, b), [op |-> "list"]}
RequestsOf == [c \in Client |-> IF c = c3 THEN {On("delete", a)} ELSE OwnRequests]
ClientSymmetry == Permutations({c1, c2})
=============================================================================
