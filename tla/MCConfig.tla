------------------------------ MODULE MCConfig ------------------------------
(***************************************************************************)
(* An instance of FileConfig for TLC: two processes that add, remove,      *)
(* remount and bind over one file, which may have been made by hand.       *)
(***************************************************************************)
EXTENDS FileConfig

CONSTANTS p1, p2, dn, wn, kc, rm, n1, loc

ConfigChanges ==
  {[op |-> "insert_namespace", key |-> wn, mount |-> rm],
   [op |-> "remove_namespace", key |-> wn],
   [op |-> "set_mount", key |-> wn, mount |-> kc],
   [op |-> "insert_binding", address |-> <<wn, n1>>, locator |-> loc],
   [op |-> "remove_binding", address |-> <<wn, n1>>]}

\* A file made by hand: no record of the default namespace.
HandWritten == {[EmptyDocument EXCEPT !.namespaces[wn] = NoMount]}
=============================================================================
