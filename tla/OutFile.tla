------------------------------- MODULE OutFile -------------------------------
(***************************************************************************)
(* Where `secretsctl read` puts a value (crates/secretsctl/src/out.rs, and *)
(* read in local.rs): processes read into one path of one directory, each  *)
(* through a temporary file that it links into place, while other programs *)
(* put things at the path and take them away, steps fail, processes die    *)
(* and power is lost.  Nothing syncs the directory.  Names of temporary    *)
(* files never meet: they hold eight random bytes.                         *)
(***************************************************************************)
EXTENDS Naturals, FiniteSets

CONSTANTS
  Process,
  Nothing,      \* the path names nothing
  MaxFaults,    \* bound on failures, deaths and losses of power
  MaxOthers     \* bound on what other programs do to the path

ASSUME OutAssumption == Nothing \notin Process /\ MaxFaults \in Nat /\ MaxOthers \in Nat

VARIABLES
  path,     \* Nothing, what another program put there, or the process whose file it is
  temp,     \* the processes whose temporary name is in the directory
  content,  \* what a process's file holds: part of its value, or all of it
  synced,   \* the files whose content and mode were synced
  private,  \* the files whose mode was set to exactly 0600; a umask leaves less
  placed,   \* the processes whose link was made
  pc, answer,
  faults, others

file == <<content, synced, private>>
vars == <<path, temp, file, placed, pc, answer, faults, others>>

Foreign == {"file", "symlink", "directory"}
Contents == {"empty", "part", "whole"}
Steps == {"start", "create", "mode", "ask", "write", "sync", "link", "drop", "report"}
Running == Steps \ {"start"}  \* "start" is a command nobody has run yet
Ended == {"done", "dead"}
Refusals == {"Exists", "Symlink", "Unwritable"}
Answers == Refusals \cup {"none", "storage", "read", "report"}

ASSUME ForeignAssumption == Process \cap Foreign = {} /\ Nothing \notin Foreign

TypeOK ==
  /\ path \in {Nothing} \cup Foreign \cup Process
  /\ temp \subseteq Process /\ synced \subseteq Process
  /\ private \subseteq Process /\ placed \subseteq Process
  /\ content \in [Process -> Contents]
  /\ pc \in [Process -> Steps \cup Ended] /\ answer \in [Process -> Answers]
  /\ faults \in Nat /\ others \in Nat

Init ==
  /\ path \in {Nothing} \cup Foreign
  /\ temp = {} /\ synced = {} /\ private = {} /\ placed = {}
  /\ content = [p \in Process |-> "empty"]
  /\ pc = [p \in Process |-> "start"] /\ answer = [p \in Process |-> "none"]
  /\ faults = 0 /\ others = 0

Goes(p, to) == pc' = [pc EXCEPT ![p] = to] /\ UNCHANGED answer
AnswersWith(p, to, a) == pc' = [pc EXCEPT ![p] = to] /\ answer' = [answer EXCEPT ![p] = a]
Fails == faults < MaxFaults /\ faults' = faults + 1

-----------------------------------------------------------------------------
(* read: the path is checked and the temporary file made before any backend *)
(* is asked.                                                                *)

\* Whatever is at the path is refused, a dangling link too.
Check(p) ==
  /\ pc[p] = "start"
  /\ \/ path = Nothing /\ Goes(p, "create") /\ UNCHANGED faults
     \/ path = "symlink" /\ AnswersWith(p, "done", "Symlink") /\ UNCHANGED faults
     \/ path \notin {Nothing, "symlink"} /\ AnswersWith(p, "done", "Exists") /\ UNCHANGED faults
     \/ Fails /\ AnswersWith(p, "done", "Unwritable")
  /\ UNCHANGED <<path, temp, file, placed, others>>

\* Created exclusively, with mode 0600 less the umask.
CreateTemp(p) ==
  /\ pc[p] = "create"
  /\ \/ Goes(p, "mode") /\ temp' = temp \cup {p} /\ UNCHANGED faults
     \/ Fails /\ AnswersWith(p, "done", "Unwritable") /\ UNCHANGED temp
  /\ UNCHANGED <<path, file, placed, others>>

SetMode(p) ==
  /\ pc[p] = "mode"
  /\ \/ Goes(p, "ask") /\ private' = private \cup {p} /\ UNCHANGED faults
     \/ Fails /\ AnswersWith(p, "drop", "Unwritable") /\ UNCHANGED private
  /\ UNCHANGED <<path, temp, content, synced, placed, others>>

AskKeeping(p) ==  \* mutant
  /\ pc[p] = "ask"
  /\ Goes(p, "write") \/ AnswersWith(p, "done", "storage")
  /\ UNCHANGED <<path, temp, file, placed, faults, others>>
\* The port answers the value or refuses it, and a refusal drops the pending file.
Ask(p) ==
  /\ pc[p] = "ask"
  /\ Goes(p, "write") \/ AnswersWith(p, "drop", "storage")
  /\ UNCHANGED <<path, temp, file, placed, faults, others>>

\* write_all: the value arrives in parts.
Write(p) ==
  /\ pc[p] = "write"
  /\ \/ /\ content[p] # "whole" /\ Goes(p, "write") /\ UNCHANGED faults
        /\ content' = [content EXCEPT ![p] = IF @ = "empty" THEN "part" ELSE "whole"]
     \/ content[p] = "whole" /\ Goes(p, "sync") /\ UNCHANGED <<content, faults>>
     \/ Fails /\ AnswersWith(p, "drop", "Unwritable") /\ UNCHANGED content
  /\ UNCHANGED <<path, temp, synced, private, placed, others>>

SkipSync(p) ==  \* mutant
  /\ pc[p] = "sync" /\ Goes(p, "link")
  /\ UNCHANGED <<path, temp, file, placed, faults, others>>
SyncFile(p) ==
  /\ pc[p] = "sync"
  /\ \/ Goes(p, "link") /\ synced' = synced \cup {p} /\ UNCHANGED faults
     \/ Fails /\ AnswersWith(p, "drop", "Unwritable") /\ UNCHANGED synced
  /\ UNCHANGED <<path, temp, content, private, placed, others>>

RenameOver(p) ==  \* mutant
  /\ pc[p] = "link" /\ path' = p /\ placed' = placed \cup {p} /\ Goes(p, "drop")
  /\ UNCHANGED <<temp, file, faults, others>>
LinkAnyway(p) ==  \* mutant
  /\ pc[p] = "link"
  /\ \/ path = Nothing /\ path' = p /\ placed' = placed \cup {p}
     \/ path # Nothing /\ UNCHANGED <<path, placed>>
  /\ Goes(p, "drop") /\ UNCHANGED <<temp, file, faults, others>>
\* A link replaces nothing: whatever appeared since the check refuses it.
Link(p) ==
  /\ pc[p] = "link"
  /\ \/ /\ path = Nothing /\ path' = p /\ placed' = placed \cup {p}
        /\ Goes(p, "drop") /\ UNCHANGED faults
     \/ path # Nothing /\ AnswersWith(p, "drop", "Exists") /\ UNCHANGED <<path, placed, faults>>
     \/ Fails /\ AnswersWith(p, "drop", "Unwritable") /\ UNCHANGED <<path, placed>>
  /\ UNCHANGED <<temp, file, others>>

\* Pending goes out of scope on every way out; its removal may fail unnoticed.
Drop(p) ==
  /\ pc[p] = "drop"
  /\ \/ temp' = temp \ {p} /\ UNCHANGED faults
     \/ Fails /\ UNCHANGED temp
  /\ Goes(p, IF answer[p] = "none" THEN "report" ELSE "done")
  /\ UNCHANGED <<path, file, placed, others>>

\* The mount of the namespace is looked up again for the report.
Report(p) ==
  /\ pc[p] = "report"
  /\ AnswersWith(p, "done", "read") \/ AnswersWith(p, "done", "report")
  /\ UNCHANGED <<path, temp, file, placed, faults, others>>

-----------------------------------------------------------------------------
\* Another program puts something at the path or takes away what is there.
Other ==
  /\ others < MaxOthers /\ others' = others + 1
  /\ IF path = Nothing THEN path' \in Foreign ELSE path' = Nothing
  /\ UNCHANGED <<temp, file, placed, pc, answer, faults>>

Die(p) ==
  /\ pc[p] \in Running /\ Fails /\ Goes(p, "dead")
  /\ UNCHANGED <<path, temp, file, placed, others>>

\* Every process ends; names and what was not synced may be gone, or be back.
LosePower ==
  /\ Fails
  /\ pc' = [p \in Process |-> IF pc[p] \in Running THEN "dead" ELSE pc[p]]
  /\ \/ path' = path
     \/ path \in Process /\ path' = Nothing
  /\ \E back \in SUBSET {p \in Process : pc[p] # "start"} : temp' = back
  /\ content' \in {c \in [Process -> Contents] :
       \A p \in Process : c[p] # content[p] => p \notin synced /\ c[p] = "part"}
  /\ \E lost \in SUBSET (Process \ synced) : private' = private \ lost
  /\ UNCHANGED <<synced, placed, answer, others>>

Act(p) ==
  \/ Check(p) \/ CreateTemp(p) \/ SetMode(p) \/ Ask(p) \/ Write(p)
  \/ SyncFile(p) \/ Link(p) \/ Drop(p) \/ Report(p)
Next == (\E p \in Process : Act(p) \/ Die(p)) \/ Other \/ LosePower
Spec == Init /\ [][Next]_vars

-----------------------------------------------------------------------------
(***************************************************************************)
(* A new file "that appears whole or not at all", "readable and writable   *)
(* by its owner only" (out.rs:1): whatever fails or dies, and after a loss *)
(* of power, a file of a process at the path holds its whole value and has *)
(* exactly the mode 0600.                                                  *)
(***************************************************************************)
WholeOrNothing == path \in Process => content[path] = "whole" /\ path \in private

(***************************************************************************)
(* "Fails if anything appeared there in the meantime and never replaces    *)
(* it": no step of a process takes the path from what is there, be it      *)
(* another program's or another process's file.                            *)
(***************************************************************************)
NeverReplaces == [][(\E p \in Process : Act(p)) => path' = path \/ path = Nothing]_vars

(***************************************************************************)
(* What read answers tells whether it put a file in place: a refusal of    *)
(* the path or of the storage has left nothing there, the one exception    *)
(* being a report whose second look-up of the mount failed (local.rs:385). *)
(***************************************************************************)
AnswerTellsFile ==
  \A p \in Process : pc[p] = "done" => (p \in placed <=> answer[p] \in {"read", "report"})

(***************************************************************************)
(* "Removed unless commit links it into place", and then too: a command    *)
(* that ended leaves its temporary file behind only if its removal failed  *)
(* or power was lost.                                                      *)
(***************************************************************************)
TempRemoved == faults = 0 => \A p \in temp : pc[p] \in Running
=============================================================================
