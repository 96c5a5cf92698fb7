----------------------------- MODULE FileConfig -----------------------------
(***************************************************************************)
(* FileConfig (crates/secrets-federation/src/file.rs): one file shared by  *)
(* processes.  A change locks the sibling lock file, loads, writes a fresh *)
(* file beside the old one, syncs it, renames it over the old one and      *)
(* syncs the directory.  A reader takes no lock.  Any step may fail, any   *)
(* process may die between two steps, and the machine may lose power.      *)
(***************************************************************************)
EXTENDS ConfigDocument, Naturals

CONSTANTS
  Client,     \* processes with one call in flight each
  Changes,    \* the changes they ask for
  Written,    \* the documents a file made by hand may hold at the start
  NoChange, Nobody,
  Torn,       \* the content of a file written in part: not valid TOML
  MaxCalls,   \* bound: changes asked for
  MaxFaults,  \* bound: failed steps and deaths
  MaxLosses   \* bound: losses of power

ASSUME FileConfigAssumption ==
  /\ Changes \subseteq Change /\ NoChange \notin Change
  /\ Written \subseteq Document /\ Torn \notin Document
  /\ Nobody \notin Client
  /\ MaxCalls \in Nat /\ MaxFaults \in Nat /\ MaxLosses \in Nat

VARIABLES
  file,     \* what the configured path names: its content, and whether that is on the disk
  durable,  \* what the path may name after a loss of power
  staged,   \* what each process will rename: in memory, then in a temporary file of its own
  lock,     \* who holds the flock on <file>.lock
  pc, pending, reply,
  calls, faults, losses

files == <<file, durable, staged>>
bounds == <<calls, faults, losses>>
vars == <<files, lock, pc, pending, reply, bounds>>

Answer(code) == [code |-> code, seen |-> Absent]
File == [content : Document \cup {Torn}, synced : BOOLEAN]
NoFile == [content |-> EmptyDocument, synced |-> FALSE]
OnDisk(doc) == [content |-> doc, synced |-> TRUE]

\* Document::parse, of every content but Torn.
Parse(content) == WithDefault(content)

TypeOK ==
  /\ file \in File /\ durable \subseteq File /\ staged \in [Client -> File]
  /\ lock \in Client \cup {Nobody}
  /\ pc \in [Client -> {"idle", "opening", "locking", "loading", "staging",
                        "syncing", "renaming", "settling", "unlocking"}]
  /\ pending \in [Client -> Changes \cup {NoChange}]
  /\ \A c \in Client : pc[c] # "idle" => pending[c] \in Changes
  /\ reply \in [Client -> [code : {"none", "Ok", "Conflict", "NotFound", "Unavailable", "Died"},
                           seen : Backend \cup {NoMount, Absent}]]
  /\ calls \in 0 .. MaxCalls /\ faults \in 0 .. MaxFaults /\ losses \in 0 .. MaxLosses

\* A missing file reads like an empty one.
Init ==
  /\ \E doc \in Written \cup {EmptyDocument} : file = OnDisk(doc)
  /\ durable = {file}
  /\ staged = [c \in Client |-> NoFile]
  /\ lock = Nobody
  /\ pc = [c \in Client |-> "idle"]
  /\ pending = [c \in Client |-> NoChange]
  /\ reply = [c \in Client |-> Answer("none")]
  /\ calls = 0 /\ faults = 0 /\ losses = 0

Goto(c, label) == pc' = [pc EXCEPT ![c] = label]

\* The end of a call: its file handles are closed, which releases the lock.
Ends(c, code) ==
  /\ Goto(c, "idle")
  /\ pending' = [pending EXCEPT ![c] = NoChange]
  /\ reply' = [reply EXCEPT ![c] = Answer(code)]
  /\ lock' = IF lock = c THEN Nobody ELSE lock

Call(c, ch) ==
  /\ pc[c] = "idle" /\ calls < MaxCalls
  /\ calls' = calls + 1
  /\ pending' = [pending EXCEPT ![c] = ch]
  /\ Goto(c, "opening")
  /\ UNCHANGED <<files, lock, reply, faults, losses>>

OpenForgetful(c) ==  \* mutant
  /\ pc[c] = "opening" /\ Goto(c, "locking")
  /\ pending' = [pending EXCEPT ![c] = NoChange]
  /\ UNCHANGED <<files, lock, reply, bounds>>
\* The directory and the lock file are created unless they exist.
Open(c) ==
  /\ pc[c] = "opening" /\ Goto(c, "locking")
  /\ UNCHANGED <<files, lock, pending, reply, bounds>>
AcquireShared(c) ==  \* mutant
  /\ pc[c] = "locking"
  /\ lock' = c
  /\ Goto(c, "loading")
  /\ UNCHANGED <<files, pending, reply, bounds>>
Acquire(c) ==
  /\ pc[c] = "locking" /\ lock = Nobody
  /\ lock' = c
  /\ Goto(c, "loading")
  /\ UNCHANGED <<files, pending, reply, bounds>>

\* load and change; a refused change writes nothing.
LoadRefused(c) ==
  /\ pc[c] = "loading"
  /\ \/ file.content = Torn /\ Ends(c, "Unavailable")
     \/ /\ file.content # Torn
        /\ Verdict(Parse(file.content), pending[c]) # "Ok"
        /\ Ends(c, Verdict(Parse(file.content), pending[c]))
  /\ UNCHANGED <<files, bounds>>
LoadAccepted(c) ==
  /\ pc[c] = "loading" /\ file.content # Torn
  /\ Verdict(Parse(file.content), pending[c]) = "Ok"
  /\ staged' = [staged EXCEPT ![c].content = Apply(Parse(file.content), pending[c])]
  /\ Goto(c, "staging")
  /\ UNCHANGED <<file, durable, lock, pending, reply, bounds>>

\* replace: the temporary file is created (create_new) and written ...
Stage(c) ==
  /\ pc[c] = "staging" /\ Goto(c, "syncing")
  /\ UNCHANGED <<files, lock, pending, reply, bounds>>
SkipSync(c) ==  \* mutant
  /\ pc[c] = "syncing" /\ Goto(c, "renaming")
  /\ UNCHANGED <<files, lock, pending, reply, bounds>>
\* ... synced ...
SyncFile(c) ==
  /\ pc[c] = "syncing"
  /\ staged' = [staged EXCEPT ![c].synced = TRUE]
  /\ Goto(c, "renaming")
  /\ UNCHANGED <<file, durable, lock, pending, reply, bounds>>
\* ... renamed over the path, where readers see it at once ...
Rename(c) ==
  /\ pc[c] = "renaming"
  /\ file' = staged[c]
  /\ durable' = durable \cup {staged[c]}
  /\ staged' = [staged EXCEPT ![c] = NoFile]
  /\ Goto(c, "settling")
  /\ UNCHANGED <<lock, pending, reply, bounds>>
SkipDirectory(c) ==  \* mutant
  /\ pc[c] = "settling" /\ Goto(c, "unlocking")
  /\ UNCHANGED <<files, lock, pending, reply, bounds>>
\* ... and the directory is synced, so that the new name survives.
SyncDirectory(c) ==
  /\ pc[c] = "settling"
  /\ durable' = {file}
  /\ Goto(c, "unlocking")
  /\ UNCHANGED <<file, staged, lock, pending, reply, bounds>>
Finish(c) == pc[c] = "unlocking" /\ Ends(c, "Ok") /\ UNCHANGED <<files, bounds>>

\* Any step but the last may fail; the temporary file is then removed, and a
\* rename that has happened stays.
Fail(c) ==
  /\ pc[c] \notin {"idle", "unlocking"} /\ faults < MaxFaults
  /\ faults' = faults + 1
  /\ staged' = [staged EXCEPT ![c] = NoFile]
  /\ Ends(c, "Unavailable")
  /\ UNCHANGED <<file, durable, calls, losses>>

DieHoldingLock(c) ==  \* mutant
  /\ pc[c] # "idle" /\ faults < MaxFaults
  /\ faults' = faults + 1
  /\ staged' = [staged EXCEPT ![c] = NoFile]
  /\ Goto(c, "idle")
  /\ pending' = [pending EXCEPT ![c] = NoChange]
  /\ reply' = [reply EXCEPT ![c] = Answer("Died")]
  /\ UNCHANGED <<file, durable, lock, calls, losses>>
\* The process dies.  The kernel releases its lock; its temporary file is left
\* behind under a name (process id, nanoseconds) that nobody opens again.
Die(c) ==
  /\ pc[c] # "idle" /\ faults < MaxFaults
  /\ faults' = faults + 1
  /\ staged' = [staged EXCEPT ![c] = NoFile]
  /\ Ends(c, "Died")
  /\ UNCHANGED <<file, durable, calls, losses>>

\* A lookup reads the file once, without the lock.
Look(c, k) ==
  /\ pc[c] = "idle"
  /\ reply' = [reply EXCEPT ![c] =
       IF file.content = Torn THEN Answer("Unavailable")
       ELSE [code |-> "Ok", seen |-> Parse(file.content).namespaces[k]]]
  /\ UNCHANGED <<files, lock, pc, pending, bounds>>

\* Power is lost.  The path names any file it may name, and one that was not
\* synced may be cut short, to nothing at worst.
Survivors ==
  durable \cup {[content |-> cut, synced |-> TRUE] :
                 cut \in {x \in {Torn, EmptyDocument} : \E f \in durable : ~f.synced}}
Loss ==
  /\ losses < MaxLosses
  /\ losses' = losses + 1
  /\ \E f \in Survivors : file' = [f EXCEPT !.synced = TRUE]
  /\ durable' = {file'}
  /\ staged' = [c \in Client |-> NoFile]
  /\ lock' = Nobody
  /\ pc' = [c \in Client |-> "idle"]
  /\ pending' = [c \in Client |-> NoChange]
  /\ reply' = [c \in Client |-> IF pc[c] = "idle" THEN reply[c] ELSE Answer("Died")]
  /\ UNCHANGED <<calls, faults>>

Step(c) ==
  \/ Open(c) \/ Acquire(c) \/ LoadRefused(c) \/ LoadAccepted(c)
  \/ Stage(c) \/ SyncFile(c) \/ Rename(c) \/ SyncDirectory(c) \/ Finish(c)
Next ==
  \/ \E c \in Client :
       \/ \E ch \in Changes : Call(c, ch)
       \/ Step(c) \/ Fail(c) \/ Die(c)
       \/ \E k \in Namespace : Look(c, k)
  \/ Loss
Spec == Init /\ [][Next]_vars

\* A process that runs takes its next step; calls are finite, so weak fairness
\* lets everyone through the lock in the end.
FairSpec == Spec /\ \A c \in Client : WF_vars(Step(c))

-----------------------------------------------------------------------------
(***************************************************************************)
(* "A reader never sees a partly written file" (file.rs:29): not while a   *)
(* change is being written, and not after a death or a loss of power.      *)
(***************************************************************************)
WholeFile == file.content # Torn

(***************************************************************************)
(* A change that is answered Ok is in every file that a loss of power can  *)
(* leave: replace syncs the file before the rename and the directory after *)
(* it, and no change of another process comes between load and answer.     *)
(***************************************************************************)
AnsweredIsDurable ==
  [][\A c \in Client : (pc[c] = "unlocking" /\ reply'[c].code = "Ok") =>
       \A f \in durable' : f.synced /\ f.content # Torn /\ Reflects(Parse(f.content), pending[c])]_vars

(***************************************************************************)
(* change is atomic: every behaviour of the file is one of the store of    *)
(* NamespaceConfig, where changes take effect one after another.           *)
(***************************************************************************)
Stages == [c \in Client |->
  CASE pc[c] = "idle" -> "idle"
    [] pc[c] = "settling" -> "taken"
    [] pc[c] = "unlocking" -> "kept"
    [] OTHER -> "called"]
Store == INSTANCE NamespaceConfig
  WITH document <- Parse(file.content),
       durable <- {Parse(f.content) : f \in durable},
       stage <- Stages
Refinement == Store!CSpec

(***************************************************************************)
(* A change is answered unless its process dies: also when another one     *)
(* died while it held the lock.                                            *)
(***************************************************************************)
ChangesAnswered == \A c \in Client : pc[c] # "idle" ~> pc[c] = "idle"
=============================================================================
