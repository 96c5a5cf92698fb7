--------------------------- MODULE KeychainBackend ---------------------------
(***************************************************************************)
(* KeychainBackend (crates/secrets-keychain): the storage port over the    *)
(* credential store of the platform, one entry per name.  Each call to the *)
(* credential store is one step.  Changes of one process run one at a time *)
(* under its mutex; reads and listings do not take it, and other processes *)
(* share nothing but the credential store.                                 *)
(***************************************************************************)
EXTENDS Naturals

CONSTANTS
  Client,     \* operations in flight, each on a blocking thread of its own
  Process, ProcessOf,
  Name,       \* the names of one scope
  Requests,   \* [Client -> what may be asked of it]
  NoRequest, Nobody,
  LateFaults, \* whether a store call that fails may have taken effect
  MaxCalls,   \* bound: operations
  MaxFaults,  \* bound: failed store calls
  MaxDeaths   \* bound: deaths of a process

\* The calls of the port that reach the store, once their address is checked.
Request ==
       [op : {"read", "write", "delete"}, name : Name]
  \cup [op : {"rename"}, name : Name, new_name : Name]
  \cup [op : {"list"}]

ASSUME KeychainAssumption ==
  /\ ProcessOf \in [Client -> Process]
  /\ DOMAIN Requests = Client /\ \A c \in Client : Requests[c] \subseteq Request
  /\ Nobody \notin Client
  /\ LateFaults \in BOOLEAN /\ MaxCalls \in Nat /\ MaxFaults \in Nat /\ MaxDeaths \in Nat

\* An entry is known by its version, which seal makes afresh for every write.
Absent == 0
Version == 0 .. MaxCalls

VARIABLES
  entry,     \* [Name -> Version]: the credential store
  changes,   \* [Process -> who holds its mutex]
  pc, request,
  blob,      \* the entry an operation writes, or has read to move
  outcome,   \* the code it will answer
  listing,   \* what a listing has still to look at, and its rows; began is history
  reply,
  dropped,   \* history: the entries a write or a delete has taken away
  calls, faults, deaths

local == <<request, blob, outcome, listing>>
bounds == <<calls, faults, deaths>>
vars == <<entry, changes, pc, local, reply, dropped, bounds>>

Answer(code) == [code |-> code, version |-> Absent, rows |-> {}]
NoListing == [todo |-> {}, rows |-> {}, began |-> {}]
Held == {n \in Name : entry[n] # Absent}
Versions(rows) == {row[2] : row \in rows}
Codes == {"none", "Ok", "Created", "Replaced", "NotFound", "Conflict", "Unavailable"}

TypeOK ==
  /\ entry \in [Name -> Version]
  /\ changes \in [Process -> Client \cup {Nobody}]
  /\ \A p \in Process : changes[p] # Nobody =>
       ProcessOf[changes[p]] = p /\ pc[changes[p]] \notin {"idle", "lock", "get", "search", "scan"}
  /\ pc \in [Client -> {"idle", "lock", "get", "probe", "set", "remove", "source",
                        "destination", "copy", "clear", "undo", "search", "scan"}]
  /\ DOMAIN request = Client /\ \A c \in Client : request[c] \in Requests[c] \cup {NoRequest}
  /\ blob \in [Client -> Version] /\ outcome \in [Client -> Codes]
  /\ listing \in [Client -> [todo : SUBSET Name, rows : SUBSET (Name \X (Version \ {Absent})),
                             began : SUBSET Version]]
  /\ reply \in [Client -> [code : Codes, version : Version,
                           rows : SUBSET (Name \X (Version \ {Absent}))]]
  /\ dropped \subseteq Version
  /\ calls \in 0 .. MaxCalls /\ faults \in 0 .. MaxFaults /\ deaths \in 0 .. MaxDeaths

Init ==
  /\ entry = [n \in Name |-> Absent]
  /\ changes = [p \in Process |-> Nobody]
  /\ pc = [c \in Client |-> "idle"]
  /\ request = [c \in Client |-> NoRequest]
  /\ blob = [c \in Client |-> Absent]
  /\ outcome = [c \in Client |-> "none"]
  /\ listing = [c \in Client |-> NoListing]
  /\ reply = [c \in Client |-> Answer("none")]
  /\ dropped = {} /\ calls = 0 /\ faults = 0 /\ deaths = 0

Goto(c, label) == pc' = [pc EXCEPT ![c] = label]
Keeps == UNCHANGED <<entry, changes, request, reply, bounds>>
ForgetsLocked(who) ==  \* mutant
  /\ pc' = [c \in Client |-> IF c \in who THEN "idle" ELSE pc[c]]
  /\ UNCHANGED <<changes, local>>
Forgets(who) ==
  /\ pc' = [c \in Client |-> IF c \in who THEN "idle" ELSE pc[c]]
  /\ request' = [c \in Client |-> IF c \in who THEN NoRequest ELSE request[c]]
  /\ blob' = [c \in Client |-> IF c \in who THEN Absent ELSE blob[c]]
  /\ outcome' = [c \in Client |-> IF c \in who THEN "none" ELSE outcome[c]]
  /\ listing' = [c \in Client |-> IF c \in who THEN NoListing ELSE listing[c]]
  /\ changes' = [p \in Process |-> IF changes[p] \in who THEN Nobody ELSE changes[p]]
EndsWith(c, answer) == Forgets({c}) /\ reply' = [reply EXCEPT ![c] = answer]
Ends(c, code) == EndsWith(c, Answer(code))

\* spawn_blocking: from here on the operation runs, whether or not its caller
\* still waits for it.  A write draws its version.
Call(c, rq) ==
  /\ pc[c] = "idle" /\ calls < MaxCalls
  /\ calls' = calls + 1
  /\ request' = [request EXCEPT ![c] = rq]
  /\ blob' = [blob EXCEPT ![c] = IF rq.op = "write" THEN calls + 1 ELSE Absent]
  /\ Goto(c, CASE rq.op = "read" -> "get" [] rq.op = "list" -> "search" [] OTHER -> "lock")
  /\ UNCHANGED <<entry, changes, outcome, listing, reply, faults, deaths>>

NextLabel(c) ==
  CASE request[c].op = "write" -> "probe"
    [] request[c].op = "delete" -> "remove"
    [] request[c].op = "rename" -> "source"
ExclusiveNot(c) ==  \* mutant
  /\ pc[c] = "lock" /\ Goto(c, NextLabel(c))
  /\ UNCHANGED <<entry, changes, local, reply, bounds>>
Exclusive(c) ==
  /\ pc[c] = "lock" /\ changes[ProcessOf[c]] = Nobody
  /\ changes' = [changes EXCEPT ![ProcessOf[c]] = c]
  /\ Goto(c, NextLabel(c))
  /\ UNCHANGED <<entry, local, reply, bounds>>

\* What the store call an operation is at makes of the credential store.
Effect(c) ==
  LET rq == request[c]
  IN  CASE pc[c] = "set" -> [entry EXCEPT ![rq.name] = blob[c]]
        [] pc[c] = "copy" -> [entry EXCEPT ![rq.new_name] = blob[c]]
        [] pc[c] \in {"remove", "clear"} -> [entry EXCEPT ![rq.name] = Absent]
        [] pc[c] = "undo" -> [entry EXCEPT ![rq.new_name] = Absent]
        [] OTHER -> entry

Read(c) ==
  LET version == entry[request[c].name]
  IN  /\ pc[c] = "get"
      /\ EndsWith(c, IF version = Absent THEN Answer("NotFound")
                     ELSE [Answer("Ok") EXCEPT !.version = version])
      /\ UNCHANGED <<entry, bounds>>

\* write: whether the entry holds a secret, then set_secret.
Probe(c) ==
  /\ pc[c] = "probe"
  /\ outcome' = [outcome EXCEPT ![c] =
                   IF entry[request[c].name] = Absent THEN "Created" ELSE "Replaced"]
  /\ Goto(c, "set")
  /\ Keeps /\ UNCHANGED <<blob, listing>>
Set(c) ==
  /\ pc[c] = "set"
  /\ entry' = Effect(c)
  /\ EndsWith(c, [Answer(outcome[c]) EXCEPT !.version = blob[c]])
  /\ UNCHANGED bounds

\* delete_credential, which knows whether there was an entry.
Delete(c) ==
  /\ pc[c] = "remove"
  /\ entry' = Effect(c)
  /\ Ends(c, IF entry[request[c].name] = Absent THEN "NotFound" ELSE "Ok")
  /\ UNCHANGED bounds

\* rename: the source is read, the destination is looked at ...
Source(c) ==
  LET version == entry[request[c].name]
  IN  /\ pc[c] = "source"
      /\ \/ version = Absent /\ Ends(c, "NotFound") /\ UNCHANGED <<entry, bounds>>
         \/ /\ version # Absent
            /\ blob' = [blob EXCEPT ![c] = version]
            /\ Goto(c, "destination")
            /\ Keeps /\ UNCHANGED <<outcome, listing>>
Destination(c) ==
  /\ pc[c] = "destination"
  /\ \/ entry[request[c].new_name] # Absent /\ Ends(c, "Conflict") /\ UNCHANGED <<entry, bounds>>
     \/ /\ entry[request[c].new_name] = Absent /\ Goto(c, "copy")
        /\ Keeps /\ UNCHANGED <<blob, outcome, listing>>
\* ... the entry is copied, then the source is deleted, ...
Copy(c) ==
  /\ pc[c] = "copy"
  /\ entry' = Effect(c)
  /\ Goto(c, "clear")
  /\ UNCHANGED <<changes, local, reply, bounds>>
Clear(c) ==
  /\ pc[c] = "clear"
  /\ \/ /\ entry[request[c].name] # Absent
        /\ entry' = Effect(c)
        /\ Ends(c, "Ok")
     \/ /\ entry[request[c].name] = Absent
        /\ outcome' = [outcome EXCEPT ![c] = "NotFound"]
        /\ Goto(c, "undo")
        /\ UNCHANGED <<entry, changes, request, blob, listing, reply>>
  /\ UNCHANGED bounds
\* ... and when that fails the copy is deleted.
UndoNothing(c) ==  \* mutant
  pc[c] = "undo" /\ Ends(c, outcome[c]) /\ UNCHANGED <<entry, bounds>>
Undo(c) ==
  /\ pc[c] = "undo"
  /\ entry' = Effect(c)
  /\ Ends(c, outcome[c])
  /\ UNCHANGED bounds

\* list: the search may also return entries that hold nothing; each is then
\* read, and left out when it holds nothing by then.
Search(c) ==
  /\ pc[c] = "search"
  /\ \E found \in {s \in SUBSET Name : Held \subseteq s} :
       listing' = [listing EXCEPT ![c] =
                     [todo |-> found, rows |-> {}, began |-> {entry[n] : n \in Held}]]
  /\ Goto(c, "scan")
  /\ Keeps /\ UNCHANGED <<blob, outcome>>
Scan(c) ==
  /\ pc[c] = "scan"
  /\ \E n \in listing[c].todo :
       listing' = [listing EXCEPT ![c].todo = @ \ {n},
                                  ![c].rows = IF n \in Held THEN @ \cup {<<n, entry[n]>>} ELSE @]
  /\ Keeps /\ UNCHANGED <<pc, blob, outcome>>
Listed(c) ==
  /\ pc[c] = "scan" /\ listing[c].todo = {}
  /\ EndsWith(c, [Answer("Ok") EXCEPT !.rows = listing[c].rows])
  /\ UNCHANGED <<entry, bounds>>

\* The store call fails.  It has changed nothing or, with late faults, all it
\* was to change.  A rename whose delete fails goes on to undo.
Fail(c) ==
  /\ pc[c] \notin {"idle", "lock"} /\ faults < MaxFaults
  /\ faults' = faults + 1
  /\ entry' \in {entry} \cup (IF LateFaults THEN {Effect(c)} ELSE {})
  /\ \/ pc[c] \notin {"clear", "undo"} /\ Ends(c, "Unavailable")
     \/ pc[c] = "undo" /\ Ends(c, outcome[c])
     \/ /\ pc[c] = "clear" /\ Goto(c, "undo")
        /\ outcome' = [outcome EXCEPT ![c] = "Unavailable"]
        /\ UNCHANGED <<changes, request, blob, listing, reply>>
  /\ UNCHANGED <<calls, deaths>>

\* A process ends between two store calls.
Die(p) ==
  LET who == {c \in Client : ProcessOf[c] = p}
  IN  /\ deaths < MaxDeaths /\ \E c \in who : pc[c] # "idle"
      /\ deaths' = deaths + 1
      /\ Forgets(who)
      /\ reply' = [c \in Client |-> IF c \in who THEN Answer("none") ELSE reply[c]]
      /\ UNCHANGED <<entry, calls, faults>>

Step(c) ==
  \/ Exclusive(c) \/ Read(c) \/ Probe(c) \/ Set(c) \/ Delete(c)
  \/ Source(c) \/ Destination(c) \/ Copy(c) \/ Clear(c) \/ Undo(c)
  \/ Search(c) \/ Scan(c) \/ Listed(c) \/ Fail(c)
Taken ==
  {entry[request[c].name] : c \in {x \in Client : /\ pc[x] \in {"set", "remove"} /\ pc'[x] # pc[x]
                                                /\ entry'[request[x].name] # entry[request[x].name]}}
Next ==
  /\ \/ \E c \in Client : Step(c) \/ \E rq \in Requests[c] : Call(c, rq)
     \/ \E p \in Process : Die(p)
  /\ dropped' = dropped \cup (Taken \ {Absent})
Spec == Init /\ [][Next]_vars

-----------------------------------------------------------------------------
(***************************************************************************)
(* No secret is lost: an entry that no name holds any more was taken away  *)
(* by a write or a delete of its name, then or before, and not by a rename *)
(* or the undoing of one alone (lib.rs:245-266).                           *)
(***************************************************************************)
NothingLost ==
  [][\A n \in Held : (\A m \in Name : entry'[m] # entry[n]) => entry[n] \in dropped']_vars

(***************************************************************************)
(* "Undo the copy so the value is not left under both names" (lib.rs:261): *)
(* between renames an entry is under two names only after a second failure *)
(* or a death.                                                             *)
(***************************************************************************)
OneNameEach ==
  \A n, m \in Name :
    (n # m /\ entry[n] # Absent /\ entry[n] = entry[m]) =>
      (\E c \in Client : pc[c] \in {"clear", "undo"}) \/ faults > 1 \/ deaths > 0

(***************************************************************************)
(* A write that answers Created, "no secret was stored at the address"     *)
(* (storage.rs:608), has overwritten none, although it looked in an        *)
(* earlier store call.                                                     *)
(***************************************************************************)
CreatedOverwritesNothing ==
  [][\A c \in Client : (pc[c] = "set" /\ pc'[c] = "idle" /\ reply'[c].code = "Created") =>
       entry[request[c].name] = Absent]_vars
=============================================================================
