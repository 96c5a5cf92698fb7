----------------------------- MODULE RemoteRaces -----------------------------
(***************************************************************************)
(* What callers of one service can do to a rename of RemoteBackend between *)
(* its requests.  A rename carries the value that its get answered and     *)
(* trusts its look at the new name; the history variable `overtaken` holds *)
(* the renames for which another caller has since changed either.  The     *)
(* steps are those of RemoteBackend, and none reads it.                    *)
(***************************************************************************)
EXTENDS RemoteBackend

VARIABLE overtaken
raceVars == <<vars, overtaken>>

\* The request of c takes effect: the service is done with it.
Effect(c) == pending[c] # Port!NoRequest /\ pending'[c] = Port!NoRequest

\* How far a rename is: before its commit, or told that it was refused.
Uncommitted(c) == pc[c] = "prepare" \/ (pc[c] = "commit" /\ ~Told(c, "commit"))
Undone(c) ==
  \/ pc[c] = "exists" \/ Uncommitted(c)
  \/ Told(c, "commit") /\ Code(c) \notin {"Ok", "Unavailable"}
  \/ pc[c] = "abort" /\ outcome[c] # "Unavailable"
\* A put, a delete or a batch of another changes what the rename of c has seen.
Changes(name) == store'[name] # store[name] /\ revokes' = revokes
Appears(name) == ~Active(name) /\ Active(name)'
Overtakes(c) ==
  \/ (Told(c, "fetch") \/ Undone(c)) /\ Changes(request[c].name)
  \/ Uncommitted(c) /\ Appears(request[c].new_name)

RaceInit == Init /\ overtaken = {}
RaceNext ==
  /\ Next
  /\ overtaken' = {c \in Client : pc'[c] # "idle" /\ (c \in overtaken \/ (~Effect(c) /\ Overtakes(c)))}
RaceSpec == RaceInit /\ [][RaceNext]_raceVars

\* The commit of a rename which another caller had overtaken.
CommitsLate(c) == Effect(c) /\ pc[c] = "commit" /\ c \in overtaken
\* The value last put under a name, revoked or not, and the values that are
\* under two names.
Kept(name) ==
  IF store[name] = NoRow THEN NoValue ELSE store[name].values[Len(store[name].values)]
Doubled ==
  {v \in Value : \E n, m \in Name : n # m /\ Kept(n) = v /\ Kept(m) = v}

-----------------------------------------------------------------------------
(***************************************************************************)
(* No value comes to be under two names, whatever requests and answers of  *)
(* a rename are lost: its batch puts and deletes at one instant            *)
(* (lib.rs:205-246).  Only a rename that another caller overtook may put a *)
(* value back that the other has meanwhile moved.                          *)
(***************************************************************************)
OnePlace == [][Doubled' \subseteq Doubled \/ \E c \in Client : CommitsLate(c)]_raceVars

(***************************************************************************)
(* A rename that is refused has not happened: once it has been answered    *)
(* not-found or denied, the value it read is where it was, if no other     *)
(* caller has changed it.  Only `unavailable` leaves open whether it has.  *)
(***************************************************************************)
RefusedRenameStays ==
  \A c \in Client \ overtaken :
    (pc[c] = "abort" /\ outcome[c] # "Unavailable") => Kept(request[c].name) = carried[c].value

(***************************************************************************)
(* No value is lost, whatever callers do at once: one that a name had and  *)
(* none has any more was revoked, or written over or deleted by the put or *)
(* delete of that name that takes effect, or went in the commit of a       *)
(* rename of that name or to it which another caller had overtaken.        *)
(***************************************************************************)
NothingLost ==
  [][\A n \in Name : (Newest(n) # NoValue /\ \A m \in Name : Newest(m)' # Newest(n)) =>
       \/ revokes' # revokes
       \/ \E c \in Client :
            \/ Effect(c) /\ pc[c] \in {"put", "delete"} /\ request[c].name = n
            \/ CommitsLate(c) /\ n \in {request[c].name, request[c].new_name}]_raceVars
=============================================================================
