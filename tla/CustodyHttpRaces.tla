-------------------------- MODULE CustodyHttpRaces --------------------------
(***************************************************************************)
(* Two user routes see that the caller owns the secret and act on it in    *)
(* another call of the store (CustodyHttp); in between a workload may put  *)
(* the secret for another owner, or commit a batch that does.  The history *)
(* variable `reowned` holds the handlers to which that has happened; the   *)
(* steps are those of CustodyHttp, and none reads it.                      *)
(***************************************************************************)
EXTENDS CustodyHttp

VARIABLE reowned
raceVars == <<vars, reowned>>

\* Between assert_owner and the end of the handler.
Acting(c) == http[c].stage \in {"call", "store"} /\ http[c].request.route \in UserRoute

\* What the store call of d applies, if it takes effect.
Mutations(d) ==
  IF pending[d].op = "commit" THEN batches[pending[d].batch].muts ELSE pending[d].muts
PutsForOther(d, r, subject) ==
  /\ Ends(d) /\ Changes(r) /\ Side(http[d].request.route) = "workload"
  /\ \E i \in DOMAIN Mutations(d) :
       LET m == Mutations(d)[i] IN m.kind = "put" /\ m.ref = r /\ m.owner # subject
Reowns(c) ==
  /\ Acting(c)
  /\ \E d \in Call : PutsForOther(d, http[c].request.ref, http[c].principal.subject)

RaceInit == Init /\ reowned = {}
RaceNext ==
  /\ Next
  /\ reowned' = {c \in Call : http'[c].stage # "idle" /\ (c \in reowned \/ Reowns(c))}
RaceSpec == RaceInit /\ [][RaceNext]_raceVars

-----------------------------------------------------------------------------
(***************************************************************************)
(* "User routes act only on secrets whose owner_subject is the caller"     *)
(* (website/docs/security-model.md): when user_revoke or user_delete       *)
(* changes a secret, the caller owns it, unless a workload has put it for  *)
(* another owner since assert_owner listed it.                             *)
(***************************************************************************)
UserActsOnlyOnOwned ==
  [][\A c \in Call, r \in Ref :
       Ends(c) /\ Changes(r) /\ http[c].request.route \in UserRoute =>
         c \in reowned \/ store[r].owner = http[c].principal.subject]_raceVars
=============================================================================
