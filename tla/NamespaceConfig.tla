--------------------------- MODULE NamespaceConfig ---------------------------
(***************************************************************************)
(* What a persistent namespace configuration store owes the processes that *)
(* share it: a change takes effect at one instant and on the document of   *)
(* that instant, a refusal changes nothing, a lookup sees one whole        *)
(* document, and a change that was answered Ok survives a loss of power.   *)
(* A call that failed or died may or may not have taken effect.            *)
(***************************************************************************)
EXTENDS ConfigDocument

CONSTANTS Client, Changes, NoChange

VARIABLES
  document,   \* what a reader sees
  durable,    \* what a reader may see after a loss of power
  pending,    \* the change each client has asked for
  stage,      \* "idle", "called", "taken" (in effect) or "kept" (durable)
  reply

cvars == <<document, durable, pending, stage, reply>>

Answer(code) == [code |-> code, seen |-> Absent]

CInit ==
  /\ \E doc \in Document : document = WithDefault(doc)
  /\ durable = {document}
  /\ pending = [c \in Client |-> NoChange]
  /\ stage = [c \in Client |-> "idle"]
  /\ reply = [c \in Client |-> Answer("none")]

Ends(c, code) ==
  /\ pending' = [pending EXCEPT ![c] = NoChange]
  /\ stage' = [stage EXCEPT ![c] = "idle"]
  /\ reply' = [reply EXCEPT ![c] = Answer(code)]

CCall(c, ch) ==
  /\ stage[c] = "idle"
  /\ pending' = [pending EXCEPT ![c] = ch]
  /\ stage' = [stage EXCEPT ![c] = "called"]
  /\ UNCHANGED <<document, durable, reply>>
CRefuse(c) ==
  /\ stage[c] = "called"
  /\ Verdict(document, pending[c]) # "Ok"
  /\ Ends(c, Verdict(document, pending[c]))
  /\ UNCHANGED <<document, durable>>
CTake(c) ==
  /\ stage[c] = "called"
  /\ Verdict(document, pending[c]) = "Ok"
  /\ document' = Apply(document, pending[c])
  /\ durable' = durable \cup {document'}
  /\ stage' = [stage EXCEPT ![c] = "taken"]
  /\ UNCHANGED <<pending, reply>>
CKeep ==
  /\ \E c \in Client : stage[c] = "taken"
  /\ durable' = {document}
  /\ stage' = [c \in Client |-> IF stage[c] = "taken" THEN "kept" ELSE stage[c]]
  /\ UNCHANGED <<document, pending, reply>>
CAnswer(c) == stage[c] = "kept" /\ Ends(c, "Ok") /\ UNCHANGED <<document, durable>>

\* An error or the death of the process, before or after the effect.
CGiveUp(c) ==
  /\ stage[c] # "idle"
  /\ \E code \in {"Unavailable", "Died"} : Ends(c, code)
  /\ UNCHANGED <<document, durable>>
CLook(c, k) ==
  /\ stage[c] = "idle"
  /\ reply' = [reply EXCEPT ![c] = [code |-> "Ok", seen |-> document.namespaces[k]]]
  /\ UNCHANGED <<document, durable, pending, stage>>
CLoss ==
  /\ document' \in durable
  /\ durable' = {document'}
  /\ pending' = [c \in Client |-> NoChange]
  /\ stage' = [c \in Client |-> "idle"]
  /\ reply' = [c \in Client |-> IF stage[c] = "idle" THEN reply[c] ELSE Answer("Died")]

CNext ==
  \/ \E c \in Client :
       \/ \E ch \in Changes : CCall(c, ch)
       \/ CRefuse(c) \/ CTake(c) \/ CAnswer(c) \/ CGiveUp(c)
       \/ \E k \in Namespace : CLook(c, k)
  \/ CKeep \/ CLoss
CSpec == CInit /\ [][CNext]_cvars
=============================================================================
