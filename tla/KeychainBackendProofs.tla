------------------------ MODULE KeychainBackendProofs ------------------------
(***************************************************************************)
(* The properties of KeychainBackend, for any number of processes,         *)
(* operations, names, failed store calls and deaths.  TypeOK holds of      *)
(* every instance.  The others hold when the changes that write come from  *)
(* one process (OneWriter) and a store call that fails has had no effect   *)
(* (~LateFaults); without either the code gives them up.  The invariant    *)
(* says what an operation may count on while it holds the mutex, although  *)
(* other processes delete under it.                                        *)
(***************************************************************************)
EXTENDS KeychainBackend, TLAPS

Moving == {"destination", "copy", "clear", "undo"}
Holding == {"probe", "set", "remove", "source"} \cup Moving

\* The operation each label belongs to.
Labelled ==
  \A c \in Client : pc[c] # "idle" =>
    /\ request[c] \in Requests[c]
    /\ pc[c] = "lock" => request[c].op \in {"write", "delete", "rename"}
    /\ pc[c] \in {"search", "scan"} => request[c].op = "list"
    /\ pc[c] = "get" => request[c].op = "read"
    /\ pc[c] \in {"probe", "set"} => request[c].op = "write"
    /\ pc[c] = "remove" => request[c].op = "delete"
    /\ pc[c] \in {"source"} \cup Moving => request[c].op = "rename"
HoldsMutex == \A c \in Client : pc[c] \in Holding => changes[ProcessOf[c]] = c
Shape == TypeOK /\ Labelled /\ HoldsMutex

LEMMA RequestNames ==
  ASSUME Labelled, NEW c \in Client, pc[c] # "idle"
  PROVE  /\ request[c] \in Request
         /\ request[c].op \in {"read", "write", "delete", "rename"} => request[c].name \in Name
         /\ request[c].op = "rename" => request[c].new_name \in Name
<1>1. request[c] \in Request
  BY KeychainAssumption DEF Labelled
<1> QED BY <1>1 DEF Request

\* An operation at a label that names an entry names one that there may be.
LEMMA NamesAt ==
  ASSUME Labelled, NEW c \in Client,
         pc[c] \in {"get", "lock", "probe", "set", "remove", "source"} \cup Moving
  PROVE  /\ request[c].name \in Name
         /\ pc[c] \in {"source"} \cup Moving => request[c].new_name \in Name
BY RequestNames DEF Labelled, Moving

-----------------------------------------------------------------------------
(* Types *)

Rows == SUBSET (Name \X (Version \ {Absent}))
Listing == [todo : SUBSET Name, rows : Rows, began : SUBSET Version]
ReplyType == [code : Codes, version : Version, rows : Rows]

LEMMA AbsentIsVersion == Absent \in Version
BY KeychainAssumption DEF Absent, Version

LEMMA AnswerTyped ==
  /\ \A code \in Codes : Answer(code) \in ReplyType
  /\ \A code \in Codes, v \in Version : [Answer(code) EXCEPT !.version = v] \in ReplyType
  /\ \A code \in Codes, rows \in Rows : [Answer(code) EXCEPT !.rows = rows] \in ReplyType
BY AbsentIsVersion DEF Answer, ReplyType, Rows

LEMMA NoListingTyped == NoListing \in Listing
BY DEF NoListing, Listing, Rows

\* What stays typed whatever the operations do.
Stored == entry \in [Name -> Version] /\ dropped \subseteq Version
Counted == calls \in 0 .. MaxCalls /\ faults \in 0 .. MaxFaults /\ deaths \in 0 .. MaxDeaths

LEMMA ForgetsTyped ==
  ASSUME Shape, NEW who \in SUBSET Client, Forgets(who),
         reply' \in [Client -> ReplyType], Stored', Counted'
  PROVE  Shape'
<1>1. \A c \in Client :
        \/ c \in who /\ pc'[c] = "idle" /\ request'[c] = NoRequest
        \/ c \notin who /\ pc'[c] = pc[c] /\ request'[c] = request[c]
  BY DEF Forgets
<1>2. \A p \in Process : changes'[p] = IF changes[p] \in who THEN Nobody ELSE changes[p]
  BY DEF Forgets
<1>3. \A p \in Process : changes'[p] # Nobody => changes'[p] = changes[p] /\ changes[p] \notin who
  BY <1>2
<1>4. pc' \in [Client -> {"idle", "lock", "get", "probe", "set", "remove", "source",
                          "destination", "copy", "clear", "undo", "search", "scan"}]
  BY DEF Forgets, Shape, TypeOK
<1>5. changes' \in [Process -> Client \cup {Nobody}]
  BY DEF Forgets, Shape, TypeOK
<1>6. \A p \in Process : changes'[p] # Nobody =>
        /\ ProcessOf[changes'[p]] = p
        /\ pc'[changes'[p]] \notin {"idle", "lock", "get", "search", "scan"}
  BY <1>1, <1>3 DEF Shape, TypeOK
<1>7. blob' \in [Client -> Version] /\ outcome' \in [Client -> Codes]
  BY AbsentIsVersion DEF Forgets, Shape, TypeOK, Codes
<1>8. listing' \in [Client -> Listing]
  BY NoListingTyped DEF Forgets, Shape, TypeOK, Listing, Rows
<1>9. DOMAIN request' = Client /\ \A c \in Client : request'[c] \in Requests[c] \cup {NoRequest}
  BY <1>1 DEF Forgets, Shape, TypeOK
<1>10. TypeOK'
  BY <1>4, <1>5, <1>6, <1>7, <1>8, <1>9 DEF TypeOK, Stored, Counted, Listing, Rows, ReplyType
<1>11. Labelled'
  BY <1>1 DEF Shape, Labelled
<1>12. HoldsMutex'
  <2> SUFFICES ASSUME NEW c \in Client, pc'[c] \in Holding
               PROVE  changes'[ProcessOf[c]] = c
    BY DEF HoldsMutex
  <2>1. c \notin who /\ changes[ProcessOf[c]] = c
    BY <1>1 DEF Shape, HoldsMutex, Holding, Moving
  <2> QED BY <1>2, <2>1, KeychainAssumption
<1> QED BY <1>10, <1>11, <1>12 DEF Shape

LEMMA EndsTyped ==
  ASSUME Shape, NEW c \in Client, NEW answer \in ReplyType, EndsWith(c, answer), Stored', Counted'
  PROVE  Shape'
<1>1. reply' \in [Client -> ReplyType]
  BY DEF EndsWith, Shape, TypeOK, ReplyType, Rows
<1> QED BY <1>1, ForgetsTyped DEF EndsWith

\* An operation goes on at another label.
LEMMA GotoTyped ==
  ASSUME Shape, NEW c \in Client, pc[c] # "idle",
         NEW label \in {"probe", "set", "remove", "source", "destination", "copy", "clear",
                        "undo", "scan"},
         pc' = [pc EXCEPT ![c] = label], UNCHANGED <<request, reply>>,
         \/ UNCHANGED changes /\ (pc[c] \in Holding <=> label \in Holding)
         \/ changes' = [changes EXCEPT ![ProcessOf[c]] = c] /\ changes[ProcessOf[c]] = Nobody
              /\ label \in Holding,
         label \in {"probe", "set"} => request[c].op = "write",
         label = "remove" => request[c].op = "delete",
         label = "scan" => request[c].op = "list",
         label \in {"source"} \cup Moving => request[c].op = "rename",
         blob' \in [Client -> Version], outcome' \in [Client -> Codes],
         listing' \in [Client -> Listing], Stored', Counted'
  PROVE  Shape'
<1>1. /\ pc \in [Client -> {"idle", "lock", "get", "probe", "set", "remove", "source",
                            "destination", "copy", "clear", "undo", "search", "scan"}]
      /\ changes \in [Process -> Client \cup {Nobody}]
      /\ ProcessOf[c] \in Process
  BY KeychainAssumption DEF Shape, TypeOK
<1>2. pc'[c] = label /\ \A d \in Client \ {c} : pc'[d] = pc[d]
  BY <1>1
<1>3. pc' \in [Client -> {"idle", "lock", "get", "probe", "set", "remove", "source",
                          "destination", "copy", "clear", "undo", "search", "scan"}]
  BY <1>1
<1>4. changes' \in [Process -> Client \cup {Nobody}]
  BY <1>1
<1>5. \A p \in Process : changes'[p] # Nobody =>
        /\ ProcessOf[changes'[p]] = p
        /\ pc'[changes'[p]] \notin {"idle", "lock", "get", "search", "scan"}
  <2> SUFFICES ASSUME NEW p \in Process, changes'[p] # Nobody
               PROVE  /\ ProcessOf[changes'[p]] = p
                      /\ pc'[changes'[p]] \notin {"idle", "lock", "get", "search", "scan"}
    OBVIOUS
  <2>1. CASE changes'[p] = changes[p]
    <3>1. /\ changes[p] \in Client /\ ProcessOf[changes[p]] = p
          /\ pc[changes[p]] \notin {"idle", "lock", "get", "search", "scan"}
      BY <1>1, <2>1 DEF Shape, TypeOK
    <3>2. CASE changes[p] = c
      BY <1>2, <2>1, <3>1, <3>2 DEF Holding, Moving, Shape, TypeOK
    <3>3. CASE changes[p] # c
      BY <1>2, <2>1, <3>1, <3>3
    <3> QED BY <3>2, <3>3
  <2>2. CASE changes'[p] # changes[p]
    <3>1. changes'[p] = c /\ p = ProcessOf[c] /\ label \in Holding
      BY <1>1, <2>2
    <3> QED BY <1>2, <3>1 DEF Holding, Moving
  <2> QED BY <2>1, <2>2
<1>6. TypeOK'
  BY <1>3, <1>4, <1>5 DEF Shape, TypeOK, Stored, Counted, Listing, Rows
<1>7. Labelled'
  BY <1>2 DEF Shape, Labelled
<1>8. HoldsMutex'
  <2> SUFFICES ASSUME NEW d \in Client, pc'[d] \in Holding
               PROVE  changes'[ProcessOf[d]] = d
    BY DEF HoldsMutex
  <2>1. CASE d = c
    BY <1>1, <1>2, <2>1 DEF Shape, HoldsMutex
  <2>2. CASE d # c
    <3>1. changes[ProcessOf[d]] = d /\ ProcessOf[d] \in Process
      BY <1>2, <2>2, KeychainAssumption DEF Shape, HoldsMutex
    <3> QED BY <1>1, <3>1, KeychainAssumption
  <2> QED BY <2>1, <2>2
<1> QED BY <1>6, <1>7, <1>8 DEF Shape

LEMMA EffectTyped ==
  ASSUME Shape, NEW c \in Client, pc[c] # "idle"
  PROVE  Effect(c) \in [Name -> Version]
<1>1. entry \in [Name -> Version] /\ blob[c] \in Version
  BY DEF Shape, TypeOK
<1>2. /\ pc[c] \in {"remove", "clear", "set"} => request[c].name \in Name
      /\ pc[c] \in {"copy", "undo"} => request[c].new_name \in Name
  BY NamesAt DEF Shape, Moving
<1>3. CASE pc[c] = "set"
  BY <1>1, <1>2, <1>3 DEF Effect
<1>4. CASE pc[c] = "copy"
  BY <1>1, <1>2, <1>4 DEF Effect
<1>5. CASE pc[c] \in {"remove", "clear"}
  BY <1>1, <1>2, <1>5, AbsentIsVersion DEF Effect
<1>6. CASE pc[c] = "undo"
  BY <1>1, <1>2, <1>6, AbsentIsVersion DEF Effect
<1>7. CASE pc[c] \notin {"set", "copy", "remove", "clear", "undo"}
  BY <1>1, <1>7 DEF Effect
<1> QED BY <1>3, <1>4, <1>5, <1>6, <1>7

\* What a write or a delete takes away is an entry.
LEMMA DroppedTyped ==
  ASSUME Shape, dropped' = dropped \cup (Taken \ {Absent})
  PROVE  dropped' \subseteq Version
<1>1. ASSUME NEW c \in Client, pc[c] \in {"set", "remove"}
      PROVE  entry[request[c].name] \in Version
  BY <1>1, NamesAt DEF Shape, TypeOK
<1> QED BY <1>1 DEF Taken, Shape, TypeOK

LEMMA CallTyped ==
  ASSUME Shape, NEW c \in Client, NEW rq \in Requests[c], Call(c, rq), Stored'
  PROVE  Shape'
<1>1. rq \in Request
  BY KeychainAssumption
<1>2. rq.op \in {"read", "write", "delete", "rename", "list"}
  BY <1>1 DEF Request
<1>3. PICK label \in {"get", "search", "lock"} :
        /\ pc' = [pc EXCEPT ![c] = label]
        /\ label = "get" => rq.op = "read"
        /\ label = "search" => rq.op = "list"
        /\ label = "lock" => rq.op \in {"write", "delete", "rename"}
  BY <1>2 DEF Call, Goto
<1>4. /\ pc[c] = "idle" /\ calls < MaxCalls /\ calls' = calls + 1
      /\ request' = [request EXCEPT ![c] = rq]
      /\ UNCHANGED <<entry, changes, outcome, listing, reply, faults, deaths>>
  BY DEF Call
<1>5. blob' \in [Client -> Version] /\ calls' \in 0 .. MaxCalls
  <2>1. calls + 1 \in Version /\ calls' \in 0 .. MaxCalls
    BY <1>4, KeychainAssumption DEF Shape, TypeOK, Version
  <2> QED BY <2>1, AbsentIsVersion DEF Call, Shape, TypeOK
<1>6. \A p \in Process : changes[p] # Nobody => changes[p] # c
  BY <1>4 DEF Shape, TypeOK
<1>7. /\ pc'[c] = label /\ request'[c] = rq
      /\ \A d \in Client \ {c} : pc'[d] = pc[d] /\ request'[d] = request[d]
  BY <1>3, <1>4, KeychainAssumption DEF Shape, TypeOK, Call
<1>8. TypeOK'
  <2>1. pc' \in [Client -> {"idle", "lock", "get", "probe", "set", "remove", "source",
                            "destination", "copy", "clear", "undo", "search", "scan"}]
    BY <1>3 DEF Shape, TypeOK
  <2>2. DOMAIN request' = Client /\ \A d \in Client : request'[d] \in Requests[d] \cup {NoRequest}
    BY <1>4, <1>7 DEF Shape, TypeOK
  <2>3. \A p \in Process : changes'[p] # Nobody =>
          /\ ProcessOf[changes'[p]] = p
          /\ pc'[changes'[p]] \notin {"idle", "lock", "get", "search", "scan"}
    BY <1>4, <1>6, <1>7 DEF Shape, TypeOK
  <2> QED BY <1>4, <1>5, <2>1, <2>2, <2>3 DEF Shape, TypeOK, Stored
<1>9. Labelled'
  BY <1>3, <1>7 DEF Shape, Labelled, Moving
<1>10. HoldsMutex'
  BY <1>4, <1>7 DEF Shape, HoldsMutex, Holding, Moving
<1> QED BY <1>8, <1>9, <1>10 DEF Shape

\* What an operation does, with the history of what was taken away.
Dropping == dropped' = dropped \cup (Taken \ {Absent})

LEMMA StepTyped ==
  ASSUME Shape, NEW c \in Client, Step(c), Dropping
  PROVE  Shape'
<1>1. /\ entry \in [Name -> Version] /\ Counted
      /\ blob \in [Client -> Version] /\ outcome \in [Client -> Codes]
      /\ listing \in [Client -> Listing]
      /\ calls \in Nat /\ faults \in Nat
  BY KeychainAssumption DEF Shape, TypeOK, Counted, Listing, Rows
<1>2. dropped' \subseteq Version
  BY DroppedTyped DEF Dropping
<1>3. pc[c] # "idle" => Effect(c) \in [Name -> Version]
  BY EffectTyped
<1>4. blob[c] \in Version /\ outcome[c] \in Codes
  BY <1>1
<1>5. CASE Exclusive(c)
  <2>1. request[c].op \in {"write", "delete", "rename"}
    BY <1>5 DEF Exclusive, Shape, Labelled
  <2>2. PICK label \in {"probe", "remove", "source"} :
          /\ label = NextLabel(c)
          /\ label = "probe" => request[c].op = "write"
          /\ label = "remove" => request[c].op = "delete"
          /\ label = "source" => request[c].op = "rename"
    BY <2>1 DEF NextLabel
  <2>3. /\ pc[c] = "lock" /\ pc' = [pc EXCEPT ![c] = label]
        /\ changes' = [changes EXCEPT ![ProcessOf[c]] = c] /\ changes[ProcessOf[c]] = Nobody
        /\ UNCHANGED <<entry, local, reply, bounds>>
    BY <1>5, <2>2 DEF Exclusive, Goto
  <2> QED BY <1>1, <1>2, <2>2, <2>3, GotoTyped
          DEF Holding, Moving, Stored, Counted, local, bounds
<1>6. CASE Read(c)
  <2>1. entry[request[c].name] \in Version
    BY <1>1, <1>6, NamesAt DEF Read, Shape
  <2>2. PICK answer \in ReplyType : EndsWith(c, answer)
    BY <1>6, <2>1, AnswerTyped DEF Read, Codes
  <2> QED BY <1>1, <1>2, <1>6, <2>2, EndsTyped DEF Read, Stored, Counted, bounds
<1>7. CASE Probe(c)
  <2>1. outcome' \in [Client -> Codes]
    BY <1>1, <1>7 DEF Probe, Codes
  <2>2. request[c].op = "write"
    BY <1>7 DEF Probe, Shape, Labelled
  <2> QED BY <1>1, <1>2, <1>7, <2>1, <2>2, GotoTyped
          DEF Probe, Goto, Keeps, Holding, Moving, Stored, Counted, bounds
<1>8. CASE Set(c)
  <2>1. PICK answer \in ReplyType : EndsWith(c, answer)
    BY <1>4, <1>8, AnswerTyped DEF Set
  <2> QED BY <1>1, <1>2, <1>3, <1>8, <2>1, EndsTyped DEF Set, Stored, Counted, bounds
<1>9. CASE Delete(c)
  <2>1. PICK answer \in ReplyType : EndsWith(c, answer)
    BY <1>9, AnswerTyped DEF Delete, Ends, Codes
  <2> QED BY <1>1, <1>2, <1>3, <1>9, <2>1, EndsTyped DEF Delete, Stored, Counted, bounds
<1>10. CASE Source(c)
  <2>1. entry[request[c].name] \in Version /\ request[c].op = "rename"
    BY <1>1, <1>10, NamesAt DEF Source, Shape, Labelled
  <2>2. CASE Ends(c, "NotFound") /\ UNCHANGED <<entry, bounds>>
    <3>1. PICK answer \in ReplyType : EndsWith(c, answer)
      BY <2>2, AnswerTyped DEF Ends, Codes
    <3> QED BY <1>1, <1>2, <2>2, <3>1, EndsTyped DEF Stored, Counted, bounds
  <2>3. CASE /\ blob' = [blob EXCEPT ![c] = entry[request[c].name]]
             /\ Goto(c, "destination") /\ Keeps /\ UNCHANGED <<outcome, listing>>
    <3>1. blob' \in [Client -> Version]
      BY <1>1, <2>1, <2>3
    <3> QED BY <1>1, <1>2, <1>10, <2>1, <2>3, <3>1, GotoTyped
            DEF Source, Goto, Keeps, Holding, Moving, Stored, Counted, bounds
  <2> QED BY <1>10, <2>2, <2>3 DEF Source
<1>11. CASE Destination(c)
  <2>1. request[c].op = "rename"
    BY <1>11 DEF Destination, Shape, Labelled, Moving
  <2>2. CASE Ends(c, "Conflict") /\ UNCHANGED <<entry, bounds>>
    <3>1. PICK answer \in ReplyType : EndsWith(c, answer)
      BY <2>2, AnswerTyped DEF Ends, Codes
    <3> QED BY <1>1, <1>2, <2>2, <3>1, EndsTyped DEF Stored, Counted, bounds
  <2>3. CASE Goto(c, "copy") /\ Keeps /\ UNCHANGED <<blob, outcome, listing>>
    BY <1>1, <1>2, <1>11, <2>1, <2>3, GotoTyped
       DEF Destination, Goto, Keeps, Holding, Moving, Stored, Counted, bounds
  <2> QED BY <1>11, <2>2, <2>3 DEF Destination
<1>12. CASE Copy(c)
  <2>1. request[c].op = "rename"
    BY <1>12 DEF Copy, Shape, Labelled, Moving
  <2> QED BY <1>1, <1>2, <1>3, <1>12, <2>1, GotoTyped
          DEF Copy, Goto, Holding, Moving, Stored, Counted, bounds, local
<1>13. CASE Clear(c)
  <2>1. request[c].op = "rename" /\ pc[c] = "clear"
    BY <1>13 DEF Clear, Shape, Labelled, Moving
  <2>2. CASE entry' = Effect(c) /\ Ends(c, "Ok")
    <3>1. PICK answer \in ReplyType : EndsWith(c, answer)
      BY <2>2, AnswerTyped DEF Ends, Codes
    <3> QED BY <1>1, <1>2, <1>3, <1>13, <2>1, <2>2, <3>1, EndsTyped
            DEF Clear, Stored, Counted, bounds
  <2>3. CASE /\ outcome' = [outcome EXCEPT ![c] = "NotFound"]
             /\ Goto(c, "undo")
             /\ UNCHANGED <<entry, changes, request, blob, listing, reply>>
    <3>1. outcome' \in [Client -> Codes]
      BY <1>1, <2>3 DEF Codes
    <3> QED BY <1>1, <1>2, <1>13, <2>1, <2>3, <3>1, GotoTyped
            DEF Clear, Goto, Holding, Moving, Stored, Counted, bounds
  <2> QED BY <1>13, <2>2, <2>3 DEF Clear
<1>14. CASE Undo(c)
  <2>1. PICK answer \in ReplyType : EndsWith(c, answer)
    BY <1>4, <1>14, AnswerTyped DEF Undo, Ends
  <2> QED BY <1>1, <1>2, <1>3, <1>14, <2>1, EndsTyped DEF Undo, Stored, Counted, bounds
<1>15. CASE Search(c)
  <2>1. listing' \in [Client -> Listing]
    <3>1. PICK found \in SUBSET Name :
            listing' = [listing EXCEPT ![c] =
                          [todo |-> found, rows |-> {}, began |-> {entry[n] : n \in Held}]]
      BY <1>15 DEF Search
    <3>2. {entry[n] : n \in Held} \subseteq Version
      BY <1>1 DEF Held
    <3> QED BY <1>1, <3>1, <3>2 DEF Listing, Rows
  <2>2. request[c].op = "list"
    BY <1>15 DEF Search, Shape, Labelled
  <2> QED BY <1>1, <1>2, <1>15, <2>1, <2>2, GotoTyped
          DEF Search, Goto, Keeps, Holding, Moving, Stored, Counted, bounds
<1>16. CASE Scan(c)
  <2>1. listing' \in [Client -> Listing]
    <3>1. PICK n \in listing[c].todo :
            listing' = [listing EXCEPT ![c].todo = @ \ {n},
                          ![c].rows = IF n \in Held THEN @ \cup {<<n, entry[n]>>} ELSE @]
      BY <1>16 DEF Scan
    <3>2. listing[c] \in Listing /\ n \in Name
      BY <1>1, <3>1 DEF Listing
    <3>3. n \in Held => entry[n] \in Version \ {Absent}
      BY <1>1, <3>2 DEF Held
    <3> DEFINE rows == IF n \in Held THEN listing[c].rows \cup {<<n, entry[n]>>}
                       ELSE listing[c].rows
    <3>4. rows \in Rows
      <4>1. listing[c].rows \in Rows
        BY <3>2 DEF Listing
      <4> QED BY <3>2, <3>3, <4>1 DEF Rows
    <3> HIDE DEF rows
    <3> DEFINE left == [listing[c] EXCEPT !.todo = @ \ {n}, !.rows = rows]
    <3>5. left \in Listing
      BY <3>2, <3>4 DEF Listing
    <3>6. listing' = [listing EXCEPT ![c] = left]
      <4>1. listing' = [listing EXCEPT ![c].todo = @ \ {n}, ![c].rows = rows]
        BY <3>1, <3>2, <1>1 DEF rows, Listing
      <4> QED BY <1>1, <4>1 DEF Listing
    <3> HIDE DEF left
    <3> QED BY <1>1, <3>5, <3>6
  <2>2. pc[c] = "scan" /\ pc' = pc /\ request[c].op = "list"
    BY <1>16 DEF Scan, Shape, Labelled
  <2>3. pc' = [pc EXCEPT ![c] = "scan"]
    BY <2>2 DEF Shape, TypeOK
  <2> QED BY <1>1, <1>2, <1>16, <2>1, <2>2, <2>3, GotoTyped
          DEF Scan, Keeps, Holding, Moving, Stored, Counted, bounds
<1>17. CASE Listed(c)
  <2>1. listing[c].rows \in Rows
    BY <1>1 DEF Listing
  <2>2. PICK answer \in ReplyType : EndsWith(c, answer)
    BY <1>17, <2>1, AnswerTyped DEF Listed, Codes
  <2> QED BY <1>1, <1>2, <1>17, <2>2, EndsTyped DEF Listed, Stored, Counted, bounds
<1>18. CASE Fail(c)
  <2>1. entry' \in [Name -> Version]
    BY <1>1, <1>3, <1>18 DEF Fail
  <2>2. faults' \in 0 .. MaxFaults /\ UNCHANGED <<calls, deaths>>
    BY <1>1, <1>18, KeychainAssumption DEF Fail, Counted
  <2>3. Stored' /\ Counted'
    BY <1>1, <1>2, <2>1, <2>2 DEF Stored, Counted
  <2>4. ASSUME NEW code \in Codes, Ends(c, code)
        PROVE  Shape'
    <3>1. PICK answer \in ReplyType : EndsWith(c, answer)
      BY <2>4, AnswerTyped DEF Ends
    <3> QED BY <2>3, <3>1, EndsTyped
  <2>5. CASE /\ pc[c] = "clear" /\ Goto(c, "undo")
             /\ outcome' = [outcome EXCEPT ![c] = "Unavailable"]
             /\ UNCHANGED <<changes, request, blob, listing, reply>>
    <3>1. request[c].op = "rename"
      BY <2>5 DEF Shape, Labelled, Moving
    <3>2. outcome' \in [Client -> Codes]
      BY <1>1, <2>5 DEF Codes
    <3> QED BY <1>1, <2>3, <2>5, <3>1, <3>2, GotoTyped DEF Goto, Holding, Moving
  <2>6. "Unavailable" \in Codes
    BY DEF Codes
  <2> QED BY <1>4, <1>18, <2>4, <2>5, <2>6 DEF Fail
<1> QED BY <1>5, <1>6, <1>7, <1>8, <1>9, <1>10, <1>11, <1>12, <1>13, <1>14, <1>15, <1>16,
           <1>17, <1>18 DEF Step

LEMMA DieTyped ==
  ASSUME Shape, NEW p \in Process, Die(p), Dropping
  PROVE  Shape'
<1> DEFINE who == {c \in Client : ProcessOf[c] = p}
<1>1. Forgets(who) /\ entry' = entry /\ UNCHANGED <<calls, faults>>
  BY DEF Die
<1>2. reply' \in [Client -> ReplyType]
  <2>1. Answer("none") \in ReplyType
    BY AnswerTyped DEF Codes
  <2>2. reply \in [Client -> ReplyType]
    BY DEF Shape, TypeOK, ReplyType, Rows
  <2> QED BY <2>1, <2>2 DEF Die
<1>3. Stored' /\ Counted'
  <2>1. deaths' \in 0 .. MaxDeaths
    BY KeychainAssumption DEF Die, Shape, TypeOK
  <2> QED BY <1>1, <2>1, DroppedTyped DEF Dropping, Stored, Counted, Shape, TypeOK
<1> QED BY <1>1, <1>2, <1>3, ForgetsTyped

LEMMA ShapeInit == Init => Shape
<1> SUFFICES ASSUME Init PROVE Shape
  OBVIOUS
<1>1. /\ Answer("none") \in ReplyType /\ NoListing \in Listing /\ Absent \in Version
  BY AnswerTyped, NoListingTyped, AbsentIsVersion DEF Codes
<1>2. \A p \in Process : changes[p] = Nobody
  BY DEF Init
<1>3. TypeOK
  BY <1>1, <1>2, KeychainAssumption DEF Init, TypeOK, Listing, ReplyType, Rows, Codes
<1>4. \A c \in Client : pc[c] = "idle"
  BY DEF Init
<1> QED BY <1>3, <1>4 DEF Shape, Labelled, HoldsMutex, Holding, Moving

LEMMA ShapeStep == Shape /\ [Next]_vars => Shape'
<1> SUFFICES ASSUME Shape, [Next]_vars PROVE Shape'
  OBVIOUS
<1>1. ASSUME NEW c \in Client, Step(c), Dropping PROVE Shape'
  BY <1>1, StepTyped
<1>2. ASSUME NEW c \in Client, NEW rq \in Requests[c], Call(c, rq), Dropping PROVE Shape'
  <2>1. dropped' \subseteq Version
    BY <1>2, DroppedTyped DEF Dropping
  <2>2. Stored'
    BY <1>2, <2>1 DEF Call, Stored, Shape, TypeOK
  <2> QED BY <1>2, <2>2, CallTyped
<1>3. ASSUME NEW p \in Process, Die(p), Dropping PROVE Shape'
  BY <1>3, DieTyped
<1>4. CASE UNCHANGED vars
  BY <1>4 DEF Shape, TypeOK, Labelled, HoldsMutex, vars, local, bounds
<1> QED BY <1>1, <1>2, <1>3, <1>4 DEF Next, Dropping

(***************************************************************************)
(* Whatever the operations of whichever processes do, and whatever fails,  *)
(* the state is well formed: among the rest, the mutex of a process is     *)
(* held only by an operation of that process which is changing an entry.   *)
(***************************************************************************)
THEOREM KeychainTypeCorrect == Spec => []TypeOK
<1>1. Shape => TypeOK
  BY DEF Shape
<1> QED BY <1>1, ShapeInit, ShapeStep, PTL DEF Spec

-----------------------------------------------------------------------------
(* What one step does *)

Untouched(c) ==
  /\ pc'[c] = pc[c] /\ request'[c] = request[c]
  /\ blob'[c] = blob[c] /\ outcome'[c] = outcome[c]

\* An operation ends after its store call, or after the call has failed.
Finishes(c) ==
  /\ pc'[c] = "idle" /\ blob'[c] = Absent
  /\ \/ entry' = Effect(c) /\ faults' = faults /\ pc[c] # "copy"
     \/ /\ faults' = faults + 1 /\ pc[c] # "clear"
        /\ entry' = entry \/ (LateFaults /\ entry' = Effect(c))

\* An operation takes the mutex, or goes on to its next store call.
Enters(c) ==
  /\ pc[c] = "lock" /\ pc'[c] \in {"probe", "remove", "source"}
  /\ entry' = entry /\ blob'[c] = blob[c] /\ faults' = faults
Looks(c) ==
  /\ pc'[c] = "scan" /\ request[c].op = "list"
  /\ entry' = entry /\ blob'[c] = blob[c] /\ faults' = faults
GoesOn(c) ==
  LET rq == request[c]
  IN  /\ request'[c] = rq
      /\ \/ /\ pc[c] = "probe" /\ pc'[c] = "set"
            /\ outcome'[c] = IF entry[rq.name] = Absent THEN "Created" ELSE "Replaced"
            /\ entry' = entry /\ blob'[c] = blob[c] /\ faults' = faults
         \/ /\ pc[c] = "source" /\ pc'[c] = "destination" /\ entry[rq.name] # Absent
            /\ entry' = entry /\ blob'[c] = entry[rq.name] /\ faults' = faults
         \/ /\ pc[c] = "destination" /\ pc'[c] = "copy" /\ entry[rq.new_name] = Absent
            /\ entry' = entry /\ blob'[c] = blob[c] /\ faults' = faults
         \/ /\ pc[c] = "copy" /\ pc'[c] = "clear"
            /\ entry' = Effect(c) /\ blob'[c] = blob[c] /\ faults' = faults
         \/ /\ pc[c] = "clear" /\ pc'[c] = "undo" /\ blob'[c] = blob[c]
            /\ \/ entry' = entry /\ entry[rq.name] = Absent /\ faults' = faults
               \/ /\ faults' = faults + 1
                  /\ entry' = entry \/ (LateFaults /\ entry' = Effect(c))

LEMMA EndsFinishes ==
  ASSUME Shape, NEW c \in Client, Forgets({c})
  PROVE  /\ pc'[c] = "idle" /\ blob'[c] = Absent
         /\ \A d \in Client \ {c} : Untouched(d)
BY DEF Forgets, Untouched, Shape, TypeOK

LEMMA StepKinds ==
  ASSUME Shape, NEW c \in Client, Step(c)
  PROVE  /\ Finishes(c) \/ Enters(c) \/ Looks(c) \/ GoesOn(c)
         /\ request'[c] = request[c] \/ pc'[c] = "idle"
         /\ \A d \in Client \ {c} : Untouched(d)
         /\ pc[c] # "idle" /\ calls' = calls /\ deaths' = deaths
<1>1. /\ pc \in [Client -> {"idle", "lock", "get", "probe", "set", "remove", "source",
                            "destination", "copy", "clear", "undo", "search", "scan"}]
      /\ blob \in [Client -> Version] /\ outcome \in [Client -> Codes]
  BY DEF Shape, TypeOK
<1>2. pc[c] # "idle" => Labelled
  BY DEF Shape
<1>3. ASSUME NEW label, Goto(c, label), UNCHANGED <<request, blob>>,
             \/ outcome' = outcome
             \/ \E code : outcome' = [outcome EXCEPT ![c] = code]
      PROVE  /\ pc'[c] = label /\ request'[c] = request[c] /\ blob'[c] = blob[c]
             /\ \A d \in Client \ {c} : Untouched(d)
  BY <1>1, <1>3 DEF Goto, Untouched
<1>4. CASE Exclusive(c)
  <2>1. NextLabel(c) \in {"probe", "remove", "source"}
    BY <1>4 DEF Exclusive, NextLabel, Shape, Labelled
  <2> QED BY <1>3, <1>4, <2>1 DEF Exclusive, Enters, local, bounds
<1>5. CASE Read(c)
  BY <1>5, EndsFinishes DEF Read, EndsWith, Effect, Finishes, bounds
<1>6. CASE Probe(c)
  <2>1. outcome'[c] = IF entry[request[c].name] = Absent THEN "Created" ELSE "Replaced"
    BY <1>1, <1>6 DEF Probe
  <2>2. Goto(c, "set") /\ UNCHANGED <<request, blob>>
    BY <1>6 DEF Probe, Keeps
  <2>3. \E code : outcome' = [outcome EXCEPT ![c] = code]
    BY <1>6 DEF Probe
  <2>4. /\ pc'[c] = "set" /\ request'[c] = request[c] /\ blob'[c] = blob[c]
        /\ \A d \in Client \ {c} : Untouched(d)
    BY <1>3, <2>2, <2>3
  <2> QED BY <1>6, <2>1, <2>4 DEF Probe, Keeps, GoesOn, bounds
<1>7. CASE Set(c)
  BY <1>7, EndsFinishes DEF Set, EndsWith, Finishes, bounds
<1>8. CASE Delete(c)
  BY <1>8, EndsFinishes DEF Delete, Ends, EndsWith, Finishes, bounds
<1>9. CASE Source(c)
  <2>1. CASE Ends(c, "NotFound") /\ UNCHANGED <<entry, bounds>>
    BY <1>9, <2>1, EndsFinishes DEF Source, Ends, EndsWith, Effect, Finishes, bounds
  <2>2. CASE /\ entry[request[c].name] # Absent
             /\ blob' = [blob EXCEPT ![c] = entry[request[c].name]]
             /\ Goto(c, "destination") /\ Keeps /\ UNCHANGED <<outcome, listing>>
    BY <1>1, <1>9, <2>2 DEF Source, Goto, Keeps, GoesOn, Untouched, bounds
  <2> QED BY <1>9, <2>1, <2>2 DEF Source
<1>10. CASE Destination(c)
  <2>1. CASE Ends(c, "Conflict") /\ UNCHANGED <<entry, bounds>>
    BY <1>10, <2>1, EndsFinishes DEF Destination, Ends, EndsWith, Effect, Finishes, bounds
  <2>2. CASE /\ entry[request[c].new_name] = Absent /\ Goto(c, "copy")
             /\ Keeps /\ UNCHANGED <<blob, outcome, listing>>
    BY <1>3, <1>10, <2>2 DEF Destination, Keeps, GoesOn, bounds
  <2> QED BY <1>10, <2>1, <2>2 DEF Destination
<1>11. CASE Copy(c)
  BY <1>3, <1>11 DEF Copy, GoesOn, local, bounds
<1>12. CASE Clear(c)
  <2>1. CASE entry' = Effect(c) /\ Ends(c, "Ok")
    BY <1>12, <2>1, EndsFinishes DEF Clear, Ends, EndsWith, Finishes, bounds
  <2>2. CASE /\ entry[request[c].name] = Absent
             /\ outcome' = [outcome EXCEPT ![c] = "NotFound"]
             /\ Goto(c, "undo")
             /\ UNCHANGED <<entry, changes, request, blob, listing, reply>>
    BY <1>3, <1>12, <2>2 DEF Clear, GoesOn, bounds
  <2> QED BY <1>12, <2>1, <2>2 DEF Clear
<1>13. CASE Undo(c)
  BY <1>13, EndsFinishes DEF Undo, Ends, EndsWith, Finishes, bounds
<1>14. CASE Search(c)
  <2>1. request[c].op = "list"
    BY <1>14 DEF Search, Shape, Labelled
  <2> QED BY <1>3, <1>14, <2>1 DEF Search, Keeps, Looks, bounds
<1>15. CASE Scan(c)
  <2>1. request[c].op = "list"
    BY <1>15 DEF Scan, Shape, Labelled
  <2> QED BY <1>15, <2>1 DEF Scan, Keeps, Looks, Untouched, bounds
<1>16. CASE Listed(c)
  BY <1>16, EndsFinishes DEF Listed, EndsWith, Effect, Finishes, bounds
<1>17. CASE Fail(c)
  <2>1. /\ faults' = faults + 1 /\ UNCHANGED <<calls, deaths>> /\ pc[c] # "idle"
        /\ entry' = entry \/ (LateFaults /\ entry' = Effect(c))
    BY <1>17 DEF Fail
  <2>2. CASE pc[c] # "clear" /\ Forgets({c})
    BY <2>1, <2>2, EndsFinishes DEF Finishes
  <2>3. CASE /\ pc[c] = "clear" /\ Goto(c, "undo")
             /\ outcome' = [outcome EXCEPT ![c] = "Unavailable"]
             /\ UNCHANGED <<changes, request, blob, listing, reply>>
    BY <1>3, <2>1, <2>3 DEF GoesOn
  <2> QED BY <1>17, <2>2, <2>3 DEF Fail, Ends, EndsWith
<1> QED BY <1>4, <1>5, <1>6, <1>7, <1>8, <1>9, <1>10, <1>11, <1>12, <1>13, <1>14, <1>15,
           <1>16, <1>17 DEF Step

\* The entries once the store call of an operation has taken effect.
LEMMA EffectAt ==
  ASSUME Shape, NEW c \in Client, NEW n \in Name
  PROVE  /\ pc[c] = "set" =>
              Effect(c)[n] = IF n = request[c].name THEN blob[c] ELSE entry[n]
         /\ pc[c] = "copy" =>
              Effect(c)[n] = IF n = request[c].new_name THEN blob[c] ELSE entry[n]
         /\ pc[c] \in {"remove", "clear"} =>
              Effect(c)[n] = IF n = request[c].name THEN Absent ELSE entry[n]
         /\ pc[c] = "undo" =>
              Effect(c)[n] = IF n = request[c].new_name THEN Absent ELSE entry[n]
         /\ pc[c] \notin {"set", "copy", "remove", "clear", "undo"} => Effect(c)[n] = entry[n]
<1>1. entry \in [Name -> Version]
  BY DEF Shape, TypeOK
<1>2. CASE pc[c] = "set"
  BY <1>1, <1>2 DEF Effect
<1>3. CASE pc[c] = "copy"
  BY <1>1, <1>3 DEF Effect
<1>4. CASE pc[c] \in {"remove", "clear"}
  BY <1>1, <1>4 DEF Effect
<1>5. CASE pc[c] = "undo"
  BY <1>1, <1>5 DEF Effect
<1>6. CASE pc[c] \notin {"set", "copy", "remove", "clear", "undo"}
  BY <1>1, <1>6 DEF Effect
<1> QED BY <1>2, <1>3, <1>4, <1>5, <1>6

LEMMA StepChanges ==
  ASSUME Shape, NEW c \in Client, Step(c)
  PROVE  /\ entry' = entry \/ entry' = Effect(c)
         /\ \A n \in Name : \/ entry'[n] \in {entry[n], Absent}
                            \/ pc[c] \in {"set", "copy"} /\ entry'[n] = blob[c]
         /\ \/ blob'[c] \in {blob[c], Absent}
            \/ pc[c] = "source" /\ blob'[c] = entry[request[c].name]
<1>1. entry' = entry \/ entry' = Effect(c)
  BY StepKinds DEF Finishes, Enters, Looks, GoesOn
<1>2. /\ \/ blob'[c] \in {blob[c], Absent}
         \/ pc[c] = "source" /\ blob'[c] = entry[request[c].name]
  BY StepKinds DEF Finishes, Enters, Looks, GoesOn
<1>3. ASSUME NEW n \in Name
      PROVE  \/ entry'[n] \in {entry[n], Absent}
             \/ pc[c] \in {"set", "copy"} /\ entry'[n] = blob[c]
  BY <1>1, EffectAt
<1> QED BY <1>1, <1>2, <1>3

LEMMA CallLeaves ==
  ASSUME Shape, NEW c \in Client, NEW rq \in Requests[c], Call(c, rq)
  PROVE  /\ \A d \in Client \ {c} : Untouched(d)
         /\ request'[c] = rq /\ pc'[c] \in {"get", "search", "lock"}
         /\ blob'[c] = (IF rq.op = "write" THEN calls + 1 ELSE Absent) /\ calls' = calls + 1
         /\ pc[c] = "idle" /\ entry' = entry /\ faults' = faults /\ deaths' = deaths
<1>1. /\ pc' = [pc EXCEPT ![c] = CASE rq.op = "read" -> "get" [] rq.op = "list" -> "search"
                                    [] OTHER -> "lock"]
      /\ request' = [request EXCEPT ![c] = rq]
      /\ blob' = [blob EXCEPT ![c] = IF rq.op = "write" THEN calls + 1 ELSE Absent]
      /\ calls' = calls + 1 /\ pc[c] = "idle"
      /\ UNCHANGED <<entry, outcome, faults, deaths>>
  BY DEF Call, Goto
<1>2. \A d \in Client \ {c} : Untouched(d)
  BY <1>1 DEF Shape, TypeOK, Untouched
<1>3. request'[c] = rq /\ pc'[c] \in {"get", "search", "lock"}
  BY <1>1 DEF Shape, TypeOK
<1>4. blob'[c] = (IF rq.op = "write" THEN calls + 1 ELSE Absent)
  BY <1>1 DEF Shape, TypeOK
<1> QED BY <1>1, <1>2, <1>3, <1>4

LEMMA DieLeaves ==
  ASSUME Shape, NEW p \in Process, Die(p)
  PROVE  /\ \A c \in Client : \/ Untouched(c)
                              \/ pc'[c] = "idle" /\ blob'[c] = Absent /\ reply'[c] = Answer("none")
         /\ entry' = entry /\ calls' = calls /\ faults' = faults /\ deaths' = deaths + 1
BY DEF Die, Forgets, Untouched, Shape, TypeOK

-----------------------------------------------------------------------------
(* A write stores what was never stored before *)

Writing(c) == pc[c] \in {"lock", "probe", "set"} /\ request[c].op = "write"

Used == /\ \A n \in Name : entry[n] <= calls
        /\ \A c \in Client : blob[c] <= calls
FreshBlob ==
  \A c \in Client : Writing(c) =>
    /\ blob[c] # Absent
    /\ \A n \in Name : entry[n] # blob[c]
    /\ \A d \in Client \ {c} : blob[d] # blob[c]
Fresh == Used /\ FreshBlob

\* A write that is still to store its secret is the one it was, or is new.
LEMMA FreshOfStep ==
  ASSUME Shape, Fresh, NEW c \in Client, Step(c)
  PROVE  Fresh'
<1>1. /\ \A n \in Name : entry[n] \in Nat /\ entry[n] <= calls
      /\ \A d \in Client : blob[d] \in Nat /\ blob[d] <= calls
      /\ calls \in Nat /\ calls' = calls
  BY StepKinds, KeychainAssumption DEF Shape, TypeOK, Version, Fresh, Used
<1>2. /\ \A n \in Name : \/ entry'[n] \in {entry[n], Absent}
                         \/ pc[c] \in {"set", "copy"} /\ entry'[n] = blob[c]
      /\ \A d \in Client \ {c} : Untouched(d)
  BY StepKinds, StepChanges
<1>3. \/ blob'[c] \in {blob[c], Absent}
      \/ \E n \in Name : blob'[c] = entry[n]
  BY StepChanges, NamesAt DEF Shape
<1>4. Used'
  BY <1>1, <1>2, <1>3 DEF Used, Untouched, Absent
<1>5. ASSUME NEW d \in Client, Writing(d)'
      PROVE  /\ Writing(d) /\ blob'[d] = blob[d]
             /\ d = c => entry' = entry
  <2>1. CASE d # c
    BY <1>2, <1>5, <2>1 DEF Untouched, Writing
  <2>2. CASE d = c
    <3>1. Enters(c) \/ GoesOn(c)
      BY <1>5, <2>2, StepKinds DEF Finishes, Looks, Writing
    <3>2. request'[c] = request[c]
      BY <1>5, <2>2, StepKinds DEF Writing
    <3> QED BY <1>5, <2>2, <3>1, <3>2 DEF Enters, GoesOn, Writing
  <2> QED BY <2>1, <2>2
<1>6. ASSUME NEW d \in Client, Writing(d)'
      PROVE  /\ blob'[d] # Absent
             /\ \A n \in Name : entry'[n] # blob'[d]
             /\ \A e \in Client \ {d} : blob'[e] # blob'[d]
  <2>1. /\ Writing(d) /\ blob'[d] = blob[d] /\ blob[d] # Absent
        /\ \A n \in Name : entry[n] # blob[d]
        /\ \A e \in Client \ {d} : blob[e] # blob[d]
    BY <1>5, <1>6 DEF Fresh, FreshBlob
  <2>2. \A n \in Name : entry'[n] # blob[d]
    <3>1. CASE d = c
      BY <1>5, <1>6, <2>1, <3>1
    <3>2. CASE d # c
      BY <1>2, <2>1, <3>2
    <3> QED BY <3>1, <3>2
  <2>3. \A e \in Client \ {d} : blob'[e] # blob[d]
    BY <1>2, <1>3, <2>1 DEF Untouched
  <2> QED BY <2>1, <2>2, <2>3
<1> QED BY <1>4, <1>6 DEF Fresh, FreshBlob

LEMMA FreshOfCall ==
  ASSUME Shape, Fresh, NEW c \in Client, NEW rq \in Requests[c], Call(c, rq)
  PROVE  Fresh'
<1>1. /\ \A n \in Name : entry[n] \in Nat /\ entry[n] <= calls
      /\ \A d \in Client : blob[d] \in Nat /\ blob[d] <= calls
      /\ calls \in Nat /\ calls' = calls + 1 /\ entry' = entry
      /\ \A d \in Client \ {c} : Untouched(d)
      /\ request'[c] = rq /\ blob'[c] = IF rq.op = "write" THEN calls + 1 ELSE Absent
  BY CallLeaves, KeychainAssumption DEF Shape, TypeOK, Version, Fresh, Used
<1>2. Used'
  BY <1>1 DEF Used, Untouched, Absent
<1>3. ASSUME NEW d \in Client, Writing(d)'
      PROVE  /\ blob'[d] # Absent
             /\ \A n \in Name : entry'[n] # blob'[d]
             /\ \A e \in Client \ {d} : blob'[e] # blob'[d]
  <2>1. CASE d = c
    <3>1. blob'[d] = calls + 1
      BY <1>1, <1>3, <2>1 DEF Writing
    <3> QED BY <1>1, <2>1, <3>1 DEF Untouched, Absent
  <2>2. CASE d # c
    <3>1. Writing(d) /\ blob'[d] = blob[d]
      BY <1>1, <1>3, <2>2 DEF Untouched, Writing
    <3>2. /\ blob[d] # Absent /\ \A n \in Name : entry[n] # blob[d]
          /\ \A e \in Client \ {d} : blob[e] # blob[d]
      BY <3>1 DEF Fresh, FreshBlob
    <3>3. blob'[c] # blob[d]
      BY <1>1, <3>2
    <3> QED BY <1>1, <3>1, <3>2, <3>3 DEF Untouched
  <2> QED BY <2>1, <2>2
<1> QED BY <1>2, <1>3 DEF Fresh, FreshBlob

LEMMA FreshOfDie ==
  ASSUME Shape, Fresh, NEW p \in Process, Die(p)
  PROVE  Fresh'
<1>1. /\ \A c \in Client : Untouched(c) \/ (pc'[c] = "idle" /\ blob'[c] = Absent)
      /\ entry' = entry /\ calls' = calls /\ calls \in Nat
  BY DieLeaves, KeychainAssumption DEF Shape, TypeOK
<1>2. Used'
  BY <1>1 DEF Fresh, Used, Untouched, Absent
<1>3. FreshBlob'
  <2> SUFFICES ASSUME NEW c \in Client, Writing(c)'
               PROVE  /\ blob'[c] # Absent
                      /\ \A n \in Name : entry'[n] # blob'[c]
                      /\ \A d \in Client \ {c} : blob'[d] # blob'[c]
    BY DEF FreshBlob
  <2>1. Writing(c) /\ blob'[c] = blob[c]
    BY <1>1 DEF Writing, Untouched
  <2>2. /\ blob[c] # Absent /\ \A n \in Name : entry[n] # blob[c]
        /\ \A d \in Client \ {c} : blob[d] # blob[c]
    BY <2>1 DEF Fresh, FreshBlob
  <2> QED BY <1>1, <2>1, <2>2 DEF Untouched
<1> QED BY <1>2, <1>3 DEF Fresh

-----------------------------------------------------------------------------
(* What an operation may count on while it holds the mutex *)

\* The operations that may store a secret belong to one process; the others
\* may still read, list and delete.
Writer(c) == \E rq \in Requests[c] : rq.op \in {"write", "rename"}
OneWriter == \A c, d \in Client : Writer(c) /\ Writer(d) => ProcessOf[c] = ProcessOf[d]

Changing(c) == pc[c] \in {"probe", "set", "source"} \cup Moving

LEMMA Alone ==
  ASSUME Shape, OneWriter, NEW c \in Client, NEW d \in Client, Changing(c), Changing(d)
  PROVE  c = d
<1>1. /\ pc[c] \in Holding /\ request[c] \in Requests[c] /\ request[c].op \in {"write", "rename"}
      /\ pc[d] \in Holding /\ request[d] \in Requests[d] /\ request[d].op \in {"write", "rename"}
  BY DEF Changing, Holding, Moving, Shape, Labelled
<1>2. ProcessOf[c] = ProcessOf[d]
  BY <1>1 DEF OneWriter, Writer
<1> QED BY <1>1, <1>2 DEF Shape, HoldsMutex

\* What other operations do meanwhile: they take entries away, for good.
Quiet ==
  /\ \A n \in Name : entry'[n] = entry[n] \/ (entry'[n] = Absent /\ entry[n] \in dropped')
  /\ dropped \subseteq dropped' /\ faults' >= faults /\ deaths' >= deaths

LEMMA OtherQuiet ==
  ASSUME Shape, OneWriter, NEW c \in Client, Changing(c),
         NEW d \in Client \ {c}, Step(d), Dropping
  PROVE  Quiet
<1>1. ~Changing(d)
  BY Alone
<1>2. dropped \subseteq dropped' /\ faults' >= faults /\ deaths' >= deaths
  BY StepKinds, KeychainAssumption, SMTT(30)
     DEF Dropping, Shape, TypeOK, Finishes, Enters, Looks, GoesOn
<1>3. ASSUME NEW n \in Name, entry'[n] # entry[n]
      PROVE  entry'[n] = Absent /\ entry[n] \in dropped'
  <2>1. entry' = Effect(d)
    BY <1>3, StepChanges
  <2>2. pc[d] = "remove" /\ n = request[d].name /\ entry'[n] = Absent
    BY <1>1, <1>3, <2>1, EffectAt DEF Changing, Moving
  <2>3. pc'[d] # pc[d]
    BY <2>2, StepKinds DEF Finishes, Enters, Looks, GoesOn
  <2>4. entry[n] \in Taken
    BY <1>3, <2>2, <2>3 DEF Taken
  <2> QED BY <1>3, <2>2, <2>4 DEF Dropping
<1> QED BY <1>2, <1>3 DEF Quiet

LEMMA StillQuiet ==
  ASSUME Shape, Dropping, entry' = entry, faults' = faults,
         deaths' = deaths \/ deaths' = deaths + 1
  PROVE  Quiet
BY DEF Quiet, Dropping, Shape, TypeOK

\* Anything but a step of its own: the operation is where it was, and the
\* other operations took entries away at most; or it is gone.
LEMMA Elsewhere ==
  ASSUME Shape, OneWriter, Dropping, NEW c \in Client, Changing(c),
         \/ \E d \in Client \ {c} : Step(d)
         \/ \E d \in Client : \E rq \in Requests[d] : Call(d, rq)
         \/ \E p \in Process : Die(p)
  PROVE  /\ Quiet
         /\ Untouched(c) \/ pc'[c] = "idle"
<1>1. ASSUME NEW d \in Client \ {c}, Step(d)
      PROVE  Quiet /\ Untouched(c)
  BY <1>1, OtherQuiet, StepKinds
<1>2. ASSUME NEW d \in Client, NEW rq \in Requests[d], Call(d, rq)
      PROVE  Quiet /\ Untouched(c)
  <2>1. d # c
    BY <1>2, CallLeaves DEF Changing, Moving
  <2> QED BY <1>2, <2>1, CallLeaves, StillQuiet
<1>3. ASSUME NEW p \in Process, Die(p)
      PROVE  /\ Quiet
             /\ Untouched(c) \/ pc'[c] = "idle"
  BY <1>3, DieLeaves, StillQuiet
<1> QED BY <1>1, <1>2, <1>3

\* A step takes an operation into a change only from within it, or from lock.
LEMMA ChangingOnlyByStep ==
  ASSUME Shape, NEW c \in Client, Changing(c)', ~Changing(c),
         \/ \E d \in Client : Step(d)
         \/ \E d \in Client : \E rq \in Requests[d] : Call(d, rq)
         \/ \E p \in Process : Die(p)
  PROVE  Step(c) /\ Enters(c) /\ pc'[c] \in {"probe", "source"}
<1>1. ASSUME NEW d \in Client, Step(d)
      PROVE  Step(c) /\ Enters(c) /\ pc'[c] \in {"probe", "source"}
  <2>1. d = c
    BY <1>1, StepKinds DEF Untouched, Changing
  <2> QED BY <1>1, <2>1, StepKinds DEF Finishes, Enters, Looks, GoesOn, Changing, Moving
<1>2. ASSUME NEW d \in Client, NEW rq \in Requests[d], Call(d, rq)
      PROVE  FALSE
  BY <1>2, CallLeaves DEF Untouched, Changing, Moving
<1>3. ASSUME NEW p \in Process, Die(p)
      PROVE  FALSE
  BY <1>3, DieLeaves DEF Untouched, Changing, Moving
<1> QED BY <1>1, <1>2, <1>3

-----------------------------------------------------------------------------
(* Created *)

\* Between looking and writing, the address can only have become emptier.
Probed ==
  \A c \in Client : pc[c] = "set" =>
    /\ outcome[c] \in {"Created", "Replaced"}
    /\ outcome[c] = "Created" => entry[request[c].name] = Absent

LEMMA ProbedStep ==
  ASSUME OneWriter
  PROVE  Shape /\ Probed /\ [Next]_vars => Probed'
<1> SUFFICES ASSUME Shape, Probed, [Next]_vars PROVE Probed'
  OBVIOUS
<1>1. CASE UNCHANGED vars
  BY <1>1 DEF Probed, vars, local
<1>2. CASE Next
  <2> SUFFICES ASSUME NEW c \in Client, pc'[c] = "set"
               PROVE  /\ outcome'[c] \in {"Created", "Replaced"}
                      /\ outcome'[c] = "Created" => entry'[request'[c].name] = Absent
    BY DEF Probed
  <2>1. Dropping
    BY <1>2 DEF Next, Dropping
  <2>2. CASE Step(c)
    BY <2>2, StepKinds DEF Finishes, Enters, Looks, GoesOn
  <2>3. CASE ~Step(c)
    <3>1. Changing(c)
      BY <1>2, <2>3, ChangingOnlyByStep DEF Next, Changing
    <3>2. Quiet /\ Untouched(c)
      BY <1>2, <2>1, <2>3, <3>1, Elsewhere DEF Next
    <3>3. pc[c] = "set" /\ request[c].name \in Name
      BY <3>2, NamesAt DEF Untouched, Shape
    <3> QED BY <3>2, <3>3 DEF Probed, Quiet, Untouched
  <2> QED BY <2>2, <2>3
<1> QED BY <1>1, <1>2

LEMMA ProbedInit == Init => Probed
BY DEF Init, Probed

\* An operation at set that ends and answers Created has just stored.
LEMMA CreatedBySet ==
  ASSUME Shape, Next, NEW c \in Client, pc[c] = "set", pc'[c] = "idle",
         reply'[c].code = "Created"
  PROVE  outcome[c] = "Created"
<1>1. DOMAIN reply = Client
  BY DEF Shape, TypeOK
<1>2. ASSUME Step(c)
      PROVE  outcome[c] = "Created"
  <2>1. CASE Set(c)
    <3>1. reply' = [reply EXCEPT ![c] = [Answer(outcome[c]) EXCEPT !.version = blob[c]]]
      BY <2>1 DEF Set, EndsWith
    <3>2. reply'[c].code = outcome[c]
      BY <1>1, <3>1 DEF Answer
    <3> QED BY <3>2
  <2>2. CASE Fail(c)
    <3>1. reply' = [reply EXCEPT ![c] = Answer("Unavailable")]
      BY <2>2 DEF Fail, Ends, EndsWith
    <3> QED BY <1>1, <3>1 DEF Answer
  <2> QED BY <1>2, <2>1, <2>2
          DEF Step, Exclusive, Read, Probe, Delete, Source, Destination, Copy, Clear, Undo,
              Search, Scan, Listed
<1>3. ASSUME NEW d \in Client, Step(d), d # c
      PROVE  FALSE
  BY <1>3, StepKinds DEF Untouched
<1>4. ASSUME NEW d \in Client, NEW rq \in Requests[d], Call(d, rq)
      PROVE  FALSE
  BY <1>4, CallLeaves DEF Untouched
<1>5. ASSUME NEW p \in Process, Die(p)
      PROVE  FALSE
  BY <1>5, DieLeaves DEF Untouched, Answer
<1> QED BY <1>2, <1>3, <1>4, <1>5 DEF Next

(***************************************************************************)
(* With one writing process, however many others delete and whatever       *)
(* fails: a write that answers Created found its address empty in the call *)
(* that stored, not only in the one that looked.                           *)
(***************************************************************************)
THEOREM CreatedIsTrue ==
  ASSUME OneWriter
  PROVE  Spec => CreatedOverwritesNothing
<1>1. Init => Shape /\ Probed
  BY ShapeInit, ProbedInit
<1>2. Shape /\ Probed /\ [Next]_vars => (Shape /\ Probed)'
  BY ShapeStep, ProbedStep
<1>3. Shape /\ Probed /\ [Next]_vars =>
        [\A c \in Client : (pc[c] = "set" /\ pc'[c] = "idle" /\ reply'[c].code = "Created") =>
           entry[request[c].name] = Absent]_vars
  <2> SUFFICES ASSUME Shape, Probed, Next,
                      NEW c \in Client, pc[c] = "set", pc'[c] = "idle",
                      reply'[c].code = "Created"
               PROVE  entry[request[c].name] = Absent
    OBVIOUS
  <2> QED BY CreatedBySet DEF Probed
<1> QED BY <1>1, <1>2, <1>3, PTL DEF Spec, CreatedOverwritesNothing

-----------------------------------------------------------------------------
(* Renames *)

\* The entry a rename moves is at its source unless someone took it away, and
\* from the copy on at its destination too; no third name has it.
MoveAt(c) ==
  LET rq == request[c]
      moved == blob[c]
  IN  /\ moved # Absent /\ entry[rq.name] \in {moved, Absent}
      /\ moved \in dropped \/ entry[rq.name] = moved
      /\ pc[c] = "copy" => entry[rq.new_name] = Absent
      /\ pc[c] \in {"clear", "undo"} =>
           /\ entry[rq.new_name] \in {moved, Absent}
           /\ \/ moved \in dropped
              \/ entry[rq.new_name] = moved /\ rq.name # rq.new_name
      /\ pc[c] \in {"destination", "copy"} =>
           \/ faults > 1 \/ deaths > 0
           \/ \A n \in Name \ {rq.name} : entry[n] # moved
      /\ pc[c] = "undo" => faults > 0 \/ entry[rq.name] = Absent
InMove == \A c \in Client : pc[c] \in Moving => MoveAt(c)

\* Two names have one entry only within the rename of one to the other.
Between(c, n, m) ==
  pc[c] \in {"clear", "undo"} /\ {n, m} = {request[c].name, request[c].new_name}
Single ==
  \/ faults > 1 \/ deaths > 0
  \/ \A n, m \in Name :
       (n # m /\ entry[n] # Absent /\ entry[n] = entry[m]) =>
         \E c \in Client : Between(c, n, m)

MoveInv == Shape /\ Fresh /\ InMove /\ Single

\* Whatever others take away meanwhile, an operation that moves goes on.
LEMMA MoveUndisturbed ==
  ASSUME Shape, Shape', NEW c \in Client, pc[c] \in Moving, MoveAt(c), Quiet, Untouched(c)
  PROVE  MoveAt(c)'
<1> DEFINE rq == request[c]
           moved == blob[c]
<1>1. rq.name \in Name /\ rq.new_name \in Name
  BY NamesAt DEF Shape
<1>2. /\ faults \in Nat /\ deaths \in Nat /\ faults' >= faults /\ deaths' >= deaths
      /\ faults' \in Nat /\ deaths' \in Nat
  BY KeychainAssumption DEF Shape, TypeOK, Quiet
<1>3. /\ \A n \in Name : entry'[n] = entry[n] \/ (entry'[n] = Absent /\ entry[n] \in dropped')
      /\ dropped \subseteq dropped'
  BY DEF Quiet
<1>4. /\ pc'[c] = pc[c] /\ request'[c] = rq /\ blob'[c] = moved
  BY DEF Untouched
<1>5. moved # Absent /\ entry'[rq.name] \in {moved, Absent}
  BY <1>1, <1>3 DEF MoveAt
<1>6. moved \in dropped' \/ entry'[rq.name] = moved
  BY <1>1, <1>3 DEF MoveAt
<1>7. pc[c] = "copy" => entry'[rq.new_name] = Absent
  BY <1>1, <1>3 DEF MoveAt
<1>8. pc[c] \in {"clear", "undo"} =>
        /\ entry'[rq.new_name] \in {moved, Absent}
        /\ moved \in dropped' \/ (entry'[rq.new_name] = moved /\ rq.name # rq.new_name)
  BY <1>1, <1>3 DEF MoveAt
<1>9. pc[c] \in {"destination", "copy"} =>
        \/ faults' > 1 \/ deaths' > 0
        \/ \A n \in Name \ {rq.name} : entry'[n] # moved
  <2>1. faults > 1 => faults' > 1
    BY <1>2
  <2>2. deaths > 0 => deaths' > 0
    BY <1>2
  <2> QED BY <1>3, <1>5, <2>1, <2>2 DEF MoveAt
<1>10. pc[c] = "undo" => faults' > 0 \/ entry'[rq.name] = Absent
  <2>1. faults > 0 => faults' > 0
    BY <1>2
  <2> QED BY <1>1, <1>3, <2>1 DEF MoveAt
<1> QED BY <1>4, <1>5, <1>6, <1>7, <1>8, <1>9, <1>10 DEF MoveAt

\* The step of the operation itself.
LEMMA MoveOwnStep ==
  ASSUME OneWriter, ~LateFaults, MoveInv, NEW c \in Client, Step(c), Dropping, pc'[c] \in Moving
  PROVE  MoveAt(c)'
<1> DEFINE rq == request[c]
<1>1. GoesOn(c)
  BY StepKinds DEF MoveInv, Finishes, Enters, Looks, Moving
<1>2. request'[c] = rq /\ dropped \subseteq dropped'
  BY <1>1 DEF GoesOn, Dropping
<1>3. faults \in Nat /\ deaths \in Nat /\ deaths' = deaths
  BY StepKinds, KeychainAssumption DEF MoveInv, Shape, TypeOK
<1>4. rq.name \in Name /\ rq.new_name \in Name
  BY <1>1, NamesAt DEF MoveInv, Shape, GoesOn, Moving
<1>5. CASE /\ pc[c] = "source" /\ pc'[c] = "destination" /\ entry[rq.name] # Absent
           /\ entry' = entry /\ blob'[c] = entry[rq.name] /\ faults' = faults
  <2>1. \/ faults > 1 \/ deaths > 0
        \/ \A n \in Name \ {rq.name} : entry[n] # entry[rq.name]
    <3> SUFFICES ASSUME ~(faults > 1), ~(deaths > 0),
                        NEW n \in Name \ {rq.name}, entry[n] = entry[rq.name]
                 PROVE  FALSE
      OBVIOUS
    <3>1. PICK d \in Client : Between(d, n, rq.name)
      BY <1>4, <1>5 DEF MoveInv, Single
    <3>2. Changing(d) /\ Changing(c)
      BY <1>5, <3>1 DEF Between, Changing, Moving
    <3>3. d = c
      BY <3>2, Alone DEF MoveInv
    <3> QED BY <1>5, <3>1, <3>3 DEF Between
  <2> QED BY <1>2, <1>3, <1>5, <2>1 DEF MoveAt
<1>6. CASE /\ pc[c] = "destination" /\ pc'[c] = "copy" /\ entry[rq.new_name] = Absent
           /\ entry' = entry /\ blob'[c] = blob[c] /\ faults' = faults
  <2>1. MoveAt(c)
    BY <1>6 DEF MoveInv, InMove, Moving
  <2> QED BY <1>2, <1>3, <1>6, <2>1 DEF MoveAt
<1>7. CASE /\ pc[c] = "copy" /\ pc'[c] = "clear"
           /\ entry' = Effect(c) /\ blob'[c] = blob[c] /\ faults' = faults
  <2>1. MoveAt(c)
    BY <1>7 DEF MoveInv, InMove, Moving
  <2>2. \A n \in Name : entry'[n] = IF n = rq.new_name THEN blob[c] ELSE entry[n]
    BY <1>7, EffectAt DEF MoveInv
  <2>3. blob[c] \in dropped' \/ rq.name # rq.new_name
    BY <1>2, <1>7, <2>1 DEF MoveAt
  <2>4. entry'[rq.name] \in {blob[c], Absent} /\ entry'[rq.new_name] = blob[c]
    BY <1>4, <2>1, <2>2 DEF MoveAt
  <2>5. blob[c] \in dropped' \/ entry'[rq.name] = blob[c]
    BY <1>2, <1>4, <2>1, <2>2 DEF MoveAt
  <2>6. blob[c] # Absent
    BY <2>1 DEF MoveAt
  <2> QED BY <1>2, <1>7, <2>3, <2>4, <2>5, <2>6 DEF MoveAt
<1>8. CASE /\ pc[c] = "clear" /\ pc'[c] = "undo" /\ blob'[c] = blob[c] /\ entry' = entry
           /\ \/ entry[rq.name] = Absent
              \/ faults' = faults + 1
  <2>1. MoveAt(c)
    BY <1>8 DEF MoveInv, InMove, Moving
  <2>2. faults' = faults + 1 => faults' > 0
    BY <1>3
  <2> QED BY <1>2, <1>8, <2>1, <2>2 DEF MoveAt
<1> QED BY <1>1, <1>5, <1>6, <1>7, <1>8 DEF GoesOn, Moving

LEMMA InMoveStep ==
  ASSUME OneWriter, ~LateFaults, MoveInv, Next
  PROVE  InMove'
<1> SUFFICES ASSUME NEW c \in Client, pc'[c] \in Moving
             PROVE  MoveAt(c)'
  BY DEF InMove
<1>1. Dropping /\ Shape /\ Shape'
  BY ShapeStep DEF Next, Dropping, MoveInv
<1>2. CASE Step(c)
  BY <1>1, <1>2, MoveOwnStep
<1>3. CASE ~Step(c)
  <2>1. Changing(c)
    BY <1>1, <1>3, ChangingOnlyByStep DEF Next, Changing
  <2>2. Quiet /\ Untouched(c)
    BY <1>1, <1>3, <2>1, Elsewhere DEF Next, Moving
  <2>3. pc[c] \in Moving /\ MoveAt(c)
    BY <2>2 DEF Untouched, MoveInv, InMove
  <2> QED BY <1>1, <2>2, <2>3, MoveUndisturbed
<1> QED BY <1>2, <1>3

\* Two names come to one entry only when it is copied from one to the other,
\* and stay so only until that rename ends.
LEMMA SingleOfStep ==
  ASSUME OneWriter, ~LateFaults, MoveInv, NEW d \in Client, Step(d)
  PROVE  Single'
<1>1. /\ faults \in Nat /\ deaths \in Nat /\ deaths' = deaths
      /\ faults' = faults \/ faults' = faults + 1
      /\ Shape /\ Fresh /\ InMove
  BY StepKinds, KeychainAssumption
     DEF MoveInv, Shape, TypeOK, Finishes, Enters, Looks, GoesOn
<1> SUFFICES ASSUME ~(faults' > 1), ~(deaths' > 0),
                    NEW n \in Name, NEW m \in Name, n # m,
                    entry'[n] # Absent, entry'[n] = entry'[m]
             PROVE  \E c \in Client : Between(c, n, m)'
  BY DEF Single
<1>2. ~(faults > 1) /\ ~(deaths > 0)
  BY <1>1
<1>3. \A c \in Client \ {d} : Untouched(c)
  BY <1>1, StepKinds
<1>4. CASE entry[n] = entry'[n] /\ entry[m] = entry'[m]
  <2>1. PICK c \in Client : Between(c, n, m)
    BY <1>2, <1>4 DEF MoveInv, Single
  <2>2. CASE c # d
    BY <1>3, <2>1, <2>2 DEF Between, Untouched
  <2>3. CASE c = d
    <3>1. pc[d] \in {"clear", "undo"} /\ MoveAt(d) /\ entry[request[d].name] # Absent
      BY <1>1, <1>4, <2>1, <2>3 DEF Between, InMove, Moving
    <3>2. Finishes(d) \/ GoesOn(d)
      BY <1>1, <3>1, StepKinds DEF Enters, Looks, Shape, Labelled, Moving
    <3>3. CASE GoesOn(d)
      BY <2>1, <2>3, <3>1, <3>3 DEF GoesOn, Between
    <3>4. CASE Finishes(d)
      <4>1. request[d].name \in Name /\ request[d].new_name \in Name
        BY <1>1, <3>1, NamesAt DEF Shape, Moving
      <4>2. entry' = Effect(d)
        BY <1>1, <3>1, <3>4 DEF Finishes, MoveAt
      <4>3. entry'[request[d].name] = Absent \/ entry'[request[d].new_name] = Absent
        BY <1>1, <3>1, <4>1, <4>2, EffectAt
      <4> QED BY <2>1, <2>3, <4>3 DEF Between
    <3> QED BY <3>2, <3>3, <3>4
  <2> QED BY <2>2, <2>3
<1>5. CASE entry[n] # entry'[n] \/ entry[m] # entry'[m]
  <2>1. entry' = Effect(d)
    BY <1>1, <1>5, StepChanges
  <2>2. CASE pc[d] = "set"
    <3>1. \A k \in Name : entry[k] # blob[d]
      BY <1>1, <2>2 DEF Fresh, FreshBlob, Writing, Shape, Labelled
    <3>2. \A k \in Name : entry'[k] = IF k = request[d].name THEN blob[d] ELSE entry[k]
      BY <1>1, <2>1, <2>2, EffectAt
    <3> QED BY <1>5, <3>1, <3>2
  <2>3. CASE pc[d] = "copy"
    <3>1. \A k \in Name : entry'[k] = IF k = request[d].new_name THEN blob[d] ELSE entry[k]
      BY <1>1, <2>1, <2>3, EffectAt
    <3>2. \A k \in Name \ {request[d].name} : entry[k] # blob[d]
      BY <1>1, <1>2, <2>3 DEF InMove, MoveAt, Moving
    <3>3. {n, m} = {request[d].name, request[d].new_name}
      BY <1>5, <3>1, <3>2
    <3>4. GoesOn(d)
      <4>1. ~Enters(d) /\ ~Looks(d)
        BY <1>1, <2>3 DEF Enters, Looks, Shape, Labelled, Moving
      <4>2. ~Finishes(d)
        BY <1>5, <2>3 DEF Finishes
      <4> QED BY <1>1, <4>1, <4>2, StepKinds
    <3> QED BY <2>3, <3>3, <3>4 DEF GoesOn, Between
  <2>4. CASE pc[d] \notin {"set", "copy"}
    <3>1. \A k \in Name : entry'[k] \in {entry[k], Absent}
      BY <1>1, <2>4, StepChanges
    <3> QED BY <1>5, <3>1
  <2> QED BY <2>2, <2>3, <2>4
<1> QED BY <1>4, <1>5

LEMMA SingleStep ==
  ASSUME OneWriter, ~LateFaults, MoveInv, Next
  PROVE  Single'
<1>1. ASSUME NEW c \in Client, NEW rq \in Requests[c], Call(c, rq)
      PROVE  Single'
  <2>1. /\ entry' = entry /\ faults' = faults /\ deaths' = deaths /\ pc[c] = "idle"
        /\ \A d \in Client \ {c} : Untouched(d)
    BY <1>1, CallLeaves DEF MoveInv
  <2>2. \A d \in Client, n \in Name, m \in Name : Between(d, n, m) => Between(d, n, m)'
    BY <2>1 DEF Between, Untouched
  <2> QED BY <2>1, <2>2 DEF MoveInv, Single
<1>2. ASSUME NEW p \in Process, Die(p)
      PROVE  Single'
  <2>1. deaths' > 0
    BY <1>2, DieLeaves, KeychainAssumption DEF MoveInv, Shape, TypeOK
  <2> QED BY <2>1 DEF Single
<1> QED BY <1>1, <1>2, SingleOfStep DEF Next

LEMMA MoveInvInit == Init => MoveInv
<1> SUFFICES ASSUME Init PROVE MoveInv
  OBVIOUS
<1>1. /\ \A c \in Client : pc[c] = "idle" /\ blob[c] = Absent
      /\ \A n \in Name : entry[n] = Absent
      /\ calls = 0
  BY DEF Init
<1> QED BY <1>1, ShapeInit
        DEF MoveInv, Fresh, Used, FreshBlob, Writing, InMove, Moving, Single, Absent

LEMMA MoveInvStep ==
  ASSUME OneWriter, ~LateFaults
  PROVE  MoveInv /\ [Next]_vars => MoveInv'
<1> SUFFICES ASSUME MoveInv, [Next]_vars PROVE MoveInv'
  OBVIOUS
<1>1. CASE UNCHANGED vars
  <2>1. Shape'
    BY ShapeStep DEF MoveInv
  <2>2. Fresh'
    BY <1>1 DEF MoveInv, Fresh, Used, FreshBlob, Writing, vars, local, bounds
  <2>3. InMove' /\ Single'
    BY <1>1 DEF MoveInv, InMove, MoveAt, Single, Between, vars, local, bounds
  <2> QED BY <2>1, <2>2, <2>3 DEF MoveInv
<1>2. CASE Next
  <2>1. Shape'
    BY ShapeStep DEF MoveInv
  <2>2. Fresh'
    BY <1>2, FreshOfStep, FreshOfCall, FreshOfDie DEF MoveInv, Next
  <2> QED BY <1>2, <2>1, <2>2, InMoveStep, SingleStep DEF MoveInv
<1> QED BY <1>1, <1>2

(***************************************************************************)
(* With one writing process and no late faults, between renames an entry   *)
(* is under two names only after a second failure or a death, although     *)
(* other processes delete while it is copied.                              *)
(***************************************************************************)
THEOREM RenamesLeaveOneName ==
  ASSUME OneWriter, ~LateFaults
  PROVE  Spec => []OneNameEach
<1>1. MoveInv => OneNameEach
  BY DEF MoveInv, Single, OneNameEach, Between
<1> QED BY <1>1, MoveInvInit, MoveInvStep, PTL DEF Spec

\* A name loses its entry to a write or a delete, or to a rename that has put
\* the entry at another name.
LEMMA TakenOrMoved ==
  ASSUME OneWriter, ~LateFaults, MoveInv, Dropping, NEW d \in Client, Step(d),
         NEW n \in Name, entry[n] # Absent, \A m \in Name : entry'[m] # entry[n]
  PROVE  entry[n] \in dropped'
<1>1. Shape /\ InMove /\ dropped \subseteq dropped'
  BY DEF MoveInv, Dropping
<1>2. entry' = Effect(d) /\ entry'[n] # entry[n]
  BY <1>1, StepChanges
<1>3. CASE pc[d] \in {"set", "remove"}
  <2>1. n = request[d].name
    BY <1>1, <1>2, <1>3, EffectAt
  <2>2. pc'[d] # pc[d]
    BY <1>1, <1>3, StepKinds DEF Finishes, Enters, Looks, GoesOn
  <2>3. entry[n] \in Taken
    BY <1>2, <1>3, <2>1, <2>2 DEF Taken
  <2> QED BY <2>3 DEF Dropping
<1>4. CASE pc[d] = "copy"
  <2>1. MoveAt(d) /\ n = request[d].new_name
    BY <1>1, <1>2, <1>4, EffectAt DEF InMove, Moving
  <2> QED BY <1>4, <2>1 DEF MoveAt
<1>5. CASE pc[d] \in {"clear", "undo"}
  <2>1. MoveAt(d)
    BY <1>1, <1>5 DEF InMove, Moving
  <2>2. request[d].name \in Name /\ request[d].new_name \in Name
    BY <1>1, <1>5, NamesAt DEF Shape, Moving
  <2>3. CASE pc[d] = "clear"
    <3>1. n = request[d].name
      BY <1>1, <1>2, <2>3, EffectAt
    <3>2. request[d].name # request[d].new_name =>
            entry'[request[d].new_name] = entry[request[d].new_name]
      BY <1>1, <1>2, <2>2, <2>3, EffectAt
    <3> QED BY <1>1, <1>5, <2>1, <2>2, <3>1, <3>2 DEF MoveAt
  <2>4. CASE pc[d] = "undo"
    <3>1. n = request[d].new_name
      BY <1>1, <1>2, <2>4, EffectAt
    <3>2. request[d].name # request[d].new_name =>
            entry'[request[d].name] = entry[request[d].name]
      BY <1>1, <1>2, <2>2, <2>4, EffectAt
    <3> QED BY <1>1, <1>5, <2>1, <2>2, <3>1, <3>2 DEF MoveAt
  <2> QED BY <1>5, <2>3, <2>4
<1>6. CASE pc[d] \notin {"set", "remove", "copy", "clear", "undo"}
  BY <1>1, <1>2, <1>6, EffectAt
<1> QED BY <1>3, <1>4, <1>5, <1>6

(***************************************************************************)
(* With one writing process and no late faults, no entry goes but by a     *)
(* write or a delete: a rename and its undoing lose nothing, whichever of  *)
(* their calls fails, wherever their process dies and whatever another     *)
(* process deletes between two of their calls.                             *)
(***************************************************************************)
THEOREM NoSecretLost ==
  ASSUME OneWriter, ~LateFaults
  PROVE  Spec => NothingLost
<1>1. MoveInv /\ [Next]_vars =>
        [\A n \in Held : (\A m \in Name : entry'[m] # entry[n]) => entry[n] \in dropped']_vars
  <2> SUFFICES ASSUME MoveInv, Next,
                      NEW n \in Name, entry[n] # Absent, \A m \in Name : entry'[m] # entry[n]
               PROVE  entry[n] \in dropped'
    BY DEF Held
  <2>1. Dropping /\ Shape /\ entry' # entry
    BY DEF Next, Dropping, MoveInv
  <2>2. PICK d \in Client : Step(d)
    BY <2>1, CallLeaves, DieLeaves DEF Next
  <2> QED BY <2>1, <2>2, TakenOrMoved
<1> QED BY <1>1, MoveInvInit, MoveInvStep, PTL DEF Spec, NothingLost
=============================================================================
