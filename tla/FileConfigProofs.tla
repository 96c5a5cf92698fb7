-------------------------- MODULE FileConfigProofs --------------------------
(***************************************************************************)
(* Proofs about FileConfig, for any number of processes, namespaces,       *)
(* backends and names, any number of faults and losses of power: the file  *)
(* is never torn, and a change answered Ok is in every file that may       *)
(* survive.  The argument is in the invariant Safe: one process works on   *)
(* the file at a time, what it renames is whole and on the disk, and what  *)
(* it will answer for is what the path names.                              *)
(***************************************************************************)
EXTENDS FileConfig, TLAPS

Working == {"loading", "staging", "syncing", "renaming", "settling", "unlocking"}

OneWorker == \A c \in Client : pc[c] \in Working => lock = c
WholeOnDisk ==
  /\ file \in durable
  /\ \A f \in durable : f.synced /\ f.content # Torn
StagedWhole ==
  \A c \in Client :
    /\ staged[c].content # Torn
    /\ pc[c] = "renaming" => staged[c].synced
Underway ==
  \A c \in Client :
    /\ pc[c] \in {"staging", "syncing", "renaming"} =>
         /\ Verdict(Parse(file.content), pending[c]) = "Ok"
         /\ Parse(staged[c].content) = Apply(Parse(file.content), pending[c])
         /\ Reflects(Parse(staged[c].content), pending[c])
    /\ pc[c] \in {"settling", "unlocking"} => Reflects(Parse(file.content), pending[c])
    /\ pc[c] = "unlocking" => durable = {file}
Safe == TypeOK /\ OneWorker /\ WholeOnDisk /\ StagedWhole /\ Underway

-----------------------------------------------------------------------------
(***************************************************************************)
(* What the operators of ConfigDocument return.                            *)
(***************************************************************************)
LEMMA EmptyIsDocument == EmptyDocument \in Document
  BY DocumentAssumption DEF EmptyDocument, Document

LEMMA WithDefaultIsDocument ==
  ASSUME NEW doc \in Document
  PROVE  WithDefault(doc) \in Document
  BY DocumentAssumption DEF WithDefault, Document

LEMMA ApplyIsDocument ==
  ASSUME NEW doc \in Document, NEW ch \in Change
  PROVE  Apply(doc, ch) \in Document
<1>1. CASE ch \in [op : {"insert_namespace"}, key : Namespace, mount : Backend \cup {NoMount}]
  BY <1>1 DEF Apply, Document
<1>2. CASE ch \in [op : {"remove_namespace"}, key : Namespace]
  BY <1>2 DEF Apply, Document
<1>3. CASE ch \in [op : {"set_mount"}, key : Namespace, mount : Backend]
  BY <1>3 DEF Apply, Document
<1>4. CASE ch \in [op : {"insert_binding"}, address : Address, locator : Locator]
  BY <1>4 DEF Apply, Document
<1>5. CASE ch \in [op : {"remove_binding"}, address : Address]
  BY <1>5 DEF Apply, Document
<1> QED BY <1>1, <1>2, <1>3, <1>4, <1>5 DEF Change

(***************************************************************************)
(* A change that was accepted leaves the default namespace in place, and   *)
(* applying it once more changes nothing: what is written is read back as  *)
(* it was meant.                                                           *)
(***************************************************************************)
LEMMA AcceptedIsReflected ==
  ASSUME NEW doc \in Document, doc.namespaces[DefaultNamespace] # Absent,
         NEW ch \in Change, Verdict(doc, ch) = "Ok"
  PROVE  /\ WithDefault(Apply(doc, ch)) = Apply(doc, ch)
         /\ Reflects(WithDefault(Apply(doc, ch)), ch)
<1> DEFINE new == Apply(doc, ch)
<1>1. new.namespaces[DefaultNamespace] # Absent /\ Apply(new, ch) = new
  <2>0. ~Collides(doc, ch)
    BY DEF Verdict
  <2>1. CASE ch \in [op : {"insert_namespace"}, key : Namespace, mount : Backend \cup {NoMount}]
    <3>1. new = [doc EXCEPT !.namespaces = [doc.namespaces EXCEPT ![ch.key] = ch.mount]]
      BY <2>1 DEF Apply
    <3>2. Apply(new, ch) = [new EXCEPT !.namespaces = [new.namespaces EXCEPT ![ch.key] = ch.mount]]
      BY <2>1 DEF Apply
    <3>3. ch.mount # Absent
      BY <2>1, DocumentAssumption
    <3>4. new.namespaces = [doc.namespaces EXCEPT ![ch.key] = ch.mount]
      BY <3>1 DEF Document
    <3>5. new.namespaces[DefaultNamespace] # Absent
      BY <2>1, <3>3, <3>4, DocumentAssumption DEF Document
    <3>6. [new.namespaces EXCEPT ![ch.key] = ch.mount] = new.namespaces
      BY <2>1, <3>4 DEF Document
    <3>7. Apply(new, ch) = new
      BY <3>1, <3>2, <3>6, ZenonT(40) DEF Document
    <3> QED BY <3>5, <3>7
  <2>2. CASE ch \in [op : {"remove_namespace"}, key : Namespace]
    <3>1. new = [doc EXCEPT !.namespaces = [doc.namespaces EXCEPT ![ch.key] = Absent]]
      BY <2>2 DEF Apply
    <3>2. Apply(new, ch) = [new EXCEPT !.namespaces = [new.namespaces EXCEPT ![ch.key] = Absent]]
      BY <2>2 DEF Apply
    <3>3. ch.key # DefaultNamespace
      BY <2>0, <2>2 DEF Collides
    <3>4. new.namespaces = [doc.namespaces EXCEPT ![ch.key] = Absent]
      BY <3>1 DEF Document
    <3>5. new.namespaces[DefaultNamespace] # Absent
      BY <2>2, <3>3, <3>4, DocumentAssumption DEF Document
    <3>6. [new.namespaces EXCEPT ![ch.key] = Absent] = new.namespaces
      BY <2>2, <3>4 DEF Document
    <3>7. Apply(new, ch) = new
      BY <3>1, <3>2, <3>6, ZenonT(40) DEF Document
    <3> QED BY <3>5, <3>7
  <2>3. CASE ch \in [op : {"set_mount"}, key : Namespace, mount : Backend]
    <3>1. new = [doc EXCEPT !.namespaces = [doc.namespaces EXCEPT ![ch.key] = ch.mount]]
      BY <2>3 DEF Apply
    <3>2. Apply(new, ch) = [new EXCEPT !.namespaces = [new.namespaces EXCEPT ![ch.key] = ch.mount]]
      BY <2>3 DEF Apply
    <3>3. new.namespaces = [doc.namespaces EXCEPT ![ch.key] = ch.mount]
      BY <3>1 DEF Document
    <3>4. new.namespaces[DefaultNamespace] # Absent
      BY <2>3, <3>3, DocumentAssumption DEF Document
    <3>5. [new.namespaces EXCEPT ![ch.key] = ch.mount] = new.namespaces
      BY <2>3, <3>3 DEF Document
    <3>6. Apply(new, ch) = new
      BY <3>1, <3>2, <3>5 DEF Document
    <3> QED BY <3>4, <3>6
  <2>4. CASE ch \in [op : {"insert_binding"}, address : Address, locator : Locator]
    <3>1. new = [doc EXCEPT !.bindings = [doc.bindings EXCEPT ![ch.address] = ch.locator]]
      BY <2>4 DEF Apply
    <3>2. Apply(new, ch) = [new EXCEPT !.bindings = [new.bindings EXCEPT ![ch.address] = ch.locator]]
      BY <2>4 DEF Apply
    <3>3. new.bindings = [doc.bindings EXCEPT ![ch.address] = ch.locator]
      BY <3>1 DEF Document
    <3>4. new.namespaces[DefaultNamespace] # Absent
      BY <3>1 DEF Document
    <3>5. [new.bindings EXCEPT ![ch.address] = ch.locator] = new.bindings
      BY <2>4, <3>3 DEF Document
    <3>6. Apply(new, ch) = new
      BY <3>1, <3>2, <3>5, ZenonT(40) DEF Document
    <3> QED BY <3>4, <3>6
  <2>5. CASE ch \in [op : {"remove_binding"}, address : Address]
    <3>1. new = [doc EXCEPT !.bindings = [doc.bindings EXCEPT ![ch.address] = Absent]]
      BY <2>5 DEF Apply
    <3>2. Apply(new, ch) = [new EXCEPT !.bindings = [new.bindings EXCEPT ![ch.address] = Absent]]
      BY <2>5 DEF Apply
    <3>3. new.bindings = [doc.bindings EXCEPT ![ch.address] = Absent]
      BY <3>1 DEF Document
    <3>4. new.namespaces[DefaultNamespace] # Absent
      BY <3>1 DEF Document
    <3>5. [new.bindings EXCEPT ![ch.address] = Absent] = new.bindings
      BY <2>5, <3>3 DEF Document
    <3>6. Apply(new, ch) = new
      BY <3>1, <3>2, <3>5 DEF Document
    <3> QED BY <3>4, <3>6
  <2> QED BY <2>1, <2>2, <2>3, <2>4, <2>5 DEF Change
<1> QED BY <1>1 DEF Reflects, WithDefault

LEMMA ParseHasDefault ==
  ASSUME NEW doc \in Document
  PROVE  Parse(doc) \in Document /\ Parse(doc).namespaces[DefaultNamespace] # Absent
  BY DocumentAssumption DEF Parse, WithDefault, Document

-----------------------------------------------------------------------------
(***************************************************************************)
(* Safe holds at the start.                                                *)
(***************************************************************************)
LEMMA InitSafe == Init => Safe
<1> SUFFICES ASSUME Init PROVE Safe
  OBVIOUS
<1>1. PICK doc \in Written \cup {EmptyDocument} : file = OnDisk(doc)
  BY DEF Init
<1>2. doc \in Document /\ doc # Torn
  BY EmptyIsDocument, FileConfigAssumption
<1>3. TypeOK
  BY <1>1, <1>2, EmptyIsDocument, FileConfigAssumption
  DEF Init, TypeOK, File, OnDisk, NoFile, Answer
<1>4. OneWorker
  BY DEF Init, OneWorker, Working
<1>5. WholeOnDisk
  BY <1>1, <1>2 DEF Init, WholeOnDisk, OnDisk
<1>6. StagedWhole
  BY EmptyIsDocument, FileConfigAssumption DEF Init, StagedWhole, NoFile
<1>7. Underway
  BY DEF Init, Underway
<1> QED BY <1>3, <1>4, <1>5, <1>6, <1>7 DEF Safe

(***************************************************************************)
(* Every end of a call keeps what Safe says of the other processes, when   *)
(* the file stays and the staged file of the caller is whole.              *)
(***************************************************************************)
LEMMA EndSafe ==
  ASSUME Safe, NEW c \in Client, NEW code \in {"Ok", "Conflict", "NotFound", "Unavailable", "Died"},
         Ends(c, code), UNCHANGED <<file, durable>>,
         staged' = staged \/ staged' = [staged EXCEPT ![c] = NoFile],
         calls' \in 0 .. MaxCalls, faults' \in 0 .. MaxFaults, losses' \in 0 .. MaxLosses
  PROVE  Safe'
<1> USE DEF Safe, Ends, Goto
<1>0. NoFile \in File /\ NoFile.content # Torn
  BY EmptyIsDocument, FileConfigAssumption DEF NoFile, File
<1>1. TypeOK'
  BY <1>0 DEF TypeOK, Answer
<1>2. OneWorker'
  BY DEF OneWorker, TypeOK, Working
<1>3. WholeOnDisk'
  BY DEF WholeOnDisk
<1>4. StagedWhole'
  BY <1>0 DEF StagedWhole, TypeOK
<1>5. Underway'
  BY DEF Underway, TypeOK
<1> QED BY <1>1, <1>2, <1>3, <1>4, <1>5

(***************************************************************************)
(* Every step keeps Safe.                                                  *)
(***************************************************************************)
LEMMA NextSafe == Safe /\ [Next]_vars => Safe'
<1> SUFFICES ASSUME Safe, [Next]_vars PROVE Safe'
  OBVIOUS
<1> USE DEF Safe
<1>1. ASSUME NEW c \in Client, NEW ch \in Changes, Call(c, ch)
      PROVE  Safe'
  <2>1. TypeOK'
    BY <1>1, FileConfigAssumption DEF Call, Goto, files, TypeOK
  <2>2. OneWorker' /\ WholeOnDisk' /\ StagedWhole' /\ Underway'
    BY <1>1 DEF Call, Goto, files, TypeOK, OneWorker, WholeOnDisk, StagedWhole, Underway, Working
  <2> QED BY <2>1, <2>2
<1>2. ASSUME NEW c \in Client, Open(c)
      PROVE  Safe'
  BY <1>2 DEF Open, Goto, files, bounds, TypeOK, OneWorker, WholeOnDisk, StagedWhole, Underway, Working
<1>3. ASSUME NEW c \in Client, Acquire(c)
      PROVE  Safe'
  BY <1>3, FileConfigAssumption
  DEF Acquire, Goto, files, bounds, TypeOK, OneWorker, WholeOnDisk, StagedWhole, Underway, Working
<1>4. ASSUME NEW c \in Client, LoadRefused(c)
      PROVE  Safe'
  <2>1. PICK code \in {"Ok", "Conflict", "NotFound", "Unavailable", "Died"} : Ends(c, code)
    BY <1>4 DEF LoadRefused, Verdict
  <2> QED BY <1>4, <2>1, EndSafe DEF LoadRefused, files, bounds, TypeOK
<1>5. ASSUME NEW c \in Client, LoadAccepted(c)
      PROVE  Safe'
  <2> DEFINE new == Apply(Parse(file.content), pending[c])
  <2>1. file.content \in Document /\ pending[c] \in Change
    BY <1>5, FileConfigAssumption DEF LoadAccepted, TypeOK, File, Underway
  <2>2. /\ new \in Document /\ new # Torn
        /\ Parse(new) = new /\ Reflects(Parse(new), pending[c])
    BY <1>5, <2>1, ParseHasDefault, ApplyIsDocument, AcceptedIsReflected, FileConfigAssumption
    DEF LoadAccepted, Parse
  <2>3. staged[c] \in File /\ staged' = [staged EXCEPT ![c] = [staged[c] EXCEPT !.content = new]]
    BY <1>5 DEF LoadAccepted, TypeOK
  <2>4. staged'[c].content = new /\ staged' \in [Client -> File]
        /\ \A d \in Client \ {c} : staged'[d] = staged[d]
    BY <2>2, <2>3 DEF TypeOK, File
  <2>5. TypeOK'
    BY <1>5, <2>4 DEF LoadAccepted, Goto, bounds, TypeOK
  <2>6. OneWorker' /\ WholeOnDisk'
    BY <1>5 DEF LoadAccepted, Goto, TypeOK, OneWorker, WholeOnDisk, Working
  <2>7. StagedWhole'
    BY <1>5, <2>2, <2>4 DEF LoadAccepted, Goto, TypeOK, StagedWhole
  <2>8. Underway'
    BY <1>5, <2>2, <2>4 DEF LoadAccepted, Goto, TypeOK, Underway
  <2> QED BY <2>5, <2>6, <2>7, <2>8
<1>6. ASSUME NEW c \in Client, Stage(c)
      PROVE  Safe'
  BY <1>6 DEF Stage, Goto, files, bounds, TypeOK, OneWorker, WholeOnDisk, StagedWhole, Underway, Working
<1>7. ASSUME NEW c \in Client, SyncFile(c)
      PROVE  Safe'
  <2>1. staged[c] \in File /\ staged' = [staged EXCEPT ![c] = [staged[c] EXCEPT !.synced = TRUE]]
    BY <1>7 DEF SyncFile, TypeOK
  <2>2. /\ staged' \in [Client -> File]
        /\ staged'[c].synced
        /\ \A d \in Client : staged'[d].content = staged[d].content
        /\ \A d \in Client \ {c} : staged'[d] = staged[d]
    BY <2>1 DEF TypeOK, File
  <2>3. TypeOK'
    BY <1>7, <2>2 DEF SyncFile, Goto, bounds, TypeOK
  <2>4. OneWorker' /\ WholeOnDisk'
    BY <1>7 DEF SyncFile, Goto, TypeOK, OneWorker, WholeOnDisk, Working
  <2>5. StagedWhole' /\ Underway'
    BY <1>7, <2>2 DEF SyncFile, Goto, TypeOK, StagedWhole, Underway
  <2> QED BY <2>3, <2>4, <2>5
<1>8. ASSUME NEW c \in Client, Rename(c)
      PROVE  Safe'
  <2>0. NoFile \in File /\ NoFile.content # Torn
    BY EmptyIsDocument, FileConfigAssumption DEF NoFile, File
  <2>1. \A d \in Client : pc[d] \in Working => d = c
    BY <1>8 DEF Rename, OneWorker, Working
  <2>2. TypeOK'
    BY <1>8, <2>0 DEF Rename, Goto, bounds, TypeOK
  <2>3. OneWorker' /\ WholeOnDisk' /\ StagedWhole'
    BY <1>8, <2>0 DEF Rename, Goto, TypeOK, OneWorker, WholeOnDisk, StagedWhole, Working
  <2>4. Underway'
    BY <1>8, <2>1 DEF Rename, Goto, TypeOK, Underway, Working
  <2> QED BY <2>2, <2>3, <2>4
<1>9. ASSUME NEW c \in Client, SyncDirectory(c)
      PROVE  Safe'
  BY <1>9 DEF SyncDirectory, Goto, bounds, TypeOK, OneWorker, WholeOnDisk, StagedWhole, Underway, Working
<1>10. ASSUME NEW c \in Client, Finish(c)
       PROVE  Safe'
  BY <1>10, EndSafe DEF Finish, files, bounds, TypeOK
<1>11. ASSUME NEW c \in Client, Fail(c)
       PROVE  Safe'
  <2>1. faults' \in 0 .. MaxFaults /\ calls' \in 0 .. MaxCalls /\ losses' \in 0 .. MaxLosses
    BY <1>11, FileConfigAssumption DEF Fail, TypeOK
  <2> QED BY <1>11, <2>1, EndSafe DEF Fail
<1>12. ASSUME NEW c \in Client, Die(c)
       PROVE  Safe'
  <2>1. faults' \in 0 .. MaxFaults /\ calls' \in 0 .. MaxCalls /\ losses' \in 0 .. MaxLosses
    BY <1>12, FileConfigAssumption DEF Die, TypeOK
  <2> QED BY <1>12, <2>1, EndSafe DEF Die
<1>13. ASSUME NEW c \in Client, NEW k \in Namespace, Look(c, k)
       PROVE  Safe'
  <2>1. file.content # Torn /\ file.content \in Document
    BY DEF WholeOnDisk, TypeOK, File
  <2>2. Parse(file.content).namespaces[k] \in Backend \cup {NoMount, Absent}
    BY <2>1, ParseHasDefault DEF Document
  <2>3. TypeOK'
    BY <1>13, <2>1, <2>2 DEF Look, files, bounds, TypeOK
  <2>4. OneWorker' /\ WholeOnDisk' /\ StagedWhole' /\ Underway'
    BY <1>13 DEF Look, files, OneWorker, WholeOnDisk, StagedWhole, Underway
  <2> QED BY <2>3, <2>4
<1>14. ASSUME Loss
       PROVE  Safe'
  <2>0. NoFile \in File /\ NoFile.content # Torn
    BY EmptyIsDocument, FileConfigAssumption DEF NoFile, File
  <2>1. PICK f \in Survivors : file' = [f EXCEPT !.synced = TRUE]
    BY <1>14 DEF Loss
  <2>2. f \in durable /\ f \in File /\ f.content # Torn
    BY DEF Survivors, WholeOnDisk, TypeOK
  <2>3. file' \in File /\ file'.synced /\ file'.content # Torn
    BY <2>1, <2>2 DEF File
  <2>4. TypeOK'
    BY <1>14, <2>0, <2>3, FileConfigAssumption DEF Loss, TypeOK, Answer
  <2>5. OneWorker' /\ WholeOnDisk' /\ StagedWhole' /\ Underway'
    BY <1>14, <2>0, <2>3 DEF Loss, OneWorker, WholeOnDisk, StagedWhole, Underway, Working
  <2> QED BY <2>4, <2>5
<1>15. CASE UNCHANGED vars
  BY <1>15 DEF vars, files, bounds, TypeOK, OneWorker, WholeOnDisk, StagedWhole, Underway
<1> QED
  BY <1>1, <1>2, <1>3, <1>4, <1>5, <1>6, <1>7, <1>8, <1>9, <1>10, <1>11, <1>12, <1>13, <1>14, <1>15
  DEF Next, Step

(***************************************************************************)
(* The step that answers Ok answers for the file and for all that may      *)
(* survive in its place.                                                   *)
(***************************************************************************)
LEMMA AnswerStep ==
  ASSUME Safe, [Next]_vars, NEW c \in Client, pc[c] = "unlocking", reply'[c].code = "Ok",
         NEW f \in durable'
  PROVE  f.synced /\ f.content # Torn /\ Reflects(Parse(f.content), pending[c])
<1> USE DEF Safe
<1>1. durable = {file} /\ Reflects(Parse(file.content), pending[c])
  BY DEF Underway
<1>2. file.synced /\ file.content # Torn
  BY DEF WholeOnDisk
<1>3. \A d \in Client : pc[d] \in Working => d = c
  BY DEF OneWorker, Working
<1>4. durable' = durable
  <2>1. CASE Loss
    BY <2>1 DEF Loss, TypeOK, Answer
  <2>2. CASE \E d \in Client : Rename(d) \/ SyncDirectory(d)
    BY <2>2, <1>3 DEF Rename, SyncDirectory, Working
  <2> QED
    BY <2>1, <2>2 DEF Next, Step, Call, Open, Acquire, LoadRefused, LoadAccepted, Stage, SyncFile,
                      Finish, Fail, Die, Look, files, vars
<1> QED BY <1>1, <1>2, <1>4

(***************************************************************************)
(* Whatever fails or dies, the file is a document or a torn one, each call *)
(* under way has the change it was asked for, and the lock belongs to a    *)
(* process or to nobody.                                                   *)
(***************************************************************************)
THEOREM FileConfigTypeCorrect == Spec => []TypeOK
<1>1. Safe => TypeOK
  BY DEF Safe
<1> QED BY InitSafe, NextSafe, <1>1, PTL DEF Spec

(***************************************************************************)
(* No reader, and no loss of power, ever sees a file written in part:      *)
(* replace renames only what it has synced (file.rs).                      *)
(***************************************************************************)
THEOREM FileStaysWhole == Spec => []WholeFile
<1>1. Safe => WholeFile
  BY DEF Safe, WholeOnDisk, WholeFile
<1> QED BY InitSafe, NextSafe, <1>1, PTL DEF Spec

(***************************************************************************)
(* A change answered Ok is in every file a loss of power can leave.        *)
(***************************************************************************)
THEOREM AnsweredChangesSurvive == Spec => AnsweredIsDurable
<1> DEFINE Kept ==
      \A c \in Client : (pc[c] = "unlocking" /\ reply'[c].code = "Ok") =>
        \A f \in durable' : f.synced /\ f.content # Torn /\ Reflects(Parse(f.content), pending[c])
<1>1. Safe /\ [Next]_vars => [Kept]_vars
  BY AnswerStep
<1>2. Spec => [][Kept]_vars
  BY InitSafe, NextSafe, <1>1, PTL DEF Spec
<1> QED BY <1>2 DEF AnsweredIsDurable

-----------------------------------------------------------------------------
(***************************************************************************)
(* The file implements the store.  A rename takes effect, the sync of the  *)
(* directory keeps it, and the steps between are seen by nobody.           *)
(***************************************************************************)
Mapped == <<Parse(file.content), {Parse(f.content) : f \in durable}, pending, Stages, reply>>

\* The store speaks of the same documents.
LEMMA SameDocuments ==
  /\ Store!Document = Document
  /\ \A doc, ch : Store!WithDefault(doc) = WithDefault(doc) /\ Store!Verdict(doc, ch) = Verdict(doc, ch)
                  /\ Store!Apply(doc, ch) = Apply(doc, ch)
<1>1. Store!Document = Document
  BY DEF Store!Document, Document, Store!Address, Address
<1>2. ASSUME NEW doc
      PROVE  Store!WithDefault(doc) = WithDefault(doc)
  BY DEF Store!WithDefault, WithDefault
<1>3. ASSUME NEW doc, NEW ch
      PROVE  Store!Verdict(doc, ch) = Verdict(doc, ch)
  BY DEF Store!Verdict, Verdict, Store!Collides, Collides, Store!Lacks, Lacks
<1>4. ASSUME NEW doc, NEW ch
      PROVE  Store!Apply(doc, ch) = Apply(doc, ch)
  BY DEF Store!Apply, Apply
<1> QED BY <1>1, <1>2, <1>3, <1>4

LEMMA InitImplements == Init => Store!CInit
<1> SUFFICES ASSUME Init PROVE Store!CInit
  OBVIOUS
<1>1. PICK doc \in Written \cup {EmptyDocument} : file = OnDisk(doc)
  BY DEF Init
<1>2. doc \in Document
  BY EmptyIsDocument, FileConfigAssumption
<1>3. Parse(file.content) = WithDefault(doc)
  BY <1>1 DEF OnDisk, Parse
<1>4. {Parse(f.content) : f \in durable} = {Parse(file.content)}
  BY DEF Init
<1>5. Stages = [c \in Client |-> "idle"]
  BY DEF Init, Stages
<1> QED BY <1>2, <1>3, <1>4, <1>5, SameDocuments DEF Init, Store!CInit, Answer, Store!Answer

\* What an end of a call is to the store.
LEMMA EndImplements ==
  ASSUME Safe, NEW c \in Client, NEW code, Ends(c, code), UNCHANGED <<file, durable>>
  PROVE  Store!Ends(c, code) /\ UNCHANGED <<Parse(file.content), {Parse(f.content) : f \in durable}>>
<1>1. Stages' = [Stages EXCEPT ![c] = "idle"]
  BY DEF Safe, TypeOK, Ends, Goto, Stages
<1> QED BY <1>1 DEF Ends, Store!Ends, Answer, Store!Answer

LEMMA StepImplements == Safe /\ [Next]_vars => [Store!CNext]_Mapped
<1> SUFFICES ASSUME Safe, [Next]_vars PROVE Store!CNext \/ UNCHANGED Mapped
  OBVIOUS
<1> USE DEF Safe
<1>0. \A d \in Client : pc[d] \in Working => lock = d
  BY DEF OneWorker
<1>1. ASSUME NEW c \in Client, NEW ch \in Changes, Call(c, ch)
      PROVE  Store!CCall(c, ch)
  <2>1. Stages' = [Stages EXCEPT ![c] = "called"] /\ Stages[c] = "idle"
    BY <1>1 DEF Call, Goto, TypeOK, Stages
  <2> QED BY <1>1, <2>1 DEF Call, files, Store!CCall
<1>2. ASSUME NEW c \in Client,
             Open(c) \/ Acquire(c) \/ LoadAccepted(c) \/ Stage(c) \/ SyncFile(c)
      PROVE  UNCHANGED Mapped
  <2>1. Stages' = Stages
    BY <1>2 DEF Open, Acquire, LoadAccepted, Stage, SyncFile, Goto, TypeOK, Stages
  <2>2. UNCHANGED <<file, durable, pending, reply>>
    BY <1>2 DEF Open, Acquire, LoadAccepted, Stage, SyncFile, files
  <2> QED BY <2>1, <2>2 DEF Mapped
<1>3. ASSUME NEW c \in Client, LoadRefused(c)
      PROVE  Store!CRefuse(c)
  <2>1. /\ Verdict(Parse(file.content), pending[c]) # "Ok"
        /\ Ends(c, Verdict(Parse(file.content), pending[c]))
    BY <1>3 DEF LoadRefused, WholeOnDisk
  <2>2. Stages[c] = "called"
    BY <1>3 DEF LoadRefused, Stages
  <2> QED BY <1>3, <2>1, <2>2, EndImplements, SameDocuments DEF LoadRefused, files, Store!CRefuse
<1>4. ASSUME NEW c \in Client, Rename(c)
      PROVE  Store!CTake(c)
  <2>1. Stages' = [Stages EXCEPT ![c] = "taken"] /\ Stages[c] = "called"
    BY <1>4 DEF Rename, Goto, TypeOK, Stages
  <2>2. /\ Verdict(Parse(file.content), pending[c]) = "Ok"
        /\ Parse(file'.content) = Apply(Parse(file.content), pending[c])
    BY <1>4 DEF Rename, Underway
  <2>3. {Parse(f.content) : f \in durable'}
          = {Parse(f.content) : f \in durable} \cup {Parse(file'.content)}
    BY <1>4 DEF Rename
  <2> QED BY <1>4, <2>1, <2>2, <2>3, SameDocuments DEF Rename, Store!CTake
<1>5. ASSUME NEW c \in Client, SyncDirectory(c)
      PROVE  Store!CKeep
  <2>1. \A d \in Client : Stages[d] = "taken" <=> d = c
    BY <1>0, <1>5 DEF SyncDirectory, Stages, Working
  <2>2. Stages' = [d \in Client |-> IF Stages[d] = "taken" THEN "kept" ELSE Stages[d]]
    BY <1>5, <2>1 DEF SyncDirectory, Goto, TypeOK, Stages
  <2>3. {Parse(f.content) : f \in durable'} = {Parse(file.content)}
    BY <1>5 DEF SyncDirectory
  <2> QED BY <1>5, <2>1, <2>2, <2>3 DEF SyncDirectory, Store!CKeep
<1>6. ASSUME NEW c \in Client, Finish(c)
      PROVE  Store!CAnswer(c)
  <2>1. Stages[c] = "kept"
    BY <1>6 DEF Finish, Stages
  <2> QED BY <1>6, <2>1, EndImplements DEF Finish, files, Store!CAnswer
<1>7. ASSUME NEW c \in Client, Fail(c) \/ Die(c)
      PROVE  Store!CGiveUp(c)
  <2>1. Stages[c] # "idle"
    BY <1>7 DEF Fail, Die, TypeOK, Stages
  <2>2. PICK code \in {"Unavailable", "Died"} : Ends(c, code) /\ UNCHANGED <<file, durable>>
    BY <1>7 DEF Fail, Die
  <2> QED BY <2>1, <2>2, EndImplements DEF Store!CGiveUp
<1>8. ASSUME NEW c \in Client, NEW k \in Namespace, Look(c, k)
      PROVE  Store!CLook(c, k)
  <2>1. file.content # Torn
    BY DEF WholeOnDisk
  <2>2. Stages' = Stages /\ Stages[c] = "idle"
    BY <1>8 DEF Look, Stages
  <2> QED BY <1>8, <2>1, <2>2 DEF Look, files, Store!CLook
<1>9. ASSUME Loss
      PROVE  Store!CLoss
  <2>1. PICK f \in durable : file' = [f EXCEPT !.synced = TRUE]
    BY <1>9 DEF Loss, Survivors, WholeOnDisk
  <2>2. file'.content = f.content
    BY <2>1 DEF TypeOK, File
  <2>3. Parse(file'.content) \in {Parse(g.content) : g \in durable}
    BY <2>2
  <2>4. {Parse(g.content) : g \in durable'} = {Parse(file'.content)}
    BY <1>9 DEF Loss
  <2>5. Stages' = [c \in Client |-> "idle"] /\ \A c \in Client : Stages[c] = "idle" <=> pc[c] = "idle"
    BY <1>9 DEF Loss, TypeOK, Stages
  <2>6. reply' = [c \in Client |-> IF Stages[c] = "idle" THEN reply[c] ELSE Store!Answer("Died")]
    BY <1>9, <2>5 DEF Loss, Answer, Store!Answer
  <2> QED BY <1>9, <2>3, <2>4, <2>5, <2>6 DEF Loss, Store!CLoss
<1>10. CASE UNCHANGED vars
  BY <1>10 DEF vars, files, Mapped, Stages
<1> QED
  BY <1>1, <1>2, <1>3, <1>4, <1>5, <1>6, <1>7, <1>8, <1>9, <1>10 DEF Next, Step, Store!CNext

(***************************************************************************)
(* change is atomic (file.rs): the file and its lock implement the store   *)
(* of NamespaceConfig, for any number of processes.                        *)
(***************************************************************************)
THEOREM FileImplementsStore == Spec => Refinement
<1>1. Safe /\ [Next]_vars => [Store!CNext]_(Store!cvars)
  BY StepImplements DEF Mapped, Store!cvars
<1> QED BY InitSafe, NextSafe, InitImplements, <1>1, PTL DEF Spec, Refinement, Store!CSpec
=============================================================================
