--------------------------- MODULE OutFileProofs ---------------------------
(***************************************************************************)
(* Proofs about OutFile, for any number of processes, failures and         *)
(* changes by other programs.                                              *)
(***************************************************************************)
EXTENDS OutFile, TLAPS

Early == {"start", "create", "mode", "ask", "write", "sync", "link"}
Holding == {"mode", "ask", "write", "sync", "link", "drop"}

\* What the calls before a link have established.
Prepared ==
  \A p \in Process :
    /\ pc[p] \in {"sync", "link"} => content[p] = "whole"
    /\ pc[p] \in {"ask", "write", "sync", "link"} => p \in private
    /\ pc[p] = "link" => p \in synced
\* What is synced stays, and only what is synced is placed.
Durable ==
  /\ \A p \in synced : content[p] = "whole" /\ p \in private
  /\ placed \subseteq synced
  /\ path \in Process => path \in placed
\* The answer a process will give, at every step.
Promised ==
  \A p \in Process :
    /\ pc[p] \in Early => p \notin placed /\ answer[p] = "none"
    /\ pc[p] = "drop" => (p \in placed <=> answer[p] = "none") /\ answer[p] \notin {"read", "report"}
    /\ pc[p] = "report" => p \in placed
    /\ pc[p] = "done" => (p \in placed <=> answer[p] \in {"read", "report"})
Kept == faults = 0 => \A p \in temp : pc[p] \in Holding
\* The inductive invariant.
IInv == TypeOK /\ Prepared /\ Durable /\ Promised /\ Kept

LEMMA InitIInv == Init => IInv
  BY OutAssumption, ForeignAssumption
  DEF Init, IInv, TypeOK, Prepared, Durable, Promised, Kept, Early, Holding, Foreign, Contents,
      Steps, Ended, Refusals, Answers

\* Every step keeps what the invariant says of the process that takes it, and of
\* the others what they have established.
LEMMA StepKeepsIInv == IInv /\ [Next]_vars => IInv'
<1> SUFFICES ASSUME IInv, [Next]_vars PROVE IInv'
  OBVIOUS
<1> USE OutAssumption, ForeignAssumption
    DEF IInv, TypeOK, Prepared, Durable, Promised, Kept, Early, Holding, Foreign, Contents,
        Steps, Ended, Refusals, Answers, file
<1>1. CASE UNCHANGED vars
  BY <1>1 DEF vars
<1>2. ASSUME NEW p \in Process, Act(p) PROVE IInv'
  <2>1. CASE Check(p)
    BY <2>1 DEF Check, Goes, AnswersWith, Fails
  <2>2. CASE CreateTemp(p)
    BY <2>2 DEF CreateTemp, Goes, AnswersWith, Fails
  <2>3. CASE SetMode(p)
    BY <2>3 DEF SetMode, Goes, AnswersWith, Fails
  <2>4. CASE Ask(p)
    BY <2>4 DEF Ask, Goes, AnswersWith
  <2>5. CASE Write(p)
    BY <2>5 DEF Write, Goes, AnswersWith, Fails
  <2>6. CASE SyncFile(p)
    BY <2>6 DEF SyncFile, Goes, AnswersWith, Fails
  <2>7. CASE Link(p)
    BY <2>7 DEF Link, Goes, AnswersWith, Fails
  <2>8. CASE Drop(p)
    BY <2>8 DEF Drop, Goes, Fails
  <2>9. CASE Report(p)
    BY <2>9 DEF Report, AnswersWith
  <2> QED BY <1>2, <2>1, <2>2, <2>3, <2>4, <2>5, <2>6, <2>7, <2>8, <2>9 DEF Act
<1>3. ASSUME NEW p \in Process, Die(p) PROVE IInv'
  BY <1>3 DEF Die, Goes, Fails, Running
<1>4. CASE Other
  BY <1>4 DEF Other
<1>5. CASE LosePower
  BY <1>5 DEF LosePower, Fails, Running
<1> QED BY <1>1, <1>2, <1>3, <1>4, <1>5 DEF Next

LEMMA IInvHolds == Spec => []IInv
<1> QED BY InitIInv, StepKeepsIInv, PTL DEF Spec

(***************************************************************************)
(* A file of a process at the path is whole and private, always.           *)
(***************************************************************************)
THEOREM WholeOrNothingHolds == Spec => []WholeOrNothing
<1>1. IInv => WholeOrNothing
  BY DEF IInv, Durable, WholeOrNothing
<1> QED BY <1>1, IInvHolds, PTL

(***************************************************************************)
(* The answer of read tells whether it put a file in place.                *)
(***************************************************************************)
THEOREM AnswerTellsFileHolds == Spec => []AnswerTellsFile
<1>1. IInv => AnswerTellsFile
  BY DEF IInv, Promised, AnswerTellsFile
<1> QED BY <1>1, IInvHolds, PTL

(***************************************************************************)
(* Without a fault nothing but the new file stays in the directory.        *)
(***************************************************************************)
THEOREM TempRemovedHolds == Spec => []TempRemoved
<1>1. IInv => TempRemoved
  BY DEF IInv, TypeOK, Kept, TempRemoved, Holding, Running, Steps
<1> QED BY <1>1, IInvHolds, PTL

(***************************************************************************)
(* No step of a process replaces what is at the path.                      *)
(***************************************************************************)
THEOREM NeverReplacesHolds == Spec => NeverReplaces
<1>1. [Next]_vars => [(\E p \in Process : Act(p)) => path' = path \/ path = Nothing]_vars
  BY DEF Act, Check, CreateTemp, SetMode, Ask, Write, SyncFile, Link, Drop, Report
<1> QED BY <1>1, PTL DEF Spec, NeverReplaces
=============================================================================
