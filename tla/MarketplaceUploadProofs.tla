----------------------- MODULE MarketplaceUploadProofs -----------------------
(***************************************************************************)
(* Theorems about MarketplaceUpload for every set of files, number of       *)
(* attempts and budget of faults.                                           *)
(***************************************************************************)
EXTENDS MarketplaceUpload, TLAPS

(* What an answer under way says is true, and the file being uploaded is    *)
(* not marked.                                                              *)
AnswerTrue ==
  /\ reply \in {"accepted", "duplicate"} => file \in stored
  /\ reply = "fatal" => faults["reject"] > 0

(* Until a deadline passes no context is over, and nothing was kept from    *)
(* being sent.                                                              *)
InTime == Timely => ~late /\ ~over /\ unsent = {}

(* The attempts made and the error under way were busy answers. *)
Busy == faults["busy"] >= attempt - 1 + (IF reply = "retryable" THEN 1 ELSE 0)

(* An error is reported only if something other than a short outage happened. *)
ErrorsHaveCause ==
  errs # {} => \/ ~Timely
               \/ faults["busy"] >= Steps
               \/ faults["reject"] > 0
               \/ faults["broken"] > 0

UploadInv == TypeOK /\ file \notin marked /\ AnswerTrue /\ InTime /\ Busy /\ ErrorsHaveCause

USE DEF FaultKinds

(* The initial state satisfies the invariant. *)
LEMMA UploadInit == Init => UploadInv
<1> SUFFICES ASSUME Init PROVE UploadInv
  OBVIOUS
<1>a. 1 \in 1..Steps
  BY UploadAssumption DEF UploadAssumption
<1>b. faults \in [FaultKinds -> Nat]
  BY DEF Init
<1>1. TypeOK
  BY <1>a, <1>b DEF Init, TypeOK, Replies
<1>2. file \notin marked /\ AnswerTrue /\ InTime /\ ErrorsHaveCause
  BY DEF Init, AnswerTrue, InTime, ErrorsHaveCause
<1>3. Busy
  BY DEF Init, Busy
<1> QED
  BY <1>1, <1>2, <1>3 DEF UploadInv

(* A fault counts up by one and leaves the other counters alone. *)
LEMMA FaultStep ==
  ASSUME TypeOK, NEW k \in FaultKinds, Fault(k)
  PROVE  /\ faults' \in [FaultKinds -> Nat]
         /\ faults'[k] = faults[k] + 1
         /\ \A j \in FaultKinds : faults'[j] >= faults[j]
BY DEF Fault, TypeOK

(* The typing part is kept by every step. *)
LEMMA UploadTypeStep == TypeOK /\ [Next]_vars => TypeOK'
<1> SUFFICES ASSUME TypeOK, [Next]_vars PROVE TypeOK'
  OBVIOUS
<1> USE UploadAssumption DEF UploadAssumption, TypeOK, Replies, loop
<1>1. CASE StartPush
  BY <1>1 DEF StartPush
<1>2. CASE \E f \in File : Pass(f) \/ Upload(f)
  BY <1>2 DEF Pass, Upload
<1>3. CASE EndPush \/ Post
  BY <1>3 DEF EndPush, Post
<1>4. CASE Done
  BY <1>4 DEF Done, Succeed, Returned
<1>5. CASE Refused \/ GiveUp
  BY <1>5 DEF Refused, GiveUp, Fail, Returned
<1>6. CASE Again
  BY <1>6 DEF Again
<1>7. CASE Interrupted
  BY <1>7 DEF Interrupted, Fail, Succeed, Returned
<1>8. CASE Broken
  BY <1>8, FaultStep DEF Broken, Fail, Returned
<1>9. CASE Answer
  BY <1>9 DEF Answer
<1>10. CASE AnswerError
  BY <1>10, FaultStep DEF AnswerError
<1>11. CASE \E f \in File : LateStore(f)
  BY <1>11 DEF LateStore
<1>12. CASE UploadDeadline \/ PushDeadline
  BY <1>12, FaultStep DEF UploadDeadline, PushDeadline
<1>13. CASE UNCHANGED vars
  BY <1>13 DEF vars
<1> QED
  BY <1>1, <1>2, <1>3, <1>4, <1>5, <1>6, <1>7, <1>8, <1>9, <1>10, <1>11, <1>12, <1>13
  DEF Next, Client

(* A fault that is a deadline has happened once a deadline passes, and the  *)
(* counters never go down.                                                  *)
LEMMA InTimeStep == TypeOK /\ InTime /\ [Next]_vars => InTime'
<1> SUFFICES ASSUME TypeOK, InTime, [Next]_vars PROVE InTime'
  OBVIOUS
<1>1. CASE UploadDeadline \/ PushDeadline
  <2>1. ~Timely'
    BY <1>1, FaultStep DEF UploadDeadline, PushDeadline, Timely, TypeOK
  <2> QED
    BY <2>1 DEF InTime
<1>2. CASE Broken \/ AnswerError
  <2>1. Timely' => Timely
    BY <1>2, FaultStep DEF Broken, AnswerError, Timely, TypeOK
  <2>2. UNCHANGED <<late, over, unsent>>
    BY <1>2 DEF Broken, AnswerError, Fail, Returned
  <2> QED
    BY <2>1, <2>2 DEF InTime
<1>3. CASE StartPush \/ Client
  BY <1>3 DEF InTime, Timely, StartPush, Client, Pass, Upload, EndPush, Post, Done, Refused, Again,
              GiveUp, Interrupted, Succeed, Fail, Returned
<1>4. CASE Answer \/ \E f \in File : LateStore(f)
  BY <1>4 DEF InTime, Timely, Answer, LateStore
<1>5. CASE UNCHANGED vars
  BY <1>5 DEF InTime, Timely, vars
<1> QED
  BY <1>1, <1>2, <1>3, <1>4, <1>5 DEF Next

(* Every step keeps the invariant. *)
LEMMA UploadStep == UploadInv /\ [Next]_vars => UploadInv'
<1> SUFFICES ASSUME UploadInv, [Next]_vars PROVE UploadInv'
  OBVIOUS
<1>t. TypeOK'
  BY UploadTypeStep DEF UploadInv
<1>i. InTime'
  BY InTimeStep DEF UploadInv
<1> USE UploadAssumption
    DEF UploadAssumption, UploadInv, TypeOK, Replies, loop, AnswerTrue, InTime, Busy,
        ErrorsHaveCause, Timely
<1>1. CASE StartPush
  BY <1>1, <1>t DEF StartPush
<1>2. CASE \E f \in File : Pass(f) \/ Upload(f)
  BY <1>2, <1>t, <1>i DEF Pass, Upload
<1>3. CASE EndPush \/ Post
  BY <1>3, <1>t DEF EndPush, Post
<1>4. CASE Done
  BY <1>4, <1>t DEF Done, Succeed, Returned
<1>5. CASE Refused \/ GiveUp
  BY <1>5, <1>t DEF Refused, GiveUp, Fail, Returned
<1>6. CASE Again
  BY <1>6, <1>t DEF Again
<1>7. CASE Interrupted
  <2>1. reply' = "none" /\ file' = NoFile /\ ~Timely'
    BY <1>7 DEF Interrupted, Fail, Succeed, Returned
  <2>2. marked' \subseteq File /\ UNCHANGED <<attempt, faults>>
    BY <1>7, <1>t DEF Interrupted, Fail, Succeed, Returned
  <2>3. Busy'
    BY <2>1, <2>2
  <2> QED
    BY <1>t, <1>i, <2>1, <2>2, <2>3
<1>8. CASE Broken
  BY <1>8, <1>t, FaultStep DEF Broken, Fail, Returned
<1>9. CASE Answer
  BY <1>9, <1>t DEF Answer
<1>10. CASE AnswerError
  BY <1>10, <1>t, FaultStep DEF AnswerError
<1>11. CASE \E f \in File : LateStore(f)
  BY <1>11, <1>t DEF LateStore
<1>12. CASE UploadDeadline \/ PushDeadline
  BY <1>12, <1>t, <1>i, FaultStep DEF UploadDeadline, PushDeadline
<1>13. CASE UNCHANGED vars
  BY <1>13 DEF vars
<1> QED
  BY <1>1, <1>2, <1>3, <1>4, <1>5, <1>6, <1>7, <1>8, <1>9, <1>10, <1>11, <1>12, <1>13
  DEF Next, Client

(* The invariant holds in every reachable state. *)
LEMMA UploadInvariant == Spec => []UploadInv
<1>1. QED
  BY UploadInit, UploadStep, PTL DEF Spec

(* The variables keep their types (metrics.go, export_push.go). *)
THEOREM UploadTypes == Spec => []TypeOK
<1>1. UploadInv => TypeOK
  BY DEF UploadInv
<1> QED
  BY <1>1, UploadInvariant, PTL

(* A mark is only set on an answer that says the marketplace has the file,  *)
(* or for an upload that a context ended before it began.                   *)
LEMMA SentStep ==
  UploadInv /\ marked \subseteq stored \cup unsent /\ [Next]_vars
    => (marked \subseteq stored \cup unsent)'
BY DEF UploadInv, AnswerTrue, Next, Client, vars, StartPush, Pass, Upload, EndPush, Post, Done,
       Refused, Again, GiveUp, Interrupted, Broken, Answer, AnswerError, LateStore, UploadDeadline,
       PushDeadline, Succeed, Fail, Returned

(* A record says Pushed only of files the marketplace holds, but for those  *)
(* whose upload a deadline ended before its first post, for any number of   *)
(* files, attempts and faults (export_push.go, metrics.go).                 *)
THEOREM PushesTruthful == Spec => []PushedWasSent
<1> DEFINE Sent == marked \subseteq stored \cup unsent
<1>1. Init => Sent
  BY DEF Init
<1>2. UploadInv /\ Sent /\ [Next]_vars => Sent'
  BY SentStep
<1>3. UploadInv /\ Sent => PushedWasSent
  BY DEF UploadInv, InTime, PushedWasSent, PushedIsStored
<1> HIDE DEF Sent
<1> QED
  BY <1>1, <1>2, <1>3, UploadInvariant, PTL DEF Spec

(* What the walk has passed is marked or reported, and what it has yet to   *)
(* reach is neither reported nor being uploaded.                            *)
WalkInv ==
  /\ Accounted
  /\ pc # "idle" => todo \cap errs = {}
  /\ file \notin todo

(* Every step keeps the account. *)
LEMMA WalkStep == TypeOK /\ WalkInv /\ [Next]_vars => WalkInv'
<1> SUFFICES ASSUME TypeOK, WalkInv, [Next]_vars PROVE WalkInv'
  OBVIOUS
<1> USE UploadAssumption DEF UploadAssumption, TypeOK, WalkInv, Accounted, loop
<1>1. CASE StartPush \/ EndPush \/ Post
  BY <1>1 DEF StartPush, EndPush, Post
<1>2. CASE \E f \in File : Pass(f) \/ Upload(f)
  BY <1>2 DEF Pass, Upload
<1>3. ASSUME pc \notin {"idle", "walk"}, Succeed PROVE WalkInv'
  <2>1. file' = NoFile /\ file \in File /\ UNCHANGED <<errs, todo>> /\ pc # "idle"
    BY <1>3 DEF Succeed, Returned
  <2>2. marked' = marked \cup {file}
    BY <1>3 DEF Succeed
  <2> QED
    BY <2>1, <2>2
<1>4. ASSUME pc \notin {"idle", "walk"}, Fail PROVE WalkInv'
  <2>1. file' = NoFile /\ file \in File /\ UNCHANGED todo /\ pc # "idle"
    BY <1>4 DEF Fail, Returned
  <2>2. marked' = marked \ {file} /\ errs' = errs \cup {file}
    BY <1>4 DEF Fail
  <2> QED
    BY <2>1, <2>2
<1>5. CASE Done \/ Refused \/ GiveUp \/ Broken \/ Interrupted
  BY <1>3, <1>4, <1>5 DEF Done, Refused, GiveUp, Broken, Interrupted
<1>6. CASE Again \/ Answer \/ AnswerError
  BY <1>6 DEF Again, Answer, AnswerError
<1>7. CASE UploadDeadline \/ PushDeadline \/ \E f \in File : LateStore(f)
  BY <1>7 DEF UploadDeadline, PushDeadline, LateStore
<1>8. CASE UNCHANGED vars
  BY <1>8 DEF vars
<1> QED
  BY <1>1, <1>2, <1>5, <1>6, <1>7, <1>8 DEF Next, Client

(* No entry of the bundle is passed in silence: when a push ends each one's *)
(* record says Pushed or its error is printed (the walk of export_push.go). *)
THEOREM PushesAccounted == Spec => []Accounted
<1>1. Init => WalkInv
  BY UploadAssumption DEF Init, WalkInv, Accounted, UploadAssumption
<1>2. TypeOK /\ WalkInv /\ [Next]_vars => WalkInv'
  BY WalkStep
<1>3. WalkInv => Accounted
  BY DEF WalkInv
<1> QED
  BY <1>1, <1>2, <1>3, UploadTypes, PTL DEF Spec

(* An outage shorter than the attempts of one upload is never reported      *)
(* (retry.OnError with DefaultBackoff in Upload).                           *)
THEOREM OutagesHidden == Spec => []OutageIsHidden
<1>1. UploadInv => OutageIsHidden
  BY UploadAssumption
  DEF UploadInv, TypeOK, ErrorsHaveCause, OutageIsHidden, Timely, UploadAssumption
<1> QED
  BY <1>1, UploadInvariant, PTL

(* A step never takes a mark back nor sends a marked file. *)
LEMMA OnceStep ==
  UploadInv /\ [Next]_vars => marked \subseteq marked' /\ (pc' = "sent" => file' \notin marked')
<1> SUFFICES ASSUME UploadInv, [Next]_vars
             PROVE marked \subseteq marked' /\ (pc' = "sent" => file' \notin marked')
  OBVIOUS
<1>1. UploadInv'
  BY UploadStep
<1>2. file' \notin marked'
  BY <1>1 DEF UploadInv
<1>3. marked \subseteq marked'
  BY DEF UploadInv, Next, Client, vars, StartPush, Pass, Upload, EndPush, Post, Done, Refused,
         Again, GiveUp, Interrupted, Broken, Answer, AnswerError, LateStore, UploadDeadline,
         PushDeadline, Succeed, Fail, Returned
<1> QED
  BY <1>2, <1>3

(* A mark is never taken back and a marked file never sent, whatever fails  *)
(* (the test of file.Pushed in export_push.go).                             *)
THEOREM PushesOnce == Spec => PushedOnce
<1>1. UploadInv /\ [Next]_vars =>
        [/\ marked \subseteq marked'
         /\ pc' = "sent" => file' \notin marked']_vars
  BY OnceStep
<1> QED
  BY <1>1, UploadInvariant, PTL DEF Spec, PushedOnce

-----------------------------------------------------------------------------
(* The contract *)

(* The entry being uploaded is neither marked nor still to be reached.      *)
RefineInv == UploadInv /\ WalkInv

(* Every step is a step of the contract or leaves its variables alone.      *)
LEMMA RefineStep == RefineInv /\ [Next]_vars => [Contract!Next]_Contract!vars
<1> SUFFICES ASSUME RefineInv, [Next]_vars PROVE [Contract!Next]_Contract!vars
  OBVIOUS
<1> DEFINE Todo == todo \cup ({file} \ {NoFile})
           Accepted == stored \cup orphans
<1> USE UploadAssumption
    DEF UploadAssumption, RefineInv, UploadInv, TypeOK, WalkInv, loop, Contract!vars
<1>1. CASE StartPush
  <2>1. Contract!Begin
    BY <1>1 DEF StartPush, Contract!Begin
  <2> QED
    BY <2>1 DEF Contract!Next
<1>2. ASSUME NEW f \in File, Pass(f) PROVE Contract!Next
  <2>1. Contract!Pass(f)
    BY <1>2 DEF Pass, Contract!Pass
  <2> QED
    BY <2>1 DEF Contract!Next
<1>3. ASSUME NEW f \in File, Upload(f) PROVE UNCHANGED Contract!vars
  BY <1>3 DEF Upload
<1>4. CASE EndPush
  <2>1. Contract!End
    BY <1>4 DEF EndPush, Contract!End
  <2> QED
    BY <2>1 DEF Contract!Next
<1>5. CASE Post \/ Again
  BY <1>5 DEF Post, Again
<1>6. ASSUME pc \in {"post", "sent", "answered"}, Returned
      PROVE  /\ file \in File /\ Contract!Outcome(file)
             /\ UNCHANGED stored
  BY <1>6 DEF Returned, Contract!Outcome
<1>7. ASSUME pc \in {"post", "sent", "answered"}, Fail, UNCHANGED unsent,
             orphans' \in {orphans, orphans \cup {file}}
      PROVE  Contract!Next
  <2>1. Contract!Outcome(file) /\ file \in File /\ UNCHANGED stored
    BY <1>6, <1>7 DEF Fail
  <2>2. marked' = marked
    BY <1>7 DEF Fail
  <2>3. Accepted' \in {Accepted, Accepted \cup {file}}
    BY <1>7, <2>1
  <2>4. Contract!UploadError(file)
    BY <1>7, <2>1, <2>2, <2>3 DEF Fail, Contract!UploadError
  <2> QED
    BY <2>1, <2>4 DEF Contract!Next
<1>8. CASE Done
  <2>1. Contract!Outcome(file) /\ file \in File /\ UNCHANGED stored
    BY <1>6, <1>8 DEF Done, Succeed
  <2>2. file \in stored
    BY <1>8 DEF Done, AnswerTrue
  <2>3. Accepted' = Accepted \cup {file}
    BY <1>8, <2>1, <2>2 DEF Done
  <2>4. Contract!UploadOk(file)
    BY <1>8, <2>1, <2>3 DEF Done, Succeed, Contract!UploadOk
  <2> QED
    BY <2>1, <2>4 DEF Contract!Next
<1>9. CASE Refused \/ GiveUp \/ Broken
  BY <1>7, <1>9 DEF Refused, GiveUp, Broken
<1>10. CASE Interrupted
  <2>1. CASE Fail /\ UNCHANGED unsent
    BY <1>7, <1>10, <2>1 DEF Interrupted
  <2>2. CASE Succeed /\ unsent' = unsent \cup {file}
    <3>1. Contract!Outcome(file) /\ file \in File /\ UNCHANGED stored
      BY <1>6, <1>10, <2>2 DEF Interrupted, Succeed
    <3>2. Contract!UploadUnsent(file)
      BY <1>10, <2>2, <3>1 DEF Interrupted, Succeed, Contract!UploadUnsent
    <3> QED
      BY <3>1, <3>2 DEF Contract!Next
  <2> QED
    BY <1>10, <2>1, <2>2 DEF Interrupted
<1>11. CASE Answer \/ AnswerError
  <2>1. /\ file \in File /\ file \notin marked /\ file \in Todo /\ pc # "idle"
        /\ UNCHANGED <<marked, errs, todo, file, unsent, orphans>> /\ pc' # "idle"
    BY <1>11 DEF Answer, AnswerError
  <2>2. Accepted' \in {Accepted, Accepted \cup {file}}
    BY <1>11 DEF Answer, AnswerError
  <2>3. CASE Accepted' = Accepted
    BY <2>1, <2>3
  <2>4. CASE Accepted' = Accepted \cup {file}
    <3>1. Contract!Arrive(file)
      BY <2>1, <2>4 DEF Contract!Arrive
    <3> QED
      BY <2>1, <3>1 DEF Contract!Next
  <2> QED
    BY <2>2, <2>3, <2>4
<1>12. ASSUME NEW f \in File, LateStore(f) PROVE UNCHANGED Contract!vars
  <2>1. Accepted' = Accepted
    BY <1>12 DEF LateStore
  <2> QED
    BY <1>12, <2>1 DEF LateStore
<1>13. CASE UploadDeadline \/ PushDeadline
  BY <1>13 DEF UploadDeadline, PushDeadline
<1>14. CASE UNCHANGED vars
  BY <1>14 DEF vars
<1> QED
  BY <1>1, <1>2, <1>3, <1>4, <1>5, <1>8, <1>9, <1>10, <1>11, <1>12, <1>13, <1>14
  DEF Next, Client

(* All that attempts, answers and deadlines can do to an entry is one of    *)
(* three outcomes, for any files, attempts and faults (Upload in metrics.go *)
(* and the walk of export_push.go).                                         *)
THEOREM PushesRefine == Spec => ImplementsPush
<1>1. Init => Contract!Init
  BY UploadAssumption DEF Init, Contract!Init, UploadAssumption
<1>2. Init => WalkInv
  BY UploadAssumption DEF Init, WalkInv, Accounted, UploadAssumption
<1>3. UploadInv /\ WalkInv /\ [Next]_vars => WalkInv'
  BY WalkStep DEF UploadInv
<1>4. UploadInv /\ WalkInv /\ [Next]_vars => [Contract!Next]_Contract!vars
  BY RefineStep DEF RefineInv
<1> QED
  BY <1>1, <1>2, <1>3, <1>4, UploadInvariant, PTL DEF Spec, ImplementsPush, Contract!Spec
==============================================================================
