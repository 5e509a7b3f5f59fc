-------------------------- MODULE MarketplaceUpload --------------------------
(***************************************************************************)
(* `export push` seen from one upload: the walk over the bundle's entries,  *)
(* the retry loop of Metrics().Upload around each of them, the two deadlines*)
(* (10 minutes for the push, client.timeout for one upload), and the        *)
(* answers of the marketplace.                                              *)
(*                                                                          *)
(* ExportLifecycle has an upload succeed or fail in one step.  Here it is   *)
(* taken apart: a request travels, the marketplace may act on it and the    *)
(* answer be lost, a deadline may pass between two attempts, and a request  *)
(* the client has given up may still reach the marketplace.                 *)
(***************************************************************************)
EXTENDS Naturals

CONSTANTS
  File,       \* the entries of the bundle that have a record in the config file
  NoFile,     \* no entry is being uploaded
  Steps,      \* DefaultBackoff.Steps: how often one upload posts at most
  Allowed     \* bound: per kind of fault, how often it happens

FaultKinds == {"busy",     \* an error answer that the marketplace marks retryable
               "reject",   \* an error answer that it does not
               "broken",   \* no connection, or it fails, or the answer's body cannot be read
               "timeout",  \* client.timeout passes during an upload
               "deadline"} \* the ten minutes of a push pass

ASSUME UploadAssumption ==
  /\ NoFile \notin File
  /\ Steps \in Nat \ {0}
  /\ Allowed \in [FaultKinds -> Nat]

VARIABLES
  stored,   \* the files the marketplace holds
  orphans,  \* files of requests the client has given up, still on their way
  marked,   \* the records that say Pushed
  errs,     \* the files the last push reports as failed
  todo,     \* the entries the walk has still to reach
  file,     \* the entry being uploaded
  pc,       \* where the push stands
  attempt,  \* the post the retry loop is at, from 1
  last,     \* lastErr of retry.OnError: "none" or "retryable"
  reply,    \* the answer under way
  late,     \* the upload's context has expired
  over,     \* the push's context has expired
  unsent,   \* history: the files whose upload ended well before its first post
  faults    \* how many faults of each kind have happened

vars == <<stored, orphans, marked, errs, todo, file, pc, attempt, last, reply,
          late, over, unsent, faults>>
loop == <<attempt, last, reply>>

Replies == {"none", "accepted", "duplicate", "retryable", "fatal"}

TypeOK ==
  /\ stored \subseteq File
  /\ orphans \subseteq File
  /\ marked \subseteq File
  /\ errs \subseteq File
  /\ todo \subseteq File
  /\ pc \in {"idle", "walk", "post", "sent", "answered"}
  /\ file \in File \cup {NoFile}
  /\ file = NoFile <=> pc \in {"idle", "walk"}
  /\ attempt \in 1..Steps
  /\ last \in {"none", "retryable"}
  /\ reply \in Replies
  /\ reply # "none" <=> pc = "answered"
  /\ late \in BOOLEAN
  /\ over \in BOOLEAN
  /\ unsent \subseteq File
  /\ faults \in [FaultKinds -> Nat]

Init ==
  /\ stored = {} /\ orphans = {} /\ marked = {} /\ errs = {} /\ todo = {}
  /\ file = NoFile /\ pc = "idle"
  /\ attempt = 1 /\ last = "none" /\ reply = "none"
  /\ late = FALSE /\ over = FALSE /\ unsent = {}
  /\ faults = [k \in FaultKinds |-> 0]

Fault(k) ==
  /\ faults[k] < Allowed[k]
  /\ faults' = [faults EXCEPT ![k] = @ + 1]

-----------------------------------------------------------------------------
(* The walk *)

(* `export push` starts: a new context of ten minutes, no errors yet. *)
StartPush ==
  /\ pc = "idle"
  /\ pc' = "walk"
  /\ todo' = File
  /\ errs' = {}
  /\ over' = FALSE
  /\ UNCHANGED <<stored, orphans, marked, file, loop, late, unsent, faults>>

(* Slip: an entry that an earlier push has marked is uploaded again.        *)
UploadAgain(f) ==
  /\ pc = "walk"
  /\ f \in todo
  /\ todo' = todo \ {f}
  /\ file' = f
  /\ pc' = "post"
  /\ attempt' = 1 /\ last' = "none" /\ reply' = "none"
  /\ late' = over
  /\ UNCHANGED <<stored, orphans, marked, errs, over, unsent, faults>>

(* An entry whose record says Pushed is passed over. *)
Pass(f) ==
  /\ pc = "walk"
  /\ f \in todo \cap marked
  /\ todo' = todo \ {f}
  /\ UNCHANGED <<stored, orphans, marked, errs, file, pc, loop, late, over, unsent, faults>>

(* Upload is called: its context ends with the push's if not earlier. *)
Upload(f) ==
  /\ pc = "walk"
  /\ f \in todo \ marked
  /\ todo' = todo \ {f}
  /\ file' = f
  /\ pc' = "post"
  /\ attempt' = 1 /\ last' = "none" /\ reply' = "none"
  /\ late' = over
  /\ UNCHANGED <<stored, orphans, marked, errs, over, unsent, faults>>

(* The walk has reached the end: the errors are printed and the records saved. *)
EndPush ==
  /\ pc = "walk"
  /\ todo = {}
  /\ pc' = "idle"
  /\ UNCHANGED <<stored, orphans, marked, errs, todo, file, loop, late, over, unsent, faults>>

(* Upload returns nil: the record says Pushed. *)
Returned ==
  /\ pc' = "walk"
  /\ file' = NoFile
  /\ reply' = "none"
  /\ UNCHANGED <<stored, todo, attempt, last, late, over>>

Succeed ==
  /\ Returned
  /\ marked' = marked \cup {file}
  /\ UNCHANGED errs

(* Slip: the error is written to the record only, not to errs.              *)
FailUnreported ==
  /\ Returned
  /\ marked' = marked \ {file}
  /\ UNCHANGED errs

(* Upload returns an error: the record says Error, and Pushed is false. *)
Fail ==
  /\ Returned
  /\ errs' = errs \cup {file}
  /\ marked' = marked \ {file}

-----------------------------------------------------------------------------
(* One upload *)

(* uploadFile posts the form.  The context only bounds the dialing: the      *)
(* transport, a spdy.RoundTripper, reads the answer without a deadline.     *)
Post ==
  /\ pc = "post"
  /\ ~late
  /\ pc' = "sent"
  /\ UNCHANGED <<stored, orphans, marked, errs, todo, file, loop, late, over, unsent, faults>>

(* Slip: DuplicateError is not told from other errors.                      *)
DoneOnlyOnce ==
  /\ pc = "answered"
  /\ reply \in {"accepted", "duplicate"}
  /\ IF reply = "accepted" THEN Succeed ELSE Fail
  /\ UNCHANGED <<orphans, unsent, faults>>

(* 2xx, or 409: the marketplace holds the file. *)
Done ==
  /\ pc = "answered"
  /\ reply \in {"accepted", "duplicate"}
  /\ Succeed
  /\ UNCHANGED <<orphans, unsent, faults>>

(* Slip: every 4xx is taken for DuplicateError.                             *)
RefusedAsDuplicate ==
  /\ pc = "answered"
  /\ reply = "fatal"
  /\ Succeed
  /\ UNCHANGED <<orphans, unsent, faults>>

(* An error answer that is not marked retryable ends the upload. *)
Refused ==
  /\ pc = "answered"
  /\ reply = "fatal"
  /\ Fail
  /\ UNCHANGED <<orphans, unsent, faults>>

(* Slip: the steps are counted from zero.                                   *)
AgainOnceMore ==
  /\ pc = "answered"
  /\ reply = "retryable"
  /\ attempt <= Steps
  /\ pc' = "post"
  /\ attempt' = attempt + 1
  /\ last' = "retryable"
  /\ reply' = "none"
  /\ UNCHANGED <<stored, orphans, marked, errs, todo, file, late, over, unsent, faults>>

(* A retryable error, and an attempt is left: OnError sleeps and posts again. *)
Again ==
  /\ pc = "answered"
  /\ reply = "retryable"
  /\ attempt < Steps
  /\ pc' = "post"
  /\ attempt' = attempt + 1
  /\ last' = "retryable"
  /\ reply' = "none"
  /\ UNCHANGED <<stored, orphans, marked, errs, todo, file, late, over, unsent, faults>>

(* Slip: the last attempt is not made.                                      *)
GiveUpEarly ==
  /\ pc = "answered"
  /\ reply = "retryable"
  /\ attempt >= Steps - 1
  /\ Fail
  /\ UNCHANGED <<orphans, unsent, faults>>

(* A retryable error, and it was the last attempt: OnError returns lastErr. *)
GiveUp ==
  /\ pc = "answered"
  /\ reply = "retryable"
  /\ attempt = Steps
  /\ Fail
  /\ UNCHANGED <<orphans, unsent, faults>>

(* The connection cannot be made, or fails before or after the marketplace  *)
(* has acted; a request that is still on its way goes on travelling.        *)
Broken ==
  /\ pc \in {"post", "sent", "answered"}
  /\ Fault("broken")
  /\ Fail
  /\ orphans' = IF pc = "sent" THEN orphans \cup {file} ELSE orphans
  /\ UNCHANGED unsent

(* Slip: a deadline is one more retryable error, tried again from the start.*)
InterruptedTriesAgain ==
  /\ pc = "post"
  /\ late
  /\ attempt' = 1
  /\ last' = "retryable"
  /\ UNCHANGED <<stored, orphans, marked, errs, todo, file, pc, reply, late, over, unsent, faults>>

(* The context is over before the request is sent: dialing returns          *)
(* DeadlineExceeded, which wait.Interrupted takes for the end of the        *)
(* backoff, so that OnError returns lastErr: the last retryable error, and  *)
(* nil if there was none.                                                   *)
Interrupted ==
  /\ pc = "post"
  /\ late
  /\ \/ last = "retryable" /\ Fail /\ UNCHANGED unsent
     \/ last = "none" /\ Succeed /\ unsent' = unsent \cup {file}
  /\ UNCHANGED <<orphans, faults>>

-----------------------------------------------------------------------------
(* The environment *)

(* The marketplace takes a file once and answers 409 when it is sent again. *)
Answer ==
  /\ pc = "sent"
  /\ pc' = "answered"
  /\ \/ /\ file \notin stored
        /\ stored' = stored \cup {file}
        /\ reply' = "accepted"
        /\ UNCHANGED faults
     \/ /\ file \in stored
        /\ reply' = "duplicate"
        /\ UNCHANGED <<stored, faults>>
  /\ UNCHANGED <<orphans, marked, errs, todo, file, attempt, last, late, over, unsent>>

(* It answers with an error; a retryable one may come after the file was taken. *)
AnswerError ==
  /\ pc = "sent"
  /\ pc' = "answered"
  /\ \/ /\ Fault("busy")
        /\ reply' = "retryable"
        /\ stored' \in {stored, stored \cup {file}}
     \/ /\ Fault("reject")
        /\ reply' = "fatal"
        /\ UNCHANGED stored
  /\ UNCHANGED <<orphans, marked, errs, todo, file, attempt, last, late, over, unsent>>

(* A request nobody waits for reaches the marketplace. *)
LateStore(f) ==
  /\ f \in orphans
  /\ orphans' = orphans \ {f}
  /\ stored' = stored \cup {f}
  /\ UNCHANGED <<marked, errs, todo, file, pc, loop, late, over, unsent, faults>>

(* client.timeout passes during an upload. *)
UploadDeadline ==
  /\ Fault("timeout")
  /\ file # NoFile
  /\ ~late
  /\ late' = TRUE
  /\ UNCHANGED <<stored, orphans, marked, errs, todo, file, pc, loop, over, unsent>>

(* Ten minutes pass during a push. *)
PushDeadline ==
  /\ Fault("deadline")
  /\ pc # "idle"
  /\ ~over
  /\ over' = TRUE
  /\ late' = (late \/ file # NoFile)
  /\ UNCHANGED <<stored, orphans, marked, errs, todo, file, pc, loop, unsent>>

Client ==
  \/ \E f \in File : Pass(f) \/ Upload(f)
  \/ EndPush \/ Post \/ Done \/ Refused \/ Again \/ GiveUp \/ Interrupted

Next ==
  \/ StartPush
  \/ Client
  \/ Broken \/ Answer \/ AnswerError
  \/ \E f \in File : LateStore(f)
  \/ UploadDeadline \/ PushDeadline

Spec == Init /\ [][Next]_vars

(* The program runs, and the marketplace answers what reaches it, with an   *)
(* error perhaps: nothing else would end the wait for an answer.            *)
RunningSpec == Spec /\ WF_vars(Client) /\ WF_vars(Answer)

(* And the operator pushes again after a push. *)
RepeatedSpec == RunningSpec /\ WF_vars(StartPush)

-----------------------------------------------------------------------------
(* Properties *)

(* A record says Pushed only of a file the marketplace holds, whatever      *)
(* request was retried, refused, broken off or answered 409 on the way:     *)
(* commit deletes the original of every such file.                          *)
PushedIsStored == marked \subseteq stored

Timely == faults["timeout"] = 0 /\ faults["deadline"] = 0

(* What the code keeps of that when contexts expire: the one way to a mark  *)
(* without a stored file is an upload whose context was over before its     *)
(* first post.  A deadline during the backoff, one while an answer is       *)
(* awaited, a request overtaken by its own retry never lead there.          *)
PushedWasSent ==
  /\ marked \subseteq stored \cup unsent
  /\ Timely => PushedIsStored

(* A marketplace that is busy for fewer answers than an upload has attempts *)
(* never shows: without another fault the push reports no error             *)
(* (DefaultBackoff, isRetryable).                                           *)
OutageIsHidden ==
  (/\ faults["busy"] < Steps
   /\ \A k \in FaultKinds \ {"busy"} : faults[k] = 0) => errs = {}

(* While a push runs, and so when it ends, every entry it is done with is   *)
(* accounted for: its record says Pushed or an error has been reported for  *)
(* it, and not both, and the entry being uploaded is neither.               *)
Accounted ==
  pc # "idle" => /\ File \ todo \subseteq marked \cup errs \cup {file}
                 /\ marked \cap errs = {}
                 /\ file \notin marked \cup errs

(* A record that says Pushed keeps saying so, and its file is never sent    *)
(* again, by this push or a later one.                                      *)
PushedOnce ==
  [][/\ marked \subseteq marked'
     /\ pc' = "sent" => file' \notin marked']_vars

(* A push ends, whenever its deadlines pass: the backoff runs out or a      *)
(* context ends it, and neither begins again.                               *)
EveryPushEnds == pc # "idle" ~> pc = "idle"

(* A marketplace that answers, and fails only so often, ends up holding     *)
(* every file, and every record says so: a push repeated after its errors   *)
(* finishes the work, the 409 for what it had already taken included.  Only *)
(* what a deadline kept from being sent at all is marked and never comes.   *)
EventuallyPushed == <>[](marked = File /\ File \subseteq stored \cup unsent)

(* The contract of a push: what has been posted and given up may arrive, an *)
(* entry has no outcome as long as it is being uploaded.                    *)
Contract == INSTANCE PushContract
              WITH accepted <- stored \cup orphans, todo <- todo \cup ({file} \ {NoFile}),
                   running <- pc # "idle"

(* Attempts, answers, deadlines and the requests that overtake each other   *)
(* add up to one outcome per entry and push, as ExportLifecycle has it: a   *)
(* success for a file that has arrived, or an error, after which it may     *)
(* have arrived all the same.                                               *)
ImplementsPush == Contract!Spec
==============================================================================
