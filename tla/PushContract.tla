----------------------------- MODULE PushContract -----------------------------
(***************************************************************************)
(* What repeated pushes promise about the entries of a bundle, whatever the *)
(* network does: an entry is marked only once the marketplace has it, each  *)
(* push ends with every entry marked or reported, and no mark is taken      *)
(* back.  ExportLifecycle takes an upload for one of these steps;           *)
(* MarketplaceUpload, with its attempts and answers, implements them.       *)
(***************************************************************************)
CONSTANT File

VARIABLES
  accepted,  \* the files that are with the marketplace or on their way to it
  marked,    \* the records that say Pushed
  errs,      \* the files the last push reports as failed
  todo,      \* the entries whose outcome the running push does not know yet
  running,   \* a push runs
  unsent     \* the files marked although nothing was sent

vars == <<accepted, marked, errs, todo, running, unsent>>

Init ==
  /\ accepted = {} /\ marked = {} /\ errs = {} /\ todo = {} /\ unsent = {}
  /\ running = FALSE

Begin ==
  /\ ~running
  /\ running' = TRUE
  /\ todo' = File
  /\ errs' = {}
  /\ UNCHANGED <<accepted, marked, unsent>>

Pass(f) ==
  /\ running /\ f \in todo \cap marked
  /\ todo' = todo \ {f}
  /\ UNCHANGED <<accepted, marked, errs, running, unsent>>

(* A file gets through, before it is known that it has. *)
Arrive(f) ==
  /\ running /\ f \in todo \ marked
  /\ accepted' = accepted \cup {f}
  /\ UNCHANGED <<marked, errs, todo, running, unsent>>

(* The outcome of an upload. *)
Outcome(f) ==
  /\ running /\ f \in todo \ marked
  /\ todo' = todo \ {f}
  /\ UNCHANGED running

UploadOk(f) ==
  /\ Outcome(f)
  /\ accepted' = accepted \cup {f}
  /\ marked' = marked \cup {f}
  /\ UNCHANGED <<errs, unsent>>

UploadError(f) ==
  /\ Outcome(f)
  /\ accepted' \in {accepted, accepted \cup {f}}
  /\ errs' = errs \cup {f}
  /\ UNCHANGED <<marked, unsent>>

(* What no push should promise and this program does: an upload that has    *)
(* run out of time before it began passes for one that worked.              *)
UploadUnsent(f) ==
  /\ Outcome(f)
  /\ marked' = marked \cup {f}
  /\ unsent' = unsent \cup {f}
  /\ UNCHANGED <<accepted, errs>>

End ==
  /\ running /\ todo = {}
  /\ running' = FALSE
  /\ UNCHANGED <<accepted, marked, errs, todo, unsent>>

Next ==
  \/ Begin \/ End
  \/ \E f \in File : Pass(f) \/ Arrive(f) \/ UploadOk(f) \/ UploadError(f) \/ UploadUnsent(f)

Spec == Init /\ [][Next]_vars
===============================================================================
