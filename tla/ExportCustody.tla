----------------------------- MODULE ExportCustody -----------------------------
(***************************************************************************)
(* What an export promises about metering data, without saying how: a file  *)
(* may disappear from the DataService that produced it only once its        *)
(* content is in the active export waiting to be delivered, or delivered.   *)
(* ExportLifecycle implements it, with one exception that is named here.    *)
(***************************************************************************)
CONSTANT File

VARIABLES
  held,       \* files whose content the active export holds and has yet to deliver
  released,   \* files deleted at their source
  delivered,  \* files whose content the marketplace accepted
  unsent      \* files the export takes for delivered although nothing was sent

vars == <<held, released, delivered, unsent>>

TypeOK == /\ held \subseteq File
          /\ released \subseteq File
          /\ delivered \subseteq File
          /\ unsent \subseteq File

Init == held = {} /\ released = {} /\ delivered = {} /\ unsent = {}

(* The export takes on files that are still at their source, and gives up   *)
(* files that are done with or can be fetched again.                        *)
Update ==
  /\ held' \in SUBSET File
  /\ (held' \ held) \cap released = {}
  /\ (held \ held') \cap released \subseteq delivered \cup unsent
  /\ UNCHANGED <<released, delivered, unsent>>

(* The content of a file in the export's hands reaches the marketplace. *)
Deliver(f) ==
  /\ f \in held \cup unsent \/ f \notin released
  /\ delivered' = delivered \cup {f}
  /\ UNCHANGED <<held, released, unsent>>

(* What no export should promise and this program does: a file passes for   *)
(* delivered of which nothing was sent.                                     *)
Mistake(f) ==
  /\ f \in held \cup unsent \/ f \notin released
  /\ unsent' = unsent \cup {f}
  /\ UNCHANGED <<held, released, delivered>>

(* A file is deleted at its source. *)
Release(f) ==
  /\ f \in held \cup delivered \cup unsent
  /\ released' = released \cup {f}
  /\ UNCHANGED <<held, delivered, unsent>>

Next == \/ Update
        \/ \E f \in File : Deliver(f) \/ Mistake(f) \/ Release(f)

Spec == Init /\ [][Next]_vars

(* No file is gone from its source unless its content is in the export, has *)
(* been delivered, or was taken for delivered by mistake: what makes        *)
(* `export commit` as safe as the uploads before it.                        *)
NothingLost == released \subseteq held \cup delivered \cup unsent
=============================================================================
