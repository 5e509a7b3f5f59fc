-------------------------- MODULE ExportCustodyProofs --------------------------
(***************************************************************************)
(* Proofs that the custody contract is safe: whatever implements            *)
(* ExportCustody loses no file.                                             *)
(***************************************************************************)
EXTENDS ExportCustody, TLAPS

(* Every step of the contract preserves safety: a file leaves the held ones  *)
(* only when it is delivered, taken for delivered, or still at its source.   *)
LEMMA CustodyStep == TypeOK /\ NothingLost /\ [Next]_vars => TypeOK' /\ NothingLost'
<1> SUFFICES ASSUME TypeOK, NothingLost, [Next]_vars
             PROVE  TypeOK' /\ NothingLost'
    OBVIOUS
<1> USE DEF TypeOK, NothingLost
<1>1. ASSUME Update
      PROVE  TypeOK' /\ NothingLost'
  BY <1>1 DEF Update
<1>2. ASSUME NEW f \in File, Deliver(f)
      PROVE  TypeOK' /\ NothingLost'
  BY <1>2 DEF Deliver
<1>3. ASSUME NEW f \in File, Mistake(f)
      PROVE  TypeOK' /\ NothingLost'
  BY <1>3 DEF Mistake
<1>4. ASSUME NEW f \in File, Release(f)
      PROVE  TypeOK' /\ NothingLost'
  BY <1>4 DEF Release
<1>5. CASE UNCHANGED vars
  BY <1>5 DEF vars
<1> QED
  BY <1>1, <1>2, <1>3, <1>4, <1>5 DEF Next

(* The contract: a file that is gone from its source is in the export, with  *)
(* the marketplace, or taken for delivered by a mistake that the contract    *)
(* names, for every set of files.                                            *)
THEOREM CustodySafe == Spec => [](TypeOK /\ NothingLost)
<1>1. Init => TypeOK /\ NothingLost
  BY DEF Init, TypeOK, NothingLost
<1> QED
  BY <1>1, CustodyStep, PTL DEF Spec
=============================================================================
