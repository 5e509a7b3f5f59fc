------------------------- MODULE ExportLifecycleProofs -------------------------
(***************************************************************************)
(* Proofs about ExportLifecycle, for any number of files, sources, records  *)
(* and faults of every kind: its types, and that the config file's ledger   *)
(* survives every interleaving of commands, failures and kills.  A mark     *)
(* that push or commit has saved is never taken back by a command that      *)
(* fails, is killed, or saves an older copy.                                *)
(***************************************************************************)
EXTENDS ExportLifecycle, TLAPS, SequenceTheorems, FiniteSetTheorems

-----------------------------------------------------------------------------
(* Sequences and the bundle's operators *)

(* A function on 1..n is a sequence.                                        *)
LEMMA FunctionIsSeq ==
  ASSUME NEW S, NEW n \in Nat, NEW s \in [1..n -> S]
  PROVE  s \in Seq(S)
BY SeqDef

(* Spoiling the last entry of a list leaves a list of entries.              *)
LEMMA SpoilType ==
  ASSUME NEW es \in Seq(Entry)
  PROVE  SpoilLast(es) \in Seq(Entry)
<1>1. Len(es) \in Nat /\ DOMAIN es = 1..Len(es) /\ \A i \in 1..Len(es) : es[i] \in Entry
  OBVIOUS
<1>2. SpoilLast(es) \in [1..Len(es) -> Entry]
  BY <1>1 DEF SpoilLast, Entry
<1> QED
  BY <1>1, <1>2, FunctionIsSeq

(* A bundle with one more entry is a bundle.                                *)
LEMMA WrittenType ==
  ASSUME NEW b \in Bundle, NEW w \in BOOLEAN, NEW e \in Entry
  PROVE  Written(b, w, e) \in Bundle
BY SpoilType DEF Written, Base, Bundle, Tails

(* A bundle whose last entry is cut short is a bundle.                      *)
LEMMA CutShortType ==
  ASSUME NEW b \in Bundle, NEW w \in BOOLEAN, NEW t \in CutTails(b, w)
  PROVE  CutShort(b, w, t) \in Bundle
BY SpoilType DEF CutShort, CutTails, Base, Bundle, Tails

(* A closed bundle is a bundle.                                             *)
LEMMA SealedType ==
  ASSUME NEW b \in Bundle, NEW w \in BOOLEAN
  PROVE  Sealed(b, w) \in Bundle
BY SpoilType DEF Sealed, Base, Bundle, Tails, Misplaced

(* What SetToSeqs returns: the elements of a finite set, each once. *)
LEMMA Arrangement ==
  ASSUME NEW S, IsFiniteSet(S), NEW s \in SetToSeqs(S)
  PROVE  /\ s \in Seq(S)
         /\ DOMAIN s = 1..Cardinality(S)
         /\ \A i, j \in DOMAIN s : i # j => s[i] # s[j]
         /\ \A x \in S : \E i \in DOMAIN s : s[i] = x
<1> DEFINE n == Cardinality(S)
<1>1. n \in Nat
  BY FS_CardinalityType
<1>2. s \in [1..n -> S] /\ \A i, j \in 1..n : i # j => s[i] # s[j]
  BY DEF SetToSeqs
<1>3. s \in Seq(S) /\ DOMAIN s = 1..n
  BY <1>1, <1>2, FunctionIsSeq
<1>4. s \in Injection(1..n, S)
  BY <1>2 DEF Injection, IsInjective
<1>5. IsFiniteSet(1..n) /\ Cardinality(1..n) = n
  BY <1>1, FS_Interval
<1>6. s \in Surjection(1..n, S)
  BY <1>4, <1>5, FS_Injection
<1> QED
  BY <1>2, <1>3, <1>6 DEF Surjection

(* Members of a sequence, picked by their indexes, form a finite set. *)
LEMMA PickedFinite ==
  ASSUME NEW S, NEW s \in Seq(S), NEW I \in SUBSET DOMAIN s
  PROVE  /\ {s[i] : i \in I} \subseteq S
         /\ IsFiniteSet({s[i] : i \in I})
<1> DEFINE T == {s[i] : i \in I}
           g == [i \in I |-> s[i]]
<1>1. IsFiniteSet(DOMAIN s)
  <2>1. DOMAIN s = 1..Len(s) /\ Len(s) \in Nat
    OBVIOUS
  <2> QED
    BY <2>1, FS_Interval
<1>2. IsFiniteSet(I)
  BY <1>1, FS_Subset
<1>3. g \in Surjection(I, T)
  BY DEF Surjection
<1>4. IsFiniteSet(T)
  BY <1>2, <1>3, FS_Surjection
<1> QED
  BY <1>4

(* Pull's merge yields finitely many records. *)
LEMMA MergeType ==
  ASSUME NEW old \in Seq(Record), NEW new \in Seq(Record)
  PROVE  /\ MergedRecords(old, new) \subseteq Record
         /\ IsFiniteSet(MergedRecords(old, new))
<1> DEFINE kept == {i \in DOMAIN old : ~(old[i].committed /\ old[i].pushed)}
           last == {i \in kept : \A j \in kept : j > i => KeyOf[old[j].file] # KeyOf[old[i].file]}
           live == {j \in last : ~ReplacedBy(new, old[j])}
           A == {new[i] : i \in LastOfKey(new)}
           B == {old[i] : i \in live}
<1>1. LastOfKey(new) \in SUBSET DOMAIN new /\ live \in SUBSET DOMAIN old
  BY DEF LastOfKey
<1>2. A \subseteq Record /\ IsFiniteSet(A)
  BY <1>1, PickedFinite
<1>3. B \subseteq Record /\ IsFiniteSet(B)
  <2> HIDE DEF kept, last, live
  <2>1. live \in SUBSET DOMAIN old
    BY <1>1
  <2> QED
    BY <2>1, PickedFinite
<1>4. MergedRecords(old, new) = A \cup B
  BY DEF MergedRecords
<1> HIDE DEF A, B
<1>5. IsFiniteSet(A \cup B)
  BY <1>2, <1>3, FS_Union
<1> QED
  BY <1>2, <1>3, <1>4, <1>5

(* Every order of pull's merged records is a list of records.               *)
LEMMA MergedType ==
  ASSUME NEW old \in Seq(Record), NEW new \in Seq(Record),
         NEW rs \in SetToSeqs(MergedRecords(old, new))
  PROVE  rs \in Seq(Record)
BY MergeType, Arrangement, SeqMonotonic

(* A compaction keeps entries of the bundle. *)
LEMMA CompactionType ==
  ASSUME NEW es \in Seq(Entry), NEW names, NEW c \in Compactions(es, names)
  PROVE  c \in Seq(Entry)
<1> DEFINE K == KeptIndexes(es, names)
<1>1. PICK s \in SetToSeqs(K) : c = [k \in DOMAIN s |-> es[s[k]]]
  BY DEF Compactions
<1>2. K \subseteq DOMAIN es /\ IsFiniteSet(K)
  <2>1. DOMAIN es = 1..Len(es) /\ Len(es) \in Nat
    OBVIOUS
  <2>2. IsFiniteSet(DOMAIN es)
    BY <2>1, FS_Interval
  <2>3. K \subseteq DOMAIN es
    BY DEF KeptIndexes
  <2> HIDE DEF K
  <2> QED
    BY <2>2, <2>3, FS_Subset
<1>3. s \in Seq(K) /\ DOMAIN s = 1..Cardinality(K) /\ Cardinality(K) \in Nat
  BY <1>2, Arrangement, FS_CardinalityType
<1>4. \A k \in DOMAIN s : es[s[k]] \in Entry
  BY <1>2, <1>3
<1> HIDE DEF K
<1> DEFINE n == Cardinality(K)
<1>5. n \in Nat /\ DOMAIN s = 1..n
  BY <1>3
<1> HIDE DEF n
<1>6. c \in [1..n -> Entry]
  BY <1>1, <1>4, <1>5
<1> QED
  BY <1>5, <1>6, FunctionIsSeq

-----------------------------------------------------------------------------
(* Type correctness *)

(* The memory of a command that has not begun is well typed.                *)
LEMMA NoCmdType == NoCmd \in Cmd /\ NoCmd.files = <<>>
BY EmptySeq DEF NoCmd, Cmd, Op, Mode

(* A new bundle is a bundle.                                                *)
LEMMA EmptyType == Empty \in Bundle
BY EmptySeq DEF Empty, Bundle, Tails

(* Writing one record of a list. *)
LEMMA RecordUpdate ==
  ASSUME NEW rs \in Seq(Record), NEW i \in DOMAIN rs, NEW r \in Record
  PROVE  /\ ReplaceAt(rs, i, r) \in Seq(Record)
         /\ Len(ReplaceAt(rs, i, r)) = Len(rs)
         /\ DOMAIN ReplaceAt(rs, i, r) = DOMAIN rs
         /\ \A j \in DOMAIN rs : ReplaceAt(rs, i, r)[j] = IF j = i THEN r ELSE rs[j]
<1>1. DOMAIN rs = 1..Len(rs)
  OBVIOUS
<1> QED
  BY <1>1, ExceptSeq DEF ReplaceAt

(* What push and commit write into a record makes a record.                 *)
LEMMA OutcomeType ==
  ASSUME NEW r \in Record, NEW flag \in BOOLEAN, NEW result \in {"Ok", "Error"}
  PROVE  /\ \A shown \in {"Ok", "DryRun"} : Seen(r, shown) \in Record
         /\ PushOutcome(r, flag, result) \in Record
         /\ CommitOutcome(r, flag, result) \in Record
BY DEF Seen, PushOutcome, CommitOutcome, Record

(* What pull lists is a record.                                             *)
LEMMA NewRecordType ==
  ASSUME NEW f \in File, NEW r \in {"", "Ok", "Error"}
  PROVE  NewRecord(f, r) \in Record
BY DEF NewRecord, Record

(* The loops of push and commit move on to the next index. *)
LEMMA AdvanceType ==
  ASSUME NEW c \in Cmd, NEW rs \in Seq(Record), NEW e \in BOOLEAN
  PROVE  /\ [c EXCEPT !.idx = @ + 1] \in Cmd
         /\ [c EXCEPT !.idx = @ + 1, !.files = rs] \in Cmd
         /\ [c EXCEPT !.idx = @ + 1, !.errs = e] \in Cmd
         /\ [c EXCEPT !.idx = @ + 1, !.errs = e, !.files = rs] \in Cmd
<1>1. PICK k \in Nat : k = c.idx + 1
  BY DEF Cmd
<1>2. /\ [c EXCEPT !.idx = k] \in Cmd
      /\ [c EXCEPT !.idx = k, !.files = rs] \in Cmd
      /\ [c EXCEPT !.idx = k, !.errs = e] \in Cmd
      /\ [c EXCEPT !.idx = k, !.errs = e, !.files = rs] \in Cmd
  BY DEF Cmd
<1> QED
  BY <1>1, <1>2

(* The initial state is well typed.                                         *)
LEMMA TypeInit == Init => TypeOK
<1> SUFFICES ASSUME Init PROVE TypeOK
  OBVIOUS
<1>1. cmd \in Cmd /\ tar \in Bundle
  BY NoCmdType, EmptyType DEF Init
<1>2. saved \in [named : BOOLEAN, files : Seq(Record)]
  BY EmptySeq DEF Init
<1>3. atSource \in [File -> {"unborn", "listed", "deleted"}]
      /\ accepted \subseteq Entry /\ unsent \subseteq File
  BY DEF Init
<1>4. faults \in 0..MaxFaults
  <2>1. faults = 0 /\ MaxFaults \in Nat
    BY ConstantsAssumption DEF ConstantsAssumption, Init
  <2> QED
    BY <2>1
<1>5. pc \in Loc /\ clean \in BOOLEAN
  BY DEF Init, Loc
<1> QED
  BY <1>1, <1>2, <1>3, <1>4, <1>5 DEF TypeOK

(* Starting a command keeps the types.                                      *)
LEMMA StartType ==
  ASSUME TypeOK, NEW op \in Op, NEW mode \in Mode, NEW at \in Loc, NEW S \in SUBSET Source,
         Start(op, mode, at, S), clean' \in BOOLEAN
  PROVE  TypeOK'
<1>1. tar' \in Bundle
  BY EmptyType DEF TypeOK, Start
<1>2. PICK w \in Seq(Entry) :
        cmd' = [NoCmd EXCEPT !.op = op, !.mode = mode, !.files = saved.files,
                             !.sources = S, !.walk = w]
  <2>1. tar'.entries \in Seq(Entry) /\ <<>> \in Seq(Entry)
    BY <1>1, EmptySeq DEF Bundle
  <2> QED
    BY <2>1 DEF Start
<1>3. saved.files \in Seq(Record)
  BY DEF TypeOK
<1>4. cmd' \in Cmd
  BY <1>2, <1>3, NoCmdType DEF Cmd
<1> QED
  BY <1>1, <1>4 DEF TypeOK, Start

(* Counting a fault stays within the bound.                                 *)
LEMMA FaultType == ASSUME TypeOK, NEW kind, Fault(kind)
                   PROVE  faults' \in 0..MaxFaults
BY ConstantsAssumption DEF TypeOK, Fault

(* Leaving a command keeps the types of the command's variables.            *)
LEMMA ExitType == ASSUME Exit PROVE pc' \in Loc /\ cmd' \in Cmd
BY NoCmdType DEF Exit, Loc

(* A compacted bundle, trimmed or not, is a bundle.                         *)
LEMMA CompactsType ==
  ASSUME TypeOK, Compacts
  PROVE  /\ tar' \in Bundle
         /\ faults' \in 0..MaxFaults
<1>0. PICK es \in Compactions(tar.entries, CompactNames) : \E n \in 0..Len(es) :
        /\ IF n = Len(es) THEN UNCHANGED faults ELSE Fault("trim")
        /\ tar' = [entries |-> SubSeq(es, 1, n), tail |-> "sealed"]
  BY DEF Compacts
<1>1. PICK n \in 0..Len(es) :
        /\ IF n = Len(es) THEN UNCHANGED faults ELSE Fault("trim")
        /\ tar' = [entries |-> SubSeq(es, 1, n), tail |-> "sealed"]
  BY <1>0
<1>2. es \in Seq(Entry)
  BY CompactionType DEF TypeOK, Bundle
<1>3. SubSeq(es, 1, n) \in Seq(Entry)
  <2>1. Len(es) \in Nat
    BY <1>2
  <2>2. n \in Nat /\ n <= Len(es)
    BY <2>1
  <2> QED
    BY <1>2, <2>1, <2>2, SubSeqProperties
<1>4. faults' \in 0..MaxFaults
  BY <1>1, FaultType DEF TypeOK
<1> QED
  BY <1>1, <1>3, <1>4 DEF Bundle, Tails

(* Marking an upload's outcome keeps the command's memory well typed.       *)
LEMMA MarkedType ==
  ASSUME TypeOK, NEW pushed \in BOOLEAN, NEW result \in {"Ok", "Error"}, Marked(pushed, result)
  PROVE  cmd' \in Cmd
<1>1. cmd \in Cmd /\ cmd.files \in Seq(Record) /\ cmd.errs \in BOOLEAN
  BY DEF TypeOK, Cmd
<1>2. CASE MarkedFile(pushed)
  BY <1>1, <1>2, AdvanceType DEF MarkedFile
<1>3. ASSUME NEW i \in LastRecord,
             cmd' = [cmd EXCEPT !.idx = @ + 1, !.errs = @ \/ ~pushed,
                                !.files = ReplaceAt(@, i, PushOutcome(@[i], pushed, result))]
      PROVE  cmd' \in Cmd
  <2>1. i \in DOMAIN cmd.files /\ cmd.files[i] \in Record
    BY <1>1 DEF LastRecord
  <2>2. PushOutcome(cmd.files[i], pushed, result) \in Record
    BY <1>1, <2>1, OutcomeType
  <2>3. ReplaceAt(cmd.files, i, PushOutcome(cmd.files[i], pushed, result)) \in Seq(Record)
    BY <1>1, <2>1, <2>2, RecordUpdate
  <2> QED
    BY <1>1, <1>3, <2>3, AdvanceType
<1> QED
  BY <1>2, <1>3 DEF Marked

(* Every step keeps the types.                                              *)
LEMMA TypeStep == TypeOK /\ [Next]_vars => TypeOK'
<1> SUFFICES ASSUME TypeOK, [Next]_vars
             PROVE  TypeOK'
    OBVIOUS
<1>a. /\ cmd \in Cmd
      /\ cmd.files \in Seq(Record)
      /\ cmd.new \in Seq(Record)
      /\ cmd.walk \in Seq(Entry)
      /\ cmd.wrote \in BOOLEAN
      /\ cmd.errs \in BOOLEAN
      /\ tar \in Bundle
  BY DEF TypeOK, Cmd
<1>b. \A i \in DOMAIN cmd.files : cmd.files[i] \in Record
  BY <1>a
<1>1. ASSUME NEW f \in File, Produce(f) PROVE TypeOK'
  BY <1>1 DEF Produce, TypeOK
<1>2. ASSUME NEW type, NEW name, PullStart(Selected(type, name)) PROVE TypeOK'
  <2>1. Selected(type, name) \in SUBSET Source
    BY DEF Selected
  <2>2. "pull" \in Op /\ "normal" \in Mode /\ "sources" \in Loc
    BY DEF Op, Mode, Loc
  <2> QED
    BY <1>2, <2>1, <2>2, StartType DEF PullStart
<1>3. ASSUME NEW mode \in Mode, PushStart(mode) PROVE TypeOK'
  <2>1. "push" \in Op /\ "upload" \in Loc /\ {} \in SUBSET Source
    BY DEF Op, Loc
  <2>2. clean' \in BOOLEAN /\ Start("push", mode, "upload", {})
    BY <1>3 DEF PushStart
  <2> QED
    BY <2>1, <2>2, StartType
<1>4. ASSUME NEW mode \in {"normal", "dry"}, CommitStart(mode) PROVE TypeOK'
  <2>1. "commit" \in Op /\ mode \in Mode /\ "csources" \in Loc
    BY DEF Op, Mode, Loc
  <2>2. clean' \in BOOLEAN
    BY <1>4 DEF CommitStart, TypeOK
  <2> QED
    BY <1>4, <2>1, <2>2, StartType DEF CommitStart
<1>5. ASSUME NEW s \in Source, PullSource(s) PROVE TypeOK'
  <2>1. cmd' \in Cmd
    <3>1. PICK L \in SUBSET File :
            cmd' = [cmd EXCEPT !.sources = @ \ {s}, !.src = s, !.new = <<>>, !.list = L]
      BY <1>5 DEF PullSource, Listed
    <3> QED
      BY <1>a, <3>1, EmptySeq DEF Cmd
  <2> QED
    BY <1>5, <2>1 DEF PullSource, Listed, TypeOK, Loc
<1>6. ASSUME NEW f \in File, Download(f) PROVE TypeOK'
  <2>1. PICK good \in BOOLEAN :
          /\ IF good THEN UNCHANGED faults ELSE Fault("oversize")
          /\ tar' = Written(tar, cmd.wrote, [file |-> f, good |-> good])
          /\ cmd' = [cmd EXCEPT !.list = @ \ {f}, !.wrote = TRUE,
                                !.new = Append(@, NewRecord(f, IF good THEN "Ok" ELSE "Error"))]
    BY <1>6 DEF Download
  <2>2. tar' \in Bundle
    BY <1>a, <2>1, WrittenType DEF Entry
  <2>3. cmd' \in Cmd
    <3>1. PICK r \in Record :
            cmd' = [cmd EXCEPT !.list = @ \ {f}, !.wrote = TRUE, !.new = Append(@, r)]
      BY <2>1, NewRecordType
    <3> QED
      BY <1>a, <3>1, AppendProperties DEF Cmd
  <2>4. faults' \in 0..MaxFaults
    BY <2>1, FaultType DEF TypeOK
  <2> QED
    BY <1>6, <2>2, <2>3, <2>4 DEF Download, TypeOK
<1>7. CASE PullAbort
  <2>1. cmd' \in Cmd
    BY <1>7, <1>a, EmptySeq DEF PullAbort, Cmd
  <2>2. faults' \in 0..MaxFaults
    BY <1>7, FaultType DEF PullAbort, TypeOK
  <2> QED
    BY <1>7, <2>1, <2>2 DEF PullAbort, TypeOK, Loc
<1>8. CASE PullMerge
  <2>1. PICK rs \in SetToSeqs(MergedRecords(cmd.files, cmd.new)) :
          cmd' = [cmd EXCEPT !.files = rs, !.new = <<>>, !.src = NoSource]
    BY <1>8 DEF PullMerge
  <2>2. rs \in Seq(Record)
    BY <1>a, MergedType
  <2>3. cmd' \in Cmd
    BY <1>a, <2>1, <2>2, EmptySeq DEF Cmd
  <2> QED
    BY <1>8, <2>3 DEF PullMerge, TypeOK, Loc
<1>9. ASSUME NEW f \in File, PullReport(f) PROVE TypeOK'
  <2>1. Written(tar, cmd.wrote, [file |-> f, good |-> TRUE]) \in Bundle
    BY <1>a, WrittenType DEF Entry
  <2>2. PICK r \in Record : r = NewRecord(f, "")
    BY NewRecordType
  <2>3. cmd' \in Cmd
    <3>1. CASE cmd.short
      BY <1>9, <1>a, <3>1 DEF PullReport, Cmd
    <3>2. CASE ~cmd.short
      <4>1. cmd' = [cmd EXCEPT !.sources = @ \ {SourceOf[f]}, !.wrote = TRUE,
                               !.files = Append(@, r)]
        BY <1>9, <2>2, <3>2 DEF PullReport
      <4> QED
        BY <1>a, <4>1, AppendProperties DEF Cmd
    <3> QED
      BY <3>1, <3>2
  <2> QED
    BY <1>9, <2>1, <2>3 DEF PullReport, TypeOK
<1>10. CASE PullClose
  <2>1. Sealed(tar, cmd.wrote) \in Bundle
    BY <1>a, SealedType
  <2>2. CASE cmd.short
    BY <1>10, <2>2, ExitType DEF PullClose, TypeOK
  <2>3. CASE ~cmd.short
    <3>1. cmd' = [cmd EXCEPT !.closed = TRUE] /\ pc' = "compact" /\ tar' = Sealed(tar, cmd.wrote)
      BY <1>10, <2>3 DEF PullClose
    <3>2. cmd' \in Cmd
      BY <1>a, <3>1 DEF Cmd
    <3> QED
      BY <1>10, <2>1, <3>1, <3>2 DEF PullClose, TypeOK, Loc
  <2> QED
    BY <2>2, <2>3
<1>11. CASE PushPass
  <2>1. ASSUME NEW i \in LastRecord,
               cmd' = [cmd EXCEPT !.idx = @ + 1, !.files = ReplaceAt(@, i, Seen(@[i], Shown))]
        PROVE  cmd' \in Cmd
    <3>1. i \in DOMAIN cmd.files
      BY DEF LastRecord
    <3>2. Seen(cmd.files[i], Shown) \in Record
      BY <1>b, <3>1, OutcomeType DEF Shown
    <3>3. ReplaceAt(cmd.files, i, Seen(cmd.files[i], Shown)) \in Seq(Record)
      BY <1>a, <3>1, <3>2, RecordUpdate
    <3> QED
      BY <1>a, <2>1, <3>3, AdvanceType
  <2>2. cmd' \in Cmd
    BY <1>11, <1>a, <2>1, AdvanceType DEF PushPass
  <2> QED
    BY <1>11, <2>2 DEF PushPass, TypeOK
<1>12. ASSUME pc = "upload", cmd.idx \in DOMAIN cmd.walk PROVE Entry1 \in Entry
  BY <1>12, <1>a DEF Entry1
<1>13. CASE UploadOk
  <2>1. cmd' \in Cmd
    BY <1>13, MarkedType DEF UploadOk
  <2> QED
    BY <1>12, <1>13, <2>1 DEF UploadOk, TypeOK
<1>14. CASE UploadError
  <2>1. cmd' \in Cmd
    BY <1>14, MarkedType DEF UploadError
  <2>2. faults' \in 0..MaxFaults
    BY <1>14, FaultType DEF UploadError
  <2> QED
    BY <1>12, <1>14, <2>1, <2>2 DEF UploadError, TypeOK
<1>15. CASE PushEnd
  BY <1>15, ExitType DEF PushEnd, TypeOK, Loc
<1>16. ASSUME NEW s \in Source, CommitSource(s) PROVE TypeOK'
  <2>1. CASE s \in Ilmt
    <3>1. cmd' = [cmd EXCEPT !.sources = @ \ {s}]
      BY <1>16, <2>1 DEF CommitSource
    <3>2. cmd' \in Cmd
      BY <1>a, <3>1 DEF Cmd
    <3> QED
      BY <1>16, <2>1, <3>2 DEF CommitSource, TypeOK
  <2>2. CASE s \notin Ilmt
    <3>1. cmd' = [cmd EXCEPT !.sources = @ \ {s}, !.src = s, !.idx = 1]
      BY <1>16, <2>2 DEF CommitSource
    <3>2. cmd' \in Cmd
      BY <1>a, <3>1 DEF Cmd
    <3> QED
      BY <1>16, <2>2, <3>2 DEF CommitSource, TypeOK, Loc
  <2> QED
    BY <2>1, <2>2
<1>17. CASE CommitPass
  <2>1. cmd' \in Cmd
    <3>1. cmd.idx \in DOMAIN cmd.files /\ Record1 \in Record
      BY <1>17, <1>b DEF CommitPass, Record1
    <3>2. Seen(Record1, "Ok") \in Record
      BY <3>1, OutcomeType
    <3>3. ReplaceAt(cmd.files, cmd.idx, Seen(Record1, "Ok")) \in Seq(Record)
      BY <1>a, <3>1, <3>2, RecordUpdate
    <3> QED
      BY <1>17, <1>a, <3>3, AdvanceType DEF CommitPass
  <2> QED
    BY <1>17, <2>1 DEF CommitPass, TypeOK
<1>18. ASSUME Deletes, NEW committed \in BOOLEAN, NEW result \in {"Ok", "Error"},
              cmd' = [cmd EXCEPT !.idx = @ + 1,
                        !.files = ReplaceAt(@, cmd.idx, CommitOutcome(Record1, committed, result))]
       PROVE  cmd' \in Cmd
  <2>1. cmd.idx \in DOMAIN cmd.files /\ Record1 \in Record
    BY <1>18, <1>b DEF Deletes, Record1
  <2>2. CommitOutcome(Record1, committed, result) \in Record
    BY <2>1, OutcomeType
  <2>3. ReplaceAt(cmd.files, cmd.idx, CommitOutcome(Record1, committed, result)) \in Seq(Record)
    BY <1>a, <2>1, <2>2, RecordUpdate
  <2> QED
    BY <1>18, <1>a, <2>3, AdvanceType
<1>19. CASE DeleteOk
  <2>1. cmd' \in Cmd
    BY <1>18, <1>19 DEF DeleteOk
  <2> QED
    BY <1>19, <2>1 DEF DeleteOk, TypeOK
<1>20. CASE DeleteError
  <2>1. cmd' \in Cmd
    BY <1>18, <1>20 DEF DeleteError
  <2>2. faults' \in 0..MaxFaults
    BY <1>20, FaultType DEF DeleteError, TypeOK
  <2> QED
    BY <1>20, <2>1, <2>2 DEF DeleteError, TypeOK
<1>21. CASE CommitClose
  <2>1. Sealed(tar, cmd.wrote) \in Bundle
    BY <1>a, SealedType
  <2>2. cmd' \in Cmd
    BY <1>21, <1>a DEF CommitClose, Cmd
  <2> QED
    BY <1>21, <2>1, <2>2 DEF CommitClose, TypeOK, Loc
<1>22. CASE CommitEnd
  BY <1>22 DEF CommitEnd, TypeOK, Loc
<1>23. CASE CommitCompact
  <2>1. tar' \in Bundle
    BY <1>23, <1>a, CompactsType DEF CommitCompact
  <2>2. faults' \in 0..MaxFaults
    BY <1>23, FaultType, CompactsType DEF CommitCompact, CompactFails, TypeOK
  <2> QED
    BY <1>23, <2>1, <2>2 DEF CommitCompact, TypeOK, Loc
<1>24. CASE Compact
  BY <1>24, CompactsType, ExitType DEF Compact, TypeOK, Loc
<1>25. CASE CompactError
  <2>1. Sealed(tar, cmd.wrote) \in Bundle
    BY <1>a, SealedType
  <2>2. faults' \in 0..MaxFaults
    BY <1>25, FaultType DEF CompactError, CompactFails, TypeOK
  <2> QED
    BY <1>25, <2>1, <2>2, ExitType DEF CompactError, TypeOK
<1>26. CASE Save
  <2>1. saved' \in [named : BOOLEAN, files : Seq(Record)] /\ clean' \in BOOLEAN
    BY <1>26, <1>a DEF Save, TypeOK
  <2> QED
    BY <1>26, <2>1, ExitType DEF Save, TypeOK
<1>27. ASSUME NEW s \in Source, SkipSource(s) PROVE TypeOK'
  <2>1. cmd' \in Cmd
    BY <1>27, <1>a DEF SkipSource, NoClient, Cmd
  <2> QED
    BY <1>27, <2>1, FaultType DEF SkipSource, NoClient, TypeOK
<1>28. ASSUME NEW f \in File, DownloadShort(f) PROVE TypeOK'
  <2>1. PICK t \in CutTails(tar, cmd.wrote), r \in {"Ok", "Error"} :
          /\ tar' = CutShort(tar, cmd.wrote, t)
          /\ cmd' = [cmd EXCEPT !.list = @ \ {f}, !.wrote = TRUE, !.short = TRUE,
                                !.new = Append(@, NewRecord(f, r))]
    BY <1>28 DEF DownloadShort
  <2>2. tar' \in Bundle
    BY <1>a, <2>1, CutShortType
  <2>3. cmd' \in Cmd
    <3>1. PICK e \in Record :
            cmd' = [cmd EXCEPT !.list = @ \ {f}, !.wrote = TRUE, !.short = TRUE,
                               !.new = Append(@, e)]
      BY <2>1, NewRecordType
    <3> QED
      BY <1>a, <3>1, AppendProperties DEF Cmd
  <2> QED
    BY <1>28, <2>2, <2>3, FaultType DEF DownloadShort, TypeOK
<1>29. CASE SaveError
  BY <1>29, ExitType, FaultType DEF SaveError, TypeOK
<1>30. CASE Kill
  <2>1. tar' \in Bundle
    BY <1>30, <1>a, CutShortType DEF Kill
  <2>2. faults' \in 0..MaxFaults
    BY <1>30, FaultType DEF Kill
  <2> QED
    BY <1>30, <2>1, <2>2, ExitType DEF Kill, TypeOK
<1>31. CASE UploadUnsent
  <2>1. cmd' \in Cmd
    BY <1>31, MarkedType DEF UploadUnsent
  <2>2. faults' \in 0..MaxFaults
    BY <1>31, FaultType DEF UploadUnsent
  <2>3. Entry1.file \in File
    BY <1>12, <1>31 DEF UploadUnsent, Entry
  <2> QED
    BY <1>31, <2>1, <2>2, <2>3 DEF UploadUnsent, TypeOK
<1>32. CASE UNCHANGED vars
  BY <1>32 DEF vars, TypeOK
<1> QED
  BY <1>1, <1>2, <1>3, <1>4, <1>5, <1>6, <1>7, <1>8, <1>9, <1>10, <1>11, <1>13, <1>14,
     <1>15, <1>16, <1>17, <1>19, <1>20, <1>21, <1>22, <1>23, <1>24, <1>25, <1>26, <1>27,
     <1>28, <1>29, <1>30, <1>31, <1>32
  DEF Next, Pull, Push, Commit, Finish

(* Every command leaves well-formed state behind: the records, the bundle,  *)
(* the running command's memory, the servers' side.                         *)
THEOREM TypeCorrect == Spec => []TypeOK
BY TypeInit, TypeStep, PTL DEF Spec

-----------------------------------------------------------------------------
(* The ledger *)

(* Pull's key, FileInfo.Name with Source and SourceType, tells the files of  *)
(* DataServices apart, and from reports.  Reports have no Source: two hosts' *)
(* reports of one range of days have one name (source_ilmt.go:105), one key. *)
KeysDistinct ==
  \A f, g \in File : KeyOf[f] = KeyOf[g] =>
    f = g \/ (f \in Report /\ g \in Report /\ NameOf[f] = NameOf[g])

-----------------------------------------------------------------------------
(* Pull's merge *)

(* A merged record is one of the old or one of the listed records.          *)
LEMMA MergeSource ==
  ASSUME NEW old \in Seq(Record), NEW new \in Seq(Record), NEW r \in MergedRecords(old, new)
  PROVE  (\E i \in DOMAIN old : r = old[i]) \/ (\E k \in DOMAIN new : r = new[k])
BY DEF MergedRecords, LastOfKey

(* The merge keeps one record of a file. *)
LEMMA MergeOnce ==
  ASSUME NEW old \in Seq(Record), NEW new \in Seq(Record),
         NEW r \in MergedRecords(old, new), NEW q \in MergedRecords(old, new),
         r.file = q.file
  PROVE  r = q
<1> DEFINE kept == {i \in DOMAIN old : ~(old[i].committed /\ old[i].pushed)}
           last == {i \in kept : \A j \in kept : j > i => KeyOf[old[j].file] # KeyOf[old[i].file]}
           live == {j \in last : ~ReplacedBy(new, old[j])}
<1>1. /\ (\E k \in LastOfKey(new) : r = new[k]) \/ (\E i \in live : r = old[i])
      /\ (\E k \in LastOfKey(new) : q = new[k]) \/ (\E i \in live : q = old[i])
  BY DEF MergedRecords
<1>2. ASSUME NEW k \in LastOfKey(new), NEW m \in LastOfKey(new), new[k].file = new[m].file
      PROVE  k = m
  <2>1. k \in DOMAIN new /\ m \in DOMAIN new /\ k \in Nat /\ m \in Nat
    BY DEF LastOfKey
  <2>2. ~(k > m) /\ ~(m > k)
    BY <1>2, <2>1 DEF LastOfKey
  <2> QED
    BY <2>1, <2>2
<1>3. ASSUME NEW i \in live, NEW j \in live, old[i].file = old[j].file
      PROVE  i = j
  <2>1. i \in kept /\ j \in kept /\ i \in Nat /\ j \in Nat
    OBVIOUS
  <2>2. ~(i > j) /\ ~(j > i)
    BY <1>3, <2>1
  <2> QED
    BY <2>1, <2>2
<1>4. ASSUME NEW i \in live, NEW k \in LastOfKey(new)
      PROVE  new[k].file # old[i].file
  BY DEF ReplacedBy, LastOfKey
<1> HIDE DEF live
<1> QED
  BY <1>1, <1>2, <1>3, <1>4

(* What becomes of a record in the merge: it is kept, dropped when pushed    *)
(* and committed, or its file is listed again; reports are never merged by   *)
(* their own pull, and may have several records.                            *)
LEMMA MergeKeeps ==
  ASSUME KeysDistinct,
         NEW old \in Seq(Record), NEW new \in Seq(Record), OneRecord(old), NEW i \in DOMAIN old
  PROVE  \/ old[i] \in MergedRecords(old, new)
         \/ old[i].pushed /\ old[i].committed
         \/ old[i].file \in Report
         \/ \E k \in DOMAIN new : new[k].file = old[i].file
<1> DEFINE kept == {j \in DOMAIN old : ~(old[j].committed /\ old[j].pushed)}
           last == {h \in kept : \A j \in kept : j > h => KeyOf[old[j].file] # KeyOf[old[h].file]}
           live == {j \in last : ~ReplacedBy(new, old[j])}
<1>1. /\ \A j \in DOMAIN old : old[j].file \in File /\ j \in Nat
      /\ \A k \in DOMAIN new : new[k].file \in File
  <2>1. /\ \A j \in DOMAIN old : old[j] \in Record /\ j \in Nat
        /\ \A k \in DOMAIN new : new[k] \in Record
    OBVIOUS
  <2> QED
    BY <2>1 DEF Record
<1>2. CASE i \in live
  BY <1>2 DEF MergedRecords
<1>3. CASE i \in last /\ ReplacedBy(new, old[i])
  BY <1>1, <1>3 DEF ReplacedBy, KeysDistinct
<1>4. CASE i \in kept /\ i \notin last
  <2>1. PICK j \in kept : j > i /\ KeyOf[old[j].file] = KeyOf[old[i].file]
    BY <1>4
  <2>2. old[j].file = old[i].file \/ old[i].file \in Report
    BY <1>1, <2>1 DEF KeysDistinct
  <2>3. j # i
    BY <1>1, <2>1
  <2> QED
    BY <2>1, <2>2, <2>3 DEF OneRecord
<1> QED
  BY <1>2, <1>3, <1>4

-----------------------------------------------------------------------------
(* The invariant *)

(* The ledger invariant holds initially.                                    *)
LEMMA LedgerInit == Init => LedgerInv
<1> SUFFICES ASSUME Init PROVE LedgerInv
  OBVIOUS
<1>1. cmd.files = <<>> /\ cmd.new = <<>> /\ cmd.list = {} /\ cmd.op = "pull" /\ saved.files = <<>>
  BY DEF Init, NoCmd
<1>2. Phases
  BY <1>1 DEF Init, Phases
<1>3. ListingHolds
  BY <1>1, ConstantsAssumption DEF ConstantsAssumption, Init, ListingHolds
<1> QED
  BY <1>1, <1>2, <1>3 DEF Init, LedgerInv, Truthful, OneRecord

(* The command is over, and nothing was saved. *)
LEMMA ExitStep ==
  ASSUME LedgerInv, Exit, UNCHANGED <<atSource, saved>>
  PROVE  LedgerInv'
BY EmptySeq DEF Exit, NoCmd, LedgerInv, Phases, ListingHolds, Truthful, OneRecord

(* A step of a command that leaves the records alone. *)
LEMMA QuietStep ==
  ASSUME LedgerInv, Phases', pc # "idle", UNCHANGED <<atSource, saved>>,
         cmd'.op = cmd.op, cmd'.files = cmd.files,
         cmd'.list \subseteq cmd.list, cmd'.new = cmd.new \/ cmd'.new = <<>>
  PROVE  LedgerInv'
<1>1. ListingHolds'
  BY EmptySeq DEF LedgerInv, ListingHolds
<1>2. /\ Truthful(saved.files)' /\ Truthful(cmd.files)'
      /\ OneRecord(saved.files)' /\ OneRecord(cmd.files)'
  BY DEF LedgerInv, Truthful, OneRecord
<1>3. pc # "idle" => IF cmd'.op = "pull"
                       THEN \A i \in DOMAIN saved'.files : Survives(saved.files[i], cmd.files)'
                       ELSE Marks(saved.files, cmd.files)'
  BY DEF LedgerInv, Survives, Marks
<1> QED
  BY <1>1, <1>2, <1>3 DEF LedgerInv

(* A step of push or commit that writes one record. *)
LEMMA MarkStep ==
  ASSUME TypeOK, LedgerInv, Phases', pc # "idle", cmd.op # "pull", cmd'.op = cmd.op,
         NEW i \in DOMAIN cmd.files, NEW r \in Record,
         cmd'.files = ReplaceAt(cmd.files, i, r),
         r.file = cmd.files[i].file,
         cmd.files[i].pushed => r.pushed,
         cmd.files[i].committed => r.committed,
         r.committed => atSource'[r.file] = "deleted",
         \A f \in File : atSource[f] = "deleted" => atSource'[f] = "deleted",
         \A f \in Report : atSource'[f] = atSource[f],
         UNCHANGED saved, cmd'.list = {}, cmd'.new = <<>>
  PROVE  LedgerInv'
<1>1. /\ cmd.files \in Seq(Record) /\ saved.files \in Seq(Record)
      /\ Len(cmd.files) = Len(saved.files)
  <2>1. cmd.files \in Seq(Record) /\ saved.files \in Seq(Record)
    BY DEF TypeOK, Cmd
  <2> QED
    BY <2>1 DEF LedgerInv, Marks
<1>2. /\ Len(cmd'.files) = Len(cmd.files)
      /\ DOMAIN cmd'.files = DOMAIN cmd.files
      /\ \A j \in DOMAIN cmd.files : cmd'.files[j] = IF j = i THEN r ELSE cmd.files[j]
  <2>1. PICK rs \in Seq(Record) : rs = cmd.files
    BY <1>1
  <2>2. i \in DOMAIN rs
    BY <2>1
  <2>3. /\ Len(ReplaceAt(rs, i, r)) = Len(rs)
        /\ DOMAIN ReplaceAt(rs, i, r) = DOMAIN rs
        /\ \A j \in DOMAIN rs : ReplaceAt(rs, i, r)[j] = IF j = i THEN r ELSE rs[j]
    BY <2>2, RecordUpdate
  <2> QED
    BY <2>1, <2>3
<1>3. DOMAIN saved.files = DOMAIN cmd.files
  BY <1>1
<1>4. /\ \A j \in DOMAIN cmd.files : cmd.files[j].file \in File
      /\ \A j \in DOMAIN saved.files : saved.files[j].file \in File
  <2>1. /\ \A j \in DOMAIN cmd.files : cmd.files[j] \in Record
        /\ \A j \in DOMAIN saved.files : saved.files[j] \in Record
    BY <1>1
  <2> QED
    BY <2>1 DEF Record
<1>5. ListingHolds'
  BY EmptySeq DEF LedgerInv, ListingHolds
<1>6. Truthful(saved.files)' /\ Truthful(cmd.files)'
  BY <1>2, <1>4 DEF LedgerInv, Truthful
<1>7. OneRecord(saved.files)' /\ OneRecord(cmd.files)'
  BY <1>2 DEF LedgerInv, OneRecord
<1>8. Marks(saved.files, cmd.files)'
  BY <1>1, <1>2, <1>3 DEF LedgerInv, Marks
<1> QED
  BY <1>5, <1>6, <1>7, <1>8 DEF LedgerInv

(* A command that starts takes over the saved records: the ledger holds.    *)
LEMMA StartStep ==
  ASSUME TypeOK, LedgerInv, NEW op \in Op, NEW mode \in Mode, NEW at, NEW S \in SUBSET Source,
         Start(op, mode, at, S),
         <<op, at>> \in {<<"pull", "sources">>, <<"push", "upload">>, <<"commit", "csources">>}
  PROVE  LedgerInv'
<1>1. /\ cmd'.op = op /\ cmd'.mode = mode /\ cmd'.files = saved.files
      /\ cmd'.new = <<>> /\ cmd'.list = {}
  BY DEF Start, NoCmd
<1>2. saved' = saved /\ atSource' = atSource /\ pc' = at
  BY DEF Start
<1>3. Phases'
  BY <1>1, <1>2 DEF Phases
<1>4. ListingHolds'
  BY <1>1, <1>2 DEF LedgerInv, ListingHolds
<1>5. Truthful(saved.files)' /\ OneRecord(saved.files)'
  BY <1>2 DEF LedgerInv, Truthful, OneRecord
<1>6. Truthful(cmd.files)' /\ OneRecord(cmd.files)'
  BY <1>1, <1>2 DEF LedgerInv, Truthful, OneRecord
<1>7. \A i \in DOMAIN saved'.files : Survives(saved.files[i], cmd.files)'
  BY <1>1, <1>2 DEF Survives
<1>8. Marks(saved.files, cmd.files)'
  BY <1>1, <1>2 DEF Marks
<1> QED
  BY <1>3, <1>4, <1>5, <1>6, <1>7, <1>8 DEF LedgerInv

(* A file appears: what was listed or deleted stays so. *)
LEMMA ProduceStep ==
  ASSUME TypeOK, LedgerInv, NEW f \in File, Produce(f)
  PROVE  LedgerInv'
<1>1. /\ \A g \in File : atSource[g] \in {"listed", "deleted"} => atSource'[g] = atSource[g]
      /\ UNCHANGED <<saved, cmd, pc>>
  BY DEF Produce, TypeOK
<1>2. /\ \A i \in DOMAIN saved.files : saved.files[i].file \in File
      /\ \A i \in DOMAIN cmd.files : cmd.files[i].file \in File
      /\ \A i \in DOMAIN cmd.new : cmd.new[i].file \in File
      /\ cmd.list \subseteq File
  <2>1. /\ saved.files \in Seq(Record) /\ cmd.files \in Seq(Record) /\ cmd.new \in Seq(Record)
        /\ cmd.list \subseteq File
    BY DEF TypeOK, Cmd
  <2>2. /\ \A i \in DOMAIN saved.files : saved.files[i] \in Record
        /\ \A i \in DOMAIN cmd.files : cmd.files[i] \in Record
        /\ \A i \in DOMAIN cmd.new : cmd.new[i] \in Record
    BY <2>1
  <2> QED
    BY <2>1, <2>2 DEF Record
<1>3. Phases'
  BY <1>1 DEF LedgerInv, Phases
<1>4. ListingHolds'
  BY <1>1, <1>2, ConstantsAssumption DEF ConstantsAssumption, LedgerInv, ListingHolds
<1>5. /\ Truthful(saved.files)' /\ Truthful(cmd.files)'
      /\ OneRecord(saved.files)' /\ OneRecord(cmd.files)'
  BY <1>1, <1>2 DEF LedgerInv, Truthful, OneRecord
<1>6. pc' # "idle" => IF cmd'.op = "pull"
                        THEN \A i \in DOMAIN saved'.files : Survives(saved.files[i], cmd.files)'
                        ELSE Marks(saved.files, cmd.files)'
  BY <1>1, <1>2 DEF LedgerInv, Survives, Marks
<1> QED
  BY <1>3, <1>4, <1>5, <1>6 DEF LedgerInv

(* A file of the list is downloaded, or cut short: it is listed still. *)
LEMMA DownloadStep ==
  ASSUME TypeOK, LedgerInv, pc = "download", NEW f \in cmd.list, NEW r \in {"Ok", "Error"},
         UNCHANGED <<atSource, saved, pc>>,
         cmd'.op = cmd.op, cmd'.mode = cmd.mode, cmd'.files = cmd.files,
         cmd'.list = cmd.list \ {f}, cmd'.new = Append(cmd.new, NewRecord(f, r))
  PROVE  LedgerInv'
<1>1. cmd.new \in Seq(Record) /\ f \in File
  BY DEF TypeOK, Cmd
<1>2. NewRecord(f, r) \in Record
  BY <1>1, NewRecordType
<1>3. \A k \in DOMAIN cmd'.new : IF k \in DOMAIN cmd.new THEN cmd'.new[k] = cmd.new[k]
                                                        ELSE cmd'.new[k] = NewRecord(f, r)
  BY <1>1, <1>2, AppendProperties
<1>4. ListingHolds'
  BY <1>3 DEF LedgerInv, ListingHolds, NewRecord
<1>5. Phases'
  BY DEF LedgerInv, Phases
<1>6. /\ Truthful(saved.files)' /\ Truthful(cmd.files)'
      /\ OneRecord(saved.files)' /\ OneRecord(cmd.files)'
  BY DEF LedgerInv, Truthful, OneRecord
<1>7. \A i \in DOMAIN saved'.files : Survives(saved.files[i], cmd.files)'
  BY DEF LedgerInv, Phases, Survives
<1>8. cmd'.op = "pull"
  BY DEF LedgerInv, Phases
<1> QED
  BY <1>4, <1>5, <1>6, <1>7, <1>8 DEF LedgerInv

(* Pull's merge. *)
LEMMA MergeStep ==
  ASSUME KeysDistinct, TypeOK, LedgerInv, PullMerge
  PROVE  LedgerInv'
<1>1. /\ cmd \in Cmd /\ cmd.files \in Seq(Record) /\ cmd.new \in Seq(Record)
      /\ saved.files \in Seq(Record)
  BY DEF TypeOK, Cmd
<1>2. PICK rs \in SetToSeqs(MergedRecords(cmd.files, cmd.new)) :
        cmd' = [cmd EXCEPT !.files = rs, !.new = <<>>, !.src = NoSource]
  BY DEF PullMerge
<1>3. /\ cmd'.files = rs /\ cmd'.new = <<>> /\ cmd'.list = {} /\ cmd'.op = "pull"
      /\ pc' = "sources" /\ UNCHANGED <<atSource, saved>>
  BY <1>1, <1>2 DEF PullMerge, Cmd, LedgerInv, Phases
<1>4. /\ rs \in Seq(MergedRecords(cmd.files, cmd.new))
      /\ \A i, j \in DOMAIN rs : i # j => rs[i] # rs[j]
      /\ \A x \in MergedRecords(cmd.files, cmd.new) : \E i \in DOMAIN rs : rs[i] = x
  BY <1>1, MergeType, Arrangement
<1>5. \A i \in DOMAIN rs : rs[i] \in MergedRecords(cmd.files, cmd.new)
  BY <1>4
<1>6. Truthful(rs)
  BY <1>1, <1>5, MergeSource DEF LedgerInv, Truthful, ListingHolds
<1>7. OneRecord(rs)
  BY <1>1, <1>4, <1>5, MergeOnce DEF OneRecord
<1>8. ASSUME NEW i \in DOMAIN saved.files
      PROVE  Survives(saved.files[i], rs)
  <2>1. Survives(saved.files[i], cmd.files)
    BY <1>8 DEF PullMerge, LedgerInv, Phases
  <2>2. ASSUME NEW j \in DOMAIN cmd.files, cmd.files[j] = saved.files[i]
        PROVE  Survives(saved.files[i], rs)
    <3>1. \/ cmd.files[j] \in MergedRecords(cmd.files, cmd.new)
          \/ cmd.files[j].pushed /\ cmd.files[j].committed
          \/ cmd.files[j].file \in Report
          \/ \E k \in DOMAIN cmd.new : cmd.new[k].file = cmd.files[j].file
      BY <1>1, MergeKeeps DEF LedgerInv
    <3> QED
      BY <1>4, <2>2, <3>1 DEF Survives, LedgerInv, ListingHolds
  <2> QED
    BY <2>1, <2>2 DEF Survives
<1>9. Phases'
  BY <1>3 DEF Phases
<1>10. ListingHolds'
  BY <1>3 DEF LedgerInv, ListingHolds
<1>11. /\ Truthful(saved.files)' /\ Truthful(cmd.files)'
       /\ OneRecord(saved.files)' /\ OneRecord(cmd.files)'
  BY <1>3, <1>6, <1>7 DEF LedgerInv, Truthful, OneRecord
<1>12. \A i \in DOMAIN saved'.files : Survives(saved.files[i], cmd.files)'
  BY <1>3, <1>8 DEF Survives
<1> QED
  BY <1>3, <1>9, <1>10, <1>11, <1>12 DEF LedgerInv

(* A report's record is appended. *)
LEMMA ReportStep ==
  ASSUME TypeOK, LedgerInv, NEW f \in File, PullReport(f)
  PROVE  LedgerInv'
<1>1. cmd \in Cmd /\ cmd.files \in Seq(Record) /\ f \in Report
  BY DEF TypeOK, Cmd, PullReport
<1>6. PICK r \in Record : r = NewRecord(f, "")
  BY NewRecordType
<1>7. r.file = f /\ ~r.committed
  BY <1>6 DEF NewRecord
<1>2. /\ cmd'.op = cmd.op /\ cmd'.mode = cmd.mode /\ cmd'.list = cmd.list /\ cmd'.new = cmd.new
      /\ cmd'.files = cmd.files \/ cmd'.files = Append(cmd.files, r)
      /\ pc = "sources" /\ cmd.op = "pull" /\ UNCHANGED <<atSource, saved, pc>>
  BY <1>1, <1>6 DEF PullReport, Cmd
<1>3. Phases'
  BY <1>2 DEF LedgerInv, Phases
<1>4. CASE cmd'.files = cmd.files
  BY <1>2, <1>3, <1>4, QuietStep
<1>5. CASE cmd'.files = Append(cmd.files, r)
  <2>2. /\ DOMAIN cmd.files \subseteq DOMAIN cmd'.files
        /\ \A k \in DOMAIN cmd'.files :
             IF k \in DOMAIN cmd.files THEN cmd'.files[k] = cmd.files[k]
                                       ELSE cmd'.files[k] = r
        /\ \A j, k \in DOMAIN cmd'.files : j \notin DOMAIN cmd.files /\ k \notin DOMAIN cmd.files => j = k
    BY <1>1, <1>5, AppendProperties
  <2>3. ListingHolds'
    BY <1>2 DEF LedgerInv, ListingHolds
  <2>4. Truthful(saved.files)' /\ OneRecord(saved.files)'
    BY <1>2 DEF LedgerInv, Truthful, OneRecord
  <2>5. Truthful(cmd.files)'
    BY <1>2, <1>7, <2>2 DEF LedgerInv, Truthful
  <2>6. OneRecord(cmd.files)'
    BY <1>1, <1>2, <1>7, <2>2 DEF LedgerInv, OneRecord
  <2>7. \A i \in DOMAIN saved'.files : Survives(saved.files[i], cmd.files)'
    BY <1>2, <2>2 DEF LedgerInv, Survives
  <2> QED
    BY <1>2, <1>3, <2>3, <2>4, <2>5, <2>6, <2>7 DEF LedgerInv
<1> QED
  BY <1>2, <1>4, <1>5

(* ModifyConfig saves the command's copy. *)
LEMMA SaveStep ==
  ASSUME LedgerInv, Save
  PROVE  LedgerInv'
<1>1. /\ pc' = "idle" /\ saved'.files = cmd.files /\ atSource' = atSource
      /\ cmd'.files = <<>> /\ cmd'.new = <<>> /\ cmd'.list = {} /\ cmd'.op = "pull"
  BY DEF Save, Exit, NoCmd
<1>2. Phases' /\ ListingHolds'
  BY <1>1 DEF LedgerInv, Phases, ListingHolds
<1>3. Truthful(saved.files)' /\ OneRecord(saved.files)'
  BY <1>1 DEF LedgerInv, Truthful, OneRecord
<1>4. Truthful(cmd.files)' /\ OneRecord(cmd.files)'
  BY <1>1 DEF Truthful, OneRecord
<1> QED
  BY <1>1, <1>2, <1>3, <1>4 DEF LedgerInv

(* Every step keeps the ledger invariant.                                   *)
LEMMA LedgerStep == KeysDistinct /\ TypeOK /\ LedgerInv /\ [Next]_vars => LedgerInv'
<1> SUFFICES ASSUME KeysDistinct, TypeOK, LedgerInv, [Next]_vars
             PROVE  LedgerInv'
    OBVIOUS
<1>a. /\ cmd \in Cmd
      /\ \A i \in DOMAIN cmd.files : cmd.files[i] \in Record /\ cmd.files[i].file \in File
  <2>1. cmd \in Cmd /\ cmd.files \in Seq(Record)
    BY DEF TypeOK, Cmd
  <2>2. \A i \in DOMAIN cmd.files : cmd.files[i] \in Record
    BY <2>1
  <2> QED
    BY <2>1, <2>2 DEF Record
<1>1. ASSUME NEW f \in File, Produce(f) PROVE LedgerInv'
  BY <1>1, ProduceStep
<1>2. ASSUME NEW type, NEW name, PullStart(Selected(type, name)) PROVE LedgerInv'
  <2>1. Selected(type, name) \in SUBSET Source /\ "pull" \in Op /\ "normal" \in Mode
    BY DEF Selected, Op, Mode
  <2>2. Start("pull", "normal", "sources", Selected(type, name))
    BY <1>2 DEF PullStart
  <2> QED
    BY <2>1, <2>2, StartStep
<1>3. ASSUME NEW mode \in Mode, PushStart(mode) PROVE LedgerInv'
  <2>1. {} \in SUBSET Source /\ "push" \in Op /\ Start("push", mode, "upload", {})
    BY <1>3 DEF PushStart, Op
  <2> QED
    BY <2>1, StartStep
<1>4. ASSUME NEW mode \in {"normal", "dry"}, CommitStart(mode) PROVE LedgerInv'
  <2>1. Source \in SUBSET Source /\ mode \in Mode /\ "commit" \in Op
    BY DEF Mode, Op
  <2>2. Start("commit", mode, "csources", Source)
    BY <1>4 DEF CommitStart
  <2> QED
    BY <2>1, <2>2, StartStep
<1>5. ASSUME NEW s \in Source, PullSource(s) PROVE LedgerInv'
  <2>1. /\ cmd'.op = "pull" /\ cmd'.files = cmd.files /\ cmd'.new = <<>>
        /\ cmd'.list = {f \in File : SourceOf[f] = s /\ atSource[f] = "listed"}
        /\ pc' = "download" /\ pc = "sources" /\ UNCHANGED <<atSource, saved>>
    BY <1>5, <1>a DEF PullSource, Listed, Cmd
  <2>2. Phases'
    BY <2>1 DEF Phases
  <2>3. ListingHolds'
    BY <2>1 DEF LedgerInv, ListingHolds
  <2>4. /\ Truthful(saved.files)' /\ Truthful(cmd.files)'
        /\ OneRecord(saved.files)' /\ OneRecord(cmd.files)'
    BY <2>1 DEF LedgerInv, Truthful, OneRecord
  <2>5. \A i \in DOMAIN saved'.files : Survives(saved.files[i], cmd.files)'
    BY <2>1 DEF LedgerInv, Phases, Survives
  <2> QED
    BY <2>1, <2>2, <2>3, <2>4, <2>5 DEF LedgerInv
<1>6. ASSUME NEW f \in File, Download(f) PROVE LedgerInv'
  <2>1. PICK r \in {"Ok", "Error"} :
          cmd' = [cmd EXCEPT !.list = @ \ {f}, !.wrote = TRUE, !.new = Append(@, NewRecord(f, r))]
    BY <1>6 DEF Download
  <2>2. /\ cmd'.op = cmd.op /\ cmd'.mode = cmd.mode /\ cmd'.files = cmd.files
        /\ cmd'.list = cmd.list \ {f} /\ cmd'.new = Append(cmd.new, NewRecord(f, r))
    BY <1>a, <2>1 DEF Cmd
  <2>3. pc = "download" /\ f \in cmd.list /\ UNCHANGED <<atSource, saved, pc>>
    BY <1>6 DEF Download
  <2> QED
    BY <2>2, <2>3, DownloadStep
<1>7. ASSUME NEW f \in File, DownloadShort(f) PROVE LedgerInv'
  <2>1. PICK r \in {"Ok", "Error"} :
          cmd' = [cmd EXCEPT !.list = @ \ {f}, !.wrote = TRUE, !.short = TRUE,
                             !.new = Append(@, NewRecord(f, r))]
    BY <1>7 DEF DownloadShort
  <2>2. /\ cmd'.op = cmd.op /\ cmd'.mode = cmd.mode /\ cmd'.files = cmd.files
        /\ cmd'.list = cmd.list \ {f} /\ cmd'.new = Append(cmd.new, NewRecord(f, r))
    BY <1>a, <2>1 DEF Cmd
  <2>3. pc = "download" /\ f \in cmd.list /\ UNCHANGED <<atSource, saved, pc>>
    BY <1>7 DEF DownloadShort
  <2> QED
    BY <2>2, <2>3, DownloadStep
<1>8. CASE PullAbort
  <2>1. /\ cmd'.op = cmd.op /\ cmd'.files = cmd.files /\ cmd'.list = {} /\ cmd'.new = <<>>
        /\ pc = "download" /\ pc' = "sources" /\ UNCHANGED <<atSource, saved>>
    BY <1>8, <1>a DEF PullAbort, Cmd
  <2>2. Phases'
    BY <2>1 DEF LedgerInv, Phases
  <2> QED
    BY <2>1, <2>2, QuietStep
<1>9. CASE PullMerge
  BY <1>9, MergeStep
<1>10. ASSUME NEW f \in File, PullReport(f) PROVE LedgerInv'
  BY <1>10, ReportStep
<1>11. CASE PullClose
  <2>1. CASE cmd.short
    BY <1>11, <2>1, ExitStep DEF PullClose
  <2>2. CASE ~cmd.short
    <3>1. /\ cmd'.op = cmd.op /\ cmd'.files = cmd.files /\ cmd'.list = cmd.list
          /\ cmd'.new = cmd.new /\ cmd.op = "pull"
          /\ pc = "sources" /\ pc' = "compact" /\ UNCHANGED <<atSource, saved>>
      BY <1>11, <1>a, <2>2 DEF PullClose, Cmd
    <3>2. Phases'
      BY <3>1 DEF LedgerInv, Phases
    <3> QED
      BY <3>1, <3>2, QuietStep
  <2> QED
    BY <2>1, <2>2
<1>12. ASSUME NEW i \in DOMAIN cmd.files, NEW r \in Record, pc = "upload",
              UNCHANGED <<atSource, saved, pc>>,
              cmd'.op = cmd.op, cmd'.mode = cmd.mode, cmd'.list = cmd.list, cmd'.new = cmd.new,
              cmd'.files = ReplaceAt(cmd.files, i, r),
              r.file = cmd.files[i].file, cmd.files[i].pushed => r.pushed,
              r.committed = cmd.files[i].committed
       PROVE  LedgerInv'
  <2>1. cmd.list = {} /\ cmd.new = <<>> /\ cmd.op = "push"
    BY <1>12 DEF LedgerInv, Phases
  <2>2. Phases'
    BY <1>12, <2>1 DEF Phases
  <2>3. r.committed => atSource'[r.file] = "deleted"
    BY <1>12 DEF LedgerInv, Truthful
  <2> QED
    BY <1>12, <2>1, <2>2, <2>3, MarkStep
<1>13. ASSUME pc = "upload", UNCHANGED <<atSource, saved, pc>>,
              cmd'.op = cmd.op, cmd'.mode = cmd.mode, cmd'.files = cmd.files,
              cmd'.list = cmd.list, cmd'.new = cmd.new
       PROVE  LedgerInv'
  <2>1. Phases'
    BY <1>13 DEF LedgerInv, Phases
  <2> QED
    BY <1>13, <2>1, QuietStep
<1>14. CASE PushPass
  <2>1. pc = "upload" /\ UNCHANGED <<atSource, saved, pc>>
    BY <1>14 DEF PushPass
  <2>2. CASE cmd' = [cmd EXCEPT !.idx = @ + 1]
    <3>1. /\ cmd'.op = cmd.op /\ cmd'.mode = cmd.mode /\ cmd'.files = cmd.files
          /\ cmd'.list = cmd.list /\ cmd'.new = cmd.new
      BY <1>a, <2>2 DEF Cmd
    <3> QED
      BY <1>13, <2>1, <3>1
  <2>3. ASSUME NEW i \in LastRecord,
               cmd' = [cmd EXCEPT !.idx = @ + 1, !.files = ReplaceAt(@, i, Seen(@[i], Shown))]
        PROVE  LedgerInv'
    <3>1. i \in DOMAIN cmd.files
      BY DEF LastRecord
    <3>2. /\ cmd'.op = cmd.op /\ cmd'.mode = cmd.mode /\ cmd'.list = cmd.list /\ cmd'.new = cmd.new
          /\ cmd'.files = ReplaceAt(cmd.files, i, Seen(cmd.files[i], Shown))
      BY <1>a, <2>3 DEF Cmd
    <3>3. /\ Seen(cmd.files[i], Shown) \in Record
          /\ Seen(cmd.files[i], Shown).file = cmd.files[i].file
          /\ Seen(cmd.files[i], Shown).pushed = cmd.files[i].pushed
          /\ Seen(cmd.files[i], Shown).committed = cmd.files[i].committed
      BY <1>a, <3>1 DEF Seen, Shown, Record
    <3> QED
      BY <1>12, <2>1, <3>1, <3>2, <3>3
  <2> QED
    BY <1>14, <2>2, <2>3 DEF PushPass
<1>15. ASSUME pc = "upload", UNCHANGED <<atSource, saved, pc>>,
              NEW pushed \in BOOLEAN, NEW result \in {"Ok", "Error"}, Marked(pushed, result)
       PROVE  LedgerInv'
  <2>1. CASE MarkedFile(pushed)
    <3>1. /\ cmd'.op = cmd.op /\ cmd'.mode = cmd.mode /\ cmd'.files = cmd.files
          /\ cmd'.list = cmd.list /\ cmd'.new = cmd.new
      BY <1>a, <2>1 DEF MarkedFile, Cmd
    <3> QED
      BY <1>13, <1>15, <3>1
  <2>2. ASSUME NEW i \in LastRecord, ~cmd.files[i].pushed,
               cmd' = [cmd EXCEPT !.idx = @ + 1, !.errs = @ \/ ~pushed,
                                  !.files = ReplaceAt(@, i, PushOutcome(@[i], pushed, result))]
        PROVE  LedgerInv'
    <3>1. i \in DOMAIN cmd.files
      BY DEF LastRecord
    <3>2. /\ cmd'.op = cmd.op /\ cmd'.mode = cmd.mode /\ cmd'.list = cmd.list /\ cmd'.new = cmd.new
          /\ cmd'.files = ReplaceAt(cmd.files, i, PushOutcome(cmd.files[i], pushed, result))
      BY <1>a, <2>2 DEF Cmd
    <3>3. /\ PushOutcome(cmd.files[i], pushed, result) \in Record
          /\ PushOutcome(cmd.files[i], pushed, result).file = cmd.files[i].file
          /\ PushOutcome(cmd.files[i], pushed, result).committed = cmd.files[i].committed
      BY <1>a, <3>1 DEF PushOutcome, Record
    <3> QED
      BY <1>12, <1>15, <2>2, <3>1, <3>2, <3>3
  <2> QED
    BY <1>15, <2>1, <2>2 DEF Marked
<1>16. CASE UploadOk
  BY <1>15, <1>16 DEF UploadOk
<1>17. CASE UploadError
  BY <1>15, <1>17 DEF UploadError
<1>36. CASE UploadUnsent
  BY <1>15, <1>36 DEF UploadUnsent
<1>18. CASE PushEnd
  <2>1. CASE ~Readable(tar) \/ cmd.mode # "normal"
    BY <1>18, <2>1, ExitStep DEF PushEnd
  <2>2. CASE ~(~Readable(tar) \/ cmd.mode # "normal")
    <3>1. pc = "upload" /\ pc' = "compact" /\ cmd.mode = "normal" /\ UNCHANGED <<atSource, saved, cmd>>
      BY <1>18, <2>2 DEF PushEnd
    <3>2. Phases'
      BY <3>1 DEF LedgerInv, Phases
    <3> QED
      BY <3>1, <3>2, QuietStep
  <2> QED
    BY <2>1, <2>2
<1>19. ASSUME pc \in {"csources", "delete", "ccompact"},
              pc' \in {"csources", "delete", "ccompact", "compact"},
              UNCHANGED <<atSource, saved>>, cmd'.op = cmd.op, cmd'.files = cmd.files,
              cmd'.list = cmd.list, cmd'.new = cmd.new
       PROVE  LedgerInv'
  <2>1. Phases'
    BY <1>19 DEF LedgerInv, Phases
  <2> QED
    BY <1>19, <2>1, QuietStep
<1>20. ASSUME NEW s \in Source, CommitSource(s) PROVE LedgerInv'
  <2>1. /\ cmd'.op = cmd.op /\ cmd'.files = cmd.files /\ cmd'.list = cmd.list /\ cmd'.new = cmd.new
    BY <1>20, <1>a DEF CommitSource, Cmd
  <2> QED
    BY <1>19, <1>20, <2>1 DEF CommitSource
<1>21. ASSUME NEW r \in Record, pc = "delete", cmd.idx \in DOMAIN cmd.files, UNCHANGED <<saved, pc>>,
              cmd'.op = cmd.op, cmd'.mode = cmd.mode, cmd'.list = cmd.list, cmd'.new = cmd.new,
              cmd'.files = ReplaceAt(cmd.files, cmd.idx, r),
              r.file = Record1.file, r.pushed = Record1.pushed,
              Record1.committed => r.committed,
              r.committed => atSource'[r.file] = "deleted",
              \A f \in File : atSource'[f] = atSource[f] \/ (f \notin Report /\ atSource'[f] = "deleted")
       PROVE  LedgerInv'
  <2>1. cmd.list = {} /\ cmd.new = <<>> /\ cmd.op = "commit"
    BY <1>21 DEF LedgerInv, Phases
  <2>2. Phases'
    BY <1>21, <2>1 DEF Phases
  <2>3. Report \subseteq File
    BY ConstantsAssumption DEF ConstantsAssumption
  <2> QED
    BY <1>21, <2>1, <2>2, <2>3, MarkStep DEF Record1
<1>22. CASE CommitPass
  <2>1. pc = "delete" /\ cmd.idx \in DOMAIN cmd.files /\ UNCHANGED <<atSource, saved, pc>>
    BY <1>22 DEF CommitPass
  <2>2. /\ cmd'.op = cmd.op /\ cmd'.mode = cmd.mode /\ cmd'.list = cmd.list /\ cmd'.new = cmd.new
        /\ cmd'.files = ReplaceAt(cmd.files, cmd.idx, Seen(Record1, "Ok"))
    BY <1>22, <1>a DEF CommitPass, Cmd
  <2>3. /\ Seen(Record1, "Ok") \in Record
        /\ Seen(Record1, "Ok").file = Record1.file
        /\ Seen(Record1, "Ok").pushed = Record1.pushed
        /\ Seen(Record1, "Ok").committed = Record1.committed
    BY <1>a, <2>1 DEF Seen, Record, Record1
  <2>4. Record1.committed => atSource[Record1.file] = "deleted"
    BY <2>1 DEF Record1, LedgerInv, Truthful
  <2>5. PICK r \in Record : r = Seen(Record1, "Ok")
    BY <2>3
  <2>6. /\ cmd'.files = ReplaceAt(cmd.files, cmd.idx, r)
        /\ r.file = Record1.file /\ r.pushed = Record1.pushed /\ r.committed = Record1.committed
        /\ r.committed => atSource'[r.file] = "deleted"
        /\ \A f \in File : atSource'[f] = atSource[f]
    BY <2>1, <2>2, <2>3, <2>4, <2>5
  <2> QED
    BY <1>21, <2>1, <2>2, <2>6
<1>23. ASSUME NEW committed \in BOOLEAN, NEW result \in {"Ok", "Error"}, Deletes
       PROVE  /\ CommitOutcome(Record1, committed, result) \in Record
              /\ CommitOutcome(Record1, committed, result).file = Record1.file
              /\ CommitOutcome(Record1, committed, result).pushed = Record1.pushed
              /\ CommitOutcome(Record1, committed, result).committed = committed
  BY <1>23, <1>a DEF Deletes, CommitOutcome, Record, Record1
<1>24. CASE DeleteOk
  <2>1. /\ pc = "delete" /\ cmd.idx \in DOMAIN cmd.files /\ ~Record1.committed
        /\ UNCHANGED <<saved, pc>> /\ Deletes
    BY <1>24 DEF DeleteOk, Deletes
  <2>2. /\ cmd'.op = cmd.op /\ cmd'.mode = cmd.mode /\ cmd'.list = cmd.list /\ cmd'.new = cmd.new
        /\ cmd'.files = ReplaceAt(cmd.files, cmd.idx, CommitOutcome(Record1, TRUE, "Ok"))
    BY <1>24, <1>a DEF DeleteOk, Cmd
  <2>3. /\ atSource'[Record1.file] = "deleted"
        /\ \A f \in File : atSource'[f] = atSource[f] \/ (f \notin Report /\ atSource'[f] = "deleted")
    <3>1. Record1.file \in File /\ atSource \in [File -> {"unborn", "listed", "deleted"}]
      BY <1>a, <2>1 DEF TypeOK, Record1
    <3>2. Record1.file \notin Report /\ atSource' = [atSource EXCEPT ![Record1.file] = "deleted"]
      BY <1>24 DEF DeleteOk
    <3> QED
      BY <3>1, <3>2
  <2> QED
    BY <1>21, <1>23, <2>1, <2>2, <2>3
<1>25. CASE DeleteError
  <2>1. /\ pc = "delete" /\ cmd.idx \in DOMAIN cmd.files /\ ~Record1.committed
        /\ UNCHANGED <<saved, pc>> /\ Deletes
    BY <1>25 DEF DeleteError, Deletes
  <2>2. /\ cmd'.op = cmd.op /\ cmd'.mode = cmd.mode /\ cmd'.list = cmd.list /\ cmd'.new = cmd.new
        /\ cmd'.files = ReplaceAt(cmd.files, cmd.idx, CommitOutcome(Record1, FALSE, "Error"))
    BY <1>25, <1>a DEF DeleteError, Cmd
  <2>3. \A f \in File : atSource'[f] = atSource[f] \/ (f \notin Report /\ atSource'[f] = "deleted")
    <3>1. Record1.file \in File /\ atSource \in [File -> {"unborn", "listed", "deleted"}]
      BY <1>a, <2>1 DEF TypeOK, Record1
    <3>2. \/ atSource' = atSource
          \/ /\ Record1.file \notin Report
             /\ atSource' = [atSource EXCEPT ![Record1.file] = "deleted"]
      BY <1>25 DEF DeleteError
    <3> QED
      BY <3>1, <3>2
  <2> QED
    BY <1>21, <1>23, <2>1, <2>2, <2>3
<1>26. CASE CommitClose
  <2>1. cmd'.op = cmd.op /\ cmd'.files = cmd.files /\ cmd'.list = cmd.list /\ cmd'.new = cmd.new
    BY <1>26, <1>a DEF CommitClose, Cmd
  <2> QED
    BY <1>19, <1>26, <2>1 DEF CommitClose
<1>27. CASE CommitEnd
  BY <1>19, <1>27 DEF CommitEnd
<1>28. CASE CommitCompact
  BY <1>19, <1>28 DEF CommitCompact
<1>29. CASE Compact
  <2>1. CASE cmd.mode = "dry"
    BY <1>29, <2>1, ExitStep DEF Compact
  <2>2. CASE cmd.mode # "dry"
    <3>1. pc = "compact" /\ pc' = "save" /\ UNCHANGED <<atSource, saved, cmd>>
      BY <1>29, <2>2 DEF Compact
    <3>2. Phases'
      BY <2>2, <3>1 DEF LedgerInv, Phases
    <3> QED
      BY <3>1, <3>2, QuietStep
  <2> QED
    BY <2>1, <2>2
<1>30. CASE CompactError
  BY <1>30, ExitStep DEF CompactError
<1>31. CASE Save
  BY <1>31, SaveStep
<1>32. ASSUME NEW s \in Source, SkipSource(s) PROVE LedgerInv'
  <2>1. /\ cmd'.op = cmd.op /\ cmd'.mode = cmd.mode /\ cmd'.files = cmd.files
        /\ cmd'.list = cmd.list /\ cmd'.new = cmd.new
        /\ pc # "idle" /\ UNCHANGED <<atSource, saved, pc>>
    BY <1>32, <1>a DEF SkipSource, NoClient, Cmd
  <2>2. Phases'
    BY <2>1 DEF LedgerInv, Phases
  <2> QED
    BY <2>1, <2>2, QuietStep
<1>33. CASE SaveError
  BY <1>33, ExitStep DEF SaveError
<1>34. CASE Kill
  BY <1>34, ExitStep DEF Kill
<1>35. CASE UNCHANGED vars
  <2>1. UNCHANGED <<atSource, saved, cmd, pc>>
    BY <1>35 DEF vars
  <2>2. Phases' /\ ListingHolds'
    BY <2>1 DEF LedgerInv, Phases, ListingHolds
  <2>3. /\ Truthful(saved.files)' /\ Truthful(cmd.files)'
        /\ OneRecord(saved.files)' /\ OneRecord(cmd.files)'
    BY <2>1 DEF LedgerInv, Truthful, OneRecord
  <2>4. pc' # "idle" => IF cmd'.op = "pull"
                          THEN \A i \in DOMAIN saved'.files : Survives(saved.files[i], cmd.files)'
                          ELSE Marks(saved.files, cmd.files)'
    BY <2>1 DEF LedgerInv, Survives, Marks
  <2> QED
    BY <2>2, <2>3, <2>4 DEF LedgerInv
<1> QED
  BY <1>1, <1>2, <1>3, <1>4, <1>5, <1>6, <1>7, <1>8, <1>9, <1>10, <1>11, <1>14, <1>16, <1>17,
     <1>18, <1>20, <1>22, <1>24, <1>25, <1>26, <1>27, <1>28, <1>29, <1>30, <1>31, <1>32, <1>33,
     <1>34, <1>35, <1>36
  DEF Next, Pull, Push, Commit, Finish

(* The ledger invariant holds of every behavior, if Pull's key tells files   *)
(* apart (KeysDistinct), whatever fails.                                     *)
THEOREM LedgerFaithful ==
  ASSUME KeysDistinct
  PROVE  Spec => []LedgerInv
<1>1. Init => TypeOK /\ LedgerInv
  BY TypeInit, LedgerInit
<1>2. TypeOK /\ LedgerInv /\ [Next]_vars => TypeOK' /\ LedgerInv'
  BY TypeStep, LedgerStep
<1> QED
  BY <1>1, <1>2, PTL DEF Spec

-----------------------------------------------------------------------------
(* Action properties *)

(* Only ModifyConfig writes the records. *)
LEMMA OnlySaveSaves == [Next]_vars => UNCHANGED saved \/ Save
BY DEF Next, vars, Pull, Push, Commit, Finish, Produce, PullStart, PushStart, CommitStart, Start,
       PullSource, Download, PullAbort, PullMerge, PullReport, PullClose, PushPass, UploadOk,
       PushEnd, CommitSource, CommitPass, DeleteOk, DeleteError, CommitClose, CommitCompact,
       CommitEnd, Compact, CompactError, SkipSource, DownloadShort, UploadError, UploadUnsent, SaveError,
       Kill

(* Push and commit keep the number of records.                              *)
LEMMA SameDomain ==
  ASSUME TypeOK, Marks(saved.files, cmd.files)
  PROVE  DOMAIN cmd.files = DOMAIN saved.files
<1>1. cmd.files \in Seq(Record) /\ saved.files \in Seq(Record)
  BY DEF TypeOK, Cmd
<1>2. Len(cmd.files) = Len(saved.files)
  BY DEF Marks
<1> QED
  BY <1>1, <1>2, LenProperties

(* Saving drops a committed record only in a pull, and only if pushed.      *)
LEMMA CommittedStep == TypeOK /\ LedgerInv /\ Save =>
  \A i \in DOMAIN saved.files :
    saved.files[i].committed =>
      \/ Claims(saved'.files, saved.files[i].file, FALSE)
      \/ saved.files[i].pushed /\ cmd.op = "pull"
<1> SUFFICES ASSUME TypeOK, LedgerInv, Save, NEW i \in DOMAIN saved.files, saved.files[i].committed
             PROVE  \/ Claims(saved'.files, saved.files[i].file, FALSE)
                    \/ saved.files[i].pushed /\ cmd.op = "pull"
    OBVIOUS
<1>1. saved'.files = cmd.files /\ pc # "idle"
  BY DEF Save
<1>2. CASE cmd.op = "pull"
  <2>1. Survives(saved.files[i], cmd.files)
    BY <1>1, <1>2 DEF LedgerInv
  <2>2. atSource[saved.files[i].file] = "deleted"
    BY DEF LedgerInv, Truthful
  <2> QED
    BY <1>1, <1>2, <2>1, <2>2 DEF Survives, Claims
<1>3. CASE cmd.op # "pull"
  <2>1. Marks(saved.files, cmd.files)
    BY <1>1, <1>3 DEF LedgerInv
  <2>2. cmd.files[i].file = saved.files[i].file /\ cmd.files[i].committed
    BY <2>1 DEF Marks
  <2>3. i \in DOMAIN cmd.files
    BY <2>1, SameDomain
  <2> QED
    BY <1>1, <2>2, <2>3 DEF Claims
<1> QED
  BY <1>2, <1>3

(* A file that the config records as committed stays recorded, across every  *)
(* failed, killed or interleaved command, until a pull drops it, and then it *)
(* was pushed as well.                                                      *)
THEOREM CommitmentsKept ==
  ASSUME KeysDistinct
  PROVE  Spec => CommittedUntilDropped
<1>1. TypeOK /\ LedgerInv /\ [Next]_vars =>
        [\A i \in DOMAIN saved.files :
           saved.files[i].committed =>
             \/ Claims(saved'.files, saved.files[i].file, FALSE)
             \/ saved.files[i].pushed /\ cmd.op = "pull"]_vars
  <2>1. ASSUME UNCHANGED saved
        PROVE  \A i \in DOMAIN saved.files :
                 saved.files[i].committed => Claims(saved'.files, saved.files[i].file, FALSE)
    BY <2>1 DEF Claims
  <2> QED
    BY <2>1, OnlySaveSaves, CommittedStep
<1> QED
  BY <1>1, TypeCorrect, LedgerFaithful, PTL DEF Spec, CommittedUntilDropped

(* Saving takes a Pushed back only in a pull that lists the file anew.      *)
LEMMA PushedStep == TypeOK /\ LedgerInv /\ Save =>
  \A f \in File :
    Claims(saved.files, f, TRUE) /\ ~Claims(saved'.files, f, TRUE)
      => cmd.op = "pull" /\ (atSource[f] = "listed" \/ Claims(saved.files, f, FALSE))
<1> SUFFICES ASSUME TypeOK, LedgerInv, Save, NEW f \in File,
                    Claims(saved.files, f, TRUE), ~Claims(saved'.files, f, TRUE)
             PROVE  cmd.op = "pull" /\ (atSource[f] = "listed" \/ Claims(saved.files, f, FALSE))
    OBVIOUS
<1>1. saved'.files = cmd.files /\ pc # "idle"
  BY DEF Save
<1>2. PICK i \in DOMAIN saved.files : saved.files[i].file = f /\ saved.files[i].pushed
  BY DEF Claims
<1>3. ~\E j \in DOMAIN cmd.files : cmd.files[j].file = f /\ cmd.files[j].pushed
  BY <1>1 DEF Claims
<1>4. CASE cmd.op = "pull"
  <2>1. Survives(saved.files[i], cmd.files)
    BY <1>1, <1>4 DEF LedgerInv
  <2> QED
    BY <1>2, <1>3, <1>4, <2>1 DEF Survives, Claims
<1>5. CASE cmd.op # "pull"
  <2>1. Marks(saved.files, cmd.files)
    BY <1>1, <1>5 DEF LedgerInv
  <2>2. i \in DOMAIN cmd.files
    BY <2>1, SameDomain
  <2> QED
    BY <1>2, <1>3, <2>1, <2>2 DEF Marks
<1> QED
  BY <1>4, <1>5

(* A saved Pushed is only taken back by a pull, of a file that its source    *)
(* lists again or that is delivered and committed: no failed or killed       *)
(* command makes datactl upload a file twice.                               *)
THEOREM PushesKept ==
  ASSUME KeysDistinct
  PROVE  Spec => OnlyPullForgetsAPush
<1>1. TypeOK /\ LedgerInv /\ [Next]_vars =>
        [\A f \in File :
           Claims(saved.files, f, TRUE) /\ ~Claims(saved'.files, f, TRUE)
             => cmd.op = "pull" /\ (atSource[f] = "listed" \/ Claims(saved.files, f, FALSE))]_vars
  <2>1. ASSUME UNCHANGED saved
        PROVE  \A f \in File : Claims(saved.files, f, TRUE) => Claims(saved'.files, f, TRUE)
    BY <2>1 DEF Claims
  <2> QED
    BY <2>1, OnlySaveSaves, PushedStep
<1> QED
  BY <1>1, TypeCorrect, LedgerFaithful, PTL DEF Spec, OnlyPullForgetsAPush

(* A step of a dry-run push changes nothing but its own memory.             *)
LEMMA DryPushStep ==
  ASSUME TypeOK, LedgerInv, [Next]_vars, pc # "idle", cmd.op = "push", cmd.mode = "dry"
  PROVE  UNCHANGED <<accepted, unsent, tar, saved, DeletedFiles>>
<1>1. pc = "upload"
  BY DEF LedgerInv, Phases
<1>2. ASSUME NEW f \in File, Produce(f) PROVE UNCHANGED <<accepted, unsent, tar, saved, DeletedFiles>>
  BY <1>2 DEF Produce, DeletedFiles, TypeOK
<1>3. CASE PushPass \/ PushEnd
  BY <1>3 DEF PushPass, PushEnd, DeletedFiles
<1>4. ~UploadOk /\ ~UploadError /\ ~UploadUnsent
  BY DEF UploadOk, UploadError, UploadUnsent, Marked, MarkedFile
<1>5. ASSUME NEW s \in Source, SkipSource(s) PROVE FALSE
  BY <1>1, <1>5 DEF SkipSource, NoClient
<1>6. CASE Kill
  BY <1>1, <1>6 DEF Kill, DeletedFiles
<1>7. CASE UNCHANGED vars
  BY <1>7 DEF vars, DeletedFiles
<1> QED
  BY <1>1, <1>2, <1>3, <1>4, <1>5, <1>6, <1>7
  DEF Next, Pull, Push, Commit, Finish, PullStart, PushStart, CommitStart, Start, PullSource,
      Download, PullAbort, PullMerge, PullReport, PullClose, CommitSource, CommitPass, DeleteOk,
      DeleteError, Deletes, CommitClose, CommitCompact, CommitEnd, Compact, CompactError, Save,
      DownloadShort, SaveError

(* `push --dry-run` takes no action: nothing is uploaded, deleted, rewritten *)
(* or saved, whatever else happens.                                         *)
THEOREM DryPushInert ==
  ASSUME KeysDistinct
  PROVE  Spec => DryPushTakesNoAction
<1>1. TypeOK /\ LedgerInv /\ [Next]_vars =>
        [pc # "idle" /\ cmd.op = "push" /\ cmd.mode = "dry"
           => UNCHANGED <<accepted, unsent, tar, saved, DeletedFiles>>]_vars
  BY DryPushStep
<1> QED
  BY <1>1, TypeCorrect, LedgerFaithful, PTL DEF Spec, DryPushTakesNoAction
=============================================================================
