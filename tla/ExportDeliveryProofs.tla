-------------------------- MODULE ExportDeliveryProofs --------------------------
(***************************************************************************)
(* Custody: whatever commands run, fail and are killed, in whatever order,  *)
(* no metering file is deleted at its source that is neither delivered nor  *)
(* kept for delivery nor taken for sent by an upload that sent nothing, and *)
(* the lifecycle implements the custody contract.  For any number of files, *)
(* sources, records and faults, under the hypotheses named first.           *)
(***************************************************************************)
EXTENDS ExportLifecycleProofs, WellFoundedInduction

(* No fault cuts into the bundle, so that an entry once written stays whole:  *)
(* no download carries more than its file lists, none leaves a bare header,   *)
(* the process does not die between the first write of a pull and Close, and  *)
(* Compact reads to the end what it copies.                                   *)
WholeWrites ==
  "oversize" \notin Faults /\ "cut" \notin Cuts /\ "tear" \notin Faults /\ "trim" \notin Faults

(* A DataService's file shares its name, by which the bundle knows entries    *)
(* and push finds records, with no other file.  Reports may share theirs.     *)
NamesDistinct == \A f \in File \ Report, g \in File : NameOf[f] = NameOf[g] => f = g

-----------------------------------------------------------------------------
(* The inductive invariant, in parts *)

Whole(es) == \A i \in DOMAIN es : es[i].good

(* The bundle has intact entries only.  It has no trailer only while the pull *)
(* that writes it runs; an entry that is cut short fails that pull.           *)
BundleSound ==
  /\ Whole(tar.entries) /\ Whole(cmd.walk)
  /\ tar.tail # "cut"
  /\ tar.tail = "open" => pc \in {"sources", "download"} /\ cmd.wrote
  /\ cmd.closed => pc \notin {"sources", "download"}
  /\ cmd.short => pc \in {"sources", "download"} /\ tar.tail \in {"stub", "torn"}
  /\ pc = "save" => tar.tail = "sealed"

HasEntry(f) == \E i \in DOMAIN tar.entries : NameOf[tar.entries[i].file] = NameOf[f]

(* What a mark Pushed on a record of f rests on.                              *)
Backed(f) == \E g \in Namesakes(f) : Delivered(g) \/ g \in unsent

(* Whatever a record marks Pushed was delivered, or an upload sent nothing    *)
(* and passed for a success; a download is marked by nobody.                  *)
MarksTrue ==
  /\ \A i \in DOMAIN saved.files : saved.files[i].pushed => Backed(saved.files[i].file)
  /\ \A i \in DOMAIN cmd.files : cmd.files[i].pushed => Backed(cmd.files[i].file)
  /\ \A k \in DOMAIN cmd.new : ~cmd.new[k].pushed

(* A record of g does for one of f: it is f, or a report of the same name.    *)
Stands(g, f) == g = f \/ (g \in Report /\ f \in Report /\ NameOf[g] = NameOf[f])

Settled(r) == r.pushed /\ r.committed

(* A running pull has a record for every file the config awaits, and no other *)
(* unpushed records but of files that their source lists.                     *)
PullAgrees ==
  cmd.op = "pull" /\ pc # "idle" =>
    /\ \A i \in DOMAIN saved.files :
         ~saved.files[i].pushed =>
           \E j \in DOMAIN cmd.files :
             Stands(cmd.files[j].file, saved.files[i].file) /\ ~Settled(cmd.files[j])
    /\ \A j \in DOMAIN cmd.files :
         ~cmd.files[j].pushed => Awaited(cmd.files[j].file) \/ atSource[cmd.files[j].file] = "listed"

(* Every file that is awaited has an entry of its name, and so has every file that a     *)
(* running pull will make awaited, unless that pull is bound to fail.         *)
EntriesKept ==
  /\ saved.named \/ saved.files = <<>>
  /\ \A i \in DOMAIN saved.files : ~saved.files[i].pushed => HasEntry(saved.files[i].file)
  /\ cmd.op = "pull" /\ pc # "idle" /\ ~cmd.short /\ tar.tail # "torn" =>
       /\ \A j \in DOMAIN cmd.files : ~cmd.files[j].pushed => HasEntry(cmd.files[j].file)
       /\ \A k \in DOMAIN cmd.new : HasEntry(cmd.new[k].file)

(* A file that was deleted at its source is delivered, awaited or unsent.     *)
Kept ==
  \A f \in File : atSource[f] = "deleted" => Delivered(f) \/ Awaited(f) \/ f \in unsent

EntriesInv == BundleSound /\ MarksTrue /\ PullAgrees /\ EntriesKept

CustodyInv == EntriesInv /\ Kept

-----------------------------------------------------------------------------
(* Indexes, entries and compactions *)

(* A set of indexes that is not empty has a last one. *)
LEMMA LastIndex ==
  ASSUME NEW S, NEW s \in Seq(S), NEW I \in SUBSET DOMAIN s, I # {}
  PROVE  \E i \in I : \A j \in I : ~(j > i)
<1> DEFINE n == Len(s)
           Below == {k \in Nat : n - k \in I}
<1>1. n \in Nat /\ \A i \in I : i \in Nat /\ i <= n
  OBVIOUS
<1>2. Below \subseteq Nat /\ Below # {}
  <2>1. PICK i \in I : TRUE
    OBVIOUS
  <2>2. n - i \in Nat /\ n - (n - i) = i
    BY <1>1, <2>1
  <2> QED
    BY <2>1, <2>2
<1>3. PICK k \in Below : \A m \in Below : ~(<<m, k>> \in OpToRel(<, Nat))
  <2> HIDE DEF Below
  <2> QED
    BY <1>2, NatLessThanWellFounded, WFMin
<1>4. \A m \in Below : ~(m < k)
  BY <1>3 DEF OpToRel
<1>5. ASSUME NEW j \in I PROVE ~(j > n - k)
  <2>1. n - j \in Nat /\ n - (n - j) = j /\ k \in Nat
    BY <1>1
  <2>2. ~(n - j < k)
    BY <1>4, <2>1
  <2> QED
    BY <1>1, <2>1, <2>2
<1> QED
  BY <1>5

(* In a sound bundle a complete entry is appended, or, if the bundle is torn *)
(* already, nothing changes.                                                *)
LEMMA WrittenWhole ==
  ASSUME NEW b \in Bundle, NEW wrote \in BOOLEAN, NEW e \in Entry,
         b.tail # "cut", b.tail = "open" => wrote
  PROVE  IF b.tail = "torn" THEN Written(b, wrote, e) = b
                            ELSE Written(b, wrote, e) = [entries |-> Append(b.entries, e), tail |-> "open"]
BY DEF Written, Base, Misplaced

(* In a sound bundle an entry that is cut short leaves the others alone.    *)
LEMMA CutShortWhole ==
  ASSUME WholeWrites, NEW b \in Bundle, NEW wrote \in BOOLEAN, NEW t \in CutTails(b, wrote),
         b.tail # "cut", b.tail = "open" => wrote
  PROVE  /\ CutShort(b, wrote, t) = [b EXCEPT !.tail = t]
         /\ t \in {"stub", "torn"}
         /\ b.tail = "torn" => t = "torn"
BY ConstantsAssumption DEF ConstantsAssumption, WholeWrites, CutShort, CutTails, Base, Misplaced

(* Closing a sound bundle keeps its entries, and a torn one stays torn.     *)
LEMMA SealedWhole ==
  ASSUME NEW b \in Bundle, NEW wrote \in BOOLEAN, b.tail # "cut", b.tail = "open" => wrote
  PROVE  /\ Sealed(b, wrote).entries = b.entries
         /\ Sealed(b, wrote).tail \notin {"cut", "open"}
         /\ b.tail = "torn" <=> Sealed(b, wrote).tail = "torn"
BY DEF Sealed, Misplaced, Bundle, Tails

(* A compaction keeps intact entries intact, and of every name it is given   *)
(* an entry.                                                                *)
LEMMA CompactionKeeps ==
  ASSUME NEW es \in Seq(Entry), NEW names, NEW c \in Compactions(es, names)
  PROVE  /\ Whole(es) => Whole(c)
         /\ \A k \in DOMAIN c : \E i \in DOMAIN es : c[k] = es[i]
         /\ \A i \in DOMAIN es : NameOf[es[i].file] \in names =>
              \E k \in DOMAIN c : NameOf[c[k].file] = NameOf[es[i].file]
<1> DEFINE K == KeptIndexes(es, names)
<1>1. PICK s \in SetToSeqs(K) : c = [k \in DOMAIN s |-> es[s[k]]]
  BY DEF Compactions
<1>2. K \subseteq DOMAIN es /\ IsFiniteSet(K)
  <2>1. DOMAIN es = 1..Len(es) /\ Len(es) \in Nat
    OBVIOUS
  <2>2. IsFiniteSet(DOMAIN es)
    BY <2>1, FS_Interval
  <2>3. K \subseteq DOMAIN es
    BY DEF KeptIndexes
  <2> HIDE DEF K
  <2> QED
    BY <2>2, <2>3, FS_Subset
<1>3. s \in Seq(K) /\ \A x \in K : \E k \in DOMAIN s : s[k] = x
  BY <1>2, Arrangement
<1>4. DOMAIN c = DOMAIN s /\ \A k \in DOMAIN s : s[k] \in K /\ c[k] = es[s[k]]
  BY <1>1, <1>3
<1>5. \A k \in DOMAIN c : \E i \in DOMAIN es : c[k] = es[i]
  BY <1>2, <1>4
<1>6. Whole(es) => Whole(c)
  BY <1>5 DEF Whole
<1>7. ASSUME NEW i \in DOMAIN es, NameOf[es[i].file] \in names
      PROVE  \E k \in DOMAIN c : NameOf[c[k].file] = NameOf[es[i].file]
  <2> DEFINE I == {j \in DOMAIN es : NameOf[es[j].file] = NameOf[es[i].file]}
  <2>1. I # {} /\ I \in SUBSET DOMAIN es
    OBVIOUS
  <2>2. PICK j \in I : \A m \in I : ~(m > j)
    <3> HIDE DEF I
    <3> QED
      BY <2>1, LastIndex
  <2>3. j \in K
    BY <1>7, <2>2 DEF KeptIndexes, EntryName
  <2>4. NameOf[es[j].file] = NameOf[es[i].file]
    BY <2>2
  <2> QED
    BY <1>3, <1>4, <2>3, <2>4
<1> QED
  BY <1>5, <1>6, <1>7

-----------------------------------------------------------------------------
(* The bundle *)

(* A compaction that is not trimmed is one of Compactions. *)
LEMMA CompactsWhole ==
  ASSUME WholeWrites, TypeOK, Compacts
  PROVE  /\ tar'.entries \in Compactions(tar.entries, CompactNames)
         /\ tar'.tail = "sealed"
<1>0. PICK es \in Compactions(tar.entries, CompactNames) : \E n \in 0..Len(es) :
        /\ IF n = Len(es) THEN UNCHANGED faults ELSE Fault("trim")
        /\ tar' = [entries |-> SubSeq(es, 1, n), tail |-> "sealed"]
  BY DEF Compacts
<1>1. PICK n \in 0..Len(es) :
        /\ IF n = Len(es) THEN UNCHANGED faults ELSE Fault("trim")
        /\ tar' = [entries |-> SubSeq(es, 1, n), tail |-> "sealed"]
  BY <1>0
<1>2. n = Len(es)
  BY <1>1 DEF Fault, WholeWrites
<1>3. es \in Seq(Entry)
  BY CompactionType DEF TypeOK, Bundle
<1>4. SubSeq(es, 1, n) = es
  BY <1>2, <1>3, SubSeqFull
<1> QED
  BY <1>1, <1>4

(* Every step keeps the bundle sound. *)
LEMMA BundleStep == WholeWrites /\ TypeOK /\ BundleSound /\ [Next]_vars => BundleSound'
<1> SUFFICES ASSUME WholeWrites, TypeOK, BundleSound, [Next]_vars
             PROVE  BundleSound'
    OBVIOUS
<1>a. /\ cmd \in Cmd /\ tar \in Bundle /\ tar' \in Bundle /\ cmd.wrote \in BOOLEAN
      /\ tar.entries \in Seq(Entry)
  BY TypeStep DEF TypeOK, Cmd, Bundle
<1>1. ASSUME NEW f \in File, Produce(f) PROVE BundleSound'
  BY <1>1 DEF Produce, BundleSound
<1>2. ASSUME NEW op, NEW mode, NEW at, NEW S, Start(op, mode, at, S),
             at \in {"sources", "upload", "csources"}, pc = "idle"
      PROVE  BundleSound'
  <2>1. /\ cmd'.wrote = FALSE /\ cmd'.short = FALSE /\ cmd'.closed = FALSE
        /\ cmd'.walk = <<>> \/ cmd'.walk = tar'.entries
        /\ tar' = tar \/ tar' = Empty
        /\ pc' = at
    BY <1>2 DEF Start, NoCmd
  <2>2. Whole(<<>>)
    BY DEF Whole
  <2> QED
    BY <1>2, <2>1, <2>2 DEF BundleSound, Empty
<1>3. ASSUME NEW type, NEW name, PullStart(Selected(type, name)) PROVE BundleSound'
  BY <1>2, <1>3 DEF PullStart, Start
<1>4. ASSUME NEW mode \in Mode, PushStart(mode) PROVE BundleSound'
  BY <1>2, <1>4 DEF PushStart, Start
<1>5. ASSUME NEW mode \in {"normal", "dry"}, CommitStart(mode) PROVE BundleSound'
  BY <1>2, <1>5 DEF CommitStart, Start
<1>6. ASSUME NEW s \in Source, PullSource(s) PROVE BundleSound'
  BY <1>a, <1>6 DEF PullSource, BundleSound, Cmd
<1>7. ASSUME NEW e \in Entry, e.good, tar' = Written(tar, cmd.wrote, e),
             pc' \in {"sources", "download"}, cmd'.wrote = TRUE, cmd'.closed = FALSE,
             cmd'.short = FALSE, cmd'.walk = cmd.walk
      PROVE  BundleSound'
  <2>1. Whole(Append(tar.entries, e))
    BY <1>a, <1>7, AppendProperties DEF BundleSound, Whole
  <2>2. CASE tar.tail = "torn"
    BY <1>a, <1>7, <2>2, WrittenWhole DEF BundleSound
  <2>3. CASE tar.tail # "torn"
    <3>1. tar'.entries = Append(tar.entries, e) /\ tar'.tail = "open"
      BY <1>a, <1>7, <2>3, WrittenWhole DEF BundleSound
    <3> QED
      BY <1>7, <2>1, <3>1 DEF BundleSound
  <2> QED
    BY <2>2, <2>3
<1>8. ASSUME NEW f \in File, Download(f) PROVE BundleSound'
  <2>1. tar' = Written(tar, cmd.wrote, [file |-> f, good |-> TRUE])
    BY <1>8 DEF Download, Fault, WholeWrites
  <2>2. /\ pc' = "download" /\ cmd'.wrote = TRUE /\ cmd'.closed = cmd.closed
        /\ cmd'.short = FALSE /\ cmd'.walk = cmd.walk /\ cmd.closed = FALSE
    BY <1>a, <1>8 DEF Download, Cmd, BundleSound
  <2>3. [file |-> f, good |-> TRUE] \in Entry
    BY DEF Entry
  <2> QED
    BY <1>7, <2>1, <2>2, <2>3
<1>9. ASSUME NEW f \in File, DownloadShort(f) PROVE BundleSound'
  <2>1. PICK t \in CutTails(tar, cmd.wrote) : tar' = CutShort(tar, cmd.wrote, t)
    BY <1>9 DEF DownloadShort
  <2>2. /\ pc = "download" /\ pc' = "download"
        /\ cmd'.walk = cmd.walk /\ cmd'.closed = cmd.closed
    BY <1>a, <1>9 DEF DownloadShort, Cmd
  <2>3. tar'.entries = tar.entries /\ tar'.tail \in {"stub", "torn"}
    BY <1>a, <2>1, CutShortWhole DEF BundleSound, Bundle
  <2> QED
    BY <2>2, <2>3 DEF BundleSound
<1>10. CASE PullAbort
  BY <1>a, <1>10 DEF PullAbort, Cmd, BundleSound
<1>11. CASE PullMerge
  <2>1. /\ cmd'.walk = cmd.walk /\ cmd'.wrote = cmd.wrote /\ cmd'.closed = cmd.closed
        /\ cmd'.short = cmd.short /\ pc' = "sources" /\ pc = "download" /\ tar' = tar
    BY <1>a, <1>11 DEF PullMerge, Cmd
  <2> QED
    BY <2>1 DEF BundleSound
<1>12. ASSUME NEW f \in File, PullReport(f) PROVE BundleSound'
  <2>1. pc = "sources" /\ pc' = "sources"
    BY <1>12 DEF PullReport
  <2>2. CASE cmd.short
    <3>1. /\ cmd'.walk = cmd.walk /\ cmd'.wrote = cmd.wrote /\ cmd'.closed = cmd.closed
          /\ cmd'.short = cmd.short /\ tar' = tar
      BY <1>a, <1>12, <2>2 DEF PullReport, Cmd
    <3> QED
      BY <2>1, <3>1 DEF BundleSound
  <2>3. CASE ~cmd.short
    <3>1. /\ tar' = Written(tar, cmd.wrote, [file |-> f, good |-> TRUE])
          /\ cmd'.walk = cmd.walk /\ cmd'.wrote = TRUE /\ cmd'.closed = cmd.closed
          /\ cmd'.short = FALSE /\ cmd.closed = FALSE
      BY <1>a, <1>12, <2>3 DEF PullReport, Cmd, BundleSound
    <3>2. [file |-> f, good |-> TRUE] \in Entry
      BY DEF Entry
    <3> QED
      BY <1>7, <2>1, <3>1, <3>2
  <2> QED
    BY <2>2, <2>3
<1>13. ASSUME Exit, tar'.entries = tar.entries, tar'.tail \in {"sealed", "stub", "torn"}
       PROVE  BundleSound'
  BY <1>13 DEF Exit, NoCmd, BundleSound, Whole
<1>14. ASSUME Exit, tar' = tar, pc \notin {"sources", "download"} \/ cmd.short
       PROVE  BundleSound'
  <2>1. tar.tail \in {"sealed", "stub", "torn"}
    BY <1>a, <1>14 DEF BundleSound, Bundle, Tails
  <2> QED
    BY <1>13, <1>14, <2>1
<1>15. ASSUME tar' = Sealed(tar, cmd.wrote), cmd'.walk = cmd.walk, cmd'.short = FALSE,
              pc' \notin {"sources", "download", "save"}
       PROVE  BundleSound'
  <2>1. tar'.entries = tar.entries /\ tar'.tail \notin {"cut", "open"}
    BY <1>a, <1>15, SealedWhole DEF BundleSound
  <2> QED
    BY <1>15, <2>1 DEF BundleSound
<1>16. CASE PullClose
  <2>1. CASE cmd.short
    BY <1>14, <1>16, <2>1 DEF PullClose
  <2>2. CASE ~cmd.short
    <3>1. /\ tar' = Sealed(tar, cmd.wrote) /\ pc' = "compact"
          /\ cmd'.walk = cmd.walk /\ cmd'.short = FALSE
      BY <1>a, <1>16, <2>2 DEF PullClose, Cmd
    <3> QED
      BY <1>15, <3>1
  <2> QED
    BY <2>1, <2>2
<1>17. ASSUME UNCHANGED <<tar, pc>>, cmd'.walk = cmd.walk, cmd'.wrote = cmd.wrote,
              cmd'.closed = cmd.closed, cmd'.short = cmd.short
       PROVE  BundleSound'
  BY <1>17 DEF BundleSound
<1>18. CASE PushPass
  BY <1>a, <1>17, <1>18 DEF PushPass, Cmd
<1>19. ASSUME NEW pushed, NEW result, Marked(pushed, result)
       PROVE  /\ cmd'.walk = cmd.walk /\ cmd'.wrote = cmd.wrote
              /\ cmd'.closed = cmd.closed /\ cmd'.short = cmd.short
  BY <1>a, <1>19 DEF Marked, MarkedFile, Cmd
<1>20. CASE UploadOk
  BY <1>17, <1>19, <1>20 DEF UploadOk
<1>21. CASE UploadError
  BY <1>17, <1>19, <1>21 DEF UploadError
<1>38. CASE UploadUnsent
  BY <1>17, <1>19, <1>38 DEF UploadUnsent
<1>22. CASE PushEnd
  <2>1. CASE Exit
    BY <1>14, <1>22, <2>1 DEF PushEnd
  <2>2. CASE ~Exit
    BY <1>22, <2>2 DEF PushEnd, BundleSound
  <2> QED
    BY <2>1, <2>2
<1>23. ASSUME NEW s \in Source, CommitSource(s) PROVE BundleSound'
  BY <1>a, <1>23 DEF CommitSource, Cmd, BundleSound
<1>24. CASE CommitPass
  BY <1>a, <1>17, <1>24 DEF CommitPass, Cmd
<1>25. CASE DeleteOk
  BY <1>a, <1>17, <1>25 DEF DeleteOk, Cmd
<1>26. CASE DeleteError
  BY <1>a, <1>17, <1>26 DEF DeleteError, Cmd
<1>27. CASE CommitClose
  <2>1. CASE cmd.closed
    BY <1>27, <2>1 DEF CommitClose, BundleSound
  <2>2. CASE ~cmd.closed
    <3>1. /\ tar' = Sealed(tar, cmd.wrote) /\ pc' = "ccompact"
          /\ cmd'.walk = cmd.walk /\ cmd'.short = FALSE
      BY <1>a, <1>27, <2>2 DEF CommitClose, Cmd, BundleSound
    <3> QED
      BY <1>15, <3>1
  <2> QED
    BY <2>1, <2>2
<1>28. ASSUME Compacts PROVE Whole(tar'.entries) /\ tar'.tail = "sealed"
  BY <1>a, <1>28, CompactsWhole, CompactionKeeps DEF BundleSound
<1>29. CASE CommitCompact
  BY <1>28, <1>29 DEF CommitCompact, BundleSound
<1>30. CASE CommitEnd
  BY <1>30 DEF CommitEnd, BundleSound
<1>31. CASE Compact
  <2>1. Whole(tar'.entries) /\ tar'.tail = "sealed"
    BY <1>28, <1>31 DEF Compact
  <2>2. CASE Exit
    BY <2>1, <2>2 DEF Exit, NoCmd, BundleSound, Whole
  <2>3. CASE ~Exit
    BY <1>31, <2>1, <2>3 DEF Compact, BundleSound
  <2> QED
    BY <2>2, <2>3
<1>32. CASE CompactError
  <2>1. CASE tar' = tar
    BY <1>14, <1>32, <2>1 DEF CompactError
  <2>2. CASE tar' = Sealed(tar, cmd.wrote)
    <3>1. tar'.entries = tar.entries /\ tar'.tail \notin {"cut", "open"}
      BY <1>a, <2>2, SealedWhole DEF BundleSound
    <3> QED
      BY <1>a, <1>13, <1>32, <3>1 DEF CompactError, Bundle, Tails
  <2> QED
    BY <1>32, <2>1, <2>2 DEF CompactError
<1>33. CASE Save
  BY <1>14, <1>33 DEF Save
<1>34. CASE SaveError
  BY <1>14, <1>34 DEF SaveError
<1>35. ASSUME NEW s \in Source, SkipSource(s) PROVE BundleSound'
  BY <1>a, <1>17, <1>35 DEF SkipSource, NoClient, Cmd
<1>36. CASE Kill
  <2>1. Exit
    BY <1>36 DEF Kill
  <2>2. CASE tar' = tar /\ ~(cmd.wrote /\ ~cmd.closed)
    <3>1. tar.tail \in {"sealed", "stub", "torn"}
      BY <1>a, <2>2 DEF BundleSound, Bundle, Tails
    <3> QED
      BY <1>13, <2>1, <2>2, <3>1
  <2>3. ASSUME NEW t \in CutTails(tar, cmd.wrote), tar' = CutShort(tar, cmd.wrote, t)
        PROVE  BundleSound'
    <3>1. tar'.entries = tar.entries /\ tar'.tail \in {"stub", "torn"}
      BY <1>a, <2>3, CutShortWhole DEF BundleSound, Bundle
    <3> QED
      BY <1>13, <2>1, <3>1
  <2> QED
    BY <1>36, <2>2, <2>3 DEF Kill, Fault, WholeWrites
<1>37. CASE UNCHANGED vars
  BY <1>17, <1>37 DEF vars
<1> QED
  BY <1>1, <1>3, <1>4, <1>5, <1>6, <1>8, <1>9, <1>10, <1>11, <1>12, <1>16, <1>18, <1>20, <1>21,
     <1>22, <1>23, <1>24, <1>25, <1>26, <1>27, <1>29, <1>30, <1>31, <1>32, <1>33, <1>34, <1>35,
     <1>36, <1>37, <1>38
  DEF Next, Pull, Push, Commit, Finish

-----------------------------------------------------------------------------
(* The marks *)

(* The marketplace forgets nothing, and a mistake is not undone. *)
LEMMA OutcomesGrow == [Next]_vars => accepted \subseteq accepted' /\ unsent \subseteq unsent'
BY DEF Next, vars, Pull, Push, Commit, Finish, Produce, PullStart, PushStart, CommitStart, Start,
       PullSource, Download, PullAbort, PullMerge, PullReport, PullClose, PushPass, UploadOk,
       PushEnd, CommitSource, CommitPass, DeleteOk, DeleteError, CommitClose, CommitCompact,
       CommitEnd, Compact, CompactError, SkipSource, DownloadShort, UploadError, UploadUnsent,
       SaveError, Kill, Save

(* Every step keeps the marks true. *)
LEMMA MarksStep == TypeOK /\ BundleSound /\ MarksTrue /\ [Next]_vars => MarksTrue'
<1> SUFFICES ASSUME TypeOK, BundleSound, MarksTrue, [Next]_vars
             PROVE  MarksTrue'
    OBVIOUS
<1>a. /\ cmd \in Cmd /\ cmd.files \in Seq(Record) /\ cmd.new \in Seq(Record)
      /\ cmd.walk \in Seq(Entry)
  BY DEF TypeOK, Cmd
<1>b. \A i \in DOMAIN cmd.files : cmd.files[i] \in Record
  BY <1>a
<1> DEFINE Sent(g) == [file |-> g, good |-> TRUE] \in accepted' \/ g \in unsent'
           Given(f) == \E g \in Namesakes(f) : Sent(g)
<1>c. \A f : Backed(f) => Given(f)
  BY OutcomesGrow DEF Backed, Delivered
<1>f. \A f : Backed(f)' <=> Given(f)
  BY DEF Backed, Delivered, Namesakes
<1> HIDE DEF Given
<1>d. \A i \in DOMAIN saved'.files : saved'.files[i].pushed => Given(saved'.files[i].file)
  <2>1. CASE UNCHANGED saved
    BY <1>c, <2>1 DEF MarksTrue
  <2>2. CASE Save
    BY <1>c, <2>2 DEF MarksTrue, Save
  <2> QED
    BY <2>1, <2>2, OnlySaveSaves
<1>e. /\ \A i \in DOMAIN saved.files :
           saved.files[i].pushed => Given(saved.files[i].file)
      /\ \A i \in DOMAIN cmd.files :
           cmd.files[i].pushed => Given(cmd.files[i].file)
  BY <1>c DEF MarksTrue
<1>1. ASSUME cmd'.files = cmd.files \/ cmd'.files = saved.files \/ cmd'.files = <<>>,
             cmd'.new = cmd.new \/ cmd'.new = <<>>
      PROVE  MarksTrue'
  <2>1. \A i \in DOMAIN cmd'.files : cmd'.files[i].pushed => Given(cmd'.files[i].file)
    BY <1>e, <1>1
  <2>2. \A k \in DOMAIN cmd'.new : ~cmd'.new[k].pushed
    BY <1>1 DEF MarksTrue
  <2> QED
    BY <1>d, <1>f, <2>1, <2>2 DEF MarksTrue
<1>2. ASSUME NEW op, NEW mode, NEW at, NEW S, Start(op, mode, at, S)
      PROVE  MarksTrue'
  <2>1. cmd'.files = saved.files /\ cmd'.new = <<>>
    BY <1>2 DEF Start, NoCmd
  <2> QED
    BY <1>1, <2>1
<1>3. ASSUME Exit PROVE MarksTrue'
  BY <1>1, <1>3 DEF Exit, NoCmd
<1>4. ASSUME NEW f \in File, NEW r, cmd'.files = cmd.files,
             cmd'.new = Append(cmd.new, NewRecord(f, r)), r \in {"Ok", "Error"}
      PROVE  MarksTrue'
  <2>1. NewRecord(f, r) \in Record /\ ~NewRecord(f, r).pushed
    BY <1>4, NewRecordType DEF NewRecord
  <2>2. \A k \in DOMAIN cmd'.new : ~cmd'.new[k].pushed
    BY <1>a, <1>4, <2>1, AppendProperties DEF MarksTrue
  <2>3. \A i \in DOMAIN cmd'.files : cmd'.files[i].pushed => Given(cmd'.files[i].file)
    BY <1>e, <1>4
  <2> QED
    BY <1>d, <1>f, <2>2, <2>3 DEF MarksTrue
<1>5. ASSUME NEW i \in DOMAIN cmd.files, NEW r \in Record, cmd'.files = ReplaceAt(cmd.files, i, r),
             cmd'.new = cmd.new, r.pushed => Given(r.file)
      PROVE  MarksTrue'
  <2>a. PICK rs \in Seq(Record) : rs = cmd.files
    BY <1>a
  <2>b. i \in DOMAIN rs
    BY <2>a
  <2>c. /\ DOMAIN ReplaceAt(rs, i, r) = DOMAIN rs
        /\ \A j \in DOMAIN rs : ReplaceAt(rs, i, r)[j] = IF j = i THEN r ELSE rs[j]
    <3> HIDE <2>a
    <3> QED
      BY <2>b, RecordUpdate
  <2>1. /\ DOMAIN cmd'.files = DOMAIN cmd.files
        /\ \A j \in DOMAIN cmd.files : cmd'.files[j] = IF j = i THEN r ELSE cmd.files[j]
    BY <1>5, <2>a, <2>c
  <2>2. \A j \in DOMAIN cmd'.files : cmd'.files[j].pushed => Given(cmd'.files[j].file)
    BY <1>e, <1>5, <2>1
  <2>3. \A k \in DOMAIN cmd'.new : ~cmd'.new[k].pushed
    BY <1>5 DEF MarksTrue
  <2> QED
    BY <1>d, <1>f, <2>2, <2>3 DEF MarksTrue
<1>6. ASSUME NEW s \in Source, PullSource(s) PROVE MarksTrue'
  BY <1>a, <1>1, <1>6 DEF PullSource, Cmd
<1>7. ASSUME NEW f \in File, Download(f) PROVE MarksTrue'
  <2>1. PICK r \in {"Ok", "Error"} :
          cmd' = [cmd EXCEPT !.list = @ \ {f}, !.wrote = TRUE, !.new = Append(@, NewRecord(f, r))]
    BY <1>7 DEF Download
  <2>2. cmd'.files = cmd.files /\ cmd'.new = Append(cmd.new, NewRecord(f, r))
    BY <1>a, <2>1 DEF Cmd
  <2> QED
    BY <1>4, <2>2
<1>8. ASSUME NEW f \in File, DownloadShort(f) PROVE MarksTrue'
  <2>1. PICK r \in {"Ok", "Error"} :
          cmd' = [cmd EXCEPT !.list = @ \ {f}, !.wrote = TRUE, !.short = TRUE,
                             !.new = Append(@, NewRecord(f, r))]
    BY <1>8 DEF DownloadShort
  <2>2. cmd'.files = cmd.files /\ cmd'.new = Append(cmd.new, NewRecord(f, r))
    BY <1>a, <2>1 DEF Cmd
  <2> QED
    BY <1>4, <2>2
<1>9. CASE PullAbort
  BY <1>a, <1>1, <1>9 DEF PullAbort, Cmd
<1>10. CASE PullMerge
  <2>1. PICK rs \in SetToSeqs(MergedRecords(cmd.files, cmd.new)) :
          cmd' = [cmd EXCEPT !.files = rs, !.new = <<>>, !.src = NoSource]
    BY <1>10 DEF PullMerge
  <2>2. cmd'.files = rs /\ cmd'.new = <<>>
    BY <1>a, <2>1 DEF Cmd
  <2>3. rs \in Seq(MergedRecords(cmd.files, cmd.new))
    BY <1>a, MergeType, Arrangement
  <2>a. \A i \in DOMAIN rs : rs[i] \in MergedRecords(cmd.files, cmd.new)
    BY <2>3
  <2>4. \A i \in DOMAIN rs : (\E j \in DOMAIN cmd.files : rs[i] = cmd.files[j])
                               \/ (\E k \in DOMAIN cmd.new : rs[i] = cmd.new[k])
    BY <1>a, <2>a, MergeSource
  <2>5. \A i \in DOMAIN rs : rs[i].pushed => Backed(rs[i].file)
    BY <2>4 DEF MarksTrue
  <2>6. \A i \in DOMAIN cmd'.files : cmd'.files[i].pushed => Given(cmd'.files[i].file)
    BY <1>c, <2>2, <2>5
  <2> QED
    BY <1>d, <1>f, <2>2, <2>6 DEF MarksTrue
<1>11. ASSUME NEW f \in File, PullReport(f) PROVE MarksTrue'
  <2>a. PICK r \in Record : r = NewRecord(f, "")
    BY NewRecordType
  <2>b. ~r.pushed
    BY <2>a DEF NewRecord
  <2>1. cmd'.new = cmd.new /\ (cmd'.files = cmd.files \/ cmd'.files = Append(cmd.files, r))
    BY <1>a, <1>11, <2>a DEF PullReport, Cmd
  <2>2. CASE cmd'.files = cmd.files
    BY <1>1, <2>1, <2>2
  <2>3. CASE cmd'.files = Append(cmd.files, r)
    <3>2. \A i \in DOMAIN cmd'.files : cmd'.files[i].pushed =>
            i \in DOMAIN cmd.files /\ cmd'.files[i] = cmd.files[i]
      BY <1>a, <2>3, <2>b, AppendProperties
    <3> QED
      BY <1>c, <1>d, <1>f, <2>1, <3>2 DEF MarksTrue
  <2> QED
    BY <2>1, <2>2, <2>3
<1>12. CASE PullClose
  <2>1. CASE cmd.short
    BY <1>3, <1>12, <2>1 DEF PullClose
  <2>2. CASE ~cmd.short
    BY <1>a, <1>1, <1>12, <2>2 DEF PullClose, Cmd
  <2> QED
    BY <2>1, <2>2
<1>13. CASE PushPass
  <2>1. CASE cmd' = [cmd EXCEPT !.idx = @ + 1]
    BY <1>a, <1>1, <2>1 DEF Cmd
  <2>2. ASSUME NEW i \in LastRecord,
               cmd' = [cmd EXCEPT !.idx = @ + 1, !.files = ReplaceAt(@, i, Seen(@[i], Shown))]
        PROVE  MarksTrue'
    <3>1. i \in DOMAIN cmd.files
      BY DEF LastRecord
    <3>2. cmd'.new = cmd.new /\ cmd'.files = ReplaceAt(cmd.files, i, Seen(cmd.files[i], Shown))
      BY <1>a, <2>2 DEF Cmd
    <3>3. /\ Seen(cmd.files[i], Shown) \in Record
          /\ Seen(cmd.files[i], Shown).pushed = cmd.files[i].pushed
          /\ Seen(cmd.files[i], Shown).file = cmd.files[i].file
      BY <1>b, <3>1 DEF Seen, Shown, Record
    <3>4. Seen(cmd.files[i], Shown).pushed => Given(Seen(cmd.files[i], Shown).file)
      BY <1>c, <3>1, <3>3 DEF MarksTrue
    <3> QED
      BY <1>5, <3>1, <3>2, <3>3, <3>4
  <2> QED
    BY <1>13, <2>1, <2>2 DEF PushPass
<1>14. ASSUME NEW pushed \in BOOLEAN, NEW result \in {"Ok", "Error"}, Marked(pushed, result),
              cmd.idx \in DOMAIN cmd.walk,
              pushed => \/ accepted' = accepted \cup {Entry1}
                        \/ cmd.mode # "file" /\ Entry1.file \in unsent'
       PROVE  MarksTrue'
  <2>1. CASE MarkedFile(pushed)
    BY <1>a, <1>1, <2>1 DEF MarkedFile, Cmd
  <2>2. ASSUME NEW i \in LastRecord,
               cmd' = [cmd EXCEPT !.idx = @ + 1, !.errs = @ \/ ~pushed,
                                  !.files = ReplaceAt(@, i, PushOutcome(@[i], pushed, result))]
        PROVE  MarksTrue'
    <3>1. i \in DOMAIN cmd.files /\ NameOf[cmd.files[i].file] = NameOf[Entry1.file]
      BY DEF LastRecord
    <3>2. cmd'.new = cmd.new /\ cmd'.files = ReplaceAt(cmd.files, i, PushOutcome(cmd.files[i], pushed, result))
      BY <1>a, <2>2 DEF Cmd
    <3>3. /\ PushOutcome(cmd.files[i], pushed, result) \in Record
          /\ PushOutcome(cmd.files[i], pushed, result).pushed = pushed
          /\ PushOutcome(cmd.files[i], pushed, result).file = cmd.files[i].file
      BY <1>b, <3>1 DEF PushOutcome, Record
    <3>4. Entry1 \in Entry /\ Entry1.good
      BY <1>a, <1>14 DEF BundleSound, Whole, Entry1
    <3>5. Entry1.file \in Namesakes(cmd.files[i].file) /\ Entry1 = [file |-> Entry1.file, good |-> TRUE]
      BY <3>1, <3>4 DEF Namesakes, Entry
    <3>6. pushed => Sent(Entry1.file)
      BY <1>14, <3>5
    <3>7. PushOutcome(cmd.files[i], pushed, result).pushed =>
            Given(PushOutcome(cmd.files[i], pushed, result).file)
      BY <3>3, <3>5, <3>6 DEF Given
    <3> QED
      BY <1>5, <3>1, <3>2, <3>3, <3>7
  <2> QED
    BY <1>14, <2>1, <2>2 DEF Marked
<1>15. CASE UploadOk
  BY <1>14, <1>15 DEF UploadOk
<1>16. CASE UploadError
  BY <1>14, <1>16 DEF UploadError
<1>31. CASE UploadUnsent
  <2>1. cmd.idx \in DOMAIN cmd.walk /\ Marked(TRUE, "Ok")
    BY <1>31 DEF UploadUnsent
  <2>2. CASE cmd.mode = "file"
    BY <1>a, <1>1, <2>1, <2>2 DEF Marked, MarkedFile, Cmd
  <2>3. CASE cmd.mode # "file"
    <3>1. Entry1.file \in unsent'
      BY <1>31, <2>3 DEF UploadUnsent
    <3> QED
      BY <1>14, <2>1, <2>3, <3>1
  <2> QED
    BY <2>2, <2>3
<1>17. CASE PushEnd
  BY <1>1, <1>3, <1>17 DEF PushEnd
<1>18. ASSUME NEW s \in Source, CommitSource(s) PROVE MarksTrue'
  BY <1>a, <1>1, <1>18 DEF CommitSource, Cmd
<1>19. ASSUME NEW r \in Record, cmd.idx \in DOMAIN cmd.files,
              cmd'.files = ReplaceAt(cmd.files, cmd.idx, r), cmd'.new = cmd.new,
              r.pushed = Record1.pushed, r.file = Record1.file
       PROVE  MarksTrue'
  BY <1>c, <1>5, <1>19 DEF MarksTrue, Record1
<1>20. CASE CommitPass
  <2>1. cmd.idx \in DOMAIN cmd.files /\ cmd'.new = cmd.new
        /\ cmd'.files = ReplaceAt(cmd.files, cmd.idx, Seen(Record1, "Ok"))
    BY <1>a, <1>20 DEF CommitPass, Cmd
  <2>2. /\ Seen(Record1, "Ok") \in Record
        /\ Seen(Record1, "Ok").pushed = Record1.pushed /\ Seen(Record1, "Ok").file = Record1.file
    BY <1>b, <2>1 DEF Seen, Record, Record1
  <2> QED
    BY <1>19, <2>1, <2>2
<1>21. ASSUME NEW committed \in BOOLEAN, NEW result \in {"Ok", "Error"}, Deletes,
              cmd' = [cmd EXCEPT !.idx = @ + 1,
                        !.files = ReplaceAt(@, cmd.idx, CommitOutcome(Record1, committed, result))]
       PROVE  MarksTrue'
  <2>1. cmd.idx \in DOMAIN cmd.files /\ cmd'.new = cmd.new
        /\ cmd'.files = ReplaceAt(cmd.files, cmd.idx, CommitOutcome(Record1, committed, result))
    BY <1>a, <1>21 DEF Deletes, Cmd
  <2>2. /\ CommitOutcome(Record1, committed, result) \in Record
        /\ CommitOutcome(Record1, committed, result).pushed = Record1.pushed
        /\ CommitOutcome(Record1, committed, result).file = Record1.file
    BY <1>b, <2>1 DEF CommitOutcome, Record, Record1
  <2> QED
    BY <1>19, <2>1, <2>2
<1>22. CASE DeleteOk
  BY <1>21, <1>22 DEF DeleteOk
<1>23. CASE DeleteError
  BY <1>21, <1>23 DEF DeleteError
<1>24. CASE CommitClose
  BY <1>a, <1>1, <1>24 DEF CommitClose, Cmd
<1>25. CASE CommitEnd \/ CommitCompact
  BY <1>1, <1>25 DEF CommitEnd, CommitCompact
<1>26. CASE Compact
  BY <1>1, <1>3, <1>26 DEF Compact
<1>27. CASE CompactError \/ Save \/ SaveError \/ Kill
  BY <1>3, <1>27 DEF CompactError, Save, SaveError, Kill
<1>28. ASSUME NEW s \in Source, SkipSource(s) PROVE MarksTrue'
  BY <1>a, <1>1, <1>28 DEF SkipSource, NoClient, Cmd
<1>29. CASE UNCHANGED cmd
  BY <1>1, <1>29
<1>30. ASSUME NEW f \in File, Produce(f) PROVE MarksTrue'
  BY <1>29, <1>30 DEF Produce
<1> QED
  BY <1>2, <1>6, <1>7, <1>8, <1>9, <1>10, <1>11, <1>12, <1>13, <1>15, <1>16, <1>17, <1>18, <1>20,
     <1>22, <1>23, <1>24, <1>25, <1>26, <1>27, <1>28, <1>29, <1>30, <1>31
  DEF Next, Pull, Push, Commit, Finish, PullStart, PushStart, CommitStart, vars

-----------------------------------------------------------------------------
(* What a running pull has records for *)

(* Pull's merge finds for every record that is not settled one of its key    *)
(* that is not settled either: the listed one, or the last one.              *)
LEMMA MergeFinds ==
  ASSUME KeysDistinct, NEW old \in Seq(Record), NEW new \in Seq(Record),
         \A k \in DOMAIN new : ~new[k].pushed,
         NEW i \in DOMAIN old, ~Settled(old[i])
  PROVE  \E r \in MergedRecords(old, new) : Stands(r.file, old[i].file) /\ ~Settled(r)
<1> DEFINE kept == {j \in DOMAIN old : ~(old[j].committed /\ old[j].pushed)}
           last == {h \in kept : \A j \in kept : j > h => KeyOf[old[j].file] # KeyOf[old[h].file]}
           live == {j \in last : ~ReplacedBy(new, old[j])}
           Same == {j \in kept : KeyOf[old[j].file] = KeyOf[old[i].file]}
<1>a. /\ \A j \in DOMAIN old : old[j] \in Record /\ old[j].file \in File
      /\ \A k \in DOMAIN new : new[k] \in Record /\ new[k].file \in File
  <2>1. (\A j \in DOMAIN old : old[j] \in Record) /\ (\A k \in DOMAIN new : new[k] \in Record)
    OBVIOUS
  <2> QED
    BY <2>1 DEF Record
<1>1. Same # {} /\ Same \in SUBSET DOMAIN old
  BY DEF Settled
<1>2. PICK h \in Same : \A j \in Same : ~(j > h)
  <2> HIDE DEF Same
  <2> QED
    BY <1>1, LastIndex
<1>3. h \in last /\ Stands(old[h].file, old[i].file)
  BY <1>a, <1>2 DEF KeysDistinct, Stands
<1>4. CASE ~ReplacedBy(new, old[h])
  <2>1. h \in live /\ ~Settled(old[h])
    BY <1>3, <1>4 DEF Settled
  <2>2. old[h] \in MergedRecords(old, new)
    BY <2>1 DEF MergedRecords
  <2> QED
    BY <1>3, <2>1, <2>2
<1>5. CASE ReplacedBy(new, old[h])
  <2> DEFINE I == {k \in DOMAIN new : KeyOf[new[k].file] = KeyOf[old[h].file]}
  <2>1. I # {} /\ I \in SUBSET DOMAIN new
    BY <1>5 DEF ReplacedBy
  <2>2. PICK k \in I : \A m \in I : ~(m > k)
    <3> HIDE DEF I
    <3> QED
      BY <2>1, LastIndex
  <2>3. k \in LastOfKey(new)
    BY <2>2 DEF LastOfKey
  <2>4. new[k] \in MergedRecords(old, new)
    BY <2>3 DEF MergedRecords
  <2>5. Stands(new[k].file, old[i].file) /\ ~Settled(new[k])
    <3>1. KeyOf[new[k].file] = KeyOf[old[i].file]
      BY <1>2, <2>2
    <3> QED
      BY <1>a, <2>2, <3>1 DEF KeysDistinct, Settled, Stands
  <2> QED
    BY <2>4, <2>5
<1> QED
  BY <1>4, <1>5

(* A step that leaves the records alone. *)
LEMMA AgreeFrame ==
  ASSUME PullAgrees, cmd'.op = cmd.op, cmd'.files = cmd.files, UNCHANGED <<atSource, saved>>, pc # "idle"
  PROVE  PullAgrees'
BY DEF PullAgrees, Awaited

(* Every step keeps a running pull's records in agreement with the saved ones. *)
LEMMA AgreeStep ==
  KeysDistinct /\ TypeOK /\ LedgerInv /\ MarksTrue /\ PullAgrees /\ [Next]_vars => PullAgrees'
<1> SUFFICES ASSUME KeysDistinct, TypeOK, LedgerInv, MarksTrue, PullAgrees, [Next]_vars
             PROVE  PullAgrees'
    OBVIOUS
<1>a. /\ cmd \in Cmd /\ cmd.files \in Seq(Record) /\ cmd.new \in Seq(Record)
      /\ saved.files \in Seq(Record)
  BY DEF TypeOK, Cmd
<1>b. /\ pc \in {"sources", "download"} => cmd.op = "pull"
      /\ pc = "upload" => cmd.op = "push"
      /\ pc \in {"csources", "delete", "ccompact"} => cmd.op = "commit"
  BY DEF LedgerInv, Phases
<1>1. ASSUME pc' = "idle" \/ cmd'.op # "pull" PROVE PullAgrees'
  BY <1>1 DEF PullAgrees
<1>2. ASSUME Exit PROVE PullAgrees'
  BY <1>1, <1>2 DEF Exit
<1>3. ASSUME NEW f \in File, Produce(f) PROVE PullAgrees'
  <2>1. \A g : atSource[g] = "listed" => atSource'[g] = "listed"
    BY <1>3 DEF Produce, TypeOK
  <2>2. UNCHANGED <<saved, cmd, pc>>
    BY <1>3 DEF Produce
  <2> QED
    BY <2>1, <2>2 DEF PullAgrees, Awaited
<1>4. ASSUME NEW type, NEW name, PullStart(Selected(type, name)) PROVE PullAgrees'
  <2>1. cmd'.files = saved.files /\ UNCHANGED <<saved, atSource>>
    BY <1>4 DEF PullStart, Start, NoCmd
  <2> QED
    BY <2>1 DEF PullAgrees, Awaited, Settled, Stands
<1>5. ASSUME NEW mode \in Mode, PushStart(mode) PROVE PullAgrees'
  BY <1>1, <1>5 DEF PushStart, Start, NoCmd
<1>6. ASSUME NEW mode \in {"normal", "dry"}, CommitStart(mode) PROVE PullAgrees'
  BY <1>1, <1>6 DEF CommitStart, Start, NoCmd
<1>7. ASSUME NEW s \in Source, PullSource(s) PROVE PullAgrees'
  BY <1>a, <1>7, AgreeFrame DEF PullSource, Cmd
<1>8. ASSUME NEW f \in File, Download(f) PROVE PullAgrees'
  BY <1>a, <1>8, AgreeFrame DEF Download, Cmd
<1>9. ASSUME NEW f \in File, DownloadShort(f) PROVE PullAgrees'
  BY <1>a, <1>9, AgreeFrame DEF DownloadShort, Cmd
<1>10. CASE PullAbort
  BY <1>a, <1>10, AgreeFrame DEF PullAbort, Cmd
<1>11. CASE PullMerge
  <2>1. PICK rs \in SetToSeqs(MergedRecords(cmd.files, cmd.new)) :
          cmd' = [cmd EXCEPT !.files = rs, !.new = <<>>, !.src = NoSource]
    BY <1>11 DEF PullMerge
  <2>2. cmd'.files = rs /\ cmd.op = "pull" /\ pc # "idle" /\ UNCHANGED <<saved, atSource>>
    BY <1>a, <1>b, <1>11, <2>1 DEF PullMerge, Cmd
  <2>3. /\ rs \in Seq(MergedRecords(cmd.files, cmd.new))
        /\ \A x \in MergedRecords(cmd.files, cmd.new) : \E j \in DOMAIN rs : rs[j] = x
    BY <1>a, MergeType, Arrangement
  <2>4. ASSUME NEW i \in DOMAIN saved.files, ~saved.files[i].pushed
        PROVE  \E j \in DOMAIN rs : Stands(rs[j].file, saved.files[i].file) /\ ~Settled(rs[j])
    <3>1. PICK j \in DOMAIN cmd.files :
            Stands(cmd.files[j].file, saved.files[i].file) /\ ~Settled(cmd.files[j])
      BY <2>2, <2>4 DEF PullAgrees
    <3>2. PICK r \in MergedRecords(cmd.files, cmd.new) : Stands(r.file, cmd.files[j].file) /\ ~Settled(r)
      BY <1>a, <3>1, MergeFinds DEF MarksTrue
    <3>3. Stands(r.file, saved.files[i].file)
      BY <3>1, <3>2 DEF Stands
    <3> QED
      BY <2>3, <3>2, <3>3
  <2>5. ASSUME NEW j \in DOMAIN rs, ~rs[j].pushed
        PROVE  Awaited(rs[j].file) \/ atSource[rs[j].file] = "listed"
    <3>1. rs[j] \in MergedRecords(cmd.files, cmd.new)
      BY <2>3
    <3>2. (\E i \in DOMAIN cmd.files : rs[j] = cmd.files[i]) \/ (\E k \in DOMAIN cmd.new : rs[j] = cmd.new[k])
      BY <1>a, <3>1, MergeSource
    <3> QED
      BY <2>2, <2>5, <3>2 DEF PullAgrees, LedgerInv, ListingHolds
  <2> QED
    BY <2>2, <2>4, <2>5 DEF PullAgrees, Awaited
<1>12. ASSUME NEW f \in File, PullReport(f) PROVE PullAgrees'
  <2>a. PICK r \in Record : r = NewRecord(f, "")
    BY NewRecordType
  <2>1. /\ cmd'.files = cmd.files \/ cmd'.files = Append(cmd.files, r)
        /\ cmd'.op = cmd.op /\ pc # "idle" /\ UNCHANGED <<saved, atSource>>
    BY <1>a, <1>12, <2>a DEF PullReport, Cmd
  <2>2. CASE cmd'.files = cmd.files
    BY <2>1, <2>2, AgreeFrame
  <2>3. CASE cmd'.files = Append(cmd.files, r)
    <3>1. r.file = f /\ atSource[f] = "listed"
      BY <1>12, <2>a DEF NewRecord, PullReport, LedgerInv, ListingHolds
    <3>2. /\ DOMAIN cmd.files \subseteq DOMAIN cmd'.files
          /\ \A j \in DOMAIN cmd.files : cmd'.files[j] = cmd.files[j]
          /\ \A j \in DOMAIN cmd'.files \ DOMAIN cmd.files : cmd'.files[j].file = f
      BY <1>a, <2>3, <3>1, AppendProperties
    <3> QED
      BY <1>b, <1>12, <2>1, <3>1, <3>2 DEF PullAgrees, Awaited, PullReport
  <2> QED
    BY <2>1, <2>2, <2>3
<1>13. CASE PullClose
  <2>1. CASE cmd.short
    BY <1>2, <1>13, <2>1 DEF PullClose
  <2>2. CASE ~cmd.short
    BY <1>a, <1>13, <2>2, AgreeFrame DEF PullClose, Cmd
  <2> QED
    BY <2>1, <2>2
<1>14. ASSUME cmd.op # "pull", cmd'.op = cmd.op PROVE PullAgrees'
  BY <1>1, <1>14
<1>15. CASE PushPass
  BY <1>a, <1>b, <1>14, <1>15 DEF PushPass, Cmd
<1>16. ASSUME NEW pushed, NEW result, Marked(pushed, result) PROVE cmd'.op = cmd.op
  BY <1>a, <1>16 DEF Marked, MarkedFile, Cmd
<1>17. CASE UploadOk
  BY <1>b, <1>14, <1>16, <1>17 DEF UploadOk
<1>18. CASE UploadError
  BY <1>b, <1>14, <1>16, <1>18 DEF UploadError
<1>30. CASE UploadUnsent
  BY <1>b, <1>14, <1>16, <1>30 DEF UploadUnsent
<1>19. CASE PushEnd
  BY <1>b, <1>2, <1>14, <1>19 DEF PushEnd
<1>20. ASSUME NEW s \in Source, CommitSource(s) PROVE PullAgrees'
  BY <1>a, <1>b, <1>14, <1>20 DEF CommitSource, Cmd
<1>21. CASE CommitPass
  BY <1>a, <1>b, <1>14, <1>21 DEF CommitPass, Cmd
<1>22. CASE DeleteOk
  BY <1>a, <1>b, <1>14, <1>22 DEF DeleteOk, Deletes, Cmd
<1>23. CASE DeleteError
  BY <1>a, <1>b, <1>14, <1>23 DEF DeleteError, Deletes, Cmd
<1>24. CASE CommitClose
  BY <1>a, <1>b, <1>14, <1>24 DEF CommitClose, Cmd
<1>25. CASE CommitEnd \/ CommitCompact
  BY <1>b, <1>14, <1>25 DEF CommitEnd, CommitCompact
<1>26. CASE Compact
  BY <1>2, <1>26, AgreeFrame DEF Compact
<1>27. CASE CompactError \/ Save \/ SaveError \/ Kill
  BY <1>2, <1>27 DEF CompactError, Save, SaveError, Kill
<1>28. ASSUME NEW s \in Source, SkipSource(s) PROVE PullAgrees'
  BY <1>a, <1>28, AgreeFrame DEF SkipSource, NoClient, Cmd
<1>29. CASE UNCHANGED vars
  BY <1>29 DEF vars, PullAgrees, Awaited
<1> QED
  BY <1>3, <1>4, <1>5, <1>6, <1>7, <1>8, <1>9, <1>10, <1>11, <1>12, <1>13, <1>15, <1>17, <1>18,
     <1>19, <1>20, <1>21, <1>22, <1>23, <1>24, <1>25, <1>26, <1>27, <1>28, <1>29, <1>30
  DEF Next, Pull, Push, Commit, Finish

-----------------------------------------------------------------------------
(* Entries and the files that are awaited *)

(* What a step does to the bundle's entries. *)
LEMMA TarStep ==
  ASSUME WholeWrites, TypeOK, BundleSound, [Next]_vars
  PROVE  \/ tar'.entries = tar.entries
         \/ \E e \in Entry : tar'.entries = Append(tar.entries, e)
         \/ pc = "idle" /\ ~saved.named
         \/ pc \in {"compact", "ccompact"} /\ Compacts
<1> DEFINE Goal == \/ tar'.entries = tar.entries
                   \/ \E e \in Entry : tar'.entries = Append(tar.entries, e)
                   \/ pc = "idle" /\ ~saved.named
                   \/ pc \in {"compact", "ccompact"} /\ Compacts
<1>a. tar \in Bundle /\ cmd.wrote \in BOOLEAN /\ tar.tail # "cut" /\ (tar.tail = "open" => cmd.wrote)
  BY DEF TypeOK, Cmd, BundleSound
<1>1. CASE UNCHANGED tar
  BY <1>1
<1>2. ASSUME NEW e \in Entry, tar' = Written(tar, cmd.wrote, e) PROVE Goal
  BY <1>a, <1>2, WrittenWhole
<1>3. ASSUME NEW t \in CutTails(tar, cmd.wrote), tar' = CutShort(tar, cmd.wrote, t) PROVE Goal
  BY <1>a, <1>3, CutShortWhole DEF Bundle
<1>4. CASE tar' = Sealed(tar, cmd.wrote)
  BY <1>a, <1>4, SealedWhole
<1>5. ASSUME NEW op, NEW mode, NEW at, NEW S, Start(op, mode, at, S) PROVE Goal
  BY <1>5 DEF Start
<1>6. ASSUME NEW f \in File, Download(f) PROVE Goal
  BY <1>2, <1>6 DEF Download, Entry
<1>7. ASSUME NEW f \in File, DownloadShort(f) PROVE Goal
  BY <1>3, <1>7 DEF DownloadShort
<1>8. ASSUME NEW f \in File, PullReport(f) PROVE Goal
  BY <1>1, <1>2, <1>8 DEF PullReport, Entry
<1>9. CASE PullClose
  BY <1>1, <1>4, <1>9 DEF PullClose
<1>10. CASE CommitClose
  BY <1>1, <1>4, <1>10 DEF CommitClose
<1>11. CASE CommitCompact
  BY <1>1, <1>11 DEF CommitCompact
<1>12. CASE Compact
  BY <1>12 DEF Compact
<1>13. CASE CompactError
  BY <1>1, <1>4, <1>13 DEF CompactError
<1>14. CASE Kill
  BY <1>1, <1>3, <1>14 DEF Kill
<1>15. CASE PullAbort \/ PullMerge \/ Push \/ CommitPass \/ DeleteOk \/ DeleteError \/ CommitEnd
            \/ Save \/ UploadError \/ UploadUnsent \/ SaveError \/ UNCHANGED vars
  BY <1>1, <1>15 DEF PullAbort, PullMerge, Push, PushPass, UploadOk, PushEnd, CommitPass, DeleteOk,
     DeleteError, CommitEnd, Save, UploadError, UploadUnsent, SaveError, vars
<1>16. ASSUME NEW s \in Source, PullSource(s) \/ CommitSource(s) \/ SkipSource(s) PROVE Goal
  BY <1>1, <1>16 DEF PullSource, CommitSource, SkipSource
<1>17. ASSUME NEW f \in File, Produce(f) PROVE Goal
  BY <1>1, <1>17 DEF Produce
<1> QED
  BY <1>5, <1>6, <1>7, <1>8, <1>9, <1>10, <1>11, <1>12, <1>13, <1>14, <1>15, <1>16, <1>17
  DEF Next, Pull, Commit, Finish, PullStart, PushStart, CommitStart

(* A name keeps an entry in the bundle, if the compaction at the end of a pull is   *)
(* asked to keep its name and the config file names the bundle.              *)
LEMMA EntryStep ==
  ASSUME WholeWrites, TypeOK, LedgerInv, BundleSound, [Next]_vars,
         NEW f \in File, HasEntry(f), saved.named \/ pc # "idle",
         pc = "compact" /\ cmd.op = "pull" => NameOf[f] \in RecordNames(cmd.files)
  PROVE  \E i \in DOMAIN tar'.entries : NameOf[tar'.entries[i].file] = NameOf[f]
<1>a. tar.entries \in Seq(Entry)
  BY DEF TypeOK, Bundle
<1>1. PICK i \in DOMAIN tar.entries : NameOf[tar.entries[i].file] = NameOf[f]
  BY DEF HasEntry
<1>2. CASE tar'.entries = tar.entries
  BY <1>1, <1>2
<1>3. ASSUME NEW e \in Entry, tar'.entries = Append(tar.entries, e)
      PROVE  \E k \in DOMAIN tar'.entries : NameOf[tar'.entries[k].file] = NameOf[f]
  <2>1. i \in DOMAIN tar'.entries /\ tar'.entries[i] = tar.entries[i]
    BY <1>a, <1>1, <1>3, AppendProperties
  <2> QED
    BY <1>1, <2>1
<1>4. CASE pc \in {"compact", "ccompact"} /\ Compacts
  <2>1. PICK c \in Compactions(tar.entries, CompactNames) : tar'.entries = c
    BY <1>4, CompactsWhole
  <2>2. NameOf[f] \in CompactNames
    BY <1>4 DEF CompactNames, AllNames, LedgerInv, Phases
  <2>3. \E k \in DOMAIN c : NameOf[c[k].file] = NameOf[tar.entries[i].file]
    BY <1>a, <1>1, <2>1, <2>2, CompactionKeeps
  <2> QED
    BY <1>1, <2>1, <2>3
<1> QED
  BY <1>2, <1>3, <1>4, TarStep

(* Every step keeps an entry of every file that is, or will be, awaited. *)
LEMMA EntriesStep ==
  WholeWrites /\ TypeOK /\ LedgerInv /\ BundleSound /\ PullAgrees /\ EntriesKept
    /\ [Next]_vars => EntriesKept'
<1> SUFFICES ASSUME WholeWrites, TypeOK, LedgerInv, BundleSound, PullAgrees,
                    EntriesKept, [Next]_vars
             PROVE  EntriesKept'
    OBVIOUS
<1> DEFINE Has(f) == \E i \in DOMAIN tar'.entries : NameOf[tar'.entries[i].file] = NameOf[f]
           Going == cmd.op = "pull" /\ pc # "idle" /\ ~cmd.short /\ tar.tail # "torn"
           Going1 == cmd'.op = "pull" /\ pc' # "idle" /\ ~cmd'.short /\ tar'.tail # "torn"
           Pulled == /\ \A j \in DOMAIN cmd'.files : ~cmd'.files[j].pushed => Has(cmd'.files[j].file)
                     /\ \A k \in DOMAIN cmd'.new : Has(cmd'.new[k].file)
           Goal == Going1 => Pulled
<1>a. /\ cmd \in Cmd /\ cmd.files \in Seq(Record) /\ cmd.new \in Seq(Record)
      /\ saved.files \in Seq(Record) /\ tar \in Bundle /\ tar.entries \in Seq(Entry)
      /\ cmd.wrote \in BOOLEAN
  BY DEF TypeOK, Cmd, Bundle
<1>b. /\ \A i \in DOMAIN cmd.files : cmd.files[i].file \in File
      /\ \A i \in DOMAIN cmd.new : cmd.new[i].file \in File
      /\ \A i \in DOMAIN saved.files : saved.files[i].file \in File
  <2>1. /\ \A i \in DOMAIN cmd.files : cmd.files[i] \in Record
        /\ \A i \in DOMAIN cmd.new : cmd.new[i] \in Record
        /\ \A i \in DOMAIN saved.files : saved.files[i] \in Record
    BY <1>a
  <2> QED
    BY <2>1 DEF Record
<1>1. saved'.named \/ saved'.files = <<>>
  BY OnlySaveSaves DEF Save, EntriesKept
<1>2. ASSUME NEW i \in DOMAIN saved.files, ~saved.files[i].pushed PROVE Has(saved.files[i].file)
  <2>1. HasEntry(saved.files[i].file) /\ saved.named
    BY <1>2 DEF EntriesKept
  <2>2. pc = "compact" /\ cmd.op = "pull" => NameOf[saved.files[i].file] \in RecordNames(cmd.files)
    BY <1>2 DEF PullAgrees, RecordNames, Stands
  <2> QED
    BY <1>b, <1>2, <2>1, <2>2, EntryStep
<1>3. ASSUME Going
      PROVE  /\ \A j \in DOMAIN cmd.files : ~cmd.files[j].pushed => Has(cmd.files[j].file)
             /\ \A k \in DOMAIN cmd.new : Has(cmd.new[k].file)
  <2>1. ASSUME NEW j \in DOMAIN cmd.files, ~cmd.files[j].pushed PROVE Has(cmd.files[j].file)
    <3>1. HasEntry(cmd.files[j].file) /\ NameOf[cmd.files[j].file] \in RecordNames(cmd.files)
      BY <1>3, <2>1 DEF EntriesKept, RecordNames
    <3> QED
      BY <1>b, <1>3, <3>1, EntryStep
  <2>2. ASSUME NEW k \in DOMAIN cmd.new PROVE Has(cmd.new[k].file)
    <3>1. HasEntry(cmd.new[k].file) /\ pc # "compact"
      BY <1>3, <2>2 DEF EntriesKept, LedgerInv, Phases
    <3> QED
      BY <1>b, <1>3, <3>1, EntryStep
  <2> QED
    BY <2>1, <2>2
<1>4. ASSUME NEW i \in DOMAIN saved'.files, ~saved'.files[i].pushed PROVE Has(saved'.files[i].file)
  <2>1. CASE UNCHANGED saved
    BY <1>2, <1>4, <2>1
  <2>2. CASE Save
    <3>1. saved'.files = cmd.files /\ pc = "save"
      BY <2>2 DEF Save
    <3>2. CASE cmd.op = "pull"
      <4>1. Going
        BY <3>1, <3>2 DEF BundleSound
      <4> QED
        BY <1>3, <1>4, <3>1, <4>1
    <3>3. CASE cmd.op # "pull"
      <4>1. Marks(saved.files, cmd.files)
        BY <3>1, <3>3 DEF LedgerInv
      <4>2. i \in DOMAIN saved.files
        BY <1>4, <3>1, <4>1, SameDomain
      <4> QED
        BY <1>2, <1>4, <3>1, <4>1, <4>2 DEF Marks
    <3> QED
      BY <3>2, <3>3
  <2> QED
    BY <2>1, <2>2, OnlySaveSaves
<1> HIDE DEF Has
<1>5. ASSUME UNCHANGED tar, cmd'.files = cmd.files, cmd'.new = cmd.new \/ cmd'.new = <<>>,
             cmd'.op = cmd.op, cmd'.short = cmd.short, pc # "idle" \/ pc' = "idle"
      PROVE  Goal
  BY <1>3, <1>5
<1>6. ASSUME Exit \/ cmd'.op # "pull" PROVE Goal
  BY <1>6 DEF Exit
<1>7. ASSUME NEW type, NEW name, PullStart(Selected(type, name)) PROVE Goal
  <2>1. cmd'.files = saved.files /\ cmd'.new = <<>> /\ saved' = saved
    BY <1>7 DEF PullStart, Start, NoCmd
  <2> QED
    BY <1>2, <2>1
<1>8. ASSUME NEW e \in Entry, tar' = Written(tar, cmd.wrote, e), tar'.tail # "torn",
             tar.tail # "cut", tar.tail = "open" => cmd.wrote
      PROVE  tar.tail # "torn" /\ Has(e.file)
  <2>1. tar.tail # "torn" /\ tar'.entries = Append(tar.entries, e)
    BY <1>a, <1>8, WrittenWhole
  <2>2. Len(tar.entries) + 1 \in DOMAIN tar'.entries /\ tar'.entries[Len(tar.entries) + 1] = e
    BY <1>a, <2>1, AppendProperties
  <2> QED
    BY <2>1, <2>2 DEF Has
<1>9. ASSUME NEW f \in File, Download(f) PROVE Goal
  <2>1. PICK good \in BOOLEAN :
          /\ tar' = Written(tar, cmd.wrote, [file |-> f, good |-> good])
          /\ cmd' = [cmd EXCEPT !.list = @ \ {f}, !.wrote = TRUE,
                                !.new = Append(@, NewRecord(f, IF good THEN "Ok" ELSE "Error"))]
    BY <1>9 DEF Download
  <2>2. PICK r \in Record : r = NewRecord(f, IF good THEN "Ok" ELSE "Error")
    BY NewRecordType
  <2>3. /\ cmd'.files = cmd.files /\ cmd'.new = Append(cmd.new, r) /\ r.file = f
        /\ cmd'.op = cmd.op /\ pc # "idle" /\ ~cmd.short
    BY <1>a, <1>9, <2>1, <2>2 DEF Download, Cmd, NewRecord
  <2>4. [file |-> f, good |-> good] \in Entry
    BY DEF Entry
  <2>5. ASSUME cmd'.op = "pull", tar'.tail # "torn" PROVE Pulled
    <3>1. tar.tail # "torn" /\ Has(f)
      BY <1>8, <2>1, <2>4, <2>5 DEF BundleSound
    <3>2. \A k \in DOMAIN cmd'.new : (k \in DOMAIN cmd.new /\ cmd'.new[k] = cmd.new[k]) \/ cmd'.new[k] = r
      BY <1>a, <2>2, <2>3, AppendProperties
    <3> QED
      BY <1>3, <2>3, <2>5, <3>1, <3>2
  <2> QED
    BY <2>5
<1>10. ASSUME NEW f \in File, DownloadShort(f) PROVE Goal
  <2>1. cmd'.short
    BY <1>a, <1>10 DEF DownloadShort, Cmd
  <2> QED
    BY <2>1
<1>11. ASSUME PullAbort PROVE Goal
  BY <1>a, <1>5, <1>11 DEF PullAbort, Cmd
<1>12. ASSUME PullMerge PROVE Goal
  <2>1. PICK rs \in SetToSeqs(MergedRecords(cmd.files, cmd.new)) :
          cmd' = [cmd EXCEPT !.files = rs, !.new = <<>>, !.src = NoSource]
    BY <1>12 DEF PullMerge
  <2>2. /\ cmd'.files = rs /\ cmd'.new = <<>> /\ cmd'.op = cmd.op /\ cmd'.short = cmd.short
        /\ pc # "idle" /\ tar' = tar
    BY <1>a, <1>12, <2>1 DEF PullMerge, Cmd
  <2>3. rs \in Seq(MergedRecords(cmd.files, cmd.new))
    BY <1>a, MergeType, Arrangement
  <2>4. \A i \in DOMAIN rs : rs[i] \in MergedRecords(cmd.files, cmd.new)
    BY <2>3
  <2>5. \A i \in DOMAIN rs : (\E j \in DOMAIN cmd.files : rs[i] = cmd.files[j])
                               \/ (\E k \in DOMAIN cmd.new : rs[i] = cmd.new[k])
    BY <1>a, <2>4, MergeSource
  <2>6. ASSUME Going PROVE \A j \in DOMAIN cmd'.files : ~cmd'.files[j].pushed => Has(cmd'.files[j].file)
    BY <1>3, <2>2, <2>5, <2>6
  <2> QED
    BY <2>2, <2>6
<1>13. ASSUME NEW f \in File, PullReport(f) PROVE Goal
  <2>1. cmd'.op = cmd.op /\ cmd'.short = cmd.short /\ cmd'.new = cmd.new /\ pc # "idle"
    BY <1>a, <1>13 DEF PullReport, Cmd
  <2>2. CASE cmd.short
    BY <2>1, <2>2
  <2>3. CASE ~cmd.short
    <3>1. PICK r \in Record : r = NewRecord(f, "")
      BY NewRecordType
    <3>2. /\ tar' = Written(tar, cmd.wrote, [file |-> f, good |-> TRUE])
          /\ cmd'.files = Append(cmd.files, r) /\ r.file = f
      BY <1>a, <1>13, <2>3, <3>1 DEF PullReport, Cmd, NewRecord
    <3>3. [file |-> f, good |-> TRUE] \in Entry
      BY DEF Entry
    <3>4. ASSUME cmd'.op = "pull", tar'.tail # "torn" PROVE Pulled
      <4>1. tar.tail # "torn" /\ Has(f)
        BY <1>8, <3>2, <3>3, <3>4 DEF BundleSound
      <4>2. \A k \in DOMAIN cmd'.files :
              (k \in DOMAIN cmd.files /\ cmd'.files[k] = cmd.files[k]) \/ cmd'.files[k] = r
        BY <1>a, <3>2, AppendProperties
      <4>3. Going
        BY <2>1, <2>3, <3>4, <4>1
      <4>4. \A j \in DOMAIN cmd'.files : ~cmd'.files[j].pushed => Has(cmd'.files[j].file)
        BY <1>3, <3>2, <4>1, <4>2, <4>3
      <4>5. \A k \in DOMAIN cmd'.new : Has(cmd'.new[k].file)
        BY <1>3, <2>1, <4>3
      <4> QED
        BY <4>4, <4>5
    <3> QED
      BY <3>4
  <2> QED
    BY <2>2, <2>3
<1>14. ASSUME PullClose PROVE Goal
  <2>1. CASE cmd.short
    BY <1>6, <1>14, <2>1 DEF PullClose
  <2>2. CASE ~cmd.short
    <3>1. /\ cmd'.files = cmd.files /\ cmd'.new = cmd.new /\ cmd'.op = cmd.op
          /\ tar' = Sealed(tar, cmd.wrote) /\ pc # "idle"
      BY <1>a, <1>14, <2>2 DEF PullClose, Cmd
    <3>2. tar.tail = "torn" <=> tar'.tail = "torn"
      BY <1>a, <3>1, SealedWhole DEF BundleSound
    <3> QED
      BY <1>3, <2>2, <3>1, <3>2
  <2> QED
    BY <2>1, <2>2
<1>15. ASSUME Compact PROVE Goal
  <2>1. Readable(tar) /\ ~cmd.short /\ pc # "idle"
    BY <1>15 DEF Compact, Compacts, BundleSound
  <2>2. CASE UNCHANGED cmd
    BY <1>3, <2>1, <2>2 DEF Readable
  <2> QED
    BY <1>6, <1>15, <2>2 DEF Compact
<1>16. ASSUME NEW s \in Source, PullSource(s) \/ SkipSource(s) PROVE Goal
  BY <1>a, <1>5, <1>16 DEF PullSource, SkipSource, NoClient, Cmd
<1>17. ASSUME CompactError \/ Save \/ SaveError \/ Kill PROVE Goal
  BY <1>6, <1>17 DEF CompactError, Save, SaveError, Kill
<1>18. ASSUME cmd.op # "pull" /\ (Push \/ Commit \/ UploadError \/ UploadUnsent) PROVE Goal
  <2>1. CASE PushPass
    BY <1>a, <1>6, <1>18, <2>1 DEF PushPass, Cmd
  <2>2. ASSUME NEW pushed, NEW result, Marked(pushed, result) PROVE Goal
    BY <1>a, <1>6, <1>18, <2>2 DEF Marked, MarkedFile, Cmd
  <2>3. CASE PushEnd
    BY <1>6, <1>18, <2>3 DEF PushEnd
  <2>4. ASSUME NEW s \in Source, CommitSource(s) PROVE Goal
    BY <1>a, <1>6, <1>18, <2>4 DEF CommitSource, Cmd
  <2>5. CASE CommitPass \/ DeleteOk \/ DeleteError
    BY <1>a, <1>6, <1>18, <2>5 DEF CommitPass, DeleteOk, DeleteError, Cmd
  <2>6. CASE CommitClose \/ CommitEnd \/ CommitCompact
    BY <1>a, <1>6, <1>18, <2>6 DEF CommitClose, CommitEnd, CommitCompact, Cmd
  <2> HIDE DEF Goal
  <2> QED
    BY <1>18, <2>1, <2>2, <2>3, <2>4, <2>5, <2>6
    DEF Push, Commit, UploadOk, UploadError, UploadUnsent
<1>19. Push \/ Commit \/ UploadError \/ UploadUnsent => cmd.op # "pull"
  <2>1. /\ pc \in {"csources", "delete", "ccompact"} => cmd.op = "commit"
        /\ pc = "upload" => cmd.op = "push"
    BY DEF LedgerInv, Phases
  <2>2. Push \/ Commit \/ UploadError \/ UploadUnsent => pc \in {"upload", "csources", "delete", "ccompact"}
    BY DEF Push, PushPass, UploadOk, PushEnd, Commit, CommitSource, CommitPass, DeleteOk,
       DeleteError, Deletes, CommitClose, CommitEnd, CommitCompact, UploadError, UploadUnsent
  <2> QED
    BY <2>1, <2>2
<1>20. ASSUME NEW mode, PushStart(mode) \/ CommitStart(mode) PROVE Goal
  BY <1>6, <1>20 DEF PushStart, CommitStart, Start, NoCmd
<1>21. ASSUME UNCHANGED <<tar, cmd, pc>> PROVE Goal
  BY <1>5, <1>21
<1>22. ASSUME NEW f \in File, Produce(f) PROVE Goal
  BY <1>21, <1>22 DEF Produce
<1>23. ASSUME UNCHANGED vars PROVE Goal
  BY <1>21, <1>23 DEF vars
<1>24. Goal
  <2> HIDE DEF Goal
  <2> QED
    BY <1>7, <1>9, <1>10, <1>11, <1>12, <1>13, <1>14, <1>15, <1>16, <1>17, <1>18, <1>19, <1>20, <1>22,
       <1>23
    DEF Next, Pull, Finish
<1> QED
  BY <1>1, <1>4, <1>24 DEF EntriesKept, HasEntry, Has

-----------------------------------------------------------------------------
(* What is deleted is kept *)

(* The steps that change what the config awaits, what the marketplace has,   *)
(* what is taken for sent or what is deleted.                                *)
LEMMA StepKinds ==
  TypeOK /\ [Next]_vars => \/ UNCHANGED <<saved, accepted, unsent, DeletedFiles>>
                           \/ Save \/ UploadOk \/ UploadError \/ UploadUnsent
                           \/ DeleteOk \/ DeleteError
<1> SUFFICES ASSUME TypeOK, [Next]_vars
             PROVE  \/ UNCHANGED <<saved, accepted, unsent, DeletedFiles>>
                    \/ Save \/ UploadOk \/ UploadError \/ UploadUnsent
                    \/ DeleteOk \/ DeleteError
    OBVIOUS
<1>1. ASSUME UNCHANGED atSource PROVE UNCHANGED DeletedFiles
  BY <1>1 DEF DeletedFiles
<1>2. ASSUME NEW f \in File, Produce(f) PROVE UNCHANGED <<saved, accepted, unsent, DeletedFiles>>
  BY <1>2 DEF Produce, DeletedFiles, TypeOK
<1>3. \/ UNCHANGED <<saved, accepted, unsent, atSource>>
      \/ \E f \in File : Produce(f)
      \/ Save \/ UploadOk \/ UploadError \/ UploadUnsent \/ DeleteOk \/ DeleteError
  BY DEF Next, vars, Pull, Push, Commit, Finish, PullStart, PushStart, CommitStart, Start,
     PullSource, Download, PullAbort, PullMerge, PullReport, PullClose, PushPass,
     PushEnd, CommitSource, CommitPass, CommitClose, CommitCompact,
     CommitEnd, Compact, CompactError, SkipSource, DownloadShort, SaveError, Kill
<1> QED
  BY <1>1, <1>2, <1>3

(* The saved records of a command other than pull, and its own ones. *)
LEMMA SameFiles ==
  ASSUME TypeOK, LedgerInv, pc # "idle", cmd.op # "pull"
  PROVE  /\ DOMAIN cmd.files = DOMAIN saved.files
         /\ \A i \in DOMAIN saved.files : /\ cmd.files[i].file = saved.files[i].file
                                          /\ saved.files[i].pushed => cmd.files[i].pushed
<1>1. Marks(saved.files, cmd.files)
  BY DEF LedgerInv
<1> QED
  BY <1>1, SameDomain DEF Marks

(* What backs a mark on a record of a DataService's file is the file itself. *)
LEMMA BackedByItself ==
  ASSUME NamesDistinct, NEW f \in File \ Report, Backed(f)
  PROVE  Delivered(f) \/ f \in unsent
BY DEF NamesDistinct, Backed, Namesakes

(* commit deletes files only that are delivered, awaited or unsent. *)
LEMMA DeletesKept ==
  ASSUME NamesDistinct, TypeOK, LedgerInv, MarksTrue, Deletes, Record1.file \notin Report
  PROVE  /\ Record1.file \in File
         /\ Delivered(Record1.file) \/ Awaited(Record1.file) \/ Record1.file \in unsent
<1>1. cmd.idx \in DOMAIN cmd.files /\ pc # "idle" /\ cmd.op # "pull"
  BY DEF Deletes, LedgerInv, Phases
<1>2. cmd.idx \in DOMAIN saved.files /\ saved.files[cmd.idx].file = Record1.file
  BY <1>1, SameFiles DEF Record1
<1>3. Backed(Record1.file) \/ Awaited(Record1.file)
  BY <1>2 DEF MarksTrue, Awaited
<1>4. cmd.files \in Seq(Record)
  BY DEF TypeOK, Cmd
<1>5. cmd.files[cmd.idx] \in Record
  BY <1>1, <1>4
<1>6. Record1.file \in File
  BY <1>5 DEF Record1, Record
<1> QED
  BY <1>3, <1>6, BackedByItself

(* Saving forgets an awaited file only if it is delivered or unsent. *)
LEMMA SaveKeeps ==
  ASSUME NamesDistinct, TypeOK, LedgerInv, MarksTrue, PullAgrees, Save,
         NEW f \in File \ Report, Awaited(f)
  PROVE  \/ Delivered(f) \/ f \in unsent
         \/ \E i \in DOMAIN saved'.files : saved'.files[i].file = f /\ ~saved'.files[i].pushed
<1>1. pc # "idle" /\ saved'.files = cmd.files
  BY DEF Save
<1>2. PICK i \in DOMAIN saved.files : saved.files[i].file = f /\ ~saved.files[i].pushed
  BY DEF Awaited
<1>3. \E j \in DOMAIN cmd.files : cmd.files[j].file = f
  BY <1>1, <1>2, SameFiles DEF PullAgrees, Stands
<1>4. \A j \in DOMAIN cmd.files : cmd.files[j].file = f /\ cmd.files[j].pushed => Backed(f)
  BY DEF MarksTrue
<1> QED
  BY <1>1, <1>3, <1>4, BackedByItself

(* Saving makes a file awaited only if its source still has it. *)
LEMMA SaveTakes ==
  ASSUME TypeOK, LedgerInv, PullAgrees, Save, NEW i \in DOMAIN saved'.files, ~saved'.files[i].pushed
  PROVE  Awaited(saved'.files[i].file) \/ atSource[saved'.files[i].file] = "listed"
<1>1. pc # "idle" /\ saved'.files = cmd.files
  BY DEF Save
<1>2. CASE cmd.op = "pull"
  BY <1>1, <1>2 DEF PullAgrees
<1>3. CASE cmd.op # "pull"
  BY <1>1, <1>3, SameFiles DEF Awaited
<1> QED
  BY <1>2, <1>3

(* Every step keeps what is deleted delivered, awaited or unsent. *)
LEMMA KeptStep ==
  NamesDistinct /\ TypeOK /\ LedgerInv /\ MarksTrue /\ PullAgrees /\ Kept /\ LedgerInv' /\ [Next]_vars
    => Kept'
<1> SUFFICES ASSUME NamesDistinct, TypeOK, LedgerInv, MarksTrue, PullAgrees, Kept, LedgerInv',
                    [Next]_vars, NEW f \in File, atSource'[f] = "deleted"
             PROVE  Delivered(f)' \/ Awaited(f)' \/ f \in unsent'
    BY DEF Kept
<1>a. f \in File \ Report
  BY DEF LedgerInv, ListingHolds
<1>1. Delivered(f) \/ f \in unsent => Delivered(f)' \/ f \in unsent'
  BY OutcomesGrow DEF Delivered
<1>2. UNCHANGED saved /\ Awaited(f) => Awaited(f)'
  BY DEF Awaited
<1>3. Save /\ Awaited(f) => Delivered(f) \/ f \in unsent \/ Awaited(f)'
  BY <1>a, SaveKeeps DEF Awaited
<1>4. CASE atSource[f] = "deleted"
  BY <1>1, <1>2, <1>3, <1>4, OnlySaveSaves DEF Kept
<1>5. CASE atSource[f] # "deleted"
  <2>1. DeleteOk \/ DeleteError
    BY <1>5, StepKinds DEF DeletedFiles, Save, UploadOk, UploadError, UploadUnsent
  <2>2. Deletes /\ f = Record1.file /\ UNCHANGED saved
    BY <1>5, <2>1 DEF DeleteOk, DeleteError, TypeOK
  <2> QED
    BY <1>1, <1>2, <1>a, <2>2, DeletesKept
<1> QED
  BY <1>4, <1>5

-----------------------------------------------------------------------------
(* The invariant *)

(* It holds initially: there is no bundle and no record. *)
LEMMA CustodyInit == Init => CustodyInv
<1> SUFFICES ASSUME Init PROVE CustodyInv
  OBVIOUS
<1>1. /\ tar = Empty /\ cmd = NoCmd /\ saved = [named |-> FALSE, files |-> <<>>] /\ pc = "idle"
      /\ \A f \in File : atSource[f] # "deleted"
  BY DEF Init
<1> QED
  BY <1>1 DEF CustodyInv, EntriesInv, BundleSound, MarksTrue, PullAgrees, EntriesKept, Kept, Empty, NoCmd, Whole

(* In every state, between the commands and at every step of them, the bundle *)
(* is whole and its entries, the marks and the records agree, whether or not  *)
(* files share names, if nothing cuts into the bundle.                        *)
THEOREM EntriesInvariant ==
  ASSUME KeysDistinct, WholeWrites
  PROVE  Spec => [](TypeOK /\ LedgerInv /\ EntriesInv)
<1>1. Init => TypeOK /\ LedgerInv /\ EntriesInv
  BY TypeInit, LedgerInit, CustodyInit DEF CustodyInv
<1>2. TypeOK /\ LedgerInv /\ EntriesInv /\ [Next]_vars => TypeOK' /\ LedgerInv' /\ EntriesInv'
  <2> SUFFICES ASSUME TypeOK, LedgerInv, EntriesInv, [Next]_vars
               PROVE  TypeOK' /\ LedgerInv' /\ EntriesInv'
    OBVIOUS
  <2>1. BundleSound /\ MarksTrue /\ PullAgrees /\ EntriesKept
    BY DEF EntriesInv
  <2>2. TypeOK' /\ LedgerInv'
    BY TypeStep, LedgerStep
  <2>3. BundleSound' /\ MarksTrue'
    BY <2>1, BundleStep, MarksStep
  <2>4. PullAgrees' /\ EntriesKept'
    BY <2>1, AgreeStep, EntriesStep
  <2> QED
    BY <2>2, <2>3, <2>4 DEF EntriesInv
<1> QED
  BY <1>1, <1>2, PTL DEF Spec

(* And what is deleted at its source is delivered, awaited or unsent, if the  *)
(* names of DataServices' files are their own.                                *)
THEOREM CustodyInvariant ==
  ASSUME KeysDistinct, NamesDistinct, WholeWrites
  PROVE  Spec => [](TypeOK /\ LedgerInv /\ CustodyInv)
<1>1. Init => Kept
  BY CustodyInit DEF CustodyInv
<1>2. TypeOK /\ LedgerInv /\ EntriesInv /\ LedgerInv' /\ Kept /\ [Next]_vars => Kept'
  BY KeptStep DEF EntriesInv
<1>3. EntriesInv /\ Kept => CustodyInv
  BY DEF CustodyInv
<1> QED
  BY <1>1, <1>2, <1>3, EntriesInvariant, PTL DEF Spec

(* A name that has an entry has an intact one that a compaction keeps. *)
LEMMA EntryInBundle ==
  ASSUME TypeOK, BundleSound, NEW f \in File, HasEntry(f)
  PROVE  \E g \in Namesakes(f) : InBundle(g)
<1>a. tar.entries \in Seq(Entry)
  BY DEF TypeOK, Bundle
<1>b. \A i \in DOMAIN tar.entries : tar.entries[i] \in Entry /\ tar.entries[i].good
  BY <1>a DEF BundleSound, Whole
<1> DEFINE I == {i \in DOMAIN tar.entries : NameOf[tar.entries[i].file] = NameOf[f]}
<1>1. I # {} /\ I \in SUBSET DOMAIN tar.entries
  BY DEF HasEntry
<1>2. PICK i \in I : \A j \in I : ~(j > i)
  <2> HIDE DEF I
  <2> QED
    BY <1>a, <1>1, LastIndex
<1>3. \A j \in DOMAIN tar.entries : j > i => EntryName(tar.entries, j) # EntryName(tar.entries, i)
  BY <1>2 DEF EntryName
<1>4. i \in KeptIndexes(tar.entries, AllNames)
  BY <1>2, <1>3 DEF KeptIndexes, AllNames, EntryName
<1>5. PICK g \in File : tar.entries[i] = [file |-> g, good |-> TRUE]
  BY <1>b, <1>2 DEF Entry
<1>6. g \in Namesakes(f) /\ InBundle(g)
  BY <1>2, <1>4, <1>5 DEF InBundle, Namesakes
<1> QED
  BY <1>6

-----------------------------------------------------------------------------
(* The properties *)

(* A record marked Pushed tells the truth: the marketplace has the intact     *)
(* content of a file of its name, or an upload of one sent nothing and passed *)
(* for a success.                                                             *)
THEOREM PushesTrue ==
  ASSUME KeysDistinct, WholeWrites
  PROVE  Spec => []PushedIsAccepted
<1>1. EntriesInv => PushedIsAccepted
  BY DEF EntriesInv, MarksTrue, PushedIsAccepted, Claims, Backed
<1> QED
  BY <1>1, EntriesInvariant, PTL

(* Every record that is still to be pushed finds an intact entry of its name, *)
(* whether or not files share names.                                          *)
THEOREM RecordsBacked ==
  ASSUME KeysDistinct, WholeWrites
  PROVE  Spec => []RecordsHaveEntries
<1>1. TypeOK /\ EntriesInv => RecordsHaveEntries
  BY EntryInBundle DEF EntriesInv, EntriesKept, RecordsHaveEntries, Awaited
<1> QED
  BY <1>1, EntriesInvariant, PTL

(* A file that is deleted at its source is with the marketplace, or intact in *)
(* the bundle under a record that makes the next push upload it, or an upload *)
(* of it sent nothing and passed for a success: in whatever order the         *)
(* commands run, fail and are killed.                                         *)
THEOREM FilesSafe ==
  ASSUME KeysDistinct, NamesDistinct, WholeWrites
  PROVE  Spec => []NothingLost
<1>1. LedgerInv /\ CustodyInv /\ RecordsHaveEntries => NothingLost
  <2> SUFFICES ASSUME LedgerInv, CustodyInv, RecordsHaveEntries,
                      NEW f \in File, atSource[f] = "deleted"
               PROVE  Delivered(f) \/ Held(f) \/ f \in unsent
      BY DEF NothingLost
  <2>1. f \notin Report
    BY DEF LedgerInv, ListingHolds
  <2>2. Awaited(f) => InBundle(f)
    BY <2>1 DEF RecordsHaveEntries, NamesDistinct, Namesakes
  <2> QED
    BY <2>2 DEF CustodyInv, Kept, Held
<1> QED
  BY <1>1, CustodyInvariant, RecordsBacked, PTL

(* An uploaded entry is an intact one of some file. *)
LEMMA UploadedWhole ==
  ASSUME TypeOK, BundleSound, cmd.idx \in DOMAIN cmd.walk
  PROVE  \E f \in File : Entry1 = [file |-> f, good |-> TRUE]
<1>1. cmd.walk \in Seq(Entry)
  BY DEF TypeOK, Cmd
<1>2. Entry1 \in Entry /\ Entry1.good
  BY <1>1 DEF BundleSound, Whole, Entry1
<1> QED
  BY <1>2 DEF Entry

(* What push marks is a record that was still to be pushed: of a DataService's *)
(* file, the config awaits it.                                                 *)
LEMMA MarkedAwaited ==
  ASSUME NamesDistinct, TypeOK, LedgerInv, pc = "upload", cmd.mode # "file",
         NEW f \in File \ Report, Entry1.file = f, Marked(TRUE, "Ok")
  PROVE  Awaited(f)
<1>1. PICK i \in LastRecord : ~cmd.files[i].pushed
  BY DEF Marked, MarkedFile
<1>2. i \in DOMAIN cmd.files /\ NameOf[cmd.files[i].file] = NameOf[f]
  BY <1>1 DEF LastRecord
<1>3. cmd.files[i].file \in File
  <2>1. cmd.files \in Seq(Record)
    BY DEF TypeOK, Cmd
  <2>2. cmd.files[i] \in Record
    BY <1>2, <2>1
  <2> QED
    BY <2>2 DEF Record
<1>4. cmd.files[i].file = f
  BY <1>2, <1>3 DEF NamesDistinct
<1>5. cmd.op # "pull"
  BY DEF LedgerInv, Phases
<1> QED
  BY <1>1, <1>2, <1>4, <1>5, SameFiles DEF Awaited

(* Every step of the lifecycle is a step of the custody contract. *)
LEMMA CustodyRefines ==
  NamesDistinct /\ TypeOK /\ LedgerInv /\ CustodyInv /\ RecordsHaveEntries /\ RecordsHaveEntries'
    /\ [Next]_vars => [Custody!Next]_(Custody!vars)
<1> SUFFICES ASSUME NamesDistinct, TypeOK, LedgerInv, CustodyInv, RecordsHaveEntries,
                    RecordsHaveEntries', [Next]_vars
             PROVE  Custody!Next \/ UNCHANGED Custody!vars
    OBVIOUS
<1> DEFINE held == {f \in File : Held(f)}
           delivered == {f \in File : Delivered(f)}
<1>a. BundleSound /\ MarksTrue /\ PullAgrees /\ Kept
  BY DEF CustodyInv, EntriesInv
<1>b. /\ \A f \in File \ Report : f \in held <=> Awaited(f)
      /\ \A f \in File \ Report : f \in held' <=> Awaited(f)'
  BY DEF RecordsHaveEntries, Held, NamesDistinct, Namesakes
<1>c. ASSUME UNCHANGED <<saved, tar>> PROVE held' = held
  BY <1>c DEF Held, InBundle, Awaited
<1>d. ASSUME UNCHANGED accepted PROVE delivered' = delivered
  BY <1>d DEF Delivered
<1>e. DeletedFiles \cap Report = {}
  BY DEF LedgerInv, ListingHolds, DeletedFiles
<1>f. ASSUME UNCHANGED <<accepted, unsent, DeletedFiles>>,
             \A f \in File \ Report : Awaited(f)' => Awaited(f) \/ atSource[f] = "listed",
             \A f \in File \ Report : Awaited(f) => Delivered(f) \/ f \in unsent \/ Awaited(f)'
      PROVE  Custody!Next
  <2>1. (held' \ held) \cap DeletedFiles = {}
    BY <1>b, <1>e, <1>f DEF DeletedFiles
  <2>2. (held \ held') \cap DeletedFiles \subseteq delivered \cup unsent
    BY <1>b, <1>e, <1>f DEF DeletedFiles
  <2>3. Custody!Update
    BY <1>d, <1>f, <2>1, <2>2 DEF Custody!Update
  <2> QED
    BY <2>3 DEF Custody!Next
<1>1. CASE UNCHANGED <<saved, accepted, unsent, DeletedFiles>>
  BY <1>1, <1>f DEF Awaited
<1>2. CASE Save
  <2>1. UNCHANGED <<DeletedFiles, accepted, unsent>>
    BY <1>2 DEF Save, DeletedFiles
  <2>2. ASSUME NEW f \in File \ Report, Awaited(f)' PROVE Awaited(f) \/ atSource[f] = "listed"
    BY <1>2, <1>a, <2>2, SaveTakes DEF Awaited
  <2>3. ASSUME NEW f \in File \ Report, Awaited(f)
        PROVE  Delivered(f) \/ f \in unsent \/ Awaited(f)'
    BY <1>2, <1>a, <2>3, SaveKeeps DEF Awaited
  <2> QED
    BY <1>f, <2>1, <2>2, <2>3
<1>g. ASSUME NEW f \in File, pc = "upload", cmd.idx \in DOMAIN cmd.walk,
             Entry1 = [file |-> f, good |-> TRUE]
      PROVE  f \in held \cup unsent \/ f \notin DeletedFiles \/ Delivered(f)
  BY <1>a, <1>b, <1>e DEF Kept, DeletedFiles
<1>3. ASSUME pc = "upload", cmd.idx \in DOMAIN cmd.walk, UNCHANGED <<saved, tar, unsent, atSource>>,
             accepted' = accepted \/ accepted' = accepted \cup {Entry1}
      PROVE  Custody!Next \/ UNCHANGED Custody!vars
  <2>1. PICK f \in File : Entry1 = [file |-> f, good |-> TRUE]
    BY <1>3, <1>a, UploadedWhole
  <2>2. UNCHANGED DeletedFiles
    BY <1>3 DEF DeletedFiles
  <2>3. CASE Delivered(f) \/ accepted' = accepted
    BY <1>1, <1>3, <2>1, <2>2, <2>3 DEF Delivered
  <2>4. CASE ~Delivered(f) /\ accepted' = accepted \cup {Entry1}
    <3>1. f \in held \cup unsent \/ f \notin DeletedFiles
      BY <1>3, <1>g, <2>1, <2>4
    <3>2. delivered' = delivered \cup {f}
      BY <2>1, <2>4 DEF Delivered
    <3>3. Custody!Deliver(f)
      BY <1>3, <1>c, <2>2, <3>1, <3>2 DEF Custody!Deliver
    <3> QED
      BY <3>3 DEF Custody!Next
  <2> QED
    BY <1>3, <2>3, <2>4
<1>4. CASE UploadOk \/ UploadError
  BY <1>3, <1>4 DEF UploadOk, UploadError
<1>5. CASE UploadUnsent
  <2>1. /\ pc = "upload" /\ cmd.idx \in DOMAIN cmd.walk /\ Marked(TRUE, "Ok")
        /\ UNCHANGED <<saved, tar, accepted, DeletedFiles>>
    BY <1>5 DEF UploadUnsent, DeletedFiles
  <2>2. CASE cmd.mode = "file"
    BY <1>1, <1>5, <2>1, <2>2 DEF UploadUnsent
  <2>3. CASE cmd.mode # "file"
    <3>1. PICK f \in File : Entry1 = [file |-> f, good |-> TRUE]
      BY <1>a, <2>1, UploadedWhole
    <3>2. unsent' = unsent \cup {f}
      BY <1>5, <2>3, <3>1 DEF UploadUnsent
    <3>3. f \in held \cup unsent \/ f \notin DeletedFiles
      <4>1. CASE f \in Report
        BY <1>e, <4>1
      <4>2. CASE f \in File \ Report
        BY <1>b, <2>1, <2>3, <3>1, <4>2, MarkedAwaited
      <4> QED
        BY <4>1, <4>2
    <3>4. Custody!Mistake(f)
      BY <1>c, <1>d, <2>1, <3>2, <3>3 DEF Custody!Mistake
    <3> QED
      BY <3>4 DEF Custody!Next
  <2> QED
    BY <2>2, <2>3
<1>6. ASSUME Deletes, Record1.file \notin Report, UNCHANGED <<saved, tar, accepted, unsent>>,
             atSource' = [atSource EXCEPT ![Record1.file] = "deleted"]
      PROVE  Custody!Next \/ UNCHANGED Custody!vars
  <2>1. Record1.file \in File /\ Record1.file \in held \cup delivered \cup unsent
    BY <1>6, <1>a, <1>b, DeletesKept
  <2>2. DeletedFiles' = DeletedFiles \cup {Record1.file}
    BY <1>6, <2>1 DEF DeletedFiles, TypeOK
  <2>3. Custody!Release(Record1.file)
    BY <1>6, <1>c, <1>d, <2>1, <2>2 DEF Custody!Release
  <2> QED
    BY <2>1, <2>3 DEF Custody!Next
<1>7. CASE DeleteOk \/ DeleteError
  <2>1. CASE UNCHANGED atSource
    BY <1>1, <1>7, <2>1 DEF DeleteOk, DeleteError, DeletedFiles
  <2> QED
    BY <1>6, <1>7, <2>1 DEF DeleteOk, DeleteError
<1> QED
  BY <1>1, <1>2, <1>4, <1>5, <1>7, StepKinds

(* The commands implement the custody contract: what the config and the       *)
(* bundle hold, what is deleted, what is delivered and what is taken for sent *)
(* only ever change as ExportCustody allows.                                  *)
THEOREM CustodyImplemented ==
  ASSUME KeysDistinct, NamesDistinct, WholeWrites
  PROVE  Spec => ImplementsCustody
<1>1. Init => Custody!Init
  BY DEF Init, Custody!Init, Held, Awaited, Delivered, DeletedFiles
<1> QED
  BY <1>1, CustodyRefines, CustodyInvariant, RecordsBacked, PTL DEF Spec, ImplementsCustody, Custody!Spec

(* A file deleted at its source is delivered or held, without exception. *)
StrictlyKept == \A f \in File : atSource[f] = "deleted" => Delivered(f) \/ Held(f)

(* Where no deadline ends an upload before its first post, no file is taken   *)
(* for sent, and the files are safe without that exception.                   *)
THEOREM FilesSafeInTime ==
  ASSUME KeysDistinct, NamesDistinct, WholeWrites, "late" \notin Faults
  PROVE  Spec => []StrictlyKept
<1>1. Init => unsent = {}
  BY DEF Init
<1>2. TypeOK /\ unsent = {} /\ [Next]_vars => (unsent = {})'
  BY StepKinds DEF Save, UploadOk, UploadError, UploadUnsent, DeleteOk, DeleteError, Fault
<1>3. unsent = {} /\ NothingLost => StrictlyKept
  BY DEF NothingLost, StrictlyKept
<1> QED
  BY <1>1, <1>2, <1>3, TypeCorrect, FilesSafe, PTL DEF Spec
=============================================================================
