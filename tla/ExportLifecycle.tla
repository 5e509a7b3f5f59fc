--------------------------- MODULE ExportLifecycle ---------------------------
(***************************************************************************)
(* The three commands of datactl that move metering files from the clusters *)
(* to IBM Software Central: `export pull`, `export push`, `export commit`.  *)
(*                                                                          *)
(*   - pull downloads the files every DataService source lists (and one     *)
(*     report of every ILMT source) into the active tar bundle, and records *)
(*     them in the datactl config file;                                     *)
(*   - push uploads the bundle's entries and records the outcome;           *)
(*   - commit deletes the recorded files on the DataService they came from. *)
(*                                                                          *)
(* One command runs at a time.  A command works on a copy of the records it *)
(* loaded when it started; only its last step, ModifyConfig, writes them    *)
(* back.  The bundle, the servers and the marketplace change on the way.    *)
(* The process may be killed between any two steps.                         *)
(***************************************************************************)
EXTENDS Naturals, Sequences, FiniteSets, SequencesExt

CONSTANTS
  File,        \* the pieces of metering data that exist: DataService files and ILMT reports
  Report,      \* the ones among them that an ILMT source produces: they have no Id
  Source,      \* the configured sources
  SourceOf,    \* the source that holds a file
  NameOf,      \* FileInfo.Name, the name of the file's entry in the bundle
  KeyOf,       \* FileInfo.Name+Source+SourceType, what Pull merges records by
  NoSource,    \* no source is being worked on, or no --source-name is given
  Faults,      \* the kinds of fault that may happen
  Cuts,        \* where a download may be cut off: the tails it may leave
  MaxFaults,   \* bound: how many faults happen
  MaxRecords,  \* bound: the length MeteringExport.Files may reach
  Disciplined  \* the operator only commits right after a push without errors

FaultKinds == {"kill",     \* the process dies
               "tear",     \* the process dies between two writes of pull, or before its Close
               "skip",     \* a source cannot be reached (FromSource, ListFiles, FetchUsageData)
               "short",    \* a download ends before FileInfo.Size bytes were written
               "oversize", \* a download carries more than FileInfo.Size bytes
               "refuse",   \* an upload or a delete fails and has no effect
               "lose",     \* an upload or a delete takes effect and the answer is lost
               "late",     \* a deadline ends an upload before its first post
               "trim",     \* Compact cannot read on and takes what it has for the whole
               "save"}     \* Compact or ModifyConfig fails (disk, lock file)

ASSUME ConstantsAssumption ==
  /\ Report \subseteq File
  /\ SourceOf \in [File -> Source]
  /\ \A r \in Report, f \in File : SourceOf[r] = SourceOf[f] => f \in Report
  /\ NoSource \notin Source
  /\ Faults \subseteq FaultKinds
  /\ Cuts \subseteq {"stub", "cut", "torn"}
  /\ MaxFaults \in Nat
  /\ MaxRecords \in Nat
  /\ Disciplined \in BOOLEAN

VARIABLES
  atSource,  \* per file: not produced yet, listed by its source, or deleted there
  accepted,  \* the entries the marketplace has accepted
  unsent,    \* history: the files marked Pushed by an upload that sent nothing
  tar,       \* the bundle file of the active export
  saved,     \* the active export in the config file: has it a FileName, and its Files
  pc,        \* where the running command stands; "idle" when none runs
  cmd,       \* the running command's memory
  clean,     \* the last command was a push that printed no error
  faults     \* how many faults have happened

vars == <<atSource, accepted, unsent, tar, saved, pc, cmd, clean, faults>>

-----------------------------------------------------------------------------
(* Data *)

Ilmt == {SourceOf[r] : r \in Report}

Entry == [file : File, good : BOOLEAN]

(* FileInfoCTLAction: what the config file says about a file. *)
Record == [file : File, pushed : BOOLEAN, committed : BOOLEAN, result : {"", "Ok", "Error", "DryRun"}]

(* What follows the last complete entry of a bundle:                        *)
(*   sealed  the two zero blocks of a closed tar (or the file is empty);    *)
(*   stub    the first entry of a session, cut before it outgrew the old    *)
(*           trailer, so that the end of the file has not moved;            *)
(*   open    nothing: the session that wrote it never closed it;            *)
(*   cut     the bare header of an entry whose data never came;             *)
(*   torn    an entry cut later than that, or bytes that are no entry.      *)
Tails == {"sealed", "stub", "open", "cut", "torn"}

Bundle == [entries : Seq(Entry), tail : Tails]

Op == {"pull", "push", "commit"}
Mode == {"normal", "dry", "file"}

Loc == {"idle", "sources", "download", "upload", "csources", "delete",
        "ccompact", "compact", "save"}

Cmd == [op : Op, mode : Mode,
        files : Seq(Record),   \* currentMeteringExport.Files, in memory
        new : Seq(Record),     \* Pull: the files listed by the current source
        sources : SUBSET Source, src : Source \cup {NoSource}, list : SUBSET File,
        idx : Nat,             \* the entry or record the loop is at
        walk : Seq(Entry),     \* what WalkTar reads
        wrote : BOOLEAN,       \* this session has written to the bundle
        short : BOOLEAN,       \* the tar writer is still owed bytes of its last entry
        closed : BOOLEAN,      \* the bundle's file handle is closed
        errs : BOOLEAN]        \* push has seen an upload error

NewRecord(f, r) == [file |-> f, pushed |-> FALSE, committed |-> FALSE, result |-> r]

(* What push and commit write into a record. *)
Seen(r, result) == [r EXCEPT !.result = result]
PushOutcome(r, pushed, result) == [r EXCEPT !.pushed = pushed, !.result = result]
CommitOutcome(r, committed, result) == [r EXCEPT !.committed = committed, !.result = result]

-----------------------------------------------------------------------------
(* The bundle (bundle_file.go over archive/tar) *)

(* An empty file, as NewBundle creates it. *)
Empty == [entries |-> <<>>, tail |-> "sealed"]

(* WalkTar reaches the end of the file without an error. *)
Readable(b) == b.tail \in {"sealed", "open"}

(* The seek to 1024 bytes before the end lands in the last complete entry.  *)
Misplaced(b) == b.tail \in {"open", "cut"}

SpoilLast(es) == [i \in DOMAIN es |-> IF i = Len(es) THEN [es[i] EXCEPT !.good = FALSE]
                                                     ELSE es[i]]

(* The bundle once a session has written its first byte, or, of a session   *)
(* that has written before, the bundle as it is.                            *)
Base(b, wrote) ==
  IF ~wrote /\ Misplaced(b) THEN [entries |-> SpoilLast(b.entries), tail |-> "torn"] ELSE b

(* A complete entry is written. *)
Written(b, wrote, e) ==
  LET base == Base(b, wrote)
  IN IF base.tail = "torn" THEN base
                           ELSE [entries |-> Append(base.entries, e), tail |-> "open"]

(* The tails an entry leaves that is cut short, its header written. *)
CutTails(b, wrote) ==
  IF Base(b, wrote).tail = "torn" THEN {"torn"}
  ELSE Cuts \cap IF wrote THEN {"cut", "torn"} ELSE {"stub", "torn"}

CutShort(b, wrote, t) == [Base(b, wrote) EXCEPT !.tail = t]

(* tar.Writer.Close: two zero blocks at the writer's position. *)
Sealed(b, wrote) ==
  CASE wrote /\ b.tail = "open"  -> [b EXCEPT !.tail = "sealed"]
    [] ~wrote /\ b.tail = "stub" -> [b EXCEPT !.tail = "sealed"]
    [] ~wrote /\ Misplaced(b)    -> [entries |-> SpoilLast(b.entries), tail |-> "open"]
    [] OTHER                     -> b

EntryName(es, i) == NameOf[es[i].file]

(* Compact keeps the last entry of every name, if fileNames has the name. *)
KeptIndexes(es, names) ==
  {i \in DOMAIN es : /\ EntryName(es, i) \in names
                     /\ \A j \in DOMAIN es : j > i => EntryName(es, j) # EntryName(es, i)}

Ascending(s) == \A i, j \in DOMAIN s : i < j => s[i] < s[j]

(* The sequences a compaction may produce: there is one. *)
Compactions(es, names) ==
  {[k \in DOMAIN s |-> es[s[k]]] : s \in {t \in SetToSeqs(KeptIndexes(es, names)) : Ascending(t)}}

AllNames == {NameOf[f] : f \in File}
RecordNames(rs) == {NameOf[rs[i].file] : i \in DOMAIN rs}

-----------------------------------------------------------------------------
(* Environment and faults *)

Fault(kind) == /\ kind \in Faults
               /\ faults < MaxFaults
               /\ faults' = faults + 1

(* The metering operator puts a new file on the DataService. *)
Produce(f) ==
  /\ atSource[f] = "unborn"
  /\ atSource' = [atSource EXCEPT ![f] = "listed"]
  /\ UNCHANGED <<accepted, unsent, tar, saved, pc, cmd, clean, faults>>

NoCmd == [op |-> "pull", mode |-> "normal", files |-> <<>>, new |-> <<>>,
          sources |-> {}, src |-> NoSource, list |-> {}, idx |-> 1, walk |-> <<>>,
          wrote |-> FALSE, short |-> FALSE, closed |-> FALSE, errs |-> FALSE]

(* The command returns: its memory is gone. *)
Exit == /\ pc' = "idle"
        /\ cmd' = NoCmd

(* The process is killed.  During a download that may leave part of an entry. *)
Kill ==
  /\ pc # "idle"
  /\ Exit
  /\ \/ /\ Fault(IF cmd.wrote /\ ~cmd.closed THEN "tear" ELSE "kill")
        /\ UNCHANGED tar
     \/ /\ Fault("kill")
        /\ pc = "download" /\ cmd.list # {} /\ ~cmd.short
        /\ \E t \in CutTails(tar, cmd.wrote) :
             tar' = CutShort(tar, cmd.wrote, t)
  /\ UNCHANGED <<atSource, accepted, unsent, saved, clean>>

(* Slip: the bundle is opened with O_TRUNC. *)
StartTruncating(op, mode, at, sources) ==
  /\ pc = "idle"
  /\ pc' = at
  /\ tar' = Empty
  /\ cmd' = [NoCmd EXCEPT !.op = op, !.mode = mode, !.files = saved.files, !.sources = sources]
  /\ UNCHANGED <<atSource, accepted, unsent, saved, faults>>

(* Complete: load the export and open its bundle.  An export without a file *)
(* name gets a new file, which the config names once the command saves it;  *)
(* no export refers any more to the file of a command that did not.         *)
Start(op, mode, at, sources) ==
  /\ pc = "idle"
  /\ pc' = at
  /\ LET bundle == IF saved.named THEN tar ELSE Empty
     IN /\ tar' = bundle
        /\ cmd' = [NoCmd EXCEPT !.op = op, !.mode = mode, !.files = saved.files,
                                !.sources = sources,
                                !.walk = IF op = "push" THEN bundle.entries ELSE <<>>]
  /\ UNCHANGED <<atSource, accepted, unsent, saved, faults>>

-----------------------------------------------------------------------------
(* export pull *)

TypeOf(s) == IF s \in Ilmt THEN "ILMT" ELSE "DataService"

(* --source-type and --source-name select the sources either one matches. *)
Selected(type, name) ==
  {s \in Source : \/ type = "any" /\ name = NoSource
                  \/ TypeOf(s) = type
                  \/ s = name}

PullStart(selected) ==
  /\ selected \cap Ilmt # {} => Len(saved.files) < MaxRecords
  /\ Start("pull", "normal", "sources", selected)
  /\ clean' = FALSE

(* ListFiles: what the source has of files not deleted, all pages of it. *)
Listed(s) == {f \in File : SourceOf[f] = s /\ atSource[f] = "listed"}

(* A DataService source answers with its list of files. *)
PullSource(s) ==
  /\ pc = "sources" /\ cmd.op = "pull"
  /\ s \in cmd.sources \ Ilmt
  /\ pc' = "download"
  /\ cmd' = [cmd EXCEPT !.sources = @ \ {s}, !.src = s, !.new = <<>>,
                        !.list = Listed(s)]
  /\ UNCHANGED <<atSource, accepted, unsent, tar, saved, clean, faults>>

(* No client: the source has no endpoint in the config, no valid token or   *)
(* certificate, or its list cannot be had.                                  *)
NoClient == Fault("skip")

(* A source that cannot be reached is passed over. *)
SkipSource(s) ==
  /\ pc \in {"sources", "csources"}
  /\ s \in cmd.sources
  /\ NoClient
  /\ cmd' = [cmd EXCEPT !.sources = @ \ {s}]
  /\ UNCHANGED <<atSource, accepted, unsent, tar, saved, pc, clean>>

(* NewFile and DownloadFile of one listed file, down to its last byte. *)
Download(f) ==
  /\ pc = "download" /\ f \in cmd.list /\ ~cmd.short
  /\ \E good \in BOOLEAN :
       /\ IF good THEN UNCHANGED faults ELSE Fault("oversize")
       /\ tar' = Written(tar, cmd.wrote, [file |-> f, good |-> good])
       /\ cmd' = [cmd EXCEPT !.list = @ \ {f}, !.wrote = TRUE,
                             !.new = Append(@, NewRecord(f, IF good THEN "Ok" ELSE "Error"))]
  /\ UNCHANGED <<atSource, accepted, unsent, saved, pc, clean>>

(* The body ends early.  A broken connection is an error the record shows;  *)
(* a body that is simply too small is not.                                  *)
DownloadShort(f) ==
  /\ pc = "download" /\ f \in cmd.list /\ ~cmd.short
  /\ Fault("short")
  /\ \E t \in CutTails(tar, cmd.wrote), r \in {"Ok", "Error"} :
       /\ tar' = CutShort(tar, cmd.wrote, t)
       /\ cmd' = [cmd EXCEPT !.list = @ \ {f}, !.wrote = TRUE, !.short = TRUE,
                             !.new = Append(@, NewRecord(f, r))]
  /\ UNCHANGED <<atSource, accepted, unsent, saved, pc, clean>>

(* Pull returns an error and merges nothing: the writer refuses a header    *)
(* while the last entry misses bytes, or the next page cannot be listed.    *)
PullAbort ==
  /\ pc = "download"
  /\ \/ cmd.short /\ cmd.list # {} /\ UNCHANGED faults
     \/ Fault("skip")
  /\ pc' = "sources"
  /\ cmd' = [cmd EXCEPT !.new = <<>>, !.list = {}, !.src = NoSource]
  /\ UNCHANGED <<atSource, accepted, unsent, tar, saved, clean>>

(* The entry of every key that is stored last. *)
LastOfKey(rs) == {i \in DOMAIN rs : \A j \in DOMAIN rs :
                    j > i => KeyOf[rs[j].file] # KeyOf[rs[i].file]}

ReplacedBy(new, r) == \E j \in DOMAIN new : KeyOf[new[j].file] = KeyOf[r.file]

(* Slip: `f.Committed || f.Pushed`, the merge drops what is not yet delivered. *)
MergedDroppingEither(old, new) ==
  {new[i] : i \in LastOfKey(new)} \cup
  {old[i] : i \in {j \in LastOfKey(old) : /\ ~(old[j].committed \/ old[j].pushed)
                                         /\ ~ReplacedBy(new, old[j])}}

(* Pull's map: records that are pushed and committed are dropped, and of    *)
(* those with one key the listed one, or else the last, remains.            *)
MergedRecords(old, new) ==
  LET kept == {i \in DOMAIN old : ~(old[i].committed /\ old[i].pushed)}
      last == {i \in kept : \A j \in kept : j > i => KeyOf[old[j].file] # KeyOf[old[i].file]}
  IN {new[i] : i \in LastOfKey(new)} \cup {old[i] : i \in {j \in last : ~ReplacedBy(new, old[j])}}

(* The list is rebuilt by ranging over the map: in any order. *)
PullMerge ==
  /\ pc = "download" /\ cmd.list = {}
  /\ pc' = "sources"
  /\ \E rs \in SetToSeqs(MergedRecords(cmd.files, cmd.new)) :
       cmd' = [cmd EXCEPT !.files = rs, !.new = <<>>, !.src = NoSource]
  /\ UNCHANGED <<atSource, accepted, unsent, tar, saved, clean, faults>>

(* An ILMT source: the report is built in memory, written whole and its     *)
(* record appended; NewFile fails if an earlier source left its entry short. *)
PullReport(f) ==
  /\ pc = "sources" /\ cmd.op = "pull"
  /\ f \in Report /\ SourceOf[f] \in cmd.sources
  /\ IF cmd.short
       THEN /\ cmd' = [cmd EXCEPT !.sources = @ \ {SourceOf[f]}]
            /\ UNCHANGED tar
       ELSE /\ tar' = Written(tar, cmd.wrote, [file |-> f, good |-> TRUE])
            /\ cmd' = [cmd EXCEPT !.sources = @ \ {SourceOf[f]}, !.wrote = TRUE,
                                  !.files = Append(@, NewRecord(f, ""))]
  /\ UNCHANGED <<atSource, accepted, unsent, saved, pc, clean, faults>>

(* bundleFile.Close after the last source: it fails on a short entry, and   *)
(* the command returns without writing the trailer.                         *)
PullClose ==
  /\ pc = "sources" /\ cmd.op = "pull" /\ cmd.sources = {}
  /\ IF cmd.short
       THEN Exit /\ UNCHANGED tar
       ELSE /\ tar' = Sealed(tar, cmd.wrote)
            /\ cmd' = [cmd EXCEPT !.closed = TRUE]
            /\ pc' = "compact"
  /\ UNCHANGED <<atSource, accepted, unsent, saved, clean, faults>>

-----------------------------------------------------------------------------
(* export push *)

PushStart(mode) ==
  /\ Start("push", mode, "upload", {})
  /\ clean' = FALSE

Entry1 == cmd.walk[cmd.idx]

(* files[header.Name]: the last record of that name, if there is one. *)
LastRecord ==
  {i \in DOMAIN cmd.files :
     /\ NameOf[cmd.files[i].file] = NameOf[Entry1.file]
     /\ \A j \in DOMAIN cmd.files : j > i => NameOf[cmd.files[j].file] # NameOf[Entry1.file]}

Shown == IF cmd.mode = "dry" THEN "DryRun" ELSE "Ok"

(* An entry that has no record, is already pushed, or is only shown. *)
PushPass ==
  /\ pc = "upload" /\ cmd.idx \in DOMAIN cmd.walk /\ cmd.mode # "file"
  /\ \/ LastRecord = {} /\ cmd' = [cmd EXCEPT !.idx = @ + 1]
     \/ \E i \in LastRecord :
          /\ cmd.mode = "dry" \/ cmd.files[i].pushed
          /\ cmd' = [cmd EXCEPT !.idx = @ + 1, !.files = ReplaceAt(@, i, Seen(@[i], Shown))]
  /\ UNCHANGED <<atSource, accepted, unsent, tar, saved, pc, clean, faults>>

MarkedFile(pushed) ==
  /\ cmd.mode = "file"
  /\ cmd' = [cmd EXCEPT !.idx = @ + 1, !.errs = @ \/ ~pushed]

(* Slips: the walk uploads pushed files again; `e.dryRun` no longer stops   *)
(* the upload.                                                              *)
MarkedAgain(pushed, result) ==
  \/ MarkedFile(pushed)
  \/ /\ cmd.mode = "normal"
     /\ \E i \in LastRecord :
          cmd' = [cmd EXCEPT !.idx = @ + 1, !.errs = @ \/ ~pushed,
                             !.files = ReplaceAt(@, i, PushOutcome(@[i], pushed, result))]

MarkedDryToo(pushed, result) ==
  \/ MarkedFile(pushed)
  \/ /\ cmd.mode # "file"
     /\ \E i \in LastRecord :
          /\ ~cmd.files[i].pushed
          /\ cmd' = [cmd EXCEPT !.idx = @ + 1, !.errs = @ \/ ~pushed,
                                !.files = ReplaceAt(@, i, PushOutcome(@[i], pushed, result))]

(* What the walk does after Upload returned: --file has no record to mark. *)
Marked(pushed, result) ==
  \/ MarkedFile(pushed)
  \/ /\ cmd.mode = "normal"
     /\ \E i \in LastRecord :
          /\ ~cmd.files[i].pushed
          /\ cmd' = [cmd EXCEPT !.idx = @ + 1, !.errs = @ \/ ~pushed,
                                !.files = ReplaceAt(@, i, PushOutcome(@[i], pushed, result))]

(* Upload of an entry: with --file every entry, else one whose record is    *)
(* not pushed.                                                              *)
UploadOk ==
  /\ pc = "upload" /\ cmd.idx \in DOMAIN cmd.walk
  /\ accepted' = accepted \cup {Entry1}
  /\ Marked(TRUE, "Ok")
  /\ UNCHANGED <<atSource, unsent, tar, saved, pc, clean, faults>>

(* The push's ten minutes, or the upload's one, end before the first post:  *)
(* Upload returns the retry loop's last retryable error, which is nil, and  *)
(* the file passes for one that was sent.  --file has no record to mark.    *)
UploadUnsent ==
  /\ pc = "upload" /\ cmd.idx \in DOMAIN cmd.walk
  /\ Fault("late")
  /\ unsent' = IF cmd.mode = "file" THEN unsent ELSE unsent \cup {Entry1.file}
  /\ Marked(TRUE, "Ok")
  /\ UNCHANGED <<atSource, accepted, tar, saved, pc, clean>>

(* Slip: an upload that fails is taken for a duplicate. *)
UploadErrorAsDuplicate ==
  /\ pc = "upload" /\ cmd.idx \in DOMAIN cmd.walk
  /\ Fault("refuse")
  /\ Marked(TRUE, "Ok")
  /\ UNCHANGED <<atSource, accepted, unsent, tar, saved, pc, clean>>

UploadError ==
  /\ pc = "upload" /\ cmd.idx \in DOMAIN cmd.walk
  /\ \/ Fault("refuse") /\ UNCHANGED accepted
     \/ Fault("lose") /\ accepted' = accepted \cup {Entry1}
  /\ Marked(FALSE, "Error")
  /\ UNCHANGED <<atSource, unsent, tar, saved, pc, clean>>

(* The walk is over.  An unreadable tail fails the command, which forgets   *)
(* what it uploaded; --dry-run and --file stop before anything is saved.    *)
PushEnd ==
  /\ pc = "upload" /\ cmd.idx \notin DOMAIN cmd.walk
  /\ IF ~Readable(tar) \/ cmd.mode # "normal"
       THEN Exit
       ELSE pc' = "compact" /\ UNCHANGED cmd
  /\ UNCHANGED <<atSource, accepted, unsent, tar, saved, clean, faults>>

-----------------------------------------------------------------------------
(* export commit *)

CommitStart(mode) ==
  /\ Disciplined => clean
  /\ Start("commit", mode, "csources", Source)
  /\ UNCHANGED clean

(* A DataService source is committable, an ILMT source is passed over. *)
CommitSource(s) ==
  /\ pc = "csources" /\ s \in cmd.sources
  /\ IF s \in Ilmt
       THEN cmd' = [cmd EXCEPT !.sources = @ \ {s}] /\ UNCHANGED pc
       ELSE /\ cmd' = [cmd EXCEPT !.sources = @ \ {s}, !.src = s, !.idx = 1]
            /\ pc' = "delete"
  /\ UNCHANGED <<atSource, accepted, unsent, tar, saved, clean, faults>>

Record1 == cmd.files[cmd.idx]

(* Slip: the loop no longer skips committed records. *)
DeletesAgain == pc = "delete" /\ cmd.idx \in DOMAIN cmd.files

Deletes == pc = "delete" /\ cmd.idx \in DOMAIN cmd.files /\ ~Record1.committed

CommitPass ==
  /\ pc = "delete" /\ cmd.idx \in DOMAIN cmd.files /\ Record1.committed
  /\ cmd' = [cmd EXCEPT !.idx = @ + 1, !.files = ReplaceAt(@, cmd.idx, Seen(Record1, "Ok"))]
  /\ UNCHANGED <<atSource, accepted, unsent, tar, saved, pc, clean, faults>>

(* DeleteFile on the source being committed, for every record that is not   *)
(* committed: Run passes EmptyOptions, so --dry-run does not stop it here.  *)
DeleteOk ==
  /\ Deletes
  /\ Record1.file \notin Report /\ SourceOf[Record1.file] = cmd.src
  /\ atSource' = [atSource EXCEPT ![Record1.file] = "deleted"]
  /\ cmd' = [cmd EXCEPT !.idx = @ + 1,
                        !.files = ReplaceAt(@, cmd.idx, CommitOutcome(Record1, TRUE, "Ok"))]
  /\ UNCHANGED <<accepted, unsent, tar, saved, pc, clean, faults>>

(* Slip: a failed delete is recorded as committed. *)
DeleteErrorCommits ==
  /\ Deletes
  /\ SourceOf[Record1.file] # cmd.src \/ atSource[Record1.file] = "deleted"
  /\ cmd' = [cmd EXCEPT !.idx = @ + 1,
                        !.files = ReplaceAt(@, cmd.idx, CommitOutcome(Record1, TRUE, "Ok"))]
  /\ UNCHANGED <<atSource, accepted, unsent, tar, saved, pc, clean, faults>>

(* An error: the source does not know the Id (another cluster's file, a     *)
(* report, perhaps a file deleted before), or the call fails.               *)
DeleteError ==
  /\ Deletes
  /\ LET f == Record1.file
         own == f \notin Report /\ SourceOf[f] = cmd.src
     IN \/ /\ ~own \/ atSource[f] = "deleted"
           /\ UNCHANGED <<atSource, faults>>
        \/ own /\ Fault("refuse") /\ UNCHANGED atSource
        \/ own /\ Fault("lose") /\ atSource' = [atSource EXCEPT ![f] = "deleted"]
  /\ cmd' = [cmd EXCEPT !.idx = @ + 1,
                        !.files = ReplaceAt(@, cmd.idx, CommitOutcome(Record1, FALSE, "Error"))]
  /\ UNCHANGED <<accepted, unsent, tar, saved, pc, clean>>

(* The source's Commit closes the bundle; for the second source it is       *)
(* already closed, and Commit returns before it compacts.                   *)
CommitClose ==
  /\ pc = "delete" /\ cmd.idx \notin DOMAIN cmd.files
  /\ IF cmd.closed
       THEN pc' = "csources" /\ UNCHANGED <<tar, cmd>>
       ELSE /\ tar' = Sealed(tar, cmd.wrote)
            /\ cmd' = [cmd EXCEPT !.closed = TRUE]
            /\ pc' = "ccompact"
  /\ UNCHANGED <<atSource, accepted, unsent, saved, clean, faults>>

CommitEnd ==
  /\ pc = "csources" /\ cmd.sources = {}
  /\ pc' = "compact"
  /\ UNCHANGED <<atSource, accepted, unsent, tar, saved, cmd, clean, faults>>

-----------------------------------------------------------------------------
(* Compact and ModifyConfig, the end of every command *)

(* Slip: pull computes fileNames from the records it loaded. *)
CompactNamesLoaded == IF cmd.op = "pull" THEN RecordNames(saved.files) ELSE AllNames

CompactNames == IF cmd.op = "pull" THEN RecordNames(cmd.files) ELSE AllNames

(* The compacted copy replaces the bundle by a rename.  Of the second walk's *)
(* error nothing is left once the copy is closed: what could be read by then *)
(* replaces the bundle too.                                                  *)
Compacts ==
  /\ Readable(tar)
  /\ \E es \in Compactions(tar.entries, CompactNames) : \E n \in 0..Len(es) :
       /\ IF n = Len(es) THEN UNCHANGED faults ELSE Fault("trim")
       /\ tar' = [entries |-> SubSeq(es, 1, n), tail |-> "sealed"]

CompactFails == \/ ~Readable(tar) /\ UNCHANGED faults
                \/ Fault("save")

(* Compact in the source's Commit: an error only ends the source's part. *)
CommitCompact ==
  /\ pc = "ccompact"
  /\ pc' = "csources"
  /\ \/ Compacts
     \/ CompactFails /\ UNCHANGED tar
  /\ UNCHANGED <<atSource, accepted, unsent, saved, cmd, clean>>

(* Compact in the command's Run: `commit --dry-run` compacts and stops. *)
Compact ==
  /\ pc = "compact"
  /\ Compacts
  /\ IF cmd.mode = "dry" THEN Exit ELSE pc' = "save" /\ UNCHANGED cmd
  /\ UNCHANGED <<atSource, accepted, unsent, saved, clean>>

(* On an error Run returns; commit's deferred Close still runs. *)
CompactError ==
  /\ pc = "compact"
  /\ CompactFails
  /\ Exit
  /\ tar' = IF cmd.op = "commit" /\ ~cmd.closed
              THEN Sealed(tar, cmd.wrote) ELSE tar
  /\ UNCHANGED <<atSource, accepted, unsent, saved, clean>>

Save ==
  /\ pc = "save"
  /\ saved' = [named |-> TRUE, files |-> cmd.files]
  /\ clean' = IF cmd.op = "push" THEN ~cmd.errs ELSE clean
  /\ Exit
  /\ UNCHANGED <<atSource, accepted, unsent, tar, faults>>

SaveError ==
  /\ pc = "save"
  /\ Fault("save")
  /\ Exit
  /\ UNCHANGED <<atSource, accepted, unsent, tar, saved, clean>>

-----------------------------------------------------------------------------
Init ==
  /\ atSource = [f \in File |-> IF f \in Report THEN "listed" ELSE "unborn"]
  /\ accepted = {}
  /\ unsent = {}
  /\ tar = Empty
  /\ saved = [named |-> FALSE, files |-> <<>>]
  /\ pc = "idle"
  /\ cmd = NoCmd
  /\ clean = FALSE
  /\ faults = 0

Pull == \/ \E s \in Source : PullSource(s)
        \/ \E f \in File : Download(f)
        \/ PullAbort
        \/ PullMerge
        \/ \E f \in File : PullReport(f)
        \/ PullClose

Push == PushPass \/ UploadOk \/ PushEnd

Commit == \/ \E s \in Source : CommitSource(s)
          \/ CommitPass
          \/ DeleteOk
          \/ DeleteError
          \/ CommitClose
          \/ CommitCompact
          \/ CommitEnd

Finish == Compact \/ CompactError \/ Save

Next == \/ \E f \in File : Produce(f)
        \/ \E type \in {"any", "DataService", "ILMT"}, name \in Source \cup {NoSource} :
             PullStart(Selected(type, name))
        \/ \E mode \in Mode : PushStart(mode)
        \/ \E mode \in {"normal", "dry"} : CommitStart(mode)
        \/ Pull
        \/ Push
        \/ Commit
        \/ Finish
        \/ \E s \in Source : SkipSource(s)
        \/ \E f \in File : DownloadShort(f)
        \/ UploadError
        \/ UploadUnsent
        \/ SaveError
        \/ Kill

Spec == Init /\ [][Next]_vars

(* A running command goes on, and the operator keeps pulling, pushing and   *)
(* committing: README.md, "Recommended approach".  Nothing is assumed of    *)
(* the faults but that MaxFaults bounds them.                               *)
Fairness == /\ WF_vars(Pull \/ Push \/ Commit \/ Finish)
            /\ SF_vars(PullStart(Source))
            /\ SF_vars(PushStart("normal"))
            /\ SF_vars(CommitStart("normal"))

FairSpec == Spec /\ Fairness

-----------------------------------------------------------------------------
(* Properties *)

TypeOK ==
  /\ atSource \in [File -> {"unborn", "listed", "deleted"}]
  /\ accepted \subseteq Entry
  /\ unsent \subseteq File
  /\ tar \in Bundle
  /\ saved \in [named : BOOLEAN, files : Seq(Record)]
  /\ pc \in Loc
  /\ cmd \in Cmd
  /\ clean \in BOOLEAN
  /\ faults \in 0..MaxFaults

Delivered(f) == [file |-> f, good |-> TRUE] \in accepted

(* A compaction would keep an intact copy of f: it is the last of its name. *)
InBundle(f) == \E i \in KeptIndexes(tar.entries, AllNames) :
                 tar.entries[i] = [file |-> f, good |-> TRUE]

(* The config file still asks for f to be uploaded. *)
Awaited(f) == \E i \in DOMAIN saved.files : saved.files[i].file = f /\ ~saved.files[i].pushed

Held(f) == Awaited(f) /\ InBundle(f)

(* A file deleted on its DataService (source_dataservice.go, Commit) is with *)
(* the marketplace, or intact in the bundle under a record that makes the    *)
(* next push upload it: whatever failed, whoever was killed, in whatever     *)
(* order the commands ran.  The exception is a file whose upload sent        *)
(* nothing and passed for a success (metrics.go:262): the mark lets commit   *)
(* and pull give it up.                                                      *)
NothingLost ==
  \A f \in File : atSource[f] = "deleted" => Delivered(f) \/ Held(f) \/ f \in unsent

Claims(rs, f, pushed) ==
  \E i \in DOMAIN rs : rs[i].file = f /\ IF pushed THEN rs[i].pushed ELSE rs[i].committed

(* The files an entry or a record of f's name may be taken for.             *)
Namesakes(f) == {g \in File : NameOf[g] = NameOf[f]}

(* A record marked Pushed (export_push.go, Run) tells the truth: the         *)
(* marketplace has the intact content, or an upload sent nothing and passed  *)
(* for a success.  Pull drops records on its strength.  Push finds the       *)
(* record of an entry by its name, so that the content is a namesake's where *)
(* files share a name, as the reports of two ILMT hosts do.                  *)
PushedIsAccepted ==
  \A f \in File : Claims(saved.files, f, TRUE) \/ Claims(cmd.files, f, TRUE)
                     => \E g \in Namesakes(f) : Delivered(g) \/ g \in unsent

(* A record that still has to be pushed finds an intact entry of its name in *)
(* the bundle: Compact keeps entries by Name, Pull's merge keeps records by  *)
(* Name+Source+SourceType, an ILMT pull adds one without a look at the       *)
(* others, and push finds records by Name.  Where two files share a name     *)
(* (source_ilmt.go:105) there is one entry for both.                         *)
RecordsHaveEntries == \A f \in File : Awaited(f) => \E g \in Namesakes(f) : InBundle(g)

(* The config's ledger: a record marked Committed stays so until pull drops  *)
(* it, which takes that it is Pushed as well (the merge at the end of Pull). *)
CommittedUntilDropped ==
  [][\A i \in DOMAIN saved.files :
       saved.files[i].committed =>
         \/ Claims(saved'.files, saved.files[i].file, FALSE)
         \/ saved.files[i].pushed /\ cmd.op = "pull"]_vars

(* Only a pull that lists the file again makes datactl upload it again: the  *)
(* other commands, failing or not, never take back a saved Pushed.           *)
OnlyPullForgetsAPush ==
  [][\A f \in File : Claims(saved.files, f, TRUE) /\ ~Claims(saved'.files, f, TRUE)
                        => cmd.op = "pull" /\ (atSource[f] = "listed" \/ Claims(saved.files, f, FALSE))]_vars

DeletedFiles == {f \in File : atSource[f] = "deleted"}

(* `push --dry-run`, "No action taken. Print only.", takes no action.        *)
DryPushTakesNoAction ==
  [][pc # "idle" /\ cmd.op = "push" /\ cmd.mode = "dry"
       => UNCHANGED <<accepted, unsent, tar, saved, DeletedFiles>>]_vars

(* `commit --dry-run`, "No action taken. Print only.", takes no action.      *)
DryCommitTakesNoAction ==
  [][pc # "idle" /\ cmd.op = "commit" /\ cmd.mode = "dry"
       => UNCHANGED <<accepted, unsent, saved, DeletedFiles>>]_vars

(* The inductive invariant behind the last four properties, in parts.       *)

(* Which command stands where. *)
Phases ==
  /\ pc \in {"sources", "download"} => cmd.op = "pull"
  /\ pc = "upload" => cmd.op = "push"
  /\ pc \in {"csources", "delete", "ccompact"} => cmd.op = "commit"
  /\ pc # "download" => cmd.list = {} /\ cmd.new = <<>>
  /\ cmd.op = "push" /\ cmd.mode = "dry" => pc \in {"idle", "upload"}

(* What the running pull has listed is still there: nothing but commit deletes. *)
ListingHolds ==
  /\ \A r \in Report : atSource[r] = "listed"
  /\ \A f \in cmd.list : atSource[f] = "listed"
  /\ \A k \in DOMAIN cmd.new : atSource[cmd.new[k].file] = "listed" /\ ~cmd.new[k].committed

(* A record marked Committed tells the truth. *)
Truthful(rs) == \A i \in DOMAIN rs : rs[i].committed => atSource[rs[i].file] = "deleted"

(* A DataService file has one record. *)
OneRecord(rs) == \A i, j \in DOMAIN rs : rs[i].file = rs[j].file /\ rs[i].file \notin Report => i = j

(* The running push or commit has only added marks to the saved records. *)
Marks(old, rs) ==
  /\ Len(rs) = Len(old)
  /\ \A i \in DOMAIN old : /\ rs[i].file = old[i].file
                           /\ old[i].pushed => rs[i].pushed
                           /\ old[i].committed => rs[i].committed

(* The running pull keeps a saved record, drops it, or pulls its file anew. *)
Survives(r, rs) ==
  \/ \E j \in DOMAIN rs : rs[j] = r
  \/ r.pushed /\ r.committed
  \/ atSource[r.file] = "listed"

(* The running command's copy of the records stays a faithful successor of   *)
(* the saved ones, which nobody has changed behind its back: what makes it   *)
(* right for ModifyConfig to overwrite them.                                 *)
LedgerInv ==
  /\ Phases
  /\ ListingHolds
  /\ Truthful(saved.files) /\ Truthful(cmd.files)
  /\ OneRecord(saved.files) /\ OneRecord(cmd.files)
  /\ pc # "idle" => IF cmd.op = "pull"
                      THEN \A i \in DOMAIN saved.files : Survives(saved.files[i], cmd.files)
                      ELSE Marks(saved.files, cmd.files)

(* The commands implement the custody contract, where a file is held as long *)
(* as the bundle and the config together will deliver it.                    *)
Custody == INSTANCE ExportCustody
             WITH held <- {f \in File : Held(f)}, released <- DeletedFiles,
                  delivered <- {f \in File : Delivered(f)}, unsent <- unsent

ImplementsCustody == Custody!Spec

(* Whatever a DataService lists is delivered in the end: a refused upload, a *)
(* lost answer, a command that failed or was killed only delay it.  The      *)
(* exception is a file whose upload sent nothing and passed for a success.   *)
EventuallyDelivered ==
  \A f \in File : atSource[f] = "listed" ~> Delivered(f) \/ f \in unsent

(* And it is deleted there in the end, by the right source's Commit.         *)
EventuallyReleased == \A f \in File \ Report : atSource[f] = "listed" ~> atSource[f] = "deleted"
=============================================================================
