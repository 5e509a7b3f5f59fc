# A verification of datactl

`datactl` (an `oc` plugin) moves metering files from the clusters that produced
them to IBM Software Central: `export pull` downloads them into a local tar
bundle, `export push` uploads the bundle, `export commit` deletes the originals.
Commit cannot be undone, so the question this project asks first is: **can a
file be gone from its cluster and neither be delivered nor be on its way?**
Around it are the others: does a record of the config file tell the truth, does
a day of ILMT usage ever fall between two pulls, does a command that saves the
config save what it meant, does the work end.

TLC checks the models on small instances; TLAPS proves the theorems for every
value of the constants. All line numbers are of the repository's files;
`PROJECT.json` has, for each definition, the lines it models.

## 1. The system

| part | state it keeps | operations | talks to |
|---|---|---|---|
| three export commands (`cmd/datactl/app/metering`) | a copy of the config, loaded at the start | `Complete`, `Validate`, `Run`, `Cleanup` | all of the following |
| bundle (`pkg/bundle`) | the tar file of the active export | open (seek before the trailer), `NewFile`, `Write`, `Close`, `Compact`, `WalkTar` | pull and commit write it, push reads it |
| DataService source (`pkg/sources/source_dataservice.go`) | none of its own: it merges into the records | `Pull`, `Commit` | DataService client, bundle |
| ILMT source (`pkg/sources/source_ilmt.go`) | none | `Pull` | ILMT client, bundle |
| DataService client (`pkg/clients/dataservice`) | the server's files | `ListFiles`, `DownloadFile`, `DeleteFile` | a cluster |
| ILMT client (`pkg/clients/ilmt`) | none | `FetchUsageData`, three requests per day | an ILMT server |
| marketplace client (`pkg/clients/marketplace`) | none | `Upload` (retry loop), `Status` | IBM Software Central |
| config file (`pkg/datactl/config`) | endpoints, sources, upload host, the current export with a record per file | load, `ModifyConfig` under a lock file | every command |
| `sources add`, `config init` | none | add an endpoint and its source; set the upload host | config file |
| client builders, factories, HTTP transport | cached clients and configs | build | the clients |
| service account client (`pkg/clients/serviceaccount`) | none that outlives a call | request a token | the cluster `kubectl` is logged in to |
| printers, command tree, profiling | none | formatting, wiring | - |

How they interact. A command loads the config once and works on that copy for
minutes: `MeteringExport()` is a pointer into it that sources write through. The
bundle, the DataServices and the marketplace change as it goes, the config only
in the last step. So four places, the cluster, the bundle, the marketplace and
the config, have to agree with no transaction over them, and the command can
stop between any two steps.

What is hard about it:

- *crashes and failed steps* between a delete or an upload and the save that
  records it; a bundle that was not closed; a config cut while it is written;
- *unreliable calls*: an upload or delete that took effect and whose answer is
  lost; a request that arrives after the client has given up; an answer that is
  an error status; downloads shorter or longer than listed;
- *retries and deadlines*: the upload's backoff loop inside its timeout inside
  the push's;
- *several ideas of identity*: the bundle's entries are told apart by name, the
  records by name, source and type, an endpoint by context in memory and by
  cluster in the file;
- *overlap*: commands load without the lock and save, each section anew, under it;
- *a calendar*: the next ILMT pull starts where the clock stood at the last;
- *answers that belong together*: a day of ILMT usage is three requests, between
  which ILMT goes on working;
- *credentials*: tokens are kept, expire, and are requested from whatever cluster
  the operator happens to be logged in to.

What makes each part correct:

- *the commands together*: a deleted file is delivered, or intact in the bundle
  under a record that will have it delivered (`NothingLost`);
- *push*: Pushed means that the marketplace holds the content (the code keeps both
  promises but for an upload that sends nothing and passes for a success, section
  5, 3, which the properties name as their exception, `unsent`); the mark is
  final, the file is not sent again; every entry is accounted for;
- *commit*: Committed means deleted, and the mark stays until pull drops it;
- *bundle*: what a record asks for is in it, intact, after any compaction;
- *ILMT pull*: every day before LastPulldate is in a recorded report, and what a
  day reports is true of it;
- *credentials*: a wrong or expired token harms one source, and for a time only;
- *config*: what a command saved undisturbed is what it meant; however
  commands overlap, clusters do not disappear; as long as none saved over
  another's changes, every source has its endpoint;
- *progress*: with the operator repeating the commands, everything is delivered
  and released.

`PROJECT.json` lists 40 places of the code where one of these could go wrong in a
way a test would hardly reach, each with the
properties that watch over it, or the reason why none does.

## 2. The modules

| module | models | state, and where it is in the code |
|---|---|---|
| `ExportCustody` | the contract: held, released, delivered, and what is taken for delivered by mistake | none: it says what an export promises |
| `ExportLifecycle` | the three commands, bundle, sources, records | `tar` the bundle file; `saved` `metering-export-current` in the config; `cmd` the running command's memory (`currentMeteringExport`, the bundle's writer, the loop's place); `atSource` the DataServices; `accepted` the marketplace; `unsent` a history of false successes |
| `MarketplaceUpload` | one push's walk, `Upload` with `retry.OnError`, both deadlines | `attempt`, `last` of the retry loop; `late`, `over` the two contexts; `marked`, `errs` what the walk writes and prints |
| `PushContract` | what repeated pushes promise: one outcome per entry and push | none: it is what `ExportLifecycle` takes an upload for |
| `IlmtPull` | the dates and reports of ILMT pulls | `date` LastPulldate per host; `cmd.start`, `cmd.end` of `Validate`; `records`; `bundle`, `open`, `torn` the reports in the tar and its end |
| `IlmtFetch` | `IlmtPull` with `FetchUsageData` taken apart | `fetch` the loop's variables; `usage` the assignments ILMT answers from; `held` their history |
| `Credentials` | the DataService clients and their tokens | `saved` `token-data` and `token-expiration` of the endpoints; `cmd` the running command's copy, its kubeconfig and its place in the sources; `context` where `kubectl` is logged in |
| `ConfigStore` | the config file under overlapping commands | `disk`, `file` the file and whether it is whole; `lock` the lock file; `run` each command's `rhmRawConfig` and its place in `ModifyConfig` |
| `MC...` | the instances TLC checks | |
| `...Proofs` | the theorems | |

### ExportLifecycle

One action is one step after which another outcome, or the end of the process, is
possible. `Start` (in `PullStart`, `PushStart`, `CommitStart`) is `Complete`: it
loads the records and opens the bundle. Pull then takes the selected sources in any
order (`PullSource`, `SkipSource`, `PullReport`), downloads what each lists
(`Download`, `DownloadShort`, `PullAbort`), merges the list into the records
(`PullMerge`, in any order, as the code ranges over a map), and closes the bundle
(`PullClose`). Push walks the bundle (`PushPass`, `UploadOk`, `UploadError`,
`UploadUnsent`, `PushEnd`). `UploadUnsent` is the success of nothing
(metrics.go:262): a deadline ends the upload before its first post, Upload returns
nil, and the file is marked. Push marks the record it finds by an entry's name
(`LastRecord`), which need not be the entry's own file's where names are shared.
Commit goes through all records once per DataService source (`CommitSource`,
`CommitPass`, `DeleteOk`, `DeleteError`), closes and compacts (`CommitClose`,
`CommitCompact`, `CommitEnd`). All end in `Compact` and `Save`, but `push --dry-run`
and `--file`, which stop before (`PushEnd`), and `commit --dry-run`, which stops in
between. `Kill` may come anywhere; the `Fault`s are the failures of `FaultKinds`.

The bundle is a sequence of entries and the state of its tail. A tar is appended
to by seeking to 1024 bytes before the end (bundle_file.go:70), right only when
the last session closed it: `Tails` names the ways it may not have, `Base` is
where the seek leaves the next session, `Sealed` what its Close does. `Compacts`
keeps the last entry of each recorded name and replaces the bundle; with the fault
`"trim"` it keeps less, since the error of its second walk is overwritten by that of
Close (bundle_file.go:178).

Simplifications, each chosen so that it hides no behaviour a property is about:
entries are longer than the trailer, and a cut is at a block's boundary; one
variable holds the bundle, as an export without a file name starts an empty
one; `push --file` walks the current bundle, as export_push.go:215 does; names
and keys of files differ but in `LifecycleIlmt`, where two hosts' reports share
both, as source_ilmt.go:105 has it; the options pull could pass but does
not (`IncludeDeleted`, `Before`, `After`) are absent; one command runs at a time
and `ModifyConfig` is one step (`ConfigStore` takes both apart); an upload is one
step (`MarketplaceUpload` takes it apart); a source without a client and a request
that is refused are faults (`Credentials` has what leads to them); an ILMT report
is one step (`IlmtFetch`).

### MarketplaceUpload

The walk of `Run` (`Pass`, `Upload`, `EndPush`), the loop (`Post`, `Again`,
`GiveUp`, `Interrupted`), the answers (`Answer`, `AnswerError`, `Broken`,
`LateStore`), the deadlines. The transport is a `spdy.RoundTripper`
(shared.go:42), outside this repository: its use of the context, which bounds
the dialing and not the wait for an answer, is modelled from outside. Hence
`Interrupted` is possible before a post and never after it.

`unsent` is a history variable: the files whose upload a context ended before its
first post, which the code takes for a success. `PushContract` says in four kinds
of step what all this amounts to: an entry arrives, and it has one outcome per
push, a success of what has arrived, an error, or (the defect of section 5, 3) a
success of nothing. `ExportLifecycle`'s `UploadOk` and `UploadError` are the second
and third with the arrival in the same step. `ImplementsPush` maps what is stored or
on its way to `accepted`, and the entry at work to `todo`: it has no outcome yet.

### IlmtPull and IlmtFetch

`ValidateHost` visits every ILMT source, selected or not, in map order; the first
one fixes the dates for all. `Report` is the report of a host, its record and the
new LastPulldate. `Compact`, then the two writes of `ModifyConfig` that matter here,
in their order: the endpoints with the dates (`SaveDates`), the export with the
records (`SaveExport`).

The end of the tar matters here too. A pull that dies after a report leaves it
`open`; the next session writes 1024 bytes before the end, into that report
(`Write`, or the Close of a session that writes nothing, `PullEnd`), after which its
entry has no content (`Spoilt`), and what was written is no entry: the bundle is
`torn`, and every later pull ends at `Compact` (`CompactTorn`) until the operator
starts another export. Reports are longer than 1024 bytes, and the bundle has no
other entries (`ExportLifecycle` has them, and the `"trim"` of `Compact`, which is
not here). Days are whole days of one clock: the code compares the UTC midnight of a
date with the local instant a day ago (export_pull.go:185-228), so that its
yesterday ends some hours early or late by the time zone.

`IlmtPull` has `FetchUsageData` as one step (`PullHost`). `IlmtFetch` extends the
module and replaces that step by the loop: for each day `GetAlone` (the products
used alone, as many as `limit=2` admits), `GetBundled` (those used as parts of a
bundle, with its id), `GetParents` (the bundles), and `Join`, which makes the events
and looks up each row's parent. A row without one is `log.Fatal` (`JoinFatal`).
`Move` is ILMT's own work, possible between any two requests. An answer may be an
error, which decodes to no rows (`Answers`). What an event says beyond product and
parent is left out, and so is the hash of its id. That this pull is a pull of
`IlmtPull` is the property `ImplementsPull`, and a theorem; by it what is proved of
the one holds of the other.

### Credentials

`Build` is `DataServiceClientConfig`: the token of the endpoint if it has not
expired, or a new one for a service account of the cluster in the kubeconfig, which
is read once per command (`Kube`). Nothing compares that cluster with the source.
`Denied` is a request for a token that is refused: by another cluster, which may not
have the account, any time; by the source's own as a fault. `Serve` and `Refuse` are
the source's requests, `Save` the endpoints' part of `ModifyConfig`, of which a
`Kill` may leave some written. Pull of one source, pull of all, commit and its dry
run differ in `Start` only. `cmd.kept` is a history: the sources whose token had time
left when their client was made. The clock ages tokens, in the file and in memory alike.

### ConfigStore

Loading takes no lock and may find the file truncated by a writer (`Start`) or not
parsable (`StartFails`). The commands change their copy (`ConfigInit`,
`AddDataService`, `AddIlmt`, `Export`, which may also renew tokens, `Renewed`) or
give up (`GiveUp`, `DiscoveryFails`). `Lock` is the file created with `O_EXCL`; it
is not waited for (`LockFails`). `Truncate` and `Write` are one `WriteToFile`, once
for each data-service endpoint and once for each other section; `Mutated` is what is
written: endpoints are merged by key, other sections replaced. `Keyed` and `Listed`
are the conversions between the file's lists and the memory's maps, which change key
and order. `dirty`, `meant` and `clash` are history variables: they only serve the
properties. A torn write that still parses is not modelled.

## 3. What the runs check

| run | instance | what it shows |
|---|---|---|
| `LifecycleClusters` | two DataServices, a file each; any commands, modes and order; two faults | `NothingLost`, `PushedIsAccepted`, `CommittedUntilDropped`; the commands implement `ExportCustody`; all with the exception of files an upload marked without sending them (`unsent`) |
| `LifecycleIlmt` | a DataService and two ILMT hosts, their reports of one name and key; one fault | the same with reports; the invariant of the ledger's proofs; what is to be pushed finds an entry of its name (`RecordsHaveEntries`); only a pull takes back a Pushed; a dry push is inert |
| `LifecycleProgress` | two DataServices, one fault, the README's discipline | every file listed is delivered (or `unsent`), and deleted at its own source |
| `Upload` | two files, four attempts, five kinds of fault with a bound for each, both deadlines among them | Pushed means sent, but for an upload that a deadline ended before its first post; an outage shorter than the attempts is invisible; every entry is marked or reported; every push ends, repeated pushes finish the work; `MarketplaceUpload` implements `PushContract` |
| `IlmtDaily` | a host, five days, three products, two bundles, a reassignment, two faults | `NoDaySkipped`, `DayCounted`; in the end all days are covered, unless a pull died between a report and its Close and another wrote after it; `IlmtFetch` implements `IlmtPull` |
| `Credentials` | two clusters, tokens for three ticks, commands of two, each source astray once, two faults | no token is sent that has expired when its client is made, and a new one outlasts its command; a wrong one harms its own source only, each source is served again and again |
| `ConfigOverlap` | three commands, two at a time, two clusters, a host; one fault | only the lock's holder is in `ModifyConfig`, what is saved undisturbed is what was meant, clusters are never lost, sources resolve |
| `FailedDownload`, `DryRunCommit`, `PhantomPush`, `IlmtTwoHosts`, `ReAddedEndpoint` | | the code does otherwise than its docs say (section 5) |

Every property of a passing run has a mutant in `PROJECT.json`: a slip one could
make in that code (a comment beginning with "Slip" in the modules), under which TLC
finds the property violated.

*Bounds.* `MaxFaults`, two in `LifecycleClusters`: a file is endangered by one fault
that loses it from a place and one that makes another place forget it; three places
hold it, and the third is what the property asks for. Two files, in one bundle, are
needed for a Close or Compact to harm a file other than the one at work; two sources
for a commit that deletes at the wrong one and for the second, closed, Close. In
`LifecycleIlmt` one fault has to do, for the sake of TLC's time: it takes one to
part records and entries, and no commit deletes a report. `MaxRecords` bounds the
records: in `LifecycleIlmt` two, one for each of two files, of one name or of two,
or two for one report pulled again. The two hosts there are alike, so that states
that differ by their exchange alone are one (`HostsExchanged`). Commands are not
counted in these runs: states repeat, and TLC reaches all of them. In `Upload` the
busy answers exhaust the four attempts of one upload and reach into the next.
`LastDay = 5` leaves room for a pull that fails, one that is repeated on the same
day and refused, and one that catches up. Three products, two of them used alone and
one in a bundle, and one reassignment bring the products used alone above the limit,
or a row whose bundle is not listed, or a product in two answers or in none; a day's
requests start from nothing, so that more reassignments on later days add no new
case within a day. In `Credentials` a command may outlast a token (`Life` 3,
`MaxAge` 2, a token that is old when it starts), but not a new one: the program asks
for 3600 seconds, and the contexts of its commands last ten minutes. Two clusters
are one right and one wrong. In `ConfigOverlap` three commands are one that sets up,
and two that overlap; the sections are independent of each other but for endpoints
and sources, and values matter only as equal or different, so that two are enough.
It says CHECK_DEADLOCK FALSE, since the commands are counted; no other passing run
stops.

*Faults kept out of the passing runs.* Some faults lead into known defects of the
code, and a run that allows them would stop at the first of them: `"cut"` tails and
`"tear"`, a process that dies in a pull that has written and not closed (both as in run
`FailedDownload`), `"oversize"` downloads, `"trim"`, a Compact that takes a part for
the whole; and in IlmtPull `"tear"`, `"blank"`,
`Midnight`, operator-given end dates and a second host (`IlmtTwoHosts`). Setting
them shows the violation; section 5 says which property. `"late"`, the deadline before
the first post, is not kept out: it is in every lifecycle run, and `NothingLost`,
`PushedIsAccepted`, the contract and `EventuallyDelivered` except the files it
marks, and no others. In the same way `EventuallyCaughtUp` excepts a torn bundle;
without the exception TLC finds it violated in `IlmtDaily`. The models contain them,
and the proofs are about the models with all faults allowed, unless section 6
says otherwise.

## 4. Fairness

- The program's own steps (`Pull \/ Push \/ Commit \/ Finish`, `Client`, `Command`)
  are weakly fair: a process that is not killed runs on. Faults never are.
- The operator's commands in `ExportLifecycle!FairSpec` and `IlmtFetch!FetchSpec` are
  strongly fair: each is started again and again when it can be (the README's
  "Recommended approach"). Strong, since "no command is running" holds only
  now and then. `Disciplined` there is README.md:76-77: commit only after a push
  without errors.
- `Credentials!FairSpec`: time passes and commands run (weak); each cluster is logged
  in to, and its source pulled while it is, again and again (strong). The rest of
  what the operator does is free, pulls and commits of all sources while logged in
  anywhere included, with two bounds: a login in the middle of a command is a
  fault, and each source gets a wrong token once (`Astray`). The second is needed:
  an operator who runs `export pull` for all sources each time the other
  cluster's token runs out gives it a wrong one every time, and `EveryoneServed` fails.
- `WF(StartPush)` in `RepeatedSpec`: the operator pushes again.
- `WF(Answer)` in `MarketplaceUpload!RunningSpec`: the marketplace answers a
  request, with an error perhaps, or the connection breaks. The code depends on
  this: after the request is sent nothing bounds the wait (hazard at shared.go:42).
- `SF(Tick)`: days pass between pulls, although pulls come again and again.

`LifecycleProgress` has no short downloads: one torn tail makes every later walk
of that bundle fail, so that nothing is delivered any more until the operator
starts a new export.

## 5. Disagreements between the code and its documentation

Each of the first five is a run whose counterexample is a behaviour of the code;
`PROJECT.json` quotes the line that says otherwise.

1. `FailedDownload`: after a download that brings no data, the next session's
   Close overwrites the end of the last good entry; push uploads it spoiled and
   commit deletes the original (bundle_file.go:70).
2. `DryRunCommit`: `commit --dry-run` deletes (export_commit.go:193 passes empty
   options).
3. `PhantomPush`: a deadline before the first attempt is a success
   (metrics.go:262): the record says Pushed, nothing was sent.
4. `IlmtTwoHosts`: reports of two hosts have one name, and one is lost
   (source_ilmt.go:105).
5. `ReAddedEndpoint`: a cluster added again under a context of another name may
   keep its old endpoint (add_dataservice.go:315).

Five more are shown by changing a constant of a passing run:

6. a Compact whose second walk cannot read to the end succeeds with what it has
   read, since the error of Close overwrites the walk's (`LifecycleClusters`,
   `Faults = {"trim"}`): `NothingLost` fails, bundle_file.go:178. A record's entry is
   gone, push does not miss it, and commit deletes the original, while
   bundle_file.go:118 says that Compact removes "files that are duplicates or not
   in fileNames";
7. a download longer than listed (`LifecycleClusters`, `Faults` with `"oversize"`):
   `PushedIsAccepted` and `NothingLost` fail, source_dataservice.go:172;
8. an end date before yesterday (`IlmtDaily`, `Dates = {"end"}`), or midnight
   passing during a pull (`Midnight = TRUE`): `NoDaySkipped` fails,
   export_pull.go:280;
9. a stop between the dates' write and the export's (`Faults` with `"tear"`):
   `NoDaySkipped` fails, config.go:199;
10. an error status of an ILMT server read as a day without usage (`"blank"`):
   `NoDaySkipped` fails, ilmt.go:108.

And four things the code does on which no document has a word, so that no run
expects otherwise:

11. `DataServiceClientConfig` requests the token of any source from the cluster
    `kubectl` is logged in to (client_builder.go:220-242). `export pull` without a
    source and `export commit` visit all sources; one whose token has expired gets
    a token of the wrong cluster, if that has an account of the same name, and it
    is saved and used until it expires, also when the operator has logged in to
    the right cluster meanwhile. `OwnTokens` and `EveryoneServed` say how far the
    harm goes;
12. the query for products used alone has `limit=2` (ilmtresponse.go:19), and no
    second page is asked for: `DayCounted` leaves out what the limit does (`cut`);
13. `Host[8:38]` (ilmt.go:155) cuts thirty characters out of the host's URL: a
    shorter host ends the process with a panic at its first row, and two hosts that
    agree in them give events of the same ids;
14. the port asked for by `sources add ilmt` is saved and never used
    (factory.go:128).

## 6. What is proved

| theorem | says | assumes |
|---|---|---|
| `ExportCustodyProofs!CustodySafe` | the custody contract loses no file | - |
| `ExportLifecycleProofs!TypeCorrect` | the lifecycle's type invariant | `ConstantsAssumption` |
| `ExportLifecycleProofs!LedgerFaithful` | `LedgerInv`: a running command's copy is a faithful successor of the saved records; Committed is true | and `KeysDistinct` |
| `ExportLifecycleProofs!CommitmentsKept` | a Committed mark is dropped by a pull only, and with Pushed | and `KeysDistinct` |
| `ExportLifecycleProofs!PushesKept` | a Pushed mark is taken back by a pull only, of a file listed again or done with | and `KeysDistinct` |
| `ExportLifecycleProofs!DryPushInert` | `push --dry-run` changes nothing | and `KeysDistinct` |
| `ExportDeliveryProofs!EntriesInvariant` | the inductive invariant of bundle, marks and records | and `KeysDistinct`, `WholeWrites` |
| `ExportDeliveryProofs!PushesTrue` | `PushedIsAccepted`: of a Pushed name the marketplace has an intact file, or an upload of one was `unsent` | the same |
| `ExportDeliveryProofs!RecordsBacked` | `RecordsHaveEntries`: what is to be pushed has an intact entry of its name | the same |
| `ExportDeliveryProofs!CustodyInvariant` | the inductive invariant of custody | and `NamesDistinct` |
| `ExportDeliveryProofs!FilesSafe` | `NothingLost`: a deleted file is delivered, or intact and to be pushed, or `unsent` | the same |
| `ExportDeliveryProofs!CustodyImplemented` | `ExportLifecycle` implements `ExportCustody` | the same |
| `ExportDeliveryProofs!FilesSafeInTime` | a deleted file is delivered, or intact and to be pushed, without exception | and no `"late"` fault |
| `MarketplaceUploadProofs!UploadTypes` | the upload's type invariant | `UploadAssumption` |
| `MarketplaceUploadProofs!PushesTruthful` | Pushed files are with the marketplace, or a deadline ended their upload before its first post | `UploadAssumption` |
| `MarketplaceUploadProofs!PushesAccounted` | every entry walked is marked or reported | `UploadAssumption` |
| `MarketplaceUploadProofs!PushesRefine` | `MarketplaceUpload` implements `PushContract` | `UploadAssumption` |
| `MarketplaceUploadProofs!OutagesHidden` | fewer busy answers than attempts show no error | `UploadAssumption` |
| `MarketplaceUploadProofs!PushesOnce` | Pushed is final, and its file is not sent again | `UploadAssumption` |
| `IlmtPullProofs!PullTypesKept` | the pull's type invariant | `IlmtAssumption` |
| `IlmtPullProofs!DaysKept` | LastPulldate never moves past an unrecorded day | and `Undisturbed` |
| `IlmtFetchProofs!FetchTypesKept` | the type invariant of the pull by requests | `IlmtAssumption`, `FetchAssumption` |
| `IlmtFetchProofs!FetchRefinesPull` | `IlmtFetch` implements `IlmtPull` | the same |
| `IlmtFetchProofs!FetchKeepsDays` | so it keeps the days too | and `Undisturbed` |
| `IlmtFetchProofs!DaysCounted` | what a day reports is true of it | `IlmtAssumption`, `FetchAssumption` |
| `CredentialsProofs!TokensTyped` | the credentials' type invariant | `CredentialsAssumption` |
| `CredentialsProofs!TokensOwned` | one source's wrong token is no other's | `CredentialsAssumption` |
| `CredentialsProofs!RefusalsExplained` | a token that had expired when its client was made is never sent, a new one outlasts the command | `CredentialsAssumption` |
| `ConfigStoreProofs!SavingAlone` | `Exclusive`: only the lock's holder is between the writes; and the config store's type invariant | `StoreAssumption`, `NamesAgree` |
| `ConfigStoreProofs!ClustersKept` | no overlap of commands makes a cluster disappear from the file | `StoreAssumption`, `NamesAgree` |
| `ConfigStoreProofs!SourcesAlwaysResolve` | while no command saves over another's changes, every source has its endpoint | `StoreAssumption`, `NamesAgree` |
| `ConfigStoreProofs!EditsSaved` | a command alone saves what it meant, if its endpoints are of different clusters | `StoreAssumption`, `NamesAgree` |
| `ConfigStoreProofs!SavedExactly` | `SavedAsMeant`: a command alone saves what it meant | `StoreAssumption`, `SameNames` |

These are all the properties of the passing runs but the six of liveness. The
theorems of `ExportLifecycleProofs` hold with every kind of fault, the known
defects' included, any number of faults, and without discipline of the operator;
those of `ExportDeliveryProofs` with every kind but the four of `WholeWrites`.
What the hypotheses say, and why each is needed:

- `KeysDistinct`: Name, Source and SourceType together identify a DataService's
  file, which is what Pull's merge takes for granted. Reports may share a key, with
  their name: they have no Source, so that those of two hosts do.
- `NamesDistinct`: the name alone identifies a DataService's file, which is what the
  bundle's `Compact` takes for granted: of two clusters' files of one name it keeps
  one. With `NameOf` equal for both files of `LifecycleClusters`, TLC finds
  `NothingLost` violated without any fault. The code does not ensure it, the names
  being the metering operators'; the theorems by name (`PushesTrue`,
  `RecordsBacked`) do without it. What two hosts' reports lose by their common name
  is not custody's (nothing deletes at an ILMT host) but the calendar's, and is
  defect 4 of section 5.
- `WholeWrites`: no fault cuts into the bundle, that is no `"oversize"`, no `"cut"`
  among `Cuts`, no `"tear"`, no `"trim"`. With any one of them allowed TLC finds
  `RecordsHaveEntries` violated in `LifecycleIlmt`, and `NothingLost` in
  `LifecycleClusters` (for `"cut"` in run `FailedDownload`; section 5, 1, 6 and 7). Kills,
  short downloads that leave a stub or a torn tail, refused and lost requests,
  deadlines, skipped sources and failed saves are all in.
- `unsent` is no hypothesis but an exception in the statements: the files that a
  push marked after an upload that sent nothing. `FilesSafeInTime` says that there
  is no other: where no deadline comes before a first post, it is gone.
- `NamesAgree`: a context with the name of a cluster is a context of that cluster.
  With contexts that swap the names of two clusters, TLC finds `SourcesResolve` and
  `EndpointsKept` violated. `SameNames`: every context has the name of its cluster;
  run `ReAddedEndpoint` shows `SavedAsMeant` violated without it. `EditsSaved` says
  what holds for the other contexts: a command is safe if its memory has no two
  endpoints of one cluster.

*The ledger's invariant.* `CommitmentsKept` and `PushesKept` are about two saved
states with a whole command between them: what the command loaded, and what
`Save` writes. So the invariant has to carry the relation of the copy in memory
to the saved records along all of a command's steps. For push and commit that is
`Marks`: the same files in the same places, with marks added. For pull it is
`Survives`: a saved record is in the copy unchanged, or was pushed and committed,
or its file is still listed by its source. The last is no longer obvious when the
merge comes, several steps after the listing, so `ListingHolds` carries it there,
and this takes `Phases` (no commit can run meanwhile). That the record merged
over it is not a committed one's takes `Truthful` and `OneRecord`. Each action has
its step; the merge's is a lemma about `MergedRecords` alone (`MergeKeeps`,
`MergeOnce`).

*The invariant of custody.* `NothingLost` is about four places that have to agree;
`Kept` says it without the bundle: a deleted file is delivered, awaited by the
config, or `unsent`. What is marked is dropped in the end, so a mark has to rest on
a delivery, or on an upload that sent nothing, in memory and in the file
(`MarksTrue`): a delivery of a file of the record's name (`Backed`), since that is
all push knows of it. It is intact if what push uploads is (`BundleSound`). A save
may only drop what is awaited if the running pull still has it (`PullAgrees`: its
record, or that of a report of the same name and key, and otherwise no unpushed
records but of files listed at the source, so that what it adds was not deleted
before). Then a record must find an entry of its name (`EntriesKept`), for the
config's records at any time, and for a running pull's, which `Save` makes the
config's, unless that pull is bound to fail: a download cut short (`cmd.short`) or a
torn tail make its Close or its next write fail, and its records are never saved.
That exception is why the invariant mentions the tail at all, and `BundleSound` ties
it to the command's step. Of the bundle's operators the proof needs: in a sound
bundle writing appends, or does nothing (`WrittenWhole`); compaction keeps an entry
for each name, and an intact one. `NamesDistinct` comes in only where the entry of a
name has to be the deleted file's own (`KeptStep`, `FilesSafe`). The refinement then
takes one lemma per kind of step (`StepKinds`): what is deleted, delivered and
awaited changes by one of the contract's actions or not at all.

*The upload's invariant.* `PushedWasSent` needs to know why an answer may be
believed: `AnswerTrue` says that an answer under way is true of the
marketplace's state, `InTime` that without deadlines no context is over and
nothing unsent. `OutagesHidden` rests on `Busy`: the attempts made are paid for by
busy answers. `PushesAccounted` and `PushesRefine` need `WalkInv`: the walk has one
entry at work, and it is neither behind nor ahead.

*The dates' invariant.* `NoDaySkipped` speaks of the moments between two pulls; what
carries it through one is `DaysInv`. `DatesPaired`: a host has a date when it has a
first day, in the file and in memory. `NextRange`: a host still to be pulled is
pulled from its own date, the only host's, to yesterday. `Reaches`: the days up to
the date in memory are in entries that the records in memory name, and that are the
last of their name, which is what `Compacted` keeps. A pull may also spoil an entry,
the one that was left open: `OpenUnrecorded` says that its name is in no saved
record, for a pull that leaves it never saves, and that no torn bundle comes to a
save. What it takes for a name not to be recorded before is `PastNames`: recorded
ranges end before the date, a new one ends where today's pull does. `Undisturbed`
lists what these need: one host, no date flags, no pull over midnight, no `"tear"`
and no `"blank"`. Each is a defect of section 5, and TLC finds `NoDaySkipped`
violated without it. Kills, the bundles they leave open and the next sessions tear,
failed sources, failed writes and fatal answers are all in.

*The day's invariant.* `DayCounted` compares events made of three answers with what
the products were assigned to during the requests. `HeldNow` says that the
assignment in force is among those held, so that a product with one assignment
has not moved; `AloneTrue` and `BundledTrue` say of the first and the second answer
that they list nothing a product was not and all of those that did not move. The
join adds nothing: `JoinedEvents`.

*The tokens' invariant.* `Owned` has to hold of the file and of memory, since
`Save` writes the one over the other and a command may have loaded its copy before
the token went astray. `KeptOrNew` says of the token being sent that it had time left
when its client was made, or is new and has lost no more of its life than the
command has run, which is less than `Life`.

*The config's invariant.* `EndpointsKept` has to hold for a write by any of several
commands, each with a copy that may be stale. What carries it is not exclusion
but the merge by key: `Sound` says that what a command keeps under the name of a
cluster is that cluster's endpoint, so that a write replaces an endpoint by one
of the same cluster or adds one. Loading establishes it (`KeyedType`), `sources
add` keeps it if a context with the name of a cluster is a context of that
cluster (`NamesAgree`; otherwise the write under that name replaces the other
cluster's endpoint). That writing a map as a list and reading it again loses
nothing is `RewrittenKeeps` and `MergedKeeps`. The theorem is about all commands and
all faults; a write that is cut short is what the property itself exempts.

`SavedAsMeant` and `SourcesResolve` need more: what a command knows of the file.
`FollowsInv` says it for each step of a command. Before it saves (`Before`), unless
another has saved meanwhile (`dirty`), its copy has the file's hosts, sources and
clusters, and its edit. While it saves (`During`), the sections behind it are its
own (`Reached`), those before it are contained in its copy (`Extends`), and of the
endpoints the file has those that are merged, and none that it will not replace
(`Exact`); a dirty command that saves has raised `clash`. Sources resolve midway
because the endpoints and hosts come before the sources in `ModifyConfig`. A file
that is found truncated belongs to a command at its `Write`, so that whoever loads
it is dirty. Where `SavedAsMeant` speaks, the last section is behind the command,
and `Reached` and `Exact` together say that loading the file gives what was meant;
this rests on `ReadBack`, that a map without two endpoints of one cluster is read
back as it was listed, in any order.

*Not proved, model-checked only.* Liveness, with fairness, which is out of the
prover's reach: `EventuallyDelivered`, `EventuallyReleased`, `EveryPushEnds`,
`EventuallyPushed`, `EventuallyCaughtUp`, `EveryoneServed`. All other properties of
the passing runs are proved and model-checked.

## 7. Not modelled

- Printing, output formats, TLS settings, flags that override the config, must-gather,
  the command tree, profiling: no state of the export depends on them.
- `Status` of the marketplace, `GetFileById`, `BundleFile.Walk`: no caller.
- Several config files with precedence: one file is the documented use, and how
  they are merged is the code of a library outside the repository.
- Two commands at once over one bundle: the tar file is written by both without
  any protection, at the operating system's mercy, and no document allows it.
  `ConfigStore` has the overlap of their saves, where the code has a lock.
- `push --file` with another bundle than the current export's: the code never
  reads the named one (export_push.go:215), so that a model of it would be a
  variable no action uses.
- The ILMT events' names, metrics and quantities, and the rewriting of their
  numbers to strings: copied through, and told apart by no property. The host's
  name in an event (section 5, 13).
- Generated code: deep copies and conversions of fields.

## 8. The plan

Done: the component models, the two contracts, the runs above, and a theorem for
each of their properties that is not liveness. In this order next:

1. *The safety half of the liveness properties*: a measure of a push, of a save in
   `ModifyConfig` and of a day's loop that every step of the program decreases, as
   action properties, so that only the fairness is left to TLC.
2. *Composition*: the commands of `ExportLifecycle` over the section-wise save of
   `ConfigStore`, as `IlmtPull` has it for the dates.

The twelve runs are one for each distinct question; new questions go into the
existing instances where their bounds fit.
