----------------------------- MODULE ConfigStore -----------------------------
(***************************************************************************)
(* The config file ~/.datactl/config and the commands that rewrite it.      *)
(*                                                                          *)
(* Every command loads the file when it starts, without a lock, works on    *)
(* that copy, and ends in ModifyConfig: take the lock file, then rewrite    *)
(* the file once per section, each time reading it again, changing the one  *)
(* section and truncating and writing the whole file.  Data-service         *)
(* endpoints are merged into the file one by one, the other sections        *)
(* replaced as a whole.  The file has lists where the memory has maps, so   *)
(* that loading and saving change keys and order.                           *)
(*                                                                          *)
(* Several commands may run at a time; a command may be killed, or a write  *)
(* of it may fail, at any step.                                             *)
(***************************************************************************)
EXTENDS Naturals, Sequences, FiniteSets, SequencesExt

CONSTANTS
  Proc,        \* the commands that may run at a time
  Cluster,     \* ClusterName of a data-service endpoint
  Context,     \* the kubectl contexts: the keys of new endpoints in memory
  ClusterOf,   \* the cluster of a context
  Host,        \* ILMT hosts
  Value,       \* what a section may hold: an address and token, a date, a file list
  NoValue,     \* the section is empty
  Faults,      \* the kinds of fault that may happen
  MaxFaults,   \* bound: how many faults happen
  MaxCommands  \* bound: how many commands are started

FaultKinds == {"kill",   \* the process dies
               "fail",   \* a step of ModifyConfig returns an error
               "tear"}   \* a write ends early and what it wrote does not parse

ASSUME StoreAssumption ==
  /\ ClusterOf \in [Context -> Cluster]
  /\ Cluster \cap Host = {}
  /\ {"free", "stale"} \cap Proc = {}
  /\ NoValue \notin Value
  /\ Faults \subseteq FaultKinds
  /\ MaxFaults \in Nat
  /\ MaxCommands \in Nat

VARIABLES
  disk,      \* what the file holds, or held before the write that is under way
  file,      \* "whole", "cut" (truncated, not yet written) or "torn" (does not parse)
  lock,      \* the lock file: nobody's, a process's, or left behind by a dead one
  run,       \* the commands
  clash,     \* history: a command has saved over what another saved since it loaded
  faults,    \* how many faults have happened
  commands   \* how many commands were started

vars == <<disk, file, lock, run, clash, faults, commands>>

-----------------------------------------------------------------------------
(* Data *)

Key == Context \cup Cluster
Maybe == Value \cup {NoValue}

(* DataServiceEndpoint, by what tells two of them apart. *)
Endpoint == [cluster : Cluster, value : Value]

(* A context that bears the name of a cluster is a context of that cluster. *)
NamesAgree == \A x \in Context \cap Cluster : ClusterOf[x] = x

(* The two forms of a Config: the file's, a list of endpoints, *)
Stored == [endpoints : Seq(Endpoint), ilmt : [Host -> Maybe],
           sources : SUBSET (Cluster \cup Host), upload : Maybe, export : Maybe]

(* and the memory's, a map of them. *)
Loaded == [endpoints : UNION {[ks -> Endpoint] : ks \in SUBSET Key}, ilmt : [Host -> Maybe],
           sources : SUBSET (Cluster \cup Host), upload : Maybe, export : Maybe]

(* An empty file. *)
Nothing == [endpoints |-> <<>>, ilmt |-> [h \in Host |-> NoValue], sources |-> {},
            upload |-> NoValue, export |-> NoValue]

Clusters(es) == {es[i].cluster : i \in DOMAIN es}

(* An endpoint is put into a map. *)
Put(map, k, e) == [j \in {k} \cup DOMAIN map |-> IF j = k THEN e ELSE map[j]]

(* Convert_v1_Config_To_api_Config: keyed by ClusterName, the last one wins. *)
Keyed(es) ==
  [c \in Clusters(es) |->
     es[CHOOSE i \in DOMAIN es : /\ es[i].cluster = c
                                 /\ \A j \in DOMAIN es : j > i => es[j].cluster # c]]

(* Convert_api_Config_To_v1_Config: the values of the map in any order.     *)
Listed(map) == {[i \in DOMAIN ks |-> map[ks[i]]] : ks \in SetToSeqs(DOMAIN map)}

Load(stored) == [stored EXCEPT !.endpoints = Keyed(@)]

(* Slip: the sources are written before the endpoints they name. *)
OrderSourcesFirst == <<"sources", "endpoints", "upload", "ilmt", "export">>

(* The sections in the order ModifyConfig writes them. *)
Order == <<"endpoints", "upload", "ilmt", "sources", "export">>

Cmd == {"init", "dataservice", "ilmt", "export"}

Run == [pc : {"idle", "loaded", "edited", "save", "write"},
        cmd : Cmd,
        mem : Loaded,           \* rhmRawConfig
        meant : Loaded,         \* history: the file this command should leave behind
        at : 1..(Len(Order) + 1),
        todo : SUBSET Key,      \* the endpoints that are not written yet
        dirty : BOOLEAN]        \* history: another command saved since this one loaded

NoRun == [pc |-> "idle", cmd |-> "init", mem |-> Load(Nothing), meant |-> Load(Nothing),
          at |-> 1, todo |-> {}, dirty |-> FALSE]

TypeOK ==
  /\ disk \in Stored
  /\ file \in {"whole", "cut", "torn"}
  /\ lock \in Proc \cup {"free", "stale"}
  /\ run \in [Proc -> Run]
  /\ clash \in BOOLEAN
  /\ faults \in 0..MaxFaults
  /\ commands \in 0..MaxCommands

Init ==
  /\ disk = Nothing
  /\ file = "whole"
  /\ lock = "free"
  /\ run = [p \in Proc |-> NoRun]
  /\ clash = FALSE
  /\ faults = 0
  /\ commands = 0

Fault(kind) == /\ kind \in Faults
               /\ faults < MaxFaults
               /\ faults' = faults + 1

-----------------------------------------------------------------------------
(* A command starts *)

(* Complete reads the file; one that is being written is empty. *)
Start(p, cmd) ==
  /\ run[p].pc = "idle"
  /\ file # "torn"
  /\ commands < MaxCommands
  /\ commands' = commands + 1
  /\ LET mem == Load(IF file = "cut" THEN Nothing ELSE disk)
     IN run' = [run EXCEPT ![p] = [NoRun EXCEPT !.pc = "loaded", !.cmd = cmd,
                                                !.mem = mem, !.meant = mem,
                                                !.dirty = lock \in Proc]]
  /\ UNCHANGED <<disk, file, lock, clash, faults>>

(* A file that does not parse ends every command. *)
StartFails(p) ==
  /\ run[p].pc = "idle"
  /\ file = "torn"
  /\ commands < MaxCommands
  /\ commands' = commands + 1
  /\ UNCHANGED <<disk, file, lock, run, clash, faults>>

(* The command has changed its copy to mem; meant is what it should save.   *)
Edited(p, cmd, mem, meant) ==
  /\ run[p].pc = "loaded" /\ run[p].cmd = cmd
  /\ run' = [run EXCEPT ![p].pc = "edited", ![p].mem = mem, ![p].meant = meant]
  /\ UNCHANGED <<disk, file, lock, clash, faults, commands>>

(* config init: the host and the secret of the upload API. *)
ConfigInit(p, v) ==
  LET mem == [run[p].mem EXCEPT !.upload = v]
  IN Edited(p, "init", mem, mem)

(* The endpoint that discovery found is put under the name of the context,  *)
(* into the endpoint that has this key already, or into a new one.          *)
AddDataService(p, x, v) ==
  LET mem == run[p].mem
      old == IF x \in DOMAIN mem.endpoints THEN mem.endpoints[x]
                                           ELSE [cluster |-> ClusterOf[x], value |-> v]
      c == ClusterOf[x]
      Added(k, e) == [mem EXCEPT !.endpoints = Put(@, k, e), !.sources = @ \cup {c}]
  IN Edited(p, "dataservice", Added(x, [old EXCEPT !.value = v]),
                              Added(c, [cluster |-> c, value |-> v]))

(* A host that is there already keeps its port and token. *)
AddIlmt(p, h, v) ==
  LET mem == [run[p].mem EXCEPT !.ilmt[h] = IF @ = NoValue THEN v ELSE @,
                                !.sources = @ \cup {h}]
  IN Edited(p, "ilmt", mem, mem)

(* The endpoints of a map, those of ks with another token. *)
Renewed(map, ks, v) ==
  [k \in DOMAIN map |-> IF k \in ks THEN [map[k] EXCEPT !.value = v] ELSE map[k]]

(* export pull, push, commit: the files of the current export, with a pull  *)
(* the LastPulldate of hosts that are configured, and the tokens that were  *)
(* requested for data services.                                             *)
Export(p, v, hosts, ks) ==
  /\ \A h \in hosts : run[p].mem.ilmt[h] # NoValue
  /\ LET mem == [run[p].mem EXCEPT !.export = v, !.endpoints = Renewed(@, ks, v),
                                   !.ilmt = [h \in Host |-> IF h \in hosts THEN v ELSE @[h]]]
     IN Edited(p, "export", mem, mem)

(* A command ends with an error of its own: a prompt is left, or an export  *)
(* command does not get as far as saving; *)
GiveUp(p) ==
  /\ run[p].pc = "loaded" /\ run[p].cmd # "dataservice"
  /\ run' = [run EXCEPT ![p] = NoRun]
  /\ UNCHANGED <<disk, file, lock, clash, faults, commands>>

(* or the route or the certificate of the data service is not what it should be. *)
DiscoveryFails(p) ==
  /\ run[p].pc = "loaded" /\ run[p].cmd = "dataservice"
  /\ run' = [run EXCEPT ![p] = NoRun]
  /\ UNCHANGED <<disk, file, lock, clash, faults, commands>>

-----------------------------------------------------------------------------
(* ModifyConfig *)

(* Whoever has loaded and not saved yet will save over what p saves now.    *)
Dirtied(runs, p) ==
  [q \in Proc |-> IF q # p /\ runs[q].pc # "idle" THEN [runs[q] EXCEPT !.dirty = TRUE]
                                                  ELSE runs[q]]

(* Slip: os.O_CREATE without os.O_EXCL, the lock can be taken twice. *)
LockShared(p) ==
  /\ run[p].pc = "edited" /\ lock # "stale" /\ file # "torn"
  /\ lock' = p
  /\ clash' = (clash \/ run[p].dirty)
  /\ run' = Dirtied([run EXCEPT ![p].pc = "save", ![p].todo = DOMAIN run[p].mem.endpoints], p)
  /\ UNCHANGED <<disk, file, faults, commands>>

(* lockFile and GetStartingConfig. *)
Lock(p) ==
  /\ run[p].pc = "edited" /\ lock = "free" /\ file # "torn"
  /\ lock' = p
  /\ clash' = (clash \/ run[p].dirty)
  /\ run' = Dirtied([run EXCEPT ![p].pc = "save", ![p].todo = DOMAIN run[p].mem.endpoints], p)
  /\ UNCHANGED <<disk, file, faults, commands>>

(* The lock file is there, or the file does not parse: the command fails    *)
(* and what it did is not saved.                                            *)
LockFails(p) ==
  /\ run[p].pc = "edited"
  /\ lock # "free" \/ file = "torn"
  /\ run' = [run EXCEPT ![p] = NoRun]
  /\ UNCHANGED <<disk, file, lock, clash, faults, commands>>

Section(p) == Order[run[p].at]

(* Whether the section p is at has anything to write. *)
Due(p) ==
  /\ run[p].at \in DOMAIN Order
  /\ CASE Section(p) = "endpoints" -> run[p].todo # {}
       [] Section(p) = "ilmt"      -> \E h \in Host : run[p].mem.ilmt[h] # NoValue
       [] Section(p) = "sources"   -> run[p].mem.sources # {}
       [] OTHER                    -> TRUE

Skip(p) ==
  /\ run[p].pc = "save" /\ run[p].at \in DOMAIN Order /\ ~Due(p)
  /\ run' = [run EXCEPT ![p].at = @ + 1]
  /\ UNCHANGED <<disk, file, lock, clash, faults, commands>>

(* WriteToFile truncates the file, *)
Truncate(p) ==
  /\ run[p].pc = "save" /\ Due(p) /\ file # "torn"
  /\ file' = "cut"
  /\ run' = [run EXCEPT ![p].pc = "write"]
  /\ UNCHANGED <<disk, lock, clash, faults, commands>>

(* Slip: the endpoints are replaced as a whole, as the other sections are.  *)
MutatedWholesale(p, k) ==
  LET kept == Keyed(disk.endpoints)
      mem == run[p].mem
  IN CASE Section(p) = "endpoints" -> [disk EXCEPT !.endpoints = mem.endpoints]
       [] Section(p) = "upload"    -> [disk EXCEPT !.endpoints = kept, !.upload = mem.upload]
       [] Section(p) = "ilmt"      -> [disk EXCEPT !.endpoints = kept, !.ilmt = mem.ilmt]
       [] Section(p) = "sources"   -> [disk EXCEPT !.endpoints = kept, !.sources = mem.sources]
       [] Section(p) = "export"    -> [disk EXCEPT !.endpoints = kept, !.export = mem.export]

(* The config read back from the file, with p's section in it: of the       *)
(* endpoints one, k, is merged, of the others the whole section replaced.   *)
Mutated(p, k) ==
  LET kept == Keyed(disk.endpoints)
      mem == run[p].mem
  IN CASE Section(p) = "endpoints" -> [disk EXCEPT !.endpoints = Put(kept, k, mem.endpoints[k])]
       [] Section(p) = "upload"    -> [disk EXCEPT !.endpoints = kept, !.upload = mem.upload]
       [] Section(p) = "ilmt"      -> [disk EXCEPT !.endpoints = kept, !.ilmt = mem.ilmt]
       [] Section(p) = "sources"   -> [disk EXCEPT !.endpoints = kept, !.sources = mem.sources]
       [] Section(p) = "export"    -> [disk EXCEPT !.endpoints = kept, !.export = mem.export]

(* and writes it, the endpoints of the map in any order. *)
Write(p) ==
  /\ run[p].pc = "write"
  /\ file' = "whole"
  /\ IF Section(p) = "endpoints"
       THEN \E k \in run[p].todo :
              /\ \E es \in Listed(Mutated(p, k).endpoints) : disk' = [Mutated(p, k) EXCEPT !.endpoints = es]
              /\ run' = [run EXCEPT ![p].pc = "save", ![p].todo = @ \ {k}]
       ELSE /\ \E es \in Listed(Keyed(disk.endpoints)) : disk' = [Mutated(p, NoValue) EXCEPT !.endpoints = es]
            /\ run' = [run EXCEPT ![p].pc = "save", ![p].at = @ + 1]
  /\ UNCHANGED <<lock, clash, faults, commands>>

(* The deferred unlockFile, on success. *)
Unlock(p) ==
  /\ run[p].pc = "save" /\ run[p].at \notin DOMAIN Order
  /\ lock' = "free"
  /\ run' = [run EXCEPT ![p] = NoRun]
  /\ UNCHANGED <<disk, file, clash, faults, commands>>

-----------------------------------------------------------------------------
(* Faults *)

(* What a write leaves that does not come to its end. *)
Cut(kind) ==
  IF kind = "tear" THEN file' = "torn" /\ UNCHANGED disk
                   ELSE file' = "whole" /\ disk' = Nothing

(* A write fails: the file stays as it is, empty or torn; the lock goes.    *)
SaveError(p) ==
  /\ run[p].pc \in {"save", "write"}
  /\ IF run[p].pc = "write"
       THEN \E kind \in {"fail", "tear"} : Fault(kind) /\ Cut(kind)
       ELSE Fault("fail") /\ UNCHANGED <<disk, file>>
  /\ lock' = "free"
  /\ run' = [run EXCEPT ![p] = NoRun]
  /\ UNCHANGED <<clash, commands>>

(* The process dies; its lock file stays. *)
Kill(p) ==
  /\ run[p].pc # "idle"
  /\ Fault("kill")
  /\ lock' = IF lock = p THEN "stale" ELSE lock
  /\ IF run[p].pc = "write" THEN Cut("kill") ELSE UNCHANGED <<disk, file>>
  /\ run' = [run EXCEPT ![p] = NoRun]
  /\ UNCHANGED <<clash, commands>>

(* The operator removes a lock file that was left behind. *)
RemoveLock ==
  /\ lock = "stale"
  /\ lock' = "free"
  /\ UNCHANGED <<disk, file, run, clash, faults, commands>>

Edit(p) ==
  \/ \E v \in Value : \/ ConfigInit(p, v)
                      \/ \E x \in Context : AddDataService(p, x, v)
                      \/ \E h \in Host : AddIlmt(p, h, v)
                      \/ \E hosts \in SUBSET Host, ks \in SUBSET DOMAIN run[p].mem.endpoints :
                           Export(p, v, hosts, ks)
  \/ GiveUp(p) \/ DiscoveryFails(p)

Save(p) == Lock(p) \/ LockFails(p) \/ Skip(p) \/ Truncate(p) \/ Write(p) \/ Unlock(p)

Next ==
  \/ RemoveLock
  \/ \E p \in Proc : \/ \E cmd \in Cmd : Start(p, cmd)
                     \/ StartFails(p) \/ Edit(p) \/ Save(p) \/ SaveError(p) \/ Kill(p)

Spec == Init /\ [][Next]_vars

-----------------------------------------------------------------------------
(* Properties *)

(* Of all commands only the one that has the lock is between two writes of  *)
(* ModifyConfig, whoever fails or dies and leaves its lock file behind.     *)
Exclusive == \A p \in Proc : run[p].pc \in {"save", "write"} => lock = p

(* A command that nobody interfered with, and that returns without an       *)
(* error, leaves exactly the config behind that it meant to: all sections   *)
(* of it, whatever the order of the lists and the writes.                   *)
SavedAsMeant ==
  [][\A p \in Proc : Unlock(p) /\ ~run[p].dirty => Load(disk) = run[p].meant]_vars

(* ModifyConfig merges the data-service endpoints, so that also commands    *)
(* that overlap, and that loaded a file just being written, never make each *)
(* other's clusters disappear.  Only a write that is cut short does.        *)
EndpointsKept ==
  [][faults' = faults => Clusters(disk.endpoints) \subseteq Clusters(disk'.endpoints)]_vars

(* Pull stops at a source whose endpoint is not in the config.  As long as  *)
(* no command saves over another's changes there is no such source in the   *)
(* file, also where a command died halfway through its sections.            *)
SourcesResolve ==
  ~clash => \A s \in disk.sources :
              IF s \in Host THEN disk.ilmt[s] # NoValue ELSE s \in Clusters(disk.endpoints)
==============================================================================
