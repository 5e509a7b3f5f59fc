--------------------------- MODULE ConfigStoreProofs ---------------------------
(***************************************************************************)
(* Proofs about ConfigStore, for any number of overlapping commands,        *)
(* clusters and hosts, and faults of every kind at every step.              *)
(***************************************************************************)
EXTENDS ConfigStore, TLAPS, FiniteSetTheorems, SequenceTheorems, WellFoundedInduction

-----------------------------------------------------------------------------
(* Lists and maps of endpoints *)

(* A non-empty set of indexes of a list has a greatest element. *)
LEMMA Greatest ==
  ASSUME NEW n \in Nat, NEW I \in SUBSET (1..n), I # {}
  PROVE  \E i \in I : \A j \in I : j <= i
<1> DEFINE T == {k \in Nat : n - k \in I}
<1>1. T \subseteq Nat /\ T # {}
  <2>1. PICK i \in I : TRUE
    OBVIOUS
  <2>2. n - i \in Nat /\ n - (n - i) = i
    OBVIOUS
  <2> QED
    BY <2>1, <2>2
<1>2. PICK k \in T : \A m \in T : ~(<<m, k>> \in OpToRel(<, Nat))
  <2> HIDE DEF T
  <2> QED
    BY <1>1, NatLessThanWellFounded, WFMin
<1>3. \A m \in T : ~(m < k)
  BY <1>2 DEF OpToRel
<1>4. n - k \in I
  BY <1>2
<1>5. \A j \in I : j <= n - k
  <2> SUFFICES ASSUME NEW j \in I PROVE j <= n - k
    OBVIOUS
  <2>1. n - j \in Nat /\ n - (n - j) = j
    OBVIOUS
  <2>2. n - j \in T
    BY <2>1
  <2>3. ~(n - j < k)
    BY <1>3, <2>2
  <2>4. k \in Nat /\ j \in Nat
    OBVIOUS
  <2> QED
    BY <2>3, <2>4
<1> QED
  BY <1>4, <1>5

(* Loading a list of endpoints keys each of them by its own cluster. *)
LEMMA KeyedType ==
  ASSUME NEW es \in Seq(Endpoint)
  PROVE  /\ Keyed(es) \in [Clusters(es) -> Endpoint]
         /\ \A c \in Clusters(es) : Keyed(es)[c].cluster = c
<1> DEFINE Final(c, i) == /\ es[i].cluster = c
                          /\ \A j \in DOMAIN es : j > i => es[j].cluster # c
<1>1. ASSUME NEW c \in Clusters(es)
      PROVE  \E i \in DOMAIN es : Final(c, i)
  <2> DEFINE I == {i \in DOMAIN es : es[i].cluster = c}
  <2>1. Len(es) \in Nat /\ DOMAIN es = 1..Len(es)
    OBVIOUS
  <2>2. I \in SUBSET (1..Len(es)) /\ I # {}
    BY <2>1 DEF Clusters
  <2>3. PICK i \in I : \A j \in I : j <= i
    <3> HIDE DEF I
    <3> QED
      BY <2>1, <2>2, Greatest
  <2> QED
    BY <2>1, <2>3
<1>2. ASSUME NEW c \in Clusters(es)
      PROVE  /\ (CHOOSE i \in DOMAIN es : Final(c, i)) \in DOMAIN es
             /\ es[CHOOSE i \in DOMAIN es : Final(c, i)].cluster = c
  BY <1>1, <1>2
<1>3. Keyed(es) = [c \in Clusters(es) |-> es[CHOOSE i \in DOMAIN es : Final(c, i)]]
  BY DEF Keyed
<1>4. \A i \in DOMAIN es : es[i] \in Endpoint
  OBVIOUS
<1> HIDE DEF Final
<1> QED
  BY <1>2, <1>3, <1>4

(* A list of endpoints names finitely many clusters. *)
LEMMA ClustersFinite ==
  ASSUME NEW es \in Seq(Endpoint)
  PROVE  IsFiniteSet(Clusters(es)) /\ Clusters(es) \subseteq Cluster
<1> DEFINE g == [i \in DOMAIN es |-> es[i].cluster]
<1>1. IsFiniteSet(DOMAIN es)
  <2>1. DOMAIN es = 1..Len(es) /\ Len(es) \in Nat
    OBVIOUS
  <2> QED
    BY <2>1, FS_Interval
<1>2. g \in Surjection(DOMAIN es, Clusters(es))
  BY DEF Surjection, Clusters
<1>3. IsFiniteSet(Clusters(es))
  BY <1>1, <1>2, FS_Surjection
<1>4. \A i \in DOMAIN es : es[i] \in Endpoint
  OBVIOUS
<1> QED
  BY <1>3, <1>4 DEF Clusters, Endpoint

(* Saving a map of endpoints writes a list of them, and none is left out. *)
LEMMA ListedType ==
  ASSUME NEW K, IsFiniteSet(K), NEW map \in [K -> Endpoint], NEW es \in Listed(map)
  PROVE  /\ es \in Seq(Endpoint)
         /\ \A k \in K : map[k].cluster \in Clusters(es)
<1> DEFINE n == Cardinality(K)
<1>1. n \in Nat
  BY FS_CardinalityType
<1>2. PICK ks \in SetToSeqs(K) : es = [i \in DOMAIN ks |-> map[ks[i]]]
  BY DEF Listed
<1>3. ks \in [1..n -> K] /\ \A i, j \in 1..n : i # j => ks[i] # ks[j]
  BY <1>2 DEF SetToSeqs
<1>4. ks \in Surjection(1..n, K)
  <2>1. ks \in Injection(1..n, K)
    BY <1>3 DEF Injection, IsInjective
  <2>2. IsFiniteSet(1..n) /\ Cardinality(1..n) = n
    BY <1>1, FS_Interval
  <2> QED
    BY <2>1, <2>2, FS_Injection
<1>5. es \in [1..n -> Endpoint]
  BY <1>2, <1>3
<1>6. es \in Seq(Endpoint)
  BY <1>1, <1>5, SeqDef
<1>7. ASSUME NEW k \in K PROVE map[k].cluster \in Clusters(es)
  <2>1. PICK i \in 1..n : ks[i] = k
    BY <1>4 DEF Surjection
  <2>2. i \in DOMAIN es /\ es[i] = map[k]
    BY <1>2, <1>3, <2>1
  <2> QED
    BY <2>2 DEF Clusters
<1> QED
  BY <1>6, <1>7

(* ModifyConfig has five sections, and a place after the last. *)
LEMMA FiveSections == DOMAIN Order = 1..5 /\ 1..(Len(Order) + 1) = 1..6
BY DEF Order

-----------------------------------------------------------------------------
(* The invariant *)

(* A command's memory: what it has still to write is there, and what is kept *)
(* under the name of a cluster is this cluster's endpoint.                   *)
Sound(r) ==
  /\ r.pc = "write" => r.at \in DOMAIN Order
  /\ r.todo \subseteq DOMAIN r.mem.endpoints
  /\ \A k \in Cluster \cap DOMAIN r.mem.endpoints : r.mem.endpoints[k].cluster = k

StoreInv == TypeOK /\ (\A p \in Proc : Sound(run[p])) /\ Exclusive

(* The maps a config in memory may have. *)
LEMMA MapType ==
  ASSUME NEW ks \in SUBSET Key, NEW map \in [ks -> Endpoint]
  PROVE  map \in UNION {[s -> Endpoint] : s \in SUBSET Key}
OBVIOUS

(* Their domains. *)
LEMMA MapDomain ==
  ASSUME NEW mem \in Loaded
  PROVE  /\ DOMAIN mem.endpoints \subseteq Key
         /\ \A k \in DOMAIN mem.endpoints : mem.endpoints[k] \in Endpoint
<1>1. mem.endpoints \in UNION {[s -> Endpoint] : s \in SUBSET Key}
  BY DEF Loaded
<1>2. PICK s \in SUBSET Key : mem.endpoints \in [s -> Endpoint]
  BY <1>1
<1> QED
  BY <1>2

(* A config that was just loaded has every endpoint under its own cluster. *)
LEMMA LoadType ==
  ASSUME NEW stored \in Stored
  PROVE  /\ Load(stored) \in Loaded
         /\ \A k \in DOMAIN Load(stored).endpoints : Load(stored).endpoints[k].cluster = k
<1> DEFINE es == stored.endpoints
<1>1. es \in Seq(Endpoint)
  BY DEF Stored
<1>2. /\ Keyed(es) \in [Clusters(es) -> Endpoint]
      /\ \A c \in Clusters(es) : Keyed(es)[c].cluster = c
  BY <1>1, KeyedType
<1>3. Clusters(es) \in SUBSET Key
  BY <1>1, ClustersFinite DEF Key
<1>4. Keyed(es) \in UNION {[s -> Endpoint] : s \in SUBSET Key}
  BY <1>2, <1>3, MapType
<1>5. Load(stored) = [stored EXCEPT !.endpoints = Keyed(es)]
  BY DEF Load
<1>6. Load(stored) \in Loaded
  BY <1>4, <1>5 DEF Stored, Loaded
<1>7. Load(stored).endpoints = Keyed(es)
  BY <1>5 DEF Stored
<1> QED
  BY <1>2, <1>6, <1>7

(* An empty file. *)
LEMMA NothingType == Nothing \in Stored
BY DEF Nothing, Stored, Maybe

(* A command that does not run. *)
LEMMA NoRunType == NoRun \in Run /\ Sound(NoRun) /\ NoRun.pc = "idle"
<1>1. /\ Load(Nothing) \in Loaded
      /\ \A k \in DOMAIN Load(Nothing).endpoints : Load(Nothing).endpoints[k].cluster = k
  BY NothingType, LoadType
<1> HIDE DEF Nothing
<1>2. NoRun \in Run
  BY <1>1 DEF NoRun, Run, Cmd, Order
<1> QED
  BY <1>1, <1>2 DEF NoRun, Sound

(* The invariant holds initially. *)
LEMMA StoreInit == Init => StoreInv
<1> SUFFICES ASSUME Init PROVE StoreInv
  OBVIOUS
<1>0. 0 \in 0..MaxFaults /\ 0 \in 0..MaxCommands
  BY StoreAssumption DEF StoreAssumption
<1>1. TypeOK
  BY <1>0, NothingType, NoRunType DEF Init, TypeOK
<1>2. \A p \in Proc : run[p] = NoRun
  BY DEF Init
<1> QED
  BY <1>1, <1>2, NoRunType DEF StoreInv, Exclusive

(* A step that only changes the memory of one command keeps the invariant,   *)
(* if the command does not come to write by it.                              *)
LEMMA RunStep ==
  ASSUME StoreInv, NEW p \in Proc, NEW r \in Run, Sound(r),
         run' = [run EXCEPT ![p] = r],
         r.pc \in {"save", "write"} => lock' = p,
         \A q \in Proc \ {p} : run[q].pc \in {"save", "write"} => lock' = q
  PROVE  /\ run' \in [Proc -> Run]
         /\ \A q \in Proc : Sound(run'[q])
         /\ Exclusive'
<1>1. run \in [Proc -> Run]
  BY DEF StoreInv, TypeOK
<1>2. run'[p] = r /\ \A q \in Proc \ {p} : run'[q] = run[q]
  BY <1>1
<1>3. run' \in [Proc -> Run]
  BY <1>1
<1>4. \A q \in Proc : Sound(run'[q])
  BY <1>2 DEF StoreInv
<1>5. Exclusive'
  BY <1>2 DEF Exclusive
<1> QED
  BY <1>3, <1>4, <1>5

(* A fault is counted. *)
LEMMA FaultType ==
  ASSUME TypeOK, NEW kind, Fault(kind)
  PROVE  faults' \in 0..MaxFaults
BY StoreAssumption DEF StoreAssumption, TypeOK, Fault

(* A command that ends, whatever becomes of its lock. *)
LEMMA EndStep ==
  ASSUME StoreInv, NEW p \in Proc,
         run' = [run EXCEPT ![p] = NoRun],
         lock' = lock \/ lock = p
  PROVE  /\ run' \in [Proc -> Run]
         /\ \A q \in Proc : Sound(run'[q])
         /\ Exclusive'
<1>1. \A q \in Proc \ {p} : run[q].pc \in {"save", "write"} => lock' = q
  BY DEF StoreInv, Exclusive
<1>2. ~(NoRun.pc \in {"save", "write"})
  BY NoRunType
<1> HIDE DEF NoRun
<1> QED
  BY <1>1, <1>2, NoRunType, RunStep

(* A command starts with what it loads. *)
LEMMA StartStep ==
  ASSUME StoreInv, NEW p \in Proc, NEW cmd \in Cmd, Start(p, cmd)
  PROVE  StoreInv'
<1> DEFINE mem == Load(IF file = "cut" THEN Nothing ELSE disk)
           late == lock \in Proc
           r == [NoRun EXCEPT !.pc = "loaded", !.cmd = cmd, !.mem = mem, !.meant = mem,
                              !.dirty = late]
<1>1. TypeOK /\ Exclusive
  BY DEF StoreInv
<1>2. (IF file = "cut" THEN Nothing ELSE disk) \in Stored
  BY <1>1, NothingType DEF TypeOK
<1>3. /\ mem \in Loaded
      /\ \A k \in DOMAIN mem.endpoints : mem.endpoints[k].cluster = k
  BY <1>2, LoadType
<1>4. run' = [run EXCEPT ![p] = r]
  BY DEF Start
<1>0. late \in BOOLEAN
  OBVIOUS
<1> HIDE DEF mem, late
<1>5. r \in Run /\ r.pc = "loaded" /\ r.mem = mem /\ r.todo = {}
  BY <1>0, <1>3, NoRunType DEF Run, NoRun
<1>6. Sound(r)
  BY <1>3, <1>5 DEF Sound
<1>7. lock' = lock
  BY DEF Start
<1> HIDE DEF r
<1>8. /\ run' \in [Proc -> Run]
      /\ \A q \in Proc : Sound(run'[q])
      /\ Exclusive'
  BY <1>1, <1>4, <1>5, <1>6, <1>7, RunStep DEF Exclusive
<1>9. commands' \in 0..MaxCommands
  BY <1>1, StoreAssumption DEF Start, TypeOK, StoreAssumption
<1> QED
  BY <1>1, <1>8, <1>9 DEF Start, StoreInv, TypeOK

(* A command changes its copy, and keeps clusters' endpoints under their names. *)
LEMMA EditedStep ==
  ASSUME StoreInv, NEW p \in Proc, NEW cmd \in Cmd, NEW mem \in Loaded, NEW meant \in Loaded,
         Edited(p, cmd, mem, meant),
         run[p].todo \subseteq DOMAIN mem.endpoints,
         \A k \in Cluster \cap DOMAIN mem.endpoints : mem.endpoints[k].cluster = k
  PROVE  StoreInv'
<1> DEFINE r == [run[p] EXCEPT !.pc = "edited", !.mem = mem, !.meant = meant]
<1>1. TypeOK /\ Exclusive /\ run \in [Proc -> Run]
  BY DEF StoreInv, TypeOK
<1>2. run' = [run EXCEPT ![p] = r]
  BY <1>1 DEF Edited
<1>3. r \in Run /\ r.pc = "edited" /\ r.mem = mem /\ r.todo = run[p].todo
  BY <1>1 DEF Run
<1>4. Sound(r)
  BY <1>3 DEF Sound
<1>5. lock' = lock
  BY DEF Edited
<1> HIDE DEF r
<1>6. /\ run' \in [Proc -> Run]
      /\ \A q \in Proc : Sound(run'[q])
      /\ Exclusive'
  BY <1>1, <1>2, <1>3, <1>4, <1>5, RunStep DEF Exclusive
<1> QED
  BY <1>1, <1>6 DEF Edited, StoreInv, TypeOK

(* config init sets the upload API's host. *)
LEMMA ConfigInitStep ==
  ASSUME StoreInv, NEW p \in Proc, NEW v \in Value, ConfigInit(p, v)
  PROVE  StoreInv'
<1> DEFINE mem == [run[p].mem EXCEPT !.upload = v]
<1>1. run[p] \in Run /\ run[p].mem \in Loaded /\ Sound(run[p])
  BY DEF StoreInv, TypeOK, Run
<1>2. mem \in Loaded /\ mem.endpoints = run[p].mem.endpoints
  BY <1>1 DEF Loaded, Maybe
<1>3. Edited(p, "init", mem, mem)
  BY DEF ConfigInit
<1> HIDE DEF mem
<1> QED
  BY <1>1, <1>2, <1>3, EditedStep DEF Sound, Cmd

(* sources add ilmt leaves the clusters alone. *)
LEMMA AddIlmtStep ==
  ASSUME StoreInv, NEW p \in Proc, NEW h \in Host, NEW v \in Value, AddIlmt(p, h, v)
  PROVE  StoreInv'
<1> DEFINE mem == [run[p].mem EXCEPT !.ilmt[h] = IF @ = NoValue THEN v ELSE @,
                                     !.sources = @ \cup {h}]
<1>1. run[p] \in Run /\ run[p].mem \in Loaded /\ Sound(run[p])
  BY DEF StoreInv, TypeOK, Run
<1>2. mem \in Loaded /\ mem.endpoints = run[p].mem.endpoints
  BY <1>1 DEF Loaded, Maybe
<1>3. Edited(p, "ilmt", mem, mem)
  BY DEF AddIlmt
<1> HIDE DEF mem
<1> QED
  BY <1>1, <1>2, <1>3, EditedStep DEF Sound, Cmd

(* Endpoints with new tokens are those of the same clusters. *)
LEMMA RenewedMap ==
  ASSUME NEW mem \in Loaded, NEW ks, NEW v \in Value
  PROVE  LET map == Renewed(mem.endpoints, ks, v)
         IN /\ map \in UNION {[s -> Endpoint] : s \in SUBSET Key}
            /\ DOMAIN map = DOMAIN mem.endpoints
            /\ \A k \in DOMAIN map : map[k].cluster = mem.endpoints[k].cluster
<1> DEFINE map == Renewed(mem.endpoints, ks, v)
<1>1. DOMAIN map = DOMAIN mem.endpoints
  BY DEF Renewed
<1>2. ASSUME NEW k \in DOMAIN mem.endpoints
      PROVE  map[k] \in Endpoint /\ map[k].cluster = mem.endpoints[k].cluster
  <2>1. mem.endpoints[k] \in Endpoint /\ v \in Maybe
    BY MapDomain DEF Maybe
  <2>2. [mem.endpoints[k] EXCEPT !.value = v] \in Endpoint
    BY <2>1 DEF Endpoint, Maybe
  <2>3. [mem.endpoints[k] EXCEPT !.value = v].cluster = mem.endpoints[k].cluster
    BY <2>1 DEF Endpoint
  <2> QED
    BY <2>1, <2>2, <2>3 DEF Renewed
<1>3. map = [k \in DOMAIN mem.endpoints |-> map[k]]
  BY DEF Renewed
<1> HIDE DEF map
<1>4. map \in [DOMAIN mem.endpoints -> Endpoint] /\ DOMAIN mem.endpoints \in SUBSET Key
  BY <1>2, <1>3, MapDomain
<1>5. map \in UNION {[s -> Endpoint] : s \in SUBSET Key}
  BY <1>4
<1> QED
  BY <1>1, <1>2, <1>5 DEF map

(* The export commands change no endpoint but for its token. *)
LEMMA ExportStep ==
  ASSUME StoreInv, NEW p \in Proc, NEW v \in Value, NEW hosts \in SUBSET Host, NEW ks,
         Export(p, v, hosts, ks)
  PROVE  StoreInv'
<1>1. run[p] \in Run /\ run[p].mem \in Loaded /\ Sound(run[p])
  BY DEF StoreInv, TypeOK, Run
<1> DEFINE old == run[p].mem.endpoints
           new == Renewed(old, ks, v)
<1>a. /\ new \in UNION {[s -> Endpoint] : s \in SUBSET Key}
      /\ DOMAIN new = DOMAIN old
      /\ \A k \in DOMAIN new : new[k].cluster = old[k].cluster
  BY <1>1, RenewedMap
<1> HIDE DEF new
<1>2. PICK map \in UNION {[s -> Endpoint] : s \in SUBSET Key} : map = new
  BY <1>a
<1>3. /\ DOMAIN map = DOMAIN run[p].mem.endpoints
      /\ \A k \in DOMAIN map : map[k].cluster = run[p].mem.endpoints[k].cluster
  BY <1>a, <1>2
<1> DEFINE mem == [run[p].mem EXCEPT !.export = v, !.endpoints = map,
                                     !.ilmt = [h \in Host |-> IF h \in hosts THEN v ELSE @[h]]]
<1>4. mem \in Loaded /\ mem.endpoints = map
  BY <1>1, <1>2 DEF Loaded, Maybe
<1>5. Edited(p, "export", mem, mem)
  BY <1>2 DEF Export, new
<1> HIDE DEF mem
<1> QED
  BY <1>1, <1>3, <1>4, <1>5, EditedStep DEF Sound, Cmd

(* sources add dataservice puts an endpoint under the name of its context:  *)
(* where that is the name of a cluster, it is this cluster's endpoint.       *)
LEMMA AddDataServiceStep ==
  ASSUME NamesAgree, StoreInv, NEW p \in Proc, NEW x \in Context, NEW v \in Value,
         AddDataService(p, x, v)
  PROVE  StoreInv'
<1> DEFINE mem == run[p].mem
           c == ClusterOf[x]
           old == IF x \in DOMAIN mem.endpoints THEN mem.endpoints[x] ELSE [cluster |-> c, value |-> v]
           new == [old EXCEPT !.value = v]
           Added(k, e) == [mem EXCEPT !.endpoints = Put(@, k, e), !.sources = @ \cup {c}]
<1>1. run[p] \in Run /\ mem \in Loaded /\ Sound(run[p])
  BY DEF StoreInv, TypeOK, Run
<1>2. c \in Cluster /\ x \in Key /\ c \in Key
  BY StoreAssumption DEF StoreAssumption, Key
<1>3. /\ DOMAIN mem.endpoints \subseteq Key
      /\ mem.endpoints \in [DOMAIN mem.endpoints -> Endpoint]
  <2>1. mem.endpoints \in UNION {[s -> Endpoint] : s \in SUBSET Key}
    BY <1>1 DEF Loaded
  <2>2. PICK s \in SUBSET Key : mem.endpoints \in [s -> Endpoint]
    BY <2>1
  <2> QED
    BY <2>2
<1>4. new \in Endpoint /\ [cluster |-> c, value |-> v] \in Endpoint
  <2>1. old \in Endpoint
    BY <1>2, <1>3 DEF Endpoint
  <2> QED
    BY <1>2, <2>1 DEF Endpoint
<1>5. new.cluster = old.cluster
  BY <1>2, <1>3, <1>4 DEF Endpoint
<1>6. x \in Cluster => new.cluster = x
  BY <1>1, <1>5 DEF Sound, NamesAgree
<1> HIDE DEF mem, old, new
<1>7. ASSUME NEW k \in Key, NEW e \in Endpoint
      PROVE  /\ Added(k, e) \in Loaded
             /\ DOMAIN Added(k, e).endpoints = DOMAIN mem.endpoints \cup {k}
             /\ \A j \in DOMAIN mem.endpoints \cup {k} :
                  Added(k, e).endpoints[j] = IF j = k THEN e ELSE mem.endpoints[j]
  <2> DEFINE map == Put(mem.endpoints, k, e)
  <2>1. /\ map \in [DOMAIN mem.endpoints \cup {k} -> Endpoint]
        /\ \A j \in DOMAIN mem.endpoints \cup {k} : map[j] = IF j = k THEN e ELSE mem.endpoints[j]
    BY <1>3 DEF Put
  <2>2. DOMAIN mem.endpoints \cup {k} \in SUBSET Key
    BY <1>3
  <2>3. map \in UNION {[s -> Endpoint] : s \in SUBSET Key}
    BY <2>1, <2>2, MapType
  <2>4. Added(k, e) = [mem EXCEPT !.endpoints = map, !.sources = @ \cup {c}]
    OBVIOUS
  <2>a. PICK s \in SUBSET (Cluster \cup Host) : s = mem.sources \cup {c}
    BY <1>1, <1>2 DEF Loaded
  <2>b. Added(k, e) = [mem EXCEPT !.endpoints = map, !.sources = s]
    BY <2>4, <2>a
  <2> HIDE DEF map, Added
  <2>5. Added(k, e) \in Loaded /\ Added(k, e).endpoints = map
    <3>1. PICK m \in UNION {[ks -> Endpoint] : ks \in SUBSET Key} : m = map
      BY <2>3
    <3>2. Added(k, e) = [mem EXCEPT !.endpoints = m, !.sources = s]
      BY <2>b, <3>1
    <3> QED
      BY <1>1, <3>1, <3>2 DEF Loaded
  <2> QED
    BY <2>1, <2>5
<1>8. Edited(p, "dataservice", Added(x, new), Added(c, [cluster |-> c, value |-> v]))
  BY DEF AddDataService, mem, old, new
<1> HIDE DEF Added, c
<1>9. Added(x, new) \in Loaded /\ Added(c, [cluster |-> c, value |-> v]) \in Loaded
  BY <1>2, <1>4, <1>7
<1>10. run[p].todo \subseteq DOMAIN Added(x, new).endpoints
  BY <1>1, <1>2, <1>4, <1>7 DEF Sound, mem
<1>11. \A k \in Cluster \cap DOMAIN Added(x, new).endpoints : Added(x, new).endpoints[k].cluster = k
  BY <1>1, <1>2, <1>4, <1>6, <1>7 DEF Sound, mem
<1> QED
  BY <1>8, <1>9, <1>10, <1>11, EditedStep DEF Cmd

(* A command that gives up, or fails before it has the lock. *)
LEMMA GiveUpStep ==
  ASSUME StoreInv, NEW p \in Proc, GiveUp(p) \/ DiscoveryFails(p) \/ LockFails(p)
  PROVE  StoreInv'
<1>1. run' = [run EXCEPT ![p] = NoRun] /\ UNCHANGED <<disk, file, lock, clash, faults, commands>>
  BY DEF GiveUp, DiscoveryFails, LockFails
<1> QED
  BY <1>1, EndStep DEF StoreInv, TypeOK

(* The lock is taken, and who has loaded by then will save over what changes. *)
LEMMA LockStep ==
  ASSUME StoreInv, NEW p \in Proc, Lock(p)
  PROVE  StoreInv'
<1> DEFINE r == [run[p] EXCEPT !.pc = "save", !.todo = DOMAIN run[p].mem.endpoints]
<1>1. TypeOK /\ run \in [Proc -> Run] /\ \A q \in Proc : run[q] \in Run /\ Sound(run[q])
  BY DEF StoreInv, TypeOK
<1>2. r \in Run /\ r.mem = run[p].mem /\ r.todo = DOMAIN r.mem.endpoints /\ r.pc = "save"
  <2>1. DOMAIN run[p].mem.endpoints \subseteq Key
    BY <1>1, MapDomain DEF Run
  <2> QED
    BY <1>1, <2>1 DEF Run
<1>3. Sound(r)
  BY <1>1, <1>2 DEF Sound
<1>4. run' = Dirtied([run EXCEPT ![p] = r], p)
  BY <1>1 DEF Lock
<1> HIDE DEF r
<1>5. run'[p] = r
  BY <1>1, <1>4 DEF Dirtied
<1>6. \A q \in Proc \ {p} : run'[q] = run[q] \/ run'[q] = [run[q] EXCEPT !.dirty = TRUE]
  BY <1>1, <1>4 DEF Dirtied
<1>7. \A q \in Proc \ {p} : /\ run'[q] \in Run
                            /\ run'[q].pc = run[q].pc /\ run'[q].at = run[q].at
                            /\ run'[q].todo = run[q].todo /\ run'[q].mem = run[q].mem
  <2> TAKE q \in Proc \ {p}
  <2>1. run[q] \in Run
    BY <1>1
  <2>2. CASE run'[q] = run[q]
    BY <2>1, <2>2
  <2>3. CASE run'[q] = [run[q] EXCEPT !.dirty = TRUE]
    BY <2>1, <2>3 DEF Run
  <2> QED
    BY <1>6, <2>2, <2>3
<1>8. run' \in [Proc -> Run]
  <2>1. \A q \in Proc : run'[q] \in Run
    BY <1>2, <1>5, <1>7
  <2>2. run' = [q \in Proc |-> run'[q]]
    BY <1>4 DEF Dirtied
  <2> QED
    BY <2>1, <2>2
<1>9. \A q \in Proc : Sound(run'[q])
  BY <1>1, <1>3, <1>5, <1>7 DEF Sound
<1>10. Exclusive'
  <2>1. \A q \in Proc : ~(run[q].pc \in {"save", "write"})
    BY StoreAssumption DEF StoreAssumption, StoreInv, Exclusive, Lock
  <2> QED
    BY <1>5, <1>7, <2>1 DEF Exclusive, Lock
<1>11. clash' \in BOOLEAN
  BY <1>1 DEF Lock, TypeOK, Run
<1> QED
  BY <1>1, <1>8, <1>9, <1>10, <1>11 DEF StoreInv, TypeOK, Lock

(* A section with nothing to write is passed over. *)
LEMMA SkipStep ==
  ASSUME StoreInv, NEW p \in Proc, Skip(p)
  PROVE  StoreInv'
<1> DEFINE r == [run[p] EXCEPT !.at = @ + 1]
<1>1. TypeOK /\ run \in [Proc -> Run] /\ run[p] \in Run /\ Sound(run[p]) /\ Exclusive
  BY DEF StoreInv, TypeOK
<1>2. run[p].at + 1 \in 1..(Len(Order) + 1) /\ run[p].pc = "save"
  BY FiveSections DEF Skip
<1>3. r \in Run /\ r.pc = "save" /\ r.todo = run[p].todo /\ r.mem = run[p].mem
  BY <1>1, <1>2 DEF Run
<1>4. Sound(r)
  BY <1>1, <1>3 DEF Sound
<1>5. run' = [run EXCEPT ![p] = r] /\ lock' = lock
  BY <1>1 DEF Skip
<1> HIDE DEF r
<1>6. /\ run' \in [Proc -> Run]
      /\ \A q \in Proc : Sound(run'[q])
      /\ Exclusive'
  BY <1>1, <1>2, <1>3, <1>4, <1>5, RunStep DEF Exclusive
<1> QED
  BY <1>1, <1>6 DEF Skip, StoreInv, TypeOK

(* The file is truncated for a section that is to be written. *)
LEMMA TruncateStep ==
  ASSUME StoreInv, NEW p \in Proc, Truncate(p)
  PROVE  StoreInv'
<1> DEFINE r == [run[p] EXCEPT !.pc = "write"]
<1>1. TypeOK /\ run \in [Proc -> Run] /\ run[p] \in Run /\ Sound(run[p]) /\ Exclusive
  BY DEF StoreInv, TypeOK
<1>2. run[p].at \in DOMAIN Order /\ run[p].pc = "save"
  BY DEF Truncate, Due
<1>3. /\ r \in Run /\ r.pc = "write" /\ r.todo = run[p].todo /\ r.mem = run[p].mem
      /\ r.at = run[p].at
  BY <1>1 DEF Run
<1>4. Sound(r)
  BY <1>1, <1>2, <1>3 DEF Sound
<1>5. run' = [run EXCEPT ![p] = r] /\ lock' = lock
  BY <1>1 DEF Truncate
<1> HIDE DEF r
<1>6. /\ run' \in [Proc -> Run]
      /\ \A q \in Proc : Sound(run'[q])
      /\ Exclusive'
  BY <1>1, <1>2, <1>3, <1>4, <1>5, RunStep DEF Exclusive
<1> QED
  BY <1>1, <1>6 DEF Truncate, StoreInv, TypeOK

(* The cluster of every endpoint that is read back is written again.        *)
LEMMA RewrittenKeeps ==
  ASSUME NEW old \in Seq(Endpoint), NEW es \in Listed(Keyed(old))
  PROVE  es \in Seq(Endpoint) /\ Clusters(old) \subseteq Clusters(es)
<1>1. IsFiniteSet(Clusters(old))
  BY ClustersFinite
<1>2. /\ Keyed(old) \in [Clusters(old) -> Endpoint]
      /\ \A c \in Clusters(old) : Keyed(old)[c].cluster = c
  BY KeyedType
<1>3. es \in Seq(Endpoint) /\ \A c \in Clusters(old) : Keyed(old)[c].cluster \in Clusters(es)
  BY <1>1, <1>2, ListedType
<1> QED
  BY <1>2, <1>3

(* So it is when an endpoint is merged that has its own cluster's name, or   *)
(* none of a cluster.                                                       *)
LEMMA MergedKeeps ==
  ASSUME NEW old \in Seq(Endpoint), NEW k \in Key, NEW e \in Endpoint,
         k \in Cluster => e.cluster = k,
         NEW es \in Listed(Put(Keyed(old), k, e))
  PROVE  es \in Seq(Endpoint) /\ Clusters(old) \subseteq Clusters(es)
<1> DEFINE K == Clusters(old) \cup {k}
           map == Put(Keyed(old), k, e)
<1>1. IsFiniteSet(Clusters(old)) /\ Clusters(old) \subseteq Cluster
  BY ClustersFinite
<1>2. IsFiniteSet(K)
  BY <1>1, FS_AddElement
<1>3. /\ Keyed(old) \in [Clusters(old) -> Endpoint]
      /\ \A c \in Clusters(old) : Keyed(old)[c].cluster = c
  BY KeyedType
<1>4. /\ map \in [K -> Endpoint]
      /\ \A j \in K : map[j] = IF j = k THEN e ELSE Keyed(old)[j]
  BY <1>3 DEF Put
<1>5. \A c \in Clusters(old) : map[c].cluster = c
  BY <1>1, <1>3, <1>4
<1> HIDE DEF map
<1>6. es \in Seq(Endpoint) /\ \A j \in K : map[j].cluster \in Clusters(es)
  <2>1. es \in Listed(map)
    BY DEF map
  <2> HIDE DEF K
  <2> QED
    BY <1>2, <1>4, <2>1, ListedType
<1> QED
  BY <1>5, <1>6

(* A write keeps the file's type and the clusters in it. *)
LEMMA WriteKeeps ==
  ASSUME StoreInv, NEW p \in Proc, Write(p)
  PROVE  disk' \in Stored /\ Clusters(disk.endpoints) \subseteq Clusters(disk'.endpoints)
<1> DEFINE mem == run[p].mem
           kept == Keyed(disk.endpoints)
<1>1. disk \in Stored /\ run[p] \in Run /\ mem \in Loaded /\ Sound(run[p])
  BY DEF StoreInv, TypeOK, Run
<1>2. disk.endpoints \in Seq(Endpoint)
  BY <1>1 DEF Stored
<1>3. CASE Section(p) = "endpoints"
  <2>1. PICK k \in run[p].todo :
          \E es \in Listed(Mutated(p, k).endpoints) : disk' = [Mutated(p, k) EXCEPT !.endpoints = es]
    BY <1>3 DEF Write
  <2>2. PICK es \in Listed(Mutated(p, k).endpoints) : disk' = [Mutated(p, k) EXCEPT !.endpoints = es]
    BY <2>1
  <2>3. Mutated(p, k) = [disk EXCEPT !.endpoints = Put(kept, k, mem.endpoints[k])]
    BY <1>3 DEF Mutated
  <2>4. /\ k \in DOMAIN mem.endpoints /\ k \in Key /\ mem.endpoints[k] \in Endpoint
        /\ k \in Cluster => mem.endpoints[k].cluster = k
    BY <1>1, MapDomain DEF Sound
  <2> HIDE DEF mem, kept
  <2>5. Mutated(p, k).endpoints = Put(kept, k, mem.endpoints[k])
    BY <1>1, <2>3 DEF Stored
  <2>6. es \in Seq(Endpoint) /\ Clusters(disk.endpoints) \subseteq Clusters(es)
    BY <1>2, <2>2, <2>4, <2>5, MergedKeeps DEF kept
  <2>7. disk' = [disk EXCEPT !.endpoints = es]
    BY <1>1, <2>2, <2>3 DEF Stored
  <2> QED
    BY <1>1, <2>6, <2>7 DEF Stored
<1>4. CASE Section(p) # "endpoints"
  <2>1. PICK es \in Listed(kept) : disk' = [Mutated(p, NoValue) EXCEPT !.endpoints = es]
    BY <1>4 DEF Write
  <2>2. es \in Seq(Endpoint) /\ Clusters(disk.endpoints) \subseteq Clusters(es)
    BY <1>2, RewrittenKeeps
  <2>3. Section(p) \in {"upload", "ilmt", "sources", "export"}
    <3>1. run[p].at \in 1..5
      BY <1>1, FiveSections DEF Write, Sound
    <3> QED
      BY <1>4, <3>1 DEF Section, Order
  <2> HIDE DEF mem, kept
  <2>4. CASE Section(p) = "upload"
    <3>1. Mutated(p, NoValue) = [disk EXCEPT !.endpoints = kept, !.upload = mem.upload]
      BY <2>4 DEF Mutated, mem, kept
    <3> QED
      BY <1>1, <2>1, <2>2, <3>1 DEF Stored, Loaded
  <2>5. CASE Section(p) = "ilmt"
    <3>1. Mutated(p, NoValue) = [disk EXCEPT !.endpoints = kept, !.ilmt = mem.ilmt]
      BY <2>5 DEF Mutated, mem, kept
    <3> QED
      BY <1>1, <2>1, <2>2, <3>1 DEF Stored, Loaded
  <2>6. CASE Section(p) = "sources"
    <3>1. Mutated(p, NoValue) = [disk EXCEPT !.endpoints = kept, !.sources = mem.sources]
      BY <2>6 DEF Mutated, mem, kept
    <3> QED
      BY <1>1, <2>1, <2>2, <3>1 DEF Stored, Loaded
  <2>7. CASE Section(p) = "export"
    <3>1. Mutated(p, NoValue) = [disk EXCEPT !.endpoints = kept, !.export = mem.export]
      BY <2>7 DEF Mutated, mem, kept
    <3> QED
      BY <1>1, <2>1, <2>2, <3>1 DEF Stored, Loaded
  <2> QED
    BY <2>3, <2>4, <2>5, <2>6, <2>7
<1> QED
  BY <1>3, <1>4

(* A section, or one endpoint of the first, is written. *)
LEMMA WriteStep ==
  ASSUME StoreInv, NEW p \in Proc, Write(p)
  PROVE  StoreInv'
<1>1. TypeOK /\ run \in [Proc -> Run] /\ run[p] \in Run /\ Sound(run[p]) /\ Exclusive
  BY DEF StoreInv, TypeOK
<1>2. disk' \in Stored /\ file' = "whole" /\ UNCHANGED <<lock, clash, faults, commands>>
  BY WriteKeeps DEF Write
<1>3. run[p].pc = "write" /\ run[p].at \in 1..5
  BY <1>1, FiveSections DEF Write, Sound
<1>4. PICK r \in Run : run' = [run EXCEPT ![p] = r] /\ Sound(r) /\ r.pc = "save"
  <2>1. CASE Section(p) = "endpoints"
    <3>1. PICK k \in run[p].todo : run' = [run EXCEPT ![p].pc = "save", ![p].todo = @ \ {k}]
      BY <2>1 DEF Write
    <3> DEFINE r == [run[p] EXCEPT !.pc = "save", !.todo = @ \ {k}]
    <3>2. run' = [run EXCEPT ![p] = r]
      BY <1>1, <3>1
    <3>3. r \in Run /\ r.pc = "save" /\ r.todo \subseteq run[p].todo /\ r.mem = run[p].mem
      BY <1>1 DEF Run
    <3>4. Sound(r)
      BY <1>1, <3>3 DEF Sound
    <3> QED
      BY <3>2, <3>3, <3>4
  <2>2. CASE Section(p) # "endpoints"
    <3> DEFINE r == [run[p] EXCEPT !.pc = "save", !.at = @ + 1]
    <3>1. run' = [run EXCEPT ![p] = r]
      BY <1>1, <2>2 DEF Write
    <3>a. run[p].at + 1 \in 1..(Len(Order) + 1)
      BY <1>3, FiveSections
    <3>2. r \in Run /\ r.pc = "save" /\ r.todo = run[p].todo /\ r.mem = run[p].mem
      BY <1>1, <3>a DEF Run
    <3>3. Sound(r)
      BY <1>1, <3>2 DEF Sound
    <3> QED
      BY <3>1, <3>2, <3>3
  <2> QED
    BY <2>1, <2>2
<1>5. /\ run' \in [Proc -> Run]
      /\ \A q \in Proc : Sound(run'[q])
      /\ Exclusive'
  BY <1>1, <1>2, <1>3, <1>4, RunStep DEF Exclusive
<1> QED
  BY <1>1, <1>2, <1>5 DEF StoreInv, TypeOK

(* A command has saved and returns the lock. *)
LEMMA UnlockStep ==
  ASSUME StoreInv, NEW p \in Proc, Unlock(p)
  PROVE  StoreInv'
<1>1. lock = p
  BY DEF StoreInv, Exclusive, Unlock
<1>2. run' = [run EXCEPT ![p] = NoRun]
  BY DEF Unlock
<1> QED
  BY <1>1, <1>2, EndStep DEF StoreInv, TypeOK, Unlock

(* What a write leaves that was cut short is a file still. *)
LEMMA CutType ==
  ASSUME TypeOK, NEW kind, Cut(kind)
  PROVE  disk' \in Stored /\ file' \in {"whole", "cut", "torn"}
BY NothingType DEF Cut, TypeOK

(* A write fails. *)
LEMMA SaveErrorStep ==
  ASSUME StoreInv, NEW p \in Proc, SaveError(p)
  PROVE  StoreInv' /\ faults' # faults
<1>1. TypeOK /\ lock = p
  BY DEF StoreInv, Exclusive, SaveError
<1>2. faults' \in 0..MaxFaults /\ faults' # faults
  BY <1>1, FaultType DEF SaveError, Fault, TypeOK
<1>3. disk' \in Stored /\ file' \in {"whole", "cut", "torn"}
  BY <1>1, CutType DEF SaveError, TypeOK
<1>4. run' = [run EXCEPT ![p] = NoRun] /\ lock' = "free" /\ UNCHANGED <<clash, commands>>
  BY DEF SaveError
<1> QED
  BY <1>1, <1>2, <1>3, <1>4, EndStep DEF StoreInv, TypeOK

(* A process dies. *)
LEMMA KillStep ==
  ASSUME StoreInv, NEW p \in Proc, Kill(p)
  PROVE  StoreInv' /\ faults' # faults
<1>1. TypeOK
  BY DEF StoreInv
<1>2. faults' \in 0..MaxFaults /\ faults' # faults
  BY <1>1, FaultType DEF Kill, Fault, TypeOK
<1>3. disk' \in Stored /\ file' \in {"whole", "cut", "torn"}
  BY <1>1, CutType DEF Kill, TypeOK
<1>4. run' = [run EXCEPT ![p] = NoRun] /\ UNCHANGED <<clash, commands>>
  BY DEF Kill
<1>5. /\ lock' = lock \/ lock = p
      /\ lock' \in Proc \cup {"free", "stale"}
  BY <1>1 DEF Kill, TypeOK
<1> QED
  BY <1>1, <1>2, <1>3, <1>4, <1>5, EndStep DEF StoreInv, TypeOK

(* Every step keeps the invariant. *)
LEMMA StoreStep == NamesAgree /\ StoreInv /\ [Next]_vars => StoreInv'
<1> SUFFICES ASSUME NamesAgree, StoreInv, [Next]_vars PROVE StoreInv'
  OBVIOUS
<1>1. CASE RemoveLock
  BY <1>1, StoreAssumption DEF RemoveLock, StoreInv, TypeOK, Exclusive, StoreAssumption
<1>2. ASSUME NEW p \in Proc, NEW cmd \in Cmd, Start(p, cmd) PROVE StoreInv'
  BY <1>2, StartStep
<1>3. ASSUME NEW p \in Proc, StartFails(p) PROVE StoreInv'
  <2>1. commands' \in 0..MaxCommands
    BY <1>3, StoreAssumption DEF StartFails, StoreInv, TypeOK, StoreAssumption
  <2> QED
    BY <1>3, <2>1 DEF StartFails, StoreInv, TypeOK, Exclusive
<1>4. ASSUME NEW p \in Proc, Edit(p) PROVE StoreInv'
  BY <1>4, ConfigInitStep, AddDataServiceStep, AddIlmtStep, ExportStep, GiveUpStep DEF Edit
<1>5. ASSUME NEW p \in Proc, Save(p) PROVE StoreInv'
  BY <1>5, LockStep, GiveUpStep, SkipStep, TruncateStep, WriteStep, UnlockStep DEF Save
<1>6. ASSUME NEW p \in Proc, SaveError(p) \/ Kill(p) PROVE StoreInv'
  BY <1>6, SaveErrorStep, KillStep
<1>7. CASE UNCHANGED vars
  BY <1>7 DEF vars, StoreInv, TypeOK, Exclusive
<1> QED
  BY <1>1, <1>2, <1>3, <1>4, <1>5, <1>6, <1>7 DEF Next

-----------------------------------------------------------------------------
(* Theorems *)

(* The config file and the memory of all commands keep their types, and of   *)
(* the commands only the one that has the lock is writing the file, whoever  *)
(* fails, dies or leaves a lock behind.                                      *)
THEOREM SavingAlone ==
  ASSUME NamesAgree
  PROVE  Spec => [](TypeOK /\ Exclusive)
<1>1. Init => StoreInv
  BY StoreInit
<1>2. StoreInv /\ [Next]_vars => StoreInv'
  BY StoreStep
<1>3. StoreInv => TypeOK /\ Exclusive
  BY DEF StoreInv
<1> QED
  BY <1>1, <1>2, <1>3, PTL DEF Spec

(* ModifyConfig never makes a cluster disappear from the config, however     *)
(* many commands overlap, if no context bears the name of another's cluster. *)
THEOREM ClustersKept ==
  ASSUME NamesAgree
  PROVE  Spec => EndpointsKept
<1>1. Init => StoreInv
  BY StoreInit
<1>2. StoreInv /\ [Next]_vars => StoreInv'
  BY StoreStep
<1>3. StoreInv /\ [Next]_vars =>
        [faults' = faults => Clusters(disk.endpoints) \subseteq Clusters(disk'.endpoints)]_vars
  <2> SUFFICES ASSUME StoreInv, Next, faults' = faults
               PROVE  Clusters(disk.endpoints) \subseteq Clusters(disk'.endpoints)
    OBVIOUS
  <2>1. ASSUME NEW p \in Proc, Write(p)
        PROVE  Clusters(disk.endpoints) \subseteq Clusters(disk'.endpoints)
    BY <2>1, WriteKeeps
  <2>2. ASSUME NEW p \in Proc, SaveError(p) \/ Kill(p) PROVE FALSE
    BY <2>2, SaveErrorStep, KillStep
  <2>3. ASSUME RemoveLock \/ \E p \in Proc : StartFails(p) \/ \E cmd \in Cmd : Start(p, cmd)
        PROVE  UNCHANGED disk
    BY <2>3 DEF RemoveLock, StartFails, Start
  <2>4. ASSUME NEW p \in Proc, Edit(p)
        PROVE  UNCHANGED disk
    BY <2>4 DEF Edit, Edited, ConfigInit, AddDataService, AddIlmt, Export, GiveUp, DiscoveryFails
  <2>5. ASSUME NEW p \in Proc, Save(p), ~Write(p)
        PROVE  UNCHANGED disk
    BY <2>5 DEF Save, Lock, LockFails, Skip, Truncate, Unlock
  <2> QED
    BY <2>1, <2>2, <2>3, <2>4, <2>5 DEF Next
<1> QED
  BY <1>1, <1>2, <1>3, PTL DEF Spec, EndpointsKept

-----------------------------------------------------------------------------
(* What a command knows of the file *)

(* No two endpoints of a map are of one cluster.                            *)
OneEach(map) == \A j, k \in DOMAIN map : map[j].cluster = map[k].cluster => j = k

(* Every endpoint of a map is under its own cluster's name.                 *)
SelfKeyed(map) == \A k \in DOMAIN map : map[k].cluster = k

ClustersOf(map) == {map[k].cluster : k \in DOMAIN map}

(* A config in memory has what it names as a source.                        *)
Resolves(mem) ==
  \A s \in mem.sources : IF s \in Host THEN mem.ilmt[s] # NoValue ELSE s \in ClustersOf(mem.endpoints)

(* A config in memory has the hosts and sources of the file.                *)
Extends(mem, stored) ==
  /\ \A h \in Host : stored.ilmt[h] # NoValue => mem.ilmt[h] # NoValue
  /\ stored.sources \subseteq mem.sources

(* As far as a command has come with saving, the file has what it saves.    *)
Reached(r, stored) ==
  /\ r.at > 1 => r.todo = {}
  /\ r.at > 2 => stored.upload = r.mem.upload
  /\ r.at > 3 => stored.ilmt = r.mem.ilmt
  /\ r.at > 4 => stored.sources = r.mem.sources
  /\ r.at > 5 => stored.export = r.mem.export
  /\ \A k \in DOMAIN r.mem.endpoints \ r.todo : r.mem.endpoints[k].cluster \in Clusters(stored.endpoints)

(* Of the endpoints it has what the command saves, and what it will replace. *)
Exact(map, todo, es) ==
  /\ \A k \in DOMAIN map \ todo : Keyed(es)[map[k].cluster] = map[k]
  /\ \A c \in Clusters(es) : c \in DOMAIN map \/ \E k \in DOMAIN map \ todo : map[k].cluster = c

(* What a command is meant to leave behind is what it has in memory, with    *)
(* every endpoint under its own cluster's name.                             *)
Means(mem, meant) ==
  /\ meant.upload = mem.upload /\ meant.ilmt = mem.ilmt
  /\ meant.sources = mem.sources /\ meant.export = mem.export
  /\ OneEach(mem.endpoints) =>
       /\ DOMAIN meant.endpoints = ClustersOf(mem.endpoints)
       /\ \A k \in DOMAIN mem.endpoints : meant.endpoints[mem.endpoints[k].cluster] = mem.endpoints[k]

(* A command that is not dirty and has not begun to save has in memory what  *)
(* the file holds, and its edit.  Nobody is saving.                         *)
Before(r, stored, holder) ==
  r.pc \in {"loaded", "edited"} =>
    /\ r.at = 1
    /\ r.pc = "loaded" => SelfKeyed(r.mem.endpoints)
    /\ ~r.dirty => /\ holder \notin Proc
                   /\ Extends(r.mem, stored)
                   /\ Clusters(stored.endpoints) \subseteq DOMAIN r.mem.endpoints

(* What it saves, it saves into a file that nobody else changes.            *)
During(r, stored, clashed) ==
  r.pc \in {"save", "write"} =>
    IF r.dirty THEN clashed
               ELSE /\ Extends(r.mem, stored)
                    /\ Reached(r, stored)
                    /\ OneEach(r.mem.endpoints) => Exact(r.mem.endpoints, r.todo, stored.endpoints)

Follows(r, stored, holder, clashed) ==
  /\ Before(r, stored, holder)
  /\ During(r, stored, clashed)
  /\ Means(r.mem, r.meant)
  /\ ~clashed => Resolves(r.mem)

FollowsInv ==
  /\ file = "cut" => \E p \in Proc : run[p].pc = "write"
  /\ \A p \in Proc : Follows(run[p], disk, lock, clash)
  /\ SourcesResolve

-----------------------------------------------------------------------------
(* Maps of endpoints, again *)

(* A list of endpoints of different clusters is read back as it was written. *)
LEMMA ReadBack ==
  ASSUME NEW K, IsFiniteSet(K), NEW map \in [K -> Endpoint], OneEach(map), NEW es \in Listed(map)
  PROVE  /\ es \in Seq(Endpoint)
         /\ Clusters(es) = ClustersOf(map)
         /\ \A k \in K : Keyed(es)[map[k].cluster] = map[k]
<1>1. es \in Seq(Endpoint) /\ \A k \in K : map[k].cluster \in Clusters(es)
  BY ListedType
<1>2. PICK ks \in SetToSeqs(K) : es = [i \in DOMAIN ks |-> map[ks[i]]]
  BY DEF Listed
<1>3. ks \in [1..Cardinality(K) -> K]
  BY <1>2 DEF SetToSeqs
<1>4. \A i \in DOMAIN es : ks[i] \in K /\ es[i] = map[ks[i]]
  BY <1>2, <1>3
<1>5. Clusters(es) = ClustersOf(map)
  BY <1>1, <1>4 DEF Clusters, ClustersOf
<1>6. ASSUME NEW k \in K PROVE Keyed(es)[map[k].cluster] = map[k]
  <2> DEFINE c == map[k].cluster
             Final(i) == /\ es[i].cluster = c
                         /\ \A j \in DOMAIN es : j > i => es[j].cluster # c
  <2>1. c \in Clusters(es)
    BY <1>1
  <2>2. \E i \in DOMAIN es : Final(i)
    <3> DEFINE I == {i \in DOMAIN es : es[i].cluster = c}
    <3>1. Len(es) \in Nat /\ DOMAIN es = 1..Len(es)
      BY <1>1
    <3>2. I \in SUBSET (1..Len(es)) /\ I # {}
      BY <2>1, <3>1 DEF Clusters
    <3>3. PICK i \in I : \A j \in I : j <= i
      <4> HIDE DEF I
      <4> QED
        BY <3>1, <3>2, Greatest
    <3> QED
      BY <3>1, <3>3
  <2>3. PICK i \in DOMAIN es : i = (CHOOSE m \in DOMAIN es : Final(m)) /\ es[i].cluster = c
    BY <2>2
  <2>4. Keyed(es)[c] = es[i]
    BY <2>1, <2>3 DEF Keyed
  <2>5. ks[i] = k
    BY <1>4, <2>3 DEF OneEach
  <2> QED
    BY <1>4, <2>4, <2>5
<1> QED
  BY <1>1, <1>5, <1>6

(* A loaded map has every cluster once. *)
LEMMA SelfKeyedOnce ==
  ASSUME NEW map, SelfKeyed(map)
  PROVE  OneEach(map) /\ ClustersOf(map) = DOMAIN map
BY DEF SelfKeyed, OneEach, ClustersOf

(* So the endpoints that a section leaves alone are read back unchanged. *)
LEMMA RewrittenSame ==
  ASSUME NEW old \in Seq(Endpoint), NEW es \in Listed(Keyed(old))
  PROVE  es \in Seq(Endpoint) /\ Clusters(es) = Clusters(old) /\ Keyed(es) = Keyed(old)
<1>1. IsFiniteSet(Clusters(old))
  BY ClustersFinite
<1>2. /\ Keyed(old) \in [Clusters(old) -> Endpoint]
      /\ \A c \in Clusters(old) : Keyed(old)[c].cluster = c
  BY KeyedType
<1>3. OneEach(Keyed(old)) /\ ClustersOf(Keyed(old)) = Clusters(old)
  BY <1>2, SelfKeyedOnce DEF SelfKeyed
<1>4. /\ es \in Seq(Endpoint)
      /\ Clusters(es) = Clusters(old)
      /\ \A c \in Clusters(old) : Keyed(es)[c] = Keyed(old)[c]
  <2> HIDE DEF Keyed
  <2> QED
    BY <1>1, <1>2, <1>3, ReadBack
<1>5. Keyed(es) \in [Clusters(es) -> Endpoint]
  BY <1>4, KeyedType
<1> QED
  BY <1>2, <1>4, <1>5

-----------------------------------------------------------------------------
(* Steps *)

(* A command that has loaded is meant to leave behind what it loaded. *)
LEMMA MeansItself ==
  ASSUME NEW mem, SelfKeyed(mem.endpoints)
  PROVE  Means(mem, mem)
BY SelfKeyedOnce DEF Means, SelfKeyed

(* A command that does not run. *)
LEMMA NoRunFollows == \A stored, holder, clashed : Follows(NoRun, stored, holder, clashed)
<1>1. /\ Load(Nothing) \in Loaded
      /\ SelfKeyed(Load(Nothing).endpoints)
      /\ Load(Nothing).sources = {}
  BY NothingType, LoadType DEF SelfKeyed, Load, Nothing
<1> HIDE DEF Load, Nothing
<1>2. NoRun.pc = "idle" /\ NoRun.mem = Load(Nothing) /\ NoRun.meant = Load(Nothing)
  BY DEF NoRun
<1>3. Means(NoRun.mem, NoRun.meant)
  BY <1>1, <1>2, MeansItself
<1>4. Resolves(NoRun.mem)
  BY <1>1, <1>2 DEF Resolves
<1> QED
  BY <1>2, <1>3, <1>4 DEF Follows, Before, During

(* The invariant holds initially. *)
LEMMA FollowsInit == Init => FollowsInv
<1> SUFFICES ASSUME Init PROVE FollowsInv
  OBVIOUS
<1>1. \A p \in Proc : run[p] = NoRun
  BY DEF Init
<1>2. file # "cut" /\ SourcesResolve
  BY DEF Init, SourcesResolve, Nothing
<1> QED
  BY <1>1, <1>2, NoRunFollows DEF FollowsInv

(* A step of one command that changes neither the file's content nor the lock. *)
LEMMA LocalFollows ==
  ASSUME StoreInv, FollowsInv, NEW p \in Proc, NEW r, run' = [run EXCEPT ![p] = r],
         UNCHANGED <<disk, lock, clash>>, Follows(r, disk, lock, clash),
         file' = "cut" => r.pc = "write" \/ (file = "cut" /\ run[p].pc # "write")
  PROVE  FollowsInv'
<1>1. run'[p] = r /\ \A q \in Proc \ {p} : run'[q] = run[q]
  BY DEF StoreInv, TypeOK
<1>2. \A q \in Proc : Follows(run'[q], disk, lock, clash)
  BY <1>1 DEF FollowsInv
<1>3. \A q \in Proc : Follows(run[q], disk, lock, clash)'
  BY <1>2
<1>4. file' = "cut" => \E q \in Proc : run'[q].pc = "write"
  BY <1>1 DEF FollowsInv
<1>5. SourcesResolve'
  BY DEF FollowsInv, SourcesResolve
<1> QED
  BY <1>3, <1>4, <1>5 DEF FollowsInv

(* While a command saves, no other one does, and who has loaded is dirty.    *)
LEMMA OthersAside ==
  ASSUME StoreInv, FollowsInv, NEW p \in Proc, lock = p, NEW q \in Proc \ {p}
  PROVE  \A stored, holder : Follows(run[q], stored, holder, clash)
<1>1. Follows(run[q], disk, lock, clash)
  BY DEF FollowsInv
<1>2. ~(run[q].pc \in {"save", "write"})
  BY DEF StoreInv, Exclusive
<1>3. run[q].dirty \in BOOLEAN
  BY DEF StoreInv, TypeOK, Run
<1>4. run[q].pc \in {"loaded", "edited"} => run[q].dirty
  BY <1>1, <1>3 DEF Follows, Before
<1> QED
  BY <1>1, <1>2, <1>4 DEF Follows, Before, During

(* A command that ends; if it saved, it gives the lock back or leaves it     *)
(* behind, and may leave an empty file behind as well.                      *)
LEMMA EndFollows ==
  ASSUME StoreInv, FollowsInv, NEW p \in Proc, run' = [run EXCEPT ![p] = NoRun], clash' = clash,
         UNCHANGED <<disk, lock>> \/ (lock = p /\ (disk' = disk \/ disk' = Nothing)),
         file' = "cut" => file = "cut" /\ run[p].pc # "write"
  PROVE  FollowsInv'
<1>1. run'[p] = NoRun /\ \A q \in Proc \ {p} : run'[q] = run[q]
  BY DEF StoreInv, TypeOK
<1>2. ASSUME NEW q \in Proc PROVE Follows(run'[q], disk', lock', clash')
  <2>1. CASE q = p
    BY <1>1, <2>1, NoRunFollows
  <2>2. CASE q # p /\ UNCHANGED <<disk, lock>>
    BY <1>1, <2>2 DEF FollowsInv
  <2>3. CASE q # p /\ lock = p
    BY <1>1, <2>3, OthersAside
  <2> QED
    BY <2>1, <2>2, <2>3
<1>3. file' = "cut" => \E q \in Proc : run'[q].pc = "write"
  BY <1>1 DEF FollowsInv
<1>4. SourcesResolve'
  BY DEF FollowsInv, SourcesResolve, Nothing
<1> QED
  BY <1>2, <1>3, <1>4 DEF FollowsInv

(* A command starts. *)
LEMMA StartFollows ==
  ASSUME StoreInv, FollowsInv, NEW p \in Proc, NEW cmd \in Cmd, Start(p, cmd)
  PROVE  FollowsInv'
<1> DEFINE stored == IF file = "cut" THEN Nothing ELSE disk
           mem == Load(stored)
           late == lock \in Proc
           r == [NoRun EXCEPT !.pc = "loaded", !.cmd = cmd, !.mem = mem, !.meant = mem,
                              !.dirty = late]
<1>1. disk \in Stored /\ Exclusive
  BY DEF StoreInv, TypeOK
<1>2. stored \in Stored
  BY <1>1, NothingType
<1>3. SelfKeyed(mem.endpoints)
  BY <1>2, LoadType DEF SelfKeyed
<1>4. /\ mem.endpoints = Keyed(stored.endpoints) /\ mem.ilmt = stored.ilmt
      /\ mem.sources = stored.sources
      /\ DOMAIN mem.endpoints = Clusters(stored.endpoints)
  BY <1>2 DEF Load, Stored, Keyed
<1>5. run' = [run EXCEPT ![p] = r]
  BY DEF Start
<1>6. clash = FALSE => Resolves(mem)
  <2>1. ClustersOf(mem.endpoints) = Clusters(stored.endpoints)
    BY <1>3, <1>4, SelfKeyedOnce
  <2>2. CASE stored = disk
    BY <1>4, <2>1, <2>2 DEF FollowsInv, SourcesResolve, Resolves
  <2>3. CASE stored = Nothing
    <3>1. mem.sources = {}
      BY <1>4, <2>3 DEF Nothing
    <3> QED
      BY <3>1 DEF Resolves
  <2> QED
    BY <2>2, <2>3
<1>7. ~late => stored = disk
  <2>1. file = "cut" => \E q \in Proc : lock = q
    BY <1>1 DEF FollowsInv, Exclusive
  <2> QED
    BY <2>1
<1> HIDE DEF mem, stored, late
<1>8. /\ r.pc = "loaded" /\ r.mem = mem /\ r.meant = mem /\ r.dirty = late /\ r.at = 1
  BY DEF NoRun
<1> HIDE DEF r
<1>9. Means(r.mem, r.meant)
  BY <1>3, <1>8, MeansItself
<1>10. Before(r, disk, lock)
  BY <1>3, <1>4, <1>7, <1>8 DEF Before, Extends, late
<1>11. ~clash => Resolves(r.mem)
  BY <1>6, <1>8
<1>12. Follows(r, disk, lock, clash)
  BY <1>8, <1>9, <1>10, <1>11 DEF Follows, During
<1> QED
  BY <1>5, <1>12, LocalFollows DEF Start

(* A command changes its copy. *)
LEMMA EditedFollows ==
  ASSUME StoreInv, FollowsInv, NEW p \in Proc, NEW cmd, NEW mem, NEW meant,
         Edited(p, cmd, mem, meant),
         \A h \in Host : run[p].mem.ilmt[h] # NoValue => mem.ilmt[h] # NoValue,
         run[p].mem.sources \subseteq mem.sources,
         DOMAIN run[p].mem.endpoints \subseteq DOMAIN mem.endpoints,
         Means(mem, meant),
         Resolves(run[p].mem) => Resolves(mem)
  PROVE  FollowsInv'
<1> DEFINE r == [run[p] EXCEPT !.pc = "edited", !.mem = mem, !.meant = meant]
<1>1. run \in [Proc -> Run] /\ run[p] \in Run /\ Follows(run[p], disk, lock, clash)
  BY DEF StoreInv, TypeOK, FollowsInv
<1>2. run' = [run EXCEPT ![p] = r] /\ UNCHANGED <<disk, lock, clash, file>> /\ run[p].pc = "loaded"
  BY <1>1 DEF Edited
<1>3. /\ r.pc = "edited" /\ r.mem = mem /\ r.meant = meant /\ r.dirty = run[p].dirty
      /\ r.at = run[p].at
  BY <1>1 DEF Run
<1> HIDE DEF r
<1>4. Before(r, disk, lock)
  BY <1>1, <1>2, <1>3 DEF Follows, Before, Extends
<1>5. Follows(r, disk, lock, clash)
  BY <1>1, <1>3, <1>4 DEF Follows, During
<1> QED
  BY <1>2, <1>5, LocalFollows

(* What a command has that has just loaded. *)
LEMMA JustLoaded ==
  ASSUME StoreInv, FollowsInv, NEW p \in Proc, run[p].pc = "loaded"
  PROVE  run[p].mem \in Loaded /\ SelfKeyed(run[p].mem.endpoints) /\ Sound(run[p])
BY DEF StoreInv, TypeOK, Run, FollowsInv, Follows, Before

(* The commands that leave the endpoints where they are. *)
LEMMA PlainEditFollows ==
  ASSUME StoreInv, FollowsInv, NEW p \in Proc, NEW cmd, NEW mem, Edited(p, cmd, mem, mem),
         \A h \in Host : run[p].mem.ilmt[h] # NoValue => mem.ilmt[h] # NoValue,
         run[p].mem.sources \subseteq mem.sources,
         DOMAIN mem.endpoints = DOMAIN run[p].mem.endpoints,
         \A k \in DOMAIN mem.endpoints : mem.endpoints[k].cluster = run[p].mem.endpoints[k].cluster,
         \A s \in mem.sources \ run[p].mem.sources : s \in Host /\ mem.ilmt[s] # NoValue
  PROVE  FollowsInv'
<1>1. SelfKeyed(mem.endpoints) /\ SelfKeyed(run[p].mem.endpoints)
  BY JustLoaded DEF Edited, SelfKeyed
<1>2. Means(mem, mem)
  BY <1>1, MeansItself
<1>3. Resolves(run[p].mem) => Resolves(mem)
  BY <1>1, SelfKeyedOnce DEF Resolves
<1> QED
  BY <1>2, <1>3, EditedFollows

(* These are config init, sources add ilmt and the export commands.          *)
LEMMA PlainEditsFollow ==
  ASSUME StoreInv, FollowsInv, NEW p \in Proc, NEW v \in Value,
         \/ ConfigInit(p, v)
         \/ \E h \in Host : AddIlmt(p, h, v)
         \/ \E hosts \in SUBSET Host, ks \in SUBSET DOMAIN run[p].mem.endpoints :
              Export(p, v, hosts, ks)
  PROVE  FollowsInv'
<1>1. run[p].pc = "loaded"
  BY DEF ConfigInit, AddIlmt, Export, Edited
<1>2. run[p].mem \in Loaded /\ v # NoValue
  BY <1>1, JustLoaded, StoreAssumption DEF StoreAssumption
<1>3. CASE ConfigInit(p, v)
  <2> DEFINE mem == [run[p].mem EXCEPT !.upload = v]
  <2>1. /\ mem.ilmt = run[p].mem.ilmt /\ mem.sources = run[p].mem.sources
        /\ mem.endpoints = run[p].mem.endpoints
    BY <1>2 DEF Loaded
  <2>2. Edited(p, "init", mem, mem)
    BY <1>3 DEF ConfigInit
  <2> HIDE DEF mem
  <2> QED
    BY <2>1, <2>2, PlainEditFollows
<1>4. ASSUME NEW h \in Host, AddIlmt(p, h, v) PROVE FollowsInv'
  <2> DEFINE mem == [run[p].mem EXCEPT !.ilmt[h] = IF @ = NoValue THEN v ELSE @,
                                       !.sources = @ \cup {h}]
  <2>1. /\ \A g \in Host : mem.ilmt[g] = IF g = h /\ run[p].mem.ilmt[h] = NoValue
                                           THEN v ELSE run[p].mem.ilmt[g]
        /\ mem.sources = run[p].mem.sources \cup {h}
        /\ mem.endpoints = run[p].mem.endpoints
    BY <1>2 DEF Loaded
  <2>2. Edited(p, "ilmt", mem, mem)
    BY <1>4 DEF AddIlmt
  <2> HIDE DEF mem
  <2> QED
    BY <1>2, <2>1, <2>2, PlainEditFollows
<1>5. ASSUME NEW hosts \in SUBSET Host, NEW ks, Export(p, v, hosts, ks) PROVE FollowsInv'
  <2> DEFINE map == Renewed(run[p].mem.endpoints, ks, v)
             mem == [run[p].mem EXCEPT !.export = v, !.endpoints = map,
                                       !.ilmt = [h \in Host |-> IF h \in hosts THEN v ELSE @[h]]]
  <2>1. /\ DOMAIN map = DOMAIN run[p].mem.endpoints
        /\ \A k \in DOMAIN map : map[k].cluster = run[p].mem.endpoints[k].cluster
    BY <1>2, RenewedMap
  <2>2. Edited(p, "export", mem, mem)
    BY <1>5 DEF Export
  <2> HIDE DEF map
  <2>3. /\ \A g \in Host : mem.ilmt[g] = IF g \in hosts THEN v ELSE run[p].mem.ilmt[g]
        /\ mem.sources = run[p].mem.sources
        /\ mem.endpoints = map
    BY <1>2 DEF Loaded
  <2> HIDE DEF mem
  <2> QED
    BY <1>2, <2>1, <2>2, <2>3, PlainEditFollows
<1> QED
  BY <1>3, <1>4, <1>5

(* sources add dataservice puts the endpoint under the name of the context:  *)
(* what it means to save is the same endpoint under the cluster's name.      *)
LEMMA AddDataServiceFollows ==
  ASSUME NamesAgree, StoreInv, FollowsInv, NEW p \in Proc, NEW x \in Context, NEW v \in Value,
         AddDataService(p, x, v)
  PROVE  FollowsInv'
<1> DEFINE mem == run[p].mem
           map == mem.endpoints
           c == ClusterOf[x]
           old == IF x \in DOMAIN map THEN map[x] ELSE [cluster |-> c, value |-> v]
           new == [old EXCEPT !.value = v]
           e == [cluster |-> c, value |-> v]
           Added(k, f) == [mem EXCEPT !.endpoints = Put(@, k, f), !.sources = @ \cup {c}]
<1>1. Edited(p, "dataservice", Added(x, new), Added(c, e))
  BY DEF AddDataService
<1>2. mem \in Loaded /\ SelfKeyed(map)
  BY <1>1, JustLoaded DEF Edited
<1>3. c \in Cluster /\ c \notin Host
  BY StoreAssumption DEF StoreAssumption
<1>4. \A k \in DOMAIN map : map[k] \in Endpoint /\ map[k].cluster = k /\ k \in Cluster
  BY <1>2, MapDomain DEF SelfKeyed, Endpoint
<1>5. x \in DOMAIN map => x = c
  BY <1>4 DEF NamesAgree
<1>6. new = e
  <2>1. CASE x \in DOMAIN map
    <3>1. old \in Endpoint /\ old.cluster = c
      BY <1>4, <1>5, <2>1
    <3> QED
      BY <3>1 DEF Endpoint
  <2>2. CASE x \notin DOMAIN map
    BY <2>2
  <2> QED
    BY <2>1, <2>2
<1>7. e.cluster = c
  OBVIOUS
<1> HIDE DEF old, new, e
<1>8. ASSUME NEW k
      PROVE  /\ Added(k, e).upload = mem.upload /\ Added(k, e).ilmt = mem.ilmt
             /\ Added(k, e).sources = mem.sources \cup {c} /\ Added(k, e).export = mem.export
             /\ DOMAIN Added(k, e).endpoints = DOMAIN map \cup {k}
             /\ \A j \in DOMAIN map \cup {k} :
                  Added(k, e).endpoints[j] = IF j = k THEN e ELSE map[j]
  <2>1. Added(k, e).endpoints = Put(map, k, e)
    BY <1>2 DEF Loaded
  <2>2. /\ DOMAIN Put(map, k, e) = DOMAIN map \cup {k}
        /\ \A j \in DOMAIN map \cup {k} : Put(map, k, e)[j] = IF j = k THEN e ELSE map[j]
    BY DEF Put
  <2>3. /\ Added(k, e).upload = mem.upload /\ Added(k, e).ilmt = mem.ilmt
        /\ Added(k, e).sources = mem.sources \cup {c} /\ Added(k, e).export = mem.export
    BY <1>2 DEF Loaded
  <2> HIDE DEF Added
  <2> QED
    BY <2>1, <2>2, <2>3
<1> DEFINE got == Added(x, e)
           meant == Added(c, e)
<1>9. /\ got.upload = mem.upload /\ got.ilmt = mem.ilmt /\ got.sources = mem.sources \cup {c}
      /\ got.export = mem.export /\ DOMAIN got.endpoints = DOMAIN map \cup {x}
      /\ \A j \in DOMAIN map \cup {x} : got.endpoints[j] = IF j = x THEN e ELSE map[j]
  BY <1>8
<1>10. /\ meant.upload = mem.upload /\ meant.ilmt = mem.ilmt /\ meant.sources = mem.sources \cup {c}
       /\ meant.export = mem.export /\ DOMAIN meant.endpoints = DOMAIN map \cup {c}
       /\ \A j \in DOMAIN map \cup {c} : meant.endpoints[j] = IF j = c THEN e ELSE map[j]
  BY <1>8
<1>11. Edited(p, "dataservice", got, meant)
  BY <1>1, <1>6
<1> HIDE DEF Added, got, meant, c, mem
<1>12. ClustersOf(got.endpoints) = DOMAIN map \cup {c}
  <2>1. ASSUME NEW j \in DOMAIN got.endpoints PROVE got.endpoints[j].cluster \in DOMAIN map \cup {c}
    BY <1>4, <1>7, <1>9
  <2>2. got.endpoints[x].cluster = c /\ x \in DOMAIN got.endpoints
    BY <1>7, <1>9
  <2>3. ASSUME NEW j \in DOMAIN map, j # x
        PROVE  j \in DOMAIN got.endpoints /\ got.endpoints[j].cluster = j
    BY <1>4, <1>9, <2>3
  <2> QED
    BY <1>5, <2>1, <2>2, <2>3 DEF ClustersOf
<1>13. ASSUME OneEach(got.endpoints), NEW j \in DOMAIN got.endpoints
       PROVE  meant.endpoints[got.endpoints[j].cluster] = got.endpoints[j]
  <2>1. CASE j = x
    BY <1>7, <1>9, <1>10, <2>1
  <2>2. CASE j # x
    <3>1. j \in DOMAIN map /\ got.endpoints[j] = map[j] /\ map[j].cluster = j
      BY <1>4, <1>9, <2>2
    <3>2. j # c
      BY <1>7, <1>9, <1>13, <2>2, <3>1 DEF OneEach
    <3> QED
      BY <1>10, <3>1, <3>2
  <2> QED
    BY <2>1, <2>2
<1>14. Means(got, meant)
  BY <1>9, <1>10, <1>12, <1>13 DEF Means
<1>15. Resolves(mem) => Resolves(got)
  <2>1. ClustersOf(map) = DOMAIN map
    BY <1>2, SelfKeyedOnce DEF mem
  <2> QED
    BY <1>3, <1>9, <1>12, <2>1 DEF Resolves
<1> QED
  BY <1>9, <1>11, <1>14, <1>15, EditedFollows DEF mem

(* The lock is taken: from now on nobody else changes the file. *)
LEMMA LockFollows ==
  ASSUME StoreInv, FollowsInv, NEW p \in Proc, Lock(p)
  PROVE  FollowsInv'
<1> DEFINE r == [run[p] EXCEPT !.pc = "save", !.todo = DOMAIN run[p].mem.endpoints]
<1>1. run \in [Proc -> Run] /\ (\A q \in Proc : run[q] \in Run) /\ clash \in BOOLEAN
  BY DEF StoreInv, TypeOK
<1>2. /\ r.pc = "save" /\ r.mem = run[p].mem /\ r.meant = run[p].meant /\ r.at = run[p].at
      /\ r.todo = DOMAIN r.mem.endpoints /\ r.dirty = run[p].dirty
  BY <1>1 DEF Run
<1>3. run' = Dirtied([run EXCEPT ![p] = r], p)
  BY <1>1 DEF Lock
<1>4. run[p].pc = "edited" /\ lock = "free" /\ clash' = (clash \/ run[p].dirty) /\ UNCHANGED <<disk, file>>
  BY DEF Lock
<1> HIDE DEF r
<1>5. run'[p] = r
  BY <1>1, <1>3 DEF Dirtied
<1>6. ASSUME NEW q \in Proc \ {p}
      PROVE  run'[q] = IF run[q].pc = "idle" THEN run[q] ELSE [run[q] EXCEPT !.dirty = TRUE]
  BY <1>1, <1>3 DEF Dirtied
<1>7. \A q \in Proc : ~(run[q].pc \in {"save", "write"})
  BY <1>4, StoreAssumption DEF StoreAssumption, StoreInv, Exclusive
<1>8. clash' = FALSE => clash = FALSE /\ run[p].dirty = FALSE
  BY <1>1, <1>4 DEF Run
<1>9. Follows(r, disk, lock', clash')
  <2>1. Follows(run[p], disk, lock, clash)
    BY DEF FollowsInv
  <2>2. During(r, disk, clash')
    <3>1. r.dirty => clash'
      BY <1>2, <1>4
    <3>2. ASSUME ~r.dirty
          PROVE  /\ Extends(r.mem, disk) /\ r.at = 1
                 /\ Clusters(disk.endpoints) \subseteq DOMAIN r.mem.endpoints
      BY <1>2, <1>4, <2>1, <3>2 DEF Follows, Before
    <3>3. ASSUME ~r.dirty
          PROVE  Reached(r, disk) /\ Exact(r.mem.endpoints, r.todo, disk.endpoints)
      BY <1>2, <3>2, <3>3 DEF Reached, Exact
    <3> QED
      BY <3>1, <3>2, <3>3 DEF During
  <2>3. Before(r, disk, lock')
    BY <1>2 DEF Before
  <2> QED
    BY <1>2, <1>8, <2>1, <2>2, <2>3 DEF Follows
<1>10. ASSUME NEW q \in Proc \ {p} PROVE Follows(run'[q], disk, lock', clash')
  <2>1. Follows(run[q], disk, lock, clash) /\ run[q] \in Run
    BY <1>1 DEF FollowsInv
  <2>2. CASE run[q].pc = "idle"
    <3>1. Follows(run[q], disk, lock', clash')
      BY <1>8, <2>1, <2>2 DEF Follows, Before, During
    <3> QED
      BY <1>6, <2>2, <3>1
  <2>3. CASE run[q].pc # "idle"
    <3>1. PICK s \in Run : s = [run[q] EXCEPT !.dirty = TRUE]
      BY <2>1 DEF Run
    <3>2. /\ s.pc = run[q].pc /\ s.mem = run[q].mem /\ s.meant = run[q].meant /\ s.at = run[q].at
          /\ s.dirty
      BY <2>1, <3>1 DEF Run
    <3>3. Follows(s, disk, lock', clash')
      BY <1>7, <1>8, <2>1, <3>2 DEF Follows, Before, During
    <3> QED
      BY <1>6, <2>3, <3>1, <3>3
  <2> QED
    BY <2>2, <2>3
<1>11. \A q \in Proc : Follows(run'[q], disk', lock', clash')
  BY <1>4, <1>5, <1>9, <1>10
<1>12. file' # "cut"
  BY <1>4, <1>7 DEF FollowsInv
<1>13. SourcesResolve'
  BY <1>4, <1>8 DEF FollowsInv, SourcesResolve
<1> QED
  BY <1>11, <1>12, <1>13 DEF FollowsInv

(* A section is done with: written, or in the file as it should be.         *)
LEMMA ReachedNext ==
  ASSUME NEW s, NEW r, NEW stored, NEW new,
         s.at \in 1..5, r.at = s.at + 1, r.mem = s.mem, r.todo = s.todo, Reached(s, stored),
         Clusters(new.endpoints) = Clusters(stored.endpoints),
         s.at = 1 => s.todo = {},
         new.upload = IF s.at = 2 THEN s.mem.upload ELSE stored.upload,
         new.ilmt = IF s.at = 3 THEN s.mem.ilmt ELSE stored.ilmt,
         new.sources = IF s.at = 4 THEN s.mem.sources ELSE stored.sources,
         new.export = IF s.at = 5 THEN s.mem.export ELSE stored.export
  PROVE  Reached(r, new)
<1>1. r.todo = {}
  <2>1. s.at = 1 \/ s.at > 1
    OBVIOUS
  <2> QED
    BY <2>1 DEF Reached
<1>2. r.at > 2 => new.upload = r.mem.upload
  <2>1. r.at > 2 => s.at = 2 \/ s.at > 2
    OBVIOUS
  <2> QED
    BY <2>1 DEF Reached
<1>3. r.at > 3 => new.ilmt = r.mem.ilmt
  <2>1. r.at > 3 => s.at = 3 \/ s.at > 3
    OBVIOUS
  <2> QED
    BY <2>1 DEF Reached
<1>4. r.at > 4 => new.sources = r.mem.sources
  <2>1. r.at > 4 => s.at = 4 \/ s.at > 4
    OBVIOUS
  <2> QED
    BY <2>1 DEF Reached
<1>5. r.at > 5 => new.export = r.mem.export
  <2>1. r.at > 5 => s.at = 5
    OBVIOUS
  <2> QED
    BY <2>1
<1>6. \A k \in DOMAIN r.mem.endpoints \ r.todo : r.mem.endpoints[k].cluster \in Clusters(new.endpoints)
  BY DEF Reached
<1> QED
  BY <1>1, <1>2, <1>3, <1>4, <1>5, <1>6 DEF Reached

(* A section that has nothing to write is what the file has already. *)
LEMMA SkipFollows ==
  ASSUME StoreInv, FollowsInv, NEW p \in Proc, Skip(p)
  PROVE  FollowsInv'
<1> DEFINE r == [run[p] EXCEPT !.at = @ + 1]
<1>1. run \in [Proc -> Run] /\ run[p] \in Run /\ disk \in Stored /\ Follows(run[p], disk, lock, clash)
  BY DEF StoreInv, TypeOK, FollowsInv
<1>2. run' = [run EXCEPT ![p] = r] /\ UNCHANGED <<disk, lock, clash, file>> /\ run[p].pc = "save"
  BY <1>1 DEF Skip
<1>3. /\ r.pc = "save" /\ r.mem = run[p].mem /\ r.meant = run[p].meant /\ r.dirty = run[p].dirty
      /\ r.todo = run[p].todo /\ r.at = run[p].at + 1
  BY <1>1, <1>2 DEF Run
<1>4. /\ run[p].at \in 1..5
      /\ run[p].at = 1 => run[p].todo = {}
      /\ run[p].at # 2 /\ run[p].at # 5
      /\ run[p].at = 3 => \A h \in Host : run[p].mem.ilmt[h] = NoValue
      /\ run[p].at = 4 => run[p].mem.sources = {}
  BY FiveSections DEF Skip, Due, Section, Order
<1> HIDE DEF r
<1>5. ASSUME ~run[p].dirty PROVE Reached(r, disk)
  <2>1. Reached(run[p], disk) /\ Extends(run[p].mem, disk)
    BY <1>1, <1>2, <1>5 DEF Follows, During
  <2>2. run[p].at = 3 => disk.ilmt = run[p].mem.ilmt
    <3>1. disk.ilmt \in [Host -> Maybe] /\ run[p].mem.ilmt \in [Host -> Maybe]
      BY <1>1 DEF Stored, Run, Loaded
    <3>2. ASSUME run[p].at = 3, NEW h \in Host PROVE disk.ilmt[h] = run[p].mem.ilmt[h]
      BY <1>4, <2>1, <3>2 DEF Extends
    <3> QED
      BY <3>1, <3>2
  <2>3. run[p].at = 4 => disk.sources = run[p].mem.sources
    BY <1>4, <2>1 DEF Extends
  <2> QED
    BY <1>3, <1>4, <2>1, <2>2, <2>3, ReachedNext
<1>6. Follows(r, disk, lock, clash)
  BY <1>1, <1>2, <1>3, <1>5 DEF Follows, Before, During
<1> QED
  BY <1>2, <1>3, <1>6, LocalFollows

(* The file is truncated by the command that saves. *)
LEMMA TruncateFollows ==
  ASSUME StoreInv, FollowsInv, NEW p \in Proc, Truncate(p)
  PROVE  FollowsInv'
<1> DEFINE r == [run[p] EXCEPT !.pc = "write"]
<1>1. run \in [Proc -> Run] /\ run[p] \in Run /\ Follows(run[p], disk, lock, clash)
  BY DEF StoreInv, TypeOK, FollowsInv
<1>2. run' = [run EXCEPT ![p] = r] /\ UNCHANGED <<disk, lock, clash>> /\ run[p].pc = "save"
  BY <1>1 DEF Truncate
<1>3. /\ r.pc = "write" /\ r.mem = run[p].mem /\ r.meant = run[p].meant /\ r.dirty = run[p].dirty
      /\ r.todo = run[p].todo /\ r.at = run[p].at
  BY <1>1 DEF Run
<1> HIDE DEF r
<1>4. Follows(r, disk, lock, clash)
  BY <1>1, <1>2, <1>3 DEF Follows, Before, During, Reached
<1> QED
  BY <1>2, <1>3, <1>4, LocalFollows

(* An endpoint is merged into the file. *)
LEMMA MergeFollows ==
  ASSUME StoreInv, FollowsInv, NEW p \in Proc, Write(p), Section(p) = "endpoints"
  PROVE  /\ Follows(run'[p], disk', lock, clash)
         /\ UNCHANGED <<disk.ilmt, disk.sources>>
<1> DEFINE mem == run[p].mem
           map == mem.endpoints
           old == disk.endpoints
<1>1. /\ run \in [Proc -> Run] /\ run[p] \in Run /\ disk \in Stored /\ mem \in Loaded
      /\ Sound(run[p]) /\ Follows(run[p], disk, lock, clash) /\ run[p].pc = "write"
  BY DEF StoreInv, TypeOK, FollowsInv, Run, Write
<1>2. old \in Seq(Endpoint)
  BY <1>1 DEF Stored
<1>3. PICK k \in run[p].todo :
        /\ \E es \in Listed(Mutated(p, k).endpoints) : disk' = [Mutated(p, k) EXCEPT !.endpoints = es]
        /\ run' = [run EXCEPT ![p].pc = "save", ![p].todo = @ \ {k}]
  BY DEF Write
<1>4. PICK es \in Listed(Mutated(p, k).endpoints) : disk' = [Mutated(p, k) EXCEPT !.endpoints = es]
  BY <1>3
<1> DEFINE e == map[k]
           put == Put(Keyed(old), k, e)
           r == [run[p] EXCEPT !.pc = "save", !.todo = @ \ {k}]
<1>5. Mutated(p, k) = [disk EXCEPT !.endpoints = put]
  BY DEF Mutated
<1>6. k \in DOMAIN map /\ k \in Key /\ e \in Endpoint /\ (k \in Cluster => e.cluster = k)
  BY <1>1, MapDomain DEF Sound
<1>7. /\ r.pc = "save" /\ r.mem = mem /\ r.meant = run[p].meant /\ r.dirty = run[p].dirty
      /\ r.todo = run[p].todo \ {k} /\ r.at = run[p].at
  BY <1>1 DEF Run
<1>8. run'[p] = r
  BY <1>1, <1>3
<1>9. run[p].at = 1
  <2>1. run[p].at \in 1..5
    BY <1>1, FiveSections DEF Sound
  <2> QED
    BY <2>1 DEF Section, Order
<1> HIDE DEF r, put, e
<1>10. disk' = [disk EXCEPT !.endpoints = es] /\ es \in Listed(put)
  BY <1>1, <1>4, <1>5 DEF Stored
<1>11. disk'.endpoints = es /\ disk'.ilmt = disk.ilmt /\ disk'.sources = disk.sources
  BY <1>1, <1>10 DEF Stored
<1>12. /\ Keyed(old) \in [Clusters(old) -> Endpoint]
       /\ \A c \in Clusters(old) : Keyed(old)[c].cluster = c
       /\ IsFiniteSet(Clusters(old)) /\ Clusters(old) \subseteq Cluster
  BY <1>2, KeyedType, ClustersFinite
<1> HIDE DEF old
<1> DEFINE K == Clusters(old) \cup {k}
<1>13. /\ put \in [K -> Endpoint] /\ IsFiniteSet(K)
       /\ \A j \in K : put[j] = IF j = k THEN e ELSE Keyed(old)[j]
  <2>1. IsFiniteSet(K)
    BY <1>12, FS_AddElement
  <2> QED
    BY <1>6, <1>12, <2>1 DEF Put, put
<1>14. /\ \A j \in K : put[j].cluster \in Clusters(es)
       /\ Clusters(old) \subseteq Clusters(es)
  <2>1. \A j \in K : put[j].cluster \in Clusters(es)
    <3> HIDE DEF K
    <3> QED
      BY <1>10, <1>13, ListedType
  <2>2. \A c \in Clusters(old) : put[c].cluster = c
    BY <1>6, <1>12, <1>13
  <2> QED
    BY <2>1, <2>2
<1>15. ASSUME ~run[p].dirty
       PROVE  /\ Extends(mem, disk')
              /\ Reached(r, disk')
              /\ OneEach(map) => Exact(map, r.todo, es)
  <2>1. /\ Extends(mem, disk)
        /\ \A j \in DOMAIN map \ run[p].todo : map[j].cluster \in Clusters(old)
        /\ OneEach(map) => Exact(map, run[p].todo, old)
    BY <1>1, <1>15 DEF Follows, During, Reached, old
  <2>2. Extends(mem, disk')
    BY <1>11, <2>1 DEF Extends
  <2>3. \A j \in DOMAIN map \ r.todo : j = k \/ j \in DOMAIN map \ run[p].todo
    BY <1>7
  <2>4. Reached(r, disk')
    <3>1. \A j \in DOMAIN map \ r.todo : map[j].cluster \in Clusters(es)
      BY <1>13, <1>14, <2>1, <2>3 DEF e
    <3> QED
      BY <1>7, <1>9, <1>11, <3>1 DEF Reached
  <2>5. ASSUME OneEach(map) PROVE Exact(map, r.todo, es)
    <3>1. Exact(map, run[p].todo, old)
      BY <2>1, <2>5
    <3>2. e.cluster \in Clusters(old) => k = e.cluster
      <4>1. ASSUME e.cluster \in DOMAIN map PROVE k = e.cluster
        <5>1. e.cluster \in Cluster
          BY <1>6 DEF Endpoint
        <5>2. map[e.cluster].cluster = e.cluster
          BY <1>1, <4>1, <5>1 DEF Sound
        <5> QED
          BY <1>6, <2>5, <4>1, <5>2 DEF OneEach, e
      <4>2. ASSUME NEW j \in DOMAIN map \ run[p].todo, map[j].cluster = e.cluster PROVE FALSE
        BY <1>6, <2>5, <4>2 DEF OneEach, e
      <4> QED
        BY <3>1, <4>1, <4>2 DEF Exact
    <3>3. OneEach(put)
      <4>1. \A j \in K : put[j].cluster = IF j = k THEN e.cluster ELSE j
        BY <1>12, <1>13
      <4> QED
        BY <1>13, <3>2, <4>1 DEF OneEach
    <3>4. /\ Clusters(es) = ClustersOf(put)
          /\ \A j \in K : Keyed(es)[put[j].cluster] = put[j]
      <4> HIDE DEF K
      <4> QED
        BY <1>10, <1>13, <3>3, ReadBack
    <3>5. Keyed(es)[e.cluster] = e
      BY <1>13, <3>4
    <3>6. ASSUME NEW j \in DOMAIN map \ r.todo PROVE Keyed(es)[map[j].cluster] = map[j]
      <4>1. CASE j = k
        BY <3>5, <4>1 DEF e
      <4>2. CASE j # k
        <5> DEFINE c == map[j].cluster
        <5>1. c \in Clusters(old) /\ Keyed(old)[c] = map[j]
          BY <2>1, <2>3, <3>1, <4>2 DEF Exact
        <5>2. c # e.cluster
          BY <1>6, <2>5, <4>2 DEF OneEach, e
        <5>3. c # k
          BY <1>6, <1>12, <5>1, <5>2
        <5>4. c \in K /\ put[c] = Keyed(old)[c]
          BY <1>13, <5>1, <5>3
        <5> QED
          BY <1>12, <3>4, <5>1, <5>4
      <4> QED
        BY <4>1, <4>2
    <3>7. ASSUME NEW c \in Clusters(es)
          PROVE  c \in DOMAIN map \/ \E j \in DOMAIN map \ r.todo : map[j].cluster = c
      <4>1. c = e.cluster \/ c \in Clusters(old)
        BY <1>12, <1>13, <3>4 DEF ClustersOf
      <4>2. k \in DOMAIN map \ r.todo /\ map[k].cluster = e.cluster
        BY <1>6, <1>7 DEF e
      <4>3. DOMAIN map \ run[p].todo \subseteq DOMAIN map \ r.todo
        BY <1>7
      <4> QED
        BY <3>1, <4>1, <4>2, <4>3 DEF Exact
    <3> QED
      BY <3>6, <3>7 DEF Exact
  <2> QED
    BY <2>2, <2>4, <2>5
<1>16. Follows(r, disk', lock, clash)
  BY <1>1, <1>7, <1>11, <1>15 DEF Follows, Before, During
<1> QED
  BY <1>8, <1>11, <1>16
(* A section other than the endpoints is replaced as a whole: the endpoints   *)
(* are rewritten, but are the same.                                         *)
LEMMA Replaced ==
  ASSUME StoreInv, NEW p \in Proc, Write(p), Section(p) # "endpoints"
  PROVE  /\ run[p].at \in 2..5
         /\ run'[p] = [run[p] EXCEPT !.pc = "save", !.at = @ + 1]
         /\ Clusters(disk'.endpoints) = Clusters(disk.endpoints)
         /\ Keyed(disk'.endpoints) = Keyed(disk.endpoints)
         /\ disk'.upload = IF run[p].at = 2 THEN run[p].mem.upload ELSE disk.upload
         /\ disk'.ilmt = IF run[p].at = 3 THEN run[p].mem.ilmt ELSE disk.ilmt
         /\ disk'.sources = IF run[p].at = 4 THEN run[p].mem.sources ELSE disk.sources
         /\ disk'.export = IF run[p].at = 5 THEN run[p].mem.export ELSE disk.export
<1> DEFINE mem == run[p].mem
           kept == Keyed(disk.endpoints)
<1>1. /\ run \in [Proc -> Run] /\ run[p] \in Run /\ disk \in Stored /\ mem \in Loaded
      /\ Sound(run[p]) /\ run[p].pc = "write"
  BY DEF StoreInv, TypeOK, Run, Write
<1>2. disk.endpoints \in Seq(Endpoint)
  BY <1>1 DEF Stored
<1>3. run[p].at \in 2..5
  <2>1. run[p].at \in 1..5
    BY <1>1, FiveSections DEF Sound
  <2>2. run[p].at # 1
    BY DEF Section, Order
  <2> QED
    BY <2>1, <2>2
<1>4. run'[p] = [run[p] EXCEPT !.pc = "save", !.at = @ + 1]
  BY <1>1 DEF Write
<1>5. PICK es \in Listed(kept) : disk' = [Mutated(p, NoValue) EXCEPT !.endpoints = es]
  BY DEF Write
<1>6. Clusters(es) = Clusters(disk.endpoints) /\ Keyed(es) = Keyed(disk.endpoints)
  BY <1>2, RewrittenSame
<1> HIDE DEF mem, kept
<1>7. CASE run[p].at = 2
  <2>1. Section(p) = "upload"
    BY <1>7 DEF Section, Order
  <2>2. Mutated(p, NoValue) = [disk EXCEPT !.endpoints = kept, !.upload = mem.upload]
    BY <2>1 DEF Mutated, mem, kept
  <2> QED
    BY <1>1, <1>3, <1>4, <1>5, <1>6, <1>7, <2>2 DEF Stored, mem
<1>8. CASE run[p].at = 3
  <2>1. Section(p) = "ilmt"
    BY <1>8 DEF Section, Order
  <2>2. Mutated(p, NoValue) = [disk EXCEPT !.endpoints = kept, !.ilmt = mem.ilmt]
    BY <2>1 DEF Mutated, mem, kept
  <2> QED
    BY <1>1, <1>3, <1>4, <1>5, <1>6, <1>8, <2>2 DEF Stored, mem
<1>9. CASE run[p].at = 4
  <2>1. Section(p) = "sources"
    BY <1>9 DEF Section, Order
  <2>2. Mutated(p, NoValue) = [disk EXCEPT !.endpoints = kept, !.sources = mem.sources]
    BY <2>1 DEF Mutated, mem, kept
  <2> QED
    BY <1>1, <1>3, <1>4, <1>5, <1>6, <1>9, <2>2 DEF Stored, mem
<1>10. CASE run[p].at = 5
  <2>1. Section(p) = "export"
    BY <1>10 DEF Section, Order
  <2>2. Mutated(p, NoValue) = [disk EXCEPT !.endpoints = kept, !.export = mem.export]
    BY <2>1 DEF Mutated, mem, kept
  <2> QED
    BY <1>1, <1>3, <1>4, <1>5, <1>6, <1>10, <2>2 DEF Stored, mem
<1> QED
  BY <1>3, <1>7, <1>8, <1>9, <1>10

(* So the file keeps what the invariant says of it: sources are written when  *)
(* the endpoints and the hosts they name are there.                         *)
LEMMA ReplaceFollows ==
  ASSUME StoreInv, FollowsInv, NEW p \in Proc, Write(p), Section(p) # "endpoints"
  PROVE  Follows(run'[p], disk', lock, clash) /\ SourcesResolve'
<1> DEFINE mem == run[p].mem
           old == disk.endpoints
           es == disk'.endpoints
           r == run'[p]
<1>1. /\ run[p] \in Run /\ disk \in Stored /\ Follows(run[p], disk, lock, clash)
      /\ run[p].pc = "write" /\ clash' = clash
  BY DEF StoreInv, TypeOK, FollowsInv, Write
<1>2. /\ run[p].at \in 2..5
      /\ r = [run[p] EXCEPT !.pc = "save", !.at = @ + 1]
      /\ Clusters(es) = Clusters(old) /\ Keyed(es) = Keyed(old)
      /\ disk'.upload = IF run[p].at = 2 THEN mem.upload ELSE disk.upload
      /\ disk'.ilmt = IF run[p].at = 3 THEN mem.ilmt ELSE disk.ilmt
      /\ disk'.sources = IF run[p].at = 4 THEN mem.sources ELSE disk.sources
      /\ disk'.export = IF run[p].at = 5 THEN mem.export ELSE disk.export
  BY Replaced
<1>3. /\ r.pc = "save" /\ r.mem = mem /\ r.meant = run[p].meant /\ r.dirty = run[p].dirty
      /\ r.todo = run[p].todo /\ r.at = run[p].at + 1
  BY <1>1, <1>2 DEF Run
<1>4. ASSUME ~run[p].dirty
      PROVE  /\ Extends(mem, disk) /\ Reached(run[p], disk)
             /\ OneEach(mem.endpoints) => Exact(mem.endpoints, run[p].todo, old)
  BY <1>1, <1>4 DEF Follows, During
<1> HIDE DEF r, es, old, mem
<1>5. ASSUME ~run[p].dirty
      PROVE  /\ Extends(mem, disk')
             /\ Reached(r, disk')
             /\ OneEach(mem.endpoints) => Exact(mem.endpoints, r.todo, es)
  <2>1. Extends(mem, disk')
    BY <1>2, <1>4, <1>5 DEF Extends
  <2>2. run[p].at \in 1..5 /\ run[p].at # 1
    BY <1>2
  <2>3. Reached(r, disk')
    <3>1. run[p].at = 1 => run[p].todo = {}
      BY <2>2
    <3>2. Clusters(disk'.endpoints) = Clusters(disk.endpoints)
      BY <1>2 DEF es, old
    <3>3. Reached(run[p], disk)
      BY <1>4, <1>5
    <3> QED
      <4>1. /\ disk'.upload = IF run[p].at = 2 THEN run[p].mem.upload ELSE disk.upload
            /\ disk'.ilmt = IF run[p].at = 3 THEN run[p].mem.ilmt ELSE disk.ilmt
            /\ disk'.sources = IF run[p].at = 4 THEN run[p].mem.sources ELSE disk.sources
            /\ disk'.export = IF run[p].at = 5 THEN run[p].mem.export ELSE disk.export
        BY <1>2 DEF mem
      <4>2. /\ run[p].at \in 1..5 /\ r.at = run[p].at + 1
            /\ r.mem = run[p].mem /\ r.todo = run[p].todo
        BY <1>3, <2>2 DEF mem
      <4> QED
        BY <3>1, <3>2, <3>3, <4>1, <4>2, ReachedNext, SMTT(60)
  <2>4. OneEach(mem.endpoints) => Exact(mem.endpoints, r.todo, es)
    BY <1>2, <1>3, <1>4, <1>5 DEF Exact
  <2> QED
    BY <2>1, <2>3, <2>4
<1>6. Follows(r, disk', lock, clash)
  BY <1>1, <1>3, <1>5 DEF Follows, Before, During, es, mem
<1>7. ASSUME ~clash, NEW s \in disk'.sources
      PROVE  IF s \in Host THEN disk'.ilmt[s] # NoValue ELSE s \in Clusters(es)
  <2>1. ~run[p].dirty /\ Resolves(mem)
    BY <1>1, <1>7 DEF Follows, During, mem
  <2>2. Extends(mem, disk) /\ Reached(run[p], disk)
    BY <1>4, <2>1
  <2>3. \A h \in Host : disk.ilmt[h] # NoValue => disk'.ilmt[h] # NoValue
    BY <1>2, <2>2 DEF Extends
  <2>4. CASE run[p].at # 4
    <3>1. IF s \in Host THEN disk.ilmt[s] # NoValue ELSE s \in Clusters(old)
      BY <1>2, <1>7, <2>4 DEF FollowsInv, SourcesResolve, old
    <3> QED
      BY <1>2, <2>3, <3>1
  <2>5. CASE run[p].at = 4
    <3>1. s \in mem.sources
      BY <1>2, <1>7, <2>5
    <3>2. disk'.ilmt = mem.ilmt /\ run[p].todo = {}
      BY <1>2, <2>2, <2>5 DEF Reached, mem
    <3>3. ClustersOf(mem.endpoints) \subseteq Clusters(old)
      BY <2>2, <3>2 DEF Reached, ClustersOf, mem, old
    <3> QED
      BY <1>2, <2>1, <3>1, <3>2, <3>3 DEF Resolves
  <2> QED
    BY <2>4, <2>5
<1>8. SourcesResolve'
  BY <1>1, <1>7 DEF SourcesResolve, es
<1> QED
  BY <1>6, <1>8 DEF r

(* A section, or one endpoint of the first, is written. *)
LEMMA WriteFollows ==
  ASSUME StoreInv, FollowsInv, NEW p \in Proc, Write(p)
  PROVE  FollowsInv'
<1>1. lock = p /\ UNCHANGED <<lock, clash>> /\ file' = "whole"
  BY DEF StoreInv, Exclusive, Write
<1>2. \A q \in Proc \ {p} : run'[q] = run[q]
  BY DEF Write, StoreInv, TypeOK
<1>3. Follows(run'[p], disk', lock, clash) /\ SourcesResolve'
  <2>1. CASE Section(p) = "endpoints"
    <3>1. Follows(run'[p], disk', lock, clash) /\ disk'.ilmt = disk.ilmt /\ disk'.sources = disk.sources
      BY <2>1, MergeFollows
    <3>2. Clusters(disk.endpoints) \subseteq Clusters(disk'.endpoints)
      BY WriteKeeps
    <3>3. SourcesResolve'
      BY <1>1, <3>1, <3>2 DEF FollowsInv, SourcesResolve
    <3> QED
      BY <3>1, <3>3
  <2> QED
    BY <2>1, ReplaceFollows
<1>4. ASSUME NEW q \in Proc PROVE Follows(run'[q], disk', lock', clash')
  <2>1. CASE q = p
    BY <1>1, <1>3, <2>1
  <2>2. CASE q # p
    BY <1>1, <1>2, <2>2, OthersAside
  <2> QED
    BY <2>1, <2>2
<1> QED
  BY <1>1, <1>3, <1>4 DEF FollowsInv

(* A command ends: it gives up, is done, fails or dies.                      *)
LEMMA EndsFollow ==
  ASSUME StoreInv, FollowsInv, NEW p \in Proc,
         \/ GiveUp(p) \/ DiscoveryFails(p) \/ LockFails(p) \/ Unlock(p)
         \/ SaveError(p) \/ Kill(p)
  PROVE  FollowsInv'
<1>1. run' = [run EXCEPT ![p] = NoRun] /\ clash' = clash
  BY DEF GiveUp, DiscoveryFails, LockFails, Unlock, SaveError, Kill
<1>2. run[p].pc \in {"save", "write"} => lock = p
  BY DEF StoreInv, Exclusive
<1>3. CASE GiveUp(p) \/ DiscoveryFails(p) \/ LockFails(p)
  <2>1. UNCHANGED <<disk, lock, file>> /\ run[p].pc # "write"
    BY <1>3 DEF GiveUp, DiscoveryFails, LockFails
  <2> QED
    BY <1>1, <2>1, EndFollows
<1>4. CASE Unlock(p)
  <2>1. disk' = disk /\ file' = file /\ run[p].pc = "save"
    BY <1>4 DEF Unlock
  <2> QED
    BY <1>1, <1>2, <2>1, EndFollows
<1>5. ASSUME run[p].pc = "write", NEW kind, Cut(kind)
      PROVE  FollowsInv'
  <2>1. (disk' = disk \/ disk' = Nothing) /\ file' # "cut"
    BY <1>5 DEF Cut
  <2> QED
    BY <1>1, <1>2, <1>5, <2>1, EndFollows
<1>6. CASE SaveError(p) /\ run[p].pc # "write"
  <2>1. UNCHANGED <<disk, file>> /\ run[p].pc = "save"
    BY <1>6 DEF SaveError
  <2> QED
    BY <1>1, <1>2, <2>1, EndFollows
<1>7. CASE Kill(p) /\ run[p].pc # "write"
  <2>1. UNCHANGED <<disk, file>> /\ (lock' = lock \/ lock = p)
    BY <1>7 DEF Kill
  <2> QED
    BY <1>1, <1>7, <2>1, EndFollows
<1>8. CASE (SaveError(p) \/ Kill(p)) /\ run[p].pc = "write"
  <2>1. \E kind : Cut(kind)
    BY <1>8 DEF SaveError, Kill
  <2> QED
    BY <1>5, <1>8, <2>1
<1> QED
  BY <1>3, <1>4, <1>6, <1>7, <1>8

(* Every step keeps it. *)
LEMMA FollowsStep == NamesAgree /\ StoreInv /\ FollowsInv /\ [Next]_vars => FollowsInv'
<1> SUFFICES ASSUME NamesAgree, StoreInv, FollowsInv, [Next]_vars PROVE FollowsInv'
  OBVIOUS
<1>1. CASE RemoveLock
  <2>1. /\ lock \notin Proc /\ lock' \notin Proc
        /\ UNCHANGED <<disk, file, run, clash>>
    BY <1>1, StoreAssumption DEF RemoveLock, StoreAssumption
  <2>2. ASSUME NEW q \in Proc PROVE Follows(run'[q], disk', lock', clash')
    BY <2>1 DEF FollowsInv, Follows, Before
  <2>3. SourcesResolve'
    BY <2>1 DEF FollowsInv, SourcesResolve
  <2> QED
    BY <2>1, <2>2, <2>3 DEF FollowsInv
<1>2. ASSUME NEW p \in Proc, NEW cmd \in Cmd, Start(p, cmd) PROVE FollowsInv'
  BY <1>2, StartFollows
<1>3. CASE UNCHANGED vars \/ \E p \in Proc : StartFails(p)
  <2>1. UNCHANGED <<disk, file, lock, run, clash>>
    BY <1>3 DEF vars, StartFails
  <2>2. ASSUME NEW q \in Proc PROVE Follows(run'[q], disk', lock', clash')
    BY <2>1 DEF FollowsInv
  <2>3. SourcesResolve'
    BY <2>1 DEF FollowsInv, SourcesResolve
  <2> QED
    BY <2>1, <2>2, <2>3 DEF FollowsInv
<1>4. ASSUME NEW p \in Proc, Edit(p) PROVE FollowsInv'
  BY <1>4, PlainEditsFollow, AddDataServiceFollows, EndsFollow DEF Edit
<1>5. ASSUME NEW p \in Proc, Save(p) PROVE FollowsInv'
  BY <1>5, LockFollows, SkipFollows, TruncateFollows, WriteFollows, EndsFollow DEF Save
<1>6. ASSUME NEW p \in Proc, SaveError(p) \/ Kill(p) PROVE FollowsInv'
  BY <1>6, EndsFollow
<1> QED
  BY <1>1, <1>2, <1>3, <1>4, <1>5, <1>6 DEF Next

(* When a command is done that nobody interfered with, the file has all of   *)
(* what it has in memory and nothing else.                                  *)
LEMMA UnlockSaved ==
  ASSUME StoreInv, FollowsInv, NEW p \in Proc, Unlock(p), ~run[p].dirty,
         OneEach(run[p].mem.endpoints)
  PROVE  Load(disk) = run[p].meant
<1> DEFINE mem == run[p].mem
           meant == run[p].meant
           map == mem.endpoints
           es == disk.endpoints
           r == run[p]
<1>1. /\ r \in Run /\ disk \in Stored /\ mem \in Loaded /\ meant \in Loaded
      /\ Sound(r) /\ Follows(r, disk, lock, clash) /\ r.pc = "save"
  BY DEF StoreInv, TypeOK, FollowsInv, Run, Unlock
<1>2. r.at = 6
  <2>1. r.at \in 1..6 /\ ~(r.at \in 1..5)
    BY <1>1, FiveSections DEF Run, Unlock
  <2> QED
    BY <2>1
<1>3. Reached(r, disk) /\ Exact(map, r.todo, es)
  BY <1>1 DEF Follows, During
<1>4. /\ r.todo = {}
      /\ disk.upload = mem.upload /\ disk.ilmt = mem.ilmt
      /\ disk.sources = mem.sources /\ disk.export = mem.export
  BY <1>2, <1>3 DEF Reached
<1>5. /\ meant.upload = mem.upload /\ meant.ilmt = mem.ilmt
      /\ meant.sources = mem.sources /\ meant.export = mem.export
      /\ DOMAIN meant.endpoints = ClustersOf(map)
      /\ \A k \in DOMAIN map : meant.endpoints[map[k].cluster] = map[k]
  BY <1>1 DEF Follows, Means
<1>6. es \in Seq(Endpoint) /\ Keyed(es) \in [Clusters(es) -> Endpoint] /\ Clusters(es) \subseteq Cluster
  <2>1. es \in Seq(Endpoint)
    BY <1>1 DEF Stored
  <2> QED
    BY <2>1, KeyedType, ClustersFinite
<1>7. Clusters(es) = ClustersOf(map)
  <2>1. ASSUME NEW k \in DOMAIN map PROVE map[k].cluster \in Clusters(es)
    BY <1>3, <1>4 DEF Reached
  <2>2. ASSUME NEW c \in Clusters(es) PROVE \E k \in DOMAIN map : map[k].cluster = c
    <3>1. c \in DOMAIN map => map[c].cluster = c
      BY <1>1, <1>6 DEF Sound
    <3> QED
      BY <1>3, <3>1 DEF Exact
  <2> QED
    BY <2>1, <2>2 DEF ClustersOf
<1>8. Keyed(es) = meant.endpoints
  <2>1. meant.endpoints \in UNION {[s -> Endpoint] : s \in SUBSET Key}
    BY <1>1 DEF Loaded
  <2>2. meant.endpoints \in [ClustersOf(map) -> Endpoint]
    BY <1>5, <2>1
  <2>3. ASSUME NEW c \in ClustersOf(map) PROVE Keyed(es)[c] = meant.endpoints[c]
    <3>1. PICK k \in DOMAIN map : map[k].cluster = c
      BY DEF ClustersOf
    <3> QED
      BY <1>3, <1>4, <1>5, <3>1 DEF Exact
  <2> HIDE DEF es, map, meant
  <2> QED
    BY <1>6, <1>7, <2>2, <2>3
<1>9. Load(disk) = [disk EXCEPT !.endpoints = Keyed(es)]
  BY DEF Load
<1> HIDE DEF mem, meant, map, es, r
<1> QED
  BY <1>1, <1>4, <1>5, <1>8, <1>9 DEF Stored, Loaded, meant

-----------------------------------------------------------------------------
(* Theorems about what is saved *)

(* Contexts that all have the names of their clusters. *)
SameNames == \A x \in Context : ClusterOf[x] = x

(* As long as no command saves over another's changes every source in the    *)
(* config file has its endpoint there, however the commands interleave and   *)
(* wherever one of them dies between two sections of ModifyConfig, if no     *)
(* context bears the name of another's cluster.                             *)
THEOREM SourcesAlwaysResolve ==
  ASSUME NamesAgree
  PROVE  Spec => []SourcesResolve
<1>1. Init => StoreInv /\ FollowsInv
  BY StoreInit, FollowsInit
<1>2. StoreInv /\ FollowsInv /\ [Next]_vars => StoreInv' /\ FollowsInv'
  BY StoreStep, FollowsStep
<1>3. FollowsInv => SourcesResolve
  BY DEF FollowsInv
<1> QED
  BY <1>1, <1>2, <1>3, PTL DEF Spec

(* A command that nobody interfered with leaves exactly the config behind    *)
(* that it meant to, if no two endpoints in its memory are of one cluster:   *)
(* then it does not matter in which order the map's endpoints are merged     *)
(* into the file by ModifyConfig and listed there.                          *)
THEOREM EditsSaved ==
  ASSUME NamesAgree
  PROVE  Spec => [][\A p \in Proc :
                      Unlock(p) /\ ~run[p].dirty /\ OneEach(run[p].mem.endpoints)
                        => Load(disk) = run[p].meant]_vars
<1>1. Init => StoreInv /\ FollowsInv
  BY StoreInit, FollowsInit
<1>2. StoreInv /\ FollowsInv /\ [Next]_vars => StoreInv' /\ FollowsInv'
  BY StoreStep, FollowsStep
<1>3. StoreInv /\ FollowsInv /\ [Next]_vars =>
        [\A p \in Proc : Unlock(p) /\ ~run[p].dirty /\ OneEach(run[p].mem.endpoints)
                           => Load(disk) = run[p].meant]_vars
  BY UnlockSaved
<1> QED
  BY <1>1, <1>2, <1>3, PTL DEF Spec

(* So a command that nobody interfered with always saves what it meant to    *)
(* where every context has the name of its cluster.                         *)
THEOREM SavedExactly ==
  ASSUME SameNames
  PROVE  Spec => SavedAsMeant
<1>1. NamesAgree
  BY DEF SameNames, NamesAgree
<1>2. Init => StoreInv /\ FollowsInv
  BY StoreInit, FollowsInit
<1>3. StoreInv /\ FollowsInv /\ [Next]_vars => StoreInv' /\ FollowsInv'
  BY <1>1, StoreStep, FollowsStep
<1>4. StoreInv /\ FollowsInv /\ [Next]_vars =>
        [\A p \in Proc : Unlock(p) /\ ~run[p].dirty => Load(disk) = run[p].meant]_vars
  <2> SUFFICES ASSUME StoreInv, FollowsInv, NEW p \in Proc, Unlock(p), ~run[p].dirty
               PROVE  Load(disk) = run[p].meant
    OBVIOUS
  <2>1. Key = Cluster
    BY StoreAssumption DEF StoreAssumption, SameNames, Key
  <2>2. run[p].mem \in Loaded /\ Sound(run[p])
    BY DEF StoreInv, TypeOK, Run
  <2>3. OneEach(run[p].mem.endpoints)
    BY <2>1, <2>2, MapDomain DEF Sound, OneEach
  <2> QED
    BY <2>3, UnlockSaved
<1> QED
  BY <1>2, <1>3, <1>4, PTL DEF Spec, SavedAsMeant
==============================================================================
