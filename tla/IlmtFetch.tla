------------------------------ MODULE IlmtFetch ------------------------------
(***************************************************************************)
(* FetchUsageData taken apart: for every day of the range three requests,   *)
(* for the products used alone, for those used as parts of a bundle, and    *)
(* for the bundles, whose answers are joined into the day's events.  ILMT   *)
(* goes on working between them, and may assign a product to another bundle *)
(* or to none.  A pull of IlmtPull is unchanged around it.                  *)
(*                                                                          *)
(* A host's address is taken to have the 38 characters that are cut out of  *)
(* it for every event.                                                      *)
(***************************************************************************)
EXTENDS IlmtPull, FiniteSets

CONSTANTS
  Product,   \* the products whose licence usage a host knows
  Bundle,    \* the bundles they may be part of
  NoBundle,  \* of a product used alone
  Assigned,  \* the assignment of the products at the start
  Limit,     \* the limit in CRITERIA_STANDALONE
  MaxMoves   \* bound: how often an assignment changes

Usage == Bundle \cup {NoBundle}

ASSUME FetchAssumption ==
  /\ NoBundle \notin Bundle
  /\ Assigned \in [Product -> Usage]
  /\ Limit \in Nat
  /\ MaxMoves \in Nat

VARIABLES
  usage,  \* the assignment ILMT answers from
  held,   \* history: the assignments of each product since the day's first request
  moves,  \* how often an assignment has changed
  fetch   \* FetchUsageData's memory

server == <<usage, held, moves>>
fetchVars == <<vars, server, fetch>>

Event == [product : Product, parent : Usage]

Fetch == [stage : {"none", "alone", "bundled", "parents", "join", "counted"},
          host : SUBSET Host,         \* the host being asked, if any
          day : Day \cup {None, LastDay + 1},  \* selectedDate
          days : SUBSET Day,          \* the days whose rows are in the report
          alone : SUBSET Product,     \* standaloneProductRespObj
          cut : SUBSET Product,       \* history: the products the limit left out of it
          bundled : SUBSET Event,     \* productPartOfBndlRespObj: product and bundle_id
          parents : SUBSET Bundle,    \* parentProductRespObj
          blank : BOOLEAN,            \* history: one of the day's answers was an error
          events : SUBSET Event]      \* the day's part of productUsageTransformedEventJson

NoFetch == [stage |-> "none", host |-> {}, day |-> None, days |-> {}, alone |-> {}, cut |-> {},
            bundled |-> {}, parents |-> {}, blank |-> FALSE, events |-> {}]

FetchTypeOK ==
  /\ TypeOK
  /\ usage \in [Product -> Usage]
  /\ held \in [Product -> SUBSET Usage]
  /\ moves \in 0..MaxMoves
  /\ fetch \in Fetch

FetchInit ==
  /\ Init
  /\ usage = Assigned
  /\ held = [p \in Product |-> {}]
  /\ moves = 0
  /\ fetch = NoFetch

(* A product is assigned to another bundle, or to none. *)
Move(p, u) ==
  /\ moves < MaxMoves
  /\ u # usage[p]
  /\ usage' = [usage EXCEPT ![p] = u]
  /\ held' = [held EXCEPT ![p] = IF fetch.stage \in {"bundled", "parents"} THEN @ \cup {u} ELSE @]
  /\ moves' = moves + 1
  /\ UNCHANGED <<vars, fetch>>

-----------------------------------------------------------------------------
(* The days of one host *)

At(stage) == pc = "pull" /\ fetch.stage = stage

FetchStart(h) ==
  /\ At("none") /\ h \in cmd.selected
  /\ fetch' = [NoFetch EXCEPT !.stage = "alone", !.host = {h}, !.day = cmd.start]
  /\ UNCHANGED <<vars, server>>

(* The loop goes on while selectedDate is not after the end. *)
More == fetch.day <= cmd.end

(* The answers to a request: its rows, or an error, which decodes to none.  *)
Answers(rows) ==
  {[rows |-> rows, blank |-> fetch.blank]} \cup
  IF "blank" \in Faults /\ faults < MaxFaults THEN {[rows |-> {}, blank |-> TRUE]} ELSE {}

(* The products used alone, as many as the limit admits. *)
GetAlone ==
  /\ At("alone") /\ More
  /\ held' = [p \in Product |-> {usage[p]}]
  /\ LET all == {p \in Product : usage[p] = NoBundle}
     IN \E rows \in SUBSET all :
          /\ rows = all \/ Cardinality(rows) = Limit
          /\ Cardinality(rows) <= Limit
          /\ \E a \in Answers(rows) :
               fetch' = [fetch EXCEPT !.stage = "bundled", !.alone = a.rows, !.blank = a.blank,
                                      !.cut = all \ rows]
  /\ UNCHANGED <<vars, usage, moves>>

GetBundled ==
  /\ At("bundled")
  /\ \E a \in Answers({e \in Event : e.parent = usage[e.product] /\ e.parent # NoBundle}) :
       fetch' = [fetch EXCEPT !.stage = "parents", !.bundled = a.rows, !.blank = a.blank]
  /\ UNCHANGED <<vars, server>>

(* The bundles in use. *)
GetParents ==
  /\ At("parents")
  /\ \E a \in Answers({usage[p] : p \in Product} \cap Bundle) :
       fetch' = [fetch EXCEPT !.stage = "join", !.parents = a.rows, !.blank = a.blank]
  /\ UNCHANGED <<vars, server>>

(* GetParentProduct finds the bundle of a row among the parents. *)
ParentOf(row) == {b \in fetch.parents : b = row.parent}

(* Slip: the row's bundle_id is not compared with the parent's flex_id.     *)
JoinedAnyParent ==
  {[product |-> p, parent |-> NoBundle] : p \in fetch.alone} \cup
  {[product |-> row.product, parent |-> CHOOSE b \in fetch.parents : TRUE] : row \in fetch.bundled}

(* An event for each product used alone, and one for each part of a bundle. *)
Joined ==
  {[product |-> p, parent |-> NoBundle] : p \in fetch.alone} \cup
  {[row EXCEPT !.parent = CHOOSE b \in ParentOf(row) : TRUE] : row \in fetch.bundled}

(* A row whose bundle is not listed: the process ends. *)
Orphan == \E row \in fetch.bundled : ParentOf(row) = {}

Join ==
  /\ At("join") /\ ~Orphan
  /\ fetch' = [fetch EXCEPT !.stage = "counted", !.events = Joined,
                            !.days = IF fetch.blank THEN @ ELSE @ \cup {fetch.day}]
  /\ UNCHANGED <<vars, server>>

(* Slip: the missing parent is an error of the source, its date moves on.   *)
JoinFatalMovesDate ==
  /\ At("join") /\ Orphan
  /\ \E h \in fetch.host :
       cmd' = [cmd EXCEPT !.selected = @ \ {h}, !.date[h] = today, !.first[h] = Or(@, cmd.start)]
  /\ fetch' = NoFetch
  /\ UNCHANGED <<today, file, tar, pc, faults, server>>

JoinFatal ==
  /\ At("join") /\ Orphan
  /\ Fatal
  /\ fetch' = NoFetch
  /\ UNCHANGED server

NextDay ==
  /\ At("counted")
  /\ fetch' = [NoFetch EXCEPT !.stage = "alone", !.host = fetch.host, !.day = fetch.day + 1,
                              !.days = fetch.days]
  /\ UNCHANGED <<vars, server>>

FetchEnd ==
  /\ At("alone") /\ ~More
  /\ \E h \in fetch.host : Report(h, fetch.days)
  /\ fetch' = NoFetch
  /\ UNCHANGED server

-----------------------------------------------------------------------------
(* The pull around it *)

Around(A) == A /\ UNCHANGED <<server, fetch>>

Die ==
  /\ Kill
  /\ fetch' = NoFetch
  /\ UNCHANGED server

Program ==
  \/ \E h \in Host : Around(ValidateHost(h)) \/ FetchStart(h)
  \/ GetAlone \/ GetBundled \/ GetParents \/ Join \/ JoinFatal \/ NextDay \/ FetchEnd
  \/ Around(ValidateEnd)
  \/ fetch = NoFetch /\ Around(PullEnd)
  \/ Around(Compact) \/ Around(CompactTorn) \/ Around(SaveDates) \/ Around(SaveExport)

FetchNext ==
  \/ Around(Tick) \/ Die \/ Around(SaveError)
  \/ Around(StartPull)
  \/ Program
  \/ \E h \in Host : fetch = NoFetch /\ Around(SkipHost(h))
  \/ \E p \in Product, u \in Usage : Move(p, u)

(* Days pass between pulls, a running pull goes on, and every host is pulled *)
(* again and again.  Nothing is asked of what the operator types.           *)
FetchSpec ==
  /\ FetchInit /\ [][FetchNext]_fetchVars
  /\ SF_fetchVars(Around(Tick)) /\ WF_fetchVars(Program)
  /\ SF_fetchVars(Around(Start(None, None, Host)))

-----------------------------------------------------------------------------
(* Properties *)

(* The three requests of a day are not one: what ILMT changes between them  *)
(* may put a product into two of the answers or into none.  But an event    *)
(* never names a parent the product did not have during them, and a product *)
(* left alone has exactly one event, unless the limit left it out, whatever *)
(* happens to the others and whatever the days before brought.              *)
DayCounted ==
  fetch.stage = "counted" /\ ~fetch.blank =>
    /\ \A e \in fetch.events : e.parent \in held[e.product]
    /\ \A p \in Product \ fetch.cut : \A u \in Usage :
         held[p] = {u} => {e \in fetch.events : e.product = p} = {[product |-> p, parent |-> u]}

(* Every pull that asks day by day is one that asks for the range at once,  *)
(* as IlmtPull has it.                                                      *)
ImplementsPull == Spec
==============================================================================
