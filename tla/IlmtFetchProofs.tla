--------------------------- MODULE IlmtFetchProofs ---------------------------
(***************************************************************************)
(* Theorems about IlmtFetch for any products, bundles, limit, moves, hosts  *)
(* and faults: the days' requests implement a pull of IlmtPull, and so keep *)
(* its days, and what a day reports is true of it.                          *)
(***************************************************************************)
EXTENDS IlmtFetch, IlmtPullProofs

USE DEF None, Day, MaybeDay, tar, file

(* The day being fetched is a day, from its first request one up to the end.*)
DayInRange ==
  /\ fetch.stage # "none" => fetch.day # None
  /\ fetch.stage \notin {"none", "alone"} => fetch.day \in Day

FetchTyped == PullTyped /\ FetchTypeOK /\ DayInRange

(* Each step of the composition is one of the pull or leaves it alone.      *)
LEMMA FetchStepMaps == FetchTypeOK /\ [FetchNext]_fetchVars => [Next]_vars
<1> SUFFICES ASSUME FetchTypeOK, [FetchNext]_fetchVars PROVE [Next]_vars
  OBVIOUS
<1>1. CASE Around(Tick) \/ Die \/ Around(SaveError) \/ Around(StartPull)
  BY <1>1 DEF Around, Die, Next
<1>2. CASE \E h \in Host : Around(ValidateHost(h)) \/ FetchStart(h)
  BY <1>2 DEF Around, FetchStart, Next
<1>3. CASE GetAlone \/ GetBundled \/ GetParents \/ Join \/ NextDay
  BY <1>3 DEF GetAlone, GetBundled, GetParents, Join, NextDay
<1>4. CASE JoinFatal
  BY <1>4 DEF JoinFatal, Next
<1>5. CASE FetchEnd
  <2>1. PICK h \in fetch.host : Report(h, fetch.days)
    BY <1>5 DEF FetchEnd
  <2>2. h \in Host /\ fetch.days \in SUBSET (cmd.start..cmd.end)
    BY <2>1 DEF FetchTypeOK, Fetch, Report, Fetched
  <2> QED
    BY <2>1, <2>2 DEF PullHost, Next
<1>6. CASE \/ Around(ValidateEnd)
           \/ fetch = NoFetch /\ Around(PullEnd)
           \/ Around(Compact) \/ Around(CompactTorn) \/ Around(SaveDates) \/ Around(SaveExport)
  BY <1>6 DEF Around, Next
<1>7. CASE \E h \in Host : fetch = NoFetch /\ Around(SkipHost(h))
  BY <1>7 DEF Around, Next
<1>8. CASE \E p \in Product, u \in Usage : Move(p, u)
  BY <1>8 DEF Move
<1>9. CASE UNCHANGED fetchVars
  BY <1>9 DEF fetchVars
<1> QED
  BY <1>1, <1>2, <1>3, <1>4, <1>5, <1>6, <1>7, <1>8, <1>9 DEF FetchNext, Program

(* Nothing fetched has its type. *)
LEMMA NoFetchTyped == NoFetch \in Fetch
BY DEF NoFetch, Fetch

(* The initial state has the types. *)
LEMMA FetchTypedInit == FetchInit => FetchTyped
BY PullTypedInit, NoFetchTyped, FetchAssumption
DEF FetchInit, FetchTyped, PullTyped, FetchTypeOK, DayInRange, NoFetch, FetchAssumption

(* The rows of an answer are the ones asked for, or none. *)
LEMMA AnswerRows ==
  ASSUME FetchTypeOK, NEW rows, NEW a \in Answers(rows)
  PROVE  a.rows \subseteq rows /\ a.blank \in BOOLEAN /\ (~a.blank => a.rows = rows /\ ~fetch.blank)
<1>1. fetch.blank \in BOOLEAN
  BY DEF FetchTypeOK, Fetch
<1>2. a \in {[rows |-> rows, blank |-> fetch.blank], [rows |-> {}, blank |-> TRUE]}
  BY DEF Answers
<1>3. CASE a = [rows |-> rows, blank |-> fetch.blank]
  <2>1. a.rows = rows /\ a.blank = fetch.blank
    BY <1>3
  <2> QED
    BY <1>1, <2>1
<1>4. CASE a = [rows |-> {}, blank |-> TRUE]
  <2>1. a.rows = {} /\ a.blank = TRUE
    BY <1>4
  <2> QED
    BY <2>1
<1> QED
  BY <1>2, <1>3, <1>4

(* What is joined are events. *)
LEMMA JoinedEvents ==
  ASSUME FetchTypeOK, ~Orphan
  PROVE  /\ Joined = {[product |-> p, parent |-> NoBundle] : p \in fetch.alone} \cup fetch.bundled
         /\ Joined \subseteq Event
<1>1. \A row \in fetch.bundled : [row EXCEPT !.parent = CHOOSE b \in ParentOf(row) : TRUE] = row
  <2> SUFFICES ASSUME NEW row \in fetch.bundled
               PROVE  [row EXCEPT !.parent = CHOOSE b \in ParentOf(row) : TRUE] = row
    OBVIOUS
  <2>1. ParentOf(row) # {}
    BY DEF Orphan
  <2>2. (CHOOSE b \in ParentOf(row) : TRUE) \in ParentOf(row)
    BY <2>1
  <2>3. (CHOOSE b \in ParentOf(row) : TRUE) = row.parent
    BY <2>2 DEF ParentOf
  <2>4. row \in Event
    BY DEF FetchTypeOK, Fetch
  <2> QED
    BY <2>3, <2>4 DEF Event
<1>2. {[row EXCEPT !.parent = CHOOSE b \in ParentOf(row) : TRUE] : row \in fetch.bundled} = fetch.bundled
  BY <1>1
<1>3. \A p \in fetch.alone : [product |-> p, parent |-> NoBundle] \in Event
  BY DEF FetchTypeOK, Fetch, Event, Usage
<1> QED
  BY <1>2, <1>3 DEF Joined, FetchTypeOK, Fetch

(* Every request and the join keep the types. *)
LEMMA RequestTyped ==
  ASSUME FetchTyped, GetAlone \/ GetBundled \/ GetParents \/ Join \/ NextDay
  PROVE  FetchTypeOK' /\ DayInRange'
<1> USE IlmtAssumption DEF IlmtAssumption
<1>0. /\ UNCHANGED <<vars, usage, moves>>
      /\ fetch \in Fetch /\ cmd \in Cmd /\ usage \in [Product -> Usage]
  BY DEF GetAlone, GetBundled, GetParents, Join, NextDay, server, FetchTyped, FetchTypeOK, TypeOK
<1>t. TypeOK'
  BY <1>0 DEF FetchTyped, FetchTypeOK, TypeOK, vars
<1>1. CASE GetAlone
  <2>1. held' \in [Product -> SUBSET Usage]
    <3>1. held' = [p \in Product |-> {usage[p]}]
      BY <1>1 DEF GetAlone
    <3> QED
      BY <1>0, <3>1
  <2>2. PICK rows \in SUBSET {p \in Product : usage[p] = NoBundle} : \E a \in Answers(rows) :
          fetch' = [fetch EXCEPT !.stage = "bundled", !.alone = a.rows, !.blank = a.blank,
                                 !.cut = {p \in Product : usage[p] = NoBundle} \ rows]
    BY <1>1 DEF GetAlone
  <2>3. PICK a \in Answers(rows) :
          fetch' = [fetch EXCEPT !.stage = "bundled", !.alone = a.rows, !.blank = a.blank,
                                 !.cut = {p \in Product : usage[p] = NoBundle} \ rows]
    BY <2>2
  <2>4. a.rows \subseteq Product /\ a.blank \in BOOLEAN
    BY <2>2, AnswerRows DEF FetchTyped
  <2>5. fetch.day \in Day
    <3>1. fetch.stage = "alone" /\ fetch.day <= cmd.end
      BY <1>1 DEF GetAlone, At, More
    <3>2. fetch.day # None
      BY <3>1 DEF FetchTyped, DayInRange
    <3>3. fetch.day \in Day \cup {None, LastDay + 1} /\ cmd.end \in MaybeDay
      BY <1>0 DEF Fetch, Cmd
    <3> QED
      BY <3>1, <3>2, <3>3
  <2>6. fetch' \in Fetch /\ fetch'.day = fetch.day
    BY <1>0, <2>3, <2>4 DEF Fetch
  <2> QED
    BY <1>0, <1>t, <2>1, <2>5, <2>6 DEF FetchTyped, FetchTypeOK, DayInRange
<1>2. CASE GetBundled
  <2>1. PICK a \in Answers({e \in Event : e.parent = usage[e.product] /\ e.parent # NoBundle}) :
          fetch' = [fetch EXCEPT !.stage = "parents", !.bundled = a.rows, !.blank = a.blank]
    BY <1>2 DEF GetBundled
  <2>2. a.rows \subseteq Event /\ a.blank \in BOOLEAN
    BY <2>1, AnswerRows DEF FetchTyped
  <2>3. fetch' \in Fetch /\ fetch'.day = fetch.day
    BY <1>0, <2>1, <2>2 DEF Fetch
  <2> QED
    BY <1>0, <1>t, <1>2, <2>3 DEF GetBundled, At, server, FetchTyped, FetchTypeOK, DayInRange
<1>3. CASE GetParents
  <2>1. PICK a \in Answers({usage[p] : p \in Product} \cap Bundle) :
          fetch' = [fetch EXCEPT !.stage = "join", !.parents = a.rows, !.blank = a.blank]
    BY <1>3 DEF GetParents
  <2>2. a.rows \subseteq Bundle /\ a.blank \in BOOLEAN
    BY <2>1, AnswerRows DEF FetchTyped
  <2>3. fetch' \in Fetch /\ fetch'.day = fetch.day
    BY <1>0, <2>1, <2>2 DEF Fetch
  <2> QED
    BY <1>0, <1>t, <1>3, <2>3 DEF GetParents, At, server, FetchTyped, FetchTypeOK, DayInRange
<1>4. CASE Join
  <2>1. fetch.day \in Day /\ Joined \subseteq Event
    BY <1>4, JoinedEvents DEF Join, At, FetchTyped, DayInRange
  <2>2. fetch' \in Fetch /\ fetch'.day = fetch.day
    BY <1>0, <1>4, <2>1 DEF Join, Fetch
  <2> QED
    BY <1>0, <1>t, <1>4, <2>1, <2>2 DEF Join, server, FetchTyped, FetchTypeOK, DayInRange
<1>5. CASE NextDay
  <2>1. fetch.day \in Day
    BY <1>5 DEF NextDay, At, FetchTyped, DayInRange
  <2>2. fetch' \in Fetch /\ fetch'.day = fetch.day + 1 /\ fetch'.stage = "alone"
    <3>1. fetch' = [NoFetch EXCEPT !.stage = "alone", !.host = fetch.host, !.day = fetch.day + 1,
                                   !.days = fetch.days]
      BY <1>5 DEF NextDay
    <3>2. fetch.day + 1 \in Day \cup {None, LastDay + 1}
      BY <2>1
    <3>3. fetch.host \subseteq Host /\ fetch.days \subseteq Day
      BY <1>0 DEF Fetch
    <3> QED
      BY <3>1, <3>2, <3>3, NoFetchTyped DEF Fetch
  <2> QED
    BY <1>0, <1>t, <1>5, <2>1, <2>2 DEF NextDay, server, FetchTyped, FetchTypeOK, DayInRange
<1> QED
  BY <1>1, <1>2, <1>3, <1>4, <1>5

(* Every step keeps the types. *)
LEMMA FetchTypedStep == FetchTyped /\ [FetchNext]_fetchVars => FetchTyped'
<1> SUFFICES ASSUME FetchTyped, [FetchNext]_fetchVars PROVE FetchTyped'
  OBVIOUS
<1>p. PullTyped'
  BY FetchStepMaps, PullTypedStep DEF FetchTyped
<1>1. CASE UNCHANGED <<server, fetch>>
  BY <1>p, <1>1 DEF server, FetchTyped, PullTyped, FetchTypeOK, DayInRange
<1>2. CASE fetch' = NoFetch /\ UNCHANGED server
  BY <1>p, <1>2, NoFetchTyped DEF server, FetchTyped, PullTyped, FetchTypeOK, DayInRange, NoFetch
<1>3. ASSUME NEW h \in Host, FetchStart(h) PROVE FetchTyped'
  <2>1. cmd.start \in Day
    BY <1>3 DEF FetchStart, At, FetchTyped, PullTyped, Ranged
  <2>2. fetch' = [NoFetch EXCEPT !.stage = "alone", !.host = {h}, !.day = cmd.start]
    BY <1>3 DEF FetchStart
  <2>3. fetch' \in Fetch /\ fetch'.stage = "alone" /\ fetch'.day # None
    <3>1. cmd.start \in Day \cup {None, LastDay + 1} /\ cmd.start # None
      BY <2>1
    <3>2. {h} \subseteq Host
      OBVIOUS
    <3> QED
      BY <2>2, <3>1, <3>2, NoFetchTyped DEF Fetch
  <2> QED
    BY <1>p, <1>3, <2>3 DEF FetchStart, server, FetchTyped, PullTyped, FetchTypeOK, DayInRange
<1>4. CASE GetAlone \/ GetBundled \/ GetParents \/ Join \/ NextDay
  BY <1>p, <1>4, RequestTyped DEF FetchTyped
<1>5. ASSUME NEW p \in Product, NEW u \in Usage, Move(p, u) PROVE FetchTyped'
  <2>1. usage' \in [Product -> Usage] /\ held' \in [Product -> SUBSET Usage]
    BY <1>5 DEF Move, FetchTyped, FetchTypeOK
  <2>2. moves' \in 0..MaxMoves
    BY <1>5, FetchAssumption DEF Move, FetchTyped, FetchTypeOK, FetchAssumption
  <2> QED
    BY <1>p, <1>5, <2>1, <2>2 DEF Move, FetchTyped, PullTyped, FetchTypeOK, DayInRange
<1> QED
  BY <1>1, <1>2, <1>3, <1>4, <1>5
  DEF FetchNext, Program, Around, Die, JoinFatal, FetchEnd, fetchVars, server

(* The types hold in every reachable state. *)
LEMMA FetchTypedAlways == FetchSpec => []FetchTyped
<1>1. QED
  BY FetchTypedInit, FetchTypedStep, PTL DEF FetchSpec

(* The variables keep their types (ilmt.go). *)
THEOREM FetchTypesKept == FetchSpec => []FetchTypeOK
<1>1. FetchTyped => FetchTypeOK
  BY DEF FetchTyped
<1> QED
  BY <1>1, FetchTypedAlways, PTL

(* A pull that asks day by day, request by request, and may die of a row    *)
(* without a parent, is a pull of IlmtPull (FetchUsageData of ilmt.go).     *)
THEOREM FetchRefinesPull == FetchSpec => ImplementsPull
<1>1. FetchInit => Init
  BY DEF FetchInit
<1>2. FetchTyped /\ [FetchNext]_fetchVars => [Next]_vars
  BY FetchStepMaps DEF FetchTyped
<1> QED
  BY <1>1, <1>2, FetchTypedAlways, PTL DEF FetchSpec, ImplementsPull, Spec

(* So it keeps the days as a pull does. *)
THEOREM FetchKeepsDays == Undisturbed => (FetchSpec => []NoDaySkipped)
<1> SUFFICES ASSUME Undisturbed PROVE FetchSpec => []NoDaySkipped
  OBVIOUS
<1>1. FetchSpec => Spec
  BY FetchRefinesPull DEF ImplementsPull
<1>2. Spec => []NoDaySkipped
  BY DaysKept
<1> QED
  BY <1>1, <1>2, PTL

-----------------------------------------------------------------------------
(* What a day reports *)

(* From a day's first request to its last the assignment in force is among  *)
(* those held; *)
HeldNow == fetch.stage \in {"bundled", "parents"} => \A p \in Product : usage[p] \in held[p]

(* the first answer lists products that were alone, and all that stayed so  *)
(* but those the limit left out; *)
AloneTrue ==
  fetch.stage \in {"bundled", "parents", "join"} =>
    /\ \A p \in fetch.alone : NoBundle \in held[p]
    /\ ~fetch.blank => \A p \in Product \ fetch.cut : held[p] = {NoBundle} => p \in fetch.alone

(* and the second lists bundles the products were in, and all that they     *)
(* stayed in. *)
BundledTrue ==
  fetch.stage \in {"parents", "join"} =>
    /\ \A row \in fetch.bundled : row.parent \in held[row.product]
    /\ ~fetch.blank => \A p \in Product, b \in Bundle :
                         held[p] = {b} => [product |-> p, parent |-> b] \in fetch.bundled

CountInv == FetchTypeOK /\ HeldNow /\ AloneTrue /\ BundledTrue /\ DayCounted

(* Outside the requests nothing is claimed. *)
LEMMA CountsIdle ==
  ASSUME FetchTypeOK, fetch.stage \in {"none", "alone"}
  PROVE  CountInv
BY DEF CountInv, HeldNow, AloneTrue, BundledTrue, DayCounted

(* Nothing starts a claim. *)
LEMMA CountsInit == FetchInit => CountInv
<1> SUFFICES ASSUME FetchInit PROVE CountInv
  OBVIOUS
<1>1. FetchTypeOK /\ fetch.stage = "none"
  BY FetchTypedInit DEF FetchTyped, FetchInit, NoFetch
<1> QED
  BY <1>1, CountsIdle

(* A product that moves is held with more than one assignment from then on. *)
LEMMA CountsMove ==
  ASSUME CountInv, FetchTypeOK', NEW p \in Product, NEW u \in Usage, Move(p, u)
  PROVE  CountInv'
<1>0. /\ u # usage[p] /\ UNCHANGED fetch
      /\ usage' = [usage EXCEPT ![p] = u]
      /\ usage \in [Product -> Usage] /\ held \in [Product -> SUBSET Usage]
  BY DEF Move, CountInv, FetchTypeOK
<1>1. CASE fetch.stage \in {"bundled", "parents"}
  <2>1. held' = [held EXCEPT ![p] = @ \cup {u}]
    BY <1>1 DEF Move
  <2>2. \A q \in Product : held[q] \subseteq held'[q] /\ usage'[q] \in held'[q]
    BY <1>0, <1>1, <2>1 DEF CountInv, HeldNow
  <2>3. \A q \in Product, v \in Usage : held'[q] = {v} => held[q] = {v}
    <3> SUFFICES ASSUME NEW q \in Product, NEW v \in Usage, held'[q] = {v}
                 PROVE  held[q] = {v}
      OBVIOUS
    <3>1. CASE q = p
      <4>1. usage[p] \in held[p]
        BY <1>1 DEF CountInv, HeldNow
      <4>2. usage[p] \in held'[p] /\ u \in held'[p]
        BY <1>0, <2>1, <4>1
      <4> QED
        BY <1>0, <3>1, <4>2
    <3>2. CASE q # p
      BY <1>0, <2>1, <3>2
    <3> QED
      BY <3>1, <3>2
  <2>4. HeldNow'
    BY <2>2 DEF HeldNow
  <2>5. AloneTrue'
    <3>1. \A q \in fetch.alone : NoBundle \in held'[q]
      BY <1>1, <2>2 DEF CountInv, AloneTrue, FetchTypeOK, Fetch
    <3>2. ~fetch.blank => \A q \in Product \ fetch.cut : held'[q] = {NoBundle} => q \in fetch.alone
      BY <1>1, <2>3 DEF CountInv, AloneTrue, Usage
    <3> QED
      BY <1>0, <3>1, <3>2 DEF AloneTrue
  <2>6. BundledTrue'
    <3> SUFFICES ASSUME fetch.stage = "parents" PROVE BundledTrue'
      BY <1>0, <1>1 DEF BundledTrue
    <3>1. \A row \in fetch.bundled : row.parent \in held'[row.product]
      <4>1. \A row \in fetch.bundled : row.product \in Product
        BY DEF CountInv, FetchTypeOK, Fetch, Event
      <4> QED
        BY <2>2, <4>1 DEF CountInv, BundledTrue
    <3>2. ~fetch.blank => \A q \in Product, b \in Bundle :
                            held'[q] = {b} => [product |-> q, parent |-> b] \in fetch.bundled
      BY <2>3 DEF CountInv, BundledTrue, Usage
    <3> QED
      BY <1>0, <3>1, <3>2 DEF BundledTrue
  <2> QED
    BY <1>0, <1>1, <2>4, <2>5, <2>6 DEF CountInv, DayCounted
<1>2. CASE fetch.stage \notin {"bundled", "parents"}
  <2>1. held' = held
    BY <1>0, <1>2 DEF Move
  <2> QED
    BY <1>0, <1>2, <2>1 DEF CountInv, HeldNow, AloneTrue, BundledTrue, DayCounted
<1> QED
  BY <1>1, <1>2

(* The first request starts to hold what it finds. *)
LEMMA CountsAlone ==
  ASSUME CountInv, FetchTypeOK', GetAlone
  PROVE  CountInv'
<1> DEFINE all == {p \in Product : usage[p] = NoBundle}
<1>1. /\ held' = [p \in Product |-> {usage[p]}]
      /\ UNCHANGED usage
      /\ fetch \in Fetch
  BY DEF GetAlone, CountInv, FetchTypeOK
<1>2. PICK rows \in SUBSET all : \E a \in Answers(rows) :
        fetch' = [fetch EXCEPT !.stage = "bundled", !.alone = a.rows, !.blank = a.blank,
                               !.cut = all \ rows]
  BY DEF GetAlone
<1>3. PICK a \in Answers(rows) :
        fetch' = [fetch EXCEPT !.stage = "bundled", !.alone = a.rows, !.blank = a.blank,
                               !.cut = all \ rows]
  BY <1>2
<1>4. a.rows \subseteq rows /\ (~a.blank => a.rows = rows)
  BY AnswerRows DEF CountInv
<1>5. /\ fetch'.stage = "bundled" /\ fetch'.alone = a.rows
      /\ fetch'.blank = a.blank /\ fetch'.cut = all \ rows
  BY <1>1, <1>3 DEF Fetch
<1>6. HeldNow'
  BY <1>1 DEF HeldNow
<1>7. AloneTrue'
  <2>1. \A p \in a.rows : NoBundle \in held'[p]
    BY <1>1, <1>2, <1>4
  <2>2. ~a.blank => \A p \in Product \ (all \ rows) : held'[p] = {NoBundle} => p \in a.rows
    BY <1>1, <1>4
  <2> QED
    BY <1>5, <2>1, <2>2 DEF AloneTrue
<1> QED
  BY <1>5, <1>6, <1>7 DEF CountInv, BundledTrue, DayCounted

(* The second lists what is held now. *)
LEMMA CountsBundled ==
  ASSUME CountInv, FetchTypeOK', GetBundled
  PROVE  CountInv'
<1> DEFINE all == {e \in Event : e.parent = usage[e.product] /\ e.parent # NoBundle}
<1>1. UNCHANGED <<usage, held>> /\ fetch.stage = "bundled" /\ fetch \in Fetch
  BY DEF GetBundled, At, server, CountInv, FetchTypeOK
<1>2. PICK a \in Answers(all) :
        fetch' = [fetch EXCEPT !.stage = "parents", !.bundled = a.rows, !.blank = a.blank]
  BY DEF GetBundled
<1>3. a.rows \subseteq all /\ (~a.blank => a.rows = all /\ ~fetch.blank)
  BY AnswerRows DEF CountInv
<1>4. /\ fetch'.stage = "parents" /\ fetch'.alone = fetch.alone /\ fetch'.bundled = a.rows
      /\ fetch'.blank = a.blank /\ fetch'.cut = fetch.cut
  BY <1>1, <1>2 DEF Fetch
<1>5. HeldNow' /\ AloneTrue'
  BY <1>1, <1>3, <1>4 DEF CountInv, HeldNow, AloneTrue
<1>6. BundledTrue'
  <2>1. \A row \in a.rows : row.parent \in held'[row.product]
    <3> SUFFICES ASSUME NEW row \in a.rows PROVE row.parent \in held[row.product]
      BY <1>1
    <3>1. row.product \in Product /\ row.parent = usage[row.product]
      BY <1>3 DEF Event
    <3> QED
      BY <1>1, <3>1 DEF CountInv, HeldNow
  <2>2. ~a.blank => \A p \in Product, b \in Bundle :
                      held'[p] = {b} => [product |-> p, parent |-> b] \in a.rows
    <3> SUFFICES ASSUME ~a.blank, NEW p \in Product, NEW b \in Bundle, held[p] = {b}
                 PROVE  [product |-> p, parent |-> b] \in a.rows
      BY <1>1
    <3>1. usage[p] = b
      BY <1>1 DEF CountInv, HeldNow
    <3>2. [product |-> p, parent |-> b] \in Event /\ b # NoBundle
      BY FetchAssumption DEF Event, Usage, FetchAssumption
    <3>3. [product |-> p, parent |-> b] \in all
      BY <3>1, <3>2
    <3> QED
      BY <1>3, <3>3
  <2> QED
    BY <1>4, <2>1, <2>2 DEF BundledTrue
<1> QED
  BY <1>4, <1>5, <1>6 DEF CountInv, DayCounted

(* The third changes neither. *)
LEMMA CountsParents ==
  ASSUME CountInv, FetchTypeOK', GetParents
  PROVE  CountInv'
<1>1. UNCHANGED <<usage, held>> /\ fetch.stage = "parents" /\ fetch \in Fetch
  BY DEF GetParents, At, server, CountInv, FetchTypeOK
<1>2. PICK a \in Answers({usage[p] : p \in Product} \cap Bundle) :
        fetch' = [fetch EXCEPT !.stage = "join", !.parents = a.rows, !.blank = a.blank]
  BY DEF GetParents
<1>3. ~a.blank => ~fetch.blank
  BY AnswerRows DEF CountInv
<1>4. /\ fetch'.stage = "join" /\ fetch'.alone = fetch.alone /\ fetch'.bundled = fetch.bundled
      /\ fetch'.blank = a.blank /\ fetch'.cut = fetch.cut
  BY <1>1, <1>2 DEF Fetch
<1>5. AloneTrue' /\ BundledTrue'
  BY <1>1, <1>3, <1>4 DEF CountInv, AloneTrue, BundledTrue
<1> QED
  BY <1>4, <1>5 DEF CountInv, HeldNow, DayCounted

(* The events are the rows of the first two answers. *)
LEMMA CountsJoin ==
  ASSUME CountInv, FetchTypeOK', Join
  PROVE  CountInv'
<1>1. /\ UNCHANGED held /\ fetch.stage = "join"
      /\ fetch.alone \subseteq Product /\ fetch.bundled \subseteq Event
  BY DEF Join, At, server, CountInv, FetchTypeOK, Fetch
<1> DEFINE events == {[product |-> p, parent |-> NoBundle] : p \in fetch.alone} \cup fetch.bundled
<1>2. /\ fetch'.stage = "counted" /\ fetch'.events = events
      /\ fetch'.blank = fetch.blank /\ fetch'.cut = fetch.cut
  <2>1. Joined = events
    BY JoinedEvents DEF Join, CountInv
  <2> QED
    BY <2>1 DEF Join, CountInv, FetchTypeOK, Fetch
<1>3. \A e \in events : e.parent \in held[e.product]
  BY <1>1 DEF CountInv, AloneTrue, BundledTrue
<1>4. events \subseteq Event
  BY <1>1 DEF Event, Usage
<1>5. ASSUME ~fetch.blank, NEW p \in Product \ fetch.cut, NEW u \in Usage, held[p] = {u}
      PROVE  {e \in events : e.product = p} = {[product |-> p, parent |-> u]}
  <2>1. [product |-> p, parent |-> u] \in events
    <3>1. CASE u = NoBundle
      BY <1>1, <1>5, <3>1 DEF CountInv, AloneTrue
    <3>2. CASE u \in Bundle
      BY <1>1, <1>5, <3>2 DEF CountInv, BundledTrue
    <3> QED
      BY <3>1, <3>2 DEF Usage
  <2>2. ASSUME NEW e \in events, e.product = p PROVE e = [product |-> p, parent |-> u]
    <3>1. e.parent = u
      BY <1>3, <1>5, <2>2
    <3>2. e \in Event
      BY <1>4
    <3> QED
      BY <2>2, <3>1, <3>2 DEF Event
  <2>3. [product |-> p, parent |-> u].product = p
    OBVIOUS
  <2> HIDE DEF events
  <2> DEFINE event == [product |-> p, parent |-> u]
  <2> HIDE DEF event
  <2>4. event \in events /\ event.product = p /\ \A e \in events : e.product = p => e = event
    BY <2>1, <2>2, <2>3 DEF event
  <2>5. {e \in events : e.product = p} = {event}
    BY <2>4
  <2> QED
    BY <2>5 DEF event
<1>6. DayCounted'
  BY <1>1, <1>2, <1>3, <1>5 DEF DayCounted
<1> QED
  BY <1>2, <1>6 DEF CountInv, HeldNow, AloneTrue, BundledTrue

(* Every step keeps the claims. *)
LEMMA CountsStep == CountInv /\ FetchTypeOK' /\ [FetchNext]_fetchVars => CountInv'
<1> SUFFICES ASSUME CountInv, FetchTypeOK', [FetchNext]_fetchVars PROVE CountInv'
  OBVIOUS
<1>1. CASE UNCHANGED <<server, fetch>>
  BY <1>1 DEF server, CountInv, HeldNow, AloneTrue, BundledTrue, DayCounted
<1>2. CASE fetch' = NoFetch
  BY <1>2, CountsIdle DEF CountInv, HeldNow, AloneTrue, BundledTrue, DayCounted, NoFetch
<1>3. CASE fetch'.stage = "alone"
  BY <1>3 DEF CountInv, HeldNow, AloneTrue, BundledTrue, DayCounted
<1>4. ASSUME (\E h \in Host : FetchStart(h)) \/ NextDay PROVE fetch'.stage = "alone"
  <2>1. NoFetch.stage = "none" /\ NoFetch \in Fetch
    BY NoFetchTyped DEF NoFetch
  <2> QED
    BY <1>4, <2>1 DEF FetchStart, NextDay, Fetch
<1>5. ASSUME NEW p \in Product, NEW u \in Usage, Move(p, u) PROVE CountInv'
  BY <1>5, CountsMove
<1> QED
  BY <1>1, <1>2, <1>3, <1>4, <1>5, CountsAlone, CountsBundled, CountsParents, CountsJoin
  DEF FetchNext, Program, Around, Die, JoinFatal, FetchEnd, fetchVars, server

(* An event names a parent the product had during the day's requests, and a *)
(* product that was left alone has exactly one, unless the limit left it    *)
(* out or an answer was an error (FetchUsageData, GetParentProduct).        *)
THEOREM DaysCounted == FetchSpec => []DayCounted
<1>1. CountInv => DayCounted
  BY DEF CountInv
<1>2. FetchTyped => FetchTypeOK
  BY DEF FetchTyped
<1> QED
  BY <1>1, <1>2, CountsInit, CountsStep, FetchTypedAlways, PTL DEF FetchSpec
==============================================================================
