------------------------------- MODULE IlmtPull -------------------------------
(***************************************************************************)
(* The dates of `export pull` for ILMT sources: Validate chooses one range  *)
(* of days for the whole command, every selected host is asked for that     *)
(* range, its report goes into the bundle under a name made of the range,   *)
(* and LastPulldate, from which the next pull starts, becomes today.        *)
(*                                                                          *)
(* Usage of a day is complete once the day is over.  Days are those of one  *)
(* clock: the code compares the UTC midnight of a date with the local time  *)
(* of a day ago, so that the day it takes for yesterday ends some hours     *)
(* early or late by the time zone.                                          *)
(*                                                                          *)
(* The bundle here holds the reports only, of more than 1024 bytes each;    *)
(* ExportLifecycle has its other entries, its faults and the way of a       *)
(* report to the marketplace.                                               *)
(***************************************************************************)
EXTENDS Naturals

CONSTANTS
  Host,      \* the ILMT sources
  LastDay,   \* bound: the day at which the calendar of the model stops
  Dates,     \* the flags the operator may give: a subset of {"start", "end"}
  Midnight,  \* the day may change while a pull runs
  Faults,    \* the kinds of fault that may happen
  MaxFaults  \* bound: how many faults happen

FaultKinds == {"kill",   \* the process dies (a connection that fails is log.Fatal)
               "skip",   \* FromSource fails
               "blank",  \* a host answers with an error status, whose body holds no rows
               "save",   \* Compact or the first write of ModifyConfig fails
               "tear"}   \* the process dies, or a write fails, between the writes of ModifyConfig

ASSUME IlmtAssumption ==
  /\ LastDay \in Nat \ {0}
  /\ Dates \subseteq {"start", "end"}
  /\ Midnight \in BOOLEAN
  /\ Faults \subseteq FaultKinds
  /\ MaxFaults \in Nat

VARIABLES
  today,    \* the clock, in days
  first,    \* history: the first day that was ever asked of a host and saved
  date,     \* LastPulldate in the config file; None when empty
  records,  \* the names of the reports recorded in the config file
  bundle,   \* the reports in the bundle
  open,     \* the last of them, while no Close of its session has followed it
  torn,     \* the bundle has bytes that are no entry, no reader gets past them
  pc,       \* where the pull stands
  cmd,      \* the pull's memory
  faults    \* how many faults have happened

tar == <<bundle, open, torn>>
file == <<first, date, records>>
vars == <<today, file, tar, pc, cmd, faults>>

Day == 1..LastDay
None == 0
MaybeDay == Day \cup {None}

Name == [from : Day, to : Day]

(* An entry of the bundle, and whether it is the last of its name. *)
Entry == [host : Host, name : Name, days : SUBSET Day, last : BOOLEAN]

Cmd == [start : MaybeDay, end : MaybeDay,  \* e.startDate, e.endDate
        visit : SUBSET Host,               \* the sources Validate has still to see
        selected : SUBSET Host,            \* the sources Run has still to pull
        date : [Host -> MaybeDay],         \* rhmRawConfig.ILMTEndpoints in memory
        first : [Host -> MaybeDay],
        records : SUBSET Name,             \* currentMeteringExport.Files in memory
        wrote : BOOLEAN]                   \* a report has been written

NoCmd == [start |-> None, end |-> None, visit |-> {}, selected |-> {},
          date |-> [h \in Host |-> None], first |-> [h \in Host |-> None], records |-> {}, wrote |-> FALSE]

TypeOK ==
  /\ today \in Day
  /\ first \in [Host -> MaybeDay]
  /\ date \in [Host -> MaybeDay]
  /\ records \subseteq Name
  /\ bundle \subseteq Entry
  /\ open \subseteq Entry
  /\ torn \in BOOLEAN
  /\ pc \in {"idle", "validate", "pull", "compact", "dates", "export"}
  /\ cmd \in Cmd
  /\ faults \in 0..MaxFaults

Init ==
  /\ today = 1
  /\ first = [h \in Host |-> None]
  /\ date = [h \in Host |-> None]
  /\ records = {}
  /\ bundle = {}
  /\ open = {}
  /\ torn = FALSE
  /\ pc = "idle"
  /\ cmd = NoCmd
  /\ faults = 0

Fault(kind) == /\ kind \in Faults
               /\ faults < MaxFaults
               /\ faults' = faults + 1

Exit == /\ pc' = "idle"
        /\ cmd' = NoCmd

Tick ==
  /\ today < LastDay
  /\ pc = "idle" \/ Midnight
  /\ today' = today + 1
  /\ UNCHANGED <<file, tar, pc, cmd, faults>>

(* The bundle stays as it is, open if a report was the last thing written.  *)
Kill ==
  /\ pc # "idle"
  /\ Fault(IF pc = "export" THEN "tear" ELSE "kill")
  /\ Exit
  /\ UNCHANGED <<today, file, tar>>

-----------------------------------------------------------------------------
(* The command line: no source, an ILMT source's name, or a DataService.    *)
Selections == {Host, {}} \cup {{h} : h \in Host}

Given(flag) == IF flag \in Dates THEN MaybeDay ELSE {None}

Start(start, end, selected) ==
  /\ pc = "idle"
  /\ pc' = "validate"
  /\ cmd' = [start |-> start, end |-> end, visit |-> Host, selected |-> selected,
             date |-> date, first |-> first, records |-> records, wrote |-> FALSE]
  /\ UNCHANGED <<today, file, tar, faults>>

Or(given, otherwise) == IF given # None THEN given ELSE otherwise

(* Slip: `startDate.Before` of yesterday instead of `!After`.              *)
AcceptableEarlier(start, end) == start # None /\ start + 1 < today /\ end < today /\ start <= end

(* Start no later than yesterday, end no later than yesterday nor before it. *)
Acceptable(start, end) == start # None /\ start < today /\ end < today /\ start <= end

Yesterday == today - 1

(* Validate visits every source, the selected ones or not.  The first one   *)
(* fixes the dates that were not given: its LastPulldate, or what the       *)
(* operator types when it has none, and yesterday.                          *)
ValidateHost(h) ==
  /\ pc = "validate" /\ h \in cmd.visit
  /\ \E typed \in IF cmd.start = None /\ cmd.date[h] = None THEN MaybeDay ELSE {None} :
       LET start == Or(cmd.start, Or(cmd.date[h], typed))
           end == Or(cmd.end, Yesterday)
       IN IF Acceptable(start, end)
            THEN /\ cmd' = [cmd EXCEPT !.start = start, !.end = end, !.visit = @ \ {h}]
                 /\ UNCHANGED pc
            ELSE Exit
  /\ UNCHANGED <<today, file, tar, faults>>

ValidateEnd ==
  /\ pc = "validate" /\ cmd.visit = {}
  /\ pc' = "pull"
  /\ UNCHANGED <<today, file, tar, cmd, faults>>

(* No client: the host has no endpoint in the config, or no token. *)
NoClient == Fault("skip")

(* Slip: the date is moved although the source could not be reached.        *)
SkipHostMovesDate(h) ==
  /\ pc = "pull" /\ h \in cmd.selected
  /\ NoClient
  /\ cmd' = [cmd EXCEPT !.selected = @ \ {h},
                        !.date[h] = IF @ = None THEN None ELSE today]
  /\ UNCHANGED <<today, file, tar, pc>>

SkipHost(h) ==
  /\ pc = "pull" /\ h \in cmd.selected
  /\ NoClient
  /\ cmd' = [cmd EXCEPT !.selected = @ \ {h}]
  /\ UNCHANGED <<today, file, tar, pc>>

(* FetchUsageData asks for one day after the other, both ends included, and *)
(* appends the rows of every answer.  An answer that is an error has none,  *)
(* and the day is passed over without a word.  IlmtFetch takes it apart.    *)
Fetched(range, days) ==
  /\ days \subseteq range
  /\ IF days = range THEN UNCHANGED faults ELSE Fault("blank")

(* A report follows the others, whatever else has its name. *)
Appended(b, r) == {[e EXCEPT !.last = @ /\ e.name # r.name] : e \in b} \cup {r}

Spoilt(e) == [e EXCEPT !.days = {}]

(* What is written 1024 bytes before the end of an open entry falls into its data. *)
Overwritten(b, o) == {IF e \in o THEN Spoilt(e) ELSE e : e \in b}

(* The writer stands behind the last entry: NewBundle has gone back over    *)
(* the two blocks of a Close, or the entry is this session's own.           *)
Placed == ~torn /\ (open = {} \/ cmd.wrote)

(* Elsewhere the report ends up where no entry is looked for. *)
Write(r) ==
  /\ bundle' = IF Placed THEN Appended(bundle, r) ELSE Overwritten(bundle, open)
  /\ open' = IF Placed THEN {r} ELSE {}
  /\ torn' = ~Placed

(* Slip: the next pull is to start after the day of this one.               *)
ReportMovesPast(h, days) ==
  /\ pc = "pull" /\ h \in cmd.selected
  /\ Fetched(cmd.start..cmd.end, days)
  /\ LET name == [from |-> cmd.start, to |-> cmd.end]
     IN /\ Write([host |-> h, name |-> name, days |-> days, last |-> TRUE])
        /\ cmd' = [cmd EXCEPT !.selected = @ \ {h}, !.records = @ \cup {name}, !.wrote = TRUE,
                              !.date[h] = today + 1, !.first[h] = Or(@, cmd.start)]
  /\ UNCHANGED <<today, file, pc>>

(* The report of one host, its record, and the new LastPulldate: the day of *)
(* the clock, not the day after the range.                                  *)
Report(h, days) ==
  /\ pc = "pull" /\ h \in cmd.selected
  /\ Fetched(cmd.start..cmd.end, days)
  /\ LET name == [from |-> cmd.start, to |-> cmd.end]
     IN /\ Write([host |-> h, name |-> name, days |-> days, last |-> TRUE])
        /\ cmd' = [cmd EXCEPT !.selected = @ \ {h}, !.records = @ \cup {name}, !.wrote = TRUE,
                              !.date[h] = today, !.first[h] = Or(@, cmd.start)]
  /\ UNCHANGED <<today, file, pc>>

PullHost(h) == \E days \in SUBSET (cmd.start..cmd.end) : Report(h, days)

(* FetchUsageData ends the process when an answer does not fit the others.  *)
Fatal ==
  /\ pc = "pull" /\ cmd.selected # {}
  /\ Exit
  /\ UNCHANGED <<today, file, tar, faults>>

(* Close writes two blocks of zeros where the writer stands: behind what    *)
(* this session wrote, or else 1024 bytes before the end.                   *)
PullEnd ==
  /\ pc = "pull" /\ cmd.selected = {}
  /\ pc' = "compact"
  /\ bundle' = IF cmd.wrote THEN bundle ELSE Overwritten(bundle, open)
  /\ open' = IF cmd.wrote THEN {} ELSE {Spoilt(e) : e \in open}
  /\ UNCHANGED <<today, file, torn, cmd, faults>>

(* Of the reports of one name the last remains, if the name is recorded.    *)
Compacted(names) == {e \in bundle : e.last /\ e.name \in names}

Compact ==
  /\ pc = "compact" /\ ~torn
  /\ bundle' = Compacted(cmd.records)
  /\ open' = {}
  /\ pc' = "dates"
  /\ UNCHANGED <<today, file, torn, cmd, faults>>

(* WalkTar does not come to the end: the pull fails, nothing is saved.      *)
CompactTorn ==
  /\ pc = "compact" /\ torn
  /\ Exit
  /\ UNCHANGED <<today, file, tar, faults>>

(* ModifyConfig writes the ILMT endpoints with their dates first, *)
SaveDates ==
  /\ pc = "dates"
  /\ date' = cmd.date
  /\ first' = cmd.first
  /\ pc' = "export"
  /\ UNCHANGED <<today, records, tar, cmd, faults>>

(* and then, in its last write, the current export with its files. *)
SaveExport ==
  /\ pc = "export"
  /\ records' = cmd.records
  /\ Exit
  /\ UNCHANGED <<today, first, date, tar, faults>>

SaveError ==
  /\ pc \in {"compact", "dates", "export"}
  /\ Fault(IF pc = "export" THEN "tear" ELSE "save")
  /\ Exit
  /\ UNCHANGED <<today, file, tar>>

StartPull == \E start \in Given("start"), end \in Given("end"), s \in Selections :
               Start(start, end, s)

Next ==
  \/ Tick \/ Kill \/ Fatal \/ SaveError
  \/ StartPull
  \/ \E h \in Host : ValidateHost(h) \/ SkipHost(h) \/ PullHost(h)
  \/ ValidateEnd \/ PullEnd \/ Compact \/ CompactTorn \/ SaveDates \/ SaveExport

Spec == Init /\ [][Next]_vars

-----------------------------------------------------------------------------
(* Properties *)

(* The days of a host that a recorded report holds. *)
Covered(h) == UNION {e.days : e \in {r \in bundle : r.host = h /\ r.name \in records}}

(* The next pull starts at LastPulldate, so that between two commands every *)
(* day of the host before it, from the first that was asked for, is in a    *)
(* recorded report: a pull that fails or dies halfway must not leave a date *)
(* beyond days that nobody will ask for again.                              *)
NoDaySkipped ==
  pc = "idle" => \A h \in Host : date[h] # None => first[h]..(date[h] - 1) \subseteq Covered(h)

(* The pull of a day's reports can be repeated until it works: the days are *)
(* all covered in the end, once a first pull has been saved.  The exception *)
(* is a pull that dies between a report and the Close behind it, and        *)
(* another that writes after it: no pull comes through the bundle again.    *)
EventuallyCaughtUp ==
  <>[](torn \/ \A h \in Host : first[h] # None => first[h]..(LastDay - 1) \subseteq Covered(h))
==============================================================================
