---------------------------- MODULE IlmtPullProofs ----------------------------
(***************************************************************************)
(* Theorems about IlmtPull for every calendar and budget of faults.  The    *)
(* variables keep their types whatever happens; with one host, and without  *)
(* what is known to lose days, no day is skipped.                           *)
(***************************************************************************)
EXTENDS IlmtPull, TLAPS

(* The dates Validate leaves behind are days, once it has seen a source.    *)
Ranged ==
  /\ pc = "pull" => cmd.visit = {}
  /\ pc \in {"validate", "pull"} /\ cmd.visit # Host => cmd.start \in Day /\ cmd.end \in Day

PullTyped == TypeOK /\ Ranged

USE DEF None, Day, MaybeDay

USE DEF tar, file

(* The empty memory has its type. *)
LEMMA NoCmdIsCmd == NoCmd \in Cmd
BY DEF NoCmd, Cmd

(* What is accepted is a range of days. *)
LEMMA AcceptableDays ==
  ASSUME today \in Day, NEW s \in MaybeDay, NEW e \in MaybeDay, Acceptable(s, e)
  PROVE  s \in Day /\ e \in Day /\ e <= today - 1 /\ s <= e
BY IlmtAssumption DEF Acceptable, IlmtAssumption

(* The initial state has the types. *)
LEMMA PullTypedInit == Init => PullTyped
<1> SUFFICES ASSUME Init PROVE PullTyped
  OBVIOUS
<1>1. cmd \in Cmd /\ today \in Day /\ faults \in 0..MaxFaults
  BY NoCmdIsCmd, IlmtAssumption DEF Init, IlmtAssumption
<1>2. torn \in BOOLEAN
  BY DEF Init
<1>3. Ranged
  BY DEF Init, Ranged
<1> QED
  BY <1>1, <1>2, <1>3 DEF Init, PullTyped, TypeOK

(* Validate takes the range it accepts to memory, or ends the command.      *)
LEMMA ValidateTyped == ASSUME PullTyped, NEW h \in Host, ValidateHost(h) PROVE PullTyped'
<1> USE IlmtAssumption DEF IlmtAssumption
<1>1. PICK typed \in MaybeDay :
        LET start == Or(cmd.start, Or(cmd.date[h], typed))
            end == Or(cmd.end, Yesterday)
        IN IF Acceptable(start, end)
             THEN /\ cmd' = [cmd EXCEPT !.start = start, !.end = end, !.visit = @ \ {h}]
                  /\ UNCHANGED pc
             ELSE Exit
  BY DEF ValidateHost
<1> DEFINE start == Or(cmd.start, Or(cmd.date[h], typed))
           end == Or(cmd.end, Yesterday)
<1>2. cmd \in Cmd /\ today \in Day /\ pc = "validate" /\ cmd.visit \subseteq Host
  BY DEF ValidateHost, PullTyped, TypeOK, Cmd
<1>3. UNCHANGED <<today, file, tar, faults>>
  BY DEF ValidateHost
<1>4. start \in MaybeDay /\ end \in MaybeDay
  BY <1>2 DEF Or, Yesterday, Cmd
<1>5. CASE Acceptable(start, end)
  <2>1. cmd' = [cmd EXCEPT !.start = start, !.end = end, !.visit = @ \ {h}] /\ pc' = pc
    BY <1>1, <1>5
  <2>2. start \in Day /\ end \in Day
    BY <1>2, <1>4, <1>5, AcceptableDays
  <2> HIDE DEF start, end
  <2>3. cmd' \in Cmd /\ cmd'.start = start /\ cmd'.end = end
    BY <1>2, <2>1, <2>2 DEF Cmd
  <2> QED
    BY <1>2, <1>3, <2>1, <2>2, <2>3 DEF PullTyped, TypeOK, Ranged, file
<1>6. CASE ~Acceptable(start, end)
  BY <1>1, <1>3, <1>6, NoCmdIsCmd DEF Exit, PullTyped, TypeOK, Ranged, file
<1> QED
  BY <1>5, <1>6

(* An entry whose data is overwritten is an entry. *)
LEMMA OverwrittenTyped ==
  ASSUME NEW b \in SUBSET Entry, NEW o \in SUBSET Entry
  PROVE  Overwritten(b, o) \subseteq Entry /\ {Spoilt(e) : e \in o} \subseteq Entry
<1>1. \A e \in Entry : Spoilt(e) \in Entry
  BY DEF Spoilt, Entry
<1> QED
  BY <1>1 DEF Overwritten

(* A report that is written leaves entries only. *)
LEMMA WriteTyped ==
  ASSUME TypeOK, NEW r \in Entry, Write(r)
  PROVE  bundle' \subseteq Entry /\ open' \subseteq Entry /\ torn' \in BOOLEAN
<1>1. \A e \in bundle : [e EXCEPT !.last = @ /\ e.name # r.name] \in Entry
  BY DEF TypeOK, Entry
<1>2. Appended(bundle, r) \subseteq Entry
  BY <1>1 DEF Appended
<1> QED
  BY <1>2, OverwrittenTyped DEF Write, Placed, TypeOK

(* A report is an entry of the bundle, its date a day. *)
LEMMA ReportTyped ==
  ASSUME PullTyped, NEW h \in Host, NEW days, Report(h, days)
  PROVE  PullTyped'
<1> DEFINE name == [from |-> cmd.start, to |-> cmd.end]
           r == [host |-> h, name |-> name, days |-> days, last |-> TRUE]
<1>1. cmd \in Cmd /\ today \in Day /\ cmd.start \in Day /\ cmd.end \in Day
  BY DEF Report, PullTyped, TypeOK, Ranged, Cmd
<1>2. days \subseteq cmd.start..cmd.end /\ faults' \in 0..MaxFaults
  BY IlmtAssumption DEF Report, Fetched, Fault, PullTyped, TypeOK, IlmtAssumption
<1>3. days \subseteq Day /\ name \in Name
  BY <1>1, <1>2, IlmtAssumption DEF Name, IlmtAssumption
<1>4. r \in Entry
  BY <1>3 DEF Entry
<1>5. Write(r) /\ cmd' = [cmd EXCEPT !.selected = @ \ {h}, !.records = @ \cup {name}, !.wrote = TRUE,
                                     !.date[h] = today, !.first[h] = Or(@, cmd.start)]
  BY DEF Report
<1>6. Or(cmd.first[h], cmd.start) \in MaybeDay
  BY <1>1 DEF Or, Cmd
<1>7. cmd' \in Cmd
  <2> HIDE DEF name
  <2> QED
    BY <1>1, <1>3, <1>5, <1>6 DEF Cmd
<1>8. cmd'.start = cmd.start /\ cmd'.end = cmd.end /\ cmd'.visit = cmd.visit
  BY <1>1, <1>5 DEF Cmd
<1> HIDE DEF r
<1>9. bundle' \subseteq Entry /\ open' \subseteq Entry /\ torn' \in BOOLEAN
  BY <1>4, <1>5, WriteTyped DEF PullTyped
<1> QED
  BY <1>2, <1>7, <1>8, <1>9 DEF Report, PullTyped, TypeOK, Ranged, file

(* Every step keeps the types. *)
LEMMA PullTypedStep == PullTyped /\ [Next]_vars => PullTyped'
<1> SUFFICES ASSUME PullTyped, [Next]_vars PROVE PullTyped'
  OBVIOUS
<1> USE IlmtAssumption DEF IlmtAssumption
<1>1. CASE Tick
  BY <1>1 DEF Tick, PullTyped, TypeOK, Ranged, file
<1>2. CASE Kill \/ Fatal \/ CompactTorn \/ SaveError
  BY <1>2, NoCmdIsCmd DEF Kill, Fatal, CompactTorn, SaveError, Exit, Fault, PullTyped, TypeOK, Ranged, file
<1>3. CASE StartPull
  <2>1. PICK s \in Given("start"), e \in Given("end"), sel \in Selections : Start(s, e, sel)
    BY <1>3 DEF StartPull
  <2>2. s \in MaybeDay /\ e \in MaybeDay /\ sel \subseteq Host
    BY DEF Given, Selections
  <2>3. cmd' \in Cmd /\ cmd'.visit = Host
    BY <2>1, <2>2 DEF Start, Cmd, PullTyped, TypeOK
  <2> QED
    BY <2>1, <2>3 DEF Start, PullTyped, TypeOK, Ranged, file
<1>4. ASSUME NEW h \in Host, ValidateHost(h) PROVE PullTyped'
  BY <1>4, ValidateTyped
<1>5. ASSUME NEW h \in Host, SkipHost(h) PROVE PullTyped'
  <2>1. cmd' \in Cmd /\ cmd'.visit = cmd.visit /\ cmd'.start = cmd.start /\ cmd'.end = cmd.end
    BY <1>5 DEF SkipHost, PullTyped, TypeOK, Cmd
  <2> QED
    BY <1>5, <2>1 DEF SkipHost, NoClient, Fault, PullTyped, TypeOK, Ranged, file
<1>6. ASSUME NEW h \in Host, PullHost(h) PROVE PullTyped'
  BY <1>6, ReportTyped DEF PullHost
<1>7. CASE ValidateEnd
  BY <1>7 DEF ValidateEnd, PullTyped, TypeOK, Ranged
<1>12. CASE PullEnd
  <2>1. bundle' \subseteq Entry /\ open' \subseteq Entry
    BY <1>12, OverwrittenTyped DEF PullEnd, PullTyped, TypeOK
  <2> QED
    BY <1>12, <2>1 DEF PullEnd, PullTyped, TypeOK, Ranged
<1>8. CASE Compact
  BY <1>8 DEF Compact, Compacted, PullTyped, TypeOK, Ranged, file
<1>9. CASE SaveDates \/ SaveExport
  BY <1>9, NoCmdIsCmd DEF SaveDates, SaveExport, Exit, PullTyped, TypeOK, Ranged, Cmd
<1>10. CASE UNCHANGED vars
  BY <1>10 DEF vars, PullTyped, TypeOK, Ranged
<1> QED
  BY <1>1, <1>2, <1>3, <1>4, <1>5, <1>6, <1>7, <1>8, <1>9, <1>10, <1>12 DEF Next

(* The types hold in every reachable state. *)
LEMMA PullTypedAlways == Spec => []PullTyped
<1>1. QED
  BY PullTypedInit, PullTypedStep, PTL DEF Spec

(* The variables keep their types: what is saved as LastPulldate is a day,  *)
(* and a report covers days of its name (export_pull.go, source_ilmt.go).   *)
THEOREM PullTypesKept == Spec => []TypeOK
<1>1. PullTyped => TypeOK
  BY DEF PullTyped
<1> QED
  BY <1>1, PullTypedAlways, PTL
-----------------------------------------------------------------------------
(* No day is skipped                                                        *)

(* What is known to lose days: a second host, whose report has the same     *)
(* name; a date given on the command line; a day that changes during the    *)
(* pull; an answer that is an error; a stop between the writes.             *)
Undisturbed ==
  /\ \A h, k \in Host : h = k
  /\ Dates = {}
  /\ Midnight = FALSE
  /\ "blank" \notin Faults /\ "tear" \notin Faults

(* The last report of a recorded name holds the day. *)
Holds(b, names, h, x) == \E e \in b : e.host = h /\ e.last /\ e.name \in names /\ x \in e.days

(* Every day between the first and the date is held. *)
Reaches(b, names, f, d) ==
  \A h \in Host : d[h] # None =>
    f[h] # None /\ \A x \in Day : f[h] <= x /\ x < d[h] => Holds(b, names, h, x)

(* A host that is still to be pulled is pulled from its date to yesterday.  *)
NextRange ==
  /\ pc = "validate" /\ cmd.visit = Host => cmd.start = None /\ cmd.end = None
  /\ pc \in {"validate", "pull"} /\ cmd.visit # Host =>
       /\ cmd.end = today - 1
       /\ cmd.start <= cmd.end
       /\ \A h \in cmd.selected : cmd.date[h] # None => cmd.start = cmd.date[h]

(* A host has a first day when it has a date; between the writes the file's *)
(* dates are the new ones.                                                  *)
DatesPaired ==
  /\ pc # "export" => \A h \in Host : date[h] = None <=> first[h] = None
  /\ pc # "idle" => \A h \in Host : cmd.date[h] = None <=> cmd.first[h] = None
  /\ pc = "export" => date = cmd.date /\ first = cmd.first

(* The ranges of the names end before the date. *)
Past(names, d) == \A n \in names : \A h \in Host : d[h] # None /\ n.to < d[h]

PastNames ==
  /\ pc # "export" => Past(records, date)
  /\ pc # "idle" => Past(cmd.records, cmd.date)

(* An entry left open is none of a recorded name.  Once the bundle is torn  *)
(* none is open any more, and nothing is saved.                             *)
OpenUnrecorded ==
  /\ \A e \in open : e.name \notin records
  /\ torn => open = {}
  /\ pc \in {"dates", "export"} => ~torn /\ open = {}

(* Both the file and the memory reach up to their dates, but for the file   *)
(* between its two writes, and the memory when it has torn the bundle.      *)
DaysInv ==
  /\ PullTyped
  /\ NextRange
  /\ DatesPaired
  /\ PastNames
  /\ OpenUnrecorded
  /\ pc # "export" => Reaches(bundle, records, first, date)
  /\ pc # "idle" => /\ records \subseteq cmd.records
                    /\ ~cmd.wrote => cmd.records = records
  /\ pc # "idle" /\ ~torn => Reaches(bundle, cmd.records, cmd.first, cmd.date)

(* The initial state satisfies the invariant. *)
LEMMA DaysInit == Init => DaysInv
BY PullTypedInit DEF Init, DaysInv, DatesPaired, NextRange, PastNames, Past, OpenUnrecorded, Reaches

(* Validate gives the range the host's date, if it has one, and yesterday.  *)
LEMMA ValidateDays ==
  ASSUME Undisturbed, DaysInv, NEW h \in Host, ValidateHost(h)
  PROVE  NextRange'
<1> USE IlmtAssumption DEF IlmtAssumption
<1>1. PICK typed \in MaybeDay :
        LET start == Or(cmd.start, Or(cmd.date[h], typed))
            end == Or(cmd.end, Yesterday)
        IN IF Acceptable(start, end)
             THEN /\ cmd' = [cmd EXCEPT !.start = start, !.end = end, !.visit = @ \ {h}]
                  /\ UNCHANGED pc
             ELSE Exit
  BY DEF ValidateHost
<1> DEFINE start == Or(cmd.start, Or(cmd.date[h], typed))
           end == Or(cmd.end, Yesterday)
<1>2. /\ cmd \in Cmd /\ today \in Day /\ pc = "validate" /\ today' = today
      /\ h \in cmd.visit /\ cmd.visit \subseteq Host
  BY DEF ValidateHost, DaysInv, PullTyped, TypeOK, Cmd
<1>3. cmd.visit = Host
  BY <1>2 DEF Undisturbed
<1>4. cmd.start = None /\ cmd.end = None
  BY <1>2, <1>3 DEF DaysInv, NextRange
<1>5. end = today - 1 /\ (cmd.date[h] # None => start = cmd.date[h])
  BY <1>4 DEF Or, Yesterday
<1>8. Acceptable(start, end) => start <= end
  BY DEF Acceptable
<1>6. CASE Acceptable(start, end)
  <2>1. cmd' = [cmd EXCEPT !.start = start, !.end = end, !.visit = @ \ {h}] /\ pc' = pc
    BY <1>1, <1>6
  <2> HIDE DEF start, end
  <2>2. /\ cmd'.start = start /\ cmd'.end = end /\ cmd'.visit = cmd.visit \ {h}
        /\ cmd'.date = cmd.date /\ cmd'.selected = cmd.selected
    BY <1>2, <2>1 DEF Cmd
  <2>3. \A k \in cmd.selected : k = h
    BY <1>2 DEF Undisturbed, Cmd
  <2>4. cmd'.visit # Host
    BY <2>2
  <2> QED
    BY <1>2, <1>5, <1>6, <1>8, <2>2, <2>3, <2>4 DEF NextRange
<1>7. CASE ~Acceptable(start, end)
  BY <1>1, <1>7 DEF Exit, NextRange
<1> QED
  BY <1>6, <1>7

(* An entry once a report of some name is appended. *)
Older(e, name) == [e EXCEPT !.last = @ /\ e.name # name]

(* It stays what it was, and the last of its name if that is another.       *)
LEMMA OlderEntry ==
  ASSUME NEW e \in Entry, NEW name
  PROVE  /\ Older(e, name).host = e.host
         /\ Older(e, name).name = e.name
         /\ Older(e, name).days = e.days
         /\ e.last /\ e.name # name => Older(e, name).last
BY DEF Older, Entry

(* A report of another name takes no day from those that were held.         *)
LEMMA AppendHolds ==
  ASSUME NEW b \in SUBSET Entry, NEW r, NEW names, r.name \notin names,
         NEW h, NEW x, Holds(b, names, h, x)
  PROVE  Holds(Appended(b, r), names, h, x)
<1>1. PICK e \in b : e.host = h /\ e.last /\ e.name \in names /\ x \in e.days
  BY DEF Holds
<1>2. Older(e, r.name) \in Appended(b, r)
  BY DEF Appended, Older
<1>3. /\ Older(e, r.name).host = h /\ Older(e, r.name).last
      /\ Older(e, r.name).name \in names /\ x \in Older(e, r.name).days
  BY <1>1, OlderEntry
<1> QED
  BY <1>2, <1>3 DEF Holds

(* Nor does a write into open entries of other names. *)
LEMMA OverwriteHolds ==
  ASSUME NEW b, NEW o, NEW names, \A e \in o : e.name \notin names,
         NEW h, NEW x, Holds(b, names, h, x)
  PROVE  Holds(Overwritten(b, o), names, h, x)
<1>1. PICK e \in b : e.host = h /\ e.last /\ e.name \in names /\ x \in e.days
  BY DEF Holds
<1>2. e \in Overwritten(b, o)
  BY <1>1 DEF Overwritten
<1> QED
  BY <1>1, <1>2 DEF Holds

(* An entry that is overwritten keeps its name. *)
LEMMA SpoiltName == ASSUME NEW e \in Entry PROVE Spoilt(e).name = e.name
BY DEF Spoilt, Entry

(* More names hold no less. *)
LEMMA HoldsMore ==
  ASSUME NEW b, NEW names, NEW more, names \subseteq more, NEW h, NEW x, Holds(b, names, h, x)
  PROVE  Holds(b, more, h, x)
BY DEF Holds

(* A report takes the memory's date to today and holds the days up to it,   *)
(* unless it tears the bundle; the file's days are held as before.          *)
LEMMA ReportDays ==
  ASSUME Undisturbed, DaysInv, NEW h \in Host, NEW days, Report(h, days)
  PROVE  DaysInv'
<1> USE IlmtAssumption DEF IlmtAssumption
<1> DEFINE name == [from |-> cmd.start, to |-> cmd.end]
           r == [host |-> h, name |-> name, days |-> days, last |-> TRUE]
<1>1. /\ cmd \in Cmd /\ today \in Day /\ cmd.start \in Day /\ cmd.end \in Day
      /\ pc = "pull" /\ h \in cmd.selected /\ cmd.visit # Host
  BY DEF Report, DaysInv, PullTyped, TypeOK, Ranged, Cmd
<1>2. name \in Name /\ name.from = cmd.start /\ name.to = cmd.end
  BY <1>1 DEF Name
<1>3. days = cmd.start..cmd.end
  BY DEF Report, Fetched, Fault, Undisturbed
<1>4. Write(r) /\ r.host = h /\ r.name = name /\ r.days = cmd.start..cmd.end /\ r.last
  BY <1>3 DEF Report
<1>5. /\ cmd.end = today - 1 /\ cmd.start <= cmd.end
      /\ cmd.date[h] # None => cmd.start = cmd.date[h]
  BY <1>1 DEF DaysInv, NextRange
<1>6. cmd' = [cmd EXCEPT !.selected = @ \ {h}, !.records = @ \cup {name}, !.wrote = TRUE,
                         !.date[h] = today, !.first[h] = Or(@, cmd.start)]
  BY DEF Report
<1>7. UNCHANGED <<today, first, date, records, pc>>
  BY DEF Report
<1>b. bundle \subseteq Entry /\ records \subseteq Name /\ cmd.records \subseteq Name
  BY <1>1 DEF DaysInv, PullTyped, TypeOK, Cmd
<1> HIDE DEF name, r
<1>8. /\ cmd'.selected = cmd.selected \ {h} /\ cmd'.records = cmd.records \cup {name}
      /\ cmd'.date[h] = today /\ cmd'.first[h] = Or(cmd.first[h], cmd.start)
      /\ cmd'.end = cmd.end /\ cmd'.start = cmd.start /\ cmd'.wrote = TRUE
  BY <1>1, <1>6 DEF Cmd
<1>9. \A n \in cmd.records : n.to < cmd.start
  BY <1>1, <1>5 DEF DaysInv, PastNames, Past
<1>n. name \notin cmd.records /\ name \notin records
  <2>1. name \notin cmd.records
    BY <1>1, <1>2, <1>5, <1>9
  <2> QED
    BY <1>1, <2>1 DEF DaysInv
<1>10. PullTyped'
  BY ReportTyped DEF DaysInv
<1>11. cmd'.selected = {}
  BY <1>1, <1>8 DEF Undisturbed, Cmd
<1>12. NextRange'
  BY <1>1, <1>5, <1>7, <1>8, <1>11 DEF NextRange
<1>13. \A x : Holds(bundle, records, h, x) => Holds(bundle', records, h, x)
  <2> SUFFICES ASSUME NEW x, Holds(bundle, records, h, x) PROVE Holds(bundle', records, h, x)
    OBVIOUS
  <2>1. CASE Placed
    <3>1. bundle' = Appended(bundle, r)
      BY <1>4, <2>1 DEF Write
    <3> QED
      BY <1>4, <1>b, <1>n, <3>1, AppendHolds
  <2>2. CASE ~Placed
    <3>1. bundle' = Overwritten(bundle, open)
      BY <1>4, <2>2 DEF Write
    <3>2. \A e \in open : e.name \notin records
      BY DEF DaysInv, OpenUnrecorded
    <3> QED
      BY <3>1, <3>2, OverwriteHolds
  <2> QED
    BY <2>1, <2>2
<1>14. Reaches(bundle, records, first, date)'
  <2> SUFFICES ASSUME NEW k \in Host, date[k] # None
               PROVE  first[k] # None /\ \A x \in Day : first[k] <= x /\ x < date[k]
                                                         => Holds(bundle', records, k, x)
    BY <1>7 DEF Reaches
  <2>1. k = h
    BY DEF Undisturbed
  <2> QED
    BY <1>1, <1>13, <2>1 DEF DaysInv, Reaches
<1>15. ASSUME ~torn' PROVE Reaches(bundle', cmd'.records, cmd'.first, cmd'.date)
  <2>1. Placed /\ bundle' = Appended(bundle, r) /\ ~torn
    BY <1>4, <1>15 DEF Write, Placed
  <2> SUFFICES ASSUME NEW k \in Host
               PROVE  cmd'.first[k] # None /\ \A x \in Day : cmd'.first[k] <= x /\ x < cmd'.date[k]
                                                         => Holds(bundle', cmd'.records, k, x)
    BY DEF Reaches
  <2>2. k = h
    BY DEF Undisturbed
  <2>3. cmd'.first[h] # None
    BY <1>1, <1>8 DEF Or
  <2>4. ASSUME NEW x \in Day, cmd'.first[h] <= x, x < today PROVE Holds(bundle', cmd'.records, h, x)
    <3>1. CASE cmd.start <= x
      <4>1. x \in cmd.start..cmd.end
        BY <1>1, <1>5, <2>4, <3>1
      <4>2. r \in bundle'
        BY <2>1 DEF Appended
      <4> QED
        BY <1>4, <1>8, <4>1, <4>2 DEF Holds
    <3>2. CASE ~(cmd.start <= x)
      <4>1. cmd.first[h] # None
        BY <1>8, <2>4, <3>2 DEF Or
      <4>2. cmd'.first[h] = cmd.first[h]
        BY <1>8, <4>1 DEF Or
      <4>3. cmd.date[h] # None
        BY <1>1, <4>1 DEF DaysInv, DatesPaired
      <4>4. Holds(bundle, cmd.records, h, x)
        BY <1>1, <1>5, <2>1, <2>4, <3>2, <4>2, <4>3 DEF DaysInv, Reaches
      <4>5. Holds(bundle', cmd.records, h, x)
        BY <1>4, <1>b, <1>n, <2>1, <4>4, AppendHolds
      <4> QED
        BY <1>8, <4>5, HoldsMore
    <3> QED
      BY <3>1, <3>2
  <2> QED
    BY <1>8, <2>2, <2>3, <2>4
<1>16. PastNames'
  <2>1. Past(cmd'.records, cmd'.date)
    <3> SUFFICES ASSUME NEW n \in cmd'.records, NEW k \in Host
                 PROVE  cmd'.date[k] # None /\ n.to < cmd'.date[k]
      BY DEF Past
    <3>1. k = h
      BY DEF Undisturbed
    <3>2. CASE n = name
      BY <1>1, <1>2, <1>5, <1>8, <3>1, <3>2
    <3>3. CASE n \in cmd.records
      <4>1. n.to < cmd.start /\ n.to \in Day
        BY <1>9, <1>b, <3>3 DEF Name
      <4> QED
        BY <1>1, <1>5, <1>8, <3>1, <4>1
    <3> QED
      BY <1>8, <3>2, <3>3
  <2> QED
    BY <1>1, <1>7, <2>1 DEF DaysInv, PastNames
<1>17. OpenUnrecorded'
  <2>1. \A e \in open' : e.name \notin records
    BY <1>4, <1>n DEF Write
  <2>2. torn' => open' = {}
    BY <1>4 DEF Write
  <2> QED
    BY <1>1, <1>7, <2>1, <2>2 DEF OpenUnrecorded
<1>18. records' \subseteq cmd'.records
  BY <1>1, <1>7, <1>8 DEF DaysInv
<1>19. DatesPaired'
  <2>1. \A k \in Host : k = h
    BY DEF Undisturbed
  <2>2. cmd'.date[h] # None /\ cmd'.first[h] # None
    BY <1>1, <1>8 DEF Or
  <2> QED
    BY <1>1, <1>7, <2>1, <2>2 DEF DaysInv, DatesPaired
<1> QED
  BY <1>1, <1>7, <1>8, <1>10, <1>12, <1>14, <1>15, <1>16, <1>17, <1>18, <1>19 DEF DaysInv

(* Close keeps the days that are held, those of an open entry being none of *)
(* them.                                                                    *)
LEMMA CloseDays == ASSUME DaysInv, PullEnd PROVE DaysInv'
<1>t. PullTyped'
  BY PullTypedStep DEF DaysInv, Next
<1>1. UNCHANGED <<today, first, date, records, cmd, torn>> /\ pc = "pull" /\ pc' = "compact"
  BY DEF PullEnd
<1>2. CASE cmd.wrote
  <2>1. bundle' = bundle /\ open' = {}
    BY <1>2 DEF PullEnd
  <2> QED
    BY <1>t, <1>1, <2>1 DEF DaysInv, DatesPaired, NextRange, PastNames, OpenUnrecorded, PullTyped, Ranged
<1>3. CASE ~cmd.wrote
  <2>1. bundle' = Overwritten(bundle, open) /\ open' = {Spoilt(e) : e \in open}
    BY <1>3 DEF PullEnd
  <2>2. \A e \in open' : e.name \notin records
    BY <2>1, SpoiltName DEF DaysInv, OpenUnrecorded, PullTyped, TypeOK
  <2>3. OpenUnrecorded'
    BY <1>1, <2>1, <2>2 DEF DaysInv, OpenUnrecorded
  <2>4. \A h, x : Holds(bundle, records, h, x) => Holds(bundle', records, h, x)
    BY <2>1, OverwriteHolds DEF DaysInv, OpenUnrecorded
  <2>5. cmd.records = records
    BY <1>1, <1>3 DEF DaysInv
  <2>6. Reaches(bundle', records, first, date)
    BY <1>1, <2>4 DEF DaysInv, Reaches
  <2>7. ~torn => Reaches(bundle', cmd.records, cmd.first, cmd.date)
    BY <1>1, <2>4, <2>5 DEF DaysInv, Reaches
  <2> QED
    BY <1>t, <1>1, <2>3, <2>5, <2>6, <2>7
    DEF DaysInv, DatesPaired, NextRange, PastNames, PullTyped, Ranged
<1> QED
  BY <1>2, <1>3

(* Every step keeps the invariant. *)
LEMMA DaysStep == Undisturbed /\ DaysInv /\ [Next]_vars => DaysInv'
<1> SUFFICES ASSUME Undisturbed, DaysInv, [Next]_vars PROVE DaysInv'
  OBVIOUS
<1>t. PullTyped'
  BY PullTypedStep DEF DaysInv
<1>1. CASE Tick
  BY <1>1, <1>t DEF Tick, Undisturbed, DaysInv, DatesPaired, NextRange, PastNames, OpenUnrecorded
<1>2. CASE Kill \/ Fatal \/ CompactTorn \/ SaveError
  <2>1. pc # "export" /\ pc' = "idle" /\ UNCHANGED <<first, date, records, bundle, open, torn>>
    BY <1>2 DEF Kill, Fatal, CompactTorn, SaveError, Exit, Fault, Undisturbed
  <2> QED
    BY <1>t, <2>1 DEF DaysInv, DatesPaired, NextRange, PastNames, OpenUnrecorded
<1>3. CASE StartPull
  <2>1. PICK s \in Given("start"), e \in Given("end"), sel \in Selections : Start(s, e, sel)
    BY <1>3 DEF StartPull
  <2>2. s = None /\ e = None
    BY DEF Given, Undisturbed
  <2> QED
    BY <1>t, <2>1, <2>2 DEF Start, DaysInv, DatesPaired, NextRange, PastNames, OpenUnrecorded
<1>4. ASSUME NEW h \in Host, ValidateHost(h) PROVE DaysInv'
  <2>1. NextRange'
    BY <1>4, ValidateDays
  <2>2. UNCHANGED <<first, date, records, bundle, open, torn>> /\ pc = "validate"
    BY <1>4 DEF ValidateHost, file
  <2>3. pc' # "idle" => UNCHANGED <<cmd.records, cmd.first, cmd.date, cmd.wrote>>
    BY <1>4 DEF ValidateHost, Exit, DaysInv, PullTyped, TypeOK, Cmd
  <2>4. pc' \in {"idle", "validate"}
    BY <1>4 DEF ValidateHost, Exit
  <2> QED
    BY <1>t, <2>1, <2>2, <2>3, <2>4 DEF DaysInv, DatesPaired, PastNames, OpenUnrecorded
<1>5. ASSUME NEW h \in Host, SkipHost(h) PROVE DaysInv'
  <2>1. /\ cmd'.selected \subseteq cmd.selected
        /\ UNCHANGED <<cmd.visit, cmd.start, cmd.end, cmd.records, cmd.first, cmd.date, cmd.wrote>>
    BY <1>5 DEF SkipHost, DaysInv, PullTyped, TypeOK, Cmd
  <2>2. UNCHANGED <<today, first, date, records, bundle, open, torn, pc>>
    BY <1>5 DEF SkipHost, file
  <2> QED
    BY <1>t, <2>1, <2>2 DEF DaysInv, DatesPaired, NextRange, PastNames, OpenUnrecorded
<1>6. ASSUME NEW h \in Host, PullHost(h) PROVE DaysInv'
  BY <1>6, ReportDays DEF PullHost
<1>7. CASE ValidateEnd
  BY <1>7, <1>t
  DEF ValidateEnd, DaysInv, DatesPaired, NextRange, PastNames, OpenUnrecorded, PullTyped, Ranged
<1>12. CASE PullEnd
  BY <1>12, CloseDays
<1>8. CASE Compact
  <2>1. bundle' = {e \in bundle : e.last /\ e.name \in cmd.records}
    BY <1>8 DEF Compact, Compacted
  <2>2. \A names, h, x : names \subseteq cmd.records /\ Holds(bundle, names, h, x)
                           => Holds(bundle', names, h, x)
    BY <2>1 DEF Holds
  <2>3. /\ UNCHANGED <<first, date, records, cmd>> /\ pc = "compact" /\ pc' = "dates"
        /\ ~torn /\ ~torn' /\ open' = {}
    BY <1>8 DEF Compact, DaysInv, PullTyped, TypeOK
  <2>4. Reaches(bundle, records, first, date)' /\ Reaches(bundle, cmd.records, cmd.first, cmd.date)'
    BY <2>2, <2>3 DEF DaysInv, Reaches
  <2> QED
    BY <1>t, <2>1, <2>3, <2>4 DEF DaysInv, DatesPaired, NextRange, PastNames, OpenUnrecorded
<1>9. CASE SaveDates
  BY <1>9, <1>t DEF SaveDates, DaysInv, DatesPaired, NextRange, PastNames, OpenUnrecorded
<1>10. CASE SaveExport
  BY <1>10, <1>t
  DEF SaveExport, Exit, DaysInv, DatesPaired, NextRange, PastNames, OpenUnrecorded, Reaches
<1>11. CASE UNCHANGED vars
  BY <1>11, <1>t DEF vars, DaysInv, DatesPaired, NextRange, PastNames, OpenUnrecorded
<1> QED
  BY <1>1, <1>2, <1>3, <1>4, <1>5, <1>6, <1>7, <1>8, <1>9, <1>10, <1>11, <1>12 DEF Next

(* A host's date never moves past a day that no recorded report of it       *)
(* holds, whatever is selected, fails or is repeated, if nothing disturbs   *)
(* the pulls (Validate, Run and IlmtPullBase of export_pull.go).            *)
THEOREM DaysKept == Undisturbed => (Spec => []NoDaySkipped)
<1> SUFFICES ASSUME Undisturbed PROVE Spec => []NoDaySkipped
  OBVIOUS
<1>1. DaysInv /\ [Next]_vars => DaysInv'
  BY DaysStep
<1>2. DaysInv => NoDaySkipped
  BY IlmtAssumption
  DEF DaysInv, PullTyped, TypeOK, Reaches, Holds, NoDaySkipped, Covered, IlmtAssumption
<1> QED
  BY <1>1, <1>2, DaysInit, PTL DEF Spec
==============================================================================
