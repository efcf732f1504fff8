----------------------------- MODULE Reminders ------------------------------
(***************************************************************************)
(* Texts that a vehicle is due for maintenance, swept by the worker.       *)
(* Source: assets/maintenance-service.ts, scripts/run-worker.ts,           *)
(* integrations/sms/sms-service.ts.                                        *)
(*                                                                         *)
(* A sweep lists the schedules that are due and were not reminded within   *)
(* the cooldown, texts one customer after the other and stamps each        *)
(* schedule after its text.  Nothing keeps a timer from starting a sweep   *)
(* while another one runs, of this process or of another.                  *)
(***************************************************************************)
EXTENDS Integers

CONSTANTS
  Schedules,
  Sweeps,      \* sweeps that may run at once
  NoSchedule,
  Interval,    \* intervalMonths, on the clock of the model
  Cooldown,    \* pmReminderCooldownDays, likewise
  MaxTime,     \* bound of the clock
  MaxFaults    \* bound: faults after a text, overlaps, of a schedule

ASSUME RemindersAssumption ==
  /\ NoSchedule \notin Schedules
  /\ Interval \in Nat \ {0} /\ Cooldown \in Nat \ {0}
  /\ MaxTime \in Nat /\ MaxFaults \in Nat

VARIABLES
  time,
  existing,    \* maintenance_schedules
  deleted,
  serviced,    \* last_serviced_at, or Never
  reminded,    \* last_reminded_at, or Never
  worn,        \* schedules whose mileage is due or nearly so
  began,       \* what a sweep takes for the time, or Never if it does not run
  targets,     \* the schedules it has still to text
  texted,      \* the one it has texted and not yet stamped
  lastText,    \* history: the last text since the last service, or Never
  repeats,     \* texts within the cooldown of the last one
  faults,      \* texts whose stamp failed
  overlaps     \* sweeps that listed what another one was about to text

scheduleVars == <<existing, deleted, serviced, reminded, worn>>
sweepVars == <<began, targets, texted>>
historyVars == <<lastText, repeats, faults, overlaps>>
reminderVars == <<time, scheduleVars, sweepVars, historyVars>>

Never == -1

RemindersInit ==
  /\ time = 0
  /\ existing = {} /\ deleted = {} /\ worn = {}
  /\ serviced = [s \in Schedules |-> Never]
  /\ reminded = [s \in Schedules |-> Never]
  /\ began = [w \in Sweeps |-> Never]
  /\ targets = [w \in Sweeps |-> {}]
  /\ texted = [w \in Sweeps |-> NoSchedule]
  /\ lastText = [s \in Schedules |-> Never]
  /\ repeats = [s \in Schedules |-> 0]
  /\ faults = [s \in Schedules |-> 0]
  /\ overlaps = [s \in Schedules |-> 0]

Tick ==
  /\ time < MaxTime
  /\ time' = time + 1
  /\ UNCHANGED <<scheduleVars, sweepVars, historyVars>>

-----------------------------------------------------------------------------
(* Schedules. *)

CreateSchedule(s) ==
  /\ s \notin existing \cup deleted
  /\ existing' = existing \cup {s}
  /\ \E t \in 0..time \cup {Never} : serviced' = [serviced EXCEPT ![s] = t]
  /\ UNCHANGED <<time, deleted, reminded, worn, sweepVars, historyVars>>

\* With the mileage, if it is given.
MarkServiced(s) ==
  /\ s \in existing
  /\ serviced' = [serviced EXCEPT ![s] = time]
  /\ reminded' = [reminded EXCEPT ![s] = Never]
  /\ worn' \in {worn, worn \ {s}}
  /\ lastText' = [lastText EXCEPT ![s] = Never]
  /\ UNCHANGED <<time, existing, deleted, sweepVars, repeats, faults, overlaps>>

DeleteSchedule(s) ==
  /\ s \in existing
  /\ existing' = existing \ {s}
  /\ deleted' = deleted \cup {s}
  /\ UNCHANGED <<time, serviced, reminded, worn, sweepVars, historyVars>>

\* recordAssetMileage, and the service of another schedule of the vehicle.
RecordMileage(s) ==
  /\ s \in existing
  /\ worn' \in {worn \cup {s}, worn \ {s}}
  /\ UNCHANGED <<time, existing, deleted, serviced, reminded, sweepVars, historyVars>>

-----------------------------------------------------------------------------
(* Sweeps. *)

\* evaluateDueState, and due_soon from nine tenths of the interval.
Due(s, t) ==
  \/ s \in worn
  \/ serviced[s] # Never /\ 10 * (t - serviced[s]) >= 9 * Interval

\* Mutant: a cooldown in the wrong unit.
RecentlyShort(s, t) == reminded[s] # Never /\ 2 * reminded[s] > 2 * t - Cooldown

\* The cutoff of findDueForReminders.
Recently(s, t) == reminded[s] # Never /\ reminded[s] > t - Cooldown

\* The timer fires; the appointments' texts come first.
BeginSweep(w) ==
  /\ began[w] = Never
  /\ began' = [began EXCEPT ![w] = time]
  /\ UNCHANGED <<time, scheduleVars, targets, texted, historyVars>>

\* findDueForReminders, with the time at which the sweep began.  Schedules beyond
\* the first 500 wait for another sweep: there are fewer here.
FindDueForReminders(w) ==
  LET found == {s \in existing : Due(s, began[w]) /\ ~Recently(s, began[w])}
      held(s) == \E v \in Sweeps : s \in targets[v]
  IN  /\ began[w] # Never /\ targets[w] = {} /\ found # {}
      /\ \A s \in found : held(s) => overlaps[s] < MaxFaults
      /\ targets' = [targets EXCEPT ![w] = found]
      /\ overlaps' = [s \in Schedules |->
                        IF s \in found /\ held(s) THEN overlaps[s] + 1 ELSE overlaps[s]]
      /\ UNCHANGED <<time, scheduleVars, began, texted, lastText, repeats, faults>>

\* sendPmReminder: sendCustomerSms ...
SendText(w) ==
  \E s \in targets[w] :
    /\ texted[w] = NoSchedule
    /\ texted' = [texted EXCEPT ![w] = s]
    /\ lastText' = [lastText EXCEPT ![s] = time]
    /\ repeats' = IF lastText[s] # Never /\ time < lastText[s] + Cooldown
                  THEN [repeats EXCEPT ![s] = @ + 1] ELSE repeats
    /\ UNCHANGED <<time, scheduleVars, began, targets, faults, overlaps>>

\* The sweep goes on, or has come to its end.
Proceed(w, rest) ==
  /\ targets' = [targets EXCEPT ![w] = rest]
  /\ began' = [began EXCEPT ![w] = IF rest = {} THEN Never ELSE @]
  /\ texted' = [texted EXCEPT ![w] = NoSchedule]

\* ... and the stamp; it fails, and is caught, if the schedule is gone.
StampReminder(w) ==
  /\ texted[w] # NoSchedule
  /\ reminded' = IF texted[w] \in existing
                 THEN [reminded EXCEPT ![texted[w]] = time] ELSE reminded
  /\ Proceed(w, targets[w] \ {texted[w]})
  /\ UNCHANGED <<time, existing, deleted, serviced, worn, historyVars>>

\* No text is sent: no provider, no valid number, a refusal.
FailToText(w) ==
  /\ texted[w] = NoSchedule
  /\ \E s \in targets[w] : Proceed(w, targets[w] \ {s})
  /\ UNCHANGED <<time, scheduleVars, historyVars>>

\* The text went out and its record or the stamp fails, or the process dies;
\* a sweep that finds nothing ends, one whose process dies ends anywhere.
FailSweep(w) ==
  /\ began[w] # Never
  /\ IF texted[w] = NoSchedule
     THEN /\ Proceed(w, {})
          /\ UNCHANGED faults
     ELSE /\ faults[texted[w]] < MaxFaults
          /\ Proceed(w, {}) \/ Proceed(w, targets[w] \ {texted[w]})
          /\ faults' = [faults EXCEPT ![texted[w]] = @ + 1]
  /\ UNCHANGED <<time, scheduleVars, lastText, repeats, overlaps>>

RemindersNext ==
  \/ Tick
  \/ \E s \in Schedules :
       CreateSchedule(s) \/ MarkServiced(s) \/ DeleteSchedule(s) \/ RecordMileage(s)
  \/ \E w \in Sweeps :
       \/ BeginSweep(w) \/ FindDueForReminders(w) \/ SendText(w)
       \/ StampReminder(w) \/ FailToText(w) \/ FailSweep(w)

RemindersSpec == RemindersInit /\ [][RemindersNext]_reminderVars

-----------------------------------------------------------------------------
(* Properties. *)

Times == 0..MaxTime \cup {Never}

\* The columns, what the sweeps remember and the history.
RemindersTypeOK ==
  /\ time \in 0..MaxTime
  /\ existing \subseteq Schedules /\ deleted \subseteq Schedules /\ worn \subseteq Schedules
  /\ serviced \in [Schedules -> Times] /\ reminded \in [Schedules -> Times]
  /\ began \in [Sweeps -> Times]
  /\ targets \in [Sweeps -> SUBSET Schedules]
  /\ texted \in [Sweeps -> Schedules \cup {NoSchedule}]
  /\ lastText \in [Schedules -> Times]
  /\ repeats \in [Schedules -> Nat]
  /\ faults \in [Schedules -> 0..MaxFaults] /\ overlaps \in [Schedules -> 0..MaxFaults]

\* Customers are not texted again within the cooldown ("idempotent per 30 days"):
\* each text too many is paid for by a fault between a text and its stamp or by
\* a sweep that overlapped another one, whatever is serviced, driven or deleted
\* while sweeps run and however old the time is that they go by.
RemindersSpaced == \A s \in Schedules : repeats[s] <= faults[s] + overlaps[s]
=============================================================================
