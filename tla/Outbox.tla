------------------------------- MODULE Outbox -------------------------------
(***************************************************************************)
(* The transactional outbox: business transactions insert rows in          *)
(* outbox_events, and the drains of one or more worker processes claim     *)
(* them in batches, run the handler of each event and settle the row.      *)
(* Source: src/modules/outbox/ and scripts/run-worker.ts.                  *)
(*                                                                         *)
(* Every database statement of a drain is a step of its own, so two drains *)
(* interleave between any two statements.  Time is relative: due[e] is     *)
(* available_at - now() of row e, and Tick makes one unit pass.            *)
(***************************************************************************)
EXTENDS Integers, FiniteSets

CONSTANTS
  Events,       \* bound: ids for the rows of outbox_events
  Workers,      \* drains that may be in flight at once, of any process
  Orgs,         \* organizations
  OrgOf,        \* the organization_id of each row
  NoEvent,      \* "no current row"
  BatchSize,    \* OUTBOX_BATCH_SIZE
  MaxAttempts,  \* maxAttempts
  Lease,        \* leaseMs, in ticks
  BackoffBase,  \* backoffBaseSeconds, in ticks
  MaxAge,       \* bound: an overdue row ages no further than this
  MaxFaults,    \* bound: database errors and process crashes
  EffectCap,    \* bound: the ghost counters saturate here
  Overrun       \* may a drain still be running when its lease runs out?

ASSUME OutboxAssumption ==
  /\ NoEvent \notin Events
  /\ OrgOf \in [Events -> Orgs]
  /\ BatchSize \in Nat \ {0}
  /\ MaxAttempts \in Nat \ {0}
  /\ Lease \in Nat \ {0}
  /\ \A n \in 0..MaxAttempts : BackoffBase * 2^n \in Nat
  /\ MaxAge \in Nat
  /\ MaxFaults \in Nat
  /\ EffectCap \in Nat
  /\ Overrun \in BOOLEAN

VARIABLES
  (* Columns of outbox_events and organizations. *)
  enqueued,     \* rows committed by a business transaction
  published,    \* rows with published_at set
  attempts,     \* attempts
  due,          \* available_at - now()
  dead,         \* payload.dispatchError, or "none"
  suspended,    \* organizations whose status is SUSPENDED
  (* Local state of each drain. *)
  pc,           \* the statement the drain executes next
  held,         \* claimed rows the drain has not settled yet
  cur,          \* the row of the batch being dispatched
  seen,         \* attempts of the claimed rows, as read by the claim
  (* History. *)
  lease,        \* what is left of the drain's lease
  effects,      \* how often the side effect of each event took place
  failures,     \* failed dispatches of each event
  faults        \* database errors and crashes so far

rowVars == <<enqueued, published, attempts, due, dead>>
drainVars == <<pc, held, cur, seen, lease>>
ghostVars == <<effects, failures, faults>>
vars == <<rowVars, suspended, drainVars, ghostVars>>

-----------------------------------------------------------------------------

Pending == enqueued \ published
Ready == {e \in Pending : due[e] <= 0}

\* How far the retry of a row read with n attempts is pushed back.
Backoff(n) == BackoffBase * 2^n

Bump(n) == IF n < EffectCap THEN n + 1 ELSE n

\* Mutants: the dead letter one failure early, or never.
LastAttemptTooEarly(n) == n + 2 >= MaxAttempts
LastAttemptNever(n) == FALSE

\* Is the failure of a row read with n attempts its last?
LastAttempt(n) == n + 1 >= MaxAttempts

\* Mutant: the failure is not counted.
NextAttemptsSame(n) == n

NextAttempts(n) == n + 1

\* Mutant: the claim takes no lease.
HiddenNot(b) == due

\* available_at of all rows once the rows of b are claimed.
Hidden(b) == [e \in Events |-> IF e \in b THEN Lease ELSE due[e]]

\* Mutants: the claim forgets available_at <= now(), or published_at IS NULL.
OldestFirstHidden(b) ==
  b \subseteq Pending /\ Cardinality(b) <= BatchSize

OldestFirstPublished(b) ==
  b \subseteq {e \in enqueued : due[e] <= 0} /\ Cardinality(b) <= BatchSize

\* WHERE published_at IS NULL AND available_at <= now()
\* ORDER BY available_at LIMIT batchSize, ties in any order.
OldestFirst(b) ==
  /\ b \subseteq Ready
  /\ Cardinality(b) =
       IF Cardinality(Ready) < BatchSize THEN Cardinality(Ready) ELSE BatchSize
  /\ \A e \in b, r \in Ready \ b : due[e] <= due[r]

Init ==
  /\ enqueued = {}
  /\ published = {}
  /\ attempts = [e \in Events |-> 0]
  /\ due = [e \in Events |-> 0]
  /\ dead = [e \in Events |-> "none"]
  /\ suspended = {}
  /\ pc = [w \in Workers |-> "idle"]
  /\ held = [w \in Workers |-> {}]
  /\ cur = [w \in Workers |-> NoEvent]
  /\ seen = [w \in Workers |-> [e \in Events |-> 0]]
  /\ lease = [w \in Workers |-> 0]
  /\ effects = [e \in Events |-> 0]
  /\ failures = [e \in Events |-> 0]
  /\ faults = 0

-----------------------------------------------------------------------------
(* Producers and the platform console. *)

\* A business transaction commits with its outbox row (available at once).
Enqueue(e) ==
  /\ e \notin enqueued
  /\ enqueued' = enqueued \cup {e}
  /\ UNCHANGED <<published, attempts, due, dead, suspended, drainVars, ghostVars>>

\* A platform operator suspends an organization or reactivates it, which is
\* itself an event of that organization.
ChangeOrganizationStatus(o) ==
  /\ suspended' = IF o \in suspended THEN suspended \ {o} ELSE suspended \cup {o}
  /\ \E e \in Events \ enqueued :
       /\ OrgOf[e] = o
       /\ enqueued' = enqueued \cup {e}
  /\ UNCHANGED <<published, attempts, due, dead, drainVars, ghostVars>>

-----------------------------------------------------------------------------
(* One drain (drainOnce).  A drain that has settled its whole batch is idle *)
(* again: the next poll of the same interval timer.                         *)

\* claimAndHideBatch: the rows are locked, hidden for a lease and read in one
\* transaction; rows locked by another claim are skipped.
Claim(w) ==
  /\ pc[w] = "idle"
  /\ \E b \in SUBSET Events :
       /\ b # {}
       /\ OldestFirst(b)
       /\ held' = [held EXCEPT ![w] = b]
       /\ seen' = [seen EXCEPT ![w] =
                     [e \in Events |-> IF e \in b THEN attempts[e] ELSE 0]]
       /\ due' = Hidden(b)
  /\ lease' = [lease EXCEPT ![w] = Lease]
  /\ pc' = [pc EXCEPT ![w] = "next"]
  /\ UNCHANGED <<enqueued, published, attempts, dead, suspended, cur, ghostVars>>

\* The next row of the batch: revalidateJobTenantContext reads the status of
\* its organization.
Revalidate(w) ==
  /\ pc[w] = "next"
  /\ \E e \in held[w] :
       /\ cur' = [cur EXCEPT ![w] = e]
       /\ pc' = [pc EXCEPT ![w] =
                   IF OrgOf[e] \in suspended THEN "skip" ELSE "handle"]
  /\ UNCHANGED <<rowVars, suspended, held, seen, lease, ghostVars>>

\* The handler ran to its end.
HandlerReturns(w) ==
  /\ pc[w] = "handle"
  /\ effects' = [effects EXCEPT ![cur[w]] = Bump(@)]
  /\ pc' = [pc EXCEPT ![w] = "publish"]
  /\ UNCHANGED <<rowVars, suspended, held, cur, seen, lease, failures, faults>>

\* The handler threw, before its side effect or after it (the mail went out
\* and the activity row could not be written).
HandlerThrows(w) ==
  /\ pc[w] = "handle"
  /\ \/ UNCHANGED effects
     \/ effects' = [effects EXCEPT ![cur[w]] = Bump(@)]
  /\ pc' = [pc EXCEPT ![w] = "fail"]
  /\ UNCHANGED <<rowVars, suspended, held, cur, seen, lease, failures, faults>>

\* The drain is done with its current row; the loop goes on or ends.
Settle(w) ==
  /\ held' = [held EXCEPT ![w] = @ \ {cur[w]}]
  /\ cur' = [cur EXCEPT ![w] = NoEvent]
  /\ pc' = [pc EXCEPT ![w] = IF held[w] = {cur[w]} THEN "idle" ELSE "next"]
  /\ seen' = [seen EXCEPT ![w][cur[w]] = 0]
  /\ lease' = [lease EXCEPT ![w] = IF held[w] = {cur[w]} THEN 0 ELSE @]

\* Mutant: published_at is not written.
MarkPublishedLost(w) ==
  /\ pc[w] = "publish"
  /\ Settle(w)
  /\ UNCHANGED <<enqueued, published, attempts, due, dead, suspended, ghostVars>>

MarkPublished(w) ==
  /\ pc[w] = "publish"
  /\ published' = published \cup {cur[w]}
  /\ Settle(w)
  /\ UNCHANGED <<enqueued, attempts, due, dead, suspended, ghostVars>>

\* Mutant: no dispatchError is merged into the payload.
DeadLetterSilently(e, reason) ==
  /\ published' = published \cup {e}
  /\ attempts' = [attempts EXCEPT ![e] = MaxAttempts]
  /\ UNCHANGED dead

\* The one statement of markDeadLettered.
DeadLetter(e, reason) ==
  /\ published' = published \cup {e}
  /\ attempts' = [attempts EXCEPT ![e] = MaxAttempts]
  /\ dead' = [dead EXCEPT ![e] = reason]

\* The organization is suspended: dead-lettered at once, no retry.
MarkSkipped(w) ==
  /\ pc[w] = "skip"
  /\ DeadLetter(cur[w], "organization_suspended")
  /\ Settle(w)
  /\ UNCHANGED <<enqueued, due, suspended, ghostVars>>

\* handleFailure, last attempt: the row is dead-lettered.
MarkDeadLettered(w) ==
  /\ pc[w] = "fail"
  /\ LastAttempt(seen[w][cur[w]])
  /\ DeadLetter(cur[w], "max_attempts_exceeded")
  /\ failures' = [failures EXCEPT ![cur[w]] = Bump(@)]
  /\ Settle(w)
  /\ UNCHANGED <<enqueued, due, suspended, effects, faults>>

\* handleFailure, earlier attempts: attempts and available_at are overwritten
\* with values computed from the row as it was when claimed.
MarkRetry(w) ==
  /\ pc[w] = "fail"
  /\ ~LastAttempt(seen[w][cur[w]])
  /\ attempts' = [attempts EXCEPT ![cur[w]] = NextAttempts(seen[w][cur[w]])]
  /\ due' = [due EXCEPT ![cur[w]] = Backoff(seen[w][cur[w]])]
  /\ failures' = [failures EXCEPT ![cur[w]] = Bump(@)]
  /\ Settle(w)
  /\ UNCHANGED <<enqueued, published, dead, suspended, effects, faults>>

\* A database error inside the try block of dispatchRow (reading the
\* organization or setting published_at): treated as a failed dispatch.
DispatchError(w) ==
  /\ faults < MaxFaults
  /\ \/ pc[w] = "publish" /\ UNCHANGED cur
     \/ pc[w] = "next" /\ \E e \in held[w] : cur' = [cur EXCEPT ![w] = e]
  /\ pc' = [pc EXCEPT ![w] = "fail"]
  /\ faults' = faults + 1
  /\ UNCHANGED <<rowVars, suspended, held, seen, lease, effects, failures>>

\* The drain ends early: the process crashes or is stopped, or a statement of
\* the catch block fails and drainOnce rejects.  What it held stays claimed.
Abandon(w) ==
  /\ pc[w] # "idle"
  /\ faults < MaxFaults
  /\ pc' = [pc EXCEPT ![w] = "idle"]
  /\ held' = [held EXCEPT ![w] = {}]
  /\ cur' = [cur EXCEPT ![w] = NoEvent]
  /\ seen' = [seen EXCEPT ![w] = [e \in Events |-> 0]]
  /\ lease' = [lease EXCEPT ![w] = 0]
  /\ faults' = faults + 1
  /\ UNCHANGED <<rowVars, suspended, effects, failures>>

\* One unit of time.  Unless Overrun, handlers are quick enough for a drain to
\* be over before its lease is.
Tick ==
  /\ Overrun \/ \A w \in Workers : pc[w] # "idle" => lease[w] > 1
  /\ due' = [e \in Events |->
               IF e \in enqueued /\ due[e] > -MaxAge THEN due[e] - 1 ELSE due[e]]
  /\ lease' = [w \in Workers |-> IF lease[w] > 0 THEN lease[w] - 1 ELSE 0]
  /\ UNCHANGED <<enqueued, published, attempts, dead, suspended,
                 pc, held, cur, seen, ghostVars>>

Drain(w) ==
  \/ Claim(w)
  \/ Revalidate(w)
  \/ HandlerReturns(w)
  \/ HandlerThrows(w)
  \/ MarkPublished(w)
  \/ MarkSkipped(w)
  \/ MarkDeadLettered(w)
  \/ MarkRetry(w)

Next ==
  \/ \E e \in Events : Enqueue(e)
  \/ \E o \in Orgs : ChangeOrganizationStatus(o)
  \/ \E w \in Workers : Drain(w)
  \/ \E w \in Workers : DispatchError(w)
  \/ \E w \in Workers : Abandon(w)
  \/ Tick

Spec == Init /\ [][Next]_vars

\* The poll timer keeps firing, statements and handlers end, time passes.
Fairness ==
  /\ WF_vars(Tick)
  /\ \A w \in Workers : WF_vars(Drain(w))

FairSpec == Spec /\ Fairness

-----------------------------------------------------------------------------
(* Properties. *)

\* Types: the columns of outbox_events, the state of each drain, the history.
TypeOK ==
  /\ enqueued \subseteq Events
  /\ published \subseteq Events
  /\ attempts \in [Events -> 0..MaxAttempts]
  /\ due \in [Events -> Int]
  /\ dead \in [Events -> {"none", "organization_suspended", "max_attempts_exceeded"}]
  /\ suspended \subseteq Orgs
  /\ pc \in [Workers -> {"idle", "next", "skip", "handle", "publish", "fail"}]
  /\ held \in [Workers -> SUBSET Events]
  /\ cur \in [Workers -> Events \cup {NoEvent}]
  /\ seen \in [Workers -> [Events -> 0..MaxAttempts]]
  /\ lease \in [Workers -> 0..Lease]
  /\ effects \in [Events -> 0..EffectCap]
  /\ failures \in [Events -> 0..EffectCap]
  /\ faults \in 0..MaxFaults

\* A drain in the middle of a dispatch works on a row of its own batch, and an
\* idle one holds nothing (part of the inductive invariant of OutboxProofs).
CurrentIsHeld ==
  \A w \in Workers :
    /\ (pc[w] = "idle") <=> (held[w] = {})
    /\ pc[w] \in {"skip", "handle", "publish", "fail"} => cur[w] \in held[w]

\* Two drains never work on the same row ("multiple worker processes can drain
\* concurrently without collision"), provided no drain overruns its lease.
NoCollision ==
  \A v, w \in Workers : v # w => held[v] \cap held[w] = {}

\* What a drain knows of the rows it holds: they are unpublished and hidden for
\* as long as its lease runs, and their attempts are still what the claim read.
ClaimHolds ==
  \A w \in Workers : \A e \in held[w] :
    /\ e \in Pending
    /\ 1 <= lease[w] /\ lease[w] <= due[e]
    /\ seen[w][e] = attempts[e]

\* A drain never dispatches what another one holds or has settled: claims do not
\* overlap, and the claimed rows stay as they were read until the drain ends.
DrainsAreExclusive == NoCollision /\ ClaimHolds

\* No event is given up as poison before maxAttempts dispatches of it failed,
\* also when stale drains overwrite attempts.
DeadLetterJustified ==
  \A e \in Events :
    dead[e] = "max_attempts_exceeded" => failures[e] >= MaxAttempts

\* Delivery is at least once and no more often than the faults explain.  A row
\* leaves the queue as published only after its handler ran, every other way out
\* is recorded as a dead letter; and every repetition of a side effect is paid
\* for by a failed dispatch of the event or by a crash or database error.
EffectsExplained ==
  \A e \in Events :
    /\ e \in published /\ dead[e] = "none" => effects[e] >= 1
    /\ effects[e] <= 1 + failures[e] + faults

\* attempts only grows ("On failure the row's attempts is incremented").
AttemptsNeverRegress ==
  [][\A e \in Events : attempts'[e] >= attempts[e]]_vars

\* Every committed event is settled in the end, whatever its handler does and
\* wherever workers crash: no poison message and no lost lease blocks it.
EventuallySettled ==
  \A e \in Events : (e \in enqueued) ~> (e \in published)

\* What business transactions may rely on: the at-least-once promise.
Promise == INSTANCE OutboxPromise WITH
  status <- [e \in Events |->
               IF e \notin enqueued THEN "absent"
               ELSE IF e \notin published THEN "pending"
               ELSE IF dead[e] = "none" THEN "delivered" ELSE "dead"],
  ran <- [e \in Events |-> effects[e] > 0]

ImplementsPromise == Promise!Spec
=============================================================================
