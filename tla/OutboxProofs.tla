---------------------------- MODULE OutboxProofs ----------------------------
(***************************************************************************)
(* Proofs about Outbox for any number of rows, drains and attempts.        *)
(*                                                                         *)
(* TypeInv is inductive whatever the drains' speed.  DrainInv is inductive *)
(* when no drain outlives its lease (~Overrun): a claim only takes rows    *)
(* that are due, a held row is not due while the lease runs, so no second  *)
(* claim reaches it and the attempts read by the claim stay current.       *)
(***************************************************************************)
EXTENDS Outbox, TLAPS

TypeInv == TypeOK /\ CurrentIsHeld

DrainInv == TypeInv /\ ClaimHolds /\ NoCollision

-----------------------------------------------------------------------------
(* The operators. *)

\* Saturating counters stay in range.
LEMMA BumpType ==
  ASSUME NEW n \in 0..EffectCap
  PROVE  Bump(n) \in 0..EffectCap
BY OutboxAssumption DEF Bump

\* A backoff is a number of ticks.
LEMMA BackoffType ==
  ASSUME NEW n \in 0..MaxAttempts
  PROVE  Backoff(n) \in Nat
BY OutboxAssumption DEF Backoff

-----------------------------------------------------------------------------
(* Types. *)

\* The initial state is well typed and every drain is idle.
LEMMA TypeInit == Init => TypeInv
BY OutboxAssumption DEF Init, TypeInv, TypeOK, CurrentIsHeld

\* Every step keeps the types, and the current row of a drain in its batch.
LEMMA TypeStep == TypeInv /\ [Next]_vars => TypeInv'
<1> SUFFICES ASSUME TypeInv, [Next]_vars
             PROVE  TypeInv'
  OBVIOUS
<1> USE OutboxAssumption
<1>1. ASSUME NEW e \in Events, Enqueue(e)
      PROVE  TypeInv'
  BY <1>1 DEF TypeInv, TypeOK, CurrentIsHeld, Enqueue, drainVars, ghostVars
<1>2. ASSUME NEW o \in Orgs, ChangeOrganizationStatus(o)
      PROVE  TypeInv'
  BY <1>2 DEF TypeInv, TypeOK, CurrentIsHeld, ChangeOrganizationStatus,
              drainVars, ghostVars
<1>3. ASSUME NEW w \in Workers, Claim(w)
      PROVE  TypeInv'
  <2>1. PICK b \in SUBSET Events :
          /\ b # {}
          /\ held' = [held EXCEPT ![w] = b]
          /\ seen' = [seen EXCEPT ![w] =
                        [e \in Events |-> IF e \in b THEN attempts[e] ELSE 0]]
          /\ due' = Hidden(b)
    BY <1>3 DEF Claim
  <2>2. TypeOK'
    BY <1>3, <2>1 DEF TypeInv, TypeOK, Claim, Hidden, ghostVars
  <2>3. CurrentIsHeld'
    BY <1>3, <2>1 DEF TypeInv, TypeOK, CurrentIsHeld, Claim
  <2> QED BY <2>2, <2>3 DEF TypeInv
<1>4. ASSUME NEW w \in Workers, Revalidate(w)
      PROVE  TypeInv'
  BY <1>4 DEF TypeInv, TypeOK, CurrentIsHeld, Revalidate, rowVars, ghostVars
<1>5. ASSUME NEW w \in Workers, HandlerReturns(w)
      PROVE  TypeInv'
  BY <1>5, BumpType DEF TypeInv, TypeOK, CurrentIsHeld, HandlerReturns, rowVars
<1>6. ASSUME NEW w \in Workers, HandlerThrows(w)
      PROVE  TypeInv'
  <2>1. effects' \in [Events -> 0..EffectCap]
    BY <1>6, BumpType DEF TypeInv, TypeOK, HandlerThrows
  <2> QED BY <1>6, <2>1 DEF TypeInv, TypeOK, CurrentIsHeld, HandlerThrows, rowVars
<1>7. ASSUME NEW w \in Workers, MarkPublished(w)
      PROVE  TypeInv'
  BY <1>7 DEF TypeInv, TypeOK, CurrentIsHeld, MarkPublished, Settle, ghostVars
<1>8. ASSUME NEW w \in Workers, MarkSkipped(w)
      PROVE  TypeInv'
  BY <1>8 DEF TypeInv, TypeOK, CurrentIsHeld, MarkSkipped, DeadLetter, Settle, ghostVars
<1>9. ASSUME NEW w \in Workers, MarkDeadLettered(w)
      PROVE  TypeInv'
  BY <1>9, BumpType
  DEF TypeInv, TypeOK, CurrentIsHeld, MarkDeadLettered, DeadLetter, Settle
<1>10. ASSUME NEW w \in Workers, MarkRetry(w)
       PROVE  TypeInv'
  <2>1. cur[w] \in Events /\ seen[w][cur[w]] \in 0..MaxAttempts
    BY <1>10 DEF TypeInv, TypeOK, CurrentIsHeld, MarkRetry
  <2>2. NextAttempts(seen[w][cur[w]]) \in 0..MaxAttempts
    BY <1>10, <2>1 DEF MarkRetry, LastAttempt, NextAttempts
  <2>3. Backoff(seen[w][cur[w]]) \in Int
    BY <2>1, BackoffType
  <2> QED BY <1>10, <2>1, <2>2, <2>3, BumpType
          DEF TypeInv, TypeOK, CurrentIsHeld, MarkRetry, Settle
<1>11. ASSUME NEW w \in Workers, DispatchError(w)
       PROVE  TypeInv'
  <2>1. \/ pc[w] = "publish" /\ UNCHANGED cur
        \/ pc[w] = "next" /\ \E e \in held[w] : cur' = [cur EXCEPT ![w] = e]
    BY <1>11 DEF DispatchError
  <2>2. faults' \in 0..MaxFaults
    BY <1>11 DEF TypeInv, TypeOK, DispatchError
  <2>3. CASE pc[w] = "publish" /\ UNCHANGED cur
    BY <1>11, <2>2, <2>3 DEF TypeInv, TypeOK, CurrentIsHeld, DispatchError, rowVars
  <2>4. ASSUME NEW e \in held[w], cur' = [cur EXCEPT ![w] = e], pc[w] = "next"
        PROVE  TypeInv'
    BY <1>11, <2>2, <2>4 DEF TypeInv, TypeOK, CurrentIsHeld, DispatchError, rowVars
  <2> QED BY <2>1, <2>3, <2>4
<1>12. ASSUME NEW w \in Workers, Abandon(w)
       PROVE  TypeInv'
  BY <1>12 DEF TypeInv, TypeOK, CurrentIsHeld, Abandon, rowVars
<1>13. CASE Tick
  <2>1. due' \in [Events -> Int]
    BY <1>13 DEF TypeInv, TypeOK, Tick
  <2>2. lease' \in [Workers -> 0..Lease]
    BY <1>13 DEF TypeInv, TypeOK, Tick
  <2>3. UNCHANGED <<enqueued, published, attempts, dead, suspended,
                    pc, held, cur, seen, ghostVars>>
    BY <1>13 DEF Tick
  <2> QED BY <2>1, <2>2, <2>3 DEF TypeInv, TypeOK, CurrentIsHeld, ghostVars
<1>14. CASE UNCHANGED vars
  BY <1>14 DEF TypeInv, TypeOK, CurrentIsHeld, vars, rowVars, drainVars, ghostVars
<1> QED BY <1>1, <1>2, <1>3, <1>4, <1>5, <1>6, <1>7, <1>8, <1>9, <1>10,
           <1>11, <1>12, <1>13, <1>14 DEF Next, Drain

\* Rows, drains and counters keep their types, and a drain that dispatches
\* works on a row of its batch, in every reachable state.
THEOREM TypeCorrect == Spec => [](TypeOK /\ CurrentIsHeld)
<1>1. TypeInv => TypeOK /\ CurrentIsHeld
  BY DEF TypeInv
<1> QED BY <1>1, TypeInit, TypeStep, PTL DEF Spec

-----------------------------------------------------------------------------
(* Exclusive claims. *)

\* Settling a row of its own batch disturbs neither what a drain knows of its
\* other rows nor what other drains know of theirs.
LEMMA SettleInv ==
  ASSUME DrainInv, NEW w \in Workers, cur[w] \in held[w], Settle(w),
         enqueued' = enqueued,
         published' \in {published, published \cup {cur[w]}},
         \A e \in Events : e # cur[w] => attempts'[e] = attempts[e],
         \A e \in Events : e # cur[w] => due'[e] = due[e]
  PROVE  ClaimHolds' /\ NoCollision'
<1>1. \A v \in Workers : held'[v] \subseteq held[v] /\ cur[w] \notin held'[v]
  BY DEF DrainInv, TypeInv, TypeOK, NoCollision, Settle
<1>2. NoCollision'
  BY <1>1 DEF DrainInv, NoCollision
<1>3. ASSUME NEW v \in Workers, NEW e \in held'[v]
      PROVE  /\ e \in Pending'
             /\ 1 <= lease'[v] /\ lease'[v] <= due'[e]
             /\ seen'[v][e] = attempts'[e]
  <2>1. e \in held[v] /\ e # cur[w] /\ e \in Events
    BY <1>1, <1>3 DEF DrainInv, TypeInv, TypeOK
  <2>2. lease'[v] = lease[v]
    BY <1>3, <2>1 DEF DrainInv, TypeInv, TypeOK, Settle
  <2>3. seen'[v][e] = seen[v][e]
    BY <2>1 DEF DrainInv, TypeInv, TypeOK, Settle
  <2> QED BY <2>1, <2>2, <2>3 DEF DrainInv, ClaimHolds, Pending
<1> QED BY <1>2, <1>3 DEF ClaimHolds

\* A step that leaves batches, leases and the columns of held rows alone.
LEMMA QuietInv ==
  ASSUME DrainInv, UNCHANGED <<held, seen, lease, attempts, due, published>>,
         enqueued \subseteq enqueued'
  PROVE  ClaimHolds' /\ NoCollision'
BY DEF DrainInv, ClaimHolds, NoCollision, Pending

\* No drain holds anything in the initial state.
LEMMA DrainInit == Init => DrainInv
<1> SUFFICES ASSUME Init PROVE DrainInv
  OBVIOUS
<1>1. \A w \in Workers : held[w] = {}
  BY DEF Init
<1> QED BY <1>1, TypeInit DEF DrainInv, ClaimHolds, NoCollision

\* A claim takes only rows that are due, hence none that another drain holds.
LEMMA ClaimInv ==
  ASSUME DrainInv, NEW w \in Workers, Claim(w)
  PROVE  ClaimHolds' /\ NoCollision'
<1>1. PICK b \in SUBSET Events :
        /\ OldestFirst(b)
        /\ held' = [held EXCEPT ![w] = b]
        /\ seen' = [seen EXCEPT ![w] =
                      [e \in Events |-> IF e \in b THEN attempts[e] ELSE 0]]
        /\ due' = Hidden(b)
  BY DEF Claim
<1>2. \A e \in b : e \in Pending /\ due[e] <= 0
  BY <1>1 DEF OldestFirst, Ready
<1>3. \A v \in Workers : held[v] \cap b = {}
  BY <1>2 DEF DrainInv, TypeInv, TypeOK, ClaimHolds
<1>4. NoCollision'
  BY <1>1, <1>3 DEF DrainInv, TypeInv, TypeOK, NoCollision
<1>5. ASSUME NEW v \in Workers, NEW e \in held'[v]
      PROVE  /\ e \in Pending'
             /\ 1 <= lease'[v] /\ lease'[v] <= due'[e]
             /\ seen'[v][e] = attempts'[e]
  <2>1. UNCHANGED <<enqueued, published, attempts>>
    BY DEF Claim
  <2>2. lease' = [lease EXCEPT ![w] = Lease]
    BY DEF Claim
  <2>3. CASE v = w
    BY <1>1, <1>2, <1>5, <2>1, <2>2, <2>3, OutboxAssumption
    DEF DrainInv, TypeInv, TypeOK, Hidden, Pending
  <2>4. CASE v # w
    <3>1. e \in held[v] /\ e \in Events /\ e \notin b
      BY <1>1, <1>3, <1>5, <2>4 DEF DrainInv, TypeInv, TypeOK
    <3>2. due'[e] = due[e] /\ lease'[v] = lease[v] /\ seen'[v] = seen[v]
      BY <1>1, <2>2, <2>4, <3>1 DEF DrainInv, TypeInv, TypeOK, Hidden
    <3> QED BY <2>1, <3>1, <3>2 DEF DrainInv, ClaimHolds, Pending
  <2> QED BY <2>3, <2>4
<1> QED BY <1>4, <1>5 DEF ClaimHolds

\* A unit of time shortens leases and due times alike, and no lease runs out.
LEMMA TickInv ==
  ASSUME DrainInv, ~Overrun, Tick
  PROVE  ClaimHolds' /\ NoCollision'
<1>1. UNCHANGED <<enqueued, published, attempts, held, seen>>
  BY DEF Tick
<1>2. NoCollision'
  BY <1>1 DEF DrainInv, NoCollision
<1>3. ASSUME NEW v \in Workers, NEW e \in held'[v]
      PROVE  /\ e \in Pending'
             /\ 1 <= lease'[v] /\ lease'[v] <= due'[e]
             /\ seen'[v][e] = attempts'[e]
  <2>1. e \in held[v] /\ e \in Events /\ pc[v] # "idle"
    BY <1>1, <1>3 DEF DrainInv, TypeInv, TypeOK, CurrentIsHeld
  <2>2. lease[v] \in Nat /\ due[e] \in Int
    BY <2>1 DEF DrainInv, TypeInv, TypeOK
  <2>3. lease[v] > 1
    BY <2>1 DEF Tick
  <2>4. lease'[v] = lease[v] - 1
    BY <2>2, <2>3 DEF Tick
  <2>5. due'[e] >= due[e] - 1
    BY <2>1, <2>2 DEF Tick
  <2>6. due'[e] \in Int
    BY <2>1, <2>2 DEF Tick
  <2> QED BY <1>1, <2>1, <2>2, <2>3, <2>4, <2>5, <2>6 DEF DrainInv, ClaimHolds, Pending
<1> QED BY <1>2, <1>3 DEF ClaimHolds

\* While no drain outlives its lease, claims stay exclusive.
LEMMA DrainStep == ~Overrun /\ DrainInv /\ [Next]_vars => DrainInv'
<1> SUFFICES ASSUME ~Overrun, DrainInv, [Next]_vars
             PROVE  ClaimHolds' /\ NoCollision'
  BY TypeStep DEF DrainInv
<1>1. ASSUME NEW e \in Events, Enqueue(e)
      PROVE  ClaimHolds' /\ NoCollision'
  BY <1>1, QuietInv DEF Enqueue, drainVars
<1>2. ASSUME NEW o \in Orgs, ChangeOrganizationStatus(o)
      PROVE  ClaimHolds' /\ NoCollision'
  BY <1>2, QuietInv DEF ChangeOrganizationStatus, drainVars
<1>3. ASSUME NEW w \in Workers, Claim(w)
      PROVE  ClaimHolds' /\ NoCollision'
  BY <1>3, ClaimInv
<1>4. ASSUME NEW w \in Workers,
             Revalidate(w) \/ HandlerReturns(w) \/ HandlerThrows(w) \/ DispatchError(w)
      PROVE  ClaimHolds' /\ NoCollision'
  BY <1>4, QuietInv DEF Revalidate, HandlerReturns, HandlerThrows, DispatchError, rowVars
<1>5. ASSUME NEW w \in Workers, MarkPublished(w)
      PROVE  ClaimHolds' /\ NoCollision'
  BY <1>5, SettleInv DEF DrainInv, TypeInv, CurrentIsHeld, MarkPublished
<1>6. ASSUME NEW w \in Workers, MarkSkipped(w) \/ MarkDeadLettered(w)
      PROVE  ClaimHolds' /\ NoCollision'
  <2>1. cur[w] \in held[w] /\ Settle(w) /\ enqueued' = enqueued /\ due' = due
    BY <1>6 DEF DrainInv, TypeInv, CurrentIsHeld, MarkSkipped, MarkDeadLettered
  <2>2. /\ published' = published \cup {cur[w]}
        /\ attempts' = [attempts EXCEPT ![cur[w]] = MaxAttempts]
    BY <1>6 DEF MarkSkipped, MarkDeadLettered, DeadLetter
  <2>3. \A e \in Events : e # cur[w] => attempts'[e] = attempts[e]
    BY <2>2 DEF DrainInv, TypeInv, TypeOK
  <2> QED BY <2>1, <2>2, <2>3, SettleInv
<1>7. ASSUME NEW w \in Workers, MarkRetry(w)
      PROVE  ClaimHolds' /\ NoCollision'
  <2>1. cur[w] \in held[w] /\ Settle(w) /\ UNCHANGED <<enqueued, published>>
    BY <1>7 DEF DrainInv, TypeInv, CurrentIsHeld, MarkRetry
  <2>2. \A e \in Events : e # cur[w] => attempts'[e] = attempts[e] /\ due'[e] = due[e]
    BY <1>7 DEF DrainInv, TypeInv, TypeOK, MarkRetry
  <2> QED BY <2>1, <2>2, SettleInv
<1>8. ASSUME NEW w \in Workers, Abandon(w)
      PROVE  ClaimHolds' /\ NoCollision'
  <2>1. held' = [held EXCEPT ![w] = {}] /\ UNCHANGED rowVars
    BY <1>8 DEF Abandon
  <2>2. \A v \in Workers : v # w => lease'[v] = lease[v] /\ seen'[v] = seen[v]
    BY <1>8 DEF Abandon, DrainInv, TypeInv, TypeOK
  <2> QED BY <2>1, <2>2
          DEF DrainInv, TypeInv, TypeOK, ClaimHolds, NoCollision, Pending, rowVars
<1>9. CASE Tick
  BY <1>9, TickInv
<1>10. CASE UNCHANGED vars
  BY <1>10, QuietInv DEF vars, rowVars, drainVars
<1> QED BY <1>1, <1>2, <1>3, <1>4, <1>5, <1>6, <1>7, <1>8, <1>9, <1>10
        DEF Next, Drain

\* Two drains never work on the same row, and a drain knows the attempts of the
\* rows it holds, provided every drain ends within its lease.
THEOREM ExclusiveClaims ==
  ASSUME ~Overrun
  PROVE  Spec => []DrainsAreExclusive
<1>1. DrainInv => DrainsAreExclusive
  BY DEF DrainInv, DrainsAreExclusive
<1>2. DrainInv /\ [Next]_vars => DrainInv'
  BY DrainStep
<1> QED BY <1>1, <1>2, DrainInit, PTL DEF Spec

\* attempts never decreases while every drain ends within its lease: a retry
\* writes one more than the current value, a dead letter the maximum.
THEOREM AttemptsGrow ==
  ASSUME ~Overrun
  PROVE  Spec => AttemptsNeverRegress
<1>1. DrainInv /\ [Next]_vars => DrainInv'
  BY DrainStep
<1>2. ASSUME DrainInv, Next
      PROVE  \A e \in Events : attempts'[e] >= attempts[e]
  <2>1. CASE UNCHANGED attempts
    BY <1>2, <2>1 DEF DrainInv, TypeInv, TypeOK
  <2>2. ASSUME NEW w \in Workers, MarkSkipped(w) \/ MarkDeadLettered(w)
        PROVE  \A e \in Events : attempts'[e] >= attempts[e]
    <3>1. attempts' = [attempts EXCEPT ![cur[w]] = MaxAttempts]
      BY <2>2 DEF MarkSkipped, MarkDeadLettered, DeadLetter
    <3> QED BY <1>2, <3>1, OutboxAssumption DEF DrainInv, TypeInv, TypeOK
  <2>3. ASSUME NEW w \in Workers, MarkRetry(w)
        PROVE  \A e \in Events : attempts'[e] >= attempts[e]
    <3>1. cur[w] \in held[w] /\ cur[w] \in Events
      BY <1>2, <2>3 DEF DrainInv, TypeInv, TypeOK, CurrentIsHeld, MarkRetry
    <3>2. attempts' = [attempts EXCEPT ![cur[w]] = attempts[cur[w]] + 1]
      BY <1>2, <2>3, <3>1 DEF DrainInv, ClaimHolds, MarkRetry, NextAttempts
    <3> QED BY <1>2, <3>1, <3>2 DEF DrainInv, TypeInv, TypeOK
  <2> QED BY <1>2, <2>1, <2>2, <2>3
          DEF Next, Drain, Enqueue, ChangeOrganizationStatus, Claim, Revalidate,
              HandlerReturns, HandlerThrows, MarkPublished, DispatchError, Abandon,
              Tick, rowVars
<1>3. ASSUME DrainInv, [Next]_vars
      PROVE  [\A e \in Events : attempts'[e] >= attempts[e]]_vars
  BY <1>2, <1>3
<1> QED BY <1>1, <1>3, DrainInit, PTL DEF Spec, AttemptsNeverRegress

-----------------------------------------------------------------------------
(* Why a row leaves the queue.  These hold for drains of any speed. *)

\* Attempts counted in the row, or read by a drain, stand for real failures,
\* and only a settled row carries a dispatchError.
CountedFailures ==
  /\ \A e \in Events : dead[e] = "none" => attempts[e] <= failures[e]
  /\ \A w \in Workers : \A e \in held[w] : seen[w][e] <= failures[e]
  /\ \A e \in Events : dead[e] # "none" => e \in published

\* A row leaves the queue as published only after its handler ran: the part of
\* EffectsExplained that needs no assumption about the drains' speed.
PublishedWasHandled ==
  \A e \in Events : e \in published /\ dead[e] = "none" => effects[e] >= 1

\* A drain about to publish has run the handler of its row.
HandledBeforePublish ==
  \A w \in Workers : pc[w] = "publish" => effects[cur[w]] >= 1

FateInv ==
  /\ TypeInv
  /\ CountedFailures
  /\ HandledBeforePublish
  /\ DeadLetterJustified
  /\ PublishedWasHandled

\* No row has failed, been handled or been settled in the initial state.
LEMMA FateInit == Init => FateInv
BY TypeInit, OutboxAssumption DEF Init, FateInv, CountedFailures, HandledBeforePublish,
   DeadLetterJustified, PublishedWasHandled

\* Every step keeps the reasons for which rows are settled.
LEMMA FateStep ==
  ASSUME EffectCap >= MaxAttempts
  PROVE  FateInv /\ [Next]_vars => FateInv'
<1> SUFFICES ASSUME FateInv, [Next]_vars
             PROVE  /\ CountedFailures' /\ HandledBeforePublish'
                    /\ DeadLetterJustified' /\ PublishedWasHandled'
  BY TypeStep DEF FateInv
<1> DEFINE Fate == CountedFailures /\ HandledBeforePublish
                   /\ DeadLetterJustified /\ PublishedWasHandled
<1>a. /\ TypeOK /\ CurrentIsHeld /\ TypeOK' /\ CurrentIsHeld'
      /\ MaxAttempts \in Nat \ {0} /\ EffectCap \in Nat /\ EffectCap >= MaxAttempts
  BY TypeStep, OutboxAssumption DEF FateInv, TypeInv
<1>b. \A n \in 0..EffectCap : Bump(n) \in 0..EffectCap /\ Bump(n) >= n /\ Bump(n) >= 1
  BY <1>a DEF Bump
<1>c. \A n \in 0..EffectCap, m \in 0..MaxAttempts :
        m <= n => (m < MaxAttempts => m + 1 <= Bump(n)) /\ (m = MaxAttempts => m <= Bump(n))
  BY <1>a DEF Bump
<1>d. /\ effects \in [Events -> 0..EffectCap] /\ failures \in [Events -> 0..EffectCap]
      /\ \A n \in 0..EffectCap : n \in Int
  BY <1>a DEF TypeOK
<1>1. ASSUME NEW e \in Events, Enqueue(e)
      PROVE  Fate'
  BY <1>1 DEF FateInv, CountedFailures, HandledBeforePublish, DeadLetterJustified,
              PublishedWasHandled, Enqueue, drainVars, ghostVars
<1>2. ASSUME NEW o \in Orgs, ChangeOrganizationStatus(o)
      PROVE  Fate'
  BY <1>2 DEF FateInv, CountedFailures, HandledBeforePublish, DeadLetterJustified,
              PublishedWasHandled, ChangeOrganizationStatus, drainVars, ghostVars
<1>3. ASSUME NEW w \in Workers, Claim(w)
      PROVE  Fate'
  <2>1. PICK b \in SUBSET Events :
          /\ b \cap published = {}
          /\ held' = [held EXCEPT ![w] = b]
          /\ seen' = [seen EXCEPT ![w] =
                        [e \in Events |-> IF e \in b THEN attempts[e] ELSE 0]]
    BY <1>3 DEF Claim, OldestFirst, Ready, Pending
  <2>2. UNCHANGED <<enqueued, published, attempts, dead, cur, effects, failures>>
        /\ pc' = [pc EXCEPT ![w] = "next"]
    BY <1>3 DEF Claim, ghostVars
  <2>3. CountedFailures'
    BY <1>a, <2>1, <2>2 DEF FateInv, CountedFailures, TypeOK
  <2>4. HandledBeforePublish'
    BY <1>a, <2>2 DEF FateInv, HandledBeforePublish, TypeOK
  <2> QED BY <2>2, <2>3, <2>4 DEF FateInv, DeadLetterJustified, PublishedWasHandled
<1>4. ASSUME NEW w \in Workers, Revalidate(w)
      PROVE  Fate'
  BY <1>4, <1>a DEF FateInv, CountedFailures, HandledBeforePublish, DeadLetterJustified,
              PublishedWasHandled, TypeOK, Revalidate, rowVars, ghostVars
<1>5. ASSUME NEW w \in Workers, HandlerReturns(w) \/ HandlerThrows(w)
      PROVE  Fate'
  <2>1. /\ UNCHANGED <<rowVars, held, cur, seen, failures>>
        /\ cur[w] \in Events
        /\ effects' = effects \/ effects' = [effects EXCEPT ![cur[w]] = Bump(@)]
    BY <1>5, <1>a DEF HandlerReturns, HandlerThrows, TypeOK, CurrentIsHeld
  <2>2. \A e \in Events : effects'[e] >= effects[e]
    BY <1>b, <1>d, <2>1
  <2>3. HandledBeforePublish'
    BY <1>5, <1>a, <1>b, <2>1, <2>2
    DEF FateInv, HandledBeforePublish, TypeOK, CurrentIsHeld, HandlerReturns, HandlerThrows
  <2>4. PublishedWasHandled'
    BY <1>a, <2>1, <2>2 DEF FateInv, PublishedWasHandled, TypeOK, rowVars
  <2> QED BY <2>1, <2>3, <2>4 DEF FateInv, CountedFailures, DeadLetterJustified, rowVars
<1>6. ASSUME NEW w \in Workers, MarkPublished(w)
      PROVE  Fate'
  <2>1. /\ pc[w] = "publish" /\ published' = published \cup {cur[w]}
        /\ Settle(w) /\ UNCHANGED <<attempts, dead, effects, failures>>
    BY <1>6 DEF MarkPublished, ghostVars
  <2>2. CountedFailures'
    BY <1>a, <2>1 DEF FateInv, CountedFailures, TypeOK, Settle
  <2>3. HandledBeforePublish'
    BY <1>a, <2>1 DEF FateInv, HandledBeforePublish, TypeOK, Settle
  <2> QED BY <2>1, <2>2, <2>3
          DEF FateInv, HandledBeforePublish, DeadLetterJustified, PublishedWasHandled
<1>7. ASSUME NEW w \in Workers, MarkSkipped(w) \/ MarkDeadLettered(w)
      PROVE  Fate'
  <2>1. /\ Settle(w) /\ UNCHANGED effects /\ cur[w] \in held[w] /\ cur[w] \in Events
        /\ published' = published \cup {cur[w]}
        /\ attempts' = [attempts EXCEPT ![cur[w]] = MaxAttempts]
    BY <1>7, <1>a DEF MarkSkipped, MarkDeadLettered, DeadLetter, TypeOK, CurrentIsHeld, ghostVars
  <2>2. \/ UNCHANGED failures /\ dead' = [dead EXCEPT ![cur[w]] = "organization_suspended"]
        \/ /\ failures' = [failures EXCEPT ![cur[w]] = Bump(@)]
           /\ dead' = [dead EXCEPT ![cur[w]] = "max_attempts_exceeded"]
           /\ LastAttempt(seen[w][cur[w]])
    BY <1>7 DEF MarkSkipped, MarkDeadLettered, DeadLetter, ghostVars
  <2>3. \A e \in Events : failures'[e] >= failures[e]
    BY <1>b, <1>d, <2>1, <2>2
  <2>4. CountedFailures'
    <3>1. \A e \in Events : dead'[e] = "none" => attempts'[e] <= failures'[e]
      BY <1>a, <2>1, <2>2, <2>3 DEF FateInv, CountedFailures, TypeOK
    <3>2. \A v \in Workers : \A e \in held'[v] :
            e \in held[v] /\ e \in Events /\ seen'[v][e] <= seen[v][e]
      BY <1>a, <2>1 DEF TypeOK, Settle
    <3>3. \A v \in Workers : \A e \in held'[v] : seen'[v][e] <= failures'[e]
      BY <1>a, <2>3, <3>2 DEF FateInv, CountedFailures, TypeOK
    <3>4. \A e \in Events : dead'[e] # "none" => e \in published'
      BY <1>a, <2>1, <2>2 DEF FateInv, CountedFailures, TypeOK
    <3> QED BY <3>1, <3>3, <3>4 DEF CountedFailures
  <2>5. HandledBeforePublish'
    BY <1>a, <2>1 DEF FateInv, HandledBeforePublish, TypeOK, Settle
  <2>6. DeadLetterJustified'
    <3>1. seen[w][cur[w]] \in 0..MaxAttempts /\ seen[w][cur[w]] <= failures[cur[w]]
          /\ failures[cur[w]] \in 0..EffectCap
      BY <1>a, <2>1 DEF FateInv, CountedFailures, TypeOK
    <3>2. LastAttempt(seen[w][cur[w]]) => Bump(failures[cur[w]]) >= MaxAttempts
      <4>1. ASSUME seen[w][cur[w]] + 1 >= MaxAttempts
            PROVE  seen[w][cur[w]] = MaxAttempts \/ seen[w][cur[w]] + 1 = MaxAttempts
        BY <1>a, <3>1, <4>1
      <4>2. Bump(failures[cur[w]]) \in 0..EffectCap
        BY <1>b, <3>1
      <4> QED BY <1>a, <1>c, <3>1, <4>1, <4>2 DEF LastAttempt
    <3> QED BY <1>a, <2>1, <2>2, <2>3, <3>2 DEF FateInv, DeadLetterJustified, TypeOK
  <2>7. PublishedWasHandled'
    BY <1>a, <2>1, <2>2 DEF FateInv, PublishedWasHandled, TypeOK
  <2> QED BY <2>4, <2>5, <2>6, <2>7
<1>8. ASSUME NEW w \in Workers, MarkRetry(w)
      PROVE  Fate'
  <2>1. /\ Settle(w) /\ UNCHANGED <<published, dead, effects>>
        /\ cur[w] \in held[w] /\ cur[w] \in Events
        /\ attempts' = [attempts EXCEPT ![cur[w]] = seen[w][cur[w]] + 1]
        /\ failures' = [failures EXCEPT ![cur[w]] = Bump(@)]
        /\ seen[w][cur[w]] + 1 < MaxAttempts
    BY <1>8, <1>a DEF MarkRetry, LastAttempt, NextAttempts, TypeOK, CurrentIsHeld
  <2>2. \A e \in Events : failures'[e] >= failures[e]
    BY <1>b, <1>d, <2>1
  <2>3. CountedFailures'
    <3>1. seen[w][cur[w]] + 1 <= Bump(failures[cur[w]])
      BY <1>a, <1>c, <2>1 DEF FateInv, CountedFailures, TypeOK
    <3>2. \A e \in Events : dead'[e] = "none" => attempts'[e] <= failures'[e]
      BY <1>a, <2>1, <3>1 DEF FateInv, CountedFailures, TypeOK
    <3>3. \A v \in Workers : \A e \in held'[v] :
            e \in held[v] /\ e \in Events /\ seen'[v][e] <= seen[v][e]
      BY <1>a, <2>1 DEF TypeOK, Settle
    <3>4. \A v \in Workers : \A e \in held'[v] : seen'[v][e] <= failures'[e]
      BY <1>a, <2>2, <3>3 DEF FateInv, CountedFailures, TypeOK
    <3> QED BY <2>1, <3>2, <3>4 DEF FateInv, CountedFailures
  <2>4. HandledBeforePublish'
    BY <1>a, <2>1 DEF FateInv, HandledBeforePublish, TypeOK, Settle
  <2>5. DeadLetterJustified'
    BY <1>a, <2>1, <2>2 DEF FateInv, DeadLetterJustified, TypeOK
  <2> QED BY <2>1, <2>3, <2>4, <2>5 DEF FateInv, PublishedWasHandled
<1>9. ASSUME NEW w \in Workers, DispatchError(w) \/ Abandon(w)
      PROVE  Fate'
  <2>1. UNCHANGED <<rowVars, effects, failures>>
    BY <1>9 DEF DispatchError, Abandon
  <2>2. /\ \A v \in Workers : held'[v] \subseteq held[v]
        /\ \A v \in Workers : \A e \in held'[v] : seen'[v][e] = seen[v][e]
        /\ \A v \in Workers : pc'[v] = "publish" => pc[v] = "publish" /\ cur'[v] = cur[v]
    BY <1>9, <1>a DEF DispatchError, Abandon, TypeOK
  <2> QED BY <2>1, <2>2 DEF FateInv, CountedFailures, HandledBeforePublish,
                            DeadLetterJustified, PublishedWasHandled, rowVars
<1>10. CASE Tick
  BY <1>10 DEF FateInv, CountedFailures, HandledBeforePublish, DeadLetterJustified,
               PublishedWasHandled, Tick, ghostVars
<1>11. CASE UNCHANGED vars
  BY <1>11 DEF FateInv, CountedFailures, HandledBeforePublish, DeadLetterJustified,
               PublishedWasHandled, vars, rowVars, drainVars, ghostVars
<1> QED BY <1>1, <1>2, <1>3, <1>4, <1>5, <1>6, <1>7, <1>8, <1>9, <1>10, <1>11
        DEF Next, Drain

\* Whatever the drains' speed: a row is dead-lettered as poison only after
\* maxAttempts real failures, and published only after its handler ran.
THEOREM RowsSettledForCause ==
  ASSUME EffectCap >= MaxAttempts
  PROVE  Spec => [](DeadLetterJustified /\ PublishedWasHandled)
<1>1. FateInv => DeadLetterJustified /\ PublishedWasHandled
  BY DEF FateInv
<1>2. FateInv /\ [Next]_vars => FateInv'
  BY FateStep
<1> QED BY <1>1, <1>2, FateInit, PTL DEF Spec

-----------------------------------------------------------------------------
(* Every repetition of a side effect is explained. *)

\* One effect more than failures and faults account for is allowed to a row that
\* is settled, or whose handler has run in the dispatch that is under way.
EffectPaid(e) ==
  \/ effects[e] <= failures[e] + faults
  \/ /\ effects[e] <= 1 + failures[e] + faults
     /\ e \in published \/ \E w \in Workers : pc[w] \in {"publish", "fail"} /\ cur[w] = e

EffectsPaid == \A e \in Events : EffectPaid(e)

\* Every step keeps that account.
LEMMA EffectsStep ==
  ASSUME DrainInv, EffectsPaid, [Next]_vars
  PROVE  EffectsPaid'
<1>a. /\ TypeOK /\ CurrentIsHeld /\ ClaimHolds /\ NoCollision
      /\ EffectCap \in Nat /\ MaxFaults \in Nat
  BY OutboxAssumption DEF DrainInv, TypeInv
<1>b. /\ effects \in [Events -> 0..EffectCap] /\ failures \in [Events -> 0..EffectCap]
      /\ faults \in Nat
  BY <1>a DEF TypeOK
<1>c. ASSUME NEW n \in 0..EffectCap
      PROVE  Bump(n) \in 0..EffectCap /\ n <= Bump(n) /\ Bump(n) <= n + 1
             /\ (Bump(n) = n + 1 \/ Bump(n) = EffectCap)
  BY <1>a DEF Bump
\* The rows that one drain is not about.
<1>d. ASSUME NEW w \in Workers, NEW e \in Events, e # cur[w],
             effects'[e] = effects[e], failures'[e] = failures[e],
             faults' \in Nat, faults <= faults',
             published \subseteq published',
             \A v \in Workers : v # w => pc'[v] = pc[v] /\ cur'[v] = cur[v]
      PROVE  EffectPaid(e)'
  BY <1>b, <1>d DEF EffectsPaid, EffectPaid
<1>1. ASSUME NEW w \in Workers, HandlerReturns(w) \/ HandlerThrows(w)
      PROVE  EffectsPaid'
  <2>1. /\ cur[w] \in held[w] /\ cur[w] \in Events /\ cur[w] \notin published
        /\ pc'[w] \in {"publish", "fail"} /\ pc[w] = "handle"
        /\ effects' = effects \/ effects' = [effects EXCEPT ![cur[w]] = Bump(@)]
        /\ \A v \in Workers : v # w => pc'[v] = pc[v]
        /\ UNCHANGED <<published, cur, failures, faults>>
    BY <1>1, <1>a DEF HandlerReturns, HandlerThrows, TypeOK, CurrentIsHeld, ClaimHolds,
                      Pending, rowVars
  <2>2. effects[cur[w]] <= failures[cur[w]] + faults
    <3>1. \A v \in Workers : v # w /\ pc[v] \in {"publish", "fail"} => cur[v] # cur[w]
      BY <1>a, <2>1 DEF CurrentIsHeld, NoCollision
    <3> QED BY <2>1, <3>1 DEF EffectsPaid, EffectPaid
  <2>3. effects'[cur[w]] <= 1 + failures'[cur[w]] + faults'
    BY <1>b, <1>c, <2>1, <2>2
  <2> QED BY <1>b, <1>d, <2>1, <2>3 DEF EffectsPaid, EffectPaid
<1>2. ASSUME NEW w \in Workers, MarkPublished(w) \/ MarkSkipped(w)
      PROVE  EffectsPaid'
  <2>1. /\ published' = published \cup {cur[w]}
        /\ UNCHANGED <<effects, failures, faults>>
        /\ \A v \in Workers : v # w => pc'[v] = pc[v] /\ cur'[v] = cur[v]
    BY <1>2, <1>a DEF MarkPublished, MarkSkipped, DeadLetter, Settle, TypeOK, ghostVars
  <2> QED BY <1>b, <1>d, <2>1 DEF EffectsPaid, EffectPaid
<1>3. ASSUME NEW w \in Workers, MarkDeadLettered(w) \/ MarkRetry(w)
      PROVE  EffectsPaid'
  <2>1. /\ cur[w] \in Events /\ published \subseteq published'
        /\ failures' = [failures EXCEPT ![cur[w]] = Bump(@)]
        /\ UNCHANGED <<effects, faults>>
        /\ \A v \in Workers : v # w => pc'[v] = pc[v] /\ cur'[v] = cur[v]
    BY <1>3, <1>a DEF MarkDeadLettered, MarkRetry, DeadLetter, Settle, TypeOK, CurrentIsHeld
  <2>2. effects'[cur[w]] <= failures'[cur[w]] + faults'
    BY <1>b, <1>c, <2>1 DEF EffectsPaid, EffectPaid
  <2> QED BY <1>b, <1>d, <2>1, <2>2 DEF EffectsPaid, EffectPaid
<1>4. ASSUME NEW w \in Workers, DispatchError(w) \/ Abandon(w)
      PROVE  EffectsPaid'
  <2>1. faults' = faults + 1 /\ UNCHANGED <<published, effects, failures>>
    BY <1>4 DEF DispatchError, Abandon, rowVars
  <2> QED BY <1>b, <2>1 DEF EffectsPaid, EffectPaid
<1>5. ASSUME NEW w \in Workers, Claim(w) \/ Revalidate(w)
      PROVE  EffectsPaid'
  <2>1. /\ pc[w] \in {"idle", "next"} /\ UNCHANGED <<published, effects, failures, faults>>
        /\ \A v \in Workers : v # w => pc'[v] = pc[v] /\ cur'[v] = cur[v]
    BY <1>5, <1>a DEF Claim, Revalidate, TypeOK, rowVars, ghostVars
  <2> QED BY <1>b, <2>1 DEF EffectsPaid, EffectPaid
<1>6. CASE \/ \E e \in Events : Enqueue(e)
           \/ \E o \in Orgs : ChangeOrganizationStatus(o)
           \/ Tick \/ UNCHANGED vars
  BY <1>6 DEF EffectsPaid, EffectPaid, Enqueue, ChangeOrganizationStatus, Tick, vars, rowVars,
              drainVars, ghostVars
<1> QED BY <1>1, <1>2, <1>3, <1>4, <1>5, <1>6 DEF Next, Drain

\* If no drain overruns its lease, a handler's side effect happens at least once
\* for a row that is published, and again only for a failed dispatch, a crash or
\* a database error.
THEOREM EffectsAreExplained ==
  ASSUME ~Overrun, EffectCap >= MaxAttempts
  PROVE  Spec => []EffectsExplained
<1>1. Init => EffectsPaid
  BY OutboxAssumption DEF Init, EffectsPaid, EffectPaid
<1>2. DrainInv /\ [Next]_vars => DrainInv'
  BY DrainStep
<1>3. FateInv /\ [Next]_vars => FateInv'
  BY FateStep
<1>4. DrainInv /\ EffectsPaid /\ [Next]_vars => EffectsPaid'
  BY EffectsStep
<1>5. DrainInv /\ FateInv /\ EffectsPaid => EffectsExplained
  BY OutboxAssumption DEF DrainInv, TypeInv, TypeOK, FateInv, PublishedWasHandled,
                          EffectsPaid, EffectPaid, EffectsExplained
<1> QED BY <1>1, <1>2, <1>3, <1>4, <1>5, DrainInit, FateInit, PTL DEF Spec

-----------------------------------------------------------------------------
(* The promise to business transactions. *)

\* Only rows of committed transactions are claimed and settled.
OnlyCommitted ==
  published \subseteq enqueued /\ \A w \in Workers : held[w] \subseteq enqueued

\* Every step leaves claimed and settled rows committed.
LEMMA CommitStep ==
  ASSUME TypeInv, OnlyCommitted, [Next]_vars
  PROVE  OnlyCommitted'
<1>a. TypeOK /\ CurrentIsHeld
  BY DEF TypeInv
<1>1. CASE UNCHANGED <<published, held>> /\ enqueued \subseteq enqueued'
  BY <1>1 DEF OnlyCommitted
<1>2. ASSUME NEW w \in Workers, Claim(w)
      PROVE  OnlyCommitted'
  BY <1>2, <1>a DEF OnlyCommitted, Claim, OldestFirst, Ready, Pending, TypeOK
<1>3. ASSUME NEW w \in Workers,
             MarkPublished(w) \/ MarkSkipped(w) \/ MarkDeadLettered(w) \/ MarkRetry(w)
      PROVE  OnlyCommitted'
  <2>1. /\ cur[w] \in held[w] /\ Settle(w) /\ UNCHANGED enqueued
        /\ published' \in {published, published \cup {cur[w]}}
    BY <1>3, <1>a DEF MarkPublished, MarkSkipped, MarkDeadLettered, MarkRetry, DeadLetter,
                      CurrentIsHeld
  <2> QED BY <1>a, <2>1 DEF OnlyCommitted, Settle, TypeOK
<1>4. ASSUME NEW w \in Workers, Abandon(w)
      PROVE  OnlyCommitted'
  BY <1>4, <1>a DEF OnlyCommitted, Abandon, TypeOK, rowVars
<1> QED BY <1>1, <1>2, <1>3, <1>4
        DEF Next, Drain, vars, Enqueue, ChangeOrganizationStatus, Revalidate,
            HandlerReturns, HandlerThrows, DispatchError, Tick, rowVars, drainVars

\* The two mapped variables of OutboxPromise.
Status == [e \in Events |->
             IF e \notin enqueued THEN "absent"
             ELSE IF e \notin published THEN "pending"
             ELSE IF dead[e] = "none" THEN "delivered" ELSE "dead"]
Ran == [e \in Events |-> effects[e] > 0]

\* The outbox starts where the promise starts.
LEMMA PromiseInit == Init => Promise!Init
<1> SUFFICES ASSUME Init PROVE Promise!Init
  OBVIOUS
<1>1. Status = [e \in Events |-> "absent"]
  BY DEF Init, Status
<1>2. \A e \in Events : (effects[e] > 0) = FALSE
  BY DEF Init
<1>3. Ran = [e \in Events |-> FALSE]
  BY <1>2 DEF Ran
<1> QED BY <1>1, <1>3 DEF Promise!Init, Status, Ran

\* Only Enqueue, the handlers and the three ways to settle a row are visible to
\* the promise; each of them is one of its steps.
LEMMA PromiseStep ==
  ASSUME DrainInv, FateInv, OnlyCommitted, [Next]_vars, EffectCap >= MaxAttempts
  PROVE  [Promise!Next]_(Promise!vars)
<1>a. TypeOK /\ CurrentIsHeld /\ ClaimHolds
  BY DEF DrainInv, TypeInv
<1>b. \A w \in Workers : \A e \in held[w] :
        e \in Events /\ e \in enqueued /\ e \notin published /\ dead[e] = "none"
  BY <1>a DEF FateInv, CountedFailures, ClaimHolds, Pending, TypeOK
<1>1. CASE UNCHANGED <<enqueued, published, dead, effects>>
  BY <1>1 DEF Promise!vars
<1>2. ASSUME NEW e \in Events, e \notin enqueued, enqueued' = enqueued \cup {e},
             UNCHANGED <<published, dead, effects>>
      PROVE  Promise!Next
  <2>1. Status[e] = "absent" /\ Status' = [Status EXCEPT ![e] = "pending"] /\ Ran' = Ran
    BY <1>2, <1>a DEF Status, Ran, OnlyCommitted, TypeOK
  <2> QED BY <2>1 DEF Promise!Next, Promise!Accept, Status, Ran
<1>3. ASSUME NEW w \in Workers, HandlerReturns(w) \/ HandlerThrows(w),
             effects' # effects
      PROVE  Promise!Next
  <2>1. /\ cur[w] \in held[w] /\ effects' = [effects EXCEPT ![cur[w]] = Bump(@)]
        /\ UNCHANGED <<enqueued, published, dead>>
    BY <1>3, <1>a DEF HandlerReturns, HandlerThrows, CurrentIsHeld, rowVars
  <2>2. /\ effects \in [Events -> 0..EffectCap] /\ cur[w] \in Events
        /\ Bump(effects[cur[w]]) > 0
    BY <1>a, <1>b, <2>1, OutboxAssumption DEF TypeOK, Bump
  <2>3. Status[cur[w]] = "pending" /\ Status' = Status
        /\ Ran' = [Ran EXCEPT ![cur[w]] = TRUE]
    BY <1>b, <2>1, <2>2 DEF Status, Ran
  <2> QED BY <2>2, <2>3 DEF Promise!Next, Promise!Run, Status, Ran
<1>4. ASSUME NEW w \in Workers, MarkPublished(w)
      PROVE  Promise!Next
  <2>1. /\ cur[w] \in held[w] /\ published' = published \cup {cur[w]}
        /\ UNCHANGED <<enqueued, dead, effects>> /\ effects[cur[w]] >= 1
    BY <1>4, <1>a DEF MarkPublished, CurrentIsHeld, FateInv, HandledBeforePublish, ghostVars
  <2>2. effects[cur[w]] \in Int /\ cur[w] \in Events
    BY <1>a, <1>b, <2>1 DEF TypeOK
  <2>3. Status[cur[w]] = "pending"
        /\ Status' = [Status EXCEPT ![cur[w]] = "delivered"] /\ Ran' = Ran
    BY <1>b, <2>1, <2>2 DEF Status, Ran
  <2>4. Ran[cur[w]]
    <3>1. effects[cur[w]] > 0
      BY <2>1, <2>2
    <3> QED BY <2>2, <3>1, Zenon DEF Ran
  <2> QED BY <2>2, <2>3, <2>4 DEF Promise!Next, Promise!Deliver, Status, Ran
<1>5. ASSUME NEW w \in Workers, MarkSkipped(w) \/ MarkDeadLettered(w)
      PROVE  Promise!Next
  <2>1. PICK r \in {"organization_suspended", "max_attempts_exceeded"} :
          dead' = [dead EXCEPT ![cur[w]] = r]
    BY <1>5 DEF MarkSkipped, MarkDeadLettered, DeadLetter
  <2>2. /\ cur[w] \in held[w] /\ published' = published \cup {cur[w]}
        /\ UNCHANGED <<enqueued, effects>>
    BY <1>5, <1>a DEF MarkSkipped, MarkDeadLettered, DeadLetter, CurrentIsHeld, ghostVars
  <2>3. Status[cur[w]] = "pending" /\ cur[w] \in Events
        /\ Status' = [Status EXCEPT ![cur[w]] = "dead"] /\ Ran' = Ran
    BY <1>a, <1>b, <2>1, <2>2 DEF Status, Ran, TypeOK
  <2> QED BY <2>3 DEF Promise!Next, Promise!GiveUp, Status, Ran
<1> QED BY <1>1, <1>2, <1>3, <1>4, <1>5
        DEF Next, Drain, vars, Enqueue, ChangeOrganizationStatus, Claim, Revalidate,
            HandlerReturns, HandlerThrows, MarkRetry, DispatchError, Abandon, Tick,
            rowVars, ghostVars

\* The outbox keeps the at-least-once promise while every drain ends within its
\* lease: pending until delivered or given up, delivered only after the handler
\* ran, and no side effect after either end.
THEOREM OutboxKeepsPromise ==
  ASSUME ~Overrun, EffectCap >= MaxAttempts
  PROVE  Spec => ImplementsPromise
<1>1. DrainInv /\ [Next]_vars => DrainInv'
  BY DrainStep
<1>2. FateInv /\ [Next]_vars => FateInv'
  BY FateStep
<1>3. DrainInv /\ OnlyCommitted /\ [Next]_vars => OnlyCommitted'
  BY CommitStep DEF DrainInv
<1>4. DrainInv /\ FateInv /\ OnlyCommitted /\ [Next]_vars => [Promise!Next]_(Promise!vars)
  BY PromiseStep
<1>5. Init => OnlyCommitted
  BY DEF Init, OnlyCommitted
<1> QED BY <1>1, <1>2, <1>3, <1>4, <1>5, DrainInit, FateInit, PromiseInit, PTL
        DEF Spec, ImplementsPromise, Promise!Spec
=============================================================================
