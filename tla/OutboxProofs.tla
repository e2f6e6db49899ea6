---------------------------- MODULE OutboxProofs ----------------------------
(***************************************************************************)
(* Proofs about Outbox, for any jobs, keys, dispatchers and limits.  Once  *)
(* no lock has lapsed, a dispatcher that works on a job holds its lock,    *)
(* and what is known of the copies in the queue follows from where the     *)
(* job stands; that is the part of the invariant that needs a proof.       *)
(***************************************************************************)
EXTENDS Outbox, TLAPS

WorksOn(d, j) == j \in batch[d] \/ current[d] = j

\* A job a dispatcher works on has a row, and what it reports sent was queued.
WorkInv ==
    \A d \in Dispatchers :
        /\ current[d] \notin batch[d]
        /\ \A j \in Jobs : WorksOn(d, j) => status[j] # "NONE"
        /\ outcome[d] = "sent" => queued[current[d]] > 0

\* While no lock of the job lapsed: it is locked by whoever works on it; it has at
\* most one copy; and once it has that copy nobody claims it or sends it again.
NoLapseInv(j) ==
    /\ ~lockExpired[j]
    /\ \A d \in Dispatchers : WorksOn(d, j) => lockedBy[j] = d
    /\ queued[j] <= 1
    /\ status[j] \in {"NONE", "FAILED"} => queued[j] = 0
    /\ status[j] = "PENDING" /\ lockedBy[j] = Nobody => queued[j] = 0
    /\ \A d \in Dispatchers :
          j \in batch[d] \/ (current[d] = j /\ outcome[d] = "failed") => queued[j] = 0

LapseInv == \A j \in Jobs : lapsed[j] \/ NoLapseInv(j)

IInv == TypeOK /\ SentIsQueued /\ KeyIsUnique /\ WorkInv /\ LapseInv

-----------------------------------------------------------------------------
LEMMA InvInit == Init => IInv
BY OutboxAssumption
   DEF Init, IInv, TypeOK, SentIsQueued, KeyIsUnique, WorkInv, LapseInv, NoLapseInv, WorksOn,
       Statuses, Active

\* What recording that a job was sent does to its row.
LEMMA SetSentFacts ==
    ASSUME TypeOK, NEW d \in Dispatchers, NEW j \in Jobs, SetSent(d, j) \/ UNCHANGED rowVars
    PROVE  /\ status' \in [Jobs -> Statuses]
           /\ lockedBy' \in [Jobs -> Dispatchers \cup {Nobody}]
           /\ lockExpired' \in [Jobs -> BOOLEAN]
           /\ due' = due /\ attempts' = attempts
           /\ \A i \in Jobs : i # j => /\ status'[i] = status[i]
                                       /\ lockedBy'[i] = lockedBy[i]
                                       /\ lockExpired'[i] = lockExpired[i]
           /\ \/ /\ status[j] = "PENDING" /\ lockedBy[j] = d
                 /\ status'[j] = "SENT" /\ lockedBy'[j] = Nobody /\ ~lockExpired'[j]
              \/ UNCHANGED <<status, lockedBy, lockExpired>>
<1>1. d # Nobody
  BY OutboxAssumption
<1> QED BY <1>1 DEF SetSent, Unlock, TypeOK, Statuses, Active, rowVars

\* A step keeps the types.
LEMMA TypeStep == TypeOK /\ [Next]_vars => TypeOK'
<1> SUFFICES ASSUME TypeOK, [Next]_vars PROVE TypeOK'
  OBVIOUS
<1> USE DEF TypeOK
<1>1. CASE UNCHANGED vars
  BY <1>1 DEF vars, rowVars, dispatcherVars
<1>2. ASSUME NEW j \in Jobs, Enqueue(j) \/ RunAtComes(j) \/ LockExpires(j) PROVE TypeOK'
  BY <1>2 DEF Enqueue, RunAtComes, LockExpires, dispatcherVars, Statuses, Active
<1>3. ASSUME NEW d \in Dispatchers, NEW S \in SUBSET Jobs, Claim(d, S) PROVE TypeOK'
  <2>1. attempts' \in [Jobs -> 0..MaxAttempts]
    BY <1>3, OutboxAssumption DEF Claim
  <2>2. \A j \in Jobs : lockedBy'[j] # Nobody => status'[j] = "PENDING"
    BY <1>3 DEF Claim, Claimable
  <2> QED BY <1>3, <2>1, <2>2 DEF Claim
<1>4. ASSUME NEW d \in Dispatchers, NEW j \in Jobs, Send(d, j) \/ SendFails(d, j) PROVE TypeOK'
  <2>1. queued' \in [Jobs -> 0..2] /\ lapsed' \in [Jobs -> BOOLEAN] /\ UNCHANGED rowVars
    <3>1. EnqueueCopy(j) => queued' \in [Jobs -> 0..2]
      BY SMT DEF EnqueueCopy
    <3>2. UNCHANGED rowVars /\ (UNCHANGED queued \/ EnqueueCopy(j))
      BY <1>4 DEF Send, SendFails
    <3>3. UNCHANGED lapsed \/ lapsed' = [lapsed EXCEPT ![j] = TRUE]
      BY <1>4 DEF Send, SendFails
    <3> QED BY <3>1, <3>2, <3>3
  <2>2. /\ batch' = [batch EXCEPT ![d] = @ \ {j}]
        /\ current' = [current EXCEPT ![d] = j]
        /\ \E result \in {"sent", "failed"} : outcome' = [outcome EXCEPT ![d] = result]
    BY <1>4 DEF Send, SendFails, Finished
  <2>3. j # NoJob
    BY OutboxAssumption
  <2> QED BY <2>1, <2>2, <2>3 DEF rowVars
<1>5. ASSUME NEW d \in Dispatchers, MarkSent(d) \/ MarkSentFails(d) PROVE TypeOK'
  <2>1. current[d] \in Jobs
    BY <1>5 DEF MarkSent, MarkSentFails
  <2>2. SetSent(d, current[d]) \/ UNCHANGED rowVars
    BY <1>5 DEF MarkSent, MarkSentFails
  <2>3. /\ status' \in [Jobs -> Statuses]
        /\ lockedBy' \in [Jobs -> Dispatchers \cup {Nobody}]
        /\ lockExpired' \in [Jobs -> BOOLEAN]
        /\ due' = due /\ attempts' = attempts
        /\ \A j \in Jobs : lockedBy'[j] # Nobody => status'[j] = "PENDING"
    BY <2>1, <2>2, SetSentFacts
  <2> QED BY <1>5, <2>1, <2>3, OutboxAssumption DEF MarkSent, MarkSentFails, Recorded
<1>6. ASSUME NEW d \in Dispatchers, Reschedule(d) PROVE TypeOK'
  BY <1>6, OutboxAssumption DEF Reschedule, Recorded, Unlock, Statuses, Active
<1>7. ASSUME NEW d \in Dispatchers, Abandon(d) PROVE TypeOK'
  BY <1>7 DEF Abandon, rowVars
<1> QED BY <1>1, <1>2, <1>3, <1>4, <1>5, <1>6, <1>7 DEF Next

\* A row moves from NONE to PENDING by Enqueue, and from PENDING to SENT or FAILED.
LEMMA StatusStep ==
    ASSUME TypeOK, [Next]_vars, NEW j \in Jobs
    PROVE  \/ status'[j] = status[j]
           \/ Enqueue(j) /\ status[j] = "NONE" /\ status'[j] = "PENDING"
           \/ status[j] = "PENDING" /\ status'[j] \in {"SENT", "FAILED"}
<1> USE DEF TypeOK
<1>1. ASSUME NEW i \in Jobs, Enqueue(i) PROVE status'[j] = status[j] \/ (i = j /\ status[j] = "NONE" /\ status'[j] = "PENDING")
  BY <1>1 DEF Enqueue
<1>2. ASSUME NEW d \in Dispatchers, MarkSent(d) \/ MarkSentFails(d)
      PROVE  status'[j] = status[j] \/ (status[j] = "PENDING" /\ status'[j] = "SENT")
  <2>1. current[d] \in Jobs /\ (SetSent(d, current[d]) \/ UNCHANGED rowVars)
    BY <1>2 DEF MarkSent, MarkSentFails
  <2> QED BY <2>1, SetSentFacts
<1>3. ASSUME NEW d \in Dispatchers, Reschedule(d)
      PROVE  status'[j] = status[j] \/ (status[j] = "PENDING" /\ status'[j] = "FAILED")
  BY <1>3, OutboxAssumption DEF Reschedule
<1> QED BY <1>1, <1>2, <1>3 DEF Next, vars, rowVars, RunAtComes, LockExpires, Claim, Send, SendFails, Abandon

\* The copies of a job only grow, by a dispatcher that sends it.
LEMMA QueuedStep ==
    ASSUME TypeOK, [Next]_vars, NEW j \in Jobs
    PROVE  /\ queued'[j] >= queued[j]
           /\ \/ queued'[j] = queued[j]
              \/ \E d \in Dispatchers : j \in batch[d] /\ (Send(d, j) \/ SendFails(d, j))
<1> USE DEF TypeOK
<1>1. ASSUME NEW d \in Dispatchers, NEW i \in Jobs, Send(d, i) \/ SendFails(d, i)
      PROVE  queued'[j] >= queued[j] /\ (queued'[j] = queued[j] \/ (i = j /\ j \in batch[d]))
  BY <1>1 DEF Send, SendFails, EnqueueCopy
<1> QED BY <1>1 DEF Next, vars, Enqueue, RunAtComes, LockExpires, Claim, MarkSent, MarkSentFails,
               Reschedule, Abandon

LEMMA KeyStep == TypeOK /\ KeyIsUnique /\ [Next]_vars => KeyIsUnique'
<1> SUFFICES ASSUME TypeOK, KeyIsUnique, [Next]_vars, NEW i \in Jobs, NEW j \in Jobs,
                    KeyOf[i] = KeyOf[j], status'[i] \in Active, status'[j] \in Active
             PROVE  i = j
  BY DEF KeyIsUnique
<1>1. CASE Enqueue(i)
  BY <1>1 DEF Enqueue, TypeOK
<1>2. CASE Enqueue(j)
  BY <1>2 DEF Enqueue, TypeOK
<1>3. CASE ~Enqueue(i) /\ ~Enqueue(j)
  <2>1. status[i] \in Active /\ status[j] \in Active
    BY <1>3, StatusStep DEF Active
  <2> QED BY <2>1 DEF KeyIsUnique
<1> QED BY <1>1, <1>2, <1>3

\* What a dispatcher works on, and what it reports, follow from its own steps.
LEMMA WorkStep == TypeOK /\ WorkInv /\ [Next]_vars => WorkInv'
<1> SUFFICES ASSUME TypeOK, WorkInv, [Next]_vars PROVE WorkInv'
  OBVIOUS
<1>1. \A j \in Jobs : (status[j] # "NONE" => status'[j] # "NONE") /\ (queued[j] > 0 => queued'[j] > 0)
  <2> TAKE j \in Jobs
  <2>1. queued[j] \in 0..2 /\ queued'[j] \in 0..2
    BY TypeStep DEF TypeOK
  <2> QED BY <2>1, StatusStep, QueuedStep
<1>2. ASSUME UNCHANGED dispatcherVars PROVE WorkInv'
  BY <1>1, <1>2 DEF WorkInv, WorksOn, dispatcherVars, TypeOK
<1>3. ASSUME NEW d \in Dispatchers, NEW S \in SUBSET Jobs, Claim(d, S) PROVE WorkInv'
  <2>1. \A j \in S : status[j] = "PENDING"
    BY <1>3 DEF Claim, Claimable
  <2>2. NoJob \notin S
    BY OutboxAssumption
  <2> QED BY <1>1, <1>3, <2>1, <2>2 DEF WorkInv, WorksOn, Claim, Idle, TypeOK
<1>4. ASSUME NEW d \in Dispatchers, NEW j \in Jobs, Send(d, j) \/ SendFails(d, j) PROVE WorkInv'
  <2>1. Send(d, j) => queued'[j] > 0
    BY DEF Send, EnqueueCopy, TypeOK
  <2>2. /\ batch' = [batch EXCEPT ![d] = @ \ {j}]
        /\ current' = [current EXCEPT ![d] = j]
        /\ \/ Send(d, j) /\ outcome' = [outcome EXCEPT ![d] = "sent"]
           \/ outcome' = [outcome EXCEPT ![d] = "failed"]
        /\ j \in batch[d]
    BY <1>4 DEF Send, SendFails, Finished
  <2> QED BY <1>1, <2>1, <2>2 DEF WorkInv, WorksOn, TypeOK
<1>5. ASSUME NEW d \in Dispatchers, MarkSent(d) \/ Reschedule(d) PROVE WorkInv'
  <2>1. NoJob \notin batch'[d]
    BY <1>5, OutboxAssumption, TypeStep DEF TypeOK
  <2>2. Recorded(d)
    BY <1>5 DEF MarkSent, Reschedule
  <2>3. \A j \in Jobs : WorksOn(d, j)' => WorksOn(d, j)
    BY <2>2, OutboxAssumption DEF WorksOn, Recorded, TypeOK
  <2> QED BY <1>1, <2>1, <2>2, <2>3 DEF WorkInv, WorksOn, Recorded, TypeOK
<1>6. ASSUME NEW d \in Dispatchers, MarkSentFails(d) PROVE WorkInv'
  BY <1>1, <1>6 DEF WorkInv, WorksOn, MarkSentFails, TypeOK
<1>7. ASSUME NEW d \in Dispatchers, Abandon(d) PROVE WorkInv'
  BY <1>1, <1>7, OutboxAssumption DEF WorkInv, WorksOn, Abandon, TypeOK
<1> QED BY <1>2, <1>3, <1>4, <1>5, <1>6, <1>7
        DEF Next, vars, dispatcherVars, Enqueue, RunAtComes, LockExpires

\* A row becomes SENT only by a dispatcher that reports it sent.
LEMMA SentStep == TypeOK /\ WorkInv /\ SentIsQueued /\ [Next]_vars => SentIsQueued'
<1> SUFFICES ASSUME TypeOK, WorkInv, SentIsQueued, [Next]_vars, NEW j \in Jobs, status'[j] = "SENT"
             PROVE  queued'[j] > 0
  BY DEF SentIsQueued
<1>1. queued[j] \in 0..2 /\ queued'[j] \in 0..2 /\ queued'[j] >= queued[j]
  BY TypeStep, QueuedStep DEF TypeOK
<1>2. CASE status[j] = "SENT"
  BY <1>1, <1>2 DEF SentIsQueued
<1>3. CASE status[j] # "SENT"
  <2>1. ASSUME NEW d \in Dispatchers, MarkSent(d) \/ MarkSentFails(d) PROVE queued[j] > 0
    <3>1. current[d] \in Jobs /\ outcome[d] = "sent" /\ (SetSent(d, current[d]) \/ UNCHANGED rowVars)
      BY <2>1 DEF MarkSent, MarkSentFails, TypeOK
    <3>2. j = current[d]
      BY <1>3, <3>1, SetSentFacts
    <3> QED BY <3>1, <3>2 DEF WorkInv
  <2>2. ASSUME NEW d \in Dispatchers, Reschedule(d) PROVE FALSE
    BY <1>3, <2>2 DEF Reschedule, TypeOK
  <2>3. ASSUME NEW i \in Jobs, Enqueue(i) PROVE FALSE
    BY <1>3, <2>3 DEF Enqueue, TypeOK
  <2> QED BY <1>1, <1>3, <2>1, <2>2, <2>3
          DEF Next, vars, rowVars, RunAtComes, LockExpires, Claim, Send, SendFails, Abandon
<1> QED BY <1>2, <1>3

-----------------------------------------------------------------------------
(* A job whose lock has not lapsed.                                        *)

\* Nothing forgets that a lock lapsed.
LEMMA LapsedStays ==
    ASSUME TypeOK, [Next]_vars, NEW j \in Jobs, lapsed[j]
    PROVE  lapsed'[j]
BY DEF TypeOK, Next, vars, Enqueue, RunAtComes, LockExpires, Claim, Send, SendFails, MarkSent,
       MarkSentFails, Reschedule, Abandon

\* A step of the row or of the clock.
LEMMA LapseRow ==
    ASSUME TypeOK, WorkInv, NEW j \in Jobs, NoLapseInv(j), ~lapsed'[j],
           UNCHANGED vars \/ \E i \in Jobs : Enqueue(i) \/ RunAtComes(i) \/ LockExpires(i)
    PROVE  NoLapseInv(j)'
<1>1. CASE UNCHANGED vars \/ \E i \in Jobs : RunAtComes(i)
  BY <1>1 DEF NoLapseInv, WorksOn, vars, rowVars, dispatcherVars, RunAtComes
<1>2. ASSUME NEW i \in Jobs, Enqueue(i) PROVE NoLapseInv(j)'
  BY <1>2 DEF NoLapseInv, WorksOn, Enqueue, dispatcherVars, TypeOK
<1>3. ASSUME NEW i \in Jobs, LockExpires(i) PROVE NoLapseInv(j)'
  BY <1>3 DEF NoLapseInv, WorksOn, LockExpires, dispatcherVars, TypeOK
<1> QED BY <1>1, <1>2, <1>3

\* A claim: a job that is not locked is one nobody works on.
LEMMA LapseClaim ==
    ASSUME TypeOK, NEW j \in Jobs, NoLapseInv(j), NEW d \in Dispatchers, NEW S \in SUBSET Jobs,
           Claim(d, S)
    PROVE  NoLapseInv(j)'
<1>1. CASE j \notin S
  BY <1>1 DEF NoLapseInv, WorksOn, Claim, TypeOK
<1>2. CASE j \in S
  <2>1. lockedBy[j] = Nobody /\ status[j] = "PENDING" /\ queued[j] = 0
    BY <1>2 DEF NoLapseInv, Claim, Claimable
  <2>2. \A e \in Dispatchers : ~WorksOn(e, j)
    BY <2>1, OutboxAssumption DEF NoLapseInv
  <2>3. \A e \in Dispatchers : WorksOn(e, j)' => e = d
    BY <2>2 DEF WorksOn, Claim, TypeOK
  <2>4. lockedBy'[j] = d /\ ~lockExpired'[j] /\ UNCHANGED <<status, queued>>
    BY <1>2 DEF Claim
  <2> QED BY <2>1, <2>3, <2>4 DEF NoLapseInv
<1> QED BY <1>1, <1>2

\* Sending: the dispatcher that has the job is the only one, and it sends it once.
LEMMA LapseSend ==
    ASSUME TypeOK, WorkInv, NEW j \in Jobs, NoLapseInv(j), ~lapsed'[j], NEW d \in Dispatchers,
           NEW i \in Jobs, Send(d, i) \/ SendFails(d, i)
    PROVE  NoLapseInv(j)'
<1>1. /\ UNCHANGED rowVars
      /\ current[d] = NoJob /\ i \in batch[d]
      /\ batch' = [batch EXCEPT ![d] = @ \ {i}]
      /\ current' = [current EXCEPT ![d] = i]
      /\ \E result \in {"sent", "failed"} : outcome' = [outcome EXCEPT ![d] = result]
  BY DEF Send, SendFails, Finished
<1>2. \A e \in Dispatchers : WorksOn(e, j)' => WorksOn(e, j)
  BY <1>1 DEF WorksOn, TypeOK
<1>3. CASE j # i
  <2>1. queued'[j] = queued[j]
    BY <1>3 DEF Send, SendFails, EnqueueCopy, TypeOK
  <2>2. \A e \in Dispatchers :
           j \in batch'[e] \/ (current'[e] = j /\ outcome'[e] = "failed")
           => j \in batch[e] \/ (current[e] = j /\ outcome[e] = "failed")
    BY <1>1, <1>3 DEF TypeOK
  <2> QED BY <1>1, <1>2, <2>1, <2>2 DEF NoLapseInv, rowVars
<1>4. CASE j = i
  <2>1. queued[j] = 0 /\ lockedBy[j] = d /\ d # Nobody /\ status[j] = "PENDING"
    BY <1>1, <1>4, OutboxAssumption DEF NoLapseInv, WorksOn, TypeOK
  <2>2. \A e \in Dispatchers : j \notin batch'[e]
    BY <1>1, <1>4, <2>1 DEF NoLapseInv, WorksOn, TypeOK
  <2>3. \A e \in Dispatchers : current'[e] = j => e = d
    BY <1>2, <2>1 DEF NoLapseInv, WorksOn
  <2>4. CASE Send(d, i)
    <3>1. queued'[j] = 1 /\ outcome'[d] = "sent"
      BY <1>4, <2>1, <2>4 DEF Send, EnqueueCopy, Finished, TypeOK
    <3> QED BY <1>1, <1>2, <2>1, <2>2, <2>3, <3>1 DEF NoLapseInv, rowVars
  <2>5. CASE SendFails(d, i)
    <3>1. queued'[j] = 0
      BY <1>4, <2>1, <2>5 DEF SendFails, TypeOK
    <3> QED BY <1>1, <1>2, <2>1, <3>1 DEF NoLapseInv, rowVars
  <2> QED BY <2>4, <2>5
<1> QED BY <1>3, <1>4

\* Recording a result.
LEMMA LapseRecord ==
    ASSUME TypeOK, WorkInv, NEW j \in Jobs, NoLapseInv(j), ~lapsed'[j], NEW d \in Dispatchers,
           MarkSent(d) \/ MarkSentFails(d) \/ Reschedule(d)
    PROVE  NoLapseInv(j)'
<1>1. current[d] \in Jobs /\ d # Nobody /\ UNCHANGED <<queued, batch>>
  BY OutboxAssumption DEF MarkSent, MarkSentFails, Reschedule, Recorded, TypeOK
<1>2. \A e \in Dispatchers : WorksOn(e, j)' => WorksOn(e, j)
  BY <1>1, OutboxAssumption DEF WorksOn, MarkSent, MarkSentFails, Reschedule, Recorded, TypeOK
<1>3. CASE current[d] # j
  <2>1. status'[j] = status[j] /\ lockedBy'[j] = lockedBy[j] /\ lockExpired'[j] = lockExpired[j]
    <3>1. CASE MarkSent(d) \/ MarkSentFails(d)
      <4>1. SetSent(d, current[d]) \/ UNCHANGED rowVars
        BY <3>1 DEF MarkSent, MarkSentFails
      <4> QED BY <1>1, <1>3, <4>1, SetSentFacts
    <3>2. CASE Reschedule(d)
      BY <1>1, <1>3, <3>2 DEF Reschedule, Unlock, TypeOK
    <3> QED BY <3>1, <3>2
  <2>2. \A e \in Dispatchers :
           current'[e] = j /\ outcome'[e] = "failed" => current[e] = j /\ outcome[e] = "failed"
    BY <1>3, OutboxAssumption DEF MarkSent, MarkSentFails, Reschedule, Recorded, TypeOK
  <2> QED BY <1>1, <1>2, <2>1, <2>2 DEF NoLapseInv
<1>4. CASE current[d] = j
  <2>1. lockedBy[j] = d /\ status[j] = "PENDING"
    BY <1>1, <1>4 DEF NoLapseInv, WorksOn, TypeOK
  <2>2. ~MarkSentFails(d)
    BY <1>4 DEF MarkSentFails, TypeOK
  <2>3. \A e \in Dispatchers : ~WorksOn(e, j)'
    <3>1. \A e \in Dispatchers : WorksOn(e, j) => e = d
      BY <2>1 DEF NoLapseInv
    <3>2. ~WorksOn(d, j)'
      <4>1. j \notin batch[d]
        BY <1>4 DEF WorkInv
      <4>2. Recorded(d)
        BY <2>2 DEF MarkSent, Reschedule
      <4> QED BY <4>1, <4>2, OutboxAssumption DEF WorksOn, Recorded, TypeOK
    <3> QED BY <1>2, <3>1, <3>2
  <2>4. CASE MarkSent(d)
    <3>1. status'[j] = "SENT" /\ ~lockExpired'[j]
      BY <1>4, <2>1, <2>4 DEF MarkSent, SetSent, Unlock, TypeOK
    <3> QED BY <1>1, <2>3, <3>1 DEF NoLapseInv, WorksOn
  <2>5. CASE Reschedule(d)
    <3>1. queued[j] = 0
      BY <1>4, <2>5 DEF NoLapseInv, Reschedule
    <3>2. ~lockExpired'[j]
      BY <1>4, <2>1, <2>5 DEF Reschedule, Unlock, TypeOK
    <3> QED BY <1>1, <2>3, <3>1, <3>2 DEF NoLapseInv, WorksOn
  <2> QED BY <2>2, <2>4, <2>5
<1> QED BY <1>3, <1>4

LEMMA LapseAbandon ==
    ASSUME TypeOK, NEW j \in Jobs, NoLapseInv(j), NEW d \in Dispatchers, Abandon(d)
    PROVE  NoLapseInv(j)'
<1>1. \A e \in Dispatchers : WorksOn(e, j)' => WorksOn(e, j)
  BY OutboxAssumption DEF WorksOn, Abandon, TypeOK
<1>2. \A e \in Dispatchers :
         j \in batch'[e] \/ (current'[e] = j /\ outcome'[e] = "failed")
         => j \in batch[e] \/ (current[e] = j /\ outcome[e] = "failed")
  BY OutboxAssumption DEF Abandon, TypeOK
<1> QED BY <1>1, <1>2 DEF NoLapseInv, Abandon, rowVars

LEMMA LapseStep == TypeOK /\ WorkInv /\ LapseInv /\ [Next]_vars => LapseInv'
<1> SUFFICES ASSUME TypeOK, WorkInv, LapseInv, [Next]_vars, NEW j \in Jobs, ~lapsed'[j]
             PROVE  NoLapseInv(j)'
  BY DEF LapseInv
<1>1. NoLapseInv(j)
  BY LapsedStays DEF LapseInv
<1>2. CASE UNCHANGED vars \/ \E i \in Jobs : Enqueue(i) \/ RunAtComes(i) \/ LockExpires(i)
  BY <1>1, <1>2, LapseRow
<1>3. ASSUME NEW d \in Dispatchers, NEW S \in SUBSET Jobs, Claim(d, S) PROVE NoLapseInv(j)'
  BY <1>1, <1>3, LapseClaim
<1>4. ASSUME NEW d \in Dispatchers, NEW i \in Jobs, Send(d, i) \/ SendFails(d, i)
      PROVE  NoLapseInv(j)'
  BY <1>1, <1>4, LapseSend
<1>5. ASSUME NEW d \in Dispatchers, MarkSent(d) \/ MarkSentFails(d) \/ Reschedule(d)
      PROVE  NoLapseInv(j)'
  BY <1>1, <1>5, LapseRecord
<1>6. ASSUME NEW d \in Dispatchers, Abandon(d) PROVE NoLapseInv(j)'
  BY <1>1, <1>6, LapseAbandon
<1> QED BY <1>2, <1>3, <1>4, <1>5, <1>6 DEF Next

-----------------------------------------------------------------------------
\* The inductive invariant holds in every reachable state.
THEOREM Invariance == Spec => []IInv
<1>1. IInv /\ [Next]_vars => IInv'
  BY TypeStep, SentStep, KeyStep, WorkStep, LapseStep DEF IInv
<1> QED BY InvInit, <1>1, PTL DEF Spec

\* The rows and the dispatchers have their types; only a PENDING row is locked.
THEOREM TypeCorrect == Spec => []TypeOK
<1>1. IInv => TypeOK
  BY DEF IInv
<1> QED BY Invariance, <1>1, PTL

\* A row that markOutboxSent has marked is a job the queue has.
THEOREM SentCorrect == Spec => []SentIsQueued
<1>1. IInv => SentIsQueued
  BY DEF IInv
<1> QED BY Invariance, <1>1, PTL

\* The dispatcher sends a job twice only after a lapse of its lock or of a call.
THEOREM OnceCorrect == Spec => []OnceUnlessLapsed
<1>1. IInv => OnceUnlessLapsed
  BY DEF IInv, LapseInv, NoLapseInv, OnceUnlessLapsed
<1> QED BY Invariance, <1>1, PTL

\* No late dispatcher reopens a row that is SENT or FAILED, and keys stay unique.
THEOREM ClosedCorrect == Spec => ClosedIsFinal
<1>1. IInv /\ [Next]_vars
      => [\A j \in Jobs : status[j] \in {"SENT", "FAILED"} => status'[j] = status[j]]_vars
  BY StatusStep DEF IInv
<1>2. IInv => KeyIsUnique
  BY DEF IInv
<1> QED BY Invariance, <1>1, <1>2, PTL DEF Spec, ClosedIsFinal

-----------------------------------------------------------------------------
(* Liveness.  The provers know nothing of ENABLED, so fairness is stated   *)
(* with the guards themselves.  Two facts that need an induction are       *)
(* hypotheses: a dispatcher gets to the end of its batch, and a count that *)
(* never goes down and has a bound is one day settled.                     *)

Pending(j) == status[j] = "PENDING"
Closed(j)  == status[j] \in {"SENT", "FAILED"}
Due(j)     == due[j]
Unlocked(j) == lockedBy[j] = Nobody
Free(j)    == lockedBy[j] = Nobody \/ lockExpired[j]
AtLimit(j) == attempts[j] = MaxAttempts
SomeIdle   == \E d \in Dispatchers : Idle(d)

BatchesEnd        == []<>SomeIdle
AttemptsKept(j)   == attempts'[j] = attempts[j]
AttemptsSettle(j) == <>[][AttemptsKept(j)]_vars

DueGuard(j)    == status[j] = "PENDING" /\ ~due[j]
LockGuard(j)   == lockedBy[j] # Nobody /\ ~lockExpired[j]
ClaimGuard(j)  == Claimable(j) /\ SomeIdle
SendGuard(j)   == \E d \in Dispatchers : lockedBy[j] = d /\ current[d] = NoJob /\ j \in batch[d]
RecordGuard(j) == \E d \in Dispatchers : lockedBy[j] = d /\ current[d] = j

\* Time passes for the row, and it is not passed over for ever.
JobIsHandled(j) ==
    /\ []<>~DueGuard(j) \/ []<><<RunAtComes(j)>>_vars
    /\ []<>~LockGuard(j) \/ []<><<LockExpires(j)>>_vars
    /\ <>[]~ClaimGuard(j) \/ []<><<Claims(j)>>_vars
    /\ <>[]~SendGuard(j) \/ []<><<Sends(j)>>_vars
    /\ <>[]~RecordGuard(j) \/ []<><<Records(j)>>_vars

\* What a step may do to a row.
LEMMA JobSteps ==
    ASSUME TypeOK, [Next]_vars, NEW j \in Jobs
    PROVE  /\ Pending(j) => Pending(j)' \/ Closed(j)'
           /\ Pending(j) /\ Due(j) => Due(j)' \/ <<Records(j)>>_vars
           /\ Free(j) => Free(j)' \/ <<Claims(j)>>_vars
           /\ Unlocked(j) => Unlocked(j)' \/ <<Claims(j)>>_vars
           /\ AtLimit(j) => AtLimit(j)'
<1> DEFINE Same == /\ status'[j] = status[j] /\ due'[j] = due[j]
                   /\ lockedBy'[j] = lockedBy[j] /\ attempts'[j] = attempts[j]
           Goal == /\ Pending(j) => Pending(j)' \/ Closed(j)'
                   /\ Pending(j) /\ Due(j) => Due(j)' \/ Records(j)
                   /\ Free(j) => Free(j)' \/ Claims(j)
                   /\ Unlocked(j) => Unlocked(j)' \/ Claims(j)
                   /\ AtLimit(j) => AtLimit(j)'
<1> USE DEF Pending, Closed, Due, Free, Unlocked, AtLimit
<1>1. ASSUME Same, lockExpired[j] => lockExpired'[j] PROVE Goal
  BY <1>1
<1>2. ASSUME NEW i \in Jobs, Enqueue(i) \/ RunAtComes(i) \/ LockExpires(i) PROVE Goal
  BY <1>2 DEF Enqueue, RunAtComes, LockExpires, TypeOK
<1>3. ASSUME NEW d \in Dispatchers, NEW S \in SUBSET Jobs, Claim(d, S) PROVE Goal
  <2>1. CASE j \in S
    <3>1. Claims(j)
      BY <1>3, <2>1 DEF Claims
    <3>2. status' = status /\ due' = due
      BY <1>3 DEF Claim
    <3>3. AtLimit(j) => AtLimit(j)'
      BY <1>3, <2>1, OutboxAssumption DEF Claim, TypeOK
    <3> QED BY <3>1, <3>2, <3>3
  <2>2. CASE j \notin S
    BY <1>3, <2>2 DEF Claim, TypeOK
  <2> QED BY <2>1, <2>2
<1>4. ASSUME NEW d \in Dispatchers, (\E i \in Jobs : Send(d, i) \/ SendFails(d, i)) \/ Abandon(d)
      PROVE  Goal
  BY <1>1, <1>4 DEF Send, SendFails, Abandon, rowVars
<1>5. ASSUME NEW d \in Dispatchers, MarkSent(d) \/ MarkSentFails(d) PROVE Goal
  <2>1. PICK i \in Jobs : i = current[d]
    BY <1>5 DEF MarkSent, MarkSentFails, TypeOK
  <2>2. SetSent(d, i) \/ UNCHANGED rowVars
    BY <1>5, <2>1 DEF MarkSent, MarkSentFails
  <2>3. /\ due' = due /\ attempts' = attempts
        /\ i # j => Same /\ lockExpired'[j] = lockExpired[j]
        /\ \/ status'[i] = "SENT" /\ lockedBy'[i] = Nobody
           \/ UNCHANGED <<status, lockedBy, lockExpired>>
    BY <2>2, SetSentFacts
  <2> QED BY <2>3, <1>1
<1>6. ASSUME NEW d \in Dispatchers, Reschedule(d) PROVE Goal
  <2>1. PICK i \in Jobs : i = current[d]
    BY <1>6 DEF Reschedule, TypeOK
  <2>2. CASE lockedBy[i] # d
    <3>1. UNCHANGED <<status, due, lockedBy, lockExpired, attempts>>
      BY <1>6, <2>1, <2>2 DEF Reschedule
    <3> QED BY <3>1, <1>1
  <2>3. CASE lockedBy[i] = d
    <3>1. /\ attempts' = attempts
          /\ status' = [status EXCEPT ![i] = "FAILED"] \/ status' = status
          /\ due' = [due EXCEPT ![i] = FALSE] \/ due' = due
          /\ lockedBy' = [lockedBy EXCEPT ![i] = Nobody]
          /\ lockExpired' = [lockExpired EXCEPT ![i] = FALSE]
      BY <1>6, <2>1, <2>3 DEF Reschedule, Unlock
    <3>2. i = j => Records(j)
      BY <1>6, <2>1, <2>3 DEF Records
    <3> QED BY <3>1, <3>2 DEF TypeOK
  <2> QED BY <2>2, <2>3
<1>7. CASE UNCHANGED vars
  BY <1>7, <1>1 DEF vars, rowVars
<1>8. Goal
  BY <1>2, <1>3, <1>4, <1>5, <1>6, <1>7 DEF Next
<1>9. /\ Due(j) # Due(j)' => vars' # vars
      /\ Free(j) # Free(j)' => vars' # vars
      /\ Unlocked(j) # Unlocked(j)' => vars' # vars
  BY DEF vars, rowVars
<1> QED BY <1>8, <1>9

\* What handling a row leads to: a claim uses up an attempt, sending follows the
\* claim, and recording unlocks the row or closes it.
LEMMA HandlingSteps ==
    ASSUME TypeOK, NEW j \in Jobs
    PROVE  /\ Claims(j) => SendGuard(j)' /\ (AttemptsKept(j) => AtLimit(j)')
           /\ Sends(j) => RecordGuard(j)'
           /\ Records(j) => /\ ~Unlocked(j) /\ Unlocked(j)'
                            /\ AtLimit(j) => Closed(j)'
           /\ RunAtComes(j) => Due(j)'
           /\ LockExpires(j) => Free(j)'
<1>1. ASSUME NEW d \in Dispatchers, NEW S \in SUBSET Jobs, j \in S, Claim(d, S)
      PROVE  SendGuard(j)' /\ (AttemptsKept(j) => AtLimit(j)')
  <2>1. lockedBy'[j] = d /\ current'[d] = NoJob /\ batch'[d] = S
    BY <1>1 DEF Claim, Idle, TypeOK
  <2>2. attempts'[j] = attempts[j] => attempts[j] = MaxAttempts
    BY <1>1, OutboxAssumption DEF Claim, TypeOK
  <2> QED BY <1>1, <2>1, <2>2 DEF SendGuard, AtLimit, AttemptsKept
<1>2. ASSUME NEW d \in Dispatchers, lockedBy[j] = d, Send(d, j) \/ SendFails(d, j)
      PROVE  RecordGuard(j)'
  BY <1>2 DEF Send, SendFails, Finished, RecordGuard, rowVars, TypeOK
<1>3. ASSUME NEW d \in Dispatchers, current[d] = j, lockedBy[j] = d, MarkSent(d) \/ Reschedule(d)
      PROVE  /\ ~Unlocked(j) /\ Unlocked(j)'
             /\ AtLimit(j) => Closed(j)'
  <2>1. ~Unlocked(j)
    BY <1>3, OutboxAssumption DEF Unlocked
  <2>2. CASE MarkSent(d)
    <3>1. SetSent(d, j)
      BY <1>3, <2>2 DEF MarkSent
    <3> QED BY <1>3, <2>1, <3>1 DEF SetSent, Unlock, Unlocked, Closed, TypeOK
  <2>3. CASE Reschedule(d)
    BY <1>3, <2>3, OutboxAssumption DEF Reschedule, Unlock, Unlocked, Closed, AtLimit, TypeOK
  <2> QED BY <1>3, <2>1, <2>2, <2>3
<1>4. RunAtComes(j) => Due(j)'
  BY DEF RunAtComes, Due, TypeOK
<1>5. LockExpires(j) => Free(j)'
  BY DEF LockExpires, Free, TypeOK
<1> QED BY <1>1, <1>2, <1>3, <1>4, <1>5 DEF Claims, Sends, Records

\* Until a job closes, some dispatcher claims it again and again; each claim uses up an
\* attempt, and the one that finds none left closes the row when it is recorded.
LEMMA JobCloses ==
    ASSUME NEW j \in Jobs
    PROVE  Spec /\ BatchesEnd /\ AttemptsSettle(j) /\ JobIsHandled(j)
             => (status[j] = "PENDING" ~> status[j] \in {"SENT", "FAILED"})
<1>1. TypeOK /\ Pending(j) /\ [Next]_vars => Pending(j)' \/ Closed(j)'
  BY JobSteps
<1>2. TypeOK /\ Pending(j) /\ Due(j) /\ [Next]_vars => Due(j)' \/ <<Records(j)>>_vars
  BY JobSteps
<1>3. TypeOK /\ Free(j) /\ [Next]_vars => Free(j)' \/ <<Claims(j)>>_vars
  BY JobSteps
<1>4. TypeOK /\ Unlocked(j) /\ [Next]_vars => Unlocked(j)' \/ <<Claims(j)>>_vars
  BY JobSteps
<1>5. TypeOK /\ AtLimit(j) /\ [Next]_vars => AtLimit(j)'
  BY JobSteps
<1>6. TypeOK /\ <<Claims(j)>>_vars => SendGuard(j)'
  BY HandlingSteps
<1>7. TypeOK /\ <<Claims(j)>>_vars /\ [AttemptsKept(j)]_vars => AtLimit(j)'
  BY HandlingSteps
<1>8. TypeOK /\ <<Sends(j)>>_vars => RecordGuard(j)'
  BY HandlingSteps
<1>9. TypeOK /\ <<Records(j)>>_vars => ~Unlocked(j) /\ Unlocked(j)'
  BY HandlingSteps
<1>10. TypeOK /\ AtLimit(j) /\ <<Records(j)>>_vars => Closed(j)'
  BY HandlingSteps
<1>11. TypeOK /\ <<RunAtComes(j)>>_vars => Due(j)'
  BY HandlingSteps
<1>12. TypeOK /\ <<LockExpires(j)>>_vars => Free(j)'
  BY HandlingSteps
<1>13. Pending(j) /\ Due(j) /\ Free(j) /\ SomeIdle => ClaimGuard(j)
  BY DEF Pending, Due, Free, ClaimGuard, Claimable
<1>14. Pending(j) => Due(j) \/ DueGuard(j)
  BY DEF Pending, Due, DueGuard
<1>15. Free(j) \/ LockGuard(j)
  BY DEF Free, LockGuard
<1> DEFINE Stuck == []Pending(j)
           Claimed == []<><<Claims(j)>>_vars
\* A row that stays PENDING and is not claimed any more is not recorded either,
\* so it comes to be due and free, and can be claimed whenever somebody is idle.
<1>16. Spec /\ BatchesEnd /\ JobIsHandled(j) => [](Stuck => Claimed)
  BY <1>2, <1>3, <1>4, <1>9, <1>11, <1>12, <1>13, <1>14, <1>15, TypeCorrect, PTL
     DEF Spec, BatchesEnd, JobIsHandled
\* When the attempts have settled, every claim finds them at the limit, and the
\* claim that is recorded closes the row.
<1>17. Spec /\ AttemptsSettle(j) /\ JobIsHandled(j) => [](Claimed => <>Closed(j))
  BY <1>5, <1>6, <1>7, <1>8, <1>10, TypeCorrect, PTL
     DEF Spec, AttemptsSettle, JobIsHandled
<1>18. Spec /\ BatchesEnd /\ AttemptsSettle(j) /\ JobIsHandled(j) => (Pending(j) ~> Closed(j))
  BY <1>1, <1>16, <1>17, TypeCorrect, PTL DEF Spec
<1> QED BY <1>18 DEF Pending, Closed

\* Every job is dispatched or given up, also when sending fails for ever and when
\* dispatchers die holding its lock: whatever becomes of a claim, it uses up an
\* attempt, and there are only so many.
THEOREM EveryJobClosesCorrect ==
    Spec /\ BatchesEnd /\ (\A j \in Jobs : AttemptsSettle(j) /\ JobIsHandled(j))
      => EveryJobCloses
<1> SUFFICES ASSUME NEW j \in Jobs
             PROVE  Spec /\ BatchesEnd /\ AttemptsSettle(j) /\ JobIsHandled(j)
                      => (status[j] = "PENDING" ~> status[j] \in {"SENT", "FAILED"})
  BY DEF EveryJobCloses
<1> QED BY JobCloses
=============================================================================
