------------------------------- MODULE Outbox -------------------------------
(***************************************************************************)
(* The job outbox: rows that transactions of the server insert, and the    *)
(* dispatchers that claim due rows under a lock with a time to live, send  *)
(* each to the queue and mark it SENT, or reschedule it when that fails.   *)
(*                                                                         *)
(* Time appears only as what it decides: whether a row's run_at has come   *)
(* and whether its lock has outlived the TTL.  Both happen by themselves.  *)
(* Counters saturate, so that no behaviour is cut off: "queued" counts the *)
(* copies of a job up to 2, and attempts stop at the limit they are        *)
(* compared with.                                                          *)
(***************************************************************************)
EXTENDS Integers, FiniteSets

CONSTANTS
    Jobs,         \* job_outbox rows
    NoJob,
    KeyOf,        \* [Jobs -> type and dedupe_key]
    Dispatchers,  \* worker ids (locked_by): dispatchers that run at the same time differ
    Nobody,
    BatchSize,
    MaxAttempts

ASSUME OutboxAssumption ==
    /\ NoJob \notin Jobs
    /\ Nobody \notin Dispatchers
    /\ BatchSize \in Nat \ {0}
    /\ MaxAttempts \in Nat \ {0}

VARIABLES
    status,       \* job_outbox.status, "NONE" before the row exists
    due,          \* run_at <= now
    attempts,     \* job_outbox.attempts
    lockedBy,     \* job_outbox.locked_by
    lockExpired,  \* locked_at < now - lockTtlMs
    queued,       \* copies of the job the queue has accepted
    lapsed,       \* history: a lock outlived its TTL or a call failed without a known result
    batch,        \* [Dispatchers -> claimed jobs still to send]
    current,      \* [Dispatchers -> the job whose result is to be recorded]
    outcome       \* [Dispatchers -> how sending it ended]

rowVars        == <<status, due, attempts, lockedBy, lockExpired>>
dispatcherVars == <<batch, current, outcome>>
vars           == <<rowVars, queued, lapsed, dispatcherVars>>

\* No code of the outbox writes the fourth status, CANCELLED.
Active   == {"PENDING", "SENT"}
Statuses == {"NONE", "FAILED"} \cup Active

Init ==
    /\ status = [j \in Jobs |-> "NONE"]
    /\ due = [j \in Jobs |-> FALSE]
    /\ attempts = [j \in Jobs |-> 0]
    /\ lockedBy = [j \in Jobs |-> Nobody]
    /\ lockExpired = [j \in Jobs |-> FALSE]
    /\ queued = [j \in Jobs |-> 0]
    /\ lapsed = [j \in Jobs |-> FALSE]
    /\ batch = [d \in Dispatchers |-> {}]
    /\ current = [d \in Dispatchers |-> NoJob]
    /\ outcome = [d \in Dispatchers |-> "none"]

\* enqueueOutboxJob, part of a transaction that a row with the same key aborts.
Enqueue(j) ==
    /\ status[j] = "NONE"
    /\ \A i \in Jobs : KeyOf[i] = KeyOf[j] => status[i] \notin Active
    /\ status' = [status EXCEPT ![j] = "PENDING"]
    /\ UNCHANGED <<due, attempts, lockedBy, lockExpired, queued, lapsed, dispatcherVars>>

RunAtComes(j) ==
    /\ status[j] = "PENDING" /\ ~due[j]
    /\ due' = [due EXCEPT ![j] = TRUE]
    /\ UNCHANGED <<status, attempts, lockedBy, lockExpired, queued, lapsed, dispatcherVars>>

\* The lock does not know whether its dispatcher is slow, or dead.
LockExpires(j) ==
    /\ lockedBy[j] # Nobody /\ ~lockExpired[j]
    /\ lockExpired' = [lockExpired EXCEPT ![j] = TRUE]
    /\ lapsed' = [lapsed EXCEPT ![j] = TRUE]
    /\ UNCHANGED <<status, due, attempts, lockedBy, queued, dispatcherVars>>

-----------------------------------------------------------------------------
(* dispatchOutboxOnce.                                                     *)

Idle(d) == batch[d] = {} /\ current[d] = NoJob

\* Mutants: the lock of another dispatcher is not looked at; or its age is not.
MutClaimableLocked(j)  == status[j] = "PENDING" /\ due[j]
MutClaimableExpired(j) == status[j] = "PENDING" /\ due[j] /\ lockedBy[j] = Nobody

Claimable(j) ==
    /\ status[j] = "PENDING" /\ due[j]
    /\ lockedBy[j] = Nobody \/ lockExpired[j]

\* claimOutboxJobs: one transaction.  It skips rows that another claim has just
\* locked, so which of the claimable rows it gets is open.
Claim(d, S) ==
    /\ Idle(d)
    /\ S # {} /\ Cardinality(S) <= BatchSize
    /\ \A j \in S : Claimable(j)
    /\ lockedBy' = [j \in Jobs |-> IF j \in S THEN d ELSE lockedBy[j]]
    /\ lockExpired' = [j \in Jobs |-> j \notin S /\ lockExpired[j]]
    /\ attempts' = [j \in Jobs |-> IF j \in S /\ attempts[j] < MaxAttempts
                                     THEN attempts[j] + 1 ELSE attempts[j]]
    /\ batch' = [batch EXCEPT ![d] = S]
    /\ UNCHANGED <<status, due, queued, lapsed, current, outcome>>

EnqueueCopy(j) == queued' = [queued EXCEPT ![j] = IF @ < 2 THEN @ + 1 ELSE @]

Finished(d, j, result) ==
    /\ batch' = [batch EXCEPT ![d] = @ \ {j}]
    /\ current' = [current EXCEPT ![d] = j]
    /\ outcome' = [outcome EXCEPT ![d] = result]

Send(d, j) ==
    /\ current[d] = NoJob /\ j \in batch[d]
    /\ EnqueueCopy(j)
    /\ Finished(d, j, "sent")
    /\ UNCHANGED <<rowVars, lapsed>>

\* Mutant: an error of the queue is logged and the job taken for sent.
MutSendFails(d, j) ==
    /\ current[d] = NoJob /\ j \in batch[d]
    /\ Finished(d, j, "sent")
    /\ UNCHANGED <<rowVars, queued, lapsed>>

\* sendJob throws: for a bad payload or an unreachable queue, or because the
\* answer of a queue that has accepted the job was lost.
SendFails(d, j) ==
    /\ current[d] = NoJob /\ j \in batch[d]
    /\ \/ UNCHANGED <<queued, lapsed>>
       \/ EnqueueCopy(j) /\ lapsed' = [lapsed EXCEPT ![j] = TRUE]
    /\ Finished(d, j, "failed")
    /\ UNCHANGED rowVars

Unlock(j) ==
    /\ lockedBy' = [lockedBy EXCEPT ![j] = Nobody]
    /\ lockExpired' = [lockExpired EXCEPT ![j] = FALSE]

Recorded(d) ==
    /\ current' = [current EXCEPT ![d] = NoJob]
    /\ outcome' = [outcome EXCEPT ![d] = "none"]
    /\ UNCHANGED batch

\* Mutant: the row keeps its lock.
MutSetSent(d, j) ==
    /\ status' = [status EXCEPT ![j] = IF lockedBy[j] = d THEN "SENT" ELSE @]
    /\ UNCHANGED <<due, attempts, lockedBy, lockExpired>>

\* The UPDATE of markOutboxSent, which matches only a row this worker has locked.
SetSent(d, j) ==
    /\ IF lockedBy[j] = d
         THEN status' = [status EXCEPT ![j] = "SENT"] /\ Unlock(j)
         ELSE UNCHANGED <<status, lockedBy, lockExpired>>
    /\ UNCHANGED <<due, attempts>>

MarkSent(d) ==
    /\ outcome[d] = "sent"
    /\ SetSent(d, current[d])
    /\ Recorded(d)
    /\ UNCHANGED <<queued, lapsed>>

\* markOutboxSent throws, with or without having updated the row: the job that
\* was sent is handled as one that was not.
MarkSentFails(d) ==
    /\ outcome[d] = "sent"
    /\ SetSent(d, current[d]) \/ UNCHANGED rowVars
    /\ lapsed' = [lapsed EXCEPT ![current[d]] = TRUE]
    /\ outcome' = [outcome EXCEPT ![d] = "failed"]
    /\ UNCHANGED <<queued, batch, current>>

\* Mutant: the update does not ask who has locked the row.
MutReschedule(d) ==
    LET j == current[d] IN
    /\ outcome[d] = "failed"
    /\ status' = [status EXCEPT ![j] = IF attempts[j] >= MaxAttempts THEN "FAILED" ELSE @]
    /\ due' = [due EXCEPT ![j] = FALSE]
    /\ Unlock(j)
    /\ Recorded(d)
    /\ UNCHANGED <<attempts, queued, lapsed>>

\* rescheduleOutboxOnFailure.  The attempts it compares are those it claimed the
\* row with, which are the row's as long as the row is locked by this worker.
Reschedule(d) ==
    LET j == current[d] IN
    /\ outcome[d] = "failed"
    /\ IF lockedBy[j] # d
         THEN UNCHANGED <<status, due, lockedBy, lockExpired>>
         ELSE /\ IF attempts[j] >= MaxAttempts
                   THEN status' = [status EXCEPT ![j] = "FAILED"] /\ UNCHANGED due
                   ELSE due' = [due EXCEPT ![j] = FALSE] /\ UNCHANGED status
              /\ Unlock(j)
    /\ Recorded(d)
    /\ UNCHANGED <<attempts, queued, lapsed>>

\* The process ends, or rescheduling throws: what is claimed stays locked.
Abandon(d) ==
    /\ ~Idle(d)
    /\ batch' = [batch EXCEPT ![d] = {}]
    /\ current' = [current EXCEPT ![d] = NoJob]
    /\ outcome' = [outcome EXCEPT ![d] = "none"]
    /\ UNCHANGED <<rowVars, queued, lapsed>>

Next ==
    \/ \E j \in Jobs : Enqueue(j) \/ RunAtComes(j) \/ LockExpires(j)
    \/ \E d \in Dispatchers :
          \/ \E S \in SUBSET Jobs : Claim(d, S)
          \/ \E j \in Jobs : Send(d, j) \/ SendFails(d, j)
          \/ MarkSent(d)
          \/ MarkSentFails(d)
          \/ Reschedule(d)
          \/ Abandon(d)

Spec == Init /\ [][Next]_vars

\* The steps that make progress with one job, for a dispatcher that still has it.
Claims(j)  == \E d \in Dispatchers, S \in SUBSET Jobs : j \in S /\ Claim(d, S)
Sends(j)   == \E d \in Dispatchers : lockedBy[j] = d /\ (Send(d, j) \/ SendFails(d, j))
Records(j) == \E d \in Dispatchers :
                  current[d] = j /\ lockedBy[j] = d /\ (MarkSent(d) \/ Reschedule(d))

\* Any step of a dispatcher that has something to do.
Proceeds(d) ==
    \/ \E j \in Jobs : Send(d, j) \/ SendFails(d, j)
    \/ MarkSent(d)
    \/ MarkSentFails(d)
    \/ Reschedule(d)
    \/ Abandon(d)

\* Time passes and calls return; the dispatchers poll, and rows are taken by run_at,
\* so a row that can be claimed again and again is; neither crashes nor slow calls
\* cut off every single attempt.  Nothing is assumed of the queue: sending may fail
\* for ever.
FairSpec ==
    /\ Spec
    /\ \A j \in Jobs :
          /\ WF_vars(RunAtComes(j)) /\ WF_vars(LockExpires(j))
          /\ SF_vars(Claims(j)) /\ SF_vars(Sends(j)) /\ SF_vars(Records(j))
    /\ \A d \in Dispatchers : WF_vars(Proceeds(d))

-----------------------------------------------------------------------------
(* Correctness.                                                            *)

\* Type invariant; a row that is closed, or not yet there, is not locked.
TypeOK ==
    /\ status \in [Jobs -> Statuses]
    /\ due \in [Jobs -> BOOLEAN]
    /\ attempts \in [Jobs -> 0..MaxAttempts]
    /\ lockedBy \in [Jobs -> Dispatchers \cup {Nobody}]
    /\ lockExpired \in [Jobs -> BOOLEAN]
    /\ queued \in [Jobs -> 0..2]
    /\ lapsed \in [Jobs -> BOOLEAN]
    /\ batch \in [Dispatchers -> SUBSET Jobs]
    /\ current \in [Dispatchers -> Jobs \cup {NoJob}]
    /\ outcome \in [Dispatchers -> {"none", "sent", "failed"}]
    /\ \A d \in Dispatchers : current[d] = NoJob <=> outcome[d] = "none"
    /\ \A j \in Jobs : lockedBy[j] # Nobody => status[j] = "PENDING"

\* No job is lost behind the queue's back: whichever dispatchers crash, are slow or
\* race, a row is SENT only if the queue has accepted the job.
SentIsQueued == \A j \in Jobs : status[j] = "SENT" => queued[j] > 0

\* The locks make dispatching exactly-once as far as they can: a job is queued a
\* second time, or given up although it was queued, only if a lock outlived its TTL
\* or a call failed without a known result.
OnceUnlessLapsed ==
    \A j \in Jobs : ~lapsed[j] => queued[j] <= 1 /\ (status[j] = "FAILED" => queued[j] = 0)

\* Two rows of one key are never PENDING or SENT together.
KeyIsUnique ==
    \A i, j \in Jobs : KeyOf[i] = KeyOf[j] /\ {status[i], status[j]} \subseteq Active => i = j

\* A dispatcher that lost its lock and comes back late changes nothing any more: a
\* row that is SENT or FAILED stays so, and so a key is never taken twice.
ClosedIsFinal ==
    /\ [][\A j \in Jobs : status[j] \in {"SENT", "FAILED"} => status'[j] = status[j]]_vars
    /\ []KeyIsUnique

\* Every job is dispatched or given up, whatever dispatchers die holding its lock.
EveryJobCloses == \A j \in Jobs : status[j] = "PENDING" ~> status[j] \in {"SENT", "FAILED"}
=============================================================================
