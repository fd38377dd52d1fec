----------------------------- MODULE CheckQueue -----------------------------
(***************************************************************************)
(* CCheckQueue and CCheckQueueControl (checkqueue.h): ConnectBlock, the    *)
(* master, hands the script checks of a block to a pool of workers and     *)
(* joins the pool until they are done.                                     *)
(*                                                                         *)
(* A critical section of the queue's mutex is one step.  A thread that     *)
(* waits on a condition variable is "waiting" until it is notified (or     *)
(* wakes up spuriously), then "woken" until it has the mutex again.        *)
(***************************************************************************)
EXTENDS Integers, Sequences, FiniteSets, SequencesExt

CONSTANTS
    Workers,       \* script check threads
    Master,        \* the thread that connects blocks
    Checks,        \* the checks of a block
    Bad,           \* the checks whose operator() returns false
    nBatchSize,    \* the queue's maximal batch
    nMaxInputs     \* bound: the checks added at once, those of a transaction

ASSUME MasterAssumption == Master \notin Workers
ASSUME BadAssumption    == Bad \subseteq Checks
ASSUME BatchAssumption  == nBatchSize \in Nat \ {0} /\ nMaxInputs \in Nat
ASSUME FiniteAssumption == IsFiniteSet(Workers) /\ IsFiniteSet(Checks)

Threads == Workers \cup {Master}

VARIABLES
    queue,                  \* checks nobody has taken, used as a stack
    nIdle, nTotal, nTodo,   \* counters guarded by the mutex
    fAllOk,
    pc,                     \* where each thread is
    batch,                  \* vChecks of each thread
    fOk,                    \* fOk of each thread when it took its batch
    added,                  \* history: checks of this block added so far
    verdict                 \* what the last Wait returned, and on which checks

queueVars == <<queue, nIdle, nTotal, nTodo, fAllOk>>
vars == <<queueVars, pc, batch, fOk, added, verdict>>

(* pc values: a worker begins at "start"; the master is "out" between      *)
(* blocks and "adding" while it has a CCheckQueueControl.                  *)
Blocked == {"waiting", "woken"}

Max2(a, b) == IF a > b THEN a ELSE b
Min2(a, b) == IF a < b THEN a ELSE b

BatchSize(total, idle) == Max2(1, Min2(nBatchSize, Len(queue) \div (total + idle + 1)))

-----------------------------------------------------------------------------
Init ==
    /\ queue = <<>> /\ nIdle = 0 /\ nTotal = 0 /\ nTodo = 0 /\ fAllOk = TRUE
    /\ pc = [t \in Threads |-> IF t = Master THEN "out" ELSE "start"]
    /\ batch = [t \in Threads |-> <<>>]
    /\ fOk = [t \in Threads |-> TRUE]
    /\ added = {}
    /\ verdict = [ok |-> TRUE, checks |-> {}]

(* Mutant: the verdict is not reset for the next block. *)
ResetStatus_Kept(all) == all

ResetStatus(all) == TRUE

LeftTotal(total) == total - 1

(* The rest of the critical section of Loop, after the clean-up has left   *)
(* the counters at todo, total, idle and the result at all: return, wait   *)
(* or take a batch.                                                        *)
Return(t, todo, total, idle, all) ==
    /\ queue = <<>> /\ t = Master /\ todo = 0
    /\ nTotal' = LeftTotal(total) /\ nIdle' = idle /\ nTodo' = todo
    /\ fAllOk' = ResetStatus(all)
    /\ verdict' = [ok |-> all, checks |-> added]
    /\ added' = {}
    /\ pc' = [pc EXCEPT ![t] = "out"]
    /\ batch' = [batch EXCEPT ![t] = <<>>]
    /\ UNCHANGED <<queue, fOk>>

(* Mutant: the last worker does not notify the master. *)
Notified_Nobody(t, todo) == pc

(* pc after condMaster.notify_one() when t has finished the last check. *)
Notified(t, todo) ==
    IF todo = 0 /\ t # Master /\ pc[t] = "working" /\ pc[Master] = "waiting"
    THEN [pc EXCEPT ![Master] = "woken"]
    ELSE pc

Sleep(t, todo, total, idle, all) ==
    /\ queue = <<>> /\ ~(t = Master /\ todo = 0)
    /\ nTotal' = total /\ nIdle' = idle + 1 /\ nTodo' = todo
    /\ fAllOk' = all
    /\ pc' = [Notified(t, todo) EXCEPT ![t] = "waiting"]
    /\ batch' = [batch EXCEPT ![t] = <<>>]
    /\ UNCHANGED <<queue, fOk, added, verdict>>

Take(t, todo, total, idle, all) ==
    /\ queue # <<>>
    /\ LET n == BatchSize(total, idle)
       IN  /\ batch' = [batch EXCEPT ![t] = SubSeq(queue, Len(queue) - n + 1, Len(queue))]
           /\ queue' = SubSeq(queue, 1, Len(queue) - n)
    /\ nTotal' = total /\ nIdle' = idle /\ nTodo' = todo
    /\ fAllOk' = all
    /\ fOk' = [fOk EXCEPT ![t] = all]
    /\ pc' = [Notified(t, todo) EXCEPT ![t] = "working"]
    /\ UNCHANGED <<added, verdict>>

Proceed(t, todo, total, idle, all) ==
    \/ Return(t, todo, total, idle, all)
    \/ Sleep(t, todo, total, idle, all)
    \/ Take(t, todo, total, idle, all)

(* A thread enters Loop: its first critical section. *)
EnterLoop(t) ==
    /\ pc[t] = "start"
    /\ Proceed(t, nTodo, nTotal + 1, nIdle, fAllOk)

(* Mutant: a thread keeps the result of its batch to itself. *)
Outcome_Lost(t) == TRUE

(* What the checks of t's batch come to: none is run once one has failed.  *)
Outcome(t) == fOk[t] /\ \A i \in DOMAIN batch[t] : batch[t][i] \notin Bad

(* A thread has run its batch, and reports it. *)
FinishBatch(t) ==
    /\ pc[t] = "working"
    /\ Proceed(t, nTodo - Len(batch[t]), nTotal, nIdle, fAllOk /\ Outcome(t))

(* Mutant: a thread that wakes up is still counted as idle. *)
WakeUp_StaysIdle(t) ==
    /\ pc[t] = "woken"
    /\ Proceed(t, nTodo, nTotal, nIdle, fAllOk)

(* A notified thread has the mutex again: nIdle--, the while is tested. *)
WakeUp(t) ==
    /\ pc[t] = "woken"
    /\ Proceed(t, nTodo, nTotal, nIdle - 1, fAllOk)

(* condition_variable::wait may return without a notification. *)
SpuriousWake(t) ==
    /\ pc[t] = "waiting"
    /\ pc' = [pc EXCEPT ![t] = "woken"]
    /\ UNCHANGED <<queueVars, batch, fOk, added, verdict>>

IsIdle == nTotal = nIdle /\ nTodo = 0 /\ fAllOk

(* ConnectBlock makes a CCheckQueueControl, whose constructor asserts      *)
(* IsIdle (see ControlFindsIdle).                                          *)
MakeControl ==
    /\ pc[Master] = "out"
    /\ pc' = [pc EXCEPT ![Master] = "adding"]
    /\ UNCHANGED <<queueVars, batch, fOk, added, verdict>>

(* Mutant: Add wakes one worker at most and counts one check at most. *)
CountAdded_One(s) == Min2(1, Len(s))

CountAdded(s) == Len(s)

(* Add: one check wakes one waiting worker, more wake them all. *)
Add(s) ==
    LET waiting == {w \in Workers : pc[w] = "waiting"}
    IN  /\ pc[Master] = "adding"
        /\ queue' = queue \o s
        /\ nTodo' = nTodo + CountAdded(s)
        /\ added' = added \cup ToSet(s)
        /\ \/ /\ Len(s) = 1 /\ waiting # {}
              /\ \E w \in waiting : pc' = [pc EXCEPT ![w] = "woken"]
           \/ /\ Len(s) = 1 /\ waiting = {}
              /\ pc' = pc
           \/ /\ Len(s) # 1
              /\ pc' = [t \in Threads |-> IF Len(s) > 1 /\ t \in waiting THEN "woken" ELSE pc[t]]
        /\ UNCHANGED <<nIdle, nTotal, fAllOk, batch, fOk, verdict>>

(* Wait of the control, or its destructor when the block was rejected      *)
(* early: the master enters Loop.                                          *)
Wait ==
    /\ pc[Master] = "adding"
    /\ pc' = [pc EXCEPT ![Master] = "start"]
    /\ UNCHANGED <<queueVars, batch, fOk, added, verdict>>

(* The checks of one transaction that are not in the queue yet. *)
NewBatches == {s \in SeqOf(Checks \ added, nMaxInputs) : IsInjective(s)}

Step(t) == EnterLoop(t) \/ FinishBatch(t) \/ WakeUp(t)

Next ==
    \/ \E t \in Threads : Step(t) \/ SpuriousWake(t)
    \/ MakeControl \/ Wait
    \/ \E s \in NewBatches : Add(s)

(* Every thread that can run is run: no thread is starved of the mutex,    *)
(* and ConnectBlock stops adding.                                          *)
Fairness == WF_vars(Wait) /\ \A t \in Threads : WF_vars(Step(t))

Spec == Init /\ [][Next]_vars /\ Fairness

-----------------------------------------------------------------------------
(* What the variables may hold: the counters, unsigned or bounded by the   *)
(* number of threads in the code, never leave their ranges.                *)
TypeOK ==
    /\ queue \in Seq(Checks)
    /\ nIdle \in 0..Cardinality(Threads) /\ nTotal \in 0..Cardinality(Threads)
    /\ nTodo \in 0..Cardinality(Checks)
    /\ fAllOk \in BOOLEAN
    /\ pc \in [Threads -> {"start", "waiting", "woken", "working", "out", "adding"}]
    /\ batch \in [Threads -> Seq(Checks)]
    /\ fOk \in [Threads -> BOOLEAN]
    /\ added \subseteq Checks
    /\ verdict \in [ok : BOOLEAN, checks : SUBSET Checks]

Pending == ToSet(queue) \cup UNION {ToSet(batch[t]) : t \in Threads}

(* nTodo counts the checks in the queue and in the threads' own batches,   *)
(* as its comment says, and no check is in two places.                     *)
TodoExact ==
    /\ nTodo = Cardinality(Pending)
    /\ IsInjective(queue)
    /\ \A t \in Threads : /\ IsInjective(batch[t])
                          /\ ToSet(batch[t]) \cap ToSet(queue) = {}
                          /\ \A u \in Threads \ {t} : ToSet(batch[t]) \cap ToSet(batch[u]) = {}

(* Wait returns true exactly when every check added since the control was  *)
(* made has been run and succeeded, whichever threads ran them.            *)
VerdictExact == verdict.ok <=> verdict.checks \cap Bad = {}

(* The assertion of CCheckQueueControl's constructor: between two blocks   *)
(* the queue is idle, whatever the workers are doing.                      *)
ControlFindsIdle == pc[Master] = "out" => IsIdle

(* nIdle counts the threads inside cond.wait, nTotal those inside Loop. *)
CountersExact ==
    /\ nIdle = Cardinality({t \in Threads : pc[t] \in Blocked})
    /\ nTotal = Cardinality({t \in Threads : pc[t] \in Blocked \cup {"working"}})

(* The three counters of the queue, by which the threads decide to sleep,  *)
(* to wake others and to return, count what they stand for.                *)
BookkeepingExact == TodoExact /\ CountersExact

(* No wake-up is lost: a block whose checks are being waited for is        *)
(* decided.                                                                *)
WaitReturns == pc[Master] = "start" ~> pc[Master] = "out"
=============================================================================
