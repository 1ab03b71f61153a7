--------------------------- MODULE ThumbnailPool ---------------------------
(***************************************************************************)
(* The pool of thumbnail worker processes of the file server               *)
(* (internal/fsthumbnail/thumbnail_pool.go).  Any number of conversions    *)
(* share a few persistent workers and a bounded queue.  A worker may hang, *)
(* die or answer nonsense; its conversion then times out or fails, the     *)
(* worker is killed and a new one launched in its slot by a goroutine of   *)
(* its own.  Close ends all that at any point.                             *)
(*                                                                         *)
(* A step is one critical section of pool.mu, or what a goroutine does     *)
(* outside of it.  A conversion is the id of its task.  What an answer     *)
(* says is left out: the pool does the same for all of them.               *)
(***************************************************************************)
EXTENDS Naturals, FiniteSets, Sequences

CONSTANTS
    MaxTasks,      \* bound on the conversions taken
    WorkerCount,   \* thumbnailWorkerCount
    MaxQueued,     \* thumbnailWorkerQueue
    Processes,     \* names of processes, used again once forgotten
    NoProcess

Tasks == 1..MaxTasks
NoTask == 0
Slots == 1..WorkerCount

ASSUME PoolAssumption ==
    /\ WorkerCount \in Nat \ {0}
    /\ MaxQueued \in Nat \ {0}
    /\ MaxTasks \in Nat
    /\ NoProcess \notin Processes

VARIABLES
    closed,        \* pool.closed
    queue,         \* pool.queue
    slots,         \* pool.workers: process, task and replacing of each
    nextID,        \* pool.nextID: the tasks 1..nextID were taken
    answers,       \* how many results were sent to each task.done
    timers,        \* the armed timers of tasks, by what their closures hold
    fired,         \* timers whose callback is waiting for pool.mu
    runs,          \* the goroutines of runAssignment
    replacers,     \* the goroutines of replaceWorker
    workers,       \* the processes: "none", "alive" or "dead" and not waited for
    closer,        \* where the (first) Close is
    closing        \* the processes it has yet to terminate

poolVars == <<closed, queue, slots, nextID, answers, timers, fired, runs,
              replacers, workers, closer, closing>>

\* thumbnailWorkerAssignment.  A task is assigned once, so that the generation
\* tells nothing that the task does not.
Assignments == [slot : Slots, process : Processes, task : Tasks]

EmptySlot == [process |-> NoProcess, task |-> NoTask, replacing |-> FALSE]

PoolInit ==
    /\ closed = FALSE
    /\ queue = <<>>
    /\ slots = [s \in Slots |-> EmptySlot]
    /\ nextID = 0
    /\ answers = [t \in Tasks |-> 0]
    /\ timers = {} /\ fired = {} /\ runs = {} /\ replacers = {}
    /\ workers = [p \in Processes |-> "none"]
    /\ closer = "none"
    /\ closing = {}

-----------------------------------------------------------------------------
(* What the critical sections share *)

Queued == {queue[i] : i \in 1..Len(queue)}

Runnable(ss)  == \E s \in Slots : ss[s].process # NoProcess /\ ~ss[s].replacing
Replacing(ss) == \E s \in Slots : ss[s].replacing

\* The workers with nothing to do.
Idle(ss) ==
    {s \in Slots :
        ss[s].process # NoProcess /\ ~ss[s].replacing /\ ss[s].task = NoTask}

\* A process that nobody knows: its pipes are not read any more either.
Unused ==
    {p \in Processes :
        /\ workers[p] = "none"
        /\ \A a \in timers \cup fired \cup {r.work : r \in runs} : a.process # p}

\* Slots without a worker where one is launched.
Empty == {s \in Slots : slots[s].process = NoProcess /\ ~slots[s].replacing}

\* New processes for the slots S: one way to name them, if there are names left
\* (which ones does not matter).
Launches(S) ==
    LET ways == {name \in [S -> Unused] : \A s, r \in S : name[s] = name[r] => s = r}
    IN  {name \in ways : name = CHOOSE w \in ways : TRUE}

\* finishTaskLocked of each of the tasks ts.
Finish(ts) ==
    answers' = [t \in Tasks |-> IF t \in ts THEN answers[t] + 1 ELSE answers[t]]

\* What the goroutines and timers of ts leave: a timer that has fired is not
\* taken back.
Armed(ts) == {a \in timers : a.task \notin ts}

\* The task q[i] in the hands of the worker given[i].
NewAssignments(ss, q, given) ==
    {[slot |-> given[i], process |-> ss[given[i]].process, task |-> q[i]] :
        i \in DOMAIN given}

\* dispatchLocked with the slots ss, the queue q, the tasks ts just finished
\* and the goroutines rest: the idle slots, in their order, take the head of
\* the queue until one of the two is used up.
Dispatch(ss, q, ts, rest) ==
    \E n \in 0..Len(q) : \E given \in [1..n -> Idle(ss)] :
        LET left == Idle(ss) \ {given[i] : i \in 1..n}
            new  == NewAssignments(ss, q, given)
        IN  /\ \A i, j \in 1..n : i < j => given[i] < given[j]
            /\ \A i \in 1..n, s \in left : given[i] < s
            /\ n = Len(q) \/ left = {}
            /\ slots' = [s \in Slots |->
                           IF s \in Idle(ss) \ left
                           THEN [ss[s] EXCEPT !.task = q[CHOOSE i \in 1..n : given[i] = s]]
                           ELSE ss[s]]
            /\ queue' = SubSeq(q, n + 1, Len(q))
            /\ timers' = Armed(ts) \cup new
            /\ runs' = rest \cup {[work |-> a, outcome |-> "working"] : a \in new}

DispatchOrRejectWaitsBug(ss, q) ==
    IF Runnable(ss) \/ Replacing(ss)
    THEN Dispatch(ss, q, {}, runs) /\ UNCHANGED answers
    ELSE slots' = ss /\ queue' = q /\ UNCHANGED <<answers, timers, runs>>

\* What follows a launch: with a worker, or one to come, dispatchLocked, and
\* without rejectQueuedLocked.
DispatchOrReject(ss, q) ==
    IF Runnable(ss) \/ Replacing(ss)
    THEN /\ Dispatch(ss, q, {}, runs)
         /\ UNCHANGED answers
    ELSE /\ Finish({q[i] : i \in 1..Len(q)})
         /\ queue' = <<>>
         /\ slots' = ss
         /\ UNCHANGED <<timers, runs>>

HoldsAnyTaskBug(a) == ~closed /\ slots[a.slot].process = a.process

\* A goroutine or callback finds its assignment as it was.
Holds(a) ==
    /\ ~closed
    /\ slots[a.slot].process = a.process
    /\ slots[a.slot].task = a.task

-----------------------------------------------------------------------------
(* convert *)

\* A conversion that is refused, by a closed pool or a full queue, changes
\* nothing.  ensureWorkersLocked tries to launch a process in each empty slot;
\* any of the launches may fail.
Convert ==
    /\ ~closed
    /\ Len(queue) < MaxQueued
    /\ nextID < MaxTasks
    /\ nextID' = nextID + 1
    /\ \E launching \in SUBSET Empty : \E name \in Launches(launching) :
          /\ workers' = [p \in Processes |->
                IF \E s \in launching : name[s] = p THEN "alive" ELSE workers[p]]
          /\ DispatchOrReject(
                [s \in Slots |-> IF s \in launching
                                 THEN [slots[s] EXCEPT !.process = name[s]] ELSE slots[s]],
                Append(queue, nextID + 1))
    /\ UNCHANGED <<closed, fired, replacers, closer, closing>>

-----------------------------------------------------------------------------
(* The worker processes and runAssignment *)

WorkerExits(p) ==
    /\ workers[p] = "alive"
    /\ workers' = [workers EXCEPT ![p] = "dead"]
    /\ UNCHANGED <<closed, queue, slots, nextID, answers, timers, fired, runs,
                   replacers, closer, closing>>

\* runAssignment has the outcome of its request, and does not hold pool.mu yet.
RunEnds(r, outcome) ==
    /\ r \in runs /\ r.outcome = "working"
    /\ runs' = (runs \ {r}) \cup {[r EXCEPT !.outcome = outcome]}
    /\ UNCHANGED <<closed, queue, slots, nextID, answers, timers, fired,
                   replacers, workers, closer, closing>>

\* The worker answers, with something or with nonsense.
WorkerAnswers(r) ==
    /\ workers[r.work.process] = "alive"
    /\ \E outcome \in {"answered", "broken"} : RunEnds(r, outcome)

\* The pipes of a process that is gone are closed.
PipeCloses(r) == workers[r.work.process] # "alive" /\ RunEnds(r, "broken")

CompleteAssignment(r) ==
    /\ r \in runs /\ r.outcome = "answered"
    /\ IF Holds(r.work)
       THEN /\ Finish({r.work.task})
            /\ Dispatch([slots EXCEPT ![r.work.slot].task = NoTask], queue,
                        {r.work.task}, runs \ {r})
       ELSE /\ runs' = runs \ {r}
            /\ UNCHANGED <<answers, slots, queue, timers>>
    /\ UNCHANGED <<closed, nextID, fired, replacers, workers, closer, closing>>

-----------------------------------------------------------------------------
(* Failures and timeouts: detachFailedWorker *)

Detach(a, rest) ==
    IF Holds(a)
    THEN /\ Finish({a.task})
         /\ Dispatch([slots EXCEPT ![a.slot] = [EmptySlot EXCEPT !.replacing = TRUE]],
                     queue, {a.task}, rest)
         /\ replacers' = replacers \cup
               {[slot |-> a.slot, process |-> a.process, pc |-> "terminate"]}
    ELSE /\ runs' = rest
         /\ UNCHANGED <<answers, slots, queue, timers, replacers>>

FailWorker(r) ==
    /\ r \in runs /\ r.outcome = "broken"
    /\ Detach(r.work, runs \ {r})
    /\ UNCHANGED <<closed, nextID, fired, workers, closer, closing>>

TimerFires(a) ==
    /\ a \in timers
    /\ timers' = timers \ {a}
    /\ fired' = fired \cup {a}
    /\ UNCHANGED <<closed, queue, slots, nextID, answers, runs, replacers, workers,
                   closer, closing>>

TimeoutWorker(a) ==
    /\ a \in fired
    /\ fired' = fired \ {a}
    /\ Detach(a, runs)
    /\ UNCHANGED <<closed, nextID, workers, closer, closing>>

\* replaceWorker: terminateAndWait, and then its critical section.
ReplaceTerminates(x) ==
    /\ x \in replacers /\ x.pc = "terminate"
    /\ workers' = [workers EXCEPT ![x.process] = "none"]
    /\ replacers' = (replacers \ {x}) \cup {[x EXCEPT !.pc = "launch"]}
    /\ UNCHANGED <<closed, queue, slots, nextID, answers, timers, fired, runs,
                   closer, closing>>

ReplaceLaunchesClosedBug(x) ==
    /\ x \in replacers /\ x.pc = "launch"
    /\ replacers' = replacers \ {x}
    /\ \E p \in {NoProcess} \cup {name[x.slot] : name \in Launches({x.slot})} :
          /\ workers' = [q \in Processes |-> IF q = p THEN "alive" ELSE workers[q]]
          /\ DispatchOrReject([slots EXCEPT ![x.slot] =
                                  [EmptySlot EXCEPT !.process = p]], queue)
    /\ UNCHANGED <<closed, nextID, fired, closer, closing>>

ReplaceLaunches(x) ==
    /\ x \in replacers /\ x.pc = "launch"
    /\ replacers' = replacers \ {x}
    /\ IF closed
       THEN /\ slots' = [slots EXCEPT ![x.slot].replacing = FALSE]
            /\ UNCHANGED <<queue, answers, timers, runs, workers>>
       ELSE \E p \in {NoProcess} \cup {name[x.slot] : name \in Launches({x.slot})} :
              /\ workers' = [q \in Processes |->
                               IF q = p THEN "alive" ELSE workers[q]]
              /\ DispatchOrReject([slots EXCEPT ![x.slot] =
                                      [EmptySlot EXCEPT !.process = p]], queue)
    /\ UNCHANGED <<closed, nextID, fired, closer, closing>>

-----------------------------------------------------------------------------
(* close.  A second one returns at once. *)

CloseBegins ==
    /\ ~closed
    /\ closed' = TRUE
    /\ LET working == {slots[s].task : s \in Slots} \ {NoTask}
       IN  /\ Finish(Queued \cup working)
           /\ timers' = Armed(working)
    /\ queue' = <<>>
    /\ closing' = {slots[s].process : s \in Slots} \ {NoProcess}
    /\ slots' = [s \in Slots |->
                   IF slots[s].process = NoProcess THEN slots[s]
                   ELSE [EmptySlot EXCEPT !.replacing = TRUE]]
    /\ closer' = "terminating"
    /\ UNCHANGED <<nextID, fired, runs, replacers, workers>>

CloseTerminates(p) ==
    /\ closer = "terminating"
    /\ p \in closing
    /\ workers' = [workers EXCEPT ![p] = "none"]
    /\ closing' = closing \ {p}
    /\ UNCHANGED <<closed, queue, slots, nextID, answers, timers, fired, runs,
                   replacers, closer>>

\* replacements.Wait has returned.
CloseEnds ==
    /\ closer = "terminating"
    /\ closing = {}
    /\ replacers = {}
    /\ closer' = "finished"
    /\ slots' = [s \in Slots |-> [slots[s] EXCEPT !.replacing = FALSE]]
    /\ UNCHANGED <<closed, queue, nextID, answers, timers, fired, runs, replacers,
                   workers, closing>>

-----------------------------------------------------------------------------
PoolNext ==
    \/ Convert
    \/ \E p \in Processes : WorkerExits(p) \/ CloseTerminates(p)
    \/ \E r \in runs :
          WorkerAnswers(r) \/ PipeCloses(r) \/ CompleteAssignment(r) \/ FailWorker(r)
    \/ \E a \in timers : TimerFires(a)
    \/ \E a \in fired : TimeoutWorker(a)
    \/ \E x \in replacers : ReplaceTerminates(x) \/ ReplaceLaunches(x)
    \/ CloseBegins
    \/ CloseEnds

PoolSpec == PoolInit /\ [][PoolNext]_poolVars

\* Timers fire, goroutines run and get pool.mu, a killed process dies.  Nothing
\* is assumed of the workers: one may hang for ever.
PoolFairness ==
    /\ WF_poolVars(\E a \in timers : TimerFires(a))
    /\ WF_poolVars(\E a \in fired : TimeoutWorker(a))
    /\ WF_poolVars(\E r \in runs : CompleteAssignment(r) \/ FailWorker(r))
    /\ WF_poolVars(\E x \in replacers : ReplaceTerminates(x) \/ ReplaceLaunches(x))

FairPoolSpec == PoolSpec /\ PoolFairness

-----------------------------------------------------------------------------
(* Properties *)

PoolTypeOK ==
    /\ closed \in BOOLEAN
    /\ queue \in Seq(Tasks) /\ Len(queue) <= MaxQueued
    /\ slots \in [Slots -> [process : Processes \cup {NoProcess},
                            task : Tasks \cup {NoTask}, replacing : BOOLEAN]]
    /\ nextID \in 0..MaxTasks
    /\ answers \in [Tasks -> Nat]
    /\ timers \subseteq Assignments /\ fired \subseteq Assignments
    /\ runs \subseteq [work : Assignments,
                       outcome : {"working", "answered", "broken"}]
    /\ replacers \subseteq [slot : Slots, process : Processes,
                            pc : {"terminate", "launch"}]
    /\ workers \in [Processes -> {"none", "alive", "dead"}]
    /\ closer \in {"none", "terminating", "finished"}
    /\ closing \subseteq Processes

\* A conversion is in one place: the queue, a worker's hands, or answered.
InOnePlace ==
    LET working == {slots[s].task : s \in Slots}
    IN  /\ \A i, j \in 1..Len(queue) : queue[i] = queue[j] => i = j
        /\ \A s, r \in Slots :
              slots[s].task = slots[r].task => s = r \/ slots[s].task = NoTask
        /\ Queued \cap working = {}
        /\ \A t \in Tasks :
              answers[t] = IF t <= nextID /\ t \notin Queued \cup working THEN 1 ELSE 0

\* It waits in the queue only while all workers are at work, and there is one,
\* or one to come, that will take it.
WaitsForAWorker ==
    queue # <<>> => Idle(slots) = {} /\ (Runnable(slots) \/ Replacing(slots))

\* A late answer, a timeout and Close never answer a conversion twice, and no
\* replacement, failed launch or full house of workers forgets one.
NothingLost == InOnePlace /\ WaitsForAWorker

\* Every process has one owner who will terminate it: its slot, its replacer or
\* Close.  There are never more than the pool may have, and none once Close has
\* returned, whatever was being replaced when it began.
WorkersAreOwned ==
    LET running == {p \in Processes : workers[p] # "none"}
    IN  /\ \A p \in running :
              \/ p \in closing
              \/ \E s \in Slots : slots[s].process = p
              \/ \E x \in replacers : x.process = p /\ x.pc = "terminate"
        /\ Cardinality(running) <= WorkerCount
        /\ closer = "finished" => running = {}

\* Every conversion is answered, though workers hang, die and cannot be launched.
EveryConversionIsAnswered ==
    \A t \in Tasks : t <= nextID ~> answers[t] # 0
=============================================================================
