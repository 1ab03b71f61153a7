------------------------ MODULE ThumbnailPool_proofs ------------------------
(***************************************************************************)
(* Proofs about ThumbnailPool, for any number of workers, processes and    *)
(* conversions and any length of the queue.  The argument:                 *)
(*   - a dispatch moves conversions from the queue to workers and loses    *)
(*     none (DispatchPlaces), and every other step of the pool first       *)
(*     leaves them placed as a dispatch needs it (PlacedInv);              *)
(*   - while the pool is open a slot has a worker or at most one goroutine *)
(*     that replaces it, never both (SlotInv), so that the slots count the *)
(*     processes (OwnedInv);                                               *)
(*   - once it is closed processes only go away (ClosedInv);               *)
(*   - what a worker holds has a timer, what is being replaced a goroutine *)
(*     that does it, and the queue is the latest of the conversions, in    *)
(*     their order (AnswerInv).                                            *)
(***************************************************************************)
EXTENDS ThumbnailPool, FiniteSetTheorems, SequenceTheorems, TLAPS

Slot == [process : Processes \cup {NoProcess}, task : Tasks \cup {NoTask},
         replacing : BOOLEAN]

-----------------------------------------------------------------------------
(* The inductive invariant *)

\* Who has a task has a process, and who has a process is not being replaced.
Staffed(ss) ==
    \A s \in Slots : /\ ss[s].task # NoTask => ss[s].process # NoProcess
                     /\ ss[s].process # NoProcess => ~ss[s].replacing

Held(t, ss, q) ==
    (\E i \in 1..Len(q) : q[i] = t) \/ (\E s \in Slots : ss[s].task = t)

\* InOnePlace, of the slots ss and the queue q, with the answers so far and the
\* last conversion taken.
Placed(ss, q, sent, last) ==
    /\ \A i, j \in 1..Len(q) : q[i] = q[j] => i = j
    /\ \A s, r \in Slots : ss[s].task = ss[r].task => s = r \/ ss[s].task = NoTask
    /\ \A i \in 1..Len(q), s \in Slots : q[i] # ss[s].task
    /\ \A t \in Tasks : Held(t, ss, q) => t <= last
    /\ \A t \in Tasks : sent[t] = IF t <= last /\ ~Held(t, ss, q) THEN 1 ELSE 0

PlacedInv == Placed(slots, queue, answers, nextID) /\ WaitsForAWorker

SlotInv ==
    /\ Staffed(slots)
    /\ ~closed => \A x \in replacers :
          /\ slots[x.slot].process = NoProcess
          /\ slots[x.slot].replacing
          /\ \A y \in replacers : y.slot = x.slot => y = x

Running == {p \in Processes : workers[p] # "none"}

OwnedInv ==
    \A p \in Running :
        \/ p \in closing
        \/ \E s \in Slots : slots[s].process = p
        \/ \E x \in replacers : x.process = p /\ x.pc = "terminate"

ClosedInv ==
    /\ closed <=> closer # "none"
    /\ ~closed => closing = {}
    /\ closed => /\ queue = <<>>
                 /\ \A s \in Slots : slots[s].process = NoProcess
                 /\ IsFiniteSet(Running) /\ Cardinality(Running) <= WorkerCount
    /\ closer = "finished" => closing = {} /\ replacers = {}

PoolInv == PoolTypeOK /\ SlotInv /\ PlacedInv /\ OwnedInv /\ ClosedInv

-----------------------------------------------------------------------------
(* dispatchLocked *)

\* What a dispatch does, slot by slot and place by place of the queue.
LEMMA DispatchGives ==
    ASSUME NEW ss \in [Slots -> Slot], NEW q \in Seq(Tasks), NEW ts, NEW rest,
           Dispatch(ss, q, ts, rest)
    PROVE  \E n \in 0..Len(q) : \E given \in [1..n -> Idle(ss)] :
             /\ \A i, j \in 1..n : given[i] = given[j] => i = j
             /\ slots' \in [Slots -> Slot]
             /\ \A i \in 1..n : slots'[given[i]] = [ss[given[i]] EXCEPT !.task = q[i]]
             /\ \A s \in Slots : (\A i \in 1..n : given[i] # s) => slots'[s] = ss[s]
             /\ n = Len(q) \/ \A s \in Idle(ss) : \E i \in 1..n : given[i] = s
             /\ queue' \in Seq(Tasks)
             /\ Len(queue') = Len(q) - n
             /\ \A i \in 1..(Len(q) - n) : queue'[i] = q[n + i]
             /\ \A i \in 1..n : q[i] \in Tasks
<1> DEFINE Left(n, given) == Idle(ss) \ {given[i] : i \in 1..n}
           Gives(n, given) ==
             /\ \A i, j \in 1..n : i < j => given[i] < given[j]
             /\ n = Len(q) \/ Left(n, given) = {}
             /\ slots' = [s \in Slots |->
                            IF s \in Idle(ss) \ Left(n, given)
                            THEN [ss[s] EXCEPT !.task = q[CHOOSE i \in 1..n : given[i] = s]]
                            ELSE ss[s]]
             /\ queue' = SubSeq(q, n + 1, Len(q))
<1>a. PICK n \in 0..Len(q) : \E given \in [1..n -> Idle(ss)] : Gives(n, given)
    BY DEF Dispatch
<1>0. PICK given \in [1..n -> Idle(ss)] : Gives(n, given)
    BY <1>a
<1>1. Len(q) \in Nat /\ \A i \in 1..Len(q) : q[i] \in Tasks
    BY LenProperties
<1>2. Idle(ss) \subseteq Slots /\ Slots \subseteq Int
    BY PoolAssumption DEF Idle, Slots, PoolAssumption
<1>3. \A i, j \in 1..n : given[i] = given[j] => i = j
    BY <1>0, <1>1, <1>2
<1>4. \A i \in 1..n : (CHOOSE j \in 1..n : given[j] = given[i]) = i
    BY <1>3
<1>5. \A i \in 1..n : slots'[given[i]] = [ss[given[i]] EXCEPT !.task = q[i]]
    BY <1>0, <1>2, <1>4
<1>6. \A s \in Slots : (\A i \in 1..n : given[i] # s) => slots'[s] = ss[s]
    BY <1>0
<1>7. n = Len(q) \/ \A s \in Idle(ss) : \E i \in 1..n : given[i] = s
    BY <1>0
<1>8. \A i \in 1..n : q[i] \in Tasks
    BY <1>1
<1>9. slots' \in [Slots -> Slot]
    <2>1. \A s \in Slots : slots'[s] \in Slot
        <3> SUFFICES ASSUME NEW s \in Slots PROVE slots'[s] \in Slot
            OBVIOUS
        <3>1. CASE \E i \in 1..n : given[i] = s
            <4>1. PICK i \in 1..n : given[i] = s
                BY <3>1
            <4>2. slots'[s] = [ss[s] EXCEPT !.task = q[i]] /\ q[i] \in Tasks
                BY <4>1, <1>5, <1>8
            <4> QED
                BY <4>2 DEF Slot
        <3>2. CASE \A i \in 1..n : given[i] # s
            BY <3>2, <1>6
        <3> QED
            BY <3>1, <3>2
    <2> QED
        BY <2>1, <1>0
<1>10. /\ queue' \in Seq(Tasks)
       /\ Len(queue') = Len(q) - n
       /\ \A i \in 1..(Len(q) - n) : queue'[i] = q[n + i]
    <2>1. PICK m \in Int : m = n + 1
        BY <1>1
    <2>2. Len(q) \in Int /\ \A i \in m .. Len(q) : q[i] \in Tasks
        BY <2>1, <1>1
    <2>3. /\ SubSeq(q, m, Len(q)) \in Seq(Tasks)
          /\ Len(SubSeq(q, m, Len(q))) = IF m <= Len(q) THEN Len(q) - m + 1 ELSE 0
          /\ \A i \in 1 .. Len(q) - m + 1 : SubSeq(q, m, Len(q))[i] = q[m + i - 1]
        BY <2>2, SubSeqProperties
    <2>4. queue' = SubSeq(q, m, Len(q))
        BY <2>1, <1>0
    <2> HIDE DEF Gives
    <2> QED
        BY <2>1, <2>3, <2>4, <1>1
<1> QED
    BY <1>3, <1>5, <1>6, <1>7, <1>8, <1>9, <1>10

LEMMA DispatchPlaces ==
    ASSUME NEW ss \in [Slots -> Slot], NEW q \in Seq(Tasks), NEW ts, NEW rest,
           NEW sent, NEW last \in Nat,
           Dispatch(ss, q, ts, rest), Staffed(ss), Placed(ss, q, sent, last)
    PROVE  /\ slots' \in [Slots -> Slot]
           /\ queue' \in Seq(Tasks) /\ Len(queue') <= Len(q)
           /\ Staffed(slots') /\ Placed(slots', queue', sent, last)
           /\ \A s \in Slots : /\ slots'[s].process = ss[s].process
                               /\ slots'[s].replacing = ss[s].replacing
           /\ queue' # <<>> => Idle(slots') = {}
<1>1. PICK n \in 0..Len(q) : \E given \in [1..n -> Idle(ss)] :
             /\ \A i, j \in 1..n : given[i] = given[j] => i = j
             /\ slots' \in [Slots -> Slot]
             /\ \A i \in 1..n : slots'[given[i]] = [ss[given[i]] EXCEPT !.task = q[i]]
             /\ \A s \in Slots : (\A i \in 1..n : given[i] # s) => slots'[s] = ss[s]
             /\ n = Len(q) \/ \A s \in Idle(ss) : \E i \in 1..n : given[i] = s
             /\ queue' \in Seq(Tasks)
             /\ Len(queue') = Len(q) - n
             /\ \A i \in 1..(Len(q) - n) : queue'[i] = q[n + i]
             /\ \A i \in 1..n : q[i] \in Tasks
    BY DispatchGives
<1>2. PICK given \in [1..n -> Idle(ss)] :
             /\ \A i, j \in 1..n : given[i] = given[j] => i = j
             /\ \A i \in 1..n : slots'[given[i]] = [ss[given[i]] EXCEPT !.task = q[i]]
             /\ \A s \in Slots : (\A i \in 1..n : given[i] # s) => slots'[s] = ss[s]
             /\ n = Len(q) \/ \A s \in Idle(ss) : \E i \in 1..n : given[i] = s
    BY <1>1
<1>3. Len(q) \in Nat /\ NoTask \notin Tasks /\ Tasks \subseteq Nat
    BY LenProperties, PoolAssumption DEF NoTask, Tasks, PoolAssumption
<1>4. \A i \in 1..n :
        /\ given[i] \in Slots
        /\ ss[given[i]] \in Slot
        /\ ss[given[i]].task = NoTask
        /\ ss[given[i]].process # NoProcess
        /\ ~ss[given[i]].replacing
        /\ slots'[given[i]].task = q[i]
        /\ slots'[given[i]].process = ss[given[i]].process
        /\ slots'[given[i]].replacing = ss[given[i]].replacing
    <2> SUFFICES ASSUME NEW i \in 1..n
                 PROVE  /\ given[i] \in Slots
                        /\ ss[given[i]] \in Slot
                        /\ ss[given[i]].task = NoTask
                        /\ ss[given[i]].process # NoProcess
                        /\ ~ss[given[i]].replacing
                        /\ slots'[given[i]].task = q[i]
                        /\ slots'[given[i]].process = ss[given[i]].process
                        /\ slots'[given[i]].replacing = ss[given[i]].replacing
        OBVIOUS
    <2>1. given[i] \in Idle(ss)
        OBVIOUS
    <2>2. slots'[given[i]] = [ss[given[i]] EXCEPT !.task = q[i]]
        BY <1>2
    <2> QED
        BY <2>1, <2>2 DEF Idle, Slot
<1>5. \A s \in Slots : \/ \E i \in 1..n : given[i] = s
                       \/ slots'[s] = ss[s] /\ \A i \in 1..n : given[i] # s
    BY <1>2
<1>6. \A s \in Slots : /\ slots'[s].process = ss[s].process
                       /\ slots'[s].replacing = ss[s].replacing
    BY <1>4, <1>5
<1>7. Staffed(slots')
    BY <1>4, <1>5 DEF Staffed
<1>8. /\ queue' \in Seq(Tasks)
      /\ Len(queue') = Len(q) - n
      /\ \A i \in 1..(Len(q) - n) : queue'[i] = q[n + i]
      /\ \A i \in 1..n : q[i] \in Tasks
    BY <1>1
<1>9. \A i \in 1..Len(queue') : n + i \in 1..Len(q) /\ queue'[i] = q[n + i]
    BY <1>3, <1>8
<1>10. 1..n \subseteq 1..Len(q)
    BY <1>3
<1>11. \A i \in 1..Len(q) : \/ i \in 1..n
                            \/ \E j \in 1..Len(queue') : i = n + j /\ queue'[j] = q[i]
    <2> SUFFICES ASSUME NEW i \in 1..Len(q), i \notin 1..n
                 PROVE  \E j \in 1..Len(queue') : i = n + j /\ queue'[j] = q[i]
        OBVIOUS
    <2>1. i - n \in 1..Len(queue') /\ i = n + (i - n)
        BY <1>3, <1>8
    <2> QED
        BY <2>1, <1>9
<1>12. \A t \in Tasks : Held(t, slots', queue') <=> Held(t, ss, q)
    <2> SUFFICES ASSUME NEW t \in Tasks
                 PROVE  Held(t, slots', queue') <=> Held(t, ss, q)
        OBVIOUS
    <2>1. ASSUME NEW i \in 1..Len(q), q[i] = t PROVE Held(t, slots', queue')
        BY <2>1, <1>4, <1>11 DEF Held
    <2>2. ASSUME NEW s \in Slots, ss[s].task = t PROVE Held(t, slots', queue')
        BY <2>2, <1>3, <1>4, <1>5 DEF Held
    <2>3. ASSUME NEW i \in 1..Len(queue'), queue'[i] = t PROVE Held(t, ss, q)
        BY <2>3, <1>9 DEF Held
    <2>4. ASSUME NEW s \in Slots, slots'[s].task = t PROVE Held(t, ss, q)
        BY <2>4, <1>4, <1>5, <1>10 DEF Held
    <2> QED
        BY <2>1, <2>2, <2>3, <2>4 DEF Held
<1>13. \A i, j \in 1..Len(queue') : queue'[i] = queue'[j] => i = j
    BY <1>3, <1>9 DEF Placed
<1>14. \A s, r \in Slots : slots'[s].task = slots'[r].task => s = r \/ slots'[s].task = NoTask
    BY <1>3, <1>4, <1>5, <1>10 DEF Placed
<1>15. \A i \in 1..Len(queue'), s \in Slots : queue'[i] # slots'[s].task
    <2> SUFFICES ASSUME NEW i \in 1..Len(queue'), NEW s \in Slots,
                        queue'[i] = slots'[s].task
                 PROVE  FALSE
        OBVIOUS
    <2>1. n + i \in 1..Len(q) /\ queue'[i] = q[n + i]
        BY <1>9
    <2>2. CASE \E j \in 1..n : given[j] = s
        <3>1. PICK j \in 1..n : given[j] = s
            BY <2>2
        <3>2. j \in 1..Len(q) /\ q[j] = q[n + i]
            BY <3>1, <2>1, <1>4, <1>10
        <3>3. j = n + i
            BY <3>2, <2>1 DEF Placed
        <3> QED
            BY <3>3, <1>3
    <2>3. CASE slots'[s] = ss[s]
        BY <2>1, <2>3 DEF Placed
    <2> QED
        BY <2>2, <2>3, <1>5
<1>16. Placed(slots', queue', sent, last)
    BY <1>12, <1>13, <1>14, <1>15 DEF Placed
<1>17. ASSUME queue' # <<>> PROVE Idle(slots') = {}
    <2>1. n # Len(q)
        BY <1>17, <1>8, EmptySeq
    <2>2. \A s \in Idle(ss) : \E i \in 1..n : given[i] = s
        BY <2>1, <1>2
    <2>3. \A s \in Slots : slots'[s].task = NoTask => slots'[s] = ss[s]
        BY <1>3, <1>4, <1>5, <1>8
    <2> QED
        BY <2>2, <2>3, <1>3, <1>4, <1>8 DEF Idle
<1> QED
    BY <1>1, <1>3, <1>6, <1>7, <1>8, <1>16, <1>17

Runs == [work : Assignments, outcome : {"working", "answered", "broken"}]

LEMMA DispatchTypes ==
    ASSUME NEW ss \in [Slots -> Slot], NEW q \in Seq(Tasks), NEW ts,
           NEW rest \in SUBSET Runs, timers \subseteq Assignments,
           Dispatch(ss, q, ts, rest)
    PROVE  timers' \subseteq Assignments /\ runs' \subseteq Runs
<1>1. PICK n \in 0..Len(q) : \E given \in [1..n -> Idle(ss)] :
            /\ timers' = Armed(ts) \cup NewAssignments(ss, q, given)
            /\ runs' = rest \cup {[work |-> a, outcome |-> "working"] :
                                    a \in NewAssignments(ss, q, given)}
    BY DEF Dispatch
<1>2. PICK given \in [1..n -> Idle(ss)] :
            /\ timers' = Armed(ts) \cup NewAssignments(ss, q, given)
            /\ runs' = rest \cup {[work |-> a, outcome |-> "working"] :
                                    a \in NewAssignments(ss, q, given)}
    BY <1>1
<1>3. NewAssignments(ss, q, given) \subseteq Assignments
    <2> SUFFICES ASSUME NEW i \in 1..n
                 PROVE  [slot |-> given[i], process |-> ss[given[i]].process,
                         task |-> q[i]] \in Assignments
        BY DEF NewAssignments
    <2>1. given[i] \in Slots /\ ss[given[i]].process \in Processes
        BY DEF Idle, Slot
    <2>2. q[i] \in Tasks
        BY LenProperties
    <2> QED
        BY <2>1, <2>2 DEF Assignments
<1> QED
    BY <1>2, <1>3 DEF Armed, Runs

\* Where the tasks are is all that Placed asks of the slots.
LEMMA SamePlaces ==
    ASSUME NEW ss, NEW tt, NEW q, NEW sent, NEW last, Placed(ss, q, sent, last),
           \A s \in Slots : tt[s].task = ss[s].task
    PROVE  Placed(tt, q, sent, last)
<1>1. \A t \in Tasks : Held(t, tt, q) <=> Held(t, ss, q)
    BY DEF Held
<1>2. \A s, r \in Slots : tt[s].task = tt[r].task => s = r \/ tt[s].task = NoTask
    BY DEF Placed
<1>3. \A i \in 1..Len(q), s \in Slots : q[i] # tt[s].task
    BY DEF Placed
<1>4. /\ \A t \in Tasks : Held(t, tt, q) => t <= last
      /\ \A t \in Tasks : sent[t] = IF t <= last /\ ~Held(t, tt, q) THEN 1 ELSE 0
    BY <1>1 DEF Placed
<1>5. \A i, j \in 1..Len(q) : q[i] = q[j] => i = j
    BY DEF Placed
<1> QED
    BY <1>2, <1>3, <1>4, <1>5 DEF Placed

LEMMA FinishTypes ==
    ASSUME NEW ts, answers \in [Tasks -> Nat], Finish(ts)
    PROVE  answers' \in [Tasks -> Nat]
BY DEF Finish

\* The queued conversions are answered and forgotten.
LEMMA RejectPlaces ==
    ASSUME NEW ss \in [Slots -> Slot], NEW q \in Seq(Tasks), NEW last \in Nat,
           answers \in [Tasks -> Nat], Placed(ss, q, answers, last),
           Finish({q[i] : i \in 1..Len(q)})
    PROVE  Placed(ss, <<>>, answers', last)
<1>1. Len(<<>>) = 0
    BY EmptySeq
<1>2. 1..Len(<<>>) = {}
    BY <1>1
<1>3. Len(q) \in Nat /\ \A i \in 1..Len(q) : q[i] \in Tasks
    BY LenProperties
<1>4. \A t \in Tasks :
         answers'[t] = IF t <= last /\ ~Held(t, ss, <<>>) THEN 1 ELSE 0
    <2> SUFFICES ASSUME NEW t \in Tasks
                 PROVE  answers'[t] = IF t <= last /\ ~Held(t, ss, <<>>) THEN 1 ELSE 0
        OBVIOUS
    <2>1. CASE \E i \in 1..Len(q) : q[i] = t
        <3>1. Held(t, ss, q) /\ ~Held(t, ss, <<>>)
            BY <2>1, <1>2 DEF Held, Placed
        <3>2. answers[t] = 0 /\ answers'[t] = answers[t] + 1 /\ t <= last
            BY <2>1, <3>1 DEF Placed, Finish
        <3> QED
            BY <3>1, <3>2
    <2>2. CASE ~\E i \in 1..Len(q) : q[i] = t
        <3>1. Held(t, ss, q) <=> Held(t, ss, <<>>)
            BY <2>2, <1>2 DEF Held
        <3>2. answers'[t] = answers[t]
            BY <2>2 DEF Finish
        <3> QED
            BY <3>1, <3>2 DEF Placed
    <2> QED
        BY <2>1, <2>2
<1>5. \A t \in Tasks : Held(t, ss, <<>>) => t <= last
    BY <1>2 DEF Held, Placed
<1> QED
    BY <1>2, <1>4, <1>5 DEF Placed

\* What a launch leaves: conversions wait only while somebody will take them.
LEMMA DispatchOrRejectPlaces ==
    ASSUME NEW ss \in [Slots -> Slot], NEW q \in Seq(Tasks), NEW last \in Nat,
           answers \in [Tasks -> Nat], timers \subseteq Assignments,
           runs \subseteq Runs, Staffed(ss), Placed(ss, q, answers, last),
           DispatchOrReject(ss, q)
    PROVE  /\ slots' \in [Slots -> Slot]
           /\ queue' \in Seq(Tasks) /\ Len(queue') <= Len(q)
           /\ answers' \in [Tasks -> Nat]
           /\ timers' \subseteq Assignments /\ runs' \subseteq Runs
           /\ Staffed(slots') /\ Placed(slots', queue', answers', last)
           /\ \A s \in Slots : /\ slots'[s].process = ss[s].process
                               /\ slots'[s].replacing = ss[s].replacing
           /\ WaitsForAWorker'
<1>1. CASE Runnable(ss) \/ Replacing(ss)
    <2>1. Dispatch(ss, q, {}, runs) /\ answers' = answers
        BY <1>1 DEF DispatchOrReject
    <2>2. /\ slots' \in [Slots -> Slot]
          /\ queue' \in Seq(Tasks) /\ Len(queue') <= Len(q)
          /\ Staffed(slots') /\ Placed(slots', queue', answers, last)
          /\ \A s \in Slots : /\ slots'[s].process = ss[s].process
                              /\ slots'[s].replacing = ss[s].replacing
          /\ queue' # <<>> => Idle(slots') = {}
        BY <2>1, DispatchPlaces
    <2>3. timers' \subseteq Assignments /\ runs' \subseteq Runs
        BY <2>1, DispatchTypes
    <2>4. Runnable(slots') \/ Replacing(slots')
        BY <1>1, <2>2 DEF Runnable, Replacing
    <2> QED
        BY <2>1, <2>2, <2>3, <2>4 DEF WaitsForAWorker
<1>2. CASE ~(Runnable(ss) \/ Replacing(ss))
    <2>1. /\ Finish({q[i] : i \in 1..Len(q)})
          /\ queue' = <<>> /\ slots' = ss /\ timers' = timers /\ runs' = runs
        BY <1>2 DEF DispatchOrReject
    <2>2. Placed(ss, <<>>, answers', last) /\ answers' \in [Tasks -> Nat]
        BY <2>1, RejectPlaces, FinishTypes
    <2>3. <<>> \in Seq(Tasks) /\ Len(<<>>) <= Len(q)
        BY EmptySeq, LenProperties
    <2> QED
        BY <2>1, <2>2, <2>3 DEF WaitsForAWorker
<1> QED
    BY <1>1, <1>2

-----------------------------------------------------------------------------
(* The invariant holds at the start and through every step *)

LEMMA InitInv == PoolInit => PoolInv
<1> SUFFICES ASSUME PoolInit PROVE PoolInv
    OBVIOUS
<1>1. Len(<<>>) = 0 /\ <<>> \in Seq(Tasks) /\ 1..Len(<<>>) = {}
    <2>1. Len(<<>>) = 0 /\ <<>> \in Seq(Tasks)
        BY EmptySeq
    <2> QED
        BY <2>1
<1>2. NoTask \notin Tasks
    BY DEF NoTask, Tasks
<1>3. PoolTypeOK
    <2>1. queue \in Seq(Tasks) /\ Len(queue) <= MaxQueued /\ nextID \in 0..MaxTasks
        BY <1>1, PoolAssumption DEF PoolInit, PoolAssumption
    <2>2. slots \in [Slots -> [process : Processes \cup {NoProcess},
                              task : Tasks \cup {NoTask}, replacing : BOOLEAN]]
        BY DEF PoolInit, EmptySlot
    <2> QED
        BY <2>1, <2>2 DEF PoolInit, PoolTypeOK
<1>4. \A s \in Slots : slots[s] = EmptySlot
    BY DEF PoolInit
<1>5. SlotInv
    BY <1>4 DEF PoolInit, SlotInv, Staffed, EmptySlot
<1>6. \A t \in Tasks : ~Held(t, slots, queue) /\ ~(t <= nextID)
    BY <1>1, <1>2, <1>4 DEF PoolInit, Held, EmptySlot, Tasks
<1>7. PlacedInv
    <2>1. queue = <<>> /\ \A t \in Tasks : answers[t] = 0
        BY DEF PoolInit
    <2>2. \A s \in Slots : slots[s].task = NoTask
        BY <1>4 DEF EmptySlot
    <2>3. Placed(slots, queue, answers, nextID)
        BY <1>1, <1>6, <2>1, <2>2 DEF Placed
    <2> QED
        BY <2>1, <2>3 DEF PlacedInv, WaitsForAWorker
<1>8. OwnedInv /\ ClosedInv
    BY DEF PoolInit, OwnedInv, ClosedInv, Running
<1> QED
    BY <1>3, <1>5, <1>7, <1>8 DEF PoolInv

\* The steps that only touch goroutines and timers.
LEMMA QuietStep ==
    ASSUME PoolInv, timers' \subseteq Assignments, fired' \subseteq Assignments,
           runs' \subseteq Runs,
           UNCHANGED <<closed, queue, slots, nextID, answers, replacers, workers,
                       closer, closing>>
    PROVE  PoolInv'
<1>1. PoolTypeOK'
    BY DEF PoolInv, PoolTypeOK, Runs
<1>2. SlotInv'
    BY DEF PoolInv, SlotInv, Staffed
<1>3. WaitsForAWorker'
    BY DEF PoolInv, PlacedInv, WaitsForAWorker, Runnable, Replacing
<1>4. Placed(slots', queue', answers', nextID')
    BY DEF PoolInv, PlacedInv
<1>5. OwnedInv'
    BY DEF PoolInv, OwnedInv, Running
<1>6. ClosedInv'
    BY DEF PoolInv, ClosedInv, Running
<1> QED
    BY <1>1, <1>2, <1>3, <1>4, <1>5, <1>6 DEF PoolInv, PlacedInv

LEMMA RunEndsStep ==
    ASSUME PoolInv, NEW r, NEW outcome \in {"answered", "broken"}, RunEnds(r, outcome)
    PROVE  PoolInv'
<1>1. r \in Runs /\ [r EXCEPT !.outcome = outcome] \in Runs
    BY DEF RunEnds, PoolInv, PoolTypeOK, Runs
<1>2. runs' \subseteq Runs
    BY <1>1 DEF RunEnds, PoolInv, PoolTypeOK, Runs
<1>3. timers' \subseteq Assignments /\ fired' \subseteq Assignments
    BY DEF RunEnds, PoolInv, PoolTypeOK
<1> QED
    BY <1>2, <1>3, QuietStep DEF RunEnds

LEMMA TimerFiresStep ==
    ASSUME PoolInv, NEW a, TimerFires(a)
    PROVE  PoolInv'
<1>1. /\ timers' \subseteq Assignments /\ fired' \subseteq Assignments
      /\ runs' \subseteq Runs
    BY DEF TimerFires, PoolInv, PoolTypeOK, Runs
<1> QED
    BY <1>1, QuietStep DEF TimerFires

\* The steps that only end processes, or let a replacer go on.
LEMMA EndsStep ==
    ASSUME PoolInv,
           UNCHANGED <<closed, queue, slots, nextID, answers, timers, fired, runs,
                       closer>>,
           workers' \in [Processes -> {"none", "alive", "dead"}],
           closing' \subseteq closing,
           replacers' \subseteq [slot : Slots, process : Processes,
                                 pc : {"terminate", "launch"}],
           \A x \in replacers' : \E y \in replacers : y.slot = x.slot,
           \A x, y \in replacers' : x.slot = y.slot /\ ~closed => x = y,
           replacers = {} => replacers' = {},
           Running' \subseteq Running, OwnedInv'
    PROVE  PoolInv'
<1>1. PoolTypeOK'
    BY DEF PoolInv, PoolTypeOK
<1>2. SlotInv'
    BY DEF PoolInv, SlotInv, Staffed
<1>3. WaitsForAWorker'
    BY DEF PoolInv, PlacedInv, WaitsForAWorker, Runnable, Replacing
<1>4. Placed(slots', queue', answers', nextID')
    BY DEF PoolInv, PlacedInv
<1>5. ASSUME closed
      PROVE  IsFiniteSet(Running') /\ Cardinality(Running') <= WorkerCount
    <2>1. IsFiniteSet(Running) /\ Cardinality(Running) <= WorkerCount
        BY <1>5 DEF PoolInv, ClosedInv
    <2>2. IsFiniteSet(Running') /\ Cardinality(Running') <= Cardinality(Running)
        BY <2>1, FS_Subset
    <2>3. Cardinality(Running) \in Nat /\ Cardinality(Running') \in Nat
        BY <2>1, <2>2, FS_CardinalityType
    <2> QED
        BY <2>1, <2>2, <2>3, PoolAssumption DEF PoolAssumption
<1>6. ClosedInv'
    BY <1>5 DEF PoolInv, ClosedInv
<1> QED
    BY <1>1, <1>2, <1>3, <1>4, <1>6 DEF PoolInv, PlacedInv

LEMMA WorkerExitsStep ==
    ASSUME PoolInv, NEW p \in Processes, WorkerExits(p)
    PROVE  PoolInv'
<1>1. workers \in [Processes -> {"none", "alive", "dead"}]
    BY DEF PoolInv, PoolTypeOK
<1>2. Running' = Running /\ workers' \in [Processes -> {"none", "alive", "dead"}]
    BY <1>1 DEF WorkerExits, Running
<1>3. OwnedInv'
    BY <1>2 DEF WorkerExits, PoolInv, OwnedInv
<1>4. replacers' \subseteq [slot : Slots, process : Processes,
                            pc : {"terminate", "launch"}]
    BY DEF WorkerExits, PoolInv, PoolTypeOK
<1>5. \A x, y \in replacers' : x.slot = y.slot /\ ~closed => x = y
    BY DEF WorkerExits, PoolInv, SlotInv
<1> QED
    BY <1>2, <1>3, <1>4, <1>5, EndsStep DEF WorkerExits

LEMMA CloseTerminatesStep ==
    ASSUME PoolInv, NEW p \in Processes, CloseTerminates(p)
    PROVE  PoolInv'
<1>1. workers \in [Processes -> {"none", "alive", "dead"}]
    BY DEF PoolInv, PoolTypeOK
<1>2. /\ Running' = Running \ {p}
      /\ workers' \in [Processes -> {"none", "alive", "dead"}]
    BY <1>1 DEF CloseTerminates, Running
<1>3. OwnedInv'
    BY <1>2 DEF CloseTerminates, PoolInv, OwnedInv
<1>4. replacers' \subseteq [slot : Slots, process : Processes,
                            pc : {"terminate", "launch"}]
    BY DEF CloseTerminates, PoolInv, PoolTypeOK
<1>5. \A x, y \in replacers' : x.slot = y.slot /\ ~closed => x = y
    BY DEF CloseTerminates, PoolInv, SlotInv
<1> QED
    BY <1>2, <1>3, <1>4, <1>5, EndsStep DEF CloseTerminates

LEMMA ReplaceTerminatesStep ==
    ASSUME PoolInv, NEW x, ReplaceTerminates(x)
    PROVE  PoolInv'
<1> DEFINE Replacers == [slot : Slots, process : Processes, pc : {"terminate", "launch"}]
           on == [x EXCEPT !.pc = "launch"]
<1>1. /\ workers \in [Processes -> {"none", "alive", "dead"}]
      /\ replacers \subseteq Replacers
    BY DEF PoolInv, PoolTypeOK
<1>2. /\ x \in Replacers /\ on \in Replacers
      /\ on.slot = x.slot
    BY <1>1 DEF ReplaceTerminates
<1>3. /\ Running' = Running \ {x.process}
      /\ workers' \in [Processes -> {"none", "alive", "dead"}]
    BY <1>1, <1>2 DEF ReplaceTerminates, Running
<1>4. x \in replacers /\ replacers' = (replacers \ {x}) \cup {on}
    BY DEF ReplaceTerminates
<1> HIDE DEF on
<1>5. OwnedInv'
    BY <1>3, <1>4 DEF ReplaceTerminates, PoolInv, OwnedInv
<1>6. replacers' \subseteq Replacers
    BY <1>1, <1>2, <1>4
<1>7. \A y, z \in replacers' : y.slot = z.slot /\ ~closed => y = z
    BY <1>2, <1>4 DEF PoolInv, SlotInv
<1>8. \A y \in replacers' : \E z \in replacers : z.slot = y.slot
    BY <1>2, <1>4
<1> QED
    BY <1>3, <1>4, <1>5, <1>6, <1>7, <1>8, EndsStep DEF ReplaceTerminates

-----------------------------------------------------------------------------
(* Answers and failures *)

\* A task that is answered and taken out of its slot stays in one place.
LEMMA TakenPlaces ==
    ASSUME NEW ss \in [Slots -> Slot], NEW k \in Slots, NEW last \in Nat,
           slots \in [Slots -> Slot], queue \in Seq(Tasks),
           answers \in [Tasks -> Nat], Placed(slots, queue, answers, last),
           slots[k].task \in Tasks, ss[k].task = NoTask,
           \A s \in Slots : s # k => ss[s].task = slots[s].task,
           Finish({slots[k].task})
    PROVE  Placed(ss, queue, answers', last)
<1> DEFINE t0 == slots[k].task
<1>1. Len(queue) \in Nat /\ (\A i \in 1..Len(queue) : queue[i] \in Tasks)
    BY LenProperties
<1>2. NoTask \notin Tasks
    BY DEF NoTask, Tasks
<1>3. /\ \A i, j \in 1..Len(queue) : queue[i] = queue[j] => i = j
      /\ \A s, r \in Slots : ss[s].task = ss[r].task => s = r \/ ss[s].task = NoTask
      /\ \A i \in 1..Len(queue), s \in Slots : queue[i] # ss[s].task
    <2>1. \A i, j \in 1..Len(queue) : queue[i] = queue[j] => i = j
        BY DEF Placed
    <2>2. \A s, r \in Slots : ss[s].task = ss[r].task => s = r \/ ss[s].task = NoTask
        BY DEF Placed
    <2>3. ASSUME NEW i \in 1..Len(queue), NEW s \in Slots PROVE queue[i] # ss[s].task
        <3>1. s # k => queue[i] # ss[s].task
            BY DEF Placed
        <3>2. queue[i] # NoTask
            BY <1>1, <1>2
        <3> QED
            BY <3>1, <3>2
    <2> QED
        BY <2>1, <2>2, <2>3
<1>4. Held(t0, slots, queue) /\ ~Held(t0, ss, queue)
    BY <1>2 DEF Held, Placed
<1>5. \A t \in Tasks : t # t0 => (Held(t, ss, queue) <=> Held(t, slots, queue))
    BY <1>2 DEF Held
<1>6. /\ answers[t0] = 0 /\ t0 <= last /\ answers'[t0] = 1
      /\ \A t \in Tasks : t # t0 => answers'[t] = answers[t]
    BY <1>4 DEF Placed, Finish
<1> HIDE DEF t0
<1>7. \A t \in Tasks : Held(t, ss, queue) => t <= last
    BY <1>4, <1>5 DEF Placed
<1>8. \A t \in Tasks : answers'[t] = IF t <= last /\ ~Held(t, ss, queue) THEN 1 ELSE 0
    BY <1>4, <1>5, <1>6 DEF Placed
<1> QED
    BY <1>3, <1>7, <1>8 DEF Placed

LEMMA HoldsFacts ==
    ASSUME PoolInv, NEW a \in Assignments, Holds(a)
    PROVE  /\ a.slot \in Slots /\ a.process \in Processes /\ a.task \in Tasks
           /\ slots \in [Slots -> Slot] /\ queue \in Seq(Tasks)
           /\ answers \in [Tasks -> Nat] /\ nextID \in Nat
           /\ slots[a.slot].process = a.process /\ a.process # NoProcess
           /\ slots[a.slot].task = a.task
           /\ ~slots[a.slot].replacing
           /\ ~closed /\ closer = "none" /\ closing = {}
<1>1. /\ a.slot \in Slots /\ a.process \in Processes /\ a.task \in Tasks
      /\ slots \in [Slots -> Slot] /\ queue \in Seq(Tasks)
      /\ answers \in [Tasks -> Nat] /\ nextID \in Nat
    BY DEF Assignments, PoolInv, PoolTypeOK, Slot
<1>2. slots[a.slot].process = a.process /\ slots[a.slot].task = a.task /\ ~closed
    BY DEF Holds
<1>3. a.process # NoProcess
    BY <1>1, PoolAssumption DEF PoolAssumption
<1>4. ~slots[a.slot].replacing
    BY <1>1, <1>2, <1>3 DEF PoolInv, SlotInv, Staffed
<1>5. closer = "none" /\ closing = {}
    BY <1>2 DEF PoolInv, ClosedInv
<1> QED
    BY <1>1, <1>2, <1>3, <1>4, <1>5

LEMMA CompleteStep ==
    ASSUME PoolInv, NEW r, CompleteAssignment(r)
    PROVE  PoolInv'
<1>1. /\ r.work \in Assignments /\ runs \ {r} \in SUBSET Runs
      /\ timers \subseteq Assignments /\ fired' \subseteq Assignments
    BY DEF CompleteAssignment, PoolInv, PoolTypeOK, Runs
<1>2. CASE ~Holds(r.work)
    <2>1. runs' \subseteq Runs /\ timers' \subseteq Assignments
        BY <1>1, <1>2 DEF CompleteAssignment
    <2> QED
        BY <1>1, <1>2, <2>1, QuietStep DEF CompleteAssignment
<1>3. CASE Holds(r.work)
    <2> DEFINE k == r.work.slot
               ss == [slots EXCEPT ![k].task = NoTask]
    <2>1. /\ k \in Slots /\ r.work.task \in Tasks
          /\ slots \in [Slots -> Slot] /\ queue \in Seq(Tasks)
          /\ answers \in [Tasks -> Nat] /\ nextID \in Nat
          /\ slots[k].process # NoProcess
          /\ slots[k].task = r.work.task
          /\ ~slots[k].replacing
          /\ ~closed /\ closer = "none" /\ closing = {}
        BY <1>1, <1>3, HoldsFacts
    <2>2. /\ Finish({slots[k].task}) /\ Dispatch(ss, queue, {r.work.task}, runs \ {r})
          /\ UNCHANGED <<closed, nextID, fired, replacers, workers, closer, closing>>
        BY <1>3, <2>1 DEF CompleteAssignment
    <2>3. /\ ss \in [Slots -> Slot] /\ ss[k].task = NoTask
          /\ \A s \in Slots : /\ s # k => ss[s].task = slots[s].task
                              /\ ss[s].process = slots[s].process
                              /\ ss[s].replacing = slots[s].replacing
        BY <2>1 DEF Slot
    <2> HIDE DEF k, ss
    <2>4. Staffed(ss)
        BY <2>3, <2>1 DEF PoolInv, SlotInv, Staffed
    <2>5. Placed(slots, queue, answers, nextID)
        BY DEF PoolInv, PlacedInv
    <2>6. Placed(ss, queue, answers', nextID)
        BY <2>1, <2>2, <2>3, <2>5, TakenPlaces
    <2>7. /\ slots' \in [Slots -> Slot]
          /\ queue' \in Seq(Tasks) /\ Len(queue') <= Len(queue)
          /\ Staffed(slots') /\ Placed(slots', queue', answers', nextID)
          /\ \A s \in Slots : /\ slots'[s].process = ss[s].process
                              /\ slots'[s].replacing = ss[s].replacing
          /\ queue' # <<>> => Idle(slots') = {}
        BY <2>1, <2>2, <2>3, <2>4, <2>6, DispatchPlaces
    <2>8. timers' \subseteq Assignments /\ runs' \subseteq Runs
        BY <1>1, <2>1, <2>2, <2>3, DispatchTypes
    <2>9. answers' \in [Tasks -> Nat]
        BY <2>1, <2>2, FinishTypes
    <2>10. PoolTypeOK'
        <3>1. Len(queue') <= MaxQueued
            BY <2>1, <2>7, PoolAssumption, LenProperties
               DEF PoolInv, PoolTypeOK, PoolAssumption
        <3> QED
            BY <3>1, <1>1, <2>2, <2>7, <2>8, <2>9 DEF PoolInv, PoolTypeOK, Slot, Runs
    <2>11. SlotInv'
        BY <2>1, <2>2, <2>3, <2>7 DEF PoolInv, PoolTypeOK, SlotInv
    <2>12. PlacedInv'
        <3>1. Runnable(slots')
            BY <2>1, <2>3, <2>7 DEF Runnable
        <3> QED
            BY <3>1, <2>2, <2>7 DEF PlacedInv, WaitsForAWorker
    <2>13. OwnedInv'
        BY <2>2, <2>3, <2>7 DEF PoolInv, OwnedInv, Running
    <2>14. ClosedInv'
        BY <2>1, <2>2 DEF ClosedInv
    <2> QED
        BY <2>10, <2>11, <2>12, <2>13, <2>14 DEF PoolInv
<1> QED
    BY <1>2, <1>3

\* detachFailedWorker with the timers and goroutines as a failure or a timeout
\* leaves them.
LEMMA DetachStep ==
    ASSUME PoolInv, NEW a \in Assignments, NEW rest \in SUBSET Runs,
           Detach(a, rest), fired' \subseteq Assignments,
           UNCHANGED <<closed, nextID, workers, closer, closing>>
    PROVE  PoolInv'
<1>1. timers \subseteq Assignments
    BY DEF PoolInv, PoolTypeOK
<1>2. CASE ~Holds(a)
    <2>1. /\ runs' \subseteq Runs /\ timers' \subseteq Assignments
          /\ UNCHANGED <<answers, slots, queue, replacers>>
        BY <1>1, <1>2 DEF Detach
    <2> QED
        BY <2>1, QuietStep
<1>3. CASE Holds(a)
    <2> DEFINE k == a.slot
               ss == [slots EXCEPT ![k] = [EmptySlot EXCEPT !.replacing = TRUE]]
               x == [slot |-> k, process |-> a.process, pc |-> "terminate"]
    <2>1. /\ k \in Slots /\ a.task \in Tasks /\ a.process \in Processes
          /\ slots \in [Slots -> Slot] /\ queue \in Seq(Tasks)
          /\ answers \in [Tasks -> Nat] /\ nextID \in Nat
          /\ slots[k].process = a.process /\ a.process # NoProcess
          /\ slots[k].task = a.task
          /\ ~closed /\ closer = "none" /\ closing = {}
        BY <1>3, HoldsFacts
    <2>2. /\ Finish({slots[k].task}) /\ Dispatch(ss, queue, {a.task}, rest)
          /\ replacers' = replacers \cup {x}
        BY <1>3, <2>1 DEF Detach
    <2>3. /\ ss \in [Slots -> Slot] /\ ss[k].task = NoTask
          /\ ss[k].process = NoProcess /\ ss[k].replacing
          /\ \A s \in Slots : s # k => ss[s] = slots[s]
        BY <2>1 DEF Slot, EmptySlot
    <2>4. /\ x \in [slot : Slots, process : Processes, pc : {"terminate", "launch"}]
          /\ x.slot = k /\ x.process = a.process /\ x.pc = "terminate"
        BY <2>1
    <2> HIDE DEF k, ss, x
    <2>5. Staffed(ss)
        BY <2>3 DEF PoolInv, SlotInv, Staffed
    <2>6. Placed(slots, queue, answers, nextID)
        BY DEF PoolInv, PlacedInv
    <2>7. Placed(ss, queue, answers', nextID)
        BY <2>1, <2>2, <2>3, <2>6, TakenPlaces
    <2>8. /\ slots' \in [Slots -> Slot]
          /\ queue' \in Seq(Tasks) /\ Len(queue') <= Len(queue)
          /\ Staffed(slots') /\ Placed(slots', queue', answers', nextID)
          /\ \A s \in Slots : /\ slots'[s].process = ss[s].process
                              /\ slots'[s].replacing = ss[s].replacing
          /\ queue' # <<>> => Idle(slots') = {}
        BY <2>1, <2>2, <2>3, <2>5, <2>7, DispatchPlaces
    <2>9. timers' \subseteq Assignments /\ runs' \subseteq Runs
        BY <1>1, <2>1, <2>2, <2>3, DispatchTypes
    <2>10. answers' \in [Tasks -> Nat]
        BY <2>1, <2>2, FinishTypes
    <2>11. PoolTypeOK'
        <3>1. Len(queue') <= MaxQueued
            BY <2>1, <2>8, PoolAssumption, LenProperties
               DEF PoolInv, PoolTypeOK, PoolAssumption
        <3> QED
            BY <3>1, <2>2, <2>4, <2>8, <2>9, <2>10 DEF PoolInv, PoolTypeOK, Slot, Runs
    <2>12. /\ slots'[k].process = NoProcess /\ slots'[k].replacing
           /\ \A s \in Slots : s # k => /\ slots'[s].process = slots[s].process
                                        /\ slots'[s].replacing = slots[s].replacing
        BY <2>1, <2>3, <2>8
    <2>13. SlotInv'
        <3>1. \A y \in replacers : /\ y.slot \in Slots /\ y.slot # k
                                   /\ slots[y.slot].process = NoProcess
                                   /\ slots[y.slot].replacing
                                   /\ \A z \in replacers : z.slot = y.slot => z = y
            BY <2>1 DEF PoolInv, PoolTypeOK, SlotInv
        <3>2. ASSUME NEW y \in replacers
              PROVE  /\ slots'[y.slot].process = NoProcess
                     /\ slots'[y.slot].replacing
                     /\ \A z \in replacers' : z.slot = y.slot => z = y
            BY <3>1, <2>2, <2>4, <2>12
        <3>3. \A z \in replacers' : z.slot = x.slot => z = x
            BY <3>1, <2>2, <2>4
        <3> QED
            BY <3>2, <3>3, <2>1, <2>2, <2>4, <2>8, <2>12 DEF SlotInv
    <2>14. PlacedInv'
        <3>1. Replacing(slots')
            BY <2>1, <2>3, <2>8 DEF Replacing
        <3> QED
            BY <3>1, <2>8 DEF PlacedInv, WaitsForAWorker
    <2>15. OwnedInv'
        <3> SUFFICES ASSUME NEW p \in Running
                     PROVE  \/ p \in closing
                            \/ \E s \in Slots : slots'[s].process = p
                            \/ \E y \in replacers' : y.process = p /\ y.pc = "terminate"
            BY DEF OwnedInv, Running
        <3>1. CASE p = a.process
            BY <3>1, <2>2, <2>4
        <3>2. CASE p # a.process
            BY <3>2, <2>1, <2>2, <2>12 DEF PoolInv, OwnedInv
        <3> QED
            BY <3>1, <3>2
    <2>16. ClosedInv'
        BY <2>1 DEF ClosedInv
    <2> QED
        BY <2>11, <2>13, <2>14, <2>15, <2>16 DEF PoolInv
<1> QED
    BY <1>2, <1>3

LEMMA FailStep ==
    ASSUME PoolInv, NEW r, FailWorker(r)
    PROVE  PoolInv'
<1>1. /\ r.work \in Assignments /\ runs \ {r} \in SUBSET Runs
      /\ fired' \subseteq Assignments
    BY DEF FailWorker, PoolInv, PoolTypeOK, Runs
<1> QED
    BY <1>1, DetachStep DEF FailWorker

LEMMA TimeoutStep ==
    ASSUME PoolInv, NEW a, TimeoutWorker(a)
    PROVE  PoolInv'
<1>1. a \in Assignments /\ runs \in SUBSET Runs /\ fired' \subseteq Assignments
    BY DEF TimeoutWorker, PoolInv, PoolTypeOK, Runs
<1> QED
    BY <1>1, DetachStep DEF TimeoutWorker

-----------------------------------------------------------------------------
(* Launches *)

\* A dispatch or a rejection after a launch keeps the invariant, when the slots
\* ss and the queue q say what was launched and taken.
LEMMA LaunchStep ==
    ASSUME PoolInv, ~closed, NEW ss \in [Slots -> Slot], NEW q \in Seq(Tasks),
           Len(q) <= MaxQueued, NEW last \in 0..MaxTasks, nextID' = last,
           Staffed(ss), Placed(ss, q, answers, last), DispatchOrReject(ss, q),
           UNCHANGED <<closed, fired, closer, closing>>,
           replacers' \subseteq replacers,
           \A x \in replacers' : ss[x.slot] = slots[x.slot],
           workers' \in [Processes -> {"none", "alive", "dead"}],
           \A p \in Running' :
              \/ \E s \in Slots : ss[s].process = p
              \/ \E x \in replacers' : x.process = p /\ x.pc = "terminate"
    PROVE  PoolInv'
<1>1. /\ answers \in [Tasks -> Nat] /\ timers \subseteq Assignments
      /\ runs \subseteq Runs /\ fired \subseteq Assignments /\ last \in Nat
      /\ replacers \subseteq [slot : Slots, process : Processes,
                              pc : {"terminate", "launch"}]
    BY PoolAssumption DEF PoolInv, PoolTypeOK, Runs, PoolAssumption
<1>2. /\ slots' \in [Slots -> Slot]
      /\ queue' \in Seq(Tasks) /\ Len(queue') <= Len(q)
      /\ answers' \in [Tasks -> Nat]
      /\ timers' \subseteq Assignments /\ runs' \subseteq Runs
      /\ Staffed(slots') /\ Placed(slots', queue', answers', last)
      /\ \A s \in Slots : /\ slots'[s].process = ss[s].process
                          /\ slots'[s].replacing = ss[s].replacing
      /\ WaitsForAWorker'
    BY <1>1, DispatchOrRejectPlaces
<1>3. PoolTypeOK'
    <2>1. Len(queue') <= MaxQueued
        BY <1>2, PoolAssumption, LenProperties DEF PoolAssumption
    <2> QED
        BY <2>1, <1>1, <1>2 DEF PoolInv, PoolTypeOK, Slot, Runs
<1>4. SlotInv'
    <2>1. ASSUME NEW x \in replacers'
          PROVE  /\ slots'[x.slot].process = NoProcess
                 /\ slots'[x.slot].replacing
                 /\ \A y \in replacers' : y.slot = x.slot => y = x
        <3>1. x \in replacers /\ x.slot \in Slots /\ ss[x.slot] = slots[x.slot]
            BY <1>1
        <3>2. slots[x.slot].process = NoProcess /\ slots[x.slot].replacing
            BY <3>1 DEF PoolInv, SlotInv
        <3>3. \A y \in replacers' : y.slot = x.slot => y = x
            BY <3>1 DEF PoolInv, SlotInv
        <3> QED
            BY <3>1, <3>2, <3>3, <1>2
    <2> QED
        BY <2>1, <1>2 DEF SlotInv
<1>5. OwnedInv'
    <2> SUFFICES ASSUME NEW p \in Running'
                 PROVE  \/ \E s \in Slots : slots'[s].process = p
                        \/ \E x \in replacers' : x.process = p /\ x.pc = "terminate"
        BY DEF OwnedInv
    <2>1. CASE \E s \in Slots : ss[s].process = p
        BY <2>1, <1>2
    <2>2. CASE \E x \in replacers' : x.process = p /\ x.pc = "terminate"
        BY <2>2
    <2> QED
        BY <2>1, <2>2, Zenon
<1>6. ClosedInv'
    BY DEF PoolInv, ClosedInv
<1> QED
    BY <1>2, <1>3, <1>4, <1>5, <1>6 DEF PoolInv, PlacedInv

LEMMA LaunchesNames ==
    ASSUME NEW S, NEW name \in Launches(S)
    PROVE  name \in [S -> Processes]
BY DEF Launches, Unused

\* A conversion joins the end of the queue.
LEMMA AppendPlaces ==
    ASSUME PoolInv, nextID < MaxTasks
    PROVE  /\ Append(queue, nextID + 1) \in Seq(Tasks)
           /\ Len(Append(queue, nextID + 1)) = Len(queue) + 1
           /\ Placed(slots, Append(queue, nextID + 1), answers, nextID + 1)
<1> DEFINE t0 == nextID + 1
           q == Append(queue, t0)
<1>1. /\ queue \in Seq(Tasks) /\ nextID \in Nat /\ t0 \in Tasks
      /\ Placed(slots, queue, answers, nextID) /\ Len(queue) \in Nat
      /\ \A i \in 1..Len(queue) : queue[i] \in Tasks
    BY PoolAssumption, LenProperties
       DEF PoolInv, PoolTypeOK, PlacedInv, Tasks, PoolAssumption
<1>2. /\ q \in Seq(Tasks) /\ Len(q) = Len(queue) + 1
      /\ q[Len(queue) + 1] = t0
      /\ \A i \in 1..Len(queue) : q[i] = queue[i]
    BY <1>1, AppendProperties
<1>3. ~(t0 <= nextID) /\ NoTask \notin Tasks /\ Tasks \subseteq Nat
    BY <1>1 DEF NoTask, Tasks
<1>4. (\A i \in 1..Len(queue) : queue[i] # t0) /\ (\A s \in Slots : slots[s].task # t0)
    BY <1>1, <1>3 DEF Placed, Held
<1>5. \A i \in 1..Len(q) : \/ i \in 1..Len(queue) /\ q[i] = queue[i]
                           \/ i = Len(queue) + 1 /\ q[i] = t0
    BY <1>1, <1>2
<1>6. Len(queue) + 1 \in 1..Len(q) /\ 1..Len(queue) \subseteq 1..Len(q)
    BY <1>1, <1>2
<1>7. \A t \in Tasks : t <= t0 <=> t <= nextID \/ t = t0
    BY <1>1, <1>3
<1> HIDE DEF t0, q
<1>8. \A i, j \in 1..Len(q) : q[i] = q[j] => i = j
    BY <1>1, <1>4, <1>5 DEF Placed
<1>9. \A i \in 1..Len(q), s \in Slots : q[i] # slots[s].task
    BY <1>1, <1>4, <1>5 DEF Placed
<1>10. \A t \in Tasks : Held(t, slots, q) <=> Held(t, slots, queue) \/ t = t0
    BY <1>2, <1>5, <1>6 DEF Held
<1>11. \A t \in Tasks : Held(t, slots, q) => t <= t0
    BY <1>1, <1>7, <1>10 DEF Placed
<1>12. \A t \in Tasks : answers[t] = IF t <= t0 /\ ~Held(t, slots, q) THEN 1 ELSE 0
    BY <1>1, <1>3, <1>7, <1>10 DEF Placed
<1>13. Placed(slots, q, answers, t0)
    BY <1>1, <1>8, <1>9, <1>11, <1>12 DEF Placed
<1> QED
    BY <1>2, <1>13 DEF q, t0

LEMMA ConvertStep ==
    ASSUME PoolInv, Convert
    PROVE  PoolInv'
<1>1. PICK S \in SUBSET Empty : \E name \in Launches(S) :
          /\ workers' = [p \in Processes |->
                IF \E s \in S : name[s] = p THEN "alive" ELSE workers[p]]
          /\ DispatchOrReject(
                [s \in Slots |-> IF s \in S
                                 THEN [slots[s] EXCEPT !.process = name[s]] ELSE slots[s]],
                Append(queue, nextID + 1))
    BY DEF Convert
<1>2. PICK name \in Launches(S) :
          /\ workers' = [p \in Processes |->
                IF \E s \in S : name[s] = p THEN "alive" ELSE workers[p]]
          /\ DispatchOrReject(
                [s \in Slots |-> IF s \in S
                                 THEN [slots[s] EXCEPT !.process = name[s]] ELSE slots[s]],
                Append(queue, nextID + 1))
    BY <1>1
<1> DEFINE ss == [s \in Slots |-> IF s \in S
                                  THEN [slots[s] EXCEPT !.process = name[s]] ELSE slots[s]]
           q == Append(queue, nextID + 1)
<1>3. /\ ~closed /\ Len(queue) < MaxQueued /\ nextID < MaxTasks
      /\ nextID' = nextID + 1
      /\ UNCHANGED <<closed, fired, replacers, closer, closing>>
      /\ DispatchOrReject(ss, q)
    BY <1>2 DEF Convert
<1>4. /\ slots \in [Slots -> Slot] /\ nextID \in 0..MaxTasks /\ queue \in Seq(Tasks)
      /\ workers \in [Processes -> {"none", "alive", "dead"}]
      /\ replacers \subseteq [slot : Slots, process : Processes,
                              pc : {"terminate", "launch"}]
    BY DEF PoolInv, PoolTypeOK, Slot
<1>5. /\ q \in Seq(Tasks) /\ Len(q) = Len(queue) + 1
      /\ Placed(slots, q, answers, nextID + 1)
    BY <1>3, AppendPlaces
<1>6. /\ \A s \in S : /\ s \in Slots /\ name[s] \in Processes
                      /\ slots[s].process = NoProcess /\ ~slots[s].replacing
      /\ NoProcess \notin Processes
    BY LaunchesNames, PoolAssumption DEF Empty, PoolAssumption
<1>7. /\ ss \in [Slots -> Slot]
      /\ \A s \in Slots : ss[s].task = slots[s].task /\ ss[s].replacing = slots[s].replacing
      /\ \A s \in S : ss[s].process = name[s]
      /\ \A s \in Slots \ S : ss[s] = slots[s]
    BY <1>4, <1>6 DEF Slot
<1> HIDE DEF ss, q
<1>8. Staffed(ss)
    BY <1>6, <1>7 DEF PoolInv, SlotInv, Staffed
<1>9. Placed(ss, q, answers, nextID + 1)
    BY <1>5, <1>7, SamePlaces
<1>10. \A x \in replacers : ss[x.slot] = slots[x.slot]
    BY <1>3, <1>4, <1>6, <1>7 DEF PoolInv, SlotInv
<1>11. workers' \in [Processes -> {"none", "alive", "dead"}]
    BY <1>2, <1>4
<1>12. ASSUME NEW p \in Running'
       PROVE  \/ \E s \in Slots : ss[s].process = p
              \/ \E x \in replacers' : x.process = p /\ x.pc = "terminate"
    <2>1. CASE \E s \in S : name[s] = p
        BY <2>1, <1>6, <1>7
    <2>2. CASE ~\E s \in S : name[s] = p
        <3>1. p \in Running /\ p \in Processes
            BY <2>2, <1>2 DEF Running
        <3>2. closing = {}
            BY <1>3 DEF PoolInv, ClosedInv
        <3> QED
            BY <3>1, <3>2, <1>3, <1>6, <1>7 DEF PoolInv, OwnedInv
    <2> QED
        BY <2>1, <2>2
<1>13. nextID + 1 \in 0..MaxTasks /\ Len(q) <= MaxQueued
    BY <1>3, <1>4, <1>5, PoolAssumption, LenProperties DEF PoolAssumption
<1> QED
    BY <1>3, <1>5, <1>7, <1>8, <1>9, <1>10, <1>11, <1>12, <1>13, LaunchStep

LEMMA ReplaceLaunchesStep ==
    ASSUME PoolInv, NEW x, ReplaceLaunches(x)
    PROVE  PoolInv'
<1>1. /\ x \in replacers /\ x.pc = "launch" /\ replacers' = replacers \ {x}
      /\ UNCHANGED <<closed, nextID, fired, closer, closing>>
    BY DEF ReplaceLaunches
<1>2. /\ slots \in [Slots -> Slot] /\ nextID \in 0..MaxTasks
      /\ queue \in Seq(Tasks) /\ Len(queue) <= MaxQueued
      /\ workers \in [Processes -> {"none", "alive", "dead"}]
      /\ replacers \subseteq [slot : Slots, process : Processes,
                              pc : {"terminate", "launch"}]
      /\ x.slot \in Slots
    BY <1>1 DEF PoolInv, PoolTypeOK, Slot
<1>3. Placed(slots, queue, answers, nextID)
    BY DEF PoolInv, PlacedInv
<1>4. \A p \in Running : \/ p \in closing
                         \/ \E s \in Slots : slots[s].process = p
                         \/ \E y \in replacers' : y.process = p /\ y.pc = "terminate"
    BY <1>1 DEF PoolInv, OwnedInv
<1>5. CASE closed
    <2>1. /\ slots' = [slots EXCEPT ![x.slot].replacing = FALSE]
          /\ UNCHANGED <<queue, answers, timers, runs, workers>>
        BY <1>5 DEF ReplaceLaunches
    <2>2. /\ slots' \in [Slots -> Slot]
          /\ \A s \in Slots : /\ slots'[s].process = slots[s].process
                              /\ slots'[s].task = slots[s].task
        BY <1>2, <2>1 DEF Slot
    <2>3. queue = <<>> /\ \A s \in Slots : slots[s].process = NoProcess
        BY <1>5 DEF PoolInv, ClosedInv
    <2>4. PoolTypeOK'
        BY <1>1, <2>1, <2>2 DEF PoolInv, PoolTypeOK, Slot
    <2>5. SlotInv'
        BY <1>1, <1>5, <2>2, <2>3 DEF PoolInv, SlotInv, Staffed
    <2>6. Placed(slots', queue', answers', nextID')
        BY <1>1, <1>3, <2>1, <2>2, SamePlaces
    <2>7. PlacedInv'
        BY <2>1, <2>3, <2>6 DEF PlacedInv, WaitsForAWorker
    <2>8. OwnedInv'
        BY <1>1, <1>4, <2>1, <2>2 DEF OwnedInv, Running
    <2>9. ClosedInv'
        BY <1>1, <2>1, <2>2 DEF PoolInv, ClosedInv, Running
    <2> QED
        BY <2>4, <2>5, <2>7, <2>8, <2>9 DEF PoolInv
<1>6. CASE ~closed
    <2>1. PICK p \in {NoProcess} \cup {name[x.slot] : name \in Launches({x.slot})} :
              /\ workers' = [r \in Processes |-> IF r = p THEN "alive" ELSE workers[r]]
              /\ DispatchOrReject([slots EXCEPT ![x.slot] =
                                      [EmptySlot EXCEPT !.process = p]], queue)
        BY <1>6 DEF ReplaceLaunches
    <2> DEFINE ss == [slots EXCEPT ![x.slot] = [EmptySlot EXCEPT !.process = p]]
    <2>2. p \in Processes \cup {NoProcess}
        BY LaunchesNames
    <2>3. slots[x.slot].process = NoProcess /\ slots[x.slot].task = NoTask
        BY <1>1, <1>2, <1>6 DEF PoolInv, SlotInv, Staffed
    <2>4. /\ ss \in [Slots -> Slot]
          /\ ss[x.slot].process = p /\ ss[x.slot].task = NoTask
          /\ ~ss[x.slot].replacing
          /\ \A s \in Slots : s # x.slot => ss[s] = slots[s]
        BY <1>2, <2>2 DEF Slot, EmptySlot
    <2>5. DispatchOrReject(ss, queue)
        BY <2>1
    <2> HIDE DEF ss
    <2>6. Staffed(ss)
        BY <2>4 DEF PoolInv, SlotInv, Staffed
    <2>7. Placed(ss, queue, answers, nextID)
        <3>1. \A s \in Slots : ss[s].task = slots[s].task
            BY <2>3, <2>4
        <3> QED
            BY <3>1, <1>3, SamePlaces
    <2>8. \A y \in replacers' : ss[y.slot] = slots[y.slot]
        <3> SUFFICES ASSUME NEW y \in replacers' PROVE ss[y.slot] = slots[y.slot]
            OBVIOUS
        <3>1. y \in replacers /\ y # x /\ y.slot \in Slots
            BY <1>1, <1>2
        <3>2. y.slot # x.slot
            BY <3>1, <1>1, <1>6 DEF PoolInv, SlotInv
        <3> QED
            BY <3>1, <3>2, <2>4
    <2>9. workers' \in [Processes -> {"none", "alive", "dead"}]
        BY <2>1, <1>2
    <2>10. ASSUME NEW r \in Running'
           PROVE  \/ \E s \in Slots : ss[s].process = r
                  \/ \E y \in replacers' : y.process = r /\ y.pc = "terminate"
        <3>1. CASE r = p
            BY <3>1, <1>2, <2>4
        <3>2. CASE r # p
            <4>1. r \in Running /\ r # NoProcess
                BY <3>2, <2>1, PoolAssumption DEF Running, PoolAssumption
            <4>2. closing = {}
                BY <1>6 DEF PoolInv, ClosedInv
            <4> QED
                BY <4>1, <4>2, <1>4, <2>3, <2>4
        <3> QED
            BY <3>1, <3>2
    <2>11. replacers' \subseteq replacers /\ nextID' = nextID
        BY <1>1
    <2> QED
        BY <1>1, <1>2, <1>6, <2>4, <2>5, <2>6, <2>7, <2>8, <2>9, <2>10, <2>11, LaunchStep
<1> QED
    BY <1>5, <1>6

-----------------------------------------------------------------------------
(* Close *)

\* While the pool is open every process has a slot of its own.
LEMMA OneProcessPerSlot ==
    ASSUME PoolInv, ~closed
    PROVE  IsFiniteSet(Running) /\ Cardinality(Running) <= WorkerCount
<1> DEFINE Owns(s, p) ==
              \/ slots[s].process = p
              \/ \E x \in replacers : x.slot = s /\ x.process = p /\ x.pc = "terminate"
<1>1. \A p \in Running : \E s \in Slots : Owns(s, p)
    <2>1. closing = {} /\ \A x \in replacers : x.slot \in Slots
        BY DEF PoolInv, ClosedInv, PoolTypeOK
    <2> QED
        BY <2>1 DEF PoolInv, OwnedInv
<1>2. \A s \in Slots : \A p, r \in Running : Owns(s, p) /\ Owns(s, r) => p = r
    <2>1. NoProcess \notin Running
        BY PoolAssumption DEF Running, PoolAssumption
    <2> QED
        BY <2>1 DEF PoolInv, SlotInv
<1>3. WorkerCount \in Nat /\ IsFiniteSet(Slots) /\ Cardinality(Slots) = WorkerCount
    <2>1. WorkerCount \in Int /\ WorkerCount >= 1
        BY PoolAssumption DEF PoolAssumption
    <2> QED
        BY <2>1, FS_Interval DEF Slots
<1> HIDE DEF Owns
<1>4. CASE Running = {}
    BY <1>3, <1>4, FS_EmptySet
<1>5. CASE Running # {}
    <2> DEFINE f == [s \in Slots |-> CHOOSE p \in Running :
                         Owns(s, p) \/ ~\E r \in Running : Owns(s, r)]
    <2>1. \A s \in Slots : \E p \in Running : Owns(s, p) \/ ~\E r \in Running : Owns(s, r)
        BY <1>5
    <2>2. \A s \in Slots : /\ f[s] \in Running
                           /\ Owns(s, f[s]) \/ ~\E r \in Running : Owns(s, r)
        BY <2>1
    <2>3. f \in [Slots -> Running]
        BY <2>2
    <2> HIDE DEF f
    <2>4. \A p \in Running : \E s \in Slots : f[s] = p
        BY <1>1, <1>2, <2>2
    <2>5. f \in Surjection(Slots, Running)
        BY <2>3, <2>4 DEF Surjection
    <2> QED
        BY <1>3, <2>5, FS_Surjection
<1> QED
    BY <1>4, <1>5

LEMMA CloseBeginsStep ==
    ASSUME PoolInv, CloseBegins
    PROVE  PoolInv'
<1> DEFINE working == {slots[s].task : s \in Slots} \ {NoTask}
           freed == [EmptySlot EXCEPT !.replacing = TRUE]
<1>1. /\ ~closed /\ closed' = TRUE /\ queue' = <<>> /\ closer' = "terminating"
      /\ Finish(Queued \cup working) /\ timers' = Armed(working)
      /\ closing' = {slots[s].process : s \in Slots} \ {NoProcess}
      /\ slots' = [s \in Slots |-> IF slots[s].process = NoProcess THEN slots[s]
                                   ELSE freed]
      /\ UNCHANGED <<nextID, fired, runs, replacers, workers>>
    BY DEF CloseBegins
<1>2. /\ slots \in [Slots -> Slot] /\ queue \in Seq(Tasks)
      /\ answers \in [Tasks -> Nat] /\ timers \subseteq Assignments
      /\ Placed(slots, queue, answers, nextID) /\ NoTask \notin Tasks
    BY DEF PoolInv, PoolTypeOK, PlacedInv, Slot, NoTask, Tasks
<1>3. freed \in Slot /\ freed.process = NoProcess /\ freed.task = NoTask
    BY DEF Slot, EmptySlot
<1> HIDE DEF freed
<1>4. slots' \in [Slots -> Slot]
    BY <1>1, <1>2, <1>3
<1>5. \A s \in Slots : slots'[s].process = NoProcess /\ slots'[s].task = NoTask
    BY <1>1, <1>2, <1>3 DEF PoolInv, SlotInv, Staffed
<1>6. Len(<<>>) = 0 /\ <<>> \in Seq(Tasks) /\ 1..Len(<<>>) = {}
    <2>1. Len(<<>>) = 0 /\ <<>> \in Seq(Tasks)
        BY EmptySeq
    <2> QED
        BY <2>1
<1>7. \A t \in Tasks : ~Held(t, slots', queue')
    BY <1>1, <1>2, <1>5, <1>6 DEF Held
<1>8. \A t \in Tasks : Held(t, slots, queue) <=> t \in Queued \cup working
    BY <1>2 DEF Held, Queued
<1> HIDE DEF working
<1>9. \A t \in Tasks : answers'[t] = IF t <= nextID THEN 1 ELSE 0
    <2> SUFFICES ASSUME NEW t \in Tasks
                 PROVE  answers'[t] = IF t <= nextID THEN 1 ELSE 0
        OBVIOUS
    <2>1. CASE Held(t, slots, queue)
        <3>1. answers[t] = 0 /\ answers'[t] = answers[t] + 1 /\ t <= nextID
            BY <2>1, <1>1, <1>2, <1>8 DEF Placed, Finish
        <3> QED
            BY <3>1
    <2>2. CASE ~Held(t, slots, queue)
        <3>1. answers'[t] = answers[t]
            BY <2>2, <1>1, <1>2, <1>8 DEF Finish
        <3> QED
            BY <2>2, <3>1, <1>2 DEF Placed
    <2> QED
        BY <2>1, <2>2
<1>10. PlacedInv'
    <2>1. Placed(slots', queue', answers', nextID')
        BY <1>1, <1>5, <1>6, <1>7, <1>9 DEF Placed
    <2> QED
        BY <1>1, <2>1 DEF PlacedInv, WaitsForAWorker
<1>11. PoolTypeOK'
    <2>1. answers' \in [Tasks -> Nat]
        BY <1>1, <1>2, FinishTypes
    <2>2. /\ queue' \in Seq(Tasks) /\ Len(queue') <= MaxQueued
          /\ timers' \subseteq Assignments
        BY <1>1, <1>2, <1>6, PoolAssumption DEF Armed, PoolAssumption
    <2>3. closing' \subseteq Processes
        BY <1>1, <1>2 DEF Slot
    <2> QED
        BY <1>1, <1>4, <2>1, <2>2, <2>3 DEF PoolInv, PoolTypeOK, Slot
<1>12. SlotInv'
    BY <1>1, <1>5 DEF SlotInv, Staffed
<1>13. OwnedInv'
    <2>1. closing = {} /\ NoProcess \notin Processes
        BY <1>1, PoolAssumption DEF PoolInv, ClosedInv, PoolAssumption
    <2> QED
        BY <1>1, <2>1 DEF PoolInv, OwnedInv, Running
<1>14. ClosedInv'
    <2>1. IsFiniteSet(Running) /\ Cardinality(Running) <= WorkerCount
        BY <1>1, OneProcessPerSlot
    <2>2. Running' = Running
        BY <1>1 DEF Running
    <2> QED
        BY <1>1, <1>5, <2>1, <2>2 DEF ClosedInv
<1> QED
    BY <1>10, <1>11, <1>12, <1>13, <1>14 DEF PoolInv

LEMMA CloseEndsStep ==
    ASSUME PoolInv, CloseEnds
    PROVE  PoolInv'
<1>1. /\ closer = "terminating" /\ closing = {} /\ replacers = {}
      /\ closer' = "finished"
      /\ slots' = [s \in Slots |-> [slots[s] EXCEPT !.replacing = FALSE]]
      /\ UNCHANGED <<closed, queue, nextID, answers, timers, fired, runs, replacers,
                     workers, closing>>
    BY DEF CloseEnds
<1>2. /\ slots' \in [Slots -> Slot]
      /\ \A s \in Slots : /\ slots'[s].process = slots[s].process
                          /\ slots'[s].task = slots[s].task
    BY <1>1 DEF PoolInv, PoolTypeOK, Slot
<1>3. closed /\ queue = <<>> /\ \A s \in Slots : slots[s].process = NoProcess
    BY <1>1 DEF PoolInv, ClosedInv
<1>4. PoolTypeOK'
    BY <1>1, <1>2 DEF PoolInv, PoolTypeOK, Slot
<1>5. SlotInv'
    BY <1>1, <1>2, <1>3 DEF PoolInv, SlotInv, Staffed
<1>6. Placed(slots', queue', answers', nextID')
    <2>1. Placed(slots, queue, answers, nextID)
        BY DEF PoolInv, PlacedInv
    <2> QED
        BY <1>1, <1>2, <2>1, SamePlaces
<1>7. PlacedInv'
    BY <1>1, <1>3, <1>6 DEF PlacedInv, WaitsForAWorker
<1>8. OwnedInv'
    <2>1. Running = {}
        BY <1>1, <1>3, PoolAssumption DEF PoolInv, OwnedInv, Running, PoolAssumption
    <2> QED
        BY <1>1, <2>1 DEF OwnedInv, Running
<1>9. ClosedInv'
    BY <1>1, <1>2 DEF PoolInv, ClosedInv, Running
<1> QED
    BY <1>4, <1>5, <1>7, <1>8, <1>9 DEF PoolInv

-----------------------------------------------------------------------------
(* Theorems *)

LEMMA PoolInvariant == PoolSpec => []PoolInv
<1>1. ASSUME PoolInv, [PoolNext]_poolVars PROVE PoolInv'
    <2>1. CASE Convert
        BY <1>1, <2>1, ConvertStep
    <2>2. ASSUME NEW p \in Processes, WorkerExits(p) \/ CloseTerminates(p)
          PROVE  PoolInv'
        BY <1>1, <2>2, WorkerExitsStep, CloseTerminatesStep
    <2>3. ASSUME NEW r \in runs,
                 WorkerAnswers(r) \/ PipeCloses(r) \/ CompleteAssignment(r) \/ FailWorker(r)
          PROVE  PoolInv'
        <3>1. CASE \E outcome \in {"answered", "broken"} : RunEnds(r, outcome)
            BY <1>1, <3>1, RunEndsStep
        <3>2. CASE CompleteAssignment(r)
            BY <1>1, <3>2, CompleteStep
        <3>3. CASE FailWorker(r)
            BY <1>1, <3>3, FailStep
        <3> QED
            BY <2>3, <3>1, <3>2, <3>3 DEF WorkerAnswers, PipeCloses
    <2>4. ASSUME NEW a, TimerFires(a) \/ TimeoutWorker(a)
          PROVE  PoolInv'
        BY <1>1, <2>4, TimerFiresStep, TimeoutStep
    <2>5. ASSUME NEW x, ReplaceTerminates(x) \/ ReplaceLaunches(x)
          PROVE  PoolInv'
        BY <1>1, <2>5, ReplaceTerminatesStep, ReplaceLaunchesStep
    <2>6. CASE CloseBegins
        BY <1>1, <2>6, CloseBeginsStep
    <2>7. CASE CloseEnds
        BY <1>1, <2>7, CloseEndsStep
    <2>8. CASE UNCHANGED poolVars
        <3>1. /\ timers' \subseteq Assignments /\ fired' \subseteq Assignments
              /\ runs' \subseteq Runs
            BY <1>1, <2>8 DEF poolVars, PoolInv, PoolTypeOK, Runs
        <3> QED
            BY <1>1, <2>8, <3>1, QuietStep DEF poolVars
    <2> QED
        BY <1>1, <2>1, <2>2, <2>3, <2>4, <2>5, <2>6, <2>7, <2>8 DEF PoolNext
<1> QED
    BY <1>1, InitInv, PTL DEF PoolSpec

\* Type correctness of the pool: what newThumbnailPool makes and every critical
\* section of pool.mu keeps, the bound of the queue included.
THEOREM PoolTypes == PoolSpec => []PoolTypeOK
<1>1. PoolInv => PoolTypeOK
    BY DEF PoolInv
<1> QED
    BY <1>1, PoolInvariant, PTL

\* A conversion that convert has taken is in the queue, with one worker or
\* answered exactly once, and waits only for a worker that will take it.
THEOREM NoConversionIsLost == PoolSpec => []NothingLost
<1>1. ASSUME PoolInv PROVE NothingLost
    <2>1. Placed(slots, queue, answers, nextID)
        BY <1>1 DEF PoolInv, PlacedInv
    <2>2. \A t \in Tasks : Held(t, slots, queue) <=>
                              t \in Queued \cup {slots[s].task : s \in Slots}
        BY DEF Held, Queued
    <2>3. Queued \cap {slots[s].task : s \in Slots} = {}
        BY <2>1 DEF Placed, Queued
    <2>4. InOnePlace
        BY <2>1, <2>2, <2>3 DEF Placed, InOnePlace
    <2> QED
        BY <1>1, <2>4 DEF NothingLost, PoolInv, PlacedInv
<1> QED
    BY <1>1, PoolInvariant, PTL

\* Every worker process has its slot, its replacer or close to terminate it;
\* there are at most thumbnailWorkerCount and none once close has returned.
THEOREM NoWorkerIsLeft == PoolSpec => []WorkersAreOwned
<1>1. ASSUME PoolInv PROVE WorkersAreOwned
    <2>1. OwnedInv
        BY <1>1 DEF PoolInv
    <2>2. Cardinality(Running) <= WorkerCount
        BY <1>1, OneProcessPerSlot DEF PoolInv, ClosedInv
    <2>3. ASSUME closer = "finished" PROVE Running = {}
        <3>1. /\ closing = {} /\ replacers = {}
              /\ \A s \in Slots : slots[s].process = NoProcess
            BY <1>1, <2>3 DEF PoolInv, ClosedInv
        <3>2. NoProcess \notin Running
            BY PoolAssumption DEF Running, PoolAssumption
        <3> QED
            BY <2>1, <3>1, <3>2 DEF OwnedInv
    <2> QED
        BY <2>1, <2>2, <2>3 DEF WorkersAreOwned, OwnedInv, Running
<1> QED
    BY <1>1, PoolInvariant, PTL
-----------------------------------------------------------------------------
(* Who will answer a conversion *)

\* The assignment of the task that the slot s has.
Assigned(ss, s) == [slot |-> s, process |-> ss[s].process, task |-> ss[s].task]

\* Each task in a worker's hands has a timer that is armed or has fired.
Timed(ss, pending) ==
    \A s \in Slots : ss[s].task # NoTask => Assigned(ss, s) \in pending

\* Each slot that is being replaced has a goroutine that does it.
Replaced(ss, going) ==
    \A s \in Slots : ss[s].replacing => \E x \in going : x.slot = s

\* The queue is the conversions taken last, in their order.
LastOnes(q, last) == \A i \in 1..Len(q) : q[i] = last - Len(q) + i

\* What NothingLost does not say of the timers, the replacers and the order.
AnswerInv ==
    /\ Timed(slots, timers \cup fired)
    /\ ~closed => Replaced(slots, replacers)
    /\ LastOnes(queue, nextID)

\* Who is given a task is given its timer, and the queue loses its head.
LEMMA DispatchTimes ==
    ASSUME NEW ss \in [Slots -> Slot], NEW q \in Seq(Tasks), NEW ts, NEW rest,
           NEW last \in Nat, NEW late,
           Dispatch(ss, q, ts, rest), Timed(ss, Armed(ts) \cup late), LastOnes(q, last)
    PROVE  Timed(slots', timers' \cup late) /\ LastOnes(queue', last)
<1> DEFINE Left(n, given) == Idle(ss) \ {given[i] : i \in 1..n}
           Gives(n, given) ==
             /\ \A i, j \in 1..n : i < j => given[i] < given[j]
             /\ slots' = [s \in Slots |->
                            IF s \in Idle(ss) \ Left(n, given)
                            THEN [ss[s] EXCEPT !.task = q[CHOOSE i \in 1..n : given[i] = s]]
                            ELSE ss[s]]
             /\ queue' = SubSeq(q, n + 1, Len(q))
             /\ timers' = Armed(ts) \cup NewAssignments(ss, q, given)
<1>1. PICK n \in 0..Len(q) : \E given \in [1..n -> Idle(ss)] : Gives(n, given)
    BY DEF Dispatch
<1>2. PICK given \in [1..n -> Idle(ss)] : Gives(n, given)
    BY <1>1
<1>3. Len(q) \in Nat /\ \A i \in 1..Len(q) : q[i] \in Tasks
    BY LenProperties
<1>4. \A s \in Slots : \/ slots'[s] = ss[s]
                       \/ \E i \in 1..n : given[i] = s /\ slots'[s] = [ss[s] EXCEPT !.task = q[i]]
    BY <1>2
<1>5. timers' = Armed(ts) \cup NewAssignments(ss, q, given)
    BY <1>2
<1>6. /\ queue' \in Seq(Tasks)
      /\ Len(queue') = Len(q) - n
      /\ \A i \in 1..(Len(q) - n) : queue'[i] = q[n + i]
    <2>1. PICK m \in Int : m = n + 1
        BY <1>3
    <2>2. Len(q) \in Int /\ \A i \in m .. Len(q) : q[i] \in Tasks
        BY <2>1, <1>3
    <2>3. /\ SubSeq(q, m, Len(q)) \in Seq(Tasks)
          /\ Len(SubSeq(q, m, Len(q))) = IF m <= Len(q) THEN Len(q) - m + 1 ELSE 0
          /\ \A i \in 1 .. Len(q) - m + 1 : SubSeq(q, m, Len(q))[i] = q[m + i - 1]
        BY <2>2, SubSeqProperties
    <2>4. queue' = SubSeq(q, m, Len(q))
        BY <2>1, <1>2
    <2> HIDE DEF Gives
    <2> QED
        BY <2>1, <2>3, <2>4, <1>3
<1> HIDE DEF Gives, Left
<1>7. Timed(slots', timers' \cup late)
    <2> SUFFICES ASSUME NEW s \in Slots, slots'[s].task # NoTask
                 PROVE  Assigned(slots', s) \in timers' \cup late
        BY DEF Timed
    <2>1. CASE slots'[s] = ss[s]
        BY <2>1, <1>5 DEF Timed, Assigned
    <2>2. ASSUME NEW i \in 1..n, given[i] = s, slots'[s] = [ss[s] EXCEPT !.task = q[i]]
          PROVE  Assigned(slots', s) \in timers'
        <3>1. slots'[s].process = ss[s].process /\ slots'[s].task = q[i]
            BY <2>2 DEF Slot
        <3>2. i \in DOMAIN given
            OBVIOUS
        <3> QED
            BY <2>2, <3>1, <3>2, <1>5 DEF Assigned, NewAssignments
    <2> QED
        BY <2>1, <2>2, <1>4
<1>8. LastOnes(queue', last)
    <2>1. \A i \in 1..(Len(q) - n) : n + i \in 1..Len(q) /\ q[n + i] = last - Len(q) + (n + i)
        BY <1>3 DEF LastOnes
    <2> QED
        BY <2>1, <1>3, <1>6 DEF LastOnes
<1> QED
    BY <1>7, <1>8

LEMMA DispatchKeepsReplaced ==
    ASSUME NEW ss \in [Slots -> Slot], NEW q \in Seq(Tasks), NEW ts, NEW rest,
           NEW going, Dispatch(ss, q, ts, rest), Replaced(ss, going)
    PROVE  Replaced(slots', going)
<1>1. \A s \in Slots : slots'[s] = ss[s] \/ \E k : slots'[s] = [ss[s] EXCEPT !.task = k]
    BY DEF Dispatch
<1>2. \A s \in Slots : slots'[s].replacing = ss[s].replacing
    BY <1>1 DEF Slot
<1> QED
    BY <1>2 DEF Replaced

\* A launch, and what is dispatched after it.
LEMMA LaunchAnswers ==
    ASSUME NEW ss \in [Slots -> Slot], NEW q \in Seq(Tasks), NEW last \in Nat,
           DispatchOrReject(ss, q), Timed(ss, timers \cup fired),
           Replaced(ss, replacers'), LastOnes(q, last),
           nextID' = last, fired' = fired
    PROVE  AnswerInv'
<1>1. CASE Runnable(ss) \/ Replacing(ss)
    <2>1. Dispatch(ss, q, {}, runs)
        BY <1>1 DEF DispatchOrReject
    <2>2. Armed({}) = timers
        BY DEF Armed
    <2>3. Timed(slots', timers' \cup fired) /\ LastOnes(queue', last)
        BY <2>1, <2>2, DispatchTimes
    <2>4. Replaced(slots', replacers')
        BY <2>1, DispatchKeepsReplaced
    <2> QED
        BY <2>3, <2>4 DEF AnswerInv
<1>2. CASE ~(Runnable(ss) \/ Replacing(ss))
    <2>1. queue' = <<>> /\ slots' = ss /\ timers' = timers
        BY <1>2 DEF DispatchOrReject
    <2>2. LastOnes(queue', last)
        BY <2>1, EmptySeq DEF LastOnes
    <2> QED
        BY <2>1, <2>2 DEF AnswerInv
<1> QED
    BY <1>1, <1>2

\* The task t of the slot k is taken out of it: the other slots' timers stay.
LEMMA OthersStayTimed ==
    ASSUME PoolInv, AnswerInv, NEW a \in Assignments, Holds(a), NEW ss,
           NEW late, ss[a.slot].task = NoTask,
           \A s \in Slots : s # a.slot => ss[s].task = slots[s].task /\ ss[s].process = slots[s].process,
           \A b \in fired : b # a => b \in late
    PROVE  Timed(ss, Armed({a.task}) \cup late)
<1>1. a.slot \in Slots /\ slots[a.slot].task = a.task
    BY HoldsFacts
<1>2. ASSUME NEW s \in Slots, ss[s].task # NoTask
      PROVE  Assigned(ss, s) \in Armed({a.task}) \cup late
    <2>1. s # a.slot /\ ss[s].task = slots[s].task /\ ss[s].process = slots[s].process
        BY <1>2
    <2>2. Assigned(ss, s) = Assigned(slots, s) /\ Assigned(slots, s) \in timers \cup fired
        BY <1>2, <2>1 DEF AnswerInv, Timed, Assigned
    <2>3. slots[s].task # a.task
        BY <1>1, <1>2, <2>1 DEF PoolInv, PlacedInv, Placed
    <2>4. Assigned(slots, s).task # a.task
        BY <2>3 DEF Assigned
    <2> QED
        BY <2>2, <2>4 DEF Armed
<1> QED
    BY <1>2 DEF Timed

LEMMA CompleteAnswers ==
    ASSUME PoolInv, AnswerInv, NEW r, CompleteAssignment(r)
    PROVE  AnswerInv'
<1>1. r.work \in Assignments /\ UNCHANGED <<closed, nextID, fired, replacers>>
    BY DEF CompleteAssignment, PoolInv, PoolTypeOK
<1>2. CASE ~Holds(r.work)
    <2>1. UNCHANGED <<slots, queue, timers>>
        BY <1>2 DEF CompleteAssignment
    <2> QED
        BY <1>1, <2>1 DEF AnswerInv
<1>3. CASE Holds(r.work)
    <2> DEFINE k == r.work.slot
               ss == [slots EXCEPT ![k].task = NoTask]
    <2>1. /\ k \in Slots /\ slots \in [Slots -> Slot] /\ queue \in Seq(Tasks)
          /\ nextID \in Nat /\ ~closed
        BY <1>1, <1>3, HoldsFacts
    <2>2. Dispatch(ss, queue, {r.work.task}, runs \ {r})
        BY <1>3 DEF CompleteAssignment
    <2>3. /\ ss \in [Slots -> Slot] /\ ss[k].task = NoTask
          /\ \A s \in Slots : /\ s # k => ss[s].task = slots[s].task
                              /\ ss[s].process = slots[s].process
                              /\ ss[s].replacing = slots[s].replacing
        BY <2>1 DEF Slot, NoTask
    <2> HIDE DEF ss
    <2>4. Timed(ss, Armed({r.work.task}) \cup fired)
        BY <1>1, <1>3, <2>3, OthersStayTimed
    <2>5. Replaced(ss, replacers)
        BY <2>1, <2>3 DEF AnswerInv, Replaced
    <2>6. Timed(slots', timers' \cup fired) /\ LastOnes(queue', nextID)
        BY <2>1, <2>2, <2>3, <2>4, DispatchTimes DEF AnswerInv
    <2>7. Replaced(slots', replacers)
        BY <2>1, <2>2, <2>3, <2>5, DispatchKeepsReplaced
    <2> QED
        BY <1>1, <2>6, <2>7 DEF AnswerInv
<1> QED
    BY <1>2, <1>3

\* What a failure or a timeout does; the timeout has left fired.
LEMMA DetachAnswers ==
    ASSUME PoolInv, AnswerInv, NEW a \in Assignments, NEW rest, Detach(a, rest),
           UNCHANGED <<closed, nextID>>, fired' \subseteq fired,
           \A b \in fired : b # a => b \in fired',
           a \in fired' \/ fired' = fired \/ a \in fired
    PROVE  AnswerInv'
<1>1. CASE ~Holds(a)
    <2>1. UNCHANGED <<slots, queue, timers, replacers>>
        BY <1>1 DEF Detach
    <2>2. \A s \in Slots : slots[s].task # NoTask => Assigned(slots, s) # a
        <3> SUFFICES ASSUME NEW s \in Slots, slots[s].task # NoTask, Assigned(slots, s) = a
                     PROVE  FALSE
            OBVIOUS
        <3>1. a.slot = s /\ slots[s].process = a.process /\ slots[s].task = a.task
            BY DEF Assigned
        <3>2. ~closed
            BY PoolAssumption DEF PoolInv, ClosedInv, SlotInv, Staffed
        <3> QED
            BY <3>1, <3>2, <1>1 DEF Holds
    <2>3. Timed(slots, timers \cup fired')
        BY <2>2 DEF AnswerInv, Timed
    <2> QED
        BY <2>1, <2>3 DEF AnswerInv
<1>2. CASE Holds(a)
    <2> DEFINE k == a.slot
               ss == [slots EXCEPT ![k] = [EmptySlot EXCEPT !.replacing = TRUE]]
               x == [slot |-> k, process |-> a.process, pc |-> "terminate"]
    <2>1. /\ k \in Slots /\ slots \in [Slots -> Slot] /\ queue \in Seq(Tasks)
          /\ nextID \in Nat /\ ~closed
        BY <1>2, HoldsFacts
    <2>2. /\ Dispatch(ss, queue, {a.task}, rest)
          /\ replacers' = replacers \cup {x} /\ x.slot = k
        BY <1>2 DEF Detach
    <2>3. /\ ss \in [Slots -> Slot] /\ ss[k].task = NoTask
          /\ \A s \in Slots : s # k => ss[s] = slots[s]
        BY <2>1 DEF Slot, EmptySlot
    <2> HIDE DEF ss, x
    <2>4. Timed(ss, Armed({a.task}) \cup fired')
        BY <1>2, <2>3, OthersStayTimed
    <2>5. Replaced(ss, replacers')
        BY <2>1, <2>2, <2>3 DEF AnswerInv, Replaced
    <2>6. Timed(slots', timers' \cup fired') /\ LastOnes(queue', nextID)
        BY <2>1, <2>2, <2>3, <2>4, DispatchTimes DEF AnswerInv
    <2>7. Replaced(slots', replacers')
        BY <2>2, <2>3, <2>5, <2>1, DispatchKeepsReplaced
    <2> QED
        BY <2>6, <2>7 DEF AnswerInv
<1> QED
    BY <1>1, <1>2

LEMMA ConvertAnswers ==
    ASSUME PoolInv, AnswerInv, Convert
    PROVE  AnswerInv'
<1>1. PICK S \in SUBSET Empty : \E name \in Launches(S) :
          DispatchOrReject(
                [s \in Slots |-> IF s \in S
                                 THEN [slots[s] EXCEPT !.process = name[s]] ELSE slots[s]],
                Append(queue, nextID + 1))
    BY DEF Convert
<1>2. PICK name \in Launches(S) :
          DispatchOrReject(
                [s \in Slots |-> IF s \in S
                                 THEN [slots[s] EXCEPT !.process = name[s]] ELSE slots[s]],
                Append(queue, nextID + 1))
    BY <1>1
<1> DEFINE ss == [s \in Slots |-> IF s \in S
                                  THEN [slots[s] EXCEPT !.process = name[s]] ELSE slots[s]]
           q == Append(queue, nextID + 1)
<1>3. /\ ~closed /\ nextID < MaxTasks /\ nextID' = nextID + 1
      /\ fired' = fired /\ replacers' = replacers
      /\ DispatchOrReject(ss, q)
    BY <1>2 DEF Convert
<1>4. slots \in [Slots -> Slot] /\ nextID \in Nat /\ queue \in Seq(Tasks)
    BY PoolAssumption DEF PoolInv, PoolTypeOK, Slot, PoolAssumption
<1>5. \A s \in S : /\ s \in Slots /\ name[s] \in Processes
                   /\ slots[s].process = NoProcess
    BY LaunchesNames DEF Empty
<1>6. q \in Seq(Tasks)
    BY <1>3, AppendPlaces
<1>7. LastOnes(q, nextID + 1)
    <2>1. Len(q) = Len(queue) + 1 /\ Len(queue) \in Nat
        BY <1>3, <1>4, AppendPlaces, LenProperties
    <2>2. \A i \in 1..Len(queue) : q[i] = queue[i]
        BY <1>4, <1>3, AppendProperties, PoolAssumption DEF Tasks, PoolAssumption
    <2>3. q[Len(queue) + 1] = nextID + 1
        BY <1>4, <1>3, AppendProperties, PoolAssumption DEF Tasks, PoolAssumption
    <2> HIDE DEF q
    <2> QED
        BY <2>1, <2>2, <2>3, <1>4 DEF AnswerInv, LastOnes
<1>8. /\ ss \in [Slots -> Slot]
      /\ \A s \in Slots : ss[s].task = slots[s].task /\ ss[s].replacing = slots[s].replacing
      /\ \A s \in Slots \ S : ss[s] = slots[s]
    BY <1>4, <1>5 DEF Slot
<1> HIDE DEF ss, q
<1>9. \A s \in S : slots[s].task = NoTask
    BY <1>5 DEF PoolInv, SlotInv, Staffed
<1>10. Timed(ss, timers \cup fired)
    <2> SUFFICES ASSUME NEW s \in Slots, ss[s].task # NoTask
                 PROVE  Assigned(ss, s) \in timers \cup fired
        BY DEF Timed
    <2>1. ss[s] = slots[s]
        BY <1>8, <1>9
    <2> QED
        BY <2>1 DEF AnswerInv, Timed, Assigned
<1>11. Replaced(ss, replacers')
    BY <1>3, <1>8 DEF AnswerInv, Replaced
<1>12. nextID + 1 \in Nat
    BY <1>4
<1> QED
    BY <1>3, <1>6, <1>7, <1>8, <1>10, <1>11, <1>12, LaunchAnswers

LEMMA ReplaceLaunchesAnswers ==
    ASSUME PoolInv, AnswerInv, NEW x, ReplaceLaunches(x)
    PROVE  AnswerInv'
<1>1. /\ x \in replacers /\ replacers' = replacers \ {x}
      /\ UNCHANGED <<closed, nextID, fired>>
    BY DEF ReplaceLaunches
<1>2. /\ slots \in [Slots -> Slot] /\ nextID \in Nat
      /\ queue \in Seq(Tasks) /\ x.slot \in Slots
    BY <1>1, PoolAssumption DEF PoolInv, PoolTypeOK, Slot, PoolAssumption
<1>3. CASE closed
    <2>1. /\ slots' = [slots EXCEPT ![x.slot].replacing = FALSE]
          /\ UNCHANGED <<queue, timers>>
        BY <1>3 DEF ReplaceLaunches
    <2>2. \A s \in Slots : slots'[s].task = NoTask
        BY <1>2, <1>3, <2>1 DEF PoolInv, ClosedInv, SlotInv, Staffed, Slot
    <2>3. Timed(slots', timers' \cup fired')
        BY <2>2 DEF Timed
    <2> QED
        BY <1>1, <1>3, <2>1, <2>3 DEF AnswerInv
<1>4. CASE ~closed
    <2>1. PICK p \in {NoProcess} \cup {name[x.slot] : name \in Launches({x.slot})} :
              DispatchOrReject([slots EXCEPT ![x.slot] =
                                      [EmptySlot EXCEPT !.process = p]], queue)
        BY <1>4 DEF ReplaceLaunches
    <2> DEFINE ss == [slots EXCEPT ![x.slot] = [EmptySlot EXCEPT !.process = p]]
    <2>2. p \in Processes \cup {NoProcess}
        BY LaunchesNames
    <2>3. /\ ss \in [Slots -> Slot]
          /\ ss[x.slot].task = NoTask /\ ~ss[x.slot].replacing
          /\ \A s \in Slots : s # x.slot => ss[s] = slots[s]
        BY <1>2, <2>2 DEF Slot, EmptySlot
    <2>4. DispatchOrReject(ss, queue)
        BY <2>1
    <2> HIDE DEF ss
    <2>5. Timed(ss, timers \cup fired)
        <3> SUFFICES ASSUME NEW s \in Slots, ss[s].task # NoTask
                     PROVE  Assigned(ss, s) \in timers \cup fired
            BY DEF Timed
        <3>1. ss[s] = slots[s]
            BY <2>3
        <3> QED
            BY <3>1 DEF AnswerInv, Timed, Assigned
    <2>6. Replaced(ss, replacers')
        BY <1>1, <1>4, <2>3 DEF AnswerInv, Replaced
    <2> QED
        BY <1>1, <1>2, <2>3, <2>4, <2>5, <2>6, LaunchAnswers DEF AnswerInv
<1> QED
    BY <1>3, <1>4

\* The steps that leave the slots and the queue alone.
LEMMA QuietAnswers ==
    ASSUME AnswerInv, UNCHANGED <<closed, queue, nextID, slots>>,
           timers \cup fired \subseteq timers' \cup fired',
           \A x \in replacers : \E y \in replacers' : y.slot = x.slot
    PROVE  AnswerInv'
BY DEF AnswerInv, Timed, Replaced, Assigned

LEMMA AnswerStep ==
    ASSUME PoolInv, PoolInv', AnswerInv, [PoolNext]_poolVars
    PROVE  AnswerInv'
<1>1. CASE Convert
    BY <1>1, ConvertAnswers
<1>2. ASSUME NEW p \in Processes, WorkerExits(p) \/ CloseTerminates(p)
      PROVE  AnswerInv'
    BY <1>2, QuietAnswers DEF WorkerExits, CloseTerminates
<1>3. ASSUME NEW r \in runs, WorkerAnswers(r) \/ PipeCloses(r)
      PROVE  AnswerInv'
    BY <1>3, QuietAnswers DEF WorkerAnswers, PipeCloses, RunEnds
<1>4. ASSUME NEW r \in runs, CompleteAssignment(r)
      PROVE  AnswerInv'
    BY <1>4, CompleteAnswers
<1>5. ASSUME NEW r \in runs, FailWorker(r)
      PROVE  AnswerInv'
    <2>1. r.work \in Assignments
        BY DEF PoolInv, PoolTypeOK
    <2> QED
        BY <1>5, <2>1, DetachAnswers DEF FailWorker
<1>6. ASSUME NEW a, TimerFires(a)
      PROVE  AnswerInv'
    BY <1>6, QuietAnswers DEF TimerFires
<1>7. ASSUME NEW a, TimeoutWorker(a)
      PROVE  AnswerInv'
    <2>1. a \in Assignments
        BY <1>7 DEF TimeoutWorker, PoolInv, PoolTypeOK
    <2> QED
        BY <1>7, <2>1, DetachAnswers DEF TimeoutWorker
<1>8. ASSUME NEW x, ReplaceTerminates(x)
      PROVE  AnswerInv'
    <2> DEFINE on == [x EXCEPT !.pc = "launch"]
    <2>1. x \in replacers /\ replacers' = (replacers \ {x}) \cup {on}
        BY <1>8 DEF ReplaceTerminates
    <2>2. on.slot = x.slot
        BY <2>1 DEF PoolInv, PoolTypeOK
    <2> HIDE DEF on
    <2>3. \A y \in replacers : \E z \in replacers' : z.slot = y.slot
        BY <2>1, <2>2
    <2> QED
        BY <1>8, <2>3, QuietAnswers DEF ReplaceTerminates
<1>9. ASSUME NEW x, ReplaceLaunches(x)
      PROVE  AnswerInv'
    BY <1>9, ReplaceLaunchesAnswers
<1>10. CASE CloseBegins \/ CloseEnds
    <2>1. closed' /\ (CloseEnds => closed)
        BY <1>10 DEF CloseBegins, CloseEnds, PoolInv, ClosedInv
    <2>2. queue' = <<>> /\ \A s \in Slots : slots'[s].task = NoTask
        BY <2>1 DEF PoolInv, ClosedInv, SlotInv, Staffed
    <2>3. LastOnes(queue', nextID')
        BY <2>2, EmptySeq DEF LastOnes
    <2> QED
        BY <2>1, <2>2, <2>3 DEF AnswerInv, Timed
<1>11. CASE UNCHANGED poolVars
    BY <1>11, QuietAnswers DEF poolVars
<1> QED
    BY <1>1, <1>2, <1>3, <1>4, <1>5, <1>6, <1>7, <1>8, <1>9, <1>10, <1>11 DEF PoolNext

LEMMA AnswerInvariance == PoolSpec => [](PoolInv /\ AnswerInv)
<1>1. PoolInit => AnswerInv
    <2>1. ASSUME PoolInit PROVE \A s \in Slots : slots[s].task = NoTask /\ ~slots[s].replacing
        BY <2>1 DEF PoolInit, EmptySlot
    <2>2. ASSUME PoolInit PROVE LastOnes(queue, nextID)
        BY <2>2, EmptySeq DEF PoolInit, LastOnes
    <2> QED
        BY <2>1, <2>2 DEF AnswerInv, Timed, Replaced
<1> QED
    BY <1>1, AnswerStep, PoolInvariant, PTL DEF PoolSpec

\* A timer of the task t is coming that will find its assignment as it was.
WillEnd(t) == \E a \in timers \cup fired : a.task = t /\ Holds(a)

\* A conversion that was taken and is not answered has a timeout coming that will
\* answer it, or it waits while such a timeout, or the goroutine of a replacement,
\* has yet to free a worker: the worker need do nothing for it.
NoConversionWaitsForNothing ==
    \A t \in 1..nextID : answers[t] = 0 =>
        \/ WillEnd(t)
        \/ t \in Queued /\ (replacers # {} \/ \E u \in Tasks : WillEnd(u))

\* While a conversion waits, so does every one that came after it.
FirstComeFirstServed ==
    \A t, u \in 1..nextID : t < u /\ t \in Queued => u \in Queued

\* The part of EveryConversionIsAnswered that is about states: completeAssignment,
\* failWorker, the timer of dispatchLocked and replaceWorker never leave a
\* conversion of convert with nothing under way that ends it.
THEOREM EveryConversionCanEnd == PoolSpec => []NoConversionWaitsForNothing
<1>1. ASSUME PoolInv, AnswerInv PROVE NoConversionWaitsForNothing
    <2>1. ASSUME NEW s \in Slots, slots[s].task # NoTask
          PROVE  slots[s].task \in Tasks /\ WillEnd(slots[s].task)
        <3>1. Assigned(slots, s) \in timers \cup fired
            BY <1>1, <2>1 DEF AnswerInv, Timed
        <3>2. ~closed
            BY <1>1, <2>1 DEF PoolInv, ClosedInv, SlotInv, Staffed
        <3>3. Holds(Assigned(slots, s)) /\ Assigned(slots, s).task = slots[s].task
            BY <3>2 DEF Holds, Assigned
        <3>4. slots[s].task \in Tasks
            BY <1>1, <2>1 DEF PoolInv, PoolTypeOK
        <3> QED
            BY <3>1, <3>3, <3>4 DEF WillEnd
    <2>2. ASSUME NEW t \in 1..nextID, answers[t] = 0
          PROVE  t \in Tasks /\ Held(t, slots, queue)
        <3>1. t \in Tasks /\ t <= nextID
            BY <1>1, PoolAssumption DEF PoolInv, PoolTypeOK, Tasks, PoolAssumption
        <3> QED
            BY <1>1, <2>2, <3>1 DEF PoolInv, PlacedInv, Placed
    <2>3. ASSUME queue # <<>>
          PROVE  replacers # {} \/ \E u \in Tasks : WillEnd(u)
        <3>1. Idle(slots) = {} /\ (Runnable(slots) \/ Replacing(slots)) /\ ~closed
            BY <1>1, <2>3 DEF PoolInv, PlacedInv, WaitsForAWorker, ClosedInv
        <3>2. CASE Runnable(slots)
            BY <3>1, <3>2, <2>1 DEF Runnable, Idle
        <3>3. CASE Replacing(slots)
            BY <3>1, <3>3, <1>1 DEF Replacing, AnswerInv, Replaced
        <3> QED
            BY <3>1, <3>2, <3>3
    <2> SUFFICES ASSUME NEW t \in 1..nextID, answers[t] = 0
                 PROVE  \/ WillEnd(t)
                        \/ t \in Queued /\ (replacers # {} \/ \E u \in Tasks : WillEnd(u))
        BY DEF NoConversionWaitsForNothing
    <2>4. CASE \E s \in Slots : slots[s].task = t
        <3>1. t # NoTask
            BY <1>1, <2>2 DEF NoTask, Tasks
        <3> QED
            BY <2>1, <2>4, <3>1
    <2>5. CASE \E i \in 1..Len(queue) : queue[i] = t
        <3>1. t \in Queued /\ queue # <<>>
            BY <2>5, EmptySeq DEF Queued
        <3> QED
            BY <2>3, <3>1
    <2> QED
        BY <2>2, <2>4, <2>5 DEF Held
<1> QED
    BY <1>1, AnswerInvariance, PTL

\* dispatchLocked, rejectQueuedLocked and close leave no conversion behind a
\* later one, however many workers are launched, lost and replaced.
THEOREM TakenInOrder == PoolSpec => []FirstComeFirstServed
<1>1. ASSUME PoolInv, AnswerInv PROVE FirstComeFirstServed
    <2> SUFFICES ASSUME NEW t \in 1..nextID, NEW u \in 1..nextID, t < u, t \in Queued
                 PROVE  u \in Queued
        BY DEF FirstComeFirstServed
    <2>1. nextID \in Nat /\ Len(queue) \in Nat
        BY <1>1, LenProperties, PoolAssumption DEF PoolInv, PoolTypeOK, PoolAssumption
    <2>2. PICK i \in 1..Len(queue) : queue[i] = t
        BY DEF Queued
    <2>3. t = nextID - Len(queue) + i
        BY <1>1, <2>2 DEF AnswerInv, LastOnes
    <2>4. i + (u - t) \in 1..Len(queue) /\ u = nextID - Len(queue) + (i + (u - t))
        BY <2>1, <2>3
    <2>5. queue[i + (u - t)] = u
        BY <1>1, <2>4 DEF AnswerInv, LastOnes
    <2> QED
        BY <2>4, <2>5 DEF Queued
<1> QED
    BY <1>1, AnswerInvariance, PTL
=============================================================================
