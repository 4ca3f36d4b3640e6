------------------------------ MODULE Handover ------------------------------
(***************************************************************************)
(* How threads hand work to each other.  The task pool (task_pool.h,       *)
(* thread_pool.h): a queue of immediate tasks, a list of timer tasks       *)
(* sorted by descending due time, and the one worker thread main() starts. *)
(* Any thread pushes and cancels; a push holds the pool's lock, a cancel   *)
(* only the task mutex.  delay() and pop(task_id) have no caller in the    *)
(* program and are left out.                                               *)
(*                                                                         *)
(* The primitives of thread_safe.h: queue_t under each of its overflow     *)
(* policies, event_t, and the mail registry that hands out shared posts by *)
(* name.  A call that waits does so on the object's condition variable;    *)
(* every change notifies all waiters, and a woken waiter takes the lock    *)
(* and looks again.                                                        *)
(***************************************************************************)
EXTENDS Naturals, Sequences, SequencesExt, FiniteSets

CONSTANTS
    Tasks,        \* the tasks the program pushes, each once
    Delays,       \* delays of timer tasks
    MaxTime,      \* bound on the clock
    Producers,    \* threads that raise
    MaxSent,      \* bound: items raised by one producer
    MaxElements   \* _max_elements of the queue

VARIABLES
    tasks,        \* _tasks: pushed and not popped
    timers,       \* _timer_tasks: records of a due time and a task
    fate,         \* task -> "new", "queued", "running", "ran", "cancelled"
    worker,       \* where _main() is
    until,        \* the time point of its wait, or Forever
    running,      \* _continue
    clock,        \* steady_clock::now()
    overflow,     \* queue_overflow_e of this queue
    queue,        \* _queue: pairs of a producer and its item's number
    open,         \* _continue
    sent,         \* producer -> items it has offered
    sender,       \* producer -> "idle", "waiting" for room, or "woken"
    reader,       \* the consumer: "idle", "waiting", "woken", "timedout"
    taken,        \* what pop() returned, in order
    lost,         \* items refused or cleared
    event,        \* event_t: _status, 0 for none
    post          \* mail: the post of one name: "none", "live", "expired"

-----------------------------------------------------------------------------
poolVars == <<tasks, timers, fate, worker, until, running, clock>>

Forever == MaxTime + 1
Timers == [due : 0..(2 * MaxTime), task : Tasks]

PoolInit ==
    /\ tasks = <<>> /\ timers = <<>>
    /\ fate = [t \in Tasks |-> "new"]
    /\ worker = "loop" /\ until = Forever
    /\ running = TRUE /\ clock = 0

(* A waiting worker that is notified leaves its wait. *)
Notify == worker' = IF worker = "waiting" THEN "loop" ELSE worker

(* While the worker holds the pool's lock no push and no stop gets in. *)
Unlocked == worker # "deciding"

Push(t) ==
    /\ Unlocked /\ fate[t] = "new"
    /\ tasks' = Append(tasks, t)
    /\ fate' = [fate EXCEPT ![t] = "queued"]
    /\ Notify
    /\ UNCHANGED <<timers, until, running, clock>>

(* The new timer goes before the first one that is due earlier. *)
Placed(list, entry) ==
    LET earlier == {i \in DOMAIN list : list[i].due < entry.due}
        place == IF earlier = {} THEN Len(list) + 1
                 ELSE CHOOSE i \in earlier : \A j \in earlier : i <= j
    IN  InsertAt(list, place, entry)

PushDelayed(t, d) ==
    /\ Unlocked /\ fate[t] = "new"
    /\ timers' = Placed(timers, [due |-> clock + d, task |-> t])
    /\ fate' = [fate EXCEPT ![t] = "queued"]
    /\ Notify
    /\ UNCHANGED <<tasks, until, running, clock>>

Cancel(t) ==
    /\ \E i \in DOMAIN timers :
          timers[i].task = t /\ timers' = RemoveAt(timers, i)
    /\ fate' = [fate EXCEPT ![t] = "cancelled"]
    /\ UNCHANGED <<tasks, worker, until, running, clock>>

Due == timers # <<>> /\ Last(timers).due <= clock
Ready == tasks # <<>> \/ Due

(* pop(): immediate tasks first, then the earliest timer if it is due. *)
PopTask ==
    IF tasks # <<>>
    THEN /\ tasks' = Tail(tasks) /\ UNCHANGED timers
         /\ fate' = [fate EXCEPT ![Head(tasks)] = "running"]
    ELSE /\ Due
         /\ timers' = Front(timers) /\ UNCHANGED tasks
         /\ fate' = [fate EXCEPT ![Last(timers).task] = "running"]

NoneRunning == \A t \in Tasks : fate[t] # "running"

Draining == worker = "drain"

(* The loop runs what it pops; once stopped, what is left is drained. *)
WorkerPop ==
    /\ (worker = "loop" /\ running) \/ Draining
    /\ NoneRunning /\ Ready /\ PopTask
    /\ UNCHANGED <<worker, until, running, clock>>

WorkerRun ==
    \E t \in Tasks :
        /\ fate[t] = "running"
        /\ fate' = [fate EXCEPT ![t] = "ran"]
        /\ UNCHANGED <<tasks, timers, worker, until, running, clock>>

(* Nothing popped; before the worker has the lock a push may come in. *)
WorkerEmpty ==
    /\ worker = "loop" /\ running /\ ~Ready /\ NoneRunning
    /\ worker' = "locking"
    /\ UNCHANGED <<tasks, timers, fate, until, running, clock>>

WorkerLock ==
    /\ worker = "locking"
    /\ worker' = "deciding"
    /\ UNCHANGED <<tasks, timers, fate, until, running, clock>>

(* A bug: the second look under the lock is left out. *)
WorkerDecideOnce ==
    /\ worker = "deciding"
    /\ IF ~running THEN worker' = "drain" /\ UNCHANGED until
       ELSE /\ worker' = "waiting"
            /\ until' = IF timers = <<>> THEN Forever ELSE Last(timers).due
    /\ UNCHANGED <<tasks, timers, fate, running, clock>>

(* Under the lock: look again, leave if stopped, else wait for the next    *)
(* timer or for good; the wait gives the lock back.                        *)
WorkerDecide ==
    /\ worker = "deciding"
    /\ IF Ready THEN worker' = "loop" /\ UNCHANGED until
       ELSE IF ~running THEN worker' = "drain" /\ UNCHANGED until
       ELSE /\ worker' = "waiting"
            /\ until' = IF timers = <<>> THEN Forever ELSE Last(timers).due
    /\ UNCHANGED <<tasks, timers, fate, running, clock>>

WorkerTimeout ==
    /\ worker = "waiting" /\ until <= clock
    /\ worker' = "loop"
    /\ UNCHANGED <<tasks, timers, fate, until, running, clock>>

WorkerLeave ==
    /\ NoneRunning
    /\ \/ worker = "loop" /\ ~running /\ worker' = "drain"
       \/ Draining /\ ~Ready /\ worker' = "done"
    /\ UNCHANGED <<tasks, timers, fate, until, running, clock>>

Stop ==
    /\ Unlocked /\ running
    /\ running' = FALSE
    /\ Notify
    /\ UNCHANGED <<tasks, timers, fate, until, clock>>

Tick ==
    /\ clock < MaxTime
    /\ clock' = clock + 1
    /\ UNCHANGED <<tasks, timers, fate, worker, until, running>>

WorkerStep ==
    \/ WorkerPop \/ WorkerRun \/ WorkerEmpty \/ WorkerLock
    \/ WorkerDecide \/ WorkerTimeout \/ WorkerLeave

PoolNext ==
    \/ \E t \in Tasks : Push(t) \/ Cancel(t)
    \/ \E t \in Tasks, d \in Delays : PushDelayed(t, d)
    \/ WorkerStep \/ Stop \/ Tick

PoolSpec == PoolInit /\ [][PoolNext]_poolVars

-----------------------------------------------------------------------------
mailVars == <<overflow, queue, open, sent, sender, reader, taken, lost,
              event, post>>

Policies == {"reject", "clear_pending", "block_producer"}

MailInit ==
    /\ overflow \in Policies
    /\ queue = <<>> /\ open = TRUE
    /\ sent = [p \in Producers |-> 0]
    /\ sender = [p \in Producers |-> "idle"]
    /\ reader = "idle" /\ taken = <<>> /\ lost = {}
    /\ event = 0 /\ post = "none"

NotifyAll ==
    /\ sender' = [p \in Producers |->
                     IF sender[p] = "waiting" THEN "woken" ELSE sender[p]]
    /\ reader' = IF reader = "waiting" THEN "woken" ELSE reader

Full == Len(queue) >= MaxElements

(* The item p offers, or that its waiting raise() still carries. *)
Item(p) == <<p, sent[p]>>

Enqueue(p) == queue' = Append(queue, Item(p)) /\ UNCHANGED lost

(* raise(): a closed queue refuses; a full one refuses, is cleared, or     *)
(* makes the producer wait.                                                *)
Raise(p) ==
    /\ sender[p] = "idle" /\ sent[p] < MaxSent /\ open
    /\ sent' = [sent EXCEPT ![p] = @ + 1]
    /\ LET item == <<p, sent[p] + 1>>
       IN  \/ /\ ~Full
              /\ queue' = Append(queue, item) /\ NotifyAll
              /\ UNCHANGED lost
           \/ /\ Full /\ overflow = "reject"
              /\ lost' = lost \cup {item}
              /\ UNCHANGED <<queue, sender, reader>>
           \/ /\ Full /\ overflow = "clear_pending"
              /\ lost' = lost \cup ToSet(queue)
              /\ queue' = <<item>> /\ NotifyAll
           \/ /\ Full /\ overflow = "block_producer"
              /\ sender' = [sender EXCEPT ![p] = "waiting"]
              /\ UNCHANGED <<queue, lost, reader>>
    /\ UNCHANGED <<overflow, open, taken, event, post>>

(* A bug: the woken producer does not look whether there is room. *)
RaiseWokenOnce(p) ==
    /\ sender[p] = "woken"
    /\ Enqueue(p)
    /\ sender' = [q \in Producers |->
                     IF q = p THEN "idle"
                     ELSE IF sender[q] = "waiting" THEN "woken"
                     ELSE sender[q]]
    /\ reader' = IF reader = "waiting" THEN "woken" ELSE reader
    /\ UNCHANGED <<overflow, open, sent, taken, event, post>>

(* The predicate of the producer's wait, evaluated under the lock. *)
RaiseWoken(p) ==
    /\ sender[p] = "woken"
    /\ \/ /\ ~open
          /\ lost' = lost \cup {Item(p)}
          /\ sender' = [sender EXCEPT ![p] = "idle"]
          /\ UNCHANGED <<queue, reader>>
       \/ /\ open /\ Full
          /\ sender' = [sender EXCEPT ![p] = "waiting"]
          /\ UNCHANGED <<queue, lost, reader>>
       \/ /\ open /\ ~Full /\ Enqueue(p)
          /\ sender' = [q \in Producers |->
                           IF q = p THEN "idle"
                           ELSE IF sender[q] = "waiting" THEN "woken"
                           ELSE sender[q]]
          /\ reader' = IF reader = "waiting" THEN "woken" ELSE reader
    /\ UNCHANGED <<overflow, open, sent, taken, event, post>>

(* pop() and pop(delay): wait while the queue is empty; a stop or a        *)
(* timeout ends the call without a value, also when an item has arrived.   *)
PopItem ==
    /\ reader \in {"idle", "woken", "timedout"}
    /\ \/ /\ ~open \/ reader = "timedout"
          /\ reader # "idle"
          /\ reader' = "idle"
          /\ UNCHANGED <<queue, taken, sender>>
       \/ /\ open /\ reader # "timedout" /\ queue = <<>>
          /\ reader' = "waiting"
          /\ UNCHANGED <<queue, taken, sender>>
       \/ /\ open /\ reader # "timedout" /\ queue # <<>>
          /\ taken' = Append(taken, Head(queue))
          /\ queue' = Tail(queue)
          /\ sender' = [p \in Producers |->
                           IF sender[p] = "waiting" THEN "woken"
                           ELSE sender[p]]
          /\ reader' = "idle"
    /\ UNCHANGED <<overflow, open, sent, lost, event, post>>

PopTimeout ==
    /\ reader \in {"waiting", "woken"}
    /\ reader' = "timedout"
    /\ UNCHANGED <<overflow, queue, open, sent, sender, taken, lost, event,
                   post>>

QueueStop ==
    /\ open /\ open' = FALSE /\ NotifyAll
    /\ UNCHANGED <<overflow, queue, sent, taken, lost, event, post>>

-----------------------------------------------------------------------------
(* event_t: one slot, a raise replaces what nobody has popped.             *)
EventRaise ==
    /\ event < MaxSent /\ post = "live" /\ event' = event + 1
    /\ UNCHANGED <<overflow, queue, open, sent, sender, reader, taken, lost,
                   post>>

EventPop ==
    /\ event # 0 /\ post = "live" /\ event' = 0
    /\ UNCHANGED <<overflow, queue, open, sent, sender, reader, taken, lost,
                   post>>

(* event(id), queue(id): find the post of that name or make it.            *)
PostGet ==
    /\ post = "none" /\ post' = "live" /\ event' = 0
    /\ UNCHANGED <<overflow, queue, open, sent, sender, reader, taken, lost>>

(* The last reference goes; the destructor then takes the registry's       *)
(* mutex and removes the expired entry.                                    *)
PostDrop ==
    /\ post = "live" /\ post' = "expired" /\ event' = 0
    /\ UNCHANGED <<overflow, queue, open, sent, sender, reader, taken, lost>>

PostCleanup ==
    /\ post = "expired" /\ post' = "none"
    /\ UNCHANGED <<overflow, queue, open, sent, sender, reader, taken, lost,
                   event>>

MailNext ==
    \/ \E p \in Producers : Raise(p) \/ RaiseWoken(p)
    \/ PopItem \/ PopTimeout \/ QueueStop
    \/ EventRaise \/ EventPop \/ PostGet \/ PostDrop \/ PostCleanup

MailSpec == MailInit /\ [][MailNext]_mailVars

-----------------------------------------------------------------------------
(* _main() never sleeps past work: whatever thread pushes, cancels or      *)
(* stops while the worker decides to wait, a waiting worker has no         *)
(* immediate task, has not been stopped, and wakes no later than the       *)
(* earliest timer.                                                         *)
NoMissedWakeup ==
    worker = "waiting" =>
        /\ tasks = <<>> /\ running
        /\ \A i \in DOMAIN timers : until <= timers[i].due

(* queue_t keeps its bound under every policy, and hands over what each    *)
(* producer raised in that producer's order; with block_producer, the      *)
(* policy of the video packets, an open queue loses nothing: every item is *)
(* taken, queued, or still in the hands of its waiting producer.           *)
OrderedHandover ==
    /\ Len(queue) <= MaxElements
    /\ LET all == taken \o queue
       IN  \A i, j \in DOMAIN all :
              i < j /\ all[i][1] = all[j][1] => all[i][2] < all[j][2]
    /\ overflow = "block_producer" /\ open =>
          \A p \in Producers : \A n \in 1..sent[p] :
              \/ <<p, n>> \in ToSet(taken \o queue)
              \/ n = sent[p] /\ sender[p] # "idle"
=============================================================================
