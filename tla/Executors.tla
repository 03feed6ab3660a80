------------------------------ MODULE Executors ------------------------------
(***************************************************************************)
(* The threads of the multi-core server and how they stop: StageExecutor   *)
(* (executor.rs) and the application that owns them through an             *)
(* Orchestrator (orchestrator.rs, main.rs).  The steps are those between   *)
(* which another thread can act: the pop, the slab's mutex being taken,    *)
(* the work, the push, the mutex being released, the reading of the stop   *)
(* flag.  What a stage does to a connection is in Pipeline; here it ends   *)
(* in Some(id), in None, or in a panic, which unwinds and drops the guard. *)
(*                                                                         *)
(* The application stops the executors by shutdown and join (as main.rs    *)
(* does when it leaves its loop), by join alone, or by dropping the        *)
(* orchestrator.                                                           *)
(***************************************************************************)
EXTENDS Naturals, Sequences

CONSTANTS
    Count,     \* executors; executor k pops queue k and pushes to queue k + 1
    Batch,     \* ids an executor takes before it reads its stop flag (100)
    Ids,       \* the slots of the slab
    Room,      \* ids that a queue holds
    NoId       \* an empty hand

ASSUME ExecutorsAssumption ==
    /\ Count \in Nat \ {0}
    /\ Batch \in Nat \ {0}
    /\ Room \in Nat
    /\ NoId \notin Ids

Stages == 1 .. Count
App == 0                \* the application's thread, the only one to feed queue 1
Threads == {App} \cup Stages
Output == [s \in 0 .. Count - 1 |-> s + 1]

VARIABLES
    queue,     \* stage -> its input queue
    hand,      \* thread -> the id it works on
    pc,        \* thread -> what it does next
    owner,     \* who holds the slab's mutex, or Nobody
    occupied,  \* the slots in use
    stop,      \* executor -> its shutdown flag
    left,      \* executor -> pops left in this round of the loop
    mode,      \* how the application stops: "run", "shutdown", "join", "drop"
    at,        \* the executor that shutdown, join or drop has come to
    late       \* history: ids an executor took after its flag was set

vars == <<queue, hand, pc, owner, occupied, stop, left, mode, at, late>>
appVars == <<stop, mode, at>>

Nobody == Count + 1
Ended == {"returned", "panicked"}

Init ==
    /\ queue = [s \in Stages |-> <<>>]
    /\ hand = [s \in Threads |-> NoId]
    /\ pc = [s \in Threads |-> IF s = App THEN "serve" ELSE "check"]
    /\ owner = Nobody
    /\ occupied = {}
    /\ stop = [s \in Stages |-> FALSE]
    /\ left = [s \in Stages |-> 0]
    /\ mode = "run"
    /\ at = 1
    /\ late = [s \in Stages |-> 0]

Goto(s, label) == pc' = [pc EXCEPT ![s] = label]

-----------------------------------------------------------------------------
(* run_loop of executor s. *)

\* Mutant of ReadFlag: the flag is not looked at while there is work.
ReadFlagIfIdle(s) ==
    /\ pc[s] = "check"
    /\ IF stop[s] /\ queue[s] = <<>>
       THEN Goto(s, "returned") /\ UNCHANGED left
       ELSE Goto(s, "pop") /\ left' = [left EXCEPT ![s] = Batch]
    /\ UNCHANGED <<queue, hand, owner, occupied, appVars, late>>

\* The loop condition.
ReadFlag(s) ==
    /\ pc[s] = "check"
    /\ IF stop[s] THEN Goto(s, "returned") /\ UNCHANGED left
                  ELSE Goto(s, "pop") /\ left' = [left EXCEPT ![s] = Batch]
    /\ UNCHANGED <<queue, hand, owner, occupied, appVars, late>>

\* Mutant of PopSome: the round has one id too many.
PopSomeOneMore(s) ==
    /\ pc[s] = "pop"
    /\ queue[s] # <<>>
    /\ hand' = [hand EXCEPT ![s] = Head(queue[s])]
    /\ queue' = [queue EXCEPT ![s] = Tail(@)]
    /\ left' = [left EXCEPT ![s] = @ - 1]
    /\ late' = [late EXCEPT ![s] = IF stop[s] THEN @ + 1 ELSE @]
    /\ Goto(s, "lock")
    /\ UNCHANGED <<owner, occupied, appVars>>

\* The pop finds an id.
PopSome(s) ==
    /\ pc[s] = "pop" /\ left[s] > 0
    /\ queue[s] # <<>>
    /\ hand' = [hand EXCEPT ![s] = Head(queue[s])]
    /\ queue' = [queue EXCEPT ![s] = Tail(@)]
    /\ left' = [left EXCEPT ![s] = @ - 1]
    /\ late' = [late EXCEPT ![s] = IF stop[s] THEN @ + 1 ELSE @]
    /\ Goto(s, "lock")
    /\ UNCHANGED <<owner, occupied, appVars>>

\* The round is over: nothing to pop, or Batch ids taken.
EndRound(s) ==
    /\ pc[s] = "pop"
    /\ left[s] = 0 \/ queue[s] = <<>>
    /\ Goto(s, "check")
    /\ UNCHANGED <<queue, hand, owner, occupied, appVars, left, late>>

Lock(s) ==
    /\ pc[s] = "lock"
    /\ owner = Nobody
    /\ owner' = s
    /\ Goto(s, "work")
    /\ UNCHANGED <<queue, hand, occupied, appVars, left, late>>

\* process_one returns Some(id).
WorkSome(s) ==
    /\ s \in Stages /\ pc[s] = "work"
    /\ Goto(s, "push")
    /\ UNCHANGED <<queue, hand, owner, occupied, appVars, left, late>>

\* Mutant of WorkNone: the id is passed on although its slot is freed.
WorkNoneForwards(s) ==
    /\ s \in Stages /\ pc[s] = "work"
    /\ occupied' = occupied \ {hand[s]}
    /\ Goto(s, "push")
    /\ UNCHANGED <<queue, hand, owner, appVars, left, late>>

\* process_one returns None; it may have removed the connection from the slab.
WorkNone(s) ==
    /\ s \in Stages /\ pc[s] = "work"
    /\ occupied' \in {occupied, occupied \ {hand[s]}}
    /\ hand' = [hand EXCEPT ![s] = NoId]
    /\ Goto(s, "unlock")
    /\ UNCHANGED <<queue, owner, appVars, left, late>>

\* Mutant of WorkPanic: the mutex stays locked.
WorkPanicLocked(s) ==
    /\ s \in Stages /\ pc[s] = "work"
    /\ hand' = [hand EXCEPT ![s] = NoId]
    /\ Goto(s, "panicked")
    /\ UNCHANGED <<queue, owner, occupied, appVars, left, late>>

\* process_one panics: the thread ends and the guard is dropped.
WorkPanic(s) ==
    /\ s \in Stages /\ pc[s] = "work"
    /\ hand' = [hand EXCEPT ![s] = NoId]
    /\ owner' = Nobody
    /\ Goto(s, "panicked")
    /\ UNCHANGED <<queue, occupied, appVars, left, late>>

\* The id is pushed to the next queue, if there is one and it has room.
Push(s) ==
    /\ s \in Stages /\ pc[s] = "push"
    /\ queue' = IF s \in DOMAIN Output /\ Len(queue[Output[s]]) < Room
                THEN [queue EXCEPT ![Output[s]] = Append(@, hand[s])]
                ELSE queue
    /\ hand' = [hand EXCEPT ![s] = NoId]
    /\ Goto(s, "unlock")
    /\ UNCHANGED <<owner, occupied, appVars, left, late>>

Unlock(s) ==
    /\ s \in Stages /\ pc[s] = "unlock"
    /\ owner' = Nobody
    /\ Goto(s, "pop")
    /\ UNCHANGED <<queue, hand, occupied, appVars, left, late>>

-----------------------------------------------------------------------------
(* The application's thread. *)

\* A connection was accepted.
AcceptOne ==
    /\ pc[App] = "serve" /\ mode = "run"
    /\ Goto(App, "lock")
    /\ UNCHANGED <<queue, hand, owner, occupied, appVars, left, late>>

\* insert takes a free slot, or finds none and the stream is dropped.
InsertOne ==
    /\ pc[App] = "work"
    /\ IF occupied = Ids
       THEN UNCHANGED <<hand, occupied>>
       ELSE \E id \in Ids \ occupied :
                /\ hand' = [hand EXCEPT ![App] = id]
                /\ occupied' = occupied \cup {id}
    /\ owner' = Nobody
    /\ Goto(App, IF occupied = Ids THEN "serve" ELSE "push")
    /\ UNCHANGED <<queue, appVars, left, late>>

\* The push comes after the mutex is released.
PushOne ==
    /\ pc[App] = "push"
    /\ queue' = IF Len(queue[1]) < Room
                THEN [queue EXCEPT ![1] = Append(@, hand[App])] ELSE queue
    /\ hand' = [hand EXCEPT ![App] = NoId]
    /\ Goto(App, "serve")
    /\ UNCHANGED <<owner, occupied, appVars, left, late>>

\* The application leaves its loop and begins to stop the executors.
BeginStop(how) ==
    /\ pc[App] = "serve" /\ mode = "run"
    /\ mode' = how
    /\ UNCHANGED <<queue, hand, pc, owner, occupied, stop, left, at, late>>

\* shutdown and Drop set the flags one after the other; shutdown is followed by
\* join, Drop waits for nobody.
Signal ==
    /\ mode \in {"shutdown", "drop"}
    /\ pc[App] = "serve"
    /\ stop' = [stop EXCEPT ![at] = TRUE]
    /\ IF at < Count
       THEN at' = at + 1 /\ UNCHANGED <<mode, pc>>
       ELSE /\ at' = 1
            /\ IF mode = "shutdown" THEN mode' = "join" /\ UNCHANGED pc
                                    ELSE Goto(App, "returned") /\ UNCHANGED mode
    /\ UNCHANGED <<queue, hand, owner, occupied, left, late>>

\* join sets the flag of the next executor.
JoinSignal ==
    /\ mode = "join" /\ pc[App] = "serve"
    /\ stop' = [stop EXCEPT ![at] = TRUE]
    /\ Goto(App, "wait")
    /\ UNCHANGED <<queue, hand, owner, occupied, mode, left, at, late>>

\* Mutant of JoinWait: join does not wait for the last executor.
JoinWaitNotLast ==
    /\ pc[App] = "wait"
    /\ pc[at] \in Ended \/ at = Count
    /\ IF at < Count THEN at' = at + 1 /\ Goto(App, "serve")
                     ELSE UNCHANGED at /\ Goto(App, "returned")
    /\ UNCHANGED <<queue, hand, owner, occupied, stop, mode, left, late>>

\* Its thread has ended, by a return or a panic, and join goes to the next.
JoinWait ==
    /\ pc[App] = "wait"
    /\ pc[at] \in Ended
    /\ IF at < Count THEN at' = at + 1 /\ Goto(App, "serve")
                     ELSE UNCHANGED at /\ Goto(App, "returned")
    /\ UNCHANGED <<queue, hand, owner, occupied, stop, mode, left, late>>

-----------------------------------------------------------------------------
Executor(s) ==
    \/ ReadFlag(s)
    \/ PopSome(s)
    \/ EndRound(s)
    \/ WorkSome(s)
    \/ WorkNone(s)
    \/ WorkPanic(s)
    \/ Push(s)
    \/ Unlock(s)

Stopping == Signal \/ JoinSignal \/ JoinWait

Next ==
    \/ \E s \in Threads : Lock(s)
    \/ \E s \in Stages : Executor(s)
    \/ AcceptOne \/ InsertOne \/ PushOne
    \/ \E how \in {"shutdown", "join", "drop"} : BeginStop(how)
    \/ Stopping

Spec == Init /\ [][Next]_vars

\* A thread that can run runs; a thread that asks for the mutex again and again
\* gets it (parking_lot hands a contended mutex over).  Nothing makes the
\* application accept a connection or stop.
Fairness ==
    /\ \A s \in Threads : SF_vars(Lock(s))
    /\ \A s \in Stages : WF_vars(Executor(s))
    /\ WF_vars(InsertOne)
    /\ WF_vars(PushOne)
    /\ WF_vars(Stopping)

FairSpec == Spec /\ Fairness

-----------------------------------------------------------------------------
TypeOK ==
    /\ queue \in [Stages -> Seq(Ids)]
    /\ hand \in [Threads -> Ids \cup {NoId}]
    /\ pc \in [Threads -> {"check", "pop", "lock", "work", "push", "unlock",
                           "serve", "wait"} \cup Ended]
    /\ owner \in Threads \cup {Nobody}
    /\ occupied \subseteq Ids
    /\ stop \in [Stages -> BOOLEAN]
    /\ left \in [Stages -> 0 .. Batch]
    /\ mode \in {"run", "shutdown", "join", "drop"}
    /\ at \in Stages
    /\ late \in [Stages -> Nat]

\* The threads, with their separate pops, locks, pushes and unlocks, and however
\* they are stopped, are a chain of stages that each work in one step: an id that
\* a stage removed from the slab and main inserted again is nowhere else by then.
Chain == INSTANCE StageChain WITH Source <- App
ChainRefinement == Chain!ChainSpec

\* When join returns, every executor has ended, none of them has taken an id
\* without working on it, and the slab's mutex is free (orchestrator.rs 129-135,
\* executor.rs 95-111): the application can use the slab again.
StopsCleanly ==
    mode = "join" /\ pc[App] = "returned" =>
        /\ \A s \in Stages : pc[s] \in Ended /\ hand[s] = NoId
        /\ owner = Nobody

\* An executor takes at most one round of ids after its flag was set, whatever the
\* stage before it still sends (executor.rs 95-99).
LateBound == \A s \in Stages : late[s] <= Batch

\* Once the application begins to stop, by whichever way, every thread ends; join
\* does not wait for ever, not even for an executor that panicked.
AllStop == (mode # "run") ~> (\A s \in Threads : pc[s] \in Ended)

-----------------------------------------------------------------------------
(* The inductive invariant. *)

\* What a thread is doing, and when it has an id.
HandInv ==
    /\ pc[App] \in {"serve", "lock", "work", "push", "wait", "returned"}
    /\ hand[App] # NoId <=> pc[App] = "push"
    /\ \A s \in Stages :
         /\ pc[s] \in {"check", "pop", "lock", "work", "push", "unlock"} \cup Ended
         /\ hand[s] # NoId <=> pc[s] \in {"lock", "work", "push"}

\* The mutex belongs to the thread that is between its lock and its unlock.
MutexInv ==
    /\ owner = App <=> pc[App] = "work"
    /\ \A s \in Stages : owner = s <=> pc[s] \in {"work", "push", "unlock"}

\* An id is in one hand or one queue position, and its slot is in use.
HeldInv ==
    \A s \in Threads :
        hand[s] # NoId =>
            /\ hand[s] \in occupied
            /\ \A t \in Threads : hand[t] = hand[s] => t = s
            /\ \A t \in Stages : \A i \in DOMAIN queue[t] : queue[t][i] # hand[s]

QueuedInv ==
    \A s \in Stages : \A i \in DOMAIN queue[s] :
        /\ queue[s][i] \in occupied
        /\ \A t \in Stages : \A j \in DOMAIN queue[t] :
             queue[t][j] = queue[s][i] => t = s /\ j = i

\* What is left of the round that was running when the flag was set.
RoundInv ==
    \A s \in Stages :
        /\ ~stop[s] => late[s] = 0
        /\ late[s] + left[s] <= Batch

\* join has seen the executors before at end.
JoinInv ==
    /\ mode # "run" => pc[App] \in {"serve", "wait", "returned"}
    /\ mode \in {"run", "shutdown", "drop"} => pc[App] # "wait"
    /\ mode = "run" => at = 1 /\ pc[App] # "returned"
    /\ mode = "join" =>
         /\ \A s \in Stages : s < at => pc[s] \in Ended
         /\ pc[App] = "returned" => at = Count /\ pc[at] \in Ended

IInv == TypeOK /\ HandInv /\ MutexInv /\ HeldInv /\ QueuedInv /\ RoundInv /\ JoinInv
=============================================================================
