-------------------------- MODULE ExecutorsProofs ----------------------------
(***************************************************************************)
(* Executors, for every number of stages, batch, slab and queue capacity:  *)
(* the threads are a chain of stages that each work in one step, and join  *)
(* leaves nothing behind.                                                  *)
(***************************************************************************)
EXTENDS Executors, SequenceTheorems, TLAPS

LEMMA ThreadFacts ==
    /\ App \in Threads /\ App \notin Stages /\ Threads = Stages \cup {App}
    /\ Nobody \notin Threads /\ 1 \in Stages
    /\ \A s \in Stages : s \in Threads /\ s # App /\ s # Nobody
    /\ \A s \in DOMAIN Output : Output[s] \in Stages
BY ExecutorsAssumption DEF App, Threads, Stages, Nobody, Output

LEMMA QueueFacts ==
    ASSUME TypeOK, NEW s \in Stages
    PROVE  /\ queue[s] \in Seq(Ids)
           /\ Len(queue[s]) \in Nat
           /\ DOMAIN queue[s] = 1 .. Len(queue[s])
           /\ \A i \in 1 .. Len(queue[s]) : queue[s][i] \in Ids /\ queue[s][i] # NoId
<1>1. queue[s] \in Seq(Ids)
  BY DEF TypeOK
<1> QED BY <1>1, LenProperties, ElementOfSeq, ExecutorsAssumption

-----------------------------------------------------------------------------
(* Every id has one place, and its slot is in use. *)

Lodged == HeldInv /\ QueuedInv

\* A pop takes the first id: the others move up by one place.
LEMMA PopLodged ==
    ASSUME TypeOK, Lodged, NEW s \in Stages, PopSome(s)
    PROVE  Lodged' /\ queue' \in [Stages -> Seq(Ids)] /\ hand'[s] \in Ids
<1> DEFINE n == Len(queue[s])
           shift(t) == IF t = s THEN 1 ELSE 0
<1>1. /\ queue[s] \in Seq(Ids) /\ queue[s] # <<>>
      /\ queue \in [Stages -> Seq(Ids)] /\ hand \in [Threads -> Ids \cup {NoId}]
      /\ s \in Threads
  BY ThreadFacts DEF TypeOK, PopSome
<1>2. n \in Nat \ {0} /\ Head(queue[s]) = queue[s][1] /\ queue[s][1] \in Ids
  BY <1>1, EmptySeq, HeadTailProperties
<1>3. /\ Tail(queue[s]) \in Seq(Ids)
      /\ Len(Tail(queue[s])) = n - 1
      /\ \A i \in 1 .. n - 1 : Tail(queue[s])[i] = queue[s][i + 1]
  BY <1>1, HeadTailProperties
<1>4. /\ queue' \in [Stages -> Seq(Ids)]
      /\ queue'[s] = Tail(queue[s]) /\ DOMAIN queue'[s] = 1 .. n - 1
      /\ \A t \in Stages : t # s => queue'[t] = queue[t]
  BY <1>1, <1>3, LenProperties DEF PopSome
<1>5. \A t \in Stages : \A i \in DOMAIN queue'[t] :
         /\ i \in Nat /\ i + shift(t) \in DOMAIN queue[t]
         /\ queue'[t][i] = queue[t][i + shift(t)]
         /\ t = s => i + shift(t) # 1
  <2>1. \A t \in Stages : DOMAIN queue[t] = 1 .. Len(queue[t]) /\ Len(queue[t]) \in Nat
    BY QueueFacts
  <2> QED BY <1>2, <1>3, <1>4, <2>1
<1>6. /\ hand' = [hand EXCEPT ![s] = queue[s][1]] /\ hand'[s] = queue[s][1]
      /\ occupied' = occupied /\ 1 \in DOMAIN queue[s] /\ queue[s][1] # NoId
  BY <1>1, <1>2, QueueFacts DEF PopSome
<1>7. \A t \in Stages : \A i \in DOMAIN queue'[t] : queue'[t][i] # queue[s][1]
  BY <1>5, <1>6 DEF Lodged, QueuedInv
<1>8. \A t \in Threads : t # s => hand'[t] = hand[t] /\ hand[t] # queue[s][1]
  BY <1>1, <1>6 DEF Lodged, HeldInv
<1>9. QueuedInv'
  <2> SUFFICES ASSUME NEW t \in Stages, NEW i \in DOMAIN queue'[t]
               PROVE  /\ queue'[t][i] \in occupied
                      /\ \A u \in Stages : \A j \in DOMAIN queue'[u] :
                           queue'[u][j] = queue'[t][i] => u = t /\ j = i
    BY <1>6 DEF QueuedInv
  <2>1. queue'[t][i] \in occupied
    BY <1>5 DEF Lodged, QueuedInv
  <2>2. ASSUME NEW u \in Stages, NEW j \in DOMAIN queue'[u],
               queue'[u][j] = queue'[t][i]
        PROVE  u = t /\ j = i
    <3>1. u = t /\ j + shift(u) = i + shift(t)
      BY <1>5, <2>2 DEF Lodged, QueuedInv
    <3> QED BY <1>5, <3>1
  <2> QED BY <2>1, <2>2
<1>10. HeldInv'
  <2> SUFFICES ASSUME NEW x \in Threads, hand'[x] # NoId
               PROVE  /\ hand'[x] \in occupied
                      /\ \A t \in Threads : hand'[t] = hand'[x] => t = x
                      /\ \A t \in Stages : \A i \in DOMAIN queue'[t] :
                           queue'[t][i] # hand'[x]
    BY <1>6 DEF HeldInv
  <2>1. CASE x = s
    BY <1>6, <1>7, <1>8, <2>1 DEF Lodged, QueuedInv
  <2>2. CASE x # s
    BY <1>5, <1>6, <1>8, <2>2 DEF Lodged, HeldInv
  <2> QED BY <2>1, <2>2
<1> QED BY <1>2, <1>4, <1>6, <1>9, <1>10 DEF Lodged

\* A thread lets go of its id, whose slot may be freed.
LEMMA LetGoLodged ==
    ASSUME TypeOK, Lodged, NEW s \in Threads, hand[s] # NoId,
           hand' = [hand EXCEPT ![s] = NoId], queue' = queue,
           occupied' \in {occupied, occupied \ {hand[s]}}
    PROVE  Lodged'
<1>1. hand \in [Threads -> Ids \cup {NoId}]
  BY DEF TypeOK
<1>2. HeldInv'
  BY <1>1 DEF Lodged, HeldInv
<1>3. QueuedInv'
  BY DEF Lodged, HeldInv, QueuedInv
<1> QED BY <1>2, <1>3 DEF Lodged

\* A thread puts its id at the end of a queue.
LEMMA PushLodged ==
    ASSUME TypeOK, Lodged, NEW s \in Threads, hand[s] # NoId, NEW q \in Stages,
           hand' = [hand EXCEPT ![s] = NoId],
           queue' = [queue EXCEPT ![q] = Append(@, hand[s])],
           occupied' = occupied
    PROVE  Lodged' /\ queue' \in [Stages -> Seq(Ids)]
<1> DEFINE n == Len(queue[q])
           id == hand[s]
<1>1. /\ hand \in [Threads -> Ids \cup {NoId}] /\ queue \in [Stages -> Seq(Ids)]
      /\ id \in Ids /\ queue[q] \in Seq(Ids)
  BY DEF TypeOK
<1>2. /\ Append(queue[q], id) \in Seq(Ids)
      /\ Len(Append(queue[q], id)) = n + 1
      /\ \A i \in 1 .. n : Append(queue[q], id)[i] = queue[q][i]
      /\ Append(queue[q], id)[n + 1] = id
  BY <1>1, AppendProperties
<1>3. /\ queue' \in [Stages -> Seq(Ids)]
      /\ n \in Nat /\ DOMAIN queue[q] = 1 .. n /\ DOMAIN queue'[q] = 1 .. n + 1
      /\ \A i \in 1 .. n : queue'[q][i] = queue[q][i]
      /\ queue'[q][n + 1] = id
      /\ \A t \in Stages : t # q => queue'[t] = queue[t]
  BY <1>1, <1>2, LenProperties
<1>4. \A t \in Stages : \A i \in DOMAIN queue'[t] :
         \/ i \in DOMAIN queue[t] /\ queue'[t][i] = queue[t][i] /\ queue[t][i] # id
         \/ t = q /\ i = n + 1 /\ queue'[t][i] = id
  BY <1>3 DEF Lodged, HeldInv
<1>5. QueuedInv'
  BY <1>4 DEF Lodged, HeldInv, QueuedInv
<1>6. HeldInv'
  BY <1>1, <1>4 DEF Lodged, HeldInv
<1> QED BY <1>3, <1>5, <1>6 DEF Lodged

LEMMA InsertLodged ==
    ASSUME TypeOK, Lodged, NEW id \in Ids \ occupied,
           hand' = [hand EXCEPT ![App] = id], queue' = queue,
           occupied' = occupied \cup {id}, hand[App] = NoId
    PROVE  Lodged'
<1>1. hand \in [Threads -> Ids \cup {NoId}] /\ App \in Threads
  BY ThreadFacts DEF TypeOK
<1>2. QueuedInv'
  BY DEF Lodged, QueuedInv
<1>3. HeldInv'
  BY <1>1 DEF Lodged, HeldInv, QueuedInv
<1> QED BY <1>2, <1>3 DEF Lodged

\* Nothing moves.
LEMMA StillLodged ==
    ASSUME Lodged, UNCHANGED <<hand, queue, occupied>>
    PROVE  Lodged'
BY DEF Lodged, HeldInv, QueuedInv

\* Every step keeps each id in one place and the queues well typed.
LEMMA LodgedStep == IInv /\ [Next]_vars => Lodged' /\ queue' \in [Stages -> Seq(Ids)]
<1> SUFFICES ASSUME IInv, [Next]_vars
             PROVE  Lodged' /\ queue' \in [Stages -> Seq(Ids)]
  OBVIOUS
<1>0. TypeOK /\ HandInv /\ Lodged /\ queue \in [Stages -> Seq(Ids)]
  BY DEF IInv, Lodged, TypeOK
<1>1. ASSUME NEW s \in Stages, PopSome(s)
      PROVE  Lodged' /\ queue' \in [Stages -> Seq(Ids)]
  BY <1>0, <1>1, PopLodged
<1>2. ASSUME NEW s \in Stages, WorkNone(s) \/ WorkPanic(s)
      PROVE  Lodged' /\ queue' \in [Stages -> Seq(Ids)]
  <2>1. hand[s] # NoId /\ s \in Threads
    BY <1>0, <1>2, ThreadFacts DEF WorkNone, WorkPanic, HandInv
  <2> QED BY <1>0, <1>2, <2>1, LetGoLodged DEF WorkNone, WorkPanic
<1>3. ASSUME NEW s \in Stages, Push(s)
      PROVE  Lodged' /\ queue' \in [Stages -> Seq(Ids)]
  <2>1. hand[s] # NoId /\ s \in Threads
    BY <1>0, <1>3, ThreadFacts DEF Push, HandInv
  <2>2. CASE s \in DOMAIN Output /\ Len(queue[Output[s]]) < Room
    BY <1>0, <1>3, <2>1, <2>2, ThreadFacts, PushLodged DEF Push
  <2>3. CASE ~(s \in DOMAIN Output /\ Len(queue[Output[s]]) < Room)
    BY <1>0, <1>3, <2>1, <2>3, LetGoLodged DEF Push
  <2> QED BY <2>2, <2>3
<1>4. CASE PushOne
  <2>1. hand[App] # NoId /\ App \in Threads
    BY <1>0, <1>4, ThreadFacts DEF PushOne, HandInv
  <2>2. CASE Len(queue[1]) < Room
    BY <1>0, <1>4, <2>1, <2>2, ThreadFacts, PushLodged DEF PushOne
  <2>3. CASE ~(Len(queue[1]) < Room)
    BY <1>0, <1>4, <2>1, <2>3, LetGoLodged DEF PushOne
  <2> QED BY <2>2, <2>3
<1>5. CASE InsertOne
  <2>1. CASE occupied = Ids
    BY <1>0, <1>5, <2>1, StillLodged DEF InsertOne
  <2>2. CASE occupied # Ids
    <3>1. hand[App] = NoId
      BY <1>0, <1>5 DEF InsertOne, HandInv
    <3> QED BY <1>0, <1>5, <2>2, <3>1, InsertLodged DEF InsertOne
  <2> QED BY <2>1, <2>2
<1>6. ASSUME UNCHANGED <<hand, queue, occupied>>
      PROVE  Lodged' /\ queue' \in [Stages -> Seq(Ids)]
  BY <1>0, <1>6, StillLodged
<1>7. ASSUME NEW s \in Threads, Lock(s) PROVE UNCHANGED <<hand, queue, occupied>>
  BY <1>7 DEF Lock
<1>8. ASSUME NEW s \in Stages, ReadFlag(s) \/ EndRound(s) \/ WorkSome(s) \/ Unlock(s)
      PROVE  UNCHANGED <<hand, queue, occupied>>
  BY <1>8 DEF ReadFlag, EndRound, WorkSome, Unlock
<1>9. CASE AcceptOne \/ \E how \in {"shutdown", "join", "drop"} : BeginStop(how)
  BY <1>6, <1>9 DEF AcceptOne, BeginStop
<1>10. CASE Stopping \/ UNCHANGED vars
  BY <1>6, <1>10 DEF Stopping, Signal, JoinSignal, JoinWait, vars
<1> QED BY <1>1, <1>2, <1>3, <1>4, <1>5, <1>6, <1>7, <1>8, <1>9, <1>10
        DEF Next, Executor

-----------------------------------------------------------------------------
(* The rest of the invariant. *)

LEMMA InitIInv == Init => IInv
<1> SUFFICES ASSUME Init PROVE IInv
  OBVIOUS
<1>1. TypeOK
  BY ExecutorsAssumption, ThreadFacts DEF Init, TypeOK, Stages, Threads, App, Ended
<1>2. HandInv /\ MutexInv
  BY ThreadFacts DEF Init, HandInv, MutexInv
<1>3. HeldInv /\ QueuedInv
  BY DEF Init, HeldInv, QueuedInv
<1>4. RoundInv /\ JoinInv
  BY ExecutorsAssumption, ThreadFacts DEF Init, RoundInv, JoinInv, Stages
<1> QED BY <1>1, <1>2, <1>3, <1>4 DEF IInv

\* One pop less is left of a round that is not over.
LEMMA OneLess == ASSUME NEW n \in 0 .. Batch, n > 0 PROVE n - 1 \in 0 .. Batch
BY ExecutorsAssumption

\* No step of one thread changes what another thread is doing.
LEMMA TypeOKStep == IInv /\ [Next]_vars => TypeOK'
<1> SUFFICES ASSUME IInv, [Next]_vars PROVE TypeOK'
  OBVIOUS
<1>0. TypeOK /\ HandInv /\ queue' \in [Stages -> Seq(Ids)] /\ Lodged'
  BY LodgedStep DEF IInv
<1> USE <1>0, ThreadFacts DEF TypeOK, Goto, appVars, Ended
<1>1. ASSUME NEW s \in Stages, ReadFlag(s) PROVE TypeOK'
  <2>1. Batch \in 0 .. Batch
    BY ExecutorsAssumption
  <2>2. left' \in [Stages -> 0 .. Batch]
    BY <1>1, <2>1 DEF ReadFlag
  <2>3. \/ pc' = [pc EXCEPT ![s] = "returned"]
        \/ pc' = [pc EXCEPT ![s] = "pop"]
    BY <1>1 DEF ReadFlag
  <2> QED BY <1>1, <2>2, <2>3 DEF ReadFlag
<1>2. ASSUME NEW s \in Stages, PopSome(s) PROVE TypeOK'
  <2>1. hand' \in [Threads -> Ids \cup {NoId}]
    <3>1. Lodged /\ hand'[s] \in Ids
      BY <1>2, PopLodged DEF IInv, Lodged
    <3> QED BY <1>2, <3>1 DEF PopSome
  <2>2. left' \in [Stages -> 0 .. Batch]
    <3>1. left[s] \in 0 .. Batch /\ left[s] > 0 /\ left' = [left EXCEPT ![s] = left[s] - 1]
      BY <1>2 DEF PopSome
    <3>2. left[s] - 1 \in 0 .. Batch
      BY <3>1, OneLess
    <3> QED BY <3>1, <3>2
  <2>3. late' \in [Stages -> Nat]
    <3>1. late[s] \in Nat /\ late[s] + 1 \in Nat
      OBVIOUS
    <3>2. \/ late' = [late EXCEPT ![s] = late[s] + 1]
          \/ late' = [late EXCEPT ![s] = late[s]]
      BY <1>2 DEF PopSome
    <3> QED BY <3>1, <3>2
  <2> QED BY <1>2, <2>1, <2>2, <2>3 DEF PopSome
<1>3. ASSUME NEW s \in Stages,
             EndRound(s) \/ WorkSome(s) \/ WorkNone(s) \/ WorkPanic(s)
               \/ Push(s) \/ Unlock(s)
      PROVE  TypeOK'
  BY <1>3 DEF EndRound, WorkSome, WorkNone, WorkPanic, Push, Unlock
<1>4. ASSUME NEW s \in Threads, Lock(s) PROVE TypeOK'
  BY <1>4 DEF Lock
<1>5. CASE AcceptOne \/ InsertOne \/ PushOne
  BY <1>5 DEF AcceptOne, InsertOne, PushOne
<1>6. CASE \E how \in {"shutdown", "join", "drop"} : BeginStop(how)
  BY <1>6 DEF BeginStop
<1>7. CASE Stopping
  <2>1. at < Count => at + 1 \in Stages
    BY ExecutorsAssumption DEF Stages
  <2>2. CASE Signal
    BY <2>1, <2>2 DEF Signal
  <2>3. CASE JoinSignal \/ JoinWait
    BY <2>1, <2>3 DEF JoinSignal, JoinWait
  <2> QED BY <1>7, <2>2, <2>3 DEF Stopping
<1>8. CASE UNCHANGED vars
  BY <1>8 DEF vars
<1> QED BY <1>1, <1>2, <1>3, <1>4, <1>5, <1>6, <1>7, <1>8 DEF Next, Executor

LEMMA HandInvStep == IInv /\ [Next]_vars => HandInv'
<1> SUFFICES ASSUME IInv, [Next]_vars PROVE HandInv'
  OBVIOUS
<1>0. TypeOK /\ HandInv /\ JoinInv
  BY DEF IInv
<1> USE <1>0, ThreadFacts DEF HandInv, Goto, Ended
<1>p. /\ pc \in [Threads -> {"check", "pop", "lock", "work", "push", "unlock",
                             "serve", "wait"} \cup Ended]
      /\ hand \in [Threads -> Ids \cup {NoId}]
  BY DEF TypeOK
<1>1. ASSUME NEW s \in Stages, ReadFlag(s) PROVE HandInv'
  <2>1. \/ pc' = [pc EXCEPT ![s] = "returned"]
        \/ pc' = [pc EXCEPT ![s] = "pop"]
    BY <1>1 DEF ReadFlag
  <2> QED BY <1>p, <1>1, <2>1 DEF ReadFlag
<1>2. ASSUME NEW s \in Stages, PopSome(s) PROVE HandInv'
  <2>1. hand'[s] # NoId
    BY <1>2, PopLodged, ExecutorsAssumption DEF IInv, Lodged
  <2> QED BY <1>p, <1>2, <2>1 DEF PopSome
<1>3. ASSUME NEW s \in Stages,
             EndRound(s) \/ WorkSome(s) \/ WorkNone(s) \/ WorkPanic(s)
               \/ Push(s) \/ Unlock(s)
      PROVE  HandInv'
  BY <1>p, <1>3 DEF EndRound, WorkSome, WorkNone, WorkPanic, Push, Unlock
<1>4. ASSUME NEW s \in Threads, Lock(s) PROVE HandInv'
  BY <1>p, <1>4 DEF Lock
<1>5. CASE AcceptOne \/ PushOne
  BY <1>p, <1>5 DEF AcceptOne, PushOne
<1>6. CASE InsertOne
  BY <1>p, <1>6, ExecutorsAssumption DEF InsertOne
<1>7. CASE \E how \in {"shutdown", "join", "drop"} : BeginStop(how)
  BY <1>7 DEF BeginStop
<1>8. CASE Signal
  <2>1. \/ pc' = pc
        \/ pc' = [pc EXCEPT ![App] = "returned"]
    BY <1>8 DEF Signal
  <2> QED BY <1>p, <1>8, <2>1 DEF Signal
<1>9. CASE JoinSignal \/ JoinWait
  BY <1>p, <1>9 DEF JoinSignal, JoinWait
<1>10. CASE UNCHANGED vars
  BY <1>10 DEF vars
<1> QED BY <1>1, <1>2, <1>3, <1>4, <1>5, <1>6, <1>7, <1>8, <1>9, <1>10
        DEF Next, Executor, Stopping

LEMMA MutexInvStep == IInv /\ [Next]_vars => MutexInv'
<1> SUFFICES ASSUME IInv, [Next]_vars PROVE MutexInv'
  OBVIOUS
<1>0. HandInv /\ MutexInv
  BY DEF IInv
<1>p. /\ pc \in [Threads -> {"check", "pop", "lock", "work", "push", "unlock",
                             "serve", "wait"} \cup Ended]
      /\ owner \in Threads \cup {Nobody}
  BY DEF IInv, TypeOK
<1> USE <1>0, <1>p, ThreadFacts DEF MutexInv, Goto, Ended
<1>1. ASSUME NEW s \in Stages, ReadFlag(s) PROVE MutexInv'
  <2>1. \/ pc' = [pc EXCEPT ![s] = "returned"]
        \/ pc' = [pc EXCEPT ![s] = "pop"]
    BY <1>1 DEF ReadFlag
  <2> QED BY <1>1, <2>1 DEF ReadFlag
<1>2. ASSUME NEW s \in Stages,
             PopSome(s) \/ EndRound(s) \/ WorkSome(s) \/ WorkNone(s) \/ Push(s)
      PROVE  MutexInv'
  BY <1>2 DEF PopSome, EndRound, WorkSome, WorkNone, Push
<1>3. ASSUME NEW s \in Stages, WorkPanic(s) \/ Unlock(s) PROVE MutexInv'
  BY <1>3 DEF WorkPanic, Unlock
<1>4. ASSUME NEW s \in Threads, Lock(s) PROVE MutexInv'
  BY <1>4 DEF Lock, HandInv
<1>5. CASE AcceptOne \/ InsertOne \/ PushOne
  BY <1>5 DEF AcceptOne, InsertOne, PushOne
<1>6. CASE \E how \in {"shutdown", "join", "drop"} : BeginStop(how)
  BY <1>6 DEF BeginStop
<1>7. CASE Signal
  <2>1. \/ pc' = pc
        \/ pc' = [pc EXCEPT ![App] = "returned"]
    BY <1>7 DEF Signal
  <2> QED BY <1>7, <2>1 DEF Signal
<1>8. CASE JoinSignal \/ JoinWait
  BY <1>8 DEF JoinSignal, JoinWait
<1>9. CASE UNCHANGED vars
  BY <1>9 DEF vars
<1> QED BY <1>1, <1>2, <1>3, <1>4, <1>5, <1>6, <1>7, <1>8, <1>9
        DEF Next, Executor, Stopping

\* late only grows while left shrinks, once the flag is set.
LEMMA RoundInvStep == IInv /\ [Next]_vars => RoundInv'
<1> SUFFICES ASSUME IInv, [Next]_vars PROVE RoundInv'
  OBVIOUS
<1>0. /\ RoundInv /\ Batch \in Nat
      /\ left \in [Stages -> 0 .. Batch] /\ late \in [Stages -> Nat]
      /\ stop \in [Stages -> BOOLEAN]
  BY ExecutorsAssumption DEF IInv, TypeOK
<1>1. ASSUME NEW s \in Stages, ReadFlag(s) PROVE RoundInv'
  <2>1. CASE stop[s]
    BY <1>0, <1>1, <2>1 DEF ReadFlag, RoundInv, appVars
  <2>2. CASE ~stop[s]
    <3>1. late[s] = 0 /\ late' = late /\ stop' = stop
          /\ left' = [left EXCEPT ![s] = Batch]
      BY <1>0, <1>1, <2>2 DEF ReadFlag, RoundInv, appVars
    <3> QED BY <1>0, <3>1 DEF RoundInv
  <2> QED BY <2>1, <2>2
<1>2. ASSUME NEW s \in Stages, PopSome(s) PROVE RoundInv'
  <2>1. /\ left' = [left EXCEPT ![s] = left[s] - 1] /\ left[s] > 0
        /\ stop' = stop
    BY <1>2 DEF PopSome, appVars
  <2>2. CASE stop[s]
    <3>1. late' = [late EXCEPT ![s] = late[s] + 1]
      BY <1>2, <2>2 DEF PopSome
    <3> QED BY <1>0, <2>1, <2>2, <3>1 DEF RoundInv
  <2>3. CASE ~stop[s]
    <3>1. late' = late
      BY <1>0, <1>2, <2>3 DEF PopSome
    <3> QED BY <1>0, <2>1, <2>3, <3>1 DEF RoundInv
  <2> QED BY <2>2, <2>3
<1>3. CASE Signal \/ JoinSignal
  <2>1. left' = left /\ late' = late /\ stop' = [stop EXCEPT ![at] = TRUE]
    BY <1>3 DEF Signal, JoinSignal
  <2> QED BY <1>0, <2>1 DEF RoundInv
<1>4. ASSUME UNCHANGED <<stop, left, late>> PROVE RoundInv'
  BY <1>0, <1>4 DEF RoundInv
<1>5. ASSUME NEW s \in Stages,
             EndRound(s) \/ WorkSome(s) \/ WorkNone(s) \/ WorkPanic(s)
               \/ Push(s) \/ Unlock(s)
      PROVE  RoundInv'
  BY <1>4, <1>5
  DEF EndRound, WorkSome, WorkNone, WorkPanic, Push, Unlock, appVars
<1>6. ASSUME NEW s \in Threads, Lock(s) PROVE RoundInv'
  BY <1>4, <1>6 DEF Lock, appVars
<1>7. CASE AcceptOne \/ InsertOne \/ PushOne \/ JoinWait \/ UNCHANGED vars
  BY <1>4, <1>7 DEF AcceptOne, InsertOne, PushOne, JoinWait, appVars, vars
<1>8. CASE \E how \in {"shutdown", "join", "drop"} : BeginStop(how)
  BY <1>4, <1>8 DEF BeginStop
<1> QED BY <1>1, <1>2, <1>3, <1>5, <1>6, <1>7, <1>8 DEF Next, Executor, Stopping

\* An executor that has ended stays ended, and the application stays where it is
\* unless it moves itself.
LEMMA EndedStays ==
    ASSUME IInv, NEW s \in Threads,
           \/ Lock(s)
           \/ s \in Stages /\ Executor(s)
    PROVE  /\ UNCHANGED <<mode, at>>
           /\ \A t \in Stages : pc[t] \in Ended => pc'[t] \in Ended
           /\ pc'[App] = pc[App] \/ (s = App /\ pc[App] = "lock")
<1>1. /\ pc \in [Threads -> {"check", "pop", "lock", "work", "push", "unlock",
                             "serve", "wait"} \cup Ended]
      /\ App \notin Stages /\ App \in Threads /\ Stages \subseteq Threads
  BY ThreadFacts DEF IInv, TypeOK
<1>2. pc[s] \notin Ended /\ \E label : pc' = [pc EXCEPT ![s] = label]
  BY DEF Lock, Executor, ReadFlag, PopSome, EndRound, WorkSome, WorkNone,
         WorkPanic, Push, Unlock, Goto, Ended
<1>3. UNCHANGED <<mode, at>>
  BY DEF Lock, Executor, ReadFlag, PopSome, EndRound, WorkSome, WorkNone,
         WorkPanic, Push, Unlock, appVars
<1>4. s = App => pc[App] = "lock"
  BY <1>1 DEF Lock
<1>5. PICK label : pc' = [pc EXCEPT ![s] = label]
  BY <1>2
<1>6. \A t \in Threads : t # s => pc'[t] = pc[t]
  BY <1>1, <1>5
<1>7. \A t \in Stages : pc[t] \in Ended => t # s
  BY <1>2
<1>8. \A t \in Stages : pc[t] \in Ended => pc'[t] \in Ended
  BY <1>1, <1>6, <1>7
<1>9. pc'[App] = pc[App] \/ (s = App /\ pc[App] = "lock")
  BY <1>1, <1>4, <1>6
<1> QED BY <1>3, <1>8, <1>9

LEMMA JoinInvStep == IInv /\ [Next]_vars => JoinInv'
<1> SUFFICES ASSUME IInv, [Next]_vars PROVE JoinInv'
  OBVIOUS
<1>0. /\ JoinInv /\ App \notin Stages /\ App \in Threads /\ Stages \subseteq Threads
      /\ pc \in [Threads -> {"check", "pop", "lock", "work", "push", "unlock",
                             "serve", "wait"} \cup Ended]
      /\ at \in 1 .. Count /\ Count \in Nat \ {0} /\ Stages = 1 .. Count
      /\ mode \in {"run", "shutdown", "join", "drop"}
  BY ThreadFacts, ExecutorsAssumption DEF IInv, TypeOK, Stages
<1>1. ASSUME NEW s \in Threads, Lock(s) \/ (s \in Stages /\ Executor(s))
      PROVE  JoinInv'
  <2>1. /\ mode' = mode /\ at' = at
        /\ \A t \in Stages : pc[t] \in Ended => pc'[t] \in Ended
        /\ pc'[App] = pc[App] \/ (s = App /\ pc[App] = "lock")
    BY <1>1, EndedStays
  <2>2. CASE pc'[App] = pc[App]
    BY <1>0, <2>1, <2>2 DEF JoinInv
  <2>3. CASE s = App /\ pc[App] = "lock"
    <3>1. pc' = [pc EXCEPT ![App] = "work"]
      BY <1>0, <1>1, <2>3 DEF Lock, Goto
    <3>2. mode = "run"
      BY <1>0, <2>3 DEF JoinInv
    <3> QED BY <1>0, <2>1, <3>1, <3>2 DEF JoinInv
  <2> QED BY <2>1, <2>2, <2>3
<1>2. CASE AcceptOne \/ InsertOne \/ PushOne
  <2>1. mode = "run"
    BY <1>0, <1>2 DEF AcceptOne, InsertOne, PushOne, JoinInv
  <2>2. mode' = mode /\ at' = at
    BY <1>2 DEF AcceptOne, InsertOne, PushOne, appVars
  <2>3. pc'[App] \in {"serve", "lock", "push"}
    BY <1>0, <1>2 DEF AcceptOne, InsertOne, PushOne, Goto
  <2> QED BY <1>0, <2>1, <2>2, <2>3 DEF JoinInv
<1>3. CASE \E how \in {"shutdown", "join", "drop"} : BeginStop(how)
  BY <1>0, <1>3 DEF BeginStop, JoinInv
<1>4. CASE Signal
  <2>1. CASE at < Count
    BY <1>0, <1>4, <2>1 DEF Signal, JoinInv
  <2>2. CASE ~(at < Count) /\ mode = "shutdown"
    BY <1>0, <1>4, <2>2 DEF Signal, JoinInv
  <2>3. CASE ~(at < Count) /\ mode = "drop"
    BY <1>0, <1>4, <2>3 DEF Signal, JoinInv, Goto
  <2> QED BY <1>4, <2>1, <2>2, <2>3 DEF Signal
<1>5. CASE JoinSignal
  BY <1>0, <1>5 DEF JoinSignal, JoinInv, Goto
<1>6. CASE JoinWait
  <2>1. mode = "join"
    BY <1>0, <1>6 DEF JoinWait, JoinInv
  <2>2. CASE at < Count
    BY <1>0, <1>6, <2>1, <2>2 DEF JoinWait, JoinInv, Goto
  <2>3. CASE ~(at < Count)
    BY <1>0, <1>6, <2>1, <2>3 DEF JoinWait, JoinInv, Goto
  <2> QED BY <2>2, <2>3
<1>7. CASE UNCHANGED vars
  BY <1>0, <1>7 DEF vars, JoinInv
<1> QED BY <1>0, <1>1, <1>2, <1>3, <1>4, <1>5, <1>6, <1>7 DEF Next, Stopping

-----------------------------------------------------------------------------
(* The theorems. *)

\* What each thread does, whose the mutex is and where each id is fit together.
THEOREM Invariance == Spec => []IInv
<1>1. IInv /\ [Next]_vars => IInv'
  BY TypeOKStep, HandInvStep, MutexInvStep, LodgedStep, RoundInvStep, JoinInvStep
  DEF IInv, Lodged
<1> QED BY InitIInv, <1>1, PTL DEF Spec

\* Type correctness; in particular the pops left in a round never go below zero.
THEOREM TypeCorrect == Spec => []TypeOK
<1>1. IInv => TypeOK
  BY DEF IInv
<1> QED BY Invariance, <1>1, PTL

\* After its flag is set an executor takes no more ids than one round has.
THEOREM OneRoundLate == Spec => []LateBound
<1>1. IInv => LateBound
  BY ExecutorsAssumption DEF IInv, TypeOK, RoundInv, LateBound
<1> QED BY Invariance, <1>1, PTL

\* When join returns the threads are gone, no id was abandoned in a hand and the
\* slab's mutex is free.
THEOREM JoinLeavesNothing == Spec => []StopsCleanly
<1>1. IInv => StopsCleanly
  <2> SUFFICES ASSUME IInv, mode = "join", pc[App] = "returned"
               PROVE  /\ \A s \in Stages : pc[s] \in Ended /\ hand[s] = NoId
                      /\ owner = Nobody
    BY DEF StopsCleanly
  <2>1. \A s \in Stages : pc[s] \in Ended
    BY ExecutorsAssumption DEF IInv, JoinInv, Stages
  <2>2. \A s \in Stages : hand[s] = NoId
    BY <2>1 DEF IInv, HandInv, Ended
  <2>3. owner = Nobody
    BY <2>1, ThreadFacts DEF IInv, TypeOK, MutexInv, Ended
  <2> QED BY <2>1, <2>2, <2>3
<1> QED BY Invariance, <1>1, PTL

-----------------------------------------------------------------------------
(* The threads are a chain of stages. *)

\* A thread's push, whether or not there is room.
LEMMA PushChain ==
    ASSUME IInv, NEW s \in Threads, hand[s] # NoId,
           hand' = [hand EXCEPT ![s] = NoId],
           s = App => 0 \in DOMAIN Output /\ Output[0] = 1,
           queue' = IF s \in DOMAIN Output /\ Len(queue[Output[s]]) < Room
                    THEN [queue EXCEPT ![Output[s]] = Append(@, hand[s])] ELSE queue
    PROVE  Chain!ChainNext
<1>1. s \in Chain!Holders
  BY ThreadFacts DEF Chain!Holders
<1>2. CASE s \in DOMAIN Output /\ Len(queue[Output[s]]) < Room
  <2>1. Chain!Pass(s)
    BY <1>2 DEF Chain!Pass
  <2> QED BY <1>1, <2>1 DEF Chain!ChainNext
<1>3. CASE ~(s \in DOMAIN Output /\ Len(queue[Output[s]]) < Room)
  <2>1. s = App => Len(queue[Output[App]]) >= Room
    <3>1. Len(queue[1]) \in Nat /\ Room \in Nat
      BY ThreadFacts, QueueFacts, ExecutorsAssumption DEF IInv
    <3> QED BY <1>3, <3>1 DEF App
  <2>2. Chain!Drop(s)
    BY <1>3, <2>1 DEF Chain!Drop
  <2> QED BY <1>1, <2>2 DEF Chain!ChainNext
<1> QED BY <1>2, <1>3

\* However the threads interleave and stop, they are a chain of stages that each
\* work on an id in one step.
THEOREM RefinesChain == Spec => ChainRefinement
<1>1. Init => Chain!ChainInit
  BY ThreadFacts DEF Init, Chain!ChainInit, Chain!Holders
<1>2. IInv /\ [Next]_vars => [Chain!ChainNext]_(Chain!chainVars)
  <2> SUFFICES ASSUME IInv, [Next]_vars
               PROVE  Chain!ChainNext \/ UNCHANGED <<queue, hand>>
    BY DEF Chain!chainVars
  <2>0. HandInv /\ HeldInv /\ QueuedInv
    BY DEF IInv
  <2>1. ASSUME NEW s \in Stages, PopSome(s) PROVE Chain!ChainNext
    <3>1. Chain!Take(s)
      BY <2>0, <2>1 DEF PopSome, HandInv, Chain!Take
    <3> QED BY <3>1 DEF Chain!ChainNext
  <2>2. ASSUME NEW s \in Stages, WorkNone(s) \/ WorkPanic(s) PROVE Chain!ChainNext
    <3>1. hand[s] # NoId /\ s # App /\ s \in Chain!Holders
      BY <2>0, <2>2, ThreadFacts DEF WorkNone, WorkPanic, HandInv, Chain!Holders
    <3>2. Chain!Drop(s)
      BY <2>2, <3>1 DEF WorkNone, WorkPanic, Chain!Drop
    <3> QED BY <3>1, <3>2 DEF Chain!ChainNext
  <2>3. ASSUME NEW s \in Stages, Push(s) PROVE Chain!ChainNext
    <3>1. hand[s] # NoId /\ s # App /\ s \in Threads
      BY <2>0, <2>3, ThreadFacts DEF Push, HandInv
    <3> QED BY <2>3, <3>1, PushChain DEF Push
  <2>4. CASE PushOne
    <3>1. hand[App] # NoId /\ App \in Threads
      BY <2>0, <2>4, ThreadFacts DEF PushOne, HandInv
    <3>2. App \in DOMAIN Output /\ Output[App] = 1 /\ App = 0
      BY ExecutorsAssumption DEF Output, App
    <3> QED BY <2>4, <3>1, <3>2, PushChain DEF PushOne
  <2>5. CASE InsertOne
    <3>1. CASE occupied = Ids
      BY <2>5, <3>1 DEF InsertOne
    <3>2. CASE occupied # Ids
      <4>1. PICK id \in Ids \ occupied : hand' = [hand EXCEPT ![App] = id]
        BY <2>5, <3>2 DEF InsertOne
      <4>2. hand[App] = NoId /\ queue' = queue
        BY <2>0, <2>5 DEF InsertOne, HandInv
      <4>3. \A t \in Threads : hand[t] # id
        BY <2>0, ExecutorsAssumption DEF HeldInv
      <4>4. \A t \in Stages : \A i \in DOMAIN queue[t] : queue[t][i] # id
        BY <2>0 DEF QueuedInv
      <4>5. Chain!Enter(id)
        BY <4>1, <4>2, <4>3, <4>4, ThreadFacts
        DEF Chain!Enter, Chain!Absent, Chain!Holders
      <4> QED BY <4>5 DEF Chain!ChainNext
    <3> QED BY <3>1, <3>2
  <2>6. ASSUME NEW s \in Threads, Lock(s) PROVE UNCHANGED <<queue, hand>>
    BY <2>6 DEF Lock
  <2>7. ASSUME NEW s \in Stages, ReadFlag(s) \/ EndRound(s) \/ WorkSome(s) \/ Unlock(s)
        PROVE  UNCHANGED <<queue, hand>>
    BY <2>7 DEF ReadFlag, EndRound, WorkSome, Unlock
  <2>8. CASE AcceptOne \/ Stopping \/ UNCHANGED vars
    BY <2>8 DEF AcceptOne, Stopping, Signal, JoinSignal, JoinWait, vars
  <2>9. CASE \E how \in {"shutdown", "join", "drop"} : BeginStop(how)
    BY <2>9 DEF BeginStop
  <2> QED BY <2>1, <2>2, <2>3, <2>4, <2>5, <2>6, <2>7, <2>8, <2>9
          DEF Next, Executor
<1> QED BY <1>1, <1>2, Invariance, PTL DEF Spec, ChainRefinement, Chain!ChainSpec
=============================================================================
