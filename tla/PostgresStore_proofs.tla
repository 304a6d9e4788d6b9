------------------------- MODULE PostgresStore_proofs -------------------------
(***************************************************************************)
(* Proofs about PostgresStore, for any set of threads, any queue size, any *)
(* number of connection attempts, units, outages and retention runs.       *)
(***************************************************************************)
EXTENDS PostgresStore, TLAPS, SequenceTheorems, FiniteSetTheorems

(***************************************************************************)
(* The parts of TypeOK, and the facts about control they rest on           *)
(***************************************************************************)
ThreadTypes ==
  /\ offered \in 0..MaxUnits /\ enqueued \in 0..MaxUnits
  /\ pc \in [Producers -> {"idle", "put", "evict", "reput"}]

QueueTypes == queue \in Seq(Units \cup {Shutdown}) /\ Len(queue) <= QueueSize

WriterTypes ==
  /\ writer \in {"getting", "connecting", "backoff", "executing", "stopped"}
  /\ work \in Units \cup {Prune, Shutdown} /\ attempt \in {1, 2}
  /\ connects \in 0..ConnectAttempts

FlagTypes ==
  /\ stopping \in BOOLEAN /\ draining \in BOOLEAN
  /\ connected \in BOOLEAN /\ dbUp \in BOOLEAN

SessionTypes ==
  /\ closer \in {"none", "stopping", "joining", "returned"} /\ conn \in {"none", "open", "stale"}
  /\ settled \in Nat
  /\ outages \in 0..MaxOutages /\ prunes \in 0..MaxPrunes

DatabaseTypes == db \in Seq(Units)

\* Units that threads hold have not been numbered yet, so the numbers never run
\* ahead of the calls of _enqueue.
Busy == {t \in Producers : pc[t] # "idle"}
Booked == IsFiniteSet(Busy) /\ enqueued + Cardinality(Busy) <= offered

\* _connect() is only inside its loop with an attempt left; the writer holds work exactly
\* while it is between two gets; retention has one attempt; and the marker is not in
\* the queue before close() has set the stop event.
Shape ==
  /\ writer = "connecting" => connects < ConnectAttempts
  /\ work = Shutdown <=> writer \in {"getting", "stopped"}
  /\ attempt = 1 => work # Prune
  /\ ~stopping => ~draining /\ \A k \in DOMAIN queue : queue[k] # Shutdown
  /\ stopping <=> closer # "none"

LEMMA TypeParts ==
  /\ TypeOK <=> /\ ThreadTypes /\ QueueTypes /\ WriterTypes /\ FlagTypes
                /\ SessionTypes /\ DatabaseTypes
  /\ TypeOK' <=> /\ ThreadTypes' /\ QueueTypes' /\ WriterTypes' /\ FlagTypes'
                 /\ SessionTypes' /\ DatabaseTypes'
  BY DEF TypeOK, ThreadTypes, QueueTypes, WriterTypes, FlagTypes, SessionTypes, DatabaseTypes

LEMMA WorkKinds ==
  /\ Units \subseteq Nat \ {0} /\ Shutdown \notin Units /\ Prune \notin Units
  /\ Shutdown # Prune /\ Shutdown = 0 /\ MaxUnits \in Nat
  BY StoreAssumption DEF Units, Shutdown, Prune

(***************************************************************************)
(* What the threads do with the queue                                      *)
(***************************************************************************)

\* A thread that enters _enqueue joins those inside it, and one that returns leaves them.
LEMMA BusyChanges ==
  ASSUME pc \in [Producers -> {"idle", "put", "evict", "reput"}], Booked,
         NEW t \in Producers, NEW place \in {"idle", "put", "evict", "reput"}, Goto(t, place)
  PROVE  /\ pc' \in [Producers -> {"idle", "put", "evict", "reput"}]
         /\ IsFiniteSet(Busy') /\ Cardinality(Busy) \in Nat /\ Cardinality(Busy') \in Nat
         /\ pc[t] = "idle" /\ place # "idle" => Cardinality(Busy') = Cardinality(Busy) + 1
         /\ pc[t] # "idle" /\ place = "idle" => Cardinality(Busy') = Cardinality(Busy) - 1
         /\ pc[t] # "idle" /\ place # "idle" => Cardinality(Busy') = Cardinality(Busy)
<1>1. pc' \in [Producers -> {"idle", "put", "evict", "reput"}]
  BY DEF Goto
<1>2. IsFiniteSet(Busy)
  BY DEF Booked
<1>3. CASE place # "idle"
  <2>1. Busy' = Busy \cup {t}
    BY <1>3 DEF Busy, Goto
  <2>2. t \in Busy <=> pc[t] # "idle"
    BY DEF Busy
  <2> QED BY <1>1, <1>2, <1>3, <2>1, <2>2, FS_AddElement, FS_CardinalityType
<1>4. CASE place = "idle"
  <2>1. Busy' = Busy \ {t}
    BY <1>4 DEF Busy, Goto
  <2>2. t \in Busy <=> pc[t] # "idle"
    BY DEF Busy
  <2> QED BY <1>1, <1>2, <1>4, <2>1, <2>2, FS_RemoveElement, FS_CardinalityType
<1> QED BY <1>3, <1>4

LEMMA PutTyping ==
  ASSUME QueueTypes, HasRoom, NEW u \in Units \cup {Shutdown}
  PROVE  /\ Append(queue, u) \in Seq(Units \cup {Shutdown})
         /\ Len(Append(queue, u)) <= QueueSize
         /\ Len(Append(queue, u)) = Len(queue) + 1
         /\ DOMAIN Append(queue, u) = 1..Len(queue) + 1
         /\ \A k \in DOMAIN queue : Append(queue, u)[k] = queue[k]
         /\ Append(queue, u)[Len(queue) + 1] = u
<1>1. queue \in Seq(Units \cup {Shutdown}) /\ Len(queue) \in Nat /\ DOMAIN queue = 1..Len(queue)
  BY LenProperties DEF QueueTypes
<1>2. /\ Append(queue, u) \in Seq(Units \cup {Shutdown})
      /\ Len(Append(queue, u)) = Len(queue) + 1
      /\ \A k \in 1..Len(queue) : Append(queue, u)[k] = queue[k]
      /\ Append(queue, u)[Len(queue) + 1] = u
  BY <1>1, AppendProperties
<1>3. DOMAIN Append(queue, u) = 1..Len(queue) + 1
  BY <1>2, LenProperties
<1>4. Len(queue) + 1 <= QueueSize
  BY <1>1, StoreAssumption DEF HasRoom
<1> QED BY <1>1, <1>2, <1>3, <1>4

LEMMA TailTyping ==
  ASSUME QueueTypes, queue # <<>>
  PROVE  /\ Tail(queue) \in Seq(Units \cup {Shutdown})
         /\ Len(Tail(queue)) <= QueueSize
         /\ Len(queue) \in Nat \ {0} /\ Len(Tail(queue)) = Len(queue) - 1
         /\ DOMAIN queue = 1..Len(queue)
         /\ DOMAIN Tail(queue) = 1..Len(queue) - 1
         /\ \A k \in 1..Len(queue) - 1 : Tail(queue)[k] = queue[k + 1]
         /\ Head(queue) \in Units \cup {Shutdown} /\ Head(queue) = queue[1]
<1>1. queue \in Seq(Units \cup {Shutdown}) /\ Len(queue) \in Nat /\ DOMAIN queue = 1..Len(queue)
  BY LenProperties DEF QueueTypes
<1>2. /\ Tail(queue) \in Seq(Units \cup {Shutdown}) /\ Len(Tail(queue)) = Len(queue) - 1
      /\ \A k \in 1..Len(Tail(queue)) : Tail(queue)[k] = queue[k + 1]
      /\ Head(queue) \in Units \cup {Shutdown}
  BY <1>1, HeadTailProperties
<1>3. Len(queue) # 0
  BY <1>1, EmptySeq
<1>4. DOMAIN Tail(queue) = 1..Len(queue) - 1
  BY <1>2, LenProperties
<1>5. Head(queue) = queue[1]
  BY <1>1, <1>3
<1>6. Len(queue) <= QueueSize /\ QueueSize \in Nat
  BY StoreAssumption DEF QueueTypes
<1> QED BY <1>1, <1>2, <1>3, <1>4, <1>5, <1>6

(***************************************************************************)
(* Type correctness, one part at a time                                    *)
(***************************************************************************)
LEMMA InitTypes == Init => TypeOK /\ Booked /\ Shape
<1> SUFFICES ASSUME Init PROVE TypeOK /\ Booked /\ Shape
  OBVIOUS
<1>1. TypeOK
  <2>1. QueueTypes /\ DatabaseTypes
    <3>1. queue \in Seq(Units \cup {Shutdown}) /\ Len(queue) = 0 /\ db \in Seq(Units)
      BY EmptySeq DEF Init
    <3> QED BY <3>1, StoreAssumption DEF QueueTypes, DatabaseTypes
  <2>2. ThreadTypes
    BY StoreAssumption DEF Init, ThreadTypes
  <2>3. WriterTypes /\ SessionTypes
    BY StoreAssumption DEF Init, WriterTypes, SessionTypes
  <2>4. FlagTypes
    BY DEF Init, FlagTypes
  <2> QED BY <2>1, <2>2, <2>3, <2>4, TypeParts
<1>2. Booked
  <2>1. Busy = {}
    BY DEF Init, Busy
  <2> QED BY <2>1, FS_EmptySet DEF Init, Booked
<1>3. Shape
  BY WorkKinds DEF Init, Shape
<1> QED BY <1>1, <1>2, <1>3

\* Every unit that gets a number was offered by the thread that numbers it.
LEMMA ThreadStep ==
  ASSUME ThreadTypes, Booked, Next
  PROVE  ThreadTypes' /\ Booked'
<1>0. MaxUnits \in Nat
  BY WorkKinds
<1>1. CASE UNCHANGED producers
  <2>1. Busy' = Busy
    BY <1>1 DEF Busy, producers
  <2> QED BY <1>1, <2>1 DEF producers, ThreadTypes, Booked
<1>2. ASSUME NEW t \in Producers, Enter(t) PROVE ThreadTypes' /\ Booked'
  <2>1. Goto(t, "put") /\ pc[t] = "idle" /\ enqueued' = enqueued /\ offered' = offered + 1
        /\ offered < MaxUnits
    BY <1>2 DEF Enter
  <2> QED BY <1>0, <2>1, BusyChanges DEF ThreadTypes, Booked
<1>3. ASSUME NEW t \in Producers, Put(t) \/ Evict(t) \/ Reput(t) PROVE ThreadTypes' /\ Booked'
  <2>1. PICK place \in {"idle", "put", "evict", "reput"} :
          /\ Goto(t, place) /\ pc[t] # "idle" /\ offered' = offered
          /\ enqueued' = enqueued \/ (enqueued' = enqueued + 1 /\ place = "idle")
    BY <1>3 DEF Put, Evict, Reput, PutUnit
  <2>2. /\ pc' \in [Producers -> {"idle", "put", "evict", "reput"}]
        /\ IsFiniteSet(Busy') /\ Cardinality(Busy) \in Nat /\ Cardinality(Busy') \in Nat
        /\ Cardinality(Busy') = IF place = "idle" THEN Cardinality(Busy) - 1
                                                  ELSE Cardinality(Busy)
    BY <2>1, BusyChanges DEF ThreadTypes
  <2> QED BY <1>0, <2>1, <2>2 DEF ThreadTypes, Booked
<1> QED BY <1>1, <1>2, <1>3
     DEF Next, Get, GetTimesOut, DrainEnds, StartPrune, ConnectOk, ConnectFails, BackoffEnds,
         Execute, ExecuteRaises, OutsideWriter, CloseStops, CloseMarks, JoinReturns, ServerGoes, ServerComes, vars

\* The number a thread gives is a unit's.
LEMMA NextUnit ==
  ASSUME ThreadTypes, Booked, NEW t \in Producers, pc[t] # "idle"
  PROVE  enqueued + 1 \in Units
<1>1. t \in Busy
  BY DEF Busy
<1>2. Cardinality(Busy) \in Nat /\ Cardinality(Busy) # 0
  BY <1>1, FS_EmptySet, FS_CardinalityType DEF Booked
<1> QED BY <1>2, WorkKinds DEF ThreadTypes, Booked, Units

\* The four things a step can do to the queue.
LEMMA QueueMoves ==
  ASSUME ThreadTypes, Booked, Next
  PROVE  \/ queue' = queue
         \/ queue # <<>> /\ queue' = Tail(queue) /\ enqueued' = enqueued
         \/ /\ HasRoom /\ queue' = Append(queue, enqueued + 1) /\ enqueued' = enqueued + 1
            /\ enqueued + 1 \in Units /\ UNCHANGED <<work, db>>
         \/ HasRoom /\ queue' = Append(queue, Shutdown) /\ CloseMarks
<1>1. ASSUME NEW t \in Producers, Enter(t) \/ Put(t) \/ Evict(t) \/ Reput(t)
      PROVE  \/ queue' = queue
             \/ queue # <<>> /\ queue' = Tail(queue) /\ enqueued' = enqueued
             \/ /\ HasRoom /\ queue' = Append(queue, enqueued + 1) /\ enqueued' = enqueued + 1
                /\ enqueued + 1 \in Units /\ UNCHANGED <<work, db>>
  BY <1>1, NextUnit
     DEF Enter, Put, Evict, Reput, PutUnit, OutsideEnqueue, execution, server
<1>2. CASE Get \/ GetTimesOut \/ DrainEnds \/ StartPrune \/ ConnectOk \/ ConnectFails
           \/ BackoffEnds \/ Execute \/ ExecuteRaises
  BY <1>2 DEF Get, GetTimesOut, DrainEnds, StartPrune, ConnectOk, ConnectFails, BackoffEnds,
              Execute, ExecuteRaises, vars, OutsideWriter, producers
<1>3. CASE CloseMarks
  BY <1>3 DEF CloseMarks
<1>4. CASE CloseStops \/ JoinReturns \/ ServerGoes \/ ServerComes
  BY <1>4 DEF CloseStops, JoinReturns, ServerGoes, ServerComes
<1> QED BY <1>1, <1>2, <1>3, <1>4 DEF Next

LEMMA QueueStep ==
  ASSUME ThreadTypes, Booked, QueueTypes, Next
  PROVE  QueueTypes'
<1>1. Shutdown \in Units \cup {Shutdown}
  OBVIOUS
<1>2. CASE queue' = queue
  BY <1>2 DEF QueueTypes
<1>3. CASE queue # <<>> /\ queue' = Tail(queue)
  BY <1>3, TailTyping DEF QueueTypes
<1>4. CASE HasRoom /\ queue' = Append(queue, enqueued + 1) /\ enqueued + 1 \in Units
  BY <1>4, PutTyping DEF QueueTypes
<1>5. CASE HasRoom /\ queue' = Append(queue, Shutdown)
  BY <1>1, <1>5, PutTyping DEF QueueTypes
<1> QED BY <1>2, <1>3, <1>4, <1>5, QueueMoves

LEMMA WriterStep ==
  ASSUME WriterTypes, Shape, QueueTypes, Next
  PROVE  WriterTypes' /\ (writer = "connecting" => connects < ConnectAttempts)'
         /\ (work = Shutdown <=> writer \in {"getting", "stopped"})'
         /\ (attempt = 1 => work # Prune)'
<1>0. ConnectAttempts \in Nat \ {0} /\ 0 \in 0..ConnectAttempts
  BY StoreAssumption
<1> USE <1>0 DEF WriterTypes, Shape
<1>1. CASE UNCHANGED execution
  BY <1>1 DEF execution
<1>2. CASE Get
  <2>1. writer = "getting" /\ work = Shutdown /\ Head(queue) \in Units \cup {Shutdown}
    BY <1>2, TailTyping DEF Get
  <2>2. CASE Head(queue) = Shutdown
    BY <1>2, <2>1, <2>2 DEF Get
  <2>3. CASE Head(queue) # Shutdown
    BY <1>2, <2>1, <2>3, WorkKinds DEF Get, Begin
  <2> QED BY <2>2, <2>3
<1>3. CASE DrainEnds
  BY <1>3 DEF DrainEnds
<1>4. CASE StartPrune
  BY <1>4, WorkKinds DEF StartPrune, Begin
<1>5. CASE ConnectOk
  BY <1>5 DEF ConnectOk
<1>6. CASE ConnectFails
  BY <1>6 DEF ConnectFails
<1>7. CASE BackoffEnds
  <2>1. writer = "backoff" /\ work # Shutdown
    BY <1>7 DEF BackoffEnds
  <2>2. CASE stopping
    BY <1>7, <2>2, WorkKinds DEF BackoffEnds, Finish
  <2>3. CASE ~stopping /\ connects < ConnectAttempts
    BY <1>7, <2>1, <2>3 DEF BackoffEnds
  <2>4. CASE ~stopping /\ ~(connects < ConnectAttempts)
    BY <1>7, <2>1, <2>4, WorkKinds DEF BackoffEnds, Raised, Finish
  <2> QED BY <2>2, <2>3, <2>4
<1>8. CASE Execute
  BY <1>8, WorkKinds DEF Execute, Finish
<1>9. CASE ExecuteRaises
  BY <1>9, WorkKinds DEF ExecuteRaises, Raised, Finish
<1> QED BY <1>1, <1>2, <1>3, <1>4, <1>5, <1>6, <1>7, <1>8, <1>9
     DEF Next, Enter, Put, Evict, Reput, OutsideEnqueue, GetTimesOut, CloseStops, CloseMarks, JoinReturns,
         ServerGoes, ServerComes, vars

\* close() begins with the stop event, which stays.
LEMMA StopStep ==
  ASSUME Shape, Next
  PROVE  (stopping <=> closer # "none")'
<1>1. CASE CloseStops
  BY <1>1 DEF CloseStops
<1>2. CASE CloseMarks \/ JoinReturns
  BY <1>2 DEF CloseMarks, JoinReturns, Shape
<1>3. CASE UNCHANGED <<stopping, closer>>
  BY <1>3 DEF Shape
<1> QED BY <1>1, <1>2, <1>3
     DEF Next, Enter, Put, Evict, Reput, OutsideEnqueue, Get, GetTimesOut, DrainEnds, StartPrune,
         ConnectOk, ConnectFails, BackoffEnds, Execute, ExecuteRaises, OutsideWriter,
         ServerGoes, ServerComes, vars

\* Only close() puts the marker into the queue, after it has set the stop event.
LEMMA MarkerStep ==
  ASSUME ThreadTypes, Booked, QueueTypes, Shape, Next
  PROVE  (~stopping => ~draining /\ \A k \in DOMAIN queue : queue[k] # Shutdown)'
<1> SUFFICES ASSUME ~stopping'
             PROVE  ~draining' /\ \A k \in DOMAIN queue' : queue'[k] # Shutdown
  OBVIOUS
<1>1. ~stopping /\ closer = "none" /\ ~CloseStops /\ ~CloseMarks
  <2>1. UNCHANGED stopping \/ CloseStops
    BY DEF Next, Enter, Put, Evict, Reput, OutsideEnqueue, Get, GetTimesOut, DrainEnds,
           StartPrune, ConnectOk, ConnectFails, BackoffEnds, Execute, ExecuteRaises,
           OutsideWriter, CloseMarks, JoinReturns, ServerGoes, ServerComes, vars
  <2>2. ~CloseStops
    BY DEF CloseStops
  <2>3. closer = "none"
    BY <2>1, <2>2 DEF Shape
  <2>4. ~CloseMarks
    BY <2>3 DEF CloseMarks
  <2> QED BY <2>1, <2>2, <2>3, <2>4
<1>2. ~draining /\ \A k \in DOMAIN queue : queue[k] # Shutdown
  BY <1>1 DEF Shape
<1>3. ~draining'
  <2>1. CASE Get
    BY <1>2, <2>1, TailTyping DEF Get
  <2> QED BY <1>1, <1>2, <2>1
       DEF Next, Enter, Put, Evict, Reput, OutsideEnqueue, execution, GetTimesOut, DrainEnds,
           StartPrune, ConnectOk, ConnectFails, BackoffEnds, Execute, ExecuteRaises,
           JoinReturns, ServerGoes, ServerComes, vars
<1>4. \A k \in DOMAIN queue' : queue'[k] # Shutdown
  <2>1. CASE queue # <<>> /\ queue' = Tail(queue)
    BY <1>2, <2>1, TailTyping
  <2>2. CASE HasRoom /\ queue' = Append(queue, enqueued + 1) /\ enqueued + 1 \in Units
    <3>1. enqueued + 1 # Shutdown
      BY <2>2, WorkKinds
    <3>2. Len(queue) \in Nat /\ DOMAIN queue = 1..Len(queue)
      BY LenProperties DEF QueueTypes
    <3> QED BY <1>2, <2>2, <3>1, <3>2, PutTyping
  <2> QED BY <1>1, <1>2, <2>1, <2>2, QueueMoves
<1> QED BY <1>3, <1>4

LEMMA FlagStep ==
  ASSUME FlagTypes, Next
  PROVE  FlagTypes'
<1>1. ASSUME NEW t \in Producers, Enter(t) \/ Put(t) \/ Evict(t) \/ Reput(t)
      PROVE  FlagTypes'
  BY <1>1 DEF FlagTypes, Enter, Put, Evict, Reput, OutsideEnqueue, execution, session, server
<1>2. CASE Get
  BY <1>2 DEF FlagTypes, Get, Begin, OutsideWriter, session, server
<1>3. CASE GetTimesOut \/ DrainEnds \/ StartPrune
  BY <1>3 DEF FlagTypes, GetTimesOut, DrainEnds, StartPrune, OutsideWriter, session, server,
              vars, execution
<1>4. CASE ConnectOk \/ ConnectFails
  BY <1>4 DEF FlagTypes, ConnectOk, ConnectFails, OutsideWriter, server
<1>5. CASE BackoffEnds \/ Execute \/ ExecuteRaises
  BY <1>5 DEF FlagTypes, BackoffEnds, Execute, ExecuteRaises, Raised, OutsideWriter,
              session, server
<1>6. CASE CloseStops \/ CloseMarks \/ JoinReturns \/ ServerGoes \/ ServerComes
  BY <1>6 DEF FlagTypes, CloseStops, CloseMarks, JoinReturns, ServerGoes, ServerComes, execution, session, server
<1> QED BY <1>1, <1>2, <1>3, <1>4, <1>5, <1>6 DEF Next

LEMMA SessionStep ==
  ASSUME SessionTypes, Next
  PROVE  SessionTypes'
<1> USE StoreAssumption DEF SessionTypes
<1>1. ASSUME NEW t \in Producers, Enter(t) \/ Put(t) \/ Evict(t) \/ Reput(t)
      PROVE  SessionTypes'
  BY <1>1 DEF Enter, Put, Evict, Reput, Count, OutsideEnqueue, session, server
<1>2. CASE Get \/ GetTimesOut \/ DrainEnds \/ StartPrune
  BY <1>2 DEF Get, GetTimesOut, DrainEnds, StartPrune, OutsideWriter, session, server, vars
<1>3. CASE ConnectOk \/ ConnectFails
  BY <1>3 DEF ConnectOk, ConnectFails, OutsideWriter, server
<1>4. CASE BackoffEnds
  <2>1. UNCHANGED <<closer, outages, prunes>>
    BY <1>4 DEF BackoffEnds, OutsideWriter, server
  <2>2. CASE UNCHANGED <<settled, session>>
    BY <2>1, <2>2 DEF session
  <2>3. CASE Raised(TRUE)
    BY <2>1, <2>3 DEF Raised, Count
  <2> QED BY <1>4, <2>2, <2>3 DEF BackoffEnds
<1>5. CASE Execute
  BY <1>5 DEF Execute, Count, OutsideWriter, session
<1>6. CASE ExecuteRaises
  BY <1>6 DEF ExecuteRaises, Raised, Count, OutsideWriter
<1>7. CASE CloseStops \/ CloseMarks \/ JoinReturns
  BY <1>7 DEF CloseStops, CloseMarks, JoinReturns, session, server
<1>8. CASE ServerGoes \/ ServerComes
  BY <1>8 DEF ServerGoes, ServerComes, session
<1> QED BY <1>1, <1>2, <1>3, <1>4, <1>5, <1>6, <1>7, <1>8 DEF Next

\* What the writer commits is the unit it holds.
LEMMA CommitMoves ==
  ASSUME WriterTypes, Shape, Next
  PROVE  db' = db \/ (work \in Units /\ db' = Append(db, work) /\ UNCHANGED <<queue, enqueued>>
                     /\ work' \in {work, Shutdown})
<1>1. CASE UNCHANGED db
  BY <1>1
<1>2. CASE Execute \/ ExecuteRaises
  BY <1>2 DEF Execute, ExecuteRaises, Commit, Raised, Finish, OutsideWriter, producers, Shape,
              WriterTypes
<1> QED BY <1>1, <1>2
     DEF Next, Enter, Put, Evict, Reput, OutsideEnqueue, server, Get, GetTimesOut, DrainEnds,
         StartPrune, ConnectOk, ConnectFails, BackoffEnds, OutsideWriter, CloseStops, CloseMarks, JoinReturns,
         ServerGoes, ServerComes, vars

LEMMA DatabaseStep ==
  ASSUME DatabaseTypes, WriterTypes, Shape, Next
  PROVE  DatabaseTypes'
  BY CommitMoves, AppendProperties DEF DatabaseTypes

Sound == TypeOK /\ Booked /\ Shape

LEMMA SoundStep == Sound /\ [Next]_vars => Sound'
<1> SUFFICES ASSUME Sound, [Next]_vars PROVE Sound'
  OBVIOUS
<1>1. CASE Next
  <2>1. /\ ThreadTypes /\ QueueTypes /\ WriterTypes /\ FlagTypes /\ SessionTypes
        /\ DatabaseTypes /\ Booked /\ Shape
    BY TypeParts DEF Sound
  <2>2. ThreadTypes' /\ Booked' /\ QueueTypes'
    BY <1>1, <2>1, ThreadStep, QueueStep
  <2>3. FlagTypes' /\ SessionTypes' /\ DatabaseTypes'
    BY <1>1, <2>1, FlagStep, SessionStep, DatabaseStep
  <2>4. WriterTypes' /\ Shape'
    BY <1>1, <2>1, WriterStep, MarkerStep, StopStep DEF Shape
  <2> QED BY <2>2, <2>3, <2>4, TypeParts DEF Sound
<1>2. CASE UNCHANGED vars
  BY <1>2 DEF Sound, TypeOK, Booked, Busy, Shape, vars, producers, execution, session, server
<1> QED BY <1>1, <1>2

LEMMA AlwaysSound == Spec => []Sound
<1>1. Init => Sound
  BY InitTypes DEF Sound
<1> QED BY <1>1, SoundStep, PTL DEF Spec

\* Every step keeps the types, whatever the threads, the writer, close() and the server
\* do between each other's calls.  In particular no thread numbers a unit that was not
\* offered, the queue stays within its size although close() puts its marker into it
\* too, and _connect() makes no attempt beyond its last.
THEOREM StoreTypeCorrect == Spec => []TypeOK
BY AlwaysSound, PTL DEF Sound

(***************************************************************************)
(* The books of the store                                                  *)
(***************************************************************************)

\* In a queue without the marker every element is a unit.
LEMMA UnmarkedQueue ==
  ASSUME NEW q \in Seq(Units \cup {Shutdown}), \A k \in DOMAIN q : q[k] # Shutdown
  PROVE  UnitsIn(q) = Len(q)
<1>1. Len(q) \in Nat /\ DOMAIN q = 1..Len(q)
  BY LenProperties
<1>2. {k \in DOMAIN q : q[k] # Shutdown} = 1..Len(q)
  BY <1>1
<1>3. Cardinality(1..Len(q)) = Len(q)
  BY <1>1, FS_Interval
<1> QED BY <1>2, <1>3 DEF UnitsIn

\* A queue holds no more units than elements.
LEMMA UnitsAreElements ==
  ASSUME NEW q \in Seq(Units \cup {Shutdown})
  PROVE  UnitsIn(q) \in Nat /\ UnitsIn(q) <= Len(q)
<1>1. Len(q) \in Nat /\ DOMAIN q = 1..Len(q)
  BY LenProperties
<1>2. IsFiniteSet(1..Len(q)) /\ Cardinality(1..Len(q)) = Len(q)
  BY <1>1, FS_Interval
<1>3. {k \in DOMAIN q : q[k] # Shutdown} \subseteq 1..Len(q)
  BY <1>1
<1> QED BY <1>2, <1>3, FS_Subset, FS_CardinalityType DEF UnitsIn

\* What is in no thread's hands, not in the queue, not being executed and in no counter.
Missing == offered - (Cardinality(Busy) + Len(queue) + Executing + settled)

\* The marker that close() has still to put.
ToCome == IF closer \in {"none", "stopping"} THEN 1 ELSE 0

Ledger == Missing \in Int /\ Missing + 1 >= ToCome /\ (~stopping => Missing = 0)

\* A unit leaves a thread's hands for the queue or for a counter.
LEMMA ThreadsMissNone ==
  ASSUME ThreadTypes, QueueTypes, WriterTypes, SessionTypes, Booked,
         NEW t \in Producers, Enter(t) \/ Put(t) \/ Evict(t) \/ Reput(t)
  PROVE  Missing' = Missing
<1>1. Executing' = Executing /\ Executing \in {0, 1}
  BY DEF Enter, Put, Evict, Reput, OutsideEnqueue, execution, Executing
<1>2. /\ offered \in Nat /\ settled \in Nat /\ Len(queue) \in Nat
      /\ Cardinality(Busy) \in Nat
  BY WorkKinds, LenProperties, FS_CardinalityType
     DEF ThreadTypes, SessionTypes, QueueTypes, Booked
<1>3. pc \in [Producers -> {"idle", "put", "evict", "reput"}]
  BY DEF ThreadTypes
<1>4. HasRoom => \A u \in Units : Len(Append(queue, u)) = Len(queue) + 1
  BY PutTyping
<1>5. CASE Enter(t)
  <2>1. pc[t] = "idle" /\ Goto(t, "put") /\ offered' = offered + 1
        /\ queue' = queue /\ settled' = settled
    BY <1>5 DEF Enter
  <2>2. Cardinality(Busy') = Cardinality(Busy) + 1
    BY <1>3, <2>1, BusyChanges
  <2>3. PICK held \in Nat, queued \in Nat, e \in Nat, o \in Nat, k \in Nat :
          held = Cardinality(Busy) /\ queued = Len(queue) /\ e = Executing
          /\ o = offered /\ k = settled
    BY <1>1, <1>2
  <2>4. (o + 1) - ((held + 1) + queued + e + k) = o - (held + queued + e + k)
    OBVIOUS
  <2>5. /\ offered' = o + 1 /\ Cardinality(Busy') = held + 1
        /\ Len(queue') = queued /\ Executing' = e /\ settled' = k
    BY <1>1, <2>1, <2>2, <2>3
  <2> HIDE DEF Executing
  <2>9. offered' - (Cardinality(Busy') + Len(queue') + Executing' + settled') =
          offered - (Cardinality(Busy) + Len(queue) + Executing + settled)
    BY <2>3, <2>4, <2>5
  <2> QED BY <2>9 DEF Missing
<1>6. CASE Put(t) /\ HasRoom
  <2>1. pc[t] # "idle" /\ Goto(t, "idle") /\ offered' = offered
        /\ queue' = Append(queue, enqueued + 1) /\ settled' = settled
    BY <1>6 DEF Put, PutUnit
  <2>2. Cardinality(Busy') = Cardinality(Busy) - 1
    BY <1>3, <2>1, BusyChanges
  <2>3. Len(queue') = Len(queue) + 1
    BY <1>4, <1>6, <2>1, NextUnit
  <2>4. offered' = offered /\ settled' = settled
    BY <2>1
  <2>5. PICK held \in Nat, queued \in Nat, e \in Nat :
          held = Cardinality(Busy) /\ queued = Len(queue) /\ e = Executing
    BY <1>1, <1>2
  <2>7. Cardinality(Busy') = held - 1 /\ Len(queue') = queued + 1 /\ Executing' = e
    BY <1>1, <2>2, <2>3, <2>5
  <2>9. offered' - (Cardinality(Busy') + Len(queue') + Executing' + settled') =
          offered - (Cardinality(Busy) + Len(queue) + Executing + settled)
    BY <1>2, <2>4, <2>5, <2>7
  <2> QED BY <2>9 DEF Missing
<1>7. CASE Put(t) /\ ~HasRoom
  <2>1. pc[t] # "idle" /\ Goto(t, "evict") /\ offered' = offered
        /\ queue' = queue /\ settled' = settled
    BY <1>7 DEF Put
  <2>2. Cardinality(Busy') = Cardinality(Busy)
    BY <1>3, <2>1, BusyChanges
  <2>9. offered' - (Cardinality(Busy') + Len(queue') + Executing' + settled') =
          offered - (Cardinality(Busy) + Len(queue) + Executing + settled)
    BY <1>1, <1>2, <2>1, <2>2
  <2> QED BY <2>9 DEF Missing
<1>8. CASE Evict(t) /\ queue = <<>>
  <2>1. pc[t] # "idle" /\ Goto(t, "idle") /\ offered' = offered
        /\ queue' = queue /\ settled' = settled + 1
    BY <1>8 DEF Evict, Count
  <2>2. Cardinality(Busy') = Cardinality(Busy) - 1
    BY <1>3, <2>1, BusyChanges
  <2>4. offered' = offered /\ settled' = settled + 1
    BY <2>1
  <2>5. PICK held \in Nat, queued \in Nat, e \in Nat :
          held = Cardinality(Busy) /\ queued = Len(queue) /\ e = Executing
    BY <1>1, <1>2
  <2>7. Cardinality(Busy') = held - 1 /\ Len(queue') = queued /\ Executing' = e
    BY <1>1, <2>1, <2>2, <2>5
  <2>8. PICK o \in Nat, s \in Nat : o = offered /\ s = settled
    BY <1>2
  <2>9. offered' - (Cardinality(Busy') + Len(queue') + Executing' + settled') =
          offered - (Cardinality(Busy) + Len(queue) + Executing + settled)
    <3>1. o - (held - 1 + queued + e + (s + 1)) = o - (held + queued + e + s)
      OBVIOUS
    <3> QED BY <2>4, <2>5, <2>7, <2>8, <3>1
  <2> QED BY <2>9 DEF Missing
<1>9. CASE Evict(t) /\ queue # <<>>
  <2>1. pc[t] # "idle" /\ Goto(t, "reput") /\ offered' = offered
        /\ queue' = Tail(queue) /\ settled' = settled + 1
    BY <1>9 DEF Evict, Count
  <2>2. Cardinality(Busy') = Cardinality(Busy)
    BY <1>3, <2>1, BusyChanges
  <2>3. Len(queue') = Len(queue) - 1
    BY <1>9, <2>1, TailTyping
  <2>4. offered' = offered /\ settled' = settled + 1
    BY <2>1
  <2>5. PICK held \in Nat, queued \in Nat, e \in Nat :
          held = Cardinality(Busy) /\ queued = Len(queue) /\ e = Executing
    BY <1>1, <1>2
  <2>7. Cardinality(Busy') = held /\ Len(queue') = queued - 1 /\ Executing' = e
    BY <1>1, <2>2, <2>3, <2>5
  <2>9. offered' - (Cardinality(Busy') + Len(queue') + Executing' + settled') =
          offered - (Cardinality(Busy) + Len(queue) + Executing + settled)
    BY <1>2, <2>4, <2>5, <2>7
  <2> QED BY <2>9 DEF Missing
<1>10. CASE Reput(t) /\ HasRoom
  <2>1. pc[t] # "idle" /\ Goto(t, "idle") /\ offered' = offered
        /\ queue' = Append(queue, enqueued + 1) /\ settled' = settled
    BY <1>10 DEF Reput, PutUnit
  <2>2. Cardinality(Busy') = Cardinality(Busy) - 1
    BY <1>3, <2>1, BusyChanges
  <2>3. Len(queue') = Len(queue) + 1
    BY <1>4, <1>10, <2>1, NextUnit
  <2>4. offered' = offered /\ settled' = settled
    BY <2>1
  <2>5. PICK held \in Nat, queued \in Nat, e \in Nat :
          held = Cardinality(Busy) /\ queued = Len(queue) /\ e = Executing
    BY <1>1, <1>2
  <2>7. Cardinality(Busy') = held - 1 /\ Len(queue') = queued + 1 /\ Executing' = e
    BY <1>1, <2>2, <2>3, <2>5
  <2>9. offered' - (Cardinality(Busy') + Len(queue') + Executing' + settled') =
          offered - (Cardinality(Busy) + Len(queue) + Executing + settled)
    BY <1>2, <2>4, <2>5, <2>7
  <2> QED BY <2>9 DEF Missing
<1>11. CASE Reput(t) /\ ~HasRoom
  <2>1. pc[t] # "idle" /\ Goto(t, "idle") /\ offered' = offered
        /\ queue' = queue /\ settled' = settled + 1
    BY <1>11 DEF Reput, Count
  <2>2. Cardinality(Busy') = Cardinality(Busy) - 1
    BY <1>3, <2>1, BusyChanges
  <2>4. offered' = offered /\ settled' = settled + 1
    BY <2>1
  <2>5. PICK held \in Nat, queued \in Nat, e \in Nat :
          held = Cardinality(Busy) /\ queued = Len(queue) /\ e = Executing
    BY <1>1, <1>2
  <2>7. Cardinality(Busy') = held - 1 /\ Len(queue') = queued /\ Executing' = e
    BY <1>1, <2>1, <2>2, <2>5
  <2>8. PICK o \in Nat, s \in Nat : o = offered /\ s = settled
    BY <1>2
  <2>9. offered' - (Cardinality(Busy') + Len(queue') + Executing' + settled') =
          offered - (Cardinality(Busy) + Len(queue) + Executing + settled)
    <3>1. o - (held - 1 + queued + e + (s + 1)) = o - (held + queued + e + s)
      OBVIOUS
    <3> QED BY <2>4, <2>5, <2>7, <2>8, <3>1
  <2> QED BY <2>9 DEF Missing
<1> QED BY <1>5, <1>6, <1>7, <1>8, <1>9, <1>10, <1>11

\* What the writer takes from the queue it holds until it is counted.  Only the
\* ConnectionError of a stop in the middle of a backoff loses a unit.
LEMMA WriterMissesLate ==
  ASSUME ThreadTypes, QueueTypes, WriterTypes, SessionTypes, Booked, Shape,
         UNCHANGED producers,
         Get \/ DrainEnds \/ StartPrune \/ ConnectOk \/ ConnectFails \/ BackoffEnds
             \/ Execute \/ ExecuteRaises
  PROVE  Missing' = Missing \/ (stopping /\ Missing' = Missing + 1)
<1>1. Busy' = Busy /\ offered' = offered
  BY DEF Busy, producers
<1>2. /\ offered \in Nat /\ settled \in Nat /\ Len(queue) \in Nat
      /\ Cardinality(Busy) \in Nat
  BY WorkKinds, LenProperties, FS_CardinalityType
     DEF ThreadTypes, SessionTypes, QueueTypes, Booked
<1>3. CASE Get
  <2>1. queue # <<>> /\ queue' = Tail(queue) /\ settled' = settled /\ work = Shutdown
    BY <1>3 DEF Get, Shape
  <2>2. Len(queue') = Len(queue) - 1
    BY <2>1, TailTyping
  <2>3. Executing = 0
    BY <2>1, WorkKinds DEF Executing
  <2>4. CASE Head(queue) = Shutdown
    <3>1. Executing' = 0
      BY <1>3, <2>1, <2>4, WorkKinds DEF Get, Executing
    <3>2. stopping
      BY <2>1, <2>4, TailTyping DEF Shape
    <3> QED BY <1>1, <1>2, <2>1, <2>2, <2>3, <3>1, <3>2 DEF Missing
  <2>5. CASE Head(queue) # Shutdown
    <3>1. Head(queue) \in Units /\ work' = Head(queue)
      BY <1>3, <2>1, <2>5, TailTyping DEF Get, Begin
    <3>2. Executing' = 1
      BY <3>1 DEF Executing
    <3> QED BY <1>1, <1>2, <2>1, <2>2, <2>3, <3>2 DEF Missing
  <2> QED BY <2>4, <2>5
<1>4. CASE UNCHANGED <<queue, settled>> /\ (UNCHANGED work \/ (work \notin Units /\ work' \notin Units))
  <2>1. Executing' = Executing
    BY <1>4 DEF Executing
  <2> QED BY <1>1, <1>4, <2>1 DEF Missing
<1>5. CASE queue' = queue /\ settled' = settled + 1 /\ work \in Units /\ work' = Shutdown
  <2>1. Executing = 1 /\ Executing' = 0
    BY <1>5, WorkKinds DEF Executing
  <2> QED BY <1>1, <1>2, <1>5, <2>1 DEF Missing
<1>6. ASSUME work # Shutdown, NEW discard, Raised(discard), queue' = queue PROVE Missing' = Missing
  <2>0. UNCHANGED <<queue, settled>> /\ (UNCHANGED work \/ (work \notin Units /\ work' \notin Units))
          => Missing' = Missing
    BY <1>1 DEF Missing, Executing
  <2>1. CASE attempt = 1
    BY <1>6, <2>0, <2>1 DEF Raised
  <2>2. CASE attempt # 1 /\ work = Prune
    BY <1>6, <2>0, <2>2, WorkKinds DEF Raised, Finish
  <2>3. CASE attempt # 1 /\ work # Prune
    <3>1. settled' = settled + 1 /\ work \in Units /\ work' = Shutdown
      BY <1>6, <2>3 DEF Raised, Finish, Count, WriterTypes
    <3>2. Executing = 1 /\ Executing' = 0
      BY <3>1, WorkKinds DEF Executing
    <3> QED BY <1>1, <1>2, <1>6, <3>1, <3>2 DEF Missing
  <2> QED BY <2>1, <2>2, <2>3
<1>7. CASE DrainEnds \/ ConnectOk \/ ConnectFails
  BY <1>4, <1>7 DEF DrainEnds, ConnectOk, ConnectFails
<1>8. CASE StartPrune
  BY <1>4, <1>8, WorkKinds DEF StartPrune, Begin, Shape
<1>9. CASE BackoffEnds
  <2>1. work # Shutdown /\ queue' = queue
    BY <1>9 DEF BackoffEnds, Shape
  <2>2. CASE stopping
    <3>1. settled' = settled /\ work' = Shutdown
      BY <1>9, <2>2 DEF BackoffEnds, Finish
    <3>2. Executing' = 0 /\ Executing \in {0, 1}
      BY <3>1, WorkKinds DEF Executing
    <3> QED BY <1>1, <1>2, <2>1, <2>2, <3>1, <3>2 DEF Missing
  <2>3. CASE ~stopping /\ connects < ConnectAttempts
    BY <1>4, <1>9, <2>3 DEF BackoffEnds
  <2>4. CASE ~stopping /\ ~(connects < ConnectAttempts)
    <3>1. Raised(TRUE)
      BY <1>9, <2>4 DEF BackoffEnds
    <3> QED BY <1>6, <2>1, <3>1
  <2> QED BY <2>2, <2>3, <2>4
<1>10. CASE Execute
  <2>1. work \in Units \cup {Prune} /\ queue' = queue /\ work' = Shutdown
        /\ IF work = Prune THEN settled' = settled ELSE settled' = settled + 1
    BY <1>10 DEF Execute, Shape, WriterTypes, Finish, Count
  <2> QED BY <1>4, <1>5, <2>1, WorkKinds
<1>11. CASE ExecuteRaises
  <2>1. work # Shutdown /\ queue' = queue /\ Raised(conn = "stale")
    BY <1>11 DEF ExecuteRaises, Shape
  <2> QED BY <1>6, <2>1
<1> QED BY <1>3, <1>7, <1>8, <1>9, <1>10, <1>11

\* The marker is the one element that is counted without having been offered.
LEMMA CloseMissesOne ==
  ASSUME ThreadTypes, QueueTypes, WriterTypes, SessionTypes, Booked,
         CloseStops \/ CloseMarks \/ JoinReturns
  PROVE  Missing \in Int /\ Missing' \in Int /\ Missing' - ToCome' >= Missing - ToCome
<1>1. Busy' = Busy /\ offered' = offered /\ settled' = settled /\ Executing' = Executing
  BY DEF CloseStops, CloseMarks, JoinReturns, Busy, Executing, producers, execution
<1>2. /\ offered \in Nat /\ settled \in Nat /\ Len(queue) \in Nat
      /\ Cardinality(Busy) \in Nat /\ Executing \in {0, 1}
  BY WorkKinds, LenProperties, FS_CardinalityType
     DEF ThreadTypes, SessionTypes, QueueTypes, Booked, Executing
<1>3. CASE CloseMarks
  <2>1. ToCome = 1 /\ ToCome' = 0
    BY <1>3 DEF CloseMarks, ToCome
  <2>2. Len(queue') \in {Len(queue), Len(queue) + 1}
    BY <1>3, PutTyping DEF CloseMarks
  <2>3. PICK held \in Nat, queued \in Nat, e \in Nat :
          held = Cardinality(Busy) /\ queued = Len(queue) /\ e = Executing
    BY <1>2
  <2>4. PICK more \in {0, 1} : Len(queue') = queued + more
    BY <2>2, <2>3
  <2>5. Missing = offered - (held + queued + e + settled)
    BY <2>3 DEF Missing
  <2>6. Missing' = offered - (held + queued + more + e + settled)
    BY <1>1, <2>3, <2>4 DEF Missing
  <2>7. offered \in Nat /\ settled \in Nat
    BY <1>2
  <2>8. Missing \in Int /\ Missing' \in Int /\ Missing' >= Missing - 1
    <3>1. PICK o \in Nat, s \in Nat : o = offered /\ s = settled
      BY <2>7
    <3>2. /\ o - (held + queued + e + s) \in Int /\ o - (held + queued + more + e + s) \in Int
          /\ o - (held + queued + more + e + s) >= o - (held + queued + e + s) - 1
      BY <2>4
    <3>3. Missing = o - (held + queued + e + s)
      BY <2>5, <3>1
    <3>4. Missing' = o - (held + queued + more + e + s)
      BY <2>6, <3>1
    <3> QED BY <3>2, <3>3, <3>4
  <2>9. PICK before \in Int, after \in Int : before = Missing /\ after = Missing'
    BY <2>8
  <2>10. after >= before - 1
    BY <2>8, <2>9, Zenon
  <2>11. after - 0 >= before - 1
    BY <2>10
  <2> QED BY <2>1, <2>8, <2>9, <2>11, Zenon
<1>4. CASE CloseStops \/ JoinReturns
  <2>1. queue' = queue /\ ToCome' = ToCome /\ ToCome \in {0, 1}
    BY <1>4 DEF CloseStops, JoinReturns, ToCome
  <2> QED BY <1>1, <1>2, <2>1 DEF Missing
<1> QED BY <1>3, <1>4

LEMMA LedgerStep ==
  ASSUME Sound, Ledger, Next
  PROVE  Ledger'
<1>1. ThreadTypes /\ QueueTypes /\ WriterTypes /\ SessionTypes /\ Booked /\ Shape
  BY TypeParts DEF Sound
<1>2. CASE UNCHANGED <<stopping, closer>> /\ Missing' = Missing
  BY <1>2 DEF Ledger, ToCome
<1>3. ASSUME NEW t \in Producers, Enter(t) \/ Put(t) \/ Evict(t) \/ Reput(t)
      PROVE  Ledger'
  BY <1>1, <1>2, <1>3, ThreadsMissNone DEF Enter, Put, Evict, Reput, OutsideEnqueue
<1>4. CASE Get \/ DrainEnds \/ StartPrune \/ ConnectOk \/ ConnectFails \/ BackoffEnds
           \/ Execute \/ ExecuteRaises
  <2>1. UNCHANGED <<producers, stopping, closer>>
    BY <1>4 DEF Get, DrainEnds, StartPrune, ConnectOk, ConnectFails, BackoffEnds, Execute,
                ExecuteRaises, OutsideWriter
  <2>2. Missing' = Missing \/ (stopping /\ Missing' = Missing + 1)
    BY <1>1, <1>4, <2>1, WriterMissesLate
  <2> QED BY <1>2, <2>1, <2>2 DEF Ledger, ToCome
<1>5. CASE CloseStops \/ CloseMarks \/ JoinReturns
  <2>1. stopping'
    BY <1>1, <1>5 DEF CloseStops, CloseMarks, JoinReturns, Shape
  <2>2. ToCome \in {0, 1} /\ ToCome' \in {0, 1}
    BY DEF ToCome
  <2> QED BY <1>1, <1>5, <2>1, <2>2, CloseMissesOne DEF Ledger
<1>6. CASE GetTimesOut \/ ServerGoes \/ ServerComes
  <2>1. UNCHANGED <<producers, queue, execution, settled, stopping, closer>>
    BY <1>6 DEF GetTimesOut, ServerGoes, ServerComes, vars
  <2>2. Missing' = Missing
    BY <2>1 DEF Missing, Busy, Executing, producers, execution
  <2> QED BY <1>2, <2>1, <2>2
<1> QED BY <1>3, <1>4, <1>5, <1>6 DEF Next

\* Whatever the threads do to the queue between the calls of _enqueue, and whatever
\* becomes of the connection: until close() every unit offered is in somebody's hands or
\* counted, exactly once in sum.  After it units may be given up uncounted and the marker
\* may be counted, but the books never show more than what was offered and the marker.
THEOREM EveryUnitIsAlwaysCounted == Spec => []EveryUnitIsCounted
<1>1. Init => Ledger
  <2> SUFFICES ASSUME Init PROVE Ledger
    OBVIOUS
  <2>1. Busy = {} /\ Len(queue) = 0 /\ Executing = 0
    BY EmptySeq, WorkKinds DEF Init, Busy, Executing
  <2> QED BY <2>1, FS_EmptySet DEF Init, Ledger, Missing, ToCome
<1>2. Sound /\ Ledger /\ [Next]_vars => Ledger'
  <2>1. ASSUME Ledger, UNCHANGED vars PROVE Ledger'
    BY <2>1 DEF Ledger, Missing, ToCome, Busy, Executing, vars, producers, execution
  <2> QED BY <2>1, LedgerStep
<1>3. Sound /\ Ledger => EveryUnitIsCounted
  <2> SUFFICES ASSUME Sound, Ledger PROVE EveryUnitIsCounted
    OBVIOUS
  <2>1. ThreadTypes /\ QueueTypes /\ SessionTypes /\ Booked /\ Shape
    BY TypeParts DEF Sound
  <2>2. /\ offered \in Nat /\ settled \in Nat /\ Len(queue) \in Nat
        /\ Cardinality(Busy) \in Nat /\ Executing \in {0, 1}
    BY <2>1, WorkKinds, LenProperties, FS_CardinalityType
       DEF ThreadTypes, SessionTypes, QueueTypes, Booked, Executing
  <2>3. InHand = Cardinality(Busy)
    BY DEF InHand, Busy
  <2>4. UnitsIn(queue) \in Nat /\ UnitsIn(queue) <= Len(queue)
        /\ (~stopping => UnitsIn(queue) = Len(queue))
    BY <2>1, UnitsAreElements, UnmarkedQueue DEF QueueTypes, Shape
  <2>5. offered - (InHand + Len(queue) + Executing + settled) >= 0 - 1
        /\ (~stopping => offered - (InHand + Len(queue) + Executing + settled) = 0)
    BY <2>2, <2>3 DEF Ledger, Missing, ToCome
  <2>6. InHand \in Nat
    BY <2>2, <2>3
  <2> HIDE DEF InHand, UnitsIn, Executing
  <2> QED BY <2>2, <2>4, <2>5, <2>6 DEF EveryUnitIsCounted
<1> QED BY <1>1, <1>2, <1>3, AlwaysSound, PTL DEF Spec

(***************************************************************************)
(* The order of the database                                               *)
(***************************************************************************)
Real(q) == {k \in DOMAIN q : q[k] # Shutdown}

\* u entered the queue no later than whatever q holds, of the first n units.
Below(u, q, n) == u <= n /\ \A k \in Real(q) : u <= q[k]

Climbing(q, n) ==
  /\ \A j, k \in Real(q) : j < k => q[j] <= q[k]
  /\ \A k \in Real(q) : q[k] <= n

\* The queue is in the order of its numbers, the writer's unit is older than those in
\* the queue, and the committed units are older than both.  A unit that an evicting
\* thread puts back is a new one, with a number above all of them.
Ascending ==
  /\ Climbing(queue, enqueued)
  /\ work \in Units => Below(work, queue, enqueued)
  /\ \A i \in DOMAIN db : /\ Below(db[i], queue, enqueued)
                          /\ work \in Units => db[i] <= work

LEMMA QueueElements ==
  ASSUME QueueTypes
  PROVE  /\ Len(queue) \in Nat /\ DOMAIN queue = 1..Len(queue)
         /\ \A k \in DOMAIN queue : queue[k] \in Nat
<1>1. Len(queue) \in Nat /\ DOMAIN queue = 1..Len(queue)
  BY LenProperties DEF QueueTypes
<1>2. \A k \in 1..Len(queue) : queue[k] \in Units \cup {Shutdown}
  BY <1>1, ElementOfSeq DEF QueueTypes
<1>3. Units \cup {Shutdown} \subseteq Nat
  BY WorkKinds
<1> QED BY <1>1, <1>2, <1>3

\* What the queue loses at its head or gains at its tail leaves the order as it was.
LEMMA QueueClimbs ==
  ASSUME ThreadTypes, Booked, QueueTypes, Next, Climbing(queue, enqueued)
  PROVE  /\ Climbing(queue', enqueued')
         /\ \A u \in Nat : Below(u, queue, enqueued) => Below(u, queue', enqueued')
<1> USE DEF Climbing, Below
<1>0. /\ Len(queue) \in Nat /\ DOMAIN queue = 1..Len(queue) /\ enqueued \in Nat
      /\ \A k \in DOMAIN queue : queue[k] \in Nat
  BY QueueElements, WorkKinds DEF ThreadTypes
<1>1. enqueued' = enqueued \/ enqueued' = enqueued + 1
  BY DEF Next, Enter, Put, Evict, Reput, PutUnit, Get, GetTimesOut, DrainEnds, StartPrune,
         ConnectOk, ConnectFails, BackoffEnds, Execute, ExecuteRaises, OutsideWriter, producers,
         CloseStops, CloseMarks, JoinReturns, ServerGoes, ServerComes, vars
<1>2. CASE queue' = queue
  BY <1>0, <1>1, <1>2 DEF Real
<1>3. CASE queue # <<>> /\ queue' = Tail(queue)
  <2>1. /\ DOMAIN queue' = 1..Len(queue) - 1
        /\ \A k \in 1..Len(queue) - 1 : queue'[k] = queue[k + 1]
    BY <1>3, TailTyping
  <2>2. \A k \in Real(queue') : k \in Int /\ k + 1 \in Real(queue) /\ queue'[k] = queue[k + 1]
    BY <1>0, <2>1 DEF Real
  <2>3. \A k \in Real(queue) : queue[k] \in Nat
    BY <1>0 DEF Real
  <2> QED BY <1>0, <1>1, <2>2, <2>3
<1>4. ASSUME NEW u \in Units \cup {Shutdown}, HasRoom, queue' = Append(queue, u),
             u \in Units => u = enqueued + 1 /\ enqueued' = enqueued + 1
      PROVE  /\ Climbing(queue', enqueued')
             /\ \A v \in Nat : Below(v, queue, enqueued) => Below(v, queue', enqueued')
  <2>1. /\ DOMAIN queue' = 1..Len(queue) + 1
        /\ \A k \in DOMAIN queue : queue'[k] = queue[k]
        /\ queue'[Len(queue) + 1] = u
    BY <1>4, PutTyping
  <2>2. \A k \in Real(queue') :
          \/ k \in Real(queue) /\ queue'[k] = queue[k]
          \/ k = Len(queue) + 1 /\ queue'[k] = enqueued + 1 /\ enqueued' = enqueued + 1
    BY <1>0, <1>4, <2>1 DEF Real
  <2>3. \A k \in Real(queue) : queue[k] \in Nat /\ k \in 1..Len(queue)
    BY <1>0 DEF Real
  <2> QED BY <1>0, <1>1, <2>2, <2>3
<1>5. Shutdown \notin Units
  BY WorkKinds
<1> QED BY <1>2, <1>3, <1>4, <1>5, QueueMoves

\* The writer keeps its unit, lets go of it, or takes the oldest of the queue.
LEMMA WorkMoves ==
  ASSUME WriterTypes, Shape, Next
  PROVE  \/ work' = work
         \/ work' \notin Units
         \/ /\ queue # <<>> /\ Head(queue) # Shutdown /\ work' = Head(queue)
            /\ queue' = Tail(queue) /\ db' = db /\ enqueued' = enqueued
<1>1. CASE UNCHANGED execution
  BY <1>1 DEF execution
<1>2. CASE Get
  BY <1>2 DEF Get, Begin, OutsideWriter, producers, server
<1>3. CASE StartPrune
  BY <1>3, WorkKinds DEF StartPrune, Begin
<1>4. CASE DrainEnds \/ ConnectOk \/ ConnectFails
  BY <1>4 DEF DrainEnds, ConnectOk, ConnectFails
<1>5. CASE BackoffEnds \/ Execute \/ ExecuteRaises
  BY <1>5, WorkKinds DEF BackoffEnds, Execute, ExecuteRaises, Raised, Finish
<1> QED BY <1>1, <1>2, <1>3, <1>4, <1>5
     DEF Next, Enter, Put, Evict, Reput, OutsideEnqueue, GetTimesOut, CloseStops, CloseMarks, JoinReturns,
         ServerGoes, ServerComes, vars

LEMMA AscendingStep ==
  ASSUME Sound, Ascending, Next
  PROVE  Ascending'
<1>1. ThreadTypes /\ QueueTypes /\ WriterTypes /\ DatabaseTypes /\ Booked /\ Shape
  BY TypeParts DEF Sound
<1>2. /\ Climbing(queue', enqueued')
      /\ \A u \in Nat : Below(u, queue, enqueued) => Below(u, queue', enqueued')
  BY <1>1, QueueClimbs DEF Ascending
<1>3. /\ Len(db) \in Nat /\ DOMAIN db = 1..Len(db) /\ \A i \in DOMAIN db : db[i] \in Nat
  <2>1. db \in Seq(Units) /\ Len(db) \in Nat /\ DOMAIN db = 1..Len(db)
    BY <1>1, LenProperties DEF DatabaseTypes
  <2>2. \A i \in 1..Len(db) : db[i] \in Units
    BY <2>1, ElementOfSeq
  <2> QED BY <2>1, <2>2, WorkKinds
<1>4. \A i \in DOMAIN db : Below(db[i], queue', enqueued')
  BY <1>2, <1>3 DEF Ascending
<1>5. work \in Units => work \in Nat /\ Below(work, queue', enqueued')
  BY <1>2, WorkKinds DEF Ascending
<1>6. CASE db' = Append(db, work) /\ work \in Units /\ work' \in {work, Shutdown}
  <2>1. /\ DOMAIN db' = 1..Len(db) + 1 /\ \A i \in DOMAIN db : db'[i] = db[i]
        /\ db'[Len(db) + 1] = work
    <3>1. db \in Seq(Units)
      BY <1>1 DEF DatabaseTypes
    <3>2. /\ db' \in Seq(Units) /\ Len(db') = Len(db) + 1
          /\ \A i \in 1..Len(db) : db'[i] = db[i]
          /\ db'[Len(db) + 1] = work
      BY <1>6, <3>1, AppendProperties
    <3>3. DOMAIN db' = 1..Len(db')
      BY <3>2, LenProperties
    <3> QED BY <1>3, <3>2, <3>3
  <2>2. \A i \in DOMAIN db' : (i \in DOMAIN db /\ db'[i] = db[i]) \/ db'[i] = work
    BY <1>3, <2>1
  <2>3. \A i \in DOMAIN db' : Below(db'[i], queue', enqueued')
    BY <1>4, <1>5, <1>6, <2>2
  <2>4. \A i \in DOMAIN db' : work' \in Units => db'[i] <= work'
    BY <1>5, <1>6, <2>2, WorkKinds DEF Ascending
  <2>5. work' \in Units => Below(work', queue', enqueued')
    BY <1>5, <1>6, WorkKinds
  <2> QED BY <1>2, <2>3, <2>4, <2>5 DEF Ascending
<1>7. CASE db' = db /\ (work' = work \/ work' \notin Units)
  BY <1>2, <1>4, <1>5, <1>7 DEF Ascending
<1>8. CASE /\ queue # <<>> /\ Head(queue) # Shutdown /\ work' = Head(queue)
           /\ queue' = Tail(queue) /\ db' = db /\ enqueued' = enqueued
  <2>0. /\ Head(queue) = queue[1]
        /\ DOMAIN queue' = 1..Len(queue) - 1 /\ DOMAIN queue = 1..Len(queue)
        /\ \A k \in 1..Len(queue) - 1 : queue'[k] = queue[k + 1]
        /\ Len(queue) \in Nat \ {0}
    BY <1>1, <1>8, TailTyping
  <2>1. Head(queue) \in Nat /\ 1 \in Real(queue)
    BY <1>1, <1>8, <2>0, QueueElements DEF Real
  <2>2. Below(work', queue', enqueued')
    <3>1. Head(queue) <= enqueued
      BY <2>0, <2>1 DEF Ascending, Climbing
    <3>2. \A k \in Real(queue') : k + 1 \in Real(queue) /\ 1 < k + 1 /\ queue'[k] = queue[k + 1]
      BY <2>0 DEF Real
    <3>3. \A k \in Real(queue') : Head(queue) <= queue'[k]
      BY <2>0, <2>1, <3>2 DEF Ascending, Climbing
    <3> QED BY <1>8, <3>1, <3>3 DEF Below
  <2>3. \A i \in DOMAIN db' : db'[i] <= work'
    BY <1>8, <2>0, <2>1 DEF Ascending, Below
  <2> QED BY <1>2, <1>4, <1>8, <2>2, <2>3 DEF Ascending
<1> QED BY <1>1, <1>6, <1>7, <1>8, CommitMoves, WorkMoves

\* Units are committed in the order in which they entered the queue, across evictions,
\* retries, reconnections and replies to a commit that were lost.
THEOREM DatabaseIsInOrder == Spec => []WrittenInOrder
<1>1. Init => Ascending
  BY WorkKinds DEF Init, Ascending, Climbing, Real
<1>2. Sound /\ Ascending /\ [Next]_vars => Ascending'
  <2>1. CASE UNCHANGED vars
    BY <2>1 DEF Ascending, vars, producers, execution, server
  <2> QED BY <2>1, AscendingStep
<1>3. Sound /\ Ascending /\ WrittenInOrder /\ [Next]_vars => WrittenInOrder'
  <2> SUFFICES ASSUME Sound, Ascending, WrittenInOrder, [Next]_vars PROVE WrittenInOrder'
    OBVIOUS
  <2>1. CASE db' = db
    BY <2>1 DEF WrittenInOrder
  <2>2. CASE work \in Units /\ db' = Append(db, work)
    <3>1. db \in Seq(Units) /\ Len(db) \in Nat /\ DOMAIN db = 1..Len(db)
      BY LenProperties, TypeParts DEF Sound, DatabaseTypes
    <3>2. /\ db' \in Seq(Units) /\ Len(db') = Len(db) + 1
          /\ \A i \in 1..Len(db) : db'[i] = db[i]
          /\ db'[Len(db) + 1] = work
      BY <2>2, <3>1, AppendProperties
    <3>3. DOMAIN db' = 1..Len(db) + 1
      BY <3>2, LenProperties
    <3>4. \A i \in DOMAIN db : db[i] <= work
      BY <2>2 DEF Ascending
    <3>5. work <= work
      BY <2>2, WorkKinds
    <3> QED BY <3>1, <3>2, <3>3, <3>4, <3>5 DEF WrittenInOrder
  <2>3. CASE UNCHANGED vars
    BY <2>1, <2>3 DEF vars, server
  <2> QED BY <2>1, <2>2, <2>3, CommitMoves, TypeParts DEF Sound
<1>4. Init => WrittenInOrder
  BY EmptySeq DEF Init, WrittenInOrder
<1> QED BY <1>1, <1>2, <1>3, <1>4, AlwaysSound, PTL DEF Spec
===============================================================================
