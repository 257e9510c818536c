------------------------ MODULE BlockPipelineProofs ------------------------
(***************************************************************************)
(* What holds of BlockPipeline for every number of workers, every channel  *)
(* capacity, every set of slots and every choice of faults.                *)
(***************************************************************************)
EXTENDS BlockPipeline, TLAPS

-----------------------------------------------------------------------------
(* The block table and the channels.                                       *)

\* Insert yields a table.
LEMMA InsertType ==
  ASSUME NEW table \in Tables, NEW s \in Slots, NEW v \in Verdicts
  PROVE  Insert(table, s, v) \in Tables
BY DEF Insert, Tables, HasRow, Statuses, Verdicts, Absent

\* Insert gives a row to a slot without one and leaves every other slot alone.
LEMMA InsertEffect ==
  ASSUME NEW table \in Tables, NEW s \in Slots, NEW v \in Verdicts,
         NEW t \in Slots
  PROVE  /\ HasRow(Insert(table, s, v), s)
         /\ HasRow(table, t) =>
              /\ Insert(table, s, v).status[t] = table.status[t]
              /\ Insert(table, s, v).id[t] = table.id[t]
         /\ t # s => Insert(table, s, v).status[t] = table.status[t]
         /\ Insert(table, s, v).status[s] \in {table.status[s], v}
BY DEF Insert, Tables, HasRow, Statuses, Verdicts, Absent, BlockProcessed,
       BlockFailed, BlockSkipped

\* The recovery query returns failed slots only.
LEMMA FindProcessingSlotsType ==
  ASSUME NEW table, NEW from, NEW limit
  PROVE  FindProcessingSlots(table, from, limit) \subseteq FailedSlots(table)
BY DEF FindProcessingSlots

\* The elements of a channel after a send.
LEMMA ElementsAppend ==
  ASSUME NEW S, NEW q \in Seq(S), NEW x \in S
  PROVE  /\ Append(q, x) \in Seq(S) /\ Len(Append(q, x)) = Len(q) + 1
         /\ Elements(Append(q, x)) = Elements(q) \cup {x}
<1>1. /\ Append(q, x) \in Seq(S) /\ Len(Append(q, x)) = Len(q) + 1
      /\ Len(q) \in Nat /\ Append(q, x)[Len(q) + 1] = x
      /\ \A i \in 1 .. Len(q) : Append(q, x)[i] = q[i]
  OBVIOUS
<1>2. \A y : y \in Elements(Append(q, x)) <=> y \in Elements(q) \/ y = x
  BY <1>1 DEF Elements
<1>3. QED BY <1>1, <1>2

\* The elements of a channel before and after a receive.
LEMMA ElementsTail ==
  ASSUME NEW S, NEW q \in Seq(S), q # <<>>
  PROVE  /\ Head(q) \in S /\ Tail(q) \in Seq(S) /\ Len(Tail(q)) = Len(q) - 1
         /\ Elements(q) = Elements(Tail(q)) \cup {Head(q)}
<1>1. /\ Head(q) \in S /\ Tail(q) \in Seq(S) /\ Len(Tail(q)) = Len(q) - 1
      /\ Len(q) \in Nat \ {0} /\ Head(q) = q[1]
      /\ \A i \in 1 .. Len(q) - 1 : Tail(q)[i] = q[i + 1]
  OBVIOUS
<1>2. \A y : y \in Elements(q) => y \in Elements(Tail(q)) \/ y = Head(q)
  <2>1. SUFFICES ASSUME NEW i \in 1 .. Len(q), q[i] # Head(q)
                 PROVE  q[i] \in Elements(Tail(q))
    BY DEF Elements
  <2>2. i - 1 \in 1 .. Len(Tail(q)) /\ Tail(q)[i - 1] = q[i]
    BY <1>1, <2>1
  <2>3. QED BY <2>2 DEF Elements
<1>3. \A y : y \in Elements(Tail(q)) \/ y = Head(q) => y \in Elements(q)
  <2>1. Head(q) \in Elements(q)
    BY <1>1 DEF Elements
  <2>2. ASSUME NEW i \in 1 .. Len(Tail(q)) PROVE Tail(q)[i] \in Elements(q)
    <3>1. i + 1 \in 1 .. Len(q) /\ Tail(q)[i] = q[i + 1]
      BY <1>1
    <3>2. QED BY <3>1 DEF Elements
  <2>3. QED BY <2>1, <2>2 DEF Elements
<1>4. QED BY <1>1, <1>2, <1>3

-----------------------------------------------------------------------------
(* Type correctness.                                                       *)

LEMMA InitType == Init => TypeOK
<1> SUFFICES ASSUME Init PROVE TypeOK
  OBVIOUS
<1> USE DEF Init
<1>1. DbTypeOK
  BY DEF DbTypeOK, EmptyTable, Tables, Statuses, Branches
<1>2. ChannelsTypeOK
  BY BoundsAssumption DEF ChannelsTypeOK
<1>3. ReaderTypeOK /\ RecoveryTypeOK
  BY DEF ReaderTypeOK, RecoveryTypeOK, ReadStates, RecStates
<1>4. WorkersTypeOK
  BY BoundsAssumption
     DEF WorkersTypeOK, PcStates, Verdicts, Branches, Busy
<1>5. ContextTypeOK /\ HistoryTypeOK
  BY DEF ContextTypeOK, HistoryTypeOK
<1>6. QED BY <1>1, <1>2, <1>3, <1>4, <1>5 DEF TypeOK

\* What the process holds are slots.
LEMMA InFlightType == TypeOK => InFlight \subseteq Slots
<1> SUFFICES ASSUME TypeOK PROVE InFlight \subseteq Slots
  OBVIOUS
<1>1. Elements(realtimeChannel) \subseteq Slots
  BY DEF TypeOK, ChannelsTypeOK, Elements
<1>2. Elements(errChannel) \subseteq Slots
  BY DEF TypeOK, ChannelsTypeOK, Elements
<1>3. {s \in {readerSlot} : readerPc = "send"} \subseteq Slots
  BY DEF TypeOK, ReaderTypeOK
<1>4. {job[w] : w \in {v \in Workers : Busy(v)}} \subseteq Slots
  BY DEF TypeOK, WorkersTypeOK
<1>5. QED BY <1>1, <1>2, <1>3, <1>4 DEF InFlight

\* What a worker does when ProcessBlock ends.
LEMMA FinishType ==
  ASSUME TypeOK, NEW w \in Workers, Finish(w)
  PROVE  WorkersTypeOK'
BY BoundsAssumption
   DEF TypeOK, WorkersTypeOK, Finish, PcStates, Verdicts, Branches, Busy

LEMMA NextType == TypeOK /\ [Next]_vars => TypeOK'
<1> SUFFICES ASSUME TypeOK, [Next]_vars PROVE TypeOK'
  OBVIOUS
<1> USE DEF TypeOK, DbTypeOK, ChannelsTypeOK, ReaderTypeOK, RecoveryTypeOK,
            ContextTypeOK, HistoryTypeOK, dbVars, readerVars, recVars, ctxVars,
            historyVars
<1>w. ASSUME UNCHANGED workerVars PROVE WorkersTypeOK'
  BY <1>w DEF workerVars, WorkersTypeOK, Busy
<1>1. CASE ReaderNext
  <2>1. CASE Connect
    BY <2>1, <1>w DEF Connect, ReaderLoop, ReadStates, RecStates
  <2>2. ASSUME NEW s \in Slots, ReadSlot(s) PROVE TypeOK'
    BY <2>2, <1>w DEF ReadSlot, ReadStates
  <2>3. CASE SendSlot
    BY <2>3, <1>w, ElementsAppend, BoundsAssumption
       DEF SendSlot, ReaderLoop, ReadStates
  <2>4. CASE ReaderStops
    BY <2>4, <1>w DEF ReaderStops, ReadStates
  <2>5. QED BY <1>1, <2>1, <2>2, <2>3, <2>4 DEF ReaderNext
<1>2. CASE RecoveryNext
  <2>1. CASE RecoveryStarts
    BY <2>1, <1>w, SlotsAssumption, BoundsAssumption
       DEF RecoveryStarts, FindFirstFailBlock, RecStates
  <2>2. CASE RecoveryChecks
    <3>1. recTodo' \subseteq Slots
      BY <2>2, FindProcessingSlotsType DEF RecoveryChecks, FailedSlots
    <3>2. RecoveryTypeOK'
      BY <2>2, <3>1 DEF RecoveryChecks, RecStates
    <3>3. QED BY <2>2, <1>w, <3>2 DEF RecoveryChecks
  <2>3. CASE RecoveryPicks
    <3>1. PICK s \in recTodo : recSlot' = s
      BY <2>3 DEF RecoveryPicks
    <3>2. RecoveryTypeOK'
      BY <2>3, <3>1 DEF RecoveryPicks, RecStates
    <3>3. QED BY <2>3, <1>w, <3>2 DEF RecoveryPicks
  <2>4. CASE RecoveryPushes
    BY <2>4, <1>w, ElementsAppend, BoundsAssumption
       DEF RecoveryPushes, RecStates
  <2>5. CASE RecoveryStops
    BY <2>5, <1>w DEF RecoveryStops, RecStates
  <2>6. QED BY <1>2, <2>1, <2>2, <2>3, <2>4, <2>5 DEF RecoveryNext
<1>3. ASSUME NEW w \in Workers, WorkerNext(w) PROVE TypeOK'
  <2>1. CASE Receive(w)
    <3>0. PICK s \in Slots : job' = [job EXCEPT ![w] = s]
      BY <2>1, ElementsTail DEF Receive
    <3>1. WorkersTypeOK'
      BY <2>1, <3>0 DEF Receive, WorkersTypeOK, PcStates, Busy
    <3>2. ChannelsTypeOK'
      <4>1. CASE w \in RealWorkers /\ realtimeChannel # <<>>
                 /\ realtimeChannel' = Tail(realtimeChannel)
                 /\ UNCHANGED errChannel
        <5>1. /\ Tail(realtimeChannel) \in Seq(Slots)
              /\ Len(Tail(realtimeChannel)) = Len(realtimeChannel) - 1
          BY <4>1, ElementsTail
        <5>2. QED BY <4>1, <5>1, BoundsAssumption
      <4>2. CASE w \in FailedWorkers /\ errChannel # <<>>
                 /\ errChannel' = Tail(errChannel)
                 /\ UNCHANGED realtimeChannel
        <5>1. /\ Tail(errChannel) \in Seq(Slots)
              /\ Len(Tail(errChannel)) = Len(errChannel) - 1
          BY <4>2, ElementsTail
        <5>2. QED BY <4>2, <5>1, BoundsAssumption
      <4>3. QED BY <2>1, <4>1, <4>2 DEF Receive
    <3>3. DbTypeOK' /\ ReaderTypeOK' /\ RecoveryTypeOK' /\ ContextTypeOK'
          /\ HistoryTypeOK'
      BY <2>1 DEF Receive
    <3>4. QED BY <3>1, <3>2, <3>3
  <2>2. CASE FetchAgain(w)
    <3>1. WorkersTypeOK'
      BY <2>2, BoundsAssumption DEF FetchAgain, WorkersTypeOK, Busy
    <3>2. QED BY <2>2, <3>1 DEF FetchAgain
  <2>3. ASSUME NEW v \in Verdicts, Fetched(w, v) PROVE TypeOK'
    <3>1. WorkersTypeOK'
      BY <2>3 DEF Fetched, WorkersTypeOK, Busy, PcStates, Branches
    <3>2. QED BY <2>3, <3>1 DEF Fetched
  <2>4. ASSUME NEW b \in Branches, NEW ok \in BOOLEAN, SaveEnds(w, b, ok)
        PROVE  TypeOK'
    <3>1. WorkersTypeOK'
      BY <2>4 DEF SaveEnds, WorkersTypeOK, Busy
    <3>2. job[w] \in Slots
      BY <2>4 DEF SaveEnds, WorkersTypeOK, Busy
    <3>3. QED BY <2>4, <3>1, <3>2 DEF SaveEnds
  <2>5. CASE StoreBlock(w)
    <3>1. job[w] \in Slots /\ verdict[w] \in Verdicts
      BY <2>5 DEF StoreBlock, WorkersTypeOK, Busy
    <3>2. WorkersTypeOK'
      BY <2>5, FinishType DEF StoreBlock
    <3>3. block' \in Tables
      BY <2>5, <3>1, InsertType DEF StoreBlock
    <3>4. QED BY <2>5, <3>1, <3>2, <3>3 DEF StoreBlock
  <2>6. CASE Exit(w)
    <3>1. WorkersTypeOK'
      BY <2>6 DEF Exit, WorkersTypeOK, Busy, PcStates
    <3>2. QED BY <2>6, <3>1 DEF Exit
  <2>7. CASE Panic(w)
    <3>1. job[w] \in Slots
      BY <2>7 DEF Panic, WorkersTypeOK, Busy
    <3>2. WorkersTypeOK'
      BY <2>7, FinishType DEF Panic
    <3>3. QED BY <2>7, <3>1, <3>2 DEF Panic
  <2>8. QED BY <1>3, <2>1, <2>2, <2>3, <2>4, <2>5, <2>6, <2>7
            DEF WorkerNext, Work
<1>4. CASE StopSlotService
  BY <1>4, <1>w DEF StopSlotService
<1>5. ASSUME NEW w \in Workers, StopWorker(w) PROVE TypeOK'
  BY <1>5, <1>w DEF StopWorker
<1>6. CASE Restart
  <2>1. WorkersTypeOK'
    BY <1>6, BoundsAssumption
       DEF Restart, WorkersTypeOK, PcStates, Verdicts, Branches, Busy
  <2>2. InFlight \subseteq Slots
    BY InFlightType
  <2>3. ChannelsTypeOK'
    BY <1>6, BoundsAssumption DEF Restart
  <2>4. ReaderTypeOK' /\ RecoveryTypeOK'
    BY <1>6 DEF Restart, ReadStates, RecStates
  <2>5. DbTypeOK' /\ ContextTypeOK' /\ HistoryTypeOK'
    BY <1>6, <2>2 DEF Restart
  <2>6. QED BY <2>1, <2>3, <2>4, <2>5
<1>7. CASE UNCHANGED vars
  BY <1>7, <1>w DEF vars
<1>8. QED BY <1>1, <1>2, <1>3, <1>4, <1>5, <1>6, <1>7 DEF Next

\* The type invariant holds for every number of workers and every bound.
THEOREM TypeCorrect == Spec => []TypeOK
BY InitType, NextType, PTL DEF Spec

-----------------------------------------------------------------------------
(* The first row of a slot stays.                                          *)

\* The only step that changes the table is the insert at the end of a worker.
LEMMA BlockStep ==
  ASSUME TypeOK, [Next]_vars
  PROVE  \/ UNCHANGED block
         \/ \E w \in Workers :
              /\ StoreBlock(w) /\ job[w] \in Slots /\ verdict[w] \in Verdicts
              /\ block' = Insert(block, job[w], verdict[w])
<1> USE DEF dbVars
<1>1. CASE ReaderNext
  BY <1>1 DEF ReaderNext, Connect, ReadSlot, SendSlot, ReaderStops
<1>2. CASE RecoveryNext
  BY <1>2 DEF RecoveryNext, RecoveryStarts, RecoveryChecks, RecoveryPicks,
              RecoveryPushes, RecoveryStops
<1>3. ASSUME NEW w \in Workers, WorkerNext(w)
      PROVE  UNCHANGED block \/ StoreBlock(w)
  BY <1>3 DEF WorkerNext, Work, Receive, FetchAgain, Fetched, SaveEnds, Exit,
              Panic
<1>4. ASSUME NEW w \in Workers, StoreBlock(w)
      PROVE  /\ job[w] \in Slots /\ verdict[w] \in Verdicts
             /\ UNCHANGED block \/ block' = Insert(block, job[w], verdict[w])
  BY <1>4 DEF StoreBlock, TypeOK, WorkersTypeOK, Busy
<1>5. CASE StopSlotService
  BY <1>5 DEF StopSlotService
<1>6. ASSUME NEW w \in Workers, StopWorker(w) PROVE UNCHANGED block
  BY <1>6 DEF StopWorker
<1>7. CASE Restart
  BY <1>7 DEF Restart
<1>8. CASE UNCHANGED vars
  BY <1>8 DEF vars
<1>9. QED BY <1>1, <1>2, <1>3, <1>4, <1>5, <1>6, <1>7, <1>8 DEF Next

\* A row that exists is neither changed nor removed.
LEMMA RowsStay ==
  ASSUME TypeOK, [Next]_vars, NEW s \in Slots, HasRow(block, s)
  PROVE  block'.status[s] = block.status[s] /\ block'.id[s] = block.id[s]
<1>1. CASE UNCHANGED block
  BY <1>1
<1>2. ASSUME NEW w \in Workers, job[w] \in Slots, verdict[w] \in Verdicts,
             block' = Insert(block, job[w], verdict[w])
      PROVE  block'.status[s] = block.status[s] /\ block'.id[s] = block.id[s]
  BY <1>2, InsertEffect DEF TypeOK, DbTypeOK
<1>3. QED BY <1>1, <1>2, BlockStep

\* However many workers race for a slot, its first row stays.
THEOREM FirstRowTheorem == Spec => FirstRowStays
<1>1. TypeOK /\ [Next]_vars =>
        [\A s \in Slots : HasRow(block, s) =>
           block'.status[s] = block.status[s] /\ block'.id[s] = block.id[s]]_vars
  BY RowsStay
<1>2. QED BY <1>1, TypeCorrect, PTL DEF Spec, FirstRowStays

-----------------------------------------------------------------------------
(* The recovery path carries failed slots only.                            *)

LEMMA FailedStays ==
  ASSUME TypeOK, [Next]_vars
  PROVE  FailedSlots(block) \subseteq FailedSlots(block')
BY RowsStay DEF FailedSlots, HasRow, BlockFailed, Absent

\* A step adds nothing but failed slots to the recovery path.
LEMMA RecoveryPathStep ==
  ASSUME TypeOK, [Next]_vars
  PROVE  OnRecoveryPath' \subseteq OnRecoveryPath \cup FailedSlots(block)
<1> DEFINE Retrying == {job[w] : w \in {v \in FailedWorkers : Busy(v)}}
<1> USE DEF recVars, OnRecoveryPath
<1>1. CASE UNCHANGED <<recTodo, errChannel, pc, job>>
  BY <1>1 DEF Busy
<1>2. CASE ReaderNext
  BY <1>1, <1>2 DEF ReaderNext, Connect, ReadSlot, SendSlot, ReaderStops,
                    workerVars
<1>3. CASE RecoveryNext
  <2>1. Retrying' = Retrying
    BY <1>3 DEF RecoveryNext, RecoveryStarts, RecoveryChecks, RecoveryPicks,
                RecoveryPushes, RecoveryStops, workerVars, Busy
  <2>2. CASE RecoveryPushes
    <3>1. recSlot \in recTodo
      BY <2>2 DEF RecoveryPushes, TypeOK, RecoveryTypeOK
    <3>2. Elements(errChannel') = Elements(errChannel) \cup {recSlot}
      BY <2>2, <3>1, ElementsAppend
         DEF RecoveryPushes, TypeOK, RecoveryTypeOK, ChannelsTypeOK
    <3>3. QED BY <2>1, <2>2, <3>1, <3>2 DEF RecoveryPushes, Elements
  <2>3. CASE RecoveryChecks
    BY <2>1, <2>3, FindProcessingSlotsType DEF RecoveryChecks, Elements
  <2>4. CASE RecoveryStarts \/ RecoveryPicks \/ RecoveryStops
    BY <2>1, <2>4
       DEF RecoveryStarts, RecoveryPicks, RecoveryStops, Elements
  <2>5. QED BY <1>3, <2>2, <2>3, <2>4 DEF RecoveryNext
<1>4. ASSUME NEW w \in Workers, WorkerNext(w)
      PROVE  OnRecoveryPath' \subseteq OnRecoveryPath \cup FailedSlots(block)
  <2>2. ASSUME \A v \in FailedWorkers : Busy(v)' => Busy(v) /\ job'[v] = job[v],
               UNCHANGED <<recTodo, errChannel>>
        PROVE  OnRecoveryPath' \subseteq OnRecoveryPath
    <3>1. Retrying' \subseteq Retrying
      BY <2>2
    <3>2. QED BY <2>2, <3>1 DEF Elements
  <2>1. CASE Receive(w)
    <3>1. CASE w \in RealWorkers
      <4>1. \A v \in FailedWorkers : pc'[v] = pc[v] /\ job'[v] = job[v]
        BY <2>1, <3>1, WorkersAssumption
           DEF Receive, TypeOK, WorkersTypeOK, Workers
      <4>2. UNCHANGED <<recTodo, errChannel>>
        BY <2>1, <3>1, WorkersAssumption DEF Receive
      <4>3. QED BY <2>2, <4>1, <4>2 DEF Busy
    <3>2. CASE w \in FailedWorkers
      <4>1. /\ errChannel # <<>> /\ job' = [job EXCEPT ![w] = Head(errChannel)]
            /\ errChannel' = Tail(errChannel)
        BY <2>1, <3>2, WorkersAssumption DEF Receive
      <4>2. Elements(errChannel) = Elements(errChannel') \cup {Head(errChannel)}
        BY <4>1, ElementsTail DEF TypeOK, ChannelsTypeOK
      <4>3. Retrying' \subseteq Retrying \cup {Head(errChannel)}
        BY <2>1, <4>1 DEF Receive, Busy, TypeOK, WorkersTypeOK, Workers
      <4>4. QED BY <2>1, <4>2, <4>3 DEF Receive
    <3>3. QED BY <3>1, <3>2 DEF Workers
  <2>3. CASE FetchAgain(w)
    BY <1>1, <2>3 DEF FetchAgain
  <2>4. ASSUME NEW v \in Verdicts, Fetched(w, v)
        PROVE  OnRecoveryPath' \subseteq OnRecoveryPath
    BY <2>2, <2>4 DEF Fetched, Busy, TypeOK, WorkersTypeOK, Workers
  <2>5. ASSUME NEW b \in Branches, NEW ok \in BOOLEAN, SaveEnds(w, b, ok)
        PROVE  OnRecoveryPath' \subseteq OnRecoveryPath \cup FailedSlots(block)
    BY <1>1, <2>5 DEF SaveEnds
  <2>6. CASE StoreBlock(w) \/ Panic(w)
    BY <2>2, <2>6
       DEF StoreBlock, Panic, Finish, Busy, TypeOK, WorkersTypeOK, Workers
  <2>7. CASE Exit(w)
    BY <2>2, <2>7 DEF Exit, Busy, TypeOK, WorkersTypeOK, Workers
  <2>8. QED BY <1>4, <2>1, <2>3, <2>4, <2>5, <2>6, <2>7 DEF WorkerNext, Work
<1>5. CASE StopSlotService
  BY <1>1, <1>5 DEF StopSlotService, workerVars
<1>6. ASSUME NEW w \in Workers, StopWorker(w)
      PROVE  OnRecoveryPath' \subseteq OnRecoveryPath \cup FailedSlots(block)
  BY <1>1, <1>6 DEF StopWorker, workerVars
<1>7. CASE Restart
  BY <1>7 DEF Restart, Busy, Elements, Workers
<1>8. CASE UNCHANGED vars
  BY <1>1, <1>8 DEF vars, workerVars
<1>9. QED BY <1>2, <1>3, <1>4, <1>5, <1>6, <1>7, <1>8 DEF Next

\* The list RecoverFailedBlock walks, its channel and the block-failed workers
\* hold slots of failed rows only, also when the list is old.
THEOREM RetriedSlotsFailedTheorem == Spec => []RetriedSlotsFailed
<1>1. Init => RetriedSlotsFailed
  BY DEF Init, RetriedSlotsFailed, OnRecoveryPath, Elements, Busy, Workers
<1>2. TypeOK /\ RetriedSlotsFailed /\ [Next]_vars => RetriedSlotsFailed'
  BY RecoveryPathStep, FailedStays DEF RetriedSlotsFailed
<1>3. QED BY <1>1, <1>2, TypeCorrect, PTL DEF Spec

-----------------------------------------------------------------------------
(* A row that says processed was saved.                                    *)

SavedInv == ProcessedWasSaved /\ EndedWasSaved

LEMMA SavedInit == Init => SavedInv
BY DEF Init, SavedInv, ProcessedWasSaved, EndedWasSaved, EmptyTable, Absent,
       BlockProcessed

\* What is saved or logged stays so.
LEMMA SavedGrows ==
  ASSUME TypeOK, [Next]_vars
  PROVE  /\ swallowed \subseteq swallowed'
         /\ \A s \in Slots : saved[s] \subseteq saved'[s]
<1> USE DEF dbVars, historyVars
<1>1. CASE ReaderNext
  BY <1>1 DEF ReaderNext, Connect, ReadSlot, SendSlot, ReaderStops
<1>2. CASE RecoveryNext
  BY <1>2 DEF RecoveryNext, RecoveryStarts, RecoveryChecks, RecoveryPicks,
              RecoveryPushes, RecoveryStops
<1>3. ASSUME NEW w \in Workers, WorkerNext(w)
      PROVE  \/ UNCHANGED <<saved, swallowed>>
             \/ \E b \in Branches, ok \in BOOLEAN : SaveEnds(w, b, ok)
  BY <1>3 DEF WorkerNext, Work, Receive, FetchAgain, Fetched, StoreBlock, Exit,
              Panic
<1>4. ASSUME NEW w \in Workers, NEW b \in Branches, NEW ok \in BOOLEAN,
             SaveEnds(w, b, ok)
      PROVE  /\ swallowed \subseteq swallowed'
             /\ \A s \in Slots : saved[s] \subseteq saved'[s]
  BY <1>4 DEF SaveEnds, TypeOK, DbTypeOK
<1>5. CASE StopSlotService
  BY <1>5 DEF StopSlotService
<1>6. ASSUME NEW w \in Workers, StopWorker(w)
      PROVE  UNCHANGED <<saved, swallowed>>
  BY <1>6 DEF StopWorker
<1>7. CASE Restart
  BY <1>7 DEF Restart
<1>8. CASE UNCHANGED vars
  BY <1>8 DEF vars
<1>9. QED BY <1>1, <1>2, <1>3, <1>4, <1>5, <1>6, <1>7, <1>8 DEF Next

\* The step of one worker keeps what its goroutines have ended.
LEMMA EndedStep ==
  ASSUME TypeOK, EndedWasSaved, NEW w \in Workers, WorkerNext(w)
  PROVE  EndedWasSaved'
<1> USE DEF TypeOK, WorkersTypeOK, DbTypeOK, EndedWasSaved, dbVars, historyVars
<1>1. CASE Receive(w)
  BY <1>1 DEF Receive
<1>2. CASE FetchAgain(w)
  BY <1>2 DEF FetchAgain
<1>3. ASSUME NEW v \in Verdicts, Fetched(w, v) PROVE EndedWasSaved'
  BY <1>3 DEF Fetched
<1>4. ASSUME NEW b \in Branches, NEW ok \in BOOLEAN, SaveEnds(w, b, ok)
      PROVE  EndedWasSaved'
  <2>1. job[w] \in Slots
    BY <1>4 DEF SaveEnds, Busy
  <2>2. ASSUME NEW u \in Workers, pc'[u] = "insert", verdict'[u] = BlockProcessed
        PROVE  \/ Branches \ running'[u] \subseteq saved'[job'[u]]
               \/ job'[u] \in swallowed'
    <3>1. /\ pc[u] = "insert" /\ verdict[u] = BlockProcessed
          /\ job'[u] = job[u] /\ job[u] \in Slots
      BY <1>4, <2>2 DEF SaveEnds, Busy
    <3>2. CASE u # w
      <4>1. running'[u] = running[u]
        BY <1>4, <3>2 DEF SaveEnds
      <4>2. saved[job[u]] \subseteq saved'[job[u]] /\ swallowed \subseteq swallowed'
        BY <1>4, <3>1 DEF SaveEnds
      <4>3. QED BY <3>1, <4>1, <4>2
    <3>3. CASE u = w
      <4>1. CASE ok
        <5>1. saved'[job[w]] = saved[job[w]] \cup {b} /\ swallowed' = swallowed
          BY <1>4, <2>1, <4>1 DEF SaveEnds
        <5>2. running'[w] = running[w] \ {b}
          BY <1>4 DEF SaveEnds
        <5>3. QED BY <3>1, <3>3, <5>1, <5>2
      <4>2. CASE ~ok
        BY <1>4, <3>1, <3>3, <4>2 DEF SaveEnds
      <4>3. QED BY <4>1, <4>2
    <3>4. QED BY <3>2, <3>3
  <2>3. QED BY <2>2
<1>5. CASE StoreBlock(w)
  BY <1>5 DEF StoreBlock, Finish
<1>6. CASE Exit(w)
  BY <1>6 DEF Exit
<1>7. CASE Panic(w)
  BY <1>7 DEF Panic, Finish
<1>8. QED BY <1>1, <1>2, <1>3, <1>4, <1>5, <1>6, <1>7 DEF WorkerNext, Work

LEMMA SavedStep ==
  ASSUME TypeOK, SavedInv, [Next]_vars
  PROVE  SavedInv'
<1>1. ProcessedWasSaved'
  <2>1. SUFFICES ASSUME NEW s \in Slots, block'.status[s] = BlockProcessed
                 PROVE  saved'[s] = Branches \/ s \in swallowed'
    BY DEF ProcessedWasSaved
  <2>2. saved[s] = Branches \/ s \in swallowed
    <3>1. CASE block.status[s] = BlockProcessed
      BY <3>1 DEF SavedInv, ProcessedWasSaved
    <3>2. CASE block.status[s] # BlockProcessed
      <4>1. PICK w \in Workers :
              /\ StoreBlock(w) /\ job[w] \in Slots /\ verdict[w] \in Verdicts
              /\ block' = Insert(block, job[w], verdict[w])
        BY <2>1, <3>2, BlockStep
      <4>2. job[w] = s /\ verdict[w] = BlockProcessed
        BY <2>1, <3>2, <4>1, InsertEffect DEF TypeOK, DbTypeOK
      <4>3. pc[w] = "insert" /\ running[w] = {}
        BY <4>1 DEF StoreBlock
      <4>4. saved[s] \subseteq Branches
        BY DEF TypeOK, DbTypeOK
      <4>5. QED BY <4>2, <4>3, <4>4 DEF SavedInv, EndedWasSaved
    <3>3. QED BY <3>1, <3>2
  <2>3. saved'[s] \subseteq Branches
    BY NextType DEF TypeOK, DbTypeOK
  <2>4. QED BY <2>2, <2>3, SavedGrows
<1>2. EndedWasSaved'
  <2>1. CASE UNCHANGED <<workerVars, saved, swallowed>>
    BY <2>1 DEF SavedInv, EndedWasSaved, workerVars
  <2> USE DEF dbVars, historyVars
  <2>2. CASE ReaderNext
    BY <2>1, <2>2 DEF ReaderNext, Connect, ReadSlot, SendSlot, ReaderStops
  <2>3. CASE RecoveryNext
    BY <2>1, <2>3 DEF RecoveryNext, RecoveryStarts, RecoveryChecks,
                      RecoveryPicks, RecoveryPushes, RecoveryStops
  <2>4. ASSUME NEW w \in Workers, WorkerNext(w) PROVE EndedWasSaved'
    BY <2>4, EndedStep DEF SavedInv
  <2>5. CASE StopSlotService
    BY <2>1, <2>5 DEF StopSlotService
  <2>6. ASSUME NEW w \in Workers, StopWorker(w) PROVE EndedWasSaved'
    BY <2>1, <2>6 DEF StopWorker
  <2>7. CASE Restart
    BY <2>7 DEF Restart, EndedWasSaved
  <2>8. CASE UNCHANGED vars
    BY <2>1, <2>8 DEF vars
  <2>9. QED BY <2>2, <2>3, <2>4, <2>5, <2>6, <2>7, <2>8 DEF Next
<1>3. QED BY <1>1, <1>2 DEF SavedInv

\* The row of a block follows its writes: none that says processed is stored
\* while a goroutine of ProcessBlock still writes, whatever fails or restarts.
THEOREM ProcessedWasSavedTheorem == Spec => []ProcessedWasSaved
<1>1. SavedInv => ProcessedWasSaved
  BY DEF SavedInv
<1>2. QED BY <1>1, SavedInit, SavedStep, TypeCorrect, PTL DEF Spec

-----------------------------------------------------------------------------
(* The pipeline implements SlotLedger.                                     *)

\* The slots the workers hold, and the reader.
Held    == {job[w] : w \in {v \in Workers : Busy(v)}}
Sending == {s \in {readerSlot} : readerPc = "send"}

LEMMA InFlightParts ==
  InFlight = Elements(realtimeChannel) \cup Elements(errChannel) \cup Sending \cup Held
BY DEF InFlight, Held, Sending

LEMMA SameInFlight ==
  ASSUME UNCHANGED <<realtimeChannel, errChannel>>, Sending' = Sending, Held' = Held
  PROVE  InFlight' = InFlight
BY DEF InFlight, Held, Sending, Elements

\* Workers that hold what they held.
LEMMA SameHeld ==
  ASSUME \A v \in Workers : (Busy(v)' <=> Busy(v)) /\ (Busy(v) => job'[v] = job[v])
  PROVE  Held' = Held
BY DEF Held

\* A worker that is done with its slot; another may hold the same one.
LEMMA WorkerReleases ==
  ASSUME TypeOK, NEW w \in Workers, Busy(w), Finish(w),
         UNCHANGED <<readerVars, realtimeChannel, errChannel>>
  PROVE  /\ job[w] \in Slots /\ job[w] \in InFlight
         /\ InFlight' \in {InFlight, InFlight \ {job[w]}}
<1>1. job[w] \in Slots /\ job[w] \in Held
  BY DEF TypeOK, WorkersTypeOK, Held
<1>2. /\ ~Busy(w)'
      /\ \A v \in Workers : v # w => (Busy(v)' <=> Busy(v)) /\ job'[v] = job[v]
  BY DEF Finish, Busy, TypeOK, WorkersTypeOK
<1>3. Held' \subseteq Held /\ Held \subseteq Held' \cup {job[w]}
  BY <1>2 DEF Held
<1>4. /\ InFlight' \subseteq InFlight
      /\ InFlight \subseteq InFlight' \cup {job[w]}
  BY <1>3 DEF InFlight, Held, Sending, Elements, readerVars
<1>5. CASE job[w] \in InFlight'
  BY <1>1, <1>4, <1>5, InFlightParts
<1>6. CASE job[w] \notin InFlight'
  <2>1. InFlight' = InFlight \ {job[w]}
    BY <1>4, <1>6
  <2>2. QED BY <1>1, <2>1, InFlightParts
<1>7. QED BY <1>5, <1>6

\* The ledger's names for what a row says.
LEMMA LedgerNames == Ledger!Absent = Absent /\ Ledger!Verdicts = Verdicts
BY DEF Ledger!Absent, Absent, Ledger!Verdicts, Verdicts, Ledger!BlockProcessed,
       BlockProcessed, Ledger!BlockFailed, BlockFailed, Ledger!BlockSkipped, BlockSkipped

LedgerStutters == UNCHANGED <<InFlight, block.status, dropped>>

\* The reader owes what it reads.
LEMMA ReaderLedger ==
  ASSUME TypeOK, ReaderNext
  PROVE  LedgerStutters \/ \E s \in Slots : Ledger!Owe(s)
<1> USE DEF dbVars, historyVars, LedgerStutters
<1>1. Held' = Held /\ UNCHANGED <<block, dropped, errChannel>>
  BY DEF ReaderNext, Connect, ReadSlot, SendSlot, ReaderStops, workerVars, Held, Busy
<1>2. CASE Connect \/ ReaderStops
  <2>1. Sending = {} /\ Sending' = {} /\ UNCHANGED realtimeChannel
    BY <1>2 DEF Connect, ReaderStops, ReaderLoop, Sending
  <2>2. QED BY <1>1, <2>1, SameInFlight
<1>3. ASSUME NEW s \in Slots, ReadSlot(s) PROVE Ledger!Owe(s)
  <2>1. Sending = {} /\ Sending' = {s} /\ UNCHANGED realtimeChannel
    BY <1>3 DEF ReadSlot, Sending
  <2>2. InFlight' = InFlight \cup {s}
    BY <1>1, <2>1 DEF InFlight, Held, Sending, Elements
  <2>3. QED BY <1>1, <2>2 DEF Ledger!Owe
<1>4. CASE SendSlot
  <2>1. Sending = {readerSlot} /\ Sending' = {}
    BY <1>4 DEF SendSlot, ReaderLoop, Sending
  <2>2. Elements(realtimeChannel') = Elements(realtimeChannel) \cup {readerSlot}
    BY <1>4, ElementsAppend DEF SendSlot, TypeOK, ReaderTypeOK, ChannelsTypeOK
  <2>3. InFlight' = InFlight
    BY <1>1, <2>1, <2>2 DEF InFlight, Held, Sending, Elements
  <2>4. QED BY <1>1, <2>3
<1>5. QED BY <1>2, <1>3, <1>4 DEF ReaderNext

\* The recovery owes what it pushes.
LEMMA RecoveryLedger ==
  ASSUME TypeOK, RecoveryNext
  PROVE  LedgerStutters \/ \E s \in Slots : Ledger!Owe(s)
<1> USE DEF dbVars, historyVars, LedgerStutters
<1>1. Held' = Held /\ Sending' = Sending /\ UNCHANGED <<block, dropped, realtimeChannel>>
  BY DEF RecoveryNext, RecoveryStarts, RecoveryChecks, RecoveryPicks, RecoveryPushes,
         RecoveryStops, workerVars, readerVars, Held, Busy, Sending
<1>2. CASE RecoveryPushes
  <2>1. recSlot \in Slots
    BY <1>2 DEF RecoveryPushes, TypeOK, RecoveryTypeOK
  <2>2. Elements(errChannel') = Elements(errChannel) \cup {recSlot}
    BY <1>2, <2>1, ElementsAppend DEF RecoveryPushes, TypeOK, ChannelsTypeOK
  <2>3. InFlight' = InFlight \cup {recSlot}
    BY <1>1, <2>2 DEF InFlight, Held, Sending, Elements
  <2>4. QED BY <1>1, <2>1, <2>3 DEF Ledger!Owe
<1>3. CASE UNCHANGED errChannel
  BY <1>1, <1>3, SameInFlight
<1>4. QED BY <1>2, <1>3 DEF RecoveryNext, RecoveryStarts, RecoveryChecks,
            RecoveryPicks, RecoveryStops

\* A worker takes a slot out of its channel and into its hands.
LEMMA ReceiveLedger ==
  ASSUME TypeOK, NEW w \in Workers, Receive(w)
  PROVE  InFlight' = InFlight
<1>1. Sending' = Sending
  BY DEF Receive, readerVars, Sending
<1>2. ~Busy(w) /\ Busy(w)' /\ \A v \in Workers : v # w =>
        (Busy(v)' <=> Busy(v)) /\ job'[v] = job[v]
  BY DEF Receive, Busy, TypeOK, WorkersTypeOK
<1>3. Held' = Held \cup {job'[w]}
  BY <1>2 DEF Held
<1>4. CASE /\ realtimeChannel # <<>> /\ UNCHANGED errChannel
           /\ job' = [job EXCEPT ![w] = Head(realtimeChannel)]
           /\ realtimeChannel' = Tail(realtimeChannel)
  <2>1. Elements(realtimeChannel) =
          Elements(realtimeChannel') \cup {Head(realtimeChannel)}
    BY <1>4, ElementsTail DEF TypeOK, ChannelsTypeOK
  <2>2. job'[w] = Head(realtimeChannel)
    BY <1>4 DEF TypeOK, WorkersTypeOK
  <2>3. QED BY <1>1, <1>3, <1>4, <2>1, <2>2 DEF InFlight, Held, Sending, Elements
<1>5. CASE /\ errChannel # <<>> /\ UNCHANGED realtimeChannel
           /\ job' = [job EXCEPT ![w] = Head(errChannel)]
           /\ errChannel' = Tail(errChannel)
  <2>1. Elements(errChannel) = Elements(errChannel') \cup {Head(errChannel)}
    BY <1>5, ElementsTail DEF TypeOK, ChannelsTypeOK
  <2>2. job'[w] = Head(errChannel)
    BY <1>5 DEF TypeOK, WorkersTypeOK
  <2>3. QED BY <1>1, <1>3, <1>5, <2>1, <2>2 DEF InFlight, Held, Sending, Elements
<1>6. QED BY <1>4, <1>5 DEF Receive

\* A worker settles its slot, forgets it or gives it up.
LEMMA WorkerLedger ==
  ASSUME TypeOK, NEW w \in Workers, WorkerNext(w)
  PROVE  LedgerStutters \/ Ledger!LedgerNext
<1> USE DEF dbVars, historyVars, LedgerStutters
<1>1. ASSUME UNCHANGED <<realtimeChannel, errChannel, readerVars, block, dropped>>,
             \A v \in Workers : (Busy(v)' <=> Busy(v)) /\ (Busy(v) => job'[v] = job[v])
      PROVE  LedgerStutters
  <2>1. Sending' = Sending /\ Held' = Held
    BY <1>1, SameHeld DEF Sending, readerVars
  <2>2. QED BY <1>1, <2>1, SameInFlight
<1>2. CASE Receive(w)
  BY <1>2, ReceiveLedger DEF Receive
<1>3. CASE FetchAgain(w)
  BY <1>1, <1>3 DEF FetchAgain, Busy
<1>4. ASSUME NEW v \in Verdicts, Fetched(w, v) PROVE LedgerStutters
  BY <1>1, <1>4 DEF Fetched, Busy, TypeOK, WorkersTypeOK
<1>5. ASSUME NEW b \in Branches, NEW ok \in BOOLEAN, SaveEnds(w, b, ok)
      PROVE  LedgerStutters
  BY <1>1, <1>5 DEF SaveEnds, Busy
<1>6. CASE Exit(w)
  BY <1>1, <1>6 DEF Exit, Busy, TypeOK, WorkersTypeOK
<1>7. CASE Panic(w)
  <2>1. /\ job[w] \in Slots /\ job[w] \in InFlight
        /\ InFlight' \in {InFlight, InFlight \ {job[w]}}
    BY <1>7, WorkerReleases DEF Panic, Busy
  <2>2. Ledger!GiveUp({job[w]})
    BY <1>7, <2>1 DEF Panic, Ledger!GiveUp
  <2>3. QED BY <2>1, <2>2 DEF Ledger!LedgerNext
<1>8. CASE StoreBlock(w)
  <2>1. /\ job[w] \in Slots /\ job[w] \in InFlight
        /\ InFlight' \in {InFlight, InFlight \ {job[w]}}
        /\ verdict[w] \in Verdicts
    BY <1>8, WorkerReleases DEF StoreBlock, Busy, TypeOK, WorkersTypeOK
  <2>2. CASE UNCHANGED block /\ dropped' = dropped \cup {job[w]}
    <3>1. Ledger!GiveUp({job[w]})
      BY <2>1, <2>2 DEF Ledger!GiveUp
    <3>2. QED BY <2>1, <3>1 DEF Ledger!LedgerNext
  <2>3. CASE block' = Insert(block, job[w], verdict[w]) /\ UNCHANGED dropped
    <3>1. CASE HasRow(block, job[w])
      <4>1. Ledger!Forget(job[w])
        BY <2>1, <2>3, <3>1, LedgerNames DEF Ledger!Forget, Ledger!Release, Insert, HasRow
      <4>2. QED BY <2>1, <4>1, LedgerNames DEF Ledger!LedgerNext
    <3>2. CASE ~HasRow(block, job[w])
      <4>1. Ledger!Settle(job[w], verdict[w])
        BY <2>1, <2>3, <3>2, LedgerNames DEF Ledger!Settle, Ledger!Release, Insert, HasRow
      <4>2. QED BY <2>1, <4>1, LedgerNames DEF Ledger!LedgerNext
    <3>3. QED BY <3>1, <3>2
  <2>4. QED BY <1>8, <2>2, <2>3 DEF StoreBlock
<1>9. QED BY <1>2, <1>3, <1>4, <1>5, <1>6, <1>7, <1>8 DEF WorkerNext, Work

\* Every step of the pipeline is a step of the ledger or leaves it alone.
LEMMA LedgerStep ==
  ASSUME TypeOK, [Next]_vars
  PROVE  LedgerStutters \/ Ledger!LedgerNext
<1>1. CASE ReaderNext \/ RecoveryNext
  BY <1>1, ReaderLedger, RecoveryLedger DEF Ledger!LedgerNext
<1>2. ASSUME NEW w \in Workers, WorkerNext(w) PROVE LedgerStutters \/ Ledger!LedgerNext
  BY <1>2, WorkerLedger
<1>3. ASSUME UNCHANGED <<dbVars, realtimeChannel, errChannel, readerVars, workerVars,
                         historyVars>>
      PROVE  LedgerStutters
  BY <1>3 DEF LedgerStutters, InFlight, Elements, Busy, dbVars, readerVars, workerVars,
              historyVars
<1>4. CASE StopSlotService
  BY <1>3, <1>4 DEF StopSlotService
<1>5. ASSUME NEW w \in Workers, StopWorker(w) PROVE LedgerStutters
  BY <1>3, <1>5 DEF StopWorker
<1>6. CASE Restart
  <2>1. InFlight \subseteq Slots
    BY InFlightType
  <2>2. InFlight' = {}
    BY <1>6 DEF Restart, InFlight, Elements, Busy
  <2>3. Ledger!GiveUp(InFlight)
    BY <1>6, <2>2 DEF Restart, Ledger!GiveUp, dbVars
  <2>4. QED BY <2>1, <2>3 DEF Ledger!LedgerNext
<1>7. CASE UNCHANGED vars
  BY <1>3, <1>7 DEF vars
<1>8. QED BY <1>1, <1>2, <1>4, <1>5, <1>6, <1>7 DEF Next

LEMMA LedgerStarts == Init => Ledger!LedgerInit
<1> SUFFICES ASSUME Init PROVE Ledger!LedgerInit
  OBVIOUS
<1>1. InFlight = {}
  BY DEF Init, InFlight, Elements, Busy
<1>2. QED BY <1>1, LedgerNames DEF Init, Ledger!LedgerInit, EmptyTable

\* The pipeline keeps the ledger's promise for every number of workers, every
\* capacity and every fault: a slot read or retried is owed until it is settled,
\* once, found settled, or given up by a fault (ReadSlotMessage, ProcessBlock).
THEOREM KeepsLedgerTheorem == Spec => KeepsLedger
<1>1. TypeOK /\ [Next]_vars => [Ledger!LedgerNext]_(Ledger!ledgerVars)
  BY LedgerStep DEF LedgerStutters, Ledger!ledgerVars
<1>2. QED BY <1>1, LedgerStarts, TypeCorrect, PTL
         DEF Spec, KeepsLedger, Ledger!LedgerSpec

-----------------------------------------------------------------------------
(* No slot vanishes.                                                       *)

Stored == {s \in Slots : HasRow(block, s)}

LEMMA StoredGrows ==
  ASSUME TypeOK, [Next]_vars
  PROVE  Stored \subseteq Stored'
BY RowsStay DEF Stored, HasRow

\* A step keeps every slot the process holds, stores it or gives it up: each
\* step of the ledger does.
LEMMA InFlightStep ==
  ASSUME TypeOK, [Next]_vars
  PROVE  InFlight \subseteq InFlight' \cup Stored' \cup dropped'
<1> USE DEF Ledger!Release
<1>1. CASE LedgerStutters
  BY <1>1 DEF LedgerStutters
<1>2. ASSUME NEW s \in Slots, Ledger!Owe(s)
      PROVE  InFlight \subseteq InFlight' \cup Stored' \cup dropped'
  BY <1>2 DEF Ledger!Owe
<1>3. ASSUME NEW s \in Slots, Ledger!Forget(s)
      PROVE  InFlight \subseteq InFlight' \cup Stored' \cup dropped'
  BY <1>3, LedgerNames DEF Ledger!Forget, Stored, HasRow
<1>4. ASSUME NEW s \in Slots, NEW v \in Verdicts, Ledger!Settle(s, v)
      PROVE  InFlight \subseteq InFlight' \cup Stored' \cup dropped'
  <2>1. block'.status[s] = v /\ v # Absent
    BY <1>4 DEF Ledger!Settle, TypeOK, DbTypeOK, Tables, Verdicts, Absent,
                BlockProcessed, BlockFailed, BlockSkipped
  <2>2. QED BY <1>4, <2>1 DEF Ledger!Settle, Stored, HasRow
<1>5. ASSUME NEW S \in SUBSET Slots, Ledger!GiveUp(S)
      PROVE  InFlight \subseteq InFlight' \cup Stored' \cup dropped'
  BY <1>5 DEF Ledger!GiveUp
<1>6. QED BY <1>1, <1>2, <1>3, <1>4, <1>5, LedgerStep, LedgerNames DEF Ledger!LedgerNext

\* What a step announces is in flight, and what was given up stays given up.
LEMMA HistoryStep ==
  ASSUME TypeOK, [Next]_vars
  PROVE  announced' \subseteq announced \cup InFlight' /\ dropped \subseteq dropped'
<1> USE DEF historyVars
<1>1. CASE ReaderNext
  BY <1>1 DEF ReaderNext, Connect, ReadSlot, SendSlot, ReaderStops, InFlight
<1>2. CASE RecoveryNext
  BY <1>2 DEF RecoveryNext, RecoveryStarts, RecoveryChecks, RecoveryPicks,
              RecoveryPushes, RecoveryStops
<1>3. ASSUME NEW w \in Workers, WorkerNext(w)
      PROVE  announced' = announced /\ dropped \subseteq dropped'
  BY <1>3 DEF WorkerNext, Work, Receive, FetchAgain, Fetched, SaveEnds,
              StoreBlock, Exit, Panic
<1>4. CASE StopSlotService \/ Restart \/ UNCHANGED vars
  BY <1>4 DEF StopSlotService, Restart, vars
<1>5. ASSUME NEW w \in Workers, StopWorker(w)
      PROVE  announced' = announced /\ dropped \subseteq dropped'
  BY <1>5 DEF StopWorker
<1>6. QED BY <1>1, <1>2, <1>3, <1>4, <1>5 DEF Next

\* A slot the reader heard of is held, stored or was given up by a fault, for
\* every number of workers, every capacity and every combination of faults.
THEOREM NoSlotVanishesTheorem == Spec => []NoSlotVanishes
<1>1. Init => NoSlotVanishes
  BY DEF Init, NoSlotVanishes
<1>2. TypeOK /\ NoSlotVanishes /\ [Next]_vars => NoSlotVanishes'
  <2> SUFFICES ASSUME TypeOK, NoSlotVanishes, [Next]_vars PROVE NoSlotVanishes'
    OBVIOUS
  <2>1. announced \subseteq InFlight \cup Stored \cup dropped
    BY DEF NoSlotVanishes, Stored, TypeOK, HistoryTypeOK
  <2>2. announced' \subseteq InFlight' \cup Stored' \cup dropped'
    BY <2>1, InFlightStep, StoredGrows, HistoryStep
  <2>3. QED BY <2>2 DEF NoSlotVanishes, Stored
<1>3. QED BY <1>1, <1>2, TypeCorrect, PTL DEF Spec
=============================================================================
