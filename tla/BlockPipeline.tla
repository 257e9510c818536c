--------------------------- MODULE BlockPipeline ---------------------------
(***************************************************************************)
(* The consumer process: the websocket reader that feeds slotChannel, the  *)
(* "block-real" workers that consume it, the recovery goroutine that feeds *)
(* errChannel with the slots of failed rows, the "block-failed" workers    *)
(* that consume it, and the `block` table all of them share.               *)
(*                                                                         *)
(* One action is one step of one goroutine between two points at which     *)
(* another can run: a channel operation, an RPC call or a database write.  *)
(* What a worker decodes from a block is left out here; the two goroutines *)
(* of ProcessBlock that write it (trades and token accounts, pools) are    *)
(* kept as two writes that succeed or fail.                                *)
(***************************************************************************)
EXTENDS BlockTable, Sequences

CONSTANTS
  RealWorkers,    \* ConsumerConfig.Concurrency workers on slotChannel
  FailedWorkers,  \* ConsumerConfig.NotCompletedConcurrency workers on errChannel
  RealCap,        \* capacity of slotChannel (50 in main)
  ErrCap,         \* capacity of errChannel (1 in main)
  MaxRetry,       \* retries of an unavailable block or a rate limit (10)
  Margin,         \* slots below the start slot the recovery looks at (100)
  Limit,          \* rows a recovery query returns (50)
  StartBlock,     \* Sol.StartBlock; 0 asks the table for the first failed row
  Faults          \* what may go wrong in a run

Workers   == RealWorkers \cup FailedWorkers
Branches  == {"trades", "pools"}
AllFaults == {"panic", "insert", "save", "find", "shutdown", "kill"}

ASSUME WorkersAssumption == RealWorkers \cap FailedWorkers = {}
ASSUME BoundsAssumption ==
  /\ RealCap \in Nat \ {0} /\ ErrCap \in Nat \ {0}
  /\ MaxRetry \in Nat /\ Margin \in Nat /\ Limit \in Nat \ {0}
  /\ StartBlock \in Nat
ASSUME FaultsAssumption == Faults \subseteq AllFaults

VARIABLES
  block,            \* the table `block`
  saved,            \* the writes of a block that reached the database
  realtimeChannel, errChannel,
  readerPc, readerSlot,
  recPc, recFrom, recTodo, recSlot,
  pc, job, tries, verdict, running,
  slotCancelled,    \* the context of the SlotService is cancelled
  cancelled,        \* the workers whose context is cancelled
  announced,        \* history: slots read from the websocket
  dropped,          \* history: slots given up by a fault, no row written
  swallowed         \* history: slots one of whose writes failed, only logged

readerVars  == <<readerPc, readerSlot>>
recVars     == <<recPc, recFrom, recTodo, recSlot>>
workerVars  == <<pc, job, tries, verdict, running>>
dbVars      == <<block, saved>>
ctxVars     == <<slotCancelled, cancelled>>
historyVars == <<announced, dropped, swallowed>>
vars == <<dbVars, realtimeChannel, errChannel, readerVars, recVars,
          workerVars, ctxVars, historyVars>>

Init ==
  /\ block = EmptyTable /\ saved = [s \in Slots |-> {}]
  /\ realtimeChannel = <<>> /\ errChannel = <<>>
  /\ readerPc = "connect" /\ readerSlot = 0
  /\ recPc = "idle" /\ recFrom = 0 /\ recTodo = {} /\ recSlot = 0
  /\ pc = [w \in Workers |-> "select"] /\ job = [w \in Workers |-> 0]
  /\ tries = [w \in Workers |-> 0]
  /\ verdict = [w \in Workers |-> BlockFailed]
  /\ running = [w \in Workers |-> {}]
  /\ slotCancelled = FALSE /\ cancelled = {}
  /\ announced = {} /\ dropped = {} /\ swallowed = {}

-----------------------------------------------------------------------------
(* The websocket reader.                                                   *)

\* Mutant of ReaderLoop: the loop does not look at the context.
ReaderLoopOn == "read"

\* Where the reader's loop goes next: it looks at the context, then reads.
ReaderLoop == IF slotCancelled THEN "exited" ELSE "read"

\* SlotAndSlotWsService.Start: MustConnect returns, the reader goroutine is
\* started and Start goes on to the recovery.
Connect ==
  /\ readerPc = "connect"
  /\ readerPc' = ReaderLoop /\ recPc' = "start"
  /\ UNCHANGED <<readerSlot, recFrom, recTodo, recSlot, dbVars, realtimeChannel,
                 errChannel, workerVars, ctxVars, historyVars>>

\* ReadMessage returns a slot.  The feed may repeat a slot or go back.
ReadSlot(s) ==
  /\ readerPc = "read"
  /\ readerPc' = "send" /\ readerSlot' = s
  /\ announced' = announced \cup {s}
  /\ UNCHANGED <<dbVars, realtimeChannel, errChannel, recVars, workerVars,
                 ctxVars, dropped, swallowed>>

\* Mutant of SendSlot: the capacity of the channel is not respected.
SendSlotUnbounded ==
  /\ readerPc = "send"
  /\ realtimeChannel' = Append(realtimeChannel, readerSlot)
  /\ readerPc' = ReaderLoop /\ readerSlot' = 0
  /\ UNCHANGED <<dbVars, errChannel, recVars, workerVars, ctxVars, historyVars>>

\* The blocking send to slotChannel; it does not look at the context.
SendSlot ==
  /\ readerPc = "send" /\ Len(realtimeChannel) < RealCap
  /\ realtimeChannel' = Append(realtimeChannel, readerSlot)
  /\ readerPc' = ReaderLoop /\ readerSlot' = 0
  /\ UNCHANGED <<dbVars, errChannel, recVars, workerVars, ctxVars,
                 historyVars>>

\* Stop has closed the connection: ReadMessage fails and the loop ends.
ReaderStops ==
  /\ readerPc = "read" /\ slotCancelled
  /\ readerPc' = "exited"
  /\ UNCHANGED <<readerSlot, dbVars, realtimeChannel, errChannel, recVars,
                 workerVars, ctxVars, historyVars>>

-----------------------------------------------------------------------------
(* RecoverFailedBlock.                                                     *)

QueryMayFail == slotCancelled \/ "find" \in Faults

RecoveryStarts ==
  /\ recPc = "start" /\ recPc' = "wait"
  /\ \/ StartBlock # 0 /\ recFrom' = StartBlock
     \/ /\ StartBlock = 0 /\ ~slotCancelled
        /\ \E s \in Slots : FindFirstFailBlock(block, s) /\ recFrom' = s
     \/ /\ StartBlock = 0 /\ recFrom' = 0
        /\ FailedSlots(block) = {} \/ QueryMayFail
  /\ UNCHANGED <<recTodo, recSlot, dbVars, realtimeChannel, errChannel,
                 readerVars, workerVars, ctxVars, historyVars>>

\* A tick of checkTicker.  An empty result ends the goroutine, and so does an
\* error: the slice that comes with it is empty too.
RecoveryChecks ==
  /\ recPc = "wait"
  /\ \/ ~slotCancelled
        /\ recTodo' = FindProcessingSlots(block, recFrom - Margin, Limit)
     \/ QueryMayFail /\ recTodo' = {}
  /\ IF recTodo' = {} THEN recPc' = "returned" /\ recFrom' = 0
                      ELSE recPc' = "send" /\ UNCHANGED recFrom
  /\ UNCHANGED <<recSlot, dbVars, realtimeChannel, errChannel,
                 readerVars, workerVars, ctxVars, historyVars>>

\* A tick of sendTicker: the next slot of the list, newest first.
RecoveryPicks ==
  /\ recPc = "send" /\ recPc' = "push"
  /\ \E s \in recTodo : (\A t \in recTodo : t <= s) /\ recSlot' = s
  /\ UNCHANGED <<recFrom, recTodo, dbVars, realtimeChannel, errChannel,
                 readerVars, workerVars, ctxVars, historyVars>>

\* The blocking send to errChannel; it does not look at the context.
RecoveryPushes ==
  /\ recPc = "push" /\ Len(errChannel) < ErrCap
  /\ errChannel' = Append(errChannel, recSlot)
  /\ recTodo' = recTodo \ {recSlot} /\ recSlot' = 0
  /\ recPc' = IF recTodo' = {} THEN "wait" ELSE "send"
  /\ UNCHANGED <<recFrom, dbVars, realtimeChannel, readerVars,
                 workerVars, ctxVars, historyVars>>

RecoveryStops ==
  /\ recPc \in {"wait", "send"} /\ slotCancelled
  /\ recPc' = "returned" /\ recFrom' = 0 /\ recTodo' = {}
  /\ UNCHANGED <<recSlot, dbVars, realtimeChannel, errChannel,
                 readerVars, workerVars, ctxVars, historyVars>>

-----------------------------------------------------------------------------
(* A BlockService worker: GetBlockFromHttp and ProcessBlock.               *)

\* ProcessBlock returns or panics: its locals are gone, the loop selects again.
Finish(w) ==
  /\ pc' = [pc EXCEPT ![w] = "select"] /\ job' = [job EXCEPT ![w] = 0]
  /\ tries' = [tries EXCEPT ![w] = 0]
  /\ verdict' = [verdict EXCEPT ![w] = BlockFailed]
  /\ running' = [running EXCEPT ![w] = {}]

\* Mutant of Receive: main hands slotChannel to the block-failed workers too.
ReceiveOneChannel(w) ==
  /\ pc[w] = "select" /\ realtimeChannel # <<>>
  /\ job' = [job EXCEPT ![w] = Head(realtimeChannel)]
  /\ realtimeChannel' = Tail(realtimeChannel)
  /\ pc' = [pc EXCEPT ![w] = "fetch"]
  /\ UNCHANGED <<errChannel, tries, verdict, running, dbVars, readerVars, recVars,
                 ctxVars, historyVars>>

\* GetBlockFromHttp receives from the channel the worker was made with, also
\* when its context is cancelled: select then takes either case.
Receive(w) ==
  /\ pc[w] = "select"
  /\ \/ /\ w \in RealWorkers /\ realtimeChannel # <<>>
        /\ job' = [job EXCEPT ![w] = Head(realtimeChannel)]
        /\ realtimeChannel' = Tail(realtimeChannel)
        /\ UNCHANGED errChannel
     \/ /\ w \in FailedWorkers /\ errChannel # <<>>
        /\ job' = [job EXCEPT ![w] = Head(errChannel)]
        /\ errChannel' = Tail(errChannel)
        /\ UNCHANGED realtimeChannel
  /\ pc' = [pc EXCEPT ![w] = "fetch"]
  /\ UNCHANGED <<tries, verdict, running, dbVars, readerVars, recVars, ctxVars,
                 historyVars>>

\* Mutant of Exit: a worker drains its channel before it looks at the context.
ExitWhenDrained(w) ==
  /\ pc[w] = "select" /\ w \in cancelled /\ realtimeChannel = <<>>
  /\ pc' = [pc EXCEPT ![w] = "exited"]
  /\ UNCHANGED <<job, tries, verdict, running, dbVars, realtimeChannel,
                 errChannel, readerVars, recVars, ctxVars, historyVars>>

Exit(w) ==
  /\ pc[w] = "select" /\ w \in cancelled
  /\ pc' = [pc EXCEPT ![w] = "exited"]
  /\ UNCHANGED <<job, tries, verdict, running, dbVars, realtimeChannel,
                 errChannel, readerVars, recVars, ctxVars, historyVars>>

\* "Block not available" and "limit" answers are asked again MaxRetry times.
FetchAgain(w) ==
  /\ pc[w] = "fetch" /\ tries[w] < MaxRetry /\ w \notin cancelled
  /\ tries' = [tries EXCEPT ![w] = @ + 1]
  /\ UNCHANGED <<pc, job, verdict, running, dbVars, realtimeChannel, errChannel,
                 readerVars, recVars, ctxVars, historyVars>>

\* Mutant of Fetched: a block that could not be fetched returns without a row.
FetchedNoRow(w, v) ==
  /\ pc[w] = "fetch"
  /\ v # BlockFailed => w \notin cancelled
  /\ IF v = BlockFailed
     THEN Finish(w)
     ELSE /\ pc' = [pc EXCEPT ![w] = "insert"]
          /\ verdict' = [verdict EXCEPT ![w] = v]
          /\ running' = [running EXCEPT ![w] =
                           IF v = BlockProcessed THEN Branches ELSE {}]
          /\ UNCHANGED <<job, tries>>
  /\ UNCHANGED <<dbVars, realtimeChannel, errChannel, readerVars, recVars,
                 ctxVars, historyVars>>

\* Mutant of Fetched: a block that could not be fetched goes back to the channel.
FetchedRequeues(w, v) ==
  /\ pc[w] = "fetch" /\ w \notin cancelled
  /\ IF v = BlockFailed /\ Len(realtimeChannel) < RealCap
     THEN Finish(w) /\ realtimeChannel' = Append(realtimeChannel, job[w])
     ELSE /\ pc' = [pc EXCEPT ![w] = "insert"]
          /\ verdict' = [verdict EXCEPT ![w] = v]
          /\ UNCHANGED <<job, tries, running, realtimeChannel>>
  /\ UNCHANGED <<dbVars, errChannel, readerVars, recVars, ctxVars, historyVars>>

\* GetSolBlockInfo ends.  An error, the retries used up or a cancelled context
\* leave the status BlockFailed; "was skipped" makes it BlockSkipped; a block
\* makes it BlockProcessed, before any of its writes is tried.
Fetched(w, v) ==
  /\ pc[w] = "fetch"
  /\ v # BlockFailed => w \notin cancelled
  /\ pc' = [pc EXCEPT ![w] = "insert"]
  /\ verdict' = [verdict EXCEPT ![w] = v]
  /\ running' = [running EXCEPT ![w] =
                   IF v = BlockProcessed THEN Branches ELSE {}]
  /\ UNCHANGED <<job, tries, dbVars, realtimeChannel, errChannel, readerVars,
                 recVars, ctxVars, historyVars>>

\* One goroutine of the routine group ends.  Its errors are logged only.
SaveEnds(w, b, ok) ==
  /\ pc[w] = "insert" /\ b \in running[w]
  /\ IF ok THEN w \notin cancelled ELSE w \in cancelled \/ "save" \in Faults
  /\ running' = [running EXCEPT ![w] = @ \ {b}]
  /\ IF ok
     THEN /\ saved' = [saved EXCEPT ![job[w]] = @ \cup {b}]
          /\ UNCHANGED swallowed
     ELSE swallowed' = swallowed \cup {job[w]} /\ UNCHANGED saved
  /\ UNCHANGED <<pc, job, tries, verdict, block, realtimeChannel, errChannel,
                 readerVars, recVars, ctxVars, announced, dropped>>

\* Mutant of StoreBlock: the row is inserted without group.Wait.
StoreBlockNoWait(w) ==
  /\ pc[w] = "insert" /\ w \notin cancelled
  /\ block' = Insert(block, job[w], verdict[w])
  /\ Finish(w)
  /\ UNCHANGED <<dropped, saved, realtimeChannel, errChannel, readerVars, recVars,
                 ctxVars, announced, swallowed>>

\* After group.Wait the row is inserted; its error is ignored or logged.
StoreBlock(w) ==
  /\ pc[w] = "insert" /\ running[w] = {}
  /\ \/ /\ w \notin cancelled
        /\ block' = Insert(block, job[w], verdict[w])
        /\ UNCHANGED dropped
     \/ /\ w \in cancelled \/ "insert" \in Faults
        /\ dropped' = dropped \cup {job[w]}
        /\ UNCHANGED block
  /\ Finish(w)
  /\ UNCHANGED <<saved, realtimeChannel, errChannel, readerVars, recVars, ctxVars,
                 announced, swallowed>>

\* RunSafe recovers a panic of ProcessBlock (a nil block without an error, a
\* malformed transaction): the worker takes the next slot, no row is written.
Panic(w) ==
  /\ "panic" \in Faults /\ pc[w] = "fetch"
  /\ Finish(w)
  /\ dropped' = dropped \cup {job[w]}
  /\ UNCHANGED <<dbVars, realtimeChannel, errChannel, readerVars, recVars, ctxVars,
                 announced, swallowed>>

-----------------------------------------------------------------------------
(* Shutdown and restart.                                                   *)

Elements(q) == {q[i] : i \in 1 .. Len(q)}

Busy(w) == pc[w] \in {"fetch", "insert"}

\* The slots some goroutine or channel of the process holds.
InFlight ==
  Elements(realtimeChannel) \cup Elements(errChannel)
    \cup {s \in {readerSlot} : readerPc = "send"}
    \cup {job[w] : w \in {v \in Workers : Busy(v)}}

\* SlotService.Stop, or the shutdown listener of SlotWsService.Start.
StopSlotService ==
  /\ "shutdown" \in Faults /\ ~slotCancelled
  /\ slotCancelled' = TRUE
  /\ UNCHANGED <<cancelled, dbVars, realtimeChannel, errChannel, readerVars,
                 recVars, workerVars, historyVars>>

\* BlockService.Stop.
StopWorker(w) ==
  /\ "shutdown" \in Faults /\ w \notin cancelled
  /\ cancelled' = cancelled \cup {w}
  /\ UNCHANGED <<slotCancelled, dbVars, realtimeChannel, errChannel, readerVars,
                 recVars, workerVars, historyVars>>

\* The process ends, by a signal or a crash, and main runs again: channels and
\* goroutines start empty, the database keeps what it has.
Restart ==
  /\ "kill" \in Faults
  /\ dropped' = dropped \cup InFlight
  /\ realtimeChannel' = <<>> /\ errChannel' = <<>>
  /\ readerPc' = "connect" /\ readerSlot' = 0
  /\ recPc' = "idle" /\ recFrom' = 0 /\ recTodo' = {} /\ recSlot' = 0
  /\ pc' = [w \in Workers |-> "select"] /\ job' = [w \in Workers |-> 0]
  /\ tries' = [w \in Workers |-> 0]
  /\ verdict' = [w \in Workers |-> BlockFailed]
  /\ running' = [w \in Workers |-> {}]
  /\ slotCancelled' = FALSE /\ cancelled' = {}
  /\ UNCHANGED <<dbVars, announced, swallowed>>

-----------------------------------------------------------------------------
ReaderNext == Connect \/ (\E s \in Slots : ReadSlot(s)) \/ SendSlot \/ ReaderStops

RecoveryNext == \/ RecoveryStarts \/ RecoveryChecks \/ RecoveryPicks
                \/ RecoveryPushes \/ RecoveryStops

Work(w) ==
  \/ Receive(w) \/ FetchAgain(w) \/ StoreBlock(w)
  \/ \E v \in Verdicts : Fetched(w, v)
  \/ \E b \in Branches, ok \in BOOLEAN : SaveEnds(w, b, ok)

WorkerNext(w) == Work(w) \/ Exit(w) \/ Panic(w)

Next == \/ ReaderNext \/ RecoveryNext \/ (\E w \in Workers : WorkerNext(w))
        \/ StopSlotService \/ (\E w \in Workers : StopWorker(w)) \/ Restart

Spec == Init /\ [][Next]_vars

(***************************************************************************)
(* Every goroutine the Go scheduler can run does run: weak fairness for    *)
(* each of them.  Select chooses at random among its ready cases, so a     *)
(* case that is ready again and again is taken: strong fairness for Exit.  *)
(* Nothing is assumed of the feed, of which answer the RPC node gives, or  *)
(* of any fault.  Work(w) assumes that each call made for a block returns: *)
(* those to the RPC node and the database do, with an answer or an error,  *)
(* and the http.Get of a token's metadata (sol.go 255), which has no       *)
(* timeout, is taken to; TokenStore has the case that it does not.         *)
(***************************************************************************)
Fairness ==
  /\ WF_vars(Connect) /\ WF_vars(SendSlot) /\ WF_vars(ReaderStops)
  /\ WF_vars(RecoveryNext)
  /\ \A w \in Workers : WF_vars(Work(w)) /\ SF_vars(Exit(w))

FairSpec == Spec /\ Fairness
-----------------------------------------------------------------------------
(* Properties.                                                             *)

PcStates   == {"select", "fetch", "insert", "exited"}
RecStates  == {"idle", "start", "wait", "send", "push", "returned"}
ReadStates == {"connect", "read", "send", "exited"}

DbTypeOK == block \in Tables /\ saved \in [Slots -> SUBSET Branches]

ChannelsTypeOK ==
  /\ realtimeChannel \in Seq(Slots) /\ Len(realtimeChannel) <= RealCap
  /\ errChannel \in Seq(Slots) /\ Len(errChannel) <= ErrCap

ReaderTypeOK ==
  /\ readerPc \in ReadStates /\ readerSlot \in Slots \cup {0}
  /\ readerPc = "send" => readerSlot \in Slots

RecoveryTypeOK ==
  /\ recPc \in RecStates /\ recFrom \in Nat
  /\ recTodo \subseteq Slots /\ recSlot \in Slots \cup {0}
  /\ recPc \in {"send", "push"} <=> recTodo # {}
  /\ recPc = "push" => recSlot \in recTodo
  /\ recPc = "idle" <=> readerPc = "connect"

WorkersTypeOK ==
  /\ pc \in [Workers -> PcStates] /\ job \in [Workers -> Slots \cup {0}]
  /\ tries \in [Workers -> 0 .. MaxRetry] /\ verdict \in [Workers -> Verdicts]
  /\ running \in [Workers -> SUBSET Branches]
  /\ \A w \in Workers : /\ Busy(w) => job[w] \in Slots
                        /\ running[w] # {} => pc[w] = "insert"

ContextTypeOK == slotCancelled \in BOOLEAN /\ cancelled \subseteq Workers

HistoryTypeOK ==
  announced \subseteq Slots /\ dropped \subseteq Slots /\ swallowed \subseteq Slots

\* Type invariant: channels within their capacities, slots where a goroutine
\* holds one, a list to walk exactly while RecoverFailedBlock walks one, which
\* does not start before MustConnect has returned, and writes
\* under way only between the fetch of a block and the insert of its row.
TypeOK ==
  /\ DbTypeOK /\ ChannelsTypeOK /\ ReaderTypeOK /\ RecoveryTypeOK
  /\ WorkersTypeOK /\ ContextTypeOK /\ HistoryTypeOK

\* No slot the reader heard of vanishes: it is in a channel, held by a
\* goroutine, stored, or was given up by a named fault (a panic, a refused
\* write, a cancelled context, the end of the process).  Back-pressure and
\* failing fetches lose nothing (ReadSlotMessage, ProcessBlock).
NoSlotVanishes ==
  \A s \in announced : s \in InFlight \/ HasRow(block, s) \/ s \in dropped

OnRecoveryPath ==
  recTodo \cup Elements(errChannel)
    \cup {job[w] : w \in {v \in FailedWorkers : Busy(v)}}

\* Everything on the recovery path (the list RecoverFailedBlock walks, its
\* channel, the block-failed workers) is a slot whose row says failed: the
\* list cannot go stale while it is walked at one slot per tick.
RetriedSlotsFailed == OnRecoveryPath \subseteq FailedSlots(block)

\* A row says processed only after both goroutines of ProcessBlock have ended
\* for that slot: each write is in the database or its error was logged.
ProcessedWasSaved ==
  \A s \in Slots : block.status[s] = BlockProcessed =>
    saved[s] = Branches \/ s \in swallowed

\* The same while the writes are under way: what a goroutine of a worker has
\* ended is saved or logged.
EndedWasSaved ==
  \A w \in Workers :
    pc[w] = "insert" /\ verdict[w] = BlockProcessed =>
      \/ Branches \ running[w] \subseteq saved[job[w]]
      \/ job[w] \in swallowed

\* Whatever the workers do to a slot, also several at once and also after a
\* restart, its first row stays: a late failure never hides a processed block.
FirstRowStays ==
  [][\A s \in Slots : HasRow(block, s) => block'.status[s] = block.status[s]
                                          /\ block'.id[s] = block.id[s]]_vars

\* The pipeline keeps the promise of SlotLedger.
Ledger == INSTANCE SlotLedger
            WITH owed <- InFlight, status <- block.status, givenUp <- dropped
KeepsLedger == Ledger!LedgerSpec

Stopping == slotCancelled \/ cancelled # {}

\* Until somebody stops the process every slot read from the websocket gets a
\* row, or was given up by a named fault: the bounded channels, the failing
\* fetches and the slots that are repeated meanwhile delay it and no more.
AnnouncedIsStored ==
  \A s \in Slots : s \in announced ~> HasRow(block, s) \/ s \in dropped \/ Stopping

\* The recovery, whose send to errChannel looks at no context, never stays
\* blocked there while a block-failed worker runs, whatever happens to the
\* blocks it was handed before.
RecoveryUnblocks == recPc = "push" ~> recPc # "push" \/ Stopping

\* Once the slot service is stopped the reader ends, although its send looks at
\* no context and slots may still come in: as long as one worker of its channel
\* runs the send succeeds and the loop sees the context (websocket.go 48-59, 107).
ReaderExits == slotCancelled ~> readerPc = "exited" \/ RealWorkers \subseteq cancelled

\* Workers that are stopped end, also when the reader keeps filling the channel
\* or a fetch is being retried.
WorkersExit == cancelled = Workers ~> \A w \in Workers : pc[w] = "exited"

-----------------------------------------------------------------------------
(* What comments of the code say of it.                                    *)

\* block.go:295: the last step stores the block and marks its processing as
\* complete.  Stated for the workers whose purpose is to repair failed blocks:
\* when one of them has processed the block, its row says processed.
RetryCompletes ==
  [][\A w \in FailedWorkers :
       /\ pc[w] = "insert" /\ pc'[w] = "select"
       /\ verdict[w] = BlockProcessed
       => block'.status[job[w]] = BlockProcessed]_vars

\* consumer.go:56: the block-failed workers deal with the blocks that failed.
FailedIsRetried ==
  \A s \in Slots :
    block.status[s] = BlockFailed
      ~> \E w \in FailedWorkers : Busy(w) /\ job[w] = s
=============================================================================
