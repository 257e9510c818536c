----------------------------- MODULE BlockTable -----------------------------
(***************************************************************************)
(* The MySQL table `block` as the consumer sees it through BlockModel: at  *)
(* most one row per slot (UNIQUE KEY slot_index, sol.sql), an              *)
(* auto-increment id, and the status the worker that inserted the row      *)
(* chose.  A table is a record of two functions on the slots, `status` and *)
(* `id`; a slot without a row has the status Absent and the id 0.          *)
(***************************************************************************)
EXTENDS Integers, FiniteSets

CONSTANT Slots      \* the slot numbers of the model; slot 0 is never stored

ASSUME SlotsAssumption == Slots \subseteq Nat \ {0}

Absent         == "absent"
BlockProcessed == "processed"
BlockFailed    == "failed"
BlockSkipped   == "skipped"

Verdicts == {BlockProcessed, BlockFailed, BlockSkipped}
Statuses == Verdicts \cup {Absent}

Tables == [status : [Slots -> Statuses], id : [Slots -> Nat], lastId : Nat]

EmptyTable == [status |-> [s \in Slots |-> Absent],
               id     |-> [s \in Slots |-> 0],
               lastId |-> 0]

HasRow(table, s) == table.status[s] # Absent

\* Mutant of Insert: an upsert on the slot, the last writer wins.
InsertOverwrites(table, s, v) ==
  [table EXCEPT !.status[s] = v, !.id[s] = table.lastId + 1,
                !.lastId = IF HasRow(table, s) THEN @ ELSE @ + 1]

(***************************************************************************)
(* Insert saves a Block whose Id is 0: gorm issues a plain INSERT.  When   *)
(* the slot has a row already the unique key refuses it ("Duplicate        *)
(* entry") and the table stays as it was.                                  *)
(***************************************************************************)
Insert(table, s, v) ==
  IF HasRow(table, s)
  THEN table
  ELSE [status |-> [table.status EXCEPT ![s] = v],
        id     |-> [table.id EXCEPT ![s] = table.lastId + 1],
        lastId |-> table.lastId + 1]

FailedSlots(table) == {s \in Slots : table.status[s] = BlockFailed}

\* s is the slot of the failed row that has the lowest id.
FindFirstFailBlock(table, s) ==
  /\ s \in FailedSlots(table)
  /\ \A t \in FailedSlots(table) : table.id[s] <= table.id[t]

\* Mutant of FindProcessingSlots: the status is not part of the query.
FindProcessingSlotsAnyStatus(table, from, limit) ==
  {s \in Slots : s >= from /\ Cardinality({t \in Slots : t > s}) < limit}

\* The `limit` newest failed slots that are not below `from`; the query's
\* "slot desc" is the order in which the caller walks the result.
FindProcessingSlots(table, from, limit) ==
  LET F == {s \in FailedSlots(table) : s >= from}
  IN  {s \in F : Cardinality({t \in F : t > s}) < limit}

\* Mutant of FindOneByNearSlot: the newest processed slot, above or below.
FindOneByNearSlotNewest(table, slot, s) ==
  LET P == {t \in Slots : table.status[t] = BlockProcessed}
  IN  s \in P /\ \A t \in P : t <= s

\* s is the nearest processed slot strictly below `slot`.
FindOneByNearSlot(table, slot, s) ==
  LET P == {t \in Slots : t < slot /\ table.status[t] = BlockProcessed}
  IN  s \in P /\ \A t \in P : t <= s
=============================================================================
