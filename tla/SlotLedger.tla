----------------------------- MODULE SlotLedger -----------------------------
(***************************************************************************)
(* What the consumer promises about the slots it hears of, whatever the    *)
(* number of workers and the order in which they run: a slot is owed from  *)
(* the moment it is heard; it is settled once, by a row whose status never *)
(* changes again; and it stops being owed only when it is settled or given *)
(* up by a fault.                                                          *)
(***************************************************************************)
EXTENDS BlockTable

VARIABLES owed, status, givenUp

ledgerVars == <<owed, status, givenUp>>

LedgerInit == /\ owed = {} /\ givenUp = {}
              /\ status = [s \in Slots |-> Absent]

\* A slot is heard of, again perhaps, or its failed row is to be retried.
Owe(s) == /\ owed' = owed \cup {s}
          /\ UNCHANGED <<status, givenUp>>

\* One holder of s is done with it; another may still hold it.
Release(s) == owed' \in {owed, owed \ {s}}

Settle(s, v) == /\ s \in owed /\ status[s] = Absent
                /\ status' = [status EXCEPT ![s] = v]
                /\ Release(s)
                /\ UNCHANGED givenUp

Forget(s) == /\ s \in owed /\ status[s] # Absent
             /\ Release(s)
             /\ UNCHANGED <<status, givenUp>>

GiveUp(S) == /\ S \subseteq owed
             /\ givenUp' = givenUp \cup S
             /\ owed' \in {owed, owed \ S}
             /\ UNCHANGED status

LedgerNext == \/ \E s \in Slots : Owe(s) \/ Forget(s)
              \/ \E s \in Slots, v \in Verdicts : Settle(s, v)
              \/ \E S \in SUBSET Slots : GiveUp(S)

LedgerSpec == LedgerInit /\ [][LedgerNext]_ledgerVars
=============================================================================
