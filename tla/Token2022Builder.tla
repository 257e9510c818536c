-------------------------- MODULE Token2022Builder --------------------------
(***************************************************************************)
(* The instruction builders of the Token-2022 client.  Each is a struct of *)
(* pointers to its parameters and a slice of its accounts.  A setter lets  *)
(* the pointer point to the value just given.  Build copies the struct: a  *)
(* built instruction has its own pointers, and shares with the builder,    *)
(* and with what was built before, the array behind the slice.             *)
(*                                                                         *)
(* The builders differ in their parameters and accounts only; the lines    *)
(* given for the operations are those of TransferChecked.                  *)
(***************************************************************************)
EXTENDS Token2022Idl

CONSTANTS
  StepKinds,   \* instructions that are built setter by setter
  ParamValues, \* what tells two values of a parameter apart
  AccountKeys, \* the same of the accounts' keys
  MaxSets,     \* parameters set over the life of a builder
  MaxBuilt     \* instructions built with one builder

Kinds == DOMAIN Instructions

ASSUME BuilderAssumption ==
  StepKinds \subseteq Kinds /\ "unset" \notin AccountKeys /\ MaxSets \in Nat /\ MaxBuilt \in Nat

VARIABLES
  inst,    \* the builder: its kind, and its pointers
  slots,   \* the array of its accounts
  heap,    \* the values pointed to, by address
  built    \* the instructions built with it, oldest first

builderVars == <<inst, slots, heap, built>>

Nil   == 0        \* no address
Unset == "unset"  \* no account

Params(kind)         == Instructions[kind].params
ParamNames(kind)     == {Params(kind)[i][1] : i \in DOMAIN Params(kind)}
Position(kind, name) == CHOOSE i \in DOMAIN Params(kind) : Params(kind)[i][1] = name

NoInst == [kind |-> "none"]

BuilderInit ==
  /\ inst = NoInst /\ slots = <<>>
  /\ heap = <<>> /\ built = <<>>

\* NewTransferCheckedInstructionBuilder.
NewBuilder(kind) ==
  /\ inst = NoInst
  /\ inst' = [kind |-> kind, params |-> [name \in ParamNames(kind) |-> Nil]]
  /\ slots' = [i \in DOMAIN Instructions[kind].accounts |-> Unset]
  /\ UNCHANGED <<heap, built>>

\* NewTransferCheckedInstruction: a new builder, and every setter.
NewInstruction(kind, v, key) ==
  /\ inst = NoInst
  /\ inst' = [kind |-> kind, params |-> [name \in ParamNames(kind) |-> Position(kind, name)]]
  /\ heap' = [i \in DOMAIN Params(kind) |-> v]
  /\ slots' = [i \in DOMAIN Instructions[kind].accounts |-> key]
  /\ UNCHANGED built

IsSet == inst # NoInst

\* Mutant of SetParam: the value is written where the pointer points.
SetParamThrough(name, v) ==
  /\ IsSet /\ Len(heap) < MaxSets
  /\ IF inst.params[name] = Nil
     THEN /\ heap' = Append(heap, v)
          /\ inst' = [inst EXCEPT !.params[name] = Len(heap) + 1]
     ELSE /\ heap' = [heap EXCEPT ![inst.params[name]] = v]
          /\ UNCHANGED inst
  /\ UNCHANGED <<slots, built>>

\* SetAmount, SetDecimals: the address of the argument, which is the setter's own.
SetParam(name, v) ==
  /\ IsSet /\ Len(heap) < MaxSets
  /\ heap' = Append(heap, v)
  /\ inst' = [inst EXCEPT !.params[name] = Len(heap) + 1]
  /\ UNCHANGED <<slots, built>>

\* SetSourceAccount ... SetAuthorityAccount.
SetAccount(i, key) ==
  /\ IsSet
  /\ slots' = [slots EXCEPT ![i] = key]
  /\ UNCHANGED <<inst, heap, built>>

Validate == /\ \A name \in DOMAIN inst.params : inst.params[name] # Nil
            /\ \A i \in DOMAIN slots : slots[i] # Unset

\* What is built; `gave` remembers the values the parameters had.
Copy(validated) ==
  [kind |-> inst.kind, params |-> inst.params, validated |-> validated,
   gave |-> [name \in {p \in DOMAIN inst.params : inst.params[p] # Nil} |->
               heap[inst.params[name]]]]

BuildIt(validated) ==
  /\ IsSet /\ Len(built) < MaxBuilt
  /\ built' = Append(built, Copy(validated))
  /\ UNCHANGED <<inst, slots, heap>>

ValidateAndBuild == IsSet /\ Validate /\ BuildIt(TRUE)

BuilderNext ==
  \/ \E kind \in StepKinds : NewBuilder(kind)
  \/ \E kind \in Kinds, v \in ParamValues, key \in AccountKeys :
       NewInstruction(kind, v, key)
  \/ IsSet /\ \E name \in DOMAIN inst.params, v \in ParamValues : SetParam(name, v)
  \/ \E i \in DOMAIN slots, key \in AccountKeys : SetAccount(i, key)
  \/ BuildIt(FALSE)
  \/ ValidateAndBuild

BuilderSpec == BuilderInit /\ [][BuilderNext]_builderVars

-----------------------------------------------------------------------------
\* What was built keeps its parameters, whatever is set on the builder later,
\* and when it was validated it has all of them, with an account at every
\* position (TransferChecked.go 36-136).  The accounts themselves are not kept:
\* a later SetSourceAccount changes those of what was built before.
BuiltKeepsParams ==
  \A n \in DOMAIN built :
    LET b == built[n]
    IN /\ \A name \in DOMAIN b.gave : heap[b.params[name]] = b.gave[name]
       /\ b.validated => /\ DOMAIN b.gave = ParamNames(b.kind)
                         /\ \A i \in DOMAIN slots : slots[i] # Unset
=============================================================================
