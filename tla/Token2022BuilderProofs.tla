----------------------- MODULE Token2022BuilderProofs -----------------------
(***************************************************************************)
(* What was built with a builder, proved for any of the instructions, any  *)
(* values and accounts, and any number of calls of its setters and of      *)
(* Build.                                                                  *)
(***************************************************************************)
EXTENDS Token2022Builder, SequenceTheorems, TLAPS

-----------------------------------------------------------------------------
(* The parameters of an instruction are a sequence: this is a fact of the  *)
(* client's 30 layouts.                                                    *)

Names       == {"Amount", "AuthorityType", "CloseAuthority", "Decimals", "Delegate", "ExtensionTypes",
                "FreezeAuthority", "M", "MintAuthority", "NewAuthority", "Owner", "UiAmount"}
ParamTypes  == {Fixed(1), Fixed(8), Fixed(32), Vec(Fixed(1))}
ParamFields == Names \X ParamTypes

LEMMA FieldsAreFields ==
  ASSUME NEW names \in Seq(Names), NEW type \in ParamTypes
  PROVE  Fields(names, type) \in Seq(ParamFields)
<1>1. /\ Len(names) \in Nat /\ DOMAIN names = 1 .. Len(names)
      /\ \A i \in 1 .. Len(names) : names[i] \in Names
  BY LenProperties, ElementOfSeq
<1> HIDE DEF ParamTypes
<1>2. Fields(names, type) \in [1 .. Len(names) -> ParamFields]
  BY <1>1 DEF Fields, ParamFields
<1> QED
  BY <1>1, <1>2, SeqDef

LEMMA ParamsAreSequences ==
  ASSUME NEW kind \in Kinds
  PROVE  Params(kind) \in Seq(ParamFields)
<1> DEFINE Known == Seq(ParamFields)
<1>1. <<>> \in Known /\ \A p, q \in Known : p \o q \in Known
  OBVIOUS
<1>2. ASSUME NEW a \in Names
      PROVE  /\ U8(<<a>>) \in Known /\ U64(<<a>>) \in Known
             /\ Keys(<<a>>) \in Known /\ Texts(<<a>>) \in Known
             /\ Field(a, Fixed(1)) \in Known /\ Field(a, Vec(Fixed(1))) \in Known
  <2>1. <<a>> \in Seq(Names)
    OBVIOUS
  <2>2. \A type \in ParamTypes : Fields(<<a>>, type) \in Known
    BY <2>1, FieldsAreFields
  <2>3. \A type \in ParamTypes : Field(a, type) \in Known
    <3> HIDE DEF Names, ParamTypes
    <3> SUFFICES ASSUME NEW type \in ParamTypes PROVE Field(a, type) \in Known
      OBVIOUS
    <3>1. <<a, type>> \in ParamFields
      BY DEF ParamFields
    <3> QED
      BY <3>1 DEF Field
  <2> QED
    BY <2>2, <2>3 DEF U8, U64, Keys, Texts, ParamTypes
<1>3. ASSUME NEW a \in Names, NEW b \in Names PROVE Keys(<<a, b>>) \in Known
  <2>1. <<a, b>> \in Seq(Names)
    OBVIOUS
  <2> QED
    BY <2>1, FieldsAreFields DEF Keys, ParamTypes
<1> HIDE DEF Known
<1>4. /\ InitializeMint.params \in Known
      /\ InitializeAccount.params \in Known
      /\ InitializeMultisig.params \in Known
      /\ Transfer.params \in Known
      /\ Approve.params \in Known
      /\ Revoke.params \in Known
  BY <1>1, <1>2, <1>3 DEF Instr, Names, InitializeMint, InitializeAccount,
     InitializeMultisig, Transfer, Approve, Revoke
<1>5. /\ SetAuthority.params \in Known
      /\ MintTo.params \in Known
      /\ Burn.params \in Known
      /\ CloseAccount.params \in Known
      /\ FreezeAccount.params \in Known
      /\ ThawAccount.params \in Known
  BY <1>1, <1>2, <1>3 DEF Instr, Names, SetAuthority, MintTo, Burn, CloseAccount,
     FreezeAccount, ThawAccount
<1>6. /\ TransferChecked.params \in Known
      /\ ApproveChecked.params \in Known
      /\ MintToChecked.params \in Known
      /\ BurnChecked.params \in Known
      /\ InitializeAccount2.params \in Known
      /\ SyncNative.params \in Known
  BY <1>1, <1>2, <1>3 DEF Instr, Names, TransferChecked, ApproveChecked, MintToChecked,
     BurnChecked, InitializeAccount2, SyncNative
<1>7. /\ InitializeAccount3.params \in Known
      /\ InitializeMultisig2.params \in Known
      /\ InitializeMint2.params \in Known
      /\ GetAccountDataSize.params \in Known
      /\ InitializeImmutableOwner.params \in Known
      /\ AmountToUiAmount.params \in Known
  BY <1>1, <1>2, <1>3 DEF Instr, Names, InitializeAccount3, InitializeMultisig2,
     InitializeMint2, GetAccountDataSize, InitializeImmutableOwner, AmountToUiAmount
<1>8. /\ UiAmountToAmount.params \in Known
      /\ InitializeMintCloseAuthority.params \in Known
      /\ Reallocate.params \in Known
      /\ CreateNativeMint.params \in Known
      /\ InitializeNonTransferableMint.params \in Known
      /\ InitializePermanentDelegate.params \in Known
  BY <1>1, <1>2, <1>3 DEF Instr, Names, UiAmountToAmount, InitializeMintCloseAuthority,
     Reallocate, CreateNativeMint, InitializeNonTransferableMint,
     InitializePermanentDelegate
<1>9. PICK instr : instr = Instructions[kind]
  OBVIOUS
<1>10. instr \in {InitializeMint, InitializeAccount, InitializeMultisig, Transfer, Approve,
         Revoke, SetAuthority, MintTo, Burn, CloseAccount, FreezeAccount, ThawAccount,
         TransferChecked, ApproveChecked, MintToChecked, BurnChecked, InitializeAccount2,
         SyncNative, InitializeAccount3, InitializeMultisig2, InitializeMint2,
         GetAccountDataSize, InitializeImmutableOwner, AmountToUiAmount, UiAmountToAmount,
         InitializeMintCloseAuthority, Reallocate, CreateNativeMint,
         InitializeNonTransferableMint, InitializePermanentDelegate}
  BY <1>9 DEF Kinds, Instructions
<1>11. instr.params \in Known
  BY <1>4, <1>5, <1>6, <1>7, <1>8, <1>10
<1> QED
  BY <1>9, <1>11 DEF Params, Known

-----------------------------------------------------------------------------
(* What was built.                                                          *)

Addresses == 1 .. Len(heap)

\* An instruction has the parameters of its kind; a pointer is nil or an address.
IsInst(i) ==
  /\ i.kind \in Kinds
  /\ i.params \in [ParamNames(i.kind) -> Addresses \cup {Nil}]

\* A setter writes behind all addresses that were ever given to a pointer.
Builds ==
  /\ heap \in Seq(ParamValues)
  /\ IsSet => IsInst(inst)
  /\ ~IsSet => built = <<>>

\* What was built has pointers of its own, and `gave` what they point to.
Built(b) ==
  /\ IsInst(b)
  /\ b.gave = [name \in {p \in ParamNames(b.kind) : b.params[p] # Nil} |-> heap[b.params[name]]]
  /\ b.validated => /\ \A name \in ParamNames(b.kind) : b.params[name] # Nil
                    /\ \A i \in DOMAIN slots : slots[i] # Unset

BuilderInv == /\ Builds
              /\ \E T : built \in Seq(T)
              /\ \A n \in 1 .. Len(built) : Built(built[n])

LEMMA InstIsSet == IsInst(inst)' => IsSet'
<1>1. "none" \notin Kinds
  BY DEF Kinds, Instructions
<1> QED
  BY <1>1 DEF IsInst, IsSet, NoInst

\* Setters do not touch what was built.
LEMMA AppendKeeps ==
  ASSUME NEW v \in ParamValues, heap \in Seq(ParamValues), heap' = Append(heap, v)
  PROVE  /\ heap' \in Seq(ParamValues) /\ Len(heap') = Len(heap) + 1 /\ Len(heap) \in Nat
         /\ \A a \in Addresses : a \in Addresses' /\ heap'[a] = heap[a]
BY AppendProperties, LenProperties DEF Addresses

\* What was built is as it was when no address and no account is lost.
LEMMA BuiltStays ==
  ASSUME BuilderInv, built' = built,
         \A a \in Addresses : a \in Addresses' /\ heap'[a] = heap[a],
         (\A i \in DOMAIN slots : slots[i] # Unset) => \A i \in DOMAIN slots' : slots'[i] # Unset
  PROVE  \A n \in 1 .. Len(built') : Built(built[n])'
<1> SUFFICES ASSUME NEW n \in 1 .. Len(built) PROVE Built(built[n])'
  OBVIOUS
<1>1. PICK b : b = built[n]
  OBVIOUS
<1>2. Built(b)
  BY <1>1 DEF BuilderInv
<1>3. \A name \in ParamNames(b.kind) : b.params[name] # Nil => b.params[name] \in Addresses
  BY <1>2 DEF Built, IsInst
<1>4. IsInst(b)'
  BY <1>2 DEF Built, IsInst
<1>5. b.gave = [name \in {p \in ParamNames(b.kind) : b.params[p] # Nil} |-> heap'[b.params[name]]]
  BY <1>2, <1>3 DEF Built
<1>6. b.validated => /\ \A name \in ParamNames(b.kind) : b.params[name] # Nil
                     /\ \A i \in DOMAIN slots' : slots'[i] # Unset
  BY <1>2 DEF Built
<1> QED
  BY <1>1, <1>4, <1>5, <1>6 DEF Built

LEMMA BuilderStart == BuilderInit => BuilderInv
<1> SUFFICES ASSUME BuilderInit PROVE BuilderInv
  OBVIOUS
<1>1. ~IsSet /\ heap \in Seq(ParamValues) /\ built = <<>>
  BY DEF BuilderInit, IsSet
<1>2. built \in Seq(Nat) /\ Len(built) = 0
  BY <1>1
<1> QED
  BY <1>1, <1>2 DEF BuilderInv, Builds

LEMMA BuilderStep == BuilderInv /\ [BuilderNext]_builderVars => BuilderInv'
<1> SUFFICES ASSUME BuilderInv, [BuilderNext]_builderVars PROVE BuilderInv'
  OBVIOUS
<1>1. ASSUME NEW kind \in StepKinds, NewBuilder(kind) PROVE BuilderInv'
  <2>1. /\ built = <<>> /\ built' = <<>> /\ heap' = heap /\ heap \in Seq(ParamValues)
        /\ inst' = [kind |-> kind, params |-> [name \in ParamNames(kind) |-> Nil]]
    BY <1>1 DEF NewBuilder, BuilderInv, Builds, IsSet
  <2>2. IsInst(inst)'
    BY <2>1, BuilderAssumption DEF IsInst
  <2>3. IsSet'
    BY <2>2, InstIsSet
  <2>4. built' \in Seq(Nat) /\ Len(built') = 0
    BY <2>1
  <2> QED
    BY <2>1, <2>2, <2>3, <2>4 DEF BuilderInv, Builds
<1>2. ASSUME NEW kind \in Kinds, NEW v \in ParamValues, NEW key \in AccountKeys,
             NewInstruction(kind, v, key)
      PROVE  BuilderInv'
  <2> DEFINE n == Len(Params(kind))
  <2>1. /\ built = <<>> /\ built' = <<>> /\ heap' = [i \in DOMAIN Params(kind) |-> v]
        /\ inst' = [kind |-> kind,
                    params |-> [name \in ParamNames(kind) |-> Position(kind, name)]]
    BY <1>2 DEF NewInstruction, BuilderInv, Builds, IsSet
  <2>2. n \in Nat /\ DOMAIN Params(kind) = 1 .. n
    BY ParamsAreSequences, LenProperties
  <2>3. heap' \in Seq(ParamValues) /\ Len(heap') = n
    <3>1. heap' \in [1 .. n -> ParamValues]
      BY <2>1, <2>2
    <3> QED
      BY <2>2, <3>1, SeqDef, LenProperties
  <2>4. \A name \in ParamNames(kind) : Position(kind, name) \in 1 .. n
    BY <2>2 DEF ParamNames, Position
  <2>5. IsInst(inst)'
    BY <2>1, <2>3, <2>4 DEF IsInst, Addresses
  <2>6. IsSet'
    BY <2>5, InstIsSet
  <2>7. built' \in Seq(Nat) /\ Len(built') = 0
    BY <2>1
  <2> QED
    BY <2>3, <2>5, <2>6, <2>7 DEF BuilderInv, Builds
<1>3. ASSUME IsSet, NEW name \in DOMAIN inst.params, NEW v \in ParamValues, SetParam(name, v)
      PROVE  BuilderInv'
  <2>1. /\ heap' = Append(heap, v) /\ UNCHANGED <<slots, built>>
        /\ inst' = [inst EXCEPT !.params[name] = Len(heap) + 1]
    BY <1>3 DEF SetParam
  <2>2. heap \in Seq(ParamValues) /\ IsInst(inst)
    BY <1>3 DEF BuilderInv, Builds
  <2>3. /\ heap' \in Seq(ParamValues) /\ Len(heap') = Len(heap) + 1 /\ Len(heap) \in Nat
        /\ \A a \in Addresses : a \in Addresses' /\ heap'[a] = heap[a]
    BY <2>1, <2>2, AppendKeeps
  <2>4. /\ inst'.kind = inst.kind
        /\ inst'.params = [inst.params EXCEPT ![name] = Len(heap) + 1]
    BY <2>1, <2>2 DEF IsInst
  <2>5. Len(heap) + 1 \in Addresses'
    BY <2>3 DEF Addresses
  <2>6. IsInst(inst)'
    BY <2>2, <2>3, <2>4, <2>5 DEF IsInst
  <2>7. IsSet'
    BY <2>6, InstIsSet
  <2> QED
    BY <2>1, <2>3, <2>6, <2>7, BuiltStays DEF BuilderInv, Builds
<1>4. ASSUME NEW i \in DOMAIN slots, NEW key \in AccountKeys, SetAccount(i, key)
      PROVE  BuilderInv'
  <2>1. /\ IsSet /\ UNCHANGED <<inst, heap, built>>
        /\ slots' = [slots EXCEPT ![i] = key] /\ key # Unset
    BY <1>4, BuilderAssumption DEF SetAccount, Unset
  <2>2. Builds'
    BY <2>1 DEF BuilderInv, Builds, IsInst, IsSet, Addresses
  <2>3. (\A k \in DOMAIN slots : slots[k] # Unset) => \A k \in DOMAIN slots' : slots'[k] # Unset
    BY <2>1
  <2> QED
    BY <2>1, <2>2, <2>3, BuiltStays DEF BuilderInv, Addresses
<1>5. ASSUME NEW validated \in BOOLEAN, BuildIt(validated), validated => Validate
      PROVE  BuilderInv'
  <2>1. IsSet /\ built' = Append(built, Copy(validated)) /\ UNCHANGED <<inst, slots, heap>>
    BY <1>5 DEF BuildIt
  <2>2. Builds'
    BY <2>1 DEF BuilderInv, Builds, IsInst, IsSet, Addresses
  <2>3. IsInst(inst)
    BY <2>1 DEF BuilderInv, Builds
  <2>4. Built(Copy(validated))
    <3>1. IsInst(Copy(validated))
      BY <2>3 DEF Copy, IsInst
    <3>2. DOMAIN inst.params = ParamNames(inst.kind)
      BY <2>3 DEF IsInst
    <3> QED
      BY <1>5, <3>1, <3>2 DEF Copy, Built, Validate
  <2>5. PICK T, b : built \in Seq(T) /\ b = Copy(validated)
    BY DEF BuilderInv
  <2>6. /\ built' \in Seq(T \cup {b}) /\ Len(built') = Len(built) + 1 /\ Len(built) \in Nat
        /\ built'[Len(built) + 1] = b /\ \A n \in 1 .. Len(built) : built'[n] = built[n]
    <3>1. built \in Seq(T \cup {b})
      BY <2>5, SeqMonotonic
    <3> QED
      BY <2>1, <2>5, <3>1, AppendProperties, LenProperties
  <2>7. ASSUME NEW n \in 1 .. Len(built') PROVE Built(built[n])'
    <3>1. PICK c : c = built'[n] /\ Built(c)
      <4>1. n \in 1 .. Len(built) \/ n = Len(built) + 1
        BY <2>6
      <4> QED
        BY <2>4, <2>5, <2>6, <4>1 DEF BuilderInv
    <3>2. Built(c)'
      BY <2>1, <3>1 DEF Built, IsInst, Addresses
    <3> QED
      BY <3>1, <3>2 DEF Built
  <2> QED
    BY <2>2, <2>6, <2>7 DEF BuilderInv
<1>6. CASE UNCHANGED builderVars
  <2>1. Builds'
    BY <1>6 DEF builderVars, BuilderInv, Builds, IsInst, IsSet, Addresses
  <2> QED
    BY <1>6, <2>1, BuiltStays DEF builderVars, BuilderInv, Addresses
<1> QED
  BY <1>1, <1>2, <1>3, <1>4, <1>5, <1>6 DEF BuilderNext, ValidateAndBuild

LEMMA BuilderInvariant == BuilderSpec => []BuilderInv
BY BuilderStart, BuilderStep, PTL DEF BuilderSpec

\* However often a builder is used again, what was built with it keeps its
\* parameters, and what was validated has them all.
THEOREM BuiltKeepsTheorem == BuilderSpec => []BuiltKeepsParams
<1>1. BuilderInv => BuiltKeepsParams
  <2> SUFFICES ASSUME BuilderInv, NEW n \in DOMAIN built
               PROVE  LET b == built[n]
                      IN /\ \A name \in DOMAIN b.gave : heap[b.params[name]] = b.gave[name]
                         /\ b.validated => /\ DOMAIN b.gave = ParamNames(b.kind)
                                           /\ \A i \in DOMAIN slots : slots[i] # Unset
    BY DEF BuiltKeepsParams
  <2>1. Built(built[n])
    BY LenProperties DEF BuilderInv
  <2> QED
    BY <2>1 DEF Built
<1> QED
  BY <1>1, BuilderInvariant, PTL
=============================================================================
