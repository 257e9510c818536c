------------------------------ MODULE IdlWire -------------------------------
(***************************************************************************)
(* Data on its way from a program, which writes it in its own layout, to   *)
(* the readers of this repository: the generated parsers and the block     *)
(* decoder, which takes the events of every program from a transaction's   *)
(* logs and finds accounts by their position in an instruction.            *)
(*                                                                         *)
(* A message is an event, an account or an instruction of a client.  It    *)
(* may be cut short, or be longer than its struct (accounts are allocated  *)
(* with room to grow), before it is read.                                  *)
(***************************************************************************)
EXTENDS Wire

Amm   == INSTANCE PumpAmmIdl     \* what the indexer uses
Pump  == INSTANCE PumpIdl
Swap  == INSTANCE SwapIdl        \* what the PumpSwap program writes by now
Token == INSTANCE Token2022Idl

VARIABLES
  msg,     \* the message: its client, category and kind, and its lists' length
  data,    \* its bytes
  reads,   \* what each reader made of it
  info     \* the pool's row made from an instruction

wireVars == <<msg, data, reads, info>>

-----------------------------------------------------------------------------
Clients == [amm   |-> [account |-> Amm!Accounts, event |-> Amm!Events,
                       instruction |-> Amm!Instructions],
            pump  |-> [account |-> Pump!Accounts, event |-> Pump!Events,
                       instruction |-> Pump!Instructions],
            swap  |-> [account |-> Swap!Accounts, event |-> Swap!Events,
                       instruction |-> Swap!Instructions],
            token |-> [account |-> Token!Accounts]]

Parcels == {"account", "event"}

\* MarshalWithEncoder behind the discriminator.
Marshal(m) ==
  LET layout == Struct(Clients[m.client][m.category][m.kind])
  IN Discriminator(m.category, m.kind) \o Encode(layout, Sample(layout, <<>>, m.length))

-----------------------------------------------------------------------------
(* The block decoder, pump_amm.go.                                          *)

SwapEvents == {"BuyEvent", "SellEvent", "CreatePoolEvent"}

\* Mutant of ParsePumpAmmEvent: the discriminator is not looked at.
ParseAnyLine(line) ==
  LET Read(kind) == Decode(Struct(Amm!Events[kind]), SubSeq(line, 9, Len(line)))
      Fits == {kind \in SwapEvents : Len(line) >= 8 /\ Read(kind).ok}
  IN IF Fits = {} THEN Refused
     ELSE LET kind == CHOOSE k \in Fits : TRUE IN Parsed(kind, Read(kind).value)

\* One log line in parsePumpAmmEvents: the three events that are known, of
\* whatever program; anything else is passed over.
ParsePumpAmmEvent(line) ==
  LET Found == {kind \in SwapEvents :
                  Len(line) >= 8 /\ SubSeq(line, 1, 8) = Discriminator("event", kind)}
  IN IF Found = {} THEN Refused
     ELSE LET kind == CHOOSE k \in Found : TRUE IN Amm!ParseEvent(kind, line)

\* DecodePumpFunAMMInstruction: which of its decoders gets the instruction.
DecodedAs(inst) ==
  LET id == SubSeq(inst.data, 1, 8)
      Known == {kind \in {"Buy", "Sell", "CreatePool"} : id = Discriminator("global", kind)}
  IN IF Len(inst.data) < 8 \/ Known = {} THEN "none" ELSE CHOOSE kind \in Known : TRUE

\* newPumpAmmInfo: the columns that are taken from the instruction.
NoInfo == [kind |-> "none"]

\* Mutant of NewPumpAmmInfo: the user's accounts are taken for the pool's.
InfoOfUser(inst) ==
  LET Account(i) == inst.accounts[i + 1].name
  IN IF Len(inst.accounts) <= 15 \/ (DecodedAs(inst) = "Sell" /\ Len(inst.accounts) < 21)
     THEN NoInfo
     ELSE [kind |-> DecodedAs(inst), globalConfig |-> Account(2),
           poolBaseTokenAccount |-> Account(5), poolQuoteTokenAccount |-> Account(6)]

NewPumpAmmInfo(inst) ==
  LET Account(i) == inst.accounts[i + 1].name
  IN IF Len(inst.accounts) <= 15 \/ (DecodedAs(inst) = "Sell" /\ Len(inst.accounts) < 21)
     THEN NoInfo
     ELSE [kind |-> DecodedAs(inst),
           globalConfig |-> Account(2), baseMint |-> Account(3), quoteMint |-> Account(4),
           poolBaseTokenAccount |-> Account(7), poolQuoteTokenAccount |-> Account(8),
           baseTokenProgram |-> Account(11), quoteTokenProgram |-> Account(12),
           eventAuthority |-> Account(15)]

-----------------------------------------------------------------------------
(* The message's way.                                                       *)

NoMessage == [client |-> "none"]

WireInit ==
  /\ msg = NoMessage /\ data = <<>>
  /\ reads = <<>> /\ info = NoInfo

\* A program writes an event or an account.
Write(m) ==
  /\ msg = NoMessage /\ msg' = m
  /\ data' = Marshal(m)
  /\ UNCHANGED <<reads, info>>

Whole == data = Marshal(msg)

Cut ==
  /\ msg.client # "none" /\ msg.category \in Parcels /\ reads = <<>> /\ Whole
  /\ \E k \in 0 .. Len(data) - 1 : data' = SubSeq(data, 1, k)
  /\ UNCHANGED <<msg, reads, info>>

Lengthen ==
  /\ msg.client # "none" /\ msg.category \in Parcels /\ reads = <<>> /\ Whole
  /\ data' = data \o Bytes(<<"room">>, 8)
  /\ UNCHANGED <<msg, reads, info>>

\* Everybody who may get this message reads it.
ReadAccount ==
  /\ msg.client # "none" /\ msg.category = "account" /\ reads = <<>>
  /\ reads' = IF msg.client = "token"
              THEN ("token" :> ParseAs("account", msg.kind, Token!Accounts[msg.kind], data))
              ELSE [reader \in {"amm", "pump"} |->
                      IF reader = "amm" THEN Amm!ParseAnyAccount(data)
                      ELSE Pump!ParseAnyAccount(data)]
  /\ UNCHANGED <<msg, data, info>>

ReadEvent ==
  /\ msg.client # "none" /\ msg.category = "event" /\ reads = <<>>
  /\ reads' = ("indexer" :> ParsePumpAmmEvent(data)) @@
       CASE msg.client = "amm"  -> ("amm" :> Amm!ParseAnyEvent(data))
         [] msg.client = "pump" -> ("pump" :> Pump!ParseAnyEvent(data))
         [] OTHER -> ("amm" :> Amm!ParseAnyEvent(data)) @@ ("swap" :> Swap!ParseAnyEvent(data))
  /\ UNCHANGED <<msg, data, info>>

\* A wallet builds an instruction and the indexer decodes it in its block.
BuildInstruction(client, kind) ==
  LET instr == Clients[client]["instruction"][kind]
      inst  == Build(kind, instr, Sample(Struct(instr.params), <<>>, 1))
  IN /\ msg = NoMessage
     /\ msg' = [client |-> client, category |-> "instruction", kind |-> kind, length |-> 1]
     /\ data' = inst.data
     /\ info' = IF client = "pump" \/ DecodedAs(inst) \notin {"Buy", "Sell"} THEN NoInfo
                ELSE NewPumpAmmInfo(inst)
     /\ reads' = ("indexer" :> IF client = "pump" THEN Refused ELSE [kind |-> DecodedAs(inst)])

WireNext ==
  \/ \E client \in DOMAIN Clients, category \in Parcels, n \in 0 .. MaxLength :
       /\ category \in DOMAIN Clients[client]
       /\ \E kind \in DOMAIN Clients[client][category] :
            Write([client |-> client, category |-> category, kind |-> kind, length |-> n])
  \/ Cut \/ Lengthen \/ ReadAccount \/ ReadEvent
  \/ \E client \in {"amm", "pump", "swap"} :
       \E kind \in DOMAIN Clients[client]["instruction"] : BuildInstruction(client, kind)

WireSpec == WireInit /\ [][WireNext]_wireVars

-----------------------------------------------------------------------------
Accepted == {r \in DOMAIN reads : reads[r].kind # "none"}
Written  == Sample(Struct(Clients[msg.client][msg.category][msg.kind]), <<>>, msg.length)

\* Whatever a reader accepts is what was written: the same kind, and the value
\* that was written in every field the reader knows.  So a message that was cut
\* is refused as far as the reader reads it, an event written in the newer
\* layout is read right with the older one, an account that both programs share
\* is the same to both clients, and no event of another program passes for a
\* swap (events.go, accounts.go, pump_amm.go 159-206).
NothingIsMisread ==
  msg.client # "none" /\ msg.category \in Parcels =>
    \A r \in Accepted :
      /\ reads[r].kind = msg.kind
      /\ r = "indexer" => msg.client \in {"amm", "swap"}
      /\ \A name \in DOMAIN reads[r].value : reads[r].value[name] = Written[name]

\* What was not cut is accepted by the client it belongs to and by the older
\* client that the indexer uses, also when more bytes follow the struct; and the
\* indexer takes every event of a swap (pump_amm.go 178-198).
WholeIsAccepted ==
  reads # <<>> /\ msg.category \in Parcels /\ Len(data) >= Len(Marshal(msg)) =>
    /\ msg.client \in {"amm", "pump", "token"} => msg.client \in Accepted
    /\ msg.client = "swap" => "amm" \in Accepted
    /\ msg.client \in {"amm", "swap"} /\ msg.category = "event" /\ msg.kind \in SwapEvents =>
         "indexer" \in Accepted

\* The positions that newPumpAmmInfo reads (2, 3, 4, 7, 8, 11, 12, 15) are those
\* at which the clients put these accounts in a buy and in a sell, and the length
\* it and the sell decoder ask for is met (pump_amm.go 214, 452-467).
InfoNamesItsAccounts ==
  msg.client \in {"amm", "swap"} /\ msg.category = "instruction" /\ msg.kind \in {"Buy", "Sell"} =>
    /\ info.kind = msg.kind
    /\ \A column \in DOMAIN info \ {"kind"} : info[column] = column
=============================================================================
