-------------------------------- MODULE Wire --------------------------------
(***************************************************************************)
(* The Borsh encoding that the generated clients share (the encoder and    *)
(* decoder of gagliardetto/binary), and the shape of the clients' parsers  *)
(* and instruction builders.                                               *)
(*                                                                         *)
(* A byte is known by what it belongs to: byte i of the value `of`.        *)
(* A number or a key is its bytes, a struct a record, a list a sequence.   *)
(* This module declares RECURSIVE operators, for TLC only.                 *)
(***************************************************************************)
EXTENDS Layouts

Bytes(of, width) == [i \in 1 .. width |-> [of |-> of, at |-> i]]

-----------------------------------------------------------------------------
\* A value of the type in which no two bytes are the same, `path` being its
\* name; its lists have n members.
RECURSIVE Sample(_, _, _)
Sample(type, path, n) ==
  LET Members(size) == [i \in 1 .. size |-> Sample(type.of, Append(path, ToString(i)), n)]
  IN CASE type.kind = "fixed" -> Bytes(path, type.width)
       [] type.kind = "array" -> Members(type.size)
       [] type.kind = "vec"   -> Members(n)
       [] OTHER -> [name \in {f[1] : f \in ToSet(type.layout)} |->
                      LET i == SelectInSeq(type.layout, LAMBDA f : f[1] = name)
                      IN Sample(type.layout[i][2], Append(path, name), n)]

LengthBytes(n) == Bytes(<<"length", ToString(n)>>, 4)

RECURSIVE Encode(_, _)
Encode(type, value) ==
  LET Members == [i \in DOMAIN value |-> Encode(type.of, value[i])]
  IN CASE type.kind = "fixed" -> value
       [] type.kind = "array" -> FlattenSeq(Members)
       [] type.kind = "vec"   -> LengthBytes(Len(value)) \o FlattenSeq(Members)
       [] OTHER -> FlattenSeq([i \in DOMAIN type.layout |->
                                 Encode(type.layout[i][2], value[type.layout[i][1]])])

\* What is left of the data, and the value read; `ok` is FALSE when a read
\* went past the end.
Failed == [ok |-> FALSE]
Took(value, rest) == [ok |-> TRUE, value |-> value, rest |-> rest]
Take(w, data) == IF Len(data) < w THEN Failed
                 ELSE Took(SubSeq(data, 1, w), SubSeq(data, w + 1, Len(data)))

\* The lists of the inputs are no longer than this.
MaxLength == 2

RECURSIVE Decode(_, _)
RECURSIVE DecodeMembers(_, _, _)
RECURSIVE DecodeFields(_, _)
Decode(type, data) ==
  CASE type.kind = "fixed"  -> Take(type.width, data)
    [] type.kind = "array"  -> DecodeMembers(type.of, type.size, data)
    [] type.kind = "struct" -> DecodeFields(type.layout, data)
    [] OTHER -> LET length == Take(4, data)
                    Sizes  == {n \in 0 .. MaxLength : length.value = LengthBytes(n)}
                IN IF ~length.ok \/ Sizes = {} THEN Failed
                   ELSE DecodeMembers(type.of, CHOOSE n \in Sizes : TRUE, length.rest)

DecodeMembers(type, n, data) ==
  IF n = 0 THEN Took(<<>>, data)
  ELSE LET first == Decode(type, data)
           others == DecodeMembers(type, n - 1, first.rest)
       IN IF ~first.ok THEN Failed ELSE IF ~others.ok THEN Failed
          ELSE Took(<<first.value>> \o others.value, others.rest)

DecodeFields(layout, data) ==
  IF layout = <<>> THEN Took([name \in {} |-> <<>>], data)
  ELSE LET first == Decode(layout[1][2], data)
           others == DecodeFields(Tail(layout), first.rest)
       IN IF ~first.ok THEN Failed ELSE IF ~others.ok THEN Failed
          ELSE Took((layout[1][1] :> first.value) @@ others.value, others.rest)

-----------------------------------------------------------------------------
(* The shape of a generated client.  Anchor's discriminator is a hash of    *)
(* the category and the name, so it is known by these two.                  *)

Discriminator(category, kind) == Bytes(<<category, kind>>, 8)

Refused == [kind |-> "none"]
Parsed(kind, value) == [kind |-> kind, value |-> value]

\* Mutant of ParseAs: bytes behind the struct are refused.
ParseAsExactly(category, kind, layout, data) ==
  LET id == Take(8, data)
      body == Decode(Struct(layout), id.rest)
  IN IF ~id.ok THEN Refused
     ELSE IF id.value # Discriminator(category, kind) THEN Refused
     ELSE IF ~body.ok THEN Refused
     ELSE IF body.rest # <<>> THEN Refused ELSE Parsed(kind, body.value)

\* ParseEvent_X, ParseAccount_X: the discriminator must be X's; what follows
\* the struct is not looked at.
ParseAs(category, kind, layout, data) ==
  LET id == Take(8, data)
      body == Decode(Struct(layout), id.rest)
  IN IF ~id.ok THEN Refused
     ELSE IF id.value # Discriminator(category, kind) THEN Refused
     ELSE IF ~body.ok THEN Refused ELSE Parsed(kind, body.value)

\* ParseAnyEvent, ParseAnyAccount: the first discriminator that matches.
ParseAny(category, layouts, data) ==
  LET Known == {kind \in DOMAIN layouts :
                  Len(data) >= 8 /\ SubSeq(data, 1, 8) = Discriminator(category, kind)}
  IN IF Known = {} THEN Refused
     ELSE LET kind == CHOOSE k \in Known : TRUE
          IN ParseAs(category, kind, layouts[kind], data)

\* NewXInstruction: the parameters behind the discriminator, and no data at
\* all when the instruction has no parameters; the accounts in their order.
Build(kind, instr, params) ==
  [data |-> IF instr.params = <<>> THEN <<>>
            ELSE Discriminator("global", kind) \o Encode(Struct(instr.params), params),
   accounts |-> instr.accounts]
=============================================================================
