------------------------------ MODULE Layouts -------------------------------
(***************************************************************************)
(* What the generated clients are written in: layouts and instructions.    *)
(*                                                                         *)
(* A layout is the sequence of a struct's fields, <<name, type>>, in the   *)
(* order in which MarshalWithEncoder writes and UnmarshalWithDecoder reads *)
(* them.                                                                   *)
(***************************************************************************)
EXTENDS Naturals, Sequences, SequencesExt

\* Types: a number or key of some width, an array, a list with a 4-byte
\* length in front, a struct.  A string is a list of bytes, an enum one byte.
Fixed(w)       == [kind |-> "fixed", width |-> w]
Array(n, type) == [kind |-> "array", size |-> n, of |-> type]
Vec(type)      == [kind |-> "vec", of |-> type]
Struct(layout) == [kind |-> "struct", layout |-> layout]

Field(name, type)  == <<<<name, type>>>>
Fields(names, type) == [i \in DOMAIN names |-> <<names[i], type>>]
U8(names)    == Fields(names, Fixed(1))
U16(names)   == Fields(names, Fixed(2))
U64(names)   == Fields(names, Fixed(8))
I64(names)   == Fields(names, Fixed(8))
U128(names)  == Fields(names, Fixed(16))
Bools(names) == Fields(names, Fixed(1))
Keys(names)  == Fields(names, Fixed(32))
Texts(names) == Fields(names, Vec(Fixed(1)))

\* An instruction: its parameters and its accounts, which are read-only,
\* writable, signers or writable signers.
Metas(names, w, s) == [i \in DOMAIN names |-> [name |-> names[i], writable |-> w, signer |-> s]]
R(names)  == Metas(names, FALSE, FALSE)
W(names)  == Metas(names, TRUE, FALSE)
S(names)  == Metas(names, FALSE, TRUE)
WS(names) == Metas(names, TRUE, TRUE)
Instr(params, accounts) == [params |-> params, accounts |-> accounts]
=============================================================================
