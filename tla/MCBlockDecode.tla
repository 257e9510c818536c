---------------------------- MODULE MCBlockDecode ----------------------------
(* Instances of BlockDecode for TLC: one user, two pools of one token; a third *)
(* token is of Token-2022.  Three bits make an integer.                        *)
EXTENDS BlockDecode, TLC

CONSTANTS p1, p2, b1, q1, b2, q2, ub, uq, tok, wsol, t22

MCBaseOf    == (p1 :> ub) @@ (p2 :> ub)
MCQuoteOf   == (p1 :> uq) @@ (p2 :> uq)
MCBaseMint  == (p1 :> tok) @@ (p2 :> tok)
MCQuoteMint == (p1 :> wsol) @@ (p2 :> wsol)
MCBaseVault  == (p1 :> b1) @@ (p2 :> b2)
MCQuoteVault == (p1 :> q1) @@ (p2 :> q2)
MCDecimals  == (tok :> 6) @@ (wsol :> 9) @@ (t22 :> 0)
MCSwaps     == {<<1, 2>>, <<0, 1>>, <<5, 1>>}
User(mint)  == [mint |-> mint, owner |-> "o1", amount |-> 1]
MCLedgers   == {(ub :> User(tok)) @@ (uq :> User(wsol)), (ub :> Closed) @@ (uq :> User(wsol))}
=============================================================================
