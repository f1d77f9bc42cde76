----------------------------- MODULE MCTestnet ------------------------------
(***************************************************************************)
(* Instances of Testnet for TLC.                                           *)
(***************************************************************************)
EXTENDS TestnetProofs

CONSTANT bad

\* No list; one with an entry that does not parse, so that a later one, of
\* nothing, moves up; one above the balance; and one that sdk.NewCoin refuses.
Stakes == {<<>>, <<bad, 0>>, <<2, 6>>, <<-1>>}
=============================================================================
