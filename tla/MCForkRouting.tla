--------------------------- MODULE MCForkRouting ----------------------------
(***************************************************************************)
(* Instances of ForkRouting for TLC: every schedule over a few times.      *)
(***************************************************************************)
EXTENDS ForkRouting

Times == {0, 2, 3, Unset}

AllClFiles == [prague : Times, osaka : Times, amsterdam : {4, Unset}] \cup {NoPath, BadFile}

AllElFiles == [prague : Times, osaka : Times]

\* The genesis of mainnet, testnet and devnet has Prague from the start.
PragueGenesis == [prague |-> 0, osaka |-> Unset]
=============================================================================
