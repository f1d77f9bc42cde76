----------------------------- MODULE MCProposal -----------------------------
(***************************************************************************)
(* Instances of Proposal for TLC.                                          *)
(***************************************************************************)
EXTENDS Proposal, TLC

CONSTANTS v1, v2, v3

UserTx(msgs, gas, fee) ==
  [decodes |-> TRUE, msgs |-> msgs, bare |-> FALSE, valid |-> FALSE,
   size |-> 1, gas |-> gas, fee |-> fee]

Other == UserTx(<<"other">>, 2, 1)
Double == UserTx(<<"permitted", "permitted">>, 2, 1)

\* Two permitted transactions, one whose fee is short by a fraction, one with
\* two messages, which no block may hold, and a payload.
UserTxs ==
  {UserTx(<<"permitted">>, 2, 1), UserTx(<<"permitted">>, 3, 2),
   UserTx(<<"permitted">>, 3, 1), Double, UserTx(<<"payload">>, 2, 1)}

Garbled == [OwnPayload EXCEPT !.decodes = FALSE]
Signed == [OwnPayload EXCEPT !.bare = FALSE]
Large == [OwnPayload EXCEPT !.size = 3]
Stale == [OwnPayload EXCEPT !.valid = FALSE]

\* Blocks of up to two transactions of a proposer that follows no rule.
ForeignTxs ==
  UserTxs \cup {Other, OwnPayload, Garbled, Signed, Large, Stale}

ForeignBlocks == UNION {[1..n -> ForeignTxs] : n \in 0..2} \cup
  {<<t, UserTx(<<"permitted">>, 2, 1), OwnPayload>> : t \in ForeignTxs}

\* No two of the three hold exactly two thirds, and two may hold just above.
Powers == (v1 :> 2) @@ (v2 :> 2) @@ (v3 :> 1)
=============================================================================
