----------------------------- MODULE MCRelaunch -----------------------------
(***************************************************************************)
(* Instances of Relaunch for TLC.                                          *)
(***************************************************************************)
EXTENDS Relaunch, TLC

CONSTANTS v1, v2

TwoVals == {v1, v2}

\* Targets of one and of two units of power, and one below a unit.
Hooks ==
  [action : {"unjail"}, v : TwoVals, target : {NoTarget, 3}] \cup
  [action : {"add"}, v : TwoVals, initial : {1, 2}, minSelf : {0, 2}] \cup
  [action : {"remove"}, v : TwoVals, tokens : {"keep", "burn", "send"}] \cup
  [action : {"reconcile"}]

\* Lists of up to two hooks of which the second removes validator v2.
Lists ==
  {<<>>} \cup {<<h>> : h \in Hooks} \cup
  {<<h, [action |-> "remove", v |-> v2, tokens |-> "burn"]>> :
     h \in {g \in Hooks : g.action # "reconcile"}}

Member(status, tokens, jailed) ==
  [exists |-> TRUE, status |-> status, tokens |-> tokens, shares |-> TRUE,
   jailed |-> jailed, minSelf |-> 1]

\* v1 is active; v2 is missing, active, jailed and unbonding, or too weak to
\* have ever been active.
Records ==
  {(v1 :> Member("bonded", 3, FALSE)) @@ (v2 :> second) :
     second \in {NoValidator, Member("bonded", 2, FALSE), Member("unbonding", 1, TRUE),
                  Member("unbonded", 1, FALSE)}}

StakingOf(val, short, unbonding) ==
  LET s == [val |-> val, index |-> IndexOf(val), bonded |-> 0, notBonded |-> 0,
            delegations |-> {v \in TwoVals : val[v].shares}, started |-> {},
            unbonding |-> unbonding, accounts |-> 0]
  IN  [s EXCEPT !.bonded = TokensOf(s, Bonded(s)) - short, !.notBonded = Owed(s)]

Funded == {StakingOf(val, 0, unbonding) : val \in Records, unbonding \in {0, 1}}

\* The bonded pool is short of tokens that a record was given without them.
Phantom == {StakingOf(val, 2, 1) : val \in Records}

FundedOrPhantom == Funded \cup Phantom

\* No list, one that leaves v2 out, one of both, and one with a typing error.
ListedAddrs == {{}, {v1}, TwoVals, {v1, Malformed}}

Quiet == {<<>>}

\* In the new chain v2 may be given tokens, or removed.
NewLists ==
  {<<>>, <<[action |-> "unjail", v |-> v2, target |-> 3]>>,
   <<[action |-> "remove", v |-> v2, tokens |-> "burn"]>>}
=============================================================================
