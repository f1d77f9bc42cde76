----------------------------- MODULE MCEvmNode ------------------------------
(***************************************************************************)
(* Instances of EvmNode for TLC.                                           *)
(***************************************************************************)
EXTENDS EvmNode, TLC

CONSTANTS n1, n2, h0, h1, h2, h3, h4

NoNodes == {}
OneNode == {n1}
TwoNodes == {n1, n2}

\* n1 alone has more than 2/3 of the voting power, so that n2 may fall behind.
QuorumsOfOne == {{n1}}
QuorumsOfTwo == {{n1}}

BlockTimes ==
  [window |-> FALSE, start |-> 0, hasStop |-> FALSE, stop |-> 0,
   offset |-> 0, unixOffset |-> 0]

\* Height 2 is before the window, heights 3 and 4 in it, height 5 after it.
Window ==
  [window |-> TRUE, start |-> 3, hasStop |-> TRUE, stop |-> 5,
   offset |-> 0, unixOffset |-> 1]

\* A successor of its parent, one a block too high, and a malformed one.
Shapes ==
  {[above |-> 1, later |-> 1, wellFormed |-> TRUE],
   [above |-> 2, later |-> 1, wellFormed |-> TRUE],
   [above |-> 1, later |-> 2, wellFormed |-> FALSE]}

Hashes3 == {h0, h1, h2}
Hashes4 == {h0, h1, h2, h3}
Hashes5 == {h0, h1, h2, h3, h4}

\* The genesis hash is distinguished; the others are interchangeable.
HashSymmetry == Permutations(Hash \ {GenesisHash})
=============================================================================
