-------------------------- MODULE MCLexicalIndex --------------------------
(* Instances of LexicalIndex for TLC.                                      *)
EXTENDS LexicalIndex, TLC

CONSTANTS server, cli, cli2, s1, s2, s3

OneServer == {server}
OneCli == {cli}
TwoClis == {cli, cli2}
ServerAndCli == {server, cli}
ServerAndTwoClis == {server, cli, cli2}

OneStamp == {s1}
ThreeStamps == {s1, s2, s3}

(* Stamps are only compared.                                               *)
Symmetry == Permutations(ThreeStamps)
=============================================================================
