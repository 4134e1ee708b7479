------------------------------- MODULE MCBins -------------------------------
(* Bins for TLC: six chunks, all of distinct large sizes, in groups of      *)
(* equal sizes, and of all kinds.                                          *)
EXTENDS Bins

MCSizings == {
  <<128, 136, 144, 152, 168, 184>>,
  <<128, 144, 144, 152, 176, 176>>,
  <<136, 136, 136, 160, 192, 248>>,
  <<24, 24, 24, 32, 256, 264>>,
  <<256, 256, 264, 272, 272, 280>>}
=============================================================================
