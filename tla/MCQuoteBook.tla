---------------------------- MODULE MCQuoteBook ----------------------------
(* The instance of QuoteBook that TLC checks.                              *)
EXTENDS QuoteBook, TLC

CONSTANTS w1, w2

MCSymmetry == Permutations(Workers)
=============================================================================
