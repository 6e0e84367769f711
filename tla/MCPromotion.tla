---------------------------- MODULE MCPromotion ----------------------------
(* Promotion and authorised merge of one pull request. *)
EXTENDS Promotion, TLC

CONSTANTS h1, h2, b1, b2, ann, dev, ci

HeadSymmetry == Permutations(Heads)
=============================================================================
