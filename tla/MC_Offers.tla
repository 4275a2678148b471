----------------------------- MODULE MC_Offers -----------------------------
(* Small instances of Offers for TLC. *)
EXTENDS Offers, TLC

ThreadSymmetry == Permutations(Requests)

\* A seller's cash offer of 4 under a valuation of 6.
SellerTerms == [side |-> "seller", amount |-> 4, open |-> 4, ceiling |-> 6]
\* A buyer's offer, and a seller's offer drafted by the brain: no band in form_json.
BuyerTerms == [side |-> "buyer", amount |-> 4, open |-> 0, ceiling |-> 0]
BrainTerms == [side |-> "seller", amount |-> 4, open |-> 0, ceiling |-> 0]

OneSeller == {SellerTerms}
AllTerms == {SellerTerms, BuyerTerms, BrainTerms}
=============================================================================
