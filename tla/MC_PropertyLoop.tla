-------------------------- MODULE MC_PropertyLoop --------------------------
(* A small instance of PropertyLoop for TLC. *)
EXTENDS PropertyLoop, TLC

CONSTANTS home, twin, none, blank

\* The importer gives different listings the same sample photo.
SharedPhoto == [h \in Homes |-> {"sample"}]

Blanks == [f \in Fields |-> none]
\* At most this price, in this location, stated or left blank, by a buyer of
\* whom something is inferred or not; or nothing at all.
Buyers ==
  {[Blanks EXCEPT !["price"] = 2, !["location"] = l, !["inferred"] = i] :
     l \in {blank, 1}, i \in {1, 2}} \cup {Blanks}
\* A listing that states its price and one that does not.
Houses ==
  {[f \in CriteriaFields |-> CASE f = "price" -> p [] f = "location" -> 1 [] OTHER -> none] :
     p \in {2, none}}

\* Nobody rounded this band: $0.904 to $1.006.
RawBand == {[open |-> 904, ceiling |-> 1006], [open |-> 900, ceiling |-> 800]}
=============================================================================
