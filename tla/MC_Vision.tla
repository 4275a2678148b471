----------------------------- MODULE MC_Vision -----------------------------
(* Small instances of Vision for TLC.                                      *)
EXTENDS Vision

CONSTANTS flat, lane, nowhere, shack, farm

\* Two photos, one, and a listing without an address.
Catalog == {flat, lane, nowhere}
At == (flat :> shack @@ lane :> farm @@ nowhere :> NoAddress)
Gallery == (flat :> <<"front", "roof">> @@ lane :> <<"sample">> @@ nowhere :> <<>>)

F(kind, confidence) == [kind |-> kind, confidence |-> confidence]
\* A fine room, something doubtful, an item that is invalid and three flaws: two
\* such photos bring the condition below zero.
Reports ==
  {<<F("feature", 90), F("feature", 50), F("red_flag", 100), F("mess", 100),
     F("red_flag", 100), F("red_flag", 100)>>}

Area == (shack :> 10 @@ farm :> 0)
\* A dear one, and one without a price.
Market == {[price |-> 40, sqft |-> 2, age |-> 3], [price |-> 0, sqft |-> 2, age |-> 0]}
\* The quantiles cross; an estimate hardly worth its band; an estimate below zero.
Outputs ==
  {[point |-> 100, lower |-> 110, upper |-> 90], [point |-> 50, lower |-> 1, upper |-> 40],
   [point |-> -20, lower |-> -30, upper |-> 5]}
=============================================================================
