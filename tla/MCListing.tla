----------------------------- MODULE MCListing -----------------------------
(* Two texts of one number, so that equality of texts and comparison of    *)
(* numbers differ; members of different widths.                            *)
EXTENDS Listing, TLC

BalanceNumbers == ("0.000" :> 0) @@ ("0" :> 0) @@ ("5" :> 5)
IdWidths       == ("" :> 1) @@ ("0" :> 1) @@ ("1" :> 3)
NumberWidths   == (0 :> 1) @@ (5 :> 3)

=============================================================================
