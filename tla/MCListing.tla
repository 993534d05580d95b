------------------------------- MODULE MCListing -------------------------------
(***************************************************************************)
(* A small instance of Listing: the rows that decide something (with and   *)
(* without coordinates, abroad, in another district, with a road address   *)
(* of blanks, with the date of a current or of an old survey, at the       *)
(* address or under the very id of another row), in listings that a        *)
(* publisher could put out one after the other.                            *)
(***************************************************************************)
EXTENDS Listing

Hall ==
  [ road |-> "road", lot |-> "lot", name |-> "hall", coords |-> << >>,
    stalls |-> "1", urinals |-> "0", women |-> "1", men_acc |-> "0", women_acc |-> "?",
    baby |-> "Y", hours |-> "day", detail |-> "", form |-> "closed",
    as_of |-> << >> ]

Annex     == [Hall EXCEPT !.name = "annex", !.stalls = "", !.men_acc = "?", !.form = "open"]
Twin      == [Hall EXCEPT !.women = "0", !.women_acc = "1", !.detail = "9 to 6", !.form = "",
                        !.as_of = << 0 >>]
Park      == [Hall EXCEPT !.name = "park", !.coords = << 37, 127 >>, !.hours = "",
                        !.as_of = << 1 >>]
Abroad    == [Park EXCEPT !.name = "abroad", !.coords = << 10, 10 >>]
Market    == [Hall EXCEPT !.road = "", !.name = "market", !.stalls = "0", !.women = "0"]
BlankRoad == [Hall EXCEPT !.road = " ", !.name = "blank", !.baby = "-"]
Elsewhere == [Park EXCEPT !.road = "far", !.lot = "away", !.baby = "N"]

MCListings ==
  { << Hall, Annex >>, << Annex, Hall >>, << Twin, Hall, Market >>,
    << Elsewhere, BlankRoad, Abroad >>, << Park, Hall >>, << >> }

MCText == STRING
MCMapo == {"road", "lot"}

=============================================================================
