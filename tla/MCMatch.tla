------------------------------ MODULE MCMatch ------------------------------
(* Small decks: copies to split between the sections, and a side deck whose cards are copies of
   the main deck's, so that bringing one in leaves nothing to cut. *)
EXTENDS Match

MCCards == {"bolt", "swamp", "veil"}
Section(b, s, v) == [c \in MCCards |-> CASE c = "bolt" -> b [] c = "swamp" -> s [] c = "veil" -> v]
D(m, s) == [main |-> m, side |-> s]
Splits == D(Section(2, 1, 0), Section(0, 1, 1))
Strands == D(Section(1, 0, 0), Section(1, 0, 0))
NoSide == D(Section(1, 1, 0), Section(0, 0, 0))
MCDeals == {[A |-> Splits, B |-> Strands], [A |-> NoSide, B |-> Splits]}
BothFormats == {"bo1", "bo3"}
=============================================================================
