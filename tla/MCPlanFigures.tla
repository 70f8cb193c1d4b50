--------------------------- MODULE MCPlanFigures ----------------------------
(* Two opponents.  Exchanges: none, one of the main deck, one that also moves the extra     *)
(* deck, the same number of cards from one zone to the other.                               *)
EXTENDS Comparison

CONSTANTS o1, o2, swap1, nothing

E(swap, mo, mi, xo, xi) ==
    [swap |-> swap, review |-> FALSE, main |-> [out |-> mo, in |-> mi], extra |-> [out |-> xo, in |-> xi]]
MCNoExchange == E(nothing, 0, 0, 0, 0)
Swap == E(swap1, 1, 1, 0, 0)
SwapAndExtra == E(swap1, 1, 1, 1, 1)
Lopsided == E(swap1, 1, 0, 0, 1)
Reviewed == [Swap EXCEPT !.review = TRUE]
MCExchanges == {MCNoExchange, Swap, SwapAndExtra, Lopsided, Reviewed}

\* The second opponent has one plan of the two; what the pages are given to do tells them apart.
PlansAt(a, b, c) == [v \in Volets |-> CASE v = <<o1, "first">> -> a
                                        [] v = <<o1, "second">> -> b
                                        [] v = <<o2, "first">> -> c
                                        [] OTHER -> Absent]
MCSaves == {<<<<o1, "first">>, MCNoExchange>>, <<<<o1, "second">>, Swap>>, <<<<o2, "first">>, Absent>>, <<<<o2, "second">>, SwapAndExtra>>}
At(a, b) == [a |-> a, b |-> b]
MCAddresses == {At(Base, <<o1, "first">>), At(<<o1, "first">>, <<o2, "second">>), At(<<o2, "first">>, Base)}

\* Which pages are open: a joint bound on their gestures keeps the product small.
VARIABLE pages
Kept == {None, Summary(1, "first", Input(Swap, 1)), Summary(1, "second", Input(MCNoExchange, 1))}
MCInit ==
    /\ FiguresStart /\ CompareInit
    /\ deck \in {[revision |-> 1, plans |-> PlansAt(a, b, c)] :
                     a \in {Swap, Lopsided}, b \in {Swap, Absent, Reviewed}, c \in {SwapAndExtra, Absent}}
    /\ library = 1
    /\ \/ /\ pages = "sheet"
          /\ rows \in [Volets -> Kept] /\ KeptWell
          /\ rows[<<o2, "first">>] = None
       \/ /\ pages \in {"editor", "comparison"}
          /\ rows = [v \in Volets |-> None]
          /\ deck.plans[<<o2, "first">>] # Absent /\ deck.plans[<<o1, "second">>] # Reviewed
MCNext ==
    /\ PagesNext
    /\ pages # "sheet" => sheet' = sheet
    /\ pages # "editor" => editor' = editor
    /\ pages # "comparison" => address' = address
    /\ pages' = pages
MCSpec == MCInit /\ [][MCNext]_<<pagesVars, pages>> /\ Fairness
=============================================================================
