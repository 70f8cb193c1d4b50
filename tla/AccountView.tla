--------------------------- MODULE AccountView ----------------------------
(***************************************************************************)
(* What the library promises an account (docs/annotations-par-defaut.md,   *)
(* D1 and D6), told without rows, references or pages: the value each card *)
(* has for the account, in two aspects, and the aspects the account chose. *)
(* A choice changes one aspect of one card; a default changes only aspects *)
(* nobody chose; the life of the shared caps changes nothing but caps.     *)
(***************************************************************************)
CONSTANTS Cards, Null

VARIABLES seen,     \* seen[c]: [hopt, availability, group], the value in force
          chosen    \* chosen[c]: the aspects of c the account has chosen

Aspects == {"hopt", "nonengine"}

Same(c, aspect) ==
    IF aspect = "hopt" THEN seen'[c].hopt = seen[c].hopt
    ELSE /\ seen'[c].availability = seen[c].availability
         /\ seen'[c].group = seen[c].group

OthersKept(c) == \A o \in Cards \ {c} : seen'[o] = seen[o] /\ chosen'[o] = chosen[o]

\* The account decides one aspect of a card.
Choose(c, aspect) ==
    /\ chosen' = [chosen EXCEPT ![c] = @ \cup {aspect}]
    /\ \A other \in Aspects \ {aspect} : Same(c, other)
    /\ OthersKept(c)

\* The account forgets its choice of one aspect.
Forget(c, aspect) ==
    /\ chosen' = [chosen EXCEPT ![c] = @ \ {aspect}]
    /\ \A other \in Aspects \ {aspect} : Same(c, other)
    /\ OthersKept(c)

\* A reference is written or withdrawn.
Default(c) ==
    /\ chosen' = chosen
    /\ \A aspect \in chosen[c] : Same(c, aspect)
    /\ OthersKept(c)

\* A shared cap appears or disappears: a card keeps everything but its cap, and a
\* card whose profile is chosen can only lose it.
Caps ==
    /\ chosen' = chosen
    /\ \A c \in Cards :
          /\ Same(c, "hopt")
          /\ seen'[c].availability = seen[c].availability
          /\ "nonengine" \in chosen[c] => seen'[c].group \in {seen[c].group, Null}

Init == chosen = [c \in Cards |-> {}]

Next ==
    \/ \E c \in Cards, aspect \in Aspects : Choose(c, aspect) \/ Forget(c, aspect)
    \/ \E c \in Cards : Default(c)
    \/ Caps

Spec == Init /\ [][Next]_<<seen, chosen>>
===========================================================================
