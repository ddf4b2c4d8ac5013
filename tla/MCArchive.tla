----------------------------- MODULE MCArchive -----------------------------
EXTENDS Archive, TLC
UnderTwo == [b \in Boxes |-> IF b = "inbox" THEN Boxes ELSE {b}]
Reports == [c \in Contents |-> IF c = "mail" THEN <<"report">> ELSE <<>>]
Symmetry == Permutations(Workers)
=============================================================================
