---------------------------- MODULE MCDelivery ----------------------------
(* Small instances of Delivery for TLC. *)
EXTENDS Delivery, TLC

CONSTANTS j1, j2, a1, a2, c1

OneChannel == [j \in Jobs |-> c1]

Keyword(m, al, fb) == [type |-> "keyword_response", mode |-> m, allow |-> al,
                       fallback |-> fb, target |-> TRUE]

CommentsShape     == Keyword("comments", FALSE, FALSE)
PrivateShape      == Keyword("private", FALSE, FALSE)
PrivateOrPublic   == Keyword("private", FALSE, TRUE)
LegacyShape       == Keyword("legacy", TRUE, FALSE)
PlainPublicShape  == [CommentsShape EXCEPT !.type = "public_reply"]
PlainPrivateShape == [CommentsShape EXCEPT !.type = "private_message"]

AllShapes == {CommentsShape, PrivateShape, PrivateOrPublic, LegacyShape,
              PlainPublicShape, PlainPrivateShape}
LiveShapes == {CommentsShape, PrivateOrPublic}

AccountSymmetry == Permutations(Accounts)
=============================================================================
