------------------------- MODULE MCDefaultResource -------------------------
(***************************************************************************)
(* DefaultResource on a small instance: the initialising thread, two more, *)
(* and one resource besides the two the code names.                        *)
(***************************************************************************)
EXTENDS DefaultResource

CONSTANTS t1, t2, arena

MCThreads == {Main, t1, t2}
MCResources == {Mallocator, NewDelete, arena}

=============================================================================
