--------------------------- MODULE MCLineReaders ---------------------------
(* LineReaders on short streams: empty lines, a last line without its end. *)
EXTENDS LineReaders

MCInput == {<<>>, <<"a", "b", "nl", "c", "nl">>, <<"nl", "nl", "a", "b", "c">>, <<"a", "nl", "b", "c", "d", "nl">>}

MCCounts == {0, 1, 2, 4}
=============================================================================
