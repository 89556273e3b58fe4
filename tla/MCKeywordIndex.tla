--------------------------- MODULE MCKeywordIndex ---------------------------
(* The keyword index by itself: one quirk's chunk and two texts it is given. *)
EXTENDS KeywordIndex

CONSTANTS quirk, quirkFile, foo, bar

OneChunk == {quirk}
OneFile == {quirkFile}
TwoTokens == {foo, bar}
FileOfQuirk == [c \in OneChunk |-> quirkFile]
TwoTexts == {{foo, bar}, {bar}}
=============================================================================
