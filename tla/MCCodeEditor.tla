---------------------------- MODULE MCCodeEditor ----------------------------
(* Two identifiers; the text of somebody else has only one of them. *)
EXTENDS CodeEditor

CONSTANTS t1, t2, w1, w2

MCTexts == {t1, t2}
MCWords == {w1, w2}
MCWordsIn == [t \in MCTexts |-> IF t = t1 THEN {w1, w2} ELSE {w1}]
=============================================================================
