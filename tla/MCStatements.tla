------------------------------ MODULE MCStatements ------------------------------
(* Instances of Statements for TLC. *)
EXTENDS Statements

MCCodes == <<"Equal", "Below", "GreaterEqual", "NotEqual", "LessEqual", "AboveEqual",
             "Greater", "BelowEqual", "Less", "Above">>

\* Functions without mistakes, and shorter ones with labels and mistakes.
Structured == [kinds |-> {"op", "return", "if", "else", "while", "do", "for", "break", "continue"}, tokens |-> 6]
Mistaken == [kinds |-> {"op", "if", "do", "break", "label", "goto", "ill", "value"}, tokens |-> 5]
ForContinue == [kinds |-> {"op", "for", "continue"}, tokens |-> 4]
MCVocabularies == {Structured, Mistaken}
MCForContinue == {ForContinue}

\* Functions that were to have no mistakes and have one are not written further.
NotDiagnosed == diagnosed => "ill" \in vocabulary.kinds

================================================================================
