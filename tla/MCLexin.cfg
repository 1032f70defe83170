\* Every text of up to six characters.
CONSTANTS
    Letters <- TwoLetters
    MAX_TEXT = 6
SPECIFICATION Spec
\* The program ends.
CHECK_DEADLOCK FALSE
INVARIANTS
    TypeOK
    ParsedAsGrammar
    FirstposExact
    AcceptsLanguage
    MachineWellFormed
    SwitchComplete
PROPERTY
    ImplementsDfa
