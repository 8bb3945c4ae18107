\* Inputs of up to seven lines; at most two chains to a merger and two operators to a chain.
SPECIFICATION Spec
CONSTANTS
    Lines <- MC_Lines
    MaxLines = 7
    atoi <- MC_atoi
    MAX_CHAINS = 2
    MAX_OPERATORS = 2
INVARIANTS
    AcceptsTheGrammar
    NodesOwnedOnce
    TreeIsRunnable
\* The parser returns.
CHECK_DEADLOCK FALSE
