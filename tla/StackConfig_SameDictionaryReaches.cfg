SPECIFICATION Spec
CONSTANTS
    Dictionaries <- MCDictionaries
    Environments <- MCEnvironments
    ValidNamespaces <- MCValidNamespaces
INVARIANTS SameDictionaryReaches
CHECK_DEADLOCK FALSE
