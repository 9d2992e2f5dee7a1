SPECIFICATION Spec
CONSTANTS
    Dictionaries <- MCDictionaries
    Environments <- MCEnvironments
    ValidNamespaces <- MCValidNamespaces
INVARIANTS PortOverridesWork
CHECK_DEADLOCK FALSE
