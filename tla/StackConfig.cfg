SPECIFICATION Spec
CONSTANTS
    Dictionaries <- MCDictionaries
    Environments <- MCEnvironments
    ValidNamespaces <- MCValidNamespaces
INVARIANTS AcceptedDeploys ButtonMatchesStack EnvironmentWins FlatConfigReaches
           LinksResolve FlatConfigInjectsTheSame ButtonFindsDefaultStack
CHECK_DEADLOCK FALSE
