SPECIFICATION Spec
CONSTANTS
    Failing <- AnyFailure
    Capacity = 8
    NoEvent = NoEvent
INVARIANTS DependenciesFirst VerdictHonest
PROPERTIES StartupEnds
