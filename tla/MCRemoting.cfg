\* Two asynchronous calls that share one permit; or a
\* synchronous call with an asynchronous one; or two one-way calls.
SPECIFICATION FairSpec
CONSTANTS
    Sync = {s1}
    Async = {a1, a2}
    Oneway = {o1, o2}
    NoCall = none
    Permits = 1
    Together = {{a1, a2}, {s1, a1}, {o1, o2}}
    Twice = {a1, s1}
INVARIANTS PermitsConserved CompletedOnce NoFalseFailure
PROPERTY Ends
CHECK_DEADLOCK FALSE
