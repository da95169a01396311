SPECIFICATION FairSpec
CONSTANTS
    Procs = {1, 2}
    Releases = {2, 3}
    Scopes = 2
    MaxStarts = 3
    MaxFaults = 1
INVARIANTS TypeOK MigratedInOrder ReadyMeansMigrated SeededScopes CompletedRunsTrue NoRunLeftRunning
PROPERTIES StartEnds SomeoneWins
