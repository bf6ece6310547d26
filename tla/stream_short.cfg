\* Half the connections the handlers want, and a database that fails.
SPECIFICATION FairSpec
CONSTANTS
    Workflows = {w1, w2}
    Streams = {s1, s2}
    Capacity = 3
    DatabaseFaults = TRUE
INVARIANTS ConnectionsAccounted LastEventIsTrue
PROPERTIES StreamEnds ConnectionsReturn
