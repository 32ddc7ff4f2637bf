\* Two datagrams fill a buffer, the least with a state between empty and full.
CONSTANT Capacity = 2
SPECIFICATION FairSpec
CHECK_DEADLOCK FALSE
INVARIANTS
    TypeOK
    WritableIsNotMissed
    DataIsNotMissed
    SpaceIsNotMissed
    MissedOnlyInRace
PROPERTIES
    ClosedSenderEnds
    ParkedWriterResumes
