SPECIFICATION Spec
CONSTANTS
    Track = {t1, t2}
    Source = {s1, s2}
    NoJob = NoJob
    MaxTransfers = 3
INVARIANTS TypeOK OneJobPerTrack NoLostWakeup JoinedWhenGone
PROPERTIES ShutdownEnds ConversionsSpec
