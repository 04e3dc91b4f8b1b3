SPECIFICATION FairSpec
CONSTANT Plans <- MCSessionPlans
INVARIANTS FilesFinalized SourcesIntact DeletedAreMuxed
INVARIANTS MuxOwnSession StateShowsCapture StopArmsMux
PROPERTIES WorkerJoined StopEndsCapture MuxEnds
