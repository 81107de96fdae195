SPECIFICATION FairSpec
CONSTANTS
  MaxToolRequestTimes = 5
  MaxConsecutiveEmptyRounds = 3
  MaxCallsPerReply = 2
INVARIANTS
  TypeOK
  StopsReported
  EveryCommentSubmitted
PROPERTIES
  LoopEnds
