SPECIFICATION FairSpec
CONSTANTS
  Handlers = {h1, h2}
  NoHandler = NoHandler
  RequestIds = {"svc_req_1", "svc_req_2"}
  MaxPosts = 2
  MaxFaults = 2
INVARIANTS TypeOK AnsweredIsRecorded EffectIsRequested CommittedIsTrue PostedOnceHidesNothing OnlyFaultsSpoilStreams
PROPERTIES EveryRequestEnds
CHECK_DEADLOCK FALSE
