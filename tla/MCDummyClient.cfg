SPECIFICATION Spec
CONSTANTS
    maxSessionCount = 3
INVARIANTS MapsAgree AgentFollowsNumber AnswerFindsAgent
CHECK_DEADLOCK FALSE
