CONSTANTS
    r1 = r1  r2 = r2  r3 = r3
    Requests = {r1, r2, r3}
    Clients = {r1, r2, r3}
    Tasks <- MCTasks
    BatchKeys <- MCKeys
    Origin = origin
    Nobody = nobody
    NoReply = noReply
    Failed = error
    Mortal = {r2}
SPECIFICATION FairSpec
INVARIANTS TypeOK ActiveMeansWhole CreationsKept DeletedStaysGone AnswersAreFresh UpdatesStayHome WaitersKept
PROPERTIES RequestsEnd
CHECK_DEADLOCK FALSE
