SPECIFICATION FairSpec
CONSTANTS
    request = request
    listen = listen
    Transactions = {request, listen}
    Pipelines <- MCPipelines
    Subscribes = {listen}
    MaxEvents = 1
INVARIANTS NeverStuck ResultBeforeClose
PROPERTIES EndsWithClient ClosesWhenDone
CHECK_DEADLOCK FALSE
