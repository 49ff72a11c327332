CONSTANTS
    MaxRequests = 4
    MaxAwaits = 2
    MaxFinally = 1
    MaxDepth = 3
    CallerDepths = {0, 3}
    Kinds = {"next", "return", "throw"}
    Unused = Unused
    payload = payload
    undefined = undefined
    typeError = typeError
    inert = inert
    thenable = thenable
    poisoned = poisoned
    t1 = t1
    plainAwait = plainAwait
    readyPromise = readyPromise
SPECIFICATION AsyncSpec
INVARIANTS AnsweredInOrder BodyAnswersItsRequest AsyncSound
PROPERTY RequestsAnswered
CHECK_DEADLOCK FALSE
