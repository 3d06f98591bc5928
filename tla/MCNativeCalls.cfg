SPECIFICATION Spec
CONSTANTS
    Writers = {w1}
    Readers = {r1}
    Refreshers = {f1}
    MaxRetries = 1
    MaxTokens = 2
INVARIANTS WritesHappenOnce AnswersAreTrue AbortsArePrivate RefusedTokenStaysOut
