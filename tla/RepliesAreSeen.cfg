INIT Init
NEXT Next
CONSTANTS
    MaxDecisions = 2
    InitialDecisions = {1}
    Matching = {1}
    VoteKeys = {"approve", "deny", "modify"}
    MaxKeys = 2
    MaxReplies = 1
INVARIANTS RepliesAreSeen
CHECK_DEADLOCK FALSE
