SPECIFICATION Spec
CONSTANTS
    B = 4
    Calls <- MCCalls
    Answers <- MCAnswers
    Strays <- MCStrays
INVARIANTS RequestUnderstood ReplyUnderstood ForeignReplyRejected
           CutReplyInventsNothing
