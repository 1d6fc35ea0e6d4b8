SPECIFICATION NoticesSpec
CONSTANTS
    Owners = {1, 2}
    Summaries = {1, 2}
    NoticeChunk = 1
    DeleteChunk = 1
    SummaryChunk = 1
INVARIANT DeletedWereWarned
CHECK_DEADLOCK FALSE
