SPECIFICATION FairSpec
CONSTANTS
    c1 = c1  loud = loud  silent = silent  silent2 = silent2
    Conversation = {c1}
    Job = {loud, silent, silent2}
    ConvOf <- OneConversation
    Loud = {loud}
    Polite = {silent, silent2}
    Impatient = {silent}
    Restored <- RestoredChallenges
    Offered <- OfferedChallenges
    MaxSetbacks = 2
INVARIANTS TypeOK JobsInOnePlace ParkedArmed BlockedIsShort
PROPERTIES JobsConclude
CHECK_DEADLOCK FALSE
