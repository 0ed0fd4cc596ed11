SPECIFICATION FairSpec
CONSTANTS
    h1 = h1  h2 = h2
    Handler <- MCHandler
    Actor = {"cancel", "janitor", "cron", "finalize", "decline"}
    MaxErrors = 0
    MaxCrashes = 0
PROPERTY PaidIsSettled
CHECK_DEADLOCK FALSE
