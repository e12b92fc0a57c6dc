\* What the documentation says of repeated POSTs.
SPECIFICATION FairSpec
CONSTANTS
    t1 = t1
    gone = gone
    Posts = {r1, r2, r3}
    Names = {t1, gone}
    Armed = {t1}
    CooldownOf <- ShortCooldown
    MaxTime = 3
    MaxFailures = 1
    NoRow = norow
    NoName = noname
PROPERTY CooldownKept
CHECK_DEADLOCK FALSE
