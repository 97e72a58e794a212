SPECIFICATION Spec
CONSTANTS
    ann = ann
    bob = bob
    cyd = cyd
    w1 = w1
    t1 = t1
    t2 = t2
    Nodes = {ann, bob, cyd}
    Active = {ann, bob}
    Topics = {t1, t2}
    FirstTopics <- MCFirstTopics
    Walkers <- MCWalkers
    Bootstraps <- MCBootstraps
    Addrs = {home, away}
    FirstAddr <- MCFirstAddr
    MayBlock <- MCMayBlock
    Global = {away}
    home = home
    away = away
    MaxSessions = 3
    MaxEvents = 2
    MaxClock = 1
CHECK_DEADLOCK FALSE
INVARIANT WalkGoesOn
INVARIANT SameTopics
INVARIANT NewestIsOwn
