SPECIFICATION Spec
CONSTANTS
    c1 = c1
    c2 = c2
    Chars = {c1, c2}
    Workers = {w1, w2}
    Mobs = {m1}
    Party = {c1, c2}
    MaxDeaths = 3
    MaxSP = 1
    MobLife = 1
    Damages = {0, 2}
    Reward = 2
    BaseStep = 2
    JobStep = 1
    MaxLevel = 3
    MaxJob = 3
    SkillMax = 2
    StartPoints = 1
    StartSkill <- Known
    ExpCap = 5
    Budgets <- Instances
INVARIANTS
    NoLostTimer
    MobLivesOnce
    ExpNeverMinted
    PointsPayForLevels
PROPERTIES
    KilledRevives
    MobComesBack
CHECK_DEADLOCK FALSE
