SPECIFICATION Spec
CONSTANTS
    Thread = {t1, t2}
    Starter = {s1, s2}
    Pinned = 1
    MaxRelease = 2
    MaxResets = 1
INVARIANTS ArtifactsWinWhileCurrent
