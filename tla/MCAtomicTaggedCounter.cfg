SPECIFICATION Spec
CONSTANTS
    Threads = {t1, t2}
    Half = 2
PROPERTY ImplementsCountAndTag
