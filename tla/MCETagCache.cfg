SPECIFICATION Spec
CONSTANTS
    t1 = t1
    t2 = t2
    None = None
    Threads = {t1, t2}
    Resources <- MCResources
    States <- MCStates
    Links <- MCLinks
    Bodies <- MCBodies
    Account <- MCAccount
    Body <- MCBody
    Tag <- MCTag
PROPERTY
    Transparent
