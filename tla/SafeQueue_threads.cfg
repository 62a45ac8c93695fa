SPECIFICATION Spec
CONSTANTS
    Threads = {t1, t2, t3}
    NoThread = NoThread
    Null = Null
    MaxItems = 3
INVARIANTS TypeOK OwnerInside
PROPERTIES ImplementsFifo NoLostWakeup
