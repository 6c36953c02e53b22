SPECIFICATION Spec
CONSTANTS
    Threads = {main, t1, t2}
    Main = main
    Nobody = nobody
INVARIANTS NoLostWakeup NeverWaitsForItself NoCircularWait
PROPERTIES HolderGivesWay
