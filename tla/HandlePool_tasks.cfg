SPECIFICATION Spec
CONSTANTS
    Threads = {t1, t2}
    NoThread = NoThread
    Handles = {h1, h2}
    NoHandle = NoHandle
    MaxHandles = 2
    MaxWriters = 1
    TaskTypes = {"Backup", "Migrate"}
    Callbacks = {"none", "Vacuum"}
    MaxReference = 1
INVARIANTS TasksAreSuspended
