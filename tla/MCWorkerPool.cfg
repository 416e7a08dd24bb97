CONSTANTS
    Workers = {w1, w2}
    Producers = {p1, p2, p3}
    Tasks = {t1, t2, t3, t4}
    NoTask = NoTask
    MaxSize = 2
SPECIFICATION Spec
INVARIANTS TypeOK OnePlace NoStrandedWork NoStrandedProducer NoWorkerLeaves
PROPERTIES ImplementsService EveryTaskRuns
