--------------------------- MODULE MCWorkerPool ---------------------------
EXTENDS WorkerPool

CONSTANTS a, b, c

ThreeTasks == {a, b, c}
=============================================================================
