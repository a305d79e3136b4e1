-------------------------- MODULE MCWorkerSession --------------------------
EXTENDS WorkerSession

====
