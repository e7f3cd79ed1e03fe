---------------------------- MODULE MCWorkerPool ----------------------------
EXTENDS WorkerPool

\* Four entries, of which one may be marked already.
Four == <<"a", "b", "c", "d">>
=============================================================================
