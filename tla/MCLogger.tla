------------------------------ MODULE MCLogger ------------------------------
\* Logger with two threads and a channel so small that they find it full.
EXTENDS Logger

CONSTANTS t1, t2

MCThreads == {t1, t2}

\* The second entry of every thread is larger than the file may be.
MCOversized == {t1, t2} \X {2}
=============================================================================
