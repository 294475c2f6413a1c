--------------------------- MODULE MCLoggerSystem ---------------------------
\* LoggerSystem with a file that has room for one record or two.
EXTENDS LoggerSystem

CONSTANT t1

MCThreads == {t1}

\* The record of the second call does not fit in the file.
MCOversized == {<<t1, 2>>}
=============================================================================
