---------------------------- MODULE MCLoggerInit ----------------------------
\* LoggerInit with configurations that are complete, lack the URL, or have no
\* credentials.
EXTENDS LoggerInit

CONSTANTS t1, t2, A, B

MCThreads == {t1, t2}
Complete == [v \in Vars |-> A]
NoUrl == [v \in Vars |-> IF v = "url" THEN Blank ELSE B]
NoAuth == [v \in Vars |-> IF v \in {"username", "password"} THEN Blank ELSE B]

MCValues == {A, B, Blank}
MCConfigs == {Complete, NoUrl, NoAuth}
MCStartEnvs == {Nothing, [Complete EXCEPT !["username"] = Unset]}
MCQueueSettings == {{0}, {2}}
=============================================================================
