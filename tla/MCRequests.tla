----------------------------- MODULE MCRequests -----------------------------
\* Requests with two requests and lists of target calls that overflow.
EXTENDS Requests

CONSTANTS r1, r2, a
=============================================================================
