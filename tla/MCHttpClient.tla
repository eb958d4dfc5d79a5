---------------------------- MODULE MCHttpClient ----------------------------
EXTENDS HttpClient

CONSTANTS r1, r2, k1

\* Both requests ask for the same document.
OneKey == [r \in Requests |-> k1]
==============================================================================
