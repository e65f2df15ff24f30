----------------------------- MODULE MCCheckRunner -----------------------------
EXTENDS CheckRunner

\* The first check may outlive the second; the third exceeds what is left.
MCPerCheck == <<2, 1, 4>>
=============================================================================
