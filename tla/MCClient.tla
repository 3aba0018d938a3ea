------------------------------- MODULE MCClient -------------------------------
\* One client, all its goroutines, and main.
EXTENDS Client

===============================================================================
