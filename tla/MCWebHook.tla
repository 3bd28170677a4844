------------------------------- MODULE MCWebHook -------------------------------
EXTENDS WebHook

CONSTANTS g1, g2

\* g2 works for an application without webhooks.
HooksOf == [g \in Goroutines |-> g # g2]
===============================================================================
