-------------------------- MODULE MCThreadDelivery --------------------------
EXTENDS ThreadDelivery, TLC
CONSTANTS a1, a2
MCIntentAgent == [k \in Intents |-> a1]
=============================================================================
