CONSTANTS
  a1 = a1
  a2 = a2
  Agents = {a1, a2}
  Human = h
  Invited = {}
  Intents = {k1}
  NoIntent = none
  Nobody = nobody
  FirstVersion = 1
  MaxVersion = 1
  MaxMessages = 1
  IntentAgent <- MCIntentAgent
  Anchored = {}
SPECIFICATION FairSpec
INVARIANTS PostedOnce MessageCardedOnce
PROPERTIES IntentSettled
CHECK_DEADLOCK FALSE
