CONSTANTS
  a1 = a1
  a2 = a2
  Agents = {a1}
  Human = h
  Invited = {a1}
  Intents = {}
  NoIntent = none
  Nobody = nobody
  FirstVersion = 0
  MaxVersion = 4
  MaxMessages = 0
  IntentAgent <- MCIntentAgent
  Anchored = {}
SPECIFICATION FairSpec
INVARIANTS TypeOK EditsStayNews
PROPERTIES EditHeard
CHECK_DEADLOCK FALSE
