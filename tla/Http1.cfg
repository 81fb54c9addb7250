\* Clients of every kind against an upstream that may decline, close or misbehave.
SPECIFICATION FairSpec
CONSTANTS
  Scripts <- MCScripts
  MaxHeader = 3
  MaxData = 1
INVARIANTS StreamIntact EveryHeadRewritten AnswersMatched
PROPERTY PumpsEnd
CHECK_DEADLOCK FALSE
