SPECIFICATION FairSpec
CONSTANTS
  a1 = a1
  a2 = a2
  a3 = a3
  ax = ax
  b1 = b1
  ka = ka
  kb = kb
  s = s
  p = p
  q = q
  NoGoal = NoGoal
  Goals <- MCGoals
  Keys <- MCKeys
  KeyOf <- MCKeyOf
  PayloadOf <- MCPayloadOf
  OpenKeys <- NoKeys
  SessionOf <- MCSessionOf
  MaxSessionRecords = 1
  MaxWaiters = 2
  MaxEntries = 2
  MaxTerminals = 1
INVARIANTS CompletedIsTrue NoPlaceIsLost
PROPERTIES RunsAtMostOnce GoalsAnswered
CHECK_DEADLOCK FALSE
