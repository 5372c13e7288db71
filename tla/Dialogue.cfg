\* One account, from the form it is registered with to its deletion.
SPECIFICATION Spec
CONSTANTS
  None = None
  Names <- MCNames
  Emails <- MCEmails
  Passwords <- MCPasswords
  Limits <- MCLimits
  NotAnInteger = NotAnInteger
  Draws <- MCDraws
  ByteBits = 1
  Milli = 2
  Second = 4
  AccessTTL = 6
  Epoch = 31
  MaxClock = 5
INVARIANTS SameStory SameRow AllAtOnce NothingToldTwice ForeignIdsAlike StoredIsNormal
PROPERTIES IdsSortByTime
