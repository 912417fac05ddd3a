SPECIFICATION FairSpec
CONSTANTS
  Sample = {"e", "y"}
  MaxChars = 13
  NumBits = 4
  MulBits = 3
  ShiftBits = 2
  EncodeTable <- MCTable
  NbRegisters = 2
  StepLists <- MCStepLists
  NbCalls = 30
  Sources = {0, 1, 3}
  Outputs = {0, 1, 2, 4, 5}
  Tails = {0, 1}
  BufferRoom = 2
  WorkSize = 4
  RequestLists <- MCRequestLists
  Players = {p1, p2}
  Damages = {40, 90}
  Heals = {50, 74}
  LifeGains = {0, 16}
  FirstLives = {100, 130}
  MaxBattles = 2
  Fighters = {1, 2, 3, 4}
  MaxRounds = 2
  Runners = {r1, r2}
  Getter = g
  RingSize = 6
  Files <- MCFiles
  Wanted = {65, 12354}
  Unreadable = Unreadable
  Sizes <- MCSizes
  Seeds = {0, 100, 201}
  DimLimit = 2
  IntLimit = 32
  Uppers = {"A", "B"}
  Lowers = {"a", "b"}
  Digits = {"0"}
  WordLength = 5
  MinLetters = 1
  MaxAttempts = 2
INVARIANT TypeOK
INVARIANT RoundTrip
INVARIANT CodeStands
INVARIANT InputFollowsSteps
INVARIANT PressHolds
INVARIANT FileIsStream
INVARIANT HpWithinLife
INVARIANT EveryoneOnce
INVARIANT PrintsAllButOvertaken
INVARIANT GlyphsStand
INVARIANT FileShows
INVARIANT FreshWords
PROPERTY WholeEnds
PROPERTY RoundEnds
PROPERTY Test3Ends
CHECK_DEADLOCK FALSE
