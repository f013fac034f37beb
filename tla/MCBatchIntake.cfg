SPECIFICATION IntakeSpec
CONSTANTS
  MaxFile = 5
  Files <- MCFiles
  Valuations <- MCValuations
  RefusedTexts <- MCRefusedTexts
  SupportedCurrencies <- MCCurrencies
  UpperCase <- MCUpperCase
  InstantOf <- MCInstantOf
  ScoreOf <- MCScoreOf
  MaxLineBytes = 2
  MaxResumes = 1
  BatchSize = 2
  MaxIdLength = 2
  MaxCents = 200
  MaxDescriptionLength = 2
CHECK_DEADLOCK FALSE
INVARIANTS
  IntakeTypeOK
  NoByteLost
  LinesAreTheFiles
  ScreenedOnce
  OutcomeIsTheFiles
  StoredIsCanonical
  FatalRecordsAreKnown
