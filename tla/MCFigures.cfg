SPECIFICATION AllSpec
CONSTANTS
  a = a
  b = b
  c = c
  food = food
  bread = bread
  None = None
  Word = 524288
  Scale = 2
  AmountPlaces = 1
  AmountDigits = 1
  RateDigits = 1
  Accounts = {a, b, c}
  CurrencyOf <- MCCurrencies
  Pairs <- MCPairs
  Extremes <- MCExtremes
  Texts <- MCTexts
  Commands <- MCCommands
  Base = a
  Pivot = b
  Drafts <- MCDrafts
  Moves <- MCMoves
  Quotes <- MCQuotes
  Categories = {bread}
  MonthLength = 2
  Now = 3
  PageSize = 1
  RowLimit = 3
  TypeOf <- MCTypes
  OldRows <- MCOldRows
  OldRates <- MCOldRates
  OldTree <- MCOldTree
  MaxRows = 5
  MaxRates = 5
  MaxWrites = 9
CONSTRAINT Scene
INVARIANTS
  NumbersSound
  TransfersSound
  RowsSound
  RatesInForce
  PartsAgree
