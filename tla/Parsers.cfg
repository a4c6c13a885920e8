SPECIFICATION ParsersSpec
CONSTANTS
  ClientName = client
  Sections = {client, server}
  OtherNames = {other}
  Numbers = {70000}
  Words = {word}
  NoText = NoText
  MaxLines = 4
  NumTokens = 4
  MaxText = 6
INVARIANTS ParsersTypeOK ConfigAsWritten TokensAreTheTree ResultIsRight AnswerUnderstood
CHECK_DEADLOCK FALSE
