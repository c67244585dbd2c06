CONSTANTS
  HistoryCap = 3
  JourneyCap = 6
  NoStep = "-"
  MetaKeys = {"age"}
  OwnPhone = "5511"
  Placeholders = {"User"}
  StepIds <- MenuIds
  Flows <- BackFlows
  Inputs = {"a", "b", "c", "Voltar", "1"}
  HomeContact = TRUE
  MaxSteps = 6
  MaxInterrupts = 0
  MaxExpiries = 0
  MaxChanges = 0
  HttpBodies = {"plain"}
  NoInput = ""
  NoTicket = NoTicket
  NoScreen = NoScreen
  Lower <- MCLower
  NumberOf <- MCNumberOf
  ParseInt <- MCParseInt
  TextOf <- MCTextOf
  Contains <- MCContains
  DigitsOf <- MCDigitsOf
  OptionsIn <- MCOptionsIn
  FieldAccepts <- MCFieldAccepts
  InputAccepts <- MCInputAccepts
  InputFormat <- MCInputFormat
SPECIFICATION Spec
INVARIANTS
  BackMovesOn
