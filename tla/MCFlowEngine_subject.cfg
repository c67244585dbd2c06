CONSTANTS
  HistoryCap = 3
  JourneyCap = 2
  NoStep = "-"
  MetaKeys <- TwoWhoKeys
  OwnPhone = "5511"
  Placeholders = {"User"}
  StepIds <- TwoWhoIds
  Flows <- TwoWhoFlows
  Inputs = {"a", "b", "1", "0"}
  HomeContact = TRUE
  MaxSteps = 6
  MaxInterrupts = 0
  MaxExpiries = 0
  MaxChanges = 0
  HttpBodies = {"plain"}
  NoInput = ""
  NoTicket = NoTicket
  NoScreen = NoScreen
  Lower <- MCLower
  NumberOf <- MCNumberOf
  ParseInt <- MCParseInt
  TextOf <- MCTextOf
  Contains <- MCContains
  DigitsOf <- MCDigitsOf
  OptionsIn <- MCOptionsIn
  FieldAccepts <- MCFieldAccepts
  InputAccepts <- MCInputAccepts
  InputFormat <- MCInputFormat
SPECIFICATION Spec
PROPERTIES
  IdentificationComplete
