CONSTANTS
  HistoryCap = 2
  JourneyCap = 1
  NoStep = "-"
  MetaKeys <- WorldKeys
  OwnPhone = "5511"
  Placeholders = {"User"}
  StepIds <- WorldIds
  Flows <- WorldFlows
  Inputs = {"a", "b"}
  HomeContact = TRUE
  MaxSteps = 12
  MaxInterrupts = 1
  MaxExpiries = 1
  MaxChanges = 1
  HttpBodies = {"extra"}
  NoInput = ""
  NoTicket = NoTicket
  NoScreen = NoScreen
  Lower <- MCLower
  NumberOf <- MCNumberOf
  ParseInt <- MCParseInt
  TextOf <- MCTextOf
  Contains <- MCContains
  DigitsOf <- MCDigitsOf
  OptionsIn <- MCOptionsIn
  FieldAccepts <- MCFieldAccepts
  InputAccepts <- MCInputAccepts
  InputFormat <- MCInputFormat
SPECIFICATION Spec
INVARIANTS
  TypeOK
  RestsAtPrompt
  ProtocolKept
PROPERTIES
  WorkRunsDown
