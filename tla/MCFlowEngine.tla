---------------------------- MODULE MCFlowEngine ----------------------------
(***************************************************************************)
(* Instances of FlowEngine for TLC: small flows of each kind of step, and  *)
(* the conversions of text on the few texts a customer may write.          *)
(***************************************************************************)
EXTENDS FlowEngine, FieldValidation, TLC

MCLower(text) == IF text = "Voltar" THEN "voltar" ELSE text

MCNumberOf(text) ==
  CASE text = "0" -> {0} [] text = "1" -> {1} [] text = "2" -> {2} [] text = "3" -> {3}
    [] text = "9" -> {9} [] text = "200" -> {200} [] text = "404" -> {404}
    [] text = "500" -> {500} [] text = "5511" -> {5511} [] OTHER -> {}

MCParseInt(text) == NumberOr0(text)
MCTextOf(n) == ToString(n)
MCContains(left, right) == left = right
MCDigitsOf(text) == IF MCNumberOf(text) # {} THEN text ELSE ""
MCOptionsIn(value) ==
  CASE value = "extra" -> <<[key |-> "b", target |-> "over"]>>
    [] value = "error" -> <<[key |-> "error", target |-> "nowhere"]>>
    [] OTHER -> <<>>

\* The texts are numbers in decimal, or nothing special; either is stored as
\* it is.
MCTextSeen(text) ==
  IF MCNumberOf(text) = {} THEN Plain
  ELSE OnlyDigits(Decimal[CHOOSE n \in MCNumberOf(text) : TRUE])
MCFieldAccepts(type, text) == ValidateField(type, MCTextSeen(text))
MCInputAccepts(type, text) == ValidateAndFormat(type, MCTextSeen(text)) # {}
MCInputFormat(type, text) == text

Option(key, target) == [key |-> key, target |-> target]
FieldOf(type, variable) == [type |-> type, variable |-> variable]

Menu(back, options) ==
  [type |-> "OPTIONS", allowBack |-> back, options |-> options, dynamic |-> ""]
DynamicMenu(options, variable) == [Menu(FALSE, options) EXCEPT !.dynamic = variable]
TextStep(next) == [type |-> "TEXT", allowBack |-> FALSE, next |-> next]
MediaStep(url, next) == [type |-> "MEDIA", allowBack |-> FALSE, url |-> url, next |-> next]
DelayStep(next) == [type |-> "DELAY", allowBack |-> FALSE, next |-> next]
JumpStep(target) == [type |-> "JUMP", allowBack |-> FALSE, target |-> target]
HandoverStep == [type |-> "HANDOVER", allowBack |-> FALSE]
EndStep(timeout) == [type |-> "END", allowBack |-> FALSE, timeout |-> timeout]
SetStep(action, variable, value, next) ==
  [type |-> "SET_VARIABLE", allowBack |-> FALSE, action |-> action, variable |-> variable,
   value |-> value, next |-> next]
SwitchStep(variable, branches, default) ==
  [type |-> "SWITCH", allowBack |-> FALSE, variable |-> variable, branches |-> branches,
   default |-> default]
Branch(value, target) == [value |-> value, target |-> target]
ConditionStep(variable, operator, value, yes, no) ==
  [type |-> "CONDITION", allowBack |-> FALSE, variable |-> variable, operator |-> operator,
   value |-> value, trueStep |-> yes, falseStep |-> no]
HttpStep(saveStatus, saveBody, fallback, success, failure) ==
  [type |-> "HTTP_REQUEST", allowBack |-> FALSE, saveStatus |-> saveStatus,
   saveBody |-> saveBody, fallback |-> fallback, success |-> success, failure |-> failure,
   next |-> NoStep]
InputStep(back, expected, variable, retries, next) ==
  [type |-> "INPUT", allowBack |-> back, expected |-> expected, variable |-> variable,
   maxRetries |-> retries, next |-> next]
Identification(fields, skip, next) ==
  [type |-> "CUSTOMER_IDENTIFICATION", allowBack |-> FALSE, fields |-> fields,
   skip |-> skip, next |-> next]
ReviewStep(fields, skip, correction, next) ==
  [type |-> "REVIEW", allowBack |-> FALSE, fields |-> fields, skip |-> skip,
   correction |-> correction, next |-> next]

-----------------------------------------------------------------------------
\* Menus: the first step is the only one that does not offer "back"; one
\* option leads to a step that is not there, another goes round in circles.
MenuFlow ==
  [first |-> "root", steps |->
    [root |-> Menu(FALSE, <<Option("a", "left"), Option("b", "ask"), Option("c", "round")>>),
     left |-> Menu(TRUE, <<Option("a", "ask"), Option("b", "over"), Option("c", "lost")>>),
     ask  |-> InputStep(TRUE, "NUMBER", "age", 2, "home"),
     home |-> JumpStep("root"),
     lost |-> JumpStep("nowhere"),
     round |-> TextStep("again"),
     again |-> JumpStep("round"),
     over |-> EndStep(TRUE)]]

MenuFlows == {MenuFlow}
MenuIds == DOMAIN MenuFlow.steps \cup {"nowhere"}

\* The same with a first step that offers "back".
BackFlows == {[MenuFlow EXCEPT !.steps["root"].allowBack = TRUE]}

-----------------------------------------------------------------------------
\* An identification, its review and the correction of one field.
WhoFlow(skip) ==
  [first |-> "who", steps |->
    [who   |-> Identification(<<FieldOf("TEXT", "name"), FieldOf("NUMBER", "age")>>, skip, "check"),
     check |-> ReviewStep(<<"name", "age">>, skip, "who", "over"),
     over  |-> EndStep(FALSE)]]

WhoFlows == {WhoFlow(FALSE)}
WhoIds == DOMAIN WhoFlow(FALSE).steps

\* The same with steps that are skipped if they are filled in already.
SkippingFlows == {WhoFlow(TRUE)}

\* A conversation in the menus or at an identification.
TalkFlows == MenuFlows \cup WhoFlows
TalkIds == MenuIds \cup WhoIds

\* Two identifications; the first can be left by going back.
TwoWhoFlows ==
  {[first |-> "root", steps |->
    [root  |-> Menu(FALSE, <<Option("a", "who"), Option("b", "whom")>>),
     who   |-> [Identification(<<FieldOf("TEXT", "name"), FieldOf("NUMBER", "age")>>, FALSE, "over")
                EXCEPT !.allowBack = TRUE],
     whom  |-> Identification(<<FieldOf("TEXT", "email"), FieldOf("TEXT", "city")>>, FALSE, "over"),
     over  |-> EndStep(FALSE)]]}
TwoWhoIds == {"root", "who", "whom", "over"}
TwoWhoKeys == {"age", "email", "city"}

-----------------------------------------------------------------------------
\* Every automatic kind of step.
LogicFlow ==
  [first |-> "root", steps |->
    [root    |-> Menu(FALSE, <<Option("a", "hello"), Option("b", "call")>>),
     hello   |-> TextStep("image"),
     image   |-> MediaStep("body", "visit"),
     visit   |-> SetStep("INCREMENT", "visits", "1", "times"),
     times   |-> SwitchStep("visits", <<Branch("1", "known")>>, "reset"),
     reset   |-> SetStep("DECREMENT", "visits", "1", "whatever"),
     whatever |-> SwitchStep("", <<>>, "hand"),
     known   |-> ConditionStep("name", "IS_EMPTY", "", "pause", "over"),
     pause   |-> DelayStep("retry"),
     retry   |-> HttpStep("", "body", FALSE, NoStep, "pick"),
     call    |-> HttpStep("", "body", TRUE, "pick", NoStep),
     pick    |-> DynamicMenu(<<Option("a", "hand")>>, "body"),
     hand    |-> HandoverStep,
     INITIAL |-> Identification(<<FieldOf("TEXT", "name")>>, FALSE, "over"),
     over    |-> EndStep(TRUE)]]

\* A flow without a first step of its own; its INITIAL has more fields than
\* the step of that name in LogicFlow.
DefaultFlow ==
  [first |-> NoStep, steps |->
    [INITIAL        |-> Identification(<<FieldOf("TEXT", "name"), FieldOf("NUMBER", "visits")>>, TRUE,
                                       "MENU_PRINCIPAL"),
     MENU_PRINCIPAL |-> Menu(FALSE, <<Option("a", "INITIAL")>>)]]

WorldFlows == {LogicFlow, DefaultFlow}
WorldIds == DOMAIN LogicFlow.steps \cup DOMAIN DefaultFlow.steps \cup {"nowhere"}
WorldKeys == {"visits", "body"}
=============================================================================
