------------------------------ MODULE Contacts ------------------------------
(***************************************************************************)
(* The contact's row in the User table as the handlers read it through     *)
(* VariableService and write it through their own rules, which agree with  *)
(* each other only in part: a name may be read under three keys and is     *)
(* cleared under one.  An empty string stands for a value that is empty or *)
(* not there; the code that reads values takes both the same way.          *)
(* Variable names are lower case, as the code makes them.                  *)
(***************************************************************************)
EXTENDS Naturals, Sequences

CONSTANTS MetaKeys,       \* keys of the metadata column
          OwnPhone,       \* user.phone, "" if it is a @lid address
          Placeholders,   \* names that count as no name
          DigitsOf(_)     \* value.replace(/\D/g, '')

NameKeys  == {"name", "wpp_name", "nome"}
PhoneKeys == {"phone", "wpp_phone", "whatsapp", "whatsapp_real"}

\* A protocol number is 0 until one is stored: a number that is only named
\* is drawn anew the next time.
NewContact(home) ==
  [name |-> "", metadata |-> [k \in MetaKeys |-> ""], protocol |-> 0, blocked |-> FALSE,
   home |-> home]

\* Mutant: the number is drawn anew by every request.
ProtocolDrawn(user) == [user EXCEPT !.protocol = @ + 1]

\* A request to a service stores the number the contact will have from then on.
WithProtocol(user) == IF user.protocol = 0 THEN [user EXCEPT !.protocol = 1] ELSE user

MetaOf(user, key) == IF key \in MetaKeys THEN user.metadata[key] ELSE ""

\* a || b || c
FirstFilled(values) ==
  IF \A i \in DOMAIN values : values[i] = "" THEN ""
  ELSE values[CHOOSE i \in DOMAIN values :
                values[i] # "" /\ \A k \in DOMAIN values : k < i => values[k] = ""]

ContactName(user) ==
  LET name == FirstFilled(<<user.name, MetaOf(user, "name"), MetaOf(user, "wpp_name"),
                            MetaOf(user, "nome")>>)
  IN  IF name \in Placeholders THEN "" ELSE name

ContactPhone(user) ==
  FirstFilled(<<MetaOf(user, "whatsapp_real"), MetaOf(user, "phone"),
                MetaOf(user, "wpp_phone"), MetaOf(user, "whatsapp"), OwnPhone>>)

ContactVariable(user, key) ==
  CASE key \in NameKeys -> ContactName(user)
    [] key \in PhoneKeys -> ContactPhone(user)
    [] key \in {"email", "e-mail"} ->
         FirstFilled(<<MetaOf(user, "email"), MetaOf(user, "e-mail")>>)
    [] OTHER -> ""

\* VariableService.get: the contact's own attributes first, then the metadata.
Get(user, key) == FirstFilled(<<ContactVariable(user, key), MetaOf(user, key)>>)

Filled(user, keys) == \A k \in keys : Get(user, k) # ""

SetMeta(user, key, value) == [user EXCEPT !.metadata[key] = value]

\* CustomerIdentificationHandler.saveFieldValue
SaveField(user, key, value) ==
  CASE key \in {"wpp_name", "name"} -> [user EXCEPT !.name = value]
    [] key \in {"wpp_phone", "phone"} -> SetMeta(user, "whatsapp_real", DigitsOf(value))
    [] OTHER -> SetMeta(user, key, value)

\* InputHandler: a step that saves to nothing, or to the phone, saves nothing.
SaveAnswer(user, key, value) ==
  CASE key = "name" -> [user EXCEPT !.name = value]
    [] key \in {"", "phone"} -> user
    [] OTHER -> SetMeta(user, key, value)

\* ReviewHandler.clearVariable
ClearVariable(user, key) ==
  IF key = "name" THEN [user EXCEPT !.name = ""]
  ELSE IF key \in MetaKeys THEN SetMeta(user, key, "")
  ELSE user
=============================================================================
