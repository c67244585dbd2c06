--------------------------- MODULE SerialSessions ---------------------------
(***************************************************************************)
(* What the processing lock of the bot promises, with the lock abstracted  *)
(* away: a message is worked on, then settled, and a conversation (one     *)
(* contact on one WhatsApp instance) is worked on by one message at a time.*)
(* MessageLock implements this specification as long as no message takes   *)
(* longer than the lock lives.                                             *)
(***************************************************************************)
CONSTANTS Messages,   \* inbound messages
          Sessions,   \* conversations: pairs of an instance and a phone
          SessionOf   \* the conversation of each message

VARIABLE stage        \* how far each message is

Move(m, to) == stage' = [stage EXCEPT ![m] = to]

Init == stage = [m \in Messages |-> "pending"]

\* Work on a message starts only while its conversation is at rest.
Begin(m) ==
  /\ stage[m] = "pending"
  /\ \A n \in Messages : SessionOf[n] = SessionOf[m] => stage[n] # "serving"
  /\ Move(m, "serving")

Answer(m) == stage[m] = "serving" /\ Move(m, "answered")

\* A message without text, or one whose conversation stays busy, is not
\* worked on.
Refuse(m) == stage[m] = "pending" /\ Move(m, "refused")

Settle(m) == stage[m] \in {"answered", "refused"} /\ Move(m, "settled")

\* The process working on the message dies; the queue delivers it again.
Redeliver(m) == stage[m] \in {"serving", "answered", "refused"} /\ Move(m, "pending")

\* ... or gives it up for good.
Abandon(m) == stage[m] = "pending" /\ Move(m, "settled")

Next == \E m \in Messages :
          \/ Begin(m) \/ Answer(m) \/ Refuse(m)
          \/ Settle(m) \/ Redeliver(m) \/ Abandon(m)

Spec == Init /\ [][Next]_stage
=============================================================================
