---------------------------- MODULE SessionStore ----------------------------
(***************************************************************************)
(* What StateService keeps in Redis for a conversation, as operators on    *)
(* its values: the current step, the list of steps for "back", the journey *)
(* (what happened, for the ticket) and the metadata hash.                  *)
(***************************************************************************)
EXTENDS Naturals, Sequences

CONSTANTS HistoryCap,   \* steps kept for "back" (10 in the code)
          JourneyCap,   \* journey events kept (50 in the code)
          NoStep        \* no key, null

ASSUME StoreAssumption ==
  /\ HistoryCap \in Nat \ {0}
  /\ JourneyCap \in Nat \ {0}

\* LTRIM key 0 n-1
Trim(list, n) == SubSeq(list, 1, IF Len(list) < n THEN Len(list) ELSE n)

\* LPUSH and LTRIM: newest first, the oldest steps are forgotten.
PushHistory(history, id) == Trim(<<id>> \o history, HistoryCap)

PopHistory(history) == IF history = <<>> THEN history ELSE Tail(history)

PeekHistory(history) == IF history = <<>> THEN NoStep ELSE Head(history)

\* Mutant: no LTRIM.
PushJourneyUntrimmed(journey, event) == Append(journey, event)

\* RPUSH and LTRIM: oldest first, and it is the newest event that is lost
\* once the journey is full.
PushJourney(journey, event) == Trim(Append(journey, event), JourneyCap)

\* The metadata hash.  A retry counter or a field index that is not there
\* reads as 0, a flag that is not there as not set.
Metadata(Steps) ==
  [review_mode   : BOOLEAN,             \* "SELECT_FIELD" or not there
   field_idx     : Nat,                 \* identification_field_idx
   edit_one_mode : BOOLEAN,
   force_review_once : BOOLEAN,
   retries       : [Steps -> Nat]]      \* input_retries_<step>

NoMetadata(Steps) ==
  [review_mode |-> FALSE, field_idx |-> 0, edit_one_mode |-> FALSE,
   force_review_once |-> FALSE, retries |-> [s \in Steps |-> 0]]
=============================================================================
