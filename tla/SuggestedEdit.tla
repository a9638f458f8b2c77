--------------------------- MODULE SuggestedEdit ---------------------------
(***************************************************************************)
(* What the writing assistant promises to the user of the note editor,     *)
(* without runs, tokens and snapshots: a suggestion is asked for and then  *)
(* accepted, which adds it to the text as it is and changes nothing else,  *)
(* or declined, which changes nothing.  Nobody edits meanwhile.  Only an   *)
(* undo or redo under a pending suggestion voids the promise about it.     *)
(***************************************************************************)
CONSTANTS Requests, None

VARIABLES text,      \* the set of changes in the note
          pending,   \* the request that waits for the user's answer
          disturbed  \* whether an undo or redo came under it

vars == <<text, pending, disturbed>>

Init == text = {} /\ pending = None /\ disturbed = FALSE

Ask ==
  /\ pending = None /\ pending' \in Requests
  /\ disturbed' = FALSE
  /\ UNCHANGED text

Accept ==
  /\ pending # None /\ pending' = None
  /\ ~disturbed => text' = text \cup {<<"draft", pending>>}
  /\ <<"draft", pending>> \in text'
  /\ disturbed' = FALSE

\* Declined, or the editor was closed.
Decline ==
  /\ pending' = None
  /\ ~disturbed => UNCHANGED text
  /\ disturbed' = FALSE

Edit == pending = None /\ text \subseteq text' /\ UNCHANGED <<pending, disturbed>>

\* Back to a text the note has had; which one is the undo manager's business.
Revert == disturbed' = (pending # None) /\ UNCHANGED pending

Next == Ask \/ Accept \/ Decline \/ Edit \/ Revert
Spec == Init /\ [][Next]_vars
=============================================================================
