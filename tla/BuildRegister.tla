---------------------------- MODULE BuildRegister ----------------------------
(***************************************************************************)
(* What the recipe engine expects of the stream its build is shown on: the  *)
(* reader sees values the build really had, in the order it had them, it    *)
(* may miss some of them, and when the stream is closed it has seen the     *)
(* last one, unless the connection broke.                                   *)
(***************************************************************************)
VARIABLES current, published, status

vars == <<current, published, status>>

Init == status = "open" /\ published = current

\* Any change of the build, a part of the build that changes twice included.
Change == status = "open" /\ current' # current /\ UNCHANGED <<published, status>>

\* The reader sees the build as it is now, never an older one.
Publish == status # "closed" /\ published' = current /\ UNCHANGED <<current, status>>

Break == status = "open" /\ status' = "broken" /\ UNCHANGED <<current, published>>
ChangeUnseen == status = "broken" /\ current' # current /\ UNCHANGED <<published, status>>

Close ==
  /\ status = "broken" \/ (status = "open" /\ published = current)
  /\ status' = "closed" /\ UNCHANGED <<current, published>>

Next == Change \/ Publish \/ Break \/ ChangeUnseen \/ Close
Spec == Init /\ [][Next]_vars
=============================================================================
