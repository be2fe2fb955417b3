-------------------------------- MODULE MCTray --------------------------------
EXTENDS Tray

\* No answer, an answer of a candidate, of this version and of the next one.
Answer(reply, final, version) ==
  [reply |-> reply, flagged |-> FALSE, final |-> final, asset |-> TRUE, version |-> version]
MCPayloads ==
  {Answer("fails", FALSE, 0), Answer("object", FALSE, 2), Answer("object", TRUE, 1),
   Answer("object", TRUE, 2)}

VARIABLE used  \* what of the menu this behaviour uses, beside Quit

\* Windows, wizards and clicks for an update share no variable: a behaviour has
\* one of them.
Init == TrayInit /\ used \in {"windows", "wizards", "updates"}
Next ==
  /\ UNCHANGED used /\ TrayNext
  /\ used # "windows" => \A k \in Windows : win'[k].n = 0
  /\ used # "wizards" => child' = NoWizard
  /\ used # "updates" => \A c \in Clicks : check'[c].stage = "idle"

Spec == Init /\ [][Next]_<<trayVars, used>> /\ TrayFairness
=============================================================================
