--------------------------------- MODULE Dialogs ---------------------------------
(***************************************************************************)
(* The dialogs of lxdialog and of nconf side by side: lists, a text and a  *)
(* line that is edited.  None reads what another draws or keeps.           *)
(***************************************************************************)
EXTENDS LxMenu, LxText, LxInput

(* After any keys and resizes the screen shows what the dialog holds: each *)
(* row its item and the choice in view, the window of a text with its      *)
(* flags, and an input field with the cursor at the character a key        *)
(* changes.                                                                *)
ScreenIsTrue ==
  /\ ScreenTrue /\ ChoiceInView
  /\ FlagsTrue /\ LinesKept
  /\ TextAsTyped /\ FieldTrue
==================================================================================
