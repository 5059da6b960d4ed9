----------------------------- MODULE SharePage -----------------------------
(***************************************************************************)
(* What the user does on the page before a transfer (app.js): walking      *)
(* between the views, picking files, typing a room code; and the two       *)
(* buttons that talk to the server.  Module SignalingClient adds what      *)
(* happens when they are pressed.                                          *)
(*                                                                         *)
(* A file stands for its name and size, a box of the room code for being   *)
(* filled or not.                                                          *)
(***************************************************************************)
EXTENDS Naturals, Sequences, SequencesExt

CONSTANTS
    File,           \* the files on the user's disk, none of them empty
    CodeLength      \* number of boxes

ASSUME PageAssumption == CodeLength \in Nat \ {0}

Button == {"create", "join"}        \* btnCreateRoom, btnJoinRoom
Boxes == 1..CodeLength

VARIABLES
    view,               \* the active view
    selectedFiles,
    listed,             \* the rendered file list, with a remove button each
    area,               \* "drop" zone or "list" container visible, or neither
    picker,             \* the file dialog is open, and blocks the page
    roomCodeInputs,     \* which boxes are filled
    button              \* state of the two buttons

pageVars == <<view, selectedFiles, listed, area, picker, roomCodeInputs, button>>

-----------------------------------------------------------------------------
OffButton == [disabled |-> TRUE, hidden |-> FALSE, connecting |-> FALSE]

Full(boxes) == \A i \in Boxes : boxes[i]

EmptyBoxes == [i \in Boxes |-> FALSE]

UpdateJoinButton ==
    button' = [button EXCEPT !["join"].disabled = ~Full(roomCodeInputs')]

(* The user can click in view v.                                           *)
At(v) == view = v /\ ~picker

UpdateFileListUI_KeepDisabled(files) ==     \* mutant: an emptied list leaves
    /\ IF files = <<>>                      \* the button off for ever
       THEN area' = "drop" /\ UNCHANGED listed
       ELSE area' = "list" /\ listed' = files
    /\ button' = [button EXCEPT !["create"].disabled = @ \/ files = <<>>]

UpdateFileListUI(files) ==
    /\ IF files = <<>>
       THEN area' = "drop" /\ UNCHANGED listed
       ELSE area' = "list" /\ listed' = files
    /\ button' = [button EXCEPT !["create"].disabled = (files = <<>>)]

-----------------------------------------------------------------------------
(* addFiles, after the dialog or a drop: a duplicate is left out.          *)
AddFiles ==
    /\ picker \/ (At("send") /\ area = "drop")
    /\ picker' = FALSE
    /\ \E f \in File : selectedFiles' = IF Contains(selectedFiles, f)
                                        THEN selectedFiles
                                        ELSE Append(selectedFiles, f)
    /\ UpdateFileListUI(selectedFiles')
    /\ UNCHANGED <<view, roomCodeInputs>>

OpenPicker ==
    /\ At("send") /\ area # "none"
    /\ picker' = TRUE
    /\ UNCHANGED <<view, selectedFiles, listed, area, roomCodeInputs, button>>

RemoveFile_NoRefresh ==     \* mutant: the other items keep their index
    /\ At("send") /\ area = "list"
    /\ \E i \in 1..Len(listed) : selectedFiles' = RemoveAt(selectedFiles, i)
    /\ UNCHANGED <<view, listed, area, picker, roomCodeInputs, button>>

(* A remove button carries the index its item was rendered with.           *)
RemoveFile ==
    /\ At("send") /\ area = "list"
    /\ \E i \in 1..Len(listed) : selectedFiles' = RemoveAt(selectedFiles, i)
    /\ UpdateFileListUI(selectedFiles')
    /\ UNCHANGED <<view, picker, roomCodeInputs>>

ClearAll ==
    /\ At("send") /\ area = "list"
    /\ selectedFiles' = <<>>
    /\ UpdateFileListUI(<<>>)
    /\ UNCHANGED <<view, picker, roomCodeInputs>>

-----------------------------------------------------------------------------
(* The boxes: typing or deleting a character, Backspace in an empty box,   *)
(* and pasting, which fills from the first box whichever has the focus.    *)
EditBoxes(boxes) ==
    /\ At("receive") /\ ~button["join"].hidden
    /\ roomCodeInputs' = boxes
    /\ UpdateJoinButton
    /\ UNCHANGED <<view, selectedFiles, listed, area, picker>>

TypeBox ==
    \E i \in Boxes : EditBoxes([roomCodeInputs EXCEPT ![i] = ~@])

Backspace ==
    \E i \in Boxes \ {1} : /\ ~roomCodeInputs[i]
                           /\ EditBoxes([roomCodeInputs EXCEPT ![i - 1] = FALSE])

Paste ==
    \E n \in Boxes : EditBoxes([i \in Boxes |-> i <= n \/ roomCodeInputs[i]])

-----------------------------------------------------------------------------
(* resetSendView and resetReceiveView.                                     *)
ResetViews(views) ==
    /\ IF "send" \in views
       THEN selectedFiles' = <<>> /\ listed' = <<>> /\ area' = "drop"
       ELSE UNCHANGED <<selectedFiles, listed, area>>
    /\ roomCodeInputs' = IF "receive" \in views THEN EmptyBoxes
                         ELSE roomCodeInputs
    /\ button' = [b \in Button |->
                     IF (IF b = "create" THEN "send" ELSE "receive") \in views
                     THEN OffButton ELSE button[b]]

GoTo(v) ==
    /\ At("home")
    /\ view' = v
    /\ UNCHANGED <<selectedFiles, listed, area, picker, roomCodeInputs, button>>

(* Back, or "Another ..." when a room has been entered.                    *)
Back(v) ==
    /\ At(v)
    /\ ResetViews({v})
    /\ view' \in {"home"} \cup
           (IF \E b \in Button : button[b].hidden THEN {v} ELSE {})
    /\ UNCHANGED picker

LogoHome ==
    /\ ~picker
    /\ ResetViews({"send", "receive"})
    /\ view' = "home"
    /\ UNCHANGED picker

-----------------------------------------------------------------------------
(* What the signaling handlers of app.js do to the buttons.                *)
Press(b) ==
    [button EXCEPT ![b].disabled = TRUE, ![b].connecting = TRUE]

Enable_CreateOnly(btns, which) ==       \* mutant: Join is left as it was
    [b \in Button |-> IF b \in which \cap {"create"}
                      THEN [btns[b] EXCEPT !.disabled = FALSE, !.connecting = FALSE]
                      ELSE btns[b]]

(* The catch of a click enables its button, onError enables both.          *)
Enable(btns, which) ==
    [b \in Button |-> IF b \in which
                      THEN [btns[b] EXCEPT !.disabled = FALSE, !.connecting = FALSE]
                      ELSE btns[b]]

OnRoomCreated ==
    /\ button' = [button EXCEPT !["create"].hidden = TRUE,
                                !["create"].connecting = FALSE]
    /\ area' = "none"
    /\ UNCHANGED <<view, selectedFiles, listed, picker, roomCodeInputs>>

OnRoomJoined ==
    /\ button' = [button EXCEPT !["join"].hidden = TRUE]
    /\ UNCHANGED <<view, selectedFiles, listed, area, picker, roomCodeInputs>>

-----------------------------------------------------------------------------
PageInit ==
    /\ view = "home"
    /\ selectedFiles = <<>> /\ listed = <<>>
    /\ area = "drop"
    /\ picker = FALSE
    /\ roomCodeInputs = EmptyBoxes
    /\ button = [b \in Button |-> OffButton]

PageNext ==
    \/ AddFiles \/ OpenPicker \/ RemoveFile \/ ClearAll
    \/ TypeBox \/ Backspace \/ Paste
    \/ \E v \in {"send", "receive"} : GoTo(v) \/ Back(v)
    \/ LogoHome

PageTypeOK ==
    /\ view \in {"home", "send", "receive"}
    /\ selectedFiles \in Seq(File) /\ listed \in Seq(File)
    /\ area \in {"drop", "list", "none"}
    /\ picker \in BOOLEAN
    /\ roomCodeInputs \in [Boxes -> BOOLEAN]
    /\ button \in [Button -> [disabled : BOOLEAN, hidden : BOOLEAN,
                              connecting : BOOLEAN]]

(* Remove buttons go by index (app.js:233): the list on the screen is the  *)
(* list that will be sent, item by item, after whatever edits, resets and  *)
(* server messages have come in between.                                   *)
ListIsTrue == area = "list" => listed = selectedFiles

(* No dead button: with files picked, or a complete code typed, and no     *)
(* click under way, the visible button can be pressed, whichever of the    *)
(* many handlers that switch it on and off came last.                      *)
NoDeadButton ==
    \A b \in Button :
        /\ ~button[b].hidden /\ ~button[b].connecting
        /\ IF b = "create" THEN selectedFiles # <<>> ELSE Full(roomCodeInputs)
        => ~button[b].disabled
=============================================================================
