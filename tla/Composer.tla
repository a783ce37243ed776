------------------------------ MODULE Composer ------------------------------
(***************************************************************************)
(* The composer of a chat (ChatPane.tsx, ui/ChatComposer.tsx,              *)
(* ui/MicButton.tsx): its text and files, the draft the layout keeps of    *)
(* the text, the message on its way, a message put in by the left rail,    *)
(* the menu of commands, the model and the microphone.                     *)
(*                                                                         *)
(* Each tab has a pane of its own, which is mounted while the tab is in    *)
(* front.  A text is the chat it was typed in and when.                    *)
(***************************************************************************)
EXTENDS Requests

CONSTANTS
  Scope,    \* [chat |-> the scope its tab is in]
  Files, Models,
  Budgets

Chats == DOMAIN Scope

Text == [of |-> view.chat, n |-> left.looks]

Quiet == [listening |-> FALSE, recog |-> None, live |-> {}]

Pane(chat, text) ==
  [chat |-> chat, input |-> text, timer |-> None, uploads |-> {}, uploading |-> FALSE,
   err |-> FALSE, slash |-> FALSE, commands |-> FALSE, model |-> None, mic |-> Quiet]

\* `server` holds the drafts of the layout, what has arrived, what the rail
\* has put in, and the model of each chat.
Init ==
  \E chat \in Chats, model \in Models, b \in Budgets :
    /\ left = b /\ calls = {}
    /\ server = [drafts |-> [c \in Chats |-> None], got |-> {}, pending |-> None,
                 carried |-> {}, model |-> model]
    /\ view = [Pane(chat, None) EXCEPT !.model = model]

-----------------------------------------------------------------------------
(* Drafts.                                                                 *)

\* Only a tab of the scope in front has a draft to write.
setChatDraft(s, front, chat, text) ==
  IF front = None \/ Scope[front] # Scope[chat] THEN s ELSE [s EXCEPT !.drafts[chat] = text]

SentFrom(chat, text) ==
  \/ [chat |-> chat, text |-> text] \in server.got
  \/ \E r \in calls : r.kind = "send" /\ r.arg.chat = chat /\ r.arg.text = text

\* Unmounting writes a text whose timer is still running, to the chat that
\* is in front by now.  `carried` remembers texts which that chat has sent.
Flushed(s, front) ==
  IF view.timer = None \/ front = None THEN s
  ELSE [setChatDraft(s, front, front, view.input) EXCEPT !.carried =
          IF SentFrom(front, view.input) THEN @ \cup {[chat |-> front, text |-> view.input]} ELSE @]

\* `front` is a tab of another kind when it is None.
Activate(chat) ==
  /\ chat # view.chat /\ Spend("looks")
  /\ server' = Flushed(server, chat)
  /\ view' = [Pane(chat, IF chat = None THEN None ELSE server'.drafts[chat]) EXCEPT !.model = server.model]
  /\ calls' = {[r EXCEPT !.arg.mine = FALSE] : r \in calls}

Shown == view.chat # None

Typed(v, text) == [v EXCEPT !.input = text, !.timer = [text |-> text]]

Type ==
  /\ Shown /\ Spend("looks")
  /\ \E slash \in BOOLEAN : view' = [Typed(view, Text) EXCEPT !.slash = slash]
  /\ UNCHANGED <<server, calls>>

\* A saved prompt, or what has been dictated, at the cursor.
InsertPrompt ==
  /\ Shown /\ Spend("looks")
  /\ view' = Typed(view, Text)
  /\ UNCHANGED <<server, calls>>

Dictate ==
  /\ view.mic.live # {}
  /\ InsertPrompt

Erase ==
  /\ Shown /\ view.input # None
  /\ view' = [Typed(view, None) EXCEPT !.slash = FALSE]
  /\ UNCHANGED <<server, calls, left>>

DraftTimer ==
  /\ view.timer # None
  /\ server' = setChatDraft(server, view.chat, view.chat, view.timer.text)
  /\ view' = [view EXCEPT !.timer = None]
  /\ UNCHANGED <<calls, left>>

-----------------------------------------------------------------------------
(* The menu of commands.                                                   *)

ListCommands ==
  /\ Shown /\ ~view.commands
  /\ Asks("commands", [mine |-> TRUE])
  /\ UNCHANGED <<view, server>>

CommandsDone(r) ==
  /\ r.arg.mine /\ Takes(r, "commands")
  /\ view' = [view EXCEPT !.commands = r.reply # Failed]
  /\ UNCHANGED <<server, left>>

suggestions(v) == v.commands

MenuShown(v) == v.slash /\ suggestions(v)

\* The text is rewritten without the editor's telling of it.
applySlash ==
  /\ Shown /\ MenuShown(view) /\ view.input # None /\ Spend("looks")
  /\ view' = [view EXCEPT !.input = Text, !.slash = FALSE]
  /\ UNCHANGED <<server, calls>>

DismissSlash ==
  /\ view.slash
  /\ view' = [view EXCEPT !.slash = FALSE]
  /\ UNCHANGED <<server, calls, left>>

-----------------------------------------------------------------------------
(* Files.                                                                  *)

uploadFileList(file) ==
  /\ Shown
  /\ Asks("upload", [mine |-> TRUE, file |-> file])
  /\ view' = [view EXCEPT !.uploading = TRUE, !.err = FALSE]
  /\ UNCHANGED server

\* They join whatever is attached by then.
UploadDone(r) ==
  /\ r.arg.mine /\ Takes(r, "upload")
  /\ view' = [view EXCEPT !.uploads = IF r.reply = Failed THEN @ ELSE @ \cup {r.arg.file},
                          !.uploading = FALSE, !.err = @ \/ r.reply = Failed]
  /\ UNCHANGED <<server, left>>

\* Pasted rather than picked or dropped.
PasteFiles == \E file \in Files : uploadFileList(file)

removeUpload(file) ==
  /\ file \in view.uploads
  /\ view' = [view EXCEPT !.uploads = @ \ {file}]
  /\ UNCHANGED <<server, calls, left>>

-----------------------------------------------------------------------------
(* Sending.                                                                *)

Message(chat, text, files, mine) == [mine |-> mine, chat |-> chat, text |-> text, files |-> files, keep |-> TRUE]

Sendable(v) == Shown /\ (v.input # None \/ v.uploads # {})

sendKeepingTheTimer ==
  /\ Sendable(view)
  /\ Asks("send", Message(view.chat, view.input, view.uploads, TRUE))
  /\ view' = [view EXCEPT !.input = None, !.uploads = {}]
  /\ server' = setChatDraft(server, view.chat, view.chat, None)

\* The composer and the draft are emptied before the answer; what was in
\* them is in the message, whose failure puts it back.
send ==
  /\ Sendable(view)
  /\ Asks("send", Message(view.chat, view.input, view.uploads, TRUE))
  /\ view' = [view EXCEPT !.input = None, !.uploads = {}, !.timer = None]
  /\ server' = setChatDraft(server, view.chat, view.chat, None)

\* The key sends, unless the menu takes it.
Enter == IF MenuShown(view) THEN applySlash ELSE send

SendDone(r) ==
  /\ r.reply # Failed /\ Takes(r, "send")
  /\ UNCHANGED <<view, server, left>>

\* A pane that is gone cannot be given its text back, the draft can.
SendFailed(r) ==
  /\ r.reply = Failed /\ Takes(r, "send")
  /\ view' = IF ~r.arg.mine THEN view
             ELSE [view EXCEPT !.input = IF r.arg.keep THEN r.arg.text ELSE @,
                               !.uploads = IF r.arg.keep THEN r.arg.files ELSE @, !.err = TRUE]
  /\ server' = IF r.arg.keep THEN setChatDraft(server, view.chat, r.arg.chat, r.arg.text) ELSE server
  /\ UNCHANGED left

\* The rail leaves a message for a chat, or for any chat that comes to the
\* front next.
Inject(chat) ==
  /\ server.pending = None /\ Spend("looks")
  /\ server' = [server EXCEPT !.pending = [chat |-> chat, text |-> [of |-> "rail", n |-> left.looks]]]
  /\ UNCHANGED <<view, calls>>

\* Nothing keeps its text if it fails.
TakeInjection ==
  /\ Shown /\ server.pending # None /\ server.pending.chat \in {None, view.chat}
  /\ Asks("send", [Message(view.chat, server.pending.text, {}, TRUE) EXCEPT !.keep = FALSE])
  /\ server' = [server EXCEPT !.pending = None]
  /\ UNCHANGED view

-----------------------------------------------------------------------------
(* The model and the microphone.                                           *)

changeModel(model) ==
  /\ Shown /\ model # view.model
  /\ Asks("model", [mine |-> TRUE, model |-> model])
  /\ UNCHANGED <<view, server>>

ModelDone(r) ==
  /\ r.arg.mine /\ Takes(r, "model")
  /\ view' = IF r.reply = Failed THEN [view EXCEPT !.err = TRUE] ELSE [view EXCEPT !.model = r.reply]
  /\ UNCHANGED <<server, left>>

MicStart ==
  /\ Shown /\ ~view.mic.listening /\ Spend("looks")
  /\ view' = [view EXCEPT !.mic = [listening |-> TRUE, recog |-> left.looks,
                                   live |-> @.live \cup {left.looks}]]
  /\ UNCHANGED <<server, calls>>

\* The engine is told to stop and says when it has.
MicStop ==
  /\ view.mic.listening
  /\ view' = [view EXCEPT !.mic.listening = FALSE, !.mic.recog = None]
  /\ UNCHANGED <<server, calls, left>>

\* The end of an engine, which need not be the one that listens now.
MicEnd(session) ==
  /\ session \in view.mic.live
  /\ view' = [view EXCEPT !.mic = [listening |-> FALSE, recog |-> None, live |-> @.live \ {session}]]
  /\ UNCHANGED <<server, calls, left>>

-----------------------------------------------------------------------------
(* The server.                                                             *)

\* A message is dispatched or queued (modelled in ChatDispatch).
ServeSend(r) ==
  /\ r.kind = "send" /\ Answers(r, "ok")
  /\ server' = [server EXCEPT !.got = @ \cup {[chat |-> r.arg.chat, text |-> r.arg.text]}]
  /\ UNCHANGED <<view, left>>

ServeModel(r) ==
  /\ r.kind = "model" /\ Answers(r, r.arg.model)
  /\ server' = [server EXCEPT !.model = r.arg.model]
  /\ UNCHANGED <<view, left>>

ServeOther(r) == r.kind \in {"commands", "upload"} /\ Answers(r, "ok") /\ UNCHANGED <<view, server, left>>

Forgotten(r) ==
  /\ ~r.arg.mine /\ r.kind # "send" /\ Takes(r, r.kind)
  /\ UNCHANGED <<view, server, left>>

Next ==
  \/ Type \/ InsertPrompt \/ Dictate \/ PasteFiles \/ Enter \/ Erase \/ DraftTimer \/ ListCommands \/ applySlash \/ DismissSlash \/ send
  \/ TakeInjection \/ MicStart \/ MicStop
  \/ \E chat \in Chats \cup {None} : Activate(chat) \/ Inject(chat)
  \/ \E file \in Files : uploadFileList(file) \/ removeUpload(file)
  \/ \E model \in Models : changeModel(model)
  \/ \E session \in view.mic.live : MicEnd(session)
  \/ \E r \in calls :
       \/ CommandsDone(r) \/ UploadDone(r) \/ SendDone(r) \/ SendFailed(r) \/ ModelDone(r)
       \/ ServeSend(r) \/ ServeModel(r) \/ ServeOther(r) \/ Forgotten(r) \/ Fails(r)

Spec == Init /\ [][Next]_panelVars

-----------------------------------------------------------------------------
(* Properties.                                                             *)

\* What the server has got in a chat is nowhere in that chat's composer any
\* more, neither in its text nor in its draft nor in a timer that would make
\* it one, unless another chat's pane has carried it back: sending it again
\* takes typing it again.
SentIsGone ==
  \A m \in server.got \ server.carried : m.text # None =>
    /\ server.drafts[m.chat] # m.text
    /\ view.chat = m.chat =>
         view.input # m.text /\ (view.timer # None => view.timer.text # m.text)
=============================================================================
