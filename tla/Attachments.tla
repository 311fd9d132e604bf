---------------------------- MODULE Attachments ----------------------------
(***************************************************************************)
(* Conversations and their attachments (lipas/conversation_store.py): the  *)
(* row of an attachment is in workspace.db, its bytes are a file under the *)
(* conversation's workspace, named by the attachment and its digest.  A    *)
(* save writes the file within its transaction, ahead of the commit; a     *)
(* reader takes row and file one after the other and checks the digest.    *)
(*                                                                         *)
(* BEGIN IMMEDIATE makes every write the only one, so that the branch for a *)
(* competing insert is never taken and is left out.                        *)
(***************************************************************************)
EXTENDS Naturals

CONSTANTS
  Hosts,
  Conversations,
  Titles,        \* what a conversation is created with: title, workspace, metadata
  Ids, Blobs,    \* of attachments; a blob stands for bytes, name and type
  NoWriter, NoRow,
  MaxUploadFaults  \* crashes, failed writes and files that others spoil

VARIABLES
  conversation,  \* lipas_chat_conversations: id -> title
  row,           \* lipas_chat_attachments: id -> conversation and content
  file,          \* files in place, by the row they are for and its id
  writer,        \* the host in a write transaction
  call,          \* what each host does
  \* history and bound
  returned,      \* what was returned: conversations created, attachments saved and read
  spoiled,       \* the files that were changed or removed by others
  uploadFaults

uploadsVars == <<conversation, row, file, writer, call, returned, spoiled,
  uploadFaults>>

Rows == [conversation : Conversations, content : Blobs]
ASSUME NoRowIsNone == NoRow \notin Titles /\ NoRow \notin Rows
ASSUME NoWriterIsNone == NoWriter \notin Hosts

NoCall == [pc |-> "idle"]

UploadsInit ==
  /\ conversation = [v \in Conversations |-> NoRow]
  /\ row = [i \in Ids |-> NoRow]
  /\ file = {} /\ spoiled = {}
  /\ writer = NoWriter
  /\ call = [h \in Hosts |-> NoCall]
  /\ returned = {}
  /\ uploadFaults = 0

UploadFault == uploadFaults < MaxUploadFaults /\ uploadFaults' = uploadFaults + 1
GoOn(h, c) == call' = [call EXCEPT ![h] = c]
\* The transaction ends, committed or rolled back, and with it the call.
EndWrite(h) == writer' = NoWriter /\ GoOn(h, NoCall)

-----------------------------------------------------------------------------
\* A conversation of that id is returned if it is the same, or refused.
Create(h, v, t) ==
  /\ call[h] = NoCall /\ writer = NoWriter
  /\ conversation[v] \in {NoRow, t}
  /\ conversation' = [conversation EXCEPT ![v] = t]
  /\ returned' = returned \cup {<<"created", v, t>>}
  /\ UNCHANGED <<row, file, writer, call, spoiled, uploadFaults>>

\* Mutant: a reused id is compared by its conversation alone.
Same_Conversation(r, s) == r.conversation = s.conversation

\* A retry of the same upload, and no other use of the id.
Same(r, s) == r = s

\* The file of a row is there and has its digest.
Intact(i, r) == <<i, r>> \in file

\* Within the transaction: an attachment that is there is returned, if its file
\* still has its bytes; otherwise the bytes go to a temporary file first.
Save(h, i, r) ==
  /\ call[h] = NoCall /\ writer = NoWriter
  /\ conversation[r.conversation] # NoRow
  /\ IF row[i] # NoRow
     THEN /\ Same(row[i], r) /\ Intact(i, row[i])
          /\ returned' = returned \cup {<<"saved", i, r>>}
          /\ UNCHANGED <<writer, call>>
     ELSE /\ writer' = h
          /\ GoOn(h, [pc |-> "place", id |-> i, row |-> r])
          /\ UNCHANGED returned
  /\ UNCHANGED <<conversation, row, file, spoiled, uploadFaults>>

\* The temporary file replaces what an earlier attempt may have left.
Place(h) ==
  /\ call[h].pc = "place"
  /\ file' = file \cup {<<call[h].id, call[h].row>>}
  /\ spoiled' = spoiled \ {<<call[h].id, call[h].row>>}
  /\ GoOn(h, [call[h] EXCEPT !.pc = "insert"])
  /\ UNCHANGED <<conversation, row, writer, returned, uploadFaults>>

\* A write that fails before its insert takes both files away.
WriteFails(h) ==
  /\ call[h].pc \in {"place", "insert"} /\ UploadFault
  /\ file' = file \ {<<call[h].id, call[h].row>>}
  /\ EndWrite(h)
  /\ UNCHANGED <<conversation, row, returned, spoiled>>

\* INSERT, and COMMIT.
Commit(h) ==
  /\ call[h].pc = "insert"
  /\ row' = [row EXCEPT ![call[h].id] = call[h].row]
  /\ returned' = returned \cup {<<"saved", call[h].id, call[h].row>>}
  /\ EndWrite(h)
  /\ UNCHANGED <<conversation, file, spoiled, uploadFaults>>

\* A commit that fails, and a crash, leave the file behind.
Abandon(h) ==
  /\ call[h] # NoCall /\ UploadFault
  /\ writer' = IF writer = h THEN NoWriter ELSE writer
  /\ GoOn(h, NoCall)
  /\ UNCHANGED <<conversation, row, file, returned, spoiled>>

-----------------------------------------------------------------------------
ReadRow(h, i) ==
  /\ call[h] = NoCall /\ row[i] # NoRow
  /\ GoOn(h, [pc |-> "open", id |-> i, row |-> row[i]])
  /\ UNCHANGED <<conversation, row, file, writer, returned, spoiled, uploadFaults>>

ReadFile(h) ==
  /\ call[h].pc = "open"
  /\ returned' = IF Intact(call[h].id, call[h].row)
             THEN returned \cup {<<"read", call[h].id, call[h].row>>} ELSE returned
  /\ GoOn(h, NoCall)
  /\ UNCHANGED <<conversation, row, file, writer, spoiled, uploadFaults>>

\* The workspace is the user's: a file may be changed, or be gone.
Spoil(f) ==
  /\ f \in file /\ UploadFault
  /\ file' = file \ {f} /\ spoiled' = spoiled \cup {f}
  /\ UNCHANGED <<conversation, row, writer, call, returned>>

UploadsNext ==
  \/ \E h \in Hosts :
       \/ \E v \in Conversations, t \in Titles : Create(h, v, t)
       \/ \E i \in Ids, r \in Rows : Save(h, i, r)
       \/ Place(h) \/ WriteFails(h) \/ Commit(h) \/ Abandon(h)
       \/ \E i \in Ids : ReadRow(h, i)
       \/ ReadFile(h)
  \/ \E f \in Ids \X Rows : Spoil(f)

UploadsSpec == UploadsInit /\ [][UploadsNext]_uploadsVars

-----------------------------------------------------------------------------
(* Property *)

\* A row never outlives its bytes: they were in place before it was committed,
\* and no failed, abandoned or repeated upload takes them away.  An id means
\* one conversation and one content for ever, whatever is uploaded under it,
\* and that is what every save and every reader was returned
\* (conversation_store.py save_attachment, read_attachment, create_conversation).
AttachmentsSound ==
  /\ \A i \in Ids :
       row[i] # NoRow =>
         /\ <<i, row[i]>> \in file \cup spoiled
         /\ conversation[row[i].conversation] # NoRow
  /\ \A t \in returned :
       IF t[1] = "created" THEN conversation[t[2]] = t[3] ELSE row[t[2]] = t[3]
=============================================================================
