--------------------------- MODULE WhatsAppImport ---------------------------
(***************************************************************************)
(* WhatsApp ingestion: WhatsAppIngestor::ingest of host/src/whatsapp.rs    *)
(* over the participants and messages tables of repository/src/whatsapp.rs.*)
(*                                                                         *)
(* An export is what the parser made of an uploaded file.  Uploads run on  *)
(* connections of their own, so the statements of one interleave with      *)
(* those of another; none is in a transaction, and the process may die     *)
(* between any two.  Hashes are injective here, so a hash is its input.    *)
(***************************************************************************)
EXTENDS Integers, Sequences, FiniteSets

CONSTANTS
  Export,      \* what is uploaded: chat, uploader, lines
  MaxCrashes   \* bound

\* A line: the message (text and instant) and the sender as this export shows
\* it: kind, and the name or number.
SenderKind == {"system", "you", "name", "phone"}

ASSUME WhatsAppImportConstants ==
  /\ \A e \in Export : Len(e.lines) \in Nat \ {0}
  /\ \A e \in Export : \A i \in 1..Len(e.lines) :
       /\ e.lines[i].sender.kind \in SenderKind
       /\ e.lines[i].sender.kind = "phone" => e.lines[i].sender.text # ""
  /\ MaxCrashes \in Nat

VARIABLES
  participants,   \* rows: id, chat, phone ("" for NULL), aliases
  messages,       \* rows, as their fingerprints: chat, stamp, author
  upload,         \* upload[e]: the ingest of e
  crashes,
  finished,       \* history: exports ingested to the end at least once
  landed          \* history, landed[e][i]: rows that line i of e was saved as

tables == <<participants, messages>>
vars == <<tables, upload, crashes, finished, landed>>

NoAuthor == <<"none">>
System == <<"system">>
Self(uploader) == <<"self", uploader>>

\* new_participant: the id is derived from the name or the phone hash.
ParticipantId(sender) == <<"p", sender.text>>

\* idle: not in ingest.  resolving: before a line's lookup.  creating: the
\* lookup found nobody.  saving: the author is known.
Label == {"idle", "resolving", "creating", "saving"}

NoUpload == [pc |-> "idle", line |-> 1, author |-> NoAuthor]

Fingerprint(e, i, author) ==
  [chat |-> e.chat, stamp |-> e.lines[i].stamp, author |-> author]

TypeOK ==
  /\ \A p \in participants : p.id[1] = "p" /\ p.chat \in {e.chat : e \in Export}
  /\ \A m \in messages : m.author # NoAuthor /\ m.chat \in {e.chat : e \in Export}
  /\ \A e \in Export :
       /\ upload[e].pc \in Label
       /\ upload[e].line \in 1..Len(e.lines)
       /\ upload[e].pc = "saving" <=> upload[e].author # NoAuthor
  /\ finished \subseteq Export

Init ==
  /\ participants = {}
  /\ messages = {}
  /\ upload = [e \in Export |-> NoUpload]
  /\ crashes = 0
  /\ finished = {}
  /\ landed = [e \in Export |-> [i \in 1..Len(e.lines) |-> {}]]

Sender(e) == e.lines[upload[e].line].sender

At(e, label) == upload[e].pc = label

\* On to the next step, with the author if it is known, of the line or the next.
MoveTo(e, label, line, author) ==
  upload' = [upload EXCEPT ![e] = [pc |-> label, line |-> line, author |-> author]]

Goto(e, label, author) == MoveTo(e, label, upload[e].line, author)

\* ingest() is called for e, for the first time or once more.
Begin(e) ==
  /\ At(e, "idle")
  /\ MoveTo(e, "resolving", 1, NoAuthor)
  /\ UNCHANGED <<tables, crashes, finished, landed>>

\* participant_by_phone, participant_by_alias
AnswersTo(p, chat, s) ==
  /\ p.chat = chat
  /\ \/ s.kind = "phone" /\ p.phone = s.text
     \/ s.kind = "name" /\ s.text \in p.aliases

Carries(p, e) == AnswersTo(p, e.chat, Sender(e))

ResolveFixed(e) ==
  /\ At(e, "resolving")
  /\ \/ Sender(e).kind = "system" /\ Goto(e, "saving", System)
     \/ Sender(e).kind = "you" /\ Goto(e, "saving", Self(e.uploader))
  /\ UNCHANGED <<tables, crashes, finished, landed>>

\* The query takes any one of the rows it finds.
ResolveKnown(e) ==
  /\ At(e, "resolving")
  /\ \E p \in participants : Carries(p, e) /\ Goto(e, "saving", p.id)
  /\ UNCHANGED <<tables, crashes, finished, landed>>

ResolveUnknown(e) ==
  /\ At(e, "resolving")
  /\ Sender(e).kind \in {"name", "phone"}
  /\ ~\E p \in participants : Carries(p, e)
  /\ Goto(e, "creating", NoAuthor)
  /\ UNCHANGED <<tables, crashes, finished, landed>>

NewParticipant(e, id) ==
  LET s == Sender(e) IN
  [id |-> id, chat |-> e.chat,
   phone |-> IF s.kind = "phone" THEN s.text ELSE "",
   aliases |-> IF s.kind = "name" THEN {s.text} ELSE {}]

\* PRIMARY KEY (id), UNIQUE (workspace_id, chat_id, phone_hash)
Conflicts(p, q) ==
  \/ p.id = q.id
  \/ p.chat = q.chat /\ p.phone = q.phone /\ p.phone # ""

\* Variant of CreateParticipant: the id is fresh, not derived from the sender.
CreateParticipantFresh(e) ==
  LET p == NewParticipant(e, <<"p", Sender(e).text, e.uploader>>) IN
  /\ At(e, "creating")
  /\ \A q \in participants : ~(p.phone # "" /\ p.phone = q.phone /\ p.chat = q.chat)
  /\ participants' = participants \union {p}
  /\ Goto(e, "saving", p.id)
  /\ UNCHANGED <<messages, crashes, finished, landed>>

CreateParticipant(e) ==
  LET p == NewParticipant(e, ParticipantId(Sender(e))) IN
  /\ At(e, "creating")
  /\ \A q \in participants : ~Conflicts(p, q)
  /\ participants' = participants \union {p}
  /\ Goto(e, "saving", p.id)
  /\ UNCHANGED <<messages, crashes, finished, landed>>

\* The insertion violates a constraint: ingest returns the error, and what it
\* has stored so far stays.
CreateFails(e) ==
  /\ At(e, "creating")
  /\ \E q \in participants : Conflicts(NewParticipant(e, ParticipantId(Sender(e))), q)
  /\ MoveTo(e, "idle", 1, NoAuthor)
  /\ UNCHANGED <<tables, crashes, finished, landed>>

\* save_message: INSERT OR IGNORE by fingerprint.
SaveMessage(e) ==
  LET i == upload[e].line
      m == Fingerprint(e, i, upload[e].author) IN
  /\ At(e, "saving")
  /\ messages' = messages \union {m}
  /\ landed' = [landed EXCEPT ![e][i] = @ \union {m}]
  /\ IF i < Len(e.lines)
     THEN /\ MoveTo(e, "resolving", i + 1, NoAuthor)
          /\ UNCHANGED finished
     ELSE /\ MoveTo(e, "idle", 1, NoAuthor)
          /\ finished' = finished \union {e}
  /\ UNCHANGED <<participants, crashes>>

\* The process dies with the uploads it was ingesting.
Crash ==
  /\ \E e \in Export : ~At(e, "idle")
  /\ crashes < MaxCrashes
  /\ crashes' = crashes + 1
  /\ upload' = [e \in Export |-> NoUpload]
  /\ UNCHANGED <<tables, finished, landed>>

Ingest(e) ==
  \/ Begin(e)
  \/ ResolveFixed(e) \/ ResolveKnown(e) \/ ResolveUnknown(e)
  \/ CreateParticipant(e) \/ CreateFails(e)
  \/ SaveMessage(e)

Next == Crash \/ \E e \in Export : Ingest(e)

Spec == Init /\ [][Next]_vars

-----------------------------------------------------------------------------
(* Properties *)

\* Who a stored message is attributed to exists, in the message's own chat,
\* whatever was interrupted.
AuthorsKnown ==
  \A m \in messages : m.author[1] = "p" =>
    \E p \in participants : p.id = m.author /\ p.chat = m.chat

\* A line that several exports of a chat show alike is one row, however the
\* uploads interleave, die and start over.
SharedLinesCollapse ==
  \A e, f \in Export : \A i \in 1..Len(e.lines), j \in 1..Len(f.lines) :
    e.chat = f.chat /\ e.lines[i] = f.lines[j] /\ e.lines[i].sender.kind # "you" =>
      Cardinality(landed[e][i] \union landed[f][j]) <= 1

\* No two participants of a chat answer to the same name or number.
OneParticipantPerSender ==
  \A p, q \in participants :
    p # q /\ p.chat = q.chat =>
      /\ p.aliases \intersect q.aliases = {}
      /\ p.phone = q.phone => p.phone = ""

\* Both: who wrote what is known, and nobody is two people.
IdentitiesSound == AuthorsKnown /\ OneParticipantPerSender

\* Ingesting an export again, once it went through, changes nothing.
ReimportChangesNothing ==
  [][\A e \in finished : upload'[e] # upload[e] => UNCHANGED tables]_vars

\* Participants are a chat's own: nobody else's stands in the way of a new one.
ParticipantsPerChat ==
  \A e \in Export : At(e, "creating") =>
    \A p \in participants : p.id = ParticipantId(Sender(e)) => p.chat = e.chat

=============================================================================
